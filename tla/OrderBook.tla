----------------------------- MODULE OrderBook -----------------------------
(***************************************************************************)
(* The order book of orderbook.rs: an index from order ids to slab handles, *)
(* and per instrument a slab of nodes linked into the price levels of its    *)
(* two sides (BookSide).  All of it belongs to the decode thread.            *)
(***************************************************************************)
EXTENDS BookSide

CONSTANTS
  Instrs, Ids,
  Qtys,           \* positive quantities
  ConsumeTrades,
  AvoidSplit      \* the feed adds nothing at an aligned price that lies in overflow

ASSUME BookAssumption ==
  /\ Qtys \subseteq Nat \ {0}
  /\ ConsumeTrades \in BOOLEAN /\ AvoidSplit \in BOOLEAN

VARIABLES books, index, last_instr

vars == <<books, index, last_instr>>

None == "none"
EmptyBook == [sides |-> [x \in Sides |-> EmptySide], orders |-> EmptyMap,
              free |-> [k \in 1 .. MaxOrders |-> k]]

----------------------------------------------------------------------------
(***************************************************************************)
(* InstrumentBook: add, set_qty and cancel.                                *)
(***************************************************************************)
SetNext(orders, h, v) == IF h = Nil THEN orders ELSE [orders EXCEPT ![h].next = v]
SetPrev(orders, h, v) == IF h = Nil THEN orders ELSE [orders EXCEPT ![h].prev = v]

\* Slab::insert takes the slot freed last.
AddOrder(b, p, q, side) ==
  LET h == Head(b.free)
      tail == LevelAt(EnsureLevel(b.sides[side], p), p).tail
      n == [price |-> p, qty |-> q, side |-> side, prev |-> tail, next |-> Nil]
  IN  [sides |-> [b.sides EXCEPT ![side] = AddInSide(@, h, p, q, side)],
       orders |-> SetNext(With(b.orders, h, n), tail, h),
       free |-> Tail(b.free)]

SetQty(b, h, q) ==
  LET n == b.orders[h]
  IN  [sides |-> [b.sides EXCEPT ![n.side] = SetQtyInSide(@, n, q)],
       orders |-> [b.orders EXCEPT ![h].qty = q],
       free |-> b.free]

Cancel(b, h) ==
  LET n == b.orders[h]
  IN  [sides |-> [b.sides EXCEPT ![n.side] = CancelInSide(@, n)],
       orders |-> Without(SetPrev(SetNext(b.orders, n.prev, n.next), n.next, n.prev), h),
       free |-> <<h>> \o b.free]

\* iter_fifo from a head.
Fifo(b, h) ==
  LET walk[k \in DOMAIN b.orders \cup {Nil}] ==
        IF k = Nil THEN <<>> ELSE <<k>> \o walk[b.orders[k].next]
  IN  walk[h]

IdOf(ix, i, h) == {o \in DOMAIN ix : ix[o] = [instr |-> i, h |-> h]}

----------------------------------------------------------------------------
(***************************************************************************)
(* OrderBook::apply, one action per event.                                 *)
(***************************************************************************)
Init ==
  /\ books = EmptyMap
  /\ index = EmptyMap
  /\ last_instr = None

\* book_mut: the first order of an instrument creates its book.
BookOf(i) == IF i \in DOMAIN books THEN books[i] ELSE EmptyBook

\* The venue does not reuse the id of a live order.
Add(o, i, p, q, side) ==
  /\ o \notin DOMAIN index /\ BookOf(i).free # <<>>
  /\ AvoidSplit => (p % Tick # 0 \/ p \notin DOMAIN BookOf(i).sides[side].overflow)
  /\ books' = With(books, i, AddOrder(BookOf(i), p, q, side))
  /\ index' = With(index, o, [instr |-> i, h |-> Head(BookOf(i).free)])
  /\ last_instr' = i

\* Mutant: an order reduced to zero stays in the book.
ReduceKeepsZero(o, q) ==
  LET i == index[o].instr
      h == index[o].h
  IN  IF q >= 0
      THEN books' = [books EXCEPT ![i] = SetQty(@, h, q)] /\ UNCHANGED index
      ELSE books' = [books EXCEPT ![i] = Cancel(@, h)] /\ index' = Without(index, o)

\* Mutant: a change of quantity cancels the order and adds it again.
ReduceRequeues(o, q) ==
  LET i == index[o].instr
      n == books[i].orders[index[o].h]
      c == Cancel(books[i], index[o].h)
  IN  IF q > 0
      THEN books' = [books EXCEPT ![i] = AddOrder(c, n.price, q, n.side)] /\ UNCHANGED index
      ELSE books' = [books EXCEPT ![i] = c] /\ index' = Without(index, o)

\* A quantity of zero or less removes the order.
Reduce(o, q) ==
  LET i == index[o].instr
      h == index[o].h
  IN  IF q > 0
      THEN books' = [books EXCEPT ![i] = SetQty(@, h, q)] /\ UNCHANGED index
      ELSE books' = [books EXCEPT ![i] = Cancel(@, h)] /\ index' = Without(index, o)

Mod(o, q) ==
  /\ o \in DOMAIN index
  /\ Reduce(o, q)
  /\ last_instr' = index[o].instr

\* Mutant: the index is read, not cleared.
DelKeepsIndex(o) ==
  /\ o \in DOMAIN index
  /\ books' = [books EXCEPT ![index[o].instr] = Cancel(@, index[o].h)]
  /\ last_instr' = index[o].instr
  /\ UNCHANGED index

Del(o) ==
  /\ o \in DOMAIN index
  /\ books' = [books EXCEPT ![index[o].instr] = Cancel(@, index[o].h)]
  /\ index' = Without(index, o)
  /\ last_instr' = index[o].instr

\* Trade on instrument i; the maker may be unknown.  The quantity left is not below 0.
Trade(i, o, q) ==
  /\ last_instr' = i
  /\ IF ConsumeTrades /\ o \in DOMAIN index
     THEN LET left == books[index[o].instr].orders[index[o].h].qty - q
          IN  Reduce(o, IF left < 0 THEN 0 ELSE left)
     ELSE UNCHANGED <<books, index>>

\* One call of apply.
Next ==
  \E o \in Ids :
    \/ Del(o)
    \/ \E q \in Qtys \cup {0} : Mod(o, q)
    \/ \E i \in Instrs, q \in Qtys :
         \/ Trade(i, o, q)
         \/ \E p \in Prices, side \in Sides : Add(o, i, p, q, side)

\* One life of the process: a book that starts empty and is not restored.
Spec == Init /\ [][Next]_vars

----------------------------------------------------------------------------
\* The nodes of a book's orders at a price of a side, and their units.
NodesAt(b, side, p) == {h \in DOMAIN b.orders : b.orders[h].side = side /\ b.orders[h].price = p}
UnitsAt(b, side, p) == UNION {{h} \X (1 .. b.orders[h].qty) : h \in NodesAt(b, side, p)}
LivePrices(b, side) == {p \in Prices : NodesAt(b, side, p) # {}}

TypeOK ==
  /\ DOMAIN books \subseteq Instrs
  /\ \A i \in DOMAIN books : \A h \in DOMAIN books[i].orders :
       books[i].orders[h] \in [price : Prices, qty : Nat \ {0}, side : Sides,
                               prev : 0 .. MaxOrders, next : 0 .. MaxOrders]
  /\ DOMAIN index \subseteq Ids
  /\ \A o \in DOMAIN index : index[o] \in [instr : Instrs, h : 1 .. MaxOrders]
  /\ last_instr \in Instrs \cup {None}

\* The index and the slabs hold the same orders: no node leaks and no handle dangles,
\* so indexing the slab does not panic.
IndexMatchesSlab ==
  \A i \in Instrs :
    /\ {index[o].h : o \in {x \in DOMAIN index : index[x].instr = i}} = DOMAIN BookOf(i).orders
    /\ \A o, x \in DOMAIN index : index[o] = index[x] => o = x

\* The cached best price and quantity of a side are those of its live orders.
BboExact ==
  \A i \in Instrs, side \in Sides :
    LET b == BookOf(i)
        s == b.sides[side]
        ps == LivePrices(b, side)
    IN  IF ps = {} THEN s.best = <<>>
        ELSE s.best = <<BestOf(side, ps)>> /\ s.best_qty = Cardinality(UnitsAt(b, side, s.best[1]))

\* What keeps the cached best right: a price has one level, in the grid only within the
\* window; it has one exactly while it has orders; and the level counts its orders and
\* their units.
LevelExact(b, side, p) ==
  LET s == b.sides[side]
      l == LevelAt(s, p)
  IN  /\ HasLevel(s, p) <=> NodesAt(b, side, p) # {}
      /\ HasLevel(s, p) => l.count = Cardinality(NodesAt(b, side, p))
      /\ HasLevel(s, p) => l.total_qty = Cardinality(UnitsAt(b, side, p))
LevelsExact ==
  \A i \in Instrs, side \in Sides :
    LET b == BookOf(i)
        s == b.sides[side]
    IN  /\ DOMAIN s.grid \cap DOMAIN s.overflow = {}
        /\ \A p \in DOMAIN s.grid : InWindow(s, p)
        /\ s.initialized => s.start_price % Tick = 0
        /\ \A p \in Prices : LevelExact(b, side, p)

\* The orders of a level, first in first out.
Places == Instrs \X Sides \X Prices
Sizes == UNION {1 .. q : q \in Qtys}
QueueAt(b, i, s, p) ==
  LET hs == IF HasLevel(s, p) THEN Fifo(b, LevelAt(s, p).head) ELSE <<>>
  IN  [k \in 1 .. Len(hs) |->
        [id |-> CHOOSE o \in IdOf(index, i, hs[k]) : TRUE, qty |-> b.orders[hs[k]].qty]]

\* The book implements price-time priority: every queue is kept in the order of arrival.
PriceTime == INSTANCE PriceTimeBook WITH
  queue <- [x \in Places |-> QueueAt(BookOf(x[1]), x[1], BookOf(x[1]).sides[x[2]], x[3])]
ImplementsPriceTime == PriceTime!Spec

\* The lists of a book, and whether each starts at a live node.
HeadsOf(levels) == {levels[p].head : p \in DOMAIN levels}
Heads(b) == UNION {HeadsOf(b.sides[x].grid) \cup HeadsOf(b.sides[x].overflow) : x \in Sides}

\* "Recenters a grid around the given price and moves existing non-empty grid levels
\* into the overflow map to preserve state": the levels' lists start at live nodes
\* and hold every live order.
StatePreserved ==
  \A i \in DOMAIN books :
    LET b == books[i]
    IN  /\ Heads(b) \subseteq DOMAIN b.orders
        /\ \A k \in DOMAIN b.orders : \E h \in Heads(b) : \E j \in DOMAIN Fifo(b, h) : Fifo(b, h)[j] = k
=============================================================================
