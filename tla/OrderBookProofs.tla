-------------------------- MODULE OrderBookProofs --------------------------
(***************************************************************************)
(* Proofs about the order book of OrderBook.tla, for any instruments, ids,  *)
(* prices, quantities, grid and slab size.                                 *)
(***************************************************************************)
EXTENDS OrderBook, BookSideProofs

----------------------------------------------------------------------------
(***************************************************************************)
(* The slab: its nodes and its free slots.                                 *)
(***************************************************************************)
NodeMaps == UNION {[H -> NodeType] : H \in SUBSET Handles}
BookType == [sides : [Sides -> SideType], orders : NodeMaps, free : Seq(Handles)]

LEMMA NodeMapFacts ==
  ASSUME NEW f \in NodeMaps
  PROVE  DOMAIN f \subseteq Handles /\ \A h \in DOMAIN f : f[h] \in NodeType
BY DEF NodeMaps

LEMMA NodeMapIntro ==
  ASSUME NEW H, H \subseteq Handles, NEW f \in [H -> NodeType]
  PROVE  f \in NodeMaps
BY DEF NodeMaps

\* What an update of a link leaves alone.
LEMMA SetNextFields ==
  ASSUME NEW f \in NodeMaps, NEW h, NEW v \in 0 .. MaxOrders
  PROVE  LET g == SetNext(f, h, v)
         IN  /\ g \in NodeMaps /\ DOMAIN g = DOMAIN f
             /\ \A k \in DOMAIN f :
                  /\ g[k].price = f[k].price /\ g[k].qty = f[k].qty /\ g[k].side = f[k].side
                  /\ g[k].prev = f[k].prev
                  /\ g[k].next = IF k = h THEN v ELSE f[k].next
<1> DEFINE g == SetNext(f, h, v)
<1>1. CASE h \notin DOMAIN f
  <2>1. g = f
    BY <1>1 DEF SetNext, NodeMaps
  <2> HIDE DEF g
  <2> QED BY <1>1, <2>1 DEF g
<1>2. CASE h \in DOMAIN f
  <2>1. h # Nil /\ f[h] \in NodeType
    BY <1>2, NodeMapFacts DEF Nil, Handles
  <2> DEFINE n == [price |-> f[h].price, qty |-> f[h].qty, side |-> f[h].side,
                   prev |-> f[h].prev, next |-> v]
  <2>2. [f[h] EXCEPT !.next = v] = n
    BY <2>1 DEF NodeType
  <2>3. n \in NodeType
    BY <2>1 DEF NodeType
  <2>4. g = [f EXCEPT ![h] = [f[h] EXCEPT !.next = v]]
    BY <2>1 DEF SetNext
  <2>5. g = [f EXCEPT ![h] = n]
    <3> HIDE DEF g, n
    <3> QED BY <2>2, <2>4
  <2> HIDE DEF g
  <2>6. DOMAIN g = DOMAIN f /\ g[h] = n /\ \A k \in DOMAIN f : k # h => g[k] = f[k]
    <3> HIDE DEF n
    <3> QED BY <1>2, <2>5
  <2>7. g \in [DOMAIN f -> NodeType]
    <3> HIDE DEF n
    <3> QED BY <2>3, <2>5, NodeMapFacts
  <2>8. g \in NodeMaps
    BY <2>7, NodeMapFacts, NodeMapIntro
  <2>9. ASSUME NEW k \in DOMAIN f
        PROVE  /\ g[k].price = f[k].price /\ g[k].qty = f[k].qty /\ g[k].side = f[k].side
               /\ g[k].prev = f[k].prev
               /\ g[k].next = IF k = h THEN v ELSE f[k].next
    BY <2>6
  <2> QED BY <2>6, <2>8, <2>9 DEF g
<1> QED BY <1>1, <1>2

LEMMA SetPrevFields ==
  ASSUME NEW f \in NodeMaps, NEW h, NEW v \in 0 .. MaxOrders
  PROVE  LET g == SetPrev(f, h, v)
         IN  /\ g \in NodeMaps /\ DOMAIN g = DOMAIN f
             /\ \A k \in DOMAIN f :
                  /\ g[k].price = f[k].price /\ g[k].qty = f[k].qty /\ g[k].side = f[k].side
                  /\ g[k].next = f[k].next
                  /\ g[k].prev = IF k = h THEN v ELSE f[k].prev
<1> DEFINE g == SetPrev(f, h, v)
<1>1. CASE h \notin DOMAIN f
  <2>1. g = f
    BY <1>1 DEF SetPrev, NodeMaps
  <2> HIDE DEF g
  <2> QED BY <1>1, <2>1 DEF g
<1>2. CASE h \in DOMAIN f
  <2>1. h # Nil /\ f[h] \in NodeType
    BY <1>2, NodeMapFacts DEF Nil, Handles
  <2> DEFINE n == [price |-> f[h].price, qty |-> f[h].qty, side |-> f[h].side,
                   prev |-> v, next |-> f[h].next]
  <2>2. [f[h] EXCEPT !.prev = v] = n
    BY <2>1 DEF NodeType
  <2>3. n \in NodeType
    BY <2>1 DEF NodeType
  <2>4. g = [f EXCEPT ![h] = [f[h] EXCEPT !.prev = v]]
    BY <2>1 DEF SetPrev
  <2>5. g = [f EXCEPT ![h] = n]
    <3> HIDE DEF g, n
    <3> QED BY <2>2, <2>4
  <2> HIDE DEF g
  <2>6. DOMAIN g = DOMAIN f /\ g[h] = n /\ \A k \in DOMAIN f : k # h => g[k] = f[k]
    <3> HIDE DEF n
    <3> QED BY <1>2, <2>5
  <2>7. g \in [DOMAIN f -> NodeType]
    <3> HIDE DEF n
    <3> QED BY <2>3, <2>5, NodeMapFacts
  <2>8. g \in NodeMaps
    BY <2>7, NodeMapFacts, NodeMapIntro
  <2>9. ASSUME NEW k \in DOMAIN f
        PROVE  /\ g[k].price = f[k].price /\ g[k].qty = f[k].qty /\ g[k].side = f[k].side
               /\ g[k].next = f[k].next
               /\ g[k].prev = IF k = h THEN v ELSE f[k].prev
    BY <2>6
  <2> QED BY <2>6, <2>8, <2>9 DEF g
<1> QED BY <1>1, <1>2

\* A slot is free at most once, and no free slot holds a node.
SlabOK(b) ==
  /\ b \in BookType
  /\ \A j, k \in DOMAIN b.free : b.free[j] = b.free[k] => j = k
  /\ \A k \in DOMAIN b.free : b.free[k] \notin DOMAIN b.orders

\* Node k of f is the same order in g.
SameOrder(f, g, k) == g[k].price = f[k].price /\ g[k].qty = f[k].qty /\ g[k].side = f[k].side

LEMMA BookFacts ==
  ASSUME NEW b \in BookType
  PROVE  /\ b.sides \in [Sides -> SideType] /\ b.orders \in NodeMaps /\ b.free \in Seq(Handles)
         /\ DOMAIN b.orders \subseteq Handles
         /\ \A h \in DOMAIN b.orders : b.orders[h] \in NodeType
BY NodeMapFacts DEF BookType

\* The slab of an empty book.
LEMMA EmptyBookSlab ==
  /\ SlabOK(EmptyBook) /\ DOMAIN EmptyBook.orders = {}
  /\ EmptyBook.sides = [x \in Sides |-> EmptySide]
<1> DEFINE fr == [k \in 1 .. MaxOrders |-> k]
<1>1. EmptyMap \in NodeMaps /\ DOMAIN EmptyMap = {}
  <2>1. DOMAIN EmptyMap = {} /\ EmptyMap \in [{} -> NodeType]
    BY DEF EmptyMap
  <2> QED BY <2>1, NodeMapIntro
<1>2. EmptySide \in SideType
  <2>1. <<>> \in Seq(Prices)
    OBVIOUS
  <2> QED BY <2>1, EmptyMapType DEF EmptySide, SideType
<1>3. fr \in Seq(Handles) /\ DOMAIN fr = 1 .. MaxOrders
  BY SideAssumption DEF Handles
<1>4. EmptyBook = [sides |-> [x \in Sides |-> EmptySide], orders |-> EmptyMap, free |-> fr]
  BY DEF EmptyBook
<1>5. \A k \in DOMAIN fr : fr[k] = k
  OBVIOUS
<1> HIDE DEF fr
<1>6. EmptyBook \in BookType
  BY <1>1, <1>2, <1>3, <1>4 DEF BookType
<1> QED BY <1>1, <1>4, <1>5, <1>6 DEF SlabOK

\* add takes a free slot, and changes no other order but for one link.
OrderAdded(b, c, h, p, q, side) ==
  /\ SlabOK(c) /\ h \in Handles /\ h \notin DOMAIN b.orders
  /\ DOMAIN c.orders = DOMAIN b.orders \cup {h}
  /\ \A k \in DOMAIN b.orders : SameOrder(b.orders, c.orders, k)
  /\ c.orders[h].price = p /\ c.orders[h].qty = q /\ c.orders[h].side = side
  /\ c.sides = [b.sides EXCEPT ![side] = AddInSide(b.sides[side], h, p, q, side)]

LEMMA AddOrderEffect ==
  ASSUME NEW b, SlabOK(b), b.free # <<>>, NEW p \in Prices, NEW q \in Nat \ {0}, NEW side \in Sides
  PROVE  OrderAdded(b, AddOrder(b, p, q, side), Head(b.free), p, q, side)
<1> DEFINE h == Head(b.free)
           tail == LevelAt(EnsureLevel(b.sides[side], p), p).tail
           n == [price |-> p, qty |-> q, side |-> side, prev |-> tail, next |-> Nil]
           g == With(b.orders, h, n)
           c == AddOrder(b, p, q, side)
<1>1. /\ b \in BookType /\ b.sides \in [Sides -> SideType] /\ b.orders \in NodeMaps
      /\ b.free \in Seq(Handles)
  BY BookFacts DEF SlabOK
<1>2. /\ h \in Handles /\ 1 \in DOMAIN b.free /\ h = b.free[1]
      /\ Tail(b.free) \in Seq(Handles) /\ Len(Tail(b.free)) = Len(b.free) - 1
      /\ \A i \in 1 .. Len(Tail(b.free)) : Tail(b.free)[i] = b.free[i + 1]
  BY <1>1
<1>3. h \notin DOMAIN b.orders
  BY <1>2 DEF SlabOK
<1>4. tail \in 0 .. MaxOrders
  <2> DEFINE e == EnsureLevel(b.sides[side], p)
  <2>1. e \in SideType /\ HasLevel(e, p)
    BY <1>1, EnsureLevelType
  <2> HIDE DEF e
  <2>2. LevelAt(e, p) \in LevelType
    BY <2>1, LevelAtType
  <2> QED BY <2>2 DEF LevelType, e
<1>5. n \in NodeType
  <2> HIDE DEF tail
  <2> QED BY <1>4, SideAssumption DEF NodeType, Nil
<1>6. /\ DOMAIN g = DOMAIN b.orders \cup {h} /\ g[h] = n
      /\ \A k \in DOMAIN b.orders : g[k] = b.orders[k]
  <2> HIDE DEF n, h
  <2> QED BY <1>3 DEF With
<1>7. g \in NodeMaps
  <2>1. g \in [DOMAIN b.orders \cup {h} -> NodeType]
    <3> HIDE DEF n, h
    <3> QED BY <1>1, <1>5, NodeMapFacts DEF With
  <2>2. DOMAIN b.orders \cup {h} \subseteq Handles
    BY <1>1, <1>2, NodeMapFacts
  <2> HIDE DEF g
  <2> QED BY <2>1, <2>2, NodeMapIntro
<1>8. c = [sides |-> [b.sides EXCEPT ![side] = AddInSide(b.sides[side], h, p, q, side)],
           orders |-> SetNext(g, tail, h), free |-> Tail(b.free)]
  BY DEF AddOrder
<1>9. n.price = p /\ n.qty = q /\ n.side = side
  OBVIOUS
<1> HIDE DEF h, tail, n, g, c
<1>10. /\ c.orders \in NodeMaps /\ DOMAIN c.orders = DOMAIN g
       /\ \A k \in DOMAIN g : SameOrder(g, c.orders, k)
  <2>1. h \in 0 .. MaxOrders
    BY <1>2, SideAssumption DEF Handles
  <2> QED BY <1>7, <1>8, <2>1, SetNextFields DEF SameOrder
<1>11. AddInSide(b.sides[side], h, p, q, side) \in SideType
  BY <1>1, <1>2, SideTypeKept
<1>12. c \in BookType
  BY <1>1, <1>2, <1>8, <1>10, <1>11 DEF BookType
<1>13. SlabOK(c)
  <2>1. c.free = Tail(b.free)
    BY <1>8
  <2>2. /\ DOMAIN c.free = 1 .. Len(b.free) - 1 /\ Len(b.free) \in Nat
        /\ DOMAIN b.free = 1 .. Len(b.free)
        /\ \A i \in DOMAIN c.free : c.free[i] = b.free[i + 1]
    BY <1>1, <1>2, <2>1
  <2>3. \A j, k \in DOMAIN c.free : c.free[j] = c.free[k] => j = k
    <3> SUFFICES ASSUME NEW j \in DOMAIN c.free, NEW k \in DOMAIN c.free, c.free[j] = c.free[k]
                 PROVE  j = k
        OBVIOUS
    <3>1. j + 1 \in DOMAIN b.free /\ k + 1 \in DOMAIN b.free /\ b.free[j + 1] = b.free[k + 1]
      BY <2>2
    <3>2. j + 1 = k + 1
      BY <3>1 DEF SlabOK
    <3> QED BY <2>2, <3>2
  <2>4. \A k \in DOMAIN c.free : c.free[k] \notin DOMAIN c.orders
    <3> SUFFICES ASSUME NEW k \in DOMAIN c.free PROVE c.free[k] \notin DOMAIN c.orders
        OBVIOUS
    <3>1. k + 1 \in DOMAIN b.free /\ c.free[k] = b.free[k + 1] /\ k + 1 # 1
      BY <2>2
    <3>2. c.free[k] # h /\ c.free[k] \notin DOMAIN b.orders
      BY <1>2, <3>1 DEF SlabOK
    <3> QED BY <1>6, <1>10, <3>2
  <2> QED BY <1>12, <2>3, <2>4 DEF SlabOK
<1>14. \A k \in DOMAIN b.orders : SameOrder(b.orders, c.orders, k)
  BY <1>6, <1>10 DEF SameOrder
<1>15. c.orders[h].price = p /\ c.orders[h].qty = q /\ c.orders[h].side = side
  BY <1>6, <1>9, <1>10 DEF SameOrder
<1>16. c.sides = [b.sides EXCEPT ![side] = AddInSide(b.sides[side], h, p, q, side)]
  BY <1>8
<1>17. OrderAdded(b, c, h, p, q, side)
  BY <1>2, <1>3, <1>6, <1>10, <1>13, <1>14, <1>15, <1>16 DEF OrderAdded
<1> QED BY <1>17 DEF h, c

\* set_qty changes one quantity.
OrderResized(b, c, h, n, q) ==
  /\ SlabOK(c) /\ n \in NodeType
  /\ DOMAIN c.orders = DOMAIN b.orders
  /\ \A k \in DOMAIN b.orders \ {h} : c.orders[k] = b.orders[k]
  /\ c.orders[h] = [price |-> n.price, qty |-> q, side |-> n.side, prev |-> n.prev, next |-> n.next]
  /\ c.sides = [b.sides EXCEPT ![n.side] = SetQtyInSide(b.sides[n.side], n, q)]

LEMMA SetQtyEffect ==
  ASSUME NEW b, SlabOK(b), NEW h \in DOMAIN b.orders, NEW q \in Nat \ {0}
  PROVE  OrderResized(b, SetQty(b, h, q), h, b.orders[h], q)
<1> DEFINE n == b.orders[h]
           m == [price |-> n.price, qty |-> q, side |-> n.side, prev |-> n.prev, next |-> n.next]
           c == SetQty(b, h, q)
<1>1. /\ b \in BookType /\ b.sides \in [Sides -> SideType] /\ b.orders \in NodeMaps
      /\ b.free \in Seq(Handles) /\ n \in NodeType
  BY BookFacts DEF SlabOK
<1>2. [n EXCEPT !.qty = q] = m /\ m \in NodeType /\ n.side \in Sides
  <2> HIDE DEF n
  <2> QED BY <1>1 DEF NodeType
<1>3. [b.orders EXCEPT ![h].qty = q] = [b.orders EXCEPT ![h] = [n EXCEPT !.qty = q]]
  OBVIOUS
<1>4. [b.orders EXCEPT ![h].qty = q] = [b.orders EXCEPT ![h] = m]
  BY <1>2, <1>3, Zenon
<1>5. c = [sides |-> [b.sides EXCEPT ![n.side] = SetQtyInSide(b.sides[n.side], n, q)],
           orders |-> [b.orders EXCEPT ![h].qty = q], free |-> b.free]
  BY DEF SetQty
<1> HIDE DEF n, m, c
<1>6. /\ c.orders = [b.orders EXCEPT ![h] = m] /\ c.free = b.free
      /\ c.sides = [b.sides EXCEPT ![n.side] = SetQtyInSide(b.sides[n.side], n, q)]
  BY <1>4, <1>5
<1>7. /\ DOMAIN c.orders = DOMAIN b.orders /\ c.orders[h] = m
      /\ \A k \in DOMAIN b.orders \ {h} : c.orders[k] = b.orders[k]
  BY <1>6
<1>8. c.orders \in NodeMaps
  <2>1. c.orders \in [DOMAIN b.orders -> NodeType]
    BY <1>1, <1>2, <1>6, NodeMapFacts
  <2> QED BY <1>1, <2>1, NodeMapFacts, NodeMapIntro
<1>9. SetQtyInSide(b.sides[n.side], n, q) \in SideType
  BY <1>1, <1>2, SideTypeKept
<1>10. c.sides \in [Sides -> SideType]
  BY <1>1, <1>6, <1>9
<1>11. c \in BookType
  BY <1>1, <1>5, <1>6, <1>8, <1>10 DEF BookType
<1>12. SlabOK(c)
  BY <1>6, <1>7, <1>11 DEF SlabOK
<1>13. OrderResized(b, c, h, n, q)
  BY <1>1, <1>6, <1>7, <1>12 DEF OrderResized, m
<1> QED BY <1>13 DEF n, c

\* cancel frees the slot, and changes no other order but for two links.
OrderRemoved(b, c, h, n) ==
  /\ SlabOK(c) /\ n \in NodeType
  /\ DOMAIN c.orders = DOMAIN b.orders \ {h}
  /\ \A k \in DOMAIN b.orders \ {h} : SameOrder(b.orders, c.orders, k)
  /\ c.sides = [b.sides EXCEPT ![n.side] = CancelInSide(b.sides[n.side], n)]

LEMMA CancelEffect ==
  ASSUME NEW b, SlabOK(b), NEW h \in DOMAIN b.orders
  PROVE  OrderRemoved(b, Cancel(b, h), h, b.orders[h])
<1> DEFINE n == b.orders[h]
           f == SetNext(b.orders, n.prev, n.next)
           g == SetPrev(f, n.next, n.prev)
           c == Cancel(b, h)
<1>1. /\ b \in BookType /\ b.sides \in [Sides -> SideType] /\ b.orders \in NodeMaps
      /\ b.free \in Seq(Handles) /\ n \in NodeType /\ h \in Handles
  BY BookFacts DEF SlabOK
<1>2. n.prev \in 0 .. MaxOrders /\ n.next \in 0 .. MaxOrders /\ n.side \in Sides
  <2> HIDE DEF n
  <2> QED BY <1>1 DEF NodeType
<1>3. c = [sides |-> [b.sides EXCEPT ![n.side] = CancelInSide(b.sides[n.side], n)],
           orders |-> Without(g, h), free |-> <<h>> \o b.free]
  BY DEF Cancel
<1> HIDE DEF n, g, c
<1>4. /\ f \in NodeMaps /\ DOMAIN f = DOMAIN b.orders
      /\ \A k \in DOMAIN b.orders : SameOrder(b.orders, f, k)
  BY <1>1, <1>2, SetNextFields DEF SameOrder
<1> HIDE DEF f
<1>5. /\ g \in NodeMaps /\ DOMAIN g = DOMAIN b.orders
      /\ \A k \in DOMAIN b.orders : SameOrder(f, g, k)
  BY <1>2, <1>4, SetPrevFields DEF SameOrder, g
<1>6. /\ c.orders = Without(g, h) /\ c.free = <<h>> \o b.free
      /\ c.sides = [b.sides EXCEPT ![n.side] = CancelInSide(b.sides[n.side], n)]
  BY <1>3
<1>7. /\ DOMAIN c.orders = DOMAIN b.orders \ {h}
      /\ \A k \in DOMAIN b.orders \ {h} : c.orders[k] = g[k]
  BY <1>5, <1>6 DEF Without
<1>8. c.orders \in NodeMaps
  <2>1. c.orders \in [DOMAIN g \ {h} -> NodeType]
    BY <1>5, <1>6, NodeMapFacts DEF Without
  <2> QED BY <1>5, <2>1, NodeMapFacts, NodeMapIntro
<1>9. CancelInSide(b.sides[n.side], n) \in SideType
  BY <1>1, <1>2, SideTypeKept
<1>10. c.sides \in [Sides -> SideType]
  BY <1>1, <1>6, <1>9
<1>11. /\ c.free \in Seq(Handles) /\ Len(c.free) = 1 + Len(b.free) /\ Len(b.free) \in Nat
       /\ c.free[1] = h /\ \A i \in 2 .. 1 + Len(b.free) : c.free[i] = b.free[i - 1]
  BY <1>1, <1>6
<1>12. c \in BookType
  BY <1>3, <1>6, <1>8, <1>10, <1>11 DEF BookType
<1>13. \A k \in DOMAIN b.orders \ {h} : SameOrder(b.orders, c.orders, k)
  BY <1>4, <1>5, <1>7 DEF SameOrder
<1>14. SlabOK(c)
  <2>1. DOMAIN c.free = 1 .. 1 + Len(b.free) /\ DOMAIN b.free = 1 .. Len(b.free)
    BY <1>1, <1>11
  <2>2. \A i \in DOMAIN c.free : \/ i = 1 /\ c.free[i] = h
                                 \/ i - 1 \in DOMAIN b.free /\ c.free[i] = b.free[i - 1]
    BY <1>11, <2>1
  <2>3. ASSUME NEW j \in DOMAIN c.free, NEW k \in DOMAIN c.free, c.free[j] = c.free[k]
        PROVE  j = k
    <3>1. CASE j = 1 \/ k = 1
      BY <2>1, <2>2, <2>3, <3>1 DEF SlabOK
    <3>2. CASE j # 1 /\ k # 1
      <4>1. j - 1 \in DOMAIN b.free /\ k - 1 \in DOMAIN b.free /\ b.free[j - 1] = b.free[k - 1]
        BY <2>2, <2>3, <3>2
      <4>2. j - 1 = k - 1
        BY <4>1 DEF SlabOK
      <4> QED BY <2>1, <4>2
    <3> QED BY <3>1, <3>2
  <2>4. \A k \in DOMAIN c.free : c.free[k] \notin DOMAIN c.orders
    BY <1>7, <2>2 DEF SlabOK
  <2> QED BY <1>12, <2>3, <2>4 DEF SlabOK
<1>15. OrderRemoved(b, c, h, n)
  BY <1>1, <1>6, <1>7, <1>13, <1>14 DEF OrderRemoved
<1> QED BY <1>15 DEF n, c

----------------------------------------------------------------------------
(***************************************************************************)
(* The index and the slabs.                                                *)
(***************************************************************************)
\* The index is a bijection between the live ids and the nodes of the slabs.
IndexOK(bs, ix) ==
  /\ \A o \in DOMAIN ix : /\ ix[o] \in [instr : DOMAIN bs, h : Handles]
                          /\ ix[o].h \in DOMAIN bs[ix[o].instr].orders
  /\ \A i \in DOMAIN bs : \A h \in DOMAIN bs[i].orders :
       \E o \in DOMAIN ix : ix[o] = [instr |-> i, h |-> h]
  /\ \A o, x \in DOMAIN ix : ix[o] = ix[x] => o = x

SlabInv ==
  /\ DOMAIN books \subseteq Instrs /\ \A i \in DOMAIN books : SlabOK(books[i])
  /\ DOMAIN index \subseteq Ids /\ IndexOK(books, index)
  /\ last_instr \in Instrs \cup {None}

LEMMA BookOfSlab ==
  ASSUME SlabInv, NEW i \in Instrs
  PROVE  SlabOK(BookOf(i))
BY EmptyBookSlab DEF SlabInv, BookOf

LEMMA EntryFacts ==
  ASSUME SlabInv, NEW o \in DOMAIN index
  PROVE  /\ index[o].instr \in DOMAIN books /\ index[o].instr \in Instrs
         /\ index[o].h \in DOMAIN books[index[o].instr].orders
         /\ SlabOK(books[index[o].instr])
         /\ index[o] = [instr |-> index[o].instr, h |-> index[o].h]
BY DEF SlabInv, IndexOK

\* A new order gets a new node.
LEMMA AddIndex ==
  ASSUME SlabInv, NEW o \in Ids, NEW i \in Instrs, NEW p \in Prices, NEW q \in Qtys,
         NEW side \in Sides, Add(o, i, p, q, side)
  PROVE  SlabInv'
<1> DEFINE b == BookOf(i)
           c == AddOrder(b, p, q, side)
           h == Head(b.free)
           e == [instr |-> i, h |-> h]
<1>1. /\ o \notin DOMAIN index /\ b.free # <<>>
      /\ books' = With(books, i, c) /\ index' = With(index, o, e) /\ last_instr' = i
  BY DEF Add
<1>2. SlabOK(b) /\ q \in Nat \ {0}
  BY BookOfSlab, BookAssumption
<1>3. /\ SlabOK(c) /\ h \in Handles /\ h \notin DOMAIN b.orders
      /\ DOMAIN c.orders = DOMAIN b.orders \cup {h}
  <2>1. b.free # <<>>
    BY <1>1
  <2> HIDE DEF b
  <2>2. OrderAdded(b, c, h, p, q, side)
    BY <2>1, <1>2, AddOrderEffect
  <2> HIDE DEF c, h
  <2> QED BY <2>2 DEF OrderAdded
<1>4. /\ i \in DOMAIN books => b = books[i]
      /\ i \notin DOMAIN books => DOMAIN b.orders = {}
  BY EmptyBookSlab DEF BookOf
<1>5. e.instr = i /\ e.h = h
  OBVIOUS
<1> HIDE DEF b, c, h
<1>6. /\ DOMAIN books' = DOMAIN books \cup {i} /\ books'[i] = c
      /\ \A j \in DOMAIN books \ {i} : books'[j] = books[j]
  BY <1>1 DEF With
<1>7. /\ DOMAIN index' = DOMAIN index \cup {o} /\ index'[o] = e
      /\ \A x \in DOMAIN index : index'[x] = index[x]
  <2> HIDE DEF e
  <2> QED BY <1>1 DEF With
<1>8. /\ DOMAIN books' \subseteq Instrs /\ \A j \in DOMAIN books' : SlabOK(books'[j])
      /\ DOMAIN index' \subseteq Ids /\ last_instr' \in Instrs \cup {None}
  BY <1>1, <1>3, <1>6, <1>7 DEF SlabInv
<1>9. \A x \in DOMAIN index' : /\ index'[x] \in [instr : DOMAIN books', h : Handles]
                               /\ index'[x].h \in DOMAIN books'[index'[x].instr].orders
  <2>1. ASSUME NEW x \in DOMAIN index
        PROVE  /\ index'[x] \in [instr : DOMAIN books', h : Handles]
               /\ index'[x].h \in DOMAIN books'[index'[x].instr].orders
    <3>1. /\ index[x] \in [instr : DOMAIN books, h : Handles]
          /\ index[x].h \in DOMAIN books[index[x].instr].orders
      BY DEF SlabInv, IndexOK
    <3> QED BY <1>3, <1>4, <1>6, <1>7, <3>1
  <2>2. /\ e \in [instr : DOMAIN books', h : Handles]
        /\ e.h \in DOMAIN books'[e.instr].orders
    BY <1>3, <1>5, <1>6
  <2> HIDE DEF e
  <2> QED BY <1>7, <2>1, <2>2
<1>10. \A j \in DOMAIN books' : \A k \in DOMAIN books'[j].orders :
         \E x \in DOMAIN index' : index'[x] = [instr |-> j, h |-> k]
  <2> SUFFICES ASSUME NEW j \in DOMAIN books', NEW k \in DOMAIN books'[j].orders
               PROVE  \E x \in DOMAIN index' : index'[x] = [instr |-> j, h |-> k]
      OBVIOUS
  <2>1. CASE j = i /\ k = h
    BY <1>7, <2>1
  <2>2. CASE ~(j = i /\ k = h)
    <3>1. j \in DOMAIN books /\ k \in DOMAIN books[j].orders
      BY <1>3, <1>4, <1>6, <2>2
    <3>2. PICK x \in DOMAIN index : index[x] = [instr |-> j, h |-> k]
      BY <3>1 DEF SlabInv, IndexOK
    <3> QED BY <1>7, <3>2
  <2> QED BY <2>1, <2>2
<1>11. \A x, y \in DOMAIN index' : index'[x] = index'[y] => x = y
  <2>1. \A x \in DOMAIN index : index[x] # e
    <3> SUFFICES ASSUME NEW x \in DOMAIN index, index[x] = e PROVE FALSE
        OBVIOUS
    <3>1. index[x].instr = i /\ index[x].h = h
      OBVIOUS
    <3>2. i \in DOMAIN books /\ h \in DOMAIN books[i].orders
      BY <3>1, EntryFacts
    <3> QED BY <1>3, <1>4, <3>2
  <2> HIDE DEF e
  <2> QED BY <1>7, <2>1 DEF SlabInv, IndexOK
<1>12. IndexOK(books', index')
  BY <1>9, <1>10, <1>11 DEF IndexOK
<1> QED BY <1>8, <1>12 DEF SlabInv

\* A new quantity leaves the nodes where they are.
LEMMA SetQtyIndex ==
  ASSUME SlabInv, NEW o \in DOMAIN index, NEW q \in Nat \ {0}, last_instr' \in Instrs,
         books' = [books EXCEPT ![index[o].instr] = SetQty(@, index[o].h, q)], UNCHANGED index
  PROVE  SlabInv'
<1> DEFINE i == index[o].instr
           c == SetQty(books[i], index[o].h, q)
<1>1. /\ i \in DOMAIN books /\ SlabOK(c)
      /\ DOMAIN c.orders = DOMAIN books[i].orders
  <2>1. i \in DOMAIN books /\ SlabOK(books[i]) /\ index[o].h \in DOMAIN books[i].orders
    BY EntryFacts
  <2> HIDE DEF i
  <2>2. OrderResized(books[i], c, index[o].h, books[i].orders[index[o].h], q)
    BY <2>1, SetQtyEffect
  <2> HIDE DEF c
  <2> QED BY <2>1, <2>2 DEF OrderResized
<1>2. books' = [books EXCEPT ![i] = c]
  OBVIOUS
<1> HIDE DEF c, i
<1>3. /\ DOMAIN books' = DOMAIN books
      /\ \A j \in DOMAIN books : DOMAIN books'[j].orders = DOMAIN books[j].orders
      /\ \A j \in DOMAIN books : books'[j] = books[j] \/ books'[j] = c
  BY <1>1, <1>2
<1>4. IndexOK(books', index')
  BY <1>3 DEF SlabInv, IndexOK
<1>5. \A j \in DOMAIN books' : SlabOK(books'[j])
  BY <1>1, <1>3 DEF SlabInv
<1> QED BY <1>3, <1>4, <1>5 DEF SlabInv

\* An order that goes takes its node and its entry with it.
LEMMA CancelIndex ==
  ASSUME SlabInv, NEW o \in DOMAIN index, last_instr' \in Instrs,
         books' = [books EXCEPT ![index[o].instr] = Cancel(@, index[o].h)],
         index' = Without(index, o)
  PROVE  SlabInv'
<1> DEFINE i == index[o].instr
           h == index[o].h
           c == Cancel(books[i], h)
<1>1. /\ i \in DOMAIN books /\ SlabOK(c) /\ h \in DOMAIN books[i].orders
      /\ DOMAIN c.orders = DOMAIN books[i].orders \ {h}
      /\ index[o] = [instr |-> i, h |-> h]
  <2>1. /\ i \in DOMAIN books /\ SlabOK(books[i]) /\ h \in DOMAIN books[i].orders
        /\ index[o] = [instr |-> i, h |-> h]
    BY EntryFacts
  <2> HIDE DEF i, h
  <2>2. OrderRemoved(books[i], c, h, books[i].orders[h])
    BY <2>1, CancelEffect
  <2> HIDE DEF c
  <2> QED BY <2>1, <2>2 DEF OrderRemoved
<1>2. books' = [books EXCEPT ![i] = c]
  OBVIOUS
<1> HIDE DEF c, i, h
<1>3. /\ DOMAIN books' = DOMAIN books /\ books'[i] = c
      /\ \A j \in DOMAIN books \ {i} : books'[j] = books[j]
  BY <1>1, <1>2
<1>4. /\ DOMAIN index' = DOMAIN index \ {o}
      /\ \A x \in DOMAIN index' : index'[x] = index[x]
  BY DEF Without
<1>5. \A x \in DOMAIN index' : /\ index'[x] \in [instr : DOMAIN books', h : Handles]
                               /\ index'[x].h \in DOMAIN books'[index'[x].instr].orders
  <2> SUFFICES ASSUME NEW x \in DOMAIN index'
               PROVE  /\ index[x] \in [instr : DOMAIN books', h : Handles]
                      /\ index[x].h \in DOMAIN books'[index[x].instr].orders
      BY <1>4
  <2>1. /\ x \in DOMAIN index /\ x # o /\ index[x] \in [instr : DOMAIN books, h : Handles]
        /\ index[x].h \in DOMAIN books[index[x].instr].orders
        /\ index[x] = [instr |-> index[x].instr, h |-> index[x].h]
    BY <1>4, EntryFacts DEF SlabInv, IndexOK
  <2>2. index[x] # index[o]
    BY <2>1 DEF SlabInv, IndexOK
  <2>3. ~(index[x].instr = i /\ index[x].h = h)
    BY <1>1, <2>1, <2>2
  <2> QED BY <1>1, <1>3, <2>1, <2>3
<1>6. \A j \in DOMAIN books' : \A k \in DOMAIN books'[j].orders :
         \E x \in DOMAIN index' : index'[x] = [instr |-> j, h |-> k]
  <2> SUFFICES ASSUME NEW j \in DOMAIN books', NEW k \in DOMAIN books'[j].orders
               PROVE  \E x \in DOMAIN index' : index'[x] = [instr |-> j, h |-> k]
      OBVIOUS
  <2>1. j \in DOMAIN books /\ k \in DOMAIN books[j].orders /\ ~(j = i /\ k = h)
    BY <1>1, <1>3
  <2>2. PICK x \in DOMAIN index : index[x] = [instr |-> j, h |-> k]
    BY <2>1 DEF SlabInv, IndexOK
  <2>3. x # o
    <3>1. [instr |-> j, h |-> k] # [instr |-> i, h |-> h]
      BY <2>1
    <3> QED BY <1>1, <2>2, <3>1
  <2> QED BY <1>4, <2>2, <2>3
<1>7. \A x, y \in DOMAIN index' : index'[x] = index'[y] => x = y
  BY <1>4 DEF SlabInv, IndexOK
<1>8. IndexOK(books', index')
  BY <1>5, <1>6, <1>7 DEF IndexOK
<1>9. \A j \in DOMAIN books' : SlabOK(books'[j])
  BY <1>1, <1>3 DEF SlabInv
<1>10. DOMAIN books' \subseteq Instrs /\ DOMAIN index' \subseteq Ids
  BY <1>3, <1>4 DEF SlabInv
<1> QED BY <1>8, <1>9, <1>10 DEF SlabInv

LEMMA ReduceIndex ==
  ASSUME SlabInv, NEW o \in DOMAIN index, NEW q \in Nat, Reduce(o, q), last_instr' \in Instrs
  PROVE  SlabInv'
<1>1. CASE q > 0
  <2>1. /\ books' = [books EXCEPT ![index[o].instr] = SetQty(@, index[o].h, q)]
        /\ UNCHANGED index
    BY <1>1 DEF Reduce
  <2>2. q \in Nat \ {0}
    BY <1>1
  <2> QED BY <2>1, <2>2, SetQtyIndex
<1>2. CASE ~(q > 0)
  <2>1. /\ books' = [books EXCEPT ![index[o].instr] = Cancel(@, index[o].h)]
        /\ index' = Without(index, o)
    BY <1>2 DEF Reduce
  <2> QED BY <2>1, CancelIndex
<1> QED BY <1>1, <1>2

\* An execution leaves a quantity that is not negative.
LEMMA TradeLeaves ==
  ASSUME SlabInv, NEW i \in Instrs, NEW o \in Ids, NEW q \in Qtys, Trade(i, o, q)
  PROVE  \/ o \in DOMAIN index /\ \E r \in Nat : Reduce(o, r)
         \/ UNCHANGED <<books, index>>
<1>1. CASE ConsumeTrades /\ o \in DOMAIN index
  <2> DEFINE b == books[index[o].instr]
             left == b.orders[index[o].h].qty - q
  <2>1. b \in BookType /\ index[o].h \in DOMAIN b.orders
    BY <1>1, EntryFacts DEF SlabOK
  <2>2. b.orders[index[o].h] \in NodeType
    BY <2>1, BookFacts
  <2>3. left \in Int
    BY <2>2, BookAssumption DEF NodeType
  <2>4. Reduce(o, IF left < 0 THEN 0 ELSE left)
    BY <1>1 DEF Trade
  <2> HIDE DEF left
  <2>5. (IF left < 0 THEN 0 ELSE left) \in Nat
    BY <2>3
  <2> QED BY <1>1, <2>4, <2>5
<1>2. CASE ~(ConsumeTrades /\ o \in DOMAIN index)
  BY <1>2 DEF Trade
<1> QED BY <1>1, <1>2

LEMMA SlabInit == Init => SlabInv
<1> SUFFICES ASSUME Init PROVE SlabInv
    OBVIOUS
<1>1. DOMAIN books = {} /\ DOMAIN index = {} /\ last_instr = None
  BY DEF Init, EmptyMap
<1> QED BY <1>1 DEF SlabInv, IndexOK

LEMMA SlabStep == SlabInv /\ [Next]_vars => SlabInv'
<1> SUFFICES ASSUME SlabInv, [Next]_vars PROVE SlabInv'
    OBVIOUS
<1>1. CASE UNCHANGED vars
  BY <1>1 DEF vars, SlabInv
<1>2. ASSUME NEW o \in Ids, Del(o) PROVE SlabInv'
  <2>1. /\ o \in DOMAIN index /\ index' = Without(index, o) /\ last_instr' = index[o].instr
        /\ books' = [books EXCEPT ![index[o].instr] = Cancel(@, index[o].h)]
    BY <1>2 DEF Del
  <2>2. last_instr' \in Instrs
    BY <2>1, EntryFacts
  <2> QED BY <2>1, <2>2, CancelIndex
<1>3. ASSUME NEW o \in Ids, NEW q \in Qtys \cup {0}, Mod(o, q) PROVE SlabInv'
  <2>1. o \in DOMAIN index /\ Reduce(o, q) /\ last_instr' = index[o].instr
    BY <1>3 DEF Mod
  <2>2. last_instr' \in Instrs /\ q \in Nat
    BY <2>1, EntryFacts, BookAssumption
  <2> QED BY <2>1, <2>2, ReduceIndex
<1>4. ASSUME NEW o \in Ids, NEW i \in Instrs, NEW q \in Qtys, Trade(i, o, q) PROVE SlabInv'
  <2>1. last_instr' \in Instrs
    BY <1>4 DEF Trade
  <2>2. CASE UNCHANGED <<books, index>>
    BY <2>1, <2>2 DEF SlabInv
  <2>3. CASE o \in DOMAIN index /\ \E r \in Nat : Reduce(o, r)
    BY <2>1, <2>3, ReduceIndex
  <2> QED BY <1>4, <2>2, <2>3, TradeLeaves
<1>5. ASSUME NEW o \in Ids, NEW i \in Instrs, NEW q \in Qtys, NEW p \in Prices, NEW side \in Sides,
             Add(o, i, p, q, side)
      PROVE  SlabInv'
  BY <1>5, AddIndex
<1> QED BY <1>1, <1>2, <1>3, <1>4, <1>5 DEF Next

LEMMA SlabInvImplies == SlabInv => TypeOK /\ IndexMatchesSlab
<1> SUFFICES ASSUME SlabInv PROVE TypeOK /\ IndexMatchesSlab
    OBVIOUS
<1>1. TypeOK
  <2>1. \A i \in DOMAIN books : \A h \in DOMAIN books[i].orders : books[i].orders[h] \in NodeType
    BY BookFacts DEF SlabInv, SlabOK
  <2>2. \A o \in DOMAIN index : index[o] \in [instr : Instrs, h : 1 .. MaxOrders]
    BY DEF SlabInv, IndexOK, Handles
  <2> QED BY <2>1, <2>2 DEF TypeOK, SlabInv, NodeType
<1>2. ASSUME NEW i \in Instrs
      PROVE  {index[o].h : o \in {x \in DOMAIN index : index[x].instr = i}} = DOMAIN BookOf(i).orders
  <2>1. CASE i \in DOMAIN books
    <3>1. BookOf(i) = books[i]
      BY <2>1 DEF BookOf
    <3>2. \A o \in DOMAIN index : index[o].instr = i => index[o].h \in DOMAIN books[i].orders
      BY EntryFacts
    <3>3. \A h \in DOMAIN books[i].orders : \E o \in DOMAIN index : index[o].instr = i /\ index[o].h = h
      <4> SUFFICES ASSUME NEW h \in DOMAIN books[i].orders
                   PROVE  \E o \in DOMAIN index : index[o].instr = i /\ index[o].h = h
          OBVIOUS
      <4>1. PICK o \in DOMAIN index : index[o] = [instr |-> i, h |-> h]
        BY <2>1 DEF SlabInv, IndexOK
      <4> QED BY <4>1
    <3> QED BY <3>1, <3>2, <3>3
  <2>2. CASE i \notin DOMAIN books
    <3>1. DOMAIN BookOf(i).orders = {}
      BY <2>2, EmptyBookSlab DEF BookOf
    <3>2. \A o \in DOMAIN index : index[o].instr # i
      BY <2>2, EntryFacts
    <3> QED BY <3>1, <3>2
  <2> QED BY <2>1, <2>2
<1>3. IndexMatchesSlab
  BY <1>2 DEF IndexMatchesSlab, SlabInv, IndexOK
<1> QED BY <1>1, <1>3

\* Whatever adds, changes, deletes and executions come, split levels included: every
\* node of a book is that of exactly one live order and every entry of the index leads
\* to a node, so that the slab is never indexed at a free slot and never leaks one.
THEOREM IndexExact == Spec => [](TypeOK /\ IndexMatchesSlab)
<1>1. Spec => []SlabInv
  BY SlabInit, SlabStep, PTL DEF Spec
<1> QED BY <1>1, SlabInvImplies, PTL

----------------------------------------------------------------------------
(***************************************************************************)
(* A level's count and total, as the number of its orders and of their      *)
(* units.                                                                  *)
(***************************************************************************)
LEMMA UnitsOf ==
  ASSUME NEW b, NEW side, NEW p, NEW z
  PROVE  z \in UnitsAt(b, side, p)
           <=> \E h \in NodesAt(b, side, p) : z \in {h} \X (1 .. b.orders[h].qty)
BY DEF UnitsAt

LEMMA UnitsOfOrder ==
  ASSUME NEW h, NEW q \in Nat
  PROVE  IsFiniteSet({h} \X (1 .. q)) /\ Cardinality({h} \X (1 .. q)) = q
<1>1. IsFiniteSet({h}) /\ Cardinality({h}) = 1
  BY FS_Singleton
<1>2. IsFiniteSet(1 .. q) /\ Cardinality(1 .. q) = q
  BY FS_Interval
<1>3. 1 * q = q
  OBVIOUS
<1> DEFINE S == {h}
           T == 1 .. q
<1> HIDE DEF S, T
<1>4. IsFiniteSet(S \X T) /\ Cardinality(S \X T) = Cardinality(S) * Cardinality(T)
  BY <1>1, <1>2, FS_Product DEF S, T
<1> QED BY <1>1, <1>2, <1>3, <1>4 DEF S, T

\* The orders at a price are the same, with the same quantities.
LEMMA UnitsKept ==
  ASSUME NEW b, NEW c, NEW side, NEW p, NodesAt(c, side, p) = NodesAt(b, side, p),
         \A k \in NodesAt(b, side, p) : c.orders[k].qty = b.orders[k].qty
  PROVE  UnitsAt(c, side, p) = UnitsAt(b, side, p)
<1> SUFFICES ASSUME NEW z PROVE z \in UnitsAt(c, side, p) <=> z \in UnitsAt(b, side, p)
    OBVIOUS
<1>1. z \in UnitsAt(c, side, p)
        <=> \E k \in NodesAt(b, side, p) : z \in {k} \X (1 .. c.orders[k].qty)
  BY UnitsOf
<1>2. z \in UnitsAt(b, side, p)
        <=> \E k \in NodesAt(b, side, p) : z \in {k} \X (1 .. b.orders[k].qty)
  BY UnitsOf
<1> QED BY <1>1, <1>2

\* Between b and c the units at p grow by q.
UnitsGrow(b, c, side, p, q) ==
  LET U == UnitsAt(b, side, p)
      V == UnitsAt(c, side, p)
  IN  /\ IsFiniteSet(U) <=> IsFiniteSet(V)
      /\ IsFiniteSet(U) => /\ Cardinality(U) \in Nat
                           /\ Cardinality(V) = Cardinality(U) + q

\* One order more, or seen from c one less.
LEMMA UnitsJoin ==
  ASSUME NEW b, NEW c, NEW side, NEW p, NEW h, NEW q \in Nat,
         h \notin NodesAt(b, side, p), NodesAt(c, side, p) = NodesAt(b, side, p) \cup {h},
         \A k \in NodesAt(b, side, p) : c.orders[k].qty = b.orders[k].qty,
         c.orders[h].qty = q
  PROVE  UnitsGrow(b, c, side, p, q)
<1> DEFINE U == UnitsAt(b, side, p)
           V == UnitsAt(c, side, p)
           W == {h} \X (1 .. q)
<1>1. V = U \cup W
  <2>1. \A z : z \in V <=> z \in U \/ z \in W
    <3> HIDE DEF W
    <3>1. \A z : z \in V <=> \E k \in NodesAt(c, side, p) : z \in {k} \X (1 .. c.orders[k].qty)
      BY UnitsOf, Zenon
    <3>2. \A z : z \in U <=> \E k \in NodesAt(b, side, p) : z \in {k} \X (1 .. b.orders[k].qty)
      BY UnitsOf, Zenon
    <3>3. W = {h} \X (1 .. c.orders[h].qty)
      BY DEF W
    <3> HIDE DEF U, V
    <3> QED BY <3>1, <3>2, <3>3, Zenon
  <2> QED BY <2>1
<1>2. U \cap W = {}
  <2> SUFFICES ASSUME NEW z \in U, z \in W PROVE FALSE
      OBVIOUS
  <2>1. PICK k \in NodesAt(b, side, p) : z \in {k} \X (1 .. b.orders[k].qty)
    BY UnitsOf
  <2>2. z[1] = k /\ z[1] = h
    BY <2>1
  <2> QED BY <2>1, <2>2
<1>3. IsFiniteSet(W) /\ Cardinality(W) = q
  BY UnitsOfOrder
<1> HIDE DEF U, V, W
<1>4. ASSUME IsFiniteSet(U)
      PROVE  IsFiniteSet(V) /\ Cardinality(U) \in Nat /\ Cardinality(V) = Cardinality(U) + q
  <2>1. Cardinality(U \cap W) = 0
    BY <1>2, FS_EmptySet
  <2>2. Cardinality(U) \in Nat
    BY <1>4, FS_CardinalityType
  <2>3. /\ IsFiniteSet(U \cup W)
        /\ Cardinality(U \cup W) = Cardinality(U) + Cardinality(W) - Cardinality(U \cap W)
    BY <1>3, <1>4, FS_Union
  <2>4. Cardinality(V) = Cardinality(U) + q - 0
    BY <1>1, <1>3, <2>1, <2>3
  <2>5. Cardinality(V) = Cardinality(U) + q
    BY <2>2, <2>4
  <2> QED BY <1>1, <2>2, <2>3, <2>5
<1>5. ASSUME IsFiniteSet(V) PROVE IsFiniteSet(U)
  <2>1. U \subseteq V
    BY <1>1
  <2> QED BY <1>5, <2>1, FS_Subset
<1>6. /\ IsFiniteSet(U) <=> IsFiniteSet(V)
      /\ IsFiniteSet(U) => Cardinality(U) \in Nat /\ Cardinality(V) = Cardinality(U) + q
  BY <1>4, <1>5
<1> QED BY <1>6 DEF U, V, UnitsGrow

\* Level l counts the orders at p and their units.
Tally(b, side, p, l) ==
  /\ l.count = Cardinality(NodesAt(b, side, p))
  /\ IsFiniteSet(UnitsAt(b, side, p)) /\ l.total_qty = Cardinality(UnitsAt(b, side, p))

LEMMA NodesFinite ==
  ASSUME NEW b \in BookType, NEW side, NEW p
  PROVE  IsFiniteSet(NodesAt(b, side, p))
<1>1. IsFiniteSet(Handles)
  BY FS_Interval, SideAssumption DEF Handles
<1>2. NodesAt(b, side, p) \subseteq Handles
  BY BookFacts DEF NodesAt
<1> QED BY <1>1, <1>2, FS_Subset

LEMMA TallyEmpty ==
  ASSUME NEW b, NEW side, NEW p, NodesAt(b, side, p) = {}
  PROVE  Tally(b, side, p, EmptyLevel)
<1>1. UnitsAt(b, side, p) = {}
  BY UnitsOf
<1> QED BY <1>1, FS_EmptySet DEF Tally, EmptyLevel

LEMMA TallyKept ==
  ASSUME NEW b, NEW c, NEW side, NEW p, NEW l, Tally(b, side, p, l),
         NodesAt(c, side, p) = NodesAt(b, side, p),
         \A k \in NodesAt(b, side, p) : c.orders[k].qty = b.orders[k].qty
  PROVE  Tally(c, side, p, l)
BY UnitsKept DEF Tally

LEMMA TallyJoined ==
  ASSUME NEW b \in BookType, NEW c, NEW side, NEW p, NEW l, Tally(b, side, p, l),
         NEW h, NEW q \in Nat,
         h \notin NodesAt(b, side, p), NodesAt(c, side, p) = NodesAt(b, side, p) \cup {h},
         \A k \in NodesAt(b, side, p) : c.orders[k].qty = b.orders[k].qty,
         c.orders[h].qty = q
  PROVE  Tally(c, side, p, Joined(l, h, q))
<1> DEFINE N == NodesAt(b, side, p)
           U == UnitsAt(b, side, p)
           V == UnitsAt(c, side, p)
<1>1. Cardinality(NodesAt(c, side, p)) = Cardinality(N) + 1
  BY NodesFinite, FS_AddElement
<1>2. IsFiniteSet(V) /\ Cardinality(V) = Cardinality(U) + q
  <2>1. UnitsGrow(b, c, side, p, q)
    BY UnitsJoin
  <2> QED BY <2>1 DEF UnitsGrow, Tally
<1>3. /\ Joined(l, h, q).count = l.count + 1 /\ Joined(l, h, q).total_qty = l.total_qty + q
  BY DEF Joined
<1>4. l.count = Cardinality(N) /\ l.total_qty = Cardinality(U)
  BY DEF Tally
<1> HIDE DEF N, U, V
<1>5. /\ Joined(l, h, q).count = Cardinality(NodesAt(c, side, p))
      /\ Joined(l, h, q).total_qty = Cardinality(V)
  BY <1>1, <1>2, <1>3, <1>4
<1> QED BY <1>2, <1>5 DEF Tally, V

LEMMA TallyLeft ==
  ASSUME NEW b \in BookType, NEW c, NEW side, NEW p, NEW l, Tally(b, side, p, l),
         NEW h, NEW n, n.qty \in Nat,
         h \in NodesAt(b, side, p), NodesAt(c, side, p) = NodesAt(b, side, p) \ {h},
         \A k \in NodesAt(c, side, p) : c.orders[k].qty = b.orders[k].qty,
         b.orders[h].qty = n.qty
  PROVE  Tally(c, side, p, Left(l, n))
<1> DEFINE N == NodesAt(b, side, p)
           M == NodesAt(c, side, p)
           U == UnitsAt(b, side, p)
           V == UnitsAt(c, side, p)
<1>1. Cardinality(N) \in Nat /\ Cardinality(M) = Cardinality(N) - 1 /\ Cardinality(M) \in Nat
  <2>1. IsFiniteSet(N) /\ IsFiniteSet(M)
    BY NodesFinite, FS_RemoveElement
  <2> QED BY <2>1, FS_RemoveElement, FS_CardinalityType
<1>2. IsFiniteSet(V) /\ Cardinality(V) \in Nat /\ Cardinality(U) = Cardinality(V) + n.qty
  <2>1. IsFiniteSet(U)
    BY DEF Tally
  <2>2. /\ h \notin M /\ NodesAt(b, side, p) = NodesAt(c, side, p) \cup {h}
        /\ \A k \in NodesAt(c, side, p) : b.orders[k].qty = c.orders[k].qty
    OBVIOUS
  <2>3. UnitsGrow(c, b, side, p, n.qty)
    BY <2>2, UnitsJoin
  <2> QED BY <2>1, <2>3 DEF UnitsGrow
<1>3. /\ Left(l, n).count = IF l.count = 0 THEN 0 ELSE l.count - 1
      /\ Left(l, n).total_qty = l.total_qty - n.qty
  BY DEF Left
<1>4. l.count = Cardinality(N) /\ l.total_qty = Cardinality(U)
  BY DEF Tally
<1> HIDE DEF N, M, U, V
<1>5. Left(l, n).count = Cardinality(M) /\ Left(l, n).total_qty = Cardinality(V)
  BY <1>1, <1>2, <1>3, <1>4
<1> QED BY <1>2, <1>5 DEF Tally, V, M

LEMMA TallyResized ==
  ASSUME NEW b, NEW c, NEW side, NEW p, NEW l \in LevelType, Tally(b, side, p, l),
         NEW h, NEW n, n.qty \in Nat, NEW q \in Nat,
         h \in NodesAt(b, side, p), NodesAt(c, side, p) = NodesAt(b, side, p),
         \A k \in NodesAt(b, side, p) \ {h} : c.orders[k].qty = b.orders[k].qty,
         b.orders[h].qty = n.qty, c.orders[h].qty = q
  PROVE  Tally(c, side, p, Resized(l, q - n.qty))
<1> DEFINE N == NodesAt(b, side, p)
           a == [orders |-> [k \in N \ {h} |-> b.orders[k]]]
           U == UnitsAt(a, side, p)
           V == UnitsAt(b, side, p)
           W == UnitsAt(c, side, p)
<1>1. /\ NodesAt(a, side, p) = N \ {h} /\ h \notin N \ {h} /\ N = (N \ {h}) \cup {h}
      /\ \A k \in N \ {h} : a.orders[k].qty = b.orders[k].qty
  BY DEF NodesAt
<1>2. \A k \in N \ {h} : c.orders[k].qty = a.orders[k].qty
  BY <1>1
<1> HIDE DEF a
<1>3. /\ IsFiniteSet(U) <=> IsFiniteSet(V)
      /\ IsFiniteSet(U) => Cardinality(U) \in Nat /\ Cardinality(V) = Cardinality(U) + n.qty
  <2>1. /\ h \notin NodesAt(a, side, p) /\ NodesAt(b, side, p) = NodesAt(a, side, p) \cup {h}
        /\ \A k \in NodesAt(a, side, p) : b.orders[k].qty = a.orders[k].qty
    BY <1>1
  <2> HIDE DEF N
  <2>2. UnitsGrow(a, b, side, p, n.qty)
    BY <2>1, UnitsJoin
  <2> QED BY <2>2 DEF UnitsGrow
<1>4. /\ IsFiniteSet(U) <=> IsFiniteSet(W)
      /\ IsFiniteSet(U) => Cardinality(U) \in Nat /\ Cardinality(W) = Cardinality(U) + q
  <2>1. /\ h \notin NodesAt(a, side, p) /\ NodesAt(c, side, p) = NodesAt(a, side, p) \cup {h}
        /\ \A k \in NodesAt(a, side, p) : c.orders[k].qty = a.orders[k].qty
    BY <1>1, <1>2
  <2> HIDE DEF N
  <2>2. UnitsGrow(a, c, side, p, q)
    BY <2>1, UnitsJoin
  <2> QED BY <2>2 DEF UnitsGrow
<1>5. l.count = Cardinality(N) /\ l.total_qty = Cardinality(V) /\ IsFiniteSet(V)
  BY DEF Tally
<1> DEFINE m == Resized(l, q - n.qty)
<1>6. m.count = l.count /\ m.total_qty = l.total_qty + (q - n.qty)
  <2>1. q - n.qty \in Int
    OBVIOUS
  <2>2. m = [head |-> l.head, tail |-> l.tail, count |-> l.count,
             total_qty |-> l.total_qty + (q - n.qty)]
    BY <2>1, ResizedFields, Zenon
  <2> HIDE DEF m
  <2> QED BY <2>2
<1> HIDE DEF N, U, V, W, m
<1>7. m.total_qty = Cardinality(W) /\ IsFiniteSet(W)
  BY <1>3, <1>4, <1>5, <1>6
<1>8. m.count = Cardinality(NodesAt(c, side, p))
  BY <1>5, <1>6 DEF N
<1> QED BY <1>7, <1>8 DEF Tally, W, m

----------------------------------------------------------------------------
(***************************************************************************)
(* A book whose levels are exact, and the operations on it.                *)
(***************************************************************************)
\* A price of the side has a level exactly while it has orders, and the level tallies.
SideOK(b, side) ==
  /\ SideShape(b.sides[side]) /\ BestOK(b.sides[side], side)
  /\ \A x : HasLevel(b.sides[side], x) <=> NodesAt(b, side, x) # {}
  /\ \A x : HasLevel(b.sides[side], x) => Tally(b, side, x, LevelAt(b.sides[side], x))

BookOK(b) == SlabOK(b) /\ \A side \in Sides : SideOK(b, side)

\* b and c have the same orders at a price.
SameAt(b, c, side, x) ==
  /\ NodesAt(c, side, x) = NodesAt(b, side, x)
  /\ \A k \in NodesAt(b, side, x) : c.orders[k].qty = b.orders[k].qty

LEMMA SideKept ==
  ASSUME NEW b, NEW c, NEW side, SideOK(b, side), c.sides[side] = b.sides[side],
         \A x : SameAt(b, c, side, x)
  PROVE  SideOK(c, side)
<1> SUFFICES ASSUME NEW x
             PROVE  /\ HasLevel(c.sides[side], x) <=> NodesAt(c, side, x) # {}
                    /\ HasLevel(c.sides[side], x) => Tally(c, side, x, LevelAt(c.sides[side], x))
    BY DEF SideOK
<1>1. SameAt(b, c, side, x)
  OBVIOUS
<1> QED BY <1>1, TallyKept DEF SideOK, SameAt

LEMMA SideBecomes ==
  ASSUME NEW b, NEW c, NEW side, SideOK(b, side), NEW p, NEW l,
         LevelBecomes(b.sides[side], c.sides[side], p, l), BestOK(c.sides[side], side),
         NodesAt(c, side, p) # {}, Tally(c, side, p, l),
         \A x : x # p => SameAt(b, c, side, x)
  PROVE  SideOK(c, side)
<1>1. SideShape(c.sides[side]) /\ BestOK(c.sides[side], side)
  BY DEF LevelBecomes
<1> SUFFICES ASSUME NEW x
             PROVE  /\ HasLevel(c.sides[side], x) <=> NodesAt(c, side, x) # {}
                    /\ HasLevel(c.sides[side], x) => Tally(c, side, x, LevelAt(c.sides[side], x))
    BY <1>1 DEF SideOK
<1>2. CASE x = p
  BY <1>2 DEF LevelBecomes
<1>3. CASE x # p
  <2>1. SameAt(b, c, side, x)
    BY <1>3
  <2>2. /\ HasLevel(c.sides[side], x) <=> HasLevel(b.sides[side], x)
        /\ HasLevel(b.sides[side], x) => LevelAt(c.sides[side], x) = LevelAt(b.sides[side], x)
    BY <1>3 DEF LevelBecomes
  <2> QED BY <2>1, <2>2, TallyKept DEF SideOK, SameAt
<1> QED BY <1>2, <1>3

LEMMA SideGoes ==
  ASSUME NEW b, NEW c, NEW side, SideOK(b, side), NEW p,
         LevelGoes(b.sides[side], c.sides[side], p), BestOK(c.sides[side], side),
         NodesAt(c, side, p) = {},
         \A x : x # p => SameAt(b, c, side, x)
  PROVE  SideOK(c, side)
<1>1. SideShape(c.sides[side]) /\ BestOK(c.sides[side], side)
  BY DEF LevelGoes
<1> SUFFICES ASSUME NEW x
             PROVE  /\ HasLevel(c.sides[side], x) <=> NodesAt(c, side, x) # {}
                    /\ HasLevel(c.sides[side], x) => Tally(c, side, x, LevelAt(c.sides[side], x))
    BY <1>1 DEF SideOK
<1>2. CASE x = p
  BY <1>2 DEF LevelGoes
<1>3. CASE x # p
  <2>1. SameAt(b, c, side, x)
    BY <1>3
  <2>2. /\ HasLevel(c.sides[side], x) <=> HasLevel(b.sides[side], x)
        /\ HasLevel(b.sides[side], x) => LevelAt(c.sides[side], x) = LevelAt(b.sides[side], x)
    BY <1>3 DEF LevelGoes
  <2> QED BY <2>1, <2>2, TallyKept DEF SideOK, SameAt
<1> QED BY <1>2, <1>3

LEMMA EmptyBookOK == BookOK(EmptyBook)
<1> SUFFICES ASSUME NEW side \in Sides PROVE SideOK(EmptyBook, side)
    BY EmptyBookSlab DEF BookOK
<1>1. EmptyBook.sides[side] = EmptySide
  BY EmptyBookSlab
<1>2. /\ EmptySide.grid = EmptyMap /\ EmptySide.overflow = EmptyMap /\ EmptySide.best = <<>>
      /\ EmptySide.initialized = FALSE
  BY DEF EmptySide
<1>3. \A x : ~HasLevel(EmptySide, x)
  BY <1>2, EmptyMapType DEF HasLevel
<1>4. SideShape(EmptySide)
  BY <1>2, EmptyMapType DEF SideShape
<1>5. BestOK(EmptySide, side)
  BY <1>2, <1>3 DEF BestOK
<1>6. \A x : NodesAt(EmptyBook, side, x) = {}
  BY EmptyBookSlab DEF NodesAt
<1> QED BY <1>1, <1>3, <1>4, <1>5, <1>6 DEF SideOK

\* The facts of a good book that the operations use.
LEMMA BookOKFacts ==
  ASSUME NEW b, BookOK(b), NEW side \in Sides
  PROVE  /\ SlabOK(b) /\ b \in BookType /\ SideOK(b, side) /\ b.sides[side] \in SideType
         /\ SideShape(b.sides[side]) /\ BestOK(b.sides[side], side)
         /\ b.sides \in [Sides -> SideType]
BY BookFacts DEF BookOK, SlabOK, SideOK

\* add
LEMMA AddBook ==
  ASSUME NEW b, BookOK(b), b.free # <<>>, NEW p \in Prices, NEW q \in Nat \ {0}, NEW side \in Sides,
         p % Tick # 0 \/ p \notin DOMAIN b.sides[side].overflow
  PROVE  BookOK(AddOrder(b, p, q, side))
<1> DEFINE c == AddOrder(b, p, q, side)
           h == Head(b.free)
           s == b.sides[side]
           l == Joined(LevelOr(s, p), h, q)
<1>1. OrderAdded(b, c, h, p, q, side)
  BY AddOrderEffect DEF BookOK
<1>2. /\ SlabOK(b) /\ b \in BookType /\ s \in SideType /\ SideOK(b, side)
      /\ SideShape(s) /\ BestOK(s, side) /\ b.sides \in [Sides -> SideType]
  BY BookOKFacts
<1> HIDE DEF c, h
<1>3. /\ SlabOK(c) /\ h \in Handles /\ h \notin DOMAIN b.orders
      /\ DOMAIN c.orders = DOMAIN b.orders \cup {h}
      /\ \A k \in DOMAIN b.orders : SameOrder(b.orders, c.orders, k)
      /\ c.orders[h].price = p /\ c.orders[h].qty = q /\ c.orders[h].side = side
      /\ c.sides = [b.sides EXCEPT ![side] = AddInSide(s, h, p, q, side)]
  BY <1>1 DEF OrderAdded
<1>4. ASSUME NEW r, NEW x, r # side \/ x # p
      PROVE  SameAt(b, c, r, x)
  BY <1>3, <1>4 DEF SameAt, NodesAt, SameOrder
<1>5. /\ NodesAt(c, side, p) = NodesAt(b, side, p) \cup {h} /\ h \notin NodesAt(b, side, p)
      /\ \A k \in NodesAt(b, side, p) : c.orders[k].qty = b.orders[k].qty
  BY <1>3 DEF NodesAt, SameOrder
<1>6. ASSUME NEW r \in Sides, r # side PROVE SideOK(c, r)
  <2>1. c.sides[r] = b.sides[r]
    BY <1>2, <1>3, <1>6
  <2>2. SideOK(b, r)
    BY DEF BookOK
  <2> QED BY <1>4, <1>6, <2>1, <2>2, SideKept
<1>7. SideOK(c, side)
  <2>1. c.sides[side] = AddInSide(s, h, p, q, side)
    BY <1>2, <1>3
  <2>2. LevelBecomes(s, c.sides[side], p, l) /\ BestOK(c.sides[side], side)
    <3>1. /\ s \in SideType /\ SideShape(s) /\ BestOK(s, side) /\ h \in Handles
          /\ p % Tick # 0 \/ p \notin DOMAIN s.overflow
      BY <1>2, <1>3
    <3> HIDE DEF s
    <3>2. /\ LevelBecomes(s, AddInSide(s, h, p, q, side), p, Joined(LevelOr(s, p), h, q))
          /\ BestOK(AddInSide(s, h, p, q, side), side)
      BY <3>1, AddSide
    <3> QED BY Zenon, <2>1, <3>2 DEF l
  <2>3. Tally(b, side, p, LevelOr(s, p))
    <3>1. CASE HasLevel(s, p)
      BY <1>2, <3>1 DEF SideOK, LevelOr
    <3>2. CASE ~HasLevel(s, p)
      BY <1>2, <3>2, TallyEmpty DEF SideOK, LevelOr
    <3> QED BY <3>1, <3>2
  <2>4. Tally(c, side, p, l)
    BY <1>2, <1>3, <1>5, <2>3, TallyJoined
  <2>5. NodesAt(c, side, p) # {}
    BY <1>5
  <2>6. \A x : x # p => SameAt(b, c, side, x)
    BY <1>4
  <2> HIDE DEF l
  <2> QED BY <1>2, <2>2, <2>4, <2>5, <2>6, SideBecomes
<1>8. BookOK(c)
  BY <1>3, <1>6, <1>7 DEF BookOK
<1> QED BY <1>8 DEF c

\* A live order's node stands on a level that tallies.
LEMMA LevelOfNode ==
  ASSUME NEW b, BookOK(b), NEW h \in DOMAIN b.orders
  PROVE  LET n == b.orders[h]
             s == b.sides[n.side]
         IN  /\ n \in NodeType /\ n.side \in Sides /\ n.price \in Prices /\ n.qty \in Nat
             /\ h \in NodesAt(b, n.side, n.price)
             /\ HasLevel(s, n.price) /\ Tally(b, n.side, n.price, LevelAt(s, n.price))
             /\ LevelAt(s, n.price) \in LevelType
             /\ Cardinality(NodesAt(b, n.side, n.price)) \in Nat \ {0}
<1> DEFINE n == b.orders[h]
           s == b.sides[n.side]
           N == NodesAt(b, n.side, n.price)
<1>1. b \in BookType /\ n \in NodeType
  BY BookFacts DEF BookOK, SlabOK
<1>2. n.side \in Sides /\ n.price \in Prices /\ n.qty \in Nat
  BY <1>1 DEF NodeType
<1>3. h \in N
  BY DEF NodesAt
<1>4. SideOK(b, n.side) /\ s \in SideType
  BY <1>2, BookOKFacts
<1> HIDE DEF n
<1>5. HasLevel(s, n.price) /\ Tally(b, n.side, n.price, LevelAt(s, n.price))
  BY <1>3, <1>4 DEF SideOK
<1>6. LevelAt(s, n.price) \in LevelType
  BY <1>4, <1>5, LevelAtType
<1>7. Cardinality(N) \in Nat \ {0}
  <2>1. IsFiniteSet(N)
    BY <1>1, NodesFinite
  <2> HIDE DEF N
  <2> QED BY <1>3, <2>1, FS_CardinalityType, FS_EmptySet
<1> QED BY <1>1, <1>2, <1>3, <1>5, <1>6, <1>7 DEF n

\* set_qty
LEMMA SetQtyBook ==
  ASSUME NEW b, BookOK(b), NEW h \in DOMAIN b.orders, NEW q \in Nat \ {0}
  PROVE  BookOK(SetQty(b, h, q))
<1> DEFINE c == SetQty(b, h, q)
           n == b.orders[h]
           side == n.side
           p == n.price
           s == b.sides[side]
           l == Resized(LevelAt(s, p), q - n.qty)
<1>1. OrderResized(b, c, h, n, q)
  BY SetQtyEffect DEF BookOK
<1>2. /\ n \in NodeType /\ side \in Sides /\ p \in Prices /\ n.qty \in Nat
      /\ h \in NodesAt(b, side, p) /\ HasLevel(s, p) /\ Tally(b, side, p, LevelAt(s, p))
      /\ LevelAt(s, p) \in LevelType /\ Cardinality(NodesAt(b, side, p)) \in Nat \ {0}
  BY LevelOfNode
<1>3. /\ SlabOK(b) /\ b \in BookType /\ s \in SideType /\ SideOK(b, side)
      /\ SideShape(s) /\ BestOK(s, side) /\ b.sides \in [Sides -> SideType]
  BY <1>2, BookOKFacts
<1>n. n = b.orders[h]
  OBVIOUS
<1> HIDE DEF c, n
<1>4. /\ SlabOK(c) /\ DOMAIN c.orders = DOMAIN b.orders
      /\ \A k \in DOMAIN b.orders \ {h} : c.orders[k] = b.orders[k]
      /\ c.orders[h].price = p /\ c.orders[h].qty = q /\ c.orders[h].side = side
      /\ c.sides = [b.sides EXCEPT ![side] = SetQtyInSide(s, n, q)]
  <2>1. c.orders[h] = [price |-> n.price, qty |-> q, side |-> n.side, prev |-> n.prev, next |-> n.next]
    BY <1>1 DEF OrderResized
  <2>2. c.orders[h].price = p /\ c.orders[h].qty = q /\ c.orders[h].side = side
    BY <2>1
  <2> QED BY Zenon, <1>1, <2>2 DEF OrderResized
<1>5. \A r, x : NodesAt(c, r, x) = NodesAt(b, r, x)
  BY <1>4, <1>n DEF NodesAt
<1>6. ASSUME NEW r, NEW x, r # side \/ x # p
      PROVE  SameAt(b, c, r, x)
  <2>1. h \notin NodesAt(b, r, x)
    BY <1>6, <1>n DEF NodesAt
  <2>2. NodesAt(b, r, x) \subseteq DOMAIN b.orders
    BY DEF NodesAt
  <2> QED BY <1>4, <1>5, <2>1, <2>2 DEF SameAt
<1>7. ASSUME NEW r \in Sides, r # side PROVE SideOK(c, r)
  <2>1. c.sides[r] = b.sides[r]
    BY <1>3, <1>4, <1>7
  <2>2. SideOK(b, r)
    BY DEF BookOK
  <2> QED BY <1>6, <1>7, <2>1, <2>2, SideKept
<1>8. SideOK(c, side)
  <2>1. c.sides[side] = SetQtyInSide(s, n, q)
    BY <1>2, <1>3, <1>4
  <2>2. LevelAt(s, p).count # 0
    BY <1>2 DEF Tally
  <2>3. LevelBecomes(s, c.sides[side], p, l) /\ BestOK(c.sides[side], side)
    BY <1>2, <1>3, <2>1, <2>2, SetQtySide
  <2>4. \A k \in NodesAt(b, side, p) \ {h} : c.orders[k].qty = b.orders[k].qty
    BY <1>4 DEF NodesAt
  <2>5. Tally(c, side, p, l)
    <3> DEFINE k == LevelAt(s, p)
    <3>1. k \in LevelType /\ Tally(b, side, p, k) /\ n.qty \in Nat /\ h \in NodesAt(b, side, p)
      BY <1>2
    <3>2. NodesAt(c, side, p) = NodesAt(b, side, p) /\ b.orders[h].qty = n.qty /\ c.orders[h].qty = q
      BY <1>4, <1>5, <1>n
    <3> HIDE DEF k, side, p
    <3>3. Tally(c, side, p, Resized(k, q - n.qty))
      BY <2>4, <3>1, <3>2, TallyResized
    <3> QED BY <3>3 DEF k
  <2>6. NodesAt(c, side, p) # {}
    BY <1>2, <1>5
  <2>7. \A x : x # p => SameAt(b, c, side, x)
    BY <1>6
  <2> HIDE DEF l
  <2> QED BY <1>3, <2>3, <2>5, <2>6, <2>7, SideBecomes
<1>9. BookOK(c)
  BY <1>4, <1>7, <1>8 DEF BookOK
<1> QED BY <1>9 DEF c

\* cancel
LEMMA CancelBook ==
  ASSUME NEW b, BookOK(b), NEW h \in DOMAIN b.orders
  PROVE  BookOK(Cancel(b, h))
<1> DEFINE c == Cancel(b, h)
           n == b.orders[h]
           side == n.side
           p == n.price
           s == b.sides[side]
           l == Left(LevelAt(s, p), n)
<1>1. OrderRemoved(b, c, h, n)
  BY CancelEffect DEF BookOK
<1>2. /\ n \in NodeType /\ side \in Sides /\ p \in Prices /\ n.qty \in Nat
      /\ h \in NodesAt(b, side, p) /\ HasLevel(s, p) /\ Tally(b, side, p, LevelAt(s, p))
      /\ LevelAt(s, p) \in LevelType /\ Cardinality(NodesAt(b, side, p)) \in Nat \ {0}
  BY LevelOfNode
<1>3. /\ SlabOK(b) /\ b \in BookType /\ s \in SideType /\ SideOK(b, side)
      /\ SideShape(s) /\ BestOK(s, side) /\ b.sides \in [Sides -> SideType]
  BY <1>2, BookOKFacts
<1>n. n = b.orders[h]
  OBVIOUS
<1> HIDE DEF c, n
<1>4. /\ SlabOK(c) /\ DOMAIN c.orders = DOMAIN b.orders \ {h}
      /\ \A k \in DOMAIN b.orders \ {h} : SameOrder(b.orders, c.orders, k)
      /\ c.sides = [b.sides EXCEPT ![side] = CancelInSide(s, n)]
  BY <1>1 DEF OrderRemoved
<1>5. ASSUME NEW r, NEW x, r # side \/ x # p
      PROVE  SameAt(b, c, r, x)
  BY <1>4, <1>5, <1>n DEF SameAt, NodesAt, SameOrder
<1>6. /\ NodesAt(c, side, p) = NodesAt(b, side, p) \ {h}
      /\ \A k \in NodesAt(c, side, p) : c.orders[k].qty = b.orders[k].qty
  BY <1>4, <1>n DEF NodesAt, SameOrder
<1>7. ASSUME NEW r \in Sides, r # side PROVE SideOK(c, r)
  <2>1. c.sides[r] = b.sides[r]
    BY <1>3, <1>4, <1>7
  <2>2. SideOK(b, r)
    BY DEF BookOK
  <2> QED BY <1>5, <1>7, <2>1, <2>2, SideKept
<1>8. SideOK(c, side)
  <2>1. c.sides[side] = CancelInSide(s, n)
    BY <1>2, <1>3, <1>4
  <2>2. Tally(c, side, p, l)
    BY <1>2, <1>3, <1>6, <1>n, TallyLeft
  <2>3. \A x : x # p => SameAt(b, c, side, x)
    BY <1>5
  <2>4. CASE l.count # 0
    <3>1. LevelBecomes(s, c.sides[side], p, l) /\ BestOK(c.sides[side], side)
      BY <1>2, <1>3, <2>1, <2>4, CancelSome
    <3>2. NodesAt(c, side, p) # {}
      BY <2>2, <2>4, FS_EmptySet DEF Tally
    <3> HIDE DEF l
    <3> QED BY <1>3, <2>2, <2>3, <3>1, <3>2, SideBecomes
  <2>5. CASE l.count = 0
    <3>1. LevelGoes(s, c.sides[side], p) /\ BestOK(c.sides[side], side)
      BY <1>2, <1>3, <2>1, <2>5, CancelLast
    <3>2. NodesAt(c, side, p) = {}
      <4>1. IsFiniteSet(NodesAt(c, side, p))
        BY <1>4, NodesFinite DEF SlabOK
      <4> QED BY <2>2, <2>5, <4>1, FS_EmptySet DEF Tally
    <3> HIDE DEF l
    <3> QED BY <1>3, <2>3, <3>1, <3>2, SideGoes
  <2> QED BY <2>4, <2>5
<1>9. BookOK(c)
  BY <1>4, <1>7, <1>8 DEF BookOK
<1> QED BY <1>9 DEF c

----------------------------------------------------------------------------
(***************************************************************************)
(* The cached best price, while no price is split between grid and overflow.*)
(***************************************************************************)
BookInv == SlabInv /\ \A i \in DOMAIN books : BookOK(books[i])

LEMMA BookOfOK ==
  ASSUME BookInv, NEW i \in Instrs
  PROVE  BookOK(BookOf(i))
BY EmptyBookOK DEF BookInv, BookOf

LEMMA ReduceBooks ==
  ASSUME BookInv, NEW o \in DOMAIN index, NEW q \in Nat, Reduce(o, q)
  PROVE  \A j \in DOMAIN books' : BookOK(books'[j])
<1> DEFINE i == index[o].instr
           h == index[o].h
<1>1. i \in DOMAIN books /\ h \in DOMAIN books[i].orders /\ BookOK(books[i])
  BY EntryFacts DEF BookInv
<1>2. CASE q > 0
  <2>1. books' = [books EXCEPT ![i] = SetQty(books[i], h, q)]
    BY <1>2 DEF Reduce
  <2>2. BookOK(SetQty(books[i], h, q))
    BY <1>1, <1>2, SetQtyBook
  <2> HIDE DEF i, h
  <2> QED BY <1>1, <2>1, <2>2 DEF BookInv
<1>3. CASE ~(q > 0)
  <2>1. books' = [books EXCEPT ![i] = Cancel(books[i], h)]
    BY <1>3 DEF Reduce
  <2>2. BookOK(Cancel(books[i], h))
    BY <1>1, CancelBook
  <2> HIDE DEF i, h
  <2> QED BY <1>1, <2>1, <2>2 DEF BookInv
<1> QED BY <1>2, <1>3

LEMMA AddBooks ==
  ASSUME BookInv, AvoidSplit, NEW o, NEW i \in Instrs, NEW p \in Prices, NEW q \in Qtys,
         NEW side \in Sides, Add(o, i, p, q, side)
  PROVE  \A j \in DOMAIN books' : BookOK(books'[j])
<1> DEFINE b == BookOf(i)
           c == AddOrder(b, p, q, side)
<1>1. /\ b.free # <<>> /\ books' = With(books, i, c)
      /\ p % Tick # 0 \/ p \notin DOMAIN b.sides[side].overflow
  BY DEF Add
<1>2. BookOK(b) /\ q \in Nat \ {0}
  BY BookOfOK, BookAssumption
<1> HIDE DEF b
<1>3. BookOK(c)
  BY <1>1, <1>2, AddBook
<1> HIDE DEF c
<1> QED BY <1>1, <1>3 DEF With, BookInv

LEMMA BookInit == Init => BookInv
<1> SUFFICES ASSUME Init PROVE BookInv
    OBVIOUS
<1>1. DOMAIN books = {}
  BY DEF Init, EmptyMap
<1> QED BY <1>1, SlabInit DEF BookInv

LEMMA BookStep ==
  ASSUME AvoidSplit
  PROVE  BookInv /\ [Next]_vars => BookInv'
<1> SUFFICES ASSUME BookInv, [Next]_vars PROVE \A j \in DOMAIN books' : BookOK(books'[j])
    BY SlabStep DEF BookInv
<1>1. CASE UNCHANGED vars
  BY <1>1 DEF vars, BookInv
<1>2. ASSUME NEW o \in Ids, Del(o) PROVE \A j \in DOMAIN books' : BookOK(books'[j])
  <2> DEFINE i == index[o].instr
             h == index[o].h
  <2>1. o \in DOMAIN index /\ books' = [books EXCEPT ![i] = Cancel(books[i], h)]
    BY <1>2 DEF Del
  <2>2. i \in DOMAIN books /\ h \in DOMAIN books[i].orders /\ BookOK(books[i])
    BY <2>1, EntryFacts DEF BookInv
  <2>3. BookOK(Cancel(books[i], h))
    BY <2>2, CancelBook
  <2> HIDE DEF i, h
  <2> QED BY <2>1, <2>2, <2>3 DEF BookInv
<1>3. ASSUME NEW o \in Ids, NEW q \in Qtys \cup {0}, Mod(o, q)
      PROVE  \A j \in DOMAIN books' : BookOK(books'[j])
  BY <1>3, ReduceBooks, BookAssumption DEF Mod
<1>4. ASSUME NEW o \in Ids, NEW i \in Instrs, NEW q \in Qtys, Trade(i, o, q)
      PROVE  \A j \in DOMAIN books' : BookOK(books'[j])
  <2>1. CASE UNCHANGED <<books, index>>
    BY <2>1 DEF BookInv
  <2>2. CASE o \in DOMAIN index /\ \E r \in Nat : Reduce(o, r)
    BY <2>2, ReduceBooks
  <2> QED BY <1>4, <2>1, <2>2, TradeLeaves DEF BookInv
<1>5. ASSUME NEW o \in Ids, NEW i \in Instrs, NEW q \in Qtys, NEW p \in Prices, NEW side \in Sides,
             Add(o, i, p, q, side)
      PROVE  \A j \in DOMAIN books' : BookOK(books'[j])
  BY <1>5, AddBooks
<1> QED BY <1>1, <1>2, <1>3, <1>4, <1>5 DEF Next

LEMMA BookInvImplies == BookInv => BboExact /\ LevelsExact
<1> SUFFICES ASSUME BookInv, NEW i \in Instrs, NEW side \in Sides
             PROVE  LET b == BookOf(i)
                        s == b.sides[side]
                        ps == LivePrices(b, side)
                    IN  /\ IF ps = {} THEN s.best = <<>>
                           ELSE /\ s.best = <<BestOf(side, ps)>>
                                /\ s.best_qty = Cardinality(UnitsAt(b, side, s.best[1]))
                        /\ DOMAIN s.grid \cap DOMAIN s.overflow = {}
                        /\ \A p \in DOMAIN s.grid : InWindow(s, p)
                        /\ s.initialized => s.start_price % Tick = 0
                        /\ \A p \in Prices : LevelExact(b, side, p)
    BY Zenon DEF BboExact, LevelsExact
<1> DEFINE b == BookOf(i)
           s == b.sides[side]
           ps == LivePrices(b, side)
<1>1. BookOK(b)
  BY BookOfOK
<1> HIDE DEF b
<1>2. SideOK(b, side) /\ SideShape(s) /\ BestOK(s, side) /\ s \in SideType
  BY <1>1, BookOKFacts
<1>3. ps = {x \in Prices : HasLevel(s, x)}
  BY <1>2 DEF SideOK, LivePrices
<1>4. \A p \in Prices : LevelExact(b, side, p)
  BY <1>2 DEF SideOK, Tally, LevelExact
<1>5. IF ps = {} THEN s.best = <<>>
      ELSE s.best = <<BestOf(side, ps)>> /\ s.best_qty = Cardinality(UnitsAt(b, side, s.best[1]))
  <2>1. CASE s.best = <<>> /\ \A x : ~HasLevel(s, x)
    BY <1>3, <2>1
  <2>2. ASSUME NEW m \in Prices, s.best = <<m>>, HasLevel(s, m),
               \A x : HasLevel(s, x) => ~Better(side, x, m),
               s.best_qty = LevelAt(s, m).total_qty
        PROVE  /\ ps # {} /\ s.best = <<BestOf(side, ps)>>
               /\ s.best_qty = Cardinality(UnitsAt(b, side, s.best[1]))
    <3>1. m \in ps /\ ps \subseteq Int /\ \A x \in ps : ~Better(side, x, m)
      BY <1>3, <2>2, SideAssumption
    <3>2. BestOf(side, ps) = m
      BY <3>1, BestOfUnique
    <3>3. s.best_qty = Cardinality(UnitsAt(b, side, m))
      BY <1>2, <2>2 DEF SideOK, Tally
    <3> QED BY <2>2, <3>1, <3>2, <3>3
  <2> HIDE DEF ps, s
  <2> QED BY <1>2, <2>1, <2>2 DEF BestOK
<1>6. /\ DOMAIN s.grid \cap DOMAIN s.overflow = {}
      /\ \A p \in DOMAIN s.grid : InWindow(s, p)
      /\ s.initialized => s.start_price % Tick = 0
  BY <1>2, Zenon DEF SideShape
<1> QED BY <1>4, <1>5, <1>6, Zenon DEF b

\* While the feed adds nothing at an aligned price whose level lies in overflow: the
\* cached best price and quantity of every side are those of its live orders, and each
\* level stands for exactly the orders at its price, whatever recenterings, changes,
\* deletes and executions came before.
THEOREM BestExact == ASSUME AvoidSplit PROVE Spec => [](BboExact /\ LevelsExact)
<1>1. BookInv /\ [Next]_vars => BookInv'
  BY BookStep
<1>2. Spec => []BookInv
  BY <1>1, BookInit, PTL DEF Spec
<1> QED BY <1>2, BookInvImplies, PTL
============================================================================
