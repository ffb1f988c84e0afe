----------------------------- MODULE ItchProofs -----------------------------
(***************************************************************************)
(* The book follows the venue, for any set of references, prices and         *)
(* quantities, when the book does not consume trades.                        *)
(***************************************************************************)
EXTENDS Itch, TLAPS

\* A reference the venue has not used is nowhere.
Unissued ==
  \A r \in Refs : r \notin issued =>
    venue[r] = None /\ orders[r] = None /\ book[r] = None /\ saved[r] = None

\* The decoder knows a followed order exactly as long as it is live.
FollowedKnown ==
  /\ followed \subseteq issued
  /\ \A r \in followed : Known(orders, r) <=> Known(venue, r)

\* Before the first restart every order is followed.
AllFollowed == ~restarted => up /\ followed = issued

\* The inductive invariant.
ItchInv ==
  /\ TypeOK /\ Unissued /\ FollowedKnown /\ AllFollowed /\ TableInBook /\ FollowedExact
  /\ up \/ (orders = NoOrders /\ followed = {})

USE ItchAssumption

\* The absent order is not an order.
LEMMA NoneNoOrder == None \notin Orders
BY DEF None, Orders, Sides

\* Initially there are no orders anywhere.
LEMMA ItchInvInit == Init => ItchInv
BY Zenon DEF Init, ItchInv, TypeOK, Unissued, FollowedKnown, AllFollowed, TableInBook,
       FollowedExact, Known, NoOrders

\* What a message about a live order r does to the table and the book, left being what
\* the decoder thinks is left of the order.
Shrinks(r, left) ==
  \/ /\ up /\ Known(orders, r) /\ left > 0
     /\ book' = [book EXCEPT ![r].qty = left]
     /\ \E px \in Nat : orders' = [orders EXCEPT ![r] = Order(px, left, orders[r].side)]
  \/ /\ up /\ Known(orders, r) /\ left = 0
     /\ book' = [book EXCEPT ![r] = None] /\ orders' = [orders EXCEPT ![r] = None]
  \/ /\ ~up \/ ~Known(orders, r)
     /\ UNCHANGED <<orders, book>>

\* Such a message keeps the invariant when the decoder and the venue agree on what is
\* left of a followed order.
LEMMA ShrinkKeepsInv ==
  ASSUME ItchInv, NEW r \in issued, NEW left \in Nat, NEW v \in Orders \cup {None},
         Shrinks(r, left), venue' = [venue EXCEPT ![r] = v],
         r \in followed => v = IF left > 0 THEN [venue[r] EXCEPT !.qty = left] ELSE None,
         r \in followed => Known(venue, r),
         UNCHANGED <<issued, followed, processVars>>
  PROVE  ItchInv'
<1> USE NoneNoOrder
<1>0. /\ r \in Refs /\ venue \in [Refs -> Orders \cup {None}]
      /\ orders \in [Refs -> Orders \cup {None}] /\ book \in [Refs -> Orders \cup {None}]
  BY DEF ItchInv, TypeOK
<1>1. CASE up /\ Known(orders, r) /\ left > 0
  <2>1. PICK px \in Nat : orders' = [orders EXCEPT ![r] = Order(px, left, orders[r].side)]
    BY <1>1 DEF Shrinks
  <2>2. book' = [book EXCEPT ![r].qty = left]
    BY <1>1 DEF Shrinks
  <2>3. orders[r] \in Orders /\ book[r] \in Orders
    BY <1>0, <1>1 DEF ItchInv, TableInBook, Known
  <2>4. /\ Order(px, left, orders[r].side) \in Orders
        /\ [book[r] EXCEPT !.qty = left] \in Orders
        /\ [book[r] EXCEPT !.qty = left].qty = left
        /\ [book[r] EXCEPT !.qty = left].side = book[r].side
    BY <1>1, <2>3 DEF Orders, Order
  <2>5. /\ orders'[r] \in Orders /\ book'[r] \in Orders
        /\ orders'[r].qty = left /\ orders'[r].side = orders[r].side
        /\ book'[r].qty = left /\ book'[r].side = book[r].side
        /\ book'[r] = [book[r] EXCEPT !.qty = left]
    BY <1>0, <2>1, <2>2, <2>4 DEF Order
  <2>6. TypeOK'
    BY <1>0, <2>1, <2>2, <2>4 DEF ItchInv, TypeOK, processVars
  <2>7. Unissued'
    BY <1>0, <2>1, <2>2 DEF ItchInv, Unissued, processVars
  <2>8. FollowedKnown'
    BY <1>0, <1>1, <2>1, <2>3, <2>5 DEF ItchInv, FollowedKnown, FollowedExact, Known, Orders, None
  <2>9. TableInBook'
    BY <1>0, <2>1, <2>2, <2>3, <2>5, <1>1 DEF ItchInv, TableInBook, Known
  <2>10. FollowedExact'
    BY <1>0, <1>1, <2>2, <2>5 DEF ItchInv, FollowedExact, FollowedKnown
  <2> QED
    BY <1>1, <2>6, <2>7, <2>8, <2>9, <2>10 DEF ItchInv, AllFollowed, processVars
<1>2. CASE up /\ Known(orders, r) /\ left = 0
  <2>1. book' = [book EXCEPT ![r] = None] /\ orders' = [orders EXCEPT ![r] = None]
    BY <1>2 DEF Shrinks
  <2>2. TypeOK' /\ Unissued' /\ TableInBook'
    BY <1>0, <2>1 DEF ItchInv, TypeOK, Unissued, TableInBook, Known, processVars
  <2>3. FollowedKnown' /\ FollowedExact'
    BY <1>0, <1>2, <2>1 DEF ItchInv, FollowedKnown, FollowedExact, Known
  <2> QED
    BY <1>2, <2>2, <2>3 DEF ItchInv, AllFollowed, processVars
<1>3. CASE ~up \/ ~Known(orders, r)
  <2>1. UNCHANGED <<orders, book>>
    BY <1>3 DEF Shrinks
  <2>2. r \notin followed
    BY <1>3 DEF ItchInv, FollowedKnown
  <2>3. TypeOK' /\ Unissued' /\ TableInBook'
    BY <1>0, <2>1 DEF ItchInv, TypeOK, Unissued, TableInBook, Known, processVars
  <2>4. FollowedKnown' /\ FollowedExact'
    BY <1>0, <2>1, <2>2 DEF ItchInv, TypeOK, FollowedKnown, FollowedExact, Known
  <2> QED
    BY <2>1, <2>3, <2>4 DEF ItchInv, AllFollowed, processVars, NoOrders
<1> QED
  BY <1>1, <1>2, <1>3

\* The handlers of an execution, a cancel and a trade shrink the order by n shares, the
\* handler of a delete by all of them.
LEMMA HandlersShrink ==
  ASSUME ItchInv, ~ConsumeTrades, NEW r \in Refs, NEW n \in Nat, NEW px \in Nat
  PROVE  /\ Handled(on_exec(r, n)) => Shrinks(r, Left(orders[r].qty, n))
         /\ Handled(on_cancel(r, n)) => Shrinks(r, Left(orders[r].qty, n))
         /\ Handled(on_trade(r, n, px)) => Shrinks(r, Left(orders[r].qty, n))
         /\ Handled(on_delete(r)) => Shrinks(r, 0)
<1> DEFINE left == Left(orders[r].qty, n)
<1> USE NoneNoOrder
<1>0. /\ orders \in [Refs -> Orders \cup {None}] /\ book \in [Refs -> Orders \cup {None}]
  BY DEF ItchInv, TypeOK
<1>1. CASE ~up
  BY <1>1 DEF Handled, Shrinks
<1>2. CASE up /\ ~Known(orders, r)
  <2>1. /\ on_exec(r, n) = Result(orders, <<>>) /\ on_cancel(r, n) = Result(orders, <<>>)
        /\ on_delete(r) = Result(orders, <<>>)
        /\ on_trade(r, n, px) = Result(orders, <<TradeEvent(r, n)>>)
    BY <1>2 DEF on_exec, on_cancel, on_delete, on_trade
  <2>2. apply(book, TradeEvent(r, n)) = book
    BY DEF apply, TradeEvent
  <2>3. Decoded(Result(orders, <<>>)) => UNCHANGED <<orders, book>>
    BY DEF Decoded, Result
  <2>4. Decoded(Result(orders, <<TradeEvent(r, n)>>)) => UNCHANGED <<orders, book>>
    BY <2>2 DEF Decoded, Result
  <2> QED
    BY <1>2, <2>1, <2>3, <2>4 DEF Handled, Shrinks
<1>3. CASE up /\ Known(orders, r)
  <2>0. /\ orders[r] \in Orders /\ Known(book, r) /\ left \in Nat
    BY <1>0, <1>3 DEF ItchInv, TableInBook, Known, Left, Orders
  <2>1. \A b : apply(b, TradeEvent(r, n)) = b
    BY DEF apply, TradeEvent
  <2>2. apply(book, DelEvent(r)) = [book EXCEPT ![r] = None]
    BY DEF apply, DelEvent
  <2>3. left > 0 => apply(book, ModEvent(r, left)) = [book EXCEPT ![r].qty = left]
    BY <2>0 DEF apply, ModEvent, SetQty
  <2>4. ASSUME NEW t, NEW e PROVE Decoded(Result(t, <<e>>)) => orders' = t /\ book' = apply(book, e)
    BY DEF Decoded, Result
  <2>5. ASSUME NEW t, NEW e
        PROVE  Decoded(Result(t, <<e, TradeEvent(r, n)>>)) => orders' = t /\ book' = apply(book, e)
    BY <2>1 DEF Decoded, Result
  <2>6. ASSUME NEW q \in Nat
        PROVE  [orders EXCEPT ![r].qty = q] = [orders EXCEPT ![r] = Order(orders[r].px, q, orders[r].side)]
    <3>1. [orders[r] EXCEPT !.qty = q] = Order(orders[r].px, q, orders[r].side)
      BY <2>0 DEF Orders, Order
    <3> QED
      BY Zenon, <1>0, <3>1
  <2>7. orders[r].px \in Nat
    BY <2>0 DEF Orders
  <2>8. Handled(on_delete(r)) => Shrinks(r, 0)
    BY <1>3, <2>2, <2>4 DEF Handled, on_delete, Shrinks
  <2>9. CASE left > 0
    <3>1. /\ on_exec(r, n) = Result([orders EXCEPT ![r].qty = left], <<ModEvent(r, left), TradeEvent(r, n)>>)
          /\ on_cancel(r, n) = Result([orders EXCEPT ![r].qty = left], <<ModEvent(r, left)>>)
          /\ on_trade(r, n, px) = Result([orders EXCEPT ![r] = Order(px, left, orders[r].side)],
                                         <<ModEvent(r, left), TradeEvent(r, n)>>)
      BY <1>3, <2>9 DEF on_exec, on_cancel, on_trade
    <3>2. ASSUME Handled(on_exec(r, n)) PROVE Shrinks(r, left)
      <4>1. Decoded(on_exec(r, n))
        BY <1>3, <3>2 DEF Handled
      <4>2. /\ orders' = [orders EXCEPT ![r].qty = left]
            /\ book' = apply(book, ModEvent(r, left))
        BY Zenon, <3>1, <4>1, <2>5
      <4>3. orders' = [orders EXCEPT ![r] = Order(orders[r].px, left, orders[r].side)]
        BY Zenon, <2>0, <4>2, <2>6
      <4> QED
        BY Zenon, <1>0, <1>3, <2>3, <2>7, <2>9, <4>2, <4>3 DEF Shrinks
    <3>3. ASSUME Handled(on_cancel(r, n)) PROVE Shrinks(r, left)
      <4>1. Decoded(on_cancel(r, n))
        BY <1>3, <3>3 DEF Handled
      <4>2. /\ orders' = [orders EXCEPT ![r].qty = left]
            /\ book' = apply(book, ModEvent(r, left))
        BY Zenon, <3>1, <4>1, <2>4
      <4>3. orders' = [orders EXCEPT ![r] = Order(orders[r].px, left, orders[r].side)]
        BY Zenon, <2>0, <4>2, <2>6
      <4> QED
        BY Zenon, <1>0, <1>3, <2>3, <2>7, <2>9, <4>2, <4>3 DEF Shrinks
    <3>4. ASSUME Handled(on_trade(r, n, px)) PROVE Shrinks(r, left)
      <4>1. Decoded(on_trade(r, n, px))
        BY <1>3, <3>4 DEF Handled
      <4>2. /\ orders' = [orders EXCEPT ![r] = Order(px, left, orders[r].side)]
            /\ book' = apply(book, ModEvent(r, left))
        BY <3>1, <4>1, <2>5
      <4> QED
        BY Zenon, <1>0, <1>3, <2>3, <2>9, <4>2 DEF Shrinks
    <3> QED
      BY <2>8, <3>2, <3>3, <3>4
  <2>10. CASE left = 0
    <3>1. /\ on_exec(r, n) = Result([orders EXCEPT ![r] = None], <<DelEvent(r), TradeEvent(r, n)>>)
          /\ on_cancel(r, n) = Result([orders EXCEPT ![r] = None], <<DelEvent(r)>>)
          /\ on_trade(r, n, px) = Result([orders EXCEPT ![r] = None], <<DelEvent(r), TradeEvent(r, n)>>)
      BY <1>3, <2>10 DEF on_exec, on_cancel, on_trade
    <3> QED
      BY <1>3, <2>2, <2>4, <2>5, <2>8, <2>10, <3>1 DEF Handled, Shrinks
  <2> QED
    BY <2>0, <2>9, <2>10
<1> QED
  BY <1>1, <1>2, <1>3

\* A followed order has the venue's quantity in the table, too, and an unused reference
\* is not followed.
LEMMA FollowedQty ==
  ASSUME ItchInv, NEW r \in followed, Known(venue, r)
  PROVE  r \in Refs /\ orders[r].qty = venue[r].qty /\ Known(orders, r)
BY DEF ItchInv, TypeOK, FollowedKnown, FollowedExact, TableInBook

\* An execution, a cancel or a trade against a live order.
LEMMA ReduceKeepsInv ==
  ASSUME ItchInv, NEW r \in Refs, NEW n \in Qtys, Live(r), n <= venue[r].qty,
         Reduced(r, n), Shrinks(r, Left(orders[r].qty, n)),
         UNCHANGED <<issued, followed, processVars>>
  PROVE  ItchInv'
<1> DEFINE v == IF n < venue[r].qty THEN Order(venue[r].px, venue[r].qty - n, venue[r].side) ELSE None
           left == Left(orders[r].qty, n)
<1> USE NoneNoOrder
<1>1. r \in issued /\ venue[r] \in Orders /\ n \in Nat
  BY DEF ItchInv, TypeOK, Unissued, Live, Known
<1>2. v \in Orders \cup {None}
  BY <1>1 DEF Orders, Order
<1>3. venue' = [venue EXCEPT ![r] = v]
  BY DEF Reduced, ItchInv, TypeOK
<1>4. orders[r].qty \in Nat
  BY DEF ItchInv, TypeOK, Orders, None
<1>5. left \in Nat
  BY <1>1, <1>4 DEF Left
<1>6. ASSUME r \in followed
      PROVE  v = IF left > 0 THEN [venue[r] EXCEPT !.qty = left] ELSE None
  <2>1. orders[r].qty = venue[r].qty
    BY <1>6, FollowedQty DEF Live
  <2> QED
    BY <1>1, <2>1 DEF Left, Orders, Order
<1>7. Shrinks(r, left) /\ Known(venue, r)
  BY DEF Live
<1> HIDE DEF v, left
<1> QED
  BY Zenon, <1>1, <1>2, <1>3, <1>5, <1>6, <1>7, ShrinkKeepsInv

\* Add and Replace put a new order into the table and the book.
LEMMA NewOrderKeepsInv ==
  ASSUME ItchInv, up, NEW r \in Refs \ issued, NEW o \in Orders, NEW v \in Orders,
         NEW f \in {followed, followed \cup {r}}, r \in f => v = o,
         ~restarted => r \in f,
         orders' = [orders EXCEPT ![r] = o], book' = [book EXCEPT ![r] = o],
         venue' = [venue EXCEPT ![r] = v],
         issued' = issued \cup {r}, followed' = f, UNCHANGED processVars
  PROVE  ItchInv'
<1> USE NoneNoOrder
<1>1. TypeOK'
  BY DEF ItchInv, TypeOK, processVars, FollowedKnown
<1>2. Unissued' /\ TableInBook'
  BY DEF ItchInv, TypeOK, Unissued, TableInBook, Known, processVars
<1>3. FollowedKnown' /\ FollowedExact'
  BY DEF ItchInv, TypeOK, FollowedKnown, FollowedExact, Known
<1>4. AllFollowed'
  BY DEF ItchInv, AllFollowed, processVars, FollowedKnown
<1> QED
  BY <1>1, <1>2, <1>3, <1>4 DEF ItchInv, processVars

\* While the process is down the venue may do anything.
LEMMA DownKeepsInv ==
  ASSUME ItchInv, ~up, venue' \in [Refs -> Orders \cup {None}],
         issued \subseteq issued', issued' \subseteq Refs,
         \A r \in Refs : r \notin issued' => venue'[r] = None,
         UNCHANGED <<orders, book, followed, processVars>>
  PROVE  ItchInv'
<1>1. TypeOK' /\ Unissued' /\ TableInBook'
  BY DEF ItchInv, TypeOK, Unissued, TableInBook, Known, processVars
<1>2. followed' = {} /\ restarted'
  BY DEF ItchInv, AllFollowed, processVars
<1>3. FollowedKnown' /\ FollowedExact' /\ AllFollowed'
  BY <1>2 DEF FollowedKnown, FollowedExact, AllFollowed
<1> QED
  BY <1>1, <1>3 DEF ItchInv, processVars, NoOrders

\* A new order is added by on_add, or missed while the process is down.
LEMMA AddKeepsInv ==
  ASSUME ItchInv, ~ConsumeTrades, NEW r \in Refs, NEW px \in Prices, NEW qty \in Qtys,
         NEW side \in Sides, Add(r, px, qty, side)
  PROVE  ItchInv'
<1>1. Order(px, qty, side) \in Orders
  BY DEF Orders, Order
<1>2. CASE up
  <2>1. Decoded(on_add(r, px, qty, side))
    BY <1>2 DEF Add, Handled
  <2>2. apply(book, AddEvent(r, px, qty, side)) = [book EXCEPT ![r] = Order(px, qty, side)]
    BY DEF apply, AddEvent
  <2>3. /\ orders' = [orders EXCEPT ![r] = Order(px, qty, side)]
        /\ book' = [book EXCEPT ![r] = Order(px, qty, side)]
    BY <2>1, <2>2 DEF Decoded, Result, on_add
  <2>4. followed' = followed \cup {r} /\ r \in Refs \ issued
    BY <1>2 DEF Add
  <2>5. /\ venue' = [venue EXCEPT ![r] = Order(px, qty, side)]
        /\ issued' = issued \cup {r} /\ UNCHANGED processVars
    BY DEF Add
  <2> QED
    BY Zenon, <1>1, <1>2, <2>3, <2>4, <2>5, NewOrderKeepsInv
<1>3. CASE ~up
  <2>1. UNCHANGED <<orders, book, followed, processVars>>
    BY <1>3 DEF Add, Handled
  <2>2. venue' \in [Refs -> Orders \cup {None}] /\ \A x \in Refs : x \notin issued' => venue'[x] = None
    BY <1>1 DEF Add, ItchInv, TypeOK, Unissued
  <2>3. issued \subseteq issued' /\ issued' \subseteq Refs
    BY DEF Add, ItchInv, TypeOK
  <2> QED
    BY <1>3, <2>1, <2>2, <2>3, DownKeepsInv
<1> QED
  BY <1>2, <1>3

\* on_replace: a followed original hands its side and its being followed to the new order;
\* an unknown original leaves the new order unfollowed.
LEMMA ReplaceKeepsInv ==
  ASSUME ItchInv, ~ConsumeTrades, NEW r \in Refs, NEW new \in Refs, NEW px \in Prices,
         NEW qty \in Qtys, Replace(r, new, px, qty)
  PROVE  ItchInv'
<1> DEFINE side == IF Known(orders, r) THEN orders[r].side ELSE "Bid"
           o == Order(px, qty, side)
           v == Order(px, qty, venue[r].side)
<1> USE NoneNoOrder
<1>1. /\ venue \in [Refs -> Orders \cup {None}] /\ orders \in [Refs -> Orders \cup {None}]
      /\ book \in [Refs -> Orders \cup {None}]
  BY DEF ItchInv, TypeOK
<1>2. r \in issued /\ new \notin issued /\ r # new /\ Known(venue, r) /\ venue[r] \in Orders
  BY <1>1 DEF Replace, Live, ItchInv, Unissued, Known
<1>3. o \in Orders /\ v \in Orders
  BY <1>1, <1>2 DEF Orders, Order, Sides, Known
<1>4. /\ venue' = [venue EXCEPT ![r] = None, ![new] = v]
      /\ issued' = issued \cup {new} /\ UNCHANGED processVars
  BY DEF Replace
<1>5. /\ venue' \in [Refs -> Orders \cup {None}] /\ issued' \subseteq Refs
      /\ \A x \in Refs : x \notin issued' => venue'[x] = None
  BY <1>1, <1>3, <1>4 DEF ItchInv, TypeOK, Unissued
<1>6. CASE ~up
  <2>1. UNCHANGED <<orders, book, followed>>
    BY <1>6 DEF Replace, Handled
  <2> QED
    BY <1>4, <1>5, <1>6, <2>1, DownKeepsInv
<1>7. CASE up
  <2>1. Decoded(on_replace(r, new, px, qty))
    BY <1>7 DEF Replace, Handled
  <2>2. orders' = [orders EXCEPT ![r] = None, ![new] = o]
    BY <2>1 DEF Decoded, on_replace, Result
  <2>3. \A b : /\ apply(b, AddEvent(new, px, qty, side)) = [b EXCEPT ![new] = o]
               /\ apply(b, DelEvent(r)) = [b EXCEPT ![r] = None]
    BY DEF apply, AddEvent, DelEvent
  <2>4. /\ Known(orders, r) => book' = [book EXCEPT ![r] = None, ![new] = o]
        /\ ~Known(orders, r) => book' = [book EXCEPT ![new] = o]
    <3> DEFINE table == [orders EXCEPT ![r] = None, ![new] = o]
               added == AddEvent(new, px, qty, side)
    <3>1. CASE Known(orders, r)
      <4>1. on_replace(r, new, px, qty) = Result(table, <<DelEvent(r), added>>)
        BY <3>1 DEF on_replace
      <4> HIDE DEF table, added
      <4>2. book' = apply(apply(book, DelEvent(r)), added)
        BY <2>1, <4>1 DEF Decoded, Result
      <4> QED
        BY <2>3, <3>1, <4>2 DEF added
    <3>2. CASE ~Known(orders, r)
      <4>1. on_replace(r, new, px, qty) = Result(table, <<added>>)
        BY <3>2 DEF on_replace
      <4> HIDE DEF table, added
      <4>2. book' = apply(book, added)
        BY <2>1, <4>1 DEF Decoded, Result
      <4> QED
        BY Zenon, <2>3, <3>2, <4>2 DEF added
    <3> QED
      BY <3>1, <3>2
  <2>5. r \in followed => Known(orders, r) /\ o = v
    BY <1>1, <1>2 DEF ItchInv, FollowedKnown, FollowedExact, TableInBook
  <2>6. followed' = IF r \in followed THEN followed \cup {new} ELSE followed
    BY <1>7 DEF Replace
  <2>7. new \notin followed /\ ~Known(orders, new)
    BY <1>2 DEF ItchInv, FollowedKnown, Unissued, Known
  <2> HIDE DEF side, o, v
  <2>8. TypeOK' /\ Unissued'
    BY <1>1, <1>2, <1>3, <1>4, <1>5, <2>2, <2>4, <2>6 DEF ItchInv, TypeOK, Unissued, processVars
  <2>9. TableInBook'
    BY <1>1, <1>2, <1>3, <2>2, <2>4 DEF ItchInv, TableInBook, Known
  <2>10. FollowedKnown' /\ FollowedExact'
    BY <1>1, <1>2, <1>3, <1>4, <2>2, <2>4, <2>5, <2>6, <2>7
    DEF ItchInv, TypeOK, FollowedKnown, FollowedExact, Known
  <2>11. AllFollowed'
    BY <1>2, <1>4, <1>7, <2>6 DEF ItchInv, AllFollowed, processVars
  <2> QED
    BY <1>4, <1>7, <2>8, <2>9, <2>10, <2>11 DEF ItchInv, processVars
<1> QED
  BY <1>6, <1>7

\* A message about a live order that takes all of it.
LEMMA DeleteKeepsInv ==
  ASSUME ItchInv, NEW r \in Refs, Live(r), venue' = [venue EXCEPT ![r] = None],
         Shrinks(r, 0), UNCHANGED <<issued, followed, processVars>>
  PROVE  ItchInv'
<1>1. r \in issued /\ Known(venue, r)
  BY DEF ItchInv, Unissued, Live, Known
<1>2. None = IF 0 > 0 THEN [venue[r] EXCEPT !.qty = 0] ELSE None
  OBVIOUS
<1>3. 0 \in Nat /\ None \in Orders \cup {None}
  OBVIOUS
<1> QED
  BY Zenon, <1>1, <1>2, <1>3, ShrinkKeepsInv

\* Every message of the venue keeps the invariant, seen or missed.
LEMMA MessageKeepsInv == ItchInv /\ ~ConsumeTrades /\ Message => ItchInv'
<1> SUFFICES ASSUME ItchInv, ~ConsumeTrades, Message PROVE ItchInv'
  OBVIOUS
<1>1. PICK r \in Refs :
        \/ Delete(r)
        \/ \E n \in Qtys : Execute(r, n) \/ Cancel(r, n)
        \/ \E n \in Qtys, px \in Prices : Trade(r, n, px)
        \/ \E n \in Qtys, px \in Prices, new \in Refs : Replace(r, new, px, n)
        \/ \E n \in Qtys, px \in Prices, side \in Sides : Add(r, px, n, side)
  BY Zenon DEF Message
<1>2. CASE Delete(r)
  <2>1. Shrinks(r, 0)
    BY <1>2, HandlersShrink DEF Delete
  <2> QED
    BY Zenon, <1>2, <2>1, DeleteKeepsInv DEF Delete
<1>3. CASE \E n \in Qtys : Execute(r, n) \/ Cancel(r, n)
  <2>1. PICK n \in Qtys : Execute(r, n) \/ Cancel(r, n)
    BY <1>3
  <2>2. Shrinks(r, Left(orders[r].qty, n))
    <3>1. n \in Nat /\ 0 \in Nat
      OBVIOUS
    <3> QED
      BY <2>1, <3>1, HandlersShrink DEF Execute, Cancel
  <2> QED
    BY <2>1, <2>2, ReduceKeepsInv DEF Execute, Cancel
<1>4. CASE \E n \in Qtys, px \in Prices : Trade(r, n, px)
  <2>1. PICK n \in Qtys, px \in Prices : Trade(r, n, px)
    BY <1>4
  <2>2. Shrinks(r, Left(orders[r].qty, n))
    BY <2>1, HandlersShrink DEF Trade
  <2>3. CASE Live(r) /\ n <= venue[r].qty /\ Reduced(r, n)
    BY <2>1, <2>2, <2>3, ReduceKeepsInv DEF Trade
  <2>4. CASE r \notin issued /\ UNCHANGED venue
    <3>1. UNCHANGED <<orders, book>>
      BY <2>2, <2>4 DEF Shrinks, ItchInv, Unissued, Known
    <3> QED
      BY <2>1, <2>4, <3>1 DEF Trade, ItchInv, TypeOK, Unissued, FollowedKnown, AllFollowed,
                              TableInBook, FollowedExact, Known, processVars, NoOrders
  <2> QED
    BY <2>1, <2>3, <2>4 DEF Trade
<1>5. CASE \E n \in Qtys, px \in Prices, new \in Refs : Replace(r, new, px, n)
  BY <1>5, ReplaceKeepsInv
<1>6. CASE \E n \in Qtys, px \in Prices, side \in Sides : Add(r, px, n, side)
  BY <1>6, AddKeepsInv
<1> QED
  BY <1>1, <1>2, <1>3, <1>4, <1>5, <1>6

\* Every step keeps the invariant.
LEMMA ItchInvStep == ItchInv /\ ~ConsumeTrades /\ [Next]_vars => ItchInv'
<1> SUFFICES ASSUME ItchInv, ~ConsumeTrades, [Next]_vars PROVE ItchInv'
  OBVIOUS
<1>1. CASE Message
  BY <1>1, MessageKeepsInv
<1>2. CASE Save
  BY <1>2 DEF Save, ItchInv, TypeOK, Unissued, FollowedKnown, AllFollowed, TableInBook,
              FollowedExact, Known
<1>3. CASE Stop
  BY Zenon, <1>3 DEF Stop, ItchInv, TypeOK, Unissued, FollowedKnown, AllFollowed, TableInBook,
              FollowedExact, Known, NoOrders
<1>4. CASE Start
  <2>1. ~up /\ orders = NoOrders /\ followed = {} /\ restarted
    BY <1>4 DEF Start, ItchInv, AllFollowed
  <2> QED
    BY <1>4, <2>1 DEF Start, ItchInv, TypeOK, Unissued, FollowedKnown, AllFollowed,
                      TableInBook, FollowedExact, Known, NoOrders
<1>5. CASE UNCHANGED vars
  BY <1>5 DEF vars, processVars, ItchInv, TypeOK, Unissued, FollowedKnown, AllFollowed,
              TableInBook, FollowedExact, Known, NoOrders
<1> QED
  BY <1>1, <1>2, <1>3, <1>4, <1>5 DEF Next

\* Before the first restart every order is followed, so the books are equal.
LEMMA BookMatches == ItchInv => BookMatchesVenue
BY DEF ItchInv, TypeOK, Unissued, AllFollowed, FollowedExact, BookMatchesVenue

LEMMA ItchInvAlways ==
  ASSUME ~ConsumeTrades
  PROVE  Spec => []ItchInv
<1>1. ItchInv /\ [Next]_vars => ItchInv'
  BY ItchInvStep
<1> QED
  BY <1>1, ItchInvInit, PTL DEF Spec

\* Unless the book consumes trades on top of the Mod and Del events, quantities stay
\* natural numbers and an order that is reduced to nothing is gone, in the decoder, in
\* the book and at the venue.
THEOREM ItchTyped ==
  ASSUME ~ConsumeTrades
  PROVE  Spec => []TypeOK
<1>1. ItchInv => TypeOK
  BY DEF ItchInv
<1> QED
  BY <1>1, ItchInvAlways, PTL

\* Every order of the decoder's table is in the book with the same quantity and side,
\* so that each event it makes from the table finds its order; also after restarts,
\* which empty the table and load the book from the snapshot.
THEOREM TableOrdersInBook ==
  ASSUME ~ConsumeTrades
  PROVE  Spec => []TableInBook
<1>1. ItchInv => TableInBook
  BY DEF ItchInv
<1> QED
  BY <1>1, ItchInvAlways, PTL

\* The book agrees with the venue on every order whose whole life the decoder has seen,
\* also when orders from before a restart are in the book beside it.
THEOREM FollowedOrdersExact ==
  ASSUME ~ConsumeTrades
  PROVE  Spec => []FollowedExact
<1>1. ItchInv => FollowedExact
  BY DEF ItchInv
<1> QED
  BY <1>1, ItchInvAlways, PTL

\* Until the first restart the book is the venue's.
THEOREM ItchCorrect ==
  ASSUME ~ConsumeTrades
  PROVE  Spec => []BookMatchesVenue
<1> QED
  BY BookMatches, ItchInvAlways, PTL
=============================================================================
