--------------------------- MODULE PriceTimeBook ---------------------------
(***************************************************************************)
(* What an order book with price-time priority promises: at every price a   *)
(* queue of orders, the oldest first.  A new order goes to the back, a       *)
(* change of quantity keeps an order's place, and nothing else moves it.    *)
(***************************************************************************)
EXTENDS Integers, Sequences

CONSTANTS Places,  \* where an order can rest: instrument, side and price
          Ids, Sizes

VARIABLE queue     \* queue[x]: the orders resting at x, [id |-> ..., qty |-> ...]

Resting(queues, o) == \E x \in Places : \E k \in DOMAIN queues[x] : queues[x][k].id = o
Without(s, k) == SubSeq(s, 1, k - 1) \o SubSeq(s, k + 1, Len(s))

\* What may happen to one queue: s before, t after.
Placed(s, t, queues) ==
  \E o \in Ids, q \in Sizes : t = Append(s, [id |-> o, qty |-> q]) /\ ~Resting(queues, o)
Resized(s, t) == \E k \in DOMAIN s, q \in Sizes : t = [s EXCEPT ![k].qty = q]
Withdrawn(s, t) == \E k \in DOMAIN s : t = Without(s, k)

Init == queue = [x \in Places |-> <<>>]

\* Exactly one queue changes.
Step(old, new) ==
  /\ old # new
  /\ \E x \in Places :
       /\ \A y \in Places \ {x} : new[y] = old[y]
       /\ Placed(old[x], new[x], old) \/ Resized(old[x], new[x]) \/ Withdrawn(old[x], new[x])

Next == Step(queue, queue')

Spec == Init /\ [][Next]_queue
=============================================================================
