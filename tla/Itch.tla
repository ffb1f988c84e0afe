-------------------------------- MODULE Itch --------------------------------
(***************************************************************************)
(* The ITCH decoder of src/src/decoder_itch.rs between the venue and the     *)
(* book.  ITCH messages carry differences (shares executed, shares           *)
(* cancelled); the decoder keeps a table of live orders to turn them into    *)
(* events with absolute quantities, which the book applies.                  *)
(*                                                                         *)
(* The decode thread decodes and applies a packet and looks at snapshots     *)
(* only between packets, so one message is one step.  The book is saved from *)
(* time to time; a restart loads it, and starts with an empty table.  The    *)
(* venue is external: it never uses a reference twice and never executes or  *)
(* cancels more than an order has.  Messages it sends while the process is   *)
(* down are missed.                                                         *)
(***************************************************************************)
EXTENDS Integers, Sequences

CONSTANTS
  Refs,          \* order references
  Prices, Qtys,
  ConsumeTrades  \* book.consume_trades: "reduce book on trades when feed omits mods/dels"

ASSUME ItchAssumption ==
  /\ Prices \subseteq Nat /\ Qtys \subseteq Nat \ {0}
  /\ ConsumeTrades \in BOOLEAN

VARIABLES
  venue,      \* the venue's live orders
  issued,     \* the references it has used
  up,         \* the process runs
  orders,     \* the decoder's table
  book,       \* the orders resting in the book
  saved,      \* the book of the last snapshot
  restarted,  \* whether the process was ever down
  followed    \* the references whose origin this decoder has seen

processVars == <<up, saved, restarted>>
vars == <<venue, issued, orders, book, followed, processVars>>

Sides == {"Bid", "Ask"}
Orders == [px : Nat, qty : Nat \ {0}, side : Sides]
None == [px |-> 0, qty |-> 0, side |-> "none"]
NoOrders == [r \in Refs |-> None]
Known(table, r) == table[r] # None
Left(qty, n) == IF n < qty THEN qty - n ELSE 0   \* (qty - n).max(0)

----------------------------------------------------------------------------
(***************************************************************************)
(* The decoder: each handler gives the new table and the events it emits.    *)
(***************************************************************************)
Order(px, qty, side) == [px |-> px, qty |-> qty, side |-> side]
AddEvent(r, px, qty, side) == [type |-> "Add", ref |-> r, order |-> Order(px, qty, side)]
ModEvent(r, qty) == [type |-> "Mod", ref |-> r, qty |-> qty]
DelEvent(r) == [type |-> "Del", ref |-> r]
TradeEvent(r, qty) == [type |-> "Trade", ref |-> r, qty |-> qty]

Result(table, events) == [table |-> table, events |-> events]

on_add(r, px, qty, side) ==
  Result([orders EXCEPT ![r] = Order(px, qty, side)], <<AddEvent(r, px, qty, side)>>)

\* Mutant: the event carries the executed shares, not what is left.
on_exec_relative(r, n) ==
  LET left == Left(orders[r].qty, n)
      trade == TradeEvent(r, n)
  IN  IF ~Known(orders, r) THEN Result(orders, <<>>)
      ELSE IF left > 0
           THEN Result([orders EXCEPT ![r].qty = left], <<ModEvent(r, n), trade>>)
           ELSE Result([orders EXCEPT ![r] = None], <<DelEvent(r), trade>>)

\* Mutant: an order executed in full stays in the table.
on_exec_keeps(r, n) ==
  LET left == Left(orders[r].qty, n)
      trade == TradeEvent(r, n)
  IN  IF ~Known(orders, r) THEN Result(orders, <<>>)
      ELSE Result([orders EXCEPT ![r].qty = left],
                  <<IF left > 0 THEN ModEvent(r, left) ELSE DelEvent(r), trade>>)

\* 'E' and 'C'.  An unknown order is ignored.
on_exec(r, n) ==
  LET left == Left(orders[r].qty, n)
      trade == TradeEvent(r, n)
  IN  IF ~Known(orders, r) THEN Result(orders, <<>>)
      ELSE IF left > 0
           THEN Result([orders EXCEPT ![r].qty = left], <<ModEvent(r, left), trade>>)
           ELSE Result([orders EXCEPT ![r] = None], <<DelEvent(r), trade>>)

\* Mutant: the table keeps the quantity before the cancel.
on_cancel_forgets(r, n) ==
  LET left == Left(orders[r].qty, n)
  IN  IF ~Known(orders, r) THEN Result(orders, <<>>)
      ELSE IF left > 0
           THEN Result(orders, <<ModEvent(r, left)>>)
           ELSE Result([orders EXCEPT ![r] = None], <<DelEvent(r)>>)

on_cancel(r, n) ==
  LET left == Left(orders[r].qty, n)
  IN  IF ~Known(orders, r) THEN Result(orders, <<>>)
      ELSE IF left > 0
           THEN Result([orders EXCEPT ![r].qty = left], <<ModEvent(r, left)>>)
           ELSE Result([orders EXCEPT ![r] = None], <<DelEvent(r)>>)

on_delete(r) ==
  IF ~Known(orders, r) THEN Result(orders, <<>>)
  ELSE Result([orders EXCEPT ![r] = None], <<DelEvent(r)>>)

\* Mutant: the side is looked up after the original entry is gone.
on_replace_late(r, new, px, qty) ==
  LET side == "Bid"
      added == AddEvent(new, px, qty, side)
  IN  Result([orders EXCEPT ![r] = None, ![new] = Order(px, qty, side)],
             IF Known(orders, r) THEN <<DelEvent(r), added>> ELSE <<added>>)

\* The new order has the side of the original, Bid when that is unknown.
on_replace(r, new, px, qty) ==
  LET side == IF Known(orders, r) THEN orders[r].side ELSE "Bid"
      added == AddEvent(new, px, qty, side)
  IN  Result([orders EXCEPT ![r] = None, ![new] = Order(px, qty, side)],
             IF Known(orders, r) THEN <<DelEvent(r), added>> ELSE <<added>>)

\* 'P': the table takes over the price of the trade.
on_trade(r, n, px) ==
  LET left == Left(orders[r].qty, n)
      trade == TradeEvent(r, n)
  IN  IF ~Known(orders, r) THEN Result(orders, <<trade>>)
      ELSE IF left > 0
           THEN Result([orders EXCEPT ![r] = Order(px, left, @.side)], <<ModEvent(r, left), trade>>)
           ELSE Result([orders EXCEPT ![r] = None], <<DelEvent(r), trade>>)

----------------------------------------------------------------------------
(***************************************************************************)
(* OrderBook::apply, on the resting orders.  OrderBook shows how it keeps    *)
(* them; an order the book does not have is left alone.                     *)
(***************************************************************************)
SetQty(b, r, qty) == IF qty > 0 THEN [b EXCEPT ![r].qty = qty] ELSE [b EXCEPT ![r] = None]

apply(b, e) ==
  CASE e.type = "Add"                    -> [b EXCEPT ![e.ref] = e.order]
    [] e.type = "Mod" /\ Known(b, e.ref) -> SetQty(b, e.ref, e.qty)
    [] e.type = "Del"                    -> [b EXCEPT ![e.ref] = None]
    [] e.type = "Trade" /\ ConsumeTrades /\ Known(b, e.ref)
                                         -> SetQty(b, e.ref, Left(b[e.ref].qty, e.qty))
    [] OTHER                             -> b

\* The decode thread applies the events of a message, of which there are at most two.
Decoded(result) ==
  /\ orders' = result.table
  /\ book' = LET es == result.events IN
             CASE Len(es) = 0 -> book
               [] Len(es) = 1 -> apply(book, es[1])
               [] Len(es) = 2 -> apply(apply(book, es[1]), es[2])

Handled(result) == IF up THEN Decoded(result) ELSE UNCHANGED <<orders, book>>

----------------------------------------------------------------------------
(***************************************************************************)
(* The venue's messages.                                                   *)
(***************************************************************************)
Live(r) == Known(venue, r)
Reduced(r, n) ==
  venue' = [venue EXCEPT ![r] = IF n < @.qty THEN Order(@.px, @.qty - n, @.side) ELSE None]

Add(r, px, qty, side) ==
  /\ r \notin issued /\ issued' = issued \cup {r}
  /\ venue' = [venue EXCEPT ![r] = Order(px, qty, side)]
  /\ followed' = IF up THEN followed \cup {r} ELSE followed
  /\ Handled(on_add(r, px, qty, side))
  /\ UNCHANGED processVars

Execute(r, n) ==
  /\ Live(r) /\ n <= venue[r].qty
  /\ Reduced(r, n)
  /\ Handled(on_exec(r, n))
  /\ UNCHANGED <<issued, followed, processVars>>

Cancel(r, n) ==
  /\ Live(r) /\ n <= venue[r].qty
  /\ Reduced(r, n)
  /\ Handled(on_cancel(r, n))
  /\ UNCHANGED <<issued, followed, processVars>>

Delete(r) ==
  /\ Live(r)
  /\ venue' = [venue EXCEPT ![r] = None]
  /\ Handled(on_delete(r))
  /\ UNCHANGED <<issued, followed, processVars>>

Replace(r, new, px, qty) ==
  /\ Live(r) /\ new \notin issued /\ issued' = issued \cup {new}
  /\ venue' = [venue EXCEPT ![r] = None, ![new] = Order(px, qty, venue[r].side)]
  /\ followed' = IF up /\ r \in followed THEN followed \cup {new} ELSE followed
  /\ Handled(on_replace(r, new, px, qty))
  /\ UNCHANGED processVars

\* A trade against a displayed order, or against one that was never displayed.
Trade(r, n, px) ==
  /\ \/ Live(r) /\ n <= venue[r].qty /\ Reduced(r, n)
     \/ r \notin issued /\ UNCHANGED venue
  /\ Handled(on_trade(r, n, px))
  /\ UNCHANGED <<issued, followed, processVars>>

Message ==
  \E r \in Refs :
    \/ Delete(r)
    \/ \E n \in Qtys :
         \/ Execute(r, n) \/ Cancel(r, n)
         \/ \E px \in Prices :
              \/ Trade(r, n, px)
              \/ \E new \in Refs : Replace(r, new, px, n)
              \/ \E side \in Sides : Add(r, px, n, side)

----------------------------------------------------------------------------
Save ==
  /\ up
  /\ saved' = book
  /\ UNCHANGED <<venue, issued, orders, book, followed, up, restarted>>

\* The process stops or crashes; its memory is lost.
Stop ==
  /\ up /\ up' = FALSE
  /\ restarted' = TRUE
  /\ orders' = NoOrders /\ book' = NoOrders /\ followed' = {}
  /\ UNCHANGED <<venue, issued, saved>>

\* The decoder is new; the book comes from the snapshot, or is empty when load_on_start is
\* off or the load fails.
Start ==
  /\ ~up /\ up' = TRUE
  /\ book' \in {saved, NoOrders}
  /\ UNCHANGED <<venue, issued, orders, followed, saved, restarted>>

Init ==
  /\ venue = NoOrders /\ issued = {}
  /\ up = TRUE /\ orders = NoOrders /\ book = NoOrders /\ saved = NoOrders
  /\ restarted = FALSE /\ followed = {}

Next == Message \/ Save \/ Stop \/ Start
Spec == Init /\ [][Next]_vars

----------------------------------------------------------------------------
TypeOK ==
  /\ venue \in [Refs -> Orders \cup {None}] /\ orders \in [Refs -> Orders \cup {None}]
  /\ book \in [Refs -> Orders \cup {None}] /\ saved \in [Refs -> Orders \cup {None}]
  /\ issued \subseteq Refs /\ followed \subseteq Refs
  /\ up \in BOOLEAN /\ restarted \in BOOLEAN

\* Until the first restart the book is the venue's book: turning differences into
\* absolute quantities loses no order, share, price or side.
BookMatchesVenue == ~restarted => book = venue

\* Every order of the decoder's table rests in the book with the same side and
\* quantity, also after restarts: no Mod or Del event is lost on the book.
TableInBook ==
  \A r \in Refs : Known(orders, r) =>
    Known(book, r) /\ book[r].qty = orders[r].qty /\ book[r].side = orders[r].side

\* After a restart the book is still right about every order whose origin the new
\* decoder has seen, whatever was missed before and whatever the snapshot holds.
FollowedExact == \A r \in followed : book[r] = venue[r]
=============================================================================
