---------------------------- MODULE BoundedFifo ----------------------------
(***************************************************************************)
(* What a queue between two pipeline threads promises: values leave in the  *)
(* order they entered, none is lost, repeated or changed, and at most Size  *)
(* are inside.                                                              *)
(***************************************************************************)
EXTENDS Integers, Sequences

CONSTANTS Size, Items

VARIABLES items,  \* the values inside, oldest first
          latest  \* the value handed out last, or NoItem

NoItem == "none"
fifoVars == <<items, latest>>

Init == items = <<>> /\ latest = NoItem

Enqueue(v) ==
  /\ Len(items) < Size
  /\ items' = Append(items, v)
  /\ UNCHANGED latest

Dequeue ==
  /\ items # <<>>
  /\ latest' = Head(items)
  /\ items' = Tail(items)

Next == Dequeue \/ \E v \in Items : Enqueue(v)
Spec == Init /\ [][Next]_fifoVars
=============================================================================
