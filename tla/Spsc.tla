-------------------------------- MODULE Spsc --------------------------------
(***************************************************************************)
(* SpscQueue of src/src/spsc.rs, the lock-free ring between two threads.    *)
(*                                                                         *)
(* head and tail are machine words that wrap at Wrap.  An acquire load of   *)
(* the other side's index may return any value between the last one this    *)
(* thread saw and the current one; a thread reads its own index exactly.    *)
(* Writing a slot and publishing the index are separate steps, as are       *)
(* reading a slot and freeing it.                                           *)
(***************************************************************************)
EXTENDS Integers, Sequences

CONSTANTS
  Cap,      \* number of slots, a power of two of at least 2; mask is Cap - 1
  Wrap,     \* 2^64 in the code, a multiple of Cap
  Items,    \* the values pushed
  MaxSpins  \* push_with_backoff's max_spins

ASSUME SpscAssumption ==
  /\ Cap \in Nat /\ Cap >= 2
  /\ Wrap \in Nat /\ Wrap > Cap /\ Wrap % Cap = 0
  /\ MaxSpins \in Nat
  /\ "none" \notin Items

VARIABLES
  buf, head, tail,
  ppc,        \* producer: "idle", "load", "write", "publish"
  pval,       \* the value being pushed
  mode,       \* push, push_with_backoff or push_blocking
  spins,      \* retries so far (push_with_backoff)
  seen_tail,  \* the last tail the producer loaded
  cpc,        \* consumer: "idle", "read", "publish"
  cval,       \* the value read from the slot
  seen_head,  \* the last head the consumer loaded
  popped      \* the last value pop returned

producerVars == <<ppc, pval, mode, spins, seen_tail>>
consumerVars == <<cpc, cval, seen_head, popped>>
vars == <<buf, head, tail, producerVars, consumerVars>>

NoItem == "none"
Modes == {"try", "backoff", "blocking"}
Index == 0 .. Wrap - 1

\* Mutants: the differences and increments of the indices do not wrap.
SubUnwrapped(a, b) == a - b
IncUnwrapped(a) == a + 1

Sub(a, b) == (a - b) % Wrap            \* wrapping_sub
Inc(a) == (a + 1) % Wrap               \* wrapping_add(1)
SlotOf(a) == a % Cap                   \* a & mask

\* The values a load may return: from the last one seen up to the current one.
Visible(seen, current) == {Inc(seen + d - 1) : d \in 0 .. Sub(current, seen)}

Init ==
  /\ buf = [i \in 0 .. Cap - 1 |-> NoItem]   \* MaybeUninit::uninit()
  /\ head = 0 /\ tail = 0
  /\ ppc = "idle" /\ pval = NoItem /\ mode = "try" /\ spins = 0 /\ seen_tail = 0
  /\ cpc = "idle" /\ cval = NoItem /\ seen_head = 0 /\ popped = NoItem

(***************************************************************************)
(* The producer.                                                           *)
(***************************************************************************)
StartPush(v, m) ==
  /\ ppc = "idle"
  /\ ppc' = "load" /\ pval' = v /\ mode' = m /\ spins' = 0
  /\ UNCHANGED <<buf, head, tail, seen_tail, consumerVars>>

\* Mutant: off by one.
FullLate(t) == Sub(head, t) > Cap

Full(t) == Sub(head, t) > Cap - 1

LoadTailRoom(t) ==
  /\ ppc = "load" /\ ~Full(t)
  /\ seen_tail' = t
  /\ ppc' = "write"
  /\ UNCHANGED <<buf, head, tail, pval, mode, spins, consumerVars>>

\* push returned Err: give up, or spin and try again.
GivesUp == mode = "try" \/ (mode = "backoff" /\ spins >= MaxSpins)

LoadTailFull(t) ==
  /\ ppc = "load" /\ Full(t)
  /\ seen_tail' = t
  /\ ppc' = IF GivesUp THEN "idle" ELSE "load"
  /\ spins' = IF ~GivesUp /\ mode = "backoff" THEN spins + 1 ELSE spins
  /\ UNCHANGED <<buf, head, tail, pval, mode, consumerVars>>

LoadTail == \E t \in Visible(seen_tail, tail) : LoadTailRoom(t) \/ LoadTailFull(t)

WriteSlot ==
  /\ ppc = "write"
  /\ buf' = [buf EXCEPT ![SlotOf(head)] = pval]
  /\ ppc' = "publish"
  /\ UNCHANGED <<head, tail, pval, mode, spins, seen_tail, consumerVars>>

StoreHead ==
  /\ ppc = "publish"
  /\ head' = Inc(head)
  /\ ppc' = "idle"
  /\ UNCHANGED <<buf, tail, pval, mode, spins, seen_tail, consumerVars>>

(***************************************************************************)
(* The consumer.                                                           *)
(***************************************************************************)
\* Mutant: waits until two items are there.
LoadHeadOfTwo(h) ==
  /\ cpc = "idle"
  /\ seen_head' = h
  /\ cpc' = IF Sub(h, tail) < 2 THEN "idle" ELSE "read"
  /\ UNCHANGED <<buf, head, tail, producerVars, cval, popped>>

LoadHead(h) ==
  /\ cpc = "idle"
  /\ seen_head' = h
  /\ cpc' = IF h = tail THEN "idle" ELSE "read"
  /\ UNCHANGED <<buf, head, tail, producerVars, cval, popped>>

ReadSlot ==
  /\ cpc = "read"
  /\ cval' = buf[SlotOf(tail)]
  /\ cpc' = "publish"
  /\ UNCHANGED <<buf, head, tail, producerVars, seen_head, popped>>

\* Mutant: the slot is not given back.
StoreTailKept ==
  /\ cpc = "publish"
  /\ popped' = cval
  /\ cpc' = "idle"
  /\ UNCHANGED <<buf, head, tail, producerVars, cval, seen_head>>

StoreTail ==
  /\ cpc = "publish"
  /\ tail' = Inc(tail)
  /\ popped' = cval
  /\ cpc' = "idle"
  /\ UNCHANGED <<buf, head, producerVars, cval, seen_head>>

Producer == LoadTail \/ WriteSlot \/ StoreHead
Consumer == (\E h \in Visible(seen_head, head) : LoadHead(h)) \/ ReadSlot \/ StoreTail
Next == (\E v \in Items, m \in Modes : StartPush(v, m)) \/ Producer \/ Consumer
Spec == Init /\ [][Next]_vars

\* Both threads keep running, the consumer keeps popping, and a store becomes
\* visible to the other thread after finitely many loads.
FairSpec ==
  /\ Spec
  /\ WF_vars(Producer) /\ WF_vars(ReadSlot \/ StoreTail)
  /\ WF_vars(LoadTailRoom(tail)) /\ WF_vars(LoadHead(head) /\ head # tail)

----------------------------------------------------------------------------
TypeOK ==
  /\ buf \in [0 .. Cap - 1 -> Items \cup {NoItem}]
  /\ head \in Index /\ tail \in Index /\ seen_tail \in Index /\ seen_head \in Index
  /\ ppc \in {"idle", "load", "write", "publish"} /\ cpc \in {"idle", "read", "publish"}
  /\ pval \in Items \cup {NoItem} /\ cval \in Items \cup {NoItem}
  /\ popped \in Items \cup {NoItem}
  /\ mode \in Modes /\ spins \in 0 .. MaxSpins

\* The producer never writes the slot the consumer is reading (the unsafe blocks of
\* push and pop access a slot exclusively), and the consumer never reads a slot that
\* was not initialised.
NoSlotConflict ==
  /\ ~(ppc = "write" /\ cpc = "read" /\ SlotOf(head) = SlotOf(tail))
  /\ cpc = "read" => buf[SlotOf(tail)] # NoItem

\* len(), as the producer computes it for its queue gauge and back-pressure log, is
\* between the true length and the capacity even when its view of tail is stale and
\* the counters wrap.
ProducerLenBounded ==
  \A t \in Visible(seen_tail, tail) : Sub(head, tail) <= Sub(head, t) /\ Sub(head, t) <= Cap

\* The queue implements a bounded FIFO.
Fifo == INSTANCE BoundedFifo WITH
  Size <- Cap,
  items <- [j \in 1 .. Sub(head, tail) |-> buf[SlotOf(tail + j - 1)]],
  latest <- popped
ImplementsFifo == Fifo!Spec

\* A blocking push ends: push_blocking and merge's forward() loop do not spin
\* forever while the consumer keeps popping.
BlockingPushEnds == (ppc # "idle" /\ mode = "blocking") ~> (ppc = "idle")

\* Everything pushed is popped: the queue cannot stay non-empty while the consumer
\* keeps polling.
QueueMoves == (head # tail) ~> (cpc = "publish")
=============================================================================
