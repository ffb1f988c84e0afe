------------------------------- MODULE Merge -------------------------------
(***************************************************************************)
(* The merge thread of src/src/merge.rs: it reads the A and B feed queues   *)
(* and the recovery queue, drops duplicates, puts packets back in sequence  *)
(* with a ring of window+1 slots, and forwards them to the decode queue.    *)
(*                                                                         *)
(* A packet is its sequence number.  The receive threads, the recovery      *)
(* service and the decode thread appear as the environment: a feed delivers *)
(* any sequence number at any time, which covers loss, duplication and      *)
(* reordering.  Pop, classification and the bookkeeping of one packet touch *)
(* only thread-local state, so they are one step; every forward is a step   *)
(* of its own because it waits for room in the decode queue.  A local of the *)
(* loop body is reset where it goes out of scope, and the counters of the    *)
(* adaptive window are kept only when it is on.                             *)
(***************************************************************************)
EXTENDS Integers, Sequences, FiniteSets, MergeTuning

CONSTANTS
  InitSeq,      \* MergeConfig.next_seq
  Window0,      \* MergeConfig.reorder_window; the ring has Window0 + 1 slots
  MaxPending,   \* MergeConfig.max_pending
  Adaptive,     \* MergeConfig.adaptive
  CheckEvery,   \* 4096 in the code: drained packets between two checkpoints
  RecoveryBatch,\* 32 in the code: recovered packets taken per iteration
  SwitchToB,    \* SWITCH_TO_B_AFTER
  SwitchToA,    \* SWITCH_TO_A_AFTER
  HasRecovery,  \* whether merge_loop is given a recovery queue
  NumQueues,    \* number of receive workers (queues) per channel
  QueueCap,     \* capacity of a feed queue and of the recovery queue
  OutCap,       \* capacity of the merge -> decode queue
  RequestCap,   \* 1024 in the code: capacity of the gap request channel
  Seqs          \* the sequence numbers a feed may carry

Chans == {"A", "B"}
Empty == -1     \* a ring slot holding None; sequence numbers are unsigned

ASSUME MergeAssumption ==
  /\ InitSeq \in Nat /\ Window0 \in Nat \ {0} /\ MaxPending \in Nat
  /\ Adaptive \in BOOLEAN /\ HasRecovery \in BOOLEAN
  /\ CheckEvery \in Nat \ {0} /\ RecoveryBatch \in Nat \ {0}
  /\ SwitchToB \in Nat \ {0} /\ SwitchToA \in Nat \ {0}
  /\ NumQueues \in [Chans -> Nat \ {0}]
  /\ QueueCap \in Nat \ {0} /\ OutCap \in Nat \ {0} /\ RequestCap \in Nat \ {0}
  /\ Seqs \subseteq Nat

VARIABLES
  q,            \* q_a_list, q_b_list: q[<<c, i>>] is the queue of worker i of channel c
  qrec,         \* q_recovery_in
  out,          \* everything forwarded so far; the decode queue is its tail
  taken,        \* how many forwarded packets decode has popped
  requests,     \* gap requests not yet taken by the recovery thread
  next_seq, reorder_window, ring, pending_count,
  prefer_a, streak_preferred, streak_nonpreferred,
  forwarded_since_check,   \* saturates at CheckEvery, the only value compared
  recent_gaps, recent_ooo, \* whether the counters are non-zero
  idx,          \* idx_a, idx_b modulo the number of queues
  pc,           \* where the loop body is
  src, batch,   \* counters of the two for loops
  held, origin, \* packet being forwarded, queue the current packet came from
  shutdown

queueVars == <<q, qrec, out, taken, requests>>
bufferVars == <<next_seq, ring, pending_count>>
preferVars == <<prefer_a, streak_preferred, streak_nonpreferred>>
tuneVars == <<reorder_window, forwarded_since_check, recent_gaps, recent_ooo>>
loopVars == <<idx, pc, src, batch, held, origin>>
vars == <<queueVars, bufferVars, preferVars, tuneVars, loopVars, shutdown>>

Queues == UNION {{c} \X (0 .. NumQueues[c] - 1) : c \in Chans}
Cap == Window0 + 1
Slots == 0 .. Cap - 1
Slot(s) == s % Cap
AtMost(n, bound) == IF n < bound THEN n ELSE bound

Init ==
  /\ q = [x \in Queues |-> <<>>]
  /\ qrec = <<>> /\ out = <<>> /\ taken = 0 /\ requests = <<>>
  /\ next_seq = InitSeq /\ reorder_window = Window0
  /\ ring = [i \in Slots |-> Empty] /\ pending_count = 0
  /\ prefer_a = TRUE /\ streak_preferred = 0 /\ streak_nonpreferred = 0
  /\ forwarded_since_check = 0 /\ recent_gaps = FALSE /\ recent_ooo = FALSE
  /\ idx = [c \in Chans |-> 0]
  /\ pc = "top" /\ src = 0 /\ batch = 0 /\ held = InitSeq /\ origin = "R"
  /\ shutdown = FALSE

(***************************************************************************)
(* What happens to a popped packet s.                                      *)
(***************************************************************************)
\* Mutant: the distance to next_seq is not tested.
FitsAnyDistance(s) == s > next_seq /\ pending_count < MaxPending

Fits(s) == s - next_seq <= reorder_window /\ pending_count < MaxPending

\* Mutant: a free slot counts as taken.
UsableStaleOnly(s) == ring[Slot(s)] # Empty /\ ring[Slot(s)] < next_seq

\* The slot is free, or holds a sequence number that was already passed.
Usable(s) == ring[Slot(s)] = Empty \/ (ring[Slot(s)] # s /\ ring[Slot(s)] < next_seq)

Buffer(s) ==
  /\ ring' = [ring EXCEPT ![Slot(s)] = s]
  /\ pending_count' = pending_count + 1

\* Mutant: a gap is reported once per checkpoint only.
NotifyGapOnce(lo, hi) ==
  requests' = IF Len(requests) < RequestCap /\ ~recent_gaps THEN Append(requests, <<lo, hi>>)
                                                            ELSE requests

NotifyGap(lo, hi) ==
  requests' = IF Len(requests) < RequestCap THEN Append(requests, <<lo, hi>>)
                                            ELSE requests

\* A packet that is not next in sequence: a duplicate, kept for later, or a gap.
SetAside(s) ==
  \/ /\ s < next_seq
     /\ UNCHANGED <<ring, pending_count, recent_gaps, requests>>
  \/ /\ s > next_seq /\ Fits(s) /\ Usable(s)
     /\ Buffer(s)
     /\ UNCHANGED <<recent_gaps, requests>>
  \/ /\ s > next_seq /\ Fits(s) /\ ~Usable(s)
     /\ UNCHANGED <<ring, pending_count, recent_gaps, requests>>
  \/ /\ s > next_seq /\ ~Fits(s)
     /\ recent_gaps' = TRUE
     /\ NotifyGap(next_seq, s - 1)
     /\ UNCHANGED <<ring, pending_count>>

(***************************************************************************)
(* The loop body.                                                          *)
(***************************************************************************)
LoopTop ==
  /\ pc = "top"
  /\ pc' = IF shutdown THEN "stopped" ELSE "recovery"
  /\ batch' = 0
  /\ UNCHANGED <<queueVars, bufferVars, preferVars, tuneVars, shutdown,
                 idx, src, held, origin>>

RecoveryPop ==
  /\ pc = "recovery" /\ batch < RecoveryBatch /\ qrec # <<>>
  /\ qrec' = Tail(qrec)
  /\ batch' = batch + 1
  /\ LET s == Head(qrec) IN
     \/ /\ s = next_seq
        /\ pc' = "forward" /\ held' = s /\ origin' = "R"
        /\ UNCHANGED <<ring, pending_count, recent_gaps, requests>>
     \/ /\ SetAside(s)
        /\ UNCHANGED <<pc, held, origin>>
  /\ UNCHANGED <<q, out, taken, next_seq, preferVars, reorder_window,
                 forwarded_since_check, recent_ooo, idx, src, shutdown>>

RecoveryDone ==
  /\ pc = "recovery" /\ (batch = RecoveryBatch \/ qrec = <<>>)
  /\ pc' = "source" /\ src' = 0 /\ batch' = 0
  /\ UNCHANGED <<queueVars, bufferVars, preferVars, tuneVars, shutdown,
                 idx, held, origin>>

\* The channel the src-th poll of this iteration reads.
Polled == IF (src = 0) <=> prefer_a THEN "A" ELSE "B"

\* Mutant: the loop over the two feeds does not restart at the first.
NextSourceRunsOn ==
  /\ src' = src + 1
  /\ pc' = IF src = 0 THEN "source" ELSE "check"

\* Mutant: only the preferred feed is polled.
NextSourcePreferredOnly == src' = 0 /\ pc' = "check"

NextSource ==
  /\ src' = (src + 1) % 2
  /\ pc' = IF src = 0 THEN "source" ELSE "check"

\* Mutant: the round robin over the workers of a channel does not advance.
SameWorker(c) == c \in Chans /\ UNCHANGED idx

NextWorker(c) == idx' = [idx EXCEPT ![c] = (@ + 1) % NumQueues[c]]

SourcePop ==
  /\ pc = "source"
  /\ LET c == Polled
         x == <<c, idx[c]>>
     IN
     /\ NextWorker(c)
     /\ \/ /\ q[x] = <<>>
           /\ NextSource
           /\ UNCHANGED <<q, ring, pending_count, recent_gaps, requests, held, origin>>
        \/ /\ q[x] # <<>>
           /\ q' = [q EXCEPT ![x] = Tail(@)]
           /\ LET s == Head(q[x]) IN
              \/ /\ s = next_seq
                 /\ pc' = "forward" /\ held' = s /\ origin' = c
                 /\ UNCHANGED <<ring, pending_count, recent_gaps, requests, src>>
              \/ /\ SetAside(s)
                 /\ NextSource
                 /\ UNCHANGED <<held, origin>>
  /\ UNCHANGED <<qrec, out, taken, next_seq, preferVars, reorder_window,
                 forwarded_since_check, recent_ooo, batch, shutdown>>

\* Mutant: next_seq stays behind the forwarded packet.
ForwardNotCounted ==
  /\ pc = "forward" /\ Len(out) - taken < OutCap
  /\ out' = Append(out, held)
  /\ pc' = "drain" /\ held' = InitSeq
  /\ UNCHANGED <<q, qrec, taken, requests, next_seq, ring, pending_count, preferVars,
                 tuneVars, idx, src, batch, origin, shutdown>>

\* Mutant: no packet is forwarded any more once shutdown is raised.
ForwardUnlessStopped ==
  /\ pc = "forward" /\ Len(out) - taken < OutCap /\ ~shutdown
  /\ out' = Append(out, held)
  /\ next_seq' = next_seq + 1
  /\ pc' = "drain" /\ held' = InitSeq
  /\ UNCHANGED <<q, qrec, taken, requests, ring, pending_count, preferVars,
                 tuneVars, idx, src, batch, origin, shutdown>>

\* forward(): retries until the decode queue has room, never looks at shutdown.
Forward ==
  /\ pc = "forward" /\ Len(out) - taken < OutCap
  /\ out' = Append(out, held)
  /\ next_seq' = next_seq + 1
  /\ pc' = "drain" /\ held' = InitSeq
  /\ UNCHANGED <<q, qrec, taken, requests, ring, pending_count, preferVars,
                 tuneVars, idx, src, batch, origin, shutdown>>

\* Mutant: the drained packet also stays in its slot.
TakeSlotCopies ==
  /\ UNCHANGED ring
  /\ pending_count' = IF pending_count = 0 THEN 0 ELSE pending_count - 1

\* Mutant: the drained packet is still counted as pending.
TakeSlotUncounted ==
  /\ ring' = [ring EXCEPT ![Slot(next_seq)] = Empty]
  /\ UNCHANGED pending_count

TakeSlot ==
  /\ ring' = [ring EXCEPT ![Slot(next_seq)] = Empty]
  /\ pending_count' = IF pending_count = 0 THEN 0 ELSE pending_count - 1

DrainHit ==
  /\ pc = "drain" /\ ring[Slot(next_seq)] = next_seq
  /\ held' = next_seq
  /\ TakeSlot
  /\ recent_ooo' = (Adaptive /\ (recent_ooo \/ origin # "R"))
  /\ forwarded_since_check' = IF Adaptive THEN AtMost(forwarded_since_check + 1, CheckEvery) ELSE 0
  /\ pc' = "forward"
  /\ UNCHANGED <<queueVars, next_seq, preferVars, reorder_window, recent_gaps,
                 idx, src, batch, origin, shutdown>>

\* Preference after an in-sequence packet from the preferred / the other feed.
\* dwelled: at least min_dwell_ns passed since the last switch.
ObservePreferred(dwelled) ==
  LET streak == AtMost(streak_preferred + 1, SwitchToA)
      flip == ~prefer_a /\ streak >= SwitchToA /\ dwelled
  IN /\ prefer_a' = (prefer_a \/ flip)
     /\ streak_preferred' = IF flip THEN 0 ELSE streak
     /\ streak_nonpreferred' = 0

ObserveOther(dwelled) ==
  LET streak == AtMost(streak_nonpreferred + 1, SwitchToB)
      flip == prefer_a /\ streak >= SwitchToB /\ dwelled
  IN /\ prefer_a' = (prefer_a /\ ~flip)
     /\ streak_nonpreferred' = IF flip THEN 0 ELSE streak
     /\ streak_preferred' = 0

DrainMiss ==
  /\ pc = "drain" /\ ring[Slot(next_seq)] # next_seq
  /\ \/ /\ origin = "R"
        /\ pc' = "recovery"
        /\ UNCHANGED <<preferVars, src>>
     \/ /\ origin \in Chans
        /\ \E dwelled \in BOOLEAN :
             IF prefer_a <=> origin = "A" THEN ObservePreferred(dwelled)
                                          ELSE ObserveOther(dwelled)
        /\ NextSource
  /\ origin' = "R"
  /\ UNCHANGED <<queueVars, bufferVars, tuneVars, idx, batch, held, shutdown>>

Checkpoint ==
  /\ pc = "check"
  /\ pc' = "top"
  /\ IF Adaptive /\ forwarded_since_check >= CheckEvery
     THEN /\ reorder_window' = TunedWindow(reorder_window, recent_gaps, recent_ooo)
          /\ forwarded_since_check' = 0
          /\ recent_gaps' = FALSE /\ recent_ooo' = FALSE
     ELSE UNCHANGED tuneVars
  /\ UNCHANGED <<queueVars, bufferVars, preferVars, shutdown,
                 idx, src, batch, held, origin>>

MergeStep ==
  \/ LoopTop \/ RecoveryPop \/ RecoveryDone \/ SourcePop
  \/ Forward \/ DrainHit \/ DrainMiss \/ Checkpoint

(***************************************************************************)
(* The environment.                                                        *)
(***************************************************************************)
threadVars == <<bufferVars, preferVars, tuneVars, loopVars>>

\* A receive thread pushes a packet; it drops the packet when the queue is full.
Receive(x, s) ==
  /\ Len(q[x]) < QueueCap
  /\ q' = [q EXCEPT ![x] = Append(@, s)]
  /\ UNCHANGED <<qrec, out, taken, requests, threadVars, shutdown>>

\* The recovery injector pushes a packet.
Inject(s) ==
  /\ HasRecovery /\ Len(qrec) < QueueCap
  /\ qrec' = Append(qrec, s)
  /\ UNCHANGED <<q, out, taken, requests, threadVars, shutdown>>

\* The recovery thread takes a gap request.
TakeRequest ==
  /\ requests # <<>>
  /\ requests' = Tail(requests)
  /\ UNCHANGED <<q, qrec, out, taken, threadVars, shutdown>>

\* The decode thread pops a packet.
Consume ==
  /\ taken < Len(out)
  /\ taken' = taken + 1
  /\ UNCHANGED <<q, qrec, out, requests, threadVars, shutdown>>

RaiseShutdown ==
  /\ ~shutdown
  /\ shutdown' = TRUE
  /\ UNCHANGED <<queueVars, threadVars>>

Environment ==
  \/ \E x \in Queues : \E s \in Seqs : Receive(x, s)
  \/ \E s \in Seqs : Inject(s)
  \/ TakeRequest \/ Consume \/ RaiseShutdown

Next == MergeStep \/ Environment
Spec == Init /\ [][Next]_vars

\* The merge thread and the decode thread keep running.
FairSpec == Spec /\ WF_vars(MergeStep) /\ WF_vars(Consume)

----------------------------------------------------------------------------
TypeOK ==
  /\ q \in [Queues -> Seq(Seqs)]
  /\ qrec \in Seq(Seqs) /\ out \in Seq(Nat) /\ taken \in Nat
  /\ requests \in Seq(Nat \X Nat)
  /\ next_seq \in Nat /\ reorder_window \in Nat
  /\ ring \in [Slots -> Nat \cup {Empty}] /\ pending_count \in Nat
  /\ prefer_a \in BOOLEAN /\ streak_preferred \in Nat /\ streak_nonpreferred \in Nat
  /\ forwarded_since_check \in Nat /\ recent_gaps \in BOOLEAN /\ recent_ooo \in BOOLEAN
  /\ idx \in [Chans -> Nat] /\ \A c \in Chans : idx[c] < NumQueues[c]
  /\ pc \in {"top", "recovery", "source", "forward", "drain", "check", "stopped"}
  /\ src \in {0, 1} /\ batch \in Nat /\ held \in Nat /\ origin \in Chans \cup {"R"}
  /\ shutdown \in BOOLEAN

\* The sequence numbers waiting in the ring.
Buffered == {ring[i] : i \in Slots} \ {Empty}

\* The decode stage is handed InitSeq, InitSeq + 1, ... with no number missing,
\* repeated or out of order, whatever the feeds lose, repeat or reorder.
InSequence ==
  /\ next_seq = InitSeq + Len(out)
  /\ \A i \in 1 .. Len(out) : out[i] = InitSeq + i - 1

\* Every buffered packet sits in the slot of its own sequence number and is still
\* ahead of next_seq: a slot never holds a number that was passed, so the "stale
\* slot" branch of the code replaces nothing, and every buffered packet is found
\* by the drain loop when its turn comes.
BufferedAhead ==
  \A i \in Slots : ring[i] # Empty =>
    /\ Slot(ring[i]) = i
    /\ ring[i] > next_seq \/ (pc = "drain" /\ ring[i] = next_seq)

\* pending_count, which the overflow test reads, counts exactly the buffered
\* packets (it is adjusted separately from the ring, with a saturating subtraction).
PendingExact == pending_count = Cardinality(Buffered)

\* Whenever a packet may be popped, the slot of every sequence number inside the
\* window is free or holds that number: "different seq still in-window shouldn't
\* alias due to cap" (merge.rs:235).  True of a fixed window and of one that grows by at
\* most one; false of the default, which grows to eight times the ring's.
NoAlias ==
  pc \in {"recovery", "source"} =>
    \A s \in next_seq + 1 .. next_seq + reorder_window : ring[Slot(s)] \in {Empty, s}

\* The packet popped from a feed queue or the recovery queue in a step.
PoppedNow(s) ==
  \/ qrec # <<>> /\ qrec' = Tail(qrec) /\ s = Head(qrec)
  \/ \E x \in Queues : q[x] # <<>> /\ q'[x] = Tail(q[x]) /\ s = Head(q[x])

\* No silent loss: a popped packet that was not forwarded before is forwarded,
\* kept in the ring, or reported as a gap, as long as the window has not outgrown the
\* ring (WindowMax <= Window0 + 1, or not Adaptive).
NoSilentDrop ==
  [][\A s \in Seqs : PoppedNow(s) /\ s >= next_seq =>
       \/ s \in Buffered'
       \/ pc' = "forward" /\ held' = s
       \/ ~Fits(s) /\ recent_gaps']_vars

\* The ring of Window0 + 1 slots behaves as an ideal reorder buffer.
Ideal == INSTANCE ReorderBuffer WITH
  First <- InitSeq,
  Span <- Larger(Window0, WindowMax),
  Room <- MaxPending,
  delivered <- out,
  stored <- Buffered \cup (IF pc = "forward" THEN {held} ELSE {})

\* Its safety part: delivery in sequence, bounded distance and room, and no stored
\* packet lost or overwritten, with a fixed or an adaptive window.
ReorderBufferSafety == Ideal!SafeSpec

\* Under fairness a packet whose turn has come is also delivered.
ImplementsReorderBuffer == Ideal!Spec

\* A packet that is next in sequence and waits in a feed queue is forwarded, unless
\* the merge thread is asked to stop: neither a gap further ahead, nor a full ring,
\* nor the preference for the other feed holds it back.
Waiting(s) == \E x \in Queues : \E j \in 1 .. Len(q[x]) : q[x][j] = s
InSequenceForwarded ==
  \A s \in Seqs : (next_seq = s /\ Waiting(s)) ~> (next_seq > s \/ shutdown)

\* A full feed queue, of either channel and any worker, always gets room again.
FeedsDrained ==
  \A x \in Queues : (Len(q[x]) = QueueCap) ~> (Len(q[x]) < QueueCap \/ shutdown)
=============================================================================
