---------------------------- MODULE MergeProofs ----------------------------
(* Proofs about Merge, for every window, capacity, batch size and set of   *)
(* sequence numbers.                                                       *)
EXTENDS Merge, FiniteSetTheorems, TLAPS

(***************************************************************************)
(* Facts about the operators.                                              *)
(***************************************************************************)
\* The tuned window is a natural number and never exceeds both the current
\* window and reorder_window_max.
LEMMA TunedWindowBound ==
  ASSUME NEW w \in Nat, NEW gaps \in BOOLEAN, NEW ooo \in BOOLEAN
  PROVE  /\ TunedWindow(w, gaps, ooo) \in Nat
         /\ TunedWindow(w, gaps, ooo) <= Larger(w, WindowMax)
<1>1. Grown(w, gaps) \in Nat /\ Grown(w, gaps) <= Larger(w, WindowMax)
  BY TuningAssumption DEF Grown, Smaller, Larger
<1>2. ASSUME NEW v \in Nat
      PROVE  Shrunk(v, gaps, ooo) \in Nat /\ Shrunk(v, gaps, ooo) <= v
  BY DEF Shrunk, Larger, WindowFloor
<1>. QED
  BY <1>1, <1>2, TuningAssumption DEF TunedWindow, Larger

\* A slot index is inside the ring.
LEMMA SlotInRing ==
  ASSUME NEW s \in Nat
  PROVE  Slot(s) \in Slots
BY MergeAssumption DEF Slot, Slots, Cap

\* Two sequence numbers less than the ring's size apart have different slots.
LEMMA SlotInjective ==
  ASSUME NEW s \in Nat, NEW t \in Nat, Slot(s) = Slot(t), s - t < Cap, t - s < Cap
  PROVE  s = t
<1> DEFINE m == Cap
           k == s \div m
           l == t \div m
<1>1. m \in Nat \ {0}
  BY MergeAssumption DEF Cap
<1>2. s = m * k + (s % m) /\ k \in Int
  BY <1>1
<1>3. t = m * l + (t % m) /\ l \in Int
  BY <1>1
<1>4. s % m = t % m /\ s % m \in Int
  BY <1>1 DEF Slot
<1> HIDE DEF m, k, l
<1>5. s - t = m * (k - l)
  BY <1>1, <1>2, <1>3, <1>4
<1>6. s - t < m /\ t - s < m
  BY DEF m
<1>7. k - l = 0
  <2>1. CASE k - l >= 1
    <3>1. m * (k - l) >= m
      BY <2>1, <1>1, <1>2, <1>3
    <3>. QED BY <3>1, <1>5, <1>6, <1>1
  <2>2. CASE k - l <= -1
    <3>1. m * (k - l) <= -m
      BY <2>2, <1>1, <1>2, <1>3
    <3>. QED BY <3>1, <1>5, <1>6, <1>1
  <2>. QED BY <2>1, <2>2, <1>2, <1>3
<1>. QED
  BY <1>7, <1>5, <1>1

\* The queue the merge thread polls exists.
LEMMA PolledQueue ==
  ASSUME TypeOK
  PROVE  /\ Polled \in Chans
         /\ <<Polled, idx[Polled]>> \in Queues
<1>1. Polled \in Chans
  BY DEF Polled, Chans
<1>2. idx[Polled] \in 0 .. NumQueues[Polled] - 1
  BY <1>1, MergeAssumption DEF TypeOK
<1>. QED
  BY <1>1, <1>2 DEF Queues

\* Taking the head of a non-empty queue.
LEMMA HeadTail ==
  ASSUME NEW S, NEW sq \in Seq(S), sq # <<>>
  PROVE  Head(sq) \in S /\ Tail(sq) \in Seq(S)
OBVIOUS

(***************************************************************************)
(* Type correctness.                                                       *)
(***************************************************************************)
LEMMA SetAsideType ==
  ASSUME TypeOK, NEW s \in Nat, SetAside(s)
  PROVE  /\ ring' \in [Slots -> Nat \cup {Empty}]
         /\ pending_count' \in Nat /\ recent_gaps' \in BOOLEAN
         /\ requests' \in Seq(Nat \X Nat)
<1>1. CASE s > next_seq /\ Fits(s) /\ Usable(s) /\ Buffer(s) /\ UNCHANGED <<recent_gaps, requests>>
  BY <1>1, SlotInRing DEF TypeOK, Buffer
<1>2. CASE s > next_seq /\ recent_gaps' = TRUE /\ NotifyGap(next_seq, s - 1) /\ UNCHANGED <<ring, pending_count>>
  <2>1. <<next_seq, s - 1>> \in Nat \X Nat
    BY <1>2 DEF TypeOK
  <2>. QED
    BY <1>2, <2>1 DEF TypeOK, NotifyGap
<1>3. CASE UNCHANGED <<ring, pending_count, recent_gaps, requests>>
  BY <1>3 DEF TypeOK
<1>. QED
  BY Zenon, <1>1, <1>2, <1>3 DEF SetAside

LEMMA TypeStep == TypeOK /\ [Next]_vars => TypeOK'
<1> SUFFICES ASSUME TypeOK, [Next]_vars
             PROVE  TypeOK'
  OBVIOUS
<1> USE MergeAssumption DEF TypeOK
<1>1. CASE LoopTop
  BY <1>1 DEF LoopTop, queueVars, bufferVars, preferVars, tuneVars
<1>2. CASE RecoveryPop
  <2>1. Head(qrec) \in Nat /\ qrec' \in Seq(Seqs)
    BY Zenon, <1>2, HeadTail DEF RecoveryPop
  <2>2. CASE SetAside(Head(qrec)) /\ UNCHANGED <<pc, held, origin>>
    BY <1>2, <2>1, <2>2, SetAsideType DEF RecoveryPop, preferVars
  <2>3. CASE /\ pc' = "forward" /\ held' = Head(qrec) /\ origin' = "R"
             /\ UNCHANGED <<ring, pending_count, recent_gaps, requests>>
    BY <1>2, <2>1, <2>3 DEF RecoveryPop, preferVars
  <2>. QED
    BY <1>2, <2>2, <2>3 DEF RecoveryPop
<1>3. CASE RecoveryDone
  BY <1>3 DEF RecoveryDone, queueVars, bufferVars, preferVars, tuneVars
<1>4. CASE SourcePop
  <2> DEFINE c == Polled
             x == <<c, idx[c]>>
  <2>1. c \in Chans /\ x \in Queues
    BY PolledQueue
  <2>2. idx' \in [Chans -> Nat] /\ \A d \in Chans : idx'[d] < NumQueues[d]
    <3>1. (idx[c] + 1) % NumQueues[c] \in Nat /\ (idx[c] + 1) % NumQueues[c] < NumQueues[c]
      BY <2>1
    <3>. QED
      BY <1>4, <2>1, <3>1 DEF SourcePop, NextWorker
  <2>3. CASE q[x] = <<>>
    <3>1. /\ NextSource
          /\ UNCHANGED <<q, ring, pending_count, recent_gaps, requests, held, origin>>
      BY <1>4, <2>3 DEF SourcePop
    <3>2. pc' \in {"source", "check"} /\ src' \in {0, 1}
      BY <3>1 DEF NextSource
    <3>. QED
      BY Zenon, <1>4, <2>2, <3>1, <3>2 DEF SourcePop, NextWorker, preferVars
  <2>4. CASE q[x] # <<>>
    <3>1. Head(q[x]) \in Nat /\ q' \in [Queues -> Seq(Seqs)]
      <4>1. q' = [q EXCEPT ![x] = Tail(q[x])]
        BY <1>4, <2>4 DEF SourcePop, NextWorker
      <4>2. Head(q[x]) \in Seqs /\ Tail(q[x]) \in Seq(Seqs)
        BY <2>1, <2>4, HeadTail
      <4> HIDE DEF x
      <4>. QED
        BY Zenon, <2>1, <4>1, <4>2
    <3>2. CASE SetAside(Head(q[x])) /\ NextSource /\ UNCHANGED <<held, origin>>
      <4>1. /\ ring' \in [Slots -> Nat \cup {Empty}]
            /\ pending_count' \in Nat /\ recent_gaps' \in BOOLEAN
            /\ requests' \in Seq(Nat \X Nat)
        BY <3>1, <3>2, SetAsideType
      <4>2. pc' \in {"source", "check"} /\ src' \in {0, 1}
        BY <3>2 DEF NextSource
      <4>. QED
        BY Zenon, <1>4, <2>2, <3>1, <3>2, <4>1, <4>2 DEF SourcePop, NextWorker, preferVars
    <3>3. CASE /\ pc' = "forward" /\ held' = Head(q[x]) /\ origin' = c
               /\ UNCHANGED <<ring, pending_count, recent_gaps, requests, src>>
      BY Zenon, <1>4, <2>1, <2>2, <3>1, <3>3 DEF SourcePop, NextWorker, preferVars
    <3>. QED
      BY Zenon, <1>4, <2>4, <3>2, <3>3 DEF SourcePop, NextWorker
  <2>. QED
    BY Zenon, <2>3, <2>4
<1>5. CASE Forward
  BY <1>5 DEF Forward, preferVars, tuneVars
<1>6. CASE DrainHit
  <2>1. forwarded_since_check' \in Nat
    BY <1>6 DEF DrainHit, AtMost
  <2>2. recent_ooo' \in BOOLEAN
    BY <1>6, Zenon DEF DrainHit
  <2>3. /\ ring' \in [Slots -> Nat \cup {Empty}] /\ pending_count' \in Nat
        /\ held' \in Nat /\ pc' = "forward"
    BY <1>6, SlotInRing DEF DrainHit, TakeSlot
  <2>. QED
    BY <1>6, <2>1, <2>2, <2>3 DEF DrainHit, queueVars, preferVars
<1>7. CASE DrainMiss
  <2>1. prefer_a' \in BOOLEAN /\ streak_preferred' \in Nat /\ streak_nonpreferred' \in Nat
    <3>1. ASSUME NEW dwelled \in BOOLEAN, ObservePreferred(dwelled) \/ ObserveOther(dwelled)
          PROVE  streak_preferred' \in Nat /\ streak_nonpreferred' \in Nat
      BY <3>1 DEF ObservePreferred, ObserveOther, AtMost
    <3>2. ASSUME NEW dwelled \in BOOLEAN, ObservePreferred(dwelled) \/ ObserveOther(dwelled)
          PROVE  prefer_a' \in BOOLEAN
      BY <3>2, Zenon DEF ObservePreferred, ObserveOther
    <3>3. CASE UNCHANGED preferVars
      BY <3>3 DEF preferVars
    <3>. QED
      BY <1>7, <3>1, <3>2, <3>3 DEF DrainMiss
  <2>2. pc' \in {"recovery", "source", "check"} /\ src' \in {0, 1}
    <3>1. NextSource \/ (pc' = "recovery" /\ UNCHANGED src)
      BY <1>7, Zenon DEF DrainMiss
    <3>. QED
      BY <3>1 DEF NextSource
  <2>. QED
    BY <1>7, <2>1, <2>2 DEF DrainMiss, queueVars, bufferVars, tuneVars
<1>8. CASE Checkpoint
  <2>1. /\ reorder_window' \in Nat /\ forwarded_since_check' \in Nat
        /\ recent_gaps' \in BOOLEAN /\ recent_ooo' \in BOOLEAN
    <3>1. CASE Adaptive /\ forwarded_since_check >= CheckEvery
      <4>1. /\ reorder_window' = TunedWindow(reorder_window, recent_gaps, recent_ooo)
            /\ forwarded_since_check' = 0 /\ recent_gaps' = FALSE /\ recent_ooo' = FALSE
        BY <1>8, <3>1, Zenon DEF Checkpoint
      <4>2. TunedWindow(reorder_window, recent_gaps, recent_ooo) \in Nat
        BY Zenon, TunedWindowBound
      <4>. QED
        BY Zenon, <4>1, <4>2
    <3>2. CASE ~(Adaptive /\ forwarded_since_check >= CheckEvery)
      BY <1>8, <3>2 DEF Checkpoint, tuneVars
    <3>. QED
      BY <3>1, <3>2
  <2>. QED
    BY <1>8, <2>1 DEF Checkpoint, queueVars, bufferVars, preferVars
<1>9. CASE Environment
  <2> USE DEF threadVars, bufferVars, preferVars, tuneVars, loopVars
  <2>1. ASSUME NEW x \in Queues, NEW s \in Seqs, Receive(x, s)
        PROVE  TypeOK'
    BY <2>1 DEF Receive
  <2>2. ASSUME NEW s \in Seqs, Inject(s)
        PROVE  TypeOK'
    BY <2>2 DEF Inject
  <2>3. CASE TakeRequest
    BY <2>3 DEF TakeRequest
  <2>4. CASE Consume
    BY <2>4 DEF Consume
  <2>5. CASE RaiseShutdown
    BY <2>5 DEF RaiseShutdown, queueVars
  <2>. QED
    BY Zenon, <1>9, <2>1, <2>2, <2>3, <2>4, <2>5 DEF Environment
<1>10. CASE UNCHANGED vars
  BY <1>10 DEF vars, queueVars, bufferVars, preferVars, tuneVars, loopVars
<1>. QED
  BY Zenon, <1>1, <1>2, <1>3, <1>4, <1>5, <1>6, <1>7, <1>8, <1>9, <1>10 DEF Next, MergeStep

LEMMA InitType == Init => TypeOK
<1> SUFFICES ASSUME Init PROVE TypeOK
  OBVIOUS
<1>1. q \in [Queues -> Seq(Seqs)] /\ ring \in [Slots -> Nat \cup {Empty}]
  BY DEF Init
<1>2. idx \in [Chans -> Nat] /\ \A c \in Chans : idx[c] < NumQueues[c]
  BY MergeAssumption DEF Init
<1>3. /\ prefer_a \in BOOLEAN /\ shutdown \in BOOLEAN
      /\ recent_gaps \in BOOLEAN /\ recent_ooo \in BOOLEAN
  BY Zenon DEF Init
<1>4. qrec \in Seq(Seqs) /\ out \in Seq(Nat) /\ requests \in Seq(Nat \X Nat)
  BY DEF Init
<1>. QED
  BY <1>1, <1>2, <1>3, <1>4, MergeAssumption DEF Init, TypeOK

\* Every variable of the merge thread keeps its type.
THEOREM TypeCorrect == Spec => []TypeOK
BY InitType, TypeStep, PTL DEF Spec

(***************************************************************************)
(* What a step does to the buffer.  The invariants and the refinement look *)
(* only at out, next_seq, ring, pending_count, pc and held; with respect to *)
(* these every step is of one of six kinds.                                 *)
(***************************************************************************)
Quiet ==
  /\ UNCHANGED <<out, next_seq, ring, pending_count, held>>
  /\ pc' = pc \/ (pc \notin {"drain", "forward"} /\ pc' \notin {"drain", "forward"})

Begin ==
  /\ UNCHANGED <<out, next_seq, ring, pending_count>>
  /\ pc \in {"recovery", "source"} /\ pc' = "forward" /\ held' = next_seq

Buffering(s) ==
  /\ pc \in {"recovery", "source"} /\ pc' \in {"recovery", "source", "check"}
  /\ s > next_seq /\ Fits(s) /\ Usable(s) /\ Buffer(s)
  /\ UNCHANGED <<out, next_seq, held>>

LEMMA SetAsideKind ==
  ASSUME NEW s \in Nat, SetAside(s), UNCHANGED <<out, next_seq, held>>,
         pc \in {"recovery", "source"}, pc' \in {"recovery", "source", "check"}
  PROVE  Quiet \/ Buffering(s)
<1>1. CASE s > next_seq /\ Fits(s) /\ Usable(s) /\ Buffer(s)
  BY <1>1 DEF Buffering
<1>2. CASE UNCHANGED <<ring, pending_count>>
  BY <1>2 DEF Quiet
<1>. QED
  BY <1>1, <1>2 DEF SetAside

LEMMA StepKinds ==
  ASSUME TypeOK, [Next]_vars
  PROVE  \/ Quiet \/ Begin \/ Forward \/ DrainHit \/ DrainMiss
         \/ \E s \in Nat : Buffering(s)
<1>1. CASE LoopTop
  BY <1>1 DEF LoopTop, Quiet, queueVars, bufferVars
<1>2. CASE RecoveryPop
  <2>1. Head(qrec) \in Nat
    BY Zenon, <1>2, HeadTail, MergeAssumption DEF RecoveryPop, TypeOK
  <2>2. pc = "recovery" /\ UNCHANGED <<out, next_seq>>
    BY <1>2 DEF RecoveryPop
  <2>3. CASE /\ Head(qrec) = next_seq /\ pc' = "forward" /\ held' = Head(qrec)
             /\ UNCHANGED <<ring, pending_count>>
    BY <2>2, <2>3 DEF Begin
  <2>4. CASE SetAside(Head(qrec)) /\ UNCHANGED <<pc, held>>
    BY <2>1, <2>2, <2>4, SetAsideKind
  <2>. QED
    BY <1>2, <2>3, <2>4 DEF RecoveryPop
<1>3. CASE RecoveryDone
  BY <1>3 DEF RecoveryDone, Quiet, queueVars, bufferVars
<1>4. CASE SourcePop
  <2> DEFINE x == <<Polled, idx[Polled]>>
  <2>1. pc = "source" /\ UNCHANGED <<out, next_seq>>
    BY <1>4 DEF SourcePop, NextWorker
  <2>2. CASE q[x] = <<>> /\ NextSource /\ UNCHANGED <<ring, pending_count, held>>
    BY <2>1, <2>2 DEF Quiet, NextSource
  <2>3. CASE /\ Head(q[x]) = next_seq /\ pc' = "forward" /\ held' = Head(q[x])
             /\ UNCHANGED <<ring, pending_count>>
    BY <2>1, <2>3 DEF Begin
  <2>4. CASE q[x] # <<>> /\ SetAside(Head(q[x])) /\ NextSource /\ UNCHANGED held
    <3>1. Head(q[x]) \in Nat
      BY Zenon, <2>4, PolledQueue, HeadTail, MergeAssumption DEF TypeOK
    <3>2. pc' \in {"recovery", "source", "check"}
      BY <2>4 DEF NextSource
    <3>. QED
      BY <2>1, <2>4, <3>1, <3>2, SetAsideKind
  <2>. QED
    BY <1>4, <2>2, <2>3, <2>4 DEF SourcePop, NextWorker
<1>5. CASE Checkpoint
  BY <1>5 DEF Checkpoint, Quiet, queueVars, bufferVars
<1>6. CASE Environment
  BY <1>6 DEF Environment, Receive, Inject, TakeRequest, Consume, RaiseShutdown,
              Quiet, threadVars, queueVars, bufferVars, loopVars
<1>7. CASE UNCHANGED vars
  BY <1>7 DEF vars, Quiet, queueVars, bufferVars, loopVars
<1>. QED
  BY <1>1, <1>2, <1>3, <1>4, <1>5, <1>6, <1>7 DEF Next, MergeStep

(***************************************************************************)
(* Delivery in sequence.                                                   *)
(***************************************************************************)
\* The packet being forwarded is the next one in sequence.
HeldNext == pc = "forward" => held = next_seq

SeqInv == TypeOK /\ InSequence /\ BufferedAhead /\ HeldNext

LEMMA SeqInvStep == SeqInv /\ [Next]_vars => SeqInv'
<1> SUFFICES ASSUME SeqInv, [Next]_vars
             PROVE  SeqInv'
  OBVIOUS
<1>1. TypeOK'
  BY TypeStep DEF SeqInv
<1>2. CASE Quiet
  BY <1>1, <1>2 DEF SeqInv, InSequence, BufferedAhead, HeldNext, Quiet
<1>3. CASE Begin
  BY <1>1, <1>3 DEF SeqInv, InSequence, BufferedAhead, HeldNext, Begin
<1>4. ASSUME NEW s \in Nat, Buffering(s)
      PROVE  SeqInv'
  <2>1. \A i \in Slots : ring'[i] = IF i = Slot(s) THEN s ELSE ring[i]
    BY <1>4, SlotInRing DEF Buffering, Buffer, SeqInv, TypeOK
  <2>2. BufferedAhead'
    BY <1>4, <2>1 DEF Buffering, BufferedAhead, SeqInv
  <2>. QED
    BY <1>1, <1>4, <2>2 DEF Buffering, SeqInv, InSequence, HeldNext
<1>5. CASE Forward
  <2>1. InSequence'
    <3>1. /\ out' = Append(out, held) /\ next_seq' = next_seq + 1 /\ held = next_seq
          /\ out \in Seq(Nat) /\ next_seq \in Nat /\ InitSeq \in Nat
      BY <1>5, MergeAssumption DEF Forward, SeqInv, HeldNext, TypeOK
    <3>2. /\ Len(out') = Len(out) + 1 /\ Len(out) \in Nat
          /\ \A i \in 1 .. Len(out) : out'[i] = out[i]
          /\ out'[Len(out) + 1] = held
      BY <3>1
    <3>3. next_seq = InitSeq + Len(out) /\ \A i \in 1 .. Len(out) : out[i] = InitSeq + i - 1
      BY DEF SeqInv, InSequence
    <3>4. ASSUME NEW i \in 1 .. Len(out')
          PROVE  out'[i] = InitSeq + i - 1
      <4>1. CASE i \in 1 .. Len(out)
        BY <3>2, <3>3, <4>1
      <4>2. CASE i = Len(out) + 1
        BY <3>1, <3>2, <3>3, <4>2
      <4>. QED
        BY <3>2, <4>1, <4>2
    <3>. QED
      BY <3>1, <3>2, <3>3, <3>4 DEF InSequence
  <2>2. BufferedAhead'
    BY <1>5 DEF Forward, SeqInv, BufferedAhead, TypeOK
  <2>. QED
    BY <1>1, <1>5, <2>1, <2>2 DEF Forward, SeqInv, HeldNext
<1>6. CASE DrainHit
  <2>1. \A i \in Slots : ring'[i] = IF i = Slot(next_seq) THEN Empty ELSE ring[i]
    BY <1>6, SlotInRing DEF DrainHit, TakeSlot, SeqInv, TypeOK
  <2>2. BufferedAhead'
    BY <1>6, <2>1 DEF DrainHit, TakeSlot, SeqInv, BufferedAhead
  <2>. QED
    BY <1>1, <1>6, <2>2 DEF DrainHit, TakeSlot, queueVars, SeqInv, InSequence, HeldNext
<1>7. CASE DrainMiss
  <2>1. pc' # "forward" /\ pc' # "drain"
    BY <1>7 DEF DrainMiss, NextSource
  <2>2. UNCHANGED <<out, next_seq, ring>> /\ pc = "drain" /\ ring[Slot(next_seq)] # next_seq
    BY <1>7 DEF DrainMiss, queueVars, bufferVars
  <2>. QED
    BY <1>1, <2>1, <2>2 DEF SeqInv, InSequence, BufferedAhead, HeldNext
<1>. QED
  BY <1>2, <1>3, <1>4, <1>5, <1>6, <1>7, StepKinds DEF SeqInv

LEMMA SeqInvInit == Init => SeqInv
<1> SUFFICES ASSUME Init PROVE SeqInv
  OBVIOUS
<1>1. TypeOK
  BY InitType
<1>. QED
  BY <1>1, MergeAssumption DEF Init, SeqInv, InSequence, BufferedAhead, HeldNext

LEMMA SeqInvAlways == Spec => []SeqInv
BY SeqInvInit, SeqInvStep, PTL DEF Spec

\* The decode stage receives the sequence numbers InitSeq, InitSeq + 1, ... with
\* none missing, repeated or out of order, for every loss, duplication and
\* reordering of the feeds and every window.
THEOREM MergedInSequence == Spec => []InSequence
BY SeqInvAlways, PTL DEF SeqInv

\* No ring slot is ever stale: buffered packets stay ahead of next_seq.
THEOREM RingNeverStale == Spec => []BufferedAhead
BY SeqInvAlways, PTL DEF SeqInv

(***************************************************************************)
(* pending_count counts the buffered packets.                              *)
(***************************************************************************)
LEMMA BufferedFinite ==
  ASSUME TypeOK
  PROVE  IsFiniteSet(Buffered) /\ Cardinality(Buffered) \in Nat
<1>1. IsFiniteSet(Slots)
  BY FS_Interval, MergeAssumption DEF Slots, Cap
<1>2. IsFiniteSet({ring[i] : i \in Slots})
  <2> DEFINE T == {ring[i] : i \in Slots}
  <2>1. ring \in Surjection(Slots, T)
    BY DEF Surjection, TypeOK
  <2>. QED
    BY <1>1, <2>1, FS_Surjection
<1>3. IsFiniteSet(Buffered)
  BY <1>2, FS_Subset DEF Buffered
<1>. QED
  BY <1>3, FS_CardinalityType

\* Buffering adds one packet that was not there and overwrites none.
LEMMA BufferingSet ==
  ASSUME SeqInv, NEW s \in Nat, Buffering(s)
  PROVE  s \notin Buffered /\ Buffered' = Buffered \cup {s}
<1>1. \A i \in Slots : ring'[i] = IF i = Slot(s) THEN s ELSE ring[i]
  BY SlotInRing DEF Buffering, Buffer, SeqInv, TypeOK
<1>2. Slot(s) \in Slots /\ ring[Slot(s)] = Empty
  BY SlotInRing DEF Buffering, Usable, SeqInv, BufferedAhead, TypeOK
<1>3. s # Empty
  BY DEF Empty
<1>4. s \notin Buffered
  BY <1>2, <1>3 DEF Buffered, SeqInv, BufferedAhead
<1>5. Buffered' = Buffered \cup {s}
  BY <1>1, <1>2, <1>3 DEF Buffered
<1>. QED
  BY <1>4, <1>5

\* Draining removes exactly the next packet in sequence.
LEMMA DrainSet ==
  ASSUME SeqInv, DrainHit
  PROVE  next_seq \in Buffered /\ Buffered' = Buffered \ {next_seq}
<1>1. \A i \in Slots : ring'[i] = IF i = Slot(next_seq) THEN Empty ELSE ring[i]
  BY SlotInRing DEF DrainHit, TakeSlot, SeqInv, TypeOK
<1>2. Slot(next_seq) \in Slots /\ ring[Slot(next_seq)] = next_seq /\ next_seq # Empty
  BY SlotInRing DEF DrainHit, TakeSlot, SeqInv, TypeOK, Empty
<1>3. \A i \in Slots : ring[i] = next_seq => i = Slot(next_seq)
  BY <1>2 DEF SeqInv, BufferedAhead
<1>. QED
  BY <1>1, <1>2, <1>3 DEF Buffered

PendingInv == SeqInv /\ PendingExact

LEMMA PendingInvAlways == Spec => []PendingInv
<1>1. Init /\ SeqInv => PendingExact
  <2> SUFFICES ASSUME Init
               PROVE  PendingExact
    OBVIOUS
  <2>1. Buffered = {}
    BY DEF Init, Buffered
  <2>. QED
    BY <2>1, FS_EmptySet DEF Init, PendingExact
<1>2. PendingInv /\ [Next]_vars => PendingInv'
  <2> SUFFICES ASSUME PendingInv, [Next]_vars
               PROVE  PendingExact'
    BY SeqInvStep DEF PendingInv
  <2>0. SeqInv /\ TypeOK /\ pending_count = Cardinality(Buffered)
    BY DEF PendingInv, SeqInv, PendingExact
  <2>1. IsFiniteSet(Buffered)
    BY <2>0, BufferedFinite
  <2>2. CASE UNCHANGED <<ring, pending_count>>
    BY <2>0, <2>2 DEF PendingExact, Buffered
  <2>3. ASSUME NEW s \in Nat, Buffering(s)
        PROVE  PendingExact'
    <3>1. Cardinality(Buffered') = Cardinality(Buffered) + 1
      BY <2>0, <2>1, <2>3, BufferingSet, FS_AddElement
    <3>. QED
      BY <2>0, <2>3, <3>1 DEF PendingExact, Buffering, Buffer
  <2>4. CASE DrainHit
    <3>1. Cardinality(Buffered') = Cardinality(Buffered) - 1
      BY <2>0, <2>1, <2>4, DrainSet, FS_RemoveElement
    <3>2. Cardinality(Buffered) # 0
      BY <2>0, <2>1, <2>4, DrainSet, FS_EmptySet
    <3>. QED
      BY <2>0, <2>4, <3>1, <3>2 DEF PendingExact, DrainHit, TakeSlot
  <2>. QED
    BY <2>0, <2>2, <2>3, <2>4, StepKinds
       DEF Quiet, Begin, Forward, DrainMiss, bufferVars
<1>. QED
  BY <1>1, <1>2, SeqInvAlways, PTL DEF Spec, PendingInv

\* The counter the overflow test reads never drifts from the ring's contents.
THEOREM PendingCountExact == Spec => []PendingExact
BY PendingInvAlways, PTL DEF PendingInv

(***************************************************************************)
(* While the window does not outgrow the ring, no two sequence numbers of  *)
(* the window share a slot, so no packet is dropped without a gap report.  *)
(***************************************************************************)
RingCoversWindow == Adaptive => WindowMax <= Cap

Reach ==
  /\ reorder_window <= Cap
  /\ \A i \in Slots : ring[i] # Empty => ring[i] <= next_seq + Cap

CoveredInv == SeqInv /\ Reach

LEMMA CoveredInvAlways ==
  ASSUME RingCoversWindow
  PROVE  Spec => []CoveredInv
<1>1. Init => Reach
  BY MergeAssumption DEF Init, Reach, Cap
<1>2. CoveredInv /\ [Next]_vars => CoveredInv'
  <2> SUFFICES ASSUME CoveredInv, [Next]_vars
               PROVE  Reach'
    BY SeqInvStep DEF CoveredInv
  <2>0. SeqInv /\ TypeOK /\ Window0 \in Nat
    BY MergeAssumption DEF CoveredInv, SeqInv
  <2>1. reorder_window' <= Cap
    <3>1. CASE UNCHANGED reorder_window
      BY <3>1 DEF CoveredInv, Reach
    <3>2. CASE Adaptive /\ reorder_window' = TunedWindow(reorder_window, recent_gaps, recent_ooo)
      <4>1. /\ reorder_window' \in Nat
            /\ reorder_window' <= Larger(reorder_window, WindowMax)
        BY <2>0, <3>2, TunedWindowBound DEF TypeOK
      <4>. QED
        BY <2>0, <3>2, <4>1, TuningAssumption
        DEF CoveredInv, Reach, RingCoversWindow, Larger, Cap, TypeOK
    <3>. QED
      BY Zenon, <3>1, <3>2 DEF Next, MergeStep, Environment, LoopTop, RecoveryPop, RecoveryDone,
         SourcePop, NextWorker, Forward, DrainHit, TakeSlot, DrainMiss, Checkpoint, Receive, Inject,
         TakeRequest, Consume, RaiseShutdown, threadVars, tuneVars, vars
  <2>2. CASE UNCHANGED <<ring, next_seq>>
    BY <2>1, <2>2 DEF CoveredInv, Reach
  <2>3. ASSUME NEW s \in Nat, Buffering(s)
        PROVE  Reach'
    <3>1. \A i \in Slots : ring'[i] = IF i = Slot(s) THEN s ELSE ring[i]
      BY <2>0, <2>3, SlotInRing DEF Buffering, Buffer, TypeOK
    <3>2. s <= next_seq + Cap /\ next_seq' = next_seq
      BY <2>0, <2>3 DEF Buffering, Fits, CoveredInv, Reach, TypeOK, Cap
    <3>. QED
      BY <2>1, <3>1, <3>2 DEF CoveredInv, Reach
  <2>4. CASE Forward
    BY <2>0, <2>1, <2>4 DEF Forward, CoveredInv, Reach, TypeOK, Cap
  <2>5. CASE DrainHit
    <3>1. \A i \in Slots : ring'[i] = IF i = Slot(next_seq) THEN Empty ELSE ring[i]
      BY <2>0, <2>5, SlotInRing DEF DrainHit, TakeSlot, TypeOK
    <3>. QED
      BY <2>1, <2>5, <3>1 DEF DrainHit, TakeSlot, CoveredInv, Reach
  <2>. QED
    BY <2>0, <2>2, <2>3, <2>4, <2>5, StepKinds DEF Quiet, Begin, DrainMiss, bufferVars
<1>. QED
  BY <1>1, <1>2, SeqInvAlways, PTL DEF Spec, CoveredInv

LEMMA CoveredNoAlias ==
  ASSUME CoveredInv
  PROVE  NoAlias
<1> SUFFICES ASSUME pc \in {"recovery", "source"},
                    NEW s \in next_seq + 1 .. next_seq + reorder_window,
                    ring[Slot(s)] # Empty
             PROVE  ring[Slot(s)] = s
  BY DEF NoAlias
<1> DEFINE t == ring[Slot(s)]
<1>1. /\ TypeOK /\ s \in Nat /\ next_seq \in Nat /\ Window0 \in Nat
      /\ reorder_window \in Nat /\ reorder_window <= Cap
  BY MergeAssumption DEF CoveredInv, SeqInv, TypeOK, Reach
<1>2. Slot(s) \in Slots
  BY <1>1, SlotInRing
<1>3. t \in Nat
  BY <1>1, <1>2 DEF TypeOK
<1>4. Slot(t) = Slot(s) /\ t > next_seq /\ t <= next_seq + Cap
  BY <1>2 DEF CoveredInv, SeqInv, BufferedAhead, Reach
<1>5. s - t < Cap /\ t - s < Cap
  BY <1>1, <1>3, <1>4 DEF Cap
<1>. QED
  BY <1>1, <1>3, <1>4, <1>5, SlotInjective

\* With a fixed window, or an adaptive one that is at most one larger than the initial
\* window, the slots of the window never alias (merge.rs:235).
THEOREM CoveredWindowNoAlias ==
  ASSUME RingCoversWindow
  PROVE  Spec => []NoAlias
BY CoveredInvAlways, CoveredNoAlias, PTL

LEMMA TailShorter ==
  ASSUME NEW S, NEW sq \in Seq(S), sq # <<>>
  PROVE  Tail(sq) # sq /\ \A e \in S : Tail(sq) # Append(sq, e)
<1>1. Len(Tail(sq)) = Len(sq) - 1 /\ Len(sq) \in Nat
  OBVIOUS
<1>2. \A e \in S : Len(Append(sq, e)) = Len(sq) + 1
  OBVIOUS
<1>3. ASSUME Tail(sq) = sq
      PROVE  FALSE
  <2>1. Len(Tail(sq)) = Len(sq)
    BY <1>3, Zenon
  <2>. QED
    BY <1>1, <2>1
<1>4. ASSUME NEW e \in S, Tail(sq) = Append(sq, e)
      PROVE  FALSE
  <2>1. Len(Tail(sq)) = Len(Append(sq, e))
    BY <1>4, Zenon
  <2>. QED
    BY <1>1, <1>2, <2>1
<1>. QED
  BY <1>3, <1>4, Zenon

\* Only the two pop actions of the merge thread remove a packet from a queue.
LEMMA PopIsMerge ==
  ASSUME TypeOK, [Next]_vars, NEW s \in Seqs, PoppedNow(s)
  PROVE  \/ RecoveryPop /\ s = Head(qrec)
         \/ /\ SourcePop /\ q[<<Polled, idx[Polled]>>] # <<>>
            /\ s = Head(q[<<Polled, idx[Polled]>>])
<1> DEFINE x == <<Polled, idx[Polled]>>
<1>1. qrec # <<>> => qrec' # qrec \/ qrec' # Tail(qrec)
  BY TailShorter DEF TypeOK
<1>2. \A y \in Queues : q[y] # <<>> /\ q'[y] = Tail(q[y]) => q'[y] # q[y]
  BY TailShorter DEF TypeOK
<1>3. CASE UNCHANGED <<q, qrec>>
  BY <1>1, <1>2, <1>3 DEF PoppedNow
<1>4. CASE RecoveryPop
  BY <1>2, <1>4 DEF RecoveryPop, PoppedNow
<1>5. CASE SourcePop
  <2>1. qrec' = qrec
    BY Zenon, <1>5 DEF SourcePop, NextWorker
  <2>2. PICK y \in Queues : q[y] # <<>> /\ q'[y] = Tail(q[y]) /\ s = Head(q[y])
    BY <1>1, <2>1 DEF PoppedNow
  <2>3. q[x] # <<>> /\ q' = [q EXCEPT ![x] = Tail(q[x])]
    BY <1>2, <1>5, <2>2 DEF SourcePop, NextWorker
  <2>4. y = x
    <3> HIDE DEF x
    <3>. QED BY <1>2, <2>2, <2>3 DEF TypeOK
  <2>. QED
    BY <1>5, <2>2, <2>3, <2>4
<1>6. ASSUME NEW y \in Queues, NEW e \in Seqs, Receive(y, e)
      PROVE  FALSE
  <2>1. qrec' = qrec /\ q' = [q EXCEPT ![y] = Append(q[y], e)]
    BY <1>6 DEF Receive
  <2>2. PICK z \in Queues : q[z] # <<>> /\ q'[z] = Tail(q[z])
    BY <1>1, <2>1 DEF PoppedNow
  <2>. QED
    BY <1>2, <2>1, <2>2, TailShorter DEF TypeOK
<1>7. ASSUME NEW e \in Seqs, Inject(e)
      PROVE  FALSE
  <2>1. q' = q /\ qrec' = Append(qrec, e)
    BY <1>7 DEF Inject
  <2>. QED
    BY Zenon, <1>2, <2>1, TailShorter DEF PoppedNow, TypeOK
<1>. QED
  BY Zenon, <1>3, <1>4, <1>5, <1>6, <1>7
     DEF Next, MergeStep, Environment, LoopTop, RecoveryDone, Forward, DrainHit, TakeSlot, DrainMiss,
         Checkpoint, TakeRequest, Consume, RaiseShutdown, queueVars, vars

LEMMA SetAsideKept ==
  ASSUME CoveredInv, NEW s \in Nat, s >= next_seq, SetAside(s), pc \in {"recovery", "source"}
  PROVE  s \in Buffered' \/ (~Fits(s) /\ recent_gaps')
<1>1. TypeOK /\ next_seq \in Nat /\ reorder_window \in Nat /\ s # Empty
  BY DEF CoveredInv, SeqInv, TypeOK, Empty
<1>2. Slot(s) \in Slots
  BY SlotInRing
<1>3. CASE s < next_seq
  BY <1>1, <1>3
<1>4. CASE s > next_seq /\ Buffer(s)
  <2>1. ring'[Slot(s)] = s
    BY <1>1, <1>2, <1>4 DEF Buffer, TypeOK
  <2>. QED
    BY <1>1, <1>2, <2>1 DEF Buffered
<1>5. CASE s > next_seq /\ Fits(s) /\ ~Usable(s) /\ UNCHANGED ring
  <2>1. s \in next_seq + 1 .. next_seq + reorder_window
    BY <1>1, <1>5 DEF Fits
  <2>2. ring[Slot(s)] = s
    BY <1>5, <2>1, CoveredNoAlias DEF NoAlias, Usable
  <2>. QED
    BY <1>1, <1>2, <1>5, <2>2 DEF Buffered
<1>6. CASE ~Fits(s) /\ recent_gaps' = TRUE
  BY <1>6
<1>. QED
  BY <1>3, <1>4, <1>5, <1>6 DEF SetAside

\* With such a window a popped packet that was not yet forwarded is forwarded,
\* kept in the ring or reported as a gap; the code drops none silently.
THEOREM CoveredWindowNoSilentDrop ==
  ASSUME RingCoversWindow
  PROVE  Spec => NoSilentDrop
<1> DEFINE Kept(s) == \/ s \in Buffered'
                      \/ pc' = "forward" /\ held' = s
                      \/ ~Fits(s) /\ recent_gaps'
<1>1. ASSUME CoveredInv, [Next]_vars, NEW s \in Seqs, PoppedNow(s), s >= next_seq
      PROVE  Kept(s)
  <2>1. TypeOK /\ s \in Nat
    BY <1>1, MergeAssumption DEF CoveredInv, SeqInv
  <2>2. CASE RecoveryPop /\ s = Head(qrec)
    BY <1>1, <2>1, <2>2, SetAsideKept DEF RecoveryPop
  <2>3. CASE /\ SourcePop /\ q[<<Polled, idx[Polled]>>] # <<>>
             /\ s = Head(q[<<Polled, idx[Polled]>>])
    BY <1>1, <2>1, <2>3, SetAsideKept DEF SourcePop, NextWorker
  <2>. QED
    BY <1>1, <2>1, <2>2, <2>3, PopIsMerge
<1>2. CoveredInv /\ [Next]_vars =>
        [\A s \in Seqs : PoppedNow(s) /\ s >= next_seq => Kept(s)]_vars
  BY <1>1
<1>. QED
  BY <1>2, CoveredInvAlways, PTL DEF Spec, NoSilentDrop

(***************************************************************************)
(* The ring implements the ideal reorder buffer.                           *)
(***************************************************************************)
WindowBound == reorder_window <= Larger(Window0, WindowMax)

LEMMA WindowBoundAlways == Spec => [](TypeOK /\ WindowBound)
<1>1. Init => WindowBound
  BY MergeAssumption, TuningAssumption DEF Init, WindowBound, Larger
<1>2. TypeOK /\ WindowBound /\ [Next]_vars => WindowBound'
  <2> SUFFICES ASSUME TypeOK, WindowBound, [Next]_vars
               PROVE  WindowBound'
    OBVIOUS
  <2>1. CASE UNCHANGED reorder_window
    BY <2>1 DEF WindowBound
  <2>2. CASE reorder_window' = TunedWindow(reorder_window, recent_gaps, recent_ooo)
    <3>1. /\ reorder_window' \in Nat
          /\ reorder_window' <= Larger(reorder_window, WindowMax)
      BY <2>2, TunedWindowBound DEF TypeOK
    <3>. QED
      BY <3>1, MergeAssumption, TuningAssumption DEF WindowBound, Larger, TypeOK
  <2>. QED
    BY Zenon, <2>1, <2>2 DEF Next, MergeStep, Environment, LoopTop, RecoveryPop, RecoveryDone,
       SourcePop, NextWorker, Forward, DrainHit, TakeSlot, DrainMiss, Checkpoint, Receive, Inject,
       TakeRequest, Consume, RaiseShutdown, threadVars, tuneVars, vars
<1>. QED
  BY <1>1, <1>2, TypeCorrect, PTL DEF Spec

\* The abstract module's cardinality is the library's.
LEMMA SameCardinality ==
  ASSUME NEW S
  PROVE  Ideal!Cardinality(S) = Cardinality(S)
BY Zenon DEF Cardinality, Ideal!Cardinality

Stored == Buffered \cup (IF pc = "forward" THEN {held} ELSE {})

LEMMA RefinementStep ==
  ASSUME PendingInv, WindowBound, [Next]_vars
  PROVE  [Ideal!Next]_(Ideal!bufferVars)
<1>1. /\ SeqInv /\ TypeOK /\ pending_count = Cardinality(Buffered)
      /\ next_seq \in Nat /\ InitSeq \in Nat
  BY MergeAssumption DEF PendingInv, SeqInv, PendingExact, TypeOK
<1>2. Ideal!Expected = next_seq
  BY <1>1 DEF SeqInv, InSequence, Ideal!Expected
<1>3. pc # "drain" => \A t \in Buffered : t > next_seq
  BY <1>1 DEF SeqInv, BufferedAhead, Buffered
<1>4. ASSUME out' = out, Stored' = Stored
      PROVE  UNCHANGED Ideal!bufferVars
  BY <1>4 DEF Stored, Ideal!bufferVars
<1>5. CASE Quiet
  BY <1>4, <1>5 DEF Quiet, Stored, Buffered
<1>6. CASE DrainMiss
  <2>1. pc = "drain" /\ pc' # "forward" /\ UNCHANGED <<out, ring>>
    BY <1>6 DEF DrainMiss, NextSource, queueVars, bufferVars
  <2>. QED
    BY <1>4, <2>1 DEF Stored, Buffered
<1>7. CASE DrainHit
  <2>1. pc = "drain" /\ pc' = "forward" /\ held' = next_seq /\ out' = out
    BY <1>7 DEF DrainHit, TakeSlot, queueVars
  <2>. QED
    BY <1>1, <1>4, <1>7, <2>1, DrainSet DEF Stored
<1>8. CASE Begin
  <2>1. /\ out' = out /\ Stored = Buffered /\ Stored' = Stored \cup {next_seq}
        /\ next_seq \notin Stored
    BY <1>1, <1>3, <1>8 DEF Begin, Stored, Buffered
  <2>2. Larger(Window0, WindowMax) \in Nat
    BY MergeAssumption, TuningAssumption DEF Larger
  <2>3. Ideal!Store(next_seq)
    BY <1>1, <1>2, <2>1, <2>2 DEF Ideal!Store, Stored
  <2>. QED
    BY <1>1, <1>2, <2>2, <2>3 DEF Ideal!Next
<1>9. ASSUME NEW s \in Nat, Buffering(s)
      PROVE  Ideal!Next
  <2>1. /\ out' = out /\ Stored = Buffered /\ Stored' = Stored \cup {s}
        /\ s \notin Stored
    BY <1>1, <1>9, BufferingSet DEF Buffering, Stored
  <2>2. /\ Larger(Window0, WindowMax) \in Nat
        /\ s > next_seq /\ s <= next_seq + Larger(Window0, WindowMax)
    BY <1>1, <1>9, MergeAssumption, TuningAssumption
       DEF Buffering, Fits, WindowBound, Larger, TypeOK
  <2>3. Cardinality(Stored) < MaxPending
    BY <1>1, <1>9, <2>1 DEF Buffering, Fits
  <2>4. Ideal!Expected <= s /\ s <= Ideal!Expected + Larger(Window0, WindowMax)
    BY <1>1, <1>2, <2>2
  <2>5. Ideal!Store(s)
    BY <2>1, <2>3, <2>4, SameCardinality, Zenon DEF Ideal!Store, Stored
  <2>. QED
    BY <1>1, <1>2, <2>2, <2>5 DEF Ideal!Next
<1>10. CASE Forward
  <2>1. pc = "forward" /\ held = next_seq /\ out' = Append(out, held)
    BY <1>1, <1>10 DEF Forward, SeqInv, HeldNext
  <2>2. Buffered' = Buffered /\ Stored' = Buffered /\ Stored = Buffered \cup {next_seq}
    BY <1>10, <2>1 DEF Forward, Stored, Buffered
  <2>3. next_seq \notin Buffered
    BY <1>1, <1>3, <2>1
  <2>4. Stored' = Stored \ {next_seq} /\ next_seq \in Stored
    BY <2>2, <2>3
  <2>5. Ideal!Release
    BY <1>2, <2>1, <2>4 DEF Ideal!Release, Stored
  <2>. QED
    BY <2>5 DEF Ideal!Next
<1>. QED
  BY <1>1, <1>5, <1>6, <1>7, <1>8, <1>9, <1>10, StepKinds

\* The merge thread's ring of window + 1 slots implements the ideal reorder buffer,
\* with a fixed and with an adaptive window: what it stored it delivers in sequence,
\* exactly once, and never overwrites.
THEOREM MergeImplementsReorderBuffer == Spec => ReorderBufferSafety
<1>1. Init => Ideal!Init
  BY DEF Init, Ideal!Init, Buffered
<1>2. PendingInv /\ WindowBound /\ [Next]_vars => [Ideal!Next]_(Ideal!bufferVars)
  BY RefinementStep
<1>. QED
  BY <1>1, <1>2, PendingInvAlways, WindowBoundAlways, PTL
     DEF Spec, ReorderBufferSafety, Ideal!SafeSpec
=============================================================================
