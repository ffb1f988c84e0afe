--------------------------- MODULE RecoveryProofs ---------------------------
(***************************************************************************)
(* The merge thread and the replay injector together implement the merge    *)
(* module with its open environment, so what MergeProofs shows of the merge  *)
(* thread holds with the real injector at the other end of its channels.    *)
(***************************************************************************)
EXTENDS Recovery, MergeProofs

\* The ranges the merge thread reports: from next_seq to just before a number a queue
\* delivered.
Reported == {r \in Nat \X Nat : r[1] >= InitSeq /\ r[2] + 1 \in Seqs}

\* What keeps the replayed numbers inside Seqs: every request, and the range made of
\* them, ends just before a number of Seqs.
InjectorInv ==
  /\ requests \in Seq(Reported)
  /\ rpc \in {"recv", "coalesce", "connect", "replay"}
  /\ rpc # "recv" => <<lo, hi>> \in Reported
  /\ rpc = "replay" => cursor \in Nat /\ cursor >= InitSeq

RecoveryInv == SeqInv /\ InjectorInv

\* A number of a reported range is one the feeds may carry.
LEMMA ReportedInSeqs ==
  ASSUME NEW r \in Reported, NEW s \in Nat, InitSeq <= s, s <= r[2]
  PROVE  s \in Seqs
<1>1. r[2] \in Nat /\ r[2] + 1 \in Seqs
  BY DEF Reported
<1>2. s \in InitSeq .. r[2] + 1
  BY <1>1, MergeAssumption
<1>. QED
  BY <1>1, <1>2, RecoveryAssumption

\* A packet set aside is reported, if at all, as a range of Reported.
LEMMA SetAsideReports ==
  ASSUME SeqInv, requests \in Seq(Reported), NEW s \in Seqs, SetAside(s)
  PROVE  requests' \in Seq(Reported)
<1>1. CASE UNCHANGED requests
  BY <1>1
<1>2. CASE s > next_seq /\ NotifyGap(next_seq, s - 1)
  <2>1. next_seq \in Nat /\ next_seq >= InitSeq /\ s \in Nat
    BY MergeAssumption DEF SeqInv, TypeOK, InSequence
  <2>2. <<next_seq, s - 1>> \in Reported
    BY <1>2, <2>1 DEF Reported
  <2>. QED
    BY <1>2, <2>2 DEF NotifyGap
<1>. QED
  BY <1>1, <1>2 DEF SetAside

LEMMA MergeStepReports ==
  ASSUME SeqInv, requests \in Seq(Reported), MergeStep
  PROVE  requests' \in Seq(Reported)
<1>1. CASE RecoveryPop
  <2>1. Head(qrec) \in Seqs
    BY <1>1, HeadTail DEF RecoveryPop, SeqInv, TypeOK
  <2>2. SetAside(Head(qrec)) \/ UNCHANGED requests
    BY <1>1, Zenon DEF RecoveryPop
  <2>. QED
    BY <2>1, <2>2, SetAsideReports
<1>2. CASE SourcePop
  <2> DEFINE x == <<Polled, idx[Polled]>>
  <2>1. (q[x] # <<>> /\ SetAside(Head(q[x]))) \/ UNCHANGED requests
    BY <1>2, Zenon DEF SourcePop
  <2>2. q[x] # <<>> => Head(q[x]) \in Seqs
    BY PolledQueue, HeadTail DEF SeqInv, TypeOK
  <2>. QED
    BY <2>1, <2>2, SetAsideReports
<1>3. CASE LoopTop \/ RecoveryDone \/ Forward \/ DrainHit \/ DrainMiss \/ Checkpoint
  BY <1>3, Zenon DEF LoopTop, RecoveryDone, Forward, DrainHit, DrainMiss, Checkpoint, queueVars
<1>. QED
  BY <1>1, <1>2, <1>3 DEF MergeStep

LEMMA TakeRequestFacts ==
  ASSUME requests \in Seq(Reported), TakeRequest
  PROVE  Head(requests) \in Reported /\ requests' \in Seq(Reported)
BY HeadTail DEF TakeRequest

\* Every step of the composition is a step of the merge module.
LEMMA RecoveryStepIsMergeStep ==
  ASSUME RecoveryInv, [RecoveryNext]_recoveryVars
  PROVE  [Next]_vars
<1>1. CASE ReplayPacket
  <2>1. <<lo, hi>> \in Reported /\ cursor \in Nat /\ cursor >= InitSeq /\ cursor <= hi
    BY <1>1 DEF ReplayPacket, RecoveryInv, InjectorInv
  <2>2. cursor \in Seqs
    BY <2>1, ReportedInSeqs
  <2>. QED
    BY <1>1, <2>2, Zenon DEF ReplayPacket, Next, Environment
<1>2. CASE TakeFirst \/ Coalesce
  BY <1>2, Zenon DEF TakeFirst, Coalesce, Next, Environment
<1>3. CASE NoMoreRequests \/ ConnectFails \/ Connect \/ ReplayEnds
  BY <1>3, Zenon DEF NoMoreRequests, ConnectFails, Connect, ReplayEnds
<1>4. CASE Delivery
  <2>1. PICK x \in Queues : \E s \in Feed[x] : Receive(x, s)
    BY <1>4 DEF Delivery
  <2>2. Feed[x] \subseteq Seqs
    BY RecoveryAssumption
  <2>. QED
    BY <2>1, <2>2, Zenon DEF Next, Environment
<1>5. CASE MergeStep \/ Consume \/ RaiseShutdown
  BY <1>5, Zenon DEF Next, Environment
<1>6. CASE UNCHANGED recoveryVars
  BY <1>6, Zenon DEF recoveryVars
<1>. QED
  BY <1>1, <1>2, <1>3, <1>4, <1>5, <1>6, Zenon DEF RecoveryNext, Injector

LEMMA RecoveryInvStep == RecoveryInv /\ [RecoveryNext]_recoveryVars => RecoveryInv'
<1> SUFFICES ASSUME RecoveryInv, [RecoveryNext]_recoveryVars
             PROVE  RecoveryInv'
  OBVIOUS
<1>1. SeqInv'
  BY RecoveryStepIsMergeStep, SeqInvStep DEF RecoveryInv
<1>2. InjectorInv'
  <2> USE DEF RecoveryInv, InjectorInv
  <2>1. CASE TakeFirst
    <3>1. Head(requests) \in Reported /\ requests' \in Seq(Reported)
      BY <2>1, TakeRequestFacts DEF TakeFirst
    <3>2. Head(requests) = <<Head(requests)[1], Head(requests)[2]>>
      BY <3>1 DEF Reported
    <3>3. CASE UNCHANGED <<rpc, lo, hi, cursor>>
      BY <2>1, <3>1, <3>3 DEF TakeFirst
    <3>4. CASE rpc' = "coalesce" /\ lo' = Head(requests)[1] /\ hi' = Head(requests)[2]
      BY <2>1, <3>1, <3>2, <3>4 DEF TakeFirst
    <3>. QED
      BY <2>1, <3>3, <3>4, Zenon DEF TakeFirst
  <2>2. CASE Coalesce
    <3>1. Head(requests) \in Reported /\ requests' \in Seq(Reported)
      BY <2>2, TakeRequestFacts DEF Coalesce
    <3>2. <<lo, hi>> \in Reported
      BY <2>2 DEF Coalesce
    <3>3. <<lo', hi'>> \in Reported
      BY <2>2, <3>1, <3>2 DEF Coalesce, Smaller, Larger, Reported
    <3>. QED
      BY <2>2, <3>1, <3>3 DEF Coalesce
  <2>3. CASE NoMoreRequests \/ ConnectFails \/ Connect \/ ReplayEnds
    <3>1. UNCHANGED requests
      BY <2>3 DEF NoMoreRequests, ConnectFails, Connect, ReplayEnds, vars, queueVars
    <3>2. CASE Connect
      BY <3>1, <3>2, MergeAssumption DEF Connect, Reported
    <3>3. CASE NoMoreRequests \/ ConnectFails \/ ReplayEnds
      BY <3>1, <3>3 DEF NoMoreRequests, ConnectFails, ReplayEnds, Idle
    <3>. QED
      BY <2>3, <3>2, <3>3
  <2>4. CASE ReplayPacket
    BY <2>4, MergeAssumption DEF ReplayPacket, Inject
  <2>5. CASE (MergeStep \/ Delivery \/ Consume \/ RaiseShutdown) /\ UNCHANGED injectorVars
    <3>1. requests' \in Seq(Reported)
      <4>1. CASE MergeStep
        BY <4>1, MergeStepReports
      <4>2. CASE Delivery \/ Consume \/ RaiseShutdown
        BY <4>2 DEF Delivery, Receive, Consume, RaiseShutdown, queueVars
      <4>. QED
        BY <2>5, <4>1, <4>2
    <3>. QED
      BY <2>5, <3>1 DEF injectorVars
  <2>6. CASE UNCHANGED recoveryVars
    BY <2>6 DEF recoveryVars, injectorVars, vars, queueVars
  <2>. QED
    BY <2>1, <2>2, <2>3, <2>4, <2>5, <2>6 DEF RecoveryNext, Injector
<1>. QED
  BY <1>1, <1>2 DEF RecoveryInv

LEMMA RecoveryInitInv == RecoveryInit => RecoveryInv
<1> SUFFICES ASSUME RecoveryInit PROVE RecoveryInv
  OBVIOUS
<1>1. SeqInv
  BY SeqInvInit DEF RecoveryInit
<1>2. InjectorInv
  BY DEF RecoveryInit, Init, InjectorInv
<1>. QED
  BY <1>1, <1>2 DEF RecoveryInv

\* The merge thread with the real injector implements the merge module: whatever the
\* injector coalesces, fails to fetch or replays is a behaviour of the open environment
\* the merge thread was verified in.
THEOREM RecoveryImplementsMerge == RecoverySpec => MergeContract
<1>1. RecoveryInit => Init
  BY DEF RecoveryInit
<1>. QED
  BY <1>1, RecoveryInitInv, RecoveryInvStep, RecoveryStepIsMergeStep, PTL
  DEF RecoverySpec, MergeContract, Spec

\* So decode receives the packets in sequence however the injector coalesces, loses and
\* replays ranges.
THEOREM RecoveredInSequence == RecoverySpec => []InSequence
BY RecoveryImplementsMerge, MergedInSequence DEF MergeContract
=============================================================================
