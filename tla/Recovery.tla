------------------------------ MODULE Recovery ------------------------------
(***************************************************************************)
(* The merge thread together with the replay injector of                    *)
(* src/src/recovery.rs: the merge thread reports gaps on a bounded channel,  *)
(* the injector takes a request, coalesces the further ones it finds, asks   *)
(* the replay service for the range and pushes what it gets into the         *)
(* recovery queue.                                                          *)
(*                                                                         *)
(* The replay service is external.  It sends the numbers it was asked for in *)
(* order, and the connection may fail or end at any point.  The feeds of     *)
(* this composition carry the numbers of Feed only, so that a number on no   *)
(* feed is one that only the replay service can supply.                     *)
(***************************************************************************)
EXTENDS Merge, FiniteSetsExt

CONSTANT Feed   \* the sequence numbers each receive queue is sent

ASSUME RecoveryAssumption ==
  /\ HasRecovery
  /\ Feed \in [Queues -> SUBSET Seqs]
  /\ \A s \in Seqs : InitSeq .. s \subseteq Seqs

VARIABLES
  rpc,     \* injector: "recv", "coalesce", "connect", "replay"
  lo, hi,  \* the range to fetch
  cursor   \* the number the replay service sends next

injectorVars == <<rpc, lo, hi, cursor>>
recoveryVars == <<vars, injectorVars>>

RecoveryInit == Init /\ rpc = "recv" /\ lo = 0 /\ hi = 0 /\ cursor = 0

\* rx.recv(): an empty range is skipped.
TakeFirst ==
  /\ rpc = "recv"
  /\ TakeRequest
  /\ LET r == Head(requests) IN
     IF r[1] > r[2] THEN UNCHANGED <<rpc, lo, hi>>
                    ELSE rpc' = "coalesce" /\ lo' = r[1] /\ hi' = r[2]
  /\ UNCHANGED cursor

\* Overlapping or adjacent to the range collected so far.
Touches(r) == r[1] <= hi + 1 /\ r[2] >= Larger(lo, 1) - 1

\* rx.try_recv(): a range that does not touch goes to the backlog file only.
Coalesce ==
  /\ rpc = "coalesce"
  /\ TakeRequest
  /\ LET r == Head(requests) IN
     IF Touches(r) THEN lo' = Smaller(lo, r[1]) /\ hi' = Larger(hi, r[2])
                   ELSE UNCHANGED <<lo, hi>>
  /\ UNCHANGED <<rpc, cursor>>

NoMoreRequests ==
  /\ rpc = "coalesce" /\ requests = <<>>
  /\ rpc' = "connect"
  /\ UNCHANGED <<vars, lo, hi, cursor>>

\* Back to rx.recv(); the range and the cursor are out of scope there.
Idle == rpc' = "recv" /\ lo' = 0 /\ hi' = 0 /\ cursor' = 0

\* A connection that fails is logged; the range is not asked for again.
ConnectFails == rpc = "connect" /\ Idle /\ UNCHANGED vars

Connect ==
  /\ rpc = "connect"
  /\ rpc' = "replay" /\ cursor' = lo
  /\ UNCHANGED <<vars, lo, hi>>

\* Mutant: the push does not wait for room.
ReplayWithoutRoom ==
  /\ rpc = "replay" /\ cursor <= hi
  /\ qrec' = Append(qrec, cursor)
  /\ cursor' = cursor + 1
  /\ UNCHANGED <<q, out, taken, requests, threadVars, shutdown, rpc, lo, hi>>

\* One packet is read and pushed; push_blocking waits for room in the recovery queue.
ReplayPacket ==
  /\ rpc = "replay" /\ cursor <= hi
  /\ Inject(cursor)
  /\ cursor' = cursor + 1
  /\ UNCHANGED <<rpc, lo, hi>>

\* End of the replay, or an error in the middle of it.
ReplayEnds == rpc = "replay" /\ Idle /\ UNCHANGED vars

Injector ==
  \/ TakeFirst \/ Coalesce \/ NoMoreRequests
  \/ ConnectFails \/ Connect \/ ReplayPacket \/ ReplayEnds

Delivery == \E x \in Queues : \E s \in Feed[x] : Receive(x, s)

RecoveryNext ==
  \/ Injector
  \/ (MergeStep \/ Delivery \/ Consume \/ RaiseShutdown) /\ UNCHANGED injectorVars

RecoverySpec == RecoveryInit /\ [][RecoveryNext]_recoveryVars

\* The merge, decode and injector threads keep running.
FairRecoverySpec ==
  /\ RecoverySpec
  /\ WF_recoveryVars(MergeStep /\ UNCHANGED injectorVars)
  /\ WF_recoveryVars(Consume /\ UNCHANGED injectorVars)
  /\ WF_recoveryVars(Injector)

----------------------------------------------------------------------------
\* The injector and the feeds are an environment the merge module allows, so what is
\* proved of the merge thread holds of the composition.
MergeContract == Spec

\* A packet too far ahead to be buffered keeps arriving on some feed.
FarPackets ==
  \A x \in Queues : \A s \in Feed[x] :
    (s > InitSeq + Larger(Window0, WindowMax) + 1) =>
       WF_recoveryVars(Receive(x, s) /\ UNCHANGED injectorVars)

\* The replay service answers now and then, and the injector finds the request
\* channel empty now and then.
ReplayAnswers ==
  /\ SF_recoveryVars(NoMoreRequests) /\ SF_recoveryVars(Connect) /\ SF_recoveryVars(ReplayPacket)

\* The last number some feed reports as a gap whatever the window.
LastGap == Max(UNION {Feed[x] : x \in Queues}) - Larger(Window0, WindowMax) - 1

\* A gap is filled although requests are dropped when the channel is full, dropped when
\* they do not touch the range being collected, and not repeated when a fetch fails: as
\* long as newer packets keep arriving, the merge thread asks again.
GapFilled == (FarPackets /\ ReplayAnswers) => <>(next_seq > LastGap \/ shutdown)
=============================================================================
