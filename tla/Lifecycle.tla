----------------------------- MODULE Lifecycle -----------------------------
(***************************************************************************)
(* Start-up is over: the threads main.rs spawned, what makes each of them    *)
(* return, and the order in which main joins them.  A thread that receives   *)
(* from a channel returns when every sender of the channel is dropped.      *)
(***************************************************************************)
EXTENDS Integers, Sequences

CONSTANTS
  HasWs,      \* feeds with WebSocket endpoints are configured
  HasWriter,  \* snapshot.enable_writer
  OutCap      \* capacity of q_merged

VARIABLES
  shutdown,    \* the BarrierFlag that Ctrl-C raises
  running,     \* the threads that have not returned
  joined,      \* how many of JoinOrder main has joined
  q_merged,    \* packets between merge and decode
  forwarding,  \* merge is inside forward(), holding a packet
  export_tx,   \* who holds a sender of the snapshot channel
  gap_tx,      \* who holds a sender of the recovery channel
  poked        \* main has sent GET /shutdown to the metrics server

vars == <<shutdown, running, joined, q_merged, forwarding, export_tx, gap_tx, poked>>

JoinOrder ==
  <<"rxA", "rxB", "merge", "decode">>
  \o (IF HasWs THEN <<"ws">> ELSE <<>>)
  \o (IF HasWriter THEN <<"writer">> ELSE <<>>)
  \o <<"recovery", "metrics">>
Threads == {JoinOrder[k] : k \in 1 .. Len(JoinOrder)}

Init ==
  /\ shutdown = FALSE /\ running = Threads /\ joined = 0
  /\ q_merged = 0 /\ forwarding = FALSE /\ poked = FALSE
  /\ export_tx = IF HasWriter THEN {"decode", "main"} ELSE {}  \* _tx in the handle
  /\ gap_tx = {"merge", "main"}                                \* recovery_client

RaiseShutdown ==
  /\ ~shutdown /\ shutdown' = TRUE
  /\ UNCHANGED <<running, joined, q_merged, forwarding, export_tx, gap_tx, poked>>

Return(t) ==
  /\ t \in running
  /\ running' = running \ {t}
  /\ export_tx' = export_tx \ {t} /\ gap_tx' = gap_tx \ {t}
  /\ UNCHANGED <<shutdown, joined, q_merged, forwarding, poked>>

RxReturns(t) == t \in {"rxA", "rxB"} /\ shutdown /\ Return(t)

\* A receive error other than "no packet" ends the thread at any time.
RxFails(t) == t \in {"rxA", "rxB"} /\ Return(t)

\* Merge pops an in-sequence packet and calls forward().
MergePops ==
  /\ "merge" \in running /\ ~forwarding
  /\ forwarding' = TRUE
  /\ UNCHANGED <<shutdown, running, joined, q_merged, export_tx, gap_tx, poked>>

MergePushes ==
  /\ forwarding /\ q_merged < OutCap
  /\ forwarding' = FALSE /\ q_merged' = q_merged + 1
  /\ UNCHANGED <<shutdown, running, joined, export_tx, gap_tx, poked>>

MergeReturns == shutdown /\ ~forwarding /\ Return("merge")

DecodePops ==
  /\ "decode" \in running /\ q_merged > 0
  /\ q_merged' = q_merged - 1
  /\ UNCHANGED <<shutdown, running, joined, forwarding, export_tx, gap_tx, poked>>

DecodeReturns == shutdown /\ Return("decode")
WriterReturns == export_tx = {} /\ Return("writer")
RecoveryReturns == gap_tx = {} /\ Return("recovery")
MetricsReturns == poked /\ Return("metrics")

\* main joins the next thread; before it joins the metrics server it pokes it.
Join ==
  /\ joined < Len(JoinOrder)
  /\ LET t == JoinOrder[joined + 1] IN
     \/ /\ t \notin running
        /\ joined' = joined + 1
        /\ export_tx' = IF t = "writer" THEN export_tx \ {"main"} ELSE export_tx
        /\ UNCHANGED poked
     \/ /\ t = "metrics" /\ ~poked
        /\ poked' = TRUE
        /\ UNCHANGED <<joined, export_tx>>
  /\ UNCHANGED <<shutdown, running, q_merged, forwarding, gap_tx>>

Returns ==
  \/ \E t \in Threads : RxReturns(t)
  \/ MergeReturns \/ DecodeReturns \/ WriterReturns \/ RecoveryReturns \/ MetricsReturns

Fails == \E t \in Threads : RxFails(t)

Next == RaiseShutdown \/ Returns \/ Fails \/ MergePops \/ MergePushes \/ DecodePops \/ Join

\* Every thread runs; a loop that tests the flag sees it.
Spec ==
  /\ Init /\ [][Next]_vars
  /\ WF_vars(Join) /\ WF_vars(MergePushes) /\ WF_vars(DecodePops)
  /\ \A t \in Threads : WF_vars(RxReturns(t))
  /\ SF_vars(MergeReturns) /\ WF_vars(DecodeReturns)
  /\ WF_vars(WriterReturns) /\ WF_vars(RecoveryReturns) /\ WF_vars(MetricsReturns)

----------------------------------------------------------------------------
\* "Gracefully stop metrics HTTP (poke /shutdown and join)": after Ctrl-C main joins
\* every thread and reports a clean shutdown.
CleanShutdown == shutdown ~> (joined = Len(JoinOrder))
=============================================================================
