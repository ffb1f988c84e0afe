----------------------------- MODULE MCRecovery -----------------------------
(* Small instances of Recovery for TLC. *)
EXTENDS Recovery

OneWorkerEach == [c \in Chans |-> 1]
LossyFeeds == [x \in Queues |-> IF x[1] = "A" THEN {7} ELSE {3}]

\* Packets beyond the window on A, every second number on B: each drain is followed by
\* a checkpoint that widens the window.
WideningFeeds == [x \in Queues |-> IF x[1] = "A" THEN {9} ELSE {2, 4, 6}]
=============================================================================
