------------------------------ MODULE MCMerge ------------------------------
(* A small instance of Merge for TLC. *)
EXTENDS Merge

TwoWorkersOnA == [c \in Chans |-> IF c = "A" THEN 2 ELSE 1]
=============================================================================
