---------------------------- MODULE MergeTuning ----------------------------
(***************************************************************************)
(* The adaptive checkpoint of src/src/merge.rs: how the reorder window        *)
(* follows what was seen since the previous checkpoint.  (The dwell time it  *)
(* also tunes is not modelled: Merge lets the dwell time be over or not.)     *)
(***************************************************************************)
LOCAL INSTANCE Integers

CONSTANT WindowMax  \* MergeConfig.reorder_window_max

ASSUME TuningAssumption == WindowMax \in Nat

Smaller(a, b) == IF a <= b THEN a ELSE b
Larger(a, b) == IF a >= b THEN a ELSE b

WindowFloor == 8

Grown(w, gaps) ==
  IF gaps /\ w < WindowMax THEN Smaller(w + Larger(w \div 4, 1), WindowMax) ELSE w

Shrunk(w, gaps, ooo) ==
  IF ~ooo /\ ~gaps /\ w > WindowFloor THEN Larger(w - w \div 8, WindowFloor) ELSE w

TunedWindow(w, gaps, ooo) == Shrunk(Grown(w, gaps), gaps, ooo)
=============================================================================
