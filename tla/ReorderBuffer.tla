--------------------------- MODULE ReorderBuffer ---------------------------
(***************************************************************************)
(* What the merge stage promises the decode stage: an ideal reorder buffer. *)
(* Sequence numbers near the next expected one may be stored in any order;  *)
(* they leave in sequence, each exactly once, and a stored one is never     *)
(* lost or replaced.                                                        *)
(***************************************************************************)
EXTENDS Integers, Sequences, FiniteSets

CONSTANTS First,  \* first sequence number delivered
          Span,   \* how far ahead of the next expected number one may be stored
          Room    \* how many may be stored besides the next expected one

VARIABLES delivered, stored

bufferVars == <<delivered, stored>>

Expected == First + Len(delivered)

Init == delivered = <<>> /\ stored = {}

Store(s) ==
  /\ s \notin stored
  /\ Expected <= s /\ s <= Expected + Span
  /\ s = Expected \/ Cardinality(stored) < Room
  /\ stored' = stored \cup {s}
  /\ UNCHANGED delivered

Release ==
  /\ Expected \in stored
  /\ delivered' = Append(delivered, Expected)
  /\ stored' = stored \ {Expected}

Next == Release \/ \E s \in Expected .. Expected + Span : Store(s)

SafeSpec == Init /\ [][Next]_bufferVars

\* A stored packet whose turn has come is released.
Spec == SafeSpec /\ WF_bufferVars(Release)
=============================================================================
