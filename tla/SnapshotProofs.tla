--------------------------- MODULE SnapshotProofs ---------------------------
(***************************************************************************)
(* Proofs about the snapshots of Snapshot, for a sync_all that syncs.        *)
(***************************************************************************)
EXTENDS Snapshot, TLAPS

\* A file that survives a power loss as it is.
Durable(f) == Exists(f) => f.whole /\ f.synced

\* The partial file holds the export being written, whole once it is written and
\* synced once it may be renamed.
PartialInv ==
  /\ wpc \in {"write", "sync", "rename"} => partial.book = export
  /\ wpc \in {"sync", "rename"} => partial.whole
  /\ wpc = "rename" => partial.synced

\* From the export being written over the queued exports to the book, each is at least as
\* new as the one before; and so is the first of them compared with the snapshot, unless
\* the book began empty and has not replaced it yet.
AgeInv ==
  /\ ~up => chan = <<>> /\ wpc = "recv"
  /\ up /\ ~unloaded => snap.book <= book
  /\ wpc # "recv" => (unloaded \/ snap.book <= export) /\ export <= book
  /\ \A i \in 1 .. Len(chan) : (unloaded \/ snap.book <= chan[i]) /\ chan[i] <= book
  /\ wpc # "recv" => \A i \in 1 .. Len(chan) : export <= chan[i]
  /\ \A i, j \in 1 .. Len(chan) : i <= j => chan[i] <= chan[j]

SnapshotInv ==
  TypeOK /\ Durable(snap) /\ Durable(old) /\ PartialInv /\ AgeInv

\* What is true after a power loss.
LEMMA PowerLossFile ==
  ASSUME NEW f \in Files, NEW g \in AfterPowerLoss(f)
  PROVE  g \in Files /\ (Durable(f) => Durable(g) /\ g.book = f.book)
BY Zenon DEF AfterPowerLoss, Files, Durable, Exists

LEMMA SnapshotTypeStep == TypeOK /\ [Next]_vars => TypeOK'
<1> SUFFICES ASSUME TypeOK, [Next]_vars PROVE TypeOK'
  OBVIOUS
<1> USE SnapshotAssumption DEF TypeOK, fileVars, WriterAt, Down
<1>1. CASE RequestSnapshot
  BY <1>1 DEF RequestSnapshot
<1>2. ASSUME NEW interval_over \in BOOLEAN, ApplyPacket(interval_over) PROVE TypeOK'
  BY <1>2 DEF ApplyPacket
<1>3. CASE TakeExport
  BY <1>3 DEF TakeExport
<1>4. CASE CreatePartial
  BY <1>4 DEF CreatePartial, Files
<1>5. CASE WritePartial
  BY Zenon, <1>5 DEF WritePartial, Files
<1>6. CASE SyncPartial
  BY Zenon, <1>6 DEF SyncPartial, Files
<1>7. CASE RenamePartial
  BY <1>7 DEF RenamePartial, NoFile, Files
<1>8. CASE GiveUp
  BY <1>8 DEF GiveUp
<1>9. CASE ProcessCrash
  <2>1. partial' \in Files /\ snap' \in Files /\ old' \in Files
    BY <1>9 DEF ProcessCrash
  <2>2. export' \in Nat /\ book' \in Nat /\ triggers' \in 0 .. TriggerCap
    BY <1>9 DEF ProcessCrash
  <2>3. chan' \in Seq(Nat) /\ Len(chan') <= ChannelCap /\ wpc' = "recv" /\ up' = FALSE
    BY <1>9 DEF ProcessCrash
  <2>4. unloaded' \in BOOLEAN
    BY Zenon, <1>9 DEF ProcessCrash
  <2>. QED
    BY Zenon, <2>1, <2>2, <2>3, <2>4
<1>10. CASE PowerLoss
  <2>1. snap' \in Files
    BY <1>10, PowerLossFile DEF PowerLoss
  <2>2. NoFile \in Files
    BY DEF NoFile, Files
  <2>3. partial' \in Files
    BY <1>10, <2>2, PowerLossFile DEF PowerLoss
  <2>4. old' \in Files /\ export' \in Nat /\ book' \in Nat /\ triggers' \in 0 .. TriggerCap
    BY <1>10, <2>1 DEF PowerLoss
  <2>5. chan' \in Seq(Nat) /\ Len(chan') <= ChannelCap /\ wpc' = "recv" /\ up' = FALSE
    BY <1>10 DEF PowerLoss
  <2>6. unloaded' \in BOOLEAN
    BY Zenon, <1>10 DEF PowerLoss
  <2>. QED
    BY Zenon, <2>1, <2>3, <2>4, <2>5, <2>6
<1>11. CASE Start
  <2>1. book' \in Nat
    BY <1>11 DEF Start, Files, Exists
  <2>2. up' \in BOOLEAN /\ unloaded' \in BOOLEAN
    BY Zenon, <1>11 DEF Start, Exists
  <2>. QED
    BY Zenon, <1>11, <2>1, <2>2 DEF Start
<1>12. CASE UNCHANGED vars
  BY <1>12 DEF vars
<1>. QED
  BY <1>1, <1>2, <1>3, <1>4, <1>5, <1>6, <1>7, <1>8, <1>9, <1>10, <1>11, <1>12 DEF Next, Writer

LEMMA SnapshotInvInit == Init => SnapshotInv
<1> SUFFICES ASSUME Init PROVE SnapshotInv
  OBVIOUS
<1>1. NoFile \in Files /\ ~Exists(NoFile)
  BY DEF NoFile, Files, Exists
<1>2. TypeOK
  <2>1. chan \in Seq(Nat) /\ Len(chan) <= ChannelCap /\ triggers \in 0 .. TriggerCap
    BY SnapshotAssumption DEF Init
  <2>2. book \in Nat /\ export \in Nat
    BY DEF Init
  <2>. QED
    BY Zenon, <1>1, <2>1, <2>2 DEF Init, TypeOK
<1>3. PartialInv /\ AgeInv
  BY DEF Init, PartialInv, AgeInv, NoFile
<1>. QED
  BY <1>1, <1>2, <1>3 DEF Init, SnapshotInv, Durable

LEMMA SnapshotInvStep ==
  ASSUME SyncReliable
  PROVE  SnapshotInv /\ [Next]_vars => SnapshotInv'
<1> SUFFICES ASSUME SnapshotInv, [Next]_vars
             PROVE  Durable(snap)' /\ Durable(old)' /\ PartialInv' /\ AgeInv'
  BY SnapshotTypeStep DEF SnapshotInv
<1> DEFINE Goal == Durable(snap)' /\ Durable(old)' /\ PartialInv' /\ AgeInv'
<1>0. TypeOK /\ Durable(snap) /\ Durable(old) /\ PartialInv /\ AgeInv
  BY DEF SnapshotInv
<1>1. CASE RequestSnapshot
  BY <1>0, <1>1 DEF RequestSnapshot, fileVars, Durable, Exists, PartialInv, AgeInv
<1>2. ASSUME NEW interval_over \in BOOLEAN, ApplyPacket(interval_over) PROVE Goal
  <2>1. AgeInv'
    BY <1>0, <1>2 DEF ApplyPacket, fileVars, AgeInv, TypeOK, Files
  <2>. QED
    BY <1>0, <1>2, <2>1 DEF ApplyPacket, fileVars, Durable, Exists, PartialInv
<1>3. CASE TakeExport
  <2>1. AgeInv'
    BY <1>0, <1>3 DEF TakeExport, WriterAt, fileVars, AgeInv, TypeOK, Files
  <2>. QED
    BY <1>0, <1>3, <2>1 DEF TakeExport, WriterAt, fileVars, Durable, Exists, PartialInv
<1>4. CASE CreatePartial
  BY <1>0, <1>4 DEF CreatePartial, WriterAt, Durable, Exists, PartialInv, AgeInv
<1>5. CASE WritePartial
  <2>1. PartialInv'
    BY <1>0, <1>5 DEF WritePartial, WriterAt, PartialInv, TypeOK, Files
  <2>. QED
    BY <1>0, <1>5, <2>1 DEF WritePartial, WriterAt, Durable, Exists, AgeInv
<1>6. CASE SyncPartial
  <2>1. PartialInv'
    BY <1>0, <1>6 DEF SyncPartial, WriterAt, PartialInv, TypeOK, Files
  <2>. QED
    BY <1>0, <1>6, <2>1 DEF SyncPartial, WriterAt, Durable, Exists, AgeInv
<1>7. CASE RenamePartial
  <2>1. snap' = partial /\ Durable(partial) /\ partial.book = export
    BY <1>0, <1>7 DEF RenamePartial, WriterAt, Durable, PartialInv
  <2>2. AgeInv'
    BY <1>0, <1>7, <2>1 DEF RenamePartial, WriterAt, AgeInv, TypeOK, Files
  <2>. QED
    BY <1>0, <1>7, <2>1, <2>2 DEF RenamePartial, WriterAt, Durable, Exists, PartialInv
<1>8. CASE GiveUp
  BY <1>0, <1>8 DEF GiveUp, WriterAt, fileVars, Durable, Exists, PartialInv, AgeInv
<1>9. CASE ProcessCrash
  BY <1>0, <1>9 DEF ProcessCrash, Down, fileVars, Durable, Exists, PartialInv, AgeInv
<1>10. CASE PowerLoss
  <2>1. Durable(snap)' /\ old' = snap'
    BY <1>0, <1>10, PowerLossFile DEF PowerLoss, TypeOK, Durable, Exists
  <2>. QED
    BY <1>0, <1>10, <2>1 DEF PowerLoss, Down, Durable, Exists, PartialInv, AgeInv
<1>11. CASE Start
  <2>1. unloaded' \/ snap.book <= book'
    BY <1>0, <1>11 DEF Start, fileVars, Durable, Exists, TypeOK, Files
  <2>. QED
    BY <1>0, <1>11, <2>1 DEF Start, fileVars, Durable, Exists, PartialInv, AgeInv
<1>12. CASE UNCHANGED vars
  BY <1>0, <1>12 DEF vars, Durable, Exists, PartialInv, AgeInv
<1>. QED
  BY <1>1, <1>2, <1>3, <1>4, <1>5, <1>6, <1>7, <1>8, <1>9, <1>10, <1>11, <1>12 DEF Next, Writer

\* Whatever fails, and whether or not a sync reaches the disk, the trigger and export
\* channels stay within their capacities.
THEOREM SnapshotTyped == Spec => []TypeOK
<1>1. Init => TypeOK
  BY SnapshotInvInit DEF SnapshotInv
<1>. QED
  BY <1>1, SnapshotTypeStep, PTL DEF Spec

\* The writer renames only what is whole and synced, so a crash or power loss at any step
\* leaves a snapshot that loads, or none.
THEOREM SnapshotsLoadable ==
  ASSUME SyncReliable
  PROVE  Spec => []AlwaysLoadable
<1>1. SnapshotInv => AlwaysLoadable
  BY DEF SnapshotInv, Durable, AlwaysLoadable
<1>. QED
  BY <1>1, SnapshotInvInit, SnapshotInvStep, PTL DEF Spec

\* No step but a power loss replaces the snapshot by an older one, however many exports
\* were queued or given up before, once the book has loaded it or replaced it.
THEOREM SnapshotsNeverOlder ==
  ASSUME SyncReliable
  PROVE  Spec => NeverOlder
<1>1. SnapshotInv /\ [Next]_vars => [snap'.book < snap.book => PowerLoss \/ unloaded]_vars
  <2> SUFFICES ASSUME SnapshotInv, Next, ~PowerLoss, ~unloaded PROVE ~(snap'.book < snap.book)
    OBVIOUS
  <2>1. CASE RenamePartial
    BY <2>1 DEF SnapshotInv, PartialInv, AgeInv, RenamePartial, WriterAt, TypeOK, Files
  <2>2. CASE snap' = snap
    BY <2>2 DEF SnapshotInv, TypeOK, Files
  <2>. QED
    BY <2>1, <2>2
    DEF Next, Writer, fileVars, RequestSnapshot, ApplyPacket, TakeExport, CreatePartial,
        WritePartial, SyncPartial, GiveUp, ProcessCrash, Start
<1>. QED
  BY <1>1, SnapshotInvInit, SnapshotInvStep, PTL DEF Spec, NeverOlder
=============================================================================
