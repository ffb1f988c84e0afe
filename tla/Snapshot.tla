------------------------------ MODULE Snapshot ------------------------------
(***************************************************************************)
(* Snapshots: the decode thread exports the book (decode.rs), a bounded      *)
(* channel carries the export to the writer thread, which writes a partial   *)
(* file, syncs it and renames it over the snapshot (snapshot.rs); a start    *)
(* loads the snapshot, or begins with an empty book (main.rs).  The process  *)
(* may crash, and the machine may lose power, between any two steps.        *)
(*                                                                         *)
(* A book is the number of packets applied to it.  A file is                *)
(* [book, whole, synced]: whole once all of it is written, synced once it    *)
(* survives a power loss.                                                   *)
(***************************************************************************)
EXTENDS Integers, Sequences

CONSTANTS
  ChannelCap,    \* SnapshotWriter's channel: 2
  TriggerCap,    \* the /snapshot trigger channel: 8
  SyncReliable,  \* sync_all, whose error is dropped, does sync
  MaxApplied     \* bound on the packets applied

ASSUME SnapshotAssumption ==
  /\ ChannelCap \in Nat \ {0} /\ TriggerCap \in Nat \ {0} /\ MaxApplied \in Nat
  /\ SyncReliable \in BOOLEAN

VARIABLES
  up,        \* the process runs
  book,      \* the decode thread's book
  triggers,  \* pending /snapshot requests
  chan,      \* exports on their way to the writer
  wpc,       \* writer: "recv", "create", "write", "sync", "rename"
  export,    \* the export being written
  partial,   \* the partial file, NoFile if there is none
  snap,      \* the snapshot file
  old,       \* what the snapshot path holds after a power loss if the last rename
             \* had not reached the disk
  unloaded   \* history: this life began with an empty book beside a snapshot, which
             \* it has not replaced yet

vars == <<up, book, triggers, chan, wpc, export, partial, snap, old, unloaded>>
fileVars == <<partial, snap, old>>

NoFile == [book |-> -1, whole |-> FALSE, synced |-> TRUE]
Exists(f) == f.book # -1
Files == [book : Nat \cup {-1}, whole : BOOLEAN, synced : BOOLEAN]

Init ==
  /\ up = TRUE /\ book = 0 /\ triggers = 0
  /\ chan = <<>> /\ wpc = "recv" /\ export = 0
  /\ partial = NoFile /\ snap = NoFile /\ old = NoFile
  /\ unloaded = FALSE

----------------------------------------------------------------------------
\* Mutant: the trigger channel is unbounded.
RequestUnbounded ==
  /\ up
  /\ triggers' = triggers + 1
  /\ UNCHANGED <<up, book, chan, wpc, export, fileVars, unloaded>>

\* GET /snapshot: a full trigger channel drops the request.
RequestSnapshot ==
  /\ up /\ triggers < TriggerCap
  /\ triggers' = triggers + 1
  /\ UNCHANGED <<up, book, chan, wpc, export, fileVars, unloaded>>

\* Whether a snapshot is due is looked at only after a packet: the interval first,
\* then the trigger channel.  A full channel to the writer drops the export.
ApplyPacket(interval_over) ==
  /\ up /\ book < MaxApplied
  /\ book' = book + 1
  /\ triggers' = IF ~interval_over /\ triggers > 0 THEN triggers - 1 ELSE triggers
  /\ chan' = IF (interval_over \/ triggers > 0) /\ Len(chan) < ChannelCap
             THEN Append(chan, book') ELSE chan
  /\ UNCHANGED <<up, wpc, export, fileVars, unloaded>>

----------------------------------------------------------------------------
(***************************************************************************)
(* run_writer and write_atomic.  A failing create, write or rename gives up  *)
(* this snapshot and keeps the partial file as it is.                       *)
(***************************************************************************)
WriterAt(from, to) == up /\ wpc = from /\ wpc' = to /\ UNCHANGED <<up, book, triggers>>

\* Mutant: the export queued last is written first.
TakeNewest ==
  /\ chan # <<>>
  /\ WriterAt("recv", "create")
  /\ export' = chan[Len(chan)] /\ chan' = SubSeq(chan, 1, Len(chan) - 1)
  /\ UNCHANGED <<fileVars, unloaded>>

TakeExport ==
  /\ chan # <<>>
  /\ WriterAt("recv", "create")
  /\ export' = Head(chan) /\ chan' = Tail(chan)
  /\ UNCHANGED <<fileVars, unloaded>>

\* File::create truncates a partial file left behind by an earlier attempt.
CreatePartial ==
  /\ WriterAt("create", "write")
  /\ partial' = [book |-> export, whole |-> FALSE, synced |-> FALSE]
  /\ UNCHANGED <<chan, export, snap, old, unloaded>>

WritePartial ==
  /\ WriterAt("write", "sync")
  /\ partial' = [partial EXCEPT !.whole = TRUE]
  /\ UNCHANGED <<chan, export, snap, old, unloaded>>

\* Mutant: no sync before the rename.
SyncSkipped ==
  /\ WriterAt("sync", "rename")
  /\ UNCHANGED <<chan, export, fileVars, unloaded>>

SyncPartial ==
  /\ WriterAt("sync", "rename")
  /\ \/ partial' = [partial EXCEPT !.synced = TRUE]
     \/ ~SyncReliable /\ UNCHANGED partial
  /\ UNCHANGED <<chan, export, snap, old, unloaded>>

\* The rename is atomic; the directory is not synced.
RenamePartial ==
  /\ WriterAt("rename", "recv")
  /\ old' \in {snap, old}
  /\ snap' = partial
  /\ partial' = NoFile
  /\ unloaded' = FALSE
  /\ UNCHANGED <<chan, export>>

GiveUp ==
  /\ wpc \in {"create", "write", "rename"}
  /\ WriterAt(wpc, "recv")
  /\ UNCHANGED <<chan, export, fileVars, unloaded>>

Writer == TakeExport \/ CreatePartial \/ WritePartial \/ SyncPartial \/ RenamePartial

----------------------------------------------------------------------------
(***************************************************************************)
(* Crashes and the next start.                                             *)
(***************************************************************************)
Down ==
  /\ up /\ up' = FALSE
  /\ triggers' = 0 /\ chan' = <<>> /\ wpc' = "recv"
  /\ UNCHANGED <<book, export, unloaded>>

ProcessCrash == Down /\ UNCHANGED fileVars

\* What was not synced may be lost in part.
AfterPowerLoss(f) ==
  IF f.synced THEN {f} ELSE {[f EXCEPT !.synced = TRUE], [f EXCEPT !.synced = TRUE, !.whole = FALSE]}

PowerLoss ==
  /\ Down
  /\ \E f \in {snap, old} : snap' \in AfterPowerLoss(f)
  /\ old' = snap'
  /\ partial' \in AfterPowerLoss(partial) \cup {NoFile}

\* A whole snapshot is loaded if load_on_start is set and reading it succeeds.  With
\* load_on_start off, or an error, which is logged, the book starts empty.
Start ==
  /\ ~up /\ up' = TRUE
  /\ \/ Exists(snap) /\ snap.whole /\ book' = snap.book /\ unloaded' = FALSE
     \/ book' = 0 /\ unloaded' = Exists(snap)
  /\ UNCHANGED <<triggers, chan, wpc, export, fileVars>>

Next ==
  \/ RequestSnapshot \/ \E interval_over \in BOOLEAN : ApplyPacket(interval_over)
  \/ Writer \/ GiveUp
  \/ ProcessCrash \/ PowerLoss \/ Start

Spec == Init /\ [][Next]_vars

----------------------------------------------------------------------------
TypeOK ==
  /\ up \in BOOLEAN /\ book \in Nat /\ triggers \in 0 .. TriggerCap
  /\ chan \in Seq(Nat) /\ Len(chan) <= ChannelCap
  /\ wpc \in {"recv", "create", "write", "sync", "rename"} /\ export \in Nat
  /\ partial \in Files /\ snap \in Files /\ old \in Files
  /\ unloaded \in BOOLEAN

\* "Periodic writer saves atomically to the configured path": whenever and however the
\* process stops, the snapshot path holds a snapshot that loads, or nothing.
AlwaysLoadable == Exists(snap) => snap.whole

\* A snapshot is replaced by an older book in two cases only: by a power loss, and by the
\* first snapshot of a life that began with an empty book although there was one to load.
\* From then on, and in every life that loaded it, no export overtakes a newer one,
\* whether it was queued, given up or cut short by a crash.
NeverOlder == [][snap'.book < snap.book => PowerLoss \/ unloaded]_vars
=============================================================================
