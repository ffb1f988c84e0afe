----------------------------- MODULE PacketPool -----------------------------
(***************************************************************************)
(* The packet buffers of the pipeline: PacketPool of src/src/pool.rs and     *)
(* every place that takes a buffer from it, hands it on or gives it back.    *)
(*                                                                         *)
(* Buffers are interchangeable, so each holder is the number of buffers it   *)
(* has.  A buffer that a holder drops is freed and belongs to nobody.  The   *)
(* queues are bounded counters; Spsc shows that the queue keeps every item.  *)
(***************************************************************************)
EXTENDS Integers, FiniteSetsExt

CONSTANTS
  PoolSize,  \* general.pool_size
  Batch,     \* rx_batch, at least 2 for a recvmmsg worker
  Workers,   \* the threads that take buffers
  Kind,      \* Kind[w]: "recvmmsg", "recv", "ring" (rx_afxdp.rs) or "replay" (recovery.rs)
  QueueCap,  \* capacity of a worker's queue to the merge thread
  MergeCap,  \* packets the merge thread holds: its ring and the one it forwards
  OutCap     \* capacity of the merge -> decode queue

VARIABLES
  pool,      \* buffers in the pool
  wpc,       \* worker: "get", "receive", "deliver"
  fresh,     \* buffers taken for the current poll and not handed on
  stale,     \* buffers of the previous poll still in the worker's bufs
  got,       \* received packets not yet handed on
  queued,    \* packets in the worker's queue
  merging,   \* packets the merge thread holds
  outgoing   \* packets in the decode queue

workerVars == <<wpc, fresh, stale, got, queued>>
vars == <<pool, workerVars, merging, outgoing>>

\* The whole pool is allocated up front.
Init ==
  /\ pool = PoolSize /\ merging = 0 /\ outgoing = 0
  /\ wpc = [w \in Workers |-> "get"]
  /\ fresh = [w \in Workers |-> 0] /\ stale = fresh /\ got = fresh /\ queued = fresh

\* get allocates a buffer when the pool is empty; put frees one when it is full.
Get == pool' = IF pool > 0 THEN pool - 1 ELSE 0
Put == pool' = IF pool < PoolSize THEN pool + 1 ELSE pool

Wanted(w) == IF Kind[w] = "recvmmsg" THEN Batch ELSE 1

\* One buffer for the next poll; it overwrites one the previous poll left behind.
TakeBuffer(w) ==
  /\ wpc[w] = "get"
  /\ Get
  /\ fresh' = [fresh EXCEPT ![w] = @ + 1]
  /\ stale' = [stale EXCEPT ![w] = IF @ > 0 THEN @ - 1 ELSE 0]
  /\ wpc' = [wpc EXCEPT ![w] = IF fresh[w] + 1 = Wanted(w) THEN "receive" ELSE "get"]
  /\ UNCHANGED <<got, queued, merging, outgoing>>

\* Nothing to receive, or the replay connection breaks.  The buffers of recvmmsg stay
\* in bufs, the single buffer of the other paths is dropped.  A ring worker takes its
\* buffer only once a frame is there.
ReceiveNothing(w) ==
  /\ wpc[w] = "receive" /\ Kind[w] # "ring"
  /\ stale' = [stale EXCEPT ![w] = IF Kind[w] = "recvmmsg" THEN fresh[w] ELSE 0]
  /\ fresh' = [fresh EXCEPT ![w] = 0]
  /\ wpc' = [wpc EXCEPT ![w] = "get"]
  /\ UNCHANGED <<pool, got, queued, merging, outgoing>>

Receive(w, n) ==
  /\ wpc[w] = "receive"
  /\ got' = [got EXCEPT ![w] = n]
  /\ wpc' = [wpc EXCEPT ![w] = "deliver"]
  /\ UNCHANGED <<pool, fresh, stale, queued, merging, outgoing>>

HandOn(w) ==
  /\ wpc[w] = "deliver" /\ got[w] > 0
  /\ got' = [got EXCEPT ![w] = @ - 1]
  /\ fresh' = [fresh EXCEPT ![w] = @ - 1]
  /\ UNCHANGED <<wpc, stale, merging, outgoing>>

\* A packet with a sequence number is pushed.
Push(w) ==
  /\ HandOn(w) /\ queued[w] < QueueCap
  /\ queued' = [queued EXCEPT ![w] = @ + 1]
  /\ UNCHANGED pool

\* The queue is full: the packet is dropped with its buffer (the replay waits instead).
PushFull(w) ==
  /\ HandOn(w) /\ queued[w] = QueueCap /\ Kind[w] # "replay"
  /\ UNCHANGED <<pool, queued>>

\* extract_seq finds no sequence number, or a ring frame is too large (a replay packet
\* carries its number in the frame).
NoSequence(w) ==
  /\ HandOn(w) /\ Kind[w] # "replay"
  /\ Put
  /\ UNCHANGED queued

\* The buffers recvmmsg did not fill go back one by one.
ReturnUnused(w) ==
  /\ wpc[w] = "deliver" /\ got[w] = 0
  /\ \/ /\ fresh[w] > 0
        /\ Put
        /\ fresh' = [fresh EXCEPT ![w] = @ - 1]
        /\ UNCHANGED wpc
     \/ /\ fresh[w] = 0
        /\ wpc' = [wpc EXCEPT ![w] = "get"]
        /\ UNCHANGED <<pool, fresh>>
  /\ UNCHANGED <<stale, got, queued, merging, outgoing>>

\* The merge thread pops a packet and buffers or forwards it.
MergeKeeps(w) ==
  /\ queued[w] > 0 /\ merging < MergeCap
  /\ queued' = [queued EXCEPT ![w] = @ - 1]
  /\ merging' = merging + 1
  /\ UNCHANGED <<pool, wpc, fresh, stale, got, outgoing>>

\* A duplicate, a packet whose slot is taken or one too far ahead: merge_loop has no
\* pool, so the packet is dropped with its buffer.
MergeDiscards(w) ==
  /\ queued[w] > 0
  /\ queued' = [queued EXCEPT ![w] = @ - 1]
  /\ UNCHANGED <<pool, wpc, fresh, stale, got, merging, outgoing>>

Forward ==
  /\ merging > 0 /\ outgoing < OutCap
  /\ merging' = merging - 1 /\ outgoing' = outgoing + 1
  /\ UNCHANGED <<pool, workerVars>>

\* The decode thread pops a packet, applies it and recycles its buffer.
Recycle ==
  /\ outgoing > 0
  /\ outgoing' = outgoing - 1
  /\ Put
  /\ UNCHANGED <<workerVars, merging>>

Worker(w) ==
  \/ TakeBuffer(w) \/ ReceiveNothing(w)
  \/ \E n \in 1 .. Wanted(w) : Receive(w, n)
  \/ Push(w) \/ PushFull(w) \/ NoSequence(w) \/ ReturnUnused(w)
  \/ MergeKeeps(w) \/ MergeDiscards(w)

Next == (\E w \in Workers : Worker(w)) \/ Forward \/ Recycle
Spec == Init /\ [][Next]_vars

----------------------------------------------------------------------------
InUse ==
  MapThenSumSet(LAMBDA w : fresh[w] + stale[w] + queued[w], Workers) + merging + outgoing

\* The pool is empty, and get has to allocate, only while all the buffers it started
\* with are in use: "Pre-allocate the entire pool to warm caches and avoid runtime
\* allocations" (pool.rs:15), "reuse pre-sized buffers" (readme.md:150).
AllocatesOnlyWhenAllInUse == pool = 0 => InUse >= PoolSize
=============================================================================
