# Verification of the Numi order book

TLA+ models of the order-book pipeline in `src/src`, the TLC runs that check
them, and TLAPS proofs about the merge stage with its replay injector, the lock-free
queue, the bus, the order book, the ITCH decoder and the snapshots.

## The system

Multicast packets of one venue arrive on two redundant feeds, A and B.

| Part | Code | State | Operations |
|---|---|---|---|
| UDP receive | `rx.rs`, `rx_afxdp.rs`, `net.rs` | sockets, one thread per worker | receive, extract sequence number, push to a feed queue or drop |
| SPSC queue | `spsc.rs` | ring, `head`, `tail` | `push`, `push_with_backoff`, `push_blocking`, `pop`, `len` |
| Merge | `merge.rs` | `next_seq`, reorder ring, feed preference, adaptive window | poll recovery and both feeds, buffer, drain, report gaps, forward |
| Recovery | `recovery.rs` | request channel, pending range | `notify_gap`, coalesce, fetch and inject |
| Parsers | `parser.rs`, `decoder_*.rs` | ITCH order table | packet to events |
| Decode | `decode.rs`, `obo.rs` | the book, snapshot timer | apply events, publish frames, export snapshots, recycle buffers |
| Order book | `orderbook.rs` | index, slabs, levels, grids, best prices | `apply` (Add, Mod, Del, Trade), `export`, `from_export` |
| Bus | `pubsub.rs` | ring of frames, numbering | publish, subscribe, blocking receive |
| WebSocket server | `ws_server.rs`, `codec_raw.rs` | one thread and cursor per client | snapshot, live frames, GAP |
| WebSocket client | `bin/ws_client.rs` | highest number per instrument | deduplicate two endpoints |
| Snapshots | `snapshot.rs` | files, export channel | atomic write, load |
| Process | `main.rs`, `util.rs`, `metrics.rs` | threads, shutdown flag, channel senders | spawn, raise, join, HTTP requests |
| Packet pool | `pool.rs` | free buffers | `get`, `put` |

Receive threads push into one SPSC queue per worker; merge pops them and the
recovery queue and pushes in-sequence packets into the decode queue; decode owns
the book, publishes a frame per event on the bus and hands exports to the
snapshot writer; each WebSocket session reads the bus at its own pace.

What is hard to test here: feeds that lose, repeat and reorder packets at
the window's edge; stale index loads in the lock-free queue; eviction and wake-ups
racing on the bus; the book's linked lists under slab reuse and grid recentering;
crashes in the middle of a snapshot; and threads waiting on one another at shutdown.
`PROJECT.json` lists these hazards at their source lines.

## Modules

| Module | Models | Correspondence |
|---|---|---|
| `Merge`, `MergeTuning` | `merge.rs` | Variables carry the names of `merge_loop`'s locals. `pc` is the place in the loop body. One packet's classification is one step, because it touches thread-local state only; every `forward` is a step of its own, because it waits for room. A packet is its sequence number. The receive loop and the recovery injector are the environment: any number may arrive in any queue with room, at any time or never. |
| `ReorderBuffer` | what merge promises | Abstract: numbers near the next expected one are stored, and leave in order. |
| `Recovery` | `recovery.rs` composed with `Merge` | The injector thread: take a request, coalesce the further ones it finds, connect, replay. `rpc` is its place in the loop, `lo`, `hi` the range collected. Each failure path is an action. The replay service is external; the feeds carry only the numbers of `Feed`, so a number on no feed can come from the replay only. |
| `PacketPool` | `pool.rs` and every holder of a buffer in `rx.rs`, `rx_afxdp.rs`, `recovery.rs`, `merge.rs`, `decode.rs` | Buffers are interchangeable, so every holder is a count. `get` allocates when the pool is empty; a dropped buffer belongs to nobody. |
| `Itch` | `decoder_itch.rs`, its use in `decode.rs` | The handlers `on_add`, `on_exec`, `on_cancel`, ... give the new order table and the events, with the code's names; the book applies the events. The venue is external. A restart begins with an empty table and the saved book, or an empty one. |
| `Spsc` | `spsc.rs` | One action per atomic load, store or slot access. An acquire load may return any value from the last one seen to the current one. |
| `BoundedFifo` | what the queue promises | Abstract bounded queue. |
| `Bus` | `pubsub.rs`, publishing in `decode.rs`/`obo.rs`, `handle_client` | Critical sections under the ring's lock are single actions; numbering, publishing and notifying are three. Of the book, only the instrument of each live order is kept. |
| `WsClient` | `bin/ws_client.rs` | Extends `Bus` by the client that reads two sessions. |
| `BookSide` | `orderbook.rs`: one side of an instrument's book | Levels in grid or overflow, recentering, cached best price, and what `add`, `set_qty` and `cancel` do to them. The code keeps the fields of both sides in one struct; here a side is a record and a book has two. |
| `OrderBook` | `orderbook.rs`: `InstrumentBook`, `OrderBook::apply` | Slab with LIFO reuse, nodes linked by handles, the index. One action per event. `Spec` is one life of the process: a book that starts empty. |
| `BookRestart` | `export`, `from_export` | `Restart` is export followed by import; `RestartSpec` is `Spec` with any number of restarts, and is what the runs check. |
| `PriceTimeBook` | what the book promises | Abstract FIFO queue per price. |
| `Snapshot` | `snapshot.rs`, snapshot check of `decode.rs`, load in `main.rs` | One action per file operation. A book is the number of packets applied. A power loss may lose what was not synced, and the last rename. |
| `Lifecycle` | threads and joins of `main.rs` | Who runs, who holds a channel sender, what main waits for. |
| `MCMerge`, `MCRecovery`, `MCPacketPool`, `MCItch`, `MCBus`, `MCWsClient`, `MCOrderBook` | | Constant values for the runs. |
| `MergeProofs`, `RecoveryProofs`, `SpscProofs`, `BusProofs`, `BookSideProofs`, `OrderBookProofs`, `ItchProofs`, `SnapshotProofs` | | The proofs about each module. |

Operators whose name says "Mutant" in their comment are deliberate mistakes; no
specification uses them. Each shows that one property would notice such a mistake.

## Runs

| Run | Checks | Result |
|---|---|---|
| `merge_recovery` | Merge with the injector, lossy feeds and an adaptive window that the ring covers: in-sequence output, ring consistency, exact count, no silent drop, safety refinement of `ReorderBuffer`; the composition implements `Merge` (`MergeContract`); gaps are filled (`GapFilled`) | holds |
| `merge_window` | With the default maximum of the adaptive window no two numbers of the window share a ring slot | violated |
| `merge_live` | Two workers on A: refinement of `ReorderBuffer` with its liveness, no starvation | holds |
| `packet_pool` | The pool is empty only while all its buffers are in use | violated |
| `spsc` | Refinement of `BoundedFifo`, slot exclusion, length bounds, progress | holds |
| `bus` | Contiguous delivery or an exact GAP, numbering, no lost wake-up | holds |
| `ws_client` | The first frame of each number is kept | violated |
| `book` | Refinement of `PriceTimeBook`, exact level totals and best price, index and slab agree, restart changes nothing | holds |
| `book_recenter` | Recentering preserves the levels | violated |
| `itch` | Book, decoder table and venue agree, also across restarts for the orders followed since | holds |
| `snapshot` | The snapshot always loads; it gets older by a power loss or after a start with an empty book only | holds |
| `lifecycle` | Ctrl-C leads to the end of `main` | violated |

Run `merge_recovery` checks the safety properties of `Merge` with the packets its two lossy
feeds and the injector bring, not with every packet in every queue: in that free environment
TLC checks `Merge` in `merge_live` only, for the numbers 1 and 2 and the properties listed there.
The safety properties are proved for the free environment and every instance (see Proofs), and
`MergeContract` says that the injector and the feeds are such an environment.

The five violated properties are statements of a comment or document that the code
does not meet; `findings` in `PROJECT.json` quotes each. In short: the adaptive window outgrows
the reorder ring; polls that find nothing
and dropped packets take their buffers out of the pool for good; the sample client drops late first copies; one price can get two levels after a
recentering, after which a list starts at a freed node; and shutdown does not complete. For the book,
`AvoidSplit` states the condition under which it is right: no order is added at an
aligned price that lies in overflow. Run `book` assumes it, run `book_recenter`
does not.

The reorder ring is sized from the initial window and does not grow with the adaptive one.
While `reorder_window_max` is at most one above the initial window, the numbers of the window
have distinct slots (`CoveredWindowNoAlias`) and no packet is dropped without a gap report
(`NoSilentDrop`, checked in `merge_recovery` under that condition and proved as
`CoveredWindowNoSilentDrop`). The default maximum is eight times the initial window
(`main.rs:363-368`); run `merge_window` shows two numbers of a window of 3 in one slot of a ring
of 2, contrary to the comment at `merge.rs:235`. The second of them would be dropped without a
gap report. The output stays in sequence all the same (`InSequence` and `ReorderBufferSafety` are
proved for every window).

One disagreement has no run of its own, because one step shows it: decode applies a Del, or a Mod
to zero, to the book before it looks up the order's instrument (`DelEvent` of `Bus`;
`decode.rs:86` and `95-100`), so the frame is published and numbered under instrument 0, while
`changelog.md:36` speaks of "Correct instrument resolution for Mod/Del/Trade".

### Bounds

- `merge_recovery`: window 1 growing to 2 (ring of 2), room for 2, numbers 1..7. Feed A
  carries 7 and feed B carries 3, everything else comes from the replay: 3 is at the
  window's edge or one past it, 7 is a gap from every number up to 4. All queues and the
  request channel hold one element, so they are often full and often empty, and requests are
  dropped. `GapFilled` asks for progress past 4, the last number that 7 reports as missing.
- `merge_window`: the same with the default maximum of 8 and numbers 1..9. Feed A carries 9, which
  is a gap at first; feed B carries 2, 4 and 6, which are buffered and drained, so that
  checkpoints after a gap widen the window to 2 and to 3.
- `merge_live`: fixed window 1, room for 1, numbers 1 and 2, two workers on A, recovery queue on.
  A packet is forwarded, buffered, drained or a duplicate; none is beyond the window. With a
  third number and the recovery queue the run does not end within ten minutes.
- `packet_pool`: six buffers, a batch of two, one worker of each kind, queues of one.
- `itch`: three references (symmetric: they are compared for equality only), prices 1 and 2,
  quantities 1 and 3, so executions and cancels are partial or full; any number of restarts.
- The code's 4096 packets between checkpoints, batch of 32 and switch thresholds 2 and 8
  are constants of the model; the runs set them to 1 so that each event happens early.
- `spsc`: two slots and indices that wrap at 6 (a multiple of the capacity, as 2^64 is),
  so that wrapping happens at every alignment; three distinct items.
- `bus`: a ring of two frames, four frames published, two sessions beginning at the
  tail, at 0 and ahead of the tail; overruns and waits both happen. One order and one
  instrument besides the unresolved instrument 0.
- `book`: one instrument, three orders, prices 1, 2 and 4 with a grid of two slots: two
  prices share a window and the third recenters. Head, middle and tail of a level
  occur. `book_recenter` has four orders at prices 1 and 3, which do not share a window.
  Order ids are symmetric: the book compares them for equality only.
- `snapshot`: channel of two exports, four packets per life of the process, any number of lives. `lifecycle`: a decode queue of one.
- Numbers of 64 bits do not overflow in these models (except the queue's indices).

### Deadlock and fairness

Deadlock is not checked where the system may stop: merge after shutdown, the bus (and
the client on it) once all bounded frames are published, `lifecycle` once main is done.
It is checked for the queue, the book, the decoder and the snapshots.

- Merge: weak fairness of the merge thread and of decode's pop. Both are loops on
  threads of their own that never block.
- Recovery: weak fairness of the merge, decode and injector threads. `GapFilled` is
  conditional on its environment: packets beyond the window keep arriving (`FarPackets`: a
  live feed), and the replay service does not fail every time nor the request channel stay
  full whenever the injector looks (`ReplayAnswers`). Without the first nothing asks again
  for a request that was dropped; without the second there is nothing to fill the gap with.
- Queue: both threads keep running, the consumer keeps polling, and a store becomes
  visible after finitely many loads (coherence of atomics).
- Bus: decode finishes a publication, a session that is not waiting runs, and a
  connected peer reads. Spurious wake-ups are possible and never relied on.
- Lifecycle: every thread runs; merge's return is strongly fair, so it is not
  kept away by an endless supply of packets. Merge and decode test the flag
  once per iteration.

## Proofs

`MergeProofs` proves for every window, capacity, batch size, number of workers and
set of sequence numbers, from `MergeAssumption` and `TuningAssumption` (types, and
sizes that are at least one):

- `TypeCorrect`: `TypeOK`.
- `MergedInSequence` and `RingNeverStale`: `InSequence` and `BufferedAhead`. Neither is
  inductive alone: `Forward` appends `held`, so `SeqInv` adds `HeldNext`, that the packet
  held while waiting in `forward` is the next expected one. `BufferedAhead` says when the
  next expected number may be in the ring: only while the drain loop is looking for it.
- `PendingCountExact`: `PendingExact`, by `PendingInv`. Distinct slots hold distinct
  numbers, so storing adds one element to `Buffered` and draining removes one.
- `CoveredWindowNoAlias` and `CoveredWindowNoSilentDrop`: with a fixed window, or an adaptive
  one at most one above the initial one (`RingCoversWindow`), every buffered number is at
  most `Cap` ahead of `next_seq` (`CoveredInv`), and different numbers less than `Cap` apart have different
  slots (`SlotInjective`).
- `MergeImplementsReorderBuffer`: the safety part of the refinement, with a fixed or an
  adaptive window (`WindowBound`: the window never exceeds the larger of the
  initial one and `reorder_window_max`).

`StepKinds` sorts the actions by their effect on the buffer (nothing, begin a forward,
forward, drain, buffer, end of drain), so that each invariant is shown once per kind.

`RecoveryProofs` proves `RecoveryImplementsMerge` (`MergeContract`) for every set of feeds
and `RecoveredInSequence`. Its invariant `InjectorInv` says that every range reported,
collected or replayed consists of sequence numbers of the stream, which needs `BufferedAhead`
from `SeqInv`: a gap is reported from `next_seq` on.

`SpscProofs` proves, for every capacity of at least 2 and every index width that the capacity
divides, `SlotsExclusive` (`NoSlotConflict`), `LengthBounded` (`ProducerLenBounded`) and
`SpscImplementsFifo` (`ImplementsFifo`). `IndexInv` bounds the wrapped distances between
the true indices and the ones each thread has seen; `SlotInv` says that the slots from
`tail` to `head` hold items, the slot about to be published holds the value pushed, and the
value being popped is still in its slot. That the slot being written lies outside them
follows from the distances (`FreeSlot`). The
contents of the FIFO are the slots from `tail` to `head`, read in order.

`BusProofs` proves `DeliveryContiguous` (`NoSilentLoss`) and `GapsExact` (`GapExact`) for every
capacity, number of sessions and starting cursor. `RingInv` says that the ring holds the newest
published frames; `SessionOK` that a session's cursor is one ahead of what it sent while it
holds a frame, and that an evicted range stays evicted. `NumbersInOrder` proves
`InstrumentNumbered` for every number of instruments: a frame's number is the number of frames
of its instrument up to its place on the bus. The number and the place are taken in two
steps; `NumberInv` says that in between the counter is one ahead of the bus for the instrument
of the frame that decode holds, and for no other.

`BookSideProofs` and `OrderBookProofs` prove two theorems about one life of the order book, for
all instruments, ids, prices, quantities, ticks, grid spans and slab sizes.

- `IndexExact`: `TypeOK` and `IndexMatchesSlab`, without any condition on the feed beyond the
  model's (no live id is added again); in particular also where a price has two levels. The
  inductive invariant `SlabInv` adds that no slot is on the free list twice or both free and
  occupied (`SlabOK`), that every level, grid and best price has its type, and that ids and nodes correspond one to
  one over all instruments (`IndexOK`).
- `BestExact`: `BboExact` and `LevelsExact` if `AvoidSplit`. `BookInv` adds to `SlabInv`, for
  each side (`SideOK`), that grid and overflow share no price, that the grid's levels are filled
  and lie in its window, whose start is a multiple of the tick (`SideShape`); that the cached
  best is the best of the levels, with its total (`BestOK`); that there is a level exactly
  where there are orders; and that its count and total are the numbers of its nodes and of
  their units (`Tally`). A recentering keeps this because what leaves the grid was not in overflow, and the
  price added was not either: it is off the grid's ticks, or `AvoidSplit` excludes it.
  `Tally` counts sets (an order of quantity q is q units), so that a sum over the orders of a
  level needs no induction.

`ItchProofs` proves `TableOrdersInBook` (`TableInBook`), `FollowedOrdersExact` (`FollowedExact`)
and `ItchCorrect` (`BookMatchesVenue`) for every set of references,
prices and quantities when trades are not consumed. `ItchInv` adds that an
unissued reference is nowhere (`Unissued`), that the decoder knows a followed order exactly as
long as it is live (`FollowedKnown`), and that all are followed before the first restart.

`SnapshotProofs` proves `SnapshotsLoadable` (`AlwaysLoadable`) and `SnapshotsNeverOlder`
(`NeverOlder`) when `sync_all` syncs. `PartialInv` says what the partial file holds at each
step of `write_atomic` (whole and synced before the rename), `AgeInv` that the
export being written, the queued ones and the book are sorted by age, and that none of them is
older than the snapshot once the book has loaded or replaced it. A start with `load_on_start` off,
or whose load fails, leaves an empty book beside the snapshot (`unloaded`), and its first
snapshot does replace a newer one: `NeverOlder` says that this and a power loss are the only ways.

The type invariants of these modules are theorems too (`BusTyped`, `SpscTyped`, `ItchTyped`,
`SnapshotTyped`, and `TypeOK` in `IndexExact`).

Only model-checked:

- liveness: fairness and ENABLED are out of the prover's reach;
- `ImplementsPriceTime`, which reads the book's linked lists: the theorems about the book say which
  orders a level has and how much they are worth, not in which order;
- the book across restarts: `Export` sorts and flattens and `Import` folds over the result,
  and what they compute needs induction over data;
- everything about `WsClient`, `PacketPool` and `Lifecycle`.

## Assumptions and what is not modelled

- The venue does not reuse the id of a live order, a trade names the instrument of its maker,
  and an ITCH venue executes or cancels no more than an order has.
- `consume_trades` is off where ITCH is decoded: `config.rs:108` reserves it for feeds without
  Mod and Del. With it on, an execution would reduce the book twice.
- `sync_all` syncs (`SyncReliable`); its error is ignored by the code.
- After a restart the feed goes on where the snapshot ended or later. The code does not see to it:
  the snapshot holds no sequence number, and merge begins at `initial_expected_seq` again
  (`main.rs:358`), so a feed replayed from there would add orders to the restored book twice.
- Global bus numbers and sequence numbers of 64 bits do not wrap; configurations with
  4-byte sequence numbers, which do, are not modelled.
- The dwell time between feed switches is a free choice: it has passed or it has not.
- The replay service sends the numbers it is asked for, in order, and may stop at any point.

Not modelled, and why:

- byte layouts, the EOBI and FAST decoders and sequence extraction: functions of one packet
  with no state from one to the next;
- truncated ITCH messages and the symbol directory, which nothing reads;
- system calls, socket options, timestamps, metrics, logging: they influence no other state;
- the WebSocket upgrade, token test and the snapshot sent before the live frames. The snapshot
  carries no bus position, so nothing in the code relates it to the frames that follow;
- the HTTP/3 server, behind a feature that is off by default;
- configuration and allocator (values are the CONSTANTS), tools (sequential I/O).

## Further work

1. A pipeline of receive threads, merge and decode over one model of the queues.
2. The snapshot phase of a WebSocket session, composed with `Snapshot` and `Bus`.
3. FAST stop-bit integers as operators checked against a reference.
