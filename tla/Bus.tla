-------------------------------- MODULE Bus --------------------------------
(***************************************************************************)
(* The order-by-order bus: pubsub.rs, its publisher (the decode thread of   *)
(* decode.rs, which applies an event to the book and publishes a frame) and *)
(* its subscribers (one handle_client thread of ws_server.rs each).         *)
(*                                                                         *)
(* A frame is the order it is about, its instrument and its per-instrument  *)
(* sequence number.  Of the book only what instrument_for_order reads is    *)
(* kept: the instrument of every live order.  Global numbers are not wrapped *)
(* (they are 64 bits wide); at most MaxFrames frames are published.         *)
(***************************************************************************)
EXTENDS Integers, Sequences, FiniteSets

CONSTANTS
  Capacity,      \* frames the ring holds: feeds.obo.buffers.pub_queue, which must be > 0
  Sessions,      \* the WebSocket connections
  Orders,        \* order ids of the feed
  Instruments,   \* instrument ids of the feed, none of them 0
  FromSeqs,      \* the from_seq values clients ask for
  ConsumeTrades, \* book.consume_trades
  WireCap,       \* frames a connection holds before send blocks
  MaxFrames      \* bound on the frames published

AtTail == -1           \* no from_seq in the query
NoOrder == "none"
Unresolved == 0        \* instr_opt.unwrap_or(0)
Channels == Instruments \cup {Unresolved}

ASSUME BusAssumption ==
  /\ Capacity \in Nat \ {0} /\ WireCap \in Nat \ {0} /\ MaxFrames \in Nat
  /\ Instruments \subseteq Nat \ {0}
  /\ FromSeqs \subseteq Nat \cup {AtTail}
  /\ ConsumeTrades \in BOOLEAN
  /\ NoOrder \notin Orders

VARIABLES
  buf,            \* Ring::buf, oldest first
  next_global,    \* Ring::next_global
  per_instr_seq,  \* next number of each instrument
  index,          \* the book's index: instrument of each live order, or Unresolved
  dpc,            \* decode thread: "apply", "publish", "notify"
  frame,          \* the frame it is publishing
  spc,            \* a session: "new", "recv", "wait", "send", "gap", "closed"
  cursor,         \* Subscription::next_global
  held,           \* the frame the session is about to send
  wire,           \* frames sent on the connection and not yet read
  published,      \* history: every frame published, in global order
  start,          \* history: the cursor a session began with
  sent,           \* history: the bus frames a session has sent
  gap             \* the range of the GAP frame, <<>> while there is none

busVars == <<buf, next_global, per_instr_seq, published>>
decodeVars == <<index, dpc, frame>>
sessionVars == <<spc, cursor, held, wire, start, sent, gap>>
vars == <<busVars, decodeVars, sessionVars>>

NoFrame == [order |-> NoOrder, instr |-> Unresolved, seq |-> 0]
Frames == [order : Orders \cup {NoOrder}, instr : Channels, seq : Nat]

Init ==
  /\ buf = <<>> /\ next_global = 0 /\ published = <<>>
  /\ per_instr_seq = [i \in Channels |-> 1]
  /\ index = [o \in Orders |-> Unresolved]
  /\ dpc = "apply" /\ frame = NoFrame
  /\ spc = [c \in Sessions |-> "new"]
  /\ cursor = [c \in Sessions |-> 0]
  /\ start = [c \in Sessions |-> 0]
  /\ sent = [c \in Sessions |-> <<>>]
  /\ held = [c \in Sessions |-> NoFrame]
  /\ wire = [c \in Sessions |-> <<>>]
  /\ gap = [c \in Sessions |-> <<>>]

----------------------------------------------------------------------------
(***************************************************************************)
(* Decode: book.apply(ev), then the instrument is looked up in the book as  *)
(* it is after the event, then the frame takes its sequence number.  No     *)
(* other thread touches the book or per_instr_seq.                          *)
(***************************************************************************)
\* Mutant: the instrument's counter is read but not advanced.
NumberUnadvanced(o, i) ==
  /\ frame' = [order |-> o, instr |-> i, seq |-> per_instr_seq[i]]
  /\ dpc' = "publish"
  /\ UNCHANGED per_instr_seq

Number(o, i) ==
  /\ frame' = [order |-> o, instr |-> i, seq |-> per_instr_seq[i]]
  /\ per_instr_seq' = [per_instr_seq EXCEPT ![i] = @ + 1]
  /\ dpc' = "publish"

Deciding ==
  /\ dpc = "apply" /\ Len(published) < MaxFrames
  /\ UNCHANGED <<buf, next_global, published, sessionVars>>

Drop(o) == index' = [index EXCEPT ![o] = Unresolved]

\* The venue numbers its orders: an id is not added while it is live.
AddEvent(o, i) ==
  /\ Deciding /\ index[o] = Unresolved
  /\ index' = [index EXCEPT ![o] = i]
  /\ Number(o, i)

\* Mod with a positive quantity; an unknown order is published unresolved.
ModEvent(o) ==
  /\ Deciding
  /\ Number(o, index[o])
  /\ UNCHANGED index

\* Del, or Mod with a quantity of zero: the order leaves the index first.
DelEvent(o) ==
  /\ Deciding
  /\ Drop(o)
  /\ Number(o, index'[o])

\* Trade with a maker of that instrument; with consume_trades it may use the order up.
TradeEvent(o, i) ==
  /\ Deciding /\ index[o] \in {i, Unresolved}
  /\ Drop(o) \/ UNCHANGED index
  /\ ~ConsumeTrades => UNCHANGED index
  /\ Number(o, i)

\* publish_raw, under the ring's lock.
Publish ==
  /\ dpc = "publish"
  /\ next_global' = next_global + 1
  /\ buf' = Append(IF Len(buf) = Capacity THEN SubSeq(buf, 2, Len(buf)) ELSE buf, frame)
  /\ published' = Append(published, frame)
  /\ dpc' = "notify"
  /\ UNCHANGED <<per_instr_seq, index, frame, sessionVars>>

\* Mutant: notify_one.
NotifyOne ==
  /\ dpc = "notify"
  /\ dpc' = "apply"
  /\ \/ \E c \in Sessions : spc[c] = "wait" /\ spc' = [spc EXCEPT ![c] = "recv"]
     \/ (\A c \in Sessions : spc[c] # "wait") /\ UNCHANGED spc
  /\ UNCHANGED <<busVars, index, frame, cursor, held, wire, start, sent, gap>>

\* notify_all, after the lock is dropped.
Notify ==
  /\ dpc = "notify"
  /\ dpc' = "apply"
  /\ spc' = [c \in Sessions |-> IF spc[c] = "wait" THEN "recv" ELSE spc[c]]
  /\ UNCHANGED <<busVars, index, frame, cursor, held, wire, start, sent, gap>>

----------------------------------------------------------------------------
(***************************************************************************)
(* A session.  recv_next_blocking runs under the ring's lock and gives it   *)
(* up atomically when it waits.                                             *)
(***************************************************************************)
Oldest == next_global - Len(buf)
NothingNew(c) == buf = <<>> \/ cursor[c] >= next_global
Move(c, from, to) == spc[c] = from /\ spc' = [spc EXCEPT ![c] = to]

\* Mutant: a missing from_seq is not replaced by the tail.
SubscribeRaw(c, from) ==
  /\ Move(c, "new", "recv")
  /\ cursor' = [cursor EXCEPT ![c] = from]
  /\ start' = [start EXCEPT ![c] = cursor'[c]]
  /\ UNCHANGED <<busVars, decodeVars, held, wire, sent, gap>>

Subscribe(c, from) ==
  /\ Move(c, "new", "recv")
  /\ cursor' = [cursor EXCEPT ![c] = IF from = AtTail THEN next_global ELSE from]
  /\ start' = [start EXCEPT ![c] = cursor'[c]]
  /\ UNCHANGED <<busVars, decodeVars, held, wire, sent, gap>>

RecvWait(c) ==
  /\ NothingNew(c)
  /\ Move(c, "recv", "wait")
  /\ UNCHANGED <<busVars, decodeVars, cursor, held, wire, start, sent, gap>>

SpuriousWake(c) ==
  /\ Move(c, "wait", "recv")
  /\ UNCHANGED <<busVars, decodeVars, cursor, held, wire, start, sent, gap>>

\* Mutant: the range includes the oldest frame still held.
RecvGapInclusive(c) ==
  /\ ~NothingNew(c) /\ cursor[c] < Oldest
  /\ Move(c, "recv", "gap")
  /\ gap' = [gap EXCEPT ![c] = <<cursor[c], Oldest>>]
  /\ UNCHANGED <<busVars, decodeVars, cursor, held, wire, start, sent>>

RecvGap(c) ==
  /\ ~NothingNew(c) /\ cursor[c] < Oldest
  /\ Move(c, "recv", "gap")
  /\ gap' = [gap EXCEPT ![c] = <<cursor[c], Oldest - 1>>]
  /\ UNCHANGED <<busVars, decodeVars, cursor, held, wire, start, sent>>

\* Mutant: a session that fell behind is given the oldest frame held.
RecvFrameClamped(c) ==
  /\ ~NothingNew(c)
  /\ Move(c, "recv", "send")
  /\ held' = [held EXCEPT ![c] = buf[IF cursor[c] < Oldest THEN 1 ELSE cursor[c] - Oldest + 1]]
  /\ cursor' = [cursor EXCEPT ![c] = @ + 1]
  /\ UNCHANGED <<busVars, decodeVars, wire, start, sent, gap>>

\* The offset lies inside buf, so the second Gap return of the code is not taken.
RecvFrame(c) ==
  /\ ~NothingNew(c) /\ cursor[c] >= Oldest
  /\ Move(c, "recv", "send")
  /\ held' = [held EXCEPT ![c] = buf[cursor[c] - Oldest + 1]]
  /\ cursor' = [cursor EXCEPT ![c] = @ + 1]
  /\ UNCHANGED <<busVars, decodeVars, wire, start, sent, gap>>

Send(c) ==
  /\ Len(wire[c]) < WireCap
  /\ Move(c, "send", "recv")
  /\ wire' = [wire EXCEPT ![c] = Append(@, held[c])]
  /\ sent' = [sent EXCEPT ![c] = Append(@, held[c])]
  /\ UNCHANGED <<busVars, decodeVars, cursor, held, start, gap>>

\* The GAP control frame carries instrument 0 and sequence 0; then the server closes.
SendGap(c) ==
  /\ Len(wire[c]) < WireCap
  /\ Move(c, "gap", "closed")
  /\ wire' = [wire EXCEPT ![c] = Append(@, NoFrame)]
  /\ UNCHANGED <<busVars, decodeVars, cursor, held, start, sent, gap>>

\* The peer is gone: send fails, the thread ends, what was in flight is lost.
SendFails(c) ==
  /\ spc[c] \in {"send", "gap"}
  /\ spc' = [spc EXCEPT ![c] = "closed"]
  /\ wire' = [wire EXCEPT ![c] = <<>>]
  /\ UNCHANGED <<busVars, decodeVars, cursor, held, start, sent, gap>>

\* The peer reads.
Read(c) ==
  /\ wire[c] # <<>>
  /\ wire' = [wire EXCEPT ![c] = Tail(@)]
  /\ UNCHANGED <<busVars, decodeVars, spc, cursor, held, start, sent, gap>>

Decode ==
  \/ \E o \in Orders : ModEvent(o) \/ DelEvent(o)
  \/ \E o \in Orders, i \in Instruments : AddEvent(o, i) \/ TradeEvent(o, i)
Receive(c) == RecvWait(c) \/ RecvGap(c) \/ RecvFrame(c)
Transmit(c) == Send(c) \/ SendGap(c)
Serve ==
  \/ Decode \/ Publish \/ Notify
  \/ \E c \in Sessions :
       \/ Receive(c) \/ Transmit(c) \/ SpuriousWake(c) \/ SendFails(c)
       \/ \E from \in FromSeqs : Subscribe(c, from)

Next == Serve \/ \E c \in Sessions : Read(c)
Spec == Init /\ [][Next]_vars

\* The decode thread finishes a publication it began, a session thread runs when it
\* is not waiting, and a connected peer keeps reading.
FairSpec ==
  /\ Spec
  /\ WF_vars(Publish) /\ WF_vars(Notify)
  /\ \A c \in Sessions : WF_vars(Receive(c)) /\ WF_vars(Transmit(c)) /\ WF_vars(Read(c))

----------------------------------------------------------------------------
TypeOK ==
  /\ buf \in Seq(Frames) /\ published \in Seq(Frames)
  /\ next_global \in Nat
  /\ per_instr_seq \in [Channels -> Nat]
  /\ index \in [Orders -> Channels]
  /\ dpc \in {"apply", "publish", "notify"} /\ frame \in Frames
  /\ spc \in [Sessions -> {"new", "recv", "wait", "send", "gap", "closed"}]
  /\ cursor \in [Sessions -> Nat] /\ start \in [Sessions -> Nat]
  /\ held \in [Sessions -> Frames]
  /\ wire \in [Sessions -> Seq(Frames)] /\ sent \in [Sessions -> Seq(Frames)]
  /\ gap \in [Sessions -> Seq(Nat)]

\* Where the frames of instrument i are among the first n of fs.
FramesOf(fs, i, n) == {k \in 1 .. n : fs[k].instr = i}

\* The frames of an instrument are numbered 1, 2, 3, ... in the order they are
\* published, although a frame takes its number in one step and its place in another.
InstrumentNumbered ==
  \A k \in 1 .. Len(published) :
    published[k].seq = Cardinality(FramesOf(published, published[k].instr, k))

\* A session sends a contiguous run of the published frames, beginning at its cursor:
\* eviction by a fast publisher never makes recv_next_blocking skip or repeat one.
NoSilentLoss ==
  \A c \in Sessions :
    sent[c] = SubSeq(published, start[c] + 1, start[c] + Len(sent[c]))

\* The range of a GAP frame begins right after the last frame sent, is not empty, and
\* holds only frames that were published and are evicted.
GapExact ==
  \A c \in Sessions : gap[c] # <<>> =>
    /\ gap[c][1] = start[c] + Len(sent[c])
    /\ gap[c][1] <= gap[c][2] /\ gap[c][2] < Oldest

\* No wake-up is lost: a session with something to receive does not wait forever,
\* although notify_all is called after the lock is dropped.
SessionAdvances ==
  \A c \in Sessions :
    (spc[c] \in {"recv", "wait"} /\ cursor[c] < next_global) ~> (spc[c] \notin {"recv", "wait"})
=============================================================================
