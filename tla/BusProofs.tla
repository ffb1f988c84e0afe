----------------------------- MODULE BusProofs -----------------------------
(***************************************************************************)
(* Proofs about the bus: for every capacity and any number of sessions, a   *)
(* session sends a contiguous run of the published frames, and the range of *)
(* a GAP frame is exact.  The inductive invariant says that the ring holds  *)
(* the newest frames (RingInv) and where each session stands in the history *)
(* (SessionOK).                                                             *)
(***************************************************************************)
EXTENDS Bus, SequenceTheorems, FiniteSetTheorems, TLAPS

\* The ring holds the newest of the published frames, in order.
RingInv ==
  /\ next_global = Len(published) /\ Len(buf) <= Len(published)
  /\ \A k \in 1 .. Len(buf) : buf[k] = published[Len(published) - Len(buf) + k]

\* What session c has sent is the run of published frames that began at its cursor; the
\* cursor is one ahead while a frame is held.
SessionOK(c) ==
  /\ spc[c] \in {"new", "recv", "wait", "gap"} => cursor[c] = start[c] + Len(sent[c])
  /\ spc[c] = "send" => /\ cursor[c] = start[c] + Len(sent[c]) + 1
                        /\ cursor[c] <= Len(published) /\ held[c] = published[cursor[c]]
  /\ spc[c] = "new" => sent[c] = <<>>
  /\ Len(sent[c]) > 0 => start[c] + Len(sent[c]) <= Len(published)
  /\ \A k \in 1 .. Len(sent[c]) : sent[c][k] = published[start[c] + k]
  /\ gap[c] # <<>> => /\ spc[c] \in {"gap", "closed"}
                      /\ gap[c][1] = start[c] + Len(sent[c]) /\ gap[c][2] \in Nat
                      /\ gap[c][1] <= gap[c][2] /\ gap[c][2] < Oldest

BusInv == TypeOK /\ RingInv /\ \A c \in Sessions : SessionOK(c)

----------------------------------------------------------------------------
(***************************************************************************)
(* Types.                                                                   *)
(***************************************************************************)
LEMMA FrameType ==
  ASSUME TypeOK, NEW o \in Orders, NEW i \in Channels, Number(o, i)
  PROVE  frame' \in Frames /\ per_instr_seq' \in [Channels -> Nat] /\ dpc' = "publish"
<1>1. per_instr_seq[i] \in Nat
  BY DEF TypeOK
<1>2. frame' \in Frames
  BY <1>1 DEF Number, Frames
<1>3. per_instr_seq' \in [Channels -> Nat]
  BY <1>1 DEF Number, TypeOK
<1>. QED
  BY <1>2, <1>3 DEF Number

LEMMA DecodeType ==
  ASSUME TypeOK, Decode
  PROVE  /\ frame' \in Frames /\ per_instr_seq' \in [Channels -> Nat] /\ dpc' = "publish"
         /\ index' \in [Orders -> Channels]
         /\ UNCHANGED <<buf, next_global, published, sessionVars>>
<1>0. index \in [Orders -> Channels] /\ Unresolved \in Channels /\ Instruments \subseteq Channels
  BY DEF TypeOK, Channels
<1>1. ASSUME NEW o \in Orders, ModEvent(o) PROVE
        \E i \in Channels : Number(o, i) /\ index' \in [Orders -> Channels] /\ Deciding
  BY <1>0, <1>1 DEF ModEvent
<1>2. ASSUME NEW o \in Orders, DelEvent(o) PROVE
        \E i \in Channels : Number(o, i) /\ index' \in [Orders -> Channels] /\ Deciding
  <2>1. index' \in [Orders -> Channels]
    BY <1>0, <1>2 DEF DelEvent, Drop
  <2>. QED
    BY <1>2, <2>1 DEF DelEvent
<1>3. ASSUME NEW o \in Orders, NEW i \in Instruments, AddEvent(o, i) PROVE
        i \in Channels /\ Number(o, i) /\ index' \in [Orders -> Channels] /\ Deciding
  BY <1>0, <1>3 DEF AddEvent
<1>4. ASSUME NEW o \in Orders, NEW i \in Instruments, TradeEvent(o, i) PROVE
        i \in Channels /\ Number(o, i) /\ index' \in [Orders -> Channels] /\ Deciding
  BY <1>0, <1>4 DEF TradeEvent, Drop
<1>5. \E o \in Orders, i \in Channels :
        Number(o, i) /\ index' \in [Orders -> Channels] /\ Deciding
  BY <1>1, <1>2, <1>3, <1>4 DEF Decode
<1>. QED
  BY <1>5, FrameType DEF Deciding

\* What pop_front leaves.
LEMMA SubSeqTail ==
  ASSUME NEW S, NEW s \in Seq(S), Len(s) > 0
  PROVE  /\ SubSeq(s, 2, Len(s)) \in Seq(S) /\ Len(SubSeq(s, 2, Len(s))) = Len(s) - 1
         /\ \A k \in 1 .. Len(s) - 1 : SubSeq(s, 2, Len(s))[k] = s[k + 1]
<1>1. SubSeq(s, 2, Len(s)) \in Seq(S)
  BY SubSeqProperties
<1>2. \A k \in 1 .. Len(s) - 1 : SubSeq(s, 2, Len(s))[k] = s[k + 1]
  OBVIOUS
<1>3. Len(SubSeq(s, 2, Len(s))) = IF 2 <= Len(s) THEN Len(s) - 2 + 1 ELSE 0
  BY SubSeqProperties
<1>4. Len(SubSeq(s, 2, Len(s))) = Len(s) - 1
  <2> DEFINE m == Len(SubSeq(s, 2, Len(s)))
             n == Len(s)
  <2>1. n \in Nat /\ n > 0 /\ m = IF 2 <= n THEN n - 2 + 1 ELSE 0
    BY <1>3
  <2> HIDE DEF m, n
  <2>2. m = n - 1
    BY <2>1
  <2>. QED
    BY <2>2 DEF m, n
<1>. QED
  BY <1>1, <1>2, <1>4

\* Appending to the ring, from which the oldest frame is evicted when it is full.
LEMMA PublishRing ==
  ASSUME TypeOK, Publish
  PROVE  /\ buf' \in Seq(Frames) /\ published' \in Seq(Frames)
         /\ Len(published') = Len(published) + 1 /\ published'[Len(published) + 1] = frame
         /\ \A k \in 1 .. Len(published) : published'[k] = published[k]
         /\ Len(buf') \in {Len(buf), Len(buf) + 1} /\ Len(buf') > 0
         /\ buf'[Len(buf')] = frame
         /\ \A k \in 1 .. Len(buf') - 1 : buf'[k] = buf[Len(buf) + 1 - Len(buf') + k]
<1>0. buf \in Seq(Frames) /\ published \in Seq(Frames) /\ frame \in Frames
  BY DEF TypeOK
<1>1. /\ published' \in Seq(Frames)
      /\ Len(published') = Len(published) + 1 /\ published'[Len(published) + 1] = frame
      /\ \A k \in 1 .. Len(published) : published'[k] = published[k]
  BY <1>0 DEF Publish
<1>2. CASE Len(buf) = Capacity
  <2> DEFINE b == SubSeq(buf, 2, Len(buf))
  <2>1. Len(buf) \in Nat /\ Len(buf) > 0
    BY <1>0, <1>2, BusAssumption
  <2>2. b \in Seq(Frames) /\ Len(b) = Len(buf) - 1 /\ \A k \in 1 .. Len(b) : b[k] = buf[k + 1]
    BY <1>0, <2>1, SubSeqTail
  <2>3. buf' = Append(b, frame)
    BY <1>2 DEF Publish
  <2> HIDE DEF b
  <2>4. /\ buf' \in Seq(Frames) /\ Len(buf') = Len(buf) /\ buf'[Len(buf)] = frame
        /\ \A k \in 1 .. Len(buf) - 1 : buf'[k] = buf[k + 1]
    BY <1>0, <2>1, <2>2, <2>3
  <2>. QED
    BY <1>1, <2>1, <2>4
<1>3. CASE Len(buf) # Capacity
  <2>1. buf' = Append(buf, frame)
    BY <1>3 DEF Publish
  <2>. QED
    BY <1>0, <1>1, <2>1
<1>. QED
  BY <1>2, <1>3

LEMMA BusTypeStep == BusInv /\ [Next]_vars => TypeOK'
<1> SUFFICES ASSUME BusInv, [Next]_vars PROVE TypeOK'
  OBVIOUS
<1>0. TypeOK
  BY DEF BusInv
<1>1. CASE Decode
  BY <1>0, <1>1, DecodeType DEF TypeOK, sessionVars
<1>2. CASE Publish
  <2>1. next_global' \in Nat
    BY <1>0, <1>2 DEF TypeOK, Publish
  <2>. QED
    BY <1>0, <1>2, <2>1, PublishRing DEF TypeOK, Publish, sessionVars
<1>3. CASE Notify
  <2>1. spc' \in [Sessions -> {"new", "recv", "wait", "send", "gap", "closed"}]
    BY <1>0, <1>3 DEF TypeOK, Notify
  <2>. QED
    BY <1>0, <1>3, <2>1 DEF TypeOK, Notify, busVars
<1>4. ASSUME NEW c \in Sessions, RecvWait(c) \/ SpuriousWake(c) PROVE TypeOK'
  <2>1. spc' \in [Sessions -> {"new", "recv", "wait", "send", "gap", "closed"}]
    BY Zenon, <1>0, <1>4 DEF TypeOK, RecvWait, SpuriousWake, Move
  <2>. QED
    BY <1>0, <1>4, <2>1 DEF TypeOK, RecvWait, SpuriousWake, busVars, decodeVars
<1>5. ASSUME NEW c \in Sessions, RecvGap(c) PROVE TypeOK'
  <2>1. spc' \in [Sessions -> {"new", "recv", "wait", "send", "gap", "closed"}]
    BY <1>0, <1>5 DEF TypeOK, RecvGap, Move
  <2>2. cursor[c] \in Nat /\ Oldest - 1 \in Nat
    BY <1>0, <1>5 DEF TypeOK, RecvGap, Oldest
  <2>3. <<cursor[c], Oldest - 1>> \in Seq(Nat)
    BY <2>2
  <2>4. gap' \in [Sessions -> Seq(Nat)]
    BY <1>0, <1>5, <2>3 DEF TypeOK, RecvGap
  <2>. QED
    BY <1>0, <1>5, <2>1, <2>4 DEF TypeOK, RecvGap, busVars, decodeVars
<1>6. ASSUME NEW c \in Sessions, RecvFrame(c) PROVE TypeOK'
  <2>1. spc' \in [Sessions -> {"new", "recv", "wait", "send", "gap", "closed"}]
    BY <1>0, <1>6 DEF TypeOK, RecvFrame, Move
  <2>2. cursor' \in [Sessions -> Nat]
    BY <1>0, <1>6 DEF TypeOK, RecvFrame
  <2>3. cursor[c] - Oldest + 1 \in 1 .. Len(buf)
    BY <1>0, <1>6 DEF TypeOK, RecvFrame, NothingNew, Oldest
  <2>4. held' \in [Sessions -> Frames]
    BY <1>0, <1>6, <2>3 DEF TypeOK, RecvFrame
  <2>. QED
    BY <1>0, <1>6, <2>1, <2>2, <2>4 DEF TypeOK, RecvFrame, busVars, decodeVars
<1>7. ASSUME NEW c \in Sessions, Send(c) PROVE TypeOK'
  <2>1. spc' \in [Sessions -> {"new", "recv", "wait", "send", "gap", "closed"}]
    BY <1>0, <1>7 DEF TypeOK, Send, Move
  <2>2. Append(wire[c], held[c]) \in Seq(Frames) /\ Append(sent[c], held[c]) \in Seq(Frames)
    BY <1>0 DEF TypeOK
  <2>3. wire' \in [Sessions -> Seq(Frames)] /\ sent' \in [Sessions -> Seq(Frames)]
    BY <1>0, <1>7, <2>2 DEF TypeOK, Send
  <2>. QED
    BY <1>0, <1>7, <2>1, <2>3 DEF TypeOK, Send, busVars, decodeVars
<1>8. ASSUME NEW c \in Sessions, SendGap(c) PROVE TypeOK'
  <2>1. spc' \in [Sessions -> {"new", "recv", "wait", "send", "gap", "closed"}]
    BY <1>0, <1>8 DEF TypeOK, SendGap, Move
  <2>2. NoFrame \in Frames
    BY DEF NoFrame, Frames, Channels
  <2>3. Append(wire[c], NoFrame) \in Seq(Frames)
    BY <1>0, <2>2 DEF TypeOK
  <2>4. wire' \in [Sessions -> Seq(Frames)]
    BY <1>0, <1>8, <2>3 DEF TypeOK, SendGap
  <2>. QED
    BY <1>0, <1>8, <2>1, <2>4 DEF TypeOK, SendGap, busVars, decodeVars
<1>9. ASSUME NEW c \in Sessions, SendFails(c) PROVE TypeOK'
  <2>1. spc' \in [Sessions -> {"new", "recv", "wait", "send", "gap", "closed"}]
    BY <1>0, <1>9 DEF TypeOK, SendFails
  <2>2. wire' \in [Sessions -> Seq(Frames)]
    BY <1>0, <1>9 DEF TypeOK, SendFails
  <2>. QED
    BY <1>0, <1>9, <2>1, <2>2 DEF TypeOK, SendFails, busVars, decodeVars
<1>10. ASSUME NEW c \in Sessions, NEW from \in FromSeqs, Subscribe(c, from) PROVE TypeOK'
  <2>1. spc' \in [Sessions -> {"new", "recv", "wait", "send", "gap", "closed"}]
    BY <1>0, <1>10 DEF TypeOK, Subscribe, Move
  <2>2. cursor' \in [Sessions -> Nat]
    BY <1>0, <1>10, BusAssumption DEF TypeOK, Subscribe, AtTail
  <2>3. start' \in [Sessions -> Nat]
    BY <1>0, <1>10, <2>2 DEF TypeOK, Subscribe
  <2>. QED
    BY <1>0, <1>10, <2>1, <2>2, <2>3 DEF TypeOK, Subscribe, busVars, decodeVars
<1>11. ASSUME NEW c \in Sessions, Read(c) PROVE TypeOK'
  <2>1. wire[c] \in Seq(Frames) /\ wire[c] # <<>>
    BY <1>0, <1>11 DEF TypeOK, Read
  <2>2. Tail(wire[c]) \in Seq(Frames)
    BY <2>1
  <2>3. wire' \in [Sessions -> Seq(Frames)]
    BY <1>0, <1>11, <2>2 DEF TypeOK, Read
  <2>. QED
    BY <1>0, <1>11, <2>3 DEF TypeOK, Read, busVars, decodeVars
<1>12. CASE UNCHANGED vars
  BY <1>0, <1>12 DEF TypeOK, vars, busVars, decodeVars, sessionVars
<1>. QED
  BY <1>1, <1>2, <1>3, <1>4, <1>5, <1>6, <1>7, <1>8, <1>9, <1>10, <1>11, <1>12
  DEF Next, Serve, Receive, Transmit

----------------------------------------------------------------------------
(***************************************************************************)
(* The ring and the history.                                                *)
(***************************************************************************)
\* The history is only extended, and an evicted frame stays evicted.
Extended ==
  /\ Len(published') >= Len(published) /\ Oldest' >= Oldest
  /\ \A k \in 1 .. Len(published) : published'[k] = published[k]

LEMMA OnlyPublish == [Next]_vars => Publish \/ UNCHANGED <<buf, next_global, published>>
BY DecodeType DEF Next, Serve, Decode, ModEvent, DelEvent, AddEvent, TradeEvent, Deciding, Notify,
   Receive, Transmit, RecvWait, RecvGap, RecvFrame, Send, SendGap, SendFails, SpuriousWake,
   Subscribe, Read, vars, busVars

LEMMA RingStep == BusInv /\ [Next]_vars => RingInv' /\ Extended
<1> SUFFICES ASSUME BusInv, [Next]_vars PROVE RingInv' /\ Extended
  OBVIOUS
<1>0. TypeOK /\ RingInv /\ Len(buf) \in Nat /\ Len(published) \in Nat
  BY DEF BusInv, TypeOK
<1>1. CASE Publish
  <2> DEFINE n == Len(published)
             b == Len(buf)
             b1 == Len(buf')
  <2>1. /\ Len(published') = n + 1 /\ published'[n + 1] = frame
        /\ \A k \in 1 .. n : published'[k] = published[k]
        /\ b1 \in {b, b + 1} /\ b1 > 0 /\ buf'[b1] = frame
        /\ \A k \in 1 .. b1 - 1 : buf'[k] = buf[b + 1 - b1 + k]
    BY <1>0, <1>1, PublishRing
  <2>2. next_global = n /\ next_global' = n + 1 /\ b <= n
    BY <1>0, <1>1 DEF Publish, RingInv
  <2>3. \A k \in 1 .. b : buf[k] = published[n - b + k]
    BY <1>0 DEF RingInv
  <2>4. b \in Nat /\ n \in Nat
    BY <1>0
  <2>5. Extended
    BY <2>1, <2>2, <2>4 DEF Extended, Oldest
  <2>6. ASSUME NEW k \in 1 .. b1 PROVE buf'[k] = published'[(n + 1) - b1 + k]
    <3> HIDE DEF n, b, b1
    <3>1. CASE k = b1
      <4>1. (n + 1) - b1 + k = n + 1
        BY <2>1, <2>4, <3>1
      <4>. QED
        BY <2>1, <3>1, <4>1
    <3>2. CASE k # b1
      <4>1. k \in 1 .. b1 - 1 /\ b + 1 - b1 + k \in 1 .. b
        BY <2>1, <2>4, <3>2
      <4>2. n - b + (b + 1 - b1 + k) = (n + 1) - b1 + k /\ (n + 1) - b1 + k \in 1 .. n
        BY <2>1, <2>2, <2>4, <4>1
      <4>3. buf'[k] = published[(n + 1) - b1 + k]
        BY <2>1, <2>3, <4>1, <4>2
      <4>. QED
        BY <2>1, <4>2, <4>3
    <3>. QED
      BY <3>1, <3>2
  <2>7. b1 <= n + 1
    BY <2>1, <2>2, <2>4
  <2>. QED
    BY <2>1, <2>2, <2>5, <2>6, <2>7 DEF RingInv
<1>2. CASE UNCHANGED <<buf, next_global, published>>
  BY <1>0, <1>2 DEF RingInv, Extended, Oldest, TypeOK
<1>. QED
  BY <1>1, <1>2, OnlyPublish

----------------------------------------------------------------------------
(***************************************************************************)
(* The sessions.                                                            *)
(***************************************************************************)
\* A session that at most wakes up, goes to wait or is closed.
Rests(c) ==
  /\ cursor'[c] = cursor[c] /\ held'[c] = held[c] /\ start'[c] = start[c]
  /\ sent'[c] = sent[c] /\ gap'[c] = gap[c]
  /\ \/ spc'[c] = spc[c]
     \/ spc[c] \in {"recv", "wait"} /\ spc'[c] \in {"recv", "wait"}
     \/ spc'[c] = "closed"

LEMMA RestKeeps ==
  ASSUME TypeOK, TypeOK', NEW c \in Sessions, SessionOK(c), Extended, Rests(c)
  PROVE  SessionOK(c)'
<1>a. sent[c] \in Seq(Frames) /\ published \in Seq(Frames) /\ published' \in Seq(Frames)
  BY DEF TypeOK
<1>b. cursor[c] \in Nat /\ start[c] \in Nat /\ Oldest \in Int /\ Oldest' \in Int
  <2>1. next_global' \in Nat /\ buf' \in Seq(Frames)
    BY DEF TypeOK
  <2>2. Oldest' \in Int
    BY <2>1 DEF Oldest
  <2>. QED
    BY <2>2 DEF TypeOK, Oldest
<1>c. /\ Len(published') >= Len(published) /\ Oldest' >= Oldest
      /\ \A k \in 1 .. Len(published) : published'[k] = published[k]
  BY DEF Extended
<1>0. /\ Len(sent[c]) \in Nat /\ cursor[c] \in Nat /\ start[c] \in Nat
      /\ Len(published) \in Nat /\ Len(published') \in Nat /\ Len(published') >= Len(published)
      /\ \A k \in 1 .. Len(published) : published'[k] = published[k]
  BY <1>a, <1>b, <1>c
<1>1. /\ cursor'[c] = cursor[c] /\ held'[c] = held[c] /\ start'[c] = start[c]
      /\ sent'[c] = sent[c] /\ gap'[c] = gap[c]
  BY DEF Rests
<1>2. spc'[c] \in {"new", "recv", "wait", "gap"} => cursor'[c] = start'[c] + Len(sent'[c])
  BY <1>1 DEF Rests, SessionOK
<1>3. spc'[c] = "send" => /\ cursor'[c] = start'[c] + Len(sent'[c]) + 1
                          /\ cursor'[c] <= Len(published') /\ held'[c] = published'[cursor'[c]]
  <2> SUFFICES ASSUME spc'[c] = "send"
               PROVE  /\ cursor[c] = start[c] + Len(sent[c]) + 1
                      /\ cursor[c] <= Len(published') /\ held[c] = published'[cursor[c]]
    BY <1>1
  <2>1. /\ cursor[c] = start[c] + Len(sent[c]) + 1
        /\ cursor[c] <= Len(published) /\ held[c] = published[cursor[c]]
    BY DEF Rests, SessionOK
  <2>2. cursor[c] \in 1 .. Len(published)
    BY <1>0, <2>1
  <2>. QED
    BY <1>0, <2>1, <2>2
<1>4. spc'[c] = "new" => sent'[c] = <<>>
  BY <1>1 DEF Rests, SessionOK
<1>5. /\ Len(sent'[c]) > 0 => start'[c] + Len(sent'[c]) <= Len(published')
      /\ \A k \in 1 .. Len(sent'[c]) : sent'[c][k] = published'[start'[c] + k]
  <2> SUFFICES ASSUME NEW k \in 1 .. Len(sent[c])
               PROVE  /\ start[c] + Len(sent[c]) <= Len(published')
                      /\ sent[c][k] = published'[start[c] + k]
    BY <1>0, <1>1
  <2>1. start[c] + Len(sent[c]) <= Len(published) /\ sent[c][k] = published[start[c] + k]
    BY <1>0 DEF SessionOK
  <2>2. start[c] + k \in 1 .. Len(published)
    BY <1>0, <2>1
  <2>. QED
    BY <1>0, <2>1, <2>2
<1>6. gap'[c] # <<>> => /\ spc'[c] \in {"gap", "closed"}
                        /\ gap'[c][1] = start'[c] + Len(sent'[c]) /\ gap'[c][2] \in Nat
                        /\ gap'[c][1] <= gap'[c][2] /\ gap'[c][2] < Oldest'
  <2> SUFFICES ASSUME gap[c] # <<>>
               PROVE  /\ spc'[c] \in {"gap", "closed"} /\ gap[c][1] = start[c] + Len(sent[c])
                      /\ gap[c][2] \in Nat /\ gap[c][1] <= gap[c][2] /\ gap[c][2] < Oldest'
    BY <1>1
  <2>1. /\ spc'[c] \in {"gap", "closed"} /\ gap[c][1] = start[c] + Len(sent[c])
        /\ gap[c][2] \in Nat /\ gap[c][1] <= gap[c][2] /\ gap[c][2] < Oldest
    BY DEF Rests, SessionOK
  <2>. QED
    BY <1>b, <1>c, <2>1
<1>. QED
  BY <1>2, <1>3, <1>4, <1>5, <1>6 DEF SessionOK

\* Every step but the one of session c itself leaves it at rest.
LEMMA OthersRest ==
  ASSUME TypeOK, NEW c \in Sessions, [Next]_vars
  PROVE  \/ Rests(c) \/ RecvGap(c) \/ RecvFrame(c) \/ Send(c)
         \/ \E from \in FromSeqs : Subscribe(c, from)
<1>0. spc \in [Sessions -> {"new", "recv", "wait", "send", "gap", "closed"}]
  BY DEF TypeOK
<1>1. CASE Decode \/ Publish \/ UNCHANGED vars
  BY <1>1, DecodeType DEF Rests, Publish, sessionVars, vars
<1>2. CASE Notify
  BY <1>0, <1>2 DEF Rests, Notify
<1>3. ASSUME NEW d \in Sessions, RecvWait(d) \/ SpuriousWake(d) \/ SendGap(d) \/ SendFails(d) \/ Read(d)
      PROVE  Rests(c)
  BY <1>0, <1>3 DEF Rests, RecvWait, SpuriousWake, SendGap, SendFails, Read, Move
<1>4. ASSUME NEW d \in Sessions, d # c, RecvGap(d) \/ RecvFrame(d) \/ Send(d)
      PROVE  Rests(c)
  BY <1>0, <1>4 DEF TypeOK, Rests, RecvGap, RecvFrame, Send, Move
<1>5. ASSUME NEW d \in Sessions, d # c, NEW from \in FromSeqs, Subscribe(d, from)
      PROVE  Rests(c)
  BY <1>0, <1>5 DEF TypeOK, Rests, Subscribe, Move
<1>. QED
  BY <1>1, <1>2, <1>3, <1>4, <1>5 DEF Next, Serve, Receive, Transmit

LEMMA SubscribeKeeps ==
  ASSUME TypeOK, NEW c \in Sessions, SessionOK(c), NEW from \in FromSeqs, Subscribe(c, from)
  PROVE  SessionOK(c)'
<1>1. spc'[c] = "recv" /\ start'[c] = cursor'[c] /\ cursor'[c] \in Nat
  BY BusAssumption DEF TypeOK, Subscribe, Move, AtTail
<1>2. sent'[c] = <<>> /\ gap'[c] = <<>>
  BY DEF Subscribe, Move, SessionOK
<1>. QED
  BY <1>1, <1>2 DEF SessionOK

LEMMA RecvGapKeeps ==
  ASSUME TypeOK, NEW c \in Sessions, SessionOK(c), RecvGap(c)
  PROVE  SessionOK(c)'
<1>1. /\ spc[c] = "recv" /\ spc'[c] = "gap" /\ gap'[c] = <<cursor[c], Oldest - 1>>
      /\ cursor[c] < Oldest /\ cursor[c] \in Nat /\ Oldest \in Int
  BY DEF TypeOK, RecvGap, Move, Oldest
<1>2. UNCHANGED <<cursor, held, start, sent, published, buf, next_global>>
  BY DEF RecvGap, busVars
<1>3. Oldest' = Oldest
  BY <1>2 DEF Oldest
<1>4. gap'[c][1] = cursor[c] /\ gap'[c][2] = Oldest - 1
  BY <1>1
<1>. QED
  BY <1>1, <1>2, <1>3, <1>4 DEF SessionOK

LEMMA RecvFrameKeeps ==
  ASSUME TypeOK, RingInv, NEW c \in Sessions, SessionOK(c), RecvFrame(c)
  PROVE  SessionOK(c)'
<1>1. /\ spc[c] = "recv" /\ spc'[c] = "send" /\ cursor'[c] = cursor[c] + 1
      /\ held'[c] = buf[cursor[c] - Oldest + 1] /\ cursor[c] \in Nat
  BY DEF TypeOK, RecvFrame, Move
<1>2. UNCHANGED <<gap, start, sent, published>>
  BY DEF RecvFrame, busVars
<1>3. /\ cursor[c] - Oldest + 1 \in 1 .. Len(buf)
      /\ Len(published) - Len(buf) + (cursor[c] - Oldest + 1) = cursor[c] + 1
      /\ cursor[c] + 1 <= Len(published)
  <2>1. buf \in Seq(Frames) /\ published \in Seq(Frames) /\ next_global = Len(published)
    BY DEF TypeOK, RingInv
  <2>2. cursor[c] < next_global /\ cursor[c] >= next_global - Len(buf)
    BY <1>1, <2>1 DEF RecvFrame, NothingNew, Oldest
  <2>. QED
    BY <1>1, <2>1, <2>2 DEF Oldest
<1>4. held'[c] = published[cursor[c] + 1]
  BY <1>1, <1>3 DEF RingInv
<1>5. gap[c] = <<>>
  BY <1>1 DEF SessionOK
<1>. QED
  BY <1>1, <1>2, <1>3, <1>4, <1>5 DEF SessionOK

LEMMA SendKeeps ==
  ASSUME TypeOK, NEW c \in Sessions, SessionOK(c), Send(c)
  PROVE  SessionOK(c)'
<1>1. /\ spc[c] = "send" /\ spc'[c] = "recv" /\ sent'[c] = Append(sent[c], held[c])
      /\ sent[c] \in Seq(Frames) /\ held[c] \in Frames /\ start[c] \in Nat
  BY DEF TypeOK, Send, Move
<1>2. UNCHANGED <<cursor, gap, start, published>>
  BY DEF Send, busVars
<1>3. /\ cursor[c] = start[c] + Len(sent[c]) + 1 /\ cursor[c] <= Len(published)
      /\ held[c] = published[cursor[c]] /\ gap[c] = <<>>
  BY <1>1 DEF SessionOK
<1>4. /\ Len(sent'[c]) = Len(sent[c]) + 1 /\ Len(sent[c]) \in Nat
      /\ sent'[c][Len(sent[c]) + 1] = held[c]
      /\ \A k \in 1 .. Len(sent[c]) : sent'[c][k] = sent[c][k]
  BY <1>1
<1>5. ASSUME NEW k \in 1 .. Len(sent'[c]) PROVE sent'[c][k] = published[start[c] + k]
  <2>1. CASE k = Len(sent[c]) + 1
    <3>1. start[c] + k = cursor[c]
      BY <1>1, <1>3, <1>4, <2>1
    <3>. QED
      BY <1>3, <1>4, <2>1, <3>1
  <2>2. CASE k \in 1 .. Len(sent[c])
    BY <1>4, <2>2 DEF SessionOK
  <2>3. k \in 1 .. Len(sent[c]) \/ k = Len(sent[c]) + 1
    BY <1>4
  <2>. QED
    BY Zenon, <2>1, <2>2, <2>3
<1>6. cursor[c] = start[c] + Len(sent'[c])
  BY <1>1, <1>3, <1>4
<1>. QED
  BY <1>1, <1>2, <1>3, <1>5, <1>6 DEF SessionOK

LEMMA BusInvAlways == Spec => []BusInv
<1>1. Init => BusInv
  <2> SUFFICES ASSUME Init PROVE BusInv
    OBVIOUS
  <2>1. NoFrame \in Frames /\ Unresolved \in Channels
    BY DEF NoFrame, Frames, Channels
  <2>2. TypeOK
    BY <2>1 DEF Init, TypeOK, Unresolved
  <2>3. RingInv
    BY DEF Init, RingInv
  <2>4. \A c \in Sessions : SessionOK(c)
    BY DEF Init, SessionOK
  <2>. QED
    BY <2>2, <2>3, <2>4 DEF BusInv
<1>2. BusInv /\ [Next]_vars => BusInv'
  <2> SUFFICES ASSUME BusInv, [Next]_vars PROVE BusInv'
    OBVIOUS
  <2>1. TypeOK /\ RingInv /\ TypeOK' /\ RingInv' /\ Extended
    BY BusTypeStep, RingStep DEF BusInv
  <2>2. ASSUME NEW c \in Sessions PROVE SessionOK(c)'
    <3>1. SessionOK(c)
      BY DEF BusInv
    <3>. QED
      BY Zenon, <2>1, <3>1, OthersRest, RestKeeps, SubscribeKeeps, RecvGapKeeps, RecvFrameKeeps,
         SendKeeps
  <2>. QED
    BY <2>1, <2>2 DEF BusInv
<1>. QED
  BY <1>1, <1>2, PTL DEF Spec

\* For every ring capacity and number of sessions, a session sends a contiguous run of the
\* published frames from its cursor on, however recv_next_blocking and publish_raw interleave.
THEOREM DeliveryContiguous == Spec => []NoSilentLoss
<1>1. BusInv => NoSilentLoss
  <2> SUFFICES ASSUME BusInv, NEW c \in Sessions
               PROVE  sent[c] = SubSeq(published, start[c] + 1, start[c] + Len(sent[c]))
    BY DEF NoSilentLoss
  <2> DEFINE n == Len(sent[c])
             r == SubSeq(published, start[c] + 1, start[c] + n)
  <2>1. /\ sent[c] \in Seq(Frames) /\ published \in Seq(Frames) /\ start[c] \in Nat /\ n \in Nat
        /\ n > 0 => start[c] + n <= Len(published)
        /\ \A k \in 1 .. n : sent[c][k] = published[start[c] + k]
    BY DEF BusInv, TypeOK, SessionOK
  <2>2. CASE n = 0
    <3>1. start[c] + n < start[c] + 1
      BY <2>1, <2>2
    <3>2. r = <<>>
      BY <2>1, <3>1, SubSeqEmpty
    <3>. QED
      BY <2>1, <2>2, <3>2
  <2>3. CASE n > 0
    <3>1. \A k \in start[c] + 1 .. start[c] + n : published[k] \in Frames
      BY <2>1, <2>3
    <3>2. r \in Seq(Frames) /\ Len(r) = n
      BY <2>1, <2>3, <3>1, SubSeqProperties
    <3>3. \A k \in 1 .. n : r[k] = published[start[c] + k]
      BY <2>1, <2>3
    <3>. QED
      BY Zenon, <2>1, <3>2, <3>3, SeqEqual
  <2>. QED
    BY <2>1, <2>2, <2>3
<1>. QED
  BY <1>1, BusInvAlways, PTL

\* The range of a GAP frame begins right after the last frame sent, is not empty, and
\* holds only evicted frames, for every capacity and number of sessions.
THEOREM GapsExact == Spec => []GapExact
<1>1. BusInv => GapExact
  BY DEF BusInv, SessionOK, GapExact
<1>. QED
  BY <1>1, BusInvAlways, PTL

----------------------------------------------------------------------------
(***************************************************************************)
(* The numbers of an instrument's frames.                                   *)
(***************************************************************************)
Taken(i) == IF dpc = "publish" /\ frame.instr = i THEN 1 ELSE 0

\* An instrument's counter is one more than the frames numbered so far: those published
\* and the one the decode thread holds, which is the newest.
NumberInv ==
  /\ \A i \in Channels :
       per_instr_seq[i] = 1 + Cardinality(FramesOf(published, i, Len(published))) + Taken(i)
  /\ dpc = "publish" =>
       frame.seq = 1 + Cardinality(FramesOf(published, frame.instr, Len(published)))
  /\ InstrumentNumbered

LEMMA FramesOfFinite ==
  ASSUME NEW fs, NEW i, NEW n \in Nat
  PROVE  IsFiniteSet(FramesOf(fs, i, n)) /\ Cardinality(FramesOf(fs, i, n)) \in Nat
<1>1. IsFiniteSet(1 .. n) /\ FramesOf(fs, i, n) \subseteq 1 .. n
  BY FS_Interval DEF FramesOf
<1>. QED
  BY <1>1, FS_Subset, FS_CardinalityType

\* An event takes the next number of its instrument.
LEMMA DecodeNumbers ==
  ASSUME TypeOK, NumberInv, Decode
  PROVE  NumberInv'
<1>1. \E o \in Orders, i \in Channels : Number(o, i) /\ Deciding
  <2>1. index \in [Orders -> Channels] /\ Instruments \subseteq Channels /\ Unresolved \in Channels
    BY DEF TypeOK, Channels
  <2>2. ASSUME NEW o \in Orders, DelEvent(o) PROVE index'[o] \in Channels
    BY <2>1, <2>2 DEF DelEvent, Drop
  <2>. QED
    BY <2>1, <2>2 DEF Decode, ModEvent, DelEvent, AddEvent, TradeEvent
<1>2. PICK o \in Orders, i \in Channels : Number(o, i) /\ Deciding
  BY <1>1
<1> DEFINE n == Len(published)
           N(j) == Cardinality(FramesOf(published, j, n))
<1>3. /\ dpc = "apply" /\ dpc' = "publish" /\ published' = published
      /\ frame'.instr = i /\ frame'.seq = per_instr_seq[i]
      /\ per_instr_seq' = [per_instr_seq EXCEPT ![i] = @ + 1]
      /\ per_instr_seq \in [Channels -> Nat]
  BY <1>2 DEF Number, Deciding, TypeOK
<1>4. \A j \in Channels : per_instr_seq[j] = 1 + N(j) /\ N(j) \in Nat
  <2>1. n \in Nat
    BY DEF TypeOK
  <2>2. \A j \in Channels : Taken(j) = 0 /\ per_instr_seq[j] = 1 + N(j) + Taken(j)
    BY <1>3 DEF NumberInv, Taken
  <2>3. \A j : N(j) \in Nat
    BY <2>1, FramesOfFinite
  <2> HIDE DEF N
  <2>. QED
    BY <2>2, <2>3
<1> HIDE DEF N
<1>5. \A j \in Channels : per_instr_seq'[j] = 1 + N(j) + (IF i = j THEN 1 ELSE 0)
  BY <1>3, <1>4
<1>6. \A j \in Channels : per_instr_seq'[j] = 1 + N(j) + Taken(j)'
  BY <1>3, <1>5 DEF Taken
<1>7. frame'.seq = 1 + N(frame'.instr)
  BY <1>3, <1>4
<1>8. InstrumentNumbered'
  BY <1>3 DEF NumberInv, InstrumentNumbered
<1>. QED
  BY <1>3, <1>6, <1>7, <1>8 DEF NumberInv, N

\* The frame goes to the end of the history with the number it took.
LEMMA PublishNumbers ==
  ASSUME TypeOK, NumberInv, Publish
  PROVE  NumberInv'
<1> DEFINE n == Len(published)
           N(j) == Cardinality(FramesOf(published, j, n))
           M(j) == Cardinality(FramesOf(published', j, n + 1))
<1>1. /\ dpc = "publish" /\ dpc' = "notify" /\ UNCHANGED <<per_instr_seq, frame>>
      /\ frame \in Frames /\ n \in Nat
  BY DEF Publish, TypeOK
<1>2. /\ Len(published') = n + 1 /\ published'[n + 1] = frame
      /\ \A k \in 1 .. n : published'[k] = published[k]
  BY PublishRing
<1> HIDE DEF n
<1>3. \A k \in 1 .. n : \A j : FramesOf(published', j, k) = FramesOf(published, j, k)
  BY <1>1, <1>2 DEF FramesOf
<1>4. \A j : FramesOf(published', j, n + 1)
               = FramesOf(published, j, n) \cup (IF frame.instr = j THEN {n + 1} ELSE {})
  BY <1>1, <1>2 DEF FramesOf
<1>5. ASSUME NEW j
      PROVE  N(j) \in Nat /\ M(j) = N(j) + Taken(j)
  <2>1. IsFiniteSet(FramesOf(published, j, n)) /\ N(j) \in Nat
    BY <1>1, FramesOfFinite
  <2>2. n + 1 \notin FramesOf(published, j, n)
    BY <1>1 DEF FramesOf
  <2>3. CASE frame.instr = j
    <3>1. FramesOf(published', j, n + 1) = FramesOf(published, j, n) \cup {n + 1}
      BY <1>4, <2>3
    <3>2. M(j) = N(j) + 1
      BY <2>1, <2>2, <3>1, FS_AddElement
    <3>. QED
      BY <1>1, <2>1, <2>3, <3>2 DEF Taken
  <2>4. CASE frame.instr # j
    <3>1. FramesOf(published', j, n + 1) = FramesOf(published, j, n)
      BY <1>4, <2>4
    <3>2. M(j) = N(j)
      BY <3>1
    <3> HIDE DEF M, N
    <3>. QED
      BY <2>1, <2>4, <3>2 DEF Taken
  <2>. QED
    BY <2>3, <2>4
<1>6. \A j \in Channels : per_instr_seq[j] = 1 + N(j) + Taken(j) /\ Taken(j) \in Nat
  BY DEF NumberInv, Taken, n
<1>7. frame.seq = 1 + N(frame.instr) /\ Taken(frame.instr) = 1
  BY <1>1 DEF NumberInv, Taken, n
<1> HIDE DEF M, N
<1>8. \A j \in Channels : per_instr_seq'[j] = 1 + M(j) + Taken(j)'
  <2>1. \A j : Taken(j)' = 0
    BY <1>1 DEF Taken
  <2>. QED
    BY <1>1, <1>5, <1>6, <2>1
<1>9. ASSUME NEW k \in 1 .. n + 1
      PROVE  published'[k].seq = Cardinality(FramesOf(published', published'[k].instr, k))
  <2>1. CASE k = n + 1
    <3>1. frame.seq = M(frame.instr)
      BY <1>5, <1>7
    <3>. QED
      BY <1>2, <2>1, <3>1 DEF M
  <2>2. CASE k \in 1 .. n
    BY <1>2, <1>3, <2>2 DEF NumberInv, InstrumentNumbered, n
  <2>. QED
    BY <1>1, <2>1, <2>2
<1>10. InstrumentNumbered'
  BY <1>2, <1>9 DEF InstrumentNumbered
<1>. QED
  BY <1>1, <1>2, <1>8, <1>10 DEF NumberInv, M

LEMMA OthersNumberNothing ==
  ASSUME [Next]_vars
  PROVE  \/ Decode \/ Publish
         \/ /\ UNCHANGED <<published, per_instr_seq, frame>>
            /\ dpc' = dpc \/ (dpc = "notify" /\ dpc' = "apply")
BY DEF Next, Serve, Notify, Receive, Transmit, RecvWait, RecvGap, RecvFrame, Send, SendGap, SendFails,
   SpuriousWake, Subscribe, Read, vars, busVars, decodeVars

\* The frames of each instrument are numbered 1, 2, 3, ... in the order in which they are
\* published, although next_seq_for_instrument and publish_raw are two separate steps.
THEOREM NumbersInOrder == Spec => []InstrumentNumbered
<1>1. Init => NumberInv
  <2> SUFFICES ASSUME Init PROVE NumberInv
    OBVIOUS
  <2>1. published = <<>> /\ dpc = "apply" /\ per_instr_seq = [i \in Channels |-> 1]
    BY DEF Init
  <2>2. \A i : FramesOf(published, i, Len(published)) = {}
    BY <2>1 DEF FramesOf
  <2>3. \A i \in Channels : per_instr_seq[i] = 1 + 0 + Taken(i)
    BY <2>1 DEF Taken
  <2>. QED
    BY <2>1, <2>2, <2>3, FS_EmptySet DEF NumberInv, InstrumentNumbered
<1>2. BusInv /\ NumberInv /\ [Next]_vars => NumberInv'
  <2> SUFFICES ASSUME TypeOK, NumberInv, [Next]_vars PROVE NumberInv'
    BY DEF BusInv
  <2>1. CASE UNCHANGED <<published, per_instr_seq, frame>>
             /\ (dpc' = dpc \/ (dpc = "notify" /\ dpc' = "apply"))
    <3>1. \A i : Taken(i)' = Taken(i)
      BY <2>1 DEF Taken
    <3>. QED
      BY <2>1, <3>1 DEF NumberInv, InstrumentNumbered
  <2>. QED
    BY <2>1, OthersNumberNothing, DecodeNumbers, PublishNumbers
<1>3. NumberInv => InstrumentNumbered
  BY DEF NumberInv
<1>. QED
  BY <1>1, <1>2, <1>3, BusInvAlways, PTL DEF Spec

\* No step of the publisher or of a session puts a value of another kind into the
\* bus's state: in particular the offset into the ring never leaves it.
THEOREM BusTyped == Spec => []TypeOK
<1>1. BusInv => TypeOK
  BY DEF BusInv
<1>. QED
  BY <1>1, BusInvAlways, PTL
============================================================================
