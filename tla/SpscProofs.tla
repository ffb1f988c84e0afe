----------------------------- MODULE SpscProofs -----------------------------
(***************************************************************************)
(* Proofs about the lock-free queue of Spsc, for every capacity and every    *)
(* width of the indices.                                                    *)
(***************************************************************************)
EXTENDS Spsc, SequenceTheorems, TLAPS

(***************************************************************************)
(* Facts about wrapping indices and slots.                                 *)
(***************************************************************************)
\* A remainder is determined by any quotient that leaves one.
LEMMA ModUnique ==
  ASSUME NEW n \in Nat \ {0}, NEW q \in Int, NEW r \in 0 .. n - 1
  PROVE  (n * q + r) % n = r
<1> DEFINE x == n * q + r
           k == x \div n
           s == x % n
<1>1. x \in Int
  OBVIOUS
<1>2. x = n * k + s /\ k \in Int /\ s \in 0 .. n - 1
  BY <1>1
<1>3. x = n * q + r
  OBVIOUS
<1> HIDE DEF x, k, s
<1>4. n * (k - q) = r - s
  BY <1>2, <1>3
<1>5. k - q = 0
  <2>1. CASE k - q >= 1
    <3>1. n * (k - q) >= n
      BY <2>1, <1>2
    <3>. QED
      BY <3>1, <1>2, <1>4
  <2>2. CASE k - q <= -1
    <3>1. n * (k - q) <= -n
      BY <2>2, <1>2
    <3>. QED
      BY <3>1, <1>2, <1>4
  <2>. QED
    BY <2>1, <2>2, <1>2
<1>6. s = r
  BY <1>2, <1>4, <1>5
<1>. QED
  BY <1>6 DEF s, x

\* Advancing an index by less than Wrap wraps at most once.
LEMMA WrapOnce ==
  ASSUME NEW x \in Int, -Wrap <= x, x < 2 * Wrap
  PROVE  x % Wrap = IF x < 0 THEN x + Wrap ELSE IF x < Wrap THEN x ELSE x - Wrap
<1>0. Wrap \in Nat \ {0}
  BY SpscAssumption
<1>1. CASE x < 0
  <2>1. (Wrap * (-1) + (x + Wrap)) % Wrap = x + Wrap
    BY <1>0, <1>1, ModUnique
  <2>. QED
    BY <1>0, <1>1, <2>1
<1>2. CASE 0 <= x /\ x < Wrap
  <2>1. (Wrap * 0 + x) % Wrap = x
    BY <1>0, <1>2, ModUnique
  <2>. QED
    BY <1>0, <1>2, <2>1
<1>3. CASE Wrap <= x
  <2>1. (Wrap * 1 + (x - Wrap)) % Wrap = x - Wrap
    BY <1>0, <1>3, ModUnique
  <2>. QED
    BY <1>0, <1>3, <2>1
<1>. QED
  BY <1>1, <1>2, <1>3, <1>0

LEMMA SubValue ==
  ASSUME NEW a \in Index, NEW b \in Index
  PROVE  Sub(a, b) = IF b <= a THEN a - b ELSE a - b + Wrap
BY SpscAssumption, WrapOnce DEF Sub, Index

LEMMA IncValue ==
  ASSUME NEW a \in Index
  PROVE  Inc(a) = IF a + 1 = Wrap THEN 0 ELSE a + 1
BY SpscAssumption, WrapOnce DEF Inc, Index

LEMMA SubRange ==
  ASSUME NEW a \in Index, NEW b \in Index
  PROVE  Sub(a, b) \in 0 .. Wrap - 1 /\ (Sub(a, b) = 0 <=> a = b)
<1>1. Sub(a, b) = IF b <= a THEN a - b ELSE a - b + Wrap
  BY SubValue
<1>. QED
  BY <1>1, SpscAssumption DEF Index

LEMMA SubInc ==
  ASSUME NEW a \in Index, NEW b \in Index
  PROVE  /\ Inc(a) \in Index
         /\ Sub(a, b) < Wrap - 1 => Sub(Inc(a), b) = Sub(a, b) + 1
         /\ a # b => Sub(a, Inc(b)) = Sub(a, b) - 1
<1>1. /\ Inc(a) = IF a + 1 = Wrap THEN 0 ELSE a + 1
      /\ Inc(b) = IF b + 1 = Wrap THEN 0 ELSE b + 1
  BY IncValue
<1>2. Inc(a) \in Index /\ Inc(b) \in Index
  BY <1>1, SpscAssumption DEF Index
<1>3. /\ Sub(a, b) = IF b <= a THEN a - b ELSE a - b + Wrap
      /\ Sub(Inc(a), b) = IF b <= Inc(a) THEN Inc(a) - b ELSE Inc(a) - b + Wrap
      /\ Sub(a, Inc(b)) = IF Inc(b) <= a THEN a - Inc(b) ELSE a - Inc(b) + Wrap
  BY <1>2, SubValue
<1>. QED
  BY <1>1, <1>2, <1>3, SpscAssumption DEF Index

\* An index t that is ahead of c, and not ahead of b, lies between the two.
LEMMA Between ==
  ASSUME NEW a \in Index, NEW b \in Index, NEW c \in Index, NEW t \in Index,
         Sub(t, c) <= Sub(b, c)
  PROVE  /\ Sub(b, t) = Sub(b, c) - Sub(t, c)
         /\ Sub(a, b) + Sub(b, c) = Sub(a, c) =>
              Sub(a, b) + Sub(b, t) = Sub(a, t) /\ Sub(a, t) <= Sub(a, c)
         /\ Sub(c, a) + Sub(b, c) = Sub(b, a) => Sub(t, a) + Sub(b, t) = Sub(b, a)
<1> DEFINE D(x, y) == IF y <= x THEN x - y ELSE x - y + Wrap
<1>1. /\ Sub(t, c) = D(t, c) /\ Sub(b, c) = D(b, c) /\ Sub(b, t) = D(b, t)
      /\ Sub(a, b) = D(a, b) /\ Sub(a, c) = D(a, c) /\ Sub(a, t) = D(a, t)
      /\ Sub(c, a) = D(c, a) /\ Sub(b, a) = D(b, a) /\ Sub(t, a) = D(t, a)
  BY SubValue
<1>. QED
  BY <1>1, SpscAssumption DEF Index

\* A load returns an index between the one seen last and the current one.
LEMMA VisibleValue ==
  ASSUME NEW seen \in Index, NEW current \in Index, NEW t \in Visible(seen, current)
  PROVE  t \in Index /\ Sub(t, seen) <= Sub(current, seen)
<1>1. PICK d \in 0 .. Sub(current, seen) : t = Inc(seen + d - 1)
  BY DEF Visible
<1>2. Sub(current, seen) \in 0 .. Wrap - 1
  BY SubValue, SpscAssumption DEF Index
<1>3. t = IF seen + d < Wrap THEN seen + d ELSE seen + d - Wrap
  <2>1. t = (seen + d) % Wrap
    BY <1>1, <1>2, SpscAssumption DEF Inc, Index
  <2>2. seen + d \in Int /\ 0 <= seen + d /\ -Wrap <= seen + d /\ seen + d < 2 * Wrap
    BY <1>2, SpscAssumption DEF Index
  <2> DEFINE x == seen + d
  <2>3. x \in Int /\ 0 <= x /\ -Wrap <= x /\ x < 2 * Wrap
    BY <2>2
  <2> HIDE DEF x
  <2>4. x % Wrap = IF x < 0 THEN x + Wrap ELSE IF x < Wrap THEN x ELSE x - Wrap
    BY <2>3, WrapOnce
  <2>5. x % Wrap = IF x < Wrap THEN x ELSE x - Wrap
    BY <2>3, <2>4, SpscAssumption
  <2>6. t = x % Wrap
    BY <2>1 DEF x
  <2>7. t = IF x < Wrap THEN x ELSE x - Wrap
    BY <2>5, <2>6
  <2>. QED
    BY <2>7, <1>2, SpscAssumption DEF x, Index
<1>4. t \in Index
  BY <1>2, <1>3, SpscAssumption DEF Index
<1>. QED
  BY <1>2, <1>3, <1>4, SubValue, SpscAssumption DEF Index

\* Wrapping does not move slots: Cap divides Wrap.
LEMMA SlotWrap ==
  ASSUME NEW x \in Nat
  PROVE  SlotOf(x + Wrap) = SlotOf(x) /\ SlotOf(x) \in 0 .. Cap - 1
<1> DEFINE k == x \div Cap
           r == x % Cap
           q == Wrap \div Cap
<1>0. Cap \in Nat \ {0} /\ Wrap \in Nat
  BY SpscAssumption
<1>1. x = Cap * k + r /\ k \in Int /\ r \in 0 .. Cap - 1
  BY <1>0
<1>2. Wrap = Cap * q /\ q \in Int
  BY <1>0, SpscAssumption
<1>3. SlotOf(x) = r
  BY DEF SlotOf
<1> HIDE DEF k, r, q
<1>4. x + Wrap = Cap * (k + q) + r
  BY <1>0, <1>1, <1>2
<1>5. (Cap * (k + q) + r) % Cap = r
  BY <1>0, <1>1, <1>2, ModUnique
<1>. QED
  BY <1>1, <1>3, <1>4, <1>5 DEF SlotOf

\* The slot Sub(a, b) after b is the slot of a.
LEMMA SlotAhead ==
  ASSUME NEW a \in Index, NEW b \in Index
  PROVE  SlotOf(b + Sub(a, b)) = SlotOf(a)
<1>1. b + Sub(a, b) = a \/ b + Sub(a, b) = a + Wrap
  BY SubValue, SpscAssumption DEF Index
<1>. QED
  BY <1>1, SlotWrap DEF Index

LEMMA SlotInc ==
  ASSUME NEW a \in Index, NEW j \in Nat
  PROVE  SlotOf(Inc(a) + j) = SlotOf(a + 1 + j)
<1>1. CASE a + 1 = Wrap
  <2>1. Inc(a) + j = j /\ a + 1 + j = j + Wrap
    BY <1>1, IncValue, SpscAssumption DEF Index
  <2>. QED
    BY <2>1, SlotWrap
<1>2. CASE a + 1 # Wrap
  BY <1>2, IncValue DEF Index
<1>. QED
  BY <1>1, <1>2

\* Slots less than Cap apart are different.
LEMMA SlotDistinct ==
  ASSUME NEW x \in Nat, NEW y \in Nat, x < y, y < x + Cap
  PROVE  SlotOf(x) # SlotOf(y)
<1> SUFFICES ASSUME SlotOf(x) = SlotOf(y) PROVE FALSE
  OBVIOUS
<1> DEFINE k == x \div Cap
           l == y \div Cap
           r == x % Cap
<1>0. Cap \in Nat \ {0}
  BY SpscAssumption
<1>1. x = Cap * k + r /\ k \in Int /\ r \in Int
  BY <1>0
<1>2. y = Cap * l + (y % Cap) /\ l \in Int
  BY <1>0
<1>3. y % Cap = r
  BY DEF SlotOf
<1>4. y = Cap * l + r
  BY <1>2, <1>3
<1>5. l \in Int
  BY <1>2
<1> HIDE DEF k, l, r
<1>6. Cap * (l - k) = y - x
  BY <1>0, <1>1, <1>4, <1>5
<1>7. CASE l - k >= 1
  <2>1. Cap * (l - k) >= Cap
    BY <1>7, <1>0, <1>1, <1>5
  <2>. QED
    BY <2>1, <1>6, <1>0
<1>8. CASE l - k <= 0
  <2>1. Cap * (l - k) <= 0
    BY <1>8, <1>0, <1>1, <1>5
  <2>. QED
    BY <2>1, <1>6, <1>0
<1>. QED
  BY <1>7, <1>8, <1>1, <1>5

(***************************************************************************)
(* The inductive invariant.  The indices lie in the order seen_tail, tail,   *)
(* seen_head, head and span at most Cap slots, one less while the producer   *)
(* is about to write or has written.                                        *)
(***************************************************************************)
IndexInv ==
  /\ Sub(head, tail) + Sub(tail, seen_tail) = Sub(head, seen_tail)
  /\ Sub(seen_head, tail) + Sub(head, seen_head) = Sub(head, tail)
  /\ Sub(head, seen_tail) <= Cap
  /\ ppc \in {"write", "publish"} => Sub(head, seen_tail) <= Cap - 1
  /\ cpc \in {"read", "publish"} => seen_head # tail

\* What the slots hold: an item in every slot from tail to head, the value being pushed
\* in the slot about to be published, and the value being popped still in its slot.
SlotInv ==
  /\ ppc # "idle" => pval \in Items
  /\ ppc = "publish" => buf[SlotOf(head)] = pval
  /\ cpc = "publish" => cval = buf[SlotOf(tail)]
  /\ \A j \in 0 .. Sub(head, tail) - 1 : buf[SlotOf(tail + j)] \in Items

SpscInv == TypeOK /\ IndexInv /\ SlotInv

\* The inequalities the proofs use.
LEMMA Distances ==
  ASSUME TypeOK, IndexInv
  PROVE  /\ Sub(head, tail) \in 0 .. Cap
         /\ ppc \in {"write", "publish"} => Sub(head, tail) <= Cap - 1
         /\ cpc \in {"read", "publish"} => Sub(head, tail) >= 1
<1>1. head \in Index /\ tail \in Index /\ seen_tail \in Index /\ seen_head \in Index
  BY DEF TypeOK
<1>2. /\ Sub(head, tail) \in Nat /\ Sub(tail, seen_tail) \in Nat /\ Sub(head, seen_tail) \in Nat
      /\ Sub(seen_head, tail) \in Nat /\ Sub(head, seen_head) \in Nat
      /\ Sub(seen_head, tail) = 0 => seen_head = tail
  BY <1>1, SubRange
<1>. QED
  BY <1>2, SpscAssumption DEF IndexInv

LEMMA SpscTypeStep == SpscInv /\ [Next]_vars => TypeOK'
<1> SUFFICES ASSUME SpscInv, [Next]_vars PROVE TypeOK'
  OBVIOUS
<1>0. TypeOK
  BY DEF SpscInv
<1> USE SpscAssumption
<1>1. ASSUME NEW v \in Items, NEW m \in Modes, StartPush(v, m) PROVE TypeOK'
  BY <1>0, <1>1 DEF TypeOK, StartPush, consumerVars
<1>2. ASSUME NEW t \in Visible(seen_tail, tail), LoadTailRoom(t) PROVE TypeOK'
  BY <1>0, <1>2, VisibleValue DEF TypeOK, LoadTailRoom, consumerVars
<1>3. ASSUME NEW t \in Visible(seen_tail, tail), LoadTailFull(t) PROVE TypeOK'
  BY <1>0, <1>3, VisibleValue DEF TypeOK, LoadTailFull, GivesUp, consumerVars
<1>4. CASE WriteSlot
  BY Zenon, <1>0, <1>4, SlotWrap DEF TypeOK, WriteSlot, consumerVars, Index
<1>5. CASE StoreHead
  BY <1>0, <1>5, IncValue DEF TypeOK, StoreHead, consumerVars, Index
<1>6. ASSUME NEW h \in Visible(seen_head, head), LoadHead(h) PROVE TypeOK'
  BY <1>0, <1>6, VisibleValue DEF TypeOK, LoadHead, producerVars
<1>7. CASE ReadSlot
  <2>1. tail \in Nat
    BY <1>0 DEF TypeOK, Index
  <2>2. SlotOf(tail) \in 0 .. Cap - 1
    BY <2>1, SlotWrap
  <2>. QED
    BY <1>0, <1>7, <2>2 DEF TypeOK, ReadSlot, producerVars
<1>8. CASE StoreTail
  BY <1>0, <1>8, IncValue DEF TypeOK, StoreTail, producerVars, Index
<1>9. CASE UNCHANGED vars
  BY <1>0, <1>9 DEF TypeOK, vars, producerVars, consumerVars
<1>. QED
  BY <1>1, <1>2, <1>3, <1>4, <1>5, <1>6, <1>7, <1>8, <1>9
  DEF Next, Producer, Consumer, LoadTail

LEMMA IndexInvStep == SpscInv /\ [Next]_vars => IndexInv'
<1> SUFFICES ASSUME SpscInv, [Next]_vars PROVE IndexInv'
  OBVIOUS
<1>0. head \in Index /\ tail \in Index /\ seen_tail \in Index /\ seen_head \in Index
  BY DEF SpscInv, TypeOK
<1>a. IndexInv
  BY DEF SpscInv
<1>b. /\ Sub(head, tail) \in Nat /\ Sub(tail, seen_tail) \in Nat /\ Sub(head, seen_tail) \in Nat
      /\ Sub(seen_head, tail) \in Nat /\ Sub(head, seen_head) \in Nat
      /\ Sub(seen_head, tail) = 0 => seen_head = tail
      /\ Sub(head, tail) = 0 => head = tail
  BY <1>0, SubRange
<1>c. Cap \in Nat /\ Wrap \in Nat /\ Cap < Wrap
  BY SpscAssumption
<1>1. ASSUME NEW v \in Items, NEW m \in Modes, StartPush(v, m) PROVE IndexInv'
  BY <1>a, <1>1 DEF IndexInv, StartPush, consumerVars
<1>2. ASSUME NEW t \in Visible(seen_tail, tail), LoadTailRoom(t) \/ LoadTailFull(t)
      PROVE  IndexInv'
  <2>1. t \in Index /\ Sub(t, seen_tail) <= Sub(tail, seen_tail)
    BY <1>0, VisibleValue
  <2>2. Sub(head, tail) + Sub(tail, t) = Sub(head, t) /\ Sub(head, t) <= Sub(head, seen_tail)
    BY <1>0, <1>a, <2>1, Between DEF IndexInv
  <2>3. Sub(head, t) \in Nat
    BY <1>0, <2>1, SubRange
  <2>4. Sub(head, t) <= Cap
    BY <1>a, <1>b, <1>c, <2>2, <2>3 DEF IndexInv
  <2>5. CASE LoadTailRoom(t)
    BY <1>a, <1>c, <2>2, <2>3, <2>4, <2>5 DEF IndexInv, LoadTailRoom, Full, consumerVars
  <2>6. CASE LoadTailFull(t)
    BY <1>a, <2>2, <2>4, <2>6 DEF IndexInv, LoadTailFull, consumerVars
  <2>. QED
    BY <1>2, <2>5, <2>6
<1>4. CASE WriteSlot
  BY <1>a, <1>4 DEF IndexInv, WriteSlot, consumerVars
<1>5. CASE StoreHead
  <2>1. /\ Sub(head, tail) < Wrap - 1 /\ Sub(head, seen_tail) < Wrap - 1
        /\ Sub(head, seen_head) < Wrap - 1
    BY <1>a, <1>b, <1>c, <1>5 DEF IndexInv, StoreHead
  <2>2. /\ Sub(Inc(head), tail) = Sub(head, tail) + 1
        /\ Sub(Inc(head), seen_tail) = Sub(head, seen_tail) + 1
        /\ Sub(Inc(head), seen_head) = Sub(head, seen_head) + 1
    BY <1>0, <2>1, SubInc
  <2>. QED
    BY <1>a, <1>b, <1>c, <1>5, <2>2 DEF IndexInv, StoreHead, consumerVars
<1>6. ASSUME NEW h \in Visible(seen_head, head), LoadHead(h) PROVE IndexInv'
  <2>1. h \in Index /\ Sub(h, seen_head) <= Sub(head, seen_head)
    BY <1>0, VisibleValue
  <2>2. Sub(h, tail) + Sub(head, h) = Sub(head, tail)
    BY <1>0, <1>a, <2>1, Between DEF IndexInv
  <2>. QED
    BY <1>a, <1>6, <2>2 DEF IndexInv, LoadHead, producerVars
<1>7. CASE ReadSlot
  BY <1>a, <1>7 DEF IndexInv, ReadSlot, producerVars
<1>8. CASE StoreTail
  <2>1. seen_head # tail
    BY <1>a, <1>8 DEF IndexInv, StoreTail
  <2>2. /\ head # tail
        /\ Sub(tail, seen_tail) < Wrap - 1
    BY <1>0, <1>a, <1>b, <1>c, <2>1, SubRange DEF IndexInv
  <2>3. /\ Sub(head, Inc(tail)) = Sub(head, tail) - 1
        /\ Sub(Inc(tail), seen_tail) = Sub(tail, seen_tail) + 1
        /\ Sub(seen_head, Inc(tail)) = Sub(seen_head, tail) - 1
    BY <1>0, <2>1, <2>2, SubInc
  <2>. QED
    BY <1>a, <1>b, <1>8, <2>3 DEF IndexInv, StoreTail, producerVars
<1>9. CASE UNCHANGED vars
  BY <1>a, <1>9 DEF IndexInv, vars, producerVars, consumerVars
<1>. QED
  BY <1>1, <1>2, <1>4, <1>5, <1>6, <1>7, <1>8, <1>9
  DEF Next, Producer, Consumer, LoadTail

\* The slot the producer writes holds none of the items between tail and head.
LEMMA FreeSlot ==
  ASSUME TypeOK, IndexInv, ppc = "write", NEW j \in 0 .. Sub(head, tail) - 1
  PROVE  SlotOf(tail + j) # SlotOf(head)
<1> DEFINE n == Sub(head, tail)
<1>1. head \in Index /\ tail \in Index /\ tail \in Nat
  BY DEF TypeOK, Index
<1>2. n \in Nat /\ n <= Cap - 1
  BY Distances
<1>3. SlotOf(tail + n) = SlotOf(head)
  BY <1>1, SlotAhead
<1> HIDE DEF n
<1>4. j \in Nat /\ j < n
  BY <1>2 DEF n
<1>5. /\ tail + j \in Nat /\ tail + n \in Nat
      /\ tail + j < tail + n /\ tail + n < (tail + j) + Cap
  BY <1>1, <1>2, <1>4, SpscAssumption
<1>6. SlotOf(tail + j) # SlotOf(tail + n)
  BY <1>5, SlotDistinct
<1>. QED
  BY <1>3, <1>6

LEMMA SlotInvStep == SpscInv /\ [Next]_vars => SlotInv'
<1> SUFFICES ASSUME SpscInv, [Next]_vars PROVE SlotInv'
  OBVIOUS
<1>0. TypeOK /\ IndexInv /\ SlotInv
  BY DEF SpscInv
<1>a. /\ head \in Index /\ tail \in Index /\ head \in Nat /\ tail \in Nat
      /\ SlotOf(head) \in 0 .. Cap - 1 /\ SlotOf(tail) \in 0 .. Cap - 1
  BY <1>0, SlotWrap DEF TypeOK, Index
<1>b. Sub(head, tail) \in Nat
  BY <1>0, Distances
<1>1. ASSUME NEW v \in Items, NEW m \in Modes, StartPush(v, m) PROVE SlotInv'
  BY <1>0, <1>1 DEF SlotInv, StartPush, consumerVars
<1>2. ASSUME NEW t \in Visible(seen_tail, tail), LoadTailRoom(t) PROVE SlotInv'
  BY <1>0, <1>2 DEF SlotInv, LoadTailRoom, consumerVars
<1>3. ASSUME NEW t \in Visible(seen_tail, tail), LoadTailFull(t) PROVE SlotInv'
  BY <1>0, <1>3 DEF SlotInv, LoadTailFull, consumerVars
<1>4. CASE WriteSlot
  <2>1. \A j \in 0 .. Sub(head, tail) - 1 : buf'[SlotOf(tail + j)] = buf[SlotOf(tail + j)]
    <3>1. ASSUME NEW j \in 0 .. Sub(head, tail) - 1
          PROVE  buf'[SlotOf(tail + j)] = buf[SlotOf(tail + j)]
      <4>1. SlotOf(tail + j) # SlotOf(head)
        BY <1>0, <1>4, FreeSlot DEF WriteSlot
      <4>2. tail + j \in Nat
        BY <1>a, <1>b
      <4>3. SlotOf(tail + j) \in 0 .. Cap - 1
        BY <4>2, SlotWrap
      <4>. QED
        BY <1>0, <1>4, <4>1, <4>3 DEF TypeOK, WriteSlot
    <3>. QED
      BY <3>1
  <2>2. buf'[SlotOf(head)] = pval
    BY <1>0, <1>a, <1>4 DEF TypeOK, WriteSlot
  <2>3. cpc = "publish" => buf'[SlotOf(tail)] = buf[SlotOf(tail)]
    <3>1. cpc = "publish" => 0 \in 0 .. Sub(head, tail) - 1
      BY <1>0, <1>b, Distances
    <3>2. tail + 0 = tail
      BY <1>a
    <3>. QED
      BY <2>1, <3>1, <3>2
  <2>. QED
    BY <1>0, <1>4, <2>1, <2>2, <2>3 DEF SlotInv, WriteSlot, consumerVars
<1>5. CASE StoreHead
  <2>1. Sub(head', tail) = Sub(head, tail) + 1
    <3>1. Sub(head, tail) < Wrap - 1
      BY <1>0, <1>5, Distances, SpscAssumption DEF StoreHead
    <3>. QED
      BY <1>a, <1>5, <3>1, SubInc DEF StoreHead
  <2>2. buf[SlotOf(tail + Sub(head, tail))] \in Items
    BY <1>0, <1>a, <1>5, SlotAhead DEF SlotInv, StoreHead
  <2>3. \A j \in 0 .. Sub(head', tail) - 1 : buf[SlotOf(tail + j)] \in Items
    BY <1>0, <1>b, <2>1, <2>2 DEF SlotInv
  <2>. QED
    BY <1>0, <1>5, <2>3 DEF SlotInv, StoreHead, consumerVars
<1>6. ASSUME NEW h \in Visible(seen_head, head), LoadHead(h) PROVE SlotInv'
  BY <1>0, <1>6 DEF SlotInv, LoadHead, producerVars
<1>7. CASE ReadSlot
  BY <1>0, <1>7 DEF SlotInv, ReadSlot, producerVars
<1>8. CASE StoreTail
  <2>1. Sub(head, tail') = Sub(head, tail) - 1
    <3>1. head # tail
      BY <1>0, <1>a, <1>8, Distances, SubRange DEF StoreTail
    <3>. QED
      BY <1>a, <1>8, <3>1, SubInc DEF StoreTail
  <2>2. ASSUME NEW j \in 0 .. Sub(head, tail') - 1
        PROVE  buf[SlotOf(tail' + j)] \in Items
    <3>1. j \in Nat /\ 1 + j \in 0 .. Sub(head, tail) - 1 /\ tail + 1 + j = tail + (1 + j)
      BY <1>a, <1>b, <2>1, <2>2
    <3>2. SlotOf(tail' + j) = SlotOf(tail + 1 + j)
      BY <1>a, <1>8, <3>1, SlotInc DEF StoreTail
    <3>. QED
      BY <1>0, <3>1, <3>2 DEF SlotInv
  <2>. QED
    BY <1>0, <1>8, <2>2 DEF SlotInv, StoreTail, producerVars
<1>9. CASE UNCHANGED vars
  BY <1>0, <1>9 DEF SlotInv, vars, producerVars, consumerVars
<1>. QED
  BY <1>1, <1>2, <1>3, <1>4, <1>5, <1>6, <1>7, <1>8, <1>9
  DEF Next, Producer, Consumer, LoadTail

LEMMA SpscInvAlways == Spec => []SpscInv
<1>1. Init => SpscInv
  <2> SUFFICES ASSUME Init PROVE SpscInv
    OBVIOUS
  <2>1. TypeOK
    BY SpscAssumption DEF Init, TypeOK, Index, Modes
  <2>2. 0 \in Index
    BY SpscAssumption DEF Index
  <2>3. Sub(0, 0) = 0
    BY <2>2, SubRange
  <2>4. IndexInv
    BY <2>3, SpscAssumption DEF Init, IndexInv
  <2>5. SlotInv
    BY <2>3 DEF Init, SlotInv
  <2>. QED
    BY <2>1, <2>4, <2>5 DEF SpscInv
<1>2. SpscInv /\ [Next]_vars => SpscInv'
  BY SpscTypeStep, IndexInvStep, SlotInvStep DEF SpscInv
<1>. QED
  BY <1>1, <1>2, PTL DEF Spec

\* The indices stay below their modulus and the slots and local variables hold items,
\* whatever stale index either side loads.
THEOREM SpscTyped == Spec => []TypeOK
<1>1. SpscInv => TypeOK
  BY DEF SpscInv
<1>. QED
  BY <1>1, SpscInvAlways, PTL

\* push and pop never access one slot at the same time, and pop never reads a slot
\* that push has not written, whatever stale index either side loads.
THEOREM SlotsExclusive == Spec => []NoSlotConflict
<1>1. SpscInv => NoSlotConflict
  <2> SUFFICES ASSUME SpscInv, cpc = "read"
               PROVE  /\ ~(ppc = "write" /\ SlotOf(head) = SlotOf(tail))
                      /\ buf[SlotOf(tail)] # NoItem
    BY DEF NoSlotConflict
  <2>1. 0 \in 0 .. Sub(head, tail) - 1
    BY Distances DEF SpscInv
  <2>2. tail + 0 = tail
    BY DEF SpscInv, TypeOK, Index
  <2>3. ppc = "write" => SlotOf(tail) # SlotOf(head)
    BY <2>1, <2>2, FreeSlot DEF SpscInv
  <2>4. buf[SlotOf(tail)] \in Items
    BY <2>1, <2>2 DEF SpscInv, SlotInv
  <2>. QED
    BY <2>3, <2>4, SpscAssumption DEF NoItem
<1>. QED
  BY <1>1, SpscInvAlways, PTL

\* The length the producer computes is at most the capacity and never less than the
\* true length, also when its view of tail is stale and the indices wrap.
THEOREM LengthBounded == Spec => []ProducerLenBounded
<1>1. SpscInv => ProducerLenBounded
  <2> SUFFICES ASSUME SpscInv, NEW t \in Visible(seen_tail, tail)
               PROVE  Sub(head, tail) <= Sub(head, t) /\ Sub(head, t) <= Cap
    BY DEF ProducerLenBounded
  <2>1. head \in Index /\ tail \in Index /\ seen_tail \in Index
    BY DEF SpscInv, TypeOK
  <2>2. t \in Index /\ Sub(t, seen_tail) <= Sub(tail, seen_tail)
    BY <2>1, VisibleValue
  <2>3. Sub(head, tail) + Sub(tail, t) = Sub(head, t) /\ Sub(head, t) <= Sub(head, seen_tail)
    BY <2>1, <2>2, Between DEF SpscInv, IndexInv
  <2>4. /\ Sub(tail, t) \in Nat /\ Sub(head, tail) \in Nat /\ Sub(head, t) \in Nat
        /\ Sub(head, seen_tail) \in Nat
    BY <2>1, <2>2, SubRange
  <2>. QED
    BY <2>3, <2>4, SpscAssumption DEF SpscInv, IndexInv
<1>. QED
  BY <1>1, SpscInvAlways, PTL

(***************************************************************************)
(* The refinement: the slots from tail to head are the items of the FIFO.    *)
(***************************************************************************)
Contents == [j \in 1 .. Sub(head, tail) |-> buf[SlotOf(tail + j - 1)]]

ContentsInOrder ==
  /\ Contents \in Seq(Items) /\ Len(Contents) = Sub(head, tail)
  /\ Sub(head, tail) \in 0 .. Cap
  /\ \A j \in 1 .. Sub(head, tail) : Contents[j] = buf[SlotOf(tail + (j - 1))]

LEMMA ContentsSeq == SpscInv => ContentsInOrder
<1> SUFFICES ASSUME SpscInv PROVE ContentsInOrder
  OBVIOUS
<1>1. Sub(head, tail) \in 0 .. Cap
  BY Distances DEF SpscInv
<1>2. tail \in Nat
  BY DEF SpscInv, TypeOK, Index
<1>3. ASSUME NEW j \in 1 .. Sub(head, tail)
      PROVE  Contents[j] = buf[SlotOf(tail + (j - 1))] /\ Contents[j] \in Items
  <2>1. tail + j - 1 = tail + (j - 1) /\ j - 1 \in 0 .. Sub(head, tail) - 1
    BY <1>1, <1>2
  <2>. QED
    BY <2>1 DEF Contents, SpscInv, SlotInv
<1>4. Contents = [j \in 1 .. Sub(head, tail) |-> Contents[j]]
  BY DEF Contents
<1>. QED
  BY <1>1, <1>3, <1>4, SpscAssumption DEF ContentsInOrder

LEMMA ContentsSeqNext == SpscInv' => ContentsInOrder'
  BY ContentsSeq, PTL

\* Publishing head appends the value pushed.
LEMMA PushAppends ==
  ASSUME SpscInv, SpscInv', StoreHead
  PROVE  Contents' = Append(Contents, pval) /\ pval \in Items /\ Len(Contents) < Cap
<1> DEFINE n == Sub(head, tail)
<1>1. head \in Index /\ tail \in Index /\ tail \in Nat /\ tail' = tail /\ buf' = buf
  BY DEF SpscInv, TypeOK, Index, StoreHead
<1>2. n \in Nat /\ n <= Cap - 1 /\ n < Wrap - 1
  BY Distances, SpscAssumption DEF SpscInv, StoreHead
<1>3. Sub(head', tail') = n + 1
  BY <1>1, <1>2, SubInc DEF StoreHead
<1>4. buf[SlotOf(tail + n)] = pval /\ pval \in Items
  BY <1>1, SlotAhead DEF SpscInv, SlotInv, StoreHead
<1> HIDE DEF n
<1>5. /\ Contents \in Seq(Items) /\ Len(Contents) = n
      /\ \A j \in 1 .. n : Contents[j] = buf[SlotOf(tail + (j - 1))]
  BY ContentsSeq DEF n, ContentsInOrder
<1>6. /\ Contents' \in Seq(Items) /\ Len(Contents') = n + 1
      /\ \A j \in 1 .. n + 1 : Contents'[j] = buf[SlotOf(tail + (j - 1))]
  BY <1>1, <1>3, ContentsSeqNext DEF ContentsInOrder
<1>7. ASSUME NEW j \in 1 .. n + 1 PROVE Contents'[j] = Append(Contents, pval)[j]
  <2>1. CASE j \in 1 .. n
    BY <1>2, <1>5, <1>6, <2>1
  <2>2. CASE j = n + 1
    <3>1. (n + 1) - 1 = n
      BY <1>2
    <3>. QED
      BY <1>2, <1>4, <1>5, <1>6, <2>2, <3>1
  <2>3. j \in 1 .. n \/ j = n + 1
    BY <1>2
  <2>. QED
    BY Zenon, <2>1, <2>2, <2>3
<1>8. Append(Contents, pval) \in Seq(Items) /\ Len(Append(Contents, pval)) = n + 1
  BY <1>4, <1>5
<1>9. Contents' = Append(Contents, pval)
  BY <1>6, <1>7, <1>8, SeqEqual
<1>. QED
  BY <1>2, <1>4, <1>5, <1>9, SpscAssumption

\* Publishing tail takes the oldest item, which is the value pop returns.
LEMMA PopTakesHead ==
  ASSUME SpscInv, SpscInv', StoreTail
  PROVE  Contents # <<>> /\ popped' = Head(Contents) /\ Contents' = Tail(Contents)
<1> DEFINE n == Sub(head, tail)
<1>1. head \in Index /\ tail \in Index /\ tail \in Nat /\ head' = head /\ buf' = buf
  BY DEF SpscInv, TypeOK, Index, StoreTail
<1>2. n \in Nat /\ n >= 1
  BY Distances DEF SpscInv, StoreTail
<1>3. Sub(head', tail') = n - 1
  BY <1>1, <1>2, SubInc, SubRange DEF StoreTail
<1> HIDE DEF n
<1>4. /\ Contents \in Seq(Items) /\ Len(Contents) = n
      /\ \A j \in 1 .. n : Contents[j] = buf[SlotOf(tail + (j - 1))]
  BY ContentsSeq DEF n, ContentsInOrder
<1>5. /\ Contents' \in Seq(Items) /\ Len(Contents') = n - 1
      /\ \A j \in 1 .. n - 1 : Contents'[j] = buf[SlotOf(tail' + (j - 1))]
  BY <1>1, <1>3, ContentsSeqNext DEF ContentsInOrder
<1>6. popped' = Head(Contents)
  <2>1. tail + (1 - 1) = tail
    BY <1>1
  <2>2. Contents[1] = buf[SlotOf(tail)]
    BY <1>2, <1>4, <2>1
  <2>. QED
    BY <1>2, <1>4, <2>2 DEF SpscInv, SlotInv, StoreTail
<1>7. ASSUME NEW j \in 1 .. n - 1 PROVE Contents'[j] = Tail(Contents)[j]
  <2>1. j - 1 \in Nat /\ j + 1 \in 1 .. n /\ tail + 1 + (j - 1) = tail + ((j + 1) - 1)
    BY <1>1, <1>2
  <2>2. SlotOf(tail' + (j - 1)) = SlotOf(tail + 1 + (j - 1))
    BY <1>1, <2>1, SlotInc DEF StoreTail
  <2>3. Contents'[j] = Contents[j + 1]
    BY <1>4, <1>5, <2>1, <2>2
  <2>. QED
    BY <1>2, <1>4, <2>3
<1>8. Tail(Contents) \in Seq(Items) /\ Len(Tail(Contents)) = n - 1
  BY <1>2, <1>4
<1>9. Contents' = Tail(Contents)
  BY <1>5, <1>7, <1>8, SeqEqual
<1>. QED
  BY <1>2, <1>4, <1>6, <1>9

\* Writing the slot at head leaves the items alone.
LEMMA WriteKeeps ==
  ASSUME SpscInv, SpscInv', WriteSlot
  PROVE  Contents' = Contents
<1>1. tail \in Nat /\ tail' = tail /\ head' = head /\ Sub(head, tail) \in Nat
  BY Distances DEF SpscInv, TypeOK, Index, WriteSlot
<1>2. ASSUME NEW j \in 1 .. Sub(head, tail)
      PROVE  buf'[SlotOf(tail + j - 1)] = buf[SlotOf(tail + j - 1)]
  <2>1. /\ tail + j - 1 = tail + (j - 1) /\ tail + j - 1 \in Nat
        /\ j - 1 \in 0 .. Sub(head, tail) - 1
    BY <1>1
  <2>2. SlotOf(tail + j - 1) # SlotOf(head)
    BY <2>1, FreeSlot DEF SpscInv, WriteSlot
  <2>3. SlotOf(tail + j - 1) \in 0 .. Cap - 1
    BY <2>1, SlotWrap
  <2>. QED
    BY <2>2, <2>3 DEF SpscInv, TypeOK, WriteSlot
<1>. QED
  BY <1>1, <1>2 DEF Contents

\* The lock-free queue, with stale loads and wrapping indices, is a bounded FIFO: every
\* value pushed is popped once, in order and unchanged.
THEOREM SpscImplementsFifo == Spec => ImplementsFifo
<1>1. Init => Fifo!Init
  <2> SUFFICES ASSUME Init PROVE Fifo!Init
    OBVIOUS
  <2>1. Sub(0, 0) = 0
    BY SubRange, SpscAssumption DEF Index
  <2>. QED
    BY <2>1 DEF Init, Fifo!Init, NoItem, Fifo!NoItem
<1>2. SpscInv /\ SpscInv' /\ [Next]_vars => [Fifo!Next]_(Fifo!fifoVars)
  <2> SUFFICES ASSUME SpscInv, SpscInv', [Next]_vars PROVE [Fifo!Next]_(Fifo!fifoVars)
    OBVIOUS
  <2>1. CASE StoreHead
    <3>1. Fifo!Enqueue(pval) /\ pval \in Items
      BY Zenon, <2>1, PushAppends DEF Contents, Fifo!Enqueue, StoreHead, consumerVars
    <3>. QED
      BY <3>1 DEF Fifo!Next
  <2>2. CASE StoreTail
    <3>1. Fifo!Dequeue
      BY Zenon, <2>2, PopTakesHead DEF Contents, Fifo!Dequeue
    <3>. QED
      BY <3>1 DEF Fifo!Next
  <2>3. CASE WriteSlot
    BY <2>3, WriteKeeps DEF Contents, Fifo!fifoVars, WriteSlot, consumerVars
  <2>4. CASE UNCHANGED <<buf, head, tail, popped>>
    BY <2>4 DEF Fifo!fifoVars
  <2>. QED
    BY <2>1, <2>2, <2>3, <2>4
    DEF Next, Producer, Consumer, LoadTail, StartPush, LoadTailRoom, LoadTailFull, LoadHead,
        ReadSlot, vars, producerVars, consumerVars
<1>. QED
  BY <1>1, <1>2, SpscInvAlways, PTL DEF Spec, ImplementsFifo, Fifo!Spec
=============================================================================
