-------------------------- MODULE KTPWindowProofs --------------------------
(* Lemmas about the sequence-number arithmetic of KTPWindow: on windows    *)
(* shorter than the circle of SEQNUM numbers, the wrapped comparisons of   *)
(* inwndw and wndwsize decide what the unwrapped positions say.            *)
EXTENDS KTPWindow, TLAPS

\* Division with remainder, for a symbolic divisor.
LEMMA DivMod ==
    ASSUME NEW a \in Int, NEW S \in Nat \ {0}
    PROVE  \E d \in Int, m \in 0 .. (S - 1) : a = S * d + m /\ a % S = m
<1>1. /\ a = S * (a \div S) + (a % S)
      /\ a % S \in 0 .. (S - 1)
      /\ a \div S \in Int
  OBVIOUS
<1> QED BY <1>1

\* The only multiple of S strictly between -S and S is 0.
LEMMA SmallMultiple ==
    ASSUME NEW S \in Nat \ {0}, NEW q \in Int, S * q < S, S * q > -S
    PROVE  q = 0
<1>1. CASE q >= 1 BY <1>1
<1>2. CASE q <= -1 BY <1>2
<1> QED BY <1>1, <1>2

\* Remainders are unique.
LEMMA UniqueRemainder ==
    ASSUME NEW S \in Nat \ {0}, NEW q \in Int, NEW d \in Int,
           NEW r \in 0 .. (S - 1), NEW m \in 0 .. (S - 1),
           S * q + r = S * d + m
    PROVE  r = m
<1>1. S * (q - d) = S * q - S * d OBVIOUS
<1>2. S * q \in Int /\ S * d \in Int OBVIOUS
<1>3. S * (q - d) = m - r BY <1>1, <1>2
<1>4. q - d \in Int OBVIOUS
<1>5. q - d = 0 BY <1>3, <1>4, SmallMultiple
<1>6. S * (q - d) = 0 BY <1>5
<1> QED BY <1>3, <1>6

\* The remainder of S * q + r is r.
LEMMA Remainder ==
    ASSUME NEW S \in Nat \ {0}, NEW q \in Int, NEW r \in 0 .. (S - 1)
    PROVE  (S * q + r) % S = r
<1> DEFINE a == S * q + r
<1>1. a \in Int OBVIOUS
<1>2. PICK d \in Int, m \in 0 .. (S - 1) : a = S * d + m /\ a % S = m
  BY <1>1, DivMod
<1>3. S * q + r = S * d + m BY <1>2
<1>4. r = m BY <1>3, UniqueRemainder
<1> QED BY <1>2, <1>4

\* Adding to a remainder is adding to the number.
LEMMA ModAdd ==
    ASSUME NEW S \in Nat \ {0}, NEW a \in Int, NEW k \in Int
    PROVE  ((a % S) + k) % S = (a + k) % S
<1>1. PICK d \in Int, m \in 0 .. (S - 1) : a = S * d + m /\ a % S = m BY DivMod
<1>2. PICK e \in Int, r \in 0 .. (S - 1) : a + k = S * e + r /\ (a + k) % S = r
  <2>1. a + k \in Int OBVIOUS
  <2> QED BY <2>1, DivMod
<1>3. S * (e - d) = S * e - S * d OBVIOUS
<1>4. m + k = S * (e - d) + r BY <1>1, <1>2, <1>3
<1>5. e - d \in Int OBVIOUS
<1>6. (S * (e - d) + r) % S = r BY <1>5, Remainder
<1> QED BY <1>1, <1>2, <1>4, <1>6

\* Less than S further, the remainder has grown by the distance, or wrapped once.
LEMMA ModShift ==
    ASSUME NEW S \in Nat \ {0}, NEW a \in Int, NEW b \in Int, a <= b, b < a + S
    PROVE  b % S = IF (a % S) + (b - a) < S
                   THEN (a % S) + (b - a) ELSE (a % S) + (b - a) - S
<1>1. PICK d \in Int, m \in 0 .. (S - 1) : a = S * d + m /\ a % S = m BY DivMod
<1>2. CASE m + (b - a) < S
  <2>1. b = S * d + (m + (b - a)) BY <1>1
  <2>2. m + (b - a) \in 0 .. (S - 1) BY <1>2
  <2>3. b % S = m + (b - a) BY <2>1, <2>2, Remainder
  <2> QED BY <1>1, <1>2, <2>3
<1>3. CASE m + (b - a) >= S
  <2> DEFINE r == m + (b - a) - S
             e == d + 1
  <2>1. S * e = S * d + S OBVIOUS
  <2>2. b = S * e + r BY <1>1, <2>1
  <2>3. r \in 0 .. (S - 1) BY <1>3
  <2>4. e \in Int OBVIOUS
  <2> HIDE DEF r, e
  <2>5. (S * e + r) % S = r BY <2>3, <2>4, Remainder
  <2>6. b % S = r BY <2>2, <2>5
  <2> QED BY <1>1, <1>3, <2>6 DEF r
<1> QED BY <1>2, <1>3

-----------------------------------------------------------------------------
(* The same facts for the two circles of KTP.                              *)

LEMMA WireFacts ==
    ASSUME NEW n \in Int
    PROVE  /\ Wire(n) \in SeqNumbers
           /\ \A k \in Int : (Wire(n) + k) % SEQNUM = Wire(n + k)
           /\ SeqSucc(Wire(n)) = Wire(n + 1)
           /\ SeqPred(Wire(n)) = Wire(n - 1)
<1>1. SEQNUM \in Nat \ {0} BY WindowAssumption
<1>2. Wire(n) \in SeqNumbers BY <1>1, DivMod DEF Wire, SeqNumbers
<1>3. ASSUME NEW k \in Int PROVE (Wire(n) + k) % SEQNUM = Wire(n + k)
  BY <1>1, ModAdd DEF Wire
<1>4. SeqSucc(Wire(n)) = Wire(n + 1) BY <1>3 DEF SeqSucc
<1>5. SeqPred(Wire(n)) = Wire(n - 1)
  <2>1. Wire(n) - 1 + SEQNUM = Wire(n) + (SEQNUM - 1)
    BY <1>1, <1>2 DEF SeqNumbers
  <2>2. SeqPred(Wire(n)) = Wire(n + (SEQNUM - 1)) BY <1>1, <1>3, <2>1 DEF SeqPred
  <2>3. PICK d \in Int, m \in 0 .. (SEQNUM - 1) :
           n - 1 = SEQNUM * d + m /\ (n - 1) % SEQNUM = m
    <3>1. n - 1 \in Int OBVIOUS
    <3> QED BY <1>1, <3>1, DivMod
  <2> DEFINE e == d + 1
  <2>4. SEQNUM * e = SEQNUM * d + SEQNUM BY <1>1
  <2>5. n + (SEQNUM - 1) = SEQNUM * e + m BY <1>1, <2>3, <2>4
  <2>6. e \in Int OBVIOUS
  <2> HIDE DEF e
  <2>7. (SEQNUM * e + m) % SEQNUM = m BY <1>1, <2>6, Remainder
  <2> QED BY <2>2, <2>3, <2>5, <2>7 DEF Wire
<1> QED BY <1>2, <1>3, <1>4, <1>5

\* Less than a turn further on the circle of sequence numbers.
LEMMA WireShift ==
    ASSUME NEW a \in Int, NEW b \in Int, a <= b, b < a + SEQNUM
    PROVE  Wire(b) = IF Wire(a) + (b - a) < SEQNUM
                     THEN Wire(a) + (b - a) ELSE Wire(a) + (b - a) - SEQNUM
BY WindowAssumption, ModShift DEF Wire

\* Less than a turn apart, equal sequence numbers are the same position.
LEMMA WireUnique ==
    ASSUME NEW a \in Int, NEW b \in Int, Wire(a) = Wire(b), a <= b, b < a + SEQNUM
    PROVE  a = b
<1>1. Wire(a) \in SeqNumbers BY WireFacts
<1>2. Wire(b) = IF Wire(a) + (b - a) < SEQNUM
                THEN Wire(a) + (b - a) ELSE Wire(a) + (b - a) - SEQNUM
  BY WireShift
<1> QED BY <1>1, <1>2, WindowAssumption DEF SeqNumbers

\* wndwsize is the distance of the unwrapped ends.
LEMMA WindowSize ==
    ASSUME NEW h \in Int, NEW t \in Int, h <= t, t < h + SEQNUM
    PROVE  wndwsize(Wire(h), Wire(t)) = t - h
<1>1. Wire(h) \in SeqNumbers /\ Wire(t) \in SeqNumbers BY WireFacts
<1>2. Wire(t) = IF Wire(h) + (t - h) < SEQNUM
                THEN Wire(h) + (t - h) ELSE Wire(h) + (t - h) - SEQNUM
  BY WireShift
<1> QED BY <1>1, <1>2, WindowAssumption DEF wndwsize, SeqNumbers

\* inwndw is membership in the unwrapped window, for numbers no more than a turn away.
LEMMA InWindow ==
    ASSUME NEW h \in Int, NEW t \in Int, NEW x \in Int,
           h <= t, t < h + SEQNUM, t - SEQNUM <= x, x < h + SEQNUM
    PROVE  inwndw(Wire(x), Wire(h), Wire(t)) <=> (h <= x /\ x < t)
<1>1. Wire(h) \in SeqNumbers /\ Wire(t) \in SeqNumbers /\ Wire(x) \in SeqNumbers
  BY WireFacts
<1>2. Wire(t) = IF Wire(h) + (t - h) < SEQNUM
                THEN Wire(h) + (t - h) ELSE Wire(h) + (t - h) - SEQNUM
  BY WireShift
<1>3. CASE h <= x
  <2>1. Wire(x) = IF Wire(h) + (x - h) < SEQNUM
                  THEN Wire(h) + (x - h) ELSE Wire(h) + (x - h) - SEQNUM
    BY <1>3, WireShift
  <2> QED BY <1>1, <1>2, <1>3, <2>1, WindowAssumption DEF inwndw, SeqNumbers
<1>4. CASE x < h /\ x + SEQNUM = h
  <2>1. x <= t /\ t <= x + SEQNUM BY <1>4, WindowAssumption
  <2>2. t = h BY <1>4, <2>1
  <2> QED BY <1>4, <2>2 DEF inwndw
<1>5. CASE x < h /\ h < x + SEQNUM
  <2>1. Wire(h) = IF Wire(x) + (h - x) < SEQNUM
                  THEN Wire(x) + (h - x) ELSE Wire(x) + (h - x) - SEQNUM
    BY <1>5, WireShift
  <2> QED BY <1>1, <1>2, <1>5, <2>1, WindowAssumption DEF inwndw, SeqNumbers
<1> QED BY <1>3, <1>4, <1>5, WindowAssumption

LEMMA SlotFacts ==
    ASSUME NEW n \in Int
    PROVE  /\ Slot(n) \in Slots
           /\ (Slot(n) + 1) % MAXMESSAGE = Slot(n + 1)
<1>1. MAXMESSAGE \in Nat \ {0} BY WindowAssumption
<1>2. Slot(n) \in Slots BY <1>1, DivMod DEF Slot, Slots
<1>3. ASSUME NEW k \in Int PROVE (Slot(n) + k) % MAXMESSAGE = Slot(n + k)
  BY <1>1, ModAdd DEF Slot
<1>4. (Slot(n) + 1) % MAXMESSAGE = Slot(n + 1) BY <1>3
<1> QED BY <1>2, <1>4

\* Fewer than MAXMESSAGE apart, two positions share a slot only if they are equal.
LEMMA SlotUnique ==
    ASSUME NEW a \in Int, NEW b \in Int, Slot(a) = Slot(b),
           a < b + MAXMESSAGE, b < a + MAXMESSAGE
    PROVE  a = b
<1>1. MAXMESSAGE \in Nat \ {0} BY WindowAssumption
<1>2. Slot(a) \in Slots /\ Slot(b) \in Slots BY SlotFacts
<1>3. CASE a <= b
  <2>1. Slot(b) = IF Slot(a) + (b - a) < MAXMESSAGE
                  THEN Slot(a) + (b - a) ELSE Slot(a) + (b - a) - MAXMESSAGE
    BY <1>1, <1>3, ModShift DEF Slot
  <2> QED BY <1>1, <1>2, <2>1 DEF Slots
<1>4. CASE b <= a
  <2>1. Slot(a) = IF Slot(b) + (a - b) < MAXMESSAGE
                  THEN Slot(b) + (a - b) ELSE Slot(b) + (a - b) - MAXMESSAGE
    BY <1>1, <1>4, ModShift DEF Slot
  <2> QED BY <1>1, <1>2, <2>1 DEF Slots
<1> QED BY <1>3, <1>4
=============================================================================
