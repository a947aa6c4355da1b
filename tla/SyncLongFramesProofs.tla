------------------------ MODULE SyncLongFramesProofs ------------------------
(***************************************************************************)
(* Proofs about the frames sync_long writes, for every symbol, guard and   *)
(* search length and every way the scheduler cuts the stream: one tag for  *)
(* each frame, in order, and behind it exactly the frame's samples without *)
(* their guard intervals.                                                  *)
(***************************************************************************)
EXTENDS SyncLongProofs

-----------------------------------------------------------------------------
(* Counting the samples that are kept, without counting them one by one.   *)

Period == SYM + GI

\* Is the r-th sample of a frame sent downstream?
KeptRel(r) ==
    /\ r >= 0
    /\ \/ r < 2 * SYM
       \/ ((r - 2 * SYM) % Period) > GI - 1

\* How many of a frame's first r samples are.
CountTo(r) ==
    IF r <= 0 THEN 0
    ELSE IF r <= 2 * SYM THEN r
    ELSE LET m == (r - 2 * SYM) % Period
         IN  2 * SYM + SYM * ((r - 2 * SYM) \div Period)
               + (IF m <= GI THEN 0 ELSE m - GI)

\* The lengths are natural numbers.
LEMMA Lengths ==
    /\ SYM \in Nat /\ SYM > 0 /\ GI \in Nat
    /\ Period \in Nat /\ Period > 0 /\ Period = SYM + GI
<1>1. SYM \in Nat /\ SYM > 0
  BY SymNat
<1>2. GI \in Nat
  BY LengthAssumption DEF GI
<1>3. Period = SYM + GI
  BY DEF Period
<1>. QED  BY <1>1, <1>2, <1>3

\* A product grows by a whole factor.
LEMMA Products ==
    ASSUME NEW d \in Nat, NEW a \in Nat, NEW b \in Nat, a < b
    PROVE  d * a \in Nat /\ d * b \in Nat /\ d * a + d <= d * b
<1>1. PICK k \in Nat : b = a + 1 + k
  <2>1. b - a - 1 \in Nat /\ b = a + 1 + (b - a - 1)
    OBVIOUS
  <2>. QED  BY <2>1
<1>2. d * b = d * a + d + d * k
  BY <1>1
<1>3. d * a \in Nat /\ d * k \in Nat /\ d * b \in Nat
  BY <1>1
<1>. QED  BY <1>2, <1>3

\* Quotient and remainder of a period are unique.
LEMMA PeriodUnique ==
    ASSUME NEW q \in Nat, NEW m \in 0..(Period - 1)
    PROVE  /\ (Period * q + m) \div Period = q
           /\ (Period * q + m) % Period = m
<1>1. PICK d \in Nat : d = Period /\ d > 0
  BY Lengths
<1>2. PICK x \in Nat : x = d * q + m
  BY <1>1
<1>3. PICK a \in Nat, b \in 0..(d - 1) : a = x \div d /\ b = x % d
  BY <1>1
<1>4. x = d * a + b
  BY <1>1, <1>3
<1>5. ~(a < q)
  <2>. SUFFICES ASSUME a < q PROVE FALSE
    OBVIOUS
  <2>1. d * a + d <= d * q /\ d * a \in Nat /\ d * q \in Nat
    BY Products
  <2>. QED  BY <1>1, <1>2, <1>3, <1>4, <2>1
<1>6. ~(q < a)
  <2>. SUFFICES ASSUME q < a PROVE FALSE
    OBVIOUS
  <2>1. d * q + d <= d * a /\ d * a \in Nat /\ d * q \in Nat
    BY Products
  <2>. QED  BY <1>1, <1>2, <1>3, <1>4, <2>1
<1>7. a = q
  BY <1>5, <1>6
<1>8. b = m
  <2>1. d * a \in Nat
    BY <1>1
  <2>. QED  BY <1>1, <1>2, <1>3, <1>4, <1>7, <2>1
<1>. QED  BY <1>1, <1>2, <1>3, <1>7, <1>8

\* An offset behind the training field is so far into some period.
LEMMA PeriodSplit ==
    ASSUME NEW r \in Nat, r >= 2 * SYM
    PROVE  \E q \in Nat, m \in 0..(Period - 1) : r = 2 * SYM + Period * q + m
<1>1. PICK d \in Nat : d = Period /\ d > 0
  BY Lengths
<1>2. PICK x \in Nat : x = r - 2 * SYM
  BY Lengths
<1>3. x \div d \in Nat /\ x % d \in 0..(d - 1) /\ x = d * (x \div d) + (x % d)
  BY <1>1
<1>4. r = 2 * SYM + d * (x \div d) + (x % d)
  BY <1>1, <1>2, <1>3, Lengths
<1>. QED  BY <1>1, <1>3, <1>4

\* What is kept and counted there.
LEMMA CountInPeriod ==
    ASSUME NEW q \in Nat, NEW m \in 0..(Period - 1),
           NEW r \in Nat, r = 2 * SYM + Period * q + m
    PROVE  /\ KeptRel(r) <=> m >= GI
           /\ CountTo(r) = 2 * SYM + SYM * q + (IF m <= GI THEN 0 ELSE m - GI)
           /\ SYM * q \in Nat
<1>1. PICK x \in Nat : x = Period * q + m
  BY Lengths
<1>2. x \div Period = q /\ x % Period = m
  BY <1>1, PeriodUnique
<1>3. r = 2 * SYM + x
  BY <1>1, Lengths
<1>4. r - 2 * SYM = x /\ r >= 2 * SYM
  BY <1>3, Lengths
<1>5. KeptRel(r) <=> m >= GI
  BY <1>2, <1>4, Lengths DEF KeptRel
<1>6. SYM * q \in Nat
  BY Lengths
<1>7. CountTo(r) = 2 * SYM + SYM * q + (IF m <= GI THEN 0 ELSE m - GI)
  <2>1. CASE x = 0
    <3>1. q = 0 /\ m = 0
      BY <1>2, <2>1, Lengths
    <3>2. r = 2 * SYM /\ r > 0
      BY <1>3, <2>1, Lengths
    <3>3. CountTo(r) = 2 * SYM
      BY <3>2, Lengths DEF CountTo
    <3>. QED  BY <3>1, <3>3, Lengths
  <2>2. CASE x # 0
    <3>1. ~(r <= 0) /\ ~(r <= 2 * SYM)
      BY <1>3, <2>2, Lengths
    <3>. QED  BY <1>2, <1>4, <3>1 DEF CountTo
  <2>. QED  BY <2>1, <2>2
<1>. QED  BY <1>5, <1>6, <1>7

\* The offset of the j-th sample that is sent, in periods.
LEMMA RelInPeriod ==
    ASSUME NEW q \in Nat, NEW k \in 0..(SYM - 1), NEW c \in Nat,
           c = 2 * SYM + SYM * q + k
    PROVE  RelOf(c) = 2 * SYM + Period * q + (GI + k)
<1>1. PICK s \in Nat : s = SYM /\ s > 0
  BY Lengths
<1>2. PICK x \in Nat : x = s * q + k
  BY <1>1
<1>3. PICK a \in Nat, b \in 0..(s - 1) : a = x \div s /\ b = x % s
  BY <1>1
<1>4. x = s * a + b
  BY <1>1, <1>3
<1>5. ~(a < q)
  <2>. SUFFICES ASSUME a < q PROVE FALSE
    OBVIOUS
  <2>1. s * a + s <= s * q /\ s * a \in Nat /\ s * q \in Nat
    BY Products
  <2>. QED  BY <1>1, <1>2, <1>3, <1>4, <2>1
<1>6. ~(q < a)
  <2>. SUFFICES ASSUME q < a PROVE FALSE
    OBVIOUS
  <2>1. s * q + s <= s * a /\ s * a \in Nat /\ s * q \in Nat
    BY Products
  <2>. QED  BY <1>1, <1>2, <1>3, <1>4, <2>1
<1>7. a = q
  BY <1>5, <1>6
<1>8. b = k
  <2>1. s * a \in Nat
    BY <1>1
  <2>. QED  BY <1>1, <1>2, <1>3, <1>4, <1>7, <2>1
<1>9. c - 2 * SYM = x /\ ~(c < 2 * SYM)
  BY <1>1, <1>2
<1>10. RelOf(c) = 2 * SYM + GI + q * (SYM + GI) + k
  BY <1>1, <1>3, <1>7, <1>8, <1>9 DEF RelOf
<1>11. q * (SYM + GI) = Period * q /\ Period * q \in Nat
  BY Lengths
<1>. QED  BY <1>1, <1>10, <1>11, Lengths

\* The next sample is counted exactly if it is kept, and the count tells its
\* offset.
LEMMA CountNext ==
    ASSUME NEW r \in Nat
    PROVE  /\ CountTo(r) \in Nat /\ CountTo(r + 1) \in Nat
           /\ KeptRel(r) => CountTo(r + 1) = CountTo(r) + 1 /\ RelOf(CountTo(r)) = r
<1>1. CASE r < 2 * SYM
  <2>1. CountTo(r) = r
    BY <1>1, Lengths DEF CountTo
  <2>2. CountTo(r + 1) = r + 1
    BY <1>1, Lengths DEF CountTo
  <2>3. RelOf(r) = r
    BY <1>1, Lengths DEF RelOf
  <2>. QED  BY <2>1, <2>2, <2>3
<1>2. CASE r >= 2 * SYM
  <2>1. PICK q \in Nat, m \in 0..(Period - 1) : r = 2 * SYM + Period * q + m
    BY <1>2, PeriodSplit
  <2>2. /\ KeptRel(r) <=> m >= GI
        /\ CountTo(r) = 2 * SYM + SYM * q + (IF m <= GI THEN 0 ELSE m - GI)
        /\ SYM * q \in Nat
    BY <2>1, CountInPeriod
  <2>3. CountTo(r) \in Nat
    BY <2>2, Lengths
  <2>4. CASE m + 1 < Period
    <3>1. PICK n \in 0..(Period - 1) : n = m + 1
      BY <2>4, Lengths
    <3>2. PICK t \in Nat : t = r + 1
      OBVIOUS
    <3>3. t = 2 * SYM + Period * q + n
      <4>1. Period * q \in Nat
        BY Lengths
      <4>. QED  BY <2>1, <3>1, <3>2, <4>1, Lengths
    <3>4. CountTo(t) = 2 * SYM + SYM * q + (IF n <= GI THEN 0 ELSE n - GI)
      BY <3>3, CountInPeriod
    <3>5. CountTo(t) \in Nat /\ (m >= GI => CountTo(t) = CountTo(r) + 1)
      BY <2>2, <3>1, <3>4, Lengths
    <3>6. ASSUME m >= GI PROVE RelOf(CountTo(r)) = r
      <4>1. PICK k \in 0..(SYM - 1) : k = m - GI
        BY <3>6, Lengths
      <4>2. PICK c \in Nat : c = CountTo(r)
        BY <2>3
      <4>3. c = 2 * SYM + SYM * q + k
        BY <2>2, <3>6, <4>1, <4>2, Lengths
      <4>4. RelOf(c) = 2 * SYM + Period * q + (GI + k)
        BY <4>3, RelInPeriod
      <4>5. GI + k = m
        BY <4>1, Lengths
      <4>. QED  BY <2>1, <4>2, <4>4, <4>5
    <3>. QED  BY <2>2, <2>3, <3>2, <3>5, <3>6
  <2>5. CASE m + 1 = Period
    <3>1. PICK n \in 0..(Period - 1), p \in Nat : n = 0 /\ p = q + 1
      BY Lengths
    <3>2. PICK t \in Nat : t = r + 1
      OBVIOUS
    <3>3. t = 2 * SYM + Period * p + n
      <4>1. Period * q \in Nat /\ Period * p = Period * q + Period
        BY <3>1, Lengths
      <4>. QED  BY <2>1, <2>5, <3>1, <3>2, <4>1, Lengths
    <3>4. CountTo(t) = 2 * SYM + SYM * p + (IF n <= GI THEN 0 ELSE n - GI)
      BY <3>3, CountInPeriod
    <3>5. SYM * p = SYM * q + SYM
      BY <3>1, Lengths
    <3>6. CountTo(t) \in Nat /\ m - GI = SYM - 1 /\ CountTo(t) = CountTo(r) + 1
      BY <2>2, <2>5, <3>1, <3>4, <3>5, Lengths
    <3>7. RelOf(CountTo(r)) = r
      <4>1. PICK k \in 0..(SYM - 1) : k = m - GI
        BY <3>6, Lengths
      <4>2. PICK c \in Nat : c = CountTo(r)
        BY <2>3
      <4>3. c = 2 * SYM + SYM * q + k
        BY <2>2, <4>1, <4>2, Lengths
      <4>4. RelOf(c) = 2 * SYM + Period * q + (GI + k)
        BY <4>3, RelInPeriod
      <4>5. GI + k = m
        BY <4>1, Lengths
      <4>. QED  BY <2>1, <4>2, <4>4, <4>5
    <3>. QED  BY <2>3, <3>2, <3>6, <3>7
  <2>. QED  BY <2>4, <2>5, Lengths
<1>. QED  BY <1>1, <1>2, Lengths

\* Counting never goes down.
LEMMA CountGrows ==
    ASSUME NEW r \in Nat, NEW t \in Nat, r <= t
    PROVE  CountTo(r) <= CountTo(t)
<1>1. CASE t < 2 * SYM
  BY <1>1, Lengths DEF CountTo
<1>2. CASE r < 2 * SYM /\ t >= 2 * SYM
  <2>1. PICK q \in Nat, m \in 0..(Period - 1) : t = 2 * SYM + Period * q + m
    BY <1>2, PeriodSplit
  <2>2. /\ CountTo(t) = 2 * SYM + SYM * q + (IF m <= GI THEN 0 ELSE m - GI)
        /\ SYM * q \in Nat
    BY <2>1, CountInPeriod
  <2>3. CountTo(r) = r
    BY <1>2, Lengths DEF CountTo
  <2>. QED  BY <1>2, <2>2, <2>3, Lengths
<1>3. CASE r >= 2 * SYM
  <2>1. PICK a \in Nat, m \in 0..(Period - 1) : r = 2 * SYM + Period * a + m
    BY <1>3, PeriodSplit
  <2>2. PICK b \in Nat, n \in 0..(Period - 1) : t = 2 * SYM + Period * b + n
    <3>1. t >= 2 * SYM
      BY <1>3, Lengths
    <3>. QED  BY <3>1, PeriodSplit
  <2>3. /\ CountTo(r) = 2 * SYM + SYM * a + (IF m <= GI THEN 0 ELSE m - GI)
        /\ SYM * a \in Nat
    BY <2>1, CountInPeriod
  <2>4. /\ CountTo(t) = 2 * SYM + SYM * b + (IF n <= GI THEN 0 ELSE n - GI)
        /\ SYM * b \in Nat
    BY <2>2, CountInPeriod
  <2>5. Period * a \in Nat /\ Period * b \in Nat
    BY Lengths
  <2>6. CASE a < b
    <3>1. SYM * a + SYM <= SYM * b
      BY <2>6, Products, Lengths
    <3>. QED  BY <2>3, <2>4, <3>1, Lengths
  <2>7. CASE a = b
    <3>1. m <= n
      BY <2>1, <2>2, <2>5, <2>7, Lengths
    <3>. QED  BY <2>3, <2>4, <2>7, <3>1, Lengths
  <2>8. CASE b < a
    <3>1. Period * b + Period <= Period * a
      BY <2>8, Products, Lengths
    <3>. QED  BY <2>1, <2>2, <2>5, <3>1, Lengths
  <2>. QED  BY <2>6, <2>7, <2>8
<1>. QED  BY <1>1, <1>2, <1>3, Lengths

\* The j-th sample sent is one that is kept, with j others before it.
LEMMA SentIsKept ==
    ASSUME NEW j \in Nat
    PROVE  RelOf(j) \in Nat /\ KeptRel(RelOf(j)) /\ CountTo(RelOf(j)) = j
<1>1. CASE j < 2 * SYM
  <2>1. RelOf(j) = j
    BY <1>1, Lengths DEF RelOf
  <2>. QED  BY <1>1, <2>1, Lengths DEF KeptRel, CountTo
<1>2. CASE j >= 2 * SYM
  <2>1. PICK s \in Nat : s = SYM /\ s > 0
    BY Lengths
  <2>2. PICK x \in Nat : x = j - 2 * SYM
    BY <1>2, Lengths
  <2>3. PICK q \in Nat, k \in 0..(s - 1) : q = x \div s /\ k = x % s
    BY <2>1
  <2>4. x = s * q + k
    BY <2>1, <2>3
  <2>5. j = 2 * SYM + SYM * q + k
    BY <2>1, <2>2, <2>4, Lengths
  <2>6. PICK m \in 0..(Period - 1) : m = GI + k
    BY <2>1, Lengths
  <2>7. RelOf(j) = 2 * SYM + Period * q + m
    BY <2>1, <2>5, <2>6, RelInPeriod
  <2>8. PICK r \in Nat : r = RelOf(j)
    BY <2>7, Lengths
  <2>9. /\ KeptRel(r) <=> m >= GI
        /\ CountTo(r) = 2 * SYM + SYM * q + (IF m <= GI THEN 0 ELSE m - GI)
        /\ SYM * q \in Nat
    BY <2>7, <2>8, CountInPeriod
  <2>10. m >= GI /\ (IF m <= GI THEN 0 ELSE m - GI) = k
    BY <2>1, <2>6, Lengths
  <2>. QED  BY <2>5, <2>8, <2>9, <2>10
<1>. QED  BY <1>1, <1>2, Lengths

-----------------------------------------------------------------------------
(* How many samples a COPY call sends.                                     *)

\* How many of its frame's samples the block has counted before offset off.
Before(off) == CountTo(off - d_frame_start)

\* Nothing is counted in front of the frame.
LEMMA CountNone == ASSUME NEW r \in Int, r <= 0 PROVE CountTo(r) = 0
BY DEF CountTo

\* The count before an offset, and one offset further.
LEMMA BeforeNext ==
    ASSUME d_frame_start \in Nat, NEW off \in Nat
    PROVE  /\ Before(off) \in Nat
           /\ Kept(off) =>
                 /\ off - d_frame_start \in Nat
                 /\ Before(off + 1) = Before(off) + 1
                 /\ RelOf(Before(off)) = off - d_frame_start
<1>1. Kept(off) <=> KeptRel(off - d_frame_start)
  BY DEF Kept, KeptRel, Period
<1>2. CASE off < d_frame_start
  <2>1. off - d_frame_start \in Int /\ off - d_frame_start <= 0
    BY <1>2
  <2>2. Before(off) = 0
    BY <2>1, CountNone DEF Before
  <2>3. ~KeptRel(off - d_frame_start)
    BY <1>2 DEF KeptRel
  <2>. QED  BY <1>1, <2>2, <2>3
<1>3. CASE off >= d_frame_start
  <2>1. PICK r \in Nat : r = off - d_frame_start
    BY <1>3
  <2>2. off + 1 - d_frame_start = r + 1
    BY <2>1
  <2>3. Before(off) = CountTo(r) /\ Before(off + 1) = CountTo(r + 1)
    BY <2>1, <2>2 DEF Before
  <2>. QED  BY <1>1, <2>1, <2>3, CountNext
<1>. QED  BY <1>2, <1>3

\* The count never goes down.
LEMMA BeforeGrows ==
    ASSUME d_frame_start \in Nat, NEW a \in Nat, NEW b \in Nat, a <= b
    PROVE  Before(a) <= Before(b)
<1>1. CASE a < d_frame_start
  <2>1. Before(a) = 0
    <3>1. a - d_frame_start \in Int /\ a - d_frame_start <= 0
      BY <1>1
    <3>. QED  BY <3>1, CountNone DEF Before
  <2>. QED  BY <2>1, BeforeNext
<1>2. CASE a >= d_frame_start
  <2>1. PICK r \in Nat, t \in Nat : r = a - d_frame_start /\ t = b - d_frame_start
    BY <1>2
  <2>. QED  BY <2>1, CountGrows DEF Before
<1>. QED  BY <1>1, <1>2

\* The j-th sample of the frame is kept, and counted as such.
LEMMA JthKept ==
    ASSUME d_frame_start \in Nat, NEW j \in Nat
    PROVE  /\ RelOf(j) \in Nat
           /\ Kept(d_frame_start + RelOf(j))
           /\ Before(d_frame_start + RelOf(j)) = j
<1>1. PICK r \in Nat : r = RelOf(j)
  BY SentIsKept
<1>2. KeptRel(r) /\ CountTo(r) = j
  BY <1>1, SentIsKept
<1>3. d_frame_start + r - d_frame_start = r
  OBVIOUS
<1>4. Kept(d_frame_start + r)
  BY <1>2, <1>3 DEF Kept, KeptRel, Period
<1>5. Before(d_frame_start + r) = j
  BY <1>2, <1>3 DEF Before
<1>. QED  BY <1>1, <1>4, <1>5

\* The samples kept among the next k are those counted from here to there: the
\* count is one to one.
LEMMA KeptBefore ==
    ASSUME d_frame_start \in Nat, d_offset \in Nat, NEW k \in Nat
    PROVE  Cardinality(KeptIn(k)) = Before(d_offset + k) - Before(d_offset)
<1>1. PICK a \in Nat, b \in Nat : a = Before(d_offset) /\ b = Before(d_offset + k)
  BY BeforeNext
<1>2. a <= b
  BY <1>1, BeforeGrows
<1>3. PICK n \in Nat : n = b - a
  BY <1>2
<1>. DEFINE f == [i \in 1..n |-> d_frame_start + RelOf(a + i - 1)]
<1>4. ASSUME NEW i \in 1..n PROVE f[i] \in KeptIn(k)
  <2>1. PICK j \in Nat : j = a + i - 1
    OBVIOUS
  <2>2. PICK off \in Nat : off = d_frame_start + RelOf(j)
    BY JthKept
  <2>3. Kept(off) /\ Before(off) = j /\ Before(off + 1) = j + 1
    BY <2>2, JthKept, BeforeNext
  <2>4. ~(off < d_offset)
    <3>. SUFFICES ASSUME off < d_offset PROVE FALSE
      OBVIOUS
    <3>1. off + 1 \in Nat /\ off + 1 <= d_offset
      OBVIOUS
    <3>2. Before(off + 1) <= Before(d_offset)
      BY <3>1, BeforeGrows
    <3>. QED  BY <1>1, <2>1, <2>3, <3>2
  <2>5. ~(off >= d_offset + k)
    <3>. SUFFICES ASSUME off >= d_offset + k PROVE FALSE
      OBVIOUS
    <3>1. d_offset + k \in Nat /\ d_offset + k <= off
      OBVIOUS
    <3>2. Before(d_offset + k) <= Before(off)
      BY <3>1, BeforeGrows
    <3>. QED  BY <1>1, <1>3, <2>1, <2>3, <3>2
  <2>6. off \in d_offset..(d_offset + k - 1)
    BY <2>4, <2>5
  <2>7. f[i] = off
    BY <2>1, <2>2
  <2>. QED  BY <2>3, <2>6, <2>7 DEF KeptIn
<1>5. ASSUME NEW off \in KeptIn(k) PROVE \E i \in 1..n : f[i] = off
  <2>1. off \in Nat /\ off >= d_offset /\ off + 1 <= d_offset + k /\ Kept(off)
    BY DEF KeptIn
  <2>2. PICK j \in Nat : j = Before(off)
    BY <2>1, BeforeNext
  <2>3. Before(off + 1) = j + 1 /\ RelOf(j) = off - d_frame_start
    BY <2>1, <2>2, BeforeNext
  <2>4. a <= j
    BY <1>1, <2>1, <2>2, BeforeGrows
  <2>5. j + 1 <= b
    <3>1. off + 1 \in Nat /\ d_offset + k \in Nat
      BY <2>1
    <3>. QED  BY <1>1, <2>1, <2>3, <3>1, BeforeGrows
  <2>6. PICK i \in 1..n : i = j - a + 1
    BY <1>3, <2>4, <2>5
  <2>7. a + i - 1 = j
    BY <2>6
  <2>8. f[i] = d_frame_start + RelOf(j)
    BY <2>7
  <2>9. off = d_frame_start + RelOf(j)
    BY <2>1, <2>3
  <2>10. f[i] = off
    BY <2>8, <2>9
  <2>. QED  BY <2>6, <2>10
<1>6. ASSUME NEW i \in 1..n, NEW j \in 1..n, f[i] = f[j] PROVE i = j
  <2>1. PICK x \in Nat, y \in Nat : x = a + i - 1 /\ y = a + j - 1
    OBVIOUS
  <2>2. d_frame_start + RelOf(x) = d_frame_start + RelOf(y)
    BY <1>6, <2>1
  <2>3. x = y
    BY <2>2, JthKept
  <2>. QED  BY <2>1, <2>3
<1>. HIDE DEF f
<1>7. f \in Bijection(1..n, KeptIn(k))
  <2>1. f \in [1..n -> KeptIn(k)]
    BY <1>4 DEF f
  <2>. QED  BY <1>5, <1>6, <2>1 DEF Bijection, Injection, Surjection, IsInjective
<1>8. ExistsBijection(1..n, KeptIn(k))
  BY <1>7 DEF ExistsBijection
<1>9. Cardinality(KeptIn(k)) = n
  BY <1>8, FS_CountingElements
<1>. QED  BY <1>1, <1>3, <1>9

-----------------------------------------------------------------------------
(* The inductive invariant.  Its parts say where the block stands with     *)
(* respect to the frame at hand, what it has written of it, and what it    *)
(* has announced of the frames before.                                     *)

\* The start of the frame at hand, or the tag at which the next one begins.
Current == IF d_state = "COPY" THEN d_freq_offset_short
           ELSE IF d_state = "SYNC" THEN nread - d_offset
           ELSE nread

\* The block has not passed the tag that follows, and a frame is copied from
\* SYNC_LENGTH samples behind its tag on.
CurrentPlace ==
    /\ Current <= nread
    /\ \A t \in tags : Current < t => nread <= t
    /\ d_state = "COPY" => /\ Current \in tags
                           /\ nread - d_offset = Current + SYNC_LENGTH

\* d_count is the number of the frame's samples kept so far.
Counted == d_state = "COPY" => d_count = Before(d_offset)

\* An output tag stands where its frame's first sample is.
TagPlaces ==
    \A g \in outTags :
        /\ g.short \in tags
        /\ g.at < written
        /\ g.short <= Current
        /\ d_state = "COPY" /\ g.short < Current => g.at < written - d_count
        /\ g.short = Current =>
              /\ d_state = "COPY"
              /\ d_frame_start < d_offset
              /\ g.at = written - d_count
              /\ g.start = d_frame_start

\* Frames are announced in order.
InOrder ==
    \A g, h \in outTags : g # h => (g.at < h.at <=> g.short < h.short) /\ g.at # h.at

\* Every frame before the one at hand has been announced, and that one once its
\* start was met.
Announced ==
    /\ \A t \in tags : t < Current => \E g \in outTags : g.short = t
    /\ d_state = "COPY" /\ d_frame_start < d_offset
          => \E g \in outTags : g.short = Current

\* Nothing is written at an offset still to come.
OutBefore == \A w \in out : w.at < written

FInv ==
    /\ CurrentPlace
    /\ Counted
    /\ TagPlaces
    /\ InOrder
    /\ Announced
    /\ OutBefore
    /\ SymbolsIntact
    /\ CompleteUpToDelay

\* The integers among the variables.
LEMMA Numbers ==
    ASSUME IInv
    PROVE  /\ nread \in Nat /\ sent \in Nat /\ tags \subseteq Nat /\ written \in Nat
           /\ d_offset \in Nat /\ d_frame_start \in Nat /\ d_count \in Nat
           /\ d_freq_offset_short \in Int /\ Current \in Int
           /\ SYNC_LENGTH \in Nat /\ SYNC_LENGTH >= SYM /\ MIN_GAP \in Nat
           /\ MIN_GAP >= 2 * SYNC_LENGTH /\ d_frame_start <= SYNC_LENGTH
           /\ \A g \in outTags : /\ g.at \in Nat /\ g.start \in Nat
                                 /\ g.short \in Int /\ g.long \in Int
           /\ \A w \in out : w.at \in Nat /\ w.src \in Int
<1>1. /\ nread \in Nat /\ sent \in Nat /\ tags \subseteq Nat /\ written \in Nat
      /\ d_offset \in Nat /\ d_count \in Nat /\ d_freq_offset_short \in Int
  BY GapAssumption DEF IInv, TypeOK, StreamTypeOK
<1>2. SYNC_LENGTH \in Nat /\ SYNC_LENGTH >= SYM /\ MIN_GAP \in Nat /\ MIN_GAP >= 2 * SYNC_LENGTH
  BY GapAssumption, LengthAssumption, SpacingAssumption DEF SYM
<1>3. d_frame_start \in Nat /\ d_frame_start <= SYNC_LENGTH
  <2>1. d_frame_start \in FrameStarts
    BY DEF IInv, TypeOK
  <2>. QED  BY <1>2, <2>1, Lengths DEF FrameStarts
<1>4. Current \in Int
  BY <1>1 DEF Current
<1>5. /\ \A g \in outTags : /\ g.at \in Nat /\ g.start \in Nat
                            /\ g.short \in Int /\ g.long \in Int
      /\ \A w \in out : w.at \in Nat /\ w.src \in Int
  BY DEF IInv, TypeOK
<1>. QED  BY <1>1, <1>2, <1>3, <1>4, <1>5

\* Nothing is announced or written at first.
LEMMA InitFInv == ASSUME Init PROVE FInv
<1>1. CurrentPlace /\ Counted /\ TagPlaces /\ InOrder /\ Announced
  BY DEF Init, StreamInit, Current, CurrentPlace, Counted, TagPlaces, InOrder, Announced
<1>2. OutBefore /\ SymbolsIntact /\ CompleteUpToDelay
  BY DEF Init, OutBefore, SymbolsIntact, CompleteUpToDelay
<1>. QED  BY <1>1, <1>2 DEF FInv

\* A frame is complete if it was and neither the samples read nor the frames
\* announced and written change but behind its end.
LEMMA StillComplete ==
    ASSUME IInv, CompleteUpToDelay, CurrentPlace, TagPlaces,
           tags \subseteq tags', out \subseteq out', outTags' = outTags,
           nread' \in Nat, nread' = nread \/ (d_state # "COPY" /\ Current \in tags)
    PROVE  CompleteUpToDelay'
<1>. SUFFICES ASSUME NEW g \in outTags, NEW j \in 0..STREAM,
                     NEW due, due = g.short + g.start + RelOf(j) + DELAY,
                     due < nread', ~\E t \in tags : g.short < t /\ t <= due
              PROVE  \E w \in out : w.at = g.at + j
  BY DEF CompleteUpToDelay
<1>1. due \in Int
  <2>1. RelOf(j) \in Nat
    BY SentIsKept
  <2>. QED  BY <2>1, Numbers, LengthAssumption
<1>2. due < nread
  <2>1. CASE nread' = nread
    BY <2>1
  <2>2. CASE d_state # "COPY" /\ Current \in tags
    <3>1. g.short < Current /\ Current <= nread
      BY <2>2, Numbers DEF TagPlaces, CurrentPlace
    <3>2. ~(Current <= due)
      BY <2>2, <3>1
    <3>. QED  BY <1>1, <3>1, <3>2, Numbers
  <2>. QED  BY <2>1, <2>2
<1>. QED  BY <1>2 DEF CompleteUpToDelay

\* Samples and tags arrive behind all that has been read.
LEMMA FeedKeeps == ASSUME IInv, FInv, Feed PROVE FInv'
<1>1. /\ UNCHANGED longVars
      /\ tags \subseteq tags' /\ \A t \in tags' : t \in tags \/ t = sent
  BY DEF Feed, StreamNext, StartFrame, SendSample
<1>2. Current' = Current
  BY <1>1 DEF Current, longVars
<1>3. nread <= sent /\ nread \in Nat /\ sent \in Nat /\ Current \in Int /\ Current <= nread
  BY Numbers DEF IInv, Position, FInv, CurrentPlace
<1>4. CurrentPlace'
  BY <1>1, <1>2, <1>3 DEF CurrentPlace, FInv, longVars
<1>5. Counted' /\ TagPlaces' /\ InOrder' /\ OutBefore' /\ SymbolsIntact'
  <2>1. Counted'
    BY <1>1 DEF FInv, Counted, Before, longVars
  <2>2. TagPlaces'
    BY <1>1, <1>2 DEF FInv, TagPlaces, longVars
  <2>3. InOrder' /\ OutBefore' /\ SymbolsIntact'
    BY <1>1 DEF FInv, InOrder, OutBefore, SymbolsIntact, longVars
  <2>. QED  BY <2>1, <2>2, <2>3
<1>6. Announced'
  BY <1>1, <1>2, <1>3 DEF Announced, FInv, longVars
<1>7. CompleteUpToDelay'
  BY <1>1, <1>3, StillComplete DEF FInv, longVars
<1>. QED  BY <1>4, <1>5, <1>6, <1>7 DEF FInv

\* What a SYNC call does: it goes on behind the tag it began at.
LEMMA SyncKeeps ==
    ASSUME IInv, FInv, NEW n, SyncMore(n) \/ SyncDone(n)
    PROVE  FInv'
<1>1. /\ d_state = "SYNC" /\ Available >= SYM /\ NInput(n) /\ ~Throws /\ ReadTag
      /\ nread' = nread + SyncConsumes(n)
      /\ UNCHANGED <<sent, tags, written, out, outTags>>
  BY DEF SyncMore, SyncDone, streamVars
<1>2. /\ SyncConsumes(n) \in Nat
      /\ nread - d_offset \in tags
      /\ d_freq_offset_short' = nread - d_offset
      /\ d_offset + SyncConsumes(n) <= SYNC_LENGTH
  BY <1>1, SyncWindow
<1>3. PICK c \in Int : c = nread - d_offset
  BY Numbers
<1>4. Current = c /\ c \in tags
  BY <1>1, <1>2, <1>3 DEF Current
<1>5. Current' = c /\ nread' \in Nat /\ c <= nread' /\ nread' <= c + SYNC_LENGTH
  <2>1. nread' \in Nat /\ c <= nread' /\ nread' <= c + SYNC_LENGTH
    BY <1>1, <1>2, <1>3, Numbers
  <2>2. CASE SyncMore(n)
    <3>1. d_state' = "SYNC" /\ d_offset' = d_offset + SyncConsumes(n)
      BY <1>1, <2>2 DEF SyncMore
    <3>. QED  BY <1>1, <1>2, <1>3, <2>1, <3>1, Numbers DEF Current
  <2>3. CASE SyncDone(n)
    BY <1>2, <1>3, <2>1, <2>3 DEF SyncDone, Current
  <2>. QED  BY <2>2, <2>3
<1>6. CurrentPlace'
  <2>1. ASSUME NEW t \in tags, c < t PROVE nread' <= t
    <3>1. t - c > MIN_GAP
      BY <1>4, <2>1 DEF IInv, TagsApart
    <3>2. t \in Int /\ MIN_GAP \in Nat /\ SYNC_LENGTH \in Nat /\ MIN_GAP >= 2 * SYNC_LENGTH
      BY Numbers
    <3>. QED  BY <1>5, <3>1, <3>2
  <2>2. d_state' = "COPY" => nread' - d_offset' = c + SYNC_LENGTH
    <3>1. CASE SyncMore(n)
      BY <1>1, <3>1 DEF SyncMore
    <3>2. CASE SyncDone(n)
      BY <1>1, <1>2, <1>3, <3>2, Numbers DEF SyncDone
    <3>. QED  BY <3>1, <3>2
  <2>. QED  BY <1>1, <1>4, <1>5, <2>1, <2>2 DEF CurrentPlace
<1>7. Counted'
  <2>1. CASE SyncMore(n)
    BY <1>1, <2>1 DEF SyncMore, Counted
  <2>2. CASE SyncDone(n)
    <3>1. d_count' = 0 /\ d_offset' = 0 /\ d_frame_start' \in FrameStarts
      BY <2>2 DEF SyncDone, search_frame_start
    <3>2. PICK f : f = d_frame_start'
      OBVIOUS
    <3>3. f \in Nat
      BY <3>1, <3>2, Numbers, Lengths DEF FrameStarts
    <3>4. 0 - f \in Int /\ 0 - f <= 0
      BY <3>3
    <3>5. CountTo(0 - f) = 0
      BY <3>4, CountNone
    <3>. QED  BY <3>1, <3>2, <3>5 DEF Counted, Before
  <2>. QED  BY <2>1, <2>2
<1>8. \A g \in outTags : g.short # c
  BY <1>1, <1>4 DEF FInv, TagPlaces
<1>9. TagPlaces'
  <2>1. d_state' = "COPY" => d_count' = 0
    BY <1>1 DEF SyncMore, SyncDone
  <2>2. ASSUME NEW g \in outTags
        PROVE  /\ g.short \in tags' /\ g.at < written' /\ g.short <= c
               /\ d_state' = "COPY" => g.at < written' - d_count'
    BY <1>1, <1>4, <2>1, Numbers DEF FInv, TagPlaces
  <2>. QED  BY <1>1, <1>5, <1>8, <2>2 DEF TagPlaces
<1>10. InOrder' /\ OutBefore' /\ SymbolsIntact'
  BY <1>1 DEF FInv, InOrder, OutBefore, SymbolsIntact
<1>11. Announced'
  <2>1. ~(d_state' = "COPY" /\ d_frame_start' < d_offset')
    <3>1. CASE SyncMore(n)
      BY <1>1, <3>1 DEF SyncMore
    <3>2. CASE SyncDone(n)
      <4>1. d_offset' = 0 /\ d_frame_start' \in FrameStarts
        BY <3>2 DEF SyncDone, search_frame_start
      <4>. QED  BY <4>1, Numbers, Lengths DEF FrameStarts
    <3>. QED  BY <3>1, <3>2
  <2>. QED  BY <1>1, <1>4, <1>5, <2>1 DEF FInv, Announced
<1>12. CompleteUpToDelay'
  BY <1>1, <1>4, <1>5, StillComplete DEF FInv
<1>. QED  BY <1>6, <1>7, <1>9, <1>10, <1>11, <1>12 DEF FInv

\* Padding in front of the next frame, when the one at hand has been announced.
LEMMA ResetKeeps ==
    ASSUME IInv, FInv, NEW noutput \in 1..MAX_OUTPUT, Reset(noutput)
    PROVE  FInv'
<1>1. /\ d_state = "RESET" \/ (d_state = "COPY" /\ AtTag)
      /\ d_state' \in {"SYNC", "RESET"}
      /\ d_state' = "SYNC" => d_offset' = 0
      /\ UNCHANGED <<sent, tags, nread, d_frame_start, out, outTags>>
  BY DEF Reset, streamVars
<1>2. nread \in tags
  BY <1>1 DEF IInv, Position, AtTag
<1>3. Current' = nread
  BY <1>1, Numbers DEF Current
<1>4. written <= written'
  <2>1. /\ written' = written + (IF Padding < noutput THEN Padding ELSE noutput)
    BY DEF Reset
  <2>2. Padding \in Nat /\ noutput \in Nat /\ written \in Nat
    <3>1. Padding \in Nat
      <4>1. Whole(0)
        BY SymNat, WholeMultiple
      <4>. QED  BY <4>1, PaddingFills, Numbers
    <3>. QED  BY <3>1, Numbers
  <2>. QED  BY <2>1, <2>2
<1>5. CurrentPlace'
  BY <1>1, <1>3, Numbers DEF CurrentPlace
<1>6. Counted'
  BY <1>1 DEF Counted
<1>7. Current <= nread /\ Current \in Int /\ \A t \in tags : Current < t => nread <= t
  BY Numbers DEF FInv, CurrentPlace
<1>8. d_state = "COPY" => Current < nread /\ d_frame_start < d_offset
  <2>. SUFFICES ASSUME d_state = "COPY" PROVE Current < nread /\ d_frame_start < d_offset
    OBVIOUS
  <2>1. Current \in tags /\ nread - d_offset = Current + SYNC_LENGTH
    BY DEF FInv, CurrentPlace
  <2>2. SYNC_LENGTH > 0
    BY Lengths, Numbers
  <2>3. Current < nread
    BY <2>1, <2>2, Numbers
  <2>4. nread - Current > MIN_GAP
    BY <1>2, <2>1, <2>3 DEF IInv, TagsApart
  <2>. QED  BY <2>1, <2>3, <2>4, Numbers
<1>9. TagPlaces'
  <2>1. ASSUME NEW g \in outTags
        PROVE  g.short \in tags /\ g.at < written' /\ g.short <= nread /\ g.short # nread
    <3>1. g.short \in tags /\ g.at < written /\ g.short <= Current /\ g.short \in Int
          /\ (g.short = Current => d_state = "COPY")
      BY Numbers DEF FInv, TagPlaces
    <3>2. g.at < written'
      <4>1. written' \in Nat
        BY ResetStep DEF IInv, TypeOK
      <4>. QED  BY <1>4, <3>1, <4>1, Numbers
    <3>3. g.short < nread
      <4>1. CASE d_state = "COPY"
        BY <1>7, <1>8, <3>1, <4>1, Numbers
      <4>2. CASE d_state # "COPY"
        BY <1>7, <3>1, <4>2, Numbers
      <4>. QED  BY <4>1, <4>2
    <3>. QED  BY <3>1, <3>2, <3>3, Numbers
  <2>. QED  BY <1>1, <1>3, <2>1 DEF TagPlaces
<1>10. InOrder' /\ SymbolsIntact'
  BY <1>1 DEF FInv, InOrder, SymbolsIntact
<1>11. OutBefore'
  <2>1. written' \in Nat /\ out' = out
    BY <1>1, ResetStep DEF IInv, TypeOK
  <2>2. ASSUME NEW w \in out PROVE w.at < written'
    <3>1. w.at < written /\ w.at \in Nat /\ written \in Nat
      BY Numbers DEF FInv, OutBefore
    <3>. QED  BY <1>4, <2>1, <3>1
  <2>. QED  BY <2>1, <2>2 DEF OutBefore
<1>12. Announced'
  <2>1. ASSUME NEW t \in tags, t < nread PROVE \E g \in outTags : g.short = t
    <3>1. CASE t < Current
      BY <3>1 DEF FInv, Announced
    <3>2. CASE t = Current
      <4>1. d_state = "COPY"
        BY <1>1, <2>1, <3>2, Numbers DEF Current
      <4>. QED  BY <1>8, <3>2, <4>1 DEF FInv, Announced
    <3>3. CASE Current < t
      BY <1>7, <2>1, <3>3, Numbers
    <3>. QED  BY <1>7, <3>1, <3>2, <3>3, Numbers
  <2>. QED  BY <1>1, <1>3, <2>1 DEF Announced
<1>13. CompleteUpToDelay'
  BY <1>1, StillComplete, Numbers DEF FInv
<1>. QED  BY <1>5, <1>6, <1>9, <1>10, <1>11, <1>12, <1>13 DEF FInv

\* A COPY call sends the samples that are kept, each at the place of its count,
\* and tags the first.
LEMMA CopyKeeps ==
    ASSUME IInv, FInv, NEW n, NEW noutput, Copy(n, noutput)
    PROVE  FInv'
<1>1. PICK i \in 0..n :
        /\ nread' = nread + i
        /\ d_offset' = d_offset + i
        /\ out' = out \cup
             {[at |-> written + Cardinality(KeptIn(off - d_offset)),
               src |-> nread + (off - d_offset) - DELAY] : off \in KeptIn(i)}
        /\ outTags' = outTags \cup
             {[at |-> written, start |-> off,
               short |-> d_freq_offset_short, long |-> d_freq_offset] :
                 off \in {d_frame_start} \cap (d_offset..(d_offset + i - 1))}
        /\ written' = written + Cardinality(KeptIn(i))
        /\ d_count' = d_count + Cardinality(KeptIn(i))
  BY DEF Copy
<1>2. /\ d_state = "COPY" /\ NInput(n) /\ ~AtTag
      /\ UNCHANGED <<sent, tags, d_state, d_frame_start, d_freq_offset,
                     d_freq_offset_short>>
  BY DEF Copy, streamVars
<1>3. n \in Nat /\ i \in Nat /\ i <= n
  BY <1>2, Numbers DEF NInput, Available
<1>4. PICK F \in Int, fs \in Nat : F = d_freq_offset_short /\ fs = d_frame_start
  BY Numbers
<1>5. Current = F /\ Current' = F
  BY <1>2, <1>4 DEF Current
<1>6. /\ F \in tags /\ F <= nread /\ nread = F + SYNC_LENGTH + d_offset
      /\ \A t \in tags : F < t => nread <= t
  <2>1. F \in tags /\ F <= nread /\ nread - d_offset = F + SYNC_LENGTH
    BY <1>2, <1>5 DEF FInv, CurrentPlace
  <2>. QED  BY <1>5, <2>1, Numbers DEF FInv, CurrentPlace
<1>7. CurrentPlace'
  <2>1. ASSUME NEW t \in tags, F < t PROVE nread' <= t
    <3>1. nread <= t /\ ~(nread <= t /\ t < nread + n)
      BY <1>2, <1>6, <2>1 DEF NInput
    <3>. QED  BY <1>1, <1>3, <3>1, Numbers
  <2>2. nread' - d_offset' = F + SYNC_LENGTH /\ F <= nread'
    BY <1>1, <1>3, <1>6, Numbers
  <2>. QED  BY <1>2, <1>5, <1>6, <2>1, <2>2 DEF CurrentPlace

\* Counts.
<1>8. PICK b \in Nat, e \in Nat : b = Before(d_offset) /\ e = Before(d_offset + i)
  BY <1>3, Numbers, BeforeNext
<1>9. b <= e /\ Cardinality(KeptIn(i)) = e - b
  BY <1>3, <1>8, Numbers, BeforeGrows, KeptBefore
<1>10. d_count = b /\ b <= written
  <2>1. d_count = b
    BY <1>2, <1>8 DEF FInv, Counted
  <2>. QED  BY <2>1 DEF IInv, Alignment
<1>11. /\ written' = written + (e - b) /\ d_count' = e
       /\ written' \in Nat /\ written <= written' /\ written' - e = written - b
  BY <1>1, <1>8, <1>9, <1>10, Numbers
<1>12. Counted'
  <2>1. PICK d \in Nat : d = d_offset + i
    BY <1>3, Numbers
  <2>2. PICK x : x = d - fs
    OBVIOUS
  <2>3. e = Before(d)
    BY <1>8, <2>1
  <2>4. e = CountTo(x)
    BY <1>4, <2>2, <2>3 DEF Before
  <2>5. d_offset' = d /\ d_frame_start' = fs
    BY <1>1, <1>2, <1>4, <2>1
  <2>6. d_offset' - d_frame_start' = x
    BY <2>2, <2>5
  <2>. QED  BY <1>11, <2>4, <2>6 DEF Counted, Before
<1>13. ASSUME NEW off \in KeptIn(i)
       PROVE  /\ off \in Nat /\ off >= fs /\ off >= d_offset /\ off < d_offset + i
              /\ Before(off) \in Nat /\ b <= Before(off) /\ Before(off) < e
              /\ RelOf(Before(off)) = off - fs
              /\ Cardinality(KeptIn(off - d_offset)) = Before(off) - b
  <2>1. off \in Nat /\ off >= d_offset /\ off < d_offset + i /\ Kept(off)
    BY <1>3, Numbers DEF KeptIn
  <2>2. /\ off - fs \in Nat /\ Before(off) \in Nat
        /\ Before(off + 1) = Before(off) + 1 /\ RelOf(Before(off)) = off - fs
    BY <1>4, <2>1, BeforeNext, Numbers
  <2>3. b <= Before(off)
    BY <1>8, <2>1, BeforeGrows, Numbers
  <2>4. Before(off + 1) <= e
    <3>1. off + 1 \in Nat /\ d_offset + i \in Nat /\ off + 1 <= d_offset + i
      BY <1>3, <2>1, Numbers
    <3>. QED  BY <1>8, <3>1, BeforeGrows, Numbers
  <2>5. PICK k \in Nat : k = off - d_offset
    BY <2>1, Numbers
  <2>6. d_offset + k = off
    BY <2>1, <2>5, Numbers
  <2>7. Cardinality(KeptIn(k)) = Before(off) - b
    BY <1>8, <2>6, KeptBefore, Numbers
  <2>. QED  BY <1>4, <1>8, <2>1, <2>2, <2>3, <2>4, <2>5, <2>7

\* The tag.
<1>14. PICK g0 : g0 = [at |-> written, start |-> fs, short |-> F, long |-> d_freq_offset]
  OBVIOUS
<1>15. /\ \A g \in outTags' : g \in outTags \/ (g = g0 /\ d_offset <= fs /\ fs < d_offset + i)
       /\ d_offset <= fs /\ fs < d_offset + i => g0 \in outTags'
       /\ outTags \subseteq outTags'
  <2>1. ASSUME NEW off PROVE off \in {d_frame_start} \cap (d_offset..(d_offset + i - 1))
                               <=> off = fs /\ d_offset <= fs /\ fs < d_offset + i
    BY <1>3, <1>4, Numbers
  <2>. QED  BY <1>1, <1>4, <1>14, <2>1
<1>16. g0.at = written /\ g0.start = fs /\ g0.short = F
  BY <1>14
<1>17. ASSUME d_offset <= fs PROVE b = 0
  <2>1. d_offset - fs \in Int /\ d_offset - fs <= 0
    BY <1>17, Numbers
  <2>. QED  BY <1>4, <1>8, <2>1, CountNone DEF Before
<1>18. ASSUME d_offset <= fs, fs < d_offset + i PROVE b < e
  <2>1. fs \in KeptIn(i)
    <3>1. RelOf(0) = 0
      BY Lengths DEF RelOf
    <3>2. Kept(fs)
      BY <1>4, <3>1, JthKept, Numbers
    <3>. QED  BY <1>3, <1>18, <3>2, Numbers DEF KeptIn
  <2>. QED  BY <1>8, <1>13, <2>1
<1>19. ASSUME NEW g \in outTags
       PROVE  /\ g.at \in Nat /\ g.start \in Nat /\ g.short \in Int
              /\ g.short \in tags /\ g.at < written /\ g.short <= F
              /\ g.short < F => g.at < written - b
              /\ g.short = F => fs < d_offset /\ g.at = written - b /\ g.start = fs
  BY <1>2, <1>4, <1>5, <1>10, Numbers DEF FInv, TagPlaces
<1>20. ASSUME NEW g \in outTags'
       PROVE  /\ g.at \in Nat /\ g.start \in Nat /\ g.short \in Int
              /\ g.short \in tags /\ g.at < written' /\ g.short <= F
              /\ g.short < F => g.at < written - b /\ g \in outTags
              /\ g.short = F => fs < d_offset + i /\ g.at = written - b /\ g.start = fs
              /\ g.short = F /\ fs < d_offset => g \in outTags
  <2>1. CASE g \in outTags
    BY <1>3, <1>8, <1>11, <1>19, <2>1, Numbers
  <2>2. CASE g = g0 /\ d_offset <= fs /\ fs < d_offset + i
    <3>1. b = 0 /\ b < e
      BY <1>17, <1>18, <2>2
    <3>. QED  BY <1>6, <1>8, <1>11, <1>16, <2>2, <3>1, Numbers
  <2>. QED  BY <1>15, <2>1, <2>2
<1>21. TagPlaces'
  BY <1>2, <1>1, <1>4, <1>5, <1>11, <1>20 DEF TagPlaces
<1>22. InOrder'
  <2>. SUFFICES ASSUME NEW g \in outTags', NEW h \in outTags', g # h
                PROVE  (g.at < h.at <=> g.short < h.short) /\ g.at # h.at
    BY DEF InOrder
  <2>1. CASE g \in outTags /\ h \in outTags
    BY <2>1 DEF FInv, InOrder
  <2>2. CASE g \in outTags /\ h = g0 /\ d_offset <= fs
    BY <1>16, <1>19, <2>2, Numbers
  <2>3. CASE h \in outTags /\ g = g0 /\ d_offset <= fs
    BY <1>16, <1>19, <2>3, Numbers
  <2>. QED  BY <1>15, <2>1, <2>2, <2>3
<1>23. Announced'
  <2>1. ASSUME NEW t \in tags, t < F PROVE \E g \in outTags' : g.short = t
    BY <1>5, <1>15, <2>1 DEF FInv, Announced
  <2>2. ASSUME fs < d_offset + i PROVE \E g \in outTags' : g.short = F
    <3>1. CASE fs < d_offset
      BY <1>2, <1>4, <1>5, <1>15, <3>1 DEF FInv, Announced
    <3>2. CASE d_offset <= fs
      BY <1>15, <1>16, <2>2, <3>2
    <3>. QED  BY <3>1, <3>2, Numbers
  <2>. QED  BY <1>1, <1>2, <1>4, <1>5, <2>1, <2>2 DEF Announced

\* The samples.
<1>24. PICK Put : Put = [off \in KeptIn(i) |->
                           [at  |-> written + Cardinality(KeptIn(off - d_offset)),
                            src |-> nread + (off - d_offset) - DELAY]]
  OBVIOUS
<1>25. out' = out \cup {Put[off] : off \in KeptIn(i)}
  BY <1>1, <1>24
<1>26. ASSUME NEW off \in KeptIn(i)
       PROVE  /\ Put[off].at = written - b + Before(off)
              /\ Put[off].src = F + off
              /\ Put[off].at \in Nat /\ Put[off].at < written'
  <2>1. /\ Put[off].at = written + Cardinality(KeptIn(off - d_offset))
        /\ Put[off].src = nread + (off - d_offset) - DELAY
    BY <1>24
  <2>2. Put[off].at = written - b + Before(off)
    BY <1>8, <1>13, <2>1, Numbers
  <2>3. Put[off].src = F + off
    BY <1>6, <1>13, <2>1, DelayAssumption, Numbers
  <2>4. written - b + Before(off) \in Nat /\ written - b + Before(off) < written'
    BY <1>8, <1>10, <1>11, <1>13, Numbers
  <2>. QED  BY <2>2, <2>3, <2>4
<1>27. OutBefore'
  <2>1. ASSUME NEW w \in out PROVE w.at < written'
    BY <1>11, <2>1, Numbers DEF FInv, OutBefore
  <2>. QED  BY <1>25, <1>26, <2>1 DEF OutBefore
<1>28. SymbolsIntact'
  <2>1. ASSUME NEW w \in out
        PROVE  \E g \in outTags' :
                 /\ g.at <= w.at
                 /\ \A h \in outTags' : h.at <= w.at => h.at <= g.at
                 /\ w.src = g.short + g.start + RelOf(w.at - g.at)
    <3>1. PICK g \in outTags :
                 /\ g.at <= w.at
                 /\ \A h \in outTags : h.at <= w.at => h.at <= g.at
                 /\ w.src = g.short + g.start + RelOf(w.at - g.at)
      BY DEF FInv, SymbolsIntact
    <3>2. w.at < written /\ w.at \in Nat
      BY Numbers DEF FInv, OutBefore
    <3>3. ~(g0.at <= w.at)
      BY <1>16, <3>2, Numbers
    <3>4. \A h \in outTags' : h.at <= w.at => h.at <= g.at
      BY <1>15, <3>1, <3>3
    <3>. QED  BY <1>15, <3>1, <3>4
  <2>2. ASSUME NEW off \in KeptIn(i)
        PROVE  \E g \in outTags' :
                 /\ g.at <= Put[off].at
                 /\ \A h \in outTags' : h.at <= Put[off].at => h.at <= g.at
                 /\ Put[off].src = g.short + g.start + RelOf(Put[off].at - g.at)
    <3>1. fs < d_offset + i /\ off \in Nat
      BY <1>3, <1>13, Numbers
    <3>2. PICK g \in outTags' : g.short = F
      BY <1>1, <1>2, <1>4, <1>5, <1>23, <3>1 DEF Announced
    <3>3. g.at = written - b /\ g.start = fs /\ g.at \in Nat
      BY <1>20, <3>2
    <3>4. Put[off].at = g.at + Before(off) /\ Before(off) \in Nat
      BY <1>13, <1>26, <3>3
    <3>5. ASSUME NEW h \in outTags' PROVE h.at <= g.at
      <4>1. h.short < F \/ h.short = F
        BY <1>20
      <4>. QED  BY <1>20, <3>3, <4>1
    <3>6. Put[off].at - g.at = Before(off) /\ g.at <= Put[off].at
      BY <3>3, <3>4
    <3>7. Put[off].src = F + fs + RelOf(Before(off))
      BY <1>13, <1>26
    <3>. QED  BY <3>2, <3>3, <3>5, <3>6, <3>7
  <2>. QED  BY <1>25, <2>1, <2>2 DEF SymbolsIntact
<1>29. CompleteUpToDelay'
  <2>. SUFFICES ASSUME NEW g \in outTags', NEW j \in 0..STREAM,
                       NEW due, due = g.short + g.start + RelOf(j) + DELAY,
                       due < nread', ~\E t \in tags : g.short < t /\ t <= due
                PROVE  \E w \in out' : w.at = g.at + j
    BY <1>2 DEF CompleteUpToDelay
  <2>1. PICK r \in Nat : r = RelOf(j)
    BY SentIsKept
  <2>2. due = g.short + g.start + r + SYNC_LENGTH /\ due \in Int
    BY <1>20, <2>1, DelayAssumption, Numbers
  <2>3. ASSUME g \in outTags, due < nread PROVE \E w \in out' : w.at = g.at + j
    <3>1. \E w \in out : w.at = g.at + j
      BY <2>3 DEF FInv, CompleteUpToDelay
    <3>. QED  BY <1>25, <3>1
  <2>4. CASE g.short < F
    <3>1. ~(F <= due)
      BY <1>6, <2>4
    <3>2. due < nread
      BY <1>6, <2>2, <3>1, Numbers
    <3>. QED  BY <1>20, <2>3, <2>4, <3>2
  <2>5. CASE g.short = F
    <3>1. g.start = fs /\ g.at = written - b
      BY <1>20, <2>5
    <3>2. PICK off \in Nat : off = fs + r
      OBVIOUS
    <3>3. due = F + SYNC_LENGTH + off
      BY <2>2, <2>5, <3>1, <3>2, Numbers
    <3>4. off < d_offset + i
      BY <1>1, <1>3, <1>6, <3>3, Numbers
    <3>5. CASE off < d_offset
      <4>1. fs < d_offset /\ due < nread
        BY <1>6, <2>1, <3>2, <3>3, <3>5, Numbers
      <4>. QED  BY <1>20, <2>3, <2>5, <4>1
    <3>6. CASE off >= d_offset
      <4>1. Kept(off) /\ Before(off) = j
        BY <1>4, <2>1, <3>2, JthKept, Numbers
      <4>2. off \in KeptIn(i)
        BY <1>3, <3>4, <3>6, <4>1, Numbers DEF KeptIn
      <4>3. Put[off].at = g.at + j
        BY <1>26, <3>1, <4>1, <4>2
      <4>. QED  BY <1>25, <4>2, <4>3
    <3>. QED  BY <3>5, <3>6, Numbers
  <2>. QED  BY <1>20, <2>4, <2>5
<1>. QED  BY <1>7, <1>12, <1>21, <1>22, <1>23, <1>27, <1>28, <1>29 DEF FInv

\* The invariant is inductive, with that of SyncLongProofs.
LEMMA NextFInv == ASSUME IInv, FInv, [Next]_vars PROVE FInv'
<1>1. CASE Feed
  BY <1>1, FeedKeeps
<1>2. CASE Work
  BY <1>2, SyncKeeps, CopyKeeps, ResetKeeps DEF Work
<1>3. CASE UNCHANGED vars
  <2>1. Current' = Current
    BY <1>3 DEF vars, streamVars, longVars, Current
  <2>2. CurrentPlace' /\ Counted' /\ TagPlaces' /\ Announced'
    BY <1>3, <2>1 DEF vars, streamVars, longVars, FInv, CurrentPlace, Counted, Before,
       TagPlaces, Announced
  <2>3. InOrder' /\ OutBefore' /\ SymbolsIntact' /\ CompleteUpToDelay'
    BY <1>3 DEF vars, streamVars, longVars, FInv, InOrder, OutBefore, SymbolsIntact,
       CompleteUpToDelay
  <2>. QED  BY <2>2, <2>3 DEF FInv
<1>. QED  BY <1>1, <1>2, <1>3 DEF Next

\* What the theorems below follow from.
THEOREM FramesInvariance == Spec => [](IInv /\ FInv)
<1>1. Init => IInv /\ FInv
  BY InitIInv, InitFInv
<1>2. IInv /\ FInv /\ [Next]_vars => IInv' /\ FInv'
  BY NextIInv, NextFInv
<1>. QED  BY <1>1, <1>2, PTL DEF Spec

\* However the scheduler cuts the stream, what follows an output tag is the
\* samples of its frame, without their guard intervals, none lost, doubled or
\* shifted (sync_long.cc, case COPY).
THEOREM FramesIntact == Spec => []SymbolsIntact
<1>1. FInv => SymbolsIntact
  BY DEF FInv
<1>. QED  BY <1>1, FramesInvariance, PTL

\* A frame is output completely but for what in_delayed still held when the
\* next tag came.
THEOREM FramesComplete == Spec => []CompleteUpToDelay
<1>1. FInv => CompleteUpToDelay
  BY DEF FInv
<1>. QED  BY <1>1, FramesInvariance, PTL

\* Each tag of the input yields one tag of the output, in order, at the latest
\* when the block is past the longest search (add_item_tag in case COPY).
THEOREM EachFrameTagged == Spec => []OneTagPerFrame
<1>1. ASSUME IInv, FInv PROVE OneTagPerFrame
  <2>1. \A g \in outTags : g.short \in tags
    BY <1>1 DEF FInv, TagPlaces
  <2>2. \A g, h \in outTags : g # h => (g.at < h.at <=> g.short < h.short)
                                       /\ g.at # h.at
    BY <1>1 DEF FInv, InOrder
  <2>3. ASSUME NEW t \in tags, nread > t + 2 * SYNC_LENGTH
        PROVE  \E g \in outTags : g.short = t
    <3>1. CASE t < Current
      BY <1>1, <3>1 DEF FInv, Announced
    <3>2. CASE t = Current
      <4>1. d_state = "COPY"
        <5>1. CASE d_state = "SYNC"
          <6>1. d_offset < SYNC_LENGTH /\ t = nread - d_offset
            BY <1>1, <3>2, <5>1 DEF IInv, Position, Current
          <6>. QED  BY <1>1, <2>3, <6>1, Numbers
        <5>2. CASE d_state = "RESET"
          BY <1>1, <2>3, <3>2, <5>2, Numbers DEF Current
        <5>. QED  BY <1>1, <5>1, <5>2 DEF IInv, TypeOK
      <4>2. nread - d_offset = t + SYNC_LENGTH
        BY <1>1, <3>2, <4>1 DEF FInv, CurrentPlace
      <4>3. d_frame_start < d_offset
        BY <1>1, <2>3, <4>2, Numbers
      <4>. QED  BY <1>1, <3>2, <4>1, <4>3 DEF FInv, Announced
    <3>3. CASE Current < t
      <4>1. nread <= t
        BY <1>1, <3>3 DEF FInv, CurrentPlace
      <4>. QED  BY <1>1, <2>3, <4>1, Numbers
    <3>. QED  BY <1>1, <3>1, <3>2, <3>3, Numbers
  <2>. QED  BY <2>1, <2>2, <2>3 DEF OneTagPerFrame
<1>. QED  BY <1>1, FramesInvariance, PTL

=============================================================================
