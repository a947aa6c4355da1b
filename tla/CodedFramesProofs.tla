------------------------- MODULE CodedFramesProofs --------------------------
(***************************************************************************)
(* Proofs about the coding chain, for every frame, buffer and noise: the   *)
(* decoder's metrics stay within a byte, its reads within its buffers, and *)
(* points are decided as they were sent.                                   *)
(***************************************************************************)
EXTENDS CodedFrames, FiniteSetTheorems, SequenceTheorems, TLAPS

-----------------------------------------------------------------------------
(* Least and greatest of a set of metrics.                                 *)

\* Where every number of a set has a smaller one, the set is empty.
LEMMA Descent ==
  ASSUME NEW T \in SUBSET (0 .. 32), \A x \in T : \E y \in T : y < x
  PROVE  T = {}
<1>. DEFINE Above(n) == \A y \in T : y >= n
<1>1. Above(0)
  OBVIOUS
<1>2. \A n \in 0 .. 33 : Above(n) => Above(n + 1)
  OBVIOUS
<1>. HIDE DEF Above
<1>3. Above(11)
  BY <1>1, <1>2
<1>4. Above(22)
  BY <1>2, <1>3
<1>5. Above(33)
  BY <1>2, <1>4
<1>. QED  BY <1>5 DEF Above

\* Min finds the least metric.
LEMMA MinIs ==
  ASSUME NEW T \in SUBSET (0 .. 32), T # {}
  PROVE  Min(T) \in T /\ \A y \in T : Min(T) <= y
<1>1. PICK x \in T : \A y \in T : ~(y < x)
  BY Descent
<1>2. \A y \in T : x <= y
  BY <1>1
<1>. QED  BY <1>2, Zenon DEF Min

\* One metric is the greatest.
LEMMA BestExists ==
  ASSUME NEW metric \in [States -> 0 .. 16]
  PROVE  \E best \in States : \A n \in States : metric[n] <= metric[best]
<1>. DEFINE T == {16 - metric[n] : n \in States}
<1>1. T \in SUBSET (0 .. 32) /\ T # {}
  BY DEF States
<1>2. PICK best \in States : Min(T) = 16 - metric[best]
  BY <1>1, MinIs
<1>3. \A n \in States : 16 - metric[best] <= 16 - metric[n]
  BY <1>1, <1>2, MinIs
<1>. QED  BY <1>3

-----------------------------------------------------------------------------
(* The trellis.                                                            *)

\* A branch is a bit.
LEMMA BranchBits ==
  ASSUME NEW i \in 0 .. 31, NEW poly \in 1 .. 2
  PROVE  Branch[i][poly] \in 0 .. 1
<1>. DEFINE S == {b \in Taps[poly] : Bit(2 * i, b) = 1}
<1>1. S \subseteq 0 .. 6
  BY DEF Taps
<1>2. IsFiniteSet(S)
  <2>1. PICK first \in Int, last \in Int : first = 0 /\ last = 6
    OBVIOUS
  <2>2. IsFiniteSet(0 .. 6)
    BY <2>1, FS_Interval
  <2>. QED  BY <1>1, <2>2, FS_Subset
<1>3. Cardinality(S) \in Nat
  BY <1>2, FS_CardinalityType
<1>. QED  BY <1>3 DEF Branch

\* One step of the trellis: no metric is below either of those it comes from,
\* nor more than two above the greatest; paths stay bytes.
LEMMA ButterflySteps ==
  ASSUME NEW bound \in Nat, NEW metric \in [States -> 0 .. bound],
         NEW path \in [States -> 0 .. 255], NEW a \in 0 .. 2, NEW b \in 0 .. 2,
         NEW next, next = Butterfly(metric, path, a, b)
  PROVE  /\ next.metric \in [States -> 0 .. bound + 2]
         /\ next.path \in [States -> 0 .. 255]
         /\ \A n \in States : \A x \in 0 .. 1 :
              next.metric[n] >= metric[(n \div 2) + 32 * x]
<1>. DEFINE full == IF a = 2 \/ b = 2 THEN 1 ELSE 2
            apart == [i \in 0 .. 31 |->
              IF a = 2 THEN Xor(Branch[i][2], b)
              ELSE IF b = 2 THEN Xor(Branch[i][1], a)
              ELSE Xor(Branch[i][1], a) + Xor(Branch[i][2], b)]
            sym(n) == IF n % 2 = 0 THEN apart[n \div 2] ELSE full - apart[n \div 2]
            lower(n) == metric[n \div 2] + full - sym(n)
            upper(n) == metric[(n \div 2) + 32] + sym(n)
            best == [n \in States |->
              IF lower(n) > upper(n)
              THEN <<lower(n), (2 * path[n \div 2]) % 256>>
              ELSE <<upper(n), ((2 * path[(n \div 2) + 32]) % 256) + 1>>]
<1>1. /\ next.metric = [n \in States |-> best[n][1]]
      /\ next.path = [n \in States |-> best[n][2]]
  BY DEF Butterfly
<1>2. ASSUME NEW i \in 0 .. 31
      PROVE  apart[i] \in 0 .. full
  <2>1. PICK p \in 0 .. 1, q \in 0 .. 1 : p = Branch[i][1] /\ q = Branch[i][2]
    BY BranchBits
  <2>2. Xor(p, a) \in 0 .. 1 /\ Xor(q, b) \in 0 .. 1
    BY DEF Xor
  <2>. QED  BY <2>1, <2>2
<1>3. full \in 1 .. 2
  BY SMTT(40)
<1>. HIDE DEF apart, full
<1>4. ASSUME NEW n \in States
      PROVE  /\ best[n][1] \in 0 .. bound + 2
             /\ best[n][2] \in 0 .. 255
             /\ best[n][1] >= metric[n \div 2] /\ best[n][1] >= metric[(n \div 2) + 32]
  <2>1. n \div 2 \in 0 .. 31 /\ n \div 2 \in States /\ (n \div 2) + 32 \in States
    BY DEF States
  <2>2. PICK s \in 0 .. 2 : s = sym(n) /\ s <= full
    <3>1. PICK v \in 0 .. full : v = apart[n \div 2]
      BY <1>2, <2>1
    <3>2. sym(n) \in 0 .. full
      BY <1>3, <3>1
    <3>. QED  BY <1>3, <3>2
  <2>3. PICK p \in 0 .. bound, q \in 0 .. bound :
          p = metric[n \div 2] /\ q = metric[(n \div 2) + 32]
    BY <2>1
  <2>4. lower(n) = p + full - s /\ upper(n) = q + s
    BY <2>2, <2>3, SMTT(40)
  <2>5. PICK v \in 0 .. 255, w \in 0 .. 255 :
          v = path[n \div 2] /\ w = path[(n \div 2) + 32]
    BY <2>1, ZenonT(60)
  <2>6. (2 * v) % 256 \in 0 .. 255 /\ ((2 * w) % 256) + 1 \in 0 .. 255
    BY <2>5, SMTT(40)
  <2>7. best[n] = IF p + full - s > q + s THEN <<p + full - s, (2 * v) % 256>>
                  ELSE <<q + s, ((2 * w) % 256) + 1>>
    BY <2>4, <2>5, ZenonT(60)
  <2>8. CASE p + full - s > q + s
    <3>1. best[n][1] = p + full - s /\ best[n][2] = (2 * v) % 256
      BY <2>7, <2>8
    <3>. QED  BY <1>3, <2>2, <2>3, <2>6, <2>8, <3>1, SMTT(40)
  <2>9. CASE ~(p + full - s > q + s)
    <3>1. best[n][1] = q + s /\ best[n][2] = ((2 * w) % 256) + 1
      BY <2>7, <2>9
    <3>. QED  BY <1>3, <2>2, <2>3, <2>6, <2>9, <3>1
  <2>. QED  BY <2>8, <2>9, Zenon
<1>. HIDE DEF best
<1>5. next.metric \in [States -> 0 .. bound + 2] /\ next.path \in [States -> 0 .. 255]
  BY <1>1, <1>4
<1>6. ASSUME NEW n \in States, NEW x \in 0 .. 1
      PROVE  next.metric[n] >= metric[(n \div 2) + 32 * x]
  <2>1. next.metric[n] = best[n][1]
    BY <1>1
  <2>2. CASE x = 0
    <3>1. (n \div 2) + 32 * x = n \div 2
      BY <2>2 DEF States
    <3>. QED  BY <1>4, <2>1, <3>1, SMTT(40)
  <2>3. CASE x = 1
    BY <1>4, <2>1, <2>3
  <2>. QED  BY <2>2, <2>3
<1>. QED  BY <1>5, <1>6, SMTT(40)

\* Two steps, an iteration of decode: likewise, from four states.
LEMMA Butterfly2Steps ==
  ASSUME NEW bound \in Nat, d_metric \in [States -> 0 .. bound],
         d_path \in [States -> 0 .. 255], NEW e,
         \A k \in 0 .. 3 : Symbol(e, in_count + k) \in 0 .. 2, in_count \in Nat,
         NEW after, after = Butterfly2(e)
  PROVE  /\ after.metric \in [States -> 0 .. bound + 4]
         /\ after.path \in [States -> 0 .. 255]
         /\ \A n \in States : \A y \in 0 .. 3 :
              after.metric[n] >= d_metric[(n \div 4) + 16 * y]
<1>1. PICK a \in 0 .. 2, b \in 0 .. 2, c \in 0 .. 2, d \in 0 .. 2 :
        /\ a = Symbol(e, in_count) /\ b = Symbol(e, in_count + 1)
        /\ c = Symbol(e, in_count + 2) /\ d = Symbol(e, in_count + 3)
  <2>1. in_count + 0 = in_count
    OBVIOUS
  <2>. QED  BY <2>1
<1>2. PICK once : once = Butterfly(d_metric, d_path, a, b)
  OBVIOUS
<1>3. after = Butterfly(once.metric, once.path, c, d)
  BY <1>1, <1>2, SMTT(40) DEF Butterfly2
<1>4. /\ once.metric \in [States -> 0 .. bound + 2]
      /\ once.path \in [States -> 0 .. 255]
      /\ \A n \in States : \A x \in 0 .. 1 :
           once.metric[n] >= d_metric[(n \div 2) + 32 * x]
  BY <1>2, ButterflySteps, ZenonT(60)
<1>5. PICK more \in Nat : more = bound + 2
  OBVIOUS
<1>6. /\ after.metric \in [States -> 0 .. more + 2]
      /\ after.path \in [States -> 0 .. 255]
      /\ \A n \in States : \A x \in 0 .. 1 :
           after.metric[n] >= once.metric[(n \div 2) + 32 * x]
  BY <1>3, <1>4, <1>5, ButterflySteps, ZenonT(60)
<1>7. ASSUME NEW n \in States, NEW y \in 0 .. 3
      PROVE  after.metric[n] >= d_metric[(n \div 4) + 16 * y]
  <2>1. PICK x \in 0 .. 1, z \in 0 .. 1 : y = x + 2 * z
    <3>1. y = (y % 2) + 2 * (y \div 2) /\ y % 2 \in 0 .. 1 /\ y \div 2 \in 0 .. 1
      OBVIOUS
    <3>. QED  BY <3>1
  <2>2. PICK between \in States : between = (n \div 2) + 32 * x
    BY SMTT(40) DEF States
  <2>3. (between \div 2) + 32 * z = (n \div 4) + 16 * y
    BY <2>1, <2>2, SMTT(40) DEF States
  <2>4. (n \div 4) + 16 * y \in States
    BY DEF States
  <2>5. after.metric[n] >= once.metric[between]
    BY <1>6, <2>2
  <2>6. once.metric[between] >= d_metric[(n \div 4) + 16 * y]
    BY <1>4, <2>3
  <2>7. /\ after.metric[n] \in Nat /\ once.metric[between] \in Nat
        /\ d_metric[(n \div 4) + 16 * y] \in Nat
    BY <1>4, <1>5, <1>6, <2>4
  <2>. QED  BY <2>5, <2>6, <2>7
<1>8. after.metric \in [States -> 0 .. bound + 4]
  BY <1>5, <1>6
<1>. QED  BY <1>6, <1>7, <1>8

\* The least metric becomes zero, and differences stay.
LEMMA RenormalizedIs ==
  ASSUME NEW top \in 0 .. 16, NEW metric \in [States -> 0 .. 32],
         \A n \in States : metric[n] \in top .. top + 16
  PROVE  Renormalized(metric) \in [States -> 0 .. 16]
<1>. DEFINE T == {metric[n] : n \in States}
<1>1. T \in SUBSET (0 .. 32) /\ T # {}
  <2>1. 0 \in States /\ \A n \in States : metric[n] \in 0 .. 32
    BY DEF States
  <2>. QED  BY <2>1, Zenon
<1>2. PICK least \in 0 .. 32 : least = Min(T) /\ least \in T
  BY <1>1, MinIs
<1>3. \A n \in States : least <= metric[n]
  BY <1>1, <1>2, MinIs
<1>4. least >= top
  BY <1>2
<1>5. Renormalized(metric) = [n \in States |-> metric[n] - least]
  BY <1>2 DEF Renormalized
<1>6. \A n \in States : metric[n] - least \in 0 .. 16
  BY <1>3, <1>4
<1>. QED  BY <1>5, <1>6

(* What the metrics are after each of the four iterations for a byte: none  *)
(* is above top, the greatest at the byte's first, by more than four for    *)
(* each; and states are reached from one another in six steps, so that in   *)
(* the end none is below it                                                 *)
AfterDecision == d_metric \in [States -> 0 .. 16]
AfterFirst ==
  \E top \in 0 .. 16, best \in States :
    d_metric \in [States -> 0 .. top + 4] /\ d_metric[best] >= top
AfterSecond ==
  \E top \in 0 .. 16, last \in 0 .. 15 :
    /\ d_metric \in [States -> 0 .. top + 8]
    /\ \A n \in States : n \div 4 = last => d_metric[n] >= top
AfterThird ==
  \E top \in 0 .. 16, last \in 0 .. 3 :
    /\ d_metric \in [States -> 0 .. top + 12]
    /\ \A n \in States : n \div 16 = last => d_metric[n] >= top
Metrics ==
  \/ in_count % 16 = 12 /\ AfterDecision
  \/ in_count % 16 = 0 /\ AfterFirst
  \/ in_count % 16 = 4 /\ AfterSecond
  \/ in_count % 16 = 8 /\ AfterThird

TrellisOK ==
  /\ in_count \in Nat
  /\ d_path \in [States -> 0 .. 255]
  /\ Metrics

\* An iteration keeps the metrics so, whatever symbols it reads.
LEMMA TrellisStep ==
  ASSUME TrellisOK, NEW e, NEW n_bits, DecodeStep(e, n_bits),
         \A k \in 0 .. 3 : Symbol(e, in_count + k) \in 0 .. 2
  PROVE  TrellisOK'
<1>1. PICK after : after = Butterfly2(e)
  OBVIOUS
<1>2. in_count \in Nat /\ d_path \in [States -> 0 .. 255] /\ in_count' = in_count + 4
  BY DEF TrellisOK, DecodeStep
<1>3. ASSUME NEW bound \in Nat, d_metric \in [States -> 0 .. bound]
      PROVE  /\ after.metric \in [States -> 0 .. bound + 4]
             /\ after.path \in [States -> 0 .. 255]
             /\ \A n \in States : \A y \in 0 .. 3 :
                  after.metric[n] >= d_metric[(n \div 4) + 16 * y]
  BY <1>1, <1>2, <1>3, Butterfly2Steps
<1>4. ~OutputDue => d_metric' = after.metric /\ d_path' = after.path
  BY <1>1 DEF DecodeStep
<1>5. OutputDue <=> in_count % 16 = 8
  BY <1>2 DEF OutputDue
<1>6. CASE in_count % 16 = 12 /\ AfterDecision
  <2>1. d_metric \in [States -> 0 .. 16]
    BY <1>6 DEF AfterDecision
  <2>2. PICK greatest \in States : \A n \in States : d_metric[n] <= d_metric[greatest]
    BY <2>1, BestExists
  <2>3. PICK top \in 0 .. 16 : top = d_metric[greatest]
    BY <2>1
  <2>4. d_metric \in [States -> 0 .. top]
    BY <2>1, <2>2, <2>3
  <2>5. /\ after.metric \in [States -> 0 .. top + 4]
        /\ after.path \in [States -> 0 .. 255]
        /\ \A n \in States : \A y \in 0 .. 3 :
             after.metric[n] >= d_metric[(n \div 4) + 16 * y]
    BY <1>3, <2>4
  <2>6. PICK best \in States, y \in 0 .. 3 : (best \div 4) + 16 * y = greatest
    <3>1. /\ 4 * (greatest % 16) \in States /\ greatest \div 16 \in 0 .. 3
          /\ ((4 * (greatest % 16)) \div 4) + 16 * (greatest \div 16) = greatest
      BY DEF States
    <3>. QED  BY <3>1
  <2>7. after.metric[best] >= top
    BY <2>3, <2>5, <2>6
  <2>8. AfterFirst'
    <3>1. d_metric' = after.metric
      BY <1>4, <1>5, <1>6
    <3>2. d_metric' \in [States -> 0 .. top + 4] /\ d_metric'[best] >= top
      BY <2>5, <2>7, <3>1
    <3>. QED  BY <3>2, Zenon DEF AfterFirst
  <2>9. in_count' % 16 = 0
    BY <1>2, <1>6
  <2>. QED  BY <1>2, <1>4, <1>5, <1>6, <2>5, <2>8, <2>9 DEF TrellisOK, Metrics
<1>7. CASE in_count % 16 = 0 /\ AfterFirst
  <2>1. PICK top \in 0 .. 16, best \in States :
          d_metric \in [States -> 0 .. top + 4] /\ d_metric[best] >= top
    BY <1>7 DEF AfterFirst
  <2>2. PICK bound \in Nat : bound = top + 4
    OBVIOUS
  <2>3. /\ after.metric \in [States -> 0 .. bound + 4]
        /\ after.path \in [States -> 0 .. 255]
        /\ \A n \in States : \A y \in 0 .. 3 :
             after.metric[n] >= d_metric[(n \div 4) + 16 * y]
    BY <1>3, <2>1, <2>2
  <2>4. PICK last \in 0 .. 15, y \in 0 .. 3 : last + 16 * y = best
    <3>1. /\ best % 16 \in 0 .. 15 /\ best \div 16 \in 0 .. 3
          /\ (best % 16) + 16 * (best \div 16) = best
      BY DEF States
    <3>. QED  BY <3>1
  <2>5. ASSUME NEW n \in States, n \div 4 = last
        PROVE  after.metric[n] >= top
    <3>1. after.metric[n] >= d_metric[best]
      BY <2>3, <2>4, <2>5
    <3>2. after.metric[n] \in Nat /\ d_metric[best] \in Nat
      BY <2>1, <2>2, <2>3
    <3>. QED  BY <2>1, <3>1, <3>2
  <2>6. after.metric \in [States -> 0 .. top + 8]
    BY <2>2, <2>3
  <2>7. AfterSecond'
    <3>1. d_metric' = after.metric
      BY <1>4, <1>5, <1>7
    <3>2. \A n \in States : n \div 4 = last => d_metric'[n] >= top
      BY <2>5, <3>1
    <3>. QED  BY <2>6, <3>1, <3>2, Zenon DEF AfterSecond
  <2>8. in_count' % 16 = 4
    BY <1>2, <1>7
  <2>. QED  BY <1>2, <1>4, <1>5, <1>7, <2>3, <2>7, <2>8 DEF TrellisOK, Metrics
<1>8. CASE in_count % 16 = 4 /\ AfterSecond
  <2>1. PICK top \in 0 .. 16, class \in 0 .. 15 :
          /\ d_metric \in [States -> 0 .. top + 8]
          /\ \A n \in States : n \div 4 = class => d_metric[n] >= top
    BY <1>8 DEF AfterSecond
  <2>2. PICK bound \in Nat : bound = top + 8
    OBVIOUS
  <2>3. /\ after.metric \in [States -> 0 .. bound + 4]
        /\ after.path \in [States -> 0 .. 255]
        /\ \A n \in States : \A y \in 0 .. 3 :
             after.metric[n] >= d_metric[(n \div 4) + 16 * y]
    BY <1>3, <2>1, <2>2
  <2>4. PICK last \in 0 .. 3, y \in 0 .. 3 : last + 4 * y = class
    <3>1. /\ class % 4 \in 0 .. 3 /\ class \div 4 \in 0 .. 3
          /\ (class % 4) + 4 * (class \div 4) = class
      OBVIOUS
    <3>. QED  BY <3>1
  <2>5. ASSUME NEW n \in States, n \div 16 = last
        PROVE  after.metric[n] >= top
    <3>1. PICK from \in States : from = (n \div 4) + 16 * y
      BY DEF States
    <3>2. from \div 4 = class
      BY <2>4, <2>5, <3>1 DEF States
    <3>3. after.metric[n] >= d_metric[from] /\ d_metric[from] >= top
      BY <2>1, <2>3, <3>1, <3>2
    <3>4. after.metric[n] \in Nat /\ d_metric[from] \in Nat
      BY <2>1, <2>2, <2>3
    <3>. QED  BY <3>3, <3>4
  <2>6. after.metric \in [States -> 0 .. top + 12]
    BY <2>2, <2>3
  <2>7. AfterThird'
    <3>1. d_metric' = after.metric
      BY <1>4, <1>5, <1>8
    <3>2. \A n \in States : n \div 16 = last => d_metric'[n] >= top
      BY <2>5, <3>1
    <3>. QED  BY <2>6, <3>1, <3>2, Zenon DEF AfterThird
  <2>8. in_count' % 16 = 8
    BY <1>2, <1>8
  <2>. QED  BY <1>2, <1>4, <1>5, <1>8, <2>3, <2>7, <2>8 DEF TrellisOK, Metrics
<1>9. CASE in_count % 16 = 8 /\ AfterThird
  <2>1. PICK top \in 0 .. 16, class \in 0 .. 3 :
          /\ d_metric \in [States -> 0 .. top + 12]
          /\ \A n \in States : n \div 16 = class => d_metric[n] >= top
    BY <1>9 DEF AfterThird
  <2>2. PICK bound \in Nat : bound = top + 12
    OBVIOUS
  <2>3. /\ after.metric \in [States -> 0 .. bound + 4]
        /\ \A n \in States : \A y \in 0 .. 3 :
             after.metric[n] >= d_metric[(n \div 4) + 16 * y]
    BY <1>3, <2>1, <2>2
  <2>4. ASSUME NEW n \in States
        PROVE  after.metric[n] \in top .. top + 16
    <3>1. PICK from \in States : from = (n \div 4) + 16 * class
      BY DEF States
    <3>2. from \div 16 = class
      BY <3>1 DEF States
    <3>3. after.metric[n] >= d_metric[from] /\ d_metric[from] >= top
      BY <2>1, <2>3, <3>1, <3>2
    <3>4. after.metric[n] \in 0 .. bound + 4 /\ d_metric[from] \in Nat
      BY <2>1, <2>3
    <3>. QED  BY <2>2, <3>3, <3>4
  <2>5. after.metric \in [States -> 0 .. 32]
    BY <2>2, <2>3
  <2>6. d_metric' = Renormalized(after.metric) /\ d_path' = Zeros
    BY <1>1, <1>5, <1>9 DEF DecodeStep
  <2>7. AfterDecision'
    BY <2>4, <2>5, <2>6, RenormalizedIs DEF AfterDecision
  <2>8. in_count' % 16 = 12
    BY <1>2, <1>9
  <2>9. d_path' \in [States -> 0 .. 255]
    BY <2>6 DEF Zeros
  <2>. QED  BY <1>2, <2>7, <2>8, <2>9 DEF TrellisOK, Metrics
<1>. QED  BY <1>6, <1>7, <1>8, <1>9 DEF TrellisOK, Metrics

-----------------------------------------------------------------------------
(* The buffers.                                                            *)

Places == 0 .. WINDOW - 1

\* Rates other than 1/2 are punctured.
LEMMA Rates ==
  ASSUME NEW e \in Decodable
  PROVE  /\ d_ntraceback(e) \in {5, 9, 10}
         /\ d_ntraceback(e) # 5 =>
              /\ Kept(e).offsets \in Seq(Nat)
              /\ \/ Kept(e).period = 4 /\ Len(Kept(e).offsets) = 3
                 \/ Kept(e).period = 6 /\ Len(Kept(e).offsets) = 4
<1>1. /\ <<0, 1, 2>> \in Seq(Nat) /\ Len(<<0, 1, 2>>) = 3
      /\ <<0, 1, 2, 5>> \in Seq(Nat) /\ Len(<<0, 1, 2, 5>>) = 4
  OBVIOUS
<1>2. CASE e = "QAM64_2_3"
  BY <1>1, <1>2 DEF d_ntraceback, Kept
<1>3. CASE e \in {"QPSK_3_4", "QAM16_3_4", "QAM64_3_4"}
  BY <1>1, <1>3 DEF d_ntraceback, Kept
<1>4. CASE e \notin {"QAM64_2_3", "QPSK_3_4", "QAM16_3_4", "QAM64_3_4"}
  BY <1>4 DEF d_ntraceback, Decodable, Encodings
<1>. QED  BY <1>2, <1>3, <1>4

\* A kept position of the punctured code is the number of a received bit.
LEMMA ReceivedIs ==
  ASSUME NEW kept,
         kept.offsets \in Seq(Nat),
         \/ kept.period = 4 /\ Len(kept.offsets) = 3
         \/ kept.period = 6 /\ Len(kept.offsets) = 4,
         NEW n \in Nat, NEW i \in Nat, IsKept(kept, i),
         i < (n \div Len(kept.offsets)) * kept.period
  PROVE  Received(kept, i) \in 0 .. n - 1
<1>. DEFINE before == {k \in DOMAIN kept.offsets : kept.offsets[k] < i % kept.period}
            per == Len(kept.offsets)
<1>1. PICK here \in DOMAIN kept.offsets : kept.offsets[here] = i % kept.period
  BY DEF IsKept
<1>2. /\ kept.offsets \in Seq(Nat)
      /\ \/ kept.period = 4 /\ per = 3
         \/ kept.period = 6 /\ per = 4
  OBVIOUS
<1>3. PICK first \in Int, last \in Int : first = 1 /\ last = per
  BY <1>2
<1>4. DOMAIN kept.offsets = first .. last
  BY <1>2, <1>3
<1>5. IsFiniteSet(DOMAIN kept.offsets) /\ Cardinality(DOMAIN kept.offsets) = per
  <2>1. /\ IsFiniteSet(first .. last)
        /\ Cardinality(first .. last) = IF first > last THEN 0 ELSE last - first + 1
    BY FS_Interval
  <2>. QED  BY <1>2, <1>3, <1>4, <2>1
<1>6. before \in SUBSET DOMAIN kept.offsets /\ before # DOMAIN kept.offsets
  <2>1. here \notin before
    BY <1>1, <1>2
  <2>. QED  BY <2>1
<1>7. Cardinality(before) \in Nat /\ Cardinality(before) < per
  <2>1. /\ IsFiniteSet(before)
        /\ Cardinality(before) <= Cardinality(DOMAIN kept.offsets)
        /\ Cardinality(before) # Cardinality(DOMAIN kept.offsets)
    BY <1>5, <1>6, FS_Subset
  <2>2. Cardinality(before) \in Nat
    BY <2>1, FS_CardinalityType
  <2>. QED  BY <1>2, <1>5, <2>1, <2>2
<1>8. PICK c \in Nat : c = Cardinality(before) /\ c < per
  BY <1>7
<1>9. Received(kept, i) = (i \div kept.period) * per + c
  BY <1>8 DEF Received
<1>. HIDE DEF before, per
<1>10. CASE kept.period = 4 /\ per = 3
  <2>1. i < (n \div 3) * 4 /\ c < 3 /\ Received(kept, i) = (i \div 4) * 3 + c
    BY <1>8, <1>9, <1>10 DEF per
  <2>. QED  BY ONLY <2>1, n \in Nat, i \in Nat, c \in Nat
<1>11. CASE kept.period = 6 /\ per = 4
  <2>1. i < (n \div 4) * 6 /\ c < 4 /\ Received(kept, i) = (i \div 6) * 4 + c
    BY <1>8, <1>9, <1>11 DEF per
  <2>. QED  BY ONLY <2>1, n \in Nat, i \in Nat, c \in Nat
<1>. QED  BY <1>2, <1>10, <1>11 DEF per

\* Depuncturing reads only the frame's bits, and writes bits and twos.
LEMMA DepuncturedIs ==
  ASSUME NEW e \in Decodable, NEW n \in 0 .. WINDOW, WINDOW \in Nat,
         NEW encoded \in [Places -> 0 .. 1], d_depunctured \in [Places -> 0 .. 2]
  PROVE  Depunctured(e, n, encoded) \in [Places -> 0 .. 2]
<1>1. CASE d_ntraceback(e) = 5
  BY <1>1 DEF Depunctured
<1>2. CASE d_ntraceback(e) # 5
  <2>1. PICK kept : kept = Kept(e)
    OBVIOUS
  <2>2. /\ kept.offsets \in Seq(Nat)
        /\ \/ kept.period = 4 /\ Len(kept.offsets) = 3
           \/ kept.period = 6 /\ Len(kept.offsets) = 4
    BY <1>2, <2>1, Rates
  <2>3. PICK count : count = (n \div Len(kept.offsets)) * kept.period
    OBVIOUS
  <2>4. Depunctured(e, n, encoded) =
          [i \in Places |->
             IF i >= count THEN d_depunctured[i]
             ELSE IF IsKept(kept, i) THEN encoded[Received(kept, i)] ELSE 2]
    BY <1>2, <2>1, <2>3 DEF Depunctured
  <2>5. count \in Nat
    <3>1. CASE kept.period = 4 /\ Len(kept.offsets) = 3
      BY <2>3, <3>1
    <3>2. CASE kept.period = 6 /\ Len(kept.offsets) = 4
      BY <2>3, <3>2
    <3>. QED  BY <2>2, <3>1, <3>2
  <2>6. ASSUME NEW i \in Places, i < count, IsKept(kept, i)
        PROVE  encoded[Received(kept, i)] \in 0 .. 2
    <3>1. i \in Nat /\ n \in Nat /\ i < (n \div Len(kept.offsets)) * kept.period
      BY <2>3, <2>6 DEF Places
    <3>2. Received(kept, i) \in 0 .. n - 1
      BY <2>2, <2>6, <3>1, ReceivedIs
    <3>3. Received(kept, i) \in Places
      BY <3>2 DEF Places
    <3>. QED  BY <3>3
  <2>7. \A i \in Places :
          (IF i >= count THEN d_depunctured[i]
           ELSE IF IsKept(kept, i) THEN encoded[Received(kept, i)] ELSE 2) \in 0 .. 2
    BY <2>5, <2>6 DEF Places
  <2>. QED  BY <2>4, <2>7
<1>. QED  BY <1>1, <1>2

-----------------------------------------------------------------------------
(* The interleaver.                                                        *)

\* Bits on the air, and per point.
LEMMA AirRates ==
  ASSUME NEW e \in Encodings, NEW bpsc, bpsc = ofdm_param(e).n_bpsc
  PROVE  /\ bpsc \in {1, 2, 4, 6}
         /\ AirBits(e) = 24 * bpsc
         /\ \/ bpsc = 1 /\ Mapping(e) = "bpsk"
            \/ bpsc = 2 /\ Mapping(e) = "qpsk"
            \/ bpsc = 4 /\ Mapping(e) = "16qam"
            \/ bpsc = 6 /\ Mapping(e) = "64qam"
<1>1. CASE e \in {"BPSK_1_2", "BPSK_1_2_REP"}
  <2>1. bpsc = 1 /\ ofdm_param(e).n_cbps \in {12, 24}
    BY <1>1 DEF ofdm_param, Params
  <2>2. AirBits(e) = 24
    BY <2>1 DEF AirBits, CODED_BITS_PER_OFDM_SYMBOL
  <2>3. Mapping(e) = "bpsk"
    BY <1>1 DEF Mapping
  <2>. QED  BY <2>1, <2>2, <2>3
<1>2. CASE e \in {"QPSK_1_2", "QPSK_3_4"}
  <2>1. bpsc = 2 /\ ofdm_param(e).n_cbps = 48
    BY <1>2 DEF ofdm_param, Params
  <2>2. AirBits(e) = 48
    BY <2>1 DEF AirBits, CODED_BITS_PER_OFDM_SYMBOL
  <2>3. Mapping(e) = "qpsk"
    BY <1>2 DEF Mapping
  <2>. QED  BY <2>1, <2>2, <2>3
<1>3. CASE e \in {"QAM16_1_2", "QAM16_3_4"}
  <2>1. bpsc = 4 /\ ofdm_param(e).n_cbps = 96
    BY <1>3 DEF ofdm_param, Params
  <2>2. AirBits(e) = 96
    BY <2>1 DEF AirBits, CODED_BITS_PER_OFDM_SYMBOL
  <2>3. Mapping(e) = "16qam"
    BY <1>3 DEF Mapping
  <2>. QED  BY <2>1, <2>2, <2>3
<1>4. CASE e \in {"QAM64_2_3", "QAM64_3_4", "QAM64_5_6"}
  <2>1. bpsc = 6 /\ ofdm_param(e).n_cbps = 144
    BY <1>4 DEF ofdm_param, Params
  <2>2. AirBits(e) = 144
    BY <2>1 DEF AirBits, CODED_BITS_PER_OFDM_SYMBOL
  <2>3. Mapping(e) = "64qam"
    BY <1>4 DEF Mapping
  <2>. QED  BY <2>1, <2>2, <2>3
<1>. QED  BY <1>1, <1>2, <1>3, <1>4 DEF Encodings

(* The interleaver's two permutations with b bits per point, written without *)
(* divisions by the number of bits: the first turns the bits of half a      *)
(* point, the second reads rows as columns                                 *)
First(b, k) ==
  CASE b = 4 -> 2 * (k \div 2) + ((k + (k \div 12)) % 2)
    [] b = 6 -> 3 * (k \div 3) + ((k + (k \div 18)) % 3)
    [] OTHER -> k
Second(b, i) == 8 * i - (24 * b - 1) * (i \div (3 * b))

\* They are the code's.
LEMMA PermutationIs ==
  ASSUME NEW e \in Encodings, NEW b, b = ofdm_param(e).n_bpsc
  PROVE  /\ DOMAIN Interleaving[e] = 0 .. 24 * b - 1
         /\ \A k \in 0 .. 24 * b - 1 : Interleaving[e][k] = Second(b, First(b, k))
<1>. DEFINE n == AirBits(e)
            s == IF b \div 2 > 1 THEN b \div 2 ELSE 1
            first(j) == s * (j \div s) + ((j + ((8 * j) \div n)) % s)
            second(i) == 8 * i - (n - 1) * (i \div (3 * b))
<1>1. Interleaving[e] = [j \in 0 .. n - 1 |-> second(first(j))]
  BY DEF Interleaving, Permutation, Buffer
<1>2. b \in {1, 2, 4, 6} /\ n = 24 * b
  BY AirRates
<1>. HIDE DEF n
<1>3. ASSUME NEW k \in 0 .. 24 * b - 1
      PROVE  first(k) = First(b, k)
  <2>1. CASE b \in {1, 2}
    BY <1>2, <2>1 DEF First
  <2>2. CASE b = 4
    <3>1. s = 2 /\ (8 * k) \div n = k \div 12
      BY <1>2, <2>2
    <3>. QED  BY <2>2, <3>1 DEF First
  <2>3. CASE b = 6
    <3>1. s = 3 /\ (8 * k) \div n = k \div 18
      BY <1>2, <2>3
    <3>. QED  BY <2>3, <3>1 DEF First
  <2>. QED  BY <1>2, <2>1, <2>2, <2>3
<1>4. \A i : second(i) = Second(b, i)
  BY <1>2 DEF Second
<1>. HIDE DEF first, second
<1>. QED  BY <1>1, <1>2, <1>3, <1>4

\* The row and the column of a number, for the second permutation.
LEMMA RowColumn ==
  ASSUME NEW b \in {1, 2, 4, 6}, NEW q \in 0 .. 7, NEW r \in 0 .. 3 * b - 1
  PROVE  /\ 3 * b * q + r \in 0 .. 24 * b - 1
         /\ (3 * b * q + r) \div (3 * b) = q
         /\ 8 * (3 * b * q + r) - (24 * b - 1) * q = 8 * r + q
<1>1. CASE b = 1
  BY <1>1
<1>2. CASE b = 2
  BY <1>2
<1>3. CASE b = 4
  BY <1>3
<1>4. CASE b = 6
  BY <1>4
<1>. QED  BY <1>1, <1>2, <1>3, <1>4

\* The second permutation is one.
LEMMA SecondOnto ==
  ASSUME NEW b \in {1, 2, 4, 6}, NEW v \in 0 .. 24 * b - 1
  PROVE  \E i \in 0 .. 24 * b - 1 : Second(b, i) = v
<1>1. PICK q \in 0 .. 7, r \in 0 .. 3 * b - 1 : v = 8 * r + q
  <2>1. v % 8 \in 0 .. 7 /\ v \div 8 \in 0 .. 3 * b - 1 /\ v = 8 * (v \div 8) + (v % 8)
    OBVIOUS
  <2>. QED  BY <2>1
<1>2. PICK i \in 0 .. 24 * b - 1 : i = 3 * b * q + r
  BY RowColumn
<1>3. i \div (3 * b) = q /\ 8 * i - (24 * b - 1) * q = 8 * r + q
  BY <1>2, RowColumn
<1>4. Second(b, i) = v
  BY <1>1, <1>3 DEF Second
<1>. QED  BY <1>4

\* Second stays within a symbol's bits.
LEMMA SecondRange ==
  ASSUME NEW b \in {1, 2, 4, 6}, NEW i \in 0 .. 24 * b - 1
  PROVE  Second(b, i) \in 0 .. 24 * b - 1
<1>. USE DEF Second
<1>1. CASE b = 1
  BY <1>1
<1>2. CASE b = 2
  BY <1>2
<1>3. CASE b = 4
  BY <1>3
<1>4. CASE b = 6
  BY <1>4
<1>. QED  BY <1>1, <1>2, <1>3, <1>4

\* So is the first: it turns pairs, or triples, and a triple is turned back by
\* turning it twice.
LEMMA FirstOnto ==
  ASSUME NEW b \in {1, 2, 4, 6}, NEW i \in 0 .. 24 * b - 1
  PROVE  \E k \in 0 .. 24 * b - 1 : First(b, k) = i
<1>1. CASE b = 4
  <2>1. PICK k \in 0 .. 95 : k = 2 * (i \div 2) + ((i + (i \div 12)) % 2)
    BY <1>1
  <2>2. k \div 2 = i \div 2 /\ k \div 12 = i \div 12
    BY <1>1, <2>1
  <2>3. (k + (k \div 12)) % 2 = i % 2
    BY <1>1, <2>1, <2>2
  <2>4. First(b, k) = i
    BY <1>1, <2>2, <2>3 DEF First
  <2>. QED  BY <1>1, <2>4
<1>2. CASE b = 6
  <2>1. PICK k \in 0 .. 143 : k = 3 * (i \div 3) + ((i + 2 * (i \div 18)) % 3)
    BY <1>2
  <2>2. k \div 3 = i \div 3 /\ k \div 18 = i \div 18
    BY <1>2, <2>1
  <2>3. (k + (k \div 18)) % 3 = i % 3
    BY <1>2, <2>1, <2>2
  <2>4. First(b, k) = i
    BY <1>2, <2>2, <2>3 DEF First
  <2>. QED  BY <1>2, <2>4
<1>3. CASE b \in {1, 2}
  <2>1. First(b, i) = i
    BY <1>3 DEF First
  <2>. QED  BY <2>1
<1>. QED  BY <1>1, <1>2, <1>3

\* So does First.
LEMMA FirstRange ==
  ASSUME NEW b \in {1, 2, 4, 6}, NEW k \in 0 .. 24 * b - 1
  PROVE  First(b, k) \in 0 .. 24 * b - 1
<1>. USE DEF First
<1>1. CASE b = 4
  BY <1>1
<1>2. CASE b = 6
  BY <1>2
<1>3. CASE b \in {1, 2}
  BY <1>3
<1>. QED  BY <1>1, <1>2, <1>3

\* The interleaver is a permutation of the bits of a symbol, at every rate:
\* nothing is lost, and deinterleaving finds each bit.
LEMMA InterleavingPermutes ==
  ASSUME NEW e \in Encodings, NEW n, n = AirBits(e)
  PROVE  /\ DOMAIN Interleaving[e] = 0 .. n - 1
         /\ \A k \in 0 .. n - 1 : Interleaving[e][k] \in 0 .. n - 1
         /\ \A v \in 0 .. n - 1 : \E k \in 0 .. n - 1 : Interleaving[e][k] = v
<1>1. PICK b : b = ofdm_param(e).n_bpsc
  OBVIOUS
<1>2. b \in {1, 2, 4, 6} /\ n = 24 * b
  BY <1>1, AirRates
<1>3. /\ DOMAIN Interleaving[e] = 0 .. n - 1
      /\ \A k \in 0 .. n - 1 : Interleaving[e][k] = Second(b, First(b, k))
  BY <1>1, <1>2, PermutationIs, ZenonT(60)
<1>4. ASSUME NEW k \in 0 .. n - 1
      PROVE  Interleaving[e][k] \in 0 .. n - 1
  BY <1>2, <1>3, FirstRange, SecondRange, Zenon
<1>5. ASSUME NEW v \in 0 .. n - 1
      PROVE  \E k \in 0 .. n - 1 : Interleaving[e][k] = v
  <2>1. PICK i \in 0 .. n - 1 : Second(b, i) = v
    BY <1>2, SecondOnto, ZenonT(60)
  <2>2. PICK k \in 0 .. n - 1 : First(b, k) = i
    BY <1>2, FirstOnto, ZenonT(60)
  <2>. QED  BY <1>3, <2>1, <2>2
<1>. QED  BY <1>3, <1>4, <1>5

-----------------------------------------------------------------------------
(* What is received.                                                       *)

\* A bit of a number is one.
LEMMA BitRange ==
  ASSUME NEW x \in Nat, NEW i \in Nat
  PROVE  Bit(x, i) \in 0 .. 1
BY DEF Bit

\* A decision about a bit is a bit.
LEMMA FlagRange ==
  ASSUME NEW test
  PROVE  Flag(test) \in 0 .. 1
BY DEF Flag

\* Whatever the point, a decision is a number.
LEMMA DecisionRange ==
  ASSUME NEW c \in {"bpsk", "qpsk", "16qam", "64qam"}, NEW p
  PROVE  decision_maker(c, p) \in Nat
<1>1. ASSUME NEW x
      PROVE  Axis16(x) \in Nat /\ Axis64(x) \in Nat
  <2>1. PICK f \in 0 .. 1, g \in 0 .. 1, h \in 0 .. 1, k \in 0 .. 1 :
          /\ f = Flag(x > 0) /\ g = Flag(Size(x) < 632) /\ h = Flag(Size(x) < 617)
          /\ k = Flag(Size(x) < 926 /\ Size(x) > 309)
    BY FlagRange
  <2>2. Axis16(x) = f + 2 * g /\ Axis64(x) = f + 2 * h + 4 * k
    BY <2>1, ZenonT(60) DEF Axis16, Axis64
  <2>. QED  BY <2>2
<1>2. CASE c = "bpsk"
  BY <1>2 DEF decision_maker, Flag
<1>3. CASE c = "qpsk"
  BY <1>3 DEF decision_maker, Flag
<1>4. CASE c = "16qam"
  BY <1>1, <1>4 DEF decision_maker
<1>5. CASE c = "64qam"
  BY <1>1, <1>5 DEF decision_maker
<1>. QED  BY <1>2, <1>3, <1>4, <1>5

\* Deinterleaving looks at bits of the same symbol.
LEMMA UndoRange ==
  ASSUME NEW e \in Encodings, NEW n, n = AirBits(e), NEW v \in 0 .. n - 1
  PROVE  Undo[e][v] \in 0 .. n - 1
<1>1. /\ DOMAIN Interleaving[e] = 0 .. n - 1
      /\ \E k \in 0 .. n - 1 : Interleaving[e][k] = v
  BY InterleavingPermutes
<1>2. Undo[e][v] = CHOOSE k \in 0 .. n - 1 : Interleaving[e][k] = v
  BY <1>1, Zenon DEF Undo
<1>. QED  BY <1>1, <1>2, Zenon

\* Whatever the points, what is received of a frame is bits.
LEMMA ReceivedAreBits ==
  ASSUME NEW e \in Encodings, NEW n_sym \in Nat, NEW points,
         NEW bits, bits = ReceivedBits(points, n_sym, e), NEW i \in DOMAIN bits
  PROVE  bits[i] \in 0 .. 1
<1>1. CASE e = "BPSK_1_2_REP"
  <2>1. bits = RepeatedBits(points, n_sym)
    BY <1>1 DEF ReceivedBits
  <2>2. bits = [j \in 0 .. n_sym * Half - 1 |->
                  Flag(unrepeat(points, (j \div Half) * CODED_BITS_PER_OFDM_SYMBOL,
                                j % Half) > 0)]
    BY <2>1 DEF RepeatedBits, Buffer
  <2>. QED  BY <2>2, FlagRange
<1>2. CASE e # "BPSK_1_2_REP"
  <2>. DEFINE n == AirBits(e)
              bpsc == ofdm_param(e).n_bpsc
              bit(j) == Bit(decision_maker(Constellation(e), points[j \div bpsc]),
                            j % bpsc)
  <2>1. bits = [j \in 0 .. n_sym * n - 1 |-> bit((j \div n) * n + Undo[e][j % n])]
    BY <1>2 DEF ReceivedBits, SlicedBits, Buffer
  <2>2. bpsc \in {1, 2, 4, 6} /\ n = 24 * bpsc
    BY AirRates
  <2>3. Constellation(e) \in {"bpsk", "qpsk", "16qam", "64qam"}
    BY DEF Constellation, Mapping
  <2>. HIDE DEF n, bpsc
  <2>4. i \in 0 .. n_sym * n - 1
    BY <2>1
  <2>5. i \in Nat /\ i % n \in 0 .. n - 1 /\ (i \div n) * n \in Nat
    BY <2>2, <2>4
  <2>6. Undo[e][i % n] \in Nat
    <3>1. Undo[e][i % n] \in 0 .. n - 1
      BY <2>5, UndoRange DEF n
    <3>. QED  BY <2>2, <3>1
  <2>7. PICK j \in Nat : j = (i \div n) * n + Undo[e][i % n]
    BY <2>5, <2>6
  <2>8. j % bpsc \in Nat
    BY <2>2
  <2>9. bit(j) \in 0 .. 1
    BY <2>3, <2>8, DecisionRange, BitRange
  <2>. QED  BY <2>1, <2>4, <2>7, <2>9
<1>. QED  BY <1>1, <1>2

-----------------------------------------------------------------------------
(* The invariant.                                                          *)

Basics ==
  /\ sent \in 0 .. MAX_FRAMES /\ frame \in FRAMES /\ d_scrambler \in 1 .. 127
  /\ phase \in {"idle", "on air", "decode"}
  /\ d_store_pos \in 0 .. TRACEBACK_MAX - 1

Filled ==
  /\ d_encoded_bits \in [Places -> 0 .. 1]
  /\ d_depunctured \in [Places -> 0 .. 2]

(* A byte passes every sixteen symbols; the first d_ntraceback decide none  *)
Decided(passed) ==
  IF passed < d_ntraceback(frame.encoding) THEN 0
  ELSE 8 * (passed - d_ntraceback(frame.encoding))
Counting ==
  /\ in_count \in 0 .. WINDOW
  /\ \E T : d_decoded \in Seq(T)
  /\ phase = "decode" =>
       /\ out_count = ((in_count + 4) \div 16)
       /\ Len(d_decoded) = Decided(out_count)

CodingInv == Basics /\ Filled /\ Counting /\ TrellisOK

\* The sizes of a frame.
LEMMA FrameSize ==
  ASSUME NEW f \in FRAMES, NEW param, param = frame_param(f.encoding, Len(f.psdu))
  PROVE  /\ f.encoding \in Decodable /\ f.encoding \in Encodings
         /\ param.n_sym \in Nat
         /\ param.n_data_bits \in Nat
         /\ param.n_encoded_bits \in 0 .. WINDOW
         /\ decoded_bits(param) \in Nat /\ decoded_bits(param) % 8 = 0
         /\ 16 * d_ntraceback(f.encoding) + 2 * decoded_bits(param) <= WINDOW
<1>1. f.encoding \in Decodable /\ f.encoding \in Encodings /\ Len(f.psdu) \in Nat
  BY FramesAssumption DEF Decodable
<1>2. PICK d, c : d = ofdm_param(f.encoding).n_dbps /\ c = ofdm_param(f.encoding).n_cbps
  OBVIOUS
<1>3. d \in {6, 12, 24, 36, 48, 72, 96, 108, 120} /\ c \in {12, 24, 48, 96, 144}
  BY <1>1, <1>2, ZenonT(60) DEF ofdm_param, Params, Encodings
<1>4. PICK n : n = NSym(f.encoding, Len(f.psdu))
  OBVIOUS
<1>5. n \in Nat
  <2>1. PICK x \in Nat : x = 8 * Len(f.psdu) + 8 + 6 + d - 1
    <3>1. PICK l \in Nat, rate \in Nat : l = Len(f.psdu) /\ rate = d /\ rate > 0
      BY <1>1, <1>3
    <3>2. 8 * l + 8 + 6 + rate - 1 \in Nat
      BY <3>1
    <3>. QED  BY <3>1, <3>2
  <2>2. n = x \div d
    BY <1>2, <1>4, <2>1 DEF NSym
  <2>. QED  BY <1>3, <2>2
<1>6. /\ param.n_sym = n /\ param.n_data_bits = (n * d) % 65536
      /\ param.n_encoded_bits = n * c
  BY <1>2, <1>4 DEF frame_param
<1>7. param.n_data_bits \in Nat /\ param.n_encoded_bits \in Nat
  BY <1>3, <1>5, <1>6
<1>8. decoded_bits(param) \in Nat /\ decoded_bits(param) % 8 = 0
  BY <1>7 DEF decoded_bits
<1>9. param.n_encoded_bits <= WINDOW
      /\ 16 * d_ntraceback(f.encoding) + 2 * decoded_bits(param) <= WINDOW
  BY WindowAssumption
<1>10. WINDOW \in Nat
  BY ViterbiAssumption
<1>. QED  BY <1>1, <1>5, <1>6, <1>7, <1>8, <1>9, <1>10

\* Zeros will do to begin with.
LEMMA TrellisBegins ==
  ASSUME in_count' = 0, d_metric' = Zeros, d_path' = Zeros
  PROVE  TrellisOK'
<1>1. PICK top \in 0 .. 16, best \in States : top = 0 /\ best = 0
  BY DEF States
<1>2. /\ d_metric' \in [States -> 0 .. top + 4] /\ d_metric'[best] >= top
      /\ d_path' \in [States -> 0 .. 255]
  BY <1>1 DEF Zeros
<1>3. AfterFirst'
  BY <1>2, Zenon DEF AfterFirst
<1>. QED  BY <1>2, <1>3 DEF TrellisOK, Metrics

\* What decode reads, it finds in its buffers.
LEMMA ReadsWithin ==
  ASSUME CodingInv, phase = "decode", Len(d_decoded) < n_data_bits
  PROVE  /\ in_count + 4 \in 0 .. WINDOW
         /\ \A k \in 0 .. 3 : Symbol(frame.encoding, in_count + k) \in 0 .. 2
<1>1. PICK t : t = d_ntraceback(frame.encoding)
  OBVIOUS
<1>2. /\ frame.encoding \in Decodable
      /\ n_data_bits \in Nat /\ n_data_bits % 8 = 0
      /\ 16 * t + 2 * n_data_bits <= WINDOW
  BY <1>1, FrameSize DEF CodingInv, Basics, n_data_bits, Param
<1>3. t \in {5, 9, 10}
  BY <1>1, <1>2, Rates
<1>4. /\ in_count \in Nat /\ out_count = ((in_count + 4) \div 16)
      /\ Len(d_decoded) = IF out_count < t THEN 0 ELSE 8 * (out_count - t)
      /\ WINDOW \in Nat
  BY <1>1, ViterbiAssumption DEF CodingInv, Counting, Decided
<1>5. in_count + 4 < WINDOW
  <2>1. PICK K \in Nat : n_data_bits = 8 * K
    <3>1. n_data_bits = 8 * (n_data_bits \div 8) /\ n_data_bits \div 8 \in Nat
      BY <1>2
    <3>. QED  BY <3>1
  <2>2. out_count < t + K
    BY <1>3, <1>4, <2>1
  <2>3. in_count + 4 < 16 * (t + K)
    BY <1>3, <1>4, <2>1, <2>2
  <2>. QED  BY <1>2, <1>3, <1>4, <2>1, <2>3
<1>6. \A k \in 0 .. 3 : in_count + k \in Places
  BY <1>4, <1>5 DEF Places
<1>7. \A i \in Places : Symbol(frame.encoding, i) \in 0 .. 2
  BY DEF CodingInv, Filled, Symbol
<1>. QED  BY <1>4, <1>5, <1>6, <1>7

\* The invariant holds before any frame is sent.
LEMMA InvInit == Init => CodingInv
<1>. SUFFICES ASSUME Init PROVE CodingInv
  OBVIOUS
<1>. USE DEF Init, ViterbiInit
<1>1. Basics
  BY FramesAssumption DEF Basics, TRACEBACK_MAX
<1>2. Filled
  BY ViterbiAssumption DEF Filled, Places
<1>3. Counting
  <2>1. d_decoded \in Seq({})
    OBVIOUS
  <2>. QED  BY ViterbiAssumption, <2>1 DEF Counting
<1>4. TrellisOK
  <2>1. PICK top \in 0 .. 16, best \in States : top = 0 /\ best = 0
    BY DEF States
  <2>2. /\ d_metric \in [States -> 0 .. top + 4] /\ d_metric[best] >= top
        /\ d_path \in [States -> 0 .. 255]
    BY <2>1 DEF Zeros
  <2>3. AfterFirst
    BY <2>2, Zenon DEF AfterFirst
  <2>. QED  BY <2>2, <2>3 DEF TrellisOK, Metrics
<1>. QED  BY <1>1, <1>2, <1>3, <1>4 DEF CodingInv

\* What no step of the decoder touches.
LEMMA InvUnmoved ==
  ASSUME CodingInv, UNCHANGED coding, Basics', phase' # "decode"
  PROVE  CodingInv'
<1>. USE DEF coding, buffers, trellis
<1>1. Filled'
  BY DEF CodingInv, Filled
<1>2. Counting'
  BY SMTT(40) DEF CodingInv, Counting
<1>3. TrellisOK'
  BY DEF CodingInv, TrellisOK, Metrics, AfterDecision, AfterFirst, AfterSecond, AfterThird
<1>. QED  BY <1>1, <1>2, <1>3 DEF CodingInv

\* decode_mac hands a frame's bits to the decoder: the buffers are filled with bits,
\* the metrics start at 0.
LEMMA InvCollect == ASSUME CodingInv, Collect PROVE CodingInv'
<1>1. /\ Param = frame_param(frame.encoding, Len(frame.psdu)) /\ frame \in FRAMES
      /\ frame' = frame /\ phase' = "decode"
  BY DEF Collect, CodingInv, Basics, Param
<1>2. PICK bits : bits = ReceivedBits(Points, Param.n_sym, frame.encoding)
  OBVIOUS
<1>3. PICK encoded : encoded =
        [i \in DOMAIN d_encoded_bits |->
           IF i \in DOMAIN bits THEN bits[i] ELSE d_encoded_bits[i]]
  OBVIOUS
<1>4. BeginDecode(frame.encoding, Param.n_encoded_bits, encoded)
  BY <1>2, <1>3 DEF Collect
<1>5. /\ frame.encoding \in Decodable /\ frame.encoding \in Encodings
      /\ Param.n_sym \in Nat /\ Param.n_encoded_bits \in 0 .. WINDOW
  BY <1>1, FrameSize
<1>6. encoded \in [Places -> 0 .. 1]
  <2>1. \A i \in DOMAIN bits : bits[i] \in 0 .. 1
    BY <1>2, <1>5, ReceivedAreBits
  <2>2. d_encoded_bits \in [Places -> 0 .. 1]
    BY DEF CodingInv, Filled
  <2>. QED  BY <1>3, <2>1, <2>2
<1>7. Filled'
  <2>1. d_depunctured \in [Places -> 0 .. 2] /\ WINDOW \in Nat
    BY ViterbiAssumption DEF CodingInv, Filled
  <2>2. Depunctured(frame.encoding, Param.n_encoded_bits, encoded) \in [Places -> 0 .. 2]
    BY <1>5, <1>6, <2>1, DepuncturedIs
  <2>. QED  BY <1>4, <1>6, <2>2 DEF BeginDecode, Filled, Places
<1>8. TrellisOK'
  BY <1>4, TrellisBegins DEF BeginDecode
<1>9. Counting'
  <2>1. in_count' = 0 /\ out_count' = 0 /\ d_decoded' = <<>>
    BY <1>4 DEF BeginDecode
  <2>2. d_ntraceback(frame'.encoding) \in {5, 9, 10}
    BY <1>1, <1>5, Rates
  <2>3. d_decoded' \in Seq({}) /\ Len(d_decoded') = 0
    BY <2>1
  <2>4. Decided(out_count)' = 0
    BY <2>1, <2>2 DEF Decided
  <2>. QED  BY <1>1, <2>1, <2>3, <2>4, ViterbiAssumption DEF Counting
<1>10. Basics'
  BY <1>1, <1>4 DEF Collect, BeginDecode, CodingInv, Basics
<1>. QED  BY <1>7, <1>8, <1>9, <1>10 DEF CodingInv

\* A decoded byte is eight bits.
LEMMA OctetIs ==
  ASSUME NEW c
  PROVE  \E M : Octet(c) \in Seq(M) /\ Len(Octet(c)) = 8
<1>1. PICK M : M = {Octet(c)[k] : k \in 1 .. 8}
  OBVIOUS
<1>2. Octet(c) \in [1 .. 8 -> M]
  BY <1>1 DEF Octet
<1>3. Octet(c) \in Seq(M)
  BY <1>2, SeqDef, Zenon
<1>4. Len(Octet(c)) = 8
  BY <1>2, <1>3
<1>. QED  BY <1>3, <1>4

\* A round of the decoder's loop keeps the invariant: its reads lie within the buffers,
\* and the metrics grow by at most two for each symbol until they are renormalised.
LEMMA InvDecode == ASSUME CodingInv, Decode PROVE CodingInv'
<1>1. /\ phase = "decode" /\ phase' = phase /\ frame' = frame
      /\ DecodeStep(frame.encoding, n_data_bits) /\ Len(d_decoded) < n_data_bits
  BY DEF Decode, DecodeStep
<1>2. PICK e, n_bits : e = frame.encoding /\ n_bits = n_data_bits
  OBVIOUS
<1>3. /\ in_count + 4 \in 0 .. WINDOW
      /\ \A k \in 0 .. 3 : Symbol(e, in_count + k) \in 0 .. 2
  BY <1>1, <1>2, ReadsWithin
<1>4. PICK t : t = d_ntraceback(e) /\ t \in {5, 9, 10}
  <2>1. e \in Decodable
    BY <1>2, FrameSize DEF CodingInv, Basics
  <2>. QED  BY <2>1, Rates
<1>5. TrellisOK'
  <2>1. DecodeStep(e, n_bits) /\ TrellisOK
    BY <1>1, <1>2 DEF CodingInv
  <2>. QED  BY <1>3, <2>1, TrellisStep
<1>6. Filled'
  BY <1>1 DEF DecodeStep, buffers, CodingInv, Filled
<1>7. in_count' = in_count + 4 /\ in_count \in Nat
  BY <1>1 DEF DecodeStep, CodingInv, TrellisOK
<1>8. in_count % 4 = 0
  BY <1>7 DEF CodingInv, TrellisOK, Metrics
<1>9. PICK T : d_decoded \in Seq(T)
  BY DEF CodingInv, Counting
<1>10. /\ out_count = ((in_count + 4) \div 16)
       /\ Len(d_decoded) = IF out_count < t THEN 0 ELSE 8 * (out_count - t)
  BY <1>1, <1>2, <1>4 DEF CodingInv, Counting, Decided
<1>11. CASE ~OutputDue
  <2>1. UNCHANGED <<d_store_pos, d_decoded, out_count>>
    BY <1>1, <1>11 DEF DecodeStep
  <2>2. in_count % 16 # 8
    BY <1>7, <1>11 DEF OutputDue
  <2>3. out_count' = ((in_count' + 4) \div 16)
    BY <1>7, <1>8, <1>10, <2>1, <2>2
  <2>4. Len(d_decoded') = Decided(out_count)'
    BY <1>1, <1>2, <1>4, <1>10, <2>1 DEF Decided
  <2>5. Counting'
    BY <1>3, <1>7, <1>9, <2>1, <2>3, <2>4 DEF Counting
  <2>6. Basics'
    BY <2>1 DEF Decode, CodingInv, Basics
  <2>. QED  BY <1>5, <1>6, <2>5, <2>6 DEF CodingInv
<1>12. CASE OutputDue
  <2>. DEFINE pos == (d_store_pos + 1) % d_ntraceback(e)
              stored == [d_ppresult EXCEPT ![pos] = Butterfly2(e).path]
              octet == Octet(TraceBack(e, stored, pos, BestState(Butterfly2(e).metric)))
  <2>1. /\ d_store_pos' = pos /\ out_count' = out_count + 1
        /\ d_decoded' = IF ~Ready(e) THEN d_decoded ELSE d_decoded \o octet
    BY <1>1, <1>2, <1>12 DEF DecodeStep
  <2>2. PICK more, M : more = octet /\ more \in Seq(M) /\ Len(more) = 8
    BY OctetIs
  <2>3. in_count % 16 = 8
    BY <1>7, <1>12 DEF OutputDue
  <2>. HIDE DEF octet, stored
  <2>4. out_count' = ((in_count' + 4) \div 16)
    BY <1>7, <1>10, <2>1, <2>3
  <2>5. PICK U : d_decoded \in Seq(U) /\ more \in Seq(U)
    <3>1. PICK U : U = T \cup M
      OBVIOUS
    <3>2. Seq(T) \subseteq Seq(U) /\ Seq(M) \subseteq Seq(U)
      BY <3>1
    <3>. QED  BY <1>9, <2>2, <3>2
  <2>6. d_decoded' \in Seq(U)
    BY <2>1, <2>2, <2>5
  <2>7. Len(d_decoded') = IF out_count < t THEN Len(d_decoded) ELSE Len(d_decoded) + 8
    <3>1. Ready(e) <=> ~(out_count < t)
      BY <1>4, <1>7, <1>10 DEF Ready
    <3>2. Len(d_decoded \o more) = Len(d_decoded) + 8
      <4>1. Len(d_decoded \o more) = Len(d_decoded) + Len(more)
        BY ONLY <2>5, ConcatProperties, Zenon
      <4>. QED  BY <2>2, <4>1
    <3>. QED  BY <2>1, <2>2, <3>1, <3>2
  <2>8. Len(d_decoded') = Decided(out_count)'
    <3>1. Decided(out_count)' = IF out_count' < t THEN 0 ELSE 8 * (out_count' - t)
      BY <1>1, <1>2, <1>4 DEF Decided
    <3>2. PICK passed \in Nat : out_count = passed /\ out_count' = passed + 1
      BY <1>7, <1>10, <2>1
    <3>3. CASE passed < t
      BY <1>4, <1>10, <2>7, <3>1, <3>2, <3>3
    <3>4. CASE ~(passed < t)
      BY <1>4, <1>10, <2>7, <3>1, <3>2, <3>4
    <3>. QED  BY <3>3, <3>4
  <2>9. Counting'
    BY <1>3, <1>7, <2>4, <2>6, <2>8 DEF Counting
  <2>10. d_store_pos' \in 0 .. TRACEBACK_MAX - 1
    <3>1. d_store_pos \in Nat
      <4>1. d_store_pos \in 0 .. TRACEBACK_MAX - 1
        BY Zenon DEF CodingInv, Basics
      <4>. QED  BY <4>1 DEF TRACEBACK_MAX
    <3>2. (d_store_pos + 1) % t \in 0 .. 23
      BY <1>4, <3>1
    <3>. QED  BY <1>4, <2>1, <3>2 DEF TRACEBACK_MAX
  <2>11. Basics'
    BY <2>10 DEF Decode, CodingInv, Basics
  <2>. QED  BY <1>5, <1>6, <2>9, <2>11 DEF CodingInv
<1>. QED  BY <1>11, <1>12

\* Every step keeps the invariant.
LEMMA InvNext == ASSUME CodingInv, [Next]_vars PROVE CodingInv'
<1>1. ASSUME NEW f \in FRAMES, Send(f)
      PROVE  CodingInv'
  <2>1. Basics'
    <3>1. /\ sent < MAX_FRAMES /\ sent' = sent + 1
          /\ d_scrambler' = IF d_scrambler = 127 THEN 1 ELSE d_scrambler + 1
          /\ sent \in 0 .. MAX_FRAMES /\ d_scrambler \in 1 .. 127
      BY <1>1, Zenon DEF Send, CodingInv, Basics
    <3>2. MAX_FRAMES \in Nat
      BY FramesAssumption
    <3>3. sent' \in 0 .. MAX_FRAMES /\ d_scrambler' \in 1 .. 127
      BY <3>1, <3>2
    <3>. QED  BY <1>1, <3>3 DEF Send, CodingInv, Basics, coding
  <2>. QED  BY <1>1, <2>1, InvUnmoved DEF Send
<1>2. CASE Collect
  BY <1>2, InvCollect
<1>3. CASE Decode
  BY <1>3, InvDecode
<1>4. CASE Descramble
  <2>1. Basics'
    BY <1>4 DEF Descramble, CodingInv, Basics, coding
  <2>. QED  BY <1>4, <2>1, InvUnmoved DEF Descramble
<1>5. CASE UNCHANGED vars
  <2>. USE DEF vars, coding, buffers, trellis
  <2>1. Basics' /\ Filled'
    BY <1>5 DEF CodingInv, Basics, Filled
  <2>2. Counting'
    BY <1>5, SMTT(40) DEF CodingInv, Counting, Decided
  <2>3. TrellisOK'
    BY <1>5 DEF CodingInv, TrellisOK, Metrics, AfterDecision, AfterFirst, AfterSecond,
       AfterThird
  <2>. QED  BY <2>1, <2>2, <2>3 DEF CodingInv
<1>. QED  BY <1>1, <1>2, <1>3, <1>4, <1>5 DEF Next

\* The invariant holds throughout, for frames of any number and size.
LEMMA AlwaysCoding == Spec => []CodingInv
BY InvInit, InvNext, PTL DEF Spec

\* The metrics of the decoder never leave a byte, whatever symbols it reads and
\* stale values follow a frame, and it reads and writes within its buffers.
THEOREM CodingTypeCorrect == Spec => []TypeOK
<1>1. ASSUME CodingInv
      PROVE  TypeOK
  <2>1. d_path \in [States -> 0 .. 255]
    BY <1>1 DEF CodingInv, TrellisOK
  <2>2. \A n \in States : d_metric[n] \in 0 .. 255
    <3>1. CASE AfterDecision
      BY <3>1 DEF AfterDecision
    <3>2. CASE AfterFirst
      BY <3>2 DEF AfterFirst
    <3>3. CASE AfterSecond
      BY <3>3 DEF AfterSecond
    <3>4. CASE AfterThird
      BY <3>4 DEF AfterThird
    <3>. QED  BY <1>1, <3>1, <3>2, <3>3, <3>4 DEF CodingInv, TrellisOK, Metrics
  <2>3. DOMAIN d_encoded_bits = 0 .. WINDOW - 1 /\ DOMAIN d_depunctured = 0 .. WINDOW - 1
    BY <1>1 DEF CodingInv, Filled, Places
  <2>4. in_count <= WINDOW
    BY <1>1, ViterbiAssumption DEF CodingInv, Counting
  <2>. QED  BY <1>1, <2>1, <2>2, <2>3, <2>4 DEF CodingInv, Basics, TypeOK
<1>. QED  BY <1>1, AlwaysCoding, PTL

-----------------------------------------------------------------------------
(* Decisions.                                                              *)

\* Numbers and their bits.
LEMMA Bits ==
  ASSUME NEW n \in 0 .. 63
  PROVE  /\ \A i \in 0 .. 5 : Bit(n, i) \in 0 .. 1
         /\ n = Bit(n, 0) + 2 * Bit(n, 1) + 4 * Bit(n, 2) + 8 * Bit(n, 3)
                  + 16 * Bit(n, 4) + 32 * Bit(n, 5)
<1>1. \A i \in 0 .. 5 : Bit(n, i) \in 0 .. 1
  BY BitRange
<1>2. /\ Bit(n, 0) = n % 2 /\ Bit(n, 1) = (n \div 2) % 2 /\ Bit(n, 2) = (n \div 4) % 2
      /\ Bit(n, 3) = (n \div 8) % 2 /\ Bit(n, 4) = (n \div 16) % 2
      /\ Bit(n, 5) = (n \div 32) % 2
  BY DEF Bit
<1>3. /\ n = 2 * (n \div 2) + (n % 2)
      /\ n \div 2 = 2 * (n \div 4) + ((n \div 2) % 2)
      /\ n \div 4 = 2 * (n \div 8) + ((n \div 4) % 2)
  OBVIOUS
<1>4. /\ n \div 8 = 2 * (n \div 16) + ((n \div 8) % 2)
      /\ n \div 16 = 2 * (n \div 32) + ((n \div 16) % 2)
      /\ n \div 32 = (n \div 32) % 2
  OBVIOUS
<1>5. PICK a \in Nat, b \in Nat, c \in Nat, d \in Nat, e \in Nat :
        a = n \div 2 /\ b = n \div 4 /\ c = n \div 8 /\ d = n \div 16 /\ e = n \div 32
  OBVIOUS
<1>6. PICK p \in 0 .. 1, q \in 0 .. 1, r \in 0 .. 1, s \in 0 .. 1, t \in 0 .. 1,
           u \in 0 .. 1 :
        /\ p = Bit(n, 0) /\ q = Bit(n, 1) /\ r = Bit(n, 2)
        /\ s = Bit(n, 3) /\ t = Bit(n, 4) /\ u = Bit(n, 5)
  BY <1>1
<1>7. /\ n = 2 * a + p /\ a = 2 * b + q /\ b = 2 * c + r
      /\ c = 2 * d + s /\ d = 2 * e + t /\ e = u
  BY <1>2, <1>3, <1>4, <1>5, <1>6
<1>8. n = p + 2 * q + 4 * r + 8 * s + 16 * t + 32 * u
  BY ONLY <1>7, n \in Nat, a \in Nat, b \in Nat, c \in Nat, d \in Nat, e \in Nat,
     p \in Nat, q \in Nat, r \in Nat, s \in Nat, t \in Nat, u \in Nat
<1>. QED  BY <1>1, <1>6, <1>8

\* An axis of 16QAM is decided right below half the distance of two points.
LEMMA Axis16Decides ==
  ASSUME NEW sign \in 0 .. 1, NEW inner \in 0 .. 1, NEW noise \in -315 .. 315
  PROVE  Axis16(Signed(sign, Amplitude16(inner)) + noise) = sign + 2 * inner
BY DEF Axis16, Signed, Amplitude16, Flag, Size

\* Likewise of 64QAM.
LEMMA Axis64Decides ==
  ASSUME NEW sign \in 0 .. 1, NEW inner \in 0 .. 1, NEW middle \in 0 .. 1,
         NEW noise \in -153 .. 153
  PROVE  Axis64(Signed(sign, Amplitude64(inner, middle)) + noise)
           = sign + 2 * inner + 4 * middle
BY DEF Axis64, Signed, Amplitude64, Flag, Size

\* Points moved by any noise below the level, on both axes.
LEMMA Decides16 ==
  ASSUME NEW n \in 0 .. 15, NEW x \in -315 .. 315, NEW y \in -315 .. 315
  PROVE  decision_maker("16qam", <<point("16qam", n)[1] + x, point("16qam", n)[2] + y>>) = n
<1>1. PICK b0 \in 0 .. 1, b1 \in 0 .. 1, b2 \in 0 .. 1, b3 \in 0 .. 1 :
        /\ b0 = Bit(n, 0) /\ b1 = Bit(n, 1) /\ b2 = Bit(n, 2) /\ b3 = Bit(n, 3)
        /\ n = b0 + 2 * b1 + 4 * (b2 + 2 * b3)
  <2>1. n \in 0 .. 63
    OBVIOUS
  <2>2. \A i \in 0 .. 5 : Bit(n, i) \in 0 .. 1
    BY <2>1, Bits
  <2>3. n = Bit(n, 0) + 2 * Bit(n, 1) + 4 * Bit(n, 2) + 8 * Bit(n, 3)
              + 16 * Bit(n, 4) + 32 * Bit(n, 5)
    BY <2>1, Bits
  <2>. QED  BY <2>2, <2>3
<1>2. point("16qam", n) = <<Signed(b0, Amplitude16(b1)), Signed(b2, Amplitude16(b3))>>
  BY <1>1 DEF point
<1>3. /\ Axis16(Signed(b0, Amplitude16(b1)) + x) = b0 + 2 * b1
      /\ Axis16(Signed(b2, Amplitude16(b3)) + y) = b2 + 2 * b3
  BY Axis16Decides, SMTT(40)
<1>. QED  BY <1>1, <1>2, <1>3 DEF decision_maker

\* A point of 64QAM moved by less than the level on both axes is decided as sent.
LEMMA Decides64 ==
  ASSUME NEW n \in 0 .. 63, NEW x \in -153 .. 153, NEW y \in -153 .. 153
  PROVE  decision_maker("64qam", <<point("64qam", n)[1] + x, point("64qam", n)[2] + y>>) = n
<1>1. PICK b0 \in 0 .. 1, b1 \in 0 .. 1, b2 \in 0 .. 1,
           b3 \in 0 .. 1, b4 \in 0 .. 1, b5 \in 0 .. 1 :
        /\ b0 = Bit(n, 0) /\ b1 = Bit(n, 1) /\ b2 = Bit(n, 2)
        /\ b3 = Bit(n, 3) /\ b4 = Bit(n, 4) /\ b5 = Bit(n, 5)
        /\ n = (b0 + 2 * b1 + 4 * b2) + 8 * (b3 + 2 * b4 + 4 * b5)
  <2>1. \A i \in 0 .. 5 : Bit(n, i) \in 0 .. 1
    BY Bits
  <2>2. n = Bit(n, 0) + 2 * Bit(n, 1) + 4 * Bit(n, 2) + 8 * Bit(n, 3)
              + 16 * Bit(n, 4) + 32 * Bit(n, 5)
    BY Bits
  <2>. QED  BY <2>1, <2>2
<1>2. point("64qam", n) = <<Signed(b0, Amplitude64(b1, b2)), Signed(b3, Amplitude64(b4, b5))>>
  BY <1>1 DEF point
<1>3. /\ Axis64(Signed(b0, Amplitude64(b1, b2)) + x) = b0 + 2 * b1 + 4 * b2
      /\ Axis64(Signed(b3, Amplitude64(b4, b5)) + y) = b3 + 2 * b4 + 4 * b5
  BY Axis64Decides, SMTT(40)
<1>. QED  BY <1>1, <1>2, <1>3 DEF decision_maker

\* Noise below half the distance of two points never changes a decision, on
\* either axis and at any corner (constellations_impl.cc).
THEOREM DecisionsHold == Spec => []DecidesWithinLevel
<1>1. decided_16qam
  <2>1. ASSUME NEW n \in 0 .. 15, NEW noise \in Noise(316) \X Noise(316)
        PROVE  decision_maker("16qam", <<point("16qam", n)[1] + noise[1],
                                         point("16qam", n)[2] + noise[2]>>) = n
    <3>1. noise[1] \in -315 .. 315 /\ noise[2] \in -315 .. 315
      BY DEF Noise
    <3>. QED  BY <3>1, Decides16, ZenonT(60)
  <2>. QED  BY <2>1 DEF decided_16qam, decided_as_sent
<1>2. decided_64qam
  <2>1. ASSUME NEW n \in 0 .. 63, NEW noise \in Noise(154) \X Noise(154)
        PROVE  decision_maker("64qam", <<point("64qam", n)[1] + noise[1],
                                         point("64qam", n)[2] + noise[2]>>) = n
    <3>1. noise[1] \in -153 .. 153 /\ noise[2] \in -153 .. 153
      BY DEF Noise
    <3>. QED  BY <3>1, Decides64, ZenonT(60)
  <2>2. 64 - 1 = 63
    OBVIOUS
  <2>. QED  BY <2>1, <2>2, Zenon DEF decided_64qam, decided_as_sent
<1>3. CodingInv => DecidesWithinLevel
  BY <1>1, <1>2, Zenon DEF DecidesWithinLevel
<1>. QED  BY <1>3, AlwaysCoding, PTL

-----------------------------------------------------------------------------
(* What is sent.                                                           *)

\* The symbols of a frame at its rates: the data bits do not overflow, and they
\* are as many as the coded bits are made from.
LEMMA Symbols ==
  ASSUME NEW f \in FRAMES, NEW e, e = f.encoding,
         NEW param, param = frame_param(e, Len(f.psdu)), NEW n, n = param.n_sym,
         NEW d, d = ofdm_param(e).n_dbps
  PROVE  /\ n \in Nat
         /\ param.n_data_bits = n * d
         /\ param.n_encoded_bits = n * ofdm_param(e).n_cbps
<1>1. e \in Encodings /\ Len(f.psdu) \in Nat /\ Len(f.psdu) <= 511
  BY FramesAssumption DEF MAX_PSDU_SIZE, Decodable
<1>2. d \in {6, 12, 24, 36, 48, 72, 96, 108, 120}
  BY <1>1 DEF ofdm_param, Params, Encodings
<1>3. PICK x \in Nat : x = 8 * Len(f.psdu) + 8 + 6 + d - 1 /\ x < 5000
  <2>1. PICK l \in Nat, rate \in Nat :
          l = Len(f.psdu) /\ l <= 511 /\ rate = d /\ rate > 0 /\ rate <= 120
    BY <1>1, <1>2
  <2>2. 8 * l + 8 + 6 + rate - 1 \in Nat /\ 8 * l + 8 + 6 + rate - 1 < 5000
    BY <2>1
  <2>. QED  BY <2>1, <2>2
<1>4. n = x \div d
  BY <1>3 DEF frame_param, NSym
<1>5. n \in Nat /\ n * d \in Nat /\ n * d <= x
  <2>1. d \in Nat /\ d > 0
    BY <1>2
  <2>2. /\ x \div d \in Nat /\ x % d \in 0 .. d - 1
        /\ x = d * (x \div d) + (x % d)
    BY ONLY <2>1, x \in Nat
  <2>3. n \in Nat
    BY <1>4, <2>2
  <2>4. PICK y \in Nat, r \in Nat : y = d * n /\ r = x % d
    BY <2>1, <2>2, <2>3
  <2>5. n * d = y
    BY <2>1, <2>3, <2>4
  <2>6. x = y + r
    BY <1>4, <2>2, <2>4
  <2>. QED  BY <2>3, <2>4, <2>5, <2>6
<1>6. (n * d) % 65536 = n * d
  <2>1. PICK y \in Nat : y = n * d /\ y < 5000
    BY <1>3, <1>5
  <2>. QED  BY <2>1
<1>. QED  BY <1>5, <1>6 DEF frame_param

\* The convolutional code is bits.
LEMMA CodeBits ==
  ASSUME NEW in, NEW n \in Nat, NEW j \in 0 .. 2 * n - 1
  PROVE  convolutional_encoding(in, n)[j] \in 0 .. 1
<1>. DEFINE i == j \div 2
            S == {age \in Taps[(j % 2) + 1] : age <= i /\ in[i - age] = 1}
<1>1. S \subseteq 0 .. 6
  <2>1. (j % 2) + 1 \in {1, 2}
    OBVIOUS
  <2>2. Taps[1] \subseteq 0 .. 6 /\ Taps[2] \subseteq 0 .. 6
    BY DEF Taps
  <2>. QED  BY <2>1, <2>2
<1>2. IsFiniteSet(S)
  <2>1. PICK first \in Int, last \in Int : first = 0 /\ last = 6
    OBVIOUS
  <2>2. IsFiniteSet(0 .. 6)
    BY <2>1, FS_Interval
  <2>. QED  BY <1>1, <2>2, FS_Subset
<1>3. Cardinality(S) \in Nat
  BY <1>2, FS_CardinalityType
<1>4. convolutional_encoding(in, n)[j] = Cardinality(S) % 2
  BY DEF convolutional_encoding, Buffer
<1>. QED  BY <1>3, <1>4

\* Puncturing takes what it keeps from the code, at each rate.
LEMMA KeptBits ==
  ASSUME NEW e \in Encodings, NEW n_sym \in Nat, NEW code, NEW d, NEW c,
         d = ofdm_param(e).n_dbps, c = ofdm_param(e).n_cbps,
         \A j \in 0 .. 2 * (n_sym * d) - 1 : code[j] \in 0 .. 1,
         NEW k \in 0 .. n_sym * c - 1
  PROVE  puncturing(code, n_sym * c, e)[k] \in 0 .. 1
<1>. DEFINE kept == Kept(e)
            per == Len(kept.offsets)
            from == kept.period * (k \div per) + kept.offsets[(k % per) + 1]
<1>1. puncturing(code, n_sym * c, e)[k] = IF e = "QAM64_5_6" THEN 0 ELSE code[from]
  BY DEF puncturing, Buffer
<1>2. k \in Nat /\ k < n_sym * c
  <2>1. c \in Nat
    BY DEF ofdm_param, Params, Encodings
  <2>. QED  BY <2>1
<1>. HIDE DEF from
<1>3. CASE e = "QAM64_5_6"
  BY <1>1, <1>3
<1>4. CASE e \in {"BPSK_1_2", "BPSK_1_2_REP", "QPSK_1_2", "QAM16_1_2"}
  <2>1. Kept(e) = [period |-> 2, offsets |-> <<0, 1>>]
    BY <1>4 DEF Kept
  <2>2. d \in {6, 12, 24, 48} /\ c = 2 * d
    BY <1>4 DEF ofdm_param, Params
  <2>3. PICK o \in 0 .. 1 : o = <<0, 1>>[(k % 2) + 1] /\ from = 2 * (k \div 2) + o
    BY <2>1 DEF from
  <2>4. from \in 0 .. 2 * (n_sym * d) - 1
    BY <1>2, <2>2, <2>3
  <2>. QED  BY <1>1, <1>4, <2>4
<1>5. CASE e = "QAM64_2_3"
  <2>1. Kept(e) = [period |-> 4, offsets |-> <<0, 1, 2>>]
    BY <1>5 DEF Kept
  <2>2. d = 96 /\ c = 144
    BY <1>5 DEF ofdm_param, Params
  <2>3. PICK o \in 0 .. 2 : o = <<0, 1, 2>>[(k % 3) + 1] /\ from = 4 * (k \div 3) + o
    BY <2>1 DEF from
  <2>4. from \in 0 .. 2 * (n_sym * d) - 1
    BY <1>2, <2>2, <2>3
  <2>. QED  BY <1>1, <1>5, <2>4
<1>6. CASE e \in {"QPSK_3_4", "QAM16_3_4", "QAM64_3_4"}
  <2>1. Kept(e) = [period |-> 6, offsets |-> <<0, 1, 2, 5>>]
    BY <1>6 DEF Kept
  <2>2. \/ d = 36 /\ c = 48
        \/ d = 72 /\ c = 96
        \/ d = 108 /\ c = 144
    <3>1. CASE e = "QPSK_3_4"
      BY <3>1 DEF ofdm_param, Params
    <3>2. CASE e = "QAM16_3_4"
      BY <3>2 DEF ofdm_param, Params
    <3>3. CASE e = "QAM64_3_4"
      BY <3>3 DEF ofdm_param, Params
    <3>. QED  BY <1>6, <3>1, <3>2, <3>3
  <2>3. PICK o \in 0 .. 5 : o = <<0, 1, 2, 5>>[(k % 4) + 1] /\ from = 6 * (k \div 4) + o
    BY <2>1 DEF from
  <2>4. from \in 0 .. 2 * (n_sym * d) - 1
    BY <1>2, <2>2, <2>3
  <2>. QED  BY <1>1, <1>6, <2>4
<1>. QED  BY <1>3, <1>4, <1>5, <1>6 DEF Encodings

\* Repetition repeats bits.
LEMMA RepeatedAreBits ==
  ASSUME NEW in, NEW n_sym \in Nat, \A j \in 0 .. n_sym * 12 - 1 : in[j] \in 0 .. 1,
         NEW k \in 0 .. n_sym * 24 - 1
  PROVE  repeat(in, n_sym)[k] \in 0 .. 1
<1>1. Half = 12 /\ CODED_BITS_PER_OFDM_SYMBOL = 24
  BY DEF Half, CODED_BITS_PER_OFDM_SYMBOL
<1>2. repeat(in, n_sym)[k] =
        Xor(in[(k \div 24) * 12 + ((k % 24) % 12)],
            IF k % 24 < 12 THEN 0 ELSE Signs[(k % 24) - 12 + 1])
  BY <1>1 DEF repeat, Buffer
<1>3. PICK a \in 0 .. 1 : a = in[(k \div 24) * 12 + ((k % 24) % 12)]
  <2>1. (k \div 24) * 12 + ((k % 24) % 12) \in 0 .. n_sym * 12 - 1
    OBVIOUS
  <2>. QED  BY <2>1
<1>4. PICK s \in 0 .. 1 : s = IF k % 24 < 12 THEN 0 ELSE Signs[(k % 24) - 12 + 1]
  <2>1. \A i \in 1 .. 12 : Signs[i] \in 0 .. 1
    BY DEF Signs
  <2>2. ~(k % 24 < 12) => (k % 24) - 12 + 1 \in 1 .. 12
    OBVIOUS
  <2>. QED  BY <2>1, <2>2
<1>. QED  BY <1>2, <1>3, <1>4 DEF Xor

\* Interleaving moves bits within their symbol.
LEMMA InterleavedAreBits ==
  ASSUME NEW e \in Encodings, NEW n, n = AirBits(e), NEW n_sym \in Nat, NEW in,
         \A j \in 0 .. n_sym * n - 1 : in[j] \in 0 .. 1, NEW k \in 0 .. n_sym * n - 1
  PROVE  interleave(in, n_sym, e)[k] \in 0 .. 1
<1>1. n \in {24, 48, 96, 144}
  <2>1. PICK b : b = ofdm_param(e).n_bpsc
    OBVIOUS
  <2>. QED  BY <2>1, AirRates
<1>2. interleave(in, n_sym, e)[k] = in[(k \div n) * n + Interleaving[e][k % n]]
  BY DEF interleave, Buffer
<1>3. k \in Nat /\ k % n \in 0 .. n - 1
  BY <1>1
<1>4. PICK m \in 0 .. n - 1 : m = Interleaving[e][k % n]
  BY <1>3, InterleavingPermutes
<1>5. (k \div n) * n + m \in 0 .. n_sym * n - 1
  <2>1. k \div n \in Nat /\ k \div n < n_sym
    BY <1>1, <1>3
  <2>. QED  BY <1>1, <2>1
<1>. QED  BY <1>2, <1>4, <1>5

\* How many points there are.
NumPoints(e) ==
  CASE ofdm_param(e).n_bpsc = 1 -> 2
    [] ofdm_param(e).n_bpsc = 2 -> 4
    [] ofdm_param(e).n_bpsc = 4 -> 16
    [] ofdm_param(e).n_bpsc = 6 -> 64

\* A number of bits is the number of a point.
LEMMA NumberRange ==
  ASSUME NEW b \in {1, 2, 4, 6}, NEW in, NEW from \in Nat,
         \A j \in from .. from + b - 1 : in[j] \in 0 .. 1
  PROVE  Number(in, from, b) \in 0 .. (CASE b = 1 -> 2 [] b = 2 -> 4 [] b = 4 -> 16
                                         [] b = 6 -> 64) - 1
<1>. DEFINE worth(k) == IF k < b THEN in[from + k] * 2^k ELSE 0
<1>1. Number(in, from, b) = worth(0) + worth(1) + worth(2) + worth(3) + worth(4)
                              + worth(5) + worth(6) + worth(7) + worth(8)
  BY DEF Number
<1>2. \A k \in 0 .. 8 : k < b => in[from + k] \in 0 .. 1
  OBVIOUS
<1>3. /\ worth(0) \in 0 .. 1 /\ worth(6) = 0 /\ worth(7) = 0 /\ worth(8) = 0
      /\ worth(1) \in 0 .. (IF b > 1 THEN 2 ELSE 0)
      /\ worth(2) \in 0 .. (IF b > 2 THEN 4 ELSE 0)
      /\ worth(3) \in 0 .. (IF b > 3 THEN 8 ELSE 0)
      /\ worth(4) \in 0 .. (IF b > 4 THEN 16 ELSE 0)
      /\ worth(5) \in 0 .. (IF b > 5 THEN 32 ELSE 0)
  BY <1>2
<1>. HIDE DEF worth
<1>. QED  BY <1>1, <1>3

\* The modulation steps make numbers of points.
LEMMA ModulatedIs ==
  ASSUME NEW f \in FRAMES, NEW seed, NEW j \in DOMAIN Modulated(f, seed)
  PROVE  Modulated(f, seed)[j] \in 0 .. NumPoints(f.encoding) - 1
<1>. DEFINE e == f.encoding
            param == frame_param(e, Len(f.psdu))
            n == param.n_data_bits
            data == reset_tail_bits(scramble(generate_bits(f.psdu, n), n, seed), n, n_pad(f))
            code == convolutional_encoding(data, n)
            punctured == puncturing(code, param.n_encoded_bits, e)
            repeated == IF e = "BPSK_1_2_REP" THEN repeat(punctured, param.n_sym)
                        ELSE punctured
            mixed == interleave(repeated, param.n_sym, e)
            b == ofdm_param(e).n_bpsc
<1>1. Modulated(f, seed) = split_symbols(mixed, param.n_sym, b)
  BY DEF Modulated
<1>2. PICK sym, d, c, air :
        /\ sym = param.n_sym /\ d = ofdm_param(e).n_dbps /\ c = ofdm_param(e).n_cbps
        /\ air = AirBits(e)
  OBVIOUS
<1>3. e \in Encodings /\ sym \in Nat /\ n = sym * d /\ param.n_encoded_bits = sym * c
  BY <1>2, Symbols, FramesAssumption DEF Decodable
<1>4. b \in {1, 2, 4, 6} /\ air = 24 * b
  BY <1>2, <1>3, AirRates
<1>5. /\ d \in Nat
      /\ IF e = "BPSK_1_2_REP" THEN c = 12 /\ air = 24 ELSE c = air
  <2>1. d \in Nat
    BY <1>2, <1>3 DEF ofdm_param, Params, Encodings
  <2>2. c = IF e = "BPSK_1_2_REP" THEN 12 ELSE 24 * b
    BY <1>2, <1>3 DEF ofdm_param, Params, Encodings
  <2>3. e = "BPSK_1_2_REP" => b = 1
    BY DEF ofdm_param, Params
  <2>. QED  BY <1>4, <2>1, <2>2, <2>3
<1>. HIDE DEF b, param, e, data
<1>6. \A k \in 0 .. 2 * (sym * d) - 1 : code[k] \in 0 .. 1
  <2>1. sym * d \in Nat
    BY <1>3, <1>5
  <2>. QED  BY <1>3, <2>1, CodeBits
<1>. HIDE DEF code, n
<1>7. \A k \in 0 .. sym * c - 1 : punctured[k] \in 0 .. 1
  BY <1>2, <1>3, <1>6, KeptBits
<1>. HIDE DEF punctured
<1>8. \A k \in 0 .. sym * air - 1 : repeated[k] \in 0 .. 1
  <2>1. CASE e = "BPSK_1_2_REP"
    BY <1>2, <1>3, <1>5, <1>7, <2>1, RepeatedAreBits
  <2>2. CASE e # "BPSK_1_2_REP"
    BY <1>5, <1>7, <2>2
  <2>. QED  BY <2>1, <2>2
<1>. HIDE DEF repeated
<1>9. \A k \in 0 .. sym * air - 1 : mixed[k] \in 0 .. 1
  BY <1>2, <1>3, <1>8, InterleavedAreBits
<1>. HIDE DEF mixed
<1>10. Modulated(f, seed) = [i \in 0 .. sym * 24 - 1 |-> Number(mixed, i * b, b)]
  BY <1>1, <1>2 DEF split_symbols, Buffer, CODED_BITS_PER_OFDM_SYMBOL
<1>11. j \in 0 .. sym * 24 - 1 /\ Modulated(f, seed)[j] = Number(mixed, j * b, b)
  BY <1>10
<1>12. j * b \in Nat /\ \A k \in j * b .. j * b + b - 1 : mixed[k] \in 0 .. 1
  <2>1. j * b \in Nat /\ j * b + b - 1 <= sym * air - 1
    BY <1>3, <1>4, <1>11
  <2>2. \A k \in j * b .. j * b + b - 1 : k \in 0 .. sym * air - 1
    BY <1>3, <1>4, <2>1
  <2>. QED  BY <1>9, <2>1, <2>2
<1>. QED  BY <1>4, <1>11, <1>12, NumberRange DEF NumPoints, b, e

-----------------------------------------------------------------------------
(* What is received.                                                       *)

\* Where the receiver knows the constellation, it slices the bits that were
\* modulated.
LEMMA SlicesSame ==
  ASSUME NEW e \in Encodings, e # "QAM64_2_3", NEW n \in 0 .. NumPoints(e) - 1
  PROVE  decision_maker(Constellation(e), point(Mapping(e), n)) = n
<1>1. Constellation(e) = Mapping(e)
  BY DEF Constellation
<1>2. Mapping(e) \in {"bpsk", "qpsk", "16qam", "64qam"}
  BY DEF Mapping
<1>3. n \in 0 .. (CASE Mapping(e) = "bpsk" -> 1 [] Mapping(e) = "qpsk" -> 3
                    [] Mapping(e) = "16qam" -> 15 [] Mapping(e) = "64qam" -> 63)
  BY DEF NumPoints, ofdm_param, Params, Mapping, Encodings
<1>4. n \in 0 .. 63
  BY <1>2, <1>3
<1>5. PICK b0 \in 0 .. 1, b1 \in 0 .. 1, b2 \in 0 .. 31 :
        b0 = Bit(n, 0) /\ b1 = Bit(n, 1) /\ n = b0 + 2 * b1 + 4 * b2
  <2>1. Bit(n, 0) = n % 2 /\ Bit(n, 1) = (n \div 2) % 2
    BY DEF Bit
  <2>2. n % 2 \in 0 .. 1 /\ (n \div 2) % 2 \in 0 .. 1 /\ n \div 4 \in 0 .. 31
        /\ n = (n % 2) + 2 * ((n \div 2) % 2) + 4 * (n \div 4)
    BY <1>4
  <2>. QED  BY <2>1, <2>2
<1>6. CASE Mapping(e) = "bpsk"
  <2>1. point("bpsk", n)[1] = Signed(b0, 1000) /\ n = b0
    BY <1>3, <1>5, <1>6 DEF point
  <2>2. Flag(Signed(b0, 1000) > 0) = b0
    BY DEF Flag, Signed
  <2>. QED  BY <1>1, <1>6, <2>1, <2>2 DEF decision_maker
<1>7. CASE Mapping(e) = "qpsk"
  <2>1. point("qpsk", n) = <<Signed(b0, 707), Signed(b1, 707)>> /\ n = b0 + 2 * b1
    BY <1>3, <1>5, <1>7 DEF point
  <2>2. Flag(Signed(b0, 707) > 0) = b0 /\ Flag(Signed(b1, 707) > 0) = b1
    BY DEF Flag, Signed
  <2>3. 2 * b1 + b0 = b0 + 2 * b1
    OBVIOUS
  <2>. QED  BY <1>1, <1>7, <2>1, <2>2, <2>3 DEF decision_maker
<1>8. CASE Mapping(e) = "16qam"
  <2>1. PICK x \in -315 .. 315 : x = 0
    OBVIOUS
  <2>2. point("16qam", n) = <<point("16qam", n)[1] + x, point("16qam", n)[2] + x>>
    <3>1. /\ Signed(Bit(n, 0), Amplitude16(Bit(n, 1))) \in Int
          /\ Signed(Bit(n, 2), Amplitude16(Bit(n, 3))) \in Int
      BY DEF Signed, Amplitude16
    <3>. QED  BY <2>1, <3>1 DEF point
  <2>3. n \in 0 .. 15
    BY <1>3, <1>4, <1>8, SMTT(40)
  <2>4. decision_maker("16qam", <<point("16qam", n)[1] + x, point("16qam", n)[2] + x>>) = n
    BY <2>1, <2>3, Decides16, ZenonT(60)
  <2>5. decision_maker("16qam", point("16qam", n)) = n
    BY <2>2, <2>4, Zenon
  <2>. QED  BY <1>1, <1>8, <2>5, Zenon
<1>9. CASE Mapping(e) = "64qam"
  <2>1. PICK x \in -153 .. 153 : x = 0
    OBVIOUS
  <2>2. point("64qam", n) = <<point("64qam", n)[1] + x, point("64qam", n)[2] + x>>
    <3>1. /\ Signed(Bit(n, 0), Amplitude64(Bit(n, 1), Bit(n, 2))) \in Int
          /\ Signed(Bit(n, 3), Amplitude64(Bit(n, 4), Bit(n, 5))) \in Int
      BY DEF Signed, Amplitude64
    <3>. QED  BY <2>1, <3>1 DEF point
  <2>3. n \in 0 .. 63
    BY <1>3, <1>4, <1>9
  <2>4. decision_maker("64qam", <<point("64qam", n)[1] + x, point("64qam", n)[2] + x>>) = n
    BY <2>1, <2>3, Decides64, ZenonT(60)
  <2>5. decision_maker("64qam", point("64qam", n)) = n
    BY <2>2, <2>4, Zenon
  <2>. QED  BY <1>1, <1>9, <2>5, Zenon
<1>. QED  BY <1>2, <1>6, <1>7, <1>8, <1>9

\* An axis of 64QAM that is taken for one of 16QAM keeps its sign and its second
\* bit, whose amplitudes the threshold separates, and loses the third.
LEMMA Axis16Misreads ==
  ASSUME NEW sign \in 0 .. 1, NEW inner \in 0 .. 1, NEW middle \in 0 .. 1
  PROVE  Axis16(Signed(sign, Amplitude64(inner, middle))) = sign + 2 * inner
BY DEF Axis16, Signed, Amplitude64, Flag, Size

\* At QAM64_2_3 the receiver slices the points 0 to 3 right, and no others.
LEMMA SlicesOther ==
  ASSUME NEW n \in 0 .. 63
  PROVE  decision_maker("16qam", point("64qam", n)) = n <=> n \in 0 .. 3
<1>1. PICK b0 \in 0 .. 1, b1 \in 0 .. 1, b2 \in 0 .. 1,
           b3 \in 0 .. 1, b4 \in 0 .. 1, b5 \in 0 .. 1 :
        /\ b0 = Bit(n, 0) /\ b1 = Bit(n, 1) /\ b2 = Bit(n, 2)
        /\ b3 = Bit(n, 3) /\ b4 = Bit(n, 4) /\ b5 = Bit(n, 5)
        /\ n = b0 + 2 * b1 + 4 * b2 + 8 * b3 + 16 * b4 + 32 * b5
  <2>1. \A i \in 0 .. 5 : Bit(n, i) \in 0 .. 1
    BY Bits
  <2>2. n = Bit(n, 0) + 2 * Bit(n, 1) + 4 * Bit(n, 2) + 8 * Bit(n, 3)
              + 16 * Bit(n, 4) + 32 * Bit(n, 5)
    BY Bits
  <2>. QED  BY <2>1, <2>2
<1>2. point("64qam", n) = <<Signed(b0, Amplitude64(b1, b2)), Signed(b3, Amplitude64(b4, b5))>>
  BY <1>1 DEF point
<1>3. /\ Axis16(Signed(b0, Amplitude64(b1, b2))) = b0 + 2 * b1
      /\ Axis16(Signed(b3, Amplitude64(b4, b5))) = b3 + 2 * b4
  BY Axis16Misreads
<1>4. decision_maker("16qam", point("64qam", n)) = b0 + 2 * b1 + 4 * (b3 + 2 * b4)
  BY <1>2, <1>3 DEF decision_maker
<1>5. b0 + 2 * b1 + 4 * (b3 + 2 * b4) = b0 + 2 * b1 + 4 * b2 + 8 * b3 + 16 * b4 + 32 * b5
        <=> (b2 = 0 /\ b3 = 0 /\ b4 = 0 /\ b5 = 0)
  BY ONLY b0 \in 0 .. 1, b1 \in 0 .. 1, b2 \in 0 .. 1, b3 \in 0 .. 1, b4 \in 0 .. 1,
     b5 \in 0 .. 1
<1>6. n \in 0 .. 3 <=> (b2 = 0 /\ b3 = 0 /\ b4 = 0 /\ b5 = 0)
  <2>1. n = b0 + 2 * b1 + 4 * b2 + 8 * b3 + 16 * b4 + 32 * b5
    BY <1>1
  <2>2. n <= 3 <=> (b2 = 0 /\ b3 = 0 /\ b4 = 0 /\ b5 = 0)
    BY ONLY <2>1, b0 \in 0 .. 1, b1 \in 0 .. 1, b2 \in 0 .. 1, b3 \in 0 .. 1,
       b4 \in 0 .. 1, b5 \in 0 .. 1
  <2>. QED  BY <2>2
<1>. QED  BY <1>1, <1>4, <1>5, <1>6

\* The numbers of a frame's points, as Send leaves them.
ChunksOK == \A j \in DOMAIN chunks : chunks[j] \in 0 .. NumPoints(frame.encoding) - 1

\* Only Send changes the frame and its points.
LEMMA AlwaysChunks == Spec => []ChunksOK
<1>1. Init => ChunksOK
  BY DEF Init, ChunksOK
<1>2. ChunksOK /\ [Next]_vars => ChunksOK'
  <2>1. ASSUME NEW f \in FRAMES, Send(f)
        PROVE  ChunksOK'
    <3>1. frame' = f /\ chunks' = Modulated(f, d_scrambler)
      BY <2>1 DEF Send
    <3>. QED  BY <3>1, ModulatedIs DEF ChunksOK
  <2>2. ASSUME ChunksOK, UNCHANGED <<frame, chunks>>
        PROVE  ChunksOK'
    BY <2>2 DEF ChunksOK
  <2>. QED  BY <2>1, <2>2 DEF Next, Collect, Decode, Descramble, vars
<1>. QED  BY <1>1, <1>2, PTL DEF Spec

\* The receiver slices each point of a frame into the bits the transmitter
\* modulated, but at QAM64_2_3, which it takes for 16QAM (utils.cc:83).
THEOREM SlicedRight == Spec => []SlicedAsSent
<1>1. ASSUME CodingInv, ChunksOK
      PROVE  SlicedAsSent
  <2>1. frame.encoding \in Encodings
    BY <1>1, FramesAssumption DEF CodingInv, Basics, Decodable
  <2>2. ASSUME NEW j \in DOMAIN chunks
        PROVE  decision_maker(Constellation(frame.encoding),
                              point(Mapping(frame.encoding), chunks[j])) = chunks[j]
                 <=> (frame.encoding = "QAM64_2_3" => chunks[j] \in 0 .. 3)
    <3>1. PICK n : n = chunks[j]
      OBVIOUS
    <3>2. n \in 0 .. NumPoints(frame.encoding) - 1
      BY <1>1, <2>2, <3>1 DEF ChunksOK
    <3>3. CASE frame.encoding # "QAM64_2_3"
      BY <2>1, <3>1, <3>2, <3>3, SlicesSame
    <3>4. CASE frame.encoding = "QAM64_2_3"
      <4>1. n \in 0 .. 63
        BY <3>2, <3>4 DEF NumPoints, ofdm_param, Params
      <4>2. Constellation(frame.encoding) = "16qam" /\ Mapping(frame.encoding) = "64qam"
        BY <3>4 DEF Constellation, Mapping
      <4>. QED  BY <3>1, <3>4, <4>1, <4>2, SlicesOther
    <3>. QED  BY <3>3, <3>4
  <2>. QED  BY <2>2, Zenon DEF SlicedAsSent
<1>. QED  BY <1>1, AlwaysCoding, AlwaysChunks, PTL

=============================================================================
