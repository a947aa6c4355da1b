-------------------------- MODULE SyncLongProofs ---------------------------
(***************************************************************************)
(* Proofs about sync_long for every symbol, guard and search length and     *)
(* every stream: it never throws, and every frame it announces begins on a *)
(* whole symbol.  They begin with the stream itself, which keeps its tags  *)
(* apart.                                                                  *)
(***************************************************************************)
EXTENDS SyncLong, FiniteSetTheorems, TLAPS

-----------------------------------------------------------------------------
(* The frame stream keeps its tags apart.                                  *)

(* Initially, and after every step of the stream, offsets are in range and *)
(* tags are more than MIN_GAP apart (insert_tag of sync_short.cc).         *)
LEMMA StreamInitApart == StreamInit => StreamTypeOK /\ TagsApart
BY GapAssumption DEF StreamInit, StreamTypeOK, TagsApart

\* The step of the induction: StartFrame keeps its distance, SendSample adds no tag.
LEMMA StreamStepApart ==
    ASSUME StreamTypeOK, TagsApart, StreamNext
    PROVE  StreamTypeOK' /\ TagsApart'
<1>. USE GapAssumption DEF StreamTypeOK, TagsApart
<1>1. CASE StartFrame
  <2>1. StreamTypeOK'
    BY <1>1 DEF StartFrame
  <2>2. \A s, t \in tags' : s < t => t - s > MIN_GAP
    BY <1>1 DEF StartFrame
  <2>3. (sent' > 0 => 0 \in tags') /\ \A t \in tags' : t <= sent'
    BY <1>1 DEF StartFrame
  <2>. QED  BY <2>1, <2>2, <2>3
<1>2. CASE SendSample
  <2>1. StreamTypeOK' /\ \A t \in tags' : t <= sent'
    BY <1>2 DEF SendSample
  <2>2. \A s, t \in tags' : s < t => t - s > MIN_GAP
    BY <1>2 DEF SendSample
  <2>3. 0 \in tags'
    \* The frame that takes the sample has a tag; before the first sample it
    \* can only be tagged 0.
    BY <1>2 DEF SendSample
  <2>. QED  BY <2>1, <2>2, <2>3
<1>. QED  BY <1>1, <1>2 DEF StreamNext

(* A stream that starts frames only as sync_short does has its tags more   *)
(* than MIN_GAP apart, for every gap, frame length and stream length.      *)
THEOREM StreamApart == StreamSpec => []TagsApart
<1>1. StreamInit => StreamTypeOK /\ TagsApart
  BY StreamInitApart
<1>2. StreamTypeOK /\ TagsApart /\ [StreamNext]_streamVars
        => (StreamTypeOK /\ TagsApart)'
  <2>1. ASSUME StreamTypeOK, TagsApart, UNCHANGED streamVars
        PROVE  (StreamTypeOK /\ TagsApart)'
    BY <2>1 DEF StreamTypeOK, TagsApart, streamVars
  <2>. QED  BY <2>1, StreamStepApart
<1>. QED  BY <1>1, <1>2, PTL DEF StreamSpec

-----------------------------------------------------------------------------
USE GapAssumption, LengthAssumption, SpacingAssumption

-----------------------------------------------------------------------------
(* Arithmetic of whole symbols.                                            *)

Whole(x) == x % SYM = 0

\* A symbol has samples.
LEMMA SymNat == SYM \in Nat /\ SYM > 0
BY DEF SYM

\* Division by the symbol length, as the prover needs it.
LEMMA DivMod ==
    ASSUME NEW x \in Nat
    PROVE  /\ x \div SYM \in Nat
           /\ x % SYM \in 0..(SYM - 1)
           /\ x = SYM * (x \div SYM) + (x % SYM)
BY DEF SYM

\* A multiple of the symbol length is whole.
LEMMA WholeMultiple ==
    ASSUME NEW q \in Nat
    PROVE  Whole(SYM * q)
BY DEF SYM, Whole

\* Padding fills up the symbols that were begun since a whole number of them.
LEMMA PaddingFills ==
    ASSUME NEW base \in Nat, Whole(base), d_count \in Nat
    PROVE  Padding \in Nat /\ Whole(base + d_count + Padding)
<1>. DEFINE b == base \div SYM
            c == d_count \div SYM
            r == d_count % SYM
<1>1. b \in Nat /\ base = SYM * b
  BY DivMod, SymNat DEF Whole
<1>2. c \in Nat /\ r \in 0..(SYM - 1) /\ d_count = SYM * c + r
  BY DivMod, SymNat
<1>3. SYM \in Nat /\ SYM > 0
  BY SymNat
<1>. HIDE DEF b, c, r
<1>4. CASE r = 0
  <2>1. Padding = 0
    BY <1>3, <1>4, DivMod DEF Padding, r, SYM
  <2>2. base + d_count + Padding = SYM * (b + c)
    BY <1>1, <1>2, <1>3, <1>4, <2>1
  <2>3. Whole(SYM * (b + c))
    BY <1>1, <1>2, WholeMultiple
  <2>. QED  BY <2>1, <2>2, <2>3
<1>5. CASE r # 0
  <2>1. Padding = SYM - r
    BY <1>2, <1>3, <1>5 DEF Padding, r, SYM
  <2>2. base + d_count + Padding = SYM * (b + c + 1)
    BY <1>1, <1>2, <1>3, <2>1
  <2>3. Whole(SYM * (b + c + 1))
    BY <1>1, <1>2, WholeMultiple
  <2>. QED  BY <1>2, <1>3, <2>1, <2>2, <2>3
<1>. QED  BY <1>4, <1>5

\* What a COPY call sends is a finite number of samples.
LEMMA KeptCount ==
    ASSUME d_offset \in Nat, NEW k \in Int
    PROVE  /\ IsFiniteSet(KeptIn(k))
           /\ Cardinality(KeptIn(k)) \in Nat
<1>1. IsFiniteSet(d_offset..(d_offset + k - 1))
  BY FS_Interval
<1>2. KeptIn(k) \in SUBSET (d_offset..(d_offset + k - 1))
  BY DEF KeptIn
<1>3. IsFiniteSet(KeptIn(k))
  BY <1>1, <1>2, FS_Subset
<1>. QED  BY <1>3, FS_CardinalityType

-----------------------------------------------------------------------------
(* The inductive invariant.                                                *)

\* Where the block is in its input: synchronisation begins at a tag and ends
\* before SYNC_LENGTH samples, padding is done in front of one.
Position ==
    /\ nread <= sent
    /\ d_state = "SYNC" =>
         /\ d_offset < SYNC_LENGTH
         /\ d_offset = 0 => nread \in tags \/ sent = 0
    /\ d_state = "RESET" => nread \in tags

\* Where it is in its output: d_count counts from a whole symbol, and nothing of
\* a frame is written before the frame's start.
Alignment ==
    /\ d_count <= written
    /\ Whole(written - d_count)
    /\ d_state = "SYNC" => Whole(written)
    /\ (d_state = "COPY" /\ d_offset <= d_frame_start) => d_count = 0

\* While a frame is copied both estimates are that frame's.
Estimates ==
    (d_state = "COPY" /\ d_frame_start # SYNC_LENGTH)
        => d_freq_offset = d_freq_offset_short

\* Outside synchronisation no correlation is kept.
RestingCor == d_state # "SYNC" => d_cor = {}

IInv ==
    /\ TypeOK
    /\ TagsApart
    /\ Position
    /\ Alignment
    /\ Estimates
    /\ RestingCor
    /\ WindowFromTag
    /\ TagsAligned
    /\ FrequencyOfFrame

\* A tag in the middle of a search would be too close to the one it began at.
LEMMA NoThrowFromIInv == IInv => NoThrow
<1>. SUFFICES ASSUME IInv, Throws PROVE FALSE
  BY DEF NoThrow
<1>1. nread \in tags /\ nread - d_offset \in tags
  BY DEF IInv, TypeOK, WindowFromTag, Throws, AtTag
<1>2. d_offset > 0 /\ d_offset < SYNC_LENGTH
  BY DEF IInv, TypeOK, Position, Throws
<1>3. nread \in Nat /\ d_offset \in Nat /\ nread - (nread - d_offset) > MIN_GAP
  BY <1>1, <1>2 DEF IInv, TypeOK, TagsApart
<1>. QED  BY <1>2, <1>3

\* The invariant holds before the first call.
LEMMA InitIInv == Init => IInv
<1>. SUFFICES ASSUME Init PROVE IInv
  OBVIOUS
<1>1. TypeOK
  BY StreamInitApart DEF Init, StreamInit, TypeOK, FrameStarts, NoFrame, SYM
<1>2. TagsApart
  BY StreamInitApart DEF Init
<1>3. Position
  BY DEF Init, StreamInit, Position
<1>4. Alignment
  <2>1. Whole(0)
    BY SymNat, WholeMultiple
  <2>. QED  BY <2>1 DEF Init, Alignment
<1>5. Estimates /\ RestingCor /\ WindowFromTag /\ TagsAligned /\ FrequencyOfFrame
  BY DEF Init, Estimates, RestingCor, WindowFromTag, TagsAligned, FrequencyOfFrame
<1>. QED  BY <1>1, <1>2, <1>3, <1>4, <1>5 DEF IInv

\* More samples or another tag behind everything read.
LEMMA FeedStep == ASSUME IInv, Feed PROVE IInv'
<1>1. StreamTypeOK' /\ TagsApart'
  BY StreamStepApart DEF IInv, TypeOK, Feed
<1>2. tags \subseteq tags' /\ sent <= sent' /\ (sent = 0 /\ sent' # 0 => 0 \in tags)
  BY DEF Feed, StreamNext, StartFrame, SendSample, IInv, TypeOK, StreamTypeOK, TagsApart
<1>3. TypeOK'
  BY <1>1 DEF Feed, IInv, TypeOK, longVars
<1>4. Position'
  <2>1. nread <= sent' /\ (sent = 0 => nread = 0)
    BY <1>1, <1>2 DEF IInv, TypeOK, StreamTypeOK, Position
  <2>. QED  BY <1>2, <2>1, <1>1 DEF Feed, IInv, TypeOK, StreamTypeOK, Position, longVars
<1>5. Alignment' /\ Estimates' /\ RestingCor' /\ TagsAligned' /\ FrequencyOfFrame'
  BY DEF Feed, IInv, Alignment, Estimates, RestingCor, TagsAligned, FrequencyOfFrame, longVars
<1>6. WindowFromTag'
  BY <1>2 DEF Feed, IInv, WindowFromTag, longVars
<1>. QED  BY <1>1, <1>3, <1>4, <1>5, <1>6 DEF IInv

\* How far a SYNC call goes, and what it has to do with the tag it began at.
LEMMA SyncWindow ==
    ASSUME IInv, d_state = "SYNC", Available >= SYM, NEW n, NInput(n), ~Throws,
           ReadTag
    PROVE  /\ SyncConsumes(n) \in Nat
           /\ nread + SyncConsumes(n) <= sent
           /\ nread - d_offset \in tags
           /\ d_freq_offset_short' = nread - d_offset
           /\ d_offset + SyncConsumes(n) <= SYNC_LENGTH
<1>. USE DEF IInv, TypeOK, StreamTypeOK
<1>1. sent > nread /\ sent > 0
  BY SymNat DEF Available
<1>2. n \in Nat /\ nread + n <= sent
  BY <1>1 DEF NInput, Available, Position
<1>3. /\ SyncConsumes(n) \in Nat
      /\ SyncConsumes(n) <= n
      /\ d_offset + SyncConsumes(n) <= SYNC_LENGTH
  BY <1>2, SymNat DEF SyncConsumes, Position
<1>4. CASE d_offset = 0
  <2>1. AtTag /\ nread - d_offset = nread
    BY <1>1, <1>4 DEF Position, AtTag
  <2>. QED  BY <2>1, <1>2, <1>3 DEF AtTag, ReadTag
<1>5. CASE d_offset # 0
  <2>1. ~AtTag
    BY <1>5 DEF Throws
  <2>2. nread - d_offset \in tags /\ d_freq_offset_short = nread - d_offset
    BY <1>5 DEF WindowFromTag
  <2>. QED  BY <2>1, <2>2, <1>2, <1>3 DEF ReadTag
<1>. QED  BY <1>4, <1>5

\* A SYNC call that ends before the SYNC_LENGTH-th correlation.
LEMMA SyncMoreStep == ASSUME IInv, NEW n, SyncMore(n) PROVE IInv'
<1>. DEFINE i == SyncConsumes(n)
<1>. USE DEF IInv
<1>1. /\ i \in Nat
      /\ nread + i <= sent
      /\ nread - d_offset \in tags
      /\ d_freq_offset_short' = nread - d_offset
  BY SyncWindow DEF SyncMore
<1>2. /\ nread' = nread + i
      /\ d_offset' = d_offset + i
      /\ d_offset' < SYNC_LENGTH
      /\ d_cor' = d_cor \cup Correlations(i)
      /\ d_state = "SYNC"
      /\ UNCHANGED <<sent, tags, written, d_state, d_frame_start, d_count,
                     d_freq_offset, out, outTags>>
  BY DEF SyncMore, streamVars
<1>3. nread \in Nat /\ d_offset \in Nat /\ sent \in Nat /\ tags \subseteq Nat
  BY DEF TypeOK, StreamTypeOK
<1>. HIDE DEF i
<1>4. nread' - d_offset' = nread - d_offset
  BY <1>1, <1>2, <1>3
<1>5. TypeOK'
  <2>1. Correlations(i) \subseteq [at : Nat, idx : Nat]
    BY <1>1, <1>3 DEF Correlations
  <2>2. nread' \in 0..STREAM /\ d_offset' \in Nat /\ d_freq_offset_short' \in Int
    BY <1>1, <1>2, <1>3 DEF TypeOK, StreamTypeOK
  <2>3. d_cor' \subseteq [at : Nat, idx : Nat]
    BY <1>2, <2>1 DEF TypeOK
  <2>. QED  BY <1>2, <2>2, <2>3 DEF TypeOK, StreamTypeOK
<1>6. Position'
  BY <1>1, <1>2, <1>3, <1>4 DEF Position
<1>7. WindowFromTag'
  <2>1. d_cor = {[at |-> nread - d_offset + k, idx |-> k] : k \in 0..(d_offset - 1)}
    BY <1>2 DEF WindowFromTag
  <2>2. d_cor \cup Correlations(i)
          = {[at |-> nread - d_offset + k, idx |-> k] : k \in 0..(d_offset + i - 1)}
    <3>. DEFINE C(a, b) == {[at |-> nread - d_offset + k, idx |-> k] : k \in a..b}
    <3>1. Correlations(i) = C(d_offset, d_offset + i - 1)
      <4>1. ASSUME NEW k \in 0..(i - 1)
            PROVE  [at |-> nread + k, idx |-> d_offset + k] \in C(d_offset, d_offset + i - 1)
        <5>1. d_offset + k \in d_offset..(d_offset + i - 1)
          BY <1>1, <1>3
        <5>2. nread - d_offset + (d_offset + k) = nread + k
          BY <1>3
        <5>. QED  BY <5>1, <5>2
      <4>2. ASSUME NEW k \in d_offset..(d_offset + i - 1)
            PROVE  [at |-> nread - d_offset + k, idx |-> k] \in Correlations(i)
        <5>1. k - d_offset \in 0..(i - 1)
          BY <1>1, <1>3
        <5>2. nread + (k - d_offset) = nread - d_offset + k /\ d_offset + (k - d_offset) = k
          BY <1>3
        <5>. QED  BY <5>1, <5>2 DEF Correlations
      <4>. QED  BY <4>1, <4>2 DEF Correlations
    <3>2. 0..(d_offset + i - 1)
            = (0..(d_offset - 1)) \cup (d_offset..(d_offset + i - 1))
      BY <1>1, <1>3
    <3>. QED  BY <2>1, <3>1, <3>2
  <2>3. d_cor' = {[at |-> nread' - d_offset' + k, idx |-> k] : k \in 0..(d_offset' - 1)}
    <3>. DEFINE T(b, m) == {[at |-> b + k, idx |-> k] : k \in 0..(m - 1)}
    <3>0. d_cor' = {[at |-> nread - d_offset + k, idx |-> k] : k \in 0..(d_offset + i - 1)}
      <4>1. d_cor' = d_cor \cup Correlations(i)
        BY <1>2
      <4>. QED BY <4>1, <2>2
    <3>1. d_cor' = T(nread - d_offset, d_offset + i)
      BY <1>1, <1>3, <3>0 DEF T
    <3>. HIDE DEF T
    <3>2. d_cor' = T(nread' - d_offset', d_offset')
      BY <1>2, <1>4, <3>1
    <3>. QED  BY <3>2 DEF T
  <2>. QED  BY <1>1, <1>2, <1>4, <2>3 DEF WindowFromTag
<1>8. Alignment' /\ Estimates' /\ RestingCor' /\ TagsAligned' /\ FrequencyOfFrame' /\ TagsApart'
  BY <1>2 DEF RestingCor, Alignment, Estimates, TagsAligned, FrequencyOfFrame, TagsApart
<1>. QED  BY <1>5, <1>6, <1>7, <1>8

\* The SYNC call that ends the search.
LEMMA SyncDoneStep == ASSUME IInv, NEW n, SyncDone(n) PROVE IInv'
<1>. DEFINE i == SyncConsumes(n)
<1>. USE DEF IInv
<1>1. /\ i \in Nat
      /\ nread + i <= sent
      /\ nread - d_offset \in tags
      /\ d_freq_offset_short' = nread - d_offset
  BY SyncWindow DEF SyncDone
<1>2. /\ nread' = nread + i
      /\ d_offset' = 0
      /\ d_count' = 0
      /\ d_frame_start' \in FrameStarts
      /\ d_freq_offset' = IF d_frame_start' = SYNC_LENGTH THEN d_freq_offset
                          ELSE nread - d_offset
      /\ d_cor' = {}
      /\ d_state = "SYNC" /\ d_state' = "COPY"
      /\ UNCHANGED <<sent, tags, written, out, outTags>>
  BY DEF SyncDone, streamVars, search_frame_start
<1>. HIDE DEF i
<1>3. TypeOK'
  BY <1>1, <1>2 DEF TypeOK, StreamTypeOK
<1>4. Position' /\ RestingCor' /\ WindowFromTag' /\ TagsAligned' /\ FrequencyOfFrame' /\ TagsApart'
  BY <1>1, <1>2 DEF RestingCor, Position, WindowFromTag, TagsAligned, FrequencyOfFrame, TagsApart
<1>5. Alignment'
  <2>1. written \in Nat /\ written' - d_count' = written
    BY <1>2 DEF TypeOK
  <2>. QED  BY <1>2, <2>1 DEF Alignment
<1>6. Estimates'
  BY <1>1, <1>2 DEF Estimates
<1>. QED  BY <1>3, <1>4, <1>5, <1>6

\* A COPY call: what it writes is counted, and it tags where counting began.
LEMMA CopyStep == ASSUME IInv, NEW n, NEW noutput, Copy(n, noutput) PROVE IInv'
<1>. USE DEF IInv
<1>1. PICK i \in 0..n :
        /\ nread' = nread + i
        /\ d_offset' = d_offset + i
        /\ out' = out \cup
             {[at |-> written + Cardinality(KeptIn(off - d_offset)),
               src |-> nread + (off - d_offset) - DELAY] : off \in KeptIn(i)}
        /\ outTags' = outTags \cup
             {[at |-> written, start |-> off,
               short |-> d_freq_offset_short, long |-> d_freq_offset] :
                 off \in {d_frame_start} \cap (d_offset..(d_offset + i - 1))}
        /\ written' = written + Cardinality(KeptIn(i))
        /\ d_count' = d_count + Cardinality(KeptIn(i))
  BY DEF Copy
<1>2. /\ d_state = "COPY"
      /\ UNCHANGED <<sent, tags, d_state, d_frame_start, d_cor, d_freq_offset,
                     d_freq_offset_short>>
  BY DEF Copy, streamVars
<1>3. /\ i \in Nat /\ nread + i <= sent
      /\ nread \in Nat /\ sent \in 0..STREAM /\ tags \subseteq 0..STREAM
      /\ d_offset \in Nat /\ d_count \in Nat /\ written \in Nat
      /\ d_frame_start \in Nat
      /\ d_freq_offset \in Int /\ d_freq_offset_short \in Int
  <2>1. n \in Nat /\ nread + n <= sent
    BY DEF Copy, NInput, Available, Position, TypeOK, StreamTypeOK
  <2>2. d_frame_start \in Nat
    BY DEF TypeOK, FrameStarts, SYM
  <2>. QED  BY <2>1, <2>2 DEF TypeOK, StreamTypeOK
<1>4. Cardinality(KeptIn(i)) \in Nat
  BY <1>3, KeptCount
<1>5. TypeOK'
  <2>1. ASSUME NEW off \in KeptIn(i)
        PROVE  [at |-> written + Cardinality(KeptIn(off - d_offset)),
                src |-> nread + (off - d_offset) - DELAY] \in [at : Nat, src : Int]
    <3>1. off \in Int
      BY <1>3 DEF KeptIn
    <3>2. Cardinality(KeptIn(off - d_offset)) \in Nat
      BY <1>3, <3>1, KeptCount
    <3>. QED  BY <1>3, <3>1, <3>2
  <2>2. out' \subseteq [at : Nat, src : Int]
    BY <1>1, <2>1 DEF TypeOK
  <2>3. outTags' \subseteq [at : Nat, start : Nat, short : Int, long : Int]
    BY <1>1, <1>3 DEF TypeOK
  <2>4. nread' \in 0..STREAM /\ d_offset' \in Nat /\ written' \in Nat /\ d_count' \in Nat
    BY <1>1, <1>3, <1>4
  <2>. QED  BY <1>2, <2>2, <2>3, <2>4 DEF TypeOK, StreamTypeOK
<1>6. Position' /\ Estimates' /\ RestingCor' /\ WindowFromTag' /\ TagsApart'
  BY <1>1, <1>2, <1>3 DEF Position, RestingCor, Estimates, WindowFromTag, TagsApart
<1>7. Alignment'
  <2>1. written' - d_count' = written - d_count /\ d_count' <= written'
    BY <1>1, <1>3, <1>4 DEF Alignment
  <2>2. ASSUME d_offset' <= d_frame_start
        PROVE  d_count' = 0
    <3>1. KeptIn(i) = {}
      BY <1>1, <1>3, <2>2 DEF KeptIn, Kept
    <3>2. d_count = 0
      BY <1>1, <1>2, <1>3, <2>2 DEF Alignment
    <3>3. Cardinality(KeptIn(i)) = 0
      BY <3>1, FS_EmptySet
    <3>. QED  BY <1>1, <3>2, <3>3
  <2>. QED  BY <1>2, <2>1, <2>2 DEF Alignment
<1>8. TagsAligned'
  \* A tag is written by the call that reaches the frame's start; until then
  \* nothing was written since a whole symbol.
  <2>1. ASSUME d_frame_start \in d_offset..(d_offset + i - 1)
        PROVE  Whole(written)
    <3>1. d_count = 0
      BY <1>2, <1>3, <2>1 DEF Alignment
    <3>2. written - d_count = written
      BY <1>3, <3>1
    <3>. QED  BY <3>2 DEF Alignment
  <2>. QED  BY <1>1, <2>1 DEF TagsAligned, Whole
<1>9. FrequencyOfFrame'
  BY <1>1, <1>2 DEF FrequencyOfFrame, Estimates
<1>. QED  BY <1>5, <1>6, <1>7, <1>8, <1>9

\* A RESET call: padding stays within the symbol it fills up.
LEMMA ResetStep == ASSUME IInv, NEW noutput \in 1..MAX_OUTPUT, Reset(noutput) PROVE IInv'
<1>. USE DEF IInv
<1>. DEFINE done == Padding < noutput
            o == IF done THEN Padding ELSE noutput
<1>1. /\ d_state' = IF done THEN "SYNC" ELSE "RESET"
      /\ d_offset' = IF done THEN 0 ELSE d_offset
      /\ written' = written + o
      /\ d_count' = d_count + o
      /\ d_freq_offset_short' = IF AtTag THEN nread ELSE d_freq_offset_short
      /\ UNCHANGED <<sent, tags, nread, d_frame_start, d_cor, d_freq_offset, out,
                     outTags>>
  BY DEF Reset, ReadTag, streamVars
<1>2. nread \in tags /\ d_cor \subseteq {}
  BY DEF Reset, AtTag, Position, RestingCor
<1>3. /\ written \in Nat /\ d_count \in Nat /\ nread \in Nat /\ d_offset \in Nat
      /\ d_count <= written /\ Whole(written - d_count)
  BY DEF TypeOK, Alignment
<1>4. Padding \in Nat /\ Whole(written + Padding)
  <2>1. written - d_count \in Nat
    BY <1>3
  <2>2. Padding \in Nat /\ Whole(written - d_count + d_count + Padding)
    BY <1>3, <2>1, PaddingFills
  <2>3. written - d_count + d_count + Padding = written + Padding
    BY <1>3, <2>2
  <2>. QED  BY <2>2, <2>3
<1>5. o \in Nat
  BY <1>4
<1>6. TypeOK'
  BY <1>1, <1>3, <1>5 DEF TypeOK, StreamTypeOK
<1>7. Position' /\ Estimates' /\ WindowFromTag'
  BY <1>1, <1>2, <1>3 DEF Position, Estimates, WindowFromTag
<1>8. Alignment'
  <2>1. written' - d_count' = written - d_count /\ d_count' <= written'
    BY <1>1, <1>3, <1>5
  <2>2. done => written' = written + Padding
    BY <1>1
  <2>. QED  BY <1>1, <1>3, <1>4, <2>1, <2>2 DEF Alignment
<1>9. TagsAligned' /\ FrequencyOfFrame' /\ TagsApart' /\ RestingCor'
  BY <1>1, <1>2 DEF TagsAligned, FrequencyOfFrame, TagsApart, RestingCor
<1>. QED  BY <1>6, <1>7, <1>8, <1>9

-----------------------------------------------------------------------------

\* The invariant is inductive: the environment's step and one case per action.
LEMMA NextIInv == IInv /\ [Next]_vars => IInv'
<1>. SUFFICES ASSUME IInv, [Next]_vars PROVE IInv'
  OBVIOUS
<1>1. CASE Feed
  BY <1>1, FeedStep
<1>2. CASE Work
  BY <1>2, SyncMoreStep, SyncDoneStep, CopyStep, ResetStep DEF Work
<1>3. CASE UNCHANGED vars
  BY <1>3 DEF vars, streamVars, longVars, IInv, TypeOK, StreamTypeOK, TagsApart,
     Position, Alignment, Estimates, RestingCor, WindowFromTag, TagsAligned, FrequencyOfFrame
<1>. QED  BY <1>1, <1>2, <1>3 DEF Next

(* The invariant from which the theorems below follow.                     *)
THEOREM Invariance == Spec => []IInv
BY InitIInv, NextIInv, PTL DEF Spec

(* Every variable of sync_long stays in its range: among others, offsets   *)
(* read never exceed offsets written and d_frame_start is a possible       *)
(* result of the search.                                                   *)
THEOREM TypeCorrect == Spec => []TypeOK
<1>1. IInv => TypeOK
  BY DEF IInv
<1>. QED  BY Invariance, <1>1, PTL

(* general_work never throws "wtf", whatever the calls, if MIN_GAP is at   *)
(* least twice the search length.                                          *)
THEOREM NeverThrows == Spec => []NoThrow
BY Invariance, NoThrowFromIInv, PTL

(* Every frame announced downstream begins on a whole OFDM symbol.         *)
THEOREM FramesAligned == Spec => []TagsAligned
<1>1. IInv => TagsAligned
  BY DEF IInv
<1>. QED  BY Invariance, <1>1, PTL

(* The peak search always works on the SYNC_LENGTH samples that follow the *)
(* tag of its own frame.                                                   *)
THEOREM SearchesOwnFrame == Spec => []WindowFromTag
<1>1. IInv => WindowFromTag
  BY DEF IInv
<1>. QED  BY Invariance, <1>1, PTL

(* The frequency offset published with a frame combines two estimates of   *)
(* that frame.                                                             *)
THEOREM OwnFrequency == Spec => []FrequencyOfFrame
<1>1. IInv => FrequencyOfFrame
  BY DEF IInv
<1>. QED  BY Invariance, <1>1, PTL

=============================================================================
