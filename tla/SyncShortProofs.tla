-------------------------- MODULE SyncShortProofs --------------------------
(***************************************************************************)
(* Proofs about sync_short for every plateau, gap, frame length and        *)
(* stream: it implements FrameStream, and its detector neither invents nor *)
(* misses a plateau.                                                       *)
(***************************************************************************)
EXTENDS SyncShort, TLAPS

USE GapAssumption, PlateauAssumption

\* Outside a frame the last one had its MAX_SAMPLES.
FrameBounds ==
    /\ d_state = "COPY" => tags # {} /\ d_copied < MAX_SAMPLES
    /\ d_state = "SEARCH" => tags = {} \/ d_copied = MAX_SAMPLES

\* The detector's memory against the samples themselves: a shorter plateau is
\* either all there is or all there was since the frame's tag.
PlateauBounds ==
    /\ d_plateau <= run
    /\ d_plateau < MIN_PLATEAU =>
         \/ run = d_plateau
         \/ d_state = "COPY" /\ d_plateau = d_copied

IInv ==
    /\ TypeOK
    /\ CopiedSinceTag
    /\ FrameBounds
    /\ PlateauBounds

\* The invariant holds before the first sample.
LEMMA InitIInv == Init => IInv
BY DEF Init, StreamInit, IInv, TypeOK, StreamTypeOK, CopiedSinceTag, FrameBounds,
   PlateauBounds, RUN_CAP

\* A sample that goes nowhere moves only the detector's memory.
LEMMA SearchSampleStep == ASSUME IInv, SearchSample PROVE IInv'
<1>. USE DEF IInv, SearchSample, streamVars
<1>1. TypeOK' /\ PlateauBounds'
  BY DEF TypeOK, StreamTypeOK, PlateauBounds, CountPlateau, Consume, RUN_CAP, Detects
<1>2. CopiedSinceTag' /\ FrameBounds'
  BY DEF CopiedSinceTag, FrameBounds
<1>. QED  BY <1>1, <1>2

\* A tag on the next sample, copying from 0: what both detections do.
LEMMA DetectStep ==
    ASSUME IInv, d_state' = "COPY", d_copied' = 0, d_plateau' = 0, insert_tag,
           UNCHANGED <<sent, inputVars>>
    PROVE  IInv'
<1>. USE DEF IInv, insert_tag, inputVars
<1>1. TypeOK'
  BY DEF TypeOK, StreamTypeOK
<1>2. CopiedSinceTag'
  <2>1. \A s \in tags : s <= sent
    BY DEF CopiedSinceTag, TypeOK, StreamTypeOK
  <2>. QED  BY <2>1 DEF CopiedSinceTag, TypeOK, StreamTypeOK
<1>3. FrameBounds' /\ PlateauBounds'
  BY DEF FrameBounds, PlateauBounds, TypeOK
<1>. QED  BY <1>1, <1>2, <1>3

\* A copied sample moves the detector's memory and d_copied, and may end the frame.
LEMMA CopySampleStep == ASSUME IInv, CopySample PROVE IInv'
<1>. USE DEF IInv, CopySample
<1>1. TypeOK'
  BY DEF TypeOK, StreamTypeOK, FrameBounds, CountPlateau, Consume, RUN_CAP
<1>2. CopiedSinceTag'
  BY DEF CopiedSinceTag, TypeOK, StreamTypeOK
<1>3. FrameBounds'
  BY DEF FrameBounds, TypeOK
<1>4. PlateauBounds'
  BY <1>1 DEF PlateauBounds, TypeOK, CountPlateau, Consume, RUN_CAP
<1>. QED  BY <1>1, <1>2, <1>3, <1>4

\* The invariant is inductive: one case per action.
LEMMA NextIInv == IInv /\ [Next]_vars => IInv'
<1>. SUFFICES ASSUME IInv, [Next]_vars PROVE IInv'
  OBVIOUS
<1>1. CASE SearchSample
  BY <1>1, SearchSampleStep
<1>2. CASE SearchDetect
  BY <1>2, DetectStep DEF SearchDetect
<1>3. CASE CopySample
  BY <1>3, CopySampleStep
<1>4. CASE CopyDetect
  BY <1>4, DetectStep DEF CopyDetect
<1>5. CASE UNCHANGED vars
  BY <1>5 DEF vars, streamVars, shortVars, inputVars, IInv, TypeOK, StreamTypeOK,
     CopiedSinceTag, FrameBounds, PlateauBounds
<1>. QED  BY <1>1, <1>2, <1>3, <1>4, <1>5 DEF Next

(* sync_short counts samples from the last tag and plateaus from the        *)
(* samples themselves, in both of its states: the invariant from which the *)
(* theorems below follow.                                                  *)
THEOREM Invariance == Spec => []IInv
BY InitIInv, NextIInv, PTL DEF Spec

-----------------------------------------------------------------------------

\* Both detections begin a frame the stream allows.
LEMMA DetectStarts ==
    ASSUME IInv, insert_tag, sent' = sent,
           d_state = "COPY" => d_copied > MIN_GAP
    PROVE  StartFrame
<1>. SUFFICES ASSUME NEW t \in tags PROVE sent - t > MIN_GAP
  BY DEF StartFrame, insert_tag
<1>1. d_copied > MIN_GAP
  BY DEF IInv, TypeOK, FrameBounds
<1>2. sent - t >= d_copied
  BY DEF IInv, CopiedSinceTag, TypeOK, StreamTypeOK
<1>. QED  BY <1>1, <1>2 DEF IInv, TypeOK, StreamTypeOK

\* Every step of general_work is a step of the stream or leaves it alone.
LEMMA StepImplements == IInv /\ [Next]_vars => [StreamNext]_streamVars
<1>. SUFFICES ASSUME IInv, [Next]_vars PROVE [StreamNext]_streamVars
  OBVIOUS
<1>1. CASE SearchSample
  BY <1>1 DEF SearchSample
<1>2. CASE SearchDetect
  BY <1>2, DetectStarts DEF SearchDetect, Detects, StreamNext
<1>3. CASE CopySample
  <2>1. \E t \in tags : sent - t < MAX_SAMPLES
    BY <1>3 DEF IInv, FrameBounds, CopiedSinceTag, CopySample
  <2>. QED  BY <1>3, <2>1 DEF CopySample, SendSample, StreamNext
<1>4. CASE CopyDetect
  BY <1>4, DetectStarts DEF CopyDetect, Detects, StreamNext
<1>5. CASE UNCHANGED vars
  BY <1>5 DEF vars
<1>. QED  BY <1>1, <1>2, <1>3, <1>4, <1>5 DEF Next

(* sync_short implements the stream that sync_long is proved against, for  *)
(* every plateau, gap and frame length: tags more than MIN_GAP apart, no   *)
(* sample before the first tag, at most MAX_SAMPLES per frame.             *)
THEOREM Implementation == Spec => ImplementsFrameStream
<1>1. Init => StreamInit
  BY DEF Init
<1>. QED  BY <1>1, Invariance, StepImplements, PTL
          DEF Spec, ImplementsFrameStream, StreamSpec

(* Counters and offsets stay in range, for every threshold, spacing and    *)
(* frame length: d_copied never passes MAX_SAMPLES, nor d_plateau          *)
(* MIN_PLATEAU (sync_short.cc, general_work).                              *)
THEOREM TypeCorrect == Spec => []TypeOK
<1>1. IInv => TypeOK
  BY DEF IInv
<1>. QED  BY Invariance, <1>1, PTL

(* d_copied is always the distance to the last tag.                        *)
THEOREM CopiedCounts == Spec => []CopiedSinceTag
<1>1. IInv => CopiedSinceTag
  BY DEF IInv
<1>. QED  BY Invariance, <1>1, PTL

(* A frame is announced only on a full plateau.                            *)
THEOREM NoFalseStart == Spec => TagOnlyOnPlateau
<1>1. IInv /\ [Next]_vars => [tags' # tags => head /\ run >= MIN_PLATEAU]_vars
  BY DEF IInv, TypeOK, PlateauBounds, Next, SearchSample, SearchDetect, CopySample,
     CopyDetect, Detects, streamVars, vars
<1>. QED  BY <1>1, Invariance, PTL DEF Spec, TagOnlyOnPlateau

(* Outside a frame no full plateau is passed over.                         *)
THEOREM NoMissedStart == Spec => NoPlateauDropped
<1>1. IInv /\ [Next]_vars
        => [sent' = sent /\ tags' = tags /\ head => run < MIN_PLATEAU]_vars
  <2>. SUFFICES ASSUME IInv, Next, sent' = sent, tags' = tags, head
                PROVE  run < MIN_PLATEAU
    OBVIOUS
  <2>1. CASE SearchSample
    BY <2>1 DEF SearchSample, Detects, IInv, TypeOK, PlateauBounds
  <2>2. CASE CopySample
    BY <2>2 DEF CopySample, IInv, TypeOK, StreamTypeOK
  <2>3. CASE SearchDetect \/ CopyDetect
    <3>1. \A t \in tags : sent > t
      BY <2>3, DetectStarts DEF SearchDetect, CopyDetect, Detects, StartFrame,
         IInv, TypeOK, StreamTypeOK
    <3>. QED  BY <2>3, <3>1 DEF SearchDetect, CopyDetect, insert_tag, IInv, TypeOK,
              StreamTypeOK
  <2>. QED  BY <2>1, <2>2, <2>3 DEF Next
<1>. QED  BY <1>1, Invariance, PTL DEF Spec, NoPlateauDropped

=============================================================================
