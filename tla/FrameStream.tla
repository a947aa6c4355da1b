---------------------------- MODULE FrameStream ----------------------------
(***************************************************************************)
(* The stream sync_short promises to sync_long: complex samples of which   *)
(* some carry a "halow_start" tag.  Every sample belongs to the frame of   *)
(* the last tag before it; a frame has more than MIN_GAP and at most       *)
(* MAX_SAMPLES samples.  SyncShort implements this specification;          *)
(* SyncLong takes it as its environment.                                   *)
(***************************************************************************)
EXTENDS Integers

CONSTANTS
    MIN_GAP,      \* sync_short.cc: 16 * (32 + 8) = 640
    MAX_SAMPLES,  \* sync_short.cc: (511*8/6 + 14) * (32 + 8) = 27800
    STREAM        \* bound of the model: how many samples are ever sent

ASSUME GapAssumption ==
    /\ MIN_GAP \in Nat
    /\ MAX_SAMPLES \in Nat
    /\ STREAM \in Nat
    /\ MIN_GAP < MAX_SAMPLES

VARIABLES
    sent,  \* number of samples written to the stream
    tags   \* offsets of the tagged samples; the last may not be written yet

streamVars == <<sent, tags>>

StreamTypeOK ==
    /\ sent \in 0..STREAM
    /\ tags \subseteq 0..STREAM

StreamInit ==
    /\ sent = 0
    /\ tags = {}

\* A new frame begins with the next sample.
StartFrame ==
    /\ \A t \in tags : sent - t > MIN_GAP
    /\ tags' = tags \cup {sent}
    /\ UNCHANGED sent

\* One more sample of the current frame.
SendSample ==
    /\ sent < STREAM
    /\ \E t \in tags : sent - t < MAX_SAMPLES
    /\ sent' = sent + 1
    /\ UNCHANGED tags

StreamNext == StartFrame \/ SendSample

StreamSpec == StreamInit /\ [][StreamNext]_streamVars

-----------------------------------------------------------------------------

(* Two frames never begin within MIN_GAP samples of each other, and no     *)
(* sample comes before the first tag: what sync_long's d_state machine     *)
(* needs of insert_tag (sync_short.cc, both calls).                        *)
TagsApart ==
    /\ \A s, t \in tags : s < t => t - s > MIN_GAP
    /\ sent > 0 => 0 \in tags
    /\ \A t \in tags : t <= sent

=============================================================================
