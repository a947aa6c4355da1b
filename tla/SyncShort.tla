----------------------------- MODULE SyncShort -----------------------------
(***************************************************************************)
(* sync_short: frame detection on the autocorrelation of the short         *)
(* training field (src/lib/sync_short.cc).                                 *)
(*                                                                         *)
(* The input is the sequence of samples, of which only one bit matters:    *)
(* whether in_cor is above d_threshold.  general_work is a loop over       *)
(* samples with no lookahead, whose only carry between iterations is the   *)
(* block's own state, so a call is the sequence of its iterations and the  *)
(* actions below are one iteration each; wherever the scheduler cuts the   *)
(* stream into calls, the iterations are these.  A sample is looked at     *)
(* (head) before it is consumed: a detection ends the call without         *)
(* consuming the sample it was made on.                                    *)
(***************************************************************************)
EXTENDS FrameStream

CONSTANT MIN_PLATEAU  \* constructor argument; 2 in halow_phy_hier

ASSUME PlateauAssumption ==
    /\ MIN_PLATEAU \in Nat
    /\ MIN_PLATEAU < MAX_SAMPLES

VARIABLES
    d_state,    \* "SEARCH" or "COPY"
    d_plateau,  \* consecutive samples above the threshold, up to MIN_PLATEAU
    d_copied,   \* samples copied since the last tag
    head,       \* is the next sample above d_threshold?
    run         \* history: samples above the threshold just consumed, in a row

shortVars == <<d_state, d_plateau, d_copied>>
inputVars == <<head, run>>
vars == <<streamVars, shortVars, inputVars>>

\* History only: run is not a variable of the code; it stops counting at the
\* length a detection needs.
RUN_CAP == MIN_PLATEAU + 1

TypeOK ==
    /\ StreamTypeOK
    /\ d_state \in {"SEARCH", "COPY"}
    /\ d_plateau \in 0..MIN_PLATEAU
    /\ d_copied \in 0..MAX_SAMPLES
    /\ head \in BOOLEAN
    /\ run \in 0..RUN_CAP

Init ==
    /\ StreamInit
    /\ d_state = "SEARCH"
    /\ d_plateau = 0
    /\ d_copied = 0
    /\ head \in BOOLEAN
    /\ run = 0

\* consume_each: the sample leaves the buffer, any sample may be the next.
Consume ==
    /\ head' \in BOOLEAN
    /\ run' = IF ~head THEN 0 ELSE IF run < RUN_CAP THEN run + 1 ELSE run

\* Mutant: a sample below the threshold does not end the plateau.
CountPlateau_NoReset ==
    d_plateau' = IF d_plateau < MIN_PLATEAU THEN d_plateau + 1 ELSE d_plateau

\* d_plateau over a sample that does not start a frame.
CountPlateau ==
    d_plateau' = IF ~head THEN 0
                 ELSE IF d_plateau < MIN_PLATEAU THEN d_plateau + 1 ELSE d_plateau

\* Mutant: a frame is accepted one sample too early.
Detects_AtGap ==
    /\ head
    /\ d_plateau = MIN_PLATEAU
    /\ d_state = "COPY" => d_copied >= MIN_GAP

\* Both states detect a frame on a plateau of MIN_PLATEAU samples and this one;
\* within a frame only once MIN_GAP samples have been copied.
Detects ==
    /\ head
    /\ d_plateau = MIN_PLATEAU
    /\ d_state = "COPY" => d_copied > MIN_GAP

\* insert_tag(nitems_written(0) + o, ...)
insert_tag == tags' = tags \cup {sent}

-----------------------------------------------------------------------------

\* SEARCH, no frame: the sample is consumed and goes nowhere.
SearchSample ==
    /\ d_state = "SEARCH"
    /\ ~Detects
    /\ CountPlateau
    /\ Consume
    /\ UNCHANGED <<streamVars, d_state, d_copied>>

\* Mutant: d_copied keeps the length of the previous frame.
SearchDetect_KeepsCopied ==
    /\ d_state = "SEARCH"
    /\ Detects
    /\ d_state' = "COPY"
    /\ d_plateau' = 0
    /\ insert_tag
    /\ UNCHANGED <<sent, d_copied, inputVars>>

\* SEARCH, a frame: copying will begin with this very sample.
SearchDetect ==
    /\ d_state = "SEARCH"
    /\ Detects
    /\ d_state' = "COPY"
    /\ d_copied' = 0
    /\ d_plateau' = 0
    /\ insert_tag
    /\ UNCHANGED <<sent, inputVars>>

\* Mutant: the frame ends one sample after MAX_SAMPLES.
CopySample_OneMore ==
    /\ d_state = "COPY"
    /\ ~Detects
    /\ sent < STREAM
    /\ CountPlateau
    /\ sent' = sent + 1
    /\ d_copied' = d_copied + 1
    /\ d_state' = IF d_copied = MAX_SAMPLES THEN "SEARCH" ELSE "COPY"
    /\ Consume
    /\ UNCHANGED tags

\* Mutant: the plateau is forgotten when a frame reaches MAX_SAMPLES.
CopySample_ForgetsPlateau ==
    /\ d_state = "COPY"
    /\ ~Detects
    /\ sent < STREAM
    /\ IF d_copied + 1 = MAX_SAMPLES THEN d_plateau' = 0 ELSE CountPlateau
    /\ sent' = sent + 1
    /\ d_copied' = d_copied + 1
    /\ d_state' = IF d_copied + 1 = MAX_SAMPLES THEN "SEARCH" ELSE "COPY"
    /\ Consume
    /\ UNCHANGED tags

\* COPY, a sample of the current frame; the one that makes MAX_SAMPLES ends it.
CopySample ==
    /\ d_state = "COPY"
    /\ ~Detects
    /\ sent < STREAM
    /\ CountPlateau
    /\ sent' = sent + 1
    /\ d_copied' = d_copied + 1
    /\ d_state' = IF d_copied + 1 = MAX_SAMPLES THEN "SEARCH" ELSE "COPY"
    /\ Consume
    /\ UNCHANGED tags

\* COPY, "there's another frame".
CopyDetect ==
    /\ d_state = "COPY"
    /\ Detects
    /\ d_copied' = 0
    /\ d_plateau' = 0
    /\ insert_tag
    /\ UNCHANGED <<sent, d_state, inputVars>>

Next == SearchSample \/ SearchDetect \/ CopySample \/ CopyDetect

Spec == Init /\ [][Next]_vars

-----------------------------------------------------------------------------

(* What sync_short writes is a FrameStream: the first sample out is        *)
(* tagged, tags are more than MIN_GAP apart, a frame never exceeds         *)
(* MAX_SAMPLES, although d_copied restarts in two places and d_plateau in  *)
(* four.                                                                   *)
ImplementsFrameStream == StreamSpec

(* No frame is announced unless MIN_PLATEAU consumed samples in a row and  *)
(* the present one are above the threshold, also when the plateau spans    *)
(* the end of the previous frame.                                          *)
TagOnlyOnPlateau ==
    [][tags' # tags => head /\ run >= MIN_PLATEAU]_vars

(* No frame start is missed: outside a frame, a sample that completes a    *)
(* plateau of MIN_PLATEAU + 1 is never consumed without being output, not  *)
(* even when the plateau began as the tail of a MAX_SAMPLES frame.         *)
NoPlateauDropped ==
    [][sent' = sent /\ tags' = tags /\ head => run < MIN_PLATEAU]_vars

(* Whatever is copied counts from the last tag: d_copied, which selects    *)
(* the phase of the frequency correction and ends the frame, is the number *)
(* of samples sent since that tag.                                         *)
CopiedSinceTag ==
    tags # {} => \E t \in tags : /\ sent - t = d_copied
                                 /\ \A s \in tags : s <= t

=============================================================================
