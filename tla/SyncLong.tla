----------------------------- MODULE SyncLong ------------------------------
(***************************************************************************)
(* sync_long: symbol alignment on the long training field                  *)
(* (src/lib/sync_long.cc).  Its input is a FrameStream; its output is the  *)
(* frames' symbols without their guard intervals, each frame tagged again  *)
(* with "halow_start" and padded to whole OFDM symbols.                    *)
(*                                                                         *)
(* One action is one call of general_work.  A call is given all samples    *)
(* that have arrived (at most MAX_INPUT) and any room for output the       *)
(* scheduler has, within what forecast asks for.  Sample values are        *)
(* abstracted to their offset in the stream, frequency estimates to the    *)
(* frame they come from, and the search for correlation peaks to the frame *)
(* starts it can return.                                                   *)
(***************************************************************************)
EXTENDS FrameStream, FiniteSets

CONSTANTS
    SAMPLES_PER_OFDM_SYMBOL,  \* utils.h: 32
    SAMPLES_PER_GI,           \* utils.h: 8
    SYNC_LENGTH,              \* constructor argument; 238 in halow_phy_hier
    DELAY,                    \* lag of in_delayed behind in; 238 in halow_phy_hier
    MAX_INPUT,                \* 8192, the size of d_correlation
    MAX_OUTPUT                \* bound of the model: output samples per call

SYM == SAMPLES_PER_OFDM_SYMBOL
GI == SAMPLES_PER_GI

ASSUME LengthAssumption ==
    /\ SAMPLES_PER_OFDM_SYMBOL \in Nat \ {0}
    /\ SAMPLES_PER_GI \in Nat
    /\ SYNC_LENGTH \in Nat
    /\ SYNC_LENGTH >= SAMPLES_PER_OFDM_SYMBOL
    /\ DELAY \in Nat
    /\ MAX_INPUT \in Nat
    /\ MAX_INPUT >= SAMPLES_PER_OFDM_SYMBOL
    /\ MAX_OUTPUT \in Nat \ {0}

(* The two blocks' constants are chosen independently; sync_long relies on *)
(* this: 640 >= 2 * 238.                                                   *)
ASSUME SpacingAssumption == MIN_GAP >= 2 * SYNC_LENGTH

(* The flowgraph delays in_delayed by the search length (halow_phy_hier.grc *)
(* gives both blocks sync_length - min_plateau).                           *)
ASSUME DelayAssumption == DELAY = SYNC_LENGTH

VARIABLES
    nread,                \* nitems_read(0)
    written,              \* nitems_written(0)
    d_state,              \* "SYNC", "COPY" or "RESET"
    d_offset,
    d_frame_start,
    d_count,              \* samples written since the frame was synchronised
    d_cor,                \* correlations collected: stream offset and d_offset
    d_freq_offset,        \* the frame whose training field it was computed on
    d_freq_offset_short,  \* the frame whose tag it was read from
    out,                  \* history: which sample is at which output offset
    outTags               \* the "halow_start" tags of the output

longVars == <<nread, written, d_state, d_offset, d_frame_start, d_count, d_cor,
              d_freq_offset, d_freq_offset_short, out, outTags>>
vars == <<streamVars, longVars>>

\* d_freq_offset and d_freq_offset_short before the first frame.
NoFrame == -1

\* What search_frame_start can return: the earlier of two peaks about a symbol
\* apart, both of them among the SYNC_LENGTH offsets, or SYNC_LENGTH.
FrameStarts == (0..(SYNC_LENGTH - (SYM - 1) - 1)) \cup {SYNC_LENGTH}

Init ==
    /\ StreamInit
    /\ nread = 0
    /\ written = 0
    /\ d_state = "SYNC"
    /\ d_offset = 0
    /\ d_frame_start = 0  \* not initialised by the code, set before it is read
    /\ d_count = 0        \* likewise
    /\ d_cor = {}
    /\ d_freq_offset = NoFrame
    /\ d_freq_offset_short = NoFrame
    /\ out = {}
    /\ outTags = {}

-----------------------------------------------------------------------------

\* The items of a call, before tags are looked up.
Available == IF sent - nread < MAX_INPUT THEN sent - nread ELSE MAX_INPUT

AtTag == nread \in tags

\* Mutant: the lookup does not shorten the call.
NInput_Blind(n) == n = Available

\* Mutant: a call that begins at a tag stops there as well.
NInput_StopsAtTag(n) ==
    /\ n \in 0..Available
    /\ \A t \in tags : ~(nread <= t /\ t < nread + n)
    /\ n = Available \/ nread + n \in tags

\* ninput after the lookup: a call stops before the next tag, but one that
\* begins at a tag takes everything.
NInput(n) ==
    /\ n \in 0..Available
    /\ \/ AtTag /\ n = Available
       \/ /\ ~AtTag
          /\ \A t \in tags : ~(nread <= t /\ t < nread + n)
          /\ n = Available \/ nread + n \in tags

\* d_freq_offset_short after the lookup.
ReadTag == d_freq_offset_short' = IF AtTag THEN nread ELSE d_freq_offset_short

\* Samples a SYNC call takes out of n: SYM - 1 are kept back for the filter.
SyncConsumes(n) ==
    LET can == IF n > SYM - 1 THEN n - (SYM - 1) ELSE 0
        rest == SYNC_LENGTH - d_offset
    IN  IF can < rest THEN can ELSE rest

\* The correlations pushed for the next i samples.
Correlations(i) == {[at |-> nread + k, idx |-> d_offset + k] : k \in 0..(i - 1)}

\* Mutant: the guard interval is taken to be one sample longer.
Kept_ShortSymbol(off) ==
    LET rel == off - d_frame_start
    IN  /\ rel >= 0
        /\ \/ rel < 2 * SYM
           \/ ((rel - 2 * SYM) % (SYM + GI)) > GI

\* Is the sample at offset off of the frame sent downstream?
Kept(off) ==
    LET rel == off - d_frame_start
    IN  /\ rel >= 0
        /\ \/ rel < 2 * SYM
           \/ ((rel - 2 * SYM) % (SYM + GI)) > GI - 1

\* Offsets sent downstream among the next k samples.
KeptIn(k) == {off \in d_offset..(d_offset + k - 1) : Kept(off)}

\* Zeros missing to a whole symbol.
Padding == (SYM - (d_count % SYM)) % SYM

\* The next call throws std::runtime_error("wtf"): the block never runs again.
Throws == d_state = "SYNC" /\ Available >= SYM /\ AtTag /\ d_offset # 0

\* Mutant: the later of the two peaks is taken.
search_frame_start_Later ==
    /\ d_frame_start' \in ((SYM - 1)..(SYNC_LENGTH - 1)) \cup {SYNC_LENGTH}
    /\ d_freq_offset' = IF d_frame_start' = SYNC_LENGTH THEN d_freq_offset
                        ELSE nread - d_offset
    /\ d_cor' = {}

\* Mutant: the list is not cleared.
search_frame_start_KeepsCor ==
    /\ d_frame_start' \in FrameStarts
    /\ d_freq_offset' = IF d_frame_start' = SYNC_LENGTH THEN d_freq_offset
                        ELSE nread - d_offset
    /\ UNCHANGED d_cor

\* Mutant: peaks 31 or 33 samples apart move the frame, not the estimate.
search_frame_start_Stale ==
    /\ d_frame_start' \in FrameStarts
    /\ d_freq_offset' \in {d_freq_offset} \cup
          IF d_frame_start' = SYNC_LENGTH THEN {} ELSE {nread - d_offset}
    /\ d_cor' = {}

\* No pair of peaks: d_freq_offset keeps the previous frame's estimate.
search_frame_start ==
    /\ d_frame_start' \in FrameStarts
    /\ d_freq_offset' = IF d_frame_start' = SYNC_LENGTH THEN d_freq_offset
                        ELSE nread - d_offset
    /\ d_cor' = {}

-----------------------------------------------------------------------------

\* SYNC, not enough samples yet.
SyncMore(n) ==
    /\ d_state = "SYNC"
    /\ Available >= SYM
    /\ NInput(n)
    /\ ~Throws
    /\ ReadTag
    /\ d_offset + SyncConsumes(n) < SYNC_LENGTH
    /\ nread' = nread + SyncConsumes(n)
    /\ d_offset' = d_offset + SyncConsumes(n)
    /\ d_cor' = d_cor \cup Correlations(SyncConsumes(n))
    /\ UNCHANGED <<streamVars, written, d_state, d_frame_start, d_count,
                   d_freq_offset, out, outTags>>

\* SYNC, the SYNC_LENGTH-th correlation.
SyncDone(n) ==
    /\ d_state = "SYNC"
    /\ Available >= SYM
    /\ NInput(n)
    /\ ~Throws
    /\ ReadTag
    /\ d_offset + SyncConsumes(n) = SYNC_LENGTH
    /\ nread' = nread + SyncConsumes(n)
    /\ search_frame_start
    /\ d_offset' = 0
    /\ d_count' = 0
    /\ d_state' = "COPY"
    /\ UNCHANGED <<streamVars, written, out, outTags>>

\* COPY: i samples are consumed, until the input or the room for output ends.
Copy(n, noutput) ==
    /\ d_state = "COPY"
    /\ noutput <= Available
    /\ NInput(n)
    /\ ~AtTag
    /\ \E i \in 0..n :
        LET o == Cardinality(KeptIn(i))
        IN  /\ o <= noutput
            /\ i = n \/ o = noutput
            /\ \A j \in 0..(i - 1) : Cardinality(KeptIn(j)) < noutput
            /\ nread' = nread + i
            /\ d_offset' = d_offset + i
            /\ out' = out \cup
                 {[at |-> written + Cardinality(KeptIn(off - d_offset)),
                   src |-> nread + (off - d_offset) - DELAY] : off \in KeptIn(i)}
            /\ outTags' = outTags \cup
                 {[at |-> written, start |-> off,
                   short |-> d_freq_offset_short, long |-> d_freq_offset] :
                     off \in {d_frame_start} \cap (d_offset..(d_offset + i - 1))}
            /\ written' = written + o
            /\ d_count' = d_count + o
    /\ UNCHANGED <<streamVars, d_state, d_frame_start, d_cor, d_freq_offset,
                   d_freq_offset_short>>

\* Mutant: the new search does not start at offset 0.
Reset_KeepsOffset(noutput) ==
    /\ d_state = "RESET" \/ (d_state = "COPY" /\ AtTag)
    /\ noutput <= Available
    /\ ReadTag
    /\ LET done == Padding < noutput
           o == IF done THEN Padding ELSE noutput
       IN  /\ d_state' = IF done THEN "SYNC" ELSE "RESET"
           /\ written' = written + o
           /\ d_count' = d_count + o
    /\ UNCHANGED <<streamVars, nread, d_offset, d_frame_start, d_cor,
                   d_freq_offset, out, outTags>>

\* Mutant: zeros written by a call that runs out of room are not counted.
Reset_PadUncounted(noutput) ==
    /\ d_state = "RESET" \/ (d_state = "COPY" /\ AtTag)
    /\ noutput <= Available
    /\ ReadTag
    /\ LET done == Padding < noutput
           o == IF done THEN Padding ELSE noutput
       IN  /\ d_state' = IF done THEN "SYNC" ELSE "RESET"
           /\ d_offset' = IF done THEN 0 ELSE d_offset
           /\ written' = written + o
    /\ UNCHANGED <<streamVars, nread, d_frame_start, d_count, d_cor,
                   d_freq_offset, out, outTags>>

\* RESET, entered by the call that finds a tag in COPY: pad to whole symbols,
\* consume nothing.  The block leaves RESET only if there is room after the pad.
Reset(noutput) ==
    /\ d_state = "RESET" \/ (d_state = "COPY" /\ AtTag)
    /\ noutput <= Available
    /\ ReadTag
    /\ LET done == Padding < noutput
           o == IF done THEN Padding ELSE noutput
       IN  /\ d_state' = IF done THEN "SYNC" ELSE "RESET"
           /\ d_offset' = IF done THEN 0 ELSE d_offset
           /\ written' = written + o
           /\ d_count' = d_count + o
    /\ UNCHANGED <<streamVars, nread, d_frame_start, d_cor, d_freq_offset, out,
                   outTags>>

Work ==
    \/ \E n \in 0..MAX_INPUT : SyncMore(n) \/ SyncDone(n)
    \/ \E noutput \in 1..MAX_OUTPUT :
          Reset(noutput) \/ \E n \in 0..MAX_INPUT : Copy(n, noutput)

\* sync_short writes samples and tags.
Feed == StreamNext /\ UNCHANGED longVars

Next == Feed \/ Work

Spec == Init /\ [][Next]_vars

(* The scheduler calls a block as long as forecast is satisfied and there  *)
(* is room downstream.                                                     *)
FairSpec == Spec /\ WF_vars(Work)

-----------------------------------------------------------------------------

TypeOK ==
    /\ StreamTypeOK
    /\ nread \in 0..STREAM
    /\ written \in Nat
    /\ d_state \in {"SYNC", "COPY", "RESET"}
    /\ d_offset \in Nat
    /\ d_frame_start \in FrameStarts
    /\ d_count \in Nat
    /\ d_cor \subseteq [at : Nat, idx : Nat]
    /\ d_freq_offset \in Int
    /\ d_freq_offset_short \in Int
    /\ out \subseteq [at : Nat, src : Int]
    /\ outTags \subseteq [at : Nat, start : Nat, short : Int, long : Int]

(* The block never meets a tag in the middle of synchronisation, so "wtf"  *)
(* is never thrown.  A call that begins at a tag does not look for the     *)
(* next one, so this rests on the distance between tags.                   *)
NoThrow == ~Throws

(* Every tag is put on a multiple of the symbol length, which              *)
(* stream_to_vector and the equalizer need to see whole symbols, although  *)
(* frames are cut at any sample by the next tag.                           *)
TagsAligned == \A g \in outTags : g.at % SYM = 0

(* The peak search sees exactly the SYNC_LENGTH correlations that begin at *)
(* the frame's tag (assert(d_cor.size() == SYNC_LENGTH) and more: none is  *)
(* left over from another frame), and the tag it will use is that frame's. *)
WindowFromTag ==
    d_state = "SYNC" =>
        /\ d_cor = {[at |-> nread - d_offset + k, idx |-> k] : k \in 0..(d_offset - 1)}
        /\ d_offset > 0 => /\ nread - d_offset \in tags
                           /\ d_freq_offset_short = nread - d_offset

\* Offset in the frame of the j-th sample after the output tag: two symbols
\* of training, then symbols each preceded by a guard interval.
RelOf(j) ==
    IF j < 2 * SYM THEN j
    ELSE 2 * SYM + GI + ((j - 2 * SYM) \div SYM) * (SYM + GI) + ((j - 2 * SYM) % SYM)

(* However the scheduler cuts the stream, the output after a tag is the    *)
(* samples of that one frame from its start on, guard intervals removed,   *)
(* none lost, duplicated or shifted.                                       *)
SymbolsIntact ==
    \A w \in out :
        \E g \in outTags :
            /\ g.at <= w.at
            /\ \A h \in outTags : h.at <= w.at => h.at <= g.at
            /\ w.src = g.short + g.start + RelOf(w.at - g.at)

(* A frame is output completely except for what in_delayed still held when *)
(* the next tag came: only its last DELAY samples can be lost.             *)
CompleteUpToDelay ==
    \A g \in outTags : \A j \in 0..STREAM :
        LET due == g.short + g.start + RelOf(j) + DELAY
        IN  (due < nread /\ ~\E t \in tags : g.short < t /\ t <= due)
               => \E w \in out : w.at = g.at + j

(* Each tag of the input yields one tag of the output, in the same order,  *)
(* and none is skipped once the block is past the longest search.          *)
OneTagPerFrame ==
    /\ \A g \in outTags : g.short \in tags
    /\ \A g, h \in outTags : g # h => (g.at < h.at <=> g.short < h.short)
                                      /\ g.at # h.at
    /\ \A t \in tags : nread > t + 2 * SYNC_LENGTH =>
                          \E g \in outTags : g.short = t

(* The frequency offset published with a frame is computed from the short  *)
(* and the long training field of that same frame, unless no pair of peaks *)
(* was found.                                                              *)
FrequencyOfFrame ==
    \A g \in outTags : g.start # SYNC_LENGTH => g.long = g.short

(* However the frames are cut, the block never stalls: again and again     *)
(* every frame whose training fields have arrived has been announced       *)
(* downstream (announcing is never undone, so each one eventually is).     *)
FrameAnnounced ==
    []<>(\A t \in tags : sent > t + 2 * SYNC_LENGTH =>
            \E g \in outTags : g.short = t)

=============================================================================
