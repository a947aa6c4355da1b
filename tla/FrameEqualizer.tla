--------------------------- MODULE FrameEqualizer --------------------------
(***************************************************************************)
(* frame_equalizer: channel estimation on LTF1, decoding of the SIG field  *)
(* and equalisation of the data symbols                                    *)
(* (src/lib/frame_equalizer_impl.cc, equalizer/ls.cc).                     *)
(*                                                                         *)
(* general_work holds d_mutex for the whole call and is a loop over        *)
(* symbols that carries nothing but the block's members and offsets that   *)
(* count symbols, so one action is one iteration; set_algorithm takes the  *)
(* same mutex and comes between calls, hence between iterations.           *)
(*                                                                         *)
(* What is received is arbitrary: any frame may be cut anywhere by the     *)
(* next one, and its SIG field may decode to anything.                     *)
(***************************************************************************)
EXTENDS SymbolChannel

CONSTANTS
    LTF1,      \* NUM_OFDM_SYMBOLS_IN_LTF1 = 4
    SIG,       \* NUM_OFDM_SYMBOLS_IN_SIG_FIELD = 6
    AFTER,     \* bound of the model: symbols received after a frame's end
    GARBAGE    \* values of an n_sym computed from uninitialised members

ASSUME FieldAssumption ==
    /\ LTF1 \in Nat \ {0}
    /\ SIG \in Nat \ {0}
    /\ AFTER \in Nat
    /\ GARBAGE \subseteq Int

VARIABLES
    rx,                \* the input symbol at the head: frame, place, true n_sym
    d_current_symbol,
    d_frame_symbols,
    d_sig,
    d_H,               \* the training symbols the channel estimate is made of
    pending,           \* tags at offset nitems_written + o, if any
    header,            \* history: how each frame's SIG field decoded, its true n_sym
    whole,             \* history: frames of which the last data symbol was received
    reset              \* history: frames during which the equalizer was replaced

eqVars == <<rx, d_current_symbol, d_frame_symbols, d_sig, d_H, pending,
            header, whole, reset>>

Outcomes == {"none", "ok", "wrong", "badcrc", "unsupported"}

EqTypeOK ==
    /\ chan \in Seq(Symbols)
    /\ Len(chan) <= CAPACITY
    /\ rx \in [frame : Frames, place : Nat, n : NSYMS]
    /\ d_current_symbol \in Nat
    /\ d_frame_symbols \in Int
    /\ d_sig \in 0..SIG
    /\ d_H \subseteq Frames \X (0..(LTF1 - 1))
    /\ pending \in Tags
    /\ header \in [Frames -> [outcome : Outcomes, n : NSYMS \cup {0}]]
    /\ whole \subseteq Frames
    /\ reset \subseteq Frames

EqInit ==
    /\ chan = <<>>
    /\ rx \in [frame : {1}, place : {0}, n : NSYMS]
    /\ d_current_symbol = 0
    /\ d_frame_symbols = 0
    /\ d_sig = 0
    /\ d_H = {}
    /\ pending = NoTag
    /\ header = [f \in Frames |-> [outcome |-> "none", n |-> 0]]
    /\ whole = {}
    /\ reset = {}

-----------------------------------------------------------------------------

\* consume: the next symbol belongs to the same frame or begins the next one.
Consume ==
    /\ \/ /\ rx.place < LTF1 + SIG + rx.n + AFTER
          /\ rx' = [rx EXCEPT !.place = @ + 1]
       \/ /\ rx.frame < FRAMES
          /\ rx' \in [frame : {rx.frame + 1}, place : {0}, n : NSYMS]
    /\ whole' = IF rx.place = LTF1 + SIG + rx.n - 1 THEN whole \cup {rx.frame}
                ELSE whole

\* o < noutput_items: without room for a symbol nothing is done, not even dropped.
Room == Len(chan) < CAPACITY

\* Mutant: d_sig is not reset by a new frame.
SigCount_NoReset == d_sig

\* The first symbol of a frame carries sync_long's tag, which resets the block's
\* counters before anything else is done with the symbol.
Tagged == rx.place = 0
Current == IF Tagged THEN 0 ELSE d_current_symbol
FrameSymbols == IF Tagged THEN 0 ELSE d_frame_symbols
SigCount == IF Tagged THEN 0 ELSE d_sig

\* Mutant: two symbols late.
AtEnd_Later == Current > FrameSymbols + LTF1 + SIG + 1

\* "if we reached the end of the frame, drop remaining samples"
AtEnd == Current > FrameSymbols + LTF1 + SIG

\* Mutant: the mean goes on from the previous frame.
EstimateChannel_NoReset ==
    d_H' = d_H \cup {<<rx.frame, Current>>}

\* The LS equalizer's running mean: symbol 0 replaces it, the others are added.
EstimateChannel ==
    d_H' = (IF Current = 0 THEN {} ELSE d_H) \cup {<<rx.frame, Current>>}

\* The estimate made of all of the present frame's training symbols.
OwnEstimate == {rx.frame} \X (0..(LTF1 - 1))

\* parse_signal on the decoded SIG field: d_frame_symbols, whether the frame is
\* announced, and with how many symbols.  A header with a bad CRC leaves
\* d_frame_symbols at 0; one with an MCS that ofdm_param does not know has set it
\* to garbage by the time it is rejected; a wrong header may pass the 4-bit CRC.
parse_signal ==
    \E outcome \in Outcomes \ {"none"} :
        /\ header' = [header EXCEPT ![rx.frame] = [outcome |-> outcome, n |-> rx.n]]
        /\ CASE outcome = "ok" ->
                  /\ d_frame_symbols' = rx.n
                  /\ pending' = [frame |-> rx.frame, n_sym |-> rx.n]
             [] outcome = "wrong" ->
                  \E m \in NSYMS \ {rx.n} :
                     /\ d_frame_symbols' = m
                     /\ pending' = [frame |-> rx.frame, n_sym |-> m]
             [] outcome = "badcrc" ->
                  /\ d_frame_symbols' = FrameSymbols
                  /\ UNCHANGED pending
             [] outcome = "unsupported" ->
                  /\ d_frame_symbols' \in GARBAGE
                  /\ UNCHANGED pending

-----------------------------------------------------------------------------

\* Dropped symbols are consumed without being counted.
Drop ==
    /\ Room /\ AtEnd
    /\ Consume
    /\ d_current_symbol' = Current
    /\ d_frame_symbols' = FrameSymbols
    /\ d_sig' = SigCount
    /\ UNCHANGED <<chan, d_H, pending, header, reset>>

Train ==
    /\ Room /\ ~AtEnd
    /\ Current < LTF1
    /\ EstimateChannel
    /\ Consume
    /\ d_current_symbol' = Current + 1
    /\ d_frame_symbols' = FrameSymbols
    /\ d_sig' = SigCount
    /\ UNCHANGED <<chan, pending, header, reset>>

\* decode_signal_field collects SIG symbols and parses them on the last one.
Signal ==
    /\ Room /\ ~AtEnd
    /\ LTF1 <= Current /\ Current < LTF1 + SIG
    /\ Consume
    /\ d_current_symbol' = Current + 1
    /\ d_sig' = SigCount + 1
    /\ IF SigCount + 1 = SIG
       THEN parse_signal
       ELSE d_frame_symbols' = FrameSymbols /\ UNCHANGED <<pending, header>>
    /\ UNCHANGED <<chan, d_H, reset>>

\* Mutant: the tags are added again at every data symbol.
Data_TagsEverySymbol ==
    /\ Room /\ ~AtEnd
    /\ LTF1 + SIG <= Current
    /\ chan' = Append(chan,
                 [frame |-> rx.frame, k |-> rx.place - LTF1 - SIG + 1, n |-> rx.n,
                  clean |-> d_H = OwnEstimate, tag |-> pending])
    /\ Consume
    /\ d_current_symbol' = Current + 1
    /\ d_frame_symbols' = FrameSymbols
    /\ d_sig' = SigCount
    /\ UNCHANGED <<d_H, pending, header, reset>>

\* A data symbol is sent and takes with it the tags waiting at its offset.
Data ==
    /\ Room /\ ~AtEnd
    /\ LTF1 + SIG <= Current
    /\ chan' = Append(chan,
                 [frame |-> rx.frame, k |-> rx.place - LTF1 - SIG + 1, n |-> rx.n,
                  clean |-> d_H = OwnEstimate, tag |-> pending])
    /\ pending' = NoTag
    /\ Consume
    /\ d_current_symbol' = Current + 1
    /\ d_frame_symbols' = FrameSymbols
    /\ d_sig' = SigCount
    /\ UNCHANGED <<d_H, header, reset>>

\* Another thread replaces the equalizer: its channel estimate starts from zero.
\* (A symbol that begins a frame is not part of the frame yet.)
set_algorithm ==
    /\ d_H' = {}
    /\ reset' = IF Tagged THEN reset ELSE reset \cup {rx.frame}
    /\ UNCHANGED <<chan, rx, d_current_symbol, d_frame_symbols, d_sig, pending,
                   header, whole>>

EqNext == Drop \/ Train \/ Signal \/ Data \/ set_algorithm

=============================================================================
