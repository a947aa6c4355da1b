----------------------------- MODULE DecodeMac -----------------------------
(***************************************************************************)
(* decode_mac: collects the symbols of a frame, decodes them and publishes *)
(* the frame if its FCS is right (src/lib/decode_mac.cc).                  *)
(*                                                                         *)
(* general_work is a loop over symbols whose state is all in members; one  *)
(* action is one iteration.  The FCS is taken to find every error.  All    *)
(* symbols of a frame, in order and equalised with its own channel         *)
(* estimate, decode to it if nothing but zeros is behind them in the       *)
(* buffers (CodedFrames).  Nothing clears the buffers, though, and the     *)
(* decoder reads on behind the frame's end: behind what a longer frame     *)
(* has left there, a whole frame comes out right or wrong.                 *)
(***************************************************************************)
EXTENDS SymbolChannel

CONSTANTS
    UNINITIALISED,  \* what copied and d_frame.n_sym may hold at first
    LEAVES          \* <<m, n>>: m symbols are more coded bits than n symbols are

ASSUME DecodeMacAssumption ==
    /\ UNINITIALISED \subseteq Nat
    /\ LEAVES \subseteq Nat \X Nat

VARIABLES
    copied,
    n_sym,            \* d_frame.n_sym
    d_meta,           \* the tags of the frame announced last
    d_frame_complete,
    d_encoded_bits,   \* the symbols in the buffer, the first copied of them valid
    left,             \* the n_sym of the frames that have left bits in the buffers
    out               \* the messages published, with the frame their payload is of

macVars == <<copied, n_sym, d_meta, d_frame_complete, d_encoded_bits, left, out>>

\* What the buffer holds before anything is received: its own kind of symbol.
Zeros == [frame |-> 0, k |-> 0, n |-> 0, clean |-> FALSE]

MacTypeOK ==
    /\ copied \in Nat
    /\ n_sym \in Nat
    /\ d_meta \in Tags
    /\ d_frame_complete \in BOOLEAN
    /\ d_encoded_bits \in Seq([frame : Frames \cup {0}, k : Nat, n : NSYMS \cup {0},
                               clean : BOOLEAN])
    /\ left \subseteq Nat
    /\ out \in Seq([meta : Frames \cup {0}, frame : Frames])

\* copied has no initialiser, and d_frame is constructed from d_ofdm before
\* d_ofdm is constructed.
MacInit ==
    /\ copied \in UNINITIALISED
    /\ n_sym \in UNINITIALISED
    /\ d_meta = NoTag
    /\ d_frame_complete = TRUE
    /\ d_encoded_bits = [j \in 1..copied |-> Zeros]
    /\ left = {}
    /\ out = <<>>

-----------------------------------------------------------------------------

Symbol == Head(chan)

\* A tag announces a frame; one that is too large is dropped (but its tags are
\* not: they are in d_meta already).
Accepted == Symbol.tag # NoTag /\ Symbol.tag.n_sym <= MAX_SYM

\* Mutant: symbols of a new frame are appended to those of the old one.
Copied_NoReset == copied

\* copied once the symbol's tags have been looked at.
Copied == IF Accepted THEN 0 ELSE copied

\* d_frame.n_sym, likewise.
Needed == IF Accepted THEN Symbol.tag.n_sym ELSE n_sym

\* memcpy(d_encoded_bits + copied * n_cbps, d_rx_bits, n_cbps)
Buffer == Append(SubSeq(d_encoded_bits, 1, Copied),
                 [frame |-> Symbol.frame, k |-> Symbol.k, n |-> Symbol.n,
                  clean |-> Symbol.clean])

\* The symbols of buf are a whole frame.
Whole(buf) ==
    \A j \in 1..Len(buf) :
        /\ buf[j].frame = buf[1].frame
        /\ buf[j].k = j
        /\ buf[j].n = Len(buf)
        /\ buf[j].clean

\* Bits of one of these frames are behind the n symbols of another.
Behind(frames, n) == \E m \in frames : <<m, n>> \in LEAVES

\* Mutant: the metadata of an incomplete frame is kept.
EnterTags_KeepsMeta ==
    /\ d_meta' = IF Symbol.tag # NoTag /\ d_frame_complete THEN Symbol.tag ELSE d_meta
    /\ n_sym' = Needed

\* The tags of the head symbol, if any, have been entered.
EnterTags ==
    /\ d_meta' = IF Symbol.tag # NoTag THEN Symbol.tag ELSE d_meta
    /\ n_sym' = Needed

-----------------------------------------------------------------------------

\* A symbol nobody waits for.
SkipSymbol ==
    /\ chan # <<>>
    /\ Copied >= Needed
    /\ EnterTags
    /\ copied' = Copied
    /\ d_frame_complete' = (d_frame_complete /\ Symbol.tag = NoTag)
    /\ chan' = Tail(chan)
    /\ UNCHANGED <<d_encoded_bits, left, out>>

CopySymbol ==
    /\ chan # <<>>
    /\ Copied + 1 < Needed
    /\ EnterTags
    /\ copied' = Copied + 1
    /\ d_frame_complete' = (d_frame_complete /\ Symbol.tag = NoTag)
    /\ d_encoded_bits' = Buffer
    /\ left' = left \cup {Needed}
    /\ chan' = Tail(chan)
    /\ UNCHANGED out

\* "received complete frame - decoding"
DecodeFrame ==
    /\ chan # <<>>
    /\ Copied + 1 = Needed
    /\ EnterTags
    /\ copied' = Copied + 1
    /\ d_frame_complete' = TRUE
    /\ d_encoded_bits' = Buffer
    /\ left' = left \cup {Needed}
    /\ \/ /\ Whole(Buffer)
          /\ out' = Append(out, [meta |-> d_meta'.frame, frame |-> Symbol.frame])
       \/ /\ Whole(Buffer) => Behind(left, Needed)
          /\ UNCHANGED out
    /\ chan' = Tail(chan)

MacNext == SkipSymbol \/ CopySymbol \/ DecodeFrame

=============================================================================
