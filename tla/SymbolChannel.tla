--------------------------- MODULE SymbolChannel ---------------------------
(***************************************************************************)
(* The stream of equalised data symbols from frame_equalizer to            *)
(* decode_mac: a FIFO of symbols, the first symbol of a frame carrying the *)
(* tags that describe it.                                                  *)
(*                                                                         *)
(* A symbol is known by the frame it was received in and its place in that *)
(* frame's data field; of a frame's parameters (MCS and length) only the   *)
(* number of data symbols they amount to (frame_param::n_sym) is kept, and *)
(* two frames with as many symbols are taken to have the same parameters.  *)
(***************************************************************************)
EXTENDS Integers, Sequences

CONSTANTS
    FRAMES,    \* bound of the model: frames received
    NSYMS,     \* numbers of data symbols a frame's header can announce
    MAX_SYM,   \* utils.h: 683; decode_mac refuses frames with more symbols
    CAPACITY   \* bound of the model: symbols in the stream buffer

ASSUME ChannelAssumption ==
    /\ FRAMES \in Nat \ {0}
    /\ NSYMS \subseteq Nat \ {0}
    /\ MAX_SYM \in Nat
    /\ CAPACITY \in Nat \ {0}

VARIABLE chan  \* the symbols sent and not yet consumed

Frames == 1..FRAMES

\* "No tag here", and d_meta before the first one.
NoTag == [frame |-> 0, n_sym |-> 0]

\* The tags of a frame: whose they are and the n_sym that follows from them.
Tags == [frame : Frames, n_sym : NSYMS] \cup {NoTag}

\* A symbol: the k-th of the data field of a frame of n symbols (k > n: what
\* is received after its end); clean: equalised with its own frame's channel
\* estimate.
Symbols == [frame : Frames, k : Nat, n : NSYMS, clean : BOOLEAN, tag : Tags]

=============================================================================
