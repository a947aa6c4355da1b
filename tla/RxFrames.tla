------------------------------ MODULE RxFrames -----------------------------
(***************************************************************************)
(* The receive path from OFDM symbols to published frames: frame_equalizer *)
(* and decode_mac, each in its own thread, joined by a bounded FIFO.       *)
(***************************************************************************)
EXTENDS FrameEqualizer, DecodeMac

vars == <<chan, eqVars, macVars>>

TypeOK == EqTypeOK /\ MacTypeOK

Init == EqInit /\ MacInit

Next ==
    \/ EqNext /\ UNCHANGED macVars
    \/ MacNext /\ UNCHANGED eqVars

Spec == Init /\ [][Next]_vars

-----------------------------------------------------------------------------

(* A frame that is received from its first to its last symbol, and whose   *)
(* header is decoded, is published although cut frames, lost headers,      *)
(* left-over symbols and tags came before it and members were never        *)
(* initialised.  (Not if the equalizer was replaced while it was being     *)
(* received, if it is larger than MAX_SYM, or if symbols of a frame with   *)
(* more bits were copied before: decode_mac.cc:273 reads what they left.)  *)
WholeFramePublished ==
    \A f \in whole \ reset :
        /\ header[f].outcome = "ok"
        /\ header[f].n <= MAX_SYM
        /\ ~Behind(left, header[f].n)
        /\ \A j \in 1..Len(chan) : ~(chan[j].frame = f /\ chan[j].k <= header[f].n)
        => \E i \in 1..Len(out) : out[i].frame = f

(* A frame whose header was received is published with the metadata of its *)
(* own header, although tags of a frame that was cut before its first data *)
(* symbol stay behind for whatever symbol comes next.                      *)
OwnMetadata ==
    \A i \in 1..Len(out) :
        header[out[i].frame].outcome = "ok" => out[i].meta = out[i].frame

(* Tags reach decode_mac on the first data symbol of a frame, and they are *)
(* that frame's unless its own header was not received.                    *)
TagsOnFirstSymbol ==
    \A j \in 1..Len(chan) :
        chan[j].tag # NoTag =>
            /\ chan[j].k = 1
            /\ \/ chan[j].tag.frame = chan[j].frame
               \/ header[chan[j].frame].outcome \in {"badcrc", "unsupported"}

(* Every data symbol is divided by the channel estimated on all of its own *)
(* frame's training symbols, unless set_algorithm came in between.         *)
OwnChannel ==
    \A j \in 1..Len(chan) : chan[j].clean \/ chan[j].frame \in reset

(* frame_equalizer_impl.cc:157 means to drop whatever follows a frame.     *)
(* However much that is, its test, one symbol late, lets at most the first  *)
(* of it pass, and decode_mac has no delimiter but the tags                 *)
AtMostOneStray ==
    \A j \in 1..Len(chan) :
        header[chan[j].frame].outcome = "ok" => chan[j].k <= chan[j].n + 1

(* decode_mac.cc:99, "Dropping frame which is too large": no symbol of     *)
(* such a frame is kept for decoding.                                      *)
TooLargeDropped ==
    \A j \in 1..copied :
        LET s == d_encoded_bits[j]
        IN  s.frame \in Frames /\ header[s.frame].outcome = "ok" => s.n <= MAX_SYM

=============================================================================
