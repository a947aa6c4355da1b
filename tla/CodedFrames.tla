---------------------------- MODULE CodedFrames ----------------------------
(***************************************************************************)
(* Frames through the whole coding chain, bit by bit: what the mapper      *)
(* computes from a PSDU, the points on the air, of which noise may have    *)
(* moved one, the bits decode_mac collects in d_encoded_bits, the Viterbi  *)
(* decoder and the descrambler.  One frame is decoded after another in the *)
(* same buffers.                                                           *)
(***************************************************************************)
EXTENDS ViterbiDecoder

CONSTANTS
  FRAMES,     \* what is sent: records of encoding, psdu, hit (the number of
              \* the point that noise moves, or -1)
  MAX_FRAMES  \* bound: frames per behaviour

ASSUME FramesAssumption ==
  /\ \A f \in FRAMES :
       /\ f.encoding \in Decodable /\ f.hit \in Int
       /\ f.psdu \in Seq(0 .. 255) /\ Len(f.psdu) <= MAX_PSDU_SIZE
  /\ MAX_FRAMES \in Nat

(* decode() rounds up to whole bytes *)
decoded_bits(param) == ((param.n_data_bits + 7) \div 8) * 8

(* The modelled part of the buffers holds the bits of each frame, and what  *)
(* decode reads beyond them: two per bit of each byte, and of each byte     *)
(* that passes before the first is decided                                 *)
ASSUME WindowAssumption ==
  \A f \in FRAMES :
    LET param == frame_param(f.encoding, Len(f.psdu))
    IN  /\ param.n_encoded_bits <= WINDOW
        /\ 16 * d_ntraceback(f.encoding) + 2 * decoded_bits(param) <= WINDOW

VARIABLES
  sent,         \* history: number of frames sent
  frame,        \* the frame on its way
  d_scrambler,  \* mapper: the seed of the next frame
  chunks,       \* mapper: d_symbols, a number per point
  phase,
  out_bytes     \* decode_mac: the PSDU decoded

coding == <<buffers, trellis, d_store_pos>>
vars == <<sent, frame, d_scrambler, chunks, phase, out_bytes, coding>>

Param == frame_param(frame.encoding, Len(frame.psdu))
n_pad(f) ==
  frame_param(f.encoding, Len(f.psdu)).n_data_bits - (8 * Len(f.psdu) + 8 + 6)

Init ==
  /\ ViterbiInit
  /\ sent = 0
  /\ frame \in FRAMES
  /\ d_scrambler = 1
  /\ chunks = <<>>
  /\ phase = "idle"
  /\ out_bytes = <<>>

(* mapper: from the PSDU to the numbers of the points *)
Modulated(f, seed) ==
  LET e == f.encoding
      param == frame_param(e, Len(f.psdu))
      n == param.n_data_bits
      data == reset_tail_bits(scramble(generate_bits(f.psdu, n), n, seed), n, n_pad(f))
      punctured == puncturing(convolutional_encoding(data, n), param.n_encoded_bits, e)
      repeated == IF e = "BPSK_1_2_REP" THEN repeat(punctured, param.n_sym)
                  ELSE punctured
  IN  split_symbols(interleave(repeated, param.n_sym, e), param.n_sym,
                    ofdm_param(e).n_bpsc)

Send(f) ==
  /\ phase = "idle"
  /\ sent < MAX_FRAMES
  /\ sent' = sent + 1
  /\ frame' = f
  /\ chunks' = Modulated(f, d_scrambler)
  /\ d_scrambler' = IF d_scrambler = 127 THEN 1 ELSE d_scrambler + 1
  /\ phase' = "on air"
  /\ UNCHANGED <<out_bytes, coding>>

(* The points, one of them moved across an axis *)
Points ==
  LET at(j) == point(Mapping(frame.encoding), chunks[j])
  IN  [j \in DOMAIN chunks |->
         IF j = frame.hit THEN <<-at(j)[1], at(j)[2]>> ELSE at(j)]

(* decode_mac: the last symbol is copied, and decode begins.  What is      *)
(* beyond the frame's bits in d_encoded_bits stays                         *)
Collect ==
  /\ phase = "on air"
  /\ LET bits == ReceivedBits(Points, Param.n_sym, frame.encoding)
     IN  BeginDecode(frame.encoding, Param.n_encoded_bits,
           [i \in DOMAIN d_encoded_bits |->
              IF i \in DOMAIN bits THEN bits[i] ELSE d_encoded_bits[i]])
  /\ phase' = "decode"
  /\ UNCHANGED <<sent, frame, d_scrambler, chunks, out_bytes>>

n_data_bits == decoded_bits(Param)

Decode ==
  /\ phase = "decode"
  /\ DecodeStep(frame.encoding, n_data_bits)
  /\ UNCHANGED <<sent, frame, d_scrambler, chunks, phase, out_bytes>>

Descramble ==
  /\ phase = "decode"
  /\ Len(d_decoded) >= n_data_bits
  /\ out_bytes' = descramble([i \in 0 .. Len(d_decoded) - 1 |-> d_decoded[i + 1]],
                             Len(frame.psdu))
  /\ phase' = "idle"
  /\ UNCHANGED <<sent, frame, d_scrambler, chunks, coding>>

Next ==
  \/ \E f \in FRAMES : Send(f)
  \/ Collect
  \/ Decode
  \/ Descramble

Spec == Init /\ [][Next]_vars

-----------------------------------------------------------------------------
Done == sent > 0 /\ phase = "idle"

(* The depunctured values read that are not the frame's own *)
Beyond == {Symbol(frame.encoding, i) : i \in 2 * Param.n_data_bits .. in_count - 1}

TypeOK ==
  /\ sent \in 0 .. MAX_FRAMES
  /\ d_scrambler \in 1 .. 127
  /\ phase \in {"idle", "on air", "decode"}
  /\ DOMAIN d_encoded_bits = 0 .. WINDOW - 1
  /\ DOMAIN d_depunctured = 0 .. WINDOW - 1
  /\ \A n \in States : d_metric[n] \in 0 .. 255 /\ d_path[n] \in 0 .. 255
  /\ d_store_pos \in 0 .. TRACEBACK_MAX - 1
  /\ in_count <= WINDOW

(* The receiver slices each point of a frame into the bits the transmitter *)
(* modulated, but for QAM64_2_3, which it takes for 16QAM (utils.cc:83):   *)
(* there the points 0 to 3, of 64, are the only ones it does not misread    *)
SlicedAsSent ==
  phase = "decode" =>
    LET e == frame.encoding
        sliced(j) == decision_maker(Constellation(e), point(Mapping(e), chunks[j]))
    IN  \A j \in DOMAIN chunks :
          sliced(j) = chunks[j] <=> (e = "QAM64_2_3" => chunks[j] \in 0 .. 3)

(* Noise below half the distance of two points never changes a decision on  *)
(* a frame in a QAM constellation, on either axis and at any corner of a    *)
(* point's region                                                          *)
DecidesWithinLevel ==
  phase = "on air" =>
    CASE Mapping(frame.encoding) = "16qam" -> decided_16qam
      [] Mapping(frame.encoding) = "64qam" -> decided_64qam
      [] OTHER -> TRUE

(* A frame with no or one point received wrong decodes to the PSDU that    *)
(* was sent, whatever its rate and whatever was decoded before it, as long  *)
(* as the values the decoder reads beyond the frame's bits are zeros: all   *)
(* frames but those at QAM64_2_3, none of which does                       *)
Decodes ==
  (Done /\ Beyond \subseteq {0})
    => (out_bytes = frame.psdu <=> frame.encoding # "QAM64_2_3")

(* decode_mac.cc:273 clears d_encoded_bits once, "= {0}": no frame received *)
(* without error is decoded wrong                                          *)
NoiseFreeDecodes ==
  (Done /\ frame.hit = -1) => out_bytes = frame.psdu
=============================================================================
