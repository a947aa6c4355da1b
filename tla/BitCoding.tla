----------------------------- MODULE BitCoding -----------------------------
(***************************************************************************)
(* The bit-level steps of a frame (src/lib/utils.cc) and its points        *)
(* (constellations_impl.cc), sender and receiver.  A buffer is a function  *)
(* on 0 .. n-1.                                                            *)
(***************************************************************************)
EXTENDS OfdmParam, Sequences, FiniteSets

LOCAL INSTANCE SequencesExt

Bit(n, i) == (n \div 2^i) % 2
Xor(a, b) == (a + b) % 2
Buffer(n, val(_)) == [i \in 0 .. n - 1 |-> val(i)]

(* The number whose n bits, nine at most, stand at from, least significant *)
(* first                                                                   *)
Number(in, from, n) ==
  LET worth(k) == IF k < n THEN in[from + k] * 2^k ELSE 0
  IN  worth(0) + worth(1) + worth(2) + worth(3) + worth(4) + worth(5)
        + worth(6) + worth(7) + worth(8)

-----------------------------------------------------------------------------
(* Sender *)

(* Service field, PSDU, least significant bit first, tail and pad bits *)
generate_bits(psdu, n_data_bits) ==
  Buffer(n_data_bits, LAMBDA i :
    IF i >= 8 /\ i < 8 + 8 * Len(psdu)
    THEN Bit(psdu[((i - 8) \div 8) + 1], i % 8) ELSE 0)

(* The shift register of scramble and descramble: x^7 + x^4 + 1 *)
Feedback(state) == Xor(Bit(state, 6), Bit(state, 3))
Shifted(state) == ((2 * state) % 128) + Feedback(state)

(* Its states from initial_state on *)
Register(initial_state, n) ==
  FoldLeft(LAMBDA states, i : Append(states, Shifted(states[i])),
           <<initial_state>>, [i \in 1 .. n |-> i])

scramble(in, n, initial_state) ==
  LET register == Register(initial_state, n)
  IN  Buffer(n, LAMBDA i : Xor(Feedback(register[i + 1]), in[i]))

reset_tail_bits(scrambled, n, n_pad) ==
  Buffer(n, LAMBDA i :
    IF i \in n - n_pad - 6 .. n - n_pad - 1 THEN 0 ELSE scrambled[i])

(* The two polynomials, 0155 and 0117, as the ages of the bits they add *)
Taps == <<{0, 2, 3, 5, 6}, {0, 1, 2, 3, 6}>>
convolutional_encoding(in, n) ==
  Buffer(2 * n, LAMBDA j :
    LET i == j \div 2
    IN  Cardinality({age \in Taps[(j % 2) + 1] : age <= i /\ in[i - age] = 1}) % 2)

(* The coded bits kept of each period.  QAM64_5_6 has no case, and its      *)
(* buffer stays as calloc left it                                          *)
Kept(e) ==
  CASE e = "QAM64_2_3" -> [period |-> 4, offsets |-> <<0, 1, 2>>]
    [] e \in {"QPSK_3_4", "QAM16_3_4", "QAM64_3_4"} ->
         [period |-> 6, offsets |-> <<0, 1, 2, 5>>]
    [] OTHER -> [period |-> 2, offsets |-> <<0, 1>>]
puncturing(in, n_encoded_bits, e) ==
  LET kept == Kept(e)
      per == Len(kept.offsets)
  IN  Buffer(n_encoded_bits, LAMBDA k :
        IF e = "QAM64_5_6" THEN 0
        ELSE in[kept.period * (k \div per) + kept.offsets[(k % per) + 1]])

(* s, the sign of the second copy of each bit at MCS 10 *)
Signs == <<1, 0, 0, 0, 0, 1, 0, 1, 0, 1, 1, 1>>
Half == CODED_BITS_PER_OFDM_SYMBOL \div 2
repeat(in, n_sym) ==
  Buffer(n_sym * CODED_BITS_PER_OFDM_SYMBOL, LAMBDA j :
    LET i == j \div CODED_BITS_PER_OFDM_SYMBOL
        k == j % CODED_BITS_PER_OFDM_SYMBOL
    IN  Xor(in[i * Half + (k % Half)], IF k < Half THEN 0 ELSE Signs[k - Half + 1]))

(* Bits of a symbol on the air, after repetition *)
AirBits(e) ==
  IF ofdm_param(e).n_cbps >= CODED_BITS_PER_OFDM_SYMBOL
  THEN ofdm_param(e).n_cbps ELSE CODED_BITS_PER_OFDM_SYMBOL

(* second[first[k]]: equations 21-82 and 21-83 *)
Permutation(e) ==
  LET n == AirBits(e)
      bpsc == ofdm_param(e).n_bpsc
      s == IF bpsc \div 2 > 1 THEN bpsc \div 2 ELSE 1
      first(j) == s * (j \div s) + ((j + ((8 * j) \div n)) % s)
      second(i) == 8 * i - (n - 1) * (i \div (3 * bpsc))
  IN  Buffer(n, LAMBDA k : second(first(k)))

Interleaving == [e \in Encodings |-> Permutation(e)]
interleave(in, n_sym, e) ==
  LET n == AirBits(e)
  IN  Buffer(n_sym * n, LAMBDA j : in[(j \div n) * n + Interleaving[e][j % n]])

(* One number per point *)
split_symbols(in, n_sym, bpsc) ==
  Buffer(n_sym * CODED_BITS_PER_OFDM_SYMBOL, LAMBDA i : Number(in, i * bpsc, bpsc))

-----------------------------------------------------------------------------
(* Points, in thousandths *)

(* What the sender maps an encoding's bits to *)
Mapping(e) ==
  CASE e \in {"BPSK_1_2", "BPSK_1_2_REP"} -> "bpsk"
    [] e \in {"QPSK_1_2", "QPSK_3_4"} -> "qpsk"
    [] e \in {"QAM16_1_2", "QAM16_3_4"} -> "16qam"
    [] OTHER -> "64qam"

(* ofdm_param::constellation, the receiver's *)
Constellation(e) == IF e = "QAM64_2_3" THEN "16qam" ELSE Mapping(e)

Amplitude16(inner) == IF inner = 1 THEN 316 ELSE 949
Amplitude64(inner, middle) ==
  IF inner = 1 THEN IF middle = 1 THEN 463 ELSE 154
  ELSE IF middle = 1 THEN 772 ELSE 1080
Signed(bit, amplitude) == IF bit = 1 THEN amplitude ELSE -amplitude

point(c, n) ==
  CASE c = "bpsk" -> <<Signed(Bit(n, 0), 1000), 0>>
    [] c = "qpsk" -> <<Signed(Bit(n, 0), 707), Signed(Bit(n, 1), 707)>>
    [] c = "16qam" -> <<Signed(Bit(n, 0), Amplitude16(Bit(n, 1))),
                        Signed(Bit(n, 2), Amplitude16(Bit(n, 3)))>>
    [] c = "64qam" -> <<Signed(Bit(n, 0), Amplitude64(Bit(n, 1), Bit(n, 2))),
                        Signed(Bit(n, 3), Amplitude64(Bit(n, 4), Bit(n, 5)))>>

Size(x) == IF x < 0 THEN -x ELSE x
Flag(test) == IF test THEN 1 ELSE 0

(* Mutant: the inner points are taken to be the outer ones *)
Axis16_Swapped(x) == Flag(x > 0) + 2 * Flag(Size(x) > 632)

Axis16(x) == Flag(x > 0) + 2 * Flag(Size(x) < 632)

(* Mutant: an outer threshold missed                                       *)
Axis64_Inner(x) == Flag(x > 0) + 2 * Flag(Size(x) < 617) + 4 * Flag(Size(x) > 309)

Axis64(x) == Flag(x > 0) + 2 * Flag(Size(x) < 617)
               + 4 * Flag(Size(x) < 926 /\ Size(x) > 309)

decision_maker(c, p) ==
  CASE c = "bpsk" -> Flag(p[1] > 0)
    [] c = "qpsk" -> 2 * Flag(p[2] > 0) + Flag(p[1] > 0)
    [] c = "16qam" -> Axis16(p[1]) + 4 * Axis16(p[2])
    [] c = "64qam" -> Axis64(p[1]) + 8 * Axis64(p[2])

(* utils/constellations.py: every point is decided right wherever noise     *)
(* below level has moved it; an axis is tested in steps of NOISE_STEP      *)
NOISE_STEP == 6
Noise(level) == {x \in 1 - level .. level - 1 : x % NOISE_STEP = 0}
                  \cup {1 - level, level - 1}
decided_as_sent(c, size, level) ==
  \A n \in 0 .. size - 1 : \A noise \in Noise(level) \X Noise(level) :
    decision_maker(c, <<point(c, n)[1] + noise[1], point(c, n)[2] + noise[2]>>) = n
decided_16qam == decided_as_sent("16qam", 16, 316)
decided_64qam == decided_as_sent("64qam", 64, 154)

-----------------------------------------------------------------------------
(* Receiver.  points is one point per subcarrier *)

(* MCS 10 and the SIG field: both copies of a point are averaged, then      *)
(* decided.  interleaver_pattern is a table                                *)
interleaver_pattern == <<0, 3, 6, 9, 12, 15, 18, 21,
                         1, 4, 7, 10, 13, 16, 19, 22,
                         2, 5, 8, 11, 14, 17, 20, 23>>
unrepeat(points, from, i) ==
  points[from + interleaver_pattern[i + 1]][1]
    + (IF Signs[i + 1] = 0 THEN 1 ELSE -1)
        * points[from + interleaver_pattern[i + Half + 1]][1]
RepeatedBits(points, n_sym) ==
  Buffer(n_sym * Half, LAMBDA j :
    Flag(unrepeat(points, (j \div Half) * CODED_BITS_PER_OFDM_SYMBOL, j % Half) > 0))

(* Any other MCS: the bits of each point, deinterleaved *)
Undo == [e \in Encodings |-> [i \in DOMAIN Interleaving[e] |->
           CHOOSE k \in DOMAIN Interleaving[e] : Interleaving[e][k] = i]]
SlicedBits(points, n_sym, e) ==
  LET n == AirBits(e)
      bpsc == ofdm_param(e).n_bpsc
      bit(j) == Bit(decision_maker(Constellation(e), points[j \div bpsc]), j % bpsc)
  IN  Buffer(n_sym * n, LAMBDA j : bit((j \div n) * n + Undo[e][j % n]))

(* What decode_mac puts into d_encoded_bits *)
ReceivedBits(points, n_sym, e) ==
  IF e = "BPSK_1_2_REP" THEN RepeatedBits(points, n_sym)
  ELSE SlicedBits(points, n_sym, e)

(* The seed is read off the service field, which was seven zeros *)
Seed(decoded) == Number([i \in 0 .. 6 |-> decoded[6 - i]], 0, 7)
descramble(decoded, psdu_size) ==
  LET register == Register(Seed(decoded), 8 * psdu_size + 1)
      bits == [i \in 7 .. 8 * psdu_size + 7 |->
                 Xor(Feedback(register[i - 6]), decoded[i])]
  IN  [k \in 1 .. psdu_size |-> Number(bits, 8 * k, 8)]

=============================================================================
