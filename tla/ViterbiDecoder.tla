--------------------------- MODULE ViterbiDecoder --------------------------
(***************************************************************************)
(* The decoder of the convolutional code, viterbi_decoder_generic.cc and   *)
(* base.cc: one action is an iteration of decode's loop that does          *)
(* something, four depunctured values.  What it reads beyond a frame's own *)
(* bits is what its buffers hold from earlier frames.                      *)
(***************************************************************************)
EXTENDS BitCoding, FiniteSetsExt

CONSTANTS
  WINDOW,  \* bound: modelled length of d_encoded_bits and d_depunctured
  LEFT     \* what d_depunctured, which has no initialiser, may hold at first
           \* (bound: a bit)

ASSUME ViterbiAssumption == WINDOW \in Nat /\ LEFT \subseteq 0 .. 1

VARIABLES
  d_encoded_bits,  \* decode_mac's buffer, argument of decode
  d_depunctured,
  d_metric,        \* per state of the encoder
  d_path,          \* per state: the last 8 bits of its best path
  d_ppresult,      \* the paths of the last d_ntraceback bytes
  d_store_pos,
  in_count, out_count,
  d_decoded        \* the bits decoded so far, as a sequence

buffers == <<d_encoded_bits, d_depunctured>>
trellis == <<d_metric, d_path, d_ppresult, in_count, out_count, d_decoded>>

States == 0 .. 63
Zeros == [i \in States |-> 0]
TRACEBACK_MAX == 24

-----------------------------------------------------------------------------
(* reset has no case for QAM64_5_6, which keeps what the frame before left; *)
(* no frame is sent at it (see chunks_to_symbols)                          *)
Decodable == Encodings \ {"QAM64_5_6"}
d_ntraceback(e) ==
  CASE e = "QAM64_2_3" -> 9
    [] e \in {"QPSK_3_4", "QAM16_3_4", "QAM64_3_4"} -> 10
    [] e \in {"BPSK_1_2", "QPSK_1_2", "QAM16_1_2", "BPSK_1_2_REP"} -> 5

ViterbiInit ==
  /\ d_encoded_bits = [i \in 0 .. WINDOW - 1 |-> 0]
  /\ \E left \in LEFT : d_depunctured = [i \in 0 .. WINDOW - 1 |-> left]
  /\ d_store_pos = 0
  /\ d_metric = Zeros /\ d_path = Zeros
  /\ d_ppresult = [pos \in 0 .. TRACEBACK_MAX - 1 |-> Zeros]
  /\ in_count = 0 /\ out_count = 0
  /\ d_decoded = <<>>

(* Position i of the punctured code, as the number of a received bit *)
Received(kept, i) ==
  (i \div kept.period) * Len(kept.offsets)
    + Cardinality({k \in DOMAIN kept.offsets : kept.offsets[k] < i % kept.period})
IsKept(kept, i) == \E k \in DOMAIN kept.offsets : kept.offsets[k] = i % kept.period

(* At rate 1/2 decode works on its argument; otherwise the n bits of the    *)
(* frame go to d_depunctured, with a 2 where a bit was not sent            *)
Depunctured(e, n, encoded) ==
  LET kept == Kept(e)
      count == (n \div Len(kept.offsets)) * kept.period
  IN  IF d_ntraceback(e) = 5 THEN d_depunctured
      ELSE [i \in DOMAIN d_depunctured |->
              IF i >= count THEN d_depunctured[i]
              ELSE IF IsKept(kept, i) THEN encoded[Received(kept, i)] ELSE 2]

(* The start of decode: reset and depuncture.  d_store_pos is not reset,    *)
(* only wrapped by a modulus that may have changed                         *)
BeginDecode(e, n, encoded) ==
  /\ d_encoded_bits' = encoded
  /\ d_depunctured' = Depunctured(e, n, encoded)
  /\ d_metric' = Zeros /\ d_path' = Zeros
  /\ d_ppresult' = [pos \in 0 .. TRACEBACK_MAX - 1 |-> Zeros]
  /\ in_count' = 0 /\ out_count' = 0
  /\ d_decoded' = <<>>
  /\ UNCHANGED d_store_pos

Symbol(e, i) == IF d_ntraceback(e) = 5 THEN d_encoded_bits[i] ELSE d_depunctured[i]

-----------------------------------------------------------------------------
(* d_branchtab27_generic: the pair of bits sent from state 2 * i *)
Branch == [i \in 0 .. 31 |->
  [poly \in 1 .. 2 |-> Cardinality({b \in Taps[poly] : Bit(2 * i, b) = 1}) % 2]]

(* Add, compare, select for one pair of symbols a, b; of equal metrics the *)
(* path from the upper state wins                                          *)
Butterfly(metric, path, a, b) ==
  LET erased == a = 2 \/ b = 2
      full == IF erased THEN 1 ELSE 2
      apart == [i \in 0 .. 31 |->
        IF a = 2 THEN Xor(Branch[i][2], b)
        ELSE IF b = 2 THEN Xor(Branch[i][1], a)
        ELSE Xor(Branch[i][1], a) + Xor(Branch[i][2], b)]
      best == [n \in States |->
        LET i == n \div 2
            sym == IF n % 2 = 0 THEN apart[i] ELSE full - apart[i]
            lower == metric[i] + full - sym
            upper == metric[i + 32] + sym
        IN  IF lower > upper
            THEN <<lower, (2 * path[i]) % 256>>
            ELSE <<upper, ((2 * path[i + 32]) % 256) + 1>>]
  IN  [metric |-> [n \in States |-> best[n][1]],
       path |-> [n \in States |-> best[n][2]]]

Butterfly2(e) ==
  LET once == Butterfly(d_metric, d_path, Symbol(e, in_count), Symbol(e, in_count + 1))
  IN  Butterfly(once.metric, once.path, Symbol(e, in_count + 2), Symbol(e, in_count + 3))

(* viterbi_get_output_generic: from the best state, the first of several,  *)
(* back through the stored paths, which keep eight bits of which the last  *)
(* six, shifted in, are the state eight steps earlier                      *)
BestState(metric) ==
  LET top == Max({metric[n] : n \in States})
  IN  Min({n \in States : metric[n] = top})
TraceBack(e, stored, pos, from) ==
  LET state[k \in Nat] ==
        IF k = 0 THEN from
        ELSE stored[(pos - (k - 1)) % d_ntraceback(e)][state[k - 1]] \div 4
      last == d_ntraceback(e) - 1
  IN  stored[(pos - last) % d_ntraceback(e)][state[last]]

Octet(c) == [k \in 1 .. 8 |-> Bit(c, 8 - k)]

OutputDue == in_count > 0 /\ in_count % 16 = 8

(* Mutant: one byte too early *)
Ready_Early(e) == out_count >= d_ntraceback(e) - 1

Ready(e) == out_count >= d_ntraceback(e)

(* Mutant: the metrics go on growing *)
Renormalized_Never(metric) == metric

Renormalized(metric) ==
  LET least == Min({metric[n] : n \in States})
  IN  [n \in States |-> metric[n] - least]

(* An iteration with in_count % 4 = 0, and the three without effect *)
DecodeStep(e, n_data_bits) ==
  /\ Len(d_decoded) < n_data_bits
  /\ in_count' = in_count + 4
  /\ LET after == Butterfly2(e)
         pos == (d_store_pos + 1) % d_ntraceback(e)
         stored == [d_ppresult EXCEPT ![pos] = after.path]
     IN  IF OutputDue
         THEN /\ d_store_pos' = pos
              /\ d_ppresult' = stored
              /\ d_decoded' = IF ~Ready(e) THEN d_decoded
                   ELSE d_decoded \o
                     Octet(TraceBack(e, stored, pos, BestState(after.metric)))
              /\ out_count' = out_count + 1
              /\ d_metric' = Renormalized(after.metric)
              /\ d_path' = Zeros
         ELSE /\ d_metric' = after.metric
              /\ d_path' = after.path
              /\ UNCHANGED <<d_store_pos, d_ppresult, d_decoded, out_count>>
  /\ UNCHANGED buffers

=============================================================================
