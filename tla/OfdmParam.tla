----------------------------- MODULE OfdmParam -----------------------------
(***************************************************************************)
(* ofdm_param and frame_param (src/lib/utils.h, utils.cc): how many        *)
(* symbols, data bits and coded bits a PSDU takes at each MCS, and the     *)
(* limits the blocks derive from the largest PSDU.                         *)
(***************************************************************************)
EXTENDS Integers

MAX_PSDU_SIZE == 511
MAX_PAYLOAD_SIZE == 1500
MAX_BITS_PER_SYM == 160
MAX_ENCODED_BITS == MAX_BITS_PER_SYM * MAX_PSDU_SIZE
CODED_BITS_PER_OFDM_SYMBOL == 24
SAMPLES_PER_OFDM_SYMBOL == 32
SAMPLES_PER_GI == 8
NUM_OFDM_SYMBOLS_IN_STF == 4  \* "4 symbols STF", sync_short.cc
NUM_OFDM_SYMBOLS_IN_LTF1 == 4
NUM_OFDM_SYMBOLS_IN_SIG_FIELD == 6

\* Mutant: a division that rounds up.
MAX_SYM_Ceil == (8 * MAX_PSDU_SIZE + 8 + 6 + 5) \div 6

\* An integer division.
MAX_SYM == (8 * MAX_PSDU_SIZE + 8 + 6) \div 6

\* Mutant: one symbol less.
MAX_SAMPLES_Short == ((MAX_PSDU_SIZE * 8) \div 6 + 13) * (SAMPLES_PER_OFDM_SYMBOL + SAMPLES_PER_GI)

\* sync_short.cc: likewise.
MAX_SAMPLES == ((MAX_PSDU_SIZE * 8) \div 6 + 14) * (SAMPLES_PER_OFDM_SYMBOL + SAMPLES_PER_GI)

\* The MCS that ofdm_param knows: MCS 0 to 7 and MCS 10, 150 kbit/s.
Encodings == {"BPSK_1_2", "QPSK_1_2", "QPSK_3_4", "QAM16_1_2", "QAM16_3_4",
              "QAM64_2_3", "QAM64_3_4", "QAM64_5_6", "BPSK_1_2_REP"}

Params(bpsc, cbps, dbps) == [n_bpsc |-> bpsc, n_cbps |-> cbps, n_dbps |-> dbps]

\* Mutant: the coded bits of 16QAM.
ofdm_param_Cbps(e) ==
    CASE e = "BPSK_1_2"     -> Params(1, 24, 12)
      [] e = "QPSK_1_2"     -> Params(2, 48, 24)
      [] e = "QPSK_3_4"     -> Params(2, 48, 36)
      [] e = "QAM16_1_2"    -> Params(4, 96, 48)
      [] e = "QAM16_3_4"    -> Params(4, 96, 72)
      [] e = "QAM64_2_3"    -> Params(6, 96, 96)
      [] e = "QAM64_3_4"    -> Params(6, 144, 108)
      [] e = "QAM64_5_6"    -> Params(6, 144, 120)
      [] e = "BPSK_1_2_REP" -> Params(1, 12, 6)

ofdm_param(e) ==
    CASE e = "BPSK_1_2"     -> Params(1, 24, 12)
      [] e = "QPSK_1_2"     -> Params(2, 48, 24)
      [] e = "QPSK_3_4"     -> Params(2, 48, 36)
      [] e = "QAM16_1_2"    -> Params(4, 96, 48)
      [] e = "QAM16_3_4"    -> Params(4, 96, 72)
      [] e = "QAM64_2_3"    -> Params(6, 144, 96)
      [] e = "QAM64_3_4"    -> Params(6, 144, 108)
      [] e = "QAM64_5_6"    -> Params(6, 144, 120)
      [] e = "BPSK_1_2_REP" -> Params(1, 12, 6)

\* Mutant: an integer division.
NSym_Floor(e, psdu_size) == (8 * psdu_size + 8 + 6) \div ofdm_param(e).n_dbps

\* ceil((8 * psdu_size + 8 + 6) / n_dbps): service, PSDU and tail bits.
NSym(e, psdu_size) ==
    LET bits == 8 * psdu_size + 8 + 6
        n_dbps == ofdm_param(e).n_dbps
    IN  (bits + n_dbps - 1) \div n_dbps

\* The constructor for data frames; n_data_bits is a uint16_t.
frame_param(e, psdu_size) ==
    LET n_sym == NSym(e, psdu_size)
    IN  [psdu_size      |-> psdu_size,
         n_sym          |-> n_sym,
         n_data_bits    |-> (n_sym * ofdm_param(e).n_dbps) % 65536,
         n_encoded_bits |-> n_sym * ofdm_param(e).n_cbps]

=============================================================================
