----------------------------- MODULE FrameSizes ----------------------------
(***************************************************************************)
(* Do the sizes that mapper, the SIG field, sync_short and decode_mac work *)
(* with fit each other?  A client sends PSDUs of growing size at any MCS;  *)
(* every property is about one PSDU on its way.                            *)
(***************************************************************************)
EXTENDS SignalField, PythonUtils, Pilots

CONSTANTS
    MAX_SENT,    \* the largest PSDU: mac.cc appends 28 bytes to 1500
    BURST_EVERY  \* bound: distance of the lengths whose SIG field is disturbed

ASSUME SentAssumption == MAX_SENT \in Nat /\ BURST_EVERY \in Nat \ {0}

VARIABLES
    encoding,
    psdu_size

vars == <<encoding, psdu_size>>

Init == encoding \in Encodings /\ psdu_size = 0

Send ==
    /\ psdu_size < MAX_SENT
    /\ psdu_size' = psdu_size + 1
    /\ encoding' \in Encodings

Spec == Init /\ [][Send]_vars

-----------------------------------------------------------------------------

Frame == frame_param(encoding, psdu_size)

\* mapper.cc: only the number of symbols is checked.
MapperAccepts == Frame.n_sym <= MAX_SYM

\* Bytes the mapper takes from split_symbols' buffer, and the buffer's size: a
\* byte per constellation point, each repeated once at MCS 10.
d_symbols_len == Frame.n_sym * CODED_BITS_PER_OFDM_SYMBOL

SymbolBufferSize ==
    LET points == Frame.n_encoded_bits \div ofdm_param(encoding).n_bpsc
    IN  IF encoding = "BPSK_1_2_REP" THEN 2 * points ELSE points

\* generate_signal_field: nine bits of length.
SigLength == psdu_size % 512

\* decode_mac.cc: the frame announced by the SIG field is accepted.
DecoderAccepts ==
    /\ NSym(encoding, SigLength) <= MAX_SYM
    /\ SigLength <= MAX_PSDU_SIZE

\* decode(): n_data_bits rounded up to whole bytes for the Viterbi decoder,
\* in 16 bits: (n_data_bits + 7) & 0xfff8.
DecodedBits ==
    LET n == frame_param(encoding, SigLength).n_data_bits + 7
    IN  (n - (n % 8)) % 65536

\* Samples on the air, training and SIG fields included.
AirSamples ==
    (NUM_OFDM_SYMBOLS_IN_STF + NUM_OFDM_SYMBOLS_IN_LTF1
        + NUM_OFDM_SYMBOLS_IN_SIG_FIELD + Frame.n_sym)
      * (SAMPLES_PER_OFDM_SYMBOL + SAMPLES_PER_GI)

(* The mapper copies exactly what the modulation steps produced, also at   *)
(* MCS 10, where n_encoded_bits counts the bits before repetition.         *)
SymbolBufferExact == MapperAccepts => d_symbols_len = SymbolBufferSize

(* A frame that decode_mac accepts fits its buffers, and the decoder       *)
(* returns at least the service and PSDU bits that descramble reads, for   *)
(* every length and despite 16-bit counts.                                 *)
DecoderFits ==
    DecoderAccepts =>
        LET f == frame_param(encoding, SigLength)
        IN  /\ f.n_sym * ofdm_param(encoding).n_cbps <= MAX_ENCODED_BITS
            /\ DecodedBits <= (MAX_ENCODED_BITS * 3) \div 4
            /\ DecodedBits >= 8 * SigLength + 8

(* MAX_SYM rounds down where frame_param rounds up: of the PSDUs that       *)
(* utils.h:47 allows, exactly the longest at MCS 10 is refused              *)
OnlyLongestRefused ==
    psdu_size <= MAX_PSDU_SIZE =>
        (~MapperAccepts <=> encoding = "BPSK_1_2_REP" /\ psdu_size = 511)

(* MAX_SAMPLES (sync_short.cc:26) leaves out the service and tail bits: of  *)
(* the frames sent with a PSDU that the SIG field can announce, exactly the *)
(* one of 510 octets at MCS 10 is longer, and loses its last symbols        *)
OnlyLongestCut ==
    psdu_size <= MAX_PSDU_SIZE /\ MapperAccepts =>
        (AirSamples > MAX_SAMPLES <=> encoding = "BPSK_1_2_REP" /\ psdu_size = 510)

(* What generate_signal_field writes is read as it was written, and with    *)
(* any burst of wrong bits no longer than the CRC it is refused: the        *)
(* errors a Viterbi decoder makes come in bursts                            *)
SigErrorsFound ==
    psdu_size <= MAX_PSDU_SIZE =>
        LET header == generate_signal_field(encoding, psdu_size)
        IN  /\ parse_signal(header) = [encoding |-> encoding, psdu_size |-> psdu_size]
            /\ psdu_size % BURST_EVERY = 0 =>
               \A first \in 0 .. 29 : \A others \in SUBSET (1 .. 3) :
                 LET wrong == {first} \cup {first + i : i \in others}
                 IN  wrong \subseteq 0 .. 29 =>
                       parse_signal(Flipped(header, wrong)) = Refused

(* The symbols that payload_to_symbols counts hold the payload, and one     *)
(* less would not or is full: rounding never costs two symbols, and         *)
(* symbols_to_payload never gives back less                                 *)
SymbolsHold ==
    LET payload == mac_payload_to_payload(psdu_size)
        mcs == McsOf[encoding]
        symbols == payload_to_symbols(payload, mcs)
    IN  mcs <= 7 /\ payload >= 0 =>
          /\ symbols_to_payload8(symbols, mcs) >= 8 * payload
          /\ symbols_to_payload8(symbols - 1, mcs) <= 8 * payload

(* The symbols of a frame whose pilots are not the ones the receiver turns   *)
(* their phase by                                                          *)
Mispiloted ==
    {n \in 0 .. NUM_OFDM_SYMBOLS_IN_SIG_FIELD + Frame.n_sym - 1 :
       pilots(n) # pilot_mapping(NUM_OFDM_SYMBOLS_IN_LTF1 + n)}

(* Every symbol carries the pilots the receiver expects, and pilots and     *)
(* data are where it looks for them.  The flowgraph's list has as many      *)
(* pairs as the longest frame has symbols behind its SIG field: only frames *)
(* that use the list's first pairs again get wrong ones                    *)
PilotsExpected ==
    psdu_size <= MAX_PSDU_SIZE /\ MapperAccepts =>
        /\ Mispiloted # {} <=> encoding = "BPSK_1_2_REP" /\ psdu_size >= 507
        /\ \A k \in 1 .. 2 : PILOT_INDEX[k] = pilot_carriers[k] + 16
        /\ DataCarriers = {occupied_carriers[k] + 16 : k \in DOMAIN occupied_carriers}

(* frame_equalizer_impl.cc: "length is the number of octets in the PSDU":  *)
(* whatever the mapper accepts is announced with its own length.           *)
LengthAnnounced == MapperAccepts => SigLength = psdu_size

=============================================================================
