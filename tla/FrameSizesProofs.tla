-------------------------- MODULE FrameSizesProofs --------------------------
(***************************************************************************)
(* Proofs that the sizes the blocks work with fit each other, for PSDUs of *)
(* any size: the runs of FrameSizes end at the largest that mac builds.    *)
(* That the pilots and the SIG field of every frame are understood.        *)
(***************************************************************************)
EXTENDS FrameSizes, TLAPS

\* A client sends PSDUs of some size at some MCS.
Sent == encoding \in Encodings /\ psdu_size \in Nat

-----------------------------------------------------------------------------
(* Rates and symbols.                                                      *)

\* The limits, as numbers.
LEMMA Limits ==
    /\ MAX_SYM = 683
    /\ MAX_SAMPLES = 27800
    /\ MAX_ENCODED_BITS = 81760
    /\ (MAX_ENCODED_BITS * 3) \div 4 = 61320
    /\ MAX_PSDU_SIZE = 511
BY DEF MAX_SYM, MAX_SAMPLES, MAX_ENCODED_BITS, MAX_PSDU_SIZE, MAX_BITS_PER_SYM,
   SAMPLES_PER_OFDM_SYMBOL, SAMPLES_PER_GI

\* The rates of each MCS.
LEMMA Rates ==
    ASSUME NEW e \in Encodings,
           NEW b, NEW c, NEW d,
           b = ofdm_param(e).n_bpsc, c = ofdm_param(e).n_cbps, d = ofdm_param(e).n_dbps
    PROVE  \/ e = "BPSK_1_2"     /\ b = 1 /\ c = 24  /\ d = 12
           \/ e = "QPSK_1_2"     /\ b = 2 /\ c = 48  /\ d = 24
           \/ e = "QPSK_3_4"     /\ b = 2 /\ c = 48  /\ d = 36
           \/ e = "QAM16_1_2"    /\ b = 4 /\ c = 96  /\ d = 48
           \/ e = "QAM16_3_4"    /\ b = 4 /\ c = 96  /\ d = 72
           \/ e = "QAM64_2_3"    /\ b = 6 /\ c = 144 /\ d = 96
           \/ e = "QAM64_3_4"    /\ b = 6 /\ c = 144 /\ d = 108
           \/ e = "QAM64_5_6"    /\ b = 6 /\ c = 144 /\ d = 120
           \/ e = "BPSK_1_2_REP" /\ b = 1 /\ c = 12  /\ d = 6
<1>1. CASE e = "BPSK_1_2"
  BY <1>1 DEF ofdm_param, Params
<1>2. CASE e = "QPSK_1_2"
  BY <1>2 DEF ofdm_param, Params
<1>3. CASE e = "QPSK_3_4"
  BY <1>3 DEF ofdm_param, Params
<1>4. CASE e = "QAM16_1_2"
  BY <1>4 DEF ofdm_param, Params
<1>5. CASE e = "QAM16_3_4"
  BY <1>5 DEF ofdm_param, Params
<1>6. CASE e = "QAM64_2_3"
  BY <1>6 DEF ofdm_param, Params
<1>7. CASE e = "QAM64_3_4"
  BY <1>7 DEF ofdm_param, Params
<1>8. CASE e = "QAM64_5_6"
  BY <1>8 DEF ofdm_param, Params
<1>9. CASE e = "BPSK_1_2_REP"
  BY <1>9 DEF ofdm_param, Params
<1>. QED  BY <1>1, <1>2, <1>3, <1>4, <1>5, <1>6, <1>7, <1>8, <1>9 DEF Encodings

\* Division, as the prover needs it.
LEMMA Division ==
    ASSUME NEW d \in Nat, d > 0, NEW x \in Nat
    PROVE  /\ x \div d \in Nat
           /\ x % d \in 0..(d - 1)
           /\ x = d * (x \div d) + (x % d)
OBVIOUS

\* The symbols of a frame hold its bits, and one less would not.
LEMMA SymbolsCount ==
    ASSUME NEW e \in Encodings, NEW size \in Nat,
           NEW d, d = ofdm_param(e).n_dbps, NEW n, n = NSym(e, size)
    PROVE  /\ n \in Nat
           /\ d * n >= 8 * size + 14
           /\ d * n < 8 * size + 14 + d
<1>1. d \in Nat /\ d > 0
  <2>1. PICK b, c : b = ofdm_param(e).n_bpsc /\ c = ofdm_param(e).n_cbps
    OBVIOUS
  <2>. QED  BY <2>1, Rates
<1>2. PICK x \in Nat : x = 8 * size + 8 + 6 + d - 1
  BY <1>1
<1>3. n = x \div d
  BY <1>2 DEF NSym
<1>4. /\ x \div d \in Nat /\ x % d \in 0..(d - 1)
      /\ x = d * (x \div d) + (x % d)
  BY ONLY <1>1, <1>2, Division
<1>5. PICK y \in Nat, r \in 0..(d - 1) : y = d * n /\ r = x % d
  BY <1>1, <1>3, <1>4
<1>6. x = y + r
  BY <1>3, <1>4, <1>5
<1>7. n \in Nat
  BY <1>3, <1>4
<1>8. y >= 8 * size + 14 /\ y < 8 * size + 14 + d
  <2>1. y + r = 8 * size + 13 + d /\ d \in Nat /\ r \in Nat /\ r < d
    BY <1>1, <1>2, <1>5, <1>6
  <2>. QED  BY <2>1
<1>. QED  BY <1>5, <1>7, <1>8

\* The fields of a frame's parameters.
LEMMA FrameFields ==
    ASSUME NEW e, NEW size, NEW n, n = NSym(e, size), NEW f, f = frame_param(e, size)
    PROVE  /\ f.n_sym = n
           /\ f.n_data_bits = (n * ofdm_param(e).n_dbps) % 65536
           /\ f.n_encoded_bits = n * ofdm_param(e).n_cbps
BY DEF frame_param

-----------------------------------------------------------------------------
(* What holds of every PSDU.                                               *)

\* The mapper's buffer holds a byte for each point it copies.
LEMMA BufferExact == ASSUME Sent PROVE SymbolBufferExact
<1>1. PICK n, b, c, d : /\ n = NSym(encoding, psdu_size)
                        /\ b = ofdm_param(encoding).n_bpsc
                        /\ c = ofdm_param(encoding).n_cbps
                        /\ d = ofdm_param(encoding).n_dbps
  OBVIOUS
<1>2. encoding \in Encodings /\ n \in Nat
  BY <1>1, SymbolsCount DEF Sent
<1>3. PICK f : f = frame_param(encoding, psdu_size)
  OBVIOUS
<1>4. f.n_sym = n /\ f.n_encoded_bits = n * c
  BY <1>1, <1>3, FrameFields
<1>5. d_symbols_len = n * 24
  BY <1>3, <1>4 DEF d_symbols_len, Frame, CODED_BITS_PER_OFDM_SYMBOL
<1>6. PICK points : points = (n * c) \div b
  OBVIOUS
<1>7. SymbolBufferSize = IF encoding = "BPSK_1_2_REP" THEN 2 * points ELSE points
  BY <1>1, <1>3, <1>4, <1>6 DEF SymbolBufferSize, Frame
<1>8. \/ encoding # "BPSK_1_2_REP" /\ b = 1 /\ c = 24
      \/ encoding # "BPSK_1_2_REP" /\ b = 2 /\ c = 48
      \/ encoding # "BPSK_1_2_REP" /\ b = 4 /\ c = 96
      \/ encoding # "BPSK_1_2_REP" /\ b = 6 /\ c = 144
      \/ encoding = "BPSK_1_2_REP" /\ b = 1 /\ c = 12
  BY <1>1, <1>2, Rates
<1>9. SymbolBufferSize = n * 24
  BY <1>2, <1>6, <1>7, <1>8
<1>. QED  BY <1>5, <1>9 DEF SymbolBufferExact

\* A whole number of bytes, no less than what it is rounded up from less seven.
LEMMA WholeBytes ==
    ASSUME NEW x \in Nat, x < 65536, NEW y, y = (x - (x % 8)) % 65536
    PROVE  y \in Nat /\ y <= x /\ y >= x - 7
<1>1. PICK r \in 0..7 : r = x % 8
  OBVIOUS
<1>2. r <= x
  <2>1. /\ x \div 8 \in Nat /\ x % 8 \in 0..(8 - 1)
        /\ x = 8 * (x \div 8) + (x % 8)
    BY Division
  <2>. QED  BY <1>1, <2>1
<1>3. PICK z \in Nat : z = x - r /\ z < 65536
  BY <1>1, <1>2
<1>4. z % 65536 = z
  BY <1>3
<1>. QED  BY <1>1, <1>3, <1>4

\* What the decoder accepts fits its buffers.
LEMMA AcceptedFits == ASSUME Sent PROVE DecoderFits
<1>. SUFFICES ASSUME DecoderAccepts,
                     NEW f, f = frame_param(encoding, SigLength)
              PROVE  /\ f.n_sym * ofdm_param(encoding).n_cbps <= MAX_ENCODED_BITS
                     /\ DecodedBits <= (MAX_ENCODED_BITS * 3) \div 4
                     /\ DecodedBits >= 8 * SigLength + 8
  BY DEF DecoderFits
<1>1. PICK l \in 0..511 : l = SigLength
  BY DEF Sent, SigLength
<1>2. PICK n, b, c, d : /\ n = NSym(encoding, l)
                        /\ b = ofdm_param(encoding).n_bpsc
                        /\ c = ofdm_param(encoding).n_cbps
                        /\ d = ofdm_param(encoding).n_dbps
  OBVIOUS
<1>3. encoding \in Encodings /\ n \in Nat /\ d * n >= 8 * l + 14 /\ d * n < 8 * l + 14 + d
  BY <1>2, SymbolsCount DEF Sent
<1>4. /\ f.n_sym = n
      /\ f.n_data_bits = (n * d) % 65536
  BY <1>1, <1>2, FrameFields
<1>5. \/ c = 24 /\ d = 12
      \/ c = 48 /\ d \in {24, 36}
      \/ c = 96 /\ d \in {48, 72}
      \/ c = 144 /\ d \in {96, 108, 120}
      \/ c = 12 /\ d = 6
  BY <1>2, <1>3, Rates
<1>6. PICK m \in Nat : m = n * d /\ m >= 8 * l + 14 /\ m <= 8 * l + 134
  BY <1>1, <1>3, <1>5
<1>7. n * c <= 81760
  BY <1>1, <1>3, <1>5
<1>8. m % 65536 = m
  BY <1>1, <1>6
<1>9. PICK x \in Nat : x = m + 7 /\ x < 61320
  BY <1>1, <1>6
<1>10. DecodedBits = (x - (x % 8)) % 65536
  BY <1>4, <1>6, <1>8, <1>9 DEF DecodedBits
<1>11. DecodedBits \in Nat /\ DecodedBits <= x /\ DecodedBits >= x - 7
  BY <1>9, <1>10, WholeBytes
<1>. QED  BY <1>1, <1>2, <1>4, <1>6, <1>7, <1>9, <1>11, Limits

\* Only the longest PSDU at the lowest rate takes too many symbols.
LEMMA RefusedAre == ASSUME Sent PROVE OnlyLongestRefused
<1>. SUFFICES ASSUME psdu_size <= 511
              PROVE  (~MapperAccepts <=> encoding = "BPSK_1_2_REP" /\ psdu_size = 511)
  BY Limits DEF OnlyLongestRefused
<1>1. PICK n, b, c, d : /\ n = NSym(encoding, psdu_size)
                        /\ b = ofdm_param(encoding).n_bpsc
                        /\ c = ofdm_param(encoding).n_cbps
                        /\ d = ofdm_param(encoding).n_dbps
  OBVIOUS
<1>2. /\ encoding \in Encodings /\ psdu_size \in Nat /\ n \in Nat
      /\ d * n >= 8 * psdu_size + 14 /\ d * n < 8 * psdu_size + 14 + d
  BY <1>1, SymbolsCount DEF Sent
<1>3. MapperAccepts <=> n <= 683
  BY <1>1, Limits, FrameFields DEF MapperAccepts, Frame
<1>4. \/ encoding # "BPSK_1_2_REP" /\ d \in {12, 24, 36, 48, 72, 96, 108, 120}
      \/ encoding = "BPSK_1_2_REP" /\ d = 6
  BY <1>1, <1>2, Rates
<1>. QED  BY <1>2, <1>3, <1>4

\* Only one frame that is sent is longer than sync_short copies.
LEMMA CutAre == ASSUME Sent PROVE OnlyLongestCut
<1>. SUFFICES ASSUME psdu_size <= 511, MapperAccepts
              PROVE  (AirSamples > MAX_SAMPLES
                        <=> encoding = "BPSK_1_2_REP" /\ psdu_size = 510)
  BY Limits DEF OnlyLongestCut
<1>1. PICK n, b, c, d : /\ n = NSym(encoding, psdu_size)
                        /\ b = ofdm_param(encoding).n_bpsc
                        /\ c = ofdm_param(encoding).n_cbps
                        /\ d = ofdm_param(encoding).n_dbps
  OBVIOUS
<1>2. /\ encoding \in Encodings /\ psdu_size \in Nat /\ n \in Nat
      /\ d * n >= 8 * psdu_size + 14 /\ d * n < 8 * psdu_size + 14 + d
  BY <1>1, SymbolsCount DEF Sent
<1>3. n <= 683
  BY <1>1, Limits, FrameFields DEF MapperAccepts, Frame
<1>4. AirSamples = (14 + n) * 40
  BY <1>1, <1>2, FrameFields DEF AirSamples, Frame, NUM_OFDM_SYMBOLS_IN_STF,
     NUM_OFDM_SYMBOLS_IN_LTF1, NUM_OFDM_SYMBOLS_IN_SIG_FIELD,
     SAMPLES_PER_OFDM_SYMBOL, SAMPLES_PER_GI
<1>5. \/ encoding # "BPSK_1_2_REP" /\ d \in {12, 24, 36, 48, 72, 96, 108, 120}
      \/ encoding = "BPSK_1_2_REP" /\ d = 6
  BY <1>1, <1>2, Rates
<1>. QED  BY <1>2, <1>3, <1>4, <1>5, Limits

\* The symbols counted by utils.py hold the payload, and one less would not or
\* is full.
LEMMA SymbolsEnough == ASSUME Sent PROVE SymbolsHold
<1>1. PICK payload, mcs : /\ payload = mac_payload_to_payload(psdu_size)
                          /\ mcs = McsOf[encoding]
  OBVIOUS
<1>2. PICK s : s = payload_to_symbols(payload, mcs)
  OBVIOUS
<1>. SUFFICES ASSUME mcs <= 7, payload >= 0
              PROVE  /\ symbols_to_payload8(s, mcs) >= 8 * payload
                     /\ symbols_to_payload8(s - 1, mcs) <= 8 * payload
  BY <1>1, <1>2, Zenon DEF SymbolsHold
<1>3. payload \in Nat
  BY <1>1 DEF mac_payload_to_payload, Sent
<1>4. mcs \in 0..7
  BY <1>1 DEF Sent, McsOf, Encodings
<1>5. PICK d : d = encoding_to_parameters(mcs)
  OBVIOUS
<1>6. d \in Nat /\ d > 0
  BY <1>4, <1>5 DEF encoding_to_parameters
<1>7. PICK x \in Nat : x = PayloadBits(payload) /\ x = 8 * payload + 246
  BY <1>3 DEF PayloadBits
<1>8. /\ x \div d \in Nat /\ x % d \in 0..(d - 1)
      /\ x = d * (x \div d) + (x % d)
  BY ONLY <1>6, <1>7, Division, ZenonT(60)
<1>9. PICK w \in Nat, r \in 0..(d - 1) : w = x \div d /\ r = x % d /\ x = d * w + r
  BY <1>8
<1>10. PICK n : n = RoundedUp(x, d)
  OBVIOUS
<1>11. n = (IF r = 0 /\ w % 2 = 0 THEN w ELSE w + 1)
  BY <1>9, <1>10 DEF RoundedUp
<1>12. n \in Nat /\ d * n >= x /\ d * (n - 1) <= x
  <2>1. PICK y \in Nat : y = d * w
    BY <1>6
  <2>2. d * (w + 1) = y + d /\ d * (w - 1) = y - d /\ d * (w + 1 - 1) = y
    BY <1>6, <2>1
  <2>3. x = y + r
    BY <1>9, <2>1
  <2>4. CASE r = 0 /\ w % 2 = 0
    <3>1. n = w
      BY <1>11, <2>4
    <3>. QED  BY <1>6, <2>1, <2>2, <2>3, <2>4, <3>1
  <2>5. CASE ~(r = 0 /\ w % 2 = 0)
    <3>1. n = w + 1
      BY <1>11, <2>5
    <3>. QED  BY <1>6, <2>1, <2>2, <2>3, <3>1
  <2>. QED  BY <2>4, <2>5
<1>13. s = n + 5
  BY <1>2, <1>5, <1>7, <1>10 DEF payload_to_symbols
<1>14. s - 5 = n /\ s - 1 - 5 = n - 1
  BY <1>12, <1>13
<1>15. symbols_to_payload8(s, mcs) = n * d - 246
  BY <1>5, <1>6, <1>12, <1>14 DEF symbols_to_payload8
<1>16. symbols_to_payload8(s - 1, mcs) = (n - 1) * d - 246
  BY <1>5, <1>6, <1>12, <1>14 DEF symbols_to_payload8
<1>17. PICK u \in Int, v \in Int : u = n * d /\ v = (n - 1) * d
  BY <1>6, <1>12
<1>18. u >= x /\ v <= x
  BY <1>6, <1>12, <1>17
<1>. QED  BY <1>3, <1>7, <1>15, <1>16, <1>17, <1>18

-----------------------------------------------------------------------------
(* Pilots.                                                                 *)

\* The flowgraph's list of pilots is the receiver's rule, written out for two
\* periods of its polarity.
LEMMA PilotTable ==
    /\ Len(PILOTS) = 254
    /\ \A m \in 0..253 :
         PILOTS[m + 1] = (IF m % 2 = 1 THEN -1 ELSE 1) * POLARITY[(m % 127) + 1]
<1>1. Len(PILOTS) = 254
  BY SMTT(60) DEF PILOTS
<1>2. \A m \in 1..254 :
        PILOTS[m] = (IF m % 2 = 0 THEN -1 ELSE 1) * POLARITY[((m - 1) % 127) + 1]
  BY SMTT(60) DEF PILOTS, POLARITY
<1>3. ASSUME NEW m \in 0..253
      PROVE  PILOTS[m + 1] = (IF m % 2 = 1 THEN -1 ELSE 1) * POLARITY[(m % 127) + 1]
  <2>1. PICK k \in 1..254 : k = m + 1
    OBVIOUS
  <2>2. k - 1 = m /\ (k % 2 = 0 <=> m % 2 = 1)
    BY <2>1
  <2>. QED  BY <1>2, <2>1, <2>2, SMTT(40)
<1>. QED  BY <1>1, <1>3

\* Up to the end of the list a symbol's pilots are the expected ones.
LEMMA PilotsMatch ==
    ASSUME NEW n \in 0..682
    PROVE  pilots(n) = pilot_mapping(NUM_OFDM_SYMBOLS_IN_LTF1 + n)
<1>1. PICK m \in 0..253, q \in 0..2 : n = 254 * q + m /\ m = n % 254
  OBVIOUS
<1>2. m % 127 = n % 127 /\ m % 2 = n % 2
  <2>1. PICK r \in 0..1, k \in 0..126 : m = 127 * r + k
    <3>1. m = 127 * (m \div 127) + (m % 127) /\ m \div 127 \in 0..1 /\ m % 127 \in 0..126
      OBVIOUS
    <3>. QED  BY <3>1
  <2>2. m % 127 = k /\ n % 127 = k
    BY <1>1, <2>1
  <2>3. m % 2 = n % 2
    BY <1>1
  <2>. QED  BY <2>2, <2>3
<1>3. pilots(n) = PILOTS[m + 1]
  <2>1. (n % 683) % 254 = m
    <3>1. n % 683 = n
      OBVIOUS
    <3>. QED  BY <1>1, <3>1, ZenonT(60)
  <2>2. Len(PILOTS) = 254
    BY PilotTable
  <2>3. PICK i : i = (n % PILOT_PAIRS) % Len(PILOTS)
    OBVIOUS
  <2>4. pilots(n) = PILOTS[i + 1]
    BY <2>3 DEF pilots
  <2>. QED  BY <2>1, <2>2, <2>3, <2>4 DEF PILOT_PAIRS
<1>4. pilot_mapping(4 + n) = (IF m % 2 = 1 THEN -1 ELSE 1) * POLARITY[(m % 127) + 1]
  <2>1. (4 + n) % 2 = n % 2 /\ (4 + n) - 4 = n
    OBVIOUS
  <2>. QED  BY <1>2, <2>1 DEF pilot_mapping, NUM_OFDM_SYMBOLS_IN_LTF1
<1>. QED  BY <1>3, <1>4, PilotTable, ZenonT(60) DEF NUM_OFDM_SYMBOLS_IN_LTF1

\* One of the next two, which use the first pairs again, has the wrong sign.
LEMMA PilotsTurned ==
    \E n \in 683..684 : pilots(n) # pilot_mapping(NUM_OFDM_SYMBOLS_IN_LTF1 + n)
<1>1. /\ 683 % 683 = 0 /\ 0 % 254 = 0 /\ 684 % 683 = 1 /\ 1 % 254 = 1
      /\ 687 % 2 = 1 /\ 688 % 2 = 0 /\ 683 % 127 = 48 /\ 684 % 127 = 49
  OBVIOUS
<1>2. pilots(683) = 1 /\ pilots(684) = -1
  <2>1. PILOTS[1] = 1 /\ PILOTS[2] = -1
    BY SMTT(60) DEF PILOTS
  <2>. QED  BY <1>1, <2>1, PilotTable DEF pilots, PILOT_PAIRS
<1>3. pilot_mapping(687) = (-1) * POLARITY[49] /\ pilot_mapping(688) = 1 * POLARITY[50]
  <2>1. PICK i, k : i = ((687 - 4) % 127) + 1 /\ k = ((688 - 4) % 127) + 1
    OBVIOUS
  <2>2. i = 49 /\ k = 50 /\ 687 % 2 = 1 /\ 688 % 2 # 1
    BY <2>1
  <2>3. pilot_mapping(687) = (-1) * POLARITY[i]
    BY <2>1, <2>2, ZenonT(60) DEF pilot_mapping, NUM_OFDM_SYMBOLS_IN_LTF1
  <2>4. pilot_mapping(688) = 1 * POLARITY[k]
    BY <2>1, <2>2, ZenonT(60) DEF pilot_mapping, NUM_OFDM_SYMBOLS_IN_LTF1
  <2>. QED  BY <2>2, <2>3, <2>4
<1>4. POLARITY[49] = 1 \/ POLARITY[50] = 1
  BY SMTT(60) DEF POLARITY
<1>. QED  BY <1>2, <1>3, <1>4 DEF NUM_OFDM_SYMBOLS_IN_LTF1

\* Only the longest frames at MCS 10 go beyond the list.
LEMMA PilotsAre == ASSUME Sent PROVE PilotsExpected
<1>. SUFFICES ASSUME psdu_size <= MAX_PSDU_SIZE, MapperAccepts
              PROVE  /\ Mispiloted # {} <=> encoding = "BPSK_1_2_REP" /\ psdu_size >= 507
                     /\ \A k \in 1..2 : PILOT_INDEX[k] = pilot_carriers[k] + 16
                     /\ DataCarriers =
                          {occupied_carriers[k] + 16 : k \in DOMAIN occupied_carriers}
  BY DEF PilotsExpected
<1>1. PICK n_sym, d : n_sym = NSym(encoding, psdu_size) /\ d = ofdm_param(encoding).n_dbps
  OBVIOUS
<1>2. /\ n_sym \in Nat
      /\ d * n_sym >= 8 * psdu_size + 14 /\ d * n_sym < 8 * psdu_size + 14 + d
  BY <1>1, SymbolsCount DEF Sent
<1>3. n_sym <= 683 /\ psdu_size \in 0..511
  BY <1>1, Limits DEF MapperAccepts, Frame, frame_param, Sent
<1>4. IF encoding = "BPSK_1_2_REP" THEN d = 6
      ELSE d \in {12, 24, 36, 48, 72, 96, 108, 120}
  BY <1>1, Rates DEF Sent
<1>5. n_sym # 678 /\ (n_sym >= 679 <=> encoding = "BPSK_1_2_REP" /\ psdu_size >= 507)
  BY <1>2, <1>3, <1>4
<1>6. Mispiloted = {n \in 0..(6 + n_sym - 1) :
                      pilots(n) # pilot_mapping(NUM_OFDM_SYMBOLS_IN_LTF1 + n)}
  BY <1>1 DEF Mispiloted, Frame, frame_param, NUM_OFDM_SYMBOLS_IN_SIG_FIELD
<1>7. Mispiloted # {} <=> encoding = "BPSK_1_2_REP" /\ psdu_size >= 507
  <2>1. CASE n_sym >= 679
    <3>1. 683..684 \subseteq 0..(6 + n_sym - 1)
      BY <1>2, <2>1
    <3>2. \E n \in 0..(6 + n_sym - 1) :
            pilots(n) # pilot_mapping(NUM_OFDM_SYMBOLS_IN_LTF1 + n)
      <4>1. PICK n \in 683..684 : pilots(n) # pilot_mapping(NUM_OFDM_SYMBOLS_IN_LTF1 + n)
        BY PilotsTurned, ZenonT(60)
      <4>2. n \in 0..(6 + n_sym - 1)
        BY <3>1
      <4>. QED  BY <4>1, <4>2, ZenonT(60)
    <3>3. Mispiloted # {}
      BY <1>6, <3>2, Zenon
    <3>. QED  BY <1>5, <2>1, <3>3
  <2>2. CASE n_sym < 679
    <3>1. 0..(6 + n_sym - 1) \subseteq 0..682
      BY <1>2, <1>5, <2>2
    <3>2. Mispiloted = {}
      BY <1>6, <3>1, PilotsMatch, ZenonT(60)
    <3>. QED  BY <1>2, <1>5, <2>2, <3>2
  <2>. QED  BY <1>2, <2>1, <2>2
<1>8. \A k \in 1..2 : PILOT_INDEX[k] = pilot_carriers[k] + 16
  BY DEF PILOT_INDEX, pilot_carriers
<1>9. DataCarriers = {occupied_carriers[k] + 16 : k \in DOMAIN occupied_carriers}
  BY DEF DataCarriers, occupied_carriers, PILOT_INDEX, SAMPLES_PER_OFDM_SYMBOL
<1>. QED  BY <1>7, <1>8, <1>9

-----------------------------------------------------------------------------
(* The SIG field.                                                          *)

\* A register of the CRC holds four bits.
Binary == {0, 1}
Registers == {<<p, q, r, s>> : p \in Binary, q \in Binary, r \in Binary, s \in Binary}

\* Adding a bit keeps bits apart.
LEMMA XorIs ==
    /\ \A a \in Binary, b \in Binary : Xor(a, b) \in Binary
    /\ \A a \in Binary, b \in Binary, c \in Binary : Xor(a, c) = Xor(b, c) => a = b
    /\ \A a \in Binary, b \in Binary, c \in Binary : Xor(c, a) = Xor(c, b) => a = b
BY DEF Xor, Binary

\* A step shifts the register, and adds what leaves it in two places.
LEMMA StepIs ==
    ASSUME NEW p \in Binary, NEW q \in Binary, NEW r \in Binary, NEW s \in Binary,
           NEW bit \in Binary
    PROVE  \E out \in Binary :
             /\ out = Xor(p, bit) /\ Xor(s, out) \in Binary
             /\ CrcStep(<<p, q, r, s>>, bit) = <<q, r, Xor(s, out), out>>
<1>1. PICK out \in Binary : out = Xor(p, bit)
  BY XorIs
<1>2. CrcStep(<<p, q, r, s>>, bit) = <<q, r, Xor(s, out), out>>
  <2>1. PICK reg : reg = <<p, q, r, s>>
    OBVIOUS
  <2>2. reg[1] = p /\ reg[2] = q /\ reg[3] = r /\ reg[4] = s
    BY <2>1
  <2>3. CrcStep(reg, bit)
          = <<reg[2], reg[3], Xor(reg[4], Xor(reg[1], bit)), Xor(reg[1], bit)>>
    BY DEF CrcStep
  <2>. QED  BY <1>1, <2>1, <2>2, <2>3
<1>. QED  BY <1>1, <1>2, XorIs

\* It keeps different registers different.
LEMMA StepKeeps ==
    ASSUME NEW R \in Registers, NEW Q \in Registers, NEW bit \in Binary
    PROVE  /\ CrcStep(R, bit) \in Registers
           /\ CrcStep(R, bit) = CrcStep(Q, bit) => R = Q
<1>1. PICK p \in Binary, q \in Binary, r \in Binary, s \in Binary : R = <<p, q, r, s>>
  BY DEF Registers
<1>2. PICK t \in Binary, u \in Binary, v \in Binary, w \in Binary : Q = <<t, u, v, w>>
  BY DEF Registers
<1>3. PICK out \in Binary :
        /\ out = Xor(p, bit) /\ Xor(s, out) \in Binary
        /\ CrcStep(R, bit) = <<q, r, Xor(s, out), out>>
  BY <1>1, StepIs
<1>4. PICK other \in Binary :
        /\ other = Xor(t, bit) /\ Xor(w, other) \in Binary
        /\ CrcStep(Q, bit) = <<u, v, Xor(w, other), other>>
  BY <1>2, StepIs
<1>5. CrcStep(R, bit) \in Registers
  BY <1>3 DEF Registers
<1>6. ASSUME CrcStep(R, bit) = CrcStep(Q, bit)
      PROVE  R = Q
  <2>1. q = u /\ r = v /\ out = other /\ Xor(s, out) = Xor(w, other)
    BY <1>3, <1>4, <1>6
  <2>2. p = t
    <3>1. Xor(p, bit) = Xor(t, bit)
      BY <1>3, <1>4, <2>1
    <3>. QED  BY <3>1, XorIs
  <2>3. s = w
    BY <2>1, XorIs, Zenon
  <2>. QED  BY <1>1, <1>2, <2>1, <2>2, <2>3
<1>. QED  BY <1>5, <1>6

\* R holds the registers of up to four steps from reg.
Steps(R, reg, a, b, c, d) ==
    /\ reg \in Registers
    /\ a \in Binary /\ b \in Binary /\ c \in Binary /\ d \in Binary
    /\ R[1] = CrcStep(reg, a) /\ R[2] = CrcStep(R[1], b)
    /\ R[3] = CrcStep(R[2], c) /\ R[4] = CrcStep(R[3], d)

\* Any register takes them.
LEMMA StepsTaken ==
    ASSUME NEW reg \in Registers,
           NEW a \in Binary, NEW b \in Binary, NEW c \in Binary, NEW d \in Binary
    PROVE  \E R : Steps(R, reg, a, b, c, d)
<1>1. PICK R1, R2, R3, R4 :
        /\ R1 = CrcStep(reg, a) /\ R2 = CrcStep(R1, b)
        /\ R3 = CrcStep(R2, c) /\ R4 = CrcStep(R3, d)
  BY Zenon
<1>2. Steps(<<R1, R2, R3, R4>>, reg, a, b, c, d)
  BY <1>1 DEF Steps
<1>. QED  BY <1>2

\* What leaves the register in up to four steps from it, and where it is added.
LEMMA BurstIs ==
    ASSUME NEW p, NEW q, NEW r, NEW s, NEW a, NEW b, NEW c, NEW d,
           NEW R, Steps(R, <<p, q, r, s>>, a, b, c, d)
    PROVE  \E o1 \in Binary, o2 \in Binary, o3 \in Binary, o4 \in Binary :
             /\ o1 = Xor(p, a)
             /\ R[1] = <<q, r, Xor(s, o1), o1>>
             /\ R[2] = <<r, Xor(s, o1), Xor(o1, o2), o2>>
             /\ R[3] = <<Xor(s, o1), Xor(o1, o2), Xor(o2, o3), o3>>
             /\ R[4] = <<Xor(o1, o2), Xor(o2, o3), Xor(o3, o4), o4>>
<1>. /\ p \in Binary /\ q \in Binary /\ r \in Binary /\ s \in Binary
     /\ a \in Binary /\ b \in Binary /\ c \in Binary /\ d \in Binary
  <2>1. PICK t \in Binary, u \in Binary, v \in Binary, w \in Binary :
          <<p, q, r, s>> = <<t, u, v, w>>
    BY DEF Steps, Registers
  <2>. QED  BY <2>1 DEF Steps
<1>1. PICK o1 \in Binary : /\ o1 = Xor(p, a) /\ Xor(s, o1) \in Binary
                         /\ R[1] = <<q, r, Xor(s, o1), o1>>
  BY StepIs DEF Steps
<1>2. PICK o2 \in Binary : /\ Xor(o1, o2) \in Binary
                         /\ R[2] = <<r, Xor(s, o1), Xor(o1, o2), o2>>
  BY <1>1, StepIs DEF Steps
<1>3. PICK o3 \in Binary : /\ Xor(o2, o3) \in Binary
                         /\ R[3] = <<Xor(s, o1), Xor(o1, o2), Xor(o2, o3), o3>>
  <2>1. R[3] = CrcStep(<<r, Xor(s, o1), Xor(o1, o2), o2>>, c)
    BY <1>2 DEF Steps
  <2>. QED  BY <1>1, <1>2, <2>1, StepIs
<1>4. PICK o4 \in Binary : R[4] = <<Xor(o1, o2), Xor(o2, o3), Xor(o3, o4), o4>>
  <2>1. R[4] = CrcStep(<<Xor(s, o1), Xor(o1, o2), Xor(o2, o3), o3>>, d)
    BY <1>3 DEF Steps
  <2>. QED  BY <1>1, <1>2, <1>3, <2>1, StepIs
<1>. QED  BY <1>1, <1>2, <1>3, <1>4

\* A wrong first bit shows in the last places of the register, as many as steps.
LEMMA BurstShows ==
    ASSUME NEW reg, NEW a, NEW b, NEW c, NEW d, NEW e, NEW f, NEW g, NEW h, a # e,
           NEW R, Steps(R, reg, a, b, c, d), NEW Q, Steps(Q, reg, e, f, g, h)
    PROVE  /\ R[1][4] # Q[1][4]
           /\ R[2][3] # Q[2][3] \/ R[2][4] # Q[2][4]
           /\ R[3][2] # Q[3][2] \/ R[3][3] # Q[3][3] \/ R[3][4] # Q[3][4]
           /\ R[4] # Q[4]
<1>1. PICK p \in Binary, q \in Binary, r \in Binary, s \in Binary : reg = <<p, q, r, s>>
  BY DEF Steps, Registers
<1>2. PICK o1 \in Binary, o2 \in Binary, o3 \in Binary, o4 \in Binary :
        /\ o1 = Xor(p, a)
        /\ R[1] = <<q, r, Xor(s, o1), o1>>
        /\ R[2] = <<r, Xor(s, o1), Xor(o1, o2), o2>>
        /\ R[3] = <<Xor(s, o1), Xor(o1, o2), Xor(o2, o3), o3>>
        /\ R[4] = <<Xor(o1, o2), Xor(o2, o3), Xor(o3, o4), o4>>
  <2>1. Steps(R, <<p, q, r, s>>, a, b, c, d)
    BY <1>1
  <2>. QED  BY <2>1, BurstIs
<1>3. PICK u1 \in Binary, u2 \in Binary, u3 \in Binary, u4 \in Binary :
        /\ u1 = Xor(p, e)
        /\ Q[1] = <<q, r, Xor(s, u1), u1>>
        /\ Q[2] = <<r, Xor(s, u1), Xor(u1, u2), u2>>
        /\ Q[3] = <<Xor(s, u1), Xor(u1, u2), Xor(u2, u3), u3>>
        /\ Q[4] = <<Xor(u1, u2), Xor(u2, u3), Xor(u3, u4), u4>>
  <2>1. Steps(Q, <<p, q, r, s>>, e, f, g, h)
    BY <1>1
  <2>. QED  BY <2>1, BurstIs
<1>4. o1 # u1
  <2>1. a \in Binary /\ e \in Binary
    BY DEF Steps
  <2>. QED  BY <1>2, <1>3, <2>1, XorIs
<1>5. /\ o2 = u2 => Xor(o1, o2) # Xor(u1, u2)
      /\ o3 = u3 /\ Xor(o2, o3) = Xor(u2, u3) => o2 = u2
      /\ o4 = u4 /\ Xor(o3, o4) = Xor(u3, u4) => o3 = u3
  BY <1>4, XorIs
<1>6. R[1][4] # Q[1][4]
  BY <1>2, <1>3, <1>4
<1>7. R[2][3] # Q[2][3] \/ R[2][4] # Q[2][4]
  BY <1>2, <1>3, <1>5
<1>8. R[3][2] # Q[3][2] \/ R[3][3] # Q[3][3] \/ R[3][4] # Q[3][4]
  BY <1>2, <1>3, <1>5
<1>9. R[4] # Q[4]
  BY <1>2, <1>3, <1>5
<1>. QED  BY <1>6, <1>7, <1>8, <1>9

\* The registers of four steps from reg.
Goes(S, reg, in, from) ==
    /\ S \in [0..4 -> Registers]
    /\ S[0] = reg /\ S[4] = CrcHalf(reg, in, from)
    /\ \A k \in 0..3 : S[k + 1] = CrcStep(S[k], in[from + k])

\* There are such registers.
LEMMA HalfIs ==
    ASSUME NEW reg \in Registers, NEW in, NEW from \in Nat,
           \A k \in 0..3 : in[from + k] \in Binary
    PROVE  \E S : Goes(S, reg, in, from)
<1>1. PICK a \in Binary, b \in Binary, c \in Binary, d \in Binary :
        a = in[from] /\ b = in[from + 1] /\ c = in[from + 2] /\ d = in[from + 3]
  <2>1. from + 0 = from
    OBVIOUS
  <2>2. /\ in[from + 0] \in Binary /\ in[from + 1] \in Binary
        /\ in[from + 2] \in Binary /\ in[from + 3] \in Binary
    OBVIOUS
  <2>. QED  BY <2>1, <2>2, Zenon
<1>2. PICK R1 \in Registers, R2 \in Registers, R3 \in Registers, R4 \in Registers :
        /\ R1 = CrcStep(reg, a) /\ R2 = CrcStep(R1, b)
        /\ R3 = CrcStep(R2, c) /\ R4 = CrcStep(R3, d)
  BY StepKeeps, Zenon
<1>3. CrcHalf(reg, in, from) = R4
  BY <1>1, <1>2, Zenon DEF CrcHalf
<1>. DEFINE S == [k \in 0..4 |-> IF k = 0 THEN reg ELSE IF k = 1 THEN R1
                                 ELSE IF k = 2 THEN R2 ELSE IF k = 3 THEN R3 ELSE R4]
<1>4. /\ S \in [0..4 -> Registers]
      /\ S[0] = reg /\ S[1] = R1 /\ S[2] = R2 /\ S[3] = R3 /\ S[4] = R4
  OBVIOUS
<1>. HIDE DEF S
<1>5. ASSUME NEW k \in 0..3
      PROVE  S[k + 1] = CrcStep(S[k], in[from + k])
  <2>1. CASE k = 0
    BY <1>1, <1>2, <1>4, <2>1
  <2>2. CASE k = 1
    BY <1>1, <1>2, <1>4, <2>2
  <2>3. CASE k = 2
    BY <1>1, <1>2, <1>4, <2>3
  <2>4. CASE k = 3
    BY <1>1, <1>2, <1>4, <2>4
  <2>. QED  BY <2>1, <2>2, <2>3, <2>4
<1>. QED  BY <1>3, <1>4, <1>5 DEF Goes

\* The registers of the 32 steps: the CRC is the last, inverted.
IsRun(R, in) ==
    /\ R \in [0..32 -> Registers]
    /\ R[0] = <<0, 0, 0, 0>>
    /\ \A k \in 0..31 : R[k + 1] = CrcStep(R[k], in[k])

\* The registers of four bytes.
LEMMA RunExists ==
    ASSUME NEW in, \A k \in 0..31 : in[k] \in Binary
    PROVE  \E R : IsRun(R, in) /\ crc4HaLoW_byte(in) = [k \in 1..4 |-> 1 - R[32][k]]
<1>1. ASSUME NEW reg \in Registers, NEW q \in 0..7
      PROVE  \E S : Goes(S, reg, in, 4 * q) /\ S[4] \in Registers
  <2>1. 4 * q \in Nat /\ \A k \in 0..3 : 4 * q + k \in 0..31
    OBVIOUS
  <2>2. PICK from \in Nat : from = 4 * q
    BY <2>1
  <2>3. \A k \in 0..3 : in[from + k] \in Binary
    BY <2>1, <2>2
  <2>4. PICK S : Goes(S, reg, in, from)
    BY <2>3, HalfIs
  <2>. QED  BY <2>2, <2>4 DEF Goes
<1>2. <<0, 0, 0, 0>> \in Registers
  BY DEF Registers, Binary
<1>3. PICK S0 : Goes(S0, <<0, 0, 0, 0>>, in, 0) /\ S0[4] \in Registers
  BY <1>1, <1>2
<1>4. PICK S1 : Goes(S1, S0[4], in, 4) /\ S1[4] \in Registers
  BY <1>1, <1>3
<1>5. PICK S2 : Goes(S2, S1[4], in, 8) /\ S2[4] \in Registers
  BY <1>1, <1>4
<1>6. PICK S3 : Goes(S3, S2[4], in, 12) /\ S3[4] \in Registers
  BY <1>1, <1>5
<1>7. PICK S4 : Goes(S4, S3[4], in, 16) /\ S4[4] \in Registers
  BY <1>1, <1>6
<1>8. PICK S5 : Goes(S5, S4[4], in, 20) /\ S5[4] \in Registers
  BY <1>1, <1>7
<1>9. PICK S6 : Goes(S6, S5[4], in, 24) /\ S6[4] \in Registers
  BY <1>1, <1>8
<1>10. PICK S7 : Goes(S7, S6[4], in, 28) /\ S7[4] \in Registers
  BY <1>1, <1>9
<1>. DEFINE half(q) == CASE q = 0 -> S0 [] q = 1 -> S1 [] q = 2 -> S2 [] q = 3 -> S3
                         [] q = 4 -> S4 [] q = 5 -> S5 [] q = 6 -> S6 [] q = 7 -> S7
<1>11. /\ half(0) = S0 /\ half(1) = S1 /\ half(2) = S2 /\ half(3) = S3
       /\ half(4) = S4 /\ half(5) = S5 /\ half(6) = S6 /\ half(7) = S7
  OBVIOUS
<1>. HIDE DEF half
<1>12. ASSUME NEW q \in 0..7
       PROVE  /\ Goes(half(q), half(q)[0], in, 4 * q)
              /\ q = 0 => half(q)[0] = <<0, 0, 0, 0>>
              /\ q < 7 => half(q + 1)[0] = half(q)[4]
  <2>1. /\ S0[0] = <<0, 0, 0, 0>> /\ S1[0] = S0[4] /\ S2[0] = S1[4] /\ S3[0] = S2[4]
        /\ S4[0] = S3[4] /\ S5[0] = S4[4] /\ S6[0] = S5[4] /\ S7[0] = S6[4]
    BY <1>3, <1>4, <1>5, <1>6, <1>7, <1>8, <1>9, <1>10, Zenon DEF Goes
  <2>. QED  BY <1>3, <1>4, <1>5, <1>6, <1>7, <1>8, <1>9, <1>10, <1>11, <2>1
<1>. DEFINE R == [k \in 0..32 |-> IF k = 32 THEN half(7)[4] ELSE half(k \div 4)[k % 4]]
<1>13. \A k \in 0..31 : /\ k \div 4 \in 0..7 /\ k % 4 \in 0..3
                         /\ 4 * (k \div 4) + (k % 4) = k
  OBVIOUS
<1>14. R \in [0..32 -> Registers]
  <2>1. \A q \in 0..7 : half(q) \in [0..4 -> Registers]
    BY <1>12 DEF Goes
  <2>. QED  BY <1>13, <2>1
<1>15. R[0] = <<0, 0, 0, 0>> /\ R[32] = S7[4]
  <2>1. 0 \div 4 = 0 /\ 0 % 4 = 0
    OBVIOUS
  <2>. QED  BY <1>11, <1>12, <2>1
<1>16. ASSUME NEW k \in 0..31
       PROVE  R[k + 1] = CrcStep(R[k], in[k])
  <2>1. PICK q \in 0..7, i \in 0..3 : q = k \div 4 /\ i = k % 4 /\ k = 4 * q + i
    BY <1>13
  <2>2. R[k] = half(q)[i]
    BY <2>1
  <2>3. half(q)[i + 1] = CrcStep(half(q)[i], in[k])
    BY <1>12, <2>1 DEF Goes
  <2>4. R[k + 1] = half(q)[i + 1]
    <3>1. CASE i < 3
      <4>1. (k + 1) \div 4 = q /\ (k + 1) % 4 = i + 1 /\ k + 1 \in 0..31
        BY <2>1, <3>1
      <4>. QED  BY <4>1
    <3>2. CASE i = 3 /\ q = 7
      <4>1. k + 1 = 32
        BY <2>1, <3>2
      <4>. QED  BY <3>2, <4>1
    <3>3. CASE i = 3 /\ q < 7
      <4>1. (k + 1) \div 4 = q + 1 /\ (k + 1) % 4 = 0 /\ k + 1 \in 0..31
        BY <2>1, <3>3
      <4>2. half(q + 1)[0] = half(q)[4]
        BY <1>12, <3>3
      <4>. QED  BY <3>3, <4>1, <4>2
    <3>. QED  BY <3>1, <3>2, <3>3
  <2>. QED  BY <2>2, <2>3, <2>4
<1>17. crc4HaLoW_byte(in) = [k \in 1..4 |-> 1 - S7[4][k]]
  <2>1. /\ S0[4] = CrcHalf(<<0, 0, 0, 0>>, in, 0) /\ S1[4] = CrcHalf(S0[4], in, 4)
        /\ S2[4] = CrcHalf(S1[4], in, 8) /\ S3[4] = CrcHalf(S2[4], in, 12)
        /\ S4[4] = CrcHalf(S3[4], in, 16) /\ S5[4] = CrcHalf(S4[4], in, 20)
        /\ S6[4] = CrcHalf(S5[4], in, 24) /\ S7[4] = CrcHalf(S6[4], in, 28)
    BY <1>3, <1>4, <1>5, <1>6, <1>7, <1>8, <1>9, <1>10, Zenon DEF Goes
  <2>2. /\ CrcByte(<<0, 0, 0, 0>>, in, 0) = S1[4] /\ CrcByte(S1[4], in, 8) = S3[4]
        /\ CrcByte(S3[4], in, 16) = S5[4] /\ CrcByte(S5[4], in, 24) = S7[4]
    <3>1. 0 + 4 = 4 /\ 8 + 4 = 12 /\ 16 + 4 = 20 /\ 24 + 4 = 28
      OBVIOUS
    <3>. QED  BY <2>1, <3>1 DEF CrcByte
  <2>. QED  BY <2>2, Zenon DEF crc4HaLoW_byte
<1>. HIDE DEF R
<1>. QED  BY <1>14, <1>15, <1>16, <1>17 DEF IsRun

\* What a step keeps, any number of steps does.
LEMMA Climb ==
    ASSUME NEW S, NEW from \in 0..32, NEW to \in from..32, from \in S,
           \A k \in from..(to - 1) : k \in S => k + 1 \in S
    PROVE  to \in S
<1>. DEFINE Upto(n) == \A k \in from..to : k <= n => k \in S
<1>1. Upto(0)
  OBVIOUS
<1>2. \A n \in 0..32 : Upto(n) => Upto(n + 1)
  <2>1. ASSUME NEW n \in 0..32, Upto(n), NEW k \in from..to, k <= n + 1
        PROVE  k \in S
    <3>1. CASE k <= n \/ k = from
      BY <2>1, <3>1
    <3>2. CASE k = n + 1 /\ k # from
      <4>1. n \in from..(to - 1) /\ n \in S
        BY <2>1, <3>2
      <4>. QED  BY <3>2, <4>1
    <3>. QED  BY <2>1, <3>1, <3>2
  <2>. QED  BY <2>1
<1>. HIDE DEF Upto
<1>3. Upto(11)
  BY <1>1, <1>2
<1>4. Upto(22)
  BY <1>2, <1>3
<1>5. Upto(33)
  BY <1>2, <1>4
<1>. QED  BY <1>5 DEF Upto

\* Runs over the same bits agree.
LEMMA RunsAgree ==
    ASSUME NEW R, NEW Q, NEW in, NEW other, IsRun(R, in), IsRun(Q, other),
           NEW m \in 0..32, \A k \in 0..(m - 1) : in[k] = other[k]
    PROVE  R[m] = Q[m]
<1>. DEFINE S == {k \in 0..32 : R[k] = Q[k]}
<1>1. 0 \in S
  BY DEF IsRun
<1>2. ASSUME NEW k \in 0..(m - 1), k \in S
      PROVE  k + 1 \in S
  BY <1>2, SMTT(40) DEF IsRun
<1>3. m \in S
  <2>. HIDE DEF S
  <2>. QED  BY <1>1, <1>2, Climb
<1>. QED  BY <1>3

\* Runs that differ do so over the same bits.
LEMMA RunsDiffer ==
    ASSUME NEW R, NEW Q, NEW in, NEW other, IsRun(R, in), IsRun(Q, other),
           \A k \in 0..31 : in[k] \in Binary,
           NEW m \in 0..32, R[m] # Q[m], \A k \in m..31 : in[k] = other[k]
    PROVE  R[32] # Q[32]
<1>. DEFINE S == {k \in 0..32 : R[k] # Q[k]}
<1>1. m \in S
  OBVIOUS
<1>2. ASSUME NEW k \in m..(32 - 1), k \in S
      PROVE  k + 1 \in S
  <2>1. k \in 0..31 /\ k + 1 \in 0..32 /\ R[k] # Q[k] /\ in[k] = other[k]
    BY <1>2
  <2>2. /\ R[k] \in Registers /\ Q[k] \in Registers /\ in[k] \in Binary
        /\ R[k + 1] = CrcStep(R[k], in[k]) /\ Q[k + 1] = CrcStep(Q[k], in[k])
    BY <2>1, SMTT(40) DEF IsRun
  <2>. QED  BY <2>1, <2>2, StepKeeps
<1>3. 32 \in S
  <2>. HIDE DEF S
  <2>. QED  BY <1>1, <1>2, Climb
<1>. QED  BY <1>3

\* After a burst of up to four wrong bits the registers differ; in how many
\* places depends on how many steps are left.
LEMMA BurstStays ==
    ASSUME NEW R, NEW Q, NEW in, NEW other, IsRun(R, in), IsRun(Q, other),
           \A k \in 0..31 : in[k] \in Binary /\ other[k] \in Binary,
           NEW m \in 0..31, in[m] # other[m],
           \A k \in 0..31 : k < m \/ k > m + 3 => in[k] = other[k]
    PROVE  /\ m <= 28 => R[32] # Q[32]
           /\ m = 29 => R[32][2] # Q[32][2] \/ R[32][3] # Q[32][3] \/ R[32][4] # Q[32][4]
           /\ m = 30 => R[32][3] # Q[32][3] \/ R[32][4] # Q[32][4]
           /\ m = 31 => R[32][4] # Q[32][4]
<1>1. R[m] = Q[m] /\ R[m] \in Registers
  <2>1. \A k \in 0..(m - 1) : in[k] = other[k]
    OBVIOUS
  <2>2. R[m] = Q[m]
    <3>1. m \in 0..32
      OBVIOUS
    <3>. QED  BY <2>1, <3>1, RunsAgree
  <2>3. R[m] \in Registers
    BY DEF IsRun
  <2>. QED  BY <2>2, <2>3
<1>2. PICK a \in Binary, e \in Binary : a = in[m] /\ e = other[m] /\ a # e
  OBVIOUS
<1>. DEFINE Read(b, f, k) == m < 32 - k => b = in[m + k] /\ f = other[m + k]
<1>3. \A k \in 1..3 : \E b \in Binary, f \in Binary : Read(b, f, k)
  <2>1. 0 \in Binary
    BY DEF Binary
  <2>2. \A k \in 1..3 : m < 32 - k => in[m + k] \in Binary /\ other[m + k] \in Binary
    OBVIOUS
  <2>. QED  BY <2>1, <2>2
<1>4. PICK b \in Binary, f \in Binary : Read(b, f, 1)
  BY <1>3
<1>5. PICK c \in Binary, g \in Binary : Read(c, g, 2)
  BY <1>3
<1>6. PICK d \in Binary, h \in Binary : Read(d, h, 3)
  BY <1>3
<1>7. PICK T, U : Steps(T, R[m], a, b, c, d) /\ Steps(U, R[m], e, f, g, h)
  BY <1>1, StepsTaken
<1>8. /\ T[1][4] # U[1][4]
      /\ T[2][3] # U[2][3] \/ T[2][4] # U[2][4]
      /\ T[3][2] # U[3][2] \/ T[3][3] # U[3][3] \/ T[3][4] # U[3][4]
      /\ T[4] # U[4]
  <2>1. PICK reg \in Registers : reg = R[m]
    BY <1>1
  <2>2. Steps(T, reg, a, b, c, d) /\ Steps(U, reg, e, f, g, h)
    BY <1>7, <2>1
  <2>. QED  BY <1>2, <2>2, BurstShows
<1>9. T[1] = R[m + 1] /\ U[1] = Q[m + 1]
  BY <1>1, <1>2, <1>7 DEF IsRun, Steps
<1>10. m < 31 => T[2] = R[m + 2] /\ U[2] = Q[m + 2]
  <2>1. m < 31 => m + 1 \in 0..31 /\ (m + 1) + 1 = m + 2
    OBVIOUS
  <2>. QED  BY <1>4, <1>7, <1>9, <2>1 DEF IsRun, Steps
<1>11. m < 30 => T[3] = R[m + 3] /\ U[3] = Q[m + 3]
  <2>1. m < 30 => m + 2 \in 0..31 /\ (m + 2) + 1 = m + 3
    OBVIOUS
  <2>. QED  BY <1>5, <1>7, <1>10, <2>1 DEF IsRun, Steps
<1>12. m < 29 => T[4] = R[m + 4] /\ U[4] = Q[m + 4]
  <2>1. m < 29 => m + 3 \in 0..31 /\ (m + 3) + 1 = m + 4
    OBVIOUS
  <2>. QED  BY <1>6, <1>7, <1>11, <2>1 DEF IsRun, Steps
<1>13. m <= 28 => R[32] # Q[32]
  <2>1. ASSUME m <= 28
        PROVE  R[32] # Q[32]
    <3>1. PICK k \in 0..32 : k = m + 4
      BY <2>1
    <3>2. R[k] # Q[k] /\ \A i \in k..31 : in[i] = other[i]
      BY <1>8, <1>12, <2>1, <3>1
    <3>. QED  BY <3>2, RunsDiffer
  <2>. QED  BY <2>1
<1>14. /\ m = 29 => T[3] = R[32] /\ U[3] = Q[32]
       /\ m = 30 => T[2] = R[32] /\ U[2] = Q[32]
       /\ m = 31 => T[1] = R[32] /\ U[1] = Q[32]
  BY <1>9, <1>10, <1>11
<1>. QED  BY <1>8, <1>13, <1>14

\* The bits that compute_crc takes into the register.
SigInput(bits) ==
    Buffer(32, LAMBDA i :
      IF i < 6 THEN 0 ELSE IF i < 10 THEN 1 - bits[i - 6] ELSE bits[i - 6])

\* They are one bit each of the 26 before the CRC.
LEMMA SigInputIs ==
    ASSUME NEW bits, \A i \in 0..25 : bits[i] \in Binary
    PROVE  /\ \A k \in 0..31 : SigInput(bits)[k] \in Binary
           /\ \A k \in 0..5 : SigInput(bits)[k] = 0
           /\ \A i \in 0..25 :
                SigInput(bits)[i + 6] = IF i < 4 THEN 1 - bits[i] ELSE bits[i]
           /\ compute_crc(bits) = crc4HaLoW_byte(SigInput(bits))
<1>1. \A k \in 0..31 : SigInput(bits)[k] = IF k < 6 THEN 0 ELSE IF k < 10
                                           THEN 1 - bits[k - 6] ELSE bits[k - 6]
  BY DEF SigInput, Buffer
<1>2. \A k \in 0..5 : SigInput(bits)[k] = 0
  BY <1>1
<1>3. \A i \in 0..25 : SigInput(bits)[i + 6] = IF i < 4 THEN 1 - bits[i] ELSE bits[i]
  <2>1. \A i \in 0..25 : /\ i + 6 \in 0..31 /\ ~(i + 6 < 6) /\ (i + 6) - 6 = i
                         /\ (i + 6 < 10 <=> i < 4)
    OBVIOUS
  <2>. QED  BY <1>1, <2>1
<1>4. \A k \in 0..31 : SigInput(bits)[k] \in Binary
  <2>1. \A i \in 0..25 : SigInput(bits)[i + 6] \in Binary
    BY <1>3 DEF Binary
  <2>2. \A k \in 6..31 : k - 6 \in 0..25 /\ (k - 6) + 6 = k
    OBVIOUS
  <2>3. \A k \in 6..31 : SigInput(bits)[k] \in Binary
    BY <2>1, <2>2
  <2>4. \A k \in 0..5 : SigInput(bits)[k] \in Binary
    BY <1>2 DEF Binary
  <2>. QED  BY <2>3, <2>4
<1>5. compute_crc(bits) = crc4HaLoW_byte(SigInput(bits))
  BY DEF compute_crc, SigInput
<1>. QED  BY <1>2, <1>3, <1>4, <1>5

\* Bits that agree have the same CRC.
LEMMA CrcAgrees ==
    ASSUME NEW bits, NEW other, \A i \in 0..25 : bits[i] = other[i]
    PROVE  compute_crc(bits) = compute_crc(other)
<1>1. SigInput(bits) = SigInput(other)
  <2>1. ASSUME NEW k \in 0..31
        PROVE  (IF k < 6 THEN 0 ELSE IF k < 10 THEN 1 - bits[k - 6] ELSE bits[k - 6])
                 = IF k < 6 THEN 0 ELSE IF k < 10 THEN 1 - other[k - 6] ELSE other[k - 6]
    <3>1. CASE k < 6
      BY <3>1
    <3>2. CASE k >= 6
      <4>1. k - 6 \in 0..25
        BY <3>2
      <4>2. bits[k - 6] = other[k - 6]
        BY <4>1
      <4>. QED  BY <4>2
    <3>. QED  BY <3>1, <3>2
  <2>. QED  BY <2>1 DEF SigInput, Buffer
<1>. QED  BY <1>1 DEF compute_crc, SigInput

\* A burst of wrong bits that begins before the CRC: what is read there is not
\* the CRC of what is read before it.
LEMMA BurstFound ==
    ASSUME NEW bits, NEW read, NEW first \in 0..29,
           \A i \in 0..29 : bits[i] \in Binary /\ read[i] \in Binary,
           read[first] # bits[first],
           \A i \in 0..29 : i < first \/ i > first + 3 => read[i] = bits[i],
           [k \in 1..4 |-> bits[25 + k]] = compute_crc(bits)
    PROVE  [k \in 1..4 |-> read[25 + k]] # compute_crc(read)
<1>. SUFFICES ASSUME [k \in 1..4 |-> read[25 + k]] = compute_crc(read)
              PROVE  FALSE
  OBVIOUS
<1>1. /\ compute_crc(bits)[1] = bits[26] /\ compute_crc(bits)[2] = bits[27]
      /\ compute_crc(bits)[3] = bits[28] /\ compute_crc(bits)[4] = bits[29]
      /\ compute_crc(read)[1] = read[26] /\ compute_crc(read)[2] = read[27]
      /\ compute_crc(read)[3] = read[28] /\ compute_crc(read)[4] = read[29]
  <2>1. /\ \A k \in 1..4 : compute_crc(bits)[k] = bits[25 + k]
        /\ \A k \in 1..4 : compute_crc(read)[k] = read[25 + k]
    <3>1. \A k \in 1..4 : [j \in 1..4 |-> bits[25 + j]][k] = bits[25 + k]
      OBVIOUS
    <3>2. \A k \in 1..4 : [j \in 1..4 |-> read[25 + j]][k] = read[25 + k]
      OBVIOUS
    <3>. QED  BY <3>1, <3>2
  <2>2. 25 + 1 = 26 /\ 25 + 2 = 27 /\ 25 + 3 = 28 /\ 25 + 4 = 29
    OBVIOUS
  <2>. QED  BY <2>1, <2>2
<1>2. CASE first >= 26
  <2>1. compute_crc(read) = compute_crc(bits)
    <3>1. \A i \in 0..25 : read[i] = bits[i]
      BY <1>2
    <3>. QED  BY <3>1, CrcAgrees
  <2>2. first = 26 \/ first = 27 \/ first = 28 \/ first = 29
    BY <1>2
  <2>. QED  BY <1>1, <2>1, <2>2
<1>3. CASE first <= 25
  <2>1. \A i \in 0..25 : bits[i] \in Binary /\ read[i] \in Binary
    OBVIOUS
  <2>2. PICK in, other : in = SigInput(bits) /\ other = SigInput(read)
    OBVIOUS
  <2>3. /\ \A k \in 0..31 : in[k] \in Binary /\ other[k] \in Binary
        /\ \A k \in 0..5 : in[k] = other[k]
        /\ \A i \in 0..25 : in[i + 6] = IF i < 4 THEN 1 - bits[i] ELSE bits[i]
        /\ \A i \in 0..25 : other[i + 6] = IF i < 4 THEN 1 - read[i] ELSE read[i]
        /\ compute_crc(bits) = crc4HaLoW_byte(in)
        /\ compute_crc(read) = crc4HaLoW_byte(other)
    BY <2>1, <2>2, SigInputIs
  <2>4. PICK R : IsRun(R, in) /\ crc4HaLoW_byte(in) = [k \in 1..4 |-> 1 - R[32][k]]
    BY <2>3, RunExists
  <2>5. PICK Q : IsRun(Q, other) /\ crc4HaLoW_byte(other) = [k \in 1..4 |-> 1 - Q[32][k]]
    BY <2>3, RunExists
  <2>6. PICK m \in 6..31 : m = first + 6
    BY <1>3
  <2>7. in[m] # other[m]
    <3>1. first \in 0..25 /\ bits[first] \in Binary /\ read[first] \in Binary
      BY <1>3
    <3>. QED  BY <2>3, <2>6, <3>1 DEF Binary
  <2>8. ASSUME NEW k \in 0..31, k < m \/ k > m + 3
        PROVE  in[k] = other[k]
    <3>1. CASE k < 6
      BY <2>3, <3>1
    <3>2. CASE k >= 6
      <4>1. PICK i \in 0..25 : k = i + 6
        BY <3>2
      <4>2. read[i] = bits[i]
        BY <2>6, <2>8, <4>1, SMTT(40)
      <4>. QED  BY <2>3, <4>1, <4>2
    <3>. QED  BY <3>1, <3>2
  <2>9. /\ m <= 28 => R[32] # Q[32]
        /\ m = 29 => R[32][2] # Q[32][2] \/ R[32][3] # Q[32][3] \/ R[32][4] # Q[32][4]
        /\ m = 30 => R[32][3] # Q[32][3] \/ R[32][4] # Q[32][4]
        /\ m = 31 => R[32][4] # Q[32][4]
    <3>1. m \in 0..31
      OBVIOUS
    <3>2. \A k \in 0..31 : in[k] \in Binary /\ other[k] \in Binary
      BY <2>3
    <3>3. \A k \in 0..31 : k < m \/ k > m + 3 => in[k] = other[k]
      BY <2>8
    <3>4. IsRun(R, in) /\ IsRun(Q, other)
      BY <2>4, <2>5
    <3>. QED  BY <2>7, <3>1, <3>2, <3>3, <3>4, BurstStays
  <2>10. PICK p \in Binary, q \in Binary, r \in Binary, s \in Binary :
           R[32] = <<p, q, r, s>>
    BY <2>4 DEF IsRun, Registers
  <2>11. PICK t \in Binary, u \in Binary, v \in Binary, w \in Binary :
           Q[32] = <<t, u, v, w>>
    BY <2>5 DEF IsRun, Registers
  <2>12. /\ bits[26] = 1 - p /\ bits[27] = 1 - q /\ bits[28] = 1 - r /\ bits[29] = 1 - s
         /\ read[26] = 1 - t /\ read[27] = 1 - u /\ read[28] = 1 - v /\ read[29] = 1 - w
    BY <1>1, <2>3, <2>4, <2>5, <2>10, <2>11
  <2>13. /\ m <= 28 => read[26] = bits[26]
         /\ m <= 29 => read[27] = bits[27]
         /\ m <= 30 => read[28] = bits[28]
         /\ m <= 31 => read[29] = bits[29]
    BY <2>6
  <2>14. /\ m <= 28 => p = t
         /\ m <= 29 => q = u
         /\ m <= 30 => r = v
         /\ m <= 31 => s = w
    BY <2>12, <2>13 DEF Binary
  <2>. QED  BY <2>6, <2>9, <2>10, <2>11, <2>14
<1>. QED  BY <1>2, <1>3

\* The CRC is four bits.
LEMMA CrcIsBits ==
    ASSUME NEW bits, \A i \in 0..25 : bits[i] \in Binary
    PROVE  compute_crc(bits) \in [1..4 -> Binary]
<1>1. PICK in : in = SigInput(bits)
  OBVIOUS
<1>2. (\A k \in 0..31 : in[k] \in Binary) /\ compute_crc(bits) = crc4HaLoW_byte(in)
  BY <1>1, SigInputIs
<1>3. PICK R : IsRun(R, in) /\ crc4HaLoW_byte(in) = [k \in 1..4 |-> 1 - R[32][k]]
  BY <1>2, RunExists
<1>4. PICK p \in Binary, q \in Binary, r \in Binary, s \in Binary : R[32] = <<p, q, r, s>>
  BY <1>3 DEF IsRun, Registers
<1>5. \A k \in 1..4 : 1 - R[32][k] \in Binary
  BY <1>4, SMTT(40) DEF Binary
<1>. QED  BY <1>2, <1>3, <1>5

\* A number is the sum of its bits.
LEMMA NineBits ==
    ASSUME NEW n \in 0..511
    PROVE  n = Bit(n, 0) + 2 * Bit(n, 1) + 4 * Bit(n, 2) + 8 * Bit(n, 3) + 16 * Bit(n, 4)
                 + 32 * Bit(n, 5) + 64 * Bit(n, 6) + 128 * Bit(n, 7) + 256 * Bit(n, 8)
<1>1. /\ Bit(n, 0) = n % 2 /\ Bit(n, 1) = (n \div 2) % 2 /\ Bit(n, 2) = (n \div 4) % 2
      /\ Bit(n, 3) = (n \div 8) % 2 /\ Bit(n, 4) = (n \div 16) % 2
      /\ Bit(n, 5) = (n \div 32) % 2 /\ Bit(n, 6) = (n \div 64) % 2
      /\ Bit(n, 7) = (n \div 128) % 2 /\ Bit(n, 8) = (n \div 256) % 2
  BY DEF Bit
<1>2. /\ n = 2 * (n \div 2) + (n % 2)
      /\ n \div 2 = 2 * (n \div 4) + ((n \div 2) % 2)
      /\ n \div 4 = 2 * (n \div 8) + ((n \div 4) % 2)
  OBVIOUS
<1>3. /\ n \div 8 = 2 * (n \div 16) + ((n \div 8) % 2)
      /\ n \div 16 = 2 * (n \div 32) + ((n \div 16) % 2)
      /\ n \div 32 = 2 * (n \div 64) + ((n \div 32) % 2)
  OBVIOUS
<1>4. /\ n \div 64 = 2 * (n \div 128) + ((n \div 64) % 2)
      /\ n \div 128 = 2 * (n \div 256) + ((n \div 128) % 2)
      /\ n \div 256 = (n \div 256) % 2
  OBVIOUS
<1>5. PICK n1 \in Nat, n2 \in Nat, n3 \in Nat, n4 \in Nat,
           n5 \in Nat, n6 \in Nat, n7 \in Nat, n8 \in Nat :
        /\ n1 = n \div 2 /\ n2 = n \div 4 /\ n3 = n \div 8 /\ n4 = n \div 16
        /\ n5 = n \div 32 /\ n6 = n \div 64 /\ n7 = n \div 128 /\ n8 = n \div 256
  OBVIOUS
<1>6. PICK b0 \in 0..1, b1 \in 0..1, b2 \in 0..1, b3 \in 0..1, b4 \in 0..1,
           b5 \in 0..1, b6 \in 0..1, b7 \in 0..1, b8 \in 0..1 :
        /\ b0 = Bit(n, 0) /\ b1 = Bit(n, 1) /\ b2 = Bit(n, 2)
        /\ b3 = Bit(n, 3) /\ b4 = Bit(n, 4) /\ b5 = Bit(n, 5)
        /\ b6 = Bit(n, 6) /\ b7 = Bit(n, 7) /\ b8 = Bit(n, 8)
  BY <1>1
<1>7. /\ n = 2 * n1 + b0 /\ n1 = 2 * n2 + b1 /\ n2 = 2 * n3 + b2 /\ n3 = 2 * n4 + b3
      /\ n4 = 2 * n5 + b4 /\ n5 = 2 * n6 + b5 /\ n6 = 2 * n7 + b6 /\ n7 = 2 * n8 + b7
      /\ n8 = b8
  BY <1>1, <1>2, <1>3, <1>4, <1>5, <1>6, ZenonT(60)
<1>8. n = b0 + 2 * b1 + 4 * b2 + 8 * b3 + 16 * b4 + 32 * b5 + 64 * b6
            + 128 * b7 + 256 * b8
  BY ONLY <1>7, n \in Nat, n1 \in Nat, n2 \in Nat, n3 \in Nat, n4 \in Nat, n5 \in Nat,
     n6 \in Nat, n7 \in Nat, n8 \in Nat, b0 \in 0..1, b1 \in 0..1, b2 \in 0..1,
     b3 \in 0..1, b4 \in 0..1, b5 \in 0..1, b6 \in 0..1, b7 \in 0..1, b8 \in 0..1
<1>. QED  BY <1>6, <1>8

\* A bit of a number.
LEMMA BitIs ==
    ASSUME NEW n \in Nat, NEW i \in Nat
    PROVE  Bit(n, i) \in Binary /\ Bit(n, i) \in 0..1
<1>1. Bit(n, i) \in 0..1
  BY DEF Bit
<1>. QED  BY <1>1 DEF Binary

\* The MCS of an encoding, which no other has.
LEMMA McsIs ==
    ASSUME NEW e \in Encodings
    PROVE  /\ McsOf[e] \in 0..15
           /\ \A other \in Encodings : McsOf[other] = McsOf[e] => other = e
BY DEF McsOf, Encodings

\* A SIG field as it is written.
IsHeader(header, e, size) ==
    e \in Encodings /\ size \in 0..511 /\ header = generate_signal_field(e, size)

\* It is bits, with their CRC.
LEMMA HeaderIs ==
    ASSUME NEW header, NEW e, NEW size, IsHeader(header, e, size)
    PROVE  /\ DOMAIN header = 0..35
           /\ \A i \in 0..29 : header[i] \in Binary
           /\ \A i \in 7..10 : header[i] = Bit(McsOf[e], i - 7)
           /\ \A i \in 12..20 : header[i] = Bit(size, i - 12)
           /\ [k \in 1..4 |-> header[25 + k]] = compute_crc(header)
<1>. DEFINE field(i) == IF i \in {4, 6} THEN 1
                        ELSE IF i \in 7..10 THEN Bit(McsOf[e], i - 7)
                        ELSE IF i \in 12..20 THEN Bit(size, i - 12) ELSE 0
<1>. e \in Encodings /\ size \in 0..511 /\ header = generate_signal_field(e, size)
  BY DEF IsHeader
<1>1. PICK fields : fields = [i \in 0..35 |-> field(i)]
  OBVIOUS
<1>2. header = [i \in 0..35 |-> IF i \in 26..29 THEN compute_crc(fields)[i - 25]
                                 ELSE fields[i]]
  BY <1>1 DEF generate_signal_field, Buffer, SIG_BITS
<1>. HIDE DEF field
<1>3. /\ \A i \in 7..10 : field(i) = Bit(McsOf[e], i - 7)
      /\ \A i \in 12..20 : field(i) = Bit(size, i - 12)
  BY DEF field
<1>4. \A i \in 0..35 : field(i) \in Binary
  <2>1. \A i \in 7..10 : field(i) \in Binary
    <3>1. McsOf[e] \in Nat /\ \A i \in 7..10 : i - 7 \in Nat
      BY McsIs
    <3>2. \A i \in 7..10 : Bit(McsOf[e], i - 7) \in Binary
      BY <3>1, BitIs
    <3>. QED  BY <1>3, <3>2
  <2>2. \A i \in 12..20 : field(i) \in Binary
    <3>1. size \in Nat /\ \A i \in 12..20 : i - 12 \in Nat
      OBVIOUS
    <3>2. \A i \in 12..20 : Bit(size, i - 12) \in Binary
      BY <3>1, BitIs
    <3>. QED  BY <1>3, <3>2
  <2>3. \A i \in 0..35 : i \notin 7..10 /\ i \notin 12..20 => field(i) \in {0, 1}
    BY DEF field
  <2>. QED  BY <2>1, <2>2, <2>3 DEF Binary
<1>5. \A i \in 0..25 : header[i] = field(i) /\ fields[i] = field(i)
  BY <1>1, <1>2
<1>6. \A k \in 1..4 : header[25 + k] = compute_crc(fields)[k]
  <2>1. \A k \in 1..4 : 25 + k \in 26..29 /\ 25 + k \in 0..35 /\ (25 + k) - 25 = k
    OBVIOUS
  <2>. QED  BY <1>2, <2>1
<1>7. compute_crc(header) = compute_crc(fields)
  BY <1>5, CrcAgrees
<1>8. compute_crc(header) \in [1..4 -> Binary]
  <2>1. \A i \in 0..25 : header[i] \in Binary
    BY <1>4, <1>5
  <2>. QED  BY <2>1, CrcIsBits
<1>9. [k \in 1..4 |-> header[25 + k]] = compute_crc(header)
  BY <1>6, <1>7, <1>8
<1>10. \A i \in 0..29 : header[i] \in Binary
  <2>1. \A i \in 26..29 : i - 25 \in 1..4 /\ 25 + (i - 25) = i
    OBVIOUS
  <2>2. \A i \in 26..29 : header[i] \in Binary
    BY <1>6, <1>7, <1>8, <2>1
  <2>3. \A i \in 0..25 : header[i] \in Binary
    BY <1>4, <1>5
  <2>. QED  BY <2>2, <2>3
<1>11. /\ \A i \in 7..10 : header[i] = Bit(McsOf[e], i - 7)
       /\ \A i \in 12..20 : header[i] = Bit(size, i - 12)
  BY <1>3, <1>5
<1>12. DOMAIN header = 0..35
  BY <1>2
<1>. QED  BY <1>9, <1>10, <1>11, <1>12

\* What is written is read as it was written.
LEMMA HeaderParsed ==
    ASSUME NEW header, NEW e, NEW size, IsHeader(header, e, size)
    PROVE  parse_signal(header) = [encoding |-> e, psdu_size |-> size]
<1>. e \in Encodings /\ size \in 0..511
  BY DEF IsHeader
<1>0. /\ \A i \in 7..10 : header[i] = Bit(McsOf[e], i - 7)
      /\ \A i \in 12..20 : header[i] = Bit(size, i - 12)
  BY HeaderIs
<1>1. Number(header, 7, 4) = McsOf[e]
  <2>1. PICK mcs \in 0..15 : mcs = McsOf[e]
    BY McsIs
  <2>2. ASSUME NEW k \in 0..3
        PROVE  header[7 + k] = Bit(mcs, k)
    <3>1. PICK i \in 7..10 : i = 7 + k /\ i - 7 = k
      OBVIOUS
    <3>2. header[i] = Bit(mcs, i - 7)
      BY <1>0, <2>1
    <3>. QED  BY <3>1, <3>2
  <2>3. \A k \in 0..3 : header[7 + k] \in 0..1
    BY <2>2, BitIs
  <2>4. Number(header, 7, 4)
          = header[7 + 0] + header[7 + 1] * 2 + header[7 + 2] * 4 + header[7 + 3] * 8
    BY <2>3 DEF Number
  <2>5. mcs = Bit(mcs, 0) + 2 * Bit(mcs, 1) + 4 * Bit(mcs, 2) + 8 * Bit(mcs, 3)
    <3>1. mcs \in 0..511
      OBVIOUS
    <3>2. Bit(mcs, 4) = 0 /\ Bit(mcs, 5) = 0 /\ Bit(mcs, 6) = 0
          /\ Bit(mcs, 7) = 0 /\ Bit(mcs, 8) = 0
      BY DEF Bit
    <3>3. /\ Bit(mcs, 0) \in 0..1 /\ Bit(mcs, 1) \in 0..1
          /\ Bit(mcs, 2) \in 0..1 /\ Bit(mcs, 3) \in 0..1
      BY BitIs, SMTT(40)
    <3>. QED  BY <3>1, <3>2, <3>3, NineBits
  <2>. QED  BY <2>1, <2>2, <2>3, <2>4, <2>5
<1>2. Number(header, 12, 9) = size
  <2>1. ASSUME NEW k \in 0..8
        PROVE  header[12 + k] = Bit(size, k)
    <3>1. PICK i \in 12..20 : i = 12 + k /\ i - 12 = k
      OBVIOUS
    <3>2. header[i] = Bit(size, i - 12)
      BY <1>0
    <3>. QED  BY <3>1, <3>2
  <2>2. \A k \in 0..8 : header[12 + k] \in 0..1
    BY <2>1, BitIs, SMTT(40)
  <2>3. Number(header, 12, 9)
          = header[12 + 0] + header[12 + 1] * 2 + header[12 + 2] * 4 + header[12 + 3] * 8
              + header[12 + 4] * 16 + header[12 + 5] * 32 + header[12 + 6] * 64
              + header[12 + 7] * 128 + header[12 + 8] * 256
    BY <2>2 DEF Number
  <2>4. PICK b0 \in 0..1, b1 \in 0..1, b2 \in 0..1, b3 \in 0..1, b4 \in 0..1,
             b5 \in 0..1, b6 \in 0..1, b7 \in 0..1, b8 \in 0..1 :
          /\ b0 = header[12 + 0] /\ b1 = header[12 + 1] /\ b2 = header[12 + 2]
          /\ b3 = header[12 + 3] /\ b4 = header[12 + 4] /\ b5 = header[12 + 5]
          /\ b6 = header[12 + 6] /\ b7 = header[12 + 7] /\ b8 = header[12 + 8]
    BY <2>2
  <2>5. /\ b0 = Bit(size, 0) /\ b1 = Bit(size, 1) /\ b2 = Bit(size, 2)
        /\ b3 = Bit(size, 3) /\ b4 = Bit(size, 4) /\ b5 = Bit(size, 5)
        /\ b6 = Bit(size, 6) /\ b7 = Bit(size, 7) /\ b8 = Bit(size, 8)
    BY <2>1, <2>4
  <2>6. size = b0 + 2 * b1 + 4 * b2 + 8 * b3 + 16 * b4 + 32 * b5 + 64 * b6
                 + 128 * b7 + 256 * b8
    BY <2>5, NineBits, ZenonT(60)
  <2>. QED  BY <2>3, <2>4, <2>6
<1>3. {x \in Encodings : McsOf[x] = McsOf[e]} = {e}
  BY McsIs
<1>4. [k \in 1..4 |-> header[25 + k]] = compute_crc(header)
  BY HeaderIs
<1>. QED  BY <1>1, <1>2, <1>3, <1>4 DEF parse_signal

\* Up to four bits, the first of them at first.
IsBurst(wrong, first) ==
    /\ first \in wrong /\ wrong \subseteq 0..29
    /\ \A i \in wrong : i >= first /\ i <= first + 3

\* With a burst of wrong bits it is refused.
LEMMA HeaderRefused ==
    ASSUME NEW header, NEW e, NEW size, IsHeader(header, e, size),
           NEW wrong, NEW first, IsBurst(wrong, first)
    PROVE  parse_signal(Flipped(header, wrong)) = Refused
<1>1. PICK read : read = Flipped(header, wrong)
  OBVIOUS
<1>2. /\ \A i \in 0..29 : header[i] \in Binary
      /\ [k \in 1..4 |-> header[25 + k]] = compute_crc(header)
      /\ DOMAIN header = 0..35
  BY HeaderIs
<1>. first \in 0..29 /\ first \in wrong
  BY DEF IsBurst
<1>3. \A i \in 0..29 : read[i] = IF i \in wrong THEN 1 - header[i] ELSE header[i]
  BY <1>1, <1>2 DEF Flipped
<1>4. \A i \in 0..29 : read[i] \in Binary
  BY <1>2, <1>3 DEF Binary
<1>5. read[first] # header[first]
  <2>1. header[first] \in Binary /\ read[first] = 1 - header[first]
    BY <1>2, <1>3
  <2>. QED  BY <2>1 DEF Binary
<1>6. \A i \in 0..29 : i < first \/ i > first + 3 => read[i] = header[i]
  BY <1>3, SMTT(40) DEF IsBurst
<1>7. [k \in 1..4 |-> read[25 + k]] # compute_crc(read)
  BY <1>2, <1>4, <1>5, <1>6, BurstFound
<1>. QED  BY <1>1, <1>7 DEF parse_signal

\* The SIG field is read as it was written, or refused.
LEMMA SigIs == ASSUME Sent PROVE SigErrorsFound
<1>. SUFFICES ASSUME psdu_size <= MAX_PSDU_SIZE,
                     NEW header, header = generate_signal_field(encoding, psdu_size)
              PROVE  /\ parse_signal(header)
                          = [encoding |-> encoding, psdu_size |-> psdu_size]
                     /\ \A first \in 0..29 : \A others \in SUBSET (1..3) :
                          LET wrong == {first} \cup {first + i : i \in others}
                          IN  wrong \subseteq 0..29 =>
                                parse_signal(Flipped(header, wrong)) = Refused
  BY DEF SigErrorsFound
<1>1. encoding \in Encodings /\ psdu_size \in 0..511
  BY Limits DEF Sent
<1>2. parse_signal(header) = [encoding |-> encoding, psdu_size |-> psdu_size]
  BY <1>1, HeaderParsed DEF IsHeader
<1>3. ASSUME NEW first \in 0..29, NEW others \in SUBSET (1..3),
             NEW wrong, wrong = {first} \cup {first + i : i \in others},
             wrong \subseteq 0..29
      PROVE  parse_signal(Flipped(header, wrong)) = Refused
  <2>1. IsHeader(header, encoding, psdu_size)
    BY <1>1 DEF IsHeader
  <2>2. IsBurst(wrong, first)
    BY <1>3 DEF IsBurst
  <2>. QED  BY <2>1, <2>2, HeaderRefused
<1>. QED  BY <1>2, <1>3

-----------------------------------------------------------------------------

\* Sizes stay sizes.
LEMMA AlwaysSent == Spec => []Sent
<1>1. Init => Sent
  BY DEF Init, Sent
<1>2. Sent /\ [Send]_vars => Sent'
  BY DEF Sent, Send, vars
<1>. QED  BY <1>1, <1>2, PTL DEF Spec

\* The mapper copies exactly what the modulation steps produced, at every MCS
\* and size (mapper.cc; MCS 10 repeats its bits).
THEOREM BuffersExact == Spec => []SymbolBufferExact
BY AlwaysSent, BufferExact, PTL

\* Whatever length a SIG field announces, a frame that decode_mac accepts fits
\* its buffers and 16-bit counts, and enough bits are decoded for descramble.
THEOREM DecoderAlwaysFits == Spec => []DecoderFits
BY AlwaysSent, AcceptedFits, PTL

\* Of the PSDUs that utils.h allows, exactly the longest at MCS 10 is refused by
\* the mapper (utils.h:48, an integer division).
THEOREM LongestRefused == Spec => []OnlyLongestRefused
BY AlwaysSent, RefusedAre, PTL

\* Of the frames that are sent, exactly that of 510 octets at MCS 10 is cut by
\* sync_short (sync_short.cc:26).
THEOREM LongestCut == Spec => []OnlyLongestCut
BY AlwaysSent, CutAre, PTL

\* payload_to_symbols counts enough symbols for every payload, and never two too
\* many (python/utils.py).
THEOREM SymbolsAlwaysHold == Spec => []SymbolsHold
BY AlwaysSent, SymbolsEnough, PTL

\* The pilots of every frame that is sent are the ones frame_equalizer expects,
\* but for the longest at MCS 10, which use the flowgraph's first pairs again.
THEOREM PilotsAlwaysExpected == Spec => []PilotsExpected
BY AlwaysSent, PilotsAre, PTL

\* The SIG field of every frame is read as it was written, and with any burst of
\* wrong bits no longer than its CRC it is refused (frame_equalizer_impl.cc).
THEOREM SigAlwaysFound == Spec => []SigErrorsFound
BY AlwaysSent, SigIs, PTL

=============================================================================
