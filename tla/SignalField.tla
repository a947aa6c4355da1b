---------------------------- MODULE SignalField ----------------------------
(***************************************************************************)
(* The SIG field: what generate_signal_field (signal_field_impl.cc) writes *)
(* and what parse_signal (frame_equalizer_impl.cc) makes of the bits the   *)
(* Viterbi decoder returns.                                                *)
(***************************************************************************)
EXTENDS BitCoding

SIG_BITS == 36

(* The numbers of mapper.h's enumeration *)
McsOf ==
  [e \in Encodings |->
     CASE e = "BPSK_1_2" -> 0 [] e = "QPSK_1_2" -> 1 [] e = "QPSK_3_4" -> 2
       [] e = "QAM16_1_2" -> 3 [] e = "QAM16_3_4" -> 4 [] e = "QAM64_2_3" -> 5
       [] e = "QAM64_3_4" -> 6 [] e = "QAM64_5_6" -> 7 [] e = "BPSK_1_2_REP" -> 10]

(* A bit into the register: x^4 + x + 1 *)
CrcStep(reg, bit) ==
  LET out == Xor(reg[1], bit)
  IN  <<reg[2], reg[3], Xor(reg[4], out), out>>

(* A row of table_byte: two halves of four bits each *)
CrcHalf(reg, in, from) ==
  CrcStep(CrcStep(CrcStep(CrcStep(reg, in[from]), in[from + 1]), in[from + 2]),
          in[from + 3])
CrcByte(reg, in, from) == CrcHalf(CrcHalf(reg, in, from), in, from + 4)
crc4HaLoW_byte(in) ==
  LET first == CrcByte(CrcByte(<<0, 0, 0, 0>>, in, 0), in, 8)
      reg == CrcByte(CrcByte(first, in, 16), in, 24)
  IN  [k \in 1 .. 4 |-> 1 - reg[k]]

(* Mutant: B25 is left out *)
compute_crc_25(bits) ==
  crc4HaLoW_byte(Buffer(32, LAMBDA i :
    IF i < 7 THEN 0 ELSE IF i < 11 THEN 1 - bits[i - 7] ELSE bits[i - 7]))

(* B0-B25, the first four inverted, after six zeros *)
compute_crc(bits) ==
  crc4HaLoW_byte(Buffer(32, LAMBDA i :
    IF i < 6 THEN 0 ELSE IF i < 10 THEN 1 - bits[i - 6] ELSE bits[i - 6]))

(* B4 is 1 with BCC, B6 is reserved; the length has nine bits *)
generate_signal_field(e, psdu_size) ==
  LET fields == Buffer(SIG_BITS, LAMBDA i :
        IF i \in {4, 6} THEN 1
        ELSE IF i \in 7 .. 10 THEN Bit(McsOf[e], i - 7)
        ELSE IF i \in 12 .. 20 THEN Bit(psdu_size, i - 12)
        ELSE 0)
      crc == compute_crc(fields)
  IN  [i \in 0 .. SIG_BITS - 1 |-> IF i \in 26 .. 29 THEN crc[i - 25] ELSE fields[i]]

Refused == [encoding |-> "none", psdu_size |-> 0]

(* A header is refused for its CRC or its MCS, never for another field *)
parse_signal(bits) ==
  LET mcs == Number(bits, 7, 4)
      rx_crc4 == [k \in 1 .. 4 |-> bits[25 + k]]
      known == {e \in Encodings : McsOf[e] = mcs}
  IN  IF rx_crc4 # compute_crc(bits) \/ known = {} THEN Refused
      ELSE [encoding |-> CHOOSE e \in known : TRUE, psdu_size |-> Number(bits, 12, 9)]

Flipped(bits, wrong) ==
  [i \in DOMAIN bits |-> IF i \in wrong THEN 1 - bits[i] ELSE bits[i]]

=============================================================================
