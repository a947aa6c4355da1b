---------------------------- MODULE PythonUtils ----------------------------
(***************************************************************************)
(* python/utils.py: how many symbols a payload is estimated to take, with  *)
(* the parameters of 802.11a, from which the simulation in                 *)
(* simulations/interference/sim.py derives the lengths of its bursts.      *)
(***************************************************************************)
EXTENDS Integers, Sequences

(* dbps of encodings 0 to 7 *)
encoding_to_parameters(encoding) == <<24, 36, 48, 72, 96, 144, 192, 216>>[encoding + 1]

(* Bits of service, header, payload, FCS and tail *)
PayloadBits(payload) == 16 + (24 + 4 + payload) * 8 + 6

(* Mutant: to the nearest whole number *)
RoundedUp_Nearest(bits, dbps) == (2 * bits + dbps) \div (2 * dbps)

(* int(round(bits / dbps + 0.5)); round takes the even number of two that   *)
(* are equally near                                                        *)
RoundedUp(bits, dbps) ==
  LET whole == bits \div dbps
  IN  IF bits % dbps = 0 /\ whole % 2 = 0 THEN whole ELSE whole + 1

payload_to_symbols(payload, encoding) ==
  RoundedUp(PayloadBits(payload), encoding_to_parameters(encoding)) + 5

mac_payload_to_payload(payload) == payload - 28
payload_to_samples(payload, encoding) == payload_to_symbols(payload, encoding) * 80 + 1

(* Eight times the payload, which is a float (without the assertion that    *)
(* there is one)                                                           *)
symbols_to_payload8(symbols, encoding) ==
  (symbols - 5) * encoding_to_parameters(encoding) - 16 - 6 - 8 * (24 + 4)

=============================================================================
