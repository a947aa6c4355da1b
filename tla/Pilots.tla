------------------------------- MODULE Pilots -------------------------------
(***************************************************************************)
(* The pilots and the subcarriers of a symbol, as the transmit flowgraph   *)
(* (examples/halow_phy_hier.grc) lays them out and as frame_equalizer and  *)
(* ls::equalize take them apart.  Symbols count from the first of the SIG  *)
(* field; a pilot is 1 or -1.                                              *)
(***************************************************************************)
EXTENDS OfdmParam, Sequences

(* The flowgraph's variable pilots: PILOT_PAIRS pairs (p, -p), of which      *)
(* these are the first of each, repeated.  The carrier allocator begins the *)
(* list at each frame, and again at its end                                *)
PILOT_PAIRS == 683
PILOTS == <<
  1, -1, 1, -1, -1, 1, -1, -1, -1, 1, -1, 1, 1, -1, -1, -1, -1, 1, 1, -1, -1,
  -1, 1, 1, 1, -1, 1, -1, 1, -1, -1, -1, 1, -1, -1, -1, 1, 1, -1, -1, 1, -1,
  -1, -1, -1, 1, -1, -1, -1, -1, -1, 1, 1, 1, -1, -1, 1, -1, 1, -1, -1, 1, 1,
  -1, -1, 1, 1, 1, 1, 1, 1, -1, -1, 1, -1, -1, 1, 1, -1, 1, -1, -1, -1, 1, 1,
  1, 1, -1, 1, -1, -1, -1, -1, -1, -1, -1, -1, 1, -1, 1, -1, -1, -1, -1, 1, 1,
  1, 1, 1, -1, 1, 1, -1, -1, -1, 1, -1, -1, 1, -1, -1, 1, -1, 1, -1, 1, -1,
  -1, 1, -1, 1, 1, -1, 1, 1, 1, -1, 1, -1, -1, 1, 1, 1, 1, -1, -1, 1, 1, 1,
  -1, -1, -1, 1, -1, 1, -1, 1, 1, 1, -1, 1, 1, 1, -1, -1, 1, 1, -1, 1, 1, 1,
  1, -1, 1, 1, 1, 1, 1, -1, -1, -1, 1, 1, -1, 1, -1, 1, 1, -1, -1, 1, 1, -1,
  -1, -1, -1, -1, -1, 1, 1, -1, 1, 1, -1, -1, 1, -1, 1, 1, 1, -1, -1, -1, -1,
  1, -1, 1, 1, 1, 1, 1, 1, 1, 1, -1, 1, -1, 1, 1, 1, 1, -1, -1, -1, -1, -1, 1,
  -1, -1, 1, 1, 1, -1, 1, 1, -1, 1, 1, -1, 1, -1, 1, -1, 1>>
pilots(n) == PILOTS[((n % PILOT_PAIRS) % Len(PILOTS)) + 1]

(* Subcarriers -16 .. 15 the flowgraph puts coded points on, in order      *)
occupied_carriers == <<-13, -12, -11, -10, -9, -8, -6, -5, -4, -3, -2, -1,
                       1, 2, 3, 4, 5, 6, 8, 9, 10, 11, 12, 13>>
pilot_carriers == <<-7, 7>>

-----------------------------------------------------------------------------
POLARITY == <<
  1, 1, 1, 1, -1, -1, -1, 1, -1, -1, -1, -1, 1, 1, -1, 1, -1, -1, 1, 1, -1, 1,
  1, -1, 1, 1, 1, 1, 1, 1, -1, 1, 1, 1, -1, 1, 1, -1, -1, 1, 1, 1, -1, 1, -1,
  -1, -1, 1, -1, 1, -1, -1, 1, -1, -1, 1, 1, 1, 1, 1, -1, -1, 1, 1, -1, -1, 1,
  -1, 1, -1, 1, 1, -1, -1, -1, 1, 1, -1, -1, -1, -1, 1, -1, -1, 1, -1, 1, 1,
  1, 1, -1, 1, -1, 1, -1, 1, -1, -1, -1, -1, -1, 1, -1, 1, 1, -1, 1, -1, 1, 1,
  1, -1, -1, 1, -1, -1, -1, 1, 1, 1, -1, -1, -1, -1, -1, -1, -1>>

(* Mutant: the polarity is counted from the first symbol of LTF1           *)
pilot_mapping_FromLtf(d_current_symbol) ==
  LET first_pilot == IF d_current_symbol % 2 = 1 THEN -1 ELSE 1
  IN  first_pilot * POLARITY[(d_current_symbol % 127) + 1]

(* The first pilot the receiver expects behind LTF1; the other is its       *)
(* negative                                                                *)
pilot_mapping(d_current_symbol) ==
  LET first_pilot == IF d_current_symbol % 2 = 1 THEN -1 ELSE 1
  IN  first_pilot * POLARITY[((d_current_symbol - NUM_OFDM_SYMBOLS_IN_LTF1) % 127) + 1]

(* Subcarriers 0 .. 31 of the pilots, when they do not travel, and the      *)
(* ones whose points reach decode_mac                                      *)
PILOT_INDEX == <<9, 23>>
DataCarriers == {i \in 0 .. SAMPLES_PER_OFDM_SYMBOL - 1 :
                   i \notin {PILOT_INDEX[1], PILOT_INDEX[2], 16} /\ i >= 3 /\ i <= 29}
=============================================================================
