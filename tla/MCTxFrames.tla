----------------------------- MODULE MCTxFrames ----------------------------
(***************************************************************************)
(* TxFrames for TLC.                                                       *)
(***************************************************************************)
EXTENDS TxFrames

\* MCS 10 needs twice the symbols of the others; MCS 7 has no constellation.
Rates == [e \in {"BPSK_1_2_REP", "BPSK_1_2", "QAM64_5_6"} |->
            IF e = "BPSK_1_2_REP" THEN 1 ELSE 2]

=============================================================================
