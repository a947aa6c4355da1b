--------------------------- MODULE MCCodedFrames ---------------------------
(* CodedFrames on short frames at rates 1/2, 2/3 and 3/4, some of them with *)
(* a point moved                                                           *)
EXTENDS CodedFrames

All(n, byte) == [i \in 1 .. n |-> byte]
Frame(e, psdu, hit) == [encoding |-> e, psdu |-> psdu, hit |-> hit]

MCFrames ==
  {Frame("BPSK_1_2_REP", All(5, 255), -1),
   Frame("BPSK_1_2_REP", All(2, 0), 3),
   Frame("BPSK_1_2", <<129, 7, 66>>, 20),
   Frame("QPSK_3_4", <<90, 195>>, 11),
   Frame("QAM16_1_2", <<33, 254>>, 5),
   Frame("QAM64_2_3", <<15, 51>>, -1)}

(* Two frames without a point moved: the second is shorter                 *)
MCCleanFrames ==
  {Frame("BPSK_1_2_REP", All(5, 255), -1), Frame("BPSK_1_2_REP", All(2, 0), -1)}
=============================================================================
