----------------------------- MODULE MCRxFrames ----------------------------
(***************************************************************************)
(* RxFrames for TLC: values a configuration file cannot write.             *)
(***************************************************************************)
EXTENDS RxFrames

\* n_sym from uninitialised members: so negative that the whole frame is
\* dropped, or larger than any frame.
GarbageValues == {-9, 9}

\* Two symbols are more bits than one.
LeavingFrames == {<<2, 1>>}

=============================================================================
