--------------------------- MODULE MCPlayerBuffer ---------------------------
(* Model values and symmetry for the runs of PlayerBuffer. *)
EXTENDS PlayerBuffer, TLC

\* The two receivers run the same code on the same state.
ReceiverSymmetry == Permutations(Receivers)
=============================================================================
