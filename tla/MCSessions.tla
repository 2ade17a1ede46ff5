----------------------------- MODULE MCSessions -----------------------------
(* Model values and symmetry for the runs of Sessions. *)
EXTENDS Sessions, TLC

\* The connections are interchangeable.
ConnSymmetry == Permutations(Conns)
=============================================================================
