----------------------------- MODULE MC_OsTimer -----------------------------
(* Model values and symmetry for OsTimer. *)
EXTENDS OsTimer

CONSTANTS t1, t2, a1, a2

ThreadSymmetry == Permutations({a1, a2})
=============================================================================
