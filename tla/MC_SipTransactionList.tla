------------------------ MODULE MC_SipTransactionList ------------------------
(* Model values for SipTransactionList. *)
EXTENDS SipTransactionList, TLC

CONSTANTS ua, u1, u2, t1, t2

\* The collector is one of the threads; the others are alike.
Symmetry == Permutations({u1, u2}) \cup Permutations({t1, t2})
=============================================================================
