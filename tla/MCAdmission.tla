---------------------------- MODULE MCAdmission -----------------------------
(* Instances of Admission for TLC.                                           *)
EXTENDS Admission, TLC

CONSTANTS t1, t2, w1, w2

Symmetry == Permutations(Threads) \cup Permutations(Workers)
=============================================================================
