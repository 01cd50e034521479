---------------------------- MODULE MCRendering ----------------------------
(* Instances of Rendering for TLC.                                         *)
EXTENDS Rendering, TLC
CONSTANTS t1, t2, c1, c2
Symmetry == {p @@ q : p \in Permutations({t1, t2}), q \in Permutations({c1, c2})}
=============================================================================
