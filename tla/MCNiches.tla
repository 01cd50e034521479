----------------------------- MODULE MCNiches -----------------------------
(* Instances of Niches for TLC: jobs of one workspace are alike.           *)
EXTENDS Niches, TLC

CONSTANTS v, w, j1, j2, j3, t1, t2

MCJobs == {j1, j2, j3}
MCOwnerOf == (j1 :> w) @@ (j2 :> w) @@ (j3 :> v)

Symmetry == {p @@ q : p \in Permutations({t1, t2}), q \in Permutations({j1, j2})}
=============================================================================
