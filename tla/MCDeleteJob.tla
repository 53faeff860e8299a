----------------------------- MODULE MCDeleteJob -----------------------------
(* Instances of DeleteJob for TLC. *)
EXTENDS DeleteJob, TLC

CONSTANTS u1, u2, c1, c2, c3, a, b

CallerOf == (c1 :> u1) @@ (c2 :> u1) @@ (c3 :> u2)
Lists == {<< 2, 1, 2, 0 >>}
Longer == {<< 3, 1, 2, 3 >>}
OneCaller == c1 :> u1
Servers == {a, b}
Alike == Permutations(Servers)
=============================================================================
