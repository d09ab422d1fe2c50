------------------------------- MODULE MCTopsMcu --------------------------------
(* Model checking TopsMcu: the cores are alike. *)
EXTENDS TopsStall, TLC

Symmetry == Permutations(Cores)
=================================================================================
