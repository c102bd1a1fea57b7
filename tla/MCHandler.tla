----------------------------- MODULE MCHandler -----------------------------
(* Model-checking instance of Handler: the generation counter is cut at    *)
(* MaxGen by a state constraint, so behaviours end only by reaching it.    *)
EXTENDS Handler, TLC

GenerationBound == generation <= MaxGen

Symmetry == Permutations(Threads)
=============================================================================
