---------------------------- MODULE MCJobPipeline -----------------------------
(* JobPipeline for TLC: symmetry for the runs that check safety only.      *)
EXTENDS JobPipeline, TLC

Symmetry == Permutations(Symbols) \cup Permutations(Runs) \cup Permutations(Clients)
===============================================================================
