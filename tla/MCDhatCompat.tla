---------------------------- MODULE MCDhatCompat ----------------------------
(* DhatCompat with interchangeable profilers and callers, for TLC.           *)
EXTENDS DhatCompat, TLC

Symmetry == Permutations(Profilers) \union Permutations(Callers)
=============================================================================
