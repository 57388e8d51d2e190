---------------------------- MODULE MCModAlloc ----------------------------
(* ModAlloc with symmetric threads and blocks, for TLC.                     *)
EXTENDS ModAlloc, TLC

Symmetry == Permutations(Threads) \union Permutations(Blocks)
=============================================================================
