---------------------------- MODULE MCProfiler ----------------------------
(* Profiler with symmetric threads and blocks, for TLC.                     *)
EXTENDS Profiler, TLC

Symmetry == Permutations(Threads) \union Permutations(Blocks)
=============================================================================
