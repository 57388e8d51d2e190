-------------------------- MODULE MCCallSiteTable --------------------------
(* Values of the constants of CallSiteTable for TLC: the hash is FrameHash's *)
(* and the number of buckets is BucketCount's, both scaled down.             *)
EXTENDS ConfiguredTable, TLC

\* Two sites with the same home bucket, 1 of 2, one with home 0, and the
\* zero-frame capture.  The first trace has two frames, so that it can tear.
ThreeTraces == {<< >>, <<5, 5>>, <<7>>, <<6>>}
TwoTraces   == {<<5, 5>>, <<7>>}
HashOfTwo   == <<5, 5>> :> 5 @@ <<7>> :> 3
HashOfThree == HashOfTwo @@ <<6>> :> 6 @@ << >> :> 1

\* MOD_ALLOC_BUCKETS=1
Buckets == configured_bucket_count(1)

Symmetry == Permutations(Threads)
=============================================================================
