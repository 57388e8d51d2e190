-------------------------- MODULE ConfiguredTable --------------------------
(***************************************************************************)
(* The call-site table with the hash of the code (FrameHash) and a number  *)
(* of buckets that MOD_ALLOC_BUCKETS gives (BucketCount).                  *)
(***************************************************************************)
EXTENDS CallSiteTable, FrameHash, BucketCount

ASSUME HashIsFrameHash == \A tr \in Traces : Hash[tr] = hash_frames(tr, Len(tr))
ASSUME CountIsConfigured ==
    \E var \in Requests \union {Unset, NoNumber} : N = configured_bucket_count(var)

-----------------------------------------------------------------------------
(* Properties.                                                               *)

\* Whenever a trace is recorded: traces of one length that differ in a single
\* frame have different hashes, wherever the frame is, so that no bit of it is
\* lost on the way.  The one exception is the value that 0 is mapped onto.  What
\* is past the count does not matter, and the hash is never 0, which would leave
\* a claimed bucket looking empty (hash.rs:7-9, 13-31).
HashTellsFramesApart ==
    (\E t \in Threads : call[t].op = "record") => Misfits = {}

\* Once the table is set up, whatever the environment variable holds, the count n
\* gives a mask n - 1 that takes every hash to its remainder by n: all buckets can
\* be reached and no other.  A number between the limits is rounded up, and to
\* less than its double (table.rs:84-92, 172, 230, backtrace/mod.rs:22-25).
EveryBucketIsReachable == TABLE_BUCKETS # 0 => Unusable = {}
=============================================================================
