----------------------------- MODULE BucketCount -----------------------------
(***************************************************************************)
(* backtrace/table.rs configured_bucket_count: the size of the call-site   *)
(* table, from the environment variable MOD_ALLOC_BUCKETS.                 *)
(***************************************************************************)
EXTENDS Powers, FiniteSetsExt

CONSTANTS
    DEFAULT_BUCKETS, MIN_BUCKETS, MAX_BUCKETS,  \* 4096, 64 and 2^20
    Unset,     \* the variable is not set, or not Unicode
    NoNumber,  \* its text is no usize: words, a sign, too many digits
    Requests   \* numbers that the text may be

ASSUME BucketLimits ==
    /\ \E k \in 1 .. 63 : MIN_BUCKETS = Pow2[k]
    /\ \E k \in 1 .. 63 : MAX_BUCKETS = Pow2[k]
    /\ DEFAULT_BUCKETS \in MIN_BUCKETS .. MAX_BUCKETS
ASSUME RequestAssumption == Requests \subseteq Nat /\ Unset \notin Nat /\ NoNumber \notin Nat

clamp(n, low, high) == IF n < low THEN low ELSE IF n > high THEN high ELSE n

\* Mutant: the power of two below.
PreviousPowerOfTwo(n) == Max({p \in {Pow2[k] : k \in 0 .. n} : p <= n})

next_power_of_two(n) == Min({p \in {Pow2[k] : k \in 0 .. n} : p >= n})

configured_bucket_count(var) ==
    LET n == IF var \in {Unset, NoNumber} THEN DEFAULT_BUCKETS ELSE var
    IN next_power_of_two(clamp(n, MIN_BUCKETS, MAX_BUCKETS))

-----------------------------------------------------------------------------
(* Reference.                                                                *)

\* x & m, bit by bit.
BitAnd(x, m) ==
    CHOOSE z \in 0 .. m : \A k \in 0 .. m : Bit(z, k) = Bit(x, k) * Bit(m, k)

\* Values of the variable that do not give a usable count.
Unusable ==
    {var \in Requests \union {Unset, NoNumber} :
       LET n == configured_bucket_count(var) IN
       ~ /\ n \in MIN_BUCKETS .. MAX_BUCKETS
         /\ \A x \in 0 .. 2 * MAX_BUCKETS : BitAnd(x, n - 1) = x % n
         /\ var \in MIN_BUCKETS .. MAX_BUCKETS => var <= n /\ n < 2 * var}
=============================================================================
