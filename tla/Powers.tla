------------------------------- MODULE Powers -------------------------------
(* Powers of two, as a function, and the digits of a number.                 *)
EXTENDS Integers

Pow2[k \in Nat] == IF k = 0 THEN 1 ELSE 2 * Pow2[k - 1]

\* The binary digit of x that counts for Pow2[k].
Bit(x, k) == (x \div Pow2[k]) % 2
=============================================================================
