------------------------------ MODULE FrameHash ------------------------------
(***************************************************************************)
(* backtrace/hash.rs: the hash of a captured trace, an FxHash over words   *)
(* of WordBits bits.  In the code: 64 bits, a rotation by 5, 8 slots, and  *)
(* the odd multiplier 0x517cc1b727220a95.                                  *)
(***************************************************************************)
EXTENDS Powers

CONSTANTS WordBits, Rotation, K, FrameSlots

ASSUME WordAssumption == /\ WordBits \in Nat \ {0}
                         /\ Rotation \in 1 .. WordBits - 1
                         /\ FrameSlots \in Nat \ {0}
ASSUME KAssumption    == K \in Nat /\ K % 2 = 1

Words == 0 .. Pow2[WordBits] - 1

\* Bitwise exclusive or of two words.
Xor(x, y) ==
    CHOOSE z \in Words :
       \A b \in 0 .. WordBits - 1 : Bit(z, b) = (Bit(x, b) + Bit(y, b)) % 2

\* Mutant: a shift, which loses the high bits.
ShiftLeft(x) == (x * Pow2[Rotation]) % Pow2[WordBits]

rotate_left(x) == ((x * Pow2[Rotation]) % Pow2[WordBits])
                  + x \div Pow2[WordBits - Rotation]

\* h is the hash of the frames before this one; the product wraps.
Mix(h, frame) == (Xor(rotate_left(h), frame) * K) % Pow2[WordBits]

\* 0 is the mark of an empty bucket, and no trace's hash.
hash_frames(frames, len) ==
    LET n == IF len > FrameSlots THEN FrameSlots ELSE len
        h[i \in 0 .. n] == IF i = 0 THEN 0 ELSE Mix(h[i - 1], frames[i])
    IN IF h[n] = 0 THEN 1 ELSE h[n]

-----------------------------------------------------------------------------
(* Reference.                                                                *)

\* Pairs of arrays that differ in one slot, with a count, whose hashes are not
\* as they should be.
Misfits ==
    {x \in [1 .. FrameSlots -> Words] \X (0 .. FrameSlots + 1) :
       LET h == hash_frames(x[1], x[2]) IN
       \/ h = 0
       \/ \E k \in 1 .. FrameSlots : \E w \in Words \ {x[1][k]} :
             LET g == hash_frames([x[1] EXCEPT ![k] = w], x[2]) IN
             IF k <= x[2] THEN g = h /\ h # 1 ELSE g # h}
=============================================================================
