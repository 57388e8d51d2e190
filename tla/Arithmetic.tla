----------------------------- MODULE Arithmetic -----------------------------
(***************************************************************************)
(* What the proofs need of sums over finite sets (MapThenSumSet of the     *)
(* community modules), of recursion over numbers and of powers of two.     *)
(* The definition of a recursive function chooses a function that unrolls  *)
(* itself; that there is one, and every other fact below, is shown by the  *)
(* least counterexample: were the claim false of some subset of S, it      *)
(* would be false of a subset all of whose own subsets satisfy it          *)
(* (Smallest), which is absurd; and likewise for numbers (LeastNatural).   *)
(***************************************************************************)
EXTENDS Powers, FiniteSets, FiniteSetsExt, FiniteSetTheorems,
        WellFoundedInduction, TLAPS

\* The sum of the values of a function over a set.
SumOf(g, S) == MapThenSumSet(LAMBDA x : g[x], S)

\* The element that the fold takes next, and what it means for h to be the
\* fold's function on the subsets of S.
Pick(s) == CHOOSE x \in s : TRUE

Unrolled(g, S, h) ==
    h = [s \in SUBSET S |-> IF s = {} THEN 0 ELSE g[Pick(s)] + h[s \ {Pick(s)}]]

Iter(g, S) == CHOOSE h : Unrolled(g, S, h)

\* The sum is the fold of the community modules, applied to the whole set.
LEMMA SumIsIter ==
    ASSUME NEW g, NEW S
    PROVE  SumOf(g, S) = Iter(g, S)[S]
  BY DEF SumOf, MapThenSumSet, MapThenFoldSet, Iter, Unrolled, Pick

\* A set of subsets of a finite set has a minimal element.
LEMMA Smallest ==
    ASSUME NEW S, IsFiniteSet(S), NEW Bad, Bad \subseteq SUBSET S, Bad # {}
    PROVE  \E s \in Bad : \A r \in SUBSET s : r \in Bad => r = s
<1>1. FiniteSubsetsOf(S) = SUBSET S
  BY FS_FiniteSubsetsOfFinite, Zenon
<1>2. IsWellFoundedOn(StrictSubsetOrdering(S), SUBSET S)
  BY <1>1, FS_StrictSubsetOrderingWellFounded
<1>3. PICK s \in Bad : \A r \in Bad : ~(<<r, s>> \in StrictSubsetOrdering(S))
  BY <1>2, WFMin
<1>4. ASSUME NEW r \in SUBSET s, r \in Bad
      PROVE  r = s
  BY <1>3, <1>4 DEF StrictSubsetOrdering
<1>. QED  BY <1>4

\* A set of natural numbers has a least element.
LEMMA LeastNatural ==
    ASSUME NEW Bad, Bad \subseteq Nat, Bad # {}
    PROVE  \E n \in Bad : \A m \in Bad : n <= m
<1>. DEFINE R == OpToRel(<, Nat)
<1>1. IsWellFoundedOn(R, Nat)
  BY NatLessThanWellFounded
<1>2. PICK n \in Bad : \A m \in Bad : ~(<<m, n>> \in R)
  <2>. HIDE DEF R
  <2>. QED  BY <1>1, WFMin
<1>3. ASSUME NEW m \in Bad
      PROVE  ~(m < n)
  BY <1>2 DEF OpToRel
<1>. QED  BY <1>3

\* There is a function that unrolls itself, so that the chosen one does: there is
\* one for the subsets of at most n elements, by the least n for which there is not.
LEMMA SumUnrolled ==
    ASSUME NEW g, NEW S, IsFiniteSet(S)
    PROVE  Unrolled(g, S, Iter(g, S))
<1>. DEFINE body(h) == [s \in SUBSET S |->
                 IF s = {} THEN 0 ELSE g[Pick(s)] + h[s \ {Pick(s)}]]
            upto(n) == {s \in SUBSET S : Cardinality(s) <= n}
            good(n, h) == \A s \in upto(n) : h[s] = body(h)[s]
            Bad == {n \in Nat : ~ \E h : good(n, h)}
<1>1. ASSUME NEW s \in SUBSET S
      PROVE  Cardinality(s) \in Nat
  BY FS_Subset, FS_CardinalityType
<1>2. ASSUME NEW s \in SUBSET S, s # {}
      PROVE  /\ s \ {Pick(s)} \in SUBSET S
             /\ Cardinality(s \ {Pick(s)}) = Cardinality(s) - 1
  <2>1. Pick(s) \in s
    BY <1>2 DEF Pick
  <2>. QED  BY <2>1, FS_Subset, FS_RemoveElement
<1>3. Bad = {}
  <2>1. SUFFICES ASSUME Bad # {} PROVE FALSE
    OBVIOUS
  <2>2. PICK n \in Bad : \A m \in Bad : n <= m
    BY <2>1, LeastNatural
  <2>3. \E h : n = 0 \/ good(n - 1, h)
    <3>1. CASE n = 0
      BY <3>1
    <3>2. CASE n # 0
      <4>1. n - 1 \in Nat /\ ~(n <= n - 1)
        BY <3>2
      <4>2. n - 1 \notin Bad
        BY <4>1, <2>2
      <4>3. \E h : good(n - 1, h)
        BY <4>1, <4>2
      <4>. QED  BY <4>3, Zenon
    <3>. QED  BY <3>1, <3>2
  <2>4. PICK h : n = 0 \/ good(n - 1, h)
    BY <2>3
  <2>5. good(n, body(h))
    <3>1. SUFFICES ASSUME NEW s \in upto(n)
                   PROVE  body(h)[s] = body(body(h))[s]
      OBVIOUS
    <3>2. CASE s = {}
      BY <3>2
    <3>3. CASE s # {}
      <4>. DEFINE r == s \ {Pick(s)}
      <4>1. r \in SUBSET S /\ Cardinality(r) = Cardinality(s) - 1
        BY <1>2, <3>3
      <4>2. Cardinality(s) \in Nat /\ Cardinality(r) \in Nat /\ n \in Nat
        BY <1>1, <4>1
      <4>3. n # 0 /\ Cardinality(r) <= n - 1
        BY <4>1, <4>2
      <4>4. h[r] = body(h)[r]
        BY <2>4, <4>3, <4>1
      <4>5. body(h)[s] = g[Pick(s)] + h[r] /\ body(body(h))[s] = g[Pick(s)] + body(h)[r]
        <5>. HIDE DEF r
        <5>. QED BY <3>3 DEF r
      <4>. QED  BY <4>4, <4>5
    <3>. QED  BY <3>2, <3>3
  <2>. QED  BY <2>2, <2>5
<1>4. PICK h : good(Cardinality(S), h)
  BY <1>1, <1>3
<1>5. upto(Cardinality(S)) = SUBSET S
  BY FS_Subset
<1>6. body(h) = body(body(h))
  BY <1>4, <1>5, <1>2
<1>7. Unrolled(g, S, body(h))
  BY <1>6 DEF Unrolled
<1>. QED  BY <1>7 DEF Iter

\* Nothing adds up to 0.
LEMMA SumEmpty == \A g : SumOf(g, {}) = 0
<1>1. ASSUME NEW g PROVE SumOf(g, {}) = 0
  <2>1. IsFiniteSet({})
    BY FS_EmptySet
  <2>2. Unrolled(g, {}, Iter(g, {}))
    BY <2>1, SumUnrolled
  <2>3. Iter(g, {})[{}] = 0
    BY <2>2 DEF Unrolled
  <2>. QED  BY <2>3, SumIsIter
<1>. QED  BY <1>1

\* On a subset, the function chosen for S is the sum over that subset.
LEMMA IterRestricts ==
    ASSUME NEW g, NEW S, IsFiniteSet(S), NEW T \in SUBSET S
    PROVE  Iter(g, S)[T] = SumOf(g, T)
<1>. DEFINE h == Iter(g, S)
            k == Iter(g, T)
            Bad == {s \in SUBSET T : h[s] # k[s]}
<1>1. IsFiniteSet(T)
  BY FS_Subset
<1>2. Unrolled(g, S, h) /\ Unrolled(g, T, k)
  BY <1>1, SumUnrolled
<1>3. Bad = {}
  <2>1. SUFFICES ASSUME Bad # {} PROVE FALSE
    OBVIOUS
  <2>2. PICK s \in Bad : \A r \in SUBSET s : r \in Bad => r = s
    <3>1. Bad \subseteq SUBSET T
      OBVIOUS
    <3>. HIDE DEF Bad
    <3>. QED  BY <2>1, <3>1, <1>1, Smallest
  <2>. DEFINE r == s \ {Pick(s)}
  <2>3. s # {}
    BY <1>2, <2>2 DEF Unrolled
  <2>4. Pick(s) \in s
    BY <2>3 DEF Pick
  <2>5. h[r] = k[r]
    BY <2>4, <2>2
  <2>6. h[s] = g[Pick(s)] + h[r] /\ k[s] = g[Pick(s)] + k[r]
    <3>. HIDE DEF h, k
    <3>1. s \in SUBSET T /\ s \in SUBSET S
      BY <2>2
    <3>. QED  BY <1>2, <2>3, <3>1 DEF Unrolled
  <2>. QED  BY <2>2, <2>5, <2>6
<1>. QED  BY <1>3, SumIsIter

\* The sum is one element's value and the sum of the rest ...
LEMMA SumPick ==
    ASSUME NEW g, NEW S, IsFiniteSet(S), S # {}
    PROVE  /\ Pick(S) \in S
           /\ SumOf(g, S) = g[Pick(S)] + SumOf(g, S \ {Pick(S)})
<1>1. Pick(S) \in S
  BY DEF Pick
<1>2. Unrolled(g, S, Iter(g, S))
  BY SumUnrolled
<1>3. Iter(g, S)[S] = g[Pick(S)] + Iter(g, S)[S \ {Pick(S)}]
  BY <1>2 DEF Unrolled
<1>. QED  BY <1>1, <1>3, SumIsIter, IterRestricts

\* Integers add up to an integer.
LEMMA SumType ==
    ASSUME NEW g, NEW S, IsFiniteSet(S), \A x \in S : g[x] \in Int
    PROVE  SumOf(g, S) \in Int
<1>. DEFINE Bad == {s \in SUBSET S : SumOf(g, s) \notin Int}
<1>1. SUFFICES ASSUME Bad # {} PROVE FALSE
  OBVIOUS
<1>2. PICK s \in Bad : \A r \in SUBSET s : r \in Bad => r = s
  <2>1. Bad \subseteq SUBSET S
    OBVIOUS
  <2>. HIDE DEF Bad
  <2>. QED  BY <1>1, <2>1, Smallest
<1>0. /\ s \in SUBSET S /\ ~(SumOf(g, s) \in Int)
      /\ \A r \in SUBSET s : r # s => (SumOf(g, r) \in Int)
  BY <1>2
<1>3. s # {}
  <2>1. s = {} => SumOf(g, s) = 0
    BY SumEmpty
  <2>. QED  BY <1>0, <2>1
<1>4. IsFiniteSet(s)
  BY FS_Subset
<1>5. Pick(s) \in s /\ SumOf(g, s) = g[Pick(s)] + SumOf(g, s \ {Pick(s)})
  BY <1>3, <1>4, SumPick
<1>6. SumOf(g, s \ {Pick(s)}) \in Int
  BY <1>0, <1>5
<1>. QED  BY <1>0, <1>5, <1>6

\* ... and that element can be any: two elements can be taken in either order.
LEMMA SumRemove ==
    ASSUME NEW g, NEW S, IsFiniteSet(S), \A x \in S : g[x] \in Int, NEW x \in S
    PROVE  SumOf(g, S) = g[x] + SumOf(g, S \ {x})
<1>. DEFINE Holds(s) == \A y \in s : SumOf(g, s) = g[y] + SumOf(g, s \ {y})
            Bad == {s \in SUBSET S : ~Holds(s)}
<1>1. SUFFICES ASSUME Bad # {} PROVE FALSE
  OBVIOUS
<1>2. PICK s \in Bad : \A r \in SUBSET s : r \in Bad => r = s
  <2>1. Bad \subseteq SUBSET S
    OBVIOUS
  <2>. HIDE DEF Bad
  <2>. QED  BY <1>1, <2>1, Smallest
<1>0. /\ s \in SUBSET S /\ ~Holds(s)
      /\ \A r \in SUBSET s : r # s => Holds(r)
  BY <1>2
<1>3. PICK y \in s : SumOf(g, s) # g[y] + SumOf(g, s \ {y})
  BY <1>0
<1>4. \A u \in SUBSET s : IsFiniteSet(u)
  BY <1>0, FS_Subset
<1>5. PICK p \in s : SumOf(g, s) = g[p] + SumOf(g, s \ {p})
  BY <1>3, <1>4, SumPick
<1>6. y # p
  BY <1>3, <1>5
<1>7. Holds(s \ {y}) /\ Holds(s \ {p})
  <2>. HIDE DEF Holds
  <2>. QED  BY <1>0, <1>3, <1>5
<1>8. PICK r \in SUBSET s : r = (s \ {y}) \ {p} /\ r = (s \ {p}) \ {y}
  OBVIOUS
<1>9. SumOf(g, s \ {y}) = g[p] + SumOf(g, r)
  BY <1>6, <1>7, <1>8
<1>10. SumOf(g, s \ {p}) = g[y] + SumOf(g, r)
  BY <1>6, <1>7, <1>8
<1>11. g[p] \in Int /\ g[y] \in Int
  BY <1>0
<1>12. SumOf(g, r) \in Int
  BY <1>0, <1>4, SumType
<1>. QED  BY <1>3, <1>5, <1>9, <1>10, <1>11, <1>12

\* One more element adds its value.
LEMMA SumAdd ==
    ASSUME NEW g, NEW S, IsFiniteSet(S), NEW x, x \notin S, g[x] \in Int,
           \A y \in S : g[y] \in Int
    PROVE  SumOf(g, S \union {x}) = g[x] + SumOf(g, S)
<1>1. IsFiniteSet(S \union {x}) /\ (S \union {x}) \ {x} = S
  BY FS_AddElement
<1>. QED  BY <1>1, SumRemove

\* Functions that agree on a set have one sum over it.
LEMMA SumCongruent ==
    ASSUME NEW g, NEW h, NEW S, IsFiniteSet(S), \A x \in S : g[x] = h[x]
    PROVE  SumOf(g, S) = SumOf(h, S)
<1>. DEFINE Bad == {s \in SUBSET S : SumOf(g, s) # SumOf(h, s)}
<1>1. SUFFICES ASSUME Bad # {} PROVE FALSE
  OBVIOUS
<1>2. PICK s \in Bad : \A r \in SUBSET s : r \in Bad => r = s
  <2>1. Bad \subseteq SUBSET S
    OBVIOUS
  <2>. HIDE DEF Bad
  <2>. QED  BY <1>1, <2>1, Smallest
<1>0. /\ s \in SUBSET S /\ ~(SumOf(g, s) = SumOf(h, s))
      /\ \A r \in SUBSET s : r # s => (SumOf(g, r) = SumOf(h, r))
  BY <1>2
<1>3. s # {}
  BY <1>0, SumEmpty
<1>4. IsFiniteSet(s)
  BY FS_Subset
<1>5. /\ Pick(s) \in s
      /\ SumOf(g, s) = g[Pick(s)] + SumOf(g, s \ {Pick(s)})
      /\ SumOf(h, s) = h[Pick(s)] + SumOf(h, s \ {Pick(s)})
  BY <1>3, <1>4, SumPick
<1>6. SumOf(g, s \ {Pick(s)}) = SumOf(h, s \ {Pick(s)})
  BY <1>0, <1>5
<1>. QED  BY <1>0, <1>5, <1>6

\* A sum of no greater values is no greater.
LEMMA SumMonotone ==
    ASSUME NEW g, NEW h, NEW S, IsFiniteSet(S),
           \A x \in S : g[x] \in Int /\ h[x] \in Int /\ g[x] <= h[x]
    PROVE  SumOf(g, S) <= SumOf(h, S)
<1>. DEFINE Bad == {s \in SUBSET S : ~(SumOf(g, s) <= SumOf(h, s))}
<1>1. SUFFICES ASSUME Bad # {} PROVE FALSE
  OBVIOUS
<1>2. PICK s \in Bad : \A r \in SUBSET s : r \in Bad => r = s
  <2>1. Bad \subseteq SUBSET S
    OBVIOUS
  <2>. HIDE DEF Bad
  <2>. QED  BY <1>1, <2>1, Smallest
<1>0. /\ s \in SUBSET S /\ ~(SumOf(g, s) <= SumOf(h, s))
      /\ \A r \in SUBSET s : r # s => (SumOf(g, r) <= SumOf(h, r))
  BY <1>2
<1>3. s # {}
  <2>1. s = {} => SumOf(g, s) = 0 /\ SumOf(h, s) = 0
    BY SumEmpty
  <2>. QED  BY <1>0, <2>1
<1>4. IsFiniteSet(s) /\ IsFiniteSet(s \ {Pick(s)})
  BY FS_Subset
<1>5. /\ Pick(s) \in s
      /\ SumOf(g, s) = g[Pick(s)] + SumOf(g, s \ {Pick(s)})
      /\ SumOf(h, s) = h[Pick(s)] + SumOf(h, s \ {Pick(s)})
  BY <1>3, <1>4, SumPick
<1>6. SumOf(g, s \ {Pick(s)}) <= SumOf(h, s \ {Pick(s)})
  BY <1>0, <1>5
<1>7. SumOf(g, s \ {Pick(s)}) \in Int /\ SumOf(h, s \ {Pick(s)}) \in Int
  BY <1>4, SumType
<1>8. g[Pick(s)] \in Int /\ h[Pick(s)] \in Int /\ g[Pick(s)] <= h[Pick(s)]
  BY <1>5
<1>. QED  BY <1>0, <1>5, <1>6, <1>7, <1>8

\* A change of one value changes the sum by as much.
LEMMA SumChange ==
    ASSUME NEW g, NEW h, NEW S, IsFiniteSet(S), NEW x \in S,
           \A y \in S : g[y] \in Int /\ h[y] \in Int,
           \A y \in S \ {x} : h[y] = g[y]
    PROVE  SumOf(h, S) = SumOf(g, S) - g[x] + h[x]
<1>1. IsFiniteSet(S \ {x})
  BY FS_RemoveElement
<1>2. SumOf(g, S) = g[x] + SumOf(g, S \ {x}) /\ SumOf(h, S) = h[x] + SumOf(h, S \ {x})
  BY SumRemove
<1>3. SumOf(g, S \ {x}) = SumOf(h, S \ {x})
  BY <1>1, SumCongruent
<1>4. SumOf(g, S \ {x}) \in Int
  BY <1>1, SumType
<1>. QED  BY <1>2, <1>3, <1>4

\* Zeros add up to 0.
LEMMA SumZero ==
    ASSUME NEW g, NEW S, IsFiniteSet(S), \A x \in S : g[x] = 0
    PROVE  SumOf(g, S) = 0
<1>. DEFINE Bad == {s \in SUBSET S : SumOf(g, s) # 0}
<1>1. SUFFICES ASSUME Bad # {} PROVE FALSE
  OBVIOUS
<1>2. PICK s \in Bad : \A r \in SUBSET s : r \in Bad => r = s
  <2>1. Bad \subseteq SUBSET S
    OBVIOUS
  <2>. HIDE DEF Bad
  <2>. QED  BY <1>1, <2>1, Smallest
<1>0. /\ s \in SUBSET S /\ ~(SumOf(g, s) = 0)
      /\ \A r \in SUBSET s : r # s => (SumOf(g, r) = 0)
  BY <1>2
<1>3. s # {}
  BY <1>0, SumEmpty
<1>4. IsFiniteSet(s)
  BY FS_Subset
<1>5. Pick(s) \in s /\ SumOf(g, s) = g[Pick(s)] + SumOf(g, s \ {Pick(s)})
  BY <1>3, <1>4, SumPick
<1>6. SumOf(g, s \ {Pick(s)}) = 0
  BY <1>0, <1>5
<1>. QED  BY <1>0, <1>5, <1>6

\* Natural numbers add up to one.
LEMMA SumNat ==
    ASSUME NEW g, NEW S, IsFiniteSet(S), \A x \in S : g[x] \in Nat
    PROVE  SumOf(g, S) \in Nat
<1>. DEFINE h == [x \in S |-> 0]
<1>1. SumOf(h, S) = 0
  BY SumZero
<1>2. SumOf(h, S) <= SumOf(g, S)
  BY SumMonotone
<1>3. SumOf(g, S) \in Int
  BY SumType
<1>. QED  BY <1>1, <1>2, <1>3

\* No value is greater than a sum of natural numbers it is part of.
LEMMA SumMember ==
    ASSUME NEW g, NEW S, IsFiniteSet(S), \A x \in S : g[x] \in Nat, NEW x \in S
    PROVE  g[x] <= SumOf(g, S)
<1>1. IsFiniteSet(S \ {x})
  BY FS_RemoveElement
<1>2. SumOf(g, S \ {x}) \in Nat
  BY <1>1, SumNat
<1>3. SumOf(g, S) = g[x] + SumOf(g, S \ {x})
  BY SumRemove
<1>. QED  BY <1>2, <1>3

\* To leave elements out is to count them as 0.
LEMMA SumMasked ==
    ASSUME NEW g, NEW h, NEW S, IsFiniteSet(S), NEW T \in SUBSET S,
           \A x \in S : g[x] \in Int /\ h[x] = IF x \in T THEN g[x] ELSE 0
    PROVE  SumOf(g, T) = SumOf(h, S)
<1>. DEFINE Holds(s) == SumOf(h, s) = SumOf(g, s \cap T)
            Bad == {s \in SUBSET S : ~Holds(s)}
<1>1. SUFFICES ASSUME Bad # {} PROVE FALSE
  <2>1. S \cap T = T
    OBVIOUS
  <2>. QED  BY <2>1
<1>2. PICK s \in Bad : \A r \in SUBSET s : r \in Bad => r = s
  <2>1. Bad \subseteq SUBSET S
    OBVIOUS
  <2>. HIDE DEF Bad
  <2>. QED  BY <1>1, <2>1, Smallest
<1>0. /\ s \in SUBSET S /\ ~Holds(s)
      /\ \A r \in SUBSET s : r # s => Holds(r)
  BY <1>2
<1>3. s # {}
  <2>1. s = {} => s \cap T = {} /\ SumOf(h, s) = 0 /\ SumOf(g, {}) = 0
    BY SumEmpty
  <2>. QED  BY <1>0, <2>1
<1>4. IsFiniteSet(s) /\ IsFiniteSet(s \cap T)
  BY <1>0, FS_Subset
<1>5. PICK p \in s : SumOf(h, s) = h[p] + SumOf(h, s \ {p})
  BY <1>3, <1>4, SumPick
<1>6. SumOf(h, s \ {p}) = SumOf(g, (s \ {p}) \cap T)
  <2>1. s \ {p} \in SUBSET s /\ s \ {p} # s
    BY <1>5
  <2>. QED  BY <1>0, <2>1
<1>7. CASE p \in T
  <2>1. (s \ {p}) \cap T = (s \cap T) \ {p} /\ p \in s \cap T
    BY <1>7
  <2>2. \A x \in s \cap T : g[x] \in Int
    BY <1>0
  <2>3. SumOf(g, s \cap T) = g[p] + SumOf(g, (s \cap T) \ {p})
    BY <1>4, <2>1, <2>2, SumRemove
  <2>. QED  BY <1>0, <1>5, <1>6, <1>7, <2>1, <2>3
<1>8. CASE p \notin T
  <2>1. (s \ {p}) \cap T = s \cap T
    BY <1>8
  <2>2. \A x \in s \cap T : g[x] \in Int
    BY <1>0
  <2>3. SumOf(g, s \cap T) \in Int
    BY <1>4, <2>2, SumType
  <2>. QED  BY <1>0, <1>5, <1>6, <1>8, <2>1, <2>3
<1>. QED  BY <1>7, <1>8

\* A subset of natural numbers adds up to no more.
LEMMA SumSubset ==
    ASSUME NEW g, NEW S, IsFiniteSet(S), NEW T \in SUBSET S,
           \A x \in S : g[x] \in Nat
    PROVE  SumOf(g, T) <= SumOf(g, S)
<1>. DEFINE h == [x \in S |-> IF x \in T THEN g[x] ELSE 0]
<1>1. \A x \in S : /\ g[x] \in Int /\ h[x] \in Int /\ h[x] <= g[x]
                    /\ h[x] = IF x \in T THEN g[x] ELSE 0
  OBVIOUS
<1>. HIDE DEF h
<1>2. SumOf(g, T) = SumOf(h, S)
  BY <1>1, SumMasked
<1>3. SumOf(h, S) <= SumOf(g, S)
  BY <1>1, SumMonotone
<1>. QED  BY <1>2, <1>3

\* Ones add up to the number of elements.
LEMMA SumOfOnes ==
    ASSUME NEW g, NEW S, IsFiniteSet(S), \A x \in S : g[x] = 1
    PROVE  SumOf(g, S) = Cardinality(S)
<1>. DEFINE Holds(s) == SumOf(g, s) = Cardinality(s)
            Bad == {s \in SUBSET S : ~Holds(s)}
<1>1. SUFFICES ASSUME Bad # {} PROVE FALSE
  OBVIOUS
<1>2. PICK s \in Bad : \A r \in SUBSET s : r \in Bad => r = s
  <2>1. Bad \subseteq SUBSET S
    OBVIOUS
  <2>. HIDE DEF Bad
  <2>. QED  BY <1>1, <2>1, Smallest
<1>0. /\ s \in SUBSET S /\ ~Holds(s)
      /\ \A r \in SUBSET s : r # s => Holds(r)
  BY <1>2
<1>3. s # {}
  <2>1. s = {} => SumOf(g, s) = 0 /\ Cardinality(s) = 0
    BY SumEmpty, FS_EmptySet
  <2>. QED  BY <1>0, <2>1
<1>4. IsFiniteSet(s)
  BY <1>0, FS_Subset
<1>5. PICK p \in s : SumOf(g, s) = g[p] + SumOf(g, s \ {p})
  BY <1>3, <1>4, SumPick
<1>6. SumOf(g, s \ {p}) = Cardinality(s \ {p})
  <2>1. s \ {p} \in SUBSET s /\ s \ {p} # s
    BY <1>5
  <2>. QED  BY <1>0, <2>1
<1>7. Cardinality(s \ {p}) = Cardinality(s) - 1 /\ Cardinality(s) \in Nat
  BY <1>4, FS_RemoveElement, FS_CardinalityType
<1>. QED  BY <1>0, <1>5, <1>6, <1>7

\* To add 1 for the elements of T alone is to count them.
LEMMA SumIndicator ==
    ASSUME NEW h, NEW S, IsFiniteSet(S), NEW T \in SUBSET S,
           \A x \in S : h[x] = IF x \in T THEN 1 ELSE 0
    PROVE  SumOf(h, S) = Cardinality(T)
<1>. DEFINE g == [x \in S |-> 1]
<1>1. \A x \in S : /\ g[x] \in Int /\ g[x] = 1
                    /\ h[x] = IF x \in T THEN g[x] ELSE 0
  OBVIOUS
<1>. HIDE DEF g
<1>2. SumOf(g, T) = SumOf(h, S)
  BY <1>1, SumMasked
<1>3. SumOf(g, T) = Cardinality(T)
  BY <1>1, FS_Subset, SumOfOnes
<1>. QED  BY <1>2, <1>3

\* What becomes of a sum when one element comes, goes, or changes its value.
LEMMA SumMoves ==
    ASSUME NEW f, NEW g, NEW S, IsFiniteSet(S), NEW A \in SUBSET S, NEW B \in SUBSET S,
           NEW t \in S,
           \A x \in S : f[x] \in Int /\ g[x] \in Int,
           \A x \in S \ {t} : (x \in A <=> x \in B) /\ (x \in A => f[x] = g[x])
    PROVE  SumOf(g, B) = SumOf(f, A) + (IF t \in B THEN g[t] ELSE 0)
                                     - (IF t \in A THEN f[t] ELSE 0)
<1>. DEFINE p == [x \in S |-> IF x \in A THEN f[x] ELSE 0]
            q == [x \in S |-> IF x \in B THEN g[x] ELSE 0]
<1>1. /\ \A x \in S : f[x] \in Int /\ p[x] = IF x \in A THEN f[x] ELSE 0
      /\ \A x \in S : g[x] \in Int /\ q[x] = IF x \in B THEN g[x] ELSE 0
      /\ \A x \in S : p[x] \in Int /\ q[x] \in Int
      /\ \A x \in S \ {t} : q[x] = p[x]
  OBVIOUS
<1>. HIDE DEF p, q
<1>2. SumOf(f, A) = SumOf(p, S)
  BY <1>1, SumMasked
<1>3. SumOf(g, B) = SumOf(q, S)
  BY <1>1, SumMasked
<1>4. SumOf(q, S) = SumOf(p, S) - p[t] + q[t]
  BY <1>1, SumChange
<1>5. SumOf(p, S) \in Int
  BY <1>1, SumType
<1>. QED  BY <1>1, <1>2, <1>3, <1>4, <1>5

\* The same for a number of elements.
LEMMA CountMoves ==
    ASSUME NEW S, IsFiniteSet(S), NEW A \in SUBSET S, NEW B \in SUBSET S, NEW t,
           \A x \in S \ {t} : x \in A <=> x \in B
    PROVE  Cardinality(B) = Cardinality(A) + (IF t \in B THEN 1 ELSE 0)
                                           - (IF t \in A THEN 1 ELSE 0)
<1>1. IsFiniteSet(A) /\ IsFiniteSet(B)
  BY FS_Subset
<1>2. Cardinality(A) \in Nat /\ Cardinality(B) \in Nat
  BY <1>1, FS_CardinalityType
<1>3. CASE t \in A /\ t \notin B
  <2>1. B = A \ {t}
    BY <1>3
  <2>. QED  BY <1>1, <1>2, <1>3, <2>1, FS_RemoveElement
<1>4. CASE t \notin A /\ t \in B
  <2>1. A = B \ {t}
    BY <1>4
  <2>. QED  BY <1>1, <1>2, <1>4, <2>1, FS_RemoveElement
<1>5. CASE t \in A <=> t \in B
  <2>1. A = B
    BY <1>5
  <2>. QED  BY <1>2, <1>5, <2>1
<1>. QED  BY <1>3, <1>4, <1>5

\* A one-to-one map under which no value decreases leads to no smaller sum.
LEMMA SumInto ==
    ASSUME NEW f, NEW g, NEW A, NEW B, IsFiniteSet(A), IsFiniteSet(B), NEW m \in [A -> B],
           \A x \in A : f[x] \in Nat /\ f[x] <= g[m[x]],
           \A y \in B : g[y] \in Nat,
           \A x, y \in A : m[x] = m[y] => x = y
    PROVE  SumOf(f, A) <= SumOf(g, B)
<1>. DEFINE Image(s) == {m[x] : x \in s}
            Holds(s) == SumOf(f, s) <= SumOf(g, Image(s))
            Bad == {s \in SUBSET A : ~Holds(s)}
<1>1. \A s \in SUBSET A : IsFiniteSet(s) /\ Image(s) \in SUBSET B /\ IsFiniteSet(Image(s))
  BY FS_Subset
<1>2. Holds(A) => SumOf(f, A) <= SumOf(g, B)
  <2>1. SumOf(g, Image(A)) <= SumOf(g, B)
    BY <1>1, SumSubset
  <2>2. \A y \in Image(A) : g[y] \in Int
    BY <1>1
  <2>3. \A y \in B : g[y] \in Int
    OBVIOUS
  <2>4. \A x \in A : f[x] \in Int
    OBVIOUS
  <2>. HIDE DEF Image
  <2>5. SumOf(g, Image(A)) \in Int /\ SumOf(g, B) \in Int /\ SumOf(f, A) \in Int
    BY <1>1, <2>2, <2>3, <2>4, SumType
  <2>. QED  BY <2>1, <2>5
<1>3. SUFFICES ASSUME Bad # {} PROVE FALSE
  BY <1>2
<1>4. PICK s \in Bad : \A r \in SUBSET s : r \in Bad => r = s
  <2>1. Bad \subseteq SUBSET A
    OBVIOUS
  <2>. HIDE DEF Bad
  <2>. QED  BY <1>3, <2>1, Smallest
<1>5. /\ s \in SUBSET A /\ ~Holds(s)
      /\ \A r \in SUBSET s : r # s => Holds(r)
  BY <1>4
<1>6. s # {}
  <2>1. SUFFICES ASSUME s = {} PROVE FALSE
    OBVIOUS
  <2>2. Image(s) = {}
    BY <2>1
  <2>3. SumOf(f, s) = 0 /\ SumOf(g, Image(s)) = 0
    BY <2>1, <2>2, SumEmpty
  <2>4. ~(SumOf(f, s) <= SumOf(g, Image(s)))
    BY <1>5
  <2>. HIDE DEF Image
  <2>. QED  BY <2>3, <2>4
<1>7. PICK p \in s : TRUE
  BY <1>6
<1>8. /\ Image(s \ {p}) = Image(s) \ {m[p]} /\ m[p] \in Image(s)
      /\ s \ {p} \in SUBSET s /\ s \ {p} # s
  <2>1. ASSUME NEW x \in s \ {p} PROVE m[x] # m[p]
    BY <1>5, <1>7
  <2>. QED  BY <1>7, <2>1
<1>9. /\ \A x \in s : f[x] \in Int
      /\ \A y \in Image(s) : g[y] \in Int
      /\ f[p] \in Int /\ g[m[p]] \in Int /\ f[p] <= g[m[p]]
  BY <1>1, <1>5, <1>7
<1>10. Holds(s \ {p})
  BY <1>5, <1>8
<1>. HIDE DEF Image
<1>11. /\ SumOf(f, s) = f[p] + SumOf(f, s \ {p})
       /\ SumOf(g, Image(s)) = g[m[p]] + SumOf(g, Image(s) \ {m[p]})
  BY <1>1, <1>5, <1>7, <1>8, <1>9, SumRemove
<1>12. SumOf(f, s \ {p}) \in Int /\ SumOf(g, Image(s) \ {m[p]}) \in Int
  <2>1. IsFiniteSet(s \ {p}) /\ IsFiniteSet(Image(s) \ {m[p]})
    BY <1>1, <1>5, FS_Subset
  <2>. QED  BY <1>9, <2>1, SumType
<1>13. SumOf(f, s \ {p}) <= SumOf(g, Image(s) \ {m[p]})
  BY <1>8, <1>10
<1>14. ~(SumOf(f, s) <= SumOf(g, Image(s)))
  BY <1>5
<1>. QED  BY <1>9, <1>11, <1>12, <1>13, <1>14

-----------------------------------------------------------------------------
(* Recursion over numbers.                                                   *)

\* A function that begins with base and makes each value of the one before it.
Follows(h, base, step, i) == h[i] = IF i = 0 THEN base ELSE step[i][h[i - 1]]

\* There is such a function up to n, whatever the steps: by the least number up to
\* which there is none.
LEMMA RecursionUpTo ==
    ASSUME NEW n \in Nat, NEW V, NEW base \in V, NEW step \in [1 .. n -> [V -> V]]
    PROVE  \E h \in [0 .. n -> V] : \A i \in 0 .. n : Follows(h, base, step, i)
<1>. DEFINE good(m) == \E h \in [0 .. m -> V] : \A i \in 0 .. m : Follows(h, base, step, i)
            Bad == {m \in Nat : m <= n /\ ~good(m)}
<1>0. SUFFICES good(n)
  OBVIOUS
<1>1. SUFFICES ASSUME Bad # {} PROVE FALSE
  <2>1. n \in Nat /\ n <= n
    OBVIOUS
  <2>. HIDE DEF good
  <2>. QED  BY <2>1
<1>2. PICK m \in Bad : \A k \in Bad : m <= k
  <2>1. Bad \subseteq Nat
    <3>. HIDE DEF good
    <3>. QED  OBVIOUS
  <2>. HIDE DEF Bad
  <2>. QED  BY <1>1, <2>1, LeastNatural
<1>3. CASE m = 0
  <2>. DEFINE h == [i \in 0 .. 0 |-> base]
  <2>1. h \in [0 .. 0 -> V] /\ \A i \in 0 .. 0 : Follows(h, base, step, i)
    BY DEF Follows
  <2>. QED  BY <1>2, <1>3, <2>1
<1>4. CASE m # 0
  <2>1. m - 1 \in 0 .. n /\ m \in 1 .. n
    BY <1>4
  <2>2. good(m - 1)
    <3>1. m - 1 \in Nat /\ m - 1 <= n /\ ~(m <= m - 1)
      BY <2>1
    <3>2. m - 1 \notin Bad
      <4>. HIDE DEF Bad
      <4>. QED  BY <3>1, <1>2
    <3>. HIDE DEF good
    <3>. QED  BY <3>1, <3>2
  <2>3. PICK h \in [0 .. m - 1 -> V] : \A i \in 0 .. m - 1 : Follows(h, base, step, i)
    BY <2>2
  <2>. DEFINE g == [i \in 0 .. m |-> IF i = m THEN step[m][h[m - 1]] ELSE h[i]]
  <2>4. g \in [0 .. m -> V]
    <3>1. h[m - 1] \in V /\ step[m] \in [V -> V]
      BY <2>1, <2>3
    <3>2. \A i \in 0 .. m : g[i] \in V
      BY <3>1, <2>1, <2>3
    <3>. QED  BY <3>2
  <2>5. ASSUME NEW i \in 0 .. m PROVE Follows(g, base, step, i)
    <3>1. CASE i = m
      BY <3>1, <2>1 DEF Follows
    <3>2. CASE i # m
      <4>1. i \in 0 .. m - 1 /\ (i # 0 => i - 1 \in 0 .. m - 1)
        BY <3>2, <2>1
      <4>2. g[i] = h[i] /\ (i # 0 => g[i - 1] = h[i - 1])
        BY <4>1, <2>1
      <4>. QED  BY <4>1, <4>2, <2>3 DEF Follows
    <3>. QED  BY <3>1, <3>2
  <2>. QED  BY <2>4, <2>5, <1>2
<1>. QED  BY <1>3, <1>4

\* Two such functions agree as far as both go.
LEMMA RecursionAgrees ==
    ASSUME NEW m \in Nat, NEW base, NEW step, NEW g, NEW h,
           \A i \in 0 .. m : Follows(g, base, step, i) /\ Follows(h, base, step, i)
    PROVE  g[m] = h[m]
<1>. DEFINE Bad == {i \in Nat : i <= m /\ g[i] # h[i]}
<1>1. SUFFICES ASSUME Bad # {} PROVE FALSE
  OBVIOUS
<1>2. PICK i \in Bad : \A k \in Bad : i <= k
  <2>1. Bad \subseteq Nat
    OBVIOUS
  <2>. HIDE DEF Bad
  <2>. QED  BY <1>1, <2>1, LeastNatural
<1>3. i # 0 => i - 1 \in 0 .. m /\ g[i - 1] = h[i - 1]
  BY <1>2
<1>. QED  BY <1>2, <1>3 DEF Follows

\* There is such a function on all numbers.
LEMMA Recursion ==
    ASSUME NEW V, NEW base \in V, NEW step \in [Nat \ {0} -> [V -> V]]
    PROVE  \E h \in [Nat -> V] : \A i \in Nat : Follows(h, base, step, i)
<1>. DEFINE good(n, h) == /\ h \in [0 .. n -> V]
                          /\ \A i \in 0 .. n : Follows(h, base, step, i)
            pick(n) == CHOOSE h : good(n, h)
            H == [n \in Nat |-> pick(n)[n]]
<1>1. ASSUME NEW n \in Nat PROVE good(n, pick(n))
  <2>. DEFINE s == [i \in 1 .. n |-> step[i]]
  <2>1. s \in [1 .. n -> [V -> V]]
    OBVIOUS
  <2>2. PICK h \in [0 .. n -> V] : \A i \in 0 .. n : Follows(h, base, s, i)
    <3>. HIDE DEF s
    <3>. QED  BY <2>1, RecursionUpTo
  <2>3. \A i \in 0 .. n : Follows(h, base, step, i)
    <3>1. \A i \in 0 .. n : i # 0 => s[i] = step[i]
      OBVIOUS
    <3>. HIDE DEF s
    <3>. QED  BY <2>2, <3>1 DEF Follows
  <2>4. good(n, h)
    BY <2>2, <2>3
  <2>. HIDE DEF good
  <2>. QED  BY <2>4
<1>2. H \in [Nat -> V]
  <2>1. ASSUME NEW n \in Nat PROVE pick(n)[n] \in V
    <3>. HIDE DEF pick
    <3>. QED  BY <1>1
  <2>. HIDE DEF pick
  <2>. QED  BY <2>1
<1>3. ASSUME NEW i \in Nat PROVE Follows(H, base, step, i)
  <2>1. i # 0 => pick(i)[i - 1] = pick(i - 1)[i - 1]
    <3>1. SUFFICES ASSUME i # 0 PROVE pick(i)[i - 1] = pick(i - 1)[i - 1]
      OBVIOUS
    <3>2. i - 1 \in Nat
      BY <3>1
    <3>4. good(i, pick(i)) /\ good(i - 1, pick(i - 1))
      <4>. HIDE DEF good, pick
      <4>. QED  BY <1>1, <3>2
    <3>. HIDE DEF pick
    <3>3. \A k \in 0 .. i - 1 : Follows(pick(i), base, step, k) /\ Follows(pick(i - 1), base, step, k)
      BY <3>2, <3>4
    <3>. DEFINE g == pick(i)
                f == pick(i - 1)
                m == i - 1
    <3>5. m \in Nat /\ \A k \in 0 .. m : Follows(g, base, step, k) /\ Follows(f, base, step, k)
      BY <3>2, <3>3
    <3>. HIDE DEF good, g, f, m
    <3>6. g[m] = f[m]
      BY <3>5, RecursionAgrees
    <3>. QED  BY <3>6 DEF g, f, m
  <2>2. Follows(pick(i), base, step, i)
    <3>. HIDE DEF pick
    <3>. QED  BY <1>1
  <2>. HIDE DEF pick
  <2>3. i # 0 => i - 1 \in Nat
    OBVIOUS
  <2>. QED  BY <2>1, <2>2, <2>3 DEF Follows
<1>. HIDE DEF H
<1>. QED  BY <1>2, <1>3

-----------------------------------------------------------------------------
(* Powers of two.                                                            *)

LEMMA PowersOfTwo ==
    /\ Pow2[0] = 1
    /\ \A k \in Nat : Pow2[k] \in Nat \ {0} /\ Pow2[k + 1] = 2 * Pow2[k]
<1>. DEFINE V == Nat \ {0}
            step == [i \in Nat \ {0} |-> [v \in V |-> 2 * v]]
            body(f) == [k \in Nat |-> IF k = 0 THEN 1 ELSE 2 * f[k - 1]]
<1>1. step \in [Nat \ {0} -> [V -> V]]
  OBVIOUS
<1>2. PICK h \in [Nat -> V] : \A i \in Nat : Follows(h, 1, step, i)
  <2>1. 1 \in V
    OBVIOUS
  <2>. HIDE DEF step, V
  <2>. QED  BY <1>1, <2>1, Recursion
<1>3. h = body(h)
  <2>1. ASSUME NEW i \in Nat PROVE h[i] = IF i = 0 THEN 1 ELSE 2 * h[i - 1]
    <3>1. i # 0 => i - 1 \in Nat /\ h[i - 1] \in V
      OBVIOUS
    <3>. QED  BY <1>2, <3>1 DEF Follows
  <2>. QED  BY <2>1
<1>4. Pow2 = body(Pow2)
  BY <1>3 DEF Pow2
<1>5. \A i \in Nat : Pow2[i] = IF i = 0 THEN 1 ELSE 2 * Pow2[i - 1]
  BY <1>4
<1>6. {i \in Nat : Pow2[i] \notin V} = {}
  <2>. DEFINE Bad == {i \in Nat : Pow2[i] \notin V}
  <2>1. SUFFICES ASSUME Bad # {} PROVE FALSE
    OBVIOUS
  <2>2. PICK i \in Bad : \A k \in Bad : i <= k
    BY <2>1, LeastNatural
  <2>3. i # 0 => i - 1 \in Nat /\ Pow2[i - 1] \in V
    BY <2>2
  <2>. QED  BY <2>2, <2>3, <1>5
<1>7. ASSUME NEW k \in Nat PROVE Pow2[k] \in Nat \ {0} /\ Pow2[k + 1] = 2 * Pow2[k]
  <2>1. k + 1 \in Nat /\ k + 1 # 0 /\ (k + 1) - 1 = k
    OBVIOUS
  <2>. QED  BY <1>5, <1>6, <2>1
<1>. QED  BY <1>5, <1>7

\* A larger exponent gives a multiple.
LEMMA PowersMultiply == \A j, k \in Nat : Pow2[j + k] = Pow2[j] * Pow2[k]
<1>. DEFINE Bad == {k \in Nat : ~ \A j \in Nat : Pow2[j + k] = Pow2[j] * Pow2[k]}
<1>1. SUFFICES ASSUME Bad # {} PROVE FALSE
  OBVIOUS
<1>2. PICK k \in Bad : \A m \in Bad : k <= m
  <2>1. Bad \subseteq Nat
    OBVIOUS
  <2>. HIDE DEF Bad
  <2>. QED  BY <1>1, <2>1, LeastNatural
<1>3. CASE k = 0
  BY <1>2, <1>3, PowersOfTwo
<1>4. CASE k # 0
  <2>1. k - 1 \in Nat /\ \A j \in Nat : Pow2[j + (k - 1)] = Pow2[j] * Pow2[k - 1]
    BY <1>2, <1>4
  <2>2. ASSUME NEW j \in Nat PROVE Pow2[j + k] = Pow2[j] * Pow2[k]
    <3>1. j + (k - 1) \in Nat /\ (j + (k - 1)) + 1 = j + k /\ (k - 1) + 1 = k
      BY <2>1
    <3>2. Pow2[j + k] = 2 * Pow2[j + (k - 1)] /\ Pow2[k] = 2 * Pow2[k - 1]
      BY <3>1, <2>1, PowersOfTwo
    <3>3. Pow2[j] \in Nat /\ Pow2[k - 1] \in Nat
      BY <2>1, PowersOfTwo
    <3>4. \A p, q \in Nat : 2 * (p * q) = p * (2 * q)
      OBVIOUS
    <3>. QED  BY <2>1, <3>2, <3>3, <3>4
  <2>. QED  BY <1>2, <2>2
<1>. QED  BY <1>3, <1>4

LEMMA PowersGrow == \A j, k \in Nat : j <= k => Pow2[j] <= Pow2[k]
<1>1. SUFFICES ASSUME NEW j \in Nat, NEW k \in Nat, j <= k PROVE Pow2[j] <= Pow2[k]
  OBVIOUS
<1>2. k - j \in Nat /\ j + (k - j) = k
  BY <1>1
<1>3. Pow2[j + (k - j)] = Pow2[j] * Pow2[k - j]
  BY <1>2, PowersMultiply, Zenon
<1>5. Pow2[j] \in Nat \ {0} /\ Pow2[k - j] \in Nat \ {0}
  BY <1>2, PowersOfTwo, Zenon
<1>4. \A p, q \in Nat \ {0} : p <= p * q
  OBVIOUS
<1>. QED  BY <1>2, <1>3, <1>4, <1>5

LEMMA PowersExceed == \A k \in Nat : k < Pow2[k]
<1>. DEFINE Bad == {k \in Nat : ~(k < Pow2[k])}
<1>1. SUFFICES ASSUME Bad # {} PROVE FALSE
  OBVIOUS
<1>2. PICK k \in Bad : \A m \in Bad : k <= m
  <2>1. Bad \subseteq Nat
    OBVIOUS
  <2>. HIDE DEF Bad
  <2>. QED  BY <1>1, <2>1, LeastNatural
<1>3. k # 0
  BY <1>2, PowersOfTwo
<1>4. k - 1 \in Nat /\ k - 1 < Pow2[k - 1] /\ (k - 1) + 1 = k
  BY <1>2, <1>3
<1>5. Pow2[k] = 2 * Pow2[k - 1] /\ Pow2[k - 1] \in Nat /\ Pow2[k] \in Nat
  BY <1>4, PowersOfTwo
<1>. QED  BY <1>2, <1>4, <1>5

\* The digits of a number.
LEMMA BitType == \A x, k \in Nat : Bit(x, k) \in {0, 1}
<1>1. \A x \in Nat, p \in Nat \ {0} : (x \div p) % 2 \in {0, 1}
  OBVIOUS
<1>. QED  BY <1>1, PowersOfTwo DEF Bit

LEMMA Division ==
    \A x \in Nat, p \in Nat \ {0} :
       /\ x = p * (x \div p) + (x % p)
       /\ x \div p \in Nat /\ x % p \in Nat /\ x % p < p
OBVIOUS

LEMMA DivisionIs ==
    \A q, r, p \in Nat : r < p => /\ (q * p + r) \div p = q
                                  /\ (q * p + r) % p = r
OBVIOUS

LEMMA ModuloDouble ==
    \A x \in Nat, p \in Nat \ {0} : x % (2 * p) = (x % p) + p * ((x \div p) % 2)
<1>. TAKE x \in Nat, p \in Nat \ {0}
<1>. DEFINE q == x \div p
            r == x % p
            h == q \div 2
            b == q % 2
<1>1. x = p * q + r /\ q \in Nat /\ r \in Nat /\ r < p
  BY Division
<1>2. q = 2 * h + b /\ h \in Nat /\ b \in {0, 1}
  BY <1>1
<1>. HIDE DEF q, r, h, b
<1>3. x = h * (2 * p) + (r + p * b)
  BY <1>1, <1>2
<1>4. r + p * b \in Nat /\ r + p * b < 2 * p /\ 2 * p \in Nat
  BY <1>1, <1>2
<1>5. x % (2 * p) = r + p * b
  BY <1>2, <1>3, <1>4, DivisionIs
<1>. QED  BY <1>5 DEF q, r, b

LEMMA OneMoreDigit ==
    \A x, k \in Nat : x % Pow2[k + 1] = (x % Pow2[k]) + Pow2[k] * Bit(x, k)
BY PowersOfTwo, ModuloDouble DEF Bit

\* Numbers whose first k digits agree have one remainder.
LEMMA DigitsTell ==
    ASSUME NEW x \in Nat, NEW y \in Nat, NEW k \in Nat,
           \A b \in 0 .. k - 1 : Bit(x, b) = Bit(y, b)
    PROVE  x % Pow2[k] = y % Pow2[k]
<1>. DEFINE Bad == {n \in Nat : n <= k /\ x % Pow2[n] # y % Pow2[n]}
<1>1. SUFFICES ASSUME Bad # {} PROVE FALSE
  OBVIOUS
<1>2. PICK n \in Bad : \A m \in Bad : n <= m
  <2>1. Bad \subseteq Nat
    OBVIOUS
  <2>. HIDE DEF Bad
  <2>. QED  BY <1>1, <2>1, LeastNatural
<1>3. n # 0
  BY <1>2, PowersOfTwo
<1>4. n - 1 \in Nat /\ n - 1 \in 0 .. k - 1 /\ (n - 1) + 1 = n
  BY <1>2, <1>3
<1>5. x % Pow2[n - 1] = y % Pow2[n - 1] /\ Bit(x, n - 1) = Bit(y, n - 1)
  BY <1>2, <1>4
<1>6. x % Pow2[n] = y % Pow2[n]
  BY <1>4, <1>5, OneMoreDigit
<1>. QED  BY <1>2, <1>6

\* A number below Pow2[k] has no digit from k on.
LEMMA NoDigitAbove ==
    \A x, k, b \in Nat : x < Pow2[k] /\ k <= b => Bit(x, b) = 0
<1>1. \A x \in Nat, p \in Nat \ {0} : x < p => (x \div p) % 2 = 0
  OBVIOUS
<1>2. \A x, k, b \in Nat : x < Pow2[k] /\ k <= b => x < Pow2[b]
  BY PowersGrow, PowersOfTwo
<1>. QED  BY <1>1, <1>2, PowersOfTwo DEF Bit

\* A multiple of Pow2[k] does not change the digits below k.
LEMMA LowDigits ==
    \A z, c, k, b \in Nat : b < k => Bit(z + c * Pow2[k], b) = Bit(z, b)
<1>. TAKE z, c, k, b \in Nat
<1>1. HAVE b < k
<1>2. k - (b + 1) \in Nat /\ (k - (b + 1)) + (b + 1) = k
  BY <1>1
<1>. DEFINE p == Pow2[b]
            m == Pow2[k - (b + 1)]
            q == z \div p
            r == z % p
<1>3. Pow2[k] = m * (2 * p) /\ p \in Nat \ {0} /\ m \in Nat
  <2>1. Pow2[(k - (b + 1)) + (b + 1)] = m * Pow2[b + 1]
    BY <1>2, PowersMultiply
  <2>2. Pow2[b + 1] = 2 * p /\ p \in Nat \ {0} /\ m \in Nat
    BY <1>2, PowersOfTwo
  <2>. QED  BY <1>2, <2>1, <2>2
<1>4. z = p * q + r /\ q \in Nat /\ r \in Nat /\ r < p
  BY <1>3, Division
<1>. HIDE DEF q, r, p, m
<1>5. z + c * (m * (2 * p)) = (q + 2 * (c * m)) * p + r
  BY <1>3, <1>4
<1>6. c * m \in Nat /\ q + 2 * (c * m) \in Nat
  BY <1>3, <1>4
<1>7. (z + c * (m * (2 * p))) \div p = q + 2 * (c * m)
  <2>. DEFINE d == q + 2 * (c * m)
  <2>1. d \in Nat /\ p \in Nat /\ z + c * (m * (2 * p)) = d * p + r
    BY <1>3, <1>5, <1>6
  <2>. HIDE DEF d
  <2>2. (d * p + r) \div p = d
    BY <1>4, <2>1, DivisionIs
  <2>. QED  BY <2>1, <2>2 DEF d
<1>8. \A i, j \in Nat : (i + 2 * j) % 2 = i % 2
  OBVIOUS
<1>9. (q + 2 * (c * m)) % 2 = q % 2
  BY <1>4, <1>6, <1>8
<1>. QED  BY <1>3, <1>7, <1>9 DEF Bit, p, q

\* Pow2[j] - 1 has a 1 in each of its j digits.
LEMMA AllOnes == \A j, b \in Nat : b < j => Bit(Pow2[j] - 1, b) = 1
<1>. TAKE j, b \in Nat
<1>1. HAVE b < j
<1>2. j - (b + 1) \in Nat /\ (j - (b + 1)) + (b + 1) = j
  BY <1>1
<1>. DEFINE p == Pow2[b]
            m == Pow2[j - (b + 1)]
<1>3. Pow2[j] = m * (2 * p) /\ p \in Nat \ {0} /\ m \in Nat \ {0}
  <2>1. Pow2[(j - (b + 1)) + (b + 1)] = m * Pow2[b + 1]
    BY <1>2, PowersMultiply
  <2>2. Pow2[b + 1] = 2 * p /\ p \in Nat \ {0} /\ m \in Nat \ {0}
    BY <1>2, PowersOfTwo
  <2>. QED  BY <1>2, <2>1, <2>2
<1>. HIDE DEF p, m
<1>4. m * (2 * p) - 1 = (2 * m - 1) * p + (p - 1)
  BY <1>3
<1>5. 2 * m - 1 \in Nat /\ p - 1 \in Nat /\ p - 1 < p /\ p \in Nat
  BY <1>3
<1>6. (m * (2 * p) - 1) \div p = 2 * m - 1
  <2>. DEFINE d == 2 * m - 1
              r == p - 1
  <2>. HIDE DEF d, r
  <2>1. (d * p + r) \div p = d
    BY <1>5, DivisionIs DEF d, r
  <2>. QED  BY <1>4, <2>1 DEF d, r
<1>7. (2 * m - 1) % 2 = 1
  BY <1>3
<1>. QED  BY <1>3, <1>6, <1>7 DEF Bit, p

\* There is a number with any given digits.
LEMMA DigitsGiven ==
    ASSUME NEW k \in Nat, NEW f \in [0 .. k - 1 -> {0, 1}]
    PROVE  \E z \in 0 .. Pow2[k] - 1 : \A b \in 0 .. k - 1 : Bit(z, b) = f[b]
<1>. DEFINE good(n) == \E z \in 0 .. Pow2[n] - 1 : \A b \in 0 .. n - 1 : Bit(z, b) = f[b]
            Bad == {n \in Nat : n <= k /\ ~good(n)}
<1>1. SUFFICES good(k)
  OBVIOUS
<1>2. SUFFICES ASSUME Bad # {} PROVE FALSE
  <2>. HIDE DEF good
  <2>. QED  OBVIOUS
<1>3. PICK n \in Bad : \A m \in Bad : n <= m
  <2>1. Bad \subseteq Nat
    <3>. HIDE DEF good
    <3>. QED  OBVIOUS
  <2>. HIDE DEF Bad
  <2>. QED  BY <1>2, <2>1, LeastNatural
<1>4. n \in Nat /\ n <= k /\ ~good(n)
  <2>. HIDE DEF good
  <2>. QED  BY <1>3
<1>5. CASE n = 0
  <2>1. 0 \in 0 .. Pow2[n] - 1 /\ 0 .. n - 1 = {}
    BY <1>5, PowersOfTwo
  <2>. QED  BY <1>4, <2>1
<1>6. CASE n # 0
  <2>1. n - 1 \in Nat /\ n - 1 <= k /\ n - 1 \in 0 .. k - 1 /\ (n - 1) + 1 = n /\ ~(n <= n - 1)
    BY <1>4, <1>6
  <2>2. n - 1 \notin Bad
    <3>. HIDE DEF Bad
    <3>. QED  BY <1>3, <2>1
  <2>3. good(n - 1)
    <3>. HIDE DEF good
    <3>. QED  BY <2>1, <2>2
  <2>. DEFINE p == Pow2[n - 1]
              c == f[n - 1]
  <2>4. PICK z \in 0 .. p - 1 : \A b \in 0 .. (n - 1) - 1 : Bit(z, b) = f[b]
    BY <2>3
  <2>. DEFINE y == z + c * p
  <2>5. p \in Nat \ {0} /\ Pow2[n] = 2 * p /\ c \in {0, 1} /\ z \in Nat
    BY <2>1, PowersOfTwo
  <2>. HIDE DEF p, c
  <2>6. y \in 0 .. Pow2[n] - 1
    BY <2>4, <2>5
  <2>7. Bit(y, n - 1) = c
    <3>1. z < p /\ y = c * p + z
      BY <2>4, <2>5
    <3>2. (c * p + z) \div p = c
      <4>1. c \in Nat /\ p \in Nat
        BY <2>5
      <4>. QED  BY <2>5, <3>1, <4>1, DivisionIs
    <3>3. c % 2 = c
      BY <2>5
    <3>. HIDE DEF y
    <3>. QED  BY <3>1, <3>2, <3>3 DEF Bit, p
  <2>8. ASSUME NEW b \in 0 .. n - 1 PROVE Bit(y, b) = f[b]
    <3>1. CASE b = n - 1
      BY <2>7, <3>1 DEF c
    <3>2. CASE b # n - 1
      <4>1. b \in 0 .. (n - 1) - 1 /\ b < n - 1 /\ b \in Nat
        BY <3>2, <2>1
      <4>2. Bit(z + c * Pow2[n - 1], b) = Bit(z, b)
        <5>1. c \in Nat
          BY <2>5
        <5>2. z \in Nat /\ n - 1 \in Nat /\ b \in Nat /\ b < n - 1
          BY <2>1, <2>5, <4>1
        <5>. DEFINE l == n - 1
        <5>. HIDE DEF l, y, good, Bad
        <5>3. l \in Nat /\ b < l
          BY <5>2 DEF l
        <5>4. Bit(z + c * Pow2[l], b) = Bit(z, b)
          BY <5>1, <5>2, <5>3, LowDigits
        <5>. QED  BY <5>4 DEF l
      <4>. QED  BY <2>4, <4>1, <4>2 DEF p
    <3>. QED  BY <3>1, <3>2
  <2>9. good(n)
    <3>. HIDE DEF y
    <3>. QED  BY <2>6, <2>8
  <2>. QED  BY <1>4, <2>9
<1>. QED  BY <1>5, <1>6

\* Multiplication by an odd number loses nothing of a word: a power of two that
\* divides the product divides the other factor.
LEMMA OddFactor ==
    ASSUME NEW K \in Nat, K % 2 = 1
    PROVE  \A w, d, m \in Nat : K * d = Pow2[w] * m => \E q \in Nat : d = Pow2[w] * q
<1>. DEFINE good(w) == \A d, m \in Nat : K * d = Pow2[w] * m => \E q \in Nat : d = Pow2[w] * q
            Bad == {w \in Nat : ~good(w)}
<1>1. SUFFICES ASSUME Bad # {} PROVE FALSE
  OBVIOUS
<1>2. PICK w \in Bad : \A v \in Bad : w <= v
  <2>1. Bad \subseteq Nat
    <3>. HIDE DEF good
    <3>. QED  OBVIOUS
  <2>. HIDE DEF Bad
  <2>. QED  BY <1>1, <2>1, LeastNatural
<1>3. w \in Nat /\ ~good(w)
  <2>. HIDE DEF good
  <2>. QED  BY <1>2
<1>4. CASE w = 0
  BY <1>3, <1>4, PowersOfTwo
<1>5. CASE w # 0
  <2>1. w - 1 \in Nat /\ (w - 1) + 1 = w /\ ~(w <= w - 1)
    BY <1>3, <1>5
  <2>2. w - 1 \notin Bad
    <3>. HIDE DEF Bad
    <3>. QED  BY <1>2, <2>1
  <2>3. good(w - 1)
    <3>. HIDE DEF good
    <3>. QED  BY <2>1, <2>2
  <2>. DEFINE p == Pow2[w - 1]
  <2>4. p \in Nat /\ Pow2[w] = 2 * p
    BY <2>1, PowersOfTwo
  <2>5. ASSUME NEW d \in Nat, NEW m \in Nat, K * d = Pow2[w] * m
        PROVE  \E q \in Nat : d = Pow2[w] * q
    <3>. HIDE DEF p
    <3>1. K * d = 2 * (p * m) /\ p * m \in Nat
      BY <2>4, <2>5
    <3>2. PICK e \in Nat : d = 2 * e
      <4>1. \A a, x, y \in Nat : a % 2 = 1 /\ a * x = 2 * y => x % 2 = 0
        <5>1. SUFFICES ASSUME NEW a \in Nat, NEW x \in Nat, NEW y \in Nat,
                              a % 2 = 1, a * x = 2 * y, x % 2 = 1
                       PROVE  FALSE
          <6>1. \A x \in Nat : x % 2 = 0 \/ x % 2 = 1
            OBVIOUS
          <6>. QED  BY <6>1
        <5>. DEFINE i == a \div 2
                    j == x \div 2
        <5>2. a = 2 * i + 1 /\ x = 2 * j + 1 /\ i \in Nat /\ j \in Nat
          BY <5>1
        <5>. HIDE DEF i, j
        <5>3. a * x = 2 * (i * x + j) + 1 /\ i * x + j \in Nat
          BY <5>2
        <5>4. \A n, l \in Nat : 2 * n + 1 # 2 * l
          OBVIOUS
        <5>. QED  BY <5>1, <5>3, <5>4
      <4>2. d % 2 = 0
        BY <3>1, <4>1
      <4>. QED  BY <4>2
    <3>3. K * e = p * m
      <4>1. K * e \in Nat /\ K * d = 2 * (K * e)
        BY <3>2
      <4>2. \A n, l \in Nat : 2 * n = 2 * l => n = l
        OBVIOUS
      <4>. QED  BY <3>1, <4>1, <4>2
    <3>4. PICK q \in Nat : e = p * q
      BY <2>3, <3>3 DEF p
    <3>5. d = Pow2[w] * q
      BY <3>2, <3>4, <2>4
    <3>. QED  BY <3>5
  <2>. QED  BY <1>3, <2>5
<1>. QED  BY <1>4, <1>5

LEMMA OddLosesNothing ==
    ASSUME NEW K \in Nat, K % 2 = 1, NEW w \in Nat,
           NEW x \in 0 .. Pow2[w] - 1, NEW y \in 0 .. Pow2[w] - 1,
           (x * K) % Pow2[w] = (y * K) % Pow2[w]
    PROVE  x = y
<1>. DEFINE p == Pow2[w]
<1>1. p \in Nat \ {0}
  BY PowersOfTwo
<1>2. \A u, v \in 0 .. p - 1 : u >= v /\ (u * K) % p = (v * K) % p => u = v
  <2>1. SUFFICES ASSUME NEW u \in 0 .. p - 1, NEW v \in 0 .. p - 1, u >= v,
                        (u * K) % p = (v * K) % p
                 PROVE  u = v
    OBVIOUS
  <2>2. u \in Nat /\ v \in Nat /\ u - v \in Nat /\ u - v < p /\ u * K \in Nat /\ v * K \in Nat
    BY <1>1, <2>1
  <2>. DEFINE i == (u * K) \div p
              j == (v * K) \div p
              r == (u * K) % p
  <2>3. u * K = p * i + r /\ v * K = p * j + r /\ i \in Nat /\ j \in Nat /\ r \in Nat
    <3>. HIDE DEF p
    <3>1. u * K = p * i + ((u * K) % p) /\ i \in Nat /\ (u * K) % p \in Nat
      BY <1>1, <2>2, Division
    <3>2. v * K = p * j + ((v * K) % p) /\ j \in Nat
      BY <1>1, <2>2, Division
    <3>. QED  BY <2>1, <3>1, <3>2
  <2>. HIDE DEF p, i, j, r
  <2>4. K * (u - v) = p * (i - j)
    BY <1>1, <2>2, <2>3
  <2>5. i - j \in Nat
    <3>1. u * K >= v * K
      BY <2>1, <2>2
    <3>2. p * i >= p * j
      BY <1>1, <2>2, <2>3, <3>1
    <3>. QED  BY <1>1, <2>3, <3>2
  <2>6. PICK q \in Nat : u - v = p * q
    <3>1. \A d, m \in Nat : K * d = p * m => \E q \in Nat : d = p * q
      BY OddFactor, Zenon DEF p
    <3>. QED  BY <2>2, <2>4, <2>5, <3>1
  <2>7. q = 0
    BY <1>1, <2>2, <2>6
  <2>. QED  BY <1>1, <2>2, <2>6, <2>7
<1>3. x >= y \/ y >= x
  BY <1>1
<1>. HIDE DEF p
<1>. QED  BY <1>2, <1>3 DEF p

\* A rotation of words of w digits by r, and that it loses nothing.
LEMMA RotationParts ==
    ASSUME NEW w \in Nat, NEW r \in 1 .. w - 1, NEW x \in 0 .. Pow2[w] - 1
    PROVE  LET hi == x \div Pow2[w - r]
               lo == x % Pow2[w - r]
               y  == ((x * Pow2[r]) % Pow2[w]) + x \div Pow2[w - r]
           IN /\ hi \in Nat /\ lo \in Nat /\ x = hi * Pow2[w - r] + lo
              /\ y \in 0 .. Pow2[w] - 1
              /\ y \div Pow2[r] = lo /\ y % Pow2[r] = hi
<1>. DEFINE p == Pow2[w - r]
            s == Pow2[r]
            hi == x \div p
            lo == x % p
<1>1. w - r \in Nat /\ r \in Nat /\ (w - r) + r = w /\ x \in Nat
  BY PowersOfTwo
<1>2. Pow2[w] = p * s /\ p \in Nat \ {0} /\ s \in Nat \ {0} /\ x < p * s
  <2>1. Pow2[(w - r) + r] = p * s
    BY <1>1, PowersMultiply
  <2>2. p \in Nat \ {0} /\ s \in Nat \ {0}
    BY <1>1, PowersOfTwo
  <2>. QED  BY <1>1, <2>1, <2>2
<1>3. x = p * hi + lo /\ hi \in Nat /\ lo \in Nat /\ lo < p
  BY <1>1, <1>2, Division
<1>. HIDE DEF p, s, hi, lo
<1>4. hi < s
  <2>1. SUFFICES ASSUME hi >= s PROVE FALSE
    BY <1>2, <1>3
  <2>2. p * hi >= p * s
    BY <1>2, <1>3, <2>1
  <2>. QED  BY <1>2, <1>3, <2>2
<1>5. lo * s \in Nat /\ lo * s + s <= p * s
  <2>1. lo + 1 <= p
    BY <1>2, <1>3
  <2>2. (lo + 1) * s <= p * s
    BY <1>2, <1>3, <2>1
  <2>. QED  BY <1>2, <1>3, <2>2
<1>6. x * s = hi * (p * s) + lo * s
  BY <1>2, <1>3
<1>7. (x * s) % (p * s) = lo * s
  <2>. DEFINE n == p * s
              l == lo * s
  <2>1. n \in Nat /\ l \in Nat /\ l < n
    BY <1>2, <1>5
  <2>. HIDE DEF n, l
  <2>2. (hi * n + l) % n = l
    BY <1>3, <2>1, DivisionIs
  <2>. QED  BY <1>6, <2>2 DEF n, l
<1>8. lo * s + hi \in 0 .. p * s - 1
  BY <1>2, <1>3, <1>4, <1>5
<1>9. (lo * s + hi) \div s = lo /\ (lo * s + hi) % s = hi
  BY <1>2, <1>3, <1>4, DivisionIs
<1>10. x = hi * p + lo
  BY <1>2, <1>3
<1>. QED  BY <1>2, <1>3, <1>7, <1>8, <1>9, <1>10 DEF p, s, hi, lo
=============================================================================
