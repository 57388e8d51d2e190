------------------------ MODULE SymbolReport_proofs ------------------------
(***************************************************************************)
(* Type correctness of SymbolReport, and what its cache promises, for any  *)
(* threads, reports, debug info and platform.                              *)
(***************************************************************************)
EXTENDS SymbolReport, Arithmetic, TLAPS

-----------------------------------------------------------------------------
(* The index of a PDB, and the search: for any publics in any order.         *)

IsAscending(s, S) == /\ s \in [1 .. Cardinality(S) -> S]
                     /\ \A j, k \in 1 .. Cardinality(S) : j < k => s[j] < s[k]

\* A set of numbers can be sorted: the least one, and then the others.
LEMMA CanBeSorted ==
    ASSUME NEW S, IsFiniteSet(S), \A x \in S : x \in Nat
    PROVE  \E s : IsAscending(s, S)
<1>. DEFINE Bad == {u \in SUBSET S : ~ \E s : IsAscending(s, u)}
<1>1. SUFFICES ASSUME Bad # {} PROVE FALSE
  OBVIOUS
<1>2. PICK u \in Bad : \A r \in SUBSET u : r \in Bad => r = u
  <2>1. Bad \subseteq SUBSET S
    OBVIOUS
  <2>. HIDE DEF Bad
  <2>2. \E s \in Bad : \A r \in SUBSET s : r \in Bad => r = s
    BY <1>1, <2>1, Smallest
  <2>. QED  BY <2>2
<1>3. u \subseteq Nat /\ IsFiniteSet(u) /\ Cardinality(u) \in Nat
  BY FS_Subset, FS_CardinalityType
<1>4. u # {}
  <2>1. SUFFICES ASSUME u = {} PROVE FALSE
    OBVIOUS
  <2>2. 1 .. Cardinality(u) = {}
    BY <2>1, FS_EmptySet
  <2>3. [k \in {} |-> 0] \in [{} -> {}]
    OBVIOUS
  <2>4. IsAscending([k \in {} |-> 0], u)
    BY <2>1, <2>2, <2>3 DEF IsAscending
  <2>. QED  BY <2>4
<1>5. PICK m \in u : \A x \in u : m <= x
  BY <1>3, <1>4, LeastNatural
<1>. DEFINE v == u \ {m}
            c == Cardinality(u)
<1>6. Cardinality(v) = c - 1 /\ c \in Nat /\ c > 0
  <2>1. Cardinality(v) = c - 1 /\ IsFiniteSet(v)
    BY <1>3, FS_RemoveElement
  <2>2. Cardinality(v) \in Nat
    BY <2>1, FS_CardinalityType
  <2>. QED  BY <1>3, <2>1, <2>2
<1>7. PICK g : IsAscending(g, v)
  <2>1. v \in SUBSET u /\ v # u
    OBVIOUS
  <2>. QED  BY <1>2, <2>1
<1>8. /\ g \in [1 .. c - 1 -> v]
      /\ \A j, k \in 1 .. c - 1 : j < k => g[j] < g[k]
  BY <1>6, <1>7 DEF IsAscending
<1>9. \A x \in v : x \in u /\ x \in Nat /\ m < x
  BY <1>3, <1>5
<1>. DEFINE f == [k \in 1 .. c |-> IF k = 1 THEN m ELSE g[k - 1]]
<1>. HIDE DEF v
<1>10. ASSUME NEW k \in 1 .. c PROVE f[k] \in u
  BY <1>6, <1>8, <1>9
<1>11. ASSUME NEW j \in 1 .. c, NEW k \in 1 .. c, j < k PROVE f[j] < f[k]
  <2>1. k - 1 \in 1 .. c - 1 /\ f[k] = g[k - 1] /\ g[k - 1] \in v
    BY <1>6, <1>8, <1>11
  <2>2. CASE j = 1
    BY <1>9, <2>1, <2>2
  <2>3. CASE j # 1
    <3>1. j - 1 \in 1 .. c - 1 /\ f[j] = g[j - 1] /\ j - 1 < k - 1
      BY <1>6, <1>11, <2>3
    <3>. QED  BY <1>8, <2>1, <3>1
  <2>. QED  BY <2>2, <2>3
<1>12. IsAscending(f, u)
  BY <1>10, <1>11 DEF IsAscending
<1>. QED  BY <1>12

\* The sorted sequence has every element, at one place.
LEMMA AscendingIs ==
    ASSUME NEW S, IsFiniteSet(S), \A x \in S : x \in Nat
    PROVE  /\ IsAscending(Ascending(S), S)
           /\ \A r \in S : \E k \in 1 .. Cardinality(S) : Ascending(S)[k] = r
<1>. DEFINE c == Cardinality(S)
            s == Ascending(S)
<1>1. IsAscending(s, S)
  <2>1. PICK f : IsAscending(f, S)
    BY CanBeSorted
  <2>. QED  BY <2>1 DEF IsAscending, Ascending
<1>2. c \in Nat /\ IsFiniteSet(1 .. c) /\ Cardinality(1 .. c) = c
  BY FS_CardinalityType, FS_Interval
<1>. HIDE DEF c, s
<1>3. /\ s \in [1 .. c -> S]
      /\ \A j, k \in 1 .. c : j < k => s[j] < s[k]
  BY <1>1 DEF IsAscending, c
<1>4. ASSUME NEW j \in 1 .. c, NEW k \in 1 .. c, s[j] = s[k] PROVE j = k
  <2>1. s[j] \in Nat /\ s[k] \in Nat
    BY <1>3
  <2>2. ~(j < k) /\ ~(k < j)
    BY <1>3, <1>4, <2>1
  <2>. QED  BY <1>2, <2>2
<1>5. s \in Injection(1 .. c, S)
  BY <1>3, <1>4 DEF Injection, IsInjective
<1>6. s \in Surjection(1 .. c, S)
  <2>1. Cardinality(1 .. c) = Cardinality(S)
    BY <1>2 DEF c
  <2>. QED  BY <1>5, <2>1, FS_Injection
<1>7. \A r \in S : \E k \in 1 .. c : s[k] = r
  BY <1>6 DEF Surjection
<1>. QED  BY <1>1, <1>7 DEF c, s

LEMMA RvasAreNat ==
    ASSUME NEW publics \in Seq(PublicSymbol)
    PROVE  /\ \A i \in DOMAIN publics : /\ i \in Nat
                                       /\ publics[i].rva \in Nat
                                       /\ publics[i].name \in Names
           /\ Rvas(publics) \subseteq Nat
<1>1. ASSUME NEW i \in DOMAIN publics
      PROVE  i \in Nat /\ publics[i].rva \in Nat /\ publics[i].name \in Names
  <2>1. i \in 1 .. Len(publics)
    OBVIOUS
  <2>2. publics[i] \in PublicSymbol
    BY <2>1
  <2>. QED  BY <2>1, <2>2 DEF PublicSymbol
<1>. QED  BY <1>1 DEF Rvas

\* At every place where there are publics one of them is the first.
LEMMA FirstIs ==
    ASSUME NEW publics \in Seq(PublicSymbol), NEW r \in Rvas(publics)
    PROVE  /\ First(publics, r) \in DOMAIN publics
           /\ publics[First(publics, r)].rva = r
           /\ \A j \in DOMAIN publics :
                 publics[j].rva = r => First(publics, r) <= j
<1>. DEFINE same == {i \in DOMAIN publics : publics[i].rva = r}
<1>1. same \subseteq Nat /\ same # {}
  BY DEF Rvas
<1>. HIDE DEF same
<1>2. PICK n \in same : \A m \in same : n <= m
  BY <1>1, LeastNatural
<1>3. First(publics, r) = Min(same)
  BY DEF First, same
<1>4. Min(same) \in same /\ \A m \in same : Min(same) <= m
  BY <1>2 DEF Min
<1>. QED  BY <1>3, <1>4 DEF same

\* The index: one entry per place, in ascending order.
LEMMA IndexIs ==
    ASSUME NEW publics \in Seq(PublicSymbol)
    PROVE  LET c     == Cardinality(Rvas(publics))
               index == build_index(publics)
           IN /\ c \in Nat /\ DOMAIN index = 1 .. c
              /\ Rvas(publics) \subseteq Nat
              /\ \A k \in 1 .. c :
                    /\ index[k].rva \in Rvas(publics)
                    /\ index[k] = publics[First(publics, index[k].rva)]
              /\ \A j, k \in 1 .. c : j < k => index[j].rva < index[k].rva
              /\ \A r \in Rvas(publics) : \E k \in 1 .. c : index[k].rva = r
<1>. DEFINE R == Rvas(publics)
            c == Cardinality(R)
            s == Ascending(R)
            index == build_index(publics)
<1>1. R \subseteq Nat /\ IsFiniteSet(R) /\ c \in Nat
  <2>1. R \subseteq Nat
    BY RvasAreNat
  <2>2. IsFiniteSet(R)
    <3>. DEFINE n == Len(publics)
                rva == [i \in 1 .. n |-> publics[i].rva]
    <3>1. n \in Nat /\ DOMAIN publics = 1 .. n
      OBVIOUS
    <3>2. IsFiniteSet(1 .. n)
      BY <3>1, FS_Interval
    <3>3. rva \in Surjection(1 .. n, R)
      BY <3>1 DEF Surjection, Rvas
    <3>. HIDE DEF n, rva, R
    <3>. QED  BY <3>2, <3>3, FS_Surjection
  <2>. QED  BY <2>1, <2>2, FS_CardinalityType
<1>. HIDE DEF R
<1>2. /\ IsAscending(s, R)
      /\ \A r \in R : \E k \in 1 .. c : s[k] = r
  BY <1>1, AscendingIs
<1>. HIDE DEF c, s
<1>3. /\ s \in [1 .. c -> R]
      /\ \A j, k \in 1 .. c : j < k => s[j] < s[k]
  BY <1>2 DEF IsAscending, c
<1>4. index = [k \in 1 .. c |-> publics[First(publics, s[k])]]
  BY <1>3 DEF build_index, s, R
<1>. HIDE DEF index
<1>5. ASSUME NEW k \in 1 .. c
      PROVE  index[k].rva = s[k] /\ index[k] = publics[First(publics, s[k])]
  BY <1>3, <1>4, FirstIs DEF R
<1>6. DOMAIN index = 1 .. c
  BY <1>4
<1>7. \A k \in 1 .. c : /\ index[k].rva \in R
                       /\ index[k] = publics[First(publics, index[k].rva)]
  BY <1>3, <1>5
<1>8. \A j, k \in 1 .. c : j < k => index[j].rva < index[k].rva
  BY <1>3, <1>5
<1>9. \A r \in R : \E k \in 1 .. c : index[k].rva = r
  BY <1>2, <1>5
<1>. QED  BY <1>1, <1>6, <1>7, <1>8, <1>9 DEF R, c, index

\* A set of places with everything before them begins with the first.
LEMMA InitialSegment ==
    ASSUME NEW n \in Nat, NEW D \in SUBSET (1 .. n),
           \A k \in D : \A j \in 1 .. k : j \in D
    PROVE  Cardinality(D) \in Nat /\ D = 1 .. Cardinality(D)
<1>. DEFINE Missing == {m \in 1 .. n + 1 : m \notin D}
<1>1. Missing \subseteq Nat /\ n + 1 \in Missing
  OBVIOUS
<1>. HIDE DEF Missing
<1>2. PICK m \in Missing : \A l \in Missing : m <= l
  BY <1>1, LeastNatural
<1>3. m \in 1 .. n + 1 /\ m \notin D /\ \A l \in 1 .. n + 1 : l \notin D => m <= l
  BY <1>2 DEF Missing
<1>4. D = 1 .. m - 1
  <2>1. ASSUME NEW k \in D PROVE k \in 1 .. m - 1
    <3>1. ~(m <= k)
      BY <1>3
    <3>. QED  BY <1>3, <3>1
  <2>2. ASSUME NEW k \in 1 .. m - 1 PROVE k \in D
    BY <1>3
  <2>. QED  BY <2>1, <2>2
<1>5. Cardinality(1 .. m - 1) = m - 1
  BY <1>3, FS_Interval
<1>. QED  BY <1>3, <1>4, <1>5

\* The symbol that an address lies in is the first at the last place before it.
LEMMA CoveringIs ==
    ASSUME NEW publics \in Seq(PublicSymbol), NEW a \in Nat,
           NEW r \in Rvas(publics), r <= a % RvaWidth,
           \A q \in Rvas(publics) : q <= a % RvaWidth => q <= r
    PROVE  Covering(publics, a) = {publics[First(publics, r)].name}
<1>. DEFINE begun   == {i \in DOMAIN publics : publics[i].rva <= a % RvaWidth}
            last(i) == \A j \in begun : publics[j].rva <= publics[i].rva
            first(i) == \A j \in begun : publics[j].rva = publics[i].rva => i <= j
            f == First(publics, r)
<1>0. \A i \in DOMAIN publics : /\ publics[i].rva \in Nat /\ i \in Nat
                               /\ publics[i].rva \in Rvas(publics)
  BY RvasAreNat DEF Rvas
<1>1. /\ f \in DOMAIN publics /\ publics[f].rva = r
      /\ \A j \in DOMAIN publics : publics[j].rva = r => f <= j
  BY FirstIs
<1>. HIDE DEF f
<1>2. f \in begun /\ last(f) /\ first(f)
  BY <1>0, <1>1
<1>3. ASSUME NEW i \in begun, last(i), first(i) PROVE i = f
  <2>1. publics[i].rva <= r /\ r <= publics[i].rva
    BY <1>0, <1>1, <1>2, <1>3
  <2>2. publics[i].rva = r
    BY <1>0, <1>1, <2>1
  <2>3. i <= f /\ f <= i
    BY <1>1, <1>2, <1>3, <2>2
  <2>. QED  BY <1>0, <1>1, <2>3
<1>4. {i \in begun : last(i) /\ first(i)} = {f}
  <2>. HIDE DEF begun, last, first
  <2>. QED  BY <1>2, <1>3
<1>. QED  BY <1>4 DEF Covering, f

\* Whatever address is looked for, the search gives what covers it.
LEMMA SearchIsRight ==
    ASSUME NEW publics \in Seq(PublicSymbol), NEW a \in Nat
    PROVE  LET answer == search(build_index(publics), a)
           IN \/ answer = << >> /\ Covering(publics, a) = {}
              \/ \E name \in Names :
                    answer = <<name>> /\ Covering(publics, a) = {name}
<1>. DEFINE R == Rvas(publics)
            c == Cardinality(R)
            index == build_index(publics)
            rva == a % RvaWidth
            smaller == {k \in DOMAIN index : index[k].rva < rva}
            at == Cardinality(smaller)
            ok == \E k \in DOMAIN index : index[k].rva = rva
<1>1. /\ c \in Nat /\ DOMAIN index = 1 .. c
      /\ R \subseteq Nat
      /\ \A k \in 1 .. c : /\ index[k].rva \in R
                           /\ index[k] = publics[First(publics, index[k].rva)]
      /\ \A j, k \in 1 .. c : j < k => index[j].rva < index[k].rva
      /\ \A r \in R : \E k \in 1 .. c : index[k].rva = r
  BY IndexIs
<1>2. search(index, a) = IF ok THEN <<index[at + 1].name>>
                         ELSE IF at = 0 THEN << >> ELSE <<index[at].name>>
  BY DEF search, binary_search
<1>3. rva \in Nat
  BY RvaAssumption
<1>4. ASSUME NEW r \in R
      PROVE  publics[First(publics, r)].name \in Names
  BY <1>4, FirstIs, RvasAreNat
<1>. HIDE DEF R, c, index, rva
<1>5. at \in Nat /\ smaller = 1 .. at /\ at <= c
  <2>1. smaller \in SUBSET (1 .. c)
    BY <1>1
  <2>2. ASSUME NEW k \in smaller, NEW j \in 1 .. k PROVE j \in smaller
    <3>1. k \in 1 .. c /\ j \in 1 .. c /\ index[k].rva < rva
      BY <1>1
    <3>2. index[k].rva \in Nat /\ index[j].rva \in Nat
      BY <1>1, <3>1
    <3>3. index[j].rva <= index[k].rva
      <4>1. j < k \/ j = k
        BY <3>1
      <4>2. j < k => index[j].rva < index[k].rva
        BY <1>1, <3>1
      <4>. QED  BY <3>2, <4>1, <4>2
    <3>. QED  BY <1>1, <1>3, <3>1, <3>2, <3>3
  <2>. HIDE DEF smaller
  <2>3. at \in Nat /\ smaller = 1 .. at
    BY <1>1, <2>1, <2>2, InitialSegment
  <2>4. at <= c
    <3>1. at # 0 => at \in smaller
      BY <2>3
    <3>. QED  BY <1>1, <2>1, <2>3, <3>1
  <2>. QED  BY <2>3, <2>4
<1>6. \A k \in 1 .. c : index[k].rva < rva <=> k <= at
  <2>1. \A k \in 1 .. c : index[k].rva < rva <=> k \in smaller
    BY <1>1
  <2>. HIDE DEF smaller
  <2>. QED  BY <1>5, <2>1
<1>. HIDE DEF smaller, at, ok
<1>7. CASE ok
  <2>1. PICK k \in 1 .. c : index[k].rva = rva
    BY <1>1, <1>7 DEF ok
  <2>2. k = at + 1
    <3>1. ~(k <= at)
      BY <1>3, <1>6, <2>1
    <3>2. ~(at + 1 < k)
      <4>1. SUFFICES ASSUME at + 1 < k PROVE FALSE
        OBVIOUS
      <4>2. at + 1 \in 1 .. c
        BY <1>1, <1>5, <4>1
      <4>3. index[at + 1].rva < rva
        BY <1>1, <2>1, <4>1, <4>2
      <4>. QED  BY <1>5, <1>6, <4>2, <4>3
    <3>. QED  BY <1>1, <1>5, <3>1, <3>2
  <2>3. rva \in R /\ rva <= rva /\ \A q \in R : q <= rva => q <= rva
    BY <1>1, <1>3, <2>1
  <2>4. Covering(publics, a) = {publics[First(publics, rva)].name}
    BY <2>3, CoveringIs DEF R, rva
  <2>5. index[k].name = publics[First(publics, rva)].name
    BY <1>1, <2>1
  <2>6. search(index, a) = <<index[k].name>>
    BY <1>2, <1>7, <2>2
  <2>. QED  BY <1>4, <2>3, <2>4, <2>5, <2>6 DEF index
<1>8. CASE ~ok /\ at = 0
  <2>1. ASSUME NEW r \in R PROVE ~(r <= rva)
    <3>1. PICK k \in 1 .. c : index[k].rva = r
      BY <1>1
    <3>2. ~(r < rva) /\ r # rva /\ r \in Nat
      BY <1>1, <1>6, <1>8, <3>1 DEF ok
    <3>. QED  BY <1>3, <3>2
  <2>2. \A i \in DOMAIN publics : ~(publics[i].rva <= a % RvaWidth)
    BY <2>1 DEF R, Rvas, rva
  <2>3. Covering(publics, a) = {}
    BY <2>2 DEF Covering
  <2>. QED  BY <1>2, <1>8, <2>3 DEF index
<1>9. CASE ~ok /\ at # 0
  <2>. DEFINE r == index[at].rva
  <2>1. at \in 1 .. c /\ r \in R /\ r \in Nat /\ r < rva
    BY <1>1, <1>5, <1>6, <1>9
  <2>2. ASSUME NEW q \in R, q <= rva PROVE q <= r
    <3>1. PICK k \in 1 .. c : index[k].rva = q
      BY <1>1
    <3>2. q < rva
      BY <1>1, <1>3, <1>9, <2>2, <3>1 DEF ok
    <3>3. k <= at
      BY <1>6, <3>1, <3>2
    <3>4. k < at => q < r
      BY <1>1, <2>1, <3>1
    <3>5. k = at => q = r
      BY <3>1
    <3>6. q \in Nat
      BY <1>1
    <3>. QED  BY <1>5, <2>1, <3>3, <3>4, <3>5, <3>6
  <2>3. index[at].name = publics[First(publics, r)].name
    BY <1>1, <2>1
  <2>. HIDE DEF r
  <2>4. Covering(publics, a) = {publics[First(publics, r)].name}
    BY <1>3, <2>1, <2>2, CoveringIs DEF R, rva
  <2>. QED  BY <1>2, <1>4, <1>9, <2>1, <2>3, <2>4 DEF index
<1>. QED  BY <1>7, <1>8, <1>9

-----------------------------------------------------------------------------
(* Type correctness.                                                         *)

\* What the threads share.
SharedOK ==
    /\ ADDRESS_CACHE \in [Addresses -> Seq(Frame)]
    /\ SELF_EXE \in {"untried", "found", "missing"}
    /\ SYMBOLICATOR \in [Threads \union {Process} -> {"untried", "failed", "built"}]
    /\ platform \in Platforms
    /\ calls \in 0 .. MaxCalls

\* Between reports a thread has nothing left; within one it has a frame to look
\* at.
CallOK(t) ==
    /\ pc[t] = "idle" => raw[t] = << >> /\ out[t] = << >>
    /\ pc[t] \in {"idle", "reported"} => frames[t] = << >> /\ next[t] = 1
    /\ pc[t] \in {"lookup", "build", "resolve"} =>
          Len(out[t]) < Len(raw[t]) /\ next[t] \in 1 .. Len(Site(t).frames)

LocalsOK ==
    /\ pc \in [Threads -> {"idle", "lookup", "build", "resolve", "reported"}]
    /\ raw \in [Threads -> Reports \union {<< >>}]
    /\ frames \in [Threads -> Seq(Frame)]
    /\ next \in [Threads -> Nat]
    /\ out \in [Threads -> Seq(Row)]
    /\ \A t \in Threads : CallOK(t)

TypeInv == SharedOK /\ LocalsOK

LEMMA TypeInvTypes == TypeInv => TypeOK
BY DEF TypeInv, SharedOK, LocalsOK, CallOK, TypeOK

LEMMA InitType == Init => TypeInv
<1> SUFFICES ASSUME Init PROVE TypeInv
  OBVIOUS
<1>1. SharedOK
  BY CallsAssumption DEF Init, SharedOK
<1>2. LocalsOK
  BY DEF Init, LocalsOK, CallOK
<1> QED BY <1>1, <1>2 DEF TypeInv

\* A thread within a report has a site, and its site an address.
LEMMA SiteIsRaw ==
    ASSUME LocalsOK, NEW t \in Threads, pc[t] \in {"lookup", "build", "resolve"}
    PROVE  /\ Site(t) \in RawSite
           /\ Site(t).frames \in Seq(Addresses)
           /\ Address(t) \in Addresses
<1>1. raw[t] \in Seq(RawSite)
  <2>1. raw[t] \in Reports \union {<< >>}
    BY DEF LocalsOK
  <2>2. << >> \in Seq(RawSite)
    OBVIOUS
  <2> QED BY <2>1, <2>2, ReportAssumption
<1>2. /\ out[t] \in Seq(Row) /\ Len(out[t]) < Len(raw[t])
      /\ next[t] \in 1 .. Len(Site(t).frames)
  BY DEF LocalsOK, CallOK
<1>3. Len(out[t]) + 1 \in 1 .. Len(raw[t])
  BY <1>1, <1>2
<1>4. Site(t) \in RawSite
  BY <1>1, <1>3 DEF Site
<1>5. Site(t).frames \in Seq(Addresses)
  BY <1>4 DEF RawSite
<1>6. Address(t) \in Addresses
  BY <1>2, <1>5 DEF Address
<1> QED BY <1>4, <1>5, <1>6

LEMMA KnownIsNames == ASSUME NEW a \in Addresses PROVE Known(a) \in Seq(Names)
<1>1. a \in Nat /\ Publics \in Seq(PublicSymbol)
  BY PdbAssumption
<1>2. search(build_index(Publics), a) \in Seq(Names)
  <2>1. \/ search(build_index(Publics), a) = << >>
        \/ \E name \in Names : search(build_index(Publics), a) = <<name>>
    BY <1>1, SearchIsRight
  <2>2. \A name \in Names : <<name>> \in Seq(Names)
    OBVIOUS
  <2>3. << >> \in Seq(Names)
    OBVIOUS
  <2> QED BY <2>1, <2>2, <2>3
<1> QED BY <1>2, InfoAssumption DEF Known

\* A frame is never resolved to nothing.
LEMMA ResolveGivesFrames ==
    ASSUME NEW t, NEW a \in Addresses
    PROVE  ResolveOne(t, a) \in Seq(Frame) /\ ResolveOne(t, a) # << >>
<1>1. Known(a) \in Seq(Names)
  BY KnownIsNames
<1>2. Unresolved(a) \in Seq(Frame) /\ Unresolved(a) # << >>
  BY DEF Unresolved, Frame
<1>3. \A k \in 1 .. Len(Known(a)) :
         [address |-> a, function |-> Known(a)[k], inlined |-> k > 1] \in Frame
  BY <1>1 DEF Frame
<1>4. Found(a) \in [1 .. Len(Known(a)) -> Frame] /\ Len(Known(a)) \in Nat
  BY <1>1, <1>3 DEF Found
<1>5. Found(a) \in Seq(Frame) /\ Len(Found(a)) = Len(Known(a))
  BY <1>4
<1>6. Known(a) # << >> => Found(a) # << >>
  BY <1>1, <1>5
<1> QED BY <1>2, <1>5, <1>6 DEF ResolveOne, Resolved

\* On to the next frame, the next row, or the end of the report.
LEMMA ExtendType ==
    ASSUME LocalsOK, NEW t \in Threads, pc[t] \in {"lookup", "resolve"},
           NEW resolved \in Seq(Frame), Extend(t, resolved)
    PROVE  LocalsOK'
<1> DEFINE last == IsLast(t)
           all  == frames[t] \o resolved
           row  == [count |-> Site(t).count, frames |-> all]
<1>0. /\ Site(t) \in RawSite /\ Site(t).frames \in Seq(Addresses)
      /\ raw[t] \in Seq(RawSite) /\ out[t] \in Seq(Row)
      /\ Len(out[t]) \in Nat /\ Len(raw[t]) \in Nat /\ Len(out[t]) < Len(raw[t])
      /\ next[t] \in 1 .. Len(Site(t).frames) /\ Len(Site(t).frames) \in Nat
  BY SiteIsRaw, ReportAssumption DEF LocalsOK, CallOK
<1>1. all \in Seq(Frame)
  BY DEF LocalsOK
<1>2. row \in Row
  BY <1>0, <1>1 DEF Row, RawSite
<1>3. /\ raw' = raw
      /\ frames' = [frames EXCEPT ![t] = IF last THEN << >> ELSE all]
      /\ next' = [next EXCEPT ![t] = IF last THEN 1 ELSE @ + 1]
      /\ out' = IF last THEN [out EXCEPT ![t] = Append(@, row)] ELSE out
      /\ pc' = [pc EXCEPT ![t] = IF last /\ Len(out'[t]) = Len(raw[t])
                                 THEN "reported" ELSE "lookup"]
  BY DEF Extend, Goto
<1> HIDE DEF last, all, row
<1>4. /\ pc' \in [Threads -> {"idle", "lookup", "build", "resolve", "reported"}]
      /\ raw' \in [Threads -> Reports \union {<< >>}]
  BY <1>3 DEF LocalsOK
<1>5. /\ frames' \in [Threads -> Seq(Frame)]
      /\ next' \in [Threads -> Nat]
  BY <1>1, <1>3 DEF LocalsOK
<1>6. out' \in [Threads -> Seq(Row)]
  <2>1. CASE last
    <3>1. Append(out[t], row) \in Seq(Row)
      BY <1>0, <1>2
    <3> QED BY <1>3, <2>1, <3>1 DEF LocalsOK
  <2>2. CASE ~last
    BY <1>3, <2>2 DEF LocalsOK
  <2> QED BY <2>1, <2>2
<1>7. ASSUME NEW u \in Threads, u # t PROVE CallOK(u)'
  <2>1. /\ pc'[u] = pc[u] /\ raw'[u] = raw[u] /\ frames'[u] = frames[u]
        /\ next'[u] = next[u] /\ out'[u] = out[u]
    BY <1>3, <1>7 DEF LocalsOK
  <2>2. CallOK(u)
    BY DEF LocalsOK
  <2> QED BY <2>1, <2>2 DEF CallOK, Site
<1>8. CallOK(t)'
  <2>1. CASE last
    <3>1. /\ out'[t] = Append(out[t], row) /\ Len(out'[t]) = Len(out[t]) + 1
          /\ frames'[t] = << >> /\ next'[t] = 1 /\ raw'[t] = raw[t]
      BY <1>0, <1>2, <1>3, <2>1 DEF LocalsOK
    <3>2. pc'[t] = IF Len(out'[t]) = Len(raw[t]) THEN "reported" ELSE "lookup"
      BY <1>3, <2>1 DEF LocalsOK
    <3>3. CASE Len(out'[t]) = Len(raw[t])
      BY <3>1, <3>2, <3>3 DEF CallOK
    <3>4. CASE Len(out'[t]) # Len(raw[t])
      <4>1. Len(out'[t]) < Len(raw[t]) /\ Len(out'[t]) + 1 \in 1 .. Len(raw[t])
        BY <1>0, <3>1, <3>4
      <4>2. raw[t][Len(out'[t]) + 1] \in RawSite
        BY <1>0, <4>1
      <4>3. 1 \in 1 .. Len(raw[t][Len(out'[t]) + 1].frames)
        BY <4>2 DEF RawSite
      <4> QED BY <3>1, <3>2, <3>4, <4>1, <4>3 DEF CallOK, Site
    <3> QED BY <3>3, <3>4
  <2>2. CASE ~last
    <3>1. /\ out'[t] = out[t] /\ next'[t] = next[t] + 1 /\ raw'[t] = raw[t]
          /\ pc'[t] = "lookup"
      BY <1>3, <2>2 DEF LocalsOK
    <3>2. next[t] # Len(Site(t).frames)
      BY <2>2 DEF last, IsLast
    <3>3. next'[t] \in 1 .. Len(Site(t).frames)
      BY <1>0, <3>1, <3>2
    <3> QED BY <1>0, <3>1, <3>3 DEF CallOK, Site
  <2> QED BY <2>1, <2>2
<1> QED BY <1>4, <1>5, <1>6, <1>7, <1>8 DEF LocalsOK

\* A step that moves a thread on within its report, and nothing else of it.
LEMMA MoveType ==
    ASSUME LocalsOK, NEW t \in Threads, pc[t] \in {"lookup", "build"},
           NEW where \in {"build", "resolve"}, Goto(t, where),
           UNCHANGED <<raw, frames, next, out>>
    PROVE  LocalsOK'
<1>1. \A u \in Threads : CallOK(u)'
  <2> SUFFICES ASSUME NEW u \in Threads PROVE CallOK(u)'
    OBVIOUS
  <2>1. CallOK(u) /\ pc'[u] = IF u = t THEN where ELSE pc[u]
    BY DEF LocalsOK, Goto
  <2> QED BY <2>1 DEF CallOK, Site
<1> QED BY <1>1 DEF LocalsOK, Goto

LEMMA NextType == TypeInv /\ [Next]_vars => TypeInv'
<1> SUFFICES ASSUME TypeInv, [Next]_vars PROVE TypeInv'
  OBVIOUS
<1>0. SharedOK /\ LocalsOK
  BY DEF TypeInv
<1>1. ASSUME NEW t \in Threads, BeginReport(t) PROVE TypeInv'
  <2>1. PICK report \in Reports :
           /\ raw' = [raw EXCEPT ![t] = report]
           /\ Goto(t, IF report = << >> THEN "reported" ELSE "lookup")
    BY <1>1 DEF BeginReport
  <2>2. /\ pc[t] = "idle" /\ calls < MaxCalls /\ calls' = calls + 1
        /\ UNCHANGED <<shared, frames, next, out, platform>>
    BY <1>1 DEF BeginReport
  <2>3. SharedOK'
    BY <1>0, <2>2, CallsAssumption DEF SharedOK, shared
  <2>4. /\ raw'[t] = report /\ out'[t] = << >> /\ frames'[t] = << >> /\ next'[t] = 1
        /\ pc'[t] = IF report = << >> THEN "reported" ELSE "lookup"
    BY <1>0, <2>1, <2>2 DEF LocalsOK, CallOK, Goto
  <2>5. CallOK(t)'
    <3>1. CASE report = << >>
      BY <2>4, <3>1 DEF CallOK
    <3>2. CASE report # << >>
      <4>1. report \in Seq(RawSite) /\ Len(report) > 0
        BY <3>2, ReportAssumption
      <4>2. report[1] \in RawSite
        BY <4>1
      <4>3. 1 \in 1 .. Len(report[1].frames)
        BY <4>2 DEF RawSite
      <4>4. Site(t)' = report[1]
        BY <2>4 DEF Site
      <4> QED BY <2>4, <3>2, <4>1, <4>3, <4>4 DEF CallOK
    <3> QED BY <3>1, <3>2
  <2>6. ASSUME NEW u \in Threads, u # t PROVE CallOK(u)'
    <3>1. /\ pc'[u] = pc[u] /\ raw'[u] = raw[u] /\ frames'[u] = frames[u]
          /\ next'[u] = next[u] /\ out'[u] = out[u]
      BY <1>0, <2>1, <2>2, <2>6 DEF LocalsOK, Goto
    <3> QED BY <1>0, <3>1 DEF LocalsOK, CallOK, Site
  <2>7. LocalsOK'
    BY <1>0, <2>1, <2>2, <2>5, <2>6 DEF LocalsOK, Goto
  <2> QED BY <2>3, <2>7 DEF TypeInv
<1>2. ASSUME NEW t \in Threads, Hit(t) PROVE TypeInv'
  <2>1. Address(t) \in Addresses
    BY <1>0, <1>2, SiteIsRaw DEF Hit
  <2>2. ADDRESS_CACHE[Address(t)] \in Seq(Frame)
    BY <1>0, <2>1 DEF SharedOK
  <2>3. LocalsOK'
    BY <1>0, <1>2, <2>2, ExtendType DEF Hit
  <2>4. SharedOK'
    BY <1>0, <1>2 DEF Hit, SharedOK, shared
  <2> QED BY <2>3, <2>4 DEF TypeInv
<1>3. ASSUME NEW t \in Threads, Miss(t) PROVE TypeInv'
  <2>1. LocalsOK'
    BY <1>0, <1>3, MoveType DEF Miss
  <2>2. SharedOK'
    BY <1>0, <1>3 DEF Miss, SharedOK, shared
  <2> QED BY <2>1, <2>2 DEF TypeInv
<1>4. ASSUME NEW t \in Threads, Build(t) PROVE TypeInv'
  <2>1. LocalsOK'
    BY <1>0, <1>4, MoveType DEF Build
  <2>2. SharedOK'
    BY <1>0, <1>4 DEF Build, SelfExe, SharedOK
  <2> QED BY <2>1, <2>2 DEF TypeInv
<1>5. ASSUME NEW t \in Threads, Memoise(t) PROVE TypeInv'
  <2>1. /\ Address(t) \in Addresses
        /\ ResolveOne(t, Address(t)) \in Seq(Frame)
    BY <1>0, <1>5, SiteIsRaw, ResolveGivesFrames DEF Memoise
  <2>2. LocalsOK'
    BY <1>0, <1>5, <2>1, ExtendType DEF Memoise
  <2>3. SharedOK'
    BY <1>0, <1>5, <2>1 DEF Memoise, SharedOK
  <2> QED BY <2>2, <2>3 DEF TypeInv
<1>6. ASSUME NEW t \in Threads, TakeReport(t) PROVE TypeInv'
  <2>1. ASSUME NEW u \in Threads PROVE CallOK(u)'
    BY <1>0, <1>6 DEF TakeReport, Goto, LocalsOK, CallOK, Site
  <2>2. LocalsOK'
    BY <1>0, <1>6, <2>1 DEF TakeReport, Goto, LocalsOK
  <2>3. SharedOK'
    BY <1>0, <1>6 DEF TakeReport, SharedOK, shared
  <2> QED BY <2>2, <2>3 DEF TypeInv
<1>7. CASE ResetCache
  <2>1. LocalsOK'
    BY <1>0, <1>7 DEF ResetCache, LocalsOK, CallOK, Site, locals
  <2>2. SharedOK'
    BY <1>0, <1>7, CallsAssumption DEF ResetCache, SharedOK
  <2> QED BY <2>1, <2>2 DEF TypeInv
<1>8. CASE UNCHANGED vars
  BY <1>0, <1>8 DEF TypeInv, LocalsOK, CallOK, Site, SharedOK, vars, shared, locals
<1> QED
  BY <1>1, <1>2, <1>3, <1>4, <1>5, <1>6, <1>7, <1>8 DEF Next, Rest

LEMMA TypeInvHolds == Spec => []TypeInv
BY InitType, NextType, PTL DEF Spec

\* Every variable keeps its type, and a row is only indexed by its frames.
THEOREM TypeSafety == Spec => []TypeOK
BY TypeInvHolds, TypeInvTypes, PTL

\* For any PDB and any address, whatever the order of the publics and however
\* many lie at one place, the search of windows.rs gives the symbol that the
\* address lies in.
THEOREM SearchGivesCovering == Spec => []SearchFindsCovering
<1>1. WrongAnswers = {}
  <2>1. ASSUME NEW x \in PublicLists \X Targets
        PROVE  LET answer == search(build_index(x[1]), x[2])
               IN {answer[k] : k \in DOMAIN answer} = Covering(x[1], x[2])
    <3>1. x[1] \in Seq(PublicSymbol) /\ x[2] \in Nat
      BY ListsAssumption, RvaAssumption
    <3>. DEFINE answer == search(build_index(x[1]), x[2])
    <3>2. \/ answer = << >> /\ Covering(x[1], x[2]) = {}
          \/ \E name \in Names : answer = <<name>> /\ Covering(x[1], x[2]) = {name}
      BY <3>1, SearchIsRight
    <3>. HIDE DEF answer
    <3>3. {answer[k] : k \in DOMAIN answer} = Covering(x[1], x[2])
      BY <3>2
    <3>. QED  BY <3>3 DEF answer
  <2>. QED  BY <2>1 DEF WrongAnswers
<1>2. TypeInv => SearchFindsCovering
  BY <1>1 DEF SearchFindsCovering
<1>. QED  BY <1>2, TypeInvHolds, PTL

-----------------------------------------------------------------------------
(* Why an address is unresolved.                                             *)

\* No thread has had to do without debug info yet.
Failing == \/ platform = "other"
           \/ \E o \in DOMAIN SYMBOLICATOR : SYMBOLICATOR[o] = "failed"

\* Only what the debug info does not know has no name.
Named == {f \in Frame : f.function = NoName => Known(f.address) = << >>}

\* Rows of such frames.
RowOf(F) == [count : Nat, frames : Seq(F)]

\* A thread resolves with a symbolicator, and until one fails every frame that
\* can have a name has one.
CauseInv ==
    /\ platform # "other" =>
          \A t \in Threads : pc[t] = "resolve" => SYMBOLICATOR[Owner(t)] # "untried"
    /\ ~Failing => /\ ADDRESS_CACHE \in [Addresses -> Seq(Named)]
                   /\ frames \in [Threads -> Seq(Named)]
                   /\ out \in [Threads -> Seq(RowOf(Named))]

\* What is shown is what the cache, the frames so far and the rows are made of.
LEMMA ShownAre ==
    ASSUME NEW CONSTANT Fine,
           ADDRESS_CACHE \in [Addresses -> Seq(Fine)],
           frames \in [Threads -> Seq(Fine)],
           out \in [Threads -> Seq(RowOf(Fine))]
    PROVE  Shown \subseteq Fine
<1> SUFFICES ASSUME NEW f \in Shown PROVE f \in Fine
  OBVIOUS
<1>1. ASSUME NEW s \in Seq(Fine), f \in ToSet(s) PROVE f \in Fine
  BY <1>1 DEF ToSet
<1>2. CASE \E a \in Addresses : f \in ToSet(ADDRESS_CACHE[a])
  BY <1>1, <1>2
<1>3. CASE \E t \in Threads : f \in Told(t)
  <2>1. PICK t \in Threads : f \in Told(t)
    BY <1>3
  <2>2. frames[t] \in Seq(Fine) /\ out[t] \in Seq(RowOf(Fine))
    OBVIOUS
  <2>3. CASE f \in ToSet(frames[t])
    BY <1>1, <2>2, <2>3
  <2>4. CASE \E row \in ToSet(out[t]) : f \in ToSet(row.frames)
    <3>1. PICK row \in ToSet(out[t]) : f \in ToSet(row.frames)
      BY <2>4
    <3>2. row \in RowOf(Fine)
      BY <2>2 DEF ToSet
    <3>3. row.frames \in Seq(Fine)
      BY <3>2 DEF RowOf
    <3> QED BY <1>1, <3>1, <3>3
  <2>5. \/ f \in ToSet(frames[t])
        \/ \E row \in ToSet(out[t]) : f \in ToSet(row.frames)
    BY <2>1 DEF Told
  <2> QED BY <2>3, <2>4, <2>5
<1>4. \/ \E a \in Addresses : f \in ToSet(ADDRESS_CACHE[a])
      \/ \E t \in Threads : f \in Told(t)
  <2> DEFINE cached == {ToSet(ADDRESS_CACHE[a]) : a \in Addresses}
             told   == {Told(t) : t \in Threads}
  <2>1. Shown = (UNION cached) \union (UNION told)
    BY DEF Shown
  <2>2. f \in UNION cached \/ f \in UNION told
    BY <2>1
  <2> QED BY <2>2
<1> QED BY <1>2, <1>3, <1>4

LEMMA CauseInvCauses == CauseInv => UnresolvedHasCause
<1> SUFFICES ASSUME CauseInv, ~Failing, NEW f \in Shown PROVE f \in Named
  BY DEF UnresolvedHasCause, Failing, Named
<1> QED BY ShownAre DEF CauseInv

LEMMA OwnersAreOwners == \A t \in Threads : Owner(t) \in Threads \union {Process}
BY DEF Owner

\* With a symbolicator, an address that has a name is given it.
LEMMA ResolvedIsNamed ==
    ASSUME NEW t, NEW a \in Addresses, SYMBOLICATOR[Owner(t)] = "built"
    PROVE  ResolveOne(t, a) \in Seq(Named)
<1>1. ResolveOne(t, a) = Resolved(a)
  BY DEF ResolveOne
<1>2. CASE Known(a) = << >>
  BY <1>1, <1>2 DEF Resolved, Unresolved, Named, Frame
<1>3. CASE Known(a) # << >>
  <2>1. Known(a) \in Seq(Names) /\ Len(Known(a)) \in Nat
    BY KnownIsNames
  <2>2. Resolved(a) = Found(a)
    BY <1>3 DEF Resolved
  <2>3. \A k \in 1 .. Len(Known(a)) :
           [address |-> a, function |-> Known(a)[k], inlined |-> k > 1] \in Named
    BY <2>1, NoNameAssumption DEF Named, Frame
  <2>4. Found(a) \in [1 .. Len(Known(a)) -> Named]
    BY <2>3 DEF Found
  <2> QED BY <1>1, <2>1, <2>2, <2>4
<1> QED BY <1>2, <1>3

\* Frames that are named stay so on their way into a report.
LEMMA ExtendNames ==
    ASSUME LocalsOK, NEW t \in Threads, pc[t] \in {"lookup", "resolve"},
           NEW CONSTANT Fine, NEW resolved \in Seq(Fine), Extend(t, resolved),
           frames \in [Threads -> Seq(Fine)],
           out \in [Threads -> Seq(RowOf(Fine))]
    PROVE  /\ frames' \in [Threads -> Seq(Fine)]
           /\ out' \in [Threads -> Seq(RowOf(Fine))]
<1> DEFINE last == IsLast(t)
           all  == frames[t] \o resolved
           row  == [count |-> Site(t).count, frames |-> all]
<1>1. all \in Seq(Fine)
  OBVIOUS
<1>2. row \in RowOf(Fine)
  BY <1>1, SiteIsRaw DEF RawSite, RowOf
<1>3. /\ frames' = [frames EXCEPT ![t] = IF last THEN << >> ELSE all]
      /\ out' = IF last THEN [out EXCEPT ![t] = Append(@, row)] ELSE out
  BY DEF Extend
<1> HIDE DEF last, all, row
<1>4. Append(out[t], row) \in Seq(RowOf(Fine))
  <2>1. out[t] \in Seq(RowOf(Fine))
    OBVIOUS
  <2> QED BY <1>2, <2>1
<1>5. frames' \in [Threads -> Seq(Fine)]
  BY <1>1, <1>3
<1>6. out' \in [Threads -> Seq(RowOf(Fine))]
  BY <1>3, <1>4
<1> QED BY <1>5, <1>6

LEMMA InitCause == Init => CauseInv
<1> SUFFICES ASSUME Init PROVE CauseInv
  OBVIOUS
<1>1. \A t \in Threads : pc[t] # "resolve"
  BY DEF Init
<1>2. ADDRESS_CACHE \in [Addresses -> Seq(Named)]
  BY DEF Init
<1>3. frames \in [Threads -> Seq(Named)] /\ out \in [Threads -> Seq(RowOf(Named))]
  BY DEF Init
<1> QED BY <1>1, <1>2, <1>3 DEF CauseInv

\* The state of the symbolicators only goes from untried to something else.
LEMMA FailingStays ==
    ASSUME TypeInv, [Next]_vars
    PROVE  /\ UNCHANGED platform
           /\ Failing => Failing'
           /\ \A o \in DOMAIN SYMBOLICATOR :
                 SYMBOLICATOR[o] # "untried" => SYMBOLICATOR'[o] = SYMBOLICATOR[o]
<1>1. SYMBOLICATOR \in [Threads \union {Process} -> {"untried", "failed", "built"}]
  BY DEF TypeInv, SharedOK
<1>2. CASE \E t \in Threads : Build(t)
  <2>1. PICK t \in Threads : Build(t)
    BY <1>2
  <2>2. UNCHANGED platform
    BY <2>1 DEF Build
  <2>3. \A o \in DOMAIN SYMBOLICATOR :
           SYMBOLICATOR[o] # "untried" => SYMBOLICATOR'[o] = SYMBOLICATOR[o]
    BY <1>1, <2>1 DEF Build
  <2>4. DOMAIN SYMBOLICATOR' = DOMAIN SYMBOLICATOR
    BY <1>1, <2>1 DEF Build
  <2> QED BY <2>2, <2>3, <2>4 DEF Failing
<1>3. CASE ~\E t \in Threads : Build(t)
  <2>1. UNCHANGED <<SYMBOLICATOR, platform>>
    BY <1>3 DEF Next, BeginReport, Hit, Miss, Memoise, TakeReport, ResetCache, Rest,
                vars, shared
  <2> QED BY <2>1 DEF Failing
<1> QED BY <1>2, <1>3

\* Frames come from the symbolicators only: as long as those give none but fine
\* ones, there are no others.
LEMMA FramesAreResolved ==
    ASSUME TypeInv, [Next]_vars,
           NEW CONSTANT Fine,
           ADDRESS_CACHE \in [Addresses -> Seq(Fine)],
           frames \in [Threads -> Seq(Fine)],
           out \in [Threads -> Seq(RowOf(Fine))],
           \A t \in Threads : Memoise(t) => ResolveOne(t, Address(t)) \in Seq(Fine)
    PROVE  /\ ADDRESS_CACHE' \in [Addresses -> Seq(Fine)]
           /\ frames' \in [Threads -> Seq(Fine)]
           /\ out' \in [Threads -> Seq(RowOf(Fine))]
<1>0. LocalsOK /\ SharedOK
  BY DEF TypeInv
<1>1. ASSUME NEW t \in Threads, Hit(t)
      PROVE  /\ UNCHANGED ADDRESS_CACHE
             /\ frames' \in [Threads -> Seq(Fine)]
             /\ out' \in [Threads -> Seq(RowOf(Fine))]
  <2>1. Address(t) \in Addresses
    BY <1>0, <1>1, SiteIsRaw DEF Hit
  <2>2. ADDRESS_CACHE[Address(t)] \in Seq(Fine)
    BY <2>1
  <2>3. /\ pc[t] = "lookup" /\ Extend(t, ADDRESS_CACHE[Address(t)])
        /\ UNCHANGED ADDRESS_CACHE
    BY <1>1 DEF Hit, shared
  <2> QED BY <1>0, <2>2, <2>3, ExtendNames
<1>2. ASSUME NEW t \in Threads, Memoise(t)
      PROVE  /\ ADDRESS_CACHE' \in [Addresses -> Seq(Fine)]
             /\ frames' \in [Threads -> Seq(Fine)]
             /\ out' \in [Threads -> Seq(RowOf(Fine))]
  <2>1. Address(t) \in Addresses /\ pc[t] = "resolve"
    BY <1>0, <1>2, SiteIsRaw DEF Memoise
  <2>2. ResolveOne(t, Address(t)) \in Seq(Fine)
    BY <1>2
  <2>3. Extend(t, ResolveOne(t, Address(t)))
    BY <1>2 DEF Memoise
  <2>4. ADDRESS_CACHE' \in [Addresses -> Seq(Fine)]
    BY <1>2, <2>1, <2>2 DEF Memoise
  <2> QED BY <1>0, <2>1, <2>2, <2>3, <2>4, ExtendNames
<1>3. CASE ResetCache
  BY <1>3 DEF ResetCache, locals
<1>4. ASSUME NEW t \in Threads, TakeReport(t)
      PROVE  /\ UNCHANGED <<ADDRESS_CACHE, frames>>
             /\ out' \in [Threads -> Seq(RowOf(Fine))]
  BY <1>4 DEF TakeReport, shared
<1>5. ASSUME NEW t \in Threads, BeginReport(t) \/ Miss(t) \/ Build(t)
      PROVE  UNCHANGED <<ADDRESS_CACHE, frames, out>>
  BY <1>5 DEF BeginReport, Miss, Build, shared
<1>6. CASE UNCHANGED vars
  BY <1>6 DEF vars, shared, locals
<1> QED BY <1>1, <1>2, <1>3, <1>4, <1>5, <1>6 DEF Next, Rest

LEMMA NextCause == TypeInv /\ CauseInv /\ [Next]_vars => CauseInv'
<1> SUFFICES ASSUME TypeInv, CauseInv, [Next]_vars PROVE CauseInv'
  OBVIOUS
<1>0. LocalsOK /\ SharedOK /\ UNCHANGED platform
  BY FailingStays DEF TypeInv
<1>a. Named' = Named /\ RowOf(Named)' = RowOf(Named)
  BY <1>0 DEF Named, Known, RowOf
<1>b. \A t \in Threads : Owner(t)' = Owner(t) /\ Owner(t) \in DOMAIN SYMBOLICATOR
  BY <1>0, OwnersAreOwners DEF Owner, SharedOK
<1>1. ASSUME platform # "other", NEW t \in Threads, pc'[t] = "resolve"
      PROVE  SYMBOLICATOR'[Owner(t)] # "untried"
  <2>1. CASE pc[t] = "resolve"
    BY <1>1, <1>b, <2>1, FailingStays DEF CauseInv
  <2>2. CASE pc[t] # "resolve"
    <3>1. Miss(t) \/ Build(t)
      <4>0. DOMAIN pc = Threads
        BY <1>0 DEF LocalsOK
      <4>1. ASSUME NEW u \in Threads, BeginReport(u) \/ TakeReport(u) PROVE FALSE
        BY <4>0, <4>1, <1>1, <2>2 DEF BeginReport, TakeReport, Goto
      <4>2. ASSUME NEW u \in Threads, Hit(u) \/ Memoise(u) PROVE FALSE
        BY <4>0, <4>2, <1>1, <2>2 DEF Hit, Memoise, Extend, Goto
      <4>3. ASSUME NEW u \in Threads, u # t, Miss(u) \/ Build(u) PROVE FALSE
        BY <4>0, <4>3, <1>1, <2>2 DEF Miss, Build, Goto
      <4>4. ~(ResetCache \/ Rest \/ UNCHANGED vars)
        BY <1>1, <2>2 DEF ResetCache, Rest, vars, locals
      <4> QED
        BY <4>1, <4>2, <4>3, <4>4 DEF Next
    <3>2. CASE Miss(t)
      BY <1>0, <1>1, <2>2, <3>2 DEF Miss, Goto, shared, LocalsOK
    <3>3. CASE Build(t)
      <4>1. CASE SYMBOLICATOR[Owner(t)] = "untried"
        BY <1>0, <1>b, <3>3, <4>1 DEF Build, SharedOK
      <4>2. CASE SYMBOLICATOR[Owner(t)] # "untried"
        BY <1>b, <4>2, FailingStays
      <4> QED BY <4>1, <4>2
    <3> QED BY <3>1, <3>2, <3>3
  <2> QED BY <2>1, <2>2
<1>2. ASSUME ~Failing'
      PROVE  /\ ADDRESS_CACHE' \in [Addresses -> Seq(Named)]
             /\ frames' \in [Threads -> Seq(Named)]
             /\ out' \in [Threads -> Seq(RowOf(Named))]
  <2>0. /\ ~Failing /\ ADDRESS_CACHE \in [Addresses -> Seq(Named)]
        /\ frames \in [Threads -> Seq(Named)] /\ out \in [Threads -> Seq(RowOf(Named))]
    BY <1>2, FailingStays DEF CauseInv
  <2>1. ASSUME NEW t \in Threads, Memoise(t)
        PROVE  ResolveOne(t, Address(t)) \in Seq(Named)
    <3>1. Address(t) \in Addresses /\ pc[t] = "resolve"
      BY <1>0, <2>1, SiteIsRaw DEF Memoise
    <3>2. SYMBOLICATOR[Owner(t)] = "built"
      BY <1>0, <1>b, <2>0, <3>1 DEF CauseInv, Failing, SharedOK
    <3> QED BY <3>1, <3>2, ResolvedIsNamed
  <2> QED BY <2>0, <2>1, FramesAreResolved
<1>3. ASSUME platform' # "other", NEW t \in Threads, pc'[t] = "resolve"
      PROVE  SYMBOLICATOR'[Owner(t)'] # "untried"
  BY <1>0, <1>1, <1>3, <1>b
<1> QED BY <1>2, <1>3, <1>a DEF CauseInv

\* An address that the debug info covers stays unresolved only when some thread
\* could not build its symbolicator, or there is none for the platform.
THEOREM UnresolvedIsExplained == Spec => []UnresolvedHasCause
<1>1. Spec => []CauseInv
  BY TypeInvHolds, InitCause, NextCause, PTL DEF Spec
<1> QED BY <1>1, CauseInvCauses, PTL

\* A memoised entry never changes.
THEOREM MemoisedForGood == Spec => EntriesAreKept
<1>1. TypeInv /\ [Next]_vars =>
         [\/ ADDRESS_CACHE' = [a \in Addresses |-> << >>]
          \/ \A a \in Addresses : ADDRESS_CACHE[a] # << >> =>
                ADDRESS_CACHE'[a] = ADDRESS_CACHE[a]]_vars
  <2> SUFFICES ASSUME TypeInv, Next
               PROVE  \/ ADDRESS_CACHE' = [a \in Addresses |-> << >>]
                      \/ \A a \in Addresses : ADDRESS_CACHE[a] # << >> =>
                            ADDRESS_CACHE'[a] = ADDRESS_CACHE[a]
    OBVIOUS
  <2>1. CASE ResetCache
    BY <2>1 DEF ResetCache
  <2>2. ASSUME NEW t \in Threads, Memoise(t), NEW a \in Addresses,
               ADDRESS_CACHE[a] # << >>
        PROVE  ADDRESS_CACHE'[a] = ADDRESS_CACHE[a]
    BY <2>2 DEF Memoise, TypeInv, SharedOK
  <2>3. ASSUME NEW t \in Threads,
               BeginReport(t) \/ Hit(t) \/ Miss(t) \/ Build(t) \/ TakeReport(t)
        PROVE  UNCHANGED ADDRESS_CACHE
    BY <2>3 DEF BeginReport, Hit, Miss, Build, TakeReport, shared
  <2>4. CASE Rest
    BY <2>4 DEF Rest, vars, shared
  <2> QED BY <2>1, <2>2, <2>3, <2>4 DEF Next
<1> QED BY <1>1, TypeInvHolds, PTL DEF Spec, EntriesAreKept

-----------------------------------------------------------------------------
(* On Windows every frame is what the one index says.                        *)

RightFrame == {f \in Frame :
    \/ f.function = NoName /\ \/ SYMBOLICATOR[Process] = "failed"
                              \/ Covering(Publics, f.address) = {}
    \/ SYMBOLICATOR[Process] = "built" /\ f.function \in Covering(Publics, f.address)}

IndexInv ==
    platform = "windows" => /\ ADDRESS_CACHE \in [Addresses -> Seq(RightFrame)]
                            /\ frames \in [Threads -> Seq(RightFrame)]
                            /\ out \in [Threads -> Seq(RowOf(RightFrame))]

LEMMA IndexInvAgrees == IndexInv => OneIndexPerProcess
<1> SUFFICES ASSUME IndexInv, platform = "windows", NEW f \in Shown PROVE f \in RightFrame
  BY DEF OneIndexPerProcess, RightFrame
<1> QED BY ShownAre DEF IndexInv

LEMMA InitIndex == Init => IndexInv
BY DEF Init, IndexInv

\* With the index a frame is resolved to the symbol the address lies in; without
\* one it is kept raw.
LEMMA ResolvedIsRight ==
    ASSUME NEW t \in Threads, NEW a \in Addresses, platform = "windows",
           SYMBOLICATOR[Process] \in {"built", "failed"}
    PROVE  ResolveOne(t, a) \in Seq(RightFrame)
<1>1. Owner(t) = Process
  BY DEF Owner
<1>2. CASE SYMBOLICATOR[Process] = "failed"
  <2>1. [address |-> a, function |-> NoName, inlined |-> FALSE] \in RightFrame
    BY <1>2 DEF RightFrame, Frame
  <2> QED BY <1>1, <1>2, <2>1 DEF ResolveOne, Unresolved
<1>3. CASE SYMBOLICATOR[Process] = "built"
  <2>0. ResolveOne(t, a) = Resolved(a) /\ Known(a) = search(build_index(Publics), a)
    BY <1>1, <1>3 DEF ResolveOne, Known
  <2>1. a \in Nat /\ Publics \in Seq(PublicSymbol)
    BY PdbAssumption
  <2>2. \/ Known(a) = << >> /\ Covering(Publics, a) = {}
        \/ \E name \in Names : Known(a) = <<name>> /\ Covering(Publics, a) = {name}
    BY <2>0, <2>1, SearchIsRight
  <2>3. CASE Known(a) = << >> /\ Covering(Publics, a) = {}
    <3>1. [address |-> a, function |-> NoName, inlined |-> FALSE] \in RightFrame
      BY <2>3 DEF RightFrame, Frame
    <3> QED BY <2>0, <2>3, <3>1 DEF Resolved, Unresolved
  <2>4. ASSUME NEW name \in Names, Known(a) = <<name>>, Covering(Publics, a) = {name}
        PROVE  ResolveOne(t, a) \in Seq(RightFrame)
    <3>1. Len(Known(a)) \in Nat /\ Known(a) # << >>
      BY <2>4
    <3>2. ASSUME NEW k \in 1 .. Len(Known(a)) PROVE Known(a)[k] = name
      BY <2>4
    <3>3. \A k \in 1 .. Len(Known(a)) :
             [address |-> a, function |-> Known(a)[k], inlined |-> k > 1] \in RightFrame
      BY <1>3, <2>4, <3>2 DEF RightFrame, Frame
    <3>4. Found(a) \in [1 .. Len(Known(a)) -> RightFrame]
      BY <3>3 DEF Found
    <3>5. Found(a) \in Seq(RightFrame)
      BY <3>1, <3>4
    <3> QED BY <2>0, <3>1, <3>5 DEF Resolved
  <2> QED BY <2>2, <2>3, <2>4
<1> QED BY <1>2, <1>3

LEMMA NextIndex == TypeInv /\ CauseInv /\ IndexInv /\ [Next]_vars => IndexInv'
<1> SUFFICES ASSUME TypeInv, CauseInv, IndexInv, [Next]_vars, platform' = "windows"
             PROVE  /\ ADDRESS_CACHE' \in [Addresses -> Seq(RightFrame')]
                    /\ frames' \in [Threads -> Seq(RightFrame')]
                    /\ out' \in [Threads -> Seq(RowOf(RightFrame'))]
  BY DEF IndexInv
<1>0. LocalsOK /\ SharedOK /\ platform = "windows"
  BY FailingStays DEF TypeInv
<1>1. RightFrame \subseteq RightFrame'
  <2>1. Process \in DOMAIN SYMBOLICATOR
    BY <1>0 DEF SharedOK
  <2>2. SYMBOLICATOR[Process] # "untried" =>
           SYMBOLICATOR'[Process] = SYMBOLICATOR[Process]
    BY <2>1, FailingStays
  <2> QED BY <2>2 DEF RightFrame
<1>2. ASSUME NEW t \in Threads, Memoise(t)
      PROVE  ResolveOne(t, Address(t)) \in Seq(RightFrame)
  <2>1. Address(t) \in Addresses /\ pc[t] = "resolve"
    BY <1>0, <1>2, SiteIsRaw DEF Memoise
  <2>2. SYMBOLICATOR[Process] \in {"built", "failed"}
    <3>1. SYMBOLICATOR[Owner(t)] # "untried" /\ Owner(t) = Process
      BY <1>0, <2>1 DEF CauseInv, Owner
    <3> QED BY <1>0, <3>1 DEF SharedOK
  <2> QED BY <1>0, <2>1, <2>2, ResolvedIsRight
<1>3. /\ ADDRESS_CACHE' \in [Addresses -> Seq(RightFrame)]
      /\ frames' \in [Threads -> Seq(RightFrame)]
      /\ out' \in [Threads -> Seq(RowOf(RightFrame))]
  BY <1>0, <1>2, FramesAreResolved DEF IndexInv
<1>4. Seq(RightFrame) \subseteq Seq(RightFrame')
  BY <1>1
<1>5. RowOf(RightFrame) \subseteq RowOf(RightFrame')
  BY <1>4 DEF RowOf
<1>6. Seq(RowOf(RightFrame)) \subseteq Seq(RowOf(RightFrame'))
  BY <1>5
<1> QED BY <1>3, <1>4, <1>6

\* On Windows all reports agree on what an address is, whichever thread built the
\* index and whatever the debug info holds.
THEOREM ReportsAgree == Spec => []OneIndexPerProcess
<1>1. Init => TypeInv /\ CauseInv /\ IndexInv
  BY InitType, InitCause, InitIndex
<1>2. TypeInv /\ CauseInv /\ IndexInv /\ [Next]_vars => (TypeInv /\ CauseInv /\ IndexInv)'
  BY NextType, NextCause, NextIndex
<1> QED BY <1>1, <1>2, IndexInvAgrees, PTL DEF Spec

-----------------------------------------------------------------------------
(* Rows keep their frames.                                                   *)

\* What one address is resolved to: its frame, and then those inlined there.
IsOf(s, a) ==
    /\ s # << >>
    /\ \A k \in 1 .. Len(s) : s[k].address = a /\ (s[k].inlined <=> k > 1)

KeptRow(row, site) ==
    row.count = site.count /\ AreFrom(row.frames, site.frames, Len(site.frames))

KeptCall(t) ==
    /\ \A n \in 1 .. Len(out[t]) : KeptRow(out[t][n], raw[t][n])
    /\ pc[t] \in {"lookup", "build", "resolve"} =>
          AreFrom(frames[t], Site(t).frames, next[t] - 1)
    /\ pc[t] = "reported" => Len(out[t]) = Len(raw[t])

CacheInv == \A a \in Addresses : ADDRESS_CACHE[a] = << >> \/ IsOf(ADDRESS_CACHE[a], a)

KeepInv == CacheInv /\ \A t \in Threads : KeptCall(t)

LEMMA KeepInvKeeps == KeepInv => RowsKeepTheirFrames
BY DEF KeepInv, KeptCall, KeptRow, RowsKeepTheirFrames

LEMMA NoneAreFrom == ASSUME NEW addresses PROVE AreFrom(<< >>, addresses, 0)
<1>1. Len(<< >>) = 0 /\ 1 .. 0 = {}
  OBVIOUS
<1>2. Outer(<< >>, 0) = {}
  BY <1>1 DEF Outer
<1>3. From(<< >>, 0) = 0
  BY <1>2, FS_EmptySet DEF From
<1> QED BY <1>1, <1>3 DEF AreFrom

\* What comes after the frames so far is from the next address.
LEMMA FromAppended ==
    ASSUME NEW s \in Seq(Frame), NEW r \in Seq(Frame), NEW a, IsOf(r, a)
    PROVE  /\ From(s, Len(s)) \in Nat
           /\ \A p \in 1 .. Len(s) : From(s \o r, p) = From(s, p)
           /\ \A p \in Len(s) + 1 .. Len(s) + Len(r) :
                 From(s \o r, p) = From(s, Len(s)) + 1
<1> DEFINE n == Len(s)
           m == Len(r)
           w == s \o r
<1>1. /\ n \in Nat /\ m \in Nat
      /\ \A q \in 1 .. n : w[q] = s[q]
      /\ \A q \in n + 1 .. n + m : w[q] = r[q - n]
  OBVIOUS
<1>2. m > 0
  BY DEF IsOf
<1>3. /\ ~r[1].inlined
      /\ \A k \in 2 .. m : r[k].inlined
  BY <1>1, <1>2 DEF IsOf
<1> HIDE DEF n, m, w
<1>4. IsFiniteSet(Outer(s, n)) /\ Cardinality(Outer(s, n)) \in Nat
  <2>1. IsFiniteSet(1 .. n) /\ Outer(s, n) \subseteq 1 .. n
    BY <1>1, FS_Interval DEF Outer
  <2> QED BY <2>1, FS_Subset, FS_CardinalityType
<1>5. ASSUME NEW p \in 1 .. n PROVE From(w, p) = From(s, p)
  <2>1. \A q \in 1 .. p : w[q] = s[q]
    BY <1>1
  <2>2. Outer(w, p) = Outer(s, p)
    BY <2>1 DEF Outer
  <2> QED BY <2>2 DEF From
<1>6. ASSUME NEW p \in n + 1 .. n + m PROVE From(w, p) = From(s, n) + 1
  <2>1. ASSUME NEW q \in 1 .. n PROVE q \in Outer(w, p) <=> q \in Outer(s, n)
    <3>1. q \in 1 .. p /\ w[q] = s[q]
      BY <1>1
    <3> QED BY <3>1 DEF Outer
  <2>2. n + 1 \in Outer(w, p)
    <3>1. n + 1 \in 1 .. p /\ w[n + 1] = r[1]
      BY <1>1, <1>2
    <3> QED BY <1>3, <3>1 DEF Outer
  <2>3. ASSUME NEW q \in 1 .. p, q \notin 1 .. n, q # n + 1 PROVE q \notin Outer(w, p)
    <3>1. q - n \in 2 .. m /\ w[q] = r[q - n]
      BY <1>1, <2>3
    <3> QED BY <1>3, <3>1 DEF Outer
  <2>4. Outer(w, p) \subseteq 1 .. p /\ Outer(s, n) \subseteq 1 .. n
    BY DEF Outer
  <2>5. Outer(w, p) = Outer(s, n) \union {n + 1}
    <3>1. \A q \in Outer(w, p) : q \in Outer(s, n) \/ q = n + 1
      BY <2>1, <2>3, <2>4
    <3>2. \A q \in Outer(s, n) : q \in Outer(w, p)
      BY <2>1, <2>4
    <3> QED BY <2>2, <3>1, <3>2
  <2>6. n + 1 \notin Outer(s, n)
    BY <1>1, <2>4
  <2> QED BY <1>4, <2>5, <2>6, FS_AddElement DEF From
<1> QED BY <1>4, <1>5, <1>6 DEF From, n, m, w

LEMMA AreFromAppended ==
    ASSUME NEW s \in Seq(Frame), NEW r \in Seq(Frame), NEW addresses, NEW n \in Nat,
           AreFrom(s, addresses, n), IsOf(r, addresses[n + 1])
    PROVE  AreFrom(s \o r, addresses, n + 1)
<1> DEFINE w == s \o r
<1>1. /\ From(s, Len(s)) = n
      /\ \A p \in 1 .. Len(s) :
            From(s, p) > 0 /\ s[p].address = addresses[From(s, p)]
  BY DEF AreFrom
<1>2. /\ \A p \in 1 .. Len(s) : From(w, p) = From(s, p)
      /\ \A p \in Len(s) + 1 .. Len(s) + Len(r) : From(w, p) = n + 1
  BY <1>1, FromAppended
<1>3. /\ Len(s) \in Nat /\ Len(r) \in Nat /\ Len(w) = Len(s) + Len(r)
      /\ \A q \in 1 .. Len(s) : w[q] = s[q]
      /\ \A q \in Len(s) + 1 .. Len(s) + Len(r) : w[q] = r[q - Len(s)]
  OBVIOUS
<1>4. /\ Len(r) > 0
      /\ \A k \in 1 .. Len(r) : r[k].address = addresses[n + 1]
  BY <1>3 DEF IsOf
<1> HIDE DEF w
<1>5. From(w, Len(w)) = n + 1
  BY <1>2, <1>3, <1>4
<1>6. ASSUME NEW p \in 1 .. Len(w)
      PROVE  From(w, p) > 0 /\ w[p].address = addresses[From(w, p)]
  <2>1. CASE p <= Len(s)
    <3>1. p \in 1 .. Len(s)
      BY <1>3, <2>1
    <3> QED BY <1>1, <1>2, <1>3, <3>1
  <2>2. CASE ~(p <= Len(s))
    <3>1. p \in Len(s) + 1 .. Len(s) + Len(r) /\ p - Len(s) \in 1 .. Len(r)
      BY <1>3, <2>2
    <3>2. From(w, p) = n + 1 /\ w[p] = r[p - Len(s)]
      BY <1>2, <1>3, <3>1
    <3> QED BY <1>4, <3>1, <3>2
  <2> QED BY <2>1, <2>2
<1> QED BY <1>5, <1>6 DEF AreFrom, w

LEMMA ResolvedIsOf ==
    ASSUME NEW t, NEW a \in Addresses
    PROVE  IsOf(ResolveOne(t, a), a)
<1>1. IsOf(Unresolved(a), a)
  BY DEF IsOf, Unresolved
<1>2. CASE Known(a) # << >>
  <2>1. Known(a) \in Seq(Names) /\ Len(Known(a)) \in Nat /\ Len(Known(a)) > 0
    BY <1>2, KnownIsNames
  <2> DEFINE l == Len(Known(a))
             frame(k) == [address |-> a, function |-> Known(a)[k], inlined |-> k > 1]
  <2>2. Found(a) = [k \in 1 .. l |-> frame(k)]
    BY DEF Found
  <2>3. Len(Found(a)) = l
    BY <2>1, <2>2
  <2>4. ASSUME NEW k \in 1 .. l
        PROVE  Found(a)[k].address = a /\ (Found(a)[k].inlined <=> k > 1)
    <3>1. Found(a)[k] = frame(k)
      BY <2>2
    <3>2. frame(k).address = a /\ (frame(k).inlined <=> k > 1)
      OBVIOUS
    <3> QED BY <3>1, <3>2
  <2>5. Found(a) # << >>
    BY <2>1, <2>3
  <2>6. IsOf(Found(a), a)
    BY <2>3, <2>4, <2>5 DEF IsOf
  <2> QED BY <1>1, <1>2, <2>6 DEF ResolveOne, Resolved
<1>3. CASE Known(a) = << >>
  BY <1>1, <1>3 DEF ResolveOne, Resolved
<1> QED BY <1>2, <1>3

\* The next address's frames keep the row, and a finished row is kept.
LEMMA ExtendKeeps ==
    ASSUME LocalsOK, NEW t \in Threads, pc[t] \in {"lookup", "resolve"},
           NEW resolved \in Seq(Frame), IsOf(resolved, Address(t)), Extend(t, resolved),
           \A u \in Threads : KeptCall(u)
    PROVE  \A u \in Threads : KeptCall(u)'
<1> DEFINE last == IsLast(t)
           all  == frames[t] \o resolved
           row  == [count |-> Site(t).count, frames |-> all]
           n    == next[t]
<1>0. /\ Site(t) \in RawSite /\ Site(t).frames \in Seq(Addresses)
      /\ raw[t] \in Seq(RawSite) /\ out[t] \in Seq(Row)
      /\ Len(out[t]) \in Nat /\ Len(raw[t]) \in Nat /\ Len(out[t]) < Len(raw[t])
      /\ n \in 1 .. Len(Site(t).frames) /\ Len(Site(t).frames) \in Nat
      /\ frames[t] \in Seq(Frame)
  BY SiteIsRaw, ReportAssumption DEF LocalsOK, CallOK
<1>1. AreFrom(all, Site(t).frames, n)
  <2>1. AreFrom(frames[t], Site(t).frames, n - 1)
    BY DEF KeptCall
  <2>2. IsOf(resolved, Site(t).frames[(n - 1) + 1])
    <3>1. (n - 1) + 1 = next[t]
      BY <1>0
    <3> QED BY <3>1 DEF Address
  <2>3. n - 1 \in Nat /\ (n - 1) + 1 = n
    BY <1>0
  <2> HIDE DEF n
  <2> QED BY <1>0, <2>1, <2>2, <2>3, AreFromAppended
<1>3. /\ raw' = raw
      /\ frames' = [frames EXCEPT ![t] = IF last THEN << >> ELSE all]
      /\ next' = [next EXCEPT ![t] = IF last THEN 1 ELSE @ + 1]
      /\ out' = IF last THEN [out EXCEPT ![t] = Append(@, row)] ELSE out
      /\ pc' = [pc EXCEPT ![t] = IF last /\ Len(out'[t]) = Len(raw[t])
                                 THEN "reported" ELSE "lookup"]
  BY DEF Extend, Goto
<1>4. row.count = Site(t).count /\ row.frames = all /\ row \in Row
  <2>1. all \in Seq(Frame)
    BY <1>0
  <2> QED BY <1>0, <2>1 DEF Row, RawSite
<1> HIDE DEF last, all, row
<1>5. ASSUME NEW u \in Threads, u # t PROVE KeptCall(u)'
  <2>1. /\ pc'[u] = pc[u] /\ raw'[u] = raw[u] /\ frames'[u] = frames[u]
        /\ next'[u] = next[u] /\ out'[u] = out[u]
    BY <1>3, <1>5 DEF LocalsOK
  <2> QED BY <2>1 DEF KeptCall, Site
<1>6. KeptCall(t)'
  <2>1. CASE last
    <3>1. /\ out'[t] = Append(out[t], row) /\ Len(out'[t]) = Len(out[t]) + 1
          /\ frames'[t] = << >> /\ next'[t] = 1 /\ raw'[t] = raw[t]
      BY <1>0, <1>3, <1>4, <2>1 DEF LocalsOK
    <3>2. pc'[t] = IF Len(out'[t]) = Len(raw[t]) THEN "reported" ELSE "lookup"
      BY <1>3, <2>1 DEF LocalsOK
    <3>3. n = Len(Site(t).frames)
      BY <2>1 DEF last, IsLast
    <3>4. KeptRow(row, Site(t))
      BY <1>1, <1>4, <3>3 DEF KeptRow
    <3>5. ASSUME NEW k \in 1 .. Len(out'[t]) PROVE KeptRow(out'[t][k], raw'[t][k])
      <4>1. CASE k = Len(out[t]) + 1
        <5>1. out'[t][k] = row /\ raw'[t][k] = Site(t)
          BY <1>0, <1>4, <3>1, <4>1 DEF Site
        <5> QED BY <3>4, <5>1
      <4>2. CASE k # Len(out[t]) + 1
        <5>1. k \in 1 .. Len(out[t])
          BY <1>0, <3>1, <4>2
        <5>2. out'[t][k] = out[t][k]
          BY <1>0, <1>4, <3>1, <5>1
        <5> QED BY <3>1, <5>1, <5>2 DEF KeptCall
      <4> QED BY <4>1, <4>2
    <3>6. AreFrom(frames'[t], Site(t)'.frames, next'[t] - 1)
      <4>1. next'[t] - 1 = 0
        BY <3>1
      <4> QED BY <3>1, <4>1, NoneAreFrom
    <3> QED BY <3>1, <3>2, <3>5, <3>6 DEF KeptCall, KeptRow, AreFrom, From, Outer
  <2>2. CASE ~last
    <3>1. /\ out'[t] = out[t] /\ next'[t] = n + 1 /\ raw'[t] = raw[t]
          /\ frames'[t] = all /\ pc'[t] = "lookup"
      BY <1>3, <2>2 DEF LocalsOK
    <3>2. Site(t)' = Site(t)
      BY <3>1 DEF Site
    <3>3. next'[t] - 1 = n
      BY <1>0, <3>1
    <3>4. AreFrom(frames'[t], Site(t)'.frames, next'[t] - 1)
      BY <1>1, <3>1, <3>2, <3>3
    <3>5. \A k \in 1 .. Len(out'[t]) : KeptRow(out'[t][k], raw'[t][k])
      BY <3>1 DEF KeptCall
    <3> QED BY <3>1, <3>4, <3>5 DEF KeptCall, KeptRow, AreFrom, From, Outer
  <2> QED BY <2>1, <2>2
<1> QED BY <1>5, <1>6

LEMMA InitKeep == Init => KeepInv
<1> SUFFICES ASSUME Init PROVE KeepInv
  OBVIOUS
<1>1. \A t \in Threads : pc[t] = "idle" /\ out[t] = << >>
  BY DEF Init
<1>2. CacheInv
  BY DEF Init, CacheInv
<1> QED BY <1>1, <1>2 DEF KeepInv, KeptCall

\* A step that leaves a thread's report alone leaves it kept.
LEMMA KeptStays ==
    ASSUME NEW u \in Threads, KeptCall(u),
           raw'[u] = raw[u], frames'[u] = frames[u], next'[u] = next[u],
           out'[u] = out[u],
           \/ pc'[u] = pc[u]
           \/ /\ pc[u] \in {"lookup", "build"}
              /\ pc'[u] \in {"build", "resolve"}
    PROVE  KeptCall(u)'
BY DEF KeptCall, Site

LEMMA NextKeep == TypeInv /\ KeepInv /\ [Next]_vars => KeepInv'
<1> SUFFICES ASSUME TypeInv, KeepInv, [Next]_vars PROVE KeepInv'
  OBVIOUS
<1>0. LocalsOK /\ SharedOK /\ CacheInv /\ \A u \in Threads : KeptCall(u)
  BY DEF TypeInv, KeepInv
<1>1. ASSUME NEW t \in Threads, BeginReport(t) PROVE KeepInv'
  <2>1. PICK report \in Reports :
           /\ raw' = [raw EXCEPT ![t] = report]
           /\ Goto(t, IF report = << >> THEN "reported" ELSE "lookup")
    BY <1>1 DEF BeginReport
  <2>2. pc[t] = "idle" /\ UNCHANGED <<ADDRESS_CACHE, frames, next, out>>
    BY <1>1 DEF BeginReport, shared
  <2>3. /\ raw'[t] = report /\ out'[t] = << >> /\ frames'[t] = << >> /\ next'[t] = 1
        /\ pc'[t] = IF report = << >> THEN "reported" ELSE "lookup"
    BY <1>0, <2>1, <2>2 DEF LocalsOK, CallOK, Goto
  <2>4. KeptCall(t)'
    <3>1. AreFrom(frames'[t], Site(t)'.frames, next'[t] - 1)
      <4>1. next'[t] - 1 = 0
        BY <2>3
      <4> QED BY <2>3, <4>1, NoneAreFrom
    <3>2. Len(out'[t]) = 0 /\ (pc'[t] = "reported" => raw'[t] = << >>)
      BY <2>3
    <3> QED BY <3>1, <3>2 DEF KeptCall, AreFrom, From, Outer
  <2>5. ASSUME NEW u \in Threads, u # t PROVE KeptCall(u)'
    <3>1. /\ pc'[u] = pc[u] /\ raw'[u] = raw[u] /\ frames'[u] = frames[u]
          /\ next'[u] = next[u] /\ out'[u] = out[u]
      BY <1>0, <2>1, <2>2, <2>5 DEF LocalsOK, Goto
    <3> QED BY <1>0, <3>1, KeptStays
  <2> QED BY <1>0, <2>2, <2>4, <2>5 DEF KeepInv, CacheInv
<1>2. ASSUME NEW t \in Threads, Hit(t) PROVE KeepInv'
  <2>1. Address(t) \in Addresses
    BY <1>0, <1>2, SiteIsRaw DEF Hit
  <2>2. /\ ADDRESS_CACHE[Address(t)] \in Seq(Frame)
        /\ IsOf(ADDRESS_CACHE[Address(t)], Address(t))
    BY <1>0, <1>2, <2>1 DEF SharedOK, CacheInv, Hit
  <2>3. /\ pc[t] = "lookup" /\ Extend(t, ADDRESS_CACHE[Address(t)])
        /\ UNCHANGED ADDRESS_CACHE
    BY <1>2 DEF Hit, shared
  <2>4. \A u \in Threads : KeptCall(u)'
    BY <1>0, <2>2, <2>3, ExtendKeeps
  <2> QED BY <1>0, <2>3, <2>4 DEF KeepInv, CacheInv
<1>3. ASSUME NEW t \in Threads, Miss(t) \/ Build(t) PROVE KeepInv'
  <2>1. UNCHANGED <<ADDRESS_CACHE, raw, frames, next, out>>
    BY <1>3 DEF Miss, Build, shared
  <2>2. ASSUME NEW u \in Threads PROVE KeptCall(u)'
    <3>1. \/ pc'[u] = pc[u]
          \/ pc[u] \in {"lookup", "build"} /\ pc'[u] \in {"build", "resolve"}
      BY <1>0, <1>3 DEF Miss, Build, Goto, LocalsOK
    <3> QED BY <1>0, <2>1, <3>1, KeptStays
  <2> QED BY <1>0, <2>1, <2>2 DEF KeepInv, CacheInv
<1>4. ASSUME NEW t \in Threads, Memoise(t) PROVE KeepInv'
  <2> DEFINE a == Address(t)
             mine == ResolveOne(t, a)
  <2>1. a \in Addresses /\ pc[t] = "resolve"
    BY <1>0, <1>4, SiteIsRaw DEF Memoise
  <2>2. mine \in Seq(Frame) /\ IsOf(mine, a)
    BY <2>1, ResolveGivesFrames, ResolvedIsOf
  <2>3. /\ ADDRESS_CACHE' = [ADDRESS_CACHE EXCEPT ![a] = IF @ = << >> THEN mine ELSE @]
        /\ Extend(t, mine)
    BY <1>4 DEF Memoise
  <2> HIDE DEF mine
  <2>4. \A u \in Threads : KeptCall(u)'
    BY <1>0, <2>1, <2>2, <2>3, ExtendKeeps
  <2> HIDE DEF a
  <2>5. ASSUME NEW b \in Addresses
        PROVE  ADDRESS_CACHE'[b] = << >> \/ IsOf(ADDRESS_CACHE'[b], b)
    <3>1. ADDRESS_CACHE'[b] = ADDRESS_CACHE[b] \/ (b = a /\ ADDRESS_CACHE'[b] = mine)
      BY <1>0, <2>3 DEF SharedOK
    <3> QED BY <1>0, <2>2, <3>1 DEF CacheInv
  <2> QED BY <2>4, <2>5 DEF KeepInv, CacheInv, IsOf
<1>5. ASSUME NEW t \in Threads, TakeReport(t) PROVE KeepInv'
  <2>1. /\ UNCHANGED <<ADDRESS_CACHE, frames, next>>
        /\ raw' = [raw EXCEPT ![t] = << >>] /\ out' = [out EXCEPT ![t] = << >>]
        /\ pc' = [pc EXCEPT ![t] = "idle"]
    BY <1>5 DEF TakeReport, Goto, shared
  <2>2. ASSUME NEW u \in Threads, u # t PROVE KeptCall(u)'
    <3>1. /\ pc'[u] = pc[u] /\ raw'[u] = raw[u] /\ frames'[u] = frames[u]
          /\ next'[u] = next[u] /\ out'[u] = out[u]
      BY <1>0, <2>1, <2>2 DEF LocalsOK
    <3> QED BY <1>0, <3>1, KeptStays
  <2>3. KeptCall(t)'
    <3>1. pc'[t] = "idle" /\ out'[t] = << >>
      BY <1>0, <2>1 DEF LocalsOK
    <3> QED BY <3>1 DEF KeptCall
  <2> QED BY <1>0, <2>1, <2>2, <2>3 DEF KeepInv, CacheInv
<1>6. CASE ResetCache
  <2>1. UNCHANGED <<pc, raw, frames, next, out>> /\ CacheInv'
    BY <1>6 DEF ResetCache, locals, CacheInv
  <2>2. ASSUME NEW u \in Threads PROVE KeptCall(u)'
    BY <1>0, <2>1, KeptStays
  <2> QED BY <2>1, <2>2 DEF KeepInv
<1>7. CASE UNCHANGED vars
  <2>1. UNCHANGED <<ADDRESS_CACHE, pc, raw, frames, next, out>>
    BY <1>7 DEF vars, shared, locals
  <2>2. ASSUME NEW u \in Threads PROVE KeptCall(u)'
    BY <1>0, <2>1, KeptStays
  <2> QED BY <1>0, <2>1, <2>2 DEF KeepInv, CacheInv
<1> QED BY <1>1, <1>2, <1>3, <1>4, <1>5, <1>6, <1>7 DEF Next, Rest

\* A report that is symbolicated, through hits and misses of whichever thread's
\* symbolicator, keeps its rows, and in each the return addresses in order.
THEOREM FramesAreKept == Spec => []RowsKeepTheirFrames
<1>1. Init => TypeInv /\ KeepInv
  BY InitType, InitKeep
<1>2. TypeInv /\ KeepInv /\ [Next]_vars => (TypeInv /\ KeepInv)'
  BY NextType, NextKeep
<1> QED BY <1>1, <1>2, KeepInvKeeps, PTL DEF Spec
=============================================================================
