------------------------- MODULE RecordEvent_proofs -------------------------
(***************************************************************************)
(* The walk is safe on every stack, for all bounds, words and MAX_FRAMES;  *)
(* and so is record_event, whatever the system answers: for every stack,   *)
(* every content of it, every state of the cache and every failing query.  *)
(***************************************************************************)
EXTENDS RecordEvent, Arithmetic, TLAPS

\* What holds between two iterations: the next record lies above those read, and
\* every record read has given its return address, but for a last one that had
\* none to give.
WalkInv ==
    /\ visited \in Seq(Records)
    /\ \A j, k \in 1 .. Len(visited) : j < k => visited[j] < visited[k]
    /\ Len(visited) <= MaxFrames
    /\ ~done => /\ Len(visited) = Len(out)
                /\ fp # 0 => \A k \in 1 .. Len(visited) : visited[k] < fp
    /\ Len(visited) - Len(out) \in {0, 1}
    /\ \A k \in 1 .. Len(out) : out[k] = return[visited[k]] /\ out[k] # 0
    /\ Len(visited) = Len(out) + 1 => done /\ return[visited[Len(visited)]] = 0

\* The four checks before a read admit records of the stack only.
LEMMA ReadableIsRecord ==
    ASSUME NEW a \in Nat, Readable(a)
    PROVE  a \in Records
BY StackAssumption DEF Readable, Records

LEMMA RecordsAreNat == Records \subseteq Nat
BY StackAssumption DEF Records

\* One iteration keeps the types.
LEMMA TypeStep == TypeOK /\ [Next]_vars => TypeOK'
<1> SUFFICES ASSUME TypeOK, [Next]_vars PROVE TypeOK'
  OBVIOUS
<1> USE FramesAssumption, WordAssumption, TopAssumption DEF TypeOK
<1>0. fp \in Nat /\ Links \subseteq Nat /\ Returns \subseteq Nat
  OBVIOUS
<1>1. ASSUME Reading PROVE fp \in Records
  BY <1>0, <1>1, ReadableIsRecord DEF Reading
<1>2. CASE Stop
  BY <1>2 DEF Stop
<1>3. CASE Follow
  <2>1. fp \in Records
    BY <1>1, <1>3 DEF Follow
  <2>2. link[fp] \in Links /\ return[fp] \in Nat
    BY <2>1, <1>0
  <2>3. fp \in Nat /\ Len(out) < MaxFrames
    BY <1>3, <1>0 DEF Follow, Reading
  <2> QED BY <1>3, <2>2, <2>3 DEF Follow, Capture
<1>4. CASE StopAtBadLink
  <2>1. fp \in Records /\ Len(out) < MaxFrames
    BY <1>1, <1>4 DEF StopAtBadLink, Reading
  <2>2. return[fp] \in Nat /\ fp \in Nat
    BY <2>1, <1>0
  <2>3. out' \in Seq(Nat) /\ Len(out') <= MaxFrames
    <3>1. CASE return[fp] # 0
      <4>1. out' = Append(out, return[fp])
        BY <1>4, <3>1 DEF StopAtBadLink, Capture
      <4> QED BY <2>1, <2>2, <4>1
    <3>2. CASE return[fp] = 0
      BY <1>4, <3>2 DEF StopAtBadLink
    <3> QED BY <3>1, <3>2
  <2>4. visited' \in Seq(Nat)
    BY <1>4, <2>2 DEF StopAtBadLink
  <2> QED BY <1>4, <2>3, <2>4 DEF StopAtBadLink
<1>5. CASE StopAtBottom
  BY <1>5, <1>0 DEF StopAtBottom
<1>6. CASE UNCHANGED vars
  BY <1>6 DEF vars
<1> QED BY <1>2, <1>3, <1>4, <1>5, <1>6 DEF Next, Returned

\* The type invariant of the walk.
THEOREM TypeSafety == Spec => []TypeOK
<1>1. Init => TypeOK
  <2> SUFFICES ASSUME Init PROVE TypeOK
    OBVIOUS
  <2>1. out \in Seq(Nat) /\ Len(out) = 0 /\ visited \in Seq(Nat)
    BY DEF Init
  <2>2. Len(out) <= MaxFrames
    BY <2>1, FramesAssumption
  <2>3. done \in BOOLEAN
    BY DEF Init
  <2>4. /\ link \in [Records -> Links] /\ return \in [Records -> Returns]
        /\ fp \in Starts \union Links
    BY DEF Init
  <2> QED BY <2>1, <2>2, <2>3, <2>4 DEF TypeOK
<1> QED BY <1>1, TypeStep, PTL DEF Spec

LEMMA WalkInvStep == TypeOK /\ WalkInv /\ [Next]_vars => WalkInv'
<1> SUFFICES ASSUME TypeOK, WalkInv, [Next]_vars PROVE WalkInv'
  OBVIOUS
<1> USE FramesAssumption
<1>0. /\ fp \in Nat /\ Records \subseteq Nat
      /\ out \in Seq(Nat) /\ Len(out) \in Nat /\ Len(visited) \in Nat
  BY WordAssumption, RecordsAreNat DEF TypeOK, WalkInv
<1>1. ASSUME Reading PROVE /\ fp \in Records /\ fp # 0
                           /\ return[fp] \in Nat /\ link[fp] \in Nat
  <2>1. fp \in Records
    BY <1>0, <1>1, ReadableIsRecord DEF Reading
  <2>2. return[fp] \in Returns /\ link[fp] \in Links
    BY <2>1 DEF TypeOK
  <2>3. Returns \subseteq Nat /\ Links \subseteq Nat
    BY WordAssumption, TopAssumption
  <2>4. fp # 0
    BY <1>1 DEF Reading, Readable
  <2> QED BY <2>1, <2>2, <2>3, <2>4
<1>2. CASE Stop
  BY <1>2, <1>0 DEF Stop, WalkInv
<1>3. ASSUME Reading, visited' = Append(visited, fp)
      PROVE  /\ visited' \in Seq(Records)
             /\ Len(visited') = Len(visited) + 1
             /\ Len(visited') <= MaxFrames
             /\ \A k \in 1 .. Len(visited) : visited'[k] = visited[k]
             /\ visited'[Len(visited) + 1] = fp
             /\ \A j, k \in 1 .. Len(visited') :
                   j < k => visited'[j] < visited'[k]
  BY <1>0, <1>1, <1>3 DEF Reading, WalkInv
<1>4. ASSUME Reading, visited' = Append(visited, fp), Capture,
             return[fp] # 0, UNCHANGED return
      PROVE  /\ Len(out') = Len(visited')
             /\ \A k \in 1 .. Len(out') :
                   out'[k] = return'[visited'[k]] /\ out'[k] # 0
  BY <1>0, <1>1, <1>3, <1>4 DEF Capture, Reading, WalkInv
<1>9. ASSUME Reading, visited' = Append(visited, fp), done', return[fp] = 0,
             UNCHANGED <<return, out>>, Len(out) = Len(visited)
      PROVE  WalkInv'
  <2>1. Len(visited') - Len(out') \in {0, 1}
    BY <1>0, <1>3, <1>9
  <2>2. \A k \in 1 .. Len(out') :
           out'[k] = return'[visited'[k]] /\ out'[k] # 0
    BY <1>0, <1>3, <1>9 DEF WalkInv
  <2>3. return'[visited'[Len(visited')]] = 0
    BY <1>3, <1>9
  <2> QED BY <1>3, <1>9, <2>1, <2>2, <2>3 DEF WalkInv
<1>5. CASE Follow
  <2>1. visited' = Append(visited, fp) /\ Reading
    BY <1>5 DEF Follow
  <2>2. fp' # 0 => \A k \in 1 .. Len(visited') : visited'[k] < fp'
    <3>1. ASSUME fp' # 0 PROVE fp' > fp /\ fp' \in Nat
      BY <1>1, <1>5, <2>1, <3>1 DEF Follow, LeadsUp
    <3>2. \A k \in 1 .. Len(visited) : visited[k] < fp
      BY <1>1, <2>1 DEF Reading, WalkInv
    <3>3. \A k \in 1 .. Len(visited) : visited[k] \in Nat
      BY DEF TypeOK
    <3> QED BY <1>0, <1>3, <2>1, <3>1, <3>2, <3>3
  <2>3. /\ Len(out') = Len(visited')
        /\ \A k \in 1 .. Len(out') :
              out'[k] = return'[visited'[k]] /\ out'[k] # 0
    BY <1>4, <1>5 DEF Follow
  <2> QED BY <1>0, <1>3, <2>1, <2>2, <2>3 DEF WalkInv
<1>6. CASE StopAtBadLink
  <2>1. visited' = Append(visited, fp) /\ Reading /\ done' /\ UNCHANGED return
    BY <1>6 DEF StopAtBadLink
  <2>2. CASE return[fp] # 0
    <3>1. /\ Len(out') = Len(visited')
          /\ \A k \in 1 .. Len(out') :
                out'[k] = return'[visited'[k]] /\ out'[k] # 0
      BY <1>4, <1>6, <2>1, <2>2 DEF StopAtBadLink
    <3> QED BY <1>0, <1>3, <2>1, <3>1 DEF WalkInv
  <2>3. CASE return[fp] = 0
    <3>1. out' = out /\ Len(out) = Len(visited)
      BY <1>6, <2>1, <2>3 DEF StopAtBadLink, WalkInv, Reading
    <3> QED BY <1>9, <2>1, <2>3, <3>1
  <2> QED BY <2>2, <2>3
<1>7. CASE StopAtBottom
  <2>1. /\ visited' = Append(visited, fp) /\ Reading /\ done'
        /\ UNCHANGED <<return, out>> /\ Len(out) = Len(visited) /\ return[fp] = 0
    BY <1>7 DEF StopAtBottom, Reading, WalkInv
  <2> QED BY <1>9, <2>1
<1>8. CASE UNCHANGED vars
  BY <1>8 DEF vars, WalkInv
<1> QED BY <1>2, <1>5, <1>6, <1>7, <1>8 DEF Next, Returned

LEMMA WalkInvHolds == Spec => []WalkInv
<1>1. Init => WalkInv
  BY FramesAssumption DEF Init, WalkInv
<1> QED BY <1>1, WalkInvStep, TypeSafety, PTL DEF Spec

\* Whatever the stack holds, the walk reads records of the stack only, at most
\* MAX_FRAMES of them and none twice.
THEOREM SafeReads == Spec => []ReadsAreSafe
<1>1. WalkInv => ReadsAreSafe
  BY DEF WalkInv, ReadsAreSafe
<1> QED BY <1>1, WalkInvHolds, PTL

LEMMA CaptureIsFaithful == TypeOK /\ WalkInv => CapturesWhatItReads
<1> SUFFICES ASSUME TypeOK, WalkInv PROVE CapturesWhatItReads
  OBVIOUS
<1>1. /\ Len(out) \in Nat /\ Len(visited) \in Nat
      /\ Len(visited) = Len(out) \/ Len(visited) = Len(out) + 1
  BY DEF TypeOK, WalkInv
<1>2. ASSUME NEW k \in 1 .. Len(visited), k > Len(out)
      PROVE  k = Len(visited) /\ Len(visited) = Len(out) + 1
  BY <1>1, <1>2
<1> QED BY <1>1, <1>2 DEF WalkInv, CapturesWhatItReads

\* The frames are, in order, the return addresses of the records read, and only a
\* null one of the last record is left out.
THEOREM FaithfulCapture == Spec => []CapturesWhatItReads
<1>1. TypeOK /\ WalkInv => CapturesWhatItReads
  BY CaptureIsFaithful
<1> QED BY <1>1, TypeSafety, WalkInvHolds, PTL

\* How the records read hang together, and why the walk returned: it had its
\* frames, or met what is no record, a link that does not lead up or the bottom.
ChainInv ==
    LET last == visited[Len(visited)]
    IN /\ \A k \in 1 .. Len(visited) : k > 1 => visited[k] = link[visited[k - 1]]
       /\ ~done /\ visited # << >> => fp = link[last]
       /\ done => \/ /\ Len(out) = MaxFrames \/ ~Readable(fp)
                     /\ Len(out) = Len(visited)
                     /\ visited # << >> => fp = link[last]
                  \/ visited # << >> /\ (~LeadsUp(last) \/ return[last] = 0)

\* The record just read follows the one before it.
LEMMA ChainGrows ==
    ASSUME TypeOK, WalkInv, ChainInv, Reading, visited' = Append(visited, fp),
           UNCHANGED link
    PROVE  /\ \A k \in 1 .. Len(visited') :
                 k > 1 => visited'[k] = link'[visited'[k - 1]]
           /\ visited' # << >> /\ visited'[Len(visited')] = fp
<1>1. visited \in Seq(Nat) /\ Len(visited) \in Nat /\ fp \in Nat
  BY WordAssumption, TopAssumption DEF TypeOK
<1>2. /\ Len(visited') = Len(visited) + 1
      /\ \A k \in 1 .. Len(visited) : visited'[k] = visited[k]
      /\ visited'[Len(visited) + 1] = fp
  BY <1>1
<1>3. visited' # << >> /\ visited'[Len(visited')] = fp
  BY <1>1, <1>2
<1>4. ASSUME NEW k \in 1 .. Len(visited) + 1, k > 1
      PROVE  visited'[k] = link'[visited'[k - 1]]
  <2>1. k - 1 \in 1 .. Len(visited)
    BY <1>1, <1>2, <1>4
  <2>2. visited'[k - 1] = visited[k - 1]
    BY <1>2, <2>1
  <2>3. CASE k \in 1 .. Len(visited)
    <3>1. visited[k] = link[visited[k - 1]]
      BY <1>4, <2>3 DEF ChainInv
    <3> QED BY <1>2, <2>2, <2>3, <3>1
  <2>4. CASE k = Len(visited) + 1
    <3>1. visited # << >> /\ k - 1 = Len(visited)
      BY <1>1, <1>4, <2>1, <2>4
    <3>2. fp = link[visited[k - 1]]
      BY <3>1 DEF ChainInv, Reading
    <3> QED BY <1>2, <2>2, <2>4, <3>2
  <2> QED BY <1>1, <1>2, <1>4, <2>3, <2>4
<1> QED BY <1>2, <1>3, <1>4

LEMMA ChainInvStep == TypeOK /\ WalkInv /\ ChainInv /\ [Next]_vars => ChainInv'
<1> SUFFICES ASSUME TypeOK, WalkInv, ChainInv, [Next]_vars PROVE ChainInv'
  OBVIOUS
<1>1. CASE Stop
  <2>1. ~done /\ (Len(out) = MaxFrames \/ ~Readable(fp))
    BY <1>1 DEF Stop
  <2>2. Len(out) = Len(visited)
    BY <2>1 DEF WalkInv
  <2> QED BY <1>1, <2>1, <2>2 DEF Stop, ChainInv, Readable
<1>2. CASE Follow
  <2>1. Reading /\ visited' = Append(visited, fp) /\ UNCHANGED <<link, done>> /\ fp' = link[fp]
    BY <1>2 DEF Follow
  <2>2. ~done'
    BY <2>1 DEF Reading
  <2> QED BY <2>1, <2>2, ChainGrows DEF ChainInv
<1>3. CASE StopAtBadLink
  <2>1. /\ Reading /\ visited' = Append(visited, fp) /\ UNCHANGED link /\ done'
        /\ ~LeadsUp(fp)
    BY <1>3 DEF StopAtBadLink
  <2>2. visited'[Len(visited')] = fp
    BY <2>1, ChainGrows
  <2> QED BY <2>1, <2>2, ChainGrows DEF ChainInv, LeadsUp
<1>4. CASE StopAtBottom
  <2>1. /\ Reading /\ visited' = Append(visited, fp) /\ UNCHANGED <<link, return>> /\ done'
        /\ return[fp] = 0
    BY <1>4 DEF StopAtBottom
  <2> QED BY <2>1, ChainGrows DEF ChainInv
<1>5. CASE UNCHANGED vars
  BY <1>5 DEF vars, ChainInv, Readable, LeadsUp
<1> QED BY <1>1, <1>2, <1>3, <1>4, <1>5 DEF Next, Returned

\* The walk of a proper chain reads the records of the chain, in order.
LEMMA FollowsTheChain ==
    ASSUME TypeOK, WalkInv, ChainInv, NEW n \in Nat \ {0},
           NEW s \in [1 .. n -> Records], IsChain(s), visited # << >>,
           s[1] = visited[1]
    PROVE  \A k \in 1 .. Len(visited) : k <= n /\ s[k] = visited[k]
<1>1. visited \in Seq(Nat) /\ Len(visited) \in Nat
  BY DEF TypeOK
<1>2. s \in Seq(Records) /\ Len(s) = n
  BY SMTT(30)
<1> DEFINE On(k) == k <= n /\ s[k] = visited[k]
           Bad == {k \in 1 .. Len(visited) : ~On(k)}
<1>3. SUFFICES ASSUME Bad # {} PROVE FALSE
  OBVIOUS
<1>4. PICK k \in Bad : \A m \in Bad : k <= m
  <2>1. Bad \subseteq Nat
    OBVIOUS
  <2> HIDE DEF Bad
  <2> QED BY <1>3, <2>1, LeastNatural
<1>5. k \in 1 .. Len(visited) /\ ~On(k) /\ \A m \in 1 .. Len(visited) : m < k => On(m)
  BY <1>1, <1>4
<1>6. k > 1
  BY <1>5
<1>7. k - 1 \in 1 .. Len(visited) /\ k - 1 < k
  BY <1>1, <1>5, <1>6
<1>8. On(k - 1)
  BY <1>5, <1>7
<1>9. visited[k] = link[s[k - 1]]
  <2>1. visited[k] = link[visited[k - 1]]
    BY <1>5, <1>6 DEF ChainInv
  <2> QED BY <1>8, <2>1
<1>10. visited[k] # 0
  <2>1. visited[k - 1] < visited[k]
    BY <1>5, <1>7 DEF WalkInv
  <2>2. visited[k - 1] \in Nat /\ visited[k] \in Nat
    BY <1>1, <1>5, <1>7
  <2> QED BY <2>1, <2>2
<1>11. k - 1 # n
  BY <1>2, <1>9, <1>10 DEF IsChain
<1>12. k - 1 \in 1 .. Len(s) - 1
  BY <1>2, <1>7, <1>8, <1>11
<1>13. link[s[k - 1]] = s[(k - 1) + 1]
  BY <1>12 DEF IsChain
<1>14. s[k] = visited[k] /\ k <= n
  <2>1. (k - 1) + 1 = k
    BY <1>5
  <2> QED BY <1>2, <1>9, <1>12, <1>13, <2>1
<1> QED BY <1>5, <1>14

\* The walk of a proper chain ends where the chain does, or after MAX_FRAMES.
LEMMA ChainIsCaptured ==
    ASSUME TypeOK, WalkInv, ChainInv, done, NEW n \in Nat \ {0},
           NEW s \in [1 .. n -> Records], IsChain(s), visited # << >>,
           s[1] = visited[1]
    PROVE  /\ Len(out) = IF n < MaxFrames THEN n ELSE MaxFrames
           /\ \A k \in 1 .. Len(out) : out[k] = return[s[k]]
<1> DEFINE m == Len(visited)
<1>1. m \in Nat \ {0} /\ m <= MaxFrames /\ Len(out) \in Nat /\ MaxFrames \in Nat \ {0}
  BY FramesAssumption DEF TypeOK, WalkInv
<1>2. \A k \in 1 .. m : k <= n /\ s[k] = visited[k]
  BY FollowsTheChain
<1>3. m \in 1 .. n /\ s[m] = visited[m]
  BY <1>1, <1>2
<1>4. s \in Seq(Records) /\ Len(s) = n
  BY SMTT(30)
<1>5. s[m] # 0 /\ return[s[m]] # 0 /\ LeadsUp(s[m])
  <2>1. s[m] # 0 /\ return[s[m]] # 0
    BY <1>3, <1>4 DEF IsChain
  <2>2. CASE m = n
    BY <1>4, <2>1, <2>2 DEF IsChain, LeadsUp
  <2>3. CASE m # n
    <3>1. m \in 1 .. Len(s) - 1
      BY <1>3, <1>4, <2>3
    <3>2. link[s[m]] = s[m + 1] /\ s[m] < s[m + 1]
      BY <3>1 DEF IsChain
    <3>3. s[m] \in Nat /\ s[m + 1] \in Nat
      <4>1. s[m] \in Records /\ s[m + 1] \in Records
        BY <1>3, <1>4, <3>1
      <4> QED BY <4>1, RecordsAreNat
    <3> QED BY <2>1, <3>2, <3>3 DEF LeadsUp
  <2> QED BY <2>1, <2>2, <2>3
<1>6. /\ Len(out) = MaxFrames \/ ~Readable(fp)
      /\ Len(out) = m /\ fp = link[s[m]]
  BY <1>3, <1>5 DEF ChainInv
<1>7. ASSUME m < n PROVE Readable(fp)
  <2>1. m \in 1 .. Len(s) - 1 /\ m + 1 \in 1 .. Len(s)
    BY <1>3, <1>4, <1>7
  <2>2. fp = s[m + 1] /\ fp # 0
    BY <1>6, <2>1 DEF IsChain
  <2>3. fp \in Records
    BY <1>4, <2>1, <2>2
  <2>4. fp % 16 = 0 /\ fp \in Low .. High /\ fp + 16 <= High
    BY <2>3 DEF Records
  <2>5. fp >= Low /\ fp + 16 < Top /\ fp + 16 <= High
    <3> HIDE DEF m
    <3> QED BY <2>4, StackAssumption, TopAssumption
  <2> QED BY <2>2, <2>4, <2>5 DEF Readable
<1>8. Len(out) = IF n < MaxFrames THEN n ELSE MaxFrames
  BY <1>1, <1>3, <1>6, <1>7
<1>9. \A k \in 1 .. Len(out) : out[k] = return[s[k]]
  BY <1>2, <1>6 DEF WalkInv
<1> QED BY <1>8, <1>9

LEMMA ChainInvImplies == TypeOK /\ WalkInv /\ ChainInv => ProperChainIsCaptured
<1> SUFFICES ASSUME TypeOK, WalkInv, ChainInv, done,
                    NEW n \in 1 .. Cardinality(Records), NEW s \in [1 .. n -> Records],
                    IsChain(s), visited # << >>, s[1] = visited[1]
             PROVE  /\ Len(out) = IF n < MaxFrames THEN n ELSE MaxFrames
                    /\ \A k \in 1 .. Len(out) : out[k] = return[s[k]]
  BY DEF ProperChainIsCaptured
<1>1. n \in Nat \ {0}
  OBVIOUS
<1> QED BY <1>1, ChainIsCaptured

\* The walk of a chain that the compiler laid out properly returns its innermost
\* MAX_FRAMES return addresses, all of them if there are no more.
THEOREM ProperChains == Spec => []ProperChainIsCaptured
<1>1. Init => ChainInv
  <2> SUFFICES ASSUME Init PROVE ChainInv
    OBVIOUS
  <2>1. visited = << >> /\ Len(visited) = 0 /\ ~done
    BY DEF Init
  <2> QED BY <2>1 DEF ChainInv
<1>2. Spec => []ChainInv
  BY <1>1, ChainInvStep, TypeSafety, WalkInvHolds, PTL DEF Spec
<1> QED BY <1>2, ChainInvImplies, TypeSafety, WalkInvHolds, PTL

-----------------------------------------------------------------------------
(* record_event.                                                             *)

\* What holds between two steps of record_event: only the stack's bounds are
\* cached or walked with, no walk has begun outside the walk, and the walk begins
\* with the event's frame pointer: what it reads first is the record there, or
\* that is none.
EventInv ==
    /\ tls \in {"alive", "gone"}
    /\ stage \in {"outside", "bounds", "walk"}
    /\ asked \in {"no", "failed", "answered"}
    /\ learnt \in BOOLEAN /\ recorded \in BOOLEAN
    /\ CACHED \in {None, Stack}
    /\ bounds = IF stage = "walk" THEN Stack ELSE None
    /\ stage # "walk" => out = << >> /\ visited = << >>
    /\ stage = "walk" => asked # "failed"
    /\ stage = "bounds" => asked = "no"
    /\ learnt => tls = "gone" \/ CACHED # None
    /\ start \in Nat
    /\ stage = "bounds" => start = fp
    /\ stage = "walk" =>
          IF visited = << >> THEN start = fp /\ (done => ~Readable(fp))
                             ELSE start = visited[1]

\* Whatever the platform, and however the query fails, its answer is the stack
\* or none.
LEMMA QueryIsTrue == query_os \subseteq {None, Stack}
<1> USE StackAssumption, LiveAssumption, TopAssumption
<1>1. \A w \in {Stack, <<0, 0>>, <<High, Low>>} :
         query_windows(w[1], w[2]) \in {None, Stack}
  BY DEF query_windows, Stack, None
<1>2. \A w \in {<<Low, High - Low>>, <<0, High>>, <<Low, 0>>, <<Low, Top>>} :
         query_linux(FALSE, w[1], w[2]) \in {None, Stack}
  BY DEF query_linux, Stack, None
<1>3. \A w \in Garbage \X Garbage : query_linux(TRUE, w[1], w[2]) = None
  BY DEF query_linux
<1>4. \A w \in {<<High, High - Low>>, <<0, High>>, <<High, 0>>, <<High, Top>>} :
         query_bsd(w[1], w[2]) \in {None, Stack}
  BY DEF query_bsd, Stack, None
<1> DEFINE Windows == {query_windows(w[1], w[2]) : w \in {Stack, <<0, 0>>, <<High, Low>>}}
           Linux == {query_linux(FALSE, w[1], w[2]) :
                      w \in {<<Low, High - Low>>, <<0, High>>, <<Low, 0>>, <<Low, Top>>}}
           Failed == {query_linux(TRUE, w[1], w[2]) : w \in Garbage \X Garbage}
           Bsd == {query_bsd(w[1], w[2]) :
                      w \in {<<High, High - Low>>, <<0, High>>, <<High, 0>>, <<High, Top>>}}
<1>5. query_os = Windows \union Linux \union Failed \union Bsd \union {None}
  BY DEF query_os
<1>6. Windows \subseteq {None, Stack}
  BY <1>1
<1>7. Linux \subseteq {None, Stack}
  BY <1>2
<1>8. Failed \subseteq {None, Stack}
  BY <1>3
<1>9. Bsd \subseteq {None, Stack}
  BY <1>4
<1> HIDE DEF Windows, Linux, Failed, Bsd
<1> QED BY <1>5, <1>6, <1>7, <1>8, <1>9

LEMMA StackIsSome == None # Stack
BY DEF None, Stack

LEMMA ZeroIsRead == NoLinks \in [Records -> Links] /\ NoLinks \in [Records -> Returns]
BY ZeroAssumption DEF NoLinks

\* record_event returns.
LEMMA LeaveKeeps ==
    ASSUME NEW isRecorded, Leave(isRecorded)
    PROVE  TypeOK' /\ WalkInv'
<1>1. TypeOK'
  BY ZeroIsRead, ZeroAssumption, FramesAssumption DEF Leave, TypeOK
<1>2. WalkInv'
  BY FramesAssumption DEF Leave, WalkInv
<1> QED BY <1>1, <1>2

LEMMA EventInit == RecordEventInit => TypeOK /\ WalkInv /\ EventInv
<1> SUFFICES ASSUME RecordEventInit PROVE TypeOK /\ WalkInv /\ EventInv
  OBVIOUS
<1> USE DEF RecordEventInit
<1>1. TypeOK
  BY ZeroIsRead, ZeroAssumption, FramesAssumption DEF TypeOK
<1>2. WalkInv
  BY FramesAssumption DEF WalkInv
<1>3. EventInv
  BY DEF EventInv
<1> QED BY <1>1, <1>2, <1>3

LEMMA EventStep ==
    ASSUME TypeOK, WalkInv, EventInv, [RecordEventNext]_<<vars, capture>>
    PROVE  TypeOK' /\ WalkInv' /\ EventInv'
<1>1. CASE Begin
  <2>1. UNCHANGED <<out, visited, done>> /\ out = << >> /\ visited = << >>
    BY <1>1 DEF Begin, EventInv
  <2>2. fp' \in Starts
    BY <1>1, WordAssumption DEF Begin, current_fp
  <2>3. TypeOK'
    BY <1>1, <2>1, <2>2 DEF Begin, TypeOK
  <2>4. WalkInv'
    BY <1>1, <2>1, FramesAssumption DEF WalkInv
  <2>5. fp' \in Nat
    BY <2>2, WordAssumption, TopAssumption
  <2>6. EventInv'
    BY <1>1, <2>1, <2>5 DEF Begin, EventInv
  <2> QED BY <2>3, <2>4, <2>6
<1>2. CASE BeginWithout \/ LocalsGo
  <2>1. UNCHANGED vars
    BY <1>2 DEF BeginWithout, LocalsGo
  <2>2. TypeOK' /\ WalkInv'
    BY <2>1, TypeStep, WalkInvStep
  <2>3. /\ UNCHANGED <<stage, bounds, CACHED, out, visited, done, fp, return>>
        /\ stage = "outside" /\ stage' = "outside"
    BY <1>2, <2>1 DEF BeginWithout, LocalsGo, vars
  <2>4. ASSUME BeginWithout PROVE EventInv'
    BY <2>3, <2>4 DEF BeginWithout, EventInv
  <2>5. ASSUME LocalsGo PROVE EventInv'
    BY <2>3, <2>5 DEF LocalsGo, EventInv
  <2> QED BY <1>2, <2>2, <2>4, <2>5
<1>3. ASSUME NEW b, Enter(b), stage = "bounds" PROVE TypeOK' /\ WalkInv'
  <2>1. /\ UNCHANGED <<link, return, fp, out, visited>> /\ done' = FALSE
        /\ out = << >> /\ visited = << >>
    BY <1>3 DEF Enter, EventInv
  <2>2. TypeOK'
    BY <2>1 DEF TypeOK
  <2>3. WalkInv'
    BY <2>1, FramesAssumption DEF WalkInv
  <2> QED BY <2>2, <2>3
<1>4. CASE BoundsHit
  <2>1. CACHED = Stack /\ Enter(CACHED) /\ stage = "bounds"
    BY <1>4 DEF BoundsHit, EventInv
  <2>2. EventInv'
    BY <1>4, <2>1 DEF BoundsHit, EventInv, Enter
  <2> QED BY <1>3, <2>1, <2>2
<1>5. CASE Query
  <2>1. PICK fresh \in query_os :
           /\ asked' = IF fresh = None THEN "failed" ELSE "answered"
           /\ learnt' = (learnt \/ (CacheIsOn /\ fresh # None))
           /\ CACHED' = IF CacheIsOn /\ fresh # None THEN fresh ELSE CACHED
           /\ IF fresh = None THEN Leave(FALSE) ELSE Enter(fresh)
    BY <1>5 DEF Query
  <2>2. fresh \in {None, Stack} /\ stage = "bounds" /\ UNCHANGED tls
    BY <1>5, QueryIsTrue DEF Query
  <2>3. CASE fresh = None
    <3>1. /\ Leave(FALSE) /\ asked' = "failed" /\ UNCHANGED <<CACHED, tls>>
          /\ learnt' = learnt
      BY <2>1, <2>2, <2>3 DEF EventInv
    <3>2. EventInv'
      BY <3>1 DEF EventInv, Leave
    <3> QED BY <3>1, <3>2, LeaveKeeps
  <2>4. CASE fresh = Stack
    <3>1. Enter(Stack)
      BY <2>1, <2>4, StackIsSome
    <3>2. EventInv'
      BY <2>1, <2>2, <2>4, <3>1, StackIsSome DEF EventInv, Enter, CacheIsOn
    <3> QED BY <1>3, <2>2, <3>1, <3>2
  <2> QED BY <2>2, <2>3, <2>4
<1>6. CASE WalkStep
  <2>1. TypeOK' /\ WalkInv'
    BY <1>6, TypeStep, WalkInvStep DEF WalkStep, Next
  <2>2. UNCHANGED capture /\ stage = "walk"
    BY <1>6 DEF WalkStep
  <2>3. /\ fp \in Nat /\ visited \in Seq(Nat) /\ Len(visited) \in Nat /\ Len(out) \in Nat
        /\ Len(out) <= Len(visited)
    BY WordAssumption, TopAssumption DEF TypeOK, WalkInv
  <2>4. ASSUME visited' = Append(visited, fp)
        PROVE  visited' # << >> /\ visited'[1] = IF visited = << >> THEN fp ELSE visited[1]
    BY <2>3, <2>4
  <2>5. IF visited' = << >> THEN start = fp' /\ (done' => ~Readable(fp)')
                            ELSE start = visited'[1]
    <3>1. CASE Stop
      <4>1. UNCHANGED <<fp, out, visited>> /\ (Len(out) = MaxFrames \/ ~Readable(fp))
        BY <3>1 DEF Stop
      <4>2. visited = << >> => Len(out) # MaxFrames
        BY <2>3, FramesAssumption
      <4> QED BY <2>2, <4>1, <4>2 DEF EventInv, Readable
    <3>2. CASE Follow \/ StopAtBadLink \/ StopAtBottom
      <4>1. visited' = Append(visited, fp)
        BY <3>2 DEF Follow, StopAtBadLink, StopAtBottom
      <4> QED BY <2>2, <2>4, <4>1 DEF EventInv
    <3> QED BY <1>6, <3>1, <3>2 DEF WalkStep
  <2>6. EventInv'
    BY <2>2, <2>5 DEF EventInv, capture
  <2> QED BY <2>1, <2>6
<1>7. CASE Record
  <2>1. EventInv'
    BY <1>7 DEF Record, Leave, EventInv
  <2> QED BY <1>7, <2>1, LeaveKeeps DEF Record
<1>8. CASE UNCHANGED <<vars, capture>>
  <2>1. TypeOK' /\ WalkInv'
    BY <1>8, TypeStep, WalkInvStep
  <2>2. EventInv'
    BY <1>8 DEF EventInv, vars, capture, Readable
  <2> QED BY <2>1, <2>2
<1> QED
  BY <1>1, <1>2, <1>4, <1>5, <1>6, <1>7, <1>8 DEF RecordEventNext

LEMMA EventInvHolds == RecordEventSpec => [](TypeOK /\ WalkInv /\ EventInv)
<1>1. TypeOK /\ WalkInv /\ EventInv /\ [RecordEventNext]_<<vars, capture>>
         => TypeOK' /\ WalkInv' /\ EventInv'
  BY EventStep
<1> QED BY <1>1, EventInit, PTL DEF RecordEventSpec

\* The types of record_event's own state.
THEOREM EventTypeSafety == RecordEventSpec => []RecordEventTypeOK
<1>1. EventInv => RecordEventTypeOK
  BY StackAssumption DEF EventInv, RecordEventTypeOK, Stack
<1> QED BY <1>1, EventInvHolds, PTL

\* The walk is only ever given the bounds of the thread's stack, and nothing else
\* is cached.
THEOREM WalkedWithTheStack == RecordEventSpec => []BoundsAreTheStack
<1>1. EventInv => BoundsAreTheStack
  BY DEF EventInv, BoundsAreTheStack
<1> QED BY <1>1, EventInvHolds, PTL

\* Event after event, with whatever in the stack: only records of the stack are
\* read, and what is captured is what was read.
THEOREM EventReadsAreSafe == RecordEventSpec => [](ReadsAreSafe /\ CapturesWhatItReads)
<1>1. TypeOK /\ WalkInv => ReadsAreSafe /\ CapturesWhatItReads
  BY CaptureIsFaithful DEF WalkInv, ReadsAreSafe
<1> QED BY <1>1, EventInvHolds, PTL

\* A thread that has learnt its bounds does not ask again while it has its cell.
THEOREM SystemAskedOnce == RecordEventSpec => AskedOnce
<1>1. EventInv /\ [RecordEventNext]_<<vars, capture>> =>
         [asked' # asked /\ asked' # "no" => ~learnt \/ tls = "gone"]_<<vars, capture>>
  <2> SUFFICES ASSUME EventInv, RecordEventNext, asked' # asked, asked' # "no"
               PROVE  ~learnt \/ tls = "gone"
    OBVIOUS
  <2>1. CASE Query
    BY <2>1 DEF Query, EventInv, CacheIsOn
  <2>2. ~(Begin \/ BeginWithout)
    BY DEF Begin, BeginWithout
  <2>3. ~(BoundsHit \/ WalkStep \/ Record \/ LocalsGo)
    BY DEF BoundsHit, WalkStep, Record, LocalsGo, capture
  <2> QED BY <2>1, <2>2, <2>3 DEF RecordEventNext
<1> QED BY <1>1, EventInvHolds, PTL DEF RecordEventSpec, AskedOnce

\* A walk that has returned has captured something just when the event's frame
\* pointer points to a record of the stack with a return address.
LEMMA CapturedIfThere ==
    ASSUME TypeOK, WalkInv, EventInv, stage = "walk", done
    PROVE  out # << >> <=> start \in Records /\ return[start] # 0
<1>1. /\ out \in Seq(Nat) /\ Len(out) \in Nat
      /\ visited \in Seq(Records) /\ Len(visited) \in Nat
      /\ Len(visited) = Len(out) \/ Len(visited) = Len(out) + 1
  BY DEF TypeOK, WalkInv
<1>2. CASE visited = << >>
  <2>1. ~Readable(start)
    BY <1>2 DEF EventInv
  <2>2. start \notin Records
    <3> SUFFICES ASSUME start \in Records PROVE Readable(start)
      BY <2>1
    <3> QED BY StackAssumption, LiveAssumption, TopAssumption DEF Records, Readable
  <2>3. out = << >>
    BY <1>1, <1>2
  <2> QED BY <2>2, <2>3
<1>3. CASE visited # << >>
  <2>1. start = visited[1] /\ Len(visited) >= 1 /\ start \in Records
    BY <1>1, <1>3 DEF EventInv
  <2>2. CASE out # << >>
    <3>1. 1 \in 1 .. Len(out)
      BY <1>1, <2>2
    <3> QED BY <2>1, <2>2, <3>1 DEF WalkInv
  <2>3. CASE out = << >>
    <3>1. Len(out) = 0
      BY <2>3
    <3>2. Len(visited) = 1 /\ Len(visited) = Len(out) + 1
      BY <1>1, <2>1, <3>1
    <3> QED BY <2>1, <2>3, <3>2 DEF WalkInv
  <2> QED BY <2>2, <2>3
<1> QED BY <1>2, <1>3

\* An event with a frame pointer is recorded just when no query failed in it and
\* its frame pointer points to a record of the stack with a return address.
THEOREM LossesAreExplained == RecordEventSpec => LossesHaveCause
<1> DEFINE Cause == /\ recorded' <=> /\ asked' # "failed"
                                     /\ start \in Records /\ return[start] # 0
                    /\ recorded' => out # << >>
<1>1. TypeOK /\ WalkInv /\ EventInv /\ [RecordEventNext]_<<vars, capture>> =>
         [stage # "outside" /\ stage' = "outside" => Cause]_<<vars, capture>>
  <2> SUFFICES ASSUME TypeOK, WalkInv, EventInv, RecordEventNext,
                      stage # "outside", stage' = "outside"
               PROVE  Cause
    OBVIOUS
  <2>1. CASE Query
    <3>1. asked' = "failed" /\ recorded' = FALSE
      BY <2>1 DEF Query, Enter, Leave
    <3> QED BY <3>1
  <2>2. CASE Record
    <3>1. /\ recorded' = (out # << >>) /\ asked' # "failed"
          /\ stage = "walk" /\ done
      BY <2>2 DEF Record, Leave, EventInv
    <3>2. out # << >> <=> start \in Records /\ return[start] # 0
      BY <3>1, CapturedIfThere
    <3> QED BY <3>1, <3>2
  <2>3. ~(Begin \/ BeginWithout \/ BoundsHit \/ WalkStep \/ LocalsGo)
    BY DEF Begin, BeginWithout, BoundsHit, Enter, WalkStep, LocalsGo, capture
  <2> QED BY <2>1, <2>2, <2>3 DEF RecordEventNext
<1> QED BY <1>1, EventInvHolds, PTL DEF RecordEventSpec, LossesHaveCause

\* While record_event walks, the records read hang together.
EventChain == stage = "walk" => ChainInv

LEMMA EventChainStep ==
    ASSUME TypeOK, WalkInv, EventInv, EventChain,
           [RecordEventNext]_<<vars, capture>>
    PROVE  EventChain'
<1>1. CASE Begin \/ BeginWithout \/ LocalsGo
  BY <1>1 DEF Begin, BeginWithout, LocalsGo, EventChain
<1>2. ASSUME NEW r, Leave(r) PROVE EventChain'
  BY <1>2 DEF Leave, EventChain
<1>3. ASSUME NEW b, stage = "bounds", Enter(b) PROVE EventChain'
  <2>1. visited' = << >> /\ ~done'
    BY <1>3 DEF Enter, EventInv
  <2>2. Len(visited') = 0
    BY <2>1
  <2> QED BY <2>1, <2>2 DEF EventChain, ChainInv
<1>4. CASE BoundsHit
  BY <1>3, <1>4 DEF BoundsHit
<1>5. CASE Query
  BY <1>2, <1>3, <1>5 DEF Query
<1>6. CASE Record
  BY <1>2, <1>6 DEF Record
<1>7. CASE WalkStep
  <2>1. [Next]_vars /\ ChainInv
    BY <1>7 DEF WalkStep, Next, EventChain
  <2> QED BY <2>1, ChainInvStep DEF EventChain
<1>8. CASE UNCHANGED <<vars, capture>>
  BY <1>8 DEF vars, capture, EventChain, ChainInv, Readable, LeadsUp
<1> QED BY <1>1, <1>4, <1>5, <1>6, <1>7, <1>8 DEF RecordEventNext

\* The same of every walk that record_event makes.
THEOREM EventCapturesChains == RecordEventSpec => []ProperChainIsCaptured
<1>1. RecordEventInit => EventChain
  BY DEF RecordEventInit, EventChain
<1>2. RecordEventSpec => []EventChain
  BY <1>1, EventChainStep, EventInvHolds, PTL DEF RecordEventSpec
<1>3. TypeOK /\ WalkInv /\ EventInv /\ EventChain => ProperChainIsCaptured
  <2>1. CASE stage = "walk"
    BY <2>1, ChainInvImplies DEF EventChain
  <2>2. ASSUME EventInv, stage # "walk" PROVE ProperChainIsCaptured
    BY <2>2 DEF EventInv, ProperChainIsCaptured
  <2> QED BY <2>1, <2>2
<1> QED BY <1>2, <1>3, EventInvHolds, PTL
=============================================================================
