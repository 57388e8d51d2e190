-------------------------- MODULE TableTally_proofs --------------------------
(***************************************************************************)
(* CallSiteTable implements SiteTally, for any number of threads, buckets, *)
(* traces and calls: every step of the table is mapped to a step of the    *)
(* tally, or to none.                                                      *)
(***************************************************************************)
EXTENDS CallSiteTable_proofs, TableTally

-----------------------------------------------------------------------------
(* The table as a call finds it.                                             *)

\* Who has set the table up, and what a call that began afterwards finds.
SetUpInv ==
    /\ setUpBefore \in [Threads -> BOOLEAN]
    /\ TABLE_BUCKETS # 0 => TABLE_BASE # Null
    /\ \A t \in Threads : pc[t] = "storeBuckets" => TABLE_BASE # Null
    /\ TABLE_BASE # Null /\ TABLE_BUCKETS = 0 => \E t \in Threads : pc[t] = "storeBuckets"
    /\ \A t \in Threads : setUpBefore[t] /\ pc[t] # "idle" =>
          /\ TABLE_BUCKETS # 0
          /\ pc[t] \notin InitPCs \ {"loadBase", "loadBuckets", "loadMask"}
          /\ pc[t] \notin {"loadBase", "loadBuckets"} => view[t].buckets = N

\* A report of a table that was not there is empty.
EmptyInv == \A t \in Threads : pc[t] = "reported" /\ view[t].buckets = 0 => out[t] = << >>

TallyInv == TypeInv /\ ReportInv /\ AccountInv /\ WriteInv /\ ReadInv /\ SetUpInv /\ EmptyInv

LEMMA TallyNextNext == [TallyNext]_<<vars, setUpBefore>> => [Next]_vars
BY DEF TallyNext

LEMMA InitSetUp == TallyInit => SetUpInv
BY DEF TallyInit, Init, SetUpInv

\* The history variable after a step.
LEMMA SetUpTyped ==
    ASSUME TallyNext, SetUpInv
    PROVE  setUpBefore' \in [Threads -> BOOLEAN]
<1>1. \A u \in Threads : setUpBefore[u] \in BOOLEAN
  BY DEF SetUpInv
<1>. QED  BY <1>1 DEF TallyNext

LEMMA SetUpEffect ==
    ASSUME TallyNext, SetUpInv, NEW t \in Threads
    PROVE  /\ setUpBefore' \in [Threads -> BOOLEAN]
           /\ pc'[t] = "idle" => setUpBefore'[t] = FALSE
           /\ pc'[t] # "idle" /\ pc[t] = "idle" => setUpBefore'[t] = (TABLE_BUCKETS # 0)
           /\ pc'[t] # "idle" /\ pc[t] # "idle" => setUpBefore'[t] = setUpBefore[t]
<1>. DEFINE new == [u \in Threads |->
                      CASE pc'[u] = "idle" -> FALSE
                        [] pc[u] = "idle" /\ pc'[u] # "idle" -> TABLE_BUCKETS # 0
                        [] OTHER -> setUpBefore[u]]
<1>1. setUpBefore' = new
  BY DEF TallyNext
<1>2. ASSUME NEW u \in Threads
      PROVE  /\ new[u] \in BOOLEAN
             /\ pc'[u] = "idle" => new[u] = FALSE
             /\ pc'[u] # "idle" /\ pc[u] = "idle" => new[u] = (TABLE_BUCKETS # 0)
             /\ pc'[u] # "idle" /\ pc[u] # "idle" => new[u] = setUpBefore[u]
  <2>1. CASE pc'[u] = "idle"
    <3>1. new[u] = FALSE
      BY <2>1
    <3>. QED  BY <2>1, <3>1
  <2>2. CASE pc'[u] # "idle" /\ pc[u] = "idle"
    <3>1. new[u] = (TABLE_BUCKETS # 0)
      BY <2>2
    <3>. QED  BY <2>2, <3>1
  <2>3. CASE pc'[u] # "idle" /\ pc[u] # "idle"
    <3>1. new[u] = setUpBefore[u]
      BY <2>3
    <3>2. setUpBefore[u] \in BOOLEAN
      BY DEF SetUpInv
    <3>. QED  BY <2>3, <3>1, <3>2
  <2>. QED  BY <2>1, <2>2, <2>3
<1>3. new \in [Threads -> BOOLEAN]
  BY <1>2
<1>. HIDE DEF new
<1>. QED  BY <1>1, <1>2, <1>3

\* A step that leaves the table's address and size alone.
SetUpThread(t) ==
    setUpBefore[t] /\ pc[t] # "idle" =>
          /\ TABLE_BUCKETS # 0
          /\ pc[t] \notin InitPCs \ {"loadBase", "loadBuckets", "loadMask"}
          /\ pc[t] \notin {"loadBase", "loadBuckets"} => view[t].buckets = N

LEMMA SetUpStays ==
    ASSUME TypeInv, TypeInv', SetUpInv, TallyNext, NEW t \in Threads,
           UNCHANGED <<TABLE_BASE, TABLE_BUCKETS>>,
           \A u \in Threads \ {t} : pc'[u] = pc[u] /\ view'[u] = view[u],
           pc[t] # "storeBuckets", pc'[t] # "storeBuckets",
           SetUpThread(t)'
    PROVE  SetUpInv'
<1>1. setUpBefore' \in [Threads -> BOOLEAN]
  BY SetUpEffect
<1>2. /\ TABLE_BUCKETS' # 0 => TABLE_BASE' # Null
      /\ \A u \in Threads : pc'[u] = "storeBuckets" => TABLE_BASE' # Null
  BY DEF SetUpInv
<1>3. TABLE_BASE' # Null /\ TABLE_BUCKETS' = 0 => \E u \in Threads : pc'[u] = "storeBuckets"
  BY DEF SetUpInv
<1>4. ASSUME NEW u \in Threads PROVE SetUpThread(u)'
  <2>1. CASE u = t
    BY <2>1
  <2>2. CASE u # t
    <3>1. pc'[u] = pc[u] /\ view'[u] = view[u] /\ SetUpThread(u)
      BY <2>2 DEF SetUpInv, SetUpThread
    <3>2. setUpBefore'[u] /\ pc'[u] # "idle" => setUpBefore[u] /\ pc[u] # "idle"
      BY <3>1, SetUpEffect
    <3>. QED  BY <3>1, <3>2 DEF SetUpThread
  <2>. QED  BY <2>1, <2>2
<1>. QED  BY <1>1, <1>2, <1>3, <1>4 DEF SetUpInv, SetUpThread

\* A step of a thread that is past its way to the table, or begins it.
LEMMA SetUpOnward ==
    ASSUME TypeInv, TypeInv', SetUpInv, TallyNext, NEW t \in Threads,
           UNCHANGED <<TABLE_BASE, TABLE_BUCKETS>>,
           \A u \in Threads \ {t} : pc'[u] = pc[u] /\ view'[u] = view[u],
           pc[t] \notin InitPCs,
           \/ pc'[t] = "idle"
           \/ pc[t] = "idle" /\ pc'[t] = "loadBase"
           \/ pc[t] # "idle" /\ pc'[t] \notin InitPCs /\ view'[t] = view[t]
    PROVE  SetUpInv'
<1>1. SetUpThread(t)'
  <2>1. CASE pc'[t] = "idle"
    BY <2>1 DEF SetUpThread
  <2>2. CASE pc[t] = "idle" /\ pc'[t] = "loadBase"
    <3>1. setUpBefore'[t] = (TABLE_BUCKETS # 0)
      BY <2>2, SetUpEffect
    <3>. QED  BY <2>2, <3>1 DEF SetUpThread
  <2>3. CASE pc[t] # "idle" /\ pc'[t] # "idle" /\ pc'[t] \notin InitPCs /\ view'[t] = view[t]
    <3>1. setUpBefore'[t] = setUpBefore[t] /\ SetUpThread(t)
      BY <2>3, SetUpEffect DEF SetUpInv, SetUpThread
    <3>. QED  BY <2>3, <3>1 DEF SetUpThread, InitPCs
  <2>. QED  BY <2>1, <2>2, <2>3
<1>. QED  BY <1>1, SetUpStays DEF InitPCs

LEMMA SetUpNext ==
    ASSUME TypeInv, TypeInv', ReportInv, SetUpInv, [TallyNext]_<<vars, setUpBefore>>
    PROVE  SetUpInv'
<1>0. /\ DOMAIN pc = Threads /\ DOMAIN view = Threads /\ TABLE_BUCKETS \in {0, N} /\ N # 0
      /\ \A t \in Threads : view[t] \in [buckets : {0, N}, mask : {0, N - 1}]
  BY BucketAssumption DEF TypeInv, TypeOK
<1>1. CASE UNCHANGED <<vars, setUpBefore>>
  BY <1>1 DEF vars, init, locals, SetUpInv
<1>2. CASE TallyNext /\ UNCHANGED vars
  <2>1. /\ setUpBefore' \in [Threads -> BOOLEAN]
        /\ \A t \in Threads : setUpBefore'[t] /\ pc'[t] # "idle" => setUpBefore[t]
    <3>1. ASSUME NEW t \in Threads
          PROVE  /\ setUpBefore' \in [Threads -> BOOLEAN]
                 /\ setUpBefore'[t] /\ pc'[t] # "idle" => setUpBefore[t]
      <4>1. pc' = pc
        BY <1>2 DEF vars, locals
      <4>2. /\ setUpBefore' \in [Threads -> BOOLEAN]
            /\ pc'[t] # "idle" /\ pc[t] # "idle" => setUpBefore'[t] = setUpBefore[t]
        BY <1>2, SetUpEffect
      <4>. QED  BY <4>1, <4>2
    <3>2. setUpBefore' \in [Threads -> BOOLEAN]
      BY <1>2, SetUpTyped
    <3>. QED  BY <3>1, <3>2
  <2>. QED  BY <1>2, <2>1 DEF vars, init, locals, SetUpInv
<1>3. ASSUME TallyNext, NEW t \in Threads, Reset(t) PROVE SetUpInv'
  <2>1. /\ setUpBefore' \in [Threads -> BOOLEAN]
        /\ \A u \in Threads : pc'[u] = "idle"
    BY <1>3, SetUpEffect DEF Reset, locals
  <2>2. TABLE_BUCKETS' # 0 /\ TABLE_BASE' # Null
    BY <1>0, <1>3, NullAssumption DEF Reset, init, SetUpInv
  <2>. QED  BY <2>1, <2>2 DEF SetUpInv
<1>4. ASSUME TallyNext, NEW t \in Threads, Moving(t) PROVE SetUpInv'
  <2>1. \A u \in Threads \ {t} : pc'[u] = pc[u] /\ view'[u] = view[u]
    BY <1>4, OthersSame DEF Same
  <2>2. CASE BeginRecord(t) \/ BeginReport(t) \/ Record(t) \/ Report(t)
    <3>1. /\ UNCHANGED <<TABLE_BASE, TABLE_BUCKETS>> /\ pc[t] \notin InitPCs
          /\ \/ pc'[t] = "idle"
             \/ pc[t] = "idle" /\ pc'[t] = "loadBase"
             \/ pc[t] # "idle" /\ pc'[t] \notin InitPCs /\ view'[t] = view[t]
      <4>. USE <1>0 DEF Goto, init, InitPCs
      <4>1. CASE BeginRecord(t) \/ BeginReport(t)
        BY <4>1 DEF BeginRecord, BeginReport
      <4>2. CASE Probe(t) \/ ClaimLost(t)
        BY <4>2 DEF Probe, ClaimLost, Advance, GiveUp, Leave
      <4>3. CASE Claim(t) \/ WriteFrame(t) \/ AddCount(t) \/ InitBytes(t)
        BY <4>3 DEF Claim, WriteFrame, AddCount, InitBytes
      <4>4. CASE AddBytes(t) \/ Publish(t) \/ TakeReport(t)
        BY <4>4 DEF AddBytes, Publish, TakeReport, Leave
      <4>5. CASE ScanHash(t) \/ ScanFrameCount(t) \/ LoadBytes(t)
        BY <4>5 DEF ScanHash, ScanFrameCount, LoadBytes, NextRow
      <4>6. CASE LoadFrame(t) \/ LoadCount(t)
        BY <4>6 DEF LoadFrame, LoadCount
      <4>. QED  BY <2>2, <4>1, <4>2, <4>3, <4>4, <4>5, <4>6 DEF Record, Report
    <3>. QED  BY <1>4, <2>1, <3>1, SetUpOnward
  <2>3. CASE EnsureInit(t)
    <3>0. pc[t] \in InitPCs /\ pc[t] # "idle"
      BY <2>3 DEF EnsureInit, LoadBase, LoadBuckets, LoadMask, AllocPages, AllocPagesFails,
         CasBase, StoreBuckets, StoreMask, FreePages, AwaitBuckets, InitPCs
    <3>00. /\ SetUpThread(t)
           /\ pc'[t] # "idle" => setUpBefore'[t] = setUpBefore[t]
           /\ setUpBefore' \in [Threads -> BOOLEAN]
      BY <1>4, <3>0, SetUpEffect DEF SetUpInv, SetUpThread
    <3>1. CASE LoadBase(t)
      <4>1. /\ UNCHANGED <<TABLE_BASE, TABLE_BUCKETS>> /\ pc[t] = "loadBase"
            /\ pc'[t] = IF TABLE_BASE = Null THEN "allocPages" ELSE "loadBuckets"
        BY <1>0, <3>1 DEF LoadBase, Goto, init
      <4>2. TABLE_BUCKETS # 0 => TABLE_BASE # Null
        BY DEF SetUpInv
      <4>3. SetUpThread(t)'
        BY <3>00, <4>1, <4>2 DEF SetUpThread, InitPCs
      <4>. QED  BY <1>4, <2>1, <4>1, <4>3, SetUpStays
    <3>2. CASE LoadBuckets(t)
      <4>1. /\ UNCHANGED <<TABLE_BASE, TABLE_BUCKETS>> /\ pc[t] = "loadBuckets"
            /\ pc'[t] = "loadMask" /\ view'[t].buckets = TABLE_BUCKETS
        BY <1>0, <3>2 DEF LoadBuckets, Goto, init
      <4>3. SetUpThread(t)'
        BY <1>0, <3>00, <4>1 DEF SetUpThread, InitPCs
      <4>. QED  BY <1>4, <2>1, <4>1, <4>3, SetUpStays
    <3>3. CASE LoadMask(t)
      <4>1. /\ UNCHANGED <<TABLE_BASE, TABLE_BUCKETS>> /\ pc[t] = "loadMask"
            /\ pc'[t] \in {"probe", "scanHash", "reported"}
            /\ view'[t].buckets = view[t].buckets
        BY <1>0, <3>3 DEF LoadMask, Enter, Goto, init
      <4>3. SetUpThread(t)'
        BY <1>0, <3>00, <4>1 DEF SetUpThread, InitPCs
      <4>. QED  BY <1>4, <2>1, <4>1, <4>3, SetUpStays
    <3>4. CASE AllocPages(t) \/ FreePages(t) \/ AwaitBuckets(t) \/ AllocPagesFails(t)
      <4>1. /\ UNCHANGED <<TABLE_BASE, TABLE_BUCKETS>>
            /\ pc[t] \in {"allocPages", "freePages", "awaitBuckets"}
            /\ pc'[t] \in {"casBase", "awaitBuckets", "loadMask", "idle", "reported"}
        BY <1>0, <3>4 DEF AllocPages, FreePages, AwaitBuckets, AllocPagesFails, GiveUp, Leave,
           Goto, init
      <4>2. pc'[t] # "idle" => ~setUpBefore'[t]
        BY <3>00, <4>1 DEF SetUpThread, InitPCs
      <4>3. SetUpThread(t)'
        BY <4>1, <4>2 DEF SetUpThread
      <4>. QED  BY <1>4, <2>1, <4>1, <4>3, SetUpStays
    <3>5. CASE CasBase(t) \/ StoreBuckets(t) \/ StoreMask(t)
      <4>1. /\ pc[t] \in {"casBase", "storeBuckets", "storeMask"} /\ pc'[t] # "idle"
        BY <1>0, <3>5 DEF CasBase, StoreBuckets, StoreMask, Enter, Goto
      <4>2. ~setUpBefore'[t]
        BY <3>00, <4>1 DEF SetUpThread, InitPCs
      <4>3. CASE StoreMask(t)
        <5>1. /\ UNCHANGED <<TABLE_BASE, TABLE_BUCKETS>> /\ pc[t] = "storeMask"
              /\ pc'[t] # "storeBuckets"
          BY <1>0, <4>3 DEF StoreMask, Enter, Goto
        <5>2. SetUpThread(t)'
          BY <4>2 DEF SetUpThread
        <5>. QED  BY <1>4, <2>1, <5>1, <5>2, SetUpStays
      <4>4. CASE StoreBuckets(t)
        <5>1. /\ TABLE_BASE' = TABLE_BASE /\ TABLE_BUCKETS' = N /\ pc[t] = "storeBuckets"
          BY <4>4 DEF StoreBuckets
        <5>2. TABLE_BASE # Null
          BY <5>1 DEF SetUpInv
        <5>3. ASSUME NEW u \in Threads \ {t} PROVE SetUpThread(u)'
          <6>1. pc'[u] = pc[u] /\ view'[u] = view[u] /\ SetUpThread(u)
            BY <2>1 DEF SetUpInv, SetUpThread
          <6>2. setUpBefore'[u] /\ pc'[u] # "idle" => setUpBefore[u] /\ pc[u] # "idle"
            BY <1>4, <6>1, SetUpEffect
          <6>. QED  BY <1>0, <5>1, <6>1, <6>2 DEF SetUpThread
        <5>4. SetUpThread(t)'
          BY <4>2 DEF SetUpThread
        <5>. QED  BY <1>0, <3>00, <5>1, <5>2, <5>3, <5>4 DEF SetUpInv, SetUpThread
      <4>5. CASE CasBase(t)
        <5>1. /\ TABLE_BUCKETS' = TABLE_BUCKETS
              /\ \/ TABLE_BASE = Null /\ TABLE_BASE' = t /\ pc'[t] = "storeBuckets"
                 \/ TABLE_BASE # Null /\ TABLE_BASE' = TABLE_BASE /\ pc'[t] = "freePages"
              /\ pc[t] = "casBase" /\ t # Null
          BY <1>0, <4>5, NullAssumption DEF CasBase, Goto
        <5>3. ASSUME NEW u \in Threads \ {t} PROVE SetUpThread(u)'
          <6>1. pc'[u] = pc[u] /\ view'[u] = view[u] /\ SetUpThread(u)
            BY <2>1 DEF SetUpInv, SetUpThread
          <6>2. setUpBefore'[u] /\ pc'[u] # "idle" => setUpBefore[u] /\ pc[u] # "idle"
            BY <1>4, <6>1, SetUpEffect
          <6>. QED  BY <5>1, <6>1, <6>2 DEF SetUpThread
        <5>4. SetUpThread(t)'
          BY <4>2 DEF SetUpThread
        <5>5. /\ TABLE_BASE' # Null
              /\ TABLE_BUCKETS' = 0 => \E u \in Threads : pc'[u] = "storeBuckets"
          BY <2>1, <5>1 DEF SetUpInv
        <5>. QED  BY <3>00, <5>3, <5>4, <5>5 DEF SetUpInv, SetUpThread
      <4>. QED  BY <3>5, <4>3, <4>4, <4>5
    <3>. QED  BY <2>3, <3>1, <3>2, <3>3, <3>4, <3>5 DEF EnsureInit
  <2>. QED  BY <1>4, <2>2, <2>3 DEF Moving, Step
<1>5. TallyNext => UNCHANGED vars \/ \E t \in Threads : Moving(t) \/ Reset(t)
  BY DEF TallyNext, Next, Rest, Moving
<1>. QED  BY <1>1, <1>2, <1>3, <1>4, <1>5

LEMMA InitEmpty == Init => EmptyInv
BY DEF Init, EmptyInv

LEMMA NextEmpty ==
    ASSUME TypeInv, TypeInv', ReportInv, EmptyInv, [Next]_vars
    PROVE  EmptyInv'
<1>1. CASE UNCHANGED vars
  BY <1>1 DEF vars, locals, EmptyInv
<1>2. ASSUME NEW t \in Threads, Moving(t) PROVE EmptyInv'
  <2>0. DOMAIN pc = Threads /\ N # 0 /\ ReportOK(t)
    BY BucketAssumption DEF TypeInv, TypeOK, ReportInv
  <2>1. \A u \in Threads \ {t} : pc'[u] = pc[u] /\ view'[u] = view[u] /\ out'[u] = out[u]
    BY <1>2, OthersSame DEF Same
  <2>2. pc'[t] = "reported" /\ view'[t].buckets = 0 => out'[t] = << >>
    <3>1. CASE LoadMask(t) \/ AllocPagesFails(t)
      <4>1. /\ pc[t] \in {"loadMask", "allocPages"} /\ out' = out
        BY <2>0, <3>1 DEF LoadMask, AllocPagesFails, Enter, GiveUp, Leave, Goto
      <4>. QED  BY <2>0, <4>1 DEF ReportOK, Fresh, ReportPCs
    <3>2. CASE ScanHash(t) \/ ScanFrameCount(t) \/ LoadBytes(t)
      <4>1. pc[t] \in ScanPCs /\ view' = view
        BY <3>2 DEF ScanHash, ScanFrameCount, LoadBytes, ScanPCs
      <4>. QED  BY <2>0, <4>1 DEF ReportOK, Fresh
    <3>3. CASE LoadFrame(t) \/ LoadCount(t) \/ TakeReport(t)
      BY <2>0, <3>3 DEF LoadFrame, LoadCount, TakeReport, Goto
    <3>4. CASE BeginRecord(t) \/ BeginReport(t)
      BY <2>0, <3>4 DEF BeginRecord, BeginReport, Goto
    <3>5. CASE Probe(t) \/ Claim(t) \/ ClaimLost(t) \/ WriteFrame(t)
      BY <2>0, <3>5 DEF Probe, Claim, ClaimLost, WriteFrame, Advance, GiveUp, Leave, Goto
    <3>6. CASE AddCount(t) \/ InitBytes(t) \/ AddBytes(t) \/ Publish(t)
      BY <2>0, <3>6 DEF AddCount, InitBytes, AddBytes, Publish, Leave, Goto
    <3>7. CASE LoadBase(t) \/ LoadBuckets(t) \/ AllocPages(t) \/ CasBase(t)
      BY <2>0, <3>7 DEF LoadBase, LoadBuckets, AllocPages, CasBase, Goto
    <3>8. CASE StoreBuckets(t) \/ FreePages(t) \/ AwaitBuckets(t)
      BY <2>0, <3>8 DEF StoreBuckets, FreePages, AwaitBuckets, Goto
    <3>9. CASE StoreMask(t)
      <4>1. view'[t].buckets = N
        BY <3>9 DEF StoreMask, Enter, TypeInv, TypeOK
      <4>. QED  BY <2>0, <4>1
    <3>. QED  BY <1>2, <3>1, <3>2, <3>3, <3>4, <3>5, <3>6, <3>7, <3>8, <3>9
              DEF Moving, Step, EnsureInit, Record, Report
  <2>. QED  BY <2>1, <2>2 DEF EmptyInv
<1>3. ASSUME NEW t \in Threads, Reset(t) PROVE EmptyInv'
  BY <1>3 DEF Reset, locals, EmptyInv
<1>. QED  BY <1>1, <1>2, <1>3 DEF Next, Rest, Moving

-----------------------------------------------------------------------------
(* The steps of the tally, in the table's terms.                             *)

\* The tally's state, as the table has it.
AbsReady  == TABLE_BUCKETS # 0
AbsHidden == TallyOf(Slots \ Published)
AbsShown  == TallyOf(Published)
AbsAsked  == [t \in Threads |-> Question(t)]
AbsAnswer == [t \in Threads |-> Reported(t)]

LEMMA StutterMapped ==
    ASSUME UNCHANGED <<AbsReady, AbsHidden, AbsShown, AbsAsked, AbsAnswer>>
    PROVE  UNCHANGED Tally!vars
BY DEF Tally!vars, AbsReady, AbsHidden, AbsShown, AbsAsked, AbsAnswer

LEMMA InitMapped ==
    ASSUME AbsReady = FALSE, AbsHidden = Tally!Empty, AbsShown = Tally!Empty,
           \A t \in Threads : Question(t) = Null /\ Reported(t) = Null
    PROVE  Tally!Init
BY DEF Tally!Init, AbsReady, AbsHidden, AbsShown

LEMMA SetUpMapped ==
    ASSUME AbsReady' = TRUE, UNCHANGED <<AbsHidden, AbsShown, AbsAsked, AbsAnswer>>
    PROVE  Tally!Next
<1>1. Tally!SetUp
  BY DEF Tally!SetUp, AbsReady, AbsHidden, AbsShown, AbsAsked, AbsAnswer
<1>. QED  BY <1>1 DEF Tally!Next

LEMMA CountMapped ==
    ASSUME NEW s \in Hashes, NEW x \in Tally!AnEventOrSize,
           \/ /\ AbsHidden' = [AbsHidden EXCEPT ![s] = Tally!Plus(@, x)]
              /\ AbsShown' = AbsShown
           \/ /\ AbsShown[s].events > 0
              /\ AbsShown' = [AbsShown EXCEPT ![s] = Tally!Plus(@, x)]
              /\ AbsHidden' = AbsHidden,
           UNCHANGED <<AbsReady, AbsAsked, AbsAnswer>>
    PROVE  Tally!Next
<1>1. Tally!Count(s)
  BY DEF Tally!Count, AbsReady, AbsHidden, AbsShown, AbsAsked, AbsAnswer
<1>. QED  BY <1>1 DEF Tally!Next

LEMMA ShowMapped ==
    ASSUME NEW s \in Hashes, NEW x \in Tally!UpTo(AbsHidden[s]), x.events > 0, x.bytes > 0,
           AbsHidden' = [AbsHidden EXCEPT ![s] = Tally!Minus(@, x)],
           AbsShown' = [AbsShown EXCEPT ![s] = Tally!Plus(@, x)],
           UNCHANGED <<AbsReady, AbsAsked, AbsAnswer>>
    PROVE  Tally!Next
<1>1. Tally!Show(s)
  BY DEF Tally!Show, AbsReady, AbsHidden, AbsShown, AbsAsked, AbsAnswer
<1>. QED  BY <1>1 DEF Tally!Next

LEMMA AskMapped ==
    ASSUME NEW t \in Threads, Question(t) = Null,
           AbsAsked' = [AbsAsked EXCEPT ![t] = [floor |-> AbsShown, ready |-> AbsReady]],
           UNCHANGED <<AbsReady, AbsHidden, AbsShown, AbsAnswer>>
    PROVE  Tally!Next
<1>1. Tally!Ask(t)
  BY DEF Tally!Ask, AbsReady, AbsHidden, AbsShown, AbsAsked, AbsAnswer
<1>. QED  BY <1>1 DEF Tally!Next

LEMMA AnswerMapped ==
    ASSUME NEW t \in Threads, Question(t) # Null, Reported(t) = Null,
           NEW f \in Tally!Answers(Question(t)),
           AbsAnswer' = [AbsAnswer EXCEPT ![t] = f],
           UNCHANGED <<AbsReady, AbsHidden, AbsShown, AbsAsked>>
    PROVE  Tally!Next
<1>1. AbsAsked[t] = Question(t) /\ AbsAnswer[t] = Reported(t)
  BY DEF AbsAsked, AbsAnswer
<1>2. Tally!Answer(t)
  BY <1>1 DEF Tally!Answer, AbsReady, AbsHidden, AbsShown, AbsAsked, AbsAnswer
<1>. QED  BY <1>2 DEF Tally!Next

LEMMA TakeMapped ==
    ASSUME NEW t \in Threads, Reported(t) # Null,
           AbsAsked' = [AbsAsked EXCEPT ![t] = Null],
           AbsAnswer' = [AbsAnswer EXCEPT ![t] = Null],
           UNCHANGED <<AbsReady, AbsHidden, AbsShown>>
    PROVE  Tally!Next
<1>1. AbsAnswer[t] = Reported(t)
  BY DEF AbsAnswer
<1>2. Tally!Take(t)
  BY <1>1 DEF Tally!Take, AbsReady, AbsHidden, AbsShown, AbsAsked, AbsAnswer
<1>. QED  BY <1>2 DEF Tally!Next

LEMMA ClearMapped ==
    ASSUME \A t \in Threads : Question(t) = Null,
           AbsReady' = TRUE, AbsHidden' = Tally!Empty, AbsShown' = Tally!Empty,
           UNCHANGED <<AbsAsked, AbsAnswer>>
    PROVE  Tally!Next
<1>1. Tally!Clear
  BY DEF Tally!Clear, AbsReady, AbsHidden, AbsShown, AbsAsked, AbsAnswer
<1>. QED  BY <1>1 DEF Tally!Next

-----------------------------------------------------------------------------
(* The tally of a set of buckets.                                            *)

\* TallyOf, of any counters and hashes.
TallyIn(c, b, hs, S) ==
    [h \in Hashes |-> Tallied(c, b, {i \in Slots : hs[i] = h} \intersect S)]

LEMMA TallyOfIn == \A S : TallyOf(S) = TallyIn(count, total_bytes, hash, S)
BY DEF TallyOf, TallyIn, SlotsOf

LEMMA TotalIsSum == \A f, S : Total(f, S) = SumOf(f, S)
BY DEF Total, SumOf

LEMMA SameTallies ==
    ASSUME NEW f \in Tallies, NEW g \in Tallies,
           \A h \in Hashes : f[h].events = g[h].events /\ f[h].bytes = g[h].bytes
    PROVE  f = g
<1>1. /\ f = [h \in Hashes |-> [events |-> f[h].events, bytes |-> f[h].bytes]]
      /\ g = [h \in Hashes |-> [events |-> g[h].events, bytes |-> g[h].bytes]]
  BY DEF Tallies
<1>2. [h \in Hashes |-> [events |-> f[h].events, bytes |-> f[h].bytes]]
         = [h \in Hashes |-> [events |-> g[h].events, bytes |-> g[h].bytes]]
  OBVIOUS
<1>. QED  BY <1>1, <1>2

LEMMA TallyInType ==
    ASSUME NEW c, NEW b, NEW hs, NEW S, \A i \in Slots : c[i] \in Int /\ b[i] \in Int
    PROVE  /\ TallyIn(c, b, hs, S) \in Tallies
           /\ \A h \in Hashes :
                 /\ TallyIn(c, b, hs, S)[h].events = SumOf(c, {i \in Slots : hs[i] = h} \intersect S)
                 /\ TallyIn(c, b, hs, S)[h].bytes = SumOf(b, {i \in Slots : hs[i] = h} \intersect S)
<1>1. ASSUME NEW h \in Hashes
      PROVE  /\ SumOf(c, {i \in Slots : hs[i] = h} \intersect S) \in Int
             /\ SumOf(b, {i \in Slots : hs[i] = h} \intersect S) \in Int
  <2>. DEFINE B == {i \in Slots : hs[i] = h} \intersect S
  <2>1. IsFiniteSet(B) /\ \A i \in B : c[i] \in Int /\ b[i] \in Int
    BY FiniteSlots, FS_Subset
  <2>. HIDE DEF B
  <2>2. SumOf(c, B) \in Int /\ SumOf(b, B) \in Int
    BY <2>1, SumType
  <2>. QED  BY <2>2 DEF B
<1>. QED  BY <1>1, TotalIsSum DEF TallyIn, Tallied, Tallies

\* What a change at one bucket does to a tally.
OneBucket(c, c2, b, b2, hs, hs2, S, S2, i) ==
    /\ \A j \in Slots : c[j] \in Int /\ c2[j] \in Int /\ b[j] \in Int /\ b2[j] \in Int
    /\ \A j \in Slots \ {i} : /\ c2[j] = c[j] /\ b2[j] = b[j] /\ hs2[j] = hs[j]
                              /\ j \in S <=> j \in S2

Moved(new, old, gain, loss) == new = old + gain - loss

TallyMoved(c, c2, b, b2, hs, hs2, S, S2, i, h) ==
    /\ Moved(TallyIn(c2, b2, hs2, S2)[h].events, TallyIn(c, b, hs, S)[h].events,
             IF hs2[i] = h /\ i \in S2 THEN c2[i] ELSE 0,
             IF hs[i] = h /\ i \in S THEN c[i] ELSE 0)
    /\ Moved(TallyIn(c2, b2, hs2, S2)[h].bytes, TallyIn(c, b, hs, S)[h].bytes,
             IF hs2[i] = h /\ i \in S2 THEN b2[i] ELSE 0,
             IF hs[i] = h /\ i \in S THEN b[i] ELSE 0)

LEMMA TallyMoves ==
    ASSUME NEW c, NEW c2, NEW b, NEW b2, NEW hs, NEW hs2, NEW S, NEW S2, NEW i \in Slots,
           OneBucket(c, c2, b, b2, hs, hs2, S, S2, i),
           NEW h \in Hashes
    PROVE  TallyMoved(c, c2, b, b2, hs, hs2, S, S2, i, h)
<1>. USE DEF OneBucket
<1>. DEFINE A == {j \in Slots : hs[j] = h} \intersect S
            B == {j \in Slots : hs2[j] = h} \intersect S2
<1>1. /\ \A j \in Slots \ {i} : (j \in A <=> j \in B) /\ (j \in A => c[j] = c2[j])
      /\ \A j \in Slots \ {i} : (j \in A <=> j \in B) /\ (j \in A => b[j] = b2[j])
      /\ i \in B <=> (hs2[i] = h /\ i \in S2)
      /\ i \in A <=> (hs[i] = h /\ i \in S)
      /\ A \in SUBSET Slots /\ B \in SUBSET Slots
  OBVIOUS
<1>2. /\ TallyIn(c, b, hs, S)[h].events = SumOf(c, A)
      /\ TallyIn(c, b, hs, S)[h].bytes = SumOf(b, A)
  <2>1. \A j \in Slots : c[j] \in Int /\ b[j] \in Int
    OBVIOUS
  <2>. QED  BY <2>1, TallyInType
<1>3. /\ TallyIn(c2, b2, hs2, S2)[h].events = SumOf(c2, B)
      /\ TallyIn(c2, b2, hs2, S2)[h].bytes = SumOf(b2, B)
  <2>1. \A j \in Slots : c2[j] \in Int /\ b2[j] \in Int
    OBVIOUS
  <2>. QED  BY <2>1, TallyInType
<1>. HIDE DEF A, B
<1>4. SumOf(c2, B) = SumOf(c, A) + (IF i \in B THEN c2[i] ELSE 0)
                          - (IF i \in A THEN c[i] ELSE 0)
  BY <1>1, FiniteSlots, SumMoves
<1>5. SumOf(b2, B) = SumOf(b, A) + (IF i \in B THEN b2[i] ELSE 0)
                          - (IF i \in A THEN b[i] ELSE 0)
  BY <1>1, FiniteSlots, SumMoves
<1>. QED  BY <1>1, <1>2, <1>3, <1>4, <1>5 DEF Moved, TallyMoved

\* A bucket that counts nothing may change its hash.
LEMMA TallyOfBlank ==
    ASSUME NEW c, NEW b, NEW hs, NEW hs2, NEW S, NEW i \in Slots,
           \A j \in Slots : c[j] \in Int /\ b[j] \in Int,
           \A j \in Slots \ {i} : hs2[j] = hs[j],
           c[i] = 0, b[i] = 0
    PROVE  TallyIn(c, b, hs2, S) = TallyIn(c, b, hs, S)
<1>. DEFINE f == TallyIn(c, b, hs2, S)
            g == TallyIn(c, b, hs, S)
<1>1. f \in Tallies /\ g \in Tallies
  BY TallyInType
<1>2. ASSUME NEW h \in Hashes PROVE f[h].events = g[h].events /\ f[h].bytes = g[h].bytes
  <2>1. /\ f[h].events = g[h].events + (IF hs2[i] = h /\ i \in S THEN c[i] ELSE 0)
                                     - (IF hs[i] = h /\ i \in S THEN c[i] ELSE 0)
        /\ f[h].bytes = g[h].bytes + (IF hs2[i] = h /\ i \in S THEN b[i] ELSE 0)
                                   - (IF hs[i] = h /\ i \in S THEN b[i] ELSE 0)
    <3>1. OneBucket(c, c, b, b, hs, hs2, S, S, i)
      BY DEF OneBucket
    <3>2. TallyMoved(c, c, b, b, hs, hs2, S, S, i, h)
      BY <3>1, TallyMoves, Zenon
    <3>. QED  BY <3>2 DEF Moved, TallyMoved
  <2>2. g[h].events \in Int /\ g[h].bytes \in Int
    BY <1>1 DEF Tallies
  <2>. HIDE DEF f, g
  <2>. QED  BY <2>1, <2>2
<1>. HIDE DEF f, g
<1>3. f = g
  BY <1>1, <1>2, SameTallies
<1>. QED  BY <1>3 DEF f, g

\* One tally is another that has gained x for the site s; one has lost it.
Gained(f, g, s, x) == f = [g EXCEPT ![s] = Tally!Plus(@, x)]
Lost(f, g, s, x)   == f = [g EXCEPT ![s] = Tally!Minus(@, x)]

\* A bucket of the tally counts.
CountsAt(c, c2, b, b2, hs, i, s, x) ==
    /\ i \in Slots /\ s \in Hashes /\ x \in [events : Int, bytes : Int]
    /\ \A j \in Slots : c[j] \in Int /\ c2[j] \in Int /\ b[j] \in Int /\ b2[j] \in Int
    /\ \A j \in Slots \ {i} : c2[j] = c[j] /\ b2[j] = b[j]
    /\ hs[i] = s /\ c2[i] = c[i] + x.events /\ b2[i] = b[i] + x.bytes

LEMMA TallyCounts ==
    ASSUME NEW c, NEW c2, NEW b, NEW b2, NEW hs, NEW S, NEW i, NEW s, NEW x,
           CountsAt(c, c2, b, b2, hs, i, s, x)
    PROVE  /\ i \in S => Gained(TallyIn(c2, b2, hs, S), TallyIn(c, b, hs, S), s, x)
           /\ i \notin S => TallyIn(c2, b2, hs, S) = TallyIn(c, b, hs, S)
<1>0. /\ i \in Slots /\ s \in Hashes /\ x \in [events : Int, bytes : Int]
      /\ \A j \in Slots : c[j] \in Int /\ c2[j] \in Int /\ b[j] \in Int /\ b2[j] \in Int
      /\ \A j \in Slots \ {i} : c2[j] = c[j] /\ b2[j] = b[j]
      /\ hs[i] = s /\ c2[i] = c[i] + x.events /\ b2[i] = b[i] + x.bytes
  BY DEF CountsAt
<1>. USE <1>0
<1>. DEFINE f == TallyIn(c2, b2, hs, S)
            g == TallyIn(c, b, hs, S)
            g2 == [g EXCEPT ![s] = Tally!Plus(@, x)]
<1>1. f \in Tallies /\ g \in Tallies
  BY TallyInType
<1>2. /\ \A h \in Hashes : f[h].events \in Int /\ f[h].bytes \in Int
      /\ \A h \in Hashes : g[h].events \in Int /\ g[h].bytes \in Int
      /\ x.events \in Int /\ x.bytes \in Int
      /\ c[i] \in Int /\ b[i] \in Int
  BY <1>1 DEF Tallies
<1>3. ASSUME NEW h \in Hashes
      PROVE /\ f[h].events = g[h].events + (IF hs[i] = h /\ i \in S THEN c2[i] ELSE 0)
                                         - (IF hs[i] = h /\ i \in S THEN c[i] ELSE 0)
            /\ f[h].bytes = g[h].bytes + (IF hs[i] = h /\ i \in S THEN b2[i] ELSE 0)
                                       - (IF hs[i] = h /\ i \in S THEN b[i] ELSE 0)
  <2>1. OneBucket(c, c2, b, b2, hs, hs, S, S, i)
    BY DEF OneBucket
  <2>2. TallyMoved(c, c2, b, b2, hs, hs, S, S, i, h)
    BY <2>1, TallyMoves, Zenon
  <2>. QED  BY <2>2 DEF Moved, TallyMoved
<1>. HIDE DEF f, g
<1>4. CASE i \notin S
  <2>1. \A h \in Hashes : f[h].events = g[h].events /\ f[h].bytes = g[h].bytes
    BY <1>2, <1>3, <1>4
  <2>2. f = g
    BY <1>1, <2>1, SameTallies
  <2>. QED  BY <1>4, <2>2 DEF f, g
<1>5. CASE i \in S
  <2>1. g2 \in Tallies
    BY <1>1, <1>2 DEF Tallies, Tally!Plus
  <2>2. ASSUME NEW h \in Hashes PROVE f[h].events = g2[h].events /\ f[h].bytes = g2[h].bytes
    <3>1. CASE h = s
      <4>1. g2[h].events = g[h].events + x.events /\ g2[h].bytes = g[h].bytes + x.bytes
        BY <1>1, <3>1 DEF Tallies, Tally!Plus
      <4>. HIDE DEF g2
      <4>. QED  BY <1>2, <1>3, <1>5, <3>1, <4>1
    <3>2. CASE h # s
      <4>1. g2[h] = g[h]
        BY <1>1, <3>2 DEF Tallies
      <4>. HIDE DEF g2
      <4>. QED  BY <1>2, <1>3, <3>2, <4>1
    <3>. QED  BY <3>1, <3>2
  <2>. HIDE DEF g2
  <2>3. f = g2
    BY <1>1, <2>1, <2>2, SameTallies
  <2>. QED  BY <1>5, <2>3 DEF f, g, g2, Gained
<1>. QED  BY <1>4, <1>5

\* A bucket joins the tally.
JoinsAt(c, b, hs, S, i, s) ==
    /\ i \in Slots /\ s \in Hashes /\ i \notin S /\ hs[i] = s
    /\ \A j \in Slots : c[j] \in Int /\ b[j] \in Int

LEMMA TallyJoins ==
    ASSUME NEW c, NEW b, NEW hs, NEW S, NEW i, NEW s, JoinsAt(c, b, hs, S, i, s)
    PROVE  LET x == [events |-> c[i], bytes |-> b[i]]
               f == TallyIn(c, b, hs, S \union {i})
               g == TallyIn(c, b, hs, S)
           IN  /\ Gained(f, g, s, x)
               /\ Lost(g, f, s, x)
               /\ Moved(f[s].events, g[s].events, c[i], 0) /\ Moved(f[s].bytes, g[s].bytes, b[i], 0)
<1>0. /\ i \in Slots /\ s \in Hashes /\ i \notin S /\ hs[i] = s
      /\ \A j \in Slots : c[j] \in Int /\ b[j] \in Int
  BY DEF JoinsAt
<1>. USE <1>0
<1>. DEFINE x == [events |-> c[i], bytes |-> b[i]]
            f == TallyIn(c, b, hs, S \union {i})
            g == TallyIn(c, b, hs, S)
            g2 == [g EXCEPT ![s] = Tally!Plus(@, x)]
            f2 == [f EXCEPT ![s] = Tally!Minus(@, x)]
<1>1. f \in Tallies /\ g \in Tallies
  BY TallyInType
<1>2. /\ \A h \in Hashes : f[h].events \in Int /\ f[h].bytes \in Int
      /\ \A h \in Hashes : g[h].events \in Int /\ g[h].bytes \in Int
      /\ c[i] \in Int /\ b[i] \in Int
  BY <1>1 DEF Tallies
<1>3. ASSUME NEW h \in Hashes
      PROVE /\ f[h].events = g[h].events + (IF hs[i] = h /\ i \in S \union {i} THEN c[i] ELSE 0)
                                         - (IF hs[i] = h /\ i \in S THEN c[i] ELSE 0)
            /\ f[h].bytes = g[h].bytes + (IF hs[i] = h /\ i \in S \union {i} THEN b[i] ELSE 0)
                                       - (IF hs[i] = h /\ i \in S THEN b[i] ELSE 0)
  <2>. DEFINE S2 == S \union {i}
  <2>1. OneBucket(c, c, b, b, hs, hs, S, S2, i)
    BY DEF OneBucket
  <2>. HIDE DEF S2
  <2>2. TallyMoved(c, c, b, b, hs, hs, S, S2, i, h)
    BY <2>1, TallyMoves, Zenon
  <2>. QED  BY <2>2 DEF Moved, TallyMoved, S2
<1>. HIDE DEF f, g
<1>4. ASSUME NEW h \in Hashes
      PROVE /\ f[h].events = g[h].events + (IF h = s THEN c[i] ELSE 0)
            /\ f[h].bytes = g[h].bytes + (IF h = s THEN b[i] ELSE 0)
  BY <1>2, <1>3
<1>5. f2 \in Tallies /\ g2 \in Tallies
  BY <1>1, <1>2 DEF Tallies, Tally!Plus, Tally!Minus
<1>6. ASSUME NEW h \in Hashes
      PROVE /\ g2[h].events = g[h].events + (IF h = s THEN c[i] ELSE 0)
            /\ g2[h].bytes = g[h].bytes + (IF h = s THEN b[i] ELSE 0)
            /\ f2[h].events = f[h].events - (IF h = s THEN c[i] ELSE 0)
            /\ f2[h].bytes = f[h].bytes - (IF h = s THEN b[i] ELSE 0)
  <2>1. CASE h = s
    BY <1>1, <2>1 DEF Tallies, Tally!Plus, Tally!Minus
  <2>2. CASE h # s
    <3>1. g2[h] = g[h] /\ f2[h] = f[h]
      BY <1>1, <2>2 DEF Tallies
    <3>. HIDE DEF g2, f2
    <3>. QED  BY <1>2, <2>2, <3>1
  <2>. QED  BY <2>1, <2>2
<1>. HIDE DEF f2, g2
<1>7. f = g2
  BY <1>1, <1>4, <1>5, <1>6, SameTallies
<1>8. g = f2
  <2>1. \A h \in Hashes : g[h].events = f2[h].events /\ g[h].bytes = f2[h].bytes
    BY <1>2, <1>4, <1>6
  <2>. QED  BY <1>1, <1>5, <2>1, SameTallies
<1>9. /\ f[s].events = g[s].events + c[i] - 0
      /\ f[s].bytes = g[s].bytes + b[i] - 0
  BY <1>2, <1>4
<1>. QED  BY <1>7, <1>8, <1>9 DEF f, g, f2, g2, Gained, Lost, Moved

\* The counters, as numbers.
Counters == \A i \in Slots : /\ hash[i] \in Nat /\ frame_count[i] \in Nat
                             /\ count[i] \in Nat /\ total_bytes[i] \in Nat

LEMMA CountersTyped == TypeInv => Counters
BY DEF TypeInv, TypeOK, Counters

\* What the two tallies of the table are.
LEMMA ShownIs ==
    Counters =>
      /\ AbsShown = TallyIn(count, total_bytes, hash, Published)
      /\ AbsHidden = TallyIn(count, total_bytes, hash, Slots \ Published)
      /\ AbsShown \in Tallies /\ AbsHidden \in Tallies
      /\ \A h \in Hashes :
            /\ AbsShown[h].events = SumOf(count, {i \in Slots : hash[i] = h} \intersect Published)
            /\ AbsShown[h].bytes = SumOf(total_bytes, {i \in Slots : hash[i] = h} \intersect Published)
            /\ AbsHidden[h].events = SumOf(count, {i \in Slots : hash[i] = h} \ Published)
            /\ AbsHidden[h].bytes = SumOf(total_bytes, {i \in Slots : hash[i] = h} \ Published)
<1>. SUFFICES ASSUME Counters
     PROVE /\ AbsShown = TallyIn(count, total_bytes, hash, Published)
      /\ AbsHidden = TallyIn(count, total_bytes, hash, Slots \ Published)
      /\ AbsShown \in Tallies /\ AbsHidden \in Tallies
      /\ \A h \in Hashes :
            /\ AbsShown[h].events = SumOf(count, {i \in Slots : hash[i] = h} \intersect Published)
            /\ AbsShown[h].bytes = SumOf(total_bytes, {i \in Slots : hash[i] = h} \intersect Published)
            /\ AbsHidden[h].events = SumOf(count, {i \in Slots : hash[i] = h} \ Published)
            /\ AbsHidden[h].bytes = SumOf(total_bytes, {i \in Slots : hash[i] = h} \ Published)
  OBVIOUS
<1>1. \A i \in Slots : count[i] \in Int /\ total_bytes[i] \in Int
  BY DEF Counters
<1>2. /\ AbsShown = TallyIn(count, total_bytes, hash, Published)
      /\ AbsHidden = TallyIn(count, total_bytes, hash, Slots \ Published)
  BY TallyOfIn DEF AbsShown, AbsHidden
<1>3. ASSUME NEW h \in Hashes
      PROVE  {i \in Slots : hash[i] = h} \intersect (Slots \ Published)
                = {i \in Slots : hash[i] = h} \ Published
  OBVIOUS
<1>. QED  BY <1>1, <1>2, <1>3, TallyInType

\* The sites of the tally count upwards from 0.
LEMMA TalliesAreNatural ==
    ASSUME TypeInv, NEW h \in Hashes
    PROVE  /\ AbsShown[h].events \in Nat /\ AbsShown[h].bytes \in Nat
           /\ AbsHidden[h].events \in Nat /\ AbsHidden[h].bytes \in Nat
<1>. DEFINE A == {i \in Slots : hash[i] = h} \intersect Published
            B == {i \in Slots : hash[i] = h} \ Published
<1>1. Counters
  BY CountersTyped
<1>2. /\ IsFiniteSet(A) /\ IsFiniteSet(B)
      /\ \A i \in A : count[i] \in Nat /\ total_bytes[i] \in Nat
      /\ \A i \in B : count[i] \in Nat /\ total_bytes[i] \in Nat
  BY <1>1, FiniteSlots, FS_Subset DEF Counters
<1>3. /\ AbsShown[h].events = SumOf(count, A) /\ AbsShown[h].bytes = SumOf(total_bytes, A)
      /\ AbsHidden[h].events = SumOf(count, B) /\ AbsHidden[h].bytes = SumOf(total_bytes, B)
  BY <1>1, ShownIs
<1>. HIDE DEF A, B
<1>. QED  BY <1>2, <1>3, SumNat

\* Below a published bucket's counters.
LEMMA ShownCovers ==
    ASSUME TypeInv, NEW h \in Hashes, NEW i \in Published, hash[i] = h
    PROVE  count[i] <= AbsShown[h].events
<1>. DEFINE A == {j \in Slots : hash[j] = h} \intersect Published
<1>1. Counters
  BY CountersTyped
<1>2. /\ IsFiniteSet(A) /\ i \in A
      /\ \A j \in A : count[j] \in Nat
  BY <1>1, FiniteSlots, FS_Subset DEF Counters, Published
<1>3. AbsShown[h].events = SumOf(count, A)
  BY <1>1, ShownIs
<1>. HIDE DEF A
<1>. QED  BY <1>2, <1>3, SumMember

-----------------------------------------------------------------------------
(* Questions and answers.                                                    *)

HadEvents(t) == [i \in DOMAIN before[t] |-> before[t][i].events]
HadBytes(t)  == [i \in DOMAIN before[t] |-> before[t][i].bytes]
RowEvents(t) == [n \in 1 .. Len(out[t]) |-> out[t][n].count]
RowBytes(t)  == [n \in 1 .. Len(out[t]) |-> out[t][n].total_bytes]
HadOf(t, h)  == {i \in Slots : hash[i] = h} \intersect DOMAIN before[t]
RowsOf(t, h) == {n \in 1 .. Len(out[t]) : hash[out[t][n].slot] = h}

\* What a question and an answer are, site by site.
LEMMA FloorIs ==
    ASSUME ReportInv, NEW t \in Threads
    PROVE  /\ Floor(t) \in Tallies
           /\ \A h \in Hashes : /\ Floor(t)[h].events = SumOf(HadEvents(t), HadOf(t, h))
                                /\ Floor(t)[h].bytes = SumOf(HadBytes(t), HadOf(t, h))
<1>1. \A h : IsFiniteSet(HadOf(t, h))
  BY FiniteSlots, FS_Subset DEF HadOf
<1>2. \A h : \A i \in HadOf(t, h) : HadEvents(t)[i] \in Int /\ HadBytes(t)[i] \in Int
  BY DEF ReportInv, ReportOK, Kept, HadEvents, HadBytes, HadOf
<1>3. \A h : SumOf(HadEvents(t), HadOf(t, h)) \in Int /\ SumOf(HadBytes(t), HadOf(t, h)) \in Int
  BY <1>1, <1>2, SumType
<1>4. Floor(t) = [h \in Hashes |-> [events |-> SumOf(HadEvents(t), HadOf(t, h)),
                                    bytes |-> SumOf(HadBytes(t), HadOf(t, h))]]
  BY TotalIsSum DEF Floor, Tallied, SlotsOf, HadEvents, HadBytes, HadOf
<1>. QED  BY <1>3, <1>4 DEF Tallies

LEMMA RowsTyped ==
    ASSUME TypeInv, NEW t \in Threads
    PROVE  /\ Len(out[t]) \in Nat
           /\ \A n \in 1 .. Len(out[t]) :
                 /\ out[t][n].slot \in Slots
                 /\ out[t][n].count \in Nat /\ out[t][n].total_bytes \in Nat
           /\ \A h : /\ IsFiniteSet(RowsOf(t, h))
                     /\ \A n \in RowsOf(t, h) : /\ n \in 1 .. Len(out[t])
                                                /\ RowEvents(t)[n] \in Nat
                                                /\ RowBytes(t)[n] \in Nat
<1>1. out[t] \in Seq(Row)
  BY DEF TypeInv, TypeOK
<1>2. Len(out[t]) \in Nat /\ \A n \in 1 .. Len(out[t]) : out[t][n] \in Row
  BY <1>1
<1>3. IsFiniteSet(1 .. Len(out[t]))
  BY <1>2, FS_Interval
<1>4. \A h : IsFiniteSet(RowsOf(t, h))
  BY <1>3, FS_Subset DEF RowsOf
<1>. QED  BY <1>2, <1>4 DEF Row, RowsOf, RowEvents, RowBytes

LEMMA ContentsIs ==
    ASSUME TypeInv, NEW t \in Threads
    PROVE  /\ Contents(t) \in Tallies
           /\ \A h \in Hashes : /\ Contents(t)[h].events = SumOf(RowEvents(t), RowsOf(t, h))
                                /\ Contents(t)[h].bytes = SumOf(RowBytes(t), RowsOf(t, h))
<1>1. \A h : SumOf(RowEvents(t), RowsOf(t, h)) \in Int /\ SumOf(RowBytes(t), RowsOf(t, h)) \in Int
  <2>1. ASSUME NEW h
        PROVE  /\ IsFiniteSet(RowsOf(t, h))
               /\ \A n \in RowsOf(t, h) : RowEvents(t)[n] \in Int
               /\ \A n \in RowsOf(t, h) : RowBytes(t)[n] \in Int
    BY RowsTyped
  <2>. QED  BY <2>1, SumType
<1>2. Contents(t) = [h \in Hashes |-> [events |-> SumOf(RowEvents(t), RowsOf(t, h)),
                                       bytes |-> SumOf(RowBytes(t), RowsOf(t, h))]]
  BY TotalIsSum DEF Contents, Tallied, RowEvents, RowBytes, RowsOf
<1>. QED  BY <1>1, <1>2 DEF Tallies

LEMMA QuestionIs ==
    ASSUME ReportInv, SetUpInv, NEW t \in Threads
    PROVE  /\ call[t].op = "report" <=> Question(t) # Null
           /\ call[t].op = "report" => Question(t) = [floor |-> Floor(t), ready |-> setUpBefore[t]]
<1>1. [floor |-> Floor(t), ready |-> setUpBefore[t]] \in [floor : Tallies, ready : BOOLEAN]
  BY FloorIs DEF SetUpInv
<1>. QED  BY <1>1, NoneAssumption DEF Question

LEMMA ReportedIs ==
    ASSUME TypeInv, NEW t \in Threads
    PROVE  /\ pc[t] = "reported" <=> Reported(t) # Null
           /\ pc[t] = "reported" => Reported(t) = Contents(t)
BY ContentsIs, NoneAssumption DEF Reported

-----------------------------------------------------------------------------
(* A report fits its question.                                               *)

LEMMA RowsAreDistinct ==
    ASSUME TypeInv, ReportInv, NEW t \in Threads,
           NEW m \in 1 .. Len(out[t]), NEW n \in 1 .. Len(out[t]), out[t][m].slot = out[t][n].slot
    PROVE  m = n
<1>1. Ascending(t)
  BY DEF ReportInv, ReportOK, Scanned
<1>2. /\ Len(out[t]) \in Nat /\ out[t][m].slot \in Slots /\ out[t][n].slot \in Slots
  BY RowsTyped
<1>3. out[t][m].slot \in Nat /\ out[t][n].slot \in Nat
  BY <1>2 DEF Slots
<1>4. ~(m < n) /\ ~(n < m)
  BY <1>1, <1>3 DEF Ascending
<1>. QED  BY <1>2, <1>4

\* The rows of a site count no more than its published buckets.
LEMMA RowsBelowShown ==
    ASSUME TypeInv, ReportInv, WriteInv, ReadInv, NEW t \in Threads, NEW h \in Hashes
    PROVE  /\ Contents(t)[h].events <= AbsShown[h].events
           /\ Contents(t)[h].bytes <= AbsShown[h].bytes
<1>. DEFINE A == RowsOf(t, h)
            B == {i \in Slots : hash[i] = h} \intersect Published
            m == [n \in A |-> out[t][n].slot]
<1>1. Counters
  BY CountersTyped
<1>2. IsFiniteSet(A) /\ IsFiniteSet(B)
  BY RowsTyped, FiniteSlots, FS_Subset
<1>3. \A i \in B : count[i] \in Nat /\ total_bytes[i] \in Nat
  BY <1>1 DEF Counters
<1>4. ASSUME NEW n \in A
      PROVE  /\ out[t][n].slot \in B
             /\ RowEvents(t)[n] \in Nat /\ RowEvents(t)[n] <= count[out[t][n].slot]
             /\ RowBytes(t)[n] \in Nat /\ RowBytes(t)[n] <= total_bytes[out[t][n].slot]
  <2>1. /\ n \in 1 .. Len(out[t]) /\ hash[out[t][n].slot] = h
        /\ out[t][n].slot \in Slots
        /\ RowEvents(t)[n] \in Nat /\ RowBytes(t)[n] \in Nat
    BY RowsTyped DEF RowsOf
  <2>2. RowTrue(out[t][n])
    BY <2>1 DEF ReadInv
  <2>3. RowEvents(t)[n] = out[t][n].count /\ RowBytes(t)[n] = out[t][n].total_bytes
    BY <2>1 DEF RowEvents, RowBytes
  <2>4. h # 0
    BY HashAssumption DEF Hashes
  <2>. QED  BY <2>1, <2>2, <2>3, <2>4 DEF RowTrue, Published
<1>5. m \in [A -> B]
  BY <1>4
<1>6. \A x, y \in A : m[x] = m[y] => x = y
  <2>1. ASSUME NEW x \in A, NEW y \in A, m[x] = m[y] PROVE x = y
    <3>1. x \in 1 .. Len(out[t]) /\ y \in 1 .. Len(out[t])
      BY RowsTyped
    <3>2. out[t][x].slot = out[t][y].slot
      BY <2>1
    <3>. QED  BY <3>1, <3>2, RowsAreDistinct
  <2>. QED  BY <2>1
<1>7. /\ \A n \in A : RowEvents(t)[n] \in Nat /\ RowEvents(t)[n] <= count[m[n]]
      /\ \A n \in A : RowBytes(t)[n] \in Nat /\ RowBytes(t)[n] <= total_bytes[m[n]]
  BY <1>4
<1>8. /\ Contents(t)[h].events = SumOf(RowEvents(t), A)
      /\ Contents(t)[h].bytes = SumOf(RowBytes(t), A)
      /\ AbsShown[h].events = SumOf(count, B) /\ AbsShown[h].bytes = SumOf(total_bytes, B)
  BY <1>1, ContentsIs, ShownIs
<1>. HIDE DEF A, B, m
<1>9. SumOf(RowEvents(t), A) <= SumOf(count, B)
  BY <1>2, <1>3, <1>5, <1>6, <1>7, SumInto
<1>10. SumOf(RowBytes(t), A) <= SumOf(total_bytes, B)
  BY <1>2, <1>3, <1>5, <1>6, <1>7, SumInto
<1>. QED  BY <1>8, <1>9, <1>10

\* And no less than the buckets published when it began had counted then.
LEMMA FloorBelowRows ==
    ASSUME TypeInv, ReportInv, WriteInv, ReadInv, NEW t \in Threads, NEW h \in Hashes,
           pc[t] = "reported", view[t].buckets > 0
    PROVE  /\ Floor(t)[h].events <= Contents(t)[h].events
           /\ Floor(t)[h].bytes <= Contents(t)[h].bytes
<1>. DEFINE A == HadOf(t, h)
            B == RowsOf(t, h)
            Fits(i, n) == /\ out[t][n].slot = i
                          /\ out[t][n].count >= before[t][i].events
                          /\ out[t][n].total_bytes >= before[t][i].bytes
            m == [i \in A |-> CHOOSE n \in 1 .. Len(out[t]) : Fits(i, n)]
<1>1. IsFiniteSet(A) /\ IsFiniteSet(B)
  BY RowsTyped, FiniteSlots, FS_Subset DEF HadOf
<1>2. \A n \in B : RowEvents(t)[n] \in Nat /\ RowBytes(t)[n] \in Nat
  BY RowsTyped
<1>3. ASSUME NEW i \in A
      PROVE  /\ m[i] \in B /\ out[t][m[i]].slot = i
             /\ HadEvents(t)[i] \in Nat /\ HadEvents(t)[i] <= RowEvents(t)[m[i]]
             /\ HadBytes(t)[i] \in Nat /\ HadBytes(t)[i] <= RowBytes(t)[m[i]]
  <2>1. i \in Slots /\ hash[i] = h /\ i \in DOMAIN before[t]
    BY DEF HadOf
  <2>2. \E n \in 1 .. Len(out[t]) : Fits(i, n)
    BY <2>1 DEF ReportInv, ReportOK, Scanned, HasRow
  <2>3. m[i] \in 1 .. Len(out[t]) /\ Fits(i, m[i])
    <3>1. m[i] = CHOOSE n \in 1 .. Len(out[t]) : Fits(i, n)
      OBVIOUS
    <3>. HIDE DEF m, Fits
    <3>. QED  BY <2>2, <3>1
  <2>4. before[t][i].events \in Nat /\ before[t][i].bytes \in Nat
    BY <2>1 DEF ReportInv, ReportOK, Kept
  <2>. HIDE DEF m
  <2>5. out[t][m[i]].count \in Nat /\ out[t][m[i]].total_bytes \in Nat
    BY <2>3, RowsTyped
  <2>6. HadEvents(t)[i] = before[t][i].events /\ HadBytes(t)[i] = before[t][i].bytes
    BY <2>1 DEF HadEvents, HadBytes
  <2>7. RowEvents(t)[m[i]] = out[t][m[i]].count /\ RowBytes(t)[m[i]] = out[t][m[i]].total_bytes
    BY <2>3 DEF RowEvents, RowBytes
  <2>8. m[i] \in B
    BY <2>1, <2>3 DEF RowsOf
  <2>. QED  BY <2>3, <2>4, <2>5, <2>6, <2>7, <2>8
<1>4. m \in [A -> B]
  BY <1>3
<1>5. \A x, y \in A : m[x] = m[y] => x = y
  <2>1. \A i \in A : out[t][m[i]].slot = i
    BY <1>3
  <2>. HIDE DEF m
  <2>. QED  BY <2>1
<1>6. /\ Floor(t)[h].events = SumOf(HadEvents(t), A) /\ Floor(t)[h].bytes = SumOf(HadBytes(t), A)
      /\ Contents(t)[h].events = SumOf(RowEvents(t), B)
      /\ Contents(t)[h].bytes = SumOf(RowBytes(t), B)
  BY FloorIs, ContentsIs
<1>7. /\ \A i \in A : HadEvents(t)[i] \in Nat /\ HadEvents(t)[i] <= RowEvents(t)[m[i]]
      /\ \A i \in A : HadBytes(t)[i] \in Nat /\ HadBytes(t)[i] <= RowBytes(t)[m[i]]
  BY <1>3
<1>. HIDE DEF A, B, m
<1>8. SumOf(HadEvents(t), A) <= SumOf(RowEvents(t), B)
  BY <1>1, <1>2, <1>4, <1>5, <1>7, SumInto
<1>9. SumOf(HadBytes(t), A) <= SumOf(RowBytes(t), B)
  BY <1>1, <1>2, <1>4, <1>5, <1>7, SumInto
<1>. QED  BY <1>6, <1>8, <1>9

\* The least of a question's tally: natural numbers.
LEMMA FloorIsNatural ==
    ASSUME ReportInv, NEW t \in Threads, NEW h \in Hashes
    PROVE  Floor(t)[h].events \in Nat /\ Floor(t)[h].bytes \in Nat
<1>1. IsFiniteSet(HadOf(t, h))
  BY FiniteSlots, FS_Subset DEF HadOf
<1>2. /\ \A i \in HadOf(t, h) : HadEvents(t)[i] \in Nat
      /\ \A i \in HadOf(t, h) : HadBytes(t)[i] \in Nat
  BY DEF ReportInv, ReportOK, Kept, HadEvents, HadBytes, HadOf
<1>3. SumOf(HadEvents(t), HadOf(t, h)) \in Nat /\ SumOf(HadBytes(t), HadOf(t, h)) \in Nat
  BY <1>1, <1>2, SumNat
<1>. QED  BY <1>3, FloorIs

\* What a report that has ended answers, of the table as it is.
Fitting ==
    \A t \in Threads : pc[t] = "reported" =>
       \/ /\ ~setUpBefore[t] /\ Contents(t) = Tally!Empty
       \/ \A h \in Hashes : /\ Floor(t)[h].events <= Contents(t)[h].events
                            /\ Floor(t)[h].bytes <= Contents(t)[h].bytes
                            /\ Contents(t)[h].events <= AbsShown[h].events
                            /\ Contents(t)[h].bytes <= AbsShown[h].bytes

LEMMA ReportsFit == TallyInv => Fitting
<1>. SUFFICES ASSUME TallyInv, NEW t \in Threads, pc[t] = "reported"
     PROVE \/ /\ ~setUpBefore[t] /\ Contents(t) = Tally!Empty
           \/ \A h \in Hashes : /\ Floor(t)[h].events <= Contents(t)[h].events
                                /\ Floor(t)[h].bytes <= Contents(t)[h].bytes
                                /\ Contents(t)[h].events <= AbsShown[h].events
                                /\ Contents(t)[h].bytes <= AbsShown[h].bytes
  BY DEF Fitting
<1>0. TypeInv /\ ReportInv /\ WriteInv /\ ReadInv /\ SetUpInv /\ EmptyInv
  BY DEF TallyInv
<1>1. view[t].buckets \in {0, N} /\ N > 0
  BY <1>0, BucketAssumption DEF TypeInv, TypeOK
<1>2. CASE view[t].buckets > 0
  BY <1>0, <1>2, FloorBelowRows, RowsBelowShown
<1>3. CASE view[t].buckets = 0 /\ ~setUpBefore[t]
  <2>0. out[t] = << >>
    BY <1>0, <1>3 DEF EmptyInv
  <2>1. \A h : RowsOf(t, h) = {}
    BY <2>0 DEF RowsOf
  <2>2. \A h \in Hashes : Contents(t)[h].events = 0 /\ Contents(t)[h].bytes = 0
    BY <1>0, <2>1, ContentsIs, SumEmpty
  <2>3. Tally!Empty \in Tallies /\ Contents(t) \in Tallies
    BY <1>0, ContentsIs DEF Tallies, Tally!Empty, Tally!Nothing
  <2>4. \A h \in Hashes : Tally!Empty[h].events = 0 /\ Tally!Empty[h].bytes = 0
    BY DEF Tally!Empty, Tally!Nothing
  <2>5. Contents(t) = Tally!Empty
    BY <2>2, <2>3, <2>4, SameTallies
  <2>. QED  BY <1>3, <2>5
<1>4. setUpBefore[t] => view[t].buckets = N
  BY <1>0, <1>1 DEF SetUpInv
<1>. QED  BY <1>1, <1>2, <1>3, <1>4

-----------------------------------------------------------------------------
(* What a step leaves of the tally.                                          *)

\* A hash is written once.
HashStays == \A i \in Slots : hash[i] # 0 => hash'[i] = hash[i]

LEMMA HashesStay ==
    ASSUME TypeInv, NEW t \in Threads, Moving(t)
    PROVE  HashStays
<1>1. CASE Claim(t)
  BY <1>1 DEF Claim, HashStays, TypeInv, TypeOK
<1>2. CASE BeginRecord(t) \/ BeginReport(t) \/ EnsureInit(t) \/ Report(t)
  <2>1. UNCHANGED table
    BY <1>2 DEF BeginRecord, BeginReport, EnsureInit, LoadBase, LoadBuckets, LoadMask,
       AllocPages, AllocPagesFails, CasBase, StoreBuckets, StoreMask, FreePages,
       AwaitBuckets, Report, ScanHash, ScanFrameCount, LoadFrame, LoadCount,
       LoadBytes, TakeReport
  <2>. QED  BY <2>1 DEF table, HashStays
<1>3. CASE Probe(t) \/ ClaimLost(t) \/ WriteFrame(t) \/ AddCount(t)
  BY <1>3 DEF Probe, ClaimLost, WriteFrame, AddCount, table, HashStays
<1>4. CASE InitBytes(t) \/ AddBytes(t) \/ Publish(t)
  BY <1>4 DEF InitBytes, AddBytes, Publish, HashStays
<1>. QED  BY <1>1, <1>2, <1>3, <1>4 DEF Moving, Step, Record

\* A question, and an answer, that a step does not touch.
LEMMA QuestionStays ==
    ASSUME TypeInv, TypeInv', ReportInv, SetUpInv, TallyNext, HashStays, NEW t \in Threads,
           call[t].op = "report" <=> call'[t].op = "report",
           call[t].op = "report" => before'[t] = before[t] /\ pc'[t] # "idle"
    PROVE  Question(t)' = Question(t)
<1>1. CASE call[t].op # "report"
  BY <1>1 DEF Question
<1>2. CASE call[t].op = "report"
  <2>1. pc[t] # "idle" /\ pc'[t] # "idle"
    BY <1>2 DEF TypeInv, CallOK, CallOKOf, NoCall
  <2>2. setUpBefore'[t] = setUpBefore[t]
    BY <2>1, SetUpEffect
  <2>3. ASSUME NEW h \in Hashes
        PROVE  {i \in Slots : hash'[i] = h} \intersect DOMAIN before[t]
                  = {i \in Slots : hash[i] = h} \intersect DOMAIN before[t]
    BY DEF ReportInv, ReportOK, Kept, HashStays
  <2>4. Floor(t)' = Floor(t)
    BY <1>2, <2>3 DEF Floor, Tallied, SlotsOf
  <2>. QED  BY <1>2, <2>2, <2>4 DEF Question
<1>. QED  BY <1>1, <1>2

LEMMA AnswerStays ==
    ASSUME TypeInv, WriteInv, ReadInv, HashStays, NEW t \in Threads,
           pc[t] = "reported" <=> pc'[t] = "reported",
           pc[t] = "reported" => out'[t] = out[t]
    PROVE  Reported(t)' = Reported(t)
<1>1. CASE pc[t] # "reported"
  BY <1>1 DEF Reported
<1>2. CASE pc[t] = "reported"
  <2>1. ASSUME NEW n \in 1 .. Len(out[t])
        PROVE  hash'[out[t][n].slot] = hash[out[t][n].slot]
    <3>1. out[t][n].slot \in Slots
      BY RowsTyped
    <3>2. frame_count[out[t][n].slot] # 0
      BY DEF ReadInv, RowTrue
    <3>3. hash[out[t][n].slot] # 0
      BY <3>1, <3>2 DEF WriteInv, BucketOK
    <3>. QED  BY <3>1, <3>3 DEF HashStays
  <2>2. Contents(t)' = Contents(t)
    <3>. DEFINE rows == 1 .. Len(out[t])
                ev == [n \in rows |-> out[t][n].count]
                by == [n \in rows |-> out[t][n].total_bytes]
                now(h) == {n \in rows : hash[out[t][n].slot] = h}
                then(h) == {n \in rows : hash'[out[t][n].slot] = h}
    <3>1. \A h : then(h) = now(h)
      BY <2>1
    <3>2. Contents(t) = [h \in Hashes |-> Tallied(ev, by, now(h))]
      BY DEF Contents
    <3>3. out'[t] = out[t]
      BY <1>2
    <3>4. Contents(t)' = [h \in Hashes |-> Tallied(ev, by, then(h))]
      BY <3>3 DEF Contents, Tallied
    <3>. HIDE DEF rows, ev, by, now, then
    <3>. QED  BY <3>1, <3>2, <3>4
  <2>. QED  BY <1>2, <2>2 DEF Reported
<1>. QED  BY <1>1, <1>2

\* The others' questions and answers.
LEMMA OthersTally ==
    ASSUME TallyInv, TypeInv', TallyNext, NEW t \in Threads, Moving(t), NEW u \in Threads \ {t}
    PROVE  Question(u)' = Question(u) /\ Reported(u)' = Reported(u)
<1>1. TypeInv /\ ReportInv /\ WriteInv /\ ReadInv /\ SetUpInv
  BY DEF TallyInv
<1>2. Same(u) /\ HashStays
  BY <1>1, OthersSame, HashesStay
<1>3. call[u].op = "report" => pc[u] # "idle"
  BY <1>1 DEF TypeInv, CallOK, CallOKOf, NoCall
<1>4. Question(u)' = Question(u)
  BY <1>1, <1>2, <1>3, QuestionStays DEF Same
<1>5. Reported(u)' = Reported(u)
  BY <1>1, <1>2, AnswerStays DEF Same
<1>. QED  BY <1>4, <1>5

\* A step that neither begins, ends nor takes a report.
LEMMA AskersStay ==
    ASSUME TallyInv, TypeInv', TallyNext, NEW t \in Threads, Moving(t),
           call[t].op = "report" <=> call'[t].op = "report",
           call[t].op = "report" => before'[t] = before[t] /\ pc'[t] # "idle",
           pc[t] # "reported", pc'[t] # "reported"
    PROVE  UNCHANGED <<AbsAsked, AbsAnswer>>
<1>1. TypeInv /\ ReportInv /\ WriteInv /\ ReadInv /\ SetUpInv
  BY DEF TallyInv
<1>2. HashStays
  BY <1>1, HashesStay
<1>3. Question(t)' = Question(t)
  BY <1>1, <1>2, QuestionStays
<1>4. Reported(t)' = Reported(t)
  BY <1>1, <1>2, AnswerStays
<1>5. \A u \in Threads : Question(u)' = Question(u) /\ Reported(u)' = Reported(u)
  BY <1>3, <1>4, OthersTally
<1>. QED  BY <1>5 DEF AbsAsked, AbsAnswer

\* A step that leaves the buckets alone.
LEMMA BucketsStay ==
    ASSUME UNCHANGED <<hash, count, total_bytes, frame_count>>
    PROVE  UNCHANGED <<AbsHidden, AbsShown>>
BY DEF AbsHidden, AbsShown, TallyOf, Tallied, SlotsOf, Published

-----------------------------------------------------------------------------
(* What the steps that change the buckets make of the tally.                 *)

\* The hash that a call records is its site.
LEMMA OwnSite ==
    ASSUME TypeInv, NEW t \in Threads, pc[t] \in RecordPCs
    PROVE  /\ HashOf(t) \in Hashes /\ HashOf(t) # 0 /\ idx[t] \in Slots
           /\ call[t].size \in Sizes /\ call[t].size \in Nat /\ call[t].size > 0
           /\ Len(call[t].trace) # 0 /\ call[t].op = "record"
<1>1. /\ call[t].op = "record" /\ call[t].trace \in Traces \ {<< >>} /\ call[t].size \in Sizes
      /\ idx[t] \in Slots
  BY DEF TypeInv, TypeOK, CallOK, CallOKOf
<1>2. call[t].trace \in Seq(Nat \ {0}) /\ call[t].trace # << >>
  BY <1>1, TraceAssumption
<1>3. Len(call[t].trace) # 0
  BY <1>2
<1>4. HashOf(t) \in Hashes /\ HashOf(t) # 0
  BY <1>1, HashAssumption DEF HashOf, Hashes
<1>5. call[t].size \in Nat /\ call[t].size > 0
  <2>1. call[t].size \in Nat /\ call[t].size # 0
    BY <1>1, SizeAssumption, Zenon
  <2>. QED  BY <2>1
<1>. QED  BY <1>1, <1>3, <1>4, <1>5

\* A claimed bucket counts nothing yet and is not shown.
LEMMA ClaimTallied ==
    ASSUME TypeInv, AccountInv, WriteInv, NEW t \in Threads, Claim(t)
    PROVE  UNCHANGED <<AbsHidden, AbsShown>>
<1>. DEFINE i == idx[t]
            hs == hash'
<1>1. /\ Counters /\ i \in Slots /\ hash[i] = 0
      /\ \A j \in Slots \ {i} : hs[j] = hash[j]
      /\ UNCHANGED <<count, total_bytes, frame_count>>
  BY CountersTyped DEF Claim, TypeInv, TypeOK
<1>2. /\ \A j \in Slots : count[j] \in Int /\ total_bytes[j] \in Int
      /\ count[i] = 0 /\ total_bytes[i] = 0 /\ frame_count[i] = 0
  BY <1>1 DEF Counters, AccountInv, Bare, WriteInv, BucketOK
<1>3. Published' = Published
  BY <1>1, <1>2 DEF Published
<1>4. /\ AbsShown = TallyIn(count, total_bytes, hash, Published)
      /\ AbsHidden = TallyIn(count, total_bytes, hash, Slots \ Published)
  BY <1>1, ShownIs
<1>5. /\ AbsShown' = TallyIn(count, total_bytes, hs, Published)
      /\ AbsHidden' = TallyIn(count, total_bytes, hs, Slots \ Published)
  BY <1>1, <1>3 DEF AbsShown, AbsHidden, TallyOf, TallyIn, SlotsOf, Tallied
<1>. HIDE DEF i, hs
<1>. QED  BY <1>1, <1>2, <1>4, <1>5, TallyOfBlank

\* A fetch_add counts an event, or the bytes of one, in a bucket of its site: of
\* what is shown if the bucket is published, of what is hidden if not.
LEMMA FetchAddTallied ==
    ASSUME TypeInv, TypeInv', AccountInv, WriteInv, NEW t \in Threads,
           AddCount(t) \/ InitBytes(t) \/ AddBytes(t)
    PROVE  /\ HashOf(t) \in Hashes
           /\ \E x \in Tally!AnEventOrSize :
                 \/ /\ AbsHidden' = [AbsHidden EXCEPT ![HashOf(t)] = Tally!Plus(@, x)]
                    /\ AbsShown' = AbsShown
                 \/ /\ AbsShown[HashOf(t)].events > 0
                    /\ AbsShown' = [AbsShown EXCEPT ![HashOf(t)] = Tally!Plus(@, x)]
                    /\ AbsHidden' = AbsHidden
<1>. DEFINE i == idx[t]
            s == HashOf(t)
            c == count'
            b == total_bytes'
            ev == IF AddCount(t) THEN 1 ELSE 0
            by == IF AddCount(t) THEN 0 ELSE call[t].size
            x == [events |-> ev, bytes |-> by]
<1>0. pc[t] \in RecordPCs /\ pc[t] \in CountingPCs
  BY DEF AddCount, InitBytes, AddBytes, RecordPCs, CountingPCs
<1>1. /\ Counters /\ Counters' /\ i \in Slots /\ s \in Hashes /\ s # 0
      /\ call[t].size \in Sizes /\ call[t].size \in Nat
  BY <1>0, CountersTyped, OwnSite, PTL
<1>2. hash[i] = s
  BY <1>0 DEF AccountInv, OwnBucket
<1>3. x \in Tally!AnEventOrSize /\ x \in [events : Int, bytes : Int]
  BY <1>1 DEF Tally!AnEventOrSize, Tally!Nothing
<1>4. /\ c[i] = count[i] + x.events /\ b[i] = total_bytes[i] + x.bytes
      /\ \A j \in Slots \ {i} : c[j] = count[j] /\ b[j] = total_bytes[j]
      /\ UNCHANGED <<hash, frame_count>>
  <2>. USE DEF TypeInv, TypeOK
  <2>1. CASE AddCount(t)
    BY <1>1, <2>1 DEF AddCount, Counters
  <2>2. CASE ~AddCount(t)
    <3>1. /\ UNCHANGED <<hash, count, frame_count>>
          /\ total_bytes' = [total_bytes EXCEPT ![i] = @ + call[t].size]
      BY <2>2 DEF InitBytes, AddBytes
    <3>2. x.events = 0 /\ x.bytes = call[t].size
      BY <2>2
    <3>. HIDE DEF x
    <3>. QED  BY <1>1, <3>1, <3>2 DEF Counters
  <2>. QED  BY <2>1, <2>2
<1>5. \A j \in Slots : /\ count[j] \in Int /\ c[j] \in Int
                       /\ total_bytes[j] \in Int /\ b[j] \in Int
  BY <1>1 DEF Counters
<1>6. /\ AbsShown = TallyIn(count, total_bytes, hash, Published)
      /\ AbsHidden = TallyIn(count, total_bytes, hash, Slots \ Published)
  BY <1>1, ShownIs
<1>7. /\ AbsShown' = TallyIn(c, b, hash, Published)
      /\ AbsHidden' = TallyIn(c, b, hash, Slots \ Published)
  BY <1>4 DEF AbsShown, AbsHidden, TallyOf, TallyIn, SlotsOf, Tallied, Published
<1>8. i \in Published => AbsShown[s].events > 0
  <2>1. i \in Published => count[i] >= 1 /\ count[i] \in Nat
    BY <1>1 DEF Counters, WriteInv, BucketOK, Published
  <2>2. AbsShown[s].events \in Nat
    BY <1>1, TalliesAreNatural
  <2>3. i \in Published => count[i] <= AbsShown[s].events
    BY <1>1, <1>2, ShownCovers
  <2>. QED  BY <2>1, <2>2, <2>3
<1>. HIDE DEF i, s, c, b, ev, by, x
<1>9. /\ i \in Published => /\ AbsShown' = [AbsShown EXCEPT ![s] = Tally!Plus(@, x)]
                            /\ AbsHidden' = AbsHidden
      /\ i \notin Published => /\ AbsHidden' = [AbsHidden EXCEPT ![s] = Tally!Plus(@, x)]
                               /\ AbsShown' = AbsShown
  <2>0. CountsAt(count, c, total_bytes, b, hash, i, s, x)
    BY <1>1, <1>2, <1>3, <1>4, <1>5 DEF CountsAt
  <2>1. /\ i \in Published => Gained(TallyIn(c, b, hash, Published),
                                     TallyIn(count, total_bytes, hash, Published), s, x)
        /\ i \notin Published => TallyIn(c, b, hash, Published)
              = TallyIn(count, total_bytes, hash, Published)
    BY <2>0, TallyCounts
  <2>. DEFINE R == Slots \ Published
  <2>2. i \in R <=> i \notin Published
    BY <1>1
  <2>. HIDE DEF R
  <2>3. /\ i \in R => Gained(TallyIn(c, b, hash, R), TallyIn(count, total_bytes, hash, R), s, x)
        /\ i \notin R => TallyIn(c, b, hash, R) = TallyIn(count, total_bytes, hash, R)
    BY <2>0, TallyCounts
  <2>. QED  BY <1>6, <1>7, <2>1, <2>2, <2>3 DEF R, Gained
<1>10. s = HashOf(t)
  BY DEF s
<1>. QED  BY <1>1, <1>3, <1>8, <1>9, <1>10

NaturalTallies == \A h \in Hashes : AbsHidden[h].events \in Nat /\ AbsHidden[h].bytes \in Nat

LEMMA NaturalTyped == TypeInv => NaturalTallies
BY TalliesAreNatural DEF NaturalTallies

\* A published bucket is shown with all that it has counted.
LEMMA PublishTallied ==
    ASSUME TypeInv, TypeInv', AccountInv, WriteInv, NEW t \in Threads, Publish(t)
    PROVE  /\ HashOf(t) \in Hashes
           /\ \E x \in Tally!UpTo(AbsHidden[HashOf(t)]) :
                 /\ x.events > 0 /\ x.bytes > 0
                 /\ AbsHidden' = [AbsHidden EXCEPT ![HashOf(t)] = Tally!Minus(@, x)]
                 /\ AbsShown' = [AbsShown EXCEPT ![HashOf(t)] = Tally!Plus(@, x)]
<1>. DEFINE i == idx[t]
            s == HashOf(t)
            x == [events |-> count[i], bytes |-> total_bytes[i]]
            R == Slots \ (Published \union {i})
<1>0. pc[t] \in RecordPCs /\ pc[t] \in CountingPCs /\ pc[t] \in FillPCs /\ pc[t] = "publish"
  BY DEF Publish, RecordPCs, CountingPCs, FillPCs
<1>1. /\ Counters /\ Counters' /\ i \in Slots /\ s \in Hashes /\ s # 0
      /\ Len(call[t].trace) # 0
  BY <1>0, CountersTyped, OwnSite, PTL
<1>2. hash[i] = s
  BY <1>0 DEF AccountInv, OwnBucket
<1>3. frame_count[i] = 0 /\ count[i] >= 1 /\ total_bytes[i] >= 1
  BY <1>0 DEF WriteInv, FillerOK
<1>4. /\ \A j \in Slots : count[j] \in Nat /\ total_bytes[j] \in Nat
      /\ \A j \in Slots : count[j] \in Int /\ total_bytes[j] \in Int
  BY <1>1 DEF Counters
<1>5. /\ i \notin Published /\ i \notin R /\ Slots \ Published = R \union {i}
      /\ Published' = Published \union {i} /\ UNCHANGED <<hash, count, total_bytes>>
  <2>1. /\ UNCHANGED <<hash, count, total_bytes>>
        /\ frame_count' = [frame_count EXCEPT ![i] = Len(call[t].trace)]
    BY DEF Publish
  <2>2. DOMAIN frame_count = Slots
    BY DEF TypeInv, TypeOK
  <2>3. \A j \in Slots : frame_count'[j] = IF j = i THEN Len(call[t].trace) ELSE frame_count[j]
    BY <2>1, <2>2
  <2>. QED  BY <1>1, <1>2, <1>3, <2>1, <2>3 DEF Published
<1>6. /\ AbsShown = TallyIn(count, total_bytes, hash, Published)
      /\ AbsHidden = TallyIn(count, total_bytes, hash, R \union {i})
  BY <1>1, <1>5, ShownIs
<1>7. /\ AbsShown' = TallyIn(count, total_bytes, hash, Published \union {i})
      /\ AbsHidden' = TallyIn(count, total_bytes, hash, R)
  <2>1. Slots \ Published' = R
    BY <1>5
  <2>. QED  BY <1>5, <2>1 DEF AbsShown, AbsHidden, TallyOf, TallyIn, SlotsOf, Tallied
<1>14. x = [events |-> count[i], bytes |-> total_bytes[i]]
  OBVIOUS
<1>. HIDE DEF i, s, R
<1>. HIDE DEF x
<1>8. AbsShown' = [AbsShown EXCEPT ![s] = Tally!Plus(@, x)]
  <2>1. JoinsAt(count, total_bytes, hash, Published, i, s)
    BY <1>1, <1>2, <1>4, <1>5 DEF JoinsAt
  <2>2. Gained(TallyIn(count, total_bytes, hash, Published \union {i}),
               TallyIn(count, total_bytes, hash, Published), s,
               [events |-> count[i], bytes |-> total_bytes[i]])
    BY <2>1, TallyJoins
  <2>. QED  BY <1>6, <1>7, <1>14, <2>2 DEF Gained
<1>10. AbsHidden'[s].events \in Nat /\ AbsHidden'[s].bytes \in Nat
  <2>1. NaturalTallies'
    BY NaturalTyped, PTL
  <2>. QED  BY <1>1, <2>1 DEF NaturalTallies, Hashes
<1>9. /\ AbsHidden' = [AbsHidden EXCEPT ![s] = Tally!Minus(@, x)]
      /\ AbsHidden[s].events = AbsHidden'[s].events + count[i]
      /\ AbsHidden[s].bytes = AbsHidden'[s].bytes + total_bytes[i]
  <2>1. JoinsAt(count, total_bytes, hash, R, i, s)
    BY <1>1, <1>2, <1>4, <1>5 DEF JoinsAt
  <2>2. /\ Lost(TallyIn(count, total_bytes, hash, R),
                TallyIn(count, total_bytes, hash, R \union {i}), s,
                [events |-> count[i], bytes |-> total_bytes[i]])
        /\ Moved(TallyIn(count, total_bytes, hash, R \union {i})[s].events,
                 TallyIn(count, total_bytes, hash, R)[s].events, count[i], 0)
        /\ Moved(TallyIn(count, total_bytes, hash, R \union {i})[s].bytes,
                 TallyIn(count, total_bytes, hash, R)[s].bytes, total_bytes[i], 0)
    BY <2>1, TallyJoins
  <2>3. /\ AbsHidden[s].events = AbsHidden'[s].events + count[i] - 0
        /\ AbsHidden[s].bytes = AbsHidden'[s].bytes + total_bytes[i] - 0
    BY <1>6, <1>7, <2>2 DEF Moved
  <2>. QED  BY <1>6, <1>7, <1>14, <2>2, <1>10, <1>4, <1>1, <2>3 DEF Lost
<1>11. x \in Tally!UpTo(AbsHidden[s])
  BY <1>1, <1>4, <1>9, <1>10, <1>14 DEF Tally!UpTo
<1>12. x.events > 0 /\ x.bytes > 0
  BY <1>1, <1>3, <1>4, <1>14
<1>13. s = HashOf(t)
  BY DEF s
<1>. QED  BY <1>1, <1>8, <1>9, <1>11, <1>12, <1>13

-----------------------------------------------------------------------------
(* What each step of the table is of the tally.                              *)

\* An empty table.
Blanked == \A i \in Slots : hash[i] = 0 /\ count[i] = 0 /\ total_bytes[i] = 0 /\ frame_count[i] = 0
EmptyTallies == AbsShown = Tally!Empty /\ AbsHidden = Tally!Empty

LEMMA BlankedTallied == Blanked /\ Counters => EmptyTallies
<1>. SUFFICES ASSUME Blanked, Counters PROVE AbsShown = Tally!Empty /\ AbsHidden = Tally!Empty
  BY DEF EmptyTallies
<1>1. ASSUME NEW h \in Hashes
      PROVE  {i \in Slots : hash[i] = h} = {}
  BY HashAssumption DEF Hashes, Blanked
<1>2. \A h \in Hashes : /\ AbsShown[h].events = 0 /\ AbsShown[h].bytes = 0
                        /\ AbsHidden[h].events = 0 /\ AbsHidden[h].bytes = 0
  <2>1. ASSUME NEW h \in Hashes
        PROVE  /\ {i \in Slots : hash[i] = h} \intersect Published = {}
               /\ {i \in Slots : hash[i] = h} \ Published = {}
    BY <1>1
  <2>. QED  BY <2>1, ShownIs, SumEmpty
<1>3. Tally!Empty \in Tallies /\ \A h \in Hashes : Tally!Empty[h].events = 0 /\ Tally!Empty[h].bytes = 0
  BY DEF Tally!Empty, Tally!Nothing, Tallies
<1>4. AbsShown \in Tallies /\ AbsHidden \in Tallies
  BY ShownIs
<1>. HIDE DEF AbsShown, AbsHidden
<1>. QED  BY <1>2, <1>3, <1>4, SameTallies

LEMMA InitTally == TallyInit => Tally!Init
<1>. SUFFICES ASSUME TallyInit PROVE Tally!Init
  OBVIOUS
<1>1. Blanked /\ Counters
  BY DEF TallyInit, Init, Blanked, Counters
<1>2. EmptyTallies
  BY <1>1, BlankedTallied
<1>3. \A t \in Threads : Question(t) = Null /\ Reported(t) = Null
  BY DEF TallyInit, Init, Question, Reported, NoCall
<1>4. AbsReady = FALSE
  BY DEF TallyInit, Init, AbsReady
<1>. QED  BY <1>2, <1>3, <1>4, InitMapped DEF EmptyTallies

LEMMA ResetTally ==
    ASSUME TallyInv, TypeInv', TallyNext, NEW t \in Threads, Reset(t)
    PROVE  Tally!Next
<1>0. TypeInv /\ SetUpInv
  BY DEF TallyInv
<1>1. EmptyTallies'
  <2>1. Blanked'
    BY DEF Reset, Blanked
  <2>. QED  BY <2>1, CountersTyped, BlankedTallied, PTL
<1>2. \A u \in Threads : call[u].op = "none" /\ pc[u] = "idle"
  BY <1>0 DEF Reset, TypeInv, CallOK, CallOKOf, NoCall
<1>3. \A u \in Threads : /\ Question(u) = Null /\ Question(u)' = Null
                         /\ Reported(u) = Null /\ Reported(u)' = Null
  BY <1>2 DEF Reset, locals, Question, Reported
<1>4. UNCHANGED <<AbsAsked, AbsAnswer>>
  BY <1>3 DEF AbsAsked, AbsAnswer
<1>5. AbsReady' = TRUE
  BY <1>0, <1>2, BucketAssumption DEF Reset, init, SetUpInv, AbsReady
<1>. QED  BY <1>1, <1>3, <1>4, <1>5, ClearMapped DEF EmptyTallies

\* The types of what a primed fact is needed of.
Floored == \A t \in Threads : /\ Floor(t) \in Tallies
                              /\ \A h \in Hashes :
                                    /\ Floor(t)[h].events = SumOf(HadEvents(t), HadOf(t, h))
                                    /\ Floor(t)[h].bytes = SumOf(HadBytes(t), HadOf(t, h))
                                    /\ Floor(t)[h].events \in Nat /\ Floor(t)[h].bytes \in Nat

LEMMA FlooredHolds == ReportInv => Floored
BY FloorIs, FloorIsNatural DEF Floored

Contained == \A t \in Threads : /\ Contents(t) \in Tallies
                                /\ \A h \in Hashes : /\ Contents(t)[h].events \in Nat
                                                     /\ Contents(t)[h].bytes \in Nat

LEMMA ContainedHolds == TypeInv => Contained
<1>. SUFFICES ASSUME TypeInv, NEW t \in Threads
     PROVE /\ Contents(t) \in Tallies
           /\ \A h \in Hashes : Contents(t)[h].events \in Nat /\ Contents(t)[h].bytes \in Nat
  BY DEF Contained
<1>1. ASSUME NEW h
      PROVE  SumOf(RowEvents(t), RowsOf(t, h)) \in Nat /\ SumOf(RowBytes(t), RowsOf(t, h)) \in Nat
  <2>1. /\ IsFiniteSet(RowsOf(t, h))
        /\ \A n \in RowsOf(t, h) : RowEvents(t)[n] \in Nat
        /\ \A n \in RowsOf(t, h) : RowBytes(t)[n] \in Nat
    BY RowsTyped
  <2>. QED  BY <2>1, SumNat
<1>. QED  BY <1>1, ContentsIs

NaturalShown == \A h \in Hashes : AbsShown[h].events \in Nat /\ AbsShown[h].bytes \in Nat

LEMMA NaturalShownHolds == TypeInv => NaturalShown
BY TalliesAreNatural DEF NaturalShown

\* A report begins.
LEMMA BeginReportTally ==
    ASSUME TallyInv, TallyInv', TallyNext, NEW t \in Threads, BeginReport(t)
    PROVE  Tally!Next
<1>0. /\ TypeInv /\ TypeInv' /\ ReportInv /\ ReportInv' /\ SetUpInv /\ SetUpInv' /\ WriteInv /\ ReadInv
      /\ Moving(t) /\ HashStays
  <2>1. Moving(t)
    BY DEF Moving
  <2>. QED  BY <2>1, HashesStay DEF TallyInv
<1>1. /\ pc[t] = "idle" /\ pc'[t] = "loadBase" /\ call[t].op = "none" /\ call'[t].op = "report"
      /\ UNCHANGED <<init, table>>
      /\ before'[t] = [i \in Published |-> [events |-> count[i], bytes |-> total_bytes[i]]]
  BY <1>0 DEF BeginReport, Goto, TypeInv, TypeOK, CallOK, CallOKOf, NoCall, ReportInv
<1>2. /\ UNCHANGED <<AbsReady, AbsHidden, AbsShown>>
  BY <1>1, BucketsStay DEF init, table, AbsReady
<1>3. Floor(t)' = AbsShown
  <2>1. ASSUME NEW h \in Hashes
        PROVE  /\ SumOf(HadEvents(t)', HadOf(t, h)') = AbsShown[h].events
               /\ SumOf(HadBytes(t)', HadOf(t, h)') = AbsShown[h].bytes
    <3>. DEFINE A == {i \in Slots : hash[i] = h} \intersect Published
                e == HadEvents(t)'
                b == HadBytes(t)'
    <3>1. HadOf(t, h)' = A
      BY <1>1 DEF table, HadOf
    <3>2. Counters /\ IsFiniteSet(A) /\ A \subseteq Published /\ A \subseteq Slots
      BY <1>0, CountersTyped, FiniteSlots, FS_Subset
    <3>3. \A i \in A : e[i] = count[i] /\ b[i] = total_bytes[i]
      BY <1>1 DEF HadEvents, HadBytes
    <3>4. /\ AbsShown[h].events = SumOf(count, A) /\ AbsShown[h].bytes = SumOf(total_bytes, A)
      BY <3>2, ShownIs
    <3>. HIDE DEF A, e, b
    <3>5. /\ \A i \in A : e[i] = count[i]
          /\ \A i \in A : b[i] = total_bytes[i]
          /\ \A i \in A : count[i] \in Int
          /\ \A i \in A : total_bytes[i] \in Int
      BY <3>2, <3>3 DEF Counters
    <3>6. SumOf(e, A) = SumOf(count, A) /\ SumOf(b, A) = SumOf(total_bytes, A)
      BY <3>2, <3>5, SumCongruent
    <3>. QED  BY <3>1, <3>4, <3>6 DEF e, b
  <2>2. Floored'
    BY <1>0, FlooredHolds, PTL
  <2>3. AbsShown \in Tallies
    BY <1>0, CountersTyped, ShownIs
  <2>. DEFINE f == Floor(t)'
  <2>4. /\ f \in Tallies
        /\ \A h \in Hashes : f[h].events = AbsShown[h].events /\ f[h].bytes = AbsShown[h].bytes
    BY <2>1, <2>2 DEF Floored, Tallies, Hashes
  <2>. HIDE DEF f
  <2>5. f = AbsShown
    BY <2>3, <2>4, SameTallies
  <2>. QED  BY <2>5 DEF f
<1>4. Question(t)' = [floor |-> AbsShown, ready |-> AbsReady]
  BY <1>1, <1>3, <1>0, SetUpEffect DEF Question, AbsReady
<1>5. Question(t) = Null
  BY <1>1 DEF Question
<1>6. Reported(t)' = Reported(t)
  BY <1>1 DEF Reported
<1>7. /\ AbsAsked' = [AbsAsked EXCEPT ![t] = [floor |-> AbsShown, ready |-> AbsReady]]
      /\ AbsAnswer' = AbsAnswer
  BY <1>0, <1>4, <1>6, OthersTally DEF AbsAsked, AbsAnswer
<1>. QED  BY <1>2, <1>5, <1>7, AskMapped

\* The caller takes a report.
LEMMA TakeReportTally ==
    ASSUME TallyInv, TypeInv', TallyNext, NEW t \in Threads, TakeReport(t)
    PROVE  Tally!Next
<1>0. /\ TypeInv /\ Moving(t)
  BY DEF Moving, Step, Report, TallyInv
<1>1. /\ pc[t] = "reported" /\ pc'[t] = "idle" /\ call'[t].op = "none"
      /\ UNCHANGED <<init, table>>
  BY <1>0 DEF TakeReport, Goto, TypeInv, TypeOK, NoCall
<1>2. UNCHANGED <<AbsReady, AbsHidden, AbsShown>>
  BY <1>1, BucketsStay DEF init, table, AbsReady
<1>3. Reported(t) # Null /\ Question(t)' = Null /\ Reported(t)' = Null
  BY <1>0, <1>1, ReportedIs DEF Question, Reported
<1>4. /\ AbsAsked' = [AbsAsked EXCEPT ![t] = Null]
      /\ AbsAnswer' = [AbsAnswer EXCEPT ![t] = Null]
  BY <1>0, <1>3, OthersTally DEF AbsAsked, AbsAnswer
<1>. QED  BY <1>2, <1>3, <1>4, TakeMapped

\* A report ends.
LEMMA ReportedTally ==
    ASSUME TallyInv, TallyInv', TallyNext, NEW t \in Threads, Moving(t),
           UNCHANGED <<TABLE_BUCKETS, table>>,
           pc[t] \notin {"idle", "reported"}, pc'[t] = "reported",
           call[t].op = "report", call'[t] = call[t], before'[t] = before[t]
    PROVE  Tally!Next
<1>0. /\ TypeInv /\ TypeInv' /\ ReportInv /\ SetUpInv /\ WriteInv /\ ReadInv /\ HashStays
  BY HashesStay DEF TallyInv
<1>1. UNCHANGED <<AbsReady, AbsHidden, AbsShown>>
  BY BucketsStay DEF table, AbsReady
<1>2. Question(t)' = Question(t) /\ Question(t) # Null
  BY <1>0, QuestionStays, QuestionIs
<1>3. Reported(t) = Null
  BY <1>0, ReportedIs
<1>4. Question(t)' = [floor |-> Floor(t)', ready |-> setUpBefore'[t]]
  BY DEF Question
<1>. DEFINE f == Contents(t)'
            q == Floor(t)'
<1>5. Reported(t)' = f
  BY DEF Reported
<1>6. Fitting' /\ Floored' /\ NaturalShown /\ Contained'
  BY <1>0, ReportsFit, FlooredHolds, NaturalShownHolds, ContainedHolds, PTL DEF TallyInv
<1>7. /\ f \in Tallies /\ \A h \in Hashes : /\ f[h].events \in Nat /\ f[h].bytes \in Nat
                                            /\ q[h].events \in Nat /\ q[h].bytes \in Nat
                                            /\ AbsShown[h].events \in Nat /\ AbsShown[h].bytes \in Nat
  BY <1>6 DEF Floored, NaturalShown, Contained, Tallies, Hashes
<1>8. \/ /\ ~setUpBefore'[t] /\ f = Tally!Empty
      \/ \A h \in Hashes : /\ q[h].events <= f[h].events
                           /\ q[h].bytes <= f[h].bytes
                           /\ f[h].events <= AbsShown[h].events
                           /\ f[h].bytes <= AbsShown[h].bytes
  BY <1>1, <1>6 DEF Fitting, Hashes, Tally!Empty, Tally!Nothing
<1>. HIDE DEF f, q
<1>9. f \in Tally!Answers([floor |-> q, ready |-> setUpBefore'[t]])
  <2>1. CASE ~setUpBefore'[t] /\ f = Tally!Empty
    BY <2>1 DEF Tally!Answers
  <2>2. CASE \A h \in Hashes : /\ q[h].events <= f[h].events
                               /\ q[h].bytes <= f[h].bytes
                               /\ f[h].events <= AbsShown[h].events
                               /\ f[h].bytes <= AbsShown[h].bytes
    <3>1. ASSUME NEW h \in Hashes
          PROVE  /\ f[h] \in Tally!UpTo(AbsShown[h])
                 /\ q[h] \in Tally!UpTo(f[h])
      <4>1. f[h] \in [events : Int, bytes : Int] /\ q[h] \in [events : Int, bytes : Int]
        BY <1>7, <1>6 DEF Tallies, Floored, q
      <4>. QED  BY <1>7, <2>2, <4>1 DEF Tally!UpTo
    <3>2. f \in [Hashes -> UNION {Tally!UpTo(AbsShown[s]) : s \in Hashes}]
      BY <1>7, <3>1 DEF Tallies
    <3>. QED  BY <3>1, <3>2 DEF Tally!Answers, AbsShown
  <2>. QED  BY <1>8, <2>1, <2>2
<1>10. AbsAnswer' = [AbsAnswer EXCEPT ![t] = f]
  BY <1>5, OthersTally, <1>0 DEF AbsAnswer
<1>11. AbsAsked' = AbsAsked
  BY <1>2, OthersTally, <1>0 DEF AbsAsked
<1>12. f \in Tally!Answers(Question(t))
  BY <1>2, <1>4, <1>9 DEF q
<1>. QED  BY <1>1, <1>2, <1>3, <1>10, <1>11, <1>12, AnswerMapped

\* A step that changes nothing that can be seen from outside.
LEMMA QuietTally ==
    ASSUME UNCHANGED <<AbsReady, AbsHidden, AbsShown, AbsAsked, AbsAnswer>>
    PROVE  [Tally!Next]_(Tally!vars)
BY StutterMapped

\* A step of a report that does not end it, or of a recording.
LEMMA OnwardTally ==
    ASSUME TallyInv, TypeInv', TallyNext, NEW t \in Threads, Moving(t),
           UNCHANGED <<TABLE_BUCKETS, AbsHidden, AbsShown>>,
           \/ call[t].op # "report" /\ call'[t].op # "report"
           \/ call'[t] = call[t] /\ before'[t] = before[t] /\ pc'[t] # "idle",
           pc[t] # "reported", pc'[t] # "reported"
    PROVE  [Tally!Next]_(Tally!vars)
<1>1. UNCHANGED <<AbsAsked, AbsAnswer>>
  BY AskersStay
<1>2. UNCHANGED AbsReady
  BY DEF AbsReady
<1>. QED  BY <1>1, <1>2, QuietTally

LEMMA RecordTally ==
    ASSUME TallyInv, TypeInv', TallyNext, NEW t \in Threads, Record(t)
    PROVE  [Tally!Next]_(Tally!vars)
<1>0. /\ TypeInv /\ AccountInv /\ WriteInv /\ Moving(t)
      /\ DOMAIN pc = Threads /\ DOMAIN call = Threads
  BY DEF TallyInv, Moving, Step, TypeInv, TypeOK
<1>1. /\ pc[t] \in RecordPCs /\ pc'[t] \notin {"reported"} /\ UNCHANGED init
      /\ call'[t] \in {call[t], NoCall}
  <2>. USE <1>0 DEF Goto, RecordPCs
  <2>1. CASE Probe(t) \/ ClaimLost(t)
    BY <2>1 DEF Probe, ClaimLost, Advance, GiveUp, Leave
  <2>2. CASE Claim(t) \/ WriteFrame(t) \/ AddCount(t) \/ InitBytes(t)
    BY <2>2 DEF Claim, WriteFrame, AddCount, InitBytes
  <2>3. CASE AddBytes(t) \/ Publish(t)
    BY <2>3 DEF AddBytes, Publish, Leave
  <2>. QED  BY <2>1, <2>2, <2>3 DEF Record
<1>2. call[t].op = "record" /\ call'[t].op # "report" /\ pc[t] # "reported"
  BY <1>0, <1>1, OwnSite DEF NoCall, RecordPCs
<1>3. UNCHANGED <<AbsReady, AbsAsked, AbsAnswer>>
  BY <1>0, <1>1, <1>2, AskersStay DEF AbsReady, init
<1>4. CASE Claim(t)
  BY <1>0, <1>3, <1>4, ClaimTallied, QuietTally
<1>5. CASE Probe(t) \/ ClaimLost(t) \/ WriteFrame(t)
  <2>1. UNCHANGED <<hash, count, total_bytes, frame_count>>
    BY <1>5 DEF Probe, ClaimLost, WriteFrame, table
  <2>. QED  BY <1>3, <2>1, BucketsStay, QuietTally
<1>6. CASE AddCount(t) \/ InitBytes(t) \/ AddBytes(t)
  <2>1. /\ HashOf(t) \in Hashes
        /\ \E x \in Tally!AnEventOrSize :
              \/ /\ AbsHidden' = [AbsHidden EXCEPT ![HashOf(t)] = Tally!Plus(@, x)]
                 /\ AbsShown' = AbsShown
              \/ /\ AbsShown[HashOf(t)].events > 0
                 /\ AbsShown' = [AbsShown EXCEPT ![HashOf(t)] = Tally!Plus(@, x)]
                 /\ AbsHidden' = AbsHidden
    BY <1>0, <1>6, FetchAddTallied
  <2>. QED  BY <1>3, <2>1, CountMapped
<1>7. CASE Publish(t)
  <2>1. /\ HashOf(t) \in Hashes
        /\ \E x \in Tally!UpTo(AbsHidden[HashOf(t)]) :
              /\ x.events > 0 /\ x.bytes > 0
              /\ AbsHidden' = [AbsHidden EXCEPT ![HashOf(t)] = Tally!Minus(@, x)]
              /\ AbsShown' = [AbsShown EXCEPT ![HashOf(t)] = Tally!Plus(@, x)]
    BY <1>0, <1>7, PublishTallied
  <2>. QED  BY <1>3, <2>1, ShowMapped
<1>. QED  BY <1>4, <1>5, <1>6, <1>7 DEF Record

LEMMA ReportTally ==
    ASSUME TallyInv, TallyInv', TallyNext, NEW t \in Threads, Report(t)
    PROVE  [Tally!Next]_(Tally!vars)
<1>0. /\ TypeInv /\ TypeInv' /\ Moving(t)
      /\ DOMAIN pc = Threads /\ DOMAIN call = Threads
  BY DEF TallyInv, Moving, Step, TypeInv, TypeOK
<1>1. CASE TakeReport(t)
  BY <1>0, <1>1, TakeReportTally
<1>2. CASE ~TakeReport(t)
  <2>1. /\ pc[t] \in ReportPCs \ {"reported"} /\ pc'[t] # "idle" /\ UNCHANGED <<init, table>>
        /\ call' = call /\ before' = before
    <3>. USE <1>0 DEF Goto, ReportPCs, history
    <3>1. CASE ScanHash(t) \/ ScanFrameCount(t) \/ LoadBytes(t)
      BY <3>1 DEF ScanHash, ScanFrameCount, LoadBytes, NextRow
    <3>2. CASE LoadFrame(t) \/ LoadCount(t)
      BY <3>2 DEF LoadFrame, LoadCount
    <3>. QED  BY <1>2, <3>1, <3>2 DEF Report
  <2>2. call[t].op = "report" /\ pc[t] \notin {"idle", "reported"}
    BY <1>0, <2>1 DEF TypeInv, CallOK, CallOKOf, ReportPCs
  <2>3. CASE pc'[t] = "reported"
    BY <1>0, <2>1, <2>2, <2>3, ReportedTally DEF init
  <2>4. CASE pc'[t] # "reported"
    <3>1. UNCHANGED <<AbsHidden, AbsShown>>
      BY <2>1, BucketsStay DEF table
    <3>. QED  BY <1>0, <2>1, <2>2, <2>4, <3>1, OnwardTally DEF init
  <2>. QED  BY <2>3, <2>4
<1>. QED  BY <1>1, <1>2

LEMMA EnsureInitTally ==
    ASSUME TallyInv, TallyInv', TallyNext, NEW t \in Threads, EnsureInit(t)
    PROVE  [Tally!Next]_(Tally!vars)
<1>0. /\ TypeInv /\ TypeInv' /\ Moving(t)
      /\ DOMAIN pc = Threads /\ DOMAIN call = Threads
  BY DEF TallyInv, Moving, Step, TypeInv, TypeOK
<1>1. /\ pc[t] \in InitPCs /\ UNCHANGED <<table, before>>
      /\ \/ call' = call /\ pc'[t] # "idle"
         \/ call[t].op = "record" /\ call'[t] = NoCall /\ pc'[t] = "idle"
      /\ StoreBuckets(t) \/ TABLE_BUCKETS' = TABLE_BUCKETS
      /\ StoreBuckets(t) => pc'[t] = "storeMask" /\ TABLE_BUCKETS' = N
  <2>. USE <1>0 DEF Goto, InitPCs, history, init
  <2>1. CASE LoadBase(t) \/ LoadBuckets(t) \/ LoadMask(t) \/ AllocPages(t)
    BY <2>1 DEF LoadBase, LoadBuckets, LoadMask, AllocPages, Enter, StoreBuckets
  <2>2. CASE AllocPagesFails(t)
    BY <2>2 DEF AllocPagesFails, GiveUp, Leave, StoreBuckets
  <2>3. CASE CasBase(t) \/ FreePages(t) \/ AwaitBuckets(t)
    BY <2>3 DEF CasBase, FreePages, AwaitBuckets, StoreBuckets
  <2>4. CASE StoreBuckets(t) \/ StoreMask(t)
    BY <2>4 DEF StoreBuckets, StoreMask, Enter
  <2>. QED  BY <2>1, <2>2, <2>3, <2>4 DEF EnsureInit
<1>2. pc[t] \notin {"idle", "reported"} /\ call[t].op \in {"record", "report"}
  BY <1>0, <1>1 DEF InitPCs, TypeInv, CallOK, CallOKOf
<1>3. UNCHANGED <<AbsHidden, AbsShown>>
  BY <1>1, BucketsStay DEF table
<1>4. CASE StoreBuckets(t)
  <2>1. AbsReady' = TRUE
    BY <1>1, <1>4, BucketAssumption DEF AbsReady
  <2>2. UNCHANGED <<AbsAsked, AbsAnswer>>
    BY <1>0, <1>1, <1>2, <1>4, AskersStay DEF NoCall
  <2>. QED  BY <1>3, <2>1, <2>2, SetUpMapped
<1>5. CASE ~StoreBuckets(t) /\ pc'[t] # "reported"
  BY <1>0, <1>1, <1>2, <1>3, <1>5, OnwardTally DEF NoCall
<1>6. CASE ~StoreBuckets(t) /\ pc'[t] = "reported"
  <2>1. call[t].op = "report" /\ call'[t] = call[t]
    BY <1>0, <1>1, <1>2, <1>6 DEF TypeInv, CallOK, CallOKOf, ReportPCs
  <2>. QED  BY <1>0, <1>1, <1>2, <1>6, <2>1, ReportedTally
<1>. QED  BY <1>4, <1>5, <1>6

LEMMA BeginRecordTally ==
    ASSUME TallyInv, TypeInv', TallyNext, NEW t \in Threads, BeginRecord(t)
    PROVE  [Tally!Next]_(Tally!vars)
<1>0. TypeInv /\ Moving(t)
  BY DEF TallyInv, Moving
<1>1. /\ pc[t] = "idle" /\ pc'[t] = "loadBase" /\ call[t].op = "none" /\ call'[t].op = "record"
      /\ UNCHANGED <<init, table>>
  BY <1>0 DEF BeginRecord, Goto, TypeInv, TypeOK, CallOK, CallOKOf, NoCall
<1>2. UNCHANGED <<AbsHidden, AbsShown>>
  BY <1>1, BucketsStay DEF table
<1>. QED  BY <1>0, <1>1, <1>2, OnwardTally DEF init

LEMMA StepTally ==
    ASSUME TallyInv, TallyInv', [TallyNext]_<<vars, setUpBefore>>
    PROVE  [Tally!Next]_(Tally!vars)
<1>0. TypeInv /\ TypeInv'
  BY DEF TallyInv
<1>1. CASE UNCHANGED <<vars, setUpBefore>>
  BY <1>1, QuietTally, BucketsStay DEF vars, init, table, locals, history, AbsReady, AbsAsked, AbsAnswer,
     Question, Reported, Floor, Contents, Tallied, SlotsOf
<1>2. CASE TallyNext /\ Rest
  <2>1. \A t \in Threads : pc[t] = "idle" /\ call[t].op = "none" /\ pc'[t] = "idle" /\ call'[t].op = "none"
    BY <1>0, <1>2 DEF Rest, vars, locals, TypeInv, CallOK, CallOKOf, NoCall
  <2>2. UNCHANGED <<AbsAsked, AbsAnswer>>
    BY <2>1 DEF AbsAsked, AbsAnswer, Question, Reported
  <2>3. UNCHANGED <<AbsReady, AbsHidden, AbsShown>>
    BY <1>2, BucketsStay DEF Rest, vars, init, table, AbsReady
  <2>. QED  BY <2>2, <2>3, QuietTally
<1>3. ASSUME TallyNext, NEW t \in Threads, BeginRecord(t) \/ BeginReport(t) \/ Reset(t) \/ Step(t)
      PROVE  [Tally!Next]_(Tally!vars)
  BY <1>0, <1>3, BeginRecordTally, BeginReportTally, ResetTally, EnsureInitTally, RecordTally,
     ReportTally DEF Step
<1>. QED  BY <1>1, <1>2, <1>3 DEF TallyNext, Next

\* Seen from outside, for any number of threads, buckets and sites, the lock-free
\* table is a tally per site: each of its atomic accesses is a step of SiteTally or
\* changes nothing there, and a report has, for every site, no less than was shown
\* when it was asked for and no more than is shown when it ends (table.rs:160-273).
THEOREM TableIsATally == TallySpec => ImplementsTally
<1>1. TallyInit => TallyInv
  BY InitType, InitReport, InitAccount, InitWrite, InitRead, InitSetUp, InitEmpty
     DEF TallyInv, TallyInit
<1>2. TallyInv /\ [TallyNext]_<<vars, setUpBefore>> => TallyInv'
  BY TallyNextNext, NextType, NextReport, NextAccount, NextWrite, NextRead, SetUpNext, NextEmpty
     DEF TallyInv
<1>3. TallyInit => Tally!Init
  BY InitTally
<1>4. TallyInv /\ TallyInv' /\ [TallyNext]_<<vars, setUpBefore>> => [Tally!Next]_(Tally!vars)
  BY StepTally
<1>. QED  BY <1>1, <1>2, <1>3, <1>4, PTL DEF TallySpec, ImplementsTally, Tally!Spec
==============================================================================
