------------------------ MODULE CallSiteTable_proofs ------------------------
(***************************************************************************)
(* Theorems about the call-site table, for any number of threads, buckets, *)
(* traces and calls: its types, its rows and the probe that finds them,    *)
(* its pages, what a report has, what the buckets count, and what a row    *)
(* of a report holds while others record.                                  *)
(***************************************************************************)
EXTENDS ConfiguredTable, Arithmetic, TLAPS

InitPCs   == {"loadBase", "loadBuckets", "loadMask", "allocPages", "casBase",
              "storeBuckets", "storeMask", "freePages", "awaitBuckets"}
RecordPCs == {"probe", "claim", "writeFrame", "initCount", "initBytes",
              "publish", "addCount", "addBytes"}
ReportPCs == {"scanHash", "scanFrameCount", "loadFrame", "loadCount",
              "loadBytes", "reported"}

\* What a thread's position says of its call and of its frame counter.
CallOKOf(t) ==
    /\ pc[t] \in InitPCs => call[t].op \in {"record", "report"}
    /\ pc[t] \in RecordPCs => call[t].op = "record"
    /\ pc[t] \in ReportPCs => call[t].op = "report"
    /\ pc[t] = "idle" => call[t] = NoCall
    /\ call[t].op = "record" => /\ call[t].trace \in Traces \ {<< >>}
                                /\ call[t].size \in Sizes
    /\ pc[t] \in InitPCs \union {"idle", "probe", "claim", "scanHash",
                                 "scanFrameCount", "reported"}
          => pos[t] = 0
    /\ pc[t] = "writeFrame" => pos[t] < Len(call[t].trace)
    /\ pc[t] = "loadFrame"  => pos[t] < row[t].frame_count

CallOK == \A t \in Threads : CallOKOf(t)

TypeInv == TypeOK /\ CallOK

\* A step of one thread.
LEMMA CallMoves ==
    ASSUME CallOK, NEW t \in Threads, CallOKOf(t)',
           \A u \in Threads \ {t} :
              /\ pc'[u] = pc[u] /\ call'[u] = call[u] /\ pos'[u] = pos[u]
              /\ row'[u].frame_count = row[u].frame_count
    PROVE  CallOK'
<1>1. ASSUME NEW u \in Threads \ {t} PROVE CallOKOf(u)'
  <2>1. CallOKOf(u)
    BY DEF CallOK, CallOKOf
  <2>2. QED BY <2>1 DEF CallOKOf
<1>2. \A u \in Threads : CallOKOf(u)'
  BY <1>1
<1>3. QED BY <1>2 DEF CallOK, CallOKOf

LEMMA AndType ==
    ASSUME NEW x \in Nat, NEW m \in {0, N - 1}
    PROVE  /\ And(x, m) \in Slots
           /\ m = 0 => And(x, m) = 0
BY BucketAssumption DEF And, Slots

LEMMA InitType == Init => TypeInv
<1> SUFFICES ASSUME Init PROVE TypeInv
  OBVIOUS
<1> USE DEF Init
<1>1. 0 \in Slots /\ NoFrames \in Frames /\ NoRow \in Row
  BY BucketAssumption, TraceAssumption DEF Slots, NoFrames, Frames, NoRow, Row
<1>2. /\ TABLE_BASE \in Threads \union {Null}
      /\ TABLE_BUCKETS \in {0, N} /\ TABLE_MASK \in {0, N - 1}
      /\ mapped \subseteq Threads
      /\ calls \in 0 .. MaxCalls
  BY BoundAssumption
<1>9. shortClaim \in BOOLEAN
  OBVIOUS
<1>3. /\ hash \in [Slots -> Nat]
      /\ count \in [Slots -> Nat]
      /\ total_bytes \in [Slots -> Nat]
      /\ frame_count \in [Slots -> 0 .. MaxFrames]
      /\ sample_frames \in [Slots -> Frames]
  BY <1>1, TraceAssumption
<1>4. /\ pc \in [Threads -> PCs]
      /\ idx \in [Threads -> Slots]
      /\ pos \in [Threads -> 0 .. MaxFrames]
      /\ row \in [Threads -> Row]
      /\ out \in [Threads -> Seq(Row)]
  BY <1>1, TraceAssumption DEF PCs
<1>5. call \in [Threads -> [op : {"none", "record", "report"},
                             trace : Traces \union {<< >>},
                             size : Sizes \union {0}]]
  BY DEF NoCall
<1>6. view \in [Threads -> [buckets : {0, N}, mask : {0, N - 1}]]
  BY DEF NoView
<1>7. CallOK
  BY DEF CallOK, CallOKOf, NoCall, InitPCs, RecordPCs, ReportPCs
<1>8. QED
  BY <1>2, <1>3, <1>4, <1>5, <1>6, <1>7, <1>9 DEF TypeInv, TypeOK

LEMMA BeginRecordType ==
    ASSUME TypeInv, NEW t \in Threads, BeginRecord(t)
    PROVE  TypeInv'
<1> USE DEF BeginRecord, Goto, init, table
<1>1. PICK tr \in Traces \ {<< >>}, size \in Sizes :
         call' = [call EXCEPT ![t] = [op |-> "record", trace |-> tr,
                                      size |-> size]]
  OBVIOUS
<1>2. call' \in [Threads -> [op : {"none", "record", "report"},
                              trace : Traces \union {<< >>},
                              size : Sizes \union {0}]]
  BY <1>1 DEF TypeInv, TypeOK
<1>3. calls' \in 0 .. MaxCalls /\ pc' \in [Threads -> PCs]
  BY BoundAssumption DEF TypeInv, TypeOK, PCs
<1>4. TypeOK'
  BY <1>2, <1>3 DEF TypeInv, TypeOK
<1>5. CallOK'
  BY <1>1 DEF TypeInv, TypeOK, CallOK, CallOKOf, InitPCs, RecordPCs, ReportPCs
<1>6. QED BY <1>4, <1>5 DEF TypeInv

LEMMA BeginReportType ==
    ASSUME TypeInv, NEW t \in Threads, BeginReport(t)
    PROVE  TypeInv'
<1> USE DEF BeginReport, Goto, init, table
<1>1. call' \in [Threads -> [op : {"none", "record", "report"},
                              trace : Traces \union {<< >>},
                              size : Sizes \union {0}]]
  <2>1. call \in [Threads -> [op : {"none", "record", "report"},
                              trace : Traces \union {<< >>},
                              size : Sizes \union {0}]]
    BY DEF TypeInv, TypeOK
  <2>2. call' = [call EXCEPT ![t].op = "report"]
    OBVIOUS
  <2> HIDE DEF BeginReport
  <2>3. QED BY <2>1, <2>2
<1>2. calls' \in 0 .. MaxCalls /\ pc' \in [Threads -> PCs]
  BY BoundAssumption DEF TypeInv, TypeOK, PCs
<1>3. TypeOK'
  BY <1>1, <1>2 DEF TypeInv, TypeOK
<1>4. CallOK'
  BY DEF TypeInv, TypeOK, CallOK, CallOKOf, InitPCs, RecordPCs, ReportPCs, NoCall
<1>5. QED BY <1>3, <1>4 DEF TypeInv

\* The frame that record pops leaves nothing behind.
LEMMA LeaveType ==
    ASSUME TypeInv, NEW t \in Threads, Leave(t)
    PROVE  /\ pc' \in [Threads -> PCs]
           /\ call' \in [Threads -> [op : {"none", "record", "report"},
                                     trace : Traces \union {<< >>},
                                     size : Sizes \union {0}]]
           /\ view' \in [Threads -> [buckets : {0, N}, mask : {0, N - 1}]]
           /\ idx' \in [Threads -> Slots]
           /\ pos' \in [Threads -> 0 .. MaxFrames]
           /\ row' = row /\ out' = out
           /\ CallOK'
<1>1. 0 \in Slots /\ 0 \in 0 .. MaxFrames
  BY BucketAssumption, TraceAssumption DEF Slots
<1>2. NoCall \in [op : {"none", "record", "report"},
                  trace : Traces \union {<< >>}, size : Sizes \union {0}]
  BY DEF NoCall
<1>3. NoView \in [buckets : {0, N}, mask : {0, N - 1}]
  BY DEF NoView
<1>4. CallOK'
  BY DEF Leave, Goto, NoCall, TypeInv, TypeOK, CallOK, CallOKOf,
         InitPCs, RecordPCs, ReportPCs
<1>5. QED
  BY <1>1, <1>2, <1>3, <1>4 DEF Leave, Goto, TypeInv, TypeOK, PCs

\* ensure_init: the actions that change only pc, view and mapped pages.
LEMMA EnsureInitType ==
    ASSUME TypeInv, NEW t \in Threads, EnsureInit(t)
    PROVE  TypeInv'
<1> USE DEF TypeInv, Goto, init, table, history
<1>1. CASE LoadBase(t)
  <2>1. TypeOK'
    BY <1>1 DEF LoadBase, TypeOK, PCs
  <2>2. CallOK'
    BY <1>1 DEF LoadBase, TypeOK, CallOK, CallOKOf, InitPCs, RecordPCs, ReportPCs
  <2>3. QED BY <2>1, <2>2
<1>2. CASE LoadBuckets(t) \/ AwaitBuckets(t)
  <2>0. view' \in [Threads -> [buckets : {0, N}, mask : {0, N - 1}]]
    <3>1. [view[t] EXCEPT !.buckets = TABLE_BUCKETS]
             \in [buckets : {0, N}, mask : {0, N - 1}]
      <4>1. view[t] \in [buckets : {0, N}, mask : {0, N - 1}]
        BY DEF TypeOK
      <4>2. TABLE_BUCKETS \in {0, N}
        BY DEF TypeOK
      <4>3. QED BY <4>1, <4>2
    <3>2. view' = [view EXCEPT ![t] = [view[t] EXCEPT
                                             !.buckets = TABLE_BUCKETS]]
      BY <1>2 DEF LoadBuckets, AwaitBuckets, TypeOK
    <3>3. QED BY <3>1, <3>2 DEF TypeOK
  <2>1. TypeOK'
    BY <1>2, <2>0 DEF LoadBuckets, AwaitBuckets, TypeOK, PCs
  <2>2. CallOK'
    BY <1>2 DEF LoadBuckets, AwaitBuckets, TypeOK, CallOK, CallOKOf,
                InitPCs, RecordPCs, ReportPCs
  <2>3. QED BY <2>1, <2>2
<1>3. CASE AllocPages(t) \/ FreePages(t)
  <2>1. TypeOK'
    BY <1>3 DEF AllocPages, FreePages, TypeOK, PCs
  <2>2. CallOK'
    <3>1. /\ pc[t] \in InitPCs /\ pc'[t] \in {"casBase", "awaitBuckets"}
          /\ UNCHANGED <<call, pos, row>>
          /\ \A u \in Threads \ {t} : pc'[u] = pc[u]
      BY <1>3 DEF AllocPages, FreePages, TypeOK, InitPCs
    <3>2. CallOKOf(t)'
      BY <3>1 DEF CallOK, CallOKOf, InitPCs, RecordPCs, ReportPCs
    <3>3. QED BY <3>1, <3>2, CallMoves
  <2>3. QED BY <2>1, <2>2
<1>4. CASE CasBase(t) \/ StoreBuckets(t)
  <2>1. TypeOK'
    BY <1>4 DEF CasBase, StoreBuckets, TypeOK, PCs
  <2>2. CallOK'
    <3>1. /\ UNCHANGED <<call, pos, row>>
          /\ pc[t] \in {"casBase", "storeBuckets"}
          /\ \E where \in {"storeBuckets", "freePages", "storeMask"} :
                pc' = [pc EXCEPT ![t] = where]
      BY <1>4 DEF CasBase, StoreBuckets
    <3>2. pc \in [Threads -> PCs]
      BY DEF TypeOK
    <3>3. CallOKOf(t)
      BY DEF CallOK
    <3>4. CallOKOf(t)'
      BY <3>1, <3>2, <3>3 DEF CallOKOf, InitPCs, RecordPCs, ReportPCs
    <3>5. \A u \in Threads \ {t} : pc'[u] = pc[u]
      BY <3>1, <3>2
    <3>6. QED BY <3>1, <3>4, <3>5, CallMoves
  <2>3. QED BY <2>1, <2>2
<1>5. ASSUME NEW b \in {0, N}, NEW m \in {0, N - 1}, Enter(t, b, m),
             pc[t] \in {"loadMask", "storeMask"},
             TABLE_BASE' = TABLE_BASE, TABLE_BUCKETS' = TABLE_BUCKETS,
             TABLE_MASK' \in {0, N - 1}, UNCHANGED <<mapped, table, history>>
      PROVE  TypeInv'
  <2>1. call[t].op = "record" => HashOf(t) \in Nat
    BY HashAssumption DEF CallOK, CallOKOf, HashOf
  <2>2. call[t].op = "record" => And(HashOf(t), m) \in Slots
    BY <2>1, AndType
  <2>3. TypeOK'
    <3>1. view' \in [Threads -> [buckets : {0, N}, mask : {0, N - 1}]]
      BY <1>5 DEF Enter, TypeOK
    <3>2. pc' \in [Threads -> PCs]
      <4>1. \E where \in {"probe", "scanHash", "reported"} : pc' = [pc EXCEPT ![t] = where]
        BY <1>5 DEF Enter
      <4>2. QED BY <4>1 DEF TypeOK, PCs, RecordPCs, ReportPCs
    <3>5. idx' \in [Threads -> Slots]
      <4>1. \/ /\ call[t].op = "record"
               /\ idx' = [idx EXCEPT ![t] = And(HashOf(t), m)]
            \/ UNCHANGED idx
        BY <1>5 DEF Enter
      <4>2. idx \in [Threads -> Slots]
        BY DEF TypeOK
      <4>3. QED BY <2>2, <4>1, <4>2
    <3>3. UNCHANGED <<call, pos, row, out>>
      BY <1>5 DEF Enter
    <3>4. QED BY <1>5, <3>1, <3>2, <3>3, <3>5 DEF TypeOK
  <2>4. CallOK'
    <3>1. /\ pc[t] \in InitPCs /\ UNCHANGED <<call, pos, row>>
          /\ \/ call[t].op = "record" /\ pc' = [pc EXCEPT ![t] = "probe"]
             \/ /\ call[t].op = "report"
                /\ \E where \in {"scanHash", "reported"} : pc' = [pc EXCEPT ![t] = where]
      BY <1>5 DEF Enter, InitPCs
    <3>2. pc \in [Threads -> PCs]
      BY DEF TypeOK
    <3>3. CallOKOf(t)
      BY DEF CallOK
    <3>4. CallOKOf(t)'
      BY <3>1, <3>2, <3>3 DEF CallOKOf, InitPCs, RecordPCs, ReportPCs
    <3>5. \A u \in Threads \ {t} : pc'[u] = pc[u]
      BY <3>1, <3>2
    <3>. QED  BY <3>1, <3>4, <3>5, CallMoves
  <2>5. QED BY <2>3, <2>4
<1>6. CASE LoadMask(t)
  BY <1>5, <1>6 DEF LoadMask, TypeOK
<1>7. CASE StoreMask(t)
  BY <1>5, <1>7 DEF StoreMask, TypeOK
<1>8. CASE AllocPagesFails(t)
  <2>1. CASE GiveUp(t)
    BY <1>8, <2>1, LeaveType DEF AllocPagesFails, GiveUp, TypeOK
  <2>2. CASE /\ call[t].op = "report" /\ Goto(t, "reported")
             /\ UNCHANGED <<call, view, idx, pos, row, out, owed>>
    <3>1. TypeOK'
      BY <1>8, <2>2 DEF AllocPagesFails, TypeOK, PCs
    <3>2. CallOK'
      BY <1>8, <2>2 DEF AllocPagesFails, TypeOK, CallOK, CallOKOf,
                        InitPCs, RecordPCs, ReportPCs
    <3>3. QED BY <3>1, <3>2
  <2>3. QED BY <1>8, <2>1, <2>2 DEF AllocPagesFails
<1>9. QED
  BY <1>1, <1>2, <1>3, <1>4, <1>6, <1>7, <1>8 DEF EnsureInit

LEMMA AdvanceType ==
    ASSUME TypeInv, NEW t \in Threads, Advance(t), pc[t] \in {"probe", "claim"},
           UNCHANGED <<init, table, calls, shortClaim, before>>
    PROVE  TypeInv'
<1> DEFINE next == And(idx[t] + 1, view[t].mask)
<1>1. next \in Slots
  <2>1. idx[t] \in Slots
    BY DEF TypeInv, TypeOK
  <2>4. idx[t] + 1 \in Nat
    BY <2>1, BucketAssumption DEF Slots
  <2>2. view[t].mask \in {0, N - 1}
    BY DEF TypeInv, TypeOK
  <2>3. QED BY <2>4, <2>2, AndType
<1>2. CASE next # Start(t) /\ idx' = [idx EXCEPT ![t] = next]
           /\ Goto(t, "probe") /\ UNCHANGED <<call, view, pos, row, out, owed>>
  <2>1. TypeOK'
    BY <1>1, <1>2 DEF TypeInv, TypeOK, Goto, PCs, init, table
  <2>2. CallOK'
    BY <1>2 DEF TypeInv, TypeOK, CallOK, CallOKOf, Goto, InitPCs, RecordPCs, ReportPCs
  <2>3. QED BY <2>1, <2>2 DEF TypeInv
<1>3. CASE next = Start(t) /\ GiveUp(t)
  BY <1>3, LeaveType DEF GiveUp, TypeInv, TypeOK, init, table
<1>4. QED BY <1>2, <1>3 DEF Advance

LEMMA ProbeType ==
    ASSUME TypeInv, NEW t \in Threads, Probe(t) \/ Claim(t) \/ ClaimLost(t)
    PROVE  TypeInv'
<1>1. CASE /\ pc[t] \in {"probe", "claim"}
           /\ \E where \in {"claim", "addCount"} : Goto(t, where)
           /\ UNCHANGED <<call, view, idx, pos, row, out, owed>>
           /\ UNCHANGED <<init, table, calls, shortClaim, before>>
  <2>1. TypeOK'
    BY <1>1 DEF TypeInv, TypeOK, Goto, PCs, init, table
  <2>2. CallOK'
    BY <1>1 DEF TypeInv, TypeOK, CallOK, CallOKOf, Goto, InitPCs, RecordPCs, ReportPCs
  <2>3. QED BY <2>1, <2>2 DEF TypeInv
<1>2. CASE Claim(t)
  <2>1. HashOf(t) \in Nat
    BY <1>2, HashAssumption DEF Claim, HashOf, TypeInv, CallOK, CallOKOf, RecordPCs
  <2>2. shortClaim' \in BOOLEAN
    BY <1>2 DEF Claim
  <2>3. TypeOK'
    BY <1>2, <2>1, <2>2 DEF Claim, Goto, TypeInv, TypeOK, PCs, init
  <2>4. Len(call[t].trace) > 0
    BY <1>2, TraceAssumption DEF Claim, TypeInv, CallOK, CallOKOf, RecordPCs
  <2>5. CallOK'
    BY <1>2, <2>4 DEF Claim, Goto, TypeInv, TypeOK, CallOK, CallOKOf,
                      InitPCs, RecordPCs, ReportPCs
  <2>6. QED BY <2>3, <2>5 DEF TypeInv
<1>3. CASE Advance(t) /\ pc[t] \in {"probe", "claim"}
           /\ UNCHANGED <<init, table, calls, shortClaim, before>>
  BY <1>3, AdvanceType
<1>4. QED
  BY <1>1, <1>2, <1>3 DEF Probe, ClaimLost

LEMMA CountType ==
    ASSUME TypeInv, NEW t \in Threads,
           \/ WriteFrame(t) \/ AddCount(t)
           \/ InitBytes(t) \/ AddBytes(t) \/ Publish(t)
    PROVE  TypeInv'
<1> USE DEF Goto, init, history
<1>1. CASE WriteFrame(t)
  <2> DEFINE k == pos[t] + 1
  <2>1. /\ call[t].trace \in Seq(Nat) /\ Len(call[t].trace) <= MaxFrames
        /\ k \in 1 .. Len(call[t].trace)
    BY <1>1, TraceAssumption DEF WriteFrame, TypeInv, TypeOK, CallOK, CallOKOf, RecordPCs
  <2>2. k \in 1 .. MaxFrames /\ call[t].trace[k] \in Nat
    BY <2>1, TraceAssumption
  <2>3. sample_frames' \in [Slots -> Frames]
    BY <1>1, <2>2 DEF WriteFrame, TypeInv, TypeOK, Frames
  <2>7. pc' \in [Threads -> PCs]
    BY <1>1 DEF WriteFrame, TypeInv, TypeOK, PCs
  <2>8. pos' \in [Threads -> 0 .. MaxFrames]
    BY <1>1, <2>2 DEF WriteFrame, TypeInv, TypeOK
  <2>4. TypeOK'
    BY <1>1, <2>3, <2>7, <2>8 DEF WriteFrame, TypeInv, TypeOK
  <2>5. CallOK'
    <3>1. /\ pc[t] = "writeFrame" /\ pos'[t] = k /\ UNCHANGED <<call, row>>
          /\ pc'[t] = IF k = Len(call[t].trace) THEN "initCount" ELSE "writeFrame"
          /\ \A u \in Threads \ {t} : pc'[u] = pc[u] /\ pos'[u] = pos[u]
      BY <1>1 DEF WriteFrame, TypeInv, TypeOK
    <3>2. k # Len(call[t].trace) => k < Len(call[t].trace)
      BY <2>1
    <3>3. CallOKOf(t)'
      BY <3>1, <3>2 DEF TypeInv, CallOK, CallOKOf, InitPCs, RecordPCs, ReportPCs
    <3>4. QED BY <3>1, <3>3, CallMoves DEF TypeInv
  <2>6. QED BY <2>4, <2>5 DEF TypeInv
<1>2. CASE AddCount(t)
  <2>1. TypeOK'
    BY <1>2 DEF AddCount, TypeInv, TypeOK, PCs
  <2>2. CallOK'
    BY <1>2 DEF AddCount, TypeInv, TypeOK, CallOK, CallOKOf,
                InitPCs, RecordPCs, ReportPCs
  <2>3. QED BY <2>1, <2>2 DEF TypeInv
<1>3. pc[t] \in RecordPCs => call[t].size \in Nat
  BY SizeAssumption DEF TypeInv, CallOK, CallOKOf
<1>4. CASE InitBytes(t)
  <2>0. /\ pc[t] = "initBytes" /\ pc' = [pc EXCEPT ![t] = "publish"]
        /\ total_bytes' = [total_bytes EXCEPT ![idx[t]] = @ + call[t].size]
        /\ UNCHANGED <<init, hash, count, frame_count, sample_frames,
                       call, view, idx, pos, row, out, history>>
    BY <1>4 DEF InitBytes
  <2>1. TypeOK'
    <3>1. total_bytes' \in [Slots -> Nat] /\ pc' \in [Threads -> PCs]
      BY <1>3, <2>0 DEF TypeInv, TypeOK, PCs, RecordPCs
    <3>2. QED BY <2>0, <3>1 DEF TypeInv, TypeOK
  <2>2. CallOK'
    <3>1. pc'[t] = "publish" /\ \A u \in Threads \ {t} : pc'[u] = pc[u]
      BY <2>0 DEF TypeInv, TypeOK
    <3>2. CallOKOf(t)'
      BY <2>0, <3>1 DEF TypeInv, CallOK, CallOKOf, InitPCs, RecordPCs, ReportPCs
    <3>3. QED BY <2>0, <3>1, <3>2, CallMoves DEF TypeInv
  <2>3. QED BY <2>1, <2>2 DEF TypeInv
<1>5. CASE AddBytes(t)
  <2>1. total_bytes' \in [Slots -> Nat]
    <3>1. /\ pc[t] = "addBytes"
          /\ total_bytes' = [total_bytes EXCEPT ![idx[t]] = @ + call[t].size]
      BY <1>5 DEF AddBytes
    <3>2. call[t].size \in Nat
      BY <1>3, <3>1 DEF RecordPCs
    <3>3. total_bytes \in [Slots -> Nat]
      BY DEF TypeInv, TypeOK
    <3>4. idx[t] \in Slots
      BY DEF TypeInv, TypeOK
    <3>5. total_bytes[idx[t]] + call[t].size \in Nat
      BY <3>2, <3>3, <3>4
    <3>6. QED BY <3>1, <3>3, <3>5
  <2>2. QED BY <1>5, <2>1, LeaveType DEF AddBytes, TypeInv, TypeOK
<1>6. CASE Publish(t)
  <2>1. Len(call[t].trace) \in 0 .. MaxFrames
    BY <1>6, TraceAssumption DEF Publish, TypeInv, CallOK, CallOKOf, RecordPCs
  <2>2. frame_count' \in [Slots -> 0 .. MaxFrames]
    BY <1>6, <2>1 DEF Publish, TypeInv, TypeOK
  <2>3. QED BY <1>6, <2>2, LeaveType DEF Publish, TypeInv, TypeOK
<1>7. QED
  BY <1>1, <1>2, <1>4, <1>5, <1>6

LEMMA ReportType ==
    ASSUME TypeInv, NEW t \in Threads, Report(t)
    PROVE  TypeInv'
<1> USE DEF Goto, init, table, history
<1> 0 \in 0 .. MaxFrames /\ 0 \in Slots
  BY TraceAssumption, BucketAssumption DEF Slots
<1> NoRow \in Row
  BY DEF NoRow, Row, NoFrames, Frames
<1>1. ASSUME NextRow(t), pc[t] \in {"scanHash", "scanFrameCount", "loadBytes"},
             UNCHANGED <<init, table, call, view, history>>,
             out' \in [Threads -> Seq(Row)]
      PROVE  TypeInv'
  <2>1. idx' \in [Threads -> Slots]
    <3>1. idx[t] \in Slots /\ view[t].buckets \in {0, N}
      BY DEF TypeInv, TypeOK
    <3>2. idx[t] + 1 < view[t].buckets => idx[t] + 1 \in Slots
      BY <3>1, BucketAssumption DEF Slots
    <3>3. QED BY <1>1, <3>2 DEF NextRow, TypeInv, TypeOK
  <2>2. /\ row' \in [Threads -> Row]
        /\ pos' \in [Threads -> 0 .. MaxFrames]
        /\ pc' \in [Threads -> PCs]
    BY <1>1 DEF NextRow, TypeInv, TypeOK, PCs
  <2>3. TypeOK'
    BY <1>1, <2>1, <2>2 DEF TypeInv, TypeOK
  <2>4. CallOK'
    <3>1. /\ pc[t] \in ReportPCs /\ pc'[t] \in {"scanHash", "reported"}
          /\ pos'[t] = 0 /\ UNCHANGED call
          /\ \A u \in Threads \ {t} :
                pc'[u] = pc[u] /\ pos'[u] = pos[u] /\ row'[u] = row[u]
      BY <1>1 DEF NextRow, TypeInv, TypeOK, ReportPCs
    <3>2. CallOKOf(t)'
      BY <3>1 DEF TypeInv, CallOK, CallOKOf, InitPCs, RecordPCs, ReportPCs
    <3>3. QED BY <3>1, <3>2, CallMoves DEF TypeInv
  <2>5. QED BY <2>3, <2>4 DEF TypeInv
<1>2. CASE ScanHash(t)
  <2>1. CASE hash[idx[t]] = 0 /\ NextRow(t)
    BY <1>1, <1>2, <2>1 DEF ScanHash, TypeInv, TypeOK
  <2>2. CASE hash[idx[t]] # 0 /\ Goto(t, "scanFrameCount")
             /\ UNCHANGED <<idx, pos, row>>
    <3>1. TypeOK'
      BY <1>2, <2>2 DEF ScanHash, TypeInv, TypeOK, PCs
    <3>2. CallOK'
      BY <1>2, <2>2 DEF ScanHash, TypeInv, TypeOK, CallOK, CallOKOf,
                        InitPCs, RecordPCs, ReportPCs
    <3>3. QED BY <3>1, <3>2 DEF TypeInv
  <2>3. QED BY <1>2, <2>1, <2>2 DEF ScanHash
<1>3. CASE ScanFrameCount(t)
  <2>1. CASE frame_count[idx[t]] = 0 /\ NextRow(t)
    BY <1>1, <1>3, <2>1 DEF ScanFrameCount, TypeInv, TypeOK
  <2>2. CASE frame_count[idx[t]] # 0 /\ UNCHANGED <<idx, pos>>
    <3> DEFINE r == [row[t] EXCEPT !.slot = idx[t],
                                   !.frame_count = frame_count[idx[t]]]
    <3>1. /\ idx[t] \in Slots /\ row[t] \in Row
          /\ frame_count[idx[t]] \in 0 .. MaxFrames
      BY DEF TypeInv, TypeOK
    <3>2. r \in Row /\ r.frame_count = frame_count[idx[t]]
      BY <3>1 DEF Row
    <3>3. row' = [row EXCEPT ![t] = r] /\ pc' = [pc EXCEPT ![t] = "loadFrame"]
      BY <1>3, <2>2 DEF ScanFrameCount, TypeInv, TypeOK, Row
    <3>4. TypeOK'
      BY <1>3, <2>2, <3>2, <3>3 DEF ScanFrameCount, TypeInv, TypeOK, PCs
    <3>5. pos[t] = 0 /\ r.frame_count > 0
      BY <1>3, <2>2, <3>1, <3>2, TraceAssumption
         DEF ScanFrameCount, TypeInv, CallOK, CallOKOf
    <3>6. CallOK'
      BY <1>3, <2>2, <3>3, <3>5
         DEF ScanFrameCount, TypeInv, TypeOK, CallOK, CallOKOf,
             InitPCs, RecordPCs, ReportPCs
    <3>7. QED BY <3>4, <3>6 DEF TypeInv
  <2>3. QED BY <1>3, <2>1, <2>2 DEF ScanFrameCount
<1>4. CASE LoadFrame(t)
  <2> DEFINE k == pos[t] + 1
             r == [row[t] EXCEPT !.frames[k] = sample_frames[idx[t]][k]]
  <2>1. /\ idx[t] \in Slots /\ row[t] \in Row /\ pos[t] \in 0 .. MaxFrames
        /\ sample_frames[idx[t]] \in Frames
    BY DEF TypeInv, TypeOK
  <2>2. pos[t] < row[t].frame_count
    BY <1>4 DEF LoadFrame, TypeInv, CallOK, CallOKOf
  <2>3. k \in 1 .. MaxFrames
    BY <2>1, <2>2, TraceAssumption DEF Row
  <2>4. r \in Row /\ r.frame_count = row[t].frame_count
    BY <2>1, <2>3 DEF Row, Frames
  <2>5. row' = [row EXCEPT ![t] = r] /\ pos' = [pos EXCEPT ![t] = k]
    BY <1>4 DEF LoadFrame, TypeInv, TypeOK
  <2>6. pc' \in [Threads -> PCs]
    BY <1>4 DEF LoadFrame, TypeInv, TypeOK, PCs
  <2>7. TypeOK'
    <3>1. row' \in [Threads -> Row] /\ pos' \in [Threads -> 0 .. MaxFrames]
      <4>1. row \in [Threads -> Row] /\ pos \in [Threads -> 0 .. MaxFrames]
        BY DEF TypeInv, TypeOK
      <4> HIDE DEF k, r
      <4>2. QED BY <2>3, <2>4, <2>5, <4>1
    <3>2. UNCHANGED <<init, table, call, view, idx, out, history>>
      BY <1>4 DEF LoadFrame
    <3>3. QED BY <2>6, <3>1, <3>2 DEF TypeInv, TypeOK
  <2>8. row[t].frame_count \in Nat /\ k \in Nat
    BY <2>1, <2>3, TraceAssumption DEF Row
  <2>9. k # row[t].frame_count => k < row[t].frame_count
    BY <2>1, <2>2, <2>8
  <2>11. /\ row'[t].frame_count = row[t].frame_count
         /\ pos'[t] = k /\ UNCHANGED call
         /\ pc'[t] = IF k = row[t].frame_count THEN "loadCount"
                                                ELSE "loadFrame"
         /\ \A u \in Threads \ {t} : /\ row'[u] = row[u] /\ pos'[u] = pos[u]
                                     /\ pc'[u] = pc[u]
    BY <1>4, <2>4, <2>5 DEF LoadFrame, TypeInv, TypeOK
  <2>12. CallOK'
    BY <1>4, <2>9, <2>11
       DEF LoadFrame, TypeInv, CallOK, CallOKOf, InitPCs, RecordPCs, ReportPCs
  <2>10. QED BY <2>7, <2>12 DEF TypeInv
<1>5. CASE LoadCount(t)
  <2> DEFINE r == [row[t] EXCEPT !.count = count[idx[t]]]
  <2>1. row[t] \in Row /\ count[idx[t]] \in Nat
    BY DEF TypeInv, TypeOK
  <2>2. r \in Row
    BY <2>1 DEF Row
  <2>3. row' = [row EXCEPT ![t] = r]
    BY <1>5 DEF LoadCount, TypeInv, TypeOK
  <2>4. TypeOK'
    BY <1>5, <2>2, <2>3 DEF LoadCount, TypeInv, TypeOK, PCs
  <2>5. CallOK'
    BY <1>5, <2>3 DEF LoadCount, TypeInv, TypeOK, CallOK, CallOKOf,
                      InitPCs, RecordPCs, ReportPCs
  <2>6. QED BY <2>4, <2>5 DEF TypeInv
<1>6. CASE LoadBytes(t)
  <2> DEFINE r == [row[t] EXCEPT !.total_bytes = total_bytes[idx[t]]]
  <2>1. row[t] \in Row /\ total_bytes[idx[t]] \in Nat /\ out[t] \in Seq(Row)
    BY DEF TypeInv, TypeOK
  <2>2. r \in Row
    BY <2>1 DEF Row
  <2>3. Append(out[t], r) \in Seq(Row)
    BY <2>1, <2>2
  <2>4. out' \in [Threads -> Seq(Row)]
    BY <1>6, <2>3 DEF LoadBytes, TypeInv, TypeOK
  <2>5. QED BY <1>1, <1>6, <2>4 DEF LoadBytes
<1>7. CASE TakeReport(t)
  <2>1. NoCall \in [op : {"none", "record", "report"},
                    trace : Traces \union {<< >>}, size : Sizes \union {0}]
    BY DEF NoCall
  <2>2. NoView \in [buckets : {0, N}, mask : {0, N - 1}]
    BY DEF NoView
  <2>6. /\ call' \in [Threads -> [op : {"none", "record", "report"},
                                   trace : Traces \union {<< >>},
                                   size : Sizes \union {0}]]
        /\ view' \in [Threads -> [buckets : {0, N}, mask : {0, N - 1}]]
    BY <1>7, <2>1, <2>2 DEF TakeReport, TypeInv, TypeOK
  <2>7. /\ pc' \in [Threads -> PCs]
        /\ idx' \in [Threads -> Slots]
        /\ out' \in [Threads -> Seq(Row)]
    <3>1. /\ pc \in [Threads -> PCs] /\ idx \in [Threads -> Slots]
          /\ out \in [Threads -> Seq(Row)]
      BY DEF TypeInv, TypeOK
    <3>4. "idle" \in PCs /\ << >> \in Seq(Row)
      BY DEF PCs
    <3>2. /\ pc' = [pc EXCEPT ![t] = "idle"]
          /\ idx' = [idx EXCEPT ![t] = 0]
          /\ out' = [out EXCEPT ![t] = << >>]
      BY <1>7 DEF TakeReport
    <3>3. QED BY <3>1, <3>2, <3>4
  <2>3. TypeOK'
    <3>1. UNCHANGED <<init, table, pos, row, calls, shortClaim>>
      BY <1>7 DEF TakeReport
    <3>2. QED BY <2>6, <2>7, <3>1 DEF TypeInv, TypeOK
  <2>4. CallOK'
    BY <1>7 DEF TakeReport, NoCall, TypeInv, TypeOK, CallOK, CallOKOf,
                InitPCs, RecordPCs, ReportPCs
  <2>5. QED BY <2>3, <2>4 DEF TypeInv
<1>8. QED
  BY <1>2, <1>3, <1>4, <1>5, <1>6, <1>7 DEF Report

LEMMA ResetType ==
    ASSUME TypeInv, NEW t \in Threads, Reset(t)
    PROVE  TypeInv'
<1>1. NoFrames \in Frames /\ 0 \in 0 .. MaxFrames
  BY TraceAssumption DEF NoFrames, Frames
<1>2. calls' \in 0 .. MaxCalls
  BY BoundAssumption DEF Reset, TypeInv, TypeOK
<1>7. shortClaim' \in BOOLEAN
  BY DEF Reset
<1>3. /\ TABLE_BASE' \in Threads \union {Null}
      /\ TABLE_BUCKETS' \in {0, N} /\ TABLE_MASK' \in {0, N - 1}
      /\ mapped' \subseteq Threads
  BY DEF Reset, init, TypeInv, TypeOK
<1>4. TypeOK'
  BY <1>1, <1>2, <1>3, <1>7 DEF Reset, locals, TypeInv, TypeOK
<1>5. CallOK'
  BY DEF Reset, locals, TypeInv, CallOK, CallOKOf
<1>6. QED BY <1>4, <1>5 DEF TypeInv

LEMMA NextType == TypeInv /\ [Next]_vars => TypeInv'
<1> SUFFICES ASSUME TypeInv, [Next]_vars PROVE TypeInv'
  OBVIOUS
<1>1. CASE UNCHANGED vars
  BY <1>1 DEF vars, init, table, locals, history, TypeInv, TypeOK, CallOK, CallOKOf
<1>2. ASSUME NEW t \in Threads, Step(t) PROVE TypeInv'
  <2>1. CASE EnsureInit(t)
    BY <2>1, EnsureInitType
  <2>2. CASE Record(t)
    BY <2>2, ProbeType, CountType DEF Record
  <2>3. CASE Report(t)
    BY <2>3, ReportType
  <2>4. QED BY <1>2, <2>1, <2>2, <2>3 DEF Step
<1>3. QED
  BY <1>1, <1>2, BeginRecordType, BeginReportType, ResetType DEF Next, Rest

\* Every variable keeps its type; the index a thread hands to base.add stays
\* inside the table, for any number of buckets (table.rs:176, 250).
THEOREM TypeSafety == Spec => []TypeOK
<1>1. TypeInv => TypeOK
  BY DEF TypeInv
<1>2. QED
  BY <1>1, InitType, NextType, PTL DEF Spec

-----------------------------------------------------------------------------
(* Rows are unique.  The slots that linear probing visits before slot i when *)
(* it starts at slot h, going round the end of the table.                    *)
Path(h, i) == {j \in Slots : IF h <= i THEN h <= j /\ j < i
                                       ELSE h <= j \/ j < i}

\* A thread with the whole mask has seen every slot it passed taken by others;
\* one with mask 0 looks at bucket 0 only.
ProbeInv ==
    \A t \in Threads : pc[t] \in {"probe", "claim"} =>
       /\ view[t].mask = 0 => idx[t] = 0
       /\ view[t].mask # 0 =>
             \A j \in Path(Start(t), idx[t]) : hash[j] \notin {0, HashOf(t)}

\* A taken slot can be reached from its hash's home slot through slots taken by
\* others, unless it is bucket 0 and was claimed with mask 0.
ReachInv ==
    \A i \in Slots : hash[i] # 0 =>
       \/ i = 0 /\ shortClaim
       \/ \A j \in Path(And(hash[i], N - 1), i) : hash[j] \notin {0, hash[i]}

TableInv == TypeInv /\ ProbeInv /\ ReachInv

\* One step of a probe goes to the next slot, or from the last to the first.
LEMMA NextSlot ==
    ASSUME NEW i \in Slots
    PROVE  And(i + 1, N - 1) = IF i = N - 1 THEN 0 ELSE i + 1
<1>1. CASE i = N - 1
  BY <1>1, BucketAssumption DEF And
<1>2. CASE i # N - 1
  <2>1. i + 1 \in 0 .. N - 1
    BY <1>2, BucketAssumption DEF Slots
  <2>2. QED BY <1>2, <2>1, BucketAssumption DEF And
<1>3. QED BY <1>1, <1>2

\* A step that is not back at the start adds the slot it leaves to the path;
\* one that is has been everywhere.
LEMMA PathGrows ==
    ASSUME NEW h \in Slots, NEW i \in Slots
    PROVE  LET n == And(i + 1, N - 1) IN
           /\ n # h => Path(h, n) \subseteq Path(h, i) \union {i}
           /\ n = h => Slots \subseteq Path(h, i) \union {i}
BY NextSlot, BucketAssumption DEF Path, Slots

LEMMA PathEmpty == \A h \in Slots : Path(h, h) = {}
BY BucketAssumption DEF Path, Slots

\* Of two slots, each probe sequence that reaches the later passes the earlier.
LEMMA PathsMeet ==
    ASSUME NEW h \in Slots, NEW i \in Slots, NEW j \in Slots, i # j
    PROVE  i \in Path(h, j) \/ j \in Path(h, i)
BY BucketAssumption DEF Path, Slots

LEMMA TableInvUnique == TableInv => DuplicatesOnlyAtZero
<1> SUFFICES ASSUME TableInv, NEW i \in Slots, NEW j \in Slots,
                    i < j, hash[i] # 0, hash[i] = hash[j]
             PROVE  i = 0 /\ shortClaim
  BY DEF DuplicatesOnlyAtZero
<1> DEFINE h == And(hash[i], N - 1)
<1>1. h \in Slots
  BY AndType DEF TableInv, TypeInv, TypeOK
<1>2. j # 0 /\ i # j
  BY BucketAssumption DEF Slots
<1>3. i \in Path(h, j) \/ j \in Path(h, i)
  BY <1>1, <1>2, PathsMeet
<1>4. QED
  BY <1>2, <1>3 DEF TableInv, ReachInv

LEMMA InitTable == Init => TableInv
BY InitType DEF Init, TableInv, ProbeInv, ReachInv

\* What leaves the hashes alone and moves no prober keeps the invariant.
LEMMA TableStable ==
    ASSUME TableInv, UNCHANGED <<hash, shortClaim>>,
           \A u \in Threads : pc'[u] \in {"probe", "claim"} =>
              /\ pc[u] \in {"probe", "claim"}
              /\ call'[u] = call[u] /\ view'[u] = view[u] /\ idx'[u] = idx[u]
    PROVE  ProbeInv' /\ ReachInv'
BY DEF TableInv, ProbeInv, ReachInv, Start, HashOf, Path

\* The thread that has just entered starts at its home slot.
LEMMA EnterTable ==
    ASSUME TableInv, NEW t \in Threads, NEW b \in {0, N}, NEW m \in {0, N - 1},
           Enter(t, b, m), UNCHANGED <<hash, shortClaim>>,
           pc[t] \in {"loadMask", "storeMask"}
    PROVE  ProbeInv' /\ ReachInv'
<1>1. ReachInv'
  BY DEF TableInv, ReachInv, Path
<1>2. ASSUME NEW u \in Threads \ {t}, pc'[u] \in {"probe", "claim"}
      PROVE  /\ pc[u] = pc'[u] /\ call'[u] = call[u]
             /\ view'[u] = view[u] /\ idx'[u] = idx[u]
  BY <1>2 DEF Enter, Goto, TableInv, TypeInv, TypeOK
<1>3. ASSUME pc'[t] \in {"probe", "claim"}
      PROVE  /\ view'[t].mask = m /\ call'[t] = call[t]
             /\ idx'[t] = And(HashOf(t), m) /\ HashOf(t) \in Nat
  <2>1. call[t].op = "record"
    BY <1>3 DEF Enter, Goto, TableInv, TypeInv, TypeOK
  <2>2. HashOf(t) \in Nat
    BY <2>1, HashAssumption DEF HashOf, TableInv, TypeInv, CallOK, CallOKOf
  <2>3. QED BY <1>3, <2>1, <2>2 DEF Enter, TableInv, TypeInv, TypeOK
<1>4. ASSUME pc'[t] \in {"probe", "claim"}
      PROVE  /\ m = 0 => idx'[t] = 0
             /\ Path(Start(t), idx[t])' = {}
  <2>1. Start(t)' = idx'[t]
    BY <1>3, <1>4 DEF Start, HashOf
  <2>2. And(HashOf(t), m) \in Slots /\ (m = 0 => And(HashOf(t), m) = 0)
    BY <1>3, <1>4, AndType
  <2>3. QED BY <1>3, <1>4, <2>1, <2>2, PathEmpty DEF Path
<1>5. ProbeInv'
  <2> SUFFICES ASSUME NEW u \in Threads, pc'[u] \in {"probe", "claim"}
               PROVE  /\ view'[u].mask = 0 => idx'[u] = 0
                      /\ view'[u].mask # 0 =>
                           \A j \in Path(Start(u), idx[u])' :
                              hash'[j] \notin {0, HashOf(u)'}
    BY DEF ProbeInv
  <2>1. CASE u = t
    BY <1>3, <1>4, <2>1
  <2>2. CASE u # t
    BY <1>2, <2>2 DEF TableInv, ProbeInv, Start, HashOf, Path
  <2>3. QED BY <2>1, <2>2
<1>6. QED BY <1>1, <1>5

\* A prober passes a slot taken by another hash.
LEMMA AdvanceTable ==
    ASSUME TableInv, NEW t \in Threads, Advance(t), pc[t] \in {"probe", "claim"},
           hash[idx[t]] \notin {0, HashOf(t)}, UNCHANGED <<hash, shortClaim>>
    PROVE  ProbeInv' /\ ReachInv'
<1> DEFINE next == And(idx[t] + 1, view[t].mask)
<1>1. ReachInv'
  BY DEF TableInv, ReachInv, Path
<1>2. CASE GiveUp(t)
  BY <1>2, TableStable DEF GiveUp, Leave, Goto, TableInv, TypeInv, TypeOK
<1>3. CASE /\ next # Start(t)
           /\ idx' = [idx EXCEPT ![t] = next] /\ Goto(t, "probe")
           /\ UNCHANGED <<call, view, pos, row, out, owed>>
  <2>1. /\ HashOf(t) \in Nat /\ idx[t] \in Slots /\ view[t].mask \in {0, N - 1}
        /\ idx'[t] = next
    BY <1>3, HashAssumption
       DEF HashOf, TableInv, TypeInv, TypeOK, CallOK, CallOKOf, RecordPCs
  <2>2. view[t].mask = 0 => next = 0
    BY <2>1 DEF And, Slots
  <2>3. Start(t) \in Slots
    BY <2>1, AndType DEF Start
  <2>4. view[t].mask # 0 => Path(Start(t), next)
                                 \subseteq Path(Start(t), idx[t]) \union {idx[t]}
    BY <1>3, <2>1, <2>3, PathGrows
  <2>5. view[t].mask # 0 => \A j \in Path(Start(t), next) :
                               hash[j] \notin {0, HashOf(t)}
    BY <2>4 DEF TableInv, ProbeInv
  <2> SUFFICES ASSUME NEW u \in Threads, pc'[u] \in {"probe", "claim"}
               PROVE  /\ view'[u].mask = 0 => idx'[u] = 0
                      /\ view'[u].mask # 0 =>
                           \A j \in Path(Start(u), idx[u])' :
                              hash'[j] \notin {0, HashOf(u)'}
    BY <1>1 DEF ProbeInv
  <2>6. CASE u = t
    BY <1>3, <2>1, <2>2, <2>5, <2>6 DEF Start, HashOf, Path
  <2>7. CASE u # t
    <3>1. pc'[u] = pc[u] /\ idx'[u] = idx[u] /\ UNCHANGED <<call, view, hash>>
      BY <1>3, <2>7 DEF Goto, TableInv, TypeInv, TypeOK
    <3>2. QED BY <3>1 DEF TableInv, ProbeInv, Start, HashOf, Path
  <2>8. QED BY <2>6, <2>7
<1>4. QED BY <1>2, <1>3 DEF Advance

\* The slot that a claim takes was free: no path that anyone relies on
\* goes through it.
LEMMA ClaimTable ==
    ASSUME TableInv, NEW t \in Threads, Claim(t)
    PROVE  ProbeInv' /\ ReachInv'
<1> DEFINE h == HashOf(t)
           i == idx[t]
<1>1. /\ i \in Slots /\ h \in Nat \ {0} /\ hash[i] = 0
      /\ hash' = [hash EXCEPT ![i] = h] /\ view[t].mask \in {0, N - 1}
      /\ shortClaim' = (shortClaim \/ view[t].mask = 0)
  BY HashAssumption DEF Claim, HashOf, TableInv, TypeInv, TypeOK, CallOK, CallOKOf,
                        RecordPCs
<1>2. \A j \in Slots : hash[j] # 0 => hash'[j] = hash[j]
  BY <1>1 DEF TableInv, TypeInv, TypeOK
<1>3. ProbeInv'
  <2> SUFFICES ASSUME NEW u \in Threads, pc'[u] \in {"probe", "claim"}
               PROVE  /\ view'[u].mask = 0 => idx'[u] = 0
                      /\ view'[u].mask # 0 =>
                           \A j \in Path(Start(u), idx[u])' :
                              hash'[j] \notin {0, HashOf(u)'}
    BY DEF ProbeInv
  <2>1. pc[u] = pc'[u] /\ UNCHANGED <<call, view, idx>>
    BY DEF Claim, Goto, TableInv, TypeInv, TypeOK
  <2>2. QED
    BY <1>2, <2>1 DEF TableInv, ProbeInv, Start, HashOf, Path
<1>4. ReachInv'
  <2> SUFFICES ASSUME NEW k \in Slots, hash'[k] # 0
               PROVE  \/ k = 0 /\ shortClaim'
                      \/ \A j \in Path(And(hash'[k], N - 1), k) :
                            hash'[j] \notin {0, hash'[k]}
    BY DEF ReachInv, Path, And, Slots
  <2>1. CASE k = i
    <3>1. hash'[k] = h
      BY <1>1, <2>1 DEF TableInv, TypeInv, TypeOK
    <3>2. CASE view[t].mask = 0
      BY <1>1, <2>1, <3>2 DEF Claim, TableInv, ProbeInv
    <3>3. CASE view[t].mask = N - 1 /\ view[t].mask # 0
      <4>1. \A j \in Path(And(h, N - 1), i) : hash[j] \notin {0, h}
        BY <3>3 DEF Claim, TableInv, ProbeInv, Start
      <4>2. Path(And(h, N - 1), i) \subseteq Slots
        BY DEF Path
      <4>3. QED BY <1>2, <2>1, <3>1, <4>1, <4>2
    <3>4. QED BY <1>1, <3>2, <3>3
  <2>2. CASE k # i
    <3>1. hash'[k] = hash[k]
      BY <1>1, <2>2 DEF TableInv, TypeInv, TypeOK
    <3>2. \/ k = 0 /\ shortClaim
          \/ \A j \in Path(And(hash[k], N - 1), k) : hash[j] \notin {0, hash[k]}
      BY <3>1 DEF TableInv, ReachInv
    <3>3. Path(And(hash[k], N - 1), k) \subseteq Slots
      BY DEF Path
    <3>4. QED BY <1>1, <1>2, <3>1, <3>2, <3>3
  <2>3. QED BY <2>1, <2>2
<1>5. QED BY <1>3, <1>4

LEMMA NextTable == TableInv /\ [Next]_vars => TableInv'
<1> SUFFICES ASSUME TableInv, [Next]_vars PROVE ProbeInv' /\ ReachInv'
  BY NextType DEF TableInv
<1> USE DEF Goto, init, table, history, TableInv, TypeInv, TypeOK
<1>1. CASE UNCHANGED vars
  BY <1>1, TableStable DEF vars, locals
<1>2. ASSUME NEW t \in Threads, BeginRecord(t) \/ BeginReport(t)
      PROVE  ProbeInv' /\ ReachInv'
  BY <1>2, TableStable DEF BeginRecord, BeginReport
<1>3. ASSUME NEW t \in Threads, Reset(t) PROVE ProbeInv' /\ ReachInv'
  BY <1>3 DEF Reset, locals, ProbeInv, ReachInv
<1>4. ASSUME NEW t \in Threads, EnsureInit(t) PROVE ProbeInv' /\ ReachInv'
  <2>1. CASE LoadBase(t) \/ LoadBuckets(t) \/ AllocPages(t) \/ CasBase(t)
             \/ StoreBuckets(t) \/ FreePages(t) \/ AwaitBuckets(t)
    <3>1. /\ UNCHANGED <<hash, shortClaim, call, idx>>
          /\ pc[t] \notin {"probe", "claim"} /\ pc'[t] \notin {"probe", "claim"}
          /\ \A u \in Threads \ {t} : pc'[u] = pc[u] /\ view'[u] = view[u]
      BY <2>1 DEF LoadBase, LoadBuckets, AllocPages, CasBase, StoreBuckets,
                  FreePages, AwaitBuckets
    <3>2. QED BY <3>1, TableStable
  <2>2. CASE AllocPagesFails(t)
    <3>1. /\ UNCHANGED <<hash, shortClaim>>
          /\ pc'[t] \notin {"probe", "claim"}
          /\ \A u \in Threads \ {t} : /\ pc'[u] = pc[u] /\ view'[u] = view[u]
                                      /\ call'[u] = call[u] /\ idx'[u] = idx[u]
      BY <2>2 DEF AllocPagesFails, GiveUp, Leave
    <3>2. QED BY <3>1, TableStable
  <2>3. CASE LoadMask(t) \/ StoreMask(t)
    BY <2>3, EnterTable, BucketAssumption DEF LoadMask, StoreMask
  <2>4. QED BY <1>4, <2>1, <2>2, <2>3 DEF EnsureInit
<1>5. ASSUME NEW t \in Threads, Record(t) PROVE ProbeInv' /\ ReachInv'
  <2>1. CASE Probe(t) \/ ClaimLost(t)
    <3>1. CASE Advance(t) /\ hash[idx[t]] \notin {0, HashOf(t)}
      BY <2>1, <3>1, AdvanceTable DEF Probe, ClaimLost
    <3>2. CASE \E where \in {"claim", "addCount"} :
                  /\ pc[t] \in {"probe", "claim"} /\ Goto(t, where)
                  /\ UNCHANGED <<hash, shortClaim, call, view, idx>>
      BY <3>2, TableStable
    <3>3. QED BY <2>1, <3>1, <3>2 DEF Probe, ClaimLost
  <2>2. CASE Claim(t)
    BY <2>2, ClaimTable
  <2>3. CASE WriteFrame(t) \/ AddCount(t) \/ InitBytes(t)
    BY <2>3, TableStable DEF WriteFrame, AddCount, InitBytes
  <2>4. CASE AddBytes(t) \/ Publish(t)
    <3>1. /\ UNCHANGED <<hash, shortClaim>>
          /\ pc'[t] \notin {"probe", "claim"}
          /\ \A u \in Threads \ {t} : /\ pc'[u] = pc[u] /\ view'[u] = view[u]
                                      /\ call'[u] = call[u] /\ idx'[u] = idx[u]
      BY <2>4 DEF AddBytes, Publish, Leave
    <3>2. QED BY <3>1, TableStable
  <2>5. QED BY <1>5, <2>1, <2>2, <2>3, <2>4 DEF Record
<1>6. ASSUME NEW t \in Threads, Report(t) PROVE ProbeInv' /\ ReachInv'
  <2>1. /\ UNCHANGED <<hash, shortClaim>>
        /\ pc'[t] \notin {"probe", "claim"}
        /\ \A u \in Threads \ {t} : /\ pc'[u] = pc[u] /\ view'[u] = view[u]
                                    /\ call'[u] = call[u] /\ idx'[u] = idx[u]
    <3>1. CASE ScanHash(t) \/ ScanFrameCount(t) \/ LoadBytes(t)
      <4>1. /\ UNCHANGED <<hash, shortClaim, call, view>>
            /\ \E where \in {"scanHash", "scanFrameCount", "loadFrame", "reported"} :
                  pc' = [pc EXCEPT ![t] = where]
        BY <3>1 DEF ScanHash, ScanFrameCount, LoadBytes, NextRow
      <4>2. UNCHANGED idx \/ idx' = [idx EXCEPT ![t] = @ + 1]
        BY <3>1 DEF ScanHash, ScanFrameCount, LoadBytes, NextRow
      <4>3. QED BY <4>1, <4>2
    <3>2. CASE LoadFrame(t) \/ LoadCount(t)
      <4>1. /\ UNCHANGED <<hash, shortClaim, call, view, idx>>
            /\ \E where \in {"loadFrame", "loadCount", "loadBytes"} :
                  pc' = [pc EXCEPT ![t] = where]
        BY <3>2 DEF LoadFrame, LoadCount
      <4>2. QED BY <4>1
    <3>3. CASE TakeReport(t)
      BY <3>3 DEF TakeReport
    <3>4. QED BY <1>6, <3>1, <3>2, <3>3 DEF Report
  <2>2. QED BY <2>1, TableStable
<1>7. QED
  BY <1>1, <1>2, <1>3, <1>4, <1>5, <1>6 DEF Next, Step, Rest

LEMMA TableInvariance == Spec => []TableInv
BY InitTable, NextTable, PTL DEF Spec

\* A site has at most one row besides the one that a thread with mask 0 may
\* have made in bucket 0: whatever the threads do, two threads that both hold
\* the real mask never give one hash two buckets (table.rs:171-234).
THEOREM UniqueRows == Spec => []DuplicatesOnlyAtZero
BY TableInvariance, TableInvUnique, PTL

LEMMA DropFull ==
    ASSUME TableInv, NEW t \in Threads, Advance(t), pc'[t] = "idle",
           hash[idx[t]] \notin {0, HashOf(t)}, pc[t] \in {"probe", "claim"},
           view[t].mask # 0
    PROVE  FullFor(HashOf(t))
<1>1. /\ HashOf(t) \in Nat /\ idx[t] \in Slots /\ view[t].mask = N - 1
  BY HashAssumption DEF HashOf, TableInv, TypeInv, TypeOK, CallOK, CallOKOf, RecordPCs
<1>2. Start(t) \in Slots
  BY <1>1, AndType DEF Start
<1>3. And(idx[t] + 1, N - 1) = Start(t)
  BY <1>1 DEF Advance, Goto, TableInv, TypeInv, TypeOK
<1>4. Slots \subseteq Path(Start(t), idx[t]) \union {idx[t]}
  BY <1>1, <1>2, <1>3, PathGrows
<1>5. QED
  BY <1>4 DEF FullFor, TableInv, ProbeInv

\* A thread that holds the real mask drops an event only when the table is
\* full of other sites at that moment, although it looked at each bucket at a
\* different one (table.rs:229-233).
THEOREM DropsAreJustified == Spec => WideDropOnlyWhenFull
<1>1. TableInv /\ [Next]_vars =>
         [\A t \in Threads :
             Drops(t) /\ view[t].mask # 0 => FullFor(HashOf(t))]_vars
  <2> SUFFICES ASSUME TableInv, Next, NEW t \in Threads,
                      Drops(t), view[t].mask # 0
               PROVE  FullFor(HashOf(t))
    OBVIOUS
  <2>1. pc[t] \in {"probe", "claim"} /\ pc'[t] = "idle"
    BY DEF Drops
  <2>2. Probe(t) \/ ClaimLost(t)
    <3>1. pc \in [Threads -> PCs]
      BY DEF TableInv, TypeInv, TypeOK
    <3>3. ASSUME NEW u \in Threads, BeginRecord(u) \/ BeginReport(u)
          PROVE  FALSE
      BY <2>1, <3>1, <3>3 DEF BeginRecord, BeginReport, Goto
    <3>4. ASSUME NEW u \in Threads, Reset(u) PROVE FALSE
      BY <2>1, <3>4 DEF Reset
    <3>5. ASSUME NEW u \in Threads, EnsureInit(u) PROVE FALSE
      BY <2>1, <3>1, <3>5
         DEF EnsureInit, LoadBase, LoadBuckets, LoadMask, AllocPages,
             AllocPagesFails, CasBase, StoreBuckets, StoreMask, FreePages,
             AwaitBuckets, Enter, GiveUp, Leave, Goto
    <3>6. ASSUME NEW u \in Threads, Report(u) PROVE FALSE
      BY <2>1, <3>1, <3>6
         DEF Report, ScanHash, ScanFrameCount, LoadFrame, LoadCount,
             LoadBytes, TakeReport, NextRow, Goto
    <3>7. ASSUME NEW u \in Threads, Record(u) PROVE Probe(t) \/ ClaimLost(t)
      <4>1. CASE Probe(u)
        BY <2>1, <3>1, <4>1 DEF Probe, Advance, GiveUp, Leave, Goto
      <4>2. CASE ClaimLost(u)
        BY <2>1, <3>1, <4>2 DEF ClaimLost, Advance, GiveUp, Leave, Goto
      <4>3. CASE \/ Claim(u) \/ WriteFrame(u) \/ AddCount(u) \/ InitBytes(u)
                 \/ AddBytes(u) \/ Publish(u)
        BY <2>1, <3>1, <4>3
           DEF Claim, WriteFrame, AddCount, InitBytes, AddBytes, Publish,
               Leave, Goto
      <4>4. QED BY <3>7, <4>1, <4>2, <4>3 DEF Record
    <3>8. QED BY <2>1, <3>3, <3>4, <3>5, <3>6, <3>7 DEF Next, Step, Rest,
                 vars, locals
  <2>3. Advance(t) /\ hash[idx[t]] \notin {0, HashOf(t)}
    BY <2>1, <2>2 DEF Probe, ClaimLost, Goto, TableInv, TypeInv, TypeOK
  <2>4. QED BY <2>1, <2>3, DropFull
<1>2. QED
  BY <1>1, TableInvariance, PTL DEF Spec, WideDropOnlyWhenFull

-----------------------------------------------------------------------------
(* The pages.                                                               *)
PagesInv ==
    /\ TABLE_BASE # Null => TABLE_BASE \in mapped
    /\ \A t \in Threads :
          /\ pc[t] \in {"casBase", "freePages"} => t \in mapped
          /\ pc[t] \in {"allocPages", "casBase", "freePages"}
                => t # TABLE_BASE
    /\ \A t \in mapped : t = TABLE_BASE \/ pc[t] \in {"casBase", "freePages"}

LEMMA NextPages == TypeInv /\ PagesInv /\ [Next]_vars => PagesInv'
<1> SUFFICES ASSUME TypeInv, PagesInv, [Next]_vars PROVE PagesInv'
  OBVIOUS
<1> USE NullAssumption
    DEF Goto, init, table, history, TypeInv, TypeOK, PagesInv
<1>1. CASE UNCHANGED vars
  BY <1>1 DEF vars, locals
<1>2. ASSUME NEW t \in Threads, BeginRecord(t) \/ BeginReport(t)
      PROVE  PagesInv'
  BY <1>2 DEF BeginRecord, BeginReport
<1>3. ASSUME NEW t \in Threads, Reset(t) PROVE PagesInv'
  BY <1>3 DEF Reset, locals
<1>4. ASSUME NEW t \in Threads, EnsureInit(t) PROVE PagesInv'
  <2>1. CASE LoadBase(t) \/ LoadBuckets(t) \/ StoreBuckets(t)
             \/ AwaitBuckets(t)
    BY <2>1 DEF LoadBase, LoadBuckets, StoreBuckets, AwaitBuckets
  <2>2. CASE AllocPages(t)
    BY <2>2 DEF AllocPages
  <2>3. CASE CasBase(t)
    <3>1. CASE TABLE_BASE = Null /\ TABLE_BASE' = t /\ Goto(t, "storeBuckets")
      <4>1. mapped = {u \in mapped : pc[u] \in {"casBase", "freePages"}}
        BY <3>1
      <4>2. t \in mapped /\ mapped' = mapped
        BY <2>3 DEF CasBase
      <4>3. \A u \in Threads \ {t} : pc'[u] = pc[u]
        BY <3>1
      <4>4. pc'[t] = "storeBuckets"
        BY <3>1
      <4>5. QED BY <3>1, <4>1, <4>2, <4>3, <4>4
    <3>2. CASE TABLE_BASE # Null /\ UNCHANGED TABLE_BASE
               /\ Goto(t, "freePages")
      BY <2>3, <3>2 DEF CasBase
    <3>3. QED BY <2>3, <3>1, <3>2 DEF CasBase
  <2>4. CASE FreePages(t)
    BY <2>4 DEF FreePages
  <2>5. CASE LoadMask(t) \/ StoreMask(t)
    BY <2>5 DEF LoadMask, StoreMask, Enter
  <2>6. CASE AllocPagesFails(t)
    BY <2>6 DEF AllocPagesFails, GiveUp, Leave
  <2>7. QED
    BY <1>4, <2>1, <2>2, <2>3, <2>4, <2>5, <2>6 DEF EnsureInit
<1>5. ASSUME NEW t \in Threads, Record(t) \/ Report(t) PROVE PagesInv'
  <2>1. /\ UNCHANGED init
        /\ pc[t] \notin InitPCs /\ pc'[t] \notin InitPCs
        /\ \A u \in Threads \ {t} : pc'[u] = pc[u]
    <3>1. CASE Probe(t)
      BY <3>1 DEF Probe, Advance, GiveUp, Leave, InitPCs
    <3>7. CASE ClaimLost(t)
      BY <3>7 DEF ClaimLost, Advance, GiveUp, Leave, InitPCs
    <3>2. CASE Claim(t) \/ InitBytes(t)
      BY <3>2 DEF Claim, InitBytes, InitPCs
    <3>8. CASE WriteFrame(t)
      BY <3>8 DEF WriteFrame, InitPCs
    <3>9. CASE AddCount(t)
      BY <3>9 DEF AddCount, InitPCs
    <3>3. CASE AddBytes(t) \/ Publish(t)
      BY <3>3 DEF AddBytes, Publish, Leave, InitPCs
    <3>4. CASE ScanHash(t)
      BY <3>4 DEF ScanHash, NextRow, InitPCs
    <3>10. CASE ScanFrameCount(t)
      BY <3>10 DEF ScanFrameCount, NextRow, InitPCs
    <3>11. CASE LoadBytes(t)
      BY <3>11 DEF LoadBytes, NextRow, InitPCs
    <3>5. CASE LoadFrame(t) \/ LoadCount(t) \/ TakeReport(t)
      BY <3>5 DEF LoadFrame, LoadCount, TakeReport, InitPCs
    <3>6. QED BY <1>5, <3>1, <3>2, <3>3, <3>4, <3>5, <3>7, <3>8, <3>9, <3>10, <3>11
              DEF Record, Report
  <2>2. QED BY <2>1 DEF InitPCs
<1>6. QED
  BY <1>1, <1>2, <1>3, <1>4, <1>5 DEF Next, Step, Rest

\* However many threads race to create the table, the pages that were
\* published stay mapped and the losers' are freed (table.rs:122-149).
THEOREM PagesSafety == Spec => []PagesMapped
<1>1. Init => PagesInv
  BY DEF Init, PagesInv
<1>2. PagesInv => PagesMapped
  BY DEF PagesInv, PagesMapped
<1>3. QED
  BY <1>1, <1>2, InitType, NextType, NextPages, PTL DEF Spec

-----------------------------------------------------------------------------
(* What a report has.                                                        *)

ScanPCs == {"scanHash", "scanFrameCount", "loadFrame", "loadCount", "loadBytes"}

\* What was published when a report began is published still, and has not
\* counted less since; only a report remembers anything.
Kept(t) ==
    /\ call[t].op # "report" => DOMAIN before[t] = {}
    /\ \A i \in DOMAIN before[t] :
          /\ i \in Slots /\ hash[i] # 0 /\ frame_count[i] # 0
          /\ before[t][i].events \in Nat /\ before[t][i].events <= count[i]
          /\ before[t][i].bytes \in Nat /\ before[t][i].bytes <= total_bytes[i]

\* A report starts from nothing, and only scans a table whose size it knows.
Fresh(t) ==
    /\ pc[t] \notin ReportPCs => out[t] = << >>
    /\ pc[t] \in InitPCs \union {"idle"} => idx[t] = 0
    /\ pc[t] \in {"idle", "loadBase", "allocPages"} => view[t].buckets = 0
    /\ pc[t] \in ScanPCs => view[t].buckets = N

\* There is a row for the bucket i of before.
HasRow(t, i) ==
    \E n \in 1 .. Len(out[t]) : /\ out[t][n].slot = i
                                /\ out[t][n].count >= before[t][i].events
                                /\ out[t][n].total_bytes >= before[t][i].bytes

\* The rows are in the order of the buckets, and those behind are all there.
Ascending(t) == \A m, n \in 1 .. Len(out[t]) : m < n => out[t][m].slot < out[t][n].slot
Scanned(t) ==
    /\ Ascending(t)
    /\ pc[t] \in ScanPCs =>
          /\ \A n \in 1 .. Len(out[t]) : out[t][n].slot < idx[t]
          /\ \A i \in DOMAIN before[t] : i < idx[t] => HasRow(t, i)
    /\ pc[t] = "reported" /\ view[t].buckets > 0 =>
          \A i \in DOMAIN before[t] : HasRow(t, i)

\* The row in the making is the current bucket's.
RowOK(t) ==
    /\ pc[t] \in {"loadFrame", "loadCount", "loadBytes"} => row[t].slot = idx[t]
    /\ pc[t] = "loadBytes" /\ idx[t] \in DOMAIN before[t] =>
          row[t].count >= before[t][idx[t]].events

ReportOK(t) == Kept(t) /\ Fresh(t) /\ Scanned(t) /\ RowOK(t)

ReportInv == /\ DOMAIN before = Threads
             /\ \A t \in Threads : ReportOK(t)

LEMMA ReportInvComplete == ReportInv => ReportComplete
BY DEF ReportInv, ReportOK, Scanned, Ascending, HasRow, ReportComplete

LEMMA InitReport == Init => ReportInv
<1> SUFFICES ASSUME Init, NEW t \in Threads PROVE ReportOK(t) /\ DOMAIN before = Threads
  BY DEF ReportInv, Init
<1>1. /\ pc[t] = "idle" /\ out[t] = << >> /\ idx[t] = 0 /\ view[t].buckets = 0
      /\ DOMAIN before[t] = {} /\ DOMAIN before = Threads
  BY DEF Init, NoView
<1>2. Len(out[t]) = 0
  BY <1>1
<1> QED
  BY <1>1, <1>2 DEF ReportOK, Kept, Fresh, Scanned, Ascending, RowOK, ScanPCs, ReportPCs

-----------------------------------------------------------------------------
(* What a step leaves alone.                                                 *)

\* Buckets stay published and their counters do not decrease.
Grows == \A i \in Slots : /\ hash[i] # 0 => hash'[i] # 0
                          /\ frame_count[i] # 0 => frame_count'[i] # 0
                          /\ count'[i] >= count[i]
                          /\ total_bytes'[i] >= total_bytes[i]

\* What ReportOK reads of a thread.
Same(u) == /\ pc'[u] = pc[u] /\ call'[u] = call[u] /\ view'[u] = view[u]
           /\ idx'[u] = idx[u] /\ row'[u] = row[u] /\ out'[u] = out[u]
           /\ before'[u] = before[u]

\* Reset waits until no call is under way.
Moving(t) == BeginRecord(t) \/ BeginReport(t) \/ Step(t)

LEMMA KeptStays ==
  ASSUME TypeInv, TypeInv', NEW t \in Threads, Kept(t), Grows, before'[t] = before[t],
         call[t].op = "report" => call'[t].op = "report" \/ DOMAIN before[t] = {}
  PROVE Kept(t)'
<1>1. call'[t].op # "report" => DOMAIN before[t] = {}
  BY DEF Kept
<1>2. ASSUME NEW i \in DOMAIN before[t]
      PROVE /\ i \in Slots /\ hash'[i] # 0 /\ frame_count'[i] # 0
            /\ before[t][i].events \in Nat /\ before[t][i].events <= count'[i]
            /\ before[t][i].bytes \in Nat /\ before[t][i].bytes <= total_bytes'[i]
  <2>1. /\ i \in Slots /\ hash[i] # 0 /\ frame_count[i] # 0
        /\ before[t][i].events \in Nat /\ before[t][i].events <= count[i]
        /\ before[t][i].bytes \in Nat /\ before[t][i].bytes <= total_bytes[i]
    BY DEF Kept
  <2>2. /\ count[i] \in Nat /\ total_bytes[i] \in Nat
        /\ count'[i] \in Nat /\ total_bytes'[i] \in Nat
    BY <2>1 DEF TypeInv, TypeOK
  <2> QED
    BY <2>1, <2>2 DEF Grows
<1> QED
  BY <1>1, <1>2 DEF Kept

LEMMA OthersStay ==
  ASSUME TypeInv, TypeInv', NEW u \in Threads, ReportOK(u), Grows, Same(u)
  PROVE ReportOK(u)'
<1>1. Kept(u)'
  BY KeptStays DEF ReportOK, Same
<1> QED
  BY <1>1 DEF ReportOK, Same, Fresh, Scanned, Ascending, HasRow, RowOK

LEMMA GrowsAtRest == TypeInv /\ UNCHANGED table => Grows
BY DEF table, Grows, TypeInv, TypeOK

LEMMA TableGrows ==
  ASSUME TypeInv, NEW t \in Threads, Moving(t)
  PROVE Grows
<1>1. UNCHANGED table => Grows
  BY GrowsAtRest
<1>2. /\ \A i \in Slots : hash[i] \in Nat /\ count[i] \in Nat /\ total_bytes[i] \in Nat
      /\ DOMAIN hash = Slots /\ DOMAIN count = Slots /\ DOMAIN total_bytes = Slots
      /\ DOMAIN frame_count = Slots /\ idx[t] \in Slots
  BY DEF TypeInv, TypeOK
<1>3. CASE BeginRecord(t) \/ BeginReport(t) \/ EnsureInit(t) \/ Report(t)
  <2>1. UNCHANGED table
    BY <1>3 DEF BeginRecord, BeginReport, EnsureInit, LoadBase, LoadBuckets, LoadMask,
       AllocPages, AllocPagesFails, CasBase, StoreBuckets, StoreMask, FreePages,
       AwaitBuckets, Report, ScanHash, ScanFrameCount, LoadFrame, LoadCount,
       LoadBytes, TakeReport
  <2> QED
    BY <1>1, <2>1
<1>4. CASE Probe(t) \/ ClaimLost(t)
  BY <1>1, <1>4 DEF Probe, ClaimLost
<1>5. CASE Claim(t)
  <2>1. call[t].op = "record" /\ call[t].trace \in Traces
    BY <1>5 DEF Claim, TypeInv, CallOK, CallOKOf, RecordPCs
  <2>2. HashOf(t) # 0
    BY <2>1, HashAssumption DEF HashOf
  <2> QED
    BY <1>5, <1>2, <2>2 DEF Claim, Grows
<1>6. CASE WriteFrame(t)
  BY <1>6, <1>2 DEF WriteFrame, Grows
<1>7. CASE AddCount(t)
  BY <1>7, <1>2 DEF AddCount, Grows
<1>8. CASE InitBytes(t) \/ AddBytes(t)
  <2>1. call[t].size \in Nat
    BY <1>8, SizeAssumption DEF InitBytes, AddBytes, TypeInv, CallOK, CallOKOf, RecordPCs
  <2>2. total_bytes' = [total_bytes EXCEPT ![idx[t]] = @ + call[t].size]
        /\ UNCHANGED <<hash, count, frame_count>>
    BY <1>8 DEF InitBytes, AddBytes
  <2> QED
    BY <1>2, <2>1, <2>2 DEF Grows
<1>9. CASE Publish(t)
  <2>1. call[t].trace \in Seq(Nat \ {0}) /\ call[t].trace # << >>
    BY <1>9, TraceAssumption DEF Publish, TypeInv, CallOK, CallOKOf, RecordPCs
  <2>2. Len(call[t].trace) # 0
    BY <2>1
  <2> QED
    BY <1>9, <1>2, <2>2 DEF Publish, Grows
<1> QED
  BY <1>3, <1>4, <1>5, <1>6, <1>7, <1>8, <1>9 DEF Moving, Step, Record

LEMMA OthersSame ==
  ASSUME TypeInv, ReportInv, NEW t \in Threads, Moving(t), NEW u \in Threads, u # t
  PROVE Same(u)
<1>0. /\ DOMAIN pc = Threads /\ DOMAIN call = Threads /\ DOMAIN view = Threads
      /\ DOMAIN idx = Threads /\ DOMAIN row = Threads /\ DOMAIN out = Threads
      /\ DOMAIN before = Threads
  BY DEF TypeInv, TypeOK, ReportInv
<1> USE <1>0 DEF Same, Goto
<1>1. CASE BeginRecord(t) \/ BeginReport(t)
  BY <1>1 DEF BeginRecord, BeginReport
<1>2. ASSUME Leave(t), UNCHANGED before PROVE Same(u)
  BY <1>2 DEF Leave
<1>3. CASE LoadBase(t) \/ LoadBuckets(t) \/ AllocPages(t) \/ CasBase(t)
             \/ StoreBuckets(t) \/ FreePages(t) \/ AwaitBuckets(t)
  BY <1>3 DEF LoadBase, LoadBuckets, AllocPages, CasBase, StoreBuckets, FreePages,
     AwaitBuckets, history
<1>4. CASE LoadMask(t) \/ StoreMask(t)
  BY <1>4 DEF LoadMask, StoreMask, Enter, history
<1>5. CASE AllocPagesFails(t)
  BY <1>2, <1>5 DEF AllocPagesFails, GiveUp
<1>6. CASE Probe(t) \/ ClaimLost(t)
  BY <1>2, <1>6 DEF Probe, ClaimLost, Advance, GiveUp
<1>7. CASE Claim(t) \/ WriteFrame(t) \/ AddCount(t) \/ InitBytes(t)
  BY <1>7 DEF Claim, WriteFrame, AddCount, InitBytes, history
<1>8. CASE AddBytes(t) \/ Publish(t)
  BY <1>2, <1>8 DEF AddBytes, Publish, history
<1>9. CASE ScanHash(t) \/ ScanFrameCount(t) \/ LoadBytes(t)
  BY <1>9 DEF ScanHash, ScanFrameCount, LoadBytes, NextRow, history
<1>10. CASE LoadFrame(t) \/ LoadCount(t) \/ TakeReport(t)
  BY <1>10 DEF LoadFrame, LoadCount, TakeReport, history
<1> QED
  BY <1>1, <1>3, <1>4, <1>5, <1>6, <1>7, <1>8, <1>9, <1>10
     DEF Moving, Step, EnsureInit, Record, Report
-----------------------------------------------------------------------------
(* The thread that moves.                                                    *)

LEMMA BeginStays ==
  ASSUME TypeInv, TypeInv', ReportInv, NEW t \in Threads, Grows,
         BeginRecord(t) \/ BeginReport(t)
  PROVE ReportOK(t)'
<1>1. /\ pc[t] = "idle" /\ call[t].op = "none" /\ pc'[t] = "loadBase"
      /\ UNCHANGED <<view, idx, out, table>>
      /\ DOMAIN before = Threads /\ ReportOK(t)
  BY DEF BeginRecord, BeginReport, Goto, TypeInv, TypeOK, CallOK, CallOKOf, NoCall, ReportInv
<1>2. Kept(t)'
  <2>1. CASE BeginRecord(t)
    BY <1>1, <2>1, KeptStays DEF BeginRecord, ReportOK
  <2>2. CASE BeginReport(t)
    <3>1. /\ call'[t].op = "report"
          /\ before'[t] = [i \in Published |-> [events |-> count[i],
                                                bytes  |-> total_bytes[i]]]
      BY <1>1, <2>2 DEF BeginReport, TypeInv, TypeOK
    <3>2. \A i \in Slots : count[i] \in Nat /\ total_bytes[i] \in Nat
      BY DEF TypeInv, TypeOK
    <3> QED
      BY <1>1, <3>1, <3>2 DEF Kept, Published, table
  <2> QED
    BY <2>1, <2>2
<1>3. Fresh(t)'
  BY <1>1 DEF ReportOK, Fresh, InitPCs, ScanPCs, ReportPCs
<1>4. Scanned(t)' /\ RowOK(t)'
  <2>1. out'[t] = << >>
    BY <1>1 DEF ReportOK, Fresh, ReportPCs
  <2> QED
    BY <1>1, <2>1 DEF Scanned, Ascending, RowOK, ScanPCs
<1> QED
  BY <1>2, <1>3, <1>4 DEF ReportOK

\* A call that returns leaves nothing behind.
LEMMA ReturnStays ==
  ASSUME NEW t \in Threads, DOMAIN before'[t] = {}, pc'[t] = "idle",
         out'[t] = << >>, idx'[t] = 0, view'[t] = NoView
  PROVE ReportOK(t)'
BY DEF ReportOK, Kept, Fresh, Scanned, Ascending, RowOK, NoView, ScanPCs, ReportPCs

LEMMA LeaveStays ==
  ASSUME TypeInv, ReportInv, NEW t \in Threads, Leave(t), UNCHANGED before,
         pc[t] \notin ReportPCs, call[t].op = "record"
  PROVE ReportOK(t)'
<1>1. DOMAIN before[t] = {} /\ out[t] = << >>
  BY DEF ReportInv, ReportOK, Kept, Fresh
<1>2. pc'[t] = "idle" /\ out' = out /\ idx'[t] = 0 /\ view'[t] = NoView
  BY DEF Leave, Goto, TypeInv, TypeOK
<1> QED
  BY <1>1, <1>2, ReturnStays

\* On the way to the table, or to another bucket of it, nothing is reported.
LEMMA OnTheWay ==
  ASSUME TypeInv, TypeInv', ReportInv, NEW t \in Threads, Grows,
         UNCHANGED <<call, out, before>>,
         pc[t] \notin ReportPCs, pc'[t] \in (InitPCs \union RecordPCs),
         pc'[t] \in InitPCs => pc[t] \in InitPCs /\ idx'[t] = idx[t],
         pc'[t] \in {"idle", "loadBase", "allocPages"} => view'[t].buckets = 0
  PROVE ReportOK(t)'
<1>1. ReportOK(t)
  BY DEF ReportInv
<1>2. Kept(t)'
  BY <1>1, KeptStays DEF ReportOK
<1>3. out'[t] = << >>
  BY <1>1 DEF ReportOK, Fresh
<1>4. pc'[t] \notin ScanPCs \union {"idle", "reported"}
  BY DEF InitPCs, RecordPCs, ScanPCs
<1>5. Fresh(t)'
  BY <1>1, <1>3, <1>4 DEF ReportOK, Fresh
<1>6. Scanned(t)' /\ RowOK(t)'
  BY <1>3, <1>4 DEF Scanned, Ascending, RowOK, ScanPCs
<1> QED
  BY <1>2, <1>5, <1>6 DEF ReportOK

\* The scan begins, or there is no table to scan.
LEMMA EnterStays ==
  ASSUME TypeInv, TypeInv', ReportInv, NEW t \in Threads, Grows, pc[t] \in InitPCs,
         UNCHANGED <<call, before>>, UNCHANGED <<idx, out>>,
         \/ pc'[t] = "scanHash" /\ view'[t].buckets = N
         \/ pc'[t] = "reported" /\ view'[t].buckets = 0
  PROVE ReportOK(t)'
<1>1. ReportOK(t)
  BY DEF ReportInv
<1>2. Kept(t)'
  BY <1>1, KeptStays DEF ReportOK
<1>3. out'[t] = << >> /\ idx'[t] = 0
  BY <1>1 DEF ReportOK, Fresh, InitPCs, ReportPCs
<1>4. Fresh(t)'
  BY <1>3 DEF Fresh, InitPCs, ScanPCs, ReportPCs
<1>5. \A i \in DOMAIN before'[t] : ~(i < 0)
  BY <1>2 DEF Kept, Slots
<1>6. Scanned(t)' /\ RowOK(t)'
  BY <1>3, <1>5 DEF Scanned, Ascending, RowOK, ScanPCs
<1> QED
  BY <1>2, <1>4, <1>6 DEF ReportOK

LEMMA RowsHaveSlots ==
  ASSUME NEW s \in Seq(Row), NEW n \in 1 .. Len(s)
  PROVE s[n].slot \in Slots /\ s[n].slot \in Nat
<1>1. s[n] \in Row
  OBVIOUS
<1>2. s[n].slot \in Slots
  BY <1>1 DEF Row
<1> QED
  BY <1>2 DEF Slots

\* From one access of a bucket to the next.
LEMMA WithinBucket ==
  ASSUME TypeInv, TypeInv', ReportInv, NEW t \in Threads, Grows,
         UNCHANGED <<call, before, view, idx, out>>,
         pc[t] \in ScanPCs, pc'[t] \in ScanPCs, RowOK(t)'
  PROVE ReportOK(t)'
<1>1. ReportOK(t)
  BY DEF ReportInv
<1>2. Kept(t)'
  BY <1>1, KeptStays DEF ReportOK
<1>3. Fresh(t)'
  BY <1>1 DEF ReportOK, Fresh, ScanPCs, ReportPCs, InitPCs
<1>4. Scanned(t)'
  BY <1>1 DEF ReportOK, Scanned, Ascending, HasRow, ScanPCs
<1> QED
  BY <1>2, <1>3, <1>4 DEF ReportOK

\* From one bucket to the next: the current one has its row, if it needs one.
LEMMA NextRowStays ==
  ASSUME TypeInv, TypeInv', ReportInv, NEW t \in Threads, Grows, NextRow(t),
         UNCHANGED <<call, before, view>>, pc[t] \in ScanPCs,
         Ascending(t)',
         \A n \in 1 .. Len(out'[t]) : out'[t][n].slot <= idx[t],
         \A i \in DOMAIN before[t] : i <= idx[t] => HasRow(t, i)'
  PROVE ReportOK(t)'
<1>1. ReportOK(t) /\ view[t].buckets = N /\ N \in Nat /\ idx[t] \in Slots
  BY BucketAssumption DEF ReportInv, ReportOK, Fresh, TypeInv, TypeOK
<1>2. Kept(t)'
  BY <1>1, KeptStays DEF ReportOK
<1>3. \A i \in DOMAIN before[t] : i \in Slots
  BY <1>1 DEF ReportOK, Kept
<1>4. \A n \in 1 .. Len(out'[t]) : out'[t][n].slot \in Slots
  <2>1. out'[t] \in Seq(Row)
    BY DEF TypeInv, TypeOK
  <2> QED
    BY <2>1, RowsHaveSlots
<1>5. CASE idx[t] + 1 < N
  <2>1. pc'[t] = "scanHash" /\ idx'[t] = idx[t] + 1
    BY <1>1, <1>5 DEF NextRow, Goto, TypeInv, TypeOK
  <2>2. /\ \A n \in 1 .. Len(out'[t]) : out'[t][n].slot < idx[t] + 1
        /\ \A i \in DOMAIN before[t] : i < idx[t] + 1 => HasRow(t, i)'
    BY <1>1, <1>3, <1>4 DEF Slots
  <2> QED
    BY <1>1, <1>2, <2>1, <2>2
       DEF ReportOK, Fresh, Scanned, RowOK, ScanPCs, ReportPCs, InitPCs
<1>6. CASE ~(idx[t] + 1 < N)
  <2>1. pc'[t] = "reported"
    BY <1>1, <1>6 DEF NextRow, Goto, TypeInv, TypeOK
  <2>2. \A i \in DOMAIN before[t] : HasRow(t, i)'
    <3>1. ASSUME NEW i \in Slots PROVE i <= idx[t]
      BY <1>1, <1>6 DEF Slots
    <3> QED
      BY <1>3, <3>1
  <2> QED
    BY <1>1, <1>2, <2>1, <2>2
       DEF ReportOK, Fresh, Scanned, RowOK, ScanPCs, ReportPCs, InitPCs
<1> QED
  BY <1>5, <1>6

\* A bucket that was published when the report began is not passed over.
LEMMA PassOver ==
  ASSUME TypeInv, TypeInv', ReportInv, NEW t \in Threads, Grows, NextRow(t),
         UNCHANGED <<call, before, view, out>>, pc[t] \in ScanPCs,
         hash[idx[t]] = 0 \/ frame_count[idx[t]] = 0
  PROVE ReportOK(t)'
<1>1. ReportOK(t) /\ idx[t] \in Slots /\ idx[t] \notin DOMAIN before[t]
  BY DEF ReportInv, ReportOK, Kept, TypeInv, TypeOK
<1>2. out[t] \in Seq(Row) /\ \A n \in 1 .. Len(out[t]) : out[t][n].slot \in Nat
  <2>1. out[t] \in Seq(Row)
    BY DEF TypeInv, TypeOK
  <2> QED
    BY <2>1, RowsHaveSlots
<1>3. /\ Ascending(t)'
      /\ \A n \in 1 .. Len(out'[t]) : out'[t][n].slot <= idx[t]
  BY <1>1, <1>2 DEF ReportOK, Scanned, Ascending, Slots
<1>4. ASSUME NEW i \in DOMAIN before[t], i <= idx[t] PROVE HasRow(t, i)'
  <2>1. i \in Slots /\ i # idx[t]
    BY <1>1 DEF ReportOK, Kept
  <2>2. i < idx[t]
    BY <1>1, <1>4, <2>1 DEF Slots
  <2> QED
    BY <1>1, <2>2 DEF ReportOK, Scanned, HasRow
<1> QED
  BY <1>3, <1>4, NextRowStays

LEMMA LoadBytesStays ==
  ASSUME TypeInv, TypeInv', ReportInv, NEW t \in Threads, Grows, LoadBytes(t)
  PROVE ReportOK(t)'
<1> DEFINE last == [row[t] EXCEPT !.total_bytes = total_bytes[idx[t]]]
<1>1. /\ ReportOK(t) /\ idx[t] \in Slots /\ row[t] \in Row /\ out[t] \in Seq(Row)
      /\ pc[t] = "loadBytes" /\ UNCHANGED <<call, before, view>>
      /\ out'[t] = Append(out[t], last)
  BY DEF ReportInv, TypeInv, TypeOK, LoadBytes, history
<1>2. /\ last \in Row /\ last.slot = idx[t] /\ last.count = row[t].count
      /\ last.total_bytes = total_bytes[idx[t]]
  BY <1>1 DEF ReportOK, RowOK, Row, TypeInv, TypeOK
<1> HIDE DEF last
<1>3. /\ Len(out'[t]) = Len(out[t]) + 1 /\ Len(out[t]) \in Nat
      /\ \A n \in 1 .. Len(out[t]) : out'[t][n] = out[t][n] /\ out[t][n] \in Row
      /\ out'[t][Len(out[t]) + 1] = last
  BY <1>1, <1>2
<1>4. \A n \in 1 .. Len(out[t]) : out[t][n].slot \in Slots /\ out[t][n].slot < idx[t]
  BY <1>1, <1>3 DEF ReportOK, Scanned, ScanPCs, Row
<1>5. Ascending(t)'
  <2>1. ASSUME NEW m \in 1 .. Len(out'[t]), NEW n \in 1 .. Len(out'[t]), m < n
        PROVE out'[t][m].slot < out'[t][n].slot
    <3>1. m \in 1 .. Len(out[t])
      BY <1>3, <2>1
    <3>2. CASE n \in 1 .. Len(out[t])
      BY <1>1, <1>3, <2>1, <3>1, <3>2 DEF ReportOK, Scanned, Ascending
    <3>3. CASE n = Len(out[t]) + 1
      BY <1>2, <1>3, <1>4, <3>1, <3>3
    <3> QED
      BY <1>3, <3>2, <3>3
  <2> QED
    BY <2>1 DEF Ascending
<1>6. ASSUME NEW n \in 1 .. Len(out'[t]) PROVE out'[t][n].slot <= idx[t]
  <2>1. CASE n \in 1 .. Len(out[t])
    <3>1. out'[t][n].slot \in Slots /\ out'[t][n].slot < idx[t] /\ idx[t] \in Slots
      BY <1>1, <1>3, <1>4, <2>1, Zenon
    <3>. QED  BY <3>1 DEF Slots
  <2>2. CASE n = Len(out[t]) + 1
    BY <1>1, <1>2, <1>3, <2>2 DEF Slots
  <2> QED
    BY <1>3, <2>1, <2>2
<1>7. ASSUME NEW i \in DOMAIN before[t], i <= idx[t] PROVE HasRow(t, i)'
  <2>1. /\ i \in Slots /\ before'[t] = before[t]
        /\ before[t][i].events \in Nat /\ before[t][i].bytes \in Nat
        /\ before[t][i].bytes <= total_bytes[i] /\ total_bytes[i] \in Nat
    BY <1>1 DEF ReportOK, Kept, TypeInv, TypeOK
  <2>2. CASE i < idx[t]
    <3>1. PICK n \in 1 .. Len(out[t]) :
             /\ out[t][n].slot = i
             /\ out[t][n].count >= before[t][i].events
             /\ out[t][n].total_bytes >= before[t][i].bytes
      BY <1>1, <2>2 DEF ReportOK, Scanned, ScanPCs, HasRow
    <3>2. n \in 1 .. Len(out'[t]) /\ out'[t][n] = out[t][n]
      BY <1>3, <3>1
    <3> QED
      BY <2>1, <3>1, <3>2 DEF HasRow
  <2>3. CASE i = idx[t]
    <3>1. /\ last.slot = i /\ last.count >= before[t][i].events
          /\ last.total_bytes >= before[t][i].bytes
      BY <1>1, <1>2, <2>1, <2>3 DEF ReportOK, RowOK
    <3>2. Len(out[t]) + 1 \in 1 .. Len(out'[t])
      BY <1>3
    <3> QED
      BY <1>3, <2>1, <3>1, <3>2 DEF HasRow
  <2> QED
    BY <1>1, <1>7, <2>1, <2>2, <2>3 DEF Slots
<1>8. NextRow(t) /\ pc[t] \in ScanPCs
  BY <1>1 DEF LoadBytes, ScanPCs
<1> QED
  BY <1>1, <1>5, <1>6, <1>7, <1>8, NextRowStays

LEMMA ReportStays ==
  ASSUME TypeInv, TypeInv', ReportInv, NEW t \in Threads, Grows, Report(t)
  PROVE ReportOK(t)'
<1>0. /\ ReportOK(t) /\ DOMAIN pc = Threads /\ DOMAIN row = Threads
      /\ DOMAIN out = Threads /\ DOMAIN idx = Threads /\ DOMAIN view = Threads
      /\ DOMAIN before = Threads /\ row[t] \in Row /\ idx[t] \in Slots
  BY DEF ReportInv, TypeInv, TypeOK
<1>1. ASSUME ScanHash(t) PROVE ReportOK(t)'
  <2>1. pc[t] \in ScanPCs /\ UNCHANGED <<call, before, view, out>>
    BY <1>1 DEF ScanHash, ScanPCs, history
  <2>2. CASE hash[idx[t]] = 0
    BY <1>1, <2>1, <2>2, PassOver DEF ScanHash
  <2>3. CASE hash[idx[t]] # 0
    <3>1. pc'[t] = "scanFrameCount" /\ UNCHANGED idx
      BY <1>0, <1>1, <2>3 DEF ScanHash, Goto
    <3> QED
      BY <2>1, <3>1, WithinBucket DEF RowOK, ScanPCs
  <2> QED
    BY <2>2, <2>3
<1>2. ASSUME ScanFrameCount(t) PROVE ReportOK(t)'
  <2>1. pc[t] \in ScanPCs /\ UNCHANGED <<call, before, view, out>>
    BY <1>2 DEF ScanFrameCount, ScanPCs, history
  <2>2. CASE frame_count[idx[t]] = 0
    BY <1>2, <2>1, <2>2, PassOver DEF ScanFrameCount
  <2>3. CASE frame_count[idx[t]] # 0
    <3>1. pc'[t] = "loadFrame" /\ UNCHANGED idx /\ row'[t].slot = idx[t]
      BY <1>0, <1>2, <2>3 DEF ScanFrameCount, Goto, Row
    <3> QED
      BY <2>1, <3>1, WithinBucket DEF RowOK, ScanPCs
  <2> QED
    BY <2>2, <2>3
<1>3. ASSUME LoadFrame(t) PROVE ReportOK(t)'
  <2>1. /\ pc[t] = "loadFrame" /\ pc'[t] \in {"loadFrame", "loadCount"}
        /\ UNCHANGED <<call, before, view, idx, out>>
        /\ row'[t].slot = row[t].slot
    BY <1>0, <1>3 DEF LoadFrame, Goto, Row, history
  <2> QED
    BY <1>0, <2>1, WithinBucket DEF ReportOK, RowOK, ScanPCs
<1>4. ASSUME LoadCount(t) PROVE ReportOK(t)'
  <2>1. /\ pc[t] = "loadCount" /\ pc'[t] = "loadBytes"
        /\ UNCHANGED <<call, before, view, idx, out>>
        /\ row'[t].slot = row[t].slot /\ row'[t].count = count[idx[t]]
    BY <1>0, <1>4 DEF LoadCount, Goto, Row, history
  <2>2. idx[t] \in DOMAIN before[t] => count[idx[t]] >= before[t][idx[t]].events
    BY <1>0 DEF ReportOK, Kept, TypeInv, TypeOK
  <2> QED
    BY <1>0, <2>1, <2>2, WithinBucket DEF ReportOK, RowOK, ScanPCs
<1>5. ASSUME TakeReport(t) PROVE ReportOK(t)'
  <2>1. /\ pc'[t] = "idle" /\ view'[t] = NoView /\ idx'[t] = 0 /\ out'[t] = << >>
        /\ before'[t] = [i \in {} |-> 0]
    BY <1>0, <1>5 DEF TakeReport, Goto
  <2> QED
    BY <2>1, ReturnStays
<1> QED
  BY <1>1, <1>2, <1>3, <1>4, <1>5, LoadBytesStays DEF Report

LEMMA RecordStays ==
  ASSUME TypeInv, TypeInv', ReportInv, NEW t \in Threads, Grows, Record(t)
  PROVE ReportOK(t)'
<1>0. /\ DOMAIN pc = Threads /\ pc[t] \in RecordPCs /\ call[t].op = "record"
      /\ pc[t] \notin ReportPCs /\ UNCHANGED before
  BY DEF Record, Probe, Claim, ClaimLost, WriteFrame, AddCount, InitBytes, AddBytes,
     Publish, TypeInv, TypeOK, CallOK, CallOKOf, RecordPCs, ReportPCs, history
<1>1. ASSUME Leave(t) PROVE ReportOK(t)'
  BY <1>0, <1>1, LeaveStays
<1>2. ASSUME UNCHANGED <<call, out>>, pc'[t] \in RecordPCs PROVE ReportOK(t)'
  <2>1. pc'[t] \notin InitPCs \union {"idle", "loadBase", "allocPages"}
    BY <1>2 DEF InitPCs, RecordPCs
  <2> QED
    BY <1>0, <1>2, <2>1, OnTheWay
<1>3. ASSUME Advance(t) PROVE ReportOK(t)'
  <2>1. CASE GiveUp(t)
    BY <1>1, <2>1 DEF GiveUp
  <2>2. CASE ~GiveUp(t)
    BY <1>0, <1>2, <1>3, <2>2 DEF Advance, Goto, RecordPCs
  <2> QED
    BY <2>1, <2>2
<1>4. CASE Probe(t) \/ ClaimLost(t)
  <2>1. CASE Advance(t)
    BY <1>3, <2>1
  <2>2. CASE ~Advance(t)
    BY <1>0, <1>2, <1>4, <2>2 DEF Probe, ClaimLost, Goto, RecordPCs
  <2> QED
    BY <2>1, <2>2
<1>5. CASE Claim(t) \/ WriteFrame(t) \/ AddCount(t) \/ InitBytes(t)
  BY <1>0, <1>2, <1>5 DEF Claim, WriteFrame, AddCount, InitBytes, Goto, RecordPCs
<1>6. CASE AddBytes(t) \/ Publish(t)
  BY <1>1, <1>6 DEF AddBytes, Publish
<1> QED
  BY <1>4, <1>5, <1>6 DEF Record

LEMMA EnsureInitStays ==
  ASSUME TypeInv, TypeInv', ReportInv, NEW t \in Threads, Grows, EnsureInit(t)
  PROVE ReportOK(t)'
<1>0. /\ DOMAIN pc = Threads /\ DOMAIN view = Threads /\ ReportOK(t)
      /\ pc[t] \in InitPCs /\ pc[t] \notin ReportPCs /\ UNCHANGED before
  BY DEF EnsureInit, LoadBase, LoadBuckets, LoadMask, AllocPages, AllocPagesFails,
     CasBase, StoreBuckets, StoreMask, FreePages, AwaitBuckets, ReportInv, TypeInv,
     TypeOK, InitPCs, ReportPCs, history
<1>1. CASE LoadBase(t)
  <2>1. /\ pc[t] = "loadBase" /\ pc'[t] \in {"allocPages", "loadBuckets"}
        /\ UNCHANGED <<call, out, idx, view>>
    BY <1>0, <1>1 DEF LoadBase, Goto
  <2>2. view[t].buckets = 0
    BY <1>0, <2>1 DEF ReportOK, Fresh
  <2> QED
    BY <1>0, <2>1, <2>2, OnTheWay DEF InitPCs
<1>2. CASE LoadBuckets(t) \/ AllocPages(t) \/ CasBase(t) \/ StoreBuckets(t)
             \/ FreePages(t) \/ AwaitBuckets(t)
  <2>1. /\ pc'[t] \in {"loadMask", "casBase", "storeBuckets", "freePages", "storeMask",
                       "awaitBuckets"}
        /\ UNCHANGED <<call, out, idx>>
    BY <1>0, <1>2 DEF LoadBuckets, AllocPages, CasBase, StoreBuckets, FreePages,
       AwaitBuckets, Goto
  <2> QED
    BY <1>0, <2>1, OnTheWay DEF InitPCs
<1>3. ASSUME NEW b \in {0, N}, NEW m, Enter(t, b, m) PROVE ReportOK(t)'
  <2>1. /\ UNCHANGED <<call, out>> /\ view'[t].buckets = b
    BY <1>0, <1>3 DEF Enter
  <2>2. CASE call[t].op = "record"
    <3>1. pc'[t] = "probe"
      BY <1>0, <1>3, <2>2 DEF Enter, Goto
    <3> QED
      BY <1>0, <2>1, <3>1, OnTheWay DEF InitPCs, RecordPCs
  <2>3. CASE call[t].op = "report"
    <3>1. /\ UNCHANGED idx /\ N > 0
          /\ pc'[t] = IF b > 0 THEN "scanHash" ELSE "reported"
      BY <1>0, <1>3, <2>3, BucketAssumption DEF Enter, Goto
    <3> QED
      BY <1>0, <2>1, <3>1, EnterStays
  <2> QED
    BY <1>3, <2>2, <2>3 DEF Enter
<1>4. CASE LoadMask(t) \/ StoreMask(t)
  <2>1. view[t].buckets \in {0, N}
    BY DEF TypeInv, TypeOK
  <2> QED
    BY <1>3, <1>4, <2>1 DEF LoadMask, StoreMask
<1>5. CASE AllocPagesFails(t)
  <2>1. CASE call[t].op = "record"
    BY <1>0, <1>5, <2>1, LeaveStays DEF AllocPagesFails, GiveUp
  <2>2. CASE call[t].op # "record"
    <3>1. /\ pc[t] = "allocPages" /\ pc'[t] = "reported"
          /\ UNCHANGED <<call, view, idx, out>>
      BY <1>0, <1>5, <2>2 DEF AllocPagesFails, Goto
    <3>2. view[t].buckets = 0
      BY <1>0, <3>1 DEF ReportOK, Fresh
    <3> QED
      BY <1>0, <3>1, <3>2, EnterStays
  <2> QED
    BY <2>1, <2>2
<1> QED
  BY <1>1, <1>2, <1>4, <1>5 DEF EnsureInit

\* No report is under way when the table is reset.
LEMMA ResetStays ==
  ASSUME TypeInv, ReportInv, NEW t \in Threads, Reset(t)
  PROVE ReportInv'
<1>1. ASSUME NEW u \in Threads PROVE ReportOK(u)'
  <2>1. pc[u] = "idle" /\ call[u].op = "none" /\ ReportOK(u)
    BY DEF Reset, ReportInv, TypeInv, CallOK, CallOKOf, NoCall
  <2>2. DOMAIN before[u] = {} /\ UNCHANGED <<locals, before>>
    BY <2>1 DEF Reset, ReportOK, Kept
  <2> QED
    BY <2>1, <2>2
       DEF ReportOK, Kept, Fresh, Scanned, Ascending, HasRow, RowOK, locals, ScanPCs
<1> QED
  BY <1>1 DEF Reset, ReportInv

LEMMA NextReport == TypeInv /\ TypeInv' /\ ReportInv /\ [Next]_vars => ReportInv'
<1> SUFFICES ASSUME TypeInv, TypeInv', ReportInv, [Next]_vars PROVE ReportInv'
  OBVIOUS
<1>1. ASSUME NEW t \in Threads, Moving(t) PROVE ReportInv'
  <2>1. Grows
    BY <1>1, TableGrows
  <2>2. ReportOK(t)'
    BY <1>1, <2>1, BeginStays, EnsureInitStays, RecordStays, ReportStays
       DEF Moving, Step
  <2>3. ASSUME NEW u \in Threads, u # t PROVE ReportOK(u)'
    BY <1>1, <2>1, <2>3, OthersSame, OthersStay DEF ReportInv
  <2>4. DOMAIN before' = Threads
    <3>1. \/ UNCHANGED before
          \/ \E new : before' = [before EXCEPT ![t] = new]
      BY <1>1 DEF Moving, Step, EnsureInit, Record, Report, BeginRecord, BeginReport,
         LoadBase, LoadBuckets, LoadMask, AllocPages, AllocPagesFails, CasBase,
         StoreBuckets, StoreMask, FreePages, AwaitBuckets, Probe, Claim, ClaimLost,
         WriteFrame, AddCount, InitBytes, AddBytes, Publish, ScanHash, ScanFrameCount,
         LoadFrame, LoadCount, LoadBytes, TakeReport, history
    <3> QED
      BY <3>1 DEF ReportInv
  <2> QED
    BY <2>2, <2>3, <2>4 DEF ReportInv
<1>2. CASE UNCHANGED vars
  <2>1. Grows
    <3>1. UNCHANGED table
      BY <1>2 DEF vars
    <3> QED
      BY <3>1, GrowsAtRest
  <2>2. \A u \in Threads : Same(u)
    BY <1>2 DEF Same, vars, locals, history
  <2> QED
    BY <1>2, <2>1, <2>2, OthersStay DEF ReportInv, vars, history
<1>3. ASSUME NEW t \in Threads, Reset(t) PROVE ReportInv'
  BY <1>3, ResetStays
<1> QED
  BY <1>1, <1>2, <1>3 DEF Next, Rest, Moving

\* A report that saw the bucket count has, once each, the sites that were
\* published when it was asked for, with no less than they had counted then,
\* whatever is recorded while it is read (table.rs:243-273).
THEOREM ReportsAreComplete == Spec => []ReportComplete
<1>1. TypeInv /\ TypeInv' /\ ReportInv /\ [Next]_vars => ReportInv'
  BY NextReport
<1> QED
  BY InitType, NextType, InitReport, <1>1, ReportInvComplete, PTL DEF Spec

-----------------------------------------------------------------------------
(* What the buckets count.                                                   *)

\* A thread past its claim or its match counts for its own site, and a bucket
\* that nobody has claimed has counted nothing.
CountingPCs == {"writeFrame", "initCount", "initBytes", "publish", "addCount", "addBytes"}
OwnBucket(t) == pc[t] \in CountingPCs => hash[idx[t]] = HashOf(t)
Bare == \A i \in Slots : hash[i] = 0 => count[i] = 0 /\ total_bytes[i] = 0

Account(h) ==
    /\ owed[h].events = SumOf(count, SlotsOf(h)) + Cardinality(Uncounted(h))
    /\ owed[h].bytes  = SumOf(total_bytes, SlotsOf(h)) + SumOf(Size, Unadded(h))

Owed == [events : Int, bytes : Int]

AccountInv ==
    /\ owed \in [Hashes -> Owed]
    /\ \A t \in Threads : OwnBucket(t)
    /\ Bare
    /\ \A h \in Hashes : Account(h)

LEMMA AccountNothingLost == AccountInv => NothingLost
BY DEF AccountInv, Account, NothingLost, Total, SumOf

LEMMA FiniteSlots == IsFiniteSet(Slots)
BY BucketAssumption, FS_Interval DEF Slots

AccountTypes ==
    /\ \A i \in Slots : count[i] \in Int /\ total_bytes[i] \in Int
    /\ \A t \in Threads : Size[t] \in Int /\ call[t].size \in Nat
    /\ \A h : /\ SlotsOf(h) \in SUBSET Slots /\ Uncounted(h) \in SUBSET Threads
              /\ Unadded(h) \in SUBSET Threads
              /\ SumOf(count, SlotsOf(h)) \in Int /\ SumOf(total_bytes, SlotsOf(h)) \in Int
              /\ Cardinality(Uncounted(h)) \in Int /\ SumOf(Size, Unadded(h)) \in Int

LEMMA AccountTyped == TypeInv => AccountTypes
<1>. SUFFICES ASSUME TypeInv PROVE AccountTypes
  OBVIOUS
<1>1. \A i \in Slots : count[i] \in Int /\ total_bytes[i] \in Int
  BY DEF TypeInv, TypeOK
<1>2. \A t \in Threads : Size[t] \in Int /\ call[t].size \in Nat
  <2>1. \A n \in Sizes \union {0} : n \in Nat
    BY SizeAssumption
  <2>2. \A t \in Threads : call[t].size \in Sizes \union {0}
    BY DEF TypeInv, TypeOK
  <2>. QED  BY <2>1, <2>2 DEF Size
<1>3. ASSUME NEW h
      PROVE  /\ SlotsOf(h) \in SUBSET Slots /\ Uncounted(h) \in SUBSET Threads
             /\ Unadded(h) \in SUBSET Threads
             /\ SumOf(count, SlotsOf(h)) \in Int /\ SumOf(total_bytes, SlotsOf(h)) \in Int
             /\ Cardinality(Uncounted(h)) \in Int /\ SumOf(Size, Unadded(h)) \in Int
  <2>1. /\ SlotsOf(h) \in SUBSET Slots /\ Uncounted(h) \in SUBSET Threads
        /\ Unadded(h) \in SUBSET Threads
    BY DEF SlotsOf, Uncounted, Unadded, Recording
  <2>2. IsFiniteSet(SlotsOf(h)) /\ IsFiniteSet(Uncounted(h)) /\ IsFiniteSet(Unadded(h))
    BY <2>1, FiniteSlots, FiniteAssumption, FS_Subset
  <2>3. \A i \in SlotsOf(h) : count[i] \in Int /\ total_bytes[i] \in Int
    BY <1>1, <2>1
  <2>4. \A t \in Unadded(h) : Size[t] \in Int
    BY <1>2, <2>1
  <2>. QED  BY <2>1, <2>2, <2>3, <2>4, SumType, FS_CardinalityType
<1>. QED  BY <1>1, <1>2, <1>3 DEF AccountTypes

\* 1 or n for a thread that still owes, 0 for one that does not.
Owes(P, n) == IF P THEN n ELSE 0

\* What a step of one thread makes of the calls that still have to count.
LEMMA CallsMove ==
    ASSUME TypeInv, TypeInv', NEW t \in Threads, NEW h,
           \A u \in Threads \ {t} : pc'[u] = pc[u] /\ call'[u] = call[u]
    PROVE  /\ Cardinality(Uncounted(h)') = Cardinality(Uncounted(h))
                 + Owes(t \in Uncounted(h)', 1) - Owes(t \in Uncounted(h), 1)
           /\ SumOf(Size', Unadded(h)') = SumOf(Size, Unadded(h))
                 + Owes(t \in Unadded(h)', call'[t].size)
                 - Owes(t \in Unadded(h), call[t].size)
<1>. DEFINE U == Uncounted(h)'
            A == Unadded(h)'
            g == Size'
<1>1. /\ \A x \in Threads \ {t} : x \in Uncounted(h) <=> x \in U
      /\ \A x \in Threads \ {t} : /\ x \in Unadded(h) <=> x \in A
                                  /\ x \in Unadded(h) => Size[x] = g[x]
      /\ g[t] = call'[t].size /\ Size[t] = call[t].size
  BY DEF Uncounted, Unadded, Recording, HashOf, Size
<1>2. AccountTypes /\ AccountTypes'
  BY AccountTyped, PTL
<1>3. /\ U \in SUBSET Threads /\ A \in SUBSET Threads
      /\ Uncounted(h) \in SUBSET Threads /\ Unadded(h) \in SUBSET Threads
      /\ \A x \in Threads : Size[x] \in Int /\ g[x] \in Int
  BY <1>2 DEF AccountTypes
<1>. HIDE DEF U, A, g
<1>4. Cardinality(U) = Cardinality(Uncounted(h)) + (IF t \in U THEN 1 ELSE 0)
                          - (IF t \in Uncounted(h) THEN 1 ELSE 0)
  BY <1>1, <1>3, FiniteAssumption, CountMoves
<1>5. SumOf(g, A) = SumOf(Size, Unadded(h)) + (IF t \in A THEN g[t] ELSE 0)
                          - (IF t \in Unadded(h) THEN Size[t] ELSE 0)
  BY <1>1, <1>3, FiniteAssumption, SumMoves
<1>. QED  BY <1>1, <1>4, <1>5 DEF U, A, g, Owes

\* The same for a step that changes one bucket.
LEMMA BucketsMove ==
    ASSUME TypeInv, TypeInv', NEW i \in Slots, NEW h,
           \A j \in Slots \ {i} : /\ hash'[j] = hash[j] /\ count'[j] = count[j]
                                  /\ total_bytes'[j] = total_bytes[j]
    PROVE  /\ SumOf(count', SlotsOf(h)') = SumOf(count, SlotsOf(h))
                 + Owes(hash'[i] = h, count'[i]) - Owes(hash[i] = h, count[i])
           /\ SumOf(total_bytes', SlotsOf(h)') = SumOf(total_bytes, SlotsOf(h))
                 + Owes(hash'[i] = h, total_bytes'[i])
                 - Owes(hash[i] = h, total_bytes[i])
<1>. DEFINE B == SlotsOf(h)'
            f == count'
            g == total_bytes'
<1>1. /\ \A j \in Slots \ {i} : /\ j \in SlotsOf(h) <=> j \in B
                                /\ j \in SlotsOf(h) => count[j] = f[j]
      /\ \A j \in Slots \ {i} : /\ j \in SlotsOf(h) <=> j \in B
                                /\ j \in SlotsOf(h) => total_bytes[j] = g[j]
      /\ i \in B <=> hash'[i] = h
      /\ i \in SlotsOf(h) <=> hash[i] = h
  BY DEF SlotsOf
<1>2. AccountTypes /\ AccountTypes'
  BY AccountTyped, PTL
<1>3. /\ B \in SUBSET Slots /\ SlotsOf(h) \in SUBSET Slots
      /\ \A x \in Slots : count[x] \in Int /\ f[x] \in Int
      /\ \A x \in Slots : total_bytes[x] \in Int /\ g[x] \in Int
  BY <1>2 DEF AccountTypes
<1>. HIDE DEF B, f, g
<1>4. SumOf(f, B) = SumOf(count, SlotsOf(h)) + (IF i \in B THEN f[i] ELSE 0)
                          - (IF i \in SlotsOf(h) THEN count[i] ELSE 0)
  BY <1>1, <1>3, FiniteSlots, SumMoves
<1>5. SumOf(g, B) = SumOf(total_bytes, SlotsOf(h)) + (IF i \in B THEN g[i] ELSE 0)
                          - (IF i \in SlotsOf(h) THEN total_bytes[i] ELSE 0)
  BY <1>1, <1>3, FiniteSlots, SumMoves
<1>. QED  BY <1>1, <1>4, <1>5 DEF B, f, g, Owes

\* A step of one thread, at one bucket, keeps the books when what it owes less is
\* what the bucket has more.
LEMMA Balance ==
    ASSUME TypeInv, TypeInv', NEW t \in Threads, NEW i \in Slots, NEW h \in Hashes, Account(h),
           owed \in [Hashes -> Owed], owed' \in [Hashes -> Owed],
           \A u \in Threads \ {t} : pc'[u] = pc[u] /\ call'[u] = call[u],
           \A j \in Slots \ {i} : /\ hash'[j] = hash[j] /\ count'[j] = count[j]
                                  /\ total_bytes'[j] = total_bytes[j],
           owed'[h].events = owed[h].events
              + Owes(hash'[i] = h, count'[i]) - Owes(hash[i] = h, count[i])
              + Owes(t \in Uncounted(h)', 1) - Owes(t \in Uncounted(h), 1),
           owed'[h].bytes = owed[h].bytes
              + Owes(hash'[i] = h, total_bytes'[i]) - Owes(hash[i] = h, total_bytes[i])
              + Owes(t \in Unadded(h)', call'[t].size)
              - Owes(t \in Unadded(h), call[t].size)
    PROVE  Account(h)'
<1>. DEFINE c  == SumOf(count', SlotsOf(h)')
            b  == SumOf(total_bytes', SlotsOf(h)')
            n  == Cardinality(Uncounted(h)')
            s  == SumOf(Size', Unadded(h)')
            c0 == SumOf(count, SlotsOf(h))
            b0 == SumOf(total_bytes, SlotsOf(h))
            n0 == Cardinality(Uncounted(h))
            s0 == SumOf(Size, Unadded(h))
            dc == Owes(hash'[i] = h, count'[i])
            dc0 == Owes(hash[i] = h, count[i])
            db == Owes(hash'[i] = h, total_bytes'[i])
            db0 == Owes(hash[i] = h, total_bytes[i])
            dn == Owes(t \in Uncounted(h)', 1)
            dn0 == Owes(t \in Uncounted(h), 1)
            ds == Owes(t \in Unadded(h)', call'[t].size)
            ds0 == Owes(t \in Unadded(h), call[t].size)
<1>1. AccountTypes /\ AccountTypes'
  BY AccountTyped, PTL
<1>2. c0 \in Int /\ b0 \in Int /\ n0 \in Int /\ s0 \in Int
  BY <1>1 DEF AccountTypes
<1>3. /\ dc \in Int /\ dc0 \in Int /\ db \in Int /\ db0 \in Int
      /\ dn \in Int /\ dn0 \in Int /\ ds \in Int /\ ds0 \in Int
  BY <1>1 DEF AccountTypes, Owes
<1>4. /\ c = c0 + dc - dc0 /\ b = b0 + db - db0
      /\ n = n0 + dn - dn0 /\ s = s0 + ds - ds0
  BY CallsMove, BucketsMove
<1>5. owed[h].events = c0 + n0 /\ owed[h].bytes = b0 + s0
  BY DEF Account
<1>6. /\ owed'[h].events = owed[h].events + dc - dc0 + dn - dn0
      /\ owed'[h].bytes = owed[h].bytes + db - db0 + ds - ds0
  OBVIOUS
<1>7. (owed'[h].events = c + n /\ owed'[h].bytes = b + s) => Account(h)'
  BY DEF Account
<1>. HIDE DEF c, b, n, s, c0, b0, n0, s0, dc, dc0, db, db0, dn, dn0, ds, ds0
<1>. QED  BY <1>2, <1>3, <1>4, <1>5, <1>6, <1>7

\* A step that changes neither a counter nor what any thread owes.
LEMMA AccountStays ==
    ASSUME TypeInv, TypeInv', AccountInv, NEW t \in Threads,
           UNCHANGED <<hash, count, total_bytes, owed>>,
           \A u \in Threads \ {t} : /\ pc'[u] = pc[u] /\ call'[u] = call[u]
                                    /\ idx'[u] = idx[u],
           OwnBucket(t)',
           \/ /\ call'[t] = call[t]
              /\ {pc[t], pc'[t]} \intersect {"initBytes", "addBytes", "publish"} = {}
           \/ (call[t].op # "record" \/ pc[t] = "publish") /\ call'[t].op # "record"
    PROVE  AccountInv'
<1>1. 0 \in Slots
  BY BucketAssumption DEF Slots
<1>2. ASSUME NEW h \in Hashes PROVE Account(h)'
  <2>1. /\ t \in Uncounted(h)' <=> t \in Uncounted(h)
        /\ t \in Unadded(h)' <=> t \in Unadded(h)
        /\ t \in Unadded(h) => call'[t].size = call[t].size
    BY DEF Uncounted, Unadded, Recording, HashOf
  <2>2. /\ Owes(t \in Uncounted(h)', 1) = Owes(t \in Uncounted(h), 1)
        /\ Owes(t \in Unadded(h)', call'[t].size) = Owes(t \in Unadded(h), call[t].size)
    BY <2>1 DEF Owes
  <2>3. AccountTypes /\ AccountTypes'
    BY AccountTyped, PTL
  <2>4. /\ Owes(t \in Uncounted(h), 1) \in Int /\ Owes(t \in Unadded(h), call[t].size) \in Int
        /\ Owes(hash[0] = h, count[0]) \in Int /\ Owes(hash[0] = h, total_bytes[0]) \in Int
        /\ owed[h].events \in Int /\ owed[h].bytes \in Int
    BY <1>1, <2>3 DEF AccountTypes, Owes, AccountInv, Owed
  <2>5. /\ owed'[h].events = owed[h].events
              + Owes(hash'[0] = h, count'[0]) - Owes(hash[0] = h, count[0])
              + Owes(t \in Uncounted(h)', 1) - Owes(t \in Uncounted(h), 1)
        /\ owed'[h].bytes = owed[h].bytes
              + Owes(hash'[0] = h, total_bytes'[0]) - Owes(hash[0] = h, total_bytes[0])
              + Owes(t \in Unadded(h)', call'[t].size)
              - Owes(t \in Unadded(h), call[t].size)
    BY <2>2, <2>4
  <2>. QED  BY <1>1, <2>5, Balance DEF AccountInv
<1>3. \A u \in Threads \ {t} : OwnBucket(u)'
  BY DEF AccountInv, OwnBucket, HashOf
<1>. QED  BY <1>2, <1>3 DEF AccountInv, Bare

LEMMA OweEffect ==
    ASSUME owed \in [Hashes -> Owed], NEW tr \in Traces, NEW e \in Int, NEW b \in Int,
           Owe(tr, e, b)
    PROVE  /\ owed' \in [Hashes -> Owed]
           /\ \A h \in Hashes :
                 /\ owed'[h].events = owed[h].events + Owes(h = Hash[tr], e)
                 /\ owed'[h].bytes  = owed[h].bytes + Owes(h = Hash[tr], b)
<1>1. Hash[tr] \in Hashes
  BY DEF Hashes
<1>. DEFINE one == [owed EXCEPT ![Hash[tr]].events = @ + e]
<1>2. /\ owed[Hash[tr]].events + e \in Int /\ owed[Hash[tr]].bytes + b \in Int
      /\ one \in [Hashes -> Owed]
      /\ \A h \in Hashes \ {Hash[tr]} : one[h] = owed[h]
      /\ one[Hash[tr]].events = owed[Hash[tr]].events + e
      /\ one[Hash[tr]].bytes = owed[Hash[tr]].bytes
  BY <1>1 DEF Owed
<1>5. owed' = [one EXCEPT ![Hash[tr]].bytes = @ + b]
  BY DEF Owe
<1>. HIDE DEF one
<1>6. /\ owed' \in [Hashes -> Owed]
      /\ \A h \in Hashes \ {Hash[tr]} : owed'[h] = owed[h]
      /\ owed'[Hash[tr]].events = owed[Hash[tr]].events + e
      /\ owed'[Hash[tr]].bytes = owed[Hash[tr]].bytes + b
  BY <1>1, <1>2, <1>5 DEF Owed
<1>3. \A h \in Hashes : owed[h].events \in Int /\ owed[h].bytes \in Int
  BY DEF Owed
<1>. QED  BY <1>1, <1>3, <1>6 DEF Owes

\* A call that gives up takes back what it owed, having counted nothing.
LEMMA GiveUpAccount ==
    ASSUME TypeInv, TypeInv', AccountInv, NEW t \in Threads, GiveUp(t),
           UNCHANGED <<hash, count, total_bytes>>, call[t].op = "record",
           pc[t] \notin {"initBytes", "addBytes", "publish"}
    PROVE  AccountInv'
<1>1. 0 \in Slots
  BY BucketAssumption DEF Slots
<1>2. /\ pc' = [pc EXCEPT ![t] = "idle"] /\ call' = [call EXCEPT ![t] = NoCall]
      /\ idx' = [idx EXCEPT ![t] = 0]
      /\ Owe(call[t].trace, -1, -call[t].size)
  BY DEF GiveUp, Leave, Goto
<1>3. /\ pc'[t] = "idle" /\ call'[t].op # "record"
      /\ \A u \in Threads \ {t} : /\ pc'[u] = pc[u] /\ call'[u] = call[u]
                                  /\ idx'[u] = idx[u]
  BY <1>2 DEF TypeInv, TypeOK, NoCall
<1>4. call[t].trace \in Traces /\ HashOf(t) \in Hashes
  BY DEF TypeInv, CallOK, CallOKOf, HashOf, Hashes
<1>5. AccountTypes /\ AccountTypes'
  BY AccountTyped, PTL
<1>6. /\ owed' \in [Hashes -> Owed]
      /\ \A h \in Hashes :
            /\ owed'[h].events = owed[h].events + Owes(h = HashOf(t), -1)
            /\ owed'[h].bytes  = owed[h].bytes + Owes(h = HashOf(t), -call[t].size)
  <2>1. -1 \in Int /\ -call[t].size \in Int
    BY <1>5 DEF AccountTypes
  <2>. QED  BY <1>2, <1>4, <2>1, OweEffect DEF AccountInv, HashOf
<1>7. ASSUME NEW h \in Hashes PROVE Account(h)'
  <2>1. /\ owed'[h].events = owed[h].events - Owes(h = HashOf(t), 1)
        /\ owed'[h].bytes = owed[h].bytes - Owes(h = HashOf(t), call[t].size)
        /\ owed[h].events \in Int /\ owed[h].bytes \in Int
    BY <1>5, <1>6 DEF AccountInv, Owed, Owes, AccountTypes
  <2>2. /\ t \notin Uncounted(h)' /\ t \notin Unadded(h)'
        /\ t \in Uncounted(h) <=> h = HashOf(t)
        /\ t \in Unadded(h) <=> h = HashOf(t)
    BY <1>3 DEF Uncounted, Unadded, Recording
  <2>3. /\ Owes(t \in Uncounted(h)', 1) = 0
        /\ Owes(t \in Unadded(h)', call'[t].size) = 0
        /\ Owes(t \in Uncounted(h), 1) = Owes(h = HashOf(t), 1)
        /\ Owes(t \in Unadded(h), call[t].size) = Owes(h = HashOf(t), call[t].size)
    BY <2>2 DEF Owes
  <2>4. /\ Owes(h = HashOf(t), 1) \in Int /\ Owes(h = HashOf(t), call[t].size) \in Int
        /\ Owes(hash[0] = h, count[0]) \in Int /\ Owes(hash[0] = h, total_bytes[0]) \in Int
    BY <1>1, <1>5 DEF AccountTypes, Owes
  <2>5. /\ owed'[h].events = owed[h].events
              + Owes(hash'[0] = h, count'[0]) - Owes(hash[0] = h, count[0])
              + Owes(t \in Uncounted(h)', 1) - Owes(t \in Uncounted(h), 1)
        /\ owed'[h].bytes = owed[h].bytes
              + Owes(hash'[0] = h, total_bytes'[0]) - Owes(hash[0] = h, total_bytes[0])
              + Owes(t \in Unadded(h)', call'[t].size)
              - Owes(t \in Unadded(h), call[t].size)
    BY <2>1, <2>3, <2>4
  <2>. QED  BY <1>1, <1>3, <1>6, <2>5, Balance DEF AccountInv
<1>8. \A u \in Threads : OwnBucket(u)'
  BY <1>3 DEF AccountInv, OwnBucket, HashOf, CountingPCs
<1>. QED  BY <1>6, <1>7, <1>8 DEF AccountInv, Bare

LEMMA BeginRecordAccount ==
    ASSUME TypeInv, TypeInv', AccountInv, NEW t \in Threads, BeginRecord(t)
    PROVE  AccountInv'
<1>1. PICK tr \in Traces \ {<< >>}, size \in Sizes :
         /\ call' = [call EXCEPT ![t] = [op |-> "record", trace |-> tr, size |-> size]]
         /\ Owe(tr, 1, size)
  BY DEF BeginRecord
<1>2. /\ pc[t] = "idle" /\ call[t].op # "record" /\ pc'[t] = "loadBase"
      /\ call'[t].op = "record" /\ call'[t].size = size
      /\ Hash[call'[t].trace] = Hash[tr]
      /\ UNCHANGED <<hash, count, total_bytes, idx>>
      /\ \A u \in Threads \ {t} : pc'[u] = pc[u] /\ call'[u] = call[u]
  BY <1>1 DEF BeginRecord, Goto, TypeInv, TypeOK, CallOK, CallOKOf, NoCall, table
<1>3. 0 \in Slots /\ size \in Int /\ 1 \in Int
  BY BucketAssumption, SizeAssumption DEF Slots
<1>4. /\ owed' \in [Hashes -> Owed]
      /\ \A h \in Hashes :
            /\ owed'[h].events = owed[h].events + Owes(h = Hash[tr], 1)
            /\ owed'[h].bytes  = owed[h].bytes + Owes(h = Hash[tr], size)
            /\ owed[h].events \in Int /\ owed[h].bytes \in Int
  BY <1>1, <1>3, OweEffect DEF AccountInv, Owed
<1>5. AccountTypes /\ AccountTypes'
  BY AccountTyped, PTL
<1>6. ASSUME NEW h \in Hashes PROVE Account(h)'
  <2>1. /\ t \notin Uncounted(h) /\ t \notin Unadded(h)
        /\ t \in Uncounted(h)' <=> h = Hash[tr]
        /\ t \in Unadded(h)' <=> h = Hash[tr]
    BY <1>2 DEF Uncounted, Unadded, Recording, HashOf
  <2>2. /\ Owes(t \in Uncounted(h), 1) = 0
        /\ Owes(t \in Unadded(h), call[t].size) = 0
        /\ Owes(t \in Uncounted(h)', 1) = Owes(h = Hash[tr], 1)
        /\ Owes(t \in Unadded(h)', call'[t].size) = Owes(h = Hash[tr], size)
    BY <1>2, <2>1 DEF Owes
  <2>3. /\ Owes(h = Hash[tr], 1) \in Int /\ Owes(h = Hash[tr], size) \in Int
        /\ Owes(hash[0] = h, count[0]) \in Int /\ Owes(hash[0] = h, total_bytes[0]) \in Int
        /\ Owes(hash'[0] = h, count'[0]) = Owes(hash[0] = h, count[0])
        /\ Owes(hash'[0] = h, total_bytes'[0]) = Owes(hash[0] = h, total_bytes[0])
    BY <1>2, <1>3, <1>5 DEF AccountTypes, Owes
  <2>4. /\ owed'[h].events = owed[h].events
              + Owes(hash'[0] = h, count'[0]) - Owes(hash[0] = h, count[0])
              + Owes(t \in Uncounted(h)', 1) - Owes(t \in Uncounted(h), 1)
        /\ owed'[h].bytes = owed[h].bytes
              + Owes(hash'[0] = h, total_bytes'[0]) - Owes(hash[0] = h, total_bytes[0])
              + Owes(t \in Unadded(h)', call'[t].size)
              - Owes(t \in Unadded(h), call[t].size)
    BY <1>4, <2>2, <2>3
  <2>. QED  BY <1>2, <1>3, <1>4, <2>4, Balance DEF AccountInv
<1>7. \A u \in Threads : OwnBucket(u)'
  BY <1>2 DEF AccountInv, OwnBucket, HashOf, CountingPCs
<1>. QED  BY <1>2, <1>4, <1>6, <1>7 DEF AccountInv, Bare

\* The steps on the way to the table, and those of a report.
LEMMA QuietAccount ==
    ASSUME TypeInv, TypeInv', AccountInv, NEW t \in Threads,
           BeginReport(t) \/ EnsureInit(t) \/ Report(t)
    PROVE  AccountInv'
<1>1. DOMAIN pc = Threads /\ DOMAIN call = Threads /\ DOMAIN idx = Threads
  BY DEF TypeInv, TypeOK
<1>2. CASE BeginReport(t) \/ TakeReport(t)
  <2>1. /\ UNCHANGED <<hash, count, total_bytes, owed>>
        /\ \A u \in Threads \ {t} : /\ pc'[u] = pc[u] /\ call'[u] = call[u]
                                    /\ idx'[u] = idx[u]
        /\ pc'[t] \in {"loadBase", "idle"} /\ pc[t] \in {"idle", "reported"}
    BY <1>1, <1>2 DEF BeginReport, TakeReport, Goto, table
  <2>2. call'[t].op # "record" /\ call[t].op # "record"
    <3>1. CASE BeginReport(t)
      BY <3>1 DEF BeginReport, TypeInv, TypeOK, CallOK, CallOKOf, NoCall
    <3>2. CASE TakeReport(t)
      BY <3>2 DEF TakeReport, TypeInv, TypeOK, CallOK, CallOKOf, NoCall, ReportPCs
    <3>. QED  BY <1>2, <3>1, <3>2
  <2>3. OwnBucket(t)'
    BY <2>1 DEF OwnBucket, CountingPCs
  <2>. QED  BY <2>1, <2>2, <2>3, AccountStays
<1>3. CASE /\ EnsureInit(t) \/ (Report(t) /\ ~TakeReport(t))
           /\ ~(AllocPagesFails(t) /\ call[t].op = "record")
  <2>1. /\ UNCHANGED <<hash, count, total_bytes, owed, call>>
        /\ \A u \in Threads \ {t} : pc'[u] = pc[u] /\ idx'[u] = idx[u]
        /\ pc[t] \in InitPCs \union ReportPCs
        /\ pc'[t] \in InitPCs \union ReportPCs \union {"probe"}
    <3>1. CASE LoadBase(t) \/ LoadBuckets(t) \/ AllocPages(t) \/ CasBase(t)
               \/ StoreBuckets(t) \/ FreePages(t) \/ AwaitBuckets(t)
      BY <1>1, <3>1 DEF LoadBase, LoadBuckets, AllocPages, CasBase, StoreBuckets, FreePages,
         AwaitBuckets, history, table, Goto, InitPCs
    <3>2. CASE LoadMask(t) \/ StoreMask(t)
      BY <1>1, <3>2 DEF LoadMask, StoreMask, Enter, history, table, Goto, InitPCs, ReportPCs
    <3>3. CASE AllocPagesFails(t)
      BY <1>1, <1>3, <3>3 DEF AllocPagesFails, history, table, Goto, InitPCs, ReportPCs
    <3>4. CASE ScanHash(t) \/ ScanFrameCount(t) \/ LoadBytes(t)
      BY <1>1, <3>4 DEF ScanHash, ScanFrameCount, LoadBytes, NextRow, history, table, Goto,
         ReportPCs
    <3>5. CASE LoadFrame(t) \/ LoadCount(t)
      BY <1>1, <3>5 DEF LoadFrame, LoadCount, history, table, Goto, ReportPCs
    <3>. QED  BY <1>3, <3>1, <3>2, <3>3, <3>4, <3>5 DEF EnsureInit, Report
  <2>2. /\ {pc[t], pc'[t]} \intersect {"initBytes", "addBytes", "publish"} = {}
        /\ OwnBucket(t)'
    BY <2>1 DEF InitPCs, ReportPCs, OwnBucket, CountingPCs
  <2>. QED  BY <2>1, <2>2, AccountStays
<1>4. CASE AllocPagesFails(t) /\ call[t].op = "record"
  BY <1>4, GiveUpAccount DEF AllocPagesFails, table
<1>. QED  BY <1>2, <1>3, <1>4 DEF Report

\* A probe that finds its bucket, moves on, or gives up.
LEMMA ProbeAccount ==
    ASSUME TypeInv, TypeInv', AccountInv, NEW t \in Threads,
           Probe(t) \/ ClaimLost(t)
    PROVE  AccountInv'
<1>1. /\ DOMAIN pc = Threads /\ DOMAIN call = Threads /\ DOMAIN idx = Threads
      /\ UNCHANGED <<hash, count, total_bytes>> /\ pc[t] \in {"probe", "claim"}
      /\ call[t].op = "record"
  BY DEF TypeInv, TypeOK, CallOK, CallOKOf, RecordPCs, Probe, ClaimLost, table
<1>2. CASE GiveUp(t)
  BY <1>1, <1>2, GiveUpAccount
<1>3. CASE ~GiveUp(t)
  <2>1. /\ UNCHANGED <<owed, call>>
        /\ \A u \in Threads \ {t} : pc'[u] = pc[u] /\ idx'[u] = idx[u]
        /\ \/ pc'[t] \in {"probe", "claim"}
           \/ pc'[t] = "addCount" /\ idx'[t] = idx[t] /\ hash[idx[t]] = HashOf(t)
    BY <1>1, <1>3, HashAssumption DEF Probe, ClaimLost, Advance, Goto
  <2>2. OwnBucket(t)'
    BY <1>1, <2>1 DEF OwnBucket, CountingPCs, HashOf
  <2>. QED  BY <1>1, <2>1, <2>2, AccountStays
<1>. QED  BY <1>2, <1>3

LEMMA WriteAccount ==
    ASSUME TypeInv, TypeInv', AccountInv, NEW t \in Threads,
           WriteFrame(t) \/ Publish(t)
    PROVE  AccountInv'
<1>1. /\ DOMAIN pc = Threads /\ DOMAIN call = Threads /\ DOMAIN idx = Threads
      /\ OwnBucket(t)
  BY DEF TypeInv, TypeOK, AccountInv
<1>2. CASE WriteFrame(t)
  <2>1. /\ UNCHANGED <<hash, count, total_bytes, owed, call, idx>>
        /\ pc[t] = "writeFrame" /\ pc'[t] \in {"writeFrame", "initCount"}
        /\ \A u \in Threads \ {t} : pc'[u] = pc[u]
    BY <1>1, <1>2 DEF WriteFrame, Goto, history
  <2>2. OwnBucket(t)'
    BY <1>1, <2>1 DEF OwnBucket, CountingPCs, HashOf
  <2>. QED  BY <2>1, <2>2, AccountStays
<1>3. CASE Publish(t)
  <2>1. /\ UNCHANGED <<hash, count, total_bytes, owed>> /\ pc[t] = "publish"
        /\ pc'[t] = "idle" /\ call'[t] = NoCall
        /\ \A u \in Threads \ {t} : /\ pc'[u] = pc[u] /\ call'[u] = call[u]
                                    /\ idx'[u] = idx[u]
    BY <1>1, <1>3 DEF Publish, Leave, Goto, history
  <2>2. OwnBucket(t)'
    BY <2>1 DEF OwnBucket, CountingPCs
  <2>. QED  BY <2>1, <2>2, AccountStays DEF NoCall
<1>. QED  BY <1>2, <1>3

\* A claimed bucket changes its site, with nothing counted in it.
LEMMA ClaimAccount ==
    ASSUME TypeInv, TypeInv', AccountInv, NEW t \in Threads, Claim(t)
    PROVE  AccountInv'
<1>. DEFINE i == idx[t]
<1>1. /\ pc[t] = "claim" /\ pc'[t] = "writeFrame" /\ i \in Slots
      /\ hash[i] = 0 /\ hash'[i] = HashOf(t) /\ call[t].trace \in Traces
      /\ UNCHANGED <<count, total_bytes, owed, call, idx>>
      /\ \A u \in Threads \ {t} : pc'[u] = pc[u]
      /\ \A j \in Slots \ {i} : hash'[j] = hash[j]
  BY DEF Claim, Goto, TypeInv, TypeOK, CallOK, CallOKOf, RecordPCs
<1>2. HashOf(t) # 0 /\ count[i] = 0 /\ total_bytes[i] = 0
  BY <1>1, HashAssumption DEF HashOf, AccountInv, Bare
<1>3. AccountTypes /\ AccountTypes'
  BY AccountTyped, PTL
<1>4. ASSUME NEW h \in Hashes PROVE Account(h)'
  <2>1. /\ t \in Uncounted(h)' <=> t \in Uncounted(h)
        /\ t \in Unadded(h)' <=> t \in Unadded(h)
    BY <1>1 DEF Uncounted, Unadded, Recording, HashOf
  <2>2. /\ Owes(t \in Uncounted(h)', 1) = Owes(t \in Uncounted(h), 1)
        /\ Owes(t \in Unadded(h)', call'[t].size) = Owes(t \in Unadded(h), call[t].size)
        /\ Owes(hash[i] = h, count[i]) = 0 /\ Owes(hash'[i] = h, count'[i]) = 0
        /\ Owes(hash[i] = h, total_bytes[i]) = 0 /\ Owes(hash'[i] = h, total_bytes'[i]) = 0
    BY <1>1, <1>2, <2>1 DEF Owes
  <2>3. /\ Owes(t \in Uncounted(h), 1) \in Int /\ Owes(t \in Unadded(h), call[t].size) \in Int
        /\ owed[h].events \in Int /\ owed[h].bytes \in Int
    BY <1>3 DEF AccountTypes, Owes, AccountInv, Owed
  <2>4. /\ owed'[h].events = owed[h].events
              + Owes(hash'[i] = h, count'[i]) - Owes(hash[i] = h, count[i])
              + Owes(t \in Uncounted(h)', 1) - Owes(t \in Uncounted(h), 1)
        /\ owed'[h].bytes = owed[h].bytes
              + Owes(hash'[i] = h, total_bytes'[i]) - Owes(hash[i] = h, total_bytes[i])
              + Owes(t \in Unadded(h)', call'[t].size)
              - Owes(t \in Unadded(h), call[t].size)
    BY <1>1, <2>2, <2>3
  <2>. QED  BY <1>1, <2>4, Balance DEF AccountInv
<1>5. ASSUME NEW u \in Threads PROVE OwnBucket(u)'
  <2>1. CASE u = t
    BY <1>1, <2>1 DEF OwnBucket, HashOf
  <2>2. CASE u # t
    <3>1. OwnBucket(u) /\ pc'[u] = pc[u] /\ HashOf(u)' = HashOf(u) /\ idx[u] \in Slots
      BY <1>1, <2>2 DEF AccountInv, HashOf, TypeInv, TypeOK
    <3>2. pc[u] \in CountingPCs => HashOf(u) # 0
      BY HashAssumption DEF HashOf, TypeInv, CallOK, CallOKOf, CountingPCs, RecordPCs
    <3>. QED  BY <1>1, <3>1, <3>2 DEF OwnBucket
  <2>. QED  BY <2>1, <2>2
<1>6. Bare'
  BY <1>1, <1>2 DEF AccountInv, Bare
<1>. QED  BY <1>1, <1>4, <1>5, <1>6 DEF AccountInv

\* A fetch_add on a bucket: what the thread no longer owes.
LEMMA CountAccount ==
    ASSUME TypeInv, TypeInv', AccountInv, NEW t \in Threads,
           AddCount(t) \/ InitBytes(t) \/ AddBytes(t)
    PROVE  AccountInv'
<1>. DEFINE i == idx[t]
<1>1. /\ i \in Slots /\ call[t].op = "record" /\ call[t].trace \in Traces
      /\ pc[t] \in CountingPCs /\ OwnBucket(t)
      /\ DOMAIN pc = Threads /\ DOMAIN call = Threads /\ DOMAIN idx = Threads
      /\ DOMAIN count = Slots /\ DOMAIN total_bytes = Slots
  BY DEF AddCount, InitBytes, AddBytes, TypeInv, TypeOK, CallOK, CallOKOf, RecordPCs,
         CountingPCs, AccountInv
<1>2. hash[i] = HashOf(t) /\ HashOf(t) # 0
  BY <1>1, HashAssumption DEF OwnBucket, HashOf
<1>3. /\ UNCHANGED <<hash, owed>>
      /\ \A u \in Threads \ {t} : /\ pc'[u] = pc[u] /\ call'[u] = call[u]
                                  /\ idx'[u] = idx[u]
      /\ \A j \in Slots \ {i} : /\ hash'[j] = hash[j] /\ count'[j] = count[j]
                                 /\ total_bytes'[j] = total_bytes[j]
  <2>1. CASE AddCount(t) \/ InitBytes(t)
    BY <1>1, <2>1 DEF AddCount, InitBytes, Goto, history
  <2>2. CASE AddBytes(t)
    BY <1>1, <2>2 DEF AddBytes, Leave, Goto, history
  <2>. QED  BY <2>1, <2>2
<1>4. AccountTypes /\ AccountTypes'
  BY AccountTyped, PTL
<1>5. /\ count[i] \in Int /\ total_bytes[i] \in Int /\ call[t].size \in Int
      /\ \A h \in Hashes : owed[h].events \in Int /\ owed[h].bytes \in Int
  BY <1>1, <1>4 DEF AccountTypes, AccountInv, Owed
<1>6. CASE AddCount(t)
  <2>1. /\ count'[i] = count[i] + 1 /\ total_bytes'[i] = total_bytes[i]
        /\ pc[t] \in {"initCount", "addCount"} /\ pc'[t] \in {"initBytes", "addBytes"}
        /\ call' = call /\ idx' = idx
    BY <1>1, <1>6 DEF AddCount, Goto
  <2>2. ASSUME NEW h \in Hashes PROVE Account(h)'
    <3>1. /\ t \notin Uncounted(h)'
          /\ t \in Uncounted(h) <=> hash[i] = h
          /\ t \in Unadded(h)' <=> t \in Unadded(h)
      BY <1>1, <1>2, <2>1 DEF Uncounted, Unadded, Recording, HashOf
    <3>3. /\ Owes(t \in Uncounted(h)', 1) = 0
          /\ Owes(t \in Uncounted(h), 1) = Owes(hash[i] = h, 1)
          /\ Owes(t \in Unadded(h)', call'[t].size) = Owes(t \in Unadded(h), call[t].size)
      BY <2>1, <3>1 DEF Owes
    <3>5. /\ Owes(hash'[i] = h, count'[i]) = Owes(hash[i] = h, count[i]) + Owes(hash[i] = h, 1)
          /\ Owes(hash'[i] = h, total_bytes'[i]) = Owes(hash[i] = h, total_bytes[i])
      <4>1. CASE hash[i] = h
        BY <1>3, <1>5, <2>1, <4>1 DEF Owes
      <4>2. CASE hash[i] # h
        BY <1>3, <2>1, <4>2 DEF Owes
      <4>. QED  BY <4>1, <4>2
    <3>4. /\ Owes(hash[i] = h, 1) \in Int /\ Owes(hash[i] = h, count[i]) \in Int
          /\ Owes(hash[i] = h, total_bytes[i]) \in Int
          /\ Owes(t \in Unadded(h), call[t].size) \in Int
          /\ owed'[h].events = owed[h].events /\ owed'[h].bytes = owed[h].bytes
          /\ owed[h].events \in Int /\ owed[h].bytes \in Int
      BY <1>3, <1>5 DEF Owes
    <3>2. /\ owed'[h].events = owed[h].events
              + Owes(hash'[i] = h, count'[i]) - Owes(hash[i] = h, count[i])
              + Owes(t \in Uncounted(h)', 1) - Owes(t \in Uncounted(h), 1)
          /\ owed'[h].bytes = owed[h].bytes
              + Owes(hash'[i] = h, total_bytes'[i]) - Owes(hash[i] = h, total_bytes[i])
              + Owes(t \in Unadded(h)', call'[t].size)
              - Owes(t \in Unadded(h), call[t].size)
      BY <3>3, <3>4, <3>5
    <3>6. /\ Account(h) /\ owed \in [Hashes -> Owed] /\ owed' \in [Hashes -> Owed]
          /\ \A u \in Threads \ {t} : pc'[u] = pc[u] /\ call'[u] = call[u]
      BY <1>3 DEF AccountInv
    <3>. QED  BY <1>1, <1>3, <3>2, <3>6, Balance
  <2>3. OwnBucket(t)'
    BY <1>1, <1>2, <1>3, <2>1 DEF OwnBucket, HashOf
  <2>4. \A u \in Threads \ {t} : OwnBucket(u)'
    BY <1>3 DEF AccountInv, OwnBucket, HashOf
  <2>5. Bare'
    BY <1>2, <1>3 DEF AccountInv, Bare
  <2>. QED  BY <1>3, <2>2, <2>3, <2>4, <2>5 DEF AccountInv
<1>7. CASE InitBytes(t) \/ AddBytes(t)
  <2>1. /\ total_bytes'[i] = total_bytes[i] + call[t].size /\ count'[i] = count[i]
        /\ \/ /\ pc[t] = "initBytes" /\ pc'[t] = "publish" /\ call'[t] = call[t]
              /\ idx'[t] = idx[t]
           \/ pc[t] = "addBytes" /\ pc'[t] = "idle" /\ call'[t] = NoCall
    <3>1. CASE InitBytes(t)
      BY <1>1, <3>1 DEF InitBytes, Goto
    <3>2. CASE AddBytes(t)
      BY <1>1, <3>2 DEF AddBytes, Leave, Goto
    <3>. QED  BY <1>7, <3>1, <3>2
  <2>2. ASSUME NEW h \in Hashes PROVE Account(h)'
    <3>1. /\ t \notin Uncounted(h)' /\ t \notin Uncounted(h)
          /\ t \notin Unadded(h)'
          /\ t \in Unadded(h) <=> hash[i] = h
      BY <1>1, <1>2, <2>1 DEF Uncounted, Unadded, Recording, HashOf, NoCall
    <3>3. /\ Owes(t \in Uncounted(h)', 1) = 0 /\ Owes(t \in Uncounted(h), 1) = 0
          /\ Owes(t \in Unadded(h)', call'[t].size) = 0
          /\ Owes(t \in Unadded(h), call[t].size) = Owes(hash[i] = h, call[t].size)
      BY <3>1 DEF Owes
    <3>5. /\ Owes(hash'[i] = h, count'[i]) = Owes(hash[i] = h, count[i])
          /\ Owes(hash'[i] = h, total_bytes'[i])
                = Owes(hash[i] = h, total_bytes[i]) + Owes(hash[i] = h, call[t].size)
      <4>1. CASE hash[i] = h
        BY <1>3, <1>5, <2>1, <4>1 DEF Owes
      <4>2. CASE hash[i] # h
        BY <1>3, <2>1, <4>2 DEF Owes
      <4>. QED  BY <4>1, <4>2
    <3>4. /\ Owes(hash[i] = h, 1) \in Int /\ Owes(hash[i] = h, count[i]) \in Int
          /\ Owes(hash[i] = h, total_bytes[i]) \in Int
          /\ Owes(t \in Unadded(h), call[t].size) \in Int
          /\ owed'[h].events = owed[h].events /\ owed'[h].bytes = owed[h].bytes
          /\ owed[h].events \in Int /\ owed[h].bytes \in Int
      BY <1>3, <1>5 DEF Owes
    <3>2. /\ owed'[h].events = owed[h].events
              + Owes(hash'[i] = h, count'[i]) - Owes(hash[i] = h, count[i])
              + Owes(t \in Uncounted(h)', 1) - Owes(t \in Uncounted(h), 1)
          /\ owed'[h].bytes = owed[h].bytes
              + Owes(hash'[i] = h, total_bytes'[i]) - Owes(hash[i] = h, total_bytes[i])
              + Owes(t \in Unadded(h)', call'[t].size)
              - Owes(t \in Unadded(h), call[t].size)
      BY <3>3, <3>4, <3>5
    <3>6. /\ Account(h) /\ owed \in [Hashes -> Owed] /\ owed' \in [Hashes -> Owed]
          /\ \A u \in Threads \ {t} : pc'[u] = pc[u] /\ call'[u] = call[u]
      BY <1>3 DEF AccountInv
    <3>. QED  BY <1>1, <1>3, <3>2, <3>6, Balance
  <2>3. OwnBucket(t)'
    BY <1>1, <1>2, <1>3, <2>1 DEF OwnBucket, HashOf, CountingPCs
  <2>4. \A u \in Threads \ {t} : OwnBucket(u)'
    BY <1>3 DEF AccountInv, OwnBucket, HashOf
  <2>5. Bare'
    BY <1>2, <1>3 DEF AccountInv, Bare
  <2>. QED  BY <1>3, <2>2, <2>3, <2>4, <2>5 DEF AccountInv
<1>. QED  BY <1>6, <1>7

\* Nothing counted, nobody counting, nothing owed.
LEMMA ZeroAccount ==
    ASSUME \A i \in Slots : hash[i] = 0 /\ count[i] = 0 /\ total_bytes[i] = 0,
           \A t \in Threads : pc[t] = "idle" /\ call[t] = NoCall,
           owed = [h \in Hashes |-> [events |-> 0, bytes |-> 0]]
    PROVE  AccountInv
<1>1. ASSUME NEW h \in Hashes PROVE Account(h)
  <2>1. Uncounted(h) = {} /\ Unadded(h) = {}
    BY DEF Uncounted, Unadded, Recording, NoCall
  <2>2. SlotsOf(h) \subseteq Slots
    BY DEF SlotsOf
  <2>3. SumOf(count, SlotsOf(h)) = 0 /\ SumOf(total_bytes, SlotsOf(h)) = 0
    BY <2>2, FiniteSlots, FS_Subset, SumZero
  <2>4. Cardinality({}) = 0 /\ SumOf(Size, {}) = 0
    BY FS_EmptySet, SumEmpty
  <2>. QED  BY <2>1, <2>3, <2>4 DEF Account
<1>2. owed \in [Hashes -> Owed] /\ \A t \in Threads : OwnBucket(t)
  BY DEF Owed, OwnBucket, CountingPCs
<1>. QED  BY <1>1, <1>2 DEF AccountInv, Bare

ZeroTable ==
    /\ \A i \in Slots : hash[i] = 0 /\ count[i] = 0 /\ total_bytes[i] = 0
    /\ \A t \in Threads : pc[t] = "idle" /\ call[t] = NoCall
    /\ owed = [h \in Hashes |-> [events |-> 0, bytes |-> 0]]

LEMMA ZeroTableAccount == ZeroTable => AccountInv
BY ZeroAccount DEF ZeroTable

LEMMA InitAccount == Init => AccountInv
BY ZeroTableAccount DEF Init, ZeroTable

LEMMA ResetAccount ==
    ASSUME TypeInv, NEW t \in Threads, Reset(t)
    PROVE  AccountInv'
<1>1. ZeroTable'
  BY DEF Reset, ZeroTable, locals, TypeInv, CallOK, CallOKOf
<1>. QED  BY <1>1, ZeroTableAccount, PTL

LEMMA NextAccount ==
    ASSUME TypeInv, TypeInv', AccountInv, [Next]_vars
    PROVE  AccountInv'
<1>1. CASE UNCHANGED vars
  <2>1. UNCHANGED <<hash, count, total_bytes, pc, call, idx, owed>>
    BY <1>1 DEF vars, table, locals, history
  <2>2. \A h : /\ SlotsOf(h)' = SlotsOf(h) /\ Uncounted(h)' = Uncounted(h)
               /\ Unadded(h)' = Unadded(h) /\ Size' = Size
    BY <2>1 DEF SlotsOf, Uncounted, Unadded, Recording, HashOf, Size
  <2>. QED  BY <2>1, <2>2 DEF AccountInv, Account, OwnBucket, HashOf, Bare
<1>2. ASSUME NEW t \in Threads,
             BeginRecord(t) \/ BeginReport(t) \/ Reset(t) \/ Step(t)
      PROVE  AccountInv'
  BY <1>2, BeginRecordAccount, QuietAccount, ProbeAccount, WriteAccount, ClaimAccount,
     CountAccount, ResetAccount DEF Step, Record
<1>. QED  BY <1>1, <1>2 DEF Next, Rest

\* However many threads claim and match the buckets of a site at once: every event
\* and every byte that no call has given up is in a bucket of its site or in the
\* hands of a call that has not come to its fetch_add (table.rs:187-194).
THEOREM EveryEventIsCounted == Spec => []NothingLost
<1>1. TypeInv /\ AccountInv /\ [Next]_vars => (TypeInv /\ AccountInv)'
  BY NextType, NextAccount
<1>. QED  BY <1>1, InitType, InitAccount, AccountNothingLost, PTL DEF Spec

-----------------------------------------------------------------------------
(* What the buckets and the rows of a report hold.                           *)

FillPCs == {"writeFrame", "initCount", "initBytes", "publish"}
ReadPCs == {"loadFrame", "loadCount", "loadBytes"}

\* f has the first p frames of g, and 0 above them.
Upto(f, g, p) == \A k \in 1 .. MaxFrames : f[k] = IF k <= p THEN g[k] ELSE 0

\* The thread that claimed a bucket and has not published it is alone to fill it.
FillerOK(t) ==
    pc[t] \in FillPCs =>
       /\ frame_count[idx[t]] = 0
       /\ Upto(sample_frames[idx[t]], call[t].trace, pos[t])
       /\ pc[t] # "writeFrame" => pos[t] = Len(call[t].trace)
       /\ pc[t] \in {"initBytes", "publish"} => count[idx[t]] >= 1
       /\ pc[t] = "publish" => total_bytes[idx[t]] >= 1
       /\ \A u \in Threads : pc[u] \in FillPCs /\ idx[u] = idx[t] => u = t

\* A free bucket is blank; a published one has a whole trace of its hash.
BucketOK(i) ==
    /\ hash[i] = 0 => frame_count[i] = 0 /\ sample_frames[i] = NoFrames
    /\ frame_count[i] # 0 =>
          /\ count[i] >= 1 /\ total_bytes[i] >= 1
          /\ \E tr \in Traces : /\ hash[i] = Hash[tr]
                                /\ frame_count[i] = Len(tr)
                                /\ Upto(sample_frames[i], tr, Len(tr))

WriteInv == /\ \A i \in Slots : BucketOK(i)
            /\ \A t \in Threads : FillerOK(t)

\* What the steps of the others leave to a thread.
Alone(u) == /\ pc'[u] = pc[u] /\ call'[u] = call[u] /\ idx'[u] = idx[u]
            /\ pos'[u] = pos[u]

LEMMA OthersAlone ==
    ASSUME TypeInv, ReportInv, NEW t \in Threads, Moving(t), NEW u \in Threads \ {t}
    PROVE  Alone(u)
<1>1. Same(u)
  BY OthersSame
<1>2. pos'[u] = pos[u]
  <2>1. \/ UNCHANGED pos
        \/ \E new : pos' = [pos EXCEPT ![t] = new]
    <3>1. CASE BeginRecord(t) \/ BeginReport(t) \/ TakeReport(t)
      BY <3>1 DEF BeginRecord, BeginReport, TakeReport
    <3>2. CASE EnsureInit(t)
      BY <3>2 DEF EnsureInit, LoadBase, LoadBuckets, LoadMask, AllocPages, AllocPagesFails,
         CasBase, StoreBuckets, StoreMask, FreePages, AwaitBuckets, Enter, GiveUp, Leave
    <3>3. CASE Record(t)
      BY <3>3 DEF Record, Probe, Claim, ClaimLost, WriteFrame, AddCount, InitBytes, AddBytes,
         Publish, Advance, GiveUp, Leave
    <3>4. CASE ScanHash(t) \/ ScanFrameCount(t) \/ LoadFrame(t) \/ LoadCount(t) \/ LoadBytes(t)
      BY <3>4 DEF ScanHash, ScanFrameCount, LoadFrame, LoadCount, LoadBytes, NextRow
    <3>. QED  BY <3>1, <3>2, <3>3, <3>4 DEF Moving, Step, Report
  <2>. QED  BY <2>1 DEF TypeInv, TypeOK
<1>. QED  BY <1>1, <1>2 DEF Same, Alone

\* A step that fills no bucket, of a thread that fills none afterwards.
LEMMA QuietWrite ==
    ASSUME TypeInv, TypeInv', WriteInv, NEW t \in Threads,
           UNCHANGED <<hash, frame_count, sample_frames>>, Grows,
           pc'[t] \notin FillPCs, \A u \in Threads \ {t} : Alone(u)
    PROVE  WriteInv'
<1>1. \A i \in Slots : /\ count[i] \in Nat /\ total_bytes[i] \in Nat
                       /\ count'[i] \in Nat /\ total_bytes'[i] \in Nat
                       /\ count'[i] >= count[i] /\ total_bytes'[i] >= total_bytes[i]
  BY DEF TypeInv, TypeOK, Grows
<1>2. ASSUME NEW i \in Slots PROVE BucketOK(i)'
  <2>1. /\ hash'[i] = hash[i] /\ frame_count'[i] = frame_count[i]
        /\ sample_frames'[i] = sample_frames[i]
    OBVIOUS
  <2>2. BucketOK(i)
    BY DEF WriteInv
  <2>3. frame_count[i] # 0 => count'[i] >= 1 /\ total_bytes'[i] >= 1
    BY <1>1, <2>2 DEF BucketOK
  <2>. QED  BY <2>1, <2>2, <2>3 DEF BucketOK, Upto
<1>3. ASSUME NEW u \in Threads PROVE FillerOK(u)'
  <2>1. CASE u = t
    BY <2>1 DEF FillerOK
  <2>2. CASE u # t /\ pc[u] \in FillPCs
    <3>1. FillerOK(u) /\ Alone(u) /\ idx[u] \in Slots
      BY <2>2 DEF WriteInv, TypeInv, TypeOK
    <3>2. /\ pc'[u] \in {"initBytes", "publish"} => count'[idx[u]] >= 1
          /\ pc'[u] = "publish" => total_bytes'[idx[u]] >= 1
      BY <1>1, <2>2, <3>1 DEF FillerOK, Alone
    <3>3. \A v \in Threads : pc'[v] \in FillPCs /\ idx'[v] = idx'[u] => v = u
      BY <2>2, <3>1 DEF FillerOK, Alone
    <3>. QED  BY <2>2, <3>1, <3>2, <3>3 DEF FillerOK, Alone, Upto
  <2>3. CASE u # t /\ pc[u] \notin FillPCs
    BY <2>3 DEF FillerOK, Alone
  <2>. QED  BY <2>1, <2>2, <2>3
<1>. QED  BY <1>2, <1>3 DEF WriteInv

\* A step of the thread that fills a bucket.
LEMMA OwnWrite ==
    ASSUME TypeInv, TypeInv', WriteInv, NEW t \in Threads, Grows,
           idx'[t] = idx[t] \/ pc'[t] \notin FillPCs,
           \A u \in Threads \ {t} : Alone(u) /\ (pc[u] \in FillPCs => idx[u] # idx[t]),
           \A i \in Slots \ {idx[t]} : /\ hash'[i] = hash[i]
                                       /\ frame_count'[i] = frame_count[i]
                                       /\ sample_frames'[i] = sample_frames[i],
           \A i \in Slots : i = idx[t] => BucketOK(i)',
           pc'[t] \in FillPCs =>
              /\ frame_count'[idx[t]] = 0
              /\ Upto(sample_frames'[idx[t]], call'[t].trace, pos'[t])
              /\ pc'[t] # "writeFrame" => pos'[t] = Len(call'[t].trace)
              /\ pc'[t] \in {"initBytes", "publish"} => count'[idx[t]] >= 1
              /\ pc'[t] = "publish" => total_bytes'[idx[t]] >= 1
    PROVE  WriteInv'
<1>1. \A i \in Slots : /\ count[i] \in Nat /\ total_bytes[i] \in Nat
                       /\ count'[i] \in Nat /\ total_bytes'[i] \in Nat
                       /\ count'[i] >= count[i] /\ total_bytes'[i] >= total_bytes[i]
  BY DEF TypeInv, TypeOK, Grows
<1>2. ASSUME NEW i \in Slots PROVE BucketOK(i)'
  <2>1. CASE i # idx[t]
    <3>1. /\ hash'[i] = hash[i] /\ frame_count'[i] = frame_count[i]
          /\ sample_frames'[i] = sample_frames[i]
      BY <2>1
    <3>2. BucketOK(i)
      BY DEF WriteInv
    <3>3. frame_count[i] # 0 => count'[i] >= 1 /\ total_bytes'[i] >= 1
      BY <1>1, <3>2 DEF BucketOK
    <3>. QED  BY <3>1, <3>2, <3>3 DEF BucketOK, Upto
  <2>2. CASE i = idx[t]
    BY <2>2
  <2>. QED  BY <2>1, <2>2
<1>3. ASSUME NEW u \in Threads PROVE FillerOK(u)'
  <2>1. CASE u = t
    <3>1. pc'[t] \in FillPCs =>
             \A v \in Threads : pc'[v] \in FillPCs /\ idx'[v] = idx'[t] => v = t
      BY DEF Alone
    <3>2. pc'[t] \in FillPCs => idx'[t] = idx[t]
      OBVIOUS
    <3>. QED  BY <2>1, <3>1, <3>2 DEF FillerOK
  <2>2. CASE u # t /\ pc[u] \in FillPCs
    <3>1. /\ FillerOK(u) /\ Alone(u) /\ idx[u] \in Slots \ {idx[t]}
      BY <2>2 DEF WriteInv, TypeInv, TypeOK
    <3>2. /\ pc'[u] \in {"initBytes", "publish"} => count'[idx[u]] >= 1
          /\ pc'[u] = "publish" => total_bytes'[idx[u]] >= 1
      BY <1>1, <2>2, <3>1 DEF FillerOK, Alone
    <3>3. \A v \in Threads : pc'[v] \in FillPCs /\ idx'[v] = idx'[u] => v = u
      BY <2>2, <3>1 DEF FillerOK, Alone
    <3>. QED  BY <2>2, <3>1, <3>2, <3>3 DEF FillerOK, Alone, Upto
  <2>3. CASE u # t /\ pc[u] \notin FillPCs
    BY <2>3 DEF FillerOK, Alone
  <2>. QED  BY <2>1, <2>2, <2>3
<1>. QED  BY <1>2, <1>3 DEF WriteInv

LEMMA QuietSteps ==
    ASSUME TypeInv, TypeInv', ReportInv, WriteInv, NEW t \in Threads, Grows,
           \/ BeginRecord(t) \/ BeginReport(t) \/ EnsureInit(t) \/ Report(t)
           \/ Probe(t) \/ ClaimLost(t) \/ AddBytes(t)
           \/ (AddCount(t) /\ pc[t] = "addCount")
    PROVE  WriteInv'
<1>1. \A u \in Threads \ {t} : Alone(u)
  BY OthersAlone DEF Moving, Step, Record
<1>2. UNCHANGED <<hash, frame_count, sample_frames>> /\ pc'[t] \notin FillPCs
  <2>1. DOMAIN pc = Threads
    BY DEF TypeInv, TypeOK
  <2>. USE <2>1 DEF FillPCs, Goto, table
  <2>2. CASE BeginRecord(t) \/ BeginReport(t) \/ TakeReport(t)
    BY <2>2 DEF BeginRecord, BeginReport, TakeReport
  <2>3. CASE LoadBase(t) \/ LoadBuckets(t) \/ AllocPages(t) \/ CasBase(t)
             \/ StoreBuckets(t) \/ FreePages(t) \/ AwaitBuckets(t)
    BY <2>3 DEF LoadBase, LoadBuckets, AllocPages, CasBase, StoreBuckets, FreePages,
       AwaitBuckets
  <2>4. CASE LoadMask(t) \/ StoreMask(t)
    BY <2>4 DEF LoadMask, StoreMask, Enter
  <2>5. CASE AllocPagesFails(t)
    BY <2>5 DEF AllocPagesFails, GiveUp, Leave
  <2>6. CASE ScanHash(t) \/ ScanFrameCount(t) \/ LoadBytes(t)
    BY <2>6 DEF ScanHash, ScanFrameCount, LoadBytes, NextRow
  <2>7. CASE LoadFrame(t) \/ LoadCount(t)
    BY <2>7 DEF LoadFrame, LoadCount
  <2>8. CASE Probe(t) \/ ClaimLost(t)
    BY <2>8 DEF Probe, ClaimLost, Advance, GiveUp, Leave
  <2>9. CASE AddBytes(t) \/ (AddCount(t) /\ pc[t] = "addCount")
    BY <2>9 DEF AddBytes, AddCount, Leave
  <2>. QED  BY <2>2, <2>3, <2>4, <2>5, <2>6, <2>7, <2>8, <2>9 DEF EnsureInit, Report
<1>. QED  BY <1>1, <1>2, QuietWrite

\* A free bucket is nobody's to fill.
LEMMA ClaimWrite ==
    ASSUME TypeInv, TypeInv', ReportInv, AccountInv, WriteInv, NEW t \in Threads, Grows, Claim(t)
    PROVE  WriteInv'
<1>1. \A u \in Threads \ {t} : Alone(u)
  BY OthersAlone DEF Moving, Step, Record
<1>2. /\ idx[t] \in Slots /\ hash[idx[t]] = 0 /\ pc[t] = "claim" /\ pc'[t] = "writeFrame"
      /\ hash'[idx[t]] = HashOf(t)
      /\ UNCHANGED <<frame_count, sample_frames, count, total_bytes, call, idx, pos>>
      /\ \A i \in Slots \ {idx[t]} : hash'[i] = hash[i]
      /\ call[t].trace \in Traces /\ pos[t] = 0
  BY DEF Claim, Goto, TypeInv, TypeOK, CallOK, CallOKOf, RecordPCs
<1>3. HashOf(t) # 0 /\ frame_count[idx[t]] = 0 /\ sample_frames[idx[t]] = NoFrames
  BY <1>2, HashAssumption DEF HashOf, WriteInv, BucketOK
<1>4. ASSUME NEW u \in Threads, pc[u] \in FillPCs PROVE idx[u] # idx[t]
  <2>1. hash[idx[u]] = HashOf(u) /\ HashOf(u) # 0
    BY <1>4, HashAssumption DEF AccountInv, OwnBucket, CountingPCs, FillPCs, HashOf, TypeInv,
       CallOK, CallOKOf, RecordPCs
  <2>. QED  BY <1>2, <2>1
<1>5. ASSUME NEW i \in Slots, i = idx[t] PROVE BucketOK(i)'
  BY <1>2, <1>3, <1>5 DEF BucketOK
<1>6. Upto(sample_frames'[idx[t]], call'[t].trace, pos'[t])
  BY <1>2, <1>3, TraceAssumption DEF Upto, NoFrames
<1>. QED  BY <1>1, <1>2, <1>3, <1>4, <1>5, <1>6, OwnWrite

\* Nobody else fills the bucket that a thread fills.
LEMMA FillerAlone ==
    ASSUME WriteInv, NEW t \in Threads, pc[t] \in FillPCs
    PROVE  \A u \in Threads \ {t} : pc[u] \in FillPCs => idx[u] # idx[t]
BY DEF WriteInv, FillerOK

LEMMA FrameWrite ==
    ASSUME TypeInv, TypeInv', ReportInv, AccountInv, WriteInv, NEW t \in Threads, Grows,
           WriteFrame(t)
    PROVE  WriteInv'
<1>. DEFINE i == idx[t]
            k == pos[t] + 1
            tr == call[t].trace
<1>1. \A u \in Threads \ {t} : Alone(u)
  BY OthersAlone DEF Moving, Step, Record
<1>2. /\ i \in Slots /\ pc[t] = "writeFrame" /\ FillerOK(t) /\ tr \in Traces
      /\ sample_frames' = [sample_frames EXCEPT ![i][k] = tr[k]]
      /\ pos'[t] = k /\ pos[t] \in Nat /\ k <= Len(tr) /\ Len(tr) \in Nat /\ Len(tr) <= MaxFrames
      /\ MaxFrames \in Nat
      /\ pc'[t] = IF k = Len(tr) THEN "initCount" ELSE "writeFrame"
      /\ UNCHANGED <<hash, frame_count, count, total_bytes, call, idx>>
      /\ sample_frames \in [Slots -> Frames]
  <2>1. /\ i \in Slots /\ DOMAIN pc = Threads /\ DOMAIN pos = Threads /\ FillerOK(t)
        /\ CallOKOf(t) /\ pos[t] \in Nat /\ sample_frames \in [Slots -> Frames]
    BY TraceAssumption DEF TypeInv, TypeOK, CallOK, WriteInv
  <2>2. /\ pc[t] = "writeFrame" /\ sample_frames' = [sample_frames EXCEPT ![i][k] = tr[k]]
        /\ pos'[t] = k /\ pc'[t] = IF k = Len(tr) THEN "initCount" ELSE "writeFrame"
        /\ UNCHANGED <<hash, frame_count, count, total_bytes, call, idx>>
    BY <2>1 DEF WriteFrame, Goto
  <2>3. tr \in Traces /\ pos[t] < Len(tr)
    BY <2>1, <2>2 DEF CallOKOf, RecordPCs
  <2>4. Len(tr) \in Nat /\ Len(tr) <= MaxFrames /\ MaxFrames \in Nat
    BY <2>3, TraceAssumption
  <2>. QED  BY <2>1, <2>2, <2>3, <2>4
<1>3. frame_count[i] = 0 /\ Upto(sample_frames[i], tr, pos[t])
  BY <1>2 DEF FillerOK, FillPCs
<1>4. Upto(sample_frames'[i], tr, k)
  <2>1. k \in 1 .. MaxFrames
    BY <1>2
  <2>2. \A j \in 1 .. MaxFrames : sample_frames'[i][j] = IF j = k THEN tr[k] ELSE sample_frames[i][j]
    BY <1>2, <2>1 DEF Frames
  <2>3. \A j \in 1 .. MaxFrames : j # k => (j <= k <=> j <= pos[t])
    BY <1>2
  <2>. QED  BY <1>2, <1>3, <2>1, <2>2, <2>3 DEF Upto
<1>5. \A j \in Slots \ {i} : sample_frames'[j] = sample_frames[j]
  BY <1>2
<1>6. hash[i] # 0
  BY <1>2, HashAssumption DEF AccountInv, OwnBucket, CountingPCs, HashOf
<1>7. ASSUME NEW j \in Slots, j = i PROVE BucketOK(j)'
  BY <1>2, <1>3, <1>6, <1>7 DEF BucketOK
<1>8. \A u \in Threads \ {t} : pc[u] \in FillPCs => idx[u] # i
  BY <1>2, FillerAlone DEF FillPCs
<1>. HIDE DEF k, tr
<1>9. pc'[t] \in {"initCount", "writeFrame"} /\ (pc'[t] # "writeFrame" => k = Len(tr))
  BY <1>2
<1>. QED  BY <1>1, <1>2, <1>3, <1>4, <1>5, <1>7, <1>8, <1>9, OwnWrite DEF tr

LEMMA CountWrite ==
    ASSUME TypeInv, TypeInv', ReportInv, AccountInv, WriteInv, NEW t \in Threads, Grows,
           (AddCount(t) /\ pc[t] = "initCount") \/ InitBytes(t)
    PROVE  WriteInv'
<1>. DEFINE i == idx[t]
<1>1. \A u \in Threads \ {t} : Alone(u)
  BY OthersAlone DEF Moving, Step, Record
<1>2. /\ i \in Slots /\ pc[t] \in {"initCount", "initBytes"} /\ FillerOK(t)
      /\ UNCHANGED <<hash, frame_count, sample_frames, call, idx, pos>>
      /\ count[i] \in Nat /\ total_bytes[i] \in Nat
  BY DEF AddCount, InitBytes, TypeInv, TypeOK, WriteInv
<1>3. /\ frame_count[i] = 0 /\ Upto(sample_frames[i], call[t].trace, pos[t])
      /\ pos[t] = Len(call[t].trace)
      /\ pc[t] = "initBytes" => count[i] >= 1
  BY <1>2 DEF FillerOK, FillPCs
<1>4. /\ pc'[t] \in {"initBytes", "publish"}
      /\ count'[i] >= 1
      /\ pc'[t] = "publish" => total_bytes'[i] >= 1
  <2>1. CASE AddCount(t) /\ pc[t] = "initCount"
    BY <1>2, <2>1 DEF AddCount, Goto, TypeInv, TypeOK
  <2>2. CASE InitBytes(t)
    <3>1. call[t].size \in Nat /\ call[t].size >= 1
      <4>1. call[t].size \in Sizes
        BY <2>2 DEF InitBytes, TypeInv, CallOK, CallOKOf, RecordPCs
      <4>2. call[t].size \in Nat \ {0}
        BY <4>1, SizeAssumption
      <4>. QED  BY <4>2
    <3>2. count' = count /\ total_bytes'[i] = total_bytes[i] + call[t].size /\ pc'[t] = "publish"
          /\ pc[t] = "initBytes"
      BY <1>2, <2>2 DEF InitBytes, Goto, TypeInv, TypeOK
    <3>. QED  BY <1>2, <1>3, <3>1, <3>2
  <2>. QED  BY <2>1, <2>2
<1>5. ASSUME NEW j \in Slots, j = i PROVE BucketOK(j)'
  <2>1. BucketOK(i) /\ hash'[i] = hash[i] /\ frame_count'[i] = 0
        /\ sample_frames'[i] = sample_frames[i]
    BY <1>2, <1>3 DEF WriteInv
  <2>. QED  BY <1>2, <1>5, <2>1 DEF BucketOK
<1>6. \A u \in Threads \ {t} : pc[u] \in FillPCs => idx[u] # i
  BY <1>2, FillerAlone DEF FillPCs
<1>. QED  BY <1>1, <1>2, <1>3, <1>4, <1>5, <1>6, OwnWrite

LEMMA PublishWrite ==
    ASSUME TypeInv, TypeInv', ReportInv, AccountInv, WriteInv, NEW t \in Threads, Grows,
           Publish(t)
    PROVE  WriteInv'
<1>. DEFINE i == idx[t]
            tr == call[t].trace
<1>1. \A u \in Threads \ {t} : Alone(u)
  BY OthersAlone DEF Moving, Step, Record
<1>2. /\ i \in Slots /\ pc[t] = "publish" /\ FillerOK(t) /\ pc'[t] = "idle"
      /\ tr \in Traces /\ hash[i] = Hash[tr]
      /\ frame_count' = [frame_count EXCEPT ![i] = Len(tr)] /\ DOMAIN frame_count = Slots
      /\ UNCHANGED <<hash, sample_frames, count, total_bytes>>
  <2>1. /\ i \in Slots /\ DOMAIN pc = Threads /\ DOMAIN frame_count = Slots /\ FillerOK(t)
        /\ OwnBucket(t) /\ CallOKOf(t)
    BY DEF TypeInv, TypeOK, CallOK, WriteInv, AccountInv
  <2>2. /\ pc[t] = "publish" /\ pc'[t] = "idle"
        /\ frame_count' = [frame_count EXCEPT ![i] = Len(tr)]
        /\ UNCHANGED <<hash, sample_frames, count, total_bytes>>
    BY <2>1 DEF Publish, Leave, Goto
  <2>3. tr \in Traces /\ hash[i] = Hash[tr]
    BY <2>1, <2>2 DEF CallOKOf, RecordPCs, OwnBucket, CountingPCs, HashOf
  <2>. QED  BY <2>1, <2>2, <2>3
<1>3. /\ Upto(sample_frames[i], tr, Len(tr)) /\ count[i] >= 1 /\ total_bytes[i] >= 1
  BY <1>2 DEF FillerOK, FillPCs
<1>4. hash[i] # 0
  BY <1>2, HashAssumption
<1>5. ASSUME NEW j \in Slots, j = i PROVE BucketOK(j)'
  <2>1. frame_count'[i] = Len(tr)
    BY <1>2
  <2>. QED  BY <1>2, <1>3, <1>4, <1>5, <2>1 DEF BucketOK
<1>6. \A u \in Threads \ {t} : pc[u] \in FillPCs => idx[u] # i
  BY <1>2, FillerAlone DEF FillPCs
<1>7. \A j \in Slots \ {i} : frame_count'[j] = frame_count[j]
  BY <1>2
<1>8. pc'[t] \notin FillPCs
  BY <1>2 DEF FillPCs
<1>. QED  BY <1>1, <1>2, <1>5, <1>6, <1>7, <1>8, OwnWrite

LEMMA BlankTable ==
    ASSUME \A i \in Slots : hash[i] = 0 /\ frame_count[i] = 0 /\ sample_frames[i] = NoFrames,
           \A t \in Threads : pc[t] = "idle"
    PROVE  WriteInv
BY DEF WriteInv, BucketOK, FillerOK, FillPCs

Blank == /\ \A i \in Slots : hash[i] = 0 /\ frame_count[i] = 0 /\ sample_frames[i] = NoFrames
         /\ \A t \in Threads : pc[t] = "idle"

LEMMA BlankWrite == Blank => WriteInv
BY BlankTable DEF Blank

LEMMA InitWrite == Init => WriteInv
BY BlankWrite DEF Init, Blank

LEMMA ResetWrite ==
    ASSUME NEW t \in Threads, Reset(t)
    PROVE  WriteInv'
<1>1. Blank'
  BY DEF Reset, Blank, locals
<1>. QED  BY <1>1, BlankWrite, PTL

LEMMA NextWrite ==
    ASSUME TypeInv, TypeInv', ReportInv, AccountInv, WriteInv, [Next]_vars
    PROVE  WriteInv'
<1>1. CASE UNCHANGED vars
  BY <1>1 DEF vars, table, locals, WriteInv, BucketOK, FillerOK, Upto
<1>2. ASSUME NEW t \in Threads, Moving(t) PROVE WriteInv'
  <2>1. Grows
    BY <1>2, TableGrows
  <2>2. AddCount(t) => pc[t] \in {"initCount", "addCount"}
    BY DEF AddCount
  <2>. QED  BY <1>2, <2>1, <2>2, QuietSteps, ClaimWrite, FrameWrite, CountWrite, PublishWrite
            DEF Moving, Step, Record
<1>3. ASSUME NEW t \in Threads, Reset(t) PROVE WriteInv'
  BY <1>3, ResetWrite
<1>. QED  BY <1>1, <1>2, <1>3 DEF Next, Rest, Moving

\* The row in the making has the frames read so far of a published bucket.
ReaderOK(t) ==
    /\ pc[t] \notin ReadPCs => row[t].frames = NoFrames
    /\ pc[t] \in ReadPCs =>
          /\ frame_count[idx[t]] # 0
          /\ row[t].frame_count = frame_count[idx[t]]
          /\ Upto(row[t].frames, sample_frames[idx[t]], pos[t])
          /\ pc[t] # "loadFrame" => pos[t] = row[t].frame_count
    /\ pc[t] = "loadBytes" => row[t].count >= 1 /\ row[t].count <= count[idx[t]]

\* A row is a published bucket's, as it was at some moment.
RowTrue(r) ==
    /\ frame_count[r.slot] # 0
    /\ r.frames = sample_frames[r.slot] /\ r.frame_count = frame_count[r.slot]
    /\ r.count >= 1 /\ r.count <= count[r.slot]
    /\ r.total_bytes >= 1 /\ r.total_bytes <= total_bytes[r.slot]

ReadInv == \A t \in Threads : /\ ReaderOK(t)
                              /\ \A n \in 1 .. Len(out[t]) : RowTrue(out[t][n])

\* No bucket counts more than its site is owed.
LEMMA BucketWithinOwed ==
    ASSUME TypeInv, AccountInv, NEW i \in Slots, NEW h \in Hashes, hash[i] = h
    PROVE  count[i] <= owed[h].events /\ total_bytes[i] <= owed[h].bytes
<1>. DEFINE c == SumOf(count, SlotsOf(h))
            b == SumOf(total_bytes, SlotsOf(h))
            n == Cardinality(Uncounted(h))
            s == SumOf(Size, Unadded(h))
<1>1. AccountTypes
  BY AccountTyped
<1>2. /\ IsFiniteSet(SlotsOf(h)) /\ IsFiniteSet(Uncounted(h)) /\ IsFiniteSet(Unadded(h))
      /\ i \in SlotsOf(h)
  <2>1. /\ SlotsOf(h) \in SUBSET Slots /\ Uncounted(h) \in SUBSET Threads
        /\ Unadded(h) \in SUBSET Threads /\ i \in SlotsOf(h)
    BY DEF SlotsOf, Uncounted, Unadded, Recording
  <2>. QED  BY <2>1, FiniteSlots, FiniteAssumption, FS_Subset
<1>3. /\ \A j \in SlotsOf(h) : count[j] \in Nat
      /\ \A j \in SlotsOf(h) : total_bytes[j] \in Nat
      /\ \A t \in Unadded(h) : Size[t] \in Nat
  BY <1>1 DEF SlotsOf, TypeInv, TypeOK, Unadded, Recording, AccountTypes, Size
<1>4. count[i] <= c /\ total_bytes[i] <= b
  BY <1>2, <1>3, SumMember
<1>5. n \in Nat /\ s \in Nat
  BY <1>2, <1>3, SumNat, FS_CardinalityType
<1>6. owed[h].events = c + n /\ owed[h].bytes = b + s /\ c \in Int /\ b \in Int
  BY <1>1 DEF AccountInv, Account, AccountTypes
<1>7. count[i] \in Nat /\ total_bytes[i] \in Nat
  BY DEF TypeInv, TypeOK
<1>. HIDE DEF c, b, n, s
<1>. QED  BY <1>4, <1>5, <1>6, <1>7

\* A function of the frames is the padded trace when it has its frames, and 0 above.
LEMMA UptoPadded ==
    ASSUME NEW f \in Frames, NEW tr, Upto(f, tr, Len(tr))
    PROVE  f = Padded(tr)
BY DEF Frames, Upto, Padded

LEMMA ReadCoherent ==
    ASSUME TypeInv, AccountInv, WriteInv, ReadInv
    PROVE  RowsCoherent
<1>1. ASSUME NEW t \in Threads, NEW n \in 1 .. Len(out[t])
      PROVE  LET r == out[t][n] IN
             /\ r.count >= 1
             /\ r.total_bytes >= 1
             /\ \E tr \in Traces : /\ r.frames = Padded(tr)
                                   /\ r.frame_count = Len(tr)
                                   /\ r.count <= owed[Hash[tr]].events
                                   /\ r.total_bytes <= owed[Hash[tr]].bytes
  <2>. DEFINE r == out[t][n]
              i == r.slot
  <2>1. RowTrue(r) /\ r \in Row
    BY DEF ReadInv, TypeInv, TypeOK
  <2>2. i \in Slots /\ r.count \in Nat /\ r.total_bytes \in Nat /\ r.frames \in Frames
    BY <2>1 DEF Row
  <2>3. PICK tr \in Traces : /\ hash[i] = Hash[tr] /\ frame_count[i] = Len(tr)
                             /\ Upto(sample_frames[i], tr, Len(tr))
    BY <2>1, <2>2 DEF RowTrue, WriteInv, BucketOK
  <2>4. Hash[tr] \in Hashes
    BY DEF Hashes
  <2>5. count[i] <= owed[Hash[tr]].events /\ total_bytes[i] <= owed[Hash[tr]].bytes
    BY <2>2, <2>3, <2>4, BucketWithinOwed
  <2>6. /\ count[i] \in Nat /\ total_bytes[i] \in Nat
        /\ owed[Hash[tr]].events \in Int /\ owed[Hash[tr]].bytes \in Int
    BY <2>2, <2>4 DEF TypeInv, TypeOK, AccountInv, Owed
  <2>7. r.frames = Padded(tr)
    BY <2>1, <2>2, <2>3, UptoPadded DEF RowTrue
  <2>. HIDE DEF r, i
  <2>8. r.count <= owed[Hash[tr]].events /\ r.total_bytes <= owed[Hash[tr]].bytes
    BY <2>1, <2>2, <2>5, <2>6 DEF RowTrue, i
  <2>. QED  BY <2>1, <2>3, <2>7, <2>8 DEF RowTrue, r, i
<1>. QED  BY <1>1 DEF RowsCoherent

\* What is published does not change, but for its counters, which grow.
Settled == \A i \in Slots : frame_count[i] # 0 =>
              /\ frame_count'[i] = frame_count[i]
              /\ sample_frames'[i] = sample_frames[i]

LEMMA PublishedSettled ==
    ASSUME TypeInv, WriteInv, NEW t \in Threads, Moving(t)
    PROVE  Settled
<1>1. CASE WriteFrame(t)
  BY <1>1 DEF WriteFrame, Settled, WriteInv, FillerOK, FillPCs, TypeInv, TypeOK
<1>2. CASE Publish(t)
  BY <1>2 DEF Publish, Settled, WriteInv, FillerOK, FillPCs, TypeInv, TypeOK
<1>3. CASE BeginRecord(t) \/ BeginReport(t) \/ EnsureInit(t) \/ Report(t)
  <2>1. UNCHANGED table
    BY <1>3 DEF BeginRecord, BeginReport, EnsureInit, LoadBase, LoadBuckets, LoadMask,
       AllocPages, AllocPagesFails, CasBase, StoreBuckets, StoreMask, FreePages,
       AwaitBuckets, Report, ScanHash, ScanFrameCount, LoadFrame, LoadCount,
       LoadBytes, TakeReport
  <2>. QED  BY <2>1 DEF table, Settled
<1>4. CASE Probe(t) \/ Claim(t) \/ ClaimLost(t) \/ AddCount(t) \/ InitBytes(t) \/ AddBytes(t)
  BY <1>4 DEF Probe, Claim, ClaimLost, AddCount, InitBytes, AddBytes, table, Settled
<1>. QED  BY <1>1, <1>2, <1>3, <1>4 DEF Moving, Step, Record

LEMMA RowStays ==
    ASSUME TypeInv, TypeInv', Settled, Grows, NEW r \in Row, RowTrue(r)
    PROVE  /\ frame_count'[r.slot] # 0
           /\ r.frames = sample_frames'[r.slot] /\ r.frame_count = frame_count'[r.slot]
           /\ r.count >= 1 /\ r.count <= count'[r.slot]
           /\ r.total_bytes >= 1 /\ r.total_bytes <= total_bytes'[r.slot]
<1>1. r.slot \in Slots /\ r.count \in Nat /\ r.total_bytes \in Nat
  BY DEF Row
<1>2. /\ count[r.slot] \in Nat /\ count'[r.slot] \in Nat
      /\ total_bytes[r.slot] \in Nat /\ total_bytes'[r.slot] \in Nat
      /\ count'[r.slot] >= count[r.slot] /\ total_bytes'[r.slot] >= total_bytes[r.slot]
  BY <1>1 DEF TypeInv, TypeOK, Grows
<1>3. /\ frame_count'[r.slot] # 0
      /\ r.frames = sample_frames'[r.slot] /\ r.frame_count = frame_count'[r.slot]
  BY <1>1 DEF Settled, RowTrue
<1>. QED  BY <1>1, <1>2, <1>3 DEF RowTrue

\* A thread whose position is another's business keeps what it has read.
LEMMA ReaderStays ==
    ASSUME TypeInv, TypeInv', Settled, Grows, NEW u \in Threads, ReaderOK(u),
           Alone(u), row'[u] = row[u]
    PROVE  ReaderOK(u)'
<1>1. /\ idx[u] \in Slots /\ count[idx[u]] \in Nat /\ count'[idx[u]] \in Nat
      /\ count'[idx[u]] >= count[idx[u]] /\ row[u] \in Row
  BY DEF TypeInv, TypeOK, Grows
<1>2. row[u].count \in Nat
  BY <1>1 DEF Row
<1>3. pc[u] \in ReadPCs => /\ frame_count'[idx[u]] = frame_count[idx[u]]
                           /\ sample_frames'[idx[u]] = sample_frames[idx[u]]
  BY <1>1 DEF ReaderOK, Settled
<1>4. pc[u] = "loadBytes" => row[u].count <= count'[idx[u]]
  BY <1>1, <1>2 DEF ReaderOK
<1>. QED  BY <1>3, <1>4 DEF ReaderOK, Alone, Upto

LEMMA RowsStay ==
    ASSUME TypeInv, TypeInv', ReadInv, Settled, Grows, NEW u \in Threads,
           out'[u] = out[u] \/ out'[u] = << >>
    PROVE  \A n \in 1 .. Len(out'[u]) : RowTrue(out[u][n])'
<1>1. ASSUME NEW n \in 1 .. Len(out'[u]) PROVE RowTrue(out[u][n])'
  <2>1. out'[u] = out[u]
    BY <1>1
  <2>2. RowTrue(out[u][n]) /\ out[u][n] \in Row
    <3>1. out[u] \in Seq(Row) /\ n \in 1 .. Len(out[u])
      BY <2>1 DEF TypeInv, TypeOK
    <3>. QED  BY <3>1 DEF ReadInv
  <2>. QED  BY <2>1, <2>2, RowStays DEF RowTrue
<1>. QED  BY <1>1

\* A step of a thread that reads no bucket afterwards and adds no row.
LEMMA QuietRead ==
    ASSUME TypeInv, TypeInv', ReadInv, NEW t \in Threads, Settled, Grows,
           pc'[t] \notin ReadPCs, row'[t].frames = NoFrames,
           out'[t] = out[t] \/ out'[t] = << >>,
           \A u \in Threads \ {t} : Alone(u) /\ row'[u] = row[u] /\ out'[u] = out[u]
    PROVE  ReadInv'
<1>1. \A u \in Threads : \A n \in 1 .. Len(out'[u]) : RowTrue(out[u][n])'
  BY RowsStay
<1>2. ReaderOK(t)'
  BY DEF ReaderOK, ReadPCs
<1>3. \A u \in Threads \ {t} : ReaderOK(u)'
  BY ReaderStays DEF ReadInv
<1>. QED  BY <1>1, <1>2, <1>3 DEF ReadInv

\* A step of a thread that reads on.
LEMMA ReadOn ==
    ASSUME TypeInv, TypeInv', ReadInv, NEW t \in Threads, Settled, Grows,
           ReaderOK(t)', out' = out,
           \A u \in Threads \ {t} : Alone(u) /\ row'[u] = row[u]
    PROVE  ReadInv'
<1>1. \A u \in Threads : \A n \in 1 .. Len(out'[u]) : RowTrue(out[u][n])'
  BY RowsStay
<1>3. \A u \in Threads \ {t} : ReaderOK(u)'
  BY ReaderStays DEF ReadInv
<1>. QED  BY <1>1, <1>3 DEF ReadInv

LEMMA AwayRead ==
    ASSUME TypeInv, TypeInv', ReportInv, ReadInv, NEW t \in Threads, Settled, Grows,
           \/ BeginRecord(t) \/ BeginReport(t) \/ EnsureInit(t) \/ Record(t)
           \/ TakeReport(t)
    PROVE  ReadInv'
<1>1. \A u \in Threads \ {t} : Alone(u) /\ row'[u] = row[u] /\ out'[u] = out[u]
  BY OthersAlone, OthersSame DEF Moving, Step, Report, Same
<1>2. /\ pc[t] \notin ReadPCs /\ pc'[t] \notin ReadPCs /\ row' = row
      /\ out'[t] = out[t] \/ out'[t] = << >>
  <2>1. DOMAIN pc = Threads /\ DOMAIN out = Threads
    BY DEF TypeInv, TypeOK
  <2>. USE <2>1 DEF ReadPCs, Goto
  <2>2. CASE BeginRecord(t) \/ BeginReport(t) \/ TakeReport(t)
    BY <2>2 DEF BeginRecord, BeginReport, TakeReport
  <2>3. CASE LoadBase(t) \/ LoadBuckets(t) \/ AllocPages(t) \/ CasBase(t)
             \/ StoreBuckets(t) \/ FreePages(t) \/ AwaitBuckets(t)
    BY <2>3 DEF LoadBase, LoadBuckets, AllocPages, CasBase, StoreBuckets, FreePages,
       AwaitBuckets
  <2>4. CASE LoadMask(t) \/ StoreMask(t)
    BY <2>4 DEF LoadMask, StoreMask, Enter
  <2>5. CASE AllocPagesFails(t)
    BY <2>5 DEF AllocPagesFails, GiveUp, Leave
  <2>6. CASE Probe(t) \/ ClaimLost(t)
    BY <2>6 DEF Probe, ClaimLost, Advance, GiveUp, Leave
  <2>7. CASE Claim(t) \/ WriteFrame(t) \/ AddCount(t) \/ InitBytes(t)
    BY <2>7 DEF Claim, WriteFrame, AddCount, InitBytes
  <2>8. CASE AddBytes(t) \/ Publish(t)
    BY <2>8 DEF AddBytes, Publish, Leave
  <2>. QED  BY <2>2, <2>3, <2>4, <2>5, <2>6, <2>7, <2>8 DEF EnsureInit, Record
<1>3. row'[t].frames = NoFrames
  BY <1>2 DEF ReadInv, ReaderOK
<1>. QED  BY <1>1, <1>2, <1>3, QuietRead

\* The for loop moves on without a row.
LEMMA NextRowRead ==
    ASSUME TypeInv, TypeInv', ReadInv, NEW t \in Threads, Settled, Grows,
           NextRow(t), out' = out,
           \A u \in Threads \ {t} : Alone(u) /\ row'[u] = row[u]
    PROVE  ReadInv'
<1>1. row'[t] = NoRow /\ pc'[t] \in {"scanHash", "reported"}
  BY DEF NextRow, Goto, TypeInv, TypeOK
<1>. QED  BY <1>1, QuietRead DEF NoRow, ReadPCs

LEMMA LoadFrameRead ==
    ASSUME TypeInv, TypeInv', WriteInv, ReadInv, NEW t \in Threads, Settled, Grows,
           LoadFrame(t), \A u \in Threads \ {t} : Alone(u) /\ row'[u] = row[u]
    PROVE  ReadInv'
<1>. DEFINE i == idx[t]
            k == pos[t] + 1
<1>1. /\ i \in Slots /\ pc[t] = "loadFrame" /\ ReaderOK(t) /\ row[t] \in Row
      /\ row' = [row EXCEPT ![t].frames[k] = sample_frames[i][k]] /\ DOMAIN row = Threads
      /\ pos'[t] = k /\ pos[t] \in Nat /\ pos[t] < row[t].frame_count
      /\ pc'[t] = IF k = row[t].frame_count THEN "loadCount" ELSE "loadFrame"
      /\ UNCHANGED <<table, idx, out>> /\ MaxFrames \in Nat
  BY TraceAssumption DEF LoadFrame, Goto, TypeInv, TypeOK, CallOK, CallOKOf, ReadInv
<1>2. /\ frame_count[i] # 0 /\ row[t].frame_count = frame_count[i]
      /\ Upto(row[t].frames, sample_frames[i], pos[t])
  BY <1>1 DEF ReaderOK, ReadPCs
<1>3. /\ row[t].frames \in Frames /\ row[t].frame_count \in Nat
      /\ row[t].frame_count <= MaxFrames
  BY <1>1 DEF Row
<1>4. /\ row'[t].frame_count = row[t].frame_count
      /\ \A j \in 1 .. MaxFrames :
            row'[t].frames[j] = IF j = k THEN sample_frames[i][k] ELSE row[t].frames[j]
  <2>1. row'[t] = [row[t] EXCEPT !.frames = [row[t].frames EXCEPT ![k] = sample_frames[i][k]]]
    BY <1>1
  <2>2. row'[t].frames = [row[t].frames EXCEPT ![k] = sample_frames[i][k]]
        /\ row'[t].frame_count = row[t].frame_count
    BY <1>1, <2>1 DEF Row
  <2>. QED  BY <1>3, <2>2 DEF Frames
<1>5. Upto(row'[t].frames, sample_frames[i], k)
  <2>1. \A j \in 1 .. MaxFrames : j # k => (j <= k <=> j <= pos[t])
    BY <1>1
  <2>. QED  BY <1>1, <1>2, <1>4, <2>1 DEF Upto
<1>6. ReaderOK(t)'
  <2>1. /\ pc'[t] \in ReadPCs \ {"loadBytes"}
        /\ pc'[t] # "loadFrame" => pos'[t] = row'[t].frame_count
    BY <1>1, <1>4 DEF ReadPCs
  <2>2. /\ frame_count'[idx'[t]] = frame_count[i] /\ sample_frames'[idx'[t]] = sample_frames[i]
        /\ pos'[t] = k
    BY <1>1 DEF table
  <2>. HIDE DEF k
  <2>. QED  BY <1>2, <1>4, <1>5, <2>1, <2>2 DEF ReaderOK
<1>. QED  BY <1>1, <1>6, ReadOn

LEMMA SameFrames ==
    ASSUME NEW f \in Frames, NEW g \in Frames, \A k \in 1 .. MaxFrames : f[k] = g[k]
    PROVE  f = g
<1>1. f = [k \in 1 .. MaxFrames |-> f[k]] /\ g = [k \in 1 .. MaxFrames |-> g[k]]
  BY DEF Frames
<1>2. [k \in 1 .. MaxFrames |-> f[k]] = [k \in 1 .. MaxFrames |-> g[k]]
  OBVIOUS
<1>. QED  BY <1>1, <1>2

LEMMA LoadBytesRead ==
    ASSUME TypeInv, TypeInv', ReportInv, WriteInv, ReadInv, NEW t \in Threads, Settled, Grows,
           LoadBytes(t),
           \A u \in Threads \ {t} : Alone(u) /\ row'[u] = row[u] /\ out'[u] = out[u]
    PROVE  ReadInv'
<1>. DEFINE i == idx[t]
            last == [row[t] EXCEPT !.total_bytes = total_bytes[i]]
<1>1. /\ i \in Slots /\ pc[t] = "loadBytes" /\ ReaderOK(t) /\ row[t] \in Row
      /\ out[t] \in Seq(Row) /\ out'[t] = Append(out[t], last)
      /\ row'[t] = NoRow /\ pc'[t] \in {"scanHash", "reported"}
      /\ UNCHANGED table /\ RowOK(t)
  <2>1. /\ i \in Slots /\ pc[t] = "loadBytes" /\ ReaderOK(t) /\ row[t] \in Row
        /\ out[t] \in Seq(Row) /\ RowOK(t) /\ UNCHANGED table /\ NextRow(t)
        /\ DOMAIN pc = Threads /\ DOMAIN row = Threads /\ DOMAIN out = Threads
    BY DEF LoadBytes, TypeInv, TypeOK, ReadInv, ReportInv, ReportOK
  <2>2. out'[t] = Append(out[t], last)
    BY <2>1 DEF LoadBytes
  <2>3. row'[t] = NoRow /\ pc'[t] \in {"scanHash", "reported"}
    BY <2>1 DEF NextRow, Goto
  <2>. QED  BY <2>1, <2>2, <2>3
<1>2. /\ last \in Row /\ last.slot = row[t].slot /\ last.count = row[t].count
      /\ last.frames = row[t].frames /\ last.frame_count = row[t].frame_count
      /\ last.total_bytes = total_bytes[i] /\ row[t].slot = i
      /\ row[t].frames \in Frames
  BY <1>1 DEF RowOK, Row, TypeInv, TypeOK
<1>. HIDE DEF last
<1>3. /\ frame_count[i] # 0 /\ row[t].frame_count = frame_count[i]
      /\ Upto(row[t].frames, sample_frames[i], frame_count[i])
      /\ row[t].count >= 1 /\ row[t].count <= count[i]
  BY <1>1 DEF ReaderOK, ReadPCs
<1>4. BucketOK(i) /\ sample_frames[i] \in Frames
  BY <1>1 DEF WriteInv, TypeInv, TypeOK
<1>5. row[t].frames = sample_frames[i]
  <2>1. PICK tr \in Traces : frame_count[i] = Len(tr) /\ Upto(sample_frames[i], tr, Len(tr))
    BY <1>3, <1>4 DEF BucketOK
  <2>2. \A k \in 1 .. MaxFrames : row[t].frames[k] = sample_frames[i][k]
    BY <1>3, <2>1 DEF Upto
  <2>. QED  BY <1>2, <1>4, <2>2, SameFrames
<1>6. RowTrue(last)
  <2>1. total_bytes[i] >= 1 /\ total_bytes[i] \in Nat
    BY <1>1, <1>3, <1>4 DEF BucketOK, TypeInv, TypeOK
  <2>2. total_bytes[i] <= total_bytes[i]
    BY <2>1
  <2>. QED  BY <1>2, <1>3, <1>5, <2>1, <2>2 DEF RowTrue
<1>7. /\ Len(out'[t]) = Len(out[t]) + 1 /\ Len(out[t]) \in Nat
      /\ \A n \in 1 .. Len(out[t]) : out'[t][n] = out[t][n] /\ out[t][n] \in Row
      /\ out'[t][Len(out[t]) + 1] = last
  BY <1>1, <1>2
<1>8. ASSUME NEW n \in 1 .. Len(out'[t]) PROVE RowTrue(out[t][n])'
  <2>1. CASE n \in 1 .. Len(out[t])
    <3>1. RowTrue(out[t][n])
      BY <2>1 DEF ReadInv
    <3>. QED  BY <1>1, <1>7, <2>1, <3>1 DEF RowTrue, table
  <2>2. CASE n = Len(out[t]) + 1
    BY <1>1, <1>6, <1>7, <2>2 DEF RowTrue, table
  <2>. QED  BY <1>7, <2>1, <2>2
<1>9. \A u \in Threads \ {t} : \A n \in 1 .. Len(out'[u]) : RowTrue(out[u][n])'
  BY RowsStay
<1>10. ReaderOK(t)'
  BY <1>1 DEF ReaderOK, ReadPCs, NoRow
<1>11. \A u \in Threads \ {t} : ReaderOK(u)'
  BY ReaderStays DEF ReadInv
<1>. QED  BY <1>8, <1>9, <1>10, <1>11 DEF ReadInv

LEMMA ScanRead ==
    ASSUME TypeInv, TypeInv', ReportInv, WriteInv, ReadInv, NEW t \in Threads, Settled, Grows,
           ScanHash(t) \/ ScanFrameCount(t) \/ LoadFrame(t) \/ LoadCount(t) \/ LoadBytes(t)
    PROVE  ReadInv'
<1>1. \A u \in Threads \ {t} : Alone(u) /\ row'[u] = row[u] /\ out'[u] = out[u]
  BY OthersAlone, OthersSame DEF Moving, Step, Report, Same
<1>2. /\ DOMAIN pc = Threads /\ DOMAIN row = Threads /\ row[t] \in Row /\ idx[t] \in Slots
      /\ ReaderOK(t)
  BY DEF TypeInv, TypeOK, ReadInv
<1>3. CASE ScanHash(t)
  <2>1. CASE hash[idx[t]] = 0
    BY <1>1, <1>3, <2>1, NextRowRead DEF ScanHash
  <2>2. CASE hash[idx[t]] # 0
    <3>1. pc[t] = "scanHash" /\ pc'[t] = "scanFrameCount" /\ row' = row /\ out' = out
      BY <1>2, <1>3, <2>2 DEF ScanHash, Goto
    <3>2. ReaderOK(t)'
      BY <1>2, <3>1 DEF ReaderOK, ReadPCs
    <3>. QED  BY <1>1, <3>1, <3>2, ReadOn
  <2>. QED  BY <2>1, <2>2
<1>4. CASE ScanFrameCount(t)
  <2>1. CASE frame_count[idx[t]] = 0
    BY <1>1, <1>4, <2>1, NextRowRead DEF ScanFrameCount
  <2>2. CASE frame_count[idx[t]] # 0
    <3>1. /\ pc[t] = "scanFrameCount" /\ pc'[t] = "loadFrame" /\ out' = out
          /\ UNCHANGED <<table, idx, pos>> /\ pos[t] = 0
          /\ row'[t].frames = row[t].frames /\ row'[t].frame_count = frame_count[idx[t]]
      BY <1>2, <1>4, <2>2 DEF ScanFrameCount, Goto, Row, TypeInv, CallOK, CallOKOf
    <3>2. row[t].frames = NoFrames
      BY <1>2, <3>1 DEF ReaderOK, ReadPCs
    <3>3. Upto(row'[t].frames, sample_frames[idx[t]], 0)
      BY <3>1, <3>2 DEF Upto, NoFrames
    <3>4. ReaderOK(t)'
      BY <2>2, <3>1, <3>3 DEF ReaderOK, ReadPCs, table
    <3>. QED  BY <1>1, <3>1, <3>4, ReadOn
  <2>. QED  BY <2>1, <2>2
<1>5. CASE LoadFrame(t)
  BY <1>1, <1>5, LoadFrameRead
<1>6. CASE LoadCount(t)
  <2>1. /\ pc[t] = "loadCount" /\ pc'[t] = "loadBytes" /\ out' = out
        /\ UNCHANGED <<table, idx, pos>>
        /\ row'[t].frames = row[t].frames /\ row'[t].frame_count = row[t].frame_count
        /\ row'[t].count = count[idx[t]]
    BY <1>2, <1>6 DEF LoadCount, Goto, Row
  <2>2. /\ frame_count[idx[t]] # 0 /\ row[t].frame_count = frame_count[idx[t]]
        /\ Upto(row[t].frames, sample_frames[idx[t]], pos[t])
        /\ pos[t] = row[t].frame_count
    BY <1>2, <2>1 DEF ReaderOK, ReadPCs
  <2>3. count[idx[t]] >= 1 /\ count[idx[t]] \in Nat
    BY <1>2, <2>2 DEF WriteInv, BucketOK, TypeInv, TypeOK
  <2>4. ReaderOK(t)'
    BY <2>1, <2>2, <2>3 DEF ReaderOK, ReadPCs, table
  <2>. QED  BY <1>1, <2>1, <2>4, ReadOn
<1>7. CASE LoadBytes(t)
  BY <1>1, <1>7, LoadBytesRead
<1>. QED  BY <1>3, <1>4, <1>5, <1>6, <1>7

\* Before anything is recorded, and when the table is reset, nobody reads.
Unread == \A t \in Threads : pc[t] = "idle" /\ row[t].frames = NoFrames /\ out[t] = << >>

LEMMA UnreadRead == Unread => ReadInv
BY DEF Unread, ReadInv, ReaderOK, ReadPCs

LEMMA InitRead == Init => ReadInv
BY UnreadRead DEF Init, Unread, NoRow

LEMMA ResetRead ==
    ASSUME TypeInv, ReportInv, ReadInv, NEW t \in Threads, Reset(t)
    PROVE  ReadInv'
<1>1. Unread
  BY DEF Unread, Reset, ReadInv, ReaderOK, ReadPCs, ReportInv, ReportOK, Fresh, ReportPCs
<1>2. Unread'
  BY <1>1 DEF Reset, Unread, locals
<1>. QED  BY <1>2, UnreadRead, PTL

LEMMA NextRead ==
    ASSUME TypeInv, TypeInv', ReportInv, WriteInv, ReadInv, [Next]_vars
    PROVE  ReadInv'
<1>1. CASE UNCHANGED vars
  BY <1>1 DEF vars, table, locals, ReadInv, ReaderOK, RowTrue, Upto
<1>2. ASSUME NEW t \in Threads, Moving(t) PROVE ReadInv'
  <2>1. Grows /\ Settled
    BY <1>2, TableGrows, PublishedSettled
  <2>. QED  BY <1>2, <2>1, AwayRead, ScanRead DEF Moving, Step, Report
<1>3. ASSUME NEW t \in Threads, Reset(t) PROVE ReadInv'
  BY <1>3, ResetRead
<1>. QED  BY <1>1, <1>2, <1>3 DEF Next, Rest, Moving

\* However many threads record while a report is read, each of its rows has the
\* whole trace of one site, at least the event that published it, and no event or
\* byte that the site's calls did not bring (table.rs:243-273).
THEOREM RowsAreCoherent == Spec => []RowsCoherent
<1>. DEFINE Inv == TypeInv /\ ReportInv /\ AccountInv /\ WriteInv /\ ReadInv
<1>1. Init => Inv
  BY InitType, InitReport, InitAccount, InitWrite, InitRead
<1>2. Inv /\ [Next]_vars => Inv'
  BY NextType, NextReport, NextAccount, NextWrite, NextRead
<1>3. Inv => RowsCoherent
  BY ReadCoherent
<1>. QED  BY <1>1, <1>2, <1>3, PTL DEF Spec

-----------------------------------------------------------------------------
(* The hash.                                                                 *)

LEMMA WordFacts == /\ WordBits \in Nat /\ Rotation \in 1 .. WordBits - 1
                   /\ Pow2[WordBits] \in Nat \ {0}
                   /\ 0 \in Words /\ 1 \in Words
                   /\ \A x \in Words : x \in Nat /\ x < Pow2[WordBits]
<1>1. WordBits \in Nat /\ Rotation \in 1 .. WordBits - 1 /\ 1 <= WordBits
  BY WordAssumption
<1>2. Pow2[WordBits] \in Nat \ {0} /\ Pow2[1] <= Pow2[WordBits] /\ Pow2[0 + 1] = 2 * Pow2[0] /\ Pow2[0] = 1
  BY <1>1, PowersOfTwo, PowersGrow
<1>. QED  BY <1>1, <1>2 DEF Words

\* A word is known by its digits.
LEMMA SameWord ==
    ASSUME NEW x \in Words, NEW y \in Words,
           \A b \in 0 .. WordBits - 1 : Bit(x, b) = Bit(y, b)
    PROVE  x = y
<1>1. x \in Nat /\ y \in Nat /\ WordBits \in Nat /\ Pow2[WordBits] \in Nat \ {0}
      /\ x < Pow2[WordBits] /\ y < Pow2[WordBits]
  BY WordFacts
<1>2. x % Pow2[WordBits] = y % Pow2[WordBits]
  BY <1>1, DigitsTell
<1>3. \A z, p \in Nat : z < p => z % p = z
  OBVIOUS
<1>. QED  BY <1>1, <1>2, <1>3

LEMMA XorIs ==
    ASSUME NEW x \in Words, NEW y \in Words
    PROVE  /\ Xor(x, y) \in Words
           /\ \A b \in 0 .. WordBits - 1 : Bit(Xor(x, y), b) = (Bit(x, b) + Bit(y, b)) % 2
<1>. DEFINE f == [b \in 0 .. WordBits - 1 |-> (Bit(x, b) + Bit(y, b)) % 2]
            IsXor(z) == \A b \in 0 .. WordBits - 1 : Bit(z, b) = (Bit(x, b) + Bit(y, b)) % 2
<1>1. \A i, j \in {0, 1} : (i + j) % 2 \in {0, 1}
  OBVIOUS
<1>2. f \in [0 .. WordBits - 1 -> {0, 1}]
  <2>1. \A b \in 0 .. WordBits - 1 : b \in Nat
    BY WordFacts
  <2>. QED  BY <1>1, <2>1, BitType, WordFacts
<1>3. \E z \in Words : \A b \in 0 .. WordBits - 1 : Bit(z, b) = f[b]
  <2>. HIDE DEF f
  <2>. QED  BY <1>2, DigitsGiven, WordFacts DEF Words
<1>4. \E z \in Words : IsXor(z)
  BY <1>3
<1>5. Xor(x, y) = CHOOSE z \in Words : IsXor(z)
  BY DEF Xor
<1>. HIDE DEF IsXor
<1>6. Xor(x, y) \in Words /\ IsXor(Xor(x, y))
  BY <1>4, <1>5
<1>. QED  BY <1>6 DEF IsXor

\* Neither word can change without the outcome.
LEMMA XorKeeps ==
    ASSUME NEW x \in Words, NEW y \in Words, NEW z \in Words
    PROVE  /\ Xor(x, y) = Xor(x, z) => y = z
           /\ Xor(y, x) = Xor(z, x) => y = z
<1>1. \A i, j, k \in {0, 1} : /\ (i + j) % 2 = (i + k) % 2 => j = k
                              /\ (j + i) % 2 = (k + i) % 2 => j = k
  OBVIOUS
<1>2. \A b \in 0 .. WordBits - 1 : Bit(x, b) \in {0, 1} /\ Bit(y, b) \in {0, 1} /\ Bit(z, b) \in {0, 1}
  <2>1. \A b \in 0 .. WordBits - 1 : b \in Nat
    BY WordFacts
  <2>. QED  BY <2>1, BitType, WordFacts
<1>3. ASSUME Xor(x, y) = Xor(x, z) PROVE y = z
  <2>1. \A b \in 0 .. WordBits - 1 : (Bit(x, b) + Bit(y, b)) % 2 = (Bit(x, b) + Bit(z, b)) % 2
    <3>1. \A b \in 0 .. WordBits - 1 : Bit(Xor(x, y), b) = (Bit(x, b) + Bit(y, b)) % 2
      BY XorIs
    <3>2. \A b \in 0 .. WordBits - 1 : Bit(Xor(x, z), b) = (Bit(x, b) + Bit(z, b)) % 2
      BY XorIs
    <3>. QED  BY <1>3, <3>1, <3>2
  <2>. QED  BY <2>1, <1>1, <1>2, SameWord
<1>4. ASSUME Xor(y, x) = Xor(z, x) PROVE y = z
  <2>1. \A b \in 0 .. WordBits - 1 : (Bit(y, b) + Bit(x, b)) % 2 = (Bit(z, b) + Bit(x, b)) % 2
    <3>1. \A b \in 0 .. WordBits - 1 : Bit(Xor(y, x), b) = (Bit(y, b) + Bit(x, b)) % 2
      BY XorIs
    <3>2. \A b \in 0 .. WordBits - 1 : Bit(Xor(z, x), b) = (Bit(z, b) + Bit(x, b)) % 2
      BY XorIs
    <3>. QED  BY <1>4, <3>1, <3>2
  <2>. QED  BY <2>1, <1>1, <1>2, SameWord
<1>. QED  BY <1>3, <1>4

LEMMA RotationKeeps ==
    /\ \A x \in Words : rotate_left(x) \in Words
    /\ \A x, y \in Words : rotate_left(x) = rotate_left(y) => x = y
<1>. DEFINE hi(x) == x \div Pow2[WordBits - Rotation]
            lo(x) == x % Pow2[WordBits - Rotation]
<1>1. ASSUME NEW x \in Words
      PROVE  /\ x = hi(x) * Pow2[WordBits - Rotation] + lo(x)
             /\ rotate_left(x) \in Words
             /\ rotate_left(x) \div Pow2[Rotation] = lo(x)
             /\ rotate_left(x) % Pow2[Rotation] = hi(x)
  BY RotationParts, WordFacts DEF rotate_left, Words
<1>2. ASSUME NEW x \in Words, NEW y \in Words, rotate_left(x) = rotate_left(y) PROVE x = y
  <2>1. lo(x) = lo(y) /\ hi(x) = hi(y)
    BY <1>1, <1>2, Zenon
  <2>. HIDE DEF lo, hi
  <2>. QED  BY <1>1, <2>1, Zenon
<1>. QED  BY <1>1, <1>2

\* One step of the loop gives a word, and no two of the same hash or of the same
\* frame.
LEMMA MixKeeps ==
    /\ \A h, w \in Words : Mix(h, w) \in Words
    /\ \A h, v, w \in Words : Mix(h, v) = Mix(h, w) => v = w
    /\ \A g, h, w \in Words : Mix(g, w) = Mix(h, w) => g = h
<1>1. \A x \in Words : (x * K) % Pow2[WordBits] \in Words
  <2>1. \A x \in Words : x * K \in Nat
    BY WordFacts, KAssumption
  <2>2. \A n \in Nat : n % Pow2[WordBits] \in Words
    BY WordFacts, Division DEF Words
  <2>. QED  BY <2>1, <2>2
<1>2. \A x, y \in Words : (x * K) % Pow2[WordBits] = (y * K) % Pow2[WordBits] => x = y
  BY OddLosesNothing, KAssumption, WordFacts DEF Words
<1>3. ASSUME NEW h \in Words, NEW w \in Words PROVE Xor(rotate_left(h), w) \in Words
  BY RotationKeeps, XorIs
<1>4. ASSUME NEW h \in Words, NEW v \in Words, NEW w \in Words, Mix(h, v) = Mix(h, w)
      PROVE  v = w
  <2>1. Xor(rotate_left(h), v) = Xor(rotate_left(h), w)
    BY <1>2, <1>3, <1>4 DEF Mix
  <2>. QED  BY <2>1, RotationKeeps, XorKeeps
<1>5. ASSUME NEW g \in Words, NEW h \in Words, NEW w \in Words, Mix(g, w) = Mix(h, w)
      PROVE  g = h
  <2>1. Xor(rotate_left(g), w) = Xor(rotate_left(h), w)
    BY <1>2, <1>3, <1>5 DEF Mix
  <2>2. rotate_left(g) = rotate_left(h)
    BY <2>1, RotationKeeps, XorKeeps
  <2>. QED  BY <2>2, RotationKeeps
<1>6. \A h, w \in Words : Mix(h, w) \in Words
  BY <1>1, <1>3 DEF Mix
<1>. QED  BY <1>4, <1>5, <1>6

Used(len) == IF len > FrameSlots THEN FrameSlots ELSE len
Chain(frames, n, h) == /\ h \in [0 .. n -> Words] /\ h[0] = 0
                       /\ \A i \in 1 .. n : h[i] = Mix(h[i - 1], frames[i])
Marked(v) == IF v = 0 THEN 1 ELSE v

\* The loop's hashes, one after each frame.
LEMMA HashChain ==
    ASSUME NEW frames, NEW len \in Nat, \A i \in 1 .. Used(len) : frames[i] \in Words
    PROVE  \E h : /\ Chain(frames, Used(len), h)
                  /\ hash_frames(frames, len) = Marked(h[Used(len)])
<1>. DEFINE n == Used(len)
            body(h) == [i \in 0 .. n |-> IF i = 0 THEN 0 ELSE Mix(h[i - 1], frames[i])]
            step == [i \in 1 .. n |-> [v \in Words |-> Mix(v, frames[i])]]
            H == CHOOSE h : h = body(h)
<1>1. n \in Nat
  BY WordAssumption DEF Used
<1>. HIDE DEF n
<1>0. \A i \in 1 .. n : frames[i] \in Words
  BY DEF n
<1>2. step \in [1 .. n -> [Words -> Words]] /\ 0 \in Words
  BY <1>0, MixKeeps, WordFacts
<1>3. PICK h \in [0 .. n -> Words] : \A i \in 0 .. n : Follows(h, 0, step, i)
  <2>. HIDE DEF step
  <2>. QED  BY <1>1, <1>2, RecursionUpTo
<1>4. h = body(h)
  <2>1. ASSUME NEW i \in 0 .. n PROVE h[i] = IF i = 0 THEN 0 ELSE Mix(h[i - 1], frames[i])
    <3>1. i # 0 => i \in 1 .. n /\ h[i - 1] \in Words
      BY <1>1
    <3>. QED  BY <1>3, <3>1 DEF Follows
  <2>. QED  BY <2>1
<1>5. H = body(H)
  <2>. HIDE DEF body
  <2>. QED  BY <1>4
<1>6. hash_frames(frames, len) = Marked(H[n])
  BY DEF hash_frames, Marked, n, Used
<1>. HIDE DEF H
<1>7. \A i \in 0 .. n : H[i] = IF i = 0 THEN 0 ELSE Mix(H[i - 1], frames[i])
  BY <1>5
<1>8. H = h
  <2>1. ASSUME NEW m \in 0 .. n PROVE H[m] = h[m]
    <3>. DEFINE Bad == {i \in Nat : i <= m /\ H[i] # h[i]}
    <3>1. SUFFICES ASSUME Bad # {} PROVE FALSE
      OBVIOUS
    <3>2. PICK i \in Bad : \A k \in Bad : i <= k
      <4>1. Bad \subseteq Nat
        OBVIOUS
      <4>. HIDE DEF Bad
      <4>. QED  BY <3>1, <4>1, LeastNatural
    <3>3. i \in 0 .. n /\ (i # 0 => H[i - 1] = h[i - 1])
      BY <3>2, <1>1
    <3>4. h[i] = IF i = 0 THEN 0 ELSE Mix(h[i - 1], frames[i])
      BY <1>4, <3>3
    <3>. QED  BY <1>7, <3>2, <3>3, <3>4
  <2>2. H = [i \in 0 .. n |-> H[i]]
    BY <1>5
  <2>3. h = [i \in 0 .. n |-> h[i]]
    OBVIOUS
  <2>. QED  BY <2>1, <2>2, <2>3
<1>9. Chain(frames, n, h)
  <2>1. 0 \in 0 .. n /\ \A i \in 1 .. n : i \in 0 .. n /\ i # 0
    BY <1>1
  <2>. HIDE DEF step
  <2>2. h[0] = 0 /\ \A i \in 1 .. n : h[i] = Mix(h[i - 1], frames[i])
    BY <1>4, <2>1
  <2>. QED  BY <2>2 DEF Chain
<1>. QED  BY <1>6, <1>8, <1>9 DEF n

\* The hash is a word, and never 0, the mark of a free bucket (hash.rs:7-9).
THEOREM HashIsNotZero ==
    ASSUME NEW frames, NEW len \in Nat, \A i \in 1 .. Used(len) : frames[i] \in Words
    PROVE  hash_frames(frames, len) \in Words \ {0}
<1>1. PICK h : Chain(frames, Used(len), h) /\ hash_frames(frames, len) = Marked(h[Used(len)])
  BY HashChain
<1>2. Used(len) \in 0 .. Used(len)
  BY WordAssumption DEF Used
<1>3. h[Used(len)] \in Words
  BY <1>1, <1>2 DEF Chain
<1>. QED  BY <1>1, <1>3, WordFacts DEF Marked

\* Arrays that agree in their first m frames have the same hash there.
LEMMA ChainsAgree ==
    ASSUME NEW n \in Nat, NEW f, NEW g, NEW h, NEW j, NEW m \in 0 .. n,
           Chain(f, n, h), Chain(g, n, j), \A i \in 1 .. m : f[i] = g[i]
    PROVE  h[m] = j[m]
<1>. DEFINE Bad == {i \in Nat : i <= m /\ h[i] # j[i]}
<1>1. SUFFICES ASSUME Bad # {} PROVE FALSE
  OBVIOUS
<1>2. PICK i \in Bad : \A l \in Bad : i <= l
  <2>1. Bad \subseteq Nat
    OBVIOUS
  <2>. HIDE DEF Bad
  <2>. QED  BY <1>1, <2>1, LeastNatural
<1>3. i # 0
  BY <1>2 DEF Chain
<1>4. i \in 1 .. n /\ i \in 1 .. m /\ h[i - 1] = j[i - 1]
  BY <1>2, <1>3
<1>. QED  BY <1>2, <1>4 DEF Chain

\* Arrays of words that differ in frame k alone have different hashes from there on.
DifferAt(f, g, n, k) ==
    /\ \A i \in 1 .. n : f[i] \in Words /\ g[i] \in Words
    /\ f[k] # g[k] /\ \A i \in 1 .. n : i # k => f[i] = g[i]

LEMMA ChainsDiffer ==
    ASSUME NEW n \in Nat, NEW f, NEW g, NEW h, NEW j, NEW k \in 1 .. n, NEW m \in k .. n,
           Chain(f, n, h), Chain(g, n, j), DifferAt(f, g, n, k)
    PROVE  h[m] # j[m]
<1>. DEFINE Bad == {i \in Nat : k <= i /\ i <= m /\ h[i] = j[i]}
<1>1. SUFFICES ASSUME Bad # {} PROVE FALSE
  OBVIOUS
<1>2. PICK i \in Bad : \A l \in Bad : i <= l
  <2>1. Bad \subseteq Nat
    OBVIOUS
  <2>. HIDE DEF Bad
  <2>. QED  BY <1>1, <2>1, LeastNatural
<1>3. i \in 1 .. n /\ i - 1 \in 0 .. n /\ i - 1 \in Nat
  BY <1>2
<1>4. /\ h[i] = Mix(h[i - 1], f[i]) /\ j[i] = Mix(j[i - 1], g[i])
      /\ h[i - 1] \in Words /\ j[i - 1] \in Words /\ f[i] \in Words /\ g[i] \in Words
      /\ f[k] # g[k] /\ \A l \in 1 .. n : l # k => f[l] = g[l]
  BY <1>3 DEF Chain, DifferAt
<1>5. CASE i = k
  <2>1. \A l \in 1 .. i - 1 : f[l] = g[l]
    BY <1>3, <1>4, <1>5
  <2>2. h[i - 1] = j[i - 1]
    <3>. DEFINE m1 == i - 1
    <3>1. m1 \in 0 .. n /\ \A l \in 1 .. m1 : f[l] = g[l]
      BY <1>3, <2>1
    <3>. HIDE DEF m1, Bad
    <3>2. h[m1] = j[m1]
      BY <3>1, ChainsAgree
    <3>. QED  BY <3>2 DEF m1
  <2>3. f[i] = g[i]
    <3>1. Mix(h[i - 1], f[i]) = Mix(h[i - 1], g[i])
      BY <1>2, <1>4, <2>2
    <3>. QED  BY <1>4, <3>1, MixKeeps
  <2>. QED  BY <1>4, <1>5, <2>3
<1>6. CASE i # k
  <2>1. f[i] = g[i]
    BY <1>3, <1>4, <1>6
  <2>2. h[i - 1] = j[i - 1]
    <3>1. Mix(h[i - 1], f[i]) = Mix(j[i - 1], f[i])
      BY <1>2, <1>4, <2>1
    <3>. QED  BY <1>4, <3>1, MixKeeps
  <2>3. i - 1 \in Bad /\ ~(i <= i - 1)
    BY <1>2, <1>3, <1>6, <2>2
  <2>. HIDE DEF Bad
  <2>. QED  BY <1>2, <2>3
<1>. QED  BY <1>5, <1>6

LEMMA NoMisfits == Misfits = {}
<1>. DEFINE Miss(f, len) ==
       LET h == hash_frames(f, len) IN
       \/ h = 0
       \/ \E k \in 1 .. FrameSlots : \E w \in Words \ {f[k]} :
             LET g == hash_frames([f EXCEPT ![k] = w], len) IN
             IF k <= len THEN g = h /\ h # 1 ELSE g # h
<1>0. Misfits = {x \in [1 .. FrameSlots -> Words] \X (0 .. FrameSlots + 1) : Miss(x[1], x[2])}
  BY DEF Misfits
<1>1. SUFFICES ASSUME NEW f \in [1 .. FrameSlots -> Words], NEW len \in 0 .. FrameSlots + 1,
                      Miss(f, len)
               PROVE  FALSE
  <2>. HIDE DEF Miss
  <2>. QED  BY <1>0
<1>. DEFINE n == Used(len)
<1>2. /\ n \in Nat /\ n <= FrameSlots /\ len \in Nat /\ FrameSlots \in Nat
      /\ \A k \in 1 .. FrameSlots : k <= len <=> k <= n
  BY WordAssumption DEF Used
<1>3. \A i \in 1 .. n : f[i] \in Words
  BY <1>2
<1>4. PICK h : Chain(f, n, h) /\ hash_frames(f, len) = Marked(h[n])
  BY <1>2, <1>3, HashChain
<1>5. hash_frames(f, len) # 0
  BY <1>2, <1>3, HashIsNotZero
<1>6. ASSUME NEW k \in 1 .. FrameSlots, NEW w \in Words \ {f[k]}
      PROVE  LET g == hash_frames([f EXCEPT ![k] = w], len) IN
             IF k <= len THEN ~(g = hash_frames(f, len) /\ hash_frames(f, len) # 1)
                         ELSE g = hash_frames(f, len)
  <2>. DEFINE e == [f EXCEPT ![k] = w]
  <2>1. /\ \A i \in 1 .. FrameSlots : e[i] \in Words
        /\ e[k] # f[k] /\ \A i \in 1 .. FrameSlots : i # k => f[i] = e[i]
    BY <1>1, <1>6
  <2>. HIDE DEF e
  <2>2. \A i \in 1 .. n : i \in 1 .. FrameSlots
    BY <1>2
  <2>3. PICK j : Chain(e, n, j) /\ hash_frames(e, len) = Marked(j[n])
    BY <1>2, <2>1, <2>2, HashChain
  <2>4. CASE k <= len
    <3>1. k \in 1 .. n /\ n \in k .. n
      BY <1>2, <2>4
    <3>2. h[n] # j[n]
      <4>. HIDE DEF n
      <4>1. DifferAt(f, e, n, k)
        BY <1>3, <2>1, <2>2 DEF DifferAt
      <4>2. n \in Nat /\ Chain(f, n, h) /\ Chain(e, n, j)
        BY <1>2, <1>4, <2>3
      <4>. QED  BY <3>1, <4>1, <4>2, ChainsDiffer
    <3>3. Marked(h[n]) = Marked(j[n]) => Marked(h[n]) = 1
      BY <3>2 DEF Marked
    <3>. QED  BY <1>4, <2>3, <2>4, <3>3 DEF e
  <2>5. CASE ~(k <= len)
    <3>1. n \in 0 .. n /\ \A i \in 1 .. n : f[i] = e[i]
      BY <1>2, <2>1, <2>2, <2>5
    <3>2. h[n] = j[n]
      <4>. HIDE DEF n
      <4>. QED  BY <1>2, <1>4, <2>3, <3>1, ChainsAgree
    <3>. QED  BY <1>4, <2>3, <2>5, <3>2 DEF e
  <2>. QED  BY <2>4, <2>5
<1>. HIDE DEF n
<1>. QED  BY <1>1, <1>5, <1>6

\* Whatever is recorded: no two traces of a length that differ in one frame share a
\* hash, but for the hash that stands for 0, for words of any width, any odd
\* multiplier and any rotation (hash.rs:13-31).
THEOREM FramesAreToldApart == Spec => []HashTellsFramesApart
<1>1. HashTellsFramesApart
  BY NoMisfits DEF HashTellsFramesApart
<1>. QED  BY <1>1, PTL

-----------------------------------------------------------------------------
(* The number of buckets.                                                    *)

LEMMA NextPower ==
    ASSUME NEW n \in Nat \ {0}
    PROVE  /\ \E j \in Nat : next_power_of_two(n) = Pow2[j]
           /\ n <= next_power_of_two(n) /\ next_power_of_two(n) < 2 * n
           /\ \A k \in Nat : n <= Pow2[k] => next_power_of_two(n) <= Pow2[k]
<1>. DEFINE S == {p \in {Pow2[k] : k \in 0 .. n} : p >= n}
            p == next_power_of_two(n)
<1>1. S \subseteq Nat /\ Pow2[n] \in S
  <2>1. \A k \in 0 .. n : Pow2[k] \in Nat
    BY PowersOfTwo
  <2>2. Pow2[n] \in Nat /\ n < Pow2[n]
    BY PowersOfTwo, PowersExceed
  <2>. QED  BY <2>1, <2>2
<1>2. \E x \in S : \A y \in S : x <= y
  <2>. HIDE DEF S
  <2>. QED  BY <1>1, LeastNatural
<1>3. p = CHOOSE x \in S : \A y \in S : x <= y
  BY DEF next_power_of_two, Min
<1>4. p \in S /\ \A y \in S : p <= y
  <2>. HIDE DEF S, p
  <2>. QED  BY <1>2, <1>3
<1>. HIDE DEF p
<1>5. PICK j \in 0 .. n : p = Pow2[j] /\ p >= n
  BY <1>4
<1>6. j \in Nat /\ p \in Nat
  BY <1>5, PowersOfTwo
<1>7. p < 2 * n
  <2>1. CASE j = 0
    BY <1>5, <2>1, PowersOfTwo
  <2>2. CASE j # 0
    <3>1. j - 1 \in Nat /\ j - 1 \in 0 .. n /\ (j - 1) + 1 = j
      BY <1>5, <2>2
    <3>2. Pow2[j] = 2 * Pow2[j - 1] /\ Pow2[j - 1] \in Nat \ {0}
      BY <3>1, PowersOfTwo
    <3>3. Pow2[j - 1] \notin S
      BY <1>4, <1>5, <3>2
    <3>4. ~(Pow2[j - 1] >= n)
      BY <3>1, <3>3
    <3>. QED  BY <1>5, <3>2, <3>4
  <2>. QED  BY <2>1, <2>2
<1>8. ASSUME NEW k \in Nat, n <= Pow2[k] PROVE p <= Pow2[k]
  <2>1. CASE k <= n
    <3>1. Pow2[k] \in S
      BY <1>8, <2>1, PowersOfTwo
    <3>. QED  BY <1>4, <3>1
  <2>2. CASE ~(k <= n)
    <3>1. Pow2[n] <= Pow2[k]
      BY <2>2, PowersGrow
    <3>2. p <= Pow2[n] /\ Pow2[n] \in Nat /\ Pow2[k] \in Nat
      BY <1>1, <1>4, PowersOfTwo
    <3>. QED  BY <1>6, <3>1, <3>2
  <2>. QED  BY <2>1, <2>2
<1>. QED  BY <1>5, <1>6, <1>7, <1>8 DEF p

\* The mask of a power of two takes every number to its remainder.
LEMMA MaskIsModulo ==
    ASSUME NEW j \in Nat, NEW x \in Nat
    PROVE  BitAnd(x, Pow2[j] - 1) = x % Pow2[j]
<1>. DEFINE n == Pow2[j]
            m == n - 1
            r == x % n
            IsAnd(z) == \A k \in 0 .. m : Bit(z, k) = Bit(x, k) * Bit(m, k)
<1>1. n \in Nat \ {0} /\ m \in Nat /\ j <= m /\ m < n
  BY PowersOfTwo, PowersExceed
<1>2. r \in 0 .. m /\ x = (x \div n) * n + r /\ x \div n \in Nat
  <2>. HIDE DEF n
  <2>1. x = n * (x \div n) + r /\ x \div n \in Nat /\ r \in Nat /\ r < n
    BY <1>1, Division
  <2>. HIDE DEF r
  <2>. QED  BY <1>1, <2>1
<1>3. \A k \in 0 .. m : k \in Nat
  BY <1>1
<1>4. ASSUME NEW k \in Nat, k < j PROVE Bit(m, k) = 1 /\ Bit(r, k) = Bit(x, k)
  <2>1. Bit(m, k) = 1
    BY <1>4, AllOnes
  <2>. DEFINE c == x \div n
  <2>2. c \in Nat /\ r \in Nat /\ x = r + c * Pow2[j]
    BY <1>1, <1>2
  <2>. HIDE DEF c, r
  <2>3. Bit(r + c * Pow2[j], k) = Bit(r, k)
    BY <1>4, <2>2, LowDigits
  <2>. QED  BY <2>1, <2>2, <2>3
<1>5. ASSUME NEW k \in Nat, NEW z \in 0 .. m, ~(k < j) PROVE Bit(z, k) = 0
  BY <1>1, <1>5, NoDigitAbove
<1>6. \A k \in Nat : Bit(x, k) \in {0, 1}
  BY BitType
<1>7. IsAnd(r)
  <2>1. ASSUME NEW k \in Nat PROVE Bit(r, k) = Bit(x, k) * Bit(m, k)
    <3>1. CASE k < j
      BY <1>4, <1>6, <3>1
    <3>2. CASE ~(k < j)
      <4>1. Bit(r, k) = 0 /\ Bit(m, k) = 0
        <5>1. m \in 0 .. m
          BY <1>1
        <5>. HIDE DEF m, r
        <5>. QED  BY <1>2, <1>5, <3>2, <5>1
      <4>. HIDE DEF m, r
      <4>. QED  BY <1>6, <4>1
    <3>. QED  BY <3>1, <3>2
  <2>. HIDE DEF r, m
  <2>. QED  BY <1>3, <2>1
<1>8. ASSUME NEW z \in 0 .. m, IsAnd(z) PROVE z = r
  <2>1. ASSUME NEW k \in 0 .. j - 1 PROVE Bit(z, k) = Bit(r, k)
    <3>1. k \in Nat /\ k < j /\ k \in 0 .. m
      BY <1>1
    <3>2. Bit(z, k) = Bit(x, k) * Bit(m, k)
      BY <1>8, <3>1
    <3>. HIDE DEF m, r
    <3>. QED  BY <1>4, <1>6, <3>1, <3>2
  <2>2. z \in Nat /\ r \in Nat /\ z < n /\ r < n
    <3>1. m \in Nat /\ m < n
      BY <1>1
    <3>2. r \in 0 .. m
      BY <1>2
    <3>. HIDE DEF r, m
    <3>. QED  BY <1>1, <1>8, <3>1, <3>2
  <2>. HIDE DEF r, m
  <2>3. z % Pow2[j] = r % Pow2[j]
    BY <2>1, <2>2, DigitsTell
  <2>4. \A i, p \in Nat : i < p => i % p = i
    OBVIOUS
  <2>. QED  BY <1>1, <2>2, <2>3, <2>4
<1>9. BitAnd(x, m) = CHOOSE z \in 0 .. m : IsAnd(z)
  BY DEF BitAnd
<1>. HIDE DEF IsAnd, r, m
<1>10. BitAnd(x, m) = r
  BY <1>2, <1>7, <1>8, <1>9
<1>. QED  BY <1>10 DEF r, m

\* The count is a power of two within the limits (table.rs:84-92).
THEOREM BucketCountIs ==
    ASSUME NEW var \in Requests \union {Unset, NoNumber}
    PROVE  LET n == configured_bucket_count(var) IN
           /\ n \in MIN_BUCKETS .. MAX_BUCKETS /\ n \in Nat \ {0, 1}
           /\ \E j \in Nat : n = Pow2[j]
           /\ var \in MIN_BUCKETS .. MAX_BUCKETS => var <= n /\ n < 2 * var
<1>. DEFINE asked == IF var \in {Unset, NoNumber} THEN DEFAULT_BUCKETS ELSE var
            c == clamp(asked, MIN_BUCKETS, MAX_BUCKETS)
            n == next_power_of_two(c)
<1>1. PICK k \in Nat : MAX_BUCKETS = Pow2[k]
  <2>1. \A k \in 1 .. 63 : k \in Nat
    OBVIOUS
  <2>. QED  BY <2>1, BucketLimits
<1>2. PICK l \in 1 .. 63 : MIN_BUCKETS = Pow2[l]
  BY BucketLimits
<1>3. MIN_BUCKETS \in Nat \ {0, 1} /\ MAX_BUCKETS \in Nat
  <2>1. l \in Nat /\ l < Pow2[l] /\ 1 <= l
    BY PowersExceed
  <2>2. Pow2[l] \in Nat /\ Pow2[k] \in Nat
    BY <2>1, PowersOfTwo
  <2>. QED  BY <1>1, <1>2, <2>1, <2>2
<1>4. DEFAULT_BUCKETS \in MIN_BUCKETS .. MAX_BUCKETS
  BY BucketLimits
<1>5. asked \in Nat
  BY <1>3, <1>4, RequestAssumption
<1>6. c \in MIN_BUCKETS .. MAX_BUCKETS /\ c \in Nat \ {0}
  <2>. HIDE DEF asked
  <2>. QED  BY <1>3, <1>4, <1>5 DEF clamp
<1>7. var \in MIN_BUCKETS .. MAX_BUCKETS => c = var
  <2>1. SUFFICES ASSUME var \in MIN_BUCKETS .. MAX_BUCKETS PROVE c = var
    OBVIOUS
  <2>2. var \in Nat
    BY <1>3, <2>1
  <2>3. asked = var
    BY <2>2, RequestAssumption
  <2>. HIDE DEF asked
  <2>. QED  BY <1>3, <2>1, <2>2, <2>3 DEF clamp
<1>8. configured_bucket_count(var) = n
  BY DEF configured_bucket_count
<1>. HIDE DEF c
<1>9. /\ \E j \in Nat : n = Pow2[j]
      /\ c <= n /\ n < 2 * c /\ n <= Pow2[k]
  BY <1>1, <1>3, <1>6, NextPower
<1>10. n \in Nat
  BY <1>9, PowersOfTwo
<1>. HIDE DEF n
<1>. QED  BY <1>1, <1>3, <1>6, <1>7, <1>8, <1>9, <1>10

LEMMA AllUsable == Unusable = {}
<1>1. SUFFICES ASSUME NEW var \in Requests \union {Unset, NoNumber}
               PROVE  LET n == configured_bucket_count(var) IN
                      /\ n \in MIN_BUCKETS .. MAX_BUCKETS
                      /\ \A x \in 0 .. 2 * MAX_BUCKETS : BitAnd(x, n - 1) = x % n
                      /\ var \in MIN_BUCKETS .. MAX_BUCKETS => var <= n /\ n < 2 * var
  BY DEF Unusable
<1>. DEFINE n == configured_bucket_count(var)
<1>2. /\ n \in MIN_BUCKETS .. MAX_BUCKETS /\ \E j \in Nat : n = Pow2[j]
      /\ var \in MIN_BUCKETS .. MAX_BUCKETS => var <= n /\ n < 2 * var
  BY BucketCountIs
<1>. HIDE DEF n
<1>3. PICK j \in Nat : n = Pow2[j]
  BY <1>2
<1>4. \A x \in 0 .. 2 * MAX_BUCKETS : x \in Nat
  OBVIOUS
<1>5. \A x \in 0 .. 2 * MAX_BUCKETS : BitAnd(x, n - 1) = x % n
  BY <1>3, <1>4, MaskIsModulo
<1>. QED  BY <1>2, <1>5 DEF n

\* Whatever MOD_ALLOC_BUCKETS holds, and whatever the limits, so long as they are
\* powers of two with the default between them: the table has a power of two of
\* buckets within the limits, and its mask reaches each of them and no other
\* (table.rs:84-92, 172).
THEOREM BucketsAreReachable == Spec => []EveryBucketIsReachable
<1>1. EveryBucketIsReachable
  BY AllUsable DEF EveryBucketIsReachable
<1>. QED  BY <1>1, PTL
=============================================================================
