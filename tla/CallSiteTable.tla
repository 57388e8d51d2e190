--------------------------- MODULE CallSiteTable ---------------------------
(***************************************************************************)
(* The process-wide call-site table of src/backtrace/table.rs: a lock-free *)
(* open-addressed hash table that every allocating thread writes and that  *)
(* call_sites_report reads while they do.  One action is one atomic access *)
(* of the code; what a thread computes between two accesses belongs to the *)
(* action of the first.                                                    *)
(***************************************************************************)
EXTENDS Integers, Sequences, FiniteSets, FiniteSetsExt

CONSTANTS
    Threads,    \* threads that allocate or ask for a report
    Null,       \* the null pointer
    N,          \* what configured_bucket_count() returns
    MaxFrames,  \* walk::MAX_FRAMES
    Traces,     \* captured traces: sequences of return addresses
    Hash,       \* hash::hash_frames, as a function on Traces
    Sizes,      \* allocation sizes
    MaxCalls    \* bound: calls made in a behaviour

ASSUME NullAssumption   == Null \notin Threads
ASSUME BucketAssumption == N \in Nat \ {0, 1}
ASSUME TraceAssumption  == /\ MaxFrames \in Nat \ {0}
                           /\ \A tr \in Traces : /\ tr \in Seq(Nat \ {0})
                                                 /\ Len(tr) <= MaxFrames
ASSUME HashAssumption   == Hash \in [Traces -> Nat \ {0}]
ASSUME SizeAssumption   == Sizes \subseteq Nat \ {0}
ASSUME BoundAssumption  == MaxCalls \in Nat
ASSUME FiniteAssumption == IsFiniteSet(Threads)

VARIABLES
    TABLE_BASE,     \* the thread whose pages were published, or Null
    TABLE_BUCKETS,
    TABLE_MASK,
    mapped,         \* threads whose pages from alloc_pages are mapped
    hash, count, total_bytes, frame_count, sample_frames,  \* the buckets
    pc,             \* the access each thread makes next
    call,           \* what each thread was called with
    view,           \* the bucket count and mask ensure_init gave it
    idx,            \* the bucket it looks at
    pos,            \* frames of that bucket written or read so far
    row,            \* the CallSiteStats a report is filling
    out,            \* the Vec a report has built
    calls,          \* calls begun, capped by MaxCalls
    \* history variables: read by properties only
    owed,           \* per hash, events and bytes of calls not given up
    shortClaim,     \* has a thread whose mask is 0 claimed a bucket?
    before          \* published buckets' counters when a report began

init    == <<TABLE_BASE, TABLE_BUCKETS, TABLE_MASK, mapped>>
table   == <<hash, count, total_bytes, frame_count, sample_frames>>
locals  == <<pc, call, view, idx, pos, row, out>>
history == <<calls, owed, shortClaim, before>>
vars    == <<init, table, locals, history>>

Slots     == 0 .. N - 1
Hashes    == {Hash[tr] : tr \in Traces}
NoFrames  == [k \in 1 .. MaxFrames |-> 0]
NoCall    == [op |-> "none", trace |-> << >>, size |-> 0]
NoView    == [buckets |-> 0, mask |-> 0]
NoRow     == [slot |-> 0, frames |-> NoFrames, frame_count |-> 0,
              count |-> 0, total_bytes |-> 0]
Published == {i \in Slots : hash[i] # 0 /\ frame_count[i] # 0}

\* Mutant: the mask taken for a bucket count.
AndOffByOne(x, m) == x % (m + 2)

\* `x & m`, for the only masks there are: 0 and 2^k - 1.
And(x, m) == x % (m + 1)

HashOf(t) == Hash[call[t].trace]
Start(t)  == And(HashOf(t), view[t].mask)

Init ==
    /\ TABLE_BASE = Null /\ TABLE_BUCKETS = 0 /\ TABLE_MASK = 0
    /\ mapped = {}
    /\ hash          = [i \in Slots |-> 0]
    /\ count         = [i \in Slots |-> 0]
    /\ total_bytes   = [i \in Slots |-> 0]
    /\ frame_count   = [i \in Slots |-> 0]
    /\ sample_frames = [i \in Slots |-> NoFrames]
    /\ pc   = [t \in Threads |-> "idle"]
    /\ call = [t \in Threads |-> NoCall]
    /\ view = [t \in Threads |-> NoView]
    /\ idx  = [t \in Threads |-> 0]
    /\ pos  = [t \in Threads |-> 0]
    /\ row  = [t \in Threads |-> NoRow]
    /\ out  = [t \in Threads |-> << >>]
    /\ calls = 0
    /\ owed = [h \in Hashes |-> [events |-> 0, bytes |-> 0]]
    /\ shortClaim = FALSE
    /\ before = [t \in Threads |-> [i \in {} |-> 0]]

Goto(t, where) == pc' = [pc EXCEPT ![t] = where]

\* record returns: its stack frame is gone.
Leave(t) ==
    /\ Goto(t, "idle")
    /\ call' = [call EXCEPT ![t] = NoCall]
    /\ view' = [view EXCEPT ![t] = NoView]
    /\ idx'  = [idx EXCEPT ![t] = 0]
    /\ pos'  = [pos EXCEPT ![t] = 0]
    /\ UNCHANGED <<row, out>>

Owe(tr, events, bytes) ==
    owed' = [owed EXCEPT ![Hash[tr]].events = @ + events,
                         ![Hash[tr]].bytes  = @ + bytes]

\* record returns without having counted its event.
GiveUp(t) ==
    /\ Leave(t)
    /\ Owe(call[t].trace, -1, -call[t].size)

-----------------------------------------------------------------------------
(* The calls.  A zero-frame capture returns before it touches the table.   *)

BeginRecord(t) ==
    /\ pc[t] = "idle" /\ calls < MaxCalls
    /\ \E tr \in Traces \ {<< >>}, size \in Sizes :
          /\ call' = [call EXCEPT ![t] = [op |-> "record", trace |-> tr,
                                          size |-> size]]
          /\ Owe(tr, 1, size)
    /\ Goto(t, "loadBase")
    /\ calls' = calls + 1
    /\ UNCHANGED <<init, table, view, idx, pos, row, out, shortClaim, before>>

BeginReport(t) ==
    /\ pc[t] = "idle" /\ calls < MaxCalls
    /\ call' = [call EXCEPT ![t].op = "report"]
    /\ before' = [before EXCEPT ![t] =
                    [i \in Published |-> [events |-> count[i],
                                          bytes  |-> total_bytes[i]]]]
    /\ Goto(t, "loadBase")
    /\ calls' = calls + 1
    /\ UNCHANGED <<init, table, view, idx, pos, row, out, owed, shortClaim>>

\* The caller takes the Vec.
TakeReport(t) ==
    /\ pc[t] = "reported"
    /\ Goto(t, "idle")
    /\ call' = [call EXCEPT ![t] = NoCall]
    /\ view' = [view EXCEPT ![t] = NoView]
    /\ idx'  = [idx EXCEPT ![t] = 0]
    /\ out'  = [out EXCEPT ![t] = << >>]
    /\ before' = [before EXCEPT ![t] = [i \in {} |-> 0]]
    /\ UNCHANGED <<init, table, pos, row, calls, owed, shortClaim>>

\* _reset_for_test, which the tests call with no other call in flight
\* (TEST_LOCK), so that it is one step; like every call it goes through
\* ensure_init first, and does nothing when there are no pages to be had.
Reset(t) ==
    /\ \A u \in Threads : pc[u] = "idle"
    /\ calls < MaxCalls
    /\ \/ TABLE_BASE # Null /\ UNCHANGED init
       \/ /\ TABLE_BASE = Null
          /\ TABLE_BASE' = t /\ TABLE_BUCKETS' = N /\ TABLE_MASK' = N - 1
          /\ mapped' = mapped \union {t}
    /\ hash'          = [i \in Slots |-> 0]
    /\ count'         = [i \in Slots |-> 0]
    /\ total_bytes'   = [i \in Slots |-> 0]
    /\ frame_count'   = [i \in Slots |-> 0]
    /\ sample_frames' = [i \in Slots |-> NoFrames]
    /\ calls' = calls + 1
    /\ owed' = [h \in Hashes |-> [events |-> 0, bytes |-> 0]]
    /\ shortClaim' = FALSE
    /\ UNCHANGED <<locals, before>>

-----------------------------------------------------------------------------
(* ensure_init and ensure_init_slow.                                       *)

\* ensure_init has returned (base, buckets, mask): on with the call.
Enter(t, buckets, mask) ==
    /\ view' = [view EXCEPT ![t] = [buckets |-> buckets, mask |-> mask]]
    /\ \/ /\ call[t].op = "record"
          /\ idx' = [idx EXCEPT ![t] = And(HashOf(t), mask)]
          /\ Goto(t, "probe")
       \/ /\ call[t].op = "report"
          /\ Goto(t, IF buckets > 0 THEN "scanHash" ELSE "reported")
          /\ UNCHANGED idx
    /\ UNCHANGED <<call, pos, row, out>>

LoadBase(t) ==
    /\ pc[t] = "loadBase"
    /\ Goto(t, IF TABLE_BASE = Null THEN "allocPages" ELSE "loadBuckets")
    /\ UNCHANGED <<init, table, call, view, idx, pos, row, out, history>>

LoadBuckets(t) ==
    /\ pc[t] = "loadBuckets"
    /\ view' = [view EXCEPT ![t].buckets = TABLE_BUCKETS]
    /\ Goto(t, "loadMask")
    /\ UNCHANGED <<init, table, call, idx, pos, row, out, history>>

LoadMask(t) ==
    /\ pc[t] = "loadMask"
    /\ Enter(t, view[t].buckets, TABLE_MASK)
    /\ UNCHANGED <<init, table, history>>

AllocPages(t) ==
    /\ pc[t] = "allocPages"
    /\ mapped' = mapped \union {t}
    /\ Goto(t, "casBase")
    /\ UNCHANGED <<TABLE_BASE, TABLE_BUCKETS, TABLE_MASK, table,
                   call, view, idx, pos, row, out, history>>

\* alloc_pages returned null: ensure_init is None, the call gives up.
AllocPagesFails(t) ==
    /\ pc[t] = "allocPages"
    /\ \/ call[t].op = "record" /\ GiveUp(t)
       \/ /\ call[t].op = "report" /\ Goto(t, "reported")
          /\ UNCHANGED <<call, view, idx, pos, row, out, owed>>
    /\ UNCHANGED <<init, table, calls, shortClaim, before>>

CasBase(t) ==
    /\ pc[t] = "casBase"
    /\ \/ TABLE_BASE = Null /\ TABLE_BASE' = t /\ Goto(t, "storeBuckets")
       \/ TABLE_BASE # Null /\ UNCHANGED TABLE_BASE /\ Goto(t, "freePages")
    /\ UNCHANGED <<TABLE_BUCKETS, TABLE_MASK, mapped, table,
                   call, view, idx, pos, row, out, history>>

\* Mutant: the winner does not publish the bucket count.
StoreNoBuckets(t) ==
    /\ pc[t] = "storeBuckets"
    /\ Goto(t, "storeMask")
    /\ UNCHANGED <<init, table, call, view, idx, pos, row, out, history>>

StoreBuckets(t) ==
    /\ pc[t] = "storeBuckets"
    /\ TABLE_BUCKETS' = N
    /\ Goto(t, "storeMask")
    /\ UNCHANGED <<TABLE_BASE, TABLE_MASK, mapped, table,
                   call, view, idx, pos, row, out, history>>

StoreMask(t) ==
    /\ pc[t] = "storeMask"
    /\ TABLE_MASK' = N - 1
    /\ Enter(t, N, N - 1)
    /\ UNCHANGED <<TABLE_BASE, TABLE_BUCKETS, mapped, table, history>>

\* Mutant: the loser frees the pages that were published.
FreeWinnersPages(t) ==
    /\ pc[t] = "freePages"
    /\ mapped' = mapped \ {TABLE_BASE}
    /\ Goto(t, "awaitBuckets")
    /\ UNCHANGED <<TABLE_BASE, TABLE_BUCKETS, TABLE_MASK, table,
                   call, view, idx, pos, row, out, history>>

FreePages(t) ==
    /\ pc[t] = "freePages"
    /\ mapped' = mapped \ {t}
    /\ Goto(t, "awaitBuckets")
    /\ UNCHANGED <<TABLE_BASE, TABLE_BUCKETS, TABLE_MASK, table,
                   call, view, idx, pos, row, out, history>>

\* The loser's spin, as the iteration that leaves it.
AwaitBuckets(t) ==
    /\ pc[t] = "awaitBuckets"
    /\ TABLE_BUCKETS > 0
    /\ view' = [view EXCEPT ![t].buckets = TABLE_BUCKETS]
    /\ Goto(t, "loadMask")
    /\ UNCHANGED <<init, table, call, idx, pos, row, out, history>>

-----------------------------------------------------------------------------
(* record, once it has the table.                                          *)

\* Mutant: the probe does not wrap around.
AdvanceToEnd(t) ==
    \/ /\ idx[t] < view[t].mask
       /\ idx' = [idx EXCEPT ![t] = @ + 1]
       /\ Goto(t, "probe")
       /\ UNCHANGED <<call, view, pos, row, out, owed>>
    \/ idx[t] >= view[t].mask /\ GiveUp(t)

\* `idx = (idx + 1) & mask`, and give up when back at the start.
Advance(t) ==
    LET next == And(idx[t] + 1, view[t].mask) IN
    \/ /\ next # Start(t)
       /\ idx' = [idx EXCEPT ![t] = next]
       /\ Goto(t, "probe")
       /\ UNCHANGED <<call, view, pos, row, out, owed>>
    \/ /\ next = Start(t)
       /\ GiveUp(t)

Probe(t) ==
    /\ pc[t] = "probe"
    /\ \/ /\ hash[idx[t]] \in {0, HashOf(t)}
          /\ Goto(t, IF hash[idx[t]] = 0 THEN "claim" ELSE "addCount")
          /\ UNCHANGED <<call, view, idx, pos, row, out, owed>>
       \/ hash[idx[t]] \notin {0, HashOf(t)} /\ Advance(t)
    /\ UNCHANGED <<init, table, calls, shortClaim, before>>

\* Mutant: the claim publishes frame_count before the frames are written.
ClaimAndPublish(t) ==
    /\ pc[t] = "claim"
    /\ hash[idx[t]] = 0
    /\ hash' = [hash EXCEPT ![idx[t]] = HashOf(t)]
    /\ frame_count' = [frame_count EXCEPT ![idx[t]] = Len(call[t].trace)]
    /\ shortClaim' = (shortClaim \/ view[t].mask = 0)
    /\ Goto(t, "writeFrame")
    /\ UNCHANGED <<init, count, total_bytes, sample_frames,
                   call, view, idx, pos, row, out, calls, owed, before>>

\* hash.compare_exchange(0, h)
Claim(t) ==
    /\ pc[t] = "claim"
    /\ hash[idx[t]] = 0
    /\ hash' = [hash EXCEPT ![idx[t]] = HashOf(t)]
    /\ shortClaim' = (shortClaim \/ view[t].mask = 0)
    /\ Goto(t, "writeFrame")
    /\ UNCHANGED <<init, count, total_bytes, frame_count, sample_frames,
                   call, view, idx, pos, row, out, calls, owed, before>>

\* Mutant: the loser of a bucket does not look whose hash it lost to.
ClaimLostMovesOn(t) ==
    /\ pc[t] = "claim"
    /\ hash[idx[t]] # 0
    /\ Advance(t)
    /\ UNCHANGED <<init, table, calls, shortClaim, before>>

ClaimLost(t) ==
    /\ pc[t] = "claim"
    /\ \/ /\ hash[idx[t]] = HashOf(t)
          /\ Goto(t, "addCount")
          /\ UNCHANGED <<call, view, idx, pos, row, out, owed>>
       \/ hash[idx[t]] \notin {0, HashOf(t)} /\ Advance(t)
    /\ UNCHANGED <<init, table, calls, shortClaim, before>>

WriteFrame(t) ==
    /\ pc[t] = "writeFrame"
    /\ LET k == pos[t] + 1 IN
          /\ sample_frames' = [sample_frames EXCEPT ![idx[t]][k] =
                                                          call[t].trace[k]]
          /\ pos' = [pos EXCEPT ![t] = k]
          /\ Goto(t, IF k = Len(call[t].trace) THEN "initCount"
                                               ELSE "writeFrame")
    /\ UNCHANGED <<init, hash, count, total_bytes, frame_count,
                   call, view, idx, row, out, history>>

\* Mutant: the claimer stores its count, over the increments of others.
StoreCount(t) ==
    /\ pc[t] \in {"initCount", "addCount"}
    /\ count' = [count EXCEPT ![idx[t]] =
                     IF pc[t] = "initCount" THEN 1 ELSE @ + 1]
    /\ Goto(t, IF pc[t] = "initCount" THEN "initBytes" ELSE "addBytes")
    /\ UNCHANGED <<init, hash, total_bytes, frame_count, sample_frames,
                   call, view, idx, pos, row, out, history>>

\* The claimer's and the matching writer's fetch_add are the same access.
AddCount(t) ==
    /\ pc[t] \in {"initCount", "addCount"}
    /\ count' = [count EXCEPT ![idx[t]] = @ + 1]
    /\ Goto(t, IF pc[t] = "initCount" THEN "initBytes" ELSE "addBytes")
    /\ UNCHANGED <<init, hash, total_bytes, frame_count, sample_frames,
                   call, view, idx, pos, row, out, history>>

InitBytes(t) ==
    /\ pc[t] = "initBytes"
    /\ total_bytes' = [total_bytes EXCEPT ![idx[t]] = @ + call[t].size]
    /\ Goto(t, "publish")
    /\ UNCHANGED <<init, hash, count, frame_count, sample_frames,
                   call, view, idx, pos, row, out, history>>

AddBytes(t) ==
    /\ pc[t] = "addBytes"
    /\ total_bytes' = [total_bytes EXCEPT ![idx[t]] = @ + call[t].size]
    /\ Leave(t)
    /\ UNCHANGED <<init, hash, count, frame_count, sample_frames, history>>

\* Mutant: the claimer returns without publishing.
LeaveUnpublished(t) ==
    /\ pc[t] = "publish"
    /\ Leave(t)
    /\ UNCHANGED <<init, table, history>>

Publish(t) ==
    /\ pc[t] = "publish"
    /\ frame_count' = [frame_count EXCEPT ![idx[t]] = Len(call[t].trace)]
    /\ Leave(t)
    /\ UNCHANGED <<init, hash, count, total_bytes, sample_frames, history>>

-----------------------------------------------------------------------------
(* call_sites_report, once it has the table.                               *)

\* Mutant: the loop stops one bucket early.
NextRowToMask(t) ==
    /\ row' = [row EXCEPT ![t] = NoRow]
    /\ pos' = [pos EXCEPT ![t] = 0]
    /\ IF idx[t] + 1 < view[t].buckets - 1
       THEN idx' = [idx EXCEPT ![t] = @ + 1] /\ Goto(t, "scanHash")
       ELSE UNCHANGED idx /\ Goto(t, "reported")

\* The `for` loop moves on, or ends after the last bucket.
NextRow(t) ==
    /\ row' = [row EXCEPT ![t] = NoRow]
    /\ pos' = [pos EXCEPT ![t] = 0]
    /\ IF idx[t] + 1 < view[t].buckets
       THEN idx' = [idx EXCEPT ![t] = @ + 1] /\ Goto(t, "scanHash")
       ELSE UNCHANGED idx /\ Goto(t, "reported")

ScanHash(t) ==
    /\ pc[t] = "scanHash"
    /\ \/ hash[idx[t]] = 0 /\ NextRow(t)
       \/ /\ hash[idx[t]] # 0 /\ Goto(t, "scanFrameCount")
          /\ UNCHANGED <<idx, pos, row>>
    /\ UNCHANGED <<init, table, call, view, out, history>>

ScanFrameCount(t) ==
    /\ pc[t] = "scanFrameCount"
    /\ \/ frame_count[idx[t]] = 0 /\ NextRow(t)
       \/ /\ frame_count[idx[t]] # 0
          /\ row' = [row EXCEPT ![t].slot = idx[t],
                                ![t].frame_count = frame_count[idx[t]]]
          /\ Goto(t, "loadFrame")
          /\ UNCHANGED <<idx, pos>>
    /\ UNCHANGED <<init, table, call, view, out, history>>

LoadFrame(t) ==
    /\ pc[t] = "loadFrame"
    /\ LET k == pos[t] + 1 IN
          /\ row' = [row EXCEPT ![t].frames[k] = sample_frames[idx[t]][k]]
          /\ pos' = [pos EXCEPT ![t] = k]
          /\ Goto(t, IF k = row[t].frame_count THEN "loadCount"
                                               ELSE "loadFrame")
    /\ UNCHANGED <<init, table, call, view, idx, out, history>>

LoadCount(t) ==
    /\ pc[t] = "loadCount"
    /\ row' = [row EXCEPT ![t].count = count[idx[t]]]
    /\ Goto(t, "loadBytes")
    /\ UNCHANGED <<init, table, call, view, idx, pos, out, history>>

LoadBytes(t) ==
    /\ pc[t] = "loadBytes"
    /\ out' = [out EXCEPT ![t] =
                 Append(@, [row[t] EXCEPT !.total_bytes = total_bytes[idx[t]]])]
    /\ NextRow(t)
    /\ UNCHANGED <<init, table, call, view, history>>

-----------------------------------------------------------------------------
EnsureInit(t) ==
    \/ LoadBase(t) \/ LoadBuckets(t) \/ LoadMask(t)
    \/ AllocPages(t) \/ AllocPagesFails(t) \/ CasBase(t)
    \/ StoreBuckets(t) \/ StoreMask(t) \/ FreePages(t) \/ AwaitBuckets(t)

Record(t) ==
    \/ Probe(t) \/ Claim(t) \/ ClaimLost(t) \/ WriteFrame(t)
    \/ AddCount(t) \/ InitBytes(t) \/ AddBytes(t) \/ Publish(t)

Report(t) ==
    \/ ScanHash(t) \/ ScanFrameCount(t) \/ LoadFrame(t)
    \/ LoadCount(t) \/ LoadBytes(t) \/ TakeReport(t)

\* A step of a call that has begun.
Step(t) == EnsureInit(t) \/ Record(t) \/ Report(t)

\* The program makes no more calls.
Rest == calls = MaxCalls /\ (\A t \in Threads : pc[t] = "idle") /\ UNCHANGED vars

Next == \/ \E t \in Threads : \/ BeginRecord(t) \/ BeginReport(t) \/ Reset(t)
                              \/ Step(t)
        \/ Rest

Spec == Init /\ [][Next]_vars

\* The scheduler runs every thread that can run; no thread has to call.
FairSpec == Spec /\ \A t \in Threads : WF_vars(Step(t))

-----------------------------------------------------------------------------
(* Properties.                                                             *)

PCs == {"idle", "loadBase", "loadBuckets", "loadMask", "allocPages",
        "casBase", "storeBuckets", "storeMask", "freePages", "awaitBuckets",
        "probe", "claim", "writeFrame", "initCount", "initBytes", "publish",
        "addCount", "addBytes", "scanHash", "scanFrameCount", "loadFrame",
        "loadCount", "loadBytes", "reported"}

Frames == [1 .. MaxFrames -> Nat]
Row    == [slot : Slots, frames : Frames, frame_count : 0 .. MaxFrames,
           count : Nat, total_bytes : Nat]

\* Every variable keeps its type; in particular an index stays inside the
\* array that `base.add(idx)` is taken from (table.rs:176, 250).
TypeOK ==
    /\ TABLE_BASE \in Threads \union {Null}
    /\ TABLE_BUCKETS \in {0, N} /\ TABLE_MASK \in {0, N - 1}
    /\ mapped \subseteq Threads
    /\ hash \in [Slots -> Nat]
    /\ count \in [Slots -> Nat]
    /\ total_bytes \in [Slots -> Nat]
    /\ frame_count \in [Slots -> 0 .. MaxFrames]
    /\ sample_frames \in [Slots -> Frames]
    /\ pc \in [Threads -> PCs]
    /\ call \in [Threads -> [op : {"none", "record", "report"},
                             trace : Traces \union {<< >>},
                             size : Sizes \union {0}]]
    /\ view \in [Threads -> [buckets : {0, N}, mask : {0, N - 1}]]
    /\ idx \in [Threads -> Slots]
    /\ pos \in [Threads -> 0 .. MaxFrames]
    /\ row \in [Threads -> Row]
    /\ out \in [Threads -> Seq(Row)]
    /\ calls \in 0 .. MaxCalls
    /\ shortClaim \in BOOLEAN

\* The pages that threads index are mapped, and the only other mapped pages
\* belong to a thread still inside the race to publish them: a lost race
\* leaks nothing and frees nothing in use (table.rs:119-143).
PagesMapped ==
    /\ TABLE_BASE # Null => TABLE_BASE \in mapped
    /\ \A t \in mapped : t = TABLE_BASE \/ pc[t] \in {"casBase", "freePages"}

\* A site has a second row only in bucket 0, and only once a thread that
\* entered before TABLE_MASK was stored has claimed that bucket.
DuplicatesOnlyAtZero ==
    \A i, j \in Slots :
        i < j /\ hash[i] # 0 /\ hash[i] = hash[j] => i = 0 /\ shortClaim

\* "one CallSiteStats per unique call site" (lib.rs:308-310).
OneRowPerSite ==
    \A i, j \in Slots : i # j /\ hash[i] # 0 => hash[i] # hash[j]

Drops(t) == pc[t] \in {"probe", "claim"} /\ pc'[t] = "idle"
FullFor(h) == \A i \in Slots : hash[i] \notin {0, h}

\* "Table full; drop event silently" (table.rs:231), for the threads that entered
\* after TABLE_MASK was stored: an event is dropped only when no bucket is free
\* and none is its site's.  A full circle of probes, each at its own time, still
\* saw a table that is full now.  (A thread that read the mask as 0 has a circle
\* of one bucket.)
WideDropOnlyWhenFull ==
    [][\A t \in Threads :
          Drops(t) /\ view[t].mask # 0 => FullFor(HashOf(t))]_vars

Recording(h) == {t \in Threads : call[t].op = "record" /\ HashOf(t) = h}
SlotsOf(h)   == {i \in Slots : hash[i] = h}

\* The calls that have not reached their fetch_add yet, of the count and of the
\* bytes.
Uncounted(h) == {t \in Recording(h) : pc[t] \notin {"initBytes", "addBytes", "publish"}}
Unadded(h)   == {t \in Recording(h) : pc[t] # "publish"}

Size        == [t \in Threads |-> call[t].size]
Total(f, S) == MapThenSumSet(LAMBDA x : f[x], S)

\* No increment is lost or clobbered, whoever initialises the bucket and
\* whoever matches it meanwhile (table.rs:187-194): the buckets of a hash and
\* the calls that have not reached their fetch_add yet account for every event
\* and every byte of the calls that were not dropped.
NothingLost ==
    \A h \in Hashes :
       /\ owed[h].events = Total(count, SlotsOf(h)) + Cardinality(Uncounted(h))
       /\ owed[h].bytes  = Total(total_bytes, SlotsOf(h)) + Total(Size, Unadded(h))

Padded(tr) == [k \in 1 .. MaxFrames |-> IF k <= Len(tr) THEN tr[k] ELSE 0]

\* A row is never torn, whatever is recorded while the report is read: its
\* frames are one whole trace, it counts at least the event that created it,
\* and never an event or a byte that no call brought (table.rs:254-270).
RowsCoherent ==
    \A t \in Threads : \A n \in 1 .. Len(out[t]) :
       LET r == out[t][n] IN
       /\ r.count >= 1
       /\ r.total_bytes >= 1
       /\ \E tr \in Traces : /\ r.frames = Padded(tr)
                             /\ r.frame_count = Len(tr)
                             /\ r.count <= owed[Hash[tr]].events
                             /\ r.total_bytes <= owed[Hash[tr]].bytes

\* A report that saw the bucket count has, once each, the sites that were
\* published when it was asked for, with no less than they had counted then.
ReportComplete ==
    \A t \in Threads : pc[t] = "reported" /\ view[t].buckets > 0 =>
       /\ \A m, n \in 1 .. Len(out[t]) :
             m < n => out[t][m].slot < out[t][n].slot
       /\ \A i \in DOMAIN before[t] : \E n \in 1 .. Len(out[t]) :
             /\ out[t][n].slot = i
             /\ out[t][n].count >= before[t][i].events
             /\ out[t][n].total_bytes >= before[t][i].bytes

\* Every call returns: a probe ends, and a loser of the race for the pages
\* leaves its spin (table.rs:141-148).
CallsReturn == \A t \in Threads : pc[t] # "idle" ~> pc[t] = "idle"

\* A claimed bucket becomes visible to reports.
ClaimsArePublished ==
    \A i \in Slots : hash[i] # 0 ~> i \in Published
=============================================================================
