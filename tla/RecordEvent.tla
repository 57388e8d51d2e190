----------------------------- MODULE RecordEvent -----------------------------
(***************************************************************************)
(* backtrace/mod.rs record_event on one thread, event after event: read    *)
(* the frame pointer, get the bounds of the thread's stack from its cache  *)
(* or from the operating system, walk, and hand what was captured to the   *)
(* call-site table.  Walk is the walk; its Low and High are the stack the  *)
(* thread really has, and BoundsAreTheStack says that it is called with    *)
(* them.  All the state is the thread's own, so one thread is all of them. *)
(***************************************************************************)
EXTENDS Walk

CONSTANTS
    HasFramePointer,  \* is the target x86_64 or aarch64?
    Garbage           \* words found in an out parameter that was not written

ASSUME ArchAssumption    == HasFramePointer \in BOOLEAN
ASSUME GarbageAssumption == Garbage \subseteq 0 .. Top - 1
ASSUME LiveAssumption    == 0 < Low /\ Low < High
ASSUME ZeroAssumption    == 0 \in Links /\ 0 \in Returns

VARIABLES
    CACHED,   \* the thread-local cell: None or the bounds
    tls,      \* "alive", or "gone" when the thread's locals are destroyed
    stage,    \* where record_event is: "outside", "bounds" or "walk"
    bounds,   \* what current_stack_bounds returned
    start,    \* history: the frame pointer this event began with
    asked,    \* history: this event's query: "no", "failed" or "answered"
    learnt,   \* history: has a query been answered while the cell was there?
    recorded  \* history: did the last event reach table::record?

capture == <<CACHED, tls, stage, bounds, start, asked, learnt, recorded>>

None  == << >>
Stack == <<Low, High>>

-----------------------------------------------------------------------------
(* query_os: what each platform makes of what the system says.  The system *)
(* tells the truth, or fails: with a code, or by leaving zeros or sizes     *)
(* that cannot be.                                                          *)

\* GetCurrentThreadStackLimits has no code: two words that were 0 before.
query_windows(low, high) ==
    IF low = 0 \/ high = 0 \/ high <= low THEN None ELSE <<low, high>>

\* Mutant: the code of pthread_attr_getstack is not looked at.
query_linux_any(failed, low, size) ==
    IF low + size >= Top \/ low = 0 \/ size = 0
    THEN None ELSE <<low, low + size>>

\* pthread_getattr_np and pthread_attr_getstack, low.checked_add(size).
query_linux(failed, low, size) ==
    IF failed \/ low + size >= Top \/ low = 0 \/ size = 0
    THEN None ELSE <<low, low + size>>

\* pthread_get_stackaddr_np is the high end; high.checked_sub(size).
query_bsd(high, size) ==
    IF high = 0 \/ size = 0 \/ high < size THEN None ELSE <<high - size, high>>

\* What query_os may return, over all platforms; the last is "other targets".
query_os ==
    {query_windows(w[1], w[2]) : w \in {Stack, <<0, 0>>, <<High, Low>>}}
    \union {query_linux(FALSE, w[1], w[2]) :
               w \in {<<Low, High - Low>>, <<0, High>>, <<Low, 0>>, <<Low, Top>>}}
    \union {query_linux(TRUE, w[1], w[2]) : w \in Garbage \X Garbage}
    \union {query_bsd(w[1], w[2]) :
               w \in {<<High, High - Low>>, <<0, High>>, <<High, 0>>, <<High, Top>>}}
    \union {None}

-----------------------------------------------------------------------------
NoLinks   == [r \in Records |-> 0]
CacheIsOn == tls = "alive"

RecordEventInit ==
    /\ link = NoLinks /\ return = NoLinks
    /\ fp = 0 /\ out = << >> /\ done = TRUE /\ visited = << >>
    /\ CACHED = None /\ tls = "alive"
    /\ stage = "outside" /\ bounds = None /\ start = 0
    /\ asked = "no" /\ learnt = FALSE /\ recorded = FALSE

\* rbp or x29, which a build without frame pointers uses for anything.
current_fp == IF HasFramePointer THEN Starts ELSE {0}

\* record_event is called; the stack above it holds anything.
Begin ==
    /\ stage = "outside"
    /\ fp' \in current_fp \ {0} /\ start' = fp'
    /\ link' \in [Records -> Links] /\ return' \in [Records -> Returns]
    /\ stage' = "bounds" /\ asked' = "no" /\ recorded' = FALSE
    /\ UNCHANGED <<out, visited, done, CACHED, tls, bounds, learnt>>

\* Without a frame pointer it returns at once.
BeginWithout ==
    /\ stage = "outside"
    /\ 0 \in current_fp
    /\ asked' = "no" /\ recorded' = FALSE
    /\ UNCHANGED <<vars, CACHED, tls, stage, bounds, start, learnt>>

\* record_event returns: its frames are popped, and what they held is gone.
Leave(isRecorded) ==
    /\ stage' = "outside" /\ bounds' = None /\ recorded' = isRecorded
    /\ link' = NoLinks /\ return' = NoLinks
    /\ fp' = 0 /\ start' = 0
    /\ out' = << >> /\ done' = TRUE /\ visited' = << >>

\* walk is called.
Enter(b) ==
    /\ stage' = "walk" /\ bounds' = b /\ done' = FALSE
    /\ UNCHANGED <<link, return, fp, start, out, visited, recorded>>

BoundsHit ==
    /\ stage = "bounds" /\ CacheIsOn /\ CACHED # None
    /\ Enter(CACHED)
    /\ UNCHANGED <<CACHED, tls, asked, learnt>>

\* Mutant: what was learnt is not kept.
QueryAndForget ==
    /\ stage = "bounds" /\ ~(CacheIsOn /\ CACHED # None)
    /\ \E fresh \in query_os :
          /\ asked' = IF fresh = None THEN "failed" ELSE "answered"
          /\ learnt' = (learnt \/ (CacheIsOn /\ fresh # None))
          /\ IF fresh = None THEN Leave(FALSE) ELSE Enter(fresh)
    /\ UNCHANGED <<CACHED, tls>>

\* No bounds yet, or no cell: only an answer is kept, and only in a cell.
Query ==
    /\ stage = "bounds" /\ ~(CacheIsOn /\ CACHED # None)
    /\ \E fresh \in query_os :
          /\ asked' = IF fresh = None THEN "failed" ELSE "answered"
          /\ learnt' = (learnt \/ (CacheIsOn /\ fresh # None))
          /\ CACHED' = IF CacheIsOn /\ fresh # None THEN fresh ELSE CACHED
          /\ IF fresh = None THEN Leave(FALSE) ELSE Enter(fresh)
    /\ UNCHANGED tls

WalkStep ==
    /\ stage = "walk"
    /\ Stop \/ Follow \/ StopAtBadLink \/ StopAtBottom
    /\ UNCHANGED capture

\* Mutant: a trace of one frame is not worth recording.
RecordDeep ==
    /\ stage = "walk" /\ done
    /\ Leave(Len(out) > 1)
    /\ UNCHANGED <<CACHED, tls, asked, learnt>>

\* walk has returned: table::record, unless nothing was captured.
Record ==
    /\ stage = "walk" /\ done
    /\ Leave(out # << >>)
    /\ UNCHANGED <<CACHED, tls, asked, learnt>>

\* The thread ends; its allocator goes on being called by later destructors.
LocalsGo ==
    /\ stage = "outside" /\ CacheIsOn
    /\ tls' = "gone"
    /\ UNCHANGED <<vars, CACHED, stage, bounds, start, asked, learnt, recorded>>

RecordEventNext == \/ Begin \/ BeginWithout \/ BoundsHit \/ Query
                   \/ WalkStep \/ Record \/ LocalsGo

RecordEventSpec == RecordEventInit /\ [][RecordEventNext]_<<vars, capture>>

-----------------------------------------------------------------------------
(* Properties.                                                               *)

\* Every variable of record_event keeps its type.
RecordEventTypeOK ==
    /\ CACHED \in {None} \union (Nat \X Nat)
    /\ tls \in {"alive", "gone"}
    /\ stage \in {"outside", "bounds", "walk"}
    /\ bounds \in {None} \union (Nat \X Nat)
    /\ start \in Nat
    /\ asked \in {"no", "failed", "answered"}
    /\ learnt \in BOOLEAN
    /\ recorded \in BOOLEAN

\* Whatever fails, and whatever was cached before, the walk is only ever given
\* the bounds of the stack the thread has: this is what makes its reads safe
\* (stack_bounds.rs:3-7, 60-177).
BoundsAreTheStack ==
    /\ stage = "walk" => bounds = Stack
    /\ CACHED \in {None, Stack}

\* A thread that has once learnt its bounds never asks the system again, as
\* long as it has its cell (stack_bounds.rs:34-43).
AskedOnce ==
    [][asked' # asked /\ asked' # "no" => ~learnt \/ tls = "gone"]_<<vars, capture>>

\* A query that fails costs the event it was made for and no other.  An event
\* that has a frame pointer is recorded if its own query, if any, was answered,
\* and the record that the frame pointer points to is one of the stack's and has
\* a return address: whatever the links above it hold, and whatever failed in
\* earlier events.  Otherwise it is lost, and only then (stack_bounds.rs:50-54,
\* mod.rs:64-78).
LossesHaveCause ==
    [][stage # "outside" /\ stage' = "outside" =>
          /\ recorded' <=> /\ asked' # "failed"
                           /\ start \in Records /\ return[start] # 0
          /\ recorded' => out # << >>]_<<vars, capture>>
=============================================================================
