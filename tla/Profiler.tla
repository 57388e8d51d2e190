------------------------------ MODULE Profiler ------------------------------
(***************************************************************************)
(* lib.rs Profiler: a thread outside the allocator takes one snapshot of   *)
(* the counters in start() and another in stop(), counter by counter and   *)
(* while other threads allocate, and returns the difference.  The snapshot *)
(* finds the counters through the handle that the hook registers, and is   *)
(* all zeros before that.  dhat_compat's HeapStats::get is one such        *)
(* snapshot in other words.  ModAlloc is the program being profiled.       *)
(***************************************************************************)
EXTENDS ModAlloc

CONSTANT UsizeW     \* usize is counted modulo this

ASSUME UsizeAssumption == UsizeW \in Nat \ {0}

VARIABLES
    stage,      \* where the profiler is: "none", "start", "window", ...
    next_load,  \* its next load: 0 the handle, k the k-th counter
    loaded,     \* the snapshot being taken
    baseline,   \* what start() kept
    delta,      \* what stop() returned
    heap_stats, \* what HeapStats::get() returned
    window      \* history: what the program did around the two snapshots

profiler == <<stage, next_load, loaded, baseline, delta, heap_stats,
              window>>

\* Calls the program has begun and that have returned.
Completed ==
    events - Cardinality({t \in Threads : /\ pc[t] \notin {"outside", "reset"}
                                          /\ ~IsDealloc(t)})

NoWindow == [start_done |-> 0, start_begun |-> 0,
             stop_done |-> 0, stop_begun |-> 0,
             held |-> 0, live |-> 0, quiet |-> TRUE]

\* Mutant: the bytes held are taken from the wrong counter.
HeapStatsOfTotals(snap) ==
    [total_blocks |-> snap.alloc_count,
     total_bytes  |-> snap.total_bytes,
     curr_blocks  |-> snap.live_count % UsizeW,
     curr_bytes   |-> snap.total_bytes % UsizeW,
     max_blocks   |-> snap.peak_live_count % UsizeW,
     max_bytes    |-> snap.peak_bytes % UsizeW]

\* HeapStats::get's fields; `as usize` keeps the low bits (it does not saturate).
HeapStats(snap) ==
    [total_blocks |-> snap.alloc_count,
     total_bytes  |-> snap.total_bytes,
     curr_blocks  |-> snap.live_count % UsizeW,
     curr_bytes   |-> snap.current_bytes % UsizeW,
     max_blocks   |-> snap.peak_live_count % UsizeW,
     max_bytes    |-> snap.peak_bytes % UsizeW]

ProfilerInit ==
    /\ Init
    /\ stage = "none" /\ next_load = 0
    /\ loaded = Zeros /\ baseline = Zeros /\ delta = Zeros
    /\ heap_stats = HeapStats(Zeros)
    /\ window = NoWindow

\* start() is called: before any reset or after it, not during it.
BeginStart ==
    /\ stage = "none" /\ Resetting = {}
    /\ stage' = "start"
    /\ window' = [NoWindow EXCEPT !.start_done = Completed,
                                  !.quiet = AtRest]
    /\ UNCHANGED <<vars, next_load, loaded, baseline, delta, heap_stats>>

\* HeapStats::get() is called.
BeginGet ==
    /\ stage = "none" /\ Resetting = {}
    /\ stage' = "get"
    /\ window' = [NoWindow EXCEPT !.start_done = Completed,
                                  !.quiet = AtRest]
    /\ UNCHANGED <<vars, next_load, loaded, baseline, delta, heap_stats>>

BeginStop ==
    /\ stage = "window"
    /\ stage' = "stop"
    /\ window' = [window EXCEPT !.stop_done = Completed,
                                !.quiet = @ /\ AtRest]
    /\ UNCHANGED <<vars, next_load, loaded, baseline, delta, heap_stats>>

\* Mutant: a subtraction that does not saturate.
PlainSub(a, b) == a - b

SaturatingSub(a, b) == IF a >= b THEN a - b ELSE 0

\* Mutant: what is held is reported as it is.
DifferenceOfEvents(now) ==
    [now EXCEPT !.alloc_count = SaturatingSub(@, baseline.alloc_count),
                !.total_bytes = SaturatingSub(@, baseline.total_bytes)]

\* What stop() makes of its snapshot: deltas, but the peaks as they are.
Difference(now) ==
    [alloc_count     |-> SaturatingSub(now.alloc_count, baseline.alloc_count),
     total_bytes     |-> SaturatingSub(now.total_bytes, baseline.total_bytes),
     current_bytes   |-> SaturatingSub(now.current_bytes, baseline.current_bytes),
     peak_bytes      |-> now.peak_bytes,
     live_count      |-> SaturatingSub(now.live_count, baseline.live_count),
     peak_live_count |-> now.peak_live_count]

\* Mutant: start() forgets its snapshot.
StartWithoutBaseline(snapshot) ==
    /\ stage = "start" /\ stage' = "window"
    /\ window' = [window EXCEPT !.start_begun = events,
                                !.held = Bytes(Held),
                                !.live = Cardinality(Held)]
    /\ UNCHANGED <<baseline, delta, heap_stats>>

\* The snapshot is complete: start(), stop() or get() returns.
FinishStart(snapshot) ==
    /\ stage = "start" /\ stage' = "window"
    /\ baseline' = snapshot
    /\ window' = [window EXCEPT !.start_begun = events,
                                !.held = Bytes(Held),
                                !.live = Cardinality(Held)]
    /\ UNCHANGED <<delta, heap_stats>>

FinishStop(snapshot) ==
    /\ stage = "stop" /\ stage' = "stopped"
    /\ delta' = Difference(snapshot)
    /\ window' = [window EXCEPT !.stop_begun = events]
    /\ UNCHANGED <<baseline, heap_stats>>

FinishGet(snapshot) ==
    /\ stage = "get" /\ stage' = "got"
    /\ heap_stats' = HeapStats(snapshot)
    /\ window' = [window EXCEPT !.stop_begun = events]
    /\ UNCHANGED <<baseline, delta>>

Finish(snapshot) ==
    /\ FinishStart(snapshot) \/ FinishStop(snapshot) \/ FinishGet(snapshot)
    /\ next_load' = 0 /\ loaded' = Zeros

\* current_snapshot_or_zeros reads the handle ...
LoadHandle ==
    /\ stage \in {"start", "stop", "get"} /\ next_load = 0
    /\ \/ GLOBAL_HANDLE /\ next_load' = 1
          /\ UNCHANGED <<stage, loaded, baseline, delta, heap_stats, window>>
       \/ ~GLOBAL_HANDLE /\ Finish(Zeros)
    /\ UNCHANGED vars

\* ... and snapshot() the counters, one by one.
LoadCounter ==
    /\ stage \in {"start", "stop", "get"} /\ next_load \in 1 .. 6
    /\ LET c == Order[next_load]
           s == [loaded EXCEPT ![c] = counters[c]]
       IN \/ /\ next_load < 6
             /\ loaded' = s /\ next_load' = next_load + 1
             /\ UNCHANGED <<stage, baseline, delta, heap_stats, window>>
          \/ next_load = 6 /\ Finish(s)
    /\ UNCHANGED vars

\* The program goes on; it does not reset the counters under a live profiler.
ProgramStep ==
    /\ stage \notin {"stopped", "got"}
    /\ Next
    /\ stage # "none" => Resetting' = {}
    /\ window' = [window EXCEPT !.quiet = @ /\ stage \in {"none", "window"}]
    /\ UNCHANGED <<stage, next_load, loaded, baseline, delta, heap_stats>>

\* The caller drops the AllocStats or HeapStats it was given.
TakeStats ==
    /\ stage \in {"stopped", "got"} /\ stage' = "none"
    /\ baseline' = Zeros /\ delta' = Zeros /\ heap_stats' = HeapStats(Zeros)
    /\ window' = NoWindow
    /\ UNCHANGED <<vars, next_load, loaded>>

ProfilerNext == BeginStart \/ BeginStop \/ BeginGet \/ LoadHandle \/ LoadCounter
                \/ TakeStats \/ ProgramStep

ProfilerSpec == ProfilerInit /\ [][ProfilerNext]_<<vars, profiler>>

-----------------------------------------------------------------------------
(* Properties.                                                               *)

\* Every variable of the profiler keeps its type.
ProfilerTypeOK ==
    LET Stats == [alloc_count : 0 .. W - 1, total_bytes : 0 .. W - 1,
                  peak_bytes : 0 .. W - 1, current_bytes : 0 .. W - 1,
                  live_count : 0 .. W - 1, peak_live_count : 0 .. W - 1]
    IN /\ stage \in {"none", "start", "window", "stop", "stopped",
                    "get", "got"}
       /\ next_load \in 0 .. 6
       /\ loaded \in Stats /\ baseline \in Stats /\ delta \in Stats
       /\ \A field \in DOMAIN heap_stats : heap_stats[field] \in 0 .. W - 1

\* The number of events stop() reports lies between the calls made wholly
\* inside the window and the calls that overlap it, also when the handle was
\* registered only after start() (lib.rs:621-655).
WindowCounts ==
    stage = "stopped" =>
       /\ delta.alloc_count <= window.stop_begun - window.start_done
       /\ delta.alloc_count >= window.stop_done - window.start_begun

\* With no call in progress while either snapshot is taken, whatever went on
\* between them, the deltas are exact; a net release is reported as 0.
QuietWindowIsExact ==
    stage = "stopped" /\ window.quiet =>
       /\ delta.alloc_count = window.stop_begun - window.start_begun
       /\ delta.current_bytes = SaturatingSub(Bytes(Held), window.held)
       /\ delta.live_count = SaturatingSub(Cardinality(Held), window.live)

\* HeapStats::get() counts every call that had returned when it was asked, also
\* the one that registered the handle, and none that had not begun; with no
\* call in progress it says what is held, and a peak no lower, in each field
\* whose value fits usize (stats.rs:57-67).
HeapStatsAreCurrent ==
    stage = "got" =>
       /\ heap_stats.total_blocks \in window.start_done .. window.stop_begun
       /\ window.quiet =>
             /\ heap_stats.total_blocks = window.stop_begun
             /\ Bytes(Held) < UsizeW => heap_stats.curr_bytes = Bytes(Held)
             /\ Cardinality(Held) < UsizeW =>
                   heap_stats.curr_blocks = Cardinality(Held)
             /\ counters.peak_bytes < UsizeW =>
                   heap_stats.max_bytes >= Bytes(Held)

\* "On 32-bit targets the `u64 -> usize` casts in [`HeapStats::get`] are
\* saturating" (stats.rs:14-15): what is held and does not fit is reported as
\* the largest usize.
NarrowFieldsSaturate ==
    stage = "got" /\ window.quiet /\ Bytes(Held) >= UsizeW =>
       heap_stats.curr_bytes = UsizeW - 1

\* "peak_bytes is the absolute high-water mark observed during the profiling
\* window" (lib.rs:629-632): when nothing was allocated or grown between two
\* quiet snapshots, what was held at the first is that mark.
PeakOfWindow ==
    stage = "stopped" /\ window.quiet
      /\ window.stop_begun = window.start_begun
          => delta.peak_bytes <= window.held
=============================================================================
