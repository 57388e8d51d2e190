------------------------------ MODULE ModAlloc ------------------------------
(***************************************************************************)
(* The allocator wrapper of src/lib.rs: every alloc, dealloc and realloc   *)
(* of the program goes to System and is then counted in six shared atomic  *)
(* counters, unless the calling thread is already inside the counting      *)
(* code.  One action is one atomic access; the System call, and the        *)
(* thread-local flag that is tested right after it, are one step.          *)
(***************************************************************************)
EXTENDS Integers, Sequences, FiniteSets, FiniteSetsExt

CONSTANTS
    Threads,
    Blocks,       \* blocks of memory System hands out
    Program,      \* the holder of a block that is not the hook's own
    Sizes,        \* layout sizes
    W,            \* counters count modulo W: 2^64 in the code
    ResetAnyTime, \* is reset called with allocations live?  The docs say no
    MaxCalls      \* bound: allocs, reallocs and resets in a behaviour

ASSUME ProgramAssumption == Program \notin Threads /\ Program \notin Blocks
ASSUME SizesAssumption   == Sizes \subseteq Nat \ {0}
ASSUME WidthAssumption   == W \in Nat \ {0} /\ \A s \in Sizes : s < W
ASSUME ResetAssumption   == ResetAnyTime \in BOOLEAN
ASSUME CallsAssumption   == MaxCalls \in Nat
ASSUME FiniteAssumption  == IsFiniteSet(Threads) /\ IsFiniteSet(Blocks)
\* The counters are wide enough: 64 bits, against an address space that is far
\* smaller even if every thread is freeing as much as all blocks can hold.
ASSUME FitsAssumption ==
    /\ MaxCalls < W
    /\ Cardinality(Blocks) + Cardinality(Threads) < W
    /\ \A f \in [Blocks -> Sizes \union {0}], g \in [Threads -> Sizes \union {0}] :
          MapThenSumSet(LAMBDA b : f[b], Blocks)
             + MapThenSumSet(LAMBDA t : g[t], Threads) < W

VARIABLES
    counters,       \* the six AtomicU64 of ModAlloc
    GLOBAL_HANDLE,  \* has the installed ModAlloc registered itself?
    IN_ALLOC,       \* the thread-local reentrancy flag
    heap,           \* size of each block System has handed out, or 0
    holder,         \* who it was handed to: the program or a thread's hook
    pc,             \* the access each thread makes next
    arg,            \* its hook's block, old size, new size and new_current
    next_store,     \* which of its stores a thread in reset makes next
    calls,          \* allocs, reallocs, resets made, capped by MaxCalls
    \* history variables: read by properties only
    events,         \* program's alloc and realloc calls, since the last reset
    high,           \* highest current_bytes and live_count that an addition
                    \* has made since then
    underflow       \* did a fetch_sub ever go below zero?

history == <<events, high, underflow>>
vars == <<counters, GLOBAL_HANDLE, IN_ALLOC, heap, holder, pc, arg,
          next_store, calls, history>>

\* The order in which reset stores and snapshot loads the counters.
Order == <<"alloc_count", "total_bytes", "peak_bytes", "current_bytes",
           "live_count", "peak_live_count">>
Zeros == [alloc_count |-> 0, total_bytes |-> 0, peak_bytes |-> 0,
          current_bytes |-> 0, live_count |-> 0, peak_live_count |-> 0]
NoArg == [block |-> Program, old |-> 0, new |-> 0, new_current |-> 0]
NoHigh == [bytes |-> 0, live |-> 0]

Bigger(a, b) == IF a >= b THEN a ELSE b

Init ==
    /\ counters = Zeros
    /\ GLOBAL_HANDLE = FALSE
    /\ IN_ALLOC = [t \in Threads |-> FALSE]
    /\ heap = [b \in Blocks |-> 0]
    /\ holder = [b \in Blocks |-> Program]
    /\ pc = [t \in Threads |-> "outside"]
    /\ arg = [t \in Threads |-> NoArg]
    /\ next_store = [t \in Threads |-> 1]
    /\ calls = 0
    /\ events = 0 /\ high = NoHigh /\ underflow = FALSE

Goto(t, where) == pc' = [pc EXCEPT ![t] = where]

Resetting == {t \in Threads : pc[t] = "reset"}
Orderly   == ResetAnyTime \/ Resetting = {}

\* Blocks that a call in progress has been given and will hand over.
InFlight == {arg[t].block : t \in Threads}

-----------------------------------------------------------------------------
(* The GlobalAlloc methods, up to the reentrancy guard.  A call comes from  *)
(* the program, or from inside the hook: record_event may read the          *)
(* environment, whose String is allocated, grown and freed there.  A System *)
(* call that returns null changes nothing, so it is no step.                *)

Caller(t) == IF pc[t] = "event" THEN t ELSE Program

CanCall(t) == pc[t] \in {"outside", "event"} /\ Orderly

\* Mutant: the flag is not tested.
HookAlways(t, block, old, new, where) ==
    /\ IN_ALLOC' = [IN_ALLOC EXCEPT ![t] = TRUE]
    /\ arg' = [arg EXCEPT ![t] = [block |-> block, old |-> old,
                                  new |-> new, new_current |-> 0]]
    /\ Goto(t, where)

\* ReentryGuard::enter: None when the flag is set, and the call is not counted.
Hook(t, block, old, new, where) ==
    IF IN_ALLOC[t]
    THEN UNCHANGED <<IN_ALLOC, arg, pc>>
    ELSE /\ IN_ALLOC' = [IN_ALLOC EXCEPT ![t] = TRUE]
         /\ arg' = [arg EXCEPT ![t] = [block |-> block, old |-> old,
                                       new |-> new, new_current |-> 0]]
         /\ Goto(t, where)

\* An alloc or realloc that the program, not the hook, asked for.
Counts(t) == events' = IF Caller(t) = Program THEN events + 1 ELSE events

\* alloc and alloc_zeroed
Alloc(t) ==
    /\ CanCall(t) /\ calls < MaxCalls
    /\ \E b \in Blocks, size \in Sizes :
          /\ heap[b] = 0
          /\ heap' = [heap EXCEPT ![b] = size]
          /\ holder' = [holder EXCEPT ![b] = Caller(t)]
          /\ Hook(t, b, 0, size, "alloc_count")
    /\ Counts(t)
    /\ calls' = calls + 1
    /\ UNCHANGED <<counters, GLOBAL_HANDLE, next_store, high, underflow>>

\* System frees the block before the hook counts it.
Dealloc(t) ==
    /\ CanCall(t)
    /\ \E b \in Blocks \ InFlight :
          /\ heap[b] # 0 /\ holder[b] = Caller(t)
          /\ heap' = [heap EXCEPT ![b] = 0]
          /\ holder' = [holder EXCEPT ![b] = Program]
          /\ Hook(t, Program, heap[b], 0, "current_sub")
    /\ UNCHANGED <<counters, GLOBAL_HANDLE, next_store, calls, history>>

Realloc(t) ==
    /\ CanCall(t) /\ calls < MaxCalls
    /\ \E b \in Blocks \ InFlight, size \in Sizes :
          /\ heap[b] # 0 /\ holder[b] = Caller(t)
          /\ heap' = [heap EXCEPT ![b] = size]
          /\ Hook(t, b, heap[b], size, "alloc_count")
    /\ Counts(t)
    /\ calls' = calls + 1
    /\ UNCHANGED <<counters, GLOBAL_HANDLE, holder, next_store, high, underflow>>

-----------------------------------------------------------------------------
(* record_alloc, record_realloc, record_dealloc, register_self: alloc is    *)
(* old = 0, dealloc is new = 0.                                              *)

Add(c, n) == [counters EXCEPT ![c] = (@ + n) % W]
Sub(c, n) == [counters EXCEPT ![c] = (@ - n) % W]
IsAlloc(t)   == arg[t].old = 0
IsDealloc(t) == arg[t].new = 0
Delta(t)     == arg[t].new - arg[t].old

CountEvent(t) ==
    /\ pc[t] = "alloc_count"
    /\ counters' = Add("alloc_count", 1)
    /\ \/ Delta(t) > 0 /\ Goto(t, "total_bytes")
       \/ Delta(t) < 0 /\ Goto(t, "current_sub")
       \/ Delta(t) = 0 /\ Goto(t, "register")
    /\ UNCHANGED <<GLOBAL_HANDLE, IN_ALLOC, heap, holder, arg,
                   next_store, calls, history>>

AddTotal(t) ==
    /\ pc[t] = "total_bytes"
    /\ counters' = Add("total_bytes", Delta(t))
    /\ Goto(t, "current_add")
    /\ UNCHANGED <<GLOBAL_HANDLE, IN_ALLOC, heap, holder, arg,
                   next_store, calls, history>>

\* Mutant: the value that fetch_add returns is taken for the new one.
AddCurrentOld(t) ==
    /\ pc[t] = "current_add"
    /\ counters' = Add("current_bytes", Delta(t))
    /\ arg' = [arg EXCEPT ![t].new_current = counters.current_bytes]
    /\ high' = [high EXCEPT !.bytes = Bigger(@, counters'.current_bytes)]
    /\ Goto(t, "peak_bytes")
    /\ UNCHANGED <<GLOBAL_HANDLE, IN_ALLOC, heap, holder,
                   next_store, calls, events, underflow>>

AddCurrent(t) ==
    /\ pc[t] = "current_add"
    /\ counters' = Add("current_bytes", Delta(t))
    /\ arg' = [arg EXCEPT ![t].new_current = counters'.current_bytes]
    /\ high' = [high EXCEPT !.bytes = Bigger(@, counters'.current_bytes)]
    /\ Goto(t, "peak_bytes")
    /\ UNCHANGED <<GLOBAL_HANDLE, IN_ALLOC, heap, holder,
                   next_store, calls, events, underflow>>

\* Mutants: the peak is stored, or added to, where it should be raised.
StorePeak(t) ==
    /\ pc[t] = "peak_bytes"
    /\ counters' = [counters EXCEPT !.peak_bytes = arg[t].new_current]
    /\ Goto(t, IF IsAlloc(t) THEN "live_add" ELSE "register")
    /\ UNCHANGED <<GLOBAL_HANDLE, IN_ALLOC, heap, holder, arg,
                   next_store, calls, history>>

AddToPeak(t) ==
    /\ pc[t] = "peak_bytes"
    /\ counters' = [counters EXCEPT !.peak_bytes = @ + arg[t].new_current]
    /\ Goto(t, IF IsAlloc(t) THEN "live_add" ELSE "register")
    /\ UNCHANGED <<GLOBAL_HANDLE, IN_ALLOC, heap, holder, arg,
                   next_store, calls, history>>

RaisePeak(t) ==
    /\ pc[t] = "peak_bytes"
    /\ counters' = [counters EXCEPT !.peak_bytes = Bigger(@, arg[t].new_current)]
    /\ Goto(t, IF IsAlloc(t) THEN "live_add" ELSE "register")
    /\ UNCHANGED <<GLOBAL_HANDLE, IN_ALLOC, heap, holder, arg,
                   next_store, calls, history>>

AddLive(t) ==
    /\ pc[t] = "live_add"
    /\ counters' = Add("live_count", 1)
    /\ arg' = [arg EXCEPT ![t].new_current = counters'.live_count]
    /\ high' = [high EXCEPT !.live = Bigger(@, counters'.live_count)]
    /\ Goto(t, "peak_live")
    /\ UNCHANGED <<GLOBAL_HANDLE, IN_ALLOC, heap, holder,
                   next_store, calls, events, underflow>>

RaisePeakLive(t) ==
    /\ pc[t] = "peak_live"
    /\ counters' = [counters EXCEPT
                       !.peak_live_count = Bigger(@, arg[t].new_current)]
    /\ Goto(t, "register")
    /\ UNCHANGED <<GLOBAL_HANDLE, IN_ALLOC, heap, holder, arg,
                   next_store, calls, history>>

\* Mutant: the handle is never stored.
RegisterNothing(t) ==
    /\ pc[t] = "register"
    /\ Goto(t, "event")
    /\ UNCHANGED <<counters, GLOBAL_HANDLE, IN_ALLOC, heap, holder, arg,
                   next_store, calls, history>>

\* The load and the compare_exchange: with one installed ModAlloc they store
\* the same pointer whoever comes first.
Register(t) ==
    /\ pc[t] = "register"
    /\ GLOBAL_HANDLE' = TRUE
    /\ Goto(t, "event")
    /\ UNCHANGED <<counters, IN_ALLOC, heap, holder, arg,
                   next_store, calls, history>>

\* The guard is dropped and the call returns.
DropGuard(t) ==
    /\ IN_ALLOC' = [IN_ALLOC EXCEPT ![t] = FALSE]
    /\ arg' = [arg EXCEPT ![t] = NoArg]
    /\ Goto(t, "outside")

\* record_event has returned, and has dropped all it had allocated.
LeaveHook(t) ==
    /\ pc[t] = "event"
    /\ \A b \in Blocks : holder[b] # t
    /\ DropGuard(t)
    /\ UNCHANGED <<counters, GLOBAL_HANDLE, heap, holder,
                   next_store, calls, history>>

\* Mutant: a realloc that shrinks gives back the whole old size.
SubOldSize(t) ==
    /\ pc[t] = "current_sub"
    /\ counters' = Sub("current_bytes", arg[t].old)
    /\ underflow' = (underflow \/ counters.current_bytes < arg[t].old)
    /\ Goto(t, IF IsDealloc(t) THEN "live_sub" ELSE "register")
    /\ UNCHANGED <<GLOBAL_HANDLE, IN_ALLOC, heap, holder, arg,
                   next_store, calls, events, high>>

SubCurrent(t) ==
    /\ pc[t] = "current_sub"
    /\ counters' = Sub("current_bytes", -Delta(t))
    /\ underflow' = (underflow \/ counters.current_bytes + Delta(t) < 0)
    /\ Goto(t, IF IsDealloc(t) THEN "live_sub" ELSE "register")
    /\ UNCHANGED <<GLOBAL_HANDLE, IN_ALLOC, heap, holder, arg,
                   next_store, calls, events, high>>

SubLive(t) ==
    /\ pc[t] = "live_sub"
    /\ counters' = Sub("live_count", 1)
    /\ underflow' = (underflow \/ counters.live_count = 0)
    /\ DropGuard(t)
    /\ UNCHANGED <<GLOBAL_HANDLE, heap, holder, next_store, calls, events, high>>

-----------------------------------------------------------------------------
(* reset: six stores.  Its docs have it called at the start of a profile    *)
(* run, before any outstanding allocations exist.                            *)

BeginReset(t) ==
    /\ pc[t] = "outside" /\ calls < MaxCalls
    /\ \/ ResetAnyTime
       \/ /\ \A u \in Threads : pc[u] = "outside"
          /\ \A b \in Blocks : heap[b] = 0
    /\ Goto(t, "reset")
    /\ calls' = calls + 1
    /\ UNCHANGED <<counters, GLOBAL_HANDLE, IN_ALLOC, heap, holder, arg,
                   next_store, history>>

ResetStore(t) ==
    /\ pc[t] = "reset"
    /\ LET k == next_store[t] IN
          /\ counters' = [counters EXCEPT ![Order[k]] = 0]
          /\ next_store' = [next_store EXCEPT ![t] = (k % 6) + 1]
          /\ Goto(t, IF k < 6 THEN "reset" ELSE "outside")
          /\ events' = IF Order[k] = "alloc_count" THEN 0 ELSE events
          /\ high' = CASE Order[k] = "current_bytes" -> [high EXCEPT !.bytes = 0]
                       [] Order[k] = "live_count"    -> [high EXCEPT !.live = 0]
                       [] OTHER -> high
    /\ UNCHANGED <<GLOBAL_HANDLE, IN_ALLOC, heap, holder, arg, calls, underflow>>

-----------------------------------------------------------------------------
\* A step of a call that has begun.
HookStep(t) ==
    \/ CountEvent(t) \/ AddTotal(t) \/ AddCurrent(t) \/ RaisePeak(t)
    \/ AddLive(t) \/ RaisePeakLive(t) \/ Register(t) \/ LeaveHook(t)
    \/ SubCurrent(t) \/ SubLive(t)

\* The program makes no more calls.
Rest == /\ calls = MaxCalls /\ \A t \in Threads : pc[t] = "outside"
        /\ UNCHANGED vars

Next == \/ \E t \in Threads : \/ Alloc(t) \/ Dealloc(t) \/ Realloc(t)
                              \/ HookStep(t)
                              \/ BeginReset(t) \/ ResetStore(t)
        \/ Rest

Spec == Init /\ [][Next]_vars

-----------------------------------------------------------------------------
(* Properties.                                                               *)

PCs == {"outside", "alloc_count", "total_bytes", "current_add", "peak_bytes",
        "live_add", "peak_live", "register", "event", "current_sub",
        "live_sub", "reset"}

\* Every variable keeps its type; the counters are W-valued.
TypeOK ==
    /\ counters \in [alloc_count : 0 .. W - 1, total_bytes : 0 .. W - 1,
                     peak_bytes : 0 .. W - 1, current_bytes : 0 .. W - 1,
                     live_count : 0 .. W - 1, peak_live_count : 0 .. W - 1]
    /\ GLOBAL_HANDLE \in BOOLEAN
    /\ IN_ALLOC \in [Threads -> BOOLEAN]
    /\ heap \in [Blocks -> Sizes \union {0}]
    /\ holder \in [Blocks -> Threads \union {Program}]
    /\ pc \in [Threads -> PCs]
    /\ arg \in [Threads -> [block : Blocks \union {Program},
                            old : Sizes \union {0}, new : Sizes \union {0},
                            new_current : 0 .. W - 1]]
    /\ next_store \in [Threads -> 1 .. 6]
    /\ calls \in 0 .. MaxCalls
    /\ events \in Nat
    /\ high \in [bytes : 0 .. W - 1, live : 0 .. W - 1]
    /\ underflow \in BOOLEAN

AtRest == \A t \in Threads : pc[t] = "outside"
Held   == {b \in Blocks : heap[b] # 0 /\ holder[b] = Program}
Bytes(S) == MapThenSumSet(LAMBDA b : heap[b], S)

\* When no call is in progress, the counters say exactly what the program
\* holds and how often it asked: no event is lost between threads, counted
\* twice, or counted for an allocation that the hook made for itself
\* (lib.rs:450-454, 560-576).
ExactAtRest ==
    AtRest => /\ counters.current_bytes = Bytes(Held)
              /\ counters.live_count = Cardinality(Held)
              /\ counters.alloc_count = events

\* No fetch_sub of a correct program wraps: System frees a block before its
\* bytes are subtracted, but no one frees it before they were added
\* (lib.rs:275-278, 469-475, 505-509).
NoUnderflow == ~underflow

\* peak_bytes is the "highest current_bytes ever observed" (lib.rs:567) up to
\* the additions that have not reached their fetch_max; so is
\* peak_live_count: no maximum is lost between two threads that raise it, and
\* none survives a reset.
PeakIsHighWater ==
    Resetting = {} =>
       /\ (\A t \in Threads : pc[t] # "peak_bytes")
             => counters.peak_bytes = high.bytes
       /\ (\A t \in Threads : pc[t] # "peak_live")
             => counters.peak_live_count = high.live

\* Whatever calls are in progress, the peaks are no less than what the program
\* now holds in blocks whose calls have returned.
PeakCoversHeld ==
    Resetting = {} =>
       /\ Bytes(Held \ InFlight) <= counters.peak_bytes
       /\ Cardinality(Held \ InFlight) <= counters.peak_live_count

\* A program that holds a block has a registered handle, so that Profiler
\* does not read zeros (lib.rs:110-113, 658-661).
HolderIsRegistered == Held \ InFlight # {} => GLOBAL_HANDLE

\* reset with allocations live "can cause current_bytes to wrap on subsequent
\* deallocations; the other counters are unaffected" (lib.rs:241-243).
OtherCountersUnaffected == counters.live_count <= Cardinality(Blocks)
=============================================================================
