-------------------------- MODULE ModAlloc_proofs --------------------------
(* Theorems about the counters, for any number of threads, blocks and sizes *)
(* and any width of the counters; and about the two modules that are        *)
(* composed with them, Profiler and TrackedAlloc.                            *)
EXTENDS Profiler, TrackedAlloc, Arithmetic, TLAPS

CounterVal == 0 .. W - 1
ArgType == [block : Blocks \union {Program}, old : Sizes \union {0},
            new : Sizes \union {0}, new_current : 0 .. W - 1]

\* What a thread's position says of the sizes of its call.
ArgOK ==
    \A t \in Threads :
       pc[t] \in {"total_bytes", "current_add"} => Delta(t) > 0

TypeInv == TypeOK /\ ArgOK

LEMMA SizesAreNat == \A n \in Sizes \union {0} : n \in Nat
<1>1. 0 \in Nat
  OBVIOUS
<1>2. ASSUME NEW n \in Sizes PROVE n \in Nat
  <2>1. Nat \ {0} \subseteq Nat
    OBVIOUS
  <2>. QED  BY <1>2, <2>1, SizesAssumption, Zenon
<1>. QED  BY <1>1, <1>2, Zenon

LEMMA ModType == ASSUME NEW a \in Int PROVE a % W \in CounterVal
BY WidthAssumption DEF CounterVal

LEMMA BiggerType ==
    ASSUME NEW a \in CounterVal, NEW b \in CounterVal
    PROVE  /\ Bigger(a, b) \in CounterVal
           /\ Bigger(a, b) >= a /\ Bigger(a, b) >= b
           /\ Bigger(a, b) = a \/ Bigger(a, b) = b
BY WidthAssumption DEF Bigger, CounterVal

LEMMA InitType == Init => TypeInv
<1> SUFFICES ASSUME Init PROVE TypeInv
  OBVIOUS
<1> USE DEF Init
<1>1. 0 \in 0 .. W - 1
  BY WidthAssumption
<1>2. /\ counters \in [alloc_count : 0 .. W - 1, total_bytes : 0 .. W - 1,
                     peak_bytes : 0 .. W - 1, current_bytes : 0 .. W - 1,
                     live_count : 0 .. W - 1, peak_live_count : 0 .. W - 1]
      /\ high \in [bytes : 0 .. W - 1, live : 0 .. W - 1]
  BY <1>1 DEF Zeros, NoHigh
<1>3. /\ IN_ALLOC \in [Threads -> BOOLEAN] /\ GLOBAL_HANDLE \in BOOLEAN
      /\ underflow \in BOOLEAN
  OBVIOUS
<1>4. /\ heap \in [Blocks -> Sizes \union {0}]
      /\ holder \in [Blocks -> Threads \union {Program}]
      /\ pc \in [Threads -> PCs]
      /\ next_store \in [Threads -> 1 .. 6]
  BY DEF PCs
<1>5. calls \in 0 .. MaxCalls /\ events \in Nat
  BY CallsAssumption
<1>6. NoArg \in ArgType
  BY <1>1 DEF NoArg, ArgType
<1>7. arg \in [Threads -> ArgType]
  BY <1>6
<1>8. ArgOK
  BY DEF ArgOK
<1>9. QED
  BY <1>2, <1>3, <1>4, <1>5, <1>7, <1>8 DEF TypeInv, TypeOK, ArgType

\* A call that goes to System: its hook starts, or it is the hook's own.
LEMMA HookType ==
    ASSUME TypeInv, NEW t \in Threads, NEW b \in Blocks \union {Program},
           NEW old \in Sizes \union {0}, NEW new \in Sizes \union {0},
           NEW where \in {"alloc_count", "current_sub"}, Hook(t, b, old, new, where)
    PROVE  /\ IN_ALLOC' \in [Threads -> BOOLEAN]
           /\ pc' \in [Threads -> PCs]
           /\ arg' \in [Threads -> ArgType]
           /\ ArgOK'
<1>1. CASE IN_ALLOC[t]
  BY <1>1 DEF Hook, TypeInv, TypeOK, ArgType, ArgOK, Delta
<1>2. CASE ~IN_ALLOC[t]
  <2> DEFINE a == [block |-> b, old |-> old, new |-> new, new_current |-> 0]
  <2>1. a \in ArgType
    BY WidthAssumption DEF ArgType
  <2>2. /\ IN_ALLOC' = [IN_ALLOC EXCEPT ![t] = TRUE]
        /\ arg' = [arg EXCEPT ![t] = a]
        /\ pc' = [pc EXCEPT ![t] = where]
    BY <1>2 DEF Hook, Goto
  <2>3. arg' \in [Threads -> ArgType] /\ pc' \in [Threads -> PCs]
    BY <2>1, <2>2 DEF TypeInv, TypeOK, ArgType, PCs
  <2>4. IN_ALLOC' \in [Threads -> BOOLEAN]
    BY <2>2 DEF TypeInv, TypeOK
  <2>5. ArgOK'
    BY <2>2 DEF TypeInv, TypeOK, ArgOK, Delta
  <2>6. QED BY <2>3, <2>4, <2>5
<1>3. QED BY <1>1, <1>2

LEMMA CallType ==
    ASSUME TypeInv, NEW t \in Threads, Alloc(t) \/ Dealloc(t) \/ Realloc(t)
    PROVE  TypeInv'
<1>1. Caller(t) \in Threads \union {Program}
  BY DEF Caller
<1>2. CASE Alloc(t)
  <2>1. PICK b \in Blocks, size \in Sizes :
           /\ heap' = [heap EXCEPT ![b] = size]
           /\ holder' = [holder EXCEPT ![b] = Caller(t)]
           /\ Hook(t, b, 0, size, "alloc_count")
    BY <1>2 DEF Alloc
  <2>2. /\ IN_ALLOC' \in [Threads -> BOOLEAN] /\ pc' \in [Threads -> PCs]
        /\ arg' \in [Threads -> ArgType] /\ ArgOK'
    BY <2>1, HookType
  <2>3. /\ heap' \in [Blocks -> Sizes \union {0}]
        /\ holder' \in [Blocks -> Threads \union {Program}]
    BY <1>1, <2>1 DEF TypeInv, TypeOK
  <2>4. calls' \in 0 .. MaxCalls /\ events' \in Nat
    BY <1>2, CallsAssumption DEF Alloc, Counts, TypeInv, TypeOK
  <2>5. QED
    BY <1>2, <2>2, <2>3, <2>4 DEF Alloc, TypeInv, TypeOK, ArgType
<1>3. CASE Dealloc(t)
  <2>1. PICK b \in Blocks :
           /\ heap' = [heap EXCEPT ![b] = 0]
           /\ holder' = [holder EXCEPT ![b] = Program]
           /\ Hook(t, Program, heap[b], 0, "current_sub")
    BY <1>3 DEF Dealloc
  <2>2. heap[b] \in Sizes \union {0}
    BY DEF TypeInv, TypeOK
  <2>3. /\ IN_ALLOC' \in [Threads -> BOOLEAN] /\ pc' \in [Threads -> PCs]
        /\ arg' \in [Threads -> ArgType] /\ ArgOK'
    BY <2>1, <2>2, HookType
  <2>4. /\ heap' \in [Blocks -> Sizes \union {0}]
        /\ holder' \in [Blocks -> Threads \union {Program}]
    BY <2>1 DEF TypeInv, TypeOK
  <2>5. QED
    BY <1>3, <2>3, <2>4 DEF Dealloc, history, TypeInv, TypeOK, ArgType
<1>4. CASE Realloc(t)
  <2>1. PICK b \in Blocks, size \in Sizes :
           /\ heap' = [heap EXCEPT ![b] = size]
           /\ Hook(t, b, heap[b], size, "alloc_count")
    BY <1>4 DEF Realloc
  <2>2. heap[b] \in Sizes \union {0}
    BY DEF TypeInv, TypeOK
  <2>3. /\ IN_ALLOC' \in [Threads -> BOOLEAN] /\ pc' \in [Threads -> PCs]
        /\ arg' \in [Threads -> ArgType] /\ ArgOK'
    BY <2>1, <2>2, HookType
  <2>4. heap' \in [Blocks -> Sizes \union {0}]
    BY <2>1 DEF TypeInv, TypeOK
  <2>5. calls' \in 0 .. MaxCalls /\ events' \in Nat
    BY <1>4, CallsAssumption DEF Realloc, Counts, TypeInv, TypeOK
  <2>6. QED
    BY <1>4, <2>3, <2>4, <2>5 DEF Realloc, TypeInv, TypeOK, ArgType
<1>5. QED BY <1>2, <1>3, <1>4

LEMMA HookStepType ==
    ASSUME TypeInv, NEW t \in Threads, HookStep(t)
    PROVE  TypeInv'
<1> DEFINE Stats == [alloc_count : 0 .. W - 1, total_bytes : 0 .. W - 1,
                     peak_bytes : 0 .. W - 1, current_bytes : 0 .. W - 1,
                     live_count : 0 .. W - 1, peak_live_count : 0 .. W - 1]
<1>1. /\ counters \in Stats /\ high \in [bytes : 0 .. W - 1, live : 0 .. W - 1]
      /\ arg[t] \in ArgType /\ arg \in [Threads -> ArgType]
      /\ pc \in [Threads -> PCs]
  BY DEF TypeInv, TypeOK, ArgType
<1>2. Delta(t) \in Int
  <2>1. arg[t].new \in Sizes \union {0} /\ arg[t].old \in Sizes \union {0}
    BY <1>1 DEF ArgType
  <2>2. arg[t].new \in Nat /\ arg[t].old \in Nat
    BY <2>1, SizesAreNat, Zenon
  <2>3. QED BY <2>2 DEF Delta
<1>3. NoArg \in ArgType
  BY WidthAssumption DEF NoArg, ArgType
<1>4. \A n \in Int : /\ (counters.alloc_count + n) % W \in 0 .. W - 1
                     /\ (counters.total_bytes + n) % W \in 0 .. W - 1
                     /\ (counters.current_bytes + n) % W \in 0 .. W - 1
                     /\ (counters.live_count + n) % W \in 0 .. W - 1
                     /\ (counters.current_bytes - n) % W \in 0 .. W - 1
                     /\ (counters.live_count - n) % W \in 0 .. W - 1
  BY <1>1, ModType DEF CounterVal
<1>5. CASE CountEvent(t)
  <2>1. counters' \in Stats
    BY <1>1, <1>4, <1>5 DEF CountEvent, Add
  <2>2. pc' \in [Threads -> PCs] /\ ArgOK'
    BY <1>1, <1>2, <1>5 DEF CountEvent, Goto, PCs, TypeInv, ArgOK, Delta
  <2>3. QED
    BY <1>5, <2>1, <2>2 DEF CountEvent, history, TypeInv, TypeOK
<1>6. CASE AddTotal(t)
  <2>1. counters' \in Stats
    BY <1>1, <1>2, <1>4, <1>6 DEF AddTotal, Add
  <2>2. pc' \in [Threads -> PCs] /\ ArgOK'
    BY <1>1, <1>6 DEF AddTotal, Goto, PCs, TypeInv, ArgOK, Delta
  <2>3. QED
    BY <1>6, <2>1, <2>2 DEF AddTotal, history, TypeInv, TypeOK
<1>7. CASE AddCurrent(t)
  <2>1. counters' \in Stats /\ counters'.current_bytes \in 0 .. W - 1
    BY <1>1, <1>2, <1>4, <1>7 DEF AddCurrent, Add
  <2>2. [arg[t] EXCEPT !.new_current = counters'.current_bytes] \in ArgType
    BY <1>1, <2>1 DEF ArgType
  <2>3. arg' \in [Threads -> ArgType]
    BY <1>1, <1>7, <2>2 DEF AddCurrent
  <2>4. high' \in [bytes : 0 .. W - 1, live : 0 .. W - 1]
    BY <1>1, <1>7, <2>1, BiggerType DEF AddCurrent, CounterVal
  <2>5. pc' \in [Threads -> PCs] /\ ArgOK'
    BY <1>1, <1>7 DEF AddCurrent, Goto, PCs, TypeInv, ArgOK, Delta, ArgType
  <2>6. QED
    BY <1>7, <2>1, <2>3, <2>4, <2>5 DEF AddCurrent, TypeInv, TypeOK, ArgType
<1>8. CASE RaisePeak(t)
  <2>1. counters' \in Stats
    BY <1>1, <1>8, BiggerType DEF RaisePeak, CounterVal, ArgType
  <2>2. pc' \in [Threads -> PCs] /\ ArgOK'
    BY <1>1, <1>8 DEF RaisePeak, Goto, PCs, TypeInv, ArgOK, Delta
  <2>3. QED
    BY <1>8, <2>1, <2>2 DEF RaisePeak, history, TypeInv, TypeOK
<1>9. CASE AddLive(t)
  <2>1. counters' \in Stats /\ counters'.live_count \in 0 .. W - 1
    BY <1>1, <1>4, <1>9 DEF AddLive, Add
  <2>2. [arg[t] EXCEPT !.new_current = counters'.live_count] \in ArgType
    BY <1>1, <2>1 DEF ArgType
  <2>3. arg' \in [Threads -> ArgType]
    BY <1>1, <1>9, <2>2 DEF AddLive
  <2>4. high' \in [bytes : 0 .. W - 1, live : 0 .. W - 1]
    BY <1>1, <1>9, <2>1, BiggerType DEF AddLive, CounterVal
  <2>5. pc' \in [Threads -> PCs] /\ ArgOK'
    BY <1>1, <1>9 DEF AddLive, Goto, PCs, TypeInv, ArgOK, Delta, ArgType
  <2>6. QED
    BY <1>9, <2>1, <2>3, <2>4, <2>5 DEF AddLive, TypeInv, TypeOK, ArgType
<1>10. CASE RaisePeakLive(t)
  <2>1. counters' \in Stats
    BY <1>1, <1>10, BiggerType DEF RaisePeakLive, CounterVal, ArgType
  <2>2. pc' \in [Threads -> PCs] /\ ArgOK'
    BY <1>1, <1>10 DEF RaisePeakLive, Goto, PCs, TypeInv, ArgOK, Delta
  <2>3. QED
    BY <1>10, <2>1, <2>2 DEF RaisePeakLive, history, TypeInv, TypeOK
<1>11. CASE Register(t)
  BY <1>1, <1>11 DEF Register, Goto, PCs, history, TypeInv, TypeOK, ArgOK, Delta
<1>12. ASSUME DropGuard(t)
       PROVE  /\ IN_ALLOC' \in [Threads -> BOOLEAN]
              /\ arg' \in [Threads -> ArgType]
              /\ pc' \in [Threads -> PCs] /\ ArgOK'
  <2>1. /\ IN_ALLOC' \in [Threads -> BOOLEAN]
        /\ arg' \in [Threads -> ArgType] /\ pc' \in [Threads -> PCs]
    BY <1>1, <1>3, <1>12 DEF DropGuard, Goto, PCs, TypeInv, TypeOK
  <2>2. ArgOK'
    BY <1>1, <1>12 DEF DropGuard, Goto, PCs, TypeInv, ArgOK, Delta
  <2>3. QED BY <2>1, <2>2
<1>13. CASE LeaveHook(t)
  BY <1>12, <1>13 DEF LeaveHook, history, TypeInv, TypeOK, ArgType
<1>14. CASE SubCurrent(t)
  <2>1. counters' \in Stats
    <3>1. /\ counters' = [counters EXCEPT !["current_bytes"] =
                             (counters.current_bytes - (-Delta(t))) % W]
          /\ -Delta(t) \in Int
      BY <1>2, <1>14 DEF SubCurrent, Sub
    <3>2. (counters.current_bytes - (-Delta(t))) % W \in 0 .. W - 1
      BY <1>4, <3>1
    <3>. QED  BY <1>1, <3>1, <3>2
  <2>2. pc' \in [Threads -> PCs] /\ ArgOK'
    BY <1>1, <1>14 DEF SubCurrent, Goto, PCs, TypeInv, ArgOK, Delta
  <2>3. underflow' \in BOOLEAN
    BY <1>14 DEF SubCurrent
  <2>4. QED
    BY <1>14, <2>1, <2>2, <2>3 DEF SubCurrent, TypeInv, TypeOK
<1>15. CASE SubLive(t)
  <2>1. counters' \in Stats
    BY <1>1, <1>4, <1>15 DEF SubLive, Sub
  <2>2. underflow' \in BOOLEAN
    BY <1>15 DEF SubLive
  <2>3. QED
    BY <1>12, <1>15, <2>1, <2>2 DEF SubLive, TypeInv, TypeOK, ArgType
<1>16. QED
  BY <1>5, <1>6, <1>7, <1>8, <1>9, <1>10, <1>11, <1>13, <1>14, <1>15
     DEF HookStep

LEMMA ResetType ==
    ASSUME TypeInv, NEW t \in Threads, BeginReset(t) \/ ResetStore(t)
    PROVE  TypeInv'
<1> DEFINE Stats == [alloc_count : 0 .. W - 1, total_bytes : 0 .. W - 1,
                     peak_bytes : 0 .. W - 1, current_bytes : 0 .. W - 1,
                     live_count : 0 .. W - 1, peak_live_count : 0 .. W - 1]
<1>1. CASE BeginReset(t)
  <2>1. calls' \in 0 .. MaxCalls
    BY <1>1, CallsAssumption DEF BeginReset, TypeInv, TypeOK
  <2>2. pc' \in [Threads -> PCs] /\ ArgOK'
    BY <1>1 DEF BeginReset, Goto, PCs, TypeInv, TypeOK, ArgOK, Delta
  <2>3. QED
    BY <1>1, <2>1, <2>2 DEF BeginReset, history, TypeInv, TypeOK
<1>2. CASE ResetStore(t)
  <2> DEFINE k == next_store[t]
  <2>1. k \in 1 .. 6
    BY DEF TypeInv, TypeOK
  <2>2. 0 \in 0 .. W - 1
    BY WidthAssumption
  <2>3. /\ counters' = [counters EXCEPT ![Order[k]] = 0]
        /\ next_store' = [next_store EXCEPT ![t] = (k % 6) + 1]
        /\ pc' \in [Threads -> PCs] /\ pc'[t] \in {"reset", "outside"}
        /\ \A u \in Threads \ {t} : pc'[u] = pc[u]
        /\ UNCHANGED arg
    BY <1>2 DEF ResetStore, Goto, PCs, TypeInv, TypeOK
  <2>4. Order[k] \in {"alloc_count", "total_bytes", "peak_bytes",
                      "current_bytes", "live_count", "peak_live_count"}
    BY <2>1 DEF Order
  <2>5. counters' \in Stats
    BY <2>2, <2>3, <2>4 DEF TypeInv, TypeOK
  <2>6. (k % 6) + 1 \in 1 .. 6
    BY <2>1
  <2>7. next_store' \in [Threads -> 1 .. 6]
    BY <2>3, <2>6 DEF TypeInv, TypeOK
  <2>8. events' \in Nat
    BY <1>2 DEF ResetStore, TypeInv, TypeOK
  <2>9. high' \in [bytes : 0 .. W - 1, live : 0 .. W - 1]
    <3>1. \/ high' = high
          \/ high' = [high EXCEPT !.bytes = 0]
          \/ high' = [high EXCEPT !.live = 0]
      BY <1>2 DEF ResetStore
    <3>2. QED BY <2>2, <3>1 DEF TypeInv, TypeOK
  <2>10. ArgOK'
    BY <2>3 DEF TypeInv, ArgOK, Delta
  <2>11. QED
    BY <1>2, <2>3, <2>5, <2>7, <2>8, <2>9, <2>10
       DEF ResetStore, TypeInv, TypeOK
<1>3. QED BY <1>1, <1>2

LEMMA NextType == TypeInv /\ [Next]_vars => TypeInv'
<1> SUFFICES ASSUME TypeInv, [Next]_vars PROVE TypeInv'
  OBVIOUS
<1>1. CASE UNCHANGED vars
  BY <1>1 DEF vars, history, TypeInv, TypeOK, ArgOK, Delta
<1>2. QED
  BY <1>1, CallType, HookStepType, ResetType DEF Next, Rest

\* Every variable keeps its type: the counters stay below the width they are
\* stored in, reset at any time included.
THEOREM TypeSafety == Spec => []TypeOK
<1>1. TypeInv => TypeOK
  BY DEF TypeInv
<1>2. QED
  BY <1>1, InitType, NextType, PTL DEF Spec

-----------------------------------------------------------------------------
(* The peaks, when reset is only called at rest.                             *)

\* A thread in reset is the only one that runs, and has already cleared the
\* counters that its position says.
ResetInv ==
    \A t \in Threads :
       /\ pc[t] # "reset" => next_store[t] = 1
       /\ pc[t] = "reset" =>
             /\ \A u \in Threads \ {t} : pc[u] = "outside"
             /\ next_store[t] > 3 => counters.peak_bytes = 0
             /\ next_store[t] > 4 => high.bytes = 0
             /\ next_store[t] > 5 => high.live = 0

\* The highest value an addition made is in the peak, or in the hands of a
\* thread that is about to raise the peak to it.
BytesPeakInv ==
    /\ counters.peak_bytes <= high.bytes
    /\ \A t \in Threads : pc[t] = "peak_bytes" => arg[t].new_current <= high.bytes
    /\ \/ counters.peak_bytes = high.bytes
       \/ \E t \in Threads : /\ pc[t] = "peak_bytes"
                             /\ arg[t].new_current = high.bytes

LivePeakInv ==
    /\ counters.peak_live_count <= high.live
    /\ \A t \in Threads : pc[t] = "peak_live" => arg[t].new_current <= high.live
    /\ \/ counters.peak_live_count = high.live
       \/ \E t \in Threads : /\ pc[t] = "peak_live"
                             /\ arg[t].new_current = high.live

PeakInv == /\ TypeInv /\ ResetInv
           /\ Resetting = {} => BytesPeakInv /\ LivePeakInv

LEMMA InitPeak == Init => PeakInv
BY InitType DEF Init, PeakInv, ResetInv, BytesPeakInv, LivePeakInv, Resetting,
                Zeros, NoHigh

LEMMA PeakInvHighWater == PeakInv => PeakIsHighWater
BY DEF PeakInv, BytesPeakInv, LivePeakInv, PeakIsHighWater

\* Facts that every step below starts from.
LEMMA PeakTypes ==
    ASSUME TypeInv, NEW t \in Threads
    PROVE  /\ counters.peak_bytes \in CounterVal
           /\ counters.peak_live_count \in CounterVal
           /\ counters.current_bytes \in CounterVal
           /\ counters.live_count \in CounterVal
           /\ high.bytes \in CounterVal /\ high.live \in CounterVal
           /\ arg[t].new_current \in CounterVal
           /\ pc \in [Threads -> PCs] /\ arg \in [Threads -> ArgType]
           /\ counters = [alloc_count |-> counters.alloc_count,
                          total_bytes |-> counters.total_bytes,
                          peak_bytes |-> counters.peak_bytes,
                          current_bytes |-> counters.current_bytes,
                          live_count |-> counters.live_count,
                          peak_live_count |-> counters.peak_live_count]
           /\ high = [bytes |-> high.bytes, live |-> high.live]
BY DEF TypeInv, TypeOK, CounterVal, ArgType

\* A hook that is not at a peak, and does not get to one, changes nothing that
\* the peaks depend on.
LEMMA PeakStable ==
    ASSUME PeakInv, NEW t \in Threads,
           pc[t] \notin {"peak_bytes", "peak_live", "reset"},
           pc'[t] \notin {"peak_bytes", "peak_live", "reset"},
           \A u \in Threads \ {t} : pc'[u] = pc[u] /\ arg'[u] = arg[u],
           Resetting = {},
           counters'.peak_bytes = counters.peak_bytes,
           counters'.peak_live_count = counters.peak_live_count,
           UNCHANGED <<high, next_store>>
    PROVE  ResetInv' /\ BytesPeakInv' /\ LivePeakInv'
<1>1. ResetInv'
  BY DEF PeakInv, ResetInv, Resetting
<1>2. BytesPeakInv' /\ LivePeakInv'
  BY DEF PeakInv, BytesPeakInv, LivePeakInv
<1>3. QED BY <1>1, <1>2

LEMMA CallPeak ==
    ASSUME PeakInv, ~ResetAnyTime, NEW t \in Threads,
           Alloc(t) \/ Dealloc(t) \/ Realloc(t)
    PROVE  ResetInv' /\ BytesPeakInv' /\ LivePeakInv'
<1>1. Resetting = {} /\ pc[t] \in {"outside", "event"}
  BY DEF Alloc, Dealloc, Realloc, CanCall, Orderly
<1>2. UNCHANGED <<counters, high, next_store>>
  BY DEF Alloc, Dealloc, Realloc, history
<1>3. /\ pc'[t] \in {pc[t], "alloc_count", "current_sub"}
      /\ \A u \in Threads \ {t} : pc'[u] = pc[u] /\ arg'[u] = arg[u]
  <2>1. \E b \in Blocks \union {Program} :
           \E old, new \in Nat : \E where \in {"alloc_count", "current_sub"} :
              Hook(t, b, old, new, where)
    <3>1. Sizes \union {0} \subseteq Nat
      BY SizesAssumption
    <3>2. \A b \in Blocks : heap[b] \in Sizes \union {0}
      BY DEF PeakInv, TypeInv, TypeOK
    <3>3. QED BY <3>1, <3>2 DEF Alloc, Dealloc, Realloc
  <2>2. QED BY <2>1 DEF Hook, Goto, PeakInv, TypeInv, TypeOK
<1>4. QED BY <1>1, <1>2, <1>3, PeakStable

LEMMA HookStepPeak ==
    ASSUME PeakInv, NEW t \in Threads, HookStep(t)
    PROVE  ResetInv' /\ BytesPeakInv' /\ LivePeakInv'
<1> USE DEF Goto, DropGuard
<1>1. pc[t] \notin {"outside", "reset"}
  BY DEF HookStep, CountEvent, AddTotal, AddCurrent, RaisePeak, AddLive,
         RaisePeakLive, Register, LeaveHook, SubCurrent, SubLive
<1>2. Resetting = {}
  BY <1>1 DEF PeakInv, ResetInv, Resetting
<1>3. /\ counters.peak_bytes \in Int /\ counters.peak_live_count \in Int
      /\ high.bytes \in Int /\ high.live \in Int
      /\ \A u \in Threads : arg[u].new_current \in Int
      /\ pc \in [Threads -> PCs] /\ arg \in [Threads -> ArgType]
  BY PeakTypes DEF PeakInv, CounterVal, TypeInv, TypeOK, ArgType
<1>4. CASE CountEvent(t) \/ AddTotal(t) \/ SubCurrent(t)
  <2>1. /\ pc'[t] \notin {"peak_bytes", "peak_live", "reset"}
        /\ pc[t] \notin {"peak_bytes", "peak_live", "reset"}
        /\ \A u \in Threads \ {t} : pc'[u] = pc[u]
        /\ UNCHANGED <<high, next_store, arg>>
    BY <1>3, <1>4 DEF CountEvent, AddTotal, SubCurrent, history
  <2>2. /\ counters'.peak_bytes = counters.peak_bytes
        /\ counters'.peak_live_count = counters.peak_live_count
    BY <1>4 DEF CountEvent, AddTotal, SubCurrent, Add, Sub,
                PeakInv, TypeInv, TypeOK
  <2>3. QED BY <1>2, <2>1, <2>2, PeakStable
<1>5. CASE Register(t) \/ LeaveHook(t) \/ SubLive(t)
  <2>1. /\ pc'[t] \notin {"peak_bytes", "peak_live", "reset"}
        /\ pc[t] \notin {"peak_bytes", "peak_live", "reset"}
        /\ \A u \in Threads \ {t} : pc'[u] = pc[u] /\ arg'[u] = arg[u]
        /\ UNCHANGED <<high, next_store>>
    BY <1>3, <1>5 DEF Register, LeaveHook, SubLive, history
  <2>2. /\ counters'.peak_bytes = counters.peak_bytes
        /\ counters'.peak_live_count = counters.peak_live_count
    BY <1>5 DEF Register, LeaveHook, SubLive, Sub, PeakInv, TypeInv, TypeOK
  <2>3. QED BY <1>2, <2>1, <2>2, PeakStable
<1>6. ASSUME \A u \in Threads \ {t} : pc'[u] = pc[u],
             pc'[t] # "reset", UNCHANGED next_store
      PROVE  ResetInv'
  BY <1>1, <1>2, <1>6 DEF PeakInv, ResetInv, Resetting
<1>7. BytesPeakInv /\ LivePeakInv
  BY <1>2 DEF PeakInv
<1>8. CASE AddCurrent(t)
  <2> DEFINE n == counters'.current_bytes
  <2>1. /\ pc'[t] = "peak_bytes" /\ pc[t] = "current_add"
        /\ arg'[t].new_current = n
        /\ \A u \in Threads \ {t} : pc'[u] = pc[u] /\ arg'[u] = arg[u]
        /\ high'.bytes = Bigger(high.bytes, n) /\ high'.live = high.live
        /\ UNCHANGED next_store
    BY <1>3, <1>8 DEF AddCurrent, PeakInv, TypeInv, TypeOK, ArgType
  <2>2. /\ counters'.peak_bytes = counters.peak_bytes
        /\ counters'.peak_live_count = counters.peak_live_count
        /\ n \in Int
    <3>1. n = (counters.current_bytes + Delta(t)) % W
      BY <1>8 DEF AddCurrent, Add, PeakInv, TypeInv, TypeOK
    <3>2. counters'.peak_bytes = counters.peak_bytes
          /\ counters'.peak_live_count = counters.peak_live_count
      BY <1>8 DEF AddCurrent, Add, PeakInv, TypeInv, TypeOK
    <3>3. TypeInv'
      BY HookStepType DEF PeakInv
    <3>4. n \in CounterVal
      BY <3>3 DEF TypeInv, TypeOK, CounterVal
    <3>5. QED BY <3>2, <3>4 DEF CounterVal
  <2>3. BytesPeakInv'
    <3>1. CASE high.bytes >= n
      BY <1>3, <1>7, <2>1, <2>2, <3>1 DEF BytesPeakInv, Bigger
    <3>2. CASE ~(high.bytes >= n)
      BY <1>3, <1>7, <2>1, <2>2, <3>2 DEF BytesPeakInv, Bigger
    <3>3. QED BY <3>1, <3>2
  <2>4. LivePeakInv'
    BY <1>7, <2>1, <2>2 DEF LivePeakInv
  <2>5. QED BY <1>6, <2>1, <2>3, <2>4
<1>9. CASE AddLive(t)
  <2> DEFINE n == counters'.live_count
  <2>1. /\ pc'[t] = "peak_live" /\ pc[t] = "live_add"
        /\ arg'[t].new_current = n
        /\ \A u \in Threads \ {t} : pc'[u] = pc[u] /\ arg'[u] = arg[u]
        /\ high'.live = Bigger(high.live, n) /\ high'.bytes = high.bytes
        /\ UNCHANGED next_store
    BY <1>3, <1>9 DEF AddLive, PeakInv, TypeInv, TypeOK, ArgType
  <2>2. /\ counters'.peak_bytes = counters.peak_bytes
        /\ counters'.peak_live_count = counters.peak_live_count
        /\ n \in Int
    <3>1. counters'.peak_bytes = counters.peak_bytes
          /\ counters'.peak_live_count = counters.peak_live_count
      BY <1>9 DEF AddLive, Add, PeakInv, TypeInv, TypeOK
    <3>2. TypeInv'
      BY HookStepType DEF PeakInv
    <3>3. n \in CounterVal
      BY <3>2 DEF TypeInv, TypeOK, CounterVal
    <3>4. QED BY <3>1, <3>3 DEF CounterVal
  <2>3. LivePeakInv'
    <3>1. CASE high.live >= n
      BY <1>3, <1>7, <2>1, <2>2, <3>1 DEF LivePeakInv, Bigger
    <3>2. CASE ~(high.live >= n)
      BY <1>3, <1>7, <2>1, <2>2, <3>2 DEF LivePeakInv, Bigger
    <3>3. QED BY <3>1, <3>2
  <2>4. BytesPeakInv'
    BY <1>7, <2>1, <2>2 DEF BytesPeakInv
  <2>5. QED BY <1>6, <2>1, <2>3, <2>4
<1>10. CASE RaisePeak(t)
  <2>1. /\ pc'[t] \in {"live_add", "register"} /\ pc[t] = "peak_bytes"
        /\ \A u \in Threads \ {t} : pc'[u] = pc[u]
        /\ UNCHANGED <<arg, high, next_store>>
    BY <1>3, <1>10 DEF RaisePeak, history
  <2>2. /\ counters'.peak_bytes
              = Bigger(counters.peak_bytes, arg[t].new_current)
        /\ counters'.peak_live_count = counters.peak_live_count
    BY <1>10 DEF RaisePeak, PeakInv, TypeInv, TypeOK
  <2>3. BytesPeakInv'
    <3>1. CASE counters.peak_bytes >= arg[t].new_current
      BY <1>3, <1>7, <2>1, <2>2, <3>1 DEF BytesPeakInv, Bigger
    <3>2. CASE ~(counters.peak_bytes >= arg[t].new_current)
      BY <1>3, <1>7, <2>1, <2>2, <3>2 DEF BytesPeakInv, Bigger
    <3>3. QED BY <3>1, <3>2
  <2>4. LivePeakInv'
    BY <1>7, <2>1, <2>2 DEF LivePeakInv
  <2>5. QED BY <1>6, <2>1, <2>3, <2>4
<1>11. CASE RaisePeakLive(t)
  <2>1. /\ pc'[t] = "register" /\ pc[t] = "peak_live"
        /\ \A u \in Threads \ {t} : pc'[u] = pc[u]
        /\ UNCHANGED <<arg, high, next_store>>
    BY <1>3, <1>11 DEF RaisePeakLive, history
  <2>2. /\ counters'.peak_live_count
              = Bigger(counters.peak_live_count, arg[t].new_current)
        /\ counters'.peak_bytes = counters.peak_bytes
    BY <1>11 DEF RaisePeakLive, PeakInv, TypeInv, TypeOK
  <2>3. LivePeakInv'
    <3>1. CASE counters.peak_live_count >= arg[t].new_current
      BY <1>3, <1>7, <2>1, <2>2, <3>1 DEF LivePeakInv, Bigger
    <3>2. CASE ~(counters.peak_live_count >= arg[t].new_current)
      BY <1>3, <1>7, <2>1, <2>2, <3>2 DEF LivePeakInv, Bigger
    <3>3. QED BY <3>1, <3>2
  <2>4. BytesPeakInv'
    BY <1>7, <2>1, <2>2 DEF BytesPeakInv
  <2>5. QED BY <1>6, <2>1, <2>3, <2>4
<1>12. QED
  BY <1>4, <1>5, <1>8, <1>9, <1>10, <1>11 DEF HookStep

LEMMA ResetPeak ==
    ASSUME PeakInv, ~ResetAnyTime, NEW t \in Threads,
           BeginReset(t) \/ ResetStore(t)
    PROVE  ResetInv' /\ (Resetting' = {} => BytesPeakInv' /\ LivePeakInv')
<1>1. CASE BeginReset(t)
  <2>1. /\ \A u \in Threads : pc[u] = "outside"
        /\ pc' = [pc EXCEPT ![t] = "reset"] /\ UNCHANGED next_store
    BY <1>1 DEF BeginReset, Goto
  <2>2. t \in Resetting' /\ next_store[t] = 1
    BY <2>1 DEF Resetting, PeakInv, ResetInv, TypeInv, TypeOK
  <2>3. QED BY <2>1, <2>2 DEF PeakInv, ResetInv, TypeInv, TypeOK
<1>2. CASE ResetStore(t)
  <2> DEFINE k == next_store[t]
  <2>1. /\ k \in 1 .. 6 /\ pc[t] = "reset"
        /\ \A u \in Threads \ {t} : pc[u] = "outside" /\ next_store[u] = 1
    BY <1>2 DEF ResetStore, PeakInv, ResetInv, TypeInv, TypeOK
  <2>2. /\ counters' = [counters EXCEPT ![Order[k]] = 0]
        /\ next_store'[t] = (k % 6) + 1
        /\ pc'[t] = IF k < 6 THEN "reset" ELSE "outside"
        /\ \A u \in Threads \ {t} : pc'[u] = "outside" /\ next_store'[u] = 1
    BY <1>2, <2>1 DEF ResetStore, Goto, PeakInv, TypeInv, TypeOK
  <2>3. /\ k < 6 => next_store'[t] = k + 1
        /\ k = 6 => next_store'[t] = 1
    BY <2>1, <2>2
  <2>4. /\ Order[k] = "peak_bytes" <=> k = 3
        /\ Order[k] = "current_bytes" <=> k = 4
        /\ Order[k] = "live_count" <=> k = 5
        /\ Order[k] = "peak_live_count" <=> k = 6
        /\ Order[k] \in {"alloc_count", "total_bytes", "peak_bytes",
                         "current_bytes", "live_count", "peak_live_count"}
    BY <2>1 DEF Order
  <2>5. /\ counters'.peak_bytes = IF k = 3 THEN 0 ELSE counters.peak_bytes
        /\ counters'.peak_live_count
              = IF k = 6 THEN 0 ELSE counters.peak_live_count
    BY <2>2, <2>4 DEF PeakInv, TypeInv, TypeOK
  <2>6. /\ high'.bytes = IF k = 4 THEN 0 ELSE high.bytes
        /\ high'.live = IF k = 5 THEN 0 ELSE high.live
    BY <1>2, <2>4 DEF ResetStore, PeakInv, TypeInv, TypeOK
  <2>7. /\ k > 3 => counters.peak_bytes = 0
        /\ k > 4 => high.bytes = 0
        /\ k > 5 => high.live = 0
    BY <2>1 DEF PeakInv, ResetInv
  <2>8. ResetInv'
    BY <2>1, <2>2, <2>3, <2>5, <2>6, <2>7 DEF ResetInv
  <2>9. ASSUME Resetting' = {} PROVE BytesPeakInv' /\ LivePeakInv'
    <3>1. k = 6
      BY <2>1, <2>2, <2>9 DEF Resetting
    <3>2. \A u \in Threads : pc'[u] = "outside"
      BY <2>2, <3>1
    <3>3. QED
      BY <2>5, <2>6, <2>7, <3>1, <3>2 DEF BytesPeakInv, LivePeakInv
  <2>10. QED BY <2>8, <2>9
<1>3. QED BY <1>1, <1>2

LEMMA NextPeak == PeakInv /\ ~ResetAnyTime /\ [Next]_vars => PeakInv'
<1> SUFFICES ASSUME PeakInv, ~ResetAnyTime, [Next]_vars
             PROVE  ResetInv' /\ (Resetting' = {} => BytesPeakInv' /\ LivePeakInv')
  BY NextType DEF PeakInv
<1>1. CASE UNCHANGED vars
  BY <1>1 DEF vars, history, PeakInv, ResetInv, BytesPeakInv, LivePeakInv,
              Resetting
<1>2. QED
  BY <1>1, CallPeak, HookStepPeak, ResetPeak DEF Next, Rest

\* With reset called as its docs say, no race between threads that raise a
\* peak loses a maximum: whenever no thread is between its fetch_add and its
\* fetch_max, peak_bytes is the highest value that an addition to
\* current_bytes has made, and peak_live_count likewise (lib.rs:264-272).
THEOREM PeaksAreExact == ~ResetAnyTime => (Spec => []PeakIsHighWater)
<1> SUFFICES ASSUME ~ResetAnyTime PROVE Spec => []PeakIsHighWater
  OBVIOUS
<1>1. PeakInv /\ [Next]_vars => PeakInv'
  BY NextPeak
<1>2. QED
  BY <1>1, InitPeak, PeakInvHighWater, PTL DEF Spec

-----------------------------------------------------------------------------
(* The handle, whenever reset is called.                                     *)

\* A thread outside the hook has no block in flight; one inside has set its
\* flag, and cannot leave with a block before the handle is registered.
HandleInv ==
    \A t \in Threads :
       /\ IN_ALLOC[t] <=> pc[t] \notin {"outside", "reset"}
       /\ pc[t] \in {"outside", "reset", "live_sub"} => arg[t].block = Program
       /\ pc[t] = "alloc_count" => arg[t].new # 0
       /\ pc[t] = "current_sub" /\ arg[t].new = 0 => arg[t].block = Program
       /\ pc[t] = "event" => GLOBAL_HANDLE

LEMMA CallHandle ==
    ASSUME TypeInv, HandleInv, HolderIsRegistered, NEW t \in Threads,
           Alloc(t) \/ Dealloc(t) \/ Realloc(t)
    PROVE  HandleInv' /\ HolderIsRegistered'
<1>1. /\ pc \in [Threads -> PCs] /\ arg \in [Threads -> ArgType]
      /\ IN_ALLOC \in [Threads -> BOOLEAN] /\ UNCHANGED GLOBAL_HANDLE
      /\ pc[t] \in {"outside", "event"}
      /\ IN_ALLOC[t] <=> pc[t] = "event"
  BY DEF Alloc, Dealloc, Realloc, CanCall, history, TypeInv, TypeOK, ArgType,
         HandleInv
<1>2. ASSUME NEW b \in Blocks \union {Program}, NEW old, NEW new,
             NEW where \in {"alloc_count", "current_sub"},
             Hook(t, b, old, new, where),
             where = "alloc_count" => new # 0,
             where = "current_sub" => b = Program
      PROVE  /\ HandleInv'
             /\ \A u \in Threads \ {t} : arg'[u] = arg[u]
             /\ pc[t] = "outside" => arg'[t].block = b
                                     /\ arg[t].block = Program
             /\ pc[t] = "event" => UNCHANGED arg
  BY <1>1, <1>2 DEF Hook, Goto, HandleInv
<1>3. CASE Alloc(t)
  <2>1. PICK b \in Blocks, size \in Sizes :
           /\ heap[b] = 0 /\ heap' = [heap EXCEPT ![b] = size]
           /\ holder' = [holder EXCEPT ![b] = Caller(t)]
           /\ Hook(t, b, 0, size, "alloc_count")
    BY <1>3 DEF Alloc
  <2>2. size # 0
    BY SizesAssumption
  <2>3. HandleInv'
    BY <1>2, <2>1, <2>2
  <2>4. CASE pc[t] = "outside"
    <3>1. Held' \subseteq Held \union {b} /\ b \in InFlight'
      BY <1>2, <2>1, <2>2, <2>4 DEF Held, InFlight, TypeInv, TypeOK
    <3>2. InFlight \ {Program} \subseteq InFlight'
      BY <1>2, <2>1, <2>2, <2>4 DEF InFlight
    <3>3. QED BY <1>1, <2>3, <3>1, <3>2, ProgramAssumption
              DEF HolderIsRegistered, Held
  <2>5. CASE pc[t] = "event"
    <3>1. Held' \subseteq Held
      BY <2>1, <2>5, ProgramAssumption DEF Held, Caller, TypeInv, TypeOK
    <3>2. InFlight' = InFlight
      BY <1>2, <2>1, <2>2, <2>5 DEF InFlight
    <3>3. QED BY <1>1, <2>3, <3>1, <3>2 DEF HolderIsRegistered
  <2>6. QED BY <1>1, <2>4, <2>5
<1>4. CASE Dealloc(t)
  <2>1. PICK b \in Blocks :
           /\ heap' = [heap EXCEPT ![b] = 0]
           /\ holder' = [holder EXCEPT ![b] = Program]
           /\ Hook(t, Program, heap[b], 0, "current_sub")
    BY <1>4 DEF Dealloc
  <2>2. HandleInv'
    BY <1>2, <2>1
  <2>3. Held' \subseteq Held
    BY <2>1 DEF Held, TypeInv, TypeOK
  <2>4. InFlight \ {Program} \subseteq InFlight'
    BY <1>1, <1>2, <2>1 DEF InFlight
  <2>5. QED BY <1>1, <2>2, <2>3, <2>4, ProgramAssumption
            DEF HolderIsRegistered, Held
<1>5. CASE Realloc(t)
  <2>1. PICK b \in Blocks, size \in Sizes :
           /\ heap[b] # 0 /\ holder[b] = Caller(t)
           /\ heap' = [heap EXCEPT ![b] = size]
           /\ Hook(t, b, heap[b], size, "alloc_count")
    BY <1>5 DEF Realloc
  <2>2. size # 0
    BY SizesAssumption
  <2>3. HandleInv'
    BY <1>2, <2>1, <2>2
  <2>4. Held' \subseteq Held
    BY <1>5, <2>1 DEF Realloc, Held, TypeInv, TypeOK
  <2>5. InFlight \ {Program} \subseteq InFlight'
    BY <1>1, <1>2, <2>1, <2>2 DEF InFlight
  <2>6. QED BY <1>1, <2>3, <2>4, <2>5, ProgramAssumption
            DEF HolderIsRegistered, Held
<1>6. QED BY <1>3, <1>4, <1>5

LEMMA OtherHandle ==
    ASSUME TypeInv, HandleInv, HolderIsRegistered, NEW t \in Threads,
           HookStep(t) \/ BeginReset(t) \/ ResetStore(t)
    PROVE  HandleInv' /\ HolderIsRegistered'
<1> USE DEF Goto, DropGuard
<1>1. /\ pc \in [Threads -> PCs] /\ arg \in [Threads -> ArgType]
      /\ IN_ALLOC \in [Threads -> BOOLEAN]
  BY DEF TypeInv, TypeOK, ArgType
<1>2. Held' = Held
  BY DEF HookStep, CountEvent, AddTotal, AddCurrent, RaisePeak, AddLive,
         RaisePeakLive, Register, LeaveHook, SubCurrent, SubLive,
         BeginReset, ResetStore, Held
<1>3. GLOBAL_HANDLE' \in {GLOBAL_HANDLE, TRUE}
  BY DEF HookStep, CountEvent, AddTotal, AddCurrent, RaisePeak, AddLive,
         RaisePeakLive, Register, LeaveHook, SubCurrent, SubLive,
         BeginReset, ResetStore
<1>4. CASE LeaveHook(t)
  BY <1>1, <1>2, <1>4 DEF LeaveHook, HandleInv, HolderIsRegistered, NoArg
<1>5. CASE SubLive(t)
  <2>1. HandleInv'
    BY <1>1, <1>5 DEF SubLive, HandleInv, NoArg
  <2>2. InFlight' = InFlight
    BY <1>1, <1>5 DEF SubLive, InFlight, HandleInv, NoArg
  <2>3. QED BY <1>2, <1>5, <2>1, <2>2 DEF SubLive, HolderIsRegistered
<1>6. ASSUME \A u \in Threads : arg'[u].block = arg[u].block
      PROVE  HolderIsRegistered'
  <2>1. InFlight' = InFlight
    BY <1>6 DEF InFlight
  <2>2. QED BY <1>2, <1>3, <2>1 DEF HolderIsRegistered
<1>7. CASE CountEvent(t) \/ AddTotal(t) \/ RaisePeak(t) \/ RaisePeakLive(t)
           \/ Register(t) \/ SubCurrent(t)
  <2>1. HandleInv'
    BY <1>1, <1>7 DEF CountEvent, AddTotal, RaisePeak, RaisePeakLive, Register,
                      SubCurrent, IsAlloc, IsDealloc, HandleInv
  <2>2. UNCHANGED arg
    BY <1>7 DEF CountEvent, AddTotal, RaisePeak, RaisePeakLive, Register,
                SubCurrent
  <2>3. QED BY <1>6, <2>1, <2>2
<1>8. CASE AddCurrent(t) \/ AddLive(t)
  <2>1. /\ \A u \in Threads : /\ arg'[u].block = arg[u].block
                              /\ arg'[u].new = arg[u].new
        /\ pc' \in [Threads -> PCs] /\ pc'[t] \in {"peak_bytes", "peak_live"}
        /\ pc[t] \in {"current_add", "live_add"}
        /\ \A u \in Threads \ {t} : pc'[u] = pc[u]
        /\ UNCHANGED <<IN_ALLOC, GLOBAL_HANDLE>>
    BY <1>1, <1>8 DEF AddCurrent, AddLive, ArgType, PCs
  <2>2. HandleInv'
    BY <2>1 DEF HandleInv
  <2>3. QED BY <1>6, <2>1, <2>2
<1>9. CASE BeginReset(t) \/ ResetStore(t)
  <2>1. HandleInv'
    BY <1>1, <1>9 DEF BeginReset, ResetStore, HandleInv
  <2>2. UNCHANGED arg
    BY <1>9 DEF BeginReset, ResetStore
  <2>3. QED BY <1>6, <2>1, <2>2
<1>10. QED
  BY <1>4, <1>5, <1>7, <1>8, <1>9 DEF HookStep

\* Whenever the program holds a block whose call has returned, a Profiler
\* finds the counters: start() reads zeros only before the first such call
\* (lib.rs:295-304, 658-680).  This one holds whenever reset is called.
THEOREM HoldersAreRegistered == Spec => []HolderIsRegistered
<1>1. Init => HandleInv /\ HolderIsRegistered
  BY DEF Init, HandleInv, HolderIsRegistered, Held, NoArg
<1>2. TypeInv /\ HandleInv /\ HolderIsRegistered /\ [Next]_vars
         => HandleInv' /\ HolderIsRegistered'
  <2>1. CASE UNCHANGED vars
    BY <2>1 DEF vars, HandleInv, HolderIsRegistered, Held, InFlight
  <2>2. QED BY <2>1, CallHandle, OtherHandle DEF Next, Rest
<1>3. QED
  BY <1>1, <1>2, InitType, NextType, PTL DEF Spec

-----------------------------------------------------------------------------
(* What the counters say of the heap, when reset is only called at rest.     *)

\* A call whose change of current_bytes is still to be made.
Owes(t) == pc[t] \in {"alloc_count", "total_bytes", "current_add", "current_sub"}

\* Program blocks whose bytes are not, or not yet as many, in current_bytes.
Growing == {arg[t].block : t \in {u \in Threads : Owes(u) /\ Delta(u) > 0}}

\* The bytes in current_bytes, by the block they are counted for, and by the
\* call that has still to add to them or to take them away.
counted == [b \in Blocks |-> IF b \in Held \ Growing THEN heap[b] ELSE 0]
owed == [t \in Threads |-> IF ~Owes(t) THEN 0
                           ELSE IF Delta(t) > 0 THEN arg[t].old ELSE - Delta(t)]
BytesOwned == SumOf(counted, Blocks) + SumOf(owed, Threads)

\* What a thread's position says of its call: a block in flight is held by the
\* program, in its new size.
CallOK(t) ==
    /\ IN_ALLOC[t] <=> pc[t] \notin {"outside", "reset"}
    /\ ~IN_ALLOC[t] => arg[t].block = Program
    /\ pc[t] \in {"total_bytes", "current_add", "peak_bytes"} => Delta(t) > 0
    /\ pc[t] = "current_sub" => Delta(t) < 0
    /\ pc[t] \in {"live_add", "peak_live"} => arg[t].old = 0
    /\ pc[t] = "live_sub" => arg[t].new = 0
    /\ IN_ALLOC[t] /\ pc[t] \notin {"current_sub", "live_sub"} => arg[t].new # 0
    /\ IN_ALLOC[t] /\ arg[t].new = 0 => arg[t].block = Program
    /\ IN_ALLOC[t] /\ arg[t].new # 0 =>
          arg[t].block \in Held /\ heap[arg[t].block] = arg[t].new

Distinct ==
    \A t \in Threads : \A u \in Threads \ {t} :
       arg[t].block # Program => arg[u].block # arg[t].block

\* A thread in reset runs alone, with nothing held.
ResetAlone ==
    \A t \in Threads : pc[t] = "reset" =>
       Held = {} /\ \A u \in Threads \ {t} : pc[u] = "outside"

CallInv == /\ \A t \in Threads : CallOK(t)
           /\ Distinct
           /\ ResetAlone

\* The three calls in one: block b goes from size old to size new.  Inside the
\* hook only the heap changes; outside it the thread enters its own.
Entered(t, b, old, new) ==
    /\ IN_ALLOC' = [IN_ALLOC EXCEPT ![t] = TRUE]
    /\ pc' = [pc EXCEPT ![t] = IF new = 0 THEN "current_sub" ELSE "alloc_count"]
    /\ arg' = [arg EXCEPT ![t] = [block |-> IF new = 0 THEN Program ELSE b,
                                  old |-> old, new |-> new, new_current |-> 0]]

Resized(t, b, old, new) ==
    /\ heap[b] = old /\ (old # 0 \/ new # 0)
    /\ heap' = [heap EXCEPT ![b] = new]
    /\ holder' = [holder EXCEPT ![b] = IF new = 0 THEN Program ELSE Caller(t)]
    /\ old # 0 => holder[b] = Caller(t)
    /\ \A u \in Threads : arg[u].block # b

LEMMA CallEffect ==
    ASSUME TypeInv, CallInv, NEW t \in Threads,
           Alloc(t) \/ Dealloc(t) \/ Realloc(t)
    PROVE  /\ pc[t] \in {"outside", "event"} /\ (~ResetAnyTime => Resetting = {})
           /\ UNCHANGED <<counters, next_store, high, underflow>>
           /\ \E b \in Blocks, old, new \in Sizes \union {0} :
                 /\ Resized(t, b, old, new)
                 /\ pc[t] = "outside" => Entered(t, b, old, new)
                 /\ pc[t] = "event" => UNCHANGED <<IN_ALLOC, pc, arg>>
                 /\ calls' = IF new = 0 THEN calls ELSE calls + 1
                 /\ events' = IF new # 0 /\ pc[t] = "outside"
                                 THEN events + 1 ELSE events
<1>1. /\ pc[t] \in {"outside", "event"} /\ (~ResetAnyTime => Resetting = {})
      /\ UNCHANGED <<counters, next_store, high, underflow>>
  BY DEF Alloc, Dealloc, Realloc, CanCall, Orderly, history
<1>2. /\ IN_ALLOC[t] <=> pc[t] = "event"
      /\ \A b \in Blocks : heap[b] \in Sizes \union {0}
      /\ \A u \in Threads : arg[u].block # Program => heap[arg[u].block] # 0
  BY <1>1 DEF CallInv, CallOK, TypeInv, TypeOK, Held
<1>3. /\ Program \notin Threads /\ Program \notin Blocks
      /\ Caller(t) = Program <=> pc[t] = "outside"
  BY <1>1, ProgramAssumption DEF Caller
<1>4. 0 \notin Sizes
  BY SizesAssumption
<1>5. CASE Alloc(t)
  <2>1. PICK b \in Blocks, size \in Sizes :
           /\ heap[b] = 0
           /\ heap' = [heap EXCEPT ![b] = size]
           /\ holder' = [holder EXCEPT ![b] = Caller(t)]
           /\ Hook(t, b, 0, size, "alloc_count")
    BY <1>5 DEF Alloc
  <2>2. size # 0 /\ \A u \in Threads : arg[u].block # b
    BY <1>2, <1>3, <1>4, <2>1
  <2>3. Resized(t, b, 0, size)
    BY <2>1, <2>2 DEF Resized
  <2>4. /\ pc[t] = "outside" => Entered(t, b, 0, size)
        /\ pc[t] = "event" => UNCHANGED <<IN_ALLOC, pc, arg>>
    BY <1>2, <2>1, <2>2 DEF Hook, Goto, Entered
  <2>5. calls' = calls + 1 /\ events' = IF pc[t] = "outside" THEN events + 1 ELSE events
    BY <1>3, <1>5 DEF Alloc, Counts
  <2>. QED  BY <1>1, <2>2, <2>3, <2>4, <2>5
<1>6. CASE Dealloc(t)
  <2>1. PICK b \in Blocks \ InFlight :
           /\ heap[b] # 0 /\ holder[b] = Caller(t)
           /\ heap' = [heap EXCEPT ![b] = 0]
           /\ holder' = [holder EXCEPT ![b] = Program]
           /\ Hook(t, Program, heap[b], 0, "current_sub")
    BY <1>6 DEF Dealloc
  <2>2. Resized(t, b, heap[b], 0)
    BY <2>1 DEF Resized, InFlight
  <2>3. /\ pc[t] = "outside" => Entered(t, b, heap[b], 0)
        /\ pc[t] = "event" => UNCHANGED <<IN_ALLOC, pc, arg>>
    BY <1>2, <2>1 DEF Hook, Goto, Entered
  <2>4. UNCHANGED <<calls, events>>
    BY <1>6 DEF Dealloc, history
  <2>. QED  BY <1>1, <1>2, <2>2, <2>3, <2>4
<1>7. CASE Realloc(t)
  <2>1. PICK b \in Blocks \ InFlight, size \in Sizes :
           /\ heap[b] # 0 /\ holder[b] = Caller(t)
           /\ heap' = [heap EXCEPT ![b] = size]
           /\ Hook(t, b, heap[b], size, "alloc_count")
    BY <1>7 DEF Realloc
  <2>2. size # 0 /\ holder' = [holder EXCEPT ![b] = Caller(t)]
    BY <1>4, <1>7, <2>1 DEF Realloc, TypeInv, TypeOK
  <2>3. Resized(t, b, heap[b], size)
    BY <2>1, <2>2 DEF Resized, InFlight
  <2>4. /\ pc[t] = "outside" => Entered(t, b, heap[b], size)
        /\ pc[t] = "event" => UNCHANGED <<IN_ALLOC, pc, arg>>
    BY <1>2, <2>1, <2>2 DEF Hook, Goto, Entered
  <2>5. calls' = calls + 1 /\ events' = IF pc[t] = "outside" THEN events + 1 ELSE events
    BY <1>3, <1>7 DEF Realloc, Counts
  <2>. QED  BY <1>1, <1>2, <2>2, <2>3, <2>4, <2>5
<1>. QED  BY <1>5, <1>6, <1>7

\* The steps that leave the heap alone.
LEMMA StepEffect ==
    ASSUME NEW t \in Threads,
           HookStep(t) \/ BeginReset(t) \/ ResetStore(t)
    PROVE  UNCHANGED <<heap, holder>> /\ Held' = Held
BY DEF HookStep, CountEvent, AddTotal, AddCurrent, RaisePeak, AddLive,
       RaisePeakLive, Register, LeaveHook, SubCurrent, SubLive,
       BeginReset, ResetStore, Held

LEMMA ArgFacts ==
    ASSUME TypeInv
    PROVE  /\ \A t \in Threads : /\ arg[t].old \in Nat /\ arg[t].new \in Nat
                                 /\ Delta(t) \in Int
                                 /\ Delta(t) = arg[t].new - arg[t].old
                                 /\ arg[t].old \in Sizes \union {0}
           /\ \A b \in Blocks : heap[b] \in Nat
           /\ pc \in [Threads -> PCs] /\ arg \in [Threads -> ArgType]
           /\ IN_ALLOC \in [Threads -> BOOLEAN]
           /\ heap \in [Blocks -> Sizes \union {0}]
           /\ holder \in [Blocks -> Threads \union {Program}]
<1>1. \A n \in Sizes \union {0} : n \in Nat
  BY SizesAreNat
<1>2. /\ \A t \in Threads : /\ arg[t].old \in Sizes \union {0}
                            /\ arg[t].new \in Sizes \union {0}
      /\ \A b \in Blocks : heap[b] \in Sizes \union {0}
  BY DEF TypeInv, TypeOK
<1>3. /\ \A t \in Threads : arg[t].old \in Nat /\ arg[t].new \in Nat
      /\ \A b \in Blocks : heap[b] \in Nat
  BY <1>1, <1>2
<1>. QED  BY <1>2, <1>3 DEF TypeInv, TypeOK, Delta, ArgType

LEMMA CallCallInv ==
    ASSUME TypeInv, CallInv, ~ResetAnyTime, NEW t \in Threads,
           Alloc(t) \/ Dealloc(t) \/ Realloc(t)
    PROVE  CallInv'
<1>1. PICK b \in Blocks, old \in Sizes \union {0}, new \in Sizes \union {0} :
         /\ Resized(t, b, old, new)
         /\ pc[t] = "outside" => Entered(t, b, old, new)
         /\ pc[t] = "event" => UNCHANGED <<IN_ALLOC, pc, arg>>
  BY CallEffect
<1>2. pc[t] \in {"outside", "event"} /\ Resetting = {} /\ Program \notin Blocks
  BY CallEffect, ProgramAssumption
<1>3. /\ pc \in [Threads -> PCs] /\ arg \in [Threads -> ArgType]
      /\ IN_ALLOC \in [Threads -> BOOLEAN]
      /\ heap \in [Blocks -> Sizes \union {0}]
      /\ holder \in [Blocks -> Threads \union {Program}]
      /\ old \in Nat /\ new \in Nat
  BY ArgFacts, SizesAssumption
<1>4. /\ \A c \in Blocks \ {b} : heap'[c] = heap[c] /\ holder'[c] = holder[c]
      /\ \A c \in Held \ {b} : c \in Held'
      /\ heap'[b] = new
      /\ new # 0 /\ pc[t] = "outside" => b \in Held'
  BY <1>1, <1>3 DEF Resized, Held, Caller
<1>5. ASSUME NEW u \in Threads, pc'[u] = pc[u], arg'[u] = arg[u],
             IN_ALLOC'[u] = IN_ALLOC[u]
      PROVE  CallOK(u)'
  <2>1. arg[u].block # b
    BY <1>1 DEF Resized
  <2>2. IN_ALLOC[u] /\ arg[u].new # 0 =>
           arg[u].block \in Held' /\ heap'[arg[u].block] = arg[u].new
    BY <1>4, <2>1 DEF CallInv, CallOK, Held
  <2>. QED  BY <1>5, <2>2 DEF CallInv, CallOK, Delta
<1>6. CallOK(t)'
  <2>1. CASE pc[t] = "event"
    BY <1>1, <1>5, <2>1
  <2>2. CASE pc[t] = "outside"
    <3>1. /\ IN_ALLOC'[t] = TRUE
          /\ pc'[t] = IF new = 0 THEN "current_sub" ELSE "alloc_count"
          /\ arg'[t].block = IF new = 0 THEN Program ELSE b
          /\ arg'[t].old = old /\ arg'[t].new = new
      BY <1>1, <1>3, <2>2 DEF Entered
    <3>2. new = 0 => old # 0
      BY <1>1 DEF Resized
    <3>. QED  BY <1>3, <1>4, <2>2, <3>1, <3>2 DEF CallOK, Delta
  <2>. QED  BY <1>2, <2>1, <2>2
<1>7. \A u \in Threads \ {t} : /\ pc'[u] = pc[u] /\ arg'[u] = arg[u]
                               /\ IN_ALLOC'[u] = IN_ALLOC[u]
  BY <1>1, <1>2, <1>3 DEF Entered
<1>8. Distinct'
  <2>1. \A u \in Threads : arg[u].block # b
    BY <1>1 DEF Resized
  <2>2. arg'[t].block \in {arg[t].block, Program, b}
    BY <1>1, <1>2, <1>3 DEF Entered
  <2>3. arg'[t].block # arg[t].block => arg'[t].block \in {Program, b}
    BY <2>2
  <2>. QED  BY <1>7, <2>1, <2>2 DEF CallInv, Distinct
<1>9. ResetAlone'
  <2>1. \A u \in Threads : pc'[u] # "reset"
    BY <1>1, <1>2, <1>3, <1>7 DEF Resetting, Entered
  <2>. QED  BY <2>1 DEF ResetAlone
<1>. QED  BY <1>5, <1>6, <1>7, <1>8, <1>9 DEF CallInv

LEMMA OtherCallInv ==
    ASSUME TypeInv, CallInv, NEW t \in Threads, ~ResetAnyTime,
           HookStep(t) \/ BeginReset(t) \/ ResetStore(t)
    PROVE  CallInv'
<1>1. UNCHANGED <<heap, holder>> /\ Held' = Held
  BY StepEffect
<1>2. /\ pc \in [Threads -> PCs] /\ arg \in [Threads -> ArgType]
      /\ IN_ALLOC \in [Threads -> BOOLEAN]
      /\ \A u \in Threads : /\ arg[u].old \in Nat /\ arg[u].new \in Nat
                            /\ Delta(u) = arg[u].new - arg[u].old
  BY ArgFacts
<1>3. /\ \A u \in Threads \ {t} : /\ pc'[u] = pc[u] /\ arg'[u] = arg[u]
                                  /\ IN_ALLOC'[u] = IN_ALLOC[u]
      /\ arg'[t].block \in {arg[t].block, Program}
  BY <1>2 DEF HookStep, CountEvent, AddTotal, AddCurrent, RaisePeak, AddLive,
       RaisePeakLive, Register, LeaveHook, SubCurrent, SubLive,
       BeginReset, ResetStore, Goto, DropGuard, NoArg, ArgType
<1>4. \A u \in Threads \ {t} : CallOK(u)'
  BY <1>1, <1>3 DEF CallInv, CallOK, Delta
<1>5. Distinct'
  BY <1>3 DEF CallInv, Distinct
<1>6. CallOK(t)
  BY DEF CallInv
<1>7. CASE CountEvent(t) \/ AddTotal(t) \/ RaisePeak(t) \/ RaisePeakLive(t)
           \/ Register(t) \/ SubCurrent(t)
  <2>1. UNCHANGED <<arg, IN_ALLOC>> /\ Delta(t)' = Delta(t)
    BY <1>7 DEF CountEvent, AddTotal, RaisePeak, RaisePeakLive, Register,
                SubCurrent, history, Delta
  <2>2. pc[t] \notin {"outside", "reset"} /\ pc'[t] # "reset"
    BY <1>2, <1>7 DEF CountEvent, AddTotal, RaisePeak, RaisePeakLive, Register,
                SubCurrent, Goto
  <2>3. CallOK(t)'
    <3>1. \/ pc[t] = "alloc_count" /\ pc'[t] = "total_bytes" /\ Delta(t) > 0
          \/ pc[t] = "alloc_count" /\ pc'[t] = "current_sub" /\ Delta(t) < 0
          \/ pc[t] = "alloc_count" /\ pc'[t] = "register"
          \/ pc[t] = "total_bytes" /\ pc'[t] = "current_add"
          \/ pc[t] = "peak_bytes" /\ pc'[t] = "live_add" /\ arg[t].old = 0
          \/ pc[t] = "peak_bytes" /\ pc'[t] = "register"
          \/ pc[t] = "peak_live" /\ pc'[t] = "register"
          \/ pc[t] = "register" /\ pc'[t] = "event"
          \/ pc[t] = "current_sub" /\ pc'[t] = "live_sub" /\ arg[t].new = 0
          \/ pc[t] = "current_sub" /\ pc'[t] = "register" /\ arg[t].new # 0
      BY <1>2, <1>7 DEF CountEvent, AddTotal, RaisePeak, RaisePeakLive, Register,
                SubCurrent, Goto, IsAlloc, IsDealloc
    <3>. QED  BY <1>1, <1>6, <2>1, <3>1 DEF CallOK
  <2>4. ResetAlone'
    BY <1>1, <1>3, <2>2 DEF CallInv, ResetAlone
  <2>. QED  BY <1>4, <1>5, <2>3, <2>4 DEF CallInv
<1>8. CASE AddCurrent(t) \/ AddLive(t)
  <2>1. /\ UNCHANGED IN_ALLOC
        /\ arg'[t].block = arg[t].block /\ arg'[t].old = arg[t].old
        /\ arg'[t].new = arg[t].new
        /\ \/ pc[t] = "current_add" /\ pc'[t] = "peak_bytes"
           \/ pc[t] = "live_add" /\ pc'[t] = "peak_live"
    BY <1>2, <1>8 DEF AddCurrent, AddLive, Goto, ArgType
  <2>2. CallOK(t)'
    BY <1>1, <1>6, <2>1 DEF CallOK, Delta
  <2>3. ResetAlone'
    BY <1>1, <1>3, <2>1 DEF CallInv, ResetAlone
  <2>. QED  BY <1>4, <1>5, <2>2, <2>3 DEF CallInv
<1>9. CASE LeaveHook(t) \/ SubLive(t)
  <2>1. IN_ALLOC'[t] = FALSE /\ pc'[t] = "outside" /\ arg'[t] = NoArg
        /\ pc[t] \notin {"outside", "reset"}
    BY <1>2, <1>9 DEF LeaveHook, SubLive, DropGuard, Goto
  <2>2. CallOK(t)'
    BY <2>1 DEF CallOK, NoArg
  <2>3. ResetAlone'
    BY <1>1, <1>3, <2>1 DEF CallInv, ResetAlone
  <2>. QED  BY <1>4, <1>5, <2>2, <2>3 DEF CallInv
<1>10. CASE BeginReset(t) \/ ResetStore(t)
  <2>1. UNCHANGED <<arg, IN_ALLOC>> /\ pc[t] \in {"outside", "reset"}
        /\ pc'[t] \in {"outside", "reset"}
    BY <1>2, <1>10 DEF BeginReset, ResetStore, Goto, history
  <2>2. CallOK(t)'
    BY <1>1, <1>6, <2>1 DEF CallOK, Delta
  <2>3. Held = {} /\ \A u \in Threads \ {t} : pc[u] = "outside"
    <3>1. CASE BeginReset(t)
      BY <3>1 DEF BeginReset, Held
    <3>2. CASE ResetStore(t)
      BY <3>2 DEF ResetStore, CallInv, ResetAlone
    <3>. QED  BY <1>10, <3>1, <3>2
  <2>4. ResetAlone'
    BY <1>1, <1>3, <2>3 DEF ResetAlone
  <2>. QED  BY <1>4, <1>5, <2>2, <2>4 DEF CallInv
<1>. QED  BY <1>7, <1>8, <1>9, <1>10 DEF HookStep

LEMMA InitCallInv == Init => CallInv
BY ProgramAssumption DEF Init, CallInv, CallOK, Distinct, ResetAlone, NoArg, Held

LEMMA NextCallInv ==
    ASSUME TypeInv, CallInv, ~ResetAnyTime, [Next]_vars
    PROVE  CallInv'
<1>1. CASE UNCHANGED vars
  BY <1>1 DEF vars, CallInv, CallOK, Distinct, ResetAlone, Held, Delta
<1>. QED  BY <1>1, CallCallInv, OtherCallInv DEF Next, Rest

-----------------------------------------------------------------------------
(* current_bytes                                                             *)

BytesBounded ==
    /\ \A b \in Blocks : counted[b] \in Nat /\ counted[b] <= heap[b]
    /\ \A t \in Threads : owed[t] \in Nat /\ owed[t] <= arg[t].old
    /\ SumOf(counted, Blocks) \in Nat /\ SumOf(owed, Threads) \in Nat
    /\ BytesOwned \in CounterVal

\* No value that a step gives current_bytes is cut off.
LEMMA BytesFit ==
    TypeInv => BytesBounded
<1>. SUFFICES ASSUME TypeInv PROVE BytesBounded
  OBVIOUS
<1>. DEFINE old == [t \in Threads |-> arg[t].old]
<1>1. /\ \A b \in Blocks : heap[b] \in Nat
      /\ \A t \in Threads : /\ arg[t].old \in Nat /\ arg[t].new \in Nat
                            /\ Delta(t) = arg[t].new - arg[t].old
      /\ heap \in [Blocks -> Sizes \union {0}] /\ old \in [Threads -> Sizes \union {0}]
  BY ArgFacts
<1>2. \A b \in Blocks : counted[b] \in Nat /\ counted[b] <= heap[b]
  BY <1>1 DEF counted
<1>3. \A t \in Threads : owed[t] \in Nat /\ owed[t] <= arg[t].old
  <2>1. \A t \in Threads : owed[t] = IF ~Owes(t) THEN 0
                           ELSE IF Delta(t) > 0 THEN arg[t].old ELSE - Delta(t)
    BY DEF owed
  <2>. QED  BY <1>1, <2>1
<1>4. \A t \in Threads : /\ owed[t] \in Nat /\ owed[t] \in Int /\ old[t] \in Int
                         /\ old[t] \in Nat /\ owed[t] <= old[t]
  BY <1>1, <1>3
<1>. HIDE DEF old
<1>5. /\ SumOf(counted, Blocks) \in Nat /\ SumOf(owed, Threads) \in Nat
      /\ SumOf(heap, Blocks) \in Nat /\ SumOf(old, Threads) \in Nat
  BY <1>1, <1>2, <1>4, FiniteAssumption, SumNat
<1>6. SumOf(counted, Blocks) <= SumOf(heap, Blocks)
  BY <1>1, <1>2, FiniteAssumption, SumMonotone
<1>7. SumOf(owed, Threads) <= SumOf(old, Threads)
  BY <1>4, FiniteAssumption, SumMonotone
<1>8. SumOf(heap, Blocks) + SumOf(old, Threads) < W
  BY <1>1, FitsAssumption DEF SumOf
<1>9. BytesOwned \in CounterVal
  BY <1>5, <1>6, <1>7, <1>8, WidthAssumption DEF BytesOwned, CounterVal
<1>. QED  BY <1>2, <1>3, <1>5, <1>9 DEF BytesBounded

LEMMA SmallMod == ASSUME NEW x \in CounterVal PROVE x % W = x
BY WidthAssumption DEF CounterVal

\* What a step that changes the weight of one block and one thread makes of
\* the bytes owned.
LEMMA BytesChange ==
    ASSUME BytesBounded, BytesBounded', NEW b \in Blocks, NEW t \in Threads,
           \A c \in Blocks \ {b} : counted'[c] = counted[c],
           \A u \in Threads \ {t} : owed'[u] = owed[u]
    PROVE  BytesOwned' = BytesOwned + counted'[b] - counted[b] + owed'[t] - owed[t]
<1>. DEFINE f == counted'
            g == owed'
<1>1. /\ \A c \in Blocks : counted[c] \in Int /\ f[c] \in Int
      /\ \A u \in Threads : owed[u] \in Int /\ g[u] \in Int
      /\ \A c \in Blocks \ {b} : f[c] = counted[c]
      /\ \A u \in Threads \ {t} : g[u] = owed[u]
  BY DEF BytesBounded
<1>2. BytesOwned' = SumOf(f, Blocks) + SumOf(g, Threads)
  BY DEF BytesOwned
<1>. HIDE DEF f, g
<1>3. SumOf(f, Blocks) = SumOf(counted, Blocks) - counted[b] + f[b]
  BY <1>1, FiniteAssumption, SumChange
<1>4. SumOf(g, Threads) = SumOf(owed, Threads) - owed[t] + g[t]
  BY <1>1, FiniteAssumption, SumChange
<1>5. SumOf(counted, Blocks) \in Int /\ SumOf(owed, Threads) \in Int
  BY DEF BytesBounded
<1>6. BytesOwned' = BytesOwned + f[b] - counted[b] + g[t] - owed[t]
  BY <1>1, <1>2, <1>3, <1>4, <1>5 DEF BytesOwned
<1>. QED  BY <1>6 DEF f, g

\* The same for a step that changes the weight of a thread at most.
LEMMA OwedChange ==
    ASSUME BytesBounded, BytesBounded', NEW t \in Threads,
           \A c \in Blocks : counted'[c] = counted[c],
           \A u \in Threads \ {t} : owed'[u] = owed[u]
    PROVE  BytesOwned' = BytesOwned + owed'[t] - owed[t]
<1>. DEFINE f == counted'
            g == owed'
<1>1. /\ \A c \in Blocks : f[c] = counted[c]
      /\ \A u \in Threads : owed[u] \in Int /\ g[u] \in Int
      /\ \A u \in Threads \ {t} : g[u] = owed[u]
  BY DEF BytesBounded
<1>2. BytesOwned' = SumOf(f, Blocks) + SumOf(g, Threads)
  BY DEF BytesOwned
<1>. HIDE DEF f, g
<1>3. SumOf(f, Blocks) = SumOf(counted, Blocks)
  BY <1>1, FiniteAssumption, SumCongruent
<1>4. SumOf(g, Threads) = SumOf(owed, Threads) - owed[t] + g[t]
  BY <1>1, FiniteAssumption, SumChange
<1>5. SumOf(counted, Blocks) \in Int /\ SumOf(owed, Threads) \in Int
  BY DEF BytesBounded
<1>6. BytesOwned' = BytesOwned + g[t] - owed[t]
  BY <1>1, <1>2, <1>3, <1>4, <1>5 DEF BytesOwned
<1>. QED  BY <1>6 DEF f, g

\* current_bytes is what is counted, and no subtraction wrapped.
BytesInv == counters.current_bytes = BytesOwned

LEMMA CallBytes ==
    ASSUME TypeInv, CallInv, BytesInv, NEW t \in Threads,
           Alloc(t) \/ Dealloc(t) \/ Realloc(t)
    PROVE  BytesInv'
<1>1. PICK b \in Blocks, old \in Sizes \union {0}, new \in Sizes \union {0} :
         /\ Resized(t, b, old, new)
         /\ pc[t] = "outside" => Entered(t, b, old, new)
         /\ pc[t] = "event" => UNCHANGED <<IN_ALLOC, pc, arg>>
  BY CallEffect
<1>2. pc[t] \in {"outside", "event"} /\ UNCHANGED counters /\ Program \notin Threads
      /\ Program \notin Blocks
  BY CallEffect, ProgramAssumption
<1>3. /\ pc \in [Threads -> PCs] /\ arg \in [Threads -> ArgType]
      /\ heap \in [Blocks -> Sizes \union {0}]
      /\ holder \in [Blocks -> Threads \union {Program}]
      /\ old \in Nat /\ new \in Nat
      /\ \A u \in Threads : Delta(u) \in Int
      /\ \A c \in Blocks : heap[c] \in Nat
  BY ArgFacts, SizesAssumption
<1>4. TypeInv'
  BY CallType
<1>5. /\ \A c \in Blocks : counted[c] \in Int /\ counted'[c] \in Int
      /\ \A u \in Threads : owed[u] \in Int /\ owed'[u] \in Int
  <2>1. BytesBounded /\ BytesBounded'
    BY <1>4, BytesFit, PTL
  <2>. QED  BY <2>1 DEF BytesBounded
<1>6. \A u \in Threads \ {t} : pc'[u] = pc[u] /\ arg'[u] = arg[u]
  BY <1>1, <1>2, <1>3 DEF Entered
<1>7. \A u \in Threads \ {t} : owed'[u] = owed[u]
  BY <1>6 DEF owed, Owes, Delta
<1>8. /\ heap[b] = old /\ heap'[b] = new /\ (old # 0 \/ new # 0)
      /\ holder'[b] = IF new = 0 THEN Program ELSE Caller(t)
      /\ \A c \in Blocks \ {b} : heap'[c] = heap[c] /\ holder'[c] = holder[c]
      /\ old # 0 => holder[b] = Caller(t)
      /\ \A u \in Threads : arg[u].block # b
  BY <1>1, <1>3 DEF Resized
<1>9. b \notin Growing
  BY <1>8 DEF Growing
<1>10. /\ Growing' \ {b} \subseteq Growing \union {Program}
       /\ Growing \subseteq Growing' \union {Program}
       /\ b \in Growing' <=> pc[t] = "outside" /\ old < new
       /\ owed'[t] - owed[t] = IF pc[t] = "event" THEN 0
                               ELSE IF old < new THEN old ELSE old - new
  <2>1. CASE pc[t] = "event"
    <3>1. UNCHANGED <<pc, arg>>
      BY <1>1, <2>1
    <3>2. Growing' = Growing /\ owed'[t] = owed[t]
      BY <3>1 DEF Growing, owed, Owes, Delta
    <3>. QED  BY <1>5, <1>9, <2>1, <3>2
  <2>2. CASE pc[t] = "outside"
    <3>1. /\ pc'[t] = IF new = 0 THEN "current_sub" ELSE "alloc_count"
          /\ arg'[t].block = IF new = 0 THEN Program ELSE b
          /\ arg'[t].old = old /\ arg'[t].new = new
      BY <1>1, <1>3, <2>2 DEF Entered
    <3>2. Owes(t)' /\ ~Owes(t) /\ Delta(t)' = new - old
      BY <2>2, <3>1 DEF Owes, Delta
    <3>3. \A u \in Threads \ {t} : (Owes(u) <=> Owes(u)') /\ Delta(u)' = Delta(u)
      BY <1>6 DEF Owes, Delta
    <3>4. owed[t] = 0 /\ owed'[t] = IF old < new THEN old ELSE old - new
      BY <1>3, <3>1, <3>2 DEF owed
    <3>5. Growing' \subseteq Growing \union {Program, b} /\ Growing \subseteq Growing'
      BY <1>6, <3>1, <3>2, <3>3 DEF Growing
    <3>6. b \in Growing' <=> old < new
      <4>1. Growing' = {arg'[u].block : u \in {v \in Threads : Owes(v)' /\ Delta(v)' > 0}}
        BY DEF Growing
      <4>2. \A u \in Threads \ {t} : arg'[u].block # b
        BY <1>6, <1>8
      <4>3. old < new <=> Delta(t)' > 0
        BY <1>3, <3>2
      <4>. QED  BY <1>2, <1>3, <3>1, <3>2, <4>1, <4>2, <4>3
    <3>7. owed'[t] - owed[t] = IF old < new THEN old ELSE old - new
      BY <1>3, <3>4
    <3>. QED  BY <2>2, <3>5, <3>6, <3>7
  <2>. QED  BY <1>2, <2>1, <2>2
<1>11. \A c \in Blocks \ {b} : counted'[c] = counted[c]
  BY <1>2, <1>8, <1>10 DEF counted, Held
<1>12. counted'[b] - counted[b] + owed'[t] - owed[t] = 0
  <2>1. counted[b] = IF old # 0 /\ holder[b] = Program THEN old ELSE 0
    BY <1>8, <1>9 DEF counted, Held
  <2>2. counted'[b] = IF new # 0 /\ holder'[b] = Program /\ b \notin Growing' THEN new ELSE 0
    BY <1>8 DEF counted, Held
  <2>3. CASE pc[t] = "event"
    <3>1. Caller(t) # Program
      BY <1>2, <2>3 DEF Caller
    <3>2. counted[b] = 0 /\ counted'[b] = 0
      BY <1>8, <2>1, <2>2, <3>1
    <3>. QED  BY <1>5, <1>10, <2>3, <3>2
  <2>4. CASE pc[t] = "outside"
    <3>1. Caller(t) = Program
      BY <2>4 DEF Caller
    <3>2. counted[b] = old /\ counted'[b] = IF old < new THEN 0 ELSE new
      BY <1>8, <1>10, <2>1, <2>2, <2>4, <3>1
    <3>3. owed'[t] - owed[t] = IF old < new THEN old ELSE old - new
      BY <1>10, <2>4
    <3>. QED  BY <1>3, <1>5, <3>2, <3>3
  <2>. QED  BY <1>2, <2>3, <2>4
<1>13. BytesOwned' = BytesOwned
  <2>1. BytesBounded /\ BytesBounded'
    BY <1>4, BytesFit, PTL
  <2>2. BytesOwned' = BytesOwned + counted'[b] - counted[b] + owed'[t] - owed[t]
    BY <1>7, <1>11, <2>1, BytesChange
  <2>3. BytesOwned \in Int
    BY <2>1 DEF BytesBounded, CounterVal
  <2>. QED  BY <1>5, <1>12, <2>2, <2>3
<1>. QED  BY <1>2, <1>13 DEF BytesInv

\* Every other step leaves the weights of the blocks in place, but for the one
\* whose growth it adds, and pays what the thread owes.
LEMMA StepBytes ==
    ASSUME TypeInv, CallInv, BytesInv, NEW t \in Threads, ~ResetAnyTime,
           HookStep(t) \/ BeginReset(t) \/ ResetStore(t)
    PROVE  BytesInv'
<1>1. UNCHANGED heap /\ Held' = Held
  BY StepEffect
<1>2. /\ pc \in [Threads -> PCs] /\ arg \in [Threads -> ArgType]
      /\ \A u \in Threads : /\ arg[u].old \in Nat /\ arg[u].new \in Nat
                            /\ Delta(u) \in Int
                            /\ Delta(u) = arg[u].new - arg[u].old
      /\ \A c \in Blocks : heap[c] \in Nat
  BY ArgFacts
<1>3. BytesBounded /\ BytesBounded'
  <2>1. TypeInv'
    BY HookStepType, ResetType
  <2>. QED  BY <2>1, BytesFit, PTL
<1>4. /\ \A c \in Blocks : counted[c] \in Int /\ counted'[c] \in Int
      /\ \A u \in Threads : owed[u] \in Int /\ owed'[u] \in Int
      /\ BytesOwned \in CounterVal /\ BytesOwned' \in CounterVal
      /\ BytesOwned \in Int /\ BytesOwned' \in Int
      /\ counters.current_bytes \in Int
  BY <1>3 DEF BytesBounded, CounterVal, TypeInv, TypeOK
<1>5. \A u \in Threads \ {t} : pc'[u] = pc[u] /\ arg'[u] = arg[u]
  BY <1>2 DEF HookStep, CountEvent, AddTotal, AddCurrent, RaisePeak, AddLive,
       RaisePeakLive, Register, LeaveHook, SubCurrent, SubLive,
       BeginReset, ResetStore, Goto, DropGuard
<1>6. /\ \A u \in Threads \ {t} : (Owes(u) <=> Owes(u)') /\ Delta(u)' = Delta(u)
      /\ \A u \in Threads \ {t} : owed'[u] = owed[u]
  BY <1>5 DEF owed, Owes, Delta
<1>7. CallOK(t)
  BY DEF CallInv
<1>8. counters = [alloc_count |-> counters.alloc_count,
                  total_bytes |-> counters.total_bytes,
                  peak_bytes |-> counters.peak_bytes,
                  current_bytes |-> counters.current_bytes,
                  live_count |-> counters.live_count,
                  peak_live_count |-> counters.peak_live_count]
  BY PeakTypes
<1>9. CASE /\ counters'.current_bytes = counters.current_bytes
           /\ owed'[t] = owed[t] /\ Growing' = Growing
  <2>1. \A c \in Blocks : counted'[c] = counted[c]
    BY <1>1, <1>9 DEF counted
  <2>2. BytesOwned' = BytesOwned + owed'[t] - owed[t]
    BY <1>3, <1>6, <2>1, OwedChange
  <2>. QED  BY <1>4, <1>9, <2>2 DEF BytesInv
<1>10. CASE CountEvent(t) \/ AddTotal(t)
  <2>1. UNCHANGED arg /\ counters'.current_bytes = counters.current_bytes
    BY <1>8, <1>10 DEF CountEvent, AddTotal, Add, history
  <2>2. Owes(t) /\ Delta(t)' = Delta(t) /\ (Delta(t) # 0 => Owes(t)')
    BY <1>2, <1>10, <2>1 DEF CountEvent, AddTotal, Goto, Owes, Delta
  <2>3. owed'[t] = owed[t]
    BY <1>2, <2>1, <2>2 DEF owed
  <2>4. Growing' = Growing
    BY <1>2, <1>6, <2>1, <2>2 DEF Growing
  <2>. QED  BY <1>9, <2>1, <2>3, <2>4
<1>11. CASE RaisePeak(t) \/ RaisePeakLive(t) \/ Register(t) \/ AddLive(t)
            \/ LeaveHook(t) \/ SubLive(t) \/ BeginReset(t)
  <2>1. ~Owes(t) /\ ~Owes(t)' /\ counters'.current_bytes = counters.current_bytes
    BY <1>2, <1>8, <1>11 DEF RaisePeak, RaisePeakLive, Register, AddLive, LeaveHook, SubLive,
                BeginReset, DropGuard, Goto, Owes, Add, Sub, history
  <2>2. owed'[t] = owed[t]
    BY <2>1 DEF owed
  <2>3. Growing' = Growing
    BY <1>5, <1>6, <2>1 DEF Growing
  <2>. QED  BY <1>9, <2>1, <2>2, <2>3
<1>12. CASE ResetStore(t)
  <2>1. ~Owes(t) /\ ~Owes(t)' /\ UNCHANGED arg
    BY <1>2, <1>12 DEF ResetStore, Goto, Owes
  <2>2. owed'[t] = owed[t]
    BY <2>1 DEF owed
  <2>3. Growing' = Growing
    BY <1>5, <1>6, <2>1 DEF Growing
  <2>4. Held = {} /\ \A u \in Threads : ~Owes(u)
    BY <1>12 DEF ResetStore, CallInv, ResetAlone, Owes
  <2>5. BytesOwned = 0
    <3>1. \A c \in Blocks : counted[c] = 0
      BY <2>4 DEF counted
    <3>2. \A u \in Threads : owed[u] = 0
      BY <2>4 DEF owed
    <3>3. SumOf(counted, Blocks) = 0 /\ SumOf(owed, Threads) = 0
      BY <3>1, <3>2, FiniteAssumption, SumZero
    <3>. QED  BY <3>3 DEF BytesOwned
  <2>6. counters'.current_bytes \in {counters.current_bytes, 0}
    BY <1>8, <1>12 DEF ResetStore
  <2>. QED  BY <1>9, <2>2, <2>3, <2>5, <2>6 DEF BytesInv
<1>13. CASE AddCurrent(t)
  <2>. DEFINE b == arg[t].block
  <2>1. /\ pc[t] = "current_add" /\ pc'[t] = "peak_bytes"
        /\ arg'[t].block = b /\ arg'[t].old = arg[t].old /\ arg'[t].new = arg[t].new
        /\ counters'.current_bytes = (counters.current_bytes + Delta(t)) % W
    BY <1>2, <1>8, <1>13 DEF AddCurrent, Goto, Add, ArgType
  <2>2. /\ Delta(t) > 0 /\ arg[t].new # 0 /\ b \in Held /\ b \in Blocks
        /\ heap[b] = arg[t].new /\ b # Program
    BY <1>2, <1>7, <2>1, ProgramAssumption DEF CallOK, Held
  <2>3. Owes(t) /\ ~Owes(t)'
    BY <2>1 DEF Owes
  <2>4. \A u \in Threads \ {t} : arg[u].block # b
    BY <2>2 DEF CallInv, Distinct
  <2>5. b \in Growing /\ Growing' = Growing \ {b}
    BY <1>5, <1>6, <2>1, <2>2, <2>3, <2>4 DEF Growing
  <2>6. /\ counted[b] = 0 /\ counted'[b] = arg[t].new
        /\ owed[t] = arg[t].old /\ owed'[t] = 0
    BY <1>1, <2>2, <2>3, <2>5 DEF counted, owed
  <2>7. \A c \in Blocks \ {b} : counted'[c] = counted[c]
    BY <1>1, <2>5 DEF counted
  <2>. HIDE DEF b
  <2>8. BytesOwned' = BytesOwned + counted'[b] - counted[b] + owed'[t] - owed[t]
    BY <1>3, <1>6, <2>2, <2>7, BytesChange
  <2>9. BytesOwned' = counters.current_bytes + Delta(t)
    BY <1>2, <1>4, <2>6, <2>8 DEF BytesInv
  <2>. QED  BY <1>4, <2>1, <2>9, SmallMod DEF BytesInv
<1>14. CASE SubCurrent(t)
  <2>1. /\ pc[t] = "current_sub" /\ pc'[t] \in {"live_sub", "register"}
        /\ UNCHANGED arg
        /\ counters'.current_bytes = (counters.current_bytes - (- Delta(t))) % W
    BY <1>2, <1>8, <1>14 DEF SubCurrent, Goto, Sub
  <2>2. Delta(t) < 0 /\ Delta(t)' = Delta(t) /\ Owes(t) /\ ~Owes(t)'
    BY <1>7, <2>1 DEF CallOK, Owes, Delta
  <2>3. Growing' = Growing
    BY <1>2, <1>6, <2>1, <2>2 DEF Growing
  <2>4. owed[t] = - Delta(t) /\ owed'[t] = 0
    BY <1>2, <2>2 DEF owed
  <2>5. \A c \in Blocks : counted'[c] = counted[c]
    BY <1>1, <2>3 DEF counted
  <2>6. BytesOwned' = BytesOwned + owed'[t] - owed[t]
    BY <1>3, <1>6, <2>5, OwedChange
  <2>7. BytesOwned' = counters.current_bytes - (- Delta(t))
    BY <1>2, <1>4, <2>4, <2>6 DEF BytesInv
  <2>. QED  BY <1>4, <2>1, <2>7, SmallMod DEF BytesInv
<1>. QED  BY <1>10, <1>11, <1>12, <1>13, <1>14 DEF HookStep

LEMMA InitBytes == Init => BytesInv
<1>. SUFFICES ASSUME Init PROVE BytesInv
  OBVIOUS
<1>1. \A c \in Blocks : counted[c] = 0
  BY DEF Init, counted, Held
<1>2. \A u \in Threads : owed[u] = 0
  BY DEF Init, owed, Owes
<1>3. SumOf(counted, Blocks) = 0 /\ SumOf(owed, Threads) = 0
  BY <1>1, <1>2, FiniteAssumption, SumZero
<1>. QED  BY <1>3 DEF Init, Zeros, BytesInv, BytesOwned

-----------------------------------------------------------------------------
(* live_count and alloc_count                                                *)

\* Blocks that live_count has, threads that have still to take one away from it,
\* and threads that have still to count their event.
Arriving == {arg[t].block : t \in
                {u \in Threads : /\ pc[u] \in {"alloc_count", "total_bytes", "current_add",
                                               "peak_bytes", "live_add"}
                                 /\ arg[u].old = 0}}
Arrived  == Held \ Arriving
Leaving  == {t \in Threads : pc[t] \in {"current_sub", "live_sub"} /\ arg[t].new = 0}
Counting == {t \in Threads : pc[t] = "alloc_count"}

LiveInv == counters.live_count = Cardinality(Arrived) + Cardinality(Leaving)
EventsInv == /\ events = counters.alloc_count + Cardinality(Counting)
             /\ events <= calls
CountsInv == LiveInv /\ EventsInv /\ NoUnderflow

\* Threads and blocks are finitely many, and too few for live_count to wrap.
LEMMA CountsFit ==
    ASSUME NEW A, NEW L, NEW C, A \subseteq Blocks, L \subseteq Threads, C \subseteq Threads
    PROVE  /\ IsFiniteSet(A) /\ IsFiniteSet(L) /\ IsFiniteSet(C)
           /\ Cardinality(A) \in Nat /\ Cardinality(L) \in Nat /\ Cardinality(C) \in Nat
           /\ Cardinality(A) + Cardinality(L) \in CounterVal
<1>1. /\ IsFiniteSet(A) /\ Cardinality(A) <= Cardinality(Blocks)
      /\ IsFiniteSet(L) /\ Cardinality(L) <= Cardinality(Threads) /\ IsFiniteSet(C)
  BY FiniteAssumption, FS_Subset
<1>2. /\ Cardinality(A) \in Nat /\ Cardinality(L) \in Nat /\ Cardinality(C) \in Nat
      /\ Cardinality(Blocks) \in Nat /\ Cardinality(Threads) \in Nat
  BY <1>1, FiniteAssumption, FS_CardinalityType
<1>. QED  BY <1>1, <1>2, FitsAssumption, WidthAssumption DEF CounterVal

LEMMA CountSets ==
    /\ Arrived \subseteq Blocks /\ Leaving \subseteq Threads /\ Counting \subseteq Threads
BY DEF Arrived, Held, Leaving, Counting

LEMMA CallCounts ==
    ASSUME TypeInv, CallInv, CountsInv, NEW t \in Threads,
           Alloc(t) \/ Dealloc(t) \/ Realloc(t)
    PROVE  CountsInv'
<1>1. PICK b \in Blocks, old \in Sizes \union {0}, new \in Sizes \union {0} :
         /\ Resized(t, b, old, new)
         /\ pc[t] = "outside" => Entered(t, b, old, new)
         /\ pc[t] = "event" => UNCHANGED <<IN_ALLOC, pc, arg>>
         /\ calls' = IF new = 0 THEN calls ELSE calls + 1
         /\ events' = IF new # 0 /\ pc[t] = "outside" THEN events + 1 ELSE events
  BY CallEffect
<1>2. /\ pc[t] \in {"outside", "event"} /\ UNCHANGED <<counters, underflow>>
      /\ Program \notin Threads /\ Program \notin Blocks
  BY CallEffect, ProgramAssumption
<1>3. /\ pc \in [Threads -> PCs] /\ arg \in [Threads -> ArgType]
      /\ heap \in [Blocks -> Sizes \union {0}]
      /\ holder \in [Blocks -> Threads \union {Program}]
      /\ old \in Nat /\ new \in Nat
  BY ArgFacts, SizesAssumption
<1>4. /\ heap[b] = old /\ heap'[b] = new /\ (old # 0 \/ new # 0)
      /\ holder'[b] = IF new = 0 THEN Program ELSE Caller(t)
      /\ \A c \in Blocks \ {b} : heap'[c] = heap[c] /\ holder'[c] = holder[c]
      /\ old # 0 => holder[b] = Caller(t)
      /\ \A u \in Threads : arg[u].block # b
  BY <1>1, <1>3 DEF Resized
<1>5. Held' \ {b} = Held \ {b} /\ b \notin Arriving
  BY <1>4 DEF Held, Arriving
<1>6. calls \in Nat /\ events \in Nat /\ counters.alloc_count \in Nat
  BY DEF TypeInv, TypeOK
<1>7. /\ IsFiniteSet(Arrived) /\ IsFiniteSet(Leaving) /\ IsFiniteSet(Counting)
      /\ Cardinality(Arrived) \in Nat /\ Cardinality(Leaving) \in Nat
      /\ Cardinality(Counting) \in Nat
  BY CountSets, CountsFit
<1>8. CASE pc[t] = "event"
  <2>1. UNCHANGED <<pc, arg>> /\ Caller(t) # Program
    BY <1>1, <1>2, <1>8 DEF Caller
  <2>2. b \notin Held /\ b \notin Held'
    BY <1>4, <2>1 DEF Held
  <2>3. Held' = Held
    BY <1>5, <2>2
  <2>4. /\ Arriving' = Arriving /\ Leaving' = Leaving /\ Counting' = Counting
        /\ UNCHANGED events /\ calls' >= calls
    BY <1>1, <1>6, <1>8, <2>1 DEF Arriving, Leaving, Counting
  <2>5. LiveInv'
    BY <1>2, <2>3, <2>4 DEF CountsInv, LiveInv, Arrived
  <2>6. EventsInv'
    BY <1>1, <1>2, <1>6, <1>8, <2>4 DEF CountsInv, EventsInv
  <2>. QED  BY <1>2, <2>5, <2>6 DEF CountsInv, NoUnderflow
<1>9. CASE pc[t] = "outside"
  <2>1. /\ pc'[t] = IF new = 0 THEN "current_sub" ELSE "alloc_count"
        /\ arg'[t].block = IF new = 0 THEN Program ELSE b
        /\ arg'[t].old = old /\ arg'[t].new = new
        /\ \A u \in Threads \ {t} : pc'[u] = pc[u] /\ arg'[u] = arg[u]
        /\ Caller(t) = Program
    BY <1>1, <1>3, <1>9 DEF Entered, Caller
  <2>2. t \notin Leaving /\ t \notin Counting
    BY <1>9 DEF Leaving, Counting
  <2>3. Arriving' \ {b, Program} = Arriving \ {b, Program}
    BY <1>9, <2>1 DEF Arriving
  <2>4. b \in Arriving' <=> old = 0
    <3>1. \A u \in Threads \ {t} : arg'[u].block # b
      BY <1>4, <2>1
    <3>. QED  BY <1>2, <1>4, <2>1, <3>1 DEF Arriving
  <2>5. /\ b \in Arrived <=> old # 0
        /\ b \in Arrived' <=> old # 0 /\ new # 0
        /\ Arrived' \ {b} = Arrived \ {b}
    BY <1>2, <1>4, <1>5, <2>1, <2>3, <2>4 DEF Arrived, Held
  <2>6. LiveInv'
    <3>1. CASE old # 0 /\ new = 0
      <4>1. Arrived' = Arrived \ {b} /\ b \in Arrived
        BY <2>5, <3>1
      <4>2. Leaving' = Leaving \union {t}
        BY <2>1, <3>1 DEF Leaving
      <4>3. /\ Cardinality(Arrived') = Cardinality(Arrived) - 1
            /\ Cardinality(Leaving') = Cardinality(Leaving) + 1
        BY <1>7, <2>2, <4>1, <4>2, FS_AddElement, FS_RemoveElement
      <4>. QED  BY <1>2, <1>7, <4>3 DEF CountsInv, LiveInv
    <3>2. CASE ~(old # 0 /\ new = 0)
      <4>1. Arrived' = Arrived
        BY <2>5, <3>2
      <4>2. Leaving' = Leaving
        BY <1>4, <2>1, <2>2, <3>2 DEF Leaving
      <4>. QED  BY <1>2, <4>1, <4>2 DEF CountsInv, LiveInv
    <3>. QED  BY <3>1, <3>2
  <2>7. EventsInv'
    <3>1. CASE new # 0
      <4>1. Counting' = Counting \union {t}
        BY <2>1, <3>1 DEF Counting
      <4>2. Cardinality(Counting') = Cardinality(Counting) + 1
        BY <1>7, <2>2, <4>1, FS_AddElement
      <4>. QED  BY <1>1, <1>2, <1>6, <1>7, <1>9, <3>1, <4>2 DEF CountsInv, EventsInv
    <3>2. CASE new = 0
      <4>1. Counting' = Counting
        BY <1>9, <2>1, <2>2, <3>2 DEF Counting
      <4>. QED  BY <1>1, <1>2, <3>2, <4>1 DEF CountsInv, EventsInv
    <3>. QED  BY <3>1, <3>2
  <2>. QED  BY <1>2, <2>6, <2>7 DEF CountsInv, NoUnderflow
<1>. QED  BY <1>2, <1>8, <1>9

LEMMA StepCounts ==
    ASSUME TypeInv, CallInv, BytesInv, CountsInv, NEW t \in Threads, ~ResetAnyTime,
           HookStep(t) \/ BeginReset(t) \/ ResetStore(t)
    PROVE  CountsInv'
<1>1. UNCHANGED heap /\ Held' = Held
  BY StepEffect
<1>2. /\ pc \in [Threads -> PCs] /\ arg \in [Threads -> ArgType]
      /\ \A u \in Threads : /\ arg[u].old \in Nat /\ arg[u].new \in Nat
                            /\ Delta(u) \in Int
                            /\ Delta(u) = arg[u].new - arg[u].old
  BY ArgFacts
<1>3. \A u \in Threads \ {t} : pc'[u] = pc[u] /\ arg'[u] = arg[u]
  BY <1>2 DEF HookStep, CountEvent, AddTotal, AddCurrent, RaisePeak, AddLive,
       RaisePeakLive, Register, LeaveHook, SubCurrent, SubLive,
       BeginReset, ResetStore, Goto, DropGuard
<1>4. CallOK(t)
  BY DEF CallInv
<1>5. counters = [alloc_count |-> counters.alloc_count,
                  total_bytes |-> counters.total_bytes,
                  peak_bytes |-> counters.peak_bytes,
                  current_bytes |-> counters.current_bytes,
                  live_count |-> counters.live_count,
                  peak_live_count |-> counters.peak_live_count]
  BY PeakTypes
<1>6. /\ calls \in Nat /\ events \in Nat /\ calls <= MaxCalls /\ MaxCalls \in Nat
      /\ counters.alloc_count \in CounterVal /\ counters.live_count \in CounterVal
      /\ counters.alloc_count \in Nat /\ counters.live_count \in Nat
      /\ counters.current_bytes \in Nat /\ W \in Nat
  BY CallsAssumption, WidthAssumption DEF TypeInv, TypeOK, CounterVal
<1>7. /\ IsFiniteSet(Arrived) /\ IsFiniteSet(Leaving) /\ IsFiniteSet(Counting)
      /\ Cardinality(Arrived) \in Nat /\ Cardinality(Leaving) \in Nat
      /\ Cardinality(Counting) \in Nat
  BY CountSets, CountsFit
<1>8. CASE CountEvent(t)
  <2>1. /\ pc[t] = "alloc_count" /\ pc'[t] \in {"total_bytes", "current_sub", "register"}
        /\ pc'[t] = "register" => Delta(t) = 0
        /\ pc'[t] = "current_sub" => Delta(t) < 0
        /\ UNCHANGED <<arg, events, underflow, calls>>
        /\ counters'.alloc_count = (counters.alloc_count + 1) % W
        /\ counters'.live_count = counters.live_count
    BY <1>2, <1>5, <1>8 DEF CountEvent, Goto, Add, history
  <2>2. arg[t].new # 0 /\ (arg[t].old = 0 => pc'[t] = "total_bytes")
    BY <1>2, <1>4, <2>1 DEF CallOK
  <2>3. Arriving' = Arriving /\ Leaving' = Leaving
    BY <1>2, <1>3, <2>1, <2>2 DEF Arriving, Leaving
  <2>4. Counting' = Counting \ {t} /\ t \in Counting
    BY <1>3, <2>1 DEF Counting
  <2>5. Cardinality(Counting') = Cardinality(Counting) - 1
    BY <1>7, <2>4, FS_RemoveElement
  <2>6. Cardinality(Counting') \in Nat
    BY <1>7, <2>4, FS_RemoveElement, FS_CardinalityType
  <2>7. counters.alloc_count + 1 \in CounterVal
    BY <1>6, <1>7, <2>5, <2>6, FitsAssumption DEF CountsInv, EventsInv, CounterVal
  <2>8. counters'.alloc_count = counters.alloc_count + 1
    BY <2>1, <2>7, SmallMod
  <2>. QED  BY <1>1, <1>6, <1>7, <2>1, <2>3, <2>5, <2>8
            DEF CountsInv, LiveInv, EventsInv, NoUnderflow, Arrived
<1>9. CASE /\ counters'.live_count = counters.live_count
           /\ counters'.alloc_count = counters.alloc_count
           /\ Arriving' = Arriving /\ Leaving' = Leaving /\ Counting' = Counting
           /\ events' = events /\ calls' \in {calls, calls + 1}
           /\ underflow' = underflow
  <2>1. LiveInv'
    BY <1>1, <1>9 DEF CountsInv, LiveInv, Arrived
  <2>2. EventsInv'
    BY <1>6, <1>9 DEF CountsInv, EventsInv
  <2>. QED  BY <1>9, <2>1, <2>2 DEF CountsInv, NoUnderflow
<1>10. CASE AddTotal(t) \/ RaisePeak(t) \/ AddCurrent(t) \/ RaisePeakLive(t)
            \/ Register(t) \/ LeaveHook(t)
  <2>1. /\ counters'.live_count = counters.live_count
        /\ counters'.alloc_count = counters.alloc_count
        /\ UNCHANGED <<events, calls, underflow>>
    BY <1>5, <1>10 DEF AddTotal, RaisePeak, AddCurrent, RaisePeakLive, Register,
                       LeaveHook, Add, history
  <2>2. /\ pc[t] \notin {"alloc_count", "current_sub", "live_sub", "live_add"}
        /\ pc'[t] \notin {"alloc_count", "current_sub", "live_sub"}
    BY <1>2, <1>10 DEF AddTotal, RaisePeak, AddCurrent, RaisePeakLive, Register,
                       LeaveHook, Goto, DropGuard
  <2>3. Leaving' = Leaving /\ Counting' = Counting
    BY <1>3, <2>2 DEF Leaving, Counting
  <2>4. CASE LeaveHook(t) \/ RaisePeakLive(t) \/ Register(t)
    <3>1. /\ pc[t] \in {"event", "peak_live", "register"}
          /\ pc'[t] \in {"outside", "register", "event"}
      BY <1>2, <2>4 DEF LeaveHook, RaisePeakLive, Register, DropGuard, Goto
    <3>2. Arriving' = Arriving
      BY <1>3, <3>1 DEF Arriving
    <3>. QED  BY <1>6, <1>9, <2>1, <2>3, <3>2
  <2>5. CASE AddTotal(t) \/ RaisePeak(t) \/ AddCurrent(t)
    <3>1. /\ arg'[t].block = arg[t].block /\ arg'[t].old = arg[t].old
          /\ pc[t] \in {"total_bytes", "current_add", "peak_bytes"}
          /\ pc'[t] \in {"current_add", "peak_bytes", "live_add", "register"}
          /\ pc'[t] = "register" => arg[t].old # 0
      BY <1>2, <2>5 DEF AddTotal, RaisePeak, AddCurrent, Goto, IsAlloc, ArgType
    <3>2. Arriving' = Arriving
      BY <1>2, <1>3, <3>1 DEF Arriving
    <3>. QED  BY <1>6, <1>9, <2>1, <2>3, <3>2
  <2>. QED  BY <1>10, <2>4, <2>5
<1>11. CASE AddLive(t)
  <2>. DEFINE b == arg[t].block
  <2>1. /\ pc[t] = "live_add" /\ pc'[t] = "peak_live" /\ arg[t].old = 0
        /\ counters'.live_count = (counters.live_count + 1) % W
        /\ counters'.alloc_count = counters.alloc_count
        /\ UNCHANGED <<events, calls, underflow>>
    BY <1>2, <1>4, <1>5, <1>11 DEF AddLive, Goto, Add, CallOK
  <2>2. b \in Held /\ b # Program
    BY <1>4, <2>1, ProgramAssumption DEF CallOK, Held
  <2>3. \A u \in Threads \ {t} : arg[u].block # b
    BY <2>2 DEF CallInv, Distinct
  <2>4. b \in Arriving /\ Arriving' = Arriving \ {b}
    BY <1>3, <2>1, <2>3 DEF Arriving
  <2>5. b \notin Arrived /\ Arrived' = Arrived \union {b}
    BY <1>1, <2>2, <2>4 DEF Arrived
  <2>6. Leaving' = Leaving /\ Counting' = Counting
    BY <1>3, <2>1 DEF Leaving, Counting
  <2>7. Cardinality(Arrived') = Cardinality(Arrived) + 1
    BY <1>7, <2>5, FS_AddElement
  <2>8. Cardinality(Arrived') + Cardinality(Leaving') \in CounterVal
    <3>1. Arrived' \subseteq Blocks /\ Leaving' \subseteq Threads
      BY <2>2, <2>5, <2>6, CountSets DEF Held
    <3>. QED  BY <3>1, CountsFit
  <2>9. counters.live_count + 1 = Cardinality(Arrived') + Cardinality(Leaving')
    BY <1>7, <2>6, <2>7 DEF CountsInv, LiveInv
  <2>10. LiveInv'
    BY <2>1, <2>8, <2>9, SmallMod DEF LiveInv
  <2>. QED  BY <2>1, <2>6, <2>10 DEF CountsInv, EventsInv, NoUnderflow
<1>12. CASE SubCurrent(t)
  <2>1. /\ pc[t] = "current_sub"
        /\ pc'[t] = IF arg[t].new = 0 THEN "live_sub" ELSE "register"
        /\ UNCHANGED <<arg, events, calls>>
        /\ counters'.alloc_count = counters.alloc_count
        /\ counters'.live_count = counters.live_count
        /\ underflow' = (underflow \/ counters.current_bytes + Delta(t) < 0)
    BY <1>2, <1>5, <1>12 DEF SubCurrent, Goto, Sub, IsDealloc
  <2>2. Leaving' = Leaving /\ Counting' = Counting /\ Arriving' = Arriving
    BY <1>3, <2>1 DEF Leaving, Counting, Arriving
  <2>3. ~(counters.current_bytes + Delta(t) < 0)
    <3>1. Delta(t) < 0
      BY <1>4, <2>1 DEF CallOK
    <3>2. owed[t] = - Delta(t)
      BY <1>2, <2>1, <3>1 DEF owed, Owes
    <3>3. BytesBounded
      BY BytesFit
    <3>4. owed[t] <= SumOf(owed, Threads)
      BY <3>3, FiniteAssumption, SumMember DEF BytesBounded
    <3>5. SumOf(counted, Blocks) \in Nat /\ SumOf(owed, Threads) \in Nat
      BY <3>3 DEF BytesBounded
    <3>. QED  BY <1>2, <3>2, <3>4, <3>5 DEF BytesInv, BytesOwned
  <2>4. underflow' = underflow
    BY <2>1, <2>3 DEF TypeInv, TypeOK, CountsInv, NoUnderflow
  <2>. QED  BY <1>6, <1>9, <2>1, <2>2, <2>4
<1>13. CASE SubLive(t)
  <2>1. /\ pc[t] = "live_sub" /\ pc'[t] = "outside" /\ arg[t].new = 0
        /\ UNCHANGED <<events, calls>>
        /\ counters'.alloc_count = counters.alloc_count
        /\ counters'.live_count = (counters.live_count - 1) % W
        /\ underflow' = (underflow \/ counters.live_count = 0)
    BY <1>2, <1>4, <1>5, <1>13 DEF SubLive, DropGuard, Goto, Sub, CallOK
  <2>2. Counting' = Counting /\ Arriving' = Arriving
    BY <1>3, <2>1 DEF Counting, Arriving
  <2>3. t \in Leaving /\ Leaving' = Leaving \ {t}
    BY <1>3, <2>1 DEF Leaving
  <2>4. Cardinality(Leaving') = Cardinality(Leaving) - 1 /\ Cardinality(Leaving') \in Nat
    BY <1>7, <2>3, FS_RemoveElement, FS_CardinalityType
  <2>5. Arrived' = Arrived
    BY <1>1, <2>2 DEF Arrived
  <2>6. /\ counters.live_count # 0
        /\ counters.live_count - 1 = Cardinality(Arrived') + Cardinality(Leaving')
        /\ counters.live_count - 1 \in CounterVal
    BY <1>6, <1>7, <2>4, <2>5 DEF CountsInv, LiveInv, CounterVal
  <2>7. LiveInv'
    BY <2>1, <2>6, SmallMod DEF LiveInv
  <2>. QED  BY <2>1, <2>2, <2>6, <2>7 DEF CountsInv, EventsInv, NoUnderflow
<1>14. CASE BeginReset(t)
  <2>1. /\ UNCHANGED <<counters, arg, events, underflow>> /\ calls' = calls + 1
        /\ pc[t] = "outside" /\ pc'[t] = "reset"
    BY <1>2, <1>14 DEF BeginReset, Goto, history
  <2>2. Leaving' = Leaving /\ Counting' = Counting /\ Arriving' = Arriving
    BY <1>3, <2>1 DEF Leaving, Counting, Arriving
  <2>. QED  BY <1>6, <1>9, <2>1, <2>2
<1>15. CASE ResetStore(t)
  <2>1. /\ pc[t] = "reset" /\ pc'[t] \in {"reset", "outside"}
        /\ UNCHANGED <<arg, calls, underflow>>
    BY <1>2, <1>15 DEF ResetStore, Goto
  <2>2. Leaving' = Leaving /\ Counting' = Counting /\ Arriving' = Arriving
    BY <1>3, <2>1 DEF Leaving, Counting, Arriving
  <2>3. Held = {} /\ \A u \in Threads : pc[u] \in {"outside", "reset"}
    BY <2>1 DEF CallInv, ResetAlone
  <2>4. Arrived = {} /\ Leaving = {} /\ Counting = {}
    BY <2>3 DEF Arrived, Leaving, Counting
  <2>5. counters.live_count = 0
    BY <2>4, FS_EmptySet DEF CountsInv, LiveInv
  <2>6. /\ counters'.live_count = 0
        /\ \/ counters'.alloc_count = counters.alloc_count /\ events' = events
           \/ counters'.alloc_count = 0 /\ events' = 0
    <3>1. next_store[t] \in 1 .. 6
      BY DEF TypeInv, TypeOK
    <3>2. Order[next_store[t]] \in {"alloc_count", "total_bytes", "peak_bytes",
                                    "current_bytes", "live_count", "peak_live_count"}
      BY <3>1 DEF Order
    <3>3. /\ counters' = [counters EXCEPT ![Order[next_store[t]]] = 0]
          /\ events' = IF Order[next_store[t]] = "alloc_count" THEN 0 ELSE events
      BY <1>15 DEF ResetStore
    <3>. QED  BY <1>5, <2>5, <3>2, <3>3
  <2>7. /\ Arrived' = {} /\ Leaving' = {} /\ Counting' = {} /\ Cardinality({}) = 0
    BY <1>1, <2>2, <2>4, FS_EmptySet DEF Arrived
  <2>8. LiveInv'
    BY <2>6, <2>7 DEF LiveInv
  <2>9. EventsInv'
    BY <1>6, <2>1, <2>2, <2>4, <2>6, <2>7 DEF EventsInv, CountsInv
  <2>. QED  BY <2>1, <2>8, <2>9 DEF CountsInv, NoUnderflow
<1>. QED  BY <1>8, <1>10, <1>11, <1>12, <1>13, <1>14, <1>15 DEF HookStep

LEMMA InitCounts == Init => CountsInv
<1>. SUFFICES ASSUME Init PROVE CountsInv
  OBVIOUS
<1>1. Arrived = {} /\ Leaving = {} /\ Counting = {}
  BY DEF Init, Arrived, Held, Leaving, Counting
<1>. QED  BY <1>1, FS_EmptySet
          DEF Init, Zeros, CountsInv, LiveInv, EventsInv, NoUnderflow

-----------------------------------------------------------------------------
ExactInv == TypeInv /\ CallInv /\ BytesInv /\ CountsInv

LEMMA InitExact == Init => ExactInv
BY InitType, InitCallInv, InitBytes, InitCounts DEF ExactInv

LEMMA NextExact == ExactInv /\ ~ResetAnyTime /\ [Next]_vars => ExactInv'
<1>. SUFFICES ASSUME ExactInv, ~ResetAnyTime, [Next]_vars PROVE ExactInv'
  OBVIOUS
<1>1. TypeInv' /\ CallInv'
  BY NextType, NextCallInv DEF ExactInv
<1>2. CASE UNCHANGED vars
  <2>1. UNCHANGED <<counters, heap, holder, pc, arg, calls, events, underflow>>
    BY <1>2 DEF vars, history
  <2>2. counted' = counted /\ owed' = owed
    BY <2>1 DEF counted, owed, Held, Growing, Owes, Delta
  <2>3. BytesOwned' = BytesOwned
    BY <2>2 DEF BytesOwned
  <2>4. Arrived' = Arrived /\ Leaving' = Leaving /\ Counting' = Counting
    BY <2>1 DEF Arrived, Arriving, Held, Leaving, Counting
  <2>. QED  BY <1>1, <2>1, <2>3, <2>4
            DEF ExactInv, BytesInv, CountsInv, LiveInv, EventsInv, NoUnderflow
<1>. QED  BY <1>1, <1>2, CallBytes, StepBytes, CallCounts, StepCounts
          DEF ExactInv, Next, Rest

LEMMA BytesIsSum == \A S : Bytes(S) = SumOf(heap, S)
BY DEF Bytes, SumOf

LEMMA ExactInvAtRest == ExactInv => ExactAtRest
<1>. SUFFICES ASSUME ExactInv, AtRest
              PROVE  /\ counters.current_bytes = Bytes(Held)
                     /\ counters.live_count = Cardinality(Held)
                     /\ counters.alloc_count = events
  BY DEF ExactAtRest
<1>1. \A t \in Threads : pc[t] = "outside"
  BY DEF AtRest
<1>2. Growing = {} /\ Arriving = {} /\ Leaving = {} /\ Counting = {}
  BY <1>1 DEF Growing, Owes, Arriving, Leaving, Counting
<1>3. counters.current_bytes = SumOf(counted, Blocks) + SumOf(owed, Threads)
  BY DEF ExactInv, BytesInv, BytesOwned
<1>4. SumOf(owed, Threads) = 0
  <2>1. \A t \in Threads : owed[t] = 0
    BY <1>1 DEF owed, Owes
  <2>. QED  BY <2>1, FiniteAssumption, SumZero
<1>5. SumOf(heap, Held) = SumOf(counted, Blocks)
  <2>1. \A b \in Blocks : heap[b] \in Int
    BY ArgFacts DEF ExactInv
  <2>2. \A b \in Blocks : counted[b] = IF b \in Held THEN heap[b] ELSE 0
    BY <1>2 DEF counted
  <2>3. Held \in SUBSET Blocks
    BY DEF Held
  <2>. QED  BY <2>1, <2>2, <2>3, FiniteAssumption, SumMasked
<1>6. SumOf(counted, Blocks) \in Int
  BY BytesFit DEF ExactInv, BytesBounded
<1>7. counters.current_bytes = Bytes(Held)
  BY <1>3, <1>4, <1>5, <1>6, BytesIsSum
<1>8. Arrived = Held /\ Cardinality({}) = 0
  BY <1>2, FS_EmptySet DEF Arrived
<1>9. Cardinality(Held) \in Nat /\ counters.alloc_count \in Nat
  <2>1. Cardinality(Arrived) \in Nat
    BY CountSets, CountsFit
  <2>. QED  BY <1>8, <2>1 DEF ExactInv, TypeInv, TypeOK
<1>10. counters.live_count = Cardinality(Held) /\ counters.alloc_count = events
  BY <1>2, <1>8, <1>9 DEF ExactInv, CountsInv, LiveInv, EventsInv
<1>. QED  BY <1>7, <1>10

\* Whatever threads interleave, and whatever the hook allocates for itself: with
\* no call in progress the counters are exactly what the program holds and has
\* asked for (lib.rs:450-454, 560-576).
THEOREM CountersAreExact == ~ResetAnyTime => (Spec => []ExactAtRest)
<1>. SUFFICES ASSUME ~ResetAnyTime PROVE Spec => []ExactAtRest
  OBVIOUS
<1>1. ExactInv /\ [Next]_vars => ExactInv'
  BY NextExact
<1>. QED  BY <1>1, InitExact, ExactInvAtRest, PTL DEF Spec

\* No fetch_sub of a program that resets at rest goes below zero: what a call
\* takes away is still owned by it, whoever frees or adds in between
\* (lib.rs:275-278, 469-475, 505-509).
THEOREM NothingUnderflows == ~ResetAnyTime => (Spec => []NoUnderflow)
<1>. SUFFICES ASSUME ~ResetAnyTime PROVE Spec => []NoUnderflow
  OBVIOUS
<1>1. ExactInv /\ [Next]_vars => ExactInv'
  BY NextExact
<1>2. ExactInv => NoUnderflow
  BY DEF ExactInv, CountsInv
<1>. QED  BY <1>1, <1>2, InitExact, PTL DEF Spec

-----------------------------------------------------------------------------
(* The peaks cover what is held.                                             *)

\* Threads whose block is not yet covered by peak_bytes, and those that hold the
\* value they are about to raise it to.
Unraised == {u \in Threads : /\ pc[u] \in {"alloc_count", "total_bytes", "current_add",
                                           "peak_bytes"}
                             /\ Delta(u) > 0}
AtPeak == {u \in Threads : pc[u] = "peak_bytes"}

\* What would be covered if the threads of P raised the peak next.
Covered(P) == Held \ {arg[u].block : u \in Unraised \ P}

\* If any threads at the fetch_max went first, one of their values, or the peak
\* as it is, would cover the blocks of all of them and all that is covered now.
CoverInv ==
    Resetting = {} => \A P \in SUBSET AtPeak :
       \/ SumOf(heap, Covered(P)) <= counters.peak_bytes
       \/ \E t \in P : SumOf(heap, Covered(P)) <= arg[t].new_current

LEMMA SmallerSum ==
    ASSUME NEW g, NEW h, NEW S \in SUBSET Blocks, NEW T \in SUBSET Blocks, S \subseteq T,
           \A b \in Blocks : g[b] \in Nat /\ h[b] \in Nat,
           \A b \in S : g[b] <= h[b]
    PROVE  /\ SumOf(g, S) <= SumOf(h, T)
           /\ SumOf(g, S) \in Nat /\ SumOf(h, T) \in Nat
<1>1. IsFiniteSet(S) /\ IsFiniteSet(T)
  BY FiniteAssumption, FS_Subset
<1>2. SumOf(g, S) <= SumOf(h, S)
  BY <1>1, SumMonotone
<1>3. SumOf(h, S) <= SumOf(h, T)
  BY <1>1, SumSubset
<1>4. SumOf(g, S) \in Nat /\ SumOf(h, T) \in Nat /\ SumOf(h, S) \in Nat
  BY <1>1, SumNat
<1>. QED  BY <1>2, <1>3, <1>4

\* A step after which the threads of P cover no more than those of Q did before,
\* whose values are still there.
LEMMA CoverStep ==
    ASSUME TypeInv, TypeInv', NEW P, NEW Q,
           Covered(P)' \subseteq Covered(Q),
           \A b \in Covered(P)' : heap'[b] <= heap[b],
           counters.peak_bytes <= counters'.peak_bytes,
           \A t \in Q : \/ arg[t].new_current <= counters'.peak_bytes
                        \/ \E u \in P : arg[t].new_current = arg'[u].new_current,
           Q \subseteq Threads,
           \/ SumOf(heap, Covered(Q)) <= counters.peak_bytes
           \/ \E t \in Q : SumOf(heap, Covered(Q)) <= arg[t].new_current
    PROVE  \/ SumOf(heap', Covered(P)') <= counters'.peak_bytes
           \/ \E t \in P : SumOf(heap', Covered(P)') <= arg'[t].new_current
<1>1. /\ \A b \in Blocks : heap[b] \in Nat /\ heap'[b] \in Nat
      /\ counters.peak_bytes \in Int /\ counters'.peak_bytes \in Int
      /\ \A t \in Threads : arg[t].new_current \in Int
  <2>1. \A n \in Sizes \union {0} : n \in Nat
    BY SizesAreNat
  <2>2. \A b \in Blocks : heap[b] \in Sizes \union {0} /\ heap'[b] \in Sizes \union {0}
    BY DEF TypeInv, TypeOK
  <2>. QED  BY <2>1, <2>2 DEF TypeInv, TypeOK
<1>2. Covered(P)' \in SUBSET Blocks /\ Covered(Q) \in SUBSET Blocks
  BY DEF Covered, Held
<1>3. /\ SumOf(heap', Covered(P)') <= SumOf(heap, Covered(Q))
      /\ SumOf(heap', Covered(P)') \in Nat /\ SumOf(heap, Covered(Q)) \in Nat
  <2>. DEFINE g == heap'
              S == Covered(P)'
  <2>1. /\ S \in SUBSET Blocks /\ S \subseteq Covered(Q)
        /\ \A b \in Blocks : g[b] \in Nat /\ heap[b] \in Nat
        /\ \A b \in S : g[b] <= heap[b]
    BY <1>1, <1>2
  <2>. HIDE DEF g, S
  <2>2. /\ SumOf(g, S) <= SumOf(heap, Covered(Q))
        /\ SumOf(g, S) \in Nat /\ SumOf(heap, Covered(Q)) \in Nat
    BY <1>2, <2>1, SmallerSum
  <2>. QED  BY <2>2 DEF g, S
<1>. DEFINE s == SumOf(heap', Covered(P)')
            c == SumOf(heap, Covered(Q))
<1>4. s \in Int /\ c \in Int /\ s <= c
  BY <1>3
<1>. HIDE DEF s, c
<1>5. c <= counters.peak_bytes \/ \E t \in Q : c <= arg[t].new_current
  BY DEF c
<1>6. s <= counters'.peak_bytes \/ \E t \in P : s <= arg'[t].new_current
  <2>1. CASE c <= counters.peak_bytes
    BY <1>1, <1>4, <2>1
  <2>2. ASSUME NEW t \in Q, c <= arg[t].new_current
        PROVE  s <= counters'.peak_bytes \/ \E u \in P : s <= arg'[u].new_current
    <3>1. s <= arg[t].new_current /\ arg[t].new_current \in Int
      BY <1>1, <1>4, <2>2
    <3>2. CASE arg[t].new_current <= counters'.peak_bytes
      BY <1>1, <1>4, <3>1, <3>2
    <3>3. CASE \E u \in P : arg[t].new_current = arg'[u].new_current
      BY <3>1, <3>3
    <3>. QED  BY <3>2, <3>3
  <2>. QED  BY <1>5, <2>1, <2>2
<1>. QED  BY <1>6 DEF s

\* A step that changes no block, no peak and no thread's way to it.
LEMMA CoverStays ==
    ASSUME TypeInv, TypeInv', CoverInv, Resetting = {},
           heap' = heap, Held' = Held, Unraised' = Unraised, AtPeak' = AtPeak,
           \A u \in Unraised : arg'[u].block = arg[u].block,
           \A u \in AtPeak : arg'[u].new_current = arg[u].new_current,
           counters'.peak_bytes = counters.peak_bytes
    PROVE  CoverInv'
<1>. SUFFICES ASSUME NEW P \in SUBSET AtPeak
              PROVE  \/ SumOf(heap', Covered(P)') <= counters'.peak_bytes
                     \/ \E t \in P : SumOf(heap', Covered(P)') <= arg'[t].new_current
  BY DEF CoverInv
<1>1. Covered(P)' = Covered(P)
  BY DEF Covered
<1>2. heap' = heap /\ \A t \in P : arg'[t].new_current = arg[t].new_current
  OBVIOUS
<1>3. \/ SumOf(heap, Covered(P)) <= counters.peak_bytes
      \/ \E t \in P : SumOf(heap, Covered(P)) <= arg[t].new_current
  BY DEF CoverInv
<1>. QED  BY <1>1, <1>2, <1>3

\* All that would be covered if threads at the fetch_max went first is in
\* current_bytes already.
CurrentCovers ==
    \A P \in SUBSET AtPeak : SumOf(heap, Covered(P)) <= counters.current_bytes

LEMMA CurrentBound == TypeInv /\ CallInv /\ BytesInv => CurrentCovers
<1>. SUFFICES ASSUME TypeInv, CallInv, BytesInv, NEW P \in SUBSET AtPeak
              PROVE  SumOf(heap, Covered(P)) <= counters.current_bytes
  BY DEF CurrentCovers
<1>1. BytesBounded /\ \A b \in Blocks : heap[b] \in Nat
  BY BytesFit, ArgFacts
<1>2. Covered(P) \in SUBSET Blocks /\ Blocks \in SUBSET Blocks
  BY DEF Covered, Held
<1>3. Growing \subseteq {arg[u].block : u \in Unraised \ P}
  <2>1. ASSUME NEW u \in Threads, Owes(u), Delta(u) > 0
        PROVE  u \in Unraised \ P
    <3>1. pc[u] = "current_sub" => Delta(u) < 0
      BY DEF CallInv, CallOK
    <3>2. Delta(u) \in Int
      BY ArgFacts
    <3>3. pc[u] \in {"alloc_count", "total_bytes", "current_add"}
      BY <2>1, <3>1, <3>2 DEF Owes
    <3>. QED  BY <2>1, <3>3 DEF Unraised, AtPeak
  <2>. QED  BY <2>1 DEF Growing
<1>4. \A b \in Covered(P) : heap[b] <= counted[b]
  BY <1>1, <1>2, <1>3 DEF Covered, counted
<1>5. SumOf(heap, Covered(P)) <= SumOf(counted, Blocks)
  BY <1>1, <1>2, <1>4, SmallerSum DEF BytesBounded
<1>6. SumOf(heap, Covered(P)) \in Nat
  BY <1>1, <1>2, FiniteAssumption, FS_Subset, SumNat
<1>. QED  BY <1>1, <1>5, <1>6 DEF BytesInv, BytesOwned, BytesBounded

LEMMA CallCover ==
    ASSUME TypeInv, TypeInv', CallInv, CoverInv, ~ResetAnyTime, NEW t \in Threads,
           Alloc(t) \/ Dealloc(t) \/ Realloc(t)
    PROVE  CoverInv'
<1>1. PICK b \in Blocks, old \in Sizes \union {0}, new \in Sizes \union {0} :
         /\ Resized(t, b, old, new)
         /\ pc[t] = "outside" => Entered(t, b, old, new)
         /\ pc[t] = "event" => UNCHANGED <<IN_ALLOC, pc, arg>>
  BY CallEffect
<1>2. /\ pc[t] \in {"outside", "event"} /\ Resetting = {} /\ Program \notin Blocks
      /\ UNCHANGED counters /\ Program \notin Threads
  BY CallEffect, ProgramAssumption
<1>3. /\ pc \in [Threads -> PCs] /\ arg \in [Threads -> ArgType]
      /\ heap \in [Blocks -> Sizes \union {0}]
      /\ holder \in [Blocks -> Threads \union {Program}]
      /\ old \in Nat /\ new \in Nat /\ counters.peak_bytes \in Int
      /\ \A c \in Blocks : heap[c] \in Nat /\ heap'[c] \in Nat
  <2>1. \A c \in Blocks : heap'[c] \in Sizes \union {0}
    BY DEF TypeInv, TypeOK
  <2>2. \A n \in Sizes \union {0} : n \in Nat
    BY SizesAreNat
  <2>3. counters.peak_bytes \in Int
    BY DEF TypeInv, TypeOK
  <2>. QED  BY <2>1, <2>2, <2>3, ArgFacts
<1>4. /\ \A c \in Blocks \ {b} : heap'[c] = heap[c]
      /\ \A c \in Held' \ {b} : c \in Held
      /\ heap'[b] = new /\ heap[b] = old
      /\ b \in Held' => pc[t] = "outside" /\ new # 0 /\ (old # 0 => b \in Held)
  BY <1>1, <1>2, <1>3 DEF Resized, Held, Caller
<1>5. \A u \in Threads \ {t} : pc'[u] = pc[u] /\ arg'[u] = arg[u]
  BY <1>1, <1>2, <1>3 DEF Entered
<1>6. pc'[t] \in {"event", "alloc_count", "current_sub"}
  BY <1>1, <1>2, <1>3 DEF Entered
<1>7. AtPeak' = AtPeak
  BY <1>2, <1>5, <1>6 DEF AtPeak
<1>8. Unraised \subseteq Unraised' /\ t \notin Unraised
  BY <1>2, <1>5 DEF Unraised, Delta
<1>9. b \in Held' /\ (old = 0 \/ new > old) =>
         t \in Unraised' /\ arg'[t].block = b
  BY <1>1, <1>3, <1>4 DEF Entered, Unraised, Delta
<1>10. \A u \in Unraised : arg'[u].block = arg[u].block
  BY <1>5, <1>8 DEF Unraised
<1>11. SUFFICES ASSUME NEW P \in SUBSET AtPeak
                PROVE  \/ SumOf(heap', Covered(P)') <= counters'.peak_bytes
                       \/ \E u \in P : SumOf(heap', Covered(P)') <= arg'[u].new_current
  BY <1>7 DEF CoverInv
<1>12. t \notin P /\ P \subseteq Threads
  BY <1>2 DEF AtPeak
<1>13. \A c \in Covered(P)' : c \in Covered(P) /\ heap'[c] <= heap[c]
  <2>. SUFFICES ASSUME NEW c \in Covered(P)'
                PROVE  c \in Covered(P) /\ heap'[c] <= heap[c]
    OBVIOUS
  <2>1. c \in Held' /\ c \notin {arg'[u].block : u \in Unraised' \ P}
    BY DEF Covered
  <2>2. c \notin {arg[u].block : u \in Unraised \ P}
    BY <1>8, <1>10, <2>1
  <2>3. CASE c = b
    <3>1. old # 0 /\ ~(new > old)
      BY <1>9, <1>12, <2>1, <2>3
    <3>. QED  BY <1>3, <1>4, <2>1, <2>2, <2>3, <3>1 DEF Covered
  <2>4. CASE c # b
    <3>1. c \in Blocks
      BY <2>1 DEF Held
    <3>. QED  BY <1>3, <1>4, <2>1, <2>2, <2>4, <3>1 DEF Covered
  <2>. QED  BY <2>3, <2>4
<1>14. \A u \in P : arg[u].new_current = arg'[u].new_current
  BY <1>5, <1>12
<1>15. counters.peak_bytes <= counters'.peak_bytes
  BY <1>2, <1>3
<1>16. \/ SumOf(heap, Covered(P)) <= counters.peak_bytes
       \/ \E u \in P : SumOf(heap, Covered(P)) <= arg[u].new_current
  BY <1>2 DEF CoverInv
<1>. QED  BY <1>12, <1>13, <1>14, <1>15, <1>16, CoverStep

LEMMA StepCover ==
    ASSUME TypeInv, TypeInv', CallInv, CallInv', BytesInv', CoverInv,
           ~ResetAnyTime, NEW t \in Threads,
           HookStep(t) \/ BeginReset(t) \/ ResetStore(t)
    PROVE  CoverInv'
<1>1. UNCHANGED <<heap, holder>> /\ Held' = Held
  BY StepEffect
<1>2. /\ pc \in [Threads -> PCs] /\ arg \in [Threads -> ArgType]
      /\ \A u \in Threads : Delta(u) \in Int /\ Delta(u) = arg[u].new - arg[u].old
      /\ \A b \in Blocks : heap[b] \in Nat
  BY ArgFacts
<1>3. /\ DOMAIN counters = {"alloc_count", "total_bytes", "peak_bytes",
                            "current_bytes", "live_count", "peak_live_count"}
      /\ counters.peak_bytes \in Nat /\ counters'.peak_bytes \in Nat
      /\ \A u \in Threads : arg[u].new_current \in Int
  BY DEF TypeInv, TypeOK
<1>4. CallOK(t)
  BY DEF CallInv
<1>5. CASE CountEvent(t) \/ AddTotal(t) \/ Register(t) \/ SubCurrent(t)
           \/ RaisePeakLive(t)
  <2>1. /\ UNCHANGED arg /\ counters'.peak_bytes = counters.peak_bytes
        /\ \A u \in Threads \ {t} : pc'[u] = pc[u]
        /\ \/ pc[t] = "alloc_count" /\ pc'[t] = "total_bytes"
           \/ pc[t] = "alloc_count" /\ ~(Delta(t) > 0) /\ pc'[t] \in {"current_sub", "register"}
           \/ pc[t] = "total_bytes" /\ pc'[t] = "current_add"
           \/ /\ pc[t] \in {"register", "current_sub", "peak_live"}
              /\ pc'[t] \in {"event", "live_sub", "register"}
    BY <1>2, <1>3, <1>5 DEF CountEvent, AddTotal, Register, SubCurrent, RaisePeakLive,
                            Goto, Add, Sub
  <2>2. \A u \in Threads : Delta(u)' = Delta(u)
    BY <2>1 DEF Delta
  <2>3. Unraised' = Unraised /\ AtPeak' = AtPeak
    BY <2>1, <2>2 DEF Unraised, AtPeak
  <2>4. Resetting = {}
    BY <2>1 DEF CallInv, ResetAlone, Resetting
  <2>. QED  BY <1>1, <2>1, <2>3, <2>4, CoverStays
<1>6. CASE LeaveHook(t) \/ SubLive(t) \/ AddLive(t)
  <2>1. /\ \A u \in Threads \ {t} : pc'[u] = pc[u] /\ arg'[u] = arg[u]
        /\ counters'.peak_bytes = counters.peak_bytes
        /\ pc[t] \in {"event", "live_sub", "live_add"}
        /\ pc'[t] \in {"outside", "peak_live"}
    BY <1>2, <1>3, <1>6 DEF LeaveHook, SubLive, AddLive, DropGuard, Goto, Add, Sub
  <2>2. Unraised' = Unraised /\ AtPeak' = AtPeak /\ t \notin Unraised /\ t \notin AtPeak
    BY <2>1 DEF Unraised, AtPeak, Delta
  <2>3. Resetting = {}
    BY <2>1 DEF CallInv, ResetAlone, Resetting
  <2>4. /\ \A u \in Unraised : arg'[u].block = arg[u].block
        /\ \A u \in AtPeak : arg'[u].new_current = arg[u].new_current
    BY <2>1, <2>2 DEF Unraised, AtPeak
  <2>. QED  BY <1>1, <2>1, <2>2, <2>3, <2>4, CoverStays
<1>7. CASE AddCurrent(t)
  <2>1. /\ \A u \in Threads \ {t} : pc'[u] = pc[u] /\ arg'[u] = arg[u]
        /\ counters'.peak_bytes = counters.peak_bytes
        /\ pc[t] = "current_add" /\ pc'[t] = "peak_bytes"
        /\ arg'[t].block = arg[t].block /\ Delta(t)' = Delta(t)
        /\ arg'[t].new_current = counters'.current_bytes
    BY <1>2, <1>3, <1>7 DEF AddCurrent, Goto, Add, Delta, ArgType
  <2>2. Unraised' = Unraised /\ AtPeak' = AtPeak \union {t} /\ t \notin AtPeak
    BY <2>1 DEF Unraised, AtPeak, Delta
  <2>3. Resetting = {}
    BY <2>1 DEF CallInv, ResetAlone, Resetting
  <2>4. \A u \in Threads : arg'[u].block = arg[u].block
    BY <2>1
  <2>. SUFFICES ASSUME NEW P \in SUBSET (AtPeak \union {t})
                PROVE  \/ SumOf(heap', Covered(P)') <= counters'.peak_bytes
                       \/ \E u \in P : SumOf(heap', Covered(P)') <= arg'[u].new_current
    BY <2>2 DEF CoverInv
  <2>5. CASE t \in P
    <3>1. CurrentCovers'
      BY CurrentBound, PTL
    <3>2. SumOf(heap', Covered(P)') <= counters'.current_bytes
      BY <2>2, <3>1 DEF CurrentCovers
    <3>. QED  BY <2>1, <2>5, <3>2
  <2>6. CASE t \notin P
    <3>1. P \in SUBSET AtPeak /\ P \subseteq Threads
      BY <2>6 DEF AtPeak
    <3>2. Covered(P)' = Covered(P)
      BY <1>1, <2>2, <2>4 DEF Covered, Unraised
    <3>3. \/ SumOf(heap, Covered(P)) <= counters.peak_bytes
          \/ \E u \in P : SumOf(heap, Covered(P)) <= arg[u].new_current
      BY <2>3, <3>1 DEF CoverInv
    <3>4. \A u \in P : arg'[u].new_current = arg[u].new_current
      BY <2>1, <2>6, <3>1
    <3>. QED  BY <1>1, <2>1, <3>2, <3>3, <3>4
  <2>. QED  BY <2>5, <2>6
<1>8. CASE RaisePeak(t)
  <2>1. /\ \A u \in Threads \ {t} : pc'[u] = pc[u]
        /\ UNCHANGED arg
        /\ counters'.peak_bytes = Bigger(counters.peak_bytes, arg[t].new_current)
        /\ pc[t] = "peak_bytes" /\ pc'[t] \in {"live_add", "register"}
    BY <1>2, <1>3, <1>8 DEF RaisePeak, Goto
  <2>2. /\ counters.peak_bytes <= counters'.peak_bytes
        /\ arg[t].new_current <= counters'.peak_bytes
    BY <1>3, <2>1 DEF Bigger
  <2>3. Delta(t) > 0
    BY <1>4, <2>1 DEF CallOK
  <2>4. /\ Unraised' = Unraised \ {t} /\ AtPeak' = AtPeak \ {t}
        /\ t \in Unraised /\ t \in AtPeak
    BY <2>1, <2>3 DEF Unraised, AtPeak, Delta
  <2>5. Resetting = {}
    BY <2>1 DEF CallInv, ResetAlone, Resetting
  <2>. SUFFICES ASSUME NEW P \in SUBSET (AtPeak \ {t})
                PROVE  \/ SumOf(heap', Covered(P)') <= counters'.peak_bytes
                       \/ \E u \in P : SumOf(heap', Covered(P)') <= arg'[u].new_current
    BY <2>4 DEF CoverInv
  <2>. DEFINE Q == P \union {t}
  <2>6. Q \in SUBSET AtPeak /\ Q \subseteq Threads
    BY <2>4 DEF AtPeak
  <2>7. Covered(P)' \subseteq Covered(Q)
    BY <1>1, <2>1, <2>4 DEF Covered
  <2>8. \A b \in Covered(P)' : heap'[b] <= heap[b]
    BY <1>1, <1>2 DEF Covered, Held
  <2>9. \A u \in Q : \/ arg[u].new_current <= counters'.peak_bytes
                     \/ \E v \in P : arg[u].new_current = arg'[v].new_current
    BY <2>1, <2>2
  <2>10. \/ SumOf(heap, Covered(Q)) <= counters.peak_bytes
         \/ \E u \in Q : SumOf(heap, Covered(Q)) <= arg[u].new_current
    BY <2>5, <2>6 DEF CoverInv
  <2>. HIDE DEF Q
  <2>. QED  BY <2>2, <2>6, <2>7, <2>8, <2>9, <2>10, CoverStep
<1>9. CASE BeginReset(t)
  <2>1. t \in Resetting'
    BY <1>2, <1>9 DEF BeginReset, Goto, Resetting
  <2>. QED  BY <2>1 DEF CoverInv
<1>10. CASE ResetStore(t)
  <2>1. Held = {}
    BY <1>10 DEF ResetStore, CallInv, ResetAlone
  <2>2. \A P : Covered(P)' = {}
    BY <1>1, <2>1 DEF Covered
  <2>3. SumOf(heap', {}) = 0
    BY SumEmpty
  <2>4. \A P : SumOf(heap', Covered(P)') <= counters'.peak_bytes
    BY <1>3, <2>2, <2>3
  <2>. QED  BY <2>4 DEF CoverInv
<1>. QED  BY <1>5, <1>6, <1>7, <1>8, <1>9, <1>10 DEF HookStep

LEMMA InitCover == Init => CoverInv
<1>. SUFFICES ASSUME Init, NEW P PROVE SumOf(heap, Covered(P)) <= counters.peak_bytes
  BY DEF CoverInv
<1>1. Covered(P) = {}
  BY DEF Init, Covered, Held
<1>2. SumOf(heap, {}) = 0
  BY SumEmpty
<1>. QED  BY <1>1, <1>2 DEF Init, Zeros

\* The same for live_count and peak_live_count.
UnraisedLive == {u \in Threads : /\ pc[u] \in {"alloc_count", "total_bytes", "current_add",
                                               "peak_bytes", "live_add", "peak_live"}
                                 /\ arg[u].old = 0}
AtPeakLive == {u \in Threads : pc[u] = "peak_live"}

CoveredLive(P) == Held \ {arg[u].block : u \in UnraisedLive \ P}

CoverLiveInv ==
    Resetting = {} => \A P \in SUBSET AtPeakLive :
       \/ Cardinality(CoveredLive(P)) <= counters.peak_live_count
       \/ \E t \in P : Cardinality(CoveredLive(P)) <= arg[t].new_current

LEMMA SmallerCount ==
    ASSUME NEW S \in SUBSET Blocks, NEW T \in SUBSET Blocks, S \subseteq T
    PROVE  /\ Cardinality(S) <= Cardinality(T)
           /\ Cardinality(S) \in Nat /\ Cardinality(T) \in Nat
<1>1. IsFiniteSet(S) /\ IsFiniteSet(T)
  BY FiniteAssumption, FS_Subset
<1>. QED  BY <1>1, FS_Subset, FS_CardinalityType

LEMMA CoverLiveStep ==
    ASSUME TypeInv, TypeInv', NEW P, NEW Q,
           CoveredLive(P)' \subseteq CoveredLive(Q),
           counters.peak_live_count <= counters'.peak_live_count,
           \A t \in Q : \/ arg[t].new_current <= counters'.peak_live_count
                        \/ \E u \in P : arg[t].new_current = arg'[u].new_current,
           Q \subseteq Threads,
           \/ Cardinality(CoveredLive(Q)) <= counters.peak_live_count
           \/ \E t \in Q : Cardinality(CoveredLive(Q)) <= arg[t].new_current
    PROVE  \/ Cardinality(CoveredLive(P)') <= counters'.peak_live_count
           \/ \E t \in P : Cardinality(CoveredLive(P)') <= arg'[t].new_current
<1>1. /\ counters.peak_live_count \in Int /\ counters'.peak_live_count \in Int
      /\ \A t \in Threads : arg[t].new_current \in Int
  BY DEF TypeInv, TypeOK
<1>2. CoveredLive(P)' \in SUBSET Blocks /\ CoveredLive(Q) \in SUBSET Blocks
  BY DEF CoveredLive, Held
<1>. DEFINE s == Cardinality(CoveredLive(P)')
            c == Cardinality(CoveredLive(Q))
<1>3. s \in Int /\ c \in Int /\ s <= c
  BY <1>2, SmallerCount
<1>. HIDE DEF s, c
<1>4. c <= counters.peak_live_count \/ \E t \in Q : c <= arg[t].new_current
  BY DEF c
<1>5. s <= counters'.peak_live_count \/ \E t \in P : s <= arg'[t].new_current
  <2>1. CASE c <= counters.peak_live_count
    BY <1>1, <1>3, <2>1
  <2>2. ASSUME NEW t \in Q, c <= arg[t].new_current
        PROVE  s <= counters'.peak_live_count \/ \E u \in P : s <= arg'[u].new_current
    <3>1. s <= arg[t].new_current /\ arg[t].new_current \in Int
      BY <1>1, <1>3, <2>2
    <3>2. CASE arg[t].new_current <= counters'.peak_live_count
      BY <1>1, <1>3, <3>1, <3>2
    <3>3. CASE \E u \in P : arg[t].new_current = arg'[u].new_current
      BY <3>1, <3>3
    <3>. QED  BY <2>2, <3>2, <3>3
  <2>. QED  BY <1>4, <2>1, <2>2
<1>. QED  BY <1>5 DEF s

LEMMA CoverLiveStays ==
    ASSUME TypeInv, TypeInv', CoverLiveInv, Resetting = {},
           Held' = Held, UnraisedLive' = UnraisedLive, AtPeakLive' = AtPeakLive,
           \A u \in UnraisedLive : arg'[u].block = arg[u].block,
           \A u \in AtPeakLive : arg'[u].new_current = arg[u].new_current,
           counters'.peak_live_count = counters.peak_live_count
    PROVE  CoverLiveInv'
<1>. SUFFICES ASSUME NEW P \in SUBSET AtPeakLive
              PROVE  \/ Cardinality(CoveredLive(P)') <= counters'.peak_live_count
                     \/ \E t \in P : Cardinality(CoveredLive(P)') <= arg'[t].new_current
  BY DEF CoverLiveInv
<1>1. CoveredLive(P)' = CoveredLive(P)
  BY DEF CoveredLive
<1>2. \A t \in P : arg'[t].new_current = arg[t].new_current
  OBVIOUS
<1>3. \/ Cardinality(CoveredLive(P)) <= counters.peak_live_count
      \/ \E t \in P : Cardinality(CoveredLive(P)) <= arg[t].new_current
  BY DEF CoverLiveInv
<1>. QED  BY <1>1, <1>2, <1>3

LiveCovers ==
    \A P \in SUBSET AtPeakLive : Cardinality(CoveredLive(P)) <= counters.live_count

LEMMA LiveBound == LiveInv => LiveCovers
<1>. SUFFICES ASSUME LiveInv, NEW P \in SUBSET AtPeakLive
              PROVE  Cardinality(CoveredLive(P)) <= counters.live_count
  BY DEF LiveCovers
<1>1. Arriving \subseteq {arg[u].block : u \in UnraisedLive \ P}
  BY DEF Arriving, UnraisedLive, AtPeakLive
<1>2. CoveredLive(P) \subseteq Arrived /\ CoveredLive(P) \subseteq Blocks
  BY <1>1 DEF CoveredLive, Arrived, Held
<1>3. /\ Cardinality(CoveredLive(P)) <= Cardinality(Arrived)
      /\ Cardinality(CoveredLive(P)) \in Nat /\ Cardinality(Arrived) \in Nat
  BY <1>2, CountSets, SmallerCount
<1>4. Cardinality(Leaving) \in Nat
  BY CountSets, CountsFit
<1>. QED  BY <1>3, <1>4 DEF LiveInv

LEMMA CallCoverLive ==
    ASSUME TypeInv, TypeInv', CallInv, CoverLiveInv, ~ResetAnyTime, NEW t \in Threads,
           Alloc(t) \/ Dealloc(t) \/ Realloc(t)
    PROVE  CoverLiveInv'
<1>1. PICK b \in Blocks, old \in Sizes \union {0}, new \in Sizes \union {0} :
         /\ Resized(t, b, old, new)
         /\ pc[t] = "outside" => Entered(t, b, old, new)
         /\ pc[t] = "event" => UNCHANGED <<IN_ALLOC, pc, arg>>
  BY CallEffect
<1>2. /\ pc[t] \in {"outside", "event"} /\ Resetting = {} /\ Program \notin Blocks
      /\ UNCHANGED counters /\ Program \notin Threads
  BY CallEffect, ProgramAssumption
<1>3. /\ pc \in [Threads -> PCs] /\ arg \in [Threads -> ArgType]
      /\ heap \in [Blocks -> Sizes \union {0}]
      /\ holder \in [Blocks -> Threads \union {Program}]
      /\ old \in Nat /\ new \in Nat /\ counters.peak_live_count \in Int
  <2>1. counters.peak_live_count \in Int
    BY DEF TypeInv, TypeOK
  <2>2. \A n \in Sizes \union {0} : n \in Nat
    BY SizesAreNat
  <2>. QED  BY <2>1, <2>2, ArgFacts
<1>4. /\ \A c \in Held' \ {b} : c \in Held
      /\ b \in Held' => pc[t] = "outside" /\ new # 0 /\ (old # 0 => b \in Held)
  BY <1>1, <1>2, <1>3 DEF Resized, Held, Caller
<1>5. \A u \in Threads \ {t} : pc'[u] = pc[u] /\ arg'[u] = arg[u]
  BY <1>1, <1>2, <1>3 DEF Entered
<1>6. pc'[t] \in {"event", "alloc_count", "current_sub"}
  BY <1>1, <1>2, <1>3 DEF Entered
<1>7. AtPeakLive' = AtPeakLive
  BY <1>2, <1>5, <1>6 DEF AtPeakLive
<1>8. UnraisedLive \subseteq UnraisedLive' /\ t \notin UnraisedLive
  BY <1>2, <1>5 DEF UnraisedLive
<1>9. b \in Held' /\ old = 0 => t \in UnraisedLive' /\ arg'[t].block = b
  BY <1>1, <1>3, <1>4 DEF Entered, UnraisedLive
<1>10. \A u \in UnraisedLive : arg'[u].block = arg[u].block
  BY <1>5, <1>8 DEF UnraisedLive
<1>11. SUFFICES ASSUME NEW P \in SUBSET AtPeakLive
                PROVE  \/ Cardinality(CoveredLive(P)') <= counters'.peak_live_count
                       \/ \E u \in P : Cardinality(CoveredLive(P)') <= arg'[u].new_current
  BY <1>7 DEF CoverLiveInv
<1>12. t \notin P /\ P \subseteq Threads
  BY <1>2 DEF AtPeakLive
<1>13. CoveredLive(P)' \subseteq CoveredLive(P)
  <2>. SUFFICES ASSUME NEW c \in CoveredLive(P)'
                PROVE  c \in CoveredLive(P)
    OBVIOUS
  <2>1. c \in Held' /\ c \notin {arg'[u].block : u \in UnraisedLive' \ P}
    BY DEF CoveredLive
  <2>2. c \notin {arg[u].block : u \in UnraisedLive \ P}
    BY <1>8, <1>10, <2>1
  <2>3. c = b => old # 0
    BY <1>9, <1>12, <2>1
  <2>. QED  BY <1>4, <2>1, <2>2, <2>3 DEF CoveredLive
<1>14. \A u \in P : arg[u].new_current = arg'[u].new_current
  BY <1>5, <1>12
<1>15. counters.peak_live_count <= counters'.peak_live_count
  BY <1>2, <1>3
<1>16. \/ Cardinality(CoveredLive(P)) <= counters.peak_live_count
       \/ \E u \in P : Cardinality(CoveredLive(P)) <= arg[u].new_current
  BY <1>2 DEF CoverLiveInv
<1>. QED  BY <1>12, <1>13, <1>14, <1>15, <1>16, CoverLiveStep

LEMMA StepCoverLive ==
    ASSUME TypeInv, TypeInv', CallInv, CallInv', LiveInv', CoverLiveInv,
           ~ResetAnyTime, NEW t \in Threads,
           HookStep(t) \/ BeginReset(t) \/ ResetStore(t)
    PROVE  CoverLiveInv'
<1>1. UNCHANGED <<heap, holder>> /\ Held' = Held
  BY StepEffect
<1>2. /\ pc \in [Threads -> PCs] /\ arg \in [Threads -> ArgType]
      /\ \A u \in Threads : /\ Delta(u) \in Int /\ Delta(u) = arg[u].new - arg[u].old
                            /\ arg[u].new \in Nat
  BY ArgFacts
<1>3. /\ DOMAIN counters = {"alloc_count", "total_bytes", "peak_bytes",
                            "current_bytes", "live_count", "peak_live_count"}
      /\ counters.peak_live_count \in Nat /\ counters'.peak_live_count \in Nat
      /\ \A u \in Threads : arg[u].new_current \in Int
  BY DEF TypeInv, TypeOK
<1>4. CallOK(t)
  BY DEF CallInv
<1>5. CASE CountEvent(t) \/ AddTotal(t) \/ Register(t) \/ SubCurrent(t)
           \/ RaisePeak(t)
  <2>1. /\ UNCHANGED arg /\ counters'.peak_live_count = counters.peak_live_count
        /\ \A u \in Threads \ {t} : pc'[u] = pc[u]
        /\ \/ pc[t] = "alloc_count" /\ pc'[t] = "total_bytes"
           \/ pc[t] = "alloc_count" /\ ~(Delta(t) > 0) /\ pc'[t] \in {"current_sub", "register"}
           \/ pc[t] = "total_bytes" /\ pc'[t] = "current_add"
           \/ pc[t] = "peak_bytes" /\ pc'[t] = IF arg[t].old = 0 THEN "live_add" ELSE "register"
           \/ pc[t] \in {"register", "current_sub"} /\ pc'[t] \in {"event", "live_sub", "register"}
    BY <1>2, <1>3, <1>5 DEF CountEvent, AddTotal, Register, SubCurrent, RaisePeak,
                            Goto, Add, Sub, IsAlloc
  <2>2. pc[t] = "alloc_count" /\ arg[t].old = 0 => Delta(t) > 0
    BY <1>2, <1>4 DEF CallOK
  <2>3. UnraisedLive' = UnraisedLive /\ AtPeakLive' = AtPeakLive
    BY <2>1, <2>2 DEF UnraisedLive, AtPeakLive
  <2>4. Resetting = {}
    BY <2>1 DEF CallInv, ResetAlone, Resetting
  <2>. QED  BY <1>1, <2>1, <2>3, <2>4, CoverLiveStays
<1>6. CASE LeaveHook(t) \/ SubLive(t) \/ AddCurrent(t)
  <2>1. /\ \A u \in Threads \ {t} : pc'[u] = pc[u] /\ arg'[u] = arg[u]
        /\ counters'.peak_live_count = counters.peak_live_count
        /\ \/ pc[t] \in {"event", "live_sub"} /\ pc'[t] = "outside"
           \/ /\ pc[t] = "current_add" /\ pc'[t] = "peak_bytes"
              /\ arg'[t].block = arg[t].block /\ arg'[t].old = arg[t].old
    BY <1>2, <1>3, <1>6 DEF LeaveHook, SubLive, AddCurrent, DropGuard, Goto, Add, Sub, ArgType
  <2>2. UnraisedLive' = UnraisedLive /\ AtPeakLive' = AtPeakLive /\ t \notin AtPeakLive
    BY <2>1 DEF UnraisedLive, AtPeakLive
  <2>3. Resetting = {}
    BY <2>1 DEF CallInv, ResetAlone, Resetting
  <2>4. /\ \A u \in UnraisedLive : arg'[u].block = arg[u].block
        /\ \A u \in AtPeakLive : arg'[u].new_current = arg[u].new_current
    BY <2>1, <2>2 DEF UnraisedLive, AtPeakLive
  <2>. QED  BY <1>1, <2>1, <2>2, <2>3, <2>4, CoverLiveStays
<1>7. CASE AddLive(t)
  <2>1. /\ \A u \in Threads \ {t} : pc'[u] = pc[u] /\ arg'[u] = arg[u]
        /\ counters'.peak_live_count = counters.peak_live_count
        /\ pc[t] = "live_add" /\ pc'[t] = "peak_live"
        /\ arg'[t].block = arg[t].block /\ arg'[t].old = arg[t].old
        /\ arg'[t].new_current = counters'.live_count
    BY <1>2, <1>3, <1>7 DEF AddLive, Goto, Add, ArgType
  <2>2. /\ UnraisedLive' = UnraisedLive /\ AtPeakLive' = AtPeakLive \union {t}
        /\ t \notin AtPeakLive
    BY <2>1 DEF UnraisedLive, AtPeakLive
  <2>3. Resetting = {}
    BY <2>1 DEF CallInv, ResetAlone, Resetting
  <2>4. \A u \in Threads : arg'[u].block = arg[u].block
    BY <2>1
  <2>. SUFFICES ASSUME NEW P \in SUBSET (AtPeakLive \union {t})
                PROVE  \/ Cardinality(CoveredLive(P)') <= counters'.peak_live_count
                       \/ \E u \in P : Cardinality(CoveredLive(P)') <= arg'[u].new_current
    BY <2>2 DEF CoverLiveInv
  <2>5. CASE t \in P
    <3>1. LiveCovers'
      BY LiveBound, PTL
    <3>2. Cardinality(CoveredLive(P)') <= counters'.live_count
      BY <2>2, <3>1 DEF LiveCovers
    <3>. QED  BY <2>1, <2>5, <3>2
  <2>6. CASE t \notin P
    <3>1. P \in SUBSET AtPeakLive /\ P \subseteq Threads
      BY <2>6 DEF AtPeakLive
    <3>2. CoveredLive(P)' = CoveredLive(P)
      BY <1>1, <2>2, <2>4 DEF CoveredLive, UnraisedLive
    <3>3. \/ Cardinality(CoveredLive(P)) <= counters.peak_live_count
          \/ \E u \in P : Cardinality(CoveredLive(P)) <= arg[u].new_current
      BY <2>3, <3>1 DEF CoverLiveInv
    <3>4. \A u \in P : arg'[u].new_current = arg[u].new_current
      BY <2>1, <2>6, <3>1
    <3>. QED  BY <2>1, <3>2, <3>3, <3>4
  <2>. QED  BY <2>5, <2>6
<1>8. CASE RaisePeakLive(t)
  <2>1. /\ \A u \in Threads \ {t} : pc'[u] = pc[u]
        /\ UNCHANGED arg
        /\ counters'.peak_live_count = Bigger(counters.peak_live_count, arg[t].new_current)
        /\ pc[t] = "peak_live" /\ pc'[t] = "register"
    BY <1>2, <1>3, <1>8 DEF RaisePeakLive, Goto
  <2>2. /\ counters.peak_live_count <= counters'.peak_live_count
        /\ arg[t].new_current <= counters'.peak_live_count
    BY <1>3, <2>1 DEF Bigger
  <2>3. arg[t].old = 0
    BY <1>4, <2>1 DEF CallOK
  <2>4. /\ UnraisedLive' = UnraisedLive \ {t} /\ AtPeakLive' = AtPeakLive \ {t}
        /\ t \in UnraisedLive /\ t \in AtPeakLive
    BY <2>1, <2>3 DEF UnraisedLive, AtPeakLive
  <2>5. Resetting = {}
    BY <2>1 DEF CallInv, ResetAlone, Resetting
  <2>. SUFFICES ASSUME NEW P \in SUBSET (AtPeakLive \ {t})
                PROVE  \/ Cardinality(CoveredLive(P)') <= counters'.peak_live_count
                       \/ \E u \in P : Cardinality(CoveredLive(P)') <= arg'[u].new_current
    BY <2>4 DEF CoverLiveInv
  <2>. DEFINE Q == P \union {t}
  <2>6. Q \in SUBSET AtPeakLive /\ Q \subseteq Threads
    BY <2>4 DEF AtPeakLive
  <2>7. CoveredLive(P)' \subseteq CoveredLive(Q)
    BY <1>1, <2>1, <2>4 DEF CoveredLive
  <2>8. \A u \in Q : \/ arg[u].new_current <= counters'.peak_live_count
                     \/ \E v \in P : arg[u].new_current = arg'[v].new_current
    BY <2>1, <2>2
  <2>9. \/ Cardinality(CoveredLive(Q)) <= counters.peak_live_count
        \/ \E u \in Q : Cardinality(CoveredLive(Q)) <= arg[u].new_current
    BY <2>5, <2>6 DEF CoverLiveInv
  <2>. HIDE DEF Q
  <2>. QED  BY <2>2, <2>6, <2>7, <2>8, <2>9, CoverLiveStep
<1>9. CASE BeginReset(t)
  <2>1. t \in Resetting'
    BY <1>2, <1>9 DEF BeginReset, Goto, Resetting
  <2>. QED  BY <2>1 DEF CoverLiveInv
<1>10. CASE ResetStore(t)
  <2>1. Held = {}
    BY <1>10 DEF ResetStore, CallInv, ResetAlone
  <2>2. \A P : Cardinality(CoveredLive(P)') <= counters'.peak_live_count
    BY <1>1, <1>3, <2>1, FS_EmptySet DEF CoveredLive
  <2>. QED  BY <2>2 DEF CoverLiveInv
<1>. QED  BY <1>5, <1>6, <1>7, <1>8, <1>9, <1>10 DEF HookStep

LEMMA InitCoverLive == Init => CoverLiveInv
<1>. SUFFICES ASSUME Init, NEW P PROVE Cardinality(CoveredLive(P)) <= counters.peak_live_count
  BY DEF CoverLiveInv
<1>1. CoveredLive(P) = {}
  BY DEF Init, CoveredLive, Held
<1>. QED  BY <1>1, FS_EmptySet DEF Init, Zeros

-----------------------------------------------------------------------------
PeaksInv == ExactInv /\ CoverInv /\ CoverLiveInv

LEMMA NextPeaks == PeaksInv /\ ~ResetAnyTime /\ [Next]_vars => PeaksInv'
<1>. SUFFICES ASSUME PeaksInv, ~ResetAnyTime, [Next]_vars PROVE PeaksInv'
  OBVIOUS
<1>1. ExactInv'
  BY NextExact DEF PeaksInv
<1>2. CASE UNCHANGED vars
  <2>1. UNCHANGED <<counters, heap, holder, pc, arg>>
    BY <1>2 DEF vars
  <2>2. /\ heap' = heap /\ Held' = Held /\ Unraised' = Unraised /\ AtPeak' = AtPeak
        /\ UnraisedLive' = UnraisedLive /\ AtPeakLive' = AtPeakLive
        /\ Resetting' = Resetting
    BY <2>1 DEF Held, Unraised, AtPeak, UnraisedLive, AtPeakLive, Resetting, Delta
  <2>3. \A P : Covered(P)' = Covered(P) /\ CoveredLive(P)' = CoveredLive(P)
    BY <2>1, <2>2 DEF Covered, CoveredLive
  <2>. QED  BY <1>1, <2>1, <2>2, <2>3 DEF PeaksInv, CoverInv, CoverLiveInv
<1>3. ASSUME NEW t \in Threads, Alloc(t) \/ Dealloc(t) \/ Realloc(t)
      PROVE  CoverInv' /\ CoverLiveInv'
  BY <1>1, <1>3, CallCover, CallCoverLive DEF PeaksInv, ExactInv
<1>4. ASSUME NEW t \in Threads, HookStep(t) \/ BeginReset(t) \/ ResetStore(t)
      PROVE  CoverInv' /\ CoverLiveInv'
  BY <1>1, <1>4, StepCover, StepCoverLive DEF PeaksInv, ExactInv, CountsInv
<1>. QED  BY <1>1, <1>2, <1>3, <1>4 DEF PeaksInv, Next, Rest

LEMMA PeaksInvCovers == PeaksInv => PeakCoversHeld
<1>. SUFFICES ASSUME PeaksInv, Resetting = {}
              PROVE  /\ Bytes(Held \ InFlight) <= counters.peak_bytes
                     /\ Cardinality(Held \ InFlight) <= counters.peak_live_count
  BY DEF PeakCoversHeld
<1>1. /\ Held \ InFlight \subseteq Covered({}) /\ Covered({}) \in SUBSET Blocks
      /\ Held \ InFlight \subseteq CoveredLive({}) /\ CoveredLive({}) \in SUBSET Blocks
      /\ Held \ InFlight \in SUBSET Blocks
  BY DEF Covered, CoveredLive, InFlight, Held, Unraised, UnraisedLive
<1>2. /\ SumOf(heap, Covered({})) <= counters.peak_bytes
      /\ Cardinality(CoveredLive({})) <= counters.peak_live_count
  BY DEF PeaksInv, CoverInv, CoverLiveInv
<1>3. \A b \in Blocks : heap[b] \in Nat /\ heap[b] <= heap[b]
  BY ArgFacts DEF PeaksInv, ExactInv
<1>4. /\ SumOf(heap, Held \ InFlight) <= SumOf(heap, Covered({}))
      /\ SumOf(heap, Held \ InFlight) \in Nat /\ SumOf(heap, Covered({})) \in Nat
  <2>. HIDE DEF Held, InFlight
  <2>1. \A b \in Held \ InFlight : heap[b] <= heap[b]
    BY <1>1, <1>3
  <2>. QED  BY <1>1, <1>3, <2>1, SmallerSum
<1>5. /\ Cardinality(Held \ InFlight) <= Cardinality(CoveredLive({}))
      /\ Cardinality(Held \ InFlight) \in Nat /\ Cardinality(CoveredLive({})) \in Nat
  BY <1>1, SmallerCount
<1>6. counters.peak_bytes \in Nat /\ counters.peak_live_count \in Nat
  BY DEF PeaksInv, ExactInv, TypeInv, TypeOK
<1>7. Bytes(Held \ InFlight) = SumOf(heap, Held \ InFlight)
  BY BytesIsSum
<1>. QED  BY <1>2, <1>4, <1>5, <1>6, <1>7

\* Whatever calls are in progress, and in whatever order they reach their
\* fetch_max: the peaks are no less than what the program holds in blocks whose
\* calls have returned (lib.rs:565-576).
THEOREM PeaksCoverHeld == ~ResetAnyTime => (Spec => []PeakCoversHeld)
<1>. SUFFICES ASSUME ~ResetAnyTime PROVE Spec => []PeakCoversHeld
  OBVIOUS
<1>1. PeaksInv /\ [Next]_vars => PeaksInv'
  BY NextPeaks
<1>2. Init => PeaksInv
  BY InitExact, InitCover, InitCoverLive DEF PeaksInv
<1>. QED  BY <1>1, <1>2, PeaksInvCovers, PTL DEF Spec

-----------------------------------------------------------------------------
(* Profiler: the program's calls begin, and return, under its snapshots.     *)

\* Calls of the program that have begun and not returned.
InProgress == {t \in Threads : /\ pc[t] \notin {"outside", "reset"}
                               /\ ~IsDealloc(t)}

\* No call of the program has returned before the handle is registered.
UnregisteredInv == ~GLOBAL_HANDLE => Completed = 0

LEMMA CompletedIs == Completed = events - Cardinality(InProgress)
BY DEF Completed, InProgress

LEMMA CompletedNext == Completed' = events' - Cardinality(InProgress')
BY DEF Completed, InProgress

LEMMA InProgressSize ==
    /\ InProgress \subseteq Threads /\ InProgress' \subseteq Threads
    /\ IsFiniteSet(InProgress) /\ IsFiniteSet(InProgress')
    /\ Cardinality(InProgress) \in Nat /\ Cardinality(InProgress') \in Nat
<1>1. InProgress \subseteq Threads /\ InProgress' \subseteq Threads
  BY DEF InProgress
<1>. QED  BY <1>1, FiniteAssumption, FS_Subset, FS_CardinalityType

\* alloc_count has every event that has returned, and none that has not begun.
LEMMA CompletedIsCounted ==
    ASSUME ExactInv
    PROVE  /\ Completed \in Int /\ events \in Nat /\ counters.alloc_count \in Nat
           /\ Completed <= counters.alloc_count /\ counters.alloc_count <= events
<1>1. events \in Nat /\ counters.alloc_count \in Nat
  BY DEF ExactInv, TypeInv, TypeOK
<1>2. Counting \subseteq InProgress
  <2>1. ASSUME NEW t \in Counting PROVE t \in InProgress
    <3>1. t \in Threads /\ pc[t] = "alloc_count" /\ CallOK(t)
      BY DEF Counting, ExactInv, CallInv
    <3>2. IN_ALLOC[t]
      BY <3>1 DEF CallOK
    <3>. QED  BY <3>1, <3>2 DEF CallOK, InProgress, IsDealloc
  <2>. QED  BY <2>1
<1>3. Cardinality(Counting) <= Cardinality(InProgress) /\ Cardinality(Counting) \in Nat
  BY <1>2, InProgressSize, FS_Subset, FS_CardinalityType
<1>4. events = counters.alloc_count + Cardinality(Counting)
  BY DEF ExactInv, CountsInv, EventsInv
<1>. QED  BY <1>1, <1>3, <1>4, CompletedIs, InProgressSize

LEMMA CallProgress ==
    ASSUME TypeInv, CallInv, NEW t \in Threads,
           Alloc(t) \/ Dealloc(t) \/ Realloc(t)
    PROVE  Completed' = Completed /\ events <= events' /\ UNCHANGED GLOBAL_HANDLE
<1>1. PICK b \in Blocks, old \in Sizes \union {0}, new \in Sizes \union {0} :
         /\ pc[t] = "outside" => Entered(t, b, old, new)
         /\ pc[t] = "event" => UNCHANGED <<IN_ALLOC, pc, arg>>
         /\ events' = IF new # 0 /\ pc[t] = "outside" THEN events + 1 ELSE events
  BY CallEffect
<1>2. pc[t] \in {"outside", "event"} /\ events \in Nat
  BY CallEffect DEF TypeInv, TypeOK
<1>3. pc \in [Threads -> PCs] /\ arg \in [Threads -> ArgType]
  BY ArgFacts
<1>4. UNCHANGED GLOBAL_HANDLE
  BY DEF Alloc, Dealloc, Realloc
<1>5. CASE pc[t] = "event"
  <2>1. InProgress' = InProgress /\ events' = events
    BY <1>1, <1>5 DEF InProgress, IsDealloc
  <2>. QED  BY <1>2, <1>4, <2>1, CompletedIs, CompletedNext, InProgressSize
<1>6. CASE pc[t] = "outside"
  <2>1. /\ pc'[t] = IF new = 0 THEN "current_sub" ELSE "alloc_count"
        /\ arg'[t].new = new
        /\ \A u \in Threads \ {t} : pc'[u] = pc[u] /\ arg'[u] = arg[u]
    BY <1>1, <1>3, <1>6 DEF Entered
  <2>2. t \notin InProgress
    BY <1>6 DEF InProgress
  <2>3. CASE new = 0
    <3>1. InProgress' = InProgress
      BY <2>1, <2>2, <2>3 DEF InProgress, IsDealloc
    <3>. QED  BY <1>1, <1>2, <1>4, <2>3, <3>1, CompletedIs, CompletedNext, InProgressSize
  <2>4. CASE new # 0
    <3>1. InProgress' = InProgress \union {t}
      BY <2>1, <2>2, <2>4 DEF InProgress, IsDealloc
    <3>2. Cardinality(InProgress') = Cardinality(InProgress) + 1
      BY <2>2, <3>1, InProgressSize, FS_AddElement
    <3>. QED  BY <1>1, <1>2, <1>4, <1>6, <2>4, <3>2, CompletedIs, CompletedNext,
                 InProgressSize
  <2>. QED  BY <2>3, <2>4
<1>. QED  BY <1>2, <1>5, <1>6

LEMMA StepProgress ==
    ASSUME TypeInv, CallInv, HandleInv, UnregisteredInv, NEW t \in Threads,
           HookStep(t) \/ BeginReset(t) \/ ResetStore(t)
    PROVE  /\ pc[t] # "reset" => Completed <= Completed' /\ events <= events'
           /\ UnregisteredInv'
<1>1. /\ pc \in [Threads -> PCs] /\ arg \in [Threads -> ArgType]
      /\ events \in Nat /\ CallOK(t)
  BY ArgFacts DEF TypeInv, TypeOK, CallInv
<1>2. CASE LeaveHook(t)
  <2>1. /\ pc[t] = "event" /\ GLOBAL_HANDLE /\ arg[t].new # 0
        /\ UNCHANGED <<GLOBAL_HANDLE, events>>
    BY <1>1, <1>2 DEF LeaveHook, HandleInv, CallOK, history
  <2>2. /\ pc'[t] = "outside"
        /\ \A u \in Threads \ {t} : pc'[u] = pc[u] /\ arg'[u] = arg[u]
    BY <1>1, <1>2 DEF LeaveHook, DropGuard, Goto
  <2>3. InProgress' = InProgress \ {t} /\ t \in InProgress
    BY <2>1, <2>2 DEF InProgress, IsDealloc
  <2>4. Cardinality(InProgress') = Cardinality(InProgress) - 1
    BY <2>3, InProgressSize, FS_RemoveElement
  <2>. QED  BY <1>1, <2>1, <2>4, CompletedIs, CompletedNext, InProgressSize
            DEF UnregisteredInv
<1>3. CASE ResetStore(t)
  <2>1. pc[t] = "reset" /\ events' \in {0, events} /\ UNCHANGED <<GLOBAL_HANDLE, arg>>
    BY <1>3 DEF ResetStore
  <2>2. pc'[t] \in {"reset", "outside"} /\ \A u \in Threads \ {t} : pc'[u] = pc[u]
    BY <1>1, <1>3 DEF ResetStore, Goto
  <2>3. \A u \in Threads \ {t} : pc[u] = "outside"
    BY <2>1 DEF CallInv, ResetAlone
  <2>4. InProgress = {} /\ InProgress' = {}
    BY <2>1, <2>2, <2>3 DEF InProgress
  <2>5. Cardinality({}) = 0
    BY FS_EmptySet
  <2>. QED  BY <1>1, <2>1, <2>4, <2>5, CompletedIs, CompletedNext DEF UnregisteredInv
<1>4. CASE SubLive(t)
  <2>1. arg[t].new = 0 /\ UNCHANGED <<GLOBAL_HANDLE, events>>
    BY <1>1, <1>4 DEF SubLive, CallOK
  <2>2. /\ pc'[t] = "outside"
        /\ \A u \in Threads \ {t} : pc'[u] = pc[u] /\ arg'[u] = arg[u]
    BY <1>1, <1>4 DEF SubLive, DropGuard, Goto
  <2>3. InProgress' = InProgress
    BY <2>1, <2>2 DEF InProgress, IsDealloc
  <2>. QED  BY <1>1, <2>1, <2>3, CompletedIs, CompletedNext, InProgressSize
            DEF UnregisteredInv
<1>5. ASSUME \/ CountEvent(t) \/ AddTotal(t) \/ AddCurrent(t) \/ RaisePeak(t)
             \/ AddLive(t) \/ RaisePeakLive(t) \/ Register(t) \/ SubCurrent(t)
             \/ BeginReset(t)
      PROVE  /\ pc[t] # "reset" => Completed <= Completed' /\ events <= events'
             /\ UnregisteredInv'
  <2>1. events' = events /\ (GLOBAL_HANDLE => GLOBAL_HANDLE')
    BY <1>5 DEF CountEvent, AddTotal, AddCurrent, RaisePeak, AddLive, RaisePeakLive,
                Register, SubCurrent, BeginReset, history
  <2>2. /\ pc[t] \in {"outside", "reset"} <=> pc'[t] \in {"outside", "reset"}
        /\ \A u \in Threads \ {t} : pc'[u] = pc[u]
    BY <1>1, <1>5
       DEF CountEvent, AddTotal, AddCurrent, RaisePeak, AddLive, RaisePeakLive,
           Register, SubCurrent, BeginReset, Goto
  <2>3. \A u \in Threads : arg'[u].new = arg[u].new
    BY <1>1, <1>5
       DEF CountEvent, AddTotal, AddCurrent, RaisePeak, AddLive, RaisePeakLive,
           Register, SubCurrent, BeginReset, ArgType
  <2>4. InProgress' = InProgress
    BY <2>2, <2>3 DEF InProgress, IsDealloc
  <2>. QED  BY <1>1, <2>1, <2>4, CompletedIs, CompletedNext, InProgressSize
            DEF UnregisteredInv
<1>. QED  BY <1>2, <1>3, <1>4, <1>5 DEF HookStep

\* What a snapshot relies on while the program goes on.
ProgramInv == PeaksInv /\ HandleInv /\ HolderIsRegistered /\ UnregisteredInv

LEMMA InitProgram == Init => ProgramInv
<1>. SUFFICES ASSUME Init PROVE ProgramInv
  OBVIOUS
<1>1. PeaksInv
  BY InitExact, InitCover, InitCoverLive DEF PeaksInv
<1>2. HandleInv /\ HolderIsRegistered
  BY DEF Init, HandleInv, HolderIsRegistered, Held, NoArg
<1>3. InProgress = {} /\ events = 0 /\ Cardinality({}) = 0
  BY FS_EmptySet DEF Init, InProgress
<1>. QED  BY <1>1, <1>2, <1>3, CompletedIs DEF ProgramInv, UnregisteredInv

LEMMA NextProgram ==
    ASSUME ProgramInv, ~ResetAnyTime, [Next]_vars
    PROVE  /\ ProgramInv'
           /\ Resetting = {} => Completed <= Completed' /\ events <= events'
<1>1. PeaksInv' /\ TypeInv /\ CallInv
  BY NextPeaks DEF ProgramInv, PeaksInv, ExactInv
<1>2. Completed \in Int /\ events \in Nat
  BY CompletedIsCounted DEF ProgramInv, PeaksInv
<1>3. CASE UNCHANGED vars
  <2>1. UNCHANGED <<events, pc, arg, heap, holder, IN_ALLOC, GLOBAL_HANDLE>>
    BY <1>3 DEF vars, history
  <2>2. HandleInv' /\ HolderIsRegistered' /\ InProgress' = InProgress
    BY <2>1 DEF ProgramInv, HandleInv, HolderIsRegistered, Held, InFlight, InProgress,
                IsDealloc
  <2>. QED  BY <1>1, <1>2, <2>1, <2>2, CompletedIs, CompletedNext
            DEF ProgramInv, UnregisteredInv
<1>4. ASSUME NEW t \in Threads, Alloc(t) \/ Dealloc(t) \/ Realloc(t)
      PROVE  /\ HandleInv' /\ HolderIsRegistered' /\ UnregisteredInv'
             /\ Completed <= Completed' /\ events <= events'
  BY <1>1, <1>2, <1>4, CallHandle, CallProgress DEF ProgramInv, UnregisteredInv
<1>5. ASSUME NEW t \in Threads, HookStep(t) \/ BeginReset(t) \/ ResetStore(t)
      PROVE  /\ HandleInv' /\ HolderIsRegistered' /\ UnregisteredInv'
             /\ Resetting = {} => Completed <= Completed' /\ events <= events'
  <2>1. HandleInv' /\ HolderIsRegistered'
    BY <1>1, <1>5, OtherHandle DEF ProgramInv
  <2>2. Resetting = {} => pc[t] # "reset"
    BY DEF Resetting
  <2>. QED  BY <1>1, <1>5, <2>1, <2>2, StepProgress DEF ProgramInv
<1>. QED  BY <1>1, <1>3, <1>4, <1>5 DEF Next, Rest, ProgramInv

-----------------------------------------------------------------------------
StatsType == [alloc_count : CounterVal, total_bytes : CounterVal,
              peak_bytes : CounterVal, current_bytes : CounterVal,
              live_count : CounterVal, peak_live_count : CounterVal]
HeapType == [total_blocks : CounterVal, total_bytes : CounterVal,
             curr_blocks : CounterVal, curr_bytes : CounterVal,
             max_blocks : CounterVal, max_bytes : CounterVal]
WindowType == [start_done : Int, start_begun : Int, stop_done : Int, stop_begun : Int,
               held : Int, live : Int, quiet : BOOLEAN]

ProfilerTypes ==
    /\ stage \in {"none", "start", "window", "stop", "stopped", "get", "got"}
    /\ next_load \in 0 .. 6
    /\ loaded \in StatsType /\ baseline \in StatsType /\ delta \in StatsType
    /\ heap_stats \in HeapType
    /\ window \in WindowType

\* A snapshot is being taken for start(), stop() or get(), that was called when
\* so many calls had returned.
Snapping == stage \in {"start", "stop", "get"}
Started  == IF stage = "stop" THEN window.stop_done ELSE window.start_done

\* While it is taken it has every event that had returned then, and, if nothing
\* moves, the counters as they are.
SnapshotInv ==
    Snapping =>
       /\ Started <= Completed
       /\ next_load >= 2 => Started <= loaded.alloc_count /\ loaded.alloc_count <= events
       /\ window.quiet =>
             /\ AtRest
             /\ \A k \in 1 .. 6 : k < next_load => loaded[Order[k]] = counters[Order[k]]

\* What start() kept while the window lasts.
BaselineInv ==
    stage \in {"window", "stop"} =>
       /\ window.start_done <= baseline.alloc_count
       /\ baseline.alloc_count <= window.start_begun
       /\ window.start_begun <= events
       /\ window.quiet => /\ baseline.alloc_count = window.start_begun
                          /\ baseline.current_bytes = window.held
                          /\ baseline.live_count = window.live

StageInv ==
    /\ ~Snapping => next_load = 0
    /\ stage # "none" => Resetting = {}

\* What has been returned stays true until it is dropped.
ReturnedInv == WindowCounts /\ QuietWindowIsExact /\ HeapStatsAreCurrent

ProfilerInv == /\ ProfilerTypes /\ SnapshotInv /\ BaselineInv /\ StageInv
               /\ ReturnedInv

\* `as usize` of a counter.
LEMMA UsizeFacts ==
    ASSUME NEW x \in CounterVal
    PROVE  /\ x % UsizeW \in CounterVal /\ x % UsizeW <= x
           /\ x < UsizeW => x % UsizeW = x
<1>1. x \in Nat /\ x < W /\ W \in Nat /\ UsizeW \in Nat \ {0}
  BY WidthAssumption, UsizeAssumption DEF CounterVal
<1>2. x % UsizeW \in Nat /\ x % UsizeW < UsizeW
  BY <1>1
<1>3. x < UsizeW => x % UsizeW = x
  BY <1>1
<1>4. x % UsizeW <= x
  BY <1>1, <1>2, <1>3
<1>. QED  BY <1>1, <1>2, <1>3, <1>4 DEF CounterVal

LEMMA HeapStatsType == ASSUME NEW s \in StatsType PROVE HeapStats(s) \in HeapType
BY UsizeFacts DEF StatsType, HeapStats, HeapType

LEMMA SaturatingType ==
    ASSUME NEW a \in CounterVal, NEW b \in CounterVal
    PROVE  SaturatingSub(a, b) \in CounterVal
BY WidthAssumption DEF SaturatingSub, CounterVal

LEMMA ZerosType == Zeros \in StatsType
<1>1. 0 \in CounterVal
  BY WidthAssumption DEF CounterVal
<1>. QED  BY <1>1 DEF Zeros, StatsType

LEMMA CountersType == TypeInv => counters \in StatsType
BY DEF TypeInv, TypeOK, StatsType, CounterVal

LEMMA DifferenceType ==
    ASSUME ProfilerTypes, NEW s \in StatsType
    PROVE  Difference(s) \in StatsType
BY SaturatingType DEF ProfilerTypes, Difference, StatsType

LEMMA HeldType ==
    ASSUME TypeInv
    PROVE  Bytes(Held) \in Nat /\ Cardinality(Held) \in Nat
<1>1. Held \in SUBSET Blocks /\ IsFiniteSet(Held)
  BY FiniteAssumption, FS_Subset DEF Held
<1>2. \A b \in Held : heap[b] \in Nat
  BY <1>1, ArgFacts
<1>. QED  BY <1>1, <1>2, BytesIsSum, SumNat, FS_CardinalityType

\* The counter that a thread loads next.
LEMMA LoadType ==
    ASSUME TypeInv, ProfilerTypes, NEW k \in 1 .. 6
    PROVE  /\ [loaded EXCEPT ![Order[k]] = counters[Order[k]]] \in StatsType
           /\ [loaded EXCEPT ![Order[k]] = counters[Order[k]]][Order[k]] = counters[Order[k]]
           /\ \A j \in 1 .. 6 : j # k =>
                 [loaded EXCEPT ![Order[k]] = counters[Order[k]]][Order[j]]
                    = loaded[Order[j]]
<1>1. /\ loaded \in StatsType /\ counters \in StatsType
  BY CountersType DEF ProfilerTypes
<1>2. k \in {1, 2, 3, 4, 5, 6}
  OBVIOUS
<1>3. /\ Order[1] = "alloc_count" /\ Order[2] = "total_bytes"
      /\ Order[3] = "peak_bytes" /\ Order[4] = "current_bytes"
      /\ Order[5] = "live_count" /\ Order[6] = "peak_live_count"
  BY DEF Order
<1>4. \A j \in 1 .. 6 : j \in {1, 2, 3, 4, 5, 6}
  OBVIOUS
<1>5. \A j \in 1 .. 6 : j # k => Order[j] # Order[k]
  BY <1>2, <1>3, <1>4
<1>6. [loaded EXCEPT ![Order[k]] = counters[Order[k]]] \in StatsType
  BY <1>1, <1>2, <1>3 DEF StatsType
<1>7. \A j \in 1 .. 6 : Order[j] \in DOMAIN loaded
  BY <1>1, <1>3, <1>4 DEF StatsType
<1>. QED  BY <1>5, <1>6, <1>7

-----------------------------------------------------------------------------
\* The snapshot s that is complete says what it should.
SnapshotOK(s) ==
    /\ Started <= s.alloc_count /\ s.alloc_count <= events
    /\ window.quiet => /\ AtRest
                       /\ s.alloc_count = events
                       /\ s.current_bytes = Bytes(Held)
                       /\ s.live_count = Cardinality(Held)
                       /\ Bytes(Held) <= s.peak_bytes
                       /\ s.peak_bytes <= counters.peak_bytes

\* With no call in progress, the counters themselves are such a snapshot, and so
\* are zeros before the handle is registered.
LEMMA RestingCounters ==
    ASSUME ProgramInv, StageInv, stage # "none", AtRest
    PROVE  /\ counters.alloc_count = events
           /\ counters.current_bytes = Bytes(Held)
           /\ counters.live_count = Cardinality(Held)
           /\ Bytes(Held) <= counters.peak_bytes
           /\ ~GLOBAL_HANDLE => Bytes(Held) = 0 /\ Cardinality(Held) = 0 /\ events = 0
<1>1. ExactAtRest /\ PeakCoversHeld /\ Resetting = {}
  BY ExactInvAtRest, PeaksInvCovers DEF ProgramInv, PeaksInv, StageInv
<1>2. \A t \in Threads : pc[t] = "outside" /\ arg[t].block = Program
  BY DEF AtRest, ProgramInv, HandleInv
<1>3. Held \ InFlight = Held
  BY <1>2, ProgramAssumption DEF Held, InFlight
<1>4. ~GLOBAL_HANDLE => Held = {}
  BY <1>3 DEF ProgramInv, HolderIsRegistered
<1>5. Bytes({}) = 0 /\ Cardinality({}) = 0
  BY BytesIsSum, SumEmpty, FS_EmptySet
<1>6. ~GLOBAL_HANDLE => events = 0
  <2>1. InProgress = {}
    BY <1>2 DEF InProgress
  <2>2. events \in Nat
    BY CompletedIsCounted DEF ProgramInv, PeaksInv
  <2>. QED  BY <1>5, <2>1, <2>2, CompletedIs DEF ProgramInv, UnregisteredInv
<1>7. Bytes(Held) <= counters.peak_bytes
  BY <1>1, <1>3 DEF PeakCoversHeld
<1>. QED  BY <1>1, <1>4, <1>5, <1>6, <1>7 DEF ExactAtRest

LEMMA ZerosOK ==
    ASSUME ProgramInv, ProfilerInv, Snapping, ~GLOBAL_HANDLE
    PROVE  SnapshotOK(Zeros)
<1>1. /\ Completed = 0 /\ Started <= 0 /\ events \in Nat
      /\ counters.peak_bytes \in Nat
  BY CompletedIsCounted
     DEF ProgramInv, PeaksInv, UnregisteredInv, ProfilerInv, SnapshotInv, ExactInv, TypeInv,
         TypeOK
<1>2. stage # "none" /\ (window.quiet => AtRest)
  BY DEF Snapping, ProfilerInv, SnapshotInv
<1>. QED  BY <1>1, <1>2, RestingCounters DEF Zeros, SnapshotOK, ProfilerInv

\* A snapshot of all six counters, of which the last has just been loaded.
LEMMA LoadedOK ==
    ASSUME ProgramInv, ProfilerInv, Snapping, NEW s, next_load = 6,
           s = [loaded EXCEPT ![Order[6]] = counters[Order[6]]]
    PROVE  SnapshotOK(s)
<1>1. TypeInv /\ ProfilerTypes
  BY DEF ProgramInv, PeaksInv, ExactInv, ProfilerInv
<1>2. /\ s["alloc_count"] = loaded["alloc_count"]
      /\ s[Order[6]] = counters[Order[6]]
      /\ \A j \in 1 .. 6 : j # 6 => s[Order[j]] = loaded[Order[j]]
  <2>1. 6 \in 1 .. 6 /\ 1 \in 1 .. 6 /\ Order[1] = "alloc_count"
    BY DEF Order
  <2>. QED  BY <1>1, <2>1, LoadType
<1>3. Started <= s.alloc_count /\ s.alloc_count <= events
  BY <1>2 DEF ProfilerInv, SnapshotInv
<1>4. ASSUME window.quiet
      PROVE  AtRest /\ \A j \in 1 .. 6 : s[Order[j]] = counters[Order[j]]
  BY <1>2, <1>4 DEF ProfilerInv, SnapshotInv
<1>5. ASSUME window.quiet
      PROVE  /\ s.alloc_count = counters.alloc_count
             /\ s.current_bytes = counters.current_bytes
             /\ s.live_count = counters.live_count
             /\ s.peak_bytes = counters.peak_bytes
  <2>1. /\ Order[1] = "alloc_count" /\ Order[3] = "peak_bytes"
        /\ Order[4] = "current_bytes" /\ Order[5] = "live_count"
    BY DEF Order
  <2>. QED  BY <1>4, <1>5, <2>1
<1>6. stage # "none" /\ counters.peak_bytes \in Int
  BY <1>1 DEF Snapping, TypeInv, TypeOK
<1>. QED  BY <1>3, <1>4, <1>5, <1>6, RestingCounters DEF SnapshotOK, ProfilerInv

-----------------------------------------------------------------------------
BytesHeld == Bytes(Held)
SumHeld   == SumOf(heap, Held)

HeldAddsUp == BytesHeld = SumHeld

LEMMA HeldBytes == HeldAddsUp
BY BytesIsSum DEF HeldAddsUp, BytesHeld, SumHeld

LEMMA HeldBytesNext == HeldAddsUp'
BY HeldBytes, PTL

\* A step of the profiler leaves the program where it is.
LEMMA ProgramWaits ==
    ASSUME UNCHANGED vars
    PROVE  /\ Completed' = Completed /\ AtRest' = AtRest /\ Resetting' = Resetting
           /\ Held' = Held /\ Bytes(Held)' = Bytes(Held)
           /\ events' = events /\ counters' = counters
<1>1. UNCHANGED <<pc, arg, heap, holder, counters, events>>
  BY DEF vars, history
<1>2. Held' = Held /\ InProgress' = InProgress /\ AtRest' = AtRest /\ Resetting' = Resetting
  BY <1>1 DEF Held, InProgress, IsDealloc, AtRest, Resetting
<1>3. Bytes(Held)' = Bytes(Held)
  <2>1. SumHeld' = SumHeld
    BY <1>1, <1>2 DEF SumHeld
  <2>2. BytesHeld' = BytesHeld
    BY <2>1, HeldBytes, HeldBytesNext DEF HeldAddsUp
  <2>. QED  BY <2>2 DEF BytesHeld
<1>. QED  BY <1>1, <1>2, <1>3, CompletedIs, CompletedNext

LEMMA FinishType ==
    ASSUME TypeInv, ProfilerTypes, NEW s \in StatsType, Finish(s)
    PROVE  ProfilerTypes'
<1>1. /\ Difference(s) \in StatsType /\ HeapStats(s) \in HeapType /\ Zeros \in StatsType
      /\ Bytes(Held) \in Int /\ Cardinality(Held) \in Int /\ events \in Int
  BY DifferenceType, HeapStatsType, ZerosType, HeldType DEF TypeInv, TypeOK
<1>2. loaded' \in StatsType /\ next_load' \in 0 .. 6
  BY <1>1 DEF Finish
<1>3. CASE FinishStart(s)
  BY <1>1, <1>2, <1>3 DEF FinishStart, ProfilerTypes, WindowType
<1>4. CASE FinishStop(s)
  BY <1>1, <1>2, <1>4 DEF FinishStop, ProfilerTypes, WindowType
<1>5. CASE FinishGet(s)
  BY <1>1, <1>2, <1>5 DEF FinishGet, ProfilerTypes, WindowType
<1>. QED  BY <1>3, <1>4, <1>5 DEF Finish

\* stop() returns: what it subtracts was kept by start().
LEMMA StopCounts ==
    ASSUME TypeInv, ProfilerTypes, BaselineInv, NEW s \in StatsType, SnapshotOK(s),
           FinishStop(s), UNCHANGED vars
    PROVE  WindowCounts' /\ QuietWindowIsExact'
<1>1. /\ stage = "stop" /\ stage' = "stopped" /\ Started = window.stop_done
      /\ delta' = Difference(s) /\ window \in WindowType
      /\ window' = [window EXCEPT !.stop_begun = events]
  BY DEF FinishStop, Started, ProfilerTypes
<1>2. /\ window'.stop_begun = events /\ window'.stop_done = window.stop_done
      /\ window'.start_done = window.start_done
      /\ window'.start_begun = window.start_begun
      /\ window'.quiet = window.quiet
      /\ window'.held = window.held /\ window'.live = window.live
  BY <1>1 DEF WindowType
<1>3. /\ delta'.alloc_count = SaturatingSub(s.alloc_count, baseline.alloc_count)
      /\ delta'.current_bytes = SaturatingSub(s.current_bytes, baseline.current_bytes)
      /\ delta'.live_count = SaturatingSub(s.live_count, baseline.live_count)
  BY <1>1 DEF Difference
<1>4. /\ window.start_done <= baseline.alloc_count
      /\ baseline.alloc_count <= window.start_begun
      /\ window.start_begun <= events
      /\ window.quiet => /\ baseline.alloc_count = window.start_begun
                         /\ baseline.current_bytes = window.held
                         /\ baseline.live_count = window.live
  BY <1>1 DEF BaselineInv
<1>5. /\ s.alloc_count \in Int /\ baseline.alloc_count \in Int /\ events \in Int
      /\ window.start_done \in Int /\ window.start_begun \in Int
      /\ window.stop_done \in Int
  BY <1>1 DEF ProfilerTypes, StatsType, WindowType, CounterVal, TypeInv, TypeOK
<1>6. WindowCounts'
  <2>1. window.stop_done <= s.alloc_count /\ s.alloc_count <= events
    BY <1>1 DEF SnapshotOK
  <2>. QED  BY <1>2, <1>3, <1>4, <1>5, <2>1 DEF WindowCounts, SaturatingSub
<1>7. QuietWindowIsExact'
  <2>1. SUFFICES ASSUME window.quiet
                 PROVE  /\ delta'.alloc_count = events - window.start_begun
                        /\ delta'.current_bytes = SaturatingSub(Bytes(Held), window.held)
                        /\ delta'.live_count
                              = SaturatingSub(Cardinality(Held), window.live)
    BY <1>2, ProgramWaits DEF QuietWindowIsExact, SaturatingSub
  <2>. QED  BY <1>3, <1>4, <1>5, <2>1 DEF SnapshotOK, SaturatingSub
<1>. QED  BY <1>6, <1>7

LEMMA GetCounts ==
    ASSUME TypeInv, ProfilerTypes, NEW s \in StatsType, SnapshotOK(s),
           FinishGet(s), UNCHANGED vars
    PROVE  HeapStatsAreCurrent'
<1>1. /\ stage' = "got" /\ Started = window.start_done /\ window \in WindowType
      /\ heap_stats' = HeapStats(s) /\ window' = [window EXCEPT !.stop_begun = events]
  BY DEF FinishGet, Started, ProfilerTypes
<1>2. /\ window'.stop_begun = events /\ window'.start_done = window.start_done
      /\ window'.quiet = window.quiet
  BY <1>1 DEF WindowType
<1>3. /\ heap_stats'.total_blocks = s.alloc_count
      /\ heap_stats'.curr_bytes = s.current_bytes % UsizeW
      /\ heap_stats'.curr_blocks = s.live_count % UsizeW
      /\ heap_stats'.max_bytes = s.peak_bytes % UsizeW
  BY <1>1 DEF HeapStats
<1>4. /\ s.alloc_count \in Int /\ events \in Int /\ window.start_done \in Int
      /\ s.peak_bytes \in CounterVal /\ s.current_bytes \in CounterVal
      /\ s.live_count \in CounterVal
      /\ counters.peak_bytes \in Int /\ UsizeW \in Int
  BY <1>1, UsizeAssumption
     DEF ProfilerTypes, StatsType, WindowType, CounterVal, TypeInv, TypeOK
<1>5. s.alloc_count \in window.start_done .. events
  BY <1>1, <1>4 DEF SnapshotOK
<1>6. ASSUME window.quiet, counters.peak_bytes < UsizeW
      PROVE  s.peak_bytes % UsizeW >= s.current_bytes
  <2>1. /\ s.current_bytes <= s.peak_bytes /\ s.peak_bytes <= counters.peak_bytes
        /\ s.peak_bytes \in Int /\ s.current_bytes \in Int
    BY <1>4, <1>6 DEF SnapshotOK, CounterVal
  <2>2. s.peak_bytes < UsizeW
    BY <1>4, <1>6, <2>1
  <2>3. s.peak_bytes % UsizeW = s.peak_bytes
    BY <1>4, <2>2, UsizeFacts
  <2>. QED  BY <2>1, <2>3
<1>7. window.quiet => /\ s.alloc_count = events
                      /\ s.current_bytes = Bytes(Held) /\ s.live_count = Cardinality(Held)
  BY DEF SnapshotOK
<1>8. /\ s.current_bytes < UsizeW => s.current_bytes % UsizeW = s.current_bytes
      /\ s.live_count < UsizeW => s.live_count % UsizeW = s.live_count
  BY <1>4, UsizeFacts
<1>. QED  BY <1>1, <1>2, <1>3, <1>5, <1>6, <1>7, <1>8, ProgramWaits DEF HeapStatsAreCurrent

LEMMA FinishKeeps ==
    ASSUME ProgramInv, ProfilerInv, Snapping, NEW s \in StatsType, SnapshotOK(s),
           Finish(s), UNCHANGED vars
    PROVE  ProfilerInv'
<1>1. TypeInv /\ ProfilerTypes /\ BaselineInv /\ StageInv
  BY DEF ProgramInv, PeaksInv, ExactInv, ProfilerInv
<1>2. ProfilerTypes'
  BY <1>1, FinishType
<1>3. /\ stage' \in {"window", "stopped", "got"} /\ next_load' = 0
      /\ ~Snapping' /\ stage # "none"
  BY DEF Finish, FinishStart, FinishStop, FinishGet, Snapping
<1>4. SnapshotInv'
  BY <1>3 DEF SnapshotInv
<1>5. StageInv'
  BY <1>1, <1>3, ProgramWaits DEF StageInv
<1>6. CASE FinishStart(s)
  <2>1. /\ stage' = "window" /\ baseline' = s /\ Started = window.start_done
        /\ window \in WindowType
        /\ window' = [window EXCEPT !.start_begun = events, !.held = Bytes(Held),
                                    !.live = Cardinality(Held)]
    BY <1>1, <1>6 DEF FinishStart, Started, ProfilerTypes
  <2>2. /\ window'.start_begun = events /\ window'.start_done = window.start_done
        /\ window'.quiet = window.quiet
        /\ window'.held = Bytes(Held) /\ window'.live = Cardinality(Held)
    BY <2>1 DEF WindowType
  <2>3. events \in Int
    BY <1>1 DEF TypeInv, TypeOK
  <2>4. BaselineInv'
    BY <2>1, <2>2, <2>3, ProgramWaits DEF SnapshotOK, BaselineInv
  <2>5. ReturnedInv'
    BY <2>1 DEF ReturnedInv, WindowCounts, QuietWindowIsExact, HeapStatsAreCurrent
  <2>. QED  BY <1>2, <1>4, <1>5, <2>4, <2>5 DEF ProfilerInv
<1>7. CASE FinishStop(s)
  <2>1. stage' = "stopped"
    BY <1>7 DEF FinishStop
  <2>2. BaselineInv' /\ HeapStatsAreCurrent'
    BY <2>1 DEF BaselineInv, HeapStatsAreCurrent
  <2>. QED  BY <1>1, <1>2, <1>4, <1>5, <1>7, <2>2, StopCounts DEF ProfilerInv, ReturnedInv
<1>8. CASE FinishGet(s)
  <2>1. stage' = "got"
    BY <1>8 DEF FinishGet
  <2>2. BaselineInv' /\ WindowCounts' /\ QuietWindowIsExact'
    BY <2>1 DEF BaselineInv, WindowCounts, QuietWindowIsExact
  <2>. QED  BY <1>1, <1>2, <1>4, <1>5, <1>8, <2>2, GetCounts DEF ProfilerInv, ReturnedInv
<1>. QED  BY <1>6, <1>7, <1>8 DEF Finish

-----------------------------------------------------------------------------
\* A snapshot begins when so many calls have returned.
LEMMA BeginKeeps ==
    ASSUME ProgramInv, ProfilerInv, BeginStart \/ BeginGet \/ BeginStop
    PROVE  ProfilerInv'
<1>1. TypeInv /\ ProfilerTypes /\ BaselineInv /\ StageInv /\ Completed \in Int
  BY CompletedIsCounted DEF ProgramInv, PeaksInv, ExactInv, ProfilerInv
<1>2. /\ UNCHANGED <<vars, next_load, loaded, baseline, delta, heap_stats>>
      /\ stage' \in {"start", "get", "stop"} /\ next_load = 0
  BY <1>1 DEF BeginStart, BeginGet, BeginStop, StageInv, Snapping
<1>3. CASE BeginStart \/ BeginGet
  <2>1. /\ window' = [NoWindow EXCEPT !.start_done = Completed, !.quiet = AtRest]
        /\ stage' \in {"start", "get"} /\ Resetting = {}
    BY <1>3 DEF BeginStart, BeginGet
  <2>2. /\ window' \in WindowType
        /\ window'.start_done = Completed /\ window'.quiet = AtRest
    <3>. DEFINE quiet == AtRest
    <3>1. quiet \in BOOLEAN /\ NoWindow \in WindowType
      BY DEF AtRest, NoWindow, WindowType
    <3>2. window' = [NoWindow EXCEPT !.start_done = Completed, !.quiet = quiet]
      BY <2>1
    <3>. HIDE DEF quiet
    <3>3. /\ window' \in WindowType
          /\ window'.start_done = Completed /\ window'.quiet = quiet
      BY <1>1, <3>1, <3>2 DEF WindowType
    <3>. QED  BY <3>3 DEF quiet
  <2>3. Started' = Completed
    BY <2>1, <2>2 DEF Started
  <2>4. SnapshotInv'
    BY <1>1, <1>2, <2>2, <2>3, ProgramWaits DEF SnapshotInv
  <2>5. BaselineInv' /\ ReturnedInv'
    BY <2>1 DEF BaselineInv, ReturnedInv, WindowCounts, QuietWindowIsExact,
                HeapStatsAreCurrent
  <2>6. StageInv'
    BY <1>2, <2>1, ProgramWaits DEF StageInv, Snapping
  <2>. QED  BY <1>1, <1>2, <2>2, <2>4, <2>5, <2>6 DEF ProfilerInv, ProfilerTypes
<1>4. CASE BeginStop
  <2>1. /\ window' = [window EXCEPT !.stop_done = Completed, !.quiet = @ /\ AtRest]
        /\ stage = "window" /\ stage' = "stop" /\ window \in WindowType
    BY <1>1, <1>4 DEF BeginStop, ProfilerTypes
  <2>2. /\ window' \in WindowType /\ window'.stop_done = Completed
        /\ window'.quiet = (window.quiet /\ AtRest)
        /\ window'.start_done = window.start_done
        /\ window'.start_begun = window.start_begun
        /\ window'.held = window.held /\ window'.live = window.live
    BY <1>1, <2>1 DEF WindowType, AtRest
  <2>3. Started' = Completed
    BY <2>1, <2>2 DEF Started
  <2>4. SnapshotInv'
    <3>1. window'.quiet => AtRest'
      <4>1. window'.quiet => AtRest
        BY <2>2
      <4>. QED  BY <1>2, <4>1, ProgramWaits
    <3>2. Started' <= Completed' /\ next_load' = 0
      BY <1>1, <1>2, <2>3, ProgramWaits
    <3>. QED  BY <3>1, <3>2 DEF SnapshotInv
  <2>5. BaselineInv'
    BY <1>1, <1>2, <2>1, <2>2, ProgramWaits DEF BaselineInv
  <2>6. ReturnedInv'
    BY <2>1 DEF ReturnedInv, WindowCounts, QuietWindowIsExact, HeapStatsAreCurrent
  <2>7. StageInv'
    BY <1>1, <1>2, <2>1, ProgramWaits DEF StageInv, Snapping
  <2>. QED  BY <1>1, <1>2, <2>1, <2>2, <2>4, <2>5, <2>6, <2>7 DEF ProfilerInv, ProfilerTypes
<1>. QED  BY <1>3, <1>4

\* One more counter is loaded, and it is not the last.
LEMMA LoadKeeps ==
    ASSUME ProgramInv, ProfilerInv, Snapping, NEW k \in 1 .. 5, next_load = k,
           loaded' = [loaded EXCEPT ![Order[k]] = counters[Order[k]]],
           next_load' = k + 1,
           UNCHANGED <<vars, stage, baseline, delta, heap_stats, window>>
    PROVE  ProfilerInv'
<1>1. /\ TypeInv /\ ProfilerTypes /\ BaselineInv /\ StageInv /\ SnapshotInv /\ ReturnedInv
      /\ Completed <= counters.alloc_count /\ counters.alloc_count <= events
      /\ Completed \in Int /\ counters.alloc_count \in Int /\ events \in Int
  BY CompletedIsCounted DEF ProgramInv, PeaksInv, ExactInv, ProfilerInv
<1>2. /\ loaded' \in StatsType /\ loaded'[Order[k]] = counters[Order[k]]
      /\ \A j \in 1 .. 6 : j # k => loaded'[Order[j]] = loaded[Order[j]]
  <2>1. k \in 1 .. 6
    OBVIOUS
  <2>. QED  BY <1>1, <2>1, LoadType
<1>3. Started \in Int /\ Started' = Started
  BY <1>1 DEF ProfilerTypes, WindowType, Started
<1>4. Started <= loaded'.alloc_count /\ loaded'.alloc_count <= events
  <2>1. Order[1] = "alloc_count" /\ 1 \in 1 .. 6 /\ Started <= Completed
    BY <1>1 DEF Order, SnapshotInv
  <2>2. CASE k = 1
    BY <1>1, <1>2, <1>3, <2>1, <2>2
  <2>3. CASE k # 1
    <3>1. loaded'.alloc_count = loaded.alloc_count /\ next_load >= 2
      BY <1>2, <2>1, <2>3
    <3>. QED  BY <1>1, <3>1 DEF SnapshotInv
  <2>. QED  BY <2>2, <2>3
<1>5. ASSUME window.quiet, NEW j \in 1 .. 6, j < k + 1
      PROVE  loaded'[Order[j]] = counters[Order[j]]
  <2>1. j = k \/ j < next_load
    BY <1>5
  <2>. QED  BY <1>1, <1>2, <1>5, <2>1 DEF SnapshotInv
<1>6. SnapshotInv'
  BY <1>1, <1>3, <1>4, <1>5, ProgramWaits DEF SnapshotInv
<1>7. BaselineInv' /\ StageInv'
  BY <1>1, ProgramWaits DEF BaselineInv, StageInv, Snapping
<1>8. ReturnedInv'
  BY DEF Snapping, ReturnedInv, WindowCounts, QuietWindowIsExact, HeapStatsAreCurrent
<1>. QED  BY <1>1, <1>2, <1>6, <1>7, <1>8 DEF ProfilerInv, ProfilerTypes

\* The program goes on under the profiler.
CompletedTypes == Completed \in Int /\ events \in Int

LEMMA ProgramTypes == ProgramInv => CompletedTypes
BY CompletedIsCounted DEF ProgramInv, PeaksInv, CompletedTypes

LEMMA ProgramTypesNext == ProgramInv' => CompletedTypes'
BY ProgramTypes, PTL

LEMMA ProgramKeeps ==
    ASSUME ProgramInv, ProfilerInv, ~ResetAnyTime, ProgramStep
    PROVE  ProfilerInv'
<1>1. /\ ProfilerTypes /\ BaselineInv /\ StageInv /\ SnapshotInv
      /\ Completed \in Int /\ events \in Int
  BY CompletedIsCounted DEF ProgramInv, PeaksInv, ProfilerInv
<1>2. /\ stage \notin {"stopped", "got"} /\ Next
      /\ UNCHANGED <<stage, next_load, loaded, baseline, delta, heap_stats>>
      /\ window' = [window EXCEPT !.quiet = @ /\ stage \in {"none", "window"}]
      /\ stage # "none" => Resetting' = {}
  BY DEF ProgramStep
<1>3. /\ window' \in WindowType
      /\ window'.quiet = (window.quiet /\ stage \in {"none", "window"})
      /\ window'.start_done = window.start_done
      /\ window'.start_begun = window.start_begun
      /\ window'.stop_done = window.stop_done
      /\ window'.held = window.held /\ window'.live = window.live
  BY <1>1, <1>2 DEF ProfilerTypes, WindowType
<1>4. /\ Completed' \in Int /\ events' \in Int
      /\ stage # "none" => Completed <= Completed' /\ events <= events'
  <2>1. ProgramInv'
    BY <1>2, NextProgram
  <2>2. Completed' \in Int /\ events' \in Int
    BY <2>1, ProgramTypesNext DEF CompletedTypes
  <2>. QED  BY <1>1, <1>2, <2>2, NextProgram DEF StageInv
<1>5. Started' = Started /\ Started \in Int
  BY <1>1, <1>2, <1>3 DEF Started, ProfilerTypes, WindowType
<1>6. SnapshotInv'
  <2>1. Snapping => ~window'.quiet /\ stage # "none"
    BY <1>3 DEF Snapping
  <2>2. Snapping' = Snapping
    BY <1>2 DEF Snapping
  <2>3. loaded.alloc_count \in Int
    BY <1>1 DEF ProfilerTypes, StatsType, CounterVal
  <2>. QED  BY <1>1, <1>2, <1>4, <1>5, <2>1, <2>2, <2>3 DEF SnapshotInv
<1>7. BaselineInv'
  <2>1. SUFFICES ASSUME stage \in {"window", "stop"} PROVE BaselineInv'
    BY <1>2 DEF BaselineInv
  <2>2. window.start_begun \in Int /\ window.start_begun <= events /\ events <= events'
    BY <1>1, <1>4, <2>1 DEF ProfilerTypes, WindowType, BaselineInv
  <2>3. window.start_begun <= events'
    BY <1>1, <1>4, <2>2
  <2>4. window'.quiet => window.quiet
    BY <1>3
  <2>. QED  BY <1>1, <1>2, <1>3, <2>1, <2>3, <2>4 DEF BaselineInv
<1>8. StageInv'
  BY <1>1, <1>2 DEF StageInv, Snapping
<1>9. ReturnedInv'
  BY <1>2 DEF ReturnedInv, WindowCounts, QuietWindowIsExact, HeapStatsAreCurrent
<1>. QED  BY <1>1, <1>2, <1>3, <1>6, <1>7, <1>8, <1>9 DEF ProfilerInv, ProfilerTypes

\* A step of the profiler's program is one of the allocator's, or none.
LEMMA ProgramSteps == [ProfilerNext]_<<vars, profiler>> => [Next]_vars
BY DEF ProfilerNext, BeginStart, BeginGet, BeginStop, LoadHandle, LoadCounter,
       TakeStats, ProgramStep

LEMMA NextProfiler ==
    ASSUME ProgramInv, ProfilerInv, ~ResetAnyTime, [ProfilerNext]_<<vars, profiler>>
    PROVE  ProgramInv' /\ ProfilerInv'
<1>1. TypeInv /\ ProfilerTypes /\ StageInv
  BY DEF ProgramInv, PeaksInv, ExactInv, ProfilerInv
<1>2. [Next]_vars
  BY ProgramSteps
<1>3. ProgramInv'
  BY <1>2, NextProgram
<1>4. CASE BeginStart \/ BeginStop \/ BeginGet
  BY <1>3, <1>4, BeginKeeps
<1>5. CASE LoadHandle
  <2>1. Snapping /\ UNCHANGED vars /\ next_load = 0
    BY <1>5 DEF LoadHandle, Snapping
  <2>2. CASE ~GLOBAL_HANDLE
    BY <1>3, <1>5, <2>1, <2>2, ZerosOK, ZerosType, FinishKeeps DEF LoadHandle
  <2>3. CASE GLOBAL_HANDLE
    <3>1. next_load' = 1 /\ UNCHANGED <<stage, loaded, baseline, delta, heap_stats, window>>
      BY <1>5, <2>3 DEF LoadHandle
    <3>2. SnapshotInv' /\ BaselineInv' /\ StageInv'
      BY <2>1, <3>1, ProgramWaits
         DEF ProfilerInv, SnapshotInv, BaselineInv, StageInv, Snapping, Started
    <3>3. ReturnedInv'
      BY <2>1, <3>1
         DEF Snapping, ReturnedInv, WindowCounts, QuietWindowIsExact, HeapStatsAreCurrent
    <3>. QED  BY <1>1, <1>3, <3>1, <3>2, <3>3 DEF ProfilerInv, ProfilerTypes
  <2>. QED  BY <2>2, <2>3
<1>6. CASE LoadCounter
  <2>1. Snapping /\ UNCHANGED vars /\ next_load \in 1 .. 6
    BY <1>6 DEF LoadCounter, Snapping
  <2>. DEFINE s == [loaded EXCEPT ![Order[next_load]] = counters[Order[next_load]]]
  <2>2. CASE next_load < 6
    <3>1. /\ loaded' = s /\ next_load' = next_load + 1 /\ next_load \in 1 .. 5
          /\ UNCHANGED <<stage, baseline, delta, heap_stats, window>>
      BY <1>6, <2>1, <2>2 DEF LoadCounter
    <3>. QED  BY <1>3, <2>1, <3>1, LoadKeeps
  <2>3. CASE next_load = 6
    <3>1. Finish(s) /\ s = [loaded EXCEPT ![Order[6]] = counters[Order[6]]]
      BY <1>6, <2>3 DEF LoadCounter
    <3>2. s \in StatsType
      BY <1>1, <2>1, LoadType
    <3>. HIDE DEF s
    <3>3. SnapshotOK(s)
      BY <2>1, <2>3, <3>1, LoadedOK
    <3>. QED  BY <1>3, <2>1, <3>1, <3>2, <3>3, FinishKeeps
  <2>. QED  BY <2>1, <2>2, <2>3
<1>7. CASE TakeStats
  <2>1. /\ stage \in {"stopped", "got"} /\ stage' = "none" /\ UNCHANGED <<next_load, loaded>>
        /\ baseline' = Zeros /\ delta' = Zeros /\ heap_stats' = HeapStats(Zeros)
        /\ window' = NoWindow
    BY <1>7 DEF TakeStats
  <2>2. NoWindow \in WindowType /\ HeapStats(Zeros) \in HeapType /\ Zeros \in StatsType
    BY ZerosType, HeapStatsType DEF NoWindow, WindowType
  <2>3. ProfilerTypes'
    BY <1>1, <2>1, <2>2 DEF ProfilerTypes
  <2>4. SnapshotInv' /\ BaselineInv' /\ StageInv' /\ ReturnedInv'
    BY <1>1, <2>1 DEF SnapshotInv, BaselineInv, StageInv, Snapping, ReturnedInv, WindowCounts,
                      QuietWindowIsExact, HeapStatsAreCurrent
  <2>. QED  BY <1>3, <2>3, <2>4 DEF ProfilerInv
<1>8. CASE ProgramStep
  BY <1>3, <1>8, ProgramKeeps
<1>9. CASE UNCHANGED <<vars, profiler>>
  <2>1. UNCHANGED vars /\ UNCHANGED <<stage, next_load, loaded, baseline, delta,
                                      heap_stats, window>>
    BY <1>9 DEF profiler
  <2>2. SnapshotInv' /\ BaselineInv' /\ StageInv' /\ ProfilerTypes'
    BY <2>1, ProgramWaits
       DEF ProfilerInv, SnapshotInv, BaselineInv, StageInv, Snapping, Started, ProfilerTypes
  <2>3. ReturnedInv'
    BY <2>1, ProgramWaits
       DEF ProfilerInv, ReturnedInv, WindowCounts, QuietWindowIsExact, HeapStatsAreCurrent,
           SaturatingSub
  <2>. QED  BY <1>3, <2>2, <2>3 DEF ProfilerInv
<1>. QED  BY <1>4, <1>5, <1>6, <1>7, <1>8, <1>9 DEF ProfilerNext

LEMMA InitProfiler == ProfilerInit => ProgramInv /\ ProfilerInv
<1>. SUFFICES ASSUME ProfilerInit PROVE ProgramInv /\ ProfilerInv
  OBVIOUS
<1>1. ProgramInv
  BY InitProgram DEF ProfilerInit
<1>2. NoWindow \in WindowType /\ HeapStats(Zeros) \in HeapType /\ Zeros \in StatsType
  BY ZerosType, HeapStatsType DEF NoWindow, WindowType
<1>3. ProfilerTypes
  BY <1>2 DEF ProfilerInit, ProfilerTypes
<1>4. SnapshotInv /\ BaselineInv /\ StageInv /\ ReturnedInv
  BY DEF ProfilerInit, SnapshotInv, BaselineInv, StageInv, Snapping, ReturnedInv,
         WindowCounts, QuietWindowIsExact, HeapStatsAreCurrent
<1>. QED  BY <1>1, <1>3, <1>4 DEF ProfilerInv

LEMMA ProfilerInvHolds == ~ResetAnyTime => (ProfilerSpec => []ProfilerInv)
<1>. SUFFICES ASSUME ~ResetAnyTime PROVE ProfilerSpec => []ProfilerInv
  OBVIOUS
<1>1. ProgramInv /\ ProfilerInv /\ [ProfilerNext]_<<vars, profiler>>
         => ProgramInv' /\ ProfilerInv'
  BY NextProfiler
<1>. QED  BY <1>1, InitProfiler, PTL DEF ProfilerSpec

\* The types do not depend on when reset is called.
LEMMA NextProfilerTypes ==
    ASSUME TypeInv, ProfilerTypes, [ProfilerNext]_<<vars, profiler>>
    PROVE  ProfilerTypes'
<1>1. Completed \in Int
  BY CompletedIs, InProgressSize DEF TypeInv, TypeOK
<1>2. CASE BeginStart \/ BeginGet
  <2>. DEFINE quiet == AtRest
  <2>1. quiet \in BOOLEAN /\ NoWindow \in WindowType
    BY DEF AtRest, NoWindow, WindowType
  <2>2. /\ window' = [NoWindow EXCEPT !.start_done = Completed, !.quiet = quiet]
        /\ stage' \in {"start", "get"}
        /\ UNCHANGED <<next_load, loaded, baseline, delta, heap_stats>>
    BY <1>2 DEF BeginStart, BeginGet
  <2>. HIDE DEF quiet
  <2>3. window' \in WindowType
    BY <1>1, <2>1, <2>2 DEF WindowType
  <2>. QED  BY <2>2, <2>3 DEF ProfilerTypes
<1>3. CASE BeginStop
  <2>. DEFINE quiet == window.quiet /\ AtRest
  <2>1. quiet \in BOOLEAN
    BY DEF AtRest
  <2>2. /\ window' = [window EXCEPT !.stop_done = Completed, !.quiet = quiet]
        /\ stage' = "stop"
        /\ UNCHANGED <<next_load, loaded, baseline, delta, heap_stats>>
    BY <1>3 DEF BeginStop
  <2>. HIDE DEF quiet
  <2>3. window' \in WindowType
    BY <1>1, <2>1, <2>2 DEF ProfilerTypes, WindowType
  <2>. QED  BY <2>2, <2>3 DEF ProfilerTypes
<1>4. CASE LoadHandle
  <2>1. \/ Finish(Zeros)
        \/ next_load' = 1 /\ UNCHANGED <<stage, loaded, baseline, delta, heap_stats, window>>
    BY <1>4 DEF LoadHandle
  <2>. QED  BY <2>1, ZerosType, FinishType DEF ProfilerTypes
<1>5. CASE LoadCounter
  <2>1. PICK s : /\ s = [loaded EXCEPT ![Order[next_load]] = counters[Order[next_load]]]
                 /\ next_load \in 1 .. 6
                 /\ \/ /\ next_load < 6 /\ loaded' = s /\ next_load' = next_load + 1
                       /\ UNCHANGED <<stage, baseline, delta, heap_stats, window>>
                    \/ Finish(s)
    BY <1>5 DEF LoadCounter
  <2>2. s \in StatsType
    BY <2>1, LoadType
  <2>3. CASE next_load < 6 /\ ~Finish(s)
    <3>1. next_load' \in 0 .. 6
      BY <2>1, <2>3
    <3>. QED  BY <2>1, <2>2, <2>3, <3>1 DEF ProfilerTypes
  <2>. QED  BY <2>1, <2>2, <2>3, FinishType
<1>6. CASE TakeStats
  <2>1. NoWindow \in WindowType /\ HeapStats(Zeros) \in HeapType /\ Zeros \in StatsType
    BY ZerosType, HeapStatsType DEF NoWindow, WindowType
  <2>. QED  BY <1>6, <2>1 DEF TakeStats, ProfilerTypes
<1>7. CASE ProgramStep
  BY <1>7 DEF ProgramStep, ProfilerTypes, WindowType
<1>8. CASE UNCHANGED <<vars, profiler>>
  BY <1>8 DEF profiler, ProfilerTypes
<1>. QED  BY <1>2, <1>3, <1>4, <1>5, <1>6, <1>7, <1>8 DEF ProfilerNext

\* The profiler's state keeps its type, whenever reset is called: no difference is
\* negative, no load is outside the six counters.
THEOREM ProfilerTypeSafety == ProfilerSpec => []ProfilerTypeOK
<1>1. ProfilerInit => TypeInv /\ ProfilerTypes
  BY InitType, InitProfiler DEF ProfilerInit, ProfilerInv
<1>2. TypeInv /\ ProfilerTypes /\ [ProfilerNext]_<<vars, profiler>>
         => TypeInv' /\ ProfilerTypes'
  BY ProgramSteps, NextType, NextProfilerTypes
<1>3. ProfilerTypes => ProfilerTypeOK
  BY DEF ProfilerTypes, StatsType, HeapType, CounterVal, ProfilerTypeOK
<1>. QED  BY <1>1, <1>2, <1>3, PTL DEF ProfilerSpec

\* However the loads of both snapshots interleave with the program, stop() reports
\* every call made wholly inside the window and none made wholly outside it
\* (lib.rs:621-655).
THEOREM WindowsCount == ~ResetAnyTime => (ProfilerSpec => []WindowCounts)
<1>. SUFFICES ASSUME ~ResetAnyTime PROVE ProfilerSpec => []WindowCounts
  OBVIOUS
<1>1. ProfilerInv => WindowCounts
  BY DEF ProfilerInv, ReturnedInv
<1>. QED  BY <1>1, ProfilerInvHolds, PTL

\* With no call in progress during the snapshots, the differences are exact,
\* whatever happens between them (lib.rs:640-655).
THEOREM QuietWindowsAreExact == ~ResetAnyTime => (ProfilerSpec => []QuietWindowIsExact)
<1>. SUFFICES ASSUME ~ResetAnyTime PROVE ProfilerSpec => []QuietWindowIsExact
  OBVIOUS
<1>1. ProfilerInv => QuietWindowIsExact
  BY DEF ProfilerInv, ReturnedInv
<1>. QED  BY <1>1, ProfilerInvHolds, PTL

\* HeapStats::get() has every call that had returned, none that had not begun,
\* and at rest says what is held in each field whose value fits usize
\* (stats.rs:57-67).
THEOREM HeapStatsCurrent == ~ResetAnyTime => (ProfilerSpec => []HeapStatsAreCurrent)
<1>. SUFFICES ASSUME ~ResetAnyTime PROVE ProfilerSpec => []HeapStatsAreCurrent
  OBVIOUS
<1>1. ProfilerInv => HeapStatsAreCurrent
  BY DEF ProfilerInv, ReturnedInv
<1>. QED  BY <1>1, ProfilerInvHolds, PTL

-----------------------------------------------------------------------------
(* TrackedAlloc: the table tells what the counters tell.                     *)

TrackedTypes ==
    /\ tally \in [events : Nat, bytes : Nat]
    /\ recording \in [Threads -> {"capture", "bytes", "done"}]
    /\ \A t \in Threads : pc[t] # "event" => recording[t] = "capture"
    /\ given_up \in Nat /\ at_reset \in Nat

\* A call whose event is in alloc_count and not yet in the table.
Awaited(t) == /\ pc[t] \notin {"outside", "reset", "alloc_count"}
              /\ arg[t].new # 0 /\ recording[t] = "capture"
Awaiting == {t \in Threads : Awaited(t)}

\* A call whose growth is in total_bytes, and whose size is not yet in the table.
Promising(t) ==
    /\ pc[t] \in {"current_add", "peak_bytes", "live_add", "peak_live", "register", "event"}
    /\ Delta(t) > 0 /\ recording[t] # "done"
promised == [t \in Threads |-> IF Promising(t) THEN arg[t].new ELSE 0]

EventsTold ==
    counters.alloc_count + at_reset = tally.events + given_up + Cardinality(Awaiting)
BytesTold ==
    given_up = 0 /\ Resetting = {} =>
       counters.total_bytes <= tally.bytes + SumOf(promised, Threads)

\* A reset that has cleared total_bytes finds it so at its end.
TotalCleared == \A t \in Threads : pc[t] = "reset" /\ next_store[t] > 2 =>
                                      counters.total_bytes = 0

TrackedInv == /\ ExactInv /\ PeakInv /\ TrackedTypes
              /\ EventsTold /\ BytesTold /\ TotalCleared

LEMMA AwaitingSize ==
    /\ Awaiting \subseteq Threads /\ Awaiting' \subseteq Threads
    /\ IsFiniteSet(Awaiting) /\ IsFiniteSet(Awaiting')
    /\ Cardinality(Awaiting) \in Nat /\ Cardinality(Awaiting') \in Nat
<1>1. Awaiting \subseteq Threads /\ Awaiting' \subseteq Threads
  BY DEF Awaiting
<1>. QED  BY <1>1, FiniteAssumption, FS_Subset, FS_CardinalityType

PromisesAreNat == /\ \A t \in Threads : promised[t] \in Nat
                  /\ SumOf(promised, Threads) \in Nat

LEMMA PromisedType == TypeInv => PromisesAreNat
<1>. SUFFICES ASSUME TypeInv PROVE PromisesAreNat
  OBVIOUS
<1>1. \A t \in Threads : promised[t] \in Nat
  BY ArgFacts DEF promised
<1>. QED  BY <1>1, FiniteAssumption, SumNat DEF PromisesAreNat

LEMMA PromisedTypeNext == TypeInv' => PromisesAreNat'
BY PromisedType, PTL

LEMMA TrackedFacts ==
    ASSUME TypeInv, TrackedTypes
    PROVE  /\ counters.alloc_count \in Nat /\ counters.total_bytes \in Nat
           /\ counters \in [alloc_count : CounterVal, total_bytes : CounterVal,
                            peak_bytes : CounterVal, current_bytes : CounterVal,
                            live_count : CounterVal, peak_live_count : CounterVal]
           /\ tally.events \in Nat /\ tally.bytes \in Nat
           /\ given_up \in Nat /\ at_reset \in Nat
           /\ \A t \in Threads : recording[t] \in {"capture", "bytes", "done"}
BY DEF TypeInv, TypeOK, TrackedTypes, CounterVal

\* The table's step for one thread's event.
LEMMA RecordKeeps ==
    ASSUME TrackedInv, NEW t \in Threads, GiveUp(t) \/ RecordCount(t) \/ RecordBytes(t)
    PROVE  TrackedTypes' /\ EventsTold' /\ BytesTold' /\ TotalCleared'
<1>1. /\ TypeInv /\ TrackedTypes /\ EventsTold /\ BytesTold /\ TotalCleared
      /\ CallOK(t) /\ PromisesAreNat
  BY PromisedType DEF TrackedInv, ExactInv, CallInv
<1>2. /\ UNCHANGED vars /\ pc[t] = "event" /\ at_reset' = at_reset
      /\ \A u \in Threads \ {t} : recording'[u] = recording[u]
      /\ recording' \in [Threads -> {"capture", "bytes", "done"}]
  BY <1>1 DEF GiveUp, RecordCount, RecordBytes, TrackedTypes
<1>3. UNCHANGED <<pc, arg, counters, next_store>> /\ arg[t].new # 0 /\ Resetting' = Resetting
  BY <1>1, <1>2 DEF vars, CallOK, Resetting
<1>4. arg[t].new \in Nat
  BY <1>1, ArgFacts
<1>5. TotalCleared'
  BY <1>1, <1>3 DEF TotalCleared
<1>6. CASE GiveUp(t)
  <2>1. /\ recording[t] = "capture" /\ recording'[t] = "done"
        /\ given_up' = given_up + 1 /\ tally' = tally
    BY <1>1, <1>6 DEF GiveUp, TrackedTypes
  <2>2. Awaiting' = Awaiting \ {t} /\ t \in Awaiting
    BY <1>2, <1>3, <2>1 DEF Awaiting, Awaited
  <2>3. Cardinality(Awaiting') = Cardinality(Awaiting) - 1
    BY <2>2, AwaitingSize, FS_RemoveElement
  <2>4. EventsTold'
    BY <1>1, <1>2, <1>3, <2>1, <2>3, AwaitingSize, TrackedFacts DEF EventsTold
  <2>5. BytesTold'
    BY <1>1, <2>1, TrackedFacts DEF BytesTold
  <2>. QED  BY <1>1, <1>2, <1>3, <1>5, <2>1, <2>4, <2>5 DEF TrackedTypes
<1>7. CASE RecordCount(t)
  <2>1. /\ recording[t] = "capture" /\ recording'[t] = "bytes"
        /\ tally' = [tally EXCEPT !.events = @ + 1] /\ given_up' = given_up
    BY <1>1, <1>7 DEF RecordCount, TrackedTypes
  <2>2. /\ tally' \in [events : Nat, bytes : Nat]
        /\ tally'.events = tally.events + 1 /\ tally'.bytes = tally.bytes
    BY <1>1, <2>1 DEF TrackedTypes
  <2>3. Awaiting' = Awaiting \ {t} /\ t \in Awaiting
    BY <1>2, <1>3, <2>1 DEF Awaiting, Awaited
  <2>4. Cardinality(Awaiting') = Cardinality(Awaiting) - 1
    BY <2>3, AwaitingSize, FS_RemoveElement
  <2>5. EventsTold'
    BY <1>1, <1>2, <1>3, <2>1, <2>2, <2>4, AwaitingSize, TrackedFacts DEF EventsTold
  <2>6. \A u \in Threads : Promising(u)' <=> Promising(u)
    BY <1>2, <1>3, <2>1 DEF Promising, Delta
  <2>7. promised' = promised
    BY <1>3, <2>6 DEF promised
  <2>8. BytesTold'
    BY <1>1, <1>3, <2>1, <2>2, <2>7 DEF BytesTold
  <2>. QED  BY <1>1, <1>2, <1>3, <1>5, <2>1, <2>2, <2>5, <2>8 DEF TrackedTypes
<1>8. CASE RecordBytes(t)
  <2>1. /\ recording[t] = "bytes" /\ recording'[t] = "done"
        /\ tally' = [tally EXCEPT !.bytes = @ + arg[t].new] /\ given_up' = given_up
    BY <1>1, <1>8 DEF RecordBytes, EventSize, TrackedTypes
  <2>2. /\ tally' \in [events : Nat, bytes : Nat]
        /\ tally'.events = tally.events /\ tally'.bytes = tally.bytes + arg[t].new
    BY <1>1, <1>4, <2>1 DEF TrackedTypes
  <2>3. Awaiting' = Awaiting
    BY <1>2, <1>3, <2>1 DEF Awaiting, Awaited
  <2>4. EventsTold'
    BY <1>1, <1>2, <1>3, <2>1, <2>2, <2>3 DEF EventsTold
  <2>5. \A u \in Threads \ {t} : Promising(u)' <=> Promising(u)
    BY <1>2, <1>3 DEF Promising, Delta
  <2>6. /\ \A u \in Threads \ {t} : promised'[u] = promised[u]
        /\ promised'[t] = 0 /\ promised[t] <= arg[t].new
    <3>1. ~Promising(t)'
      BY <2>1 DEF Promising
    <3>2. \A u \in Threads \ {t} : promised'[u] = promised[u]
      BY <1>3, <2>5 DEF promised
    <3>3. promised'[t] = 0
      BY <3>1 DEF promised
    <3>4. promised[t] <= arg[t].new
      BY <1>4 DEF promised
    <3>. QED  BY <3>2, <3>3, <3>4
  <2>7. SumOf(promised', Threads) = SumOf(promised, Threads) - promised[t]
    <3>1. \A u \in Threads : promised[u] \in Int /\ promised'[u] \in Int
      BY <1>1, <2>6 DEF PromisesAreNat
    <3>2. SumOf(promised', Threads)
             = SumOf(promised, Threads) - promised[t] + promised'[t]
      <4>. DEFINE g == promised
                  h == promised'
      <4>1. /\ \A u \in Threads : g[u] \in Int /\ h[u] \in Int
            /\ \A u \in Threads \ {t} : h[u] = g[u]
        BY <2>6, <3>1
      <4>. HIDE DEF g, h
      <4>2. SumOf(h, Threads) = SumOf(g, Threads) - g[t] + h[t]
        BY <4>1, FiniteAssumption, SumChange
      <4>. QED  BY <4>2 DEF g, h
    <3>. QED  BY <1>1, <2>6, <3>2 DEF PromisesAreNat
  <2>8. BytesTold'
    <3>1. /\ promised[t] \in Nat /\ SumOf(promised, Threads) \in Nat
      BY <1>1 DEF PromisesAreNat
    <3>2. SUFFICES ASSUME given_up = 0, Resetting = {}
                   PROVE  counters.total_bytes
                             <= tally'.bytes + SumOf(promised', Threads)
      BY <1>3, <2>1 DEF BytesTold
    <3>3. counters.total_bytes <= tally.bytes + SumOf(promised, Threads)
      BY <1>1, <3>2 DEF BytesTold
    <3>. QED  BY <1>1, <1>4, <2>2, <2>6, <2>7, <3>1, <3>3, TrackedFacts
  <2>. QED  BY <1>1, <1>2, <1>3, <1>5, <2>1, <2>2, <2>4, <2>8 DEF TrackedTypes
<1>. QED  BY <1>6, <1>7, <1>8

\* A step of the allocator at which nothing is told.
LEMMA NothingTold ==
    ASSUME EventsTold, BytesTold, UNCHANGED <<tally, given_up, at_reset>>,
           Awaiting' = Awaiting, promised' = promised,
           counters'.alloc_count = counters.alloc_count,
           counters'.total_bytes = counters.total_bytes,
           Resetting' = {} => Resetting = {}
    PROVE  EventsTold' /\ BytesTold'
BY DEF EventsTold, BytesTold

\* What a step of one thread leaves of the others.
LEMMA OthersStay ==
    ASSUME TrackedTypes, AllocatorStep, NEW t \in Threads,
           \A u \in Threads \ {t} : pc'[u] = pc[u] /\ arg'[u] = arg[u]
    PROVE  /\ \A u \in Threads \ {t} : /\ recording'[u] = recording[u]
                                       /\ Awaited(u)' <=> Awaited(u)
                                       /\ promised'[u] = promised[u]
           /\ recording'[t] = IF pc'[t] = "event" THEN recording[t] ELSE "capture"
           /\ (Awaited(t)' <=> Awaited(t)) => Awaiting' = Awaiting
           /\ promised'[t] = promised[t] => promised' = promised
<1>1. /\ \A u \in Threads \ {t} : recording'[u] = recording[u]
      /\ recording'[t] = IF pc'[t] = "event" THEN recording[t] ELSE "capture"
  BY DEF AllocatorStep, TrackedTypes
<1>2. \A u \in Threads \ {t} : Awaited(u)' <=> Awaited(u)
  BY <1>1 DEF Awaited
<1>3. \A u \in Threads \ {t} : Promising(u)' <=> Promising(u)
  BY <1>1 DEF Promising, Delta
<1>4. \A u \in Threads \ {t} : promised'[u] = promised[u]
  BY <1>3 DEF promised
<1>5. (Awaited(t)' <=> Awaited(t)) => Awaiting' = Awaiting
  BY <1>2 DEF Awaiting
<1>6. promised'[t] = promised[t] => promised' = promised
  <2>1. ASSUME promised'[t] = promised[t]
        PROVE  \A u \in Threads : promised'[u] = promised[u]
    BY <1>4, <2>1
  <2>. QED  BY <2>1 DEF promised
<1>. QED  BY <1>1, <1>2, <1>4, <1>5, <1>6

LEMMA TrackedTypesKeep ==
    ASSUME TypeInv, TrackedTypes, AllocatorStep
    PROVE  TrackedTypes'
<1>1. /\ recording' = [t \in Threads |-> IF pc'[t] = "event" THEN recording[t] ELSE "capture"]
      /\ tally' = tally /\ at_reset' \in {at_reset, tally.events} /\ given_up' \in {given_up, 0}
  BY DEF AllocatorStep
<1>2. \A t \in Threads : recording[t] \in {"capture", "bytes", "done"}
  BY DEF TrackedTypes
<1>3. /\ recording' \in [Threads -> {"capture", "bytes", "done"}]
      /\ \A t \in Threads : pc'[t] # "event" => recording'[t] = "capture"
  BY <1>1, <1>2
<1>. QED  BY <1>1, <1>3, TrackedFacts DEF TrackedTypes

\* No step but reset's first store sets alloc_count to 0.
LEMMA NoResetStore ==
    ASSUME AllocatorStep,
           counters'.alloc_count = counters.alloc_count \/ counters'.alloc_count # 0
    PROVE  UNCHANGED <<tally, given_up, at_reset>>
BY DEF AllocatorStep

LEMMA CallTold ==
    ASSUME TrackedInv, AllocatorStep, ~ResetAnyTime, NEW t \in Threads,
           Alloc(t) \/ Dealloc(t) \/ Realloc(t)
    PROVE  EventsTold' /\ BytesTold' /\ TotalCleared'
<1>1. /\ TypeInv /\ CallInv /\ TrackedTypes /\ EventsTold /\ BytesTold /\ TotalCleared
      /\ pc \in [Threads -> PCs] /\ arg \in [Threads -> ArgType]
  BY ArgFacts DEF TrackedInv, ExactInv
<1>2. PICK b \in Blocks, old \in Sizes \union {0}, new \in Sizes \union {0} :
         /\ pc[t] = "outside" => Entered(t, b, old, new)
         /\ pc[t] = "event" => UNCHANGED <<IN_ALLOC, pc, arg>>
  BY <1>1, CallEffect
<1>3. /\ pc[t] \in {"outside", "event"} /\ UNCHANGED <<counters, next_store>>
      /\ Resetting = {} /\ UNCHANGED <<tally, given_up, at_reset>>
  BY <1>1, CallEffect, NoResetStore
<1>4. /\ \A u \in Threads \ {t} : pc'[u] = pc[u] /\ arg'[u] = arg[u]
      /\ pc[t] = "event" => pc'[t] = pc[t] /\ arg'[t] = arg[t]
      /\ pc[t] = "outside" => /\ pc'[t] = IF new = 0 THEN "current_sub" ELSE "alloc_count"
                              /\ arg'[t].new = new
  BY <1>1, <1>2, <1>3 DEF Entered
<1>5. recording'[t] = IF pc'[t] = "event" THEN recording[t] ELSE "capture"
  BY <1>1, <1>4, OthersStay
<1>6. Awaited(t)' <=> Awaited(t)
  BY <1>3, <1>4, <1>5 DEF Awaited
<1>7. Promising(t)' <=> Promising(t)
  BY <1>3, <1>4, <1>5 DEF Promising, Delta
<1>8. promised'[t] = promised[t]
  BY <1>3, <1>4, <1>7 DEF promised, Promising
<1>9. Awaiting' = Awaiting /\ promised' = promised
  BY <1>1, <1>4, <1>6, <1>8, OthersStay
<1>10. TotalCleared'
  BY <1>1, <1>3, <1>4 DEF TotalCleared
<1>. QED  BY <1>1, <1>3, <1>9, <1>10, NothingTold

LEMMA StepTold ==
    ASSUME TrackedInv, TypeInv', AllocatorStep, NEW t \in Threads, HookStep(t)
    PROVE  EventsTold' /\ BytesTold' /\ TotalCleared'
<1>1. /\ TypeInv /\ CallInv /\ TrackedTypes /\ EventsTold /\ BytesTold /\ TotalCleared
      /\ pc \in [Threads -> PCs] /\ arg \in [Threads -> ArgType] /\ CallOK(t)
      /\ CountsInv /\ PromisesAreNat /\ PromisesAreNat'
  BY ArgFacts, PromisedType, PromisedTypeNext DEF TrackedInv, ExactInv, CallInv
<1>2. /\ arg[t].new \in Nat /\ arg[t].old \in Nat /\ Delta(t) \in Int
      /\ Delta(t) = arg[t].new - arg[t].old
  BY <1>1, ArgFacts
<1>3. /\ pc[t] \notin {"outside", "reset"} /\ pc'[t] # "reset"
      /\ \A u \in Threads \ {t} : pc'[u] = pc[u] /\ arg'[u] = arg[u]
      /\ UNCHANGED next_store
  BY <1>1 DEF HookStep, CountEvent, AddTotal, AddCurrent, RaisePeak, AddLive,
              RaisePeakLive, Register, LeaveHook, SubCurrent, SubLive, DropGuard, Goto
<1>4. /\ recording'[t] = IF pc'[t] = "event" THEN recording[t] ELSE "capture"
      /\ \A u \in Threads \ {t} : Awaited(u)' <=> Awaited(u)
      /\ \A u \in Threads \ {t} : promised'[u] = promised[u]
      /\ (Awaited(t)' <=> Awaited(t)) => Awaiting' = Awaiting
      /\ promised'[t] = promised[t] => promised' = promised
  BY <1>1, <1>3, OthersStay
<1>5. Resetting' = Resetting
  BY <1>3 DEF Resetting
<1>6. TotalCleared' \/ counters'.total_bytes # counters.total_bytes
  BY <1>1, <1>3 DEF TotalCleared
<1>7. CASE CountEvent(t)
  <2>1. /\ pc[t] = "alloc_count" /\ pc'[t] \in {"total_bytes", "current_sub", "register"}
        /\ pc'[t] = "register" => Delta(t) = 0
        /\ arg' = arg /\ arg[t].new # 0 /\ recording[t] = "capture"
        /\ counters'.total_bytes = counters.total_bytes
        /\ counters'.alloc_count = (counters.alloc_count + 1) % W
    BY <1>1, <1>2, <1>7, TrackedFacts DEF CountEvent, Goto, Add, CallOK, TrackedTypes
  <2>2. counters'.alloc_count = counters.alloc_count + 1
    <3>1. counters.alloc_count + 1 \in CounterVal
      <4>1. t \in Counting /\ Counting \subseteq Threads
        BY <2>1 DEF Counting
      <4>2. IsFiniteSet(Counting)
        BY <4>1, FiniteAssumption, FS_Subset
      <4>3. Cardinality(Counting) \in Nat /\ Cardinality(Counting) # 0
        BY <4>1, <4>2, FS_CardinalityType, FS_EmptySet
      <4>4. /\ events = counters.alloc_count + Cardinality(Counting) /\ events <= calls
            /\ calls <= MaxCalls /\ calls \in Nat /\ events \in Nat
        BY <1>1, CallsAssumption DEF CountsInv, EventsInv, TypeInv, TypeOK
      <4>. QED  BY <1>1, <4>3, <4>4, CallsAssumption, FitsAssumption, WidthAssumption,
                   TrackedFacts DEF CounterVal
    <3>. QED  BY <2>1, <3>1, SmallMod
  <2>3. UNCHANGED <<tally, given_up, at_reset>>
    BY <1>1, <2>2, NoResetStore, TrackedFacts
  <2>4. Awaiting' = Awaiting \union {t} /\ t \notin Awaiting
    BY <1>4, <2>1 DEF Awaiting, Awaited
  <2>5. Cardinality(Awaiting') = Cardinality(Awaiting) + 1
    BY <2>4, AwaitingSize, FS_AddElement
  <2>6. EventsTold'
    BY <1>1, <2>2, <2>3, <2>5, AwaitingSize, TrackedFacts DEF EventsTold
  <2>7. ~Promising(t) /\ ~Promising(t)'
    BY <1>2, <2>1 DEF Promising, Delta
  <2>8. promised' = promised
    BY <1>4, <2>7 DEF promised
  <2>9. BytesTold'
    BY <1>1, <1>5, <2>1, <2>3, <2>8 DEF BytesTold
  <2>. QED  BY <1>6, <2>1, <2>6, <2>9
<1>8. CASE AddTotal(t)
  <2>1. /\ pc[t] = "total_bytes" /\ pc'[t] = "current_add" /\ arg' = arg
        /\ recording[t] = "capture" /\ Delta(t) > 0
        /\ counters'.alloc_count = counters.alloc_count
        /\ counters'.total_bytes = (counters.total_bytes + Delta(t)) % W
    BY <1>1, <1>8, TrackedFacts DEF AddTotal, Goto, Add, CallOK, TrackedTypes
  <2>2. counters'.total_bytes <= counters.total_bytes + Delta(t)
    <3>. DEFINE sum == counters.total_bytes + Delta(t)
    <3>1. sum \in Nat /\ W \in Nat \ {0}
      BY <1>1, <1>2, <2>1, TrackedFacts, WidthAssumption
    <3>. HIDE DEF sum
    <3>2. sum % W \in Nat /\ sum % W < W /\ (sum < W => sum % W = sum)
      BY <3>1
    <3>3. sum % W <= sum
      BY <3>1, <3>2
    <3>. QED  BY <2>1, <3>3 DEF sum
  <2>3. UNCHANGED <<tally, given_up, at_reset>>
    BY <2>1, NoResetStore
  <2>4. Awaiting' = Awaiting
    BY <1>4, <2>1 DEF Awaited
  <2>5. EventsTold'
    BY <1>1, <2>1, <2>3, <2>4 DEF EventsTold
  <2>6. promised[t] = 0 /\ promised'[t] = arg[t].new
    <3>1. ~Promising(t) /\ Promising(t)'
      BY <1>4, <2>1 DEF Promising, Delta
    <3>. QED  BY <2>1, <3>1 DEF promised
  <2>7. SumOf(promised', Threads) = SumOf(promised, Threads) + arg[t].new
    <3>1. \A u \in Threads : promised[u] \in Int /\ promised'[u] \in Int
      BY <1>1 DEF PromisesAreNat
    <3>2. SumOf(promised', Threads)
             = SumOf(promised, Threads) - promised[t] + promised'[t]
      <4>. DEFINE g == promised
                  h == promised'
      <4>1. /\ \A u \in Threads : g[u] \in Int /\ h[u] \in Int
            /\ \A u \in Threads \ {t} : h[u] = g[u]
        BY <1>4, <3>1
      <4>. HIDE DEF g, h
      <4>2. SumOf(h, Threads) = SumOf(g, Threads) - g[t] + h[t]
        BY <4>1, FiniteAssumption, SumChange
      <4>. QED  BY <4>2 DEF g, h
    <3>. QED  BY <1>1, <2>6, <3>2 DEF PromisesAreNat
  <2>8. BytesTold'
    <3>1. SUFFICES ASSUME given_up = 0, Resetting = {}
                   PROVE  counters'.total_bytes
                             <= tally.bytes + SumOf(promised', Threads)
      BY <1>5, <2>3 DEF BytesTold
    <3>2. counters.total_bytes <= tally.bytes + SumOf(promised, Threads)
      BY <1>1, <3>1 DEF BytesTold
    <3>3. /\ SumOf(promised, Threads) \in Nat /\ Delta(t) <= arg[t].new
          /\ counters'.total_bytes \in Int
      BY <1>1, <1>2 DEF PromisesAreNat, TypeInv, TypeOK
    <3>. QED  BY <1>1, <1>2, <2>2, <2>7, <3>2, <3>3, TrackedFacts
  <2>9. TotalCleared'
    <3>1. \A u \in Threads : pc[u] # "reset"
      <4>1. ResetInv
        BY DEF TrackedInv, PeakInv
      <4>. QED  BY <1>3, <4>1 DEF ResetInv
    <3>. QED  BY <1>3, <3>1 DEF TotalCleared
  <2>. QED  BY <2>5, <2>8, <2>9
<1>9. ASSUME \/ AddCurrent(t) \/ RaisePeak(t) \/ AddLive(t) \/ RaisePeakLive(t)
             \/ Register(t) \/ LeaveHook(t) \/ SubCurrent(t) \/ SubLive(t)
      PROVE  EventsTold' /\ BytesTold' /\ TotalCleared'
  <2>1. /\ counters'.alloc_count = counters.alloc_count
        /\ counters'.total_bytes = counters.total_bytes
    BY <1>1, <1>9, TrackedFacts
       DEF AddCurrent, RaisePeak, AddLive, RaisePeakLive, Register, LeaveHook,
           SubCurrent, SubLive, Add, Sub
  <2>2. UNCHANGED <<tally, given_up, at_reset>>
    BY <2>1, NoResetStore
  <2>3. /\ Awaited(t)' <=> Awaited(t)
        /\ Promising(t)' <=> Promising(t)
        /\ Promising(t) => arg'[t].new = arg[t].new
    <3>1. CASE LeaveHook(t)
      <4>1. pc[t] = "event" /\ pc'[t] = "outside" /\ recording[t] = "done"
        BY <1>1, <3>1 DEF LeaveHook, DropGuard, Goto, AllocatorStep
      <4>. QED  BY <4>1 DEF Awaited, Promising
    <3>2. CASE SubLive(t)
      <4>1. pc[t] = "live_sub" /\ pc'[t] = "outside" /\ arg[t].new = 0
        BY <1>1, <3>2 DEF SubLive, DropGuard, Goto, CallOK
      <4>. QED  BY <4>1 DEF Awaited, Promising
    <3>3. CASE SubCurrent(t)
      <4>1. /\ pc[t] = "current_sub" /\ arg' = arg /\ recording[t] = "capture"
            /\ pc'[t] = IF IsDealloc(t) THEN "live_sub" ELSE "register"
            /\ Delta(t) < 0
        BY <1>1, <3>3 DEF SubCurrent, Goto, CallOK, TrackedTypes
      <4>. QED  BY <1>2, <1>4, <4>1 DEF Awaited, Promising, Delta
    <3>4. CASE \/ AddCurrent(t) \/ RaisePeak(t) \/ AddLive(t) \/ RaisePeakLive(t)
               \/ Register(t)
      <4>1. /\ pc[t] \in {"current_add", "peak_bytes", "live_add", "peak_live", "register"}
            /\ pc'[t] \in {"peak_bytes", "live_add", "peak_live", "register", "event"}
            /\ arg'[t].new = arg[t].new /\ arg'[t].old = arg[t].old
        BY <1>1, <3>4 DEF AddCurrent, RaisePeak, AddLive, RaisePeakLive, Register, Goto,
                          ArgType
      <4>2. recording[t] = "capture" /\ recording'[t] = "capture"
        BY <1>1, <1>4, <4>1 DEF TrackedTypes
      <4>. QED  BY <4>1, <4>2 DEF Awaited, Promising, Delta
    <3>. QED  BY <1>9, <3>1, <3>2, <3>3, <3>4
  <2>4. promised'[t] = promised[t]
    BY <2>3 DEF promised
  <2>5. Awaiting' = Awaiting /\ promised' = promised
    BY <1>4, <2>3, <2>4
  <2>. QED  BY <1>1, <1>5, <1>6, <2>1, <2>2, <2>5, NothingTold
<1>. QED  BY <1>7, <1>8, <1>9 DEF HookStep

LEMMA ResetTold ==
    ASSUME TrackedInv, TypeInv', AllocatorStep, NEW t \in Threads,
           BeginReset(t) \/ ResetStore(t)
    PROVE  EventsTold' /\ BytesTold' /\ TotalCleared'
<1>1. /\ TypeInv /\ ResetInv /\ TrackedTypes /\ EventsTold /\ BytesTold /\ TotalCleared
      /\ pc \in [Threads -> PCs] /\ arg \in [Threads -> ArgType]
      /\ PromisesAreNat' /\ next_store \in [Threads -> 1 .. 6]
  BY ArgFacts, PromisedTypeNext DEF TrackedInv, ExactInv, PeakInv, TypeInv, TypeOK
<1>2. CASE BeginReset(t)
  <2>1. /\ pc[t] = "outside" /\ pc'[t] = "reset" /\ UNCHANGED <<counters, arg, next_store>>
        /\ \A u \in Threads \ {t} : pc'[u] = pc[u]
    BY <1>1, <1>2 DEF BeginReset, Goto
  <2>2. UNCHANGED <<tally, given_up, at_reset>>
    BY <2>1, NoResetStore
  <2>3. Awaiting' = Awaiting
    <3>1. Awaited(t)' <=> Awaited(t)
      BY <2>1 DEF Awaited
    <3>. QED  BY <1>1, <2>1, <3>1, OthersStay
  <2>4. EventsTold'
    BY <1>1, <2>1, <2>2, <2>3 DEF EventsTold
  <2>5. BytesTold'
    BY <2>1 DEF BytesTold, Resetting
  <2>6. next_store[t] = 1
    BY <1>1, <2>1 DEF ResetInv
  <2>7. TotalCleared'
    <3>1. ASSUME NEW u \in Threads, pc'[u] = "reset", next_store'[u] > 2
          PROVE  counters'.total_bytes = 0
      <4>1. u # t
        BY <2>1, <2>6, <3>1
      <4>. QED  BY <1>1, <2>1, <3>1, <4>1 DEF TotalCleared
    <3>. QED  BY <3>1 DEF TotalCleared
  <2>. QED  BY <2>4, <2>5, <2>7
<1>3. CASE ResetStore(t)
  <2>. DEFINE k == next_store[t]
  <2>1. /\ pc[t] = "reset" /\ k \in 1 .. 6 /\ arg' = arg
        /\ counters' = [counters EXCEPT ![Order[k]] = 0]
        /\ next_store'[t] = (k % 6) + 1
        /\ \A u \in Threads \ {t} : pc'[u] = pc[u] /\ next_store'[u] = next_store[u]
        /\ pc'[t] = IF k < 6 THEN "reset" ELSE "outside"
    BY <1>1, <1>3 DEF ResetStore, Goto
  <2>2. \A u \in Threads \ {t} : pc[u] = "outside"
    BY <1>1, <2>1 DEF ResetInv
  <2>3. Awaiting = {} /\ Awaiting' = {} /\ Cardinality({}) = 0
    BY <2>1, <2>2, FS_EmptySet DEF Awaiting, Awaited
  <2>4. k \in {1, 2, 3, 4, 5, 6}
    BY <2>1
  <2>5. /\ Order[1] = "alloc_count" /\ Order[2] = "total_bytes"
        /\ Order[3] = "peak_bytes" /\ Order[4] = "current_bytes"
        /\ Order[5] = "live_count" /\ Order[6] = "peak_live_count"
    BY DEF Order
  <2>6. /\ counters'.alloc_count = IF k = 1 THEN 0 ELSE counters.alloc_count
        /\ counters'.total_bytes = IF k = 2 THEN 0 ELSE counters.total_bytes
    <3>1. counters \in [alloc_count : CounterVal, total_bytes : CounterVal,
                        peak_bytes : CounterVal, current_bytes : CounterVal,
                        live_count : CounterVal, peak_live_count : CounterVal]
      BY <1>1, TrackedFacts
    <3>. HIDE DEF k
    <3>. QED  BY <2>1, <2>4, <2>5, <3>1
  <2>7. EventsTold'
    <3>1. counters.alloc_count + at_reset = tally.events + given_up
      BY <1>1, <2>3, TrackedFacts DEF EventsTold
    <3>2. CASE counters.alloc_count # 0 /\ counters'.alloc_count = 0
      <4>1. at_reset' = tally.events /\ given_up' = 0 /\ tally' = tally
        BY <3>2 DEF AllocatorStep
      <4>. QED  BY <1>1, <2>3, <3>2, <4>1, TrackedFacts DEF EventsTold
    <3>3. CASE ~(counters.alloc_count # 0 /\ counters'.alloc_count = 0)
      <4>1. UNCHANGED <<tally, at_reset, given_up>>
        BY <3>3 DEF AllocatorStep
      <4>2. counters'.alloc_count = counters.alloc_count
        BY <2>6, <3>3
      <4>. QED  BY <1>1, <2>3, <4>1, <4>2, TrackedFacts DEF EventsTold
    <3>. QED  BY <3>2, <3>3
  <2>8. k >= 2 => counters'.total_bytes = 0
    BY <1>1, <2>1, <2>4, <2>6 DEF TotalCleared
  <2>9. BytesTold'
    <3>1. SUFFICES ASSUME Resetting' = {}
                   PROVE  counters'.total_bytes <= tally'.bytes + SumOf(promised', Threads)
      BY DEF BytesTold
    <3>2. pc'[t] # "reset"
      BY <3>1 DEF Resetting
    <3>3. counters'.total_bytes = 0
      BY <2>1, <2>4, <2>8, <3>2
    <3>4. tally' = tally /\ tally.bytes \in Nat /\ SumOf(promised', Threads) \in Nat
      BY <1>1, TrackedFacts DEF AllocatorStep, PromisesAreNat
    <3>. QED  BY <3>3, <3>4
  <2>10. TotalCleared'
    <3>1. ASSUME NEW u \in Threads, pc'[u] = "reset", next_store'[u] > 2
          PROVE  counters'.total_bytes = 0
      <4>1. u = t
        BY <2>1, <2>2, <3>1
      <4>2. k >= 2
        BY <2>1, <2>4, <3>1, <4>1
      <4>. QED  BY <2>8, <4>2
    <3>. QED  BY <3>1 DEF TotalCleared
  <2>. QED  BY <2>7, <2>9, <2>10
<1>. QED  BY <1>2, <1>3

LEMMA NextTracked ==
    ASSUME TrackedInv, ~ResetAnyTime, [TrackedNext]_<<vars, tracked>>
    PROVE  TrackedInv'
<1>1. [Next]_vars
  BY DEF TrackedNext, AllocatorStep, GiveUp, RecordCount, RecordBytes
<1>2. ExactInv' /\ PeakInv' /\ TypeInv /\ TypeInv' /\ TrackedTypes
  BY <1>1, NextExact, NextPeak DEF TrackedInv, ExactInv
<1>3. ASSUME NEW t \in Threads, GiveUp(t) \/ RecordCount(t) \/ RecordBytes(t)
      PROVE  TrackedTypes' /\ EventsTold' /\ BytesTold' /\ TotalCleared'
  BY <1>3, RecordKeeps
<1>4. ASSUME UNCHANGED vars, UNCHANGED tracked
      PROVE  TrackedTypes' /\ EventsTold' /\ BytesTold' /\ TotalCleared'
  <2>1. UNCHANGED <<pc, arg, counters, next_store>>
        /\ UNCHANGED <<tally, recording, given_up, at_reset>>
    BY <1>4 DEF vars, tracked
  <2>2. Awaiting' = Awaiting /\ promised' = promised /\ Resetting' = Resetting
    BY <2>1 DEF Awaiting, Awaited, promised, Promising, Delta, Resetting
  <2>. QED  BY <2>1, <2>2 DEF TrackedInv, TrackedTypes, EventsTold, BytesTold, TotalCleared
<1>5. CASE AllocatorStep
  <2>1. TrackedTypes'
    BY <1>2, <1>5, TrackedTypesKeep
  <2>2. CASE UNCHANGED vars
    <3>1. counters' = counters /\ pc' = pc
      BY <2>2 DEF vars
    <3>2. recording' = recording
      <4>1. \A u \in Threads : recording'[u] = recording[u]
        BY <1>2, <1>5, <3>1 DEF AllocatorStep, TrackedTypes
      <4>. QED  BY <1>2, <2>1, <4>1 DEF TrackedTypes
    <3>3. UNCHANGED tracked
      BY <1>5, <3>1, <3>2, NoResetStore DEF tracked
    <3>. QED  BY <1>2, <1>4, <2>2, <3>3 DEF TrackedInv
  <2>3. ASSUME NEW t \in Threads, \/ Alloc(t) \/ Dealloc(t) \/ Realloc(t)
                                  \/ HookStep(t) \/ BeginReset(t) \/ ResetStore(t)
        PROVE  EventsTold' /\ BytesTold' /\ TotalCleared'
    BY <1>2, <1>5, <2>3, CallTold, StepTold, ResetTold
  <2>. QED  BY <1>2, <1>5, <2>1, <2>2, <2>3 DEF AllocatorStep, Next, Rest, TrackedInv
<1>6. CASE UNCHANGED <<vars, tracked>>
  BY <1>2, <1>4, <1>6 DEF TrackedInv
<1>. QED  BY <1>2, <1>3, <1>5, <1>6 DEF TrackedNext, TrackedInv

LEMMA InitTracked == TrackedInit => TrackedInv
<1>. SUFFICES ASSUME TrackedInit PROVE TrackedInv
  OBVIOUS
<1>1. ExactInv /\ PeakInv /\ TypeInv
  BY InitExact, InitPeak DEF TrackedInit, ExactInv
<1>2. TrackedTypes
  BY DEF TrackedInit, TrackedTypes
<1>3. Awaiting = {} /\ Cardinality({}) = 0 /\ Resetting = {}
  BY FS_EmptySet DEF TrackedInit, Init, Awaiting, Awaited, Resetting
<1>4. counters.alloc_count = 0 /\ counters.total_bytes = 0 /\ tally.events = 0 /\ tally.bytes = 0
  BY DEF TrackedInit, Init, Zeros
<1>5. EventsTold
  BY <1>3, <1>4 DEF TrackedInit, EventsTold
<1>6. BytesTold
  BY <1>1, <1>4, PromisedType DEF BytesTold, PromisesAreNat
<1>7. TotalCleared
  BY <1>4 DEF TotalCleared
<1>. QED  BY <1>1, <1>2, <1>5, <1>6, <1>7 DEF TrackedInv

\* With no call in progress, the table and the counters tell one story: an event
\* that was counted was recorded or given up, and no bytes are missing from the
\* sites (lib.rs:469-480, 518-530).
THEOREM TableTellsWhatCountersTell == ~ResetAnyTime => (TrackedSpec => []TableTellsTheSame)
<1>. SUFFICES ASSUME ~ResetAnyTime PROVE TrackedSpec => []TableTellsTheSame
  OBVIOUS
<1>1. TrackedInv /\ [TrackedNext]_<<vars, tracked>> => TrackedInv'
  BY NextTracked
<1>2. TrackedInv => TableTellsTheSame
  <2>. SUFFICES ASSUME TrackedInv, AtRest
                PROVE  /\ counters.alloc_count + at_reset = tally.events + given_up
                       /\ given_up = 0 => tally.bytes >= counters.total_bytes
    BY DEF TableTellsTheSame
  <2>1. \A t \in Threads : pc[t] = "outside"
    BY DEF AtRest
  <2>2. Awaiting = {} /\ Cardinality({}) = 0 /\ Resetting = {}
    BY <2>1, FS_EmptySet DEF Awaiting, Awaited, Resetting
  <2>3. SumOf(promised, Threads) = 0
    <3>1. \A t \in Threads : promised[t] = 0
      BY <2>1 DEF promised, Promising
    <3>. QED  BY <3>1, FiniteAssumption, SumZero
  <2>4. TypeInv /\ TrackedTypes /\ EventsTold /\ BytesTold
    BY DEF TrackedInv, ExactInv
  <2>. QED  BY <2>2, <2>3, <2>4, TrackedFacts DEF EventsTold, BytesTold
<1>. QED  BY <1>1, <1>2, InitTracked, PTL DEF TrackedSpec
=============================================================================
