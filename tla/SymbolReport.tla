---------------------------- MODULE SymbolReport ----------------------------
(***************************************************************************)
(* src/symbolicate: symbolicated_report joins the rows of a raw report to  *)
(* symbolicated frames, through an address cache that all threads share    *)
(* behind a mutex and a symbolicator: each Unix thread builds its own, a   *)
(* Windows process builds one index, whichever thread needs it first.      *)
(* One action is one critical section, or one build.                       *)
(***************************************************************************)
EXTENDS SymbolIndex, SequencesExt

CONSTANTS
    Threads,    \* threads that ask for reports
    Addresses,  \* return addresses
    DebugInfo,  \* address -> its functions, in the order find_frames yields
    Publics,    \* the publics of the PDB
    Platforms,  \* among "unix", "windows" and "other"
    Process,    \* the owner of what is shared by all threads
    Reports,    \* raw reports: sequences of call sites
    NoName,     \* `function: None`
    MaxCalls    \* bound: reports and cache resets in a behaviour

ASSUME InfoAssumption   == DebugInfo \in [Addresses -> Seq(Names)]
ASSUME PdbAssumption    == Addresses \subseteq Nat /\ Publics \in Seq(PublicSymbol)
ASSUME NoNameAssumption == NoName \notin Names /\ Process \notin Threads

\* A captured trace has at least one frame.
RawSite == [count : Nat, frames : Seq(Addresses) \ {<< >>}]
ASSUME ReportAssumption == Reports \subseteq Seq(RawSite)
ASSUME CallsAssumption  == MaxCalls \in Nat

VARIABLES
    ADDRESS_CACHE,  \* address -> memoised frames; << >> when there is no entry
    SELF_EXE,       \* the path of the executable: looked up once per process
    SYMBOLICATOR,   \* per owner: "untried", "failed" or "built"; INDEX on Windows
    platform,       \* what the program was built for
    pc,
    raw,            \* the raw report each thread works on
    frames,         \* frames resolved so far for the current row
    next,           \* the current row's frame to resolve
    out,            \* rows finished
    calls           \* reports and resets begun, capped by MaxCalls

shared == <<ADDRESS_CACHE, SELF_EXE, SYMBOLICATOR>>
locals == <<pc, raw, frames, next, out>>
vars   == <<shared, locals, calls, platform>>

\* The names that the platform's debug info has for an address.
Known(a) == IF platform = "windows" THEN search(build_index(Publics), a)
                                    ELSE DebugInfo[a]

Found(a) == [k \in 1 .. Len(Known(a)) |->
               [address |-> a, function |-> Known(a)[k], inlined |-> k > 1]]

\* A frame is never resolved to nothing: without debug info it is kept raw.
Unresolved(a) == <<[address |-> a, function |-> NoName, inlined |-> FALSE]>>
ResolvedOrNothing(a) == Found(a)        \* mutant: it may be nothing
Resolved(a) == IF Known(a) = << >> THEN Unresolved(a) ELSE Found(a)

Init ==
    /\ ADDRESS_CACHE = [a \in Addresses |-> << >>]
    /\ SELF_EXE = "untried"
    /\ SYMBOLICATOR = [o \in Threads \union {Process} |-> "untried"]
    /\ platform \in Platforms
    /\ pc     = [t \in Threads |-> "idle"]
    /\ raw    = [t \in Threads |-> << >>]
    /\ frames = [t \in Threads |-> << >>]
    /\ next   = [t \in Threads |-> 1]
    /\ out    = [t \in Threads |-> << >>]
    /\ calls = 0

Goto(t, where) == pc' = [pc EXCEPT ![t] = where]

\* Mutant: an index per thread.
OwnThread(t) == t

\* Whose symbolicator a thread uses.
Owner(t) == IF platform = "windows" THEN Process ELSE t

Site(t)    == raw[t][Len(out[t]) + 1]
Address(t) == Site(t).frames[next[t]]

\* call_sites_report has returned.
BeginReport(t) ==
    /\ pc[t] = "idle" /\ calls < MaxCalls
    /\ \E report \in Reports :
          /\ raw' = [raw EXCEPT ![t] = report]
          /\ Goto(t, IF report = << >> THEN "reported" ELSE "lookup")
    /\ calls' = calls + 1
    /\ UNCHANGED <<shared, frames, next, out, platform>>

IsLast(t)     == next[t] = Len(Site(t).frames)

\* cached_resolve has returned: on to the next frame, or the next row.
Extend(t, resolved) ==
    LET last == IsLast(t)
        all  == frames[t] \o resolved
    IN /\ out' = IF last
                 THEN [out EXCEPT ![t] = Append(@, [count  |-> Site(t).count,
                                                    frames |-> all])]
                 ELSE out
       /\ frames' = [frames EXCEPT ![t] = IF last THEN << >> ELSE all]
       /\ next' = [next EXCEPT ![t] = IF last THEN 1 ELSE @ + 1]
       /\ Goto(t, IF last /\ Len(out'[t]) = Len(raw[t]) THEN "reported"
                                                        ELSE "lookup")
       /\ UNCHANGED raw

Hit(t) ==
    /\ pc[t] = "lookup"
    /\ ADDRESS_CACHE[Address(t)] # << >>
    /\ Extend(t, ADDRESS_CACHE[Address(t)])
    /\ UNCHANGED <<shared, calls, platform>>

\* Mutant: the thread's symbolicator is used before it is built.
MissUnbuilt(t) ==
    /\ pc[t] = "lookup"
    /\ ADDRESS_CACHE[Address(t)] = << >>
    /\ Goto(t, "resolve")
    /\ UNCHANGED <<shared, raw, frames, next, out, calls, platform>>

\* The lock is released before the address is resolved.
Miss(t) ==
    /\ pc[t] = "lookup"
    /\ ADDRESS_CACHE[Address(t)] = << >>
    /\ Goto(t, IF SYMBOLICATOR[Owner(t)] = "untried" /\ platform # "other"
               THEN "build" ELSE "resolve")
    /\ UNCHANGED <<shared, raw, frames, next, out, calls, platform>>

\* self_exe: whatever the first lookup gave.
SelfExe == IF SELF_EXE = "untried" THEN {"found", "missing"} ELSE {SELF_EXE}

\* Reading or parsing the executable, or its PDB, may fail, and a failure is
\* final.  A Windows thread that comes while another one builds waits for it.
Build(t) ==
    /\ pc[t] = "build"
    /\ \/ /\ SYMBOLICATOR[Owner(t)] = "untried"
          /\ SELF_EXE' \in SelfExe
          /\ \E result \in {"built", "failed"} :
                /\ SELF_EXE' = "missing" => result = "failed"
                /\ SYMBOLICATOR' = [SYMBOLICATOR EXCEPT ![Owner(t)] = result]
       \/ /\ SYMBOLICATOR[Owner(t)] # "untried"
          /\ UNCHANGED <<SELF_EXE, SYMBOLICATOR>>
    /\ Goto(t, "resolve")
    /\ UNCHANGED <<ADDRESS_CACHE, raw, frames, next, out, calls, platform>>

ResolveOne(t, a) ==
    IF SYMBOLICATOR[Owner(t)] = "built" THEN Resolved(a) ELSE Unresolved(a)

\* Mutant: the entry is overwritten.
MemoiseLast(t) ==
    /\ pc[t] = "resolve"
    /\ LET a == Address(t) IN
          /\ ADDRESS_CACHE' = [ADDRESS_CACHE EXCEPT ![a] = ResolveOne(t, a)]
          /\ Extend(t, ResolveOne(t, a))
    /\ UNCHANGED <<SELF_EXE, SYMBOLICATOR, calls, platform>>

\* resolve_one, and the second critical section: an entry made meanwhile
\* stays, and the thread returns its own frames.
Memoise(t) ==
    /\ pc[t] = "resolve"
    /\ LET a == Address(t)
           mine == ResolveOne(t, a)
       IN /\ ADDRESS_CACHE' = [ADDRESS_CACHE EXCEPT
                                  ![a] = IF @ = << >> THEN mine ELSE @]
          /\ Extend(t, mine)
    /\ UNCHANGED <<SELF_EXE, SYMBOLICATOR, calls, platform>>

TakeReport(t) ==
    /\ pc[t] = "reported"
    /\ Goto(t, "idle")
    /\ raw' = [raw EXCEPT ![t] = << >>]
    /\ out' = [out EXCEPT ![t] = << >>]
    /\ UNCHANGED <<shared, frames, next, calls, platform>>

\* _reset_cache_for_test
ResetCache ==
    /\ calls < MaxCalls
    /\ ADDRESS_CACHE' = [a \in Addresses |-> << >>]
    /\ calls' = calls + 1
    /\ UNCHANGED <<SELF_EXE, SYMBOLICATOR, locals, platform>>

\* No one asks for more.
Rest == calls = MaxCalls /\ (\A t \in Threads : pc[t] = "idle") /\ UNCHANGED vars

Next == \/ \E t \in Threads : \/ BeginReport(t) \/ Hit(t) \/ Miss(t)
                              \/ Build(t) \/ Memoise(t) \/ TakeReport(t)
        \/ ResetCache \/ Rest

Spec == Init /\ [][Next]_vars

-----------------------------------------------------------------------------
(* Properties.                                                               *)

Frame == [address : Addresses, function : Names \union {NoName},
          inlined : BOOLEAN]
Row   == [count : Nat, frames : Seq(Frame)]

\* Every variable keeps its type, and a row is only indexed by its frames.
TypeOK ==
    /\ ADDRESS_CACHE \in [Addresses -> Seq(Frame)]
    /\ SELF_EXE \in {"untried", "found", "missing"}
    /\ SYMBOLICATOR \in [Threads \union {Process} -> {"untried", "failed", "built"}]
    /\ platform \in Platforms
    /\ pc \in [Threads -> {"idle", "lookup", "build", "resolve", "reported"}]
    /\ raw \in [Threads -> Reports \union {<< >>}]
    /\ frames \in [Threads -> Seq(Frame)]
    /\ next \in [Threads -> Nat]
    /\ out \in [Threads -> Seq(Row)]
    /\ \A t \in Threads : pc[t] \in {"lookup", "build", "resolve"} =>
          Len(out[t]) < Len(raw[t]) /\ next[t] \in 1 .. Len(Site(t).frames)
    /\ calls \in 0 .. MaxCalls

\* The return address that a frame is from, counted from the innermost: each
\* has one frame that is not inlined, and that frame comes first.
Outer(s, p) == {q \in 1 .. p : ~s[q].inlined}
From(s, p)  == Cardinality(Outer(s, p))

\* s is what the first n of some return addresses were resolved to.
AreFrom(s, addresses, n) ==
    /\ From(s, Len(s)) = n
    /\ \A p \in 1 .. Len(s) :
          From(s, p) > 0 /\ s[p].address = addresses[From(s, p)]

\* Hits and misses alike, of whichever thread's symbolicator: a symbolicated
\* report has the rows of the raw one, and per row each return address once, in
\* order, with its inlined frames after it (symbolicate/mod.rs:80-89).
RowsKeepTheirFrames ==
    \A t \in Threads : pc[t] = "reported" =>
       /\ Len(out[t]) = Len(raw[t])
       /\ \A n \in 1 .. Len(out[t]) :
             /\ out[t][n].count = raw[t][n].count
             /\ AreFrom(out[t][n].frames, raw[t][n].frames, Len(raw[t][n].frames))

\* Every frame that is memoised, or in a report.
Told(t) == ToSet(frames[t]) \union UNION {ToSet(row.frames) : row \in ToSet(out[t])}
Shown   == (UNION {ToSet(ADDRESS_CACHE[a]) : a \in Addresses})
               \union (UNION {Told(t) : t \in Threads})

\* An address that the debug info covers stays unresolved, in the cache or in a
\* report, only when some thread could not build its symbolicator, or there is
\* none for the platform.
UnresolvedHasCause ==
    (\E f \in Shown : f.function = NoName /\ Known(f.address) # << >>)
       => \/ platform = "other"
          \/ \E o \in DOMAIN SYMBOLICATOR : SYMBOLICATOR[o] = "failed"

\* On Windows all reports agree, for the life of the process, on what an address
\* is: its index is built once, and then every frame names the symbol that the
\* address lies in, or its building failed and none names any
\* (windows.rs:32, 75-77).
OneIndexPerProcess ==
    platform = "windows" =>
       \A f \in Shown :
          \/ f.function = NoName /\ \/ SYMBOLICATOR[Process] = "failed"
                                    \/ Covering(Publics, f.address) = {}
          \/ SYMBOLICATOR[Process] = "built" /\ f.function \in Covering(Publics, f.address)

\* A memoised entry never changes, whoever resolves the address again.
EntriesAreKept ==
    [][\/ ADDRESS_CACHE' = [a \in Addresses |-> << >>]
       \/ \A a \in Addresses : ADDRESS_CACHE[a] # << >> =>
             ADDRESS_CACHE'[a] = ADDRESS_CACHE[a]]_vars

\* On Windows, in whatever order the PDB lists its publics, with aliases at one
\* place or with none at all, the search gives the symbol that the address lies
\* in: before the first, at the boundaries and after the last
\* (windows.rs:58-59, 79-89).
SearchFindsCovering == platform = "windows" => WrongAnswers = {}
=============================================================================
