----------------------------- MODULE DhatCompat -----------------------------
(***************************************************************************)
(* src/dhat_compat: profilers that write their report when they are        *)
(* dropped, possibly several at once and to the same file, and the two     *)
(* ad-hoc counters.  std::fs::write truncates the file as it opens it and  *)
(* then writes from its start; a content is a sequence of pieces.          *)
(***************************************************************************)
EXTENDS Integers, Sequences, FiniteSets, FiniteSetsExt, Functions

CONSTANTS
    Profilers,   \* values of type Profiler
    Callers,     \* threads that call ad_hoc_event
    Weights,     \* arguments of ad_hoc_event
    FileNames,   \* arguments of file_name
    NoName,      \* `file_name: None`
    MaxSites,    \* bound: call sites recorded
    MaxEvents    \* bound: calls of ad_hoc_event

ASSUME WeightAssumption == Weights \subseteq Nat
ASSUME NameAssumption   == NoName \notin FileNames
ASSUME BoundAssumption  == MaxSites \in Nat /\ MaxEvents \in Nat
ASSUME FiniteAssumption == IsFiniteSet(Callers)

HeapFile  == "dhat-heap.json"
AdHocFile == "dhat-ad-hoc.json"
Paths     == FileNames \union {HeapFile, AdHocFile}

\* trim_backtraces is stored as well, and read by nothing.
Config == [mode : {"Heap", "AdHoc"}, file_name : FileNames \union {NoName},
           testing : BOOLEAN]
Default == [mode |-> "Heap", file_name |-> NoName, testing |-> FALSE]

VARIABLES
    PROFILER_ACTIVE,
    AD_HOC_EVENTS, AD_HOC_UNITS,
    weight,     \* per caller: the weight still to add; 0 outside ad_hoc_event
    pc,         \* per caller and profiler: where it is in its call, life or drop
    config,     \* the configuration of each profiler
    stats,      \* the AdHocStats a drop has read
    body,       \* the report a drop has rendered
    sites,      \* rows of the call-site table
    file,       \* path -> content; << >> also when there is no file
    begun,      \* history: events begun, and their units
    before,     \* history: events complete when a drop began, and their units
    crowded,    \* history: paths that two drops had open at a time
    failed      \* history: drops whose write failed

counters == <<AD_HOC_EVENTS, AD_HOC_UNITS, weight, begun>>
reports  == <<stats, body, before>>
disk     == <<file, crowded, failed>>
vars     == <<PROFILER_ACTIVE, counters, pc, config, reports, sites, disk>>

NoEvents == [events |-> 0, units |-> 0]

Init ==
    /\ PROFILER_ACTIVE = FALSE
    /\ AD_HOC_EVENTS = 0 /\ AD_HOC_UNITS = 0
    /\ weight = [t \in Callers |-> 0]
    /\ pc     = [x \in Callers \union Profilers |->
                    IF x \in Callers THEN "idle" ELSE "unborn"]
    /\ config = [p \in Profilers |-> Default]
    /\ stats  = [p \in Profilers |-> NoEvents]
    /\ body   = [p \in Profilers |-> << >>]
    /\ sites  = 0
    /\ file   = [path \in Paths |-> << >>]
    /\ begun  = NoEvents
    /\ before = [p \in Profilers |-> NoEvents]
    /\ crowded = {}
    /\ failed = {}

Goto(x, where) == pc' = [pc EXCEPT ![x] = where]

-----------------------------------------------------------------------------
(* What the program does meanwhile.                                          *)

\* The allocator hook claims a bucket for one more call site.
RecordSite ==
    /\ sites < MaxSites
    /\ sites' = sites + 1
    /\ UNCHANGED <<PROFILER_ACTIVE, counters, pc, config, reports, disk>>

\* ad_hoc_event, its first fetch_add
CountEvent(t) ==
    /\ pc[t] = "idle" /\ begun.events < MaxEvents
    /\ \E w \in Weights :
          /\ weight' = [weight EXCEPT ![t] = w]
          /\ begun' = [events |-> begun.events + 1, units |-> begun.units + w]
    /\ AD_HOC_EVENTS' = AD_HOC_EVENTS + 1
    /\ Goto(t, "counted")
    /\ UNCHANGED <<PROFILER_ACTIVE, AD_HOC_UNITS, config, reports, sites, disk>>

PlusOne(sum, w) == sum + 1      \* mutant: an event counts as one unit
PlusUnits(sum, w) == sum + w

\* ad_hoc_event, its second fetch_add
CountUnits(t) ==
    /\ pc[t] = "counted"
    /\ AD_HOC_UNITS' = PlusUnits(AD_HOC_UNITS, weight[t])
    /\ weight' = [weight EXCEPT ![t] = 0]
    /\ Goto(t, "idle")
    /\ UNCHANGED <<PROFILER_ACTIVE, AD_HOC_EVENTS, begun, config, reports, sites,
                   disk>>

Pending  == {t \in Callers : pc[t] = "counted"}
Complete == [events |-> begun.events - Cardinality(Pending),
             units  |-> begun.units - MapThenSumSet(LAMBDA t : weight[t], Pending)]

-----------------------------------------------------------------------------
(* Profiler.                                                                 *)

\* new_heap, new_ad_hoc, or a chain of builder calls that ends in build.
Install(p) ==
    /\ pc[p] = "unborn"
    /\ \E c \in Config : config' = [config EXCEPT ![p] = c]
    /\ PROFILER_ACTIVE' = TRUE
    /\ Goto(p, "alive")
    /\ UNCHANGED <<counters, reports, sites, disk>>

Path(p) ==
    IF config[p].file_name # NoName THEN config[p].file_name
    ELSE IF config[p].mode = "Heap" THEN HeapFile ELSE AdHocFile

IsSilentNever(p) == FALSE       \* mutant: a testing profiler writes as well
IsSilent(p) == config[p].testing

Drop(p) ==
    /\ pc[p] = "alive"
    /\ PROFILER_ACTIVE' = FALSE
    /\ Goto(p, CASE IsSilent(p)                                 -> "dropped"
                 [] ~IsSilent(p) /\ config[p].mode = "Heap"     -> "render"
                 [] ~IsSilent(p) /\ config[p].mode = "AdHoc"    -> "load_events")
    /\ before' = [before EXCEPT ![p] = Complete]
    /\ UNCHANGED <<counters, config, stats, body, sites, disk>>

\* A report is as long as what it reports.  Its pieces know who wrote it, in
\* which mode, and its length.
Piece(p, mode, length) == [by |-> p, mode |-> mode, of |-> length]
Pieces(p, mode, length) ==
    [k \in 1 .. length |-> Piece(p, mode, length)]

RenderHeap(p) ==
    /\ pc[p] = "render"
    /\ body' = [body EXCEPT ![p] = Pieces(p, "Heap", sites + 1)]
    /\ Goto(p, "create")
    /\ UNCHANGED <<PROFILER_ACTIVE, counters, config, stats, before, sites, disk>>

LoadEvents(p) ==
    /\ pc[p] = "load_events"
    /\ stats' = [stats EXCEPT ![p].events = AD_HOC_EVENTS]
    /\ Goto(p, "load_units")
    /\ UNCHANGED <<PROFILER_ACTIVE, counters, config, body, before, sites, disk>>

\* The ad-hoc report has a single program point, however many events.
LoadUnits(p) ==
    /\ pc[p] = "load_units"
    /\ stats' = [stats EXCEPT ![p].units = AD_HOC_UNITS]
    /\ body' = [body EXCEPT ![p] = Pieces(p, "AdHoc", 1)]
    /\ Goto(p, "create")
    /\ UNCHANGED <<PROFILER_ACTIVE, counters, config, before, sites, disk>>

Writers(path) == {p \in Profilers : pc[p] = "write" /\ Path(p) = path}

\* Mutant: the file is opened without truncating it.
CreateOver(p) ==
    /\ pc[p] = "create"
    /\ crowded' = IF Writers(Path(p)) = {} THEN crowded
                                           ELSE crowded \union {Path(p)}
    /\ Goto(p, "write")
    /\ UNCHANGED <<PROFILER_ACTIVE, counters, config, reports, sites, file, failed>>

Create(p) ==
    /\ pc[p] = "create"
    /\ file' = [file EXCEPT ![Path(p)] = << >>]
    /\ crowded' = IF Writers(Path(p)) = {} THEN crowded
                                           ELSE crowded \union {Path(p)}
    /\ Goto(p, "write")
    /\ UNCHANGED <<PROFILER_ACTIVE, counters, config, reports, sites, failed>>

\* What lies beyond the bytes written stays.
Write(p) ==
    /\ pc[p] = "write"
    /\ file' = [file EXCEPT ![Path(p)] =
                   body[p] \o SubSeq(@, Len(body[p]) + 1, Len(@))]
    /\ Goto(p, "dropped")
    /\ UNCHANGED <<PROFILER_ACTIVE, counters, config, reports, sites, crowded, failed>>

\* Errors are swallowed: the file could not be opened, or the disk is full
\* after some of the report.
Fail(p) ==
    /\ \/ pc[p] = "create" /\ UNCHANGED file
       \/ /\ pc[p] = "write"
          /\ \E n \in 0 .. Len(body[p]) - 1 :
                file' = [file EXCEPT ![Path(p)] =
                            SubSeq(body[p], 1, n) \o SubSeq(@, n + 1, Len(@))]
    /\ failed' = failed \union {p}
    /\ Goto(p, "dropped")
    /\ UNCHANGED <<PROFILER_ACTIVE, counters, config, reports, sites, crowded>>

\* Nothing is left to do.
Rest ==
    /\ sites = MaxSites /\ begun.events = MaxEvents
    /\ \A t \in Callers : pc[t] = "idle"
    /\ \A p \in Profilers : pc[p] = "dropped"
    /\ UNCHANGED vars

Next == \/ RecordSite
        \/ \E t \in Callers : CountEvent(t) \/ CountUnits(t)
        \/ \E p \in Profilers :
              \/ Install(p) \/ Drop(p)
              \/ RenderHeap(p) \/ LoadEvents(p) \/ LoadUnits(p)
              \/ Create(p) \/ Write(p) \/ Fail(p)
        \/ Rest

Spec == Init /\ [][Next]_vars

-----------------------------------------------------------------------------
(* Properties.                                                               *)

PieceType == [by : Profilers, mode : {"Heap", "AdHoc"}, of : 1 .. MaxSites + 1]

\* Every variable keeps its type.
TypeOK ==
    /\ PROFILER_ACTIVE \in BOOLEAN
    /\ AD_HOC_EVENTS \in 0 .. MaxEvents
    /\ AD_HOC_UNITS \in Nat
    /\ weight \in [Callers -> Weights \union {0}]
    /\ pc \in [Callers \union Profilers ->
                  {"idle", "counted", "unborn", "alive", "render", "load_events",
                   "load_units", "create", "write", "dropped"}]
    /\ config \in [Profilers -> Config]
    /\ stats \in [Profilers -> [events : 0 .. MaxEvents, units : Nat]]
    /\ body \in [Profilers -> Seq(PieceType)]
    /\ sites \in 0 .. MaxSites
    /\ file \in [Paths -> Seq(PieceType)]
    /\ \A p \in Profilers : pc[p] \in {"create", "write"} => body[p] # << >>

\* An ad-hoc report counts every event that was complete when its profiler was
\* dropped, and none that had not begun (stats.rs:90-93); the events and the
\* units it shows may still belong to different sets of calls.
AdHocIsBounded ==
    /\ AD_HOC_UNITS = Complete.units
    /\ \A p \in Profilers :
          pc[p] \in {"create", "write", "dropped"} /\ body[p] # << >>
             /\ config[p].mode = "AdHoc" =>
          /\ before[p].events <= stats[p].events
          /\ stats[p].events <= begun.events
          /\ before[p].units <= stats[p].units
          /\ stats[p].units <= begun.units

\* content is a report from its first piece to its last.
IsWhole(content) ==
    \A k \in DOMAIN content : content[k] = content[1] /\ content[k].of = Len(content)

\* Profilers that are not dropped at the same time, or not to the same file,
\* leave a whole report there, or what a failed write left
\* (profiler.rs:99-103, dhat_compat/mod.rs:34-35).
UndisturbedIsWhole ==
    \A path \in Paths \ crowded :
       Writers(path) = {} /\ (\A p \in failed : Path(p) # path)
          => IsWhole(file[path])

\* What is found in a file was written by profilers that are not testing, whose
\* reports go there, and is of their mode (profiler.rs:85-86, 163-172).
OnlyOwnFiles ==
    \A path \in Paths : \A k \in DOMAIN file[path] :
       LET p == file[path][k].by IN
       /\ Path(p) = path
       /\ ~config[p].testing
       /\ file[path][k].mode = config[p].mode

\* "Last writer wins on the JSON file" (dhat_compat/mod.rs:35): without a failed
\* write, a file that nobody is writing shows the report of one profiler.
LastWriterWins ==
    failed = {} => \A path \in Paths : Writers(path) = {} => IsWhole(file[path])
=============================================================================
