---------------------------- MODULE TrackedAlloc ----------------------------
(***************************************************************************)
(* ModAlloc with the backtraces feature: inside the guard, and after the   *)
(* counters, every alloc and realloc records one event in the call-site    *)
(* table, unless its capture or the table gives up.  The table is taken as *)
(* SiteTally promises it, added up over its sites: it counts the event,    *)
(* then its bytes.                                                         *)
(***************************************************************************)
EXTENDS ModAlloc

VARIABLES
    tally,     \* the events and bytes that the table has counted
    recording, \* where the record_event of a thread in the hook is
    given_up,  \* history: events since the last reset that were not recorded
    at_reset   \* history: events the table had when the counters were reset

tracked == <<tally, recording, given_up, at_reset>>

TrackedInit ==
    /\ Init
    /\ tally = [events |-> 0, bytes |-> 0]
    /\ recording = [t \in Threads |-> "capture"]
    /\ given_up = 0 /\ at_reset = 0

\* No frame pointer, no bounds, no frames, no pages, or no bucket left.
GiveUp(t) ==
    /\ pc[t] = "event" /\ recording[t] = "capture"
    /\ recording' = [recording EXCEPT ![t] = "done"]
    /\ given_up' = given_up + 1
    /\ UNCHANGED <<vars, tally, at_reset>>

RecordCount(t) ==
    /\ pc[t] = "event" /\ recording[t] = "capture"
    /\ tally' = [tally EXCEPT !.events = @ + 1]
    /\ recording' = [recording EXCEPT ![t] = "bytes"]
    /\ UNCHANGED <<vars, given_up, at_reset>>

\* Mutant: a realloc records what it adds.
EventGrowth(t) == Delta(t)

\* alloc records its size, realloc its new size, also when it shrinks.
EventSize(t) == arg[t].new

RecordBytes(t) ==
    /\ pc[t] = "event" /\ recording[t] = "bytes"
    /\ tally' = [tally EXCEPT !.bytes = @ + EventSize(t)]
    /\ recording' = [recording EXCEPT ![t] = "done"]
    /\ UNCHANGED <<vars, given_up, at_reset>>

\* A step of ModAlloc, where the hook is left only when record_event has returned,
\* and reset leaves the table as it is.
AllocatorStep ==
    /\ Next
    /\ \A t \in Threads :
          pc[t] = "event" /\ pc'[t] # "event" => recording[t] = "done"
    /\ recording' = [t \in Threads |->
                        IF pc'[t] = "event" THEN recording[t] ELSE "capture"]
    /\ \/ counters.alloc_count # 0 /\ counters'.alloc_count = 0
          /\ at_reset' = tally.events /\ given_up' = 0
       \/ (counters.alloc_count = 0 \/ counters'.alloc_count # 0)
          /\ UNCHANGED <<at_reset, given_up>>
    /\ UNCHANGED tally

TrackedNext ==
    \/ AllocatorStep
    \/ \E t \in Threads : GiveUp(t) \/ RecordCount(t) \/ RecordBytes(t)

TrackedSpec == TrackedInit /\ [][TrackedNext]_<<vars, tracked>>

-----------------------------------------------------------------------------
(* Properties.                                                               *)

\* At rest, whatever the hook allocated for itself and whoever was interrupted
\* where, the table and the counters tell one story: every event that was counted
\* was recorded once or given up, a reset of the counters is the only gap between
\* them, and, when nothing was given up, the sites have no fewer bytes than were
\* allocated: a realloc counts its growth and records its new size
\* (lib.rs:469-480, 518-530).
TableTellsTheSame ==
    AtRest =>
       /\ counters.alloc_count + at_reset = tally.events + given_up
       /\ given_up = 0 => tally.bytes >= counters.total_bytes
=============================================================================
