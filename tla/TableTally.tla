----------------------------- MODULE TableTally -----------------------------
(***************************************************************************)
(* CallSiteTable implements SiteTally: the tally of a site is the sum over *)
(* the buckets that carry its hash (two, when a thread with a mask of 0    *)
(* has claimed bucket 0), shown once a bucket's frame_count is stored.     *)
(***************************************************************************)
EXTENDS CallSiteTable

VARIABLE setUpBefore   \* history: was the bucket count stored when a call began?

TallyInit == Init /\ setUpBefore = [t \in Threads |-> FALSE]

TallyNext ==
    /\ Next
    /\ setUpBefore' = [t \in Threads |->
          CASE pc'[t] = "idle" -> FALSE
            [] pc[t] = "idle" /\ pc'[t] # "idle" -> TABLE_BUCKETS # 0
            [] OTHER -> setUpBefore[t]]

TallySpec == /\ TallyInit /\ [][TallyNext]_<<vars, setUpBefore>>
             /\ \A t \in Threads : WF_vars(Step(t))

-----------------------------------------------------------------------------
\* Two columns of counters, added up over a set of buckets or rows.
Tallied(events, bytes, S) == [events |-> Total(events, S), bytes |-> Total(bytes, S)]

\* Per site, what its buckets among these have counted.
TallyOf(slots) ==
    [h \in Hashes |-> Tallied(count, total_bytes, SlotsOf(h) \intersect slots)]

\* What a thread's report has to contain: what was published when it began.
Floor(t) ==
    LET had    == DOMAIN before[t]
        events == [i \in had |-> before[t][i].events]
        bytes  == [i \in had |-> before[t][i].bytes]
    IN  [h \in Hashes |-> Tallied(events, bytes, SlotsOf(h) \intersect had)]

Question(t) == IF call[t].op # "report" THEN Null
               ELSE [floor |-> Floor(t), ready |-> setUpBefore[t]]

\* What it does contain: the rows of each site, added up.
Contents(t) ==
    LET rows   == 1 .. Len(out[t])
        events == [n \in rows |-> out[t][n].count]
        bytes  == [n \in rows |-> out[t][n].total_bytes]
    IN  [h \in Hashes |->
            Tallied(events, bytes, {n \in rows : hash[out[t][n].slot] = h})]

Reported(t) == IF pc[t] # "reported" THEN Null ELSE Contents(t)

\* The null pointer is no report.
Tallies == [Hashes -> [events : Int, bytes : Int]]
ASSUME NoneAssumption == /\ Null \notin Tallies
                         /\ Null \notin [floor : Tallies, ready : BOOLEAN]

Tally == INSTANCE SiteTally WITH
            Sites  <- Hashes, Askers <- Threads, Amounts <- Sizes, None <- Null,
            ready  <- TABLE_BUCKETS # 0,
            hidden <- TallyOf(Slots \ Published),
            shown  <- TallyOf(Published),
            asked  <- [t \in Threads |-> Question(t)],
            answer <- [t \in Threads |-> Reported(t)]

\* Seen from outside, the lock-free table is a tally per site: every atomic
\* access counts one event or one event's bytes for one site, shows a site, or
\* changes nothing, and a report that was asked for once the table was there
\* gives every site no less than was shown then and no more than is shown when
\* it is given, whoever records meanwhile (table.rs:160-273).
ImplementsTally == Tally!Spec
=============================================================================
