----------------------------- MODULE SiteTally -----------------------------
(***************************************************************************)
(* What the call-site table promises, without buckets, probes or masks: a  *)
(* tally of events and bytes per site, and reports of it.  What has been   *)
(* counted for a site is hidden until its row is shown; a report gives     *)
(* every site a tally between what was shown when it was asked for and     *)
(* what is shown when it is given.                                         *)
(***************************************************************************)
EXTENDS Integers

CONSTANTS Sites, Askers, Amounts, None

VARIABLES
    ready,    \* has the table been set up?
    hidden,   \* per site, what is counted in rows not shown yet
    shown,    \* per site, what is counted in rows a report finds
    asked,    \* what each asker's report has to contain, or None
    answer    \* the report each asker has been given, or None

vars == <<ready, hidden, shown, asked, answer>>

Nothing == [events |-> 0, bytes |-> 0]
Empty   == [s \in Sites |-> Nothing]

Plus(x, y)   == [events |-> x.events + y.events, bytes |-> x.bytes + y.bytes]
Minus(x, y)  == [events |-> x.events - y.events, bytes |-> x.bytes - y.bytes]
UpTo(x)      == [events : 0 .. x.events, bytes : 0 .. x.bytes]
AnEventOrSize == {[Nothing EXCEPT !.events = 1]}
                 \union {[Nothing EXCEPT !.bytes = n] : n \in Amounts}

Init ==
    /\ ready = FALSE
    /\ hidden = Empty /\ shown = Empty
    /\ asked = [a \in Askers |-> None] /\ answer = [a \in Askers |-> None]

SetUp ==
    /\ ready' = TRUE
    /\ UNCHANGED <<hidden, shown, asked, answer>>

\* One event, or the bytes of one, are counted for a site.
Count(s) ==
    /\ \E x \in AnEventOrSize :
          \/ hidden' = [hidden EXCEPT ![s] = Plus(@, x)] /\ UNCHANGED shown
          \/ shown[s].events > 0 /\ shown' = [shown EXCEPT ![s] = Plus(@, x)]
             /\ UNCHANGED hidden
    /\ UNCHANGED <<ready, asked, answer>>

\* A row is shown, with at least an event and its bytes.
Show(s) ==
    /\ \E x \in UpTo(hidden[s]) :
          /\ x.events > 0 /\ x.bytes > 0
          /\ hidden' = [hidden EXCEPT ![s] = Minus(@, x)]
          /\ shown'  = [shown EXCEPT ![s] = Plus(@, x)]
    /\ UNCHANGED <<ready, asked, answer>>

Ask(a) ==
    /\ asked[a] = None
    /\ asked' = [asked EXCEPT ![a] = [floor |-> shown, ready |-> ready]]
    /\ UNCHANGED <<ready, hidden, shown, answer>>

\* Before the table was set up a report may be empty, whatever is shown.
Answers(question) ==
    {f \in [Sites -> UNION {UpTo(shown[s]) : s \in Sites}] :
        \A s \in Sites : f[s] \in UpTo(shown[s])
                         /\ question.floor[s] \in UpTo(f[s])}
    \union {f \in {Empty} : ~question.ready}

Answer(a) ==
    /\ asked[a] # None /\ answer[a] = None
    /\ \E f \in Answers(asked[a]) : answer' = [answer EXCEPT ![a] = f]
    /\ UNCHANGED <<ready, hidden, shown, asked>>

Take(a) ==
    /\ answer[a] # None
    /\ asked'  = [asked EXCEPT ![a] = None]
    /\ answer' = [answer EXCEPT ![a] = None]
    /\ UNCHANGED <<ready, hidden, shown>>

Clear ==
    /\ \A a \in Askers : asked[a] = None
    /\ ready' = TRUE
    /\ hidden' = Empty /\ shown' = Empty
    /\ UNCHANGED <<asked, answer>>

Next == \/ SetUp \/ Clear
        \/ \E s \in Sites : Count(s) \/ Show(s)
        \/ \E a \in Askers : Ask(a) \/ Answer(a) \/ Take(a)

Spec == Init /\ [][Next]_vars
=============================================================================
