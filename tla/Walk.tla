-------------------------------- MODULE Walk --------------------------------
(***************************************************************************)
(* The frame-pointer walk of src/backtrace/walk.rs: from the frame pointer *)
(* of the allocation hook up the chain of saved frame pointers, trusting   *)
(* nothing it reads.  One action is one iteration of the loop.             *)
(***************************************************************************)
EXTENDS Integers, Sequences, FiniteSets

CONSTANTS
    Low, High,    \* the StackBounds of the thread
    Top,          \* 2^64: one past the largest u64
    MaxFrames,    \* MAX_FRAMES
    Starts,       \* values that current_fp may return
    Links,        \* values in memory where a saved frame pointer is expected
    Returns       \* values in memory where a return address is expected

ASSUME StackAssumption  == Low \in Nat /\ High \in Nat /\ High < Top
ASSUME TopAssumption    == Top \in Nat
ASSUME FramesAssumption == MaxFrames \in Nat \ {0}
ASSUME WordAssumption   == /\ Starts \subseteq 0 .. Top - 1
                           /\ Links \subseteq 0 .. Top - 1
                           /\ Returns \subseteq 0 .. Top - 1

\* Addresses of 16-byte frame records: saved frame pointer, return address.
Records == {a \in Low .. High : a % 16 = 0 /\ a + 16 <= High}

VARIABLES
    link, return, \* the two words of each record: the stack's contents
    fp,           \* the record to read next
    out,          \* Frames: the return addresses captured, top first
    done,         \* has the walk returned?
    visited       \* history: the records read, in order

vars == <<link, return, fp, out, done, visited>>

Init ==
    /\ link \in [Records -> Links]
    /\ return \in [Records -> Returns]
    /\ fp \in Starts
    /\ out = << >>
    /\ done = FALSE
    /\ visited = << >>

\* Mutant: the last record of the stack is left out.
ReadableBelow(a) == a # 0 /\ a % 16 = 0 /\ a >= Low /\ a + 16 < High

\* The four checks before a read: null, alignment, lower and upper bound, the
\* last with checked_add.
Readable(a) == /\ a # 0
               /\ a % 16 = 0
               /\ a >= Low
               /\ a + 16 < Top /\ a + 16 <= High

\* Mutant: a frame may be its own caller.
LeadsUpOrStays(a) == link[a] = 0 \/ link[a] >= a

\* A saved frame pointer must lead to an older frame, or be the last.
LeadsUp(a) == link[a] = 0 \/ link[a] > a

Reading == ~done /\ Len(out) < MaxFrames /\ Readable(fp)
Capture == out' = Append(out, return[fp])

\* The loop ends after MAX_FRAMES iterations, or at a pointer it cannot trust.
Stop ==
    /\ ~done
    /\ Len(out) = MaxFrames \/ ~Readable(fp)
    /\ done' = TRUE
    /\ UNCHANGED <<link, return, fp, out, visited>>

Follow ==
    /\ Reading /\ LeadsUp(fp) /\ return[fp] # 0
    /\ Capture
    /\ fp' = link[fp]
    /\ visited' = Append(visited, fp)
    /\ UNCHANGED <<link, return, done>>

\* Mutant: the walk breaks off before the return address is captured.
DropAtBadLink ==
    /\ Reading /\ ~LeadsUp(fp)
    /\ visited' = Append(visited, fp)
    /\ done' = TRUE
    /\ UNCHANGED <<link, return, fp, out>>

\* A link that does not lead up: the return address next to it still counts.
StopAtBadLink ==
    /\ Reading /\ ~LeadsUp(fp)
    /\ IF return[fp] # 0 THEN Capture ELSE UNCHANGED out
    /\ visited' = Append(visited, fp)
    /\ done' = TRUE
    /\ UNCHANGED <<link, return, fp>>

StopAtBottom ==
    /\ Reading /\ LeadsUp(fp) /\ return[fp] = 0
    /\ visited' = Append(visited, fp)
    /\ done' = TRUE
    /\ UNCHANGED <<link, return, fp, out>>

\* walk has returned.
Returned == done /\ UNCHANGED vars

Next == Stop \/ Follow \/ StopAtBadLink \/ StopAtBottom \/ Returned

Spec == Init /\ [][Next]_vars

-----------------------------------------------------------------------------
(* Properties.                                                               *)

\* Every variable keeps its type; a trace fits in the eight slots of Frames.
TypeOK ==
    /\ link \in [Records -> Links]
    /\ return \in [Records -> Returns]
    /\ fp \in Starts \union Links
    /\ out \in Seq(Nat) /\ Len(out) <= MaxFrames
    /\ done \in BOOLEAN
    /\ visited \in Seq(Nat)

\* Whatever the stack holds, every record the walk dereferences lies wholly
\* inside the thread's stack and none is read twice, so that a corrupted chain
\* cannot make it leave the stack or go round in circles, and there are at most
\* MAX_FRAMES of them (walk.rs:8-12, 40-42).
ReadsAreSafe ==
    /\ Len(visited) <= MaxFrames
    /\ \A k \in 1 .. Len(visited) : visited[k] \in Records
    /\ \A j, k \in 1 .. Len(visited) : j < k => visited[j] < visited[k]

\* What is captured is, in order, the non-zero return addresses of the records
\* read: none is invented or null, and the only record that may give none is the
\* last of a walk that has ended, because its return address is null
\* (walk.rs:81-104).
CapturesWhatItReads ==
    /\ Len(out) <= Len(visited)
    /\ \A k \in 1 .. Len(out) : out[k] = return[visited[k]] /\ out[k] # 0
    /\ \A k \in 1 .. Len(visited) :
          k > Len(out) => k = Len(visited) /\ done /\ return[visited[k]] = 0

\* A chain of frames that the compiler laid out properly, as the records from
\* the start to the outermost one.
IsChain(s) ==
    /\ \A k \in 1 .. Len(s) : s[k] # 0 /\ return[s[k]] # 0
    /\ \A k \in 1 .. Len(s) - 1 : link[s[k]] = s[k + 1] /\ s[k] < s[k + 1]
    /\ link[s[Len(s)]] = 0

\* The walk of a proper chain returns its innermost MAX_FRAMES return
\* addresses, all of them if there are no more.
ProperChainIsCaptured ==
    done => \A n \in 1 .. Cardinality(Records) : \A s \in [1 .. n -> Records] :
               IsChain(s) /\ visited # << >> /\ s[1] = visited[1] =>
                  /\ Len(out) = IF n < MaxFrames THEN n ELSE MaxFrames
                  /\ \A k \in 1 .. Len(out) : out[k] = return[s[k]]
=============================================================================
