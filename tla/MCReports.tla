----------------------------- MODULE MCReports -----------------------------
(* The two stages of a report, symbolicated_report and then build, for TLC.  *)
(* They share no state.  SymbolReport has two addresses, one with an inlined *)
(* function; the PDB has two publics at one place, and the addresses share   *)
(* their low digits.  DhatJson has every report of up to three sites with    *)
(* one or two of four frames, two of which have one text.                    *)
EXTENDS SymbolReport, DhatJson, TLC

Public(rva, name) == [rva |-> rva, name |-> name]
Pdb  == <<Public(7, "outer"), Public(2, "inner"), Public(2, "outer")>>
Info == 12 :> <<"outer", "inner">> @@ 17 :> << >>

Site1 == [count |-> 1, frames |-> <<12, 17>>]
Site2 == [count |-> 2, frames |-> <<12>>]
RawReports == {<< >>, <<Site1, Site2>>, <<Site2>>}

\* Every list of up to three publics at three places.
SomePublics == {Public(r, n) : r \in {0, 3, 6}, n \in {"outer", "inner"}}
SomeLists   == UNION {[1 .. n -> SomePublics] : n \in 0 .. 3}

FrameOf(address, function, inlined, line, file) ==
    [address |-> address, function |-> function, inlined |-> inlined,
     line |-> line, file |-> file]

SomeFrames == {FrameOf(1, "f", FALSE, 7, "lib"), FrameOf(1, "f", TRUE, 7, "lib"),
               FrameOf(2, "f", FALSE, 7, NoFile), FrameOf(2, "f", FALSE, 8, NoFile)}

Traces   == {<<f>> : f \in SomeFrames} \union (SomeFrames \X SomeFrames)
SomeSite == {[count |-> Len(t), total_bytes |-> 8 * Len(t), frames |-> t] :
                t \in Traces}
SomeReports == UNION {[1 .. n -> SomeSite] : n \in 0 .. 3}

\* Strings of up to three characters: each kind of escape, what an escape is
\* spelt with, the neighbours of its range, and one beyond ASCII.
Characters  == {1, 9, 10, 13, 31, 32, 34, 48, 92, 98, 110, 117, 233}
SomeStrings == UNION {[1 .. n -> Characters] : n \in 0 .. 3}

ReportsInit == Init /\ JsonInit

\* Since the stages share no state, their interleavings tell nothing more:
\* threads symbolicate beside the document of the empty report only.
Symbolicate == report = << >> /\ Next /\ UNCHANGED json
WriteJson   == JsonNext /\ UNCHANGED vars

ReportsSpec == ReportsInit /\ [][Symbolicate \/ WriteJson]_<<vars, json>>

Symmetry == Permutations(Threads)
=============================================================================
