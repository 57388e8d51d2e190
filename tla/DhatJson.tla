------------------------------ MODULE DhatJson ------------------------------
(***************************************************************************)
(* src/dhat_json: a report becomes a DHAT document.  Frames are turned     *)
(* into texts, each text is stored once in a frame table, and a program    *)
(* point refers to its frames by their indices, which start at 0.          *)
(* One action is one iteration of a loop of build, or render.              *)
(***************************************************************************)
EXTENDS Integers, Sequences, JsonString

CONSTANTS
    Frames,      \* symbolicated frames: address, function, inlined, file, line
    JsonReports, \* reports: sequences of call sites
    NoFile,      \* `file: None`
    Root         \* the text "[root]"

\* What tells the texts of two frames apart: a line is shown with its file only.
\* A raw frame is one of which nothing but the address is known.
Format(frame) ==
    [address  |-> frame.address,
     function |-> frame.function,
     inlined  |-> frame.inlined,
     place    |-> IF frame.file = NoFile THEN NoFile
                                         ELSE <<frame.file, frame.line>>]

Texts == {Format(frame) : frame \in Frames}
Sites == [count : Nat, total_bytes : Nat, frames : Seq(Frames)]

\* A frame's text starts with "0x".
ASSUME RootAssumption   == Root \notin Texts
ASSUME JsonAssumption == JsonReports \subseteq Seq(Sites)

VARIABLES
    report,   \* what symbolicated_report, or call_sites_report, returned
    entries,  \* FrameTable.entries
    intern,   \* FrameTable.intern: text -> index
    pps,      \* program points finished
    indices,  \* frame indices of the current site
    doc       \* << >>, then the document rendered

json == <<report, entries, intern, pps, indices, doc>>

Empty == [text \in {} |-> 0]

JsonInit ==
    /\ report \in JsonReports
    /\ entries = <<Root>>
    /\ intern = Empty
    /\ pps = << >>
    /\ indices = << >>
    /\ doc = << >>

Building    == Len(pps) < Len(report)
CurrentSite == report[Len(pps) + 1]
Text        == Format(CurrentSite.frames[Len(indices) + 1])

NextIndex        == Len(entries)

InternKnown ==
    /\ Building /\ Len(indices) < Len(CurrentSite.frames)
    /\ Text \in DOMAIN intern
    /\ indices' = Append(indices, intern[Text])
    /\ UNCHANGED <<report, entries, intern, pps, doc>>

\* Mutant: the text is not remembered.
InternForgets ==
    /\ Building /\ Len(indices) < Len(CurrentSite.frames)
    /\ Text \notin DOMAIN intern
    /\ entries' = Append(entries, Text)
    /\ indices' = Append(indices, NextIndex)
    /\ UNCHANGED <<report, intern, pps, doc>>

InternNew ==
    /\ Building /\ Len(indices) < Len(CurrentSite.frames)
    /\ Text \notin DOMAIN intern
    /\ entries' = Append(entries, Text)
    /\ intern' = [text \in DOMAIN intern \union {Text} |->
                     IF text = Text THEN NextIndex ELSE intern[text]]
    /\ indices' = Append(indices, NextIndex)
    /\ UNCHANGED <<report, pps, doc>>

Point == [total_bytes   |-> CurrentSite.total_bytes,
          count         |-> CurrentSite.count,
          frame_indices |-> indices]

\* Mutant: the indices of one site run on into the next.
PushAndKeep ==
    /\ Building /\ Len(indices) >= Len(CurrentSite.frames)
    /\ pps' = Append(pps, Point)
    /\ UNCHANGED <<report, entries, intern, indices, doc>>

PushPoint ==
    /\ Building /\ Len(indices) = Len(CurrentSite.frames)
    /\ pps' = Append(pps, Point)
    /\ indices' = << >>
    /\ UNCHANGED <<report, entries, intern, doc>>

write_pp(pp) == [tb |-> pp.total_bytes, tbk |-> pp.count, eb |-> 0, ebk |-> 0,
                 fs |-> pp.frame_indices]

Render ==
    /\ ~Building /\ doc = << >>
    /\ doc' = <<[pps  |-> [n \in 1 .. Len(pps) |-> write_pp(pps[n])],
                 ftbl |-> entries]>>
    /\ UNCHANGED <<report, entries, intern, pps, indices>>

Rendered == doc # << >> /\ UNCHANGED json

JsonNext == InternKnown \/ InternNew \/ PushPoint \/ Render \/ Rendered

JsonSpec == JsonInit /\ [][JsonNext]_json

-----------------------------------------------------------------------------
(* Properties.                                                               *)

Indices == 0 .. Len(entries) - 1
Points  == [total_bytes : Nat, count : Nat, frame_indices : Seq(Indices)]

\* Every variable keeps its type: no index leaves the frame table.
JsonTypeOK ==
    /\ report \in Seq(Sites)
    /\ entries \in Seq(Texts \union {Root})
    /\ DOMAIN intern \subseteq Texts
    /\ \A text \in DOMAIN intern : intern[text] \in Indices
    /\ pps \in Seq(Points)
    /\ indices \in Seq(Indices)
    /\ doc # << >> => /\ doc[1].ftbl = entries
                      /\ Len(doc[1].pps) = Len(pps)

\* A reader of the document finds in it the report it was made of: a point per
\* site, with its bytes, its allocations and the texts of its frames in order
\* (dhat_json/mod.rs:14-19, frames.rs:41-49).
DocumentIsReport ==
    doc # << >> =>
       /\ Len(doc[1].pps) = Len(report)
       /\ \A n \in 1 .. Len(report) :
             LET pp == doc[1].pps[n] IN
             /\ pp.tb = report[n].total_bytes
             /\ pp.tbk = report[n].count
             /\ Len(pp.fs) = Len(report[n].frames)
             /\ \A k \in 1 .. Len(report[n].frames) :
                   doc[1].ftbl[pp.fs[k] + 1] = Format(report[n].frames[k])

IsUsed(j) ==
    \/ \E n \in 1 .. Len(pps) : \E k \in 1 .. Len(pps[n].frame_indices) :
          pps[n].frame_indices[k] = j
    \/ \E k \in 1 .. Len(indices) : indices[k] = j

\* "[root]" and then each text that some site shows, once
\* (dhat_json/mod.rs:19, frames.rs:6-8): no text twice, none that is not used.
TableIsMinimal ==
    /\ entries[1] = Root
    /\ \A j, k \in 1 .. Len(entries) : entries[j] = entries[k] => j = k
    /\ \A j \in 2 .. Len(entries) : IsUsed(j - 1)

\* When a document is rendered, whatever a function's name or a path holds, with
\* quotes, backslashes and control characters, a reader of the document gets it
\* back: no character ends the literal early or runs into the escape before it
\* (writer.rs:13-29).
StringsReadBack == doc # << >> => Misread = {}
=============================================================================
