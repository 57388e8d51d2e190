--------------------------- MODULE DhatJson_proofs ---------------------------
(***************************************************************************)
(* The document is the report it was made of, for every report, and its    *)
(* strings are those that were to be written, whatever they hold.          *)
(***************************************************************************)
EXTENDS DhatJson, Arithmetic, TLAPS

\* The frame table and the map of texts say the same.
TableInv ==
    /\ Len(entries) >= 1
    /\ entries[1] = Root
    /\ \A text \in DOMAIN intern :
          /\ intern[text] \in 1 .. Len(entries) - 1
          /\ entries[intern[text] + 1] = text
    /\ \A j \in 2 .. Len(entries) :
          entries[j] \in DOMAIN intern /\ intern[entries[j]] = j - 1

\* A sequence of indices names a sequence of frames.
Names(fs, frames) ==
    \A k \in 1 .. Len(fs) : entries[fs[k] + 1] = Format(frames[k])

PointIs(pp, site) ==
    /\ pp.total_bytes = site.total_bytes
    /\ pp.count = site.count
    /\ Len(pp.frame_indices) = Len(site.frames)
    /\ Names(pp.frame_indices, site.frames)

PointInv ==
    /\ Len(pps) <= Len(report)
    /\ \A n \in 1 .. Len(pps) : PointIs(pps[n], report[n])
    /\ Building => /\ Len(indices) <= Len(CurrentSite.frames)
                   /\ Names(indices, CurrentSite.frames)

UsedInv == \A j \in 2 .. Len(entries) : IsUsed(j - 1)

DocInv ==
    doc # << >> =>
       /\ Len(pps) = Len(report)
       /\ doc = <<[pps  |-> [n \in 1 .. Len(pps) |-> write_pp(pps[n])],
                   ftbl |-> entries]>>

IInv == JsonTypeOK /\ TableInv /\ PointInv /\ UsedInv /\ DocInv

LEMMA InitInv == JsonInit => IInv
<1> SUFFICES ASSUME JsonInit PROVE IInv
  OBVIOUS
<1>1. entries \in Seq(Texts \union {Root}) /\ Len(entries) = 1 /\ entries[1] = Root
  BY DEF JsonInit
<1>2. DOMAIN intern = {}
  BY DEF JsonInit, Empty
<1>3. /\ pps \in Seq(Points) /\ Len(pps) = 0 /\ indices \in Seq(Indices)
      /\ Len(indices) = 0
  BY DEF JsonInit
<1>4. report \in Seq(Sites) /\ doc = << >>
  BY JsonAssumption DEF JsonInit
<1>5. JsonTypeOK
  BY <1>1, <1>2, <1>3, <1>4 DEF JsonTypeOK
<1>6. TableInv /\ UsedInv
  BY <1>1, <1>2 DEF TableInv, UsedInv
<1>7. PointInv
  <2>1. Building => CurrentSite \in Sites
    BY <1>3, <1>4 DEF Building, CurrentSite
  <2>2. Building => Len(CurrentSite.frames) \in Nat
    BY <2>1 DEF Sites
  <2> QED BY <1>3, <1>4, <2>2 DEF PointInv, Names
<1> QED BY <1>4, <1>5, <1>6, <1>7 DEF IInv, DocInv

\* The current text is that of a frame of the current site.
LEMMA CurrentText ==
    ASSUME JsonTypeOK, Building, Len(indices) < Len(CurrentSite.frames)
    PROVE  /\ CurrentSite \in Sites
           /\ CurrentSite.frames \in Seq(Frames)
           /\ Len(indices) + 1 \in 1 .. Len(CurrentSite.frames)
           /\ Text \in Texts
<1>1. CurrentSite \in Sites
  BY DEF JsonTypeOK, Building, CurrentSite
<1>2. CurrentSite.frames \in Seq(Frames)
  BY <1>1 DEF Sites
<1>3. Len(indices) \in Nat
  BY DEF JsonTypeOK
<1>4. Len(indices) + 1 \in 1 .. Len(CurrentSite.frames)
  BY <1>2, <1>3
<1>5. CurrentSite.frames[Len(indices) + 1] \in Frames
  BY <1>2, <1>4
<1> QED BY <1>1, <1>2, <1>4, <1>5 DEF Text, Texts

LEMMA KnownKeepsInv == IInv /\ InternKnown => IInv'
<1> SUFFICES ASSUME IInv, InternKnown PROVE IInv'
  OBVIOUS
<1>1. /\ JsonTypeOK /\ TableInv /\ PointInv /\ UsedInv /\ DocInv
      /\ Building /\ Len(indices) < Len(CurrentSite.frames)
      /\ Text \in DOMAIN intern
      /\ indices' = Append(indices, intern[Text])
      /\ UNCHANGED <<report, entries, intern, pps, doc>>
  BY DEF IInv, InternKnown
<1>2. intern[Text] \in Indices
  BY <1>1 DEF JsonTypeOK
<1>3. indices \in Seq(Indices) /\ Indices' = Indices
  BY <1>1 DEF JsonTypeOK, Indices
<1>4. /\ indices' \in Seq(Indices) /\ Len(indices') = Len(indices) + 1
      /\ \A k \in 1 .. Len(indices) : indices'[k] = indices[k]
      /\ indices'[Len(indices) + 1] = intern[Text]
  BY <1>1, <1>2, <1>3
<1>5. JsonTypeOK'
  BY <1>1, <1>3, <1>4 DEF JsonTypeOK, Points
<1>6. TableInv'
  BY <1>1 DEF TableInv
<1>7. PointInv'
  <2>1. Building' /\ CurrentSite' = CurrentSite /\ CurrentSite.frames \in Seq(Frames)
    BY <1>1, CurrentText DEF Building, CurrentSite
  <2>2. Len(indices') <= Len(CurrentSite.frames)
    BY <1>1, <1>3, <1>4, <2>1
  <2>3. Names(indices, CurrentSite.frames)
    BY <1>1 DEF PointInv
  <2>4. entries[intern[Text] + 1] = Text
    BY <1>1 DEF TableInv
  <2>5. ASSUME NEW k \in 1 .. Len(indices') PROVE entries[indices'[k] + 1] = Format(CurrentSite.frames[k])
    <3>1. CASE k \in 1 .. Len(indices)
      BY <3>1, <1>4, <2>3 DEF Names
    <3>2. CASE k = Len(indices) + 1
      BY <3>2, <1>4, <2>4 DEF Text
    <3> QED BY <3>1, <3>2, <1>3, <1>4
  <2>6. Names(indices, CurrentSite.frames)'
    BY <1>1, <2>1, <2>5 DEF Names
  <2>7. \A n \in 1 .. Len(pps) : PointIs(pps[n], report[n])'
    BY <1>1 DEF PointInv, PointIs, Names
  <2> QED BY <1>1, <2>1, <2>2, <2>6, <2>7 DEF PointInv
<1>8. UsedInv'
  <2>1. \A k \in 1 .. Len(indices) : k \in 1 .. Len(indices')
    BY <1>3, <1>4
  <2>2. \A j : IsUsed(j) => IsUsed(j)'
    BY <1>1, <1>4, <2>1 DEF IsUsed
  <2> QED BY <1>1, <2>2 DEF UsedInv
<1>9. DocInv'
  BY <1>1 DEF DocInv
<1> QED BY <1>5, <1>6, <1>7, <1>8, <1>9 DEF IInv

LEMMA NewKeepsInv == IInv /\ InternNew => IInv'
<1> SUFFICES ASSUME IInv, InternNew PROVE IInv'
  OBVIOUS
<1>1. /\ JsonTypeOK /\ TableInv /\ PointInv /\ UsedInv /\ DocInv
      /\ Building /\ Len(indices) < Len(CurrentSite.frames)
      /\ Text \notin DOMAIN intern
      /\ entries' = Append(entries, Text)
      /\ intern' = [text \in DOMAIN intern \union {Text} |->
                       IF text = Text THEN Len(entries) ELSE intern[text]]
      /\ indices' = Append(indices, Len(entries))
      /\ UNCHANGED <<report, pps, doc>>
  BY DEF IInv, InternNew, NextIndex
<1>2. /\ Text \in Texts /\ CurrentSite.frames \in Seq(Frames)
      /\ Len(indices) + 1 \in 1 .. Len(CurrentSite.frames)
  BY <1>1, CurrentText
<1>3. entries \in Seq(Texts \union {Root}) /\ Len(entries) \in Nat /\ Len(entries) >= 1
  BY <1>1 DEF JsonTypeOK, TableInv
<1>4. /\ entries' \in Seq(Texts \union {Root}) /\ Len(entries') = Len(entries) + 1
      /\ \A j \in 1 .. Len(entries) : entries'[j] = entries[j]
      /\ entries'[Len(entries) + 1] = Text
  BY <1>1, <1>2, <1>3
<1>5. Indices \subseteq Indices' /\ Len(entries) \in Indices'
  BY <1>3, <1>4 DEF Indices
<1>6. indices \in Seq(Indices) /\ \A k \in 1 .. Len(indices) : indices[k] \in Indices
  BY <1>1 DEF JsonTypeOK
<1>7. /\ indices' \in Seq(Indices') /\ Len(indices') = Len(indices) + 1
      /\ \A k \in 1 .. Len(indices) : indices'[k] = indices[k]
      /\ indices'[Len(indices) + 1] = Len(entries)
  BY <1>1, <1>5, <1>6
<1>8. /\ DOMAIN intern' = DOMAIN intern \union {Text}
      /\ intern'[Text] = Len(entries)
      /\ \A text \in DOMAIN intern : text # Text /\ intern'[text] = intern[text]
  BY <1>1
<1>9. doc = << >>
  BY <1>1 DEF DocInv, Building
<1>10. pps \in Seq(Points)
  BY <1>1 DEF JsonTypeOK
<1>11. Points \subseteq Points'
  <2> SUFFICES ASSUME NEW pp \in Points PROVE pp \in Points'
    OBVIOUS
  <2>1. pp.frame_indices \in Seq(Indices)
    BY DEF Points
  <2>2. pp.frame_indices \in Seq(Indices')
    BY <2>1, <1>5
  <2> QED BY <2>2 DEF Points
<1>12. JsonTypeOK'
  <2>1. pps' \in Seq(Points')
    BY <1>1, <1>10, <1>11
  <2>2. DOMAIN intern' \subseteq Texts
    BY <1>1, <1>2, <1>8 DEF JsonTypeOK
  <2>3. \A text \in DOMAIN intern' : intern'[text] \in Indices'
    BY <1>1, <1>5, <1>8 DEF JsonTypeOK
  <2>4. report' \in Seq(Sites)
    BY <1>1 DEF JsonTypeOK
  <2> QED BY <1>1, <1>4, <1>7, <1>9, <2>1, <2>2, <2>3, <2>4 DEF JsonTypeOK
<1>13. TableInv'
  <2>1. Len(entries') >= 1 /\ entries'[1] = Root
    BY <1>1, <1>3, <1>4 DEF TableInv
  <2>2. ASSUME NEW text \in DOMAIN intern'
        PROVE  intern'[text] \in 1 .. Len(entries') - 1 /\ entries'[intern'[text] + 1] = text
    <3>1. CASE text = Text
      BY <3>1, <1>3, <1>4, <1>8
    <3>2. CASE text \in DOMAIN intern
      <4>1. intern[text] \in 1 .. Len(entries) - 1 /\ entries[intern[text] + 1] = text
        BY <3>2, <1>1 DEF TableInv
      <4> QED BY <4>1, <3>2, <1>3, <1>4, <1>8
    <3> QED BY <3>1, <3>2, <1>8
  <2>3. ASSUME NEW j \in 2 .. Len(entries')
        PROVE  entries'[j] \in DOMAIN intern' /\ intern'[entries'[j]] = j - 1
    <3>1. CASE j \in 2 .. Len(entries)
      <4>1. entries[j] \in DOMAIN intern /\ intern[entries[j]] = j - 1
        BY <3>1, <1>1 DEF TableInv
      <4> QED BY <4>1, <3>1, <1>3, <1>4, <1>8
    <3>2. CASE j = Len(entries) + 1
      BY <3>2, <1>3, <1>4, <1>8
    <3> QED BY <3>1, <3>2, <1>3, <1>4
  <2> QED BY <2>1, <2>2, <2>3 DEF TableInv
<1>14. \A n \in Indices : n + 1 \in 1 .. Len(entries) /\ entries'[n + 1] = entries[n + 1]
  BY <1>3, <1>4 DEF Indices
<1>15. PointInv'
  <2>1. Building' /\ CurrentSite' = CurrentSite
    BY <1>1 DEF Building, CurrentSite
  <2>2. Len(indices') <= Len(CurrentSite.frames)
    BY <1>2, <1>6, <1>7
  <2>3. Names(indices, CurrentSite.frames)
    BY <1>1 DEF PointInv
  <2>4. ASSUME NEW k \in 1 .. Len(indices') PROVE entries'[indices'[k] + 1] = Format(CurrentSite.frames[k])
    <3>1. CASE k \in 1 .. Len(indices)
      BY <3>1, <1>6, <1>7, <1>14, <2>3 DEF Names
    <3>2. CASE k = Len(indices) + 1
      BY <3>2, <1>4, <1>7 DEF Text
    <3> QED BY <3>1, <3>2, <1>6, <1>7
  <2>5. Names(indices, CurrentSite.frames)'
    BY <2>1, <2>4 DEF Names
  <2>6. ASSUME NEW n \in 1 .. Len(pps) PROVE PointIs(pps[n], report[n])'
    <3>1. pps[n] \in Points /\ PointIs(pps[n], report[n])
      BY <1>1, <1>10 DEF PointInv
    <3>2. \A k \in 1 .. Len(pps[n].frame_indices) : pps[n].frame_indices[k] \in Indices
      BY <3>1 DEF Points
    <3> QED BY <1>1, <1>14, <3>1, <3>2 DEF PointIs, Names
  <2> QED BY <1>1, <2>1, <2>2, <2>5, <2>6 DEF PointInv
<1>16. UsedInv'
  <2>1. \A k \in 1 .. Len(indices) : k \in 1 .. Len(indices')
    BY <1>6, <1>7
  <2>2. \A j : IsUsed(j) => IsUsed(j)'
    BY <1>1, <1>7, <2>1 DEF IsUsed
  <2>3. Len(indices) + 1 \in 1 .. Len(indices')
    BY <1>6, <1>7
  <2>4. ASSUME NEW j, j = Len(entries) PROVE IsUsed(j)'
    BY <1>7, <2>3, <2>4 DEF IsUsed
  <2>5. ASSUME NEW j \in 2 .. Len(entries') PROVE IsUsed(j - 1)'
    <3>1. CASE j \in 2 .. Len(entries)
      BY <3>1, <1>1, <2>2 DEF UsedInv
    <3>2. CASE j = Len(entries) + 1
      <4>1. j - 1 = Len(entries)
        BY <3>2, <1>3
      <4> QED BY <4>1, <2>4
    <3> QED BY <3>1, <3>2, <1>3, <1>4
  <2> QED BY <2>5 DEF UsedInv
<1>17. DocInv'
  BY <1>1, <1>9 DEF DocInv
<1> QED BY <1>12, <1>13, <1>15, <1>16, <1>17 DEF IInv

LEMMA PushKeepsInv == IInv /\ PushPoint => IInv'
<1> SUFFICES ASSUME IInv, PushPoint PROVE IInv'
  OBVIOUS
<1>1. /\ JsonTypeOK /\ TableInv /\ PointInv /\ UsedInv /\ DocInv
      /\ Building /\ Len(indices) = Len(CurrentSite.frames)
      /\ pps' = Append(pps, Point)
      /\ indices' = << >>
      /\ UNCHANGED <<report, entries, intern, doc>>
  BY DEF IInv, PushPoint
<1>2. /\ pps \in Seq(Points) /\ indices \in Seq(Indices) /\ report \in Seq(Sites)
      /\ Len(pps) \in Nat /\ Len(report) \in Nat /\ Points' = Points
  BY <1>1 DEF JsonTypeOK, Points, Indices
<1>3. Len(pps) + 1 \in 1 .. Len(report) /\ CurrentSite \in Sites
  BY <1>1, <1>2 DEF Building, CurrentSite
<1>4. Point \in Points
  BY <1>2, <1>3 DEF Point, Points, Sites
<1>5. /\ pps' \in Seq(Points) /\ Len(pps') = Len(pps) + 1
      /\ \A n \in 1 .. Len(pps) : pps'[n] = pps[n]
      /\ pps'[Len(pps) + 1] = Point
  BY <1>1, <1>2, <1>4
<1>6. doc = << >>
  BY <1>1 DEF DocInv, Building
<1>7. indices' \in Seq(Indices) /\ Len(indices') = 0
  BY <1>1
<1>8. JsonTypeOK'
  BY <1>1, <1>2, <1>5, <1>6, <1>7 DEF JsonTypeOK, Indices
<1>9. TableInv'
  BY <1>1 DEF TableInv
<1>10. PointInv'
  <2>1. PointIs(Point, report[Len(pps) + 1])
    BY <1>1 DEF PointInv, PointIs, Point, CurrentSite
  <2>2. ASSUME NEW n \in 1 .. Len(pps') PROVE PointIs(pps'[n], report[n])
    <3>1. CASE n \in 1 .. Len(pps)
      BY <3>1, <1>1, <1>5 DEF PointInv
    <3>2. CASE n = Len(pps) + 1
      BY <3>2, <1>5, <2>1
    <3> QED BY <3>1, <3>2, <1>2, <1>5
  <2>3. \A n \in 1 .. Len(pps') : PointIs(pps[n], report[n])'
    BY <1>1, <2>2 DEF PointIs, Names
  <2>4. Len(pps') <= Len(report)
    BY <1>2, <1>3, <1>5
  <2>5. ASSUME Building' PROVE CurrentSite' \in Sites
    BY <1>1, <1>2, <1>5, <2>5 DEF Building, CurrentSite
  <2>6. ASSUME Building' PROVE Len(indices') <= Len(CurrentSite.frames)'
    BY <1>7, <2>5, <2>6 DEF Sites
  <2>7. Names(indices, CurrentSite.frames)'
    BY <1>7 DEF Names
  <2> QED BY <1>1, <2>3, <2>4, <2>6, <2>7 DEF PointInv
<1>11. UsedInv'
  <2> SUFFICES ASSUME NEW j \in 2 .. Len(entries) PROVE IsUsed(j - 1)'
    BY <1>1 DEF UsedInv
  <2>1. IsUsed(j - 1)
    BY <1>1 DEF UsedInv
  <2>2. CASE \E n \in 1 .. Len(pps) : \E k \in 1 .. Len(pps[n].frame_indices) :
                pps[n].frame_indices[k] = j - 1
    BY <2>2, <1>2, <1>5 DEF IsUsed
  <2>3. CASE \E k \in 1 .. Len(indices) : indices[k] = j - 1
    <3>1. Len(pps) + 1 \in 1 .. Len(pps') /\ pps'[Len(pps) + 1].frame_indices = indices
      BY <1>2, <1>5 DEF Point
    <3> QED BY <3>1, <2>3 DEF IsUsed
  <2> QED BY <2>1, <2>2, <2>3 DEF IsUsed
<1>12. DocInv'
  BY <1>1, <1>6 DEF DocInv
<1> QED BY <1>8, <1>9, <1>10, <1>11, <1>12 DEF IInv

LEMMA RenderKeepsInv == IInv /\ Render => IInv'
<1> SUFFICES ASSUME IInv, Render PROVE IInv'
  OBVIOUS
<1>1. /\ JsonTypeOK /\ TableInv /\ PointInv /\ UsedInv
      /\ ~Building
      /\ doc' = <<[pps  |-> [n \in 1 .. Len(pps) |-> write_pp(pps[n])],
                   ftbl |-> entries]>>
      /\ UNCHANGED <<report, entries, intern, pps, indices>>
  BY DEF IInv, Render
<1>2. Len(pps) \in Nat /\ Len(report) \in Nat
  BY <1>1 DEF JsonTypeOK
<1>3. Len(pps) = Len(report)
  BY <1>1, <1>2 DEF PointInv, Building
<1>4. Len(doc'[1].pps) = Len(pps) /\ doc'[1].ftbl = entries
  BY <1>1, <1>2
<1>5. JsonTypeOK'
  BY <1>1, <1>4 DEF JsonTypeOK, Points, Indices
<1>6. TableInv' /\ UsedInv'
  BY <1>1 DEF TableInv, UsedInv, IsUsed
<1>7. PointInv'
  BY <1>1 DEF PointInv, PointIs, Names, Building, CurrentSite
<1>8. DocInv'
  <2>1. UNCHANGED <<pps, entries, report>>
    BY <1>1
  <2> QED BY <1>1, <1>3, <2>1 DEF DocInv, write_pp
<1> QED BY <1>5, <1>6, <1>7, <1>8 DEF IInv

LEMMA NextKeepsInv == IInv /\ [JsonNext]_json => IInv'
<1>1. IInv /\ UNCHANGED json => IInv'
  BY DEF json, IInv, JsonTypeOK, Points, Indices, TableInv, PointInv, PointIs, Names,
         Building, CurrentSite, UsedInv, IsUsed, DocInv, write_pp
<1> QED BY <1>1, KnownKeepsInv, NewKeepsInv, PushKeepsInv, RenderKeepsInv
        DEF JsonNext, Rendered

LEMMA InvHolds == JsonSpec => []IInv
BY InitInv, NextKeepsInv, PTL DEF JsonSpec

\* For every report and every frame, no index leaves the frame table.
THEOREM TypeSafety == JsonSpec => []JsonTypeOK
<1>1. IInv => JsonTypeOK
  BY DEF IInv
<1> QED BY <1>1, InvHolds, PTL

\* For every report, the document shows its sites: their bytes, allocations and
\* frames.
THEOREM FaithfulDocument == JsonSpec => []DocumentIsReport
<1>1. IInv => DocumentIsReport
  <2> SUFFICES ASSUME IInv, doc # << >>
               PROVE  /\ Len(doc[1].pps) = Len(report)
                      /\ \A n \in 1 .. Len(report) :
                            LET pp == doc[1].pps[n] IN
                            /\ pp.tb = report[n].total_bytes
                            /\ pp.tbk = report[n].count
                            /\ Len(pp.fs) = Len(report[n].frames)
                            /\ \A k \in 1 .. Len(report[n].frames) :
                                  doc[1].ftbl[pp.fs[k] + 1]
                                     = Format(report[n].frames[k])
    BY DEF DocumentIsReport
  <2>1. /\ Len(pps) = Len(report) /\ Len(pps) \in Nat
        /\ doc = <<[pps  |-> [n \in 1 .. Len(pps) |-> write_pp(pps[n])],
                    ftbl |-> entries]>>
        /\ \A n \in 1 .. Len(pps) : PointIs(pps[n], report[n])
    BY DEF IInv, DocInv, JsonTypeOK, PointInv
  <2>2. Len(doc[1].pps) = Len(report) /\ doc[1].ftbl = entries
    BY <2>1
  <2>3. \A n \in 1 .. Len(report) : doc[1].pps[n] = write_pp(pps[n])
    BY <2>1
  <2>4. ASSUME NEW n \in 1 .. Len(report)
        PROVE  LET pp == doc[1].pps[n] IN
               /\ pp.tb = report[n].total_bytes
               /\ pp.tbk = report[n].count
               /\ Len(pp.fs) = Len(report[n].frames)
               /\ \A k \in 1 .. Len(report[n].frames) :
                     doc[1].ftbl[pp.fs[k] + 1] = Format(report[n].frames[k])
    <3>1. PointIs(pps[n], report[n]) /\ doc[1].pps[n] = write_pp(pps[n])
      BY <2>1, <2>3
    <3> QED BY <2>2, <3>1 DEF write_pp, PointIs, Names
  <2> QED BY <2>2, <2>4
<1> QED BY <1>1, InvHolds, PTL

\* The frame table holds "[root]" and the texts in use, each once.
THEOREM MinimalTable == JsonSpec => []TableIsMinimal
<1>1. IInv => TableIsMinimal
  <2> SUFFICES ASSUME IInv PROVE TableIsMinimal
    OBVIOUS
  <2>1. /\ entries \in Seq(Texts \union {Root}) /\ Len(entries) \in Nat
        /\ DOMAIN intern \subseteq Texts
    BY DEF IInv, JsonTypeOK
  <2>2. ASSUME NEW j \in 1 .. Len(entries), NEW k \in 1 .. Len(entries),
               entries[j] = entries[k]
        PROVE  j = k
    <3>1. \A i \in 2 .. Len(entries) :
             entries[i] \in Texts /\ intern[entries[i]] = i - 1
      BY <2>1 DEF IInv, TableInv
    <3>2. entries[1] \notin Texts
      BY RootAssumption DEF IInv, TableInv
    <3>3. CASE j = 1 \/ k = 1
      BY <3>1, <3>2, <3>3, <2>1, <2>2
    <3>4. CASE j # 1 /\ k # 1
      BY <3>1, <3>4, <2>1, <2>2
    <3> QED BY <3>3, <3>4
  <2> QED BY <2>2 DEF IInv, TableInv, UsedInv, TableIsMinimal
<1> QED BY <1>1, InvHolds, PTL

-----------------------------------------------------------------------------
(* Strings.                                                                  *)

\* A function that meets a recursion's equations is the typed one.
StepsWith(H, h, n) ==
    /\ H = [i \in 0 .. n |-> H[i]] /\ H[0] = h[0]
    /\ \A i \in 1 .. n : H[i - 1] = h[i - 1] => H[i] = h[i]

LEMMA RecursionIsTyped ==
    ASSUME NEW n \in Nat, NEW V, NEW h \in [0 .. n -> V], NEW H,
           StepsWith(H, h, n)
    PROVE  H = h
<1>0. /\ H = [i \in 0 .. n |-> H[i]] /\ H[0] = h[0]
      /\ \A i \in 1 .. n : H[i - 1] = h[i - 1] => H[i] = h[i]
  BY DEF StepsWith
<1>1. ASSUME NEW m \in 0 .. n PROVE H[m] = h[m]
  <2>. DEFINE Bad == {i \in Nat : i <= m /\ H[i] # h[i]}
  <2>1. SUFFICES ASSUME Bad # {} PROVE FALSE
    OBVIOUS
  <2>2. PICK i \in Bad : \A k \in Bad : i <= k
    <3>1. Bad \subseteq Nat
      OBVIOUS
    <3>. HIDE DEF Bad
    <3>. QED  BY <2>1, <3>1, LeastNatural
  <2>3. i \in Nat /\ i <= m /\ m <= n /\ H[i] # h[i]
    BY <2>2
  <2>4. ASSUME i # 0 PROVE i \in 1 .. n /\ H[i - 1] = h[i - 1]
    <3>1. i - 1 \in Nat /\ i - 1 <= m /\ ~(i <= i - 1) /\ i \in 1 .. n
      BY <2>3, <2>4
    <3>2. i - 1 \notin Bad
      <4>. HIDE DEF Bad
      <4>. QED  BY <2>2, <3>1
    <3>. QED  BY <3>1, <3>2
  <2>. QED  BY <1>0, <2>3, <2>4
<1>2. h = [i \in 0 .. n |-> h[i]]
  OBVIOUS
<1>. QED  BY <1>0, <1>1, <1>2

Chars == Seq(Int)

LEMMA ScalarType == \A c \in Scalars : c \in Nat
  BY DEF Scalars

LEMMA EscapeType ==
    ASSUME NEW c \in Scalars
    PROVE  /\ Escape(c) \in Chars /\ Len(Escape(c)) \in {1, 2, 6}
<1>1. c \in Int /\ Quote \in Int /\ Backslash \in Int
  BY ScalarType DEF Quote, Backslash
<1>2. ASSUME c < 32 PROVE Hex(c \div 16) \in Int /\ Hex(c % 16) \in Int
  BY <1>1, <1>2, ScalarType DEF Hex
<1>3. \A e \in Chars : e \o <<c>> \in Chars
  BY <1>1 DEF Chars
<1>4. CASE c \in {Quote, Backslash, 10, 13, 9}
  BY <1>4, <1>1 DEF Escape, Chars, Quote, Backslash
<1>5. CASE c \notin {Quote, Backslash, 10, 13, 9} /\ c < 32
  <2>1. Escape(c) = <<Backslash, 117, 48, 48, Hex(c \div 16), Hex(c % 16)>>
    BY <1>5 DEF Escape
  <2>. QED  BY <2>1, <1>1, <1>2, <1>5 DEF Chars
<1>6. CASE c \notin {Quote, Backslash, 10, 13, 9} /\ ~(c < 32)
  <2>1. Escape(c) = <<c>>
    BY <1>6 DEF Escape
  <2>. QED  BY <2>1, <1>1 DEF Chars
<1>. QED  BY <1>4, <1>5, <1>6

\* The literal as it grows: out[i] has the opening quote and the first i characters.
Writes(s, out) ==
    /\ out \in [0 .. Len(s) -> Chars] /\ out[0] = <<Quote>>
    /\ \A i \in 1 .. Len(s) : out[i] = out[i - 1] \o Escape(s[i])

LEMMA Written ==
    ASSUME NEW s \in Seq(Scalars)
    PROVE  \E out : Writes(s, out) /\ write_json_string(s) = Append(out[Len(s)], Quote)
<1>. DEFINE n == Len(s)
            body(h) == [i \in 0 .. n |-> IF i = 0 THEN <<Quote>> ELSE h[i - 1] \o Escape(s[i])]
            step == [i \in 1 .. n |-> [v \in Chars |-> v \o Escape(s[i])]]
            H == CHOOSE h : h = body(h)
<1>1. n \in Nat /\ \A i \in 1 .. n : s[i] \in Scalars
  OBVIOUS
<1>. HIDE DEF n
<1>2. step \in [1 .. n -> [Chars -> Chars]] /\ <<Quote>> \in Chars
  <2>1. \A i \in 1 .. n : Escape(s[i]) \in Chars
    BY <1>1, EscapeType
  <2>2. \A u, v \in Chars : u \o v \in Chars
    BY DEF Chars
  <2>. QED  BY <2>1, <2>2 DEF Chars, Quote
<1>3. PICK h \in [0 .. n -> Chars] : \A i \in 0 .. n : Follows(h, <<Quote>>, step, i)
  <2>. HIDE DEF step
  <2>. QED  BY <1>1, <1>2, RecursionUpTo
<1>4. h[0] = <<Quote>> /\ \A i \in 1 .. n : h[i] = h[i - 1] \o Escape(s[i])
  <2>1. h[0] = <<Quote>>
    BY <1>1, <1>3 DEF Follows
  <2>2. ASSUME NEW i \in 1 .. n PROVE h[i] = h[i - 1] \o Escape(s[i])
    <3>1. i \in 0 .. n /\ i # 0 /\ h[i - 1] \in Chars
      BY <1>1
    <3>. QED  BY <1>3, <3>1 DEF Follows
  <2>. QED  BY <2>1, <2>2
<1>5. h = body(h)
  <2>1. \A i \in 0 .. n : h[i] = IF i = 0 THEN <<Quote>> ELSE h[i - 1] \o Escape(s[i])
    <3>1. \A i \in 0 .. n : i # 0 => i \in 1 .. n
      BY <1>1
    <3>. QED  BY <1>4, <3>1, Zenon
  <2>. QED  BY <2>1
<1>6. H = body(H)
  <2>. HIDE DEF body
  <2>. QED  BY <1>5
<1>7. write_json_string(s) = Append(H[n], Quote)
  BY DEF write_json_string, n
<1>. HIDE DEF H
<1>8. H = h
  <2>1. \A i \in 0 .. n : H[i] = IF i = 0 THEN <<Quote>> ELSE H[i - 1] \o Escape(s[i])
    BY <1>6
  <2>2. H = [i \in 0 .. n |-> H[i]]
    BY <1>6
  <2>3. H[0] = h[0] /\ \A i \in 1 .. n : H[i - 1] = h[i - 1] => H[i] = h[i]
    <3>1. 0 \in 0 .. n /\ \A i \in 1 .. n : i \in 0 .. n /\ i # 0
      BY <1>1
    <3>. QED  BY <1>4, <2>1, <3>1, Zenon
  <2>. HIDE DEF body
  <2>4. StepsWith(H, h, n)
    BY <2>2, <2>3, Zenon DEF StepsWith
  <2>. QED  BY <1>1, <2>4, RecursionIsTyped
<1>. QED  BY <1>4, <1>7, <1>8 DEF Writes, n

\* What is written is not changed by what is written after it.
LEMMA WrittenStays ==
    ASSUME NEW s \in Seq(Scalars), NEW out, Writes(s, out),
           NEW i \in 0 .. Len(s), NEW m \in i .. Len(s)
    PROVE  /\ Len(out[i]) \in Nat /\ Len(out[m]) \in Nat /\ Len(out[i]) <= Len(out[m])
           /\ \A k \in 1 .. Len(out[i]) : out[m][k] = out[i][k]
<1>. DEFINE Stays(j) == /\ Len(out[i]) <= Len(out[j])
                        /\ \A k \in 1 .. Len(out[i]) : out[j][k] = out[i][k]
            Bad == {j \in Nat : i <= j /\ j <= m /\ ~Stays(j)}
<1>1. Len(s) \in Nat /\ \A j \in 0 .. Len(s) : out[j] \in Chars /\ Len(out[j]) \in Nat
  BY DEF Writes, Chars
<1>2. m \in Nat /\ i <= m /\ m \in 0 .. Len(s)
  BY <1>1
<1>3. SUFFICES ASSUME Bad # {} PROVE FALSE
  <2>. HIDE DEF Stays
  <2>1. Stays(m)
    BY <1>2, <1>3
  <2>. QED  BY <1>1, <1>2, <2>1 DEF Stays
<1>4. PICK j \in Bad : \A k \in Bad : j <= k
  <2>1. Bad \subseteq Nat
    <3>. HIDE DEF Stays
    <3>. QED  OBVIOUS
  <2>. HIDE DEF Bad
  <2>. QED  BY <1>3, <2>1, LeastNatural
<1>5. j # i
  BY <1>1, <1>4
<1>6. j - 1 \in Nat /\ i <= j - 1 /\ j - 1 <= m /\ j \in 1 .. Len(s) /\ j - 1 \in 0 .. Len(s)
  BY <1>4, <1>5, <1>2
<1>7. Stays(j - 1)
  <2>1. j - 1 \notin Bad
    BY <1>4, <1>6
  <2>. HIDE DEF Stays
  <2>. QED  BY <1>6, <2>1
<1>8. out[j] = out[j - 1] \o Escape(s[j]) /\ Escape(s[j]) \in Chars
  <2>1. s[j] \in Scalars
    BY <1>6
  <2>. QED  BY <1>6, <2>1, EscapeType, Zenon DEF Writes
<1>9. out[j - 1] \in Chars /\ Len(out[i]) \in Nat
  BY <1>1, <1>6
<1>10. /\ Len(out[j - 1]) <= Len(out[j])
       /\ \A k \in 1 .. Len(out[j - 1]) : out[j][k] = out[j - 1][k]
  <2>1. \A u, v \in Chars : /\ Len(u) <= Len(u \o v)
                             /\ \A k \in 1 .. Len(u) : (u \o v)[k] = u[k]
    BY DEF Chars
  <2>. DEFINE u == out[j - 1]
              v == Escape(s[j])
  <2>2. u \in Chars /\ v \in Chars /\ out[j] = u \o v
    BY <1>8, <1>9
  <2>. HIDE DEF u, v
  <2>3. Len(u) <= Len(out[j]) /\ \A k \in 1 .. Len(u) : out[j][k] = u[k]
    BY <2>1, <2>2, Zenon
  <2>. QED  BY <2>3 DEF u
<1>11. Stays(j)
  <2>1. Len(out[j]) \in Nat /\ Len(out[j - 1]) \in Nat
    BY <1>1, <1>6
  <2>. QED  BY <1>7, <1>9, <1>10, <2>1
<1>. QED  BY <1>4, <1>11

\* The reader's automaton.
LEMMA AtType ==
    ASSUME NEW mode \in {"before", "plain", "escape", "hex", "after", "malformed"},
           NEW chars \in Chars
    PROVE  At(mode, chars) \in Reader
BY DEF At, Reader, Chars

LEMMA ReadType == \A r \in Reader : \A c \in Int : ReadChar(r, c) \in Reader
<1> SUFFICES ASSUME NEW r \in Reader, NEW c \in Int PROVE ReadChar(r, c) \in Reader
  OBVIOUS
<1>1. /\ r.chars \in Chars /\ r.code \in Nat /\ r.left \in Int
      /\ \A x \in Int : Append(r.chars, x) \in Chars
  BY DEF Reader, Chars
<1>2. Reject(r) \in Reader
  BY <1>1, AtType DEF Reject
<1>3. c \in DOMAIN Letters => Letters[c] \in Int
  BY DEF Letters
<1>4. ASSUME HexDigit(c) >= 0 PROVE ReadHex(r, HexDigit(c)) \in Reader
  <2>1. HexDigit(c) \in Nat
    BY <1>4 DEF HexDigit
  <2>. DEFINE code == 16 * r.code + HexDigit(c)
  <2>2. code \in Nat
    BY <1>1, <2>1
  <2>. HIDE DEF code
  <2>3. At("plain", Append(r.chars, code)) \in Reader
    BY <1>1, <2>2, AtType
  <2>4. HexAt(r.left - 1, code, r.chars) \in Reader
    BY <1>1, <2>2 DEF Reader, HexAt, Chars
  <2>5. ReadHex(r, HexDigit(c)) = IF r.left = 1 THEN At("plain", Append(r.chars, code))
                                  ELSE HexAt(r.left - 1, code, r.chars)
    BY DEF ReadHex, code
  <2>. QED  BY <2>3, <2>4, <2>5
<1>5. HexAt(4, 0, r.chars) \in Reader
  BY <1>1 DEF Reader, HexAt, Chars
<1>6. /\ At("plain", r.chars) \in Reader /\ At("after", r.chars) \in Reader
      /\ At("escape", r.chars) \in Reader /\ At("plain", Append(r.chars, c)) \in Reader
      /\ c \in DOMAIN Letters => At("plain", Append(r.chars, Letters[c])) \in Reader
  BY <1>1, <1>3, AtType
<1>7. \/ ReadChar(r, c) \in {Reject(r), At("plain", r.chars), At("after", r.chars),
                             At("escape", r.chars), At("plain", Append(r.chars, c)),
                             HexAt(4, 0, r.chars)}
      \/ c \in DOMAIN Letters /\ ReadChar(r, c) = At("plain", Append(r.chars, Letters[c]))
      \/ HexDigit(c) >= 0 /\ ReadChar(r, c) = ReadHex(r, HexDigit(c))
  BY DEF ReadChar
<1>. QED  BY <1>2, <1>4, <1>5, <1>6, <1>7

\* What has been read after each character.
Reads(text, r) ==
    /\ r \in [0 .. Len(text) -> Reader] /\ r[0] = At("before", << >>)
    /\ \A i \in 1 .. Len(text) : r[i] = ReadChar(r[i - 1], text[i])

LEMMA Read ==
    ASSUME NEW text \in Chars
    PROVE  \E r : /\ Reads(text, r)
                  /\ read_json_string(text) = IF r[Len(text)].mode = "after"
                                              THEN r[Len(text)].chars ELSE Malformed
<1>. DEFINE n == Len(text)
            start == At("before", << >>)
            body(h) == [i \in 0 .. n |-> IF i = 0 THEN start ELSE ReadChar(h[i - 1], text[i])]
            step == [i \in 1 .. n |-> [v \in Reader |-> ReadChar(v, text[i])]]
            H == CHOOSE h : h = body(h)
<1>1. n \in Nat /\ \A i \in 1 .. n : text[i] \in Int
  BY DEF Chars
<1>. HIDE DEF n
<1>2. step \in [1 .. n -> [Reader -> Reader]] /\ start \in Reader
  <2>1. << >> \in Chars
    BY DEF Chars
  <2>. QED  BY <1>1, <2>1, ReadType, AtType
<1>3. PICK h \in [0 .. n -> Reader] : \A i \in 0 .. n : Follows(h, start, step, i)
  <2>. HIDE DEF step, start
  <2>. QED  BY <1>1, <1>2, RecursionUpTo
<1>. HIDE DEF start
<1>4. h[0] = start /\ \A i \in 1 .. n : h[i] = ReadChar(h[i - 1], text[i])
  <2>1. h[0] = start
    <3>1. 0 \in 0 .. n
      BY <1>1
    <3>. QED  BY <1>3, <3>1, Zenon DEF Follows
  <2>2. ASSUME NEW i \in 1 .. n PROVE h[i] = ReadChar(h[i - 1], text[i])
    <3>1. i \in 0 .. n /\ i # 0 /\ h[i - 1] \in Reader
      BY <1>1
    <3>. QED  BY <1>3, <3>1 DEF Follows
  <2>. QED  BY <2>1, <2>2
<1>5. h = body(h)
  <2>1. \A i \in 0 .. n : h[i] = IF i = 0 THEN start ELSE ReadChar(h[i - 1], text[i])
    <3>1. \A i \in 0 .. n : i # 0 => i \in 1 .. n
      BY <1>1
    <3>. QED  BY <1>4, <3>1, Zenon
  <2>. QED  BY <2>1
<1>6. H = body(H)
  <2>. HIDE DEF body
  <2>. QED  BY <1>5
<1>7. read_json_string(text) = IF H[n].mode = "after" THEN H[n].chars ELSE Malformed
  BY DEF read_json_string, n, start
<1>. HIDE DEF H
<1>8. H = h
  <2>1. \A i \in 0 .. n : H[i] = IF i = 0 THEN start ELSE ReadChar(H[i - 1], text[i])
    BY <1>6
  <2>2. H = [i \in 0 .. n |-> H[i]]
    BY <1>6
  <2>3. H[0] = h[0] /\ \A i \in 1 .. n : H[i - 1] = h[i - 1] => H[i] = h[i]
    <3>1. 0 \in 0 .. n /\ \A i \in 1 .. n : i \in 0 .. n /\ i # 0
      BY <1>1
    <3>. QED  BY <1>4, <2>1, <3>1, Zenon
  <2>. HIDE DEF body
  <2>4. StepsWith(H, h, n)
    BY <2>2, <2>3, Zenon DEF StepsWith
  <2>. QED  BY <1>1, <2>4, RecursionIsTyped
<1>. QED  BY <1>4, <1>7, <1>8 DEF Reads, n, start

\* The reader on its way through a character: as it is, a letter's escape, four
\* digits.
LEMMA PlainReads ==
    ASSUME NEW chars, NEW c \in Int, c >= 32, c \notin {Quote, Backslash}
    PROVE  ReadChar(At("plain", chars), c) = At("plain", Append(chars, c))
BY DEF ReadChar, At

LEMMA LetterReads ==
    ASSUME NEW chars, NEW c \in DOMAIN Letters
    PROVE  /\ ReadChar(At("plain", chars), Backslash) = At("escape", chars)
           /\ ReadChar(At("escape", chars), c) = At("plain", Append(chars, Letters[c]))
BY DEF ReadChar, At, Letters, Quote, Backslash

LEMMA QuoteReads ==
    ASSUME NEW chars
    PROVE  /\ ReadChar(At("before", chars), Quote) = At("plain", chars)
           /\ ReadChar(At("plain", chars), Quote) = At("after", chars)
BY DEF ReadChar, At, Quote, Backslash

LEMMA HexBegins ==
    ASSUME NEW chars
    PROVE  ReadChar(At("escape", chars), 117) = HexAt(4, 0, chars)
BY DEF ReadChar, At, HexAt, Letters, Quote, Backslash

IsDigit(left, code, d, next) ==
    left \in 1 .. 4 /\ d \in 0 .. 15 /\ code \in Nat /\ next = 16 * code + d
Digit(left, next, chars) == IF left = 1 THEN At("plain", Append(chars, next))
                                        ELSE HexAt(left - 1, next, chars)

LEMMA HexReads ==
    ASSUME NEW chars, NEW code, NEW left, NEW d, NEW next, IsDigit(left, code, d, next)
    PROVE  ReadChar(HexAt(left, code, chars), Hex(d)) = Digit(left, next, chars)
<1>0. left \in 1 .. 4 /\ d \in 0 .. 15 /\ code \in Nat /\ next = 16 * code + d
  BY DEF IsDigit
<1>. DEFINE r == HexAt(left, code, chars)
<1>1. HexDigit(Hex(d)) = d /\ d >= 0
  BY <1>0 DEF Hex, HexDigit
<1>2. r.mode = "hex" /\ r.left = left /\ r.code = code /\ r.chars = chars
  BY DEF HexAt
<1>. HIDE DEF r
<1>3. ReadChar(r, Hex(d)) = ReadHex(r, d)
  BY <1>1, <1>2 DEF ReadChar
<1>4. ReadHex(r, d) = Digit(left, next, chars)
  BY <1>0, <1>2 DEF ReadHex, Digit
<1>. QED  BY <1>3, <1>4 DEF r

StepsOver(r, q, e) == \A k \in 1 .. Len(e) : r[q + k] = ReadChar(r[q + (k - 1)], e[k])

\* A reader that comes to a character's escape has the character after it.
LEMMA EscapeReads ==
    ASSUME NEW c \in Scalars, NEW r, NEW q \in Nat, NEW chars,
           r[q] = At("plain", chars), StepsOver(r, q, Escape(c))
    PROVE  r[q + Len(Escape(c))] = At("plain", Append(chars, c))
<1>1. c \in Nat
  BY ScalarType
<1>2. CASE c \in {Quote, Backslash, 10, 13, 9}
  <2>1. PICK x \in DOMAIN Letters : Escape(c) = <<Backslash, x>> /\ Letters[x] = c
    <3>1. DOMAIN Letters = {Quote, Backslash, 110, 114, 116}
      BY DEF Letters
    <3>2. /\ Letters[Quote] = Quote /\ Letters[Backslash] = Backslash
          /\ Letters[110] = 10 /\ Letters[114] = 13 /\ Letters[116] = 9
      BY DEF Letters, Quote, Backslash
    <3>3. /\ c = Quote => Escape(c) = <<Backslash, Quote>>
          /\ c = Backslash => Escape(c) = <<Backslash, Backslash>>
          /\ c = 10 => Escape(c) = <<Backslash, 110>>
          /\ c = 13 => Escape(c) = <<Backslash, 114>>
          /\ c = 9 => Escape(c) = <<Backslash, 116>>
      BY DEF Escape, Quote, Backslash
    <3>. QED  BY <1>2, <3>1, <3>2, <3>3
  <2>. DEFINE e == Escape(c)
  <2>2. Len(e) = 2 /\ e[1] = Backslash /\ e[2] = x
    BY <2>1
  <2>. HIDE DEF e
  <2>3. r[q + 1] = ReadChar(r[q], e[1]) /\ r[q + 2] = ReadChar(r[q + 1], e[2])
    <3>1. StepsOver(r, q, e)
      BY DEF e
    <3>2. 1 \in 1 .. Len(e) /\ 2 \in 1 .. Len(e) /\ q + (1 - 1) = q /\ q + (2 - 1) = q + 1
      BY <2>2
    <3>3. r[q + 1] = ReadChar(r[q + (1 - 1)], e[1]) /\ r[q + 2] = ReadChar(r[q + (2 - 1)], e[2])
      BY <3>1, <3>2 DEF StepsOver
    <3>. QED  BY <3>2, <3>3
  <2>4. r[q + 1] = At("escape", chars)
    BY <2>1, <2>2, <2>3, LetterReads
  <2>5. r[q + 2] = At("plain", Append(chars, c))
    BY <2>1, <2>2, <2>3, <2>4, LetterReads
  <2>. QED  BY <2>2, <2>5 DEF e
<1>3. CASE c \notin {Quote, Backslash, 10, 13, 9} /\ c < 32
  <2>. DEFINE e == Escape(c)
              a == c \div 16
              b == c % 16
  <2>1. e = <<Backslash, 117, 48, 48, Hex(a), Hex(b)>>
    BY <1>3 DEF Escape
  <2>2. a \in 0 .. 15 /\ b \in 0 .. 15 /\ c = 16 * a + b
    BY <1>1, <1>3
  <2>. HIDE DEF a, b
  <2>3. Len(e) = 6 /\ e[1] = Backslash /\ e[2] = 117 /\ e[3] = Hex(0) /\ e[4] = Hex(0)
        /\ e[5] = Hex(a) /\ e[6] = Hex(b)
    BY <2>1 DEF Hex
  <2>. HIDE DEF e
  <2>4. ASSUME NEW k \in 1 .. 6 PROVE r[q + k] = ReadChar(r[q + (k - 1)], e[k])
    <3>1. StepsOver(r, q, e)
      BY DEF e
    <3>. QED  BY <2>3, <3>1 DEF StepsOver
  <2>5. /\ r[q + 1] = ReadChar(r[q + 0], e[1]) /\ r[q + 2] = ReadChar(r[q + 1], e[2])
        /\ r[q + 3] = ReadChar(r[q + 2], e[3]) /\ r[q + 4] = ReadChar(r[q + 3], e[4])
        /\ r[q + 5] = ReadChar(r[q + 4], e[5]) /\ r[q + 6] = ReadChar(r[q + 5], e[6])
    <3>1. 1 - 1 = 0 /\ 2 - 1 = 1 /\ 3 - 1 = 2 /\ 4 - 1 = 3 /\ 5 - 1 = 4 /\ 6 - 1 = 5
      OBVIOUS
    <3>. QED  BY <2>4, <3>1
  <2>6. r[q + 1] = At("escape", chars)
    <3>1. q + 0 = q /\ Quote \in DOMAIN Letters
      BY DEF Letters
    <3>. QED  BY <2>3, <2>5, <3>1, LetterReads
  <2>7. r[q + 2] = HexAt(4, 0, chars)
    BY <2>3, <2>5, <2>6, HexBegins
  <2>8. r[q + 3] = HexAt(3, 0, chars)
    <3>1. IsDigit(4, 0, 0, 0)
      BY <2>2 DEF IsDigit
    <3>2. ReadChar(HexAt(4, 0, chars), Hex(0)) = Digit(4, 0, chars)
      BY <3>1, HexReads, Zenon
    <3>3. 4 # 1 /\ 4 - 1 = 3
      OBVIOUS
    <3>. QED  BY <2>3, <2>5, <2>7, <3>2, <3>3 DEF Digit
  <2>9. r[q + 4] = HexAt(2, 0, chars)
    <3>1. IsDigit(3, 0, 0, 0)
      BY <2>2 DEF IsDigit
    <3>2. ReadChar(HexAt(3, 0, chars), Hex(0)) = Digit(3, 0, chars)
      BY <3>1, HexReads, Zenon
    <3>3. 3 # 1 /\ 3 - 1 = 2
      OBVIOUS
    <3>. QED  BY <2>3, <2>5, <2>8, <3>2, <3>3 DEF Digit
  <2>10. r[q + 5] = HexAt(1, a, chars)
    <3>1. IsDigit(2, 0, a, a)
      BY <2>2 DEF IsDigit
    <3>2. ReadChar(HexAt(2, 0, chars), Hex(a)) = Digit(2, a, chars)
      BY <3>1, HexReads, Zenon
    <3>3. 2 # 1 /\ 2 - 1 = 1
      OBVIOUS
    <3>. QED  BY <2>3, <2>5, <2>9, <3>2, <3>3 DEF Digit
  <2>11. r[q + 6] = At("plain", Append(chars, c))
    <3>1. IsDigit(1, a, b, c)
      BY <2>2 DEF IsDigit
    <3>2. ReadChar(HexAt(1, a, chars), Hex(b)) = Digit(1, c, chars)
      BY <3>1, HexReads, Zenon
    <3>. QED  BY <2>3, <2>5, <2>10, <3>2 DEF Digit
  <2>. QED  BY <2>3, <2>11 DEF e
<1>4. CASE c \notin {Quote, Backslash, 10, 13, 9} /\ ~(c < 32)
  <2>1. Escape(c) = <<c>>
    BY <1>4 DEF Escape
  <2>2. Len(Escape(c)) = 1 /\ Escape(c)[1] = c
    BY <2>1
  <2>3. r[q + 1] = ReadChar(r[q], c)
    <3>1. 1 \in 1 .. Len(Escape(c)) /\ q + (1 - 1) = q
      BY <2>2
    <3>2. r[q + 1] = ReadChar(r[q + (1 - 1)], Escape(c)[1])
      BY <3>1 DEF StepsOver
    <3>. QED  BY <2>2, <3>1, <3>2
  <2>4. ReadChar(At("plain", chars), c) = At("plain", Append(chars, c))
    BY <1>1, <1>4, PlainReads
  <2>. QED  BY <2>2, <2>3, <2>4
<1>. QED  BY <1>2, <1>3, <1>4

\* A JSON reader gets back what was written, character by character: after out[i]
\* of the text it has the first i characters.
THEOREM RoundTrip ==
    ASSUME NEW s \in Seq(Scalars)
    PROVE  read_json_string(write_json_string(s)) = s
<1>. DEFINE n == Len(s)
            text == write_json_string(s)
<1>1. PICK out : Writes(s, out) /\ text = Append(out[n], Quote)
  BY Written
<1>2. /\ n \in Nat /\ \A i \in 1 .. n : s[i] \in Scalars
      /\ \A i \in 0 .. n : out[i] \in Chars /\ Len(out[i]) \in Nat
  BY <1>1 DEF Writes, Chars
<1>3. /\ text \in Chars /\ Len(text) = Len(out[n]) + 1 /\ text[Len(out[n]) + 1] = Quote
      /\ \A k \in 1 .. Len(out[n]) : text[k] = out[n][k]
  <2>1. out[n] \in Chars /\ Quote \in Int
    BY <1>2 DEF Quote
  <2>. HIDE DEF text
  <2>. QED  BY <1>1, <2>1 DEF Chars
<1>. HIDE DEF text
<1>4. PICK r : /\ Reads(text, r)
               /\ read_json_string(text) = IF r[Len(text)].mode = "after"
                                           THEN r[Len(text)].chars ELSE Malformed
  BY <1>3, Read
<1>5. ASSUME NEW i \in 0 .. n, NEW k \in 1 .. Len(out[i])
      PROVE  k \in 1 .. Len(text) /\ text[k] = out[i][k]
  <2>1. /\ Len(out[i]) \in Nat /\ Len(out[n]) \in Nat /\ Len(out[i]) <= Len(out[n])
        /\ out[n][k] = out[i][k]
    <3>1. n \in i .. n
      BY <1>2
    <3>. QED  BY <1>1, <3>1, WrittenStays
  <2>. QED  BY <1>3, <2>1
<1>. DEFINE Good(i) == r[Len(out[i])] = At("plain", SubSeq(s, 1, i))
            Bad == {i \in Nat : i <= n /\ ~Good(i)}
<1>6. Good(n)
  <2>1. SUFFICES ASSUME Bad # {} PROVE FALSE
    <3>. HIDE DEF Good
    <3>. QED  BY <1>2
  <2>2. PICK i \in Bad : \A k \in Bad : i <= k
    <3>1. Bad \subseteq Nat
      <4>. HIDE DEF Good
      <4>. QED  OBVIOUS
    <3>. HIDE DEF Bad
    <3>. QED  BY <2>1, <3>1, LeastNatural
  <2>3. i \in 0 .. n /\ ~Good(i)
    <3>. HIDE DEF Good
    <3>. QED  BY <1>2, <2>2
  <2>4. CASE i = 0
    <3>1. out[0] = <<Quote>> /\ Len(out[0]) = 1 /\ out[0][1] = Quote
      BY <1>1 DEF Writes
    <3>2. 1 \in 1 .. Len(text) /\ text[1] = Quote
      <4>1. 0 \in 0 .. n /\ 1 \in 1 .. Len(out[0])
        BY <1>2, <3>1
      <4>. QED  BY <1>5, <3>1, <4>1
    <3>3. r[1] = ReadChar(At("before", << >>), Quote)
      <4>1. r[1] = ReadChar(r[1 - 1], text[1])
        BY <1>4, <3>2 DEF Reads
      <4>. QED  BY <1>4, <3>2, <4>1 DEF Reads
    <3>4. ReadChar(At("before", << >>), Quote) = At("plain", << >>)
      BY QuoteReads
    <3>5. SubSeq(s, 1, 0) = << >>
      OBVIOUS
    <3>. QED  BY <2>3, <2>4, <3>1, <3>3, <3>4, <3>5
  <2>5. CASE i # 0
    <3>. DEFINE j == i - 1
                q == Len(out[j])
                c == s[i]
                e == Escape(c)
                chars == SubSeq(s, 1, j)
    <3>1. j \in 0 .. n /\ i \in 1 .. n /\ c \in Scalars
      BY <1>2, <2>3, <2>5
    <3>2. Good(j)
      <4>1. j \in Nat /\ j <= n /\ ~(i <= j)
        BY <1>2, <2>3, <3>1
      <4>2. j \notin Bad
        <5>. HIDE DEF Bad
        <5>. QED  BY <2>2, <4>1
      <4>. HIDE DEF Good, j
      <4>. QED  BY <4>1, <4>2
    <3>3. out[i] = out[j] \o e /\ out[j] \in Chars /\ e \in Chars
      <4>1. e \in Chars
        BY <3>1, EscapeType
      <4>. QED  BY <1>1, <1>2, <3>1, <4>1 DEF Writes
    <3>4. /\ q \in Nat /\ Len(e) \in Nat /\ Len(out[i]) = q + Len(e)
          /\ \A k \in 1 .. Len(e) : out[i][q + k] = e[k]
      <4>1. \A u, v \in Chars : /\ Len(u) \in Nat /\ Len(v) \in Nat
                                /\ Len(u \o v) = Len(u) + Len(v)
                                /\ \A k \in 1 .. Len(v) : (u \o v)[Len(u) + k] = v[k]
        BY DEF Chars
      <4>. DEFINE u == out[j]
      <4>2. u \in Chars /\ e \in Chars /\ out[i] = u \o e
        BY <3>3
      <4>. HIDE DEF u, e
      <4>3. /\ Len(u) \in Nat /\ Len(e) \in Nat /\ Len(out[i]) = Len(u) + Len(e)
            /\ \A k \in 1 .. Len(e) : out[i][Len(u) + k] = e[k]
        <5>. DEFINE w == u \o e
        <5>1. Len(w) = Len(u) + Len(e) /\ \A k \in 1 .. Len(e) : w[Len(u) + k] = e[k]
          BY <4>1, <4>2, Zenon
        <5>2. out[i] = w
          BY <4>2
        <5>. HIDE DEF w
        <5>. QED  BY <4>1, <4>2, <5>1, <5>2
      <4>. QED  BY <4>3 DEF u
    <3>5. StepsOver(r, q, e)
      <4>. HIDE DEF q, e
      <4>1. ASSUME NEW k \in 1 .. Len(e) PROVE r[q + k] = ReadChar(r[q + (k - 1)], e[k])
        <5>1. q + k \in 1 .. Len(out[i]) /\ (q + k) - 1 = q + (k - 1)
          BY <3>4
        <5>2. q + k \in 1 .. Len(text) /\ text[q + k] = e[k]
          BY <1>5, <2>3, <3>4, <5>1
        <5>3. r[q + k] = ReadChar(r[(q + k) - 1], text[q + k])
          BY <1>4, <5>2 DEF Reads
        <5>. QED  BY <5>1, <5>2, <5>3
      <4>. QED  BY <4>1 DEF StepsOver
    <3>6. r[q + Len(e)] = At("plain", Append(chars, c))
      <4>1. r[q] = At("plain", chars)
        BY <3>2
      <4>. HIDE DEF q, c, chars
      <4>. QED  BY <3>1, <3>4, <3>5, <4>1, EscapeReads
    <3>7. Append(chars, c) = SubSeq(s, 1, i)
      <4>1. j \in Nat /\ j + 1 = i /\ j + 1 <= Len(s)
        BY <3>1
      <4>. QED  BY <4>1
    <3>. QED  BY <2>3, <3>4, <3>6, <3>7
  <2>. QED  BY <2>4, <2>5
<1>7. r[Len(text)] = At("after", s)
  <2>. DEFINE q == Len(out[n])
  <2>1. q \in Nat /\ Len(text) = q + 1 /\ text[q + 1] = Quote /\ q + 1 \in 1 .. Len(text)
    BY <1>2, <1>3
  <2>2. SubSeq(s, 1, n) = s
    OBVIOUS
  <2>3. r[q] = At("plain", s)
    BY <1>6, <2>2
  <2>. HIDE DEF q
  <2>4. r[q + 1] = ReadChar(r[q], Quote)
    <3>1. r[q + 1] = ReadChar(r[(q + 1) - 1], text[q + 1]) /\ (q + 1) - 1 = q
      BY <1>4, <2>1 DEF Reads
    <3>. QED  BY <2>1, <3>1
  <2>5. ReadChar(At("plain", s), Quote) = At("after", s)
    BY QuoteReads
  <2>. QED  BY <2>1, <2>3, <2>4, <2>5
<1>8. read_json_string(text) = s
  BY <1>4, <1>7 DEF At
<1>. QED  BY <1>8 DEF text

\* Whatever strings a document holds, of any characters and any length, a reader of
\* the document gets each of them back (writer.rs:13-29).
THEOREM StringsAreReadBack == JsonSpec => []StringsReadBack
<1>1. Misread = {}
  BY StringAssumption, RoundTrip DEF Misread
<1>2. StringsReadBack
  BY <1>1 DEF StringsReadBack
<1>. QED  BY <1>2, PTL
=============================================================================
