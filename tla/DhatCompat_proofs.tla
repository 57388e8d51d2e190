-------------------------- MODULE DhatCompat_proofs --------------------------
(***************************************************************************)
(* Type correctness of DhatCompat, what is found in the files its          *)
(* profilers write, and what an ad-hoc report counts, for any profilers,   *)
(* callers, weights and file names.                                        *)
(***************************************************************************)
EXTENDS DhatCompat, Arithmetic, TLAPS

LEMMA PathIsPath == ASSUME NEW p \in Profilers, config \in [Profilers -> Config]
                    PROVE Path(p) \in Paths
BY DEF Path, Paths, Config

\* A report is a sequence of its pieces, not empty, and whole.
LEMMA PiecesAreWhole ==
  ASSUME NEW p \in Profilers, NEW mode \in {"Heap", "AdHoc"},
         NEW n \in 1 .. MaxSites + 1
  PROVE /\ Pieces(p, mode, n) \in Seq(PieceType)
        /\ Pieces(p, mode, n) # << >>
        /\ IsWhole(Pieces(p, mode, n))
        /\ \A k \in DOMAIN Pieces(p, mode, n) :
              Pieces(p, mode, n)[k].by = p /\ Pieces(p, mode, n)[k].mode = mode
<1> DEFINE s == Pieces(p, mode, n)
<1>1. s = [k \in 1 .. n |-> [by |-> p, mode |-> mode, of |-> n]]
  BY DEF Pieces, Piece
<1> HIDE DEF s
<1>2. [by |-> p, mode |-> mode, of |-> n] \in PieceType
  BY DEF PieceType
<1>3. n \in Nat /\ n > 0
  BY BoundAssumption
<1>4. s \in Seq(PieceType) /\ Len(s) = n /\ DOMAIN s = 1 .. n
  BY <1>1, <1>2, <1>3
<1>5. s # << >>
  BY <1>3, <1>4
<1>6. \A k \in DOMAIN s : s[k] = s[1] /\ s[k].of = Len(s)
  BY <1>1, <1>3, <1>4
<1> QED
  BY <1>1, <1>4, <1>5, <1>6 DEF s, IsWhole

\* What the first n pieces of new leave of old, written over it.
Over(new, n, old) == SubSeq(new, 1, n) \o SubSeq(old, n + 1, Len(old))

MadeOf(content, new, old) ==
    \A k \in DOMAIN content : \/ \E j \in DOMAIN new : content[k] = new[j]
                              \/ \E j \in DOMAIN old : content[k] = old[j]

LEMMA Concatenation ==
  ASSUME NEW a \in Seq(PieceType), NEW b \in Seq(PieceType)
  PROVE /\ a \o b \in Seq(PieceType) /\ DOMAIN (a \o b) = 1 .. Len(a) + Len(b)
        /\ \A k \in 1 .. Len(a) : (a \o b)[k] = a[k]
        /\ \A k \in Len(a) + 1 .. Len(a) + Len(b) :
              k - Len(a) \in 1 .. Len(b) /\ (a \o b)[k] = b[k - Len(a)]
OBVIOUS

\* What a write leaves is made of what it writes and of what was there.
LEMMA Overwritten ==
  ASSUME NEW new \in Seq(PieceType), NEW old \in Seq(PieceType),
         NEW n \in 0 .. Len(new)
  PROVE /\ Over(new, n, old) \in Seq(PieceType)
        /\ MadeOf(Over(new, n, old), new, old)
<1> DEFINE a == SubSeq(new, 1, n)
           b == SubSeq(old, n + 1, Len(old))
           left == a \o b
<1>1. /\ a \in Seq(PieceType) /\ Len(a) = n
      /\ \A k \in 1 .. n : a[k] = new[k] /\ k \in DOMAIN new
  OBVIOUS
<1>2. /\ b \in Seq(PieceType) /\ Len(b) \in Nat
      /\ \A k \in 1 .. Len(b) : b[k] = old[n + k] /\ n + k \in DOMAIN old
  OBVIOUS
<1> HIDE DEF a, b
<1>3. /\ left \in Seq(PieceType) /\ DOMAIN left = 1 .. n + Len(b)
      /\ \A k \in 1 .. n : left[k] = a[k]
      /\ \A k \in n + 1 .. n + Len(b) : k - n \in 1 .. Len(b) /\ left[k] = b[k - n]
  BY <1>1, <1>2, Concatenation
<1> HIDE DEF left
<1>4. ASSUME NEW k \in DOMAIN left
      PROVE \/ \E j \in DOMAIN new : left[k] = new[j]
            \/ \E j \in DOMAIN old : left[k] = old[j]
  <2>1. k \in 1 .. n \/ k \in n + 1 .. n + Len(b)
    BY <1>2, <1>3
  <2>2. CASE k \in 1 .. n
    BY <2>2, <1>1, <1>3
  <2>3. CASE k \in n + 1 .. n + Len(b)
    BY <2>3, <1>2, <1>3
  <2> QED
    BY <2>1, <2>2, <2>3
<1>5. left = Over(new, n, old)
  BY DEF Over, a, b, left
<1> QED
  BY <1>3, <1>4, <1>5 DEF MadeOf

\* The whole of what is written over nothing is what is found.
LEMMA WrittenOverNothing ==
  ASSUME NEW new \in Seq(PieceType)
  PROVE Over(new, Len(new), << >>) = new
<1>1. SubSeq(<< >>, Len(new) + 1, Len(<< >>)) = << >>
  BY Len(new) \in Nat, Len(<< >>) = 0
<1>2. SubSeq(new, 1, Len(new)) = new
  OBVIOUS
<1>3. new \o << >> = new
  OBVIOUS
<1> QED
  BY <1>1, <1>2, <1>3, Zenon DEF Over

-----------------------------------------------------------------------------
(* Types.                                                                    *)

\* The first counter is the number of events begun.
TypeInv == /\ TypeOK
           /\ begun \in [events : 0 .. MaxEvents, units : Nat]
           /\ begun.events = AD_HOC_EVENTS

LEMMA InitType == Init => TypeInv
<1> SUFFICES ASSUME Init PROVE TypeInv
  OBVIOUS
<1> USE BoundAssumption DEF Init
<1>1. config \in [Profilers -> Config]
  BY DEF Default, Config
<1>2. /\ weight \in [Callers -> Weights \union {0}]
      /\ stats \in [Profilers -> [events : 0 .. MaxEvents, units : Nat]]
  BY DEF NoEvents
<1>3. /\ body \in [Profilers -> Seq(PieceType)]
      /\ file \in [Paths -> Seq(PieceType)]
  OBVIOUS
<1>4. /\ pc \in [Callers \union Profilers ->
                    {"idle", "counted", "unborn", "alive", "render", "load_events",
                     "load_units", "create", "write", "dropped"}]
      /\ \A p \in Profilers : pc[p] \notin {"create", "write"}
  OBVIOUS
<1>5. /\ PROFILER_ACTIVE \in BOOLEAN /\ sites \in 0 .. MaxSites
      /\ AD_HOC_EVENTS \in 0 .. MaxEvents /\ AD_HOC_UNITS \in Nat
      /\ begun \in [events : 0 .. MaxEvents, units : Nat]
      /\ begun.events = AD_HOC_EVENTS
  <2>1. PROFILER_ACTIVE \in BOOLEAN
    BY Zenon
  <2>4. sites \in 0 .. MaxSites
    OBVIOUS
  <2>2. AD_HOC_EVENTS \in 0 .. MaxEvents /\ AD_HOC_UNITS \in Nat
    OBVIOUS
  <2>3. begun = [events |-> 0, units |-> 0]
    BY DEF NoEvents
  <2> QED
    BY <2>1, <2>2, <2>3, <2>4
<1> QED
  BY <1>1, <1>2, <1>3, <1>4, <1>5 DEF TypeOK, TypeInv

LEMMA NextType == TypeInv /\ [Next]_vars => TypeInv'
<1> SUFFICES ASSUME TypeInv, [Next]_vars PROVE TypeInv'
  OBVIOUS
<1> USE WeightAssumption, BoundAssumption DEF TypeInv
<1>1. CASE RecordSite
  BY <1>1 DEF RecordSite, TypeOK, counters, reports, disk
<1>2. ASSUME NEW t \in Callers, CountEvent(t) PROVE TypeInv'
  <2>1. PICK w \in Weights :
           /\ weight' = [weight EXCEPT ![t] = w]
           /\ begun' = [events |-> begun.events + 1, units |-> begun.units + w]
    BY <1>2 DEF CountEvent
  <2>2. /\ begun' \in [events : 0 .. MaxEvents, units : Nat]
        /\ begun'.events = AD_HOC_EVENTS'
    BY <1>2, <2>1 DEF CountEvent
  <2>3. weight' \in [Callers -> Weights \union {0}]
    BY <2>1 DEF TypeOK
  <2>4. /\ pc' \in [Callers \union Profilers ->
                      {"idle", "counted", "unborn", "alive", "render", "load_events",
                       "load_units", "create", "write", "dropped"}]
        /\ \A p \in Profilers : pc'[p] \in {"create", "write"} => pc[p] = pc'[p]
    BY <1>2 DEF CountEvent, Goto, TypeOK
  <2> QED
    BY <1>2, <2>2, <2>3, <2>4 DEF CountEvent, TypeOK, reports, disk
<1>3. ASSUME NEW t \in Callers, CountUnits(t) PROVE TypeInv'
  <2>0. weight \in [Callers -> Weights \union {0}]
    BY DEF TypeOK
  <2>1. weight[t] \in Nat
    <3>1. \A w \in Weights \union {0} : w \in Nat
      BY WeightAssumption
    <3>2. weight[t] \in Weights \union {0}
      BY <2>0
    <3> QED
      BY <3>1, <3>2, Zenon
  <2>2. AD_HOC_UNITS' \in Nat /\ weight' \in [Callers -> Weights \union {0}]
    BY <1>3, <2>1 DEF CountUnits, PlusUnits, TypeOK
  <2>3. /\ pc' \in [Callers \union Profilers ->
                      {"idle", "counted", "unborn", "alive", "render", "load_events",
                       "load_units", "create", "write", "dropped"}]
        /\ \A p \in Profilers : pc'[p] \in {"create", "write"} => pc[p] = pc'[p]
    BY <1>3 DEF CountUnits, Goto, TypeOK
  <2> QED
    BY <1>3, <2>2, <2>3 DEF CountUnits, TypeOK, reports, disk
<1>4. ASSUME NEW p \in Profilers, Install(p) PROVE TypeInv'
  BY <1>4 DEF Install, TypeOK, Goto, counters, reports, disk
<1>5. ASSUME NEW p \in Profilers, Drop(p) PROVE TypeInv'
  <2>1. pc' \in [Callers \union Profilers ->
                    {"idle", "counted", "unborn", "alive", "render", "load_events",
                     "load_units", "create", "write", "dropped"}]
    BY <1>5 DEF Drop, TypeOK, Goto, Config
  <2>2. pc'[p] \notin {"create", "write"}
    BY <1>5 DEF Drop, TypeOK, Goto, Config
  <2> QED
    BY <1>5, <2>1, <2>2 DEF Drop, TypeOK, Goto, counters, disk
<1>6. ASSUME NEW p \in Profilers, RenderHeap(p) PROVE TypeInv'
  <2>1. sites + 1 \in 1 .. MaxSites + 1
    BY DEF TypeOK
  <2>2. /\ Pieces(p, "Heap", sites + 1) \in Seq(PieceType)
        /\ Pieces(p, "Heap", sites + 1) # << >>
    BY <2>1, PiecesAreWhole
  <2> QED
    BY <1>6, <2>2 DEF RenderHeap, TypeOK, Goto, counters, disk
<1>7. ASSUME NEW p \in Profilers, LoadEvents(p) PROVE TypeInv'
  BY <1>7 DEF LoadEvents, TypeOK, Goto, counters, disk
<1>8. ASSUME NEW p \in Profilers, LoadUnits(p) PROVE TypeInv'
  <2>1. Pieces(p, "AdHoc", 1) \in Seq(PieceType) /\ Pieces(p, "AdHoc", 1) # << >>
    BY PiecesAreWhole
  <2> QED
    BY <1>8, <2>1 DEF LoadUnits, TypeOK, Goto, counters, disk
<1>9. ASSUME NEW p \in Profilers, Create(p) PROVE TypeInv'
  <2>0. file \in [Paths -> Seq(PieceType)] /\ << >> \in Seq(PieceType)
    BY DEF TypeOK
  <2>1. file' \in [Paths -> Seq(PieceType)]
    BY <1>9, <2>0 DEF Create
  <2>2. /\ pc' \in [Callers \union Profilers ->
                      {"idle", "counted", "unborn", "alive", "render", "load_events",
                       "load_units", "create", "write", "dropped"}]
        /\ \A q \in Profilers : pc'[q] \in {"create", "write"} =>
              pc[q] \in {"create", "write"}
    BY <1>9 DEF Create, Goto, TypeOK
  <2> QED
    BY <1>9, <2>1, <2>2 DEF Create, TypeOK, counters, reports
<1>10. ASSUME NEW p \in Profilers, Write(p) PROVE TypeInv'
  <2>1. Path(p) \in Paths /\ body[p] \in Seq(PieceType) /\ file[Path(p)] \in Seq(PieceType)
    BY PathIsPath DEF TypeOK
  <2>2. body[p] \o SubSeq(file[Path(p)], Len(body[p]) + 1, Len(file[Path(p)]))
           \in Seq(PieceType)
    BY <2>1
  <2> QED
    BY <1>10, <2>1, <2>2 DEF Write, TypeOK, Goto, counters, reports
<1>11. ASSUME NEW p \in Profilers, Fail(p) PROVE TypeInv'
  <2>1. CASE UNCHANGED file
    BY <1>11, <2>1 DEF Fail, TypeOK, Goto, counters, reports
  <2>2. ASSUME NEW n \in 0 .. Len(body[p]) - 1,
               file' = [file EXCEPT ![Path(p)] =
                           SubSeq(body[p], 1, n) \o SubSeq(@, n + 1, Len(@))]
        PROVE TypeInv'
    <3>1. Path(p) \in Paths /\ body[p] \in Seq(PieceType)
             /\ file[Path(p)] \in Seq(PieceType) /\ n \in 0 .. Len(body[p])
      BY PathIsPath DEF TypeOK
    <3>2. SubSeq(body[p], 1, n) \o SubSeq(file[Path(p)], n + 1, Len(file[Path(p)]))
             \in Seq(PieceType)
      BY <3>1, Overwritten DEF Over
    <3>3. file' \in [Paths -> Seq(PieceType)]
      BY <2>2, <3>1, <3>2 DEF TypeOK
    <3> QED
      BY <1>11, <3>3 DEF Fail, TypeOK, Goto, counters, reports
  <2> QED
    BY <1>11, <2>1, <2>2 DEF Fail
<1>12. CASE Rest
  BY <1>12 DEF Rest, TypeOK, vars, counters, reports, disk
<1>13. CASE UNCHANGED vars
  BY <1>13 DEF TypeOK, vars, counters, reports, disk
<1> QED
  BY <1>1, <1>2, <1>3, <1>4, <1>5, <1>6, <1>7, <1>8, <1>9, <1>10, <1>11, <1>12,
     <1>13 DEF Next

LEMMA TypeInvHolds == Spec => []TypeInv
BY InitType, NextType, PTL DEF Spec

\* The profilers, the counters and the files keep their types, and a drop that
\* opens its file has rendered a report (profiler.rs:110-134).
THEOREM TypeSafety == Spec => []TypeOK
<1>1. TypeInv => TypeOK
  BY DEF TypeInv
<1> QED
  BY TypeInvHolds, <1>1, PTL

-----------------------------------------------------------------------------
(* What is found in the files.                                               *)

\* The pieces of a content were written by p, in its mode.
IsBy(content, p) ==
    \A k \in DOMAIN content :
       content[k].by = p /\ content[k].mode = config[p].mode

\* A profiler that is about to write is not testing, renders what its mode says,
\* and then holds a whole report of its own.
WriterOK(p) ==
    /\ pc[p] \in {"render", "load_events", "load_units", "create", "write"} =>
          ~config[p].testing
    /\ pc[p] = "render" => config[p].mode = "Heap"
    /\ pc[p] \in {"load_events", "load_units"} => config[p].mode = "AdHoc"
    /\ pc[p] \in {"create", "write"} => IsBy(body[p], p) /\ IsWhole(body[p])
    /\ p \in failed => pc[p] = "dropped"

\* A piece in a file is of a profiler that writes there.
PieceOK(path, piece) ==
    /\ Path(piece.by) = path
    /\ ~config[piece.by].testing
    /\ piece.mode = config[piece.by].mode
    /\ pc[piece.by] # "unborn"

\* As long as no two drops have had a file open at a time, the one that has it
\* open finds it empty, and otherwise it is whole.
FileOK(path) ==
    /\ \A k \in DOMAIN file[path] : PieceOK(path, file[path][k])
    /\ path \notin crowded =>
          /\ \A p, q \in Writers(path) : p = q
          /\ Writers(path) # {} => file[path] = << >>
          /\ \/ \E p \in failed : Path(p) = path
             \/ IsWhole(file[path])

FilesInv == /\ failed \subseteq Profilers
            /\ \A p \in Profilers : WriterOK(p)
            /\ \A path \in Paths : FileOK(path)

LEMMA InitFiles == Init => FilesInv
<1> SUFFICES ASSUME Init PROVE FilesInv
  OBVIOUS
<1>1. ASSUME NEW p \in Profilers PROVE pc[p] \in {"idle", "unborn"} /\ failed = {}
  BY DEF Init
<1>2. ASSUME NEW path \in Paths PROVE file[path] = << >> /\ DOMAIN file[path] = {}
  BY DEF Init
<1>3. \A path \in Paths : Writers(path) = {}
  BY <1>1 DEF Writers
<1> QED
  BY <1>1, <1>2, <1>3 DEF Init, FilesInv, WriterOK, FileOK, IsWhole

LEMMA WritersOfPieces ==
  ASSUME TypeInv, NEW path \in Paths
  PROVE \A k \in DOMAIN file[path] : file[path][k].by \in Profilers
<1>1. file[path] \in Seq(PieceType)
  BY DEF TypeInv, TypeOK
<1>2. \A k \in DOMAIN file[path] : file[path][k] \in PieceType
  BY <1>1
<1> QED
  BY <1>2 DEF PieceType

\* A step that leaves the files and their writers alone.
LEMMA AwayFromFiles ==
  ASSUME TypeInv, FilesInv, UNCHANGED <<config, file, crowded, failed>>,
         \A p \in Profilers :
            /\ pc'[p] = "write" <=> pc[p] = "write"
            /\ pc[p] # "unborn" => pc'[p] # "unborn",
         \A p \in Profilers : WriterOK(p)'
  PROVE FilesInv'
<1>1. \A p : Path(p)' = Path(p)
  BY DEF Path
<1>2. \A path : Writers(path)' = Writers(path)
  BY <1>1 DEF Writers
<1>3. ASSUME NEW path \in Paths PROVE FileOK(path)'
  <2>1. FileOK(path)
    BY DEF FilesInv
  <2>2. \A k \in DOMAIN file[path] : file[path][k].by \in Profilers
    BY WritersOfPieces
  <2>3. \A k \in DOMAIN file[path] : PieceOK(path, file[path][k])'
    BY <2>1, <2>2, <1>1 DEF FileOK, PieceOK
  <2>4. \A content : IsWhole(content)' = IsWhole(content)
    BY DEF IsWhole
  <2> QED
    BY <2>1, <2>3, <1>1, <1>2 DEF FileOK, IsWhole
<1> QED
  BY <1>3 DEF FilesInv

\* A profiler that a step leaves alone stays ready to write.
LEMMA WriterStays ==
  ASSUME NEW p \in Profilers, WriterOK(p),
         pc'[p] = pc[p], config'[p] = config[p], body'[p] = body[p],
         p \in failed' => p \in failed
  PROVE WriterOK(p)'
BY DEF WriterOK, IsBy, IsWhole

LEMMA NextFiles == TypeInv /\ FilesInv /\ [Next]_vars => FilesInv'
<1> SUFFICES ASSUME TypeInv, FilesInv, [Next]_vars PROVE FilesInv'
  OBVIOUS
<1>0. /\ \A p \in Profilers : WriterOK(p)
      /\ DOMAIN pc = Callers \union Profilers /\ DOMAIN config = Profilers
      /\ DOMAIN body = Profilers /\ DOMAIN file = Paths
      /\ \A p \in Profilers : Path(p) \in Paths
  BY PathIsPath DEF FilesInv, TypeInv, TypeOK
<1>1. ASSUME UNCHANGED <<pc, config, body, file, crowded, failed>> PROVE FilesInv'
  <2>1. \A p \in Profilers : WriterOK(p)'
    BY <1>0, <1>1, WriterStays
  <2> QED
    BY <1>1, <2>1, AwayFromFiles
<1>2. ASSUME NEW t \in Callers, CountEvent(t) \/ CountUnits(t) PROVE FilesInv'
  <2>1. /\ UNCHANGED <<config, body, file, crowded, failed>>
        /\ pc[t] \in {"idle", "counted"}
        /\ pc' = [pc EXCEPT ![t] = pc'[t]] /\ pc'[t] \in {"idle", "counted"}
    BY <1>2, <1>0 DEF CountEvent, CountUnits, Goto, reports, disk
  <2>2. ASSUME NEW p \in Profilers PROVE WriterOK(p)'
    BY <2>1, <1>0, WriterStays DEF WriterOK
  <2> QED
    BY <2>1, <2>2, <1>0, AwayFromFiles
<1>3. ASSUME NEW p \in Profilers, Install(p) PROVE FilesInv'
  <2>1. /\ UNCHANGED <<body, file, crowded, failed>>
        /\ pc[p] = "unborn" /\ pc' = [pc EXCEPT ![p] = "alive"]
        /\ \A q \in Profilers \ {p} : config'[q] = config[q]
    BY <1>3, <1>0 DEF Install, Goto, reports, disk
  <2>2. ASSUME NEW q \in Profilers PROVE WriterOK(q)'
    <3>1. CASE q = p
      BY <2>1, <3>1, <1>0 DEF WriterOK
    <3>2. CASE q # p
      BY <2>1, <3>2, <1>0, WriterStays
    <3> QED
      BY <3>1, <3>2
  <2>3. \A q \in Profilers \ {p} : Path(q)' = Path(q)
    BY <2>1 DEF Path
  <2>4. \A path : Writers(path)' = Writers(path)
    BY <2>1, <2>3, <1>0 DEF Writers
  <2>5. ASSUME NEW path \in Paths PROVE FileOK(path)'
    <3>1. FileOK(path)
      BY DEF FilesInv
    <3>2. \A k \in DOMAIN file[path] : file[path][k].by \in Profilers \ {p}
      BY <3>1, <2>1, WritersOfPieces DEF FileOK, PieceOK
    <3>3. \A k \in DOMAIN file[path] : PieceOK(path, file[path][k])'
      BY <3>1, <3>2, <2>1, <2>3, <1>0 DEF FileOK, PieceOK
    <3>4. \A q \in failed : q \in Profilers => q # p
      BY <2>1, <1>0 DEF WriterOK
    <3>5. failed \subseteq Profilers
      BY DEF FilesInv
    <3> QED
      BY <3>1, <3>3, <3>4, <3>5, <2>1, <2>3, <2>4 DEF FileOK, IsWhole
  <2> QED
    BY <2>1, <2>2, <2>5 DEF FilesInv
<1>4. ASSUME NEW p \in Profilers, Drop(p) PROVE FilesInv'
  <2>1. /\ UNCHANGED <<config, body, file, crowded, failed>>
        /\ pc[p] = "alive" /\ pc' = [pc EXCEPT ![p] = pc'[p]]
        /\ \/ pc'[p] = "dropped"
           \/ ~config[p].testing /\ pc'[p] = "render" /\ config[p].mode = "Heap"
           \/ ~config[p].testing /\ pc'[p] = "load_events" /\ config[p].mode = "AdHoc"
    <3>1. config[p] \in Config
      BY DEF TypeInv, TypeOK
    <3> QED
      BY <1>4, <1>0, <3>1 DEF Drop, IsSilent, Goto, disk, Config
  <2>2. ASSUME NEW q \in Profilers PROVE WriterOK(q)'
    <3>1. CASE q = p
      BY <2>1, <3>1, <1>0 DEF WriterOK
    <3>2. CASE q # p
      BY <2>1, <3>2, <1>0, WriterStays
    <3> QED
      BY <3>1, <3>2
  <2>3. ASSUME NEW q \in Profilers
        PROVE /\ pc'[q] = "write" <=> pc[q] = "write"
              /\ pc[q] # "unborn" => pc'[q] # "unborn"
    BY <2>1, <1>0
  <2>4. UNCHANGED <<config, file, crowded, failed>>
    BY <2>1
  <2> QED
    BY <2>2, <2>3, <2>4, AwayFromFiles
<1>5. ASSUME NEW p \in Profilers, NEW mode \in {"Heap", "AdHoc"}, NEW n \in 1 .. MaxSites + 1,
             UNCHANGED <<config, file, crowded, failed>>,
             pc[p] \in {"render", "load_units"}, config[p].mode = mode,
             pc' = [pc EXCEPT ![p] = "create"],
             body' = [body EXCEPT ![p] = Pieces(p, mode, n)]
      PROVE FilesInv'
  <2> DEFINE report == Pieces(p, mode, n)
  <2>0. /\ body'[p] = report /\ config'[p].mode = mode /\ IsWhole(report)
        /\ \A k \in DOMAIN report : report[k].by = p /\ report[k].mode = mode
    BY <1>0, <1>5, PiecesAreWhole
  <2> HIDE DEF report
  <2>1. IsBy(body[p], p)' /\ IsWhole(body[p])'
    BY <2>0 DEF IsBy, IsWhole
  <2>2. ASSUME NEW q \in Profilers PROVE WriterOK(q)'
    <3>1. CASE q = p
      <4>1. ~config[p].testing /\ p \notin failed
        BY <1>0, <1>5 DEF WriterOK
      <4>2. pc'[p] = "create"
        BY <1>0, <1>5
      <4> QED
        BY <2>1, <3>1, <4>1, <4>2, <1>5 DEF WriterOK
    <3>2. CASE q # p
      BY <3>2, <1>0, <1>5, WriterStays
    <3> QED
      BY <3>1, <3>2
  <2> QED
    BY <2>2, <1>0, <1>5, AwayFromFiles
<1>6. ASSUME NEW p \in Profilers, RenderHeap(p) PROVE FilesInv'
  <2>1. sites + 1 \in 1 .. MaxSites + 1
    BY BoundAssumption DEF TypeInv, TypeOK
  <2>2. config[p].mode = "Heap"
    BY <1>6, <1>0 DEF RenderHeap, WriterOK
  <2> QED
    BY <1>5, <1>6, <2>1, <2>2 DEF RenderHeap, Goto, disk
<1>7. ASSUME NEW p \in Profilers, LoadEvents(p) PROVE FilesInv'
  <2>1. /\ UNCHANGED <<config, body, file, crowded, failed>>
        /\ pc[p] = "load_events" /\ pc' = [pc EXCEPT ![p] = "load_units"]
    BY <1>7 DEF LoadEvents, Goto, disk
  <2>2. ASSUME NEW q \in Profilers PROVE WriterOK(q)'
    <3>1. CASE q = p
      BY <2>1, <3>1, <1>0 DEF WriterOK
    <3>2. CASE q # p
      BY <2>1, <3>2, <1>0, WriterStays
    <3> QED
      BY <3>1, <3>2
  <2> QED
    BY <2>1, <2>2, <1>0, AwayFromFiles
<1>8. ASSUME NEW p \in Profilers, LoadUnits(p) PROVE FilesInv'
  <2>1. config[p].mode = "AdHoc" /\ 1 \in 1 .. MaxSites + 1
    BY <1>8, <1>0, BoundAssumption DEF LoadUnits, WriterOK
  <2> QED
    BY <1>5, <1>8, <2>1 DEF LoadUnits, Goto, disk
<1>9. ASSUME NEW p \in Profilers, Create(p) PROVE FilesInv'
  <2> DEFINE path == Path(p)
  <2>1. /\ UNCHANGED <<config, body, failed>>
        /\ pc[p] = "create" /\ pc' = [pc EXCEPT ![p] = "write"]
        /\ file' = [file EXCEPT ![path] = << >>]
        /\ crowded' = IF Writers(path) = {} THEN crowded ELSE crowded \union {path}
    BY <1>9 DEF Create, Goto, reports
  <2>2. /\ \A q : Path(q)' = Path(q)
        /\ \A content : IsWhole(content)' = IsWhole(content)
    BY <2>1 DEF Path, IsWhole
  <2>3. ASSUME NEW q \in Profilers PROVE WriterOK(q)'
    <3>1. CASE q = p
      BY <2>1, <3>1, <1>0 DEF WriterOK, IsBy, IsWhole
    <3>2. CASE q # p
      BY <2>1, <3>2, <1>0, WriterStays
    <3> QED
      BY <3>1, <3>2
  <2>4. /\ Writers(path)' = Writers(path) \union {p}
        /\ \A other \in Paths \ {path} : Writers(other)' = Writers(other)
    BY <2>1, <2>2, <1>0 DEF Writers
  <2>5. FileOK(path)'
    <3>1. file'[path] = << >> /\ DOMAIN << >> = {}
      BY <2>1, <1>0
    <3>2. path \notin crowded' => Writers(path)' = {p}
      BY <2>1, <2>4
    <3> QED
      BY <3>1, <3>2, <2>2 DEF FileOK, IsWhole
  <2>6. ASSUME NEW other \in Paths \ {path} PROVE FileOK(other)'
    <3>1. FileOK(other) /\ file'[other] = file[other]
             /\ (other \notin crowded' => other \notin crowded)
      BY <2>1, <1>0 DEF FilesInv
    <3>2. \A k \in DOMAIN file[other] : PieceOK(other, file[other][k])'
      BY <3>1, <2>1, <2>2, <1>0, WritersOfPieces DEF FileOK, PieceOK
    <3> QED
      BY <3>1, <3>2, <2>1, <2>2, <2>4 DEF FileOK, IsWhole
  <2> QED
    BY <2>1, <2>2, <2>3, <2>5, <2>6 DEF FilesInv
\* A write, whole or cut short, by the one that then is done.
<1>10. ASSUME NEW p \in Profilers, pc[p] \in {"create", "write"},
              pc' = [pc EXCEPT ![p] = "dropped"],
              UNCHANGED <<config, body, crowded>>,
              failed' \in {failed, failed \union {p}},
              \A other \in Paths \ {Path(p)} : file'[other] = file[other],
              MadeOf(file'[Path(p)], body[p], file[Path(p)]),
              pc[p] = "create" => file'[Path(p)] = file[Path(p)],
              failed' = failed =>
                 /\ pc[p] = "write"
                 /\ file[Path(p)] = << >> => file'[Path(p)] = body[p]
       PROVE FilesInv'
  <2> DEFINE path == Path(p)
  <2>1. /\ \A q : Path(q)' = Path(q)
        /\ \A content : IsWhole(content)' = IsWhole(content)
        /\ pc'[p] = "dropped" /\ \A q \in Profilers \ {p} : pc'[q] = pc[q]
        /\ p \notin failed /\ path \in Paths /\ FileOK(path)
    BY <1>0, <1>10 DEF Path, IsWhole, WriterOK, FilesInv
  <2>2. ASSUME NEW q \in Profilers PROVE WriterOK(q)'
    <3>1. CASE q = p
      BY <3>1, <2>1 DEF WriterOK
    <3>2. CASE q # p
      BY <3>2, <2>1, <1>0, <1>10, WriterStays
    <3> QED
      BY <3>1, <3>2
  <2>3. \A other : Writers(other)' = Writers(other) \ {p}
    BY <2>1 DEF Writers
  <2>4. \A q \in Profilers : pc[q] # "unborn" => pc'[q] # "unborn"
    BY <2>1
  <2>5. FileOK(path)'
    <3>1. WriterOK(p)
      BY <1>0
    <3>2. \A j \in DOMAIN body[p] : PieceOK(path, body[p][j])'
      BY <3>1, <1>10, <2>1, <2>4 DEF WriterOK, IsBy, PieceOK
    <3>3. \A piece : (\E j \in DOMAIN file[path] : piece = file[path][j])
                        => PieceOK(path, piece)'
      BY <1>10, <2>1, <2>4, WritersOfPieces DEF FileOK, PieceOK
    <3>4. ASSUME NEW k \in DOMAIN file'[path] PROVE PieceOK(path, file[path][k])'
      BY <3>2, <3>3, <1>10, <2>1 DEF MadeOf
    <3>5. ASSUME path \notin crowded
          PROVE /\ \A q, r \in Writers(path)' : q = r
                /\ Writers(path)' # {} => file'[path] = << >>
                /\ (\E q \in failed' : Path(q) = path) \/ IsWhole(file'[path])
      <4>1. CASE pc[p] = "create"
        <5>1. p \in failed'
          BY <4>1, <1>10
        <5> QED
          BY <4>1, <5>1, <1>10, <3>5, <2>1, <2>3 DEF FileOK
      <4>2. CASE pc[p] = "write"
        <5>1. p \in Writers(path)
          BY <4>2 DEF Writers
        <5>2. Writers(path)' = {} /\ file[path] = << >>
          BY <5>1, <3>5, <2>1, <2>3 DEF FileOK
        <5>3. p \in failed' \/ IsWhole(file'[path])
          BY <5>2, <1>10, <3>1 DEF WriterOK
        <5> QED
          BY <5>2, <5>3
      <4> QED
        BY <1>10, <4>1, <4>2
    <3> QED
      BY <3>4, <3>5, <2>1, <1>10 DEF FileOK
  <2>6. ASSUME NEW other \in Paths \ {path} PROVE FileOK(other)'
    <3>1. FileOK(other) /\ file'[other] = file[other] /\ p \notin Writers(other)
      BY <1>10 DEF FilesInv, Writers
    <3>2. \A k \in DOMAIN file[other] : PieceOK(other, file[other][k])'
      BY <3>1, <1>10, <2>1, <2>4, WritersOfPieces DEF FileOK, PieceOK
    <3>3. \A q \in failed : q \in failed'
      BY <1>10
    <3> QED
      BY <3>1, <3>2, <3>3, <1>10, <2>1, <2>3 DEF FileOK
  <2> QED
    BY <2>1, <2>2, <2>5, <2>6, <1>10 DEF FilesInv
<1>11. ASSUME NEW p \in Profilers, Write(p) PROVE FilesInv'
  <2>1. /\ UNCHANGED <<config, body, crowded, failed>>
        /\ pc[p] = "write" /\ pc' = [pc EXCEPT ![p] = "dropped"]
        /\ file' = [file EXCEPT ![Path(p)] =
                       body[p] \o SubSeq(@, Len(body[p]) + 1, Len(@))]
    BY <1>11 DEF Write, Goto, reports
  <2> DEFINE old  == file[Path(p)]
             left == Over(body[p], Len(body[p]), old)
  <2>2. body[p] \in Seq(PieceType) /\ old \in Seq(PieceType)
    BY <1>0 DEF TypeInv, TypeOK
  <2>3. SubSeq(body[p], 1, Len(body[p])) = body[p] /\ Len(body[p]) \in 0 .. Len(body[p])
    BY <2>2
  <2>4. MadeOf(left, body[p], old)
    BY <2>2, <2>3, Overwritten
  <2>6. old = << >> => left = body[p]
    BY <2>2, WrittenOverNothing
  <2>5. /\ file'[Path(p)] = left
        /\ \A other \in Paths \ {Path(p)} : file'[other] = file[other]
    BY <2>1, <2>3, <1>0 DEF Over
  <2> HIDE DEF left
  <2> QED
    BY <1>10, <2>1, <2>4, <2>5, <2>6
<1>12. ASSUME NEW p \in Profilers, Fail(p) PROVE FilesInv'
  <2>1. /\ UNCHANGED <<config, body, crowded>>
        /\ failed' = failed \union {p}
        /\ pc[p] \in {"create", "write"} /\ pc' = [pc EXCEPT ![p] = "dropped"]
        /\ p \notin failed
    BY <1>12, <1>0 DEF Fail, Goto, reports, WriterOK
  <2>2. CASE UNCHANGED file
    <3>1. MadeOf(file[Path(p)], body[p], file[Path(p)])
      BY DEF MadeOf
    <3>2. file'[Path(p)] = file[Path(p)]
      BY <2>2
    <3> QED
      BY <1>10, <2>1, <2>2, <3>1, <3>2
  <2>3. ASSUME NEW n \in 0 .. Len(body[p]) - 1, pc[p] = "write",
               file' = [file EXCEPT ![Path(p)] =
                           SubSeq(body[p], 1, n) \o SubSeq(@, n + 1, Len(@))]
        PROVE FilesInv'
    <3> DEFINE old  == file[Path(p)]
               left == Over(body[p], n, old)
    <3>1. body[p] \in Seq(PieceType) /\ old \in Seq(PieceType) /\ n \in 0 .. Len(body[p])
      BY <1>0 DEF TypeInv, TypeOK
    <3>2. MadeOf(left, body[p], old)
      BY <3>1, Overwritten
    <3>3. /\ file'[Path(p)] = left
          /\ \A other \in Paths \ {Path(p)} : file'[other] = file[other]
      BY <2>3, <1>0 DEF Over
    <3> HIDE DEF left
    <3> QED
      BY <1>10, <2>1, <2>3, <3>2, <3>3
  <2> QED
    BY <1>12, <2>2, <2>3 DEF Fail
<1>13. CASE RecordSite
  BY <1>1, <1>13 DEF RecordSite, reports, disk
<1>14. CASE Rest \/ UNCHANGED vars
  BY <1>1, <1>14 DEF Rest, vars, reports, disk
<1> QED
  BY <1>2, <1>3, <1>4, <1>6, <1>7, <1>8, <1>9, <1>11, <1>12, <1>13, <1>14 DEF Next

LEMMA FilesInvHolds == Spec => []FilesInv
BY InitFiles, NextFiles, TypeInvHolds, PTL DEF Spec

\* What a file holds was written by profilers whose path it is, that are not
\* testing, and in their mode (profiler.rs:110-134, 163-172).
THEOREM FilesAreOwn == Spec => []OnlyOwnFiles
<1>1. FilesInv => OnlyOwnFiles
  BY DEF FilesInv, FileOK, PieceOK, OnlyOwnFiles
<1> QED
  BY FilesInvHolds, <1>1, PTL

\* As long as no two drops have had a file open at a time, it holds a whole
\* report, or what a failed write left (profiler.rs:125-134).
THEOREM UndisturbedFilesAreWhole == Spec => []UndisturbedIsWhole
<1>1. FilesInv => UndisturbedIsWhole
  BY DEF FilesInv, FileOK, UndisturbedIsWhole
<1> QED
  BY FilesInvHolds, <1>1, PTL

-----------------------------------------------------------------------------
(* What an ad-hoc report counts.                                             *)

\* The units of the calls between their two fetch_adds are all that is missing.
CountInv == begun.units = AD_HOC_UNITS + SumOf(weight, Pending)

DroppedPCs == {"render", "load_events", "load_units", "create", "write", "dropped"}

\* What a profiler has seen of the counters, since it was dropped.
SeenOK(p) ==
    /\ pc[p] \in {"unborn", "alive", "render", "load_events", "load_units"} => body[p] = << >>
    /\ pc[p] = "render" => config[p].mode = "Heap"
    /\ pc[p] \in DroppedPCs =>
          /\ before[p].events \in Int /\ before[p].events <= AD_HOC_EVENTS
          /\ before[p].units \in Int /\ before[p].units <= AD_HOC_UNITS
    /\ pc[p] = "load_units" =>
          /\ before[p].events <= stats[p].events /\ stats[p].events <= AD_HOC_EVENTS
    /\ pc[p] \in {"create", "write", "dropped"} /\ body[p] # << >>
             /\ config[p].mode = "AdHoc" =>
          /\ before[p].events <= stats[p].events /\ stats[p].events <= AD_HOC_EVENTS
          /\ before[p].units <= stats[p].units /\ stats[p].units <= AD_HOC_UNITS

SeenInv == /\ DOMAIN before = Profilers
           /\ \A p \in Profilers : SeenOK(p)

AdHocInv == TypeInv /\ CountInv /\ SeenInv

\* The counters and what is missing of them, as numbers.
Numbers ==
    /\ AD_HOC_EVENTS \in Nat /\ AD_HOC_UNITS \in Nat
    /\ begun.events = AD_HOC_EVENTS /\ begun.units \in Nat
    /\ IsFiniteSet(Pending) /\ Pending \in SUBSET Callers
    /\ \A t \in Callers : weight[t] \in Nat
    /\ SumOf(weight, Pending) \in Nat /\ Cardinality(Pending) \in Nat
    /\ \A p \in Profilers : stats[p].events \in Nat /\ stats[p].units \in Nat

LEMMA NumbersTyped == TypeInv => Numbers
<1>. SUFFICES ASSUME TypeInv PROVE Numbers
  OBVIOUS
<1>1. \A t \in Callers : weight[t] \in Nat
  <2>1. \A w \in Weights \union {0} : w \in Nat
    BY WeightAssumption
  <2>2. \A t \in Callers : weight[t] \in Weights \union {0}
    BY DEF TypeInv, TypeOK
  <2>. QED  BY <2>1, <2>2, Zenon
<1>2. IsFiniteSet(Pending) /\ Pending \in SUBSET Callers
  BY FiniteAssumption, FS_Subset DEF Pending
<1>3. \A t \in Pending : weight[t] \in Nat
  BY <1>1, <1>2
<1>4. SumOf(weight, Pending) \in Nat /\ Cardinality(Pending) \in Nat
  BY <1>2, <1>3, SumNat, FS_CardinalityType
<1>5. \A p \in Profilers : stats[p].events \in Nat /\ stats[p].units \in Nat
  BY BoundAssumption DEF TypeInv, TypeOK
<1>6. /\ AD_HOC_EVENTS \in Nat /\ AD_HOC_UNITS \in Nat
      /\ begun.events = AD_HOC_EVENTS /\ begun.units \in Nat
  BY BoundAssumption DEF TypeInv, TypeOK
<1>. QED  BY <1>1, <1>2, <1>4, <1>5, <1>6 DEF Numbers

\* What is complete: at most what the counters show, and all of its units.
LEMMA CompleteIs ==
    ASSUME Numbers, CountInv
    PROVE  /\ Complete.events \in Int /\ Complete.events <= AD_HOC_EVENTS
           /\ Complete.units = AD_HOC_UNITS /\ AD_HOC_UNITS <= begun.units
<1>. DEFINE n == Cardinality(Pending)
            u == SumOf(weight, Pending)
<1>1. Complete.events = begun.events - n /\ Complete.units = begun.units - u
  BY DEF Complete, SumOf
<1>2. /\ n \in Nat /\ u \in Nat /\ AD_HOC_EVENTS \in Nat /\ AD_HOC_UNITS \in Nat
      /\ begun.events = AD_HOC_EVENTS /\ begun.units = AD_HOC_UNITS + u
  BY DEF Numbers, CountInv
<1>. HIDE DEF n, u
<1>. QED  BY <1>1, <1>2

LEMMA AdHocInvBounded == AdHocInv => AdHocIsBounded
<1>. SUFFICES ASSUME AdHocInv PROVE AdHocIsBounded
  OBVIOUS
<1>1. Numbers /\ CountInv /\ SeenInv
  BY NumbersTyped DEF AdHocInv
<1>2. /\ Complete.units = AD_HOC_UNITS /\ AD_HOC_UNITS <= begun.units
  BY <1>1, CompleteIs
<1>3. ASSUME NEW p \in Profilers, pc[p] \in {"create", "write", "dropped"},
             body[p] # << >>, config[p].mode = "AdHoc"
      PROVE  /\ before[p].events <= stats[p].events /\ stats[p].events <= begun.events
             /\ before[p].units <= stats[p].units /\ stats[p].units <= begun.units
  <2>1. /\ before[p].events <= stats[p].events /\ stats[p].events <= AD_HOC_EVENTS
        /\ before[p].units <= stats[p].units /\ stats[p].units <= AD_HOC_UNITS
    BY <1>1, <1>3 DEF SeenInv, SeenOK
  <2>2. /\ stats[p].units \in Nat /\ AD_HOC_UNITS \in Nat /\ begun.units \in Nat
        /\ begun.events = AD_HOC_EVENTS
    BY <1>1 DEF Numbers
  <2>. QED  BY <1>2, <2>1, <2>2
<1>. QED  BY <1>2, <1>3 DEF AdHocIsBounded

LEMMA InitAdHoc == Init => CountInv /\ SeenInv
<1>. SUFFICES ASSUME Init PROVE CountInv /\ SeenInv
  OBVIOUS
<1>1. Pending = {}
  BY DEF Init, Pending
<1>2. begun.units = 0 /\ AD_HOC_UNITS = 0
  BY DEF Init, NoEvents
<1>3. CountInv
  BY <1>1, <1>2, SumEmpty DEF CountInv
<1>4. SeenInv
  BY DEF Init, SeenInv, SeenOK, DroppedPCs
<1>. QED  BY <1>3, <1>4

\* What a step of a caller makes of the units that are missing.
LEMMA PendingMoves ==
    ASSUME TypeInv, TypeInv', NEW t \in Callers,
           \A u \in Callers \ {t} : pc'[u] = pc[u] /\ weight'[u] = weight[u]
    PROVE  SumOf(weight', Pending') = SumOf(weight, Pending)
                 + (IF pc'[t] = "counted" THEN weight'[t] ELSE 0)
                 - (IF pc[t] = "counted" THEN weight[t] ELSE 0)
<1>. DEFINE g == weight'
            P == Pending'
<1>1. Numbers /\ Numbers'
  BY NumbersTyped, PTL
<1>2. /\ Pending \in SUBSET Callers /\ P \in SUBSET Callers
      /\ \A u \in Callers : weight[u] \in Int /\ g[u] \in Int
  BY <1>1 DEF Numbers
<1>3. /\ \A u \in Callers \ {t} : (u \in Pending <=> u \in P) /\ (u \in Pending => weight[u] = g[u])
      /\ t \in P <=> pc'[t] = "counted"
      /\ t \in Pending <=> pc[t] = "counted"
  BY DEF Pending
<1>. HIDE DEF g, P
<1>4. SumOf(g, P) = SumOf(weight, Pending) + (IF t \in P THEN g[t] ELSE 0)
                       - (IF t \in Pending THEN weight[t] ELSE 0)
  BY <1>2, <1>3, FiniteAssumption, SumMoves
<1>. QED  BY <1>3, <1>4 DEF g, P

\* A step that leaves the counters alone.
LEMMA CountStays ==
    ASSUME CountInv, UNCHANGED <<AD_HOC_UNITS, weight, begun>>,
           \A t \in Callers : pc'[t] = "counted" <=> pc[t] = "counted"
    PROVE  CountInv'
<1>1. Pending' = Pending
  BY DEF Pending
<1>. QED  BY <1>1 DEF CountInv

\* A profiler that a step leaves alone, while the counters only grow.
LEMMA SeenStays ==
    ASSUME TypeInv, TypeInv', NEW p \in Profilers, SeenOK(p),
           AD_HOC_EVENTS' >= AD_HOC_EVENTS, AD_HOC_UNITS' >= AD_HOC_UNITS,
           pc'[p] = pc[p], body'[p] = body[p], config'[p] = config[p],
           stats'[p] = stats[p], before'[p] = before[p]
    PROVE  SeenOK(p)'
<1>1. /\ AD_HOC_EVENTS \in Nat /\ AD_HOC_EVENTS' \in Nat
      /\ AD_HOC_UNITS \in Nat /\ AD_HOC_UNITS' \in Nat
      /\ stats[p].events \in Nat /\ stats[p].units \in Nat
  <2>1. Numbers /\ Numbers'
    BY NumbersTyped, PTL
  <2>. QED  BY <2>1 DEF Numbers
<1>. QED  BY <1>1 DEF SeenOK, DroppedPCs

LEMMA NextAdHoc ==
    ASSUME TypeInv, TypeInv', CountInv, SeenInv, [Next]_vars
    PROVE  CountInv' /\ SeenInv'
<1>0. /\ Numbers /\ Numbers' /\ DOMAIN pc = Callers \union Profilers /\ DOMAIN weight = Callers
      /\ DOMAIN before = Profilers /\ DOMAIN body = Profilers /\ DOMAIN stats = Profilers
      /\ DOMAIN config = Profilers /\ \A p \in Profilers : SeenOK(p)
  <2>1. Numbers /\ Numbers'
    BY NumbersTyped, PTL
  <2>. QED  BY <2>1 DEF TypeInv, TypeOK, SeenInv
<1>1. CASE UNCHANGED <<counters, pc, config, reports>>
  <2>1. CountInv'
    BY <1>1, CountStays DEF counters
  <2>. QED  BY <1>0, <1>1, <2>1 DEF counters, reports, SeenInv, SeenOK, DroppedPCs
<1>2. ASSUME NEW t \in Callers, CountEvent(t) \/ CountUnits(t) PROVE CountInv' /\ SeenInv'
  <2>1. /\ \A u \in (Callers \union Profilers) \ {t} : pc'[u] = pc[u]
        /\ \A u \in Callers \ {t} : weight'[u] = weight[u]
        /\ UNCHANGED <<config, body, stats, before>>
        /\ pc[t] \in {"idle", "counted"} /\ pc'[t] \in {"idle", "counted"}
    BY <1>0, <1>2 DEF CountEvent, CountUnits, Goto, reports
  <2>2. \/ /\ pc[t] = "idle" /\ pc'[t] = "counted" /\ AD_HOC_UNITS' = AD_HOC_UNITS
           /\ AD_HOC_EVENTS' = AD_HOC_EVENTS + 1
           /\ begun'.units = begun.units + weight'[t]
        \/ /\ pc[t] = "counted" /\ pc'[t] = "idle" /\ AD_HOC_UNITS' = AD_HOC_UNITS + weight[t]
           /\ AD_HOC_EVENTS' = AD_HOC_EVENTS /\ begun' = begun
    <3>1. CASE CountEvent(t)
      BY <1>0, <3>1 DEF CountEvent, Goto
    <3>2. CASE CountUnits(t)
      BY <1>0, <3>2 DEF CountUnits, Goto, PlusUnits
    <3>. QED  BY <1>2, <3>1, <3>2
  <2>3. /\ weight[t] \in Nat /\ weight'[t] \in Nat /\ AD_HOC_UNITS \in Nat
        /\ AD_HOC_EVENTS \in Nat /\ begun.units \in Nat
        /\ SumOf(weight, Pending) \in Nat
    BY <1>0 DEF Numbers
  <2>4. SumOf(weight', Pending') = SumOf(weight, Pending)
                 + (IF pc'[t] = "counted" THEN weight'[t] ELSE 0)
                 - (IF pc[t] = "counted" THEN weight[t] ELSE 0)
    BY <2>1, PendingMoves
  <2>. DEFINE s == SumOf(weight, Pending)
              s2 == SumOf(weight', Pending')
  <2>. HIDE DEF s, s2
  <2>5. begun'.units = AD_HOC_UNITS' + s2
    <3>1. begun.units = AD_HOC_UNITS + s /\ s \in Nat
      BY <2>3 DEF CountInv, s
    <3>2. s2 = s + (IF pc'[t] = "counted" THEN weight'[t] ELSE 0)
                 - (IF pc[t] = "counted" THEN weight[t] ELSE 0)
      BY <2>4 DEF s, s2
    <3>. QED  BY <2>2, <2>3, <3>1, <3>2
  <2>6. CountInv'
    BY <2>5 DEF CountInv, s2
  <2>7. ASSUME NEW p \in Profilers PROVE SeenOK(p)'
    <3>1. AD_HOC_EVENTS' >= AD_HOC_EVENTS /\ AD_HOC_UNITS' >= AD_HOC_UNITS
      BY <2>2, <2>3
    <3>2. CASE p # t
      BY <1>0, <2>1, <3>1, <3>2, SeenStays
    <3>3. CASE p = t
      BY <2>1, <3>3 DEF SeenOK, DroppedPCs
    <3>. QED  BY <3>2, <3>3
  <2>. QED  BY <1>0, <2>1, <2>6, <2>7 DEF SeenInv
<1>3. ASSUME NEW p \in Profilers,
             Install(p) \/ Drop(p) \/ RenderHeap(p) \/ LoadEvents(p) \/ LoadUnits(p)
                \/ Create(p) \/ Write(p) \/ Fail(p)
      PROVE  CountInv' /\ SeenInv'
  <2>1. /\ UNCHANGED counters
        /\ \A x \in (Callers \union Profilers) \ {p} : pc'[x] = pc[x]
        /\ pc[p] \notin {"idle", "counted"} /\ pc'[p] \notin {"idle", "counted"}
        /\ \A q \in Profilers \ {p} : /\ body'[q] = body[q] /\ config'[q] = config[q]
                                      /\ stats'[q] = stats[q] /\ before'[q] = before[q]
        /\ DOMAIN before' = Profilers
    <3>. USE <1>0 DEF Goto, reports
    <3>1. CASE Install(p) \/ RenderHeap(p) \/ LoadEvents(p) \/ LoadUnits(p)
      BY <3>1 DEF Install, RenderHeap, LoadEvents, LoadUnits
    <3>2. CASE Create(p) \/ Write(p) \/ Fail(p)
      BY <3>2 DEF Create, Write, Fail
    <3>3. CASE Drop(p)
      <4>1. pc'[p] \in {"dropped", "render", "load_events"}
        BY <3>3 DEF Drop, IsSilent, TypeInv, TypeOK, Config
      <4>. QED  BY <3>3, <4>1 DEF Drop
    <3>. QED  BY <1>3, <3>1, <3>2, <3>3
  <2>2. CountInv'
    BY <2>1, CountStays DEF counters
  <2>3. ASSUME NEW q \in Profilers \ {p} PROVE SeenOK(q)'
    <3>1. AD_HOC_EVENTS' >= AD_HOC_EVENTS /\ AD_HOC_UNITS' >= AD_HOC_UNITS
      BY <1>0, <2>1 DEF counters, Numbers
    <3>. QED  BY <1>0, <2>1, <3>1, SeenStays
  <2>4. SeenOK(p)'
    <3>0. /\ SeenOK(p) /\ AD_HOC_EVENTS' = AD_HOC_EVENTS /\ AD_HOC_UNITS' = AD_HOC_UNITS
          /\ AD_HOC_EVENTS \in Nat /\ AD_HOC_UNITS \in Nat /\ stats[p].events \in Nat
      BY <1>0, <2>1 DEF counters, Numbers
    <3>. USE <1>0, <3>0 DEF Goto, reports, SeenOK, DroppedPCs
    <3>1. CASE Install(p)
      BY <3>1 DEF Install
    <3>2. CASE Drop(p)
      <4>1. /\ pc[p] = "alive" /\ body'[p] = body[p] /\ config' = config
            /\ before'[p] = Complete
            /\ pc'[p] \in {"dropped", "render", "load_events"}
            /\ pc'[p] = "render" => config[p].mode = "Heap"
        BY <3>2 DEF Drop, IsSilent, TypeInv, TypeOK, Config
      <4>2. /\ Complete.events \in Int /\ Complete.events <= AD_HOC_EVENTS
            /\ Complete.units = AD_HOC_UNITS
        BY CompleteIs
      <4>. QED  BY <4>1, <4>2
    <3>3. CASE RenderHeap(p)
      BY <3>3 DEF RenderHeap
    <3>4. CASE LoadEvents(p)
      BY <3>4 DEF LoadEvents, TypeInv, TypeOK
    <3>5. CASE LoadUnits(p)
      BY <3>5 DEF LoadUnits, TypeInv, TypeOK
    <3>6. CASE Create(p) \/ Write(p) \/ Fail(p)
      <4>1. /\ pc[p] \in {"create", "write"} /\ pc'[p] \in {"write", "dropped"}
            /\ UNCHANGED <<body, config, stats, before>>
        BY <3>6 DEF Create, Write, Fail
      <4>. QED  BY <4>1
    <3>. QED  BY <1>3, <3>1, <3>2, <3>3, <3>4, <3>5, <3>6
  <2>. QED  BY <2>1, <2>2, <2>3, <2>4 DEF SeenInv
<1>4. CASE UNCHANGED vars
  BY <1>1, <1>4 DEF vars
<1>5. CASE RecordSite
  BY <1>1, <1>5 DEF RecordSite
<1>. QED  BY <1>2, <1>3, <1>4, <1>5 DEF Next, Rest

\* Whoever counts while profilers are dropped, an ad-hoc report has every event and
\* every unit of the calls that were complete when its profiler was dropped, and
\* none that had not begun (stats.rs:90-93, profiler.rs:163-172).
THEOREM AdHocReportsAreBounded == Spec => []AdHocIsBounded
<1>1. Init => AdHocInv
  BY InitType, InitAdHoc DEF AdHocInv
<1>2. AdHocInv /\ [Next]_vars => AdHocInv'
  BY NextType, NextAdHoc DEF AdHocInv
<1>. QED  BY <1>1, <1>2, AdHocInvBounded, PTL DEF Spec

=============================================================================
