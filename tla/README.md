# Verification of mod-alloc

TLA+ models, TLC runs and TLAPS proofs for `mod-alloc`, an allocation profiler
for Rust: a `#[global_allocator]` that counts what the program allocates and, with
the `backtraces` feature, groups it by call site. Paths are relative to the
repository; the file that a bare line number refers to is named in its section.

## 1. Inventory

### The parts and how they interact

```
program thread
  └─ GlobalAlloc::{alloc, alloc_zeroed, dealloc, realloc}        lib.rs
       ├─ System (the real allocator)
       ├─ ReentryGuard (thread-local IN_ALLOC)                    ModAlloc.tla
       ├─ six atomic counters, GLOBAL_HANDLE                      ModAlloc.tla
       └─ backtrace::record_event                                 TrackedAlloc.tla, RecordEvent.tla
            ├─ current_fp, current_stack_bounds                   RecordEvent.tla
            ├─ walk                                               Walk.tla
            └─ table::record                                      CallSiteTable.tla
                 ├─ hash_frames                                   FrameHash.tla
                 ├─ configured_bucket_count (first event only)    BucketCount.tla
                 └─ alloc_pages, free_pages (first event only)    CallSiteTable.tla
readers
  ├─ Profiler::start / stop ── GLOBAL_HANDLE ── snapshot          Profiler.tla
  ├─ dhat_compat::HeapStats::get ── the same snapshot             Profiler.tla
  ├─ call_sites ── call_sites_report                              CallSiteTable.tla
  ├─ symbolicated_report ── address cache ── unix.rs | windows.rs SymbolReport.tla, SymbolIndex.tla
  ├─ dhat_json_string ── frame table ── write_json_string         DhatJson.tla, JsonString.tla
  └─ dhat_compat: Profiler, ad_hoc_event, AdHocStats              DhatCompat.tla
```

The threads share atomics only, except for the mutex of the address cache and the
files that dhat-style profilers write; nothing is read back after a restart.

| component | state | operations | what is hard | what makes it correct |
|---|---|---|---|---|
| Call-site table (`backtrace/table.rs`) | `TABLE_BASE`, `TABLE_BUCKETS`, `TABLE_MASK`; per bucket `hash`, `count`, `total_bytes`, `frame_count`, `sample_frames` | `ensure_init`, `record`, `call_sites_report`, `_reset_for_test` | lock-free creation of the table; two-phase publication of a bucket; probing while others claim; a report that reads it all meanwhile | no event lost, one row per site, no torn row, no row missed, events dropped only by a full table, no leaked or freed page |
| Allocator wrapper and counters (`lib.rs`) | six `AtomicU64`, `GLOBAL_HANDLE`, thread-local `IN_ALLOC` | `alloc`, `alloc_zeroed`, `dealloc`, `realloc`, `snapshot`, `reset` | six counters updated one by one by all threads; the hook's own allocations; `System` reuses a block before its release is counted | exact when nothing is in progress, no wrap, no lost maximum |
| Scoped profiler (`lib.rs`) | the baseline | `start`, `stop` | two snapshots that are not atomic; the handle may appear in between | the difference is bounded by the calls in and around the window |
| Frame-pointer walk (`backtrace/walk.rs`) | the frame pointer, the frames so far | `walk` | reads memory through pointers that may be garbage | never reads outside the stack, ends, captures a proper chain |
| Event capture (`backtrace/mod.rs`, `capture.rs`, `stack_bounds.rs`) | per-thread cache of the stack's bounds | `record_event`, `current_stack_bounds`, `query_os` | platform queries that may fail, a cell that may be gone | walks with the real bounds or not at all, asks once, loses an event only for a reason of its own |
| Frame hash (`backtrace/hash.rs`) | none | `hash_frames` | 0 is reserved, collisions merge sites | never 0, every bit of every frame counts |
| Symbolication (`symbolicate/`) | process-wide address cache behind a mutex; a symbolicator per thread, on Windows one index per process | `symbolicated_report` | two threads miss together; a failed build is final; the search has three outcomes | rows keep their frames, an address is unresolved for a reason, the search is right |
| dhat compatibility (`dhat_compat/`) | `PROFILER_ACTIVE`, two ad-hoc counters | `Profiler` and its drop, `HeapStats::get`, `ad_hoc_event` | several profilers at once | the report is written once per profiler |
| DHAT JSON (`dhat_json/`) | the frame table while a report is built | `build`, `render` | interning, escapes | indices name the right frame, strings read back |

The hazards, each at its line and with the properties aimed at it, are listed in
`PROJECT.json`.


## 2. The modules

Each action is one access to shared state (an atomic operation, a critical
section, a system call); what a thread computes between two accesses belongs to
one of them. `pc` is the access a thread makes next. `PROJECT.json` ("map") gives
the lines each definition stands for. A definition whose comment begins "Mutant"
is not part of the model: it is a faulty form of the definition below it, put in
its place to see that the property named in `PROJECT.json` notices.

**CallSiteTable** (`backtrace/table.rs`). `TABLE_BASE` is the thread whose pages
were published, `mapped` the threads whose pages exist; the fields of the buckets
are functions on `0 .. N - 1`. `LoadBase`, `LoadBuckets`, `LoadMask` are the fast
path of `ensure_init`; `AllocPages` .. `AwaitBuckets` the slow one, with its lost
race and its spin. `Probe`, `Claim`, `ClaimLost`, `WriteFrame`, `AddCount`,
`InitBytes`, `AddBytes`, `Publish` are `record`; `ScanHash` .. `LoadBytes` are
`call_sites_report`. The hash is any function of the trace that is never 0, so
colliding traces and colliding home buckets are both covered.
`N` stands for the configured bucket count, a power of two, so that `& mask` is
`% (mask + 1)`. **BucketCount** models `configured_bucket_count` and the mask's
bitwise and, **FrameHash** the arithmetic of `hash_frames` on words of `WordBits` bits;
both take their powers of two and binary digits from **Powers**. **ConfiguredTable** is
the table with that count and that hash, and states what they promise. It is what
the runs check; the theorems about CallSiteTable alone cite neither.
Atomics are interleaved sequentially although the code orders them with
`Release`/`Acquire` and `Relaxed`. That loses nothing: the loads of base, bucket
count and mask are separate steps, so each combination that a stale relaxed load
can give is also given by a thread that runs between the winner's stores; frames
and the first count are ordered by the release of `frame_count`; every other
access is to one location, which has one modification order.
`_reset_for_test` is one step, taken when no call is in progress, as the tests
hold a lock (`TEST_LOCK`). A report's own `Vec` allocations are recorded by the
same thread in the code; in the model other threads record meanwhile.

**SiteTally** is what the table promises, without buckets, probes or masks: per site, a
tally of events and bytes, hidden until the site is shown, and reports that give
each site a tally between what was shown when they were asked for and what is
shown when they are given. **TableTally** is the refinement: the tally of a site is
the sum over the buckets that carry its hash, which is one bucket but for finding 1.
It adds one history variable to the table, `setUpBefore`, because a report that is
asked for while the table is being set up may be empty, whatever is recorded
before it is given.

**ModAlloc** (`lib.rs`). `heap` and `holder` are what `System` has handed out and
to whom; the call to `System` and the entry of the reentrancy guard are one step,
since the flag is thread-local. A call of the hook itself (pc = "event": the
environment variable read by `record_event`) bypasses the counters. Counters are
modulo `W`, which stands for 2^64. A `System` call that returns null changes
nothing. `reset` stores the six counters one by one; `ResetAnyTime` says whether it
may run with allocations live, which the docs exclude. The path for a thread whose
thread-locals are already destroyed is not modelled (it does not count).

**TrackedAlloc** composes ModAlloc with the table, taken as SiteTally promises it and
added up over its sites: while a thread is in the hook it records its event, first
the count and then the bytes, or gives up, once. `AllocatorStep` is a step of ModAlloc.

**Profiler** (`lib.rs`) extends ModAlloc: `start` and `stop` read the handle and then
the six counters, one action each, while the program of ModAlloc goes on
(`ProgramStep`). Counters are not reset during a window. `HeapStats::get` is the same
snapshot (`BeginGet`, `FinishGet`), narrowed to `usize`, whose width `UsizeW` is.

**Walk** (`backtrace/walk.rs`). The stack is a set of records, each with a link and a
return address that may be any of the constants' values; `Readable` is the null,
alignment and range check, `LeadsUp` the check of monotonicity.

**RecordEvent** (`backtrace/mod.rs`, `capture.rs`, `stack_bounds.rs`) extends Walk with what calls
it: `Begin` reads the frame pointer, `BoundsHit` or `Query` gets the bounds, `WalkStep` is
the walk, `Record` hands on what it captured. `query_os` is the set of answers that
the three platforms' functions make of a system that tells the truth or fails: with
a code, with words not written, with zeros, with sizes that cannot be. `LocalsGo` is
the end of the thread's locals, after which the cell is not there. All the state is
the thread's own, so one thread is enough. The history variable `start` keeps the
event's own frame pointer, since `fp` moves with the walk: whether an event is
recorded is to depend on the record it points to.

**SymbolReport** (`symbolicate/report.rs`, `unix.rs`, `windows.rs`, `self_binary.rs`). `Hit` and
`Miss` are the first critical section of `cached_resolve`, `Memoise` the second, with
the resolution between them; `Build` is the symbolicator, which may fail for good: one
per thread on Unix, one per process on Windows, none elsewhere. **SymbolIndex** is the
Windows index and its search: `build_index` is a stable sort that keeps the first of
several publics at one place, so it is the places in ascending order, each with its first
public; the binary search is the standard library's contract. Debug info is a constant,
in the order in which `find_frames` yields functions: the code marks all but the first
as inlined. Two branches cannot be taken: the cell is never borrowed twice, and a captured address is never 0.

**DhatJson** (`dhat_json/frames.rs`, `mod.rs`). One iteration of the loops of `build` is
one action, `InternKnown`, `InternNew` or `PushPoint`; `Render` makes the document.
`Format` keeps what distinguishes the texts of two frames. **JsonString**, which it extends, writes a string
literal, as `write_json_string` does, and reads one character by character, as RFC 8259
has it (`ReadChar`); the layout of the JSON text is left out. **MCReports** runs
SymbolReport and DhatJson, the two stages of a report, side by side.

**DhatCompat** (`dhat_compat/profiler.rs`, `stats.rs`, `ad_hoc_writer.rs`). Each profiler is
its own process from `Install` through `Drop` to the file. `std::fs::write` is two
steps, `Create` (open and truncate) and `Write` (one write from the start: what lies
beyond stays), each of which may fail. Contents are pieces that know their author
and their report's length. `ad_hoc_event` and `AdHocStats::get` are two steps each.

## 3. The runs

| run | bounds | distinct states | shows |
|---|---|---|---|
| `table` | 3 threads, 2 buckets, 3 traces (2 colliding in their home bucket) and the empty one, 3 calls; 3-bit words; bucket limits 2 and 8 | 1.7 million | indices stay in range; pages are neither leaked nor freed in use; a site has one row but for bucket 0; every event and byte is accounted for; rows are whole; reports miss nothing; only a full table drops; the hash loses no bit of a frame; every bucket can be reached |
| `table_liveness` | 2 threads, 2 traces, 3 calls | 59 000 | every call returns, every claimed bucket is published, and the table implements SiteTally |
| `table_two_rows` | 2 traces | stops at the violation | finding 1 |
| `counters` | 3 threads, 3 blocks, 2 sizes, 4 calls | 1.3 million | counters exact at rest, no wrap, peaks exact and covering what is held, holder registered; the sites tell what the counters tell |
| `counters_reset_live` | 1 thread, 1 block | stops | finding 2 |
| `profiler` | 2 threads, 2 blocks, 2 calls, `usize` of 2 bits | 267 000 | event count bounded by the calls in and around the window; quiet windows exact; HeapStats between what was counted before and after, and what is held in each field whose value fits `usize` |
| `profiler_peak` | | stops | finding 3 |
| `profiler_narrow` | the same | stops | finding 5 |
| `walk` | 3 records, every link and return address, any number of events | 1.1 million | only the real bounds are walked with; reads stay in the stack and ascend; every record read gave its return address, but for a last one that has none; proper chains are captured whole; an event is recorded just when its query and its own record allow it; the system is asked once |
| `reports` | 3 threads, 2 addresses, 5 calls; every list of up to 3 publics; 8421 reports; 2380 strings | 496 000 | rows keep their frames, inlined ones at the address they come from; unresolved means a failed build; entries are never changed; Windows reports agree; the search is right; the document gives back the report; the frame table is minimal; strings read back |
| `dhat_compat` | 2 profilers, 2 callers, 2 events | 304 000 | reports that do not overlap are whole, whatever failed before elsewhere; testing profilers write nothing; ad-hoc counts bounded |
| `dhat_compat_last_writer` | 2 profilers | stops | finding 4 |

Why the bounds suffice. A race in the table involves at most a winner, a loser and
a third thread that sees the state between two stores of the winner; two buckets
already give a full circle, a wrap, a collision and a full table (the code's minimum
of 64 adds only longer probes), two frames are the fewest that tear. Three calls
are the fewest that fill the table and drop. The counters interleave pairwise;
three blocks let one be freed, reused and reallocated while another is in flight,
and `W` is larger than any sum (20, where the assumption `FitsAssumption` needs 19). A
third record on the stack gives chains that skip, stay and go back. Words of 3 bits with a rotation by 2 and 3 slots let each bit go
once round; bucket limits of 2 and 8 have a default between them and requests below,
at, between, at and above. Three publics at three places give aliases, and an address
before, on, between and after them. A string of three characters has an escape with a
neighbour on each side. In `reports` the threads symbolicate beside the document of
the empty report only: the two stages share no state, and no property speaks of both.
A `usize` of 2 bits counts to 3, so that 0 and 2 bytes held fit it and 4 do not. In `dhat_compat` a tear needs two profilers, and two reports of
different lengths.

**Fairness.** Only `table_liveness` needs it: weak fairness of `Step(t)` for each
thread, that is, the operating system runs every runnable thread. No thread is
obliged to call. The spin of a loser (table.rs:141-148) ends because the winner is
scheduled; nothing else waits but for a mutex or a `OnceLock`, whose holder never waits in
turn.

The refinement is checked in the run with fairness, on two threads: a winner and a
loser of the pages, a recorder and a reporter. Its abstract specification has no
fairness of its own, since it promises no progress.

## 4. Findings

1. `table_two_rows`: `TABLE_BASE` is published before `TABLE_MASK`. A thread on the
   fast path may take the mask for 0 and claim bucket 0 for a site that another
   thread records in its home bucket: two rows, where the docs promise one per site
   (lib.rs:308-310). `DuplicatesOnlyAtZero` says, and a theorem proves, that this is
   the only way. The same thread gives up after one bucket when bucket 0 is another
   site's, with the rest of the table free.
2. `counters_reset_live`: `reset` with live allocations wraps `live_count`, not only
   `current_bytes` (lib.rs:241-243).
3. `profiler_peak`: `stop().peak_bytes` is the mark of the process, not of the window
   (lib.rs:629-632).
4. `dhat_compat_last_writer`: two profilers dropped by two threads may leave a file
   that is neither's report, where the docs say that the last writer wins
   (dhat_compat/mod.rs:34-35).
5. `profiler_narrow`: where `usize` is narrower than 64 bits, the casts of
   `HeapStats::get` keep the low bits of a value that does not fit
   (dhat_compat/stats.rs:62-65); their doc says that they saturate (14-15). It adds that
   the crate targets 64-bit machines in practice, where nothing is cut.
   `HeapStatsAreCurrent` therefore speaks of the fields whose value fits.

Noted while reading, without a run: `trim_backtraces` is stored and never read
(profiler.rs:181-188), `PROFILER_ACTIVE` is stored and never read; two threads that miss the address cache together may be told
different frames, when one of them has no symbolicator.

## 5. The proofs

All theorems hold for every value of the constants that meets the assumptions
named in the modules. Of these, the following say something about the world:

* there are at least two buckets, and no hash is 0 (`BucketAssumption`,
  `HashAssumption`: table.rs and hash.rs see to both, and theorems below say so);
* the multiplier of the hash is odd (`KAssumption`: 0x517cc1b727220a95), words have at least
  two bits and a trace at least one slot (`WordAssumption`);
* there are finitely many threads, blocks and callers (`FiniteAssumption`);
* the counters are wide enough for what can be in memory at once and for the number
  of calls (`FitsAssumption`: an address space is far smaller than 64 bits can count,
  and no program makes 2^64 calls);
* the stack is not empty (`LiveAssumption`), and a word of it may be 0;
* the entries of a PDB are places with names (`PdbAssumption`, `ListsAssumption`).

The others give types to the parameters, or say that a model value which stands for
"nothing" is not one of the things (`NullAssumption`, `NoneAssumption`, `NoNameAssumption`,
`RequestAssumption`).
Theorems about the counters have the hypothesis `~ResetAnyTime`: `reset` runs only
when nothing is allocated or under way, as the docs ask; the run `counters_reset_live`
shows what happens otherwise (finding 2). The hypothesis is met: it is a constant of
the model, FALSE in the passing runs.

Every invariant and every action property that a passing run checks is a theorem,
and so is the refinement; what is left to TLC is named at the end of this section.

**Arithmetic** has what the proofs need of `MapThenSumSet` over finite sets: that it unrolls,
what adding, removing or changing one element does, monotony, sums of sums,
cardinalities as sums. The library's induction theorems take operators as arguments, which
the provers cannot instantiate; the least counterexample serves instead (`Smallest`,
`LeastNatural`): a claim that is false of some subset is false of a subset of which all
smaller ones satisfy it, since strict inclusion of finite sets is well-founded. In
the same way, a function that is defined by recursion over numbers exists and is the
only one (`RecursionUpTo`, `Recursion`): an expression `f[i \in S] == ...` is a CHOOSE to the
provers, of which nothing is known before that. With this, `Pow2` is what its equation
says (`PowersOfTwo`), and a number is known by its binary digits: two that agree in the
lowest `n` digits have the same remainder by `Pow2[n]` (`DigitsTell`), digits can be
chosen at will (`DigitsGiven`), multiplication by an odd number modulo a power of two loses
nothing (`OddLosesNothing`), and a rotation swaps two parts of a word (`RotationParts`).

**CallSiteTable_proofs**

* `TypeSafety`: `TypeInv` adds to `TypeOK` what a thread at each `pc` knows of its locals,
  without which `pos` could leave its array.
* `UniqueRows` and `DropsAreJustified` rest on `TableInv` = `TypeInv`, `ProbeInv` (a thread
  with the whole mask has found every bucket between its start and its index taken
  by another site) and `ReachInv` (the same of each claimed bucket, seen from its home).
  Buckets never become free, so what a probe saw stays true; two buckets of one hash
  would have to lie on each other's path.
* `PagesSafety` rests on `PagesInv`, which ties each mapped page to the `pc` of its thread.
* `ReportsAreComplete`: buckets stay published and their counters do not decrease
  (`Grows`), so that what `before` noted is there still when the scan comes to it (`Kept`);
  `Scanned` says that the rows lie in the order of the buckets and that each bucket of
  `before` behind the index has its row, `Fresh` that a report starts from nothing.
* `EveryEventIsCounted`: `AccountInv` says of every hash that the events it is owed are those
  in its buckets and one for each thread that is on its way to count one; the same of
  bytes. A thread that counts is at a bucket of its own hash (`OwnBucket`) and a free
  bucket has counted nothing (`Bare`).
* `RowsAreCoherent`: `FillerOK` says that a claimed bucket has one thread that fills it, and
  how far it has come; `BucketOK` that a published one has all frames of one trace of
  its hash, and has counted; `ReadInv` that a row has of these what the scan has
  read so far. That no row has more than its site is owed comes from `AccountInv`.

* `HashIsNotZero` and `FramesAreToldApart`, of the hash, for words of any width, any odd
  multiplier, any rotation and any number of slots: an exclusive or, a rotation and the
  wrapping product each lose nothing of either argument (`XorKeeps`, `RotationKeeps`,
  `MixKeeps`), so that the hashes of two arrays that differ in one frame agree up to it, and
  differ from there on (`ChainsAgree`, `ChainsDiffer`), but for the 0 that is mapped onto 1.
* `BucketCountIs` and `BucketsAreReachable`, of the bucket count, for any limits that are
  powers of two: the next power of two exists and is no more than the upper limit
  (`NextPower`), and the mask of a power of two takes every number to its remainder
  (`MaskIsModulo`), which is why `And(x, m)` may be `x % (m + 1)` in CallSiteTable.

`HashIsNotZero` and `BucketCountIs` also show that the code's hash and count are as
`HashAssumption` and `BucketAssumption` ask.

**TableTally_proofs**, the refinement. `TableIsATally`: the table implements SiteTally,
whatever the number of buckets, threads and traces. `TallyInv` joins the invariants above and
adds `SetUpInv` (a call that began after the table was set up sees all of it) and `EmptyInv` (a report
without a table is empty). Each step is then shown to be a step of SiteTally or to
leave its state as it is: recording is adding to a hidden or a shown tally, publication is
showing what was hidden, and the rows of a report add up, per site, to a tally
between its two limits, also where a site has two rows.

**ModAlloc_proofs** (ModAlloc, Profiler and TrackedAlloc)

* `CountersAreExact` and `NothingUnderflows`: `ExactInv` is `TypeInv`, `CallInv` (what a call at
  each `pc` holds; no two hold one block), `BytesInv` and `CountsInv`. `BytesInv` says that
  `current_bytes` is at each moment the bytes of the blocks whose growth is not still to be
  added, and what threads have yet to subtract; `CountsInv` says the same of `live_count`
  and `alloc_count`. With nothing under way, these are what is held.
* `PeaksAreExact`: `BytesPeakInv` and `LivePeakInv` say that the highest value an addition has
  made is in the peak or in the hands of a thread about to raise the peak to it;
  `ResetInv` says what a running reset has already cleared.
* `PeaksCoverHeld`: that no maximum is lost is more than that, and its invariant, `CoverInv`, speaks of
  what may still happen: whichever threads at the `fetch_max` go first, one of their
  values, or the peak as it is, covers the blocks of all of them and all
  blocks covered now. `CoverLiveInv` says this of `peak_live`.
* `HoldersAreRegistered`: `HandleInv` ties the flag and the argument to the `pc`.
* `WindowsCount`, `QuietWindowsAreExact` and `HeapStatsCurrent`, of any program around the
  profiler: `SnapshotInv` says what an unfinished snapshot has in the counters it
  has read (at least the events that had returned when it began, at most those begun;
  if nothing moves, the counters as they are), `BaselineInv` the same of what `start` kept, and
  `UnregisteredInv` that before the handle is registered nothing has returned, which
  is why a snapshot of zeros is right. `HeapStatsCurrent` holds for any width of `usize`: a
  value that fits it is its own remainder, and of the others nothing is claimed (finding 5).
* `TableTellsWhatCountersTell`: `EventsTold` says that each event in `alloc_count` is in the
  table, was given up, or is awaited of a thread that is still in its call; `BytesTold` the same
  of bytes.

**RecordEvent_proofs** (Walk and RecordEvent)

* `SafeReads` and `FaithfulCapture`: `WalkInv` says that the records read ascend and lie below the
  next one, and that each has given its return address, but for the last of a walk that
  has ended there, which has none (`CaptureIsFaithful`).
* `ProperChains`: `ChainInv` says that each record read is the one the last pointed to, and
  for which of its reasons the walk stopped. A proper chain gives none of them before
  its end. `EventCapturesChains` says this of the walks that `record_event` starts.
* `WalkedWithTheStack`, `EventReadsAreSafe`, `SystemAskedOnce`, `LossesAreExplained`: `EventInv` says that
  the cell and the walk hold the stack's bounds or nothing, that a walk has begun
  only in the walk, and that a walk begins at the event's own frame pointer and has captured
  something if and only if that points to a record with a return address, once it has ended
  (`CapturedIfThere`); `QueryIsTrue` goes through every answer of every platform.

**DhatJson_proofs**. `FaithfulDocument` and `MinimalTable`: `TableInv` makes the map of texts and
the frame table inverses of each other, `PointInv` says that finished points and the
indices so far name the right frames; appending to the table keeps every earlier
index valid. `RoundTrip`, for every sequence of scalar values: a reader that comes in the state
"plain" to the escape of a character leaves it in that state with the character added
(`EscapeReads`, which goes through the three forms), what was written is not changed by
what is written later (`WrittenStays`), so that after the first `i` characters' escapes the
reader has the first `i` characters. `StringsAreReadBack` is its use for the strings of a document.

**SymbolReport_proofs** (SymbolIndex and SymbolReport)

* `SearchGivesCovering`, for every list of publics and every address: a finite set of
  numbers can be put in ascending order (`CanBeSorted`), so that `Ascending` is what its
  name says (`AscendingIs`); the entries below a key are then an initial segment of the
  index (`InitialSegment`), and the place that the binary search gives is its end
  (`SearchIsRight`).
* `TypeSafety`: `TypeInv` adds to `TypeOK` what each `pc` leaves behind; without it the next
  row could be none. `UnresolvedIsExplained` rests on `CauseInv`: until a symbolicator
  has failed, whatever is cached, collected or in a row is named whenever the
  debug info has a name. `MemoisedForGood` follows from the actions.
* `ReportsAgree`: `IndexInv` says that on Windows each frame, cached, collected or in a row, has
  the name that the search gives for its address, or none because the one index
  could not be built or no public lies before it.
* `FramesAreKept`: `KeepInv` says that an entry of the cache is one frame and those inlined there,
  all of one address, and that the frames of the row in the making come, in order, from
  the return addresses so far.

**DhatCompat_proofs**

* `FilesAreOwn` and `UndisturbedFilesAreWhole`: `WriterOK` says what a profiler holds on its way to
  its file, `FileOK` that each piece in a file is of a profiler that writes there, and that a
  drop which has had the file to itself finds it empty, so that nothing of an
  earlier, longer report lies beyond what it writes.
* `AdHocReportsAreBounded`: `CountInv` says that the weight of the events begun is that in
  the counter and that of the callers between their two additions, `SeenInv` how what a
  profiler has read compares with what was there at its drop and is there now.

The type invariants of Walk, RecordEvent, DhatJson, SymbolReport and DhatCompat are proved
and not run.

Only model-checked: `CallsReturn` and `ClaimsArePublished`, which are liveness under
fairness and need ENABLED.

## 6. Not modelled

* The register read itself: `current_fp` gives any of `Starts`. The arguments of the system
  calls in `raw_mem.rs`: a mapping is zeroed or null.
* The reading of ELF, DWARF and PDB files, which external crates do: what they find is
  a constant. The path of the executable is found or not. The load base of the image
  (windows.rs:17-21): the search and what is asked of it both take an address by its low
  bits, so that "the symbol it lies in" means by the masked address.
* The layout of the JSON text (keys, commas, numbers) and the fields that are the same
  in every document. The cast of a frame's index to `u32` (frames.rs:45) is the identity: the
  table has at most 2^20 buckets of 8 frames.
* The panic of a debug build when an addition to a counter that `reset` has made wrap
  overflows once more (lib.rs:268-270): the release build's wrapping sum is modelled.
* `dhat_compat::Alloc`, which forwards each method to a ModAlloc; `trim_backtraces`,
  stored and read by nothing.
* The branch of `ReentryGuard::enter` for a thread whose locals are destroyed: the cell
  has no destructor, so that it is reached only where the platform has no native
  thread-locals. There, what such a thread frees stays counted.
* Memory ordering weaker than argued in section 2.
* The build script (it warns of missing frame pointers), examples, tests and benches.

## 7. Plan

Done, the most important behaviour first: the table, the counters, the readers; then
the abstract specification of the table and the refinement, the capture of an
event, the composition of the counters with the table, and the pure parts (hash,
bucket count, index search, string literals); then the proofs of every invariant, of
those over the state first and of those about the pure parts last. Nothing of the
plan is left. What could come next: memory orderings as such, in place of the
argument of section 2, and the proofs of `CallsReturn` and `ClaimsArePublished`, with
a prover that knows ENABLED.
