# Verification of delphi-edm4hep

TLA+ specifications of the DELPHI to EDM4hep converter, TLC configurations that
check them on small instances, and proofs checked by TLAPS. Paths are relative
to the repository; `PhdstHarness.cpp` and other bare names are under
`delphi_edm4hep/src`.

## 1. The system

The converter runs in two passes. Pass 1 (`delphi_sdst_pass`) reads a short DST
and writes the `sDST_*` collections; pass 2 (`delphi_fdst_pass`) reads the full
DST of the same events, loads the pass-1 frame with the same (run, event) and
adds the `fDST_*` collections. Both drive the same harness. A Fortran
framework, PHDST, owns the loop and calls back into C++.

| Component | State it keeps | Operations | Interacts with |
|---|---|---|---|
| Harness (`PhdstHarness.cpp`) | process globals: configuration, writer, readers and (run, event) index, set of processed events, four counters, first failure | `run()`, `on_user00/01/02/99` | PHDST calls it; it calls the hooks of the driver, podio, the census and the registry |
| Census and provenance (`DstCensus.cpp`, `CollectionWriter.cpp`) | process-wide sets of module names and of collection names | `observeEvent`, `noteProvenance`, and their readers | filled during user02, copied into the metadata frame by user99 |
| PDLINPUT and input link | two files in the working directory | inspect, create, remove | two jobs in one directory share them |
| Drivers (`bin/delphi_*_pass.cpp`) | none | options; the order of the writers | the writers share an `EventContext` |
| Relations of pass 1 (Tracking, TrackElements, Trax, VdHits, Vertex, Emca, Calorimeter, ParticleId, ...) | maps from PA index or VECP index to tracks, particles, hits, for one event | one `emit()` per writer | each reads maps an earlier writer left in the context |
| Relations of pass 2 (MatchProvenance, TrackHybrid, ShowerHybrid, MainHybrid, PidHybrid, TblHybrid) | fullDST PA to pass-1 track and particle | the same | read pass-1 collections by name |
| Truth tree and truth links | parent and daughter relations | two writers | the second reads the particles of Tracking |
| AABTAG (`Btag.cpp`, `AabtagCommons.h`, `BeamSpotStatus.cpp`) | Fortran commons that outlive the event | PSBEG fills them for every record; read after a status test | Tracking, the rows, `delphi_btag_check` |
| ZEBRA decoders (`TeBank.cpp`, Trax, Emca, ...) | none | walks whose counts and strides come from the bank | all writers |
| Campaign (`scripts/data-reco/batch_94c.sh`) | files: intermediates, products, work directories | phase A, phase B, skip, resume | starts the converters, in parallel |
| Helix numerics, beam-spot fit, b-tag check, run quality, tests, docs | see PROJECT.json | | |

What makes it hard: PHDST delivers an event several times, delivers records
that are no events and may deliver one unasked; any hook may throw while
Fortran frames are on the stack; the process may be killed; the globals outlive
a job; pass 2 joins by key across several files; the campaign is parallel,
interrupted and resumed, and knows nothing but which files exist; two jobs, or a
job and what a killed one left, meet in one working directory; Fortran commons
hold the last event's words; a bank says itself how long its records are.

What makes each part correct:

- harness: one frame per physics event, joined with its own event, none lost, nothing
  after a failure, an exit code that tells a complete product from the rest;
- census: what the metadata says is what the events in the file carried;
- campaign: one writer per file, complete files kept, a resume completes what it can;
- relations: a link leads to the object made from the same track or shower, and
  parallel columns have the length of what they run parallel to;
- decoders: a walk stays inside its bank and accounts for every word;
- AABTAG: no value of an earlier event is emitted, and what three writers take from
  its commons agrees;
- PDLINPUT: a job reads its own input and touches nobody else's file;
- truth tree: each particle starts, ends and has its parent where the two
  records of the simulation say, whatever the order of the lines.

## 2. The modules

| Module | What it is |
|---|---|
| `ConversionJob` | abstract: what a conversion promises to whoever launches it |
| `PhdstHarness` | the harness, one action per callback, one per way out of user02 |
| `PhdstHarness_proofs` | its inductive invariants and what follows from them, the action property, and the refinement of `ConversionJob` |
| `BatchCampaign` | `batch_94c.sh`: two phases, xargs slots, files, interrupts |
| `BatchCampaign_proofs` | its inductive invariant, the safety properties and the action property |
| `ShortDstEvent` | one event of pass 1: the writers and the index maps they hand to each other |
| `ShortDstEvent_proofs` | its four inductive invariants and every property of `shortdst` |
| `PassOneFrame` | what pass 2 relies on of the frame pass 1 wrote: guaranteed by `ShortDstEvent`, assumed by `FullDstEvent` |
| `EventVectors` | the vectors indexed by PA or VECP position by which writers hand objects on |
| `FullDstEvent` | one event of pass 2: the match of the two DSTs, the clones and their relations |
| `FullDstEvent_proofs` | that the match is right, and every other property of `fulldst` |
| `PdlInput` | how a job hands its input to PHDST through files in a shared directory |
| `PdlInput_proofs` | what a job that is not disturbed can rely on |
| `BtagEvents` | b tagging from event to event: the commons, the writers that read them, the check tool |
| `BtagEvents_proofs` | its inductive invariants and every property of `btag` |
| `TruthTree` | the two records of the simulation merged into one tree of particles |
| `BankWalks` | the walks over banks whose records give their own length |
| `RecordLoops_proofs` | every property of `records`, of two components that share no state but the way they go over lists of records |
| `LeastElement` | lemmas the proofs use: a set of naturals has a least element; induction over sets of numbers; a recursion along `0 .. N` has a value |
| `MC` and the name of a module | the instance TLC checks; `MCRecordLoops` those of `TruthTree` and `BankWalks` in one |

### PhdstHarness

The variables carry the names of the globals at lines 46-73 of
`PhdstHarness.cpp`. `pc` says who runs: `start` (inside `phdst_`, before
user00), `loop` (PHDST between callbacks), `record` (a record is in the store
and user02 is about to run), `end` (user99 is about to run), `return` (back in
`run()`), `idle`, `dead`. The file is `out_exists`, `out_events` (the event of
each frame, and the reader and entry of the intermediate frame it was started
from), `out_meta` and `out_whole` (finalised).

| Code | Action |
|---|---|
| `run()` 384-504 | `Run(c)`, or `RunRefused(c)` for the returns with 1 |
| `on_user00` | `User00`, `User00NoOutput` (the `exit(2)`), `User00Throws` at every point where it can |
| `on_user01` | `User01(r)` and the next record, or `User01Stop` |
| `on_user02` | `AfterFailure`, `AfterCap`, `NotAnEvent`, `Redelivered`, `SkipSetup`, `SkipUnmatched`, `WriteEvent`, `EventThrows` |
| `on_user99` | `User99(failing)`, for every subset of its four guarded calls that throws |
| `run()` 513-529 | `Return(throws)` |
| PHDST, external | `Unasked`, `EndOfInput`, `PhdstGivesUp`, `Kill` |

An event is a key, (run, event number); a record says whether it holds a DST
bank, a PV chain, which event it is and which modules it carries. The tape is
arbitrary. `SetupKeys` says which keys are DELSIM's set-up records and no
physics events; the code cannot know this and guesses it (259-261), the
properties compare the guess with it. What a frame holds besides its origin is
abstracted; `ShortDstEvent` is about that.

### BatchCampaign

A job is a tape (phase A) or a segment (phase B). `file` says whether its
output is absent, broken (never finalised), short (finalised, events missing)
or whole; `pdlinput` which work directories hold a PDLINPUT; `worker` what each
xargs slot does; `log` what was last printed of a job. A worker is started,
then skips, finds its input missing or prepares (`ready`), writes PDLINPUT
(`input`), opens the output (`writing`) and ends; the outcomes of the
conversion are those of `ConversionJob`. `hurt` is history: the jobs that had a
partial file, or a tape's PDLINPUT, when the present invocation began, and those
that failed in it. `Interrupt` ends the script with all
its workers at any point and leaves the files as they are.

### ShortDstEvent

The `on_event` hook of `bin/delphi_sdst_pass.cpp`. `writer` is the writer whose
`emit()` runs, in the order of lines 143-173 (`Writers`), and `at` the position
of its loop; a step is one round of it, and `NextWriter` starts the next. A
writer with several loops has an entry for each: `Vertex` (the vertices),
`WireVertex`, `DecayVertex`, `VertexTail`; `DedxQuality` and `ParticleId`;
`PidExtrasSdst` and `Pi0`. The variables are the outputs kept in `EventContext`
and the collections that refer to each other:

| Code | Variables | Actions |
|---|---|---|
| TrackElements, Trax, VdHits | `trackElements`, `trax` (by PA), `vecpToHits` (by charged ordinal) | `TrackElementsPa`, `TraxPa`, `VdHitsTrack` |
| Tracking | `tracks`, `particles`, `words`, `columns`, `vecpToParticle`, `paToParticle` | `SkippedPa`, `NeutralPa`, `ChargedPa` |
| TruthRecoLink | `links` | `LinkTruth` |
| Vertex | `vertices`, `primaryVertex`, `paIdx`, `lpa`, `decays`, `impact` | `VertexReco`, `VertexRefuses` (the `runtime_error`), `WirePa` (one bank of the chain), `WireVertex` (its end), `DecayVertex`, `VertexTail` |
| Emca, Calorimeter, SticShower | `showerHits`, `clusters` | `EmcaPa`, `CalorimeterPa`, `SticShowerVecp` |
| ParticleId, PidExtrasSdst | `quality`, `rows` | `DedxQualityPa`, `ParticleIdTrack`, `PidExtrasSdstTrack`, `Pi0Particle` |
| SdstPaExtras, EltrSdst, Mtpc, Tof, PaPidExtras | `rows` | `SdstPaExtrasPa`, `EltrSdstPa`, `MtpcPa`, `TofPa`, `PaPidExtrasPa` |
| Btag | `rows`, `btagVertex` | `BtagTrack` |

Every object carries the PA its content was read from (`pa`, a field the code
does not have); the properties compare it with the PA of what refers to it.
The event is what SKELANA and PHDST left in their commons and banks
(`EventShape`, external): which PAs there are, under which vertex, with which
modules, in which order VECP has them and which charge it gives them. One row
stands for the collections that copy a module in the same way: PHOT for all of
SdstPaExtras, MU for all of PaPidExtras, XNEWTAG for the four tag rows of
PidExtrasSdst. Energies, positions and fits are left out. Event, TruthGen,
VftHits and Tdha hand no map to another writer, apart from the particle of each
simulated track, which is reduced to whether there is one. `Frame` is the frame
this event leaves behind, in the form pass 2 reads it.

### FullDstEvent

The `on_event` hook of `bin/delphi_fdst_pass.cpp`, built like `ShortDstEvent`:
`writer` and `at` say where the hook is, in the order of lines 125-164. The
frame of pass 1 is part of the event and any that has the shape `FrameShape`;
`ShortDstEvent` keeps `FrameIsConsistent`, which says that the frame it leaves
has that shape, so the two modules compose without exploring both at once.

| Code | Variables | Actions |
|---|---|---|
| MatchProvenance, PerigeeMatch | `paToTrack`, `paToParticle`, `provenance` | `MatchPa` |
| TrackElements, Trax | `trackElements`, `trax` | `TrackElementsPa`, `TraxPa` |
| TrackHybrid | `tracks` | `TrackHybridTrack` |
| ShowerHybrid | `clusters` | `ShowerHybridClone` |
| MainHybrid | `particles`, `vertices`, `dv`, `sp` (the vertex being cloned and the place in its list) | `MainHybridParticle`, `VertexHybridParticle`, `VertexHybridVertex` |
| Tof, Mtpc, PaPidExtras | `rows` | `TofPa`, `MtpcPa`, `PaPidExtrasPa` |
| PidHybrid | `clonedRows` | `PidHybridClone`, `PidHybridRefuses` (the `runtime_error`) |
| TblHybrid | `links` | `TblHybridClone` |
| Btag | `rows`, `btagVertex` | `BtagTrack` |

A perigee is an integer and the cost of a match its distance to the perigee of
the track: findMatch only compares costs with each other and with the
tolerance. `own` names the PA of pass 1 that is the same physical object, which
the code cannot know and the properties compare with. `MatchesAreOwn` claims
the match only where it can be right, `Recognisable`: a track that is not the
PA's own is farther away than its own, or out of tolerance. That a tolerance of
1e-4 cm2 makes this so is the bet of PerigeeMatch.cpp:61-68 and about the
detector, not the program. Emca, HcalFdst, TeadFdst, Tdha and SticShower only
add collections of their own in pass 2 and are left out.

### PdlInput

Lines 399-504 of `run()`, one process per job. `pc` says where a job is; between
any two steps the others and the user may act. `name` is who created the file
PDLINPUT now names, `text` who wrote into each file since it was truncated,
`link` who made `.phdst_input_<pid>`. A file another job truncates or removes
is still open in the first (`stream`).

| Code | Action |
|---|---|
| `symlink_status` 403-414 | `Inspect`, `Refuse` |
| link 442-458 | `MakeLink`, `Fails` |
| `pdl.open`, `copy_file` 460-494 | `Create`, `Fails` |
| the line and `pdl.close()` 467-504, the end of the copy | `Write`, `WriteFails` |
| `phdst_` 511 | `PhdstReads` (external: which input it finds), `PhdstReturns` |
| `~InputFileCleanup` 419-423 | `RemovePdl`, `RemoveLink` |
| exit, kill, Fortran STOP | `Dies`; a later `Launch` may get the same process id |
| whoever else keeps files there | `UserPlaces`, `UserRemovesPdl`, `UserRemovesLink` |

Nothing prevents two jobs that look at the same time from overwriting each
other's PDLINPUT; `docs/README.md:123-125` asks users to give each job a
directory. The properties therefore speak of a job nobody else was inside with
(`shared` is FALSE), and of what any job leaves behind.

### BtagEvents

`on_user02_impl` (235-308) as seen by b tagging. `common` says for each common
block which record wrote it last and what that record holds, `chi2tr` the same
for each slot of CHI2TR; so the words of a frame carry the event they belong to.

| Code | Action |
|---|---|
| PSBEG (239): PSBEAM, PSFBTG, AABTGS, external | `Psbeg`; `PsbegZeroes` for a record not of type DST |
| `requireDatabase` | `RequireDatabase` |
| `lpaToTrack`, `vertexState` in Tracking or TrackHybrid | `AttachStates` |
| `BtagWriter::emit` | `EmitTags` |
| `emitCombinedTag` | `EmitCombinedTag` |
| the harness writes the frame | `WriteFrame` |
| `delphi_btag_check` | `CheckPasses`, a predicate on the frame |

AABTGS that fails may have filled any of its commons, or only AAMAIN. For a
record not of type DST, PSBEG zeroes its commons, IERRBS and IBAD among them,
and fills nothing (`docs/README.md:213-219`); the commons of AABTGS itself stay.
Such a record is taken to have no DST bank, so that the hook does not run.
`MaxTracks` stands for 100.

### TruthTree

`TruthGenWriter::emit()`: `loop` is the loop that runs, `index` its index, a step
one round (`DecayRound` backwards, then `ProductionRound`, `CreateRound`,
`GraphRound`, `ParticlesRound`, `EndsRound`). A position is a number. The event
is what the generator and DELSIM left (`EventShape`, external): every parent
stands before its daughters, as the comment at 179 says, and a track starts
after the one that made it. Momenta, masses and particle codes are left out.

### BankWalks

`walk` says which: `TE` (`decodeModule`), `TRAX` (`TraxWriter`), `EMCA`
(`EmcaWriter`), `PA` (the blocklets in `observeEvent`). A record has the size it
claims and the words it really takes; where the two differ the walk goes on at
a word that is no size word, and any value of `Foreign` may be read there. A
round takes a record (`TeRound`, `TraxRound`, `EmcaRound`, `PaRound`) or stops.
`taken` holds the extents read. What is decoded from the words is left out.

## 3. The runs

| Run | Question | Result |
|---|---|---|
| `harness` | the properties of the harness below, over two jobs in one process | hold |
| `harness_setup` | are the frames of a product the physics events of its tape? | no: a set-up record behind a file header is written |
| `batch` | the properties of the campaign below | hold |
| `batch_ok` | is a product reported OK complete? | no: a tape that failed in phase A still counts as cached in phase B |
| `batch_skip` | is a skipped job done? | no: a partial file at the final path counts |
| `shortdst` | the properties of the relations below | hold |
| `fulldst` | the properties of pass 2 below | hold |
| `fulldst_showers` | do the cloned showers belong to the cloned particles? | no: those of HCAL belong to none |
| `pdlinput` | the properties of one working directory below | hold |
| `btag` | the properties of b tagging below | hold |
| `btag_database` | is a job without beam-spot database refused? | no, if its first lookup is spent on a record that is dropped before the test |
| `records` | the properties of the truth tree and of the bank walks below | hold |

Properties of `harness`: `OneFramePerEvent`; `OwnFrame` (of the same event, and
the earliest entry of several); `NothingLost` (unless a callback failed: a
physics event has its frame, up to the cap and in order, if it has a PV chain or
any DST record came before it; what is redelivered, unmatched or a set-up record
in first place has none); `FooterAgreesWithExit`; `CensusCoversWritten` (the
metadata list what the events of the file carried, and in the first job of a
process nothing else); `FailureIsFinal`; `StoppedJobEnds`; `ImplementsJob`
(refinement). The comment at 259-260 promises more than `NothingLost`: that the
frames are exactly the physics events. That is `OutputIsThePhysics`, which the
code violates in two ways by going by the position and the PV chain alone:
behind a header, the set-up record is written; in first place, a physics event
without PV chain is dropped. `harness_setup` shows the first.
Properties of `batch`: `OneWorkerPerJob`; `OkIsAsGoodAsItsTapes`;
`ResumeCompletes` (an invocation that was not interrupted completes each segment
with its inputs on disk if neither the segment nor one of its tapes is `hurt`:
what failed or was left elsewhere does no harm, nor does a PDLINPUT in the
directory of a segment; one in the directory of a tape does, but the attempt it
spoils removes it, so that it blocks once); `WholeIsKept`;
`InvocationEnds`. That a partial file is never repaired is shown by `batch_ok`
and `batch_skip`.
Properties of `shortdst`: `TypeOK`, which includes that no index kept leaves the
vector the code indexes with it unchecked; `MapsAgree` (the PA map and the VECP
map); `ColumnsAlign`; `TracksCarryTheirOwn` (what was handed over by PA and what
by ordinal ends up on the same track); `RowsNameTheirParticle` (by VECP index
and by PA; every dE/dx row has its track);
`VerticesOwnTheirs` (exactly the particles below a vertex, in order);
`ClustersCarryTheirOwn`; `TagsReachTheirState`; `FrameIsConsistent`.
Properties of `fulldst`: `TypeOK`, with the same reading; `MatchesAreOwn`;
`ProvenanceTells`; `TracksGainTheirOwn` (what reaches the clone of a track by
the PA-to-track map is what its particle has by the PA-to-particle map, also
when two PAs match one track); `RowsAreComplete` (each particle is named by the
rows of all its PAs and no others); `ClonesKeepRelations`.
Properties of `pdlinput`: `UndisturbedReadsItsOwn` (also after a dead job left
its PDLINPUT, or its link under this job's process id);
`UndisturbedTouchesItsOwn`; `ReturnedLeavesNothing` (on every return, whoever
else was there; the exception is a PDL file copied half way, for which
`remove_pdl_input` is not set yet).
Properties of `btag`: `NothingStaleIsEmitted`; `CheckFindsTheUnresolved` (the
tool passes a frame if and only if the writers before found every track and
every attached particle of AABTAG's); `HemispheresHoldTheirBest`;
`SecondariesHaveTheirTracks`. The tool compares counts: a wrong row that keeps
the count is not its business, but that of `NothingStaleIsEmitted`.
Properties of `records`: of the truth tree, `PlacedByTheFamily` (a declarative reading of the two
walks); `EndsWhereItDecays`; `MadeByTheirParent`;
of the walks, `RecordsLieInTheBank`, for the two that test the
length, `IntactRecordsAreRead`, for all four: damage behind a record does not
keep it from being read.

The type invariants of the other modules (`TypeOK`, in `TruthTree`
`TruthTypeOK`) are part of what is proved (section 4).

Met while modelling, and not made runs of their own: the success footer is
printed by user99 for a job without events, which `run()` then fails with 2
(`PhdstHarness.cpp:375`, 525); records skipped as set-up or unmatched are in no
counter (261, 285); a later job in one process lists the modules of the first as
its own (`DstCensus.cpp:40`), against `delphi_edm4hep/README.md:174`, "PA modules
seen anywhere in the file", but both programs call `run()` once; a charged PA without VECP entry is written with zero
momentum (`Tracking.cpp:314`); the layer profile of an HPC cluster ends with its
last layer (`Calorimeter.cpp:118`); the EMCA walk does not know the length of
its bank (`Emca.cpp:70`); `TrackElementsWriter` does not look at `Module::ok`.

Bounds. `MaxRecords = 3` records per job, on a tape of a header, a set-up record
and three events, one of them without PV chain: a duplicate that is
not adjacent to the first delivery needs three records, the set-up skip needs
one in front of a real event, a cap of one needs one written and one more.
`MaxJobs = 2`: all that one job can do to a later one is through the globals,
and two jobs show it. The intermediates include two files with a common key and
an unreadable entry, and the same keys in other places in another number of
files, so that an index that survives `run()` is noticed. The
tape of `harness_setup` has the header, the set-up record and a plain event. `MaxInvocations = 2`,
two slots, two segments that share a tape, one segment whose tape is not
staged: two workers on one job need a shared tape; everything an invocation
leaves to the next is in the files.

`shortdst` takes every event of one or two PAs of six kinds (no MAIN, neutral,
charged, forward of unknown sign, degenerate, without TRAC) and of three PAs of
three kinds. VECP lists any part of them in any order SKELANA can give them,
charged first, with at most one entry reclassified since; five vertex chains
include an empty vertex, a chain longer than the cap (`MaxRecoVertices = 2`
stands for 150) and one PSCVTX disagrees with. Two PAs show two orders that
differ, the third a skipped PA between two others. `MaxHpcLayers = 3` stands
for 10: a pattern with a gap needs two layers, one behind the last hit a third.

`fulldst` takes every frame of one or two particles of the three kinds, their
tracks within the tolerance of each other or well apart (`Gaps`), and every
full DST of up to two PAs: those of the frame with the same perigee, one
drifted within the tolerance (`Tolerance = 2`) or beyond it (`Drifts`), with
each code of PA.MAIN, and unknown ones, in any order. Three PAs are taken of
fewer kinds (`FewDrifts`): two that match one track and one that does not.

`pdlinput` has three jobs and two process ids, under symmetry of both: two jobs
inside at once disturb each other, the third can get the id of a dead one and
find what both left. Every combination of input modes is taken.

`btag` reads four records (`MaxEvents`) of eleven shapes that differ from a plain
event in one respect each, in every order: one event to fill the commons, one to
leave them stale, partly or wholly, one dropped between them, one that reads.
`MaxTracks = 2` is exceeded by an event of three. `btag_database` needs two.

`records` takes the truth tree and the walks one after the other, as the writers
of pass 1 run; they share no state, so each has all its inputs while the other has
an empty one. It takes every record of up to four lines without DELSIM's own particles
(each mother before her daughter, each line tracked at one of two places or
generator-only) with and without primary vertex: a mother with a tracked and a
generator-only daughter that has one herself needs four. With up to two lines it
takes every set of up to three tracks over two vertices, `MTRACK = 2` of them read.

The walks have up to three records a bank, three sizes each, right or wrong, every
length around theirs and counts from -1 to one more than there are, and PAs of 64
and 65 blocklets.

`CHECK_DEADLOCK FALSE` (`harness*`, `batch*`, `btag*`): a process that was killed, or has
run its last job or read its last record, and a campaign whose operator does not
come back, really stop.

Fairness. Harness: weak fairness of the callbacks and of the return from
`phdst_`, since C++ code runs to its end, and of `User01Stop`, since PHDST stops
when user01 answers -3. Nothing is assumed of the tape: that it ends, or that
PHDST calls user00 at all. Campaign: weak fairness of each worker (delana runs
under `RECO_TIMEOUT`, a conversion ends) and of xargs noticing that its last
worker ended. `Interrupt` and `Invoke` are not fair. The other modules claim no
liveness and assume no fairness.

Each property has a mutant: an operator `Mut...` next to the one it distorts,
which TLC finds to violate that property. They are not part of the models.

## 4. The proofs

TLAPS proves, for every set of keys, tapes and configurations and all bounds,
from `HarnessAssumption` alone (`None` is no key and no code; set-up keys are
keys, and a set-up record has no PV chain; the tape consists of records; the
configurations are well-typed):

| Theorem | Statement |
|---|---|
| `Invariance` | `Spec => []IInv` |
| `TypeCorrect` | `Spec => []TypeOK` |
| `NoEventTwice` | `Spec => []OneFramePerEvent` |
| `FramesAreJoinedByKey` | `Spec => []OwnFrame` |
| `FooterIsHonest` | `Spec => []FooterAgreesWithExit` |
| `FirstFailureStays` | `Spec => FailureIsFinal` |
| `HarnessImplementsJob` | `Spec => ImplementsJob` |
| `HistoryHolds` | `Spec => []History` |
| `NothingIsLost` | `Spec => []NothingLost` |
| `CensusIsRight` | `Spec => []CensusCoversWritten` |

None of the safety properties is inductive by itself. `IInv` adds what the
callbacks rely on: `WrittenAndProcessed` (a written key is in `g_processed`, so
the test in user02 is enough, and the counter is the length of the file);
`IndexReady` (between the callbacks of a job that has not failed, the readers
are those of its configuration and each index entry is the earliest with its
key); `Untouched` (before user00 the index is empty, so that building it starts
from nothing); `WriterAndFile` (when there is a writer, a file, and when the
file is final); `FooterLast`. The step that needs work is user00, where the
index is built: `FirstEntryExists`, from the lemma `LeastNat`, gives the
earliest entry of a key, which is the one `emplace` keeps. The refinement reads
the outcome of a job off `exit`,
its events off `out_events`, and maps most callbacks to stuttering, user02 to
`Add`, user99 to `Seal`, the end of `run()` to `Succeed`, `GiveUpEmpty` or `Fail`.

`NothingLost` looks back over the tape and needs a second invariant, `History`.
While no callback has failed, `g_n_seen` is the number of deliveries, so that
the set-up test falls on the first one; a processed key was delivered with a
DST bank, and every delivered one is processed unless the cap is reached
(`ProcessedSoFar`). So what user02 takes for a redelivery is one, and a record
dropped unprocessed came after the cap, or is no event. `Taken` says which
deliveries user02 writes; `TakenNow` concludes that before the cap it is those,
`FramesFollow` that the frames are exactly theirs up to the cap, and
`DeliveredGrows` that a later delivery changes nothing about those placed.
`Taken` is the code's rule; the property is not stated with it. `WantedIsTaken`
and `UnwantedIsNotTaken` relate the two: a physics event that has a PV chain or
a DST record before it is taken, since the set-up test then fails, and a set-up
record that comes first is not, since it has none.
`CensusSoFar` says that the module set includes those of the events written, in
the first job is their union, and that the metadata frame is a copy of it nobody
extends afterwards.

About the campaign, for any sets of tapes, segments and slots and any files on
disk, from `CampaignAssumption` (finitely many jobs, no tape is a segment) and
`IdleAssumption` (`Idle` is no work of a worker):

| Theorem | Statement |
|---|---|
| `CampaignInvariance` | `Spec => []IInv` |
| `JobsAreExclusive` | `Spec => []OneWorkerPerJob` |
| `OkIsHonest` | `Spec => []OkIsAsGoodAsItsTapes` |
| `ResumingCompletes` | `Spec => []ResumeCompletes` |
| `CompleteFilesStay` | `Spec => WholeIsKept` |

`OneTurnEach` says why a job is never in two hands: the queue is sorted and
without repetition, and no job in it is with a worker. From it follows
`WorkersOwnTheirFile`: between the test for its output and its end nobody else
changes the file a worker is about. `NothingGivenUp` is what makes a resume
complete: a tape that is not hurt has a file, is queued or is with a worker from
the start, and so has, from phase B on, a segment that is not hurt, nor any tape
of it. `SoundUnlessHurt` adds that a file of theirs that is not whole is being
written. Both rest on the barrier between the phases: when phase B starts no
tape is in hand any more, so each that is not hurt is whole.
`DirectoriesAreFree` rules out the refusal of a PDLINPUT that a worker of the
same invocation left, and `DirectoriesAreSeenTo` says that a tape with one in
its directory has a file or its turn is still to come; at the end of an
invocation only the former is left, which is `NextIsUnblocked`.

About pass 1, for any set of events and any bounds, from `EventAssumption`
alone (each event has the shape `EventShape` and the bounds are naturals):

| Theorem | Statement |
|---|---|
| `RelationsHold` | `Spec => []IInv` |
| `MapsAlwaysAgree` | `Spec => []MapsAgree` |
| `ColumnsStayAligned` | `Spec => []ColumnsAlign` |
| `ReferencesAlwaysHold` | `Spec => []ReferencesHold` |
| `TracksAreWhole` | `Spec => []TracksCarryTheirOwn` |
| `RowsAreRight` | `Spec => []RowsNameTheirParticle` |
| `TagsAreReached` | `Spec => []TagsReachTheirState` |
| `WiringAlwaysHolds` | `Spec => []WiringHolds` |
| `VerticesAreRight` | `Spec => []VerticesOwnTheirs` |
| `ClustersAlwaysHold` | `Spec => []ClustersHold` |
| `ClustersAreRight` | `Spec => []ClustersCarryTheirOwn` |
| `FramesAreConsistent` | `Spec => []FrameIsConsistent` |
| `TypesHold` | `Spec => []TypeOK` |

`MapsAgree` alone is not inductive: a particle recorded for a PA would
overwrite the entry of another if the walk came back to it, or if the map were
shorter or longer than the walk. `WalkOrder` says it is neither (the map has
`at - 1` entries while Tracking is at PA `at`), which is what `mark_pa_skipped`
is for; lemma `FreshPa` concludes that nothing leads to the present PA yet, nor
to any VECP entry of it, since an entry of VECP names one PA. `Linked` keeps
the VECP index of a particle in range. `Parallel` says that every branch of
Tracking appends to all columns of its kind, and `ImpactFilled` when the column
filled later has caught up. Only the three actions of Tracking and `VertexTail`
need work; lemma `ElsewhereIInv` covers all other writers.

Three more invariants are inductive on top of it, each with the ones before it.
`ReferencesHold`: the vectors filled before Tracking hold for each index what
the banks have for it (`FeedsAreOwn`), and whatever looks a particle up in the
maps gets one of the PA it had in hand; a row of dE/dx also needs that
DedxQuality has passed its PA (`QualityIsOwn`), which only the order of the
writers gives. `WiringHolds`: Vertex walks the chain of PA banks but finds
particles by a counter that runs over all vertices; `CounterInStep` says that
the counter has passed exactly the PAs of the vertices before and those of this
vertex before the bank the walk is at, which rests on PHDST numbering the PAs
vertex by vertex (`EventShape`) and on the counter running over PAs without a
particle too. `ClustersHold`: what EMCA keeps by PA and shower number is
complete when Calorimeter reads it, a shower without hits included. The shape
of the frame, `FrameIsConsistent`, takes all four; it is the assumption of
`FullDstEvent`. `TypesHold` includes that no index is outside its vector.

About pass 2, for any set of events and any tolerance, from `EventAssumption`
alone (each event has the shape `EventShape`, its frame the shape `FrameShape`):

| Theorem | Statement |
|---|---|
| `MatchInvariance` | `Spec => []IInv` |
| `ProvenanceIsRight` | `Spec => []ProvenanceTells` |
| `MatchesAreRight` | `Spec => []MatchesAreOwn` |
| `CopiesFollow` | `Spec => []CopyHolds` |
| `TracksGainTheirs` | `Spec => []TracksGainTheirOwn` |
| `RelationsSurvive` | `Spec => []ClonesKeepRelations` |
| `RowsAreAll` | `Spec => []RowsAreComplete` |
| `TypesHold` | `Spec => []TypeOK` |

`ProvenanceTells` is not inductive: what an entry of the maps is must be known
to say that no neutral particle is flagged. `MapsFollowTheWalk` says it is the
match of the PA and the particle of that match, and that while
MatchProvenance is at PA `at` both maps have `at - 1` entries, so that the next
one is appended and overwrites none. `FindMatchIsNearest` and `FindMatchFinds`
say what the search returns, `ParticleOfTrack` that `FrameShape` gives each
track one particle. Only `MatchPa` needs work; `ElsewhereIInv` covers the others.

The properties of the clones are about the end of the hook, and hold because
each writer runs when what it reads is complete. `CopyHolds` says this for every
moment: `Rounds(w)` is how many rounds writer `w` has made, none before its
place in the order, `at - 1` during it and all after it, and every feed, clone
and set of rows is a function of the event, the maps and that number. Each
action then adds one round to the function of its writer and leaves the others;
where a relation is re-pointed, `Rounds` of the collection it points into has
reached its limit, so that nothing is dropped for a clone that does not exist
yet. What a track gains is collected by PA-to-track, and the property states it
by PA-to-particle: lemma `PasOfTrack` uses `IInv` to show the two sets equal.

About the working directory, for any sets of jobs and process ids, from
`PdlAssumption` alone (the user is no job, `None` none of them):

| Theorem | Statement |
|---|---|
| `DirectoryIsKnown` | `Spec => []IInv` |
| `ReadsItsOwn` | `Spec => []UndisturbedReadsItsOwn` |
| `TouchesItsOwn` | `Spec => UndisturbedTouchesItsOwn` |
| `LeavesNothing` | `Spec => []ReturnedLeavesNothing` |

That a job reads its own input needs to be known of all the places before:
`FindsItsOwn` says for each what an undisturbed job finds under both names,
`Apart` that two jobs inside are both disturbed, so that no step of another can
spoil it. `LinkIsKnown` and `FileIsKnown` hold whoever is there: a link or file
a job made is one its destructor will remove. One lemma per action.

About b tagging, for any records, any number of them and any dimension of the
arrays, from `BtagAssumption` (records have the shape `RecordShape`):

| Theorem | Statement |
|---|---|
| `NothingStale` | `Spec => []NothingStaleIsEmitted` |
| `SecondariesHold` | `Spec => []SecondariesHaveTheirTracks` |
| `HemispheresHold` | `Spec => []HemispheresHoldTheirBest` |
| `CheckIsRight` | `Spec => []CheckFindsTheUnresolved` |

`CommonsAreOwn` is what the status test is for: while a record is in the hook,
code 0 of both IERRBS and IBAD implies that every common, and each CHI2TR slot
of an attached track, was written for it. `OutputIsOwn` and `FrameIsOwn` carry
that to the states, the rows and the combined tag. `TypesHold` and
`SmearingHolds` (what the combined tag draws is given back) are there too; the
latter rests on RDMIN restoring what RDMOUT saved, which is external.

The check tool compares counts, so what the writers made must be known as a
whole and not only be of this event: `OutputFollows` gives states, rows and
vertex as functions of the event's tracks. Lemma `CountTells` says that a count
is the one expected only if nothing is missing, which needs that no two tracks
share a PA. The loop over the jets is a function defined by recursion:
`RecursiveFunction` (`LeastElement`) gives its value, and `SetInduction` that
after each round it is the largest of the jets so far.

About the walks, for any banks and any words read where no size word is, from
`WalksAssumption` (the banks have the shape `BankShape`):

| Theorem | Statement |
|---|---|
| `NothingBeyondTheBank` | `Spec => []RecordsLieInTheBank` |
| `IntactAreRead` | `Spec => []IntactRecordsAreRead` |

`Contiguous` says that the next record starts where the last one ended,
`Inside` that the records read end in the bank, `Accounted` that `ok` is set
exactly while the walk stands behind the last word.

`ReadInStep` relates the walk to where the records really are: as long as all
records read were intact it is at the start of the next one, and it has not
stopped if that one is intact. It then reads the right size word because no two
records start at the same word (`StartsApart`); `StopIsJustified` and
`TakeIsJustified` go through the ways a round can end.

About the truth tree, for any number of lines, tracks and vertices and any places
of them, from `TruthAssumption` (`Unset` and the limit on tracks are what they
should be, each event has the shape `EventShape`):

| Theorem | Statement |
|---|---|
| `TreeHolds` | `TruthSpec => []TruthInv` |
| `PlacesAreRight` | `TruthSpec => []PlacedByTheFamily` |
| `EndsAreRight` | `TruthSpec => []EndsWhereItDecays` |
| `ParentsAreRight` | `TruthSpec => []MadeByTheirParent` |

The properties are about the end of `emit()`; `TruthInv` is about every round.
`Decayed`, `Produced`, `Created`, `Graphed`, `Followed` and `Finished` say how
far each loop has come, and each part of the invariant says what is known for
that far. `DecaysKnown`: a mother decays where one of her tracked daughters among
those passed starts, or one of the tracked particles below those passed. The
loop runs backwards, so a line is passed after all of its daughters
(`DaughtersComeFirst`) and hands up what is known of it in full; `TrackedBelow`
is a function defined by recursion over the family, and `BelowIsHandedUp` gets
its value from `RecursiveFunction`. `StartsKnown`: the loop that follows runs
forwards, so that the start of a mother is final when a daughter without tracked
relatives takes it over. `EndpointsKnown`: until DELSIM ends a particle,
`bestDisp` is the displacement of the daughter that gave the endpoint, and no
daughter passed exceeds it. `TracksKnown`: no two tracks have the same particle,
whether of the generator or new; so the last loop, which overwrites endpoints and
adds parents by track, never touches what an earlier round of it gave another
track.

Only model-checked: the liveness properties `StoppedJobEnds` and `InvocationEnds`, since
liveness and ENABLED are out of the prover's reach.

## 5. Not modelled

PHDST, SKELANA, AABTAG, delana, podio and ROOT are not in the repository and are
modelled by the calls they make and the outcomes they have. Two instances of
the campaign at the same time, and workers that outlive an interrupted script,
are not modelled. Of pass 1, `ShortDstEvent` leaves out the order of the words
within a row; of the banks, what is decoded from a record, and banks of fixed
layout, which have no state and no order to get wrong. Of `delphi_btag_check`
the ranges of single words. Floating-point numerics (helix, covariances, the
beam-spot fit), option parsing, run quality, tests and the documentation
generator: see the notes in PROJECT.json.

## 6. Plan

1. done: `ConversionJob`, `PhdstHarness`, its proofs; `BatchCampaign`;
   `ShortDstEvent` and its first theorems.
2. done: `FullDstEvent`, `PassOneFrame` and the first theorems about pass 2.
3. done: `PdlInput`, `BtagEvents`, `BankWalks` and theorems about each; `TruthTree`.
4. done: theorems about every safety and action property of every component.
5. the beam-spot fit's rejection of NaN; option parsing; theorems about them.
