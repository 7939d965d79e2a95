----------------------------- MODULE PhdstHarness -----------------------------
(***************************************************************************)
(* The event loop of the converter, src/PhdstHarness.cpp: run() sets up a  *)
(* job, PHDST (Fortran, external) drives the four callbacks user00,        *)
(* user01, user02 and user99, and run() turns what happened into an exit   *)
(* code.  Both passes use it: pass 1 starts every frame empty, pass 2      *)
(* starts it from the intermediate frame with the same (run, event).       *)
(*                                                                         *)
(* One action per callback (user02 has one per way out of it).  PHDST and  *)
(* the input tape are external: the tape is any sequence of records, and   *)
(* every call that can throw in the code may throw here.                   *)
(*                                                                         *)
(* An operator whose name starts with Mut is not part of the model: it is  *)
(* a wrong form of the operator that follows it, and PROJECT.json says     *)
(* which property notices the difference.                                  *)
(***************************************************************************)
EXTENDS Integers, Sequences, FiniteSets

CONSTANTS
  Keys,          \* (run, event number) pairs
  SetupKeys,     \* those of DELSIM's set-up records: its event 1 is no physics event
  Modules,       \* PA modules and PILOT blocklets a DST record can carry
  Collections,   \* names of collections the writers can emit
  Configs,       \* the harness::Config values run() may be given
  Tape,          \* the records a tape can hold
  None,          \* no value: no exit code yet, an unreadable entry, ...
  MaxRecords,    \* bound: records PHDST delivers to user02 in one job
  MaxJobs        \* bound: calls of run() in one process

(***************************************************************************)
(* A record as PHDST delivers it: does it hold a DST bank (LDTOP > 0), a   *)
(* PV chain (LQ(LDTOP-1) # 0), which event is it and what does it carry.   *)
(* A set-up record has no PV chain; a physics event may have none either.  *)
(***************************************************************************)
Record ==
  {r \in [dst : BOOLEAN, pv : BOOLEAN, key : Keys, mods : SUBSET Modules] :
     r.key \in SetupKeys => ~r.pv}

\* An intermediate file is the sequence of the keys of its entries; None is an
\* entry without the run and event number parameters.
File == Seq(Keys \cup {None})

\* A frame of the output: its event, and the <<reader, entry>> of the intermediate
\* frame it was started from (None: an empty frame, as in pass 1).
Frame == [key : Keys, sdst : (Nat \X Nat) \cup {None}]

\* The guarded calls, in the order user99 makes the last ones.
LastPhases == <<"finalize", "metadata", "finish", "summary">>

Phases == {"user00", "user02", "finalize", "metadata", "finish", "summary", "post finish"}

ASSUME HarnessAssumption ==
  /\ None \notin Keys /\ None \notin 0 .. 3 /\ None \notin {"success", "aborted"}
  /\ SetupKeys \subseteq Keys
  /\ Tape \subseteq Record
  /\ MaxRecords \in Nat
  /\ MaxJobs \in Nat
  /\ \A c \in Configs :
       /\ c.inter \in Seq(File)
       /\ c.max_events \in Int
       /\ c.emits \in SUBSET Collections
       /\ c.output \in BOOLEAN

VARIABLES
  pc,                    \* where the process is, see Control
  cfg,                   \* g_cfg
  rec,                   \* the record in the ZEBRA store
  g_writer,              \* is the ROOT writer open?
  g_sdst_readers,        \* the intermediates opened so far
  g_sdst_index,          \* (run, evt) -> <<reader, entry>>
  g_processed,           \* keys already disposed of
  g_n_seen, g_n_written, g_n_no_dst, g_n_redelivered,
  g_callback_failed,
  g_callback_failure,    \* phase of the first failure
  g_modules,             \* DstCensus: lives as long as the process
  g_seen,                \* provenance registry: lives as long as the process
  out_exists, out_events, out_meta, out_whole,     \* the job's output file
  footer,                \* the last line user99 prints
  exit,                  \* exit code of the last run()
  jobs,                  \* history: calls of run() so far
  delivered              \* history: records user02 was called with in this job

counters == <<g_n_seen, g_n_written, g_n_no_dst, g_n_redelivered>>
failure  == <<g_callback_failed, g_callback_failure>>
sdst     == <<g_sdst_readers, g_sdst_index>>
registry == <<g_modules, g_seen>>
output   == <<out_exists, out_events, out_meta, out_whole>>
vars == <<pc, cfg, rec, g_writer, sdst, g_processed, counters, failure,
          registry, output, footer, exit, jobs, delivered>>

(***************************************************************************)
(* "idle" outside run(); "start" phdst_ entered, user00 not yet called;    *)
(* "loop" between records; "record" user01 asked for the record and        *)
(* user02 is next; "end" user99 is next; "return" phdst_ has returned and  *)
(* run()'s epilogue is next; "dead" the process ended inside run().        *)
(***************************************************************************)
Control == {"idle", "start", "loop", "record", "end", "return", "dead"}

Meta == [modules : SUBSET Modules, collections : SUBSET Collections]

JobType ==
  /\ pc \in Control
  /\ cfg \in Configs \cup {None}
  /\ rec \in Record \cup {None}
  /\ footer \in {None, "success", "aborted"}
  /\ exit \in {None, 0, 1, 2, 3}
  /\ jobs \in Nat
  /\ delivered \in Seq(Record)

SdstType ==
  /\ g_sdst_readers \in Seq(File)
  /\ DOMAIN g_sdst_index \in SUBSET Keys
  /\ \A k \in DOMAIN g_sdst_index : g_sdst_index[k] \in Nat \X Nat

GlobalsType ==
  /\ g_writer \in BOOLEAN
  /\ g_processed \in SUBSET Keys
  /\ g_n_seen \in Nat /\ g_n_written \in Nat
  /\ g_n_no_dst \in Nat /\ g_n_redelivered \in Nat
  /\ g_callback_failed \in BOOLEAN
  /\ g_callback_failure \in Phases \cup {None}
  /\ g_modules \in SUBSET Modules
  /\ g_seen \in SUBSET Collections

OutputType ==
  /\ out_exists \in BOOLEAN
  /\ out_events \in Seq(Frame)
  /\ out_meta \in Meta \cup {None}
  /\ out_whole \in BOOLEAN

TypeOK == JobType /\ SdstType /\ GlobalsType /\ OutputType

NoIndex == [k \in {} |-> <<0, 0>>]

Init ==
  /\ pc = "idle" /\ cfg = None /\ rec = None
  /\ g_writer = FALSE
  /\ g_sdst_readers = <<>> /\ g_sdst_index = NoIndex
  /\ g_processed = {}
  /\ g_n_seen = 0 /\ g_n_written = 0 /\ g_n_no_dst = 0 /\ g_n_redelivered = 0
  /\ g_callback_failed = FALSE /\ g_callback_failure = None
  /\ g_modules = {} /\ g_seen = {}
  /\ out_exists = FALSE /\ out_events = <<>> /\ out_meta = None /\ out_whole = FALSE
  /\ footer = None /\ exit = None /\ jobs = 0 /\ delivered = <<>>

-----------------------------------------------------------------------------
(* The index of the intermediates: user00 reads every entry of every file   *)
(* in order and emplace() keeps the first entry of a key.                   *)

Entries(files) ==
  UNION {{<<r, i>> : i \in DOMAIN files[r]} : r \in DOMAIN files}

Before(p, q) == p[1] < q[1] \/ (p[1] = q[1] /\ p[2] < q[2])

Earliest(files, k, p) ==
  /\ p \in Entries(files) /\ files[p[1]][p[2]] = k
  /\ \A q \in Entries(files) : files[q[1]][q[2]] = k => ~Before(q, p)

KeysIn(files) ==
  (UNION {{files[r][i] : i \in DOMAIN files[r]} : r \in DOMAIN files}) \ {None}

Emplace(index, files) ==
  [k \in DOMAIN index \cup KeysIn(files) |->
     IF k \in DOMAIN index
     THEN index[k]
     ELSE CHOOSE p \in Entries(files) : Earliest(files, k, p)]

\* What has been scanned when reader r + 1 fails after n of its entries.
Scanned(files, r, n) ==
  IF n = 0 THEN SubSeq(files, 1, r)
           ELSE Append(SubSeq(files, 1, r), SubSeq(files[r + 1], 1, n))

-----------------------------------------------------------------------------
(* recordCallbackFailure: the first failure is the one run() reports.       *)
MutLastFailureWins(phase) == g_callback_failed' = TRUE /\ g_callback_failure' = phase

Failure(phase) ==
  /\ g_callback_failed' = TRUE
  /\ g_callback_failure' = IF g_callback_failed THEN g_callback_failure ELSE phase

CapReached == cfg.max_events > 0 /\ g_n_written >= cfg.max_events

MutIgnoresFailure == CapReached

Stopped == g_callback_failed \/ CapReached

(***************************************************************************)
(* run() up to phdst_().  The census and the provenance registry belong to *)
(* other files and are not reset.                                          *)
(***************************************************************************)
MutKeepsIndex == g_sdst_readers' = <<>> /\ g_sdst_index' = g_sdst_index

ResetSdst == g_sdst_readers' = <<>> /\ g_sdst_index' = NoIndex

Reset(c) ==
  /\ cfg' = c
  /\ g_n_seen' = 0 /\ g_n_written' = 0 /\ g_n_no_dst' = 0 /\ g_n_redelivered' = 0
  /\ g_callback_failed' = FALSE /\ g_callback_failure' = None
  /\ g_writer' = FALSE
  /\ ResetSdst
  /\ g_processed' = {}
  /\ out_exists' = FALSE /\ out_events' = <<>> /\ out_meta' = None /\ out_whole' = FALSE
  /\ footer' = None /\ rec' = None /\ delivered' = <<>>
  /\ jobs' = jobs + 1
  /\ UNCHANGED registry

Run(c) ==
  /\ pc = "idle" /\ jobs < MaxJobs
  /\ Reset(c)
  /\ pc' = "start" /\ exit' = None

\* PDLINPUT is in the way, or the input cannot be set up (module PdlInput).
RunRefused(c) ==
  /\ pc = "idle" /\ jobs < MaxJobs
  /\ Reset(c)
  /\ pc' = "idle" /\ exit' = 1

-----------------------------------------------------------------------------
(* user00: open the output, index the intermediates, call on_init.          *)

\* No output path: std::exit(2) inside the callback, so run() never returns.
User00NoOutput ==
  /\ pc = "start" /\ ~cfg.output
  /\ pc' = "dead" /\ exit' = 2
  /\ UNCHANGED <<cfg, rec, g_writer, sdst, g_processed, counters, failure,
                 registry, output, footer, jobs, delivered>>

OpenOutput == g_writer' = TRUE /\ out_exists' = TRUE

User00 ==
  /\ pc = "start" /\ cfg.output
  /\ OpenOutput
  /\ g_sdst_readers' = cfg.inter
  /\ g_sdst_index' = Emplace(g_sdst_index, cfg.inter)
  /\ pc' = "loop"
  /\ UNCHANGED <<cfg, rec, g_processed, counters, failure, registry,
                 out_events, out_meta, out_whole, footer, exit, jobs, delivered>>

\* The writer, a reader or on_init throws.  The readers opened before stay,
\* and so do the keys already read from the one that failed.
User00Throws ==
  /\ pc = "start" /\ cfg.output
  /\ \/ /\ UNCHANGED <<g_writer, out_exists, sdst>>
     \/ /\ OpenOutput
        /\ \E r \in 0 .. Len(cfg.inter) :
             \E n \in 0 .. IF r = Len(cfg.inter) THEN 0 ELSE Len(cfg.inter[r + 1]) :
               /\ g_sdst_readers' = SubSeq(cfg.inter, 1, r)
               /\ g_sdst_index' = Emplace(g_sdst_index, Scanned(cfg.inter, r, n))
  /\ Failure("user00")
  /\ pc' = "loop"
  /\ UNCHANGED <<cfg, rec, g_processed, counters, registry,
                 out_events, out_meta, out_whole, footer, exit, jobs, delivered>>

-----------------------------------------------------------------------------
(* PHDST between two records.  user01 is asked before a record; *need is -3 *)
(* to stop and 1 to have the record delivered to user02.  user02 does not   *)
(* rely on having been asked for (it repeats the tests of user01), so here  *)
(* PHDST may also deliver a further part of a record without asking.        *)

User01Stop ==
  /\ pc = "loop" /\ Stopped
  /\ pc' = "end"
  /\ UNCHANGED <<cfg, rec, g_writer, sdst, g_processed, counters, failure,
                 registry, output, footer, exit, jobs, delivered>>

Deliver(r) ==
  /\ pc = "loop" /\ Len(delivered) < MaxRecords
  /\ rec' = r
  /\ pc' = "record"
  /\ UNCHANGED <<cfg, g_writer, sdst, g_processed, counters, failure,
                 registry, output, footer, exit, jobs, delivered>>

User01(r) == Deliver(r) /\ ~Stopped

Unasked(r) == delivered # <<>> /\ Deliver(r)

EndOfInput ==
  /\ pc = "loop"
  /\ pc' = "end"
  /\ UNCHANGED <<cfg, rec, g_writer, sdst, g_processed, counters, failure,
                 registry, output, footer, exit, jobs, delivered>>

\* PHDST reports an error of its own and returns without calling user99.
PhdstGivesUp ==
  /\ pc \in {"start", "loop"}
  /\ pc' = "return"
  /\ UNCHANGED <<cfg, rec, g_writer, sdst, g_processed, counters, failure,
                 registry, output, footer, exit, jobs, delivered>>

-----------------------------------------------------------------------------
(* user02, one action per way out.  g_n_seen is incremented by every call   *)
(* that gets past the failure test.                                         *)

User02 ==
  /\ pc = "record" /\ pc' = "loop"
  /\ delivered' = Append(delivered, rec)
  /\ UNCHANGED <<cfg, rec, g_writer, sdst, out_exists, out_meta, out_whole,
                 footer, exit, jobs>>

\* Nothing but g_n_seen and one drop counter can change.
Dropped ==
  /\ User02
  /\ UNCHANGED <<g_n_written, failure, registry, out_events>>

AfterFailure ==
  /\ g_callback_failed
  /\ Dropped
  /\ UNCHANGED <<g_n_seen, g_n_no_dst, g_n_redelivered, g_processed>>

Live == pc = "record" /\ ~g_callback_failed /\ g_n_seen' = g_n_seen + 1

AfterCap ==
  /\ Live /\ CapReached
  /\ Dropped
  /\ UNCHANGED <<g_n_no_dst, g_n_redelivered, g_processed>>

\* A file header or an end-of-run trailer.
NotAnEvent ==
  /\ Live /\ ~CapReached /\ ~rec.dst
  /\ g_n_no_dst' = g_n_no_dst + 1
  /\ Dropped
  /\ UNCHANGED <<g_n_redelivered, g_processed>>

MutOnlyConsecutive ==
  out_events # <<>> /\ out_events[Len(out_events)].key = rec.key

IsRedelivery == rec.key \in g_processed

Redelivered ==
  /\ Live /\ ~CapReached /\ rec.dst /\ IsRedelivery
  /\ g_n_redelivered' = g_n_redelivered + 1
  /\ Dropped
  /\ UNCHANGED <<g_n_no_dst, g_processed>>

Remember == g_processed' = g_processed \cup {rec.key}

FirstDelivery ==
  /\ Live /\ ~CapReached /\ rec.dst /\ ~IsRedelivery
  /\ Remember
  /\ UNCHANGED <<g_n_no_dst, g_n_redelivered>>

\* DELSIM's setup record: the first record seen, and without a PV chain.
MutAnyWithoutPV == ~rec.pv

IsSetup == g_n_seen = 0 /\ ~rec.pv

Matched == g_sdst_readers = <<>> \/ rec.key \in DOMAIN g_sdst_index

SkipSetup == FirstDelivery /\ IsSetup /\ Dropped

SkipUnmatched == FirstDelivery /\ ~IsSetup /\ ~Matched /\ Dropped

\* readEntry of an entry the reader does not have leaves the frame empty.
ReadEntry(p) == IF p \in Entries(g_sdst_readers) THEN p ELSE None

StartingFrame == IF g_sdst_readers = <<>> THEN None ELSE ReadEntry(g_sdst_index[rec.key])

MutFirstEventOnly ==
  g_modules' = IF g_n_written = 0 THEN g_modules \cup rec.mods ELSE g_modules

ObserveEvent == g_modules' = g_modules \cup rec.mods

WriteEvent ==
  /\ FirstDelivery /\ ~IsSetup /\ Matched
  /\ User02
  /\ ObserveEvent
  /\ g_seen' = g_seen \cup cfg.emits
  /\ out_events' = Append(out_events, [key |-> rec.key, sdst |-> StartingFrame])
  /\ g_n_written' = g_n_written + 1
  /\ UNCHANGED failure

\* Reading the intermediate throws, or a writer of on_event or writeFrame does
\* once some of the event's collections have noted their provenance.
EventThrows ==
  /\ FirstDelivery /\ ~IsSetup /\ Matched
  /\ User02
  /\ \/ g_sdst_readers # <<>> /\ UNCHANGED registry
     \/ /\ ObserveEvent
        /\ \E emitted \in SUBSET cfg.emits : g_seen' = g_seen \cup emitted
  /\ Failure("user02")
  /\ UNCHANGED <<g_n_written, out_events>>

-----------------------------------------------------------------------------
(* user99: finalize hook, metadata frame, writer, summary, footer.  Each of *)
(* the four is guarded on its own; failing is the set of those that throw.  *)

FirstOf(failing) ==
  LastPhases[CHOOSE i \in 1 .. 4 :
    LastPhases[i] \in failing /\ \A j \in 1 .. i - 1 : LastPhases[j] \notin failing]

MutFooterBeforeLastGuards == footer' = IF g_callback_failed THEN "aborted" ELSE "success"

Footer == footer' = IF g_callback_failed' THEN "aborted" ELSE "success"

User99(failing) ==
  /\ pc = "end" /\ pc' = "return"
  /\ "metadata" \in failing => g_writer
  /\ "finish" \in failing => g_writer
  /\ IF failing = {} THEN UNCHANGED failure ELSE Failure(FirstOf(failing))
  /\ out_meta' = IF g_writer /\ g_seen # {} /\ "metadata" \notin failing
                 THEN [modules |-> g_modules, collections |-> g_seen]
                 ELSE out_meta
  /\ out_whole' = IF g_writer /\ "finish" \notin failing THEN TRUE ELSE out_whole
  /\ g_writer' = FALSE
  /\ Footer
  /\ UNCHANGED <<cfg, rec, sdst, g_processed, counters, registry,
                 out_exists, out_events, exit, jobs, delivered>>

\* run() after phdst_(): finish a writer user99 did not, and the exit code.
MutZeroEventsAreFine == exit' = IF g_callback_failed' THEN 3 ELSE 0

ExitCode == exit' = IF g_callback_failed' THEN 3 ELSE IF g_n_written <= 0 THEN 2 ELSE 0

Return(throws) ==
  /\ pc = "return" /\ pc' = "idle"
  /\ throws => g_writer
  /\ IF throws THEN Failure("post finish") ELSE UNCHANGED failure
  /\ out_whole' = IF g_writer /\ ~throws THEN TRUE ELSE out_whole
  /\ g_writer' = FALSE
  /\ ExitCode
  /\ UNCHANGED <<cfg, rec, sdst, g_processed, counters, registry,
                 out_exists, out_events, out_meta, footer, jobs, delivered>>

\* A signal, or a Fortran STOP inside PHDST or SKELANA.
Kill ==
  /\ pc \notin {"idle", "dead"}
  /\ pc' = "dead"
  /\ UNCHANGED <<cfg, rec, g_writer, sdst, g_processed, counters, failure,
                 registry, output, footer, exit, jobs, delivered>>

-----------------------------------------------------------------------------
User02Step ==
  \/ AfterFailure \/ AfterCap \/ NotAnEvent \/ Redelivered
  \/ SkipSetup \/ SkipUnmatched \/ WriteEvent \/ EventThrows

User99Step == \E failing \in SUBSET {"finalize", "metadata", "finish", "summary"} :
                User99(failing)

ReturnStep == \E throws \in BOOLEAN : Return(throws)

Next ==
  \/ \E c \in Configs : Run(c) \/ RunRefused(c)
  \/ User00NoOutput \/ User00 \/ User00Throws
  \/ User01Stop
  \/ \E r \in Tape : User01(r) \/ Unasked(r)
  \/ EndOfInput \/ PhdstGivesUp
  \/ User02Step \/ User99Step \/ ReturnStep
  \/ Kill

(***************************************************************************)
(* Callbacks return, and PHDST stops when user01 tells it to.  That a tape *)
(* ends or that PHDST ever calls user00 is not assumed.                    *)
(***************************************************************************)
Fairness ==
  /\ WF_vars(User01Stop)
  /\ WF_vars(User02Step)
  /\ WF_vars(User99Step)
  /\ WF_vars(ReturnStep)

Spec == Init /\ [][Next]_vars /\ Fairness

-----------------------------------------------------------------------------
WrittenKeys == {out_events[i].key : i \in DOMAIN out_events}

(***************************************************************************)
(* user02, "this dedup is exact" (58-63): however often and in whatever    *)
(* order PHDST delivers the records of an event, the file holds one frame  *)
(* of it.                                                                  *)
(***************************************************************************)
OneFramePerEvent ==
  \A i, j \in DOMAIN out_events : out_events[i].key = out_events[j].key => i = j

(***************************************************************************)
(* user02 263-296 with user00 182-205, "first occurrence wins": a pass-2   *)
(* frame extends a pass-1 frame of the same event, and of several the one  *)
(* of the earliest reader and entry, with several intermediates indexed at *)
(* once and after an earlier run() left an index behind; a pass-1 frame    *)
(* extends none.                                                           *)
(***************************************************************************)
OwnFrame ==
  \A i \in DOMAIN out_events :
    LET f == out_events[i] IN
    IF cfg.inter = <<>> THEN f.sdst = None ELSE Earliest(cfg.inter, f.key, f.sdst)

(***************************************************************************)
(* What the comments of user02 ask for.  An event is taken at the first of *)
(* its DST records, and in pass 2 only if pass 1 had it (248-296).         *)
(***************************************************************************)
FirstDst(i) ==
  /\ delivered[i].dst
  /\ \A j \in 1 .. i - 1 : ~(delivered[j].dst /\ delivered[j].key = delivered[i].key)

InPassOne(i) == cfg.inter # <<>> => delivered[i].key \in KeysIn(cfg.inter)

IsPhysics(i) == delivered[i].dst /\ delivered[i].key \notin SetupKeys

\* A physics event has to be in the file, with one exception: before any other
\* DST record, one without PV chain may be taken for the set-up record
\* (OutputIsThePhysics below has no exception).
Wanted(i) ==
  /\ IsPhysics(i) /\ FirstDst(i) /\ InPassOne(i)
  /\ delivered[i].pv \/ \E j \in 1 .. i - 1 : delivered[j].dst

\* The set-up record must not be, if it is the first record (259-260); behind a
\* header it is (OutputIsThePhysics below has no exception).
Unwanted(i) ==
  \/ ~FirstDst(i)
  \/ ~InPassOne(i)
  \/ i = 1 /\ ~IsPhysics(i)

(***************************************************************************)
(* user02: as long as no callback has failed, every physics event is in    *)
(* the file, up to the cap, and nothing unwanted, in delivery order; so    *)
(* exit code 0 (513-529) is never given to a file that lost one.  A run    *)
(* with headers, trailers, redeliveries, unmatched events and events       *)
(* without PV chain in any order.  place says at which delivery each frame *)
(* was written.                                                            *)
(***************************************************************************)
Full == cfg.max_events > 0 /\ Len(out_events) = cfg.max_events

InOrder(place) ==
  /\ \A i, j \in DOMAIN out_events : i < j => place[i] < place[j]
  /\ \A i \in DOMAIN out_events : out_events[i].key = delivered[place[i]].key

\* Record r has its frame, or came when the file was full.
Served(place, r) ==
  \/ \E i \in DOMAIN out_events : place[i] = r
  \/ Full /\ \A i \in DOMAIN out_events : place[i] < r

NothingLost ==
  jobs > 0 /\ ~g_callback_failed =>
    /\ cfg.max_events > 0 => Len(out_events) <= cfg.max_events
    /\ \E place \in [DOMAIN out_events -> DOMAIN delivered] :
         /\ InOrder(place)
         /\ \A r \in DOMAIN delivered : Wanted(r) => Served(place, r)
         /\ \A i \in DOMAIN out_events : ~Unwanted(place[i])

(***************************************************************************)
(* recordCallbackFailure and the guards at 224 and 318: until the next     *)
(* run(), a failure is never withdrawn, the first diagnostic is the one    *)
(* kept, and no event is added to the partial file.                        *)
(***************************************************************************)
FailureIsFinal ==
  [][g_callback_failed /\ jobs' = jobs =>
       g_callback_failed' /\ UNCHANGED <<g_callback_failure, out_events>>]_vars

(***************************************************************************)
(* user99 367-376 against run() 516-524: the success footer is not given   *)
(* to a job that goes on to return 3.                                      *)
(***************************************************************************)
FooterAgreesWithExit == pc = "idle" /\ exit = 3 => footer # "success"

(***************************************************************************)
(* user99 337-341: the metadata frame of a product lists what the events   *)
(* in the file carried.  In the first job of a process it lists nothing    *)
(* else, not what records that were dropped carried; in a later one also   *)
(* what the process converted before, since nothing resets the census.     *)
(***************************************************************************)
CarriedByWritten ==
  UNION {delivered[i].mods : i \in {j \in DOMAIN delivered :
           delivered[j].key \in WrittenKeys /\ FirstDst(j)}}

CensusCoversWritten ==
  exit = 0 /\ out_meta # None =>
    /\ CarriedByWritten \subseteq out_meta.modules
    /\ jobs = 1 => out_meta.modules = CarriedByWritten

(***************************************************************************)
(* user01 222-233: once a callback has failed or the cap is reached, the   *)
(* job ends, with an exit code unless it is killed.                        *)
(***************************************************************************)
Active == pc \in {"loop", "record", "end", "return"}

StoppedJobEnds ==
  /\ Active
  /\ g_callback_failed \/ (cfg.max_events > 0 /\ g_n_written >= cfg.max_events)
  ~> (pc = "idle" /\ exit # None) \/ pc = "dead"

(***************************************************************************)
(* The harness is a conversion job.                                        *)
(***************************************************************************)
Outcome(code) ==
  CASE code = None -> "idle"
    [] code = 0 -> "ok"
    [] code = 1 -> "refused"
    [] code = 2 -> "empty"
    [] code = 3 -> "failed"

JobState ==
  CASE pc = "idle" -> Outcome(exit)
    [] pc = "dead" -> IF exit = None THEN "killed" ELSE Outcome(exit)
    [] OTHER -> "running"

Job == INSTANCE ConversionJob
         WITH job <- JobState, exists <- out_exists, keys <- WrittenKeys, whole <- out_whole

ImplementsJob == Job!Spec

-----------------------------------------------------------------------------
(***************************************************************************)
(* What a comment promises and the code does not keep: 259-260, "so the    *)
(* output event count equals the number of physics events".  A set-up      *)
(* record is dropped only if it is the very first call of user02, and file *)
(* headers are calls, too (241-242); a physics event without PV chain that *)
(* is the very first call is dropped in its place.                         *)
(***************************************************************************)
OutputIsThePhysics ==
  exit = 0 /\ cfg.inter = <<>> /\ cfg.max_events <= 0 =>
    WrittenKeys = {delivered[i].key : i \in {j \in DOMAIN delivered : IsPhysics(j)}}

-----------------------------------------------------------------------------
(***************************************************************************)
(* The inductive invariant behind the safety properties: what the globals  *)
(* of the harness have to do with each other at each stage of a job.       *)
(***************************************************************************)
Asleep == {"idle", "dead"}

JobSetUp ==
  /\ pc # "idle" => cfg \in Configs
  /\ pc = "record" => rec \in Record
  /\ pc \notin Asleep => exit = None
  /\ pc = "dead" => exit \in {None, 2}

Untouched ==
  pc = "start" =>
    /\ ~g_writer /\ ~out_exists /\ ~g_callback_failed /\ g_n_written = 0
    /\ g_sdst_readers = <<>> /\ g_sdst_index = NoIndex

IndexReady ==
  pc \in {"loop", "record"} /\ ~g_callback_failed =>
    /\ g_sdst_readers = cfg.inter
    /\ DOMAIN g_sdst_index = KeysIn(cfg.inter)
    /\ \A k \in DOMAIN g_sdst_index : Earliest(cfg.inter, k, g_sdst_index[k])

WriterAndFile ==
  /\ pc \in {"loop", "record"} /\ ~g_callback_failed => g_writer
  /\ g_writer => out_exists /\ ~out_whole
  /\ out_whole => out_exists
  /\ out_exists /\ ~g_writer /\ ~g_callback_failed => out_whole
  /\ out_events # <<>> => out_exists
  /\ pc = "dead" /\ exit = 2 => ~out_exists
  /\ pc = "idle" => ~g_writer

WrittenAndProcessed ==
  /\ g_n_written = Len(out_events)
  /\ WrittenKeys \subseteq g_processed

FooterLast ==
  footer = "success" =>
    /\ pc \in {"return", "idle", "dead"}
    /\ ~g_callback_failed /\ ~g_writer /\ exit # 3

(***************************************************************************)
(* The relation between the control state, the globals and the file that   *)
(* every callback relies on and re-establishes (46-73).                    *)
(***************************************************************************)
IInv ==
  /\ TypeOK
  /\ JobSetUp
  /\ Untouched
  /\ IndexReady
  /\ WriterAndFile
  /\ WrittenAndProcessed
  /\ FooterLast
  /\ OneFramePerEvent
  /\ OwnFrame

(***************************************************************************)
(* What the counters, the set of processed keys, the file and the census   *)
(* have to do with the records delivered, as long as no callback has       *)
(* failed.  Taken says which records user02 writes.                        *)
(***************************************************************************)
Taken(i) == FirstDst(i) /\ InPassOne(i) /\ (i = 1 => delivered[i].pv)

FramesAt(place) ==
  /\ InOrder(place)
  /\ \A i \in DOMAIN out_events : Taken(place[i])
  /\ \A r \in DOMAIN delivered : Taken(r) => Served(place, r)

FramesFollow ==
  jobs > 0 /\ ~g_callback_failed =>
    /\ cfg.max_events > 0 => Len(out_events) <= cfg.max_events
    /\ \E place \in [DOMAIN out_events -> DOMAIN delivered] : FramesAt(place)

ProcessedSoFar ==
  jobs > 0 /\ ~g_callback_failed =>
    /\ g_n_seen = Len(delivered)
    /\ \A k \in g_processed :
         \E i \in DOMAIN delivered : delivered[i].dst /\ delivered[i].key = k
    /\ CapReached \/ \A i \in DOMAIN delivered :
         delivered[i].dst => delivered[i].key \in g_processed

CensusSoFar ==
  /\ jobs = 0 => pc = "idle" /\ g_modules = {}
  /\ ~g_callback_failed =>
       /\ CarriedByWritten \subseteq g_modules
       /\ jobs = 1 => g_modules = CarriedByWritten
  /\ out_meta # None => pc \in Asleep \cup {"return"} /\ out_meta.modules = g_modules
  /\ exit = 0 => ~g_callback_failed

History ==
  /\ ProcessedSoFar
  /\ FramesFollow
  /\ CensusSoFar
=============================================================================
