---------------------------- MODULE BatchCampaign ----------------------------
(***************************************************************************)
(* The campaign driver scripts/data-reco/batch_94c.sh, "Resumable +        *)
(* parallel".  Phase A converts every .al tape the worklist needs into a   *)
(* cached intermediate; phase B reconstructs every raw segment and joins   *)
(* it with the intermediates of its tapes.  Both run under xargs -P; both  *)
(* skip a job whose output file exists; nothing but the files survives an  *)
(* interrupted invocation.                                                 *)
(*                                                                         *)
(* The conversions are the jobs of module ConversionJob, seen through      *)
(* their exit status and the file they leave: "broken" (never finalised),  *)
(* "short" (finalised, but events are missing) or "whole".  delana and the *)
(* container are external.  Operators named Mut... are wrong forms of the  *)
(* operator that follows them.                                             *)
(***************************************************************************)
EXTENDS Naturals, Sequences, FiniteSets, SequencesExt

CONSTANTS
  Tapes,           \* the .al tapes, one intermediate each
  Segments,        \* the rows of the worklist, one product each
  TapesOf,         \* third column of the worklist: segment -> set of tapes
  OnDisk,          \* the tapes and raw segments that are staged
  Slots,           \* xargs -P
  Idle,            \* a slot without a worker
  MaxInvocations   \* bound: how often the operator starts the script

Jobs == Tapes \cup Segments

ASSUME CampaignAssumption ==
  /\ Tapes \cap Segments = {} /\ IsFiniteSet(Jobs)
  /\ TapesOf \in [Segments -> SUBSET Tapes]
  /\ OnDisk \subseteq Jobs
  /\ MaxInvocations \in Nat

VARIABLES
  phase,           \* "stopped", "A", "B" or "done"
  queue,           \* what xargs has not yet started
  worker,          \* slot -> Idle or what its shell is doing
  file,            \* job -> its intermediate or product
  pdlinput,        \* the jobs in whose work directory a PDLINPUT lies
  log,             \* job -> what this invocation last printed of it
  invocations,     \* how often the script was started
  hurt             \* history: the jobs this invocation has met with a failure, or with
                   \* what an earlier failure or interrupt left

vars == <<phase, queue, worker, file, pdlinput, log, invocations, hurt>>

Phases == {"stopped", "A", "B", "done"}
FileStates == {"absent", "broken", "short", "whole"}
Stages == {"started", "ready", "input", "writing"}
Work == [job : Jobs, at : Stages]

ASSUME IdleAssumption == Idle \notin Work

TypeOK ==
  /\ phase \in Phases
  /\ queue \in Seq(Jobs)
  /\ worker \in [Slots -> Work \cup {Idle}]
  /\ file \in [Jobs -> FileStates]
  /\ pdlinput \in SUBSET Jobs
  /\ log \in [Jobs -> {"", "OK", "FAIL", "skip", "missing"}]
  /\ invocations \in Nat
  /\ hurt \in SUBSET Jobs

AllIdle == [s \in Slots |-> Idle]

Init ==
  /\ phase = "stopped" /\ queue = <<>> /\ worker = AllIdle
  /\ file = [j \in Jobs |-> "absent"]
  /\ pdlinput = {}
  /\ log = [j \in Jobs |-> ""]
  /\ invocations = 0 /\ hurt = {}

-----------------------------------------------------------------------------
(* The queues.                                                              *)

\* awk over the worklist without sort -u: a tape once for every row naming it.
MutTapesPerRow ==
  LET tapes(s) == SetToSeq(TapesOf[s])
  IN  FlattenSeq([i \in 1 .. Cardinality(Segments) |-> tapes(SetToSeq(Segments)[i])])

\* The tapes of the worklist.
Needed == UNION {TapesOf[s] : s \in Segments}

AlRun == SetToSeq(Needed)

Worklist == SetToSeq(Segments)

\* What gets in the way of a new invocation: a partial file, which will be taken
\* for a complete one, and a PDLINPUT where phase A reuses the directory.
LeftOver == {j \in Jobs : file[j] \in {"broken", "short"}} \cup (pdlinput \cap Tapes)

Invoke ==
  /\ phase \in {"stopped", "done"} /\ invocations < MaxInvocations
  /\ invocations' = invocations + 1
  /\ phase' = "A" /\ queue' = AlRun
  /\ log' = [j \in Jobs |-> ""]
  /\ hurt' = LeftOver
  /\ UNCHANGED <<worker, file, pdlinput>>

\* A barrier on the intermediates instead of on the workers.
MutWaitsForTapes ==
  /\ queue = <<>> /\ worker = AllIdle
  /\ \/ /\ phase = "A" /\ \A s \in Segments : \A t \in TapesOf[s] : file[t] # "absent"
        /\ phase' = "B" /\ queue' = Worklist
     \/ phase = "B" /\ phase' = "done" /\ queue' = <<>>
  /\ UNCHANGED <<worker, file, pdlinput, log, invocations, hurt>>

\* The two phases in one pipeline: phase B starts when phase A has been handed out.
MutNoBarrier ==
  /\ queue = <<>>
  /\ \/ phase = "A" /\ phase' = "B" /\ queue' = Worklist
     \/ worker = AllIdle /\ phase = "B" /\ phase' = "done" /\ queue' = <<>>
  /\ UNCHANGED <<worker, file, pdlinput, log, invocations, hurt>>

\* xargs returns when its last worker has.
PhaseEnds ==
  /\ queue = <<>> /\ worker = AllIdle
  /\ \/ phase = "A" /\ phase' = "B" /\ queue' = Worklist
     \/ phase = "B" /\ phase' = "done" /\ queue' = <<>>
  /\ UNCHANGED <<worker, file, pdlinput, log, invocations, hurt>>

\* The operator, a batch system or a reboot ends the script and its workers.
Interrupt ==
  /\ phase \in {"A", "B"}
  /\ phase' = "stopped" /\ queue' = <<>> /\ worker' = AllIdle
  /\ UNCHANGED <<file, pdlinput, log, invocations, hurt>>

-----------------------------------------------------------------------------
(* A worker: build_intermediate or do_run, according to its job.            *)

\* The message and the removal of the work directory are one step: between the
\* two the worker touches nothing that anybody else reads.
Ends(s, message) ==
  LET j == worker[s].job IN
  /\ worker' = [worker EXCEPT ![s] = Idle]
  /\ log' = [log EXCEPT ![j] = message]

Advance(s, stage) ==
  /\ worker' = [worker EXCEPT ![s].at = stage]
  /\ UNCHANGED log

At(s, stage) == worker[s] # Idle /\ worker[s].at = stage

RmWorkDir(j) == pdlinput' = pdlinput \ {j}

Script == UNCHANGED <<phase, invocations>>

Start(s) ==
  /\ worker[s] = Idle /\ queue # <<>>
  /\ worker' = [worker EXCEPT ![s] = [job |-> Head(queue), at |-> "started"]]
  /\ queue' = Tail(queue)
  /\ Script /\ UNCHANGED <<file, pdlinput, log, hurt>>

MutAlwaysConverts(j) == FALSE

\* [ -f "$out" ]: an output file that exists is taken for the job done.
Cached(j) == file[j] # "absent"

Skip(s) ==
  /\ At(s, "started") /\ Cached(worker[s].job)
  /\ Ends(s, "skip")
  /\ Script /\ UNCHANGED <<queue, file, pdlinput, hurt>>

\* The intermediates a product is joined with: those of all its tapes.
MutFirstTapeOnly(j) ==
  IF j \in Segments /\ TapesOf[j] # {} THEN {CHOOSE t \in TapesOf[j] : TRUE} ELSE {}

Intermediates(j) == IF j \in Segments THEN TapesOf[j] ELSE {}

InputsExist(j) == j \in OnDisk /\ \A t \in Intermediates(j) : file[t] # "absent"

Missing(s) ==
  /\ At(s, "started") /\ ~Cached(worker[s].job) /\ ~InputsExist(worker[s].job)
  /\ Ends(s, "missing")
  /\ Script /\ UNCHANGED <<queue, file, pdlinput, hurt>>

\* Phase A reuses a directory an interrupted worker left, phase B empties it.
MakeWorkDir(j) == pdlinput' = IF j \in Segments THEN pdlinput \ {j} ELSE pdlinput

\* The .al is copied, or delana has written the full DST.
Prepare(s) ==
  LET j == worker[s].job IN
  /\ At(s, "started") /\ ~Cached(j) /\ InputsExist(j)
  /\ MakeWorkDir(j)
  /\ Advance(s, "ready")
  /\ Script /\ UNCHANGED <<queue, file, hurt>>

RecoFails(s) ==
  LET j == worker[s].job IN
  /\ At(s, "started") /\ ~Cached(j) /\ InputsExist(j) /\ j \in Segments
  /\ RmWorkDir(j)
  /\ Ends(s, "FAIL")
  /\ hurt' = hurt \cup {j}
  /\ Script /\ UNCHANGED <<queue, file>>

\* The conversion refuses to replace a PDLINPUT it did not create.
Refused(s) ==
  LET j == worker[s].job IN
  /\ At(s, "ready") /\ j \in pdlinput
  /\ RmWorkDir(j)
  /\ Ends(s, "FAIL")
  /\ Script /\ UNCHANGED <<queue, file, hurt>>

WritePdlInput(s) ==
  LET j == worker[s].job IN
  /\ At(s, "ready") /\ j \notin pdlinput
  /\ pdlinput' = pdlinput \cup {j}
  /\ Advance(s, "input")
  /\ Script /\ UNCHANGED <<queue, file, hurt>>

\* The container does not start, or the job ends before it opens its output.
NoOutput(s) ==
  LET j == worker[s].job IN
  /\ At(s, "ready") \/ At(s, "input")
  /\ RmWorkDir(j)
  /\ Ends(s, "FAIL")
  /\ hurt' = hurt \cup {j}
  /\ Script /\ UNCHANGED <<queue, file>>

\* The output path is the final one; the writer truncates what is there.
OpenOutput(s) ==
  LET j == worker[s].job IN
  /\ At(s, "input")
  /\ file' = [file EXCEPT ![j] = "broken"]
  /\ Advance(s, "writing")
  /\ Script /\ UNCHANGED <<queue, pdlinput, hurt>>

\* pass 2 can open all its intermediates, and finds in them all its events.
Readable(j) == \A t \in Intermediates(j) : file[t] # "broken"

Complete(j) ==
  /\ \A t \in Intermediates(j) : file[t] = "whole"
  /\ j \in Segments => TapesOf[j] \subseteq Intermediates(j)

\* Exit status 0.
Succeeds(s) ==
  LET j == worker[s].job IN
  /\ At(s, "writing") /\ Readable(j)
  /\ file' = [file EXCEPT ![j] = IF Complete(j) THEN "whole" ELSE "short"]
  /\ RmWorkDir(j)
  /\ Ends(s, "OK")
  /\ Script /\ UNCHANGED <<queue, hurt>>

\* Exit status 2 or 3 with a finalised file, or a kill that leaves it as it is.
\* user00 throws on an intermediate that was never finalised.
Fails(s) ==
  LET j == worker[s].job IN
  /\ At(s, "writing")
  /\ \E left \in {"short", "broken"} : file' = [file EXCEPT ![j] = left]
  /\ RmWorkDir(j)
  /\ Ends(s, "FAIL")
  /\ hurt' = hurt \cup {j}
  /\ Script /\ UNCHANGED queue

Worker(s) ==
  \/ Start(s) \/ Skip(s) \/ Missing(s)
  \/ Prepare(s) \/ RecoFails(s)
  \/ Refused(s) \/ WritePdlInput(s) \/ NoOutput(s)
  \/ OpenOutput(s) \/ Succeeds(s) \/ Fails(s)

Next ==
  \/ Invoke \/ PhaseEnds \/ Interrupt
  \/ \E s \in Slots : Worker(s)

(***************************************************************************)
(* A worker goes on until it is done: delana runs under a timeout, and a   *)
(* conversion ends (PhdstHarness).  Nobody has to start the script.        *)
(***************************************************************************)
Fairness == WF_vars(PhaseEnds) /\ \A s \in Slots : WF_vars(Worker(s))

Spec == Init /\ [][Next]_vars /\ Fairness

-----------------------------------------------------------------------------
(***************************************************************************)
(* 31 and 75, "unique per segment": no two workers are on the same job at  *)
(* once, so a file and a work directory have one user.                     *)
(***************************************************************************)
OneWorkerPerJob ==
  \A s, t \in Slots : worker[s] # Idle /\ worker[t] # Idle /\ s # t =>
    worker[s].job # worker[t].job

(***************************************************************************)
(* 36 and 60: a complete intermediate or product is never written again,   *)
(* by this invocation or a later one.                                      *)
(***************************************************************************)
WholeIsKept == [][\A j \in Jobs : file[j] = "whole" => file'[j] = "whole"]_vars

(***************************************************************************)
(* 61-69: a product reported OK lacks events only if an intermediate it    *)
(* was joined with does; all tapes of the run are in the join.             *)
(***************************************************************************)
OkIsAsGoodAsItsTapes ==
  \A s \in Segments : log[s] = "OK" /\ file[s] # "whole" =>
    \E t \in TapesOf[s] : file[t] = "short"

(***************************************************************************)
(* "Resumable": an invocation that is not interrupted completes every      *)
(* segment that has its inputs, unless something is wrong with the segment *)
(* or one of its tapes themselves: a partial file of theirs, a PDLINPUT in *)
(* the directory of a tape, a failure now.  Failures and leftovers of      *)
(* other jobs, missing tapes and work directories of phase B cost nothing. *)
(* A PDLINPUT that an interrupt left in the directory of a tape, which     *)
(* phase A reuses (40), makes the conversion refuse, but only once: none   *)
(* stays in the way of a conversion still to be made (50).                 *)
(***************************************************************************)
HasInputs(s) == s \in OnDisk /\ TapesOf[s] \subseteq OnDisk

Unhurt(s) == ({s} \cup TapesOf[s]) \cap hurt = {}

CompletesTheUnhurt == \A s \in Segments : HasInputs(s) /\ Unhurt(s) => file[s] = "whole"

NextIsUnblocked == \A t \in pdlinput \cap Tapes : file[t] # "absent"

ResumeCompletes == phase = "done" => CompletesTheUnhurt /\ NextIsUnblocked

(***************************************************************************)
(* An invocation that is not interrupted ends, whatever fails in it.       *)
(***************************************************************************)
InvocationEnds == phase \in {"A", "B"} ~> phase \in {"done", "stopped"}

-----------------------------------------------------------------------------
(***************************************************************************)
(* What comments promise and the script does not keep.                     *)
(***************************************************************************)

\* 46-47 and 61-63: the full tapes are cached and their union is joined, so that
\* no per-run output is incomplete.  The partial intermediate a failed job of
\* phase A leaves counts as cached in phase B of the same invocation.
OkProductIsWhole == \A s \in Segments : log[s] = "OK" => file[s] = "whole"

\* 2 and 5, "Resumable", "Skip if done": also a file cut short by an interrupt
\* or a failure counts as done.
SkippedIsWhole == \A j \in Jobs : log[j] = "skip" => file[j] = "whole"

-----------------------------------------------------------------------------
(***************************************************************************)
(* The inductive invariant behind the safety properties.                   *)
(***************************************************************************)
Busy(s, j) == worker[s] # Idle /\ worker[s].job = j

Pending(j) == (\E i \in DOMAIN queue : queue[i] = j) \/ (\E s \in Slots : Busy(s, j))

\* Sorted without repetition, the queue gives each job to one worker; a phase
\* has only its own jobs, and none are left when it is over.
OneTurnEach ==
  /\ \A i, k \in DOMAIN queue : queue[i] = queue[k] => i = k
  /\ \A i \in DOMAIN queue, s \in Slots : ~Busy(s, queue[i])
  /\ OneWorkerPerJob
  /\ \A j \in Jobs : Pending(j) => j \in IF phase = "A" THEN Needed ELSE Segments
  /\ phase \in {"stopped", "done"} => queue = <<>> /\ worker = AllIdle

\* A worker that has passed the test for its output is the only one to touch it.
WorkersOwnTheirFile ==
  \A s \in Slots : worker[s] # Idle /\ worker[s].at # "started" =>
    /\ file[worker[s].job] = IF worker[s].at = "writing" THEN "broken" ELSE "absent"
    /\ InputsExist(worker[s].job)

OkIsFinalised == \A s \in Segments : log[s] = "OK" => file[s] \in {"short", "whole"}

\* Nothing is given up that could be made.
InHand(j) == file[j] # "absent" \/ Pending(j)

NothingGivenUp ==
  phase # "stopped" =>
    /\ \A s \in Segments : \A t \in (TapesOf[s] \cap OnDisk) \ hurt : InHand(t)
    /\ phase # "A" => \A s \in Segments : HasInputs(s) /\ Unhurt(s) => InHand(s)

\* A partial file is being written, or has a cause.
Writing(j) == \E s \in Slots : Busy(s, j) /\ worker[s].at = "writing"

SoundUnlessHurt ==
  phase # "stopped" =>
    \A j \in Jobs : file[j] \in {"broken", "short"} =>
      Writing(j) \/ ({j} \cup Intermediates(j)) \cap hurt # {}

DirectoriesAreFree ==
  /\ \A s \in Slots : At(s, "ready") /\ worker[s].job \in Segments =>
       worker[s].job \notin pdlinput
  /\ phase = "A" => \A t \in (Tapes \cap pdlinput) \ hurt :
       \E s \in Slots : Busy(s, t) /\ worker[s].at \in {"input", "writing"}

\* The next phase A comes back to the directory of a tape.
DirectoriesAreSeenTo ==
  \A t \in Tapes \cap pdlinput :
    /\ t \in Needed \cap OnDisk
    /\ phase # "stopped" => InHand(t)

IInv ==
  /\ TypeOK
  /\ OneTurnEach
  /\ WorkersOwnTheirFile
  /\ OkIsFinalised
  /\ OkIsAsGoodAsItsTapes
  /\ NothingGivenUp
  /\ SoundUnlessHurt
  /\ DirectoriesAreFree
  /\ DirectoriesAreSeenTo
=============================================================================
