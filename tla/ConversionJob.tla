---------------------------- MODULE ConversionJob ----------------------------
(***************************************************************************)
(* What a conversion promises to whoever launches it: one output file, an  *)
(* event at most once in it, and an outcome that tells a complete product  *)
(* from everything else.  The harness (PhdstHarness) implements this       *)
(* specification; the batch campaign is built on its outcomes.             *)
(*                                                                         *)
(* The outcomes are the exit codes of harness::run():                      *)
(*   0 "ok"   1 "refused"   2 "empty"   3 "failed",                        *)
(* and "killed" for a process that ends without returning from run().      *)
(***************************************************************************)
EXTENDS Naturals

CONSTANT Keys     \* the (run, event number) pairs that name physical events

VARIABLES
  job,            \* "idle", "running" or the outcome of the last job
  exists,         \* has the job created its output file?
  keys,           \* the events in that file
  whole           \* has the file been finalised, so that it can be read?

vars == <<job, exists, keys, whole>>

Outcomes == {"ok", "refused", "empty", "failed", "killed"}

TypeOK ==
  /\ job \in {"idle", "running"} \cup Outcomes
  /\ exists \in BOOLEAN
  /\ keys \in SUBSET Keys
  /\ whole \in BOOLEAN

Init == job = "idle" /\ exists = FALSE /\ keys = {} /\ whole = FALSE

NoFile == exists' = FALSE /\ keys' = {} /\ whole' = FALSE

\* A process runs its jobs one after the other; a killed one runs no more.
Free == job \notin {"running", "killed"}

Start == Free /\ job' = "running" /\ NoFile

\* Nothing is touched when the job cannot even set up its input.
Refuse == Free /\ job' = "refused" /\ NoFile

Create ==
  /\ job = "running" /\ ~exists
  /\ exists' = TRUE
  /\ UNCHANGED <<job, keys, whole>>

Add(k) ==
  /\ job = "running" /\ exists /\ ~whole
  /\ k \notin keys
  /\ keys' = keys \cup {k}
  /\ UNCHANGED <<job, exists, whole>>

Seal ==
  /\ job = "running" /\ exists /\ ~whole
  /\ whole' = TRUE
  /\ UNCHANGED <<job, exists, keys>>

\* Success is reported for a finalised file that holds events, and only for it.
Succeed ==
  /\ job = "running" /\ exists /\ keys # {}
  /\ job' = "ok" /\ whole' = TRUE
  /\ UNCHANGED <<exists, keys>>

GiveUpEmpty ==
  /\ job = "running" /\ keys = {}
  /\ job' = "empty" /\ whole' = exists
  /\ UNCHANGED <<exists, keys>>

Fail ==
  /\ job = "running"
  /\ job' = "failed" /\ whole' \in {whole, exists}
  /\ UNCHANGED <<exists, keys>>

Kill ==
  /\ job = "running"
  /\ job' = "killed"
  /\ UNCHANGED <<exists, keys, whole>>

Next ==
  \/ Start \/ Refuse \/ Create \/ Seal
  \/ \E k \in Keys : Add(k)
  \/ Succeed \/ GiveUpEmpty \/ Fail \/ Kill

Spec == Init /\ [][Next]_vars

(***************************************************************************)
(* The promise of the exit code, harness run() 513-529: a job that reports *)
(* success leaves a finalised, non-empty file.                             *)
(***************************************************************************)
OkIsAProduct == job = "ok" => exists /\ whole /\ keys # {}
=============================================================================
