------------------------ MODULE BatchCampaign_proofs ------------------------
(***************************************************************************)
(* The safety properties of BatchCampaign hold for every worklist, every   *)
(* set of staged files and every number of workers and invocations.        *)
(* Helper facts first, then one lemma per action, then the theorems.       *)
(***************************************************************************)
EXTENDS BatchCampaign, FiniteSetTheorems, SequenceTheorems, TLAPS

(***************************************************************************)
(* The queue made of a finite set has each of its elements once.           *)
(***************************************************************************)
LEMMA SetToSeqOnce ==
  ASSUME NEW S, IsFiniteSet(S)
  PROVE  /\ SetToSeq(S) \in Seq(S)
         /\ \A i, k \in DOMAIN SetToSeq(S) : SetToSeq(S)[i] = SetToSeq(S)[k] => i = k
         /\ \A x \in S : \E i \in DOMAIN SetToSeq(S) : SetToSeq(S)[i] = x
<1> DEFINE n == Cardinality(S)
           q == SetToSeq(S)
<1>1. n \in Nat /\ ExistsBijection(1 .. n, S)
  BY FS_CardinalityType
<1>2. \E f \in [1 .. n -> S] : IsInjective(f)
  BY <1>1 DEF ExistsBijection, Bijection, Injection, IsInjective
<1>3. q \in [1 .. n -> S] /\ IsInjective(q)
  BY <1>2 DEF SetToSeq
<1>4. IsFiniteSet(1 .. n) /\ Cardinality(1 .. n) = n
  BY <1>1, FS_Interval
<1> HIDE DEF n, q
<1>5. q \in Injection(1 .. n, S)
  BY <1>3 DEF Injection, IsInjective
<1>6. q \in Surjection(1 .. n, S)
  BY <1>4, <1>5, FS_Injection DEF n
<1>7. q \in Seq(S) /\ DOMAIN q = 1 .. n
  BY <1>1, <1>3, <1>5 DEF Injection
<1>8. \A i, k \in DOMAIN q : q[i] = q[k] => i = k
  BY <1>3 DEF IsInjective
<1>9. \A x \in S : \E i \in DOMAIN q : q[i] = x
  BY <1>6, <1>7 DEF Surjection
<1> QED BY <1>7, <1>8, <1>9 DEF q

(***************************************************************************)
(* A step of the worker in slot s touches what belongs to its job alone.   *)
(***************************************************************************)
OnlyItsJob(s) ==
  LET j == worker[s].job IN
  /\ worker[s] # Idle
  /\ UNCHANGED <<phase, queue, invocations>>
  /\ worker' \in [Slots -> Work \cup {Idle}]
  /\ \A t \in Slots \ {s} : worker'[t] = worker[t]
  /\ worker'[s] # Idle => worker'[s].job = j
  /\ file' \in [Jobs -> FileStates] /\ \A k \in Jobs \ {j} : file'[k] = file[k]
  /\ log' \in [Jobs -> {"", "OK", "FAIL", "skip", "missing"}]
  /\ \A k \in Jobs \ {j} : log'[k] = log[k]
  /\ pdlinput' \in SUBSET Jobs /\ pdlinput' \subseteq pdlinput \cup {j}
  /\ hurt' \in SUBSET Jobs /\ hurt \subseteq hurt'

(***************************************************************************)
(* What it has to see to of its own job.                                   *)
(***************************************************************************)
SeesToItsJob(s) ==
  LET j == worker[s].job IN
  /\ worker'[s] # Idle /\ worker'[s].at # "started" =>
       /\ file'[j] = IF worker'[s].at = "writing" THEN "broken" ELSE "absent"
       /\ InputsExist(j)
  /\ file[j] \in {"short", "whole"} => file'[j] = file[j]
  /\ file[j] # "absent" => file'[j] # "absent"
  /\ j \in Segments /\ log'[j] = "OK" =>
       \/ log[j] = "OK"
       \/ file'[j] = "whole"
       \/ file'[j] = "short" /\ \E t \in TapesOf[j] : file[t] = "short"
  /\ worker'[s] = Idle /\ j \notin hurt' => file'[j] # "absent" \/ ~InputsExist(j)
  /\ file'[j] \in {"broken", "short"} =>
       \/ worker'[s] # Idle /\ worker'[s].at = "writing"
       \/ file[j] = file'[j] /\ worker[s].at # "writing"
       \/ j \in hurt'
       \/ j \in Segments /\ \E t \in TapesOf[j] : file[t] = "short"
  /\ j \in Segments /\ worker'[s] # Idle /\ worker'[s].at = "ready" => j \notin pdlinput'
  /\ j \in Tapes /\ j \in pdlinput' =>
       /\ j \in OnDisk /\ (worker'[s] = Idle => file'[j] # "absent")
       /\ \/ j \in hurt'
          \/ j \in pdlinput /\ worker[s].at = "started"
          \/ worker'[s] # Idle /\ worker'[s].at \in {"input", "writing"}

LEMMA JobOfWorker ==
  ASSUME TypeOK, NEW s \in Slots, worker[s] # Idle
  PROVE  worker[s] \in Work /\ worker[s].job \in Jobs /\ worker[s].at \in Stages
<1>1. worker[s] \in Work
  BY DEF TypeOK
<1> QED BY <1>1 DEF Work

LEMMA NeededAreTapes ==
  /\ Needed \subseteq Tapes
  /\ \A s \in Segments : TapesOf[s] \subseteq Needed
BY CampaignAssumption DEF Needed

(***************************************************************************)
(* Who has passed the tests of a phase is on a job of that phase.          *)
(***************************************************************************)
LEMMA PhaseOfWorker ==
  ASSUME IInv, NEW s \in Slots, worker[s] # Idle
  PROVE  /\ phase \in {"A", "B"}
         /\ worker[s].job \in Tapes => phase = "A"
         /\ worker[s].job \in Segments => phase = "B"
<1>1. TypeOK /\ OneTurnEach
  BY DEF IInv
<1>2. worker[s].job \in Jobs /\ Pending(worker[s].job)
  BY <1>1, JobOfWorker DEF Pending, Busy
<1>3. worker[s].job \in IF phase = "A" THEN Tapes ELSE Segments
  BY <1>1, <1>2, NeededAreTapes DEF OneTurnEach
<1>4. phase \notin {"stopped", "done"}
  BY <1>1 DEF OneTurnEach, AllIdle
<1> QED BY <1>1, <1>3, <1>4, CampaignAssumption DEF TypeOK, Phases

(***************************************************************************)
(* Such a step preserves the invariant.                                    *)
(***************************************************************************)
LEMMA WorkerKeepsIInv ==
  ASSUME IInv, NEW s \in Slots, OnlyItsJob(s), SeesToItsJob(s)
  PROVE  IInv'
<1> DEFINE j == worker[s].job
<1>1. TypeOK /\ worker[s] # Idle /\ j \in Jobs /\ worker[s].at \in Stages
  BY JobOfWorker DEF IInv, OnlyItsJob
<1>2. /\ \A t \in Slots \ {s} : worker'[t] = worker[t]
      /\ worker'[s] # Idle => worker'[s].job = j
      /\ \A k \in Jobs \ {j} : file'[k] = file[k] /\ log'[k] = log[k]
      /\ \A k \in pdlinput' \ {j} : k \in pdlinput
      /\ phase' = phase /\ queue' = queue /\ hurt \subseteq hurt'
  BY DEF OnlyItsJob
<1>3. \A t \in Slots \ {s} : worker[t] # Idle => worker[t].job # j
  BY <1>1 DEF IInv, OneTurnEach, OneWorkerPerJob
<1>4. TypeOK'
  BY <1>1 DEF OnlyItsJob, TypeOK
<1>5. /\ \A k \in Jobs : file[k] \in {"short", "whole"} => file'[k] = file[k]
      /\ \A k \in Jobs : file[k] # "absent" => file'[k] # "absent"
  BY <1>2 DEF SeesToItsJob
<1>6. \A t \in Slots, k \in Jobs : Busy(t, k)' => Busy(t, k)
  BY <1>1, <1>2 DEF Busy
<1>7. \A k \in Jobs : Pending(k)' => Pending(k)
  BY <1>2, <1>6 DEF Pending
<1>8. \A k \in Jobs : Pending(k) => Pending(k)' \/ (k = j /\ worker'[s] = Idle)
  BY <1>1, <1>2 DEF Pending, Busy
<1>9. OneTurnEach'
  <2>1. OneTurnEach
    BY DEF IInv
  <2>2. \A i \in DOMAIN queue : queue[i] \in Jobs
    <3>1. queue \in Seq(Jobs)
      BY <1>1 DEF TypeOK
    <3> QED BY <3>1, LenProperties, ElementOfSeq
  <2>3. \A i \in DOMAIN queue', t \in Slots :
          ~(worker'[t] # Idle /\ worker'[t].job = queue'[i])
    <3>1. \A i \in DOMAIN queue, t \in Slots : ~(worker[t] # Idle /\ worker[t].job = queue[i])
      BY <2>1 DEF OneTurnEach, Busy
    <3> QED BY <1>2, <1>6, <2>2, <3>1 DEF Busy
  <2>4. OneWorkerPerJob'
    BY <1>2, <1>3, <2>1 DEF OneTurnEach, OneWorkerPerJob
  <2>5. \A k \in Jobs : Pending(k)' => k \in IF phase' = "A" THEN Needed ELSE Segments
    BY <1>2, <1>7, <2>1 DEF OneTurnEach
  <2>6. phase' \notin {"stopped", "done"}
    BY <1>1, <1>2, PhaseOfWorker
  <2>7. \A i, k \in DOMAIN queue' : queue'[i] = queue'[k] => i = k
    BY <1>2, <2>1 DEF OneTurnEach
  <2> QED BY <2>3, <2>4, <2>5, <2>6, <2>7 DEF OneTurnEach, Busy
<1>10. WorkersOwnTheirFile'
  <2> SUFFICES ASSUME NEW t \in Slots, worker'[t] # Idle, worker'[t].at # "started"
               PROVE  /\ file'[worker'[t].job] =
                           IF worker'[t].at = "writing" THEN "broken" ELSE "absent"
                      /\ worker'[t].job \in OnDisk
                      /\ \A u \in Intermediates(worker'[t].job) : file'[u] # "absent"
    BY DEF WorkersOwnTheirFile, Intermediates, InputsExist
  <2>1. \A k \in Jobs : \A u \in Intermediates(k) : u \in Jobs
    BY CampaignAssumption DEF Intermediates, Jobs
  <2>2. CASE t = s
    BY <1>1, <1>2, <1>5, <2>1, <2>2 DEF SeesToItsJob, InputsExist
  <2>3. CASE t # s
    <3>1. worker'[t] = worker[t] /\ worker[t].job \in Jobs \ {j}
      BY <1>1, <1>2, <1>3, <2>3, JobOfWorker
    <3>2. /\ file[worker[t].job] = IF worker[t].at = "writing" THEN "broken" ELSE "absent"
          /\ worker[t].job \in OnDisk
          /\ \A u \in Intermediates(worker[t].job) : file[u] # "absent"
      BY <3>1 DEF IInv, WorkersOwnTheirFile, InputsExist
    <3> QED BY <1>2, <1>5, <2>1, <3>1, <3>2
  <2> QED BY <2>2, <2>3
<1>11. OkIsFinalised' /\ OkIsAsGoodAsItsTapes'
  <2> SUFFICES ASSUME NEW k \in Segments, log'[k] = "OK"
               PROVE  /\ file'[k] \in {"short", "whole"}
                      /\ file'[k] # "whole" => \E t \in TapesOf[k] : file'[t] = "short"
    BY DEF OkIsFinalised, OkIsAsGoodAsItsTapes
  <2>1. \A t \in TapesOf[k] : t \in Jobs
    BY CampaignAssumption DEF Jobs
  <2>2. k \in Jobs
    BY DEF Jobs
  <2>3. CASE log[k] = "OK"
    <3>1. /\ file[k] \in {"short", "whole"}
          /\ file[k] # "whole" => \E t \in TapesOf[k] : file[t] = "short"
      BY <2>3 DEF IInv, OkIsFinalised, OkIsAsGoodAsItsTapes
    <3> QED BY <1>5, <2>1, <2>2, <3>1
  <2>4. CASE log[k] # "OK"
    BY <1>2, <1>5, <2>1, <2>2, <2>4 DEF SeesToItsJob
  <2> QED BY <2>3, <2>4
<1>12. NothingGivenUp'
  <2>1. SUFFICES ASSUME phase' # "stopped"
                 PROVE  /\ \A k \in Segments : \A t \in (TapesOf[k] \cap OnDisk) \ hurt' : InHand(t)'
                        /\ phase' # "A" =>
                             \A k \in Segments : HasInputs(k) /\ Unhurt(k)' => InHand(k)'
    BY DEF NothingGivenUp, HasInputs
  <2>2. /\ \A k \in Segments : \A t \in (TapesOf[k] \cap OnDisk) \ hurt : InHand(t)
        /\ phase # "A" => \A k \in Segments : HasInputs(k) /\ Unhurt(k) => InHand(k)
    BY <1>2, <2>1 DEF IInv, NothingGivenUp
  <2>3. \A k \in Jobs \ hurt' : InHand(k) => InHand(k)' \/ (k = j /\ ~InputsExist(j))
    BY <1>5, <1>8 DEF InHand, SeesToItsJob
  <2>4. ASSUME NEW k \in Segments, NEW t \in (TapesOf[k] \cap OnDisk) \ hurt' PROVE InHand(t)'
    <3>1. t \in Tapes /\ t \notin Segments /\ t \in OnDisk /\ t \notin hurt
      BY <1>2, CampaignAssumption
    <3>2. InputsExist(t)
      BY <3>1 DEF InputsExist, Intermediates
    <3> QED BY <2>2, <2>3, <3>1, <3>2 DEF Jobs
  <2>5. ASSUME phase' # "A", NEW k \in Segments, HasInputs(k), Unhurt(k)' PROVE InHand(k)'
    <3>1. k \in Jobs \ hurt' /\ TapesOf[k] \cap hurt' = {}
      BY <2>5 DEF Unhurt, Jobs
    <3>2. \A t \in TapesOf[k] : file[t] # "absent"
      <4> SUFFICES ASSUME NEW t \in TapesOf[k] PROVE file[t] # "absent"
        OBVIOUS
      <4>1. t \in Tapes \cap OnDisk /\ t \notin Segments /\ t \notin hurt
        BY <1>2, <2>5, <3>1, CampaignAssumption DEF HasInputs
      <4>2. ~Pending(t)
        BY <1>2, <2>5, <4>1 DEF IInv, OneTurnEach, Jobs
      <4> QED BY <2>2, <4>1, <4>2 DEF InHand
    <3>3. InputsExist(k)
      BY <2>5, <3>2 DEF InputsExist, Intermediates, HasInputs
    <3>4. Unhurt(k)
      BY <1>2, <3>1 DEF Unhurt
    <3> QED BY <1>2, <2>2, <2>3, <2>5, <3>1, <3>3, <3>4
  <2> QED BY <2>4, <2>5
<1>13. DirectoriesAreFree'
  <2>1. ASSUME NEW t \in Slots, At(t, "ready")', worker'[t].job \in Segments
        PROVE  worker'[t].job \notin pdlinput'
    <3>1. CASE t = s
      BY <1>2, <2>1, <3>1 DEF SeesToItsJob, At
    <3>2. CASE t # s
      <4>1. worker'[t] = worker[t] /\ worker[t] # Idle /\ worker[t].job # j
        BY <1>2, <1>3, <2>1, <3>2 DEF At
      <4>2. worker[t].job \notin pdlinput
        BY <2>1, <4>1 DEF IInv, DirectoriesAreFree, At
      <4> QED BY <1>2, <4>1, <4>2
    <3> QED BY <3>1, <3>2
  <2>2. ASSUME phase' = "A", NEW t \in (Tapes \cap pdlinput') \ hurt'
        PROVE  \E u \in Slots : Busy(u, t)' /\ worker'[u].at \in {"input", "writing"}
    <3>1. \A k \in (Tapes \cap pdlinput) \ hurt :
            \E u \in Slots : Busy(u, k) /\ worker[u].at \in {"input", "writing"}
      BY <1>2, <2>2 DEF IInv, DirectoriesAreFree
    <3>2. CASE t # j
      <4>1. PICK u \in Slots : Busy(u, t) /\ worker[u].at \in {"input", "writing"}
        BY <1>2, <2>2, <3>1, <3>2
      <4> QED BY <1>2, <3>2, <4>1 DEF Busy
    <3>3. CASE t = j
      <4>1. ~(j \in pdlinput /\ worker[s].at = "started")
        BY <1>2, <1>3, <2>2, <3>1, <3>3 DEF Busy
      <4>2. worker'[s] # Idle /\ worker'[s].at \in {"input", "writing"}
        BY <2>2, <3>3, <4>1 DEF SeesToItsJob
      <4> QED BY <1>2, <3>3, <4>2 DEF Busy
    <3> QED BY <3>2, <3>3
  <2> QED BY <2>1, <2>2 DEF DirectoriesAreFree
<1>14. SoundUnlessHurt'
  <2> SUFFICES ASSUME phase' # "stopped", NEW k \in Jobs, file'[k] \in {"broken", "short"}
               PROVE  Writing(k)' \/ ({k} \cup Intermediates(k)) \cap hurt' # {}
    BY DEF SoundUnlessHurt, Intermediates
  <2>1. \A i \in Jobs : file[i] \in {"broken", "short"} =>
          Writing(i) \/ ({i} \cup Intermediates(i)) \cap hurt # {}
    BY <1>2 DEF IInv, SoundUnlessHurt
  <2>2. CASE k # j
    <3>1. Writing(k) => Writing(k)'
      BY <1>1, <1>2, <2>2 DEF Writing, Busy
    <3> QED BY <1>2, <2>1, <2>2, <3>1
  <2>3. CASE k = j /\ worker'[s] # Idle /\ worker'[s].at = "writing"
    BY <1>2, <2>3 DEF Writing, Busy
  <2>4. CASE k = j /\ file[j] = file'[j] /\ worker[s].at # "writing"
    <3>1. ~Writing(j)
      BY <1>3, <2>4 DEF Writing, Busy
    <3> QED BY <1>2, <2>1, <2>4, <3>1
  <2>5. ASSUME k = j, j \in Segments, NEW t \in TapesOf[j], file[t] = "short"
        PROVE  ({k} \cup Intermediates(k)) \cap hurt' # {}
    <3>1. t \in Jobs /\ t \in Tapes /\ t \notin Segments
      BY <2>5, CampaignAssumption DEF Jobs
    <3>2. phase = "B"
      BY <1>1, <2>5, PhaseOfWorker
    <3>3. ~Writing(t)
      <4>1. ~Pending(t)
        BY <3>1, <3>2 DEF IInv, OneTurnEach
      <4> QED BY <4>1 DEF Writing, Pending
    <3>4. t \in hurt
      BY <2>1, <2>5, <3>1, <3>3 DEF Intermediates
    <3> QED BY <1>2, <2>5, <3>4 DEF Intermediates
  <2> QED BY <2>2, <2>3, <2>4, <2>5 DEF SeesToItsJob
<1>15. DirectoriesAreSeenTo'
  <2> SUFFICES ASSUME NEW t \in Tapes \cap pdlinput'
               PROVE  t \in Needed /\ t \in OnDisk /\ InHand(t)'
    BY DEF DirectoriesAreSeenTo
  <2>1. phase \in {"A", "B"} /\ (j \in Tapes => phase = "A")
    BY <1>1, PhaseOfWorker
  <2>2. t \in Jobs
    BY DEF Jobs
  <2>3. CASE t # j
    <3>1. t \in Needed \cap OnDisk /\ InHand(t)
      BY <1>2, <2>1, <2>3 DEF IInv, DirectoriesAreSeenTo
    <3> QED BY <1>5, <1>8, <2>2, <2>3, <3>1 DEF InHand
  <2>4. CASE t = j
    <3>1. t \in OnDisk /\ (worker'[s] = Idle => file'[j] # "absent")
      BY <2>4 DEF SeesToItsJob
    <3>2. Pending(j)
      BY <1>1 DEF Pending, Busy
    <3>3. t \in Needed
      BY <1>1, <2>1, <2>4, <3>2 DEF IInv, OneTurnEach
    <3>4. InHand(t)'
      BY <1>2, <2>4, <3>1 DEF InHand, Pending, Busy
    <3> QED BY <3>1, <3>3, <3>4
  <2> QED BY <2>3, <2>4
<1> QED BY <1>4, <1>9, <1>10, <1>11, <1>12, <1>13, <1>14, <1>15 DEF IInv

-----------------------------------------------------------------------------
(* The steps of a worker.                                                   *)

Messages == {"OK", "FAIL", "skip", "missing"}

LEMMA EndsAlone ==
  ASSUME TypeOK, NEW s \in Slots, NEW m \in Messages, worker[s] # Idle, Ends(s, m)
  PROVE  /\ worker' \in [Slots -> Work \cup {Idle}] /\ worker'[s] = Idle
         /\ \A t \in Slots \ {s} : worker'[t] = worker[t]
         /\ log' \in [Jobs -> {"", "OK", "FAIL", "skip", "missing"}]
         /\ log'[worker[s].job] = m
         /\ \A k \in Jobs \ {worker[s].job} : log'[k] = log[k]
  BY JobOfWorker DEF Ends, TypeOK, Messages

LEMMA AdvancesAlone ==
  ASSUME TypeOK, NEW s \in Slots, NEW stage \in Stages, worker[s] # Idle, Advance(s, stage)
  PROVE  /\ worker' \in [Slots -> Work \cup {Idle}]
         /\ worker'[s] = [job |-> worker[s].job, at |-> stage] /\ worker'[s] # Idle
         /\ \A t \in Slots \ {s} : worker'[t] = worker[t]
         /\ log' = log
<1>1. worker[s] \in Work /\ worker \in [Slots -> Work \cup {Idle}]
  BY JobOfWorker DEF TypeOK
<1>2. worker' = [worker EXCEPT ![s] = [worker[s] EXCEPT !.at = stage]] /\ log' = log
  BY DEF Advance
<1>3. [worker[s] EXCEPT !.at = stage] = [job |-> worker[s].job, at |-> stage]
  BY <1>1 DEF Work
<1>4. [job |-> worker[s].job, at |-> stage] \in Work
  BY <1>1 DEF Work
<1> QED BY <1>1, <1>2, <1>3, <1>4, IdleAssumption

\* A PDLINPUT that was in the directory of a tape before its worker came counts
\* among what was left over.
LEMMA NoStrangePdlInput ==
  ASSUME IInv, NEW s \in Slots, worker[s] # Idle, worker[s].job \in pdlinput \ hurt,
         worker[s].at \in {"started", "ready"}
  PROVE  worker[s].job \in Segments /\ worker[s].at = "started"
<1>1. TypeOK /\ OneTurnEach /\ DirectoriesAreFree /\ worker[s].job \in Jobs
  BY JobOfWorker DEF IInv
<1>2. CASE worker[s].job \in Tapes
  <2>1. phase = "A"
    BY <1>2, PhaseOfWorker
  <2>2. PICK u \in Slots : Busy(u, worker[s].job) /\ worker[u].at \in {"input", "writing"}
    BY <1>1, <1>2, <2>1 DEF DirectoriesAreFree
  <2>3. u = s
    BY <1>1, <2>2 DEF OneTurnEach, OneWorkerPerJob, Busy
  <2> QED BY <2>2, <2>3
<1>3. CASE worker[s].job \in Segments
  BY <1>1, <1>3 DEF DirectoriesAreFree, At
<1> QED BY <1>1, <1>2, <1>3 DEF Jobs

\* Such a tape is staged.
LEMMA StrangeIsOnDisk ==
  ASSUME IInv, NEW s \in Slots, worker[s].job \in Tapes, worker[s].job \in pdlinput
  PROVE  worker[s].job \in OnDisk /\ InputsExist(worker[s].job)
<1>1. worker[s].job \in OnDisk /\ worker[s].job \notin Segments
  BY CampaignAssumption DEF IInv, DirectoriesAreSeenTo
<1> QED BY <1>1 DEF InputsExist, Intermediates

LEMMA SkipIInv == ASSUME IInv, NEW s \in Slots, Skip(s) PROVE IInv'
<1>1. TypeOK /\ worker[s] # Idle /\ worker[s].job \in Jobs /\ worker[s].at = "started"
  BY JobOfWorker DEF IInv, Skip, At
<1>2. /\ worker' \in [Slots -> Work \cup {Idle}] /\ worker'[s] = Idle
      /\ \A t \in Slots \ {s} : worker'[t] = worker[t]
      /\ log' \in [Jobs -> {"", "OK", "FAIL", "skip", "missing"}]
      /\ log'[worker[s].job] = "skip"
      /\ \A k \in Jobs \ {worker[s].job} : log'[k] = log[k]
  BY <1>1, EndsAlone DEF Skip, Messages
<1>3. OnlyItsJob(s)
  BY <1>1, <1>2 DEF OnlyItsJob, Skip, Script, TypeOK
<1>4. SeesToItsJob(s)
  <2>1. UNCHANGED <<file, pdlinput, hurt>> /\ file[worker[s].job] # "absent"
    BY DEF Skip, Cached
  <2> QED BY <1>1, <1>2, <2>1, StrangeIsOnDisk DEF SeesToItsJob
<1> QED BY <1>3, <1>4, WorkerKeepsIInv

LEMMA MissingIInv == ASSUME IInv, NEW s \in Slots, Missing(s) PROVE IInv'
<1>1. TypeOK /\ worker[s] # Idle /\ worker[s].job \in Jobs /\ worker[s].at = "started"
  BY JobOfWorker DEF IInv, Missing, At
<1>2. /\ worker' \in [Slots -> Work \cup {Idle}] /\ worker'[s] = Idle
      /\ \A t \in Slots \ {s} : worker'[t] = worker[t]
      /\ log' \in [Jobs -> {"", "OK", "FAIL", "skip", "missing"}]
      /\ log'[worker[s].job] = "missing"
      /\ \A k \in Jobs \ {worker[s].job} : log'[k] = log[k]
  BY <1>1, EndsAlone DEF Missing, Messages
<1>3. OnlyItsJob(s)
  BY <1>1, <1>2 DEF OnlyItsJob, Missing, Script, TypeOK
<1>4. SeesToItsJob(s)
  <2>1. UNCHANGED <<file, pdlinput, hurt>> /\ ~InputsExist(worker[s].job)
    BY DEF Missing
  <2> QED BY <1>1, <1>2, <2>1, StrangeIsOnDisk DEF SeesToItsJob
<1> QED BY <1>3, <1>4, WorkerKeepsIInv

LEMMA PrepareIInv == ASSUME IInv, NEW s \in Slots, Prepare(s) PROVE IInv'
<1>1. TypeOK /\ worker[s] # Idle /\ worker[s].job \in Jobs /\ worker[s].at = "started"
  BY JobOfWorker DEF IInv, Prepare, At
<1>2. /\ worker' \in [Slots -> Work \cup {Idle}] /\ worker'[s] # Idle
      /\ worker'[s].job = worker[s].job /\ worker'[s].at = "ready"
      /\ \A t \in Slots \ {s} : worker'[t] = worker[t]
  <2>1. Advance(s, "ready") /\ "ready" \in Stages
    BY DEF Prepare, Stages
  <2>2. /\ worker' \in [Slots -> Work \cup {Idle}]
        /\ worker'[s] = [job |-> worker[s].job, at |-> "ready"] /\ worker'[s] # Idle
        /\ \A t \in Slots \ {s} : worker'[t] = worker[t]
    BY <1>1, <2>1, AdvancesAlone
  <2> QED BY <2>2
<1>3. log' = log
  BY DEF Prepare, Advance
<1>4. pdlinput' \in SUBSET pdlinput /\ (worker[s].job \in Segments => worker[s].job \notin pdlinput')
  BY DEF Prepare, MakeWorkDir
<1>5. OnlyItsJob(s)
  BY <1>1, <1>2, <1>3, <1>4 DEF OnlyItsJob, Prepare, Script, TypeOK
<1>6. file[worker[s].job] = "absent" /\ file' = file /\ InputsExist(worker[s].job)
  BY DEF Prepare, Cached
<1>7. SeesToItsJob(s)
  BY <1>1, <1>2, <1>3, <1>4, <1>6, StrangeIsOnDisk DEF SeesToItsJob
<1> QED BY <1>5, <1>7, WorkerKeepsIInv

LEMMA RecoFailsIInv == ASSUME IInv, NEW s \in Slots, RecoFails(s) PROVE IInv'
<1>1. TypeOK /\ worker[s] # Idle /\ worker[s].job \in Jobs
  BY JobOfWorker DEF IInv, RecoFails, At
<1>2. /\ worker' \in [Slots -> Work \cup {Idle}] /\ worker'[s] = Idle
      /\ \A t \in Slots \ {s} : worker'[t] = worker[t]
      /\ log' \in [Jobs -> {"", "OK", "FAIL", "skip", "missing"}]
      /\ log'[worker[s].job] = "FAIL"
      /\ \A k \in Jobs \ {worker[s].job} : log'[k] = log[k]
  BY <1>1, EndsAlone DEF RecoFails, Messages
<1>3. OnlyItsJob(s)
  BY <1>1, <1>2 DEF OnlyItsJob, RecoFails, RmWorkDir, Script, TypeOK
<1>4. SeesToItsJob(s)
  <2>1. /\ file' = file /\ worker[s].job \in hurt' /\ worker[s].job \notin pdlinput'
    BY DEF RecoFails, RmWorkDir
  <2> QED BY <1>1, <1>2, <2>1 DEF SeesToItsJob
<1> QED BY <1>3, <1>4, WorkerKeepsIInv

LEMMA RefusedIInv == ASSUME IInv, NEW s \in Slots, Refused(s) PROVE IInv'
<1>1. /\ TypeOK /\ worker[s] # Idle /\ worker[s].job \in Jobs /\ worker[s].at = "ready"
      /\ worker[s].job \in pdlinput
  BY JobOfWorker DEF IInv, Refused, At
<1>2. /\ worker' \in [Slots -> Work \cup {Idle}] /\ worker'[s] = Idle
      /\ \A t \in Slots \ {s} : worker'[t] = worker[t]
      /\ log' \in [Jobs -> {"", "OK", "FAIL", "skip", "missing"}]
      /\ log'[worker[s].job] = "FAIL"
      /\ \A k \in Jobs \ {worker[s].job} : log'[k] = log[k]
  BY <1>1, EndsAlone DEF Refused, Messages
<1>3. worker[s].job \in hurt
  BY <1>1, NoStrangePdlInput, JobOfWorker, CampaignAssumption
<1>4. OnlyItsJob(s)
  BY <1>1, <1>2 DEF OnlyItsJob, Refused, RmWorkDir, Script, TypeOK
<1>5. SeesToItsJob(s)
  BY <1>1, <1>2, <1>3 DEF SeesToItsJob, Refused, RmWorkDir
<1> QED BY <1>4, <1>5, WorkerKeepsIInv

LEMMA WritePdlInputIInv == ASSUME IInv, NEW s \in Slots, WritePdlInput(s) PROVE IInv'
<1>1. /\ TypeOK /\ worker[s] # Idle /\ worker[s].job \in Jobs /\ worker[s].at = "ready"
      /\ Advance(s, "input") /\ "input" \in Stages
  BY JobOfWorker DEF IInv, WritePdlInput, At, Stages
<1>2. /\ worker' \in [Slots -> Work \cup {Idle}]
      /\ worker'[s] = [job |-> worker[s].job, at |-> "input"] /\ worker'[s] # Idle
      /\ \A t \in Slots \ {s} : worker'[t] = worker[t]
      /\ log' = log
  BY <1>1, AdvancesAlone
<1>3. worker'[s].job = worker[s].job /\ worker'[s].at = "input"
  BY <1>2
<1>4. OnlyItsJob(s)
  BY <1>1, <1>2, <1>3 DEF OnlyItsJob, WritePdlInput, Script, TypeOK
<1>5. file[worker[s].job] = "absent" /\ file' = file /\ InputsExist(worker[s].job)
  BY <1>1 DEF IInv, WorkersOwnTheirFile, WritePdlInput
<1>6. SeesToItsJob(s)
  BY <1>1, <1>2, <1>3, <1>5 DEF SeesToItsJob, InputsExist
<1> QED BY <1>4, <1>6, WorkerKeepsIInv

LEMMA NoOutputIInv == ASSUME IInv, NEW s \in Slots, NoOutput(s) PROVE IInv'
<1>1. TypeOK /\ worker[s] # Idle /\ worker[s].job \in Jobs
  BY JobOfWorker DEF IInv, NoOutput, At
<1>2. /\ worker' \in [Slots -> Work \cup {Idle}] /\ worker'[s] = Idle
      /\ \A t \in Slots \ {s} : worker'[t] = worker[t]
      /\ log' \in [Jobs -> {"", "OK", "FAIL", "skip", "missing"}]
      /\ log'[worker[s].job] = "FAIL"
      /\ \A k \in Jobs \ {worker[s].job} : log'[k] = log[k]
  BY <1>1, EndsAlone DEF NoOutput, Messages
<1>3. OnlyItsJob(s)
  BY <1>1, <1>2 DEF OnlyItsJob, NoOutput, RmWorkDir, Script, TypeOK
<1>4. SeesToItsJob(s)
  <2>1. /\ file' = file /\ worker[s].job \in hurt' /\ worker[s].job \notin pdlinput'
    BY DEF NoOutput, RmWorkDir
  <2> QED BY <1>1, <1>2, <2>1 DEF SeesToItsJob
<1> QED BY <1>3, <1>4, WorkerKeepsIInv

LEMMA OpenOutputIInv == ASSUME IInv, NEW s \in Slots, OpenOutput(s) PROVE IInv'
<1>1. /\ TypeOK /\ worker[s] # Idle /\ worker[s].job \in Jobs /\ worker[s].at = "input"
      /\ Advance(s, "writing") /\ "writing" \in Stages
  BY JobOfWorker DEF IInv, OpenOutput, At, Stages
<1>2. /\ worker' \in [Slots -> Work \cup {Idle}]
      /\ worker'[s] = [job |-> worker[s].job, at |-> "writing"] /\ worker'[s] # Idle
      /\ \A t \in Slots \ {s} : worker'[t] = worker[t]
      /\ log' = log
  BY <1>1, AdvancesAlone
<1>3. worker'[s].job = worker[s].job /\ worker'[s].at = "writing"
  BY <1>2
<1>4. /\ file' \in [Jobs -> FileStates] /\ file'[worker[s].job] = "broken"
      /\ \A k \in Jobs \ {worker[s].job} : file'[k] = file[k]
  BY <1>1 DEF OpenOutput, TypeOK, FileStates
<1>5. OnlyItsJob(s)
  BY <1>1, <1>2, <1>3, <1>4 DEF OnlyItsJob, OpenOutput, Script, TypeOK
<1>6. file[worker[s].job] = "absent" /\ InputsExist(worker[s].job)
  BY <1>1 DEF IInv, WorkersOwnTheirFile
<1>7. SeesToItsJob(s)
  BY <1>1, <1>2, <1>3, <1>4, <1>6 DEF SeesToItsJob, InputsExist
<1> QED BY <1>5, <1>7, WorkerKeepsIInv

LEMMA SucceedsIInv == ASSUME IInv, NEW s \in Slots, Succeeds(s) PROVE IInv'
<1> DEFINE j == worker[s].job
<1>1. TypeOK /\ worker[s] # Idle /\ j \in Jobs /\ worker[s].at = "writing"
  BY JobOfWorker DEF IInv, Succeeds, At
<1>2. /\ worker' \in [Slots -> Work \cup {Idle}] /\ worker'[s] = Idle
      /\ \A t \in Slots \ {s} : worker'[t] = worker[t]
      /\ log' \in [Jobs -> {"", "OK", "FAIL", "skip", "missing"}]
      /\ log'[j] = "OK"
      /\ \A k \in Jobs \ {j} : log'[k] = log[k]
  BY <1>1, EndsAlone DEF Succeeds, Messages
<1>3. /\ file' \in [Jobs -> FileStates]
      /\ file'[j] = IF Complete(j) THEN "whole" ELSE "short"
      /\ \A k \in Jobs \ {j} : file'[k] = file[k]
  BY <1>1 DEF Succeeds, TypeOK, FileStates
<1>4. OnlyItsJob(s)
  BY <1>1, <1>2, <1>3 DEF OnlyItsJob, Succeeds, RmWorkDir, Script, TypeOK
<1>5. file[j] = "broken" /\ \A t \in Intermediates(j) : file[t] \notin {"absent", "broken"}
  BY <1>1 DEF IInv, WorkersOwnTheirFile, InputsExist, Succeeds, Readable
<1>6. j \in Segments /\ ~Complete(j) => \E t \in TapesOf[j] : file[t] = "short"
  <2> SUFFICES ASSUME j \in Segments, ~Complete(j) PROVE \E t \in TapesOf[j] : file[t] = "short"
    OBVIOUS
  <2>1. Intermediates(j) = TapesOf[j]
    BY DEF Intermediates
  <2>2. PICK t \in TapesOf[j] : file[t] # "whole"
    BY <2>1 DEF Complete
  <2>3. file[t] \in FileStates
    BY <1>1, <2>2, CampaignAssumption DEF TypeOK, Jobs
  <2> QED BY <1>5, <2>1, <2>2, <2>3 DEF FileStates
<1>7. j \notin pdlinput'
  BY DEF Succeeds, RmWorkDir
<1>8. SeesToItsJob(s)
  BY <1>1, <1>2, <1>3, <1>5, <1>6, <1>7 DEF SeesToItsJob, Complete, Intermediates
<1> QED BY <1>4, <1>8, WorkerKeepsIInv

LEMMA FailsIInv == ASSUME IInv, NEW s \in Slots, Fails(s) PROVE IInv'
<1> DEFINE j == worker[s].job
<1>1. TypeOK /\ worker[s] # Idle /\ j \in Jobs /\ worker[s].at = "writing"
  BY JobOfWorker DEF IInv, Fails, At
<1>2. /\ worker' \in [Slots -> Work \cup {Idle}] /\ worker'[s] = Idle
      /\ \A t \in Slots \ {s} : worker'[t] = worker[t]
      /\ log' \in [Jobs -> {"", "OK", "FAIL", "skip", "missing"}]
      /\ log'[j] = "FAIL"
      /\ \A k \in Jobs \ {j} : log'[k] = log[k]
  BY <1>1, EndsAlone DEF Fails, Messages
<1>3. /\ file' \in [Jobs -> FileStates] /\ file'[j] \in {"short", "broken"}
      /\ \A k \in Jobs \ {j} : file'[k] = file[k]
  BY <1>1 DEF Fails, TypeOK, FileStates
<1>4. OnlyItsJob(s)
  BY <1>1, <1>2, <1>3 DEF OnlyItsJob, Fails, RmWorkDir, Script, TypeOK
<1>5. file[j] = "broken"
  BY <1>1 DEF IInv, WorkersOwnTheirFile
<1>6. SeesToItsJob(s)
  <2>1. j \in hurt' /\ j \notin pdlinput'
    BY DEF Fails, RmWorkDir
  <2> QED BY <1>1, <1>2, <1>3, <1>5, <2>1 DEF SeesToItsJob
<1> QED BY <1>4, <1>6, WorkerKeepsIInv

\* The only step that takes from the queue.
LEMMA StartIInv == ASSUME IInv, NEW s \in Slots, Start(s) PROVE IInv'
<1> DEFINE j == Head(queue)
<1>1. /\ TypeOK /\ OneTurnEach /\ queue \in Seq(Jobs) /\ queue # <<>> /\ worker[s] = Idle
      /\ worker \in [Slots -> Work \cup {Idle}]
  BY DEF IInv, Start, TypeOK
<1>2. /\ Len(queue) \in Nat \ {0} /\ DOMAIN queue = 1 .. Len(queue)
      /\ j = queue[1] /\ j \in Jobs /\ queue' \in Seq(Jobs)
      /\ DOMAIN queue' = 1 .. Len(queue) - 1
      /\ \A i \in DOMAIN queue' : queue'[i] = queue[i + 1]
  <2>1. queue' = Tail(queue)
    BY DEF Start
  <2>2. Len(queue) \in Nat \ {0} /\ DOMAIN queue = 1 .. Len(queue) /\ j = queue[1]
    BY <1>1, EmptySeq, LenProperties
  <2>3. /\ j \in Jobs /\ queue' \in Seq(Jobs) /\ Len(queue') = Len(queue) - 1
        /\ \A i \in 1 .. Len(queue') : queue'[i] = queue[i + 1]
    BY <1>1, <2>1, HeadTailProperties
  <2>4. DOMAIN queue' = 1 .. Len(queue')
    BY <2>3, LenProperties
  <2> QED BY <2>2, <2>3, <2>4
<1> HIDE DEF j
<1>3. /\ [job |-> j, at |-> "started"] \in Work
      /\ worker' \in [Slots -> Work \cup {Idle}]
      /\ worker'[s] = [job |-> j, at |-> "started"] /\ worker'[s] # Idle
      /\ worker'[s].job = j /\ worker'[s].at = "started"
      /\ \A t \in Slots \ {s} : worker'[t] = worker[t]
  <2>1. [job |-> j, at |-> "started"] \in Work
    BY <1>2 DEF Work, Stages
  <2>2. worker' = [worker EXCEPT ![s] = [job |-> j, at |-> "started"]]
    BY DEF Start, j
  <2> QED BY <1>1, <2>1, <2>2, IdleAssumption
<1>4. UNCHANGED <<phase, invocations, file, pdlinput, log, hurt>>
  BY DEF Start, Script
<1>5. \A i \in DOMAIN queue' : i + 1 \in DOMAIN queue /\ queue'[i] = queue[i + 1] /\ queue'[i] \in Jobs
  BY <1>1, <1>2, ElementOfSeq
<1>6. \A t \in Slots, i \in DOMAIN queue : ~(worker[t] # Idle /\ worker[t].job = queue[i])
  BY <1>1 DEF OneTurnEach, Busy
<1>7. 1 \in DOMAIN queue /\ \A t \in Slots : worker[t] # Idle => worker[t].job # j
  BY <1>2, <1>6
<1>8. \A k \in Jobs : Pending(k)' <=> Pending(k)
  <2>1. ASSUME NEW k \in Jobs, Pending(k) PROVE Pending(k)'
    <3>1. CASE \E t \in Slots : Busy(t, k)
      BY <1>1, <1>3, <3>1 DEF Pending, Busy
    <3>2. ASSUME NEW i \in DOMAIN queue, queue[i] = k PROVE Pending(k)'
      <4>1. CASE i = 1
        BY <1>2, <1>3, <3>2, <4>1 DEF Pending, Busy
      <4>2. CASE i # 1
        <5>1. i - 1 \in DOMAIN queue' /\ queue'[i - 1] = k
          BY <1>2, <3>2, <4>2
        <5> QED BY <5>1 DEF Pending
      <4> QED BY <4>1, <4>2
    <3> QED BY <2>1, <3>1, <3>2 DEF Pending
  <2>2. ASSUME NEW k \in Jobs, Pending(k)' PROVE Pending(k)
    <3>1. CASE \E t \in Slots : Busy(t, k)'
      BY <1>1, <1>2, <1>3, <1>7, <3>1 DEF Pending, Busy
    <3>2. CASE \E i \in DOMAIN queue' : queue'[i] = k
      BY <1>5, <3>2 DEF Pending
    <3> QED BY <2>2, <3>1, <3>2 DEF Pending
  <2> QED BY <2>1, <2>2
<1>9. TypeOK'
  BY <1>1, <1>2, <1>3, <1>4 DEF TypeOK
<1>10. OneTurnEach'
  <2>1. \A i, k \in DOMAIN queue' : queue'[i] = queue'[k] => i = k
    <3> SUFFICES ASSUME NEW i \in DOMAIN queue', NEW k \in DOMAIN queue', queue'[i] = queue'[k]
                 PROVE  i = k
      OBVIOUS
    <3>1. i + 1 = k + 1
      BY <1>1, <1>5 DEF OneTurnEach
    <3> QED BY <3>1, <1>2
  <2>2. \A i \in DOMAIN queue', t \in Slots : ~(worker'[t] # Idle /\ worker'[t].job = queue'[i])
    <3> SUFFICES ASSUME NEW i \in DOMAIN queue', NEW t \in Slots,
                        worker'[t] # Idle, worker'[t].job = queue'[i]
                 PROVE  FALSE
      OBVIOUS
    <3>1. i \in Nat \ {0} /\ i + 1 \in DOMAIN queue /\ queue'[i] = queue[i + 1]
      BY <1>2, <1>5
    <3>2. CASE t = s
      <4>1. queue[1] = queue[i + 1]
        BY <1>2, <1>3, <3>1, <3>2
      <4>2. 1 = i + 1
        BY <1>1, <1>7, <3>1, <4>1 DEF OneTurnEach
      <4> QED BY <3>1, <4>2
    <3>3. CASE t # s
      BY <1>3, <1>6, <3>1, <3>3
    <3> QED BY <3>2, <3>3
  <2>3. OneWorkerPerJob'
    BY <1>1, <1>3, <1>7 DEF OneTurnEach, OneWorkerPerJob
  <2>4. \A k \in Jobs : Pending(k)' => k \in IF phase' = "A" THEN Needed ELSE Segments
    BY <1>1, <1>4, <1>8 DEF OneTurnEach
  <2>5. phase' \notin {"stopped", "done"}
    BY <1>1, <1>4 DEF OneTurnEach
  <2> QED BY <2>1, <2>2, <2>3, <2>4, <2>5 DEF OneTurnEach, Busy
<1>11. WorkersOwnTheirFile'
  <2> SUFFICES ASSUME NEW t \in Slots, worker'[t] # Idle, worker'[t].at # "started"
               PROVE  /\ file'[worker'[t].job] =
                           IF worker'[t].at = "writing" THEN "broken" ELSE "absent"
                      /\ worker'[t].job \in OnDisk
                      /\ \A u \in Intermediates(worker'[t].job) : file'[u] # "absent"
    BY DEF WorkersOwnTheirFile, Intermediates, InputsExist
  <2>1. worker'[t] = worker[t]
    BY <1>3
  <2> QED BY <1>4, <2>1 DEF IInv, WorkersOwnTheirFile, InputsExist
<1>12. OkIsFinalised' /\ OkIsAsGoodAsItsTapes'
  BY <1>4 DEF IInv, OkIsFinalised, OkIsAsGoodAsItsTapes
<1>13. NothingGivenUp'
  <2>1. \A k \in Jobs : InHand(k)' <=> InHand(k)
    BY <1>4, <1>8 DEF InHand
  <2>2. \A k \in Segments : k \in Jobs /\ \A t \in TapesOf[k] : t \in Jobs
    BY CampaignAssumption DEF Jobs
  <2> QED BY <1>4, <2>1, <2>2 DEF IInv, NothingGivenUp, HasInputs, Unhurt
<1>14. DirectoriesAreFree'
  <2>1. \A t \in Slots : At(t, "ready")' => worker'[t] = worker[t] /\ At(t, "ready")
    BY <1>3 DEF At
  <2>2. \A t \in Slots, k \in Jobs : Busy(t, k) => worker'[t] = worker[t] /\ Busy(t, k)'
    BY <1>1, <1>3 DEF Busy
  <2> QED BY <1>4, <2>1, <2>2 DEF IInv, DirectoriesAreFree, Jobs
<1>15. SoundUnlessHurt'
  <2>1. \A k \in Jobs : Writing(k) => Writing(k)'
    BY <1>1, <1>3 DEF Writing, Busy
  <2> QED BY <1>4, <2>1 DEF IInv, SoundUnlessHurt, Intermediates
<1>16. DirectoriesAreSeenTo'
  <2>1. \A k \in Tapes : InHand(k)' <=> InHand(k)
    BY <1>4, <1>8 DEF InHand, Jobs
  <2> QED BY <1>4, <2>1 DEF IInv, DirectoriesAreSeenTo
<1> QED BY <1>9, <1>10, <1>11, <1>12, <1>13, <1>14, <1>15, <1>16 DEF IInv

-----------------------------------------------------------------------------
(* The steps of the script.                                                 *)

\* What the two queues hold.
LEMMA QueuesOnce ==
  /\ AlRun \in Seq(Jobs)
  /\ \A i, k \in DOMAIN AlRun : AlRun[i] = AlRun[k] => i = k
  /\ \A i \in DOMAIN AlRun : AlRun[i] \in Needed
  /\ \A t \in Needed : \E i \in DOMAIN AlRun : AlRun[i] = t
  /\ Worklist \in Seq(Jobs)
  /\ \A i, k \in DOMAIN Worklist : Worklist[i] = Worklist[k] => i = k
  /\ \A i \in DOMAIN Worklist : Worklist[i] \in Segments
  /\ \A s \in Segments : \E i \in DOMAIN Worklist : Worklist[i] = s
<1>1. Needed \subseteq Tapes /\ Tapes \subseteq Jobs /\ Segments \subseteq Jobs
  BY NeededAreTapes DEF Jobs
<1>2. Needed \in SUBSET Jobs /\ Segments \in SUBSET Jobs /\ IsFiniteSet(Jobs)
  BY <1>1, CampaignAssumption
<1>3. AlRun = SetToSeq(Needed)
  BY DEF AlRun
<1>4. IsFiniteSet(Needed) /\ IsFiniteSet(Segments)
  BY <1>2, FS_Subset
<1>5. /\ AlRun \in Seq(Needed)
      /\ \A i, k \in DOMAIN AlRun : AlRun[i] = AlRun[k] => i = k
      /\ \A t \in Needed : \E i \in DOMAIN AlRun : AlRun[i] = t
  BY <1>3, <1>4, SetToSeqOnce
<1>6. /\ Worklist \in Seq(Segments)
      /\ \A i, k \in DOMAIN Worklist : Worklist[i] = Worklist[k] => i = k
      /\ \A s \in Segments : \E i \in DOMAIN Worklist : Worklist[i] = s
  BY <1>4, SetToSeqOnce DEF Worklist
<1>7. AlRun \in Seq(Jobs) /\ Worklist \in Seq(Jobs)
  BY <1>1, <1>2, <1>5, <1>6, SeqMonotonic
<1>8. /\ \A i \in DOMAIN AlRun : AlRun[i] \in Needed
      /\ \A i \in DOMAIN Worklist : Worklist[i] \in Segments
  BY <1>5, <1>6, LenProperties, ElementOfSeq
<1> QED BY <1>1, <1>5, <1>6, <1>7, <1>8

LEMMA EmptyDomain == DOMAIN <<>> = {}
<1>1. <<>> \in Seq(Jobs) /\ Len(<<>>) = 0
  BY EmptySeq
<1>2. DOMAIN <<>> = 1 .. 0
  BY <1>1, LenProperties
<1> QED BY <1>2

\* With no worker, OneTurnEach is about the queue alone.
LEMMA NewQueue ==
  ASSUME worker' = AllIdle,
         \A i, k \in DOMAIN queue' : queue'[i] = queue'[k] => i = k,
         \A i \in DOMAIN queue' : queue'[i] \in IF phase' = "A" THEN Needed ELSE Segments,
         phase' \in {"stopped", "done"} => queue' = <<>>
  PROVE  OneTurnEach'
<1>1. \A s \in Slots : worker'[s] = Idle
  BY DEF AllIdle
<1> QED BY <1>1 DEF OneTurnEach, OneWorkerPerJob, Busy, Pending, AllIdle

LEMMA InitIInv == Init => IInv
<1> SUFFICES ASSUME Init PROVE IInv
  OBVIOUS
<1>1. \A s \in Slots : worker[s] = Idle
  BY DEF Init, AllIdle
<1>2. TypeOK
  <2>1. queue \in Seq(Jobs) /\ worker \in [Slots -> Work \cup {Idle}]
    BY EmptySeq DEF Init, AllIdle
  <2> QED BY <2>1 DEF Init, TypeOK, Phases, FileStates
<1>3. OneTurnEach
  <2>1. queue = <<>> /\ DOMAIN queue = {}
    BY EmptyDomain DEF Init
  <2> QED BY <1>1, <2>1 DEF Init, OneTurnEach, OneWorkerPerJob, Busy, Pending
<1>4. WorkersOwnTheirFile /\ DirectoriesAreFree /\ DirectoriesAreSeenTo
  BY <1>1 DEF Init, WorkersOwnTheirFile, DirectoriesAreFree, DirectoriesAreSeenTo, At
<1>5. OkIsFinalised /\ OkIsAsGoodAsItsTapes /\ NothingGivenUp /\ SoundUnlessHurt
  BY DEF Init, OkIsFinalised, OkIsAsGoodAsItsTapes, NothingGivenUp, SoundUnlessHurt, Jobs
<1> QED BY <1>2, <1>3, <1>4, <1>5 DEF IInv

LEMMA InvokeIInv == ASSUME IInv, Invoke PROVE IInv'
<1>1. /\ TypeOK /\ OneTurnEach /\ phase \in {"stopped", "done"} /\ phase' = "A"
      /\ queue' = AlRun /\ log' = [j \in Jobs |-> ""]
      /\ hurt' = LeftOver
      /\ UNCHANGED <<worker, file, pdlinput>> /\ invocations' = invocations + 1
  BY DEF IInv, Invoke
<1>2. worker' = AllIdle /\ worker = AllIdle /\ \A s \in Slots : worker'[s] = Idle
  BY <1>1 DEF OneTurnEach, AllIdle
<1>3. TypeOK'
  <2>1. queue' \in Seq(Jobs) /\ log' \in [Jobs -> {"", "OK", "FAIL", "skip", "missing"}]
    BY <1>1, QueuesOnce
  <2>2. invocations' \in Nat
    <3>1. invocations \in Nat /\ invocations' = invocations + 1
      BY <1>1 DEF TypeOK
    <3> QED BY <3>1
  <2>3. hurt' \in SUBSET Jobs
    BY <1>1 DEF LeftOver, TypeOK
  <2> QED BY <1>1, <2>1, <2>2, <2>3 DEF TypeOK, Phases
<1>4. OneTurnEach'
  BY <1>1, <1>2, QueuesOnce, NewQueue
<1>5. WorkersOwnTheirFile' /\ DirectoriesAreFree'
  BY <1>1, <1>2 DEF WorkersOwnTheirFile, DirectoriesAreFree, LeftOver, At
<1>6. OkIsFinalised' /\ OkIsAsGoodAsItsTapes'
  BY <1>1 DEF OkIsFinalised, OkIsAsGoodAsItsTapes, Jobs
<1>7. \A t \in Needed : InHand(t)'
  BY <1>1, QueuesOnce DEF InHand, Pending
<1>8. NothingGivenUp' /\ DirectoriesAreSeenTo'
  BY <1>1, <1>7, NeededAreTapes DEF IInv, NothingGivenUp, DirectoriesAreSeenTo
<1>9. SoundUnlessHurt'
  BY <1>1 DEF SoundUnlessHurt, LeftOver
<1> QED BY <1>3, <1>4, <1>5, <1>6, <1>8, <1>9 DEF IInv

LEMMA PhaseEndsIInv == ASSUME IInv, PhaseEnds PROVE IInv'
<1>1. /\ TypeOK /\ OneTurnEach /\ queue = <<>> /\ worker = AllIdle /\ worker' = AllIdle
      /\ \/ phase = "A" /\ phase' = "B" /\ queue' = Worklist
         \/ phase = "B" /\ phase' = "done" /\ queue' = <<>>
      /\ UNCHANGED <<file, pdlinput, log, invocations, hurt>>
  BY DEF IInv, PhaseEnds
<1>2. \A s \in Slots : worker'[s] = Idle /\ worker[s] = Idle
  BY <1>1 DEF AllIdle
<1>3. \A j \in Jobs : ~Pending(j)
  BY <1>1, <1>2 DEF Pending, Busy
<1>4. TypeOK'
  <2>1. queue' \in Seq(Jobs)
    <3>1. Worklist \in Seq(Jobs) /\ <<>> \in Seq(Jobs)
      BY QueuesOnce, EmptySeq
    <3> QED BY <1>1, <3>1
  <2> QED BY <1>1, <2>1 DEF TypeOK, Phases
<1>5. OneTurnEach'
  BY <1>1, QueuesOnce, NewQueue
<1>6. WorkersOwnTheirFile' /\ DirectoriesAreFree'
  BY <1>1, <1>2 DEF WorkersOwnTheirFile, DirectoriesAreFree, At
<1>7. OkIsFinalised' /\ OkIsAsGoodAsItsTapes'
  BY <1>1 DEF IInv, OkIsFinalised, OkIsAsGoodAsItsTapes
<1>8. \A j \in Jobs : InHand(j) => InHand(j)'
  BY <1>1, <1>3 DEF InHand
<1>9. NothingGivenUp'
  <2> SUFFICES /\ \A s \in Segments : \A t \in (TapesOf[s] \cap OnDisk) \ hurt : InHand(t)'
               /\ \A s \in Segments : HasInputs(s) /\ Unhurt(s) => InHand(s)'
    BY <1>1 DEF NothingGivenUp, HasInputs, Unhurt
  <2>1. \A s \in Segments : \A t \in (TapesOf[s] \cap OnDisk) \ hurt : InHand(t)'
    BY <1>1, <1>8, CampaignAssumption DEF IInv, NothingGivenUp, Jobs
  <2>2. CASE phase = "A"
    BY <1>1, <2>1, <2>2, QueuesOnce DEF InHand, Pending
  <2>3. CASE phase = "B"
    BY <1>1, <1>8, <2>1, <2>3 DEF IInv, NothingGivenUp, Jobs
  <2> QED BY <1>1, <2>2, <2>3
<1>10. DirectoriesAreSeenTo'
  BY <1>1, <1>8 DEF IInv, DirectoriesAreSeenTo, Jobs
<1>11. SoundUnlessHurt'
  <2>1. \A j \in Jobs : ~Writing(j)
    BY <1>2 DEF Writing, Busy
  <2> QED BY <1>1, <2>1 DEF IInv, SoundUnlessHurt, Intermediates
<1> QED BY <1>4, <1>5, <1>6, <1>7, <1>9, <1>10, <1>11 DEF IInv

LEMMA InterruptIInv == ASSUME IInv, Interrupt PROVE IInv'
<1>1. /\ TypeOK /\ phase' = "stopped" /\ queue' = <<>> /\ worker' = AllIdle
      /\ UNCHANGED <<file, pdlinput, log, invocations, hurt>>
  BY DEF IInv, Interrupt
<1>2. \A s \in Slots : worker'[s] = Idle
  BY <1>1 DEF AllIdle
<1>3. TypeOK'
  <2>1. queue' \in Seq(Jobs) /\ worker' \in [Slots -> Work \cup {Idle}]
    BY <1>1, EmptySeq DEF AllIdle
  <2>2. invocations' \in Nat
    BY DEF Interrupt, IInv, TypeOK
  <2> QED BY <1>1, <2>1, <2>2 DEF TypeOK, Phases
<1>4. OneTurnEach'
  BY <1>1, NewQueue
<1>5. WorkersOwnTheirFile' /\ DirectoriesAreFree' /\ NothingGivenUp' /\ SoundUnlessHurt'
  BY <1>1, <1>2 DEF WorkersOwnTheirFile, DirectoriesAreFree, NothingGivenUp, SoundUnlessHurt, At
<1>6. OkIsFinalised' /\ OkIsAsGoodAsItsTapes'
  BY <1>1 DEF IInv, OkIsFinalised, OkIsAsGoodAsItsTapes
<1>7. DirectoriesAreSeenTo'
  BY <1>1 DEF IInv, DirectoriesAreSeenTo
<1> QED BY <1>3, <1>4, <1>5, <1>6, <1>7 DEF IInv

-----------------------------------------------------------------------------
(* The theorems.                                                            *)

LEMMA NextIInv == IInv /\ [Next]_vars => IInv'
<1> SUFFICES ASSUME IInv, [Next]_vars PROVE IInv'
  OBVIOUS
<1>1. CASE Invoke
  BY <1>1, InvokeIInv
<1>2. CASE PhaseEnds
  BY <1>2, PhaseEndsIInv
<1>3. CASE Interrupt
  BY <1>3, InterruptIInv
<1>4. ASSUME NEW s \in Slots, Worker(s) PROVE IInv'
  BY <1>4, StartIInv, SkipIInv, MissingIInv, PrepareIInv, RecoFailsIInv, RefusedIInv,
     WritePdlInputIInv, NoOutputIInv, OpenOutputIInv, SucceedsIInv, FailsIInv DEF Worker
<1>5. CASE UNCHANGED vars
  <2>1. UNCHANGED <<phase, queue, worker, file, pdlinput, log, invocations, hurt>>
    BY <1>5 DEF vars
  <2>2. TypeOK' /\ OneTurnEach'
    BY <2>1 DEF IInv, TypeOK, OneTurnEach, OneWorkerPerJob, Busy, Pending
  <2>3. WorkersOwnTheirFile' /\ OkIsFinalised' /\ OkIsAsGoodAsItsTapes'
    BY <2>1 DEF IInv, WorkersOwnTheirFile, OkIsFinalised, OkIsAsGoodAsItsTapes, InputsExist,
                Intermediates
  <2>4. \A j : InHand(j)' <=> InHand(j)
    BY <2>1 DEF InHand, Pending, Busy
  <2>5. NothingGivenUp' /\ DirectoriesAreFree'
    BY <2>1, <2>4 DEF IInv, NothingGivenUp, DirectoriesAreFree, At, Busy, HasInputs, Unhurt
  <2>6. SoundUnlessHurt' /\ DirectoriesAreSeenTo'
    BY <2>1, <2>4 DEF IInv, SoundUnlessHurt, DirectoriesAreSeenTo, Writing, Busy, Intermediates
  <2> QED BY <2>2, <2>3, <2>5, <2>6 DEF IInv
<1> QED BY <1>1, <1>2, <1>3, <1>4, <1>5 DEF Next

(***************************************************************************)
(* The invariant holds throughout, for every worklist and staging, any     *)
(* number of workers and any sequence of failures and interrupts.          *)
(***************************************************************************)
THEOREM CampaignInvariance == Spec => []IInv
BY InitIInv, NextIInv, PTL DEF Spec

(***************************************************************************)
(* 31 and 75: no two workers of xargs are ever on the same job.            *)
(***************************************************************************)
THEOREM JobsAreExclusive == Spec => []OneWorkerPerJob
<1>1. IInv => OneWorkerPerJob
  BY DEF IInv, OneTurnEach
<1> QED BY <1>1, CampaignInvariance, PTL

(***************************************************************************)
(* 61-69: a product reported OK that lacks events has an intermediate that *)
(* lacks some.                                                             *)
(***************************************************************************)
THEOREM OkIsHonest == Spec => []OkIsAsGoodAsItsTapes
<1>1. IInv => OkIsAsGoodAsItsTapes
  BY DEF IInv
<1> QED BY <1>1, CampaignInvariance, PTL

\* When an invocation is over, what is in hand is there.
LEMMA DoneIsThere ==
  ASSUME IInv, phase = "done", NEW j \in Jobs
  PROVE  /\ InHand(j) => file[j] # "absent"
         /\ ~Writing(j)
<1>1. queue = <<>> /\ worker = AllIdle
  BY DEF IInv, OneTurnEach
<1> QED BY <1>1 DEF InHand, Pending, Writing, Busy, AllIdle

\* A tape with a PDLINPUT in its directory has been looked at and has a file.
LEMMA DoneIsUnblocked ==
  ASSUME IInv, phase = "done"
  PROVE  NextIsUnblocked
<1> SUFFICES ASSUME NEW t \in Tapes \cap pdlinput PROVE file[t] # "absent"
  BY DEF NextIsUnblocked
<1>1. t \in Jobs /\ InHand(t)
  BY DEF IInv, DirectoriesAreSeenTo, Jobs
<1> QED BY <1>1, DoneIsThere

(***************************************************************************)
(* "Resumable": whatever earlier invocations left and whatever fails in    *)
(* this one, a segment is completed that has its inputs and no partial     *)
(* file, leftover PDLINPUT or failure of its own or of one of its tapes;   *)
(* and no PDLINPUT is left in the way of a conversion still to be made.    *)
(***************************************************************************)
THEOREM ResumingCompletes == Spec => []ResumeCompletes
<1>1. ASSUME IInv, phase = "done" PROVE CompletesTheUnhurt
  <2> SUFFICES ASSUME NEW s \in Segments, HasInputs(s), Unhurt(s)
               PROVE  file[s] = "whole"
    BY DEF CompletesTheUnhurt
  <2>1. s \in Jobs /\ InHand(s)
    BY <1>1 DEF IInv, NothingGivenUp, Jobs
  <2>2. file[s] # "absent" /\ ~Writing(s)
    BY <1>1, <2>1, DoneIsThere
  <2>3. ({s} \cup Intermediates(s)) \cap hurt = {}
    BY DEF Unhurt, Intermediates
  <2>4. file[s] \notin {"broken", "short"}
    BY <1>1, <2>1, <2>2, <2>3 DEF IInv, SoundUnlessHurt
  <2> QED BY <1>1, <2>1, <2>2, <2>4 DEF IInv, TypeOK, FileStates
<1>2. IInv => ResumeCompletes
  BY <1>1, DoneIsUnblocked DEF ResumeCompletes
<1> QED BY <1>2, CampaignInvariance, PTL

\* A file is opened only where there was none, and finalised by who opened it.
LEMMA WholeStays ==
  ASSUME IInv, [Next]_vars, NEW j \in Jobs, file[j] = "whole"
  PROVE  file'[j] = "whole"
<1>1. TypeOK /\ WorkersOwnTheirFile
  BY DEF IInv
<1>2. ASSUME NEW s \in Slots, OpenOutput(s) \/ Succeeds(s) \/ Fails(s)
      PROVE  file'[j] = file[j]
  <2>1. worker[s] # Idle /\ worker[s].at \in {"input", "writing"}
    BY <1>2 DEF OpenOutput, Succeeds, Fails, At
  <2>2. file[worker[s].job] \in {"absent", "broken"}
    BY <1>1, <2>1 DEF WorkersOwnTheirFile
  <2>3. worker[s].job # j
    BY <2>2
  <2> QED BY <1>1, <1>2, <2>3 DEF OpenOutput, Succeeds, Fails, TypeOK
<1>3. ASSUME NEW s \in Slots, Worker(s) PROVE file'[j] = file[j]
  BY <1>2, <1>3 DEF Worker, Start, Skip, Missing, Prepare, RecoFails, Refused,
     WritePdlInput, NoOutput
<1>4. Invoke \/ PhaseEnds \/ Interrupt \/ UNCHANGED vars => file' = file
  BY DEF Invoke, PhaseEnds, Interrupt, vars
<1> QED BY <1>3, <1>4 DEF Next

(***************************************************************************)
(* 36 and 60: a complete intermediate or product is never written again.   *)
(***************************************************************************)
THEOREM CompleteFilesStay == Spec => WholeIsKept
<1>1. IInv /\ [Next]_vars =>
        [\A j \in Jobs : file[j] = "whole" => file'[j] = "whole"]_vars
  BY WholeStays
<1> QED BY <1>1, CampaignInvariance, PTL DEF Spec, WholeIsKept
=============================================================================
