---------------------------- MODULE PdlInput_proofs ----------------------------
(***************************************************************************)
(* The three properties of PdlInput for any number of jobs and process     *)
(* ids.  The strengthening follows one job: what it has left in the        *)
(* directory at each place of run() whoever else is there, and, as long as *)
(* nobody else is, what it finds there.                                    *)
(***************************************************************************)
EXTENDS PdlInput, TLAPS

\* A job has a process id, and an open file, when it needs one.
Equipped ==
  /\ \A j \in Jobs : pc[j] # "out" => pid[j] \in Pids
  /\ \A j \in Jobs : pc[j] = "close" => stream[j] \in Writers
  /\ \A w \in Writers : \A i \in DOMAIN text[w] :
       text[w][i] \in Jobs => pc[text[w][i]] # "out"

\* The link of a job exists while the destructor knows of it.
LinkIsKnown ==
  \A j \in Jobs, p \in Pids : link[p] = j =>
    /\ pid[j] = p /\ cleanup[j]
    /\ pc[j] \in {"open", "close", "read", "loop", "remove", "unlink", "dead"}

\* A PDLINPUT a job created is one the destructor removes, or a copy.
FileIsKnown ==
  \A j \in Jobs : name = j =>
    /\ pc[j] \in {"close", "read", "loop", "remove", "unlink", "returned", "dead"}
    /\ remove[j] \/ mode[j] = "Pdl"
    /\ pc[j] \in {"unlink", "returned"} => ~remove[j]

\* Two jobs inside are in each other's way.
Apart ==
  \A j, k \in Jobs : Inside(j) /\ Inside(k) /\ j # k => shared[j]

\* What a job finds as long as nobody else is there.
FindsItsOwn ==
  \A j \in Jobs : Inside(j) /\ ~shared[j] =>
    /\ name \in {None, j}
    /\ pc[j] \in {"link", "open"} => name = None
    /\ pc[j] = "close" => name = j /\ stream[j] = j /\ text[j] = <<>>
    /\ pc[j] = "read" => name = j /\ text[j] = <<j>>
    /\ pc[j] \in {"open", "close", "read"} /\ mode[j] = "File" => link[pid[j]] = j
    /\ pc[j] = "loop" => read[j] = j

IInv == TypeOK /\ Equipped /\ LinkIsKnown /\ FileIsKnown /\ Apart /\ FindsItsOwn

-----------------------------------------------------------------------------
LEMMA InitIInv == ASSUME Init PROVE IInv
  <1> USE PdlAssumption DEF Init, Writers
  <1>1. TypeOK
    <2>1. <<>> \in Seq(Writers) /\ <<User>> \in Seq(Writers)
      OBVIOUS
    <2>2. text \in [Writers -> Seq(Writers)]
      BY <2>1
    <2>3. QED
      BY <2>2 DEF TypeOK, Control
  <1>2. Equipped
    <2>1. \A w \in Writers : \A i \in DOMAIN text[w] : text[w][i] = User
      <3> SUFFICES ASSUME NEW w \in Writers, NEW i \in DOMAIN text[w]
                   PROVE  text[w][i] = User
        OBVIOUS
      <3>1. CASE w = User
        BY <3>1
      <3>2. CASE w # User
        <4>1. DOMAIN text[w] = {}
          BY <3>2
        <4>2. QED
          BY <4>1
      <3>3. QED
        BY <3>1, <3>2
    <2>2. QED
      BY <2>1 DEF Equipped
  <1>3. LinkIsKnown /\ FileIsKnown
    BY DEF LinkIsKnown, FileIsKnown
  <1>4. Apart /\ FindsItsOwn
    BY DEF Apart, FindsItsOwn, Inside, Working
  <1>5. QED
    BY <1>1, <1>2, <1>3, <1>4 DEF IInv

\* Steps of the job itself that leave the directory alone.
LEMMA LaunchKeeps ==
  ASSUME NEW j \in Jobs, NEW p \in Pids, Launch(j, p), IInv
  PROVE  IInv'
  <1> USE PdlAssumption DEF Launch, Goto, directory, Writers
  <1>1. TypeOK'
    BY DEF IInv, TypeOK, Control
  <1>2. Equipped'
    BY DEF IInv, TypeOK, Equipped
  <1>3. LinkIsKnown' /\ FileIsKnown'
    BY DEF IInv, TypeOK, LinkIsKnown, FileIsKnown
  <1>4. Apart' /\ FindsItsOwn'
    BY DEF IInv, TypeOK, Apart, FindsItsOwn, Inside, Working
  <1>5. QED
    BY <1>1, <1>2, <1>3, <1>4 DEF IInv

LEMMA InspectKeeps ==
  ASSUME NEW j \in Jobs, Inspect(j), IInv
  PROVE  IInv'
  <1> USE PdlAssumption DEF Inspect, Inspects, Enter, Goto, directory, locals, Writers
  <1>1. TypeOK'
    BY DEF IInv, TypeOK, Control, Inside
  <1>2. Equipped'
    BY DEF IInv, TypeOK, Equipped
  <1>3. LinkIsKnown' /\ FileIsKnown'
    BY DEF IInv, TypeOK, LinkIsKnown, FileIsKnown
  <1>4. Apart'
    BY DEF IInv, TypeOK, Apart, Inside, Working
  <1>5. FindsItsOwn'
    BY DEF IInv, TypeOK, FindsItsOwn, Apart, Inside, Working
  <1>6. QED
    BY <1>1, <1>2, <1>3, <1>4, <1>5 DEF IInv

LEMMA MakeLinkKeeps ==
  ASSUME NEW j \in Jobs, MakeLink(j), IInv
  PROVE  IInv'
  <1> USE PdlAssumption DEF MakeLink, LinkIsFree, Goto, Writers
  <1>1. TypeOK'
    BY DEF IInv, TypeOK, Control
  <1>2. Equipped'
    BY DEF IInv, TypeOK, Equipped
  <1>3. LinkIsKnown'
    BY DEF IInv, TypeOK, Equipped, LinkIsKnown
  <1>4. FileIsKnown'
    BY DEF IInv, TypeOK, FileIsKnown
  <1>5. Apart'
    BY DEF IInv, TypeOK, Apart, Inside, Working
  <1>6. FindsItsOwn'
    BY DEF IInv, TypeOK, Equipped, FindsItsOwn, Apart, Inside, Working
  <1>7. QED
    BY <1>1, <1>2, <1>3, <1>4, <1>5, <1>6 DEF IInv

LEMMA CreateKeeps ==
  ASSUME NEW j \in Jobs, Create(j), IInv
  PROVE  IInv'
  <1> USE PdlAssumption DEF Goto, Writers
  <1> DEFINE file == IF name = None THEN j ELSE name
  <1>1. file \in Writers
    BY DEF IInv, TypeOK
  <1>2. /\ pc[j] = "open" /\ pc' = [pc EXCEPT ![j] = "close"]
        /\ name' = file /\ text' = [text EXCEPT ![file] = <<>>]
        /\ stream' = [stream EXCEPT ![j] = file]
        /\ remove' = [remove EXCEPT ![j] = (mode[j] # "Pdl")]
        /\ UNCHANGED <<link, mode, pid, cleanup, read, shared>>
    BY DEF Create
  <1> HIDE DEF file
  <1>3. TypeOK'
    <2>1. <<>> \in Seq(Jobs \cup {User})
      OBVIOUS
    <2>2. QED
      BY <1>1, <1>2, <2>1 DEF IInv, TypeOK, Control
  <1>4. Equipped'
    <2>1. \A w \in Writers : \A i \in DOMAIN text'[w] :
            i \in DOMAIN text[w] /\ text'[w][i] = text[w][i]
      BY <1>1, <1>2 DEF IInv, TypeOK
    <2>2. QED
      BY <1>1, <1>2, <2>1 DEF IInv, TypeOK, Equipped
  <1>5. LinkIsKnown'
    BY <1>2 DEF IInv, TypeOK, LinkIsKnown
  <1>6. FileIsKnown'
    BY <1>2 DEF IInv, TypeOK, FileIsKnown, file
  <1>7. Apart'
    BY <1>2 DEF IInv, TypeOK, Apart, Inside, Working
  <1>8. FindsItsOwn'
    <2> SUFFICES ASSUME NEW k \in Jobs, Inside(k)', ~shared'[k]
                 PROVE  FindsItsOwn!(k)!2'
      BY DEF FindsItsOwn
    <2>1. Inside(k) /\ Inside(j) /\ k = j
      BY <1>2 DEF IInv, TypeOK, Apart, Inside, Working
    <2>2. name = None /\ file = j
      BY <1>2, <2>1 DEF IInv, TypeOK, FindsItsOwn, file
    <2>3. QED
      BY <1>2, <2>1, <2>2 DEF IInv, TypeOK, FindsItsOwn
  <1>9. QED
    BY <1>3, <1>4, <1>5, <1>6, <1>7, <1>8 DEF IInv

LEMMA WriteKeeps ==
  ASSUME NEW j \in Jobs, Write(j), IInv
  PROVE  IInv'
  <1> USE PdlAssumption DEF Goto
  <1> DEFINE file == stream[j]
  <1>1. file \in Writers /\ text[file] \in Seq(Writers) /\ pc[j] = "close"
    BY DEF IInv, TypeOK, Equipped, Write
  <1>2. /\ pc' = [pc EXCEPT ![j] = "read"]
        /\ text' = [text EXCEPT ![file] = Append(text[file], j)]
        /\ stream' = [stream EXCEPT ![j] = None]
        /\ remove' = [remove EXCEPT ![j] = TRUE]
        /\ UNCHANGED <<name, link, mode, pid, cleanup, read, shared>>
    BY DEF Write
  <1>3. Append(text[file], j) \in Seq(Writers)
    BY <1>1 DEF Writers
  <1>4. TypeOK'
    BY <1>1, <1>2, <1>3 DEF IInv, TypeOK, Control, Writers
  <1>5. Equipped'
    <2>1. \A w \in Writers : \A i \in DOMAIN text'[w] :
            text'[w][i] = j \/ (i \in DOMAIN text[w] /\ text'[w][i] = text[w][i])
      BY <1>1, <1>2, <1>3 DEF IInv, TypeOK
    <2>2. \A w \in Writers : \A i \in DOMAIN text'[w] :
            text'[w][i] \in Jobs => pc'[text'[w][i]] # "out"
      BY <1>2, <2>1 DEF IInv, TypeOK, Equipped
    <2>3. QED
      BY <1>1, <1>2, <2>2 DEF IInv, TypeOK, Equipped, Writers
  <1>6. LinkIsKnown'
    BY <1>1, <1>2 DEF IInv, TypeOK, LinkIsKnown
  <1>7. FileIsKnown'
    BY <1>1, <1>2 DEF IInv, TypeOK, FileIsKnown
  <1>8. Apart'
    BY <1>1, <1>2 DEF IInv, TypeOK, Apart, Inside, Working
  <1>9. FindsItsOwn'
    <2> SUFFICES ASSUME NEW k \in Jobs, Inside(k)', ~shared'[k]
                 PROVE  FindsItsOwn!(k)!2'
      BY DEF FindsItsOwn
    <2>1. Inside(k) /\ Inside(j) /\ k = j
      BY <1>1, <1>2 DEF IInv, TypeOK, Apart, Inside, Working
    <2>2. name = j /\ file = j /\ text[j] = <<>>
      BY <1>1, <1>2, <2>1 DEF IInv, TypeOK, FindsItsOwn
    <2>3. text'[j] = <<j>>
      BY <1>1, <1>2, <2>2 DEF IInv, TypeOK
    <2>4. QED
      BY <1>1, <1>2, <2>1, <2>2, <2>3 DEF IInv, TypeOK, FindsItsOwn
  <1>10. QED
    BY <1>4, <1>5, <1>6, <1>7, <1>8, <1>9 DEF IInv

\* Ways out that leave directory, flags and histories alone.
LEMMA LeavingKeeps ==
  ASSUME NEW j \in Jobs, IInv, UNCHANGED <<directory, mode, pid, remove, cleanup, read, shared>>,
         \/ /\ pc[j] = "inspect" /\ pc' = [pc EXCEPT ![j] = "returned"]
         \/ /\ Inside(j) /\ pc[j] \notin {"remove", "unlink"}
            /\ pc' = [pc EXCEPT ![j] = "remove"]
         \/ /\ Alive(j) /\ pc' = [pc EXCEPT ![j] = "dead"],
         stream' = stream \/ stream' = [stream EXCEPT ![j] = None]
  PROVE  IInv'
  <1>1. PICK to \in {"returned", "remove", "dead"} :
          /\ pc' = [pc EXCEPT ![j] = to]
          /\ pc[j] # "out"
          /\ to = "returned" => pc[j] = "inspect"
          /\ to = "remove" => pc[j] \in {"link", "open", "close", "read", "loop"}
          /\ to = "dead" => pc[j] = "inspect" \/ pc[j] \in Working
    BY DEF Inside, Working, Alive
  <1>2. \A k \in Jobs : k # j => stream'[k] = stream[k] /\ pc'[k] = pc[k]
    BY <1>1 DEF IInv, TypeOK
  <1>3. pc'[j] = to
    BY <1>1 DEF IInv, TypeOK
  <1>4. TypeOK'
    BY <1>1, PdlAssumption DEF IInv, TypeOK, Control, directory
  <1>5. Equipped'
    BY <1>1, <1>2, <1>3 DEF IInv, TypeOK, Equipped, directory
  <1>6. LinkIsKnown'
    BY <1>1, <1>2, <1>3 DEF IInv, TypeOK, LinkIsKnown, directory, Working
  <1>7. FileIsKnown'
    BY <1>1, <1>2, <1>3 DEF IInv, TypeOK, FileIsKnown, directory, Working
  <1>8. Apart'
    BY <1>1, <1>2, <1>3 DEF IInv, TypeOK, Apart, Inside, Working
  <1>9. FindsItsOwn'
    BY <1>1, <1>2, <1>3 DEF IInv, TypeOK, FindsItsOwn, Inside, Working, directory
  <1>10. QED
    BY <1>4, <1>5, <1>6, <1>7, <1>8, <1>9 DEF IInv

LEMMA ReadsKeeps ==
  ASSUME NEW j \in Jobs, PhdstReads(j), IInv
  PROVE  IInv'
  <1> USE PdlAssumption DEF PhdstReads, Goto, directory
  <1>1. Sources \subseteq Writers \cup {None}
    <2>1. ASSUME name \in Writers, NEW i \in DOMAIN text[name]
          PROVE  Source(text[name][i]) \in Writers \cup {None}
      <3>1. text[name][i] \in Writers
        BY <2>1 DEF IInv, TypeOK
      <3>2. text[name][i] \in Jobs => pid[text[name][i]] \in Pids
        BY <2>1, <3>1 DEF IInv, TypeOK, Equipped
      <3>3. QED
        BY <3>1, <3>2 DEF IInv, TypeOK, Source, Writers
    <2>2. QED
      BY <2>1 DEF IInv, TypeOK, Sources
  <1>2. PICK s \in Sources : read' = [read EXCEPT ![j] = s]
    OBVIOUS
  <1>3. TypeOK'
    BY <1>1, <1>2 DEF IInv, TypeOK, Control
  <1>4. Equipped'
    BY DEF IInv, TypeOK, Equipped
  <1>5. LinkIsKnown' /\ FileIsKnown'
    BY DEF IInv, TypeOK, LinkIsKnown, FileIsKnown
  <1>6. Apart'
    BY DEF IInv, TypeOK, Apart, Inside, Working
  <1>7. FindsItsOwn'
    <2> SUFFICES ASSUME NEW k \in Jobs, Inside(k)', ~shared'[k]
                 PROVE  FindsItsOwn!(k)!2'
      BY DEF FindsItsOwn
    <2>1. Inside(k) /\ Inside(j) /\ k = j
      BY DEF IInv, TypeOK, Apart, Inside, Working
    <2>2. name = j /\ text[j] = <<j>> /\ (mode[j] = "File" => link[pid[j]] = j)
      BY <2>1 DEF IInv, TypeOK, FindsItsOwn
    <2>3. Sources = {j}
      <3>1. \A i \in DOMAIN text[name] : text[name][i] = j
        BY <2>2
      <3>2. 1 \in DOMAIN text[name] /\ text[name] # <<>>
        BY <2>2
      <3>3. Source(j) = j
        BY <2>2 DEF Source
      <3>4. QED
        BY <2>2, <3>1, <3>2, <3>3 DEF Sources
    <2>4. QED
      BY <1>2, <2>1, <2>2, <2>3 DEF IInv, TypeOK, FindsItsOwn
  <1>8. QED
    BY <1>3, <1>4, <1>5, <1>6, <1>7 DEF IInv

LEMMA RemovePdlKeeps ==
  ASSUME NEW j \in Jobs, RemovePdl(j), IInv
  PROVE  IInv'
  <1> USE PdlAssumption DEF RemovePdl, ToRemove, Goto, locals, Writers
  <1>1. TypeOK'
    BY DEF IInv, TypeOK, Control
  <1>2. Equipped'
    BY DEF IInv, TypeOK, Equipped
  <1>3. LinkIsKnown'
    BY DEF IInv, TypeOK, LinkIsKnown
  <1>4. FileIsKnown'
    BY DEF IInv, TypeOK, FileIsKnown
  <1>5. Apart'
    BY DEF IInv, TypeOK, Apart, Inside, Working
  <1>6. FindsItsOwn'
    BY DEF IInv, TypeOK, Apart, FindsItsOwn, Inside, Working
  <1>7. QED
    BY <1>1, <1>2, <1>3, <1>4, <1>5, <1>6 DEF IInv

LEMMA RemoveLinkKeeps ==
  ASSUME NEW j \in Jobs, RemoveLink(j), IInv
  PROVE  IInv'
  <1> USE PdlAssumption DEF RemoveLink, Goto, locals, Writers
  <1>1. TypeOK'
    BY DEF IInv, TypeOK, Control
  <1>2. Equipped'
    BY DEF IInv, TypeOK, Equipped
  <1>3. LinkIsKnown'
    BY DEF IInv, TypeOK, Equipped, LinkIsKnown
  <1>4. FileIsKnown'
    BY DEF IInv, TypeOK, FileIsKnown
  <1>5. Apart'
    BY DEF IInv, TypeOK, Apart, Inside, Working
  <1>6. FindsItsOwn'
    BY DEF IInv, TypeOK, Apart, FindsItsOwn, Inside, Working
  <1>7. QED
    BY <1>1, <1>2, <1>3, <1>4, <1>5, <1>6 DEF IInv

LEMMA UserKeeps ==
  ASSUME IInv, UserPlaces \/ UserRemovesPdl \/ \E p \in Pids : UserRemovesLink(p)
  PROVE  IInv'
  <1> USE PdlAssumption DEF UserPlaces, UserRemovesPdl, UserRemovesLink, directory, locals, Writers
  <1>1. TypeOK'
    <2>1. <<User>> \in Seq(Writers)
      OBVIOUS
    <2>2. CASE UserRemovesPdl
      BY <2>1, <2>2 DEF IInv, TypeOK
    <2>3. CASE UserPlaces
      BY <2>3 DEF IInv, TypeOK, Inside
    <2>4. CASE \E p \in Pids : UserRemovesLink(p)
      BY <2>4 DEF IInv, TypeOK
    <2>5. QED
      BY <2>2, <2>3, <2>4
  <1>2. Equipped'
    <2>1. CASE UserRemovesPdl
      <3>1. \A w \in Writers : \A i \in DOMAIN text'[w] :
              text'[w][i] = User \/ (i \in DOMAIN text[w] /\ text'[w][i] = text[w][i])
        BY <2>1 DEF IInv, TypeOK
      <3>2. QED
        BY <2>1, <3>1 DEF IInv, TypeOK, Equipped
    <2>2. CASE ~UserRemovesPdl
      BY <2>2 DEF IInv, TypeOK, Equipped
    <2>3. QED
      BY <2>1, <2>2
  <1>3. LinkIsKnown'
    BY DEF IInv, TypeOK, LinkIsKnown
  <1>4. FileIsKnown'
    BY DEF IInv, TypeOK, FileIsKnown
  <1>5. Apart'
    BY DEF IInv, TypeOK, Apart, Inside
  <1>6. FindsItsOwn'
    <2>1. \A j \in Jobs : Inside(j)' => shared'[j]
      BY DEF IInv, TypeOK, Inside
    <2>2. QED
      BY <2>1 DEF FindsItsOwn
  <1>7. QED
    BY <1>1, <1>2, <1>3, <1>4, <1>5, <1>6 DEF IInv

LEMMA StepKeeps == ASSUME IInv, [Next]_vars PROVE IInv'
  <1>1. ASSUME NEW j \in Jobs, Refuse(j) \/ Fails(j) \/ WriteFails(j) \/ PhdstReturns(j) \/ Dies(j)
        PROVE  IInv'
    BY <1>1, LeavingKeeps
       DEF Refuse, Fails, WriteFails, PhdstReturns, Dies, Return, Goto, locals, directory,
           Inside, Working, Alive
  <1>2. CASE UNCHANGED vars
    BY <1>2 DEF vars, directory, locals, IInv, TypeOK, Equipped, LinkIsKnown, FileIsKnown,
                Apart, FindsItsOwn, Inside
  <1>3. QED
    BY <1>1, <1>2, LaunchKeeps, InspectKeeps, MakeLinkKeeps, CreateKeeps, WriteKeeps,
       ReadsKeeps, RemovePdlKeeps, RemoveLinkKeeps, UserKeeps DEF Next, Run

-----------------------------------------------------------------------------
(***************************************************************************)
(* The strengthening holds at every step of any number of jobs, with the   *)
(* types of the variables as its first part.                               *)
(***************************************************************************)
THEOREM DirectoryIsKnown == Spec => []IInv
  BY InitIInv, StepKeeps, PTL DEF Spec

\* Every variable keeps its type.
THEOREM TypesHold == Spec => []TypeOK
  <1>1. IInv => TypeOK
    BY DEF IInv
  <1>2. QED
    BY <1>1, DirectoryIsKnown, PTL

\* A job alone in the directory gets its own input.
THEOREM ReadsItsOwn == Spec => []UndisturbedReadsItsOwn
  <1>1. IInv => UndisturbedReadsItsOwn
    BY DEF IInv, FindsItsOwn, UndisturbedReadsItsOwn, Inside, Working
  <1>2. QED
    BY <1>1, DirectoryIsKnown, PTL

\* A job that returned leaves neither link nor file, but for a failed copy.
THEOREM LeavesNothing == Spec => []ReturnedLeavesNothing
  <1>1. IInv => ReturnedLeavesNothing
    BY DEF IInv, LinkIsKnown, FileIsKnown, ReturnedLeavesNothing
  <1>2. QED
    BY <1>1, DirectoryIsKnown, PTL

\* A job alone in the directory changes no PDLINPUT but its own.
THEOREM TouchesItsOwn == Spec => UndisturbedTouchesItsOwn
  <1> DEFINE Touches(j) == pc'[j] # pc[j] /\ ~shared[j] /\ ~shared'[j] /\ name \notin {None, j}
                             => name' = name /\ text'[name] = text[name]
  <1>1. IInv /\ [Next]_vars => [\A j \in Jobs : Touches(j)]_vars
    <2> SUFFICES ASSUME IInv, Next, NEW j \in Jobs, pc'[j] # pc[j], ~shared[j], name \notin {None, j}
                 PROVE  name' = name /\ text'[name] = text[name]
      BY DEF vars
    <2>1. ~Inside(j)
      BY DEF IInv, FindsItsOwn
    <2>2. Run(j)
      <3>1. ASSUME NEW k \in Jobs, k # j PROVE ~Run(k)
        BY <3>1 DEF IInv, TypeOK, Run, Launch, Inspect, Refuse, MakeLink, Fails, Create, Write,
           WriteFails, PhdstReads, PhdstReturns, RemovePdl, RemoveLink, Dies, Return, Goto
      <3>2. QED
        BY <3>1 DEF Next, UserPlaces, UserRemovesPdl, UserRemovesLink
    <2>3. QED
      BY <2>1, <2>2 DEF Run, Launch, Inspect, Refuse, MakeLink, Fails, Create, Write, WriteFails,
         PhdstReads, PhdstReturns, RemovePdl, RemoveLink, Dies, directory, Inside, Working, Alive
  <1>2. QED
    BY <1>1, DirectoryIsKnown, PTL DEF Spec, UndisturbedTouchesItsOwn
=============================================================================
