------------------------------- MODULE PdlInput -------------------------------
(***************************************************************************)
(* How run() hands its input to PHDST: through a text file with the fixed  *)
(* name PDLINPUT in the working directory, which it inspects, creates,     *)
(* lets PHDST read and removes again (src/PhdstHarness.cpp, 399-504).  A   *)
(* file given by path is reached through a symbolic link named after the   *)
(* process.  The directory is shared: other jobs and the user may create,  *)
(* truncate or remove the same names between any two steps, a job may be   *)
(* killed anywhere, and a later process may get its process id.            *)
(*                                                                         *)
(* Each job is one process that calls run() once.  An operator whose name  *)
(* starts with Mut is a wrong form of the operator that follows it.        *)
(***************************************************************************)
EXTENDS Naturals, Sequences

CONSTANTS
  Jobs,     \* conversions started in this directory
  Pids,     \* process ids the system hands out
  User,     \* whoever else keeps a PDLINPUT here
  None      \* no file, no link, nothing read

ASSUME PdlAssumption ==
  /\ User \notin Jobs
  /\ None \notin Jobs \cup Pids \cup {User}

Modes == {"File", "Nickname", "Pdl"}

VARIABLES
  pc,         \* where each job is, see Control
  mode,       \* cfg.input_mode
  pid,        \* getpid()
  name,       \* the file PDLINPUT names, by who created it, or None
  text,       \* who wrote into each file since it was last truncated
  link,       \* who created .phdst_input_<pid>, or None
  stream,     \* the file an ofstream or copy_file has open, or None
  remove,     \* cleanup.remove_pdl_input
  cleanup,    \* is cleanup.link set?
  read,       \* what PHDST took its input from
  shared      \* history: was anybody else here between look and exit?

directory == <<name, text, link>>
locals    == <<mode, pid, stream, remove, cleanup, read>>
vars      == <<pc, directory, locals, shared>>

Writers == Jobs \cup {User}

(***************************************************************************)
(* "out" not started; "inspect" before the test of 403; "link" before the  *)
(* input link of a File job; "open" before PDLINPUT is opened or copied;   *)
(* "close" before what was written reaches the file; "read" before PHDST   *)
(* reads it; "loop" inside phdst_; "remove" and "unlink" in the destructor *)
(* of InputFileCleanup; "returned" run() is back; "dead" the process ended *)
(* without it.                                                             *)
(***************************************************************************)
Control == {"out", "inspect", "link", "open", "close", "read", "loop",
            "remove", "unlink", "returned", "dead"}

\* The jobs that have looked and not yet tidied up.
Working == {"link", "open", "close", "read", "loop", "remove", "unlink"}

Inside(j) == pc[j] \in Working
Alive(j)  == Inside(j) \/ pc[j] = "inspect"

TypeOK ==
  /\ pc \in [Jobs -> Control]
  /\ mode \in [Jobs -> Modes]
  /\ pid \in [Jobs -> Pids \cup {None}]
  /\ name \in Writers \cup {None}
  /\ text \in [Writers -> Seq(Writers)]
  /\ link \in [Pids -> Jobs \cup {None}]
  /\ stream \in [Jobs -> Writers \cup {None}]
  /\ remove \in [Jobs -> BOOLEAN]
  /\ cleanup \in [Jobs -> BOOLEAN]
  /\ read \in [Jobs -> Writers \cup {None}]
  /\ shared \in [Jobs -> BOOLEAN]

Init ==
  /\ pc = [j \in Jobs |-> "out"]
  /\ mode \in [Jobs -> Modes]
  /\ pid = [j \in Jobs |-> None]
  /\ name \in {None, User}
  /\ text = [w \in Writers |-> IF w = User THEN <<User>> ELSE <<>>]
  /\ link = [p \in Pids |-> None]
  /\ stream = [j \in Jobs |-> None]
  /\ remove = [j \in Jobs |-> FALSE]
  /\ cleanup = [j \in Jobs |-> FALSE]
  /\ read = [j \in Jobs |-> None]
  /\ shared = [j \in Jobs |-> FALSE]

Goto(j, to) == pc' = [pc EXCEPT ![j] = to]

MutReturn(j) == Goto(j, IF remove[j] THEN "remove" ELSE "returned")

\* Every return of run() from here on runs the destructor.
Return(j) == Goto(j, "remove")

-----------------------------------------------------------------------------
\* A process id is not given out while its process lives.
Launch(j, p) ==
  /\ pc[j] = "out"
  /\ \A k \in Jobs : Alive(k) => pid[k] # p
  /\ pid' = [pid EXCEPT ![j] = p]
  /\ Goto(j, "inspect")
  /\ UNCHANGED <<directory, mode, stream, remove, cleanup, read, shared>>

MutInspects(j) == TRUE

\* symlink_status finds nothing under the name.
Inspects(j) == name = None

\* From here on this job and any other that is inside are in each other's way.
Enter(j) ==
  LET others == {k \in Jobs : Inside(k)}
  IN  shared' = [k \in Jobs |-> \/ shared[k]
                                \/ k \in others
                                \/ k = j /\ others # {}]

Inspect(j) ==
  /\ pc[j] = "inspect"
  /\ Inspects(j)
  /\ Goto(j, IF mode[j] = "File" THEN "link" ELSE "open")
  /\ Enter(j)
  /\ UNCHANGED <<directory, locals>>

\* PDLINPUT exists or cannot be inspected: nothing has been done yet.
Refuse(j) ==
  /\ pc[j] = "inspect"
  /\ Goto(j, "returned")
  /\ UNCHANGED <<directory, locals, shared>>

\* create_symlink fails if the name exists, which a link left by a dead
\* process with the same id makes true.
LinkIsFree(j) == link[pid[j]] = None

\* A link that exists is taken for this job's.
MutMakeLink(j) ==
  /\ pc[j] = "link"
  /\ link' = [link EXCEPT ![pid[j]] = IF @ = None THEN j ELSE @]
  /\ cleanup' = [cleanup EXCEPT ![j] = TRUE]
  /\ Goto(j, "open")
  /\ UNCHANGED <<name, text, mode, pid, stream, remove, read, shared>>

MakeLink(j) ==
  /\ pc[j] = "link"
  /\ LinkIsFree(j)
  /\ link' = [link EXCEPT ![pid[j]] = j]
  /\ cleanup' = [cleanup EXCEPT ![j] = TRUE]
  /\ Goto(j, "open")
  /\ UNCHANGED <<name, text, mode, pid, stream, remove, read, shared>>

\* The input or the link cannot be had, PDLINPUT cannot be opened, or it exists
\* and a Pdl job does not replace it.
Fails(j) ==
  /\ pc[j] \in {"link", "open"}
  /\ Return(j)
  /\ UNCHANGED <<directory, locals, shared>>

\* ofstream::open truncates what is there.  copy_file without options creates
\* the file or fails.
Create(j) ==
  LET file == IF name = None THEN j ELSE name
  IN  /\ pc[j] = "open"
      /\ mode[j] = "Pdl" => name = None
      /\ name' = file
      /\ text' = [text EXCEPT ![file] = <<>>]
      /\ stream' = [stream EXCEPT ![j] = file]
      /\ remove' = [remove EXCEPT ![j] = (mode[j] # "Pdl")]
      /\ Goto(j, "close")
      /\ UNCHANGED <<link, mode, pid, cleanup, read, shared>>

\* The line is in the stream's buffer until close() (499); a copy is complete
\* before remove_pdl_input is set (494).
Write(j) ==
  /\ pc[j] = "close"
  /\ text' = [text EXCEPT ![stream[j]] = Append(@, j)]
  /\ stream' = [stream EXCEPT ![j] = None]
  /\ remove' = [remove EXCEPT ![j] = TRUE]
  /\ Goto(j, "read")
  /\ UNCHANGED <<name, link, mode, pid, cleanup, read, shared>>

WriteFails(j) ==
  /\ pc[j] = "close"
  /\ stream' = [stream EXCEPT ![j] = None]
  /\ Return(j)
  /\ UNCHANGED <<directory, mode, pid, remove, cleanup, read, shared>>

(***************************************************************************)
(* PHDST, external: it reads PDLINPUT once.  The line a File job wrote     *)
(* leads through the link of that job's process, whoever made that link.   *)
(* No file, an empty file and a dangling link give no input; of a file     *)
(* two jobs wrote into, either line may be what it understands.            *)
(***************************************************************************)
Source(w) == IF w \in Jobs /\ mode[w] = "File" THEN link[pid[w]] ELSE w

Sources ==
  IF name = None \/ text[name] = <<>> THEN {None}
  ELSE {Source(text[name][i]) : i \in DOMAIN text[name]}

PhdstReads(j) ==
  /\ pc[j] = "read"
  /\ \E s \in Sources : read' = [read EXCEPT ![j] = s]
  /\ Goto(j, "loop")
  /\ UNCHANGED <<directory, mode, pid, stream, remove, cleanup, shared>>

PhdstReturns(j) ==
  /\ pc[j] = "loop"
  /\ Return(j)
  /\ UNCHANGED <<directory, locals, shared>>

\* remove("PDLINPUT") goes by the name, whoever created the file.
ToRemove(j) == remove[j]

RemovePdl(j) ==
  /\ pc[j] = "remove"
  /\ name' = IF ToRemove(j) THEN None ELSE name
  /\ Goto(j, "unlink")
  /\ UNCHANGED <<text, link, locals, shared>>

RemoveLink(j) ==
  /\ pc[j] = "unlink"
  /\ link' = IF cleanup[j] THEN [link EXCEPT ![pid[j]] = None] ELSE link
  /\ Goto(j, "returned")
  /\ UNCHANGED <<name, text, locals, shared>>

\* A kill, a Fortran STOP, or exit(2) in user00 (169): no destructor runs.
Dies(j) ==
  /\ Alive(j)
  /\ stream' = [stream EXCEPT ![j] = None]
  /\ Goto(j, "dead")
  /\ UNCHANGED <<directory, mode, pid, remove, cleanup, read, shared>>

-----------------------------------------------------------------------------
(***************************************************************************)
(* The user may put a PDLINPUT of his own there at any time, and removes   *)
(* what the messages of 414 and 445 tell him to while no job is at work.   *)
(***************************************************************************)
UserPlaces ==
  /\ name = None
  /\ name' = User
  /\ shared' = [j \in Jobs |-> shared[j] \/ Inside(j)]
  /\ UNCHANGED <<pc, text, link, locals>>

UserRemovesPdl ==
  /\ name # None
  /\ \A j \in Jobs : ~Inside(j)
  /\ name' = None
  /\ text' = [text EXCEPT ![User] = <<User>>]
  /\ UNCHANGED <<pc, link, locals, shared>>

UserRemovesLink(p) ==
  /\ link[p] # None
  /\ \A j \in Jobs : ~Inside(j)
  /\ link' = [link EXCEPT ![p] = None]
  /\ UNCHANGED <<pc, name, text, locals, shared>>

Run(j) ==
  \/ \E p \in Pids : Launch(j, p)
  \/ Inspect(j) \/ Refuse(j)
  \/ MakeLink(j) \/ Fails(j)
  \/ Create(j) \/ Write(j) \/ WriteFails(j)
  \/ PhdstReads(j) \/ PhdstReturns(j)
  \/ RemovePdl(j) \/ RemoveLink(j)
  \/ Dies(j)

Next ==
  \/ \E j \in Jobs : Run(j)
  \/ UserPlaces
  \/ UserRemovesPdl
  \/ \E p \in Pids : UserRemovesLink(p)

Spec == Init /\ [][Next]_vars

-----------------------------------------------------------------------------
(***************************************************************************)
(* A job that has the directory to itself from its look at PDLINPUT on     *)
(* converts its own input, whatever earlier jobs left behind when they     *)
(* died: a stale PDLINPUT, or a stale link under its own process id.       *)
(***************************************************************************)
UndisturbedReadsItsOwn ==
  \A j \in Jobs : pc[j] = "loop" /\ ~shared[j] => read[j] = j

(***************************************************************************)
(* "Refuse to replace one we did not create; the cleanup below removes     *)
(* ours": such a job neither truncates, nor writes into, nor removes a     *)
(* PDLINPUT another job left or the user keeps.                            *)
(***************************************************************************)
UndisturbedTouchesItsOwn ==
  [][\A j \in Jobs :
       pc'[j] # pc[j] /\ ~shared[j] /\ ~shared'[j] /\ name \notin {None, j}
         => name' = name /\ text'[name] = text[name]]_vars

(***************************************************************************)
(* A job that came back from run() left neither its link nor its PDLINPUT  *)
(* behind, on whichever of the returns and whoever else was there.  The    *)
(* one exception is a copy of a PDL file that failed half way, which       *)
(* nobody removes.                                                         *)
(***************************************************************************)
ReturnedLeavesNothing ==
  \A j \in Jobs : pc[j] = "returned" =>
    /\ \A p \in Pids : link[p] # j
    /\ name = j => mode[j] = "Pdl" /\ ~remove[j]
=============================================================================
