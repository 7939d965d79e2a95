---------------------------- MODULE MCRecordLoops ----------------------------
(***************************************************************************)
(* The truth tree and the bank walks in one run, in the order of the       *)
(* writers (bin/delphi_sdst_pass.cpp 143-154): the truth tree first, then  *)
(* a walk.  They share no state, so each of the two meets everything while *)
(* the other has nothing to do.                                            *)
(***************************************************************************)
EXTENDS MCTruthTree, MCBankWalks

NoLines == [lines |-> <<>>, primary |-> Unset, tracks |-> <<>>, vertices |-> <<>>]

NoRecords == [walk |-> "PA", records |-> <<>>, length |-> 0, count |-> 0]

LoopsInit ==
  \/ bank = NoRecords /\ Init /\ TruthInit
  \/ event = NoLines /\ TruthInit /\ Init

LoopsNext ==
  \/ (loop # "done" \/ ~running) /\ TruthNext /\ UNCHANGED vars
  \/ loop = "done" /\ Next /\ UNCHANGED truthVars

LoopsSpec == LoopsInit /\ [][LoopsNext]_<<truthVars, vars>>
=============================================================================
