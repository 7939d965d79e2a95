------------------------------ MODULE MCPdlInput ------------------------------
(***************************************************************************)
(* Three jobs and two process ids: two jobs can be inside at once, and the *)
(* third can get the id of one that died.                                  *)
(***************************************************************************)
EXTENDS PdlInput, TLC

Symmetry == Permutations(Jobs) \cup Permutations(Pids)
=============================================================================
