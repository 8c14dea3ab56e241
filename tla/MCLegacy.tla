----------------------------- MODULE MCLegacy -----------------------------
(***************************************************************************)
(* What agents learn and what they leave behind, on a small instance.      *)
(* Legacy: two agents and two tasks, so that one dies while the other      *)
(* lives on, sleeps or holds a claim; two runs over one archive.  Memory:  *)
(* one agent has a file of its own and shares another; a candidate has two *)
(* tasks to pass and may be offered a third.                               *)
(*                                                                         *)
(* The pool with the archive, the files and the registry have no state in  *)
(* common, so a behaviour watches one of them.                             *)
(***************************************************************************)
EXTENDS Legacy, Memory
CONSTANTS alice, bob, task1, task2, task3, own, shared, plugin

VARIABLE watch

MCOrder       == <<alice, bob>>
MCPlan        == <<task1, task2>>
MCOwners      == {alice, bob}
MCFiles       == [f \in {own, shared} |-> IF f = own THEN {alice} ELSE {alice, bob}]
MCCandidates  == [c \in {plugin} |-> {task1, task2}]
MCVerifyTasks == {task1, task2, task3}

allVars == <<vars, memoryVars, watch>>

MCInit == Init /\ MemoryInit /\ watch \in {"archive", "files", "registry"}

MCNext ==
  \/ watch = "archive" /\ Next /\ UNCHANGED <<memoryVars, watch>>
  \/ watch = "files" /\ UNCHANGED <<vars, pluginVars, watch>> /\ MemoryNext
  \/ watch = "registry" /\ UNCHANGED <<vars, storeVars, watch>> /\ MemoryNext

MCSpec == MCInit /\ [][MCNext]_allVars
=============================================================================
