--------------------------- MODULE MCReplSession ---------------------------
(***************************************************************************)
(* ReplSession with two tasks, three runtimes and two commands in flight   *)
(* beside a turn: one can wait for a runtime while another disposes.       *)
(***************************************************************************)
EXTENDS ReplSession

MCTasks == {"first", "second"}
=============================================================================
