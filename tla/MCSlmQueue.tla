----------------------------- MODULE MCSlmQueue -----------------------------
(***************************************************************************)
(* SlmQueue on a small instance: three requests of two agents, so that one *)
(* can be in service, two can wait in either order, and an agent can have  *)
(* more than one of them.                                                  *)
(***************************************************************************)
EXTENDS SlmQueue
CONSTANTS r1, r2, r3, a1, a2

MCRequests   == {r1, r2, r3}
MCAgents     == {a1, a2}
MCAgentOf    == (r1 :> a1) @@ (r2 :> a1) @@ (r3 :> a2)
MCPriorities == {0, 1}
=============================================================================
