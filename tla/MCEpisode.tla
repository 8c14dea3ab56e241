------------------------------ MODULE MCEpisode ------------------------------
(***************************************************************************)
(* Episode with two modules, one of which the visible test needs and both  *)
(* of which the private test needs; every tier and policy that makes a     *)
(* difference; tasks that have to be refused.                              *)
(***************************************************************************)
EXTENDS Episode
CONSTANTS a, b, readme, own, seen, hidden, dotdot

MCPaths   == {a, b, readme, own, seen, hidden}
MCModules == {a, b}
MCTests   == {own, seen, hidden}
MCNeeds   == [t \in MCTests |-> IF t = hidden THEN {a, b} ELSE {a}]

Task == [schemaVersion |-> 1, files |-> {a, b, readme}, editableFiles |-> {a, b},
         visibleTests |-> {seen}, acceptanceTests |-> {hidden}]

Base(kind) ==
  [kind |-> kind, task |-> Task, policies |-> <<>>, provider |-> "local", url |-> TRUE,
   plugin |-> "none", image |-> TRUE]

Tasks ==
  { Task,
    [Task EXCEPT !.editableFiles = {a}],
    [Task EXCEPT !.files = {a, b, own}, !.editableFiles = {b, own}],
    [Task EXCEPT !.editableFiles = {}],
    [Task EXCEPT !.editableFiles = {a, readme}],
    [Task EXCEPT !.visibleTests = {seen, hidden}] }

Repairs ==
  { [Base("repair") EXCEPT !.task = t] : t \in Tasks }
  \cup { [Base("repair") EXCEPT !.image = FALSE], [Base("repair") EXCEPT !.url = FALSE] }

Policy(force, after) ==
  <<[externalAfterFailures |-> 1], [externalAfterFailures |-> after],
    [escalateToExternal |-> force]>>
Visits ==
  { [Base("visit") EXCEPT !.url = x, !.policies = Policy(f, n)] :
      x \in BOOLEAN, f \in BOOLEAN, n \in 0..2 }
  \cup { [Base("visit") EXCEPT !.plugin = p, !.url = FALSE] :
           p \in {"tool", "shadow", "empty"} }
  \cup { [Base("visit") EXCEPT !.provider = "mock", !.policies = Policy(TRUE, 1)] }

MCOutside == {dotdot}
MCSetups  == Repairs \cup Visits
=============================================================================
