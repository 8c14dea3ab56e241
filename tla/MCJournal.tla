------------------------------ MODULE MCJournal ------------------------------
(***************************************************************************)
(* Journal on a small instance: two runs share the log, two polls of a     *)
(* stream and two loads of the store may overlap, a poll reads one line.   *)
(***************************************************************************)
EXTENDS Journal
CONSTANTS x, y, p1, p2, q1, q2

MCRuns      == {x, y}
MCWatches   == {"page", "client", "puller", "store"}
MCScript ==
  [w \in MCWatches |->
     IF w = "store" THEN <<"REPAIR_ERROR", "REPAIR_COMPLETED">>
     ELSE <<"EVALUATION_COMPLETED",
            IF w = "puller" THEN "HUMAN_ACCEPTANCE_RECORDED" ELSE "AGENT_BORN">>]
MCMaxFaults == [w \in MCWatches |-> IF w = "store" THEN 1 ELSE 2]
MCPollSlots == {p1, p2}
MCLoadSlots == {q1, q2}
=============================================================================
