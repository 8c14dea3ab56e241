---------------------------- MODULE MCEvolution ----------------------------
(***************************************************************************)
(* Evolution with two agents, four generations and small prices.          *)
(***************************************************************************)
EXTENDS Evolution

MCOrder == <<"alpha", "beta">>
MCAgents == {"alpha", "beta"}

\* The example plan scaled down: whoever is awake can pay.  A success allows a
\* clone; two failures lead to dormancy and two upkeeps later to death.
Thrifty == [initial |-> 3, upkeep |-> 1, dormantUpkeep |-> 1, clone |-> 2,
            reward |-> 2, cloneAbove |-> 4, dormantBelow |-> 1, rewriteAfter |-> 1]

\* A plan that lets agents overspend: the threshold for a clone is under its
\* price, and an agent can stay awake without the means for its next upkeep.
Reckless == [initial |-> 3, upkeep |-> 2, dormantUpkeep |-> 0, clone |-> 3,
             reward |-> 1, cloneAbove |-> 2, dormantBelow |-> 0, rewriteAfter |-> 2]

\* Nobody sleeps or clones for long: failures add up to a rewrite.
Patient == [initial |-> 4, upkeep |-> 1, dormantUpkeep |-> 1, clone |-> 5,
            reward |-> 1, cloneAbove |-> 6, dormantBelow |-> 0, rewriteAfter |-> 2]

\* Plans that are refused: a price below zero, a rewrite after no failure at all.
Refused == {[Thrifty EXCEPT !.clone = -1], [Patient EXCEPT !.rewriteAfter = 0]}

MCPolicies == {Thrifty, Reckless, Patient} \cup Refused
=============================================================================
