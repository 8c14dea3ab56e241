------------------------------ MODULE Legacy ------------------------------
(***************************************************************************)
(* What an agent leaves behind: its claims in a TaskPool that code outside *)
(* the loop shares with EvolutionLoop, its legacy.json and its record in   *)
(* the ecology index.  The loop visits the agents in order; die archives a *)
(* dead one step by step, any of which may fail, and then releases what it *)
(* has claimed.  The pool does not ask who is alive, so a claim may land   *)
(* at any of these steps, and after the last.                              *)
(*                                                                         *)
(* Energy is left out: whether an agent can pay its upkeep, and whether it *)
(* then goes to sleep, is a free choice (Evolution has the prices); clones *)
(* and rewrites touch neither the pool nor the archive.                    *)
(***************************************************************************)
EXTENDS Integers, Sequences, Functions

CONSTANTS
  Order,        \* plan.agents, in the order of their visits
  Plan,         \* plan.tasks; a generation works on one of them
  NoAgent,      \* claimedBy of a task nobody has claimed
  Generations,  \* plan.generations
  MaxRuns,      \* bound: runs over the same archive
  MaxFaults     \* bound: runs that break

Agents == Range(Order)
Tasks  == Range(Plan)

Bad     == "Bad"      \* a line that is not a record
Nothing == "Nothing"

\* register refuses a task twice, and the loop registers its whole plan.
ASSUME LegacyAssumption ==
  /\ Order \in Seq(Agents) /\ Order # <<>> /\ IsInjective(Order)
  /\ Plan \in Seq(Tasks) /\ Plan # <<>> /\ IsInjective(Plan)
  /\ {NoAgent, Bad, Nothing} \cap Agents = {}
  /\ Generations \in Nat \ {0} /\ MaxRuns \in Nat /\ MaxFaults \in Nat

VARIABLES
  pool,        \* per task: [status, claimedBy]
  life,        \* lifecycle in the population
  generation,  \* of the visit under way
  turn,        \* whose visit it is, as a place in Order
  pc,          \* where that visit stands
  released,    \* history: agents whose claims this run has released
  late,        \* history: tasks claimed by an agent already released
  announced,   \* agents whose LEGACY_ARCHIVED this run has logged
  legacies,    \* agents with a legacy.json
  index,       \* complete lines of the ecology index: agents, or Bad
  fragment,    \* what follows its last newline
  runs, faults

diskVars == <<legacies, index, fragment>>
loopVars == <<generation, turn, pc>>
deathVars == <<released, late>>
vars == <<pool, life, loopVars, deathVars, announced, diskVars, runs, faults>>

Available == [status |-> "available", claimedBy |-> NoAgent]
Agent     == Order[turn]

Unclaimed == [t \in Tasks |-> Available]
Newborn   == [a \in Agents |-> "ACTIVE"]

Init ==
  /\ pool = Unclaimed /\ life = Newborn
  /\ generation = 0 /\ turn = 1 /\ pc = "visit"
  /\ released = {} /\ late = {} /\ announced = {}
  /\ legacies = {} /\ index = <<>> /\ fragment = Nothing
  /\ runs = 1 /\ faults = 0

------------------------------------------------------------------------------
\* TaskPool.available: what an agent may claim, and may claim again.
Offered(a) ==
  {t \in Tasks : pool[t].status = "available" \/ pool[t] = [status |-> "claimed", claimedBy |-> a]}

\* TaskPool.claim.  The pool knows nothing of lives: a claim that lands when its
\* agent is dead counts like any other.
\* Bug: only completed tasks are refused.
Claim_Steals(a, t) ==
  /\ pool[t].status # "completed"
  /\ pool' = [pool EXCEPT ![t] = [status |-> "claimed", claimedBy |-> a]]
  /\ late' = IF a \in released THEN late \cup {t} ELSE late
  /\ UNCHANGED <<life, loopVars, released, announced, diskVars, runs, faults>>
Claim(a, t) ==
  /\ t \in Offered(a)
  /\ pool' = [pool EXCEPT ![t] = [status |-> "claimed", claimedBy |-> a]]
  /\ late' = IF a \in released THEN late \cup {t} ELSE late
  /\ UNCHANGED <<life, loopVars, released, announced, diskVars, runs, faults>>

\* TaskPool.complete keeps the claim and asks nobody for one.
Completed(t) == [pool EXCEPT ![t].status = "completed"]

\* Whoever claimed a task may complete it, beside the loop.
CompleteOwn(a, t) ==
  /\ pool[t] = [status |-> "claimed", claimedBy |-> a]
  /\ pool' = Completed(t)
  /\ UNCHANGED <<life, loopVars, deathVars, announced, diskVars, runs, faults>>

\* TaskPool.releaseAgent: what is completed stays so.
Released(a) ==
  [t \in Tasks |->
     IF pool[t] = [status |-> "claimed", claimedBy |-> a] THEN Available ELSE pool[t]]

------------------------------------------------------------------------------
\* The loop goes on to the next agent, the next generation, or ends.
Advance ==
  IF turn < Len(Order) THEN turn' = turn + 1 /\ pc' = "visit" /\ UNCHANGED generation
  ELSE /\ turn' = 1 /\ generation' = generation + 1
       /\ pc' = IF generation' < Generations THEN "visit" ELSE "over"

SkipDead ==
  /\ pc = "visit" /\ life[Agent] = "DEAD"
  /\ Advance
  /\ UNCHANGED <<pool, life, deathVars, announced, diskVars, runs, faults>>

\* maintain: who cannot pay dies; who sleeps does no work.
Upkeep(pays) ==
  /\ pc = "visit" /\ life[Agent] # "DEAD"
  /\ life' = [life EXCEPT ![Agent] = IF pays THEN @ ELSE "DEAD"]
  /\ \/ life'[Agent] = "DORMANT" /\ Advance
     \/ life'[Agent] = "DEAD"    /\ pc' = "archive" /\ UNCHANGED <<turn, generation>>
     \/ life'[Agent] = "ACTIVE"  /\ pc' = "work"    /\ UNCHANGED <<turn, generation>>
  /\ UNCHANGED <<pool, deathVars, announced, diskVars, runs, faults>>

\* The task of the generation, whoever has claimed it; then, perhaps, sleep.
Work(success) ==
  /\ pc = "work"
  /\ LET t == Plan[(generation % Len(Plan)) + 1]
     IN  pool' = IF success THEN Completed(t) ELSE pool
  /\ pc' = "evolve"
  /\ UNCHANGED <<life, generation, turn, deathVars, announced, diskVars, runs, faults>>

MaybeEvolve(sleeps) ==
  /\ pc = "evolve"
  /\ life' = [life EXCEPT ![Agent] = IF sleeps THEN "DORMANT" ELSE @]
  /\ Advance
  /\ UNCHANGED <<pool, deathVars, announced, diskVars, runs, faults>>

\* archiveDead: legacy.json first, which replaces that of an earlier run ...
WriteLegacy ==
  /\ pc = "archive"
  /\ legacies' = legacies \cup {Agent}
  /\ pc' = "record"
  /\ UNCHANGED <<pool, life, generation, turn, deathVars, announced, index, fragment, runs, faults>>

\* ... then recordDeath appends a line to the index, behind whatever is there ...
BeginRecord ==
  /\ pc = "record"
  /\ fragment' = IF fragment = Nothing THEN Agent ELSE Bad
  /\ pc' = "append"
  /\ UNCHANGED <<pool, life, generation, turn, deathVars, announced, legacies, index, runs, faults>>

\* ... and die goes on without another await to release the agent's claims.
\* Bug: the claims of the dead are never released.
FinishRecord_KeepsClaims ==
  /\ pc = "append"
  /\ index' = Append(index, fragment) /\ fragment' = Nothing
  /\ pc' = "announce"
  /\ released' = released \cup {Agent}
  /\ UNCHANGED <<pool, life, generation, turn, late, announced, legacies, runs, faults>>
FinishRecord ==
  /\ pc = "append"
  /\ index' = Append(index, fragment) /\ fragment' = Nothing
  /\ pool' = Released(Agent)
  /\ pc' = "announce"
  /\ released' = released \cup {Agent}
  /\ UNCHANGED <<life, generation, turn, late, announced, legacies, runs, faults>>

Announce ==
  /\ pc = "announce"
  /\ announced' = announced \cup {Agent}
  /\ Advance
  /\ UNCHANGED <<pool, life, deathVars, diskVars, runs, faults>>

\* A step of the loop fails, or the process dies: the run is broken off, and an
\* append in the middle of its line leaves it so.
Breaks ==
  /\ pc \notin {"over", "broken"} /\ faults < MaxFaults
  /\ faults' = faults + 1
  /\ pc' = "broken"
  /\ fragment' = IF pc = "append" THEN Bad ELSE fragment
  /\ UNCHANGED <<pool, life, generation, turn, deathVars, announced, legacies, index, runs>>

\* Another run with the same agents: a new pool and population, the old archive.
NewRun ==
  /\ pc \in {"over", "broken"} /\ runs < MaxRuns
  /\ runs' = runs + 1
  /\ pool' = Unclaimed /\ life' = Newborn
  /\ generation' = 0 /\ turn' = 1 /\ pc' = "visit"
  /\ released' = {} /\ late' = {} /\ announced' = {}
  /\ UNCHANGED <<diskVars, faults>>

Loop ==
  \/ SkipDead
  \/ \E pays \in BOOLEAN : Upkeep(pays)
  \/ \E success \in BOOLEAN : Work(success)
  \/ \E sleeps \in BOOLEAN : MaybeEvolve(sleeps)
  \/ WriteLegacy \/ BeginRecord \/ FinishRecord \/ Announce

Next ==
  \/ Loop
  \/ \E a \in Agents, t \in Tasks : Claim(a, t) \/ CompleteOwn(a, t)
  \/ Breaks \/ NewRun

Spec == Init /\ [][Next]_vars

------------------------------------------------------------------------------
Claims == [status : {"available", "claimed", "completed"}, claimedBy : Agents \cup {NoAgent}]

TypeOK ==
  /\ pool \in [Tasks -> Claims]
  /\ \A t \in Tasks : (pool[t].status = "available" => pool[t] = Available)
                      /\ (pool[t].status = "claimed" => pool[t].claimedBy \in Agents)
  /\ life \in [Agents -> {"ACTIVE", "DORMANT", "DEAD"}]
  /\ generation \in 0..Generations /\ turn \in 1..Len(Order)
  /\ pc \in {"visit", "work", "evolve", "archive", "record", "append", "announce",
             "over", "broken"}
  /\ released \subseteq Agents /\ late \subseteq Tasks
  /\ announced \subseteq Agents /\ legacies \subseteq Agents
  /\ index \in Seq(Agents \cup {Bad}) /\ fragment \in Agents \cup {Bad, Nothing}
  /\ runs \in Nat /\ faults \in Nat

HeldBy(a) == {t \in Tasks : pool[t] = [status |-> "claimed", claimedBy |-> a]}

\* Agents claim, complete and die beside the loop, and a task that is claimed
\* goes to another agent only after its owner is dead; what is completed, by its
\* owner or by the loop under another agent, is never offered again.
ClaimsAreKept ==
  [][runs' = runs =>
       \A t \in Tasks :
         /\ pool[t].status = "completed" => pool'[t] = pool[t]
         /\ pool[t].status = "claimed" =>
              \/ pool'[t].claimedBy = pool[t].claimedBy
              \/ life[pool[t].claimedBy] = "DEAD" /\ pool'[t] = Available]_vars

\* EcologicalMemoryIndex.load, which wants every line to be a record.
IndexLoads == fragment = Nothing /\ Bad \notin Range(index)

\* When the death of an agent has been logged to its end, all of it has taken
\* place, whatever broke off in the middle of a line before: the legacy is
\* written, whoever can load the index finds the agent in it, and of the work it
\* claims while it dies nothing stays with it but what it claims after its
\* release, which the loop does once and the pool does not refuse.
DeathIsSettled ==
  \A a \in announced :
    /\ life[a] = "DEAD" /\ a \in legacies
    /\ IndexLoads => a \in Range(index)
    /\ HeldBy(a) \subseteq late

=============================================================================
