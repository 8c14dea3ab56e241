------------------------------ MODULE Evolution ------------------------------
(***************************************************************************)
(* EvolutionLoop (src/experiment/evolution-loop.ts) with the energy ledger *)
(* and the population it drives: upkeep, task, reward, dormancy, clone,    *)
(* self-rewrite, death and the log of what happened.                       *)
(*                                                                         *)
(* The loop is one async function.  A step is its code between two awaits; *)
(* the events it emits there wait in `outbox` and reach the log one append *)
(* at a time, before the loop goes on.  Nothing restarts a run, so every   *)
(* reachable state is also what a crash may leave behind.                  *)
(*                                                                         *)
(* What a model answers, whether a task succeeds, whether an embryo lives  *)
(* and whether a rewritten genome is accepted are free choices.  Every     *)
(* seeded agent has an active genome and every plan a task, so the early   *)
(* returns for a missing one are left out; so is the task pool, which no   *)
(* caller passes in.  A child is <<parent, generation>>: a parent clones   *)
(* once a generation.  It is registered ACTIVE, and since the loop visits  *)
(* only the agents of its plan nothing ever changes it.                    *)
(***************************************************************************)
EXTENDS Integers, FiniteSets, SequencesExt

CONSTANTS Agents,        \* the agents of the plan
          Order,         \* plan.agents, the order of the visits
          Policies,      \* energy policies and thresholds a plan file may have
          Generations    \* plan.generations

ASSUME AgentsFinite    == IsFiniteSet(Agents)
ASSUME AgentsAreNamed  == "" \notin Agents
ASSUME OrderIsAPlan    == /\ Order \in Seq(Agents)
                          /\ \A a \in Agents : \E i \in DOMAIN Order : Order[i] = a
                          /\ \A i, j \in DOMAIN Order : Order[i] = Order[j] => i = j
ASSUME PoliciesType    == Policies \subseteq
                            [initial : Int, upkeep : Int, dormantUpkeep : Int,
                             clone : Int, reward : Int, cloneAbove : Int,
                             dormantBelow : Int, rewriteAfter : Int]
ASSUME GenerationsType == Generations \in Nat

VARIABLES
  policy,      \* the plan's energy policy and thresholds
  pc,          \* where the loop is
  gen,         \* the generation that runs
  pos,         \* the agent of the plan that is visited
  lifecycle, balance, fails,      \* population, ledger, consecutiveFailures
  succeeded,   \* taskSuccess of the evaluation at hand
  paid,        \* whether the clone was paid in full
  children,    \* embryos registered in the population
  archived,    \* agents with a legacy on disk
  snapshots,   \* the population saved at the end of each generation
  outbox, log  \* events emitted and not appended yet; events on disk

vars == <<policy, pc, gen, pos, lifecycle, balance, fails, succeeded, paid,
          children, archived, snapshots, outbox, log>>

Lifecycles == {"none", "ACTIVE", "DORMANT", "DEAD"}
Stages == {"seed", "generation", "visit", "task", "settle", "evolve", "embryo",
           "dying", "archiving"}
-----------------------------------------------------------------------------
\* validatePolicy: no energy is negative.
IsEnergyPolicy(p) ==
  \A amount \in {p.initial, p.upkeep, p.dormantUpkeep, p.clone, p.reward} : amount >= 0

\* parseEvolutionPlan: someone to run, for some generations, under thresholds
\* that make sense one by one.  A plan that does not parse is never run.
IsPlan(p) == /\ Order # <<>> /\ Generations > 0
             /\ IsEnergyPolicy(p)
             /\ p.cloneAbove >= 0 /\ p.dormantBelow >= 0 /\ p.rewriteAfter > 0

Plans == {p \in Policies : IsPlan(p)}

\* An event: its type, its agent (the parent, for an embryo's), what replay
\* reads of its payload, and the generation of a birth.
Event(type, a, note) ==
  [type |-> type, agent |-> a, note |-> note, reason |-> "",
   before |-> 0, after |-> 0, generation |-> 0]
RunEvent(type) == Event(type, "", "")

\* energyTransactionEvent.
TransactionEvent(type, a, before, after) ==
  [Event(type, a, "") EXCEPT !.before = before, !.after = after]

\* The event of a birth names the child.
BirthEvent(a) == [Event("EMBRYO_QUALIFIED", a, "") EXCEPT !.generation = gen]

Init ==
  /\ policy \in Plans
  /\ pc = "seed" /\ gen = 0 /\ pos = 1
  /\ lifecycle = [a \in Agents |-> "none"]
  /\ balance   = [a \in Agents |-> 0]
  /\ fails     = [a \in Agents |-> 0]
  /\ succeeded = FALSE /\ paid = FALSE
  /\ children = {} /\ archived = {}
  /\ snapshots = <<>> /\ outbox = <<>> /\ log = <<>>

\* The loop is about to run the code of `stage` for agent a.
At(stage, a) == pc = stage /\ outbox = <<>> /\ pos \in DOMAIN Order /\ a = Order[pos]

\* The ledger floors a debit at zero.
Debit(b, amount) == IF b >= amount THEN b - amount ELSE 0

\* EventLog.append.
AppendEvent ==
  /\ outbox # <<>>
  /\ log' = Append(log, Head(outbox))
  /\ outbox' = Tail(outbox)
  /\ UNCHANGED <<policy, pc, gen, pos, lifecycle, balance, fails, succeeded,
                 paid, children, archived, snapshots>>

\* seedGenerationZero registers one agent after the other.
Seed(a) ==
  /\ At("seed", a)
  /\ lifecycle' = [lifecycle EXCEPT ![a] = "ACTIVE"]
  /\ balance'   = [balance EXCEPT ![a] = policy.initial]
  /\ fails'     = [fails EXCEPT ![a] = 0]
  /\ pos' = pos + 1
  /\ UNCHANGED <<policy, pc, gen, succeeded, paid, children, archived, snapshots,
                 outbox, log>>

SeedingDone ==
  /\ pc = "seed" /\ pos > Len(Order)
  /\ pc' = "generation"
  /\ UNCHANGED <<policy, gen, pos, lifecycle, balance, fails, succeeded, paid,
                 children, archived, snapshots, outbox, log>>

StartGeneration ==
  /\ pc = "generation" /\ outbox = <<>> /\ gen < Generations
  /\ outbox' = <<RunEvent("GENERATION_STARTED")>>
  /\ pc' = "visit" /\ pos' = 1
  /\ UNCHANGED <<policy, gen, lifecycle, balance, fails, succeeded, paid,
                 children, archived, snapshots, log>>

\* Bug: dormant agents are passed over as dead ones are.
SkipInactive(a) ==
  /\ At("visit", a)
  /\ lifecycle[a] # "ACTIVE"
  /\ pos' = pos + 1
  /\ UNCHANGED <<policy, pc, gen, lifecycle, balance, fails, succeeded, paid,
                 children, archived, snapshots, outbox, log>>

SkipDead(a) ==
  /\ At("visit", a)
  /\ lifecycle[a] = "DEAD"
  /\ pos' = pos + 1
  /\ UNCHANGED <<policy, pc, gen, lifecycle, balance, fails, succeeded, paid,
                 children, archived, snapshots, outbox, log>>

\* The upkeep an agent owes, by the state it is in.
Owed(a) == IF lifecycle[a] = "DORMANT" THEN policy.dormantUpkeep ELSE policy.upkeep

\* maintain and the event that follows it: an agent that cannot pay dies, a
\* dormant one does nothing else in this generation.
Maintain(a) ==
  /\ At("visit", a)
  /\ lifecycle[a] # "DEAD"
  /\ LET state == IF Owed(a) > balance[a] THEN "DEAD" ELSE lifecycle[a] IN
     /\ balance'   = [balance EXCEPT ![a] = Debit(@, Owed(a))]
     /\ lifecycle' = [lifecycle EXCEPT ![a] = state]
     /\ outbox'    = <<Event("AGENT_STATE_CHANGED", a, state)>>
     /\ \/ state = "DEAD"    /\ pc' = "dying" /\ pos' = pos
        \/ state = "DORMANT" /\ pc' = "visit" /\ pos' = pos + 1
        \/ state = "ACTIVE"  /\ pc' = "task"  /\ pos' = pos
  /\ UNCHANGED <<policy, gen, fails, succeeded, paid, children, archived,
                 snapshots, log>>

\* Bug: the death is announced and the legacy forgotten.
DieWithoutLegacy(a) ==
  /\ At("dying", a)
  /\ outbox' = <<Event("AGENT_DIED", a, "")>>
  /\ pc' = "visit" /\ pos' = pos + 1
  /\ UNCHANGED <<policy, gen, lifecycle, balance, fails, succeeded, paid,
                 children, archived, snapshots, log>>

\* die, up to the legacy: archiveDead writes it and feeds the ecology index.
Die(a) ==
  /\ At("dying", a)
  /\ outbox' = <<Event("AGENT_DIED", a, "")>>
  /\ pc' = "archiving"
  /\ UNCHANGED <<policy, gen, pos, lifecycle, balance, fails, succeeded, paid,
                 children, archived, snapshots, log>>

\* Bug: the visit of an agent that died goes on to its task.
ArchiveAndGoOn(a) ==
  /\ At("archiving", a)
  /\ archived' = archived \cup {a}
  /\ outbox' = <<Event("LEGACY_ARCHIVED", a, "")>>
  /\ pc' = "task"
  /\ UNCHANGED <<policy, gen, pos, lifecycle, balance, fails, succeeded, paid,
                 children, snapshots, log>>

ArchiveDead(a) ==
  /\ At("archiving", a)
  /\ archived' = archived \cup {a}
  /\ outbox' = <<Event("LEGACY_ARCHIVED", a, "")>>
  /\ pc' = "visit" /\ pos' = pos + 1
  /\ UNCHANGED <<policy, gen, lifecycle, balance, fails, succeeded, paid,
                 children, snapshots, log>>

\* The task is assigned, runs in its sandbox and is evaluated; an error while it
\* runs is a failed task.  Nothing else is looked at or changed in between.
RunTask(a, ok) ==
  /\ At("task", a)
  /\ succeeded' = ok
  /\ outbox' = <<Event("TASK_ASSIGNED", a, ""),
                 Event("EVALUATION_COMPLETED", a, IF ok THEN "success" ELSE "failure"),
                 Event("MEMORY_RECORDED", a, "")>>
  /\ pc' = "settle"
  /\ UNCHANGED <<policy, gen, pos, lifecycle, balance, fails, paid, children,
                 archived, snapshots, log>>

\* Bug: a success does not reset the counter of consecutive failures.
SettleKeepingFailures(a) ==
  /\ At("settle", a)
  /\ fails' = IF succeeded THEN fails ELSE [fails EXCEPT ![a] = @ + 1]
  /\ pc' = "evolve"
  /\ UNCHANGED <<policy, gen, pos, lifecycle, balance, succeeded, paid, children,
                 archived, snapshots, outbox, log>>

\* Success pays a reward, and the reward is the one transaction that is logged.
Settle(a) ==
  /\ At("settle", a)
  /\ \/ /\ succeeded
        /\ fails' = [fails EXCEPT ![a] = 0]
        /\ balance' = [balance EXCEPT ![a] = @ + policy.reward]
        /\ outbox' = <<TransactionEvent("ENERGY_REWARDED", a, balance[a], balance'[a])>>
     \/ /\ ~succeeded
        /\ fails' = [fails EXCEPT ![a] = @ + 1]
        /\ UNCHANGED <<balance, outbox>>
  /\ pc' = "evolve"
  /\ UNCHANGED <<policy, gen, pos, lifecycle, succeeded, paid, children,
                 archived, snapshots, log>>

\* Bug: the transition to DORMANT emits no event.
GoDormantSilently(a) ==
  /\ At("evolve", a)
  /\ balance[a] <= policy.dormantBelow
  /\ lifecycle' = [lifecycle EXCEPT ![a] = "DORMANT"]
  /\ pc' = "visit" /\ pos' = pos + 1
  /\ UNCHANGED <<policy, gen, balance, fails, succeeded, paid, children,
                 archived, snapshots, outbox, log>>

\* maybeEvolve, first choice: too little energy left.
GoDormant(a) ==
  /\ At("evolve", a)
  /\ balance[a] <= policy.dormantBelow
  /\ lifecycle' = [lifecycle EXCEPT ![a] = "DORMANT"]
  /\ outbox' = <<[Event("AGENT_STATE_CHANGED", a, "DORMANT") EXCEPT
                    !.reason = "threshold"]>>
  /\ pc' = "visit" /\ pos' = pos + 1
  /\ UNCHANGED <<policy, gen, balance, fails, succeeded, paid, children,
                 archived, snapshots, log>>

\* Bug: the price of a clone is taken for the threshold.
CanCloneAtPrice(a) == balance[a] > policy.dormantBelow /\ balance[a] >= policy.clone

CanClone(a) == balance[a] > policy.dormantBelow /\ balance[a] >= policy.cloneAbove

\* Second choice: the clone is paid for before anything about it is checked.
\* What mutations were applied is logged (once here, for any number of them)
\* before the embryo's fate is.
PayClone(a, mutated) ==
  /\ At("evolve", a)
  /\ CanClone(a)
  /\ paid' = (policy.clone <= balance[a])
  /\ mutated => paid'
  /\ balance' = [balance EXCEPT ![a] = Debit(@, policy.clone)]
  /\ outbox' = IF mutated THEN <<Event("MUTATION_CREATED", a, "")>> ELSE <<>>
  /\ pc' = "embryo"
  /\ UNCHANGED <<policy, gen, pos, lifecycle, fails, succeeded, children,
                 archived, snapshots, log>>

\* Bug: a parent that could not pay gets its child all the same.
EmbryoBornOnCredit(a) ==
  /\ At("embryo", a)
  /\ children' = children \cup {<<a, gen>>}
  /\ outbox' = <<BirthEvent(a)>>
  /\ pc' = "visit" /\ pos' = pos + 1
  /\ UNCHANGED <<policy, gen, lifecycle, balance, fails, succeeded, paid,
                 archived, snapshots, log>>

EmbryoBorn(a) ==
  /\ At("embryo", a)
  /\ paid
  /\ children' = children \cup {<<a, gen>>}
  /\ outbox' = <<BirthEvent(a)>>
  /\ pc' = "visit" /\ pos' = pos + 1
  /\ UNCHANGED <<policy, gen, lifecycle, balance, fails, succeeded, paid,
                 archived, snapshots, log>>

\* A payment that fell short, an illegal mutation or a genome that does not
\* load: the embryo is archived and the payment is kept.
EmbryoDies(a) ==
  /\ At("embryo", a)
  /\ outbox' = <<Event("EMBRYO_REJECTED", a, "")>>
  /\ pc' = "visit" /\ pos' = pos + 1
  /\ UNCHANGED <<policy, gen, lifecycle, balance, fails, succeeded, paid,
                 children, archived, snapshots, log>>

\* Third choice, after enough failures in a row: a plan that is missing or
\* rejected leaves everything as it was.
CanRewrite(a) == /\ balance[a] > policy.dormantBelow /\ ~CanClone(a)
                 /\ fails[a] >= policy.rewriteAfter

SelfRewrite(a, accepted) ==
  /\ At("evolve", a)
  /\ CanRewrite(a)
  /\ IF accepted
     THEN /\ fails' = [fails EXCEPT ![a] = 0]
          /\ outbox' = <<Event("GENOME_REWRITTEN", a, "")>>
     ELSE UNCHANGED <<fails, outbox>>
  /\ pc' = "visit" /\ pos' = pos + 1
  /\ UNCHANGED <<policy, gen, lifecycle, balance, succeeded, paid, children,
                 archived, snapshots, log>>

\* Bug: an agent nothing is wrong with finds no branch to take.
StayAfterFailure(a) ==
  /\ At("evolve", a)
  /\ balance[a] > policy.dormantBelow /\ ~CanClone(a) /\ ~CanRewrite(a)
  /\ fails[a] > 0
  /\ pc' = "visit" /\ pos' = pos + 1
  /\ UNCHANGED <<policy, gen, lifecycle, balance, fails, succeeded, paid,
                 children, archived, snapshots, outbox, log>>

StayAsIs(a) ==
  /\ At("evolve", a)
  /\ balance[a] > policy.dormantBelow /\ ~CanClone(a) /\ ~CanRewrite(a)
  /\ pc' = "visit" /\ pos' = pos + 1
  /\ UNCHANGED <<policy, gen, lifecycle, balance, fails, succeeded, paid,
                 children, archived, snapshots, outbox, log>>

\* Bug: the snapshot is of the agents of the plan.
SnapshotOfPlan == [seeded |-> lifecycle, born |-> {}]

\* PopulationController.snapshot: every agent that was registered, the children
\* among them as ACTIVE as they were born.
Snapshot == [seeded |-> lifecycle, born |-> children]

\* The snapshot is written to its file, then recorded in the log.
EndGeneration ==
  /\ pc = "visit" /\ outbox = <<>> /\ pos > Len(Order)
  /\ snapshots' = Append(snapshots, Snapshot)
  /\ outbox' = <<RunEvent("POPULATION_SNAPSHOT"), RunEvent("GENERATION_COMPLETED")>>
  /\ pc' = "generation" /\ gen' = gen + 1
  /\ UNCHANGED <<policy, pos, lifecycle, balance, fails, succeeded, paid,
                 children, archived, log>>

Visit(a) == \/ Seed(a) \/ SkipDead(a) \/ Maintain(a) \/ Die(a) \/ ArchiveDead(a)
            \/ \E ok \in BOOLEAN : RunTask(a, ok)
            \/ Settle(a) \/ GoDormant(a)
            \/ \E mutated \in BOOLEAN : PayClone(a, mutated)
            \/ EmbryoBorn(a) \/ EmbryoDies(a)
            \/ \E accepted \in BOOLEAN : SelfRewrite(a, accepted)
            \/ StayAsIs(a)

Next == \/ AppendEvent \/ SeedingDone \/ StartGeneration \/ EndGeneration
        \/ \E a \in Agents : Visit(a)

\* A task runs between the event that assigns it and the event that evaluates
\* it (`succeeded` is settled before, where nobody looks).
TaskRuns == pc = "settle" /\ outbox # <<>> /\ Head(outbox).type = "EVALUATION_COMPLETED"

\* Each await returns but one: appends and files do, and the providers' timeouts
\* bound a model's answer, but a command that has timed out is sent a single
\* SIGTERM and then awaited until it closes, so nothing says that a task ends.
Spec == Init /\ [][Next]_vars /\ WF_vars(~TaskRuns /\ Next)
-----------------------------------------------------------------------------
Events == [type : {"GENERATION_STARTED", "AGENT_STATE_CHANGED", "AGENT_DIED",
                   "LEGACY_ARCHIVED", "TASK_ASSIGNED", "EVALUATION_COMPLETED",
                   "MEMORY_RECORDED", "ENERGY_REWARDED", "MUTATION_CREATED",
                   "EMBRYO_QUALIFIED", "EMBRYO_REJECTED", "GENOME_REWRITTEN", "POPULATION_SNAPSHOT",
                   "GENERATION_COMPLETED"},
           agent : Agents \cup {""}, note : Lifecycles \cup {"", "success", "failure"},
           reason : {"", "threshold"}, before : Nat, after : Nat, generation : Nat]

Snapshots == [seeded : [Agents -> Lifecycles], born : SUBSET (Agents \X Nat)]

TypeOK ==
  /\ policy \in Plans
  /\ pc \in Stages /\ gen \in Nat /\ pos \in Nat
  /\ lifecycle \in [Agents -> Lifecycles]
  /\ balance \in [Agents -> Nat] /\ fails \in [Agents -> Nat]
  /\ succeeded \in BOOLEAN /\ paid \in BOOLEAN
  /\ children \subseteq Agents \X Nat /\ archived \subseteq Agents
  /\ snapshots \in Seq(Snapshots)
  /\ outbox \in Seq(Events) /\ log \in Seq(Events)

\* replayEvents: the lifecycle of an agent after the first n events, "none" for
\* one without an entry.
Logged(n, type, a) == {i \in 1..n : log[i].type = type /\ log[i].agent = a}

Replayed(n, a) ==
  LET states == Logged(n, "AGENT_STATE_CHANGED", a)
  IN IF states = {} THEN "none" ELSE log[Max(states)].note

\* The children the first n events name.  No state event ever does, so
\* replayEvents has no entry for any of them.
ChildOf(e) == <<e.agent, e.generation>>
Births(n)  == {ChildOf(log[i]) : i \in {j \in 1..n : log[j].type = "EMBRYO_QUALIFIED"}}

\* A log cut anywhere by a crash accounts for the population, but for the one
\* event that was still to be appended.  An agent of the plan replays to the
\* lifecycle it has, or has no entry and is ACTIVE as it was registered; a child
\* has been announced.
LifecycleReplays ==
  pc # "seed" =>
    /\ \A a \in Agents :
         \/ Replayed(Len(log), a) = lifecycle[a]
         \/ Replayed(Len(log), a) = "none" /\ lifecycle[a] = "ACTIVE"
         \/ \E i \in DOMAIN outbox : /\ outbox[i].type = "AGENT_STATE_CHANGED"
                                   /\ outbox[i].agent = a
                                   /\ outbox[i].note = lifecycle[a]
    /\ \A c \in children :
         \/ c \in Births(Len(log))
         \/ \E i \in DOMAIN outbox : /\ outbox[i].type = "EMBRYO_QUALIFIED"
                                   /\ ChildOf(outbox[i]) = c

\* The two records of a generation agree.  Of the agents of the plan the snapshot
\* on disk says what the events before it replay to, each of them having an entry
\* by then; beside them it holds the children those events announce, which replay
\* knows nothing of, and no others.
SnapshotAgreesWithLog ==
  LET ends == {i \in DOMAIN log : log[i].type = "POPULATION_SNAPSHOT"}
  IN \A i \in ends :
       LET saved == snapshots[Cardinality({j \in ends : j <= i})]
       IN /\ \A a \in Agents : saved.seeded[a] = Replayed(i, a)
          /\ saved.born = Births(i)

\* Everything the loop has emitted about an agent, appended or not.
Emitted(a, Test(_)) ==
  LET all == log \o outbox
  IN Cardinality({i \in DOMAIN all : all[i].agent = a /\ Test(all[i])})

UpkeepsPaid(a, state) ==
  Emitted(a, LAMBDA e : /\ e.type = "AGENT_STATE_CHANGED"
                        /\ e.note = state /\ e.reason = "")

Visited(a) == /\ pc \notin {"seed", "generation"}
              /\ \E i \in DOMAIN Order :
                   Order[i] = a /\ (i < pos \/ (i = pos /\ pc # "visit"))

\* Upkeep is charged once a generation to each living agent, whatever became of
\* the agents visited before it.
ChargedOncePerGeneration ==
  \A a \in Agents : lifecycle[a] \in {"ACTIVE", "DORMANT"} =>
    UpkeepsPaid(a, "ACTIVE") + UpkeepsPaid(a, "DORMANT")
      = gen + (IF Visited(a) THEN 1 ELSE 0)

\* The ledger against the history of the run.  No agent ever spends, on upkeep
\* and on children that live, more than it was given and earned; and when a
\* clone costs no more than the balance that allows it, the balance of a living
\* agent is what its events add up to.
BalanceIsAudited ==
  \A a \in Agents : lifecycle[a] # "none" =>
    LET income == policy.initial
          + policy.reward * Emitted(a, LAMBDA e : e.type = "ENERGY_REWARDED")
        upkeep == policy.upkeep * UpkeepsPaid(a, "ACTIVE")
          + policy.dormantUpkeep * UpkeepsPaid(a, "DORMANT")
        clones == Emitted(a, LAMBDA e : e.type \in {"EMBRYO_QUALIFIED", "EMBRYO_REJECTED"})
          + (IF pc = "embryo" /\ a = Order[pos] THEN 1 ELSE 0)
    IN /\ upkeep + policy.clone * Cardinality({c \in children : c[1] = a}) <= income
       /\ lifecycle[a] # "DEAD" /\ policy.clone <= policy.cloneAbove =>
            balance[a] = income - upkeep - policy.clone * clones

\* A genome is rewritten only after rewriteAfter failed tasks in a row since the
\* agent's last success and its last rewrite.
RewriteIsEarned ==
  \A i \in DOMAIN log : log[i].type = "GENOME_REWRITTEN" =>
    LET a     == log[i].agent
        tasks == Logged(i, "EVALUATION_COMPLETED", a)
        reset == {j \in tasks : log[j].note = "success"}
                   \cup Logged(i - 1, "GENOME_REWRITTEN", a)
    IN Cardinality({j \in tasks : \A k \in reset : k < j}) >= policy.rewriteAfter

\* A death leaves its legacy before any other agent is visited, and leaves it once.
DeathsAreArchived ==
  \A a \in Agents :
    /\ lifecycle[a] = "DEAD" /\ ~(pc \in {"dying", "archiving"} /\ a = Order[pos])
         => a \in archived
    /\ Emitted(a, LAMBDA e : e.type = "LEGACY_ARCHIVED") = IF a \in archived THEN 1 ELSE 0

\* A dead agent stays dead: nothing is charged to it, credited to it or done by it.
DeadIsFinal ==
  [][\A a \in Agents : lifecycle[a] = "DEAD" =>
       /\ lifecycle'[a] = "DEAD" /\ balance'[a] = balance[a] /\ fails'[a] = fails[a]
       /\ \A i \in DOMAIN outbox' : outbox'[i].agent = a =>
            outbox'[i].type \in {"AGENT_STATE_CHANGED", "AGENT_DIED", "LEGACY_ARCHIVED"}]_vars

\* A plan in which whoever stays awake can pay the next upkeep: at the start,
\* above the dormancy threshold and after a clone.
Sustainable(p) == /\ p.initial >= p.upkeep
                  /\ p.dormantBelow + 1 >= p.upkeep
                  /\ p.cloneAbove >= p.clone + p.upkeep

\* Under such a plan low energy means sleep, never sudden death: no agent dies
\* while it is ACTIVE, whatever its tasks, clones and rewrites come to.
SleepBeforeDeath ==
  [][Sustainable(policy) =>
       \A a \in Agents : lifecycle[a] = "ACTIVE" => lifecycle'[a] # "DEAD"]_vars

\* The run reaches its last generation and stops there, unless it waits for ever
\* for the commands of one task.
RunEnds == <>[](pc = "generation" /\ gen = Generations) \/ <>[]TaskRuns

\* applyTransaction, for a reward: it must start from the balance held, and end
\* where the policy says.
Applies(e, held) == e.before = held /\ e.after = held + policy.reward

\* replayEnergyEvents: the balance of an agent after the first n events.
Held(n, a) ==
  LET transactions == Logged(n, "ENERGY_REWARDED", a)
  IN IF transactions = {} THEN policy.initial ELSE log[Max(transactions)].after

\* "Every step emits events so a run replays exactly": replayEnergyEvents
\* accepts the energy events of the log.
EnergyReplays ==
  \A a \in Agents : \A i \in Logged(Len(log), "ENERGY_REWARDED", a) :
    Applies(log[i], Held(i - 1, a))
=============================================================================
