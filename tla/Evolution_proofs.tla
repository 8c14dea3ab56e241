-------------------------- MODULE Evolution_proofs --------------------------
(***************************************************************************)
(* Proofs about Evolution, for any plan: any agents in any order, any      *)
(* energy policy and thresholds, any number of generations.                *)
(*                                                                         *)
(* First the state of the loop (Inv), then its books: what the loop has    *)
(* said so far, All, is the log and what waits to be appended to it, and   *)
(* Audit relates it to the ledger, the population and the snapshots.       *)
(***************************************************************************)
EXTENDS Evolution, SequenceTheorems, FiniteSetTheorems, TLAPS

\* Where a visit stands: the agent that works is ACTIVE, the one that is being
\* archived is DEAD, and nobody dies before the first generation.
Working == {"task", "settle", "evolve", "embryo"}

VisitInv ==
  /\ pc \in Working => pos \in DOMAIN Order /\ lifecycle[Order[pos]] = "ACTIVE"
  /\ pc \in {"dying", "archiving"} =>
       pos \in DOMAIN Order /\ lifecycle[Order[pos]] = "DEAD"
  /\ pc = "seed" => \A a \in Agents : lifecycle[a] # "DEAD"

\* What is still to be logged about a dead agent is about its death.
OutboxInv ==
  \A a \in Agents : lifecycle[a] = "DEAD" =>
    \A i \in DOMAIN outbox : outbox[i].agent = a =>
      outbox[i].type \in {"AGENT_STATE_CHANGED", "AGENT_DIED", "LEGACY_ARCHIVED"}

\* Under a sustainable plan whoever is awake can pay the next upkeep, but for
\* the agent that has paid and has not yet decided what to do.
AwakeInv ==
  Sustainable(policy) =>
    \A a \in Agents : lifecycle[a] = "ACTIVE" =>
      \/ balance[a] >= policy.upkeep
      \/ pc \in {"task", "settle", "evolve"} /\ a = Order[pos]

-----------------------------------------------------------------------------
\* Every event the loop emits is one.
LEMMA EventType ==
  ASSUME NEW t \in {"GENERATION_STARTED", "AGENT_STATE_CHANGED", "AGENT_DIED",
                    "LEGACY_ARCHIVED", "TASK_ASSIGNED", "EVALUATION_COMPLETED",
                    "MEMORY_RECORDED", "ENERGY_REWARDED", "MUTATION_CREATED",
                    "EMBRYO_QUALIFIED", "EMBRYO_REJECTED", "GENOME_REWRITTEN", "POPULATION_SNAPSHOT",
                    "GENERATION_COMPLETED"},
         NEW a \in Agents \cup {""},
         NEW n \in Lifecycles \cup {"", "success", "failure"}
  PROVE  Event(t, a, n) \in Events
  BY DEF Event, Events

LEMMA BirthType ==
  ASSUME NEW a \in Agents, gen \in Nat
  PROVE  /\ BirthEvent(a) \in Events /\ BirthEvent(a).type = "EMBRYO_QUALIFIED"
         /\ BirthEvent(a).agent = a /\ BirthEvent(a).note = "" /\ BirthEvent(a).reason = ""
         /\ BirthEvent(a).generation = gen
  BY DEF BirthEvent, Event, Events

\* What a step emits is a sequence of events.
LEMMA OneEvent ==
  ASSUME NEW e \in Events
  PROVE  <<e>> \in Seq(Events)
  OBVIOUS

LEMMA MoreEvents ==
  ASSUME NEW S, NEW d \in S, NEW e \in S, NEW f \in S
  PROVE  <<d, e>> \in Seq(S) /\ <<d, e, f>> \in Seq(S)
  OBVIOUS

\* A plan that parses has no negative energy in it.
LEMMA PlansType ==
  ASSUME NEW p \in Plans
  PROVE  /\ p.initial \in Nat /\ p.upkeep \in Nat /\ p.dormantUpkeep \in Nat
         /\ p.clone \in Nat /\ p.reward \in Nat
         /\ p.cloneAbove \in Nat /\ p.dormantBelow \in Nat
  BY PoliciesType DEF Plans, IsPlan, IsEnergyPolicy

\* The variables the invariants below are about.
StateOK ==
  /\ policy \in Plans
  /\ pc \in Stages /\ gen \in Nat /\ pos \in Nat
  /\ lifecycle \in [Agents -> Lifecycles]
  /\ balance \in [Agents -> Nat] /\ fails \in [Agents -> Nat]

LEMMA StateInit == Init => StateOK
  BY DEF Init, StateOK, Stages, Lifecycles

LEMMA StateNext == StateOK /\ [Next]_vars => StateOK'
<1> SUFFICES ASSUME StateOK, [Next]_vars PROVE StateOK'
  OBVIOUS
<1> USE DEF StateOK, Stages, Lifecycles
<1>0. policy.initial \in Nat /\ policy.reward \in Nat /\ policy.clone \in Nat
      /\ policy.upkeep \in Nat /\ policy.dormantUpkeep \in Nat
  BY PlansType
<1>1. CASE AppendEvent
  BY <1>1 DEF AppendEvent
<1>2. CASE SeedingDone
  BY <1>2 DEF SeedingDone
<1>3. CASE StartGeneration
  BY <1>3 DEF StartGeneration
<1>4. CASE EndGeneration
  BY <1>4 DEF EndGeneration
<1>5. ASSUME NEW a \in Agents, Visit(a) PROVE StateOK'
  <2>1. CASE Seed(a)
    BY <2>1, <1>0 DEF Seed
  <2>2. CASE SkipDead(a)
    BY <2>2 DEF SkipDead
  <2>3. CASE Maintain(a)
    <3>1. Debit(balance[a], Owed(a)) \in Nat
      BY <1>0 DEF Debit, Owed
    <3> QED BY <2>3, <3>1 DEF Maintain
  <2>4. CASE Die(a)
    BY <2>4 DEF Die
  <2>5. CASE ArchiveDead(a)
    <3>1. pc' = "visit" /\ pos' = pos + 1
          /\ UNCHANGED <<policy, gen, lifecycle, balance, fails>>
      BY <2>5 DEF ArchiveDead
    <3> QED BY <3>1
  <2>6. ASSUME NEW ok \in BOOLEAN, RunTask(a, ok) PROVE StateOK'
    BY <2>6 DEF RunTask
  <2>7. CASE Settle(a)
    BY <2>7, <1>0 DEF Settle
  <2>8. CASE GoDormant(a)
    BY <2>8 DEF GoDormant
  <2>9. ASSUME NEW mutated \in BOOLEAN, PayClone(a, mutated) PROVE StateOK'
    <3>1. Debit(balance[a], policy.clone) \in Nat
      BY <1>0 DEF Debit
    <3> QED BY <2>9, <3>1 DEF PayClone
  <2>10. CASE EmbryoBorn(a)
    <3>1. pc' = "visit" /\ pos' = pos + 1
          /\ UNCHANGED <<policy, gen, lifecycle, balance, fails>>
      BY <2>10 DEF EmbryoBorn
    <3> QED BY <3>1
  <2>11. CASE EmbryoDies(a)
    <3>1. pc' = "visit" /\ pos' = pos + 1
          /\ UNCHANGED <<policy, gen, lifecycle, balance, fails>>
      BY <2>11 DEF EmbryoDies
    <3> QED BY <3>1
  <2>12. ASSUME NEW accepted \in BOOLEAN, SelfRewrite(a, accepted) PROVE StateOK'
    <3>1. pc' = "visit" /\ pos' = pos + 1 /\ UNCHANGED <<policy, gen, lifecycle, balance>>
      BY <2>12 DEF SelfRewrite
    <3>2. fails' = fails \/ fails' = [fails EXCEPT ![a] = 0]
      BY <2>12 DEF SelfRewrite
    <3> QED BY <3>1, <3>2
  <2>13. CASE StayAsIs(a)
    BY <2>13 DEF StayAsIs
  <2> QED BY <1>5, <2>1, <2>2, <2>3, <2>4, <2>5, <2>6, <2>7, <2>8, <2>9, <2>10,
             <2>11, <2>12, <2>13 DEF Visit
<1>6. CASE UNCHANGED vars
  BY <1>6 DEF vars
<1> QED BY <1>1, <1>2, <1>3, <1>4, <1>5, <1>6 DEF Next
-----------------------------------------------------------------------------
\* The other variables: flags and sets, the files and the log.
FlagsOK == /\ succeeded \in BOOLEAN /\ paid \in BOOLEAN
           /\ archived \subseteq Agents

LEMMA FlagsNext == FlagsOK /\ [Next]_vars => FlagsOK'
<1> SUFFICES ASSUME FlagsOK, [Next]_vars PROVE FlagsOK'
  OBVIOUS
<1>1. CASE AppendEvent \/ SeedingDone \/ StartGeneration \/ EndGeneration \/ UNCHANGED vars
  BY <1>1 DEF FlagsOK, AppendEvent, SeedingDone, StartGeneration, EndGeneration, vars
<1>2. ASSUME NEW a \in Agents, Visit(a) PROVE FlagsOK'
  <2>1. CASE \/ Seed(a) \/ SkipDead(a) \/ Maintain(a) \/ Die(a) \/ Settle(a) \/ GoDormant(a)
             \/ EmbryoBorn(a) \/ EmbryoDies(a) \/ StayAsIs(a)
    BY <2>1 DEF FlagsOK, Seed, SkipDead, Maintain, Die, Settle, GoDormant, EmbryoBorn,
                EmbryoDies, StayAsIs
  <2>2. CASE ArchiveDead(a)
    BY <2>2 DEF FlagsOK, ArchiveDead
  <2>3. ASSUME NEW ok \in BOOLEAN, RunTask(a, ok) PROVE FlagsOK'
    BY <2>3 DEF FlagsOK, RunTask
  <2>4. ASSUME NEW mutated \in BOOLEAN, PayClone(a, mutated) PROVE FlagsOK'
    <3>1. paid' = (policy.clone <= balance[a]) /\ UNCHANGED <<succeeded, archived>>
      BY <2>4 DEF PayClone
    <3>2. paid' \in BOOLEAN
      BY <3>1
    <3> QED BY <3>1, <3>2 DEF FlagsOK
  <2>5. ASSUME NEW accepted \in BOOLEAN, SelfRewrite(a, accepted) PROVE FlagsOK'
    BY <2>5 DEF FlagsOK, SelfRewrite
  <2> QED BY <1>2, <2>1, <2>2, <2>3, <2>4, <2>5 DEF Visit
<1> QED BY <1>1, <1>2 DEF Next
-----------------------------------------------------------------------------
\* The events that wait and the events on disk.
LogOK == outbox \in Seq(Events) /\ log \in Seq(Events)

LEMMA LogNext == StateOK /\ StateOK' /\ LogOK /\ [Next]_vars => LogOK'
<1> SUFFICES ASSUME StateOK, StateOK', LogOK, [Next]_vars PROVE LogOK'
  OBVIOUS
<1>1. CASE AppendEvent
  <2>1. Head(outbox) \in Events /\ Tail(outbox) \in Seq(Events)
    BY <1>1, HeadTailProperties DEF AppendEvent, LogOK
  <2>2. Append(log, Head(outbox)) \in Seq(Events)
    BY <2>1, AppendProperties DEF LogOK
  <2> QED BY <1>1, <2>1, <2>2 DEF AppendEvent, LogOK
<1>2. CASE SeedingDone \/ UNCHANGED vars
  BY <1>2 DEF SeedingDone, vars, LogOK
<1>3. CASE StartGeneration
  <2>1. Event("GENERATION_STARTED", "", "") \in Events
    BY EventType
  <2> QED BY <1>3, <2>1, OneEvent DEF StartGeneration, RunEvent, LogOK
<1>4. CASE EndGeneration
  <2>1. /\ Event("POPULATION_SNAPSHOT", "", "") \in Events
        /\ Event("GENERATION_COMPLETED", "", "") \in Events
    BY EventType
  <2>2. outbox' = <<Event("POPULATION_SNAPSHOT", "", ""), Event("GENERATION_COMPLETED", "", "")>>
        /\ log' = log
    BY <1>4 DEF EndGeneration, RunEvent
  <2> QED BY <2>1, <2>2, MoreEvents DEF LogOK
<1>5. ASSUME NEW a \in Agents, Visit(a) PROVE LogOK'
  <2>1. CASE Seed(a) \/ SkipDead(a) \/ StayAsIs(a)
    BY <2>1 DEF Seed, SkipDead, StayAsIs, LogOK
  <2>2. CASE Maintain(a)
    <3>1. PICK state \in Lifecycles : outbox' = <<Event("AGENT_STATE_CHANGED", a, state)>>
      BY <2>2 DEF Maintain, StateOK, Lifecycles
    <3>2. Event("AGENT_STATE_CHANGED", a, state) \in Events
      BY EventType
    <3> QED BY <2>2, <3>1, <3>2, OneEvent DEF Maintain, LogOK
  <2>3. CASE Die(a)
    BY <2>3, EventType, OneEvent DEF Die, LogOK
  <2>4. CASE ArchiveDead(a)
    BY <2>4, EventType, OneEvent DEF ArchiveDead, LogOK
  <2>5. ASSUME NEW ok \in BOOLEAN, RunTask(a, ok) PROVE LogOK'
    <3>1. PICK n \in {"success", "failure"} :
            outbox' = <<Event("TASK_ASSIGNED", a, ""), Event("EVALUATION_COMPLETED", a, n),
                        Event("MEMORY_RECORDED", a, "")>>
      BY <2>5 DEF RunTask
    <3>2. /\ Event("TASK_ASSIGNED", a, "") \in Events
          /\ Event("EVALUATION_COMPLETED", a, n) \in Events
          /\ Event("MEMORY_RECORDED", a, "") \in Events
      BY EventType
    <3>3. log' = log
      BY <2>5 DEF RunTask
    <3> QED BY <3>1, <3>2, <3>3, MoreEvents DEF LogOK
  <2>6. CASE Settle(a)
    <3>1. CASE succeeded
      <4>1. balance[a] \in Nat /\ balance'[a] \in Nat
        BY DEF StateOK
      <4>2. TransactionEvent("ENERGY_REWARDED", a, balance[a], balance'[a]) \in Events
        BY <4>1 DEF TransactionEvent, Event, Events
      <4> QED BY <2>6, <3>1, <4>2, OneEvent DEF Settle, LogOK
    <3>2. CASE ~succeeded
      BY <2>6, <3>2 DEF Settle, LogOK
    <3> QED BY <3>1, <3>2
  <2>7. CASE GoDormant(a)
    <3>1. [Event("AGENT_STATE_CHANGED", a, "DORMANT") EXCEPT !.reason = "threshold"]
            \in Events
      BY DEF Event, Events, Lifecycles
    <3> QED BY <2>7, <3>1, OneEvent DEF GoDormant, LogOK
  <2>8. CASE EmbryoBorn(a)
    BY <2>8, BirthType, OneEvent DEF EmbryoBorn, LogOK, StateOK
  <2>9. CASE EmbryoDies(a)
    BY <2>9, EventType, OneEvent DEF EmbryoDies, LogOK
  <2>10. ASSUME NEW accepted \in BOOLEAN, SelfRewrite(a, accepted) PROVE LogOK'
    BY <2>10, EventType, OneEvent DEF SelfRewrite, LogOK
  <2>11. ASSUME NEW mutated \in BOOLEAN, PayClone(a, mutated) PROVE LogOK'
    <3>1. /\ outbox' = <<>> \/ outbox' = <<Event("MUTATION_CREATED", a, "")>>
          /\ log' = log /\ outbox = <<>>
      BY <2>11 DEF PayClone, At
    <3>2. Event("MUTATION_CREATED", a, "") \in Events
      BY EventType
    <3> QED BY <3>1, <3>2, OneEvent DEF LogOK
  <2> QED BY <1>5, <2>1, <2>2, <2>3, <2>4, <2>5, <2>6, <2>7, <2>8, <2>9, <2>10, <2>11 DEF Visit
<1> QED BY <1>1, <1>2, <1>3, <1>4, <1>5 DEF Next
-----------------------------------------------------------------------------
\* The visit of an agent goes on while it is alive and ends with its archive.
LEMMA VisitNext == StateOK /\ VisitInv /\ [Next]_vars => VisitInv'
<1> SUFFICES ASSUME StateOK, VisitInv, [Next]_vars PROVE VisitInv'
  OBVIOUS
<1> USE DEF VisitInv, Working
<1>1. CASE AppendEvent
  BY <1>1 DEF AppendEvent
<1>2. CASE SeedingDone
  BY <1>2 DEF SeedingDone
<1>3. CASE StartGeneration
  BY <1>3 DEF StartGeneration
<1>4. CASE EndGeneration
  BY <1>4 DEF EndGeneration
<1>5. ASSUME NEW a \in Agents, Visit(a) PROVE VisitInv'
  <2>1. CASE Seed(a)
    <3>1. pc' = "seed" /\ lifecycle' = [lifecycle EXCEPT ![a] = "ACTIVE"] /\ pc = "seed"
      BY <2>1 DEF Seed, At
    <3> QED BY <3>1 DEF StateOK
  <2>2. CASE Maintain(a)
    <3>1. pos \in DOMAIN Order /\ a = Order[pos] /\ pc = "visit"
      BY <2>2 DEF Maintain, At
    <3>2. PICK state \in Lifecycles :
             /\ lifecycle' = [lifecycle EXCEPT ![a] = state]
             /\ \/ state = "DEAD"    /\ pc' = "dying" /\ pos' = pos
                \/ state = "DORMANT" /\ pc' = "visit"
                \/ state = "ACTIVE"  /\ pc' = "task"  /\ pos' = pos
      BY <2>2 DEF Maintain, StateOK, Lifecycles
    <3> QED BY <3>1, <3>2 DEF StateOK
  <2>3. CASE Die(a)
    BY <2>3 DEF Die, At
  <2>4. CASE SkipDead(a) \/ ArchiveDead(a) \/ GoDormant(a) \/ EmbryoBorn(a) \/ EmbryoDies(a)
             \/ StayAsIs(a)
    <3>1. pc' = "visit" \/ (pc' = pc /\ pc = "visit")
      BY <2>4 DEF SkipDead, ArchiveDead, GoDormant, EmbryoBorn, EmbryoDies, StayAsIs, At
    <3> QED BY <3>1
  <2>5. ASSUME NEW ok \in BOOLEAN, RunTask(a, ok) PROVE VisitInv'
    BY <2>5 DEF RunTask, At
  <2>6. CASE Settle(a)
    BY <2>6 DEF Settle, At
  <2>7. ASSUME NEW mutated \in BOOLEAN, PayClone(a, mutated) PROVE VisitInv'
    BY <2>7 DEF PayClone, At
  <2>8. ASSUME NEW accepted \in BOOLEAN, SelfRewrite(a, accepted) PROVE VisitInv'
    BY <2>8 DEF SelfRewrite
  <2> QED BY <1>5, <2>1, <2>2, <2>3, <2>4, <2>5, <2>6, <2>7, <2>8 DEF Visit
<1>6. CASE UNCHANGED vars
  BY <1>6 DEF vars
<1> QED BY <1>1, <1>2, <1>3, <1>4, <1>5, <1>6 DEF Next
-----------------------------------------------------------------------------
\* Events that name a dead agent tell of its death: the agent whose step emits
\* anything else is ACTIVE when it does, and still is, or sleeps, afterwards.
Mourned(b, events) ==
  \A i \in DOMAIN events : events[i].agent = b =>
    events[i].type \in {"AGENT_STATE_CHANGED", "AGENT_DIED", "LEGACY_ARCHIVED"}

LEMMA EventFields ==
  ASSUME NEW t, NEW a, NEW n
  PROVE  Event(t, a, n).agent = a /\ Event(t, a, n).type = t
  BY DEF Event

LEMMA ElementsOf ==
  ASSUME NEW d, NEW e, NEW f
  PROVE  /\ \A i \in DOMAIN <<d>> : <<d>>[i] = d
         /\ \A i \in DOMAIN <<d, e>> : <<d, e>>[i] \in {d, e}
         /\ \A i \in DOMAIN <<d, e, f>> : <<d, e, f>>[i] \in {d, e, f}
  OBVIOUS

LEMMA OneAbout ==
  ASSUME NEW t, NEW a, NEW n
  PROVE  \A i \in DOMAIN <<Event(t, a, n)>> : <<Event(t, a, n)>>[i].agent = a
<1> DEFINE d == Event(t, a, n)
<1>1. d.agent = a
  BY DEF Event
<1> HIDE DEF d
<1>2. \A i \in DOMAIN <<d>> : <<d>>[i].agent = a
  BY <1>1, ElementsOf
<1> QED BY <1>2 DEF d

LEMMA MoreAbout ==
  ASSUME NEW s, NEW d, NEW e, NEW f, NEW a,
         d.agent = a, e.agent = a, f.agent = a,
         s = <<d, e>> \/ s = <<d, e, f>>
  PROVE  \A i \in DOMAIN s : s[i].agent = a
<1>1. \A i \in DOMAIN s : s[i] \in {d, e, f}
  OBVIOUS
<1> QED BY <1>1

LEMMA OutboxNext ==
  StateOK /\ StateOK' /\ LogOK /\ VisitInv /\ OutboxInv /\ [Next]_vars => OutboxInv'
<1> SUFFICES ASSUME StateOK, StateOK', LogOK, VisitInv, OutboxInv, [Next]_vars,
                    NEW b \in Agents, lifecycle'[b] = "DEAD"
             PROVE  Mourned(b, outbox')
  BY DEF OutboxInv, Mourned
<1>0. lifecycle[b] = "DEAD" => Mourned(b, outbox)
  BY DEF OutboxInv, Mourned
<1>1. CASE AppendEvent
  <2>1. \A i \in DOMAIN outbox' : i + 1 \in DOMAIN outbox /\ outbox'[i] = outbox[i + 1]
    BY <1>1, HeadTailProperties DEF AppendEvent, LogOK
  <2> QED BY <1>0, <1>1, <2>1 DEF AppendEvent, Mourned
<1>2. CASE SeedingDone \/ UNCHANGED vars
  BY <1>0, <1>2 DEF SeedingDone, vars
<1>3. CASE StartGeneration \/ EndGeneration
  <2>1. \A i \in DOMAIN outbox' : outbox'[i].agent = ""
    <3>1. CASE StartGeneration
      <4>1. outbox' = <<Event("GENERATION_STARTED", "", "")>>
        BY <3>1 DEF StartGeneration, RunEvent
      <4> QED BY <4>1, OneAbout
    <3>2. CASE EndGeneration
      <4> DEFINE d == Event("POPULATION_SNAPSHOT", "", "")
                 e == Event("GENERATION_COMPLETED", "", "")
      <4>1. outbox' = <<d, e>>
        BY <3>2 DEF EndGeneration, RunEvent
      <4>2. d.agent = "" /\ e.agent = ""
        BY DEF Event
      <4> HIDE DEF d, e
      <4> QED BY <4>1, <4>2, MoreAbout
    <3> QED BY <1>3, <3>1, <3>2
  <2> QED BY <2>1, AgentsAreNamed DEF Mourned
<1>4. ASSUME NEW a \in Agents, Visit(a) PROVE Mourned(b, outbox')
  <2>0. a = Order[pos]
    BY <1>4 DEF Visit, At, Seed, SkipDead, Maintain, Die, ArchiveDead, RunTask, Settle,
                GoDormant, PayClone, EmbryoBorn, EmbryoDies, SelfRewrite, StayAsIs
  <2>1. CASE Seed(a) \/ SkipDead(a) \/ StayAsIs(a)
    <3>1. outbox' = <<>>
      BY <2>1 DEF Seed, SkipDead, StayAsIs, At
    <3> QED BY <3>1 DEF Mourned
  <2>2. CASE Maintain(a) \/ Die(a) \/ ArchiveDead(a)
    <3>1. \E t \in {"AGENT_STATE_CHANGED", "AGENT_DIED", "LEGACY_ARCHIVED"} : \E n :
            outbox' = <<Event(t, a, n)>>
      BY <2>2 DEF Maintain, Die, ArchiveDead
    <3>2. PICK t \in {"AGENT_STATE_CHANGED", "AGENT_DIED", "LEGACY_ARCHIVED"} :
            \E n : outbox' = <<Event(t, a, n)>>
      BY <3>1
    <3>3. PICK n : outbox' = <<Event(t, a, n)>>
      BY <3>2
    <3> QED BY <3>3, EventFields, ElementsOf DEF Mourned
  <2>3. ASSUME pc \in Working, lifecycle'[a] # "DEAD", \A i \in DOMAIN outbox' : outbox'[i].agent = a
        PROVE  Mourned(b, outbox')
    BY <2>3 DEF Mourned
  <2>4. ASSUME NEW ok \in BOOLEAN, RunTask(a, ok) PROVE Mourned(b, outbox')
    <3>1. pc \in Working /\ lifecycle' = lifecycle
      BY <2>4 DEF RunTask, At, Working
    <3>2. \A i \in DOMAIN outbox' : outbox'[i].agent = a
      <4> DEFINE d == Event("TASK_ASSIGNED", a, "")
                 e == Event("EVALUATION_COMPLETED", a, IF ok THEN "success" ELSE "failure")
                 f == Event("MEMORY_RECORDED", a, "")
      <4>1. outbox' = <<d, e, f>>
        BY <2>4 DEF RunTask
      <4>2. d.agent = a /\ e.agent = a /\ f.agent = a
        BY DEF Event
      <4> HIDE DEF d, e, f
      <4> QED BY <4>1, <4>2, MoreAbout
    <3> QED BY <2>0, <2>3, <3>1, <3>2 DEF VisitInv
  <2>5. CASE Settle(a)
    <3>1. pc \in Working /\ lifecycle' = lifecycle /\ outbox = <<>>
      BY <2>5 DEF Settle, At, Working
    <3>2. \A i \in DOMAIN outbox' : outbox'[i].agent = a
      <4>1. CASE succeeded
        <5> DEFINE e == TransactionEvent("ENERGY_REWARDED", a, balance[a], balance'[a])
        <5>1. e.agent = a
          BY DEF TransactionEvent, Event
        <5>2. outbox' = <<e>>
          BY <2>5, <4>1 DEF Settle
        <5> HIDE DEF e
        <5> QED BY <5>1, <5>2, ElementsOf
      <4>2. CASE ~succeeded
        BY <2>5, <3>1, <4>2 DEF Settle
      <4> QED BY <4>1, <4>2
    <3> QED BY <2>0, <2>3, <3>1, <3>2 DEF VisitInv
  <2>6. CASE GoDormant(a)
    <3>1. pc \in Working /\ lifecycle' = [lifecycle EXCEPT ![a] = "DORMANT"]
      BY <2>6 DEF GoDormant, At, Working
    <3>2. \A i \in DOMAIN outbox' : outbox'[i].agent = a
      <4> DEFINE e == [Event("AGENT_STATE_CHANGED", a, "DORMANT") EXCEPT !.reason = "threshold"]
      <4>1. e.agent = a
        BY DEF Event
      <4>2. outbox' = <<e>>
        BY <2>6 DEF GoDormant
      <4> HIDE DEF e
      <4> QED BY <4>1, <4>2, ElementsOf
    <3> QED BY <2>3, <3>1, <3>2 DEF StateOK
  <2>7. CASE EmbryoBorn(a) \/ EmbryoDies(a)
    <3>1. pc \in Working /\ lifecycle' = lifecycle
      BY <2>7 DEF EmbryoBorn, EmbryoDies, At, Working
    <3>2. \A i \in DOMAIN outbox' : outbox'[i].agent = a
      <4>1. CASE EmbryoBorn(a)
        <5>1. outbox' = <<BirthEvent(a)>> /\ BirthEvent(a).agent = a
          BY <4>1, BirthType DEF EmbryoBorn, StateOK
        <5> QED BY <5>1, ElementsOf
      <4>2. CASE EmbryoDies(a)
        <5>1. outbox' = <<Event("EMBRYO_REJECTED", a, "")>>
          BY <4>2 DEF EmbryoDies
        <5> QED BY <5>1, OneAbout
      <4> QED BY <2>7, <4>1, <4>2
    <3> QED BY <2>0, <2>3, <3>1, <3>2 DEF VisitInv
  <2>8. ASSUME NEW accepted \in BOOLEAN, SelfRewrite(a, accepted) PROVE Mourned(b, outbox')
    <3>1. pc \in Working /\ lifecycle' = lifecycle /\ outbox = <<>>
      BY <2>8 DEF SelfRewrite, At, Working
    <3>2. \A i \in DOMAIN outbox' : outbox'[i].agent = a
      <4>1. outbox' = <<>> \/ outbox' = <<Event("GENOME_REWRITTEN", a, "")>>
        BY <2>8, <3>1 DEF SelfRewrite
      <4>2. CASE outbox' = <<>>
        BY <4>2
      <4>3. CASE outbox' = <<Event("GENOME_REWRITTEN", a, "")>>
        BY <4>3, OneAbout
      <4> QED BY <4>1, <4>2, <4>3
    <3> QED BY <2>0, <2>3, <3>1, <3>2 DEF VisitInv
  <2>9. ASSUME NEW mutated \in BOOLEAN, PayClone(a, mutated) PROVE Mourned(b, outbox')
    <3>1. pc \in Working /\ lifecycle' = lifecycle
      BY <2>9 DEF PayClone, At, Working
    <3>2. \A i \in DOMAIN outbox' : outbox'[i].agent = a
      <4>1. outbox' = <<>> \/ outbox' = <<Event("MUTATION_CREATED", a, "")>>
        BY <2>9 DEF PayClone
      <4>2. CASE outbox' = <<>>
        BY <4>2
      <4>3. CASE outbox' = <<Event("MUTATION_CREATED", a, "")>>
        BY <4>3, OneAbout
      <4> QED BY <4>1, <4>2, <4>3
    <3> QED BY <2>0, <2>3, <3>1, <3>2 DEF VisitInv
  <2> QED BY <1>4, <2>1, <2>2, <2>4, <2>5, <2>6, <2>7, <2>8, <2>9 DEF Visit
<1> QED BY <1>1, <1>2, <1>3, <1>4 DEF Next
-----------------------------------------------------------------------------
\* An agent that stays awake has the means for its next upkeep: it starts with
\* them, it goes to sleep when its balance falls to the threshold, and a clone
\* leaves them untouched.
LEMMA AwakeNext ==
  StateOK /\ StateOK' /\ VisitInv /\ AwakeInv /\ [Next]_vars => AwakeInv'
<1> SUFFICES ASSUME StateOK, StateOK', VisitInv, AwakeInv, [Next]_vars, Sustainable(policy'),
                    NEW b \in Agents, lifecycle'[b] = "ACTIVE"
             PROVE  \/ balance'[b] >= policy'.upkeep
                    \/ pc' \in {"task", "settle", "evolve"} /\ b = Order[pos']
  BY DEF AwakeInv
<1>a. policy' = policy
  BY DEF Next, Visit, vars, AppendEvent, SeedingDone, StartGeneration, EndGeneration, Seed,
         SkipDead, Maintain, Die, ArchiveDead, RunTask, Settle, GoDormant, PayClone, EmbryoBorn,
         EmbryoDies, SelfRewrite, StayAsIs
<1>b. /\ policy.initial \in Nat /\ policy.upkeep \in Nat /\ policy.clone \in Nat
      /\ policy.reward \in Nat /\ policy.cloneAbove \in Int /\ policy.dormantBelow \in Int
  BY PlansType DEF StateOK
<1>c. /\ policy.initial >= policy.upkeep
      /\ policy.dormantBelow + 1 >= policy.upkeep
      /\ policy.cloneAbove >= policy.clone + policy.upkeep
  BY <1>a DEF Sustainable
<1>d. lifecycle[b] = "ACTIVE" =>
        \/ balance[b] >= policy.upkeep
        \/ pc \in {"task", "settle", "evolve"} /\ b = Order[pos]
  BY <1>a DEF AwakeInv
<1>e. balance[b] \in Nat /\ balance'[b] \in Nat
  BY DEF StateOK
<1>1. CASE AppendEvent
  BY <1>1, <1>a, <1>d DEF AppendEvent
<1>2. CASE SeedingDone
  BY <1>2, <1>a, <1>d DEF SeedingDone
<1>3. CASE StartGeneration
  BY <1>3, <1>a, <1>d DEF StartGeneration
<1>4. CASE EndGeneration
  BY <1>4, <1>a, <1>d DEF EndGeneration
<1>5. CASE UNCHANGED vars
  BY <1>5, <1>d DEF vars
<1>6. ASSUME NEW a \in Agents, Visit(a)
      PROVE  \/ balance'[b] >= policy'.upkeep
             \/ pc' \in {"task", "settle", "evolve"} /\ b = Order[pos']
  <2>1. CASE Seed(a)
    <3>1. /\ lifecycle' = [lifecycle EXCEPT ![a] = "ACTIVE"]
          /\ balance' = [balance EXCEPT ![a] = policy.initial]
          /\ pc = "seed"
      BY <2>1 DEF Seed, At
    <3> QED BY <3>1, <1>a, <1>b, <1>c, <1>d DEF StateOK
  <2>2. CASE SkipDead(a) \/ Die(a) \/ ArchiveDead(a) \/ EmbryoBorn(a) \/ EmbryoDies(a)
    <3>1. /\ lifecycle' = lifecycle /\ balance' = balance
          /\ pc \in {"visit", "dying", "archiving", "embryo"}
      BY <2>2 DEF SkipDead, Die, ArchiveDead, EmbryoBorn, EmbryoDies, At
    <3> QED BY <3>1, <1>a, <1>d
  <2>3. CASE Maintain(a)
    <3>1. /\ balance' = [balance EXCEPT ![a] = Debit(balance[a], Owed(a))]
          /\ pc = "visit" /\ a = Order[pos]
      BY <2>3 DEF Maintain, At
    <3>2. PICK state \in Lifecycles :
             /\ lifecycle' = [lifecycle EXCEPT ![a] = state]
             /\ state = "ACTIVE" => pc' = "task" /\ pos' = pos
      BY <2>3 DEF Maintain, StateOK, Lifecycles
    <3>3. CASE b = a
      BY <3>1, <3>2, <3>3 DEF StateOK
    <3>4. CASE b # a
      BY <3>1, <3>2, <3>4, <1>a, <1>d DEF StateOK
    <3> QED BY <3>3, <3>4
  <2>4. ASSUME NEW ok \in BOOLEAN, RunTask(a, ok)
        PROVE  \/ balance'[b] >= policy'.upkeep
               \/ pc' \in {"task", "settle", "evolve"} /\ b = Order[pos']
    BY <2>4, <1>a, <1>d DEF RunTask
  <2>5. CASE Settle(a)
    <3>1. /\ lifecycle' = lifecycle /\ pos' = pos /\ pc' = "evolve"
          /\ \/ balance' = balance
             \/ balance' = [balance EXCEPT ![a] = balance[a] + policy.reward]
      BY <2>5 DEF Settle
    <3>2. balance'[b] >= balance[b]
      BY <3>1, <1>b, <1>e DEF StateOK
    <3> QED BY <3>1, <3>2, <1>a, <1>b, <1>d, <1>e
  <2>6. CASE GoDormant(a)
    <3>1. /\ lifecycle' = [lifecycle EXCEPT ![a] = "DORMANT"] /\ balance' = balance
          /\ a = Order[pos]
      BY <2>6 DEF GoDormant, At
    <3>2. b # a
      BY <3>1 DEF StateOK
    <3> QED BY <3>1, <3>2, <1>a, <1>d DEF StateOK
  <2>7. ASSUME NEW mutated \in BOOLEAN, PayClone(a, mutated)
        PROVE  \/ balance'[b] >= policy'.upkeep
               \/ pc' \in {"task", "settle", "evolve"} /\ b = Order[pos']
    <3>1. /\ lifecycle' = lifecycle
          /\ balance' = [balance EXCEPT ![a] = Debit(balance[a], policy.clone)]
          /\ a = Order[pos] /\ balance[a] >= policy.cloneAbove
      BY <2>7 DEF PayClone, At, CanClone
    <3>2. CASE b = a
      <4>1. balance'[b] = Debit(balance[b], policy.clone) /\ balance[b] >= policy.cloneAbove
        BY <3>1, <3>2 DEF StateOK
      <4>2. balance'[b] = balance[b] - policy.clone
        BY <4>1, <1>b, <1>c, <1>e DEF Debit
      <4> QED BY <4>1, <4>2, <1>a, <1>b, <1>c, <1>e
    <3>3. CASE b # a
      BY <3>1, <3>3, <1>a, <1>d DEF StateOK
    <3> QED BY <3>2, <3>3
  <2>8. CASE StayAsIs(a) \/ \E accepted \in BOOLEAN : SelfRewrite(a, accepted)
    <3>1. /\ lifecycle' = lifecycle /\ balance' = balance
          /\ a = Order[pos] /\ balance[a] > policy.dormantBelow
      BY <2>8 DEF SelfRewrite, StayAsIs, At, CanRewrite
    <3>2. CASE b = a
      BY <3>1, <3>2, <1>a, <1>b, <1>c, <1>e
    <3>3. CASE b # a
      BY <3>1, <3>3, <1>a, <1>d
    <3> QED BY <3>2, <3>3
  <2> QED BY <1>6, <2>1, <2>2, <2>3, <2>4, <2>5, <2>6, <2>7, <2>8 DEF Visit
<1> QED BY <1>1, <1>2, <1>3, <1>4, <1>5, <1>6 DEF Next
-----------------------------------------------------------------------------
\* The files: the embryos that were registered and the saved snapshots.
FilesOK == /\ children \subseteq Agents \X Nat
           /\ snapshots \in Seq(Snapshots)

LEMMA FilesNext == StateOK /\ FilesOK /\ [Next]_vars => FilesOK'
<1> SUFFICES ASSUME StateOK, FilesOK, [Next]_vars PROVE FilesOK'
  OBVIOUS
<1>1. CASE UNCHANGED <<children, snapshots>>
  BY <1>1 DEF FilesOK
<1>2. CASE EndGeneration
  <2>1. Snapshot \in Snapshots
    BY DEF StateOK, FilesOK, Snapshot, Snapshots
  <2>2. Append(snapshots, Snapshot) \in Seq(Snapshots)
    BY <2>1, AppendProperties DEF FilesOK
  <2> QED BY <1>2, <2>2 DEF EndGeneration, FilesOK
<1>3. ASSUME NEW a \in Agents, EmbryoBorn(a) PROVE FilesOK'
  <2>1. children' = children \cup {<<a, gen>>} /\ snapshots' = snapshots
    BY <1>3 DEF EmbryoBorn
  <2>2. <<a, gen>> \in Agents \X Nat
    BY DEF StateOK
  <2> QED BY <2>1, <2>2 DEF FilesOK
<1> QED BY <1>1, <1>2, <1>3
        DEF Next, Visit, vars, AppendEvent, SeedingDone, StartGeneration, Seed, SkipDead, Maintain,
            Die, ArchiveDead, RunTask, Settle, GoDormant, PayClone, EmbryoDies, SelfRewrite, StayAsIs
-----------------------------------------------------------------------------
Inv == StateOK /\ FlagsOK /\ LogOK /\ FilesOK /\ VisitInv /\ OutboxInv /\ AwakeInv

LEMMA InvInit == Init => Inv
<1> SUFFICES ASSUME Init PROVE Inv
  OBVIOUS
<1>1. StateOK
  BY StateInit
<1>2. LogOK /\ VisitInv /\ OutboxInv
  BY DEF Init, LogOK, VisitInv, Working, OutboxInv
<1>4. FlagsOK
  BY DEF Init, FlagsOK
<1>5. FilesOK
  <2>1. children = {} /\ snapshots = <<>>
    BY DEF Init
  <2> QED BY <2>1 DEF FilesOK
<1>3. AwakeInv
  BY DEF Init, AwakeInv
<1> QED BY <1>1, <1>2, <1>3, <1>4, <1>5 DEF Inv

LEMMA InvNext == Inv /\ [Next]_vars => Inv'
  BY StateNext, FlagsNext, LogNext, FilesNext, VisitNext, OutboxNext, AwakeNext DEF Inv

\* Whatever the plan, every variable keeps its type: no balance falls below
\* zero (ledger.apply) and the log holds nothing but well-formed events.
THEOREM TypeCorrect == Spec => []TypeOK
<1>1. Inv => TypeOK
  BY DEF Inv, StateOK, FlagsOK, LogOK, FilesOK, TypeOK
<1> QED BY <1>1, InvInit, InvNext, PTL DEF Spec

\* The loop always knows whom it is visiting: the agent that works is awake and
\* the one that is archived is dead, in every state a crash may leave behind.
THEOREM VisitsAreSound == Spec => []VisitInv
<1>1. Inv => VisitInv
  BY DEF Inv
<1> QED BY <1>1, InvInit, InvNext, PTL DEF Spec

\* Death is final (population.transition, the DEAD check of runGeneration): for
\* any plan, nothing changes a dead agent's record and nothing but its death is
\* said of it.
THEOREM TheDeadRest == Spec => DeadIsFinal
<1>1. ASSUME Inv, Inv', [Next]_vars, NEW a \in Agents, lifecycle[a] = "DEAD"
      PROVE  lifecycle'[a] = "DEAD" /\ balance'[a] = balance[a] /\ fails'[a] = fails[a]
  <2> USE <1>1 DEF Inv, StateOK, VisitInv, Working
  <2>1. CASE AppendEvent \/ SeedingDone \/ StartGeneration \/ EndGeneration \/ UNCHANGED vars
    BY <2>1 DEF AppendEvent, SeedingDone, StartGeneration, EndGeneration, vars
  <2>2. ASSUME NEW c \in Agents, Visit(c)
        PROVE  lifecycle'[a] = "DEAD" /\ balance'[a] = balance[a] /\ fails'[a] = fails[a]
    <3>1. CASE SkipDead(c) \/ Die(c) \/ ArchiveDead(c) \/ EmbryoBorn(c) \/ EmbryoDies(c)
               \/ StayAsIs(c) \/ \E ok \in BOOLEAN : RunTask(c, ok)
      BY <3>1 DEF SkipDead, Die, ArchiveDead, EmbryoBorn, EmbryoDies, StayAsIs, RunTask
    <3>2. CASE Seed(c)
      BY <3>2 DEF Seed, At
    <3>3. CASE Maintain(c)
      BY <3>3 DEF Maintain
    <3>4. CASE Settle(c)
      <4>1. c # a
        BY <3>4 DEF Settle, At
      <4> QED BY <3>4, <4>1 DEF Settle
    <3>5. CASE GoDormant(c)
      <4>1. c # a
        BY <3>5 DEF GoDormant, At
      <4> QED BY <3>5, <4>1 DEF GoDormant
    <3>6. ASSUME NEW mutated \in BOOLEAN, PayClone(c, mutated)
          PROVE  lifecycle'[a] = "DEAD" /\ balance'[a] = balance[a] /\ fails'[a] = fails[a]
      <4>1. c # a
        BY <3>6 DEF PayClone, At
      <4> QED BY <3>6, <4>1 DEF PayClone
    <3>7. ASSUME NEW accepted \in BOOLEAN, SelfRewrite(c, accepted)
          PROVE  lifecycle'[a] = "DEAD" /\ balance'[a] = balance[a] /\ fails'[a] = fails[a]
      <4>1. c # a
        BY <3>7 DEF SelfRewrite, At
      <4> QED BY <3>7, <4>1 DEF SelfRewrite
    <3> QED BY <2>2, <3>1, <3>2, <3>3, <3>4, <3>5, <3>6, <3>7 DEF Visit
  <2> QED BY <2>1, <2>2 DEF Next
<1>2. ASSUME Inv, Inv', [Next]_vars
      PROVE  \A a \in Agents : lifecycle[a] = "DEAD" =>
               /\ lifecycle'[a] = "DEAD" /\ balance'[a] = balance[a] /\ fails'[a] = fails[a]
               /\ \A i \in DOMAIN outbox' : outbox'[i].agent = a =>
                    outbox'[i].type \in {"AGENT_STATE_CHANGED", "AGENT_DIED", "LEGACY_ARCHIVED"}
  BY <1>1, <1>2 DEF Inv, OutboxInv
<1> QED BY <1>2, InvInit, InvNext, PTL DEF Spec, DeadIsFinal

\* Low energy means sleep before death (the choice of maybeEvolve, the rule of
\* maintain): for any sustainable plan no ACTIVE agent ever dies.
THEOREM SleepComesFirst == Spec => SleepBeforeDeath
<1>1. ASSUME Inv, [Next]_vars, Sustainable(policy), NEW a \in Agents, lifecycle[a] = "ACTIVE"
      PROVE  lifecycle'[a] # "DEAD"
  <2>1. CASE AppendEvent \/ SeedingDone \/ StartGeneration \/ EndGeneration \/ UNCHANGED vars
    BY <1>1, <2>1 DEF AppendEvent, SeedingDone, StartGeneration, EndGeneration, vars
  <2>2. ASSUME NEW c \in Agents, Visit(c) PROVE lifecycle'[a] # "DEAD"
    <3>1. CASE SkipDead(c) \/ Die(c) \/ ArchiveDead(c) \/ EmbryoBorn(c) \/ EmbryoDies(c)
               \/ StayAsIs(c) \/ Settle(c)
               \/ (\E mutated \in BOOLEAN : PayClone(c, mutated))
               \/ (\E ok \in BOOLEAN : RunTask(c, ok))
               \/ (\E accepted \in BOOLEAN : SelfRewrite(c, accepted))
      BY <1>1, <3>1 DEF SkipDead, Die, ArchiveDead, EmbryoBorn, EmbryoDies, StayAsIs, RunTask,
                        Settle, PayClone, SelfRewrite
    <3>2. CASE Seed(c)
      BY <1>1, <3>2 DEF Seed, Inv, StateOK
    <3>3. CASE GoDormant(c)
      BY <1>1, <3>3 DEF GoDormant, Inv, StateOK
    <3>4. CASE Maintain(c)
      <4>1. /\ pc = "visit"
            /\ lifecycle' = [lifecycle EXCEPT ![c] =
                               IF Owed(c) > balance[c] THEN "DEAD" ELSE lifecycle[c]]
        BY <3>4 DEF Maintain, At
      <4>2. balance[a] >= policy.upkeep
        BY <1>1, <4>1 DEF Inv, AwakeInv
      <4>3. balance[a] \in Nat /\ policy.upkeep \in Nat
        BY <1>1, PlansType DEF Inv, StateOK
      <4>4. Owed(a) = policy.upkeep
        BY <1>1 DEF Owed
      <4>5. ~(Owed(a) > balance[a])
        BY <4>2, <4>3, <4>4
      <4> QED BY <1>1, <4>1, <4>5 DEF Inv, StateOK
    <3> QED BY <2>2, <3>1, <3>2, <3>3, <3>4 DEF Visit
  <2> QED BY <1>1, <2>1, <2>2 DEF Next
<1>2. ASSUME Inv, [Next]_vars
      PROVE  Sustainable(policy) =>
               \A a \in Agents : lifecycle[a] = "ACTIVE" => lifecycle'[a] # "DEAD"
  BY <1>1, <1>2
<1> QED BY <1>2, InvInit, InvNext, PTL DEF Spec, SleepBeforeDeath
-----------------------------------------------------------------------------
(* What the loop has said: the events on disk and those still to be appended. *)

All == log \o outbox

Silent == UNCHANGED <<log, outbox>>
Tells(e, t, a, n, r) == e.type = t /\ e.agent = a /\ e.note = n /\ e.reason = r
Saying(t, a, n, r) ==
  \E e \in Events : Tells(e, t, a, n, r) /\ outbox = <<>> /\ log' = log /\ outbox' = <<e>>

LEMMA Pairs ==
  ASSUME NEW S, NEW d \in S, NEW e \in S, NEW f \in S
  PROVE  <<d>> \o <<e>> = <<d, e>> /\ <<d, e>> \o <<f>> = <<d, e, f>>
<1>1. <<d>> \in Seq(S) /\ <<e>> \in Seq(S) /\ <<f>> \in Seq(S) /\ <<d, e>> \in Seq(S)
      /\ <<d, e, f>> \in Seq(S)
  OBVIOUS
<1>2. <<d, e>> = Append(<<d>>, e) /\ <<d, e, f>> = Append(<<d, e>>, f)
  OBVIOUS
<1> QED BY <1>1, <1>2, AppendIsConcat

\* The steps that say one thing, each with what it says.
LEMMA SayingOne ==
  ASSUME NEW t \in {"GENERATION_STARTED", "AGENT_STATE_CHANGED", "AGENT_DIED", "LEGACY_ARCHIVED",
                    "MUTATION_CREATED", "EMBRYO_QUALIFIED", "EMBRYO_REJECTED", "GENOME_REWRITTEN"},
         NEW a \in Agents \cup {""}, NEW n \in Lifecycles \cup {""},
         outbox = <<>>, log' = log, outbox' = <<Event(t, a, n)>>
  PROVE  Saying(t, a, n, "")
<1> DEFINE e == Event(t, a, n)
<1>0. e \in Events
  BY EventType
<1>1. e.type = t /\ e.agent = a /\ e.note = n /\ e.reason = ""
  BY DEF Event
<1> HIDE DEF e
<1>2. outbox' = <<e>>
  BY DEF e
<1> QED BY <1>0, <1>1, <1>2 DEF Saying, Tells

LEMMA MaintainSays ==
  ASSUME StateOK, NEW a \in Agents, Maintain(a)
  PROVE  Saying("AGENT_STATE_CHANGED", a, lifecycle'[a], "")
<1>1. PICK state \in Lifecycles :
         lifecycle' = [lifecycle EXCEPT ![a] = state] /\ outbox' = <<Event("AGENT_STATE_CHANGED", a, state)>>
  BY DEF Maintain, StateOK, Lifecycles
<1>2. lifecycle'[a] = state /\ outbox = <<>> /\ log' = log
  BY <1>1 DEF Maintain, At, StateOK
<1> QED BY <1>1, <1>2, SayingOne

LEMMA DieSays ==
  ASSUME NEW a \in Agents, Die(a) PROVE Saying("AGENT_DIED", a, "", "")
BY SayingOne DEF Die, At

LEMMA ArchiveSays ==
  ASSUME NEW a \in Agents, ArchiveDead(a) PROVE Saying("LEGACY_ARCHIVED", a, "", "")
BY SayingOne DEF ArchiveDead, At

LEMMA SettleSays ==
  ASSUME StateOK, StateOK', NEW a \in Agents, Settle(a)
  PROVE  /\ succeeded => Saying("ENERGY_REWARDED", a, "", "")
         /\ ~succeeded => Silent
<1>1. CASE succeeded
  <2> DEFINE e == TransactionEvent("ENERGY_REWARDED", a, balance[a], balance'[a])
  <2>1. balance[a] \in Nat /\ balance'[a] \in Nat
    BY DEF StateOK
  <2>2. e \in Events
    BY <2>1 DEF TransactionEvent, Event, Events
  <2>3. e.type = "ENERGY_REWARDED" /\ e.agent = a /\ e.note = "" /\ e.reason = ""
    BY DEF TransactionEvent, Event
  <2>4. outbox = <<>> /\ log' = log /\ outbox' = <<e>>
    BY <1>1 DEF Settle, At
  <2> HIDE DEF e
  <2> QED BY <1>1, <2>2, <2>3, <2>4 DEF Saying, Tells
<1>2. CASE ~succeeded
  BY <1>2 DEF Settle, Silent
<1> QED BY <1>1, <1>2

LEMMA GoDormantSays ==
  ASSUME NEW a \in Agents, GoDormant(a)
  PROVE  Saying("AGENT_STATE_CHANGED", a, "DORMANT", "threshold")
<1> DEFINE e == [Event("AGENT_STATE_CHANGED", a, "DORMANT") EXCEPT !.reason = "threshold"]
<1>1. e \in Events /\ e.type = "AGENT_STATE_CHANGED" /\ e.agent = a /\ e.note = "DORMANT"
      /\ e.reason = "threshold"
  BY DEF Event, Events, Lifecycles
<1>2. outbox = <<>> /\ log' = log /\ outbox' = <<e>>
  BY DEF GoDormant, At
<1> HIDE DEF e
<1> QED BY <1>1, <1>2 DEF Saying, Tells

LEMMA PayCloneSays ==
  ASSUME NEW a \in Agents, NEW mutated \in BOOLEAN, PayClone(a, mutated)
  PROVE  Silent \/ Saying("MUTATION_CREATED", a, "", "")
<1>1. CASE mutated
  BY <1>1, SayingOne DEF PayClone, At
<1>2. CASE ~mutated
  BY <1>2 DEF PayClone, At, Silent
<1> QED BY <1>1, <1>2

LEMMA EmbryoSays ==
  ASSUME StateOK, NEW a \in Agents
  PROVE  /\ EmbryoBorn(a) => Saying("EMBRYO_QUALIFIED", a, "", "")
         /\ EmbryoDies(a) => Saying("EMBRYO_REJECTED", a, "", "")
<1>1. ASSUME EmbryoBorn(a) PROVE Saying("EMBRYO_QUALIFIED", a, "", "")
  <2>1. outbox = <<>> /\ log' = log /\ outbox' = <<BirthEvent(a)>>
    BY <1>1 DEF EmbryoBorn, At
  <2>2. gen \in Nat
    BY DEF StateOK
  <2> QED BY <2>1, <2>2, BirthType DEF Saying, Tells
<1>2. EmbryoDies(a) => Saying("EMBRYO_REJECTED", a, "", "")
  BY SayingOne DEF EmbryoDies, At
<1> QED BY <1>1, <1>2

LEMMA SelfRewriteSays ==
  ASSUME NEW a \in Agents, NEW accepted \in BOOLEAN, SelfRewrite(a, accepted)
  PROVE  IF accepted THEN Saying("GENOME_REWRITTEN", a, "", "") ELSE Silent
<1>1. CASE accepted
  BY <1>1, SayingOne DEF SelfRewrite, At
<1>2. CASE ~accepted
  BY <1>2 DEF SelfRewrite, Silent
<1> QED BY <1>1, <1>2

LEMMA StartSays ==
  ASSUME StartGeneration PROVE Saying("GENERATION_STARTED", "", "", "")
BY SayingOne DEF StartGeneration, RunEvent

\* The other steps: they say nothing, or append what was said before.
LEMMA SilentSteps ==
  ASSUME \/ SeedingDone \/ UNCHANGED vars
         \/ \E a \in Agents : Seed(a) \/ SkipDead(a) \/ StayAsIs(a)
  PROVE  Silent
BY DEF SeedingDone, vars, Seed, SkipDead, StayAsIs, Silent

LEMMA SilentAll == Silent => All' = All
BY DEF Silent, All

LEMMA HeadAndTail ==
  ASSUME NEW S, NEW s \in Seq(S), s # <<>>
  PROVE  /\ Head(s) \in S /\ Tail(s) \in Seq(S) /\ <<Head(s)>> \in Seq(S)
         /\ s = <<Head(s)>> \o Tail(s)
<1>1. Head(s) \in S /\ Tail(s) \in Seq(S) /\ Tail(s) = SubSeq(s, 2, Len(s))
  BY HeadTailProperties, TailIsSubSeq
<1>2. Len(s) \in Nat /\ Len(s) >= 1 /\ Head(s) = s[1]
  BY EmptySeq
<1>3. SubSeq(s, 1, Len(s)) = <<s[1]>> \o SubSeq(s, 1 + 1, Len(s))
  <2>1. 1 \in 1..Len(s) /\ Len(s) \in 1..Len(s)
    BY <1>2
  <2> QED BY <2>1, SubSeqRecursiveFirst
<1> QED BY <1>1, <1>2, <1>3, SubSeqFull

LEMMA AppendAll ==
  ASSUME LogOK, AppendEvent
  PROVE  All' = All
<1>1. /\ outbox \in Seq(Events) /\ log \in Seq(Events) /\ outbox # <<>>
      /\ log' = Append(log, Head(outbox)) /\ outbox' = Tail(outbox)
  BY DEF LogOK, AppendEvent
<1> DEFINE h == Head(outbox)
           t == Tail(outbox)
<1>2. h \in Events /\ t \in Seq(Events) /\ <<h>> \in Seq(Events) /\ outbox = <<h>> \o t
  BY <1>1, HeadAndTail
<1> HIDE DEF h, t
<1>3. Append(log, h) = log \o <<h>>
  BY <1>1, <1>2, AppendIsConcat
<1>4. (log \o <<h>>) \o t = log \o (<<h>> \o t)
  BY <1>1, <1>2, ConcatAssociative
<1>5. log' = Append(log, h) /\ outbox' = t
  BY <1>1 DEF h, t
<1> QED BY <1>2, <1>3, <1>4, <1>5 DEF All

LEMMA AllType == LogOK => All \in Seq(Events)
BY ConcatProperties DEF LogOK, All

LEMMA SayingAll ==
  ASSUME LogOK, NEW t, NEW a, NEW n, NEW r, Saying(t, a, n, r)
  PROVE  \E e \in Events : Tells(e, t, a, n, r) /\ All' = Append(All, e)
<1>1. PICK e \in Events : Tells(e, t, a, n, r) /\ outbox = <<>> /\ log' = log /\ outbox' = <<e>>
  BY DEF Saying, Tells
<1>2. All = log /\ All' = log \o <<e>>
  BY <1>1, ConcatEmptySeq DEF All, LogOK
<1>3. Append(log, e) = log \o <<e>>
  BY AppendIsConcat DEF LogOK
<1> QED BY <1>1, <1>2, <1>3

\* A task and the end of a generation are told in three and in two events.
LEMMA TaskSays ==
  ASSUME LogOK, NEW a \in Agents, NEW ok \in BOOLEAN, RunTask(a, ok)
  PROVE  \E d, e, f \in Events :
           /\ d.type = "TASK_ASSIGNED" /\ f.type = "MEMORY_RECORDED"
           /\ e.type = "EVALUATION_COMPLETED" /\ e.agent = a
           /\ e.note = (IF ok THEN "success" ELSE "failure")
           /\ outbox = <<>> /\ log' = log /\ outbox' = <<d, e, f>>
           /\ All' = Append(Append(Append(All, d), e), f)
<1> DEFINE n == IF ok THEN "success" ELSE "failure"
           d == Event("TASK_ASSIGNED", a, "")
           e == Event("EVALUATION_COMPLETED", a, n)
           f == Event("MEMORY_RECORDED", a, "")
<1>0. n \in {"success", "failure"}
  OBVIOUS
<1>1. /\ d \in Events /\ e \in Events /\ f \in Events
      /\ d.type = "TASK_ASSIGNED" /\ f.type = "MEMORY_RECORDED"
      /\ e.type = "EVALUATION_COMPLETED" /\ e.agent = a /\ e.note = n
  <2> HIDE DEF n
  <2>1. d \in Events /\ e \in Events /\ f \in Events
    BY <1>0, EventType
  <2>2. /\ d.type = "TASK_ASSIGNED" /\ f.type = "MEMORY_RECORDED"
        /\ e.type = "EVALUATION_COMPLETED" /\ e.agent = a /\ e.note = n
    BY DEF Event
  <2> QED BY <2>1, <2>2
<1>2. outbox = <<>> /\ log' = log /\ outbox' = <<d, e, f>>
  BY DEF RunTask, At
<1> HIDE DEF d, e, f
<1>3. All = log /\ All' = log \o <<d, e, f>> /\ log \in Seq(Events)
  BY <1>2, ConcatEmptySeq DEF All, LogOK
<1>4. log \o <<d, e, f>> = Append(Append(Append(log, d), e), f)
  <2>1. /\ Append(log, d) = log \o <<d>> /\ Append(log, d) \in Seq(Events)
        /\ <<d>> \in Seq(Events) /\ <<e>> \in Seq(Events) /\ <<f>> \in Seq(Events)
        /\ <<d, e>> \in Seq(Events)
    BY <1>1, <1>3, AppendIsConcat, AppendProperties, OneEvent, MoreEvents
  <2>2. <<d>> \o <<e>> = <<d, e>> /\ <<d, e>> \o <<f>> = <<d, e, f>>
    BY <1>1, Pairs
  <2>3. Append(Append(log, d), e) = log \o <<d, e>>
    BY <1>1, <1>3, <2>1, <2>2, AppendIsConcat, ConcatAssociative
  <2>4. log \o <<d, e>> \in Seq(Events)
    BY <1>3, <2>1, ConcatProperties
  <2>5. Append(log \o <<d, e>>, f) = log \o <<d, e, f>>
    BY <1>1, <1>3, <2>1, <2>2, <2>4, AppendIsConcat, ConcatAssociative
  <2> QED BY <2>3, <2>5
<1> QED BY <1>1, <1>2, <1>3, <1>4

LEMMA EndSays ==
  ASSUME LogOK, EndGeneration
  PROVE  \E d, e \in Events :
           /\ d.type = "POPULATION_SNAPSHOT" /\ e.type = "GENERATION_COMPLETED"
           /\ outbox = <<>> /\ log' = log /\ outbox' = <<d, e>>
           /\ All' = Append(Append(All, d), e)
<1> DEFINE d == Event("POPULATION_SNAPSHOT", "", "")
           e == Event("GENERATION_COMPLETED", "", "")
<1>1. d \in Events /\ e \in Events /\ d.type = "POPULATION_SNAPSHOT" /\ e.type = "GENERATION_COMPLETED"
  <2>1. d \in Events /\ e \in Events
    BY EventType
  <2>2. d.type = "POPULATION_SNAPSHOT" /\ e.type = "GENERATION_COMPLETED"
    BY DEF Event
  <2> QED BY <2>1, <2>2
<1>2. outbox = <<>> /\ log' = log /\ outbox' = <<d, e>>
  BY DEF EndGeneration, RunEvent
<1> HIDE DEF d, e
<1>3. All = log /\ All' = log \o <<d, e>> /\ log \in Seq(Events)
  BY <1>2, ConcatEmptySeq DEF All, LogOK
<1>4. log \o <<d, e>> = Append(Append(log, d), e)
  <2>1. /\ Append(log, d) = log \o <<d>> /\ Append(log, d) \in Seq(Events)
        /\ <<d>> \in Seq(Events) /\ <<e>> \in Seq(Events)
    BY <1>1, <1>3, AppendIsConcat, AppendProperties, OneEvent
  <2>2. <<d>> \o <<e>> = <<d, e>>
    BY <1>1, Pairs
  <2> QED BY <1>1, <1>3, <2>1, <2>2, AppendIsConcat, ConcatAssociative
<1> QED BY <1>1, <1>2, <1>3, <1>4

-----------------------------------------------------------------------------
(* Counting what was said. *)

Told(s, E) == {i \in DOMAIN s : s[i] \in E}
N(s, E) == Cardinality(Told(s, E))

LEMMA CountFinite ==
  ASSUME NEW S, NEW s \in Seq(S), NEW E
  PROVE  IsFiniteSet(Told(s, E)) /\ N(s, E) \in Nat
<1>1. DOMAIN s = 1..Len(s) /\ Len(s) \in Nat
  BY LenProperties
<1>2. IsFiniteSet(1..Len(s)) /\ Told(s, E) \in SUBSET (1..Len(s))
  BY <1>1, FS_Interval DEF Told
<1> QED BY <1>2, FS_Subset, FS_CardinalityType DEF N

LEMMA CountNothing == \A E : N(<<>>, E) = 0
BY FS_EmptySet DEF N, Told

LEMMA CountAppend ==
  ASSUME NEW S, NEW s \in Seq(S), NEW e \in S, NEW E
  PROVE  N(Append(s, e), E) = N(s, E) + (IF e \in E THEN 1 ELSE 0)
<1> DEFINE n == Len(s)
           A == Told(s, E)
<1>1. n \in Nat /\ DOMAIN s = 1..n
  BY LenProperties
<1>2. /\ Append(s, e) \in Seq(S) /\ Len(Append(s, e)) = n + 1
      /\ \A i \in 1..n : Append(s, e)[i] = s[i]
      /\ Append(s, e)[n + 1] = e
  BY AppendProperties
<1>3. DOMAIN Append(s, e) = 1..(n + 1)
  BY <1>2, LenProperties
<1>4. Told(Append(s, e), E) = IF e \in E THEN A \cup {n + 1} ELSE A
  BY <1>1, <1>2, <1>3 DEF Told
<1>5. IsFiniteSet(A) /\ Cardinality(A) \in Nat /\ n + 1 \notin A
  <2>1. IsFiniteSet(A) /\ Cardinality(A) \in Nat
    BY CountFinite DEF N
  <2>2. A \subseteq 1..n
    BY <1>1 DEF Told
  <2> QED BY <1>1, <2>1, <2>2
<1>6. IF e \in E THEN Cardinality(A \cup {n + 1}) = Cardinality(A) + 1 ELSE TRUE
  BY <1>5, FS_AddElement
<1>7. CASE e \in E
  BY <1>4, <1>5, <1>6, <1>7 DEF N
<1>8. CASE e \notin E
  BY <1>4, <1>5, <1>8 DEF N
<1> QED BY <1>7, <1>8

\* The events the properties count: about b, and of one sort.
AwakeKind(b)  == {e \in Events : e.agent = b /\ e.type = "AGENT_STATE_CHANGED"
                                 /\ e.note = "ACTIVE" /\ e.reason = ""}
AsleepKind(b) == {e \in Events : e.agent = b /\ e.type = "AGENT_STATE_CHANGED"
                                 /\ e.note = "DORMANT" /\ e.reason = ""}
RewardKind(b) == {e \in Events : e.agent = b /\ e.type = "ENERGY_REWARDED"}
FateKind(b)   == {e \in Events : e.agent = b /\ e.type \in {"EMBRYO_QUALIFIED", "EMBRYO_REJECTED"}}
LegacyKind(b) == {e \in Events : e.agent = b /\ e.type = "LEGACY_ARCHIVED"}

Awake(b)    == N(All, AwakeKind(b))
Asleep(b)   == N(All, AsleepKind(b))
Rewards(b)  == N(All, RewardKind(b))
Fates(b)    == N(All, FateKind(b))
Legacies(b) == N(All, LegacyKind(b))

LEMMA Tallies ==
  ASSUME LogOK, NEW b
  PROVE  /\ UpkeepsPaid(b, "ACTIVE") = Awake(b) /\ UpkeepsPaid(b, "DORMANT") = Asleep(b)
         /\ Emitted(b, LAMBDA e : e.type = "ENERGY_REWARDED") = Rewards(b)
         /\ Emitted(b, LAMBDA e : e.type \in {"EMBRYO_QUALIFIED", "EMBRYO_REJECTED"}) = Fates(b)
         /\ Emitted(b, LAMBDA e : e.type = "LEGACY_ARCHIVED") = Legacies(b)
<1>1. \A i \in DOMAIN All : All[i] \in Events
  BY AllType, ElementOfSeq, LenProperties
<1>2. UpkeepsPaid(b, "ACTIVE") = Awake(b) /\ UpkeepsPaid(b, "DORMANT") = Asleep(b)
  BY <1>1 DEF UpkeepsPaid, Emitted, Awake, Asleep, N, Told, AwakeKind, AsleepKind, All
<1>3. Emitted(b, LAMBDA e : e.type = "ENERGY_REWARDED") = Rewards(b)
  BY <1>1 DEF Emitted, Rewards, N, Told, RewardKind, All
<1>4. Emitted(b, LAMBDA e : e.type \in {"EMBRYO_QUALIFIED", "EMBRYO_REJECTED"}) = Fates(b)
  BY <1>1 DEF Emitted, Fates, N, Told, FateKind, All
<1>5. Emitted(b, LAMBDA e : e.type = "LEGACY_ARCHIVED") = Legacies(b)
  BY <1>1 DEF Emitted, Legacies, N, Told, LegacyKind, All
<1> QED BY <1>2, <1>3, <1>4, <1>5

Counting(b) == /\ Awake(b) \in Nat /\ Asleep(b) \in Nat
               /\ Rewards(b) \in Nat /\ Fates(b) \in Nat /\ Legacies(b) \in Nat

LEMMA TallyType ==
  ASSUME LogOK, NEW b
  PROVE  Counting(b)
BY AllType, CountFinite DEF Counting, Awake, Asleep, Rewards, Fates, Legacies

Unmoved(b) == /\ Awake(b)' = Awake(b) /\ Asleep(b)' = Asleep(b)
              /\ Rewards(b)' = Rewards(b) /\ Fates(b)' = Fates(b) /\ Legacies(b)' = Legacies(b)

\* A step that adds nothing to what was said moves no tally.
LEMMA UnmovedKept ==
  ASSUME LogOK, Silent \/ AppendEvent, NEW b
  PROVE  Unmoved(b)
BY SilentAll, AppendAll DEF Unmoved, Awake, Asleep, Rewards, Fates, Legacies

\* Nor do events of no sort that is counted.
Uncounted(e, b) == /\ e \notin AwakeKind(b) /\ e \notin AsleepKind(b) /\ e \notin RewardKind(b)
                   /\ e \notin FateKind(b) /\ e \notin LegacyKind(b)

LEMMA CountUncounted ==
  ASSUME NEW s \in Seq(Events), NEW e \in Events, NEW E, e \notin E
  PROVE  Append(s, e) \in Seq(Events) /\ N(Append(s, e), E) = N(s, E)
<1>1. N(s, E) \in Nat
  BY CountFinite
<1>2. N(Append(s, e), E) = N(s, E) + 0
  BY CountAppend
<1> QED BY <1>1, <1>2, AppendProperties

LEMMA UnmovedOne ==
  ASSUME LogOK, NEW b, NEW e \in Events, Uncounted(e, b), All' = Append(All, e)
  PROVE  Unmoved(b)
BY AllType, CountUncounted DEF Uncounted, Unmoved, Awake, Asleep, Rewards, Fates, Legacies

LEMMA UnmovedMore ==
  ASSUME LogOK, NEW b, NEW d \in Events, NEW e \in Events, NEW f \in Events,
         Uncounted(d, b), Uncounted(e, b), Uncounted(f, b),
         \/ All' = Append(Append(All, d), e)
         \/ All' = Append(Append(Append(All, d), e), f)
  PROVE  Unmoved(b)
<1>1. ASSUME NEW E, d \notin E, e \notin E, f \notin E
      PROVE  N(All', E) = N(All, E)
  <2>1. Append(All, d) \in Seq(Events) /\ N(Append(All, d), E) = N(All, E)
    BY <1>1, AllType, CountUncounted
  <2>2. /\ Append(Append(All, d), e) \in Seq(Events)
        /\ N(Append(Append(All, d), e), E) = N(All, E)
    BY <1>1, <2>1, CountUncounted
  <2>3. N(Append(Append(Append(All, d), e), f), E) = N(All, E)
    BY <1>1, <2>2, CountUncounted
  <2> QED BY <2>2, <2>3
<1> QED BY <1>1 DEF Uncounted, Unmoved, Awake, Asleep, Rewards, Fates, Legacies

\* What one event adds to the tallies.
Counts(e, b) == /\ Awake(b)' = Awake(b) + (IF e \in AwakeKind(b) THEN 1 ELSE 0)
                /\ Asleep(b)' = Asleep(b) + (IF e \in AsleepKind(b) THEN 1 ELSE 0)
                /\ Rewards(b)' = Rewards(b) + (IF e \in RewardKind(b) THEN 1 ELSE 0)
                /\ Fates(b)' = Fates(b) + (IF e \in FateKind(b) THEN 1 ELSE 0)
                /\ Legacies(b)' = Legacies(b) + (IF e \in LegacyKind(b) THEN 1 ELSE 0)

LEMMA TallyMore ==
  ASSUME LogOK, NEW b, NEW e \in Events, All' = Append(All, e)
  PROVE  Counts(e, b)
<1>1. \A E : N(All', E) = N(All, E) + (IF e \in E THEN 1 ELSE 0)
  BY AllType, CountAppend
<1> QED BY <1>1 DEF Counts, Awake, Asleep, Rewards, Fates, Legacies

LEMMA UncountedTypes ==
  ASSUME NEW e \in Events, NEW b,
         e.type \notin {"ENERGY_REWARDED", "EMBRYO_QUALIFIED", "EMBRYO_REJECTED", "LEGACY_ARCHIVED"},
         e.type = "AGENT_STATE_CHANGED" => e.reason = "threshold"
  PROVE  Uncounted(e, b)
BY DEF Uncounted, AwakeKind, AsleepKind, RewardKind, FateKind, LegacyKind

LEMMA SayingUncounted ==
  ASSUME LogOK, NEW t \in {"GENERATION_STARTED", "AGENT_DIED", "MUTATION_CREATED",
                           "GENOME_REWRITTEN"},
         NEW a, NEW n, NEW r, Saying(t, a, n, r), NEW b
  PROVE  Unmoved(b)
<1>1. PICK e \in Events : Tells(e, t, a, n, r) /\ All' = Append(All, e)
  BY SayingAll
<1>2. Uncounted(e, b)
  BY <1>1, UncountedTypes DEF Tells
<1> QED BY <1>1, <1>2, UnmovedOne

\* The steps that no tally counts.
LEMMA UnmovedSteps ==
  ASSUME LogOK, NEW b,
         \/ AppendEvent \/ SeedingDone \/ StartGeneration \/ EndGeneration \/ UNCHANGED vars
         \/ \E a \in Agents :
              \/ Seed(a) \/ SkipDead(a) \/ Die(a) \/ GoDormant(a) \/ StayAsIs(a)
              \/ \E ok \in BOOLEAN : RunTask(a, ok)
              \/ \E mutated \in BOOLEAN : PayClone(a, mutated)
              \/ \E accepted \in BOOLEAN : SelfRewrite(a, accepted)
  PROVE  Unmoved(b)
<1>1. CASE Silent \/ AppendEvent
  BY <1>1, UnmovedKept
<1>2. CASE SeedingDone \/ UNCHANGED vars \/ \E a \in Agents : Seed(a) \/ SkipDead(a) \/ StayAsIs(a)
  BY <1>1, <1>2, SilentSteps
<1>3. CASE StartGeneration
  BY <1>3, StartSays, SayingUncounted
<1>4. CASE EndGeneration
  <2>1. PICK d, e \in Events :
           /\ d.type = "POPULATION_SNAPSHOT" /\ e.type = "GENERATION_COMPLETED"
           /\ All' = Append(Append(All, d), e)
    BY <1>4, EndSays
  <2>2. Uncounted(d, b) /\ Uncounted(e, b)
    BY <2>1, UncountedTypes
  <2> QED BY <2>1, <2>2, UnmovedMore
<1>5. ASSUME NEW a \in Agents, Die(a) PROVE Unmoved(b)
  BY <1>5, DieSays, SayingUncounted
<1>6. ASSUME NEW a \in Agents, GoDormant(a) PROVE Unmoved(b)
  <2>1. PICK e \in Events : /\ Tells(e, "AGENT_STATE_CHANGED", a, "DORMANT", "threshold")
                            /\ All' = Append(All, e)
    BY <1>6, GoDormantSays, SayingAll
  <2>2. Uncounted(e, b)
    BY <2>1, UncountedTypes DEF Tells
  <2> QED BY <2>1, <2>2, UnmovedOne
<1>7. ASSUME NEW a \in Agents, NEW ok \in BOOLEAN, RunTask(a, ok) PROVE Unmoved(b)
  <2>1. PICK d, e, f \in Events :
           /\ d.type = "TASK_ASSIGNED" /\ f.type = "MEMORY_RECORDED"
           /\ e.type = "EVALUATION_COMPLETED"
           /\ All' = Append(Append(Append(All, d), e), f)
    BY <1>7, TaskSays
  <2>2. Uncounted(d, b) /\ Uncounted(e, b) /\ Uncounted(f, b)
    BY <2>1, UncountedTypes
  <2> QED BY <2>1, <2>2, UnmovedMore
<1>8. ASSUME NEW a \in Agents, NEW mutated \in BOOLEAN, PayClone(a, mutated) PROVE Unmoved(b)
  BY <1>1, <1>8, PayCloneSays, SayingUncounted
<1>9. ASSUME NEW a \in Agents, NEW accepted \in BOOLEAN, SelfRewrite(a, accepted) PROVE Unmoved(b)
  <2>1. Silent \/ Saying("GENOME_REWRITTEN", a, "", "")
    BY <1>9, SelfRewriteSays
  <2> QED BY <1>1, <2>1, SayingUncounted
<1> QED BY <1>1, <1>2, <1>3, <1>4, <1>5, <1>6, <1>7, <1>8, <1>9

\* The steps that one tally counts.
LEMMA MaintainCounts ==
  ASSUME StateOK, LogOK, NEW a \in Agents, Maintain(a), NEW b
  PROVE  /\ Awake(b)' = Awake(b) + (IF a = b /\ lifecycle'[a] = "ACTIVE" THEN 1 ELSE 0)
         /\ Asleep(b)' = Asleep(b) + (IF a = b /\ lifecycle'[a] = "DORMANT" THEN 1 ELSE 0)
         /\ Rewards(b)' = Rewards(b) /\ Fates(b)' = Fates(b) /\ Legacies(b)' = Legacies(b)
<1>1. PICK e \in Events : /\ Tells(e, "AGENT_STATE_CHANGED", a, lifecycle'[a], "")
                          /\ All' = Append(All, e)
  BY MaintainSays, SayingAll
<1>2. /\ e \in AwakeKind(b) <=> a = b /\ lifecycle'[a] = "ACTIVE"
      /\ e \in AsleepKind(b) <=> a = b /\ lifecycle'[a] = "DORMANT"
      /\ e \notin RewardKind(b) /\ e \notin FateKind(b) /\ e \notin LegacyKind(b)
  BY <1>1 DEF Tells, AwakeKind, AsleepKind, RewardKind, FateKind, LegacyKind
<1>3. Counts(e, b)
  BY <1>1, TallyMore
<1>4. Counting(b)
  BY TallyType
<1> QED BY <1>2, <1>3, <1>4 DEF Counts, Counting

LEMMA ArchiveCounts ==
  ASSUME LogOK, NEW a \in Agents, ArchiveDead(a), NEW b
  PROVE  /\ Awake(b)' = Awake(b) /\ Asleep(b)' = Asleep(b)
         /\ Rewards(b)' = Rewards(b) /\ Fates(b)' = Fates(b)
         /\ Legacies(b)' = Legacies(b) + (IF a = b THEN 1 ELSE 0)
<1>1. PICK e \in Events : Tells(e, "LEGACY_ARCHIVED", a, "", "") /\ All' = Append(All, e)
  BY ArchiveSays, SayingAll
<1>2. /\ e \notin AwakeKind(b) /\ e \notin AsleepKind(b) /\ e \notin RewardKind(b)
      /\ e \notin FateKind(b) /\ (e \in LegacyKind(b) <=> a = b)
  BY <1>1 DEF Tells, AwakeKind, AsleepKind, RewardKind, FateKind, LegacyKind
<1>3. Counts(e, b)
  BY <1>1, TallyMore
<1>4. Counting(b)
  BY TallyType
<1> QED BY <1>2, <1>3, <1>4 DEF Counts, Counting

LEMMA SettleCounts ==
  ASSUME StateOK, StateOK', LogOK, NEW a \in Agents, Settle(a), NEW b
  PROVE  /\ Awake(b)' = Awake(b) /\ Asleep(b)' = Asleep(b)
         /\ Rewards(b)' = Rewards(b) + (IF succeeded /\ a = b THEN 1 ELSE 0)
         /\ Fates(b)' = Fates(b) /\ Legacies(b)' = Legacies(b)
<1>1. CASE succeeded
  <2>1. PICK e \in Events : Tells(e, "ENERGY_REWARDED", a, "", "") /\ All' = Append(All, e)
    BY <1>1, SettleSays, SayingAll
  <2>2. /\ e \notin AwakeKind(b) /\ e \notin AsleepKind(b) /\ (e \in RewardKind(b) <=> a = b)
        /\ e \notin FateKind(b) /\ e \notin LegacyKind(b)
    BY <2>1 DEF Tells, AwakeKind, AsleepKind, RewardKind, FateKind, LegacyKind
  <2>3. Counts(e, b)
    BY <2>1, TallyMore
  <2>4. Counting(b)
    BY TallyType
  <2> QED BY <1>1, <2>2, <2>3, <2>4 DEF Counts, Counting
<1>2. CASE ~succeeded
  <2>1. Unmoved(b)
    BY <1>2, SettleSays, UnmovedKept
  <2> QED BY <1>2, <2>1, TallyType DEF Unmoved, Counting
<1> QED BY <1>1, <1>2

LEMMA EmbryoCounts ==
  ASSUME StateOK, LogOK, NEW a \in Agents, EmbryoBorn(a) \/ EmbryoDies(a), NEW b
  PROVE  /\ Awake(b)' = Awake(b) /\ Asleep(b)' = Asleep(b)
         /\ Rewards(b)' = Rewards(b) /\ Fates(b)' = Fates(b) + (IF a = b THEN 1 ELSE 0)
         /\ Legacies(b)' = Legacies(b)
<1>1. PICK e \in Events : /\ \/ Tells(e, "EMBRYO_QUALIFIED", a, "", "")
                             \/ Tells(e, "EMBRYO_REJECTED", a, "", "")
                          /\ All' = Append(All, e)
  BY EmbryoSays, SayingAll
<1>2. /\ e \notin AwakeKind(b) /\ e \notin AsleepKind(b) /\ e \notin RewardKind(b)
      /\ (e \in FateKind(b) <=> a = b) /\ e \notin LegacyKind(b)
  BY <1>1 DEF Tells, AwakeKind, AsleepKind, RewardKind, FateKind, LegacyKind
<1>3. Counts(e, b)
  BY <1>1, TallyMore
<1>4. Counting(b)
  BY TallyType
<1> QED BY <1>2, <1>3, <1>4 DEF Counts, Counting
-----------------------------------------------------------------------------
(* The books: what All has to do with the state of the loop. *)

\* Nothing has been said before the seeds are sown.
SeedInv ==
  IF pc = "seed"
  THEN /\ gen = 0 /\ log = <<>> /\ outbox = <<>> /\ children = {}
       /\ archived = {} /\ snapshots = <<>>
       /\ \A i \in DOMAIN Order : i < pos => lifecycle[Order[i]] = "ACTIVE"
  ELSE \A a \in Agents : lifecycle[a] # "none"

\* Whoever is dead and not archived is the one that is being buried.
Burying == {"dying", "archiving"}
DeathInv ==
  /\ \A a \in archived : lifecycle[a] = "DEAD"
  /\ \A a \in Agents : lifecycle[a] = "DEAD" => a \in archived \/ (pc \in Burying /\ a = Order[pos])
  /\ pc \in Burying => Order[pos] \notin archived
  /\ \A a \in Agents : Legacies(a) = IF a \in archived THEN 1 ELSE 0

ChargeInv ==
  \A a \in Agents : lifecycle[a] \in {"ACTIVE", "DORMANT"} =>
    Awake(a) + Asleep(a) = gen + (IF Visited(a) THEN 1 ELSE 0)

Income(a)  == policy.initial + policy.reward * Rewards(a)
Upkeep(a)  == policy.upkeep * Awake(a) + policy.dormantUpkeep * Asleep(a)
Kids(a)    == {c \in children : c[1] = a}
Cloning(a) == pc = "embryo" /\ a = Order[pos]

\* No agent has more than it earned and did not spend on upkeep, on its children
\* and on the clone it has paid for; the balance of the living adds up.
Books(a) ==
  /\ lifecycle[a] # "none" =>
       Upkeep(a) + policy.clone * Cardinality(Kids(a))
         + (IF Cloning(a) /\ paid THEN policy.clone ELSE 0) + balance[a] <= Income(a)
  /\ lifecycle[a] \in {"ACTIVE", "DORMANT"} /\ policy.clone <= policy.cloneAbove =>
       balance[a] = Income(a) - Upkeep(a) - policy.clone * (Fates(a) + (IF Cloning(a) THEN 1 ELSE 0))

BalanceInv == IsFiniteSet(children) /\ \A a \in Agents : Books(a)

\* The failures in a row of an agent after the first n events of s: its tasks
\* since its last success and its last rewrite.
IsTask(e, a)  == e.type = "EVALUATION_COMPLETED" /\ e.agent = a
IsReset(e, a) == /\ e.agent = a
                 /\ \/ e.type = "GENOME_REWRITTEN"
                    \/ e.type = "EVALUATION_COMPLETED" /\ e.note = "success"
IsRewrite(e)  == e.type = "GENOME_REWRITTEN"
Streak(s, n, a) == {j \in 1..n : IsTask(s[j], a) /\ \A k \in 1..n : IsReset(s[k], a) => k < j}
Failures(s, n, a) == Cardinality(Streak(s, n, a))
Earned(s, need) == \A i \in 1..Len(s) :
                     IsRewrite(s[i]) => Failures(s, i - 1, s[i].agent) >= need

StreakInv ==
  /\ Earned(All, policy.rewriteAfter)
  /\ \A a \in Agents :
       Failures(All, Len(All), a) = IF pc = "settle" /\ a = Order[pos]
                                    THEN IF succeeded THEN 0 ELSE fails[a] + 1
                                    ELSE fails[a]

\* The first n events of s replay to state v of agent a.
IsState(e, a) == e.type = "AGENT_STATE_CHANGED" /\ e.agent = a
Replays(s, n, a, v) ==
  \/ v = "ACTIVE" /\ \A i \in 1..n : ~IsState(s[i], a)
  \/ \E i \in 1..n : /\ IsState(s[i], a) /\ s[i].note = v
                     /\ \A j \in 1..n : IsState(s[j], a) => j <= i

ReplayInv == pc # "seed" => \A a \in Agents : Replays(All, Len(All), a, lifecycle[a])

\* The children the first n events of s name are those that were registered.
IsBirth(e) == e.type = "EMBRYO_QUALIFIED"
Born(s, n) == {ChildOf(s[i]) : i \in {j \in 1..n : IsBirth(s[j])}}

BirthInv == children = Born(All, Len(All))

\* The snapshots announced by the first n events of s.
IsEnd(e) == e.type = "POPULATION_SNAPSHOT"
Ends(s, n) == {i \in 1..n : IsEnd(s[i])}
Ended(s, n) == Cardinality(Ends(s, n))
Says(s, n, a, v) == Replays(s, n, a, v) /\ \E i \in 1..n : IsState(s[i], a)
Agrees(s, n, shot) == /\ \A a \in Agents : Says(s, n, a, shot.seeded[a])
                      /\ shot.born = Born(s, n)
Shown(s, shots) == \A i \in 1..Len(s) : IsEnd(s[i]) => Agrees(s, i, shots[Ended(s, i)])
SnapshotInv == Ended(All, Len(All)) = Len(snapshots) /\ Shown(All, snapshots)
-----------------------------------------------------------------------------
(* Seeds, deaths and charges. *)

LEMMA AllSeeded ==
  ASSUME StateOK, SeedInv, SeedingDone
  PROVE  \A a \in Agents : lifecycle[a] = "ACTIVE"
<1> SUFFICES ASSUME NEW a \in Agents PROVE lifecycle[a] = "ACTIVE"
  OBVIOUS
<1>1. PICK i \in DOMAIN Order : Order[i] = a
  BY OrderIsAPlan
<1>2. i < pos
  BY OrderIsAPlan, LenProperties DEF SeedingDone, StateOK
<1> QED BY <1>1, <1>2 DEF SeedInv, SeedingDone

LEMMA SeedNext == StateOK /\ StateOK' /\ SeedInv /\ [Next]_vars => SeedInv'
<1> SUFFICES ASSUME StateOK, StateOK', SeedInv, [Next]_vars
             PROVE  SeedInv'
  OBVIOUS
<1>1. CASE UNCHANGED vars
  BY <1>1 DEF vars, SeedInv
<1>2. ASSUME NEW a \in Agents, Seed(a) PROVE SeedInv'
  <2>1. /\ pc = "seed" /\ a = Order[pos] /\ pos' = pos + 1 /\ pos \in Nat
        /\ lifecycle' = [lifecycle EXCEPT ![a] = "ACTIVE"]
        /\ UNCHANGED <<pc, gen, children, archived, snapshots, outbox, log>>
    BY <1>2 DEF Seed, At, StateOK
  <2>2. \A i \in DOMAIN Order : Order[i] \in Agents /\ i \in Nat
    BY OrderIsAPlan, ElementOfSeq, LenProperties
  <2>3. ASSUME NEW i \in DOMAIN Order, i < pos' PROVE lifecycle'[Order[i]] = "ACTIVE"
    <3>1. i < pos \/ i = pos
      BY <2>1, <2>2, <2>3
    <3> QED BY <2>1, <2>2, <3>1 DEF SeedInv, StateOK
  <2> QED BY <2>1, <2>3 DEF SeedInv
<1>3. CASE SeedingDone
  <2>1. pc' # "seed" /\ lifecycle' = lifecycle
    BY <1>3 DEF SeedingDone
  <2> QED BY <1>3, <2>1, AllSeeded DEF SeedInv
<1>4. CASE AppendEvent
  BY <1>4 DEF AppendEvent, SeedInv
<1>5. CASE StartGeneration \/ EndGeneration
  BY <1>5 DEF StartGeneration, EndGeneration, SeedInv
<1>6. ASSUME NEW a \in Agents, Visit(a), ~Seed(a) PROVE SeedInv'
  <2>1. pc # "seed" /\ pc' # "seed"
    <3>1. CASE \/ SkipDead(a) \/ Die(a) \/ ArchiveDead(a) \/ GoDormant(a) \/ StayAsIs(a)
               \/ EmbryoBorn(a) \/ EmbryoDies(a) \/ Maintain(a) \/ Settle(a)
      BY <3>1 DEF SkipDead, Die, ArchiveDead, GoDormant, StayAsIs, EmbryoBorn, EmbryoDies,
                  Maintain, Settle, At
    <3>2. CASE \/ (\E ok \in BOOLEAN : RunTask(a, ok)) \/ (\E m \in BOOLEAN : PayClone(a, m))
               \/ (\E m \in BOOLEAN : SelfRewrite(a, m))
      BY <3>2 DEF RunTask, PayClone, SelfRewrite, At
    <3> QED BY <1>6, <3>1, <3>2 DEF Visit
  <2>2. \A b \in Agents : lifecycle[b] # "none" => lifecycle'[b] # "none"
    <3>1. CASE Maintain(a)
      <4>1. lifecycle' = [lifecycle EXCEPT ![a] = IF Owed(a) > balance[a] THEN "DEAD" ELSE lifecycle[a]]
        BY <3>1 DEF Maintain
      <4> QED BY <4>1 DEF StateOK
    <3>2. CASE GoDormant(a)
      BY <3>2 DEF GoDormant, StateOK
    <3>3. CASE \/ SkipDead(a) \/ Die(a) \/ ArchiveDead(a) \/ StayAsIs(a)
               \/ EmbryoBorn(a) \/ EmbryoDies(a) \/ Settle(a)
      BY <3>3 DEF SkipDead, Die, ArchiveDead, StayAsIs, EmbryoBorn, EmbryoDies, Settle
    <3>4. CASE \/ (\E ok \in BOOLEAN : RunTask(a, ok)) \/ (\E m \in BOOLEAN : PayClone(a, m))
               \/ (\E m \in BOOLEAN : SelfRewrite(a, m))
      BY <3>4 DEF RunTask, PayClone, SelfRewrite
    <3> QED BY <1>6, <3>1, <3>2, <3>3, <3>4 DEF Visit
  <2> QED BY <2>1, <2>2 DEF SeedInv
<1> QED BY <1>1, <1>2, <1>3, <1>4, <1>5, <1>6 DEF Next
-----------------------------------------------------------------------------
\* A step that neither kills, buries, wakes nor puts to sleep.
LEMMA DeathKept ==
  ASSUME LogOK, DeathInv, lifecycle' = lifecycle, archived' = archived,
         \A b : Legacies(b)' = Legacies(b),
         (pc' = pc /\ pos' = pos) \/ (pc \notin Burying /\ pc' \notin Burying)
  PROVE  DeathInv'
BY DEF DeathInv, Burying

LEMMA DeathNext ==
  StateOK /\ StateOK' /\ LogOK /\ FlagsOK /\ VisitInv /\ SeedInv /\ DeathInv /\ [Next]_vars
    => DeathInv'
<1> SUFFICES ASSUME StateOK, StateOK', LogOK, FlagsOK, VisitInv, SeedInv, DeathInv, [Next]_vars
             PROVE  DeathInv'
  OBVIOUS
<1>1. CASE AppendEvent \/ SeedingDone \/ StartGeneration \/ EndGeneration \/ UNCHANGED vars
  <2>1. \A b : Legacies(b)' = Legacies(b)
    BY <1>1, UnmovedSteps DEF Unmoved
  <2> QED BY <1>1, <2>1, DeathKept DEF AppendEvent, SeedingDone, StartGeneration, EndGeneration,
                                       vars, Burying
<1>2. ASSUME NEW a \in Agents, Visit(a) PROVE DeathInv'
  <2>1. CASE Seed(a)
    <3>1. \A b : Legacies(b)' = Legacies(b)
      BY <2>1, UnmovedSteps DEF Unmoved
    <3>2. /\ pc = "seed" /\ pc' = "seed" /\ archived = {} /\ archived' = {}
          /\ lifecycle' = [lifecycle EXCEPT ![a] = "ACTIVE"]
      BY <2>1 DEF Seed, At, SeedInv
    <3> QED BY <3>1, <3>2 DEF DeathInv, Burying, StateOK
  <2>2. CASE \/ SkipDead(a) \/ StayAsIs(a) \/ (\E ok \in BOOLEAN : RunTask(a, ok))
             \/ (\E m \in BOOLEAN : PayClone(a, m)) \/ (\E m \in BOOLEAN : SelfRewrite(a, m))
    <3>1. \A b : Legacies(b)' = Legacies(b)
      BY <2>2, UnmovedSteps DEF Unmoved
    <3>2. /\ lifecycle' = lifecycle /\ archived' = archived
          /\ pc \in {"visit", "task", "evolve"} /\ pc' \in {"visit", "settle", "embryo"}
      BY <2>2 DEF SkipDead, StayAsIs, RunTask, PayClone, SelfRewrite, At
    <3> QED BY <3>1, <3>2, DeathKept DEF Burying
  <2>3. CASE Maintain(a)
    <3>1. \A b : Legacies(b)' = Legacies(b)
      BY <2>3, MaintainCounts
    <3>2. PICK state \in Lifecycles :
             /\ lifecycle' = [lifecycle EXCEPT ![a] = state]
             /\ \/ state = "DEAD"    /\ pc' = "dying" /\ pos' = pos
                \/ state = "DORMANT" /\ pc' = "visit"
                \/ state = "ACTIVE"  /\ pc' = "task"  /\ pos' = pos
      BY <2>3 DEF Maintain, StateOK, Lifecycles
    <3>3. pc = "visit" /\ a = Order[pos] /\ lifecycle[a] # "DEAD" /\ archived' = archived
      BY <2>3 DEF Maintain, At
    <3>4. a \notin archived
      BY <3>3 DEF DeathInv
    <3> QED BY <3>1, <3>2, <3>3, <3>4 DEF DeathInv, Burying, StateOK, FlagsOK
  <2>4. CASE Die(a)
    <3>1. \A b : Legacies(b)' = Legacies(b)
      BY <2>4, UnmovedSteps DEF Unmoved
    <3> QED BY <2>4, <3>1 DEF Die, At, DeathInv, Burying
  <2>5. CASE ArchiveDead(a)
    <3>1. /\ pc = "archiving" /\ a = Order[pos] /\ archived' = archived \cup {a}
          /\ lifecycle' = lifecycle /\ pc' = "visit"
      BY <2>5 DEF ArchiveDead, At
    <3>2. \A b : Legacies(b)' = Legacies(b) + (IF a = b THEN 1 ELSE 0) /\ Legacies(b) \in Nat
      BY <2>5, ArchiveCounts, TallyType DEF Counting
    <3>3. a \notin archived /\ lifecycle[a] = "DEAD"
      BY <3>1 DEF DeathInv, Burying, VisitInv
    <3>4. ASSUME NEW b \in Agents PROVE Legacies(b)' = IF b \in archived' THEN 1 ELSE 0
      <4>1. Legacies(b) = IF b \in archived THEN 1 ELSE 0
        BY DEF DeathInv
      <4> QED BY <3>1, <3>2, <3>3, <4>1
    <3> QED BY <3>1, <3>3, <3>4 DEF DeathInv, Burying
  <2>6. CASE Settle(a) \/ EmbryoBorn(a) \/ EmbryoDies(a)
    <3>1. \A b : Legacies(b)' = Legacies(b)
      BY <2>6, SettleCounts, EmbryoCounts
    <3> QED BY <2>6, <3>1, DeathKept DEF Settle, EmbryoBorn, EmbryoDies, At, Burying
  <2>7. CASE GoDormant(a)
    <3>1. \A b : Legacies(b)' = Legacies(b)
      BY <2>7, UnmovedSteps DEF Unmoved
    <3>2. /\ pc = "evolve" /\ pc' = "visit" /\ lifecycle[a] = "ACTIVE" /\ archived' = archived
          /\ lifecycle' = [lifecycle EXCEPT ![a] = "DORMANT"]
      BY <2>7 DEF GoDormant, At, VisitInv, Working
    <3>3. a \notin archived
      BY <3>2 DEF DeathInv
    <3> QED BY <3>1, <3>2, <3>3 DEF DeathInv, Burying, StateOK, FlagsOK
  <2> QED BY <1>2, <2>1, <2>2, <2>3, <2>4, <2>5, <2>6, <2>7 DEF Visit
<1> QED BY <1>1, <1>2 DEF Next
-----------------------------------------------------------------------------
\* Who has had the visit of this generation.
LEMMA VisitedMoves ==
  ASSUME StateOK, NEW a \in Agents, NEW stage, At(stage, a), pc \notin {"seed", "generation"},
         \/ pc' = "visit" /\ pos' = pos + 1
         \/ pc' \notin {"seed", "generation", "visit"} /\ pos' = pos,
         NEW b \in Agents
  PROVE  /\ Visited(b)' <=> Visited(b) \/ a = b
         /\ pc # "visit" => Visited(a)
         /\ pc = "visit" => ~Visited(a)
<1>1. pos \in DOMAIN Order /\ a = Order[pos] /\ pos \in Nat
  BY DEF At, StateOK
<1>2. \A i \in DOMAIN Order : i \in Nat
  BY OrderIsAPlan, LenProperties
<1>3. Visited(b) <=> \E i \in DOMAIN Order : Order[i] = b /\ (i < pos \/ (i = pos /\ pc # "visit"))
  BY DEF Visited
<1>4. \A i, j \in DOMAIN Order : Order[i] = Order[j] => i = j
  BY OrderIsAPlan
<1>5. Visited(a) <=> pc # "visit"
  BY <1>1, <1>2, <1>4 DEF Visited
<1>6. Visited(b)' <=> \E i \in DOMAIN Order : Order[i] = b /\ i <= pos
  <2>1. pc' \notin {"seed", "generation"}
    OBVIOUS
  <2>2. Visited(b)' <=> \E i \in DOMAIN Order : Order[i] = b /\ (i < pos' \/ (i = pos' /\ pc' # "visit"))
    BY <2>1 DEF Visited
  <2>3. \A i \in DOMAIN Order : (i < pos' \/ (i = pos' /\ pc' # "visit")) <=> i <= pos
    BY <1>1, <1>2
  <2> QED BY <2>2, <2>3
<1>7. (\E i \in DOMAIN Order : Order[i] = b /\ i <= pos) <=> Visited(b) \/ a = b
  <2>1. CASE a = b
    <3>1. Order[pos] = b /\ pos <= pos
      BY <1>1, <2>1
    <3>2. \E i \in DOMAIN Order : Order[i] = b /\ i <= pos
      BY <1>1, <3>1
    <3> QED BY <2>1, <3>2
  <2>2. CASE a # b
    <3>1. \A i \in DOMAIN Order : Order[i] = b => i # pos
      BY <1>1, <2>2
    <3> QED BY <1>1, <1>2, <1>3, <2>2, <3>1
  <2> QED BY <2>1, <2>2
<1> QED BY <1>5, <1>6, <1>7

\* A step that charges nobody: it changes no tally, wakes nobody and does not
\* begin the visit of anyone alive.
LEMMA ChargeKept ==
  ASSUME LogOK, ChargeInv, gen' = gen,
         \A b : Awake(b)' = Awake(b) /\ Asleep(b)' = Asleep(b),
         \A b \in Agents : lifecycle'[b] \in {"ACTIVE", "DORMANT"} =>
           lifecycle[b] \in {"ACTIVE", "DORMANT"} /\ (Visited(b)' <=> Visited(b))
  PROVE  ChargeInv'
BY DEF ChargeInv

LEMMA ChargeNext ==
  StateOK /\ StateOK' /\ LogOK /\ VisitInv /\ SeedInv /\ ChargeInv /\ [Next]_vars => ChargeInv'
<1> SUFFICES ASSUME StateOK, StateOK', LogOK, VisitInv, SeedInv, ChargeInv, [Next]_vars
             PROVE  ChargeInv'
  OBVIOUS
<1>1. CASE AppendEvent \/ UNCHANGED vars
  <2>1. \A b : Awake(b)' = Awake(b) /\ Asleep(b)' = Asleep(b)
    BY <1>1, UnmovedSteps DEF Unmoved
  <2>2. \A b : Visited(b)' <=> Visited(b)
    BY <1>1 DEF AppendEvent, vars, Visited
  <2> QED BY <1>1, <2>1, <2>2, ChargeKept DEF AppendEvent, vars
<1>2. CASE SeedingDone
  <2>1. \A b : Awake(b)' = Awake(b) /\ Asleep(b)' = Asleep(b)
    BY <1>2, UnmovedSteps DEF Unmoved
  <2>2. \A b : ~Visited(b)' /\ ~Visited(b)
    BY <1>2 DEF SeedingDone, Visited
  <2> QED BY <1>2, <2>1, <2>2, ChargeKept DEF SeedingDone
<1>3. CASE StartGeneration
  <2>1. \A b : Awake(b)' = Awake(b) /\ Asleep(b)' = Asleep(b)
    BY <1>3, UnmovedSteps DEF Unmoved
  <2>2. \A b : ~Visited(b)' /\ ~Visited(b)
    <3>1. \A i \in DOMAIN Order : i \in Nat /\ ~(i < 1)
      BY OrderIsAPlan, LenProperties
    <3> QED BY <1>3, <3>1 DEF StartGeneration, Visited
  <2> QED BY <1>3, <2>1, <2>2, ChargeKept DEF StartGeneration
<1>4. CASE EndGeneration
  <2>1. \A b : Awake(b)' = Awake(b) /\ Asleep(b)' = Asleep(b)
    BY <1>4, UnmovedSteps DEF Unmoved
  <2>2. \A b \in Agents : Visited(b) /\ ~Visited(b)'
    <3>1. ASSUME NEW b \in Agents PROVE Visited(b)
      <4>1. PICK i \in DOMAIN Order : Order[i] = b
        BY OrderIsAPlan
      <4>2. i < pos
        BY <1>4, <4>1, OrderIsAPlan, LenProperties DEF EndGeneration, StateOK
      <4> QED BY <1>4, <4>1, <4>2 DEF EndGeneration, Visited
    <3> QED BY <1>4, <3>1 DEF EndGeneration, Visited
  <2>3. gen' = gen + 1 /\ gen \in Nat /\ lifecycle' = lifecycle
    BY <1>4 DEF EndGeneration, StateOK
  <2> QED BY <2>1, <2>2, <2>3 DEF ChargeInv
<1>5. ASSUME NEW a \in Agents, Visit(a) PROVE ChargeInv'
  <2>1. CASE Seed(a)
    <3>1. \A b : Awake(b)' = Awake(b) /\ Asleep(b)' = Asleep(b)
      BY <2>1, UnmovedSteps DEF Unmoved
    <3>2. pc = "seed" /\ pc' = "seed" /\ gen = 0 /\ gen' = 0 /\ log = <<>> /\ outbox = <<>>
      BY <2>1 DEF Seed, At, SeedInv
    <3>3. All = <<>>
      BY <3>2, ConcatEmptySeq DEF All, LogOK
    <3>4. \A b : Awake(b) = 0 /\ Asleep(b) = 0
      BY <3>3, CountNothing DEF Awake, Asleep
    <3>5. \A b : ~Visited(b)'
      BY <3>2 DEF Visited
    <3> QED BY <3>1, <3>2, <3>4, <3>5 DEF ChargeInv
  <2>2. CASE SkipDead(a)
    <3>1. \A b : Awake(b)' = Awake(b) /\ Asleep(b)' = Asleep(b)
      BY <2>2, UnmovedSteps DEF Unmoved
    <3>2. /\ At("visit", a) /\ pc = "visit" /\ pc' = "visit" /\ pos' = pos + 1
          /\ lifecycle[a] = "DEAD" /\ lifecycle' = lifecycle /\ gen' = gen
      BY <2>2 DEF SkipDead, At
    <3>3. \A b \in Agents : Visited(b)' <=> Visited(b) \/ a = b
      BY <3>2, VisitedMoves
    <3> QED BY <3>1, <3>2, <3>3, ChargeKept
  <2>3. CASE Maintain(a)
    <3>1. \A b : /\ Awake(b)' = Awake(b) + (IF a = b /\ lifecycle'[a] = "ACTIVE" THEN 1 ELSE 0)
                /\ Asleep(b)' = Asleep(b) + (IF a = b /\ lifecycle'[a] = "DORMANT" THEN 1 ELSE 0)
      BY <2>3, MaintainCounts
    <3>2. PICK state \in Lifecycles :
             /\ lifecycle' = [lifecycle EXCEPT ![a] = state]
             /\ \/ state = "DEAD"    /\ pc' = "dying" /\ pos' = pos
                \/ state = "DORMANT" /\ pc' = "visit" /\ pos' = pos + 1
                \/ state = "ACTIVE"  /\ pc' = "task"  /\ pos' = pos
             /\ state # "DEAD" => state = lifecycle[a]
      BY <2>3 DEF Maintain, StateOK, Lifecycles
    <3>3. At("visit", a) /\ pc = "visit" /\ gen' = gen /\ gen \in Nat
      BY <2>3 DEF Maintain, At, StateOK
    <3>4. \A b \in Agents : (Visited(b)' <=> Visited(b) \/ a = b) /\ ~Visited(a)
      BY <3>2, <3>3, VisitedMoves
    <3>5. ASSUME NEW b \in Agents, lifecycle'[b] \in {"ACTIVE", "DORMANT"}
          PROVE  Awake(b)' + Asleep(b)'
                   = gen + (IF Visited(b)' THEN 1 ELSE 0)
      <4>1. Awake(b) \in Nat /\ Asleep(b) \in Nat
        BY TallyType DEF Counting
      <4>2. lifecycle[b] \in {"ACTIVE", "DORMANT"}
        BY <3>2, <3>5 DEF StateOK
      <4>3. Awake(b) + Asleep(b) = gen + (IF Visited(b) THEN 1 ELSE 0)
        BY <4>2 DEF ChargeInv
      <4>4. CASE a = b
        <5>1. \/ lifecycle'[a] = "ACTIVE" /\ lifecycle'[a] # "DORMANT"
              \/ lifecycle'[a] = "DORMANT" /\ lifecycle'[a] # "ACTIVE"
          BY <3>5, <4>4
        <5>2. Awake(b)' + Asleep(b)'
                = Awake(b) + Asleep(b) + 1
          BY <3>1, <4>1, <4>4, <5>1
        <5> QED BY <3>3, <3>4, <4>1, <4>3, <4>4, <5>2
      <4>5. CASE a # b
        BY <3>1, <3>3, <3>4, <4>1, <4>3, <4>5
      <4> QED BY <4>4, <4>5
    <3> QED BY <3>3, <3>5 DEF ChargeInv
  <2>4. CASE Visit(a) /\ ~Seed(a) /\ ~SkipDead(a) /\ ~Maintain(a)
    <3>1. \A b : Awake(b)' = Awake(b) /\ Asleep(b)' = Asleep(b)
      BY <2>4, UnmovedSteps, ArchiveCounts, SettleCounts, EmbryoCounts DEF Unmoved, Visit
    <3>2. /\ At(pc, a) /\ pc \in Working \cup Burying /\ gen' = gen
          /\ \/ pc' = "visit" /\ pos' = pos + 1
             \/ pc' \in Working \cup Burying /\ pos' = pos
          /\ \/ lifecycle' = lifecycle
             \/ pc = "evolve" /\ lifecycle' = [lifecycle EXCEPT ![a] = "DORMANT"]
      <4>1. CASE Die(a) \/ ArchiveDead(a) \/ EmbryoBorn(a) \/ EmbryoDies(a)
        BY <4>1 DEF Die, ArchiveDead, EmbryoBorn, EmbryoDies, At, Working, Burying
      <4>2. CASE (\E ok \in BOOLEAN : RunTask(a, ok)) \/ Settle(a)
        BY <4>2 DEF RunTask, Settle, At, Working, Burying
      <4>3. CASE \/ GoDormant(a) \/ StayAsIs(a) \/ (\E m \in BOOLEAN : PayClone(a, m))
                 \/ (\E m \in BOOLEAN : SelfRewrite(a, m))
        BY <4>3 DEF GoDormant, StayAsIs, PayClone, SelfRewrite, At, Working, Burying
      <4> QED BY <2>4, <4>1, <4>2, <4>3 DEF Visit
    <3>3. \A b \in Agents : (Visited(b)' <=> Visited(b) \/ a = b) /\ Visited(a)
      <4>1. /\ pc \notin {"seed", "generation", "visit"}
            /\ \/ pc' = "visit" /\ pos' = pos + 1
               \/ pc' \notin {"seed", "generation", "visit"} /\ pos' = pos
        BY <3>2 DEF Working, Burying
      <4> QED BY <3>2, <4>1, VisitedMoves
    <3>4. \A b \in Agents : lifecycle'[b] \in {"ACTIVE", "DORMANT"} =>
            lifecycle[b] \in {"ACTIVE", "DORMANT"}
      <4>1. pc = "evolve" => lifecycle[a] = "ACTIVE"
        BY <3>2 DEF VisitInv, Working, At
      <4> QED BY <3>2, <4>1 DEF StateOK
    <3> QED BY <3>1, <3>2, <3>3, <3>4, ChargeKept
  <2> QED BY <1>5, <2>1, <2>2, <2>3, <2>4
<1> QED BY <1>1, <1>2, <1>3, <1>4, <1>5 DEF Next
-----------------------------------------------------------------------------
(* The balance. *)

LEMMA PolicyKept == [Next]_vars => policy' = policy
BY DEF Next, Visit, vars, AppendEvent, SeedingDone, StartGeneration, EndGeneration, Seed,
       SkipDead, Maintain, Die, ArchiveDead, RunTask, Settle, GoDormant, PayClone, EmbryoBorn,
       EmbryoDies, SelfRewrite, StayAsIs

LEMMA OneMore ==
  ASSUME NEW p \in Nat, NEW n \in Nat
  PROVE  p * n \in Nat /\ p * (n + 1) = p * n + p /\ p * 0 = 0
OBVIOUS

\* The numbers of the books, whatever the state.
LEMMA BooksType ==
  ASSUME StateOK, LogOK, IsFiniteSet(children), NEW a \in Agents
  PROVE  /\ Income(a) \in Nat /\ Upkeep(a) \in Nat /\ balance[a] \in Nat
         /\ IsFiniteSet(Kids(a)) /\ Cardinality(Kids(a)) \in Nat
         /\ Counting(a) /\ policy.clone \in Nat /\ policy.cloneAbove \in Nat
<1>1. /\ policy.initial \in Nat /\ policy.reward \in Nat /\ policy.upkeep \in Nat
      /\ policy.dormantUpkeep \in Nat /\ policy.clone \in Nat /\ policy.cloneAbove \in Nat
  BY PlansType DEF StateOK
<1>2. Counting(a)
  BY TallyType
<1>3. /\ policy.reward * Rewards(a) \in Nat /\ policy.upkeep * Awake(a) \in Nat
      /\ policy.dormantUpkeep * Asleep(a) \in Nat
  BY <1>1, <1>2, OneMore DEF Counting
<1>4. IsFiniteSet(Kids(a)) /\ Cardinality(Kids(a)) \in Nat
  BY FS_Subset, FS_CardinalityType DEF Kids
<1>5. Income(a) \in Nat /\ Upkeep(a) \in Nat
  BY <1>1, <1>3 DEF Income, Upkeep
<1> QED BY <1>1, <1>2, <1>4, <1>5 DEF StateOK

\* The books of an agent about whom nothing happens.
LEMMA BooksKept ==
  ASSUME NEW b \in Agents, Books(b), policy' = policy,
         Awake(b)' = Awake(b), Asleep(b)' = Asleep(b), Rewards(b)' = Rewards(b), Fates(b)' = Fates(b),
         Kids(b)' = Kids(b), balance'[b] = balance[b],
         Cloning(b)' <=> Cloning(b), Cloning(b) => paid' = paid,
         lifecycle'[b] # "none" => lifecycle[b] # "none",
         lifecycle'[b] \in {"ACTIVE", "DORMANT"} => lifecycle[b] \in {"ACTIVE", "DORMANT"}
  PROVE  Books(b)'
<1>1. Income(b)' = Income(b) /\ Upkeep(b)' = Upkeep(b) /\ Fates(b)' = Fates(b)
  BY DEF Income, Upkeep
<1> QED BY <1>1 DEF Books

\* A visit leaves the other agents alone.
LEMMA OthersKept ==
  ASSUME StateOK, StateOK', LogOK, NEW a \in Agents, Visit(a), NEW b \in Agents, b # a
  PROVE  /\ Unmoved(b) /\ Kids(b)' = Kids(b)
         /\ balance'[b] = balance[b] /\ lifecycle'[b] = lifecycle[b] /\ fails'[b] = fails[b]
         /\ ~Cloning(b) /\ ~Cloning(b)'
<1>1. Unmoved(b)
  <2>1. CASE Maintain(a)
    BY <2>1, MaintainCounts, TallyType DEF Unmoved, Counting
  <2>2. CASE ArchiveDead(a)
    BY <2>2, ArchiveCounts, TallyType DEF Unmoved, Counting
  <2>3. CASE Settle(a)
    BY <2>3, SettleCounts, TallyType DEF Unmoved, Counting
  <2>4. CASE EmbryoBorn(a) \/ EmbryoDies(a)
    BY <2>4, EmbryoCounts, TallyType DEF Unmoved, Counting
  <2> QED BY <2>1, <2>2, <2>3, <2>4, UnmovedSteps DEF Visit
<1>2. balance'[b] = balance[b] /\ lifecycle'[b] = lifecycle[b] /\ fails'[b] = fails[b]
  <2>1. CASE Seed(a) \/ SkipDead(a) \/ Die(a) \/ ArchiveDead(a) \/ GoDormant(a) \/ StayAsIs(a)
             \/ EmbryoBorn(a) \/ EmbryoDies(a)
    BY <2>1 DEF Seed, SkipDead, Die, ArchiveDead, GoDormant, StayAsIs, EmbryoBorn, EmbryoDies, StateOK
  <2>2. CASE Maintain(a)
    BY <2>2 DEF Maintain, StateOK
  <2>3. CASE (\E m \in BOOLEAN : PayClone(a, m)) \/ Settle(a)
    BY <2>3 DEF PayClone, Settle, StateOK
  <2>4. CASE (\E ok \in BOOLEAN : RunTask(a, ok)) \/ (\E m \in BOOLEAN : SelfRewrite(a, m))
    BY <2>4 DEF RunTask, SelfRewrite, StateOK
  <2> QED BY <2>1, <2>2, <2>3, <2>4 DEF Visit
<1>3. Kids(b)' = Kids(b)
  <2>1. CASE children' = children
    BY <2>1 DEF Kids
  <2>2. CASE children' = children \cup {<<a, gen>>}
    BY <2>2 DEF Kids
  <2> QED BY <2>1, <2>2 DEF Visit, Seed, SkipDead, Maintain, Die, ArchiveDead, RunTask, Settle,
             GoDormant, PayClone, EmbryoBorn, EmbryoDies, SelfRewrite, StayAsIs
<1>4. At(pc, a) /\ (pc' = "embryo" => pos' = pos)
  <2>1. CASE \/ Seed(a) \/ SkipDead(a) \/ Die(a) \/ ArchiveDead(a) \/ GoDormant(a) \/ StayAsIs(a)
             \/ EmbryoBorn(a) \/ EmbryoDies(a) \/ Maintain(a) \/ Settle(a)
    BY <2>1 DEF Seed, SkipDead, Die, ArchiveDead, GoDormant, StayAsIs, EmbryoBorn, EmbryoDies,
                Maintain, Settle, At
  <2>2. CASE \/ (\E ok \in BOOLEAN : RunTask(a, ok)) \/ (\E m \in BOOLEAN : PayClone(a, m))
             \/ (\E m \in BOOLEAN : SelfRewrite(a, m))
    BY <2>2 DEF RunTask, PayClone, SelfRewrite, At
  <2> QED BY <2>1, <2>2 DEF Visit
<1>5. ~Cloning(b) /\ ~Cloning(b)'
  BY <1>4 DEF Cloning, At
<1> QED BY <1>1, <1>2, <1>3, <1>5

LEMMA MaintainBooks ==
  ASSUME StateOK, StateOK', LogOK, SeedInv, BalanceInv, policy' = policy, NEW a \in Agents,
         Maintain(a)
  PROVE  Books(a)'
<1> DEFINE owed == Owed(a)
<1>1. /\ pc = "visit" /\ pc' # "embryo" /\ children' = children /\ lifecycle[a] # "DEAD"
      /\ balance'[a] = Debit(balance[a], owed)
      /\ lifecycle'[a] = IF owed > balance[a] THEN "DEAD" ELSE lifecycle[a]
  BY DEF Maintain, At, StateOK
<1>2. /\ Income(a) \in Nat /\ Upkeep(a) \in Nat /\ balance[a] \in Nat
      /\ Cardinality(Kids(a)) \in Nat /\ Counting(a) /\ policy.clone \in Nat
      /\ policy.upkeep \in Nat /\ policy.dormantUpkeep \in Nat
  BY BooksType, PlansType DEF BalanceInv, StateOK
<1>3. /\ Awake(a)' = Awake(a) + (IF lifecycle'[a] = "ACTIVE" THEN 1 ELSE 0)
      /\ Asleep(a)' = Asleep(a) + (IF lifecycle'[a] = "DORMANT" THEN 1 ELSE 0)
      /\ Income(a)' = Income(a) /\ Fates(a)' = Fates(a) /\ Kids(a)' = Kids(a)
      /\ ~Cloning(a) /\ ~Cloning(a)'
  BY <1>1, MaintainCounts DEF Income, Kids, Cloning
<1>4. owed = (IF lifecycle[a] = "DORMANT" THEN policy.dormantUpkeep ELSE policy.upkeep) /\ owed \in Nat
  BY <1>2 DEF Owed
<1>5. lifecycle'[a] = "none" \/ lifecycle'[a] = "DEAD" \/ lifecycle'[a] = "ACTIVE" \/ lifecycle'[a] = "DORMANT"
  BY DEF StateOK, Lifecycles
<1>6. policy.clone * Cardinality(Kids(a)) \in Nat
  BY <1>2, OneMore
<1>7. CASE lifecycle'[a] = "DEAD"
  <2>1. owed > balance[a] /\ balance'[a] = 0
    BY <1>1, <1>2, <1>4, <1>7 DEF Debit
  <2>2. Upkeep(a)' = Upkeep(a)
    BY <1>2, <1>3, <1>7 DEF Upkeep, Counting
  <2>3. lifecycle[a] # "none"
    BY <1>1 DEF SeedInv
  <2>4. Upkeep(a) + policy.clone * Cardinality(Kids(a)) + 0 + balance[a] <= Income(a)
    BY <1>3, <2>3 DEF BalanceInv, Books
  <2> QED BY <1>2, <1>3, <1>6, <1>7, <2>1, <2>2, <2>4 DEF Books
<1>8. CASE lifecycle'[a] \in {"ACTIVE", "DORMANT"}
  <2>1. lifecycle'[a] = lifecycle[a] /\ balance'[a] = balance[a] - owed
    BY <1>1, <1>2, <1>4, <1>8 DEF Debit
  <2>2. Upkeep(a)' = Upkeep(a) + owed
    <3>1. /\ policy.upkeep * (Awake(a) + 1) = policy.upkeep * Awake(a) + policy.upkeep
          /\ policy.dormantUpkeep * (Asleep(a) + 1)
               = policy.dormantUpkeep * Asleep(a) + policy.dormantUpkeep
          /\ policy.upkeep * Awake(a) \in Nat /\ policy.dormantUpkeep * Asleep(a) \in Nat
      BY <1>2, OneMore DEF Counting
    <3>2. CASE lifecycle[a] = "ACTIVE"
      <4>1. Awake(a)' = Awake(a) + 1 /\ Asleep(a)' = Asleep(a) /\ owed = policy.upkeep
        BY <1>2, <1>3, <1>4, <2>1, <3>2 DEF Counting
      <4> QED BY <1>2, <3>1, <4>1 DEF Upkeep
    <3>3. CASE lifecycle[a] = "DORMANT"
      <4>1. Awake(a)' = Awake(a) /\ Asleep(a)' = Asleep(a) + 1 /\ owed = policy.dormantUpkeep
        BY <1>2, <1>3, <1>4, <2>1, <3>3 DEF Counting
      <4> QED BY <1>2, <3>1, <4>1 DEF Upkeep
    <3> QED BY <1>8, <2>1, <3>2, <3>3
  <2>3. /\ Upkeep(a) + policy.clone * Cardinality(Kids(a)) + 0 + balance[a] <= Income(a)
        /\ policy.clone <= policy.cloneAbove =>
             balance[a] = Income(a) - Upkeep(a) - policy.clone * (Fates(a) + 0)
    BY <1>3, <1>8, <2>1 DEF BalanceInv, Books
  <2>4. policy.clone * (Fates(a) + 0) \in Nat
    BY <1>2, OneMore DEF Counting
  <2> QED BY <1>2, <1>3, <1>4, <1>6, <1>8, <2>1, <2>2, <2>3, <2>4 DEF Books
<1>9. CASE lifecycle'[a] = "none"
  BY <1>9 DEF Books
<1> QED BY <1>5, <1>7, <1>8, <1>9

LEMMA SettleBooks ==
  ASSUME StateOK, StateOK', LogOK, BalanceInv, policy' = policy, NEW a \in Agents, Settle(a)
  PROVE  Books(a)'
<1>1. /\ pc = "settle" /\ pc' # "embryo" /\ children' = children /\ lifecycle' = lifecycle
      /\ balance'[a] = balance[a] + (IF succeeded THEN policy.reward ELSE 0)
  BY PlansType DEF Settle, At, StateOK
<1>2. /\ Income(a) \in Nat /\ Upkeep(a) \in Nat /\ balance[a] \in Nat
      /\ Cardinality(Kids(a)) \in Nat /\ Counting(a) /\ policy.clone \in Nat
      /\ policy.reward \in Nat /\ policy.initial \in Nat
  BY BooksType, PlansType DEF BalanceInv, StateOK
<1>3. /\ Upkeep(a)' = Upkeep(a) /\ Fates(a)' = Fates(a) /\ Kids(a)' = Kids(a)
      /\ Rewards(a)' = Rewards(a) + (IF succeeded THEN 1 ELSE 0)
      /\ ~Cloning(a) /\ ~Cloning(a)'
  BY <1>1, SettleCounts DEF Upkeep, Kids, Cloning
<1>4. Income(a)' = Income(a) + (IF succeeded THEN policy.reward ELSE 0)
  <2>1. /\ policy.reward * (Rewards(a) + 1) = policy.reward * Rewards(a) + policy.reward
        /\ policy.reward * Rewards(a) \in Nat /\ Rewards(a) \in Nat
    BY <1>2, OneMore DEF Counting
  <2>2. CASE succeeded
    BY <1>2, <1>3, <2>1, <2>2 DEF Income
  <2>3. CASE ~succeeded
    BY <1>2, <1>3, <2>1, <2>3 DEF Income
  <2> QED BY <2>2, <2>3
<1>5. policy.clone * Cardinality(Kids(a)) \in Nat /\ policy.clone * (Fates(a) + 0) \in Nat
  BY <1>2, OneMore DEF Counting
<1>6. /\ lifecycle[a] # "none" =>
           Upkeep(a) + policy.clone * Cardinality(Kids(a)) + 0 + balance[a] <= Income(a)
      /\ lifecycle[a] \in {"ACTIVE", "DORMANT"} /\ policy.clone <= policy.cloneAbove =>
           balance[a] = Income(a) - Upkeep(a) - policy.clone * (Fates(a) + 0)
  BY <1>3 DEF BalanceInv, Books
<1> QED BY <1>1, <1>2, <1>3, <1>4, <1>5, <1>6 DEF Books

\* The price of a clone is paid here and held until the embryo's fate is known.
LEMMA PayCloneBooks ==
  ASSUME StateOK, StateOK', LogOK, BalanceInv, policy' = policy, NEW a \in Agents,
         NEW m \in BOOLEAN, PayClone(a, m)
  PROVE  Books(a)'
<1>1. /\ pc = "evolve" /\ pc' = "embryo" /\ pos' = pos /\ a = Order[pos]
      /\ children' = children /\ lifecycle' = lifecycle
      /\ balance'[a] = Debit(balance[a], policy.clone) /\ balance[a] >= policy.cloneAbove
      /\ paid' = (policy.clone <= balance[a])
  BY DEF PayClone, At, CanClone, StateOK
<1>2. /\ Income(a) \in Nat /\ Upkeep(a) \in Nat /\ balance[a] \in Nat
      /\ Cardinality(Kids(a)) \in Nat /\ Counting(a) /\ policy.clone \in Nat
      /\ policy.cloneAbove \in Nat
  BY BooksType DEF BalanceInv
<1>3. /\ Income(a)' = Income(a) /\ Upkeep(a)' = Upkeep(a) /\ Fates(a)' = Fates(a)
      /\ Kids(a)' = Kids(a) /\ ~Cloning(a) /\ Cloning(a)'
  BY <1>1, UnmovedSteps DEF Unmoved, Income, Upkeep, Kids, Cloning
<1>4. /\ policy.clone * Cardinality(Kids(a)) \in Nat /\ policy.clone * (Fates(a) + 0) \in Nat
      /\ policy.clone * (Fates(a) + 1) = policy.clone * (Fates(a) + 0) + policy.clone
  <2>1. Fates(a) \in Nat /\ Fates(a) + 0 = Fates(a)
    BY <1>2 DEF Counting
  <2> QED BY <1>2, <2>1, OneMore
<1>5. /\ lifecycle[a] # "none" =>
           Upkeep(a) + policy.clone * Cardinality(Kids(a)) + 0 + balance[a] <= Income(a)
      /\ lifecycle[a] \in {"ACTIVE", "DORMANT"} /\ policy.clone <= policy.cloneAbove =>
           balance[a] = Income(a) - Upkeep(a) - policy.clone * (Fates(a) + 0)
  BY <1>3 DEF BalanceInv, Books
<1>6. CASE policy.clone <= balance[a]
  <2>1. balance'[a] = balance[a] - policy.clone /\ paid'
    BY <1>1, <1>2, <1>6 DEF Debit
  <2> QED BY <1>1, <1>2, <1>3, <1>4, <1>5, <2>1 DEF Books
<1>7. CASE ~(policy.clone <= balance[a])
  <2>0. ~paid'
    BY <1>1, <1>7, Zenon
  <2>1. balance'[a] = 0 /\ ~paid' /\ ~(policy.clone <= policy.cloneAbove)
    BY <1>1, <1>2, <1>7, <2>0 DEF Debit
  <2> QED BY <1>1, <1>2, <1>3, <1>4, <1>5, <2>1 DEF Books
<1> QED BY <1>6, <1>7

LEMMA EmbryoBooks ==
  ASSUME StateOK, StateOK', LogOK, BalanceInv, policy' = policy, NEW a \in Agents,
         EmbryoBorn(a) \/ EmbryoDies(a)
  PROVE  Books(a)'
<1>1. /\ pc = "embryo" /\ pc' = "visit" /\ a = Order[pos] /\ lifecycle' = lifecycle
      /\ balance' = balance
      /\ \/ children' = children
         \/ paid /\ children' = children \cup {<<a, gen>>}
  BY DEF EmbryoBorn, EmbryoDies, At
<1>2. /\ Income(a) \in Nat /\ Upkeep(a) \in Nat /\ balance[a] \in Nat
      /\ IsFiniteSet(Kids(a)) /\ Cardinality(Kids(a)) \in Nat /\ Counting(a) /\ policy.clone \in Nat
  BY BooksType DEF BalanceInv
<1>3. /\ Income(a)' = Income(a) /\ Upkeep(a)' = Upkeep(a) /\ Fates(a)' = Fates(a) + 1
      /\ Cloning(a) /\ ~Cloning(a)'
  BY <1>1, EmbryoCounts DEF Income, Upkeep, Cloning
<1> DEFINE kids == policy.clone * Cardinality(Kids(a))
<1>4. kids \in Nat /\ policy.clone * (Cardinality(Kids(a)) + 1) = kids + policy.clone
  BY <1>2, OneMore
<1>5. kids' <= kids + (IF paid THEN policy.clone ELSE 0) /\ kids' \in Nat
  <2>1. CASE children' = children
    <3>1. Kids(a)' = Kids(a)
      BY <2>1 DEF Kids
    <3> QED BY <1>2, <1>4, <3>1
  <2>2. CASE paid /\ children' = children \cup {<<a, gen>>}
    <3>1. Kids(a)' = Kids(a) \cup {<<a, gen>>}
      BY <2>2 DEF Kids
    <3>2. Cardinality(Kids(a)') = Cardinality(Kids(a)) \/ Cardinality(Kids(a)') = Cardinality(Kids(a)) + 1
      BY <1>2, <3>1, FS_AddElement
    <3> QED BY <1>2, <1>4, <2>2, <3>2
  <2> QED BY <1>1, <2>1, <2>2
<1>6. policy.clone * (Fates(a) + 1 + 0) = policy.clone * (Fates(a) + 1)
  BY <1>2 DEF Counting
<1>7. /\ lifecycle[a] # "none" =>
           Upkeep(a) + kids + (IF paid THEN policy.clone ELSE 0) + balance[a] <= Income(a)
      /\ lifecycle[a] \in {"ACTIVE", "DORMANT"} /\ policy.clone <= policy.cloneAbove =>
           balance[a] = Income(a) - Upkeep(a) - policy.clone * (Fates(a) + 1)
  BY <1>3 DEF BalanceInv, Books
<1>8. lifecycle[a] # "none" => Upkeep(a) + kids' + 0 + balance[a] <= Income(a)
  <2> HIDE DEF kids
  <2> QED BY <1>2, <1>4, <1>5, <1>7
<1> QED BY <1>1, <1>3, <1>6, <1>7, <1>8 DEF Books

LEMMA SeedBooks ==
  ASSUME StateOK, StateOK', LogOK, SeedInv, policy' = policy, NEW a \in Agents, Seed(a)
  PROVE  Books(a)'
<1>1. /\ pc = "seed" /\ pc' = "seed" /\ log = <<>> /\ outbox = <<>> /\ children' = {}
      /\ balance'[a] = policy.initial
  BY DEF Seed, At, SeedInv, StateOK
<1>2. All = <<>>
  BY <1>1, ConcatEmptySeq DEF All, LogOK
<1>3. Awake(a) = 0 /\ Asleep(a) = 0 /\ Rewards(a) = 0 /\ Fates(a) = 0
  BY <1>2, CountNothing DEF Awake, Asleep, Rewards, Fates
<1>4. Awake(a)' = 0 /\ Asleep(a)' = 0 /\ Rewards(a)' = 0 /\ Fates(a)' = 0
  BY <1>3, UnmovedSteps DEF Unmoved
<1>5. Kids(a)' = {}
  BY <1>1 DEF Kids
<1>6. Cardinality({}) = 0
  BY FS_EmptySet
<1>7. /\ policy.initial \in Nat /\ policy.reward * 0 = 0 /\ policy.upkeep * 0 = 0
      /\ policy.dormantUpkeep * 0 = 0 /\ policy.clone * 0 = 0
  BY PlansType, OneMore DEF StateOK
<1>8. ~Cloning(a)'
  BY <1>1 DEF Cloning
<1>9. Income(a)' = policy.initial /\ Upkeep(a)' = 0
  BY <1>4, <1>7 DEF Income, Upkeep
<1>10. policy.clone * (0 + 0) = 0 /\ policy.clone * Cardinality(Kids(a)') = 0
  BY <1>5, <1>6, <1>7
<1> QED BY <1>1, <1>4, <1>7, <1>8, <1>9, <1>10 DEF Books

LEMMA BalanceNext ==
  StateOK /\ StateOK' /\ LogOK /\ VisitInv /\ SeedInv /\ BalanceInv /\ [Next]_vars => BalanceInv'
<1> SUFFICES ASSUME StateOK, StateOK', LogOK, VisitInv, SeedInv, BalanceInv, [Next]_vars
             PROVE  BalanceInv'
  OBVIOUS
<1>0. policy' = policy
  BY PolicyKept
<1>1. CASE AppendEvent \/ SeedingDone \/ StartGeneration \/ EndGeneration \/ UNCHANGED vars
  <2>1. /\ lifecycle' = lifecycle /\ balance' = balance /\ children' = children /\ paid' = paid
        /\ (pc' = pc /\ pos' = pos) \/ (pc # "embryo" /\ pc' # "embryo")
    BY <1>1 DEF AppendEvent, SeedingDone, StartGeneration, EndGeneration, vars
  <2>2. ASSUME NEW b \in Agents PROVE Books(b)'
    <3>1. /\ Awake(b)' = Awake(b) /\ Asleep(b)' = Asleep(b)
          /\ Rewards(b)' = Rewards(b) /\ Fates(b)' = Fates(b)
      BY <1>1, UnmovedSteps DEF Unmoved
    <3>2. Kids(b)' = Kids(b) /\ (Cloning(b)' <=> Cloning(b))
      BY <2>1 DEF Kids, Cloning
    <3> QED BY <1>0, <2>1, <3>1, <3>2, BooksKept DEF BalanceInv
  <2> QED BY <2>1, <2>2 DEF BalanceInv
<1>2. ASSUME NEW a \in Agents, Visit(a) PROVE BalanceInv'
  <2>1. IsFiniteSet(children')
    <3>1. children' = children \/ children' = children \cup {<<a, gen>>}
      BY <1>2 DEF Visit, Seed, SkipDead, Maintain, Die, ArchiveDead, RunTask, Settle,
                  GoDormant, PayClone, EmbryoBorn, EmbryoDies, SelfRewrite, StayAsIs
    <3> QED BY <3>1, FS_AddElement DEF BalanceInv
  <2>2. ASSUME NEW b \in Agents, b # a PROVE Books(b)'
    BY <1>0, <1>2, <2>2, OthersKept, BooksKept DEF BalanceInv, Unmoved
  <2>3. Books(a)'
    <3>1. CASE Seed(a)
      BY <1>0, <3>1, SeedBooks
    <3>2. CASE Maintain(a)
      BY <1>0, <3>2, MaintainBooks
    <3>3. CASE Settle(a)
      BY <1>0, <3>3, SettleBooks
    <3>4. CASE \E m \in BOOLEAN : PayClone(a, m)
      BY <1>0, <3>4, PayCloneBooks
    <3>5. CASE EmbryoBorn(a) \/ EmbryoDies(a)
      BY <1>0, <3>5, EmbryoBooks
    <3>6. CASE \/ SkipDead(a) \/ Die(a) \/ ArchiveDead(a) \/ GoDormant(a) \/ StayAsIs(a)
               \/ (\E ok \in BOOLEAN : RunTask(a, ok)) \/ (\E m \in BOOLEAN : SelfRewrite(a, m))
      <4>1. /\ Awake(a)' = Awake(a) /\ Asleep(a)' = Asleep(a)
            /\ Rewards(a)' = Rewards(a) /\ Fates(a)' = Fates(a)
        <5>1. CASE ArchiveDead(a)
          BY <5>1, ArchiveCounts
        <5>2. CASE ~ArchiveDead(a)
          BY <3>6, <5>2, UnmovedSteps DEF Unmoved
        <5> QED BY <5>1, <5>2
      <4>2. /\ balance' = balance /\ children' = children
            /\ pc # "embryo" /\ pc' # "embryo"
            /\ \/ lifecycle' = lifecycle
               \/ pc = "evolve" /\ At("evolve", a) /\ lifecycle' = [lifecycle EXCEPT ![a] = "DORMANT"]
        <5>1. CASE SkipDead(a) \/ Die(a) \/ ArchiveDead(a) \/ GoDormant(a) \/ StayAsIs(a)
          BY <5>1 DEF SkipDead, Die, ArchiveDead, GoDormant, StayAsIs, At
        <5>2. CASE (\E ok \in BOOLEAN : RunTask(a, ok)) \/ (\E m \in BOOLEAN : SelfRewrite(a, m))
          BY <5>2 DEF RunTask, SelfRewrite, At
        <5> QED BY <3>6, <5>1, <5>2
      <4>3. Kids(a)' = Kids(a) /\ ~Cloning(a) /\ ~Cloning(a)'
        BY <4>2 DEF Kids, Cloning
      <4>4. /\ lifecycle'[a] # "none" => lifecycle[a] # "none"
            /\ lifecycle'[a] \in {"ACTIVE", "DORMANT"} => lifecycle[a] \in {"ACTIVE", "DORMANT"}
        BY <4>2 DEF VisitInv, Working, At, StateOK
      <4> QED BY <1>0, <4>1, <4>2, <4>3, <4>4, BooksKept DEF BalanceInv
    <3> QED BY <1>2, <3>1, <3>2, <3>3, <3>4, <3>5, <3>6 DEF Visit
  <2> QED BY <2>1, <2>2, <2>3 DEF BalanceInv
<1> QED BY <1>1, <1>2 DEF Next
-----------------------------------------------------------------------------
(* What one more event makes of failures, replays and snapshots. *)

\* What is told of a prefix depends on the prefix alone.
LEMMA SamePrefix ==
  ASSUME NEW s, NEW t, NEW n \in Nat, \A j \in 1..n : t[j] = s[j]
  PROVE  /\ \A a : Streak(t, n, a) = Streak(s, n, a) /\ Failures(t, n, a) = Failures(s, n, a)
         /\ \A a, v : Replays(t, n, a, v) <=> Replays(s, n, a, v)
         /\ Ends(t, n) = Ends(s, n) /\ Ended(t, n) = Ended(s, n)
         /\ Born(t, n) = Born(s, n)
         /\ \A shot : Agrees(t, n, shot) <=> Agrees(s, n, shot)
<1>1. \A a : Streak(t, n, a) = Streak(s, n, a)
  BY DEF Streak
<1>2. \A a, v : Replays(t, n, a, v) <=> Replays(s, n, a, v)
  BY DEF Replays
<1>3. Ends(t, n) = Ends(s, n)
  BY DEF Ends
<1>4. Born(t, n) = Born(s, n)
  BY DEF Born
<1>5. \A a, v : Says(t, n, a, v) <=> Says(s, n, a, v)
  BY <1>2 DEF Says
<1>6. \A shot : Agrees(t, n, shot) <=> Agrees(s, n, shot)
  BY <1>4, <1>5 DEF Agrees
<1> QED BY <1>1, <1>2, <1>3, <1>4, <1>6 DEF Failures, Ended

LEMMA AppendPrefix ==
  ASSUME NEW s \in Seq(Events), NEW e \in Events
  PROVE  /\ Len(s) \in Nat /\ Append(s, e) \in Seq(Events) /\ Len(Append(s, e)) = Len(s) + 1
         /\ \A n \in 0..Len(s) : \A j \in 1..n : Append(s, e)[j] = s[j]
         /\ Append(s, e)[Len(s) + 1] = e
BY AppendProperties, LenProperties

LEMMA FailuresType ==
  ASSUME NEW s, NEW n \in Nat, NEW a
  PROVE  /\ IsFiniteSet(Streak(s, n, a)) /\ Streak(s, n, a) \subseteq 1..n
         /\ Failures(s, n, a) \in Nat
<1>1. IsFiniteSet(1..n) /\ Streak(s, n, a) \in SUBSET (1..n)
  BY FS_Interval DEF Streak
<1> QED BY <1>1, FS_Subset, FS_CardinalityType DEF Failures

\* A task adds to the failures in a row unless it succeeds, a rewrite ends them.
LEMMA FailuresAppend ==
  ASSUME NEW s \in Seq(Events), NEW e \in Events, NEW a
  PROVE  /\ IsReset(e, a) => Failures(Append(s, e), Len(s) + 1, a) = 0
         /\ IsTask(e, a) /\ ~IsReset(e, a) =>
              Failures(Append(s, e), Len(s) + 1, a) = Failures(s, Len(s), a) + 1
         /\ ~IsTask(e, a) /\ ~IsReset(e, a) =>
              Failures(Append(s, e), Len(s) + 1, a) = Failures(s, Len(s), a)
<1> DEFINE n == Len(s)
           t == Append(s, e)
<1>1. n \in Nat /\ t[n + 1] = e /\ \A j \in 1..n : t[j] = s[j]
  BY AppendPrefix
<1> HIDE DEF n, t
<1>2. CASE IsReset(e, a)
  <2>1. \A j \in 1..(n + 1) : ~(n + 1 < j)
    BY <1>1
  <2>2. n + 1 \in 1..(n + 1) /\ IsReset(t[n + 1], a)
    BY <1>1, <1>2
  <2>3. Streak(t, n + 1, a) = {}
    BY <2>1, <2>2 DEF Streak
  <2> QED BY <1>2, <2>3, FS_EmptySet DEF Failures, n, t
<1>3. ASSUME ~IsReset(e, a)
      PROVE  Streak(t, n + 1, a) = IF IsTask(e, a) THEN Streak(s, n, a) \cup {n + 1}
                                                   ELSE Streak(s, n, a)
  <2>1. \A j \in 1..(n + 1) : j \in 1..n \/ j = n + 1
    BY <1>1
  <2>2. \A j \in 1..n : j \in 1..(n + 1) /\ j < n + 1
    BY <1>1
  <2>3. n + 1 \in 1..(n + 1)
    BY <1>1
  <2>4. \A j : (\A k \in 1..(n + 1) : IsReset(t[k], a) => k < j)
                 <=> (\A k \in 1..n : IsReset(s[k], a) => k < j)
    BY <1>1, <1>3, <2>1, <2>2
  <2>5. \A k \in 1..n : IsReset(s[k], a) => k < n + 1
    BY <2>2
  <2>6. Streak(t, n + 1, a) = {j \in 1..(n + 1) : IsTask(t[j], a)
                                 /\ \A k \in 1..n : IsReset(s[k], a) => k < j}
    BY <2>4 DEF Streak
  <2>7. ASSUME NEW j
        PROVE  j \in Streak(t, n + 1, a) <=> j \in Streak(s, n, a) \/ (IsTask(e, a) /\ j = n + 1)
    <3>1. CASE j \in 1..n
      <4>1. j # n + 1 /\ j \in 1..(n + 1) /\ t[j] = s[j]
        BY <1>1, <2>2, <3>1
      <4> QED BY <2>6, <3>1, <4>1 DEF Streak
    <3>2. CASE j = n + 1
      <4>1. j \notin 1..n /\ t[j] = e
        BY <1>1, <3>2
      <4> QED BY <2>3, <2>5, <2>6, <3>2, <4>1 DEF Streak
    <3>3. CASE j \notin 1..n /\ j # n + 1
      BY <2>1, <3>3 DEF Streak
    <3> QED BY <3>1, <3>2, <3>3
  <2> QED BY <2>7
<1>4. IsFiniteSet(Streak(s, n, a)) /\ n + 1 \notin Streak(s, n, a)
  <2>1. IsFiniteSet(Streak(s, n, a)) /\ Streak(s, n, a) \subseteq 1..n
    BY <1>1, FailuresType
  <2>2. n + 1 \notin 1..n
    BY <1>1
  <2> QED BY <2>1, <2>2
<1>5. ASSUME ~IsReset(e, a), IsTask(e, a)
      PROVE  Failures(t, n + 1, a) = Failures(s, n, a) + 1
  <2>1. Streak(t, n + 1, a) = Streak(s, n, a) \cup {n + 1}
    BY <1>3, <1>5
  <2>2. Cardinality(Streak(s, n, a) \cup {n + 1}) = Cardinality(Streak(s, n, a)) + 1
    <3> HIDE DEF Streak
    <3> QED BY <1>4, FS_AddElement
  <2> QED BY <2>1, <2>2 DEF Failures
<1>6. ASSUME ~IsReset(e, a), ~IsTask(e, a)
      PROVE  Failures(t, n + 1, a) = Failures(s, n, a)
  BY <1>3, <1>6 DEF Failures
<1> QED BY <1>2, <1>5, <1>6 DEF n, t

LEMMA EarnedAppend ==
  ASSUME NEW s \in Seq(Events), NEW e \in Events, NEW need, Earned(s, need),
         IsRewrite(e) => Failures(s, Len(s), e.agent) >= need
  PROVE  Earned(Append(s, e), need)
<1> DEFINE n == Len(s)
           t == Append(s, e)
<1>1. n \in Nat /\ Len(t) = n + 1 /\ t[n + 1] = e /\ \A m \in 0..n : \A j \in 1..m : t[j] = s[j]
  BY AppendPrefix
<1> HIDE DEF n, t
<1>2. ASSUME NEW i \in 1..(n + 1), IsRewrite(t[i])
      PROVE  Failures(t, i - 1, t[i].agent) >= need
  <2>1. i - 1 \in Nat /\ i - 1 \in 0..n
    BY <1>1
  <2>2. \A a : Failures(t, i - 1, a) = Failures(s, i - 1, a)
    <3> DEFINE m == i - 1
    <3>1. m \in Nat /\ \A j \in 1..m : t[j] = s[j]
      BY <1>1, <2>1
    <3> HIDE DEF m
    <3>2. \A a : Failures(t, m, a) = Failures(s, m, a)
      <4>1. \A a : Streak(t, m, a) = Streak(s, m, a) /\ Failures(t, m, a) = Failures(s, m, a)
        BY <3>1, SamePrefix, Zenon
      <4> QED BY <4>1
    <3> QED BY <3>2 DEF m
  <2>3. CASE i \in 1..n
    <3>1. t[i] = s[i]
      BY <1>1, <2>3
    <3> QED BY <1>2, <2>2, <2>3, <3>1 DEF Earned, n
  <2>4. CASE i = n + 1
    <3>1. i - 1 = n /\ t[i] = e
      BY <1>1, <2>4
    <3> QED BY <1>2, <2>2, <3>1 DEF n
  <2> QED BY <1>1, <2>3, <2>4
<1> QED BY <1>1, <1>2 DEF Earned, t

\* What an event makes of a replay.
LEMMA ReplaysAppend ==
  ASSUME NEW s \in Seq(Events), NEW e \in Events, NEW a
  PROVE  /\ IsState(e, a) => Replays(Append(s, e), Len(s) + 1, a, e.note)
         /\ \A v : ~IsState(e, a) /\ Replays(s, Len(s), a, v) =>
                     Replays(Append(s, e), Len(s) + 1, a, v)
<1> DEFINE n == Len(s)
           t == Append(s, e)
<1>1. n \in Nat /\ t[n + 1] = e /\ \A j \in 1..n : t[j] = s[j]
  BY AppendPrefix
<1> HIDE DEF n, t
<1>2. \A j \in 1..(n + 1) : (j \in 1..n \/ j = n + 1) /\ j <= n + 1
  BY <1>1
<1>3. n + 1 \in 1..(n + 1) /\ \A j \in 1..n : j \in 1..(n + 1)
  BY <1>1
<1>4. ASSUME IsState(e, a) PROVE Replays(t, n + 1, a, e.note)
  BY <1>1, <1>2, <1>3, <1>4 DEF Replays
<1>5. ASSUME NEW v, ~IsState(e, a), Replays(s, n, a, v) PROVE Replays(t, n + 1, a, v)
  <2>1. CASE v = "ACTIVE" /\ \A i \in 1..n : ~IsState(s[i], a)
    BY <1>1, <1>2, <1>5, <2>1 DEF Replays
  <2>2. CASE \E i \in 1..n : /\ IsState(s[i], a) /\ s[i].note = v
                             /\ \A j \in 1..n : IsState(s[j], a) => j <= i
    <3>1. PICK i \in 1..n : /\ IsState(s[i], a) /\ s[i].note = v
                            /\ \A j \in 1..n : IsState(s[j], a) => j <= i
      BY <2>2
    <3>2. i \in 1..(n + 1) /\ IsState(t[i], a) /\ t[i].note = v
      BY <1>1, <1>3, <3>1
    <3>3. \A j \in 1..(n + 1) : IsState(t[j], a) => j <= i
      BY <1>1, <1>2, <1>5, <3>1
    <3> QED BY <3>2, <3>3 DEF Replays
  <2> QED BY <1>5, <2>1, <2>2 DEF Replays
<1> QED BY <1>4, <1>5 DEF n, t

LEMMA EndedType ==
  ASSUME NEW s, NEW n \in Nat
  PROVE  /\ IsFiniteSet(Ends(s, n)) /\ Ended(s, n) \in Nat
         /\ \A i \in 1..n : IsEnd(s[i]) => Ended(s, i) \in 1..Ended(s, n)
<1>1. ASSUME NEW m \in Nat PROVE IsFiniteSet(Ends(s, m)) /\ Ended(s, m) \in Nat
  <2>1. IsFiniteSet(1..m) /\ Ends(s, m) \in SUBSET (1..m)
    BY FS_Interval DEF Ends
  <2> QED BY <2>1, FS_Subset, FS_CardinalityType DEF Ended
<1>2. ASSUME NEW i \in 1..n, IsEnd(s[i]) PROVE Ended(s, i) \in 1..Ended(s, n)
  <2>1. i \in Nat /\ i \in 1..i /\ \A j \in 1..i : j \in 1..n
    OBVIOUS
  <2>2. Ends(s, i) \in SUBSET Ends(s, n) /\ i \in Ends(s, i)
    BY <1>2, <2>1 DEF Ends
  <2>3. Ended(s, i) <= Ended(s, n)
    BY <1>1, <2>2, FS_Subset DEF Ended
  <2>4. Ended(s, i) # 0
    BY <1>1, <2>1, <2>2, FS_EmptySet DEF Ended
  <2> QED BY <1>1, <2>1, <2>3, <2>4
<1> QED BY <1>1, <1>2

LEMMA EndedAppend ==
  ASSUME NEW s \in Seq(Events), NEW e \in Events
  PROVE  Ended(Append(s, e), Len(s) + 1) = Ended(s, Len(s)) + (IF IsEnd(e) THEN 1 ELSE 0)
<1> DEFINE n == Len(s)
           t == Append(s, e)
<1>1. n \in Nat /\ t[n + 1] = e /\ \A j \in 1..n : t[j] = s[j]
  BY AppendPrefix
<1> HIDE DEF n, t
<1>2. \A j : j \in 1..(n + 1) <=> j \in 1..n \/ j = n + 1
  BY <1>1
<1>3. n + 1 \notin 1..n
  BY <1>1
<1>4. Ends(t, n + 1) = IF IsEnd(e) THEN Ends(s, n) \cup {n + 1} ELSE Ends(s, n)
  BY <1>1, <1>2, <1>3 DEF Ends
<1>5. IsFiniteSet(Ends(s, n)) /\ n + 1 \notin Ends(s, n) /\ Ended(s, n) \in Nat
  BY <1>1, <1>3, EndedType DEF Ends
<1>6. CASE IsEnd(e)
  BY <1>4, <1>5, <1>6, FS_AddElement DEF Ended, n, t
<1>7. CASE ~IsEnd(e)
  <2>1. Ended(t, n + 1) = Ended(s, n)
    BY <1>4, <1>7 DEF Ended
  <2> QED BY <1>5, <1>7, <2>1 DEF n, t
<1> QED BY <1>6, <1>7
-----------------------------------------------------------------------------
LEMMA ShownAppend ==
  ASSUME NEW s \in Seq(Events), NEW e \in Events, NEW shots, Shown(s, shots),
         IsEnd(e) => Agrees(Append(s, e), Len(s) + 1, shots[Ended(s, Len(s)) + 1])
  PROVE  Shown(Append(s, e), shots)
<1> DEFINE n == Len(s)
           t == Append(s, e)
<1>1. n \in Nat /\ Len(t) = n + 1 /\ t[n + 1] = e /\ \A m \in 0..n : \A j \in 1..m : t[j] = s[j]
  BY AppendPrefix
<1>2. Ended(t, n + 1) = Ended(s, n) + (IF IsEnd(e) THEN 1 ELSE 0)
  BY EndedAppend
<1> HIDE DEF n, t
<1>3. ASSUME NEW i \in 1..(n + 1), IsEnd(t[i])
      PROVE  Agrees(t, i, shots[Ended(t, i)])
  <2>1. CASE i \in 1..n
    <3>1. i \in Nat /\ i \in 0..n
      BY <1>1, <2>1
    <3>2. \A j \in 1..i : t[j] = s[j]
      BY <1>1, <3>1
    <3>3. /\ \A shot : Agrees(t, i, shot) <=> Agrees(s, i, shot)
          /\ Ended(t, i) = Ended(s, i)
      BY <3>1, <3>2, SamePrefix, Zenon
    <3>4. t[i] = s[i]
      BY <1>1, <2>1
    <3>5. Agrees(s, i, shots[Ended(s, i)])
      BY <1>3, <2>1, <3>4 DEF Shown, n
    <3> QED BY <3>3, <3>5
  <2>2. CASE i = n + 1
    <3>1. IsEnd(e)
      BY <1>1, <1>3, <2>2
    <3>2. Agrees(t, n + 1, shots[Ended(s, n) + 1])
      BY <3>1 DEF n, t
    <3>3. Ended(t, n + 1) = Ended(s, n) + 1
      BY <1>2, <3>1
    <3> QED BY <2>2, <3>2, <3>3
  <2> QED BY <1>1, <2>1, <2>2
<1> QED BY <1>1, <1>3 DEF Shown, t

LEMMA ShownMore ==
  ASSUME NEW s \in Seq(Events), NEW S, NEW shots \in Seq(S), NEW f \in S,
         Shown(s, shots), Ended(s, Len(s)) = Len(shots)
  PROVE  Shown(s, Append(shots, f))
<1>1. Len(s) \in Nat
  BY LenProperties
<1>2. ASSUME NEW i \in 1..Len(s), IsEnd(s[i])
      PROVE  Agrees(s, i, Append(shots, f)[Ended(s, i)])
  <2>1. Ended(s, i) \in 1..Len(shots)
    BY <1>1, <1>2, EndedType
  <2>2. Append(shots, f)[Ended(s, i)] = shots[Ended(s, i)]
    BY <2>1, AppendProperties
  <2>3. Agrees(s, i, shots[Ended(s, i)])
    BY <1>2 DEF Shown
  <2> QED BY <2>2, <2>3
<1> QED BY <1>2 DEF Shown

\* What a longer tale says no differently: of failures, of states, of snapshots.
SameFails(s, t)  == /\ \A need : Earned(s, need) => Earned(t, need)
                    /\ \A a : Failures(t, Len(t), a) = Failures(s, Len(s), a)
SameStates(s, t) == \A a, v : Replays(s, Len(s), a, v) => Replays(t, Len(t), a, v)
SameEnds(s, t)   == /\ Ended(t, Len(t)) = Ended(s, Len(s))
                    /\ \A shots : Shown(s, shots) => Shown(t, shots)

LEMMA SameFailsAppend ==
  ASSUME NEW s \in Seq(Events), NEW e \in Events,
         e.type \notin {"EVALUATION_COMPLETED", "GENOME_REWRITTEN"}
  PROVE  SameFails(s, Append(s, e))
<1>1. ~IsRewrite(e) /\ \A a : ~IsTask(e, a) /\ ~IsReset(e, a)
  BY DEF IsRewrite, IsTask, IsReset
<1>2. Len(Append(s, e)) = Len(s) + 1
  BY AppendProperties
<1>3. \A a : Failures(Append(s, e), Len(s) + 1, a) = Failures(s, Len(s), a)
  BY <1>1, FailuresAppend
<1>4. ASSUME NEW need, Earned(s, need) PROVE Earned(Append(s, e), need)
  BY <1>1, <1>4, EarnedAppend
<1> QED BY <1>2, <1>3, <1>4 DEF SameFails

LEMMA SameStatesAppend ==
  ASSUME NEW s \in Seq(Events), NEW e \in Events, e.type # "AGENT_STATE_CHANGED"
  PROVE  SameStates(s, Append(s, e))
<1>1. \A a : ~IsState(e, a)
  BY DEF IsState
<1>2. Len(Append(s, e)) = Len(s) + 1
  BY AppendProperties
<1>3. ASSUME NEW a, NEW v, Replays(s, Len(s), a, v)
      PROVE  Replays(Append(s, e), Len(s) + 1, a, v)
  BY <1>1, <1>3, ReplaysAppend
<1> QED BY <1>2, <1>3 DEF SameStates

LEMMA SameEndsAppend ==
  ASSUME NEW s \in Seq(Events), NEW e \in Events, e.type # "POPULATION_SNAPSHOT"
  PROVE  SameEnds(s, Append(s, e))
<1>1. ~IsEnd(e)
  BY DEF IsEnd
<1>2. Len(Append(s, e)) = Len(s) + 1 /\ Len(s) \in Nat
  BY AppendProperties, LenProperties
<1>3. Ended(Append(s, e), Len(s) + 1) = Ended(s, Len(s))
  <2>1. Ended(s, Len(s)) \in Nat
    BY <1>2, EndedType
  <2>2. Ended(Append(s, e), Len(s) + 1) = Ended(s, Len(s)) + 0
    BY <1>1, EndedAppend
  <2> QED BY <2>1, <2>2
<1>4. ASSUME NEW shots, Shown(s, shots) PROVE Shown(Append(s, e), shots)
  BY <1>1, <1>4, ShownAppend
<1> QED BY <1>2, <1>3, <1>4 DEF SameEnds

\* How far a step carries the tale.
Adds(T) == All' = All \/ \E e \in Events : e.type \in T /\ All' = Append(All, e)

LEMMA SayingAdds ==
  ASSUME LogOK, NEW t, NEW a, NEW n, NEW r, Saying(t, a, n, r), NEW T, t \in T
  PROVE  Adds(T)
<1>1. PICK e \in Events : Tells(e, t, a, n, r) /\ All' = Append(All, e)
  BY SayingAll
<1>2. e.type \in T
  BY <1>1 DEF Tells
<1> QED BY <1>1, <1>2 DEF Adds

Dull == {"GENERATION_STARTED", "AGENT_DIED", "LEGACY_ARCHIVED", "TASK_ASSIGNED",
         "MEMORY_RECORDED", "ENERGY_REWARDED", "MUTATION_CREATED", "EMBRYO_QUALIFIED",
         "EMBRYO_REJECTED", "GENERATION_COMPLETED"}
SameTale(s, t) == SameFails(s, t) /\ SameStates(s, t) /\ SameEnds(s, t)

LEMMA SameTaleAppend ==
  ASSUME NEW s \in Seq(Events), NEW e \in Events, e.type \in Dull
  PROVE  SameTale(s, Append(s, e))
<1>1. e.type \notin {"EVALUATION_COMPLETED", "GENOME_REWRITTEN"}
      /\ e.type # "AGENT_STATE_CHANGED" /\ e.type # "POPULATION_SNAPSHOT"
  BY DEF Dull
<1> QED BY <1>1, SameFailsAppend, SameStatesAppend, SameEndsAppend DEF SameTale

LEMMA DullIsSame == LogOK /\ Adds(Dull) => SameTale(All, All')
<1> SUFFICES ASSUME LogOK, Adds(Dull) PROVE SameTale(All, All')
  OBVIOUS
<1>1. CASE All' = All
  BY <1>1 DEF SameTale, SameFails, SameStates, SameEnds
<1>2. CASE \E e \in Events : e.type \in Dull /\ All' = Append(All, e)
  BY <1>2, AllType, SameTaleAppend
<1> QED BY <1>1, <1>2 DEF Adds

Quiet(a) == \/ Seed(a) \/ SkipDead(a) \/ Die(a) \/ ArchiveDead(a) \/ Settle(a) \/ StayAsIs(a)
            \/ EmbryoBorn(a) \/ EmbryoDies(a)
            \/ \E mutated \in BOOLEAN : PayClone(a, mutated)
            \/ SelfRewrite(a, FALSE)

LEMMA QuietSteps ==
  ASSUME StateOK, StateOK', LogOK,
         \/ AppendEvent \/ SeedingDone \/ StartGeneration \/ UNCHANGED vars
         \/ \E a \in Agents : Quiet(a)
  PROVE  SameTale(All, All')
<1>0. ASSUME Silent \/ AppendEvent PROVE SameTale(All, All')
  BY <1>0, SilentAll, AppendAll, DullIsSame DEF Adds
<1>a. ASSUME NEW t \in Dull, NEW a, Saying(t, a, "", "") PROVE SameTale(All, All')
  <2>1. Adds(Dull)
    BY <1>a, SayingAdds
  <2> QED BY <2>1, DullIsSame
<1>1. CASE AppendEvent \/ SeedingDone \/ UNCHANGED vars
  BY <1>0, <1>1, SilentSteps
<1>2. CASE StartGeneration
  BY <1>2, <1>a, StartSays DEF Dull
<1>3. ASSUME NEW a \in Agents, Quiet(a) PROVE SameTale(All, All')
  <2>1. CASE Seed(a) \/ SkipDead(a) \/ StayAsIs(a)
    BY <1>0, <2>1, SilentSteps
  <2>2. CASE Die(a)
    BY <1>a, <2>2, DieSays DEF Dull
  <2>3. CASE ArchiveDead(a)
    BY <1>a, <2>3, ArchiveSays DEF Dull
  <2>4. CASE Settle(a)
    <3>1. Silent \/ Saying("ENERGY_REWARDED", a, "", "")
      BY <2>4, SettleSays
    <3> QED BY <1>0, <1>a, <3>1 DEF Dull
  <2>5. CASE EmbryoBorn(a)
    <3>1. Saying("EMBRYO_QUALIFIED", a, "", "")
      BY <2>5, EmbryoSays
    <3> QED BY <1>a, <3>1 DEF Dull
  <2>6. CASE EmbryoDies(a)
    <3>1. Saying("EMBRYO_REJECTED", a, "", "")
      BY <2>6, EmbryoSays
    <3> QED BY <1>a, <3>1 DEF Dull
  <2>7. ASSUME NEW mutated \in BOOLEAN, PayClone(a, mutated) PROVE SameTale(All, All')
    <3>1. Silent \/ Saying("MUTATION_CREATED", a, "", "")
      BY <2>7, PayCloneSays
    <3> QED BY <1>0, <1>a, <3>1 DEF Dull
  <2>8. CASE SelfRewrite(a, FALSE)
    <3>1. Silent
      BY <2>8, SelfRewriteSays
    <3> QED BY <1>0, <3>1
  <2> QED BY <1>3, <2>1, <2>2, <2>3, <2>4, <2>5, <2>6, <2>7, <2>8 DEF Quiet
<1> QED BY <1>1, <1>2, <1>3
-----------------------------------------------------------------------------
(* Failures in a row. *)

LEMMA StreakKept ==
  ASSUME StreakInv, policy' = policy, SameFails(All, All'), fails' = fails,
         \/ pc' = pc /\ pos' = pos /\ succeeded' = succeeded
         \/ pc # "settle" /\ pc' # "settle"
  PROVE  StreakInv'
BY DEF StreakInv, SameFails

LEMMA StreakTask ==
  ASSUME StateOK, LogOK, StreakInv, policy' = policy, NEW a \in Agents, NEW ok \in BOOLEAN,
         RunTask(a, ok)
  PROVE  StreakInv'
<1>1. PICK d, e, f \in Events :
         /\ d.type = "TASK_ASSIGNED" /\ f.type = "MEMORY_RECORDED"
         /\ e.type = "EVALUATION_COMPLETED" /\ e.agent = a
         /\ e.note = (IF ok THEN "success" ELSE "failure")
         /\ All' = Append(Append(Append(All, d), e), f)
  BY TaskSays
<1> DEFINE s == Append(All, d)
           t == Append(s, e)
<1>2. s \in Seq(Events) /\ t \in Seq(Events) /\ All' = Append(t, f) /\ Len(t) = Len(s) + 1
  BY <1>1, AllType, AppendProperties
<1>3. SameTale(All, s)
  BY <1>1, AllType, SameTaleAppend DEF Dull
<1> HIDE DEF s
<1>4. SameTale(t, All')
  BY <1>1, <1>2, SameTaleAppend DEF Dull
<1>5. /\ ~IsRewrite(e) /\ IsTask(e, a) /\ (IsReset(e, a) <=> ok)
      /\ \A b : b # a => ~IsTask(e, b) /\ ~IsReset(e, b)
  BY <1>1 DEF IsRewrite, IsTask, IsReset
<1>6. /\ Failures(t, Len(t), a) = IF ok THEN 0 ELSE Failures(s, Len(s), a) + 1
      /\ \A b : b # a => Failures(t, Len(t), b) = Failures(s, Len(s), b)
  BY <1>2, <1>5, FailuresAppend
<1>7. Earned(s, policy.rewriteAfter) => Earned(t, policy.rewriteAfter)
  BY <1>2, <1>5, EarnedAppend
<1> HIDE DEF t
<1>8. /\ Earned(All', policy.rewriteAfter)
      /\ Failures(All', Len(All'), a) = IF ok THEN 0 ELSE Failures(All, Len(All), a) + 1
      /\ \A b : b # a => Failures(All', Len(All'), b) = Failures(All, Len(All), b)
  BY <1>3, <1>4, <1>6, <1>7 DEF StreakInv, SameTale, SameFails
<1>9. pc = "task" /\ pc' = "settle" /\ pos' = pos /\ a = Order[pos] /\ succeeded' = ok
      /\ fails' = fails
  BY DEF RunTask, At
<1> QED BY <1>8, <1>9 DEF StreakInv

LEMMA StreakRewrite ==
  ASSUME StateOK, LogOK, StreakInv, policy' = policy, NEW a \in Agents, SelfRewrite(a, TRUE)
  PROVE  StreakInv'
<1>1. PICK e \in Events : Tells(e, "GENOME_REWRITTEN", a, "", "") /\ All' = Append(All, e)
  BY SelfRewriteSays, SayingAll
<1>2. /\ IsRewrite(e) /\ IsReset(e, a) /\ e.agent = a
      /\ \A b : b # a => ~IsTask(e, b) /\ ~IsReset(e, b)
  BY <1>1 DEF Tells, IsRewrite, IsTask, IsReset
<1>3. All \in Seq(Events) /\ Len(All') = Len(All) + 1
  BY <1>1, AllType, AppendProperties
<1>4. /\ Failures(All', Len(All'), a) = 0
      /\ \A b : b # a => Failures(All', Len(All'), b) = Failures(All, Len(All), b)
  BY <1>1, <1>2, <1>3, FailuresAppend
<1>5. /\ pc = "evolve" /\ pc' = "visit" /\ fails' = [fails EXCEPT ![a] = 0]
      /\ fails[a] >= policy.rewriteAfter
  BY DEF SelfRewrite, At, CanRewrite
<1>6. Failures(All, Len(All), a) >= policy.rewriteAfter
  BY <1>5 DEF StreakInv
<1>7. Earned(All', policy.rewriteAfter)
  BY <1>1, <1>2, <1>3, <1>6, EarnedAppend DEF StreakInv
<1> QED BY <1>4, <1>5, <1>7 DEF StreakInv, StateOK

LEMMA StreakEnd ==
  ASSUME LogOK, StreakInv, policy' = policy, EndGeneration
  PROVE  StreakInv'
<1>1. PICK d, e \in Events :
         /\ d.type = "POPULATION_SNAPSHOT" /\ e.type = "GENERATION_COMPLETED"
         /\ All' = Append(Append(All, d), e)
  BY EndSays
<1>2. SameFails(All, Append(All, d)) /\ Append(All, d) \in Seq(Events)
  BY <1>1, AllType, SameFailsAppend, AppendProperties
<1>3. SameFails(Append(All, d), All')
  BY <1>1, <1>2, SameFailsAppend
<1>4. SameFails(All, All')
  BY <1>2, <1>3 DEF SameFails
<1> QED BY <1>4, StreakKept DEF EndGeneration

LEMMA StreakState ==
  ASSUME StateOK, LogOK, StreakInv, policy' = policy, NEW a \in Agents, Maintain(a) \/ GoDormant(a)
  PROVE  StreakInv'
<1>1. PICK e \in Events : e.type = "AGENT_STATE_CHANGED" /\ All' = Append(All, e)
  <2>1. PICK n, r : Saying("AGENT_STATE_CHANGED", a, n, r)
    BY MaintainSays, GoDormantSays
  <2>2. PICK e \in Events : Tells(e, "AGENT_STATE_CHANGED", a, n, r) /\ All' = Append(All, e)
    BY <2>1, SayingAll
  <2> QED BY <2>2 DEF Tells
<1>2. SameFails(All, All')
  BY <1>1, AllType, SameFailsAppend
<1>3. fails' = fails /\ pc \in {"visit", "evolve"} /\ pc' \in {"visit", "dying", "task"}
  BY DEF Maintain, GoDormant, At
<1> QED BY <1>2, <1>3, StreakKept

LEMMA NothingTold ==
  /\ \A a : Failures(<<>>, 0, a) = 0
  /\ \A need : Earned(<<>>, need)
  /\ \A a : Replays(<<>>, 0, a, "ACTIVE")
  /\ Ended(<<>>, 0) = 0 /\ \A shots : Shown(<<>>, shots)
<1>1. \A s, a : Streak(s, 0, a) = {} /\ Ends(s, 0) = {}
  BY DEF Streak, Ends
<1>2. \A a : Failures(<<>>, 0, a) = 0
  BY <1>1, FS_EmptySet DEF Failures
<1>3. Ended(<<>>, 0) = 0
  BY <1>1, FS_EmptySet DEF Ended
<1>4. \A need : Earned(<<>>, need)
  BY DEF Earned
<1>5. \A shots : Shown(<<>>, shots)
  BY DEF Shown
<1>6. \A a : Replays(<<>>, 0, a, "ACTIVE")
  BY DEF Replays
<1> QED BY <1>2, <1>3, <1>4, <1>5, <1>6

LEMMA NothingSaid == log = <<>> /\ outbox = <<>> => All = <<>> /\ Len(All) = 0
BY DEF All

LEMMA StreakNext ==
  StateOK /\ StateOK' /\ LogOK /\ SeedInv /\ StreakInv /\ [Next]_vars => StreakInv'
<1> SUFFICES ASSUME StateOK, StateOK', LogOK, SeedInv, StreakInv, [Next]_vars
             PROVE  StreakInv'
  OBVIOUS
<1>0. policy' = policy
  BY PolicyKept
<1>1. CASE AppendEvent \/ SeedingDone \/ StartGeneration \/ UNCHANGED vars
  <2>1. SameFails(All, All')
    BY <1>1, QuietSteps DEF SameTale
  <2>2. /\ fails' = fails
        /\ \/ pc' = pc /\ pos' = pos /\ succeeded' = succeeded
           \/ pc # "settle" /\ pc' # "settle"
    BY <1>1 DEF AppendEvent, SeedingDone, StartGeneration, vars
  <2> QED BY <1>0, <2>1, <2>2, StreakKept
<1>2. CASE EndGeneration
  BY <1>0, <1>2, StreakEnd
<1>3. ASSUME NEW a \in Agents, Quiet(a) PROVE StreakInv'
  <2>0. SameFails(All, All')
    BY <1>3, QuietSteps DEF SameTale
  <2>1. CASE Seed(a)
    <3>1. pc = "seed" /\ pc' = "seed" /\ fails' = [fails EXCEPT ![a] = 0] /\ log' = log /\ outbox' = outbox
      BY <2>1 DEF Seed, At
    <3>2. log = <<>> /\ outbox = <<>>
      BY <3>1 DEF SeedInv
    <3>3. All = <<>> /\ Len(All) = 0 /\ All' = All
      BY <3>1, <3>2, NothingSaid DEF All
    <3>4. \A b : Failures(All, Len(All), b) = 0
      BY <3>3, NothingTold
    <3> QED BY <1>0, <3>1, <3>3, <3>4 DEF StreakInv, StateOK
  <2>2. CASE Settle(a)
    <3>1. /\ pc = "settle" /\ a = Order[pos] /\ pc' = "evolve"
          /\ fails' = [fails EXCEPT ![a] = IF succeeded THEN 0 ELSE @ + 1]
      BY <2>2 DEF Settle, At
    <3>2. \A b \in Agents : Failures(All', Len(All'), b) = Failures(All, Len(All), b)
      BY <2>0 DEF SameFails
    <3>3. Earned(All', policy.rewriteAfter)
      BY <2>0 DEF SameFails, StreakInv
    <3> QED BY <1>0, <3>1, <3>2, <3>3 DEF StreakInv, StateOK
  <2>3. CASE ~Seed(a) /\ ~Settle(a)
    <3>1. CASE \/ SkipDead(a) \/ Die(a) \/ ArchiveDead(a) \/ StayAsIs(a)
               \/ EmbryoBorn(a) \/ EmbryoDies(a)
      <4>1. fails' = fails /\ pc # "settle" /\ pc' # "settle"
        BY <3>1 DEF SkipDead, Die, ArchiveDead, StayAsIs, EmbryoBorn, EmbryoDies, At
      <4> QED BY <1>0, <2>0, <4>1, StreakKept
    <3>2. CASE (\E mutated \in BOOLEAN : PayClone(a, mutated)) \/ SelfRewrite(a, FALSE)
      <4>1. fails' = fails /\ pc # "settle" /\ pc' # "settle"
        BY <3>2 DEF PayClone, SelfRewrite, At
      <4> QED BY <1>0, <2>0, <4>1, StreakKept
    <3> QED BY <1>3, <2>3, <3>1, <3>2 DEF Quiet
  <2> QED BY <2>1, <2>2, <2>3
<1>4. ASSUME NEW a \in Agents, Visit(a), ~Quiet(a) PROVE StreakInv'
  <2>1. ASSUME NEW ok \in BOOLEAN, RunTask(a, ok) PROVE StreakInv'
    BY <1>0, <2>1, StreakTask
  <2>2. CASE Maintain(a) \/ GoDormant(a)
    BY <1>0, <2>2, StreakState
  <2>3. CASE SelfRewrite(a, TRUE)
    BY <1>0, <2>3, StreakRewrite
  <2> QED BY <1>4, <2>1, <2>2, <2>3 DEF Visit, Quiet
<1> QED BY <1>1, <1>2, <1>3, <1>4 DEF Next
-----------------------------------------------------------------------------
(* Births. *)

LEMMA BornAppend ==
  ASSUME NEW s \in Seq(Events), NEW e \in Events
  PROVE  Born(Append(s, e), Len(s) + 1)
           = IF IsBirth(e) THEN Born(s, Len(s)) \cup {ChildOf(e)} ELSE Born(s, Len(s))
<1> DEFINE n == Len(s)
           t == Append(s, e)
           B == {j \in 1..n : IsBirth(s[j])}
           C == {j \in 1..(n + 1) : IsBirth(t[j])}
<1>1. n \in Nat /\ t[n + 1] = e /\ \A j \in 1..n : t[j] = s[j]
  BY AppendPrefix
<1> HIDE DEF n, t
<1>2. n + 1 \notin 1..n /\ \A j : j \in 1..(n + 1) <=> j \in 1..n \/ j = n + 1
  BY <1>1
<1>3. C = IF IsBirth(e) THEN B \cup {n + 1} ELSE B
  BY <1>1, <1>2
<1>4. /\ \A j \in B : j \in 1..n /\ ChildOf(t[j]) = ChildOf(s[j])
      /\ ChildOf(t[n + 1]) = ChildOf(e)
  BY <1>1
<1> HIDE DEF B, C
<1>5. {ChildOf(t[i]) : i \in C}
        = IF IsBirth(e) THEN {ChildOf(s[i]) : i \in B} \cup {ChildOf(e)}
          ELSE {ChildOf(s[i]) : i \in B}
  BY <1>3, <1>4, Zenon
<1> QED BY <1>5 DEF Born, B, C, n, t

SameBirths(s, t) == Born(t, Len(t)) = Born(s, Len(s))

LEMMA SameBirthsAppend ==
  ASSUME NEW s \in Seq(Events), NEW e \in Events, e.type # "EMBRYO_QUALIFIED"
  PROVE  SameBirths(s, Append(s, e))
<1>1. ~IsBirth(e) /\ Len(Append(s, e)) = Len(s) + 1
  BY AppendProperties DEF IsBirth
<1> QED BY <1>1, BornAppend DEF SameBirths

\* Whatever else is said, no child is named.
LEMMA SayingNoBirth ==
  ASSUME LogOK, NEW t, NEW a, NEW n, NEW r, Saying(t, a, n, r), t # "EMBRYO_QUALIFIED"
  PROVE  SameBirths(All, All')
<1>1. PICK e \in Events : Tells(e, t, a, n, r) /\ All' = Append(All, e)
  BY SayingAll
<1>2. e.type # "EMBRYO_QUALIFIED"
  BY <1>1 DEF Tells
<1> QED BY <1>1, <1>2, AllType, SameBirthsAppend

LEMMA TaskBearsNone ==
  ASSUME LogOK, NEW a \in Agents, NEW ok \in BOOLEAN, RunTask(a, ok)
  PROVE  SameBirths(All, All')
<1>1. PICK d, e, f \in Events :
         /\ d.type = "TASK_ASSIGNED" /\ f.type = "MEMORY_RECORDED"
         /\ e.type = "EVALUATION_COMPLETED" /\ All' = Append(Append(Append(All, d), e), f)
  BY TaskSays
<1> DEFINE s == Append(All, d)
           t == Append(s, e)
<1>2. /\ All \in Seq(Events) /\ s \in Seq(Events) /\ t \in Seq(Events) /\ All' = Append(t, f)
  BY <1>1, AllType, AppendProperties
<1>3. SameBirths(All, s)
  BY <1>1, <1>2, SameBirthsAppend
<1> HIDE DEF s
<1>4. SameBirths(s, t)
  BY <1>1, <1>2, SameBirthsAppend
<1> HIDE DEF t
<1>5. SameBirths(t, All')
  BY <1>1, <1>2, SameBirthsAppend
<1> QED BY <1>3, <1>4, <1>5 DEF SameBirths

LEMMA EndBearsNone ==
  ASSUME LogOK, EndGeneration
  PROVE  SameBirths(All, All')
<1>1. PICK d, e \in Events :
         /\ d.type = "POPULATION_SNAPSHOT" /\ e.type = "GENERATION_COMPLETED"
         /\ All' = Append(Append(All, d), e)
  BY EndSays
<1> DEFINE t == Append(All, d)
<1>2. All \in Seq(Events) /\ t \in Seq(Events) /\ All' = Append(t, e)
  BY <1>1, AllType, AppendProperties
<1>3. SameBirths(All, t)
  BY <1>1, <1>2, SameBirthsAppend
<1> HIDE DEF t
<1>4. SameBirths(t, All')
  BY <1>1, <1>2, SameBirthsAppend
<1> QED BY <1>3, <1>4 DEF SameBirths

LEMMA BirthNext ==
  StateOK /\ StateOK' /\ LogOK /\ BirthInv /\ [Next]_vars => BirthInv'
<1> SUFFICES ASSUME StateOK, StateOK', LogOK, BirthInv, [Next]_vars PROVE BirthInv'
  OBVIOUS
<1>0. ASSUME SameBirths(All, All'), children' = children PROVE BirthInv'
  BY <1>0 DEF SameBirths, BirthInv
<1>a. ASSUME Silent \/ AppendEvent PROVE SameBirths(All, All')
  BY <1>a, SilentAll, AppendAll DEF SameBirths
<1>1. CASE AppendEvent \/ SeedingDone \/ UNCHANGED vars
  <2>1. children' = children
    BY <1>1 DEF AppendEvent, SeedingDone, vars
  <2> QED BY <1>0, <1>a, <1>1, <2>1, SilentSteps
<1>2. CASE StartGeneration
  <2>1. children' = children
    BY <1>2 DEF StartGeneration
  <2> QED BY <1>0, <1>2, <2>1, StartSays, SayingNoBirth
<1>3. CASE EndGeneration
  <2>1. children' = children
    BY <1>3 DEF EndGeneration
  <2> QED BY <1>0, <1>3, <2>1, EndBearsNone
<1>4. ASSUME NEW a \in Agents, Visit(a), ~EmbryoBorn(a) PROVE BirthInv'
  <2>0. children' = children
    BY <1>4 DEF Visit, Seed, SkipDead, Maintain, Die, ArchiveDead, RunTask, Settle, GoDormant,
                PayClone, EmbryoDies, SelfRewrite, StayAsIs
  <2>1. CASE Seed(a) \/ SkipDead(a) \/ StayAsIs(a)
    BY <1>0, <1>a, <2>0, <2>1, SilentSteps
  <2>2. CASE Maintain(a)
    <3>1. Saying("AGENT_STATE_CHANGED", a, lifecycle'[a], "")
      BY <2>2, MaintainSays
    <3> QED BY <1>0, <2>0, <3>1, SayingNoBirth
  <2>3. CASE Die(a)
    <3>1. Saying("AGENT_DIED", a, "", "")
      BY <2>3, DieSays
    <3> QED BY <1>0, <2>0, <3>1, SayingNoBirth
  <2>4. CASE ArchiveDead(a)
    <3>1. Saying("LEGACY_ARCHIVED", a, "", "")
      BY <2>4, ArchiveSays
    <3> QED BY <1>0, <2>0, <3>1, SayingNoBirth
  <2>5. ASSUME NEW ok \in BOOLEAN, RunTask(a, ok) PROVE BirthInv'
    BY <1>0, <2>0, <2>5, TaskBearsNone
  <2>6. CASE Settle(a)
    <3>1. Silent \/ Saying("ENERGY_REWARDED", a, "", "")
      BY <2>6, SettleSays
    <3>2. ASSUME Saying("ENERGY_REWARDED", a, "", "") PROVE SameBirths(All, All')
      BY <3>2, SayingNoBirth
    <3> QED BY <1>0, <1>a, <2>0, <3>1, <3>2
  <2>7. CASE GoDormant(a)
    <3>1. Saying("AGENT_STATE_CHANGED", a, "DORMANT", "threshold")
      BY <2>7, GoDormantSays
    <3> QED BY <1>0, <2>0, <3>1, SayingNoBirth
  <2>8. ASSUME NEW mutated \in BOOLEAN, PayClone(a, mutated) PROVE BirthInv'
    <3>1. Silent \/ Saying("MUTATION_CREATED", a, "", "")
      BY <2>8, PayCloneSays
    <3>2. ASSUME Saying("MUTATION_CREATED", a, "", "") PROVE SameBirths(All, All')
      BY <3>2, SayingNoBirth
    <3> QED BY <1>0, <1>a, <2>0, <3>1, <3>2
  <2>9. CASE EmbryoDies(a)
    <3>1. Saying("EMBRYO_REJECTED", a, "", "")
      BY <2>9, EmbryoSays
    <3> QED BY <1>0, <2>0, <3>1, SayingNoBirth
  <2>10. ASSUME NEW accepted \in BOOLEAN, SelfRewrite(a, accepted) PROVE BirthInv'
    <3>1. Silent \/ Saying("GENOME_REWRITTEN", a, "", "")
      BY <2>10, SelfRewriteSays
    <3>2. ASSUME Saying("GENOME_REWRITTEN", a, "", "") PROVE SameBirths(All, All')
      BY <3>2, SayingNoBirth
    <3> QED BY <1>0, <1>a, <2>0, <3>1, <3>2
  <2> QED BY <1>4, <2>1, <2>2, <2>3, <2>4, <2>5, <2>6, <2>7, <2>8, <2>9, <2>10 DEF Visit
<1>5. ASSUME NEW a \in Agents, EmbryoBorn(a) PROVE BirthInv'
  <2> DEFINE e == BirthEvent(a)
  <2>1. e \in Events /\ IsBirth(e) /\ ChildOf(e) = <<a, gen>>
    BY BirthType DEF IsBirth, ChildOf, StateOK
  <2>2. /\ outbox = <<>> /\ log' = log /\ outbox' = <<e>>
        /\ children' = children \cup {<<a, gen>>}
    BY <1>5 DEF EmbryoBorn, At
  <2> HIDE DEF e
  <2>3. All = log /\ All' = log \o <<e>> /\ Append(log, e) = log \o <<e>> /\ log \in Seq(Events)
    BY <2>2, ConcatEmptySeq, AppendIsConcat DEF All, LogOK
  <2>4. All' = Append(All, e) /\ Len(All') = Len(All) + 1
    BY <2>1, <2>3, AppendProperties
  <2>5. Born(All', Len(All')) = Born(All, Len(All)) \cup {<<a, gen>>}
    <3>1. Born(Append(All, e), Len(All) + 1) = Born(All, Len(All)) \cup {ChildOf(e)}
      BY <2>1, <2>3, BornAppend
    <3> QED BY <2>1, <2>4, <3>1
  <2> QED BY <2>2, <2>5 DEF BirthInv
<1> QED BY <1>1, <1>2, <1>3, <1>4, <1>5 DEF Next
-----------------------------------------------------------------------------
(* Replays and snapshots. *)

LEMMA ReplayKept ==
  ASSUME ReplayInv, SameStates(All, All'), lifecycle' = lifecycle, pc # "seed"
  PROVE  ReplayInv'
BY DEF ReplayInv, SameStates

LEMMA ReplayState ==
  ASSUME StateOK, LogOK, ReplayInv, NEW a \in Agents, Maintain(a) \/ GoDormant(a)
  PROVE  ReplayInv'
<1>1. PICK e \in Events : /\ IsState(e, a) /\ e.note = lifecycle'[a]
                          /\ \A b : b # a => ~IsState(e, b)
                          /\ All' = Append(All, e)
  <2>1. CASE Maintain(a)
    <3>1. PICK e \in Events : /\ Tells(e, "AGENT_STATE_CHANGED", a, lifecycle'[a], "")
                              /\ All' = Append(All, e)
      BY <2>1, MaintainSays, SayingAll
    <3> QED BY <3>1 DEF Tells, IsState
  <2>2. CASE GoDormant(a)
    <3>1. PICK e \in Events : /\ Tells(e, "AGENT_STATE_CHANGED", a, "DORMANT", "threshold")
                              /\ All' = Append(All, e)
      BY <2>2, GoDormantSays, SayingAll
    <3>2. lifecycle'[a] = "DORMANT"
      BY <2>2 DEF GoDormant, StateOK
    <3> QED BY <3>1, <3>2 DEF Tells, IsState
  <2> QED BY <2>1, <2>2
<1>2. All \in Seq(Events) /\ Len(All') = Len(All) + 1
  BY <1>1, AllType, AppendProperties
<1>3. Replays(All', Len(All'), a, lifecycle'[a])
  BY <1>1, <1>2, ReplaysAppend
<1>4. \A b, v : b # a /\ Replays(All, Len(All), b, v) => Replays(All', Len(All'), b, v)
  BY <1>1, <1>2, ReplaysAppend
<1>5. pc # "seed" /\ \A b \in Agents : b # a => lifecycle'[b] = lifecycle[b]
  BY DEF Maintain, GoDormant, At, StateOK
<1> QED BY <1>3, <1>4, <1>5 DEF ReplayInv

LEMMA TaskIsSame ==
  ASSUME LogOK, NEW a \in Agents, NEW ok \in BOOLEAN, RunTask(a, ok)
  PROVE  SameStates(All, All') /\ SameEnds(All, All')
<1>1. PICK d, e, f \in Events :
         /\ d.type = "TASK_ASSIGNED" /\ f.type = "MEMORY_RECORDED"
         /\ e.type = "EVALUATION_COMPLETED" /\ All' = Append(Append(Append(All, d), e), f)
  BY TaskSays
<1> DEFINE s == Append(All, d)
           t == Append(s, e)
<1>2. /\ All \in Seq(Events) /\ s \in Seq(Events) /\ t \in Seq(Events) /\ All' = Append(t, f)
  BY <1>1, AllType, AppendProperties
<1>3. SameStates(All, s) /\ SameEnds(All, s)
  BY <1>1, <1>2, SameStatesAppend, SameEndsAppend
<1> HIDE DEF s
<1>4. SameStates(s, t) /\ SameEnds(s, t)
  BY <1>1, <1>2, SameStatesAppend, SameEndsAppend
<1> HIDE DEF t
<1>5. SameStates(t, All') /\ SameEnds(t, All')
  BY <1>1, <1>2, SameStatesAppend, SameEndsAppend
<1>6. SameStates(All, All')
  BY <1>3, <1>4, <1>5 DEF SameStates
<1>7. SameEnds(All, All')
  BY <1>3, <1>4, <1>5 DEF SameEnds
<1> QED BY <1>6, <1>7

LEMMA RewriteIsSame ==
  ASSUME LogOK, NEW a \in Agents, SelfRewrite(a, TRUE)
  PROVE  SameStates(All, All') /\ SameEnds(All, All')
<1>1. PICK e \in Events : Tells(e, "GENOME_REWRITTEN", a, "", "") /\ All' = Append(All, e)
  BY SelfRewriteSays, SayingAll
<1>2. e.type # "AGENT_STATE_CHANGED" /\ e.type # "POPULATION_SNAPSHOT"
  BY <1>1 DEF Tells
<1> QED BY <1>1, <1>2, AllType, SameStatesAppend, SameEndsAppend

LEMMA ReplayNext ==
  StateOK /\ StateOK' /\ LogOK /\ SeedInv /\ ReplayInv /\ [Next]_vars => ReplayInv'
<1> SUFFICES ASSUME StateOK, StateOK', LogOK, SeedInv, ReplayInv, [Next]_vars
             PROVE  ReplayInv'
  OBVIOUS
<1>1. CASE AppendEvent \/ UNCHANGED vars
  <2>1. SameStates(All, All')
    BY <1>1, QuietSteps DEF SameTale
  <2>2. pc' = pc /\ lifecycle' = lifecycle
    BY <1>1 DEF AppendEvent, vars
  <2> QED BY <2>1, <2>2 DEF ReplayInv, SameStates
<1>2. CASE SeedingDone
  <2>1. log = <<>> /\ outbox = <<>> /\ UNCHANGED <<log, outbox, lifecycle>>
    BY <1>2 DEF SeedingDone, SeedInv
  <2>2. All' = <<>> /\ Len(All') = 0
    BY <2>1, NothingSaid DEF All
  <2>3. \A a \in Agents : lifecycle'[a] = "ACTIVE"
    BY <1>2, <2>1, AllSeeded
  <2> QED BY <2>2, <2>3, NothingTold DEF ReplayInv
<1>3. CASE StartGeneration
  <2>1. SameStates(All, All')
    BY <1>3, QuietSteps DEF SameTale
  <2> QED BY <1>3, <2>1, ReplayKept DEF StartGeneration
<1>4. CASE EndGeneration
  <2>1. PICK d, e \in Events :
           /\ d.type = "POPULATION_SNAPSHOT" /\ e.type = "GENERATION_COMPLETED"
           /\ All' = Append(Append(All, d), e)
    BY <1>4, EndSays
  <2>2. SameStates(All, Append(All, d)) /\ Append(All, d) \in Seq(Events)
    BY <2>1, AllType, SameStatesAppend, AppendProperties
  <2>3. SameStates(Append(All, d), All')
    BY <2>1, <2>2, SameStatesAppend
  <2>4. SameStates(All, All')
    BY <2>2, <2>3 DEF SameStates
  <2> QED BY <1>4, <2>4, ReplayKept DEF EndGeneration
<1>5. ASSUME NEW a \in Agents, Quiet(a) PROVE ReplayInv'
  <2>1. SameStates(All, All')
    BY <1>5, QuietSteps DEF SameTale
  <2>2. CASE Seed(a)
    BY <2>2 DEF Seed, At, ReplayInv
  <2>3. CASE \/ SkipDead(a) \/ Die(a) \/ ArchiveDead(a) \/ Settle(a) \/ StayAsIs(a)
             \/ EmbryoBorn(a) \/ EmbryoDies(a)
    <3>1. lifecycle' = lifecycle /\ pc # "seed"
      BY <2>3 DEF SkipDead, Die, ArchiveDead, Settle, StayAsIs, EmbryoBorn, EmbryoDies, At
    <3> QED BY <2>1, <3>1, ReplayKept
  <2>4. CASE (\E mutated \in BOOLEAN : PayClone(a, mutated)) \/ SelfRewrite(a, FALSE)
    <3>1. lifecycle' = lifecycle /\ pc # "seed"
      BY <2>4 DEF PayClone, SelfRewrite, At
    <3> QED BY <2>1, <3>1, ReplayKept
  <2> QED BY <1>5, <2>2, <2>3, <2>4 DEF Quiet
<1>6. ASSUME NEW a \in Agents, Visit(a), ~Quiet(a) PROVE ReplayInv'
  <2>1. ASSUME NEW ok \in BOOLEAN, RunTask(a, ok) PROVE ReplayInv'
    BY <2>1, TaskIsSame, ReplayKept DEF RunTask, At
  <2>2. CASE Maintain(a) \/ GoDormant(a)
    BY <2>2, ReplayState
  <2>3. CASE SelfRewrite(a, TRUE)
    BY <2>3, RewriteIsSame, ReplayKept DEF SelfRewrite, At
  <2> QED BY <1>6, <2>1, <2>2, <2>3 DEF Visit, Quiet
<1> QED BY <1>1, <1>2, <1>3, <1>4, <1>5, <1>6 DEF Next
-----------------------------------------------------------------------------
\* Whoever is visited in a generation is named in it.
LEMMA NamedByCount ==
  ASSUME LogOK, NEW a, NEW E, N(All, E) # 0, \A e \in E : IsState(e, a)
  PROVE  \E i \in 1..Len(All) : IsState(All[i], a)
<1>1. Told(All, E) # {}
  BY FS_EmptySet DEF N
<1>2. DOMAIN All = 1..Len(All)
  BY AllType, LenProperties
<1> QED BY <1>1, <1>2 DEF Told

LEMMA AllNamed ==
  ASSUME StateOK, LogOK, SeedInv, ChargeInv, ReplayInv, EndGeneration, NEW a \in Agents
  PROVE  \E i \in 1..Len(All) : IsState(All[i], a)
<1>1. pc = "visit" /\ pos > Len(Order) /\ lifecycle[a] \in {"ACTIVE", "DORMANT", "DEAD"}
  BY DEF EndGeneration, SeedInv, StateOK, Lifecycles
<1>2. Replays(All, Len(All), a, lifecycle[a])
  BY <1>1 DEF ReplayInv
<1>3. CASE lifecycle[a] = "DEAD"
  BY <1>2, <1>3 DEF Replays
<1>4. CASE lifecycle[a] \in {"ACTIVE", "DORMANT"}
  <2>1. Visited(a)
    <3>1. PICK i \in DOMAIN Order : Order[i] = a
      BY OrderIsAPlan
    <3>2. i < pos
      BY <1>1, OrderIsAPlan, LenProperties DEF StateOK
    <3> QED BY <1>1, <3>1, <3>2 DEF Visited
  <2>2. Awake(a) + Asleep(a) = gen + 1 /\ gen \in Nat
    BY <1>4, <2>1 DEF ChargeInv, StateOK
  <2>3. Awake(a) \in Nat /\ Asleep(a) \in Nat
    BY TallyType DEF Counting
  <2>4. Awake(a) # 0 \/ Asleep(a) # 0
    BY <2>2, <2>3
  <2>5. \A e \in AwakeKind(a) \cup AsleepKind(a) : IsState(e, a)
    BY DEF AwakeKind, AsleepKind, IsState
  <2>6. CASE Awake(a) # 0
    BY <2>5, <2>6, NamedByCount DEF Awake
  <2>7. CASE Asleep(a) # 0
    BY <2>5, <2>7, NamedByCount DEF Asleep
  <2> QED BY <2>4, <2>6, <2>7
<1> QED BY <1>1, <1>3, <1>4

LEMMA SnapshotTaken ==
  ASSUME StateOK, LogOK, FilesOK, SeedInv, ChargeInv, ReplayInv, BirthInv, SnapshotInv,
         EndGeneration
  PROVE  SnapshotInv'
<1>1. PICK d, e \in Events :
         /\ d.type = "POPULATION_SNAPSHOT" /\ e.type = "GENERATION_COMPLETED"
         /\ All' = Append(Append(All, d), e)
  BY EndSays
<1> DEFINE t == Append(All, d)
           shot == Snapshot
<1>2. /\ All \in Seq(Events) /\ t \in Seq(Events) /\ All' = Append(t, e)
      /\ Len(t) = Len(All) + 1 /\ Len(All) \in Nat
  BY <1>1, AllType, AppendProperties, LenProperties
<1>3. /\ snapshots \in Seq(Snapshots) /\ shot \in Snapshots /\ snapshots' = Append(snapshots, shot)
      /\ pc = "visit" /\ Len(snapshots) \in Nat
  BY LenProperties DEF EndGeneration, StateOK, FilesOK, Snapshot, Snapshots
<1>4. IsEnd(d) /\ ~IsBirth(d) /\ \A a : ~IsState(d, a)
  BY <1>1 DEF IsEnd, IsBirth, IsState
<1>5. /\ Len(snapshots') = Len(snapshots) + 1
      /\ snapshots'[Len(snapshots) + 1] = shot
  BY <1>3, AppendProperties
<1>6. Ended(All, Len(All)) = Len(snapshots) /\ Shown(All, snapshots)
  BY DEF SnapshotInv
<1>7. Shown(All, snapshots')
  BY <1>2, <1>3, <1>6, ShownMore
<1>8. Agrees(t, Len(All) + 1, shot)
  <2>1. ASSUME NEW a \in Agents PROVE Says(t, Len(All) + 1, a, lifecycle[a])
    <3>1. Replays(t, Len(All) + 1, a, lifecycle[a])
      BY <1>2, <1>3, <1>4, ReplaysAppend DEF ReplayInv
    <3>2. PICK i \in 1..Len(All) : IsState(All[i], a)
      BY AllNamed
    <3>3. i \in 1..(Len(All) + 1) /\ t[i] = All[i]
      BY <1>1, <1>2, AppendProperties
    <3> QED BY <3>1, <3>2, <3>3 DEF Says
  <2>2. Born(t, Len(All) + 1) = children
    BY <1>2, <1>4, BornAppend DEF BirthInv
  <2>3. shot.seeded = lifecycle /\ shot.born = children
    BY DEF Snapshot
  <2> HIDE DEF shot, t
  <2> QED BY <2>1, <2>2, <2>3 DEF Agrees
<1> HIDE DEF shot
<1>9. Shown(t, snapshots')
  BY <1>1, <1>2, <1>5, <1>6, <1>7, <1>8, ShownAppend
<1>10. Ended(t, Len(t)) = Len(snapshots')
  BY <1>1, <1>2, <1>4, <1>5, <1>6, EndedAppend
<1> HIDE DEF t
<1>11. SameEnds(t, All')
  BY <1>1, <1>2, SameEndsAppend
<1> QED BY <1>9, <1>10, <1>11 DEF SameEnds, SnapshotInv

LEMMA SnapshotNext ==
  StateOK /\ StateOK' /\ LogOK /\ FilesOK /\ SeedInv /\ ChargeInv /\ ReplayInv /\ BirthInv
    /\ SnapshotInv /\ [Next]_vars => SnapshotInv'
<1> SUFFICES ASSUME StateOK, StateOK', LogOK, FilesOK, SeedInv, ChargeInv, ReplayInv, BirthInv,
                    SnapshotInv, [Next]_vars
             PROVE  SnapshotInv'
  OBVIOUS
<1>0. ASSUME SameEnds(All, All'), snapshots' = snapshots PROVE SnapshotInv'
  BY <1>0 DEF SameEnds, SnapshotInv
<1>1. CASE AppendEvent \/ SeedingDone \/ StartGeneration \/ UNCHANGED vars
  <2>1. SameEnds(All, All')
    BY <1>1, QuietSteps DEF SameTale
  <2> QED BY <1>0, <1>1, <2>1 DEF AppendEvent, SeedingDone, StartGeneration, vars
<1>2. CASE EndGeneration
  BY <1>2, SnapshotTaken
<1>3. ASSUME NEW a \in Agents, Visit(a) PROVE SnapshotInv'
  <2>1. snapshots' = snapshots
    BY <1>3 DEF Visit, Seed, SkipDead, Maintain, Die, ArchiveDead, RunTask, Settle, GoDormant,
                PayClone, EmbryoBorn, EmbryoDies, SelfRewrite, StayAsIs
  <2>2. CASE Quiet(a)
    <3>1. SameEnds(All, All')
      BY <2>2, QuietSteps DEF SameTale
    <3> QED BY <1>0, <2>1, <3>1
  <2>3. ASSUME NEW ok \in BOOLEAN, RunTask(a, ok) PROVE SnapshotInv'
    BY <1>0, <2>1, <2>3, TaskIsSame
  <2>4. CASE Maintain(a) \/ GoDormant(a)
    <3>1. PICK n, r : Saying("AGENT_STATE_CHANGED", a, n, r)
      BY <2>4, MaintainSays, GoDormantSays
    <3>2. PICK e \in Events : Tells(e, "AGENT_STATE_CHANGED", a, n, r) /\ All' = Append(All, e)
      BY <3>1, SayingAll
    <3>3. e.type # "POPULATION_SNAPSHOT"
      BY <3>2 DEF Tells
    <3>4. SameEnds(All, All')
      BY <3>2, <3>3, AllType, SameEndsAppend
    <3> QED BY <1>0, <2>1, <3>4
  <2>5. CASE SelfRewrite(a, TRUE)
    BY <1>0, <2>1, <2>5, RewriteIsSame
  <2> QED BY <1>3, <2>2, <2>3, <2>4, <2>5 DEF Visit, Quiet
<1> QED BY <1>1, <1>2, <1>3 DEF Next
-----------------------------------------------------------------------------
(* The audit. *)

Audit == /\ Inv /\ SeedInv /\ DeathInv /\ ChargeInv /\ BalanceInv
         /\ StreakInv /\ ReplayInv /\ BirthInv /\ SnapshotInv

LEMMA AuditInit == Init => Audit
<1> SUFFICES ASSUME Init PROVE Audit
  OBVIOUS
<1>0. Inv
  BY InvInit
<1>1. /\ pc = "seed" /\ gen = 0 /\ log = <<>> /\ outbox = <<>> /\ children = {} /\ archived = {}
      /\ snapshots = <<>> /\ pos = 1 /\ policy \in Plans
      /\ lifecycle = [a \in Agents |-> "none"] /\ fails = [a \in Agents |-> 0]
  BY DEF Init
<1>2. All = <<>> /\ Len(All) = 0
  BY <1>1, NothingSaid
<1>3. SeedInv
  BY <1>1, LenProperties, OrderIsAPlan DEF SeedInv
<1>4. \A b : /\ Awake(b) = 0 /\ Asleep(b) = 0 /\ Rewards(b) = 0 /\ Fates(b) = 0 /\ Legacies(b) = 0
  BY <1>2, CountNothing DEF Awake, Asleep, Rewards, Fates, Legacies
<1>5. DeathInv
  BY <1>1, <1>4 DEF DeathInv, Burying
<1>6. ChargeInv
  BY <1>1 DEF ChargeInv
<1>7. BalanceInv
  BY <1>1, FS_EmptySet DEF BalanceInv, Books
<1>8. StreakInv
  BY <1>1, <1>2, NothingTold DEF StreakInv
<1>9. ReplayInv
  BY <1>1 DEF ReplayInv
<1>10. SnapshotInv
  <2>1. Len(snapshots) = 0
    BY <1>1
  <2> QED BY <1>2, <2>1, NothingTold DEF SnapshotInv
<1>11. BirthInv
  BY <1>1, <1>2 DEF BirthInv, Born
<1> QED BY <1>0, <1>3, <1>5, <1>6, <1>7, <1>8, <1>9, <1>10, <1>11 DEF Audit

LEMMA AuditNext == Audit /\ [Next]_vars => Audit'
<1> SUFFICES ASSUME Audit, [Next]_vars PROVE Audit'
  OBVIOUS
<1>1. Inv' /\ StateOK' /\ StateOK /\ LogOK /\ FlagsOK /\ FilesOK /\ VisitInv
  BY InvNext DEF Audit, Inv
<1>2. SeedInv'
  BY <1>1, SeedNext DEF Audit
<1>3. DeathInv'
  BY <1>1, DeathNext DEF Audit
<1>4. ChargeInv'
  BY <1>1, ChargeNext DEF Audit
<1>5. BalanceInv'
  BY <1>1, BalanceNext DEF Audit
<1>6. StreakInv'
  BY <1>1, StreakNext DEF Audit
<1>7. ReplayInv'
  BY <1>1, ReplayNext DEF Audit
<1>8. SnapshotInv'
  BY <1>1, SnapshotNext DEF Audit
<1>9. BirthInv'
  BY <1>1, BirthNext DEF Audit
<1> QED BY <1>1, <1>2, <1>3, <1>4, <1>5, <1>6, <1>7, <1>8, <1>9 DEF Audit

LEMMA AuditHolds == Spec => []Audit
BY AuditInit, AuditNext, PTL DEF Spec
-----------------------------------------------------------------------------
(* From the tale as it was told to the log as it is read. *)

LEMMA LogIsPrefix ==
  ASSUME LogOK
  PROVE  /\ Len(log) \in Nat /\ Len(outbox) \in Nat /\ Len(All) = Len(log) + Len(outbox)
         /\ \A i \in 1..Len(log) : All[i] = log[i]
         /\ \A i \in 1..Len(All) : i \notin 1..Len(log) =>
              i - Len(log) \in DOMAIN outbox /\ All[i] = outbox[i - Len(log)]
<1>1. Len(log) \in Nat /\ Len(outbox) \in Nat /\ DOMAIN outbox = 1..Len(outbox)
  BY LenProperties DEF LogOK
<1>2. /\ Len(All) = Len(log) + Len(outbox)
      /\ \A i \in 1..Len(All) : All[i] = IF i <= Len(log) THEN log[i] ELSE outbox[i - Len(log)]
  BY ConcatProperties DEF LogOK, All
<1> QED BY <1>1, <1>2

\* What replayEvents finds: the state last told, or nothing to tell.
LEMMA SaysIsReplayed ==
  ASSUME NEW n \in Nat, NEW a, NEW v, Says(log, n, a, v)
  PROVE  Replayed(n, a) = v
<1> DEFINE S == Logged(n, "AGENT_STATE_CHANGED", a)
<1>1. S = {i \in 1..n : IsState(log[i], a)}
  BY DEF Logged, IsState
<1>2. PICK i \in 1..n : /\ IsState(log[i], a) /\ log[i].note = v
                        /\ \A j \in 1..n : IsState(log[j], a) => j <= i
  BY DEF Says, Replays
<1>3. i \in S /\ \A j \in S : j \in 1..n /\ j <= i
  BY <1>1, <1>2
<1> HIDE DEF S
<1>4. Max(S) = i
  <2>1. i \in S /\ \A y \in S : i >= y
    BY <1>3
  <2>2. \A x \in S : (\A y \in S : x >= y) => x = i
    BY <1>3
  <2>3. Max(S) \in S /\ \A y \in S : Max(S) >= y
    <3> HIDE <1>3
    <3> QED BY <2>1, Zenon DEF Max
  <2> QED BY <2>2, <2>3
<1>5. S # {} /\ Replayed(n, a) = log[Max(S)].note
  BY <1>3 DEF Replayed, S
<1> QED BY <1>2, <1>4, <1>5

LEMMA ReplaysIsReplayed ==
  ASSUME NEW n \in Nat, NEW a, NEW v, Replays(log, n, a, v)
  PROVE  Replayed(n, a) = v \/ (Replayed(n, a) = "none" /\ v = "ACTIVE")
<1>1. CASE \E i \in 1..n : IsState(log[i], a)
  BY <1>1, SaysIsReplayed DEF Says
<1>2. CASE \A i \in 1..n : ~IsState(log[i], a)
  <2>1. Logged(n, "AGENT_STATE_CHANGED", a) = {} /\ v = "ACTIVE"
    BY <1>2 DEF Logged, IsState, Replays
  <2> QED BY <2>1 DEF Replayed
<1> QED BY <1>1, <1>2

LEMMA LogAgrees ==
  ASSUME LogOK, NEW n \in 0..Len(log)
  PROVE  /\ \A a, v : Replays(log, n, a, v) <=> Replays(All, n, a, v)
         /\ \A shot : Agrees(log, n, shot) <=> Agrees(All, n, shot)
         /\ Born(log, n) = Born(All, n)
<1>1. n \in Nat /\ \A j \in 1..n : log[j] = All[j]
  BY LogIsPrefix
<1> QED BY <1>1, SamePrefix, Zenon

LEMMA BirthsAreBorn == \A n : Births(n) = Born(log, n)
  BY DEF Births, Born, IsBirth

\* A log cut anywhere by a crash accounts for the population: the agents of the
\* plan replay (replay.ts) to the lifecycles they have, or have no entry and are
\* ACTIVE, and the children are named, but for the event still to be appended.
THEOREM TheLogReplays == Spec => []LifecycleReplays
<1>1. ASSUME Audit, pc # "seed", NEW a \in Agents,
             ~(\E i \in DOMAIN outbox : /\ outbox[i].type = "AGENT_STATE_CHANGED"
                                       /\ outbox[i].agent = a
                                       /\ outbox[i].note = lifecycle[a])
      PROVE  \/ Replayed(Len(log), a) = lifecycle[a]
             \/ Replayed(Len(log), a) = "none" /\ lifecycle[a] = "ACTIVE"
  <2>0. LogOK
    BY <1>1 DEF Audit, Inv
  <2>1. Replays(All, Len(All), a, lifecycle[a])
    BY <1>1 DEF Audit, ReplayInv
  <2>2. \A i \in 1..Len(log) : i \in 1..Len(All)
    BY <2>0, LogIsPrefix
  <2>3. Replays(All, Len(log), a, lifecycle[a])
    <3>1. CASE lifecycle[a] = "ACTIVE" /\ \A i \in 1..Len(All) : ~IsState(All[i], a)
      BY <2>2, <3>1 DEF Replays
    <3>2. CASE \E i \in 1..Len(All) : /\ IsState(All[i], a) /\ All[i].note = lifecycle[a]
                                      /\ \A j \in 1..Len(All) : IsState(All[j], a) => j <= i
      <4>1. PICK i \in 1..Len(All) : /\ IsState(All[i], a) /\ All[i].note = lifecycle[a]
                                     /\ \A j \in 1..Len(All) : IsState(All[j], a) => j <= i
        BY <3>2
      <4>2. i \in 1..Len(log)
        <5>1. SUFFICES ASSUME i \notin 1..Len(log) PROVE FALSE
          OBVIOUS
        <5>2. i - Len(log) \in DOMAIN outbox /\ All[i] = outbox[i - Len(log)]
          BY <2>0, <5>1, LogIsPrefix
        <5> QED BY <1>1, <4>1, <5>2 DEF IsState
      <4> QED BY <2>2, <4>1, <4>2 DEF Replays
    <3> QED BY <2>1, <3>1, <3>2 DEF Replays
  <2>4. Len(log) \in 0..Len(log) /\ Len(log) \in Nat
    BY <2>0, LogIsPrefix
  <2>5. Replays(log, Len(log), a, lifecycle[a])
    BY <2>0, <2>3, <2>4, LogAgrees
  <2> QED BY <2>4, <2>5, ReplaysIsReplayed
<1>2. ASSUME Audit, NEW c \in children, c \notin Births(Len(log))
      PROVE  \E i \in DOMAIN outbox : outbox[i].type = "EMBRYO_QUALIFIED" /\ ChildOf(outbox[i]) = c
  <2>0. LogOK /\ c \in Born(All, Len(All))
    BY <1>2 DEF Audit, Inv, BirthInv
  <2>1. PICK i \in 1..Len(All) : IsBirth(All[i]) /\ c = ChildOf(All[i])
    BY <2>0 DEF Born
  <2>2. i \notin 1..Len(log)
    <3>1. ASSUME i \in 1..Len(log) PROVE c \in Births(Len(log))
      <4>1. All[i] = log[i]
        BY <2>0, <3>1, LogIsPrefix
      <4> QED BY <2>1, <3>1, <4>1 DEF Births, IsBirth
    <3> QED BY <1>2, <3>1
  <2>3. i - Len(log) \in DOMAIN outbox /\ All[i] = outbox[i - Len(log)]
    BY <2>0, <2>2, LogIsPrefix
  <2> QED BY <2>1, <2>3 DEF IsBirth
<1>3. Audit => LifecycleReplays
  BY <1>1, <1>2 DEF LifecycleReplays
<1> QED BY <1>3, AuditHolds, PTL

\* The snapshot a generation leaves on disk: of each agent of the plan what the
\* events before it replay to, and beside them the children those events name
\* (PopulationController.snapshot, then the event that records it).
THEOREM SnapshotsAgree == Spec => []SnapshotAgreesWithLog
<1>1. Audit => SnapshotAgreesWithLog
  <2> DEFINE ends == {i \in DOMAIN log : log[i].type = "POPULATION_SNAPSHOT"}
             saved(i) == snapshots[Cardinality({j \in ends : j <= i})]
  <2> SUFFICES ASSUME Audit, NEW i \in ends
               PROVE  /\ \A a \in Agents : saved(i).seeded[a] = Replayed(i, a)
                      /\ saved(i).born = Births(i)
    BY DEF SnapshotAgreesWithLog
  <2>0. LogOK /\ DOMAIN log = 1..Len(log)
    BY LenProperties DEF Audit, Inv, LogOK
  <2>1. /\ i \in 1..Len(log) /\ i \in 1..Len(All) /\ i \in 0..Len(log) /\ i \in Nat
        /\ IsEnd(All[i])
    BY <2>0, LogIsPrefix DEF IsEnd
  <2>2. Agrees(All, i, snapshots[Ended(All, i)])
    BY <2>1 DEF Audit, SnapshotInv, Shown
  <2>3. {j \in ends : j <= i} = Ends(All, i)
    <3>1. \A j : j \in 1..Len(log) /\ j <= i <=> j \in 1..i
      BY <2>0, <2>1, LogIsPrefix
    <3>2. \A j \in 1..i : All[j] = log[j]
      BY <2>0, <3>1, LogIsPrefix
    <3> QED BY <2>0, <3>1, <3>2 DEF Ends, IsEnd
  <2>4. saved(i) = snapshots[Ended(All, i)]
    BY <2>3 DEF Ended
  <2>5. Agrees(log, i, saved(i))
    BY <2>0, <2>1, <2>2, <2>4, LogAgrees
  <2> HIDE DEF saved
  <2>6. \A a \in Agents : saved(i).seeded[a] = Replayed(i, a)
    BY <2>1, <2>5, SaysIsReplayed DEF Agrees
  <2>7. saved(i).born = Births(i)
    BY <2>5, BirthsAreBorn DEF Agrees
  <2> QED BY <2>6, <2>7
<1> QED BY <1>1, AuditHolds, PTL

\* Each living agent pays its upkeep once a generation, whatever became of the
\* agents visited before it (ledger.maintain in runGeneration).
THEOREM UpkeepIsChargedOnce == Spec => []ChargedOncePerGeneration
<1>1. Audit => ChargedOncePerGeneration
  BY Tallies DEF Audit, Inv, ChargeInv, ChargedOncePerGeneration
<1> QED BY <1>1, AuditHolds, PTL

\* A death leaves one legacy, before any other agent is visited (die, archiveDead).
THEOREM TheDeadAreArchived == Spec => []DeathsAreArchived
<1>1. Audit => DeathsAreArchived
  <2> SUFFICES ASSUME Audit, NEW a \in Agents
               PROVE  /\ lifecycle[a] = "DEAD" /\ ~(pc \in {"dying", "archiving"} /\ a = Order[pos])
                           => a \in archived
                      /\ Emitted(a, LAMBDA e : e.type = "LEGACY_ARCHIVED")
                           = IF a \in archived THEN 1 ELSE 0
    BY DEF DeathsAreArchived
  <2>1. Emitted(a, LAMBDA e : e.type = "LEGACY_ARCHIVED") = Legacies(a)
    BY Tallies DEF Audit, Inv
  <2> QED BY <2>1 DEF Audit, DeathInv, Burying
<1> QED BY <1>1, AuditHolds, PTL

\* No agent spends more than it was given and earned, and the balance of the
\* living is what their events add up to (EnergyLedger.apply).
THEOREM TheBooksBalance == Spec => []BalanceIsAudited
<1>1. ASSUME Audit, NEW a \in Agents, lifecycle[a] # "none"
      PROVE  /\ Upkeep(a) + policy.clone * Cardinality(Kids(a)) <= Income(a)
             /\ lifecycle[a] # "DEAD" /\ policy.clone <= policy.cloneAbove =>
                  balance[a] = Income(a) - Upkeep(a)
                    - policy.clone * (Fates(a) + (IF Cloning(a) THEN 1 ELSE 0))
  <2>1. /\ policy.clone \in Nat /\ policy.upkeep \in Nat /\ policy.dormantUpkeep \in Nat
        /\ policy.initial \in Nat /\ policy.reward \in Nat
    BY <1>1, PlansType DEF Audit, Inv, StateOK
  <2>2. Counting(a) /\ balance[a] \in Nat /\ lifecycle[a] \in Lifecycles
    BY <1>1, TallyType DEF Audit, Inv, StateOK
  <2>3. Cardinality(Kids(a)) \in Nat
    BY <1>1, FS_Subset, FS_CardinalityType DEF Audit, BalanceInv, Kids
  <2>4. Upkeep(a) \in Nat /\ Income(a) \in Nat /\ policy.clone * Cardinality(Kids(a)) \in Nat
    BY <2>1, <2>2, <2>3 DEF Upkeep, Income, Counting
  <2>5. Books(a)
    BY <1>1 DEF Audit, BalanceInv
  <2> QED BY <1>1, <2>1, <2>2, <2>4, <2>5 DEF Books, Lifecycles
<1>2. Audit => BalanceIsAudited
  BY <1>1, Tallies DEF Audit, Inv, BalanceIsAudited, Income, Upkeep, Kids, Cloning
<1> QED BY <1>2, AuditHolds, PTL

\* A genome is rewritten only after rewriteAfter failed tasks in a row since the
\* last success and the last rewrite (shouldAutoRewrite).
THEOREM RewritesAreEarned == Spec => []RewriteIsEarned
<1>1. Audit => RewriteIsEarned
  <2> SUFFICES ASSUME Audit, NEW i \in DOMAIN log, log[i].type = "GENOME_REWRITTEN"
               PROVE  LET a     == log[i].agent
                          tasks == Logged(i, "EVALUATION_COMPLETED", a)
                          reset == {j \in tasks : log[j].note = "success"}
                                     \cup Logged(i - 1, "GENOME_REWRITTEN", a)
                      IN Cardinality({j \in tasks : \A k \in reset : k < j})
                           >= policy.rewriteAfter
    BY DEF RewriteIsEarned
  <2> DEFINE a     == log[i].agent
             tasks == Logged(i, "EVALUATION_COMPLETED", a)
             reset == {j \in tasks : log[j].note = "success"}
                        \cup Logged(i - 1, "GENOME_REWRITTEN", a)
  <2>0. LogOK /\ DOMAIN log = 1..Len(log)
    BY LenProperties DEF Audit, Inv, LogOK
  <2>1. /\ i \in 1..Len(log) /\ i \in 1..Len(All) /\ i - 1 \in Nat /\ All[i] = log[i]
        /\ \A j \in 1..(i - 1) : All[j] = log[j]
    BY <2>0, LogIsPrefix
  <2>2. Failures(All, i - 1, a) >= policy.rewriteAfter
    BY <2>1 DEF Audit, StreakInv, Earned, IsRewrite
  <2>3. \A j : j \in 1..i <=> j \in 1..(i - 1) \/ j = i
    BY <2>1
  <2>4. \A j : j \in tasks <=> j \in 1..(i - 1) /\ IsTask(All[j], a)
    BY <2>1, <2>3 DEF Logged, IsTask
  <2>5. \A k : k \in reset <=> k \in 1..(i - 1) /\ IsReset(All[k], a)
    BY <2>1, <2>3 DEF Logged, IsReset
  <2> HIDE DEF tasks, reset
  <2>6. {j \in tasks : \A k \in reset : k < j} = Streak(All, i - 1, a)
    BY <2>4, <2>5 DEF Streak
  <2> QED BY <2>2, <2>6 DEF Failures, tasks, reset
<1> QED BY <1>1, AuditHolds, PTL
=============================================================================
