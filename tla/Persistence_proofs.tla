------------------------- MODULE Persistence_proofs -------------------------
(***************************************************************************)
(* Proofs about Legacy and Memory, the parts whose files outlive a run.    *)
(*                                                                         *)
(* Legacy, for any agents, tasks, generations and faults: claims change    *)
(* hands only through the death of their owner, and a death that has been  *)
(* logged to its end is settled on disk and in the pool.                   *)
(*                                                                         *)
(* Memory, for any agents, files, candidates and bounds: a store holds     *)
(* memories of its own agent only, a file that loads has every memory a    *)
(* save reported as written, and a plugin is verified exactly when two     *)
(* tasks passed.                                                           *)
(***************************************************************************)
EXTENDS Legacy, Memory, SequenceTheorems, TLAPS

(* Legacy. *)

LEMMA OrderFacts ==
  /\ Len(Order) \in Nat \ {0} /\ \A k \in 1..Len(Order) : Order[k] \in Agents
  /\ Len(Plan) \in Nat \ {0} /\ \A k \in 1..Len(Plan) : Plan[k] \in Tasks
  BY LegacyAssumption DEF Agents, Tasks, Range

LEMMA AgentInOrder == ASSUME TypeOK PROVE Agent \in Agents
  BY OrderFacts DEF TypeOK, Agent

LEMMA PlanInTasks == ASSUME TypeOK PROVE Plan[(generation % Len(Plan)) + 1] \in Tasks
<1>1. generation \in Nat /\ Len(Plan) \in Nat \ {0}
  BY OrderFacts, LegacyAssumption DEF TypeOK
<1>2. generation % Len(Plan) \in 0..(Len(Plan) - 1)
  BY <1>1
<1> QED BY <1>1, <1>2, OrderFacts

LEMMA Fresh == Unclaimed \in [Tasks -> Claims] /\ Available \in Claims
  BY DEF Unclaimed, Available, Claims

\* Whatever the pool does to one of its tasks, its types are those of a claim.
PoolOK == /\ pool \in [Tasks -> Claims]
          /\ \A t \in Tasks : /\ pool[t].status = "available" => pool[t] = Available
                              /\ pool[t].status = "claimed" => pool[t].claimedBy \in Agents

LEMMA PoolSet ==
  ASSUME PoolOK, NEW t \in Tasks, NEW claim \in Claims, pool' = [pool EXCEPT ![t] = claim],
         claim.status = "available" => claim = Available,
         claim.status = "claimed" => claim.claimedBy \in Agents
  PROVE  PoolOK'
  BY DEF PoolOK

LEMMA PoolComplete ==
  ASSUME PoolOK, NEW t \in Tasks, pool' = Completed(t) PROVE PoolOK'
<1>1. [pool[t] EXCEPT !.status = "completed"] \in Claims
      /\ [pool[t] EXCEPT !.status = "completed"].status = "completed"
  BY DEF PoolOK, Claims
<1>2. pool' = [pool EXCEPT ![t] = [pool[t] EXCEPT !.status = "completed"]]
  BY DEF Completed
<1> QED BY <1>1, <1>2, PoolSet

LEMMA PoolRelease == ASSUME PoolOK, NEW a, pool' = Released(a) PROVE PoolOK'
  BY Fresh DEF PoolOK, Released, Available, Claims

LEMMA TypeInit == Init => TypeOK
  BY OrderFacts, LegacyAssumption DEF Init, TypeOK, Unclaimed, Newborn, Available, Claims

\* A run that has not ended is in one of its generations, and an append in the
\* middle of its line has begun one.
TypeInv ==
  /\ TypeOK
  /\ pc \notin {"over", "broken"} => generation < Generations
  /\ pc = "append" => fragment \in {Agent, Bad}

LEMMA Advances ==
  ASSUME TypeInv, Advance, pc \notin {"over", "broken"}
  PROVE  /\ turn' \in 1..Len(Order) /\ generation' \in 0..Generations
         /\ pc' \in {"visit", "over"} /\ (pc' # "over" => generation' < Generations)
  BY OrderFacts, LegacyAssumption DEF TypeInv, TypeOK, Advance

LEMMA TypeLoop == ASSUME TypeInv, Loop PROVE TypeInv'
<1> USE DEF TypeInv
<1>0. PoolOK /\ Agent \in Agents
  BY AgentInOrder DEF TypeOK, PoolOK
<1>1. CASE SkipDead
  <2>1. Advance /\ pc = "visit" /\ UNCHANGED <<pool, life, deathVars, announced, diskVars, runs, faults>>
    BY <1>1 DEF SkipDead
  <2> QED BY <2>1, Advances DEF TypeOK, deathVars, diskVars
<1>2. ASSUME NEW pays \in BOOLEAN, Upkeep(pays) PROVE TypeInv'
  <2>1. /\ pc = "visit" /\ life' = [life EXCEPT ![Agent] = IF pays THEN @ ELSE "DEAD"]
        /\ Advance \/ (pc' \in {"archive", "work"} /\ UNCHANGED <<turn, generation>>)
        /\ UNCHANGED <<pool, deathVars, announced, diskVars, runs, faults>>
    BY <1>2 DEF Upkeep
  <2>2. life' \in [Agents -> {"ACTIVE", "DORMANT", "DEAD"}]
    BY <1>0, <2>1 DEF TypeOK
  <2>3. /\ turn' \in 1..Len(Order) /\ generation' \in 0..Generations
        /\ pc' \in {"visit", "over", "archive", "work"}
        /\ pc' # "over" => generation' < Generations
    <3>1. CASE Advance
      BY <2>1, <3>1, Advances
    <3>2. CASE pc' \in {"archive", "work"} /\ UNCHANGED <<turn, generation>>
      BY <2>1, <3>2 DEF TypeOK
    <3> QED BY <2>1, <3>1, <3>2
  <2> QED BY <2>1, <2>2, <2>3 DEF TypeOK, deathVars, diskVars
<1>3. ASSUME NEW success \in BOOLEAN, Work(success) PROVE TypeInv'
  <2>1. /\ pc = "work" /\ pc' = "evolve"
        /\ pool' = pool \/ pool' = Completed(Plan[(generation % Len(Plan)) + 1])
        /\ UNCHANGED <<life, generation, turn, deathVars, announced, diskVars, runs, faults>>
    BY <1>3 DEF Work
  <2>2. PoolOK'
    BY <1>0, <2>1, PlanInTasks, PoolComplete DEF PoolOK
  <2> QED BY <2>1, <2>2 DEF TypeOK, PoolOK, deathVars, diskVars
<1>4. ASSUME NEW sleeps \in BOOLEAN, MaybeEvolve(sleeps) PROVE TypeInv'
  <2>1. /\ pc = "evolve" /\ life' = [life EXCEPT ![Agent] = IF sleeps THEN "DORMANT" ELSE @]
        /\ Advance /\ UNCHANGED <<pool, deathVars, announced, diskVars, runs, faults>>
    BY <1>4 DEF MaybeEvolve
  <2>2. life' \in [Agents -> {"ACTIVE", "DORMANT", "DEAD"}]
    BY <1>0, <2>1 DEF TypeOK
  <2> QED BY <2>1, <2>2, Advances DEF TypeOK, deathVars, diskVars
<1>5. CASE WriteLegacy
  BY <1>0, <1>5 DEF WriteLegacy, TypeOK, deathVars
<1>6. CASE BeginRecord
  BY <1>0, <1>6 DEF BeginRecord, TypeOK, Agent, deathVars
<1>7. CASE FinishRecord
  <2>1. /\ pc = "append" /\ pc' = "announce" /\ index' = Append(index, fragment)
        /\ fragment' = Nothing /\ pool' = Released(Agent)
        /\ released' = released \cup {Agent}
        /\ UNCHANGED <<life, generation, turn, late, announced, legacies, runs, faults>>
    BY <1>7 DEF FinishRecord
  <2>2. PoolOK'
    BY <1>0, <2>1, PoolRelease
  <2>3. index \in Seq(Agents \cup {Bad}) /\ fragment \in Agents \cup {Bad}
    BY <1>0, <2>1 DEF TypeOK
  <2>4. index' \in Seq(Agents \cup {Bad})
    BY <2>1, <2>3, AppendProperties
  <2>5. released' \subseteq Agents /\ late' \subseteq Tasks
    BY <1>0, <2>1 DEF TypeOK
  <2> QED BY <2>1, <2>2, <2>4, <2>5 DEF TypeOK, PoolOK
<1>8. CASE Announce
  <2>1. /\ pc = "announce" /\ announced' = announced \cup {Agent} /\ Advance
        /\ UNCHANGED <<pool, life, deathVars, diskVars, runs, faults>>
    BY <1>8 DEF Announce
  <2> QED BY <1>0, <2>1, Advances DEF TypeOK, deathVars, diskVars
<1> QED BY <1>1, <1>2, <1>3, <1>4, <1>5, <1>6, <1>7, <1>8 DEF Loop

LEMMA TypeNext == TypeInv /\ [Next]_vars => TypeInv'
<1> SUFFICES ASSUME TypeInv, [Next]_vars PROVE TypeInv'
  OBVIOUS
<1>1. ASSUME NEW a \in Agents, NEW t \in Tasks, Claim(a, t) \/ CompleteOwn(a, t)
      PROVE  TypeInv'
  <2>1. UNCHANGED <<life, generation, turn, pc, released, announced, legacies, index, fragment,
                  runs, faults>>
    BY <1>1 DEF Claim, CompleteOwn, loopVars, deathVars, diskVars
  <2>4. late' \subseteq Tasks
    BY <1>1 DEF Claim, CompleteOwn, deathVars, TypeInv, TypeOK
  <2>2. PoolOK
    BY DEF TypeInv, TypeOK, PoolOK
  <2>3. PoolOK'
    <3>1. CASE Claim(a, t)
      <4>1. [status |-> "claimed", claimedBy |-> a] \in Claims
        BY DEF Claims
      <4> QED BY <2>2, <3>1, <4>1, PoolSet DEF Claim
    <3>2. CASE CompleteOwn(a, t)
      BY <2>2, <3>2, PoolComplete DEF CompleteOwn
    <3> QED BY <1>1, <3>1, <3>2
  <2> QED BY <2>1, <2>3, <2>4 DEF TypeInv, TypeOK, PoolOK, Agent
<1>2. CASE Breaks
  BY <1>2 DEF Breaks, TypeInv, TypeOK, deathVars
<1>3. CASE NewRun
  <2>1. /\ pool' = Unclaimed /\ life' = Newborn /\ generation' = 0 /\ turn' = 1
        /\ pc' = "visit" /\ released' = {} /\ late' = {} /\ announced' = {} /\ runs' = runs + 1
        /\ UNCHANGED <<legacies, index, fragment, faults>>
    BY <1>3 DEF NewRun, diskVars
  <2> QED BY <2>1, OrderFacts, LegacyAssumption
          DEF TypeInv, TypeOK, Unclaimed, Newborn, Available, Claims
<1>4. CASE UNCHANGED vars
  BY <1>4 DEF vars, loopVars, deathVars, diskVars, TypeInv, TypeOK, Agent
<1> QED BY <1>1, <1>2, <1>3, <1>4, TypeLoop DEF Next

LEMMA TypeStart == Init => TypeInv
  BY TypeInit, LegacyAssumption DEF Init, TypeInv

\* The pool, the lives, the run and the archive keep their types.
THEOREM LegacyTypes == Spec => []TypeOK
<1>1. TypeInv => TypeOK
  BY DEF TypeInv
<1> QED BY <1>1, TypeStart, TypeNext, PTL DEF Spec

------------------------------------------------------------------------------
\* Where a visit stands says who lives, and how far the death of whoever does not
\* has been put on record.
PlaceInv ==
  /\ pc \in {"work", "evolve"} => life[Agent] # "DEAD"
  /\ pc \in {"archive", "record", "append", "announce"} => life[Agent] = "DEAD"
  /\ pc \in {"record", "append", "announce"} => Agent \in legacies
  /\ pc = "announce" => {Agent, Bad} \cap Range(index) # {}
                      /\ Agent \in released /\ HeldBy(Agent) \subseteq late

\* A line that was torn stays in the index, so it is never the index of all others.
Settled ==
  \A a \in announced :
    /\ life[a] = "DEAD" /\ a \in legacies
    /\ {a, Bad} \cap Range(index) # {}
    /\ a \in released /\ HeldBy(a) \subseteq late

SettledInv == TypeInv /\ PlaceInv /\ Settled

\* Completing a task takes it from whoever held it.
LEMMA CompleteHolds ==
  ASSUME TypeInv, NEW t \in Tasks, pool' = Completed(t), NEW d PROVE HeldBy(d)' \subseteq HeldBy(d)
<1>1. \A u \in Tasks : pool'[u] = pool[u] \/ pool'[u].status = "completed"
  BY DEF Completed, TypeInv, TypeOK, Claims
<1> QED BY <1>1 DEF HeldBy

\* Whoever is released and claims again claims late.
LEMMA ReleasedHoldLate ==
  ASSUME TypeInv, NEW a \in Agents, NEW t \in Tasks, Claim(a, t) \/ CompleteOwn(a, t),
         NEW d \in released, HeldBy(d) \subseteq late
  PROVE  HeldBy(d)' \subseteq late'
<1>1. CASE Claim(a, t)
  <2>1. \A u \in Tasks : pool'[u] = IF u = t THEN [status |-> "claimed", claimedBy |-> a] ELSE pool[u]
    BY <1>1 DEF Claim, TypeInv, TypeOK
  <2>2. late \subseteq late' /\ (a \in released => t \in late')
    BY <1>1 DEF Claim
  <2>3. \A u \in Tasks : u # t /\ u \in HeldBy(d)' => u \in late'
    BY <2>1, <2>2 DEF HeldBy
  <2>4. t \in HeldBy(d)' => a = d
    BY <2>1 DEF HeldBy
  <2> QED BY <2>2, <2>3, <2>4 DEF HeldBy
<1>2. CASE CompleteOwn(a, t)
  <2>1. HeldBy(d)' \subseteq HeldBy(d) /\ late' = late
    BY <1>2, CompleteHolds DEF CompleteOwn, deathVars
  <2> QED BY <2>1
<1> QED BY <1>1, <1>2

LEMMA ReleaseHolds ==
  ASSUME TypeInv, NEW a \in Agents, pool' = Released(a), NEW d
  PROVE  HeldBy(d)' \subseteq HeldBy(d) /\ HeldBy(a)' = {}
<1>1. Available.status = "available"
  BY DEF Available
<1>2. \A u \in Tasks :
        pool'[u] = IF pool[u] = [status |-> "claimed", claimedBy |-> a] THEN Available ELSE pool[u]
  BY DEF Released
<1> QED BY <1>1, <1>2 DEF HeldBy

\* The settled stay settled while the archive grows and what they gain comes late.
LEMMA SettledKeeps ==
  ASSUME Settled, announced' = announced, legacies \subseteq legacies',
         Range(index) \subseteq Range(index)',
         released \subseteq released',
         \A d \in announced : life'[d] = "DEAD" /\ HeldBy(d)' \subseteq late'
  PROVE  Settled'
  BY DEF Settled

LEMMA RangeAppend ==
  ASSUME NEW S, NEW s \in Seq(S), NEW x \in S
  PROVE  Range(Append(s, x)) = Range(s) \cup {x}
<1>1. /\ Len(Append(s, x)) = Len(s) + 1 /\ Append(s, x)[Len(s) + 1] = x
      /\ \A k \in 1..Len(s) : Append(s, x)[k] = s[k]
      /\ Append(s, x) \in Seq(S) /\ Len(s) \in Nat
  BY AppendProperties
<1>2. DOMAIN Append(s, x) = 1..(Len(s) + 1) /\ DOMAIN s = 1..Len(s)
  BY <1>1
<1> QED BY <1>1, <1>2 DEF Range

LEMMA SettledInit == Init => SettledInv
  BY TypeStart DEF Init, SettledInv, PlaceInv, Settled

\* A visit that is over leaves no place to speak of.
LEMMA PlaceAtRest == ASSUME pc' \in {"visit", "over", "broken"} PROVE PlaceInv'
  BY DEF PlaceInv

LEMMA AdvanceRests == ASSUME TypeInv, Advance PROVE pc' \in {"visit", "over"}
  BY DEF Advance

LEMMA SettledLoop == ASSUME SettledInv, Loop PROVE PlaceInv' /\ Settled'
<1> USE DEF SettledInv
<1>0. Agent \in Agents /\ announced \subseteq Agents
  BY AgentInOrder DEF TypeInv, TypeOK
<1>a. \A d \in announced : life[d] = "DEAD" /\ d \in released /\ HeldBy(d) \subseteq late
  BY DEF Settled
<1>1. CASE SkipDead
  <2>1. Advance /\ UNCHANGED <<pool, life, released, late, announced, legacies, index>>
    BY <1>1 DEF SkipDead, deathVars, diskVars
  <2> QED BY <1>a, <2>1, AdvanceRests, PlaceAtRest, SettledKeeps DEF HeldBy, Range
<1>2. ASSUME NEW pays \in BOOLEAN, Upkeep(pays) PROVE PlaceInv' /\ Settled'
  <2>1. /\ life[Agent] # "DEAD"
        /\ life' = [life EXCEPT ![Agent] = IF pays THEN @ ELSE "DEAD"]
        /\ \/ Advance
           \/ life'[Agent] = "DEAD" /\ pc' = "archive" /\ UNCHANGED turn
           \/ life'[Agent] = "ACTIVE" /\ pc' = "work" /\ UNCHANGED turn
        /\ UNCHANGED <<pool, released, late, announced, legacies, index>>
    BY <1>2 DEF Upkeep, deathVars, diskVars
  <2>2. \A d \in announced : life'[d] = "DEAD" /\ HeldBy(d)' \subseteq late'
    BY <1>0, <1>a, <2>1 DEF HeldBy, TypeInv, TypeOK
  <2>3. Settled'
    BY <2>1, <2>2, SettledKeeps DEF Range
  <2>4. PlaceInv'
    <3>1. CASE Advance
      BY <3>1, AdvanceRests, PlaceAtRest
    <3>2. CASE pc' \in {"archive", "work"} /\ UNCHANGED turn
      BY <2>1, <3>2, AdvanceRests DEF PlaceInv, Agent
    <3> QED BY <2>1, <3>1, <3>2
  <2> QED BY <2>3, <2>4
<1>3. ASSUME NEW success \in BOOLEAN, Work(success) PROVE PlaceInv' /\ Settled'
  <2>1. /\ pc = "work" /\ pc' = "evolve"
        /\ pool' = pool \/ pool' = Completed(Plan[(generation % Len(Plan)) + 1])
        /\ UNCHANGED <<life, turn, released, late, announced, legacies, index>>
    BY <1>3 DEF Work, deathVars, diskVars
  <2>2. \A d : HeldBy(d)' \subseteq HeldBy(d)
    <3>1. CASE pool' = pool
      BY <3>1 DEF HeldBy
    <3>2. CASE pool' = Completed(Plan[(generation % Len(Plan)) + 1])
      BY <3>2, PlanInTasks, CompleteHolds DEF TypeInv
    <3> QED BY <2>1, <3>1, <3>2
  <2>3. \A d \in announced : life'[d] = "DEAD" /\ HeldBy(d)' \subseteq late'
    BY <1>a, <2>1, <2>2
  <2>4. Settled'
    BY <2>1, <2>3, SettledKeeps DEF Range
  <2>5. PlaceInv'
    BY <2>1 DEF PlaceInv, Agent
  <2> QED BY <2>4, <2>5
<1>4. ASSUME NEW sleeps \in BOOLEAN, MaybeEvolve(sleeps) PROVE PlaceInv' /\ Settled'
  <2>1. /\ pc = "evolve" /\ life' = [life EXCEPT ![Agent] = IF sleeps THEN "DORMANT" ELSE @]
        /\ Advance /\ UNCHANGED <<pool, released, late, announced, legacies, index>>
    BY <1>4 DEF MaybeEvolve, deathVars, diskVars
  <2>2. life[Agent] # "DEAD"
    BY <2>1 DEF PlaceInv
  <2>3. \A d \in announced : life'[d] = "DEAD" /\ HeldBy(d)' \subseteq late'
    BY <1>0, <1>a, <2>1, <2>2 DEF HeldBy, TypeInv, TypeOK
  <2>4. Settled'
    BY <2>1, <2>3, SettledKeeps DEF Range
  <2> QED BY <2>1, <2>4, AdvanceRests, PlaceAtRest
<1>5. CASE WriteLegacy
  <2>1. /\ pc = "archive" /\ pc' = "record" /\ legacies' = legacies \cup {Agent}
        /\ UNCHANGED <<pool, life, turn, released, late, announced, index>>
    BY <1>5 DEF WriteLegacy, deathVars
  <2>2. Settled'
    BY <1>a, <2>1, SettledKeeps DEF HeldBy, Range
  <2> QED BY <2>1, <2>2 DEF PlaceInv, Agent
<1>6. CASE BeginRecord
  <2>1. /\ pc = "record" /\ pc' = "append"
        /\ UNCHANGED <<pool, life, turn, released, late, announced, legacies, index>>
    BY <1>6 DEF BeginRecord, deathVars
  <2>2. Settled'
    BY <1>a, <2>1, SettledKeeps DEF HeldBy, Range
  <2> QED BY <2>1, <2>2 DEF PlaceInv, Agent
<1>7. CASE FinishRecord
  <2>1. /\ pc = "append" /\ pc' = "announce" /\ index' = Append(index, fragment)
        /\ pool' = Released(Agent) /\ released' = released \cup {Agent}
        /\ UNCHANGED <<life, turn, late, announced, legacies>>
    BY <1>7 DEF FinishRecord
  <2>2. index \in Seq(Agents \cup {Bad}) /\ fragment \in {Agent, Bad}
    BY <2>1 DEF TypeInv, TypeOK
  <2>3. Range(index)' = Range(index) \cup {fragment}
    <3>1. Range(Append(index, fragment)) = Range(index) \cup {fragment}
      BY <1>0, <2>2, RangeAppend
    <3> QED BY <2>1, <3>1 DEF Range
  <2>4. /\ \A d : HeldBy(d)' \subseteq HeldBy(d)
        /\ HeldBy(Agent)' = {}
    <3>1. Agent' = Agent
      BY <2>1 DEF Agent
    <3>2. ASSUME NEW a \in Agents, a = Agent
          PROVE  (\A d : HeldBy(d)' \subseteq HeldBy(d)) /\ HeldBy(a)' = {}
      BY <2>1, <3>2, ReleaseHolds
    <3>3. PICK a \in Agents : a = Agent
      BY <1>0
    <3>4. (\A d : HeldBy(d)' \subseteq HeldBy(d)) /\ HeldBy(a)' = {}
      BY <3>2, <3>3
    <3> QED BY <3>1, <3>3, <3>4 DEF HeldBy
  <2>5. \A d \in announced : life'[d] = "DEAD" /\ HeldBy(d)' \subseteq late'
    BY <1>a, <2>1, <2>4
  <2>6. Settled'
    BY <2>1, <2>3, <2>5, SettledKeeps
  <2>7. Agent' = Agent /\ {Agent, Bad} \cap Range(index)' # {} /\ Agent \in released'
    BY <2>1, <2>2, <2>3 DEF Agent
  <2>8. PlaceInv'
    BY <2>1, <2>4, <2>7 DEF PlaceInv
  <2> QED BY <2>6, <2>8
<1>8. CASE Announce
  <2>1. /\ pc = "announce" /\ announced' = announced \cup {Agent} /\ Advance
        /\ UNCHANGED <<pool, life, released, late, legacies, index>>
    BY <1>8 DEF Announce, deathVars, diskVars
  <2>2. /\ life[Agent] = "DEAD" /\ Agent \in legacies
        /\ {Agent, Bad} \cap Range(index) # {} /\ Agent \in released
        /\ HeldBy(Agent) \subseteq late
    BY <2>1 DEF PlaceInv
  <2>3. Settled'
    BY <2>1, <2>2 DEF Settled, HeldBy, Range
  <2> QED BY <2>1, <2>3, AdvanceRests, PlaceAtRest
<1> QED BY <1>1, <1>2, <1>3, <1>4, <1>5, <1>6, <1>7, <1>8 DEF Loop

LEMMA SettledNext == SettledInv /\ [Next]_vars => SettledInv'
<1> SUFFICES ASSUME SettledInv, [Next]_vars PROVE SettledInv'
  OBVIOUS
<1>0. TypeInv' /\ TypeInv /\ Agent \in Agents /\ announced \subseteq Agents
  BY TypeNext, AgentInOrder DEF SettledInv, TypeInv, TypeOK
<1>a. \A d \in announced : life[d] = "DEAD" /\ d \in released /\ HeldBy(d) \subseteq late
  BY DEF SettledInv, Settled
<1>1. CASE Loop
  BY <1>0, <1>1, SettledLoop DEF SettledInv
<1>2. ASSUME NEW a \in Agents, NEW t \in Tasks, Claim(a, t) \/ CompleteOwn(a, t)
      PROVE  SettledInv'
  <2>1. UNCHANGED <<life, turn, pc, released, announced, legacies, index>>
    BY <1>2 DEF Claim, CompleteOwn, loopVars, deathVars, diskVars
  <2>2. \A d \in released : HeldBy(d) \subseteq late => HeldBy(d)' \subseteq late'
    BY <1>0, <1>2, ReleasedHoldLate
  <2>3. \A d \in announced : life'[d] = "DEAD" /\ HeldBy(d)' \subseteq late'
    BY <1>0, <1>a, <2>1, <2>2
  <2>4. Settled'
    BY <2>1, <2>3, SettledKeeps DEF SettledInv, Range
  <2>5. pc = "announce" => Agent \in released /\ HeldBy(Agent)' \subseteq late'
    <3>1. Agent' = Agent
      BY <2>1 DEF Agent
    <3>2. PICK d \in Agents : d = Agent
      BY <1>0
    <3>3. pc = "announce" => d \in released /\ HeldBy(d) \subseteq late
      BY <3>2 DEF SettledInv, PlaceInv
    <3>4. pc = "announce" => HeldBy(d)' \subseteq late'
      BY <2>2, <3>3
    <3> QED BY <3>1, <3>2, <3>3, <3>4 DEF HeldBy
  <2>6. PlaceInv'
    BY <2>1, <2>5 DEF SettledInv, PlaceInv, Agent, Range
  <2> QED BY <1>0, <2>4, <2>6 DEF SettledInv
<1>3. CASE Breaks
  <2>1. pc' = "broken" /\ UNCHANGED <<pool, life, released, late, announced, legacies, index>>
    BY <1>3 DEF Breaks, deathVars
  <2>2. Settled'
    BY <1>a, <2>1, SettledKeeps DEF SettledInv, HeldBy, Range
  <2> QED BY <1>0, <2>1, <2>2, PlaceAtRest DEF SettledInv
<1>4. CASE NewRun
  <2>1. pc' = "visit" /\ announced' = {}
    BY <1>4 DEF NewRun
  <2> QED BY <1>0, <2>1, PlaceAtRest DEF SettledInv, Settled
<1>5. CASE UNCHANGED vars
  BY <1>0, <1>5 DEF vars, loopVars, deathVars, diskVars, SettledInv, PlaceInv, Settled,
    HeldBy, Agent, Range
<1> QED BY <1>1, <1>2, <1>3, <1>4, <1>5 DEF Next

\* A death that has been logged to its end has a legacy and a line, and the dead
\* agent holds no claim it had when it was released.
THEOREM DeathsAreSettled == Spec => []DeathIsSettled
<1>1. SettledInv => DeathIsSettled
  BY DEF SettledInv, Settled, DeathIsSettled, IndexLoads
<1> QED BY <1>1, SettledInit, SettledNext, PTL DEF Spec

\* One step of the pool: a claim changes hands only through its owner's death.
Handover ==
  runs' = runs =>
    \A t \in Tasks :
      /\ pool[t].status = "completed" => pool'[t] = pool[t]
      /\ pool[t].status = "claimed" =>
           \/ pool'[t].claimedBy = pool[t].claimedBy
           \/ life[pool[t].claimedBy] = "DEAD" /\ pool'[t] = Available

LEMMA CompleteHandsOver ==
  ASSUME TypeInv, NEW t \in Tasks, pool' = Completed(t) PROVE Handover
<1>1. \A u \in Tasks : /\ pool'[u].claimedBy = pool[u].claimedBy
                       /\ pool[u].status = "completed" => pool'[u] = pool[u]
  BY DEF Completed, TypeInv, TypeOK, Claims
<1> QED BY <1>1 DEF Handover

LEMMA SettledHandsOver == ASSUME SettledInv, [Next]_vars PROVE Handover
<1>0. TypeInv /\ Agent \in Agents
  BY AgentInOrder DEF SettledInv, TypeInv
<1>1. CASE UNCHANGED pool
  BY <1>1 DEF Handover
<1>2. ASSUME NEW a \in Agents, NEW t \in Tasks, Claim(a, t) PROVE Handover
  <2>1. \A u \in Tasks : pool'[u] = IF u = t THEN [status |-> "claimed", claimedBy |-> a] ELSE pool[u]
    BY <1>0, <1>2 DEF Claim, TypeInv, TypeOK
  <2>2. pool[t].status = "available" \/ pool[t] = [status |-> "claimed", claimedBy |-> a]
    BY <1>2 DEF Claim, Offered
  <2> QED BY <2>1, <2>2 DEF Handover
<1>3. ASSUME NEW a \in Agents, NEW t \in Tasks, CompleteOwn(a, t) PROVE Handover
  BY <1>0, <1>3, CompleteHandsOver DEF CompleteOwn
<1>4. ASSUME NEW success \in BOOLEAN, Work(success) PROVE Handover
  <2>1. pool' = pool \/ pool' = Completed(Plan[(generation % Len(Plan)) + 1])
    BY <1>4 DEF Work
  <2> QED BY <1>0, <1>1, <2>1, PlanInTasks, CompleteHandsOver DEF TypeInv
<1>5. CASE FinishRecord
  <2>1. pool' = Released(Agent) /\ life[Agent] = "DEAD"
    BY <1>5 DEF FinishRecord, SettledInv, PlaceInv
  <2>2. \A t \in Tasks : pool'[t] = IF pool[t] = [status |-> "claimed", claimedBy |-> Agent]
                                    THEN Available ELSE pool[t]
    BY <2>1 DEF Released
  <2> QED BY <2>1, <2>2 DEF Handover
<1>6. CASE NewRun
  BY <1>0, <1>6 DEF NewRun, Handover, TypeInv, TypeOK
<1>7. SkipDead \/ (\E pays \in BOOLEAN : Upkeep(pays)) \/ WriteLegacy \/ BeginRecord
        \/ Announce \/ Breaks \/ (\E sleeps \in BOOLEAN : MaybeEvolve(sleeps))
      => UNCHANGED pool
  BY DEF SkipDead, Upkeep, WriteLegacy, BeginRecord, Announce, Breaks, MaybeEvolve
<1> QED BY <1>1, <1>2, <1>3, <1>4, <1>5, <1>6, <1>7 DEF Next, Loop, vars

\* A claim passes to another agent only after its owner is dead, and what is
\* completed stays so, whoever completed it.
THEOREM ClaimsPassOnDeath == Spec => ClaimsAreKept
<1>1. SettledInv /\ [Next]_vars => [Handover]_vars
  BY SettledHandsOver
<1> QED BY <1>1, SettledInit, SettledNext, PTL DEF Spec, ClaimsAreKept, Handover
-----------------------------------------------------------------------------
(* Memory. *)

LEMMA RangeOfAppend ==
  ASSUME NEW S, NEW s \in Seq(S), NEW x \in S
  PROVE  Range(Append(s, x)) = Range(s) \cup {x}
<1>1. DOMAIN Append(s, x) = 1..(Len(s) + 1) /\ DOMAIN s = 1..Len(s) /\ Len(s) \in Nat
  OBVIOUS
<1>2. \A k \in 1..Len(s) : Append(s, x)[k] = s[k]
  OBVIOUS
<1>3. Append(s, x)[Len(s) + 1] = x
  OBVIOUS
<1> QED BY <1>1, <1>2, <1>3 DEF Range

LEMMA RangeOfTail ==
  ASSUME NEW S, NEW s \in Seq(S), s # <<>>
  PROVE  Range(s) = {Head(s)} \cup Range(Tail(s)) /\ Head(s) \in S /\ Tail(s) \in Seq(S)
<1>1. DOMAIN Tail(s) = 1..(Len(s) - 1) /\ DOMAIN s = 1..Len(s) /\ Len(s) \in Nat \ {0}
  OBVIOUS
<1>2. \A k \in 1..(Len(s) - 1) : Tail(s)[k] = s[k + 1]
  OBVIOUS
<1>3. Head(s) = s[1] /\ Head(s) \in S /\ Tail(s) \in Seq(S)
  OBVIOUS
<1>4. Range(s) \subseteq {Head(s)} \cup Range(Tail(s))
  <2> SUFFICES ASSUME NEW k \in 1..Len(s), k # 1 PROVE s[k] \in Range(Tail(s))
    BY <1>1, <1>3 DEF Range
  <2>1. k - 1 \in 1..(Len(s) - 1) /\ Tail(s)[k - 1] = s[k]
    BY <1>1, <1>2
  <2> QED BY <2>1, <1>1 DEF Range
<1>5. {Head(s)} \cup Range(Tail(s)) \subseteq Range(s)
  BY <1>1, <1>2, <1>3 DEF Range
<1> QED BY <1>3, <1>4, <1>5

LEMMA RangeIn == ASSUME NEW S, NEW s \in Seq(S) PROVE Range(s) \subseteq S
  BY DEF Range

LEMMA TypedByElements ==
  ASSUME NEW S, NEW T, NEW s \in Seq(S), \A k \in 1..Len(s) : s[k] \in T PROVE s \in Seq(T)
<1>1. s = [k \in 1..Len(s) |-> s[k]] /\ Len(s) \in Nat
  OBVIOUS
<1>2. [k \in 1..Len(s) |-> s[k]] \in Seq(T)
  BY <1>1
<1> QED BY <1>1, <1>2

LEMMA JoinedSeq ==
  ASSUME NEW S, NEW s \in Seq(S), NEW r \in Seq(S)
  PROVE  /\ s \o r \in Seq(S) /\ DOMAIN (s \o r) = 1..(Len(s) + Len(r))
         /\ Len(s) \in Nat /\ Len(r) \in Nat
         /\ \A k \in 1..(Len(s) + Len(r)) :
              /\ k <= Len(s) => (s \o r)[k] = s[k]
              /\ k > Len(s) => (s \o r)[k] = r[k - Len(s)] /\ k - Len(s) \in 1..Len(r)
<1>1. s \o r \in Seq(S) /\ Len(s \o r) = Len(s) + Len(r) /\ Len(s) \in Nat /\ Len(r) \in Nat
  BY ConcatProperties, LenProperties
<1>2. \A k \in 1..(Len(s) + Len(r)) : (s \o r)[k] = IF k <= Len(s) THEN s[k] ELSE r[k - Len(s)]
  BY <1>1, ConcatProperties
<1>3. DOMAIN (s \o r) = 1..(Len(s) + Len(r))
  BY <1>1, LenProperties
<1> QED BY <1>1, <1>2, <1>3

LEMMA JoinedElement ==
  ASSUME NEW S, NEW s \in Seq(S), NEW r \in Seq(S), NEW k \in DOMAIN (s \o r)
  PROVE  (s \o r)[k] \in Range(s) \cup Range(r)
<1> DEFINE m == Len(s)
           n == Len(r)
<1>1. /\ m \in Nat /\ n \in Nat /\ k \in 1..(m + n)
      /\ k <= m => (s \o r)[k] = s[k]
      /\ k > m => (s \o r)[k] = r[k - m] /\ k - m \in 1..n
  BY JoinedSeq
<1>2. DOMAIN s = 1..m /\ DOMAIN r = 1..n
  OBVIOUS
<1> HIDE DEF m, n
<1>3. CASE k <= m
  BY <1>1, <1>2, <1>3 DEF Range
<1>4. CASE k > m
  BY <1>1, <1>2, <1>4 DEF Range
<1> QED BY <1>1, <1>3, <1>4

LEMMA FrontIn ==
  ASSUME NEW S, NEW s \in Seq(S), s # <<>>
  PROVE  /\ Front(s) \in Seq(S) /\ Len(Front(s)) = Len(s) - 1
         /\ \A k \in 1..(Len(s) - 1) : Front(s)[k] = s[k]
<1> DEFINE n == Len(s) - 1
<1>1. n \in Nat /\ \A k \in 1..n : s[k] \in S
  OBVIOUS
<1> HIDE DEF n
<1>2. /\ SubSeq(s, 1, n) \in Seq(S)
      /\ Len(SubSeq(s, 1, n)) = IF 1 <= n THEN n - 1 + 1 ELSE 0
      /\ \A k \in 1..(n - 1 + 1) : SubSeq(s, 1, n)[k] = s[1 + k - 1]
  BY <1>1, SubSeqProperties
<1>3. Len(SubSeq(s, 1, n)) = n /\ n - 1 + 1 = n /\ \A k \in 1..n : 1 + k - 1 = k
  BY <1>1, <1>2
<1>4. \A k \in 1..n : SubSeq(s, 1, n)[k] = s[k]
  BY <1>2, <1>3
<1>5. Front(s) = SubSeq(s, 1, n)
  BY DEF Front, n
<1> QED BY <1>2, <1>3, <1>4, <1>5 DEF n

\* What a crash leaves in a file is no memory.
LEMMA DamageIsNoMemory == Torn \notin Memories /\ Fragment \notin Memories
<1> SUFFICES ASSUME NEW m \in Memories PROVE m # Torn /\ m # Fragment
  OBVIOUS
<1>1. m.id \in 1..MaxMemories /\ MaxMemories \in Nat
  BY MemoryAssumption DEF Memories
<1>2. Torn.id = -1 /\ Fragment.id = 0
  BY DEF Torn, Fragment
<1> QED BY <1>1, <1>2

------------------------------------------------------------------------------
(* The stores and their files. *)

StoreOK ==
  /\ store \in [Owners -> Seq(Memories)] /\ recorded \in [Owners -> 0..MaxMemories]
  /\ files \in [DOMAIN Files -> Seq(Lines)]
  /\ saving = NoSave \/ saving \in [file : DOMAIN Files, left : Seq(Memories), all : Seq(Memories)]
  /\ saved \in [DOMAIN Files -> SUBSET Memories]
  /\ \A f \in DOMAIN Files : \A k \in 1..(Len(files[f]) - 1) : files[f][k] # Fragment

\* A store is one agent's; what a save is writing is in its file or still to come,
\* unless the file is damaged, and so is what earlier saves have written.
Damaged(f) == {Torn, Fragment} \cap Range(files[f]) # {}

FileInv ==
  /\ \A f \in DOMAIN Files : Damaged(f) \/ saved[f] \subseteq Range(files[f])
  /\ saving # NoSave =>
       Damaged(saving.file) \/ Range(saving.all) \subseteq Range(files[saving.file]) \cup Range(saving.left)

StoreInv == StoreOK /\ MemoryIsIndividual /\ FileInv

LEMMA StoreInit == MemoryInit => StoreInv
<1> SUFFICES ASSUME MemoryInit PROVE StoreInv
  OBVIOUS
<1>1. StoreOK
  BY MemoryAssumption DEF MemoryInit, StoreOK
<1>2. MemoryIsIndividual
  BY DEF MemoryInit, MemoryIsIndividual
<1>3. FileInv
  BY DEF MemoryInit, FileInv
<1> QED BY <1>1, <1>2, <1>3 DEF StoreInv

LEMMA StoreStutter == ASSUME StoreInv, UNCHANGED storeVars PROVE StoreInv'
  BY DEF StoreInv, StoreOK, MemoryIsIndividual, FileInv, Damaged, storeVars

LEMMA RecordKeeps == ASSUME StoreInv, NEW a \in Owners, Record(a) PROVE StoreInv'
<1> DEFINE m == [agent |-> a, id |-> recorded[a] + 1]
<1>1. recorded[a] + 1 \in 1..MaxMemories /\ recorded'[a] = recorded[a] + 1
      /\ recorded' \in [Owners -> 0..MaxMemories]
  BY MemoryAssumption DEF StoreInv, StoreOK, Record
<1>2. m \in Memories /\ m.agent = a
  BY <1>1 DEF Memories
<1>3. store' = [store EXCEPT ![a] = Append(store[a], m)]
  BY <1>1 DEF Record
<1>4. Append(store[a], m) \in Seq(Memories) /\ store' \in [Owners -> Seq(Memories)]
  BY <1>2, <1>3 DEF StoreInv, StoreOK
<1>5. StoreOK'
  BY <1>1, <1>4 DEF StoreInv, StoreOK, Record
<1>6. MemoryIsIndividual'
  <2> SUFFICES ASSUME NEW b \in Owners, NEW k \in DOMAIN store'[b] PROVE store'[b][k].agent = b
    BY DEF MemoryIsIndividual
  <2>1. CASE b # a
    BY <2>1, <1>3 DEF StoreInv, StoreOK, MemoryIsIndividual
  <2>2. CASE b = a
    <3>1. store'[b] = Append(store[a], m) /\ store[a] \in Seq(Memories)
      BY <2>2, <1>3 DEF StoreInv, StoreOK
    <3>2. k \in 1..(Len(store[a]) + 1)
      BY <3>1
    <3>3. CASE k = Len(store[a]) + 1
      BY <3>1, <3>3, <2>2, <1>2
    <3>4. CASE k \in 1..Len(store[a])
      BY <3>1, <3>4, <2>2 DEF StoreInv, MemoryIsIndividual
    <3> QED BY <3>1, <3>2, <3>3, <3>4
  <2> QED BY <2>1, <2>2
<1>7. FileInv'
  BY DEF StoreInv, FileInv, Damaged, Record
<1> QED BY <1>5, <1>6, <1>7 DEF StoreInv

LEMMA BeginSaveKeeps ==
  ASSUME StoreInv, NEW a \in Owners, NEW f \in DOMAIN Files, BeginSave(a, f) PROVE StoreInv'
<1>1. saving' = [file |-> f, left |-> store[a], all |-> store[a]]
      /\ store[a] \in Seq(Memories)
  BY DEF BeginSave, StoreInv, StoreOK
<1>2. StoreOK'
  BY <1>1 DEF BeginSave, StoreInv, StoreOK
<1>3. MemoryIsIndividual'
  BY DEF BeginSave, StoreInv, MemoryIsIndividual
<1>4. FileInv'
  BY <1>1 DEF BeginSave, StoreInv, FileInv, Damaged
<1> QED BY <1>2, <1>3, <1>4 DEF StoreInv

\* A file after one more line, or with its fragment turned into a torn line.
LEMMA WriteLineKeeps == ASSUME StoreInv, WriteLine PROVE StoreInv'
<1> DEFINE f == saving.file
           file == files[f]
           next == IF file # <<>> /\ Last(file) = Fragment
                   THEN Append(Front(file), Torn) ELSE Append(file, Head(saving.left))
<1>1. /\ saving \in [file : DOMAIN Files, left : Seq(Memories), all : Seq(Memories)]
      /\ f \in DOMAIN Files /\ file \in Seq(Lines) /\ saving.left # <<>>
      /\ saving.left \in Seq(Memories)
  BY DEF WriteLine, StoreInv, StoreOK
<1>2. files' = [files EXCEPT ![f] = next] /\ files'[f] = next
      /\ \A g \in DOMAIN Files : g # f => files'[g] = files[g]
  BY <1>1 DEF WriteLine, StoreInv, StoreOK
<1>3. saving' = [saving EXCEPT !.left = Tail(saving.left)]
      /\ saving'.file = f /\ saving'.all = saving.all /\ saving'.left = Tail(saving.left)
  BY <1>1 DEF WriteLine
<1>4. /\ Range(saving.left) = {Head(saving.left)} \cup Range(Tail(saving.left))
      /\ Head(saving.left) \in Memories /\ Tail(saving.left) \in Seq(Memories)
  BY <1>1, RangeOfTail
<1>5. Torn \in Lines /\ Head(saving.left) \in Lines
  BY <1>4 DEF Lines
<1>6. CASE file # <<>> /\ Last(file) = Fragment
  <2>1. /\ Front(file) \in Seq(Lines) /\ Len(Front(file)) = Len(file) - 1
        /\ \A k \in 1..(Len(file) - 1) : Front(file)[k] = file[k]
    BY <1>1, <1>6, FrontIn
  <2>2. next = Append(Front(file), Torn) /\ next \in Seq(Lines)
        /\ Len(next) = Len(file) /\ \A k \in 1..(Len(next) - 1) : next[k] = file[k]
    BY <1>5, <1>6, <2>1
  <2>3. Torn \in Range(next)
    BY <2>1, <2>2, <1>5, RangeOfAppend
  <2>4. Damaged(f)'
    BY <2>3, <1>2, <1>3 DEF Damaged
  <2>5. StoreOK'
    <3>1. files' \in [DOMAIN Files -> Seq(Lines)]
      BY <1>2, <2>2 DEF StoreInv, StoreOK
    <3>2. \A g \in DOMAIN Files : \A k \in 1..(Len(files'[g]) - 1) : files'[g][k] # Fragment
      <4> SUFFICES ASSUME NEW g \in DOMAIN Files, NEW k \in 1..(Len(files'[g]) - 1)
                   PROVE  files'[g][k] # Fragment
        OBVIOUS
      <4>1. CASE g = f
        BY <4>1, <1>1, <1>2, <2>2 DEF StoreInv, StoreOK
      <4>2. CASE g # f
        BY <4>2, <1>2 DEF StoreInv, StoreOK
      <4> QED BY <4>1, <4>2
    <3> QED BY <1>1, <1>3, <1>4, <3>1, <3>2 DEF WriteLine, StoreInv, StoreOK
  <2>6. FileInv'
    BY <1>2, <1>3, <2>4 DEF WriteLine, StoreInv, FileInv, Damaged
  <2> QED BY <2>5, <2>6 DEF WriteLine, StoreInv, MemoryIsIndividual
<1>7. CASE ~(file # <<>> /\ Last(file) = Fragment)
  <2>1. next = Append(file, Head(saving.left)) /\ next \in Seq(Lines)
        /\ Len(next) = Len(file) + 1 /\ \A k \in 1..Len(file) : next[k] = file[k]
    BY <1>1, <1>5, <1>7
  <2>2. Range(next) = Range(file) \cup {Head(saving.left)}
    <3>1. file \in Seq(Lines) /\ Head(saving.left) \in Lines
      BY <1>1, <1>5
    <3> HIDE DEF file
    <3>2. Range(Append(file, Head(saving.left))) = Range(file) \cup {Head(saving.left)}
      BY <3>1, RangeOfAppend
    <3> QED BY <2>1, <3>2
  <2>3. StoreOK'
    <3>1. files' \in [DOMAIN Files -> Seq(Lines)]
      BY <1>2, <2>1 DEF StoreInv, StoreOK
    <3>2. \A k \in 1..Len(file) : file[k] # Fragment
      <4> SUFFICES ASSUME NEW k \in 1..Len(file) PROVE file[k] # Fragment
        OBVIOUS
      <4>1. CASE k = Len(file)
        BY <4>1, <1>1, <1>7 DEF Last
      <4>2. CASE k # Len(file)
        BY <4>2, <1>1 DEF StoreInv, StoreOK
      <4> QED BY <4>1, <4>2
    <3>3. \A g \in DOMAIN Files : \A k \in 1..(Len(files'[g]) - 1) : files'[g][k] # Fragment
      <4> SUFFICES ASSUME NEW g \in DOMAIN Files, NEW k \in 1..(Len(files'[g]) - 1)
                   PROVE  files'[g][k] # Fragment
        OBVIOUS
      <4>1. CASE g = f
        BY <4>1, <1>1, <1>2, <2>1, <3>2
      <4>2. CASE g # f
        BY <4>2, <1>2 DEF StoreInv, StoreOK
      <4> QED BY <4>1, <4>2
    <3> QED BY <1>1, <1>3, <1>4, <3>1, <3>3 DEF WriteLine, StoreInv, StoreOK
  <2>4. FileInv'
    <3>1. \A g \in DOMAIN Files : Range(files[g]) \subseteq Range(files'[g])
      BY <1>2, <2>2
    <3>2. \A g \in DOMAIN Files : Damaged(g) => Damaged(g)'
      BY <3>1 DEF Damaged
    <3>3. \A g \in DOMAIN Files : Damaged(g)' \/ saved'[g] \subseteq Range(files'[g])
      BY <3>1, <3>2 DEF WriteLine, StoreInv, FileInv
    <3>4. Damaged(f)' \/ Range(saving.all) \subseteq Range(files'[f]) \cup Range(Tail(saving.left))
      BY <1>1, <1>2, <1>4, <2>2, <3>1, <3>2 DEF WriteLine, StoreInv, FileInv
    <3> QED BY <1>3, <3>3, <3>4 DEF FileInv, Damaged
  <2> QED BY <2>3, <2>4 DEF WriteLine, StoreInv, MemoryIsIndividual
<1> QED BY <1>6, <1>7

LEMMA EndSaveKeeps == ASSUME StoreInv, EndSave PROVE StoreInv'
<1> DEFINE f == saving.file
<1>1. /\ saving \in [file : DOMAIN Files, left : Seq(Memories), all : Seq(Memories)]
      /\ f \in DOMAIN Files /\ saving.left = <<>>
  BY DEF EndSave, StoreInv, StoreOK
<1>2. saved' = [saved EXCEPT ![f] = saved[f] \cup Range(saving.all)] /\ saving' = NoSave
  BY DEF EndSave
<1>3. Range(saving.all) \subseteq Memories /\ Range(saving.left) = {}
  BY <1>1, RangeIn DEF Range
<1>4. StoreOK'
  BY <1>1, <1>2, <1>3 DEF EndSave, StoreInv, StoreOK
<1>5. Damaged(f) \/ saved'[f] \subseteq Range(files[f])
  BY <1>1, <1>2, <1>3 DEF EndSave, StoreInv, StoreOK, FileInv
<1>6. FileInv'
  <2> HIDE DEF f
  <2>1. \A g \in DOMAIN Files : Damaged(g) \/ saved'[g] \subseteq Range(files[g])
    BY <1>1, <1>2, <1>5 DEF StoreInv, StoreOK, FileInv
  <2> QED BY <1>2, <2>1 DEF EndSave, FileInv, Damaged
<1> QED BY <1>4, <1>6 DEF EndSave, StoreInv, MemoryIsIndividual

LEMMA LoadKeeps ==
  ASSUME StoreInv, NEW a \in Owners, NEW f \in DOMAIN Files, Load(a, f) PROVE StoreInv'
<1>1. files[f] \in Seq(Lines) /\ store[a] \in Seq(Memories) /\ Range(files[f]) \subseteq Memories
      /\ \A k \in DOMAIN files[f] : files[f][k].agent = a
  BY DEF StoreInv, StoreOK, Load, Loads, Range
<1>2. files[f] \in Seq(Memories)
  <2>1. \A k \in 1..Len(files[f]) : files[f][k] \in Memories
    BY <1>1 DEF Range
  <2> QED BY <1>1, <2>1, TypedByElements
<1>3. store' = [store EXCEPT ![a] = store[a] \o files[f]]
  BY DEF Load
<1>4. store[a] \o files[f] \in Seq(Memories) /\ store' \in [Owners -> Seq(Memories)]
  BY <1>1, <1>2, <1>3 DEF StoreInv, StoreOK
<1>5. StoreOK'
  BY <1>4 DEF StoreInv, StoreOK, Load
<1>6. MemoryIsIndividual'
  <2> SUFFICES ASSUME NEW b \in Owners, NEW k \in DOMAIN store'[b] PROVE store'[b][k].agent = b
    BY DEF MemoryIsIndividual
  <2>1. CASE b # a
    BY <2>1, <1>3 DEF StoreInv, StoreOK, MemoryIsIndividual
  <2>2. CASE b = a
    <3>1. store'[b] = store[a] \o files[f]
      BY <2>2, <1>3 DEF StoreInv, StoreOK
    <3>2. store'[b][k] \in Range(store[a]) \cup Range(files[f])
      BY <1>1, <1>2, <3>1, JoinedElement
    <3>3. \A m \in Range(store[a]) : m.agent = a
      BY DEF Range, StoreInv, MemoryIsIndividual
    <3>4. \A m \in Range(files[f]) : m.agent = a
      BY <1>1 DEF Range
    <3> QED BY <2>2, <3>2, <3>3, <3>4
  <2> QED BY <2>1, <2>2
<1>7. FileInv'
  BY DEF StoreInv, FileInv, Damaged, Load
<1> QED BY <1>5, <1>6, <1>7 DEF StoreInv

LEMMA RestartKeeps == ASSUME StoreInv, Restart PROVE StoreInv'
<1>0. /\ store' = [a \in Owners |-> <<>>] /\ saving' = NoSave
      /\ recorded' = recorded /\ saved' = saved
  BY DEF Restart
<1>a. MemoryIsIndividual'
  BY <1>0 DEF MemoryIsIndividual
<1>b. store' \in [Owners -> Seq(Memories)]
  BY <1>0
<1>1. CASE UNCHANGED files
  <2>1. StoreOK'
    BY <1>0, <1>b, <1>1 DEF StoreInv, StoreOK
  <2>2. FileInv'
    BY <1>0, <1>1 DEF StoreInv, FileInv, Damaged
  <2> QED BY <1>a, <2>1, <2>2 DEF StoreInv
<1>2. CASE /\ saving # NoSave
           /\ files' = [files EXCEPT ![saving.file] =
                          IF @ # <<>> /\ Last(@) = Fragment THEN @ ELSE Append(@, Fragment)]
  <2> DEFINE f == saving.file
             file == files[f]
  <2>1. f \in DOMAIN Files /\ file \in Seq(Lines) /\ Fragment \in Lines /\ Len(file) \in Nat
    BY <1>2 DEF StoreInv, StoreOK, Lines
  <2>2. CASE file # <<>> /\ Last(file) = Fragment
    <3>1. files' = files
      BY <1>2, <2>1, <2>2 DEF StoreInv, StoreOK
    <3> QED BY <1>1, <3>1
  <2>3. CASE ~(file # <<>> /\ Last(file) = Fragment)
    <3>1. files' = [files EXCEPT ![f] = Append(file, Fragment)]
      BY <1>2, <2>3
    <3>2. \A k \in 1..Len(file) : file[k] # Fragment
      <4> SUFFICES ASSUME NEW k \in 1..Len(file) PROVE file[k] # Fragment
        OBVIOUS
      <4>1. CASE k = Len(file)
        BY <4>1, <2>1, <2>3 DEF Last
      <4>2. CASE k # Len(file)
        BY <4>2, <2>1 DEF StoreInv, StoreOK
      <4> QED BY <4>1, <4>2
    <3>3. Append(file, Fragment) \in Seq(Lines) /\ Len(Append(file, Fragment)) = Len(file) + 1
          /\ \A k \in 1..Len(file) : Append(file, Fragment)[k] = file[k]
      BY <2>1
    <3>4. Range(Append(file, Fragment)) = Range(file) \cup {Fragment}
      <4> HIDE DEF file
      <4> QED BY <2>1, RangeOfAppend
    <3>5. files' \in [DOMAIN Files -> Seq(Lines)]
          /\ \A g \in DOMAIN Files : files'[g] = IF g = f THEN Append(file, Fragment) ELSE files[g]
      BY <2>1, <3>1, <3>3 DEF StoreInv, StoreOK
    <3>6. \A g \in DOMAIN Files : \A k \in 1..(Len(files'[g]) - 1) : files'[g][k] # Fragment
      <4> SUFFICES ASSUME NEW g \in DOMAIN Files, NEW k \in 1..(Len(files'[g]) - 1)
                   PROVE  files'[g][k] # Fragment
        OBVIOUS
      <4>1. CASE g = f
        <5>1. files'[g] = Append(file, Fragment)
          BY <4>1, <3>5
        <5>2. k \in 1..Len(file)
          BY <5>1, <2>1, <3>3
        <5> HIDE DEF file
        <5> QED BY <5>1, <5>2, <3>2, <3>3
      <4>2. CASE g # f
        BY <4>2, <3>5 DEF StoreInv, StoreOK
      <4> QED BY <4>1, <4>2
    <3>7. StoreOK'
      BY <1>0, <1>b, <3>5, <3>6 DEF StoreInv, StoreOK
    <3>8. \A g \in DOMAIN Files : Range(files[g]) \subseteq Range(files'[g])
      BY <3>4, <3>5
    <3>9. FileInv'
      BY <1>0, <3>8 DEF StoreInv, FileInv, Damaged
    <3> QED BY <1>a, <3>7, <3>9 DEF StoreInv
  <2> QED BY <2>2, <2>3
<1> QED BY <1>1, <1>2 DEF Restart

LEMMA StoreStep == StoreInv /\ [MemoryNext]_memoryVars => StoreInv'
<1> SUFFICES ASSUME StoreInv, [MemoryNext]_memoryVars PROVE StoreInv'
  OBVIOUS
<1>1. CASE UNCHANGED storeVars
  BY <1>1, StoreStutter
<1>2. CASE \E a \in Owners : Record(a)
  BY <1>2, RecordKeeps
<1>3. CASE \E a \in Owners, f \in DOMAIN Files : BeginSave(a, f) \/ Load(a, f)
  BY <1>3, BeginSaveKeeps, LoadKeeps
<1>4. CASE WriteLine
  BY <1>4, WriteLineKeeps
<1>5. CASE EndSave
  BY <1>5, EndSaveKeeps
<1>6. CASE Restart
  BY <1>6, RestartKeeps
<1>7. CASE \E c \in DOMAIN Candidates :
             Create(c) \/ \E t \in VerifyTasks, succeeded \in BOOLEAN : Verify(c, t, succeeded)
  BY <1>7, <1>1 DEF Create, Verify
<1>8. CASE UNCHANGED memoryVars
  BY <1>8, <1>1 DEF memoryVars
<1> QED BY <1>2, <1>3, <1>4, <1>5, <1>6, <1>7, <1>8 DEF MemoryNext

\* A store never holds a memory of another agent, whatever agents save to one
\* file (IndividualMemoryStore.load).
THEOREM MemoriesAreOwn == MemorySpec => []MemoryIsIndividual
<1>1. MemoryInit => StoreInv
  BY StoreInit
<1>2. StoreInv /\ [MemoryNext]_memoryVars => StoreInv'
  BY StoreStep
<1>3. StoreInv => MemoryIsIndividual
  BY DEF StoreInv
<1> QED BY <1>1, <1>2, <1>3, PTL DEF MemorySpec

\* A file that loads has every memory that a save reported as written; a crash in
\* a save damages the file for good (IndividualMemoryStore.save and load).
THEOREM SavedIsRestored == MemorySpec => []LoadRestoresSaved
<1>1. MemoryInit => StoreInv
  BY StoreInit
<1>2. StoreInv /\ [MemoryNext]_memoryVars => StoreInv'
  BY StoreStep
<1>3. StoreInv => LoadRestoresSaved
  <2> SUFFICES ASSUME StoreInv, NEW a \in Owners, NEW f \in DOMAIN Files, Loads(a, f)
               PROVE  saved[f] \subseteq Range(files[f])
    BY DEF LoadRestoresSaved
  <2>1. Range(files[f]) \subseteq Memories
    BY DEF Loads
  <2>2. ~Damaged(f)
    BY <2>1, DamageIsNoMemory DEF Damaged
  <2> QED BY <2>2 DEF StoreInv, FileInv
<1> QED BY <1>1, <1>2, <1>3, PTL DEF MemorySpec

------------------------------------------------------------------------------
(* The registry. *)

\* A candidate's verifiers are the tasks that passed, each once and each one of its
\* own; its status counts them.
Account(c) ==
  /\ registry[c].by \in Seq(Candidates[c])
  /\ \A j, k \in DOMAIN registry[c].by : registry[c].by[j] = registry[c].by[k] => j = k
  /\ \A t : t \in Range(registry[c].by) <=> <<c, t>> \in passed
  /\ registry[c].status = IF Len(registry[c].by) >= 2 THEN "verified" ELSE "candidate"

RegistryInv ==
  /\ DOMAIN registry \subseteq DOMAIN Candidates
  /\ \A c \in DOMAIN registry : Account(c)
  /\ passed \subseteq (DOMAIN registry) \X VerifyTasks

LEMMA RegistryInit == MemoryInit => RegistryInv
  BY DEF MemoryInit, RegistryInv, Account

LEMMA RegistryStutter == ASSUME RegistryInv, UNCHANGED pluginVars PROVE RegistryInv'
  BY DEF RegistryInv, Account, pluginVars

LEMMA CreateKeeps == ASSUME RegistryInv, NEW c \in DOMAIN Candidates, Create(c) PROVE RegistryInv'
<1>1. /\ c \notin DOMAIN registry /\ passed' = passed
      /\ registry' = [d \in DOMAIN registry \cup {c} |->
                        IF d = c THEN [by |-> <<>>, status |-> "candidate"] ELSE registry[d]]
  BY DEF Create, Put
<1>2. Account(c)'
  <2>1. registry'[c].by = <<>> /\ registry'[c].status = "candidate"
    BY <1>1
  <2>2. \A t : <<c, t>> \notin passed
    BY <1>1 DEF RegistryInv
  <2>3. <<>> \in Seq(Candidates[c]) /\ DOMAIN <<>> = {} /\ Len(<<>>) = 0
    OBVIOUS
  <2>4. registry'[c].by \in Seq(Candidates[c]) /\ DOMAIN registry'[c].by = {} /\ Range(registry'[c].by) = {}
    BY <2>1, <2>3 DEF Range
  <2>5. registry'[c].status = IF Len(registry'[c].by) >= 2 THEN "verified" ELSE "candidate"
    BY <2>1, <2>3
  <2>6. \A u : u \in Range(registry'[c].by) <=> <<c, u>> \in passed'
    BY <1>1, <2>2, <2>4
  <2> QED BY <2>4, <2>5, <2>6 DEF Account
<1>3. \A d \in DOMAIN registry : Account(d)'
  BY <1>1 DEF RegistryInv, Account
<1> QED BY <1>1, <1>2, <1>3 DEF RegistryInv

LEMMA VerifyKeeps ==
  ASSUME RegistryInv, NEW c \in DOMAIN Candidates, NEW t \in VerifyTasks,
         NEW succeeded \in BOOLEAN, Verify(c, t, succeeded)
  PROVE  RegistryInv'
<1> DEFINE by   == registry[c].by
           next == Verifiers(by, t, succeeded)
<1>1. /\ c \in DOMAIN registry /\ t \in Candidates[c] /\ Account(c)
      /\ registry' = [d \in DOMAIN registry \cup {c} |->
                        IF d = c
                        THEN [by |-> next,
                              status |-> IF Len(next) >= 2 THEN "verified" ELSE "candidate"]
                        ELSE registry[d]]
      /\ passed' = IF succeeded THEN passed \cup {<<c, t>>} ELSE passed
  BY DEF Verify, Put, RegistryInv
<1>2. /\ DOMAIN registry' = DOMAIN registry /\ registry'[c].by = next
      /\ registry'[c].status = IF Len(next) >= 2 THEN "verified" ELSE "candidate"
      /\ \A d \in DOMAIN registry : d # c => registry'[d] = registry[d]
  BY <1>1
<1>3. /\ by \in Seq(Candidates[c])
      /\ \A u : u \in Range(by) <=> <<c, u>> \in passed
      /\ \A j, k \in DOMAIN by : by[j] = by[k] => j = k
  BY <1>1 DEF Account
<1>4. /\ next \in Seq(Candidates[c])
      /\ \A j, k \in DOMAIN next : next[j] = next[k] => j = k
      /\ Range(next) = IF succeeded THEN Range(by) \cup {t} ELSE Range(by)
  <2>1. CASE succeeded /\ t \notin Range(by)
    <3>1. next = Append(by, t)
      BY <2>1 DEF Verifiers
    <3> HIDE DEF by, next
    <3>2. /\ Len(by) \in Nat /\ DOMAIN by = 1..Len(by) /\ next \in Seq(Candidates[c])
          /\ DOMAIN next = 1..(Len(by) + 1) /\ next[Len(by) + 1] = t
          /\ \A k \in 1..Len(by) : next[k] = by[k]
      BY <3>1, <1>1, <1>3
    <3>3. \A k \in 1..Len(by) : by[k] # t
      BY <2>1, <3>2 DEF Range
    <3>4. \A j, k \in DOMAIN next : next[j] = next[k] => j = k
      BY <3>2, <3>3, <1>3
    <3>5. Range(next) = Range(by) \cup {t}
      BY <3>1, <1>1, <1>3, RangeOfAppend
    <3> QED BY <2>1, <3>2, <3>4, <3>5
  <2>2. CASE ~(succeeded /\ t \notin Range(by))
    <3>1. next = by
      BY <2>2 DEF Verifiers
    <3> QED BY <2>2, <3>1, <1>3
  <2> QED BY <2>1, <2>2
<1> HIDE DEF by, next
<1>5. Account(c)'
  <2>1. \A u : u \in Range(next) <=> <<c, u>> \in passed'
    <3>1. CASE succeeded
      BY <3>1, <1>1, <1>3, <1>4
    <3>2. CASE ~succeeded
      BY <3>2, <1>1, <1>3, <1>4
    <3> QED BY <3>1, <3>2
  <2> QED BY <1>2, <1>4, <2>1 DEF Account
<1>6. \A d \in DOMAIN registry : Account(d)'
  <2> SUFFICES ASSUME NEW d \in DOMAIN registry, d # c PROVE Account(d)'
    BY <1>5
  <2>1. Account(d) /\ registry'[d] = registry[d]
    BY <1>2 DEF RegistryInv
  <2>2. \A u : <<d, u>> \in passed' <=> <<d, u>> \in passed
    BY <1>1
  <2> QED BY <2>1, <2>2 DEF Account
<1>7. passed' \subseteq (DOMAIN registry) \X VerifyTasks
  BY <1>1 DEF RegistryInv
<1> QED BY <1>2, <1>6, <1>7 DEF RegistryInv

LEMMA RegistryStep == RegistryInv /\ [MemoryNext]_memoryVars => RegistryInv'
<1> SUFFICES ASSUME RegistryInv, [MemoryNext]_memoryVars PROVE RegistryInv'
  OBVIOUS
<1>1. CASE UNCHANGED pluginVars
  BY <1>1, RegistryStutter
<1>2. CASE \E a \in Owners : Record(a)
  BY <1>2, <1>1 DEF Record
<1>3. CASE \E a \in Owners, f \in DOMAIN Files : BeginSave(a, f) \/ Load(a, f)
  BY <1>3, <1>1 DEF BeginSave, Load
<1>4. CASE WriteLine \/ EndSave
  BY <1>4, <1>1 DEF WriteLine, EndSave
<1>5. CASE Restart
  BY <1>5 DEF Restart, RegistryInv, Account
<1>6. CASE \E c \in DOMAIN Candidates :
             Create(c) \/ \E t \in VerifyTasks, succeeded \in BOOLEAN : Verify(c, t, succeeded)
  BY <1>6, CreateKeeps, VerifyKeeps
<1>7. CASE UNCHANGED memoryVars
  BY <1>7, <1>1 DEF memoryVars
<1> QED BY <1>2, <1>3, <1>4, <1>5, <1>6, <1>7 DEF MemoryNext

\* A plugin is verified exactly when two different tasks it was to be verified on
\* have passed, for any candidates and verdicts (recordVerification).
THEOREM PromotionIsEarned == MemorySpec => []VerifiedIsEarned
<1>1. MemoryInit => RegistryInv
  BY RegistryInit
<1>2. RegistryInv /\ [MemoryNext]_memoryVars => RegistryInv'
  BY RegistryStep
<1>3. RegistryInv => VerifiedIsEarned
  <2> SUFFICES ASSUME RegistryInv, NEW c \in DOMAIN registry
               PROVE  registry[c].status = "verified" <=>
                        \E t, u \in Candidates[c] : t # u /\ {<<c, t>>, <<c, u>>} \subseteq passed
    BY DEF VerifiedIsEarned, VerifiedPlugins
  <2> DEFINE by == registry[c].by
  <2>1. /\ by \in Seq(Candidates[c])
        /\ \A u : u \in Range(by) <=> <<c, u>> \in passed
        /\ \A j, k \in DOMAIN by : by[j] = by[k] => j = k
        /\ registry[c].status = "verified" <=> Len(by) >= 2
    BY DEF RegistryInv, Account
  <2> HIDE DEF by
  <2>2. Len(by) \in Nat /\ DOMAIN by = 1..Len(by) /\ Range(by) = {by[k] : k \in 1..Len(by)}
    BY <2>1 DEF Range
  <2>3. ASSUME Len(by) >= 2
        PROVE  \E t, u \in Candidates[c] : t # u /\ {<<c, t>>, <<c, u>>} \subseteq passed
    <3>1. 1 \in DOMAIN by /\ 2 \in DOMAIN by
      BY <2>2, <2>3
    <3>2. by[1] # by[2] /\ by[1] \in Candidates[c] /\ by[2] \in Candidates[c]
          /\ by[1] \in Range(by) /\ by[2] \in Range(by)
      BY <2>1, <2>2, <3>1
    <3> QED BY <2>1, <3>2
  <2>4. ASSUME NEW t \in Candidates[c], NEW u \in Candidates[c], t # u,
               {<<c, t>>, <<c, u>>} \subseteq passed
        PROVE  Len(by) >= 2
    <3>1. t \in Range(by) /\ u \in Range(by)
      BY <2>1, <2>4
    <3>2. PICK j \in 1..Len(by), k \in 1..Len(by) : by[j] = t /\ by[k] = u
      BY <2>2, <3>1
    <3> QED BY <2>2, <2>4, <3>2
  <2> QED BY <2>1, <2>3, <2>4
<1> QED BY <1>1, <1>2, <1>3, PTL DEF MemorySpec

\* Stores, files and registry keep their types, for any agents, files and bounds.
THEOREM MemoryTypes == MemorySpec => []MemoryTypeOK
<1> DEFINE IInv == StoreInv /\ RegistryInv /\ crashes \in Nat
<1>1. MemoryInit => IInv
  BY StoreInit, RegistryInit DEF MemoryInit
<1>2. IInv /\ [MemoryNext]_memoryVars => IInv'
  <2>1. crashes \in Nat /\ [MemoryNext]_memoryVars => crashes' \in Nat
    <3> SUFFICES ASSUME crashes \in Nat, [MemoryNext]_memoryVars PROVE crashes' \in Nat
      OBVIOUS
    <3>1. CASE Restart
      BY <3>1 DEF Restart
    <3>2. CASE \E a \in Owners : Record(a)
      BY <3>2 DEF Record
    <3>3. CASE \E a \in Owners, f \in DOMAIN Files : BeginSave(a, f) \/ Load(a, f)
      BY <3>3 DEF BeginSave, Load
    <3>4. CASE WriteLine \/ EndSave
      BY <3>4 DEF WriteLine, EndSave
    <3>5. CASE \E c \in DOMAIN Candidates :
                 Create(c) \/ \E t \in VerifyTasks, succeeded \in BOOLEAN : Verify(c, t, succeeded)
      BY <3>5 DEF Create, Verify
    <3>6. CASE UNCHANGED memoryVars
      BY <3>6 DEF memoryVars
    <3> QED BY <3>1, <3>2, <3>3, <3>4, <3>5, <3>6 DEF MemoryNext
  <2> QED BY <2>1, StoreStep, RegistryStep
<1>3. IInv => MemoryTypeOK
  <2> SUFFICES ASSUME IInv PROVE MemoryTypeOK
    OBVIOUS
  <2>1. \A c \in DOMAIN registry : IsCandidatePlugin(registry[c]) /\ registry[c].by \in Seq(Candidates[c])
    BY DEF RegistryInv, Account, IsCandidatePlugin
  <2>2. passed \subseteq (DOMAIN Candidates) \X VerifyTasks
    BY DEF RegistryInv
  <2> QED BY <2>1, <2>2 DEF StoreInv, StoreOK, RegistryInv, MemoryTypeOK
<1> QED BY <1>1, <1>2, <1>3, PTL DEF MemorySpec
=============================================================================
