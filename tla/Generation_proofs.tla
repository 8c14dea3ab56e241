-------------------------- MODULE Generation_proofs --------------------------
(***************************************************************************)
(* Proofs about Generation, for any plans, commands and bounds: each trial *)
(* makes one workspace and returns without it, unless the file system      *)
(* fails it or the process dies, and then no verdict follows; a verdict in *)
(* the log can be recomputed from the log.                                 *)
(***************************************************************************)
EXTENDS Generation, SequenceTheorems, FiniteSetTheorems, FunctionTheorems, TLAPS

Holding == {"prepare", "spawn", "wait", "after", "finally", "dispose"}
Empty   == {"create", "done"}

\* Where runTask stands says whether there is a workspace; a trial is under way
\* exactly while tasks are tried, so that a workspace kept by what runTask does
\* not catch is the last one the command ever makes, and no run is logged.
StepInv ==
  /\ step \in {"idle"} \cup Holding \cup Empty
  /\ stage = "try" <=> step # "idle"
  /\ stage \in {"read", "try", "log", "over", "crashed"}
HeldInv ==
  /\ step \in Holding => workspaces = 1
  /\ step \in Empty => workspaces = 0
KeptInv ==
  /\ broken \in BOOLEAN
  /\ broken => stage = "over" /\ exit = 1 /\ workspaces \in {0, 1}
  /\ broken \/ stage \in {"read", "try"} => Len(log) \in {0, 1}
  /\ ~broken /\ stage \in {"read", "log", "over"} => workspaces = 0
  /\ stage = "crashed" => workspaces \in {0, 1}

WorkspaceInv == StepInv /\ HeldInv /\ KeptInv

LEMMA WorkspaceInit == Init => WorkspaceInv
  BY DEF Init, WorkspaceInv, StepInv, HeldInv, KeptInv, Holding, Empty

\* The invariant concerns six variables; what leaves them alone keeps it.
LEMMA WorkspaceSame ==
  WorkspaceInv /\ UNCHANGED <<step, stage, workspaces, broken, exit, log>> => WorkspaceInv'
  BY DEF WorkspaceInv, StepInv, HeldInv, KeptInv, Holding, Empty

\* Steps of runTask: each is taken while tasks are tried, and goes on within the
\* trial, except for those that throw out of it.
LEMMA TrialKeeps ==
  ASSUME WorkspaceInv, Trial PROVE WorkspaceInv'
<1> USE DEF WorkspaceInv, StepInv, HeldInv, KeptInv, Holding, Empty
<1>1. CASE CreateWorkspace
  BY <1>1 DEF CreateWorkspace, genVars
<1>2. CASE Prepare
  BY <1>2 DEF Prepare, genVars
<1>3. CASE RefuseCommand
  BY <1>3 DEF RefuseCommand, genVars
<1>4. ASSUME NEW nature \in Behaviours, Spawn(nature) PROVE WorkspaceInv'
  <2>1. /\ step = "spawn" /\ step' \in {"finally", "wait"}
        /\ UNCHANGED <<stage, workspaces, broken, exit, log>>
    BY <1>4 DEF Spawn, genVars
  <2> QED BY <2>1
<1>5. CASE ChildExits
  BY <1>5, WorkspaceSame DEF ChildExits, genVars
<1>6. CASE TimerFires
  BY <1>6, WorkspaceSame DEF TimerFires, genVars
<1>7. CASE ChildCloses
  BY <1>7 DEF ChildCloses, genVars
<1>8. CASE SnapshotAfter
  BY <1>8 DEF SnapshotAfter, genVars
<1>9. CASE FinalSnapshot
  <2>1. step = "finally" /\ workspaces = 1 /\ UNCHANGED <<workspaces, log>>
    BY <1>9 DEF FinalSnapshot
  <2>2. CASE step' = "dispose" /\ UNCHANGED <<stage, exit, broken>>
    BY <2>1, <2>2
  <2>3. CASE Breaks
    BY <2>1, <2>3 DEF Breaks
  <2> QED BY <1>9, <2>2, <2>3 DEF FinalSnapshot
<1>10. CASE Dispose
  BY <1>10 DEF Dispose, genVars
<1>11. CASE CreationFails
  BY <1>11 DEF CreationFails, Breaks
<1>12. CASE DisposalFails
  BY <1>12 DEF DisposalFails, Breaks
<1> QED BY <1>1, <1>2, <1>3, <1>4, <1>5, <1>6, <1>7, <1>8, <1>9, <1>10, <1>11, <1>12 DEF Trial

\* Steps of the command around its trials.
LEMMA CommandKeeps ==
  ASSUME WorkspaceInv,
         \/ RefusePlan \/ Start \/ FinishTask \/ NextArm \/ NextTask
         \/ AppendRun \/ CompleteCalibration \/ Crash
         \/ \E light \in BOOLEAN : Complete(light)
  PROVE  WorkspaceInv'
<1> USE DEF WorkspaceInv, StepInv, HeldInv, KeptInv, Holding, Empty
<1>1. CASE RefusePlan
  BY <1>1 DEF RefusePlan, trialVars
<1>2. CASE Start
  <2>1. log' = <<>> \/ log' = <<Event("GENERATION_STARTED", CountTasks)>>
    BY <1>2 DEF Start
  <2>2. Len(log') \in {0, 1}
    BY <2>1
  <2> QED BY <1>2, <2>2 DEF Start
<1>3. CASE FinishTask
  BY <1>3 DEF FinishTask
<1>4. CASE NextArm
  BY <1>4 DEF NextArm
<1>5. CASE NextTask
  BY <1>5 DEF NextTask
<1>6. CASE AppendRun
  BY <1>6 DEF AppendRun, trialVars
<1>7. CASE CompleteCalibration
  BY <1>7 DEF CompleteCalibration, trialVars
<1>8. CASE \E light \in BOOLEAN : Complete(light)
  BY <1>8 DEF Complete, trialVars
<1>9. CASE Crash
  BY <1>9 DEF Crash
<1> QED BY <1>1, <1>2, <1>3, <1>4, <1>5, <1>6, <1>7, <1>8, <1>9

LEMMA WorkspaceNext == WorkspaceInv /\ [Next]_vars => WorkspaceInv'
<1> SUFFICES ASSUME WorkspaceInv, [Next]_vars PROVE WorkspaceInv'
  OBVIOUS
<1>1. CASE Next
  BY <1>1, TrialKeeps, CommandKeeps DEF Next, Progress
<1>2. CASE UNCHANGED vars
  BY <1>2, WorkspaceSame DEF vars, genVars, trialVars
<1> QED BY <1>1, <1>2

\* However trials fail, time out or are refused, at most one workspace exists at
\* a time (task-runner.ts:78-119).  One is left by a command that ends by itself
\* only when it could not be made, photographed or removed; the command has then
\* failed, and no run and no verdict of it is in the log.
THEOREM TrialsCleanUp == Spec => []WorkspacesAreReleased
<1>1. ASSUME WorkspaceInv PROVE WorkspacesAreReleased
  <2>1. workspaces \in {0, 1}
    BY <1>1 DEF WorkspaceInv, StepInv, HeldInv, KeptInv, Holding, Empty
  <2>2. ASSUME stage \in {"log", "over"}, workspaces = 1
        PROVE  broken /\ exit = 1 /\ Len(log) \in {0, 1}
    BY <1>1, <2>2 DEF WorkspaceInv, KeptInv
  <2>3. \A n \in {0, 1} : n <= 1
    OBVIOUS
  <2> QED BY <2>1, <2>2, <2>3, Zenon DEF WorkspacesAreReleased
<1> QED BY <1>1, WorkspaceInit, WorkspaceNext, PTL DEF Spec
------------------------------------------------------------------------------
Listed(s) == Len(s) \in Nat /\ DOMAIN s = 1..Len(s) /\ s \in Seq(Range(s))

\* Where a plan stands that was accepted: its tasks are known, and a generation
\* has no task twice.
PlanInv ==
  /\ plan \in Plans
  /\ at \in 0..Len(Schedule)
  /\ at = 0 => stage \in {"read", "over"} /\ log = <<>>
  /\ stage = "read" => at = 0
  /\ at # 0 => ValidPlan(plan) \/ ValidTask(plan)
  /\ stage = "log" => at = Len(Schedule)

\* The runs in memory after n tasks: two for each of them, in their order.
RunsAre(n) ==
  /\ runs \in Seq(Runs) /\ Len(runs) = 2 * n
  /\ \A k \in 1..n :
       /\ runs[2 * k - 1].task = Schedule[k] /\ runs[2 * k - 1].mode = "baseline"
       /\ runs[2 * k].task = Schedule[k] /\ runs[2 * k].mode = "candidate"
  /\ \A i \in DOMAIN runs : runs[i].success => ~runs[i].late

ArmInv ==
  /\ arm \in Arms /\ tried \in Seq(Results)
  /\ stage = "read" => arm = "baseline" /\ tried = <<>>
  /\ stage = "try" =>
       Len(tried) = IF arm = "baseline" THEN 0 ELSE IF arm = "candidate" THEN 1 ELSE 2
RunsInv ==
  /\ stage = "read" => RunsAre(0)
  /\ stage = "try"  => RunsAre(at - 1)
  /\ stage = "log"  => RunsAre(at)

\* The log: the announcement, the runs in their order, and the verdict last.
LogInv ==
  /\ Listed(log)
  /\ stage = "read" \/ plan.mode = "task" => log = <<>>
  /\ stage = "try" /\ plan.mode # "task" => Len(log) = 1
  /\ stage = "log" => plan.mode # "task" /\ Len(log) \in 1..(Len(runs) + 1)
  /\ log # <<>> => log[1] = Event("GENERATION_STARTED", CountTasks)
  /\ \A i \in 2..Len(log) :
       i - 1 \in DOMAIN runs => log[i] = RunEvent(runs[i - 1])

VerdictInv ==
  \A i \in DOMAIN log : log[i].type = "GENERATION_COMPLETED" =>
    /\ stage = "over" /\ plan.mode # "task" /\ at = Len(Schedule) /\ RunsAre(at)
    /\ i = Len(log) /\ Len(log) = Len(runs) + 2
    /\ plan.mode = "generalization" =>
         /\ log[i].payload.light \in BOOLEAN
         /\ (log[i].payload.passed <=> EvaluateHoldout(log[i].payload.light))

\* A plan that is known has a schedule, of which the holdout is a part.
LEMMA ScheduleShape ==
  ASSUME NEW p \in Plans
  PROVE  /\ AllTasks(p) \in Seq(Range(AllTasks(p))) /\ Len(AllTasks(p)) \in Nat
         /\ DOMAIN AllTasks(p) = 1..Len(AllTasks(p))
         /\ Range(p.tasks[3]) \subseteq Range(AllTasks(p))
<1> DEFINE T(i) == p.tasks[i]
           S    == Range(T(1)) \cup Range(T(2)) \cup Range(T(3))
<1>1. \A i \in 1..3 : T(i) \in Seq(Range(T(i)))
  BY PlansAssumption
<1>2. T(1) \in Seq(S) /\ T(2) \in Seq(S) /\ T(3) \in Seq(S)
  BY <1>1, SeqMonotonic
<1>3. AllTasks(p) = (T(1) \o T(2)) \o T(3)
  BY DEF AllTasks
<1> HIDE DEF T, S
<1>4. T(1) \o T(2) \in Seq(S)
  BY <1>2, ConcatProperties
<1>5. /\ (T(1) \o T(2)) \o T(3) \in Seq(S)
      /\ Range((T(1) \o T(2)) \o T(3)) = Range(T(1) \o T(2)) \cup Range(T(3))
  <2> DEFINE u == T(1) \o T(2)
  <2> HIDE DEF u
  <2>1. u \in Seq(S)
    BY <1>4 DEF u
  <2>2. u \o T(3) \in Seq(S) /\ Range(u \o T(3)) = Range(u) \cup Range(T(3))
    BY <1>2, <2>1, ConcatProperties, RangeConcatenation
  <2> QED BY <2>2 DEF u
<1> QED BY <1>3, <1>5, SeqOfRange, LenProperties DEF T

\* An invocation that was accepted tries tasks it knows; one that is no single
\* trial tries none of them twice.
LEMMA ScheduleIsSound ==
  ASSUME plan \in Plans, ValidPlan(plan) \/ ValidTask(plan)
  PROVE  /\ \A k \in 1..Len(Schedule) : Schedule[k] \in Tasks
         /\ Len(Schedule) \in Nat \ {0} /\ CountTasks = Len(Schedule)
         /\ plan.mode # "task" =>
              \A j, k \in 1..Len(Schedule) : Schedule[j] = Schedule[k] => j = k
<1>1. /\ Schedule \in Seq(Range(Schedule)) /\ Len(Schedule) \in Nat
      /\ DOMAIN Schedule = 1..Len(Schedule)
  BY ScheduleShape DEF Schedule
<1>2. \A t \in Range(Schedule) : t \in Tasks
  BY DEF ValidPlan, ValidTask, SoundTasks, IsTaskSpec, Schedule
<1>3. plan.mode \in {"task", "calibration", "generalization"}
  BY DEF ValidPlan, ValidTask
<1>4. CASE plan.mode \in {"task", "calibration"}
  <2>1. Len(Schedule) = 1
    BY <1>4, PlansAssumption DEF Schedule
  <2>2. CountTasks = 1
    BY <1>4, <2>1 DEF CountTasks
  <2> QED BY <1>1, <1>2, <2>1, <2>2 DEF Range
<1>5. CASE plan.mode = "generalization"
  <2>1. Disjoint(plan)
    BY <1>5 DEF ValidPlan, ValidTask, SoundPlan
  <2>2. \A j, k \in 1..Len(Schedule) : Schedule[j] = Schedule[k] => j = k
    BY <1>1, <2>1 DEF Disjoint, IsInjective, Schedule
  <2>3. Len(Schedule) # 0
    <3> DEFINE T(i) == plan.tasks[i]
               S    == Range(T(1)) \cup Range(T(2)) \cup Range(T(3))
    <3>1. \A i \in 1..3 : T(i) \in Seq(Range(T(i)))
      BY PlansAssumption
    <3>2. T(1) \in Seq(S) /\ T(2) \in Seq(S) /\ T(3) \in Seq(S)
      BY <3>1, SeqMonotonic
    <3>3. Schedule = (T(1) \o T(2)) \o T(3) /\ T(3) # <<>>
      BY <2>1 DEF Schedule, AllTasks, Disjoint
    <3> HIDE DEF T, S
    <3>4. T(1) \o T(2) \in Seq(S) /\ Len(T(1) \o T(2)) \in Nat
      BY <3>2, ConcatProperties, LenProperties
    <3>5. Len(Schedule) = Len(T(1) \o T(2)) + Len(T(3)) /\ Len(T(3)) \in Nat \ {0}
      BY <3>2, <3>3, <3>4, ConcatProperties, EmptySeq
    <3> QED BY <3>4, <3>5
  <2>4. CountTasks = Len(Schedule)
    BY <1>5 DEF CountTasks
  <2> QED BY <1>1, <1>2, <2>2, <2>3, <2>4 DEF Range
<1> QED BY <1>3, <1>4, <1>5

Children == [nature : Behaviours \cup {"none"},
             state : {"none", "running", "gone"}, code : 0..2]

LEMMA ChildEnds ==
  ASSUME NEW c \in Children, NEW n \in 0..2, NEW d,
         d = [c EXCEPT !.state = "gone", !.code = n]
  PROVE  d \in Children
BY DEF Children

\* What runTask changes keeps its type; a command that was killed, that failed
\* or that passed has a code of its own.
LEMMA TrialTypes ==
  ASSUME TypeOK, WorkspaceInv', Trial PROVE TypeOK'
<1>0. workspaces' \in Nat /\ stage' \in {"read", "try", "log", "over", "crashed"}
      /\ step' \in {"idle", "create", "prepare", "spawn", "wait", "after", "finally",
                    "dispose", "done"}
  BY DEF WorkspaceInv, StepInv, HeldInv, KeptInv, Holding, Empty
<1>a. /\ mishaps \in 0..MaxMishaps /\ MaxMishaps \in Nat
      /\ NoResult \in Results /\ child \in Children /\ NoChild \in Children
  BY GenerationAssumption DEF TypeOK, NoResult, Results, Children, NoChild
<1> USE DEF TypeOK
<1>1. CASE CreateWorkspace
  BY <1>0, <1>a, <1>1 DEF CreateWorkspace, genVars
<1>2. CASE Prepare
  <2>1. caught' \in BOOLEAN
    BY <1>2 DEF Prepare
  <2>2. mishaps' \in 0..MaxMishaps
    <3>1. mishaps' \in {mishaps, mishaps + 1} /\ mishaps' <= MaxMishaps
      BY <1>2 DEF Prepare
    <3> QED BY <1>a, <3>1
  <2> QED BY <1>0, <1>2, <2>1, <2>2 DEF Prepare, genVars
<1>3. CASE RefuseCommand
  BY <1>0, <1>3 DEF RefuseCommand, genVars
<1>4. ASSUME NEW nature \in Behaviours, Spawn(nature) PROVE TypeOK'
  <2>1. child' \in Children
    <3>1. child' = NoChild \/ child' = [nature |-> nature, state |-> "running", code |-> 0]
      BY <1>4 DEF Spawn
    <3> QED BY <3>1, <1>a DEF Children
  <2>2. caught' \in BOOLEAN /\ timer' = "armed"
        /\ UNCHANGED <<genVars, result, workspaces, broken, mishaps>>
    BY <1>4 DEF Spawn
  <2> QED BY <1>0, <2>1, <2>2 DEF genVars, Children
<1>5. CASE ChildExits
  <2> DEFINE n == IF child.nature = "fails" THEN 1 ELSE 0
  <2>1. child' = [child EXCEPT !.state = "gone", !.code = n]
    BY <1>5 DEF ChildExits
  <2>2. child' \in Children
    <3>1. n \in 0..2
      OBVIOUS
    <3> HIDE DEF n
    <3> QED BY <1>a, <2>1, <3>1, ChildEnds, Zenon
  <2> QED BY <1>0, <1>5, <2>2 DEF ChildExits, genVars, Children
<1>6. CASE TimerFires
  <2>1. mishaps' \in 0..MaxMishaps
    <3>1. mishaps' \in {mishaps, mishaps + 1} /\ mishaps' <= MaxMishaps
      BY <1>6 DEF TimerFires
    <3> QED BY <1>a, <3>1
  <2>2. child' \in Children
    <3>1. child' = child \/ child' = [child EXCEPT !.state = "gone", !.code = 2]
      BY <1>6 DEF TimerFires, Killed
    <3>2. CASE child' = [child EXCEPT !.state = "gone", !.code = 2]
      <4>1. 2 \in 0..2
        OBVIOUS
      <4> QED BY <1>a, <3>2, <4>1, ChildEnds, Zenon
    <3> QED BY <1>a, <3>1, <3>2, Zenon
  <2> QED BY <1>0, <1>6, <2>1, <2>2 DEF TimerFires, genVars, Children
<1>7. CASE ChildCloses
  <2>1. child.code \in -1..2 /\ (timer = "fired") \in BOOLEAN
    OBVIOUS
  <2>a. PICK n \in 0..MaxTicks :
           result' = [code |-> child.code, timedOut |-> timer = "fired", ticks |-> n]
    BY <1>7 DEF ChildCloses
  <2>2. result' \in Results /\ child' = NoChild /\ timer' = "off"
    BY <1>7, <2>1, <2>a DEF ChildCloses, Results
  <2>3. NoChild \in Children
    BY <1>a
  <2> QED BY <1>0, <1>7, <2>2, <2>3 DEF ChildCloses, genVars, Children
<1>8. CASE SnapshotAfter
  <2>1. mishaps' \in 0..MaxMishaps
    <3>1. mishaps' \in {mishaps, mishaps + 1} /\ mishaps' <= MaxMishaps
      BY <1>8 DEF SnapshotAfter
    <3> QED BY <1>a, <3>1
  <2> QED BY <1>0, <1>8, <2>1 DEF SnapshotAfter, genVars
<1>9. CASE FinalSnapshot
  BY <1>0, <1>9 DEF FinalSnapshot, Breaks
<1>10. CASE Dispose
  BY <1>0, <1>10 DEF Dispose, genVars
<1>11. CASE CreationFails \/ DisposalFails
  BY <1>0, <1>11 DEF CreationFails, DisposalFails, Breaks
<1> QED BY <1>1, <1>2, <1>3, <1>4, <1>5, <1>6, <1>7, <1>8, <1>9, <1>10, <1>11 DEF Trial

\* The record of a run that was tried, with the verdict of a person that the
\* options of an accepted plan may give it.
LEMMA EvaluateType ==
  ASSUME NEW t \in Tasks, NEW m \in Sides, NEW r \in Results, NEW f, ValidPlan(plan)
  PROVE  /\ Evaluate(t, m, r, f) \in Runs
         /\ Evaluate(t, m, r, f).task = t /\ Evaluate(t, m, r, f).mode = m
         /\ Evaluate(t, m, r, f).success => ~Evaluate(t, m, r, f).late
<1>0. r.ticks \in 0..MaxTicks
  BY DEF Results
<1>1. OptionsOf(m, t).accepted \in Acceptance
  BY DEF ValidPlan, SoundOptions, OptionsOf, NoOptions, Acceptance
<1>2. /\ Succeeds(r) \in BOOLEAN /\ (Succeeds(r) => ~r.timedOut)
      /\ r.timedOut \in BOOLEAN
  BY DEF Succeeds, Results
<1>3. (m = "candidate" /\ Succeeds(f) /\ ~Succeeds(r)) \in BOOLEAN
  OBVIOUS
<1> QED BY <1>0, <1>1, <1>2, <1>3 DEF Evaluate, Runs

\* Runs and verdict are read off the plan and the runs alone.
LEMMA HoldoutIsKept ==
  ASSUME UNCHANGED <<plan, runs>>, NEW l \in BOOLEAN
  PROVE  EvaluateHoldout(l)' <=> EvaluateHoldout(l)
<1>1. \A m \in Sides : Side(3, m)' = Side(3, m)
  BY DEF Side
<1>2. \A m \in Sides : Summarize(Side(3, m))' = Summarize(Side(3, m))
  <2> TAKE m \in Sides
  <2>1. Side(3, m)' = Side(3, m)
    BY <1>1
  <2> HIDE DEF Side
  <2> QED BY <2>1 DEF Summarize, Count, Ticks
<1> QED BY <1>2 DEF EvaluateHoldout, Sides

Account == PlanInv /\ RunsInv /\ LogInv /\ VerdictInv

\* A step that tries nothing new and writes nothing keeps the account; the
\* command may have come to its end by it.
LEMMA QuietKeeps ==
  ASSUME Account, UNCHANGED <<plan, at, runs, log>>,
         \/ stage' = stage
         \/ stage \in {"try", "log"} /\ stage' \in {"over", "crashed"}
         \/ stage = "read" /\ stage' = "over"
  PROVE  Account'
<1>0. Schedule' = Schedule /\ CountTasks' = CountTasks
  BY DEF Schedule, AllTasks, CountTasks
<1>1. PlanInv'
  <2>1. (ValidPlan(plan) <=> ValidPlan(plan)') /\ (ValidTask(plan) <=> ValidTask(plan)')
    BY DEF ValidPlan, ValidTask
  <2> QED BY <1>0, <2>1 DEF Account, PlanInv
<1>3. \A n \in Nat : RunsAre(n)' <=> RunsAre(n)
  BY <1>0 DEF RunsAre
<1>4. RunsInv'
  <2>1. stage' = "try" \/ stage' = "log" \/ stage' = "read" => stage' = stage
    OBVIOUS
  <2>2. \A n : RunsAre(n)' <=> RunsAre(n)
    BY <1>0 DEF RunsAre
  <2> QED BY <2>1, <2>2 DEF Account, RunsInv
<1>5. LogInv'
  <2>1. \A r : RunEvent(r)' = RunEvent(r)
    BY DEF RunEvent
  <2> QED BY <1>0, <2>1 DEF Account, LogInv, Listed, Event
<1>6. VerdictInv'
  <2> SUFFICES ASSUME NEW i \in DOMAIN log, log[i].type = "GENERATION_COMPLETED"
               PROVE  /\ stage' = "over" /\ plan.mode # "task" /\ at = Len(Schedule)
                      /\ RunsAre(at)' /\ i = Len(log) /\ Len(log) = Len(runs) + 2
                      /\ plan.mode = "generalization" =>
                           /\ log[i].payload.light \in BOOLEAN
                           /\ (log[i].payload.passed <=> EvaluateHoldout(log[i].payload.light)')
    BY <1>0 DEF VerdictInv
  <2>1. /\ stage = "over" /\ plan.mode # "task" /\ at = Len(Schedule) /\ RunsAre(at)
        /\ i = Len(log) /\ Len(log) = Len(runs) + 2
        /\ plan.mode = "generalization" =>
             /\ log[i].payload.light \in BOOLEAN
             /\ (log[i].payload.passed <=> EvaluateHoldout(log[i].payload.light))
    BY DEF Account, VerdictInv
  <2>2. RunsAre(at)' <=> RunsAre(at)
    BY <1>0 DEF RunsAre
  <2> QED BY <2>1, <2>2, HoldoutIsKept
<1> QED BY <1>1, <1>4, <1>5, <1>6 DEF Account

\* The announcement opens the log of a plan that was accepted.
LEMMA StartKeeps ==
  ASSUME TypeOK, Account, Start PROVE Account'
<1>0. /\ stage = "read" /\ stage' = "try" /\ at' = 1
      /\ UNCHANGED <<plan, arm, tried, runs>>
      /\ ValidPlan(plan) \/ ValidTask(plan)
      /\ log' = IF plan.mode = "task" THEN <<>>
                ELSE <<Event("GENERATION_STARTED", CountTasks)>>
  BY DEF Start
<1>a. Schedule' = Schedule /\ CountTasks' = CountTasks
  BY <1>0 DEF Schedule, AllTasks, CountTasks
<1>1. PlanInv'
  <2>1. Len(Schedule) \in Nat \ {0}
    BY <1>0, ScheduleIsSound DEF TypeOK
  <2>2. (ValidPlan(plan) <=> ValidPlan(plan)') /\ (ValidTask(plan) <=> ValidTask(plan)')
    BY <1>0 DEF ValidPlan, ValidTask
  <2> QED BY <1>0, <1>a, <2>1, <2>2 DEF Account, PlanInv
<1>2. RunsAre(0)
  BY <1>0 DEF Account, RunsInv
<1>3. RunsInv'
  <2>1. RunsAre(0)' <=> RunsAre(0)
    BY <1>0, <1>a DEF RunsAre
  <2>2. at' - 1 = 0
    BY <1>0
  <2> QED BY <1>0, <1>2, <2>1, <2>2 DEF RunsInv
<1>4. LogInv' /\ VerdictInv'
  <2> DEFINE e == Event("GENERATION_STARTED", CountTasks)
  <2>1. CASE plan.mode = "task"
    <3>1. log' = <<>> /\ Listed(<<>>)
      BY <1>0, <2>1 DEF Listed
    <3> QED BY <1>0, <2>1, <3>1 DEF LogInv, VerdictInv
  <2>2. CASE plan.mode # "task"
    <3>1. log' = <<e>> /\ e.type = "GENERATION_STARTED"
      BY <1>0, <2>2 DEF Event
    <3>2. e = Event("GENERATION_STARTED", CountTasks)'
      BY <1>a DEF Event
    <3> HIDE DEF e
    <3>3. Listed(<<e>>) /\ Len(<<e>>) = 1 /\ <<e>>[1] = e /\ DOMAIN <<e>> = {1}
      BY DEF Listed, Range
    <3> QED BY <1>0, <2>2, <3>1, <3>2, <3>3 DEF LogInv, VerdictInv
  <2> QED BY <2>1, <2>2
<1> QED BY <1>1, <1>3, <1>4 DEF Account

LEMMA AppendPair ==
  ASSUME NEW S, NEW s \in Seq(S), NEW a \in S, NEW b \in S
  PROVE  /\ s \o <<a, b>> \in Seq(S) /\ Len(s \o <<a, b>>) = Len(s) + 2
         /\ \A i \in 1..Len(s) : (s \o <<a, b>>)[i] = s[i]
         /\ (s \o <<a, b>>)[Len(s) + 1] = a /\ (s \o <<a, b>>)[Len(s) + 2] = b
<1>1. <<a, b>> \in Seq(S) /\ Len(<<a, b>>) = 2 /\ Len(s) \in Nat
      /\ <<a, b>>[1] = a /\ <<a, b>>[2] = b
  BY LenProperties
<1> QED BY <1>1, ConcatProperties

\* The last arm of a task turns its results into two runs.
LEMMA NextTaskKeeps ==
  ASSUME TypeOK, StepInv, ArmInv, Account, NextTask PROVE Account' /\ runs' \in Seq(Runs)
<1>0. /\ stage = "try" /\ plan.mode # "task" /\ at' \in Nat /\ at \in 1..Len(Schedule)
      /\ Len(Schedule) \in Nat
      /\ UNCHANGED <<plan, log>> /\ ValidPlan(plan)
      /\ IF at < Len(Schedule) THEN at' = at + 1 /\ stage' = "try"
         ELSE stage' = "log" /\ at' = at
  <2>1. stage = "try" /\ plan.mode # "task" /\ UNCHANGED <<plan, log>>
    BY DEF NextTask, StepInv
  <2>2. at # 0 /\ (ValidPlan(plan) \/ ValidTask(plan))
    BY <2>1 DEF Account, PlanInv
  <2>3. ValidPlan(plan)
    BY <2>1, <2>2 DEF ValidTask
  <2>4. at \in 0..Len(Schedule) /\ Len(Schedule) \in Nat
    BY <2>2, ScheduleIsSound DEF Account, PlanInv
  <2>5. IF at < Len(Schedule) THEN at' = at + 1 /\ stage' = stage
        ELSE stage' = "log" /\ at' = at
    BY DEF NextTask
  <2> QED BY <2>1, <2>2, <2>3, <2>4, <2>5
<1>a. Schedule' = Schedule /\ CountTasks' = CountTasks
  BY <1>0 DEF Schedule, AllTasks, CountTasks
<1> DEFINE t == Schedule[at]
           a == Evaluate(t, "baseline", tried[1], NoResult)
           b == Evaluate(t, "candidate", tried[2], result)
<1>1. t \in Tasks /\ tried[1] \in Results /\ tried[2] \in Results
  <2>1. t \in Tasks
    BY <1>0, ScheduleIsSound DEF TypeOK
  <2>2. tried \in Seq(Results) /\ Len(tried) = 2
    BY <1>0 DEF ArmInv, NextTask
  <2> QED BY <2>1, <2>2, ElementOfSeq
<1>2. /\ a \in Runs /\ a.task = t /\ a.mode = "baseline" /\ (a.success => ~a.late)
      /\ b \in Runs /\ b.task = t /\ b.mode = "candidate" /\ (b.success => ~b.late)
  <2>1. "baseline" \in Sides /\ "candidate" \in Sides
    BY DEF Sides
  <2> QED BY <1>0, <1>1, <2>1, EvaluateType
<1>3. runs' = runs \o <<a, b>>
  BY DEF NextTask
<1>b. t = Schedule[at]
  OBVIOUS
<1> HIDE DEF t, a, b
<1>4. runs \in Seq(Runs) /\ Len(runs) = 2 * (at - 1)
      /\ \A k \in 1..(at - 1) :
           /\ runs[2 * k - 1].task = Schedule[k] /\ runs[2 * k - 1].mode = "baseline"
           /\ runs[2 * k].task = Schedule[k] /\ runs[2 * k].mode = "candidate"
      /\ \A i \in 1..Len(runs) : runs[i].success => ~runs[i].late
  <2>1. RunsAre(at - 1)
    BY <1>0 DEF Account, RunsInv
  <2> QED BY <2>1, LenProperties DEF RunsAre
<1>c. \A i \in 1..Len(runs) : runs[i].success => ~runs[i].late
  <2>1. RunsAre(at - 1) /\ DOMAIN runs = 1..Len(runs)
    BY <1>0, <1>4, LenProperties DEF Account, RunsInv
  <2>2. \A i \in DOMAIN runs : runs[i].success => ~runs[i].late
    BY <2>1 DEF RunsAre
  <2> QED BY <2>1, <2>2
<1>5. /\ runs' \in Seq(Runs) /\ Len(runs') = 2 * at
      /\ \A i \in 1..(2 * at - 2) : runs'[i] = runs[i]
      /\ runs'[2 * at - 1] = a /\ runs'[2 * at] = b
  <2>1. Len(runs) + 1 = 2 * at - 1 /\ Len(runs) + 2 = 2 * at /\ Len(runs) = 2 * at - 2
    BY <1>0, <1>4
  <2>2. /\ runs' \in Seq(Runs) /\ Len(runs') = Len(runs) + 2
        /\ \A i \in 1..Len(runs) : runs'[i] = runs[i]
        /\ runs'[Len(runs) + 1] = a /\ runs'[Len(runs) + 2] = b
    BY <1>2, <1>3, <1>4, AppendPair
  <2> QED BY <2>1, <2>2
<1>6. \A k \in 1..at :
           /\ runs'[2 * k - 1].task = Schedule[k] /\ runs'[2 * k - 1].mode = "baseline"
           /\ runs'[2 * k].task = Schedule[k] /\ runs'[2 * k].mode = "candidate"
  <2> TAKE k \in 1..at
  <2>1. CASE k = at
    BY <1>2, <1>5, <2>1, <1>b
  <2>2. CASE k < at
    <3>1. k \in 1..(at - 1) /\ 2 * k - 1 \in 1..(2 * at - 2) /\ 2 * k \in 1..(2 * at - 2)
      BY <1>0, <2>2
    <3> QED BY <3>1, <1>4, <1>5
  <2> QED BY <1>0, <2>1, <2>2
<1>7. \A i \in 1..(2 * at) : runs'[i].success => ~runs'[i].late
  <2> TAKE i \in 1..(2 * at)
  <2>1. i \in 1..(2 * at - 2) \/ i = 2 * at - 1 \/ i = 2 * at
    BY <1>0
  <2>2. CASE i \in 1..(2 * at - 2)
    <3>0. i \in 1..Len(runs)
      BY <1>0, <1>4, <2>2
    <3>1. runs'[i] = runs[i]
      BY <1>5, <2>2
    <3>2. runs[i] \in Runs
      BY <1>4, <3>0, ElementOfSeq
    <3>3. runs[i].success => ~runs[i].late
      BY <1>c, <3>0, Zenon
    <3> QED BY <3>1, <3>2, <3>3 DEF Runs
  <2>3. CASE i = 2 * at - 1
    BY <1>2, <1>5, <2>3, Zenon
  <2>4. CASE i = 2 * at
    BY <1>2, <1>5, <2>4, Zenon
  <2> QED BY <2>1, <2>2, <2>3, <2>4
<1>8. RunsAre(at)'  \/ at' # at
  BY <1>0, <1>a, <1>5, <1>6, <1>7, LenProperties DEF RunsAre
<1>9. at' = at + 1 => RunsAre(at - 1)'
  <2>1. at' = at + 1 => at' - 1 = at
    BY <1>0
  <2> QED BY <2>1, <1>0, <1>a, <1>5, <1>6, <1>7, LenProperties DEF RunsAre
<1>10. RunsInv'
  BY <1>0, <1>8, <1>9 DEF RunsInv
<1>11. PlanInv'
  <2>1. (ValidPlan(plan) <=> ValidPlan(plan)') /\ (ValidTask(plan) <=> ValidTask(plan)')
    BY <1>0 DEF ValidPlan, ValidTask
  <2> QED BY <1>0, <1>a, <2>1 DEF Account, PlanInv
<1>12. LogInv' /\ VerdictInv'
  <2>1. Listed(log) /\ Len(log) = 1 /\ DOMAIN log = 1..1
        /\ log[1] = Event("GENERATION_STARTED", CountTasks)
    BY <1>0 DEF Account, LogInv, Listed
  <2>2. log[1].type = "GENERATION_STARTED" /\ Event("GENERATION_STARTED", CountTasks)' = log[1]
    BY <2>1, <1>a DEF Event
  <2>3. LogInv'
    BY <1>0, <1>5, <2>1, <2>2 DEF LogInv, Listed
  <2>4. VerdictInv'
    BY <1>0, <2>1, <2>2 DEF VerdictInv
  <2> QED BY <2>3, <2>4
<1> QED BY <1>5, <1>10, <1>11, <1>12 DEF Account

\* What Append adds to a list.
LEMMA ListedAppend ==
  ASSUME NEW s, Listed(s), NEW r
  PROVE  /\ Listed(Append(s, r)) /\ Len(Append(s, r)) = Len(s) + 1
         /\ \A i \in 1..Len(s) : Append(s, r)[i] = s[i]
         /\ Append(s, r)[Len(s) + 1] = r
<1> DEFINE S == Range(s) \cup {r}
<1>1. s \in Seq(S) /\ r \in S
  BY SeqMonotonic DEF Listed
<1> HIDE DEF S
<1>2. /\ Append(s, r) \in Seq(S) /\ Len(Append(s, r)) = Len(s) + 1
      /\ \A i \in 1..Len(s) : Append(s, r)[i] = s[i]
      /\ Append(s, r)[Len(s) + 1] = r
  BY <1>1, AppendProperties
<1>3. Len(Append(s, r)) \in Nat /\ DOMAIN Append(s, r) = 1..Len(Append(s, r))
  BY <1>2, LenProperties
<1>4. Append(s, r) \in Seq(Range(Append(s, r)))
  BY <1>2, SeqOfRange
<1> QED BY <1>2, <1>3, <1>4 DEF Listed

\* Each run is written in its turn, behind the announcement.
LEMMA AppendRunKeeps ==
  ASSUME Account, AppendRun PROVE Account'
<1>0. /\ stage = "log" /\ stage' = "log" /\ Len(log) <= Len(runs)
      /\ UNCHANGED <<plan, at, runs>>
      /\ log' = Append(log, RunEvent(runs[Len(log)]))
  BY DEF AppendRun
<1>a. Schedule' = Schedule /\ CountTasks' = CountTasks
      /\ \A r : RunEvent(r)' = RunEvent(r)
  BY <1>0 DEF Schedule, AllTasks, CountTasks, RunEvent
<1>1. PlanInv'
  <2>1. (ValidPlan(plan) <=> ValidPlan(plan)') /\ (ValidTask(plan) <=> ValidTask(plan)')
    BY <1>0 DEF ValidPlan, ValidTask
  <2> QED BY <1>0, <1>a, <2>1 DEF Account, PlanInv
<1>2. RunsAre(at)' /\ RunsAre(at) /\ RunsInv'
  <2>1. RunsAre(at)' <=> RunsAre(at)
    BY <1>0, <1>a DEF RunsAre
  <2> QED BY <1>0, <2>1 DEF Account, RunsInv
<1>3. Len(runs) \in Nat /\ DOMAIN runs = 1..Len(runs)
  BY <1>2, LenProperties DEF RunsAre
<1>4. /\ Listed(log) /\ Len(log) \in 1..Len(runs) /\ plan.mode # "task"
      /\ DOMAIN log = 1..Len(log) /\ log # <<>>
      /\ log[1] = Event("GENERATION_STARTED", CountTasks)
      /\ \A i \in 2..Len(log) : i - 1 \in DOMAIN runs => log[i] = RunEvent(runs[i - 1])
  <2>1. Listed(log) /\ Len(log) \in 1..(Len(runs) + 1) /\ plan.mode # "task"
    BY <1>0 DEF Account, LogInv
  <2>2. log # <<>>
    BY <2>1
  <2> QED BY <1>0, <1>3, <2>1, <2>2 DEF Account, LogInv, Listed
<1> DEFINE n == Len(log)
           e == RunEvent(runs[n])
<1>5. /\ Listed(log') /\ Len(log') = n + 1 /\ DOMAIN log' = 1..(n + 1)
      /\ \A i \in 1..n : log'[i] = log[i]
      /\ log'[n + 1] = e
  BY <1>0, <1>4, ListedAppend DEF Listed
<1>6. e.type = "EXPERIMENT_RUN_COMPLETED" /\ n \in 1..Len(runs)
  BY <1>4 DEF RunEvent
<1> HIDE DEF n
<1>7. \A i \in 2..(n + 1) : i - 1 \in DOMAIN runs => log'[i] = RunEvent(runs[i - 1])
  <2> SUFFICES ASSUME NEW i \in 2..(n + 1), i - 1 \in DOMAIN runs
               PROVE  log'[i] = RunEvent(runs[i - 1])
    OBVIOUS
  <2>1. CASE i = n + 1
    <3>1. i - 1 = n
      BY <1>6, <2>1
    <3> QED BY <1>5, <2>1, <3>1
  <2>2. CASE i \in 2..n
    <3>1. i \in 1..n
      BY <1>6, <2>2
    <3> QED BY <1>4, <1>5, <2>2, <3>1 DEF n
  <2> QED BY <1>6, <2>1, <2>2
<1> HIDE DEF e
<1>8. LogInv'
  <2>1. 1 \in 1..n /\ log'[1] = log[1]
    BY <1>5, <1>6
  <2>2. log'[1] = Event("GENERATION_STARTED", CountTasks)'
    BY <2>1, <1>4, <1>a DEF Event
  <2>3. Len(log') \in 1..(Len(runs) + 1)
    BY <1>5, <1>6
  <2> QED BY <1>0, <1>a, <1>4, <1>5, <1>7, <2>2, <2>3 DEF LogInv
<1>9. VerdictInv'
  <2> SUFFICES ASSUME NEW i \in 1..(n + 1), log'[i].type = "GENERATION_COMPLETED"
               PROVE  FALSE
    BY <1>5 DEF VerdictInv
  <2>1. i # n + 1
    BY <1>5, <1>6
  <2>2. i \in 1..n /\ log'[i] = log[i]
    BY <1>5, <1>6, <2>1
  <2>3. stage = "over"
    BY <1>4, <2>2 DEF Account, VerdictInv, n
  <2> QED BY <1>0, <2>3
<1> QED BY <1>1, <1>2, <1>8, <1>9 DEF Account

\* The verdict is written last, behind every run.
LEMMA VerdictKeeps ==
  ASSUME Account, stage = "log", Len(log) = Len(runs) + 1, stage' = "over",
         UNCHANGED <<plan, at, runs>>, NEW v,
         log' = Append(log, Event("GENERATION_COMPLETED", v)),
         plan.mode = "generalization" =>
           v.light \in BOOLEAN /\ (v.passed <=> EvaluateHoldout(v.light))
  PROVE  Account'
<1>a. Schedule' = Schedule /\ CountTasks' = CountTasks
      /\ \A r : RunEvent(r)' = RunEvent(r)
  BY DEF Schedule, AllTasks, CountTasks, RunEvent
<1>1. PlanInv'
  <2>1. (ValidPlan(plan) <=> ValidPlan(plan)') /\ (ValidTask(plan) <=> ValidTask(plan)')
    BY DEF ValidPlan, ValidTask
  <2> QED BY <1>a, <2>1 DEF Account, PlanInv
<1>2. RunsAre(at)' /\ RunsAre(at) /\ RunsInv'
  <2>1. RunsAre(at)' <=> RunsAre(at)
    BY <1>a DEF RunsAre
  <2> QED BY <2>1 DEF Account, RunsInv
<1>3. Len(runs) \in Nat /\ DOMAIN runs = 1..Len(runs)
  BY <1>2, LenProperties DEF RunsAre
<1>4. /\ Listed(log) /\ plan.mode # "task" /\ DOMAIN log = 1..Len(log) /\ log # <<>>
      /\ at = Len(Schedule) /\ log[1] = Event("GENERATION_STARTED", CountTasks)
      /\ \A i \in 2..Len(log) : i - 1 \in DOMAIN runs => log[i] = RunEvent(runs[i - 1])
  <2>1. Listed(log) /\ plan.mode # "task" /\ at = Len(Schedule)
    BY DEF Account, LogInv, PlanInv
  <2>2. log # <<>>
    BY <1>3
  <2> QED BY <2>1, <2>2 DEF Account, LogInv, Listed
<1> DEFINE n == Len(log)
           e == Event("GENERATION_COMPLETED", v)
<1>5. /\ Listed(log') /\ Len(log') = n + 1 /\ DOMAIN log' = 1..(n + 1)
      /\ \A i \in 1..n : log'[i] = log[i]
      /\ log'[n + 1] = e
  BY <1>4, ListedAppend DEF Listed
<1>6. e.payload = v /\ n = Len(runs) + 1
  BY DEF Event
<1> HIDE DEF n, e
<1>7. \A i \in 2..(n + 1) : i - 1 \in DOMAIN runs => log'[i] = RunEvent(runs[i - 1])
  <2> SUFFICES ASSUME NEW i \in 2..(n + 1), i - 1 \in DOMAIN runs
               PROVE  log'[i] = RunEvent(runs[i - 1])
    OBVIOUS
  <2>1. i \in 2..n /\ i \in 1..n
    BY <1>3, <1>6
  <2> QED BY <1>4, <1>5, <2>1 DEF n
<1>8. LogInv'
  <2>1. 1 \in 1..n /\ log'[1] = log[1]
    BY <1>3, <1>5, <1>6
  <2>2. log'[1] = Event("GENERATION_STARTED", CountTasks)'
    BY <2>1, <1>4, <1>a DEF Event
  <2> QED BY <1>a, <1>4, <1>5, <1>7, <2>2 DEF LogInv
<1>9. VerdictInv'
  <2> SUFFICES ASSUME NEW i \in DOMAIN log', log'[i].type = "GENERATION_COMPLETED"
               PROVE  (/\ stage = "over" /\ plan.mode # "task" /\ at = Len(Schedule)
                       /\ RunsAre(at) /\ i = Len(log) /\ Len(log) = Len(runs) + 2
                       /\ plan.mode = "generalization" =>
                            /\ log[i].payload.light \in BOOLEAN
                            /\ (log[i].payload.passed
                                 <=> EvaluateHoldout(log[i].payload.light)))'
    BY DEF VerdictInv
  <2>1. i = n + 1
    <3> SUFFICES ASSUME i # n + 1 PROVE FALSE
      OBVIOUS
    <3>1. i \in 1..n /\ log'[i] = log[i]
      BY <1>3, <1>5, <1>6
    <3>2. stage = "over"
      BY <1>4, <3>1 DEF Account, VerdictInv, n
    <3> QED BY <3>2
  <2>2. log'[i].payload = v /\ Len(log') = Len(runs) + 2
    BY <1>3, <1>5, <1>6, <2>1
  <2>3. /\ plan'.mode # "task" /\ at' = Len(Schedule)' /\ stage' = "over" /\ RunsAre(at)'
        /\ i = Len(log)' /\ Len(log)' = Len(runs)' + 2
    BY <1>2, <1>4, <1>5, <1>a, <2>1, <2>2
  <2>4. ASSUME plan'.mode = "generalization"
        PROVE  /\ log'[i].payload.light \in BOOLEAN
               /\ (log'[i].payload.passed <=> EvaluateHoldout(log[i].payload.light)')
    <3>1. v.light \in BOOLEAN /\ (v.passed <=> EvaluateHoldout(v.light))
      BY <2>4
    <3> DEFINE l == v.light
    <3>2. l = (log[i].payload.light)' /\ l \in BOOLEAN
      BY <2>2, <3>1
    <3> HIDE DEF l
    <3>3. \A b \in BOOLEAN : b = (log[i].payload.light)' =>
             (EvaluateHoldout(log[i].payload.light)' <=> EvaluateHoldout(b))
      <4> TAKE b \in BOOLEAN
      <4> HAVE b = (log[i].payload.light)'
      <4>1. \A m \in Sides : Side(3, m)' = Side(3, m)
        BY DEF Side
      <4>2. \A m \in Sides : Summarize(Side(3, m))' = Summarize(Side(3, m))
        <5> TAKE m \in Sides
        <5>1. Side(3, m)' = Side(3, m)
          BY <4>1
        <5> HIDE DEF Side
        <5> QED BY <5>1 DEF Summarize, Count, Ticks
      <4> QED BY <4>2 DEF EvaluateHoldout, Sides
    <3> QED BY <2>2, <3>1, <3>2, <3>3 DEF l
  <2> QED BY <2>3, <2>4
<1> QED BY <1>1, <1>2, <1>8, <1>9 DEF Account

\* A verdict follows from the runs and the reading of the memory.
LEMMA CompletionKeeps ==
  ASSUME Account, CompleteCalibration \/ \E light \in BOOLEAN : Complete(light)
  PROVE  Account'
<1>1. CASE CompleteCalibration
  <2> DEFINE v == [passed |-> TRUE, light |-> TRUE]
  <2>1. /\ stage = "log" /\ Len(log) = Len(runs) + 1 /\ stage' = "over"
        /\ UNCHANGED <<plan, at, runs>> /\ plan.mode = "calibration"
        /\ log' = Append(log, Event("GENERATION_COMPLETED", v))
    BY <1>1 DEF CompleteCalibration
  <2> HIDE DEF v
  <2> QED BY <2>1, VerdictKeeps
<1>2. ASSUME NEW light \in BOOLEAN, Complete(light) PROVE Account'
  <2> DEFINE p == EvaluateHoldout(light)
             v == [passed |-> p, light |-> light]
  <2>1. /\ stage = "log" /\ Len(log) = Len(runs) + 1 /\ stage' = "over"
        /\ UNCHANGED <<plan, at, runs>> /\ plan.mode = "generalization"
        /\ log' = Append(log, Event("GENERATION_COMPLETED", v))
    BY <1>2 DEF Complete
  <2>2. v.light = light /\ v.passed = p
    OBVIOUS
  <2>3. v.light \in BOOLEAN /\ (v.passed <=> EvaluateHoldout(v.light))
    BY <2>2
  <2> HIDE DEF v, p
  <2> QED BY <2>1, <2>3, VerdictKeeps
<1> QED BY <1>1, <1>2

\* Between two tasks nothing has been tried; the third arm finds two results.
LEMMA ArmNext ==
  ASSUME TypeOK, StepInv, ArmInv, [Next]_vars PROVE ArmInv'
<1>1. CASE /\ UNCHANGED <<arm, tried>>
           /\ \/ stage' = stage
              \/ stage' \in {"over", "crashed", "log"}
              \/ stage = "read"
           /\ stage' = "read" => stage = "read"
  BY <1>1 DEF ArmInv
<1>2. CASE NextArm
  <2>0. stage = "try" /\ stage' = "try" /\ arm \in {"baseline", "candidate"}
        /\ arm' = (IF arm = "baseline" THEN "candidate" ELSE "rerun")
        /\ tried' = Append(tried, result) /\ result \in Results
    BY <1>2 DEF NextArm, StepInv, ArmInv, Arms, Sides, TypeOK
  <2>1. tried' \in Seq(Results) /\ Len(tried') = Len(tried) + 1
    BY <2>0, AppendProperties DEF ArmInv
  <2> QED BY <2>0, <2>1 DEF ArmInv, Arms, Sides
<1>3. CASE NextTask
  BY <1>3, EmptySeq DEF NextTask, StepInv, ArmInv, Arms, Sides
<1>4. CASE Trial
  BY <1>4, <1>1 DEF Trial, CreateWorkspace, Prepare, RefuseCommand, Spawn, ChildExits,
                    TimerFires, ChildCloses, SnapshotAfter, FinalSnapshot, Dispose,
         CreationFails, DisposalFails, Breaks, genVars
<1>5. CASE \/ RefusePlan \/ Start \/ FinishTask \/ AppendRun \/ CompleteCalibration
           \/ \E light \in BOOLEAN : Complete(light)
  BY <1>5, <1>1 DEF RefusePlan, Start, FinishTask, AppendRun, CompleteCalibration, Complete,
                    trialVars
<1>6. CASE Crash
  BY <1>6, <1>1 DEF Crash
<1>7. CASE UNCHANGED vars
  BY <1>7, <1>1 DEF vars, genVars
<1> QED BY <1>2, <1>3, <1>4, <1>5, <1>6, <1>7 DEF Next, Progress

GenInv == TypeOK /\ WorkspaceInv /\ ArmInv /\ Account

LEMMA GenInit == Init => GenInv
<1> SUFFICES ASSUME Init PROVE GenInv
  OBVIOUS
<1>1. /\ NoChild \in Children /\ NoResult \in Results /\ 0 \in 0..MaxMishaps
      /\ "baseline" \in Arms /\ plan \in Plans
  BY GenerationAssumption DEF Init, NoChild, Children, NoResult, Results, Arms, Sides
<1>2. <<>> \in Seq(Results) /\ <<>> \in Seq(Runs) /\ Len(<<>>) = 0
  BY EmptySeq
<1>3. TypeOK
  BY <1>1, <1>2 DEF Init, TypeOK, Children
<1>4. ArmInv
  BY <1>1, <1>2 DEF Init, ArmInv
<1>5. Len(Schedule) \in Nat
  BY <1>1, ScheduleShape DEF Schedule
<1>6. PlanInv /\ RunsInv
  BY <1>2, <1>5 DEF Init, PlanInv, RunsInv, RunsAre, TypeOK
<1>7. LogInv /\ VerdictInv
  BY DEF Init, LogInv, VerdictInv, Listed
<1> QED BY <1>3, <1>4, <1>6, <1>7, WorkspaceInit DEF GenInv, Account

\* Steps of the command around its trials, and the account they keep.
LEMMA AccountNext ==
  ASSUME GenInv, [Next]_vars PROVE Account' /\ runs' \in Seq(Runs)
<1>0. TypeOK /\ StepInv /\ ArmInv /\ Account /\ runs \in Seq(Runs)
  BY DEF GenInv, TypeOK, WorkspaceInv
<1>1. CASE Trial
  <2>1. UNCHANGED <<plan, at, runs, log>>
    BY <1>1 DEF Trial, CreateWorkspace, Prepare, RefuseCommand, Spawn, ChildExits,
         TimerFires, ChildCloses, SnapshotAfter, FinalSnapshot, Dispose,
         CreationFails, DisposalFails, Breaks, genVars
  <2>2. \/ stage' = stage
        \/ stage = "try" /\ stage' = "over"
    BY <1>0, <1>1 DEF Trial, CreateWorkspace, Prepare, RefuseCommand, Spawn, ChildExits,
         TimerFires, ChildCloses, SnapshotAfter, FinalSnapshot, Dispose,
         CreationFails, DisposalFails, Breaks, genVars, StepInv
  <2>3. runs' \in Seq(Runs)
    BY <1>0, <2>1
  <2> QED BY <1>0, <2>1, <2>2, <2>3, QuietKeeps
<1>2. CASE RefusePlan \/ FinishTask \/ NextArm \/ Crash \/ UNCHANGED vars
  <2>1. UNCHANGED <<plan, at, runs, log>>
    BY <1>2 DEF RefusePlan, FinishTask, NextArm, Crash, vars, genVars
  <2>2. \/ stage' = stage
        \/ stage = "read" /\ stage' = "over"
        \/ stage \in {"try", "log"} /\ stage' \in {"over", "crashed"}
    BY <1>0, <1>2 DEF RefusePlan, FinishTask, NextArm, Crash, vars, genVars, StepInv
  <2>3. runs' \in Seq(Runs)
    BY <1>0, <2>1
  <2> QED BY <1>0, <2>1, <2>2, <2>3, QuietKeeps
<1>3. CASE Start
  BY <1>0, <1>3, StartKeeps DEF Start
<1>4. CASE NextTask
  BY <1>0, <1>4, NextTaskKeeps
<1>5. CASE AppendRun
  BY <1>0, <1>5, AppendRunKeeps DEF AppendRun
<1>6. CASE CompleteCalibration \/ \E light \in BOOLEAN : Complete(light)
  BY <1>0, <1>6, CompletionKeeps DEF CompleteCalibration, Complete
<1> QED BY <1>1, <1>2, <1>3, <1>4, <1>5, <1>6 DEF Next, Progress

LEMMA GenNext == GenInv /\ [Next]_vars => GenInv'
<1> SUFFICES ASSUME GenInv, [Next]_vars PROVE GenInv'
  OBVIOUS
<1>0. TypeOK /\ WorkspaceInv /\ StepInv /\ ArmInv /\ Account
  BY DEF GenInv, WorkspaceInv
<1>1. WorkspaceInv'
  BY <1>0, WorkspaceNext
<1>2. ArmInv'
  BY <1>0, ArmNext
<1>3. Account' /\ runs' \in Seq(Runs)
  BY AccountNext
<1>4. TypeOK'
  <2>1. CASE Trial
    BY <1>0, <1>1, <2>1, TrialTypes
  <2>2. CASE UNCHANGED vars
    BY <1>0, <2>2 DEF TypeOK, vars, genVars, trialVars
  <2>3. CASE \/ RefusePlan \/ Start \/ FinishTask \/ NextArm \/ NextTask \/ AppendRun
             \/ CompleteCalibration \/ Crash \/ \E light \in BOOLEAN : Complete(light)
    <3>1. UNCHANGED <<child, timer, result, caught, workspaces, broken, mishaps>>
      BY <2>3 DEF RefusePlan, Start, FinishTask, NextArm, NextTask, AppendRun,
                  CompleteCalibration, Complete, Crash, trialVars
    <3>2. plan' = plan /\ exit' \in {exit, 0, 1}
      BY <2>3 DEF RefusePlan, Start, FinishTask, NextArm, NextTask, AppendRun,
                  CompleteCalibration, Complete, Crash, trialVars
    <3>3. at' \in Nat
      <4>1. at' \in {at, at + 1, 1}
        BY <2>3 DEF RefusePlan, Start, FinishTask, NextArm, NextTask, AppendRun,
                    CompleteCalibration, Complete, Crash, trialVars
      <4> QED BY <1>0, <4>1 DEF TypeOK
    <3>4. stage' \in {"read", "try", "log", "over", "crashed"}
          /\ step' \in {"idle", "create", "prepare", "spawn", "wait", "after", "finally",
                        "dispose", "done"}
      BY <1>1 DEF WorkspaceInv, StepInv, Holding, Empty
    <3>5. arm' \in Arms /\ tried' \in Seq(Results)
      BY <1>2 DEF ArmInv
    <3> QED BY <1>0, <1>3, <3>1, <3>2, <3>3, <3>4, <3>5 DEF TypeOK
  <2> QED BY <2>1, <2>2, <2>3 DEF Next, Progress
<1> QED BY <1>1, <1>2, <1>3, <1>4 DEF GenInv

Completed == log # <<>> /\ Last(log).type = "GENERATION_COMPLETED"

\* Where the run of the k-th task by a side is kept.
Where(k, m) == IF m = "baseline" THEN 2 * k - 1 ELSE 2 * k

\* What is known once the verdict is written.
LEMMA WhenCompleted ==
  ASSUME GenInv, Completed
  PROVE  LET N == Len(Schedule) IN
         /\ N \in Nat \ {0} /\ DOMAIN Schedule = 1..N
         /\ \A j, k \in 1..N : Schedule[j] = Schedule[k] => j = k
         /\ Len(log) = 2 * N + 2 /\ DOMAIN log = 1..(2 * N + 2) /\ log[1].payload = N
         /\ log[1].type = "GENERATION_STARTED"
         /\ log[2 * N + 2].type = "GENERATION_COMPLETED" /\ Last(log) = log[2 * N + 2]
         /\ DOMAIN runs = 1..(2 * N) /\ runs \in Seq(Runs)
         /\ \A i \in 1..(2 * N) : log[i + 1] = RunEvent(runs[i])
         /\ plan.mode = "generalization" =>
              /\ Last(log).payload.light \in BOOLEAN
              /\ (Last(log).payload.passed <=> EvaluateHoldout(Last(log).payload.light))
<1> DEFINE N == Len(Schedule)
<1>0. TypeOK /\ PlanInv /\ LogInv /\ VerdictInv
  BY DEF GenInv, Account
<1>1. /\ Last(log) = log[Len(log)] /\ Len(log) \in DOMAIN log /\ DOMAIN log = 1..Len(log)
      /\ Last(log).type = "GENERATION_COMPLETED"
  <2>1. log \in Seq(Range(log)) /\ log # <<>> /\ DOMAIN log = 1..Len(log)
        /\ Last(log).type = "GENERATION_COMPLETED"
    BY <1>0 DEF LogInv, Completed, Listed
  <2>2. Len(log) \in Nat \ {0}
    BY <2>1, EmptySeq
  <2> QED BY <2>1, <2>2 DEF Last
<1>2. /\ plan.mode # "task" /\ at = N /\ RunsAre(at) /\ Len(log) = Len(runs) + 2
      /\ plan.mode = "generalization" =>
           /\ Last(log).payload.light \in BOOLEAN
           /\ (Last(log).payload.passed <=> EvaluateHoldout(Last(log).payload.light))
  BY <1>0, <1>1 DEF VerdictInv
<1>3. ValidPlan(plan) \/ ValidTask(plan)
  BY <1>0 DEF PlanInv, Completed
<1>4. /\ N \in Nat \ {0} /\ CountTasks = N
      /\ \A j, k \in 1..N : Schedule[j] = Schedule[k] => j = k
  BY <1>0, <1>2, <1>3, ScheduleIsSound DEF TypeOK
<1>5. DOMAIN Schedule = 1..N
  BY <1>0, ScheduleShape DEF Schedule, TypeOK
<1>6. runs \in Seq(Runs) /\ DOMAIN runs = 1..(2 * N) /\ Len(runs) = 2 * N
  BY <1>2, LenProperties DEF RunsAre
<1>7. log[1].payload = N /\ log[1].type = "GENERATION_STARTED"
  BY <1>0, <1>4 DEF LogInv, Completed, Event
<1>8. \A i \in 1..(2 * N) : log[i + 1] = RunEvent(runs[i])
  <2> TAKE i \in 1..(2 * N)
  <2>1. i + 1 \in 2..Len(log) /\ (i + 1) - 1 = i
    BY <1>2, <1>4, <1>6
  <2> QED BY <1>0, <1>6, <2>1 DEF LogInv
<1> HIDE DEF N
<1> QED BY <1>1, <1>2, <1>4, <1>5, <1>6, <1>7, <1>8 DEF N

\* The runs are kept where they are looked for, and nowhere else.
LEMMA RunsArePlaced ==
  ASSUME GenInv, Completed
  PROVE  /\ \A k \in 1..Len(Schedule), m \in Sides :
              /\ Where(k, m) \in 1..(2 * Len(Schedule))
              /\ runs[Where(k, m)].task = Schedule[k] /\ runs[Where(k, m)].mode = m
         /\ \A i \in 1..(2 * Len(Schedule)) :
              \E k \in 1..Len(Schedule) : i \in {2 * k - 1, 2 * k} /\ runs[i].task = Schedule[k]
                /\ runs[i].mode \in Sides /\ i = Where(k, runs[i].mode)
<1> DEFINE N == Len(Schedule)
<1>1. RunsAre(N) /\ N \in Nat
  <2>1. VerdictInv /\ Len(log) \in DOMAIN log /\ log[Len(log)].type = "GENERATION_COMPLETED"
    <3>1. DOMAIN log = 1..(2 * N + 2) /\ N \in Nat /\ Len(log) = 2 * N + 2
          /\ log[2 * N + 2].type = "GENERATION_COMPLETED"
      BY WhenCompleted
    <3> HIDE DEF N
    <3>2. 2 * N + 2 \in 1..(2 * N + 2)
      BY <3>1
    <3> QED BY <3>1, <3>2 DEF GenInv, Account
  <2> QED BY <2>1, WhenCompleted DEF VerdictInv
<1>2. \A k \in 1..N :
        /\ runs[2 * k - 1].task = Schedule[k] /\ runs[2 * k - 1].mode = "baseline"
        /\ runs[2 * k].task = Schedule[k] /\ runs[2 * k].mode = "candidate"
  BY <1>1 DEF RunsAre
<1> HIDE DEF N
<1>3. ASSUME NEW k \in 1..N, NEW m \in Sides
      PROVE  /\ Where(k, m) \in 1..(2 * N)
             /\ runs[Where(k, m)].task = Schedule[k] /\ runs[Where(k, m)].mode = m
  <2>1. CASE m = "baseline"
    <3>1. Where(k, m) = 2 * k - 1 /\ 2 * k - 1 \in 1..(2 * N)
      BY <1>1, <2>1 DEF Where
    <3> QED BY <1>2, <2>1, <3>1
  <2>2. CASE m = "candidate"
    <3>1. Where(k, m) = 2 * k /\ 2 * k \in 1..(2 * N)
      BY <1>1, <2>2 DEF Where
    <3> QED BY <1>2, <2>2, <3>1
  <2> QED BY <2>1, <2>2 DEF Sides
<1>4. ASSUME NEW i \in 1..(2 * N)
      PROVE  \E k \in 1..N : i \in {2 * k - 1, 2 * k} /\ runs[i].task = Schedule[k]
                /\ runs[i].mode \in Sides /\ i = Where(k, runs[i].mode)
  <2> DEFINE k == (i + 1) \div 2
  <2>1. k \in 1..N /\ (i = 2 * k - 1 \/ i = 2 * k)
    BY <1>1
  <2> HIDE DEF k
  <2>2. CASE i = 2 * k - 1
    <3>1. runs[i].task = Schedule[k] /\ runs[i].mode = "baseline"
      BY <1>2, <2>1, <2>2
    <3> QED BY <2>1, <2>2, <3>1 DEF Where, Sides
  <2>3. CASE i = 2 * k
    <3>1. runs[i].task = Schedule[k] /\ runs[i].mode = "candidate"
      BY <1>2, <2>1, <2>3
    <3> QED BY <2>1, <2>3, <3>1 DEF Where, Sides
  <2> QED BY <2>1, <2>2, <2>3
<1> QED BY <1>3, <1>4 DEF N

\* The log has one run of each task by each side, the one that was made.
LEMMA LoggedOnce ==
  ASSUME GenInv, Completed, NEW i \in DOMAIN runs
  PROVE  Logged(runs[i].task, runs[i].mode) = {i + 1} /\ SaidOf(runs[i].task, runs[i].mode) = runs[i]
<1> DEFINE N == Len(Schedule)
           t == runs[i].task
           m == runs[i].mode
<1>1. /\ N \in Nat \ {0} /\ \A j, k \in 1..N : Schedule[j] = Schedule[k] => j = k
      /\ DOMAIN log = 1..(2 * N + 2) /\ log[1].type = "GENERATION_STARTED"
      /\ log[2 * N + 2].type = "GENERATION_COMPLETED" /\ DOMAIN runs = 1..(2 * N)
      /\ \A j \in 1..(2 * N) : log[j + 1] = RunEvent(runs[j])
  BY WhenCompleted
<1>2. /\ \A j \in 1..(2 * N) : /\ log[j + 1].type = "EXPERIMENT_RUN_COMPLETED"
                               /\ log[j + 1].run = runs[j]
  <2>1. \A r : RunEvent(r).type = "EXPERIMENT_RUN_COMPLETED" /\ RunEvent(r).run = r
    BY DEF RunEvent
  <2> QED BY <1>1, <2>1
<1>3. ASSUME NEW j \in 1..(2 * N), runs[j].task = t, runs[j].mode = m PROVE j = i
  <2>1. PICK k \in 1..N : runs[i].task = Schedule[k] /\ i = Where(k, runs[i].mode)
    BY <1>1, RunsArePlaced
  <2>2. PICK l \in 1..N : runs[j].task = Schedule[l] /\ j = Where(l, runs[j].mode)
    BY <1>1, RunsArePlaced
  <2>3. k = l
    BY <1>1, <1>3, <2>1, <2>2
  <2> QED BY <1>3, <2>1, <2>2, <2>3
<1> HIDE DEF N, t, m
<1>4. i \in 1..(2 * N) /\ i + 1 \in 1..(2 * N + 2)
  BY <1>1
<1>5. i + 1 \in Logged(t, m)
  <2>1. log[i + 1].type = "EXPERIMENT_RUN_COMPLETED" /\ log[i + 1].run = runs[i]
    BY <1>2, <1>4
  <2>2. log[i + 1].run.task = t /\ log[i + 1].run.mode = m
    BY <2>1 DEF t, m
  <2> QED BY <1>1, <1>4, <2>1, <2>2 DEF Logged
<1>6. ASSUME NEW j \in Logged(t, m) PROVE j = i + 1
  <2>1. /\ j \in 1..(2 * N + 2) /\ log[j].type = "EXPERIMENT_RUN_COMPLETED"
        /\ log[j].run.task = t /\ log[j].run.mode = m
    BY <1>1 DEF Logged
  <2>2. j # 1 /\ j # 2 * N + 2
    BY <1>1, <2>1
  <2>3. j - 1 \in 1..(2 * N) /\ (j - 1) + 1 = j
    BY <1>1, <2>1, <2>2
  <2>4. log[j].run = runs[j - 1]
    BY <1>2, <2>3
  <2>5. j - 1 = i
    BY <1>3, <2>1, <2>3, <2>4
  <2> QED BY <2>3, <2>5
<1>7. Logged(t, m) = {i + 1}
  BY <1>5, <1>6
<1>8. SaidOf(t, m) = runs[i]
  <2>1. (CHOOSE j \in {i + 1} : TRUE) = i + 1
    OBVIOUS
  <2>2. (CHOOSE j \in Logged(t, m) : TRUE) = i + 1
    BY <1>7, <2>1
  <2> QED BY <1>2, <1>4, <2>2 DEF SaidOf
<1> QED BY <1>7, <1>8 DEF t, m

\* Counting the tasks of the holdout by what the log says of them is counting
\* the runs of one side.
\* Each task of the holdout has one place among the runs of a side.
LEMMA PlacesOfTasks ==
  ASSUME GenInv, Completed, NEW m \in Sides
  PROVE  /\ IsFiniteSet(Side(3, m))
         /\ \A i \in Side(3, m) : runs[i].task \in Holdout
         /\ \A i, j \in Side(3, m) : runs[i].task = runs[j].task => i = j
         /\ \A t \in Holdout : \E i \in Side(3, m) : runs[i].task = t
<1> DEFINE N == Len(Schedule)
           A == Side(3, m)
<1>1. /\ N \in Nat \ {0} /\ \A j, k \in 1..N : Schedule[j] = Schedule[k] => j = k
      /\ DOMAIN runs = 1..(2 * N) /\ DOMAIN Schedule = 1..N
  BY WhenCompleted
<1>2. A \in SUBSET (1..(2 * N)) /\ \A i \in A : runs[i].mode = m /\ runs[i].task \in Holdout
  BY <1>1 DEF Side, Holdout
<1>3. IsFiniteSet(A)
  <2>1. 1 \in Int /\ 2 * N \in Int
    BY <1>1
  <2>2. IsFiniteSet(1..(2 * N))
    BY <2>1, FS_Interval
  <2> QED BY <1>2, <2>2, FS_Subset
<1>4. ASSUME NEW i \in A, NEW j \in A, runs[i].task = runs[j].task PROVE i = j
  <2>1. i \in 1..(2 * N) /\ j \in 1..(2 * N) /\ runs[i].task = runs[j].task
        /\ runs[i].mode = m /\ runs[j].mode = m
    BY <1>2, <1>4
  <2>2. PICK k \in 1..N : runs[i].task = Schedule[k] /\ i = Where(k, runs[i].mode)
    BY <2>1, RunsArePlaced
  <2>3. PICK l \in 1..N : runs[j].task = Schedule[l] /\ j = Where(l, runs[j].mode)
    BY <2>1, RunsArePlaced
  <2>4. k = l
    BY <1>1, <2>1, <2>2, <2>3
  <2> QED BY <2>1, <2>2, <2>3, <2>4
<1>5. ASSUME NEW t \in Holdout PROVE \E i \in A : runs[i].task = t
  <2>1. t \in Range(Schedule)
    BY ScheduleShape DEF GenInv, TypeOK, Holdout, Schedule
  <2>2. PICK k \in 1..N : t = Schedule[k]
    BY <1>1, <2>1 DEF Range
  <2>3. Where(k, m) \in 1..(2 * N) /\ runs[Where(k, m)].task = t /\ runs[Where(k, m)].mode = m
    BY <2>2, RunsArePlaced
  <2>4. Where(k, m) \in Side(3, m)
    BY <1>1, <2>3 DEF Side, Holdout
  <2> QED BY <2>3, <2>4
<1> QED BY <1>2, <1>3, <1>4, <1>5

\* What is one to one has as many on either side.
LEMMA Matched ==
  ASSUME NEW A, NEW B, IsFiniteSet(A), NEW f \in [A -> B],
         \A x, y \in A : f[x] = f[y] => x = y, \A z \in B : \E x \in A : f[x] = z
  PROVE  IsFiniteSet(B) /\ Cardinality(B) = Cardinality(A)
<1>1. f \in Injection(A, B) /\ f \in Surjection(A, B)
  BY Fun_IsInj, Fun_IsSurj
<1>2. ExistsBijection(A, B)
  BY <1>1 DEF Bijection, ExistsBijection
<1> QED BY <1>2, FS_Bijection

LEMMA CountedByTask ==
  ASSUME GenInv, Completed, NEW m \in Sides, NEW B \in SUBSET Holdout,
         NEW A \in SUBSET Side(3, m), \A i \in Side(3, m) : i \in A <=> runs[i].task \in B
  PROVE  IsFiniteSet(B) /\ Cardinality(B) = Cardinality(A)
<1> DEFINE f == [i \in A |-> runs[i].task]
<1>1. IsFiniteSet(A)
  BY PlacesOfTasks, FS_Subset
<1>2. f \in [A -> B] /\ \A i \in A : f[i] = runs[i].task
  OBVIOUS
<1> HIDE DEF f
<1>3. \A i, j \in A : f[i] = f[j] => i = j
  BY <1>2, PlacesOfTasks
<1>4. ASSUME NEW t \in B PROVE \E i \in A : f[i] = t
  BY <1>2, PlacesOfTasks
<1> QED BY <1>1, <1>2, <1>3, <1>4, Matched, Zenon

LEMMA TickedByTask ==
  ASSUME GenInv, Completed, NEW m \in Sides, NEW B \in SUBSET (Holdout \X (1..MaxTicks)),
         NEW A \in SUBSET (Side(3, m) \X (1..MaxTicks)),
         \A i \in Side(3, m), k \in 1..MaxTicks : <<i, k>> \in A <=> <<runs[i].task, k>> \in B
  PROVE  Cardinality(B) = Cardinality(A)
<1> DEFINE f == [x \in A |-> <<runs[x[1]].task, x[2]>>]
<1>0. 1 \in Int /\ MaxTicks \in Int
  BY GenerationAssumption
<1>a. IsFiniteSet(Side(3, m))
  BY PlacesOfTasks
<1>b. IsFiniteSet(1..MaxTicks)
  BY <1>0, FS_Interval
<1>c. IsFiniteSet(Side(3, m) \X (1..MaxTicks))
  BY <1>a, <1>b, FS_Product
<1>1. IsFiniteSet(A)
  BY <1>c, FS_Subset
<1>2. \A x \in A : /\ x[1] \in Side(3, m) /\ x[2] \in 1..MaxTicks /\ x = <<x[1], x[2]>>
                  /\ <<runs[x[1]].task, x[2]>> \in B
  OBVIOUS
<1>3. f \in [A -> B] /\ \A x \in A : f[x] = <<runs[x[1]].task, x[2]>>
  BY <1>2
<1> HIDE DEF f
<1>4. ASSUME NEW x \in A, NEW y \in A, f[x] = f[y] PROVE x = y
  <2>1. runs[x[1]].task = runs[y[1]].task /\ x[2] = y[2]
    BY <1>3, <1>4
  <2>2. x[1] = y[1]
    BY <1>2, <2>1, PlacesOfTasks
  <2> QED BY <1>2, <2>1, <2>2
<1>5. ASSUME NEW z \in B PROVE \E x \in A : f[x] = z
  <2>1. z[1] \in Holdout /\ z[2] \in 1..MaxTicks /\ z = <<z[1], z[2]>>
    OBVIOUS
  <2>2. PICK i \in Side(3, m) : runs[i].task = z[1]
    BY <2>1, PlacesOfTasks
  <2>3. <<i, z[2]>> \in A
    BY <2>1, <2>2
  <2>4. f[<<i, z[2]>>] = z
    BY <1>3, <2>1, <2>2, <2>3
  <2> QED BY <2>3, <2>4
<1> QED BY <1>1, <1>3, <1>4, <1>5, Matched, Zenon
\* Each task that was announced is in the log once for each side.
LEMMA EachTaskIsLogged ==
  ASSUME GenInv, Completed, NEW t \in Range(Schedule), NEW m \in Sides
  PROVE  \E i \in DOMAIN runs : /\ runs[i].task = t /\ runs[i].mode = m /\ runs[i] \in Runs
                                /\ Logged(t, m) = {i + 1} /\ SaidOf(t, m) = runs[i]
<1>1. DOMAIN Schedule = 1..Len(Schedule) /\ DOMAIN runs = 1..(2 * Len(Schedule))
      /\ runs \in Seq(Runs)
  BY WhenCompleted
<1>2. PICK k \in 1..Len(Schedule) : t = Schedule[k]
  BY <1>1 DEF Range
<1> DEFINE i == Where(k, m)
<1>3. i \in DOMAIN runs /\ runs[i].task = t /\ runs[i].mode = m
  BY <1>1, <1>2, RunsArePlaced
<1> HIDE DEF i
<1>4. Logged(t, m) = {i + 1} /\ SaidOf(t, m) = runs[i]
  BY <1>3, LoggedOnce
<1>5. runs[i] \in Runs
  BY <1>1, <1>3
<1> QED BY <1>3, <1>4, <1>5

\* The summary of a side of the holdout, task by task.
LEMMA SummaryByTask ==
  ASSUME GenInv, Completed, NEW m \in Sides
  PROVE  LET s == Summarize(Side(3, m)) IN
         /\ IsFiniteSet(Holdout)
         /\ s.count = Cardinality(Holdout)
         /\ s.successes = Cardinality({t \in Holdout : SaidOf(t, m).success})
         /\ s.regressions = Cardinality({t \in Holdout : SaidOf(t, m).regression})
         /\ s.ticks = Cardinality({x \in Holdout \X (1..MaxTicks) : x[2] <= SaidOf(x[1], m).ticks})
         /\ s.judged
              = Cardinality({t \in Holdout : SaidOf(t, m).accepted \in Acceptance \ {"none"}})
         /\ s.accepted
              = Cardinality({t \in Holdout : SaidOf(t, m).accepted \in {"accept", "3", "4", "5"}})
<1> DEFINE S == Side(3, m)
<1>1. \A i \in S : /\ runs[i].task \in Holdout /\ SaidOf(runs[i].task, m) = runs[i]
                   /\ runs[i] \in Runs
  <2> TAKE i \in S
  <2>1. i \in DOMAIN runs /\ runs[i].mode = m /\ runs[i].task \in Holdout
    BY DEF Side, Holdout
  <2>2. runs[i] \in Runs
    BY <2>1, LenProperties DEF GenInv, TypeOK
  <2> QED BY <2>1, <2>2, LoggedOnce
<1> HIDE DEF S
<1>2. S = Side(3, m)
  BY DEF S
<1>3. IsFiniteSet(Holdout) /\ Cardinality(Holdout) = Cardinality(S)
  BY <1>1, <1>2, CountedByTask
<1>4. Cardinality({t \in Holdout : SaidOf(t, m).success}) = Cardinality({i \in S : runs[i].success})
  <2> DEFINE A == {i \in S : runs[i].success}
             B == {t \in Holdout : SaidOf(t, m).success}
  <2>1. \A i \in S : i \in A <=> runs[i].task \in B
    BY <1>1, Zenon
  <2> QED BY <1>2, <2>1, CountedByTask
<1>5. Cardinality({t \in Holdout : SaidOf(t, m).regression})
        = Cardinality({i \in S : runs[i].regression})
  <2> DEFINE A == {i \in S : runs[i].regression}
             B == {t \in Holdout : SaidOf(t, m).regression}
  <2>1. \A i \in S : i \in A <=> runs[i].task \in B
    BY <1>1, Zenon
  <2> QED BY <1>2, <2>1, CountedByTask
<1>6. Cardinality({x \in Holdout \X (1..MaxTicks) : x[2] <= SaidOf(x[1], m).ticks})
        = Cardinality({x \in S \X (1..MaxTicks) : x[2] <= runs[x[1]].ticks})
  <2> DEFINE A == {x \in S \X (1..MaxTicks) : x[2] <= runs[x[1]].ticks}
             B == {x \in Holdout \X (1..MaxTicks) : x[2] <= SaidOf(x[1], m).ticks}
  <2>1. \A i \in S, k \in 1..MaxTicks : <<i, k>> \in A <=> <<runs[i].task, k>> \in B
    BY <1>1
  <2>2. A \in SUBSET (Side(3, m) \X (1..MaxTicks)) /\ B \in SUBSET (Holdout \X (1..MaxTicks))
    BY <1>2
  <2>3. \A i \in Side(3, m), k \in 1..MaxTicks : <<i, k>> \in A <=> <<runs[i].task, k>> \in B
    BY <1>2, <2>1
  <2> HIDE DEF A, B
  <2>4. Cardinality(B) = Cardinality(A)
    BY <2>2, <2>3, TickedByTask
  <2> QED BY <2>4 DEF A, B
<1>7. Cardinality({t \in Holdout : SaidOf(t, m).accepted \in Acceptance \ {"none"}})
        = Cardinality({i \in S : runs[i].accepted # "none"})
  <2> DEFINE A == {i \in S : runs[i].accepted # "none"}
             B == {t \in Holdout : SaidOf(t, m).accepted \in Acceptance \ {"none"}}
  <2>1. \A i \in S : i \in A <=> runs[i].task \in B
    BY <1>1 DEF Runs
  <2> QED BY <1>2, <2>1, CountedByTask
<1>8. Cardinality({t \in Holdout : SaidOf(t, m).accepted \in {"accept", "3", "4", "5"}})
        = Cardinality({i \in S : runs[i].accepted \in {"accept", "3", "4", "5"}})
  <2> DEFINE A == {i \in S : runs[i].accepted \in {"accept", "3", "4", "5"}}
             B == {t \in Holdout : SaidOf(t, m).accepted \in {"accept", "3", "4", "5"}}
  <2>1. \A i \in S : i \in A <=> runs[i].task \in B
    BY <1>1, Zenon
  <2> QED BY <1>2, <2>1, CountedByTask
<1>9. Summarize(S) = [count |-> Cardinality(S),
                      successes |-> Cardinality({i \in S : runs[i].success}),
                      regressions |-> Cardinality({i \in S : runs[i].regression}),
                      ticks |-> Cardinality({x \in S \X (1..MaxTicks) : x[2] <= runs[x[1]].ticks}),
                      judged |-> Cardinality({i \in S : runs[i].accepted # "none"}),
                      accepted |-> Cardinality({i \in S : runs[i].accepted
                                                            \in {"accept", "3", "4", "5"}})]
  BY Zenon DEF Summarize, Count, Ticks
<1> QED BY <1>2, <1>3, <1>4, <1>5, <1>6, <1>7, <1>8, <1>9

LEMMA RunsAreHonest ==
  ASSUME GenInv, Completed, NEW i \in DOMAIN runs
  PROVE  runs[i].success => ~runs[i].late
<1>1. RunsAre(Len(Schedule))
  <2> DEFINE N == Len(Schedule)
  <2>1. DOMAIN log = 1..(2 * N + 2) /\ N \in Nat
        /\ log[2 * N + 2].type = "GENERATION_COMPLETED"
    BY WhenCompleted
  <2> HIDE DEF N
  <2>2. 2 * N + 2 \in DOMAIN log
    BY <2>1
  <2> QED BY <2>1, <2>2 DEF GenInv, Account, VerdictInv, N
<1> QED BY <1>1 DEF RunsAre

\* A verdict that is in the log is what the thresholds say of the logged runs.
LEMMA Audited == GenInv => VerdictIsAudited
<1> SUFFICES ASSUME GenInv, Completed PROVE
      /\ Len(log) = 2 * log[1].payload + 2
      /\ \A t \in Range(Schedule), m \in Sides :
           /\ Cardinality(Logged(t, m)) = 1
           /\ SaidOf(t, m).success => ~SaidOf(t, m).late
      /\ plan.mode = "generalization" =>
           LET wins(m) == {t \in Holdout : SaidOf(t, m).success}
               ticks(m) == {x \in Holdout \X (1..MaxTicks) : x[2] <= SaidOf(x[1], m).ticks}
               lost    == {t \in Holdout : SaidOf(t, "candidate").regression}
               said(a) == {t \in Holdout : SaidOf(t, "candidate").accepted \in a}
               judged  == said(Acceptance \ {"none"})
               n       == Cardinality(Holdout)
               verdict == Last(log).payload
           IN  verdict.passed <=>
                 /\ verdict.light
                 /\ Cardinality(wins("candidate")) - Cardinality(wins("baseline"))
                      >= plan.minDelta * n
                 /\ Cardinality(lost) <= plan.maxRegression * n
                 /\ Cardinality(ticks("candidate")) - Cardinality(ticks("baseline"))
                      <= plan.maxIncrease * n
                 /\ judged # {}
                 /\ Cardinality(said({"accept", "3", "4", "5"}))
                      >= plan.minAcceptance * Cardinality(judged)
                 /\ n >= plan.minSample
  BY DEF VerdictIsAudited, Completed
<1>1. Len(log) = 2 * log[1].payload + 2
  BY WhenCompleted
<1>2. ASSUME NEW t \in Range(Schedule), NEW m \in Sides
      PROVE  /\ Cardinality(Logged(t, m)) = 1
             /\ SaidOf(t, m).success => ~SaidOf(t, m).late
  <2>1. PICK i \in DOMAIN runs : /\ runs[i] \in Runs /\ Logged(t, m) = {i + 1}
                                 /\ SaidOf(t, m) = runs[i]
    BY EachTaskIsLogged
  <2>2. Cardinality({i + 1}) = 1
    BY FS_Singleton
  <2>3. runs[i].success => ~runs[i].late
    BY RunsAreHonest
  <2> QED BY <2>1, <2>2, <2>3
<1>3. ASSUME plan.mode = "generalization"
      PROVE  LET wins(m) == {t \in Holdout : SaidOf(t, m).success}
                 ticks(m) == {x \in Holdout \X (1..MaxTicks) : x[2] <= SaidOf(x[1], m).ticks}
                 lost    == {t \in Holdout : SaidOf(t, "candidate").regression}
                 said(a) == {t \in Holdout : SaidOf(t, "candidate").accepted \in a}
                 judged  == said(Acceptance \ {"none"})
                 n       == Cardinality(Holdout)
                 verdict == Last(log).payload
             IN  verdict.passed <=>
                   /\ verdict.light
                   /\ Cardinality(wins("candidate")) - Cardinality(wins("baseline"))
                        >= plan.minDelta * n
                   /\ Cardinality(lost) <= plan.maxRegression * n
                   /\ Cardinality(ticks("candidate")) - Cardinality(ticks("baseline"))
                        <= plan.maxIncrease * n
                   /\ judged # {}
                   /\ Cardinality(said({"accept", "3", "4", "5"}))
                        >= plan.minAcceptance * Cardinality(judged)
                   /\ n >= plan.minSample
  <2> DEFINE b == Summarize(Side(3, "baseline"))
             c == Summarize(Side(3, "candidate"))
             light == Last(log).payload.light
             judged == {t \in Holdout : SaidOf(t, "candidate").accepted \in Acceptance \ {"none"}}
  <2>1. Last(log).payload.passed <=> EvaluateHoldout(light)
    BY <1>3, WhenCompleted
  <2>2. EvaluateHoldout(light) <=>
          /\ c.successes - b.successes >= plan.minDelta * c.count
          /\ c.regressions <= plan.maxRegression * c.count
          /\ c.ticks - b.ticks <= plan.maxIncrease * c.count
          /\ light
          /\ c.judged > 0
          /\ c.accepted >= plan.minAcceptance * c.judged
          /\ c.count >= plan.minSample
    BY DEF EvaluateHoldout
  <2>3. /\ c.count = Cardinality(Holdout) /\ IsFiniteSet(Holdout)
        /\ c.successes = Cardinality({t \in Holdout : SaidOf(t, "candidate").success})
        /\ b.successes = Cardinality({t \in Holdout : SaidOf(t, "baseline").success})
        /\ c.regressions = Cardinality({t \in Holdout : SaidOf(t, "candidate").regression})
        /\ c.ticks = Cardinality({x \in Holdout \X (1..MaxTicks) :
                                   x[2] <= SaidOf(x[1], "candidate").ticks})
        /\ b.ticks = Cardinality({x \in Holdout \X (1..MaxTicks) :
                                   x[2] <= SaidOf(x[1], "baseline").ticks})
        /\ c.judged = Cardinality(judged)
        /\ c.accepted = Cardinality({t \in Holdout : SaidOf(t, "candidate").accepted
                                                       \in {"accept", "3", "4", "5"}})
    BY SummaryByTask DEF Sides
  <2>4. c.judged > 0 <=> judged # {}
    <3>1. \A T \in SUBSET Holdout : Cardinality(T) \in Nat /\ (Cardinality(T) = 0 <=> T = {})
      BY <2>3, FS_Subset, FS_CardinalityType, FS_EmptySet
    <3>3. judged \in SUBSET Holdout
      OBVIOUS
    <3> HIDE DEF judged, c, b
    <3>4. c.judged \in Nat /\ (c.judged = 0 <=> judged = {})
      BY <2>3, <3>1, <3>3
    <3> QED BY <3>4
  <2> HIDE DEF b, c, light
  <2> QED BY <2>1, <2>2, <2>3, <2>4 DEF light
<1> QED BY <1>1, <1>2, <1>3

\* For any plans and commands every field of the command keeps its type.
THEOREM GenerationTypes == Spec => []TypeOK
<1>1. GenInv => TypeOK
  BY DEF GenInv
<1> QED BY <1>1, GenInit, GenNext, PTL DEF Spec

\* However trials fail and wherever the process dies, a verdict in the log can
\* be recomputed from the log: each task that was announced has been tried and
\* written once for each side, and the candidate has passed if and only if the
\* written runs of the holdout meet every threshold of the plan.
THEOREM VerdictsAreAudited == Spec => []VerdictIsAudited
<1> QED BY Audited, GenInit, GenNext, PTL DEF Spec
=============================================================================
