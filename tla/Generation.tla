----------------------------- MODULE Generation -----------------------------
(***************************************************************************)
(* One invocation of run-generation (or of run-task, a single trial with   *)
(* no log): the plan is parsed and validated, every task of it is tried by *)
(* the baseline and by the candidate, the fixed command is run once more   *)
(* to measure regressions, and only then are the runs and the verdict      *)
(* written to the event log.                                               *)
(*                                                                         *)
(* A trial is runTask: a workspace, a snapshot, a child process with a     *)
(* timer racing its exit, a second snapshot, and the disposal in finally.  *)
(* Rates of the plan are 0 or 1, so a rate is compared by counting; run    *)
(* times are counted in ticks.                                             *)
(***************************************************************************)
EXTENDS Integers, Sequences, FiniteSets, SequencesExt

CONSTANTS
  Tasks,     \* the task ids
  Specs,     \* the document each of them names
  Commands,  \* the commands
  NoCommand, \* options that name none
  Plans,     \* the plan files that may be given
  Natures,   \* how a command may behave
  Durations, \* how many ticks it may take when it ends in time
  MaxTicks,  \* bound: ticks that a command can take; one that overruns takes them
  MaxMishaps \* bound: failures of the file system, commands that overrun

Behaviours ==
  {"ok", "fails", "hangs", "graceful", "stubborn", "daemon", "missing"}
OnTime   == {"ok", "fails"}                      \* ends in time, as a rule
Obedient == {"ok", "fails", "hangs", "daemon"}   \* dies of the signal at once

ASSUME GenerationAssumption ==
  /\ Natures \in [Commands -> SUBSET Behaviours] /\ NoCommand \notin Commands
  /\ MaxTicks \in Nat /\ Durations \in [Commands -> (SUBSET (0..MaxTicks)) \ {{}}]
  /\ \A t \in Tasks : Specs[t].command \in Commands
  /\ MaxMishaps \in Nat

\* The tasks of a plan in the order they are tried, partition by partition.
AllTasks(p) == p.tasks[1] \o p.tasks[2] \o p.tasks[3]

\* A partition is a list, and the files of the other two modes hold one task.
ASSUME PlansAssumption ==
  \A p \in Plans :
    /\ \A i \in 1..3 : p.tasks[i] \in Seq(Range(p.tasks[i]))
    /\ p.mode \in {"calibration", "task"} => Len(AllTasks(p)) = 1

VARIABLES
  plan,        \* the plan file
  stage,       \* where the command is
  at,          \* the task being tried, as a place in the schedule
  arm,         \* "baseline", "candidate" or "rerun" of that task
  step,        \* where runTask is
  child,       \* the child process: its nature, state and exit code
  timer,       \* "off", "armed", or "fired" for this child
  result,      \* commandResult: NoResult until the child has closed
  caught,      \* an error was caught by runTask
  workspaces,  \* temporary directories that exist
  broken,      \* a workspace could not be made, photographed or removed
  tried,       \* results of the arms of this task so far
  runs,        \* the runs of the generation, in memory
  log,         \* the events it appended
  exit,        \* the exit code, -1 while running
  mishaps

trialVars == <<step, child, timer, result, caught, workspaces, broken>>
genVars == <<plan, stage, at, arm, tried, runs, log, exit>>
vars == <<genVars, trialVars, mishaps>>

Sides      == {"baseline", "candidate"}
Arms       == Sides \cup {"rerun"}
Acceptance == {"none", "accept", "reject", "1", "2", "3", "4", "5"}
Killed     == 2       \* the exit code of a child that a signal ended
NoChild    == [nature |-> "none", state |-> "none", code |-> 0]
NoResult   == [code |-> -1, timedOut |-> FALSE, ticks |-> 0]

------------------------------------------------------------------------------
\* readGenerationPlan and readTaskSpec begin with a file that holds JSON.
Readable(p) == p.file = "json"

\* parseExperimentConfig.
SoundConfig(p) == p.timeoutMs > 0 /\ "" \notin p.hashes

\* assertTaskSpec: the fields of a TaskSpec and no others, none of them empty.
IsTaskSpec(t) ==
  /\ t \in Tasks
  /\ Specs[t].fields = "all" /\ "" \notin Specs[t].texts
  /\ Specs[t].level \in 1..3

\* parseTaskRunnerOptions; limits, where given, are positive.
SoundRunner(o) == o.command # "" /\ o.limit > 0

\* parseExperimentRunOptions of a side and a task: the verdict of a person, and
\* how to run the command.
SoundOptions(p) ==
  \A side \in Sides : \A t \in DOMAIN p.options[side] :
    LET o == p.options[side][t] IN o.accepted \in Acceptance /\ SoundRunner(o)

\* parseGeneralizationThresholds, and then validateThresholds.
ParsedThresholds(p) == p.minSample >= 1
SoundThresholds(p)  == {p.maxRegression, p.minAcceptance} \subseteq {0, 1}

\* validatePlan: a plan says who it is, every partition has a task and no task
\* is named twice, in one partition or in two.
\* Bug: the partitions are checked one by one, not against each other.
Identified(p) == "" \notin p.identity /\ p.evolvedGeneration >= 1
Disjoint_PerPartition(p) ==
  \A i \in 1..3 : p.tasks[i] # <<>> /\ IsInjective(p.tasks[i])
Disjoint(p) ==
  /\ \A i \in 1..3 : p.tasks[i] # <<>>
  /\ IsInjective(AllTasks(p))

\* parseGeneralizationPlan.
SoundPlan(p) == Identified(p) /\ ParsedThresholds(p) /\ SoundThresholds(p) /\ Disjoint(p)

\* parseCalibrationTask, for every task of the plan.
SoundTasks(p) == \A t \in Range(AllTasks(p)) : IsTaskSpec(t)

\* parseGenerationPlan.
ValidPlan(p) ==
  /\ Readable(p) /\ p.mode \in {"calibration", "generalization"}
  /\ SoundConfig(p) /\ SoundTasks(p) /\ SoundOptions(p)
  /\ p.mode = "generalization" => SoundPlan(p)

\* readTaskSpec of run-task, whose file is a task and nothing else.
ValidTask(p) == Readable(p) /\ p.mode = "task" /\ SoundTasks(p)

\* The tasks that this invocation tries.
Schedule == AllTasks(plan)
Holdout  == Range(plan.tasks[3])

\* Options by task id, for the side they were given to.
NoOptions == [accepted |-> "none", command |-> NoCommand, limit |-> 1]
OptionsOf(side, t) ==
  IF t \in DOMAIN plan.options[side] THEN plan.options[side][t] ELSE NoOptions

\* The command of an arm: the one its options name, or the one of the task;
\* regressions are measured by the command of the task, whatever the options.
CommandOf(t, side) ==
  IF side = "rerun" \/ OptionsOf(side, t).command = NoCommand
  THEN Specs[t].command
  ELSE OptionsOf(side, t).command

\* isSuccessfulRun: an exit code of 0 counts only if the time was not out.
Succeeds(r) == r.code = 0 /\ ~r.timedOut

\* evaluate: a candidate that fails a task the fixed command passes regresses.
Evaluate(task, mode, r, fixed) ==
  [task |-> task, mode |-> mode, success |-> Succeeds(r),
   regression |-> mode = "candidate" /\ Succeeds(fixed) /\ ~Succeeds(r),
   late |-> r.timedOut, ticks |-> r.ticks,
   accepted |-> OptionsOf(mode, task).accepted]

\* summarize, of one side of one partition: of the places it has in runs.  The
\* ticks of all its runs are counted; the two sides of a partition have as many
\* runs, so that their averages differ as these sums do.
Count(S, P(_)) == Cardinality({i \in S : P(runs[i])})
Ticks(S) == Cardinality({x \in S \X (1..MaxTicks) : x[2] <= runs[x[1]].ticks})
Summarize(S) ==
  [count |-> Cardinality(S),
   successes |-> Count(S, LAMBDA r : r.success),
   regressions |-> Count(S, LAMBDA r : r.regression),
   ticks |-> Ticks(S),
   judged |-> Count(S, LAMBDA r : r.accepted # "none"),
   accepted |-> Count(S, LAMBDA r : r.accepted \in {"accept", "3", "4", "5"})]

Side(partition, mode) ==
  {i \in DOMAIN runs : /\ runs[i].mode = mode
                       /\ runs[i].task \in Range(plan.tasks[partition])}

\* evaluateHoldout: the checks of which all must hold.  The memory check is the
\* environment's, as the readings are.  Acceptance without any verdict is no
\* acceptance.
EvaluateHoldout(light) ==
  LET base    == Summarize(Side(3, "baseline"))
      evolved == Summarize(Side(3, "candidate"))
  IN  /\ evolved.successes - base.successes >= plan.minDelta * evolved.count
      /\ evolved.regressions <= plan.maxRegression * evolved.count
      /\ evolved.ticks - base.ticks <= plan.maxIncrease * evolved.count
      /\ light
      /\ evolved.judged > 0
      /\ evolved.accepted >= plan.minAcceptance * evolved.judged
      /\ evolved.count >= plan.minSample

------------------------------------------------------------------------------
Init ==
  /\ plan \in Plans
  /\ stage = "read" /\ at = 0 /\ arm = "baseline"
  /\ step = "idle" /\ child = NoChild /\ timer = "off" /\ result = NoResult
  /\ caught = FALSE /\ workspaces = 0 /\ broken = FALSE
  /\ tried = <<>> /\ runs = <<>> /\ log = <<>> /\ exit = -1 /\ mishaps = 0

\* The command refuses its file; nothing has been written.
RefusePlan ==
  /\ stage = "read" /\ ~ValidPlan(plan) /\ ~ValidTask(plan)
  /\ stage' = "over" /\ exit' = 1
  /\ UNCHANGED <<trialVars, plan, at, arm, tried, runs, log, mishaps>>

\* createEvent, and createRunEvent for a run; a calibration is generation 0.
Event(type, payload) == [type |-> type, payload |-> payload]
RunEvent(run) ==
  [type |-> "EXPERIMENT_RUN_COMPLETED", run |-> run,
   generation |-> IF plan.mode = "calibration" THEN 0 ELSE plan.evolvedGeneration]

\* countTasks.
CountTasks == IF plan.mode = "calibration" THEN 1 ELSE Len(Schedule)

\* executeGeneration announces itself before the first trial; run-task does not.
Start ==
  /\ stage = "read" /\ (ValidPlan(plan) \/ ValidTask(plan))
  /\ log' = IF plan.mode = "task" THEN <<>>
            ELSE <<Event("GENERATION_STARTED", CountTasks)>>
  /\ stage' = "try" /\ at' = 1 /\ step' = "create"
  /\ UNCHANGED <<plan, arm, child, timer, result, caught, workspaces,
                 broken, tried, runs, exit, mishaps>>

\* What runTask does not catch ends the command.
Breaks ==
  /\ broken' = TRUE
  /\ step' = "idle" /\ stage' = "over" /\ exit' = 1

\* runTask makes its workspace.  A directory that is there when the workspace
\* cannot be completed stays.
\* Bug: the workspace of the last trial is used again.
CreateWorkspace_Again ==
  /\ step = "create"
  /\ workspaces' = workspaces
  /\ step' = "prepare" /\ result' = NoResult /\ caught' = FALSE
  /\ UNCHANGED <<genVars, child, timer, broken, mishaps>>
CreateWorkspace ==
  /\ step = "create"
  /\ workspaces' = workspaces + 1
  /\ step' = "prepare" /\ result' = NoResult /\ caught' = FALSE
  /\ UNCHANGED <<genVars, child, timer, broken, mishaps>>

CreationFails ==
  /\ step = "create"
  /\ workspaces' \in {workspaces, workspaces + 1}
  /\ Breaks
  /\ UNCHANGED <<plan, at, arm, child, timer, result, caught, tried, runs, log, mishaps>>

\* It fills the workspace, takes the first snapshot and parses its command, any
\* of which may fail.
Prepare ==
  /\ step = "prepare"
  /\ \/ step' = "spawn" /\ caught' = FALSE
     \/ step' = "finally" /\ caught' = TRUE
  /\ mishaps' = IF caught' THEN mishaps + 1 ELSE mishaps
  /\ mishaps' <= MaxMishaps
  /\ UNCHANGED <<genVars, child, timer, result, workspaces, broken>>

\* runSandboxCommand refuses a command the task does not allow, and otherwise
\* starts the child and its timer.  A command that cannot be started reports it
\* by an error event, which leaves the timer armed.
RefuseCommand ==
  /\ step = "spawn" /\ CommandOf(Schedule[at], arm) \notin Specs[Schedule[at]].allowed
  /\ caught' = TRUE /\ step' = "finally"
  /\ UNCHANGED <<genVars, child, timer, result, workspaces, broken, mishaps>>

Spawn(nature) ==
  LET task == Schedule[at]  command == CommandOf(task, arm) IN
  /\ step = "spawn" /\ command \in Specs[task].allowed
  /\ nature \in Natures[command]
  /\ timer' = "armed"
  /\ IF nature = "missing"
     THEN step' = "finally" /\ caught' = TRUE /\ child' = NoChild
     ELSE /\ step' = "wait" /\ UNCHANGED caught
          /\ child' = [nature |-> nature, state |-> "running", code |-> 0]
  /\ UNCHANGED <<genVars, result, workspaces, broken, mishaps>>

\* The child comes to its end by itself, or after it was told to.
ChildExits ==
  /\ child.state = "running"
  /\ \/ child.nature \in {"ok", "fails", "daemon"}
     \/ child.nature = "graceful" /\ timer = "fired"
  /\ child' = [child EXCEPT !.state = "gone",
                            !.code = IF child.nature = "fails" THEN 1 ELSE 0]
  /\ UNCHANGED <<genVars, step, timer, result, caught, workspaces, broken,
                 mishaps>>

\* The timer asks the child to end, once; a child that has exited but not been
\* collected yet counts as timed out all the same.
\* Bug: the time is noted and the child is left alone.
TimerFires_NoKill ==
  /\ step = "wait" /\ timer = "armed"
  /\ timer' = "fired"
  /\ mishaps' = IF child.nature \in OnTime THEN mishaps + 1 ELSE mishaps
  /\ mishaps' <= MaxMishaps
  /\ UNCHANGED <<genVars, step, child, result, caught, workspaces, broken>>
TimerFires ==
  /\ step = "wait" /\ timer = "armed"
  /\ timer' = "fired"
  /\ mishaps' = IF child.nature \in OnTime THEN mishaps + 1 ELSE mishaps
  /\ mishaps' <= MaxMishaps
  /\ child' = IF child.state = "running" /\ child.nature \in Obedient
              THEN [child EXCEPT !.state = "gone", !.code = Killed]
              ELSE child
  /\ UNCHANGED <<genVars, step, result, caught, workspaces, broken>>

\* "close": the child is gone and its pipes are closed, which a descendant that
\* inherited them prevents.
ChildCloses ==
  /\ step = "wait" /\ child.state = "gone" /\ child.nature # "daemon"
  /\ \E ticks \in 0..MaxTicks :
       /\ IF timer = "fired" THEN ticks = MaxTicks
          ELSE ticks \in Durations[CommandOf(Schedule[at], arm)]
       /\ result' = [code |-> child.code, timedOut |-> timer = "fired", ticks |-> ticks]
  /\ timer' = "off" /\ child' = NoChild /\ step' = "after"
  /\ UNCHANGED <<genVars, caught, workspaces, broken, mishaps>>

\* The snapshot behind the command; what it throws is caught.
SnapshotAfter ==
  /\ step = "after"
  /\ caught' \in BOOLEAN
  /\ mishaps' = IF caught' THEN mishaps + 1 ELSE mishaps
  /\ mishaps' <= MaxMishaps
  /\ step' = "finally"
  /\ UNCHANGED <<genVars, child, timer, result, workspaces, broken>>

\* The snapshot in finally, for a result and for an error alike; what it throws
\* leaves runTask, past the disposal.
FinalSnapshot ==
  /\ step = "finally"
  /\ \/ step' = "dispose" /\ UNCHANGED <<stage, exit, broken>>
     \/ Breaks
  /\ UNCHANGED <<plan, at, arm, child, timer, result, caught, workspaces,
                 tried, runs, log, mishaps>>

\* Bug: the workspace is kept when an error was caught.
Dispose_OnSuccess ==
  /\ step = "dispose"
  /\ workspaces' = IF caught THEN workspaces ELSE workspaces - 1
  /\ step' = "done"
  /\ UNCHANGED <<genVars, child, timer, result, caught, broken, mishaps>>
Dispose ==
  /\ step = "dispose"
  /\ workspaces' = workspaces - 1
  /\ step' = "done"
  /\ UNCHANGED <<genVars, child, timer, result, caught, broken, mishaps>>

DisposalFails ==
  /\ step = "dispose" /\ Breaks
  /\ UNCHANGED <<plan, at, arm, child, timer, result, caught, workspaces,
                 tried, runs, log, mishaps>>

\* run-task: the one trial decides the exit code.
FinishTask ==
  /\ step = "done" /\ plan.mode = "task"
  /\ step' = "idle" /\ stage' = "over"
  /\ exit' = IF Succeeds(result) THEN 0 ELSE 1
  /\ UNCHANGED <<plan, at, arm, child, timer, result, caught, workspaces,
                 broken, tried, runs, log, mishaps>>

\* runBaseline and runCandidate: the baseline arm is a run of its own; the run
\* of the candidate waits for the fixed command to be tried once more.
NextArm ==
  /\ step = "done" /\ plan.mode # "task" /\ arm # "rerun"
  /\ arm' = IF arm = "baseline" THEN "candidate" ELSE "rerun"
  /\ tried' = Append(tried, result)
  /\ step' = "create"
  /\ UNCHANGED <<plan, stage, at, child, timer, result, caught, workspaces,
                 broken, runs, log, exit, mishaps>>

NextTask ==
  /\ step = "done" /\ plan.mode # "task" /\ arm = "rerun"
  /\ runs' = runs \o <<Evaluate(Schedule[at], "baseline", tried[1], NoResult),
                       Evaluate(Schedule[at], "candidate", tried[2], result)>>
  /\ tried' = <<>> /\ arm' = "baseline"
  /\ IF at < Len(Schedule)
     THEN at' = at + 1 /\ step' = "create" /\ UNCHANGED stage
     ELSE stage' = "log" /\ step' = "idle" /\ UNCHANGED at
  /\ UNCHANGED <<plan, child, timer, result, caught, workspaces, broken,
                 log, exit, mishaps>>

\* One event per run, then the verdict.
AppendRun ==
  /\ stage = "log" /\ Len(log) <= Len(runs)
  /\ log' = Append(log, RunEvent(runs[Len(log)]))
  /\ UNCHANGED <<trialVars, plan, stage, at, arm, tried, runs, exit, mishaps>>

\* A calibration has passed whatever it found.
CompleteCalibration ==
  /\ stage = "log" /\ Len(log) = Len(runs) + 1 /\ plan.mode = "calibration"
  /\ log' = Append(log, Event("GENERATION_COMPLETED", [passed |-> TRUE, light |-> TRUE]))
  /\ exit' = 0 /\ stage' = "over"
  /\ UNCHANGED <<trialVars, plan, at, arm, tried, runs, mishaps>>

Complete(light) ==
  /\ stage = "log" /\ Len(log) = Len(runs) + 1 /\ plan.mode = "generalization"
  /\ LET passed == EvaluateHoldout(light)
     IN  /\ log' = Append(log, Event("GENERATION_COMPLETED",
                                     [passed |-> passed, light |-> light]))
         /\ exit' = IF passed THEN 0 ELSE 1
  /\ stage' = "over"
  /\ UNCHANGED <<trialVars, plan, at, arm, tried, runs, mishaps>>

\* The process is killed; what it wrote and made stays.
Crash ==
  /\ stage \in {"try", "log"}
  /\ stage' = "crashed" /\ step' = "idle"
  /\ UNCHANGED <<plan, at, arm, child, timer, result, caught, workspaces,
                 broken, tried, runs, log, exit, mishaps>>

------------------------------------------------------------------------------
Trial == \/ CreateWorkspace \/ CreationFails \/ Prepare \/ RefuseCommand
         \/ \E nature \in Behaviours : Spawn(nature)
         \/ ChildExits \/ TimerFires \/ ChildCloses
         \/ SnapshotAfter \/ FinalSnapshot \/ Dispose \/ DisposalFails

Progress == \/ RefusePlan \/ Start \/ Trial
            \/ FinishTask \/ NextArm \/ NextTask \/ AppendRun \/ CompleteCalibration
            \/ \E light \in BOOLEAN : Complete(light)

Next == Progress \/ Crash

\* The file system answers and timers fire; a child need not do anything, and
\* nobody kills the process.
Fairness == WF_vars(Progress)

Spec == Init /\ [][Next]_vars /\ Fairness

------------------------------------------------------------------------------
Runs == [task : Tasks, mode : Sides, success : BOOLEAN,
         regression : BOOLEAN, late : BOOLEAN, ticks : 0..MaxTicks,
         accepted : Acceptance]
Results == [code : -1..2, timedOut : BOOLEAN, ticks : 0..MaxTicks]

TypeOK ==
  /\ plan \in Plans
  /\ stage \in {"read", "try", "log", "over", "crashed"}
  /\ at \in Nat /\ arm \in Arms
  /\ step \in {"idle", "create", "prepare", "spawn", "wait", "after", "finally",
              "dispose", "done"}
  /\ child \in [nature : Behaviours \cup {"none"},
               state : {"none", "running", "gone"}, code : 0..2]
  /\ timer \in {"off", "armed", "fired"}
  /\ result \in Results /\ caught \in BOOLEAN /\ broken \in BOOLEAN
  /\ workspaces \in Nat
  /\ tried \in Seq(Results) /\ runs \in Seq(Runs)
  /\ exit \in {-1, 0, 1} /\ mishaps \in 0..MaxMishaps

\* What the log says of the run of a task by one side.
Logged(t, m) ==
  {i \in DOMAIN log : /\ log[i].type = "EXPERIMENT_RUN_COMPLETED"
                      /\ log[i].run.task = t /\ log[i].run.mode = m}
SaidOf(t, m) == log[CHOOSE i \in Logged(t, m) : TRUE].run

\* The verdict can be recomputed from the log alone: a completed generation has
\* written each task it announced exactly once for each side, so no task of the
\* holdout was seen before; no success was timed out; and it passed if and only
\* if the written runs of the holdout meet every threshold of the plan.
VerdictIsAudited ==
  log # <<>> /\ Last(log).type = "GENERATION_COMPLETED" =>
    /\ Len(log) = 2 * log[1].payload + 2
    /\ \A t \in Range(Schedule), m \in Sides :
         /\ Cardinality(Logged(t, m)) = 1
         /\ SaidOf(t, m).success => ~SaidOf(t, m).late
    /\ plan.mode = "generalization" =>
         LET wins(m) == {t \in Holdout : SaidOf(t, m).success}
             ticks(m) == {x \in Holdout \X (1..MaxTicks) : x[2] <= SaidOf(x[1], m).ticks}
             lost    == {t \in Holdout : SaidOf(t, "candidate").regression}
             said(a) == {t \in Holdout : SaidOf(t, "candidate").accepted \in a}
             judged  == said(Acceptance \ {"none"})
             n       == Cardinality(Holdout)
             verdict == Last(log).payload
         IN  verdict.passed <=>
               /\ verdict.light
               /\ Cardinality(wins("candidate")) - Cardinality(wins("baseline"))
                    >= plan.minDelta * n
               /\ Cardinality(lost) <= plan.maxRegression * n
               /\ Cardinality(ticks("candidate")) - Cardinality(ticks("baseline"))
                    <= plan.maxIncrease * n
               /\ judged # {}
               /\ Cardinality(said({"accept", "3", "4", "5"}))
                    >= plan.minAcceptance * Cardinality(judged)
               /\ n >= plan.minSample

\* At most one workspace exists at a time, however many trials there were.  Unless
\* the process died, one that is left behind is one that could not be made,
\* photographed or removed, and then the command has failed and no run of the
\* generation is in its log, let alone a verdict.
WorkspacesAreReleased ==
  /\ workspaces \in {0, 1}
  /\ stage \in {"log", "over"} /\ workspaces = 1 =>
       broken /\ exit = 1 /\ Len(log) <= 1

\* The timer bounds every trial: a generation comes to its end unless a command
\* ignores the signal or leaves a descendant on its pipes.
GenerationEnds ==
  \/ <>(stage \in {"over", "crashed"})
  \/ <>[](child.nature \in {"stubborn", "daemon"})
=============================================================================
