---------------------------- MODULE MCGeneration ----------------------------
(***************************************************************************)
(* Generation for a plan of four tasks, two of them in the holdout, for    *)
(* plans that have to be refused, and for the two one-task modes.  The     *)
(* candidate tries h1 by a command of its own, which may take as long as   *)
(* the time-out of two ticks; its command for v is not allowed.            *)
(***************************************************************************)
EXTENDS Generation
CONSTANTS e, v, h1, h2, odd, noTask, make, test, lint, patient, own

MCTasks    == {e, v, h1, h2, odd}
MCCommands == {make, test, lint, patient, own}

TaskSpec(command, allowed) ==
  [fields |-> "all", texts |-> {"s"}, level |-> 1, command |-> command, allowed |-> allowed]
MCSpecs ==
  (e :> TaskSpec(make, {make})) @@ (v :> TaskSpec(patient, {patient}))
  @@ (h1 :> TaskSpec(test, {test, own})) @@ (h2 :> TaskSpec(lint, {lint}))
  @@ (odd :> [TaskSpec(test, {test}) EXCEPT !.level = 4])

Options(accepted, command) ==
  [accepted |-> accepted, command |-> command, limit |-> 1]
Judged(a, b) ==
  (h1 :> Options(a, own)) @@ (h2 :> Options(b, NoCommand)) @@ (v :> Options("none", own))

Plan(m, tasks, evolved, delta) ==
  [file |-> "json", timeoutMs |-> 1, hashes |-> {"sha"}, identity |-> {"plan"},
   evolvedGeneration |-> 1, mode |-> m, tasks |-> tasks,
   options |-> [baseline |-> <<>>, candidate |-> evolved],
   minDelta |-> delta, maxIncrease |-> 0, maxRegression |-> 0, minAcceptance |-> 1, minSample |-> 2]

Good == Plan("generalization", <<<<e>>, <<v>>, <<h1, h2>>>>, Judged("accept", "none"), 0)

MCPlans ==
  { Good,
    [Good EXCEPT !.options.candidate = Judged("4", "reject")],
    [Good EXCEPT !.options.candidate = Judged("none", "none")],
    [Good EXCEPT !.minDelta = 1],
    [Good EXCEPT !.maxIncrease = 1],
    [Good EXCEPT !.tasks = <<<<e>>, <<v>>, <<h1, e>>>>],
    [Good EXCEPT !.tasks = <<<<e>>, <<>>, <<h1, h2>>>>],
    [Good EXCEPT !.tasks = <<<<e>>, <<v>>, <<h1, noTask>>>>],
    [Good EXCEPT !.tasks = <<<<e>>, <<v>>, <<h1, odd>>>>],
    [Good EXCEPT !.options.candidate = Judged("maybe", "none")],
    [Good EXCEPT !.options.baseline = h1 :> [Options("none", own) EXCEPT !.limit = 0]],
    [Good EXCEPT !.file = "torn"],
    [Good EXCEPT !.mode = "other"],
    [Good EXCEPT !.timeoutMs = 0],
    [Good EXCEPT !.identity = {"plan", ""}],
    [Good EXCEPT !.minSample = 0],
    [Good EXCEPT !.maxRegression = 2],
    Plan("calibration", <<<<h1>>, <<>>, <<>>>>, Judged("accept", "none"), 0),
    Plan("task", <<<<odd>>, <<>>, <<>>>>, <<>>, 0),
    Plan("task", <<<<h1>>, <<>>, <<>>>>, <<>>, 0) }

MCNatures == (make :> {"missing", "stubborn"}) @@ (patient :> {"graceful", "daemon"})
             @@ (test :> {"ok", "fails"}) @@ (own :> {"ok", "fails"})
             @@ (lint :> {"ok", "hangs"})
MCDurations == [c \in MCCommands |-> IF c = own THEN {1, 2} ELSE {1}]
=============================================================================
