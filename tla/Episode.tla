------------------------------ MODULE Episode ------------------------------
(***************************************************************************)
(* One agent at work on one task: a "visit" of the evolution loop          *)
(* (runAgentTask) or a "repair" experiment (runRepairExperiment).  Both    *)
(* drive AgentCore turn by turn, observe, think, act, over a sandbox       *)
(* workspace; a visit thinks through the tiers of its genome's policy and  *)
(* acts through the tool registry, a repair thinks externally and acts     *)
(* through a filter of its own, and is judged by private tests.            *)
(*                                                                         *)
(* A file is "old" as the task gave it, or "new"; a test passes if the     *)
(* files it needs are new, or if the test itself was rewritten.  History,  *)
(* progress messages and the contents of observations are left out.        *)
(***************************************************************************)
EXTENDS Integers, FiniteSets, Sequences, SequencesExt

CONSTANTS
  Paths,    \* the paths that occur
  Modules,  \* those that end in .mjs and are no test
  Tests,    \* those that end in .test.mjs
  Needs,    \* the files a test needs
  Outside,  \* paths that leave the workspace
  Setups,   \* what an episode may be given
  MaxTurns  \* the turn budget of the plan or the command line

ASSUME EpisodeAssumption ==
  /\ Modules \cup Tests \subseteq Paths /\ Modules \cap Tests = {}
  /\ Needs \in [Tests -> SUBSET Paths] /\ Outside \cap Paths = {}
  /\ MaxTurns \in 1..100

\* Policies come in a list; what a rule of cognition says has its type.
ASSUME PoliciesAssumption ==
  \A s \in Setups :
    /\ Len(s.policies) \in Nat /\ DOMAIN s.policies = 1..Len(s.policies)
    /\ \A i \in DOMAIN s.policies :
         LET p == s.policies[i]
         IN  /\ "escalateToExternal" \in DOMAIN p => p.escalateToExternal \in BOOLEAN
             /\ "externalAfterFailures" \in DOMAIN p => p.externalAfterFailures \in Int

VARIABLES
  setup,     \* kind, task, provider and URL of the models, image; policies
             \* and plugin of the genome
  pc,        \* where the episode is
  files,     \* the workspace
  turns, calls,  \* turns completed; model calls made, by tier
  fails,     \* consecutiveLocalFailures
  called,    \* history: the tiers that this turn has called, in order
  heard,     \* history: how the calls of the local tier ended
  answer,    \* what a model last answered
  outcome,   \* the outcome of the last action
  baseline, candidate,  \* what the acceptance tests said, or "none"
  reported,  \* candidateFiles
  error,     \* an error was caught
  lost,      \* an error has left the episode itself
  broken,    \* its workspace could not be made or removed
  status,    \* of report.json, or of the run handed to the evaluator
  log,       \* the types of the events appended
  workspaces \* temporary directories that exist

toolVars   == <<files, outcome>>
modelVars  == <<calls, fails, called, heard, answer>>
reportVars == <<baseline, candidate, reported, error, lost, broken, status>>
vars == <<setup, pc, turns, toolVars, modelVars, reportVars, log, workspaces>>

TOOL_NAMES            == {"read", "search", "write", "exec", "test"}
PROTOCOL_ACTION_TYPES == {"escalate", "mutations", "rewrite"}

\* An answer is an action, "plugin" being the name of a tool of the genome, or
\* no action at all: "garbage" that does not parse, "none" if none arrived.
Answers ==
  [type : (TOOL_NAMES \ {"write"}) \cup PROTOCOL_ACTION_TYPES
          \cup {"plugin", "garbage", "none"}, sound : BOOLEAN]
  \cup [type : {"write"}, sound : BOOLEAN, path : Paths \cup Outside]
NoAnswer == [type |-> "none", sound |-> FALSE]

Original == [p \in Paths |-> "old"]
Passes(fs, t) == fs[t] = "new" \/ \A p \in Needs[t] : fs[p] = "new"

------------------------------------------------------------------------------
\* assertRepairTask: file maps that are not empty and share no path, tests with
\* their suffix, and files that end in .mjs, at least one, to edit; a file may be
\* a test of its own and is then no less editable than a module.
AssertRepairTask(t) ==
  /\ t.schemaVersion = 1
  /\ {} \notin {t.files, t.visibleTests, t.acceptanceTests, t.editableFiles}
  /\ t.files \cup t.visibleTests \cup t.acceptanceTests \subseteq Paths
  /\ t.files \cap (t.visibleTests \cup t.acceptanceTests) = {}
  /\ t.visibleTests \cap t.acceptanceTests = {}
  /\ t.visibleTests \cup t.acceptanceTests \subseteq Tests
  /\ t.editableFiles \subseteq t.files \cap (Modules \cup Tests)

\* DockerRepairEvaluator.evaluate: the verdict of the tests on these files, or
\* one that counts no failure although it is none, or one of a run that timed
\* out or counted nothing; or it throws, in the end because the container cannot
\* be confirmed to be gone, even if the tests had passed.
Evaluate(fs, tests) ==
  LET judged == [p \in Paths |-> IF p \in tests THEN "old" ELSE fs[p]]
  IN  {IF \A t \in tests : Passes(judged, t) THEN "passed" ELSE "failed"}
      \cup {"uncounted", "invalid", "threw"}

\* collectSource: the editable files as they are now, all others as they were.
CollectSource ==
  [p \in Paths |-> IF p \in setup.task.editableFiles THEN files[p] ELSE "old"]

\* Bug: the candidate is accepted by the tests it was allowed to see.
AcceptanceTests_Visible == setup.task.visibleTests
AcceptanceTests == setup.task.acceptanceTests

\* resolveSandboxPath; createSandboxTools and applyPluginTools: the names the registry knows.  The
\* registry refuses a name twice and a plugin has to add some name.
Resolves(path) == path \notin Outside
Registry      == TOOL_NAMES \cup {n \in {"plugin"} : setup.plugin = "tool"}
PluginApplies == setup.plugin \in {"none", "tool"}

\* derivePolicyConfig: the rules of all policies, of which a later one replaces
\* an earlier, and the values the runtime understands: true, a positive count.
Naming(key) == {i \in DOMAIN setup.policies : key \in DOMAIN setup.policies[i]}
Decider(key) == CHOOSE i \in Naming(key) : \A j \in Naming(key) : j <= i
PolicyConfig ==
  LET value(key, default) ==
        IF Naming(key) = {} THEN default ELSE setup.policies[Decider(key)][key]
      after == value("externalAfterFailures", 0)
  IN  [escalateToExternal |-> value("escalateToExternal", FALSE),
       externalAfterFailures |-> IF after > 0 THEN after ELSE 0]

\* cognitionFor: the tiers of a visit; MockCognitionProvider answers in its way.
HasExternal == setup.provider = "local" /\ setup.url
MockAnswer  == [type |-> "test", sound |-> TRUE]
LocalMay(a) == setup.provider = "mock" => a = MockAnswer

\* OpenAiCompatibleProvider: there has to be a reply, extractMessageContent has
\* to find it, and parseAgentAction to parse it and to know its type.
Arrived(a) == a.type # "none"
IsAcceptedActionType(type) == type \in TOOL_NAMES \cup PROTOCOL_ACTION_TYPES
Accepted(a) ==
  /\ Arrived(a) /\ a.type # "garbage"
  /\ IsAcceptedActionType(a.type) /\ a.sound

------------------------------------------------------------------------------
Init ==
  /\ setup \in Setups
  /\ pc = "begin" /\ files = Original /\ turns = 0
  /\ calls = [local |-> 0, external |-> 0] /\ fails = 0 /\ called = <<>> /\ heard = <<>>
  /\ answer = NoAnswer /\ outcome = "none"
  /\ baseline = "none" /\ candidate = "none" /\ reported = Original
  /\ error = FALSE /\ lost = FALSE /\ broken = FALSE /\ status = "none"
  /\ log = <<>> /\ workspaces = 0

Repair == setup.kind = "repair"
Visit  == setup.kind = "visit"

\* An event of a repair is appended, or the append throws.
Record(type, next) ==
  \/ log' = Append(log, type) /\ pc' = next
  \/ log' = log /\ pc' = "catch"

\* run-repair: a task that is no task, no model, or an image that is not there.
Refuse ==
  /\ pc = "begin" /\ Repair
  /\ ~AssertRepairTask(setup.task) \/ ~setup.url \/ ~setup.image
  /\ pc' = "over" /\ lost' = TRUE
  /\ UNCHANGED <<setup, turns, toolVars, modelVars, baseline, candidate,
                 reported, error, broken, status, log, workspaces>>

\* createSandboxWorkspace rejects, with its directory already there or not.
CreationFails == broken' = TRUE /\ workspaces' \in {0, 1}

\* The artifacts are begun before there is a workspace; an error so early, or
\* one of making the workspace, leaves the experiment.
BeginRepair ==
  /\ pc = "begin" /\ Repair
  /\ AssertRepairTask(setup.task) /\ setup.url /\ setup.image
  /\ \/ /\ log' = <<"REPAIR_STARTED">> /\ workspaces' = 1
        /\ pc' \in {"baseline", "catch"} /\ UNCHANGED <<lost, broken>>
     \/ log' = <<"REPAIR_STARTED">> /\ CreationFails /\ pc' = "over" /\ lost' = TRUE
     \/ pc' = "over" /\ lost' = TRUE /\ UNCHANGED <<log, broken, workspaces>>
  /\ UNCHANGED <<setup, turns, toolVars, modelVars, baseline, candidate,
                 reported, error, status>>

\* runAgentTask: a workspace, the input files, the genome and its tools.  Only
\* what comes after the workspace is caught.
BeginVisit ==
  /\ pc = "begin" /\ Visit
  /\ \/ /\ workspaces' = 1 /\ UNCHANGED <<lost, broken>>
        /\ pc' \in IF PluginApplies THEN {"observe", "catch"} ELSE {"catch"}
     \/ CreationFails /\ pc' = "over" /\ lost' = TRUE
  /\ UNCHANGED <<setup, turns, toolVars, modelVars, baseline, candidate,
                 reported, error, status, log>>

\* The original has to fail the acceptance tests in a valid run.
RunBaseline ==
  /\ pc = "baseline"
  /\ \E r \in Evaluate(Original, AcceptanceTests) :
       IF r = "threw"
       THEN pc' = "catch" /\ UNCHANGED <<baseline, log>>
       ELSE /\ baseline' = r
            /\ Record("REPAIR_BASELINE", IF r \in {"failed", "uncounted"}
                                         THEN "observe" ELSE "catch")
  /\ UNCHANGED <<setup, turns, toolVars, modelVars, candidate, reported, error,
                 lost, broken, status, workspaces>>

------------------------------------------------------------------------------
\* runTurn, observe: the files of the workspace are listed.
Observe ==
  /\ pc = "observe"
  /\ pc' \in {"think", "catch"} /\ called' = <<>>
  /\ UNCHANGED <<setup, turns, toolVars, calls, fails, heard, answer, reportVars,
                 log, workspaces>>

\* runTurn, think.  shouldUseExternal: the policy says so, or local cognition
\* has failed often enough; a repair has no other provider.
FailedOften(n) ==
  PolicyConfig.externalAfterFailures > 0 /\ n >= PolicyConfig.externalAfterFailures
ShouldUseExternal ==
  \/ Repair
  \/ /\ HasExternal
     /\ \/ PolicyConfig.escalateToExternal
        \/ FailedOften(fails)

Call(tier) ==
  /\ pc' = tier /\ called' = Append(called, tier)
  /\ calls' = [calls EXCEPT ![tier] = @ + 1]

Think ==
  /\ pc = "think"
  /\ Call(IF ShouldUseExternal THEN "external" ELSE "local")
  /\ UNCHANGED <<setup, turns, toolVars, fails, heard, answer, reportVars, log,
                 workspaces>>

\* A local answer resets the failures; "escalate" repeats the request on the
\* external tier.
LocalAnswers(a) ==
  /\ pc = "local" /\ LocalMay(a) /\ Accepted(a)
  /\ answer' = a /\ fails' = 0 /\ heard' = Append(heard, "ok")
  /\ IF a.type = "escalate" /\ HasExternal
     THEN Call("external")
     ELSE pc' = "act" /\ UNCHANGED <<calls, called>>
  /\ UNCHANGED <<setup, turns, toolVars, reportVars, log, workspaces>>

\* The request fails, the queue rejects it or the answer does not parse.  With
\* enough failures it is repeated externally, otherwise the turn throws.
LocalFails(a) ==
  /\ pc = "local" /\ LocalMay(a) /\ ~Accepted(a)
  /\ answer' = a /\ fails' = fails + 1 /\ heard' = Append(heard, "failed")
  /\ IF HasExternal /\ FailedOften(fails')
     THEN Call("external")
     ELSE pc' = "catch" /\ UNCHANGED <<calls, called>>
  /\ UNCHANGED <<setup, turns, toolVars, reportVars, log, workspaces>>

\* The external call decides the turn, be it an answer or an error; its error is
\* not counted as one of the local tier.
\* Bug: the error of an escalated request is caught like that of a local one.
ExternalResponds_Counted(a) ==
  /\ pc = "external"
  /\ answer' = a
  /\ IF Accepted(a)
     THEN pc' = "act" /\ UNCHANGED <<fails, calls, called>>
     ELSE /\ fails' = fails + 1
          /\ IF called = <<"local", "external">> /\ FailedOften(fails')
             THEN Call("external")
             ELSE pc' = "catch" /\ UNCHANGED <<calls, called>>
  /\ UNCHANGED <<setup, turns, toolVars, heard, reportVars, log, workspaces>>
ExternalResponds(a) ==
  /\ pc = "external"
  /\ answer' = a
  /\ pc' = IF Accepted(a) THEN "act" ELSE "catch"
  /\ UNCHANGED <<setup, turns, toolVars, calls, fails, called, heard, reportVars,
                 log, workspaces>>

------------------------------------------------------------------------------
\* The sandbox tools: a refusal or a failure is an outcome.  A command may
\* write to the workspace before it ends.
ActInSandbox ==
  \/ /\ UNCHANGED files
     /\ outcome' \in IF answer.type = "write" THEN {"failed"} ELSE {"ok", "failed"}
  \/ /\ answer.type = "write" /\ Resolves(answer.path) /\ outcome' = "ok"
     /\ files' = [files EXCEPT ![answer.path] = "new"]
  \/ /\ answer.type \in {"exec", "test", "plugin"} /\ outcome' = "ok"
     /\ \E p \in Paths : files' = [files EXCEPT ![p] = "new"]
  \/ answer.type = "test" /\ outcome' = "passed" /\ UNCHANGED files

\* SandboxToolEnvironment.act: a name the registry does not know throws, and so
\* do malformed input and a handler of a plugin that throws; the visit ends.
ActInVisit ==
  /\ pc = "act" /\ Visit
  /\ \/ answer.type \in Registry /\ ActInSandbox /\ pc' = "turn"
     \/ pc' = "catch" /\ UNCHANGED toolVars
  /\ UNCHANGED <<setup, turns, modelVars, reportVars, log, workspaces>>

\* act of a repair: editable files may be written, the fixed tests be run; what
\* throws is an outcome that is not ok.
ActInRepair ==
  /\ pc = "act" /\ Repair
  /\ \/ answer.type \in {"read", "search"} /\ outcome' = "ok" /\ UNCHANGED files
     \/ /\ answer.type = "write" /\ answer.path \in setup.task.editableFiles
        /\ outcome' = "ok" /\ files' = [files EXCEPT ![answer.path] = "new"]
     \/ /\ answer.type = "test" /\ UNCHANGED files
        /\ \E r \in Evaluate(CollectSource, setup.task.visibleTests) :
             outcome' = IF r \in {"passed", "threw"} THEN r ELSE "ok"
     \/ outcome' = "failed" /\ UNCHANGED files
  /\ pc' = "turn"
  /\ UNCHANGED <<setup, turns, modelVars, reportVars, log, workspaces>>

\* Bug: one turn beyond the budget.
OutOfTurns_Late(n) == n > MaxTurns
OutOfTurns(n) == n >= MaxTurns

\* The loop: a passing test ends a visit, and a repair if the source has
\* changed; reading the source may throw.
EndTurn ==
  /\ pc = "turn"
  /\ turns' = turns + 1
  /\ LET passed == answer.type = "test" /\ outcome = "passed"
         ends   == passed /\ (Repair => CollectSource # Original)
         next   == IF ends \/ OutOfTurns(turns') THEN "judge" ELSE "observe"
     IN  \/ Visit /\ pc' = next /\ UNCHANGED <<log, reported>>
         \/ /\ Repair /\ Record("REPAIR_TURN", next)
            /\ reported' = IF passed /\ pc' # "catch" THEN CollectSource
                           ELSE reported
         \/ /\ Repair /\ passed /\ Record("REPAIR_TURN", "catch")
            /\ UNCHANGED reported
  /\ UNCHANGED <<setup, toolVars, modelVars, baseline, candidate, error, lost,
                 broken, status, workspaces>>

\* The command of the task, over whatever the workspace has become.
JudgeVisit ==
  /\ pc = "judge" /\ Visit
  /\ \/ /\ pc' = "dispose"
        /\ LET pass == \A t \in AcceptanceTests : Passes(files, t)
           IN  candidate' \in {"invalid", IF pass THEN "passed" ELSE "failed"}
     \/ pc' = "catch" /\ UNCHANGED candidate
  /\ UNCHANGED <<setup, turns, toolVars, modelVars, baseline, reported, error,
                 lost, broken, status, log, workspaces>>

\* The private tests, once, on a fresh workspace with the collected source.
JudgeRepair ==
  /\ pc = "judge" /\ Repair
  /\ \/ /\ reported' = CollectSource
        /\ \E r \in Evaluate(reported', AcceptanceTests) :
             IF r = "threw"
             THEN pc' = "catch" /\ UNCHANGED <<candidate, log>>
             ELSE candidate' = r /\ Record("REPAIR_ACCEPTANCE", "dispose")
     \/ pc' = "catch" /\ UNCHANGED <<candidate, reported, log>>
  /\ UNCHANGED <<setup, turns, toolVars, modelVars, baseline, error, lost,
                 broken, status, workspaces>>

\* catch: a repair keeps the source it has got so far and says that it failed,
\* either of which may throw again, past the report.
Catch ==
  /\ pc = "catch"
  /\ error' = TRUE /\ pc' = "dispose"
  /\ \/ Visit /\ UNCHANGED <<lost, reported, log>>
     \/ /\ Repair /\ UNCHANGED lost
        /\ reported' = CollectSource /\ log' = Append(log, "REPAIR_ERROR")
     \/ /\ Repair /\ lost' = TRUE /\ reported' \in {reported, CollectSource}
        /\ UNCHANGED log
  /\ UNCHANGED <<setup, turns, toolVars, modelVars, baseline, candidate,
                 broken, status, workspaces>>

\* finally: the workspace goes, whatever happened; if it cannot be removed, that
\* error takes the place of every result.
Dispose ==
  /\ pc = "dispose"
  /\ \/ /\ workspaces' = workspaces - 1 /\ UNCHANGED <<lost, broken>>
        /\ pc' = IF lost THEN "over" ELSE "report"
     \/ pc' = "over" /\ lost' = TRUE /\ broken' = TRUE /\ UNCHANGED workspaces
  /\ UNCHANGED <<setup, turns, toolVars, modelVars, baseline, candidate,
                 reported, error, status, log>>

\* The five checks of the report.
Checks ==
  /\ baseline = "failed" /\ candidate = "passed"
  /\ \E p \in setup.task.editableFiles : reported[p] # "old"
  /\ calls.local + calls.external > 0
  /\ ~error

\* candidate.json, changes.json and report.json, if they can be written; a visit
\* hands its run to the evaluator, which asks for no error and a command that
\* passed in time.
Report ==
  /\ pc = "report"
  /\ \/ /\ LET pass == (Repair /\ Checks) \/ (Visit /\ candidate = "passed")
           IN  status' = IF error THEN "error" ELSE IF pass THEN "passed"
                         ELSE "failed"
        /\ pc' = IF Repair THEN "complete" ELSE "over"
        /\ UNCHANGED lost
     \/ Repair /\ pc' = "over" /\ lost' = TRUE /\ UNCHANGED status
  /\ UNCHANGED <<setup, turns, toolVars, modelVars, baseline, candidate,
                 reported, error, broken, log, workspaces>>

\* The report that is on disk by now is logged ...
Complete ==
  /\ pc = "complete"
  /\ \/ /\ log' = Append(log, "REPAIR_COMPLETED")
        /\ pc' = "checksums" /\ UNCHANGED lost
     \/ pc' = "over" /\ lost' = TRUE /\ UNCHANGED log
  /\ UNCHANGED <<setup, turns, toolVars, modelVars, baseline, candidate,
                 reported, error, broken, status, workspaces>>

\* ... and the artifacts are read again for checksums.json.
Checksums ==
  /\ pc = "checksums"
  /\ pc' = "over" /\ lost' \in BOOLEAN
  /\ UNCHANGED <<setup, turns, toolVars, modelVars, baseline, candidate,
                 reported, error, broken, status, log, workspaces>>

------------------------------------------------------------------------------
\* Protocol types that no step tells apart are left to one of them.
Reply == {a \in Answers : a.type \notin {"rewrite", "mutations"} \/ a.sound}

\* AgentCore.runTurn.
RunTurn ==
  \/ Observe \/ Think
  \/ \E a \in Reply : LocalAnswers(a) \/ LocalFails(a) \/ ExternalResponds(a)
  \/ ActInVisit \/ ActInRepair

Next ==
  \/ Refuse \/ BeginRepair \/ BeginVisit \/ RunBaseline
  \/ RunTurn \/ EndTurn
  \/ JudgeVisit \/ JudgeRepair
  \/ Catch \/ Dispose \/ Report \/ Complete \/ Checksums

\* No step is promised: a command of a turn, or that of the task, may ignore the
\* one signal it is sent, and the episode waits for it for ever.
Spec == Init /\ [][Next]_vars

------------------------------------------------------------------------------
Tiers    == {"local", "external"}
Verdicts == {"none", "passed", "failed", "uncounted", "invalid"}
Events   == {"REPAIR_STARTED", "REPAIR_BASELINE", "REPAIR_TURN",
             "REPAIR_ACCEPTANCE", "REPAIR_ERROR", "REPAIR_COMPLETED"}

TypeOK ==
  /\ setup \in Setups
  /\ pc \in {"begin", "baseline", "observe", "think", "local", "external",
            "act", "turn", "judge", "catch", "dispose", "report", "complete",
            "checksums", "over"}
  /\ {files, reported} \subseteq [Paths -> {"old", "new"}]
  /\ turns \in 0..MaxTurns
  /\ calls \in [local : 0..MaxTurns, external : 0..MaxTurns]
  /\ fails \in 0..MaxTurns
  /\ called \in Seq(Tiers) /\ heard \in Seq({"ok", "failed"})
  /\ answer \in Answers
  /\ outcome \in {"none", "ok", "failed", "passed", "threw"}
  /\ baseline \in Verdicts /\ candidate \in Verdicts
  /\ {error, lost, broken} \subseteq BOOLEAN
  /\ status \in {"none", "passed", "failed", "error"}
  /\ log \in Seq(Events)
  /\ workspaces \in {0, 1}

\* What the log of a repair tells of one that ran to its verdict.
Story ==
  <<"REPAIR_STARTED", "REPAIR_BASELINE">> \o [i \in 1..turns |-> "REPAIR_TURN"]
  \o <<"REPAIR_ACCEPTANCE">>

\* A repair whose report says that it passed is one, even if the experiment broke
\* off after the report was written: its log tells all of it in order, up to the
\* verdict at least, the original fails a private test that the reported files
\* pass, and they differ in editable files alone.  A report names a failure if
\* and only if one was caught; an episode that returns has a report, a repair
\* one that is logged; and a workspace survives only if it could not be made or
\* removed, of which the caller is told instead of any result.
RepairIsReal ==
  /\ Repair /\ status = "passed" =>
       /\ log \in {Story, Append(Story, "REPAIR_COMPLETED")}
       /\ \E t \in setup.task.acceptanceTests : ~Passes(Original, t)
       /\ \A t \in setup.task.acceptanceTests, p \in Paths :
            p \in Needs[t] => reported[p] = "new"
       /\ \A p \in Paths : reported[p] # "old" => p \in setup.task.editableFiles
  /\ status # "none" => (status = "error" <=> error)
  /\ pc = "over" =>
       /\ workspaces = 1 => broken
       /\ broken => lost /\ status = "none"
       /\ ~lost => status # "none" /\ (Repair => Last(log) = "REPAIR_COMPLETED")

\* The policy that decides a rule is the last that names it.
LastWord(key) ==
  LET P == setup.policies
  IN  {P[i] : i \in {j \in DOMAIN P :
                      /\ key \in DOMAIN P[j]
                      /\ \A k \in DOMAIN P : k > j => key \notin DOMAIN P[k]}}

\* The last n calls of the local tier all failed.
FailedLast(n) ==
  /\ n \in 1..Len(heard)
  /\ \A i \in DOMAIN heard : i > Len(heard) - n => heard[i] = "failed"

\* Why a visit would use the external tier whatever this turn brings: there is
\* one, and the policy forces it or names how often local calls have failed.
Due ==
  /\ setup.provider = "local" /\ setup.url
  /\ \/ \E p \in LastWord("escalateToExternal") : p.escalateToExternal
     \/ \E p \in LastWord("externalAfterFailures") :
          FailedLast(p.externalAfterFailures)

\* However answers fail, a turn calls no tier twice and none after the external
\* one.  Each external call of a visit has its reason while it is made: the last
\* word of the policy on it, or the answer the local tier has given in this very
\* turn, which asks for it; and no local call is made for which the policy wants
\* the external tier.  A repair calls one tier once a turn and counts every call,
\* the one that failed included.
ModelUseIsEarned ==
  /\ called \in {<<>>, <<"local">>, <<"external">>, <<"local", "external">>}
  /\ Visit /\ pc = "local" => ~Due
  /\ Visit /\ pc = "external" =>
       \/ Due
       \/ /\ called = <<"local", "external">> /\ answer.type = "escalate"
          /\ heard[Len(heard)] = "ok" /\ setup.provider = "local" /\ setup.url
  /\ Repair =>
       /\ "local" \notin ToSet(called) /\ calls.local = 0
       /\ calls.external \in {turns, turns + 1}
=============================================================================
