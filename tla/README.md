# Kevin_Kelly-Game in TLA+

Kevin_Kelly-Game evolves coding agents: an agent is a *genome* (plugins, workflow,
policy) that runs tasks in a sandbox, earns and spends energy, is rewritten or
cloned when it succeeds or fails, sleeps, and dies. The platform is TypeScript on
Node.js, in `src/src/`. These modules model its control logic, TLC checks them on
small instances and TLAPS proves the central theorems for every instance.

Node runs the code between two `await`s without interruption. Everywhere below, an
action is such a stretch of code, and whatever may happen during an `await` is
another action.

## 1. Inventory

| Component (`src/src/`) | State it keeps | Operations | Talks to |
|---|---|---|---|
| Shared SLM queue: `scheduler/shared-slm-queue.ts`, `providers/queued-cognition.ts` | the line, the flag `running`, counters per agent, one promise per request | `enqueue`, `processNext`, `withTimeout`, `statsFor` | every agent's cognition, the one local model |
| Evolution loop: `experiment/evolution-loop.ts` | generation, agents of the plan, consecutive failures | `run`, `seedGenerationZero`, `runGeneration`, `maybeEvolve`, `die` | all components below |
| Energy ledger: `energy/ledger.ts` | balances, transactions | `initialize`, `debit`, `reward`, `replayEnergyEvents` | loop, population, clone |
| Population: `lifecycle/population.ts`, `lifecycle/ecological-memory.ts` | lifecycle of each agent, ecology index, archives | `register`, `maintain`, `transition`, `archiveDead`, `saveSnapshot` | ledger, loop |
| Event log and replay: `experiment/event-log.ts`, `experiment/replay.ts` | an append-only file | `append`, `readAll`, `replayEvents` | loop, web observer, reports |
| Genome revision store: `genome/revision-store.ts` | a directory per genome, maps of revisions, history and active genome | `create`, `clone`, `rollback`, `current`, `remove` | self-rewrite, clone, loop |
| Self-rewrite, clone, planner: `evolution/*.ts` | candidates in temporary directories, recorded failures | `rewrite`, `clone`, `parseRewritePlan` | store, ledger, providers |
| Genome loader and runtime: `genome/loader.ts`, `evolution/genome-runtime.ts`, `evolution/plugin-runtime.ts` | none | load and validate assets, register tools | store, environments |
| REPL session: `cli/tui/session.ts`, `commands.ts`, `app.tsx`, `cli/commands/repl*.ts` | current runtime, history, turn in flight, controller of a run, `task` | `/step`, `/run`, `/stop`, `/reset`, `/task`, `/goal`, `/cat`, `/files`, `/patch`, `/quit` | agent core, sandbox workspaces |
| Agent core: `core/agent-core.ts` | lifecycle of one agent | `runTurn` | provider, environment |
| Tiered cognition and providers: `providers/` | counter of local failures, call counters | `think` | models over HTTP |
| Task pool: `tasks/task-pool.ts` | status and owner of each task | `register`, `claim`, `complete`, `releaseAgent` | loop; no command passes one yet, tests do |
| Individual memory, candidate plugins: `memory/store.ts` | memories, verifications of a candidate | `record`, `save`, `load`, `recordVerification` | loop (records, and reads for prompts) |
| Sandbox: `sandbox/` | a child process and its timer, a directory | `runSandboxCommand`, `dispose`, `resolveSandboxPath` | tools, task runner |
| Task runner and evaluation: `tasks/task-runner.ts`, `evaluation/evaluator.ts` | a workspace for each trial | `runTask`, `runAgentTask`, `evaluate` | sandbox, agent core |
| Calibration and generalization: `experiment/calibration.ts`, `generalization.ts`, `cli/commands/run-generation.ts` | the runs of a generation, in memory | `runBaseline`, `runCandidate`, `evaluateHoldout`, `executeGeneration` | task runner, event log |
| Repair experiment: `experiment/repair*.ts`, `cli/commands/run-repair.ts` | workspace, verdicts, report, events | `runRepairExperiment`, `collectSource`, `DockerRepairEvaluator.evaluate` | agent core, external model, Docker |
| Environments and tools: `environment/` | the registry, the files of a workspace | `act`, `register`, the five sandbox tools | agent core, plugins |
| Observer: `web/` | offset of each live stream, cached runs with their key | `tailEvents`, the SSE stream, batches, `listRuns`, `summarizeRun` | the event log of a run in progress |
| Web UI: `webui/src/` | view, last id, events, summary | follow a run, refresh, navigate | observer |
| Command line, contracts, metering: `cli/`, `contracts/`, `resources/` | none | parsing, validation, printing, counters of the process | all of the above |

What is hard here, and what must hold:

* **Queue.** Requests, aborts, time-outs and late answers interleave freely. The one
  local model must never serve two operations, never idle while somebody waits, serve
  by priority and arrival, answer everyone once, and count correctly.
* **Loop, ledger, population, log.** State changes first and is logged after an `await`,
  so a crash may cut the log anywhere; agents leave a visit by nine different exits.
  Every exit must charge once, log once, archive once, and nobody may act after death.
* **Store, rewrite, clone.** Several in-memory maps and a tree of directories are changed
  by five operations with many failing paths. What was accepted must stay restorable,
  what is active must load, and a failure must leave no trace.
* **REPL.** The terminal UI starts a command with every Enter and waits for none. Turns,
  runs, resets and disposal share a few flags that change at different `await`s.
* **Observer.** It reads a log that is being written, torn or removed, with timers that
  do not wait for what they started. A page must miss nothing, and a cache must not be old.
* **Trials.** A child races its timer, and each step of `runTask` may fail on its way to a
  `finally` that may fail too. What the log claims must have been tried.
* **What the dead leave.** A pool is shared with code beside the loop, archives and memory
  files outlive processes. Claims must not be lost or stolen, torn lines must not hide
  what was whole.
* **Episodes.** Every step of a turn may throw: the model, the queue, the tool, the log. A
  repair must be reported as what it was, and the tiers of the model be used as the policy
  says, whatever failed.

`PROJECT.json` lists each hazard at its line with the properties that cover it.

## 2. Modules

| Module | What it is |
|---|---|
| `SlmService` | what the queue promises: one holder, nobody forgotten, no line, no timer |
| `SlmQueue` | the queue itself; implements `SlmService` |
| `Evolution` | the loop with ledger, population and log, and the plan it is given |
| `GenomeStore` | the revision store with seeding, planner, self-rewrite and clone |
| `ReplSession` | the session behind its two front ends |
| `Journal` | the event log, its writers, and its observers down to the page |
| `Generation` | `run-generation` and `run-task`: plan, trials, verdict |
| `Episode` | one agent at one task, turn by turn: a visit of the loop or a repair |
| `Legacy` | the task pool, and the death of an agent down to its archive and its claims |
| `Memory` | individual memory and its files, candidate plugins |
| `MC*` | instances of these for TLC |
| `*_proofs` | theorems |

### SlmQueue

`pending`, `sequence`, `running` and the three counters are the fields of
`SharedSlmQueue`; `ticket` holds the priority and number each request was pushed with;
`promise` and `outcome` are what `enqueue` returned and what `execute` came to;
`timedOut` and `inflight` are the local state of `withTimeout`. `Enqueue` is the
synchronous part of `enqueue` with its sort and its call of `processNext`; `Complete` is
the rest of `processNext` after its `await`, with the `finally` that calls `processNext`
again. Requests aborted while they waited fail in that same stretch, so `ProcessNext`
drops a whole prefix. `OperationSettles` belongs to the environment and happens at any
moment, also after the time-out. `SlmService` is the abstraction: `promise` as it is,
`holder` mapped to `running`.

### Evolution

`pc` and `pos` say where the async function stands; `outbox` holds the events emitted and
not yet appended, and the loop goes on when it is empty. Nothing resumes a run, so every
reachable state is also what a crash can leave: the crash needs no action of its own,
and the invariants about `log` and `snapshots` are statements about it. Whether a task
succeeds, an embryo qualifies or a rewrite is accepted is a free choice here; `GenomeStore`
decides the last two. The plan is the variable `policy`: its prices and thresholds, of
which `readPlan` and the ledger let through what `Plans` holds (`IsPlan`,
`IsEnergyPolicy`). A snapshot holds the agents of the plan and the children born so far, whom
no state event names, so that `Replayed` has no entry for them. `TaskRuns` is the one place
where the loop may stand for ever. Task time-outs, fitness and resource costs do not influence the control
and are left out; an agent without an active genome cannot occur while nothing removes
one, and the loop removes none.

### GenomeStore

`disk`, `revisions`, `history` and `active` are the directories and the maps of
`GenomeRevisionStore`. A directory is a function from asset paths to contents, and a
content records what `loader.ts` and the policy of mutations look at: which capabilities a
plugin declares, what its code imports, which plugins it depends on. A hash is the content
it was computed from. Plugins are a list, in the order of the manifest, because mutations
replace and append at places of it. `Create` copies with `force: false` and removes the
directory when the hash disagrees. `Proposed` and `PlansFor` are the mutations and rewrite
plans of what a model answers (`Answers`); `Taken` passes over what is no mutation, `Mutate`
applies one. The manifest of a plan is taken as the model sent it, or is the active one if none
was sent, so a rewrite may be created under a fresh id, its agent's own or any other that was
handed out. The history variable `claimed` remembers which agent created one under which taken
id; the properties say what such a rewrite, and nothing else, may spoil. `Base` gives each
agent its base genome.

### ReplSession

`runtime`, `history`, `activeStep`, `controller` and `disposed` are the fields of
`ReplSession`; `turns` and `calls` are the promises in flight, so that "one turn at a
time" is a statement about promises and not about a flag. `front` is the front end of
the process: `text` awaits a command before it reads the next line, `tui` refuses
commands only while a `/run` is active. `workspace` is the directory of each runtime;
removal counts from the moment it begins. Making a workspace, and each disposal, may fail and
leave a directory that is `damaged`: nobody's, and no longer whole. A command that is refused is a step only
if it has changed something before, as `/task` has (`Refused`).

### Journal

`lines`, `fragment` and `mtime` are the file: `appendFile` is two steps, a reader may come
between them and a crash may leave the first alone. `offset`, `polls` and `wire` are one
live stream of `sendStream`: a poll is four steps (take the size, compare, read, deliver),
and the interval starts the next whether or not the last has ended. `loads` and `cache` are
`RunStore`: stat, read, keep, answer, for requests that overlap. `page`, `lastId`,
`received` and `summary` are `App.tsx`. The stream and the store share only the log, which
they do not write, so a behaviour watches one of them (`watch`); the page's stream always
says `after=0`, another client resumes by its last id, a third pulls batches. `Accept` and
`AppendVerdict` are the command that files a person's verdict: it reads the log, with it the
run it will write to (or the one its caller named), and appends later.

### Generation

`stage` is where `run-generation` or `run-task` is, `at` and `arm` which trial, `step` which
stretch of `runTask`. `child` and `timer` are those of `runSandboxCommand`; the child's
`nature` is the environment's: it may end in time, hang, trap the signal, ignore it, leave a
descendant on its pipes or not start. `ValidPlan` is what `parseGenerationPlan` and the
parsers under it let through. `Evaluate` and `EvaluateHoldout` are the evaluator and the
verdict of the holdout. Rates of the plan are 0 or 1, so that a rate is a count. A
command takes one of its `Durations`, in ticks, or all of them if the timer fires, and the
run-time check compares them with the plan's `maxIncrease`; the memory check is free, as its
readings are. Making the workspace, the final snapshot and the disposal may each fail and leave
a directory; all three are outside the `catch`, so the command ends (`Breaks`).

### Episode

`pc` goes through `runTurn` (observe, think, act) and through what surrounds it in
`runAgentTask` or `runRepairExperiment`. `calls` and `fails` are the counters of
`TieredCognitionProvider`; `PolicyConfig` is the policy `derivePolicyConfig`
derives: for each rule, the last policy of the genome that names it. An answer is an action
with its type, sound or malformed;
`Accepted` is the parser of the provider, `Registry` what the tools of the sandbox and of a
plugin are called. A file is old or new, a test passes when the files it needs are new or
the test itself was rewritten, which a visit's tools can do and a repair's fixed tests
prevent. `Evaluate` is the Docker evaluator: a verdict, none, or a throw. Making the workspace
may fail before or after there is a directory, `Dispose` may fail and replace every result, and
what follows a repair is three steps that may fail each: `Report` writes it, `Complete` logs it,
`Checksums` reads it back. `called` is the calls of this turn and `heard` the history of the
local tier, for the properties.

### Legacy

`pool` is the map of `TaskPool`; `Claim` and `CompleteOwn` are calls of agents beside the
loop, in any number and at any moment, which is how the tests use a pool. The pool does not
ask who lives, so a claim may land when its agent is dead, also after its release; the history
variables `released` and `late` tell those apart. The loop is
reduced to what touches the pool or decides who lives: `Upkeep` and `MaybeEvolve` choose
freely who pays and who sleeps (`Evolution` has the prices). `die` is the steps
`WriteLegacy`, `BeginRecord`, `FinishRecord`, `Announce`; `releaseAgent` belongs to
`FinishRecord`, as no `await` separates them. `index` and `fragment` are the file of
`EcologicalMemoryIndex`; `Breaks` is a rejected step or the end of the process, and `NewRun`
the next run over the same archive, with a pool and a population of its own. The loop
registers agents without verified plugins, so records differ by their agent only.

### Memory

`store` is `memories` of each `IndividualMemoryStore`, `files` the lines of the files;
`saving` is the `appendFile` of a save, which writes what the store held when the directory
was there, line by line, so that `Restart` may cut it between or within lines. `registry` is
`candidates`, of which a status and the list of verifying tasks matter; `passed` remembers
what was reported. `IsCandidatePlugin` is the assertion every update must pass. One save is
under way at a time; nothing in the repository overlaps two.

## 3. Runs

| Run | Bounds | What it shows |
|---|---|---|
| `slm_queue` | 3 requests, 2 agents, priorities 0 and 1; 129,520 states | one request in service and two in the line in either order, equal and different priorities, an agent with two requests; a fourth request meets no new situation, since the line is compared pairwise |
| `evolution` | 2 agents, 4 generations, 3 policies and 2 plans that are refused; 124,965 states | an agent can fail twice, sleep, be charged asleep and die; another can earn, clone and overspend; `Thrifty` is a scaled-down example plan, `Reckless` has thresholds that do not fit its prices, `Patient` lives long enough to be rewritten |
| `evolution_replay` | same | *violated:* the energy events of a run do not replay |
| `genome_store` | 2 agents, 2 paths, 3 genomes, 2 failures, 1 rewrite under a taken id; 179,651 states | two base genomes and a new one: enough for rewrite after clone, rollback to a rewritten genome's parent, removal of the active one, and a rewrite under its agent's own id, another's or that of a genome nobody lives by; contents that load and are refused for each of the reasons the loader knows. More rewrites under taken ids are left to the proofs |
| `rewrite_in_place` | same, 4 genomes | *violated:* `FailureKeepsActiveGenome`, a failed rewrite destroys the active genome |
| `shared_base` | same, 4 genomes, one base for both agents | *violated:* an agent lives by a genome stamped with another's name |
| `repl_session` | 3 runtimes, runs of 2 turns, 2 calls beside a turn; 1,173,008 states | a reset can wait for its runtime while a second one disposes and a turn starts between them; any creation or disposal may fail |
| `repl_tui` | same | *violated:* a turn acts on a workspace that is being removed |
| `journal` | 2 runs, 2 events, polls of 1 line, 2 polls and 2 requests at once, 1 frame on its way, 1 navigation; 1 fault for the store and 2 elsewhere; 921,442 states | a poll that finishes after a later one and moves the offset back; an event written into a torn line; a log removed and written again to its old size while a request holds the old key; the answer of a run shown before |
| `generation` | 19 plans, 4 tasks, run times of 0 to 2 ticks, 1 mishap; 173,983 states | each reason to refuse a plan once; a holdout of two tasks, so that success, regression, run times and verdicts of persons can disagree; every nature of a child; one caught failure at any step, and one that ends the command |
| `episode` | 23 setups, 3 turns; 570,528 states | tasks that are refused, tiers absent and present, thresholds of 0 to 2 failures; three turns are enough to fail locally, escalate, recover and be judged; any step may throw |
| `legacy` | pool and archive: 2 agents, 2 tasks, 2 generations, 2 runs, 1 fault; files: 1 own and 1 shared, 2 memories each, 3 lines, 2 crashes; registry: 1 candidate; 1,147,237 states | one agent dies while the other holds, completes or waits for a claim, and claims once more when it is dead; a second run meets the archive and the torn line of the first; a save after a load, a save into a torn file, a file of two agents; a task that passes twice, fails after it passed or is not the candidate's. The three parts share no state, so a behaviour watches one of them |

`CHECK_DEADLOCK FALSE` everywhere: each system may stop (all requests answered, last
generation done, bounds reached, `/quit`, an episode over).

The properties, beside a type invariant in each module (proved in each; the
runs of `SlmQueue`, `Evolution`, `ReplSession`, `Legacy` and `Memory` leave it to the proof):

* `ExclusiveModel`, `NoLostWakeup`, `CountersBalance`, `ServesTheBest`,
  `EveryoneAnswered`, `ImplementsService` (queue);
* `LifecycleReplays`, `SnapshotAgreesWithLog` (a log cut anywhere by a crash, the children
  that replay has no entry for included),
  `ChargedOncePerGeneration`, `BalanceIsAudited` (the ledger against the history of the
  run), `RewriteIsEarned`, `DeathsAreArchived`, `DeadIsFinal`, `SleepBeforeDeath`,
  `RunEnds` (loop);
* `HistoryIsRestorable`, `ActiveBoots` (of the plugins a genome lists; workflows and policies
  are loaded by the code too and are data here), `GenomeBelongsToAgent`,
  `FailureChangesNothing` (store). Each excepts exactly the genomes whose id a rewrite was
  created under, and `GenomeBelongsToAgent` the one agent whose rewrite it was;
* `NothingIsSkipped` (every event before the id a client resumes from has reached it,
  however polls overlap), `FreshListing` (a cache hit is the log), `PageCatchesUp` (a page
  that stays comes to show all of its run, and its own summary) (observer);
* `VerdictIsAudited` (the verdict recomputed from the log alone), `WorkspacesAreReleased` (one
  that is left could not be made, photographed or removed, and then nothing is logged),
  `GenerationEnds` (unless a child ignores the signal) (trials);
* `RepairIsReal` (what is reported as passed fails a private test before and none after,
  in editable files, with its story up to the verdict in the log, also if the experiment
  breaks off behind the report; failures are reported as such), `ModelUseIsEarned` (no turn
  calls a tier twice; each external call has its reason while it is made, in the policy and the
  last failures or in what the local tier just answered; no local call is made against the
  policy) (episodes);
* `DeathIsSettled` (a death logged to its end is on disk, and of the dead agent's claims only
  those that landed after its release are left), `ClaimsAreKept`
  (legacy); `LoadRestoresSaved` (a file that loads has all that was saved),
  `VerifiedIsEarned` (memory);
* `OneTurnAtATime` and `StopsAtBoundary`, behind either front end; `WorkspacesAreKept`
  and `SessionIsCoherent`, behind the text front end only, which is what serialising
  commands buys; `RunsEnd` (REPL).

Fairness. *Queue:* a continuation that can run is run, and an operation that was begun
settles; the only provider that does real work bounds its calls
(`providers/openai-compatible.ts:159`, `AbortSignal.timeout`). Nothing is assumed of callers, signals or
the timer. *Loop:* every `await` returns but that of a task (`WF_vars(~TaskRuns /\ Next)`): its
command gets one SIGTERM when its time is over and is awaited until it closes
(`sandbox/runner.ts:129`, `158-160`), so `RunEnds` excepts a run whose task runs for ever. *REPL:*
a turn in flight goes on while it looks and thinks, not while it acts, for the same reason, and
`RunsEnd` has the same exception (`Acting`). Nothing is assumed of the user. The store has no liveness
property: its operations are calls that return. *Journal:* timers fire, reads return,
frames arrive, `EventSource` reconnects, a client asks again; nobody has to write an event
or finish one. *Generation:* steps of the command and timers; a child owes nothing, and the
exception of `GenerationEnds` is the child that will not die. *Episode, Legacy, Memory:* none, and no liveness
property: a command may never close, a run may break at any step, and no agent has to claim,
complete or save.

## 4. Findings

* **Energy events do not replay** (`evolution_replay`). Upkeep and clone payments change
  balances and are not logged; a reward that follows them starts from a balance no event
  explains, and `replayEnergyEvents` throws. The loop's comment promises an exact replay.
* **A rewrite that keeps its genome id destroys the active genome**
  (`rewrite_in_place`). `create` merges the candidate into the active directory without
  overwriting, sees a hash that does not match, and removes the directory. The same happens to any genome
  whose id the manifest of a plan names.
* **Two agents of one base genome share its revision** (`shared_base`). The map is keyed
  by genome id, so the second registration replaces the first.
* **A turn may act on a workspace that `/reset` is removing** (`repl_tui`). The session
  is idle when it is checked and is not marked busy while the old workspace is disposed of.

Also seen while modelling, and not the subject of a run:

* Loop: a dormant agent is never revived; a child is registered and never visited, is in every
  later snapshot and in no replay. An agent survives upkeep it cannot afford by going dormant
  (`lifecycle/population.ts:91-97`) only under thresholds that fit its prices, which nothing
  checks: `SleepBeforeDeath` and its theorem speak of sustainable plans. A new
  provider is made for each visit (`cli/commands/run-evolution.ts:115`), and the first
  failure of a visit ends it, so `externalAfterFailures` of 2 or more never escalates.
* Pool: the class comment promises that a task is held by one living agent
  (`tasks/task-pool.ts:36-37`), and `claim` does not ask who lives: a claim that lands after its
  agent's release is never given back, and the loop never releases an agent twice.
  `releaseAgent` is documented for dormancy too and is called on death only; `die`
  releases claims after three steps that may fail, and if one does, the pool its caller
  shares keeps the task with a dead agent (`DeathIsSettled` speaks of deaths that were
  logged to their end).
* Archive: after a crash in an append the next record runs into the torn one, and `load`
  throws for the whole ecology index, also for the records that are whole.
* Plugins: the observation lists every tool of the registry, the provider parses only the
  names it was compiled with, so an answer that names a plugin's tool ends the visit.
* Memory: a save after a load or another save writes everything again, and the next load
  holds it twice; a file that two agents share can be loaded by neither.
* REPL: a `/task` that is refused has already changed what `/reset` rebuilds, and leaves its
  runtime behind; a workspace that cannot be completed or removed stays without an owner.
* Observer: the page's `after=0` beats the last id it sends (`web/server.ts:271`), so events
  come twice after a reconnect; a stream on a log that was replaced is silent until the log
  outgrows the old offset; an event appended behind a torn line is lost with it; a summary of
  the run shown before may stand until the next refresh; a run counts as completed after its
  first `EXPERIMENT_RUN_COMPLETED`; `App.tsx` reads `taskSuccess` of an event that has
  `passed`; a verdict filed without `--run` goes to the run of the last event, whatever it is.
* Trials: a final snapshot that throws skips the disposal and replaces the error it follows; a
  workspace that cannot be completed or removed stays, and its error ends the generation;
  a command that cannot be started leaves its timer armed; the configured `timeoutMs` is
  validated and not used by the runner.
* Repair: `report.json` says passed before the log says completed, and an error in between leaves
  it so; a workspace that cannot be removed replaces the result. A cleanup of the test tool that
  fails becomes an outcome of the tool and is reported nowhere else.
* Planner: each mutation is checked against the parent's list, so a plan may delete a plugin
  and then modify it; the embryo fails where the planner did not.

## 5. Proofs

`SlmQueue_proofs`. The inductive invariant is `Inv`: the four invariants of the run,
`TypeOK`, and `LineInOrder` (the line is sorted, tickets are numbered by arrival, an
operation that is no longer in flight has an outcome). `LineInOrder` is needed because
the order of service and the answer of a request follow from what the earlier pushes did
to the line. The proof has a lemma per action, and one for `ProcessNext`, which three of
them share. From `Inv`: `QueueTypes`, `ModelIsExclusive`, `NobodyIsForgotten`,
`CountersAddUp`, `PriorityService`, `WithdrawnNeverStarts`, and
`QueueImplementsService`: initial states and steps of the queue map to those of
`SlmService!SafeSpec`. Assumed: requests are finitely many, priorities are integers, the
value for "no request" is none of them.

`Evolution_proofs`, in two layers, for any agents, plan, policies and number of generations.
The first invariant joins the types of state, flags, log and files with `VisitInv` (the agent
that works is awake, the one being buried is dead), `OutboxInv` (which agent the events still
to be appended are about) and `AwakeInv` (under a sustainable plan, whoever is awake can pay).
`DeadIsFinal` needs the second: a step may append an event emitted earlier;
`SleepBeforeDeath` needs the third: that nobody dies awake is decided a generation before the
upkeep is due. From it: `TypeCorrect`, `VisitsAreSound`, `TheDeadRest`, `SleepComesFirst`.

The second, `Audit`, compares the state with what has been said of it: with `All`, the log and
the outbox, because a change of state comes first and its event reaches the disk later. Its
parts are an account each: `DeathInv` (who is dead is archived or is being buried, one legacy
each), `ChargeInv` (the upkeep events of an agent are the generations, and this one if it was
visited), `BalanceInv` (the balance is earnings less upkeep less children less the clone that is
paid for and not there yet), `StreakInv` (the failures counted are those said since the last
success or rewrite, and each rewrite had enough before it), `ReplayInv` (the last state event of
an agent is its state), `BirthInv` (the children are those the events name), `SnapshotInv` (both for every prefix
that ends in a snapshot) and `SeedInv`. What a step says is an event or two at the end of `All`, or none: lemmas on counting,
streaks and last events under `Append` reduce every action to what it says (`Saying`,
`Silent`). The properties that speak of the log alone follow because the log is
a beginning of `All`: `TheLogReplays`, `SnapshotsAgree`, `UpkeepIsChargedOnce`, `TheBooksBalance`,
`RewritesAreEarned`, `TheDeadAreArchived`.

`GenomeStore_proofs`. `StoreInv` says that every revision of a history has the directory whose
hash it was accepted with and that an active genome has one, both unless a rewrite was created
under its id, and that an id not yet handed out has no directory, so that a fresh id is copied
into an empty place; `BootInv` that whatever is on disk loads, claimed or not. From these,
whatever ids the plans name: `HistoryStays`, `FailuresAreHarmless` and, if the base genomes
load (`BaseBoots`), `ActiveGenomesBoot`. The exception is needed: `rewrite_in_place` shows what
becomes of a genome whose id was claimed. `Without`, the filter of `remove`, is defined by
the rank of what is left, since a recursive filter could only be reasoned about by induction.

Two theorems need no directories. `StoreTypes`: its hard part is the plugin list
of an embryo. `Mutated` applies one candidate after the other (`After`), and that this recursive
function exists and yields a list of paths or the error is shown by the least number of candidates for
which it would not (`AfterIsAsDefined`, `MutatedIsAList`). `GenomesKeepTheirAgent`, if no two
agents of the plan share a base genome (`OneBaseEach`, without which `shared_base` finds the
property violated): `OwnInv` says that histories and active genomes are stamped with their
holder, or with an agent whose rewrite was created under their id, and none is ahead of the ids
handed out.

`ReplSession_proofs`. `TypeOK` is inductive here. `OneTurnAtATime` is too, once the flags
are known to be flags: every action that starts a turn finds `activeStep` down, and the
invariant turns that into "no promise is in flight". `SessionTypes`, `TurnsAreExclusive`
and, from both, `StopWaitsForTheTurn` hold for any tasks, bounds and front ends.
`NoWorkspaceIsPulled` and `WhatIsShownIsThere` are about the text front end. Their invariant
`TextInv` says what "one command at a time" leaves possible (`OneCommand`: turns or a command,
and nothing after the end), where each workspace may stand (`PlaceInv`: a live one is that of
the session or of the command on its way to replace it, one whose creation or removal failed
is nobody's) and that history and task are those of
the runtime, the task until a removal fails (`HistoryInv`, `TaskInv`). Behind the other front
end two of these are false, which is a finding of section 4.

`Journal_proofs`. `FreshListing` is not inductive: a request takes its key before it reads,
so what it keeps may be newer than its key. `ListingInv` says that no key is from the future
and that groups filed under a key are the log for as long as the key is the log's; every
write counts in `mtime`, so a key that no longer matches never matches again. `ListingIsFresh`
holds for any runs, scripts, slots and bounds.

`NothingIsSkipped` speaks of the last id only; what makes it last is `StreamInv`: a position is
safe for a set when every event of the run before it is in the set, and the last id is safe for
what is received, the position of each frame for that and the frames up to it, the offset of the
server and the place a poll reads from for all that is on its way, and the end of a batch not yet
sent for that and the batch. Every step extends a safe position by the events it passes over, so
`NothingIsLost` holds although overlapping polls move the offset back. `ShapeInv` (well-formed
log, frames and polls; nothing under way on a connection that is down) carries it.
`JournalTypes` adds the sorts of loads and polls: what each has computed by its place in the
code, and nothing else.

`Generation_proofs`. `WorkspaceInv` ties the number of workspaces to the place in `runTask`,
and a trial to the stage of the command: a workspace that a failed creation, snapshot or
disposal left is the last one, because that error also ends the command, before anything but
the announcement is logged; hence `TrialsCleanUp`. `ArmInv` and `Account` say
how far a command is and what it has to show: `RunsInv`, that the runs so far are the schedule
so far, a baseline and a candidate of each task; `LogInv`, that the log is the announcement, the
runs in their order and the verdict last; `VerdictInv`, that the verdict is the evaluation of the
runs. `VerdictIsAudited` recomputes the verdict from the log: a side's runs of a kind correspond
one to one to the tasks of that kind, for their places are known, so their numbers are the plan's. The
schedule and the sides are defined by place, not by flattening and filtering, so that this needs
no induction over lists. Theorems: `GenerationTypes`, `TrialsCleanUp`, `VerdictsAreAudited`, for any plans,
tasks and commands.

`Episode_proofs`. `PassedRepairsAreReal` is proved from an invariant in three parts: `EndInv`
(workspace, error and report by place), `LogInv` (the log is the story so far, so that it is
the whole story when the report is written) and `SourceInv` (the verdict is about the files that are reported
until an error is caught; only editable files differ). Tests are put back before they run,
which `AcceptanceSays` turns into "every needed file was mended".
`ModelUseStaysEarned` has the calls. `CallInv` says what a turn has called by its place, and
that a turn that is local had no reason to be external; `HeardInv`, that the counter of the
runtime is the failures of the local tier since its last answer. The policy of a genome is
derived from the last of its policies that names a rule; `RuleSays` and `OneLastWord` show that
this is the one last word of the property, whatever the policies (there is a last one of
finitely many, by well-foundedness), and `WantedIsDue` that the runtime wants the external tier
exactly when the property does. `BudgetInv` keeps turns and failures within the turns there
are: `EpisodeTypes`.

`Persistence_proofs`, for `Legacy`. `DeathIsSettled` needs to know where a death stands: `PlaceInv` ties the
steps of `die` to the legacy, the line and the claims of the agent whose turn it is. What a
released agent holds landed after its release (`ReleasedHoldLate`): a release takes all, and
nothing else gives it a claim. An index that does not load may come to load again as far as
`fragment` goes, so `Settled` remembers the torn line itself, which stays.
`ClaimsAreKept` uses that `releaseAgent` is reached only for an agent that is dead. Theorems:
`LegacyTypes`, `DeathsAreSettled`, `ClaimsPassOnDeath`, for any order of agents and any plan
without repetition.

`Persistence_proofs`, for `Memory`. `LoadRestoresSaved` is not inductive, for a save in progress has promised
nothing yet: `FileInv` adds that what is being saved is in the file or still to come, and
that a file is damaged for good once a line of it was cut. `RegistryInv` says that the
verifying tasks are those that passed, each once. Theorems: `MemoryTypes`, `MemoriesAreOwn`,
`SavedIsRestored`, `PromotionIsEarned`.

Checked by TLC only: everything under fairness (`EveryoneAnswered`, `RunEnds`, `RunsEnd`,
`PageCatchesUp`, `GenerationEnds`, the progress half of `ImplementsService`), which is
outside the prover's reach.

## 6. Not modelled, and why

* **Resource metering, terminal UI rendering, static files of the web server, packaging**:
  counters of the process, presentation and I/O.
* In components that are modelled in part: prompts and HTTP, the output limit of a command
  and the environment it gets, patches, fitness and the base harness, comparison of runs,
  argument parsing, reports, readings of memory. They do not decide who does what next. Docker,
  the models, commands and plugins are the environment, free to do anything their callers
  can observe.

## 7. Plan

1. Composition: `Episode` over `SlmQueue`, two agents' turns on one local model.
2. An abstract specification of the task pool (who holds what, and since when) for `Legacy` to
   implement, with the refinement proved step by step.
