----------------------------- MODULE ReplSession -----------------------------
(***************************************************************************)
(* ReplSession (src/cli/tui/session.ts) under its two front ends: the text *)
(* REPL (cli/commands/repl-text.ts) awaits each command before it reads    *)
(* the next line, the terminal UI (cli/tui/app.tsx) starts a command with  *)
(* every Enter and refuses them only while a /run is active.  The runtimes *)
(* and the task come from cli/commands/repl.ts, the turn from              *)
(* core/agent-core.ts.                                                     *)
(*                                                                         *)
(* A step is the code between two awaits.  A command that is refused       *)
(* changes nothing and is no step, unless it has changed something before. *)
(* What the model thinks, tools do and files hold is left out; so are the  *)
(* commands that only print what is in memory.  A second SIGINT in text    *)
(* mode kills the process.                                                 *)
(***************************************************************************)
EXTENDS Integers, FiniteSets, SequencesExt

CONSTANTS Tasks,        \* tasks that can be loaded; the goal of a task is its title
          MaxRuntimes,  \* bound: runtimes created in a session
          MaxTurns,     \* bound: turns of one /run
          MaxHistory,   \* bound: turns kept, counted when a command starts
          MaxCalls      \* bound: commands in flight beside turns

ASSUME TasksFinite == IsFiniteSet(Tasks) /\ Tasks # {}
ASSUME BoundsType  == /\ MaxRuntimes \in Nat \ {0} /\ MaxTurns \in Nat \ {0}
                      /\ MaxHistory \in Nat /\ MaxCalls \in Nat

Runtimes == 1..MaxRuntimes

VARIABLES
  front,       \* the front end of this process
  over,        \* /quit was entered, or the input has ended
  listening,   \* text mode: process.once("SIGINT") is still registered
  task,        \* the variable `task` of replCommand.run
  created,     \* runtimes created so far
  made,        \* task and goal of each runtime
  workspace,   \* the directory of each runtime; "damaged": half made or removed
  runtime, history, activeStep, controller, disposed,   \* fields of the session
  left,        \* turns the active run has left
  turns,       \* turns in flight
  calls        \* other commands in flight

session == <<runtime, history, activeStep, controller, disposed, left>>
vars == <<front, over, listening, task, created, made, workspace, session,
          turns, calls>>

Turns == [rt : Runtimes, index : Nat \ {0}, run : BOOLEAN,
          phase : {"observe", "think", "act"}]
Calls == [kind : {"inspect", "list", "reset", "load"}, rt : Runtimes, old : Runtimes,
          stage : {"reading", "creating", "disposing"}]
-----------------------------------------------------------------------------
Init ==
  /\ front \in {"text", "tui"} /\ over = FALSE /\ listening = TRUE
  /\ task \in Tasks /\ created = 1
  /\ made = [r \in Runtimes |-> [task |-> task, goal |-> task]]
  /\ workspace = [r \in Runtimes |-> IF r = 1 THEN "live" ELSE "none"]
  /\ runtime = 1 /\ history = <<>>
  /\ activeStep = FALSE /\ controller = "none" /\ disposed = FALSE /\ left = 0
  /\ turns = {} /\ calls = {}

Quiet == turns = {} /\ calls = {}

\* ensureIdle.
Idle == ~activeStep /\ controller = "none"

\* The front end starts a command.
Accepts == /\ ~over
           /\ front = "text" => Quiet
           /\ front = "tui" => controller = "none"

\* stepInternal on the runtime and after the turns the session has now.
Turn(run, n) == [rt |-> runtime, index |-> n, run |-> run, phase |-> "observe"]

\* Bug: a turn is started beside the one in flight.
StartTurnBeside(run) ==
  /\ turns' = turns \cup {Turn(run, Len(history) + 1)}
  /\ activeStep' = TRUE

StartTurn(run) ==
  /\ ~activeStep
  /\ turns' = turns \cup {Turn(run, Len(history) + 1)}
  /\ activeStep' = TRUE

Step ==
  /\ Accepts /\ Idle /\ Len(history) < MaxHistory
  /\ StartTurn(FALSE)
  /\ UNCHANGED <<front, over, listening, task, created, made, workspace, runtime,
                 history, controller, disposed, left, calls>>

\* /run n, up to its first await.
Run(n) ==
  /\ Accepts /\ controller = "none" /\ Len(history) + n <= MaxHistory
  /\ StartTurn(TRUE)
  /\ controller' = "running" /\ left' = n - 1
  /\ UNCHANGED <<front, over, listening, task, created, made, workspace, runtime,
                 history, disposed, calls>>

\* runTurn goes on after an await: observe, think, act.
TurnMoves(t) ==
  /\ t \in turns /\ t.phase # "act"
  /\ turns' = (turns \ {t}) \cup
       {[t EXCEPT !.phase = IF t.phase = "observe" THEN "think" ELSE "act"]}
  /\ UNCHANGED <<front, over, listening, task, created, made, workspace, session, calls>>

\* What a turn leaves in the history, whether it has failed or not.
Entry(t) == [rt |-> t.rt, index |-> t.index]

\* Bug: the loop does not look at its signal between two turns.
TurnEndsDeaf(t, ok) ==
  /\ t \in turns /\ (ok => t.phase = "act")
  /\ history' = Append(history, Entry(t))
  /\ IF t.run /\ ok /\ left > 0
     THEN /\ turns' = (turns \ {t}) \cup {Turn(TRUE, Len(history) + 2)}
          /\ left' = left - 1
          /\ UNCHANGED <<activeStep, controller>>
     ELSE /\ turns' = turns \ {t} /\ activeStep' = FALSE
          /\ left' = 0 /\ controller' = "none"
  /\ UNCHANGED <<front, over, listening, task, created, made, workspace, runtime,
                 disposed, calls>>

\* Bug: a run that fails leaves its controller behind.
TurnEndsUncleared(t, ok) ==
  /\ t \in turns /\ (ok => t.phase = "act")
  /\ history' = Append(history, Entry(t))
  /\ turns' = turns \ {t} /\ activeStep' = FALSE
  /\ left' = 0 /\ controller' = IF ok THEN "none" ELSE controller
  /\ UNCHANGED <<front, over, listening, task, created, made, workspace, runtime,
                 disposed, calls>>

\* A turn ends or fails.  It is kept either way; a run that is neither stopped
\* nor exhausted goes straight on to its next turn, on the runtime it finds.
TurnEnds(t, ok) ==
  /\ t \in turns /\ (ok => t.phase = "act")
  /\ history' = Append(history, Entry(t))
  /\ IF t.run /\ ok /\ left > 0 /\ controller = "running"
     THEN /\ turns' = (turns \ {t}) \cup {Turn(TRUE, Len(history) + 2)}
          /\ left' = left - 1
          /\ UNCHANGED <<activeStep, controller>>
     ELSE /\ turns' = turns \ {t} /\ activeStep' = FALSE
          /\ left' = 0 /\ controller' = "none"
  /\ UNCHANGED <<front, over, listening, task, created, made, workspace, runtime,
                 disposed, calls>>

\* Ctrl-C, or /stop in the terminal UI.
Stop ==
  /\ ~over /\ (front = "text" => listening)
  /\ listening' = (front = "tui")
  /\ controller' = IF controller = "running" THEN "aborted" ELSE controller
  /\ UNCHANGED <<front, over, task, created, made, workspace, runtime, history,
                 activeStep, disposed, left, turns, calls>>

\* /goal.
SetGoal(g) ==
  /\ Accepts /\ Idle
  /\ made' = [made EXCEPT ![runtime].goal = g]
  /\ UNCHANGED <<front, over, listening, task, created, workspace, session, turns, calls>>

\* A command waits in the background, for something done with runtime rt.
Call(kind, rt, stage) ==
  /\ Cardinality(calls) < MaxCalls
  /\ calls' = calls \cup {[kind |-> kind, rt |-> rt, old |-> runtime, stage |-> stage]}

\* /cat is an action on the environment, and is not tracked.
Inspect ==
  /\ Accepts /\ Idle
  /\ Call("inspect", runtime, "reading")
  /\ UNCHANGED <<front, over, listening, task, created, made, workspace, session, turns>>

\* /files and /patch, which do not ask whether the session is idle.
List ==
  /\ Accepts
  /\ Call("list", runtime, "reading")
  /\ UNCHANGED <<front, over, listening, task, created, made, workspace, session, turns>>

ReadEnds(c) ==
  /\ c \in calls /\ c.stage = "reading"
  /\ calls' = calls \ {c}
  /\ UNCHANGED <<front, over, listening, task, created, made, workspace, session, turns>>

\* createReplRuntime, up to its first await.
CreateRuntime(kind, t, goal) ==
  /\ created < MaxRuntimes
  /\ created' = created + 1
  /\ made' = [made EXCEPT ![created'] = [task |-> t, goal |-> goal]]
  /\ workspace' = [workspace EXCEPT ![created'] = "live"]
  /\ Call(kind, created', "creating")

\* /reset rebuilds the task with the goal of now; /task loads another one, and
\* does not ask whether the session is idle before the runtime is there.
Reset ==
  /\ Accepts /\ Idle
  /\ CreateRuntime("reset", task, made[runtime].goal)
  /\ UNCHANGED <<front, over, listening, task, session, turns>>

Load(t) ==
  /\ Accepts
  /\ CreateRuntime("load", t, t)
  /\ UNCHANGED <<front, over, listening, task, session, turns>>

\* The workspace cannot be filled and is removed, if it can be; or only part of
\* it was made, which nobody removes.  The command fails.
CreationFails(c) ==
  /\ c \in calls /\ c.stage = "creating"
  /\ calls' = calls \ {c}
  /\ \E dir \in {"gone", "damaged"} : workspace' = [workspace EXCEPT ![c.rt] = dir]
  /\ UNCHANGED <<front, over, listening, task, created, made, session, turns>>

\* replaceRuntime finds the session disposed or busy.  /task has changed `task`
\* by then, and nobody disposes of the runtime that was created.
Refused(c) ==
  /\ c \in calls /\ c.stage = "creating"
  /\ disposed \/ ~Idle
  /\ task' = IF c.kind = "load" THEN made[c.rt].task ELSE task
  /\ calls' = calls \ {c}
  /\ UNCHANGED <<front, over, listening, created, made, workspace, session, turns>>

\* Bug: the turns of the workspace that is thrown away are kept.
SwapKeepingHistory(rt) == runtime' = rt /\ UNCHANGED history

\* The end of replaceRuntime.
Swap(rt) == runtime' = rt /\ history' = <<>>

\* replaceRuntime disposes of the previous workspace.  When that was begun
\* before, the second dispose() returns at once.
Replace(c) ==
  /\ c \in calls /\ c.stage = "creating"
  /\ ~disposed /\ Idle
  /\ task' = IF c.kind = "load" THEN made[c.rt].task ELSE task
  /\ IF workspace[runtime] = "live"
     THEN /\ workspace' = [workspace EXCEPT ![runtime] = "gone"]
          /\ calls' = (calls \ {c}) \cup
               {[c EXCEPT !.stage = "disposing", !.old = runtime]}
          /\ UNCHANGED <<runtime, history>>
     ELSE /\ Swap(c.rt)
          /\ calls' = calls \ {c}
          /\ UNCHANGED workspace
  /\ UNCHANGED <<front, over, listening, created, made, activeStep, controller,
                 disposed, left, turns>>

DisposalEnds(c) ==
  /\ c \in calls /\ c.stage = "disposing"
  /\ Swap(c.rt)
  /\ calls' = calls \ {c}
  /\ UNCHANGED <<front, over, listening, task, created, made, workspace, activeStep,
                 controller, disposed, left, turns>>

\* Bug: the new runtime is dropped when the old one cannot be removed.
DisposalFailsLeaking(c) ==
  /\ c \in calls /\ c.stage = "disposing"
  /\ workspace' = [workspace EXCEPT ![c.old] = "damaged"]
  /\ calls' = calls \ {c}
  /\ UNCHANGED <<front, over, listening, task, created, made, session, turns>>

\* The old workspace cannot be removed: the new one is, if it can be, and the
\* session stays with what is left of the old one.
DisposalFails(c) ==
  /\ c \in calls /\ c.stage = "disposing"
  /\ \E dir \in {"gone", "damaged"} :
       workspace' = [workspace EXCEPT ![c.old] = "damaged", ![c.rt] = dir]
  /\ calls' = calls \ {c}
  /\ UNCHANGED <<front, over, listening, task, created, made, session, turns>>

\* /quit, or the end of the input, and the dispose() in replCommand.run.  It
\* throws when a turn is in flight; what is in flight then goes on.  It throws
\* too when the workspace cannot be removed.
Quit ==
  /\ Accepts
  /\ over' = TRUE
  /\ IF Idle
     THEN /\ disposed' = TRUE
          /\ \E dir \in {"gone", "damaged"} :
               workspace' = [workspace EXCEPT ![runtime] = IF @ = "live" THEN dir ELSE @]
     ELSE UNCHANGED <<disposed, workspace>>
  /\ UNCHANGED <<front, listening, task, created, made, runtime, history, activeStep,
                 controller, left, turns, calls>>

TurnGoesOn == \E t \in turns : \/ TurnMoves(t)
                              \/ \E ok \in BOOLEAN : TurnEnds(t, ok)

\* executeReplCommand: what a line can ask for.
Command ==
  \/ Step \/ Stop \/ Inspect \/ List \/ Reset \/ Quit
  \/ \E n \in 1..MaxTurns : Run(n)
  \/ \E t \in Tasks : SetGoal(t) \/ Load(t)

Next ==
  \/ Command
  \/ TurnGoesOn
  \/ \E c \in calls : \/ ReadEnds(c) \/ CreationFails(c) \/ Refused(c)
                     \/ Replace(c) \/ DisposalEnds(c) \/ DisposalFails(c)

\* A command of the turn runs, or what the turn does otherwise to its workspace.
Acting == \E t \in turns : t.phase = "act"

\* A turn goes on while it looks and thinks: the provider bounds what it waits
\* for.  One that acts may wait for ever, for a command that ignores SIGTERM.
\* Nothing is assumed of the user.
Spec == Init /\ [][Next]_vars /\ WF_vars(~Acting /\ TurnGoesOn)
-----------------------------------------------------------------------------
TypeOK ==
  /\ front \in {"text", "tui"} /\ over \in BOOLEAN /\ listening \in BOOLEAN
  /\ task \in Tasks /\ created \in Runtimes
  /\ made \in [Runtimes -> [task : Tasks, goal : Tasks]]
  /\ workspace \in [Runtimes -> {"none", "live", "gone", "damaged"}]
  /\ runtime \in Runtimes
  /\ history \in Seq([rt : Runtimes, index : Nat \ {0}])
  /\ activeStep \in BOOLEAN /\ controller \in {"none", "running", "aborted"}
  /\ disposed \in BOOLEAN /\ left \in Nat
  /\ turns \subseteq Turns /\ calls \subseteq Calls

\* However commands overlap, one turn is in flight at a time and the session
\* knows of it; a run that is active has its turn in flight.
OneTurnAtATime ==
  /\ \A t, u \in turns : t = u
  /\ activeStep <=> turns # {}
  /\ controller # "none" => \E t \in turns : t.run

\* A run that was told to stop starts no further turn, and the turn in flight is
\* finished and kept.
StopsAtBoundary ==
  [][controller = "aborted" =>
       /\ \A t \in turns' : t.phase = "observe" => t \in turns
       /\ controller' = "none" => Len(history') = Len(history) + 1]_vars

\* The workspaces that something reads or acts on.
InUse == {t.rt : t \in {u \in turns : u.phase # "think"}}
           \cup {c.rt : c \in {d \in calls : d.stage = "reading"}}

\* "Waiting for the in-flight turn to finish keeps reset and workspace disposal
\* from racing with an environment action."
NoActionOnDisposedWorkspace ==
  \A t \in turns : t.phase = "act" => workspace[t.rt] # "gone"

\* Behind the text front end, no workspace is removed under its user, and one
\* that was made is the session's or on its way to it until its removal begins,
\* whatever fails: when the REPL is over, all that can be left is a workspace
\* that could not be made or removed.
WorkspacesAreKept ==
  front = "text" =>
    /\ \A r \in InUse : workspace[r] # "gone"
    /\ \A r \in Runtimes : workspace[r] = "live" =>
         \/ r = runtime /\ ~disposed
         \/ \E c \in calls : r = c.rt

\* Behind the text front end, the turns shown are those of the workspace shown,
\* numbered without gaps, and unless the removal of that workspace has failed,
\* /reset rebuilds the task it was made for.
SessionIsCoherent ==
  front = "text" =>
    /\ \A i \in DOMAIN history : history[i] = [rt |-> runtime, index |-> i]
    /\ Quiet /\ workspace[runtime] # "damaged" => made[runtime].task = task

\* A run ends, also when it is stopped or fails, and gives the session back,
\* unless its turn acts for ever.
RunsEnd == []<>(controller = "none") \/ <>[]Acting
=============================================================================
