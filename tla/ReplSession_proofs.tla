------------------------- MODULE ReplSession_proofs -------------------------
(***************************************************************************)
(* Theorems about ReplSession: whatever commands overlap, behind whichever *)
(* front end, turns are taken one at a time and a stop waits for one.      *)
(* Behind the text front end, which awaits each command, the runtime of    *)
(* the session keeps its workspace and what is shown of it is there.       *)
(***************************************************************************)
EXTENDS ReplSession, SequenceTheorems, TLAPS

LEMMA RuntimesAreThere == 1 \in Runtimes /\ MaxRuntimes \in Nat
BY BoundsType DEF Runtimes

LEMMA InitTypes == Init => TypeOK
<1> SUFFICES ASSUME Init PROVE TypeOK
  OBVIOUS
<1>1. history \in Seq([rt : Runtimes, index : Nat \ {0}])
  BY EmptySeq DEF Init
<1> QED BY <1>1, RuntimesAreThere DEF Init, TypeOK

\* The turn that a session would start now.
LEMMA TurnType ==
  ASSUME TypeOK, NEW run \in BOOLEAN, NEW n \in Nat \ {0}
  PROVE  Turn(run, n) \in Turns
BY DEF TypeOK, Turn, Turns

LEMMA NextTurnType ==
  ASSUME TypeOK, NEW run \in BOOLEAN
  PROVE  Turn(run, Len(history) + 1) \in Turns /\ Turn(run, Len(history) + 2) \in Turns
<1>1. Len(history) \in Nat
  BY LenProperties DEF TypeOK
<1>2. Len(history) + 1 \in Nat \ {0} /\ Len(history) + 2 \in Nat \ {0}
  BY <1>1
<1> HIDE DEF Turn
<1> QED BY <1>2, TurnType

\* One turn more is kept.
LEMMA EntryType ==
  ASSUME TypeOK, NEW t \in turns
  PROVE  /\ Append(history, Entry(t)) \in Seq([rt : Runtimes, index : Nat \ {0}])
         /\ Len(Append(history, Entry(t))) = Len(history) + 1
<1>1. Entry(t) \in [rt : Runtimes, index : Nat \ {0}]
  BY DEF TypeOK, Turns, Entry
<1> QED BY <1>1, AppendProperties DEF TypeOK

LEMMA TurnsKeepTypes ==
  ASSUME TypeOK,
         Step \/ (\E n \in 1..MaxTurns : Run(n)) \/ TurnGoesOn
  PROVE  TypeOK'
<1>1. CASE Step
  <2>1. Turn(FALSE, Len(history) + 1) \in Turns
    BY NextTurnType
  <2> QED BY <1>1, <2>1 DEF Step, StartTurn, TypeOK
<1>2. ASSUME NEW n \in 1..MaxTurns, Run(n) PROVE TypeOK'
  <2>1. Turn(TRUE, Len(history) + 1) \in Turns
    BY NextTurnType
  <2>2. n - 1 \in Nat
    BY BoundsType
  <2> QED BY <1>2, <2>1, <2>2 DEF Run, StartTurn, TypeOK
<1>3. ASSUME NEW t \in turns, TurnMoves(t) PROVE TypeOK'
  <2> DEFINE u == [t EXCEPT !.phase = IF t.phase = "observe" THEN "think" ELSE "act"]
  <2>1. u \in Turns
    BY DEF TypeOK, Turns
  <2>2. turns' = (turns \ {t}) \cup {u}
    BY <1>3 DEF TurnMoves
  <2> HIDE DEF u
  <2>3. turns' \subseteq Turns
    BY <2>1, <2>2 DEF TypeOK
  <2> QED BY <1>3, <2>3 DEF TurnMoves, session, TypeOK
<1>4. ASSUME NEW t \in turns, NEW ok \in BOOLEAN, TurnEnds(t, ok) PROVE TypeOK'
  <2>1. history' \in Seq([rt : Runtimes, index : Nat \ {0}])
    BY <1>4, EntryType DEF TurnEnds
  <2>2. Turn(TRUE, Len(history) + 2) \in Turns
    BY NextTurnType
  <2>3. /\ turns' \subseteq Turns /\ activeStep' \in BOOLEAN
        /\ controller' \in {"none", "running", "aborted"}
    <3>1. CASE t.run /\ ok /\ left > 0 /\ controller = "running"
      BY <1>4, <2>2, <3>1 DEF TurnEnds, TypeOK
    <3>2. CASE ~(t.run /\ ok /\ left > 0 /\ controller = "running")
      BY <1>4, <3>2 DEF TurnEnds, TypeOK
    <3> QED BY <3>1, <3>2
  <2>4. left' \in Nat
    <3>1. left' = 0 \/ (left > 0 /\ left' = left - 1)
      BY <1>4 DEF TurnEnds
    <3> QED BY <3>1 DEF TypeOK
  <2> QED BY <1>4, <2>1, <2>3, <2>4 DEF TurnEnds, TypeOK
<1> QED BY <1>1, <1>2, <1>3, <1>4 DEF TurnGoesOn

LEMMA CommandsKeepTypes ==
  ASSUME TypeOK,
         \/ Stop \/ Inspect \/ List \/ Reset \/ Quit
         \/ \E t \in Tasks : SetGoal(t) \/ Load(t)
  PROVE  TypeOK'
<1>1. CASE Stop
  BY <1>1 DEF Stop, TypeOK
<1>2. CASE Inspect \/ List
  <2>1. calls' \subseteq Calls
    BY <1>2 DEF Inspect, List, Call, Calls, TypeOK
  <2> QED BY <1>2, <2>1 DEF Inspect, List, session, TypeOK
<1>3. ASSUME NEW kind \in {"reset", "load"}, NEW t \in Tasks, NEW goal \in Tasks,
             CreateRuntime(kind, t, goal),
             UNCHANGED <<front, over, listening, task, session, turns>>
      PROVE  TypeOK'
  <2>1. created' \in Runtimes
    BY <1>3, RuntimesAreThere DEF CreateRuntime, Runtimes, TypeOK
  <2>2. made' \in [Runtimes -> [task : Tasks, goal : Tasks]]
    BY <1>3 DEF CreateRuntime, TypeOK
  <2>3. workspace' \in [Runtimes -> {"none", "live", "gone", "damaged"}]
    BY <1>3 DEF CreateRuntime, TypeOK
  <2>4. calls' \subseteq Calls
    BY <1>3, <2>1 DEF CreateRuntime, Call, Calls, TypeOK
  <2> QED BY <1>3, <2>1, <2>2, <2>3, <2>4 DEF session, TypeOK
<1>4. CASE Reset
  <2>1. task \in Tasks /\ made[runtime].goal \in Tasks
    BY DEF TypeOK
  <2> QED BY <1>3, <1>4, <2>1 DEF Reset
<1>5. ASSUME NEW t \in Tasks, Load(t) PROVE TypeOK'
  BY <1>3, <1>5 DEF Load
<1>6. ASSUME NEW g \in Tasks, SetGoal(g) PROVE TypeOK'
  <2> DEFINE m == [made[runtime] EXCEPT !.goal = g]
  <2>1. m \in [task : Tasks, goal : Tasks]
    BY DEF TypeOK
  <2>2. made' = [made EXCEPT ![runtime] = m]
    BY <1>6 DEF SetGoal
  <2> HIDE DEF m
  <2>3. made' \in [Runtimes -> [task : Tasks, goal : Tasks]]
    BY <2>1, <2>2 DEF TypeOK
  <2> QED BY <1>6, <2>3 DEF SetGoal, session, TypeOK
<1>7. CASE Quit
  <2>1. disposed' \in BOOLEAN /\ workspace' \in [Runtimes -> {"none", "live", "gone", "damaged"}]
    BY <1>7 DEF Quit, TypeOK
  <2> QED BY <1>7, <2>1 DEF Quit, TypeOK
<1> QED BY <1>1, <1>2, <1>4, <1>5, <1>6, <1>7

LEMMA CallsKeepTypes ==
  ASSUME TypeOK, NEW c \in calls,
         \/ ReadEnds(c) \/ CreationFails(c) \/ Refused(c)
         \/ Replace(c) \/ DisposalEnds(c) \/ DisposalFails(c)
  PROVE  TypeOK'
<1>0. /\ c \in Calls /\ c.rt \in Runtimes /\ c.old \in Runtimes
      /\ made[c.rt].task \in Tasks
  BY DEF TypeOK, Calls
<1>1. CASE ReadEnds(c)
  BY <1>1 DEF ReadEnds, session, TypeOK
<1>2. CASE CreationFails(c) \/ DisposalFails(c)
  <2>1. workspace' \in [Runtimes -> {"none", "live", "gone", "damaged"}]
    BY <1>0, <1>2 DEF CreationFails, DisposalFails, TypeOK
  <2> QED BY <1>2, <2>1 DEF CreationFails, DisposalFails, session, TypeOK
<1>3. CASE Refused(c)
  <2>1. task' \in Tasks
    BY <1>0, <1>3 DEF Refused, TypeOK
  <2> QED BY <1>3, <2>1 DEF Refused, session, TypeOK
<1>4. <<>> \in Seq([rt : Runtimes, index : Nat \ {0}])
  BY EmptySeq
<1>5. CASE DisposalEnds(c)
  BY <1>0, <1>4, <1>5 DEF DisposalEnds, Swap, TypeOK
<1>6. CASE Replace(c)
  <2>1. task' \in Tasks
    BY <1>0, <1>6 DEF Replace, TypeOK
  <2>2. CASE workspace[runtime] = "live"
    <3> DEFINE d == [c EXCEPT !.stage = "disposing", !.old = runtime]
    <3>1. d \in Calls
      BY <1>0 DEF Calls, TypeOK
    <3>2. calls' = (calls \ {c}) \cup {d}
      BY <1>6, <2>2 DEF Replace
    <3> HIDE DEF d
    <3>3. calls' \subseteq Calls
      BY <3>1, <3>2 DEF TypeOK
    <3>4. workspace' \in [Runtimes -> {"none", "live", "gone", "damaged"}]
      BY <1>6, <2>2 DEF Replace, TypeOK
    <3>5. UNCHANGED <<runtime, history>>
      BY <1>6, <2>2 DEF Replace
    <3> QED BY <1>6, <2>1, <3>3, <3>4, <3>5 DEF Replace, TypeOK
  <2>3. CASE workspace[runtime] # "live"
    BY <1>0, <1>4, <1>6, <2>1, <2>3 DEF Replace, Swap, TypeOK
  <2> QED BY <2>2, <2>3
<1> QED BY <1>1, <1>2, <1>3, <1>5, <1>6

LEMMA NextTypes == TypeOK /\ [Next]_vars => TypeOK'
<1>1. ASSUME TypeOK, UNCHANGED vars PROVE TypeOK'
  BY <1>1 DEF vars, session, TypeOK
<1> QED BY <1>1, TurnsKeepTypes, CommandsKeepTypes, CallsKeepTypes DEF Next, Command

\* Whatever a user enters, every field of the session keeps its type: turns are
\* numbered from one and a run never has less than no turn left.
THEOREM SessionTypes == Spec => []TypeOK
BY InitTypes, NextTypes, PTL DEF Spec

\* What the flags of the session say of the turns in flight.
FlagsOK == activeStep \in BOOLEAN /\ controller \in {"none", "running", "aborted"}
TurnInv == FlagsOK /\ OneTurnAtATime

\* Commands other than turns leave the turns and the flags alone.
LEMMA CallsLeaveTurns ==
  ASSUME NEW c \in calls,
         \/ ReadEnds(c) \/ CreationFails(c) \/ Refused(c)
         \/ Replace(c) \/ DisposalEnds(c) \/ DisposalFails(c)
  PROVE  UNCHANGED <<turns, activeStep, controller>>
BY DEF ReadEnds, CreationFails, Refused, Replace, DisposalEnds, DisposalFails, session

\* Neither do the commands that only begin something else.
LEMMA CommandsLeaveTurns ==
  ASSUME \/ Inspect \/ List \/ Reset \/ Quit
         \/ \E t \in Tasks : SetGoal(t) \/ Load(t)
  PROVE  UNCHANGED <<turns, activeStep, controller>>
BY DEF Inspect, List, Reset, Quit, SetGoal, Load, session

\* A new turn finds none in flight.
LEMMA TurnBegins ==
  ASSUME TurnInv, NEW run \in BOOLEAN, StartTurn(run)
  PROVE  /\ turns' = {Turn(run, Len(history) + 1)}
         /\ activeStep' = TRUE
BY DEF TurnInv, OneTurnAtATime, StartTurn

\* The turn that goes on is the one in flight, so what follows it is alone too.
LEMMA TurnIsAlone ==
  ASSUME TurnInv, NEW t \in turns
  PROVE  turns = {t} /\ activeStep /\ (controller # "none" => t.run)
BY DEF TurnInv, OneTurnAtATime

LEMMA InitTurns == Init => TurnInv
BY DEF Init, TurnInv, FlagsOK, OneTurnAtATime

LEMMA NextTurns == TypeOK /\ TurnInv /\ [Next]_vars => TurnInv'
<1> SUFFICES ASSUME TypeOK, TurnInv, [Next]_vars PROVE TurnInv'
  OBVIOUS
<1>1. CASE UNCHANGED <<turns, activeStep, controller>>
  BY <1>1 DEF TurnInv, FlagsOK, OneTurnAtATime
<1>2. CASE Step
  <2>1. StartTurn(FALSE) /\ controller' = "none"
    BY <1>2 DEF Step, Idle
  <2>2. turns' = {Turn(FALSE, Len(history) + 1)} /\ activeStep' = TRUE
    BY <2>1, TurnBegins
  <2> QED BY <2>1, <2>2 DEF TurnInv, FlagsOK, OneTurnAtATime
<1>3. ASSUME NEW n \in 1..MaxTurns, Run(n) PROVE TurnInv'
  <2>1. StartTurn(TRUE) /\ controller' = "running"
    BY <1>3 DEF Run
  <2>2. turns' = {Turn(TRUE, Len(history) + 1)} /\ activeStep' = TRUE
    BY <2>1, TurnBegins
  <2>3. Turn(TRUE, Len(history) + 1).run
    BY DEF Turn
  <2> QED BY <2>1, <2>2, <2>3 DEF TurnInv, FlagsOK, OneTurnAtATime
<1>4. CASE Stop
  <2>1. UNCHANGED <<turns, activeStep>>
    BY <1>4 DEF Stop
  <2>2. controller' = IF controller = "running" THEN "aborted" ELSE controller
    BY <1>4 DEF Stop
  <2> QED BY <2>1, <2>2 DEF TurnInv, FlagsOK, OneTurnAtATime
<1>5. ASSUME NEW t \in turns, TurnMoves(t) PROVE TurnInv'
  <2> DEFINE u == [t EXCEPT !.phase = IF t.phase = "observe" THEN "think" ELSE "act"]
  <2>1. turns = {t} /\ activeStep /\ (controller # "none" => t.run)
    BY TurnIsAlone
  <2>2. turns' = (turns \ {t}) \cup {u} /\ UNCHANGED <<activeStep, controller>>
    BY <1>5 DEF TurnMoves, session
  <2>3. u.run = t.run
    BY DEF TypeOK, Turns
  <2> HIDE DEF u
  <2>4. turns' = {u}
    BY <2>1, <2>2
  <2> QED BY <2>1, <2>2, <2>3, <2>4 DEF TurnInv, FlagsOK, OneTurnAtATime
<1>6. ASSUME NEW t \in turns, NEW ok \in BOOLEAN, TurnEnds(t, ok) PROVE TurnInv'
  <2>1. turns = {t} /\ activeStep /\ (controller # "none" => t.run)
    BY TurnIsAlone
  <2>2. CASE t.run /\ ok /\ left > 0 /\ controller = "running"
    <3> DEFINE u == Turn(TRUE, Len(history) + 2)
    <3>1. turns' = (turns \ {t}) \cup {u} /\ UNCHANGED <<activeStep, controller>>
      BY <1>6, <2>2 DEF TurnEnds
    <3>2. u.run
      BY DEF Turn
    <3> HIDE DEF u
    <3>3. turns' = {u}
      BY <2>1, <3>1
    <3> QED BY <2>1, <3>1, <3>2, <3>3 DEF TurnInv, FlagsOK, OneTurnAtATime
  <2>3. CASE ~(t.run /\ ok /\ left > 0 /\ controller = "running")
    <3>1. turns' = turns \ {t} /\ activeStep' = FALSE /\ controller' = "none"
      BY <1>6, <2>3 DEF TurnEnds
    <3> QED BY <2>1, <3>1 DEF TurnInv, FlagsOK, OneTurnAtATime
  <2> QED BY <2>2, <2>3
<1>7. UNCHANGED vars => UNCHANGED <<turns, activeStep, controller>>
  BY DEF vars, session
<1> QED BY <1>1, <1>2, <1>3, <1>4, <1>5, <1>6, <1>7, CallsLeaveTurns, CommandsLeaveTurns
        DEF Next, Command, TurnGoesOn

\* However many commands a user enters before the first one is done, and behind
\* either front end, the session takes one turn at a time (session.ts:83).
THEOREM TurnsAreExclusive == Spec => []OneTurnAtATime
<1>1. TurnInv => OneTurnAtATime
  BY DEF TurnInv
<1> QED BY <1>1, InitTurns, NextTurns, SessionTypes, PTL DEF Spec

\* A step of a session that was told to stop.
LEMMA StopStep ==
  ASSUME TypeOK, TurnInv, [Next]_vars, controller = "aborted"
  PROVE  /\ \A t \in turns' : t.phase = "observe" => t \in turns
         /\ controller' = "none" => Len(history') = Len(history) + 1
<1>1. CASE UNCHANGED <<turns, activeStep, controller>>
  BY <1>1
<1>2. ~Step /\ \A n \in 1..MaxTurns : ~Run(n)
  BY DEF Step, Run, Idle
<1>3. CASE Stop
  BY <1>3 DEF Stop
<1>4. ASSUME NEW t \in turns, TurnMoves(t)
      PROVE  /\ \A u \in turns' : u.phase = "observe" => u \in turns
             /\ controller' = controller
  <2> DEFINE u == [t EXCEPT !.phase = IF t.phase = "observe" THEN "think" ELSE "act"]
  <2>1. u.phase # "observe"
    BY DEF TypeOK, Turns
  <2>2. turns' = (turns \ {t}) \cup {u} /\ controller' = controller
    BY <1>4 DEF TurnMoves, session
  <2> HIDE DEF u
  <2> QED BY <2>1, <2>2
<1>5. ASSUME NEW t \in turns, NEW ok \in BOOLEAN, TurnEnds(t, ok)
      PROVE  turns' \subseteq turns /\ Len(history') = Len(history) + 1
  <2>1. turns' = turns \ {t} /\ history' = Append(history, Entry(t))
    BY <1>5 DEF TurnEnds
  <2> QED BY <2>1, EntryType
<1>6. UNCHANGED vars => UNCHANGED <<turns, activeStep, controller>>
  BY DEF vars, session
<1> QED BY <1>1, <1>2, <1>3, <1>4, <1>5, <1>6, CallsLeaveTurns, CommandsLeaveTurns
        DEF Next, Command, TurnGoesOn

\* /stop and Ctrl-C wait for the turn in flight and let no other begin, whatever
\* happens in between (session.ts:118 and 131-140).
THEOREM StopWaitsForTheTurn == Spec => StopsAtBoundary
<1>1. TypeOK /\ TurnInv /\ [Next]_vars =>
        [controller = "aborted" =>
           /\ \A t \in turns' : t.phase = "observe" => t \in turns
           /\ controller' = "none" => Len(history') = Len(history) + 1]_vars
  BY StopStep
<1> QED BY <1>1, InitTurns, NextTurns, SessionTypes, PTL DEF Spec, StopsAtBoundary
-----------------------------------------------------------------------------
(* The text front end awaits a command before it reads the next line. *)

\* One thing happens at a time, and nothing after the end.
OneCommand ==
  /\ turns = {} \/ calls = {}
  /\ \A c, d \in calls : c = d
  /\ over => disposed /\ Quiet
  /\ disposed => over

\* Whatever reads or acts does so on the runtime of the session; a runtime that
\* is on its way there is another one, has its workspace, and after a /reset or
\* once the old workspace is being removed it is for the task of the session.
Placed(c) ==
  /\ c.stage = "reading" => c.rt = runtime
  /\ c.stage \in {"creating", "disposing"} =>
       c.rt # runtime /\ workspace[c.rt] = "live" /\ c.rt \in 1..created
  /\ c.stage = "creating" /\ c.kind # "load" => made[c.rt].task = task
  /\ c.stage = "disposing" =>
       c.old = runtime /\ workspace[runtime] # "live" /\ made[c.rt].task = task

Removing == \E c \in calls : c.stage = "disposing"

PlaceInv ==
  /\ runtime \in 1..created
  /\ \A r \in Runtimes : r > created => workspace[r] = "none"
  /\ \A t \in turns : t.rt = runtime /\ t.index = Len(history) + 1
  /\ \A c \in calls : Placed(c)
  /\ ~disposed /\ ~Removing => workspace[runtime] \in {"live", "damaged"}
  /\ \A r \in Runtimes : workspace[r] = "live" =>
       \/ r = runtime /\ ~disposed
       \/ \E c \in calls : r = c.rt

\* The history is that of the runtime, and so is the task, until a removal fails.
HistoryInv == \A i \in DOMAIN history : history[i] = [rt |-> runtime, index |-> i]
TaskInv == Removing \/ workspace[runtime] = "damaged" \/ made[runtime].task = task

Text == OneCommand /\ PlaceInv /\ HistoryInv /\ TaskInv
TextInv == front = "text" => Text

LEMMA InitText == Init => TextInv
<1> SUFFICES ASSUME Init PROVE Text
  BY DEF TextInv
<1>1. history = <<>> /\ DOMAIN history = {}
  BY DEF Init
<1> QED BY <1>1, RuntimesAreThere
        DEF Init, Text, OneCommand, Quiet, PlaceInv, Removing, HistoryInv, TaskInv, Runtimes

\* A step that changes nothing of what Text speaks of.
LEMMA TextStutter ==
  ASSUME Text,
         UNCHANGED <<turns, calls, over, disposed, created, made, workspace, runtime, history, task>>
  PROVE  Text'
BY DEF Text, OneCommand, Quiet, PlaceInv, Placed, Removing, HistoryInv, TaskInv

\* A command finds the session at rest, and alive.
LEMMA AtRest ==
  ASSUME TypeOK, Text, front = "text", Accepts
  PROVE  /\ turns = {} /\ calls = {} /\ ~over /\ ~disposed /\ ~Removing
         /\ runtime \in Runtimes /\ workspace[runtime] \in {"live", "damaged"}
         /\ \A r \in Runtimes : workspace[r] = "live" => r = runtime
         /\ workspace[runtime] = "damaged" \/ made[runtime].task = task
BY DEF TypeOK, Text, Accepts, Quiet, OneCommand, PlaceInv, Removing, TaskInv

\* A turn is on the runtime of the session, and is the next of its history.
LEMMA TurnsKeepText ==
  ASSUME TypeOK, Text, front = "text", Step \/ \E n \in 1..MaxTurns : Run(n)
  PROVE  Text'
<1>1. PICK run \in BOOLEAN : turns' = turns \cup {Turn(run, Len(history) + 1)}
  BY DEF Step, Run, StartTurn
<1>2. Accepts /\ UNCHANGED <<calls, over, disposed, created, made, workspace, runtime, history, task>>
  BY DEF Step, Run
<1>3. turns = {} /\ calls = {} /\ ~over
  BY <1>2, AtRest
<1>4. \A t \in turns' : t.rt = runtime /\ t.index = Len(history) + 1
  BY <1>1, <1>3 DEF Turn
<1> QED BY <1>2, <1>3, <1>4
        DEF Text, OneCommand, Quiet, PlaceInv, Placed, Removing, HistoryInv, TaskInv

LEMMA TurnMovesKeepsText ==
  ASSUME TypeOK, Text, NEW t \in turns, TurnMoves(t)
  PROVE  Text'
<1> DEFINE u == [t EXCEPT !.phase = IF t.phase = "observe" THEN "think" ELSE "act"]
<1>1. u.rt = t.rt /\ u.index = t.index
  BY DEF TypeOK, Turns
<1>2. /\ turns' = (turns \ {t}) \cup {u}
      /\ UNCHANGED <<calls, over, disposed, created, made, workspace, runtime, history, task>>
  BY DEF TurnMoves, session
<1> HIDE DEF u
<1>3. \A v \in turns' : v.rt = runtime /\ v.index = Len(history) + 1
  BY <1>1, <1>2 DEF Text, PlaceInv
<1>4. calls = {} /\ ~over
  BY DEF Text, OneCommand, Quiet
<1> QED BY <1>2, <1>3, <1>4
        DEF Text, OneCommand, Quiet, PlaceInv, Placed, Removing, HistoryInv, TaskInv

LEMMA TurnEndsKeepsText ==
  ASSUME TypeOK, TurnInv, Text, NEW t \in turns, NEW ok \in BOOLEAN, TurnEnds(t, ok)
  PROVE  Text'
<1>1. turns = {t} /\ calls = {} /\ ~over /\ t.rt = runtime /\ t.index = Len(history) + 1
  BY TurnIsAlone DEF Text, OneCommand, Quiet, PlaceInv
<1>2. /\ UNCHANGED <<calls, over, disposed, created, made, workspace, runtime, task>>
      /\ history' = Append(history, Entry(t))
  BY DEF TurnEnds
<1>3. /\ Len(history) \in Nat /\ DOMAIN history = 1..Len(history)
      /\ DOMAIN history' = 1..(Len(history) + 1) /\ Len(history') = Len(history) + 1
      /\ \A i \in 1..Len(history) : history'[i] = history[i]
      /\ history'[Len(history) + 1] = Entry(t)
  <2>1. history \in Seq([rt : Runtimes, index : Nat \ {0}]) /\ Entry(t) \in [rt : Runtimes, index : Nat \ {0}]
    BY DEF TypeOK, Turns, Entry
  <2> QED BY <1>2, <2>1, AppendProperties, LenProperties
<1>4. Entry(t) = [rt |-> runtime, index |-> Len(history) + 1]
  BY <1>1 DEF Entry
<1>5. HistoryInv'
  <2> SUFFICES ASSUME NEW i \in 1..(Len(history) + 1)
               PROVE  history'[i] = [rt |-> runtime, index |-> i]
    BY <1>2, <1>3 DEF HistoryInv
  <2>1. CASE i = Len(history) + 1
    BY <1>3, <1>4, <2>1
  <2>2. CASE i # Len(history) + 1
    BY <1>3, <2>2 DEF Text, HistoryInv
  <2> QED BY <2>1, <2>2
<1>6. \A u \in turns' : u.rt = runtime /\ u.index = Len(history') + 1
  <2>1. CASE t.run /\ ok /\ left > 0 /\ controller = "running"
    <3>1. turns' = {Turn(TRUE, Len(history) + 2)}
      BY <1>1, <2>1 DEF TurnEnds
    <3> QED BY <1>3, <3>1 DEF Turn
  <2>2. CASE ~(t.run /\ ok /\ left > 0 /\ controller = "running")
    <3>1. turns' = {}
      BY <1>1, <2>2 DEF TurnEnds
    <3> QED BY <3>1
  <2> QED BY <2>1, <2>2
<1>7. OneCommand' /\ TaskInv'
  BY <1>1, <1>2 DEF Text, OneCommand, Quiet, TaskInv, Removing
<1>8. PlaceInv'
  BY <1>1, <1>2, <1>6 DEF Text, PlaceInv, Placed, Removing
<1> QED BY <1>5, <1>7, <1>8 DEF Text

\* Reading and setting the goal move nothing.
LEMMA ReadingKeepsText ==
  ASSUME TypeOK, Text, front = "text", Inspect \/ List \/ \E g \in Tasks : SetGoal(g)
  PROVE  Text'
<1>1. Accepts /\ UNCHANGED <<turns, over, disposed, created, workspace, runtime, history, task>>
  BY DEF Inspect, List, SetGoal, session
<1>2. turns = {} /\ calls = {} /\ ~over
  BY <1>1, AtRest
<1>3. CASE Inspect \/ List
  <2>1. PICK kind \in {"inspect", "list"} :
           calls' = {[kind |-> kind, rt |-> runtime, old |-> runtime, stage |-> "reading"]}
    BY <1>2, <1>3 DEF Inspect, List, Call
  <2>2. made' = made
    BY <1>3 DEF Inspect, List
  <2>3. \A c \in calls' : c.stage = "reading" /\ c.rt = runtime
    BY <2>1
  <2>4. \A c, d \in calls' : c = d
    BY <2>1
  <2> HIDE DEF TypeOK
  <2>5. OneCommand' /\ HistoryInv' /\ TaskInv'
    BY <1>1, <1>2, <2>2, <2>3, <2>4 DEF Text, OneCommand, Quiet, HistoryInv, TaskInv, Removing
  <2>6. PlaceInv'
    BY <1>1, <1>2, <2>2, <2>3 DEF Text, PlaceInv, Placed, Removing
  <2> QED BY <2>5, <2>6 DEF Text
<1>4. CASE \E g \in Tasks : SetGoal(g)
  <2>1. calls' = calls /\ made'[runtime].task = made[runtime].task
    BY <1>4 DEF SetGoal, TypeOK
  <2> QED BY <1>1, <1>2, <2>1
          DEF Text, OneCommand, Quiet, PlaceInv, Placed, Removing, HistoryInv, TaskInv
<1> QED BY <1>3, <1>4

\* A runtime is created beside the one of the session.
LEMMA CreatingKeepsText ==
  ASSUME TypeOK, Text, front = "text", NEW kind \in {"reset", "load"}, NEW t \in Tasks, NEW goal \in Tasks,
         Accepts, CreateRuntime(kind, t, goal), kind = "reset" => t = task,
         UNCHANGED <<front, over, listening, task, session, turns>>
  PROVE  Text'
<1> DEFINE n == created + 1
           c == [kind |-> kind, rt |-> n, old |-> runtime, stage |-> "creating"]
<1>1. /\ turns = {} /\ calls = {} /\ ~over /\ ~disposed /\ ~Removing
      /\ runtime \in Runtimes /\ workspace[runtime] \in {"live", "damaged"}
      /\ \A r \in Runtimes : workspace[r] = "live" => r = runtime
  BY AtRest
<1>2. /\ created \in Runtimes /\ created < MaxRuntimes /\ created' = n /\ calls' = {c}
      /\ workspace' = [workspace EXCEPT ![n] = "live"]
      /\ made' = [made EXCEPT ![n] = [task |-> t, goal |-> goal]]
      /\ UNCHANGED <<turns, over, disposed, runtime, history, task>>
  BY <1>1 DEF CreateRuntime, Call, session, TypeOK
<1>3. n \in Runtimes /\ runtime \in 1..n /\ runtime # n /\ created \in Nat
  BY <1>2, RuntimesAreThere DEF Runtimes, Text, PlaceInv
<1>4. /\ c.kind = kind /\ c.rt = n /\ c.stage = "creating"
      /\ workspace[n] = "none"
  BY <1>2, <1>3 DEF Runtimes, Text, PlaceInv
<1>5. /\ \A r \in Runtimes : workspace'[r] = IF r = n THEN "live" ELSE workspace[r]
      /\ \A r \in Runtimes : r # n => made'[r] = made[r]
      /\ made'[n].task = t
  BY <1>2, <1>3 DEF TypeOK
<1> HIDE DEF c
<1>6. OneCommand' /\ HistoryInv' /\ ~Removing'
  BY <1>1, <1>2, <1>4 DEF Text, OneCommand, Quiet, HistoryInv, Removing
<1>7. TaskInv'
  BY <1>1, <1>2, <1>3, <1>4, <1>5 DEF Text, TaskInv
<1>8. \A r \in Runtimes : r > n => workspace'[r] = "none"
  BY <1>2, <1>3, <1>5 DEF Text, PlaceInv, Runtimes
<1>9. \A d \in calls' : Placed(d)'
  BY <1>2, <1>3, <1>4, <1>5 DEF Placed
<1>10. PlaceInv'
  BY <1>1, <1>2, <1>3, <1>4, <1>5, <1>8, <1>9 DEF PlaceInv
<1> QED BY <1>6, <1>7, <1>10 DEF Text

LEMMA CommandsKeepText ==
  ASSUME TypeOK, TurnInv, Text, front = "text",
         Reset \/ Quit \/ \E t \in Tasks : Load(t)
  PROVE  Text'
<1>1. CASE Reset
  <2>1. task \in Tasks /\ made[runtime].goal \in Tasks
    BY DEF TypeOK
  <2> QED BY <1>1, <2>1, CreatingKeepsText DEF Reset
<1>2. ASSUME NEW t \in Tasks, Load(t) PROVE Text'
  BY <1>2, CreatingKeepsText DEF Load
<1>3. CASE Quit
  <2>1. /\ turns = {} /\ calls = {} /\ runtime \in Runtimes
        /\ \A r \in Runtimes : workspace[r] = "live" => r = runtime
    BY <1>3, AtRest DEF Quit
  <2>2. Idle
    BY <2>1 DEF Idle, TurnInv, OneTurnAtATime
  <2>3. /\ over' = TRUE /\ disposed' = TRUE
        /\ \E dir \in {"gone", "damaged"} :
             workspace' = [workspace EXCEPT ![runtime] = IF @ = "live" THEN dir ELSE @]
        /\ UNCHANGED <<turns, calls, created, made, runtime, history, task>>
    BY <1>3, <2>2 DEF Quit
  <2>4. \A r \in Runtimes : /\ workspace'[r] # "live"
                            /\ workspace[r] # "live" => workspace'[r] = workspace[r]
    BY <2>1, <2>3 DEF TypeOK
  <2>5. OneCommand' /\ HistoryInv'
    BY <2>1, <2>3 DEF Text, OneCommand, Quiet, HistoryInv
  <2>6. TaskInv'
    BY <2>1, <2>3, <2>4 DEF Text, TaskInv, Removing
  <2>7. PlaceInv'
    BY <2>1, <2>3, <2>4 DEF Text, PlaceInv
  <2> QED BY <2>5, <2>6, <2>7 DEF Text
<1> QED BY <1>1, <1>2, <1>3

\* What is in flight is alone.
LEMMA CallIsAlone ==
  ASSUME TypeOK, TurnInv, Text, NEW c \in calls
  PROVE  /\ calls = {c} /\ turns = {} /\ ~over /\ ~disposed /\ Idle
         /\ c.rt \in Runtimes /\ runtime \in Runtimes /\ Placed(c)
<1>1. calls = {c} /\ turns = {} /\ ~over /\ ~disposed
  BY DEF Text, OneCommand, Quiet
<1>2. Idle
  BY <1>1 DEF Idle, TurnInv, OneTurnAtATime
<1> QED BY <1>1, <1>2 DEF TypeOK, Calls, Text, PlaceInv

\* A command that ends without another runtime.
LEMMA CallEndsKeepsText ==
  ASSUME TypeOK, TurnInv, Text, NEW c \in calls,
         ReadEnds(c) \/ CreationFails(c) \/ Refused(c) \/ DisposalFails(c)
  PROVE  Text'
<1>1. /\ calls = {c} /\ turns = {} /\ ~over /\ ~disposed /\ Idle
      /\ c.rt \in Runtimes /\ runtime \in Runtimes /\ Placed(c)
  BY CallIsAlone
<1>2. ~Refused(c)
  BY <1>1 DEF Refused
<1>3. calls' = {} /\ UNCHANGED <<turns, over, disposed, created, made, runtime, history, task>>
  BY <1>1, <1>2 DEF ReadEnds, CreationFails, DisposalFails, session
<1>4. OneCommand' /\ HistoryInv' /\ ~Removing'
  BY <1>1, <1>3 DEF Text, OneCommand, Quiet, HistoryInv, Removing
<1>5. CASE ReadEnds(c)
  <2>1. workspace' = workspace /\ c.stage = "reading" /\ ~Removing /\ c.rt = runtime
    BY <1>1, <1>5 DEF ReadEnds, Removing, Placed
  <2>2. PlaceInv' /\ TaskInv'
    BY <1>1, <1>3, <1>4, <2>1 DEF Text, PlaceInv, TaskInv
  <2> QED BY <1>4, <2>2 DEF Text
<1>6. CASE CreationFails(c)
  <2>0. PICK dir \in {"gone", "damaged"} : workspace' = [workspace EXCEPT ![c.rt] = dir]
    BY <1>6 DEF CreationFails
  <2>1. /\ workspace' = [workspace EXCEPT ![c.rt] = dir] /\ ~Removing
        /\ c.rt # runtime /\ workspace[c.rt] = "live" /\ c.rt \in 1..created
    BY <1>1, <1>6, <2>0 DEF CreationFails, Removing, Placed
  <2>2. \A r \in Runtimes : workspace'[r] = IF r = c.rt THEN dir ELSE workspace[r]
    BY <1>1, <2>1 DEF TypeOK
  <2>3. TaskInv'
    BY <1>1, <1>3, <2>1, <2>2 DEF Text, TaskInv
  <2>4. PlaceInv'
    BY <1>1, <1>3, <1>4, <2>1, <2>2 DEF Text, PlaceInv
  <2> QED BY <1>4, <2>3, <2>4 DEF Text
<1>7. CASE DisposalFails(c)
  <2>0. PICK dir \in {"gone", "damaged"} :
           workspace' = [workspace EXCEPT ![runtime] = "damaged", ![c.rt] = dir]
    BY <1>1, <1>7 DEF DisposalFails, Placed
  <2>1. /\ workspace' = [workspace EXCEPT ![runtime] = "damaged", ![c.rt] = dir]
        /\ c.rt # runtime /\ workspace[c.rt] = "live" /\ c.rt \in 1..created
    BY <1>1, <1>7, <2>0 DEF DisposalFails, Placed
  <2>2. \A r \in Runtimes :
          workspace'[r] = IF r = c.rt THEN dir ELSE IF r = runtime THEN "damaged" ELSE workspace[r]
    BY <1>1, <2>1 DEF TypeOK
  <2>3. TaskInv'
    BY <1>1, <1>3, <2>1, <2>2 DEF TaskInv
  <2>4. runtime \in 1..created /\ created \in Nat /\ \A r \in Runtimes : r \in Nat
    BY DEF TypeOK, Text, PlaceInv, Runtimes
  <2>5. \A r \in Runtimes : r > created => workspace'[r] = "none"
    <3>1. \A r \in Runtimes : r > created => r # runtime /\ r # c.rt
      BY <2>1, <2>4
    <3> QED BY <2>2, <3>1 DEF Text, PlaceInv
  <2>6. \A r \in Runtimes : workspace'[r] # "live"
    BY <1>1, <2>2 DEF Text, PlaceInv
  <2>7. PlaceInv'
    BY <1>1, <1>3, <1>4, <2>1, <2>2, <2>4, <2>5, <2>6 DEF PlaceInv
  <2> QED BY <1>4, <2>3, <2>7 DEF Text
<1> QED BY <1>2, <1>5, <1>6, <1>7

\* The session changes over to another runtime.
LEMMA SwapKeepsText ==
  ASSUME TypeOK, TurnInv, Text, NEW c \in calls, c.stage \in {"creating", "disposing"},
         Swap(c.rt), calls' = calls \ {c}, task' = made[c.rt].task, workspace[runtime] # "live",
         UNCHANGED <<turns, over, disposed, created, made, workspace>>
  PROVE  Text'
<1>1. /\ calls = {c} /\ turns = {} /\ ~over /\ ~disposed
      /\ c.rt \in Runtimes /\ runtime \in Runtimes /\ Placed(c)
  BY CallIsAlone
<1>2. calls' = {} /\ runtime' = c.rt /\ history' = <<>> /\ DOMAIN history' = {}
  BY <1>1 DEF Swap
<1>3. workspace[c.rt] = "live" /\ c.rt \in 1..created
  BY <1>1 DEF Placed
<1>4. OneCommand' /\ HistoryInv' /\ ~Removing' /\ TaskInv'
  BY <1>1, <1>2 DEF Text, OneCommand, Quiet, HistoryInv, Removing, TaskInv
<1>5. PlaceInv'
  BY <1>1, <1>2, <1>3, <1>4 DEF Text, PlaceInv
<1> QED BY <1>4, <1>5 DEF Text

LEMMA ReplacingKeepsText ==
  ASSUME TypeOK, TurnInv, Text, NEW c \in calls, Replace(c) \/ DisposalEnds(c)
  PROVE  Text'
<1>1. /\ calls = {c} /\ turns = {} /\ ~over /\ ~disposed
      /\ c.rt \in Runtimes /\ runtime \in Runtimes /\ Placed(c) /\ c \in Calls
  BY CallIsAlone DEF TypeOK
<1>2. CASE Replace(c)
  <2>1. /\ c.stage = "creating" /\ c.rt # runtime /\ workspace[c.rt] = "live" /\ c.rt \in 1..created
        /\ UNCHANGED <<turns, over, disposed, created, made>>
    BY <1>1, <1>2 DEF Replace, Placed
  <2>2. task' = made[c.rt].task
    BY <1>1, <1>2, <2>1 DEF Replace, Placed, PlaceInv, Text
  <2>3. CASE workspace[runtime] = "live"
    <3> DEFINE d == [c EXCEPT !.stage = "disposing", !.old = runtime]
    <3>1. /\ workspace' = [workspace EXCEPT ![runtime] = "gone"]
          /\ calls' = {d} /\ UNCHANGED <<runtime, history>>
      BY <1>1, <1>2, <2>3 DEF Replace
    <3>2. d.rt = c.rt /\ d.stage = "disposing" /\ d.old = runtime
      BY <1>1 DEF Calls
    <3> HIDE DEF d
    <3>3. \A r \in Runtimes : workspace'[r] = IF r = runtime THEN "gone" ELSE workspace[r]
      BY <1>1, <3>1 DEF TypeOK
    <3>4. OneCommand' /\ HistoryInv' /\ Removing' /\ TaskInv'
      BY <1>1, <2>1, <3>1, <3>2 DEF Text, OneCommand, Quiet, HistoryInv, Removing, TaskInv
    <3>5. \A e \in calls' : Placed(e)'
      BY <1>1, <2>1, <2>2, <3>1, <3>2, <3>3 DEF Placed
    <3>6. runtime \in 1..created /\ created \in Nat /\ \A r \in Runtimes : r \in Nat
      BY DEF TypeOK, Text, PlaceInv, Runtimes
    <3>7. \A r \in Runtimes : r > created => workspace'[r] = "none"
      <4>1. \A r \in Runtimes : r > created => r # runtime
        BY <3>6
      <4> QED BY <3>3, <4>1 DEF Text, PlaceInv
    <3>8. \A r \in Runtimes : workspace'[r] = "live" => r = d.rt
      BY <1>1, <3>2, <3>3 DEF Text, PlaceInv
    <3>9. PlaceInv'
      BY <1>1, <2>1, <3>1, <3>4, <3>5, <3>6, <3>7, <3>8 DEF PlaceInv
    <3> QED BY <3>4, <3>9 DEF Text
  <2>4. CASE workspace[runtime] # "live"
    BY <1>2, <2>1, <2>2, <2>4, SwapKeepsText DEF Replace
  <2> QED BY <2>3, <2>4
<1>3. CASE DisposalEnds(c)
  <2>1. c.stage = "disposing" /\ made[c.rt].task = task
    BY <1>1, <1>3 DEF DisposalEnds, Placed
  <2>2. workspace[runtime] # "live"
    BY <1>1, <2>1 DEF Text, PlaceInv, Placed
  <2> QED BY <1>3, <2>1, <2>2, SwapKeepsText DEF DisposalEnds
<1> QED BY <1>2, <1>3

LEMMA NextText == TypeOK /\ TurnInv /\ TextInv /\ [Next]_vars => TextInv'
<1> SUFFICES ASSUME TypeOK, TurnInv, Text, front = "text", [Next]_vars PROVE Text'
  <2>1. [Next]_vars => front' = front
    BY DEF Next, Command, TurnGoesOn, vars, Step, Run, Stop, SetGoal, Inspect, List, Reset, Load,
           Quit, TurnMoves, TurnEnds, ReadEnds, CreationFails, Refused, Replace, DisposalEnds,
           DisposalFails
  <2> QED BY <2>1 DEF TextInv
<1>1. CASE Stop \/ UNCHANGED vars
  BY <1>1, TextStutter DEF Stop, vars, session
<1> QED BY <1>1, TurnsKeepText, TurnMovesKeepsText, TurnEndsKeepsText, ReadingKeepsText,
           CommandsKeepText, CallEndsKeepsText, ReplacingKeepsText
        DEF Next, Command, TurnGoesOn

\* Nobody reads or acts in a workspace that the text front end has begun to
\* remove, and whatever fails, one that was made whole stays the session's, or on
\* its way to it, until its removal begins: the only directories it can leave are
\* those that could not be made or removed (session.ts:201-227, repl.ts:139-173).
THEOREM NoWorkspaceIsPulled == Spec => []WorkspacesAreKept
<1>1. ASSUME TypeOK, TurnInv, Text PROVE \A r \in InUse : workspace[r] # "gone"
  <2>1. ASSUME NEW t \in turns PROVE t.rt = runtime /\ workspace[runtime] # "gone"
    <3>1. calls = {} /\ ~over /\ ~disposed
      BY <1>1 DEF Text, OneCommand, Quiet
    <3> QED BY <1>1, <3>1 DEF Text, PlaceInv, Removing
  <2>2. ASSUME NEW c \in calls, c.stage = "reading"
        PROVE  c.rt = runtime /\ workspace[runtime] # "gone"
    <3>1. calls = {c} /\ ~disposed /\ Placed(c)
      BY <1>1, CallIsAlone
    <3> QED BY <1>1, <2>2, <3>1 DEF Text, PlaceInv, Placed, Removing
  <2> QED BY <2>1, <2>2 DEF InUse
<1>2. TypeOK /\ TurnInv /\ TextInv => WorkspacesAreKept
  BY <1>1 DEF TextInv, WorkspacesAreKept, Text, PlaceInv
<1> QED BY <1>2, InitTurns, NextTurns, InitText, NextText, SessionTypes, PTL DEF Spec

\* The turns and the task the text front end shows are those of the workspace it
\* shows (replaceRuntime, createReplRuntime).
THEOREM WhatIsShownIsThere == Spec => []SessionIsCoherent
<1>1. TextInv => SessionIsCoherent
  BY DEF TextInv, SessionIsCoherent, Text, HistoryInv, TaskInv, Removing, Quiet
<1> QED BY <1>1, InitTurns, NextTurns, InitText, NextText, SessionTypes, PTL DEF Spec
=============================================================================
