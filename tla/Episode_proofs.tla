--------------------------- MODULE Episode_proofs ---------------------------
(***************************************************************************)
(* Two things about an episode, for any tasks, policies, plugins and turn  *)
(* budget: a repair that is reported as passed is one (RepairIsReal), and  *)
(* no turn calls a tier twice or the external one without a reason of its  *)
(* own, told by the genome's policies themselves (ModelUseIsEarned).  With *)
(* them, its types and budgets.                                            *)
(***************************************************************************)
EXTENDS Episode, SequenceTheorems, WellFoundedInduction, TLAPS

\* The turns of an episode, up to its judgement.
Working == {"observe", "think", "local", "external", "act", "turn", "judge"}
Early   == {"begin", "baseline"} \cup Working

------------------------------------------------------------------------------
\* One workspace while there is one to dispose of.  An error is only caught
\* once; one that leaves the episode ends it.
EndInv ==
  /\ pc \in Early \cup {"catch", "dispose", "report", "complete", "checksums", "over"}
  /\ workspaces \in {0, 1}
  /\ pc # "over" =>
       /\ ~broken
       /\ workspaces = 1 <=> pc \notin {"begin", "report", "complete", "checksums"}
  /\ pc \in Early \cup {"catch"} => ~error /\ ~lost
  /\ pc \in {"report", "complete", "checksums"} => ~lost
  /\ pc \in Early \cup {"catch", "dispose", "report"} => status = "none"
  /\ pc \in {"complete", "checksums"} => Repair /\ status # "none"
  /\ status # "none" => (status = "error" <=> error)
  /\ pc = "over" =>
       /\ workspaces = 1 => broken
       /\ broken => lost /\ status = "none"
       /\ ~lost => status # "none"

\* The log of a repair up to its turn n.
Told(n) ==
  /\ Len(log) >= n + 2
  /\ log[1] = "REPAIR_STARTED" /\ log[2] = "REPAIR_BASELINE"
  /\ \A i \in 3..(n + 2) : log[i] = "REPAIR_TURN"
ToldAll == log \in {Story, Append(Story, "REPAIR_COMPLETED")}

LogInv ==
  /\ log \in Seq(Events) /\ turns \in Nat
  /\ pc = "baseline" => Repair
  /\ Repair =>
       /\ pc = "begin" => log = <<>> /\ turns = 0
       /\ pc = "baseline" => log = <<"REPAIR_STARTED">> /\ turns = 0
       /\ pc \in Working => Told(turns) /\ Len(log) = turns + 2
       /\ pc \in {"dispose", "report"} /\ ~error =>
            /\ Told(turns) /\ Len(log) = turns + 3
            /\ log[turns + 3] = "REPAIR_ACCEPTANCE"
       /\ pc = "complete" /\ status = "passed" => log = Story
       /\ pc = "checksums" \/ (pc = "over" /\ ~lost) => Last(log) = "REPAIR_COMPLETED"
       /\ status = "passed" => ToldAll

\* What the report will be judged by.  The files that are reported are those the
\* verdict is about until an error is caught.
FailedAtFirst == \E t \in setup.task.acceptanceTests : ~Passes(Original, t)
Mended ==
  \A t \in setup.task.acceptanceTests, p \in Paths :
    p \in Needs[t] => reported[p] = "new"
OnlyEditable ==
  \A p \in Paths : reported[p] # "old" => p \in setup.task.editableFiles

SourceInv ==
  Repair =>
    /\ pc \notin {"begin", "over"} => AssertRepairTask(setup.task)
    /\ pc \in Early => candidate = "none"
    /\ baseline = "failed" => FailedAtFirst
    /\ candidate = "passed" /\ ~error => Mended
    /\ OnlyEditable
    /\ status = "passed" => FailedAtFirst /\ Mended

EpisodeInv == EndInv /\ LogInv /\ SourceInv

------------------------------------------------------------------------------
\* What a verdict says of the files it is about.
LEMMA VerdictSays ==
  ASSUME NEW fs, NEW tests, NEW r \in Evaluate(fs, tests)
  PROVE  LET judged == [p \in Paths |-> IF p \in tests THEN "old" ELSE fs[p]]
         IN  /\ r = "failed" => \E t \in tests : ~Passes(judged, t)
             /\ r = "passed" => \A t \in tests : Passes(judged, t)
  BY DEF Evaluate

\* A first verdict that fails is one about the original.
LEMMA BaselineSays ==
  ASSUME NEW r \in Evaluate(Original, AcceptanceTests), r = "failed"
  PROVE  FailedAtFirst
<1>1. [p \in Paths |-> IF p \in AcceptanceTests THEN "old" ELSE Original[p]] = Original
  BY DEF Original
<1> QED BY <1>1, VerdictSays DEF FailedAtFirst, AcceptanceTests

\* Tests are put back before they are run, so a private test passes only if every
\* file it needs has been mended.
LEMMA AcceptanceSays ==
  ASSUME AssertRepairTask(setup.task), NEW fs,
         NEW r \in Evaluate(fs, AcceptanceTests), r = "passed"
  PROVE  \A t \in setup.task.acceptanceTests, p \in Paths :
           p \in Needs[t] => fs[p] = "new"
<1> DEFINE judged == [p \in Paths |-> IF p \in AcceptanceTests THEN "old" ELSE fs[p]]
<1>1. AcceptanceTests \subseteq Paths
  BY EpisodeAssumption DEF AssertRepairTask, AcceptanceTests
<1>2. \A t \in AcceptanceTests : Passes(judged, t)
  BY VerdictSays
<1>3. \A t \in AcceptanceTests : judged[t] = "old"
  BY <1>1
<1>4. \A t \in AcceptanceTests, p \in Paths : p \in Needs[t] => judged[p] = "new"
  BY <1>2, <1>3 DEF Passes
<1>5. \A p \in Paths : judged[p] = "new" => fs[p] = "new"
  OBVIOUS
<1> QED BY <1>4, <1>5 DEF AcceptanceTests

LEMMA CollectedIsEditable ==
  \A p \in Paths : CollectSource[p] # "old" => p \in setup.task.editableFiles
  BY DEF CollectSource

LEMMA EpisodeInit == Init => EpisodeInv
<1> SUFFICES ASSUME Init PROVE EpisodeInv
  OBVIOUS
<1>1. EndInv
  BY DEF Init, EndInv, Early, Working
<1>2. LogInv
  BY DEF Init, LogInv, Working
<1>3. SourceInv
  BY DEF Init, SourceInv, OnlyEditable, Original
<1> QED BY <1>1, <1>2, <1>3 DEF EpisodeInv

------------------------------------------------------------------------------
Kept == <<setup, turns, reportVars, log, workspaces>>

\* The steps of a turn keep what the report is made of.
LEMMA QuietKeeps ==
  ASSUME EpisodeInv, UNCHANGED Kept,
         \/ pc' = pc
         \/ pc \in Working /\ pc' \in Working \cup {"catch"}
  PROVE  EpisodeInv'
<1> USE DEF EpisodeInv, Kept, reportVars
<1>1. EndInv'
  BY DEF EndInv, Early, Working, Repair
<1>2. LogInv'
  BY DEF LogInv, Repair, Told, ToldAll, Story, Working, EndInv, Early
<1>3. SourceInv'
  BY DEF SourceInv, Repair, FailedAtFirst, Mended, OnlyEditable, Early, Working,
         EndInv
<1> QED BY <1>1, <1>2, <1>3

LEMMA TurnIsQuiet ==
  ASSUME RunTurn
  PROVE  /\ UNCHANGED Kept
         /\ pc \in Working /\ pc' \in Working \cup {"catch"}
<1> USE DEF Kept, Working
<1>1. CASE Observe
  BY <1>1 DEF Observe
<1>2. CASE Think
  BY <1>2 DEF Think, Call
<1>3. ASSUME NEW a \in Reply, LocalAnswers(a)
      PROVE  UNCHANGED Kept /\ pc \in Working /\ pc' \in Working \cup {"catch"}
  BY <1>3 DEF LocalAnswers, Call
<1>4. ASSUME NEW a \in Reply, LocalFails(a)
      PROVE  UNCHANGED Kept /\ pc \in Working /\ pc' \in Working \cup {"catch"}
  BY <1>4 DEF LocalFails, Call
<1>5. ASSUME NEW a \in Reply, ExternalResponds(a)
      PROVE  UNCHANGED Kept /\ pc \in Working /\ pc' \in Working \cup {"catch"}
  BY <1>5 DEF ExternalResponds
<1>6. CASE ActInVisit
  BY <1>6 DEF ActInVisit
<1>7. CASE ActInRepair
  BY <1>7 DEF ActInRepair
<1> QED BY <1>1, <1>2, <1>3, <1>4, <1>5, <1>6, <1>7 DEF RunTurn

\* The end of an episode before it began, and its two beginnings.
LEMMA BeginKeeps ==
  ASSUME EpisodeInv, Refuse \/ BeginRepair \/ BeginVisit
  PROVE  EpisodeInv'
<1> USE DEF EpisodeInv, reportVars, Repair, Visit
<1>1. CASE Refuse
  <2>1. EndInv' BY <1>1 DEF Refuse, EndInv, Early, Working
  <2>2. LogInv' BY <1>1 DEF Refuse, LogInv, EndInv, Early, Working
  <2>3. SourceInv'
    BY <1>1 DEF Refuse, SourceInv, EndInv, Early, Working, FailedAtFirst, Mended,
                OnlyEditable
  <2> QED BY <2>1, <2>2, <2>3
<1>2. CASE BeginRepair
  <2>0. /\ pc = "begin" /\ pc' \in {"baseline", "catch", "over"} /\ Repair
        /\ AssertRepairTask(setup.task)
        /\ pc' = "over" => lost'
        /\ log' \in {log, <<"REPAIR_STARTED">>}
        /\ pc' # "over" => log' = <<"REPAIR_STARTED">>
        /\ UNCHANGED <<setup, turns, baseline, candidate, reported, error, status>>
    BY <1>2 DEF BeginRepair
  <2>1. EndInv' BY <1>2 DEF BeginRepair, CreationFails, EndInv, Early, Working
  <2>2. log = <<>> /\ turns = 0 /\ status = "none"
    BY <2>0 DEF LogInv, EndInv
  <2>3. log' \in Seq(Events)
    <3>1. <<"REPAIR_STARTED">> \in Seq(Events)
      BY DEF Events
    <3>2. log \in Seq(Events)
      BY DEF LogInv
    <3> QED BY <2>0, <3>1, <3>2
  <2>4. LogInv'
    BY <2>0, <2>2, <2>3 DEF LogInv, Working
  <2>5. SourceInv'
    BY <2>0, <2>1 DEF SourceInv, EndInv, Early, Working, FailedAtFirst,
                      Mended, OnlyEditable
  <2> QED BY <2>1, <2>4, <2>5
<1>3. CASE BeginVisit
  <2>1. EndInv' BY <1>3 DEF BeginVisit, CreationFails, EndInv, Early, Working
  <2>2. LogInv' BY <1>3 DEF BeginVisit, LogInv, Working
  <2>3. SourceInv' BY <1>3 DEF BeginVisit, SourceInv
  <2> QED BY <2>1, <2>2, <2>3
<1> QED BY <1>1, <1>2, <1>3

\* The verdict on the original, whose failure is what the experiment starts from.
LEMMA BaselineKeeps ==
  ASSUME EpisodeInv, RunBaseline PROVE EpisodeInv'
<1> USE DEF EpisodeInv, Repair
<1>0. Repair
  BY DEF RunBaseline, LogInv
<1>1. /\ pc = "baseline" /\ pc' \in {"observe", "catch"}
      /\ UNCHANGED <<setup, turns, candidate, reported, error, lost, broken, status, workspaces>>
  BY DEF RunBaseline, Record
<1>2. EndInv'
  BY <1>1 DEF EndInv, Early, Working, Repair
<1>3. \/ pc' = "catch" /\ log' = log
      \/ log' = Append(log, "REPAIR_BASELINE")
  BY <1>1 DEF RunBaseline, Record
<1>4. log' \in Seq(Events)
  BY <1>3, AppendProperties DEF LogInv, Events
<1>5. ASSUME pc' = "observe" PROVE Told(turns)' /\ Len(log') = turns' + 2
  <2>1. turns' = 0 /\ log = <<"REPAIR_STARTED">> BY <1>1 DEF LogInv
  <2>2. /\ Len(log') = 2
        /\ log'[1] = "REPAIR_STARTED" /\ log'[2] = "REPAIR_BASELINE"
    BY <1>3, <1>5, <2>1
  <2>3. 3..(turns' + 2) = {} BY <2>1
  <2> QED BY <2>1, <2>2, <2>3 DEF Told
<1>6. LogInv'
  <2>1. status' = "none" /\ turns' \in Nat
    BY <1>1 DEF LogInv, EndInv
  <2> QED BY <1>0, <1>1, <1>4, <1>5, <2>1 DEF LogInv, Working
<1>7. baseline' = "failed" => FailedAtFirst
  BY <1>0, <1>1, BaselineSays DEF RunBaseline, SourceInv
<1>8. SourceInv'
  BY <1>0, <1>1, <1>7 DEF SourceInv, EndInv, Early, Working, FailedAtFirst, Mended,
                          OnlyEditable
<1> QED BY <1>2, <1>6, <1>8

\* A turn of a repair is told, and keeps what it collected, in one step.
LEMMA EndTurnKeeps ==
  ASSUME EpisodeInv, EndTurn PROVE EpisodeInv'
<1> USE DEF EpisodeInv
<1>1. /\ pc = "turn" /\ turns' = turns + 1
      /\ pc' \in {"observe", "judge", "catch"}
      /\ UNCHANGED <<setup, baseline, candidate, error, lost, broken, status, workspaces>>
  BY DEF EndTurn, Record, Visit
<1>2. EndInv'
  BY <1>1 DEF EndInv, Early, Working, Repair
<1>3. \/ (pc' = "catch" \/ ~Repair) /\ log' = log
      \/ log' = Append(log, "REPAIR_TURN")
  BY DEF EndTurn, Record, Repair, Visit
<1>9. log' \in Seq(Events)
  BY <1>3, AppendProperties DEF LogInv, Events
<1>4. Repair /\ pc' # "catch" => Told(turns)' /\ Len(log') = turns' + 2
  BY <1>1, <1>3 DEF LogInv, Told, Working
<1>5. LogInv'
  BY <1>1, <1>9, <1>4 DEF LogInv, EndInv, Working, Early, Repair
<1>6. Repair => reported' \in {reported, CollectSource}
  BY DEF EndTurn, Repair, Visit
<1>7. Repair => OnlyEditable'
  BY <1>1, <1>6, CollectedIsEditable DEF SourceInv, OnlyEditable
<1>8. SourceInv'
  BY <1>1, <1>7 DEF SourceInv, EndInv, Early, Working, FailedAtFirst, Repair
<1> QED BY <1>2, <1>5, <1>8

\* The verdict of a visit is no business of the log.
LEMMA JudgeVisitKeeps ==
  ASSUME EpisodeInv, JudgeVisit PROVE EpisodeInv'
<1> USE DEF EpisodeInv, Repair, Visit
<1>1. /\ pc = "judge" /\ pc' \in {"dispose", "catch"} /\ ~Repair
      /\ UNCHANGED <<setup, turns, error, lost, broken, status, log, workspaces>>
  BY DEF JudgeVisit
<1>2. EndInv' BY <1>1 DEF EndInv, Early, Working
<1>3. LogInv' BY <1>1 DEF LogInv
<1>4. SourceInv' BY <1>1 DEF SourceInv
<1> QED BY <1>2, <1>3, <1>4

\* The verdict of a repair is about the files that are reported from then on.
LEMMA JudgeRepairKeeps ==
  ASSUME EpisodeInv, JudgeRepair PROVE EpisodeInv'
<1> USE DEF EpisodeInv
<1>1. /\ pc = "judge" /\ pc' \in {"dispose", "catch"} /\ Repair
      /\ UNCHANGED <<setup, turns, baseline, error, lost, broken, status, workspaces>>
  BY DEF JudgeRepair, Record
<1>2. EndInv' BY <1>1 DEF EndInv, Early, Working, Repair
<1>3. \/ pc' = "catch" /\ log' = log
      \/ log' = Append(log, "REPAIR_ACCEPTANCE")
  BY DEF JudgeRepair, Record
<1>4. log \in Seq(Events) /\ turns \in Nat /\ Told(turns) /\ Len(log) = turns + 2
  BY <1>1 DEF LogInv, Working
<1>5. log' \in Seq(Events)
  BY <1>3, <1>4, AppendProperties DEF Events
<1>6. pc' = "dispose" => /\ Told(turns)' /\ Len(log') = turns' + 3
                         /\ log'[turns' + 3] = "REPAIR_ACCEPTANCE"
  BY <1>1, <1>3, <1>4 DEF Told
<1>7. LogInv'
  BY <1>1, <1>4, <1>5, <1>6 DEF LogInv, EndInv, Repair, Working
<1>8. candidate = "none" /\ AssertRepairTask(setup.task) /\ OnlyEditable
  BY <1>1 DEF SourceInv, Early, Working
<1>9. reported' \in {reported, CollectSource}
  BY DEF JudgeRepair
<1>10. OnlyEditable'
  BY <1>1, <1>8, <1>9, CollectedIsEditable DEF OnlyEditable
<1>11. \/ candidate' = candidate
       \/ candidate' \in Evaluate(reported', AcceptanceTests)
  BY DEF JudgeRepair
<1>12. candidate' = "passed" => Mended'
  <2>1. SUFFICES ASSUME candidate' = "passed" PROVE Mended'
    OBVIOUS
  <2>2. candidate' \in Evaluate(reported', AcceptanceTests)
    BY <1>8, <1>11, <2>1
  <2>3. \A t \in setup.task.acceptanceTests, p \in Paths :
          p \in Needs[t] => reported'[p] = "new"
    BY <1>8, <2>1, <2>2, AcceptanceSays
  <2> QED BY <1>1, <2>3 DEF Mended
<1>13. SourceInv'
  BY <1>1, <1>8, <1>10, <1>12 DEF SourceInv, EndInv, Early, Working, Repair,
                                  FailedAtFirst
<1> QED BY <1>2, <1>7, <1>13

\* From here on the files that are reported are no longer judged.
LEMMA CatchKeeps ==
  ASSUME EpisodeInv, Catch PROVE EpisodeInv'
<1> USE DEF EpisodeInv
<1>1. /\ pc = "catch" /\ pc' = "dispose" /\ error'
      /\ UNCHANGED <<setup, turns, baseline, candidate, broken, status, workspaces>>
  BY DEF Catch
<1>2. EndInv' BY <1>1 DEF EndInv, Early, Working
<1>3. log' = log \/ log' = Append(log, "REPAIR_ERROR")
  BY DEF Catch
<1>4. log' \in Seq(Events)
  BY <1>3, AppendProperties DEF LogInv, Events
<1>5. LogInv'
  BY <1>1, <1>4 DEF LogInv, EndInv, Repair, Working
<1>6. Repair => reported' \in {reported, CollectSource}
  BY DEF Catch, Repair, Visit
<1>7. Repair => OnlyEditable'
  BY <1>1, <1>6, CollectedIsEditable DEF SourceInv, OnlyEditable
<1>8. SourceInv'
  BY <1>1, <1>7 DEF SourceInv, EndInv, Early, Working, FailedAtFirst, Repair
<1> QED BY <1>2, <1>5, <1>8

LEMMA DisposeKeeps ==
  ASSUME EpisodeInv, Dispose PROVE EpisodeInv'
<1> USE DEF EpisodeInv, reportVars
<1>1. /\ pc = "dispose" /\ pc' \in {"over", "report"}
      /\ pc' = "over" => lost'
      /\ pc' = "report" => ~lost'
      /\ UNCHANGED <<setup, turns, baseline, candidate, reported, error, status, log>>
  BY DEF Dispose
<1>2. EndInv'
  BY <1>1 DEF Dispose, EndInv, Early, Working
<1>3. LogInv' BY <1>1 DEF LogInv, EndInv, Repair, Told, Working, Early
<1>4. SourceInv'
  BY <1>1 DEF SourceInv, EndInv, Early, Working, FailedAtFirst, Mended,
              OnlyEditable, Repair
<1> QED BY <1>2, <1>3, <1>4

LEMMA Joined ==
  ASSUME NEW a \in Seq(Events), NEW b \in Seq(Events)
  PROVE  /\ a \o b \in Seq(Events) /\ Len(a \o b) = Len(a) + Len(b)
         /\ \A i \in 1..Len(a) : (a \o b)[i] = a[i]
         /\ \A i \in 1..Len(b) : (a \o b)[Len(a) + i] = b[i]
<1>1. \A i \in 1..(Len(a) + Len(b)) :
        (a \o b)[i] = IF i <= Len(a) THEN a[i] ELSE b[i - Len(a)]
  BY ConcatProperties
<1>2. a \o b \in Seq(Events) /\ Len(a \o b) = Len(a) + Len(b)
  BY ConcatProperties
<1>3. Len(a) \in Nat /\ Len(b) \in Nat
  OBVIOUS
<1>4. ASSUME NEW i \in 1..Len(b) PROVE (a \o b)[Len(a) + i] = b[i]
  <2>1. /\ Len(a) + i \in 1..(Len(a) + Len(b)) /\ ~(Len(a) + i <= Len(a))
        /\ (Len(a) + i) - Len(a) = i
    BY <1>3
  <2> QED BY <1>1, <2>1
<1>5. \A i \in 1..Len(a) : i \in 1..(Len(a) + Len(b)) /\ i <= Len(a)
  BY <1>3
<1> QED BY <1>1, <1>2, <1>4, <1>5

\* What is told event by event is told as a whole.
LEMMA ToldIsAll ==
  ASSUME NEW n \in Nat, NEW s \in Seq(Events), Len(s) = n + 3,
         s[1] = "REPAIR_STARTED", s[2] = "REPAIR_BASELINE",
         \A i \in 3..(n + 2) : s[i] = "REPAIR_TURN",
         s[n + 3] = "REPAIR_ACCEPTANCE"
  PROVE  s = <<"REPAIR_STARTED", "REPAIR_BASELINE">>
             \o [i \in 1..n |-> "REPAIR_TURN"]
             \o <<"REPAIR_ACCEPTANCE">>
<1> DEFINE head == <<"REPAIR_STARTED", "REPAIR_BASELINE">>
           body == [i \in 1..n |-> "REPAIR_TURN"]
           tail == <<"REPAIR_ACCEPTANCE">>
           both == head \o body
           all  == both \o tail
<1>1. /\ head \in Seq(Events) /\ Len(head) = 2
      /\ \A i \in 1..2 : s[i] = head[i]
  BY DEF Events
<1>2. /\ tail \in Seq(Events) /\ Len(tail) = 1
      /\ s[(2 + n) + 1] = tail[1]
  <2>1. tail \in Seq(Events) /\ Len(tail) = 1
    BY DEF Events
  <2>2. tail[1] = "REPAIR_ACCEPTANCE"
    OBVIOUS
  <2> HIDE DEF tail
  <2> QED BY <2>1, <2>2
<1>3. /\ body \in Seq(Events) /\ Len(body) = n
      /\ \A i \in 1..n : s[2 + i] = body[i]
  BY DEF Events
<1> HIDE DEF head, body, tail
<1>4. /\ both \in Seq(Events) /\ Len(both) = 2 + n
      /\ \A i \in 1..2 : both[i] = head[i]
      /\ \A i \in 1..n : both[2 + i] = body[i]
  <2>1. /\ both \in Seq(Events) /\ Len(both) = Len(head) + Len(body)
        /\ \A i \in 1..Len(head) : both[i] = head[i]
        /\ \A i \in 1..Len(body) : both[Len(head) + i] = body[i]
    BY <1>1, <1>3, Joined
  <2> HIDE DEF both
  <2> QED BY <1>1, <1>3, <2>1
<1> HIDE DEF both
<1>5. /\ all \in Seq(Events) /\ Len(all) = (2 + n) + 1
      /\ \A i \in 1..(2 + n) : all[i] = both[i]
      /\ all[(2 + n) + 1] = tail[1]
  <2>1. /\ all \in Seq(Events) /\ Len(all) = Len(both) + Len(tail)
        /\ \A i \in 1..Len(both) : all[i] = both[i]
        /\ \A i \in 1..Len(tail) : all[Len(both) + i] = tail[i]
    BY <1>2, <1>4, Joined
  <2> HIDE DEF all
  <2> QED BY <1>2, <1>4, <2>1
<1> HIDE DEF all
<1>6. \A i \in 1..Len(s) : s[i] = all[i]
  <2> SUFFICES ASSUME NEW i \in 1..(n + 3) PROVE s[i] = all[i]
    OBVIOUS
  <2>1. CASE i \in 1..2 BY <2>1, <1>1, <1>4, <1>5
  <2>2. CASE i \in 3..(n + 2)
    <3>1. i - 2 \in 1..n /\ i \in 1..(2 + n) BY <2>2
    <3>2. PICK j \in 1..n : i = 2 + j BY <3>1
    <3>3. s[2 + j] = body[j] /\ both[2 + j] = body[j] BY <1>3, <1>4
    <3> QED BY <3>1, <3>2, <3>3, <1>5
  <2>3. CASE i = n + 3 BY <2>3, <1>2, <1>5
  <2> QED BY <2>1, <2>2, <2>3
<1>7. Len(s) = Len(all) /\ s \in Seq(Events)
  BY <1>5
<1>8. s = all
  BY <1>5, <1>6, <1>7, SeqEqual
<1> QED BY <1>8 DEF all, both, head, body, tail

\* The report of a repair is written over a log that tells all up to its verdict.
LEMMA ReportKeeps ==
  ASSUME EpisodeInv, Report PROVE EpisodeInv'
<1> USE DEF EpisodeInv
<1>1. /\ pc = "report" /\ pc' \in {"complete", "over"} /\ ~lost
      /\ UNCHANGED <<setup, turns, baseline, candidate, reported, error, broken,
                     log, workspaces>>
  BY DEF Report, EndInv
<1>2. \/ /\ UNCHANGED lost
         /\ status' # "none" /\ (status' = "error" <=> error)
         /\ pc' = "complete" <=> Repair
         /\ Repair /\ status' = "passed" => Checks
      \/ Repair /\ lost' /\ status' = status /\ pc' = "over"
  BY DEF Report, Repair, Visit
<1>3. status = "none"
  BY <1>1 DEF EndInv
<1>4. EndInv'
  BY <1>1, <1>2, <1>3 DEF EndInv, Early, Working, Repair
<1>5. log \in Seq(Events) /\ turns \in Nat
  BY DEF LogInv
<1>6. ASSUME Repair, status' = "passed" PROVE log' = Story'
  <2>1. ~error
    BY <1>2, <1>3, <1>6 DEF Checks
  <2>2. /\ Told(turns) /\ Len(log) = turns + 3
        /\ log[turns + 3] = "REPAIR_ACCEPTANCE"
    BY <1>1, <1>6, <2>1 DEF LogInv
  <2>3. /\ log[1] = "REPAIR_STARTED" /\ log[2] = "REPAIR_BASELINE"
        /\ \A i \in 3..(turns + 2) : log[i] = "REPAIR_TURN"
    BY <2>2 DEF Told
  <2>4. log = Story
    BY <1>5, <2>2, <2>3, ToldIsAll DEF Story
  <2> QED BY <1>1, <2>4 DEF Story
<1>7. ~Repair => ~Repair'
  BY <1>1 DEF Repair
<1>8. LogInv'
  BY <1>1, <1>2, <1>5, <1>6, <1>7 DEF LogInv, Repair, Working, ToldAll
<1>9. Repair /\ status' = "passed" => FailedAtFirst /\ Mended
  BY <1>1, <1>2, <1>3 DEF Checks, SourceInv
<1>10. SourceInv'
  BY <1>1, <1>9 DEF SourceInv, Early, Working, FailedAtFirst, Mended,
                    OnlyEditable, Repair
<1> QED BY <1>4, <1>8, <1>10

\* What is left to do once the report is written: its event and the checksums.
LEMMA FinishKeeps ==
  ASSUME EpisodeInv, Complete \/ Checksums PROVE EpisodeInv'
<1> USE DEF EpisodeInv
<1>1. /\ UNCHANGED <<setup, turns, baseline, candidate, reported, error, broken,
                     status, workspaces>>
      /\ pc \in {"complete", "checksums"} /\ pc' \in {"checksums", "over"}
      /\ pc' = "checksums" => pc = "complete" /\ ~lost'
  BY DEF Complete, Checksums, EndInv
<1>2. Repair /\ Repair' /\ Story' = Story
  BY <1>1 DEF EndInv, Repair, Story
<1>3. \/ log' = log
      \/ pc = "complete" /\ log' = Append(log, "REPAIR_COMPLETED")
  BY DEF Complete, Checksums
<1>4. EndInv'
  BY <1>1, <1>2 DEF EndInv, Early, Working
<1>5. log \in Seq(Events) /\ log' \in Seq(Events) /\ turns \in Nat
  BY <1>3, AppendProperties DEF LogInv, Events
<1>6. ASSUME pc' = "checksums" \/ ~lost' PROVE Last(log') = "REPAIR_COMPLETED"
  <2>1. CASE Complete
    <3>1. log' = Append(log, "REPAIR_COMPLETED")
      BY <2>1, <1>6 DEF Complete
    <3> QED BY <3>1, <1>5, AppendProperties DEF Last, Events
  <2>2. CASE Checksums
    BY <2>2, <1>2 DEF Checksums, LogInv
  <2> QED BY <2>1, <2>2
<1>7. ASSUME status' = "passed" PROVE ToldAll'
  <2>1. ToldAll /\ (pc = "complete" => log = Story)
    BY <1>1, <1>2, <1>7 DEF LogInv
  <2>2. log' \in {Story, Append(Story, "REPAIR_COMPLETED")}
    BY <1>3, <2>1 DEF ToldAll
  <2> QED BY <1>2, <2>2 DEF ToldAll
<1>8. LogInv'
  BY <1>1, <1>2, <1>5, <1>6, <1>7 DEF LogInv, Working
<1>9. SourceInv'
  BY <1>1, <1>2 DEF SourceInv, Early, Working, FailedAtFirst, Mended, OnlyEditable
<1> QED BY <1>4, <1>8, <1>9

LEMMA EpisodeNext == EpisodeInv /\ [Next]_vars => EpisodeInv'
<1> SUFFICES ASSUME EpisodeInv, [Next]_vars PROVE EpisodeInv'
  OBVIOUS
<1>1. CASE RunTurn
  BY <1>1, TurnIsQuiet, QuietKeeps
<1>2. CASE RunBaseline
  BY <1>2, BaselineKeeps
<1>3. CASE UNCHANGED vars
  <2>1. UNCHANGED Kept /\ pc' = pc
    BY <1>3 DEF vars, Kept, reportVars
  <2> QED BY <2>1, QuietKeeps
<1> QED BY <1>1, <1>2, <1>3, BeginKeeps, EndTurnKeeps, JudgeVisitKeeps,
           JudgeRepairKeeps, CatchKeeps, DisposeKeeps, ReportKeeps, FinishKeeps DEF Next

\* A repair whose report says that it passed is one, even if the experiment broke
\* off after the report: the log tells all up to the verdict, a private test
\* fails on the original and passes on the files reported, which differ from it
\* where they may.  A report names every failure, an episode that returns has
\* one, and a workspace survives only if it could not be made or removed.
THEOREM PassedRepairsAreReal == Spec => []RepairIsReal
<1>1. EpisodeInv => RepairIsReal
  BY DEF EpisodeInv, EndInv, LogInv, SourceInv, RepairIsReal, ToldAll,
         FailedAtFirst, Mended, OnlyEditable
<1> QED BY <1>1, EpisodeInit, EpisodeNext, PTL DEF Spec

------------------------------------------------------------------------------
\* The runtime wants the external tier; or the local one has just asked for it.
Wanted == HasExternal /\ (PolicyConfig.escalateToExternal \/ FailedOften(fails))
Asked  ==
  /\ HasExternal /\ called = <<"local", "external">>
  /\ answer.type = "escalate" /\ heard[Len(heard)] = "ok"

\* A turn is begun with no call of its own; the local tier is called by a turn
\* that found no reason to call the other.
Uncalled == {"begin", "baseline", "observe", "think", "judge"}
CallInv ==
  /\ turns \in Nat /\ calls \in [local : Nat, external : Nat]
  /\ called \in {<<>>, <<"local">>, <<"external">>, <<"local", "external">>}
  /\ calls.local <= turns + 1 /\ calls.external <= turns + 1
  /\ pc \in Uncalled => calls.local <= turns /\ calls.external <= turns
  /\ pc = "think" => called = <<>>
  /\ pc = "local" =>
       called = <<"local">> /\ calls.external <= turns /\ ~ShouldUseExternal
  /\ pc = "external" => Repair \/ Wanted \/ Asked
  /\ Repair =>
       /\ called \in {<<>>, <<"external">>} /\ calls.local = 0
       /\ calls.external \in {turns, turns + 1}
       /\ pc \in {"external", "act", "turn"} => calls.external = turns + 1

\* The counter of the runtime: as many calls of the local tier as it says, and no
\* more, have failed since the last that did not.
HeardInv ==
  /\ heard \in Seq({"ok", "failed"})
  /\ fails \in Nat /\ fails <= Len(heard)
  /\ \A i \in DOMAIN heard : i > Len(heard) - fails => heard[i] = "failed"
  /\ fails < Len(heard) => heard[Len(heard) - fails] = "ok"

\* The policy of an episode is that of its setup.
LEMMA PolicyStays == UNCHANGED setup => PolicyConfig' = PolicyConfig
  BY DEF PolicyConfig, Naming, Decider

LEMMA CallInit == Init => CallInv /\ HeardInv
  BY DEF Init, CallInv, Uncalled, Repair, HeardInv

\* Steps that call no model, within a turn or outside of it.
LEMMA UncalledKeeps ==
  ASSUME CallInv, UNCHANGED <<setup, turns, modelVars>>,
         \/ pc' = pc
         \/ pc' \in {"catch", "dispose", "report", "complete", "checksums", "over"}
         \/ pc \in Uncalled /\ pc' \in Uncalled \ {"think"}
         \/ pc = "act" /\ pc' = "turn"
  PROVE  CallInv'
<1>1. UNCHANGED <<setup, turns, calls, fails, called, heard, answer>>
      /\ PolicyConfig' = PolicyConfig
  BY PolicyStays DEF modelVars
<1>2. /\ Wanted' = Wanted /\ Asked' = Asked
      /\ ShouldUseExternal' = ShouldUseExternal
  BY <1>1 DEF Wanted, Asked, ShouldUseExternal, HasExternal, FailedOften, Repair
<1> QED BY <1>1, <1>2 DEF CallInv, Uncalled, Repair

LEMMA ObserveCalls ==
  ASSUME CallInv, Observe PROVE CallInv'
<1>1. /\ pc = "observe" /\ pc' \in {"think", "catch"} /\ called' = <<>>
      /\ UNCHANGED <<setup, turns, calls>>
  BY DEF Observe
<1> QED BY <1>1 DEF CallInv, Uncalled, Repair

LEMMA EndTurnCalls ==
  ASSUME CallInv, EndTurn PROVE CallInv'
<1>1. /\ pc = "turn" /\ pc' \in {"observe", "judge", "catch"} /\ turns' = turns + 1
      /\ UNCHANGED <<setup, calls, called>>
  BY DEF EndTurn, Record, Visit, modelVars
<1>2. /\ turns \in Nat /\ calls \in [local : Nat, external : Nat]
      /\ calls.local \in Nat /\ calls.external \in Nat
      /\ calls.local <= turns + 1 /\ calls.external <= turns + 1
  BY DEF CallInv
<1>3. Repair => calls.local = 0 /\ calls.external = turns + 1
  BY <1>1 DEF CallInv
<1> QED BY <1>1, <1>2, <1>3 DEF CallInv, Repair

\* What a call does to the counts.
LEMMA CallCounts ==
  ASSUME calls \in [local : Nat, external : Nat], NEW tier \in Tiers, Call(tier)
  PROVE  /\ pc' = tier /\ called' = Append(called, tier)
         /\ calls' \in [local : Nat, external : Nat]
         /\ calls'.local = IF tier = "local" THEN calls.local + 1 ELSE calls.local
         /\ calls'.external =
              IF tier = "external" THEN calls.external + 1 ELSE calls.external
  BY DEF Call, Tiers

LEMMA ThinkCalls ==
  ASSUME CallInv, Think PROVE CallInv'
<1>1. /\ pc = "think" /\ UNCHANGED <<setup, turns, fails, heard, answer>>
      /\ PolicyConfig' = PolicyConfig
  BY PolicyStays DEF Think
<1>2. /\ turns \in Nat /\ calls \in [local : Nat, external : Nat]
      /\ calls.local \in Nat /\ calls.external \in Nat
      /\ calls.local <= turns /\ calls.external <= turns /\ called = <<>>
      /\ Repair => calls.local = 0 /\ calls.external = turns
  BY <1>1 DEF CallInv, Uncalled
<1>3. /\ Wanted' = Wanted /\ ShouldUseExternal' = ShouldUseExternal
      /\ Repair' = Repair
  BY <1>1 DEF Wanted, ShouldUseExternal, HasExternal, FailedOften, Repair
<1>4. CASE ShouldUseExternal
  <2>1. Call("external") BY <1>4 DEF Think
  <2>2. Repair \/ Wanted BY <1>4 DEF ShouldUseExternal, Wanted
  <2>3. /\ pc' = "external" /\ called' = <<"external">>
        /\ calls' \in [local : Nat, external : Nat]
        /\ calls'.local = calls.local /\ calls'.external = calls.external + 1
    BY <1>2, <2>1, CallCounts DEF Tiers
  <2> QED BY <1>1, <1>2, <1>3, <2>2, <2>3 DEF CallInv, Uncalled
<1>5. CASE ~ShouldUseExternal
  <2>1. Call("local") BY <1>5 DEF Think
  <2>2. ~Repair BY <1>5 DEF ShouldUseExternal
  <2>3. /\ pc' = "local" /\ called' = <<"local">>
        /\ calls' \in [local : Nat, external : Nat]
        /\ calls'.local = calls.local + 1 /\ calls'.external = calls.external
    BY <1>2, <2>1, CallCounts DEF Tiers
  <2> QED BY <1>1, <1>2, <1>3, <1>5, <2>2, <2>3 DEF CallInv, Uncalled
<1> QED BY <1>4, <1>5

\* The local tier answers or fails, and the request is repeated if the answer
\* asks for it or the failures are enough.
LEMMA LocalCalls ==
  ASSUME CallInv, HeardInv, NEW a \in Reply, LocalAnswers(a) \/ LocalFails(a)
  PROVE  CallInv'
<1>1. /\ pc = "local" /\ UNCHANGED <<setup, turns>> /\ PolicyConfig' = PolicyConfig
      /\ answer' = a
  BY PolicyStays DEF LocalAnswers, LocalFails
<1>2. /\ turns \in Nat /\ calls \in [local : Nat, external : Nat]
      /\ calls.local \in Nat /\ calls.external \in Nat
      /\ calls.local <= turns + 1 /\ calls.external <= turns
      /\ called = <<"local">> /\ ~Repair
  BY <1>1 DEF CallInv, ShouldUseExternal
<1>3. ~Repair'
  BY <1>1, <1>2 DEF Repair
<1>4. CASE Call("external")
  <2>1. /\ pc' = "external" /\ called' = <<"local", "external">>
        /\ calls' \in [local : Nat, external : Nat]
        /\ calls'.local = calls.local /\ calls'.external = calls.external + 1
    BY <1>2, <1>4, CallCounts DEF Tiers
  <2>2. Wanted' \/ Asked'
    <3>1. CASE LocalAnswers(a)
      <4>1. a.type = "escalate" /\ HasExternal
        BY <1>4, <3>1 DEF LocalAnswers, Call
      <4>2. heard' = Append(heard, "ok")
        BY <3>1 DEF LocalAnswers
      <4>3. heard'[Len(heard')] = "ok"
        BY <4>2, AppendProperties DEF HeardInv
      <4> QED BY <1>1, <2>1, <4>1, <4>3 DEF Asked, HasExternal
    <3>2. CASE LocalFails(a)
      <4>1. HasExternal /\ FailedOften(fails')
        BY <1>4, <3>2 DEF LocalFails, Call
      <4> QED BY <1>1, <4>1 DEF Wanted, HasExternal, FailedOften
    <3> QED BY <3>1, <3>2
  <2> QED BY <1>1, <1>2, <1>3, <2>1, <2>2 DEF CallInv, Uncalled
<1>5. CASE ~Call("external")
  <2>1. pc' \in {"act", "catch"} /\ UNCHANGED <<calls, called>>
    BY <1>5 DEF LocalAnswers, LocalFails
  <2> QED BY <1>1, <1>2, <1>3, <2>1 DEF CallInv, Uncalled
<1> QED BY <1>4, <1>5

LEMMA ResponseCalls ==
  ASSUME CallInv, NEW a \in Reply, ExternalResponds(a) PROVE CallInv'
<1>1. /\ pc = "external" /\ pc' \in {"act", "catch"}
      /\ UNCHANGED <<setup, turns, calls, called>>
  BY DEF ExternalResponds
<1> QED BY <1>1 DEF CallInv, Uncalled, Repair

LEMMA CallNext == CallInv /\ HeardInv /\ [Next]_vars => CallInv'
<1> SUFFICES ASSUME CallInv, HeardInv, [Next]_vars PROVE CallInv'
  OBVIOUS
<1> DEFINE Idle ==
      /\ UNCHANGED <<setup, turns, modelVars>>
      /\ \/ pc' = pc
         \/ pc' \in {"catch", "dispose", "report", "complete", "checksums", "over"}
         \/ pc \in Uncalled /\ pc' \in Uncalled \ {"think"}
         \/ pc = "act" /\ pc' = "turn"
<1>1. CASE RunTurn
  <2>1. CASE ActInVisit \/ ActInRepair
    <3>1. Idle BY <2>1 DEF ActInVisit, ActInRepair
    <3> QED BY <3>1, UncalledKeeps
  <2> QED BY <1>1, <2>1, ObserveCalls, ThinkCalls, LocalCalls, ResponseCalls DEF RunTurn
<1>2. CASE Refuse \/ BeginRepair \/ BeginVisit
  <2>1. Idle BY <1>2 DEF Refuse, BeginRepair, BeginVisit, Uncalled
  <2> QED BY <2>1, UncalledKeeps
<1>3. CASE RunBaseline
  <2>1. Idle BY <1>3 DEF RunBaseline, Record, Uncalled
  <2> QED BY <2>1, UncalledKeeps
<1>4. CASE JudgeVisit \/ JudgeRepair
  <2>1. Idle BY <1>4 DEF JudgeVisit, JudgeRepair, Record
  <2> QED BY <2>1, UncalledKeeps
<1>5. CASE Catch \/ Dispose \/ Report \/ Complete \/ Checksums
  <2>1. Idle BY <1>5 DEF Catch, Dispose, Report, Complete, Checksums
  <2> QED BY <2>1, UncalledKeeps
<1>6. CASE UNCHANGED vars
  <2>1. Idle BY <1>6 DEF vars
  <2> QED BY <2>1, UncalledKeeps
<1> QED BY <1>1, <1>2, <1>3, <1>4, <1>5, <1>6, EndTurnCalls DEF Next

\* The local tier is heard, and the counter moves, in one step.
LEMMA HeardSays ==
  ASSUME HeardInv, NEW e \in {"ok", "failed"}, heard' = Append(heard, e),
         fails' = IF e = "ok" THEN 0 ELSE fails + 1
  PROVE  HeardInv'
<1>1. /\ heard' \in Seq({"ok", "failed"}) /\ Len(heard') = Len(heard) + 1
      /\ heard'[Len(heard) + 1] = e /\ Len(heard) \in Nat
      /\ \A i \in 1..Len(heard) : heard'[i] = heard[i]
      /\ DOMAIN heard = 1..Len(heard) /\ DOMAIN heard' = 1..Len(heard')
  BY AppendProperties DEF HeardInv
<1>2. CASE e = "ok"
  BY <1>1, <1>2 DEF HeardInv
<1>3. CASE e = "failed"
  <2>1. fails' = fails + 1 /\ fails \in Nat /\ fails <= Len(heard)
    BY <1>3 DEF HeardInv
  <2>2. ASSUME NEW i \in DOMAIN heard', i > Len(heard') - fails'
        PROVE  heard'[i] = "failed"
    <3>1. CASE i = Len(heard) + 1 BY <1>1, <1>3, <3>1
    <3>2. CASE i # Len(heard) + 1
      <4>1. i \in 1..Len(heard) /\ i > Len(heard) - fails
        BY <1>1, <2>1, <2>2, <3>2
      <4>2. heard[i] = "failed" BY <1>1, <4>1 DEF HeardInv
      <4> QED BY <1>1, <4>1, <4>2
    <3> QED BY <3>1, <3>2
  <2>3. ASSUME fails' < Len(heard') PROVE heard'[Len(heard') - fails'] = "ok"
    <3>1. fails < Len(heard) /\ Len(heard') - fails' = Len(heard) - fails
      BY <1>1, <2>1, <2>3
    <3>2. Len(heard) - fails \in 1..Len(heard)
      BY <1>1, <2>1, <3>1
    <3>3. heard[Len(heard) - fails] = "ok"
      BY <3>1 DEF HeardInv
    <3> QED BY <1>1, <3>1, <3>2, <3>3
  <2>4. fails' \in Nat /\ fails' <= Len(heard')
    BY <1>1, <2>1
  <2> QED BY <1>1, <2>2, <2>3, <2>4 DEF HeardInv
<1> QED BY <1>2, <1>3

LEMMA HeardNext == HeardInv /\ [Next]_vars => HeardInv'
<1> SUFFICES ASSUME HeardInv, [Next]_vars PROVE HeardInv'
  OBVIOUS
<1>1. ASSUME NEW a \in Reply, LocalAnswers(a) PROVE HeardInv'
  BY <1>1, HeardSays DEF LocalAnswers
<1>2. ASSUME NEW a \in Reply, LocalFails(a) PROVE HeardInv'
  BY <1>2, HeardSays DEF LocalFails
<1>3. ASSUME UNCHANGED <<heard, fails>> PROVE HeardInv'
  BY <1>3 DEF HeardInv
<1>4. ASSUME NEW a \in Reply, ExternalResponds(a) PROVE HeardInv'
  BY <1>3, <1>4 DEF ExternalResponds
<1>5. CASE Observe \/ Think \/ ActInVisit \/ ActInRepair
  BY <1>3, <1>5 DEF Observe, Think, ActInVisit, ActInRepair, modelVars
<1>6. CASE Refuse \/ BeginRepair \/ BeginVisit \/ RunBaseline \/ EndTurn
  BY <1>3, <1>6 DEF Refuse, BeginRepair, BeginVisit, RunBaseline, EndTurn, modelVars
<1>7. CASE JudgeVisit \/ JudgeRepair \/ Catch \/ Dispose
  BY <1>3, <1>7 DEF JudgeVisit, JudgeRepair, Catch, Dispose, modelVars
<1>8. CASE Report \/ Complete \/ Checksums \/ UNCHANGED vars
  BY <1>3, <1>8 DEF Report, Complete, Checksums, modelVars, vars
<1> QED BY <1>1, <1>2, <1>4, <1>5, <1>6, <1>7, <1>8 DEF Next, RunTurn

------------------------------------------------------------------------------
\* Some place in a list is the last with a given quality.
LEMMA LastOfSome ==
  ASSUME NEW n \in Nat, NEW S \in SUBSET (1..n), S # {}
  PROVE  \E i \in S : \A j \in S : j <= i
<1> DEFINE Rest == {n - i : i \in S}
<1>1. Rest \subseteq Nat /\ Rest # {}
  <2>1. \A i \in S : i \in 1..n /\ n - i \in Nat
    OBVIOUS
  <2>2. PICK i \in S : TRUE
    OBVIOUS
  <2>3. n - i \in Rest
    BY <2>2
  <2> QED BY <2>1, <2>3
<1>2. PICK m \in Rest : \A r \in Rest : m <= r
  <2> DEFINE Less == OpToRel(<, Nat)
  <2>1. \A m, r \in Nat : <<r, m>> \notin Less => m <= r
    BY DEF OpToRel
  <2>2. IsWellFoundedOn(Less, Nat)
    BY NatLessThanWellFounded, Zenon
  <2> HIDE DEF Less, Rest
  <2>3. \E m \in Rest : \A r \in Rest : ~ (<<r, m>> \in Less)
    BY <1>1, <2>2, WFMin, Zenon
  <2> QED BY <1>1, <2>1, <2>3
<1>3. PICK i \in S : m = n - i
  OBVIOUS
<1>4. ASSUME NEW j \in S PROVE j <= i
  <2>1. n - j \in Rest
    OBVIOUS
  <2>2. n - i <= n - j
    BY <1>2, <1>3, <2>1
  <2>3. i \in Int /\ j \in Int
    OBVIOUS
  <2> HIDE DEF Rest
  <2>4. \A x, y \in Int : n - x <= n - y => y <= x
    OBVIOUS
  <2> QED BY <2>2, <2>3, <2>4, Zenon
<1> QED BY <1>4

\* What the runtime makes of the policies is what the last of them says that
\* names the rule.
LEMMA DeciderDecides ==
  ASSUME setup \in Setups, NEW key, Naming(key) # {}
  PROVE  /\ Decider(key) \in DOMAIN setup.policies
         /\ key \in DOMAIN setup.policies[Decider(key)]
         /\ setup.policies[Decider(key)] \in LastWord(key)
<1> DEFINE P == setup.policies
<1>1. Len(P) \in Nat /\ DOMAIN P = 1..Len(P)
  BY PoliciesAssumption
<1>2. Naming(key) \in SUBSET (1..Len(P))
  BY <1>1 DEF Naming
<1>3. \E i \in Naming(key) : \A j \in Naming(key) : j <= i
  BY <1>1, <1>2, LastOfSome
<1>4. Decider(key) \in Naming(key) /\ \A j \in Naming(key) : j <= Decider(key)
  BY <1>3, Zenon DEF Decider
<1>5. Decider(key) \in DOMAIN P /\ key \in DOMAIN P[Decider(key)]
  BY <1>4 DEF Naming
<1>6. ASSUME NEW k \in DOMAIN P, k > Decider(key) PROVE key \notin DOMAIN P[k]
  <2>1. SUFFICES ASSUME key \in DOMAIN P[k] PROVE FALSE
    OBVIOUS
  <2>2. k <= Decider(key)
    BY <1>4, <2>1 DEF Naming
  <2> QED BY <1>1, <1>5, <1>6, <2>2
<1> QED BY <1>5, <1>6 DEF LastWord

LEMMA RuleSays ==
  ASSUME setup \in Setups
  PROVE  /\ PolicyConfig.escalateToExternal =>
              \E p \in LastWord("escalateToExternal") : p.escalateToExternal
         /\ PolicyConfig.externalAfterFailures > 0 =>
              \E p \in LastWord("externalAfterFailures") :
                /\ p.externalAfterFailures = PolicyConfig.externalAfterFailures
                /\ p.externalAfterFailures \in Nat \ {0}
<1> DEFINE P == setup.policies
           e == "escalateToExternal"
           f == "externalAfterFailures"
<1>1. ASSUME PolicyConfig.escalateToExternal
      PROVE  \E p \in LastWord(e) : p.escalateToExternal
  <2>1. Naming(e) # {} /\ P[Decider(e)].escalateToExternal
    BY <1>1 DEF PolicyConfig
  <2>2. P[Decider(e)] \in LastWord(e)
    BY <2>1, DeciderDecides
  <2> QED BY <2>1, <2>2
<1>2. ASSUME PolicyConfig.externalAfterFailures > 0
      PROVE  \E p \in LastWord(f) :
               /\ p.externalAfterFailures = PolicyConfig.externalAfterFailures
               /\ p.externalAfterFailures \in Nat \ {0}
  <2>1. Naming(f) # {}
    BY <1>2 DEF PolicyConfig
  <2>2. /\ Decider(f) \in DOMAIN P /\ f \in DOMAIN P[Decider(f)]
        /\ P[Decider(f)] \in LastWord(f)
    BY <2>1, DeciderDecides
  <2>3. P[Decider(f)].externalAfterFailures \in Int
    BY <2>2, PoliciesAssumption
  <2>4. /\ P[Decider(f)].externalAfterFailures > 0
        /\ PolicyConfig.externalAfterFailures = P[Decider(f)].externalAfterFailures
    BY <1>2, <2>1, <2>3 DEF PolicyConfig
  <2> QED BY <2>2, <2>3, <2>4
<1> QED BY <1>1, <1>2

\* ... and nothing else is: there is one last word.
LEMMA OneLastWord ==
  ASSUME setup \in Setups, NEW key, NEW p \in LastWord(key)
  PROVE  Naming(key) # {} /\ p = setup.policies[Decider(key)] /\ key \in DOMAIN p
<1> DEFINE P == setup.policies
<1>1. Len(P) \in Nat /\ DOMAIN P = 1..Len(P)
  BY PoliciesAssumption
<1>2. PICK j \in DOMAIN P : /\ p = P[j] /\ key \in DOMAIN P[j]
                            /\ \A k \in DOMAIN P : k > j => key \notin DOMAIN P[k]
  BY DEF LastWord
<1>3. j \in Naming(key)
  BY <1>2 DEF Naming
<1>4. Naming(key) \in SUBSET (1..Len(P))
  BY <1>1 DEF Naming
<1>5. \E i \in Naming(key) : \A k \in Naming(key) : k <= i
  BY <1>1, <1>3, <1>4, LastOfSome
<1>6. Decider(key) \in Naming(key) /\ \A k \in Naming(key) : k <= Decider(key)
  BY <1>5, Zenon DEF Decider
<1>7. j <= Decider(key)
  BY <1>3, <1>6
<1>8. ~(Decider(key) > j)
  BY <1>2, <1>6 DEF Naming
<1>9. Decider(key) = j
  BY <1>1, <1>2, <1>4, <1>6, <1>7, <1>8
<1> QED BY <1>2, <1>3, <1>9

\* The runtime wants the external tier exactly when it is due by the policies.
LEMMA WantedIsDue ==
  ASSUME setup \in Setups, HeardInv PROVE Wanted <=> Due
<1> DEFINE P == setup.policies
           e == "escalateToExternal"
           f == "externalAfterFailures"
<1>1. PolicyConfig.escalateToExternal <=> \E p \in LastWord(e) : p.escalateToExternal
  <2>1. ASSUME NEW p \in LastWord(e), p.escalateToExternal
        PROVE  PolicyConfig.escalateToExternal
    BY <2>1, OneLastWord DEF PolicyConfig
  <2> QED BY <2>1, RuleSays
<1>2. ASSUME NEW n \in Nat \ {0} PROVE FailedLast(n) <=> fails >= n
  <2>1. /\ heard \in Seq({"ok", "failed"}) /\ DOMAIN heard = 1..Len(heard)
        /\ Len(heard) \in Nat /\ fails \in Nat /\ fails <= Len(heard)
    BY DEF HeardInv
  <2>2. ASSUME fails >= n PROVE FailedLast(n)
    BY <2>1, <2>2 DEF FailedLast, HeardInv
  <2>3. ASSUME FailedLast(n) PROVE fails >= n
    <3>1. SUFFICES ASSUME fails < n PROVE FALSE
      BY <2>1
    <3>2. n <= Len(heard) /\ fails < Len(heard)
      BY <2>1, <2>3, <3>1 DEF FailedLast
    <3>3. heard[Len(heard) - fails] = "ok"
      BY <3>2 DEF HeardInv
    <3>4. /\ Len(heard) - fails \in DOMAIN heard
          /\ Len(heard) - fails > Len(heard) - n
      BY <2>1, <3>1, <3>2
    <3>5. heard[Len(heard) - fails] = "failed"
      BY <2>3, <3>4 DEF FailedLast
    <3> QED BY <3>3, <3>5
  <2> QED BY <2>2, <2>3
<1>3. FailedOften(fails) <=>
        \E p \in LastWord(f) : FailedLast(p.externalAfterFailures)
  <2>1. ASSUME FailedOften(fails)
        PROVE  \E p \in LastWord(f) : FailedLast(p.externalAfterFailures)
    <3>1. PICK p \in LastWord(f) :
            /\ p.externalAfterFailures = PolicyConfig.externalAfterFailures
            /\ p.externalAfterFailures \in Nat \ {0}
      BY <2>1, RuleSays DEF FailedOften
    <3>2. FailedLast(p.externalAfterFailures)
      BY <1>2, <2>1, <3>1 DEF FailedOften
    <3> QED BY <3>2
  <2>2. ASSUME NEW p \in LastWord(f), FailedLast(p.externalAfterFailures)
        PROVE  FailedOften(fails)
    <3>1. Naming(f) # {} /\ p = P[Decider(f)] /\ f \in DOMAIN p
      BY OneLastWord
    <3>2. Decider(f) \in DOMAIN P
      BY <3>1, DeciderDecides
    <3>3. p.externalAfterFailures \in Int
      BY <3>1, <3>2, PoliciesAssumption
    <3>4. p.externalAfterFailures \in 1..Len(heard)
      BY <2>2 DEF FailedLast
    <3>5. p.externalAfterFailures \in Nat \ {0} /\ p.externalAfterFailures > 0
      BY <3>3, <3>4 DEF HeardInv
    <3>6. PolicyConfig.externalAfterFailures = p.externalAfterFailures
      BY <3>1, <3>5 DEF PolicyConfig
    <3> QED BY <1>2, <2>2, <3>5, <3>6 DEF FailedOften
  <2> QED BY <2>1, <2>2
<1> QED BY <1>1, <1>3, Zenon DEF Wanted, Due, HasExternal

------------------------------------------------------------------------------
\* The types of an episode, and its budgets: a turn begins only if one is left,
\* and a failure that is counted is that of a local call.
Begun == {"begin", "baseline", "observe", "think", "local", "external", "act", "turn"}

TypeInv ==
  /\ setup \in Setups
  /\ files \in [Paths -> {"old", "new"}] /\ reported \in [Paths -> {"old", "new"}]
  /\ answer \in Answers
  /\ outcome \in {"none", "ok", "failed", "passed", "threw"}
  /\ baseline \in Verdicts /\ candidate \in Verdicts
  /\ error \in BOOLEAN /\ lost \in BOOLEAN /\ broken \in BOOLEAN
  /\ status \in {"none", "passed", "failed", "error"}

BudgetInv ==
  /\ turns \in 0..MaxTurns /\ (pc \in Begun => turns < MaxTurns)
  /\ calls.local <= MaxTurns /\ calls.external <= MaxTurns
  /\ fails \in Nat /\ fails <= calls.local
  /\ pc = "local" => fails < calls.local

Inv == EpisodeInv /\ CallInv /\ HeardInv /\ TypeInv /\ BudgetInv

LEMMA CollectType ==
  ASSUME TypeInv PROVE CollectSource \in [Paths -> {"old", "new"}]
  BY DEF TypeInv, CollectSource

LEMMA VerdictTypes ==
  ASSUME NEW fs, NEW tests, NEW r \in Evaluate(fs, tests)
  PROVE  r \in Verdicts \cup {"threw"}
  BY DEF Evaluate, Verdicts

LEMMA TypesInit == Init => TypeInv /\ BudgetInv
<1> SUFFICES ASSUME Init PROVE TypeInv /\ BudgetInv
  OBVIOUS
<1>1. NoAnswer \in Answers
  BY DEF NoAnswer, Answers
<1>2. TypeInv
  BY <1>1 DEF Init, TypeInv, Original, Verdicts
<1>3. BudgetInv
  BY EpisodeAssumption DEF Init, BudgetInv
<1> QED BY <1>2, <1>3

\* Steps that change no more than the report.
LEMMA TypesOutside ==
  ASSUME TypeInv,
         \/ Refuse \/ BeginRepair \/ BeginVisit \/ RunBaseline \/ EndTurn
         \/ JudgeVisit \/ JudgeRepair \/ Catch \/ Dispose \/ Report
         \/ Complete \/ Checksums
         \/ UNCHANGED vars
  PROVE  TypeInv'
<1> USE DEF TypeInv, toolVars, modelVars, reportVars
<1>1. CASE Refuse BY <1>1 DEF Refuse
<1>2. CASE BeginRepair BY <1>2 DEF BeginRepair, CreationFails
<1>3. CASE BeginVisit BY <1>3 DEF BeginVisit, CreationFails
<1>4. CASE RunBaseline
  <2>1. baseline' \in Verdicts
    BY <1>4, VerdictTypes DEF RunBaseline
  <2> QED BY <1>4, <2>1 DEF RunBaseline
<1>5. CASE EndTurn
  <2>1. reported' \in {reported, CollectSource}
    BY <1>5 DEF EndTurn
  <2> QED BY <1>5, <2>1, CollectType DEF EndTurn
<1>6. CASE JudgeVisit BY <1>6 DEF JudgeVisit, Verdicts
<1>7. CASE JudgeRepair
  <2>1. reported' \in {reported, CollectSource}
    BY <1>7 DEF JudgeRepair
  <2>2. candidate' \in Verdicts
    BY <1>7, VerdictTypes DEF JudgeRepair
  <2> QED BY <1>7, <2>1, <2>2, CollectType DEF JudgeRepair
<1>8. CASE Catch
  <2>1. reported' \in {reported, CollectSource}
    BY <1>8 DEF Catch
  <2>2. error' \in BOOLEAN /\ lost' \in BOOLEAN
    BY <1>8 DEF Catch
  <2> QED BY <1>8, <2>1, <2>2, CollectType DEF Catch
<1>9. CASE Dispose BY <1>9 DEF Dispose
<1>10. CASE Report BY <1>10 DEF Report
<1>11. CASE Complete \/ Checksums BY <1>11 DEF Complete, Checksums
<1>12. CASE UNCHANGED vars BY <1>12 DEF vars
<1> QED BY <1>1, <1>2, <1>3, <1>4, <1>5, <1>6, <1>7, <1>8, <1>9, <1>10, <1>11, <1>12

LEMMA TypesTurn == ASSUME TypeInv, RunTurn PROVE TypeInv'
<1> USE DEF TypeInv, toolVars, modelVars, reportVars
<1>1. CASE Observe BY <1>1 DEF Observe
<1>2. CASE Think BY <1>2 DEF Think
<1>3. ASSUME NEW a \in Reply, LocalAnswers(a) \/ LocalFails(a) \/ ExternalResponds(a)
      PROVE  TypeInv'
  <2>1. a \in Answers
    BY DEF Reply
  <2> QED BY <1>3, <2>1 DEF LocalAnswers, LocalFails, ExternalResponds
<1>4. CASE ActInVisit
  <2>1. files' \in [Paths -> {"old", "new"}]
    BY <1>4 DEF ActInVisit, ActInSandbox
  <2>2. outcome' \in {"none", "ok", "failed", "passed", "threw"}
    BY <1>4 DEF ActInVisit, ActInSandbox
  <2> QED BY <1>4, <2>1, <2>2 DEF ActInVisit
<1>5. CASE ActInRepair
  <2>1. files' \in [Paths -> {"old", "new"}]
    BY <1>5 DEF ActInRepair
  <2>2. outcome' \in {"none", "ok", "failed", "passed", "threw"}
    BY <1>5 DEF ActInRepair
  <2> QED BY <1>5, <2>1, <2>2 DEF ActInRepair
<1> QED BY <1>1, <1>2, <1>3, <1>4, <1>5 DEF RunTurn

\* A step that calls no model and ends no turn stays within the budgets.
LEMMA BudgetStays ==
  ASSUME BudgetInv, UNCHANGED <<turns, calls, fails>>,
         pc' = "local" => pc = "local", pc' \in Begun => pc \in Begun
  PROVE  BudgetInv'
  BY DEF BudgetInv

LEMMA BudgetTurn ==
  ASSUME BudgetInv, CallInv, CallInv', RunTurn PROVE BudgetInv'
<1>0. /\ MaxTurns \in Nat /\ turns \in Nat /\ fails \in Nat
      /\ calls \in [local : Nat, external : Nat]
      /\ calls' \in [local : Nat, external : Nat]
      /\ calls'.local <= turns' + 1 /\ calls'.external <= turns' + 1
  BY EpisodeAssumption DEF BudgetInv, CallInv
<1>1. CASE Observe \/ ActInVisit \/ ActInRepair
  <2>1. /\ UNCHANGED <<turns, calls, fails>> /\ pc' # "local"
        /\ pc \in Begun
    BY <1>1 DEF Observe, ActInVisit, ActInRepair, modelVars, Begun
  <2> QED BY <2>1, BudgetStays
<1>2. ASSUME NEW a \in Reply, ExternalResponds(a) PROVE BudgetInv'
  <2>1. /\ UNCHANGED <<turns, calls, fails>> /\ pc' # "local"
        /\ pc \in Begun
    BY <1>2 DEF ExternalResponds, Begun
  <2> QED BY <2>1, BudgetStays
<1>3. CASE Think
  <2>1. /\ pc = "think" /\ UNCHANGED <<turns, fails>>
        /\ turns < MaxTurns /\ fails <= calls.local
    BY <1>3 DEF Think, BudgetInv, Begun
  <2>2. \/ pc' = "local" /\ calls'.local = calls.local + 1
        \/ pc' = "external" /\ calls'.local = calls.local
    BY <1>0, <1>3, CallCounts DEF Think, Tiers
  <2> QED BY <1>0, <2>1, <2>2 DEF BudgetInv
<1>4. ASSUME NEW a \in Reply, LocalAnswers(a) \/ LocalFails(a) PROVE BudgetInv'
  <2>1. /\ pc = "local" /\ pc' # "local" /\ turns' = turns
        /\ fails' \in {0, fails + 1} /\ calls'.local = calls.local
    BY <1>0, <1>4, CallCounts DEF LocalAnswers, LocalFails, Tiers
  <2>2. turns < MaxTurns /\ fails < calls.local
    BY <2>1 DEF BudgetInv, Begun
  <2> QED BY <1>0, <2>1, <2>2 DEF BudgetInv
<1> QED BY <1>1, <1>2, <1>3, <1>4 DEF RunTurn

LEMMA BudgetEndTurn == ASSUME BudgetInv, CallInv, EndTurn PROVE BudgetInv'
<1>1. /\ pc = "turn" /\ turns' = turns + 1 /\ UNCHANGED <<calls, fails>>
  BY DEF EndTurn, modelVars
<1>2. pc' \in {"observe", "judge", "catch"}
  BY DEF EndTurn, Record, Visit
<1>3. pc' = "observe" => ~OutOfTurns(turns')
  BY DEF EndTurn, Record, Visit
<1>4. MaxTurns \in Nat /\ turns \in Nat /\ turns < MaxTurns
  BY <1>1, EpisodeAssumption DEF BudgetInv, Begun
<1> QED BY <1>1, <1>2, <1>3, <1>4 DEF BudgetInv, OutOfTurns, Begun

LEMMA BudgetNext ==
  ASSUME BudgetInv, CallInv, CallInv', [Next]_vars PROVE BudgetInv'
<1> DEFINE Idle == /\ UNCHANGED <<turns, calls, fails>>
                   /\ pc' = "local" => pc = "local"
                   /\ pc' \in Begun => pc \in Begun
<1>1. CASE Refuse \/ BeginRepair \/ BeginVisit
  <2>1. Idle BY <1>1 DEF Refuse, BeginRepair, BeginVisit, modelVars, Begun
  <2> QED BY <2>1, BudgetStays
<1>2. CASE RunBaseline
  <2>1. Idle BY <1>2 DEF RunBaseline, Record, modelVars, Begun
  <2> QED BY <2>1, BudgetStays
<1>3. CASE JudgeVisit \/ JudgeRepair
  <2>1. Idle BY <1>3 DEF JudgeVisit, JudgeRepair, Record, modelVars, Begun
  <2> QED BY <2>1, BudgetStays
<1>4. CASE Catch \/ Dispose \/ Report \/ Complete \/ Checksums
  <2>1. Idle BY <1>4 DEF Catch, Dispose, Report, Complete, Checksums, modelVars, Begun
  <2> QED BY <2>1, BudgetStays
<1>5. CASE UNCHANGED vars
  <2>1. Idle BY <1>5 DEF vars, modelVars
  <2> QED BY <2>1, BudgetStays
<1> QED BY <1>1, <1>2, <1>3, <1>4, <1>5, BudgetTurn, BudgetEndTurn DEF Next

LEMMA InvInit == Init => Inv
  BY EpisodeInit, CallInit, TypesInit DEF Inv

LEMMA InvNext == Inv /\ [Next]_vars => Inv'
<1> SUFFICES ASSUME Inv, [Next]_vars PROVE Inv'
  OBVIOUS
<1>1. EpisodeInv' /\ CallInv' /\ HeardInv'
  BY EpisodeNext, CallNext, HeardNext DEF Inv
<1>2. TypeInv'
  BY TypesOutside, TypesTurn DEF Inv, Next
<1>3. BudgetInv'
  BY <1>1, BudgetNext DEF Inv
<1> QED BY <1>1, <1>2, <1>3 DEF Inv

\* The variables of an episode have their types; no more turns, calls of a tier
\* and failures are counted than the budget has turns, and a workspace is only
\* removed if there is one.
THEOREM EpisodeTypes == Spec => []TypeOK
<1>1. Inv => TypeOK
  <2> SUFFICES ASSUME Inv PROVE TypeOK
    OBVIOUS
  <2>1. /\ setup \in Setups /\ {files, reported} \subseteq [Paths -> {"old", "new"}]
        /\ answer \in Answers
        /\ outcome \in {"none", "ok", "failed", "passed", "threw"}
        /\ baseline \in Verdicts /\ candidate \in Verdicts
        /\ {error, lost, broken} \subseteq BOOLEAN
        /\ status \in {"none", "passed", "failed", "error"}
    BY DEF Inv, TypeInv
  <2>2. /\ log \in Seq(Events) /\ workspaces \in {0, 1}
        /\ pc \in {"begin", "baseline", "observe", "think", "local", "external",
                   "act", "turn", "judge", "catch", "dispose", "report", "complete",
                   "checksums", "over"}
    BY DEF Inv, EpisodeInv, LogInv, EndInv, Early, Working
  <2>4. called \in Seq(Tiers) /\ heard \in Seq({"ok", "failed"})
    <3>1. /\ <<>> \in Seq(Tiers) /\ <<"local">> \in Seq(Tiers)
          /\ <<"external">> \in Seq(Tiers) /\ <<"local", "external">> \in Seq(Tiers)
      BY DEF Tiers
    <3> QED BY <3>1 DEF Inv, CallInv, HeardInv
  <2>3. /\ turns \in 0..MaxTurns /\ fails \in 0..MaxTurns
        /\ calls \in [local : 0..MaxTurns, external : 0..MaxTurns]
    BY EpisodeAssumption DEF Inv, BudgetInv, CallInv
  <2> QED BY <2>1, <2>2, <2>3, <2>4, Zenon DEF TypeOK
<1> QED BY <1>1, InvInit, InvNext, PTL DEF Spec

\* However answers fail, no turn calls a tier twice; each external call of a visit
\* has its reason while it is made, in the last word of the policy or in what the
\* local tier has answered in this very turn; no local call is made for which the
\* policy wants the external tier; and a repair counts every call it made.
THEOREM ModelUseStaysEarned == Spec => []ModelUseIsEarned
<1>1. Inv => ModelUseIsEarned
  <2> SUFFICES ASSUME Inv PROVE ModelUseIsEarned
    OBVIOUS
  <2>1. CallInv /\ (Wanted <=> Due)
    BY WantedIsDue DEF Inv, TypeInv
  <2>2. called \in {<<>>, <<"local">>, <<"external">>, <<"local", "external">>}
    BY <2>1 DEF CallInv
  <2>3. ASSUME Visit, pc = "local" PROVE ~Due
    <3>1. ~ShouldUseExternal
      BY <2>1, <2>3 DEF CallInv
    <3>2. ~Wanted
      BY <3>1 DEF ShouldUseExternal, Wanted
    <3> QED BY <2>1, <3>2
  <2>4. ASSUME Visit, pc = "external" PROVE Due \/ Asked
    <3>1. ~Repair
      BY <2>4 DEF Repair, Visit
    <3>2. Repair \/ Wanted \/ Asked
      BY <2>1, <2>4 DEF CallInv
    <3> QED BY <2>1, <3>1, <3>2
  <2>5. ASSUME Repair
        PROVE  /\ "local" \notin ToSet(called) /\ calls.local = 0
               /\ calls.external \in {turns, turns + 1}
    <3>1. /\ called \in {<<>>, <<"external">>} /\ calls.local = 0
          /\ calls.external \in {turns, turns + 1}
      BY <2>1, <2>5 DEF CallInv
    <3>2. "local" \notin ToSet(<<>>) /\ "local" \notin ToSet(<<"external">>)
      BY DEF ToSet
    <3> QED BY <3>1, <3>2
  <2> QED BY <2>2, <2>3, <2>4, <2>5, Zenon DEF ModelUseIsEarned, Asked, HasExternal
<1> QED BY <1>1, InvInit, InvNext, PTL DEF Spec
=============================================================================
