------------------------------ MODULE SlmQueue ------------------------------
(***************************************************************************)
(* SharedSlmQueue (src/scheduler/shared-slm-queue.ts): the scheduler that  *)
(* puts every agent's call of the one local language model in a line.      *)
(*                                                                         *)
(* Node runs the code between two awaits without interruption, so a step   *)
(* here is a stretch of code between awaits.  The operation a request      *)
(* executes is not the queue's: it settles when it wants to, also after    *)
(* the queue has given up on it.  Times (waitMs, executionMs) are left out.*)
(* execute() is an async function at the only caller                       *)
(* (providers/queued-cognition.ts), so it does not throw synchronously.    *)
(***************************************************************************)
EXTENDS Integers, FiniteSets, SequencesExt

CONSTANTS Requests,     \* calls of enqueue, each made at most once
          Agents,       \* the agents the requests are made for
          AgentOf,      \* agentId of each request
          Priorities,   \* the finite priorities requests are made with
          None          \* no request

ASSUME RequestsFinite == IsFiniteSet(Requests)
ASSUME AgentOfType    == AgentOf \in [Requests -> Agents]
ASSUME PrioritiesType == Priorities \subseteq Int
ASSUME NoneIsNoRequest == None \notin Requests

VARIABLES
  pending,    \* requests waiting, the next one to serve first
  ticket,     \* priority and sequence number each request was pushed with
  sequence,   \* the next sequence number
  running,    \* the request being served, None when `running` is false
  timedOut,   \* withTimeout's flag for the request being served
  inflight,   \* operations that were begun and have not settled
  outcome,    \* how the operation of a request settled
  promise,    \* the promise enqueue returned for each request
  aborted,    \* requests whose AbortSignal is aborted
  enqueued, completed, failed       \* counters of each agent

vars == <<pending, ticket, sequence, running, timedOut, inflight, outcome,
          promise, aborted, enqueued, completed, failed>>

Answers == {"value", "error", "timeout", "cancelled", "invalid"}
-----------------------------------------------------------------------------
Init ==
  /\ pending  = <<>>
  /\ ticket   = [r \in Requests |-> [prio |-> 0, seq |-> 0]]
  /\ sequence = 0
  /\ running  = None
  /\ timedOut = FALSE
  /\ inflight = {}
  /\ outcome  = [r \in Requests |-> "none"]
  /\ promise  = [r \in Requests |-> "none"]
  /\ aborted  = {}
  /\ enqueued  = [a \in Agents |-> 0]
  /\ completed = [a \in Agents |-> 0]
  /\ failed    = [a \in Agents |-> 0]

\* The comparison function of the sort: larger priority, then earlier arrival.
Outranks(t, u) == \/ t.prio > u.prio
                  \/ t.prio = u.prio /\ t.seq < u.seq

\* Bug: the sort compares priorities only and is not stable.
OrderedUnstably(line, t) ==
  \A i, j \in 1..Len(line) : i < j => t[line[i]].prio >= t[line[j]].prio

Ordered(line, t) ==
  \A i, j \in 1..Len(line) : i < j => Outranks(t[line[i]], t[line[j]])

RequestsOf(R, a) == {r \in R : AgentOf[r] = a}

\* processNext on the line `line`, when the promises and the failure counters
\* are `answers` and `fails` and the operations `ops` are in flight.  A request
\* aborted while it waited fails before it is executed; its `finally` calls
\* processNext again in the same stretch of code, so a whole prefix goes.
ProcessNext(line, ops, answers, fails) ==
  \E n \in 0..Len(line) :
    LET skipped == {line[i] : i \in 1..n}
        Cancel  == [r \in Requests |-> IF r \in skipped THEN "cancelled"
                                                        ELSE answers[r]]
    IN /\ skipped \subseteq aborted
       /\ promise' = Cancel
       /\ failed'  = [a \in Agents |->
                        fails[a] + Cardinality(RequestsOf(skipped, a))]
       /\ pending' = SubSeq(line, n + 2, Len(line))
       /\ timedOut' = FALSE
       /\ \/ /\ n = Len(line)
             /\ running'  = None
             /\ inflight' = ops
          \/ /\ n < Len(line)
             /\ line[n + 1] \notin aborted
             /\ running'  = line[n + 1]
             /\ inflight' = ops \cup {line[n + 1]}

\* enqueue with a finite priority: push, sort, processNext.
Enqueue(r, p) ==
  /\ promise[r] = "none"
  /\ enqueued' = [enqueued EXCEPT ![AgentOf[r]] = @ + 1]
  /\ ticket'   = [ticket EXCEPT ![r] = [prio |-> p, seq |-> sequence]]
  /\ sequence' = sequence + 1
  /\ \E k \in 1..(Len(pending) + 1) :
       LET line == InsertAt(pending, k, r)
           open == [promise EXCEPT ![r] = "open"]
       IN /\ Ordered(line, ticket')
          /\ IF running = None
             THEN ProcessNext(line, inflight, open, failed)
             ELSE /\ pending' = line
                  /\ promise' = open
                  /\ UNCHANGED <<running, timedOut, inflight, failed>>
  /\ UNCHANGED <<outcome, aborted, completed>>

\* Bug: the request is counted before its priority is validated.
EnqueueCountedFirst(r) ==
  /\ promise[r] = "none"
  /\ promise'  = [promise EXCEPT ![r] = "invalid"]
  /\ enqueued' = [enqueued EXCEPT ![AgentOf[r]] = @ + 1]
  /\ UNCHANGED <<pending, ticket, sequence, running, timedOut, inflight,
                 outcome, aborted, completed, failed>>

\* enqueue with a priority that is NaN or infinite: rejected at once.
EnqueueInvalid(r) ==
  /\ promise[r] = "none"
  /\ promise' = [promise EXCEPT ![r] = "invalid"]
  /\ UNCHANGED <<pending, ticket, sequence, running, timedOut, inflight,
                 outcome, aborted, enqueued, completed, failed>>

\* Bug: an abort rejects the caller and leaves the request where it is.
AbortRejects(r) ==
  /\ r \notin aborted
  /\ aborted' = aborted \cup {r}
  /\ promise' = [promise EXCEPT ![r] = IF @ = "open" THEN "cancelled" ELSE @]
  /\ UNCHANGED <<pending, ticket, sequence, running, timedOut, inflight,
                 outcome, enqueued, completed, failed>>

\* The caller aborts: the queue looks at the signal only when it starts r.
Abort(r) ==
  /\ r \notin aborted
  /\ aborted' = aborted \cup {r}
  /\ UNCHANGED <<pending, ticket, sequence, running, timedOut, inflight,
                 outcome, promise, enqueued, completed, failed>>

\* The operation of r settles, whatever the queue thinks of it.
OperationSettles(r, o) ==
  /\ r \in inflight
  /\ inflight' = inflight \ {r}
  /\ outcome'  = [outcome EXCEPT ![r] = o]
  /\ UNCHANGED <<pending, ticket, sequence, running, timedOut, promise,
                 aborted, enqueued, completed, failed>>

\* Bug: the timeout answers the caller and serves the next request while the
\* operation is still using the model.
TimerReleases ==
  /\ running \in inflight
  /\ ProcessNext(pending, inflight, [promise EXCEPT ![running] = "timeout"],
                 [failed EXCEPT ![AgentOf[running]] = @ + 1])
  /\ UNCHANGED <<ticket, sequence, outcome, aborted, enqueued, completed>>

\* The timer wins the race.  The request stays in service: withTimeout now
\* awaits the operation before it rethrows.
TimerFires ==
  /\ running \in inflight
  /\ ~timedOut
  /\ timedOut' = TRUE
  /\ UNCHANGED <<pending, ticket, sequence, running, inflight, outcome,
                 promise, aborted, enqueued, completed, failed>>

\* Bug: nobody calls processNext after a request.
CompleteAndSleep ==
  /\ running # None
  /\ running \notin inflight
  /\ promise' = [promise EXCEPT ![running] = outcome[running]]
  /\ completed' = [completed EXCEPT ![AgentOf[running]] = @ + 1]
  /\ running' = None
  /\ UNCHANGED <<pending, ticket, sequence, timedOut, inflight, outcome,
                 aborted, enqueued, failed>>

\* processNext resumes after its await: count, settle the promise, release the
\* model and serve the next request.
Complete ==
  /\ running # None
  /\ running \notin inflight
  /\ LET answer == IF timedOut THEN "timeout" ELSE outcome[running]
         a      == AgentOf[running]
         good   == answer = "value"
     IN /\ completed' = IF good THEN [completed EXCEPT ![a] = @ + 1]
                                ELSE completed
        /\ ProcessNext(pending, inflight,
                       [promise EXCEPT ![running] = answer],
                       IF good THEN failed ELSE [failed EXCEPT ![a] = @ + 1])
  /\ UNCHANGED <<ticket, sequence, outcome, aborted, enqueued>>

Next == \/ \E r \in Requests, p \in Priorities : Enqueue(r, p)
        \/ \E r \in Requests : EnqueueInvalid(r) \/ Abort(r)
        \/ \E r \in Requests, o \in {"value", "error"} : OperationSettles(r, o)
        \/ TimerFires
        \/ Complete

Spec == Init /\ [][Next]_vars

\* The event loop resumes a continuation that can run, and an operation that
\* was begun settles (the inner providers bound their own calls).  Nothing is
\* assumed of callers, of signals or of the timer.
Fairness == /\ WF_vars(Complete)
            /\ WF_vars(\E r \in Requests, o \in {"value", "error"} :
                         OperationSettles(r, o))

FairSpec == Spec /\ Fairness
-----------------------------------------------------------------------------
TypeOK ==
  /\ pending \in Seq(Requests)
  /\ ticket \in [Requests -> [prio : Int, seq : Nat]]
  /\ sequence \in Nat
  /\ running \in Requests \cup {None}
  /\ timedOut \in BOOLEAN
  /\ inflight \subseteq Requests
  /\ outcome \in [Requests -> {"none", "value", "error"}]
  /\ promise \in [Requests -> Answers \cup {"none", "open"}]
  /\ aborted \subseteq Requests
  /\ enqueued \in [Agents -> Nat]
  /\ completed \in [Agents -> Nat]
  /\ failed \in [Agents -> Nat]

Waiting == {pending[i] : i \in 1..Len(pending)}
Open    == {r \in Requests : promise[r] = "open"}

\* The model is never used by two operations at once, not even by one the
\* queue has timed out and the one behind it: every operation in flight
\* belongs to the request in service.
ExclusiveModel == inflight \subseteq {running}

\* The queue never sleeps on work: when the model is free nobody waits, so no
\* sequence of enqueues, aborts and time-outs loses the call of processNext.
NoLostWakeup == running = None => pending = <<>>

\* Every promise that is still open is in the line exactly once or in service,
\* and nothing else is: no request is dropped, served twice or answered early.
OpenIsOwned ==
  /\ Open = Waiting \cup ({running} \ {None})
  /\ running \notin Waiting
  /\ \A i, j \in 1..Len(pending) : i # j => pending[i] # pending[j]

\* The counters an experiment compares: for each agent, what was enqueued is
\* what was completed, what failed and what is still open.
CountersBalance ==
  \A a \in Agents :
    enqueued[a] = completed[a] + failed[a] + Cardinality(RequestsOf(Open, a))

\* What makes the invariants above inductive, and the order of service true:
\* the line is sorted, tickets are numbered in order of arrival, and when an
\* operation that was begun is no longer in flight its outcome is known.
LineInOrder ==
  /\ Ordered(pending, ticket)
  /\ \A r \in Open : ticket[r].seq < sequence
  /\ running # None /\ running \notin inflight => outcome[running] # "none"

Inv == TypeOK /\ ExclusiveModel /\ NoLostWakeup /\ OpenIsOwned
       /\ CountersBalance /\ LineInOrder

\* A request that is started outranks every request left waiting, so the line
\* is served by priority and, inside a priority, in order of arrival.
ServesTheBest ==
  [][\A r \in Requests : (running' = r /\ running # r) =>
       \A q \in Open' \ {r} : Outranks(ticket'[r], ticket'[q])]_vars

\* A caller who aborted before its turn never reaches the model.
AbortedNeverStarts ==
  [][\A r \in aborted : r \in inflight' => r \in inflight]_vars

\* Every caller is answered, also behind operations that time out.
EveryoneAnswered ==
  \A r \in Requests : promise[r] = "open" ~> promise[r] \in Answers

\* The line, the sort, the timer and the counters implement the service that
\* SlmService describes, its progress included.
Service == INSTANCE SlmService WITH holder <- running
ImplementsService == Service!Spec
=============================================================================
