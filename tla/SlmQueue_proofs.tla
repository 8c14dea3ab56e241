--------------------------- MODULE SlmQueue_proofs ---------------------------
(***************************************************************************)
(* Proofs about SlmQueue: the invariants hold for any set of requests,     *)
(* agents and priorities, and the queue implements SlmService.             *)
(***************************************************************************)
EXTENDS SlmQueue, SequenceTheorems, FiniteSetTheorems, TLAPS

\* The elements of a sequence after an insertion.
LEMMA InsertAtFacts ==
  ASSUME NEW S, NEW s \in Seq(S), NEW e \in S, NEW k \in 1..(Len(s) + 1)
  PROVE  /\ InsertAt(s, k, e) \in Seq(S)
         /\ Len(InsertAt(s, k, e)) = Len(s) + 1
         /\ \A i \in 1..(Len(s) + 1) :
              InsertAt(s, k, e)[i] = IF i < k THEN s[i]
                                     ELSE IF i = k THEN e ELSE s[i - 1]
<1> DEFINE left  == SubSeq(s, 1, k - 1)
           right == SubSeq(s, k, Len(s))
           front == left \o <<e>>
<1>1. /\ left \in Seq(S) /\ Len(left) = k - 1
      /\ \A i \in 1..(k - 1) : left[i] = s[i]
  BY SubSeqProperties, LenProperties
<1>2. /\ right \in Seq(S) /\ Len(right) = Len(s) + 1 - k
      /\ \A i \in 1..(Len(s) + 1 - k) : right[i] = s[k + i - 1]
  BY SubSeqProperties, LenProperties
<1>3. /\ <<e>> \in Seq(S) /\ Len(<<e>>) = 1 /\ <<e>>[1] = e
  OBVIOUS
<1> HIDE DEF left, right
<1>4. /\ front \in Seq(S) /\ Len(front) = k
      /\ \A i \in 1..k : front[i] = IF i < k THEN s[i] ELSE e
  <2>1. /\ front \in Seq(S) /\ Len(front) = Len(left) + Len(<<e>>)
        /\ \A i \in 1..(Len(left) + Len(<<e>>)) : front[i] = 
             IF i <= Len(left) THEN left[i] ELSE <<e>>[i - Len(left)]
    BY <1>1, <1>3, ConcatProperties
  <2> QED BY <2>1, <1>1, <1>3
<1> HIDE DEF front
<1>5. /\ front \o right \in Seq(S) /\ Len(front \o right) = Len(front) + Len(right)
      /\ \A i \in 1..(Len(front) + Len(right)) : (front \o right)[i] =
             IF i <= Len(front) THEN front[i] ELSE right[i - Len(front)]
  BY <1>2, <1>4, ConcatProperties
<1>6. InsertAt(s, k, e) = front \o right
  BY DEF InsertAt, front, left, right
<1>7. Len(s) \in Nat
  BY LenProperties
<1> QED
  BY <1>2, <1>4, <1>5, <1>6, <1>7

Elems(line) == {line[i] : i \in 1..Len(line)}

Distinct(line) ==
  \A i, j \in 1..Len(line) : i # j => line[i] # line[j]

\* Pushing a new request and sorting keeps every request in the line once.
LEMMA PushAndSort ==
  ASSUME NEW line \in Seq(Requests), Distinct(line),
         NEW r \in Requests, r \notin Elems(line), NEW k \in 1..(Len(line) + 1)
  PROVE  /\ InsertAt(line, k, r) \in Seq(Requests)
         /\ Distinct(InsertAt(line, k, r))
         /\ Elems(InsertAt(line, k, r)) = Elems(line) \cup {r}
<1> DEFINE new == InsertAt(line, k, r)
<1>1. /\ new \in Seq(Requests) /\ Len(new) = Len(line) + 1 /\ Len(line) \in Nat
      /\ \A i \in 1..(Len(line) + 1) :
           new[i] = IF i < k THEN line[i] ELSE IF i = k THEN r ELSE line[i - 1]
  BY InsertAtFacts, LenProperties
<1> HIDE DEF new
<1>2. Distinct(new)
  <2> SUFFICES ASSUME NEW i \in 1..Len(new), NEW j \in 1..Len(new), i # j
               PROVE  new[i] # new[j]
    BY DEF Distinct
  <2>1. ASSUME NEW h \in 1..Len(new), h # k
        PROVE  \E m \in 1..Len(line) : /\ new[h] = line[m]
                                       /\ m = IF h < k THEN h ELSE h - 1
    <3> DEFINE m == IF h < k THEN h ELSE h - 1
    <3>1. m \in 1..Len(line) /\ new[h] = line[m]
      BY <2>1, <1>1
    <3> QED BY <3>1
  <2>2. CASE i = k \/ j = k
    <3>1. new[k] = r
      BY <1>1
    <3> QED BY <2>1, <2>2, <3>1 DEF Elems
  <2>3. CASE i # k /\ j # k
    <3>1. PICK m \in 1..Len(line) : new[i] = line[m] /\ m = IF i < k THEN i ELSE i - 1
      BY <2>1, <2>3
    <3>2. PICK l \in 1..Len(line) : new[j] = line[l] /\ l = IF j < k THEN j ELSE j - 1
      BY <2>1, <2>3
    <3>3. m # l
      BY <2>3, <3>1, <3>2, <1>1
    <3> QED BY <3>1, <3>2, <3>3 DEF Distinct
  <2> QED BY <2>2, <2>3
<1>3. Elems(new) = Elems(line) \cup {r}
  <2>1. \A x \in Elems(new) : x \in Elems(line) \cup {r}
    BY <1>1 DEF Elems
  <2>2. \A i \in 1..Len(line) : line[i] \in Elems(new)
    <3> TAKE i \in 1..Len(line)
    <3>1. CASE i < k
      BY <3>1, <1>1 DEF Elems
    <3>2. CASE i >= k
      <4>1. i + 1 \in 1..Len(new) /\ new[i + 1] = line[i]
        BY <3>2, <1>1
      <4> QED BY <4>1 DEF Elems
    <3> QED BY <3>1, <3>2, <1>1
  <2>3. r \in Elems(new)
    BY <1>1 DEF Elems
  <2> QED BY <2>1, <2>2, <2>3 DEF Elems
<1> QED BY <1>1, <1>2, <1>3 DEF new

\* What processNext does to a line: it cancels some requests, starts the first
\* it keeps and leaves the rest waiting in their order.
Passes(line, answers, fails) ==
  /\ pending' \in Seq(Requests)
  /\ running' \in Requests \cup {None}
  /\ timedOut' = FALSE
  /\ inflight' = {running'} \ {None}
  /\ promise' \in [Requests -> Answers \cup {"none", "open"}]
  /\ NoLostWakeup'
  /\ OpenIsOwned'
  /\ \E skipped \in SUBSET (Elems(line) \cap aborted) :
       /\ Open' = Elems(line) \ skipped
       /\ promise' = [r \in Requests |->
                       IF r \in skipped THEN "cancelled" ELSE answers[r]]
       /\ failed' = [a \in Agents |->
                      fails[a] + Cardinality(RequestsOf(skipped, a))]
  /\ \A t : Ordered(line, t) =>
       /\ Ordered(pending', t)
       /\ running' # None =>
            \A q \in Open' \ {running'} : Outranks(t[running'], t[q])

\* It does so when the requests of the line are exactly the open ones and no
\* operation is in flight.
LEMMA ProcessNextFacts ==
  ASSUME NEW line \in Seq(Requests), Distinct(line),
         NEW answers \in [Requests -> Answers \cup {"none", "open"}],
         NEW fails \in [Agents -> Nat],
         {r \in Requests : answers[r] = "open"} = Elems(line),
         ProcessNext(line, {}, answers, fails)
  PROVE  Passes(line, answers, fails)
<1>1. PICK n \in 0..Len(line) :
        /\ {line[i] : i \in 1..n} \subseteq aborted
        /\ promise' = [r \in Requests |-> IF r \in {line[i] : i \in 1..n}
                                          THEN "cancelled" ELSE answers[r]]
        /\ failed' = [a \in Agents |-> fails[a] +
                        Cardinality(RequestsOf({line[i] : i \in 1..n}, a))]
        /\ pending' = SubSeq(line, n + 2, Len(line))
        /\ timedOut' = FALSE
        /\ \/ /\ n = Len(line)
              /\ running' = None
              /\ inflight' = {}
           \/ /\ n < Len(line)
              /\ line[n + 1] \notin aborted
              /\ running' = line[n + 1]
              /\ inflight' = {} \cup {line[n + 1]}
  BY DEF ProcessNext
<1> DEFINE skipped == {line[i] : i \in 1..n}
<1>2. Len(line) \in Nat /\ n \in Nat /\ \A i \in 1..Len(line) : line[i] \in Requests
  BY LenProperties
<1>3. /\ pending' \in Seq(Requests)
      /\ Len(pending') = IF n + 2 <= Len(line) THEN Len(line) - n - 1 ELSE 0
      /\ \A i \in 1..(Len(line) - n - 1) : pending'[i] = line[n + 1 + i]
  <2>1. \A i \in (n + 2)..Len(line) : line[i] \in Requests
    BY <1>2
  <2>2. /\ SubSeq(line, n + 2, Len(line)) \in Seq(Requests)
        /\ Len(SubSeq(line, n + 2, Len(line)))
             = IF n + 2 <= Len(line) THEN Len(line) - (n + 2) + 1 ELSE 0
        /\ \A i \in 1..(Len(line) - (n + 2) + 1) :
             SubSeq(line, n + 2, Len(line))[i] = line[n + 2 + i - 1]
    BY <2>1, <1>2, SubSeqProperties
  <2> QED BY <2>2, <1>1, <1>2
<1>4. skipped \subseteq Elems(line) /\ skipped \subseteq Requests
  BY <1>2 DEF Elems
<1>5. Open' = Elems(line) \ skipped
  BY <1>1, <1>4 DEF Open
<1>6. running' \in Requests \cup {None} /\ inflight' = {running'} \ {None}
  BY <1>1, <1>2, NoneIsNoRequest
<1>7. promise' \in [Requests -> Answers \cup {"none", "open"}]
  BY <1>1 DEF Answers
<1>8. running' = None => n = Len(line)
  BY <1>1, <1>2, NoneIsNoRequest
<1>9. NoLostWakeup'
  <2>1. running' = None => Len(pending') = 0
    BY <1>2, <1>3, <1>8
  <2> QED BY <2>1, <1>3, EmptySeq DEF NoLostWakeup
<1>10. Elems(line) \ skipped = Elems(pending') \cup ({running'} \ {None})
  <2>1. \A i \in 1..Len(line) :
          \/ i \in 1..n
          \/ i = n + 1 /\ running' = line[i]
          \/ i - n - 1 \in 1..Len(pending') /\ pending'[i - n - 1] = line[i]
    BY <1>1, <1>2, <1>3
  <2>2. ASSUME NEW i \in 1..Len(line), line[i] \notin skipped
        PROVE  line[i] \in Elems(pending') \cup ({running'} \ {None})
    BY <2>1, <2>2, <1>2, NoneIsNoRequest DEF Elems
  <2>3. ASSUME NEW i \in 1..Len(pending')
        PROVE  pending'[i] \in Elems(line) \ skipped
    <3>1. n + 1 + i \in 1..Len(line) /\ pending'[i] = line[n + 1 + i]
      BY <1>2, <1>3
    <3>2. \A j \in 1..n : line[j] # line[n + 1 + i]
      BY <3>1, <1>2 DEF Distinct
    <3> QED BY <3>1, <3>2 DEF Elems
  <2>4. ASSUME running' # None PROVE running' \in Elems(line) \ skipped
    <3>1. n + 1 \in 1..Len(line) /\ running' = line[n + 1]
      BY <2>4, <1>1, <1>2
    <3>2. \A j \in 1..n : line[j] # line[n + 1]
      BY <3>1, <1>2 DEF Distinct
    <3> QED BY <3>1, <3>2 DEF Elems
  <2> HIDE DEF skipped
  <2>5. ASSUME NEW q \in Elems(line) \ skipped
        PROVE  q \in Elems(pending') \cup ({running'} \ {None})
    <3>1. PICK i \in 1..Len(line) : q = line[i]
      BY DEF Elems
    <3> QED BY <2>2, <3>1
  <2>6. ASSUME NEW q \in Elems(pending') PROVE q \in Elems(line) \ skipped
    <3>1. PICK i \in 1..Len(pending') : q = pending'[i]
      BY DEF Elems
    <3> QED BY <2>3, <3>1
  <2> QED BY <2>4, <2>5, <2>6
<1>11. running' \notin Elems(pending')
  <2> SUFFICES ASSUME NEW i \in 1..Len(pending') PROVE pending'[i] # running'
    BY DEF Elems
  <2>1. n + 1 + i \in 1..Len(line) /\ pending'[i] = line[n + 1 + i]
    BY <1>2, <1>3
  <2>2. running' = None \/ running' = line[n + 1]
    BY <1>1
  <2> QED BY <2>1, <2>2, <1>2, NoneIsNoRequest DEF Distinct
<1>12. Distinct(pending')
  <2> SUFFICES ASSUME NEW i \in 1..Len(pending'), NEW j \in 1..Len(pending'), i # j
               PROVE  pending'[i] # pending'[j]
    BY DEF Distinct
  <2>1. /\ n + 1 + i \in 1..Len(line) /\ pending'[i] = line[n + 1 + i]
        /\ n + 1 + j \in 1..Len(line) /\ pending'[j] = line[n + 1 + j]
        /\ n + 1 + i # n + 1 + j
    BY <1>2, <1>3
  <2> QED BY <2>1 DEF Distinct
<1>13. OpenIsOwned'
  <2>1. Waiting' = Elems(pending')
    BY DEF Waiting, Elems
  <2> QED BY <2>1, <1>5, <1>10, <1>11, <1>12 DEF OpenIsOwned, Distinct
<1>14. ASSUME NEW t, Ordered(line, t)
       PROVE  /\ Ordered(pending', t)
              /\ running' # None =>
                   \A q \in Open' \ {running'} : Outranks(t[running'], t[q])
  <2>1. Ordered(pending', t)
    BY <1>14, <1>2, <1>3 DEF Ordered
  <2>2. ASSUME running' # None, NEW q \in Open' \ {running'}
        PROVE  Outranks(t[running'], t[q])
    <3>1. n + 1 \in 1..Len(line) /\ running' = line[n + 1]
      BY <2>2, <1>1, <1>2
    <3>2. PICK i \in 1..Len(pending') : q = pending'[i]
      <4> HIDE DEF skipped
      <4> QED BY <2>2, <1>5, <1>10 DEF Elems
    <3>3. n + 1 + i \in 1..Len(line) /\ q = line[n + 1 + i] /\ n + 1 < n + 1 + i
      BY <3>2, <1>2, <1>3
    <3> QED BY <3>1, <3>3, <1>14 DEF Ordered
  <2> QED BY <2>1, <2>2
<1>15. \E S \in SUBSET (Elems(line) \cap aborted) :
         /\ Open' = Elems(line) \ S
         /\ promise' = [r \in Requests |->
                         IF r \in S THEN "cancelled" ELSE answers[r]]
         /\ failed' = [a \in Agents |-> fails[a] + Cardinality(RequestsOf(S, a))]
  <2>1. skipped \in SUBSET (Elems(line) \cap aborted)
    BY <1>1, <1>4
  <2> QED BY <2>1, <1>1, <1>5
<1> QED BY <1>1, <1>3, <1>6, <1>7, <1>9, <1>13, <1>14, <1>15 DEF Passes

\* How the number of an agent's requests changes with a set of requests.
LEMMA CountSplit ==
  ASSUME NEW R \in SUBSET Requests, NEW S \in SUBSET R, NEW a
  PROVE  /\ Cardinality(RequestsOf(R, a)) \in Nat
         /\ Cardinality(RequestsOf(S, a)) \in Nat
         /\ Cardinality(RequestsOf(R \ S, a)) \in Nat
         /\ Cardinality(RequestsOf(R, a))
              = Cardinality(RequestsOf(S, a)) + Cardinality(RequestsOf(R \ S, a))
<1> DEFINE X == RequestsOf(S, a)
           Y == RequestsOf(R \ S, a)
<1>1. X \subseteq Requests /\ Y \subseteq Requests /\ X \cap Y = {}
      /\ X \cup Y = RequestsOf(R, a)
  BY DEF RequestsOf
<1> HIDE DEF X, Y
<1>2. IsFiniteSet(X) /\ IsFiniteSet(Y) /\ IsFiniteSet({})
  BY <1>1, RequestsFinite, FS_Subset, FS_EmptySet
<1>3. /\ Cardinality(X \cup Y) = Cardinality(X) + Cardinality(Y) - Cardinality(X \cap Y)
      /\ IsFiniteSet(X \cup Y) /\ Cardinality({}) = 0
  BY <1>2, FS_Union, FS_EmptySet
<1>4. Cardinality(X) \in Nat /\ Cardinality(Y) \in Nat /\ Cardinality(X \cup Y) \in Nat
  BY <1>2, <1>3, FS_CardinalityType
<1>5. Cardinality(RequestsOf(R, a)) = Cardinality(X) + Cardinality(Y)
      /\ Cardinality(RequestsOf(R, a)) \in Nat
  <2>1. Cardinality(X \cup Y) = Cardinality(RequestsOf(R, a)) /\ Cardinality(X \cap Y) = 0
    BY <1>1, <1>3, Zenon
  <2> QED BY <2>1, <1>3, <1>4
<1> QED BY <1>4, <1>5 DEF X, Y

LEMMA CountAdd ==
  ASSUME NEW R \in SUBSET Requests, NEW r \in Requests, r \notin R, NEW a
  PROVE  /\ Cardinality(RequestsOf(R, a)) \in Nat
         /\ Cardinality(RequestsOf(R \cup {r}, a))
              = Cardinality(RequestsOf(R, a)) + (IF AgentOf[r] = a THEN 1 ELSE 0)
<1>1. RequestsOf(R \cup {r}, a) = IF AgentOf[r] = a THEN RequestsOf(R, a) \cup {r}
                                                   ELSE RequestsOf(R, a)
  BY DEF RequestsOf
<1>2. r \notin RequestsOf(R, a) /\ RequestsOf(R, a) \in SUBSET Requests
  BY DEF RequestsOf
<1>3. IsFiniteSet(RequestsOf(R, a))
  BY <1>2, RequestsFinite, FS_Subset
<1>4. /\ Cardinality(RequestsOf(R, a)) \in Nat
      /\ Cardinality(RequestsOf(R, a) \cup {r}) = Cardinality(RequestsOf(R, a)) + 1
  BY <1>2, <1>3, FS_AddElement, FS_CardinalityType
<1> QED BY <1>1, <1>4
-----------------------------------------------------------------------------
\* The invariant holds initially.
LEMMA InitInv == Init => Inv
<1> SUFFICES ASSUME Init PROVE Inv
  OBVIOUS
<1>1. TypeOK
  <2>1. ticket \in [Requests -> [prio : Int, seq : Nat]]
    <3>1. [prio |-> 0, seq |-> 0] \in [prio : Int, seq : Nat]
      OBVIOUS
    <3> QED BY <3>1 DEF Init
  <2>2. outcome \in [Requests -> {"none", "value", "error"}]
    BY DEF Init
  <2>3. promise \in [Requests -> Answers \cup {"none", "open"}]
    BY DEF Init
  <2>4. /\ enqueued \in [Agents -> Nat] /\ completed \in [Agents -> Nat]
        /\ failed \in [Agents -> Nat]
    BY DEF Init
  <2>5. pending \in Seq(Requests)
    BY EmptySeq DEF Init
  <2>6. /\ sequence \in Nat /\ running \in Requests \cup {None} /\ timedOut \in BOOLEAN
        /\ inflight \subseteq Requests /\ aborted \subseteq Requests
    BY DEF Init
  <2> QED BY <2>1, <2>2, <2>3, <2>4, <2>5, <2>6 DEF TypeOK
<1>2. pending = <<>> /\ Len(pending) = 0 /\ Open = {} /\ Waiting = {}
  BY DEF Init, Open, Waiting
<1>3. ExclusiveModel /\ NoLostWakeup /\ OpenIsOwned /\ LineInOrder
  BY <1>2 DEF Init, ExclusiveModel, NoLostWakeup, OpenIsOwned, LineInOrder, Ordered
<1>4. CountersBalance
  <2> SUFFICES ASSUME NEW a \in Agents
               PROVE  Cardinality(RequestsOf(Open, a)) = 0
    BY DEF Init, CountersBalance
  <2> QED BY <1>2, FS_EmptySet DEF RequestsOf
<1> QED BY <1>1, <1>3, <1>4 DEF Inv

\* enqueue with a finite priority.
LEMMA EnqueueInv ==
  ASSUME Inv, NEW r \in Requests, NEW p \in Priorities, Enqueue(r, p)
  PROVE  Inv'
<1> DEFINE open == [promise EXCEPT ![r] = "open"]
<1>0. TypeOK /\ ExclusiveModel /\ NoLostWakeup /\ OpenIsOwned
      /\ CountersBalance /\ LineInOrder
  BY DEF Inv
<1>1. PICK k \in 1..(Len(pending) + 1) :
        /\ Ordered(InsertAt(pending, k, r), ticket')
        /\ IF running = None
           THEN ProcessNext(InsertAt(pending, k, r), inflight, open, failed)
           ELSE /\ pending' = InsertAt(pending, k, r)
                /\ promise' = open
                /\ UNCHANGED <<running, timedOut, inflight, failed>>
  BY DEF Enqueue
<1> DEFINE line == InsertAt(pending, k, r)
<1>2. /\ promise[r] = "none"
      /\ enqueued' = [enqueued EXCEPT ![AgentOf[r]] = @ + 1]
      /\ ticket' = [ticket EXCEPT ![r] = [prio |-> p, seq |-> sequence]]
      /\ sequence' = sequence + 1
      /\ UNCHANGED <<outcome, aborted, completed>>
  BY DEF Enqueue
<1>3. /\ Waiting = Elems(pending) /\ Distinct(pending)
      /\ Open = Elems(pending) \cup ({running} \ {None})
      /\ r \notin Open /\ r \notin Elems(pending) /\ running # r
      /\ Open \in SUBSET Requests
  BY <1>0, <1>2, NoneIsNoRequest DEF OpenIsOwned, Waiting, Elems, Distinct, Open
<1>4. line \in Seq(Requests) /\ Distinct(line) /\ Elems(line) = Elems(pending) \cup {r}
  BY <1>0, <1>3, PushAndSort DEF TypeOK
<1> HIDE DEF line
<1>5. /\ open \in [Requests -> Answers \cup {"none", "open"}]
      /\ {q \in Requests : open[q] = "open"} = Open \cup {r}
  BY <1>0 DEF TypeOK, Open
<1>6. /\ ticket' \in [Requests -> [prio : Int, seq : Nat]] /\ sequence' \in Nat
      /\ enqueued' \in [Agents -> Nat] /\ completed' \in [Agents -> Nat]
      /\ outcome' \in [Requests -> {"none", "value", "error"}] /\ aborted' \subseteq Requests
      /\ \A a \in Agents : enqueued'[a] = enqueued[a] + (IF AgentOf[r] = a THEN 1 ELSE 0)
  <2>1. ticket' \in [Requests -> [prio : Int, seq : Nat]]
    <3>1. [prio |-> p, seq |-> sequence] \in [prio : Int, seq : Nat]
      BY <1>0, PrioritiesType DEF TypeOK
    <3>2. ticket \in [Requests -> [prio : Int, seq : Nat]]
      BY <1>0 DEF TypeOK
    <3> QED BY <3>1, <3>2, <1>2
  <2>2. sequence' \in Nat /\ completed' \in [Agents -> Nat]
        /\ outcome' \in [Requests -> {"none", "value", "error"}] /\ aborted' \subseteq Requests
    BY <1>0, <1>2 DEF TypeOK
  <2>3. /\ enqueued' \in [Agents -> Nat]
        /\ \A a \in Agents : enqueued'[a] = enqueued[a] + (IF AgentOf[r] = a THEN 1 ELSE 0)
    <3>1. enqueued \in [Agents -> Nat]
      BY <1>0 DEF TypeOK
    <3> QED BY <3>1, <1>2, AgentOfType
  <2> QED BY <2>1, <2>2, <2>3
<1>7. \A q \in Open \cup {r} : ticket'[q].seq < sequence'
  BY <1>0, <1>2 DEF TypeOK, LineInOrder, Open
<1>8. CASE running # None
  <2>1. /\ pending' = line /\ promise' = open
        /\ UNCHANGED <<running, timedOut, inflight, failed>>
    BY <1>1, <1>8 DEF line
  <2>2. TypeOK'
    BY <2>1, <1>0, <1>4, <1>5, <1>6 DEF TypeOK
  <2>3. Open' = Open \cup {r} /\ Waiting' = Elems(line)
    BY <2>1, <1>5 DEF Open, Waiting, Elems
  <2>4. ExclusiveModel' /\ NoLostWakeup'
    BY <2>1, <1>0, <1>8 DEF ExclusiveModel, NoLostWakeup
  <2>5. OpenIsOwned'
    <3>1. Open' = Waiting' \cup ({running'} \ {None}) /\ running' \notin Waiting'
      BY <2>1, <2>3, <1>0, <1>3, <1>4 DEF OpenIsOwned
    <3> QED BY <3>1, <2>1, <1>4 DEF OpenIsOwned, Distinct
  <2>6. CountersBalance'
    <3> SUFFICES ASSUME NEW a \in Agents
                 PROVE  enqueued'[a] = completed'[a] + failed'[a]
                                       + Cardinality(RequestsOf(Open', a))
      BY DEF CountersBalance
    <3>1. Cardinality(RequestsOf(Open', a)) = Cardinality(RequestsOf(Open, a))
                                              + (IF AgentOf[r] = a THEN 1 ELSE 0)
          /\ Cardinality(RequestsOf(Open, a)) \in Nat
      BY <2>3, <1>3, CountAdd
    <3>2. enqueued[a] = completed[a] + failed[a] + Cardinality(RequestsOf(Open, a))
      BY <1>0 DEF CountersBalance
    <3>3. completed[a] \in Nat /\ failed[a] \in Nat
          /\ completed'[a] = completed[a] /\ failed'[a] = failed[a]
      BY <1>0, <1>2, <2>1 DEF TypeOK
    <3> QED BY <3>1, <3>2, <3>3, <1>6
  <2>7. LineInOrder'
    <3>1. Ordered(pending', ticket')
      BY <1>1, <2>1 DEF line
    <3>2. running' # None /\ running' \notin inflight' => outcome'[running'] # "none"
      BY <1>0, <1>2, <2>1 DEF LineInOrder
    <3> QED BY <3>1, <3>2, <2>3, <1>7 DEF LineInOrder
  <2> QED BY <2>1, <2>2, <2>4, <2>5, <2>6, <2>7 DEF Inv
<1>9. CASE running = None
  <2>1. pending = <<>> /\ inflight = {} /\ Open = {} /\ Elems(pending) = {}
    BY <1>0, <1>3, <1>9, NoneIsNoRequest
       DEF NoLostWakeup, ExclusiveModel, TypeOK, Elems
  <2>2. ProcessNext(line, {}, open, failed)
    BY <1>1, <1>9, <2>1 DEF line
  <2>3. {q \in Requests : open[q] = "open"} = Elems(line) /\ failed \in [Agents -> Nat]
    BY <1>0, <1>4, <1>5, <2>1 DEF TypeOK
  <2> HIDE DEF open
  <2>4. Passes(line, open, failed)
    BY <1>4, <1>5, <2>2, <2>3, ProcessNextFacts
  <2>5. PICK skipped \in SUBSET (Elems(line) \cap aborted) :
              /\ Open' = Elems(line) \ skipped
              /\ failed' = [a \in Agents |-> failed[a]
                             + Cardinality(RequestsOf(skipped, a))]
    BY <2>4 DEF Passes
  <2>6. Elems(line) = {r} /\ Elems(line) \in SUBSET Requests /\ skipped \in SUBSET Elems(line)
    BY <1>4, <2>1
  <2>7. \A a \in Agents : /\ Cardinality(RequestsOf(skipped, a)) \in Nat
                         /\ Cardinality(RequestsOf(Open', a)) \in Nat
                         /\ Cardinality(RequestsOf({r}, a)) =
                              Cardinality(RequestsOf(skipped, a))
                              + Cardinality(RequestsOf(Open', a))
    BY <2>5, <2>6, CountSplit
  <2>8. TypeOK'
    <3>1. failed' \in [Agents -> Nat]
      BY <2>5, <2>7, <2>3
    <3> QED BY <3>1, <2>4, <1>6 DEF TypeOK, Passes
  <2>9. ExclusiveModel'
    BY <2>4 DEF ExclusiveModel, Passes
  <2>10. CountersBalance'
    <3> SUFFICES ASSUME NEW a \in Agents
                 PROVE  enqueued'[a] = completed'[a] + failed'[a]
                                       + Cardinality(RequestsOf(Open', a))
      BY DEF CountersBalance
    <3> DEFINE none == Cardinality(RequestsOf(Open, a))
               all  == Cardinality(RequestsOf(Open \cup {r}, a))
               left == Cardinality(RequestsOf(Open', a))
               gone == Cardinality(RequestsOf(skipped, a))
    <3>1. all = none + (IF AgentOf[r] = a THEN 1 ELSE 0) /\ none \in Nat
      BY <1>3, CountAdd
    <3>2. all = gone + left /\ gone \in Nat /\ left \in Nat
      <4>1. Open \cup {r} = {r}
        BY <2>1
      <4> QED BY <4>1, <2>7
    <3>3. enqueued[a] = completed[a] + failed[a] + none
      BY <1>0 DEF CountersBalance
    <3>4. completed[a] \in Nat /\ failed[a] \in Nat /\ completed'[a] = completed[a]
          /\ failed'[a] = failed[a] + Cardinality(RequestsOf(skipped, a))
      BY <1>0, <1>2, <2>5 DEF TypeOK
    <3>5. enqueued'[a] = enqueued[a] + (IF AgentOf[r] = a THEN 1 ELSE 0)
      BY <1>6
    <3> HIDE DEF none, all, left, gone
    <3>6. enqueued'[a] = completed[a] + failed[a] + (gone + left)
      BY <3>1, <3>2, <3>3, <3>4, <3>5
    <3> QED BY <3>2, <3>4, <3>6 DEF left, gone
  <2>11. LineInOrder'
    <3>1. Ordered(pending', ticket')
      BY <1>1, <2>4 DEF line, Passes
    <3>2. running' # None => running' \in inflight'
      BY <2>4 DEF Passes
    <3> QED BY <3>1, <3>2, <2>5, <2>6, <1>7 DEF LineInOrder
  <2> QED BY <2>4, <2>8, <2>9, <2>10, <2>11 DEF Inv, Passes
<1> QED BY <1>8, <1>9

\* enqueue with a priority that is not finite.
LEMMA EnqueueInvalidInv ==
  ASSUME Inv, NEW r \in Requests, EnqueueInvalid(r)
  PROVE  Inv'
<1>1. Open' = Open /\ Waiting' = Waiting
  BY DEF EnqueueInvalid, Open, Waiting, Inv, TypeOK
<1>2. promise' \in [Requests -> Answers \cup {"none", "open"}]
  BY DEF EnqueueInvalid, Inv, TypeOK, Answers
<1>3. TypeOK'
  BY <1>2 DEF EnqueueInvalid, Inv, TypeOK
<1>4. CountersBalance'
  BY <1>1 DEF EnqueueInvalid, Inv, CountersBalance
<1> QED BY <1>1, <1>3, <1>4 DEF EnqueueInvalid, Inv, ExclusiveModel, NoLostWakeup,
                              OpenIsOwned, LineInOrder

\* An abort, a timer and a step that changes nothing touch no open request.
LEMMA QuietInv ==
  ASSUME Inv,
         \/ \E r \in Requests : Abort(r)
         \/ TimerFires
         \/ UNCHANGED vars
  PROVE  Inv'
<1>1. /\ UNCHANGED <<pending, ticket, sequence, running, inflight, outcome,
                     promise, enqueued, completed, failed>>
      /\ timedOut' \in BOOLEAN
      /\ aborted' \subseteq Requests
  BY DEF Abort, TimerFires, vars, Inv, TypeOK
<1>2. Open' = Open /\ Waiting' = Waiting
  BY <1>1 DEF Open, Waiting
<1>3. CountersBalance'
  BY <1>1, <1>2 DEF Inv, CountersBalance
<1>4. LineInOrder'
  BY <1>1, <1>2 DEF Inv, LineInOrder
<1> QED BY <1>1, <1>2, <1>3, <1>4 DEF Inv, TypeOK, ExclusiveModel, NoLostWakeup,
                                    OpenIsOwned

\* The operation of r settles.
LEMMA OperationSettlesInv ==
  ASSUME Inv, NEW r \in Requests, NEW o \in {"value", "error"},
         OperationSettles(r, o)
  PROVE  Inv'
<1>1. Open' = Open /\ Waiting' = Waiting
  BY DEF OperationSettles, Open, Waiting
<1>2. /\ outcome' \in [Requests -> {"none", "value", "error"}]
      /\ \A q \in Requests : outcome'[q] # "none" \/ (q # r /\ outcome'[q] = outcome[q])
  BY DEF OperationSettles, Inv, TypeOK
<1>3. TypeOK' /\ ExclusiveModel'
  BY <1>2 DEF OperationSettles, Inv, TypeOK, ExclusiveModel
<1>4. CountersBalance'
  BY <1>1 DEF OperationSettles, Inv, CountersBalance
<1>5. LineInOrder'
  <2>1. /\ Ordered(pending, ticket)
        /\ \A q \in Open : ticket[q].seq < sequence
        /\ running # None /\ running \notin inflight => outcome[running] # "none"
        /\ running \in Requests \cup {None}
    BY DEF Inv, LineInOrder, TypeOK
  <2>2. /\ UNCHANGED <<pending, ticket, sequence, running>>
        /\ inflight' = inflight \ {r}
    BY DEF OperationSettles
  <2>3. Ordered(pending', ticket')
    BY <2>1, <2>2
  <2>4. running' # None /\ running' \notin inflight' => outcome'[running'] # "none"
    BY <2>1, <2>2, <1>2
  <2> QED BY <2>1, <2>2, <2>3, <2>4, <1>1 DEF LineInOrder
<1> QED BY <1>1, <1>3, <1>4, <1>5 DEF OperationSettles, Inv, NoLostWakeup, OpenIsOwned

\* processNext resumes.
LEMMA CompleteFacts ==
  ASSUME Inv, Complete
  PROVE  \E answer \in {"value", "error", "timeout"}, fails \in [Agents -> Nat] :
           /\ running \in Open
           /\ timedOut => answer = "timeout"
           /\ Elems(pending) = Open \ {running}
           /\ Passes(pending, [promise EXCEPT ![running] = answer], fails)
           /\ completed' \in [Agents -> Nat]
           /\ \A a \in Agents : completed'[a] + fails[a] = completed[a] + failed[a]
                                + (IF AgentOf[running] = a THEN 1 ELSE 0)
<1> DEFINE answer == IF timedOut THEN "timeout" ELSE outcome[running]
           b      == AgentOf[running]
           fails  == IF answer = "value" THEN failed
                     ELSE [failed EXCEPT ![b] = @ + 1]
           given  == [promise EXCEPT ![running] = answer]
<1>1. /\ running \in Requests /\ running \notin inflight /\ inflight \subseteq {running}
      /\ completed' = IF answer = "value" THEN [completed EXCEPT ![b] = @ + 1]
                                         ELSE completed
      /\ ProcessNext(pending, inflight, given, fails)
  BY DEF Complete, Inv, TypeOK, ExclusiveModel
<1>2. ProcessNext(pending, {}, given, fails)
  <2>1. inflight = {}
    BY <1>1
  <2> QED BY <1>1, <2>1
<1>3. answer \in {"value", "error", "timeout"} /\ (timedOut => answer = "timeout")
  <2>1. outcome[running] # "none"
    BY <1>1, NoneIsNoRequest DEF Inv, LineInOrder
  <2>2. outcome[running] \in {"none", "value", "error"} /\ timedOut \in BOOLEAN
    BY <1>1 DEF Inv, TypeOK
  <2> QED BY <2>1, <2>2
<1>4. /\ fails \in [Agents -> Nat]
      /\ completed' \in [Agents -> Nat]
      /\ \A a \in Agents : completed'[a] + fails[a] = completed[a] + failed[a]
                           + (IF b = a THEN 1 ELSE 0)
  <2>1. failed \in [Agents -> Nat] /\ completed \in [Agents -> Nat] /\ b \in Agents
    BY <1>1, AgentOfType DEF Inv, TypeOK
  <2> HIDE DEF b, answer
  <2> QED BY <2>1, <1>1
<1>5. running \in Open /\ Elems(pending) = Open \ {running} /\ Distinct(pending)
  BY <1>1, NoneIsNoRequest DEF Inv, OpenIsOwned, Waiting, Elems, Distinct
<1>6. /\ given \in [Requests -> Answers \cup {"none", "open"}]
      /\ {r \in Requests : given[r] = "open"} = Open \ {running}
  <2>1. promise \in [Requests -> Answers \cup {"none", "open"}]
    BY DEF Inv, TypeOK
  <2> HIDE DEF answer
  <2> QED BY <2>1, <1>1, <1>3 DEF Open, Answers
<1> HIDE DEF given, fails, answer
<1>7. Passes(pending, given, fails)
  BY <1>2, <1>4, <1>5, <1>6, ProcessNextFacts DEF Inv, TypeOK
<1> QED BY <1>3, <1>4, <1>5, <1>7 DEF given, b

LEMMA CompleteInv == ASSUME Inv, Complete PROVE Inv'
<1>1. PICK answer \in {"value", "error", "timeout"}, fails \in [Agents -> Nat] :
        /\ running \in Open
        /\ Elems(pending) = Open \ {running}
        /\ Passes(pending, [promise EXCEPT ![running] = answer], fails)
        /\ completed' \in [Agents -> Nat]
        /\ \A a \in Agents : completed'[a] + fails[a] = completed[a] + failed[a]
                             + (IF AgentOf[running] = a THEN 1 ELSE 0)
  BY CompleteFacts
<1>2. UNCHANGED <<ticket, sequence, outcome, aborted, enqueued>>
  BY DEF Complete
<1>3. PICK skipped \in SUBSET Elems(pending) :
        /\ Open' = Elems(pending) \ skipped
        /\ failed' = [a \in Agents |-> fails[a] + Cardinality(RequestsOf(skipped, a))]
  BY <1>1 DEF Passes
<1>4. Open \ {running} \in SUBSET Requests /\ running \in Requests
      /\ running \notin Open \ {running} /\ (Open \ {running}) \cup {running} = Open
  BY <1>1 DEF Open
<1>5. \A a \in Agents :
        /\ Cardinality(RequestsOf(skipped, a)) \in Nat
        /\ Cardinality(RequestsOf(Open', a)) \in Nat
        /\ Cardinality(RequestsOf(Open \ {running}, a)) =
             Cardinality(RequestsOf(skipped, a)) + Cardinality(RequestsOf(Open', a))
        /\ Cardinality(RequestsOf(Open, a)) =
             Cardinality(RequestsOf(Open \ {running}, a))
             + (IF AgentOf[running] = a THEN 1 ELSE 0)
  <2> TAKE a \in Agents
  <2>1. skipped \in SUBSET (Open \ {running}) /\ Open' = (Open \ {running}) \ skipped
    BY <1>1, <1>3
  <2>2. /\ Cardinality(RequestsOf(skipped, a)) \in Nat
        /\ Cardinality(RequestsOf(Open', a)) \in Nat
        /\ Cardinality(RequestsOf(Open \ {running}, a)) =
             Cardinality(RequestsOf(skipped, a)) + Cardinality(RequestsOf(Open', a))
    <3> DEFINE others == Open \ {running}
    <3>1. others \in SUBSET Requests /\ skipped \in SUBSET others /\ Open' = others \ skipped
      BY <2>1, <1>4
    <3> HIDE DEF others
    <3>2. /\ Cardinality(RequestsOf(skipped, a)) \in Nat
          /\ Cardinality(RequestsOf(others \ skipped, a)) \in Nat
          /\ Cardinality(RequestsOf(others, a)) =
               Cardinality(RequestsOf(skipped, a)) + Cardinality(RequestsOf(others \ skipped, a))
      BY <3>1, CountSplit
    <3> QED BY <3>1, <3>2 DEF others
  <2>3. Cardinality(RequestsOf((Open \ {running}) \cup {running}, a)) =
          Cardinality(RequestsOf(Open \ {running}, a))
          + (IF AgentOf[running] = a THEN 1 ELSE 0)
    BY <1>4, CountAdd
  <2> QED BY <2>2, <2>3, <1>4
<1>6. TypeOK'
  <2>1. failed' \in [Agents -> Nat]
    BY <1>3, <1>5
  <2> QED BY <2>1, <1>1, <1>2 DEF Inv, TypeOK, Passes
<1>7. ExclusiveModel' /\ NoLostWakeup' /\ OpenIsOwned'
  BY <1>1 DEF ExclusiveModel, Passes
<1>8. CountersBalance'
  <2> SUFFICES ASSUME NEW a \in Agents
               PROVE  enqueued'[a] = completed'[a] + failed'[a]
                                     + Cardinality(RequestsOf(Open', a))
    BY DEF CountersBalance
  <2> DEFINE before == Cardinality(RequestsOf(Open, a))
             others == Cardinality(RequestsOf(Open \ {running}, a))
             after  == Cardinality(RequestsOf(Open', a))
             gone   == Cardinality(RequestsOf(skipped, a))
             own    == IF AgentOf[running] = a THEN 1 ELSE 0
  <2>1. /\ gone \in Nat /\ after \in Nat /\ own \in Nat
        /\ others = gone + after /\ before = others + own
    BY <1>5
  <2>2. enqueued[a] = completed[a] + failed[a] + before /\ enqueued'[a] = enqueued[a]
    BY <1>2 DEF Inv, CountersBalance
  <2>3. completed'[a] + fails[a] = completed[a] + failed[a] + own
        /\ failed'[a] = fails[a] + gone
    BY <1>1, <1>3
  <2>4. /\ completed[a] \in Nat /\ failed[a] \in Nat /\ completed'[a] \in Nat
        /\ fails[a] \in Nat
    BY <1>1 DEF Inv, TypeOK
  <2> HIDE DEF before, others, after, gone, own
  <2>5. enqueued'[a] = completed'[a] + failed'[a] + after
    BY <2>1, <2>2, <2>3, <2>4
  <2> QED BY <2>5 DEF after
<1>9. LineInOrder'
  <2>1. Ordered(pending', ticket')
    <3>1. Ordered(pending, ticket')
      BY <1>2 DEF Inv, LineInOrder
    <3> QED BY <3>1, <1>1 DEF Passes
  <2>2. \A r \in Open' : ticket'[r].seq < sequence'
    BY <1>1, <1>2, <1>3 DEF Inv, LineInOrder
  <2>3. running' # None => running' \in inflight'
    BY <1>1 DEF Passes
  <2> QED BY <2>1, <2>2, <2>3 DEF LineInOrder
<1> QED BY <1>6, <1>7, <1>8, <1>9 DEF Inv

\* The invariant is inductive.
LEMMA NextInv == Inv /\ [Next]_vars => Inv'
<1> SUFFICES ASSUME Inv, [Next]_vars PROVE Inv'
  OBVIOUS
<1>1. ASSUME NEW r \in Requests, NEW p \in Priorities, Enqueue(r, p) PROVE Inv'
  BY <1>1, EnqueueInv
<1>2. ASSUME NEW r \in Requests, EnqueueInvalid(r) PROVE Inv'
  BY <1>2, EnqueueInvalidInv
<1>3. ASSUME NEW r \in Requests, Abort(r) PROVE Inv'
  BY <1>3, QuietInv
<1>4. ASSUME NEW r \in Requests, NEW o \in {"value", "error"}, OperationSettles(r, o)
      PROVE  Inv'
  BY <1>4, OperationSettlesInv
<1>5. CASE TimerFires
  BY <1>5, QuietInv
<1>6. CASE Complete
  BY <1>6, CompleteInv
<1>7. CASE UNCHANGED vars
  BY <1>7, QuietInv
<1> QED BY <1>1, <1>2, <1>3, <1>4, <1>5, <1>6, <1>7 DEF Next

\* Whatever was interleaved, the inductive invariant holds.
LEMMA Always == Spec => []Inv
  BY InitInv, NextInv, PTL DEF Spec

\* Requests, tickets, promises and counters keep their types.
THEOREM QueueTypes == Spec => []TypeOK
<1>1. Inv => TypeOK
  BY DEF Inv
<1> QED BY <1>1, Always, PTL

\* The model serves one request at a time, also after a time-out.
THEOREM ModelIsExclusive == Spec => []ExclusiveModel
<1>1. Inv => ExclusiveModel
  BY DEF Inv
<1> QED BY <1>1, Always, PTL

\* The model is never free while somebody waits for it.
THEOREM NobodyIsForgotten == Spec => []NoLostWakeup
<1>1. Inv => NoLostWakeup
  BY DEF Inv
<1> QED BY <1>1, Always, PTL

\* The requests of an agent are those answered, those failed and those that wait.
THEOREM CountersAddUp == Spec => []CountersBalance
<1>1. Inv => CountersBalance
  BY DEF Inv
<1> QED BY <1>1, Always, PTL

-----------------------------------------------------------------------------
\* What enqueue does when the model is free: the new request is the line.
LEMMA EnqueueIdle ==
  ASSUME Inv, NEW r \in Requests, NEW p \in Priorities, Enqueue(r, p), running = None
  PROVE  /\ \E line : /\ Elems(line) = {r}
                     /\ Ordered(line, ticket')
                     /\ Passes(line, [promise EXCEPT ![r] = "open"], failed)
         /\ r \notin inflight /\ Open = {}
<1>1. PICK k \in 1..(Len(pending) + 1) :
        /\ Ordered(InsertAt(pending, k, r), ticket')
        /\ ProcessNext(InsertAt(pending, k, r), inflight,
                       [promise EXCEPT ![r] = "open"], failed)
  BY DEF Enqueue
<1>2. /\ pending = <<>> /\ inflight = {} /\ Elems(pending) = {} /\ Open = {}
      /\ pending \in Seq(Requests) /\ Distinct(pending)
  BY NoneIsNoRequest DEF Inv, NoLostWakeup, ExclusiveModel, TypeOK, Elems, Distinct,
                         OpenIsOwned, Waiting
<1> DEFINE line == InsertAt(pending, k, r)
<1>3. line \in Seq(Requests) /\ Distinct(line) /\ Elems(line) = {r}
  <2>1. r \notin Elems(pending)
    BY <1>2
  <2>2. line \in Seq(Requests) /\ Distinct(line) /\ Elems(line) = Elems(pending) \cup {r}
    BY <2>1, <1>2, PushAndSort
  <2> QED BY <2>2, <1>2
<1>4. /\ [promise EXCEPT ![r] = "open"] \in [Requests -> Answers \cup {"none", "open"}]
      /\ {q \in Requests : [promise EXCEPT ![r] = "open"][q] = "open"} = Elems(line)
      /\ failed \in [Agents -> Nat]
  <2> HIDE DEF line
  <2> QED BY <1>2, <1>3 DEF Inv, TypeOK, Open
<1>5. ProcessNext(line, {}, [promise EXCEPT ![r] = "open"], failed)
  BY <1>1, <1>2
<1>6. Passes(line, [promise EXCEPT ![r] = "open"], failed)
  <2> HIDE DEF line
  <2> QED BY <1>3, <1>4, <1>5, ProcessNextFacts
<1> QED BY <1>1, <1>2, <1>3, <1>6

\* The request that is started outranks every request that stays open: the line
\* is served by priority and then by arrival, whatever the interleaving.
THEOREM PriorityService == Spec => ServesTheBest
<1> DEFINE Best == \A r \in Requests : (running' = r /\ running # r) =>
                     \A q \in Open' \ {r} : Outranks(ticket'[r], ticket'[q])
<1>1. ASSUME Inv, [Next]_vars PROVE Best
  <2> SUFFICES ASSUME NEW s \in Requests, running' = s, running # s,
                      NEW q \in Open' \ {s}
               PROVE  Outranks(ticket'[s], ticket'[q])
    OBVIOUS
  <2>1. s # None
    BY NoneIsNoRequest
  <2>2. ASSUME NEW r \in Requests, NEW p \in Priorities, Enqueue(r, p)
        PROVE  Outranks(ticket'[s], ticket'[q])
    <3>1. running = None
      BY <2>2 DEF Enqueue
    <3>2. PICK line : /\ Ordered(line, ticket')
                      /\ Passes(line, [promise EXCEPT ![r] = "open"], failed)
      BY <2>2, <3>1, <1>1, EnqueueIdle
    <3> QED BY <3>2, <2>1 DEF Passes
  <2>3. CASE Complete
    <3>1. PICK answer, fails : Passes(pending, [promise EXCEPT ![running] = answer], fails)
      BY <2>3, <1>1, CompleteFacts
    <3>2. Ordered(pending, ticket')
      BY <2>3, <1>1 DEF Inv, LineInOrder, Complete
    <3> QED BY <3>1, <3>2, <2>1 DEF Passes
  <2>4. ASSUME NEW r \in Requests,
               \/ EnqueueInvalid(r) \/ Abort(r) \/ TimerFires \/ UNCHANGED vars
               \/ \E o \in {"value", "error"} : OperationSettles(r, o)
        PROVE  FALSE
    BY <2>4 DEF EnqueueInvalid, Abort, TimerFires, OperationSettles, vars
  <2> QED BY <2>2, <2>3, <2>4, <1>1 DEF Next
<1>2. Spec => []Inv
  BY InitInv, NextInv, PTL DEF Spec
<1>3. Spec => [][Best]_vars
  BY <1>1, <1>2, PTL DEF Spec
<1> QED BY <1>3 DEF ServesTheBest

\* A caller that withdrew before its turn is never given the model.
THEOREM WithdrawnNeverStarts == Spec => AbortedNeverStarts
<1> DEFINE Kept == \A r \in aborted : r \in inflight' => r \in inflight
<1>1. ASSUME [Next]_vars PROVE Kept
  <2>1. ASSUME NEW line, NEW ops, NEW answers, NEW fails,
               ProcessNext(line, ops, answers, fails)
        PROVE  \A r \in aborted : r \in inflight' => r \in ops
    BY <2>1 DEF ProcessNext
  <2>2. ASSUME NEW r \in Requests, NEW p \in Priorities, Enqueue(r, p) PROVE Kept
    BY <2>1, <2>2 DEF Enqueue
  <2>3. CASE Complete
    BY <2>1, <2>3 DEF Complete
  <2>4. ASSUME NEW r \in Requests,
               \/ EnqueueInvalid(r) \/ Abort(r)
               \/ \E o \in {"value", "error"} : OperationSettles(r, o)
        PROVE  Kept
    BY <2>4 DEF EnqueueInvalid, Abort, OperationSettles
  <2>5. CASE TimerFires \/ UNCHANGED vars
    BY <2>5 DEF TimerFires, vars
  <2> QED BY <2>2, <2>3, <2>4, <2>5, <1>1 DEF Next
<1> QED BY <1>1, PTL DEF Spec, AbortedNeverStarts
-----------------------------------------------------------------------------
\* A pass of processNext hands the model over as the abstract service does.
LEMMA PassHandsOver ==
  ASSUME NEW line, NEW answers, NEW fails, Passes(line, answers, fails)
  PROVE  Service!HandTo(Elems(line), answers)
<1>1. PICK C \in SUBSET Elems(line) :
        /\ Open' = Elems(line) \ C
        /\ promise' = [r \in Requests |-> IF r \in C THEN "cancelled" ELSE answers[r]]
  BY DEF Passes
<1>2. /\ running' # None => running' \in Open'
      /\ running' = None => Open' = {}
  BY EmptySeq DEF Passes, NoLostWakeup, OpenIsOwned, Waiting
<1>3. (Elems(line) = C /\ running' = None) \/ running' \in Elems(line) \ C
  BY <1>1, <1>2
<1> QED BY <1>1, <1>3 DEF Service!HandTo

\* The queue implements SlmService: every step of it is a step of the service
\* or one the service does not see.
THEOREM QueueImplementsService == Spec => Service!SafeSpec
<1>1. Init => Service!Init
  BY DEF Init, Service!Init
<1>2. Inv /\ [Next]_vars => [Service!Next]_Service!vars
  <2> SUFFICES ASSUME Inv, [Next]_vars PROVE [Service!Next]_Service!vars
    OBVIOUS
  <2>1. ASSUME NEW r \in Requests, NEW p \in Priorities, Enqueue(r, p)
        PROVE  Service!Submit(r)
    <3>1. promise[r] = "none"
      BY <2>1 DEF Enqueue
    <3>2. CASE running = None
      <4>1. PICK line : /\ Elems(line) = {r}
                        /\ Passes(line, [promise EXCEPT ![r] = "open"], failed)
        BY <2>1, <3>2, EnqueueIdle
      <4>2. Service!HandTo({r}, [promise EXCEPT ![r] = "open"])
        BY <4>1, PassHandsOver
      <4> QED BY <3>1, <3>2, <4>2 DEF Service!Submit
    <3>3. CASE running # None
      BY <2>1, <3>1, <3>3 DEF Enqueue, Service!Submit
    <3> QED BY <3>2, <3>3
  <2>2. ASSUME NEW r \in Requests, EnqueueInvalid(r) PROVE Service!Refuse(r)
    BY <2>2 DEF EnqueueInvalid, Service!Refuse
  <2>3. ASSUME Complete PROVE Service!Release
    <3>1. PICK answer \in {"value", "error", "timeout"}, fails \in [Agents -> Nat] :
            /\ Elems(pending) = Open \ {running}
            /\ Passes(pending, [promise EXCEPT ![running] = answer], fails)
      BY <2>3, CompleteFacts
    <3>2. Service!HandTo(Open \ {running}, [promise EXCEPT ![running] = answer])
      BY <3>1, PassHandsOver
    <3>3. Service!Open = Open /\ running # None
      BY <2>3 DEF Open, Service!Open, Complete
    <3> QED BY <3>1, <3>2, <3>3 DEF Service!Release, Service!Served
  <2>4. ASSUME NEW r \in Requests,
               Abort(r) \/ (\E o \in {"value", "error"} : OperationSettles(r, o))
        PROVE  UNCHANGED Service!vars
    BY <2>4 DEF Abort, OperationSettles, Service!vars
  <2>5. CASE TimerFires \/ UNCHANGED vars
    BY <2>5 DEF TimerFires, vars, Service!vars
  <2> QED BY <2>1, <2>2, <2>3, <2>4, <2>5 DEF Next, Service!Next
<1>3. Spec => []Inv
  BY InitInv, NextInv, PTL DEF Spec
<1> QED BY <1>1, <1>2, <1>3, PTL DEF Spec, Service!SafeSpec
=============================================================================
