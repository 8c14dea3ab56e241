---------------------------- MODULE Journal_proofs ----------------------------
(***************************************************************************)
(* For any runs, watches, scripts, slots and bounds.  FreshListing: however*)
(* requests to RunStore overlap with each other and with what becomes of   *)
(* the log, a key of the cache that matches again is the key of the events *)
(* kept under it.  NothingIsSkipped: however the polls of a stream overlap *)
(* and connections end, the page has every event of its run that lies      *)
(* before the position it would resume from.  JournalTypes: what a load, a *)
(* poll or a frame holds is what its place in the code has computed.       *)
(***************************************************************************)
EXTENDS Journal, SequenceTheorems, TLAPS

\* What a request or the cache holds under a key: the key is not from the
\* future, and while it is the log's, the groups are the log.
Fresh(key, groups) ==
  /\ key[2] \in Int /\ key[2] <= mtime
  /\ key = CacheKey => groups = Visible

\* A request takes its key before it reads, so what it reads may be newer than
\* its key; the log cannot be that of the key again, for every write that
\* changes the events counts in mtime.
HoldsKey(load) ==
  "key" \in DOMAIN load /\ load.key[2] \in Int /\ load.key[2] <= mtime
HoldsGroups(load) ==
  {"key", "groups"} \subseteq DOMAIN load /\ Fresh(load.key, load.groups)

LoadOK(load) == /\ "pc" \in DOMAIN load
                /\ load.pc = "read" => HoldsKey(load)
                /\ load.pc = "keep" => HoldsGroups(load)

ListingInv ==
  /\ mtime \in Nat
  /\ writing => fragment # Nothing
  /\ Fresh(cache.key, cache.groups)
  /\ loads = [q \in LoadSlots |-> loads[q]]
  /\ \A q \in LoadSlots : LoadOK(loads[q])

\* The empty cache has a key no log has.
LEMMA NoCacheIsFresh == ASSUME mtime \in Nat PROVE Fresh(NoCache.key, NoCache.groups)
  BY DEF NoCache, Fresh, CacheKey

LEMMA ListingInit == Init => ListingInv
<1> SUFFICES ASSUME Init PROVE ListingInv
  OBVIOUS
<1>1. /\ mtime = 0 /\ ~writing /\ cache = NoCache
      /\ loads = [q \in LoadSlots |-> NoLoad]
  BY DEF Init
<1>2. LoadOK(NoLoad)
  BY DEF NoLoad, LoadOK
<1> QED BY <1>1, <1>2, NoCacheIsFresh DEF ListingInv

\* What was fresh stays so while the log and its time stay as they are.
LEMMA LogAlone ==
  ASSUME UNCHANGED <<Size, Visible, mtime>>
  PROVE  /\ \A key, groups : Fresh(key, groups) => Fresh(key, groups)'
         /\ \A load : LoadOK(load) => LoadOK(load)'
<1>1. UNCHANGED CacheKey
  BY DEF CacheKey
<1>2. \A key, groups : Fresh(key, groups) => Fresh(key, groups)'
  BY <1>1 DEF Fresh
<1> QED BY <1>2 DEF LoadOK, HoldsKey, HoldsGroups

LEMMA SameLog ==
  ASSUME UNCHANGED <<lines, fragment>>
  PROVE  UNCHANGED <<Size, Visible>>
  BY DEF Size, Visible, Between

\* A step that leaves the log, its time and the work on listings alone.
LEMMA ElsewhereKeeps ==
  ASSUME ListingInv, UNCHANGED <<lines, mtime, fragment, writing, cache, loads>>
  PROVE  ListingInv'
  BY SameLog, LogAlone DEF ListingInv

\* A write, whatever it does to the log, makes every key one of the past.
LEMMA WriteKeeps ==
  ASSUME ListingInv, mtime' = mtime + 1, writing' => fragment' # Nothing,
         UNCHANGED <<cache, loads>>
  PROVE  ListingInv'
<1>1. \A key, groups : Fresh(key, groups) => Fresh(key, groups)'
  BY DEF ListingInv, Fresh, CacheKey
<1>2. \A load : LoadOK(load) => LoadOK(load)'
  BY <1>1 DEF LoadOK, HoldsKey, HoldsGroups, ListingInv
<1> QED BY <1>1, <1>2 DEF ListingInv

LEMMA LogKeeps == ASSUME ListingInv, Log PROVE ListingInv'
<1>1. ASSUME NEW r, BeginAppend(r) PROVE ListingInv'
  <2>1. fragment' # Nothing
    <3>1. [id |-> begun', run |-> r, type |-> Script[watch][begun']] # Nothing
      <4>1. DOMAIN Nothing = {"id"}
        BY DEF Nothing
      <4>2. "run" \in DOMAIN [id |-> begun', run |-> r, type |-> Script[watch][begun']]
        OBVIOUS
      <4> QED BY <4>1, <4>2
    <3>2. Bad # Nothing
      BY DEF Bad, Nothing
    <3> QED BY <1>1, <3>1, <3>2 DEF BeginAppend
  <2> QED BY <1>1, <2>1, WriteKeeps DEF BeginAppend, storeVars
<1>2. CASE FinishAppend
  BY <1>2, WriteKeeps DEF FinishAppend, storeVars
<1>3. CASE RemoveLog
  BY <1>3, WriteKeeps DEF RemoveLog, storeVars
<1>4. CASE WriterCrash
  <2>1. UNCHANGED <<Size, Visible>>
    BY <1>4 DEF WriterCrash, ListingInv, Size, Visible, Between, Bad, Nothing
  <2>2. ~writing' /\ UNCHANGED <<mtime, cache, loads>>
    BY <1>4 DEF WriterCrash, storeVars
  <2> QED BY <2>1, <2>2, LogAlone DEF ListingInv
<1>5. ASSUME NEW r \in Runs \cup {NoRun}, Accept(r) PROVE ListingInv'
  BY <1>5, ElsewhereKeeps DEF Accept, storeVars
<1> QED BY <1>1, <1>2, <1>3, <1>4, <1>5 DEF Log, Write, AppendVerdict

\* One request goes on while the log stays as it is.
LEMMA LoadKeeps ==
  ASSUME ListingInv, NEW q \in LoadSlots, NEW load,
         UNCHANGED <<lines, mtime, fragment, writing>>,
         loads' = [loads EXCEPT ![q] = load],
         LoadOK(load), Fresh(cache'.key, cache'.groups)
  PROVE  ListingInv'
<1>1. \A p \in LoadSlots : loads'[p] = IF p = q THEN load ELSE loads[p]
  BY DEF ListingInv
<1>2. loads' = [p \in LoadSlots |-> loads'[p]]
  BY DEF ListingInv
<1>3. /\ \A key, groups : Fresh(key, groups) => Fresh(key, groups)'
      /\ \A l : LoadOK(l) => LoadOK(l)'
  BY SameLog, LogAlone
<1> QED BY <1>1, <1>2, <1>3 DEF ListingInv

LEMMA ListingLoad ==
  ASSUME ListingInv, NEW q \in LoadSlots, Load(q)
  PROVE  ListingInv'
<1>0. CASE UNCHANGED <<lines, mtime, fragment, writing>>
  <2>1. CASE AskList(q) \/ AskSummary(q)
    <3>1. \E of : loads' = [loads EXCEPT ![q] = [pc |-> "asked", of |-> of]]
      BY <2>1 DEF AskList, AskSummary
    <3>2. PICK of : loads' = [loads EXCEPT ![q] = [pc |-> "asked", of |-> of]]
      BY <3>1
    <3>3. UNCHANGED cache
      BY <2>1 DEF AskList, AskSummary
    <3>4. LoadOK([pc |-> "asked", of |-> of])
      BY DEF LoadOK
    <3> QED BY <1>0, <3>2, <3>3, <3>4, LoadKeeps DEF ListingInv
  <2>2. CASE StatLog(q)
    <3>1. Fresh(cache'.key, cache'.groups)
      BY <2>2, NoCacheIsFresh DEF StatLog, ListingInv
    <3>2. CASE Size = 0 \/ cache.key = CacheKey
      <4> DEFINE load == [pc |-> "answer", of |-> loads[q].of,
                          told |-> Respond(cache'.groups, loads[q].of)]
      <4>1. loads' = [loads EXCEPT ![q] = load]
        BY <2>2, <3>2 DEF StatLog
      <4>2. LoadOK(load)
        BY DEF LoadOK
      <4> HIDE DEF load
      <4> QED BY <1>0, <3>1, <4>1, <4>2, LoadKeeps
    <3>3. CASE ~(Size = 0 \/ cache.key = CacheKey)
      <4> DEFINE load == [pc |-> "read", of |-> loads[q].of, key |-> CacheKey]
      <4>1. loads' = [loads EXCEPT ![q] = load]
        BY <2>2, <3>3 DEF StatLog
      <4>2. LoadOK(load)
        BY DEF LoadOK, HoldsKey, CacheKey, ListingInv
      <4> HIDE DEF load
      <4> QED BY <1>0, <3>1, <4>1, <4>2, LoadKeeps
    <3> QED BY <3>2, <3>3
  <2>3. CASE ReadLog(q)
    <3> DEFINE load == [pc |-> "keep", of |-> loads[q].of, key |-> loads[q].key,
                        groups |-> Visible]
    <3>1. loads' = [loads EXCEPT ![q] = load] /\ loads[q].pc = "read" /\ UNCHANGED cache
      BY <2>3 DEF ReadLog
    <3>2. LoadOK(load)
      BY <3>1 DEF ListingInv, LoadOK, HoldsKey, HoldsGroups, Fresh
    <3> HIDE DEF load
    <3> QED BY <1>0, <3>1, <3>2, LoadKeeps DEF ListingInv
  <2>4. CASE KeepGroups(q)
    <3> DEFINE load == [pc |-> "answer", of |-> loads[q].of,
                        told |-> Respond(loads[q].groups, loads[q].of)]
    <3>1. loads' = [loads EXCEPT ![q] = load]
      BY <2>4 DEF KeepGroups
    <3>2. Fresh(cache'.key, cache'.groups)
      BY <2>4 DEF KeepGroups, ListingInv, LoadOK, HoldsGroups
    <3>3. LoadOK(load)
      BY DEF LoadOK
    <3> HIDE DEF load
    <3> QED BY <1>0, <3>1, <3>2, <3>3, LoadKeeps
  <2>5. CASE Answer(q)
    <3>1. loads' = [loads EXCEPT ![q] = NoLoad] /\ LoadOK(NoLoad) /\ UNCHANGED cache
      BY <2>5 DEF Answer, NoLoad, LoadOK
    <3> QED BY <1>0, <3>1, LoadKeeps DEF ListingInv
  <2> QED BY <2>1, <2>2, <2>3, <2>4, <2>5 DEF Load
<1>1. UNCHANGED <<lines, mtime, fragment, writing>>
  BY DEF Load, AskList, AskSummary, StatLog, ReadLog, KeepGroups, Answer, logVars
<1> QED BY <1>0, <1>1

\* A page that moves on drops what is asked for it, and no work of the store.
LEMMA ListingMove ==
  ASSUME ListingInv, NEW r \in Runs \cup {NoRun}, Move(r)
  PROVE  ListingInv'
<1>1. UNCHANGED <<lines, mtime, fragment, writing, cache>>
  BY DEF Move, logVars
<1>2. /\ \A key, groups : Fresh(key, groups) => Fresh(key, groups)'
      /\ \A l : LoadOK(l) => LoadOK(l)'
  BY <1>1, SameLog, LogAlone
<1>3. \A l : LoadOK(l) => LoadOK([l EXCEPT !.of = Nobody])
  <2> SUFFICES ASSUME NEW l, LoadOK(l) PROVE LoadOK([l EXCEPT !.of = Nobody])
    OBVIOUS
  <2> DEFINE k == [l EXCEPT !.of = Nobody]
  <2>1. DOMAIN k = DOMAIN l /\ \A f \in DOMAIN l : f # "of" => k[f] = l[f]
    OBVIOUS
  <2> HIDE DEF k
  <2>2. k.pc = l.pc /\ "pc" \in DOMAIN k
    BY <2>1 DEF LoadOK
  <2>3. HoldsKey(l) => HoldsKey(k)
    BY <2>1 DEF HoldsKey
  <2>4. HoldsGroups(l) => HoldsGroups(k)
    BY <2>1 DEF HoldsGroups
  <2>5. LoadOK(k)
    BY <2>2, <2>3, <2>4 DEF LoadOK
  <2> QED BY <2>5 DEF k
<1>4. loads' = [q \in LoadSlots |->
                  IF NoRun \in {r, page} /\ loads[q] # NoLoad
                  THEN [loads[q] EXCEPT !.of = Nobody] ELSE loads[q]]
  BY DEF Move
<1>5. \A q \in LoadSlots : LoadOK(loads'[q])
  BY <1>3, <1>4 DEF ListingInv
<1>6. loads' = [q \in LoadSlots |-> loads'[q]]
  BY <1>4
<1> QED BY <1>1, <1>2, <1>5, <1>6 DEF ListingInv

LEMMA ListingNext == ListingInv /\ [Next]_vars => ListingInv'
<1> SUFFICES ASSUME ListingInv, [Next]_vars PROVE ListingInv'
  OBVIOUS
<1>1. ASSUME NEW p \in PollSlots, Poll(p) PROVE ListingInv'
  BY <1>1, ElsewhereKeeps DEF Poll, StartPoll, CheckSize, ReadTail, Deliver, logVars, storeVars
<1>2. CASE Disconnect \/ Reconnect \/ ReceiveBatch \/ Pull
  BY <1>2, ElsewhereKeeps DEF Disconnect, Reconnect, ReceiveBatch, Pull, logVars, storeVars
<1>3. CASE UNCHANGED vars
  BY <1>3, ElsewhereKeeps DEF vars, logVars, storeVars
<1> QED BY <1>1, <1>2, <1>3, LogKeeps, ListingLoad, ListingMove DEF Next

\* RunStore never answers from the cache with an older log.
THEOREM ListingIsFresh == Spec => []FreshListing
<1>1. ListingInv => FreshListing
  BY DEF ListingInv, Fresh, FreshListing
<1> QED BY <1>1, ListingInit, ListingNext, PTL DEF Spec

------------------------------------------------------------------------------
\* The events of the page's run up to the n-th line, and a position all of whose
\* events are among S.
Due(n)     == OfRun(Between(0, n), page)
Safe(n, S) == n \in Nat /\ n <= Len(lines) /\ Due(n) \subseteq S

\* What the page has once the first k frames on their way arrive.
SentBy(R, w, k) == R \cup UNION {w[j].events : j \in 1..k}
Frames    == [events : SUBSET Event, next : Nat]

\* The log, the frames and the polls are well-formed; a connection that is down
\* has lost what was under way on it, and the list of runs has none.
PollShape(poll) ==
  /\ poll.pc = "tail" => poll.from \in Nat
  /\ poll.pc = "send" => poll.tail.events \subseteq Event /\ poll.tail.next \in Nat
ShapeInv ==
  /\ lines \in Seq(Event \cup {Bad}) /\ fragment \in Event \cup {Bad, Nothing}
  /\ writing => fragment # Nothing
  /\ begun \in Nat /\ watch \in Watches /\ verdict \in Runs \cup {Nobody}
  /\ offset \in Nat /\ lastId \in Nat
  /\ wire \in Seq(Frames)
  /\ polls = [p \in PollSlots |-> polls[p]]
  /\ \A p \in PollSlots : PollShape(polls[p])
  /\ ~up => wire = <<>> /\ \A p \in PollSlots : polls[p] = IdlePoll
  /\ page \in Runs \cup {NoRun}
  /\ page = NoRun => ~up /\ lastId = 0

\* Polls may finish in any order and move the offset back, yet none is about to
\* read, to send or to let the page resume from a position some event before
\* which is neither received nor on its way.
PollOK(poll, S) ==
  /\ poll.pc = "tail" => Safe(poll.from, S)
  /\ poll.pc = "send" => Safe(poll.tail.next, S \cup OfRun(poll.tail.events, page))
\* R is what the page has, id the id it has seen, w, u and o the wire, the
\* connection and its offset, P the polls.
Kept(R, id, w, u, o, P) ==
  /\ Safe(id, R)
  /\ \A k \in 1..Len(w) : Safe(w[k].next, SentBy(R, w, k))
  /\ u => Safe(o, SentBy(R, w, Len(w)))
  /\ \A p \in PollSlots : PollOK(P[p], SentBy(R, w, Len(w)))
StreamInv == Kept(received, lastId, wire, up, offset, polls)

LEMMA BadIsNoEvent == Bad \notin Event /\ Nothing \notin Event /\ Bad # Nothing
<1>1. \A e \in Event : e.id \in Nat \ {0}
  BY DEF Event
<1> QED BY <1>1 DEF Bad, Nothing

LEMMA BetweenTypes ==
  ASSUME ShapeInv, NEW m \in Nat, NEW n \in Nat PROVE Between(m, n) \subseteq Event
<1>1. \A i \in (m + 1)..Least(n, Len(lines)) : i \in 1..Len(lines)
  BY DEF Least, ShapeInv
<1>2. \A i \in 1..Len(lines) : lines[i] \in Event \cup {Bad}
  BY DEF ShapeInv
<1> QED BY <1>1, <1>2 DEF Between

LEMMA TailTypes ==
  ASSUME ShapeInv, NEW n \in Nat
  PROVE  TailEvents(n).events \subseteq Event /\ TailEvents(n).next \in Nat
<1> DEFINE start == IF Size = 0 THEN n ELSE Least(n, Len(lines))
           next  == IF Size = 0 THEN n ELSE Least(start + Batch, Len(lines))
<1>1. start \in Nat /\ next \in Nat
  BY JournalAssumption DEF Least, ShapeInv
<1>2. TailEvents(n).events = Between(start, next) /\ TailEvents(n).next = next
  BY DEF TailEvents
<1> HIDE DEF start, next
<1> QED BY <1>1, <1>2, BetweenTypes

\* A batch begins where the position ends.
LEMMA TailExtends ==
  ASSUME ShapeInv, NEW n, NEW S, Safe(n, S)
  PROVE  Safe(TailEvents(n).next, S \cup OfRun(TailEvents(n).events, page))
<1> DEFINE next == Least(n + Batch, Len(lines))
<1>1. n \in Nat /\ n <= Len(lines) /\ Len(lines) \in Nat /\ Batch \in Nat
  BY JournalAssumption DEF Safe, ShapeInv
<1>2. Least(n, Len(lines)) = n
  BY <1>1 DEF Least
<1>7. Size = 0 => next = n
  BY <1>1 DEF Least, Size
<1>3. TailEvents(n).events = Between(n, next) /\ TailEvents(n).next = next
  BY <1>2, <1>7 DEF TailEvents
<1>4. next \in Nat /\ next <= Len(lines)
  BY <1>1 DEF Least
<1>5. Between(0, next) \subseteq Between(0, n) \cup Between(n, next)
  <2>1. \A i \in 1..Least(next, Len(lines)) :
          i \in 1..Least(n, Len(lines)) \/ i \in (n + 1)..Least(next, Len(lines))
    BY <1>1, <1>2, <1>4 DEF Least
  <2> QED BY <2>1, <1>1 DEF Between
<1> HIDE DEF next
<1>6. Due(next) \subseteq Due(n) \cup OfRun(Between(n, next), page)
  BY <1>5 DEF Due, OfRun
<1> QED BY <1>3, <1>4, <1>6 DEF Safe

\* The log grows behind every position.
LEMMA GrowKeeps ==
  ASSUME ShapeInv, NEW x \in Event \cup {Bad}, lines' = Append(lines, x), page' = page,
         NEW n, NEW S, Safe(n, S)
  PROVE  Safe(n, S)'
<1>1. /\ Len(lines') = Len(lines) + 1 /\ Len(lines) \in Nat
      /\ \A i \in 1..Len(lines) : lines'[i] = lines[i]
  BY DEF ShapeInv
<1>2. n \in Nat /\ n <= Len(lines)
  BY DEF Safe
<1>3. Least(n, Len(lines)) = n /\ Least(n, Len(lines')) = n
  BY <1>1, <1>2 DEF Least
<1>4. Between(0, n)' = Between(0, n)
  BY <1>1, <1>2, <1>3 DEF Between
<1> QED BY <1>1, <1>2, <1>4 DEF Safe, Due, OfRun

LEMMA SafeSame ==
  ASSUME UNCHANGED <<lines, page>>, NEW n, NEW S PROVE Safe(n, S)' <=> Safe(n, S)
  BY DEF Safe, Due, OfRun, Between

LEMMA SafeMore ==
  ASSUME NEW n, NEW S, NEW T, Safe(n, S), S \subseteq T PROVE Safe(n, T)
  BY DEF Safe

\* Nothing lies before the first line.
LEMMA SafeStart == ASSUME NEW S, Len(lines) \in Nat PROVE Safe(0, S)
<1>1. Least(0, Len(lines)) = 0
  BY DEF Least
<1> QED BY <1>1 DEF Safe, Due, OfRun, Between

------------------------------------------------------------------------------
LEMMA ShapeInit == Init => ShapeInv
<1> SUFFICES ASSUME Init PROVE ShapeInv
  OBVIOUS
<1>1. \A p \in PollSlots : PollShape(IdlePoll)
  BY DEF PollShape, IdlePoll
<1> QED BY <1>1 DEF Init, ShapeInv, Frames

\* A step that leaves the stream and the page alone.
LEMMA ShapeLog ==
  ASSUME ShapeInv, UNCHANGED <<streamVars, pageVars>>,
         lines' \in Seq(Event \cup {Bad}), fragment' \in Event \cup {Bad, Nothing},
         writing' => fragment' # Nothing, begun' \in Nat,
         verdict' \in Runs \cup {Nobody}
  PROVE  ShapeInv'
<1>1. UNCHANGED <<watch, offset, lastId, wire, polls, up, page>>
  BY DEF streamVars, pageVars
<1> QED BY <1>1 DEF ShapeInv, PollShape

LEMMA ShapeBegin ==
  ASSUME ShapeInv, NEW r \in Runs, BeginAppend(r), verdict' \in Runs \cup {Nobody}
  PROVE  ShapeInv'
<1>1. /\ begun' = begun + 1 /\ begun < Len(Script[watch])
      /\ UNCHANGED <<lines, streamVars, pageVars>>
  BY DEF BeginAppend
<1>2. Script[watch] \in Seq(STRING) /\ begun \in Nat
  BY JournalAssumption DEF ShapeInv
<1>3. begun' \in Nat \ {0} /\ begun' \in 1..Len(Script[watch])
  BY <1>1, <1>2
<1>4. Script[watch][begun'] \in STRING
  BY <1>2, <1>3
<1>5. [id |-> begun', run |-> r, type |-> Script[watch][begun']] \in Event
  BY <1>3, <1>4 DEF Event
<1>6. fragment' \in Event \cup {Bad}
  BY <1>5 DEF BeginAppend
<1> QED BY <1>1, <1>3, <1>6, BadIsNoEvent, ShapeLog DEF ShapeInv

LEMMA ShapeLogNext == ASSUME ShapeInv, Log PROVE ShapeInv'
<1>1. ASSUME NEW r \in Runs, Write(r) PROVE ShapeInv'
  BY <1>1, ShapeBegin DEF Write, ShapeInv
<1>2. ASSUME NEW r \in Runs \cup {NoRun}, Accept(r) PROVE ShapeInv'
  <2>1. ASSUME lines # <<>> PROVE lines[Len(lines)].run \in Runs
    <3>1. Len(lines) \in 1..Len(lines)
      BY <2>1 DEF ShapeInv
    <3>2. lines[Len(lines)] \in Event
      BY <1>2, <3>1 DEF Accept, ReadsAll, ShapeInv
    <3> QED BY <3>2 DEF Event
  <2>2. verdict' \in Runs
    BY <1>2, <2>1, JournalAssumption DEF Accept
  <2>3. UNCHANGED <<lines, fragment, writing, begun, streamVars, pageVars>>
    BY <1>2 DEF Accept
  <2> QED BY <2>2, <2>3, ShapeLog DEF ShapeInv
<1>6. CASE AppendVerdict
  <2>1. verdict \in Runs /\ BeginAppend(verdict) /\ verdict' = Nobody
    BY <1>6 DEF AppendVerdict, ShapeInv
  <2> QED BY <2>1, ShapeBegin
<1>3. CASE FinishAppend
  <2>1. /\ lines' = Append(lines, fragment) /\ fragment' = Nothing /\ ~writing'
        /\ begun' = begun /\ writing /\ UNCHANGED <<verdict, streamVars, pageVars>>
    BY <1>3 DEF FinishAppend
  <2>2. fragment \in Event \cup {Bad}
    BY <2>1 DEF ShapeInv
  <2>3. lines' \in Seq(Event \cup {Bad})
    BY <2>1, <2>2, AppendProperties DEF ShapeInv
  <2> QED BY <2>1, <2>3, ShapeLog DEF ShapeInv
<1>4. CASE WriterCrash
  BY <1>4, BadIsNoEvent, ShapeLog DEF WriterCrash, ShapeInv
<1>5. CASE RemoveLog
  BY <1>5, ShapeLog DEF RemoveLog, ShapeInv
<1> QED BY <1>1, <1>2, <1>3, <1>4, <1>5, <1>6 DEF Log

\* One poll goes on.
LEMMA ShapePoll ==
  ASSUME ShapeInv, NEW p \in PollSlots, NEW poll, PollShape(poll), up,
         polls' = [polls EXCEPT ![p] = poll],
         offset' \in Nat, wire' \in Seq(Frames),
         UNCHANGED <<logVars, up, pageVars>>
  PROVE  ShapeInv'
<1>1. UNCHANGED <<lines, fragment, writing, begun, verdict, watch, lastId, up, page>>
  BY DEF logVars, pageVars
<1>2. \A q \in PollSlots : polls'[q] = IF q = p THEN poll ELSE polls[q]
  BY DEF ShapeInv
<1>3. polls' = [q \in PollSlots |-> polls'[q]]
  BY DEF ShapeInv
<1>4. \A q \in PollSlots : PollShape(polls'[q])
  BY <1>2 DEF ShapeInv
<1> QED BY <1>1, <1>3, <1>4 DEF ShapeInv, PollShape

\* A poll under way is one of a connection that is up.
LEMMA BusyIsUp ==
  ASSUME ShapeInv, NEW p \in PollSlots, polls[p].pc # "idle" PROVE up
  BY DEF ShapeInv, IdlePoll

LEMMA ShapePollNext ==
  ASSUME ShapeInv, NEW p \in PollSlots, Poll(p) PROVE ShapeInv'
<1>1. CASE StartPoll(p)
  <2>1. PollShape([pc |-> "stat", size |-> Size])
    BY DEF PollShape
  <2>2. /\ up /\ polls' = [polls EXCEPT ![p] = [pc |-> "stat", size |-> Size]]
        /\ UNCHANGED <<logVars, offset, up, wire, pageVars>>
    BY <1>1 DEF StartPoll
  <2> HIDE DEF PollShape
  <2> QED BY <2>1, <2>2, ShapePoll DEF ShapeInv
<1>2. CASE CheckSize(p)
  <2> DEFINE poll == IF polls[p].size <= 2 * offset THEN IdlePoll
                     ELSE [pc |-> "tail", from |-> offset]
  <2>1. PollShape(poll)
    BY DEF PollShape, IdlePoll, ShapeInv
  <2>2. /\ polls[p].pc = "stat" /\ polls' = [polls EXCEPT ![p] = poll]
        /\ UNCHANGED <<logVars, offset, up, wire, pageVars>>
    BY <1>2 DEF CheckSize
  <2>3. up
    BY <2>2, BusyIsUp
  <2> HIDE DEF poll
  <2> QED BY <2>1, <2>2, <2>3, ShapePoll DEF ShapeInv
<1>3. CASE ReadTail(p)
  <2> DEFINE tail == TailEvents(polls[p].from)
             poll == [pc |-> "send", tail |-> tail]
  <2>1. /\ polls[p].pc = "tail" /\ polls' = [polls EXCEPT ![p] = poll]
        /\ UNCHANGED <<logVars, offset, up, wire, pageVars>>
    BY <1>3 DEF ReadTail
  <2>2. polls[p].from \in Nat
    BY <2>1 DEF ShapeInv, PollShape
  <2>3. tail.events \subseteq Event /\ tail.next \in Nat
    BY <2>2, TailTypes
  <2>4. up
    BY <2>1, BusyIsUp
  <2> HIDE DEF tail
  <2>5. PollShape(poll)
    BY <2>3 DEF PollShape
  <2> HIDE DEF poll
  <2> QED BY <2>1, <2>4, <2>5, ShapePoll DEF ShapeInv
<1>4. CASE Deliver(p)
  <2> DEFINE tail  == polls[p].tail
             frame == [events |-> OfRun(tail.events, page), next |-> tail.next]
  <2>1. /\ polls[p].pc = "send" /\ polls' = [polls EXCEPT ![p] = IdlePoll]
        /\ offset' \in {tail.next, offset} /\ wire' \in {wire, Append(wire, frame)}
        /\ UNCHANGED <<logVars, up, pageVars>>
    BY <1>4 DEF Deliver
  <2>2. tail.events \subseteq Event /\ tail.next \in Nat
    BY <2>1 DEF ShapeInv, PollShape
  <2>3. frame \in Frames
    BY <2>2 DEF Frames, OfRun
  <2>4. up
    BY <2>1, BusyIsUp
  <2>5. PollShape(IdlePoll)
    BY DEF PollShape, IdlePoll
  <2> HIDE DEF tail, frame
  <2>6. wire \in Seq(Frames) /\ offset \in Nat
    BY DEF ShapeInv
  <2>7. Append(wire, frame) \in Seq(Frames)
    BY <2>3, <2>6, AppendProperties
  <2>8. wire' \in Seq(Frames) /\ offset' \in Nat
    BY <2>1, <2>2, <2>6, <2>7
  <2> QED BY <2>1, <2>4, <2>5, <2>8, ShapePoll
<1> QED BY <1>1, <1>2, <1>3, <1>4 DEF Poll

\* A connection that ends, whoever ends it, leaves nothing under way.
LEMMA ShapeDown ==
  ASSUME ShapeInv, UNCHANGED <<logVars, watch>>, ~up', wire' = <<>>, offset' \in Nat,
         polls' = [p \in PollSlots |-> IdlePoll], lastId' \in Nat,
         page' \in Runs \cup {NoRun}, page' = NoRun => lastId' = 0
  PROVE  ShapeInv'
<1>1. PollShape(IdlePoll)
  BY DEF PollShape, IdlePoll
<1>2. \A p \in PollSlots : PollShape(polls'[p]) /\ polls'[p] = IdlePoll
  BY <1>1
<1>3. UNCHANGED <<lines, fragment, writing, begun, verdict>>
  BY DEF logVars
<1> HIDE DEF PollShape
<1>4. polls' = [p \in PollSlots |-> polls'[p]] /\ wire' \in Seq(Frames)
  BY <1>2
<1> QED BY <1>2, <1>3, <1>4 DEF ShapeInv, PollShape

LEMMA ShapeNext == ShapeInv /\ [Next]_vars => ShapeInv'
<1> SUFFICES ASSUME ShapeInv, [Next]_vars PROVE ShapeInv'
  OBVIOUS
<1>1. CASE Disconnect
  BY <1>1, ShapeDown DEF Disconnect, pageVars, ShapeInv
<1>2. ASSUME NEW r \in Runs \cup {NoRun}, Move(r) PROVE ShapeInv'
  BY <1>2, ShapeDown DEF Move
<1>3. CASE Reconnect
  <2>1. /\ ~up /\ up' /\ page # NoRun /\ offset' \in Nat
        /\ UNCHANGED <<logVars, polls, wire, pageVars>>
    BY <1>3 DEF Reconnect, ResumeOffset, ShapeInv
  <2> QED BY <2>1 DEF ShapeInv, PollShape, logVars, pageVars
<1>4. CASE ReceiveBatch
  <2>1. /\ wire # <<>> /\ wire' = Tail(wire) /\ lastId' = Head(wire).next
        /\ UNCHANGED <<logVars, polls, offset, up, watch, page>>
    BY <1>4 DEF ReceiveBatch
  <2>2. Head(wire) \in Frames /\ wire' \in Seq(Frames)
    BY <2>1, HeadTailProperties DEF ShapeInv
  <2>3. lastId' \in Nat /\ up
    BY <2>1, <2>2 DEF Frames, ShapeInv
  <2> QED BY <2>1, <2>2, <2>3 DEF ShapeInv, PollShape, logVars
<1>5. CASE Pull
  <2>1. /\ page # NoRun /\ lastId' = TailEvents(lastId).next
        /\ UNCHANGED <<logVars, streamVars, watch, page>>
    BY <1>5 DEF Pull
  <2>2. lastId' \in Nat
    BY <2>1, TailTypes DEF ShapeInv
  <2> QED BY <2>1, <2>2 DEF ShapeInv, PollShape, logVars, streamVars
<1>6. ASSUME NEW q \in LoadSlots, Load(q) PROVE ShapeInv'
  <2>1. UNCHANGED <<logVars, streamVars, watch, page, lastId>>
    BY <1>6 DEF Load, AskList, AskSummary, StatLog, ReadLog, KeepGroups, Answer, pageVars
  <2> QED BY <2>1 DEF ShapeInv, PollShape, logVars, streamVars
<1>7. CASE UNCHANGED vars
  BY <1>7 DEF vars, ShapeInv, PollShape, logVars, streamVars, pageVars
<1> QED BY <1>1, <1>2, <1>3, <1>4, <1>5, <1>6, <1>7, ShapeLogNext, ShapePollNext DEF Next

------------------------------------------------------------------------------
\* Positions stay safe while the log and the page stay, and while the log grows.
LEMMA KeptOn ==
  ASSUME \A n, S : Safe(n, S) => Safe(n, S)', page' = page,
         NEW R, NEW id, NEW w, NEW u, NEW o, NEW P, Kept(R, id, w, u, o, P)
  PROVE  Kept(R, id, w, u, o, P)'
<1>1. \A poll, S : PollOK(poll, S) => PollOK(poll, S)'
  BY DEF PollOK, OfRun
<1> HIDE DEF PollOK
<1> QED BY <1>1 DEF Kept, SentBy

\* A step that keeps every position safe and has the stream do what stays safe.
LEMMA StreamFrom ==
  ASSUME \A n, S : Safe(n, S) => Safe(n, S)', page' = page,
         Kept(received', lastId', wire', up', offset', polls')
  PROVE  StreamInv'
<1>1. \A R, id, w, u, o, P : Kept(R, id, w, u, o, P) => Kept(R, id, w, u, o, P)'
  BY KeptOn
<1> QED BY <1>1 DEF StreamInv

LEMMA StreamInit == ASSUME Init PROVE StreamInv
<1>1. /\ lines = <<>> /\ lastId = 0 /\ wire = <<>> /\ ~up
      /\ polls = [p \in PollSlots |-> IdlePoll]
  BY DEF Init
<1>2. Len(lines) \in Nat /\ Len(wire) = 0
  BY <1>1
<1>3. \A S : PollOK(IdlePoll, S)
  BY DEF PollOK, IdlePoll
<1> HIDE DEF PollOK
<1> QED BY <1>1, <1>2, <1>3, SafeStart DEF StreamInv, Kept

\* A connection that ends takes with it what was not received.
LEMMA KeptDown ==
  ASSUME NEW R, NEW id, NEW w, NEW u, NEW o, NEW P, Safe(id, R), ~u, w = <<>>,
         \A p \in PollSlots : P[p] = IdlePoll
  PROVE  Kept(R, id, w, u, o, P)
<1>1. \A S : PollOK(IdlePoll, S)
  BY DEF PollOK, IdlePoll
<1>2. Len(w) = 0
  OBVIOUS
<1> HIDE DEF PollOK
<1> QED BY <1>1, <1>2 DEF Kept

\* The page moves on, or the log goes away under the list of runs, which has no
\* stream: it starts at the first line.
LEMMA StreamRestart ==
  ASSUME ~up', wire' = <<>>, \A p \in PollSlots : polls'[p] = IdlePoll,
         lastId' = 0, Len(lines') \in Nat
  PROVE  StreamInv'
<1>1. \A S : Safe(0, S)'
  BY DEF Safe, Due, OfRun, Between, Least
<1>2. \A S : PollOK(IdlePoll, S)'
  BY DEF PollOK, IdlePoll
<1>3. Len(wire') = 0
  OBVIOUS
<1> HIDE DEF PollOK
<1> QED BY <1>1, <1>2, <1>3 DEF StreamInv, Kept

\* One poll goes on, and the offset and the wire stay as they are.
LEMMA StreamPoll ==
  ASSUME ShapeInv, StreamInv, NEW p \in PollSlots, NEW poll,
         PollOK(poll, SentBy(received, wire, Len(wire))),
         polls' = [polls EXCEPT ![p] = poll],
         UNCHANGED <<lines, offset, up, wire, page, lastId, received>>
  PROVE  StreamInv'
<1>1. \A n, S : Safe(n, S) => Safe(n, S)'
  BY SafeSame
<1>2. \A q \in PollSlots : polls'[q] = IF q = p THEN poll ELSE polls[q]
  BY DEF ShapeInv
<1>3. Kept(received, lastId, wire, up, offset, polls')
  BY <1>2 DEF StreamInv, Kept
<1> QED BY <1>1, <1>3, StreamFrom

LEMMA StreamStart ==
  ASSUME ShapeInv, StreamInv, NEW p \in PollSlots, StartPoll(p) PROVE StreamInv'
<1> DEFINE poll == [pc |-> "stat", size |-> Size]
<1>1. /\ polls' = [polls EXCEPT ![p] = poll]
      /\ UNCHANGED <<lines, offset, up, wire, page, lastId, received>>
  BY DEF StartPoll, logVars, pageVars
<1>2. \A S : PollOK(poll, S)
  BY DEF PollOK
<1> HIDE DEF poll
<1> QED BY <1>1, <1>2, StreamPoll

LEMMA StreamCheck ==
  ASSUME ShapeInv, StreamInv, NEW p \in PollSlots, CheckSize(p) PROVE StreamInv'
<1> DEFINE poll == IF polls[p].size <= 2 * offset THEN IdlePoll
                   ELSE [pc |-> "tail", from |-> offset]
<1>1. /\ polls[p].pc = "stat" /\ polls' = [polls EXCEPT ![p] = poll]
      /\ UNCHANGED <<lines, offset, up, wire, page, lastId, received>>
  BY DEF CheckSize, logVars, pageVars
<1>2. up
  BY <1>1, BusyIsUp
<1>3. Safe(offset, SentBy(received, wire, Len(wire)))
  BY <1>2 DEF StreamInv, Kept
<1>4. PollOK(poll, SentBy(received, wire, Len(wire)))
  BY <1>3 DEF PollOK, IdlePoll
<1> HIDE DEF poll
<1> QED BY <1>1, <1>4, StreamPoll

LEMMA StreamRead ==
  ASSUME ShapeInv, StreamInv, NEW p \in PollSlots, ReadTail(p) PROVE StreamInv'
<1> DEFINE tail == TailEvents(polls[p].from)
           poll == [pc |-> "send", tail |-> tail]
<1>1. /\ polls[p].pc = "tail" /\ polls' = [polls EXCEPT ![p] = poll]
      /\ UNCHANGED <<lines, offset, up, wire, page, lastId, received>>
  BY DEF ReadTail, logVars, pageVars
<1>2. Safe(polls[p].from, SentBy(received, wire, Len(wire)))
  BY <1>1 DEF StreamInv, Kept, PollOK
<1>3. Safe(tail.next, SentBy(received, wire, Len(wire)) \cup OfRun(tail.events, page))
  BY <1>2, TailExtends
<1> HIDE DEF tail
<1>4. PollOK(poll, SentBy(received, wire, Len(wire)))
  BY <1>3 DEF PollOK
<1> HIDE DEF poll
<1> QED BY <1>1, <1>4, StreamPoll

\* What arrives behind the others: they bring what they did, and it its events.
LEMMA SentAppend ==
  ASSUME NEW R, NEW w \in Seq(Frames), NEW f \in Frames
  PROVE  LET v == Append(w, f) IN
         /\ Len(v) = Len(w) + 1 /\ v[Len(v)] = f
         /\ \A k \in 1..Len(w) : v[k] = w[k]
         /\ \A k \in 0..Len(w) : SentBy(R, v, k) = SentBy(R, w, k)
         /\ SentBy(R, v, Len(v)) = SentBy(R, w, Len(w)) \cup f.events
<1> DEFINE v == Append(w, f)
<1>1. /\ Len(v) = Len(w) + 1 /\ Len(w) \in Nat
      /\ \A k \in 1..Len(w) : v[k] = w[k]
      /\ v[Len(w) + 1] = f
  BY AppendProperties
<1> HIDE DEF v
<1>2. \A k \in 0..Len(w) : SentBy(R, v, k) = SentBy(R, w, k)
  BY <1>1 DEF SentBy
<1>3. 1..Len(v) = 1..Len(w) \cup {Len(w) + 1} /\ Len(w) \in 0..Len(w)
  BY <1>1
<1>4. SentBy(R, v, Len(v)) = SentBy(R, v, Len(w)) \cup f.events
  BY <1>1, <1>3 DEF SentBy
<1>5. SentBy(R, v, Len(v)) = SentBy(R, w, Len(w)) \cup f.events
  BY <1>2, <1>3, <1>4
<1> QED BY <1>1, <1>2, <1>5 DEF v

LEMMA PollMore ==
  ASSUME NEW poll, NEW S, NEW T, PollOK(poll, S), S \subseteq T PROVE PollOK(poll, T)
<1>1. \A n, U : Safe(n, S \cup U) => Safe(n, T \cup U)
  BY DEF Safe
<1> QED BY <1>1, SafeMore DEF PollOK

\* A frame goes behind the others: what lies before its position is among what
\* they and it bring.
LEMMA KeptAppend ==
  ASSUME NEW R, NEW id, NEW w \in Seq(Frames), NEW u, NEW o, NEW P, u,
         Kept(R, id, w, u, o, P), NEW f \in Frames,
         Safe(f.next, SentBy(R, w, Len(w)) \cup f.events)
  PROVE  Kept(R, id, Append(w, f), u, f.next, P)
<1> DEFINE v    == Append(w, f)
           sent == SentBy(R, w, Len(w))
           more == SentBy(R, v, Len(v))
<1>1. /\ Len(v) = Len(w) + 1 /\ v[Len(v)] = f
      /\ \A k \in 1..Len(w) : v[k] = w[k]
      /\ \A k \in 0..Len(w) : SentBy(R, v, k) = SentBy(R, w, k)
      /\ more = sent \cup f.events
  BY SentAppend
<1>2. Len(w) \in Nat
  OBVIOUS
<1> HIDE DEF v
<1>3. \A k \in 1..Len(v) : Safe(v[k].next, SentBy(R, v, k))
  <2> SUFFICES ASSUME NEW k \in 1..Len(v) PROVE Safe(v[k].next, SentBy(R, v, k))
    OBVIOUS
  <2>1. CASE k \in 1..Len(w)
    <3>1. v[k] = w[k] /\ SentBy(R, v, k) = SentBy(R, w, k)
      BY <1>1, <1>2, <2>1
    <3> QED BY <2>1, <3>1 DEF Kept
  <2>2. CASE k = Len(v)
    BY <1>1, <2>2
  <2> QED BY <1>1, <1>2, <2>1, <2>2
<1> HIDE DEF sent, more
<1>4. \A p \in PollSlots : PollOK(P[p], more)
  <2>1. \A p \in PollSlots : PollOK(P[p], sent)
    BY DEF Kept, sent
  <2> QED BY <1>1, <2>1, PollMore
<1>5. Safe(id, R)
  BY DEF Kept
<1>6. Safe(f.next, more)
  BY <1>1 DEF sent
<1>7. Kept(R, id, v, u, f.next, P)
  BY <1>3, <1>4, <1>5, <1>6 DEF Kept, more
<1> QED BY <1>7 DEF v

LEMMA StreamDeliver ==
  ASSUME ShapeInv, StreamInv, NEW p \in PollSlots, Deliver(p) PROVE StreamInv'
<1> DEFINE tail  == polls[p].tail
           frame == [events |-> OfRun(tail.events, page), next |-> tail.next]
           sent  == SentBy(received, wire, Len(wire))
<1>1. /\ polls[p].pc = "send" /\ polls' = [polls EXCEPT ![p] = IdlePoll]
      /\ offset' \in {tail.next, offset}
      /\ OfRun(tail.events, page) # {} => offset' = tail.next
      /\ wire' = IF OfRun(tail.events, page) = {} THEN wire ELSE Append(wire, frame)
      /\ UNCHANGED <<lines, up, page, lastId, received>>
  BY DEF Deliver, logVars, pageVars, OfRun
<1>2. Safe(tail.next, sent \cup OfRun(tail.events, page))
  BY <1>1 DEF StreamInv, Kept, PollOK
<1>3. frame \in Frames /\ frame.next = tail.next /\ frame.events = OfRun(tail.events, page)
  BY <1>1 DEF Frames, OfRun, ShapeInv, PollShape
<1>4. wire \in Seq(Frames) /\ up
  BY <1>1, BusyIsUp DEF ShapeInv
<1>5. \A n, S : Safe(n, S) => Safe(n, S)'
  BY <1>1, SafeSame
<1>6. \A q \in PollSlots : polls'[q] \in {polls[q], IdlePoll}
  BY <1>1 DEF ShapeInv
<1>7. \A S : PollOK(IdlePoll, S)
  BY DEF PollOK, IdlePoll
<1> HIDE DEF tail, frame
<1>8. Kept(received, lastId, wire', up, offset', polls)
  <2>1. CASE OfRun(tail.events, page) = {}
    <3>1. wire' = wire /\ Safe(tail.next, sent)
      BY <1>1, <1>2, <2>1
    <3>2. Safe(offset', sent)
      BY <1>1, <1>4, <3>1 DEF StreamInv, Kept
    <3> QED BY <3>1, <3>2 DEF StreamInv, Kept
  <2>2. CASE OfRun(tail.events, page) # {}
    <3>1. wire' = Append(wire, frame) /\ offset' = frame.next
      BY <1>1, <1>3, <2>2
    <3>2. Safe(frame.next, sent \cup frame.events)
      BY <1>2, <1>3
    <3> QED BY <1>3, <1>4, <3>1, <3>2, KeptAppend DEF StreamInv
  <2> QED BY <2>1, <2>2
<1>9. Kept(received, lastId, wire', up, offset', polls')
  BY <1>6, <1>7, <1>8 DEF Kept
<1> QED BY <1>1, <1>5, <1>9, StreamFrom

\* The page takes the first frame and its id: the others follow with less to
\* wait for.
LEMMA StreamReceive ==
  ASSUME ShapeInv, StreamInv, ReceiveBatch PROVE StreamInv'
<1> DEFINE w == Tail(wire)
           R == received \cup wire[1].events
<1>1. /\ wire # <<>> /\ wire' = w /\ received' = R /\ lastId' = wire[1].next
      /\ UNCHANGED <<lines, polls, offset, up, page>>
  BY DEF ReceiveBatch, logVars, ShapeInv
<1>2. /\ Len(wire) \in Nat \ {0} /\ Len(w) = Len(wire) - 1
      /\ \A k \in 1..Len(w) : w[k] = wire[k + 1]
  BY <1>1, HeadTailProperties DEF ShapeInv
<1> HIDE DEF w
<1>3. \A k \in 0..Len(w) : SentBy(R, w, k) = SentBy(received, wire, k + 1)
  <2> SUFFICES ASSUME NEW k \in 0..Len(w)
               PROVE  SentBy(R, w, k) = SentBy(received, wire, k + 1)
    OBVIOUS
  <2>1. \A j \in 1..(k + 1) : j # 1 => j - 1 \in 1..k /\ w[j - 1] = wire[j]
    BY <1>2
  <2>2. \A j \in 1..k : j + 1 \in 1..(k + 1) /\ w[j] = wire[j + 1]
    BY <1>2
  <2>3. 1 \in 1..(k + 1)
    BY <1>2
  <2>4. {wire[j].events : j \in 1..(k + 1)} =
          {wire[1].events} \cup {w[j].events : j \in 1..k}
    <3>1. ASSUME NEW j \in 1..(k + 1)
          PROVE  wire[j].events \in {wire[1].events} \cup {w[i].events : i \in 1..k}
      BY <2>1
    <3>2. ASSUME NEW j \in 1..k
          PROVE  w[j].events \in {wire[i].events : i \in 1..(k + 1)}
      BY <2>2
    <3>3. wire[1].events \in {wire[i].events : i \in 1..(k + 1)}
      BY <2>3
    <3> QED BY <3>1, <3>2, <3>3
  <2> QED BY <2>4 DEF SentBy
<1>4. Safe(wire[1].next, R)
  <2>1. SentBy(received, wire, 1) = R
    BY DEF SentBy
  <2>2. Safe(wire[1].next, SentBy(received, wire, 1))
    BY <1>2 DEF StreamInv, Kept
  <2> HIDE DEF R
  <2> QED BY <2>1, <2>2
<1> HIDE DEF R
<1>5. \A k \in 1..Len(w) : Safe(w[k].next, SentBy(R, w, k))
  <2> SUFFICES ASSUME NEW k \in 1..Len(w) PROVE Safe(w[k].next, SentBy(R, w, k))
    OBVIOUS
  <2>1. k + 1 \in 1..Len(wire) /\ k \in 0..Len(w) /\ w[k] = wire[k + 1]
    BY <1>2
  <2>2. Safe(wire[k + 1].next, SentBy(received, wire, k + 1))
    BY <2>1 DEF StreamInv, Kept
  <2> QED BY <1>3, <2>1, <2>2
<1>6. SentBy(R, w, Len(w)) = SentBy(received, wire, Len(wire))
  BY <1>2, <1>3
<1>7. Kept(R, wire[1].next, w, up, offset, polls)
  BY <1>4, <1>5, <1>6 DEF StreamInv, Kept
<1>8. \A n, S : Safe(n, S) => Safe(n, S)'
  BY <1>1, SafeSame
<1> QED BY <1>1, <1>7, <1>8, StreamFrom

\* A client that asks for batches has what lies before the position it is told.
LEMMA StreamPull ==
  ASSUME ShapeInv, StreamInv, Pull PROVE StreamInv'
<1> DEFINE tail == TailEvents(lastId)
           R    == received \cup OfRun(tail.events, page)
<1>1. /\ received' = R /\ lastId' = tail.next
      /\ UNCHANGED <<lines, polls, offset, up, wire, page>>
  BY DEF Pull, logVars, streamVars
<1>2. Safe(lastId, received)
  BY DEF StreamInv, Kept
<1>3. Safe(tail.next, R)
  BY <1>2, TailExtends
<1>4. received \subseteq R
  OBVIOUS
<1> HIDE DEF tail, R
<1>5. \A k : SentBy(received, wire, k) \subseteq SentBy(R, wire, k)
  BY <1>4 DEF SentBy
<1>6. Kept(R, tail.next, wire, up, offset, polls)
  BY <1>3, <1>5, SafeMore, PollMore DEF StreamInv, Kept
<1>7. \A n, S : Safe(n, S) => Safe(n, S)'
  BY <1>1, SafeSame
<1> QED BY <1>1, <1>6, <1>7, StreamFrom

\* A new connection begins where everything before has been received.
LEMMA StreamReconnect ==
  ASSUME ShapeInv, StreamInv, Reconnect PROVE StreamInv'
<1>1. /\ ~up /\ offset' \in {0, lastId}
      /\ UNCHANGED <<lines, polls, wire, page, lastId, received>>
  BY DEF Reconnect, ResumeOffset, logVars, pageVars
<1>2. wire = <<>> /\ Len(lines) \in Nat
  BY <1>1 DEF ShapeInv
<1>3. Safe(offset', received)
  BY <1>1, <1>2, SafeStart DEF StreamInv, Kept
<1>4. SentBy(received, wire, Len(wire)) = received
  BY <1>2 DEF SentBy
<1>5. Kept(received, lastId, wire, up', offset', polls)
  BY <1>3, <1>4 DEF StreamInv, Kept
<1>6. \A n, S : Safe(n, S) => Safe(n, S)'
  BY <1>1, SafeSame
<1> QED BY <1>1, <1>5, <1>6, StreamFrom

LEMMA StreamNext ==
  ASSUME ShapeInv, ~stale => StreamInv, [Next]_vars, ~stale'
  PROVE  StreamInv'
<1> DEFINE Same == UNCHANGED <<streamVars, page, lastId, received>>
<1>0. ASSUME StreamInv, \A n, S : Safe(n, S) => Safe(n, S)', Same PROVE StreamInv'
  <2>1. UNCHANGED <<page, received, lastId, wire, up, offset, polls>>
    BY <1>0 DEF streamVars
  <2> QED BY <1>0, <2>1, StreamFrom DEF StreamInv
<1>1. CASE RemoveLog
  <2>1. lines' = <<>> /\ page = NoRun /\ UNCHANGED <<streamVars, page, lastId>>
    BY <1>1 DEF RemoveLog, pageVars
  <2>2. ~up /\ lastId = 0 /\ wire = <<>> /\ \A p \in PollSlots : polls[p] = IdlePoll
    BY <2>1 DEF ShapeInv
  <2> QED BY <2>1, <2>2, StreamRestart DEF streamVars
<1>2. ASSUME NEW r \in Runs \cup {NoRun}, Move(r) PROVE StreamInv'
  <2>1. /\ ~up' /\ wire' = <<>> /\ lastId' = 0 /\ lines' = lines
        /\ polls' = [p \in PollSlots |-> IdlePoll]
    BY <1>2 DEF Move, logVars
  <2>2. Len(lines') \in Nat
    BY <2>1 DEF ShapeInv
  <2> QED BY <2>1, <2>2, StreamRestart
<1>3. CASE ~RemoveLog /\ \A r \in Runs \cup {NoRun} : ~Move(r)
  <2>1. UNCHANGED stale
    BY <1>3 DEF Next, Log, Write, Accept, AppendVerdict, BeginAppend, FinishAppend, WriterCrash, Poll,
      StartPoll, CheckSize, ReadTail, Deliver, Disconnect, Reconnect, ReceiveBatch, Pull,
      Load, AskList, AskSummary, StatLog, ReadLog, KeepGroups, Answer, vars
  <2>2. StreamInv
    BY <2>1
  <2>3. ASSUME NEW r, BeginAppend(r) PROVE StreamInv'
    <3>1. UNCHANGED <<lines, page>> /\ Same
      BY <2>3 DEF BeginAppend, pageVars
    <3> QED BY <1>0, <2>2, <3>1, SafeSame
  <2>4. CASE FinishAppend
    <3>1. lines' = Append(lines, fragment) /\ writing /\ UNCHANGED page /\ Same
      BY <2>4 DEF FinishAppend, pageVars
    <3>2. fragment \in Event \cup {Bad}
      BY <3>1 DEF ShapeInv
    <3>3. \A n, S : Safe(n, S) => Safe(n, S)'
      BY <3>1, <3>2, GrowKeeps
    <3> QED BY <1>0, <2>2, <3>1, <3>3
  <2>5. CASE WriterCrash
    <3>1. UNCHANGED <<lines, page>> /\ Same
      BY <2>5 DEF WriterCrash, pageVars
    <3> QED BY <1>0, <2>2, <3>1, SafeSame
  <2>6. ASSUME NEW p \in PollSlots, Poll(p) PROVE StreamInv'
    BY <2>2, <2>6, StreamStart, StreamCheck, StreamRead, StreamDeliver DEF Poll
  <2>7. CASE Disconnect
    <3>1. /\ ~up' /\ wire' = <<>> /\ polls' = [p \in PollSlots |-> IdlePoll]
          /\ UNCHANGED <<lines, page, lastId, received>>
      BY <2>7 DEF Disconnect, logVars, pageVars
    <3>2. Safe(lastId, received)
      BY <2>2 DEF StreamInv, Kept
    <3>3. \A p \in PollSlots : polls'[p] = IdlePoll
      BY <3>1
    <3>4. Kept(received, lastId, wire', up', offset', polls')
      BY <3>1, <3>2, <3>3, KeptDown
    <3> QED BY <3>1, <3>4, SafeSame, StreamFrom
  <2>8. ASSUME NEW q \in LoadSlots, Load(q) PROVE StreamInv'
    <3>1. UNCHANGED <<lines, page>> /\ Same
      BY <2>8 DEF Load, AskList, AskSummary, StatLog, ReadLog, KeepGroups, Answer,
        logVars, pageVars
    <3> QED BY <1>0, <2>2, <3>1, SafeSame
  <2>9. CASE UNCHANGED vars
    <3>1. UNCHANGED <<lines, page>> /\ Same
      BY <2>9 DEF vars, logVars, pageVars
    <3> QED BY <1>0, <2>2, <3>1, SafeSame
  <2>10. ASSUME NEW r \in Runs \cup {NoRun}, Accept(r) PROVE StreamInv'
    <3>1. UNCHANGED <<lines, page>> /\ Same
      BY <2>10 DEF Accept, pageVars
    <3> QED BY <1>0, <2>2, <3>1, SafeSame
  <2> HIDE DEF Same
  <2> QED BY <1>3, <2>2, <2>3, <2>4, <2>5, <2>6, <2>7, <2>8, <2>9, <2>10,
             StreamReconnect, StreamReceive, StreamPull
          DEF Next, Log, Write, AppendVerdict
<1> QED BY <1>1, <1>2, <1>3

\* The page has every event of its run before the position it resumes from.
THEOREM NothingIsLost == Spec => []NothingIsSkipped
<1> DEFINE IInv == ShapeInv /\ (~stale => StreamInv)
<1>1. Init => IInv
  BY ShapeInit, StreamInit
<1>2. IInv /\ [Next]_vars => IInv'
  BY ShapeNext, StreamNext
<1>3. IInv => NothingIsSkipped
  BY DEF StreamInv, Kept, Safe, Due, NothingIsSkipped
<1> QED BY <1>1, <1>2, <1>3, PTL DEF Spec

------------------------------------------------------------------------------
\* Where a request may stand, and what it then holds.
Whose    == Runs \cup {NoRun, Nobody}
Keys     == Int \X Int
Asked    == [pc : {"asked"}, of : Whose]
Reading  == [pc : {"read"}, of : Whose, key : Keys]
Keeping  == [pc : {"keep"}, of : Whose, key : Keys, groups : SUBSET Event]
Answered == [pc : {"answer"}, of : Whose, told : Summaries]
Caches   == [key : Keys, groups : SUBSET Event]

\* And a poll.
Stats == [pc : {"stat"}, size : Nat]
Froms == [pc : {"tail"}, from : Nat]
Tails == [events : SUBSET Event, next : Nat, skipped : BOOLEAN]
Sends == [pc : {"send"}, tail : Tails]

PlainInv ==
  /\ mtime \in Nat /\ up \in BOOLEAN /\ stale \in BOOLEAN /\ writing \in BOOLEAN
  /\ faults \in Nat /\ moves \in Nat
StoreInv == summary \in Summaries /\ loads \in [LoadSlots -> LoadType] /\ cache \in Caches
PageInv  == polls \in [PollSlots -> PollType] /\ received \subseteq Event
TypeInv  == ShapeInv /\ PlainInv /\ StoreInv /\ PageInv

LEMMA LoadSorts ==
  ASSUME NEW load \in LoadType
  PROVE  /\ load.pc = "asked"  => load \in Asked
         /\ load.pc = "read"   => load \in Reading
         /\ load.pc = "keep"   => load \in Keeping
         /\ load.pc = "answer" => load \in Answered
         /\ load = NoLoad \/ load.pc \in {"asked", "read", "keep", "answer"}
<1>1. load \in {NoLoad} \cup Asked \cup Reading \cup Keeping \cup Answered
  BY Zenon DEF LoadType, Asked, Reading, Keeping, Answered, Whose, Keys
<1>2. load = NoLoad => load.pc = "idle"
  BY DEF NoLoad
<1>3. /\ load \in Asked => load.pc = "asked"
      /\ load \in Reading => load.pc = "read"
      /\ load \in Keeping => load.pc = "keep"
      /\ load \in Answered => load.pc = "answer"
  BY DEF Asked, Reading, Keeping, Answered
<1> QED BY <1>1, <1>2, <1>3

LEMMA LoadsAre ==
  /\ NoLoad \in LoadType /\ Asked \subseteq LoadType /\ Reading \subseteq LoadType
  /\ Keeping \subseteq LoadType /\ Answered \subseteq LoadType
  BY Zenon DEF LoadType, Asked, Reading, Keeping, Answered, Whose, Keys

LEMMA PollSorts ==
  ASSUME NEW poll \in PollType
  PROVE  /\ poll.pc = "stat" => poll \in Stats
         /\ poll.pc = "tail" => poll \in Froms
         /\ poll.pc = "send" => poll \in Sends
<1>1. poll \in {IdlePoll} \cup Stats \cup Froms \cup Sends
  BY Zenon DEF PollType, Stats, Froms, Sends, Tails
<1>2. poll = IdlePoll => poll.pc = "idle"
  BY DEF IdlePoll
<1>3. /\ poll \in Stats => poll.pc = "stat"
      /\ poll \in Froms => poll.pc = "tail"
      /\ poll \in Sends => poll.pc = "send"
  BY DEF Stats, Froms, Sends
<1> QED BY <1>1, <1>2, <1>3

LEMMA PollsAre ==
  /\ IdlePoll \in PollType /\ Stats \subseteq PollType
  /\ Froms \subseteq PollType /\ Sends \subseteq PollType
  BY Zenon DEF PollType, Stats, Froms, Sends, Tails

\* What is told of some events is a summary; its statuses are those of their runs.
LEMMA ToldTypes ==
  ASSUME NEW of \in Whose, NEW S \in SUBSET Event PROVE Told(of, S) \in Summaries
<1> DEFINE R  == {e.run : e \in S}
           st == [r \in R |-> DeriveStatus(OfRun(S, r))]
<1>1. R \in SUBSET Runs
  <2>1. \A e \in S : e.run \in Runs
    BY DEF Event
  <2> QED BY <2>1
<1>2. \A T : DeriveStatus(T) \in {"running", "completed", "error"}
  BY DEF DeriveStatus
<1> HIDE DEF R
<1>3. st \in [R -> {"running", "completed", "error"}]
  BY <1>2
<1>4. st \in Statuses
  BY <1>1, <1>3 DEF Statuses
<1>5. Told(of, S) = [of |-> of, seen |-> S, status |-> st]
  BY DEF Told, R
<1> HIDE DEF st
<1> QED BY <1>4, <1>5 DEF Summaries, Whose

LEMMA RespondTypes ==
  ASSUME NEW of, NEW S \in SUBSET Event PROVE Respond(S, of) \in Summaries
<1>0. NoRun \in Whose /\ Nobody \in Whose /\ Runs \subseteq Whose
      /\ {} \in SUBSET Event
  BY DEF Whose
<1>1. Told(NoRun, S) \in Summaries /\ Told(Nobody, {}) \in Summaries
  BY <1>0, ToldTypes, Zenon
<1>2. ASSUME NEW r \in Runs PROVE SummarizeRun(S, r) \in Summaries
  <2>1. OfRun(S, r) \in SUBSET Event /\ r \in Whose
    BY <1>0 DEF OfRun
  <2>2. Told(r, OfRun(S, r)) \in Summaries
    BY <2>1, ToldTypes, Zenon
  <2> QED BY <1>1, <2>2 DEF SummarizeRun
<1>3. CASE of = NoRun
  <2>1. of \notin Runs
    BY <1>3, JournalAssumption
  <2>2. Respond(S, of) = ListRuns(S)
    BY <1>3, <2>1 DEF Respond
  <2> QED BY <1>1, <2>2 DEF ListRuns
<1>4. CASE of # NoRun /\ of \in Runs BY <1>2, <1>4 DEF Respond
<1>5. CASE of # NoRun /\ of \notin Runs BY <1>1, <1>5 DEF Respond
<1> QED BY <1>3, <1>4, <1>5

LEMMA KeyTypes == ASSUME ShapeInv, mtime \in Nat PROVE CacheKey \in Keys
<1>1. Size \in Int
  BY DEF Size, ShapeInv
<1> QED BY <1>1 DEF CacheKey, Keys

LEMMA VisibleTypes == ASSUME ShapeInv PROVE Visible \in SUBSET Event
<1>1. Len(lines) \in Nat
  BY DEF ShapeInv
<1>2. Between(0, Len(lines)) \subseteq Event
  BY <1>1, BetweenTypes
<1> QED BY <1>2 DEF Visible

LEMMA TypeInit == Init => TypeInv
<1> SUFFICES ASSUME Init PROVE TypeInv
  OBVIOUS
<1>1. PlainInv
  BY DEF Init, PlainInv
<1>2. summary \in Summaries
  <2>1. page \in Whose /\ {} \in SUBSET Event /\ summary = Told(page, {})
    BY DEF Init, Blank, Whose
  <2> QED BY <2>1, ToldTypes, Zenon
<1>3. cache \in Caches
  <2>1. <<-1, -1>> \in Keys
    BY DEF Keys
  <2> QED BY <2>1 DEF Init, NoCache, Caches
<1>4. StoreInv
  BY <1>2, <1>3, LoadsAre DEF Init, StoreInv
<1>5. PageInv
  BY PollsAre DEF Init, PageInv
<1> QED BY <1>1, <1>4, <1>5, ShapeInit DEF TypeInv

------------------------------------------------------------------------------
LEMMA PlainNext == ASSUME TypeInv, [Next]_vars PROVE PlainInv'
<1> USE DEF TypeInv, PlainInv
<1>1. ASSUME NEW r, BeginAppend(r) PROVE PlainInv'
  <2>1. /\ UNCHANGED <<up, stale, faults, moves>>
        /\ writing' = TRUE /\ mtime' = mtime + 1
    BY <1>1 DEF BeginAppend, streamVars
  <2>2. up' \in BOOLEAN /\ stale' \in BOOLEAN /\ writing' \in BOOLEAN
    BY <2>1, Zenon
  <2>3. mtime' \in Nat /\ faults' \in Nat /\ moves' \in Nat
    BY <2>1
  <2> QED BY <2>2, <2>3, Zenon
<1>2. CASE FinishAppend
  <2>1. /\ UNCHANGED <<up, stale, faults, moves>>
        /\ writing' = FALSE /\ mtime' = mtime + 1
    BY <1>2 DEF FinishAppend, streamVars
  <2>2. up' \in BOOLEAN /\ stale' \in BOOLEAN /\ writing' \in BOOLEAN
    BY <2>1, Zenon
  <2>3. mtime' \in Nat /\ faults' \in Nat /\ moves' \in Nat
    BY <2>1
  <2> QED BY <2>2, <2>3, Zenon
<1>3. CASE WriterCrash
  <2>1. /\ UNCHANGED <<up, stale, moves, mtime>>
        /\ writing' = FALSE /\ faults' = faults + 1
    BY <1>3 DEF WriterCrash, streamVars
  <2>2. up' \in BOOLEAN /\ stale' \in BOOLEAN /\ writing' \in BOOLEAN
    BY <2>1, Zenon
  <2>3. mtime' \in Nat /\ faults' \in Nat /\ moves' \in Nat
    BY <2>1
  <2> QED BY <2>2, <2>3, Zenon
<1>4. CASE RemoveLog
  <2>1. /\ UNCHANGED <<up, writing, moves>> /\ stale' = (page # NoRun)
        /\ mtime' = mtime + 1 /\ faults' = faults + 1
    BY <1>4 DEF RemoveLog, streamVars
  <2>2. up' \in BOOLEAN /\ stale' \in BOOLEAN /\ writing' \in BOOLEAN
    BY <2>1, Zenon
  <2>3. mtime' \in Nat /\ faults' \in Nat /\ moves' \in Nat
    BY <2>1
  <2> QED BY <2>2, <2>3, Zenon
<1>5. ASSUME NEW p \in PollSlots, Poll(p) PROVE PlainInv'
  BY <1>5 DEF Poll, StartPoll, CheckSize, ReadTail, Deliver, logVars
<1>6. CASE Disconnect
  <2>1. UNCHANGED <<mtime, writing, stale, moves>> /\ up' = FALSE /\ faults' = faults + 1
    BY <1>6 DEF Disconnect, logVars
  <2>2. up' \in BOOLEAN /\ stale' \in BOOLEAN /\ writing' \in BOOLEAN
    BY <2>1, Zenon
  <2>3. mtime' \in Nat /\ faults' \in Nat /\ moves' \in Nat
    BY <2>1
  <2> QED BY <2>2, <2>3, Zenon
<1>7. CASE Reconnect BY <1>7 DEF Reconnect, logVars
<1>8. CASE ReceiveBatch BY <1>8 DEF ReceiveBatch, logVars
<1>9. CASE Pull BY <1>9 DEF Pull, logVars, streamVars
<1>10. ASSUME NEW r \in Runs \cup {NoRun}, Move(r) PROVE PlainInv'
  <2>1. UNCHANGED <<mtime, writing, faults>> /\ up' = FALSE /\ stale' = FALSE /\ moves' = moves + 1
    BY <1>10 DEF Move, logVars
  <2>2. up' \in BOOLEAN /\ stale' \in BOOLEAN /\ writing' \in BOOLEAN
    BY <2>1, Zenon
  <2>3. mtime' \in Nat /\ faults' \in Nat /\ moves' \in Nat
    BY <2>1
  <2> QED BY <2>2, <2>3, Zenon
<1>11. ASSUME NEW q \in LoadSlots, Load(q) PROVE PlainInv'
  BY <1>11 DEF Load, AskList, AskSummary, StatLog, ReadLog, KeepGroups, Answer,
    logVars, streamVars
<1>12. CASE UNCHANGED vars BY <1>12 DEF vars, logVars, streamVars
<1>13. ASSUME NEW r \in Runs \cup {NoRun}, Accept(r) PROVE PlainInv'
  BY <1>13 DEF Accept, streamVars
<1> QED BY <1>1, <1>2, <1>3, <1>4, <1>5, <1>6, <1>7, <1>8, <1>9, <1>10, <1>11, <1>12, <1>13
        DEF Next, Log, Write, AppendVerdict

\* One request goes on.
LEMMA StoreOne ==
  ASSUME StoreInv, NEW q \in LoadSlots, NEW load \in LoadType,
         loads' = [loads EXCEPT ![q] = load],
         cache' \in Caches, summary' \in Summaries
  PROVE  StoreInv'
  BY DEF StoreInv

LEMMA StoreLoad == ASSUME TypeInv, NEW q \in LoadSlots, Load(q) PROVE StoreInv'
<1>0. /\ StoreInv /\ summary \in Summaries /\ cache \in Caches
      /\ loads[q] \in LoadType
      /\ CacheKey \in Keys /\ Visible \in SUBSET Event
  BY KeyTypes, VisibleTypes DEF TypeInv, StoreInv, PlainInv
<1>1. CASE AskList(q) \/ AskSummary(q)
  <2>1. PICK of \in Whose : loads' = [loads EXCEPT ![q] = [pc |-> "asked", of |-> of]]
    BY <1>1 DEF AskList, AskSummary, Whose, TypeInv, ShapeInv
  <2>2. [pc |-> "asked", of |-> of] \in Asked
    BY DEF Asked
  <2>3. UNCHANGED <<summary, cache>>
    BY <1>1 DEF AskList, AskSummary
  <2> DEFINE load == [pc |-> "asked", of |-> of]
  <2>4. load \in LoadType
    BY <2>2, LoadsAre
  <2>5. loads' = [loads EXCEPT ![q] = load]
    BY <2>1
  <2> HIDE DEF load
  <2> QED BY <1>0, <2>3, <2>4, <2>5, StoreOne
<1>2. CASE StatLog(q)
  <2> DEFINE told == [pc |-> "answer", of |-> loads[q].of,
                      told |-> Respond(cache'.groups, loads[q].of)]
             read == [pc |-> "read", of |-> loads[q].of, key |-> CacheKey]
  <2>1. /\ loads[q].pc = "asked" /\ summary' = summary /\ cache' \in {NoCache, cache}
        /\ \/ loads' = [loads EXCEPT ![q] = told]
           \/ loads' = [loads EXCEPT ![q] = read]
    BY <1>2 DEF StatLog
  <2>2. loads[q].of \in Whose
    BY <1>0, <2>1, LoadSorts DEF Asked
  <2>3. NoCache \in Caches
    BY DEF NoCache, Caches, Keys
  <2>4. cache' \in Caches /\ cache'.groups \in SUBSET Event
    BY <1>0, <2>1, <2>3 DEF Caches
  <2>5. Respond(cache'.groups, loads[q].of) \in Summaries
    BY <2>4, RespondTypes, Zenon
  <2>6. told \in LoadType
    BY <2>2, <2>5, LoadsAre DEF Answered
  <2>7. read \in LoadType
    BY <1>0, <2>2, LoadsAre DEF Reading
  <2> HIDE DEF told, read
  <2> QED BY <1>0, <2>1, <2>4, <2>6, <2>7, StoreOne
<1>3. CASE ReadLog(q)
  <2> DEFINE keep == [pc |-> "keep", of |-> loads[q].of, key |-> loads[q].key,
                      groups |-> Visible]
  <2>1. /\ loads[q].pc = "read" /\ UNCHANGED <<summary, cache>>
        /\ loads' = [loads EXCEPT ![q] = keep]
    BY <1>3 DEF ReadLog
  <2>2. loads[q].of \in Whose /\ loads[q].key \in Keys
    BY <1>0, <2>1, LoadSorts DEF Reading
  <2>3. keep \in LoadType
    BY <1>0, <2>2, LoadsAre DEF Keeping
  <2> HIDE DEF keep
  <2> QED BY <1>0, <2>1, <2>3, StoreOne
<1>4. CASE KeepGroups(q)
  <2> DEFINE told == [pc |-> "answer", of |-> loads[q].of,
                      told |-> Respond(loads[q].groups, loads[q].of)]
  <2>1. /\ loads[q].pc = "keep" /\ summary' = summary
        /\ cache' = [key |-> loads[q].key, groups |-> loads[q].groups]
        /\ loads' = [loads EXCEPT ![q] = told]
    BY <1>4 DEF KeepGroups
  <2>2. /\ loads[q].of \in Whose /\ loads[q].key \in Keys
        /\ loads[q].groups \in SUBSET Event
    BY <1>0, <2>1, LoadSorts DEF Keeping
  <2>3. Respond(loads[q].groups, loads[q].of) \in Summaries
    BY <2>2, RespondTypes, Zenon
  <2>4. told \in LoadType
    BY <2>2, <2>3, LoadsAre DEF Answered
  <2>5. cache' \in Caches
    BY <2>1, <2>2 DEF Caches
  <2> HIDE DEF told
  <2> QED BY <1>0, <2>1, <2>4, <2>5, StoreOne
<1>5. CASE Answer(q)
  <2>1. /\ loads[q].pc = "answer" /\ cache' = cache
        /\ summary' \in {summary, loads[q].told}
        /\ loads' = [loads EXCEPT ![q] = NoLoad]
    BY <1>5 DEF Answer
  <2>2. loads[q].told \in Summaries
    BY <1>0, <2>1, LoadSorts DEF Answered
  <2> QED BY <1>0, <2>1, <2>2, LoadsAre, StoreOne
<1> QED BY <1>1, <1>2, <1>3, <1>4, <1>5 DEF Load

\* A request that is still under way, but whose view is gone.
LEMMA Forgotten ==
  ASSUME NEW load \in LoadType, load # NoLoad
  PROVE  [load EXCEPT !.of = Nobody] \in LoadType
<1> DEFINE gone == [load EXCEPT !.of = Nobody]
<1>0. Nobody \in Whose
  BY DEF Whose
<1>1. CASE load.pc = "asked"
  <2>1. load \in Asked BY <1>1, LoadSorts
  <2>2. gone \in Asked BY <1>0, <2>1 DEF Asked
  <2> QED BY <2>2, LoadsAre
<1>2. CASE load.pc = "read"
  <2>1. load \in Reading BY <1>2, LoadSorts
  <2>2. gone \in Reading BY <1>0, <2>1 DEF Reading
  <2> QED BY <2>2, LoadsAre
<1>3. CASE load.pc = "keep"
  <2>1. load \in Keeping BY <1>3, LoadSorts
  <2>2. gone \in Keeping BY <1>0, <2>1 DEF Keeping
  <2> QED BY <2>2, LoadsAre
<1>4. CASE load.pc = "answer"
  <2>1. load \in Answered BY <1>4, LoadSorts
  <2>2. gone \in Answered BY <1>0, <2>1 DEF Answered
  <2> QED BY <2>2, LoadsAre
<1> QED BY <1>1, <1>2, <1>3, <1>4, LoadSorts

LEMMA StoreMove ==
  ASSUME TypeInv, NEW r \in Runs \cup {NoRun}, Move(r) PROVE StoreInv'
<1>1. summary' \in Summaries
  <2>1. r \in Whose /\ {} \in SUBSET Event /\ summary' = Told(r, {})
    BY DEF Move, Blank, Whose
  <2> QED BY <2>1, ToldTypes, Zenon
<1>2. loads' \in [LoadSlots -> LoadType]
  <2>1. \A q \in LoadSlots : loads[q] \in LoadType
    BY DEF TypeInv, StoreInv
  <2>2. ASSUME NEW q \in LoadSlots
        PROVE  (IF NoRun \in {r, page} /\ loads[q] # NoLoad
                THEN [loads[q] EXCEPT !.of = Nobody] ELSE loads[q]) \in LoadType
    <3>1. loads[q] \in LoadType
      BY <2>1
    <3>2. loads[q] # NoLoad => [loads[q] EXCEPT !.of = Nobody] \in LoadType
      BY <3>1, Forgotten, Zenon
    <3> QED BY <3>1, <3>2, Zenon
  <2> QED BY <2>2, Zenon DEF Move
<1>3. cache' \in Caches
  BY DEF Move, TypeInv, StoreInv
<1> QED BY <1>1, <1>2, <1>3 DEF StoreInv

LEMMA StoreNext == ASSUME TypeInv, [Next]_vars PROVE StoreInv'
<1>1. CASE UNCHANGED storeVars
  BY <1>1 DEF TypeInv, StoreInv, storeVars
<1>2. ASSUME NEW r, BeginAppend(r) PROVE UNCHANGED storeVars
  BY <1>2 DEF BeginAppend
<1>3. CASE FinishAppend \/ WriterCrash \/ RemoveLog
  BY <1>1, <1>3 DEF FinishAppend, WriterCrash, RemoveLog
<1>4. ASSUME NEW p \in PollSlots, Poll(p) PROVE UNCHANGED storeVars
  BY <1>4 DEF Poll, StartPoll, CheckSize, ReadTail, Deliver
<1>5. CASE Disconnect \/ Reconnect \/ ReceiveBatch \/ Pull
  BY <1>1, <1>5 DEF Disconnect, Reconnect, ReceiveBatch, Pull
<1>6. CASE UNCHANGED vars
  BY <1>1, <1>6 DEF vars
<1>7. ASSUME NEW r \in Runs \cup {NoRun}, Accept(r) PROVE UNCHANGED storeVars
  BY <1>7 DEF Accept
<1> QED BY <1>1, <1>2, <1>3, <1>4, <1>5, <1>6, <1>7, StoreLoad, StoreMove
        DEF Next, Log, Write, AppendVerdict

------------------------------------------------------------------------------
LEMMA TailSkips ==
  ASSUME ShapeInv, NEW n \in Nat PROVE TailEvents(n) \in Tails
<1>1. TailEvents(n).events \subseteq Event /\ TailEvents(n).next \in Nat
  BY TailTypes
<1>2. TailEvents(n) = [events |-> TailEvents(n).events, next |-> TailEvents(n).next,
                       skipped |-> TailEvents(n).skipped]
      /\ TailEvents(n).skipped \in BOOLEAN
  BY DEF TailEvents
<1> QED BY <1>1, <1>2 DEF Tails

LEMMA PagePoll == ASSUME TypeInv, NEW p \in PollSlots, Poll(p) PROVE PageInv'
<1>0. /\ polls \in [PollSlots -> PollType] /\ polls[p] \in PollType
      /\ received \subseteq Event /\ ShapeInv
  BY DEF TypeInv, PageInv
<1>1. received' = received
  BY DEF Poll, StartPoll, CheckSize, ReadTail, Deliver, pageVars
<1>2. ASSUME NEW poll \in PollType, polls' = [polls EXCEPT ![p] = poll] PROVE PageInv'
  BY <1>0, <1>1, <1>2 DEF PageInv
<1>3. CASE StartPoll(p)
  <2> DEFINE poll == [pc |-> "stat", size |-> Size]
  <2>1. Size \in Nat
    BY <1>0 DEF Size, ShapeInv
  <2>2. poll \in PollType
    BY <2>1, PollsAre DEF Stats
  <2>3. polls' = [polls EXCEPT ![p] = poll]
    BY <1>3 DEF StartPoll
  <2> HIDE DEF poll
  <2> QED BY <1>2, <2>2, <2>3
<1>4. CASE CheckSize(p)
  <2> DEFINE poll == [pc |-> "tail", from |-> offset]
  <2>1. offset \in Nat
    BY <1>0 DEF ShapeInv
  <2>2. poll \in PollType
    BY <2>1, PollsAre DEF Froms
  <2>3. \/ polls' = [polls EXCEPT ![p] = poll]
        \/ polls' = [polls EXCEPT ![p] = IdlePoll]
    BY <1>4 DEF CheckSize
  <2> HIDE DEF poll
  <2> QED BY <1>2, <2>2, <2>3, PollsAre
<1>5. CASE ReadTail(p)
  <2> DEFINE tail == TailEvents(polls[p].from)
             poll == [pc |-> "send", tail |-> tail]
  <2>1. polls[p].pc = "tail" /\ polls' = [polls EXCEPT ![p] = poll]
    BY <1>5 DEF ReadTail
  <2>2. polls[p].from \in Nat
    BY <1>0, <2>1, PollSorts DEF Froms
  <2>3. tail \in Tails
    BY <1>0, <2>2, TailSkips
  <2> HIDE DEF tail
  <2>4. poll \in PollType
    BY <2>3, PollsAre DEF Sends
  <2> HIDE DEF poll
  <2> QED BY <1>2, <2>1, <2>4
<1>6. CASE Deliver(p)
  BY <1>2, <1>6, PollsAre DEF Deliver
<1> QED BY <1>3, <1>4, <1>5, <1>6 DEF Poll

LEMMA PageNext == ASSUME TypeInv, [Next]_vars PROVE PageInv'
<1>0. polls \in [PollSlots -> PollType] /\ received \subseteq Event /\ ShapeInv
  BY DEF TypeInv, PageInv
<1>1. CASE UNCHANGED <<polls, received>>
  BY <1>0, <1>1 DEF PageInv
<1>2. ASSUME NEW r, BeginAppend(r) PROVE UNCHANGED <<polls, received>>
  BY <1>2 DEF BeginAppend, streamVars, pageVars
<1>3. CASE FinishAppend \/ WriterCrash \/ RemoveLog
  BY <1>1, <1>3 DEF FinishAppend, WriterCrash, RemoveLog, streamVars, pageVars
<1>4. CASE Disconnect
  BY <1>0, <1>4, PollsAre DEF Disconnect, PageInv, pageVars
<1>5. CASE Reconnect
  BY <1>1, <1>5 DEF Reconnect, pageVars
<1>6. CASE ReceiveBatch
  <2>1. Head(wire) \in Frames
    BY <1>0, <1>6, HeadTailProperties DEF ShapeInv, ReceiveBatch
  <2>2. received' \subseteq Event /\ polls' = polls
    BY <1>0, <1>6, <2>1 DEF ReceiveBatch, Frames
  <2> QED BY <1>0, <2>2 DEF PageInv
<1>7. CASE Pull
  <2>1. TailEvents(lastId).events \subseteq Event
    BY <1>0, TailTypes DEF ShapeInv
  <2>2. received' = received \cup OfRun(TailEvents(lastId).events, page)
    BY <1>7 DEF Pull
  <2>3. received' \subseteq Event /\ polls' = polls
    BY <1>0, <1>7, <2>1, <2>2 DEF OfRun, Pull, streamVars
  <2> QED BY <1>0, <2>3 DEF PageInv
<1>8. ASSUME NEW r \in Runs \cup {NoRun}, Move(r) PROVE PageInv'
  BY <1>8, PollsAre DEF Move, PageInv
<1>9. ASSUME NEW q \in LoadSlots, Load(q) PROVE UNCHANGED <<polls, received>>
  BY <1>9 DEF Load, AskList, AskSummary, StatLog, ReadLog, KeepGroups, Answer,
    streamVars, pageVars
<1>10. CASE UNCHANGED vars
  BY <1>1, <1>10 DEF vars, streamVars, pageVars
<1>11. ASSUME NEW r \in Runs \cup {NoRun}, Accept(r) PROVE UNCHANGED <<polls, received>>
  BY <1>11 DEF Accept, streamVars, pageVars
<1> QED BY <1>1, <1>2, <1>3, <1>4, <1>5, <1>6, <1>7, <1>8, <1>9, <1>10, <1>11, PagePoll
        DEF Next, Log, Write, AppendVerdict

\* The variables of the log, the stream, the page and the store have their types:
\* a line is an event or passed over, a poll and a request hold what the next of
\* their steps needs, and the page shows a summary whatever answers it.
THEOREM JournalTypes == Spec => []TypeOK
<1>1. TypeInv /\ [Next]_vars => TypeInv'
  <2> SUFFICES ASSUME TypeInv, [Next]_vars PROVE TypeInv'
    OBVIOUS
  <2>1. ShapeInv'
    BY ShapeNext DEF TypeInv
  <2> QED BY <2>1, PlainNext, StoreNext, PageNext DEF TypeInv
<1>2. TypeInv => TypeOK
  <2> SUFFICES ASSUME TypeInv PROVE TypeOK
    OBVIOUS
  <2>1. /\ lines \in Seq(Event \cup {Bad}) /\ fragment \in Event \cup {Bad, Nothing}
        /\ writing => fragment # Nothing
        /\ begun \in Nat /\ watch \in Watches /\ offset \in Nat /\ lastId \in Nat
        /\ wire \in Seq([events : SUBSET Event, next : Nat])
        /\ page \in Runs \cup {NoRun} /\ verdict \in Runs \cup {Nobody}
    BY DEF TypeInv, ShapeInv, Frames
  <2>2. /\ mtime \in Nat /\ up \in BOOLEAN /\ stale \in BOOLEAN /\ writing \in BOOLEAN
        /\ faults \in Nat /\ moves \in Nat
    BY DEF TypeInv, PlainInv
  <2>3. /\ summary \in Summaries /\ loads \in [LoadSlots -> LoadType]
        /\ cache \in [key : Int \X Int, groups : SUBSET Event]
    BY DEF TypeInv, StoreInv, Caches, Keys
  <2>4. polls \in [PollSlots -> PollType] /\ received \subseteq Event
    BY DEF TypeInv, PageInv
  <2> QED BY <2>1, <2>2, <2>3, <2>4, Zenon DEF TypeOK
<1> QED BY <1>1, <1>2, TypeInit, PTL DEF Spec
=============================================================================
