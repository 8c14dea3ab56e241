------------------------------ MODULE Journal ------------------------------
(***************************************************************************)
(* The event log of the experiments and the observer of it: EventLog       *)
(* appends one JSON line per event, tailEvents reads whole lines from an   *)
(* offset, the web server streams what is new to a page and RunStore keeps *)
(* a cache of the log by run; the page (App.tsx, api.ts) shows the list of *)
(* runs or follows one of them, and reconnects when its stream ends.       *)
(*                                                                         *)
(* Lines have the same length here, so an offset is a number of lines; a   *)
(* fragment without its newline is half a line.  The clock that makes a    *)
(* quiet run "stalled", heartbeats and the page's 500-row window are left  *)
(* out.  The stream and the store only read the log and share nothing, so  *)
(* a behaviour watches the page through one of them.                       *)
(***************************************************************************)
EXTENDS Integers, Sequences

CONSTANTS
  Runs,        \* the run ids of the log
  Manual,      \* the one a verdict goes to for want of any
  NoRun,       \* the page shows the list of runs
  Nobody,      \* the view that asked is gone
  Batch,       \* the most lines one poll reads (500 in the code)
  Watches,     \* what to follow: the stream of the page ("page"), of a client
               \* that sends no offset ("client"), a client that asks for
               \* batches ("puller"), or the store ("store")
  Script,      \* bound: the types of the events written while following each
  PollSlots,   \* polls of a stream that may overlap
  LoadSlots,   \* requests to RunStore that may overlap
  MaxFaults,   \* bound, for each: crashes, removals of the log, lost connections
  MaxMoves,    \* bound: navigations of the page
  MaxWire      \* bound: frames on their way to the page

ASSUME JournalAssumption ==
  /\ Manual \in Runs /\ NoRun \notin Runs /\ Nobody \notin Runs \cup {NoRun}
  /\ Watches \subseteq {"page", "client", "puller", "store"}
  /\ Script \in [Watches -> Seq(STRING)] /\ MaxFaults \in [Watches -> Nat]
  /\ {Batch, MaxMoves, MaxWire} \subseteq Nat
  /\ Batch > 0

VARIABLES
  lines,     \* the complete lines of the log: events, or Bad
  fragment,  \* what follows the last newline: an event, Bad or Nothing
  writing,   \* a process is in the middle of an append
  begun,     \* events begun so far; numbers them
  verdict,   \* accept has read the log and will write to this run, or Nobody
  mtime,     \* modification time of the log, as a count of its writes
  polls,     \* per slot of the stream: where an asynchronous poll stands
  offset,    \* the position the server keeps for the stream
  up,        \* the connection is up
  wire,      \* frames written and not yet received, in order
  watch,     \* which part of the page the behaviour is about
  page,      \* the run the page shows
  lastId,    \* the id of the last frame received
  received,  \* the events received since the page was opened
  summary,   \* the list or summary the page shows: whose, and of which events
  loads,     \* per slot: where a request for a list or a summary stands
  cache,     \* RunStore: cacheKey and groups
  stale,     \* the log was removed while the page was open
  faults, moves

logVars    == <<lines, fragment, writing, begun, verdict, mtime>>
streamVars == <<polls, offset, up, wire>>
pageVars   == <<watch, page, lastId, received>>
storeVars  == <<summary, loads, cache>>
vars == <<logVars, streamVars, pageVars, storeVars, stale, faults, moves>>

Event   == [id : Nat \ {0}, run : Runs, type : STRING]
Bad     == [id |-> 0]
Nothing == [id |-> -1]

\* Bytes of the log, in half lines; no log and an empty one look the same.
Size == 2 * Len(lines) + (IF fragment = Nothing THEN 0 ELSE 1)

Least(m, n) == IF m < n THEN m ELSE n

\* The events a tolerant reader finds after the m-th line and up to the n-th.
Between(m, n) == {lines[i] : i \in (m + 1)..Least(n, Len(lines))} \ {Bad}
Visible       == Between(0, Len(lines))
OfRun(S, r)   == {e \in S : e.run = r}

\* Where asynchronous work stands.  A poll has taken the size of the log, is
\* about to read from an offset, or to send what it read; a request has not been
\* looked at, is about to read the log, to keep what it read, or to be answered.
IdlePoll == [pc |-> "idle"]
NoLoad   == [pc |-> "idle"]
NoCache  == [key |-> <<-1, -1>>, groups |-> {}]

\* deriveStatus: the last event that ends a run decides; the clock is left out.
DeriveStatus(S) ==
  LET ends == {e \in S : e.type \in {"REPAIR_ERROR", "REPAIR_COMPLETED",
                                    "EXPERIMENT_RUN_COMPLETED"}}
      last == CHOOSE e \in ends : \A f \in ends : f.id <= e.id
  IN  IF ends = {} THEN "running"
      ELSE IF last.type = "REPAIR_ERROR" THEN "error" ELSE "completed"

\* listRuns and summarizeRun: what is known of every run, or of the one asked
\* for; of is Nobody when the log does not hold it.
Told(of, S) ==
  [of |-> of, seen |-> S,
   status |-> [r \in {e.run : e \in S} |-> DeriveStatus(OfRun(S, r))]]
ListRuns(S)        == Told(NoRun, S)
SummarizeRun(S, r) == IF OfRun(S, r) = {} THEN Told(Nobody, {}) ELSE Told(r, OfRun(S, r))

\* handleRequest: which of them a path asks for.
Respond(S, of) ==
  CASE of = NoRun  -> ListRuns(S)
    [] of \in Runs -> SummarizeRun(S, of)
    [] OTHER       -> Told(Nobody, {})

\* A view that has just been opened.
Blank(r) == Told(r, {})

\* The URL says which view the page opens.
Init ==
  /\ lines = <<>> /\ fragment = Nothing /\ writing = FALSE
  /\ begun = 0 /\ verdict = Nobody /\ mtime = 0
  /\ polls = [p \in PollSlots |-> IdlePoll]
  /\ offset = 0 /\ up = FALSE /\ wire = <<>>
  /\ page \in Runs \cup {NoRun} /\ lastId = 0
  /\ received = {} /\ summary = Blank(page) /\ watch \in Watches
  /\ loads = [q \in LoadSlots |-> NoLoad]
  /\ cache = NoCache
  /\ stale = FALSE /\ faults = 0 /\ moves = 0

------------------------------------------------------------------------------
\* EventLog.append: appendFile writes the line and its newline.  A reader may
\* catch it in between, and text left there by a crash runs into this line.
BeginAppend(r) ==
  /\ ~writing /\ begun < Len(Script[watch])
  /\ begun' = begun + 1
  /\ writing' = TRUE
  /\ fragment' = IF fragment = Nothing
                 THEN [id |-> begun', run |-> r, type |-> Script[watch][begun']] ELSE Bad
  /\ mtime' = mtime + 1
  /\ UNCHANGED <<lines, streamVars, pageVars, storeVars, stale, faults, moves>>

\* An experiment, or another process, writes an event of a run.
IsVerdict(i) == Script[watch][i] = "HUMAN_ACCEPTANCE_RECORDED"
Write(r) ==
  /\ begun < Len(Script[watch]) => ~IsVerdict(begun + 1)
  /\ BeginAppend(r) /\ UNCHANGED verdict

\* EventLog.readAll, which wants every line to be an event.
ReadsAll == fragment = Nothing /\ \A i \in DOMAIN lines : lines[i] # Bad

\* accept: a person judges an evaluation, named or else the latest, of a run or of
\* any.  The log is read, and with it the run of its last event, where the verdict
\* goes if no run is given; which evaluation it is says nothing of the log.
Accept(r) ==
  /\ verdict = Nobody /\ \E i \in (begun + 1)..Len(Script[watch]) : IsVerdict(i)
  /\ ReadsAll
  /\ verdict' = IF r # NoRun THEN r
                ELSE IF lines = <<>> THEN Manual ELSE lines[Len(lines)].run
  /\ UNCHANGED <<lines, fragment, writing, begun, mtime, streamVars, pageVars,
                 storeVars, stale, faults, moves>>

\* It is appended to the log as it is by then.
AppendVerdict ==
  /\ verdict # Nobody
  /\ begun < Len(Script[watch]) /\ IsVerdict(begun + 1)
  /\ BeginAppend(verdict) /\ verdict' = Nobody

\* Bug: the writer goes on as if its line were still to be written.
FinishAppend_StaysOpen ==
  /\ writing
  /\ lines' = Append(lines, fragment)
  /\ fragment' = Nothing
  /\ mtime' = mtime + 1
  /\ UNCHANGED <<writing, begun, verdict, streamVars, pageVars, storeVars, stale,
                 faults, moves>>
FinishAppend ==
  /\ writing
  /\ lines' = Append(lines, fragment)
  /\ fragment' = Nothing
  /\ writing' = FALSE
  /\ mtime' = mtime + 1
  /\ UNCHANGED <<begun, verdict, streamVars, pageVars, storeVars, stale, faults, moves>>

\* The writer dies in the middle of a line.
WriterCrash ==
  /\ writing /\ faults < MaxFaults[watch]
  /\ writing' = FALSE
  /\ fragment' = Bad
  /\ faults' = faults + 1
  /\ UNCHANGED <<lines, begun, verdict, mtime, streamVars, pageVars, storeVars, stale,
                 moves>>

\* Somebody removes the log; the next append starts a new one.
RemoveLog ==
  /\ ~writing /\ Size > 0 /\ faults < MaxFaults[watch]
  /\ lines' = <<>> /\ fragment' = Nothing
  /\ mtime' = mtime + 1
  /\ stale' = (page # NoRun)
  /\ faults' = faults + 1
  /\ UNCHANGED <<writing, begun, verdict, streamVars, pageVars, storeVars, moves>>

------------------------------------------------------------------------------
\* tailEvents: at most Batch whole lines after an offset; bad lines are passed
\* over, a fragment is left for a later call, and an offset beyond the end is
\* drawn back to it, unless there is no log.
\* Bug: a fragment at the end of the log is consumed as if it were a line.
TailEvents_ConsumesFragment(from) ==
  LET all    == Len(lines) + (Size % 2)
      start  == Least(from, all)
      next   == Least(start + Batch, all)
      events == Between(start, next)
  IN  [events |-> events, next |-> next, skipped |-> next > start /\ events = {}]
TailEvents(from) ==
  LET start  == IF Size = 0 THEN from ELSE Least(from, Len(lines))
      next   == IF Size = 0 THEN from ELSE Least(start + Batch, Len(lines))
      events == Between(start, next)
  IN  [events |-> events, next |-> next, skipped |-> next > start /\ events = {}]

\* sendStream: the timer starts a poll, whatever became of the ones before it.
\* The poll first takes the size of the log ...
StartPoll(p) ==
  /\ up /\ polls[p] = IdlePoll
  /\ polls' = [polls EXCEPT ![p] = [pc |-> "stat", size |-> Size]]
  /\ UNCHANGED <<logVars, offset, up, wire, pageVars, storeVars, stale, faults, moves>>

\* ... compares it with the offset as it is by then, and goes on to read ...
CheckSize(p) ==
  /\ polls[p].pc = "stat"
  /\ polls' = [polls EXCEPT ![p] =
       IF polls[p].size <= 2 * offset THEN IdlePoll
       ELSE [pc |-> "tail", from |-> offset]]
  /\ UNCHANGED <<logVars, offset, up, wire, pageVars, storeVars, stale, faults, moves>>

ReadTail(p) ==
  /\ polls[p].pc = "tail"
  /\ polls' = [polls EXCEPT ![p] = [pc |-> "send", tail |-> TailEvents(polls[p].from)]]
  /\ UNCHANGED <<logVars, offset, up, wire, pageVars, storeVars, stale, faults, moves>>

\* ... and then moves the offset and writes a frame if the run has new events.
Deliver(p) ==
  /\ polls[p].pc = "send" /\ Len(wire) < MaxWire
  /\ LET tail  == polls[p].tail
         frame == [events |-> OfRun(tail.events, page), next |-> tail.next]
     IN  /\ offset' = IF tail.events # {} \/ tail.skipped THEN tail.next ELSE offset
         /\ wire' = IF frame.events = {} THEN wire ELSE Append(wire, frame)
  /\ polls' = [polls EXCEPT ![p] = IdlePoll]
  /\ UNCHANGED <<logVars, up, pageVars, storeVars, stale, faults, moves>>

\* The connection ends with what is under way on it: the network drops it, the
\* server restarts, or an error of a poll makes the server end the response.
Disconnect ==
  /\ up /\ faults < MaxFaults[watch]
  /\ up' = FALSE /\ wire' = <<>>
  /\ polls' = [p \in PollSlots |-> IdlePoll]
  /\ faults' = faults + 1
  /\ UNCHANGED <<logVars, offset, pageVars, storeVars, stale, moves>>

\* The EventSource opens its URL again and sends the last id it saw; sendStream
\* prefers the "after" of the URL, and the page's URL always says after=0.
ResumeOffset == IF watch = "page" THEN 0 ELSE lastId

Reconnect ==
  /\ watch \in {"page", "client"} /\ page # NoRun /\ ~up
  /\ up' = TRUE
  /\ offset' = ResumeOffset
  /\ UNCHANGED <<logVars, polls, wire, pageVars, storeVars, stale, faults, moves>>

\* The page receives a frame, appends its events and keeps its id.
ReceiveBatch ==
  /\ wire # <<>>
  /\ received' = received \cup Head(wire).events
  /\ lastId' = Head(wire).next
  /\ wire' = Tail(wire)
  /\ UNCHANGED <<logVars, polls, offset, up, watch, page, storeVars,
                 stale, faults, moves>>

\* sendEvents: a client without a stream asks for the batch behind the offset it
\* was told last; the run is picked out of the batch.
Pull ==
  /\ watch = "puller" /\ page # NoRun
  /\ LET tail == TailEvents(lastId)
     IN  /\ received' = received \cup OfRun(tail.events, page)
         /\ lastId' = tail.next
  /\ UNCHANGED <<logVars, streamVars, watch, page, storeVars, stale, faults, moves>>

------------------------------------------------------------------------------
\* Another run, or the list: the effect closes the stream and clears the view,
\* then opens the stream of the new run.  A request is not cancelled; the answer
\* to one run still finds the view of another, and only the list and the view of
\* a run replace each other.
Move(r) ==
  /\ r # page /\ moves < MaxMoves
  /\ page' = r
  /\ lastId' = 0 /\ received' = {} /\ summary' = Blank(r)
  /\ up' = FALSE /\ wire' = <<>> /\ offset' = 0
  /\ polls' = [p \in PollSlots |-> IdlePoll]
  /\ loads' = [q \in LoadSlots |->
                 IF NoRun \in {r, page} /\ loads[q] # NoLoad
                 THEN [loads[q] EXCEPT !.of = Nobody] ELSE loads[q]]
  /\ stale' = FALSE
  /\ moves' = moves + 1
  /\ UNCHANGED <<logVars, watch, cache, faults>>

\* RunsView asks for the list at once and every five seconds ...
AskList(q) ==
  /\ watch = "store" /\ page = NoRun /\ loads[q] = NoLoad
  /\ loads' = [loads EXCEPT ![q] = [pc |-> "asked", of |-> NoRun]]
  /\ UNCHANGED <<logVars, streamVars, pageVars, summary, cache, stale, faults, moves>>

\* ... and loadSummary, at once, after a batch and every eight.
\* Bug: without the interval, only a page that has no summary asks for one.
AskSummary_Once(q) ==
  /\ watch = "store" /\ page # NoRun /\ loads[q] = NoLoad /\ summary.seen = {}
  /\ loads' = [loads EXCEPT ![q] = [pc |-> "asked", of |-> page]]
  /\ UNCHANGED <<logVars, streamVars, pageVars, summary, cache, stale, faults, moves>>
AskSummary(q) ==
  /\ watch = "store" /\ page # NoRun /\ loads[q] = NoLoad
  /\ loads' = [loads EXCEPT ![q] = [pc |-> "asked", of |-> page]]
  /\ UNCHANGED <<logVars, streamVars, pageVars, summary, cache, stale, faults, moves>>

\* RunStore.loadGroups takes the size and time of the log and answers from the
\* cache when they are those of the cache ...
\* Bug: the key is the size alone.
CacheKey_SizeOnly == <<Size, 0>>
CacheKey == <<Size, mtime>>

StatLog(q) ==
  /\ loads[q].pc = "asked"
  /\ cache' = IF Size = 0 THEN NoCache ELSE cache
  /\ loads' = [loads EXCEPT ![q] =
       IF Size = 0 \/ cache.key = CacheKey
       THEN [pc |-> "answer", of |-> @.of, told |-> Respond(cache'.groups, @.of)]
       ELSE [pc |-> "read", of |-> @.of, key |-> CacheKey]]
  /\ UNCHANGED <<logVars, streamVars, pageVars, summary, stale, faults, moves>>

\* ... and otherwise reads the log, later, and then keeps it under that key.
ReadLog(q) ==
  /\ loads[q].pc = "read"
  /\ loads' = [loads EXCEPT ![q] =
       [pc |-> "keep", of |-> @.of, key |-> @.key, groups |-> Visible]]
  /\ UNCHANGED <<logVars, streamVars, pageVars, summary, cache, stale, faults, moves>>

KeepGroups(q) ==
  /\ loads[q].pc = "keep"
  /\ cache' = [key |-> loads[q].key, groups |-> loads[q].groups]
  /\ loads' = [loads EXCEPT ![q] =
       [pc |-> "answer", of |-> @.of, told |-> Respond(@.groups, @.of)]]
  /\ UNCHANGED <<logVars, streamVars, pageVars, summary, stale, faults, moves>>

\* The answer reaches the page, which shows it whatever run it now is on; a run
\* the log does not hold is an error and leaves the summary alone.
Answer(q) ==
  /\ loads[q].pc = "answer"
  /\ summary' = IF Nobody \in {loads[q].of, loads[q].told.of} THEN summary
                ELSE loads[q].told
  /\ loads' = [loads EXCEPT ![q] = NoLoad]
  /\ UNCHANGED <<logVars, streamVars, pageVars, cache, stale, faults, moves>>

------------------------------------------------------------------------------
Log    == \/ \E r \in Runs : Write(r)
          \/ (\E r \in Runs \cup {NoRun} : Accept(r)) \/ AppendVerdict
          \/ FinishAppend \/ WriterCrash \/ RemoveLog
Poll(p) == StartPoll(p) \/ CheckSize(p) \/ ReadTail(p) \/ Deliver(p)
Load(q) == \/ AskList(q) \/ AskSummary(q)
           \/ StatLog(q) \/ ReadLog(q) \/ KeepGroups(q) \/ Answer(q)

Next ==
  \/ Log
  \/ \E p \in PollSlots : Poll(p)
  \/ Disconnect \/ Reconnect \/ ReceiveBatch \/ Pull
  \/ \E r \in Runs \cup {NoRun} : Move(r)
  \/ \E q \in LoadSlots : Load(q)

\* Timers fire, calls of the file system return, frames arrive, the browser
\* reconnects and a client asks again.  Nothing obliges an experiment to write or a page to stay.
Fairness ==
  /\ \A p \in PollSlots : WF_vars(Poll(p))
  /\ WF_vars(Reconnect) /\ WF_vars(ReceiveBatch) /\ WF_vars(Pull)
  /\ \A q \in LoadSlots : WF_vars(Load(q))

Spec == Init /\ [][Next]_vars /\ Fairness

------------------------------------------------------------------------------
PollType ==
  {IdlePoll} \cup [pc : {"stat"}, size : Nat]
  \cup [pc : {"tail"}, from : Nat]
  \cup [pc : {"send"},
        tail : [events : SUBSET Event, next : Nat, skipped : BOOLEAN]]
Statuses  == UNION {[R -> {"running", "completed", "error"}] : R \in SUBSET Runs}
Summaries == [of : Runs \cup {NoRun, Nobody}, seen : SUBSET Event, status : Statuses]
LoadType ==
  LET Of == Runs \cup {NoRun, Nobody} IN
  {NoLoad} \cup [pc : {"asked"}, of : Of]
  \cup [pc : {"read"}, of : Of, key : Int \X Int]
  \cup [pc : {"keep"}, of : Of, key : Int \X Int, groups : SUBSET Event]
  \cup [pc : {"answer"}, of : Of, told : Summaries]

TypeOK ==
  /\ lines \in Seq(Event \cup {Bad})
  /\ fragment \in Event \cup {Bad, Nothing}
  /\ writing \in BOOLEAN /\ (writing => fragment # Nothing)
  /\ begun \in Nat /\ mtime \in Nat /\ verdict \in Runs \cup {Nobody}
  /\ polls \in [PollSlots -> PollType]
  /\ offset \in Nat /\ lastId \in Nat /\ up \in BOOLEAN /\ stale \in BOOLEAN
  /\ wire \in Seq([events : SUBSET Event, next : Nat])
  /\ page \in Runs \cup {NoRun}
  /\ received \subseteq Event /\ watch \in Watches
  /\ summary \in Summaries
  /\ loads \in [LoadSlots -> LoadType]
  /\ cache \in [key : Int \X Int, groups : SUBSET Event]
  /\ faults \in Nat /\ moves \in Nat

\* Polls overlap, frames are lost with their connection and lines are caught
\* half written, and still the page has received every event of its run that
\* lies before the id it would resume from.
NothingIsSkipped ==
  ~stale => OfRun(Between(0, lastId), page) \subseteq received

\* RunStore never answers from the cache with an older log: while the key of
\* the cache is the log's, its groups are the log, however loads interleave
\* with appends, removals and each other.
FreshListing == cache.key = CacheKey => cache.groups = Visible

\* A page that stays on a run, or on the list, comes to show every event of it
\* and its own, current summary and status, past lost connections, torn lines,
\* polls that move the offset back and the late answer of a run shown before.
PageCatchesUp ==
  \A r \in Runs \cup {NoRun} :
    <>[](page = r /\ ~stale) =>
      <>[](CASE watch # "store" -> OfRun(Visible, r) \subseteq received
             [] r = NoRun -> summary = Told(r, Visible)
             [] OfRun(Visible, r) # {} -> summary = Told(r, OfRun(Visible, r))
             [] OTHER -> TRUE)
=============================================================================
