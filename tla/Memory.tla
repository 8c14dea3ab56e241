------------------------------ MODULE Memory ------------------------------
(***************************************************************************)
(* What an agent learns: IndividualMemoryStore, which records memories and *)
(* saves them to and loads them from a file of JSON lines, and             *)
(* CandidatePluginRegistry, which promotes a plugin once it has been       *)
(* verified on two tasks.  Stores and registries live in memory; files     *)
(* outlive the process.                                                    *)
(*                                                                         *)
(* Nothing but tests calls save, load and the registry: who calls them,    *)
(* with which file and when is a free choice, within what they accept.     *)
(***************************************************************************)
EXTENDS Integers, FiniteSets, Sequences, SequencesExt

CONSTANTS
  Owners,
  Files,        \* file -> the agents that save to it
  Candidates,   \* candidate -> its verificationTaskIds
  VerifyTasks,  \* the tasks a caller may report
  MaxMemories,  \* bound: memories an agent records, over all processes
  MaxLines,     \* bound: lines of a file
  MaxCrashes    \* bound: restarts of the process

ASSUME MemoryAssumption ==
  /\ \A f \in DOMAIN Files : Files[f] \subseteq Owners
  /\ \A c \in DOMAIN Candidates : IsFiniteSet(Candidates[c])
  /\ MaxMemories \in Nat /\ MaxLines \in Nat /\ MaxCrashes \in Nat

VARIABLES
  store,      \* per agent: the memories of its store, in order
  recorded,   \* per agent: memories recorded so far; numbers them
  files,      \* per file: its lines
  saving,     \* the save under way: agent, file and what it has yet to write
  saved,      \* per file: memories whose save has returned
  registry,   \* per candidate: the tasks that verified it, and its status
  passed,     \* the verifications a caller has reported, as <<candidate, task>>
  crashes

storeVars == <<store, recorded, files, saving, saved>>
pluginVars == <<registry, passed>>
memoryVars == <<storeVars, pluginVars, crashes>>

Memories == [agent : Owners, id : 1..MaxMemories]
Fragment == [id |-> 0]     \* the end of a file whose last line was cut short
Torn     == [id |-> -1]    \* such a line with what ran into it
NoSave   == [idle |-> TRUE]

MemoryInit ==
  /\ store = [a \in Owners |-> <<>>] /\ recorded = [a \in Owners |-> 0]
  /\ files = [f \in DOMAIN Files |-> <<>>]
  /\ saving = NoSave /\ saved = [f \in DOMAIN Files |-> {}]
  /\ registry = <<>> /\ passed = {}
  /\ crashes = 0

------------------------------------------------------------------------------
\* record.
Record(a) ==
  /\ recorded[a] < MaxMemories
  /\ recorded' = [recorded EXCEPT ![a] = @ + 1]
  /\ store' = [store EXCEPT ![a] = Append(@, [agent |-> a, id |-> recorded'[a]])]
  /\ UNCHANGED <<files, saving, saved, pluginVars, crashes>>

\* save appends everything the store holds, also what an earlier save or load
\* has in the file already ...
BeginSave(a, f) ==
  /\ saving = NoSave /\ a \in Files[f]
  /\ Len(files[f]) + Len(store[a]) <= MaxLines
  /\ saving' = [file |-> f, left |-> store[a], all |-> store[a]]
  /\ UNCHANGED <<store, recorded, files, saved, pluginVars, crashes>>

\* ... line by line; the first one runs into a fragment that a crash left.
\* Bug: the file is opened for writing, not for appending.
WriteLine_Overwrites ==
  /\ saving # NoSave /\ saving.left # <<>>
  /\ files' = [files EXCEPT ![saving.file] =
                 Append(IF saving.left = saving.all THEN <<>> ELSE @, Head(saving.left))]
  /\ saving' = [saving EXCEPT !.left = Tail(@)]
  /\ UNCHANGED <<store, recorded, saved, pluginVars, crashes>>
WriteLine ==
  /\ saving # NoSave /\ saving.left # <<>>
  /\ files' = [files EXCEPT ![saving.file] =
                 IF @ # <<>> /\ Last(@) = Fragment THEN Append(Front(@), Torn)
                 ELSE Append(@, Head(saving.left))]
  /\ saving' = [saving EXCEPT !.left = Tail(@)]
  /\ UNCHANGED <<store, recorded, saved, pluginVars, crashes>>

EndSave ==
  /\ saving # NoSave /\ saving.left = <<>>
  /\ saved' = [saved EXCEPT ![saving.file] = @ \cup Range(saving.all)]
  /\ saving' = NoSave
  /\ UNCHANGED <<store, recorded, files, pluginVars, crashes>>

\* load refuses a file with a line that is no memory, or another agent's, and
\* otherwise adds all of it to the store.
Loads(a, f) == Range(files[f]) \subseteq {m \in Memories : m.agent = a}

Load(a, f) ==
  /\ Loads(a, f)
  /\ Len(store[a]) + Len(files[f]) <= MaxLines
  /\ store' = [store EXCEPT ![a] = @ \o files[f]]
  /\ UNCHANGED <<recorded, files, saving, saved, pluginVars, crashes>>

------------------------------------------------------------------------------
\* assertCandidatePlugin: what a registry may hold.
IsCandidatePlugin(candidate) ==
  /\ candidate.status \in {"candidate", "verified"}
  /\ candidate.status = "verified" => Len(candidate.by) >= 2

Put(c, candidate) == [d \in DOMAIN registry \cup {c} |-> IF d = c THEN candidate ELSE registry[d]]

\* create.
Create(c) ==
  /\ c \notin DOMAIN registry
  /\ LET candidate == [by |-> <<>>, status |-> "candidate"]
     IN  IsCandidatePlugin(candidate) /\ registry' = Put(c, candidate)
  /\ UNCHANGED <<storeVars, passed, crashes>>

\* The tasks that verified a candidate, after one more verdict.
\* Bug: a task that verifies it again counts again.
Verifiers_Recounted(by, t, succeeded) == IF succeeded THEN Append(by, t) ELSE by
Verifiers(by, t, succeeded) ==
  IF succeeded /\ t \notin Range(by) THEN Append(by, t) ELSE by

\* recordVerification, which refuses tasks the candidate was not created with.
Verify(c, t, succeeded) ==
  /\ c \in DOMAIN registry /\ t \in Candidates[c]
  /\ LET by        == Verifiers(registry[c].by, t, succeeded)
         candidate == [by |-> by,
                       status |-> IF Len(by) >= 2 THEN "verified" ELSE "candidate"]
     IN  IsCandidatePlugin(candidate) /\ registry' = Put(c, candidate)
  /\ passed' = IF succeeded THEN passed \cup {<<c, t>>} ELSE passed
  /\ UNCHANGED <<storeVars, crashes>>

\* verifiedPlugins.
VerifiedPlugins == {c \in DOMAIN registry : registry[c].status = "verified"}

------------------------------------------------------------------------------
\* The process ends, perhaps in the middle of a line it is writing, and another
\* begins with empty stores.
Restart ==
  /\ crashes < MaxCrashes
  /\ crashes' = crashes + 1
  /\ \/ UNCHANGED files
     \/ /\ saving # NoSave /\ saving.left # <<>>
        /\ files' = [files EXCEPT ![saving.file] =
                       IF @ # <<>> /\ Last(@) = Fragment THEN @ ELSE Append(@, Fragment)]
  /\ saving' = NoSave
  /\ store' = [a \in Owners |-> <<>>]
  /\ registry' = <<>> /\ passed' = {}
  /\ UNCHANGED <<recorded, saved>>

MemoryNext ==
  \/ \E a \in Owners : Record(a)
  \/ \E a \in Owners, f \in DOMAIN Files : BeginSave(a, f) \/ Load(a, f)
  \/ WriteLine \/ EndSave \/ Restart
  \/ \E c \in DOMAIN Candidates :
       Create(c) \/ \E t \in VerifyTasks, succeeded \in BOOLEAN : Verify(c, t, succeeded)

MemorySpec == MemoryInit /\ [][MemoryNext]_memoryVars

------------------------------------------------------------------------------
Lines == Memories \cup {Torn, Fragment}

MemoryTypeOK ==
  /\ store \in [Owners -> Seq(Memories)] /\ recorded \in [Owners -> 0..MaxMemories]
  /\ files \in [DOMAIN Files -> Seq(Lines)]
  /\ saving = NoSave \/ saving \in [file : DOMAIN Files, left : Seq(Memories), all : Seq(Memories)]
  /\ saved \in [DOMAIN Files -> SUBSET Memories]
  /\ DOMAIN registry \subseteq DOMAIN Candidates
  /\ \A c \in DOMAIN registry : /\ IsCandidatePlugin(registry[c])
                                /\ registry[c].by \in Seq(Candidates[c])
  /\ passed \subseteq (DOMAIN Candidates) \X VerifyTasks /\ crashes \in Nat
  \* a fragment is the end of its file
  /\ \A f \in DOMAIN Files : \A k \in 1..(Len(files[f]) - 1) : files[f][k] # Fragment

\* "Memory is individual state": agents may save to one file, be restarted and
\* load any file, and a store never holds a memory of another agent.
MemoryIsIndividual == \A a \in Owners : \A k \in DOMAIN store[a] : store[a][k].agent = a

\* Whoever can load a file finds in it every memory that a save has reported as
\* written, whatever was saved, loaded and cut short in between; a file that lost
\* one is refused as a whole.
LoadRestoresSaved ==
  \A a \in Owners, f \in DOMAIN Files : Loads(a, f) => saved[f] \subseteq Range(files[f])

\* A plugin is verified exactly when two different tasks it was to be verified on
\* have passed, whatever the order, repetitions and failures.
VerifiedIsEarned ==
  VerifiedPlugins =
    {c \in DOMAIN registry : \E t, u \in Candidates[c] : t # u /\ {<<c, t>>, <<c, u>>} \subseteq passed}
=============================================================================
