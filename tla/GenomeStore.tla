----------------------------- MODULE GenomeStore -----------------------------
(***************************************************************************)
(* GenomeRevisionStore (src/genome/revision-store.ts) with the services    *)
(* that write to it: seeding (experiment/evolution-loop.ts), self-rewrite  *)
(* (evolution/self-rewrite.ts) and the clone of an embryo                  *)
(* (evolution/clone.ts).                                                   *)
(*                                                                         *)
(* Each genome has a directory of its own on disk; the store keeps in      *)
(* memory what it has registered.  One loop calls the services and waits   *)
(* for each call, so a call is a step.  Candidates are built in temporary  *)
(* directories that no call outlives: they appear as values only.          *)
(*                                                                         *)
(* A directory is the content of each asset path; a hash stands for the    *)
(* content it was computed from.  Genome ids are numbers in the order they *)
(* are handed out, the base genomes first; a child is named by the genome  *)
(* it is born with.                                                        *)
(***************************************************************************)
EXTENDS Integers, FiniteSets, SequencesExt

CONSTANTS Agents,          \* the agents of the plan
          Base,            \* the base genome of each of them
          BaseFiles,       \* what a base genome's directory holds
          Paths,           \* asset paths, one for each plugin
          Contents,        \* what an asset path can hold: the code of a plugin, the
                           \* hash its manifest declares and its dependencies
          Forbidden,       \* the parts of the harness no plugin may depend on
          Absent,          \* no file at a path
          NoFiles,         \* no directory
          NoRevision,      \* nothing registered
          Answers,         \* what a model may answer when asked for mutations
          MaxGenomes, MaxFailures, MaxClaims  \* bounds: ids handed out, failures
                           \* recorded, rewrites created under an id handed out before

Files    == [Paths -> Contents \cup {Absent}]
Genomes  == 1..MaxGenomes
NoGenome == 0
Bases    == {Base[a] : a \in Agents}
Holders  == Agents \cup Genomes

\* What a model answers is a list of candidates, each of some kind.
Mutations == [kind : STRING, name : Paths \cup {Absent}, other : Paths \cup {Absent}]

ASSUME BoundsType  == MaxGenomes \in Nat /\ MaxFailures \in Nat /\ MaxClaims \in Nat
ASSUME BaseType    == Base \in [Agents -> Genomes] /\ Bases = 1..Cardinality(Bases)
ASSUME FilesType   == BaseFiles \in Files /\ Absent \notin Contents /\ NoFiles \notin Files
ASSUME PathsFinite == IsFiniteSet(Paths)
ASSUME AnswersType == Answers \subseteq [type : STRING, mutations : Seq(Mutations)]

VARIABLES
  unseeded,   \* agents of the plan without a genome yet
  issued,     \* ids handed out
  disk,       \* the directory of each genome
  revisions, history, active,   \* the maps of the store
  failures,   \* failures recorded by the two services
  claimed     \* history: <<agent, genome>>, a rewrite of the agent was created under
              \* the id of a genome that had been handed out before

store == <<revisions, history, active>>
vars  == <<unseeded, issued, disk, store, failures, claimed>>

Revisions == [genome : Genomes, agent : Holders, plugins : Seq(Paths), hash : Files]
PluginLists == {SetToSeq(P) : P \in SUBSET Paths}
Edits       == UNION {[P -> Contents] : P \in SUBSET Paths}
-----------------------------------------------------------------------------
Init ==
  /\ unseeded = Agents /\ issued = Cardinality(Bases)
  /\ disk      = [g \in Genomes |-> NoFiles]
  /\ revisions = [g \in Genomes |-> NoRevision]
  /\ history   = [h \in Holders |-> <<>>]
  /\ active    = [h \in Holders |-> NoGenome]
  /\ failures  = 0
  /\ claimed   = {}

\* cp(..., force: false): files that are there already stay as they are.
Merged(g, source) ==
  IF disk[g] = NoFiles THEN source
  ELSE [p \in Paths |-> IF disk[g][p] = Absent THEN source[p] ELSE disk[g][p]]

\* The end of create: the revision is kept and becomes its agent's genome.
Register(r) ==
  /\ disk'      = [disk EXCEPT ![r.genome] = r.hash]
  /\ revisions' = [revisions EXCEPT ![r.genome] = r]
  /\ history'   = [history EXCEPT ![r.agent] = Append(@, r)]
  /\ active'    = [active EXCEPT ![r.agent] = r.genome]

\* create, for a manifest hashed over the directory it is copied from.  A
\* directory whose hash does not match is removed.
Create(r) ==
  IF Merged(r.genome, r.hash) = r.hash
  THEN Register(r) /\ UNCHANGED failures
  ELSE /\ disk' = [disk EXCEPT ![r.genome] = NoFiles]
       /\ failures' = failures + 1
       /\ UNCHANGED store

Fail == failures' = failures + 1 /\ UNCHANGED <<disk, store>>

\* A fresh id: randomUUID, or a new one in the planner's manifest.
Fresh(g) == g = issued + 1 /\ g \in Genomes /\ issued' = g

\* The genome of h is registered and its directory is there.
Readable(h) == active[h] # NoGenome /\ disk[active[h]] # NoFiles

\* validateDependencies: a plugin asks for nothing of the harness itself.
Allowed(needs) == needs \cap Forbidden = {}

\* loadPlugin: the file is there and is the one its manifest was written for.
Loads(content) == content # Absent /\ Allowed(content.needs)
                                   /\ content.declared = content.code

\* loadPlugin accepts every plugin the manifest lists.
Boots(files, plugins) == \A i \in DOMAIN plugins : Loads(files[plugins[i]])

\* Bug: the manifest is registered before its hash is computed.
SeedPending(a) ==
  /\ a \in unseeded
  /\ unseeded' = unseeded \ {a}
  /\ Create([genome |-> Base[a], agent |-> a, plugins |-> SetToSeq(Paths),
          hash |-> NoFiles])
  /\ UNCHANGED <<issued, claimed>>

\* seedGenerationZero, for one agent: the base genome is stamped with its name.
Seed(a) ==
  /\ a \in unseeded
  /\ unseeded' = unseeded \ {a}
  /\ Create([genome |-> Base[a], agent |-> a, plugins |-> SetToSeq(Paths),
          hash |-> BaseFiles])
  /\ UNCHANGED <<issued, claimed>>

\* The edits of a plan applied to a copy of the genome.
Edited(files, edits) == [p \in Paths |-> IF p \in DOMAIN edits THEN edits[p] ELSE files[p]]

\* Bug: the boot test loads the copy before the edits are written.
PassesBeforeEdits(a, plugins, edits) == Readable(a) /\ Boots(disk[active[a]], plugins)

\* What a candidate must pass: its parent is copied, edited and booted.
Passes(a, plugins, edits) ==
  Readable(a) /\ Boots(Edited(disk[active[a]], edits), plugins)

\* The genome a plan asks for.  The manifest of the plan is taken as the model
\* sent it, and is the active one if none was sent: it names a new genome or any
\* that was handed out, its own agent's or another's.
PlansFor(g) == Fresh(g) \/ (g \in 1..issued /\ UNCHANGED issued)

Claims(a, g) ==
  IF g \in 1..issued
  THEN <<a, g>> \notin claimed /\ Cardinality(claimed) < MaxClaims
       /\ claimed' = claimed \cup {<<a, g>>}
  ELSE UNCHANGED claimed

\* Bug: the plan is applied to the active directory, not to a copy.
RewriteLive(a, g) ==
  /\ unseeded = {} /\ failures < MaxFailures
  /\ PlansFor(g)
  /\ Readable(a)
  /\ \E edits \in Edits : disk' = [disk EXCEPT ![active[a]] = Edited(@, edits)]
  /\ failures' = failures + 1
  /\ UNCHANGED <<unseeded, store, claimed>>

\* SelfRewriteService.rewrite, for whatever plugins and edits the plan has.
Rewrite(a, g) ==
  /\ unseeded = {} /\ failures < MaxFailures
  /\ PlansFor(g)
  /\ \/ /\ Claims(a, g)
        /\ \E plugins \in PluginLists, edits \in Edits :
             /\ Passes(a, plugins, edits)
             /\ Create([genome |-> g, agent |-> a, plugins |-> plugins,
                        hash |-> Edited(disk[active[a]], edits)])
     \/ /\ ~\A plugins \in PluginLists, edits \in Edits : Passes(a, plugins, edits)
        /\ Fail /\ UNCHANGED claimed
  /\ UNCHANGED unseeded

\* toMutation keeps a candidate that names what its kind needs; one that
\* deletes or copies must name a plugin of the parent.
IsMutation(m, plugins) ==
  \/ m.kind \in {"add-plugin", "modify-workflow", "modify-policy", "create-tool"}
     /\ m.name # Absent
  \/ m.kind = "delete-plugin" /\ m.name \in Range(plugins)
  \/ m.kind = "copy-plugin"   /\ m.name \in Range(plugins) /\ m.other # Absent
  \/ m.kind = "modify-plugin" /\ m.name # Absent /\ m.other # Absent

\* planMutations: an error and an answer of another type propose nothing.
Proposed(answer) == IF answer.type = "mutations" THEN answer.mutations ELSE <<>>

AddUnique(plugins, p) == IF p \in Range(plugins) THEN plugins ELSE Append(plugins, p)

\* applyMutations, on the plugins of the manifest.  Replacing a plugin that is
\* not listed (any more) is an error, and ends the embryo.
Mutate(plugins, m) ==
  CASE m.kind = "add-plugin"     -> AddUnique(plugins, m.name)
    [] m.kind = "copy-plugin"    -> AddUnique(plugins, m.other)
    [] m.kind = "delete-plugin"  -> RemoveFirst(plugins, m.name)
    [] m.kind = "modify-plugin"  ->
         IF m.name \in Range(plugins)
         THEN ReplaceAt(plugins, SelectInSeq(plugins, LAMBDA p : p = m.name), m.other)
         ELSE NoFiles
    [] OTHER                     -> plugins

\* parseMutations passes over what is no mutation of the parent's plugins, each
\* candidate by itself; after an error nothing is applied.
Taken(m, parent, plugins) ==
  IF plugins # NoFiles /\ IsMutation(m, parent) THEN Mutate(plugins, m) ELSE plugins

\* The plugins after each of the candidates.
After(plugins, candidates) ==
  LET after[n \in 0..Len(candidates)] ==
        IF n = 0 THEN plugins ELSE Taken(candidates[n], plugins, after[n - 1])
  IN  after

Mutated(plugins, answer) == After(plugins, Proposed(answer))[Len(Proposed(answer))]

\* An embryo that qualifies: its mutations apply and what it lists can be loaded.
Qualifies(a, answer) ==
  /\ Readable(a)
  /\ LET plugins == Mutated(revisions[active[a]].plugins, answer)
     IN plugins # NoFiles /\ Boots(disk[active[a]], plugins)

\* Bug: the embryo is registered first and tested afterwards.
CloneThenTest(a, g, answer) ==
  /\ unseeded = {} /\ failures < MaxFailures
  /\ Fresh(g) /\ Readable(a)
  /\ Register([genome |-> g, agent |-> g, plugins |-> revisions[active[a]].plugins,
               hash |-> disk[active[a]]])
  /\ failures' = failures + (IF Qualifies(a, answer) THEN 0 ELSE 1)
  /\ UNCHANGED <<unseeded, claimed>>

\* Bug: the child keeps its parent's genome id.
CloneKeepingId(a, g, answer) ==
  /\ unseeded = {} /\ failures < MaxFailures
  /\ Fresh(g) /\ Readable(a)
  /\ Create([genome |-> active[a], agent |-> g, plugins |-> revisions[active[a]].plugins,
             hash |-> disk[active[a]]])
  /\ UNCHANGED <<unseeded, claimed>>

\* CloneEmbryoService.clone, for a parent that has paid.
Clone(a, g, answer) ==
  /\ unseeded = {} /\ failures < MaxFailures
  /\ Fresh(g)
  /\ \/ /\ Qualifies(a, answer)
        /\ Create([genome |-> g, agent |-> g, hash |-> disk[active[a]],
                   plugins |-> Mutated(revisions[active[a]].plugins, answer)])
     \/ ~Qualifies(a, answer) /\ Fail
  /\ UNCHANGED <<unseeded, claimed>>

\* GenomeRevisionStore.clone: a copy of a registered genome, untested.
CloneRevision(parent, g) ==
  /\ unseeded = {}
  /\ revisions[parent] # NoRevision /\ disk[parent] # NoFiles
  /\ Fresh(g)
  /\ Create([genome |-> g, agent |-> g, plugins |-> revisions[parent].plugins,
             hash |-> disk[parent]])
  /\ UNCHANGED <<unseeded, claimed>>

\* rollback names a revision of the agent; the manifest on disk gives the genome.
Rollback(h, i) ==
  /\ unseeded = {}
  /\ i \in DOMAIN history[h]
  /\ disk[history[h][i].genome] # NoFiles
  /\ active' = [active EXCEPT ![h] = history[h][i].genome]
  /\ UNCHANGED <<unseeded, issued, disk, revisions, history, failures, claimed>>

\* The history of h without genome g, in the order it has.
Others(h, g)  == {i \in DOMAIN history[h] : history[h][i].genome # g}
Place(i, S)   == Cardinality({j \in S : j <= i})
Without(h, g) == [k \in 1..Cardinality(Others(h, g)) |->
                    history[h][CHOOSE i \in Others(h, g) : Place(i, Others(h, g)) = k]]

\* remove: whoever lived by the genome goes back to the last one it has left.
RemoveRevision(g) ==
  /\ unseeded = {}
  /\ revisions[g] # NoRevision
  /\ disk'      = [disk EXCEPT ![g] = NoFiles]
  /\ revisions' = [revisions EXCEPT ![g] = NoRevision]
  /\ history'   = [h \in Holders |-> Without(h, g)]
  /\ active'    = [h \in Holders |->
                     IF active[h] # g THEN active[h]
                     ELSE IF Without(h, g) = <<>> THEN NoGenome
                     ELSE Last(Without(h, g)).genome]
  /\ UNCHANGED <<unseeded, issued, failures, claimed>>

Next ==
  \/ \E a \in Agents : Seed(a)
  \/ \E a \in Agents, g \in Genomes : Rewrite(a, g)
  \/ \E a \in Agents, g \in Genomes, answer \in Answers : Clone(a, g, answer)
  \/ \E parent, g \in Genomes : CloneRevision(parent, g)
  \/ \E h \in Holders : \E i \in DOMAIN history[h] : Rollback(h, i)
  \/ \E g \in Genomes : RemoveRevision(g)

Spec == Init /\ [][Next]_vars
-----------------------------------------------------------------------------
TypeOK ==
  /\ unseeded \subseteq Agents /\ issued \in 0..MaxGenomes /\ failures \in Nat
  /\ disk \in [Genomes -> Files \cup {NoFiles}]
  /\ revisions \in [Genomes -> Revisions \cup {NoRevision}]
  /\ history \in [Holders -> Seq(Revisions)]
  /\ active \in [Holders -> Genomes \cup {NoGenome}]
  /\ claimed \subseteq Agents \X Genomes

\* Whose rewrites were created under the id of g after it was handed out.
Claimants(g) == {a \in Agents : <<a, g>> \in claimed}

\* Rollback-safe (GenomeRevisionStore): every revision an agent has had can still
\* be gone back to, and its directory holds what was validated when it was
\* accepted, unless a rewrite was created under the id of that very genome.
HistoryIsRestorable ==
  \A h \in Holders : \A i \in DOMAIN history[h] :
    LET r == history[h][i]
    IN  disk[r.genome] = r.hash \/ Claimants(r.genome) # {}

\* Whatever is active can be loaded: no rewrite, clone, rollback or removal
\* leaves an agent with a plugin that does not load (the boot tests of the two
\* services).  Its directory is gone only if a rewrite was created under its id.
ActiveBoots ==
  \A h \in Holders : active[h] # NoGenome =>
    /\ disk[active[h]] = NoFiles => Claimants(active[h]) # {}
    /\ disk[active[h]] # NoFiles => Boots(disk[active[h]], revisions[active[h]].plugins)

\* The genome an agent lives by is stamped with its own name (the agentId that
\* create registers it for).  It bears another's only after a rewrite plan of
\* just that other agent named this genome's id.
GenomeBelongsToAgent ==
  \A h \in Holders : active[h] # NoGenome =>
    revisions[active[h]].agent \in {h} \cup Claimants(active[h])

\* A rewrite or embryo that fails enters nothing in the store, and the only
\* directory it may take away is that of a genome whose id a rewrite was created
\* under (the catch branches of SelfRewriteService and CloneEmbryoService).
FailureChangesNothing ==
  [][failures' # failures =>
       /\ UNCHANGED store
       /\ \A g \in Genomes : Claimants(g)' = {} => disk'[g] = disk[g]]_vars

\* What src/README.md:326 says: "A failed Self-Rewrite does not change the active
\* Genome", the files of its directory included.
FailureKeepsActiveGenome ==
  [][failures' # failures =>
       \A a \in Agents : active[a] # NoGenome =>
         /\ active'[a] = active[a]
         /\ disk'[active[a]] = disk[active[a]]]_vars
=============================================================================
