------------------------- MODULE GenomeStore_proofs -------------------------
(***************************************************************************)
(* Proofs about GenomeStore, for any agents, base genomes, assets, answers *)
(* and bounds: its types; whose genomes they are; that histories stay,     *)
(* that what is active loads and that failures change nothing, whichever   *)
(* genome ids the rewrite plans name.                                      *)
(***************************************************************************)
EXTENDS GenomeStore, SequenceTheorems, FiniteSetTheorems, WellFoundedInduction, TLAPS

\* In a finite set of numbers every place from the first to the last is taken.
LEMMA PlacesAreTaken ==
  ASSUME NEW n \in Nat, NEW S \in SUBSET (1..n)
  PROVE  /\ Cardinality(S) \in Nat
         /\ \A k \in 1..Cardinality(S) : \E i \in S : Place(i, S) = k
<1> DEFINE c    == Cardinality(S)
           B(i) == {j \in S : j <= i}
           f    == [i \in S |-> Place(i, S)]
<1>0. IsFiniteSet(S) /\ c \in Nat
  <2>1. IsFiniteSet(1..n)
    BY FS_Interval
  <2>2. IsFiniteSet(S)
    BY <2>1, FS_Subset
  <2> QED BY <2>2, FS_CardinalityType
<1>a. \A i \in S : i \in Int
  OBVIOUS
<1>1. ASSUME NEW i \in S PROVE IsFiniteSet(B(i)) /\ i \in B(i) /\ Place(i, S) \in 1..c
  <2>1. B(i) \in SUBSET S /\ i \in B(i)
    BY <1>a
  <2>2. IsFiniteSet(B(i)) /\ Cardinality(B(i)) <= c /\ Cardinality(B(i)) \in Nat
    BY <1>0, <2>1, FS_Subset, FS_CardinalityType
  <2>3. Cardinality(B(i)) # 0
    BY <2>1, <2>2, FS_EmptySet
  <2> QED BY <1>0, <2>1, <2>2, <2>3 DEF Place
<1>2. ASSUME NEW i \in S, NEW j \in S, i < j PROVE Place(i, S) # Place(j, S)
  <2>0. i \in Int /\ j \in Int /\ \A k \in S : k \in Int
    BY <1>a
  <2>1. B(i) \in SUBSET B(j) /\ j \in B(j) /\ j \notin B(i)
    <3>1. \A k \in S : k <= i => k <= j
      BY <1>2, <2>0
    <3>2. j <= j /\ ~(j <= i)
      BY <1>2, <2>0
    <3> QED BY <3>1, <3>2
  <2>2. B(i) # B(j)
    BY <2>1
  <2>3. Cardinality(B(i)) # Cardinality(B(j))
    BY <1>1, <2>1, <2>2, FS_Subset
  <2> QED BY <2>3 DEF Place
<1>3. f \in [S -> 1..c] /\ \A i, j \in S : f[i] = f[j] => i = j
  <2>1. ASSUME NEW i \in S, NEW j \in S, i # j PROVE Place(i, S) # Place(j, S)
    <3>1. i < j \/ j < i
      BY <1>a, <2>1
    <3> QED BY <1>2, <3>1
  <2>2. \A i \in S : Place(i, S) \in 1..c
    BY <1>1
  <2> QED BY <2>1, <2>2
<1> HIDE DEF f
<1>4. f \in Injection(S, 1..c)
  <2>1. DOMAIN f = S
    BY <1>3
  <2> QED BY <1>3, <2>1, Zenon DEF Injection, IsInjective
<1>5. IsFiniteSet(1..c) /\ Cardinality(1..c) = c
  BY <1>0, FS_Interval
<1>6. f \in Surjection(S, 1..c)
  BY <1>4, <1>5, FS_Injection
<1>7. \A k \in 1..c : \E i \in S : f[i] = k
  BY <1>6 DEF Surjection
<1> QED BY <1>0, <1>7 DEF f

\* What is left of a history was there before, and is of another genome.
Listed(s) == Len(s) \in Nat /\ DOMAIN s = 1..Len(s) /\ s \in Seq(Range(s))

LEMMA WithoutIsOthers ==
  ASSUME NEW h, NEW g, Listed(history[h])
  PROVE  /\ Listed(Without(h, g))
         /\ \A k \in DOMAIN Without(h, g) :
              \E i \in DOMAIN history[h] : /\ Without(h, g)[k] = history[h][i]
                                           /\ history[h][i].genome # g
<1> DEFINE S == Others(h, g)
           c == Cardinality(S)
           w == Without(h, g)
           nth(k) == CHOOSE i \in S : Place(i, S) = k
<1>1. S \in SUBSET (1..Len(history[h])) /\ Len(history[h]) \in Nat
      /\ \A i \in S : i \in DOMAIN history[h] /\ history[h][i].genome # g
  BY DEF Listed, Others
<1>2. c \in Nat /\ \A k \in 1..c : \E i \in S : Place(i, S) = k
  BY <1>1, PlacesAreTaken
<1>3. w = [k \in 1..c |-> history[h][nth(k)]]
  BY DEF Without
<1> HIDE DEF S, w
<1>4. \A k \in 1..c : nth(k) \in S
  BY <1>2
<1> HIDE DEF nth, c
<1>5. \A k \in 1..c : w[k] = history[h][nth(k)]
  BY <1>3
<1>6. DOMAIN w = 1..c /\ Len(w) = c
  BY <1>2, <1>3
<1>7. w \in Seq(Range(w))
  <2>1. w \in [1..c -> Range(w)]
    BY <1>3 DEF Range
  <2> QED BY <1>2, <2>1
<1>8. \A k \in 1..c : \E i \in DOMAIN history[h] : w[k] = history[h][i] /\ history[h][i].genome # g
  BY <1>1, <1>4, <1>5
<1> QED BY <1>2, <1>6, <1>7, <1>8 DEF Listed, w
-----------------------------------------------------------------------------
\* Whatever an agent has or has had is on disk, a revision with the content it
\* was accepted with, unless its id was claimed by a rewrite; ids ahead of issued have no directory, and nothing but
\* base genomes is there before the plan is seeded.
StoreInv ==
  /\ unseeded \subseteq Agents
  /\ issued \in Nat /\ Bases \subseteq 1..issued
  /\ disk \in [Genomes -> Files \cup {NoFiles}]
  /\ DOMAIN revisions = Genomes /\ revisions = [g \in Genomes |-> revisions[g]]
  /\ DOMAIN history = Holders /\ history = [h \in Holders |-> history[h]]
  /\ active \in [Holders -> Genomes \cup {NoGenome}]
  /\ \A h \in Holders : Listed(history[h])
  /\ \A g \in Genomes : g > issued => disk[g] = NoFiles
  /\ unseeded # {} => \A g \in Genomes : disk[g] \in {NoFiles, BaseFiles}
  /\ \A h \in Holders : \A i \in DOMAIN history[h] :
       history[h][i].genome \in Genomes /\ history[h][i].hash \in Files
  /\ \A g \in Genomes : Claimants(g) = {} =>
       /\ \A h \in Holders : active[h] = g => disk[g] # NoFiles
       /\ \A h \in Holders : \A i \in DOMAIN history[h] :
            history[h][i].genome = g => disk[g] = history[h][i].hash

BootInv == \A g \in Genomes : disk[g] # NoFiles => Boots(disk[g], revisions[g].plugins)

LEMMA BaseFacts ==
  /\ IsFiniteSet(Bases) /\ Cardinality(Bases) \in Nat /\ Bases = 1..Cardinality(Bases)
  /\ \A a \in Agents : Base[a] \in Genomes /\ Base[a] \in Bases
<1>1. \A a \in Agents : Base[a] \in Genomes /\ Base[a] \in Bases
  BY BaseType DEF Bases
<1>2. Bases \in SUBSET (1..MaxGenomes)
  BY <1>1 DEF Bases, Genomes
<1>3. IsFiniteSet(1..MaxGenomes)
  BY BoundsType, FS_Interval
<1>4. IsFiniteSet(Bases)
  BY <1>2, <1>3, FS_Subset
<1> QED BY <1>1, <1>4, FS_CardinalityType, BaseType

LEMMA GenomeFacts ==
  /\ NoGenome \notin Genomes /\ NoFiles \notin Files /\ BaseFiles \in Files
  /\ \A g \in Genomes : g \in Nat /\ g # 0 /\ g \in Holders
  /\ \A a \in Agents : a \in Holders
BY BoundsType, FilesType DEF Genomes, NoGenome, Holders

\* What was claimed stays claimed.
LEMMA ClaimsStay ==
  ASSUME claimed \subseteq claimed', NEW g
  PROVE  Claimants(g) \subseteq Claimants(g)'
BY DEF Claimants

\* What a call brings about: it registers a revision, leaves the store alone, or
\* takes away the directory of a genome whose id it claimed.
Registers(r) ==
  /\ r.genome \in Genomes /\ r.agent \in Holders /\ r.hash \in Files
  /\ disk[r.genome] \in {NoFiles, r.hash} \/ Claimants(r.genome)' # {}
  /\ claimed \subseteq claimed'
  /\ unseeded' \subseteq unseeded /\ (unseeded' # {} => r.hash = BaseFiles)
  /\ issued' \in Nat /\ issued <= issued' /\ r.genome <= issued'
  /\ Register(r) /\ failures' = failures

KeepsStore == /\ issued' \in Nat /\ issued <= issued' /\ claimed \subseteq claimed'
         /\ UNCHANGED <<unseeded, disk, store>>

Loses(g) == /\ Claimants(g)' # {} /\ claimed \subseteq claimed'
            /\ disk' = [disk EXCEPT ![g] = NoFiles] /\ UNCHANGED <<unseeded, issued, store>>

\* A genome of a rewrite or a clone, whose plugins load or were taken over with their directory.
Born(r) ==
  /\ Registers(r) /\ unseeded = {}
  /\ \/ Boots(r.hash, r.plugins)
     \/ \E g \in Genomes : /\ disk[g] # NoFiles /\ r.hash = disk[g]
                           /\ r.plugins = revisions[g].plugins

LEMMA CreateFresh ==
  ASSUME StoreInv, NEW r, unseeded = {}, unseeded' = unseeded, Fresh(r.genome), Create(r),
         r.agent \in Holders, r.hash \in Files, claimed' = claimed
  PROVE  Registers(r)
<1>1. r.genome \in Genomes /\ r.genome = issued + 1 /\ issued' = r.genome /\ issued \in Nat
  BY DEF Fresh, StoreInv
<1>2. disk[r.genome] = NoFiles
  BY <1>1, GenomeFacts DEF StoreInv
<1>3. Merged(r.genome, r.hash) = r.hash
  BY <1>2 DEF Merged
<1>4. Register(r) /\ failures' = failures
  BY <1>3 DEF Create
<1> QED BY <1>1, <1>2, <1>4 DEF Registers

LEMMA CreateClaimed ==
  ASSUME StoreInv, NEW r, unseeded = {}, unseeded' = unseeded, issued' = issued, Create(r),
         r.genome \in Genomes, r.genome \in 1..issued, r.agent \in Agents, r.hash \in Files,
         claimed' = claimed \cup {<<r.agent, r.genome>>}
  PROVE  Registers(r) \/ Loses(r.genome)
<1>1. Claimants(r.genome)' # {} /\ claimed \subseteq claimed'
  BY DEF Claimants
<1>2. issued \in Nat /\ r.genome <= issued /\ r.agent \in Holders
  BY GenomeFacts DEF StoreInv
<1>3. CASE Register(r) /\ UNCHANGED failures
  BY <1>1, <1>2, <1>3 DEF Registers
<1>4. CASE disk' = [disk EXCEPT ![r.genome] = NoFiles] /\ UNCHANGED store
  BY <1>1, <1>4 DEF Loses
<1> QED BY <1>3, <1>4 DEF Create

LEMMA SeedRegisters ==
  ASSUME StoreInv, NEW a \in Agents, Seed(a)
  PROVE  /\ Registers([genome |-> Base[a], agent |-> a, plugins |-> SetToSeq(Paths),
                       hash |-> BaseFiles])
         /\ a \in unseeded /\ unseeded' = unseeded \ {a} /\ issued' = issued
<1> DEFINE r == [genome |-> Base[a], agent |-> a, plugins |-> SetToSeq(Paths), hash |-> BaseFiles]
<1>1. /\ r.genome = Base[a] /\ r.agent = a /\ r.hash = BaseFiles /\ Create(r)
      /\ a \in unseeded /\ unseeded' = unseeded \ {a} /\ issued' = issued
      /\ claimed' = claimed
  BY DEF Seed
<1> HIDE DEF r
<1>2. r.genome \in Genomes /\ r.genome \in Bases /\ r.agent \in Holders /\ r.hash \in Files
  BY <1>1, BaseFacts, GenomeFacts
<1>3. issued \in Nat /\ r.genome <= issued
  BY <1>2 DEF StoreInv
<1>4. disk[r.genome] \in {NoFiles, BaseFiles}
  BY <1>1, <1>2 DEF StoreInv
<1>5. Merged(r.genome, r.hash) = r.hash
  <2>1. CASE disk[r.genome] = NoFiles
    BY <2>1 DEF Merged
  <2>2. CASE disk[r.genome] = BaseFiles
    <3>1. BaseFiles \in [Paths -> Contents \cup {Absent}] /\ BaseFiles # NoFiles
      BY FilesType DEF Files
    <3>2. [p \in Paths |-> IF BaseFiles[p] = Absent THEN BaseFiles[p] ELSE BaseFiles[p]] = BaseFiles
      BY <3>1
    <3> QED BY <1>1, <2>2, <3>1, <3>2 DEF Merged
  <2> QED BY <1>4, <2>1, <2>2
<1>6. Register(r) /\ failures' = failures
  BY <1>1, <1>5 DEF Create
<1>7. Registers(r)
  BY <1>1, <1>2, <1>3, <1>4, <1>6 DEF Registers
<1> QED BY <1>1, <1>7 DEF r

LEMMA EditedType ==
  ASSUME NEW files \in Files, NEW edits \in Edits
  PROVE  Edited(files, edits) \in Files
<1>1. PICK P \in SUBSET Paths : edits \in [P -> Contents]
  BY DEF Edits
<1>2. \A p \in Paths : p \in DOMAIN edits => edits[p] \in Contents
  BY <1>1
<1> QED BY <1>2 DEF Edited, Files

LEMMA ReadableType ==
  ASSUME StoreInv, NEW h \in Holders, Readable(h)
  PROVE  active[h] \in Genomes /\ disk[active[h]] \in Files /\ disk[active[h]] # NoFiles
BY DEF StoreInv, Readable

LEMMA FreshIssues == StoreInv /\ (\E g : Fresh(g)) => issued' \in Nat /\ issued <= issued'
BY DEF StoreInv, Fresh

LEMMA RewriteDoes ==
  ASSUME StoreInv, NEW a \in Agents, NEW g \in Genomes, Rewrite(a, g)
  PROVE  KeepsStore \/ (\E r : Born(r)) \/ Loses(g)
<1>1. /\ unseeded = {} /\ unseeded' = unseeded /\ PlansFor(g)
      /\ \/ \E plugins \in PluginLists, edits \in Edits :
              /\ Passes(a, plugins, edits)
              /\ Create([genome |-> g, agent |-> a, plugins |-> plugins,
                         hash |-> Edited(disk[active[a]], edits)])
              /\ Claims(a, g)
         \/ Fail /\ UNCHANGED claimed
  BY DEF Rewrite
<1>0. issued \in Nat /\ issued' \in Nat /\ issued <= issued'
  BY <1>1, FreshIssues DEF PlansFor, StoreInv
<1>2. CASE Fail /\ UNCHANGED claimed
  BY <1>0, <1>1, <1>2 DEF Fail, KeepsStore
<1>3. ASSUME NEW plugins \in PluginLists, NEW edits \in Edits, Passes(a, plugins, edits),
             Create([genome |-> g, agent |-> a, plugins |-> plugins,
                     hash |-> Edited(disk[active[a]], edits)]),
             Claims(a, g)
      PROVE  (\E r : Born(r)) \/ Loses(g)
  <2> DEFINE r == [genome |-> g, agent |-> a, plugins |-> plugins,
                   hash |-> Edited(disk[active[a]], edits)]
  <2>1. /\ r.genome = g /\ r.agent = a /\ r.plugins = plugins
        /\ r.hash = Edited(disk[active[a]], edits)
    OBVIOUS
  <2>2. Passes(a, plugins, edits) /\ Create(r)
    BY <1>3
  <2> HIDE DEF r
  <2>3. r.agent \in Holders /\ r.hash \in Files /\ Boots(r.hash, r.plugins)
    BY <2>1, <2>2, GenomeFacts, ReadableType, EditedType DEF Passes
  <2>4. CASE Fresh(g)
    <3>1. ~(g \in 1..issued)
      BY <1>0, <2>4 DEF Fresh
    <3>2. claimed' = claimed
      BY <1>3, <3>1 DEF Claims
    <3>3. Registers(r)
      BY <1>1, <2>1, <2>2, <2>3, <2>4, <3>2, CreateFresh
    <3> QED BY <1>1, <2>3, <3>3 DEF Born
  <2>5. CASE g \in 1..issued /\ issued' = issued
    <3>1. claimed' = claimed \cup {<<a, g>>}
      BY <1>3, <2>5 DEF Claims
    <3>2. Registers(r) \/ Loses(g)
      BY <1>1, <2>1, <2>2, <2>3, <2>5, <3>1, CreateClaimed
    <3> QED BY <1>1, <2>3, <3>2 DEF Born
  <2> QED BY <1>1, <2>4, <2>5 DEF PlansFor
<1> QED BY <1>1, <1>2, <1>3

LEMMA CloneDoes ==
  ASSUME StoreInv, NEW a \in Agents, NEW g, NEW answer, Clone(a, g, answer)
  PROVE  KeepsStore \/ \E r : Born(r)
<1>1. /\ unseeded = {} /\ unseeded' = unseeded /\ Fresh(g) /\ claimed' = claimed
      /\ \/ /\ Qualifies(a, answer)
            /\ Create([genome |-> g, agent |-> g, hash |-> disk[active[a]],
                       plugins |-> Mutated(revisions[active[a]].plugins, answer)])
         \/ Fail
  BY DEF Clone
<1>2. CASE Fail
  BY <1>1, <1>2, FreshIssues DEF Fail, KeepsStore
<1>3. CASE ~Fail
  <2> DEFINE plugins == Mutated(revisions[active[a]].plugins, answer)
  <2>0. Qualifies(a, answer) /\ Boots(disk[active[a]], plugins)
    BY <1>1, <1>3 DEF Qualifies
  <2> HIDE DEF plugins
  <2> DEFINE r == [genome |-> g, agent |-> g, hash |-> disk[active[a]], plugins |-> plugins]
  <2>1. r.genome = g /\ r.agent = g /\ r.plugins = plugins /\ r.hash = disk[active[a]]
    OBVIOUS
  <2>2. Create(r)
    BY <1>1, <1>3 DEF plugins
  <2> HIDE DEF r
  <2>3. r.agent \in Holders /\ r.hash \in Files /\ Boots(r.hash, r.plugins)
    BY <1>1, <2>0, <2>1, GenomeFacts, ReadableType DEF Qualifies, Fresh
  <2>4. Registers(r)
    BY <1>1, <2>1, <2>2, <2>3, CreateFresh
  <2> QED BY <1>1, <2>3, <2>4 DEF Born
<1> QED BY <1>2, <1>3

LEMMA CloneRevisionDoes ==
  ASSUME StoreInv, NEW parent \in Genomes, NEW g, CloneRevision(parent, g)
  PROVE  \E r : Born(r)
<1> DEFINE r == [genome |-> g, agent |-> g, plugins |-> revisions[parent].plugins,
                 hash |-> disk[parent]]
<1>1. /\ r.genome = g /\ r.agent = g /\ r.plugins = revisions[parent].plugins
      /\ r.hash = disk[parent]
  OBVIOUS
<1>2. /\ unseeded = {} /\ unseeded' = unseeded /\ Fresh(g) /\ Create(r)
      /\ disk[parent] # NoFiles /\ claimed' = claimed
  BY DEF CloneRevision
<1> HIDE DEF r
<1>3. r.agent \in Holders /\ r.hash \in Files
  BY <1>1, <1>2, GenomeFacts DEF StoreInv, Fresh
<1>4. Registers(r)
  BY <1>1, <1>2, <1>3, CreateFresh
<1> QED BY <1>1, <1>2, <1>4 DEF Born

\* Every step of the loop is one of these.
LEMMA StepDoes ==
  ASSUME StoreInv, [Next]_vars
  PROVE  \/ \E a \in Agents : Seed(a)
         \/ \E r : Born(r)
         \/ KeepsStore
         \/ \E g \in Genomes : Loses(g)
         \/ \E h \in Holders : \E i \in DOMAIN history[h] : Rollback(h, i)
         \/ \E g \in Genomes : RemoveRevision(g)
<1>1. CASE UNCHANGED vars
  BY <1>1 DEF vars, KeepsStore, StoreInv
<1>2. CASE Next
  BY <1>2, RewriteDoes, CloneDoes, CloneRevisionDoes DEF Next
<1> QED BY <1>1, <1>2
-----------------------------------------------------------------------------
LEMMA StoreInit == Init => StoreInv
<1> SUFFICES ASSUME Init PROVE StoreInv
  OBVIOUS
<1>1. /\ unseeded = Agents /\ issued = Cardinality(Bases)
      /\ disk = [g \in Genomes |-> NoFiles] /\ revisions = [g \in Genomes |-> NoRevision]
      /\ history = [h \in Holders |-> <<>>] /\ active = [h \in Holders |-> NoGenome]
  BY DEF Init
<1>2. issued \in Nat /\ Bases \subseteq 1..issued
  BY <1>1, BaseFacts
<1>3. \A h \in Holders : history[h] = <<>>
  BY <1>1
<1>4. Listed(<<>>)
  BY DEF Listed
<1>5. \A h \in Holders : DOMAIN history[h] = {}
  BY <1>3
<1>6. \A h \in Holders, g \in Genomes : active[h] # g
  BY <1>1, GenomeFacts
<1> QED BY <1>1, <1>2, <1>3, <1>4, <1>5, <1>6 DEF StoreInv

LEMMA ListedAppend ==
  ASSUME NEW s, Listed(s), NEW r
  PROVE  /\ Listed(Append(s, r)) /\ Len(Append(s, r)) = Len(s) + 1
         /\ \A i \in DOMAIN Append(s, r) :
              \/ i \in DOMAIN s /\ Append(s, r)[i] = s[i]
              \/ Append(s, r)[i] = r
<1> DEFINE S == Range(s) \cup {r}
           t == Append(s, r)
           n == Len(s)
<1>1. s \in Seq(S) /\ r \in S /\ n \in Nat /\ DOMAIN s = 1..n
  <2>1. s \in Seq(Range(s)) /\ Range(s) \subseteq S
    BY DEF Listed
  <2>2. \A i \in 1..Len(s) : s[i] \in S
    BY <2>1 DEF Listed, Range
  <2>3. s \in [1..Len(s) -> S]
    BY <2>2, <2>1 DEF Listed
  <2>4. Len(s) \in Nat
    BY DEF Listed
  <2> HIDE DEF S
  <2> QED BY <2>3, <2>4 DEF Listed, S
<1> HIDE DEF S, n
<1>2. /\ t \in Seq(S) /\ Len(t) = n + 1
      /\ \A i \in 1..n : t[i] = s[i]
      /\ t[n + 1] = r
  BY <1>1, AppendProperties DEF n
<1> HIDE DEF t
<1>3. DOMAIN t = 1..(n + 1) /\ Len(t) \in Nat /\ t \in [1..(n + 1) -> S]
  BY <1>1, <1>2
<1>4. t \in Seq(Range(t))
  <2>1. t \in [1..(n + 1) -> Range(t)]
    BY <1>3 DEF Range
  <2> QED BY <1>1, <2>1
<1>5. \A i \in 1..(n + 1) : i \in 1..n \/ i = n + 1
  BY <1>1
<1> QED BY <1>1, <1>2, <1>3, <1>4, <1>5 DEF Listed, t, n

LEMMA RegisterKeeps ==
  ASSUME StoreInv, NEW r, Registers(r)
  PROVE  StoreInv'
<1> DEFINE g == r.genome
           h == r.agent
<1>1. /\ g \in Genomes /\ h \in Holders /\ r.hash \in Files /\ r.hash # NoFiles
      /\ disk[g] \in {NoFiles, r.hash} \/ Claimants(g)' # {}
      /\ unseeded' \subseteq unseeded /\ (unseeded' # {} => r.hash = BaseFiles)
      /\ issued' \in Nat /\ issued <= issued' /\ g <= issued' /\ issued \in Nat
      /\ disk' = [disk EXCEPT ![g] = r.hash] /\ revisions' = [revisions EXCEPT ![g] = r]
      /\ history' = [history EXCEPT ![h] = Append(@, r)] /\ active' = [active EXCEPT ![h] = g]
  BY GenomeFacts DEF Registers, Register, StoreInv
<1>2. /\ disk' \in [Genomes -> Files \cup {NoFiles}] /\ disk'[g] = r.hash
      /\ \A k \in Genomes : k # g => disk'[k] = disk[k]
  BY <1>1 DEF StoreInv
<1>9. \A k : Claimants(k) \subseteq Claimants(k)'
  BY ClaimsStay DEF Registers
<1> HIDE DEF g, h
<1>3. /\ unseeded' \subseteq Agents /\ Bases \subseteq 1..issued'
      /\ DOMAIN revisions' = Genomes /\ revisions' = [k \in Genomes |-> revisions'[k]]
      /\ DOMAIN history' = Holders /\ history' = [k \in Holders |-> history'[k]]
      /\ active' \in [Holders -> Genomes \cup {NoGenome}]
  <2>1. unseeded' \subseteq Agents
    BY <1>1 DEF StoreInv
  <2>2. Bases \subseteq 1..issued'
    BY <1>1 DEF StoreInv
  <2>3. DOMAIN revisions' = Genomes /\ revisions' = [k \in Genomes |-> revisions'[k]]
    BY <1>1 DEF StoreInv
  <2>4. DOMAIN history' = Holders /\ history' = [k \in Holders |-> history'[k]]
    BY <1>1 DEF StoreInv
  <2>5. active' \in [Holders -> Genomes \cup {NoGenome}]
    BY <1>1 DEF StoreInv
  <2> QED BY <2>1, <2>2, <2>3, <2>4, <2>5
<1>4. \A k \in Genomes : k > issued' => disk'[k] = NoFiles
  <2> SUFFICES ASSUME NEW k \in Genomes, k > issued' PROVE disk'[k] = NoFiles
    OBVIOUS
  <2>1. k \in Nat /\ g \in Nat
    BY <1>1, GenomeFacts
  <2>2. k # g /\ k > issued
    BY <1>1, <2>1
  <2> QED BY <1>2, <2>2 DEF StoreInv
<1>5. unseeded' # {} => \A k \in Genomes : disk'[k] \in {NoFiles, BaseFiles}
  BY <1>1, <1>2 DEF StoreInv
<1>6. ASSUME NEW f \in Genomes, Claimants(f)' = {}, NEW k \in Holders, active'[k] = f
      PROVE  disk'[f] # NoFiles
  <2>0. Claimants(f) = {}
    BY <1>6, <1>9
  <2>1. CASE f = g
    BY <1>1, <1>2, <2>1
  <2>2. CASE f # g
    <3>1. active'[k] = active[k]
      BY <1>1, <1>6, <2>2 DEF StoreInv
    <3>2. disk[f] # NoFiles
      BY <1>6, <2>0, <3>1 DEF StoreInv
    <3> QED BY <1>2, <1>6, <2>2, <3>2
  <2> QED BY <2>1, <2>2
<1>7. /\ \A k \in Holders : Listed(history'[k])
      /\ \A k \in Holders : \A i \in DOMAIN history'[k] :
           history'[k][i] = r \/ (i \in DOMAIN history[k] /\ history'[k][i] = history[k][i])
  <2> SUFFICES ASSUME NEW k \in Holders
               PROVE  /\ Listed(history'[k])
                      /\ \A i \in DOMAIN history'[k] :
                           history'[k][i] = r \/ (i \in DOMAIN history[k] /\ history'[k][i] = history[k][i])
    OBVIOUS
  <2>1. Listed(history[k])
    BY DEF StoreInv
  <2>2. CASE k = h
    <3>1. history'[k] = Append(history[k], r)
      BY <1>1, <2>2 DEF StoreInv
    <3> QED BY <2>1, <3>1, ListedAppend
  <2>3. CASE k # h
    <3>1. history'[k] = history[k]
      BY <1>1, <2>3 DEF StoreInv
    <3> QED BY <2>1, <3>1
  <2> QED BY <2>2, <2>3
<1>8. \A k \in Holders : \A i \in DOMAIN history'[k] :
        history'[k][i].genome \in Genomes /\ history'[k][i].hash \in Files
  <2> SUFFICES ASSUME NEW k \in Holders, NEW i \in DOMAIN history'[k]
               PROVE  history'[k][i].genome \in Genomes /\ history'[k][i].hash \in Files
    OBVIOUS
  <2>1. CASE history'[k][i] = r
    BY <1>1, <2>1 DEF g
  <2>2. CASE i \in DOMAIN history[k] /\ history'[k][i] = history[k][i]
    BY <2>2 DEF StoreInv
  <2> QED BY <1>7, <2>1, <2>2
<1>10. ASSUME NEW f \in Genomes, Claimants(f)' = {}, NEW k \in Holders,
              NEW i \in DOMAIN history'[k], history'[k][i].genome = f
       PROVE  disk'[f] = history'[k][i].hash
  <2>0. Claimants(f) = {}
    BY <1>9, <1>10
  <2>1. CASE history'[k][i] = r
    BY <1>2, <1>10, <2>1 DEF g
  <2>2. CASE i \in DOMAIN history[k] /\ history'[k][i] = history[k][i]
    <3> DEFINE e == history[k][i]
    <3>1. e.genome = f /\ e.hash \in Files /\ disk[f] = e.hash
      BY <1>10, <2>0, <2>2 DEF StoreInv
    <3>2. f = g => e.hash = r.hash
      BY <1>1, <1>10, <3>1, GenomeFacts
    <3>3. disk'[f] = e.hash
      BY <1>2, <1>10, <3>1, <3>2
    <3> QED BY <2>2, <3>3
  <2> QED BY <1>7, <1>10, <2>1, <2>2
<1> QED BY <1>1, <1>2, <1>3, <1>4, <1>5, <1>6, <1>7, <1>8, <1>10 DEF StoreInv

LEMMA KeepsStoreKeeps == StoreInv /\ KeepsStore => StoreInv'
<1> SUFFICES ASSUME StoreInv, KeepsStore PROVE StoreInv'
  OBVIOUS
<1>1. /\ UNCHANGED <<unseeded, disk, revisions, history, active>>
      /\ issued' \in Nat /\ issued <= issued' /\ issued \in Nat
  BY DEF KeepsStore, store, StoreInv
<1>2. Bases \subseteq 1..issued'
  BY <1>1 DEF StoreInv
<1>3. \A g \in Genomes : g > issued' => g > issued
  BY <1>1, GenomeFacts
<1>4. \A g : Claimants(g)' = {} => Claimants(g) = {}
  BY ClaimsStay DEF KeepsStore
<1> QED BY <1>1, <1>2, <1>3, <1>4 DEF StoreInv

LEMMA LosesKeeps ==
  ASSUME StoreInv, NEW g \in Genomes, Loses(g)
  PROVE  StoreInv'
<1>1. /\ UNCHANGED <<unseeded, issued, revisions, history, active>>
      /\ Claimants(g)' # {} /\ \A f : Claimants(f)' = {} => Claimants(f) = {}
  BY ClaimsStay DEF Loses, store
<1>2. /\ disk' \in [Genomes -> Files \cup {NoFiles}] /\ disk'[g] = NoFiles
      /\ \A f \in Genomes : f # g => disk'[f] = disk[f]
  BY DEF Loses, StoreInv
<1>3. \A f \in Genomes : Claimants(f)' = {} => f # g /\ disk'[f] = disk[f] /\ Claimants(f) = {}
  BY <1>1, <1>2
<1>4. \A f \in Genomes : disk'[f] \in {NoFiles, disk[f]}
  BY <1>2
<1> QED BY <1>1, <1>2, <1>3, <1>4 DEF StoreInv

LEMMA RollbackKeeps ==
  ASSUME StoreInv, NEW h \in Holders, NEW i \in DOMAIN history[h], Rollback(h, i)
  PROVE  /\ StoreInv' /\ UNCHANGED <<unseeded, issued, disk, revisions, history>>
         /\ history[h][i].genome \in Genomes
         /\ active' = [active EXCEPT ![h] = history[h][i].genome]
<1>1. /\ history[h][i].genome \in Genomes /\ disk[history[h][i].genome] # NoFiles
      /\ active' = [active EXCEPT ![h] = history[h][i].genome]
      /\ UNCHANGED <<unseeded, issued, disk, revisions, history>>
  BY DEF Rollback, StoreInv
<1>2. active' \in [Holders -> Genomes \cup {NoGenome}]
  BY <1>1 DEF StoreInv
<1>3. \A g : Claimants(g)' = Claimants(g)
  BY DEF Rollback, Claimants
<1>4. \A k \in Holders : active'[k] = IF k = h THEN history[h][i].genome ELSE active[k]
  BY <1>1 DEF StoreInv
<1>5. ASSUME NEW f \in Genomes, Claimants(f) = {}, NEW k \in Holders, active'[k] = f
      PROVE  disk'[f] # NoFiles
  BY <1>1, <1>4, <1>5 DEF StoreInv
<1> QED BY <1>1, <1>2, <1>3, <1>5 DEF StoreInv

\* What both invariants of the maps say of their shape.
Shapes ==
  /\ unseeded \subseteq Agents
  /\ DOMAIN revisions = Genomes /\ revisions = [g \in Genomes |-> revisions[g]]
  /\ DOMAIN history = Holders /\ history = [h \in Holders |-> history[h]]
  /\ active \in [Holders -> Genomes \cup {NoGenome}]
  /\ \A h \in Holders : Listed(history[h])
  /\ \A h \in Holders : \A i \in DOMAIN history[h] : history[h][i].genome \in Genomes

LEMMA StoreShapes == StoreInv => Shapes
BY DEF StoreInv, Shapes

\* What is left after a removal, of histories and of active genomes.
LEMMA RemovalLeaves ==
  ASSUME Shapes, NEW g \in Genomes, RemoveRevision(g)
  PROVE  /\ unseeded = {} /\ UNCHANGED <<unseeded, issued, claimed>>
         /\ disk' = [disk EXCEPT ![g] = NoFiles]
         /\ revisions' = [revisions EXCEPT ![g] = NoRevision]
         /\ DOMAIN history' = Holders /\ history' = [h \in Holders |-> history'[h]]
         /\ active' \in [Holders -> Genomes \cup {NoGenome}]
         /\ \A h \in Holders :
              /\ Listed(history'[h])
              /\ \A k \in DOMAIN history'[h] :
                   \E i \in DOMAIN history[h] : /\ history'[h][k] = history[h][i]
                                                /\ history[h][i].genome # g
              /\ active'[h] # NoGenome =>
                   \/ active'[h] = active[h] /\ active[h] # g
                   \/ \E i \in DOMAIN history[h] : /\ active'[h] = history[h][i].genome
                                                   /\ history[h][i].genome # g
<1>1. /\ unseeded = {} /\ UNCHANGED <<unseeded, issued, claimed>>
      /\ disk' = [disk EXCEPT ![g] = NoFiles]
      /\ revisions' = [revisions EXCEPT ![g] = NoRevision]
      /\ history' = [h \in Holders |-> Without(h, g)]
      /\ active' = [h \in Holders |->
                     IF active[h] # g THEN active[h]
                     ELSE IF Without(h, g) = <<>> THEN NoGenome
                     ELSE Last(Without(h, g)).genome]
  BY DEF RemoveRevision
<1>2. ASSUME NEW h \in Holders
      PROVE  /\ Listed(history'[h])
             /\ \A k \in DOMAIN history'[h] :
                  \E i \in DOMAIN history[h] : /\ history'[h][k] = history[h][i]
                                               /\ history[h][i].genome # g
  <2>1. Listed(history[h]) /\ history'[h] = Without(h, g)
    BY <1>1 DEF Shapes
  <2> QED BY <2>1, WithoutIsOthers
<1>3. ASSUME NEW h \in Holders, active'[h] # NoGenome
      PROVE  \/ active'[h] = active[h] /\ active[h] # g
             \/ \E i \in DOMAIN history[h] : /\ active'[h] = history[h][i].genome
                                             /\ history[h][i].genome # g
  <2>1. CASE active[h] # g
    BY <1>1, <2>1
  <2>2. CASE active[h] = g
    <3> DEFINE w == history'[h]
    <3>1. w = Without(h, g) /\ Listed(w)
      BY <1>1, <1>2
    <3>2. w # <<>> /\ active'[h] = Last(w).genome
      BY <1>1, <1>3, <2>2, <3>1
    <3> HIDE DEF w
    <3>3. Len(w) # 0
      BY <3>1, <3>2, EmptySeq DEF Listed
    <3>4. Len(w) \in DOMAIN w /\ active'[h] = w[Len(w)].genome
      BY <3>1, <3>2, <3>3 DEF Listed, Last
    <3> QED BY <1>2, <3>4 DEF w
  <2> QED BY <2>1, <2>2
<1>4. active' \in [Holders -> Genomes \cup {NoGenome}]
  <2>1. ASSUME NEW h \in Holders PROVE active'[h] \in Genomes \cup {NoGenome}
    BY <1>3 DEF Shapes
  <2> QED BY <1>1, <2>1
<1> QED BY <1>1, <1>2, <1>3, <1>4

LEMMA RemoveKeeps ==
  ASSUME StoreInv, NEW g \in Genomes, RemoveRevision(g)
  PROVE  StoreInv'
<1>0. Shapes
  BY StoreShapes
<1>1. /\ \A k \in Genomes : k # g => disk'[k] = disk[k]
      /\ disk' \in [Genomes -> Files \cup {NoFiles}] /\ disk'[g] = NoFiles
  BY <1>0, RemovalLeaves DEF StoreInv
<1>2. \A k \in Genomes : k > issued' => disk'[k] = NoFiles
  BY <1>1, <1>0, RemovalLeaves DEF StoreInv
<1>3. DOMAIN revisions' = Genomes /\ revisions' = [k \in Genomes |-> revisions'[k]]
  BY <1>0, RemovalLeaves DEF StoreInv
<1>7. \A f : Claimants(f)' = Claimants(f)
  BY <1>0, RemovalLeaves DEF Claimants
<1>4. ASSUME NEW f \in Genomes, Claimants(f)' = {}, NEW h \in Holders, active'[h] = f
      PROVE  disk'[f] # NoFiles
  <2>0. Claimants(f) = {} /\ active'[h] # NoGenome
    BY <1>4, <1>7, GenomeFacts
  <2>1. CASE active'[h] = active[h] /\ active[h] # g
    BY <1>1, <1>4, <2>0, <2>1 DEF StoreInv
  <2>2. ASSUME NEW i \in DOMAIN history[h], active'[h] = history[h][i].genome,
               history[h][i].genome # g
        PROVE  disk'[f] # NoFiles
    <3>1. history[h][i].hash \in Files /\ disk[f] = history[h][i].hash
      BY <1>4, <2>0, <2>2 DEF StoreInv
    <3> QED BY <1>1, <1>4, <2>2, <3>1, GenomeFacts
  <2> QED BY <2>0, <2>1, <2>2, <1>0, RemovalLeaves
<1>5. ASSUME NEW h \in Holders, NEW k \in DOMAIN history'[h]
      PROVE  /\ history'[h][k].genome \in Genomes /\ history'[h][k].hash \in Files
             /\ \A f \in Genomes : Claimants(f)' = {} /\ history'[h][k].genome = f =>
                  disk'[f] = history'[h][k].hash
  <2>1. PICK i \in DOMAIN history[h] : history'[h][k] = history[h][i] /\ history[h][i].genome # g
    BY <1>0, RemovalLeaves
  <2>2. /\ history[h][i].genome \in Genomes /\ history[h][i].hash \in Files
        /\ \A f \in Genomes : Claimants(f) = {} /\ history[h][i].genome = f =>
             disk[f] = history[h][i].hash
    BY DEF StoreInv
  <2> QED BY <1>1, <1>7, <2>1, <2>2
<1>6. /\ unseeded' \subseteq Agents /\ unseeded' = {} /\ issued' \in Nat /\ Bases \subseteq 1..issued'
      /\ DOMAIN history' = Holders /\ history' = [h \in Holders |-> history'[h]]
      /\ active' \in [Holders -> Genomes \cup {NoGenome}]
      /\ \A h \in Holders : Listed(history'[h])
  BY <1>0, RemovalLeaves DEF StoreInv
<1> QED BY <1>1, <1>2, <1>3, <1>4, <1>5, <1>6, <1>7 DEF StoreInv

LEMMA StoreNext == StoreInv /\ [Next]_vars => StoreInv'
<1> SUFFICES ASSUME StoreInv, [Next]_vars PROVE StoreInv'
  OBVIOUS
<1>1. ASSUME NEW a \in Agents, Seed(a) PROVE StoreInv'
  BY <1>1, SeedRegisters, RegisterKeeps
<1>2. ASSUME NEW r, Born(r) PROVE StoreInv'
  BY <1>2, RegisterKeeps DEF Born
<1> QED BY <1>1, <1>2, StepDoes, KeepsStoreKeeps, LosesKeeps, RollbackKeeps, RemoveKeeps
-----------------------------------------------------------------------------
BaseBoots == Boots(BaseFiles, SetToSeq(Paths))

LEMMA BootNext ==
  ASSUME BaseBoots, StoreInv, BootInv, [Next]_vars
  PROVE  BootInv'
<1>1. ASSUME NEW r, Registers(r), Boots(r.hash, r.plugins) PROVE BootInv'
  <2>1. /\ disk' = [disk EXCEPT ![r.genome] = r.hash] /\ r.genome \in Genomes
        /\ revisions' = [revisions EXCEPT ![r.genome] = r]
    BY <1>1 DEF Registers, Register
  <2>2. ASSUME NEW g \in Genomes, disk'[g] # NoFiles PROVE Boots(disk'[g], revisions'[g].plugins)
    <3>1. CASE g = r.genome
      <4>1. disk'[g] = r.hash /\ revisions'[g] = r
        BY <2>1, <3>1 DEF StoreInv
      <4> QED BY <1>1, <4>1
    <3>2. CASE g # r.genome
      <4>1. disk'[g] = disk[g] /\ revisions'[g] = revisions[g]
        BY <2>1, <3>2 DEF StoreInv
      <4> QED BY <2>2, <4>1 DEF BootInv
    <3> QED BY <3>1, <3>2
  <2> QED BY <2>2 DEF BootInv
<1>2. ASSUME NEW a \in Agents, Seed(a) PROVE BootInv'
  <2> DEFINE r == [genome |-> Base[a], agent |-> a, plugins |-> SetToSeq(Paths), hash |-> BaseFiles]
  <2>1. Registers(r)
    BY <1>2, SeedRegisters
  <2>2. r.hash = BaseFiles /\ r.plugins = SetToSeq(Paths)
    OBVIOUS
  <2> HIDE DEF r
  <2>3. Boots(r.hash, r.plugins)
    BY <2>2 DEF BaseBoots
  <2> QED BY <1>1, <2>1, <2>3
<1>3. ASSUME NEW r, Born(r) PROVE BootInv'
  <2>1. Registers(r) /\ Boots(r.hash, r.plugins)
    BY <1>3 DEF Born, BootInv
  <2> QED BY <1>1, <2>1
<1>4. CASE KeepsStore
  BY <1>4 DEF KeepsStore, store, BootInv
<1>5. ASSUME NEW h \in Holders, NEW i \in DOMAIN history[h], Rollback(h, i) PROVE BootInv'
  BY <1>5 DEF Rollback, BootInv
<1>6. ASSUME NEW g \in Genomes, RemoveRevision(g) PROVE BootInv'
  <2>1. /\ disk' = [disk EXCEPT ![g] = NoFiles] /\ revisions' = [revisions EXCEPT ![g] = NoRevision]
    BY <1>6 DEF RemoveRevision
  <2>2. /\ disk'[g] = NoFiles
        /\ \A k \in Genomes : k # g => disk'[k] = disk[k] /\ revisions'[k] = revisions[k]
    BY <2>1 DEF StoreInv
  <2> QED BY <2>2 DEF BootInv
<1>7. ASSUME NEW g \in Genomes, Loses(g) PROVE BootInv'
  <2>1. revisions' = revisions /\ disk'[g] = NoFiles /\ \A k \in Genomes : k # g => disk'[k] = disk[k]
    BY <1>7 DEF Loses, store, StoreInv
  <2> QED BY <2>1 DEF BootInv
<1> QED BY <1>2, <1>3, <1>4, <1>5, <1>6, <1>7, StepDoes

LEMMA BootInit == Init => BootInv
BY DEF Init, BootInv

\* Rollback-safe (revision-store.ts): whatever agents, assets, answers and plans,
\* each revision an agent has had is still on disk as it was validated, unless a
\* rewrite was created under its id.
THEOREM HistoryStays == Spec => []HistoryIsRestorable
<1>1. StoreInv => HistoryIsRestorable
  BY DEF StoreInv, HistoryIsRestorable
<1>2. StoreInv /\ [Next]_vars => StoreInv'
  BY StoreNext
<1> QED BY <1>1, <1>2, StoreInit, PTL DEF Spec

\* No rewrite, clone, rollback or removal leaves an agent with a genome that
\* does not load (the boot test of SelfRewriteService and CloneEmbryoService),
\* if the base genomes load; its directory is there unless its id was claimed.
THEOREM ActiveGenomesBoot ==
  ASSUME BaseBoots
  PROVE  Spec => []ActiveBoots
<1>1. StoreInv /\ BootInv => ActiveBoots
  BY DEF StoreInv, BootInv, ActiveBoots
<1>2. StoreInv /\ BootInv /\ [Next]_vars => StoreInv' /\ BootInv'
  BY StoreNext, BootNext
<1> QED BY <1>1, <1>2, StoreInit, BootInit, PTL DEF Spec

\* A rewrite or an embryo that fails leaves the store as it was, and every
\* directory but that of a claimed id (the catch branches of
\* SelfRewriteService.rewrite and CloneEmbryoService.clone).
THEOREM FailuresAreHarmless == Spec => FailureChangesNothing
<1> DEFINE Harmless == /\ UNCHANGED store
                       /\ \A g \in Genomes : Claimants(g)' = {} => disk'[g] = disk[g]
<1>1. ASSUME StoreInv, [Next]_vars, failures' # failures PROVE Harmless
  <2>1. ASSUME NEW a \in Agents, Seed(a) PROVE FALSE
    <3>1. failures' = failures
      BY <1>1, <2>1, SeedRegisters DEF Registers
    <3> QED BY <1>1, <3>1
  <2>2. ASSUME NEW r, Born(r) PROVE FALSE
    BY <1>1, <2>2 DEF Born, Registers
  <2>3. ASSUME NEW h \in Holders, NEW i \in DOMAIN history[h], Rollback(h, i) PROVE FALSE
    BY <1>1, <2>3 DEF Rollback
  <2>4. ASSUME NEW g \in Genomes, RemoveRevision(g) PROVE FALSE
    BY <1>1, <2>4 DEF RemoveRevision
  <2>5. KeepsStore => Harmless
    BY DEF KeepsStore
  <2>6. ASSUME NEW g \in Genomes, Loses(g) PROVE Harmless
    BY <2>6 DEF Loses, StoreInv
  <2> QED BY <1>1, <2>1, <2>2, <2>3, <2>4, <2>5, <2>6, StepDoes
<1>2. StoreInv /\ [Next]_vars => (failures' # failures => Harmless)
  BY <1>1
<1>3. StoreInv /\ [Next]_vars => StoreInv'
  BY StoreNext
<1> QED BY <1>2, <1>3, StoreInit, PTL DEF Spec, FailureChangesNothing
-----------------------------------------------------------------------------
(* Types.  The plugins of a revision are a list of paths, whatever mutations *)
(* they went through.                                                        *)

\* Numbers that are not none have a first.
LEMMA FirstOfSome ==
  ASSUME NEW S \in SUBSET Nat, S # {}
  PROVE  \E x \in S : \A y \in S : x <= y
<1>1. PICK x \in S : \A y \in S : ~(<<y, x>> \in OpToRel(<, Nat))
  BY WFMin, NatLessThanWellFounded
<1>2. ASSUME NEW y \in S PROVE x <= y
  <2>1. ~(y < x)
    BY <1>1 DEF OpToRel
  <2> QED BY <2>1
<1> QED BY <1>2

LEMMA ListOfAll ==
  ASSUME NEW P \in SUBSET Paths
  PROVE  SetToSeq(P) \in Seq(Paths)
<1> DEFINE n == Cardinality(P)
<1>1. IsFiniteSet(P) /\ n \in Nat
  BY PathsFinite, FS_Subset, FS_CardinalityType
<1>2. ExistsBijection(1..n, P)
  BY <1>1, FS_CardinalityType
<1>3. PICK f \in Bijection(1..n, P) : TRUE
  BY <1>2, Zenon DEF ExistsBijection
<1>4. f \in [1..n -> P] /\ IsInjective(f)
  BY <1>3, Zenon DEF Bijection, Injection
<1>5. SetToSeq(P) \in [1..n -> P]
  BY <1>4, Zenon DEF SetToSeq
<1> HIDE DEF n
<1>6. SetToSeq(P) \in [1..n -> Paths]
  BY <1>5
<1> QED BY <1>1, <1>6

Lists == Seq(Paths)

LEMMA ShorterIsAList ==
  ASSUME NEW s \in Lists, NEW e
  PROVE  RemoveFirst(s, e) \in Lists
<1>0. Len(s) \in Nat
  BY LenProperties DEF Lists
<1>1. CASE ~\E i \in 1..Len(s) : s[i] = e
  BY <1>1 DEF RemoveFirst
<1>2. CASE \E i \in 1..Len(s) : s[i] = e
  <2> DEFINE I == {i \in 1..Len(s) : s[i] = e}
             k == Min(I)
  <2>1. I \in SUBSET Nat /\ I # {}
    BY <1>0, <1>2
  <2>2. k \in I
    BY <2>1, FirstOfSome, Zenon DEF Min
  <2>3. RemoveFirst(s, e) = RemoveAt(s, k)
    BY <1>2, <2>1 DEF RemoveFirst, SelectInSeq
  <2>4. k \in 1..Len(s)
    BY <2>2
  <2> HIDE DEF k
  <2>5. SubSeq(s, 1, k - 1) \in Lists /\ SubSeq(s, k + 1, Len(s)) \in Lists
    BY <1>0, <2>4, SubSeqProperties DEF Lists
  <2> QED BY <2>3, <2>5, ConcatProperties DEF RemoveAt, Lists
<1> QED BY <1>1, <1>2

LEMMA TakenIsAList ==
  ASSUME NEW m \in Mutations, NEW parent, NEW s \in Lists \cup {NoFiles}
  PROVE  Taken(m, parent, s) \in Lists \cup {NoFiles}
<1>0. m.name \in Paths \cup {Absent} /\ m.other \in Paths \cup {Absent}
  BY DEF Mutations
<1>1. SUFFICES ASSUME IsMutation(m, parent), s # NoFiles PROVE Mutate(s, m) \in Lists \cup {NoFiles}
  BY DEF Taken
<1>2. s \in Lists
  BY <1>1
<1>3. \A p \in Paths : AddUnique(s, p) \in Lists
  BY <1>2, AppendProperties DEF AddUnique, Lists
<1>4. RemoveFirst(s, m.name) \in Lists
  BY <1>2, ShorterIsAList
<1>5. ASSUME NEW p \in Paths, NEW i PROVE ReplaceAt(s, i, p) \in Lists
  <2>1. s \in [1..Len(s) -> Paths] /\ Len(s) \in Nat
    BY <1>2, LenProperties DEF Lists
  <2>2. [s EXCEPT ![i] = p] \in [1..Len(s) -> Paths]
    BY <2>1
  <2> HIDE DEF Lists
  <2>3. \A n \in Nat : \A f \in [1..n -> Paths] : f \in Lists
    BY DEF Lists
  <2> QED BY <2>1, <2>2, <2>3 DEF ReplaceAt
<1>6. CASE m.kind = "add-plugin"
  <2>1. m.name \in Paths
    BY <1>0, <1>1, <1>6 DEF IsMutation
  <2> QED BY <1>1, <1>3, <1>6, <2>1 DEF Mutate
<1>7. CASE m.kind = "copy-plugin"
  <2>1. m.other \in Paths
    BY <1>0, <1>1, <1>7 DEF IsMutation
  <2> QED BY <1>1, <1>3, <1>7, <2>1 DEF Mutate
<1>8. CASE m.kind = "delete-plugin"
  BY <1>1, <1>4, <1>8 DEF Mutate
<1>9. CASE m.kind = "modify-plugin"
  <2>1. m.other \in Paths
    BY <1>0, <1>1, <1>9 DEF IsMutation
  <2> DEFINE i == SelectInSeq(s, LAMBDA p : p = m.name)
  <2>2. Mutate(s, m) \in {ReplaceAt(s, i, m.other), NoFiles}
    BY <1>1, <1>9 DEF Mutate
  <2> HIDE DEF i
  <2> QED BY <1>5, <2>1, <2>2
<1>10. CASE m.kind \notin {"add-plugin", "copy-plugin", "delete-plugin", "modify-plugin"}
  <2>1. Mutate(s, m) = s
    BY <1>1, <1>10 DEF Mutate
  <2> QED BY <1>2, <2>1
<1> QED BY <1>6, <1>7, <1>8, <1>9, <1>10

\* The function that After defines exists, so it is what its definition says.
LEMMA AfterIsAsDefined ==
  ASSUME NEW s, NEW ms, Len(ms) \in Nat
  PROVE  After(s, ms) = [n \in 0..Len(ms) |->
           IF n = 0 THEN s ELSE Taken(ms[n], s, After(s, ms)[n - 1])]
<1> DEFINE Up(f, k) == f = [n \in 0..k |-> IF n = 0 THEN s ELSE Taken(ms[n], s, f[n - 1])]
           Bad == {k \in Nat : ~\E d : Up(d, k)}
<1>1. Bad = {}
  <2> SUFFICES ASSUME Bad # {} PROVE FALSE
    OBVIOUS
  <2>1. PICK k \in Bad : \A j \in Bad : k <= j
    <3>1. Bad \in SUBSET Nat
      OBVIOUS
    <3> HIDE DEF Bad
    <3> QED BY <3>1, FirstOfSome
  <2>2. k # 0
    <3> DEFINE z == [n \in 0..0 |-> s]
    <3>1. z = [n \in 0..0 |-> IF n = 0 THEN s ELSE Taken(ms[n], s, z[n - 1])]
      OBVIOUS
    <3>2. Up(z, 0)
      BY <3>1
    <3> QED BY <3>2
  <2>3. k \in Nat /\ k - 1 \in Nat /\ k - 1 \notin Bad
    BY <2>1, <2>2
  <2>4. PICK h : Up(h, k - 1)
    BY <2>3
  <2> DEFINE g == [n \in 0..k |-> IF n = k THEN Taken(ms[k], s, h[k - 1]) ELSE h[n]]
  <2>5. ASSUME NEW n \in 0..k
        PROVE  g[n] = IF n = 0 THEN s ELSE Taken(ms[n], s, g[n - 1])
    <3>1. CASE n = k
      <4>1. g[n - 1] = h[k - 1] /\ g[n] = Taken(ms[k], s, h[k - 1])
        BY <2>3, <3>1
      <4> QED BY <2>2, <3>1, <4>1
    <3>2. CASE n # k
      <4>1. n \in 0..(k - 1)
        BY <2>3, <3>2
      <4>2. h[n] = IF n = 0 THEN s ELSE Taken(ms[n], s, h[n - 1])
        BY <2>4, <4>1
      <4>3. g[n] = h[n]
        BY <3>2
      <4>4. n # 0 => g[n - 1] = h[n - 1]
        BY <2>3, <4>1
      <4> QED BY <4>2, <4>3, <4>4
    <3> QED BY <3>1, <3>2
  <2>6. Up(g, k)
    <3>1. g = [n \in 0..k |-> g[n]]
      OBVIOUS
    <3> HIDE DEF g
    <3>2. [n \in 0..k |-> g[n]] = [n \in 0..k |-> IF n = 0 THEN s ELSE Taken(ms[n], s, g[n - 1])]
      BY <2>5
    <3> QED BY <3>1, <3>2
  <2> QED BY <2>1, <2>6
<1>2. \E d : Up(d, Len(ms))
  BY <1>1
<1>3. After(s, ms) = CHOOSE d : Up(d, Len(ms))
  BY DEF After
<1>4. Up(After(s, ms), Len(ms))
  BY <1>2, <1>3, Zenon
<1> QED BY <1>4

LEMMA MutatedIsAList ==
  ASSUME NEW s \in Lists, NEW answer \in Answers
  PROVE  Mutated(s, answer) \in Lists \cup {NoFiles}
<1> DEFINE ms  == Proposed(answer)
           Bad == {k \in 0..Len(ms) : After(s, ms)[k] \notin Lists \cup {NoFiles}}
<1>1. ms \in Seq(Mutations)
  <2>1. answer.mutations \in Seq(Mutations)
    BY AnswersType
  <2> QED BY <2>1, EmptySeq DEF Proposed
<1>2. Len(ms) \in Nat /\ \A k \in 1..Len(ms) : ms[k] \in Mutations
  BY <1>1, LenProperties, ElementOfSeq
<1>3. Mutated(s, answer) = After(s, ms)[Len(ms)]
  BY DEF Mutated
<1> HIDE DEF ms
<1>4. \A k \in 0..Len(ms) : After(s, ms)[k] = IF k = 0 THEN s ELSE Taken(ms[k], s, After(s, ms)[k - 1])
  BY <1>2, AfterIsAsDefined
<1>5. Bad = {}
  <2> SUFFICES ASSUME Bad # {} PROVE FALSE
    OBVIOUS
  <2>1. PICK k \in Bad : \A j \in Bad : k <= j
    <3>1. Bad \in SUBSET Nat
      OBVIOUS
    <3> HIDE DEF Bad
    <3> QED BY <3>1, FirstOfSome
  <2>2. k \in 1..Len(ms) /\ k # 0
    BY <1>2, <1>4, <2>1
  <2>3. After(s, ms)[k - 1] \in Lists \cup {NoFiles}
    <3>1. k - 1 \in 0..Len(ms) /\ ~(k <= k - 1)
      BY <1>2, <2>2
    <3> QED BY <2>1, <3>1
  <2>4. Taken(ms[k], s, After(s, ms)[k - 1]) \in Lists \cup {NoFiles}
    BY <1>2, <2>2, <2>3, TakenIsAList
  <2> QED BY <1>4, <2>1, <2>2, <2>4
<1>6. Len(ms) \in 0..Len(ms)
  BY <1>2
<1> QED BY <1>3, <1>5, <1>6
-----------------------------------------------------------------------------
\* Whatever has a directory is registered.
Types == TypeOK /\ \A g \in Genomes : disk[g] # NoFiles => revisions[g] \in Revisions

LEMMA TypesInit == Init => Types
<1> SUFFICES ASSUME Init PROVE Types
  OBVIOUS
<1>1. Cardinality(Bases) \in 0..MaxGenomes
  <2>1. IsFiniteSet(1..MaxGenomes) /\ Cardinality(1..MaxGenomes) = MaxGenomes
    BY BoundsType, FS_Interval
  <2>2. Bases \subseteq 1..MaxGenomes
    BY BaseType DEF Bases, Genomes
  <2>3. Bases \in SUBSET (1..MaxGenomes)
    BY <2>2
  <2>4. Cardinality(Bases) <= Cardinality(1..MaxGenomes)
    BY <2>1, <2>3, FS_Subset
  <2> QED BY <2>1, <2>4, BaseFacts, BoundsType
<1>2. history \in [Holders -> Seq(Revisions)]
  BY EmptySeq DEF Init
<1> QED BY <1>1, <1>2 DEF Init, Types, TypeOK

LEMMA RevisionFields ==
  ASSUME NEW r \in Revisions
  PROVE  r.genome \in Genomes /\ r.agent \in Holders /\ r.plugins \in Lists /\ r.hash \in Files
BY DEF Revisions, Lists

LEMMA RevisionIs ==
  ASSUME NEW g \in Genomes, NEW h \in Holders, NEW plugins \in Lists, NEW files \in Files
  PROVE  [genome |-> g, agent |-> h, plugins |-> plugins, hash |-> files] \in Revisions
BY DEF Revisions, Lists

LEMMA CreateTypes ==
  ASSUME Types, NEW r \in Revisions, Create(r),
         unseeded' \subseteq Agents, issued' \in 0..MaxGenomes, claimed' \subseteq Agents \X Genomes
  PROVE  Types'
<1>1. r.genome \in Genomes /\ r.agent \in Holders /\ r.hash \in Files
  BY RevisionFields
<1>2. CASE Register(r) /\ UNCHANGED failures
  <2>1. /\ disk' \in [Genomes -> Files \cup {NoFiles}]
        /\ revisions' \in [Genomes -> Revisions \cup {NoRevision}]
        /\ active' \in [Holders -> Genomes \cup {NoGenome}]
    BY <1>1, <1>2 DEF Types, TypeOK, Register
  <2>2. history' \in [Holders -> Seq(Revisions)]
    <3>1. Append(history[r.agent], r) \in Seq(Revisions)
      BY <1>1, AppendProperties DEF Types, TypeOK
    <3>2. history' = [history EXCEPT ![r.agent] = Append(history[r.agent], r)]
      BY <1>2 DEF Register
    <3> QED BY <3>1, <3>2 DEF Types, TypeOK
  <2>3. ASSUME NEW g \in Genomes, disk'[g] # NoFiles PROVE revisions'[g] \in Revisions
    BY <1>1, <1>2, <2>3 DEF Types, TypeOK, Register
  <2>4. failures' \in Nat
    BY <1>2 DEF Types, TypeOK
  <2> QED BY <2>1, <2>2, <2>3, <2>4 DEF Types, TypeOK
<1>3. CASE /\ disk' = [disk EXCEPT ![r.genome] = NoFiles]
           /\ failures' = failures + 1 /\ UNCHANGED store
  BY <1>1, <1>3 DEF Types, TypeOK, store
<1> QED BY <1>2, <1>3 DEF Create

LEMMA FailTypes ==
  ASSUME Types, Fail, unseeded' \subseteq Agents, issued' \in 0..MaxGenomes,
         claimed' \subseteq Agents \X Genomes
  PROVE  Types'
BY DEF Types, TypeOK, Fail, store

LEMMA FreshTypes ==
  ASSUME Types, NEW g, Fresh(g)
  PROVE  g \in Genomes /\ issued' \in 0..MaxGenomes
BY BoundsType DEF Fresh, Genomes

LEMMA ActiveRevision ==
  ASSUME Types, NEW h \in Holders, Readable(h)
  PROVE  disk[active[h]] \in Files /\ revisions[active[h]].plugins \in Lists
<1>1. active[h] \in Genomes /\ disk[active[h]] \in Files /\ disk[active[h]] # NoFiles
  BY DEF Types, TypeOK, Readable
<1>2. revisions[active[h]] \in Revisions
  BY <1>1 DEF Types
<1> QED BY <1>1, <1>2, RevisionFields

LEMMA WithoutTypes ==
  ASSUME Types, NEW h \in Holders, NEW g
  PROVE  /\ Without(h, g) \in Seq(Revisions)
         /\ Without(h, g) # <<>> => Last(Without(h, g)).genome \in Genomes
<1> DEFINE w == Without(h, g)
<1>1. history[h] \in Seq(Revisions)
  BY DEF Types, TypeOK
<1>2. /\ Len(history[h]) \in Nat /\ DOMAIN history[h] = 1..Len(history[h])
      /\ \A i \in 1..Len(history[h]) : history[h][i] \in Revisions
  BY <1>1, LenProperties, ElementOfSeq
<1>3. Listed(history[h])
  BY <1>1, <1>2 DEF Listed, Range
<1>4. Listed(w) /\ \A k \in DOMAIN w : w[k] \in Revisions
  BY <1>2, <1>3, WithoutIsOthers
<1> HIDE DEF w
<1>5. w \in Seq(Revisions)
  <2>1. \A x \in Range(w) : x \in Revisions
    BY <1>4 DEF Range
  <2> QED BY <1>4, <2>1 DEF Listed
<1>6. ASSUME w # <<>> PROVE Last(w).genome \in Genomes
  <2>1. Len(w) \in DOMAIN w
    BY <1>5, <1>6, EmptySeq, LenProperties
  <2>2. w[Len(w)] \in Revisions
    BY <1>4, <2>1
  <2> QED BY <2>2, RevisionFields DEF Last
<1> QED BY <1>5, <1>6 DEF w

LEMMA TypesNext == Types /\ [Next]_vars => Types'
<1> SUFFICES ASSUME Types, [Next]_vars PROVE Types'
  OBVIOUS
<1>0. unseeded \subseteq Agents /\ issued \in 0..MaxGenomes /\ claimed \subseteq Agents \X Genomes
  BY DEF Types, TypeOK
<1>1. ASSUME NEW a \in Agents, Seed(a) PROVE Types'
  <2> DEFINE r == [genome |-> Base[a], agent |-> a, plugins |-> SetToSeq(Paths),
                   hash |-> BaseFiles]
  <2>1. /\ unseeded' \subseteq Agents /\ issued' \in 0..MaxGenomes /\ Create(r)
        /\ claimed' \subseteq Agents \X Genomes
    BY <1>0, <1>1 DEF Seed
  <2>2. r \in Revisions
    BY BaseFacts, GenomeFacts, ListOfAll, RevisionIs DEF Lists
  <2> HIDE DEF r
  <2> QED BY <2>1, <2>2, CreateTypes
<1>2. ASSUME NEW a \in Agents, NEW g \in Genomes, Rewrite(a, g) PROVE Types'
  <2>1. unseeded' \subseteq Agents
    BY <1>0, <1>2 DEF Rewrite
  <2>2. issued' \in 0..MaxGenomes
    BY <1>0, <1>2, FreshTypes DEF Rewrite, PlansFor
  <2>3. CASE Fail /\ UNCHANGED claimed
    BY <1>0, <2>1, <2>2, <2>3, FailTypes
  <2>4. ASSUME NEW plugins \in PluginLists, NEW edits \in Edits, Passes(a, plugins, edits),
               Create([genome |-> g, agent |-> a, plugins |-> plugins,
                       hash |-> Edited(disk[active[a]], edits)]),
               Claims(a, g)
        PROVE  Types'
    <3> DEFINE r == [genome |-> g, agent |-> a, plugins |-> plugins,
                     hash |-> Edited(disk[active[a]], edits)]
    <3>1. disk[active[a]] \in Files
      BY <2>4, ActiveRevision, GenomeFacts DEF Passes
    <3>2. plugins \in Lists
      BY ListOfAll DEF PluginLists, Lists
    <3>3. r \in Revisions
      BY <3>1, <3>2, EditedType, GenomeFacts, RevisionIs
    <3>4. claimed' \subseteq Agents \X Genomes
      BY <1>0, <2>4 DEF Claims
    <3>5. Create(r)
      BY <2>4
    <3> HIDE DEF r
    <3> QED BY <2>1, <2>2, <3>3, <3>4, <3>5, CreateTypes
  <2> QED BY <1>2, <2>3, <2>4 DEF Rewrite
<1>3. ASSUME NEW a \in Agents, NEW g \in Genomes, NEW answer \in Answers, Clone(a, g, answer)
      PROVE  Types'
  <2> DEFINE plugins == Mutated(revisions[active[a]].plugins, answer)
             r == [genome |-> g, agent |-> g, hash |-> disk[active[a]], plugins |-> plugins]
  <2>1. /\ unseeded' \subseteq Agents /\ issued' \in 0..MaxGenomes
        /\ claimed' \subseteq Agents \X Genomes
    BY <1>0, <1>3, FreshTypes DEF Clone
  <2>2. CASE Fail
    BY <2>1, <2>2, FailTypes
  <2>3. CASE Readable(a) /\ plugins # NoFiles /\ Create(r)
    <3>1. disk[active[a]] \in Files /\ plugins \in Lists
      BY <2>3, ActiveRevision, GenomeFacts, MutatedIsAList
    <3> HIDE DEF plugins
    <3>2. r = [genome |-> g, agent |-> g, plugins |-> plugins, hash |-> disk[active[a]]]
      OBVIOUS
    <3>3. r \in Revisions
      BY <3>1, <3>2, GenomeFacts, RevisionIs
    <3> HIDE DEF r
    <3> QED BY <2>1, <2>3, <3>3, CreateTypes
  <2>4. Fail \/ (Qualifies(a, answer) /\ Create(r))
    BY <1>3 DEF Clone
  <2>5. Qualifies(a, answer) => Readable(a) /\ plugins # NoFiles
    BY DEF Qualifies
  <2> HIDE DEF plugins, r
  <2> QED BY <2>2, <2>3, <2>4, <2>5
<1>4. ASSUME NEW parent \in Genomes, NEW g \in Genomes, CloneRevision(parent, g) PROVE Types'
  <2> DEFINE r == [genome |-> g, agent |-> g, plugins |-> revisions[parent].plugins,
                   hash |-> disk[parent]]
  <2>1. /\ unseeded' \subseteq Agents /\ issued' \in 0..MaxGenomes /\ Create(r)
        /\ claimed' \subseteq Agents \X Genomes
    BY <1>0, <1>4, FreshTypes DEF CloneRevision
  <2>2. disk[parent] \in Files /\ revisions[parent] \in Revisions
    BY <1>4 DEF CloneRevision, Types, TypeOK
  <2>3. r \in Revisions
    BY <2>2, RevisionFields, GenomeFacts, RevisionIs
  <2> HIDE DEF r
  <2> QED BY <2>1, <2>3, CreateTypes
<1>5. ASSUME NEW h \in Holders, NEW i \in DOMAIN history[h], Rollback(h, i) PROVE Types'
  <2>1. history[h][i] \in Revisions
    BY LenProperties, ElementOfSeq DEF Types, TypeOK
  <2>2. history[h][i].genome \in Genomes
    BY <2>1, RevisionFields
  <2> QED BY <1>5, <2>2 DEF Rollback, Types, TypeOK
<1>6. ASSUME NEW g \in Genomes, RemoveRevision(g) PROVE Types'
  <2>1. /\ unseeded' = unseeded /\ issued' = issued /\ failures' = failures /\ claimed' = claimed
        /\ disk' = [disk EXCEPT ![g] = NoFiles]
        /\ revisions' = [revisions EXCEPT ![g] = NoRevision]
        /\ history' = [h \in Holders |-> Without(h, g)]
        /\ active' = [h \in Holders |-> IF active[h] # g THEN active[h]
                                        ELSE IF Without(h, g) = <<>> THEN NoGenome
                                        ELSE Last(Without(h, g)).genome]
    BY <1>6 DEF RemoveRevision
  <2>2. history' \in [Holders -> Seq(Revisions)]
    BY <2>1, WithoutTypes
  <2>3. active' \in [Holders -> Genomes \cup {NoGenome}]
    BY <2>1, WithoutTypes DEF Types, TypeOK
  <2>4. /\ disk' \in [Genomes -> Files \cup {NoFiles}]
        /\ revisions' \in [Genomes -> Revisions \cup {NoRevision}]
        /\ \A k \in Genomes : disk'[k] # NoFiles => revisions'[k] \in Revisions
    BY <2>1 DEF Types, TypeOK
  <2> QED BY <2>1, <2>2, <2>3, <2>4 DEF Types, TypeOK
<1>7. CASE UNCHANGED vars
  BY <1>7 DEF Types, TypeOK, vars, store
<1> QED BY <1>1, <1>2, <1>3, <1>4, <1>5, <1>6, <1>7 DEF Next

\* Whatever is planned, mutated, rewritten, rolled back or removed, the store
\* holds what its declarations in revision-store.ts say; in particular a
\* mutated manifest still lists paths (applyMutations).
THEOREM StoreTypes == Spec => []TypeOK
<1>1. Types => TypeOK
  BY DEF Types
<1> QED BY <1>1, TypesInit, TypesNext, PTL DEF Spec
-----------------------------------------------------------------------------
(* Whose genomes they are: a genome goes from one agent to another only by a *)
(* rewrite of the other under its id.                                        *)

OneBaseEach == \A a, b \in Agents : Base[a] = Base[b] => a = b

\* Active genomes and histories are stamped with their holder or with one who
\* claimed the id, and none is ahead of issued.  Before the plan is seeded an agent has its base genome or none.
OwnInv ==
  /\ issued \in Nat /\ Bases \subseteq 1..issued
  /\ \A h \in Holders : \A g \in Genomes :
       active[h] = g \/ (\E i \in DOMAIN history[h] : history[h][i].genome = g) =>
         revisions[g].agent \in {h} \cup Claimants(g)
  /\ \A h \in Holders : /\ active[h] <= issued
                        /\ \A i \in DOMAIN history[h] : history[h][i].genome <= issued
  /\ unseeded # {} => \A h \in Holders :
       /\ active[h] # NoGenome => h \in Agents \ unseeded /\ active[h] = Base[h]
       /\ \A i \in DOMAIN history[h] : h \in Agents \ unseeded /\ history[h][i].genome = Base[h]

LEMMA OwnInit == Init => OwnInv
<1> SUFFICES ASSUME Init PROVE OwnInv
  OBVIOUS
<1>1. \A h \in Holders : active[h] = NoGenome /\ history[h] = <<>> /\ DOMAIN history[h] = {}
  BY DEF Init
<1>2. issued \in Nat /\ Bases \subseteq 1..issued
  BY BaseFacts DEF Init
<1>3. \A h \in Holders, g \in Genomes : active[h] # g
  BY <1>1, GenomeFacts
<1> QED BY <1>1, <1>2, <1>3 DEF OwnInv, NoGenome

LEMMA TypeShapes == Types => Shapes
<1> SUFFICES ASSUME Types PROVE Shapes
  OBVIOUS
<1>1. \A h \in Holders : history[h] \in Seq(Revisions)
  BY DEF Types, TypeOK
<1>2. ASSUME NEW h \in Holders
      PROVE  /\ Listed(history[h])
             /\ \A i \in DOMAIN history[h] : history[h][i].genome \in Genomes
  <2>1. /\ Len(history[h]) \in Nat /\ DOMAIN history[h] = 1..Len(history[h])
        /\ \A i \in 1..Len(history[h]) : history[h][i] \in Revisions
    BY <1>1, LenProperties, ElementOfSeq
  <2>2. Listed(history[h])
    BY <1>1, <2>1 DEF Listed, Range
  <2> QED BY <2>1, <2>2, RevisionFields
<1> QED BY <1>2 DEF Types, TypeOK, Shapes

\* A revision is registered, whatever becomes of directories.
Names(r) ==
  /\ r.genome \in Genomes /\ r.agent \in Holders
  /\ unseeded' \subseteq unseeded /\ issued' \in Nat /\ issued <= issued' /\ r.genome <= issued'
  /\ Register(r) /\ claimed \subseteq claimed'

\* A step that does not touch the maps.
Unnamed == /\ UNCHANGED <<unseeded, revisions, history, active>>
           /\ issued' \in Nat /\ issued <= issued' /\ claimed \subseteq claimed'

\* A revision registered under a genome no other has, or that its agent claimed.
LEMMA RegisterOwns ==
  ASSUME Shapes, OwnInv, NEW r, Names(r),
         r.agent \in Claimants(r.genome)' \/ \A h \in Holders : h # r.agent =>
           /\ active[h] # r.genome
           /\ \A i \in DOMAIN history[h] : history[h][i].genome # r.genome,
         unseeded' # {} => /\ unseeded # {} /\ r.agent \in Agents \ unseeded'
                           /\ r.genome = Base[r.agent]
  PROVE  OwnInv'
<1>1. /\ r.genome \in Genomes /\ r.agent \in Holders /\ unseeded' \subseteq unseeded
      /\ revisions' = [revisions EXCEPT ![r.genome] = r]
      /\ history' = [history EXCEPT ![r.agent] = Append(@, r)]
      /\ active' = [active EXCEPT ![r.agent] = r.genome]
  BY DEF Names, Register
<1>2. /\ revisions'[r.genome] = r
      /\ \A g \in Genomes : g # r.genome => revisions'[g] = revisions[g]
      /\ active'[r.agent] = r.genome
      /\ \A h \in Holders : h # r.agent => active'[h] = active[h] /\ history'[h] = history[h]
      /\ history'[r.agent] = Append(history[r.agent], r)
  BY <1>1 DEF Shapes
<1>3. \A i \in DOMAIN history'[r.agent] :
        \/ i \in DOMAIN history[r.agent] /\ history'[r.agent][i] = history[r.agent][i]
        \/ history'[r.agent][i] = r
  <2>1. Listed(history[r.agent])
    BY <1>1 DEF Shapes
  <2> QED BY <1>2, <2>1, ListedAppend
<1>4. \A g : Claimants(g) \subseteq Claimants(g)'
  BY ClaimsStay DEF Names
<1>5. ASSUME NEW h \in Holders, NEW g \in Genomes,
             active'[h] = g \/ \E i \in DOMAIN history'[h] : history'[h][i].genome = g
      PROVE  revisions'[g].agent \in {h} \cup Claimants(g)'
  <2>1. CASE g = r.genome /\ (h = r.agent \/ r.agent \in Claimants(g)')
    BY <1>2, <2>1
  <2>2. CASE g # r.genome
    <3>1. active[h] = g \/ \E i \in DOMAIN history[h] : history[h][i].genome = g
      BY <1>2, <1>3, <1>5, <2>2
    <3>2. revisions[g].agent \in {h} \cup Claimants(g)
      BY <3>1 DEF OwnInv
    <3> QED BY <1>2, <1>4, <2>2, <3>2
  <2>3. CASE g = r.genome /\ h # r.agent /\ r.agent \notin Claimants(r.genome)'
    BY <1>2, <1>5, <2>3
  <2> QED BY <2>1, <2>2, <2>3
<1>6. ASSUME unseeded' # {}, NEW h \in Holders
      PROVE  /\ active'[h] # NoGenome => h \in Agents \ unseeded' /\ active'[h] = Base[h]
             /\ \A i \in DOMAIN history'[h] :
                  h \in Agents \ unseeded' /\ history'[h][i].genome = Base[h]
  <2>1. unseeded # {} /\ unseeded' \subseteq unseeded /\ r.agent \in Agents \ unseeded'
        /\ r.genome = Base[r.agent]
    BY <1>1, <1>6
  <2>2. /\ active[h] # NoGenome => h \in Agents \ unseeded /\ active[h] = Base[h]
        /\ \A i \in DOMAIN history[h] : h \in Agents \ unseeded /\ history[h][i].genome = Base[h]
    BY <2>1 DEF OwnInv
  <2>3. CASE h = r.agent
    <3>1. h \in Agents \ unseeded' /\ active'[h] = Base[h]
      BY <1>2, <2>1, <2>3
    <3>2. ASSUME NEW i \in DOMAIN history'[h] PROVE history'[h][i].genome = Base[h]
      <4>1. CASE i \in DOMAIN history[h] /\ history'[h][i] = history[h][i]
        BY <2>2, <4>1
      <4>2. CASE history'[h][i] = r
        BY <2>1, <2>3, <4>2
      <4> QED BY <1>3, <2>3, <3>2, <4>1, <4>2
    <3> QED BY <3>1, <3>2
  <2>4. CASE h # r.agent
    <3>1. active'[h] = active[h] /\ history'[h] = history[h]
      BY <1>2, <2>4
    <3> QED BY <2>1, <2>2, <3>1
  <2> QED BY <2>3, <2>4
<1>7. ASSUME NEW h \in Holders
      PROVE  /\ active'[h] <= issued'
             /\ \A i \in DOMAIN history'[h] : history'[h][i].genome <= issued'
  <2>1. issued \in Nat /\ issued' \in Nat /\ issued <= issued' /\ r.genome <= issued'
    BY DEF Names, OwnInv
  <2>2. \A g \in Genomes \cup {NoGenome} : g <= issued => g <= issued'
    BY <2>1, GenomeFacts DEF NoGenome
  <2>3. active[h] <= issued /\ \A i \in DOMAIN history[h] : history[h][i].genome <= issued
    BY DEF OwnInv
  <2>4. active[h] \in Genomes \cup {NoGenome}
        /\ \A i \in DOMAIN history[h] : history[h][i].genome \in Genomes
    BY DEF Shapes
  <2>5. CASE h = r.agent
    BY <1>2, <1>3, <2>1, <2>2, <2>3, <2>4, <2>5
  <2>6. CASE h # r.agent
    BY <1>2, <2>2, <2>3, <2>4, <2>6
  <2> QED BY <2>5, <2>6
<1>8. issued' \in Nat /\ Bases \subseteq 1..issued'
  BY DEF Names, OwnInv
<1> QED BY <1>5, <1>6, <1>7, <1>8 DEF OwnInv

LEMMA CreateNames ==
  ASSUME NEW r, Create(r), r.genome \in Genomes, r.agent \in Holders, unseeded' \subseteq unseeded,
         issued' \in Nat, issued <= issued', r.genome <= issued', claimed \subseteq claimed'
  PROVE  Names(r) \/ UNCHANGED store
BY DEF Create, Names

LEMMA FreshIs ==
  ASSUME issued \in Nat, NEW g, Fresh(g)
  PROVE  g \in Genomes /\ g \in Holders /\ issued' \in Nat /\ issued <= issued' /\ g <= issued' /\ g > issued
BY GenomeFacts DEF Fresh

\* What a step does to the maps.
LEMMA StepNames ==
  ASSUME OwnInv, Shapes, [Next]_vars
  PROVE  \/ \E a \in unseeded : unseeded' = unseeded \ {a} /\
               \/ \E r : Names(r) /\ r.agent = a /\ r.genome = Base[a]
               \/ UNCHANGED <<revisions, history, active, issued, claimed>>
         \/ \E r : Names(r) /\ unseeded' = {} /\ (r.genome > issued \/ r.agent \in Claimants(r.genome)')
         \/ Unnamed
         \/ \E h \in Holders : \E i \in DOMAIN history[h] : Rollback(h, i)
         \/ \E g \in Genomes : RemoveRevision(g)
<1> DEFINE Goal == \/ \E r : Names(r) /\ unseeded' = {} /\ (r.genome > issued \/ r.agent \in Claimants(r.genome)')
                   \/ Unnamed
<1>0. issued \in Nat /\ Bases \subseteq 1..issued /\ \A h \in Holders : active[h] <= issued
  BY DEF OwnInv
<1>1. ASSUME NEW a \in Agents, Seed(a)
      PROVE  a \in unseeded /\ unseeded' = unseeded \ {a} /\
               \/ \E r : Names(r) /\ r.agent = a /\ r.genome = Base[a]
               \/ UNCHANGED <<revisions, history, active, issued, claimed>>
  <2> DEFINE r == [genome |-> Base[a], agent |-> a, plugins |-> SetToSeq(Paths), hash |-> BaseFiles]
  <2>1. r.agent = a /\ r.genome = Base[a]
    OBVIOUS
  <2>2. /\ a \in unseeded /\ unseeded' = unseeded \ {a} /\ issued' = issued /\ Create(r)
        /\ claimed' = claimed
    BY <1>1 DEF Seed
  <2> HIDE DEF r
  <2>3. r.genome \in Genomes /\ r.agent \in Holders /\ r.genome <= issued
    BY <1>0, <2>1, BaseFacts, GenomeFacts
  <2>4. Names(r) \/ UNCHANGED store
    BY <1>0, <2>2, <2>3, CreateNames
  <2> QED BY <2>1, <2>2, <2>4 DEF store
<1>2. ASSUME NEW a \in Agents, NEW g \in Genomes, Rewrite(a, g) PROVE Goal
  <2>1. /\ unseeded = {} /\ unseeded' = unseeded
        /\ Fresh(g) \/ (g \in 1..issued /\ issued' = issued)
    BY <1>2 DEF Rewrite, PlansFor
  <2>2. issued' \in Nat /\ issued <= issued' /\ g <= issued'
    BY <1>0, <2>1, FreshIs, GenomeFacts
  <2>3. CASE Fail /\ UNCHANGED claimed
    BY <2>1, <2>2, <2>3 DEF Fail, store, Unnamed
  <2>4. ASSUME NEW plugins, NEW edits, Claims(a, g),
               Create([genome |-> g, agent |-> a, plugins |-> plugins,
                       hash |-> Edited(disk[active[a]], edits)])
        PROVE  Goal
    <3> DEFINE r == [genome |-> g, agent |-> a, plugins |-> plugins,
                     hash |-> Edited(disk[active[a]], edits)]
    <3>1. r.genome = g /\ r.agent = a /\ Create(r)
      BY <2>4
    <3> HIDE DEF r
    <3>2. claimed \subseteq claimed'
      BY <2>4 DEF Claims
    <3>3. g > issued \/ a \in Claimants(g)'
      <4>1. CASE Fresh(g)
        BY <1>0, <4>1, FreshIs
      <4>2. CASE g \in 1..issued
        <5>1. claimed' = claimed \cup {<<a, g>>}
          BY <2>4, <4>2 DEF Claims
        <5> QED BY <5>1 DEF Claimants
      <4> QED BY <2>1, <4>1, <4>2
    <3>4. Names(r) \/ UNCHANGED store
      BY <2>1, <2>2, <3>1, <3>2, CreateNames, GenomeFacts
    <3>5. CASE Names(r)
      BY <2>1, <3>1, <3>3, <3>5
    <3>6. CASE UNCHANGED store
      BY <2>1, <2>2, <3>2, <3>6 DEF store, Unnamed
    <3> QED BY <3>4, <3>5, <3>6
  <2> HIDE DEF Goal
  <2> QED BY <1>2, <2>3, <2>4 DEF Rewrite
<1>3. ASSUME NEW r, unseeded = {}, unseeded' = unseeded, Fresh(r.genome), r.agent \in Holders,
             Create(r) \/ Fail, claimed' = claimed
      PROVE  Goal
  <2>1. r.genome \in Genomes /\ issued' \in Nat /\ issued <= issued' /\ r.genome <= issued'
        /\ r.genome > issued
    BY <1>0, <1>3, FreshIs
  <2>2. Create(r) => Names(r) \/ UNCHANGED store
    BY <1>3, <2>1, CreateNames
  <2>3. CASE Names(r)
    BY <1>3, <2>1, <2>3
  <2>4. CASE UNCHANGED store
    BY <1>3, <2>1, <2>4 DEF store, Unnamed
  <2>5. Fail => UNCHANGED store
    BY DEF Fail
  <2> QED BY <1>3, <2>2, <2>3, <2>4, <2>5
<1>4. ASSUME NEW a \in Agents, NEW g \in Genomes, NEW answer, Clone(a, g, answer) PROVE Goal
  <2> DEFINE r == [genome |-> g, agent |-> g, hash |-> disk[active[a]],
                   plugins |-> Mutated(revisions[active[a]].plugins, answer)]
  <2>1. r.genome = g /\ r.agent = g
    OBVIOUS
  <2>2. /\ unseeded = {} /\ unseeded' = unseeded /\ Fresh(g) /\ (Create(r) \/ Fail)
        /\ claimed' = claimed
    BY <1>4 DEF Clone
  <2> HIDE DEF r, Goal
  <2> QED BY <1>3, <2>1, <2>2, GenomeFacts
<1>5. ASSUME NEW parent \in Genomes, NEW g \in Genomes, CloneRevision(parent, g) PROVE Goal
  <2> DEFINE r == [genome |-> g, agent |-> g, plugins |-> revisions[parent].plugins,
                   hash |-> disk[parent]]
  <2>1. r.genome = g /\ r.agent = g
    OBVIOUS
  <2>2. unseeded = {} /\ unseeded' = unseeded /\ Fresh(g) /\ Create(r) /\ claimed' = claimed
    BY <1>5 DEF CloneRevision
  <2> HIDE DEF r, Goal
  <2> QED BY <1>3, <2>1, <2>2, GenomeFacts
<1>6. CASE UNCHANGED vars
  BY <1>0, <1>6 DEF vars, store, Unnamed
<1> QED BY <1>1, <1>2, <1>4, <1>5, <1>6 DEF Next

LEMMA OwnNext ==
  ASSUME OneBaseEach, Shapes, OwnInv, [Next]_vars
  PROVE  OwnInv'
<1>1. ASSUME NEW a \in unseeded, unseeded' = unseeded \ {a},
             NEW r, Names(r), r.agent = a, r.genome = Base[a]
      PROVE  OwnInv'
  <2>0. a \in Agents /\ r.genome # NoGenome
    BY <1>1, GenomeFacts DEF Shapes, Names
  <2>1. ASSUME NEW h \in Holders, h # a
        PROVE  /\ active[h] # r.genome
               /\ \A i \in DOMAIN history[h] : history[h][i].genome # r.genome
    <3>1. h \in Agents => Base[h] # Base[a]
      BY <2>0, <2>1 DEF OneBaseEach
    <3>2. /\ active[h] # NoGenome => h \in Agents /\ active[h] = Base[h]
          /\ \A i \in DOMAIN history[h] : h \in Agents /\ history[h][i].genome = Base[h]
      BY DEF OwnInv
    <3> QED BY <1>1, <2>0, <3>1, <3>2
  <2>2. r.agent \in Agents \ unseeded' /\ r.genome = Base[r.agent]
    BY <1>1, <2>0
  <2> QED BY <1>1, <2>1, <2>2, RegisterOwns
<1>2. ASSUME NEW a \in unseeded, unseeded' = unseeded \ {a},
             UNCHANGED <<issued, revisions, history, active, claimed>>
      PROVE  OwnInv'
  <2>1. \A g : Claimants(g)' = Claimants(g)
    BY <1>2 DEF Claimants
  <2> QED BY <1>2, <2>1 DEF OwnInv
<1>3. ASSUME NEW r, Names(r), unseeded' = {},
             r.genome > issued \/ r.agent \in Claimants(r.genome)'
      PROVE  OwnInv'
  <2>1. ASSUME NEW h \in Holders, r.genome > issued
        PROVE  /\ active[h] # r.genome
               /\ \A i \in DOMAIN history[h] : history[h][i].genome # r.genome
    <3>1. active[h] <= issued /\ \A i \in DOMAIN history[h] : history[h][i].genome <= issued
      BY DEF OwnInv
    <3>2. ~(r.genome <= issued)
      BY <1>3, <2>1, GenomeFacts DEF Names, OwnInv
    <3> QED BY <3>1, <3>2
  <2> QED BY <1>3, <2>1, RegisterOwns
<1>5. CASE Unnamed
  <2>1. \A h \in Holders : /\ active[h] <= issued'
                           /\ \A i \in DOMAIN history[h] : history[h][i].genome <= issued'
    <3>1. issued \in Nat /\ issued' \in Nat /\ issued <= issued'
      BY <1>5 DEF Unnamed, OwnInv
    <3>2. \A g \in Genomes \cup {NoGenome} : g <= issued => g <= issued'
      BY <3>1, GenomeFacts DEF NoGenome
    <3> QED BY <3>2 DEF OwnInv, Shapes
  <2>2. issued' \in Nat /\ Bases \subseteq 1..issued'
    BY <1>5 DEF Unnamed, OwnInv
  <2>3. \A g : Claimants(g) \subseteq Claimants(g)'
    BY <1>5, ClaimsStay DEF Unnamed
  <2> QED BY <1>5, <2>1, <2>2, <2>3 DEF Unnamed, OwnInv
<1>6. ASSUME NEW h \in Holders, NEW i \in DOMAIN history[h], Rollback(h, i) PROVE OwnInv'
  <2>1. /\ unseeded' = {} /\ UNCHANGED <<issued, revisions, history>>
        /\ active' = [active EXCEPT ![h] = history[h][i].genome]
    BY <1>6 DEF Rollback
  <2>2. \A k \in Holders : active'[k] = IF k = h THEN history[h][i].genome ELSE active[k]
    BY <2>1 DEF Shapes
  <2>3. \A g : Claimants(g)' = Claimants(g)
    BY <1>6 DEF Rollback, Claimants
  <2> QED BY <2>1, <2>2, <2>3 DEF OwnInv
<1>4. ASSUME NEW g \in Genomes, RemoveRevision(g) PROVE OwnInv'
  <2>1. \A k \in Genomes : k # g => revisions'[k] = revisions[k]
    BY <1>4, RemovalLeaves DEF Shapes
  <2>2. \A f : Claimants(f)' = Claimants(f)
    BY <1>4, RemovalLeaves DEF Claimants
  <2>3. ASSUME NEW h \in Holders, NEW f \in Genomes,
               active'[h] = f \/ \E k \in DOMAIN history'[h] : history'[h][k].genome = f
        PROVE  revisions'[f].agent \in {h} \cup Claimants(f)'
    <3>1. f # NoGenome
      BY GenomeFacts
    <3>2. /\ \A k \in DOMAIN history'[h] : \E i \in DOMAIN history[h] :
               history'[h][k] = history[h][i] /\ history[h][i].genome # g
          /\ active'[h] = f => \/ active'[h] = active[h] /\ active[h] # g
                               \/ \E i \in DOMAIN history[h] : /\ active'[h] = history[h][i].genome
                                                               /\ history[h][i].genome # g
      BY <1>4, <3>1, RemovalLeaves
    <3>3. f # g /\ (active[h] = f \/ \E i \in DOMAIN history[h] : history[h][i].genome = f)
      BY <2>3, <3>2
    <3>4. revisions[f].agent \in {h} \cup Claimants(f)
      BY <3>3 DEF OwnInv
    <3> QED BY <2>1, <2>2, <3>3, <3>4
  <2>4. unseeded' = {}
    BY <1>4, RemovalLeaves
  <2>5. \A h \in Holders : /\ active'[h] <= issued
                           /\ \A k \in DOMAIN history'[h] : history'[h][k].genome <= issued
    <3> SUFFICES ASSUME NEW h \in Holders
                 PROVE  /\ active'[h] <= issued
                        /\ \A k \in DOMAIN history'[h] : history'[h][k].genome <= issued
      OBVIOUS
    <3>1. NoGenome <= issued
      BY DEF NoGenome, OwnInv
    <3>2. active[h] <= issued /\ \A i \in DOMAIN history[h] : history[h][i].genome <= issued
      BY DEF OwnInv
    <3>3. \A k \in DOMAIN history'[h] : \E i \in DOMAIN history[h] : history'[h][k] = history[h][i]
      BY <1>4, RemovalLeaves
    <3>4. \/ active'[h] = NoGenome \/ active'[h] = active[h]
          \/ \E i \in DOMAIN history[h] : active'[h] = history[h][i].genome
      BY <1>4, RemovalLeaves
    <3> QED BY <3>1, <3>2, <3>3, <3>4
  <2>6. issued' = issued
    BY <1>4, RemovalLeaves
  <2> QED BY <2>3, <2>4, <2>5, <2>6 DEF OwnInv
<1> QED BY <1>1, <1>2, <1>3, <1>4, <1>5, <1>6, StepNames

\* The genome an agent lives by carries its own name (create stamps it), if no
\* two agents of the plan share a base genome; it carries another's only if a
\* plan of that other named its id, whichever ids the plans of all agents name.
THEOREM GenomesKeepTheirAgent ==
  ASSUME OneBaseEach
  PROVE  Spec => []GenomeBelongsToAgent
<1>1. Types /\ OwnInv => GenomeBelongsToAgent
  BY TypeShapes DEF Shapes, OwnInv, GenomeBelongsToAgent
<1>2. Types /\ OwnInv /\ [Next]_vars => Types' /\ OwnInv'
  BY TypesNext, OwnNext, TypeShapes
<1> QED BY <1>1, <1>2, TypesInit, OwnInit, PTL DEF Spec
=============================================================================
