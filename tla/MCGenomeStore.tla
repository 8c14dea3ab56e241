--------------------------- MODULE MCGenomeStore ---------------------------
(***************************************************************************)
(* GenomeStore with two agents, two asset paths, one or two new genomes.    *)
(***************************************************************************)
EXTENDS GenomeStore

CONSTANTS alpha, beta, core, extra

MCAgents == {alpha, beta}
MCPaths  == {core, extra}

\* Two versions of a plugin that load, one whose code was edited behind its
\* manifest's back, one that reaches into the harness.
Plugin(declared, code, needs) == [declared |-> declared, code |-> code, needs |-> needs]
V1 == Plugin("v1", "v1", {"plugins"})
V2 == Plugin("v2", "v2", {})
MCContents  == {V1, V2, Plugin("v1", "v2", {}), Plugin("v2", "v2", {"core"})}
MCForbidden == {"core", "contracts", "energy", "evaluation", "sandbox"}

\* A base genome for each agent, or one for both.
OwnBases   == (alpha :> 1) @@ (beta :> 2)
SharedBase == (alpha :> 1) @@ (beta :> 1)

\* The base genome lists both plugins and has both.
MCBaseFiles == (core :> V1) @@ (extra :> V1)

Mutation(kind, name, other) == [kind |-> kind, name |-> name, other |-> other]
Answer(type, mutations) == [type |-> type, mutations |-> mutations]

\* Nothing, of either kind; a copy under a new name; plugins swapped into one
\* another, deleted, added back; candidates that no mutation can be made of.
MCAnswers ==
  {Answer("error", <<>>),
   Answer("mutations", <<Mutation("delete-plugin", core, Absent),
                         Mutation("retire", extra, Absent)>>),
   Answer("mutations", <<Mutation("modify-plugin", core, extra),
                         Mutation("delete-plugin", extra, Absent)>>),
   Answer("mutations", <<Mutation("delete-plugin", extra, Absent),
                         Mutation("modify-plugin", extra, core)>>),
   Answer("mutations", <<Mutation("copy-plugin", core, extra),
                         Mutation("delete-plugin", extra, Absent),
                         Mutation("add-plugin", Absent, Absent),
                         Mutation("create-tool", core, Absent)>>)}
=============================================================================
