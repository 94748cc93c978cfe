------------------------------- MODULE Knowledge -------------------------------
(***************************************************************************)
(* The knowledge face of the mediation: what is composed when a mediation  *)
(* is created (adapters/compose.ts), from the catalog of the engine and    *)
(* the agents found on disk (adapters/knowledge/fleet-catalog.ts), and a   *)
(* client that builds a configuration with what the service answers        *)
(* (adapters/knowledge/service.ts).                                        *)
(*                                                                         *)
(* The identity agent.<name> of an agent stands for its directory too.     *)
(***************************************************************************)
EXTENDS CapabilityCatalog

CONSTANTS
  Agents,        \* identities of directories that may hold an agent.yaml
  Curated,       \* the ones FLEET_MANIFEST describes
  Disks,         \* what the roots may hold when the process starts
  Candidates,    \* what a client may declare: pairs of an id and a value
  Scorable,      \* nodes an intent may match
  MaxEntries,    \* bound on the entries of a configuration
  MaxChanges,    \* bound on the changes of the disk
  MaxScore

CatalogIds == {n.id : n \in Nodes}

(* An identity of an agent starts with "agent.", none of the catalog does. *)
(* Every identity has one place in the order of localeCompare.             *)
ASSUME KnowledgeAssumption ==
  /\ Agents \cap CatalogIds = {}
  /\ CatalogIds \cap IllFormed = {}
  /\ Alphabetical \in Seq(Agents \cup CatalogIds)
  /\ \A i \in Agents \cup CatalogIds : \E k \in DOMAIN Alphabetical : Alphabetical[k] = i
  /\ MaxScore \in Nat

VARIABLES
  roots,     \* per root: does it exist, is it a directory that can be read,
             \* and what its directories hold
  service,   \* none yet, up, or its construction threw; and over what
  graph,     \* the graph the service answers from
  config,    \* the configuration of the client
  answers,   \* the answer to the intent asked, if one was
  changes

vars == <<roots, service, graph, config, answers, changes>>

-----------------------------------------------------------------------------
(* The fleet. *)

Roots == {"explicit", "environment", "convention"}

(* What a directory may hold: no agent.yaml, a malformed one, one with a   *)
(* description, or one without; the last may have a prompt file.           *)
Contents == {"nothing", "malformed", "described", "bare", "prompted"}

None == "none"

(* resolveFleetAgentsRoot: a root that is given is used or there is none.  *)
Resolved(disk, given) ==
  IF given THEN IF disk["explicit"].exists THEN "explicit" ELSE None
  ELSE IF disk["environment"].exists THEN "environment"
  ELSE IF disk["convention"].exists THEN "convention"
  ELSE None

Mut_Listed(dirs) == {a \in Agents : dirs[a] \notin {"nothing", "malformed"}}

(* A directory is listed if it holds an agent.yaml, well formed or not. *)
Listed(dirs) == {a \in Agents : dirs[a] # "nothing"}

(* deriveDescription: curation, the agent.yaml, the prompt, a template. *)
About(a, content) ==
  CASE a \in Curated -> "curated"
    [] a \notin Curated /\ content = "described" -> "yaml"
    [] a \notin Curated /\ content = "prompted" -> "prompt"
    [] OTHER -> "template"

FleetNode(a, root, content) ==
  [Free(a) EXCEPT !.agent = {[name |-> a, root |-> root]}, !.about = About(a, content)]

(* What exists need not be a directory that can be read: readdirSync       *)
(* throws then.                                                            *)
Readable(disk, root) == root # None => disk[root].listable

Fleet(disk, root) ==
  IF root = None \/ ~Readable(disk, root) THEN {}
  ELSE {FleetNode(a, root, disk[root].dirs[a]) : a \in Listed(disk[root].dirs)}

Mut_Merge(base, extra) ==
  [nodes |-> base.nodes \cup {n \in extra : ~Known(base, n.id)},
   edges |-> {e \in base.edges : e.type # "conflicts-with"}]

(* mergeCatalogs: the base wins.  A fleet has no edges, so there are none  *)
(* to add.                                                                 *)
Merge(base, extra) ==
  [nodes |-> base.nodes \cup {n \in extra : ~Known(base, n.id)},
   edges |-> base.edges]

NoGraph == [nodes |-> {}, edges |-> {}]
NoService == [state |-> "none", given |-> FALSE, root |-> None, engine |-> "pi",
              readable |-> TRUE, seen |-> {}]

-----------------------------------------------------------------------------
Init ==
  /\ roots \in Disks
  /\ service = NoService
  /\ graph = NoGraph
  /\ config = <<>>
  /\ answers = {}
  /\ changes = 0

Up == service.state = "up"

(* createLocalMediation and createHostedMediation without a port: listing  *)
(* the root throws if it cannot be read, creating the fleet or the merged  *)
(* graph if an identity is ill formed, and there is no mediation then.     *)
Compose(given) ==
  /\ service.state = "none"
  /\ LET root == Resolved(roots, given)
         readable == Readable(roots, root)
         fleet == Fleet(roots, root)
         merged == Merge(DefaultCatalog, fleet)
         sound == /\ readable
                  /\ Integrity(fleet, {}) /\ Integrity(merged.nodes, merged.edges)
     IN /\ service' = [state |-> IF sound THEN "up" ELSE "threw", given |-> given, root |-> root,
                       engine |-> "pi", readable |-> readable,
                       seen |-> IF root = None \/ ~readable THEN {}
                                ELSE {<<a, roots[root].dirs[a]>> : a \in Agents}]
        /\ graph' = IF sound THEN merged ELSE NoGraph
  /\ UNCHANGED <<roots, config, answers, changes>>

(* A port over the catalog of an engine is given instead. *)
Inject(engine) ==
  /\ service.state = "none"
  /\ LET catalog == Catalog[engine]
     IN /\ service' = [NoService EXCEPT !.engine = engine,
                         !.state = IF Integrity(catalog.nodes, catalog.edges) THEN "up" ELSE "threw"]
        /\ graph' = IF Integrity(catalog.nodes, catalog.edges) THEN catalog ELSE NoGraph
  /\ UNCHANGED <<roots, config, answers, changes>>

(* The catalog is not read again: what changes later is not served. *)
ChangeDisk(root, a, content) ==
  /\ changes < MaxChanges /\ config = <<>> /\ answers = {}
  /\ roots[root].exists /\ roots[root].listable /\ roots[root].dirs[a] # content
  /\ roots' = [roots EXCEPT ![root].dirs[a] = content]
  /\ changes' = changes + 1
  /\ UNCHANGED <<service, graph, config, answers>>

-----------------------------------------------------------------------------
(* The client of the face. *)

Declare(i, value) ==
  /\ Up /\ answers = {} /\ changes = 0
  /\ Declared(config, i) \/ Cardinality(DOMAIN config) < MaxEntries
  /\ config' = [j \in DOMAIN config \cup {i} |-> IF j = i THEN value ELSE config[j]]
  /\ UNCHANGED <<roots, service, graph, answers, changes>>

Withdraw(i) ==
  /\ Up /\ Declared(config, i)
  /\ config' = [j \in DOMAIN config \ {i} |-> config[j]]
  /\ UNCHANGED <<roots, service, graph, answers, changes>>

(* The scores an intent gives to the nodes, one and its fractions counted  *)
(* in steps of 1 / MaxScore: nodeMatchScore over the signatures and the    *)
(* label of a node.                                                        *)
Score(partial) == [i \in Ids(graph) |-> IF i \in Scorable THEN partial[i] ELSE 0]

Ask(partial, threshold, limit) ==
  /\ Up /\ config = <<>> /\ answers = {} /\ changes = 0
  /\ answers' = {[score |-> Score(partial), threshold |-> threshold, limit |-> limit,
                  ids |-> ResolveIntent(graph, Score(partial), threshold, limit)]}
  /\ UNCHANGED <<roots, service, graph, config, changes>>

Next ==
  \/ \E given \in BOOLEAN : Compose(given)
  \/ \E engine \in Engines : Inject(engine)
  \/ \E root \in Roots, a \in Agents, content \in Contents : ChangeDisk(root, a, content)
  \/ \E c \in Candidates : Declare(c[1], c[2])
  \/ \E i \in DOMAIN config : Withdraw(i)
  \/ \E partial \in [Scorable -> 0 .. MaxScore], threshold \in {0, 1}, limit \in {2, 5} :
       Ask(partial, threshold, limit)

Spec == Init /\ [][Next]_vars

(* agentFor: the node says which agent it is. *)
AgentFor(i) == IF Known(graph, i) THEN FindNode(graph, i).agent ELSE {}

-----------------------------------------------------------------------------
EngineIds == Ids(DefaultCatalog)

(* What is declared of the ids in a set. *)
Part(ids) == [i \in DOMAIN config \cap ids |-> config[i]]

(* Every agent that has an agent.yaml when the mediation is created, and   *)
(* no other, can be reached through its node, under the root that was      *)
(* resolved, whatever its files hold, and is described as curated or by    *)
(* its agent.yaml if it can be; a curated agent without a directory is not *)
(* served.  The mediation is not created, for any of them, if and only if  *)
(* the root exists and cannot be listed or the name of a directory makes   *)
(* no identity.  A root that is given is used or none is                   *)
(* (resolveFleetAgentsRoot, buildFleetCatalog, agentFor).                  *)
FleetIsServed ==
  LET listed == {a \in Agents : \E s \in service.seen : s[1] = a /\ s[2] # "nothing"}
  IN /\ service.given => service.root \in {"explicit", None}
     /\ service.state = "threw" <=> ~service.readable \/ listed \cap IllFormed # {}
     /\ Up => /\ {i \in Ids(graph) : AgentFor(i) # {}} = listed
              /\ \A a \in listed : AgentFor(a) = {[name |-> a, root |-> service.root]}
              /\ \A a \in listed :
                   IF a \in Curated THEN FindNode(graph, a).about = "curated"
                   ELSE FindNode(graph, a).about = "yaml" <=> <<a, "described">> \in service.seen

(* The agents of the fleet change no answer about the engine: what         *)
(* validate, compose and explain say of the engine part of a configuration *)
(* is what the catalog alone says (mergeCatalogs).                         *)
FleetKeepsTheRules ==
  Up /\ service.engine = "pi" =>
    LET part == Part(EngineIds)
    IN /\ Violations(graph, part) = Violations(DefaultCatalog, part)
       /\ Emergences(graph, DOMAIN part) = Emergences(DefaultCatalog, DOMAIN part)
       /\ SideEffects(graph, DOMAIN part) = SideEffects(DefaultCatalog, DOMAIN part)
        /\ Requires(graph, DOMAIN part) = Requires(DefaultCatalog, DOMAIN part)
        /\ \A i \in DOMAIN part :
             NamedConflicts(graph, part, i) = NamedConflicts(DefaultCatalog, part, i)

(* The catalog of an engine is sound, it is the part of the whole one that *)
(* list shows for the engine, and no rule between its capabilities is lost *)
(* with the edges to the ones it does without: a configuration is judged   *)
(* the same by both (catalogFor, listCapabilities, validateConfig).        *)
ScopesKeepTheRules ==
  service.root = None /\ ~service.given /\ service.state # "none" =>
    /\ Up
    /\ graph.nodes = ListCapabilities(DefaultCatalog, service.engine)
    /\ LET part == Part(Ids(graph))
       IN Violations(graph, part) = Violations(DefaultCatalog, part)

(* Neither the fleet nor the scope of an engine changes a rule of the      *)
(* catalog (mergeCatalogs, catalogFor).                                    *)
RulesAreKept == FleetKeepsTheRules /\ ScopesKeepTheRules

(* To withdraw a capability can only leave a dependency of another one     *)
(* unmet: it never makes up a conflict, nor an inconsistency.              *)
WithdrawalsOnlyUnmeet ==
  [][\A i \in DOMAIN config :
       DOMAIN config' = DOMAIN config \ {i} =>
         Violations(graph, config') \ Violations(graph, config) \subseteq
           {Violation("UNMET_DEPENDENCY", e.from) :
              e \in {f \in Between(graph, "depends-on") : f.to = i}}]_vars

(* A value with what it needs: the dependencies of its capability, each    *)
(* with a value it accepts, and the category with those of the members     *)
(* that are enabled.                                                       *)
NeededValue(i, value, j) ==
  LET n == FindNode(graph, j)
  IN IF FindNode(graph, i).category # {}
     THEN Some(IF Enabled(value) THEN FindNode(graph, i).category ELSE {})
     ELSE Text(IF n.values = {} THEN "anything" ELSE CHOOSE w \in n.values : TRUE)

WithNeeds(i, value) ==
  LET needs == {e.to : e \in {f \in Between(graph, "depends-on") : f.from = i}}
  IN [j \in {i} \cup needs |-> IF j = i THEN value ELSE NeededValue(i, value, j)]

(* The catalog contradicts itself nowhere: each value of each capability,  *)
(* and its default, is valid once what it needs is declared, but for       *)
(* custom tools, whose value the category does not have.                   *)
EveryValueIsUsable ==
  Up /\ config = <<>> =>
    \A n \in graph.nodes : \A value \in {Text(v) : v \in n.values} \cup n.default :
      \/ Violations(graph, WithNeeds(n.id, value)) = {}
      \/ n.id = "m.tools.custom" /\ value = Text("enabled")

(* resolve returns as many nodes as the limit and the threshold allow, and *)
(* none scores less than one after it or one that is left out.             *)
MatchesAreTheBest ==
  \A answer \in answers :
    LET ids == {answer.ids[k] : k \in DOMAIN answer.ids}
        fit == {i \in Ids(graph) : answer.score[i] >= answer.threshold}
    IN /\ ids \subseteq fit
       /\ Cardinality(ids) = Len(answer.ids)
       /\ ids = fit \/ Len(answer.ids) = answer.limit
       /\ \A k \in DOMAIN answer.ids :
            \A i \in fit \ {answer.ids[j] : j \in 1 .. k} :
              answer.score[i] <= answer.score[answer.ids[k]]
=============================================================================
