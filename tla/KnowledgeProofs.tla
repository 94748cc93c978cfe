---------------------------- MODULE KnowledgeProofs ----------------------------
(***************************************************************************)
(* Theorems about Knowledge, for any agents, disks, candidates, scores and *)
(* bounds.                                                                 *)
(*                                                                         *)
(* The catalog is a constant of the code, so the first half establishes    *)
(* what it is: an identity names one node (IdsNameNodes), an edge is told  *)
(* by its type and its ends and joins nodes that exist (EdgesAreShaped,    *)
(* EdgesArePlaced), and every engine gets a graph that createGraph accepts *)
(* (CatalogsAreSound).  KnowledgeInv is the inductive invariant: what the  *)
(* graph of a service is made of, given what was seen when it was created, *)
(* and that an answer is one over that graph.                              *)
(***************************************************************************)
EXTENDS Knowledge, FiniteSetTheorems, TLAPS

-----------------------------------------------------------------------------
(* The nodes of the catalog. *)

BasicIds == {"m.model", "m.thinking", "m.thinking.budget", "m.tools"}
MemberIds == {"m.tools.read", "m.tools.bash", "m.tools.edit", "m.tools.write",
              "m.tools.ls", "m.tools.find", "m.tools.grep", "m.tools.custom"}
PolicyIds == {"m.tools.denylist", "m.tools.notools", "m.tools.execution",
              "m.tools.agent-mode"}
ResourceIds == {"m.extensions", "m.skills", "m.prompt", "m.context-files"}
SessionIds == {"m.compaction", "m.session.cwd", "m.retry", "m.transport", "m.cache"}

BasicNodes == ModelNodes \cup ThinkingNodes \cup {ToolsNode}

(* What the constructors of nodes make. *)
LEMMA NodeFields ==
  /\ \A i, k, v, d, c :
       LET n == Node(i, k, v, d, c)
       IN n.id = i /\ n.kind = k /\ n.values = v /\ n.default = d /\ n.category = c
  /\ \A i, v, d :
       LET n == Enum(i, v, d)
       IN n.id = i /\ n.kind = "enum" /\ n.values = v /\ n.default = d /\ n.category = {}
  /\ \A i :
       LET n == Free(i)
       IN n.id = i /\ n.kind = "free" /\ n.values = {} /\ n.default = {} /\ n.category = {}
  /\ \A i, v :
       LET n == Tool(i, v)
       IN /\ n.id = i /\ n.kind = "enum" /\ n.values = Switch
          /\ n.default = {Text("disabled")} /\ n.category = {v}
  BY DEF Node, Enum, Free, Tool

(* The identities alone. *)
LEMMA NodeIds ==
  /\ \A i, k, v, d, c : Node(i, k, v, d, c).id = i
  /\ \A i, v, d : Enum(i, v, d).id = i
  /\ \A i : Free(i).id = i
  /\ \A i, v : Tool(i, v).id = i
  BY NodeFields

(* The identities of each group of nodes. *)
LEMMA GroupIds ==
  /\ Members = MemberIds
  /\ {n.id : n \in BasicNodes} = BasicIds
  /\ {n.id : n \in ToolPolicyNodes} = PolicyIds
  /\ {n.id : n \in ResourceNodes} = ResourceIds
  /\ {n.id : n \in SessionNodes} = SessionIds
<1>1. Members = MemberIds
  BY NodeIds DEF Members, ToolNodes, MemberIds
<1>2. {n.id : n \in BasicNodes} = BasicIds
  BY NodeIds DEF BasicNodes, ModelNodes, ThinkingNodes, ToolsNode, BasicIds
<1>3. {n.id : n \in ToolPolicyNodes} = PolicyIds
  BY NodeIds DEF ToolPolicyNodes, PolicyIds
<1>4. {n.id : n \in ResourceNodes} = ResourceIds
  BY NodeIds DEF ResourceNodes, ResourceIds
<1>5. {n.id : n \in SessionNodes} = SessionIds
  BY NodeIds DEF SessionNodes, SessionIds
<1> QED
  BY <1>1, <1>2, <1>3, <1>4, <1>5

(* The identities of the catalog. *)
LEMMA CatalogIdsAre ==
  CatalogIds = BasicIds \cup MemberIds \cup PolicyIds \cup ResourceIds \cup SessionIds
<1>1. CatalogIds = {n.id : n \in BasicNodes} \cup Members
        \cup {n.id : n \in ToolPolicyNodes} \cup {n.id : n \in ResourceNodes} \cup {n.id : n \in SessionNodes}
  BY DEF CatalogIds, Nodes, Members, BasicNodes
<1> QED
  BY <1>1, GroupIds

(* An identity names one node: the groups share none, and within a group   *)
(* each node is written down with another.                                 *)
LEMMA IdsNameNodes == \A m, n \in Nodes : m.id = n.id => m = n
<1>1. /\ \A m, n \in BasicNodes : m.id = n.id => m = n
      /\ \A n \in BasicNodes : n.id \in BasicIds
  BY NodeIds DEF BasicNodes, ModelNodes, ThinkingNodes, ToolsNode, BasicIds
<1>2. /\ \A m, n \in ToolNodes : m.id = n.id => m = n
      /\ \A n \in ToolNodes : n.id \in MemberIds
  BY NodeIds DEF ToolNodes, MemberIds
<1>3. /\ \A m, n \in ToolPolicyNodes : m.id = n.id => m = n
      /\ \A n \in ToolPolicyNodes : n.id \in PolicyIds
  BY NodeIds DEF ToolPolicyNodes, PolicyIds
<1>4. /\ \A m, n \in ResourceNodes : m.id = n.id => m = n
      /\ \A n \in ResourceNodes : n.id \in ResourceIds
  BY NodeIds DEF ResourceNodes, ResourceIds
<1>5. /\ \A m, n \in SessionNodes : m.id = n.id => m = n
      /\ \A n \in SessionNodes : n.id \in SessionIds
  BY NodeIds DEF SessionNodes, SessionIds
<1>6. /\ BasicIds \cap (MemberIds \cup PolicyIds \cup ResourceIds \cup SessionIds) = {}
      /\ MemberIds \cap (PolicyIds \cup ResourceIds \cup SessionIds) = {}
      /\ PolicyIds \cap (ResourceIds \cup SessionIds) = {}
      /\ ResourceIds \cap SessionIds = {}
  BY DEF BasicIds, MemberIds, PolicyIds, ResourceIds, SessionIds
<1>7. Nodes = BasicNodes \cup ToolNodes \cup ToolPolicyNodes
              \cup ResourceNodes \cup SessionNodes
  BY DEF Nodes, BasicNodes
<1> QED
  BY <1>1, <1>2, <1>3, <1>4, <1>5, <1>6, <1>7

(* What a node of the catalog is. *)
Plain(n) ==
  /\ n.agent = {} /\ n.about = "catalog"
  /\ n.scope = IF n.id \in PiOnly THEN {"pi"} ELSE {}
  /\ n.kind = "enum" => n.values # {}

(* Every node of the catalog is plain. *)
LEMMA PlainNodes == \A n \in Nodes : Plain(n)
<1>1. \A i, k, v, d, c : (k = "enum" => v # {}) => Plain(Node(i, k, v, d, c))
  BY DEF Plain, Node
<1>2. \A i, v, d : v # {} => Plain(Enum(i, v, d))
  BY <1>1 DEF Enum
<1>3. \A i : Plain(Free(i))
  BY <1>1 DEF Free
<1>4. \A i, v : Plain(Tool(i, v))
  BY <1>1 DEF Tool, Switch
<1>5. \A n \in BasicNodes : Plain(n)
  BY <1>1, <1>2 DEF BasicNodes, ModelNodes, ThinkingNodes, ToolsNode, ToolNames
<1>6. \A n \in ToolNodes : Plain(n)
  BY <1>4 DEF ToolNodes
<1>7. \A n \in ToolPolicyNodes \cup ResourceNodes : Plain(n)
  BY <1>2, <1>3 DEF ToolPolicyNodes, ResourceNodes, Switch
<1>8. \A n \in SessionNodes : Plain(n)
  BY <1>2, <1>3 DEF SessionNodes, Switch
<1> QED
  BY <1>5, <1>6, <1>7, <1>8 DEF Nodes, BasicNodes

-----------------------------------------------------------------------------
(* The edges of the catalog. *)

NeededPairs ==
  (Members \cup {"m.tools.agent-mode"}) \X {"m.tools"}
  \cup { <<"m.thinking.budget", "m.thinking">>,
         <<"m.context-files", "m.session.cwd">>,
         <<"m.extensions", "m.session.cwd">> }

ConflictPairs ==
  { <<"m.tools", "m.tools.denylist">>, <<"m.tools", "m.tools.notools">>,
    <<"m.tools.denylist", "m.tools.notools">>, <<"m.tools.notools", "m.extensions">> }

(* An edge is told by its type and its ends; one has a condition. *)
Shaped(e) ==
  e = [Edge(e.type, e.from, e.to)
         EXCEPT !.condition =
           IF /\ e.type = "conflicts-with"
              /\ e.from = "m.tools.notools" /\ e.to = "m.extensions"
           THEN {[on |-> "m.tools.notools", value |-> Text("all")]} ELSE {}]

Placed(type, from, to) ==
  /\ {from, to} \subseteq CatalogIds /\ from # to
  /\ type = "depends-on" => <<from, to>> \in NeededPairs
  /\ type = "generalizes" => from = "m.tools" /\ to \in Members
  /\ type = "conflicts-with" => <<from, to>> \in ConflictPairs

(* What the constructor of edges makes. *)
LEMMA EdgeFields ==
  ASSUME NEW t, NEW i, NEW j
  PROVE  /\ Edge(t, i, j).type = t /\ Edge(t, i, j).from = i /\ Edge(t, i, j).to = j
         /\ ~(t = "conflicts-with" /\ i = "m.tools.notools" /\ j = "m.extensions")
              => Shaped(Edge(t, i, j))
  BY DEF Edge, Shaped

(* Every edge has the shape the rules of one type have. *)
LEMMA EdgesAreShaped == \A e \in Edges : Shaped(e)
<1>1. \A e \in EdgesOf("generalizes", {"m.tools"} \X Members) \cup DependsOn
                 \cup Affects \cup ComposesWith : Shaped(e)
  BY EdgeFields DEF EdgesOf, DependsOn, Affects, ComposesWith
<1>2. \A e \in ConflictsWith : Shaped(e)
  <2>1. Shaped([Edge("conflicts-with", "m.tools.notools", "m.extensions")
            EXCEPT !.condition = {[on |-> "m.tools.notools", value |-> Text("all")]}])
    BY DEF Shaped, Edge
  <2>2. \A e \in EdgesOf("conflicts-with",
          { <<"m.tools", "m.tools.denylist">>, <<"m.tools", "m.tools.notools">>,
            <<"m.tools.denylist", "m.tools.notools">> }) : Shaped(e)
    BY EdgeFields DEF EdgesOf
  <2> QED
    BY <2>1, <2>2 DEF ConflictsWith
<1> QED
  BY <1>1, <1>2 DEF Edges

(* Every edge joins two nodes of the catalog, and where its type may be. *)
LEMMA EdgesArePlaced == \A e \in Edges : Placed(e.type, e.from, e.to)
<1> DEFINE P(type, pairs) == \A p \in pairs : Placed(type, p[1], p[2])
<1>1. ASSUME NEW type, NEW pairs, P(type, pairs)
      PROVE  \A e \in EdgesOf(type, pairs) : Placed(e.type, e.from, e.to)
  BY <1>1, EdgeFields DEF EdgesOf
<1>2. P("generalizes", {"m.tools"} \X Members)
  BY CatalogIdsAre, GroupIds
  DEF Placed, BasicIds, MemberIds, PolicyIds, ResourceIds, SessionIds
<1>3. P("depends-on", NeededPairs)
  BY CatalogIdsAre, GroupIds
  DEF Placed, NeededPairs, BasicIds, MemberIds, PolicyIds, ResourceIds, SessionIds
<1>4. P("affects", 
    { <<"m.model", "m.thinking">>, <<"m.model", "m.compaction">>,
      <<"m.thinking", "m.compaction">>, <<"m.skills", "m.prompt">>,
      <<"m.context-files", "m.prompt">>, <<"m.extensions", "m.tools">>,
      <<"m.session.cwd", "m.tools.bash">> })
  BY CatalogIdsAre, GroupIds
  DEF Placed, BasicIds, MemberIds, PolicyIds, ResourceIds, SessionIds
<1>5. P("composes-with",
    { <<"m.thinking", "m.model">>, <<"m.tools.read", "m.tools.grep">>,
      <<"m.tools.bash", "m.tools.edit">>, <<"m.extensions", "m.tools.custom">>,
      <<"m.prompt", "m.skills">> })
  BY CatalogIdsAre, GroupIds
  DEF Placed, BasicIds, MemberIds, PolicyIds, ResourceIds, SessionIds
<1>6. P("conflicts-with", ConflictPairs)
  BY CatalogIdsAre, GroupIds
  DEF Placed, ConflictPairs, BasicIds, MemberIds, PolicyIds, ResourceIds, SessionIds
<1>7. \A e \in ConflictsWith : Placed(e.type, e.from, e.to)
  <2>1. \A e \in ConflictsWith :
          e.type = "conflicts-with" /\ <<e.from, e.to>> \in ConflictPairs
    BY EdgeFields DEF ConflictsWith, EdgesOf, ConflictPairs, Edge
  <2> QED
    BY <2>1, <1>6
<1> HIDE DEF P
<1>8. \A e \in DependsOn \cup Affects \cup ComposesWith : Placed(e.type, e.from, e.to)
  BY <1>1, <1>3, <1>4, <1>5 DEF DependsOn, Affects, ComposesWith, NeededPairs
<1> QED
  BY <1>1, <1>2, <1>7, <1>8 DEF Edges
(* The catalog of an engine is one that createGraph accepts. *)
LEMMA CatalogsAreSound ==
  ASSUME NEW engine \in Engines
  PROVE  LET c == Catalog[engine]
         IN /\ c = [nodes |-> c.nodes, edges |-> c.edges]
            /\ c.nodes = {n \in Nodes : OnEngine(n, engine)}
            /\ c.edges = {e \in Edges : {e.from, e.to} \subseteq Ids(c)}
            /\ Integrity(c.nodes, c.edges)
<1> DEFINE c == Catalog[engine]
<1>1. /\ c.nodes = {n \in Nodes : OnEngine(n, engine)}
      /\ c.edges = {e \in Edges : {e.from, e.to} \subseteq Ids(c)}
      /\ c = [nodes |-> c.nodes, edges |-> c.edges]
  BY DEF Catalog, CatalogFor, Ids
<1> HIDE DEF c
<1>2. Ids(c) \cap IllFormed = {}
  BY <1>1, KnowledgeAssumption DEF Ids, CatalogIds
<1>3. \A e, f \in c.edges : <<e.type, e.from, e.to>> = <<f.type, f.from, f.to>> => e = f
  <2> SUFFICES ASSUME NEW e \in Edges, NEW f \in Edges,
                      e.type = f.type, e.from = f.from, e.to = f.to
               PROVE  e = f
    BY <1>1
  <2>1. Shaped(e) /\ Shaped(f)
    BY EdgesAreShaped
  <2> QED
    BY <2>1 DEF Shaped
<1>4. \A e \in c.edges : {e.from, e.to} \subseteq Ids(c) /\ e.from # e.to
  BY <1>1, EdgesArePlaced DEF Placed
<1>5. \A n \in c.nodes : n.kind = "enum" => n.values # {}
  BY <1>1, PlainNodes DEF Plain
<1>6. \A m, n \in c.nodes : m.id = n.id => m = n
  BY <1>1, IdsNameNodes
<1> QED
  BY <1>1, <1>2, <1>3, <1>4, <1>5, <1>6 DEF Integrity, Ids, c

(* The catalog of pi is the whole one. *)
LEMMA DefaultIsWhole ==
  /\ DefaultCatalog.nodes = Nodes /\ DefaultCatalog.edges = Edges
  /\ Ids(DefaultCatalog) = CatalogIds
<1>1. \A n \in Nodes : OnEngine(n, "pi")
  BY PlainNodes DEF Plain, OnEngine
<1>2. DefaultCatalog.nodes = Nodes
  BY <1>1, CatalogsAreSound DEF DefaultCatalog, Engines
<1>3. Ids(DefaultCatalog) = CatalogIds
  BY <1>2 DEF Ids, CatalogIds
<1>4. DefaultCatalog.edges = Edges
  BY <1>3, CatalogsAreSound, EdgesArePlaced DEF DefaultCatalog, Engines, Placed
<1> QED
  BY <1>2, <1>3, <1>4

-----------------------------------------------------------------------------
(* The inductive invariant. *)

(* The fleet that was seen. *)
Seen == {s[1] : s \in {t \in service.seen : t[2] # "nothing"}}

SeenNodes ==
  {FleetNode(s[1], service.root, s[2]) : s \in {t \in service.seen : t[2] # "nothing"}}

(* What the service is, and over what. *)
ServiceInv ==
  /\ service.state \in {"none", "up", "threw"} /\ service.engine \in Engines
  /\ \A s \in service.seen : s = <<s[1], s[2]>> /\ s[1] \in Agents
  /\ \A s, t \in service.seen : s[1] = t[1] => s = t
  /\ service.root = None => service.seen = {} /\ service.readable
  /\ service.readable \in BOOLEAN
  /\ service.seen # {} => service.engine = "pi"
  /\ service.given => service.root \in {"explicit", None} /\ service.engine = "pi"
  /\ service.state = "threw" <=> ~service.readable \/ Seen \cap IllFormed # {}
  /\ Up => /\ graph.nodes = Catalog[service.engine].nodes \cup SeenNodes
           /\ graph.edges = Catalog[service.engine].edges

(* What was asked, and of what. *)
AnswersInv ==
  /\ answers # {} => Up
  /\ \A answer \in answers :
       \E partial \in [Scorable -> 0 .. MaxScore], threshold \in {0, 1}, limit \in {2, 5} :
         answer = [score |-> Score(partial), threshold |-> threshold, limit |-> limit,
                   ids |-> ResolveIntent(graph, Score(partial), threshold, limit)]

KnowledgeInv == ServiceInv /\ AnswersInv

(* What a node of the fleet is. *)
LEMMA FleetNodes ==
  ASSUME NEW a, NEW root, NEW content
  PROVE  LET n == FleetNode(a, root, content)
         IN /\ n.id = a /\ n.kind = "free" /\ n.values = {} /\ n.default = {}
            /\ n.category = {}
            /\ n.agent = {[name |-> a, root |-> root]} /\ n.about = About(a, content)
  BY DEF FleetNode, Free, Node

(* Creating the service: it throws for a root that cannot be listed or an  *)
(* ill-formed identity, and for nothing else.                              *)
LEMMA ComposeStep ==
  ASSUME KnowledgeInv, NEW given \in BOOLEAN, Compose(given)
  PROVE  KnowledgeInv'
<1> DEFINE root == Resolved(roots, given)
           fleet == Fleet(roots, root)
           merged == Merge(DefaultCatalog, fleet)
           readable == Readable(roots, root)
           sound == /\ readable
                    /\ Integrity(fleet, {}) /\ Integrity(merged.nodes, merged.edges)
<1>1. answers = {} /\ answers' = {}
  BY DEF KnowledgeInv, AnswersInv, Compose, Up
<1>2. /\ service'.root = root /\ service'.engine = "pi" /\ service'.given = given
      /\ service'.readable = readable
      /\ service'.seen = IF root = None \/ ~readable THEN {}
                         ELSE {<<a, roots[root].dirs[a]>> : a \in Agents}
      /\ service'.state = IF sound THEN "up" ELSE "threw"
      /\ graph' = IF sound THEN merged ELSE NoGraph
  BY DEF Compose
<1>3. given => root \in {"explicit", None}
  BY DEF Resolved
<1>4. SeenNodes' = fleet /\ Seen' = {n.id : n \in fleet} /\ Seen' \subseteq Agents
  <2>1. CASE root = None \/ ~readable
    BY <1>2, <2>1 DEF SeenNodes, Seen, Fleet
  <2>2. CASE root # None /\ readable
    <3> DEFINE dirs == roots[root].dirs
               L == Listed(dirs)
               S == {<<a, dirs[a]>> : a \in L}
    <3>1. {t \in service'.seen : t[2] # "nothing"} = S
      BY <1>2, <2>2 DEF Listed
    <3>2. fleet = {FleetNode(a, root, dirs[a]) : a \in L}
      BY <2>2 DEF Fleet
    <3>3. SeenNodes' = {FleetNode(s[1], root, s[2]) : s \in S}
      BY <3>1, <1>2 DEF SeenNodes
    <3>4. Seen' = {s[1] : s \in S}
      BY <3>1 DEF Seen
    <3>5. L \subseteq Agents /\ S = {<<a, dirs[a]>> : a \in L}
      BY DEF Listed
    <3> HIDE DEF S, L, dirs, root, fleet
    <3>6. \A n : n \in SeenNodes' <=> \E a \in L : n = FleetNode(a, root, dirs[a])
      <4>1. \A a \in L : LET s == <<a, dirs[a]>>
                         IN FleetNode(s[1], root, s[2]) = FleetNode(a, root, dirs[a])
        OBVIOUS
      <4> QED
        BY <3>3, <3>5, <4>1
    <3>7. \A a : a \in Seen' <=> a \in L
      <4>1. \A a \in L : <<a, dirs[a]>>[1] = a
        OBVIOUS
      <4>2. Seen' \subseteq L
        BY <3>4, <3>5, <4>1
      <4>3. L \subseteq Seen'
        BY <3>4, <3>5, <4>1
      <4> QED
        BY <4>2, <4>3
    <3>8. SeenNodes' = fleet /\ Seen' = L
      BY <3>2, <3>6, <3>7
    <3>9. L = {n.id : n \in fleet}
      BY <3>2, FleetNodes
    <3> QED
      BY <3>5, <3>8, <3>9
  <2> QED
    BY <2>1, <2>2
<1>5. \A n \in fleet : n.id \notin CatalogIds /\ n.kind = "free"
  BY <1>4, FleetNodes, KnowledgeAssumption DEF Fleet
<1>6. \A m, n \in fleet : m.id = n.id => m = n
  BY FleetNodes DEF Fleet
<1>7. merged.nodes = Nodes \cup fleet /\ merged.edges = Edges
  BY <1>5, DefaultIsWhole DEF Merge, Known
<1>8. sound <=> readable /\ Seen' \cap IllFormed = {}
  <2>1. Integrity(Nodes, Edges)
    BY DefaultIsWhole, CatalogsAreSound DEF DefaultCatalog, Engines
  <2> HIDE DEF root, fleet, merged, readable
  <2>2. Integrity(fleet, {}) <=> Seen' \cap IllFormed = {}
    BY <1>4, <1>5, <1>6 DEF Integrity
  <2>3. ASSUME Seen' \cap IllFormed = {} PROVE Integrity(merged.nodes, merged.edges)
    <3>1. {n.id : n \in merged.nodes} = CatalogIds \cup Seen'
      BY <1>4, <1>7 DEF CatalogIds
    <3>2. \A m, n \in merged.nodes : m.id = n.id => m = n
      BY <1>5, <1>6, <1>7, IdsNameNodes DEF CatalogIds
    <3>3. {n.id : n \in Nodes} = CatalogIds
      BY DEF CatalogIds
    <3> QED
      BY <2>1, <2>3, <3>1, <3>2, <3>3, <1>5, <1>7 DEF Integrity
  <2> QED
    BY <2>2, <2>3
<1>10. readable \in BOOLEAN /\ (root = None => readable)
  BY DEF Readable
<1> HIDE DEF root, fleet, merged, sound, readable
<1>9. ServiceInv'
  <2>1. Catalog["pi"].nodes = Nodes /\ Catalog["pi"].edges = Edges
    BY DefaultIsWhole DEF DefaultCatalog
  <2>2. /\ \A s \in service'.seen : s = <<s[1], s[2]>> /\ s[1] \in Agents
        /\ \A s, t \in service'.seen : s[1] = t[1] => s = t
        /\ root = None => service'.seen = {}
    BY <1>2
  <2> QED
    BY <1>2, <1>3, <1>4, <1>7, <1>8, <1>10, <2>1, <2>2 DEF ServiceInv, Up, Engines
<1> QED
  BY <1>1, <1>9 DEF KnowledgeInv, AnswersInv

(* Every step keeps the invariant. *)
LEMMA KnowledgeStep == ASSUME KnowledgeInv, [Next]_vars PROVE KnowledgeInv'
<1>1. CASE \E given \in BOOLEAN : Compose(given)
  BY <1>1, ComposeStep
<1>2. ASSUME NEW engine \in Engines, Inject(engine) PROVE KnowledgeInv'
  <2>1. answers = {} /\ answers' = {}
    BY <1>2 DEF KnowledgeInv, AnswersInv, Inject, Up
  <2>2. /\ graph' = Catalog[engine]
        /\ service' = [NoService EXCEPT !.engine = engine, !.state = "up"]
    BY <1>2, CatalogsAreSound DEF Inject
  <2>3. SeenNodes' = {} /\ Seen' = {}
    BY <2>2 DEF SeenNodes, Seen, NoService
  <2>4. ServiceInv'
    BY <2>2, <2>3 DEF ServiceInv, Up, NoService
  <2> QED
    BY <2>1, <2>4 DEF KnowledgeInv, AnswersInv
<1>3. CASE UNCHANGED <<service, graph, answers>>
  <2>1. ServiceInv'
    BY <1>3 DEF KnowledgeInv, ServiceInv, Up, Seen, SeenNodes
  <2>2. AnswersInv'
    BY <1>3 DEF KnowledgeInv, AnswersInv, Up, Score
  <2> QED
    BY <2>1, <2>2 DEF KnowledgeInv
<1>4. ASSUME NEW partial \in [Scorable -> 0 .. MaxScore], NEW threshold \in {0, 1},
             NEW limit \in {2, 5}, Ask(partial, threshold, limit)
      PROVE  KnowledgeInv'
  <2>1. ServiceInv' /\ Up'
    BY <1>4 DEF Ask, KnowledgeInv, ServiceInv, Up, Seen, SeenNodes
  <2>2. AnswersInv'
    BY <1>4, <2>1 DEF Ask, AnswersInv, Score
  <2> QED
    BY <2>1, <2>2 DEF KnowledgeInv
<1> QED
  BY <1>1, <1>2, <1>3, <1>4 DEF Next, ChangeDisk, Declare, Withdraw, vars

(* What is served is the catalog of an engine and the agents that were     *)
(* seen, and every answer is one over that (createLocalMediation,          *)
(* mergeCatalogs, KnowledgeService.resolve).                               *)
THEOREM KnowledgeInvariant == Spec => []KnowledgeInv
<1>1. Init => KnowledgeInv
  BY DEF Init, KnowledgeInv, ServiceInv, AnswersInv, NoService, Up, Engines, Seen
<1> QED
  BY <1>1, KnowledgeStep, PTL DEF Spec

-----------------------------------------------------------------------------
(* What the service serves. *)

(* The nodes of the graph are found by their identities. *)
LEMMA NodesAreFound ==
  ASSUME ServiceInv, Up
  PROVE  /\ Ids(graph) = Ids(Catalog[service.engine]) \cup Seen
         /\ Ids(Catalog[service.engine]) \subseteq CatalogIds /\ Seen \subseteq Agents
         /\ \A n \in graph.nodes : FindNode(graph, n.id) = n
<1>1. \A n \in Catalog[service.engine].nodes : n \in Nodes
  BY CatalogsAreSound DEF ServiceInv
<1>2. \A n \in SeenNodes : n.id \in Seen
  BY FleetNodes DEF SeenNodes, Seen
<1>3. ASSUME NEW a \in Seen PROVE \E n \in SeenNodes : n.id = a
  <2>1. PICK s \in service.seen : s[1] = a /\ s[2] # "nothing"
    BY <1>3 DEF Seen
  <2>2. FleetNode(s[1], service.root, s[2]) \in SeenNodes
    BY <2>1 DEF SeenNodes
  <2> QED
    BY <2>1, <2>2, FleetNodes
<1>4. Seen \subseteq Agents
  BY DEF ServiceInv, Seen
<1>5. \A m, n \in SeenNodes : m.id = n.id => m = n
  BY FleetNodes DEF ServiceInv, SeenNodes
<1>6. \A m, n \in graph.nodes : m.id = n.id => m = n
  BY <1>1, <1>2, <1>4, <1>5, IdsNameNodes, KnowledgeAssumption DEF ServiceInv, CatalogIds
<1>7. \A n \in graph.nodes : FindNode(graph, n.id) = n
  <2> TAKE n \in graph.nodes
  <2>1. FindNode(graph, n.id) \in graph.nodes /\ FindNode(graph, n.id).id = n.id
    BY DEF FindNode
  <2> QED
    BY <1>6, <2>1
<1> QED
  BY <1>1, <1>2, <1>3, <1>4, <1>7 DEF Ids, CatalogIds, ServiceInv

(* So are those of the catalog. *)
LEMMA CatalogNodesAreFound ==
  /\ \A n \in Nodes : FindNode(DefaultCatalog, n.id) = n
  /\ \A i \in CatalogIds :
       FindNode(DefaultCatalog, i) \in Nodes /\ FindNode(DefaultCatalog, i).id = i
  BY IdsNameNodes, DefaultIsWhole DEF FindNode, CatalogIds

(* Both find the same node for an identity of the catalog that is served. *)
LEMMA NodesAreKept ==
  ASSUME ServiceInv, Up, NEW i \in Ids(Catalog[service.engine])
  PROVE  FindNode(graph, i) = FindNode(DefaultCatalog, i) /\ FindNode(graph, i) \in Nodes
<1>1. PICK n \in Catalog[service.engine].nodes : n.id = i
  BY DEF Ids
<1>2. n \in Nodes /\ n \in graph.nodes
  BY CatalogsAreSound DEF ServiceInv
<1> QED
  BY <1>1, <1>2, NodesAreFound, CatalogNodesAreFound

(* Every agent with an agent.yaml is reached, under the root resolved,     *)
(* nothing else is, and a root that cannot be listed or a name that makes  *)
(* no identity, and only those, stop the service (buildFleetCatalog,       *)
(* agentFor).                                                              *)
THEOREM FleetIsServedHolds == Spec => []FleetIsServed
<1>1. ServiceInv => FleetIsServed
  <2> SUFFICES ASSUME ServiceInv PROVE FleetIsServed
    OBVIOUS
  <2> DEFINE listed == {a \in Agents : \E s \in service.seen : s[1] = a /\ s[2] # "nothing"}
  <2>1. listed = Seen
    BY DEF ServiceInv, Seen
  <2>2. ASSUME Up, NEW i \in Ids(Catalog[service.engine])
        PROVE  Known(graph, i) /\ AgentFor(i) = {} /\ i \notin Seen
    <3>1. Known(graph, i) /\ i \notin Seen
      BY <2>2, NodesAreFound, KnowledgeAssumption DEF Known
    <3>2. FindNode(graph, i).agent = {}
      BY <2>2, NodesAreKept, PlainNodes DEF Plain
    <3> QED
      BY <3>1, <3>2 DEF AgentFor
  <2>3. ASSUME Up, NEW s \in service.seen, s[2] # "nothing"
        PROVE  /\ s[1] \in Ids(graph)
               /\ AgentFor(s[1]) = {[name |-> s[1], root |-> service.root]}
               /\ FindNode(graph, s[1]).about = About(s[1], s[2])
    <3> DEFINE n == FleetNode(s[1], service.root, s[2])
    <3>1. n \in graph.nodes
      BY <2>3 DEF ServiceInv, SeenNodes
    <3>2. /\ n.id = s[1] /\ n.agent = {[name |-> s[1], root |-> service.root]}
          /\ n.about = About(s[1], s[2])
      BY FleetNodes
    <3> HIDE DEF n
    <3>3. FindNode(graph, s[1]) = n /\ s[1] \in Ids(graph)
      BY <3>1, <3>2, <2>3, NodesAreFound DEF Ids
    <3> QED
      BY <3>2, <3>3 DEF AgentFor, Known
  <2>4. Up => {i \in Ids(graph) : AgentFor(i) # {}} = listed
    <3> SUFFICES ASSUME Up, NEW i \in Ids(graph) PROVE AgentFor(i) # {} <=> i \in Seen
      BY <2>1, NodesAreFound DEF ServiceInv
    <3>1. CASE i \in Seen
      BY <3>1, <2>3 DEF Seen
    <3>2. CASE i \in Ids(Catalog[service.engine])
      BY <3>2, <2>2
    <3> QED
      BY <3>1, <3>2, NodesAreFound
  <2>5. Up => \A a \in listed : AgentFor(a) = {[name |-> a, root |-> service.root]}
    BY <2>3
  <2>6. ASSUME Up, NEW a \in listed
        PROVE  IF a \in Curated THEN FindNode(graph, a).about = "curated"
               ELSE FindNode(graph, a).about = "yaml" <=> <<a, "described">> \in service.seen
    <3>1. PICK s \in service.seen : s[1] = a /\ s[2] # "nothing"
      OBVIOUS
    <3>2. FindNode(graph, a).about = About(a, s[2])
      BY <2>3, <2>6, <3>1
    <3>3. <<a, "described">> \in service.seen <=> s[2] = "described"
      BY <3>1 DEF ServiceInv
    <3> QED
      BY <3>2, <3>3 DEF About
  <2> QED
    BY <2>1, <2>4, <2>5, <2>6 DEF FleetIsServed, ServiceInv
<1> QED
  BY <1>1, KnowledgeInvariant, PTL DEF KnowledgeInv

-----------------------------------------------------------------------------
(* The rules of the catalog. *)

(* A fleet adds nodes without edges: no rule reads them. *)
LEMMA FleetKeepsRules == ASSUME ServiceInv PROVE FleetKeepsTheRules
<1> SUFFICES ASSUME Up, service.engine = "pi" PROVE FleetKeepsTheRules
  BY DEF FleetKeepsTheRules
<1> DEFINE part == Part(EngineIds)
<1>1. graph.edges = DefaultCatalog.edges
  BY DEF ServiceInv, DefaultCatalog
<1>2. DOMAIN part \subseteq CatalogIds
  BY DefaultIsWhole DEF Part, EngineIds
<1>3. \A i \in CatalogIds : /\ Known(graph, i) /\ Known(DefaultCatalog, i)
                            /\ FindNode(graph, i) = FindNode(DefaultCatalog, i)
  BY NodesAreFound, NodesAreKept, DefaultIsWhole DEF DefaultCatalog, Known
<1> HIDE DEF part
<1>4. BadEntries(graph, part) = BadEntries(DefaultCatalog, part)
  BY <1>2, <1>3 DEF BadEntries
<1>5. \A type : Between(graph, type) = Between(DefaultCatalog, type)
  BY <1>1 DEF Between
<1>6. \A e \in Between(DefaultCatalog, "generalizes") : e.to \in CatalogIds
  BY EdgesArePlaced, DefaultIsWhole DEF Between, Placed
<1>7. InconsistentEdges(graph, part) = InconsistentEdges(DefaultCatalog, part)
  BY <1>3, <1>5, <1>6 DEF InconsistentEdges
<1>8. /\ ConflictEdges(graph, part) = ConflictEdges(DefaultCatalog, part)
      /\ UnmetEdges(graph, part) = UnmetEdges(DefaultCatalog, part)
  BY <1>5 DEF ConflictEdges, UnmetEdges
<1>9. Violations(graph, part) = Violations(DefaultCatalog, part)
  BY <1>4, <1>7, <1>8 DEF Violations
<1>10. /\ Emergences(graph, DOMAIN part) = Emergences(DefaultCatalog, DOMAIN part)
       /\ SideEffects(graph, DOMAIN part) = SideEffects(DefaultCatalog, DOMAIN part)
       /\ Requires(graph, DOMAIN part) = Requires(DefaultCatalog, DOMAIN part)
  BY <1>5 DEF Emergences, SideEffects, Requires, Leaving
<1>11. \A i \in DOMAIN part :
         NamedConflicts(graph, part, i) = NamedConflicts(DefaultCatalog, part, i)
  BY <1>1 DEF NamedConflicts, Incident
<1> QED
  BY <1>9, <1>10, <1>11 DEF FleetKeepsTheRules, part

(* A scope leaves out nodes, and the rules with an end among them; no      *)
(* capability that is left needs one that is not.                          *)
LEMMA ScopesKeepRules == ASSUME ServiceInv PROVE ScopesKeepTheRules
<1> SUFFICES ASSUME service.root = None, ~service.given, service.state # "none"
             PROVE  ScopesKeepTheRules
  BY DEF ScopesKeepTheRules
<1> DEFINE part == Part(Ids(graph))
           c == Catalog[service.engine]
<1>1. service.seen = {}
  BY DEF ServiceInv
<1>2. Up
  BY <1>1 DEF ServiceInv, Up, Seen
<1>3. graph.nodes = c.nodes /\ graph.edges = c.edges
  BY <1>1, <1>2 DEF ServiceInv, SeenNodes
<1>4. graph.nodes = ListCapabilities(DefaultCatalog, service.engine)
  BY <1>3, CatalogsAreSound, DefaultIsWhole DEF ServiceInv, ListCapabilities
<1>5. Ids(graph) = Ids(c) /\ Ids(c) \subseteq CatalogIds
  BY <1>2, <1>3, NodesAreFound DEF Ids
<1>6. graph.edges = {e \in Edges : {e.from, e.to} \subseteq Ids(graph)}
  <2>1. service.engine \in Engines
    BY DEF ServiceInv
  <2>2. c.edges = {e \in Edges : {e.from, e.to} \subseteq Ids(c)}
    BY <2>1, CatalogsAreSound
  <2> QED
    BY <1>3, <1>5, <2>2
<1>7. CatalogIds \ PiOnly \subseteq Ids(graph)
  <2> SUFFICES ASSUME NEW n \in Nodes, n.id \notin PiOnly PROVE n.id \in Ids(graph)
    BY DEF CatalogIds
  <2>1. OnEngine(n, service.engine)
    BY PlainNodes DEF Plain, OnEngine
  <2> QED
    BY <2>1, <1>4, DefaultIsWhole DEF ListCapabilities, Ids
<1>8. DOMAIN part \subseteq Ids(graph)
  BY DEF Part
<1>9. \A i \in Ids(graph) : /\ Known(graph, i) /\ Known(DefaultCatalog, i)
                            /\ FindNode(graph, i) = FindNode(DefaultCatalog, i)
  BY <1>2, <1>5, NodesAreKept, DefaultIsWhole DEF Known
<1> HIDE DEF part
<1>10. BadEntries(graph, part) = BadEntries(DefaultCatalog, part)
  BY <1>8, <1>9 DEF BadEntries
<1>11. \A e \in Edges : {e.from, e.to} \subseteq Ids(graph) => e \in graph.edges
  BY <1>6
<1>12. graph.edges \subseteq Edges /\ DefaultCatalog.edges = Edges
  BY <1>6, DefaultIsWhole
<1>13. ConflictEdges(graph, part) = ConflictEdges(DefaultCatalog, part)
  BY <1>8, <1>11, <1>12 DEF ConflictEdges, Between, Declared
<1>14. UnmetEdges(graph, part) = UnmetEdges(DefaultCatalog, part)
  <2>1. \A e \in Between(DefaultCatalog, "depends-on") : e.to \in Ids(graph)
    BY <1>7, <1>12, EdgesArePlaced DEF Between, Placed, NeededPairs, PiOnly
  <2> QED
    BY <2>1, <1>8, <1>11, <1>12 DEF UnmetEdges, Between, Declared
<1>15. InconsistentEdges(graph, part) = InconsistentEdges(DefaultCatalog, part)
  <2>1. \A e \in Between(DefaultCatalog, "generalizes") : e.from \in Ids(graph)
    BY <1>7, <1>12, EdgesArePlaced, CatalogIdsAre DEF Between, Placed, PiOnly
  <2> QED
    BY <2>1, <1>8, <1>9, <1>11, <1>12 DEF InconsistentEdges, Between, Declared
<1>16. Violations(graph, part) = Violations(DefaultCatalog, part)
  BY <1>10, <1>13, <1>14, <1>15 DEF Violations
<1> QED
  BY <1>2, <1>4, <1>16 DEF ScopesKeepTheRules, part

(* Neither the fleet nor the scope of an engine changes a rule             *)
(* (mergeCatalogs, catalogFor).                                            *)
THEOREM RulesAreKeptHolds == Spec => []RulesAreKept
<1>1. ServiceInv => RulesAreKept
  BY FleetKeepsRules, ScopesKeepRules DEF RulesAreKept
<1> QED
  BY <1>1, KnowledgeInvariant, PTL DEF KnowledgeInv

(* Withdrawing a capability only leaves dependencies unmet                 *)
(* (validateConfig): only that makes a configuration smaller, and every    *)
(* other rule reads what is declared, never what is not.                   *)
THEOREM WithdrawalsHold == Spec => WithdrawalsOnlyUnmeet
<1>1. ASSUME [Next]_vars, NEW i \in DOMAIN config, DOMAIN config' = DOMAIN config \ {i}
      PROVE  Violations(graph, config') \ Violations(graph, config) \subseteq
               {Violation("UNMET_DEPENDENCY", e.from) :
                  e \in {f \in Between(graph, "depends-on") : f.to = i}}
  <2>1. \A j \in DOMAIN config' : config'[j] = config[j]
    <3>1. CASE \E j \in DOMAIN config : Withdraw(j)
      BY <3>1 DEF Withdraw
    <3>2. CASE \E c \in Candidates : Declare(c[1], c[2])
      BY <3>2, <1>1 DEF Declare
    <3>3. CASE UNCHANGED config
      BY <3>3
    <3> QED
      BY <3>1, <3>2, <3>3, <1>1 DEF Next, Compose, Inject, ChangeDisk, Ask, vars
  <2>2. BadEntries(graph, config') \subseteq BadEntries(graph, config)
    BY <1>1, <2>1 DEF BadEntries
  <2>3. ConflictEdges(graph, config') \subseteq ConflictEdges(graph, config)
    BY <1>1, <2>1 DEF ConflictEdges, ConditionHolds, Declared
  <2>4. InconsistentEdges(graph, config') \subseteq InconsistentEdges(graph, config)
    BY <1>1, <2>1 DEF InconsistentEdges, Omits, Declared
  <2>5. UnmetEdges(graph, config') \subseteq
          UnmetEdges(graph, config) \cup {f \in Between(graph, "depends-on") : f.to = i}
    BY <1>1 DEF UnmetEdges, Declared
  <2> QED
    BY <2>2, <2>3, <2>4, <2>5 DEF Violations
<1>2. [Next]_vars => [\A i \in DOMAIN config :
       DOMAIN config' = DOMAIN config \ {i} =>
         Violations(graph, config') \ Violations(graph, config) \subseteq
           {Violation("UNMET_DEPENDENCY", e.from) :
              e \in {f \in Between(graph, "depends-on") : f.to = i}}]_vars
  BY <1>1
<1> QED
  BY <1>2, PTL DEF Spec, WithdrawalsOnlyUnmeet

-----------------------------------------------------------------------------
(* The matches of an intent. *)

AllIds == Agents \cup CatalogIds

(* Two identities have two places; there are finitely many. *)
LEMMA PositionIsInjective ==
  /\ \A i \in AllIds : Position(i) \in DOMAIN Alphabetical /\ Alphabetical[Position(i)] = i
  /\ \A i \in AllIds : Position(i) \in Nat
  /\ IsFiniteSet(AllIds)
<1>1. \A i \in AllIds : Position(i) \in DOMAIN Alphabetical /\ Alphabetical[Position(i)] = i
  BY KnowledgeAssumption DEF AllIds, Position
<1>2. DOMAIN Alphabetical = 1 .. Len(Alphabetical) /\ Len(Alphabetical) \in Nat
  BY KnowledgeAssumption
<1>3. IsFiniteSet(AllIds)
  <2> DEFINE f == [i \in AllIds |-> Position(i)]
  <2>1. f \in Injection(AllIds, 1 .. Len(Alphabetical))
    BY <1>1, <1>2 DEF Injection, IsInjective
  <2>2. IsFiniteSet(1 .. Len(Alphabetical))
    BY <1>2, FS_Interval
  <2> QED
    BY <2>1, <2>2, FS_Injection
<1> QED
  BY <1>1, <1>2, <1>3

(* The order of the matches is total, as two ids have different places. *)
LEMMA BetterIsAnOrder ==
  ASSUME NEW S \in SUBSET AllIds, NEW score, \A i \in S : score[i] \in Nat
  PROVE  /\ \A i \in S : ~Better(score, i, i)
         /\ \A i, j \in S : i # j => Better(score, i, j) \/ Better(score, j, i)
         /\ \A i, j, k \in S :
              Better(score, i, j) /\ Better(score, j, k) => Better(score, i, k)
<1>1. \A i, j \in S : i # j => Position(i) # Position(j)
  BY PositionIsInjective
<1>2. \A i \in S : Position(i) \in Nat
  BY PositionIsInjective
<1> QED
  BY <1>1, <1>2 DEF Better

(* Hence each of them has a place of its own, and all places are taken. *)
LEMMA PlacesAreTaken ==
  ASSUME NEW S \in SUBSET AllIds, NEW score, \A i \in S : score[i] \in Nat,
         NEW place, place = [i \in S |-> 1 + Cardinality({j \in S : Better(score, j, i)})]
  PROVE  /\ IsFiniteSet(S) /\ Cardinality(S) \in Nat
         /\ place \in [S -> 1 .. Cardinality(S)]
         /\ \A i, j \in S : Better(score, i, j) => place[i] < place[j]
         /\ \A i, j \in S : place[i] = place[j] => i = j
         /\ \A k \in 1 .. Cardinality(S) : \E i \in S : place[i] = k
<1> DEFINE Above(i) == {j \in S : Better(score, j, i)}
<1>1. IsFiniteSet(S) /\ Cardinality(S) \in Nat
  BY PositionIsInjective, FS_Subset, FS_CardinalityType
<1>2. \A i \in S : /\ Above(i) \in SUBSET S /\ IsFiniteSet(Above(i))
                   /\ Cardinality(Above(i)) \in Nat
                   /\ Cardinality(Above(i)) < Cardinality(S)
  <2> TAKE i \in S
  <2>1. Above(i) \in SUBSET S /\ Above(i) # S
    BY BetterIsAnOrder
  <2>2. IsFiniteSet(Above(i)) /\ Cardinality(Above(i)) \in Nat
    BY <1>1, <2>1, FS_Subset, FS_CardinalityType
  <2> QED
    BY <1>1, <2>1, <2>2, FS_Subset
<1>3. \A i, j \in S : Better(score, i, j) => Cardinality(Above(i)) < Cardinality(Above(j))
  <2> SUFFICES ASSUME NEW i \in S, NEW j \in S, Better(score, i, j)
               PROVE  Cardinality(Above(i)) < Cardinality(Above(j))
    OBVIOUS
  <2>1. Above(i) \in SUBSET Above(j) /\ Above(i) # Above(j)
    BY BetterIsAnOrder
  <2> QED
    <3>1. /\ IsFiniteSet(Above(j))
          /\ Cardinality(Above(i)) \in Nat /\ Cardinality(Above(j)) \in Nat
      BY <1>2
    <3> HIDE DEF Above
    <3> QED
      BY <2>1, <3>1, FS_Subset
<1> HIDE DEF Above
<1>4. place = [i \in S |-> 1 + Cardinality(Above(i))]
  BY DEF Above
<1>5. place \in [S -> 1 .. Cardinality(S)]
  BY <1>1, <1>2, <1>4
<1>6. \A i, j \in S : Better(score, i, j) => place[i] < place[j]
  BY <1>2, <1>3, <1>4
<1>7. \A i, j \in S : place[i] = place[j] => i = j
  <2> SUFFICES ASSUME NEW i \in S, NEW j \in S, place[i] = place[j], i # j PROVE FALSE
    OBVIOUS
  <2>1. Better(score, i, j) \/ Better(score, j, i)
    BY BetterIsAnOrder
  <2>2. place[i] \in Int /\ place[j] \in Int
    BY <1>1, <1>5
  <2> QED
    BY <1>6, <2>1, <2>2
<1>8. place \in Surjection(S, 1 .. Cardinality(S))
  <2>1. place \in Injection(S, 1 .. Cardinality(S))
    BY <1>5, <1>7 DEF Injection, IsInjective
  <2>2. /\ IsFiniteSet(1 .. Cardinality(S))
        /\ Cardinality(1 .. Cardinality(S)) = Cardinality(S)
    BY <1>1, FS_Interval
  <2> QED
    BY <2>1, <2>2, FS_Injection
<1> QED
  BY <1>1, <1>5, <1>6, <1>7, <1>8 DEF Surjection

(* What MatchesAreTheBest says of one answer. *)
Best(g, score, threshold, limit, found) ==
  LET ids == {found[k] : k \in DOMAIN found}
      fit == {i \in Ids(g) : score[i] >= threshold}
  IN /\ ids \subseteq fit
     /\ Cardinality(ids) = Len(found)
     /\ ids = fit \/ Len(found) = limit
     /\ \A k \in DOMAIN found :
          \A i \in fit \ {found[j] : j \in 1 .. k} : score[i] <= score[found[k]]

(* resolve answers with the best. *)
LEMMA BestAreResolved ==
  ASSUME NEW g, Ids(g) \subseteq AllIds, NEW score, NEW threshold, NEW limit \in Nat,
         \A i \in Ids(g) : score[i] \in Nat
  PROVE  Best(g, score, threshold, limit, ResolveIntent(g, score, threshold, limit))
<1> DEFINE found == ResolveIntent(g, score, threshold, limit)
           fit == {i \in Ids(g) : score[i] >= threshold}
           Place(i) == 1 + Cardinality({j \in fit : Better(score, j, i)})
           place == [i \in fit |-> Place(i)]
           size == IF Cardinality(fit) < limit THEN Cardinality(fit) ELSE limit
           ids == {found[k] : k \in DOMAIN found}
<1>1. fit \in SUBSET AllIds /\ \A i \in fit : score[i] \in Nat
  OBVIOUS
<1>2. found = [k \in 1 .. size |-> CHOOSE i \in fit : place[i] = k]
  <2>1. found = [k \in 1 .. size |-> CHOOSE i \in fit : Place(i) = k]
    BY DEF ResolveIntent
  <2>2. \A k \in 1 .. size :
          (CHOOSE i \in fit : place[i] = k) = CHOOSE i \in fit : Place(i) = k
    <3> HIDE DEF Place
    <3> QED
      OBVIOUS
  <2> QED
    BY <2>1, <2>2
<1>3. /\ IsFiniteSet(fit) /\ Cardinality(fit) \in Nat
      /\ place \in [fit -> 1 .. Cardinality(fit)]
      /\ \A i, j \in fit : Better(score, i, j) => place[i] < place[j]
      /\ \A i, j \in fit : place[i] = place[j] => i = j
      /\ \A k \in 1 .. Cardinality(fit) : \E i \in fit : place[i] = k
  <2>1. place = [i \in fit |-> 1 + Cardinality({j \in fit : Better(score, j, i)})]
    OBVIOUS
  <2> HIDE DEF fit, place
  <2> QED
    BY <1>1, <2>1, PlacesAreTaken
<1>4. \A i, j \in fit : score[i] > score[j] => Better(score, i, j)
  BY DEF Better
<1> HIDE DEF fit, place, found
<1>5. /\ size \in Nat /\ size <= Cardinality(fit)
      /\ Len(found) = size /\ DOMAIN found = 1 .. size
  BY <1>2, <1>3
<1>6. \A k \in 1 .. size : found[k] \in fit /\ place[found[k]] = k
  BY <1>2, <1>3, <1>5
<1> HIDE DEF size
<1>7. ids \subseteq fit
  BY <1>5, <1>6
<1>8. Cardinality(ids) = size
  <2>1. found \in Bijection(1 .. size, ids)
    <3>1. found \in [1 .. size -> ids]
      BY <1>2, <1>5
    <3>2. found \in Injection(1 .. size, ids)
      <4>1. \A j, k \in 1 .. size : found[j] = found[k] => j = k
        BY <1>6
      <4> HIDE DEF ids
      <4> QED
        BY <3>1, <4>1 DEF Injection, IsInjective
    <3>3. found \in Surjection(1 .. size, ids)
      BY <3>1, <1>5 DEF Surjection
    <3> QED
      BY <3>2, <3>3 DEF Bijection
  <2>2. ExistsBijection(1 .. size, ids)
    BY <2>1 DEF ExistsBijection
  <2> QED
    BY <2>2, <1>5, FS_CountingElements
<1>9. ids = fit \/ size = limit
  <2>1. CASE size = limit
    BY <2>1
  <2>2. CASE size = Cardinality(fit)
    <3>1. \A i \in fit : place[i] \in 1 .. size /\ found[place[i]] = i
      BY <2>2, <1>3, <1>6
    <3> QED
      BY <3>1, <1>5, <1>7
  <2> QED
    BY <2>1, <2>2 DEF size
<1>10. ASSUME NEW k \in DOMAIN found, NEW i \in fit \ {found[j] : j \in 1 .. k}
       PROVE  score[i] <= score[found[k]]
  <2>1. ~(place[i] < k)
    <3> SUFFICES ASSUME place[i] < k PROVE FALSE
      OBVIOUS
    <3>1. place[i] \in 1 .. k /\ place[i] \in 1 .. size
      BY <1>3, <1>5
    <3>2. found[place[i]] = i
      BY <3>1, <1>3, <1>6
    <3> QED
      BY <3>1, <3>2
  <2>2. ~Better(score, i, found[k])
    BY <2>1, <1>3, <1>5, <1>6
  <2> QED
    BY <2>2, <1>1, <1>4, <1>5, <1>6
<1> QED
  BY <1>5, <1>7, <1>8, <1>9, <1>10 DEF fit, Best, found

(* resolve returns the best nodes that reach the threshold, as many as the *)
(* limit allows (resolveIntent).                                           *)
THEOREM MatchesAreTheBestHolds == Spec => []MatchesAreTheBest
<1>1. KnowledgeInv => MatchesAreTheBest
  <2> SUFFICES ASSUME KnowledgeInv, NEW answer \in answers
               PROVE  Best(graph, answer.score, answer.threshold, answer.limit, answer.ids)
    BY DEF MatchesAreTheBest, Best
  <2>1. Up /\ ServiceInv
    BY DEF KnowledgeInv, AnswersInv
  <2>2. PICK partial \in [Scorable -> 0 .. MaxScore],
             threshold \in {0, 1}, limit \in {2, 5} :
         answer = [score |-> Score(partial), threshold |-> threshold, limit |-> limit,
                   ids |-> ResolveIntent(graph, Score(partial), threshold, limit)]
    BY DEF KnowledgeInv, AnswersInv
  <2>3. Ids(graph) \subseteq AllIds
    BY <2>1, NodesAreFound DEF AllIds
  <2>4. \A i \in Ids(graph) : answer.score[i] \in Nat
    BY <2>2, KnowledgeAssumption DEF Score
  <2>5. /\ answer.limit \in Nat
        /\ answer.ids =
             ResolveIntent(graph, answer.score, answer.threshold, answer.limit)
    BY <2>2
  <2> QED
    BY <2>3, <2>4, <2>5, BestAreResolved
<1> QED
  BY <1>1, KnowledgeInvariant, PTL

-----------------------------------------------------------------------------
(* The values of the catalog. *)

(* What the domain of a node admits, whoever needs it. *)
Valued(n) ==
  /\ \A v \in n.default : DomainAccepts(n, v)
  /\ n.id \notin Members => n.category = {}
  /\ n.id \in Members => /\ n.category # {}
                         /\ n.values = Switch /\ n.default = {Text("disabled")}
                         /\ n.id # "m.tools.custom" => n.category \subseteq ToolNames
  /\ n.id = "m.tools" => n.kind = "enum" /\ n.values = ToolNames
  /\ n.id = "m.thinking" => n.values # {}
  /\ n.id = "m.session.cwd" => n.kind = "free" /\ n.values = {}

(* A domain accepts what it lists. *)
LEMMA TextIsAccepted ==
  \A n, v : v \in n.values => DomainAccepts(n, Text(v))
  BY DEF DomainAccepts, Text

(* Every node of the catalog is valued so. *)
LEMMA NodesAreValued == \A n \in Nodes : Valued(n)
<1>1. \A n \in ToolNodes : Valued(n)
  <2>1. ASSUME NEW n \in ToolNodes
        PROVE  /\ n.default = {Text("disabled")} /\ n.values = Switch
               /\ n.category # {} /\ n.id \in Members
    <3>1. PICK i, v : n = Tool(i, v)
      BY DEF ToolNodes
    <3>2. n.id \in Members
      BY DEF Members
    <3>3. n.default = {Text("disabled")} /\ n.values = Switch /\ n.category = {v}
      BY <3>1, NodeFields
    <3> QED
      BY <3>2, <3>3
  <2>2. \A n \in ToolNodes : n.id # "m.tools.custom" => n.category \subseteq ToolNames
    BY NodeFields DEF ToolNodes, ToolNames
  <2>3. \A n \in ToolNodes : n.id \notin {"m.tools", "m.thinking", "m.session.cwd"}
    BY NodeFields DEF ToolNodes
  <2>4. "disabled" \in Switch
    BY DEF Switch
  <2> QED
    BY <2>1, <2>2, <2>3, <2>4, TextIsAccepted DEF Valued
<1>2. \A i : i \notin Members \cup {"m.tools", "m.thinking"} => Valued(Free(i))
  BY NodeFields DEF Valued
<1>3. \A i, vs, v :
        i \notin Members \cup {"m.tools", "m.thinking", "m.session.cwd"} /\ v \in vs
        => Valued(Enum(i, vs, {Text(v)})) /\ Valued(Enum(i, vs, {}))
  BY NodeFields, TextIsAccepted DEF Valued
<1>4. \A n \in BasicNodes : Valued(n)
  <2>1. Valued(ToolsNode)
    BY NodeFields, GroupIds DEF ToolsNode, Valued, DomainAccepts, Some, MemberIds
  <2>2. Valued(Enum("m.thinking",
                    {"off", "minimal", "low", "medium", "high", "xhigh", "max"},
                    {Text("off")}))
    BY NodeFields, TextIsAccepted, GroupIds DEF Valued, MemberIds
  <2>3. \A n \in ModelNodes : Valued(n)
    BY NodeFields, GroupIds DEF Valued, ModelNodes, MemberIds
  <2>4. Valued(Node("m.thinking.budget", "range", {"0", "1000000"}, {}, {}))
    BY NodeFields, GroupIds DEF Valued, MemberIds
  <2> QED
    BY <2>1, <2>2, <2>3, <2>4 DEF BasicNodes, ThinkingNodes
<1>5. \A n \in ToolPolicyNodes : Valued(n)
  <2>1. Valued(Free("m.tools.denylist"))
    BY <1>2, GroupIds DEF MemberIds
  <2>2. Valued(Enum("m.tools.notools", {"all", "builtin"}, {}))
    BY <1>3, GroupIds DEF MemberIds
  <2>3. Valued(Enum("m.tools.execution", {"sequential", "parallel"}, {Text("parallel")}))
    BY <1>3, GroupIds DEF MemberIds
  <2>4. Valued(Enum("m.tools.agent-mode", {"static", "dynamic"}, {Text("static")}))
    BY <1>3, GroupIds DEF MemberIds
  <2> QED
    BY <2>1, <2>2, <2>3, <2>4 DEF ToolPolicyNodes
<1>6. \A n \in ResourceNodes : Valued(n)
  BY <1>2, <1>3, GroupIds DEF ResourceNodes, Switch, MemberIds
<1>7. \A n \in SessionNodes : Valued(n)
  BY <1>2, <1>3, GroupIds DEF SessionNodes, Switch, MemberIds
<1> QED
  BY <1>1, <1>4, <1>5, <1>6, <1>7 DEF Nodes, BasicNodes

(* A value of the catalog is valid with what it needs, but for the         *)
(* exception that EveryValueIsUsable names.                                *)
LEMMA ValuesAreUsable ==
  ASSUME ServiceInv, Up, NEW n \in graph.nodes, NEW value,
         value \in {Text(v) : v \in n.values} \cup n.default,
         ~(n.id = "m.tools.custom" /\ value = Text("enabled"))
  PROVE  Violations(graph, WithNeeds(n.id, value)) = {}
<1> DEFINE i == n.id
           needs == {e.to : e \in {f \in Between(graph, "depends-on") : f.from = i}}
           needed == WithNeeds(i, value)
<1>1. n \in Nodes /\ n \in Catalog[service.engine].nodes
  <2>1. n.values # {} \/ n.default # {}
    OBVIOUS
  <2>2. \A m \in SeenNodes : m.values = {} /\ m.default = {}
    BY FleetNodes DEF SeenNodes
  <2>3. n \in Catalog[service.engine].nodes
    BY <2>1, <2>2 DEF ServiceInv
  <2> QED
    BY <2>3, CatalogsAreSound DEF ServiceInv
<1>2. DomainAccepts(n, value) /\ Valued(n)
  BY <1>1, NodesAreValued, TextIsAccepted DEF Valued
<1>3. /\ \A e \in graph.edges : Placed(e.type, e.from, e.to)
      /\ \A e \in graph.edges : {e.from, e.to} \subseteq Ids(Catalog[service.engine])
  <2> DEFINE c == Catalog[service.engine]
  <2>1. graph.edges = c.edges /\ service.engine \in Engines
    BY DEF ServiceInv
  <2>2. c.edges = {e \in Edges : {e.from, e.to} \subseteq Ids(c)}
    BY <2>1, CatalogsAreSound
  <2> HIDE DEF c
  <2> QED
    BY <2>1, <2>2, EdgesArePlaced DEF c
<1>4. \A j \in Ids(Catalog[service.engine]) :
        Known(graph, j) /\ FindNode(graph, j).id = j /\ Valued(FindNode(graph, j))
  <2> SUFFICES ASSUME NEW j \in Ids(Catalog[service.engine])
               PROVE  /\ Known(graph, j) /\ FindNode(graph, j).id = j
                      /\ Valued(FindNode(graph, j))
    OBVIOUS
  <2>1. Known(graph, j) /\ j \in CatalogIds
    BY NodesAreFound DEF Known
  <2> QED
    BY <2>1, NodesAreKept, CatalogNodesAreFound, NodesAreValued
<1>5. FindNode(graph, i) = n /\ i \in Ids(Catalog[service.engine])
  BY <1>1, NodesAreFound DEF Ids
<1>6. /\ DOMAIN needed = {i} \cup needs /\ needed[i] = value
      /\ \A j \in needs \ {i} : needed[j] = NeededValue(i, value, j)
  BY DEF WithNeeds
<1>7. \A j \in needs :
        <<i, j>> \in NeededPairs /\ j \in Ids(Catalog[service.engine]) /\ j # i
  BY <1>3 DEF Between, Placed
<1> HIDE DEF needed
<1>8. BadEntries(graph, needed) = {}
  <2>1. ASSUME NEW j \in needs
        PROVE  DomainAccepts(FindNode(graph, j), NeededValue(i, value, j))
    <3> DEFINE m == FindNode(graph, j)
    <3>1. m.id = j /\ Valued(m) /\ <<i, j>> \in NeededPairs
      BY <1>4, <1>7
    <3>2. CASE n.category # {}
      <4>1. i \in Members /\ j = "m.tools"
        BY <3>1, <3>2, <1>2, GroupIds DEF Valued, NeededPairs, MemberIds
      <4>2. n.category \subseteq ToolNames \/ ~Enabled(value)
        BY <4>1, <1>2 DEF Valued, Enabled, Switch, Text
      <4>3. m.kind = "enum" /\ m.values = ToolNames
        BY <3>1, <4>1 DEF Valued
      <4> QED
        BY <3>2, <4>2, <4>3, <1>5 DEF NeededValue, DomainAccepts, Some
    <3>3. CASE n.category = {}
      <4>1. NeededValue(i, value, j) =
              Text(IF m.values = {} THEN "anything" ELSE CHOOSE w \in m.values : TRUE)
        BY <3>3, <1>5 DEF NeededValue
      <4>2. m.values # {} => DomainAccepts(m, NeededValue(i, value, j))
        BY <4>1, TextIsAccepted
      <4>3. m.values = {} => m.kind = "free"
        BY <3>1 DEF NeededPairs, Valued, ToolNames
      <4> QED
        BY <4>1, <4>2, <4>3 DEF DomainAccepts, Text
    <3> QED
      BY <3>2, <3>3
  <2>2. \A j \in DOMAIN needed : Known(graph, j)
    BY <1>4, <1>5, <1>6, <1>7
  <2>3. \A j \in DOMAIN needed : DomainAccepts(FindNode(graph, j), needed[j])
    BY <2>1, <1>2, <1>5, <1>6
  <2> QED
    BY <2>2, <2>3 DEF BadEntries
<1>9. ConflictEdges(graph, needed) = {}
  <2> SUFFICES ASSUME NEW e \in Between(graph, "conflicts-with"),
                      e.from \in DOMAIN needed, e.to \in DOMAIN needed
               PROVE  FALSE
    BY DEF ConflictEdges, Declared
  <2>1. <<e.from, e.to>> \in ConflictPairs
    BY <1>3 DEF Between, Placed
  <2>2. \A j \in needs : <<i, j>> \in NeededPairs
    BY <1>7
  <2>3. e.from \in {i} \cup needs /\ e.to \in {i} \cup needs
    BY <1>6
  <2> HIDE DEF needs, i
  <2> QED
    BY <2>1, <2>2, <2>3, GroupIds DEF NeededPairs, ConflictPairs, MemberIds
<1>10. UnmetEdges(graph, needed) = {}
  <2> SUFFICES ASSUME NEW e \in Between(graph, "depends-on"),
                      e.from \in DOMAIN needed, e.to \notin DOMAIN needed
               PROVE  FALSE
    BY DEF UnmetEdges, Declared
  <2>1. <<e.from, e.to>> \in NeededPairs
    BY <1>3 DEF Between, Placed
  <2>2. e.from # i
    BY <1>6
  <2>3. <<i, e.from>> \in NeededPairs
    BY <2>2, <1>6, <1>7
  <2> QED
    BY <2>1, <2>3, GroupIds DEF NeededPairs, MemberIds
<1>11. InconsistentEdges(graph, needed) = {}
  <2> SUFFICES ASSUME NEW e \in Between(graph, "generalizes"),
                      e.to \in DOMAIN needed, Enabled(needed[e.to]),
                      Omits(needed, e.from, FindNode(graph, e.to).category)
               PROVE  FALSE
    BY DEF InconsistentEdges, Declared
  <2>1. e.from = "m.tools" /\ e.to \in Members
    BY <1>3 DEF Between, Placed
  <2>2. e.to = i
    <3>1. \A j \in needs : j \notin Members
      BY <1>7, GroupIds DEF NeededPairs, MemberIds
    <3> QED
      BY <2>1, <3>1, <1>6
  <2>3. e.from \in needs
    BY <2>1, <2>2, <1>6, GroupIds DEF Omits, Declared, MemberIds
  <2>4. needed[e.from] = Some(n.category)
    BY <2>1, <2>2, <2>3, <1>2, <1>5, <1>6, <1>7 DEF NeededValue, Valued
  <2> QED
    BY <2>2, <2>4, <1>5 DEF Omits, Some
<1> QED
  BY <1>8, <1>9, <1>10, <1>11 DEF Violations, needed

(* No capability of the catalog has a value that is never valid, but for   *)
(* custom tools (validateConfig, CAPABILITY_CATALOG).                      *)
THEOREM EveryValueIsUsableHolds == Spec => []EveryValueIsUsable
<1>1. ServiceInv => EveryValueIsUsable
  BY ValuesAreUsable DEF EveryValueIsUsable
<1> QED
  BY <1>1, KnowledgeInvariant, PTL DEF KnowledgeInv
=============================================================================
