--------------------------- MODULE CapabilityCatalog ---------------------------
(***************************************************************************)
(* The catalog of engine capabilities (adapters/knowledge/catalog.ts): its *)
(* nodes and edges, and the part of it an engine is served.                *)
(***************************************************************************)
EXTENDS CapabilityGraph

Engines == {"pi", "prime", "mock"}

(* Nodes the prime fork cannot express. *)
PiOnly == {"m.tools.denylist", "m.tools.execution", "m.transport", "m.cache"}

Node(i, kind, values, default, category) ==
  [id |-> i, kind |-> kind, values |-> values, default |-> default, category |-> category,
   scope |-> IF i \in PiOnly THEN {"pi"} ELSE {}, agent |-> {}, about |-> "catalog"]

Enum(i, values, default) == Node(i, "enum", values, default, {})
Free(i) == Node(i, "free", {}, {}, {})

Switch == {"enabled", "disabled"}
Tool(i, value) == Node(i, "enum", Switch, {Text("disabled")}, {value})

-----------------------------------------------------------------------------
(* The one value stands for those the format of a model accepts. *)
ModelNodes == {Node("m.model", "free", {"provider/model"}, {}, {})}

ThinkingNodes ==
  { Enum("m.thinking", {"off", "minimal", "low", "medium", "high", "xhigh", "max"},
         {Text("off")}),
    Node("m.thinking.budget", "range", {"0", "1000000"}, {}, {}) }

Mut_ToolNames == {"read", "bash", "edit", "write", "grep", "find"}

(* The names of the builtin tools of pi. *)
ToolNames == {"read", "bash", "edit", "write", "grep", "find", "ls"}

ToolsNode == Enum("m.tools", ToolNames, {Some({})})

ToolNodes ==
  { Tool("m.tools.read", "read"), Tool("m.tools.bash", "bash"),
    Tool("m.tools.edit", "edit"), Tool("m.tools.write", "write"),
    Tool("m.tools.ls", "ls"), Tool("m.tools.find", "find"),
    Tool("m.tools.grep", "grep"), Tool("m.tools.custom", "custom") }

ToolPolicyNodes ==
  { Free("m.tools.denylist"),
    Enum("m.tools.notools", {"all", "builtin"}, {}),
    Enum("m.tools.execution", {"sequential", "parallel"}, {Text("parallel")}),
    Enum("m.tools.agent-mode", {"static", "dynamic"}, {Text("static")}) }

ResourceNodes ==
  { Free("m.extensions"), Free("m.skills"), Free("m.prompt"),
    Enum("m.context-files", Switch, {Text("disabled")}) }

SessionNodes ==
  { Enum("m.compaction", Switch, {Text("enabled")}),
    Free("m.session.cwd"),
    Enum("m.retry", Switch, {Text("enabled")}),
    Enum("m.transport", {"auto", "sse", "websocket", "websocket-cached"}, {Text("auto")}),
    Enum("m.cache", {"none", "short", "long"}, {Text("short")}) }

Nodes ==
  ModelNodes \cup ThinkingNodes \cup {ToolsNode} \cup ToolNodes \cup ToolPolicyNodes
  \cup ResourceNodes \cup SessionNodes

-----------------------------------------------------------------------------
EdgesOf(type, pairs) == {Edge(type, p[1], p[2]) : p \in pairs}

Members == {n.id : n \in ToolNodes}

DependsOn ==
  EdgesOf("depends-on",
    (Members \cup {"m.tools.agent-mode"}) \X {"m.tools"}
    \cup { <<"m.thinking.budget", "m.thinking">>,
           <<"m.context-files", "m.session.cwd">>,
           <<"m.extensions", "m.session.cwd">> })

Affects ==
  EdgesOf("affects",
    { <<"m.model", "m.thinking">>, <<"m.model", "m.compaction">>,
      <<"m.thinking", "m.compaction">>, <<"m.skills", "m.prompt">>,
      <<"m.context-files", "m.prompt">>, <<"m.extensions", "m.tools">>,
      <<"m.session.cwd", "m.tools.bash">> })

ComposesWith ==
  EdgesOf("composes-with",
    { <<"m.thinking", "m.model">>, <<"m.tools.read", "m.tools.grep">>,
      <<"m.tools.bash", "m.tools.edit">>, <<"m.extensions", "m.tools.custom">>,
      <<"m.prompt", "m.skills">> })

(* The last conflict is there only if every tool is turned off. *)
ConflictsWith ==
  EdgesOf("conflicts-with",
    { <<"m.tools", "m.tools.denylist">>, <<"m.tools", "m.tools.notools">>,
      <<"m.tools.denylist", "m.tools.notools">> })
  \cup { [Edge("conflicts-with", "m.tools.notools", "m.extensions")
            EXCEPT !.condition = {[on |-> "m.tools.notools", value |-> Text("all")]}] }

Edges ==
  EdgesOf("generalizes", {"m.tools"} \X Members)
  \cup DependsOn \cup Affects \cup ComposesWith \cup ConflictsWith

-----------------------------------------------------------------------------
(* catalogFor: the nodes of the engine and the edges between them. *)
CatalogFor(engine) ==
  LET nodes == {n \in Nodes : OnEngine(n, engine)}
      ids == {n.id : n \in nodes}
  IN [nodes |-> nodes, edges |-> {e \in Edges : {e.from, e.to} \subseteq ids}]

Catalog == [engine \in Engines |-> CatalogFor(engine)]

DefaultCatalog == Catalog["pi"]
=============================================================================
