------------------------------ MODULE MCKnowledge ------------------------------
(* Knowledge for TLC: the whole catalog, a fleet of a curated agent, one    *)
(* that is not and one with a name that makes no identity, and for each     *)
(* capability values of each kind its domain tells apart.                   *)
EXTENDS Knowledge

MCAlphabetical ==
  << "agent.email", "agent.mystery", "agent.My_Agent",
     "m.cache", "m.compaction", "m.context-files", "m.extensions", "m.model", "m.prompt",
     "m.retry", "m.session.cwd", "m.skills", "m.thinking", "m.thinking.budget", "m.tools",
     "m.tools.agent-mode", "m.tools.bash", "m.tools.custom", "m.tools.denylist",
     "m.tools.edit", "m.tools.execution", "m.tools.find", "m.tools.grep", "m.tools.ls",
     "m.tools.notools", "m.tools.read", "m.tools.write", "m.transport" >>

Dirs(email, mystery, illFormed) ==
  [a \in Agents |-> CASE a = "agent.email" -> email
                      [] a = "agent.mystery" -> mystery
                      [] OTHER -> illFormed]

Root(dirs) == [exists |-> TRUE, listable |-> TRUE, dirs |-> dirs]
Unlistable == [exists |-> TRUE, listable |-> FALSE, dirs |-> Dirs("nothing", "nothing", "nothing")]
Missing == [Unlistable EXCEPT !.exists = FALSE]

Disk(explicit, environment, convention) ==
  [root \in Roots |-> CASE root = "explicit" -> explicit
                        [] root = "environment" -> environment
                        [] OTHER -> convention]

MCDisks ==
  { Disk(Root(Dirs("malformed", "prompted", "nothing")), Missing,
         Root(Dirs("bare", "nothing", "nothing"))),
    Disk(Missing, Missing, Root(Dirs("nothing", "described", "nothing"))),
    Disk(Root(Dirs("described", "nothing", "bare")), Unlistable, Missing) }

Declarations(i, values) == {<<i, v>> : v \in values}

MCCandidates ==
  Declarations("m.tools", {Some({}), Some({"read"}), Some({"read", "custom"}), Text("bash")})
  \cup Declarations("m.tools.read", {Text("enabled"), Text("disabled"), Text("true")})
  \cup Declarations("m.tools.notools", {Text("all"), Text("builtin")})
  \cup Declarations("m.thinking", {Text("high"), Text("unknown")})
  \cup Declarations("m.model", {Text("provider/model"), Text("unknown")})
  \cup Declarations("m.thinking.budget", {Text("1000000"), Text("1000001"), Some({})})
  \cup { <<n.id, Text("enabled")>> : n \in ToolNodes }
  \cup { <<n.id, Text(CHOOSE v \in n.values \cup {"unknown"} : n.values # {} => v \in n.values)>> :
           n \in ResourceNodes \cup SessionNodes \cup ToolPolicyNodes }
  \cup Declarations("agent.email", {Text("unknown")})
  \cup Declarations("m.unknown", {Text("unknown")})
=============================================================================
