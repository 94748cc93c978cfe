---------------------------- MODULE CapabilityGraph ----------------------------
(***************************************************************************)
(* The knowledge domain: a graph of capabilities (domain/knowledge/graph)  *)
(* and the operations that answer questions about a configuration          *)
(* (domain/knowledge/operations): list, validate, compose, explain and     *)
(* resolve.                                                                *)
(*                                                                         *)
(* A graph is a set of nodes and a set of edges; what is optional in the   *)
(* code is a set with at most one element here.  Labels, notes, messages   *)
(* and the text that is matched are left out: an intent is the score it    *)
(* gives to each node.                                                     *)
(***************************************************************************)
EXTENDS Naturals, FiniteSets, Sequences

CONSTANTS
  IllFormed,     \* ids that CAPABILITY_IDENTITY_PATTERN does not match
  Alphabetical   \* the ids in the order of localeCompare

-----------------------------------------------------------------------------
(* Values, nodes, edges. *)

Text(v) == [list |-> FALSE, items |-> {v}]
Some(vs) == [list |-> TRUE, items |-> vs]

EdgeTypes == {"depends-on", "affects", "conflicts-with", "composes-with", "generalizes"}

Edge(type, from, to) == [type |-> type, from |-> from, to |-> to, condition |-> {}]

Ids(g) == {n.id : n \in g.nodes}
Known(g, i) == i \in Ids(g)
FindNode(g, i) == CHOOSE n \in g.nodes : n.id = i

Between(g, type) == {e \in g.edges : e.type = type}

(* createGraph throws unless this holds.  That every node has a signature  *)
(* is left out: no source of nodes yields one without.                     *)
Integrity(nodes, edges) ==
  LET ids == {n.id : n \in nodes}
  IN /\ ids \cap IllFormed = {}
     /\ \A m, n \in nodes : m.id = n.id => m = n
     /\ \A n \in nodes : n.kind = "enum" => n.values # {}
     /\ \A e \in edges : {e.from, e.to} \subseteq ids /\ e.from # e.to
     /\ \A e, f \in edges :
          <<e.type, e.from, e.to>> = <<f.type, f.from, f.to>> => e = f

Incident(g, i) ==
  {[type |-> e.type, other |-> e.to, outgoing |-> TRUE] : e \in {f \in g.edges : f.from = i}}
  \cup {[type |-> e.type, other |-> e.from, outgoing |-> FALSE] :
          e \in {f \in g.edges : f.to = i /\ f.from # i}}

Children(g, i) == {FindNode(g, e.to) : e \in {f \in Between(g, "generalizes") : f.from = i}}

OnEngine(n, engine) == n.scope = {} \/ engine \in n.scope

(* list, by the engine and perhaps by the category. *)
ListCapabilities(g, engine) == {n \in g.nodes : OnEngine(n, engine)}
ListCategory(g, engine, i) == {n \in Children(g, i) : OnEngine(n, engine)}

-----------------------------------------------------------------------------
(* validate.  A configuration is a function from the ids it declares.  *)

Declared(config, i) == i \in DOMAIN config

(* domainAccepts: for the values of a range or of a format, values are the *)
(* ones that pass.  A list passes every free domain, its format aside.     *)
DomainAccepts(n, value) ==
  IF value.list THEN n.kind = "free" \/ (n.kind = "enum" /\ value.items \subseteq n.values)
  ELSE (n.kind = "free" /\ n.values = {}) \/ value.items \subseteq n.values

ConditionHolds(e, config) ==
  \A c \in e.condition : Declared(config, c.on) /\ config[c.on] = c.value

Violation(code, i) == [code |-> code, node |-> i]

BadEntries(g, config) ==
  {Violation("UNKNOWN_NODE", i) : i \in {j \in DOMAIN config : ~Known(g, j)}}
  \cup {Violation("OUT_OF_DOMAIN", i) :
          i \in {j \in DOMAIN config : Known(g, j) /\ ~DomainAccepts(FindNode(g, j), config[j])}}

ConflictEdges(g, config) ==
  {e \in Between(g, "conflicts-with") :
     Declared(config, e.from) /\ Declared(config, e.to) /\ ConditionHolds(e, config)}

UnmetEdges(g, config) ==
  {e \in Between(g, "depends-on") : Declared(config, e.from) /\ ~Declared(config, e.to)}

Enabled(value) == value \in {Text("enabled"), Text("true")}

Mut_Omits(config, parent, categoryValues) ==
  IF Declared(config, parent)
  THEN config[parent].list /\ ~(categoryValues \subseteq config[parent].items)
  ELSE categoryValues # {}

(* The list of the category is there and lacks the value of the member. *)
Omits(config, parent, categoryValues) ==
  /\ Declared(config, parent)
  /\ config[parent].list /\ ~(categoryValues \subseteq config[parent].items)

InconsistentEdges(g, config) ==
  {e \in Between(g, "generalizes") :
     /\ Declared(config, e.to) /\ Enabled(config[e.to])
     /\ Omits(config, e.from, FindNode(g, e.to).category)}

Violations(g, config) ==
  BadEntries(g, config)
  \cup {Violation("CONFLICT", e.from) : e \in ConflictEdges(g, config)}
  \cup {Violation("UNMET_DEPENDENCY", e.from) : e \in UnmetEdges(g, config)}
  \cup {Violation("INCONSISTENT", e.to) : e \in InconsistentEdges(g, config)}

-----------------------------------------------------------------------------
(* compose, of a set of ids that need not be known. *)

Emergences(g, ids) ==
  {<<e.from, e.to>> : e \in {f \in Between(g, "composes-with") : {f.from, f.to} \subseteq ids}}

Leaving(g, ids, type) == {e \in Between(g, type) : e.from \in ids /\ e.to \notin ids}

SideEffects(g, ids) == {<<e.from, e.to>> : e \in Leaving(g, ids, "affects")}
Requires(g, ids) == {e.to : e \in Leaving(g, ids, "depends-on")}

(* explain: the conflicts it names for a declared capability, whatever     *)
(* their condition.  The other tradeoffs it words are left out.            *)
NamedConflicts(g, config, i) ==
  {x.other : x \in {y \in Incident(g, i) :
     y.type = "conflicts-with" /\ Declared(config, y.other)}}

-----------------------------------------------------------------------------
(* resolve: the nodes that reach the threshold, by falling score, then by  *)
(* rising id, cut off at the limit.                                        *)

Position(i) == CHOOSE k \in DOMAIN Alphabetical : Alphabetical[k] = i

Mut_Better(score, i, j) ==
  score[i] < score[j] \/ (score[i] = score[j] /\ Position(i) < Position(j))

Better(score, i, j) ==
  score[i] > score[j] \/ (score[i] = score[j] /\ Position(i) < Position(j))

ResolveIntent(g, score, threshold, limit) ==
  LET scored == {i \in Ids(g) : score[i] >= threshold}
      place(i) == 1 + Cardinality({j \in scored : Better(score, j, i)})
      size == IF Cardinality(scored) < limit THEN Cardinality(scored) ELSE limit
  IN [k \in 1 .. size |-> CHOOSE i \in scored : place(i) = k]
=============================================================================
