---------------------------- MODULE DagExecution ----------------------------
(***************************************************************************)
(* What a plan promises: every node is begun after the nodes it depends on  *)
(* have ended, ends once, and the plan is over when all nodes have ended.   *)
(* Nodes whose dependencies can never end (they sit behind a cycle, or      *)
(* behind an id that is no node) are begun last, in any order.              *)
(***************************************************************************)
CONSTANT Ids

VARIABLES
  nodes,  \* the nodes of the plan, {} until there is one
  edges,  \* <<from, to>>: to depends on from
  begun,  \* nodes begun so far
  ended,  \* nodes ended so far
  state   \* of the plan as a whole

vars == <<nodes, edges, begun, ended, state>>

Init ==
  /\ nodes = {} /\ edges = {} /\ begun = {} /\ ended = {}
  /\ state = "absent"

Submit ==
  /\ state = "absent"
  /\ state' = "working"
  /\ nodes' \in SUBSET Ids
  /\ edges' \in SUBSET (Ids \X Ids)
  /\ UNCHANGED <<begun, ended>>

(* A set of nodes each of which waits for a member of the set or for an id  *)
(* that is no node: none of them can be the first to begin.                 *)
Stuck(S) == \A m \in S : \E d \in Ids \ (nodes \ S) : <<d, m>> \in edges

Blocked == UNION {S \in SUBSET nodes : Stuck(S)}

MayBegin(n) ==
  \/ \A d \in Ids : <<d, n>> \in edges => d \in ended
  \/ n \in Blocked /\ nodes \ Blocked \subseteq ended

Begin(n) ==
  /\ state = "working" \/ state = "over"   \* a late step of a cancelled plan
  /\ n \in nodes \ ended
  /\ MayBegin(n)
  /\ begun' = begun \cup {n}
  /\ UNCHANGED <<nodes, edges, ended, state>>

End(n) ==
  /\ state = "working"
  /\ n \in begun \ ended
  /\ ended' = ended \cup {n}
  /\ UNCHANGED <<nodes, edges, begun, state>>

Finish ==
  /\ state = "working"
  /\ ended = nodes
  /\ state' = "done"
  /\ UNCHANGED <<nodes, edges, begun, ended>>

(* Cancelled, or failed as a whole, at any point.                           *)
GiveUp ==
  /\ state = "working"
  /\ state' = "over"
  /\ UNCHANGED <<nodes, edges, begun, ended>>

Next == Submit \/ Finish \/ GiveUp \/ \E n \in nodes : Begin(n) \/ End(n)

Spec == Init /\ [][Next]_vars
=============================================================================
