----------------------------- MODULE MCPlanRuns -----------------------------
(* PlanRuns for TLC: plans of two and three nodes, parallel, in sequence,  *)
(* forked, joined and with cycles, and edges to and from an id that is no  *)
(* node.                                                                   *)
(* Two nodes may resume one session, s1, side by side or one after the     *)
(* other.                                                                  *)
EXTENDS PlanRuns

CONSTANTS i1, i2, i3, s1

MCIds == {i1, i2, i3}

Chain    == {<<i1, i2>>, <<i2, i3>>}
Fork     == {<<i1, i2>>, <<i1, i3>>}
Meet     == {<<i1, i3>>, <<i2, i3>>}
Cycle    == {<<i1, i2>>, <<i3, i2>>, <<i2, i3>>}  \* i2 and i3 wait for each other
SelfLoop == {<<i1, i1>>, <<i1, i2>>}              \* i2 waits for i1, i1 for itself

OwnSessions == [n \in MCIds |-> NoSession]
Shared      == [OwnSessions EXCEPT ![i1] = s1, ![i2] = s1]

(* With i3 not a node its edges dangle.                                     *)
MCPlans ==
  [nodes : {MCIds}, edges : {Chain, Fork, Meet, Cycle}, resume : {OwnSessions}]
  \cup [nodes : {{i1, i2}}, edges : {{}, Chain, Cycle, SelfLoop}, resume : {OwnSessions}]
  \cup [nodes : {{i1, i2}}, edges : {{}, Chain}, resume : {Shared}]
  \cup [nodes : {{}}, edges : {{}, Chain}, resume : {OwnSessions}]
=============================================================================
