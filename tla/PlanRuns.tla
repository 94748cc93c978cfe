------------------------------ MODULE PlanRuns ------------------------------
(***************************************************************************)
(* One durable plan: runPlan (runtime.ts), the workflow body that runs the  *)
(* nodes in waves (register-plan.ts, workflows/plan.ts) and the leaf of     *)
(* every node, a durable step of the run.  Here a leaf opens its session,   *)
(* puts its join row, engages, reads the row and writes it again; what else *)
(* it does is the business of EngagementArc.  A plan node carries no park   *)
(* intent, so its leaf settles or fails.                                    *)
(*                                                                          *)
(* node.resume names the session a node works on, and several nodes, or     *)
(* other runs, may work on one session: whoever puts a row on it deletes    *)
(* the row of whoever had it.                                               *)
(*                                                                          *)
(* OpenWorkflow is external: a recorded step is not run again, a body whose *)
(* worker died is re-run from its first line.                               *)
(***************************************************************************)
EXTENDS Naturals, FiniteSets

CONSTANTS
  Ids,         \* the ids a plan may give its nodes and name in its edges
  Sessions,    \* the sessions a node may resume
  NoSession,   \* "no session reference"
  Contested,   \* the sessions that runs outside the plan work on as well
  Plans,       \* the plans clients submit
  SpawnModes,  \* whether node leaves are child processes: TRUE, FALSE or both
  MaxMishaps   \* bound: worker crashes and leaves that cannot be spawned

(* The resume of a node that names no session the engine still has is like  *)
(* none: the node gets a session of its own.                                *)
PlanSpecs == [nodes : SUBSET Ids, edges : SUBSET (Ids \X Ids),
              resume : [Ids -> Sessions \cup {NoSession}]]

ASSUME PlanAssumption ==
  /\ Sessions \cap Ids = {} /\ NoSession \notin Sessions \cup Ids
  /\ Contested \subseteq Sessions \cup Ids
  /\ Plans \subseteq PlanSpecs
  /\ SpawnModes \subseteq BOOLEAN
  /\ MaxMishaps \in Nat

VARIABLES
  plan,     \* the plan of the run
  spawn,    \* executeLeaf is configured: leaves are child processes
  run,      \* OpenWorkflow status of the run
  steps,    \* recorded results of the node steps
  output,   \* kind of the workflow's result
  body,     \* the execution of the body in memory: nodes of the waves it has done
  leaf,     \* the leaf each node has running for this execution
  orphans,  \* leaves that outlived the execution that began them
  row,      \* the join row of each node's run id
  foreign,  \* sessions that a run outside the plan put its row on last
  begins,   \* history: leaves begun per node
  mishaps   \* crashes and spawn errors so far

vars == <<plan, spawn, run, steps, output, body, leaf, orphans, row,
          foreign, begins, mishaps>>

Kinds == {"settled", "failed"}

(* Where a leaf is: before its put, in its turn, or between the read and    *)
(* the write of an updateStatus.                                            *)
Stages == {"open", "engage", "settling", "failing"}

(* The rows of the plan: a node's run id is the id of the run and its own.  *)
(* The session created for a node goes by the node's id, as no other node   *)
(* can name it.                                                             *)
Join == INSTANCE JoinRows WITH Runs <- Ids, Sessions <- Sessions \cup Ids

Session(n) == IF plan.resume[n] = NoSession THEN n ELSE plan.resume[n]

TypeOK ==
  /\ plan \in PlanSpecs
  /\ spawn \in BOOLEAN
  /\ run \in {"absent", "pending", "running", "completed", "failed", "canceled"}
  /\ steps \in [Ids -> Kinds \cup {"none"}]
  /\ output \in {"none", "completed", "failed"}
  /\ body \in [active : BOOLEAN, past : SUBSET plan.nodes]
  /\ leaf \in [Ids -> {"none"} \cup Stages \cup Kinds]
  /\ orphans \in [Ids -> [Stages -> Nat]]
  /\ row \in Join!JoinTable
  /\ foreign \in SUBSET (Sessions \cup Ids)
  /\ begins \in [Ids -> Nat]
  /\ mishaps \in Nat

Idle == [active |-> FALSE, past |-> {}]

NoOrphans == [stage \in Stages |-> 0]

Init ==
  /\ plan = [nodes |-> {}, edges |-> {}, resume |-> [n \in Ids |-> NoSession]]
  /\ spawn \in SpawnModes
  /\ run = "absent"
  /\ steps = [n \in Ids |-> "none"]
  /\ output = "none"
  /\ body = Idle
  /\ leaf = [n \in Ids |-> "none"]
  /\ orphans = [n \in Ids |-> NoOrphans]
  /\ row = Join!EmptyTable
  /\ foreign = Contested
  /\ begins = [n \in Ids |-> 0]
  /\ mishaps = 0

-----------------------------------------------------------------------------
(* runPlan: the plan id is the idempotency key, so that a second call finds *)
(* the run of the first and changes nothing.                                *)
RunPlan(p) ==
  /\ run = "absent"
  /\ run' = "pending"
  /\ plan' = p
  /\ UNCHANGED <<spawn, steps, output, body, leaf, orphans, row, foreign,
                 begins, mishaps>>

Cancel ==
  /\ run \in {"pending", "running"}
  /\ run' = "canceled"
  /\ UNCHANGED <<plan, spawn, steps, output, body, leaf, orphans, row,
                 foreign, begins, mishaps>>

(* The worker claims the run; the body starts from its first line.          *)
Claim ==
  /\ run \in {"pending", "running"}
  /\ ~body.active
  /\ run' = "running"
  /\ body' = [active |-> TRUE, past |-> {}]
  /\ UNCHANGED <<plan, spawn, steps, output, leaf, orphans, row, foreign,
                 begins, mishaps>>

-----------------------------------------------------------------------------
(* computePlanWaves, as the loop of the body meets it: the wave after the   *)
(* waves of past.  An edge to an id that is no node has no list to go to;   *)
(* an edge from such an id names a dependency that never completes.         *)
Mut_Ready(n, past) == \E d \in Ids : <<d, n>> \in plan.edges => d \in past
Ready(n, past) == \A d \in Ids : <<d, n>> \in plan.edges => d \in past

Mut_Wave_Dangling(past) == {n \in Ids \ past : Ready(n, past)}
Mut_Wave_NoStragglers(past) == {n \in plan.nodes \ past : Ready(n, past)}
Wave(past) ==
  LET remaining == plan.nodes \ past
      ready     == {n \in remaining : Ready(n, past)}
  IN  IF ready = {} THEN remaining ELSE ready

(* step.run of the wave's nodes: what is not recorded is begun.             *)
Mut_StepIsOpen_Again(n) == leaf[n] = "none"
Mut_StepIsOpen_Twice(n) == steps[n] = "none"
StepIsOpen(n) == leaf[n] = "none" /\ steps[n] = "none"

BeginLeaf(n) ==
  /\ body.active
  /\ n \in Wave(body.past)
  /\ StepIsOpen(n)
  /\ leaf' = [leaf EXCEPT ![n] = "open"]
  /\ begins' = [begins EXCEPT ![n] = @ + 1]
  /\ UNCHANGED <<plan, spawn, run, steps, output, body, orphans, row,
                 foreign, mishaps>>

(* JoinStore.put under the node's run id.                                   *)
Mut_Put(n, status) ==
  /\ row' = Join!PutRow(row, n, [session |-> Session(n), status |-> "engaging"])
  /\ foreign' = foreign \ {Session(n)}
Put(n, status) ==
  /\ row' = Join!PutRow(row, n, [session |-> Session(n), status |-> status])
  /\ foreign' = foreign \ {Session(n)}

HasRow(n) == row[n] # Join!NoRow

(* A step of a leaf of node n from one stage to the next, or to its         *)
(* outcome.  updateStatus throws when the row it reads is gone; whatever    *)
(* throws leads to a second updateStatus, with "failed", and the leaf fails *)
(* whether or not that one gets through.  A child that dies fails too.      *)
LeafMoves(n, from, to) ==
  \/ /\ from = "open" /\ to = "engage"
     /\ Put(n, "engaging")
  \/ /\ from = "engage" /\ to = "settling"
     /\ HasRow(n)
     /\ UNCHANGED <<row, foreign>>
  \/ /\ from \in Stages \ {"failing"} /\ to = "failing"
     /\ HasRow(n)
     /\ UNCHANGED <<row, foreign>>
  \/ /\ from = "settling" /\ to = "settled"
     /\ Put(n, "settled")
  \/ /\ from = "failing" /\ to = "failed"
     /\ Put(n, "failed")
  \/ /\ from \in Stages /\ to = "failed"
     /\ UNCHANGED <<row, foreign>>

LeafStep(n) ==
  /\ \E to \in Stages \cup Kinds :
       /\ LeafMoves(n, leaf[n], to)
       /\ leaf' = [leaf EXCEPT ![n] = to]
  /\ UNCHANGED <<plan, spawn, run, steps, output, body, orphans, begins,
                 mishaps>>

(* The leaves this execution leaves behind when it is over: promises or     *)
(* children nobody waits for any more.                                      *)
Abandoned ==
  /\ body' = Idle
  /\ leaf' = [n \in Ids |-> "none"]
  /\ orphans' = [n \in Ids |-> [stage \in Stages |->
       IF leaf[n] = stage THEN orphans[n][stage] + 1 ELSE orphans[n][stage]]]

(* The leaf is over: its outcome becomes the recorded result of its step,   *)
(* unless the run has ended meanwhile; step.run then rejects and with it    *)
(* the body.                                                                *)
RecordStep(n) ==
  /\ body.active
  /\ leaf[n] \in Kinds
  /\ IF run = "running"
     THEN /\ steps' = [steps EXCEPT ![n] = leaf[n]]
          /\ leaf' = [leaf EXCEPT ![n] = "none"]
          /\ UNCHANGED <<body, orphans>>
     ELSE /\ Abandoned
          /\ UNCHANGED steps
  /\ UNCHANGED <<plan, spawn, run, output, row, foreign, begins, mishaps>>

(* The child of a node cannot be spawned: executeLeaf rejects, Promise.all  *)
(* rejects and the body throws while the other nodes of the wave work on.   *)
(* OpenWorkflow tries the run again later or fails it.                      *)
SpawnError(n) ==
  /\ spawn /\ body.active
  /\ n \in Wave(body.past)
  /\ StepIsOpen(n)
  /\ mishaps < MaxMishaps
  /\ mishaps' = mishaps + 1
  /\ Abandoned
  /\ \/ UNCHANGED run
     \/ run = "running" /\ run' = "failed"
  /\ UNCHANGED <<plan, spawn, steps, output, row, foreign, begins>>

(* Promise.all of the wave has all its results.                             *)
WaveIsOver == \A n \in Wave(body.past) : steps[n] # "none"

NextWave ==
  /\ body.active
  /\ body.past # plan.nodes
  /\ WaveIsOver
  /\ body' = [body EXCEPT !.past = @ \cup Wave(@)]
  /\ UNCHANGED <<plan, spawn, run, steps, output, leaf, orphans, row,
                 foreign, begins, mishaps>>

(* summarizePlanResults: completed when every node settled.                 *)
Mut_Summary == IF \E n \in plan.nodes : steps[n] = "settled" THEN "completed" ELSE "failed"
Summary == IF \A n \in plan.nodes : steps[n] = "settled" THEN "completed" ELSE "failed"

Complete ==
  /\ body.active
  /\ body.past = plan.nodes
  /\ body' = Idle
  /\ IF run = "running"
     THEN /\ run' = "completed"
          /\ output' = Summary
     ELSE UNCHANGED <<run, output>>
  /\ UNCHANGED <<plan, spawn, steps, leaf, orphans, row, foreign, begins,
                 mishaps>>

-----------------------------------------------------------------------------
(* The worker dies; promises die with it, children live on.                 *)
WorkerCrash ==
  /\ mishaps < MaxMishaps
  /\ mishaps' = mishaps + 1
  /\ IF spawn
     THEN Abandoned
     ELSE /\ body' = Idle
          /\ leaf' = [n \in Ids |-> "none"]
          /\ orphans' = [n \in Ids |-> NoOrphans]
  /\ UNCHANGED <<plan, spawn, run, steps, output, row, foreign, begins>>

(* An orphan goes on as a leaf does, up to an outcome nobody asks for.      *)
OrphanStep(n) ==
  /\ \E from \in Stages, to \in Stages \cup Kinds :
       /\ orphans[n][from] > 0
       /\ LeafMoves(n, from, to)
       /\ orphans' = [orphans EXCEPT ![n] = [stage \in Stages |->
            CASE stage = from -> @[stage] - 1
              [] stage = to   -> @[stage] + 1
              [] OTHER        -> @[stage]]]
  /\ UNCHANGED <<plan, spawn, run, steps, output, body, leaf, begins,
                 mishaps>>

(* A run outside the plan puts its row on a session: dispatched with it as  *)
(* its sessionRef, or parked on it and woken.                               *)
ForeignPut(s) ==
  /\ row' = [n \in Ids |-> IF row[n].session = s THEN Join!NoRow ELSE row[n]]
  /\ foreign' = foreign \cup {s}
  /\ UNCHANGED <<plan, spawn, run, steps, output, body, leaf, orphans,
                 begins, mishaps>>

BodyStep ==
  \/ \E n \in Ids : BeginLeaf(n) \/ LeafStep(n) \/ RecordStep(n)
  \/ NextWave \/ Complete

Next ==
  \/ \E p \in Plans : RunPlan(p)
  \/ Cancel \/ Claim \/ BodyStep \/ WorkerCrash
  \/ \E n \in Ids : SpawnError(n) \/ OrphanStep(n)
  \/ \E s \in Contested : ForeignPut(s)

Spec == Init /\ [][Next]_vars

(* The worker polls and engine turns end; nobody has to cancel.             *)
FairSpec == Spec /\ WF_vars(Claim) /\ WF_vars(BodyStep)

-----------------------------------------------------------------------------
(* The plan a client sees: what has begun and what is recorded.             *)
Dag == INSTANCE DagExecution WITH
  nodes <- plan.nodes,
  edges <- plan.edges,
  begun <- {n \in plan.nodes : begins[n] > 0},
  ended <- {n \in plan.nodes : steps[n] # "none"},
  state <- CASE run = "absent" -> "absent"
             [] run \in {"pending", "running"} -> "working"
             [] run = "completed" -> "done"
             [] run \in {"failed", "canceled"} -> "over"

(* Waves, re-runs, crashes and orphans respect the dependencies: a node     *)
(* begins when those it depends on have recorded results, and only nodes    *)
(* that could never begin otherwise are begun without (computePlanWaves,    *)
(* "Circular deps or missing refs").                                        *)
ImplementsDag == Dag!Spec

(* A plan reported as completed left every node settled: in its recorded    *)
(* result and, with in-process leaves, in the join table.  There no row of  *)
(* the plan is left engaging or failed, and each session the plan worked on *)
(* is held by a settled row, though not every node has one: nodes that      *)
(* share a session took it from one another, one after the other or side by *)
(* side (put's DELETE).  Only a run outside the plan may have taken it      *)
(* since (summarizePlanResults, "completed when every node settled").       *)
CompletedIsSettled ==
  output = "completed" => \A n \in plan.nodes :
    /\ steps[n] = "settled"
    /\ ~spawn =>
         /\ HasRow(n) => row[n].status = "settled"
         /\ \/ Session(n) \in foreign
            \/ \E m \in plan.nodes :
                 row[m] = [session |-> Session(n), status |-> "settled"]

(* A recorded node is never engaged again and its result never changes:     *)
(* the agent's work is done once it is recorded, whatever is re-run.        *)
RecordedIsFinal ==
  [][\A n \in Ids : steps[n] # "none" =>
       steps'[n] = steps[n] /\ begins'[n] = begins[n]]_vars

(* A crash or a failed spawn costs a node one repetition, not more: no      *)
(* node is begun twice in one execution of the body, in whichever wave.     *)
BegunOncePerExecution ==
  \A n \in Ids : begins[n] <= 1 + mishaps

(* A submitted plan comes to an end, cyclic plans and plans with dangling   *)
(* edges too.                                                               *)
PlanEnds == run = "pending" ~> run \in {"completed", "failed", "canceled"}
=============================================================================
