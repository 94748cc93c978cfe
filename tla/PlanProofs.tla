----------------------------- MODULE PlanProofs -----------------------------
(***************************************************************************)
(* Theorems about plans, for every set of node ids, every set of plans      *)
(* (cyclic ones and plans with dangling edges among them), in-process and   *)
(* spawned leaves and any number of crashes and spawn errors.               *)
(*                                                                          *)
(* PlanInv is inductive.  Beside the types it says that the waves the body  *)
(* has behind it are recorded, that leaves run for an execution of the body *)
(* and for open steps only, that what has a result or a leaf was begun, how *)
(* often it can have been, and, of in-process leaves, that a session some   *)
(* node settled on stays with a row that is settled or whose node is still  *)
(* at work, unless a run outside the plan took it.                          *)
(***************************************************************************)
EXTENDS PlanRuns, TLAPS

Alive == run \in {"absent", "pending", "running"}

BodyInv ==
  /\ \A n \in body.past : steps[n] # "none"
  /\ ~body.active => body.past = {} /\ \A n \in Ids : leaf[n] = "none"
  /\ body.active => run \notin {"absent", "pending", "completed"}
  /\ run = "absent" => \A n \in Ids : steps[n] = "none" /\ begins[n] = 0

NodeInv ==
  \A n \in Ids :
    /\ leaf[n] # "none" => n \in plan.nodes /\ steps[n] = "none" /\ begins[n] > 0
    /\ steps[n] # "none" => n \in plan.nodes /\ begins[n] > 0
    /\ begins[n] <= 1 + mishaps
    /\ leaf[n] = "none" /\ steps[n] = "none" /\ (body.active \/ Alive) =>
         begins[n] <= mishaps

OutputInv ==
  /\ output # "none" => run = "completed"
  /\ output = "completed" => \A n \in plan.nodes : steps[n] = "settled"

Done(n) == steps[n] = "settled" \/ leaf[n] = "settled"

Held(s) == \E m \in plan.nodes :
  row[m].session = s /\ (row[m].status = "settled" \/ ~Done(m))

RowInv ==
  ~spawn /\ (Alive \/ run = "completed") => \A n \in Ids :
    /\ orphans[n] = NoOrphans
    /\ run = "absent" => ~HasRow(n)
    /\ HasRow(n) => n \in plan.nodes /\ row[n].session = Session(n)
    /\ Done(n) => /\ HasRow(n) => row[n].status = "settled"
                  /\ Session(n) \in foreign \/ Held(Session(n))

PlanInv == TypeOK /\ BodyInv /\ NodeInv /\ OutputInv /\ RowInv

-----------------------------------------------------------------------------
LEMMA WaveIsOfNodes ==
  ASSUME NEW past
  PROVE  Wave(past) \subseteq plan.nodes \ past
BY DEF Wave

LEMMA InitEstablishes == ASSUME PlanAssumption, Init PROVE PlanInv
<1>1. TypeOK
  BY DEF PlanAssumption, Init, TypeOK, PlanSpecs, Idle, NoOrphans, Join!EmptyTable,
         Join!JoinTable
<1>2. BodyInv /\ NodeInv /\ OutputInv
  BY DEF Init, BodyInv, NodeInv, OutputInv, Idle, Alive
<1>3. RowInv
  BY DEF Init, RowInv, Done, HasRow, Join!EmptyTable
<1> QED
  BY <1>1, <1>2, <1>3 DEF PlanInv

(* What happens to the leaves when an execution is over, by a crash of the  *)
(* worker or because its body threw.                                        *)
LEMMA AbandonedTypes ==
  ASSUME PlanInv, Abandoned
  PROVE  /\ body' = Idle
         /\ leaf' = [n \in Ids |-> "none"]
         /\ orphans' \in [Ids -> [Stages -> Nat]]
BY DEF PlanInv, TypeOK, Abandoned, Stages

LEMMA RunPlanPreserves ==
  ASSUME PlanAssumption, PlanInv, NEW p \in Plans, RunPlan(p)
  PROVE  PlanInv'
<1>1. p \in PlanSpecs /\ p.nodes \in SUBSET Ids
  BY DEF PlanAssumption, PlanSpecs
<1>2. ~body.active /\ body.past = {}
  BY DEF PlanInv, BodyInv, RunPlan, TypeOK
<1>3. body \in [active : BOOLEAN, past : SUBSET p.nodes]
  BY <1>2 DEF PlanInv, TypeOK
<1>4. TypeOK'
  BY <1>1, <1>3 DEF PlanInv, TypeOK, RunPlan
<1>5. (BodyInv /\ NodeInv /\ OutputInv)'
  BY <1>2 DEF PlanInv, BodyInv, NodeInv, OutputInv, Alive, RunPlan, TypeOK
<1>6. \A n \in Ids : leaf[n] = "none" /\ steps[n] = "none"
  BY <1>2 DEF PlanInv, BodyInv, RunPlan
<1>7. RowInv'
  BY <1>6 DEF PlanInv, RowInv, Alive, RunPlan, Done, HasRow
<1> QED
  BY <1>4, <1>5, <1>7 DEF PlanInv

(* A step that leaves the rows and the orphans as they are and neither      *)
(* settles a node nor takes its result away keeps RowInv.                   *)
LEMMA RowsStay ==
  ASSUME PlanInv, UNCHANGED <<plan, spawn, orphans, row, foreign>>,
         \A n \in Ids : Done(n)' = Done(n),
         (Alive \/ run = "completed")' => Alive \/ run = "completed",
         run' = "absent" => run = "absent"
  PROVE  RowInv'
<1>1. plan.nodes \subseteq Ids
  BY DEF PlanInv, TypeOK, PlanSpecs
<1>2. \A s : Held(s)' = Held(s)
  BY <1>1 DEF Held
<1> QED
  BY <1>2 DEF PlanInv, RowInv, HasRow, Session

LEMMA RunStatusPreserves ==
  ASSUME PlanInv, Cancel \/ Claim
  PROVE  PlanInv'
<1>1. RowInv'
  BY RowsStay DEF Cancel, Claim, Alive, Done
<1>2. CASE Cancel
  BY <1>1, <1>2 DEF PlanInv, TypeOK, BodyInv, NodeInv, OutputInv, Alive, Cancel
<1>3. CASE Claim
  BY <1>1, <1>3 DEF PlanInv, TypeOK, BodyInv, NodeInv, OutputInv, Alive, Claim
<1> QED
  BY <1>2, <1>3

LEMMA BeginLeafPreserves ==
  ASSUME PlanInv, NEW m \in Ids, BeginLeaf(m)
  PROVE  PlanInv'
<1>1. m \in plan.nodes
  BY WaveIsOfNodes DEF BeginLeaf
<1>2. TypeOK'
  BY DEF PlanInv, TypeOK, BeginLeaf, Stages
<1>3. BodyInv'
  BY DEF PlanInv, TypeOK, BodyInv, BeginLeaf
<1>4. NodeInv'
  BY <1>1 DEF PlanInv, TypeOK, NodeInv, Alive, BeginLeaf, StepIsOpen
<1>5. OutputInv'
  BY DEF PlanInv, OutputInv, BeginLeaf
<1>6. RowInv'
  <2>1. \A n \in Ids : Done(n)' = Done(n)
    BY DEF PlanInv, TypeOK, BeginLeaf, StepIsOpen, Done
  <2> QED
    BY <2>1, RowsStay DEF BeginLeaf, Alive
<1> QED
  BY <1>2, <1>3, <1>4, <1>5, <1>6 DEF PlanInv

-----------------------------------------------------------------------------
(* What a leaf, of this execution or an orphan, does to the join table.     *)
LEMMA SessionType ==
  ASSUME PlanInv, NEW n \in Ids
  PROVE  Session(n) \in Sessions \cup Ids
BY DEF PlanInv, TypeOK, PlanSpecs, Session

LEMMA PutTypes ==
  ASSUME PlanInv, NEW m \in Ids, NEW status \in {"engaging", "settled", "failed"},
         Put(m, status)
  PROVE  row' \in Join!JoinTable /\ foreign' \in SUBSET (Sessions \cup Ids)
<1>1. [session |-> Session(m), status |-> status] \in Join!Row
  BY SessionType DEF Join!Row, Join!Statuses
<1> QED
  BY <1>1 DEF PlanInv, TypeOK, Put, Join!PutRow, Join!JoinTable

LEMMA LeafMovesTypes ==
  ASSUME PlanInv, NEW m \in Ids, NEW from, NEW to, LeafMoves(m, from, to)
  PROVE  /\ row' \in Join!JoinTable
         /\ foreign' \in SUBSET (Sessions \cup Ids)
         /\ from \in Stages
         /\ to \in Stages \cup Kinds
<1>1. CASE \E status \in {"engaging", "settled", "failed"} : Put(m, status)
  BY <1>1, PutTypes DEF LeafMoves, Stages, Kinds
<1>2. CASE UNCHANGED <<row, foreign>>
  BY <1>2 DEF PlanInv, TypeOK, LeafMoves, Stages, Kinds
<1> QED
  BY <1>1, <1>2 DEF LeafMoves

(* An in-process leaf puts its row.  Whoever settled on its session before  *)
(* loses the row to it.                                                     *)
LEMMA PutKeepsRows ==
  ASSUME PlanInv, ~spawn /\ (Alive \/ run = "completed"),
         NEW m \in plan.nodes, NEW status, Put(m, status), ~Done(m),
         UNCHANGED <<plan, spawn, run, steps, orphans>>,
         \A n \in Ids \ {m} : leaf'[n] = leaf[n],
         run # "absent",
         status = "settled" \/ leaf'[m] # "settled"
  PROVE  RowInv'
<1> DEFINE HeldNext(s) == \E k \in plan.nodes :
             row'[k].session = s /\ (row'[k].status = "settled" \/ ~Done(k)')
<1>0. plan.nodes \subseteq Ids /\ m \in Ids
  BY DEF PlanInv, TypeOK, PlanSpecs
<1>1. /\ row'[m] = [session |-> Session(m), status |-> status]
      /\ \A n \in Ids \ {m} :
           row'[n] = IF row[n].session = Session(m) THEN Join!NoRow ELSE row[n]
      /\ foreign' = foreign \ {Session(m)}
  BY <1>0 DEF Put, Join!PutRow
<1>2. \A n \in Ids : Session(n)' = Session(n)
  BY DEF Session
<1>3. \A n \in Ids \ {m} : Done(n)' = Done(n)
  BY DEF Done
<1>4. Done(m)' => status = "settled"
  BY DEF Done
<1>5. HeldNext(Session(m))
  BY <1>1, <1>4
<1>6. ASSUME NEW n \in Ids \ {m}, Session(n) # Session(m), Done(n)
      PROVE  Session(n) \in foreign' \/ HeldNext(Session(n))
  <2>1. CASE Session(n) \in foreign
    BY <1>1, <1>6, <2>1
  <2>2. CASE Held(Session(n))
    <3>1. PICK k \in plan.nodes :
            row[k].session = Session(n) /\ (row[k].status = "settled" \/ ~Done(k))
      BY <2>2 DEF Held
    <3>2. row[m].session # Session(n)
      <4>1. HasRow(m) => row[m].session = Session(m)
        BY <1>0 DEF PlanInv, RowInv
      <4>2. ~HasRow(m) => row[m].session = NoSession
        BY DEF HasRow, Join!NoRow
      <4>3. Session(n) # NoSession
        BY SessionType, PlanAssumption DEF PlanAssumption
      <4> QED
        BY <1>6, <4>1, <4>2, <4>3
    <3>3. k # m /\ k \in Ids
      BY <1>0, <3>1, <3>2
    <3>4. row'[k] = row[k] /\ Done(k)' = Done(k)
      BY <1>1, <1>3, <1>6, <3>1, <3>3
    <3> QED
      BY <3>1, <3>4
  <2> QED
    BY <1>6, <2>1, <2>2 DEF PlanInv, RowInv
<1>7. ASSUME NEW n \in Ids
      PROVE  /\ orphans'[n] = NoOrphans
             /\ HasRow(n)' => n \in plan.nodes /\ row'[n].session = Session(n)
             /\ Done(n)' => /\ HasRow(n)' => row'[n].status = "settled"
                            /\ Session(n) \in foreign' \/ HeldNext(Session(n))
  <2>1. CASE n = m
    BY <1>1, <1>4, <1>5, <2>1 DEF PlanInv, RowInv, HasRow
  <2>2. CASE n # m
    <3>1. HasRow(n)' => HasRow(n) /\ row'[n] = row[n] /\ Session(n) # Session(m)
      BY <1>1, <2>2 DEF PlanInv, RowInv, HasRow
    <3>2. Session(n) = Session(m) => HeldNext(Session(n))
      BY <1>5
    <3>3. Done(n)' => Session(n) \in foreign' \/ HeldNext(Session(n))
      BY <1>3, <1>6, <2>2, <3>2
    <3> QED
      BY <1>3, <2>2, <3>1, <3>3 DEF PlanInv, RowInv
  <2> QED
    BY <2>1, <2>2
<1>8. \A n \in Ids : HeldNext(Session(n)) => Held(Session(n))'
  BY DEF Held, Session
<1> QED
  BY <1>2, <1>7, <1>8 DEF RowInv

LEMMA LeafStepPreserves ==
  ASSUME PlanInv, NEW m \in Ids, LeafStep(m)
  PROVE  PlanInv'
<1>1. PICK to \in Stages \cup Kinds :
        /\ LeafMoves(m, leaf[m], to)
        /\ leaf' = [leaf EXCEPT ![m] = to]
  BY DEF LeafStep
<1>2. leaf[m] \in Stages /\ to # "none" /\ leaf[m] # "none" /\ leaf[m] # "settled"
  BY <1>1, LeafMovesTypes DEF Stages, Kinds
<1>3. UNCHANGED <<plan, spawn, run, steps, output, body, orphans, begins, mishaps>>
  BY DEF LeafStep
<1>4. TypeOK'
  BY <1>1, <1>3, LeafMovesTypes DEF PlanInv, TypeOK
<1>5. BodyInv'
  BY <1>1, <1>2, <1>3 DEF PlanInv, TypeOK, BodyInv
<1>6. NodeInv'
  BY <1>1, <1>2, <1>3 DEF PlanInv, TypeOK, NodeInv, Alive
<1>7. OutputInv'
  BY <1>3 DEF PlanInv, OutputInv
<1>8. m \in plan.nodes /\ steps[m] = "none" /\ run # "absent" /\ ~Done(m)
  BY <1>2 DEF PlanInv, NodeInv, BodyInv, TypeOK, Done
<1>9. RowInv'
  <2>1. CASE ~(~spawn /\ (Alive \/ run = "completed"))
    BY <1>3, <2>1 DEF RowInv, Alive
  <2>2. CASE ~spawn /\ (Alive \/ run = "completed")
    <3>1. leaf'[m] = to /\ \A n \in Ids \ {m} : leaf'[n] = leaf[n]
      BY <1>1 DEF PlanInv, TypeOK
    <3>2. CASE UNCHANGED <<row, foreign>> /\ to # "settled"
      <4>1. \A n \in Ids : Done(n)' = Done(n)
        BY <1>3, <1>8, <3>1, <3>2 DEF Done
      <4> QED
        BY <1>3, <3>2, <4>1, RowsStay DEF Alive
    <3>3. ASSUME NEW status, Put(m, status), status = "settled" \/ to # "settled"
          PROVE  RowInv'
      BY <1>3, <1>8, <2>2, <3>1, <3>3, PutKeepsRows
    <3> QED
      BY <1>1, <3>2, <3>3 DEF LeafMoves
  <2> QED
    BY <2>1, <2>2
<1> QED
  BY <1>4, <1>5, <1>6, <1>7, <1>9 DEF PlanInv

(* A run outside the plan takes a session.                                  *)
LEMMA ForeignPutPreserves ==
  ASSUME PlanAssumption, PlanInv, NEW s \in Contested, ForeignPut(s)
  PROVE  PlanInv'
<1>1. UNCHANGED <<plan, spawn, run, steps, output, body, leaf, orphans, begins, mishaps>>
  BY DEF ForeignPut
<1>2. TypeOK'
  BY DEF PlanAssumption, PlanInv, TypeOK, ForeignPut, Join!JoinTable
<1>3. (BodyInv /\ NodeInv /\ OutputInv)'
  BY <1>1 DEF PlanInv, BodyInv, NodeInv, OutputInv, Alive
<1>4. /\ \A n \in Ids : row'[n] = IF row[n].session = s THEN Join!NoRow ELSE row[n]
      /\ foreign' = foreign \cup {s}
      /\ \A n \in Ids : Done(n)' = Done(n) /\ Session(n)' = Session(n)
  BY <1>1 DEF ForeignPut, Done, Session
<1>5. plan.nodes \subseteq Ids
  BY DEF PlanInv, TypeOK, PlanSpecs
<1>6. ASSUME NEW t, t # s, Held(t) PROVE Held(t)'
  BY <1>1, <1>4, <1>5, <1>6 DEF Held
<1>7. RowInv'
  <2>1. SUFFICES ASSUME ~spawn /\ (Alive \/ run = "completed"), NEW n \in Ids
        PROVE  /\ orphans[n] = NoOrphans
               /\ run = "absent" => ~HasRow(n)'
               /\ HasRow(n)' => n \in plan.nodes /\ row'[n].session = Session(n)
               /\ Done(n) => /\ HasRow(n)' => row'[n].status = "settled"
                             /\ Session(n) \in foreign' \/ Held(Session(n))'
    BY <1>1, <1>4 DEF RowInv, Alive
  <2>2. HasRow(n)' => HasRow(n) /\ row'[n] = row[n]
    BY <1>4 DEF HasRow
  <2> QED
    BY <1>4, <1>6, <2>1, <2>2 DEF PlanInv, RowInv
<1> QED
  BY <1>2, <1>3, <1>7 DEF PlanInv

-----------------------------------------------------------------------------
LEMMA RecordStepPreserves ==
  ASSUME PlanInv, NEW m \in Ids, RecordStep(m)
  PROVE  PlanInv'
<1>1. CASE run = "running"
  <2>1. TypeOK'
    BY <1>1 DEF PlanInv, TypeOK, RecordStep, Kinds
  <2>2. BodyInv'
    <3>1. body.active /\ UNCHANGED <<body, run>> /\ leaf[m] # "none"
      BY <1>1 DEF RecordStep, Kinds
    <3>2. \A n \in Ids : steps[n] # "none" => steps'[n] # "none"
      BY <1>1 DEF PlanInv, TypeOK, RecordStep, Kinds
    <3>3. body.past \subseteq Ids
      BY DEF PlanInv, TypeOK, PlanSpecs
    <3> QED
      BY <1>1, <3>1, <3>2, <3>3 DEF PlanInv, BodyInv
  <2>3. NodeInv'
    BY <1>1 DEF PlanInv, TypeOK, NodeInv, Alive, RecordStep, Kinds
  <2>4. OutputInv'
    BY <1>1 DEF PlanInv, TypeOK, NodeInv, OutputInv, RecordStep, Kinds
  <2>5. \A n \in Ids : Done(n)' = Done(n)
    BY <1>1 DEF PlanInv, TypeOK, NodeInv, RecordStep, Done, Kinds
  <2>6. RowInv'
    BY <1>1, <2>5, RowsStay DEF RecordStep, Alive
  <2> QED
    BY <2>1, <2>2, <2>3, <2>4, <2>6 DEF PlanInv
<1>2. CASE run # "running"
  <2>1. /\ body' = Idle /\ leaf' = [n \in Ids |-> "none"]
        /\ orphans' \in [Ids -> [Stages -> Nat]]
        /\ UNCHANGED <<plan, spawn, run, steps, output, row, foreign, begins, mishaps>>
    BY <1>2, AbandonedTypes DEF RecordStep
  <2>2. run \notin {"absent", "pending", "running", "completed"}
    BY <1>2 DEF PlanInv, BodyInv, RecordStep
  <2> QED
    BY <2>1, <2>2 DEF PlanInv, TypeOK, BodyInv, NodeInv, OutputInv, RowInv, Alive, Idle
<1> QED
  BY <1>1, <1>2

(* An execution is over while its leaves work on as orphans, in spawn mode. *)
LEMMA AbandonedPreserves ==
  ASSUME PlanInv, spawn, Abandoned, mishaps' = mishaps + 1,
         UNCHANGED <<plan, spawn, steps, output, row, foreign, begins>>,
         \/ UNCHANGED run
         \/ run = "running" /\ run' = "failed"
  PROVE  PlanInv'
<1>1. /\ body' = Idle /\ leaf' = [n \in Ids |-> "none"] /\ orphans' \in [Ids -> [Stages -> Nat]]
  BY AbandonedTypes
<1>2. TypeOK'
  BY <1>1 DEF PlanInv, TypeOK, Idle
<1>3. BodyInv'
  BY <1>1 DEF PlanInv, TypeOK, BodyInv, Idle
<1>4. NodeInv'
  BY <1>1 DEF PlanInv, TypeOK, NodeInv, Idle
<1>5. (OutputInv /\ RowInv)'
  BY <1>1 DEF PlanInv, TypeOK, OutputInv, RowInv
<1> QED
  BY <1>2, <1>3, <1>4, <1>5 DEF PlanInv

LEMMA SpawnErrorPreserves ==
  ASSUME PlanInv, NEW m \in Ids, SpawnError(m)
  PROVE  PlanInv'
BY AbandonedPreserves DEF SpawnError

LEMMA WorkerCrashPreserves ==
  ASSUME PlanInv, WorkerCrash
  PROVE  PlanInv'
<1>1. CASE spawn
  BY <1>1, AbandonedPreserves DEF WorkerCrash
<1>2. CASE ~spawn
  <2>0. /\ body' = Idle /\ leaf' = [n \in Ids |-> "none"]
        /\ orphans' = [n \in Ids |-> NoOrphans]
        /\ mishaps' = mishaps + 1
        /\ UNCHANGED <<plan, spawn, run, steps, output, row, foreign, begins>>
    BY <1>2 DEF WorkerCrash
  <2>1. TypeOK'
    BY <2>0 DEF PlanInv, TypeOK, Idle, NoOrphans
  <2>2. BodyInv'
    BY <2>0 DEF PlanInv, TypeOK, BodyInv, Idle
  <2>3. NodeInv'
    BY <2>0 DEF PlanInv, TypeOK, NodeInv, Alive, Idle
  <2>4. OutputInv'
    BY <2>0 DEF PlanInv, TypeOK, OutputInv
  <2>5. plan.nodes \subseteq Ids
    BY DEF PlanInv, TypeOK, PlanSpecs
  <2>6. \A n \in Ids : Done(n)' => Done(n)
    BY <2>0 DEF Done
  <2>7. \A s : Held(s) => Held(s)'
    BY <2>0, <2>5, <2>6 DEF Held
  <2>8. RowInv'
    BY <2>0, <2>6, <2>7 DEF PlanInv, RowInv, Alive, HasRow, Session
  <2> QED
    BY <2>1, <2>2, <2>3, <2>4, <2>8 DEF PlanInv
<1> QED
  BY <1>1, <1>2

LEMMA NextWavePreserves ==
  ASSUME PlanInv, NextWave
  PROVE  PlanInv'
<1>1. body'.active = body.active /\ body'.past = body.past \cup Wave(body.past)
      /\ body' \in [active : BOOLEAN, past : SUBSET plan.nodes]
  BY WaveIsOfNodes DEF PlanInv, TypeOK, NextWave
<1>2. \A n \in body'.past : steps[n] # "none"
  BY <1>1 DEF PlanInv, BodyInv, NextWave, WaveIsOver
<1>3. TypeOK'
  BY <1>1 DEF PlanInv, TypeOK, NextWave
<1>4. BodyInv'
  BY <1>1, <1>2 DEF PlanInv, BodyInv, NextWave
<1>5. (NodeInv /\ OutputInv)'
  BY <1>1 DEF PlanInv, NodeInv, OutputInv, Alive, NextWave
<1>6. RowInv'
  BY RowsStay DEF NextWave, Alive, Done
<1> QED
  BY <1>3, <1>4, <1>5, <1>6 DEF PlanInv

LEMMA CompletePreserves ==
  ASSUME PlanInv, Complete
  PROVE  PlanInv'
<1>1. \A n \in plan.nodes : steps[n] # "none"
  BY DEF PlanInv, BodyInv, Complete
<1>2. \A n \in Ids : leaf[n] = "none"
  BY <1>1 DEF PlanInv, NodeInv, Complete
<1>3. TypeOK' /\ BodyInv'
  BY <1>2 DEF PlanInv, TypeOK, BodyInv, Complete, Idle, Summary
<1>4. NodeInv'
  BY <1>1, <1>2 DEF PlanInv, TypeOK, BodyInv, NodeInv, Alive, Complete, Idle
<1>5. OutputInv'
  BY DEF PlanInv, TypeOK, OutputInv, Complete, Summary
<1>6. RowInv'
  <2>1. run' = run \/ (run' = "completed" /\ run = "running")
    BY DEF Complete
  <2> QED
    BY <2>1, RowsStay DEF Complete, Alive, Done
<1> QED
  BY <1>3, <1>4, <1>5, <1>6 DEF PlanInv

LEMMA OrphanStepPreserves ==
  ASSUME PlanInv, NEW m \in Ids, OrphanStep(m)
  PROVE  PlanInv'
<1>1. PICK from \in Stages, to \in Stages \cup Kinds :
        /\ orphans[m][from] > 0
        /\ LeafMoves(m, from, to)
        /\ orphans' = [orphans EXCEPT ![m] = [stage \in Stages |->
             CASE stage = from -> @[stage] - 1
               [] stage = to   -> @[stage] + 1
               [] OTHER        -> @[stage]]]
  BY DEF OrphanStep
<1>2. UNCHANGED <<plan, spawn, run, steps, output, body, leaf, begins, mishaps>>
  BY DEF OrphanStep
<1>3. orphans' \in [Ids -> [Stages -> Nat]]
  <2> DEFINE next == [stage \in Stages |->
             CASE stage = from -> orphans[m][stage] - 1
               [] stage = to   -> orphans[m][stage] + 1
               [] OTHER        -> orphans[m][stage]]
  <2>1. orphans \in [Ids -> [Stages -> Nat]]
    BY DEF PlanInv, TypeOK
  <2>2. \A stage \in Stages : next[stage] \in Nat
    BY <1>1, <2>1
  <2>3. next \in [Stages -> Nat]
    BY <2>2
  <2> QED
    BY <1>1, <2>1, <2>3
<1>4. TypeOK'
  BY <1>1, <1>2, <1>3, LeafMovesTypes DEF PlanInv, TypeOK
<1>5. ~(~spawn /\ (Alive \/ run = "completed"))
  BY <1>1 DEF PlanInv, RowInv, NoOrphans
<1>6. RowInv'
  BY <1>2, <1>5 DEF RowInv, Alive
<1> QED
  BY <1>2, <1>4, <1>6 DEF PlanInv, BodyInv, NodeInv, OutputInv, Alive

LEMMA NextPreserves == ASSUME PlanAssumption, PlanInv, [Next]_vars PROVE PlanInv'
<1>1. CASE UNCHANGED vars
  <2>1. RowInv'
    BY <1>1, RowsStay DEF vars, Alive, Done
  <2> QED
    BY <1>1, <2>1 DEF vars, PlanInv, TypeOK, BodyInv, NodeInv, OutputInv, Alive
<1>2. CASE Next
  BY <1>2, RunPlanPreserves, RunStatusPreserves, BeginLeafPreserves, LeafStepPreserves,
     RecordStepPreserves, NextWavePreserves, CompletePreserves, WorkerCrashPreserves,
     SpawnErrorPreserves, OrphanStepPreserves, ForeignPutPreserves
  DEF Next, BodyStep
<1> QED
  BY <1>1, <1>2

(* The inductive invariant holds throughout.                                *)
THEOREM PlanInvariant == Spec => []PlanInv
BY PlanAssumption, InitEstablishes, NextPreserves, PTL DEF Spec

(* Type correctness, for every value of the constants.                      *)
THEOREM PlanTypeCorrectness == Spec => []TypeOK
<1>1. PlanInv => TypeOK
  BY DEF PlanInv
<1> QED
  BY <1>1, PlanInvariant, PTL

(* A plan is reported as completed only when every node settled in its      *)
(* recorded result and, for in-process leaves, every session the plan       *)
(* worked on is with a settled row of one of its nodes, or with a run       *)
(* outside the plan, and no row of the plan says anything but settled:      *)
(* however many nodes share a session, and whoever deletes whose row        *)
(* (summarizePlanResults, put's DELETE).                                    *)
THEOREM CompletedPlansAreSettled == Spec => []CompletedIsSettled
<1>1. ASSUME PlanInv PROVE CompletedIsSettled
  <2>1. SUFFICES ASSUME output = "completed", NEW n \in plan.nodes
        PROVE  /\ steps[n] = "settled"
               /\ ~spawn =>
                    /\ HasRow(n) => row[n].status = "settled"
                    /\ \/ Session(n) \in foreign
                       \/ \E m \in plan.nodes :
                            row[m] = [session |-> Session(n), status |-> "settled"]
    BY DEF CompletedIsSettled
  <2>2. plan.nodes \subseteq Ids
    BY <1>1 DEF PlanInv, TypeOK, PlanSpecs
  <2>3. run = "completed" /\ \A m \in plan.nodes : steps[m] = "settled"
    BY <1>1, <2>1 DEF PlanInv, OutputInv
  <2>4. CASE ~spawn
    <3>1. /\ HasRow(n) => row[n].status = "settled"
          /\ Session(n) \in foreign \/ Held(Session(n))
      BY <1>1, <2>2, <2>3, <2>4 DEF PlanInv, RowInv, Done
    <3>2. ASSUME NEW m \in plan.nodes, row[m].session = Session(n), row[m].status = "settled"
          PROVE  row[m] = [session |-> Session(n), status |-> "settled"]
      BY <1>1, <2>2, <3>2 DEF PlanInv, TypeOK, Join!JoinTable, Join!Row, Join!NoRow
    <3> QED
      BY <2>3, <3>1, <3>2 DEF Held, Done
  <2> QED
    BY <2>3, <2>4
<1> QED
  BY <1>1, PlanInvariant, PTL

(* However many crashes and spawn errors there are, each costs a node one   *)
(* repetition at most (register-plan.ts, one durable step per node).        *)
THEOREM BeginsAreBounded == Spec => []BegunOncePerExecution
<1>1. PlanInv => BegunOncePerExecution
  BY DEF PlanInv, NodeInv, BegunOncePerExecution
<1> QED
  BY <1>1, PlanInvariant, PTL

(* What is recorded is neither engaged again nor overwritten.               *)
THEOREM RecordedStaysRecorded == Spec => RecordedIsFinal
<1> DEFINE Final == \A n \in Ids : steps[n] # "none" =>
                      steps'[n] = steps[n] /\ begins'[n] = begins[n]
<1>1. ASSUME PlanInv, [Next]_vars PROVE [Final]_vars
  <2>1. CASE UNCHANGED vars
    BY <2>1
  <2>2. ASSUME NEW m \in Ids, BeginLeaf(m) PROVE Final
    BY <1>1, <2>2 DEF PlanInv, TypeOK, BeginLeaf, StepIsOpen
  <2>3. ASSUME NEW m \in Ids, RecordStep(m) PROVE Final
    BY <1>1, <2>3 DEF PlanInv, TypeOK, NodeInv, RecordStep, Kinds
  <2>4. ASSUME NEW p \in Plans, RunPlan(p) PROVE Final
    BY <2>4 DEF RunPlan
  <2>5. ASSUME NEW m \in Ids, LeafStep(m) \/ SpawnError(m) \/ OrphanStep(m)
        PROVE  Final
    BY <2>5 DEF LeafStep, SpawnError, OrphanStep
  <2>6. ASSUME \/ Cancel \/ Claim \/ NextWave \/ Complete \/ WorkerCrash
               \/ \E s \in Contested : ForeignPut(s)
        PROVE  Final
    BY <2>6 DEF Cancel, Claim, NextWave, Complete, WorkerCrash, ForeignPut
  <2> QED
    BY <1>1, <2>1, <2>2, <2>3, <2>4, <2>5, <2>6 DEF Next, BodyStep
<1> QED
  BY <1>1, PlanInvariant, PTL DEF Spec, RecordedIsFinal

-----------------------------------------------------------------------------
(* The refinement.  When a wave has no ready node, the nodes that remain    *)
(* are stuck together: each waits for another of them or for an id that is  *)
(* no node.                                                                 *)
LEMMA StragglersAreBlocked ==
  ASSUME PlanInv, \A n \in plan.nodes \ body.past : ~Ready(n, body.past)
  PROVE  plan.nodes \ body.past \subseteq Dag!Blocked
<1> DEFINE S == plan.nodes \ body.past
<1>1. S \in SUBSET plan.nodes /\ body.past \subseteq plan.nodes
  BY DEF PlanInv, TypeOK, PlanSpecs
<1>2. plan.nodes \ S = body.past
  BY <1>1
<1>3. Dag!Stuck(S)
  BY <1>2 DEF Ready, Dag!Stuck
<1> QED
  BY <1>1, <1>3 DEF Dag!Blocked

(* A leaf is begun only where the abstract plan may begin its node.         *)
LEMMA WaveMayBegin ==
  ASSUME PlanInv, NEW n \in Wave(body.past)
  PROVE  Dag!MayBegin(n)
<1> DEFINE ready == {m \in plan.nodes \ body.past : Ready(m, body.past)}
           ended == {m \in plan.nodes : steps[m] # "none"}
<1>1. body.past \subseteq ended
  BY DEF PlanInv, TypeOK, BodyInv
<1>2. CASE ready # {}
  <2>1. Ready(n, body.past)
    BY <1>2 DEF Wave
  <2> QED
    BY <1>1, <2>1 DEF Ready, Dag!MayBegin
<1>3. CASE ready = {}
  <2>1. plan.nodes \ body.past \subseteq Dag!Blocked
    BY <1>3, StragglersAreBlocked
  <2>2. n \in plan.nodes \ body.past
    BY WaveIsOfNodes
  <2> QED
    BY <1>1, <2>1, <2>2 DEF Dag!MayBegin
<1> QED
  BY <1>2, <1>3

LEMMA InitRefines == ASSUME Init PROVE Dag!Init
BY DEF Init, Dag!Init

LEMMA RunPlanRefines ==
  ASSUME PlanAssumption, PlanInv, NEW p \in Plans, RunPlan(p)
  PROVE  Dag!Submit
<1>1. p.nodes \in SUBSET Ids /\ p.edges \in SUBSET (Ids \X Ids)
  BY DEF PlanAssumption, PlanSpecs
<1>2. \A n \in Ids : begins[n] = 0 /\ steps[n] = "none"
  BY DEF PlanInv, BodyInv, RunPlan
<1>3. plan.nodes \subseteq Ids
  BY DEF PlanInv, TypeOK, PlanSpecs
<1>4. {n \in plan.nodes : begins[n] > 0} = {} /\ {n \in p.nodes : begins[n] > 0} = {}
  BY <1>1, <1>2, <1>3
<1>5. {n \in plan.nodes : steps[n] # "none"} = {} /\ {n \in p.nodes : steps[n] # "none"} = {}
  BY <1>1, <1>2, <1>3
<1> QED
  BY <1>1, <1>4, <1>5 DEF RunPlan, Dag!Submit

LEMMA BeginLeafRefines ==
  ASSUME PlanInv, NEW n \in Ids, BeginLeaf(n)
  PROVE  n \in plan.nodes /\ Dag!Begin(n)
<1>1. n \in plan.nodes /\ steps[n] = "none"
  BY WaveIsOfNodes DEF BeginLeaf, StepIsOpen
<1>2. Dag!MayBegin(n)
  BY WaveMayBegin DEF BeginLeaf
<1>3. run \in {"running", "failed", "canceled"}
  BY DEF PlanInv, TypeOK, BodyInv, BeginLeaf
<1>4. {m \in plan.nodes : begins'[m] > 0} = {m \in plan.nodes : begins[m] > 0} \cup {n}
  BY <1>1 DEF PlanInv, TypeOK, BeginLeaf
<1> QED
  BY <1>1, <1>2, <1>3, <1>4 DEF BeginLeaf, Dag!Begin

LEMMA RecordStepRefines ==
  ASSUME PlanInv, NEW n \in Ids, RecordStep(n)
  PROVE  UNCHANGED Dag!vars \/ (n \in plan.nodes /\ Dag!End(n))
<1>1. CASE run = "running"
  <2>1. n \in plan.nodes /\ begins[n] > 0 /\ steps[n] = "none"
    BY DEF PlanInv, NodeInv, RecordStep, Kinds
  <2>2. plan.nodes \subseteq Ids /\ \A m \in Ids : steps'[m] = IF m = n THEN leaf[n] ELSE steps[m]
    BY <1>1 DEF PlanInv, TypeOK, PlanSpecs, RecordStep
  <2>3. {m \in plan.nodes : steps'[m] # "none"} = {m \in plan.nodes : steps[m] # "none"} \cup {n}
    BY <2>1, <2>2 DEF RecordStep, Kinds
  <2> QED
    BY <1>1, <2>1, <2>3 DEF RecordStep, Dag!End
<1>2. CASE run # "running"
  BY <1>2 DEF RecordStep, Dag!vars
<1> QED
  BY <1>1, <1>2

LEMMA CompleteRefines ==
  ASSUME PlanInv, Complete
  PROVE  UNCHANGED Dag!vars \/ Dag!Finish
<1>1. CASE run = "running"
  <2>1. {n \in plan.nodes : steps[n] # "none"} = plan.nodes
    BY DEF PlanInv, BodyInv, Complete
  <2> QED
    BY <1>1, <2>1 DEF Complete, Dag!Finish
<1>2. CASE run # "running"
  BY <1>2 DEF Complete, Dag!vars
<1> QED
  BY <1>1, <1>2

LEMMA StatusRefines ==
  ASSUME Cancel \/ Claim \/ \E n \in Ids : SpawnError(n)
  PROVE  UNCHANGED Dag!vars \/ Dag!GiveUp
<1>1. CASE Cancel
  BY <1>1 DEF Cancel, Dag!GiveUp
<1>2. CASE Claim
  BY <1>2 DEF Claim, Dag!vars
<1>3. ASSUME NEW n \in Ids, SpawnError(n) PROVE UNCHANGED Dag!vars \/ Dag!GiveUp
  BY <1>3 DEF SpawnError, Dag!vars, Dag!GiveUp
<1> QED
  BY <1>1, <1>2, <1>3

LEMMA HiddenRefines ==
  ASSUME \/ NextWave \/ WorkerCrash
         \/ \E n \in Ids : LeafStep(n) \/ OrphanStep(n)
         \/ \E s \in Contested : ForeignPut(s)
  PROVE  UNCHANGED Dag!vars
BY DEF NextWave, WorkerCrash, LeafStep, OrphanStep, ForeignPut, Dag!vars

(* Waves, re-runs, crashes and orphans implement the abstract plan: a node  *)
(* begins after its dependencies are recorded, or, when it never could, as  *)
(* one of the stragglers after all others are (computePlanWaves).           *)
THEOREM PlanImplementsDag == Spec => ImplementsDag
<1>1. Init => Dag!Init
  BY InitRefines
<1>2. ASSUME PlanInv, [Next]_vars PROVE [Dag!Next]_Dag!vars
  <2>1. CASE UNCHANGED vars
    BY <2>1 DEF vars, Dag!vars
  <2>2. CASE Next
    BY <1>2, <2>2, PlanAssumption, RunPlanRefines, BeginLeafRefines, RecordStepRefines,
       CompleteRefines, StatusRefines, HiddenRefines
    DEF Next, BodyStep, Dag!Next
  <2> QED
    BY <1>2, <2>1, <2>2
<1> QED
  BY <1>1, <1>2, PlanInvariant, PTL DEF Spec, ImplementsDag, Dag!Spec
=============================================================================
