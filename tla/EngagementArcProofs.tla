------------------------ MODULE EngagementArcProofs ------------------------
(***************************************************************************)
(* Theorems about EngagementArc, for every number of runs, leaves, crashes  *)
(* and faults and every park cap.                                           *)
(*                                                                          *)
(* The heart is the inductive invariant ArcInv.  It says how the recorded   *)
(* history of a run (memo, wakes) looks, what a leaf in flight has to do    *)
(* with it, and where in that history an execution of the body can be;      *)
(* type correctness is part of it because the step of a leaf is typed only  *)
(* by what earlier steps left in its record.                                *)
(***************************************************************************)
EXTENDS EngagementArc, TLAPS

-----------------------------------------------------------------------------
(* The inductive invariant.                                                 *)

(* A leaf in flight: what its program counter says about its fields.        *)
LeafInv(l) ==
  leaf[l].pc # "free" =>
    /\ leaf[l].pc = "open" => leaf[l].session = NoSession
    /\ leaf[l].pc \in {"open", "put", "engage"} => leaf[l].out = NoOutcome
    /\ Working(l) => leaf[l].session \in Sessions
    /\ leaf[l].pc \in {"park", "read", "write", "catchRead", "catchWrite", "done"}
         => leaf[l].out \in Outcome
    /\ leaf[l].pc = "park" => leaf[l].out.kind = "parked"
    /\ leaf[l].pc \in {"catchRead", "catchWrite"} => leaf[l].out.kind = "failed"
    /\ leaf[l].pc \in {"write", "catchWrite"} => leaf[l].row \in Row
    /\ leaf[l].out \in Outcome =>
         /\ leaf[l].out.code \in {"ok", "OPEN_FAILED", "ENGAGE_FAILED"}
         /\ leaf[l].out.session \in {leaf[l].session, NoSession}
         /\ leaf[l].out.kind # "failed" => leaf[l].out.session \in Sessions
    /\ (SessionsSurvive /\ leaf[l].in.resume # NoSession) =>
         leaf[l].session \in {leaf[l].in.resume, NoSession}

(* A result OpenWorkflow has recorded for a leaf step.                      *)
Recorded(o) ==
  /\ o.code \in {"ok", "OPEN_FAILED", "ENGAGE_FAILED", "RUNNER_NO_OUTPUT"}
  /\ o.kind # "failed" => o.session \in Sessions

(* Every recorded step but the last parked, was woken, and was continued on *)
(* its session.                                                             *)
History(r) ==
  /\ Len(wakes[r]) <= Len(memo[r]) /\ Len(memo[r]) <= Len(wakes[r]) + 1
  /\ Len(wakes[r]) <= MaxParkLoops /\ Len(memo[r]) <= MaxParkLoops + 1
  /\ \A n \in 1..Len(memo[r]) : Recorded(memo[r][n])
  /\ \A n \in 1..(Len(memo[r]) - 1) :
       /\ memo[r][n].kind = "parked"
       /\ wakes[r][n].kind = "wake"
       /\ SessionsSurvive => memo[r][n + 1].session \in {memo[r][n].session, NoSession}

(* A result the body may return, given the history.                         *)
Result(r, o) ==
  /\ o \in Outcome
  /\ o.kind # "parked"
  /\ o.kind = "settled" => memo[r] # <<>> /\ memo[r][1].session \in Sessions
  /\ (o.code = "PARK_LOOP_EXCEEDED") <=>
       (Len(memo[r]) = MaxParkLoops + 1 /\ memo[r][Len(memo[r])].kind = "parked")

(* An active wait: no execution is in memory and the last step parked.      *)
WaitInv(r) ==
  waiting[r] =>
    /\ run[r] \in {"pending", "running"}
    /\ exec[r].pc = "idle"
    /\ Len(memo[r]) = Len(wakes[r]) + 1
    /\ Len(memo[r]) <= MaxParkLoops
    /\ memo[r][Len(memo[r])].kind = "parked"

(* Where the body is in the history.                                        *)
AtStep(r) ==
  exec[r].pc \in {"step", "leaf"} =>
    /\ exec[r].loops <= MaxParkLoops
    /\ exec[r].loops <= Len(wakes[r])
    /\ exec[r].loops <= Len(memo[r])
    /\ exec[r].loops > 0 => /\ memo[r][exec[r].loops].kind = "parked"
                            /\ wakes[r][exec[r].loops].kind = "wake"

AtLeaf(r) ==
  exec[r].pc = "leaf" =>
    /\ exec[r].leaf \in Leaves
    /\ leaf[exec[r].leaf].pc # "free"
    /\ leaf[exec[r].leaf].run = r
    /\ Len(memo[r]) = exec[r].loops
    /\ exec[r].loops > 0 =>
         leaf[exec[r].leaf].in.resume = memo[r][exec[r].loops].session

AtWait(r) ==
  exec[r].pc = "wait" =>
    /\ exec[r].loops >= 1 /\ exec[r].loops <= MaxParkLoops
    /\ exec[r].loops <= Len(memo[r]) /\ exec[r].loops <= Len(wakes[r]) + 1
    /\ memo[r][exec[r].loops].kind = "parked"

AtReturn(r) == exec[r].pc = "return" => Result(r, exec[r].out)

EndedInv(r) == run[r] = "completed" => Result(r, output[r])

RunInv(r) ==
  /\ History(r) /\ WaitInv(r) /\ EndedInv(r)
  /\ AtStep(r) /\ AtLeaf(r) /\ AtWait(r) /\ AtReturn(r)

ArcInv ==
  /\ TypeOK
  /\ \A l \in Leaves : LeafInv(l)
  /\ \A r \in Runs : RunInv(r)

-----------------------------------------------------------------------------
(* Typing.                                                                  *)

LEMMA RecordTypes ==
  /\ IdleExec \in ExecState
  /\ NoOutcome \notin Outcome
  /\ \A s \in MaybeSession, c \in Codes : Failed(s, c) \in Outcome
BY DEF IdleExec, ExecState, NoOutcome, Outcome, Failed, Codes, MaybeSession

(* The input of a leaf step has its type.                                   *)
LEMMA StepInputType ==
  ASSUME ArcInv, NEW r \in Runs, exec[r].pc = "step"
  PROVE  StepInput(r, exec[r].loops + 1) \in EngagementInput
<1> DEFINE n == exec[r].loops + 1
<1>1. exec[r].loops \in Nat /\ exec[r].loops <= Len(wakes[r]) /\ exec[r].loops <= Len(memo[r])
  BY DEF ArcInv, RunInv, AtStep, TypeOK, ExecState
<1>2. CASE n = 1
  BY <1>2 DEF StepInput, ArcInv, TypeOK
<1>3. CASE n # 1
  <2>1. n - 1 \in 1..Len(wakes[r]) /\ n - 1 \in 1..Len(memo[r])
    BY <1>1, <1>3
  <2>2. wakes[r][n - 1] \in Wakes /\ memo[r][n - 1] \in Outcome
    BY <2>1 DEF ArcInv, TypeOK
  <2> QED
    BY <1>3, <2>2 DEF StepInput, Wakes, Outcome, EngagementInput
<1> QED
  BY <1>2, <1>3

LEMMA LeafOfType ==
  ASSUME ArcInv, NEW l \in Leaves, leaf[l].pc # "free"
  PROVE  leaf[l] \in LeafState
BY DEF ArcInv, TypeOK, FreeLeaf

LEMMA NotedType ==
  ASSUME NEW ns \in Seq(Note), NEW step \in Nat,
         NEW kind \in {"settled", "parked", "failed"}
  PROVE  /\ LeafNoted(ns, step, kind) \in Seq(Note)
         /\ ArcNoted(ns, step, kind) \in Seq(Note)
         /\ GaveUp(ns, step) \in Seq(Note)
<1>1. \A k \in {"settled", "parked", "failed"} : [step |-> step, kind |-> k] \in Note
  BY DEF Note
<1>2. \A k \in {"settled", "parked", "failed"} : Noted(ns, step, k) \in Seq(Note)
  BY <1>1 DEF Noted
<1> QED
  BY <1>2 DEF LeafNoted, ArcNoted, GaveUp

LEMMA PutRowType ==
  ASSUME NEW table \in JoinTable, NEW r \in Runs, NEW row \in Row
  PROVE  PutRow(table, r, row) \in JoinTable
BY DEF PutRow, JoinTable, NoRow

(* An action of leaf l that gives it a typed record and appends a note.     *)
LEMMA TypeLeafUpdate ==
  ASSUME TypeOK, NEW l \in Leaves, leafOnlyUnchanged' = leafOnlyUnchanged,
         NEW f \in LeafState, leaf' = [leaf EXCEPT ![l] = f],
         notes' \in [Runs -> Seq(Note)], join' \in JoinTable,
         opened' \in SUBSET Sessions, faults' \in Nat
  PROVE  TypeOK'
BY DEF TypeOK, leafOnlyUnchanged

LEMMA TypeLeafStep ==
  ASSUME ArcInv, NEW l \in Leaves, LeafStep(l)
  PROVE  TypeOK'
<1> USE LeafOfType, RecordTypes
<1>1. CASE OpenFails(l)
  <2>0. leaf[l] \in LeafState
    BY <1>1 DEF OpenFails
  <2> DEFINE f == [leaf[l] EXCEPT !.pc = "done", !.out = Failed(NoSession, "OPEN_FAILED")]
  <2>1. f \in LeafState
    BY <2>0 DEF LeafState, LeafPc, MaybeSession, Codes
  <2>2. leaf' = [leaf EXCEPT ![l] = f]
    BY <1>1 DEF OpenFails, ArcInv, TypeOK
  <2>3. notes' \in [Runs -> Seq(Note)]
    BY <1>1, <2>0, NotedType DEF OpenFails, ArcInv, TypeOK, LeafState
  <2>4. /\ join' \in JoinTable /\ opened' \in SUBSET Sessions /\ faults' \in Nat
        /\ leafOnlyUnchanged' = leafOnlyUnchanged
    BY <1>1 DEF OpenFails, ArcInv, TypeOK
  <2> HIDE DEF f
  <2> QED
    BY <2>1, <2>2, <2>3, <2>4, TypeLeafUpdate DEF ArcInv
<1>2. CASE Open(l)
  <2>0. leaf[l] \in LeafState
    BY <1>2 DEF Open
  <2>1. PICK s \in Sessions :
          /\ leaf' = [leaf EXCEPT ![l].pc = "put", ![l].session = s]
          /\ opened' = opened \cup {s}
    BY <1>2 DEF Open
  <2> DEFINE f == [leaf[l] EXCEPT !.pc = "put", !.session = s]
  <2>2. f \in LeafState
    BY <2>0 DEF LeafState, LeafPc, MaybeSession
  <2>3. leaf' = [leaf EXCEPT ![l] = f]
    BY <2>1 DEF ArcInv, TypeOK
  <2>4. opened' \in SUBSET Sessions
    BY <2>1 DEF ArcInv, TypeOK
  <2>5. /\ notes' \in [Runs -> Seq(Note)] /\ join' \in JoinTable /\ faults' \in Nat
        /\ leafOnlyUnchanged' = leafOnlyUnchanged
    BY <1>2 DEF Open, ArcInv, TypeOK
  <2> HIDE DEF f
  <2> QED
    BY <2>2, <2>3, <2>4, <2>5, TypeLeafUpdate DEF ArcInv
<1>3. CASE PutEngaging(l)
  <2>0. leaf[l] \in LeafState
    BY <1>3 DEF PutEngaging
  <2> DEFINE f == [leaf[l] EXCEPT !.pc = "engage"]
  <2>1. f \in LeafState
    BY <2>0 DEF LeafState, LeafPc
  <2>2. leaf' = [leaf EXCEPT ![l] = f]
    BY <1>3 DEF PutEngaging, ArcInv, TypeOK
  <2>4. join' \in JoinTable
    <3>1. LeafRow(l, "engaging") \in Row
      BY <1>3, <2>0 DEF PutEngaging, ArcInv, LeafInv, Working, LeafState, Outcome, Statuses, Row, LeafRow, UpdatedRow
    <3> QED
      BY <1>3, <2>0, <3>1, PutRowType DEF PutEngaging, ArcInv, TypeOK, LeafState
  <2> HIDE DEF f
  <2> QED
    BY <1>3, <2>1, <2>2, <2>4, TypeLeafUpdate DEF PutEngaging, ArcInv, TypeOK
<1>4. CASE Engage(l)
  <2>0. leaf[l] \in LeafState /\ leaf[l].session \in Sessions
    BY <1>4 DEF Engage, ArcInv, LeafInv, Working
  <2>1. PICK o \in Outcome, pc \in LeafPc :
          leaf' = [leaf EXCEPT ![l].out = o, ![l].pc = pc]
    <3> DEFINE k == IF leaf[l].in.parkIntent THEN "parked" ELSE "settled"
               good == [kind |-> k, session |-> leaf[l].session, code |-> "ok"]
               bad == Failed(leaf[l].session, "ENGAGE_FAILED")
    <3>1. good \in Outcome /\ bad \in Outcome
      BY <2>0 DEF Outcome, MaybeSession, Codes, Failed
    <3>2. \/ leaf' = [leaf EXCEPT ![l].out = good,
                                 ![l].pc = IF k = "parked" THEN "park" ELSE "read"]
          \/ leaf' = [leaf EXCEPT ![l].out = bad, ![l].pc = "read"]
      BY <1>4 DEF Engage
    <3> HIDE DEF good, bad, k
    <3> QED
      BY <3>1, <3>2 DEF LeafPc
  <2> DEFINE f == [leaf[l] EXCEPT !.out = o, !.pc = pc]
  <2>2. f \in LeafState
    BY <2>0 DEF LeafState
  <2>3. leaf' = [leaf EXCEPT ![l] = f]
    BY <2>1 DEF ArcInv, TypeOK
  <2> HIDE DEF f
  <2> QED
    BY <1>4, <2>2, <2>3, TypeLeafUpdate DEF Engage, ArcInv, TypeOK
<1>5. CASE PutParked(l)
  <2>0. leaf[l] \in LeafState
    BY <1>5 DEF PutParked
  <2> DEFINE f == [leaf[l] EXCEPT !.pc = "done"]
  <2>1. f \in LeafState
    BY <2>0 DEF LeafState, LeafPc
  <2>2. leaf' = [leaf EXCEPT ![l] = f]
    BY <1>5 DEF PutParked, ArcInv, TypeOK
  <2>3. notes' \in [Runs -> Seq(Note)]
    BY <1>5, <2>0, NotedType DEF PutParked, ArcInv, TypeOK, LeafState
  <2>4. join' \in JoinTable
    <3>1. LeafRow(l, "parked") \in Row
      BY <1>5, <2>0 DEF PutParked, ArcInv, LeafInv, Working, LeafState, Outcome, Statuses, Row, LeafRow, UpdatedRow
    <3> QED
      BY <1>5, <2>0, <3>1, PutRowType DEF PutParked, ArcInv, TypeOK, LeafState
  <2> HIDE DEF f
  <2> QED
    BY <1>5, <2>1, <2>2, <2>3, <2>4, TypeLeafUpdate DEF PutParked, ArcInv, TypeOK
<1>6. CASE ReadRow(l)
  <2>0. leaf[l] \in LeafState
    BY <1>6 DEF ReadRow
  <2>1. join[leaf[l].run] \in Row
    BY <1>6, <2>0 DEF ReadRow, ArcInv, TypeOK, JoinTable, LeafState
  <2> DEFINE f == [leaf[l] EXCEPT !.pc = IF @ = "read" THEN "write" ELSE "catchWrite",
                                  !.row = join[leaf[l].run]]
  <2>2. f \in LeafState
    BY <2>0, <2>1 DEF LeafState, LeafPc
  <2>3. leaf' = [leaf EXCEPT ![l] = f]
    BY <1>6 DEF ReadRow, ArcInv, TypeOK
  <2> HIDE DEF f
  <2> QED
    BY <1>6, <2>2, <2>3, TypeLeafUpdate DEF ReadRow, ArcInv, TypeOK
<1>7. CASE WriteRow(l)
  <2>0. leaf[l] \in LeafState
    BY <1>7 DEF WriteRow
  <2> DEFINE f == [leaf[l] EXCEPT !.pc = "done"]
  <2>1. f \in LeafState
    BY <2>0 DEF LeafState, LeafPc
  <2>2. leaf' = [leaf EXCEPT ![l] = f]
    BY <1>7 DEF WriteRow, ArcInv, TypeOK
  <2>3. notes' \in [Runs -> Seq(Note)]
    BY <1>7, <2>0, NotedType DEF WriteRow, ArcInv, TypeOK, LeafState, LeafInv, Working, Outcome
  <2>4. join' \in JoinTable
    <3>1. UpdatedRow(l) \in Row
      BY <1>7, <2>0 DEF WriteRow, ArcInv, LeafInv, Working, LeafState, Outcome, Statuses, Row, LeafRow, UpdatedRow
    <3> QED
      BY <1>7, <2>0, <3>1, PutRowType DEF WriteRow, ArcInv, TypeOK, LeafState
  <2> HIDE DEF f
  <2> QED
    BY <1>7, <2>1, <2>2, <2>3, <2>4, TypeLeafUpdate DEF WriteRow, ArcInv, TypeOK
<1>8. CASE JoinThrows(l)
  <2>0. leaf[l] \in LeafState
    BY <1>8 DEF JoinThrows
  <2>1. PICK o \in Outcome \cup {NoOutcome}, pc \in LeafPc :
          leaf' = [leaf EXCEPT ![l].pc = pc, ![l].out = o]
    <3>1. CASE leaf[l].pc \in {"catchRead", "catchWrite"}
      <4>1. leaf' = [leaf EXCEPT ![l].pc = "done", ![l].out = leaf[l].out]
        BY <1>8, <3>1, <2>0 DEF JoinThrows, ArcInv, TypeOK, LeafState
      <4> QED
        BY <4>1, <2>0 DEF LeafState, LeafPc
    <3>2. CASE leaf[l].pc \notin {"catchRead", "catchWrite"}
      <4>1. Failed(leaf[l].session, "ENGAGE_FAILED") \in Outcome
        BY <2>0 DEF LeafState, Codes
      <4> QED
        BY <1>8, <3>2, <4>1 DEF JoinThrows, LeafPc
    <3> QED
      BY <3>1, <3>2
  <2> DEFINE f == [leaf[l] EXCEPT !.pc = pc, !.out = o]
  <2>2. f \in LeafState
    BY <2>0 DEF LeafState
  <2>3. leaf' = [leaf EXCEPT ![l] = f]
    BY <2>1 DEF ArcInv, TypeOK
  <2>4. notes' \in [Runs -> Seq(Note)]
    <3>1. LeafNoted(notes[leaf[l].run], leaf[l].step, "failed") \in Seq(Note)
      BY <2>0, NotedType DEF ArcInv, TypeOK, LeafState
    <3> QED
      BY <1>8, <3>1 DEF JoinThrows, ArcInv, TypeOK
  <2>5. faults' \in Nat
    BY <1>8 DEF JoinThrows, ArcInv, TypeOK
  <2> HIDE DEF f
  <2> QED
    BY <1>8, <2>2, <2>3, <2>4, <2>5, TypeLeafUpdate DEF JoinThrows, ArcInv, TypeOK
<1> QED
  BY <1>1, <1>2, <1>3, <1>4, <1>5, <1>6, <1>7, <1>8 DEF LeafStep

LEMMA ExecTypes ==
  ASSUME NEW e \in ExecState, NEW o \in Outcome, NEW n \in Nat
  PROVE  /\ [e EXCEPT !.pc = "step"] \in ExecState
         /\ [e EXCEPT !.pc = "step", !.leaf = NoLeaf] \in ExecState
         /\ [e EXCEPT !.pc = "return", !.out = o] \in ExecState
         /\ [e EXCEPT !.pc = "wait", !.loops = n] \in ExecState
BY DEF ExecState

LEMMA TypeBodyStep ==
  ASSUME ArcInv, NEW r \in Runs, BodyStep(r)
  PROVE  TypeOK'
<1> USE RecordTypes, ArcAssumption DEF ArcInv
<1>1. CASE \E l \in Leaves : StartLeaf(r, l)
  <2>1. PICK l \in Leaves : StartLeaf(r, l)
    BY <1>1
  <2>2. exec[r].loops + 1 \in Nat
    BY DEF TypeOK, ExecState
  <2> DEFINE f == [pc |-> "open", run |-> r, step |-> exec[r].loops + 1,
                   in |-> StepInput(r, exec[r].loops + 1),
                   session |-> NoSession, out |-> NoOutcome, row |-> NoRow]
  <2>3. f \in LeafState
    BY <2>1, <2>2, StepInputType DEF StartLeaf, LeafState, LeafPc, MaybeSession
  <2>4. leaf' = [leaf EXCEPT ![l] = f]
    BY <2>1 DEF StartLeaf
  <2>5. exec' \in [Runs -> ExecState]
    BY <2>1, ZenonT(60) DEF StartLeaf, TypeOK, ExecState
  <2> HIDE DEF f
  <2> QED
    BY <2>1, <2>3, <2>4, <2>5 DEF StartLeaf, TypeOK
<1>2. CASE SpawnError(r)
  BY <1>2 DEF SpawnError, TypeOK, RunStatus
<1>3. CASE RecordStep(r)
  <2> DEFINE l == exec[r].leaf
  <2>1. l \in Leaves /\ leaf[l] \in LeafState /\ leaf[l].pc \in {"done", "dead"}
    BY <1>3, LeafOfType DEF RecordStep, RunInv, AtLeaf
  <2>2. StepOutcome(l) \in Outcome
    BY <2>1 DEF StepOutcome, LeafInv, MaybeSession, Codes
  <2>3. memo' \in [Runs -> Seq(Outcome)]
    <3>1. memo' = memo \/ memo' = [memo EXCEPT ![r] = Append(@, StepOutcome(l))]
      BY <1>3 DEF RecordStep
    <3>2. Append(memo[r], StepOutcome(l)) \in Seq(Outcome)
      BY <2>2 DEF TypeOK
    <3> QED
      BY <3>1, <3>2 DEF TypeOK
  <2>4. exec' \in [Runs -> ExecState]
    <3>1. \/ exec' = [exec EXCEPT ![r].pc = "step", ![r].leaf = NoLeaf]
          \/ exec' = [exec EXCEPT ![r] = IdleExec]
      BY <1>3 DEF RecordStep
    <3>2. [exec[r] EXCEPT !.pc = "step", !.leaf = NoLeaf] \in ExecState
      BY ExecTypes, <2>2 DEF TypeOK
    <3>3. \/ exec' = [exec EXCEPT ![r] = [exec[r] EXCEPT !.pc = "step", !.leaf = NoLeaf]]
          \/ exec' = [exec EXCEPT ![r] = IdleExec]
      BY <3>1 DEF TypeOK
    <3> QED
      BY <3>2, <3>3 DEF TypeOK
  <2>5. leaf' \in [Leaves -> LeafState \cup {FreeLeaf}]
    BY <1>3 DEF RecordStep, TypeOK
  <2> QED
    BY <1>3, <2>3, <2>4, <2>5 DEF RecordStep, TypeOK
<1>4. CASE Resolve(r)
  <2> DEFINE n == exec[r].loops + 1
  <2>1. n \in Nat /\ n \in 1..Len(memo[r])
    BY <1>4 DEF Resolve, TypeOK, ExecState
  <2>2. memo[r][n] \in Outcome
    BY <2>1 DEF TypeOK
  <2>3. memo[r][n].kind \in {"settled", "parked", "failed"} /\ memo[r][n].session \in MaybeSession
    BY <2>2 DEF Outcome
  <2>4. notes' \in [Runs -> Seq(Note)]
    <3> DEFINE ns == ArcNoted(notes[r], n, memo[r][n].kind)
    <3>1. ns \in Seq(Note)
      BY <2>1, <2>3, NotedType DEF TypeOK
    <3>2. GaveUp(ns, n) \in Seq(Note)
      BY <2>1, <3>1, NotedType
    <3>3. notes' = [notes EXCEPT ![r] = ns] \/ notes' = [notes EXCEPT ![r] = GaveUp(ns, n)]
      BY <1>4 DEF Resolve
    <3> HIDE DEF ns
    <3> QED
      BY <3>1, <3>2, <3>3 DEF TypeOK
  <2>5. exec' \in [Runs -> ExecState]
    <3>1. Failed(memo[r][n].session, "PARK_LOOP_EXCEEDED") \in Outcome
      BY <2>3 DEF Codes
    <3>2. \/ exec' = [exec EXCEPT ![r].pc = "return", ![r].out = memo[r][n]]
          \/ exec' = [exec EXCEPT ![r].pc = "return",
                        ![r].out = Failed(memo[r][n].session, "PARK_LOOP_EXCEEDED")]
          \/ exec' = [exec EXCEPT ![r].pc = "wait", ![r].loops = n]
      BY <1>4 DEF Resolve
    <3>3. PICK e \in ExecState : exec' = [exec EXCEPT ![r] = e]
      <4> DEFINE o == Failed(memo[r][n].session, "PARK_LOOP_EXCEEDED")
                 e1 == [exec[r] EXCEPT !.pc = "return", !.out = memo[r][n]]
                 e2 == [exec[r] EXCEPT !.pc = "return", !.out = o]
                 e3 == [exec[r] EXCEPT !.pc = "wait", !.loops = n]
      <4>1. e1 \in ExecState /\ e2 \in ExecState /\ e3 \in ExecState
        BY <2>1, <2>2, <3>1, ExecTypes DEF TypeOK
      <4>2. \/ exec' = [exec EXCEPT ![r] = e1]
            \/ exec' = [exec EXCEPT ![r] = e2]
            \/ exec' = [exec EXCEPT ![r] = e3]
        BY <3>2 DEF TypeOK
      <4> HIDE DEF e1, e2, e3
      <4> QED
        BY <4>1, <4>2
    <3> QED
      BY <3>3 DEF TypeOK
  <2> QED
    BY <1>4, <2>4, <2>5 DEF Resolve, TypeOK
<1>5. CASE Park(r)
  BY <1>5 DEF Park, TypeOK, Accepted
<1>6. CASE Resume(r)
  <2> DEFINE n == exec[r].loops
  <2>1. n \in Nat /\ n \in 1..Len(memo[r])
    BY <1>6 DEF Resume, RunInv, AtWait, TypeOK, ExecState
  <2>2. memo[r][n].session \in MaybeSession
    <3>1. memo[r][n] \in Outcome
      BY <2>1 DEF TypeOK
    <3> QED
      BY <3>1 DEF Outcome
  <2>3. notes' \in [Runs -> Seq(Note)]
    <3>1. GaveUp(notes[r], n) \in Seq(Note)
      BY <2>1, NotedType DEF TypeOK
    <3>2. notes' = notes \/ notes' = [notes EXCEPT ![r] = GaveUp(notes[r], n)]
      BY <1>6 DEF Resume
    <3> QED
      BY <3>1, <3>2 DEF TypeOK
  <2>4. exec' \in [Runs -> ExecState]
    <3>1. Failed(memo[r][n].session, "PARK_WAKE_TIMEOUT") \in Outcome
      BY <2>2 DEF Codes
    <3>2. \/ exec' = [exec EXCEPT ![r].pc = "step"]
          \/ exec' = [exec EXCEPT ![r].pc = "return",
                        ![r].out = Failed(memo[r][n].session, "PARK_WAKE_TIMEOUT")]
      BY <1>6 DEF Resume
    <3>3. PICK e \in ExecState : exec' = [exec EXCEPT ![r] = e]
      <4> DEFINE o == Failed(memo[r][n].session, "PARK_WAKE_TIMEOUT")
                 e1 == [exec[r] EXCEPT !.pc = "step"]
                 e2 == [exec[r] EXCEPT !.pc = "return", !.out = o]
      <4>1. e1 \in ExecState /\ e2 \in ExecState
        BY <3>1, ExecTypes DEF TypeOK
      <4>2. exec' = [exec EXCEPT ![r] = e1] \/ exec' = [exec EXCEPT ![r] = e2]
        BY <3>2 DEF TypeOK
      <4> HIDE DEF e1, e2
      <4> QED
        BY <4>1, <4>2
    <3> QED
      BY <3>3 DEF TypeOK
  <2> QED
    BY <1>6, <2>3, <2>4 DEF Resume, TypeOK
<1>7. CASE Complete(r)
  BY <1>7, ZenonT(60) DEF Complete, TypeOK, ExecState, RunStatus
<1> QED
  BY <1>1, <1>2, <1>3, <1>4, <1>5, <1>6, <1>7 DEF BodyStep

LEMMA TypeStep ==
  ASSUME ArcInv, [Next]_vars
  PROVE  TypeOK'
<1> USE RecordTypes, ArcAssumption DEF ArcInv
<1>1. ASSUME NEW r \in Runs, NEW in \in EngagementInput, Dispatch(r, in)
      PROVE  TypeOK'
  BY <1>1 DEF Dispatch, TypeOK, RunStatus
<1>2. ASSUME NEW r \in Runs, NEW d \in Wakes, Deliver(r, d)
      PROVE  TypeOK'
  BY <1>2 DEF Deliver, TypeOK
<1>3. ASSUME NEW r \in Runs, Cancel(r)
      PROVE  TypeOK'
  BY <1>3 DEF Cancel, TypeOK, RunStatus
<1>4. ASSUME NEW r \in Runs, Claim(r)
      PROVE  TypeOK'
  BY <1>4 DEF Claim, TypeOK, RunStatus, ExecState
<1>5. CASE WorkerCrash
  BY <1>5 DEF WorkerCrash, TypeOK
<1>6. ASSUME NEW l \in Leaves, ChildCrash(l)
      PROVE  TypeOK'
  <2>1. leaf[l] \in LeafState
    BY <1>6, LeafOfType DEF ChildCrash
  <2>2. [leaf[l] EXCEPT !.pc = "dead"] \in LeafState
    BY <2>1 DEF LeafState, LeafPc
  <2>3. leaf' \in [Leaves -> LeafState \cup {FreeLeaf}]
    BY <1>6, <2>2 DEF ChildCrash, TypeOK
  <2> QED
    BY <1>6, <2>3 DEF ChildCrash, TypeOK
<1>7. ASSUME NEW l \in Leaves, Reap(l)
      PROVE  TypeOK'
  BY <1>7 DEF Reap, TypeOK
<1>8. CASE UNCHANGED vars
  BY <1>8 DEF vars, TypeOK
<1>9. \A i \in BOOLEAN : [kind |-> "wake", parkIntent |-> i] \in Wakes
  BY DEF Wakes
<1>10. [kind |-> "timeout", parkIntent |-> FALSE] \in Wakes
  BY DEF Wakes
<1> QED
  BY <1>1, <1>2, <1>3, <1>4, <1>5, <1>6, <1>7, <1>8, <1>9, <1>10,
     TypeBodyStep, TypeLeafStep DEF Next, Wake, WaitTimeout

-----------------------------------------------------------------------------
(* Leaves.                                                                  *)

LEMMA LeafInvUnchanged ==
  ASSUME NEW k \in Leaves, LeafInv(k), leaf'[k] = leaf[k]
  PROVE  LeafInv(k)'
BY DEF LeafInv, Working

(* A step of leaf l keeps its own invariant.                                *)
LEMMA LeafInvOwnStep ==
  ASSUME ArcInv, NEW l \in Leaves, LeafStep(l)
  PROVE  LeafInv(l)'
<1>0. leaf[l] \in LeafState /\ leaf[l].pc # "free" /\ LeafInv(l) /\ leaf \in [Leaves -> LeafState \cup {FreeLeaf}]
  <2>1. leaf[l].pc # "free"
    BY DEF LeafStep, OpenFails, Open, PutEngaging, Engage, PutParked, ReadRow,
           WriteRow, JoinThrows
  <2> QED
    BY <2>1, LeafOfType DEF ArcInv, TypeOK
<1> USE <1>0 DEF LeafInv, Working
<1>1. CASE OpenFails(l)
  <2>1. Failed(NoSession, "OPEN_FAILED") \in Outcome
    BY RecordTypes DEF MaybeSession, Codes
  <2>2. /\ leaf'[l].pc = "done" /\ leaf'[l].out = Failed(NoSession, "OPEN_FAILED")
        /\ leaf'[l].session = leaf[l].session /\ leaf'[l].in = leaf[l].in
    BY <1>1 DEF OpenFails, LeafState
  <2> QED
    BY <2>1, <2>2 DEF Failed
<1>2. CASE Open(l)
  <2>1. PICK s \in Sessions :
          /\ (leaf[l].in.resume # NoSession /\ SessionsSurvive) => s = leaf[l].in.resume
          /\ leaf' = [leaf EXCEPT ![l].pc = "put", ![l].session = s]
    BY <1>2 DEF Open
  <2>2. leaf[l].out \notin Outcome
    BY <1>2, RecordTypes DEF Open
  <2> QED
    BY <2>1, <2>2, <1>2 DEF Open, LeafState
<1>3. CASE PutEngaging(l)
  BY <1>3 DEF PutEngaging, LeafState
<1>4. CASE Engage(l)
  BY <1>4, NoSessionAssumption DEF Engage, LeafState, Failed, Outcome, MaybeSession, Codes
<1>5. CASE PutParked(l)
  BY <1>5 DEF PutParked, LeafState
<1>6. CASE ReadRow(l)
  BY <1>6 DEF ReadRow, LeafState, ArcInv, TypeOK, JoinTable
<1>7. CASE WriteRow(l)
  BY <1>7 DEF WriteRow, LeafState
<1>8. CASE JoinThrows(l)
  <2> DEFINE o == Failed(leaf[l].session, "ENGAGE_FAILED")
  <2>1. leaf[l].session \in MaybeSession /\ o \in Outcome
    BY RecordTypes DEF LeafState, Codes
  <2>2. o.kind = "failed" /\ o.code = "ENGAGE_FAILED" /\ o.session = leaf[l].session
    BY DEF Failed
  <2>3. /\ leaf'[l].session = leaf[l].session /\ leaf'[l].in = leaf[l].in
        /\ \/ leaf'[l].pc = "done" /\ leaf'[l].out = leaf[l].out
              /\ leaf[l].pc \in {"catchRead", "catchWrite"}
           \/ /\ leaf'[l].pc = "catchRead" /\ leaf'[l].out = o
              /\ leaf[l].pc \in {"put", "park", "read", "write"}
    BY <1>8 DEF JoinThrows, LeafState
  <2> HIDE DEF o
  <2> QED
    BY <2>1, <2>2, <2>3
<1> QED
  BY <1>1, <1>2, <1>3, <1>4, <1>5, <1>6, <1>7, <1>8 DEF LeafStep

LEMMA LeafInvStep ==
  ASSUME ArcInv, [Next]_vars, NEW k \in Leaves
  PROVE  LeafInv(k)'
<1> USE RecordTypes DEF ArcInv, TypeOK
<1>0. leaf'[k].pc = "free" => LeafInv(k)'
  BY DEF LeafInv
<1>1. ASSUME NEW l \in Leaves, LeafStep(l)
      PROVE  LeafInv(k)'
  <2>1. CASE k = l
    BY <2>1, <1>1, LeafInvOwnStep
  <2>2. CASE k # l
    <3>1. leaf'[k] = leaf[k]
      BY <2>2, <1>1 DEF LeafStep, OpenFails, Open, PutEngaging, Engage, PutParked,
                        ReadRow, WriteRow, JoinThrows
    <3> QED
      BY <3>1, LeafInvUnchanged
  <2> QED
    BY <2>1, <2>2
<1>2. ASSUME NEW r \in Runs, NEW l \in Leaves, StartLeaf(r, l)
      PROVE  LeafInv(k)'
  <2>1. CASE k = l
    <3>1. leaf'[l] = [pc |-> "open", run |-> r, step |-> exec[r].loops + 1,
                      in |-> StepInput(r, exec[r].loops + 1),
                      session |-> NoSession, out |-> NoOutcome, row |-> NoRow]
      BY <1>2 DEF StartLeaf
    <3> QED
      BY <2>1, <3>1 DEF LeafInv, Working
  <2>2. CASE k # l
    BY <2>2, <1>2, LeafInvUnchanged DEF StartLeaf
  <2> QED
    BY <2>1, <2>2
<1>3. ASSUME NEW r \in Runs, RecordStep(r)
      PROVE  LeafInv(k)'
  <2>1. leaf'[k] = leaf[k] \/ leaf'[k] = FreeLeaf
    BY <1>3 DEF RecordStep
  <2> QED
    BY <2>1, <1>0, LeafInvUnchanged DEF FreeLeaf
<1>4. CASE WorkerCrash
  <2>1. leaf'[k] = leaf[k] \/ leaf'[k] = FreeLeaf
    BY <1>4 DEF WorkerCrash
  <2> QED
    BY <2>1, <1>0, LeafInvUnchanged DEF FreeLeaf
<1>5. ASSUME NEW l \in Leaves, ChildCrash(l)
      PROVE  LeafInv(k)'
  <2>1. CASE k = l
    <3>1. leaf[l] \in LeafState /\ LeafInv(l) /\ leaf[l].pc # "free"
      BY <1>5, LeafOfType DEF ChildCrash
    <3>2. leaf'[l] = [leaf[l] EXCEPT !.pc = "dead"]
      BY <1>5 DEF ChildCrash
    <3> QED
      BY <2>1, <3>1, <3>2 DEF LeafInv, Working, LeafState
  <2>2. CASE k # l
    BY <2>2, <1>5, LeafInvUnchanged DEF ChildCrash
  <2> QED
    BY <2>1, <2>2
<1>6. ASSUME NEW l \in Leaves, Reap(l)
      PROVE  LeafInv(k)'
  <2>1. leaf'[k] = leaf[k] \/ leaf'[k] = FreeLeaf
    BY <1>6 DEF Reap
  <2> QED
    BY <2>1, <1>0, LeafInvUnchanged DEF FreeLeaf
<1>7. CASE leaf' = leaf
  BY <1>7, LeafInvUnchanged
<1>8. ASSUME NEW r \in Runs, BodyStep(r)
      PROVE  LeafInv(k)'
  BY <1>8, <1>2, <1>3, <1>7 DEF BodyStep, SpawnError, Resolve, Park, Resume, Complete
<1> QED
  BY <1>1, <1>4, <1>5, <1>6, <1>7, <1>8
  DEF Next, Dispatch, Wake, WaitTimeout, Deliver, Cancel, Claim, vars

-----------------------------------------------------------------------------
(* Runs.                                                                    *)

SameRun(q) ==
  /\ run'[q] = run[q] /\ memo'[q] = memo[q] /\ wakes'[q] = wakes[q]
  /\ waiting'[q] = waiting[q] /\ output'[q] = output[q] /\ exec'[q] = exec[q]

SameLeaf(l) ==
  /\ leaf'[l].pc # "free" /\ leaf'[l].run = leaf[l].run /\ leaf'[l].in = leaf[l].in

(* A step that leaves run q and the leaf it waits for alone.                *)
LEMMA RunFrame ==
  ASSUME NEW q \in Runs, RunInv(q), SameRun(q),
         exec[q].pc = "leaf" => SameLeaf(exec[q].leaf)
  PROVE  RunInv(q)'
<1> USE DEF RunInv, SameRun
<1>1. History(q)' /\ WaitInv(q)' /\ EndedInv(q)'
  BY DEF History, WaitInv, EndedInv, Result
<1>2. AtStep(q)' /\ AtWait(q)' /\ AtReturn(q)'
  BY DEF AtStep, AtWait, AtReturn, Result
<1>3. AtLeaf(q)'
  BY DEF AtLeaf, SameLeaf
<1> QED
  BY <1>1, <1>2, <1>3

LEMMA RunInvLeafStep ==
  ASSUME ArcInv, NEW l \in Leaves, LeafStep(l) \/ ChildCrash(l) \/ Reap(l),
         NEW q \in Runs
  PROVE  RunInv(q)'
<1>1. SameRun(q)
  BY DEF SameRun, LeafStep, OpenFails, Open, PutEngaging, Engage, PutParked, ReadRow,
         WriteRow, JoinThrows, ChildCrash, Reap, leafOnlyUnchanged
<1>2. ASSUME exec[q].pc = "leaf"
      PROVE  SameLeaf(exec[q].leaf)
  <2> DEFINE k == exec[q].leaf
  <2>1. k \in Leaves /\ leaf[k].pc # "free"
    BY <1>2 DEF ArcInv, RunInv, AtLeaf
  <2>2. leaf[k] \in LeafState
    BY <2>1, LeafOfType
  <2>3. CASE k = l /\ LeafStep(l)
    <3>1. leaf[l].pc # "free" /\ leaf[l] \in LeafState /\ leaf \in [Leaves -> LeafState \cup {FreeLeaf}]
      BY <2>1, <2>2, <2>3 DEF ArcInv, TypeOK
    <3>2. CASE OpenFails(l)
      BY <2>3, <3>1, <3>2 DEF OpenFails, SameLeaf, LeafState
    <3>3. CASE Open(l)
      BY <2>3, <3>1, <3>3 DEF Open, SameLeaf, LeafState
    <3>4. CASE PutEngaging(l)
      BY <2>3, <3>1, <3>4 DEF PutEngaging, SameLeaf, LeafState
    <3>5. CASE Engage(l)
      BY <2>3, <3>1, <3>5 DEF Engage, SameLeaf, LeafState
    <3>6. CASE PutParked(l)
      BY <2>3, <3>1, <3>6 DEF PutParked, SameLeaf, LeafState
    <3>7. CASE ReadRow(l)
      BY <2>3, <3>1, <3>7 DEF ReadRow, SameLeaf, LeafState
    <3>8. CASE WriteRow(l)
      BY <2>3, <3>1, <3>8 DEF WriteRow, SameLeaf, LeafState
    <3>9. CASE JoinThrows(l)
      BY <2>3, <3>1, <3>9 DEF JoinThrows, SameLeaf, LeafState
    <3> QED
      BY <2>3, <3>2, <3>3, <3>4, <3>5, <3>6, <3>7, <3>8, <3>9 DEF LeafStep
  <2>4. CASE k = l /\ ChildCrash(l)
    <3>1. leaf'[l] = [leaf[l] EXCEPT !.pc = "dead"]
      BY <2>4 DEF ChildCrash, ArcInv, TypeOK
    <3> QED
      BY <2>2, <2>4, <3>1 DEF SameLeaf, LeafState
  <2>5. CASE k # l
    <3>1. leaf'[k] = leaf[k]
      BY <2>1, <2>5 DEF LeafStep, OpenFails, Open, PutEngaging, Engage, PutParked,
         ReadRow, WriteRow, JoinThrows, ChildCrash, Reap, ArcInv, TypeOK
    <3> QED
      BY <2>1, <3>1 DEF SameLeaf
  <2>6. CASE k = l /\ Reap(l)
    BY <2>6 DEF Reap
  <2> QED
    BY <2>3, <2>4, <2>5, <2>6
<1> QED
  BY <1>1, <1>2, RunFrame DEF ArcInv

(* A step of run r concerns no other run: leaves are not shared.            *)
LEMMA RunInvOther ==
  ASSUME ArcInv, NEW r \in Runs, BodyStep(r), NEW q \in Runs, q # r
  PROVE  RunInv(q)'
<1>1. SameRun(q)
  BY DEF SameRun, BodyStep, StartLeaf, SpawnError, RecordStep, Resolve, Park, Resume,
         Complete, ArcInv, TypeOK
<1>2. ASSUME exec[q].pc = "leaf"
      PROVE  SameLeaf(exec[q].leaf)
  <2> DEFINE k == exec[q].leaf
  <2>1. k \in Leaves /\ leaf[k].pc # "free" /\ leaf[k].run = q
    BY <1>2 DEF ArcInv, RunInv, AtLeaf
  <2>2. leaf'[k] = leaf[k]
    <3>1. CASE \E l \in Leaves : StartLeaf(r, l)
      BY <2>1, <3>1 DEF StartLeaf, ArcInv, TypeOK
    <3>2. CASE RecordStep(r)
      <4>1. exec[r].leaf # k
        BY <2>1, <3>2 DEF RecordStep, ArcInv, RunInv, AtLeaf
      <4> QED
        BY <2>1, <3>2, <4>1 DEF RecordStep, ArcInv, TypeOK
    <3>3. CASE leaf' = leaf
      BY <3>3
    <3> QED
      BY <3>1, <3>2, <3>3 DEF BodyStep, SpawnError, Resolve, Park, Resume, Complete
  <2> QED
    BY <2>1, <2>2 DEF SameLeaf
<1> QED
  BY <1>1, <1>2, RunFrame DEF ArcInv

LEMMA RunTypes ==
  ASSUME ArcInv, NEW r \in Runs
  PROVE  /\ RunInv(r)
         /\ memo[r] \in Seq(Outcome) /\ wakes[r] \in Seq(Wakes)
         /\ exec[r] \in ExecState /\ exec[r].loops \in Nat
         /\ exec \in [Runs -> ExecState] /\ leaf \in [Leaves -> LeafState \cup {FreeLeaf}]
         /\ run \in [Runs -> RunStatus] /\ waiting \in [Runs -> BOOLEAN]
         /\ output \in [Runs -> Outcome \cup {NoOutcome}]
         /\ memo \in [Runs -> Seq(Outcome)] /\ wakes \in [Runs -> Seq(Wakes)]
         /\ MaxParkLoops \in Nat
BY ArcAssumption DEF ArcInv, TypeOK, ExecState

(* A step of the body that only moves its program counter.                  *)
LEMMA RunInvMove ==
  ASSUME NEW r \in Runs, RunInv(r), exec[r].pc # "idle",
         run' = run, memo' = memo, wakes' = wakes, waiting' = waiting, output' = output,
         AtStep(r)', AtLeaf(r)', AtWait(r)', AtReturn(r)'
  PROVE  RunInv(r)'
<1>1. ~waiting[r]
  BY DEF RunInv, WaitInv
<1> QED
  BY <1>1 DEF RunInv, History, WaitInv, EndedInv, Result

(* An execution leaves memory, and the history stays as it was.             *)
LEMMA RunInvIdle ==
  ASSUME NEW r \in Runs, RunInv(r), exec'[r].pc = "idle",
         memo' = memo, wakes' = wakes,
         WaitInv(r)', EndedInv(r)'
  PROVE  RunInv(r)'
<1>1. History(r)'
  BY DEF RunInv, History
<1>2. AtStep(r)' /\ AtLeaf(r)' /\ AtWait(r)' /\ AtReturn(r)'
  BY DEF AtStep, AtLeaf, AtWait, AtReturn
<1> QED
  BY <1>1, <1>2 DEF RunInv

LEMMA RunInvStartLeaf ==
  ASSUME ArcInv, NEW r \in Runs, NEW l \in Leaves, StartLeaf(r, l)
  PROVE  RunInv(r)'
<1> USE RunTypes
<1>1. /\ exec'[r].pc = "leaf" /\ exec'[r].leaf = l /\ exec'[r].loops = exec[r].loops
      /\ leaf'[l].pc = "open" /\ leaf'[l].run = r
      /\ leaf'[l].in = StepInput(r, exec[r].loops + 1)
  BY DEF StartLeaf, ExecState
<1>2. AtStep(r) /\ Len(memo[r]) < exec[r].loops + 1 /\ exec[r].pc = "step"
  BY DEF StartLeaf, RunInv
<1>3. Len(memo[r]) = exec[r].loops
  BY <1>2 DEF AtStep
<1>4. exec[r].loops > 0 => leaf'[l].in.resume = memo[r][exec[r].loops].session
  BY <1>1 DEF StepInput
<1>5. memo' = memo /\ wakes' = wakes /\ run' = run /\ waiting' = waiting /\ output' = output
  BY DEF StartLeaf
<1>6. AtStep(r)'
  BY <1>1, <1>2, <1>5 DEF AtStep
<1>7. AtLeaf(r)'
  BY <1>1, <1>3, <1>4, <1>5 DEF AtLeaf
<1>8. AtWait(r)' /\ AtReturn(r)'
  BY <1>1 DEF AtWait, AtReturn
<1> QED
  BY <1>2, <1>5, <1>6, <1>7, <1>8, RunInvMove

LEMMA RunInvSpawnError ==
  ASSUME ArcInv, NEW r \in Runs, SpawnError(r)
  PROVE  RunInv(r)'
<1>1. exec'[r].pc = "idle" /\ ~waiting[r]
  BY RunTypes DEF SpawnError, IdleExec, RunInv, WaitInv
<1>2. run'[r] # "completed" \/ run'[r] = run[r]
  BY RunTypes DEF SpawnError
<1>3. memo' = memo /\ wakes' = wakes /\ waiting' = waiting /\ output' = output
  BY DEF SpawnError
<1>4. WaitInv(r)' /\ EndedInv(r)'
  BY <1>1, <1>2, <1>3, RunTypes DEF WaitInv, RunInv, EndedInv, Result
<1> QED
  BY <1>1, <1>3, <1>4, RunTypes, RunInvIdle

(* A recorded result extends the history by one step.                       *)
LEMMA RunInvRecordStep ==
  ASSUME ArcInv, NEW r \in Runs, RecordStep(r)
  PROVE  RunInv(r)'
<1> USE RunTypes
<1> DEFINE l == exec[r].leaf
           o == StepOutcome(l)
           k == exec[r].loops
<1>1. /\ exec[r].pc = "leaf" /\ l \in Leaves /\ leaf[l] \in LeafState /\ LeafInv(l)
      /\ leaf[l].pc \in {"done", "dead"} /\ Len(memo[r]) = k
      /\ k > 0 => leaf[l].in.resume = memo[r][k].session
      /\ k <= MaxParkLoops /\ k <= Len(wakes[r])
      /\ k > 0 => memo[r][k].kind = "parked" /\ wakes[r][k].kind = "wake"
  BY LeafOfType DEF RecordStep, RunInv, AtLeaf, AtStep, ArcInv
<1>2. ~waiting[r]
  BY <1>1 DEF RunInv, WaitInv
<1>3. wakes' = wakes /\ waiting' = waiting /\ output' = output /\ run' = run
  BY DEF RecordStep
<1>4. CASE ~Accepted(r)
  <2>1. exec'[r].pc = "idle" /\ memo' = memo
    BY <1>4 DEF RecordStep, IdleExec
  <2>2. WaitInv(r)' /\ EndedInv(r)'
    BY <1>2, <1>3, <2>1 DEF RunInv, WaitInv, EndedInv, Result
  <2> QED
    BY <1>3, <2>1, <2>2, RunInvIdle
<1>5. CASE Accepted(r)
  <2>1. memo'[r] = Append(memo[r], o)
    BY <1>5 DEF RecordStep
  <2>2. exec'[r].pc = "step" /\ exec'[r].loops = k
    <3>1. exec' = [exec EXCEPT ![r].pc = "step", ![r].leaf = NoLeaf]
      BY <1>5 DEF RecordStep
    <3> QED
      BY <3>1 DEF ExecState
  <2>3. o \in Outcome
    <3>1. leaf[l].pc = "done" => leaf[l].out \in Outcome
      BY <1>1 DEF LeafInv
    <3> QED
      BY <1>1, <3>1, RecordTypes DEF StepOutcome, MaybeSession, Codes
  <2>4. Recorded(o)
    BY <1>1 DEF Recorded, StepOutcome, LeafInv, Failed
  <2>5. ASSUME SessionsSurvive, k > 0
        PROVE  o.session \in {memo[r][k].session, NoSession}
    <3>1. memo[r][k].session # NoSession
      BY <1>1, <2>5, NoSessionAssumption DEF RunInv, History, Recorded
    <3>2. leaf[l].session \in {memo[r][k].session, NoSession}
      BY <1>1, <2>5, <3>1 DEF LeafInv
    <3>3. o.session \in {leaf[l].session, NoSession}
      BY <1>1 DEF LeafInv, StepOutcome, Failed
    <3> QED
      BY <3>2, <3>3
  <2> HIDE DEF o, k
  <2>6. k \in Nat /\ Len(memo'[r]) = k + 1 /\ memo'[r][k + 1] = o
    BY <1>1, <2>1, <2>3 DEF k
  <2>7. \A n \in 1..k : memo'[r][n] = memo[r][n]
    BY <1>1, <2>1, <2>3, <2>6
  <2>8. History(r)'
    <3>1. /\ Len(wakes[r]) <= k + 1 /\ k + 1 <= Len(wakes[r]) + 1
          /\ Len(wakes[r]) <= MaxParkLoops /\ k + 1 <= MaxParkLoops + 1
      BY <1>1, <2>6 DEF RunInv, History
    <3>2. \A n \in 1..(k + 1) : Recorded(memo'[r][n])
      BY <1>1, <2>4, <2>6, <2>7 DEF RunInv, History
    <3>3. \A n \in 1..k :
            /\ memo'[r][n].kind = "parked"
            /\ wakes[r][n].kind = "wake"
            /\ SessionsSurvive => memo'[r][n + 1].session \in {memo'[r][n].session, NoSession}
      <4>1. ASSUME NEW n \in 1..k, n # k
            PROVE  /\ memo'[r][n].kind = "parked"
                   /\ wakes[r][n].kind = "wake"
                   /\ SessionsSurvive =>
                        memo'[r][n + 1].session \in {memo'[r][n].session, NoSession}
        <5>1. n \in 1..(Len(memo[r]) - 1) /\ n + 1 \in 1..k
          BY <1>1, <2>6, <4>1 DEF k
        <5>2. memo'[r][n] = memo[r][n] /\ memo'[r][n + 1] = memo[r][n + 1]
          BY <2>7, <5>1
        <5> QED
          BY <5>1, <5>2 DEF RunInv, History
      <4>2. k > 0 => /\ memo'[r][k].kind = "parked"
                     /\ wakes[r][k].kind = "wake"
                     /\ SessionsSurvive =>
                          memo'[r][k + 1].session \in {memo'[r][k].session, NoSession}
        BY <1>1, <2>5, <2>6, <2>7 DEF k
      <4> QED
        BY <2>6, <4>1, <4>2, SMTT(60)
    <3> QED
      BY <1>3, <2>6, <3>1, <3>2, <3>3 DEF History, Recorded
  <2>9. AtStep(r)'
    BY <1>1, <1>3, <2>2, <2>6, <2>7, SMTT(60) DEF AtStep, k
  <2>10. /\ WaitInv(r)' /\ EndedInv(r)' /\ AtLeaf(r)' /\ AtWait(r)' /\ AtReturn(r)'
    BY <1>2, <1>3, <1>5, <2>2 DEF WaitInv, EndedInv, AtLeaf, AtWait, AtReturn, Accepted
  <2> QED
    BY <2>8, <2>9, <2>10 DEF RunInv
<1> QED
  BY <1>4, <1>5

(* All recorded steps but the last parked, so a step that did not park is   *)
(* the last, and what it says of sessions holds of the first step too.      *)
LEMMA LastStep ==
  ASSUME ArcInv, NEW r \in Runs, NEW n \in 1..Len(memo[r])
  PROVE  /\ memo[r][n] \in Outcome /\ Recorded(memo[r][n])
         /\ memo[r][n].kind # "parked" => n = Len(memo[r])
         /\ memo[r][n].kind # "failed" => memo[r][1].session \in Sessions
<1> USE RunTypes
<1>1. memo[r][n] \in Outcome /\ Recorded(memo[r][n])
  BY DEF RunInv, History
<1>2. n \in 1..(Len(memo[r]) - 1) => memo[r][n].kind = "parked"
  BY DEF RunInv, History
<1>3. 1 \in 1..Len(memo[r]) /\ Recorded(memo[r][1])
  BY DEF RunInv, History
<1>4. memo[r][n].kind # "failed" => memo[r][1].kind # "failed"
  <2>1. CASE n = 1
    BY <2>1
  <2>2. CASE n # 1
    <3>1. 1 \in 1..(Len(memo[r]) - 1)
      BY <2>2
    <3> QED
      BY <3>1 DEF RunInv, History
  <2> QED
    BY <2>1, <2>2
<1> QED
  BY <1>1, <1>2, <1>3, <1>4 DEF Recorded

LEMMA RunInvResolve ==
  ASSUME ArcInv, NEW r \in Runs, Resolve(r)
  PROVE  RunInv(r)'
<1> USE RunTypes
<1> DEFINE n == exec[r].loops + 1
           o == memo[r][n]
<1>1. /\ exec[r].pc = "step" /\ n \in 1..Len(memo[r])
      /\ n <= MaxParkLoops + 1 /\ n <= Len(wakes[r]) + 1
  <2>1. AtStep(r) /\ exec[r].loops \in Nat
    BY DEF RunInv
  <2>2. exec[r].pc = "step" /\ n \in 1..Len(memo[r])
    BY <2>1 DEF Resolve
  <2> QED
    BY <2>1, <2>2 DEF AtStep
<1>2. memo' = memo /\ wakes' = wakes /\ run' = run /\ waiting' = waiting /\ output' = output
  BY DEF Resolve
<1>3. CASE o.kind # "parked"
  <2>1. exec'[r].pc = "return" /\ exec'[r].out = o
    <3>1. exec' = [exec EXCEPT ![r].pc = "return", ![r].out = o]
      BY <1>3 DEF Resolve
    <3> QED
      BY <3>1 DEF ExecState
  <2>2. Result(r, o)
    <3>1. /\ o \in Outcome /\ o.code # "PARK_LOOP_EXCEEDED" /\ n = Len(memo[r])
          /\ o.kind # "failed" => memo[r][1].session \in Sessions
      BY <1>1, <1>3, LastStep DEF Recorded
    <3>2. memo[r] # <<>>
      BY <1>1
    <3> HIDE DEF n
    <3> QED
      BY <1>3, <3>1, <3>2 DEF Result
  <2>3. AtReturn(r)' /\ AtStep(r)' /\ AtLeaf(r)' /\ AtWait(r)'
    BY <1>2, <2>1, <2>2 DEF AtReturn, AtStep, AtLeaf, AtWait, Result
  <2> QED
    BY <1>1, <1>2, <2>3, RunInvMove
<1>4. CASE o.kind = "parked" /\ OverCap(n)
  <2>1. exec'[r].pc = "return" /\ exec'[r].out = Failed(o.session, "PARK_LOOP_EXCEEDED")
    <3>1. exec' = [exec EXCEPT ![r].pc = "return",
                               ![r].out = Failed(o.session, "PARK_LOOP_EXCEEDED")]
      BY <1>4 DEF Resolve
    <3> QED
      BY <3>1 DEF ExecState
  <2>2. Len(memo[r]) = MaxParkLoops + 1 /\ n = MaxParkLoops + 1
    BY <1>1, <1>4 DEF OverCap, RunInv, History
  <2>3. o.session \in MaybeSession
    BY <1>1, LastStep DEF Outcome
  <2>4. Failed(o.session, "PARK_LOOP_EXCEEDED") \in Outcome
    BY <2>3, RecordTypes DEF Codes
  <2>5. Result(r, exec'[r].out)
    BY <1>4, <2>1, <2>2, <2>4 DEF Result, Failed
  <2>6. AtReturn(r)' /\ AtStep(r)' /\ AtLeaf(r)' /\ AtWait(r)'
    BY <1>2, <2>1, <2>5 DEF AtReturn, AtStep, AtLeaf, AtWait, Result
  <2> QED
    BY <1>1, <1>2, <2>6, RunInvMove
<1>5. CASE o.kind = "parked" /\ ~OverCap(n)
  <2>1. exec'[r].pc = "wait" /\ exec'[r].loops = n
    <3>1. exec' = [exec EXCEPT ![r].pc = "wait", ![r].loops = n]
      BY <1>5 DEF Resolve
    <3> QED
      BY <3>1 DEF ExecState
  <2>2. AtWait(r)'
    BY <1>1, <1>2, <1>5, <2>1 DEF AtWait, OverCap
  <2>3. AtReturn(r)' /\ AtStep(r)' /\ AtLeaf(r)'
    BY <2>1 DEF AtReturn, AtStep, AtLeaf
  <2> QED
    BY <1>1, <1>2, <2>2, <2>3, RunInvMove
<1> QED
  BY <1>3, <1>4, <1>5

(* The body goes to sleep on the last recorded step.                        *)
LEMMA RunInvPark ==
  ASSUME ArcInv, NEW r \in Runs, Park(r)
  PROVE  RunInv(r)'
<1> USE RunTypes
<1> DEFINE n == exec[r].loops
<1>1. /\ exec[r].pc = "wait" /\ n \in 1..Len(memo[r]) /\ n <= MaxParkLoops
      /\ memo[r][n].kind = "parked" /\ Len(wakes[r]) < n /\ n <= Len(wakes[r]) + 1
  BY DEF Park, Delivered, RunInv, AtWait
<1>2. Len(memo[r]) = n /\ Len(wakes[r]) + 1 = n
  BY <1>1 DEF RunInv, History
<1>3. /\ memo' = memo /\ wakes' = wakes /\ run' = run /\ output' = output
      /\ exec'[r].pc = "idle" /\ waiting'[r] = Accepted(r)
  BY DEF Park, IdleExec
<1>4. WaitInv(r)' /\ EndedInv(r)'
  BY <1>1, <1>2, <1>3 DEF WaitInv, EndedInv, Result, RunInv, Accepted
<1> QED
  BY <1>3, <1>4, RunInvIdle

LEMMA RunInvResume ==
  ASSUME ArcInv, NEW r \in Runs, Resume(r)
  PROVE  RunInv(r)'
<1> USE RunTypes
<1> DEFINE n == exec[r].loops
           o == memo[r][n]
<1>1. /\ exec[r].pc = "wait" /\ n \in 1..Len(memo[r]) /\ n <= MaxParkLoops
      /\ o.kind = "parked" /\ n \in 1..Len(wakes[r])
  BY DEF Resume, Delivered, RunInv, AtWait
<1>2. memo' = memo /\ wakes' = wakes /\ run' = run /\ waiting' = waiting /\ output' = output
  BY DEF Resume
<1>3. CASE wakes[r][n].kind = "timeout"
  <2>1. exec'[r].pc = "return" /\ exec'[r].out = Failed(o.session, "PARK_WAKE_TIMEOUT")
    <3>1. exec' = [exec EXCEPT ![r].pc = "return",
                               ![r].out = Failed(o.session, "PARK_WAKE_TIMEOUT")]
      BY <1>3 DEF Resume
    <3> QED
      BY <3>1 DEF ExecState
  <2>2. Len(memo[r]) = n
    BY <1>1, <1>3 DEF RunInv, History
  <2>3. o.session \in MaybeSession
    BY <1>1, LastStep DEF Outcome
  <2>4. Failed(o.session, "PARK_WAKE_TIMEOUT") \in Outcome
    BY <2>3, RecordTypes DEF Codes
  <2>5. Result(r, exec'[r].out)
    BY <1>1, <2>1, <2>2, <2>4 DEF Result, Failed
  <2>6. AtReturn(r)' /\ AtStep(r)' /\ AtLeaf(r)' /\ AtWait(r)'
    BY <1>2, <2>1, <2>5 DEF AtReturn, AtStep, AtLeaf, AtWait, Result
  <2> QED
    BY <1>1, <1>2, <2>6, RunInvMove
<1>4. CASE wakes[r][n].kind = "wake"
  <2>1. exec'[r].pc = "step" /\ exec'[r].loops = n
    <3>1. exec' = [exec EXCEPT ![r].pc = "step"]
      BY <1>4 DEF Resume
    <3> QED
      BY <3>1 DEF ExecState
  <2>2. AtStep(r)'
    BY <1>1, <1>2, <1>4, <2>1 DEF AtStep
  <2>3. AtReturn(r)' /\ AtLeaf(r)' /\ AtWait(r)'
    BY <2>1 DEF AtReturn, AtLeaf, AtWait
  <2> QED
    BY <1>1, <1>2, <2>2, <2>3, RunInvMove
<1> QED
  BY <1>3, <1>4 DEF Resume

LEMMA RunInvComplete ==
  ASSUME ArcInv, NEW r \in Runs, Complete(r)
  PROVE  RunInv(r)'
<1> USE RunTypes
<1>1. exec[r].pc = "return" /\ Result(r, exec[r].out) /\ ~waiting[r]
  BY DEF Complete, RunInv, AtReturn, WaitInv
<1>2. memo' = memo /\ wakes' = wakes /\ waiting' = waiting /\ exec'[r].pc = "idle"
  BY DEF Complete, IdleExec
<1>3. WaitInv(r)'
  BY <1>1, <1>2 DEF WaitInv
<1>4. EndedInv(r)'
  <2>1. CASE Accepted(r)
    BY <1>1, <1>2, <2>1 DEF Complete, EndedInv, Result
  <2>2. CASE ~Accepted(r)
    BY <1>2, <2>2 DEF Complete, EndedInv, Result, RunInv
  <2> QED
    BY <2>1, <2>2
<1> QED
  BY <1>2, <1>3, <1>4, RunInvIdle

LEMMA RunInvVerb ==
  ASSUME ArcInv, NEW q \in Runs, NEW r \in Runs,
         \/ \E in \in EngagementInput : Dispatch(r, in)
         \/ \E d \in Wakes : Deliver(r, d)
         \/ Cancel(r) \/ Claim(r)
  PROVE  RunInv(q)'
<1> USE RunTypes
<1>1. CASE q # r
  <2>1. SameRun(q)
    BY <1>1 DEF Dispatch, Deliver, Cancel, Claim, SameRun
  <2>2. leaf' = leaf
    BY DEF Dispatch, Deliver, Cancel, Claim
  <2> QED
    BY <2>1, <2>2, RunFrame DEF SameLeaf, RunInv, AtLeaf
<1>2. CASE q = r /\ \E in \in EngagementInput : Dispatch(r, in)
  <2>1. /\ run[r] = "absent" /\ run'[r] = "pending" /\ leaf' = leaf
        /\ memo' = memo /\ wakes' = wakes /\ waiting' = waiting /\ exec' = exec
    BY <1>2 DEF Dispatch
  <2>2. ~waiting[r]
    BY <2>1 DEF RunInv, WaitInv
  <2> QED
    BY <1>2, <2>1, <2>2, SMTT(60) DEF RunInv, History, WaitInv, EndedInv, Result, AtStep, AtLeaf,
                            AtWait, AtReturn
<1>3. CASE q = r /\ \E d \in Wakes : Deliver(r, d)
  <2>1. PICK d \in Wakes : Deliver(r, d)
    BY <1>3
  <2>2. /\ run[r] \in {"pending", "running"} /\ exec[r].pc = "idle"
        /\ Len(memo[r]) = Len(wakes[r]) + 1 /\ Len(memo[r]) <= MaxParkLoops
    BY <2>1 DEF Deliver, RunInv, WaitInv
  <2>3. /\ waiting'[r] = FALSE /\ wakes'[r] = Append(wakes[r], d)
        /\ run' = run /\ memo' = memo /\ exec' = exec /\ output' = output
    BY <2>1 DEF Deliver
  <2>4. /\ Len(wakes'[r]) = Len(wakes[r]) + 1
        /\ \A n \in 1..Len(wakes[r]) : wakes'[r][n] = wakes[r][n]
    BY <2>3
  <2>5. History(r)'
    <3>1. \A n \in 1..(Len(memo[r]) - 1) : n \in 1..Len(wakes[r])
      BY <2>2
    <3>2. \A n \in 1..(Len(memo[r]) - 1) :
            /\ memo[r][n].kind = "parked"
            /\ wakes'[r][n].kind = "wake"
            /\ SessionsSurvive => memo[r][n + 1].session \in {memo[r][n].session, NoSession}
      <4> TAKE n \in 1..(Len(memo[r]) - 1)
      <4>1. wakes'[r][n] = wakes[r][n]
        BY <2>4, <3>1
      <4> QED
        BY <4>1 DEF RunInv, History
    <3>3. Len(memo[r]) <= MaxParkLoops + 1 /\ \A n \in 1..Len(memo[r]) : Recorded(memo[r][n])
      BY DEF RunInv, History
    <3> QED
      BY <2>2, <2>3, <2>4, <3>2, <3>3 DEF History, Recorded
  <2> QED
    BY <1>3, <2>2, <2>3, <2>5
    DEF RunInv, WaitInv, EndedInv, AtStep, AtLeaf, AtWait, AtReturn
<1>4. CASE q = r /\ Cancel(r)
  <2>1. /\ run'[r] = "canceled" /\ waiting'[r] = FALSE /\ leaf' = leaf
        /\ memo' = memo /\ wakes' = wakes /\ exec' = exec
    BY <1>4 DEF Cancel
  <2>2. History(r)' /\ WaitInv(r)' /\ EndedInv(r)'
    <3>1. History(r)
      BY DEF RunInv
    <3>2. History(r)'
      BY <2>1, <3>1 DEF History
    <3>3. WaitInv(r)' /\ EndedInv(r)'
      BY <2>1 DEF WaitInv, EndedInv
    <3> QED
      BY <3>2, <3>3
  <2>3. AtStep(r)' /\ AtWait(r)' /\ AtReturn(r)'
    BY <2>1 DEF RunInv, AtStep, AtWait, AtReturn, Result
  <2>4. AtLeaf(r)'
    BY <2>1 DEF RunInv, AtLeaf
  <2> QED
    BY <1>4, <2>2, <2>3, <2>4 DEF RunInv
<1>5. CASE q = r /\ Claim(r)
  <2>1. /\ exec'[r].pc = "step" /\ exec'[r].loops = 0 /\ run'[r] = "running"
        /\ memo' = memo /\ wakes' = wakes /\ waiting' = waiting /\ ~waiting[r]
    BY <1>5 DEF Claim, Due, IdleExec
  <2>2. History(r)' /\ WaitInv(r)' /\ EndedInv(r)'
    BY <2>1 DEF RunInv, History, WaitInv, EndedInv
  <2>3. AtStep(r)' /\ AtLeaf(r)' /\ AtWait(r)' /\ AtReturn(r)'
    BY <2>1 DEF AtStep, AtLeaf, AtWait, AtReturn
  <2> QED
    BY <1>5, <2>2, <2>3 DEF RunInv
<1> QED
  BY <1>1, <1>2, <1>3, <1>4, <1>5

LEMMA RunInvStep ==
  ASSUME ArcInv, [Next]_vars, NEW q \in Runs
  PROVE  RunInv(q)'
<1>1. ASSUME NEW r \in Runs, BodyStep(r)
      PROVE  RunInv(q)'
  <2>1. CASE q # r
    BY <1>1, <2>1, RunInvOther
  <2>2. CASE q = r
    BY <1>1, <2>2, RunInvStartLeaf, RunInvSpawnError, RunInvRecordStep, RunInvResolve,
       RunInvPark, RunInvResume, RunInvComplete DEF BodyStep
  <2> QED
    BY <2>1, <2>2
<1>2. CASE WorkerCrash
  <2>1. /\ exec'[q].pc = "idle" /\ waiting' = waiting /\ run' = run
        /\ memo' = memo /\ wakes' = wakes /\ output' = output
    BY <1>2 DEF WorkerCrash, IdleExec
  <2>2. WaitInv(q)' /\ EndedInv(q)'
    BY <2>1, RunTypes DEF WaitInv, EndedInv, Result, RunInv
  <2> QED
    BY <2>1, <2>2, RunInvIdle, RunTypes
<1>3. CASE UNCHANGED vars
  <2>1. SameRun(q) /\ leaf' = leaf
    BY <1>3 DEF vars, SameRun
  <2> QED
    BY <2>1, RunFrame, RunTypes DEF SameLeaf, RunInv, AtLeaf
<1>4. \A i \in BOOLEAN : [kind |-> "wake", parkIntent |-> i] \in Wakes
  BY DEF Wakes
<1>5. [kind |-> "timeout", parkIntent |-> FALSE] \in Wakes
  BY DEF Wakes
<1> QED
  BY <1>1, <1>2, <1>3, <1>4, <1>5, RunInvVerb, RunInvLeafStep DEF Next, Wake, WaitTimeout

-----------------------------------------------------------------------------
(* The theorems.                                                            *)

LEMMA ArcInvInit == Init => ArcInv
<1> SUFFICES ASSUME Init PROVE ArcInv
  OBVIOUS
<1>1. TypeOK
  BY RecordTypes, NoSessionAssumption
  DEF Init, TypeOK, RunStatus, EngagementInput, MaybeSession, JoinTable, EmptyTable
<1>2. \A l \in Leaves : LeafInv(l)
  BY DEF Init, LeafInv, FreeLeaf
<1>3. \A r \in Runs : RunInv(r)
  <2> TAKE r \in Runs
  <2>1. /\ memo[r] = <<>> /\ wakes[r] = <<>> /\ ~waiting[r] /\ run[r] = "absent"
        /\ exec[r].pc = "idle"
    BY DEF Init, IdleExec
  <2>2. History(r)
    BY <2>1, ArcAssumption DEF History
  <2> QED
    BY <2>1, <2>2 DEF RunInv, WaitInv, EndedInv, AtStep, AtLeaf, AtWait, AtReturn
<1> QED
  BY <1>1, <1>2, <1>3 DEF ArcInv

LEMMA ArcInvStep == ArcInv /\ [Next]_vars => ArcInv'
BY TypeStep, LeafInvStep, RunInvStep DEF ArcInv

LEMMA ArcInvariant == Spec => []ArcInv
BY ArcInvInit, ArcInvStep, PTL DEF Spec

(* Every variable keeps its type.                                           *)
THEOREM TypeCorrectness == Spec => []TypeOK
<1>1. ArcInv => TypeOK
  BY DEF ArcInv
<1> QED
  BY <1>1, ArcInvariant, PTL

(* When sessions outlive their handles, a wake never moves an engagement to *)
(* another session.                                                         *)
THEOREM SessionsContinue ==
  ASSUME SessionsSurvive PROVE Spec => []SessionContinuity
<1>1. ArcInv => SessionContinuity
  BY DEF ArcInv, RunInv, History, SessionContinuity
<1> QED
  BY <1>1, ArcInvariant, PTL

(* The park loop is cut at its cap and nowhere else.                        *)
THEOREM ParkLoopIsCapped == Spec => []ParkLoopCap
<1>1. ArcInv => ParkLoopCap
  BY DEF ArcInv, RunInv, History, EndedInv, Result, ParkLoopCap, Last
<1> QED
  BY <1>1, ArcInvariant, PTL

-----------------------------------------------------------------------------
(* The lifecycle refinement.                                                *)

SameClient(q) ==
  /\ ClientState(q)' = ClientState(q)
  /\ ClientSession(q)' = ClientSession(q)
  /\ Len(wakes'[q]) = Len(wakes[q])

(* A lifecycle step of run r alone.                                         *)
ClientStep(r) ==
  \/ SameClient(r)
  \/ /\ ClientState(r) = "working" /\ ClientState(r)' = "working"
     /\ ClientSession(r) = NoSession /\ ClientSession(r)' \in Sessions
     /\ Len(wakes'[r]) = Len(wakes[r])
  \/ /\ ClientState(r) = "parked" /\ ClientState(r)' = "working"
     /\ ClientSession(r)' = ClientSession(r)
     /\ Len(wakes'[r]) = Len(wakes[r]) + 1
  \/ /\ ClientSession(r)' = ClientSession(r) /\ Len(wakes'[r]) = Len(wakes[r])
     /\ \/ ClientState(r) = "absent" /\ ClientState(r)' = "working"
        \/ /\ ClientState(r) = "working" /\ ClientState(r)' = "parked"
           /\ ClientSession(r) # NoSession /\ Len(wakes[r]) < MaxParkLoops
        \/ /\ ClientState(r) = "working" /\ ClientState(r)' = "settled"
           /\ ClientSession(r) # NoSession
        \/ ClientState(r) = "working" /\ ClientState(r)' = "failed"
        \/ ClientState(r) \in {"working", "parked"} /\ ClientState(r)' = "canceled"

LEMMA LiftClientStep ==
  ASSUME NEW r \in Runs, ClientStep(r), \A q \in Runs \ {r} : SameClient(q)
  PROVE  [Lifecycle!Next]_Lifecycle!vars
<1> DEFINE st == [q \in Runs |-> ClientState(q)]
           se == [q \in Runs |-> ClientSession(q)]
           sv == [q \in Runs |-> Len(wakes[q])]
<1>1. /\ st' = [st EXCEPT ![r] = ClientState(r)']
      /\ se' = [se EXCEPT ![r] = ClientSession(r)']
      /\ sv' = [sv EXCEPT ![r] = Len(wakes'[r])]
  BY DEF SameClient
<1>2. /\ st[r] = ClientState(r) /\ se[r] = ClientSession(r) /\ sv[r] = Len(wakes[r])
      /\ st = [st EXCEPT ![r] = st[r]] /\ se = [se EXCEPT ![r] = se[r]]
      /\ sv = [sv EXCEPT ![r] = sv[r]]
  OBVIOUS
<1>3. CASE SameClient(r)
  <2>1. st' = st /\ se' = se /\ sv' = sv
    BY <1>3 DEF SameClient
  <2> QED
    BY <2>1 DEF Lifecycle!vars
<1>4. CASE /\ ClientState(r) = "working" /\ ClientState(r)' = "working"
           /\ ClientSession(r) = NoSession /\ ClientSession(r)' \in Sessions
           /\ Len(wakes'[r]) = Len(wakes[r])
  <2>1. Lifecycle!Bind(r)
    BY <1>4, <1>1, <1>2 DEF Lifecycle!Bind
  <2> QED
    BY <2>1 DEF Lifecycle!Next
<1>5. CASE /\ ClientState(r) = "parked" /\ ClientState(r)' = "working"
           /\ ClientSession(r)' = ClientSession(r)
           /\ Len(wakes'[r]) = Len(wakes[r]) + 1
  <2>1. Lifecycle!Unpark(r)
    BY <1>5, <1>1, <1>2 DEF Lifecycle!Unpark
  <2> QED
    BY <2>1 DEF Lifecycle!Next
<1>6. CASE /\ ClientSession(r)' = ClientSession(r) /\ Len(wakes'[r]) = Len(wakes[r])
           /\ ClientState(r) = "absent" /\ ClientState(r)' = "working"
  <2>1. Lifecycle!Start(r)
    BY <1>6, <1>1, <1>2 DEF Lifecycle!Start
  <2> QED
    BY <2>1 DEF Lifecycle!Next
<1>7. CASE /\ ClientSession(r)' = ClientSession(r) /\ Len(wakes'[r]) = Len(wakes[r])
           /\ ClientState(r) = "working" /\ ClientState(r)' = "parked"
           /\ ClientSession(r) # NoSession /\ Len(wakes[r]) < MaxParkLoops
  <2>1. Lifecycle!ParkOn(r)
    BY <1>7, <1>1, <1>2 DEF Lifecycle!ParkOn
  <2> QED
    BY <2>1 DEF Lifecycle!Next
<1>8. CASE /\ ClientSession(r)' = ClientSession(r) /\ Len(wakes'[r]) = Len(wakes[r])
           /\ ClientState(r) = "working" /\ ClientState(r)' = "settled"
           /\ ClientSession(r) # NoSession
  <2>1. Lifecycle!Settle(r)
    BY <1>8, <1>1, <1>2 DEF Lifecycle!Settle
  <2> QED
    BY <2>1 DEF Lifecycle!Next
<1>9. CASE /\ ClientSession(r)' = ClientSession(r) /\ Len(wakes'[r]) = Len(wakes[r])
           /\ ClientState(r) = "working" /\ ClientState(r)' = "failed"
  <2>1. Lifecycle!Fail(r)
    BY <1>9, <1>1, <1>2 DEF Lifecycle!Fail
  <2> QED
    BY <2>1 DEF Lifecycle!Next
<1>10. CASE /\ ClientSession(r)' = ClientSession(r) /\ Len(wakes'[r]) = Len(wakes[r])
           /\ ClientState(r) \in {"working", "parked"} /\ ClientState(r)' = "canceled"
  <2>1. Lifecycle!Cancel(r)
    BY <1>10, <1>1, <1>2 DEF Lifecycle!Cancel
  <2> QED
    BY <2>1 DEF Lifecycle!Next
<1> QED
  BY <1>3, <1>4, <1>5, <1>6, <1>7, <1>8, <1>9, <1>10 DEF ClientStep

LEMMA ClientUnchanged ==
  ASSUME NEW q \in Runs, run'[q] = run[q], memo'[q] = memo[q], wakes'[q] = wakes[q],
         waiting'[q] = waiting[q], output'[q] = output[q]
  PROVE  SameClient(q)
BY DEF SameClient, ClientState, ClientSession

(* A step of the body of r is at most one lifecycle step of r.              *)
LEMMA BodyClientStep ==
  ASSUME ArcInv, NEW r \in Runs, BodyStep(r)
  PROVE  ClientStep(r)
<1> USE RunTypes
<1>0. ~waiting[r]
  BY DEF BodyStep, StartLeaf, SpawnError, RecordStep, Resolve, Park, Resume, Complete,
         RunInv, WaitInv
<1>1. CASE (\E l \in Leaves : StartLeaf(r, l)) \/ Resolve(r) \/ Resume(r)
  <2>1. /\ run' = run /\ memo' = memo /\ wakes' = wakes /\ waiting' = waiting
        /\ output' = output
    BY <1>1 DEF StartLeaf, Resolve, Resume
  <2> QED
    BY <2>1, ClientUnchanged DEF ClientStep
<1>2. CASE SpawnError(r)
  <2>1. memo' = memo /\ wakes' = wakes /\ waiting' = waiting /\ output' = output
    BY <1>2 DEF SpawnError
  <2>2. CASE run' = run
    BY <2>1, <2>2, ClientUnchanged DEF ClientStep
  <2>3. CASE run[r] = "running" /\ run'[r] = "failed"
    BY <1>0, <2>1, <2>3 DEF ClientStep, ClientState, ClientSession
  <2> QED
    BY <1>2, <2>2, <2>3 DEF SpawnError, Accepted
<1>3. CASE RecordStep(r)
  <2>1. wakes' = wakes /\ waiting' = waiting /\ output' = output /\ run' = run
    BY <1>3 DEF RecordStep
  <2>2. ClientState(r)' = ClientState(r)
    BY <2>1 DEF ClientState
  <2>3. CASE ~Accepted(r)
    BY <1>3, <2>1, <2>3, ClientUnchanged DEF RecordStep, ClientStep
  <2>4. CASE Accepted(r)
    <3> DEFINE o == StepOutcome(exec[r].leaf)
    <3>1. memo'[r] = Append(memo[r], o)
      BY <1>3, <2>4 DEF RecordStep
    <3>2. ClientState(r) = "working"
      BY <1>0, <2>4 DEF ClientState, Accepted
    <3>3. o \in Outcome
      <4>1. /\ exec[r].leaf \in Leaves /\ LeafInv(exec[r].leaf)
            /\ leaf[exec[r].leaf].pc \in {"done", "dead"}
        BY <1>3 DEF RecordStep, RunInv, AtLeaf, ArcInv
      <4> QED
        BY <4>1, RecordTypes DEF LeafInv, StepOutcome, MaybeSession, Codes
    <3>4. o.session \in Sessions \/ o.session = NoSession
      BY <3>3 DEF Outcome, MaybeSession
    <3> HIDE DEF o
    <3>5. CASE memo[r] = <<>>
      <4>1. ClientSession(r) = NoSession /\ ClientSession(r)' = o.session
        BY <3>1, <3>3, <3>5 DEF ClientSession
      <4> QED
        BY <2>1, <2>2, <3>2, <3>4, <4>1 DEF ClientStep, SameClient
    <3>6. CASE memo[r] # <<>>
      <4>1. memo'[r][1] = memo[r][1] /\ memo'[r] # <<>>
        <5>1. 1 \in 1..Len(memo[r]) /\ Len(memo'[r]) = Len(memo[r]) + 1
          BY <3>1, <3>3, <3>6
        <5>2. memo'[r][1] = memo[r][1]
          BY <3>1, <3>3, <5>1
        <5> QED
          BY <5>1, <5>2
      <4>2. ClientSession(r)' = ClientSession(r)
        BY <3>6, <4>1 DEF ClientSession
      <4> QED
        BY <2>1, <2>2, <4>2 DEF ClientStep, SameClient
    <3> QED
      BY <3>5, <3>6
  <2> QED
    BY <2>3, <2>4
<1>4. CASE Park(r)
  <2>1. memo' = memo /\ wakes' = wakes /\ run' = run /\ output' = output
        /\ waiting'[r] = Accepted(r)
    BY <1>4 DEF Park
  <2>2. CASE ~Accepted(r)
    <3>1. waiting'[r] = waiting[r]
      BY <1>0, <2>1, <2>2 DEF Accepted
    <3> QED
      BY <2>1, <3>1, ClientUnchanged DEF ClientStep
  <2>3. CASE Accepted(r)
    <3>1. /\ exec[r].loops \in 1..Len(memo[r]) /\ exec[r].loops <= MaxParkLoops
          /\ memo[r][exec[r].loops].kind = "parked" /\ Len(wakes[r]) < exec[r].loops
      BY <1>4 DEF Park, Delivered, RunInv, AtWait
    <3>2. memo[r][1].session \in Sessions /\ memo[r] # <<>>
      BY <3>1, LastStep
    <3>3. ClientSession(r) # NoSession /\ ClientSession(r)' = ClientSession(r)
      BY <2>1, <3>2, NoSessionAssumption DEF ClientSession
    <3>4. Len(wakes[r]) < MaxParkLoops
      BY <3>1
    <3>5. ClientState(r) = "working" /\ ClientState(r)' = "parked"
      BY <1>0, <2>1, <2>3 DEF ClientState, Accepted
    <3> QED
      BY <2>1, <3>3, <3>4, <3>5 DEF ClientStep
  <2> QED
    BY <2>2, <2>3
<1>5. CASE Complete(r)
  <2>1. memo' = memo /\ wakes' = wakes /\ waiting' = waiting
    BY <1>5 DEF Complete
  <2>2. CASE ~Accepted(r)
    BY <1>5, <2>1, <2>2, ClientUnchanged DEF ClientStep, Complete
  <2>3. CASE Accepted(r)
    <3>1. Result(r, exec[r].out)
      BY <1>5 DEF Complete, RunInv, AtReturn
    <3>2. run'[r] = "completed" /\ output'[r] = exec[r].out
      BY <1>5, <2>3 DEF Complete
    <3>3. ClientState(r) = "working" /\ ClientState(r)' = exec[r].out.kind
      BY <1>0, <2>3, <3>2 DEF ClientState, Accepted
    <3>4. exec[r].out.kind \in {"settled", "failed"}
      BY <3>1 DEF Result, Outcome
    <3>5. ClientSession(r)' = ClientSession(r)
      BY <2>1 DEF ClientSession
    <3>6. exec[r].out.kind = "settled" => ClientSession(r) # NoSession
      BY <3>1, NoSessionAssumption DEF Result, ClientSession
    <3> QED
      BY <2>1, <3>3, <3>4, <3>5, <3>6 DEF ClientStep
  <2> QED
    BY <2>2, <2>3
<1> QED
  BY <1>1, <1>2, <1>3, <1>4, <1>5 DEF BodyStep

(* What a body step does to the client's view of the other runs: nothing.   *)
LEMMA BodyOthersClient ==
  ASSUME ArcInv, NEW r \in Runs, BodyStep(r), NEW q \in Runs \ {r}
  PROVE  SameClient(q)
<1>1. /\ run'[q] = run[q] /\ memo'[q] = memo[q] /\ wakes'[q] = wakes[q]
      /\ waiting'[q] = waiting[q] /\ output'[q] = output[q]
  BY RunTypes DEF BodyStep, StartLeaf, SpawnError, RecordStep, Resolve, Park, Resume,
                  Complete
<1> QED
  BY <1>1, ClientUnchanged

LEMMA VerbClientStep ==
  ASSUME ArcInv, NEW r \in Runs,
         \/ \E in \in EngagementInput : Dispatch(r, in)
         \/ \E d \in Wakes : Deliver(r, d)
         \/ Cancel(r) \/ Claim(r)
  PROVE  ClientStep(r) /\ \A q \in Runs \ {r} : SameClient(q)
<1> USE RunTypes
<1>1. \A q \in Runs \ {r} : SameClient(q)
  <2> TAKE q \in Runs \ {r}
  <2>1. /\ run'[q] = run[q] /\ memo'[q] = memo[q] /\ wakes'[q] = wakes[q]
        /\ waiting'[q] = waiting[q] /\ output'[q] = output[q]
    BY DEF Dispatch, Deliver, Cancel, Claim
  <2> QED
    BY <2>1, ClientUnchanged
<1>2. CASE \E in \in EngagementInput : Dispatch(r, in)
  <2>1. /\ run[r] = "absent" /\ run'[r] = "pending"
        /\ memo' = memo /\ wakes' = wakes /\ waiting' = waiting
    BY <1>2 DEF Dispatch
  <2>2. ~waiting[r]
    BY <2>1 DEF RunInv, WaitInv
  <2> QED
    BY <1>1, <2>1, <2>2 DEF ClientStep, ClientState, ClientSession
<1>3. CASE \E d \in Wakes : Deliver(r, d)
  <2>1. /\ waiting[r] /\ ~waiting'[r] /\ run' = run /\ memo' = memo
        /\ Len(wakes'[r]) = Len(wakes[r]) + 1
    BY <1>3 DEF Deliver
  <2>2. run[r] \in {"pending", "running"}
    BY <2>1 DEF RunInv, WaitInv
  <2> QED
    BY <1>1, <2>1, <2>2 DEF ClientStep, ClientState, ClientSession
<1>4. CASE Cancel(r)
  <2>1. /\ run[r] \in {"pending", "running"} /\ run'[r] = "canceled"
        /\ memo' = memo /\ wakes' = wakes
    BY <1>4 DEF Cancel
  <2>2. ClientState(r) \in {"working", "parked"} /\ ClientState(r)' = "canceled"
    BY <2>1 DEF ClientState
  <2> QED
    BY <1>1, <2>1, <2>2 DEF ClientStep, ClientSession
<1>5. CASE Claim(r)
  <2>1. /\ run[r] \in {"pending", "running"} /\ run'[r] = "running" /\ ~waiting[r]
        /\ memo' = memo /\ wakes' = wakes /\ waiting' = waiting /\ output' = output
    BY <1>5 DEF Claim, Due
  <2>2. ClientState(r)' = ClientState(r)
    BY <2>1 DEF ClientState
  <2>3. ClientSession(r)' = ClientSession(r)
    BY <2>1 DEF ClientSession
  <2> QED
    BY <1>1, <2>1, <2>2, <2>3 DEF ClientStep, SameClient
<1> QED
  BY <1>2, <1>3, <1>4, <1>5, <1>1

LEMMA LifecycleInit == Init => Lifecycle!Init
<1> SUFFICES ASSUME Init PROVE Lifecycle!Init
  OBVIOUS
<1>1. \A r \in Runs : /\ ClientState(r) = "absent" /\ ClientSession(r) = NoSession
                      /\ Len(wakes[r]) = 0
  BY DEF Init, ClientState, ClientSession
<1> QED
  BY <1>1 DEF Lifecycle!Init

LEMMA LifecycleStep ==
  ASSUME ArcInv, [Next]_vars
  PROVE  [Lifecycle!Next]_Lifecycle!vars
<1>1. ASSUME \A q \in Runs : SameClient(q)
      PROVE  [Lifecycle!Next]_Lifecycle!vars
  BY <1>1 DEF SameClient, Lifecycle!vars
<1>2. ASSUME NEW r \in Runs, BodyStep(r)
      PROVE  [Lifecycle!Next]_Lifecycle!vars
  BY <1>2, BodyClientStep, BodyOthersClient, LiftClientStep
<1>3. ASSUME NEW r \in Runs,
             \/ \E in \in EngagementInput : Dispatch(r, in)
             \/ \E d \in Wakes : Deliver(r, d)
             \/ Cancel(r) \/ Claim(r)
      PROVE  [Lifecycle!Next]_Lifecycle!vars
  BY <1>3, VerbClientStep, LiftClientStep
<1>4. ASSUME UNCHANGED <<run, memo, wakes, waiting, output>>
      PROVE  [Lifecycle!Next]_Lifecycle!vars
  <2>1. \A q \in Runs : SameClient(q)
    BY <1>4, ClientUnchanged
  <2> QED
    BY <2>1, <1>1
<1>5. ASSUME NEW l \in Leaves, LeafStep(l) \/ ChildCrash(l) \/ Reap(l)
      PROVE  UNCHANGED <<run, memo, wakes, waiting, output>>
  BY <1>5 DEF LeafStep, OpenFails, Open, PutEngaging, Engage, PutParked, ReadRow,
     WriteRow, JoinThrows, ChildCrash, Reap, leafOnlyUnchanged
<1>6. \A i \in BOOLEAN : [kind |-> "wake", parkIntent |-> i] \in Wakes
  BY DEF Wakes
<1>7. [kind |-> "timeout", parkIntent |-> FALSE] \in Wakes
  BY DEF Wakes
<1>8. CASE WorkerCrash \/ UNCHANGED vars
  BY <1>4, <1>8 DEF WorkerCrash, vars
<1>9. CASE \E l \in Leaves : LeafStep(l) \/ ChildCrash(l) \/ Reap(l)
  BY <1>4, <1>5, <1>9
<1>10. CASE \E r \in Runs : BodyStep(r)
  BY <1>2, <1>10
<1>11. CASE \E r \in Runs : \/ \E in \in EngagementInput : Dispatch(r, in)
                            \/ \E d \in Wakes : Deliver(r, d)
                            \/ Cancel(r) \/ Claim(r)
  BY <1>3, <1>11
<1> QED
  BY <1>6, <1>7, <1>8, <1>9, <1>10, <1>11 DEF Next, Wake, WaitTimeout

(* Whatever crashes, is retried or is re-run, clients see the abstract      *)
(* lifecycle: EngagementArc implements EngagementLifecycle.                 *)
THEOREM LifecycleImplemented == Spec => ImplementsLifecycle
<1>1. Spec => []ArcInv
  BY ArcInvariant
<1>2. ArcInv /\ [Next]_vars => [Lifecycle!Next]_Lifecycle!vars
  BY LifecycleStep
<1> QED
  BY <1>1, <1>2, LifecycleInit, PTL DEF Spec, ImplementsLifecycle, Lifecycle!Spec

-----------------------------------------------------------------------------
(* Notifications.                                                           *)

(* The kinds of outcome a run's subscribers were told of.                   *)
Told(ns) == {ns[i].kind : i \in 1..Len(ns)}

Kinds == {"settled", "parked", "failed"}

(* In-process a leaf notifies before it is done; in spawn mode the body     *)
(* does, on its way to return.                                              *)
LeafTold(l) ==
  ~Spawn => /\ leaf[l].pc # "dead"
            /\ leaf[l].pc = "done" => leaf[l].out.kind \in Told(notes[leaf[l].run])

RunTold(r) ==
  /\ ~Spawn => \A n \in 1..Len(memo[r]) : memo[r][n].kind \in Told(notes[r])
  /\ exec[r].pc = "return" => exec[r].out.kind \in Told(notes[r])
  /\ run[r] = "completed" => output[r].kind \in Told(notes[r])

NoteInv ==
  /\ \A l \in Leaves : LeafTold(l)
  /\ \A r \in Runs : RunTold(r)

(* A notification tells its kind, and what was told stays told.             *)
LEMMA ToldNoted ==
  ASSUME NEW ns \in Seq(Note), NEW step \in Nat, NEW kind \in Kinds
  PROVE  /\ Told(Noted(ns, step, kind)) = Told(ns) \cup {kind}
         /\ Noted(ns, step, kind) \in Seq(Note)
<1> DEFINE x  == [step |-> step, kind |-> kind]
           ms == Append(ns, x)
<1>1. x \in Note /\ x.kind = kind
  BY DEF Note, Kinds
<1> HIDE DEF x
<1>2. /\ ms \in Seq(Note) /\ Len(ms) = Len(ns) + 1 /\ ms[Len(ns) + 1] = x
      /\ \A i \in 1..Len(ns) : ms[i] = ns[i]
  BY <1>1
<1>3. Noted(ns, step, kind) = ms
  BY DEF Noted, x
<1> HIDE DEF ms
<1>4. Told(ms) \subseteq Told(ns) \cup {kind}
  <2>1. ASSUME NEW i \in 1..Len(ms)
        PROVE  ms[i].kind \in Told(ns) \cup {kind}
    <3>1. CASE i = Len(ns) + 1
      BY <1>1, <1>2, <3>1
    <3>2. CASE i \in 1..Len(ns)
      BY <1>2, <3>2 DEF Told
    <3> QED
      BY <1>2, <2>1, <3>1, <3>2
  <2> QED
    BY <2>1 DEF Told
<1>5. kind \in Told(ms)
  <2>1. Len(ns) + 1 \in 1..Len(ms) /\ ms[Len(ns) + 1].kind = kind
    BY <1>1, <1>2
  <2> QED
    BY <2>1 DEF Told
<1>6. Told(ns) \subseteq Told(ms)
  <2>1. ASSUME NEW i \in 1..Len(ns)
        PROVE  i \in 1..Len(ms) /\ ms[i].kind = ns[i].kind
    BY <1>2, <2>1
  <2> QED
    BY <2>1 DEF Told
<1> QED
  BY <1>2, <1>3, <1>4, <1>5, <1>6

(* No run forgets what was told.                                            *)
Grows == \A q \in Runs : Told(notes[q]) \subseteq Told(notes'[q])

LEMMA QuietGrows ==
  ASSUME notes' = notes
  PROVE  Grows
BY DEF Grows

LEMMA NoteGrows ==
  ASSUME notes \in [Runs -> Seq(Note)], NEW r \in Runs, NEW step \in Nat,
         NEW kind \in Kinds,
         notes' = [notes EXCEPT ![r] = Noted(@, step, kind)]
  PROVE  Grows /\ kind \in Told(notes'[r])
<1>1. Told(notes'[r]) = Told(notes[r]) \cup {kind}
  <2>1. notes[r] \in Seq(Note) /\ notes'[r] = Noted(notes[r], step, kind)
    OBVIOUS
  <2> QED
    BY <2>1, ToldNoted
<1>2. \A q \in Runs : q # r => notes'[q] = notes[q]
  OBVIOUS
<1> QED
  BY <1>1, <1>2 DEF Grows

(* What a leaf reports when it is done.                                     *)
LEMMA LeafNotes ==
  ASSUME notes \in [Runs -> Seq(Note)], NEW r \in Runs, NEW step \in Nat,
         NEW kind \in Kinds,
         notes' = [notes EXCEPT ![r] = LeafNoted(@, step, kind)]
  PROVE  Grows /\ (~Spawn => kind \in Told(notes'[r]))
<1>1. CASE Spawn
  <2>1. notes' = notes
    BY <1>1 DEF LeafNoted
  <2> QED
    BY <1>1, <2>1, QuietGrows
<1>2. CASE ~Spawn
  <2>1. notes' = [notes EXCEPT ![r] = Noted(@, step, kind)]
    BY <1>2 DEF LeafNoted
  <2> QED
    BY <2>1, NoteGrows
<1> QED
  BY <1>1, <1>2

LEMMA LeafStepNotes ==
  ASSUME ArcInv, NEW l \in Leaves, LeafStep(l)
  PROVE  /\ Grows
         /\ leaf'[l].run = leaf[l].run /\ leaf[l].run \in Runs
         /\ leaf'[l].pc # "dead"
         /\ (~Spawn /\ leaf'[l].pc = "done") =>
               leaf'[l].out.kind \in Told(notes'[leaf[l].run])
<1> DEFINE r == leaf[l].run
           kind == leaf'[l].out.kind
<1>1. /\ leaf[l] \in LeafState /\ LeafInv(l)
      /\ leaf \in [Leaves -> LeafState \cup {FreeLeaf}] /\ notes \in [Runs -> Seq(Note)]
  <2>1. leaf[l].pc # "free"
    BY DEF LeafStep, OpenFails, Open, PutEngaging, Engage, PutParked, ReadRow,
           WriteRow, JoinThrows
  <2> QED
    BY <2>1, LeafOfType DEF ArcInv, TypeOK
<1>2. r \in Runs /\ leaf[l].step \in Nat
  BY <1>1 DEF LeafState
<1>3. leaf'[l].run = leaf[l].run /\ leaf'[l].pc # "dead"
  BY <1>1 DEF LeafStep, OpenFails, Open, PutEngaging, Engage, PutParked, ReadRow,
              WriteRow, JoinThrows, LeafState
<1>4. \/ notes' = notes /\ leaf'[l].pc # "done"
      \/ /\ kind \in Kinds
         /\ notes' = [notes EXCEPT ![r] = LeafNoted(@, leaf[l].step, kind)]
  <2>1. CASE OpenFails(l)
    <3>1. kind = "failed"
      BY <1>1, <2>1 DEF OpenFails, LeafState, Failed
    <3> QED
      BY <2>1, <3>1 DEF OpenFails, Kinds
  <2>2. CASE PutParked(l)
    <3>1. kind = "parked"
      BY <1>1, <2>2 DEF PutParked, LeafState, LeafInv
    <3> QED
      BY <2>2, <3>1 DEF PutParked, Kinds
  <2>3. CASE WriteRow(l)
    <3>1. leaf'[l].out = leaf[l].out /\ leaf[l].out \in Outcome
      BY <1>1, <2>3 DEF WriteRow, LeafState, LeafInv
    <3> QED
      BY <2>3, <3>1 DEF WriteRow, Outcome, Kinds
  <2>4. CASE JoinThrows(l) /\ leaf[l].pc \in {"catchRead", "catchWrite"}
    <3>1. kind = "failed"
      BY <1>1, <2>4 DEF JoinThrows, LeafState, LeafInv
    <3> QED
      BY <2>4, <3>1 DEF JoinThrows, Kinds
  <2>5. CASE JoinThrows(l) /\ leaf[l].pc \notin {"catchRead", "catchWrite"}
    BY <1>1, <2>5 DEF JoinThrows, LeafState
  <2>6. CASE Open(l) \/ PutEngaging(l) \/ Engage(l) \/ ReadRow(l)
    BY <1>1, <2>6 DEF Open, PutEngaging, Engage, ReadRow, LeafState
  <2> QED
    BY <2>1, <2>2, <2>3, <2>4, <2>5, <2>6 DEF LeafStep
<1> HIDE DEF kind
<1>5. Grows /\ (~Spawn /\ leaf'[l].pc = "done" => kind \in Told(notes'[r]))
  BY <1>1, <1>2, <1>4, LeafNotes, QuietGrows
<1> QED
  BY <1>2, <1>3, <1>5 DEF kind

(* What the body reports before it returns, or waits, or goes on.           *)
LEMMA RunNotes ==
  ASSUME notes \in [Runs -> Seq(Note)], NEW r \in Runs, NEW ns,
         Told(notes[r]) \subseteq Told(ns), notes' = [notes EXCEPT ![r] = ns]
  PROVE  Grows /\ Told(notes'[r]) = Told(ns)
<1>1. notes'[r] = ns /\ \A q \in Runs : q # r => notes'[q] = notes[q]
  OBVIOUS
<1> QED
  BY <1>1 DEF Grows

LEMMA ArcToldBy ==
  ASSUME NEW ns \in Seq(Note), NEW step \in Nat, NEW kind \in Kinds
  PROVE  /\ ArcNoted(ns, step, kind) \in Seq(Note)
         /\ Told(ns) \subseteq Told(ArcNoted(ns, step, kind))
         /\ Spawn => kind \in Told(ArcNoted(ns, step, kind))
<1>1. CASE Spawn
  BY <1>1, ToldNoted DEF ArcNoted
<1>2. CASE ~Spawn
  BY <1>2 DEF ArcNoted
<1> QED
  BY <1>1, <1>2

LEMMA ResolveNotes ==
  ASSUME ArcInv, NEW r \in Runs, Resolve(r), RunTold(r)
  PROVE  /\ Grows
         /\ exec'[r].pc = "return" => exec'[r].out.kind \in Told(notes'[r])
<1> USE RunTypes
<1> DEFINE n  == exec[r].loops + 1
           o  == memo[r][n]
           ns == ArcNoted(notes[r], n, o.kind)
<1>1. /\ notes \in [Runs -> Seq(Note)] /\ notes[r] \in Seq(Note)
      /\ n \in Nat /\ n \in 1..Len(memo[r])
  BY DEF ArcInv, TypeOK, Resolve
<1>2. o.kind \in Kinds
  BY <1>1, LastStep DEF Outcome, Kinds
<1>3. /\ ns \in Seq(Note) /\ Told(notes[r]) \subseteq Told(ns)
      /\ o.kind \in Told(ns)
  <2>1. /\ ns \in Seq(Note) /\ Told(notes[r]) \subseteq Told(ns)
        /\ Spawn => o.kind \in Told(ns)
    BY <1>1, <1>2, ArcToldBy
  <2>2. ~Spawn => o.kind \in Told(notes[r])
    BY <1>1 DEF RunTold
  <2> QED
    BY <2>1, <2>2
<1>4. CASE o.kind # "parked"
  <2>1. /\ exec' = [exec EXCEPT ![r].pc = "return", ![r].out = o]
        /\ notes' = [notes EXCEPT ![r] = ns]
    BY <1>4 DEF Resolve
  <2>2. exec'[r].out = o
    BY <2>1 DEF ExecState
  <2>3. Grows /\ Told(notes'[r]) = Told(ns)
    BY <1>1, <1>3, <2>1, RunNotes
  <2> QED
    BY <1>3, <2>2, <2>3
<1>5. CASE o.kind = "parked" /\ ~OverCap(n)
  <2>1. /\ exec' = [exec EXCEPT ![r].pc = "wait", ![r].loops = n]
        /\ notes' = [notes EXCEPT ![r] = ns]
    BY <1>5 DEF Resolve
  <2>2. exec'[r].pc = "wait"
    BY <2>1 DEF ExecState
  <2>3. Grows
    BY <1>1, <1>3, <2>1, RunNotes
  <2> QED
    BY <2>2, <2>3
<1>6. CASE o.kind = "parked" /\ OverCap(n)
  <2>1. /\ exec' = [exec EXCEPT ![r].pc = "return",
                                ![r].out = Failed(o.session, "PARK_LOOP_EXCEEDED")]
        /\ notes' = [notes EXCEPT ![r] = GaveUp(ns, n)]
    BY <1>6 DEF Resolve
  <2>2. exec'[r].out.kind = "failed"
    BY <2>1 DEF ExecState, Failed
  <2>3. Told(GaveUp(ns, n)) = Told(ns) \cup {"failed"}
    BY <1>1, <1>3, ToldNoted DEF GaveUp, Kinds
  <2>4. Told(notes[r]) \subseteq Told(GaveUp(ns, n))
    BY <1>3, <2>3
  <2> HIDE DEF ns
  <2>5. Grows /\ Told(notes'[r]) = Told(GaveUp(ns, n))
    BY <1>1, <2>1, <2>4, RunNotes
  <2> QED
    BY <2>2, <2>3, <2>5
<1> QED
  BY <1>4, <1>5, <1>6

LEMMA ResumeNotes ==
  ASSUME ArcInv, NEW r \in Runs, Resume(r)
  PROVE  /\ Grows
         /\ exec'[r].pc = "return" => exec'[r].out.kind \in Told(notes'[r])
<1> USE RunTypes
<1> DEFINE n == exec[r].loops
<1>1. CASE wakes[r][n].kind = "timeout"
  <2>1. /\ exec' = [exec EXCEPT ![r].pc = "return",
                       ![r].out = Failed(memo[r][n].session, "PARK_WAKE_TIMEOUT")]
        /\ notes' = [notes EXCEPT ![r] = Noted(@, n, "failed")]
    BY <1>1 DEF Resume, GaveUp
  <2>2. exec'[r].out.kind = "failed"
    BY <2>1 DEF ExecState, Failed
  <2>3. notes \in [Runs -> Seq(Note)] /\ n \in Nat /\ "failed" \in Kinds
    BY DEF ArcInv, TypeOK, Kinds
  <2>4. Grows /\ "failed" \in Told(notes'[r])
    BY <2>1, <2>3, NoteGrows
  <2> QED
    BY <2>2, <2>4
<1>2. CASE wakes[r][n].kind = "wake"
  <2>1. notes' = notes /\ exec' = [exec EXCEPT ![r].pc = "step"]
    BY <1>2 DEF Resume
  <2>2. exec'[r].pc = "step"
    BY <2>1 DEF ExecState
  <2> QED
    BY <2>1, <2>2, QuietGrows
<1> QED
  BY <1>1, <1>2 DEF Resume

LEMMA LeafToldFrame ==
  ASSUME ArcInv, NEW l \in Leaves, LeafTold(l), Grows,
         leaf'[l].pc \in {"open", "free"} \/ leaf'[l] = leaf[l]
  PROVE  LeafTold(l)'
<1>1. leaf[l].pc = "done" => leaf[l].run \in Runs
  BY LeafOfType DEF LeafState
<1> QED
  BY <1>1 DEF LeafTold, Grows

LEMMA RunToldFrame ==
  ASSUME NEW r \in Runs, RunTold(r), Grows, memo'[r] = memo[r],
         exec'[r].pc = "return" =>
            exec'[r] = exec[r] \/ exec'[r].out.kind \in Told(notes'[r]),
         run'[r] = "completed" =>
            \/ run[r] = "completed" /\ output'[r] = output[r]
            \/ output'[r].kind \in Told(notes'[r])
  PROVE  RunTold(r)'
<1>1. Told(notes[r]) \subseteq Told(notes'[r])
  BY DEF Grows
<1> QED
  BY <1>1 DEF RunTold

LEMMA NoteInvRecordStep ==
  ASSUME ArcInv, NoteInv, NEW r \in Runs, RecordStep(r)
  PROVE  NoteInv'
<1> USE RunTypes
<1> DEFINE l == exec[r].leaf
<1>1. /\ l \in Leaves /\ leaf[l].run = r /\ leaf[l].pc \in {"done", "dead"}
      /\ notes' = notes /\ run' = run /\ output' = output
      /\ leaf' = [leaf EXCEPT ![l] = FreeLeaf]
  BY DEF RecordStep, RunInv, AtLeaf
<1>2. Grows
  BY <1>1, QuietGrows
<1>3. ASSUME NEW m \in Leaves PROVE LeafTold(m)'
  <2>1. leaf'[m].pc = "free" \/ leaf'[m] = leaf[m]
    BY <1>1 DEF FreeLeaf
  <2> QED
    BY <1>2, <2>1, LeafToldFrame DEF NoteInv
<1>4. ASSUME NEW q \in Runs PROVE RunTold(q)'
  <2>1. exec'[q].pc # "return" \/ exec'[q] = exec[q]
    <3>1. CASE Accepted(r)
      <4>1. exec' = [exec EXCEPT ![r].pc = "step", ![r].leaf = NoLeaf]
        BY <3>1 DEF RecordStep
      <4> QED
        BY <4>1 DEF ExecState
    <3>2. CASE ~Accepted(r)
      BY <3>2 DEF RecordStep, IdleExec
    <3> QED
      BY <3>1, <3>2
  <2>2. CASE memo'[q] = memo[q]
    BY <1>1, <1>2, <2>1, <2>2, RunToldFrame DEF NoteInv
  <2>3. CASE memo'[q] # memo[q]
    <3>1. q = r /\ memo'[r] = Append(memo[r], StepOutcome(l))
      BY <2>3 DEF RecordStep
    <3>2. ~Spawn => StepOutcome(l).kind \in Told(notes[r])
      BY <1>1 DEF NoteInv, LeafTold, StepOutcome
    <3>3. /\ Len(memo'[r]) = Len(memo[r]) + 1
          /\ memo'[r][Len(memo[r]) + 1] = StepOutcome(l)
          /\ \A n \in 1..Len(memo[r]) : memo'[r][n] = memo[r][n]
      <4>1. StepOutcome(l) \in Outcome
        BY <1>1, LeafOfType, RecordTypes
        DEF StepOutcome, ArcInv, LeafInv, MaybeSession, Codes
      <4> QED
        BY <3>1, <4>1
    <3>4. ~Spawn => \A n \in 1..Len(memo'[r]) : memo'[r][n].kind \in Told(notes[r])
      <4> SUFFICES ASSUME ~Spawn, NEW n \in 1..Len(memo'[r])
                   PROVE  memo'[r][n].kind \in Told(notes[r])
        OBVIOUS
      <4>1. n = Len(memo[r]) + 1 \/ n \in 1..Len(memo[r])
        BY <3>3
      <4> QED
        BY <3>2, <3>3, <4>1 DEF NoteInv, RunTold
    <3> QED
      BY <1>1, <2>1, <3>1, <3>4 DEF NoteInv, RunTold
  <2> QED
    BY <2>2, <2>3
<1> QED
  BY <1>3, <1>4 DEF NoteInv

LEMMA NoteInvBody ==
  ASSUME ArcInv, NoteInv, NEW r \in Runs, BodyStep(r)
  PROVE  NoteInv'
<1> USE RunTypes
<1> SUFFICES ASSUME ~RecordStep(r) PROVE NoteInv'
  BY NoteInvRecordStep
<1>1. memo' = memo
  BY DEF BodyStep, StartLeaf, SpawnError, Resolve, Park, Resume, Complete
<1>2. \A l \in Leaves : leaf'[l].pc = "open" \/ leaf'[l] = leaf[l]
  BY SMTT(60) DEF BodyStep, StartLeaf, SpawnError, Resolve, Park, Resume, Complete
<1>3. /\ Grows
      /\ exec'[r].pc = "return" => exec'[r].out.kind \in Told(notes'[r])
  <2>1. CASE Resolve(r)
    BY <2>1, ResolveNotes DEF NoteInv
  <2>2. CASE Resume(r)
    BY <2>2, ResumeNotes
  <2>3. CASE (\E l \in Leaves : StartLeaf(r, l)) \/ SpawnError(r) \/ Park(r) \/ Complete(r)
    <3>1. notes' = notes
      BY <2>3 DEF StartLeaf, SpawnError, Park, Complete
    <3>2. exec'[r].pc # "return"
      BY <2>3 DEF StartLeaf, SpawnError, Park, Complete, ExecState, IdleExec
    <3> QED
      BY <3>1, <3>2, QuietGrows
  <2> QED
    BY <2>1, <2>2, <2>3 DEF BodyStep
<1>4. \A q \in Runs : q # r => exec'[q] = exec[q]
  BY DEF BodyStep, StartLeaf, SpawnError, Resolve, Park, Resume, Complete
<1>5. ASSUME NEW q \in Runs, run'[q] = "completed"
      PROVE  \/ run[q] = "completed" /\ output'[q] = output[q]
             \/ output'[q].kind \in Told(notes'[q])
  <2>1. CASE Complete(r) /\ q = r /\ Accepted(r)
    <3>1. exec[r].pc = "return" /\ output'[r] = exec[r].out /\ notes' = notes
      BY <2>1 DEF Complete
    <3> QED
      BY <2>1, <3>1 DEF NoteInv, RunTold
  <2>2. CASE ~(Complete(r) /\ q = r /\ Accepted(r))
    BY <1>5, <2>2 DEF BodyStep, StartLeaf, SpawnError, Resolve, Park, Resume, Complete
  <2> QED
    BY <2>1, <2>2
<1>6. ASSUME NEW l \in Leaves PROVE LeafTold(l)'
  BY <1>2, <1>3, LeafToldFrame DEF NoteInv
<1>7. ASSUME NEW q \in Runs PROVE RunTold(q)'
  BY <1>1, <1>3, <1>4, <1>5, RunToldFrame DEF NoteInv
<1> QED
  BY <1>6, <1>7 DEF NoteInv

LEMMA NoteInvLeaf ==
  ASSUME ArcInv, NoteInv, NEW l \in Leaves, LeafStep(l)
  PROVE  NoteInv'
<1> USE RunTypes
<1>1. /\ Grows
      /\ leaf'[l].run = leaf[l].run /\ leaf[l].run \in Runs
      /\ leaf'[l].pc # "dead"
      /\ (~Spawn /\ leaf'[l].pc = "done") =>
            leaf'[l].out.kind \in Told(notes'[leaf[l].run])
  BY LeafStepNotes
<1>2. memo' = memo /\ exec' = exec /\ run' = run /\ output' = output
  BY DEF LeafStep, OpenFails, Open, PutEngaging, Engage, PutParked, ReadRow, WriteRow,
         JoinThrows, leafOnlyUnchanged
<1>3. \A m \in Leaves : m # l => leaf'[m] = leaf[m]
  BY DEF LeafStep, OpenFails, Open, PutEngaging, Engage, PutParked, ReadRow, WriteRow,
         JoinThrows, ArcInv, TypeOK
<1>4. ASSUME NEW m \in Leaves PROVE LeafTold(m)'
  <2>1. CASE m = l
    BY <1>1, <2>1 DEF LeafTold
  <2>2. CASE m # l
    BY <1>1, <1>3, <2>2, LeafToldFrame DEF NoteInv
  <2> QED
    BY <2>1, <2>2
<1>5. ASSUME NEW q \in Runs PROVE RunTold(q)'
  BY <1>1, <1>2, RunToldFrame DEF NoteInv
<1> QED
  BY <1>4, <1>5 DEF NoteInv

LEMMA NoteInvStep == ArcInv /\ NoteInv /\ [Next]_vars => NoteInv'
<1> SUFFICES ASSUME ArcInv, NoteInv, [Next]_vars PROVE NoteInv'
  OBVIOUS
<1>1. CASE \E r \in Runs : BodyStep(r)
  BY <1>1, NoteInvBody
<1>2. CASE \E l \in Leaves : LeafStep(l)
  BY <1>2, NoteInvLeaf
<1>3. CASE \/ \E r \in Runs, in \in EngagementInput : Dispatch(r, in)
           \/ \E r \in Runs, d \in Wakes : Deliver(r, d)
           \/ \E r \in Runs : Cancel(r) \/ Claim(r)
           \/ \E l \in Leaves : ChildCrash(l) \/ Reap(l)
           \/ WorkerCrash
           \/ UNCHANGED vars
  <2>1. notes' = notes /\ memo' = memo /\ output' = output
    BY <1>3 DEF Dispatch, Deliver, Cancel, Claim, ChildCrash, Reap, WorkerCrash, vars
  <2>2. Grows
    BY <2>1, QuietGrows
  <2>3. ASSUME NEW q \in Runs PROVE RunTold(q)'
    <3>1. exec'[q] = exec[q] \/ exec'[q].pc # "return"
      <4>1. CASE \E r \in Runs : Claim(r)
        BY <4>1, RunTypes DEF Claim, IdleExec
      <4>2. CASE ~\E r \in Runs : Claim(r)
        BY <1>3, <4>2 DEF Dispatch, Deliver, Cancel, ChildCrash, Reap, WorkerCrash,
                          vars, IdleExec
      <4> QED
        BY <4>1, <4>2
    <3>2. run'[q] = "completed" => run[q] = "completed"
      BY <1>3 DEF Dispatch, Deliver, Cancel, Claim, ChildCrash, Reap, WorkerCrash, vars,
                  ArcInv, TypeOK
    <3> QED
      BY <2>1, <2>2, <3>1, <3>2, RunToldFrame DEF NoteInv
  <2>4. ASSUME NEW l \in Leaves PROVE LeafTold(l)'
    <3>1. CASE Spawn
      BY <3>1 DEF LeafTold
    <3>2. CASE ~Spawn
      <4>1. leaf'[l].pc = "free" \/ leaf'[l] = leaf[l]
        BY <1>3, <3>2 DEF Dispatch, Deliver, Cancel, Claim, ChildCrash, Reap,
                          WorkerCrash, vars, FreeLeaf, ArcInv, TypeOK
      <4> QED
        BY <2>2, <4>1, LeafToldFrame DEF NoteInv
    <3> QED
      BY <3>1, <3>2
  <2> QED
    BY <2>3, <2>4 DEF NoteInv
<1>4. CASE \E r \in Runs : WaitTimeout(r) \/ \E i \in BOOLEAN : Wake(r, i)
  <2>1. \E r \in Runs, d \in Wakes : Deliver(r, d)
    BY <1>4 DEF WaitTimeout, Wake, Wakes
  <2> QED
    BY <1>3, <2>1
<1> QED
  BY <1>1, <1>2, <1>3, <1>4 DEF Next

(* No run completes silently: in every history, with any number of crashes, *)
(* what the result of a completed run says was notified.                    *)
THEOREM CompletionsAreNotified == Spec => []CompletionWasNotified
<1>1. Init => NoteInv
  BY DEF Init, NoteInv, LeafTold, RunTold, FreeLeaf, IdleExec
<1>2. NoteInv => CompletionWasNotified
  <2> SUFFICES ASSUME NoteInv, NEW r \in Runs, run[r] = "completed"
               PROVE  \E i \in 1..Len(notes[r]) : notes[r][i].kind = output[r].kind
    BY DEF CompletionWasNotified
  <2>1. output[r].kind \in Told(notes[r])
    BY DEF NoteInv, RunTold
  <2> QED
    BY <2>1 DEF Told
<1> QED
  BY <1>1, <1>2, NoteInvStep, ArcInvariant, PTL DEF Spec
=============================================================================
