------------------------------ MODULE JoinProofs ------------------------------
(***************************************************************************)
(* Theorems about EngagementArc and its join table while leaves run in the  *)
(* worker's process and no dispatch names another run's session, for any    *)
(* number of runs, leaves, crashes and faults.                              *)
(*                                                                          *)
(* RowsInv is inductive relative to ArcInv.  It says that a session belongs *)
(* to one run, through its row, its recorded results and its leaf (Owned),  *)
(* so that put() never removes the row of another run; that a run has one   *)
(* leaf at most, and what its row is at each point of it (LeafJoin); and    *)
(* that the row agrees with the last recorded result until the run is woken *)
(* (RunJoin).                                                               *)
(*                                                                          *)
(* The last part is about RuntimeClient: the client adds nothing to what    *)
(* an engagement can do, and what wait() told it stays true.                *)
(***************************************************************************)
EXTENDS RuntimeClient, EngagementArcProofs

(* Run r has to do with session s. *)
Holds(r, s) ==
  \/ join[r].session = s
  \/ \E n \in 1..Len(memo[r]) : memo[r][n].session = s
  \/ \E l \in Leaves : /\ leaf[l].pc # "free" /\ leaf[l].run = r
                       /\ s \in {leaf[l].session, leaf[l].row.session}

Owned ==
  \A r \in Runs, s \in Sessions :
    Holds(r, s) => s \in opened /\ \A q \in Runs : Holds(q, s) => q = r

LeafJoin(l) ==
  leaf[l].pc # "free" =>
    /\ exec[leaf[l].run].pc = "leaf" /\ exec[leaf[l].run].leaf = l
    /\ leaf[l].pc # "dead"
    /\ \/ leaf[l].in.resume = NoSession
       \/ \E n \in 1..Len(memo[leaf[l].run]) :
            memo[leaf[l].run][n].session = leaf[l].in.resume
    /\ leaf[l].pc \in {"engage", "park", "read", "write"} =>
         join[leaf[l].run] = LeafRow(l, "engaging")
    /\ leaf[l].pc = "write" => leaf[l].row = join[leaf[l].run]
    /\ leaf[l].pc = "done" /\ leaf[l].out.kind # "failed" =>
         /\ join[leaf[l].run] = LeafRow(l, leaf[l].out.kind)
         /\ leaf[l].out.session = leaf[l].session

(* The row an outcome should have left. *)
RowOf(o) == [session |-> o.session, status |-> o.kind]

(* The last recorded step settled, or it parked and nobody has answered. *)
Resting(r) ==
  /\ memo[r] # <<>>
  /\ \/ Last(memo[r]).kind = "settled"
     \/ Last(memo[r]).kind = "parked" /\ Len(wakes[r]) < Len(memo[r])

RunJoin(r) ==
  /\ input[r].resume = NoSession
  /\ Resting(r) => join[r] = RowOf(Last(memo[r]))
  /\ exec[r].pc = "return" /\ exec[r].out.kind = "settled" =>
       memo[r] # <<>> /\ exec[r].out = Last(memo[r])
  /\ run[r] = "completed" /\ output[r].kind = "settled" =>
       memo[r] # <<>> /\ output[r] = Last(memo[r])

RowsInv ==
  /\ Owned
  /\ \A l \in Leaves : LeafJoin(l)
  /\ \A r \in Runs : RunJoin(r)

-----------------------------------------------------------------------------
(* Sessions. *)

(* The rows put() would remove belong to nobody else. *)
LEMMA PutOwnRow ==
  ASSUME ArcInv, Owned, NEW r \in Runs, NEW row \in Row, Holds(r, row.session)
  PROVE  PutRow(join, r, row) = [join EXCEPT ![r] = row]
<1>1. join \in [Runs -> Row \cup {NoRow}] /\ row.session \in Sessions
  BY DEF ArcInv, TypeOK, JoinTable, Row
<1>2. \A q \in Runs : join[q].session = row.session => q = r
  BY <1>1 DEF Owned, Holds
<1> QED
  BY <1>1, <1>2 DEF PutRow

(* Sessions stay with their runs if one run at most gets a new one. *)
LEMMA OwnedKeeps ==
  ASSUME Owned, NEW r \in Runs, opened \subseteq opened',
         \A q \in Runs, s \in Sessions :
           Holds(q, s)' => Holds(q, s) \/ (q = r /\ s \in opened' /\ s \notin opened)
  PROVE  Owned'
BY DEF Owned

(* A run with a leaf in flight does not rest. *)
LEMMA LeafMeansBusy ==
  ASSUME ArcInv, NEW r \in Runs, exec[r].pc = "leaf"
  PROVE  ~Resting(r)
<1>1. /\ exec[r].loops = Len(memo[r]) /\ exec[r].loops <= Len(wakes[r])
      /\ exec[r].loops > 0 => memo[r][exec[r].loops].kind = "parked"
  BY DEF ArcInv, RunInv, AtLeaf, AtStep
<1>2. memo[r] \in Seq(Outcome) /\ wakes[r] \in Seq(Wakes)
  BY DEF ArcInv, TypeOK
<1>3. memo[r] # <<>> => Len(memo[r]) > 0
  BY <1>2
<1> QED
  BY <1>1, <1>2, <1>3 DEF Resting, Last

(* What every step of a leaf does. *)
LEMMA LeafMoves ==
  ASSUME ArcInv, RowsInv, NEW l \in Leaves, LeafStep(l)
  PROVE  /\ leaf[l] \in LeafState /\ leaf'[l] \in LeafState /\ leaf[l].pc # "free"
         /\ leaf' = [leaf EXCEPT ![l] = leaf'[l]]
         /\ leaf'[l].run = leaf[l].run /\ leaf'[l].in = leaf[l].in
         /\ UNCHANGED <<run, input, memo, wakes, waiting, output, exec>>
<1>1. leaf[l].pc # "free"
  BY DEF LeafStep, OpenFails, Open, PutEngaging, Engage, PutParked, ReadRow, WriteRow,
         JoinThrows
<1>2. leaf[l] \in LeafState /\ leaf \in [Leaves -> LeafState \cup {FreeLeaf}]
  BY <1>1, LeafOfType DEF ArcInv, TypeOK
<1>3. exec[leaf[l].run].leaf = l /\ exec[leaf[l].run].pc = "leaf" /\ leaf[l].run \in Runs
  BY <1>1, <1>2 DEF RowsInv, LeafJoin, LeafState
<1>4. UNCHANGED <<run, input, memo, wakes, waiting, output, exec>>
  BY DEF LeafStep, OpenFails, Open, PutEngaging, Engage, PutParked, ReadRow, WriteRow,
         JoinThrows, leafOnlyUnchanged
<1>5. leaf' = [leaf EXCEPT ![l] = leaf'[l]]
  BY <1>2 DEF LeafStep, OpenFails, Open, PutEngaging, Engage, PutParked, ReadRow, WriteRow,
         JoinThrows
<1>6. leaf'[l].run = leaf[l].run /\ leaf'[l].in = leaf[l].in /\ leaf'[l].pc # "free"
  BY <1>2 DEF LeafStep, OpenFails, Open, PutEngaging, Engage, PutParked, ReadRow, WriteRow,
         JoinThrows, LeafState
<1>7. leaf'[l] \in LeafState
  <2>1. leaf' \in [Leaves -> LeafState \cup {FreeLeaf}]
    BY TypeLeafStep DEF TypeOK
  <2> QED
    BY <2>1, <1>6 DEF FreeLeaf
<1> QED
  BY <1>1, <1>2, <1>4, <1>5, <1>6, <1>7

(* A leaf touches its own run's row only, and keeps what is said of it. *)
LEMMA LeafRows ==
  ASSUME ArcInv, RowsInv, NEW l \in Leaves, LeafStep(l), NEW r \in Runs, r = leaf[l].run
  PROVE  /\ opened \subseteq opened'
         /\ \/ leaf'[l].session = leaf[l].session \/ Holds(r, leaf'[l].session)
            \/ leaf'[l].session \in opened' /\ leaf'[l].session \notin opened
         /\ leaf'[l].row \in {leaf[l].row, join[r]}
         /\ \/ join' = join
            \/ \E row \in Row : join' = [join EXCEPT ![r] = row] /\ Holds(r, row.session)
         /\ LeafJoin(l)'
<1> DEFINE f == leaf'[l]
<1>1. /\ leaf[l] \in LeafState /\ f \in LeafState /\ leaf[l].pc # "free"
      /\ f.run = leaf[l].run /\ f.in = leaf[l].in
      /\ UNCHANGED <<memo, exec>>
  BY LeafMoves
<1>2. LeafInv(l) /\ LeafJoin(l) /\ Owned /\ join \in [Runs -> Row \cup {NoRow}]
      /\ leaf \in [Leaves -> LeafState \cup {FreeLeaf}]
  BY DEF ArcInv, RowsInv, TypeOK, JoinTable
<1>3. Holds(r, leaf[l].session) /\ Holds(r, leaf[l].row.session)
  BY <1>1 DEF Holds
<1>4. /\ leaf[l].out.kind \in {"settled", "parked"} /\ leaf[l].out \in Outcome =>
           leaf[l].out.session = leaf[l].session
      /\ leaf[l].session \in Sessions => LeafRow(l, "engaging") \in Row /\ LeafRow(l, "parked") \in Row
  BY <1>1, <1>2, NoSessionAssumption DEF LeafInv, LeafRow, Row, Statuses
<1>5. ASSUME f.pc # "dead",
             f.pc \in {"engage", "park", "read", "write"} =>
               join'[r] = [session |-> f.session, status |-> "engaging"],
             f.pc = "write" => f.row = join'[r],
             f.pc = "done" /\ f.out.kind # "failed" =>
               /\ join'[r] = [session |-> f.session, status |-> f.out.kind]
               /\ f.out.session = f.session
      PROVE  LeafJoin(l)'
  BY <1>1, <1>2, <1>5 DEF LeafJoin, LeafRow
<1>6. CASE OpenFails(l)
  <2>1. /\ f.pc = "done" /\ f.out.kind = "failed" /\ f.session = leaf[l].session
        /\ f.row = leaf[l].row /\ join' = join /\ opened' = opened
    BY <1>1, <1>2, <1>6 DEF OpenFails, LeafState, Failed
  <2> HIDE DEF f
  <2> QED
    BY <2>1, <1>5 DEF f
<1>7. CASE Open(l)
  <2>1. PICK s \in Sessions :
          /\ IF leaf[l].in.resume # NoSession /\ SessionsSurvive
             THEN s = leaf[l].in.resume ELSE s \notin opened
          /\ leaf' = [leaf EXCEPT ![l].pc = "put", ![l].session = s]
          /\ opened' = opened \cup {s}
    BY <1>7 DEF Open, Fresh
  <2>2. f.pc = "put" /\ f.session = s /\ f.row = leaf[l].row /\ join' = join
    BY <1>1, <1>2, <1>7, <2>1 DEF Open, LeafState
  <2>3. Holds(r, s) \/ (s \in opened' /\ s \notin opened)
    <3>1. CASE leaf[l].in.resume # NoSession /\ SessionsSurvive
      BY <2>1, <3>1, <1>1, <1>2 DEF LeafJoin, Holds
    <3> QED
      BY <2>1, <3>1
  <2> HIDE DEF f
  <2> QED
    BY <2>1, <2>2, <2>3, <1>5 DEF f
<1>8. ASSUME NEW status \in {"engaging", "parked"}, NEW to \in {"engage", "done"},
             leaf[l].session \in Sessions,
             join' = PutRow(join, r, LeafRow(l, status)), leaf' = [leaf EXCEPT ![l].pc = to],
             opened' = opened
      PROVE  /\ f.pc = to /\ f.session = leaf[l].session /\ f.row = leaf[l].row
             /\ f.out = leaf[l].out
             /\ join' = [join EXCEPT ![r] = LeafRow(l, status)]
             /\ LeafRow(l, status) \in Row /\ Holds(r, LeafRow(l, status).session)
             /\ join'[r] = [session |-> f.session, status |-> status]
  <2>1. LeafRow(l, status) \in Row /\ LeafRow(l, status).session = leaf[l].session
    BY <1>4, <1>8 DEF LeafRow
  <2>2. join' = [join EXCEPT ![r] = LeafRow(l, status)]
    BY <1>2, <1>3, <1>8, <2>1, PutOwnRow
  <2>3. /\ f.pc = to /\ f.session = leaf[l].session /\ f.row = leaf[l].row
        /\ f.out = leaf[l].out
    BY <1>1, <1>2, <1>8 DEF LeafState
  <2> QED
    BY <1>2, <1>3, <2>1, <2>2, <2>3 DEF LeafRow
<1>9. CASE PutEngaging(l)
  <2>1. leaf[l].session \in Sessions
    BY <1>1, <1>2, <1>9 DEF PutEngaging, LeafInv, Working
  <2>2. /\ join' = PutRow(join, r, LeafRow(l, "engaging")) /\ opened' = opened
        /\ leaf' = [leaf EXCEPT ![l].pc = "engage"]
    BY <1>9 DEF PutEngaging
  <2>3. /\ f.pc = "engage" /\ f.session = leaf[l].session /\ f.row = leaf[l].row
        /\ join' = [join EXCEPT ![r] = LeafRow(l, "engaging")]
        /\ LeafRow(l, "engaging") \in Row /\ Holds(r, LeafRow(l, "engaging").session)
        /\ join'[r] = [session |-> f.session, status |-> "engaging"]
    BY <2>1, <2>2, <1>8
  <2> HIDE DEF f
  <2> QED
    BY <2>2, <2>3, <1>5 DEF f
<1>10. CASE Engage(l)
  <2>1. /\ f.pc \in {"park", "read"} /\ f.session = leaf[l].session
        /\ f.row = leaf[l].row /\ join' = join /\ opened' = opened
    BY <1>1, <1>2, <1>10 DEF Engage, LeafState
  <2>2. join[r] = LeafRow(l, "engaging")
    BY <1>1, <1>2, <1>10 DEF Engage, LeafJoin
  <2> HIDE DEF f
  <2> QED
    BY <2>1, <2>2, <1>5 DEF f, LeafRow
<1>11. CASE PutParked(l)
  <2>1. /\ leaf[l].session \in Sessions /\ leaf[l].out \in Outcome
        /\ leaf[l].out.kind = "parked"
    BY <1>1, <1>2, <1>11 DEF PutParked, LeafInv, Working
  <2>2. /\ join' = PutRow(join, r, LeafRow(l, "parked")) /\ opened' = opened
        /\ leaf' = [leaf EXCEPT ![l].pc = "done"]
    BY <1>11 DEF PutParked
  <2>3. /\ f.pc = "done" /\ f.session = leaf[l].session /\ f.row = leaf[l].row
        /\ f.out = leaf[l].out
        /\ join' = [join EXCEPT ![r] = LeafRow(l, "parked")]
        /\ LeafRow(l, "parked") \in Row /\ Holds(r, LeafRow(l, "parked").session)
        /\ join'[r] = [session |-> f.session, status |-> "parked"]
    BY <2>1, <2>2, <1>8
  <2> HIDE DEF f
  <2> QED
    BY <2>1, <2>2, <2>3, <1>4, <1>5 DEF f
<1>12. CASE ReadRow(l)
  <2>1. /\ f.row = join[r] /\ f.session = leaf[l].session /\ join' = join /\ opened' = opened
        /\ f.pc = IF leaf[l].pc = "read" THEN "write" ELSE "catchWrite"
    BY <1>1, <1>2, <1>12 DEF ReadRow, LeafState
  <2>2. leaf[l].pc = "read" => join[r] = LeafRow(l, "engaging")
    BY <1>1, <1>2 DEF LeafJoin
  <2> HIDE DEF f
  <2> QED
    BY <2>1, <2>2, <1>5 DEF f, LeafRow
<1>13. CASE WriteRow(l)
  <2>1. /\ leaf[l].row \in Row /\ leaf[l].out \in Outcome
        /\ leaf[l].pc = "catchWrite" => leaf[l].out.kind = "failed"
        /\ leaf[l].pc = "write" => leaf[l].row = LeafRow(l, "engaging")
        /\ leaf[l].pc \in {"write", "catchWrite"}
    BY <1>1, <1>2, <1>13 DEF WriteRow, LeafInv, LeafJoin
  <2>2. UpdatedRow(l) \in Row /\ UpdatedRow(l).session = leaf[l].row.session
        /\ UpdatedRow(l).status = leaf[l].out.kind
    BY <2>1 DEF UpdatedRow, Row, Statuses, Outcome
  <2>3. join' = [join EXCEPT ![r] = UpdatedRow(l)]
    BY <1>2, <1>3, <1>13, <2>2, PutOwnRow DEF WriteRow
  <2>4. /\ f.pc = "done" /\ f.session = leaf[l].session /\ f.row = leaf[l].row
        /\ f.out = leaf[l].out /\ opened' = opened
    BY <1>1, <1>2, <1>13 DEF WriteRow, LeafState
  <2>5. f.out.kind # "failed" =>
          /\ join'[r] = [session |-> f.session, status |-> f.out.kind]
          /\ f.out.session = f.session
    <3>1. ASSUME leaf[l].out.kind # "failed"
          PROVE  /\ UpdatedRow(l) = [session |-> leaf[l].session, status |-> leaf[l].out.kind]
                 /\ leaf[l].out.session = leaf[l].session
      BY <3>1, <1>4, <2>1, <2>2 DEF UpdatedRow, LeafRow, Row, Outcome
    <3> QED
      BY <3>1, <2>3, <2>4, <1>2
  <2> HIDE DEF f
  <2> QED
    BY <2>2, <2>3, <2>4, <2>5, <1>3, <1>5 DEF f
<1>14. CASE JoinThrows(l)
  <2>1. /\ f.session = leaf[l].session /\ f.row = leaf[l].row /\ join' = join
        /\ opened' = opened
        /\ \/ f.pc = "catchRead"
           \/ f.pc = "done" /\ f.out.kind = "failed"
    BY <1>1, <1>2, <1>14 DEF JoinThrows, LeafState, LeafInv
  <2> HIDE DEF f
  <2> QED
    BY <2>1, <1>5 DEF f
<1> QED
  BY <1>6, <1>7, <1>9, <1>10, <1>11, <1>12, <1>13, <1>14 DEF LeafStep

LEMMA LeafStepKeeps ==
  ASSUME ArcInv, RowsInv, NEW l \in Leaves, LeafStep(l)
  PROVE  RowsInv'
<1> DEFINE r == leaf[l].run
<1>1. /\ leaf[l] \in LeafState /\ leaf'[l] \in LeafState /\ leaf[l].pc # "free"
      /\ leaf' = [leaf EXCEPT ![l] = leaf'[l]]
      /\ leaf'[l].run = leaf[l].run /\ leaf'[l].in = leaf[l].in
      /\ UNCHANGED <<run, input, memo, wakes, waiting, output, exec>>
  BY LeafMoves
<1>2. r \in Runs /\ Owned /\ join \in [Runs -> Row \cup {NoRow}]
      /\ leaf \in [Leaves -> LeafState \cup {FreeLeaf}]
      /\ exec[r].pc = "leaf" /\ exec[r].leaf = l
  BY <1>1 DEF LeafState, RowsInv, LeafJoin, ArcInv, TypeOK, JoinTable
<1>3. /\ opened \subseteq opened'
      /\ \/ leaf'[l].session = leaf[l].session \/ Holds(r, leaf'[l].session)
         \/ leaf'[l].session \in opened' /\ leaf'[l].session \notin opened
      /\ leaf'[l].row \in {leaf[l].row, join[r]}
      /\ \/ join' = join
         \/ \E row \in Row : join' = [join EXCEPT ![r] = row] /\ Holds(r, row.session)
      /\ LeafJoin(l)'
  BY <1>2, LeafRows
<1>4. \A q \in Runs : q # r => join'[q] = join[q]
  BY <1>2, <1>3
<1>5. \A k \in Leaves : k # l => leaf'[k] = leaf[k]
  BY <1>1, <1>2
<1>6. Owned'
  <2>1. ASSUME NEW q \in Runs, NEW s \in Sessions, Holds(q, s)'
        PROVE  Holds(q, s) \/ (q = r /\ s \in opened' /\ s \notin opened)
    <3>1. CASE join'[q].session = s
      BY <3>1, <1>2, <1>3, <1>4 DEF Holds
    <3>2. CASE \E n \in 1..Len(memo'[q]) : memo'[q][n].session = s
      BY <3>2, <1>1 DEF Holds
    <3>3. CASE \E k \in Leaves : /\ leaf'[k].pc # "free" /\ leaf'[k].run = q
                                 /\ s \in {leaf'[k].session, leaf'[k].row.session}
      <4>1. PICK k \in Leaves : /\ leaf'[k].pc # "free" /\ leaf'[k].run = q
                                /\ s \in {leaf'[k].session, leaf'[k].row.session}
        BY <3>3
      <4>2. CASE k = l
        BY <4>1, <4>2, <1>1, <1>2, <1>3 DEF Holds
      <4>3. CASE k # l
        BY <4>1, <4>3, <1>5 DEF Holds
      <4> QED
        BY <4>2, <4>3
    <3> QED
      BY <2>1, <3>1, <3>2, <3>3 DEF Holds
  <2> QED
    BY <2>1, <1>2, <1>3, OwnedKeeps
<1>7. ASSUME NEW k \in Leaves PROVE LeafJoin(k)'
  <2>1. CASE k = l
    BY <2>1, <1>3
  <2>2. CASE k # l /\ leaf[k].pc # "free"
    <3>1. LeafJoin(k) /\ leaf'[k] = leaf[k] /\ leaf[k].run \in Runs
      BY <2>2, <1>5, LeafOfType DEF RowsInv, LeafState
    <3>2. leaf[k].run # r
      BY <2>2, <3>1, <1>2 DEF LeafJoin
    <3>3. join'[leaf[k].run] = join[leaf[k].run]
      BY <3>1, <3>2, <1>4
    <3> QED
      BY <3>1, <3>3, <1>1 DEF LeafJoin, LeafRow
  <2>3. CASE k # l /\ leaf[k].pc = "free"
    BY <2>3, <1>5 DEF LeafJoin
  <2> QED
    BY <2>1, <2>2, <2>3
<1>8. ASSUME NEW q \in Runs PROVE RunJoin(q)'
  <2>1. RunJoin(q) /\ (Resting(q)' <=> Resting(q))
    BY <1>1 DEF RowsInv, Resting, Last
  <2>2. Resting(q) => q # r
    BY <1>2, LeafMeansBusy
  <2>3. Resting(q) => join'[q] = join[q]
    BY <2>2, <1>4
  <2> QED
    BY <2>1, <2>3, <1>1 DEF RunJoin, RowOf, Last
<1> QED
  BY <1>6, <1>7, <1>8 DEF RowsInv

-----------------------------------------------------------------------------
(* The body and the control verbs. *)

(* A step of run r that starts no leaf and records none. *)
LEMMA BodyKeeps ==
  ASSUME ArcInv, RowsInv, NEW r \in Runs, exec[r].pc # "leaf" \/ exec'[r] = exec[r],
         UNCHANGED <<memo, leaf, join, opened>>,
         \A q \in Runs \ {r} :
           /\ exec'[q] = exec[q] /\ input'[q] = input[q] /\ wakes'[q] = wakes[q]
           /\ run'[q] = run[q] /\ output'[q] = output[q],
         RunJoin(r)'
  PROVE  RowsInv'
<1>1. Owned'
  BY DEF RowsInv, Owned, Holds
<1>2. ASSUME NEW l \in Leaves PROVE LeafJoin(l)'
  <2>1. CASE leaf[l].pc # "free"
    <3>1. leaf[l].run \in Runs /\ LeafJoin(l)
      BY <2>1, LeafOfType DEF LeafState, RowsInv
    <3>2. exec'[leaf[l].run] = exec[leaf[l].run]
      BY <2>1, <3>1 DEF LeafJoin
    <3> QED
      BY <3>1, <3>2 DEF LeafJoin, LeafRow
  <2>2. CASE leaf[l].pc = "free"
    BY <2>2 DEF LeafJoin
  <2> QED
    BY <2>1, <2>2
<1>3. ASSUME NEW q \in Runs PROVE RunJoin(q)'
  <2>1. CASE q # r
    <3>1. RunJoin(q)
      BY DEF RowsInv
    <3>2. exec'[q] = exec[q] /\ input'[q] = input[q] /\ wakes'[q] = wakes[q]
          /\ run'[q] = run[q] /\ output'[q] = output[q]
      BY <2>1
    <3>3. UNCHANGED <<memo, leaf, join, opened>>
      OBVIOUS
    <3> QED
      BY <3>1, <3>2, <3>3 DEF RunJoin, Resting, RowOf, Last
  <2> QED
    BY <2>1
<1> QED
  BY <1>1, <1>2, <1>3 DEF RowsInv

LEMMA StartLeafKeeps ==
  ASSUME ArcInv, RowsInv, NEW r \in Runs, NEW l \in Leaves, StartLeaf(r, l)
  PROVE  RowsInv'
<1> DEFINE n == exec[r].loops + 1
           f == [pc |-> "open", run |-> r, step |-> n, in |-> StepInput(r, n),
                 session |-> NoSession, out |-> NoOutcome, row |-> NoRow]
<1>1. /\ exec[r].pc = "step" /\ leaf[l].pc = "free" /\ Len(memo[r]) < n
      /\ leaf' = [leaf EXCEPT ![l] = f]
      /\ exec' = [exec EXCEPT ![r].pc = "leaf", ![r].leaf = l]
      /\ UNCHANGED <<run, input, memo, wakes, waiting, output, join, opened>>
  BY DEF StartLeaf
<1>2. /\ leaf \in [Leaves -> LeafState \cup {FreeLeaf}] /\ exec \in [Runs -> ExecState]
      /\ exec[r] \in ExecState /\ memo[r] \in Seq(Outcome)
  BY DEF ArcInv, TypeOK
<1>3. /\ f.pc = "open" /\ f.run = r /\ f.in = StepInput(r, n) /\ f.session = NoSession
      /\ f.row.session = NoSession
  BY DEF NoRow
<1> HIDE DEF f
<1>4. leaf'[l] = f /\ \A k \in Leaves : k # l => leaf'[k] = leaf[k]
  BY <1>1, <1>2
<1>5. /\ exec'[r].pc = "leaf" /\ exec'[r].leaf = l /\ exec'[r].out = exec[r].out
      /\ \A q \in Runs : q # r => exec'[q] = exec[q]
  BY <1>1, <1>2 DEF ExecState
<1>6. Owned'
  <2>1. ASSUME NEW q \in Runs, NEW s \in Sessions, Holds(q, s)' PROVE Holds(q, s)
    <3>1. CASE join'[q].session = s \/ \E i \in 1..Len(memo'[q]) : memo'[q][i].session = s
      BY <3>1, <1>1 DEF Holds
    <3>2. CASE \E k \in Leaves : /\ leaf'[k].pc # "free" /\ leaf'[k].run = q
                                 /\ s \in {leaf'[k].session, leaf'[k].row.session}
      BY <3>2, <1>3, <1>4, NoSessionAssumption DEF Holds
    <3> QED
      BY <2>1, <3>1, <3>2 DEF Holds
  <2> QED
    BY <2>1, <1>1, OwnedKeeps DEF RowsInv
<1>7. f.in.resume = NoSession \/ \E i \in 1..Len(memo[r]) : memo[r][i].session = f.in.resume
  <2>1. CASE n = 1
    BY <2>1, <1>3 DEF StepInput, RowsInv, RunJoin
  <2>2. CASE n # 1
    <3>1. exec[r].loops \in Nat /\ exec[r].loops <= Len(memo[r])
      BY <1>1, <1>2 DEF ExecState, ArcInv, RunInv, AtStep
    <3>2. n - 1 \in 1..Len(memo[r])
      BY <3>1, <2>2, <1>2
    <3>3. f.in.resume = memo[r][n - 1].session
      BY <1>3, <2>2 DEF StepInput
    <3> QED
      BY <3>2, <3>3
  <2> QED
    BY <2>1, <2>2
<1>8. ASSUME NEW k \in Leaves PROVE LeafJoin(k)'
  <2>1. CASE k = l
    BY <2>1, <1>1, <1>3, <1>4, <1>5, <1>7 DEF LeafJoin
  <2>2. CASE k # l /\ leaf[k].pc # "free"
    <3>1. leaf[k].run \in Runs /\ LeafJoin(k)
      BY <2>2, LeafOfType DEF LeafState, RowsInv
    <3>2. exec'[leaf[k].run] = exec[leaf[k].run]
      BY <2>2, <3>1, <1>1, <1>5 DEF LeafJoin
    <3> QED
      BY <2>2, <3>1, <3>2, <1>1, <1>4 DEF LeafJoin, LeafRow
  <2>3. CASE k # l /\ leaf[k].pc = "free"
    BY <2>3, <1>4 DEF LeafJoin
  <2> QED
    BY <2>1, <2>2, <2>3
<1>9. ASSUME NEW q \in Runs PROVE RunJoin(q)'
  <2>1. RunJoin(q) /\ (Resting(q)' <=> Resting(q))
    BY <1>1 DEF RowsInv, Resting, Last
  <2>2. exec'[q].pc = "return" => exec'[q] = exec[q]
    BY <1>5
  <2> QED
    BY <2>1, <2>2, <1>1 DEF RunJoin, RowOf, Last
<1> QED
  BY <1>6, <1>8, <1>9 DEF RowsInv

LEMMA RecordStepKeeps ==
  ASSUME ArcInv, RowsInv, NEW r \in Runs, RecordStep(r)
  PROVE  RowsInv'
<1> DEFINE l == exec[r].leaf
           o == leaf[l].out
<1>1. /\ exec[r].pc = "leaf" /\ leaf[l].pc \in {"done", "dead"}
      /\ leaf' = [leaf EXCEPT ![l] = FreeLeaf]
      /\ UNCHANGED <<run, input, wakes, waiting, output, join, opened>>
  BY DEF RecordStep
<1>2. /\ l \in Leaves /\ leaf[l].pc # "free" /\ leaf[l].run = r
      /\ leaf \in [Leaves -> LeafState \cup {FreeLeaf}] /\ exec \in [Runs -> ExecState]
      /\ memo \in [Runs -> Seq(Outcome)] /\ exec[r] \in ExecState
  BY <1>1 DEF ArcInv, RunInv, AtLeaf, TypeOK
<1>3. /\ LeafJoin(l) /\ leaf[l].pc = "done" /\ LeafInv(l) /\ leaf[l] \in LeafState
  BY <1>1, <1>2, LeafOfType DEF RowsInv, LeafJoin, ArcInv
<1>4. o \in Outcome /\ o.session \in {leaf[l].session, NoSession} /\ StepOutcome(l) = o
  BY <1>3 DEF LeafInv, StepOutcome
<1>5. /\ \A q \in Runs : q # r => memo'[q] = memo[q] /\ exec'[q] = exec[q]
      /\ exec'[r].pc \in {"step", "idle"}
      /\ \/ memo'[r] = memo[r]
         \/ memo'[r] = Append(memo[r], o) /\ run[r] = "running"
  <2>1. CASE Accepted(r)
    <3>1. /\ memo' = [memo EXCEPT ![r] = Append(memo[r], o)]
          /\ exec' = [exec EXCEPT ![r].pc = "step", ![r].leaf = NoLeaf]
      BY <2>1, <1>4 DEF RecordStep
    <3> QED
      BY <3>1, <2>1, <1>2 DEF Accepted, ExecState
  <2>2. CASE ~Accepted(r)
    <3>1. exec' = [exec EXCEPT ![r] = IdleExec] /\ memo' = memo
      BY <2>2 DEF RecordStep
    <3> QED
      BY <3>1, <1>2 DEF IdleExec
  <2> QED
    BY <2>1, <2>2
<1>6. leaf'[l] = FreeLeaf /\ \A k \in Leaves : k # l => leaf'[k] = leaf[k]
  BY <1>1, <1>2
<1>7. FreeLeaf.pc = "free"
  BY DEF FreeLeaf
<1>8. memo[r] \in Seq(Outcome)
  BY <1>2
<1> HIDE DEF o, l
<1>9. Owned'
  <2>1. ASSUME NEW q \in Runs, NEW s \in Sessions, Holds(q, s)' PROVE Holds(q, s)
    <3>1. CASE join'[q].session = s
      BY <3>1, <1>1 DEF Holds
    <3>2. CASE \E n \in 1..Len(memo'[q]) : memo'[q][n].session = s
      <4>1. CASE memo'[q] = memo[q]
        BY <3>2, <4>1 DEF Holds
      <4>2. CASE q = r /\ memo'[r] = Append(memo[r], o)
        <5>1. PICK n \in 1..Len(memo'[r]) : memo'[r][n].session = s
          BY <3>2, <4>2
        <5>2. (n \in 1..Len(memo[r]) /\ memo'[r][n] = memo[r][n]) \/ memo'[r][n] = o
          BY <4>2, <5>1, <1>4, <1>8
        <5>3. o.session = s => s = leaf[l].session
          BY <1>4, NoSessionAssumption
        <5> QED
          BY <4>2, <5>1, <5>2, <5>3, <1>2 DEF Holds
      <4> QED
        BY <4>1, <4>2, <1>5
    <3>3. CASE \E k \in Leaves : /\ leaf'[k].pc # "free" /\ leaf'[k].run = q
                                 /\ s \in {leaf'[k].session, leaf'[k].row.session}
      BY <3>3, <1>6, <1>7 DEF Holds
    <3> QED
      BY <2>1, <3>1, <3>2, <3>3 DEF Holds
  <2> QED
    BY <2>1, <1>1, OwnedKeeps DEF RowsInv
<1>10. ASSUME NEW k \in Leaves PROVE LeafJoin(k)'
  <2>1. CASE k = l \/ leaf[k].pc = "free"
    BY <2>1, <1>6, <1>7 DEF LeafJoin
  <2>2. CASE k # l /\ leaf[k].pc # "free"
    <3>1. leaf[k].run \in Runs /\ LeafJoin(k)
      BY <2>2, LeafOfType DEF LeafState, RowsInv
    <3>2. leaf[k].run # r
      BY <2>2, <3>1 DEF LeafJoin, l
    <3> QED
      BY <2>2, <3>1, <3>2, <1>1, <1>5, <1>6 DEF LeafJoin, LeafRow
  <2> QED
    BY <2>1, <2>2
<1>11. ASSUME NEW q \in Runs PROVE RunJoin(q)'
  <2>1. CASE q # r
    BY <2>1, <1>1, <1>5 DEF RowsInv, RunJoin, Resting, RowOf, Last
  <2>2. CASE memo'[r] = memo[r]
    <3>1. RunJoin(r) /\ (Resting(r)' <=> Resting(r))
      BY <2>2, <1>1 DEF RowsInv, Resting, Last
    <3> QED
      BY <2>1, <2>2, <3>1, <1>1, <1>5 DEF RunJoin, RowOf, Last
  <2>3. CASE memo'[r] = Append(memo[r], o) /\ run[r] = "running"
    <3>1. memo'[r] # <<>> /\ Last(memo'[r]) = o
      BY <2>3, <1>4, <1>8 DEF Last
    <3>2. o.kind # "failed" => join[r] = RowOf(o)
      BY <1>2, <1>3 DEF LeafJoin, LeafRow, RowOf, o
    <3>3. input'[r].resume = NoSession
      BY <1>1 DEF RowsInv, RunJoin
    <3>4. Resting(r)' => o.kind # "failed"
      BY <3>1 DEF Resting
    <3> QED
      BY <2>1, <2>3, <3>1, <3>2, <3>3, <3>4, <1>1, <1>5 DEF RunJoin
  <2> QED
    BY <2>1, <2>2, <2>3, <1>5
<1> QED
  BY <1>9, <1>10, <1>11 DEF RowsInv

(* The body goes on, waits or returns; a settled result it returns is the   *)
(* last one recorded.                                                       *)
LEMMA GoesOnKeeps ==
  ASSUME ArcInv, RowsInv, NEW r \in Runs, Resolve(r) \/ Park(r) \/ Resume(r) \/ Complete(r)
  PROVE  RowsInv'
<1>1. /\ exec \in [Runs -> ExecState] /\ exec[r] \in ExecState /\ memo[r] \in Seq(Outcome)
      /\ run \in [Runs -> RunStatus] /\ output \in [Runs -> Outcome \cup {NoOutcome}]
  BY DEF ArcInv, TypeOK
<1>2. UNCHANGED <<input, memo, wakes, leaf, join, opened>> /\ exec[r].pc # "leaf"
  BY DEF Resolve, Park, Resume, Complete
<1>3. RunJoin(r) /\ (Resting(r)' <=> Resting(r))
  BY <1>2 DEF RowsInv, Resting, Last
<1>4. /\ \A q \in Runs \ {r} : exec'[q] = exec[q] /\ run'[q] = run[q] /\ output'[q] = output[q]
  BY <1>1 DEF Resolve, Park, Resume, Complete
<1>5. exec'[r].pc = "return" /\ exec'[r].out.kind = "settled" =>
        memo[r] # <<>> /\ exec'[r].out = Last(memo[r])
  <2>1. CASE Resolve(r)
    <3> DEFINE n == exec[r].loops + 1
    <3>1. Len(memo[r]) >= n /\ n \in Nat /\ n >= 1
      BY <2>1, <1>1 DEF Resolve, ExecState
    <3>2. memo[r][n].kind # "parked" => n = Len(memo[r])
      <4>1. \A i \in 1..(Len(memo[r]) - 1) : memo[r][i].kind = "parked"
        BY DEF ArcInv, RunInv, History
      <4> QED
        BY <3>1, <4>1, <1>1
    <3>3. memo[r] # <<>>
      BY <3>1, <1>1
    <3>4. exec'[r].pc = "return" =>
            \/ exec'[r].out = memo[r][n] /\ memo[r][n].kind # "parked"
            \/ exec'[r].out.kind = "failed"
      BY <2>1, <1>1 DEF Resolve, ExecState, Failed
    <3> QED
      BY <3>2, <3>3, <3>4 DEF Last
  <2>2. CASE Resume(r)
    BY <2>2, <1>1 DEF Resume, ExecState, Failed
  <2>3. CASE Park(r) \/ Complete(r)
    BY <2>3, <1>1 DEF Park, Complete, IdleExec
  <2> QED
    BY <2>1, <2>2, <2>3
<1>6. run'[r] = "completed" /\ output'[r].kind = "settled" =>
        memo[r] # <<>> /\ output'[r] = Last(memo[r])
  <2>1. CASE UNCHANGED <<run, output>>
    BY <2>1, <1>3 DEF RunJoin
  <2>2. CASE Complete(r) /\ Accepted(r)
    BY <2>2, <1>1, <1>3 DEF Complete, RunJoin
  <2> QED
    BY <2>1, <2>2 DEF Resolve, Park, Resume, Complete
<1>7. RunJoin(r)'
  BY <1>2, <1>3, <1>5, <1>6 DEF RunJoin, RowOf, Last
<1> QED
  BY <1>2, <1>4, <1>7, BodyKeeps

LEMMA VerbKeeps ==
  ASSUME ~ShareSessions, ArcInv, RowsInv, NEW r \in Runs,
         \/ \E in \in EngagementInput : Dispatch(r, in)
         \/ \E i \in BOOLEAN : Wake(r, i)
         \/ WaitTimeout(r) \/ Cancel(r) \/ Claim(r)
  PROVE  RowsInv'
<1>1. /\ exec \in [Runs -> ExecState] /\ input \in [Runs -> EngagementInput]
      /\ run \in [Runs -> RunStatus] /\ wakes \in [Runs -> Seq(Wakes)]
      /\ memo[r] \in Seq(Outcome) /\ wakes[r] \in Seq(Wakes)
  BY DEF ArcInv, TypeOK
<1>2. /\ UNCHANGED <<memo, leaf, join, opened, output>>
      /\ exec' = exec \/ exec[r].pc # "leaf"
      /\ \A q \in Runs \ {r} :
           exec'[q] = exec[q] /\ input'[q] = input[q] /\ wakes'[q] = wakes[q] /\ run'[q] = run[q]
  BY <1>1 DEF Dispatch, Wake, WaitTimeout, Deliver, Cancel, Claim
<1>3. input'[r].resume = NoSession
  BY <1>1 DEF Dispatch, Wake, WaitTimeout, Deliver, Cancel, Claim, RowsInv, RunJoin
<1>4. Resting(r)' => Resting(r)
  <2>1. CASE wakes' = wakes
    BY <2>1, <1>2 DEF Resting, Last
  <2>2. CASE \E d : wakes' = [wakes EXCEPT ![r] = Append(wakes[r], d)]
    <3>1. Len(wakes'[r]) = Len(wakes[r]) + 1
      BY <2>2, <1>1
    <3>2. Len(wakes[r]) \in Nat /\ Len(memo[r]) \in Nat
      BY <1>1
    <3> QED
      BY <3>1, <3>2, <1>2 DEF Resting, Last
  <2> QED
    BY <2>1, <2>2 DEF Dispatch, Wake, WaitTimeout, Deliver, Cancel, Claim
<1>5. exec'[r].pc = "return" => exec'[r] = exec[r]
  BY <1>1 DEF Dispatch, Wake, WaitTimeout, Deliver, Cancel, Claim, IdleExec
<1>6. run'[r] = "completed" => run[r] = "completed"
  BY <1>1 DEF Dispatch, Wake, WaitTimeout, Deliver, Cancel, Claim
<1>7. RunJoin(r)'
  BY <1>2, <1>3, <1>4, <1>5, <1>6 DEF RowsInv, RunJoin, RowOf, Last
<1> QED
  BY <1>2, <1>7, BodyKeeps

LEMMA CrashKeeps ==
  ASSUME ~Spawn, ArcInv, RowsInv, WorkerCrash
  PROVE  RowsInv'
<1>1. /\ \A l \in Leaves : leaf'[l] = FreeLeaf
      /\ \A r \in Runs : exec'[r] = IdleExec
      /\ UNCHANGED <<run, input, memo, wakes, output, join, opened>>
  BY DEF WorkerCrash
<1>2. FreeLeaf.pc = "free" /\ IdleExec.pc = "idle"
  BY DEF FreeLeaf, IdleExec
<1>3. Owned'
  BY <1>1, <1>2 DEF RowsInv, Owned, Holds
<1>4. \A l \in Leaves : LeafJoin(l)'
  BY <1>1, <1>2 DEF LeafJoin
<1>5. \A r \in Runs : RunJoin(r)'
  BY <1>1, <1>2 DEF RowsInv, RunJoin, Resting, RowOf, Last
<1> QED
  BY <1>3, <1>4, <1>5 DEF RowsInv

-----------------------------------------------------------------------------
LEMMA RowsInvInit == ASSUME Init PROVE RowsInv
<1>1. \A r \in Runs, s \in Sessions : ~Holds(r, s)
  BY NoSessionAssumption DEF Init, Holds, EmptyTable, NoRow, FreeLeaf
<1> QED
  BY <1>1 DEF Init, RowsInv, Owned, LeafJoin, RunJoin, Resting, FreeLeaf, IdleExec

LEMMA RowsInvStep ==
  ASSUME ~Spawn, ~ShareSessions, ArcInv, RowsInv, [Next]_vars
  PROVE  RowsInv'
<1>1. ASSUME NEW r \in Runs, BodyStep(r) PROVE RowsInv'
  <2>1. ~SpawnError(r)
    BY DEF SpawnError
  <2> QED
    BY <1>1, <2>1, StartLeafKeeps, RecordStepKeeps, GoesOnKeeps DEF BodyStep
<1>2. ASSUME NEW l \in Leaves, LeafStep(l) \/ ChildCrash(l) \/ Reap(l) PROVE RowsInv'
  <2>1. ~ChildCrash(l)
    BY DEF ChildCrash
  <2>2. ~Reap(l)
    <3>1. leaf[l].pc \in {"done", "dead"} => leaf[l].run \in Runs /\ exec[leaf[l].run].leaf = l
      BY LeafOfType DEF LeafState, RowsInv, LeafJoin
    <3> QED
      BY <3>1 DEF Reap
  <2> QED
    BY <1>2, <2>1, <2>2, LeafStepKeeps
<1>3. CASE UNCHANGED vars
  BY <1>3 DEF vars, RowsInv, Owned, Holds, LeafJoin, LeafRow, RunJoin, Resting, RowOf, Last
<1> QED
  BY <1>1, <1>2, <1>3, VerbKeeps, CrashKeeps DEF Next

LEMMA RowsInvAlways ==
  ASSUME ~Spawn, ~ShareSessions
  PROVE  Spec => []RowsInv
<1>1. ArcInv /\ RowsInv /\ [Next]_vars => RowsInv'
  BY RowsInvStep
<1> QED
  BY <1>1, RowsInvInit, ArcInvariant, PTL DEF Spec

(* A parked run can be found by the session its wake will resume, through   *)
(* crashes and faults of the store and whatever other runs put              *)
(* (engagement.ts, the put of a parked leaf; SqliteJoinStore.put).          *)
THEOREM ParkedJoinsAreResumable ==
  ASSUME ~Spawn, ~ShareSessions
  PROVE  Spec => []ParkedJoinIsResumable
<1>1. ArcInv /\ RowsInv => ParkedJoinIsResumable
  <2>1. ASSUME ArcInv, RowsInv, NEW r \in Runs, waiting[r]
        PROVE  join[r] = [session |-> Last(memo[r]).session, status |-> "parked"]
    <3>1. /\ Len(memo[r]) = Len(wakes[r]) + 1 /\ Last(memo[r]).kind = "parked"
          /\ memo[r] \in Seq(Outcome) /\ wakes[r] \in Seq(Wakes)
      BY <2>1 DEF ArcInv, RunInv, WaitInv, Last, TypeOK
    <3>2. Resting(r)
      BY <3>1 DEF Resting
    <3> QED
      BY <2>1, <3>1, <3>2 DEF RowsInv, RunJoin, RowOf
  <2> QED
    BY <2>1 DEF ParkedJoinIsResumable
<1> QED
  BY <1>1, RowsInvAlways, ArcInvariant, PTL

(* A run that completed as settled is settled in the join table too, on the *)
(* session its result names (engagement.ts, updateStatus).                  *)
THEOREM SettledRunsAreRecorded ==
  ASSUME ~Spawn, ~ShareSessions
  PROVE  Spec => []SettledIsRecorded
<1>1. RowsInv => SettledIsRecorded
  BY DEF RowsInv, RunJoin, Resting, RowOf, SettledIsRecorded
<1> QED
  BY <1>1, RowsInvAlways, PTL

(* A session has one writer at a time, across crashes, re-claims and wakes  *)
(* (materialize of the leaf, reopening what was parked).                    *)
THEOREM OneWriterPerSession ==
  ASSUME ~Spawn, ~ShareSessions
  PROVE  Spec => []OneLeafPerSession
<1>1. ArcInv /\ RowsInv => OneLeafPerSession
  <2>1. ASSUME ArcInv, RowsInv, NEW l \in Leaves, NEW m \in Leaves, Working(l), Working(m),
               leaf[l].session = leaf[m].session
        PROVE  l = m
    <3>1. leaf[l].pc # "free" /\ leaf[m].pc # "free"
      BY <2>1 DEF Working
    <3>2. /\ leaf[l].session \in Sessions
          /\ leaf[l].run \in Runs /\ leaf[m].run \in Runs
      BY <2>1, <3>1, LeafOfType DEF ArcInv, LeafInv, LeafState
    <3>3. Holds(leaf[l].run, leaf[l].session) /\ Holds(leaf[m].run, leaf[l].session)
      BY <2>1, <3>1 DEF Holds
    <3>4. leaf[l].run = leaf[m].run
      BY <2>1, <3>2, <3>3 DEF RowsInv, Owned
    <3> QED
      BY <2>1, <3>1, <3>4 DEF RowsInv, LeafJoin
  <2> QED
    BY <2>1 DEF OneLeafPerSession
<1> QED
  BY <1>1, RowsInvAlways, ArcInvariant, PTL

-----------------------------------------------------------------------------
(* Notifications.  While no worker has crashed, a note of a step that is    *)
(* recorded tells the recorded kind, unless the body has given up or ended; *)
(* a note of the step in progress is its leaf's, which is done.             *)

Over(r) == exec[r].pc = "idle" /\ run[r] \in {"completed", "failed", "canceled"}

NoteOf(r, note) ==
  /\ note.step <= Len(memo[r]) + 1
  /\ note.step = Len(memo[r]) + 1 =>
       \/ Over(r)
       \/ /\ exec[r].pc = "leaf" /\ leaf[exec[r].leaf].pc = "done"
          /\ note.kind = leaf[exec[r].leaf].out.kind
  /\ note.step \in 1..Len(memo[r]) =>
       Over(r) \/ exec[r].pc = "return" \/ note.kind = memo[r][note.step].kind

TellsOnce(r) ==
  /\ exec[r].pc # "idle" => run[r] \notin {"absent", "pending"}
  /\ exec[r].pc = "leaf" => leaf[exec[r].leaf].step = Len(memo[r]) + 1
  /\ \A i \in 1..Len(notes[r]) : NoteOf(r, notes[r][i])
  /\ \A i, j \in 1..Len(notes[r]) : notes[r][i] = notes[r][j] => i = j

NotesInv == crashes = 0 => \A r \in Runs : TellsOnce(r)

(* A step that tells nothing of run r and records nothing for it. *)
LEMMA QuietKeeps ==
  ASSUME NEW r \in Runs, TellsOnce(r), notes'[r] = notes[r], memo'[r] = memo[r],
         exec'[r].pc # "idle" => run'[r] \notin {"absent", "pending"},
         exec'[r].pc = "leaf" => leaf'[exec'[r].leaf].step = Len(memo[r]) + 1,
         exec[r].pc = "leaf" /\ leaf[exec[r].leaf].pc = "done" =>
           \/ Over(r)'
           \/ exec'[r] = exec[r] /\ leaf'[exec[r].leaf] = leaf[exec[r].leaf],
         Over(r) => Over(r)',
         exec[r].pc = "return" => Over(r)' \/ exec'[r].pc = "return"
  PROVE  TellsOnce(r)'
<1>1. ASSUME NEW i \in 1..Len(notes[r]) PROVE NoteOf(r, notes[r][i])'
  <2>1. NoteOf(r, notes[r][i]) /\ notes'[r][i] = notes[r][i]
    BY DEF TellsOnce
  <2> QED
    BY <2>1 DEF NoteOf
<1> QED
  BY <1>1 DEF TellsOnce

(* The notes of r are now ms, each of which is right. *)
LEMMA AllFit ==
  ASSUME NEW r \in Runs, NEW ms, notes'[r] = ms,
         exec'[r].pc # "idle" => run'[r] \notin {"absent", "pending"},
         exec'[r].pc = "leaf" => leaf'[exec'[r].leaf].step = Len(memo'[r]) + 1,
         \A x : (\E i \in 1..Len(ms) : x = ms[i]) => NoteOf(r, x)',
         \A i, j \in 1..Len(ms) : ms[i] = ms[j] => i = j
  PROVE  TellsOnce(r)'
<1>1. ASSUME NEW i \in 1..Len(notes'[r]) PROVE NoteOf(r, notes[r][i])'
  <2>1. \A x : x = ms[i] => NoteOf(r, x)'
    BY <1>1
  <2> QED
    BY <2>1 DEF NoteOf
<1> QED
  BY <1>1 DEF TellsOnce

(* A note that was not there is appended. *)
LEMMA NewNote ==
  ASSUME NEW ns \in Seq(Note), NEW step \in Nat, NEW kind \in {"settled", "parked", "failed"},
         \A i \in 1..Len(ns) : ns[i] # [step |-> step, kind |-> kind],
         \A i, j \in 1..Len(ns) : ns[i] = ns[j] => i = j
  PROVE  LET ms == Noted(ns, step, kind)
         IN  /\ Len(ms) = Len(ns) + 1 /\ ms[Len(ms)] = [step |-> step, kind |-> kind]
             /\ \A i \in 1..Len(ns) : ms[i] = ns[i]
             /\ \A i, j \in 1..Len(ms) : ms[i] = ms[j] => i = j
<1> DEFINE x == [step |-> step, kind |-> kind]
           ms == Append(ns, x)
<1>1. x \in Note
  BY DEF Note
<1> HIDE DEF x
<1>2. /\ Len(ms) = Len(ns) + 1 /\ ms[Len(ns) + 1] = x /\ Len(ns) \in Nat
      /\ \A i \in 1..Len(ns) : ms[i] = ns[i]
  BY <1>1
<1>3. \A i \in 1..Len(ns) : ns[i] # x
  BY DEF x
<1> HIDE DEF ms
<1>4. ASSUME NEW i \in 1..Len(ms), NEW j \in 1..Len(ms), ms[i] = ms[j] PROVE i = j
  <2>1. CASE i = Len(ns) + 1 \/ j = Len(ns) + 1
    BY <1>2, <1>3, <1>4, <2>1
  <2>2. CASE i \in 1..Len(ns) /\ j \in 1..Len(ns)
    BY <1>2, <1>4, <2>2
  <2> QED
    BY <1>2, <2>1, <2>2
<1> QED
  BY <1>2, <1>4 DEF Noted, ms, x

(* What a leaf step tells: nothing before it is done, and then its outcome. *)
LEMMA LeafTells ==
  ASSUME ~Spawn, ArcInv, RowsInv, NEW l \in Leaves, LeafStep(l), NEW r \in Runs, r = leaf[l].run
  PROVE  /\ leaf[l].pc # "done" /\ leaf'[l].step = leaf[l].step
         /\ \/ notes' = notes /\ leaf'[l].pc # "done"
            \/ /\ leaf'[l].pc = "done"
               /\ leaf'[l].out.kind \in {"settled", "parked", "failed"}
               /\ notes' = [notes EXCEPT ![r] = Noted(@, leaf[l].step, leaf'[l].out.kind)]
<1>1. /\ leaf[l] \in LeafState /\ leaf \in [Leaves -> LeafState \cup {FreeLeaf}]
      /\ LeafInv(l)
  BY LeafMoves DEF ArcInv, TypeOK
<1>2. leaf[l].pc # "done" /\ leaf'[l].step = leaf[l].step
  BY <1>1 DEF LeafStep, OpenFails, Open, PutEngaging, Engage, PutParked, ReadRow, WriteRow,
         JoinThrows, LeafState
<1>3. CASE Open(l) \/ PutEngaging(l) \/ Engage(l) \/ ReadRow(l)
           \/ (JoinThrows(l) /\ leaf[l].pc \notin {"catchRead", "catchWrite"})
  BY <1>1, <1>2, <1>3 DEF Open, PutEngaging, Engage, ReadRow, JoinThrows, LeafState
<1>4. CASE OpenFails(l)
  BY <1>1, <1>2, <1>4 DEF OpenFails, LeafNoted, LeafState, Failed
<1>5. CASE PutParked(l)
  BY <1>1, <1>2, <1>5 DEF PutParked, LeafNoted, LeafState, LeafInv
<1>6. CASE WriteRow(l)
  BY <1>1, <1>2, <1>6 DEF WriteRow, LeafNoted, LeafState, LeafInv, Outcome
<1>7. CASE JoinThrows(l) /\ leaf[l].pc \in {"catchRead", "catchWrite"}
  BY <1>1, <1>2, <1>7 DEF JoinThrows, LeafNoted, LeafState, LeafInv
<1> QED
  BY <1>3, <1>4, <1>5, <1>6, <1>7 DEF LeafStep

LEMMA LeafStepTells ==
  ASSUME ~Spawn, ArcInv, RowsInv, NEW l \in Leaves, LeafStep(l),
         NEW q \in Runs, TellsOnce(q)
  PROVE  TellsOnce(q)'
<1> DEFINE r == leaf[l].run
<1>1. /\ leaf[l] \in LeafState /\ leaf[l].pc # "free"
      /\ leaf' = [leaf EXCEPT ![l] = leaf'[l]]
      /\ UNCHANGED <<run, input, memo, wakes, waiting, output, exec>>
  BY LeafMoves
<1>2. /\ r \in Runs /\ exec[r].pc = "leaf" /\ exec[r].leaf = l
      /\ leaf \in [Leaves -> LeafState \cup {FreeLeaf}] /\ notes \in [Runs -> Seq(Note)]
      /\ notes[q] \in Seq(Note) /\ memo[q] \in Seq(Outcome) /\ leaf[l].step \in Nat
  BY <1>1 DEF LeafState, RowsInv, LeafJoin, ArcInv, TypeOK
<1>3. /\ leaf[l].pc # "done" /\ leaf'[l].step = leaf[l].step
      /\ \/ notes' = notes /\ leaf'[l].pc # "done"
         \/ /\ leaf'[l].pc = "done"
            /\ leaf'[l].out.kind \in {"settled", "parked", "failed"}
            /\ notes' = [notes EXCEPT ![r] = Noted(@, leaf[l].step, leaf'[l].out.kind)]
  BY <1>2, LeafTells
<1>4. \A k \in Leaves : k # l => leaf'[k] = leaf[k]
  BY <1>1, <1>2
<1>5. exec[q].pc = "leaf" => exec[q].leaf \in Leaves /\ leaf[exec[q].leaf].run = q
  BY DEF ArcInv, RunInv, AtLeaf
<1>6. Over(q)' <=> Over(q)
  BY <1>1 DEF Over
<1>7. CASE q # r
  <2>1. notes'[q] = notes[q]
    BY <1>2, <1>3, <1>7
  <2>2. exec[q].pc = "leaf" => leaf'[exec[q].leaf] = leaf[exec[q].leaf]
    BY <1>4, <1>5, <1>7
  <2> QED
    BY <2>1, <2>2, <1>1, <1>6, QuietKeeps DEF TellsOnce
<1>8. CASE q = r /\ notes' = notes
  <2>1. /\ notes'[q] = notes[q] /\ memo'[q] = memo[q] /\ exec'[q] = exec[q] /\ run'[q] = run[q]
        /\ exec[q].leaf = l /\ leaf[l].pc # "done" /\ leaf'[l].step = leaf[l].step
    BY <1>1, <1>2, <1>3, <1>8
  <2>2. leaf[l].step = Len(memo[q]) + 1 /\ run[q] \notin {"absent", "pending"}
    BY <2>1, <1>2, <1>8 DEF TellsOnce
  <2> QED
    BY <2>1, <2>2, <1>6, QuietKeeps
<1>9. CASE q = r /\ notes' # notes
  <2> DEFINE n == leaf[l].step
             kind == leaf'[l].out.kind
             ms == Noted(notes[q], n, kind)
  <2>1. /\ leaf'[l].pc = "done" /\ kind \in {"settled", "parked", "failed"}
        /\ notes'[q] = ms
    BY <1>2, <1>3, <1>9
  <2>2. n = Len(memo[q]) + 1 /\ ~Over(q) /\ exec[q].pc # "return"
    BY <1>2, <1>9 DEF TellsOnce, Over
  <2>3. \A i \in 1..Len(notes[q]) : NoteOf(q, notes[q][i]) /\ notes[q][i].step # n
    BY <1>2, <1>3, <1>9, <2>2 DEF TellsOnce, NoteOf
  <2>4. /\ Len(ms) = Len(notes[q]) + 1 /\ ms[Len(ms)] = [step |-> n, kind |-> kind]
        /\ \A i \in 1..Len(notes[q]) : ms[i] = notes[q][i]
        /\ \A i, j \in 1..Len(ms) : ms[i] = ms[j] => i = j
    <3>1. \A i \in 1..Len(notes[q]) : notes[q][i] # [step |-> n, kind |-> kind]
      BY <2>3
    <3>2. \A i, j \in 1..Len(notes[q]) : notes[q][i] = notes[q][j] => i = j
      BY <1>9 DEF TellsOnce
    <3>3. notes[q] \in Seq(Note) /\ n \in Nat
      BY <1>2, <1>9
    <3> HIDE DEF n, kind
    <3> QED
      BY <3>1, <3>2, <3>3, <2>1, NewNote
  <2>5. /\ exec'[q] = exec[q] /\ run'[q] = run[q] /\ memo'[q] = memo[q] /\ exec[q].leaf = l
        /\ leaf'[l].step = n /\ exec[q].pc = "leaf" /\ run[q] \notin {"absent", "pending"}
    BY <1>1, <1>2, <1>3, <1>9 DEF TellsOnce
  <2>6. leaf'[l].out.kind = kind /\ Len(memo[q]) \in Nat
    BY <1>2, <1>9
  <2> HIDE DEF n, kind, ms
  <2>7. ASSUME NEW x, NEW i \in 1..Len(ms), x = ms[i] PROVE NoteOf(q, x)'
    <3>1. CASE i \in 1..Len(notes[q])
      <4>1. x = notes[q][i] /\ NoteOf(q, x) /\ x.step # n
        BY <3>1, <2>3, <2>4, <2>7
      <4> QED
        BY <4>1, <2>2, <2>5 DEF NoteOf
    <3>2. CASE i = Len(ms)
      <4>1. x.step = n /\ x.kind = kind
        BY <3>2, <2>4, <2>7
      <4> QED
        BY <4>1, <2>1, <2>2, <2>5, <2>6 DEF NoteOf
    <3>3. Len(notes[q]) \in Nat
      BY <1>2, <1>9
    <3> QED
      BY <3>1, <3>2, <3>3, <2>4
  <2>8. TellsOnce(q)'
    <3>1. \A x : (\E i \in 1..Len(ms) : x = ms[i]) => NoteOf(q, x)'
      BY <2>7
    <3>2. leaf'[exec'[q].leaf].step = Len(memo'[q]) + 1 /\ run'[q] \notin {"absent", "pending"}
      BY <2>2, <2>5
    <3> QED
      BY <2>1, <2>4, <3>1, <3>2, AllFit
  <2> QED
    BY <2>8, <1>9
<1> QED
  BY <1>7, <1>8, <1>9

(* The body gives up on a step that is recorded as parked. *)
LEMMA GivesUpTells ==
  ASSUME ArcInv, NEW r \in Runs, TellsOnce(r), NEW n \in 1..Len(memo[r]),
         exec[r].pc \in {"step", "wait"}, memo[r][n].kind = "parked",
         notes'[r] = GaveUp(notes[r], n), exec'[r].pc = "return",
         run'[r] = run[r], memo'[r] = memo[r]
  PROVE  TellsOnce(r)'
<1> DEFINE ms == Noted(notes[r], n, "failed")
<1>1. notes[r] \in Seq(Note) /\ memo[r] \in Seq(Outcome) /\ n \in Nat /\ ~Over(r)
  BY DEF ArcInv, TypeOK, Over
<1>2. ASSUME NEW i \in 1..Len(notes[r])
      PROVE  /\ notes[r][i] # [step |-> n, kind |-> "failed"]
             /\ notes[r][i].step <= Len(memo[r]) + 1 /\ notes[r][i].step # Len(memo[r]) + 1
  <2>1. NoteOf(r, notes[r][i])
    BY DEF TellsOnce
  <2>2. notes[r][i].step = n => notes[r][i].kind = "parked"
    BY <2>1, <1>1 DEF NoteOf
  <2> QED
    BY <2>1, <2>2, <1>1 DEF NoteOf
<1>3. /\ Len(ms) = Len(notes[r]) + 1 /\ ms[Len(ms)] = [step |-> n, kind |-> "failed"]
      /\ \A i \in 1..Len(notes[r]) : ms[i] = notes[r][i]
      /\ \A i, j \in 1..Len(ms) : ms[i] = ms[j] => i = j
  <2>1. \A i, j \in 1..Len(notes[r]) : notes[r][i] = notes[r][j] => i = j
    BY DEF TellsOnce
  <2> QED
    BY <2>1, <1>1, <1>2, NewNote
<1>4. notes'[r] = ms
  BY DEF GaveUp
<1> HIDE DEF ms
<1>5. ASSUME NEW x, NEW i \in 1..Len(ms), x = ms[i] PROVE NoteOf(r, x)'
  <2>1. x.step <= Len(memo[r]) + 1 /\ x.step # Len(memo[r]) + 1
    <3>1. CASE i \in 1..Len(notes[r])
      BY <3>1, <1>2, <1>3, <1>5
    <3>2. CASE i = Len(ms)
      BY <3>2, <1>1, <1>3, <1>5
    <3> QED
      BY <3>1, <3>2, <1>1, <1>3
  <2> QED
    BY <2>1 DEF NoteOf
<1>6. run[r] \notin {"absent", "pending"}
  BY DEF TellsOnce
<1> QED
  BY <1>3, <1>4, <1>5, <1>6, AllFit

LEMMA BodyTells ==
  ASSUME ~Spawn, ArcInv, RowsInv, NEW r \in Runs, BodyStep(r), NEW q \in Runs, TellsOnce(q)
  PROVE  TellsOnce(q)'
<1>1. /\ exec \in [Runs -> ExecState] /\ notes \in [Runs -> Seq(Note)]
      /\ memo \in [Runs -> Seq(Outcome)] /\ run \in [Runs -> RunStatus]
      /\ leaf \in [Leaves -> LeafState \cup {FreeLeaf}]
      /\ memo[r] \in Seq(Outcome) /\ exec[r] \in ExecState /\ exec[r].loops \in Nat
      /\ notes[r] \in Seq(Note)
  BY DEF ArcInv, TypeOK, ExecState
<1>2. exec[q].pc = "leaf" =>
        exec[q].leaf \in Leaves /\ leaf[exec[q].leaf].run = q /\ leaf[exec[q].leaf].pc # "free"
  BY DEF ArcInv, RunInv, AtLeaf
<1>3. ~SpawnError(r)
  BY DEF SpawnError
<1>4. CASE q # r
  <2>1. /\ exec'[q] = exec[q] /\ notes'[q] = notes[q] /\ memo'[q] = memo[q] /\ run'[q] = run[q]
    BY <1>1, <1>3, <1>4
    DEF BodyStep, StartLeaf, RecordStep, Resolve, Park, Resume, Complete
  <2>2. exec[q].pc = "leaf" => leaf'[exec[q].leaf] = leaf[exec[q].leaf]
    <3>1. CASE \E l \in Leaves : StartLeaf(r, l)
      BY <3>1, <1>1, <1>2 DEF StartLeaf
    <3>2. CASE RecordStep(r)
      <4>1. leaf[exec[r].leaf].run = r
        BY <3>2 DEF RecordStep, ArcInv, RunInv, AtLeaf
      <4> QED
        BY <3>2, <4>1, <1>1, <1>2, <1>4 DEF RecordStep
    <3>3. CASE Resolve(r) \/ Park(r) \/ Resume(r) \/ Complete(r)
      BY <3>3 DEF Resolve, Park, Resume, Complete
    <3> QED
      BY <3>1, <3>2, <3>3, <1>3 DEF BodyStep
  <2> QED
    BY <2>1, <2>2, QuietKeeps DEF TellsOnce, Over
<1>5. CASE q = r /\ \E l \in Leaves : StartLeaf(r, l)
  <2>1. PICK l \in Leaves : StartLeaf(r, l)
    BY <1>5
  <2>2. /\ exec[r].pc = "step" /\ exec'[r].pc = "leaf" /\ exec'[r].leaf = l
        /\ leaf'[l].step = exec[r].loops + 1
        /\ UNCHANGED <<run, notes, memo>> /\ Len(memo[r]) < exec[r].loops + 1
    BY <2>1, <1>1 DEF StartLeaf, ExecState
  <2>3. exec[r].loops = Len(memo[r])
    BY <2>2, <1>1 DEF ArcInv, RunInv, AtStep
  <2> QED
    BY <2>2, <2>3, <1>5, QuietKeeps DEF TellsOnce, Over
<1>6. CASE q = r /\ RecordStep(r)
  <2> DEFINE l == exec[r].leaf
             o == leaf[l].out
  <2>1. /\ l \in Leaves /\ exec[r].pc = "leaf" /\ leaf[l].run = r /\ leaf[l].pc = "done"
        /\ o \in Outcome /\ StepOutcome(l) = o
    <3>1. /\ l \in Leaves /\ exec[r].pc = "leaf" /\ leaf[l].run = r /\ leaf[l].pc \in {"done", "dead"}
      BY <1>2, <1>6 DEF RecordStep
    <3>2. LeafJoin(l) /\ LeafInv(l)
      BY <3>1 DEF RowsInv, ArcInv
    <3> QED
      BY <3>1, <3>2 DEF LeafJoin, LeafInv, StepOutcome
  <2>2. UNCHANGED <<run, notes>> /\ run[r] \notin {"absent", "pending"} /\ run[r] \in RunStatus
        /\ ~Over(r)
    BY <1>1, <1>6, <2>1 DEF RecordStep, TellsOnce, Over
  <2>3. CASE Accepted(r)
    <3>1. memo'[r] = Append(memo[r], o) /\ exec'[r].pc = "step"
      BY <1>1, <1>6, <2>1, <2>3 DEF RecordStep, ExecState
    <3>2. /\ Len(memo'[r]) = Len(memo[r]) + 1 /\ memo'[r][Len(memo[r]) + 1] = o
          /\ \A i \in 1..Len(memo[r]) : memo'[r][i] = memo[r][i]
      BY <3>1, <2>1, <1>1
    <3>3. ASSUME NEW i \in 1..Len(notes[r]) PROVE NoteOf(r, notes[r][i])'
      <4> DEFINE m == notes[r][i].step
      <4>1. NoteOf(r, notes[r][i]) /\ notes'[r][i] = notes[r][i] /\ m \in Nat
        <5>1. notes[r][i] \in Note
          BY <1>1
        <5> QED
          BY <5>1, <1>6, <2>2 DEF TellsOnce, Note
      <4>2. m <= Len(memo[r]) + 1 /\ Len(memo[r]) \in Nat
        BY <4>1, <1>1 DEF NoteOf
      <4>3. m \in 1..Len(memo'[r]) => notes[r][i].kind = memo'[r][m].kind
        <5>1. CASE m = Len(memo[r]) + 1
          BY <5>1, <4>1, <3>2, <2>1, <2>2 DEF NoteOf
        <5>2. CASE m \in 1..Len(memo[r])
          BY <5>2, <4>1, <3>2, <2>1, <2>2 DEF NoteOf
        <5> QED
          BY <5>1, <5>2, <4>2, <3>2
      <4> QED
        BY <4>1, <4>2, <4>3, <3>2 DEF NoteOf
    <3> QED
      BY <3>1, <3>3, <2>2, <1>6 DEF TellsOnce
  <2>4. CASE ~Accepted(r)
    <3>1. memo' = memo /\ exec'[r].pc = "idle"
      BY <1>1, <1>6, <2>4 DEF RecordStep, IdleExec
    <3>2. Over(r)'
      BY <3>1, <2>2, <2>4 DEF Over, Accepted, RunStatus
    <3> QED
      BY <3>1, <3>2, <2>1, <2>2, <1>6, QuietKeeps
  <2> QED
    BY <2>3, <2>4
<1>7. CASE q = r /\ Resolve(r)
  <2> DEFINE n == exec[r].loops + 1
  <2>1. n \in 1..Len(memo[r]) /\ exec[r].pc = "step" /\ UNCHANGED <<run, memo, leaf>>
        /\ run[r] \notin {"absent", "pending"}
    BY <1>1, <1>7 DEF Resolve, TellsOnce
  <2>2. \/ exec'[r].pc \in {"return", "wait"} /\ notes'[r] = notes[r]
        \/ /\ exec'[r].pc = "return" /\ notes'[r] = GaveUp(notes[r], n)
           /\ memo[r][n].kind = "parked"
    BY <1>1, <1>7 DEF Resolve, ArcNoted, ExecState
  <2> HIDE DEF n
  <2>3. CASE exec'[r].pc \in {"return", "wait"} /\ notes'[r] = notes[r]
    BY <2>1, <2>3, <1>7, QuietKeeps DEF Over
  <2>4. CASE /\ exec'[r].pc = "return" /\ notes'[r] = GaveUp(notes[r], n)
             /\ memo[r][n].kind = "parked"
    BY <2>1, <2>4, <1>7, GivesUpTells
  <2> QED
    BY <2>2, <2>3, <2>4
<1>8. CASE q = r /\ Resume(r)
  <2> DEFINE n == exec[r].loops
  <2>1. /\ n \in 1..Len(memo[r]) /\ exec[r].pc = "wait" /\ memo[r][n].kind = "parked"
        /\ UNCHANGED <<run, memo, leaf>> /\ run[r] \notin {"absent", "pending"}
    BY <1>1, <1>8 DEF Resume, TellsOnce, ArcInv, RunInv, AtWait
  <2>2. \/ exec'[r].pc = "step" /\ notes'[r] = notes[r]
        \/ exec'[r].pc = "return" /\ notes'[r] = GaveUp(notes[r], n)
    BY <1>1, <1>8 DEF Resume, ExecState
  <2> HIDE DEF n
  <2>3. CASE exec'[r].pc = "step" /\ notes'[r] = notes[r]
    BY <2>1, <2>3, <1>8, QuietKeeps DEF Over
  <2>4. CASE exec'[r].pc = "return" /\ notes'[r] = GaveUp(notes[r], n)
    BY <2>1, <2>4, <1>8, GivesUpTells
  <2> QED
    BY <2>2, <2>3, <2>4
<1>9. CASE q = r /\ (Park(r) \/ Complete(r))
  <2>1. /\ exec[r].pc \in {"wait", "return"} /\ exec'[r].pc = "idle"
        /\ UNCHANGED <<notes, memo, leaf>> /\ ~Over(r)
    BY <1>1, <1>9 DEF Park, Complete, IdleExec, Over
  <2>2. exec[r].pc = "return" => Over(r)'
    BY <1>1, <1>9, <2>1 DEF Park, Complete, Accepted, Over, RunStatus, TellsOnce
  <2> QED
    BY <2>1, <2>2, <1>9, QuietKeeps
<1> QED
  BY <1>3, <1>4, <1>5, <1>6, <1>7, <1>8, <1>9 DEF BodyStep

LEMMA VerbTells ==
  ASSUME ArcInv, NEW r \in Runs,
         \/ \E in \in EngagementInput : Dispatch(r, in)
         \/ \E i \in BOOLEAN : Wake(r, i)
         \/ WaitTimeout(r) \/ Cancel(r) \/ Claim(r),
         NEW q \in Runs, TellsOnce(q)
  PROVE  TellsOnce(q)'
<1>1. exec \in [Runs -> ExecState] /\ run \in [Runs -> RunStatus]
  BY DEF ArcInv, TypeOK
<1>2. UNCHANGED <<notes, memo, leaf>>
  BY DEF Dispatch, Wake, WaitTimeout, Deliver, Cancel, Claim
<1>3. \/ exec'[q] = exec[q] /\ run'[q] = run[q]
      \/ exec'[q] = exec[q] /\ run[q] = "absent" /\ run'[q] = "pending"
      \/ exec'[q] = exec[q] /\ run[q] \in {"pending", "running"} /\ run'[q] = "canceled"
      \/ /\ exec[q].pc = "idle" /\ run[q] \in {"pending", "running"}
         /\ exec'[q].pc = "step" /\ run'[q] = "running"
  BY <1>1 DEF Dispatch, Wake, WaitTimeout, Deliver, Cancel, Claim, Due, IdleExec
<1> QED
  BY <1>2, <1>3, QuietKeeps DEF Over, TellsOnce

LEMMA NotesInvStep ==
  ASSUME ~Spawn, ~ShareSessions, ArcInv, RowsInv, NotesInv, [Next]_vars
  PROVE  NotesInv'
<1> SUFFICES ASSUME crashes' = 0, NEW q \in Runs PROVE TellsOnce(q)'
  BY DEF NotesInv
<1>1. crashes \in Nat
  BY DEF ArcInv, TypeOK
<1>2. ~WorkerCrash
  BY <1>1 DEF WorkerCrash
<1>3. CASE UNCHANGED vars
  BY <1>3 DEF vars, NotesInv, TellsOnce, NoteOf, Over
<1>4. CASE Next
  <2>1. crashes = 0
    BY <1>2, <1>4
    DEF Next, Dispatch, Wake, WaitTimeout, Deliver, Cancel, Claim, BodyStep, StartLeaf,
        SpawnError, RecordStep, Resolve, Park, Resume, Complete, LeafStep, OpenFails, Open,
        PutEngaging, Engage, PutParked, ReadRow, WriteRow, JoinThrows, ChildCrash, Reap,
        leafOnlyUnchanged
  <2>2. TellsOnce(q)
    BY <2>1 DEF NotesInv
  <2>3. \A l \in Leaves : ~ChildCrash(l) /\ ~Reap(l)
    <3>1. ASSUME NEW l \in Leaves, leaf[l].pc \in {"done", "dead"}
          PROVE  leaf[l].run \in Runs /\ exec[leaf[l].run].leaf = l
      BY <3>1, LeafOfType DEF LeafState, RowsInv, LeafJoin
    <3> QED
      BY <3>1 DEF ChildCrash, Reap
  <2> QED
    BY <1>2, <1>4, <2>2, <2>3, LeafStepTells, BodyTells, VerbTells DEF Next
<1> QED
  BY <1>3, <1>4

(* While no worker has crashed, no leaf step is reported twice with the     *)
(* same outcome, however often the body is re-run                           *)
(* (engagement-arc.ts, leafNotifyForOutcome, arcNotifyForOutcome).          *)
THEOREM StepsAreToldOnce ==
  ASSUME ~Spawn, ~ShareSessions
  PROVE  Spec => []OneNotePerStep
<1>1. Init => NotesInv
  <2> SUFFICES ASSUME Init, NEW r \in Runs PROVE TellsOnce(r)
    BY DEF NotesInv
  <2>1. notes[r] = <<>> /\ Len(<<>>) = 0 /\ exec[r].pc = "idle"
    BY DEF Init, IdleExec
  <2> HIDE DEF Init
  <2>2. 1..Len(notes[r]) = {}
    BY <2>1
  <2> QED
    BY <2>1, <2>2 DEF TellsOnce
<1>2. ArcInv /\ RowsInv /\ NotesInv /\ [Next]_vars => NotesInv'
  BY NotesInvStep
<1>3. NotesInv => OneNotePerStep
  BY DEF NotesInv, TellsOnce, OneNotePerStep
<1> QED
  BY <1>1, <1>2, <1>3, RowsInvAlways, ArcInvariant, PTL DEF Spec

-----------------------------------------------------------------------------
(* The client that waits for a run. *)

(* Every step of the system or its client is a step of the arc or leaves it *)
(* alone.                                                                   *)
LEMMA ClientStepIsArcStep == ASSUME [ClientNext]_allVars PROVE [Next]_vars
<1>1. CASE SystemStep
  <2>1. CASE \E r \in Runs, i \in BOOLEAN : Dispatch(r, [resume |-> NoSession, parkIntent |-> i])
    <3>1. \A i \in BOOLEAN : [resume |-> NoSession, parkIntent |-> i] \in EngagementInput
      BY DEF EngagementInput, MaybeSession
    <3> QED
      BY <2>1, <3>1 DEF Next
  <2> QED
    BY <1>1, <2>1 DEF SystemStep, Next
<1>2. CASE \E r \in Runs : CallWait(r) \/ PollOnce(r) \/ PollDeadline(r)
  BY <1>2 DEF CallWait, PollOnce, PollDeadline
<1>3. CASE \E r \in Runs : AnswerPark(r)
  BY <1>3 DEF AnswerPark, Next
<1>4. CASE UNCHANGED allVars
  BY <1>4 DEF allVars
<1> QED
  BY <1>1, <1>2, <1>3, <1>4 DEF ClientNext

LEMMA ClientIsArc == ClientSpec => Spec
<1>1. ClientInit => Init
  BY DEF ClientInit
<1> QED
  BY <1>1, ClientStepIsArcStep, PTL DEF ClientSpec, Spec

(* The end of a run is final. *)
LEMMA EndsAreFinal ==
  ASSUME TypeOK, [Next]_vars, NEW r \in Runs, run[r] \in Ended
  PROVE  run'[r] = run[r]
<1>1. CASE UNCHANGED run
  BY <1>1
<1>2. CASE \E q \in Runs, to \in RunStatus :
             /\ run[q] \in {"absent", "pending", "running"}
             /\ run' = [run EXCEPT ![q] = to]
  BY <1>2 DEF TypeOK, Ended
<1>3. UNCHANGED run \/ \E q \in Runs, to \in RunStatus :
             /\ run[q] \in {"absent", "pending", "running"}
             /\ run' = [run EXCEPT ![q] = to]
  <2>1. CASE \E q \in Runs : \/ \E in \in EngagementInput : Dispatch(q, in)
                             \/ Cancel(q) \/ Claim(q)
    BY <2>1 DEF Dispatch, Cancel, Claim, Due, RunStatus
  <2>2. CASE \E q \in Runs : WaitTimeout(q) \/ \E i \in BOOLEAN : Wake(q, i)
    BY <2>2 DEF WaitTimeout, Wake, Deliver
  <2>3. CASE \E q \in Runs : BodyStep(q)
    BY <2>3
    DEF BodyStep, StartLeaf, SpawnError, RecordStep, Resolve, Park, Resume, Complete,
        Accepted, RunStatus
  <2>4. CASE \E l \in Leaves : LeafStep(l) \/ ChildCrash(l) \/ Reap(l)
    BY <2>4
    DEF LeafStep, OpenFails, Open, PutEngaging, Engage, PutParked, ReadRow, WriteRow,
        JoinThrows, ChildCrash, Reap, leafOnlyUnchanged
  <2>5. CASE WorkerCrash \/ UNCHANGED vars
    BY <2>5 DEF WorkerCrash, vars
  <2> QED
    BY <2>1, <2>2, <2>3, <2>4, <2>5 DEF Next
<1> QED
  BY <1>1, <1>2, <1>3

(* A wait that reported an end saw the run at it. *)
Truth ==
  /\ DOMAIN poll = Runs
  /\ \A r \in Runs :
       poll[r].pc = "returned" /\ poll[r].code \notin {"WAIT_TIMEOUT", "RUN_NOT_FOUND"}
         => run[r] = poll[r].state /\ run[r] \in Ended

LEMMA TruthStep == ASSUME TypeOK, Truth, [ClientNext]_allVars PROVE Truth'
<1>1. \A r \in Runs : run[r] \in Ended => run'[r] = run[r]
  BY ClientStepIsArcStep, EndsAreFinal
<1>2. CASE UNCHANGED poll
  BY <1>1, <1>2 DEF Truth
<1>3. ASSUME NEW r \in Runs, CallWait(r) \/ PollDeadline(r) PROVE Truth'
  <2>1. \E p \in {Polling, Returned("failed", "WAIT_TIMEOUT")} : poll' = [poll EXCEPT ![r] = p]
    BY <1>3 DEF CallWait, PollDeadline
  <2> QED
    BY <1>1, <2>1 DEF Truth, Polling, Returned
<1>4. ASSUME NEW r \in Runs, PollOnce(r) PROVE Truth'
  <2>1. /\ RuntimeStatus(r).state \in Ended
        /\ poll' = [poll EXCEPT ![r] = Returned(RuntimeStatus(r).state, RuntimeStatus(r).code)]
    BY <1>4 DEF PollOnce
  <2>2. RuntimeStatus(r).code # "RUN_NOT_FOUND" => run[r] = RuntimeStatus(r).state
    BY <2>1 DEF RuntimeStatus, Ended
  <2> QED
    BY <1>1, <2>1, <2>2 DEF Truth, Returned
<1>5. UNCHANGED poll \/ \E r \in Runs : CallWait(r) \/ PollOnce(r) \/ PollDeadline(r)
  BY DEF ClientNext, SystemStep, AnswerPark, clientVars, allVars
<1> QED
  BY <1>2, <1>3, <1>4, <1>5

(* A run that wait() reported over is over in that way for good: the status *)
(* is read once per poll, and no step of worker, body, leaf or client       *)
(* leaves an end (OpenWorkflowRuntime.wait, mapOwStatus).                   *)
THEOREM WaitsTellTheTruth == ClientSpec => []WaitTellsTheTruth
<1>1. ClientInit => Truth
  BY DEF ClientInit, Truth, NoWait
<1>2. ArcInv /\ Truth /\ [ClientNext]_allVars => Truth'
  BY TruthStep DEF ArcInv
<1>3. Truth => WaitTellsTheTruth
  BY DEF Truth, WaitTellsTheTruth
<1> QED
  BY <1>1, <1>2, <1>3, ClientIsArc, ArcInvariant, PTL DEF ClientSpec
=============================================================================
