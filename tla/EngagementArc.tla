---------------------------- MODULE EngagementArc ----------------------------
(***************************************************************************)
(* One durable engagement per run: the workflow body (engagement-arc.ts),   *)
(* the leaf it runs as a durable step (engagement.ts, in the worker process *)
(* or in a spawned engagement-runner), the join rows the leaf writes, the   *)
(* notifications it emits and the control verbs dispatch, wake and cancel   *)
(* (runtime.ts).                                                            *)
(*                                                                          *)
(* OpenWorkflow is external.  It is modelled from how the code uses it:     *)
(* a step whose result is recorded is not run again, a body that waits for  *)
(* a signal leaves memory and is later re-run from its first line, a signal *)
(* that no wait is active for is dropped, and a run whose worker died is    *)
(* claimed again once its lease is over.                                    *)
(***************************************************************************)
EXTENDS JoinRows, Integers, Sequences, FiniteSets

CONSTANTS
  Leaves,           \* identities of leaf executions (promises or processes)
  NoLeaf,           \* "no leaf"
  Spawn,            \* TRUE: spawnConfig is set, a leaf is a child process
  SessionsSurvive,  \* TRUE: a session reference can be reopened after dispose
  ShareSessions,    \* TRUE: dispatch may name the session of another run
  MaxParkLoops,     \* maxParkLoops of the arc
  Concurrency,      \* concurrency of the worker
  MaxCrashes,       \* bound: worker crashes in a behaviour
  MaxFaults         \* bound: I/O faults and child crashes in a behaviour

ASSUME ArcAssumption ==
  /\ NoLeaf \notin Leaves
  /\ Spawn \in BOOLEAN /\ SessionsSurvive \in BOOLEAN /\ ShareSessions \in BOOLEAN
  /\ MaxParkLoops \in Nat /\ Concurrency \in Nat \ {0}
  /\ MaxCrashes \in Nat /\ MaxFaults \in Nat

VARIABLES
  run,      \* OpenWorkflow status of each run
  input,    \* what the run was dispatched with
  memo,     \* recorded results of the leaf steps, oldest first
  wakes,    \* signals delivered to the run's waits, oldest first
  waiting,  \* a signal wait of the run is active (the run is parked)
  output,   \* the workflow's result
  exec,     \* the execution of the body that is in memory
  leaf,     \* the leaf executions
  join,     \* the join table
  opened,   \* session references handed out so far
  notes,    \* notifications emitted for the run, oldest first
  crashes,  \* worker crashes so far
  faults    \* faults so far

owVars == <<run, input, memo, wakes, waiting, output>>
vars == <<run, input, memo, wakes, waiting, output, exec, leaf, join, opened,
          notes, crashes, faults>>

-----------------------------------------------------------------------------
MaybeSession == Sessions \cup {NoSession}

RunStatus == {"absent", "pending", "running", "completed", "failed", "canceled"}

Codes == {"ok", "OPEN_FAILED", "ENGAGE_FAILED", "RUNNER_NO_OUTPUT",
          "PARK_LOOP_EXCEEDED", "PARK_WAKE_TIMEOUT"}

Outcome ==
  [kind : {"settled", "parked", "failed"}, session : MaybeSession, code : Codes]

NoOutcome == [kind |-> "none", session |-> NoSession, code |-> "ok"]

Failed(s, c) == [kind |-> "failed", session |-> s, code |-> c]

EngagementInput == [resume : MaybeSession, parkIntent : BOOLEAN]

(* A delivered wake; "timeout" is the null a wait returns without a signal. *)
Wakes == [kind : {"wake", "timeout"}, parkIntent : BOOLEAN]

Note == [step : Nat, kind : {"settled", "parked", "failed"}]

LeafPc == {"open", "put", "engage", "park", "read", "write",
           "catchRead", "catchWrite", "done", "dead"}

LeafState ==
  [pc : LeafPc, run : Runs, step : Nat, in : EngagementInput,
   session : MaybeSession, out : Outcome \cup {NoOutcome}, row : Row \cup {NoRow}]

FreeLeaf == [pc |-> "free"]

ExecState ==
  [pc : {"idle", "step", "leaf", "wait", "return"}, loops : Nat,
   leaf : Leaves \cup {NoLeaf}, out : Outcome \cup {NoOutcome}]

IdleExec == [pc |-> "idle", loops |-> 0, leaf |-> NoLeaf, out |-> NoOutcome]

TypeOK ==
  /\ run \in [Runs -> RunStatus]
  /\ input \in [Runs -> EngagementInput]
  /\ memo \in [Runs -> Seq(Outcome)]
  /\ wakes \in [Runs -> Seq(Wakes)]
  /\ waiting \in [Runs -> BOOLEAN]
  /\ output \in [Runs -> Outcome \cup {NoOutcome}]
  /\ exec \in [Runs -> ExecState]
  /\ leaf \in [Leaves -> LeafState \cup {FreeLeaf}]
  /\ join \in JoinTable
  /\ opened \in SUBSET Sessions
  /\ notes \in [Runs -> Seq(Note)]
  /\ crashes \in Nat
  /\ faults \in Nat

Init ==
  /\ run = [r \in Runs |-> "absent"]
  /\ input = [r \in Runs |-> [resume |-> NoSession, parkIntent |-> FALSE]]
  /\ memo = [r \in Runs |-> <<>>]
  /\ wakes = [r \in Runs |-> <<>>]
  /\ waiting = [r \in Runs |-> FALSE]
  /\ output = [r \in Runs |-> NoOutcome]
  /\ exec = [r \in Runs |-> IdleExec]
  /\ leaf = [l \in Leaves |-> FreeLeaf]
  /\ join = EmptyTable
  /\ opened = {}
  /\ notes = [r \in Runs |-> <<>>]
  /\ crashes = 0
  /\ faults = 0

-----------------------------------------------------------------------------
(* Control verbs (OpenWorkflowRuntime).                                     *)

(* dispatch: runWorkflow with the serialised engagement input.              *)
Dispatch(r, in) ==
  /\ run[r] = "absent"
  /\ in.resume # NoSession => ShareSessions /\ in.resume \in opened
  /\ run' = [run EXCEPT ![r] = "pending"]
  /\ input' = [input EXCEPT ![r] = in]
  /\ UNCHANGED <<memo, wakes, waiting, output, exec, leaf, join, opened, notes,
                 crashes, faults>>

(* A signal wait of the run ends with delivery d.                           *)
Deliver(r, d) ==
  /\ waiting[r]
  /\ waiting' = [waiting EXCEPT ![r] = FALSE]
  /\ wakes' = [wakes EXCEPT ![r] = Append(@, d)]
  /\ UNCHANGED <<run, input, memo, output, exec, leaf, join, opened, notes,
                 crashes, faults>>

(* wake: sendSignal on the run's wake address.  Without an active wait      *)
(* nothing happens: signals are not buffered.                               *)
Wake(r, parkIntent) == Deliver(r, [kind |-> "wake", parkIntent |-> parkIntent])

WaitTimeout(r) == Deliver(r, [kind |-> "timeout", parkIntent |-> FALSE])

(* cancel: cancelWorkflowRun and nothing else.                              *)
Cancel(r) ==
  /\ run[r] \in {"pending", "running"}
  /\ run' = [run EXCEPT ![r] = "canceled"]
  /\ waiting' = [waiting EXCEPT ![r] = FALSE]
  /\ UNCHANGED <<input, memo, wakes, output, exec, leaf, join, opened, notes,
                 crashes, faults>>

-----------------------------------------------------------------------------
(* Operators named Mut_X, here and below, are plausible mistakes in X; the  *)
(* runs are repeated with them to show that the properties would notice.    *)

(* A run is due when it is new, when its wait is over, or when its          *)
(* execution died.                                                          *)
Mut_Due(r) == run[r] = "pending"
Due(r) == run[r] \in {"pending", "running"} /\ ~waiting[r]

(* The slots of the worker that are taken.                                  *)
Mut_Busy == {r \in Runs : run[r] \notin {"absent", "pending"}}
Busy == {r \in Runs : exec[r].pc # "idle"}

(* The worker claims a due run; the body starts from its first line.        *)
Claim(r) ==
  /\ Due(r)
  /\ exec[r].pc = "idle"
  /\ Cardinality(Busy) < Concurrency
  /\ run' = [run EXCEPT ![r] = "running"]
  /\ exec' = [exec EXCEPT ![r] = [IdleExec EXCEPT !.pc = "step"]]
  /\ UNCHANGED <<input, memo, wakes, waiting, output, leaf, join, opened, notes,
                 crashes, faults>>

Noted(ns, step, kind) == Append(ns, [step |-> step, kind |-> kind])

(* arcNotifyForOutcome: the body notifies only for leaves it spawned.       *)
Mut_ArcNoted_Ungated(ns, step, kind) == Noted(ns, step, kind)
ArcNoted(ns, step, kind) == IF Spawn THEN Noted(ns, step, kind) ELSE ns

(* OpenWorkflow takes a step result or a workflow result only of a run that *)
(* is still running.                                                        *)
Mut_Accepted(r) == TRUE
Accepted(r) == run[r] = "running"

(* The input of leaf step n of run r: the dispatch input first, afterwards  *)
(* the session of the parked outcome and the intent of the wake.            *)
Mut_StepInput(r, n) ==
  [resume |-> input[r].resume,
   parkIntent |-> IF n = 1 THEN input[r].parkIntent ELSE wakes[r][n - 1].parkIntent]
StepInput(r, n) ==
  IF n = 1 THEN input[r]
  ELSE [resume |-> memo[r][n - 1].session, parkIntent |-> wakes[r][n - 1].parkIntent]

(* step.run of a leaf that has no recorded result: run the leaf.            *)
StartLeaf(r, l) ==
  LET n == exec[r].loops + 1
  IN  /\ exec[r].pc = "step"
      /\ Len(memo[r]) < n
      /\ leaf[l].pc = "free"
      /\ leaf' = [leaf EXCEPT ![l] =
           [pc |-> "open", run |-> r, step |-> n, in |-> StepInput(r, n),
            session |-> NoSession, out |-> NoOutcome, row |-> NoRow]]
      /\ exec' = [exec EXCEPT ![r].pc = "leaf", ![r].leaf = l]
      /\ UNCHANGED <<run, input, memo, wakes, waiting, output, join, opened, notes,
                     crashes, faults>>

(* The child cannot be spawned: step.run rejects, and OpenWorkflow either   *)
(* tries the step again later or fails the run.                             *)
SpawnError(r) ==
  /\ Spawn
  /\ exec[r].pc = "step"
  /\ Len(memo[r]) < exec[r].loops + 1
  /\ faults < MaxFaults
  /\ faults' = faults + 1
  /\ exec' = [exec EXCEPT ![r] = IdleExec]
  /\ \/ UNCHANGED run
     \/ Accepted(r) /\ run' = [run EXCEPT ![r] = "failed"]
  /\ UNCHANGED <<input, memo, wakes, waiting, output, leaf, join, opened, notes, crashes>>

(* What a leaf that is over returned; a child that died without output      *)
(* counts as a failed engagement.                                           *)
Mut_StepOutcome(l) == leaf[l].out
StepOutcome(l) ==
  IF leaf[l].pc = "dead" THEN Failed(NoSession, "RUNNER_NO_OUTPUT") ELSE leaf[l].out

(* The leaf is over: its outcome becomes the recorded result of the step.   *)
RecordStep(r) ==
  LET l == exec[r].leaf
  IN  /\ exec[r].pc = "leaf"
      /\ leaf[l].pc \in {"done", "dead"}
      /\ leaf' = [leaf EXCEPT ![l] = FreeLeaf]
      /\ IF Accepted(r)
         THEN /\ memo' = [memo EXCEPT ![r] = Append(@, StepOutcome(l))]
              /\ exec' = [exec EXCEPT ![r].pc = "step", ![r].leaf = NoLeaf]
         ELSE /\ exec' = [exec EXCEPT ![r] = IdleExec]
              /\ UNCHANGED memo
      /\ UNCHANGED <<run, input, wakes, waiting, output, join, opened, notes,
                     crashes, faults>>

Mut_OverCap(n) == n >= MaxParkLoops
OverCap(n) == n > MaxParkLoops

(* The body gives up on a parked engagement; this it notifies in any mode.  *)
Mut_GaveUp(ns, n) == ns
GaveUp(ns, n) == Noted(ns, n, "failed")

(* The body's synchronous code after a leaf step resolved, with a recorded  *)
(* or a fresh result: notify (spawn mode), then leave, give up, or go on to *)
(* wait for a wake.                                                         *)
Resolve(r) ==
  LET n  == exec[r].loops + 1
      o  == memo[r][n]
      ns == ArcNoted(notes[r], n, o.kind)
  IN  /\ exec[r].pc = "step"
      /\ Len(memo[r]) >= n
      /\ \/ /\ o.kind # "parked"
            /\ exec' = [exec EXCEPT ![r].pc = "return", ![r].out = o]
            /\ notes' = [notes EXCEPT ![r] = ns]
         \/ /\ o.kind = "parked" /\ OverCap(n)
            /\ exec' = [exec EXCEPT ![r].pc = "return",
                                    ![r].out = Failed(o.session, "PARK_LOOP_EXCEEDED")]
            /\ notes' = [notes EXCEPT ![r] = GaveUp(ns, n)]
         \/ /\ o.kind = "parked" /\ ~OverCap(n)
            /\ exec' = [exec EXCEPT ![r].pc = "wait", ![r].loops = n]
            /\ notes' = [notes EXCEPT ![r] = ns]
      /\ UNCHANGED <<run, input, memo, wakes, waiting, output, leaf, join, opened,
                     crashes, faults>>

(* The n-th wait of the run has got its delivery.                           *)
Mut_Delivered(r, n) == FALSE
Delivered(r, n) == Len(wakes[r]) >= n

(* waitForSignal without a delivery: the wait becomes active and the body   *)
(* leaves memory.                                                           *)
Park(r) ==
  /\ exec[r].pc = "wait"
  /\ ~Delivered(r, exec[r].loops)
  /\ waiting' = [waiting EXCEPT ![r] = Accepted(r)]
  /\ exec' = [exec EXCEPT ![r] = IdleExec]
  /\ UNCHANGED <<run, input, memo, wakes, output, leaf, join, opened, notes,
                 crashes, faults>>

(* waitForSignal with a delivery: continue the engagement, or give up on a  *)
(* null delivery.                                                           *)
Resume(r) ==
  LET n == exec[r].loops
      o == memo[r][n]
  IN  /\ exec[r].pc = "wait"
      /\ Delivered(r, n)
      /\ \/ /\ wakes[r][n].kind = "timeout"
            /\ exec' = [exec EXCEPT ![r].pc = "return",
                                    ![r].out = Failed(o.session, "PARK_WAKE_TIMEOUT")]
            /\ notes' = [notes EXCEPT ![r] = GaveUp(@, n)]
         \/ /\ wakes[r][n].kind = "wake"
            /\ exec' = [exec EXCEPT ![r].pc = "step"]
            /\ UNCHANGED notes
      /\ UNCHANGED <<run, input, memo, wakes, waiting, output, leaf, join, opened,
                     crashes, faults>>

(* The body returned: OpenWorkflow completes the run with its result.       *)
Complete(r) ==
  /\ exec[r].pc = "return"
  /\ IF Accepted(r)
     THEN /\ run' = [run EXCEPT ![r] = "completed"]
          /\ output' = [output EXCEPT ![r] = exec[r].out]
     ELSE UNCHANGED <<run, output>>
  /\ exec' = [exec EXCEPT ![r] = IdleExec]
  /\ UNCHANGED <<input, memo, wakes, waiting, leaf, join, opened, notes,
                 crashes, faults>>

-----------------------------------------------------------------------------
(* The leaf (runEngagementLeaf), one action per await.                      *)

LeafNoted(ns, step, kind) == IF Spawn THEN ns ELSE Noted(ns, step, kind)

leafOnlyUnchanged == <<run, input, memo, wakes, waiting, output, exec, crashes>>

(* The definition, the engine or the session cannot be had: the leaf fails  *)
(* before it has written anything.                                          *)
OpenFails(l) ==
  /\ leaf[l].pc = "open"
  /\ faults < MaxFaults
  /\ faults' = faults + 1
  /\ leaf' = [leaf EXCEPT ![l].pc = "done",
                          ![l].out = Failed(NoSession, "OPEN_FAILED")]
  /\ notes' = [notes EXCEPT ![leaf[l].run] = LeafNoted(@, leaf[l].step, "failed")]
  /\ UNCHANGED <<leafOnlyUnchanged, join, opened>>

Mut_Fresh(s) == TRUE
Fresh(s) == s \notin opened

(* materialize: reopen the session that was asked for if it still exists,   *)
(* open a fresh one otherwise.                                              *)
Open(l) ==
  /\ leaf[l].pc = "open"
  /\ \E s \in Sessions :
       /\ IF leaf[l].in.resume # NoSession /\ SessionsSurvive
          THEN s = leaf[l].in.resume
          ELSE Fresh(s)
       /\ leaf' = [leaf EXCEPT ![l].pc = "put", ![l].session = s]
       /\ opened' = opened \cup {s}
  /\ UNCHANGED <<leafOnlyUnchanged, join, notes, faults>>

Mut_LeafRow(l, status) == [session |-> leaf[l].session, status |-> "engaging"]
LeafRow(l, status) == [session |-> leaf[l].session, status |-> status]

PutEngaging(l) ==
  /\ leaf[l].pc = "put"
  /\ join' = PutRow(join, leaf[l].run, LeafRow(l, "engaging"))
  /\ leaf' = [leaf EXCEPT ![l].pc = "engage"]
  /\ UNCHANGED <<leafOnlyUnchanged, opened, notes, faults>>

(* presence.engage: a turn that ends well parks when the input asks for it  *)
(* and settles otherwise; any turn may fail.                                *)
Engage(l) ==
  LET s    == leaf[l].session
      kind == IF leaf[l].in.parkIntent THEN "parked" ELSE "settled"
  IN  /\ leaf[l].pc = "engage"
      /\ \/ leaf' = [leaf EXCEPT ![l].out = [kind |-> kind, session |-> s, code |-> "ok"],
                                 ![l].pc = IF kind = "parked" THEN "park" ELSE "read"]
         \/ leaf' = [leaf EXCEPT ![l].out = Failed(s, "ENGAGE_FAILED"), ![l].pc = "read"]
      /\ UNCHANGED <<leafOnlyUnchanged, join, opened, notes, faults>>

PutParked(l) ==
  /\ leaf[l].pc = "park"
  /\ join' = PutRow(join, leaf[l].run, LeafRow(l, "parked"))
  /\ leaf' = [leaf EXCEPT ![l].pc = "done"]
  /\ notes' = [notes EXCEPT ![leaf[l].run] = LeafNoted(@, leaf[l].step, "parked")]
  /\ UNCHANGED <<leafOnlyUnchanged, opened, faults>>

(* updateStatus reads the row and writes it back with the new status; other *)
(* processes may write the table in between.                                *)
ReadRow(l) ==
  /\ leaf[l].pc \in {"read", "catchRead"}
  /\ join[leaf[l].run] # NoRow
  /\ leaf' = [leaf EXCEPT ![l].pc = IF @ = "read" THEN "write" ELSE "catchWrite",
                          ![l].row = join[leaf[l].run]]
  /\ UNCHANGED <<leafOnlyUnchanged, join, opened, notes, faults>>

Mut_UpdatedRow(l) == leaf[l].row
UpdatedRow(l) == [leaf[l].row EXCEPT !.status = leaf[l].out.kind]

WriteRow(l) ==
  /\ leaf[l].pc \in {"write", "catchWrite"}
  /\ join' = PutRow(join, leaf[l].run, UpdatedRow(l))
  /\ leaf' = [leaf EXCEPT ![l].pc = "done"]
  /\ notes' = [notes EXCEPT ![leaf[l].run] = LeafNoted(@, leaf[l].step, leaf[l].out.kind)]
  /\ UNCHANGED <<leafOnlyUnchanged, opened, faults>>

(* A join operation throws: the row is gone, or the store fails.  The leaf  *)
(* turns whatever the turn produced into a failure and tries once to record *)
(* that; if this throws too it gives up on the row.                         *)
JoinThrows(l) ==
  /\ leaf[l].pc \in {"put", "park", "read", "write", "catchRead", "catchWrite"}
  /\ \/ /\ leaf[l].pc \in {"read", "catchRead"}
        /\ join[leaf[l].run] = NoRow
        /\ UNCHANGED faults
     \/ /\ faults < MaxFaults
        /\ faults' = faults + 1
  /\ IF leaf[l].pc \in {"catchRead", "catchWrite"}
     THEN /\ leaf' = [leaf EXCEPT ![l].pc = "done"]
          /\ notes' = [notes EXCEPT ![leaf[l].run] = LeafNoted(@, leaf[l].step, "failed")]
     ELSE /\ leaf' = [leaf EXCEPT ![l].pc = "catchRead",
                                  ![l].out = Failed(leaf[l].session, "ENGAGE_FAILED")]
          /\ UNCHANGED notes
  /\ UNCHANGED <<leafOnlyUnchanged, join, opened>>

-----------------------------------------------------------------------------
(* Crashes.                                                                 *)

(* The worker process dies: executions are lost, and with them the leaves   *)
(* that ran in the process; spawned leaves live on as orphans.              *)
WorkerCrash ==
  /\ crashes < MaxCrashes
  /\ crashes' = crashes + 1
  /\ exec' = [r \in Runs |-> IdleExec]
  /\ leaf' = IF Spawn THEN leaf ELSE [l \in Leaves |-> FreeLeaf]
  /\ UNCHANGED <<run, input, memo, wakes, waiting, output, join, opened, notes, faults>>

(* A spawned leaf dies at any point.                                        *)
ChildCrash(l) ==
  /\ Spawn
  /\ leaf[l].pc \notin {"free", "done", "dead"}
  /\ faults < MaxFaults
  /\ faults' = faults + 1
  /\ leaf' = [leaf EXCEPT ![l].pc = "dead"]
  /\ UNCHANGED <<run, input, memo, wakes, waiting, output, exec, join, opened,
                 notes, crashes>>

(* An orphan ends; nobody reads its output.                                 *)
Reap(l) ==
  /\ leaf[l].pc \in {"done", "dead"}
  /\ \A r \in Runs : exec[r].leaf # l
  /\ leaf' = [leaf EXCEPT ![l] = FreeLeaf]
  /\ UNCHANGED <<run, input, memo, wakes, waiting, output, exec, join, opened,
                 notes, crashes, faults>>

-----------------------------------------------------------------------------
LeafStep(l) ==
  \/ OpenFails(l) \/ Open(l) \/ PutEngaging(l) \/ Engage(l) \/ PutParked(l)
  \/ ReadRow(l) \/ WriteRow(l) \/ JoinThrows(l)

BodyStep(r) ==
  \/ \E l \in Leaves : StartLeaf(r, l)
  \/ SpawnError(r) \/ RecordStep(r) \/ Resolve(r) \/ Park(r) \/ Resume(r)
  \/ Complete(r)

Next ==
  \/ \E r \in Runs, in \in EngagementInput : Dispatch(r, in)
  \/ \E r \in Runs, i \in BOOLEAN : Wake(r, i)
  \/ \E r \in Runs : WaitTimeout(r) \/ Cancel(r) \/ Claim(r) \/ BodyStep(r)
  \/ \E l \in Leaves : LeafStep(l) \/ ChildCrash(l) \/ Reap(l)
  \/ WorkerCrash

Spec == Init /\ [][Next]_vars

(* The worker polls for due runs, Node runs every ready continuation, and a *)
(* turn of an engine ends; nothing obliges a client to wake or cancel, or a *)
(* wait to time out.                                                        *)
Fairness ==
  /\ \A r \in Runs : SF_vars(Claim(r)) /\ WF_vars(BodyStep(r))
  /\ \A l \in Leaves : WF_vars(LeafStep(l)) /\ WF_vars(Reap(l))

FairSpec == Spec /\ Fairness

-----------------------------------------------------------------------------
(* The lifecycle a client sees of a run, from the durable state alone.      *)

Last(s) == s[Len(s)]

ClientState(r) ==
  CASE run[r] = "absent" -> "absent"
    [] run[r] \in {"pending", "running"} /\ ~waiting[r] -> "working"
    [] run[r] \in {"pending", "running"} /\ waiting[r] -> "parked"
    [] run[r] = "completed" -> output[r].kind
    [] run[r] = "failed" -> "failed"
    [] run[r] = "canceled" -> "canceled"

ClientSession(r) == IF memo[r] = <<>> THEN NoSession ELSE memo[r][1].session

Lifecycle == INSTANCE EngagementLifecycle WITH
  state   <- [r \in Runs |-> ClientState(r)],
  session <- [r \in Runs |-> ClientSession(r)],
  served  <- [r \in Runs |-> Len(wakes[r])]

(* Crashes, retries, re-runs of the body and orphaned leaves are invisible  *)
(* in the lifecycle: every step is a lifecycle step or changes nothing.     *)
ImplementsLifecycle == Lifecycle!Spec

-----------------------------------------------------------------------------
(* Properties.                                                              *)

(* Every continue leaf works on the session the run was parked with: a wake *)
(* never moves an engagement to another transcript (engagement-arc.ts,      *)
(* "Resume same cognitive artifact").                                       *)
SessionContinuity ==
  \A r \in Runs : \A n \in 1..(Len(memo[r]) - 1) :
     memo[r][n + 1].session \in {memo[r][n].session, NoSession}

(* A parked run can be found: while its wait is active the join table names *)
(* the session the wake will resume, with status parked, and no other run   *)
(* has taken the row over.                                                  *)
ParkedJoinIsResumable ==
  \A r \in Runs : waiting[r] =>
     join[r] = [session |-> Last(memo[r]).session, status |-> "parked"]

(* Whoever reads the join table of a run that completed as settled finds it *)
(* settled, on the session the result names.                                *)
SettledIsRecorded ==
  \A r \in Runs : (run[r] = "completed" /\ output[r].kind = "settled") =>
     join[r] = [session |-> output[r].session, status |-> "settled"]

(* No two leaves work on one session at the same time: the transcript has   *)
(* one writer, across crashes, re-claims and wakes.                         *)
Working(l) == leaf[l].pc \in {"put", "engage", "park", "read", "write",
                              "catchRead", "catchWrite"}

OneLeafPerSession ==
  \A l, m \in Leaves :
     (Working(l) /\ Working(m) /\ leaf[l].session = leaf[m].session) => l = m

(* A run never completes silently: what its result says was notified before,*)
(* by the leaf or by the body, whatever crashed in between.                 *)
CompletionWasNotified ==
  \A r \in Runs : run[r] = "completed" =>
     \E i \in 1..Len(notes[r]) : notes[r][i].kind = output[r].kind

(* The park loop is cut exactly at its cap: MaxParkLoops wakes are served,  *)
(* and the run fails with PARK_LOOP_EXCEEDED only if it parks once more.    *)
ParkLoopCap ==
  \A r \in Runs :
    /\ Len(memo[r]) <= MaxParkLoops + 1
    /\ run[r] = "completed" =>
         ((output[r].code = "PARK_LOOP_EXCEEDED") <=>
            (Len(memo[r]) = MaxParkLoops + 1 /\ Last(memo[r]).kind = "parked"))

(* A subscriber hears of each leaf step once: while no worker crashed, no   *)
(* step is reported twice with the same outcome, however often the body is  *)
(* re-run (engagement-arc.ts: parked / settled / failed records fire per    *)
(* leaf step, never double-delivered).                                      *)
OneNotePerStep ==
  crashes = 0 => \A r \in Runs : \A i, j \in 1..Len(notes[r]) :
     notes[r][i] = notes[r][j] => i = j

(* A dispatched run is worked on until it waits for a wake or is over.      *)
RunsComeToRest ==
  \A r \in Runs : run[r] \in {"pending", "running"} ~>
     (waiting[r] \/ run[r] \in {"completed", "failed", "canceled"})

(* A delivered wake is served: the next leaf's result is recorded or the    *)
(* run ends; crashes only delay it.                                         *)
WakesAreServed ==
  \A r \in Runs : \A n \in 1..MaxParkLoops :
     Len(wakes[r]) >= n ~>
       (Len(memo[r]) > n \/ run[r] \in {"completed", "failed", "canceled"})
=============================================================================
