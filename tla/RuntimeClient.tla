---------------------------- MODULE RuntimeClient ----------------------------
(***************************************************************************)
(* A client of the runtime port next to the worker: it waits for runs by    *)
(* polling their status (OpenWorkflowRuntime.getStatus and wait) and wakes  *)
(* them when it believes they are parked.                                   *)
(***************************************************************************)
EXTENDS EngagementArc

CONSTANT WakeOn   \* what the client wakes on: "status", getStatus says parked;
                  \* "notice", a parked notification arrives

ASSUME WakeOnAssumption == WakeOn \subseteq {"status", "notice"}

VARIABLES
  poll,      \* the wait() call of the client on each run
  answered   \* parked notifications of each run the client has acted on

clientVars == <<poll, answered>>
allVars == <<vars, clientVars>>

-----------------------------------------------------------------------------
(* mapOwStatus, with the signal-wait probe: OpenWorkflow keeps a parked run *)
(* in status running.                                                       *)
Mut_RuntimeStatus(r) ==
  [state |-> IF waiting[r] THEN "completed" ELSE run[r], code |-> "none"]
RuntimeStatus(r) ==
  CASE run[r] = "absent" -> [state |-> "failed", code |-> "RUN_NOT_FOUND"]
    [] run[r] = "running" /\ waiting[r] -> [state |-> "running", code |-> "parked"]
    [] OTHER -> [state |-> run[r], code |-> "none"]

NoWait == [pc |-> "none", state |-> "none", code |-> "none"]
Polling == [pc |-> "polling", state |-> "none", code |-> "none"]
Returned(state, code) == [pc |-> "returned", state |-> state, code |-> code]

Ended == {"completed", "failed", "canceled"}

ClientInit ==
  /\ Init
  /\ poll = [r \in Runs |-> NoWait]
  /\ answered = [r \in Runs |-> 0]

(* wait: poll until the status is an end state.                             *)
CallWait(r) ==
  /\ poll[r] = NoWait
  /\ poll' = [poll EXCEPT ![r] = Polling]
  /\ UNCHANGED <<vars, answered>>

PollOnce(r) ==
  LET s == RuntimeStatus(r)
  IN  /\ poll[r] = Polling
      /\ s.state \in Ended
      /\ poll' = [poll EXCEPT ![r] = Returned(s.state, s.code)]
      /\ UNCHANGED <<vars, answered>>

(* The deadline passes while the last status polled was not an end state.   *)
PollDeadline(r) ==
  /\ poll[r] = Polling
  /\ RuntimeStatus(r).state \notin Ended
  /\ poll' = [poll EXCEPT ![r] = Returned("failed", "WAIT_TIMEOUT")]
  /\ UNCHANGED <<vars, answered>>

ParkedNotices(r) ==
  Cardinality({i \in 1..Len(notes[r]) : notes[r][i].kind = "parked"})

(* The client answers a park; the signal is lost when no wait is active.    *)
AnswerPark(r) ==
  \/ /\ "status" \in WakeOn
     /\ RuntimeStatus(r).code = "parked"
     /\ \E i \in BOOLEAN : Wake(r, i)
     /\ UNCHANGED clientVars
  \/ /\ "notice" \in WakeOn
     /\ answered[r] < ParkedNotices(r)
     /\ answered' = [answered EXCEPT ![r] = @ + 1]
     /\ (\E i \in BOOLEAN : Wake(r, i)) \/ (~waiting[r] /\ UNCHANGED vars)
     /\ UNCHANGED poll

SystemStep ==
  /\ \/ \E r \in Runs, i \in BOOLEAN :
          Dispatch(r, [resume |-> NoSession, parkIntent |-> i])
     \/ \E r \in Runs : Cancel(r) \/ Claim(r) \/ BodyStep(r)
     \/ \E l \in Leaves : LeafStep(l) \/ ChildCrash(l) \/ Reap(l)
     \/ WorkerCrash
  /\ UNCHANGED clientVars

ClientNext ==
  \/ SystemStep
  \/ \E r \in Runs : CallWait(r) \/ PollOnce(r) \/ PollDeadline(r) \/ AnswerPark(r)

ClientSpec == ClientInit /\ [][ClientNext]_allVars

(* As Fairness, with a client that keeps polling and answers what it sees.  *)
ClientFairness ==
  /\ \A r \in Runs :
       /\ SF_allVars(Claim(r) /\ UNCHANGED clientVars)
       /\ WF_allVars(BodyStep(r) /\ UNCHANGED clientVars)
       /\ WF_allVars(AnswerPark(r))
       /\ WF_allVars(PollOnce(r))
  /\ \A l \in Leaves : WF_allVars((LeafStep(l) \/ Reap(l)) /\ UNCHANGED clientVars)

FairClientSpec == ClientSpec /\ ClientFairness

-----------------------------------------------------------------------------
(* What wait() returned stays true: a run reported over is over in exactly  *)
(* that way from then on, and a run never comes back from its end.          *)
WaitTellsTheTruth ==
  \A r \in Runs :
    (poll[r].pc = "returned" /\ poll[r].code \notin {"WAIT_TIMEOUT", "RUN_NOT_FOUND"})
       => run[r] = poll[r].state

(* A client that answers every park drives each run to its end, through     *)
(* crashes of the worker and faults of the store.                           *)
AnsweredRunsEnd ==
  \A r \in Runs : run[r] = "pending" ~> run[r] \in Ended
=============================================================================
