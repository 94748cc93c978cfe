------------------------------ MODULE Presence ------------------------------
(***************************************************************************)
(* Presences: the status machine of DefaultAgentPresence (presence.ts) over *)
(* the busy flag, idle snapshot and idle waiters of EngineSessionHandleBase *)
(* (engine-session-handle.ts), over one vendor session each.                *)
(*                                                                          *)
(* Every action is what the code does from one await to the next.  A        *)
(* promise that is resolved and its continuation are separate steps: other  *)
(* callers of the presence may run in between.                              *)
(*                                                                          *)
(* The vendor session is external.  It runs one turn at a time, may report  *)
(* that it runs, ends it at some point, may emit an event then, and         *)
(* resolves waitForIdle and abort when no turn is running.                  *)
(***************************************************************************)
CONSTANTS
  Presences,    \* each with its handle and its vendor session
  Calls,        \* identities of engage calls; each is used once
  Aborts,       \* identities of interrupt("abort") calls; each is used once
  NoCall,       \* "no turn is running"
  NoPresence,   \* "not called yet"
  EarlyPrompt,  \* the vendor's prompt may resolve while its turn is running
  EmitsIdle     \* whether an event that maps to idle comes at the end of a turn:
                \* {TRUE} for Pi, {FALSE} for Prime, BOOLEAN for either

ASSUME PresenceAssumption ==
  /\ NoCall \notin Calls /\ NoPresence \notin Presences
  /\ EarlyPrompt \in BOOLEAN /\ EmitsIdle \subseteq BOOLEAN

VARIABLES
  turn,    \* the engage call whose turn the vendor session is running
  handle,  \* busy, lastIdle (there is a snapshot) and disposed of each handle
  status,  \* internalStatus of each presence
  call,    \* the engage calls
  abort    \* the interrupt calls

vars == <<turn, handle, status, call, abort>>

PresenceStatus == {"idle", "engaging", "parked", "disposed"}

HandleState == [busy : BOOLEAN, lastIdle : BOOLEAN, disposed : BOOLEAN]

(* Where an engage call is: in handle.prompt, in handle.waitUntilIdle with  *)
(* its waiter queued, with that resolved, with either rejected, returned.   *)
CallPc == {"new", "prompt", "waiting", "woken", "thrown", "returned"}

(* driveWaitForIdle of the call: not begun or over, waiting for the vendor, *)
(* about to go on.  It can outlive the call.                                *)
DriveState == {"none", "pending", "resolved"}

CallState ==
  [pc : CallPc, on : Presences \cup {NoPresence},
   drive : DriveState, outcome : {"none", "settled", "parked", "failed"}]

NewCall == [pc |-> "new", on |-> NoPresence, drive |-> "none", outcome |-> "none"]

AbortState ==
  [pc : {"new", "pending", "resolved", "returned"}, on : Presences \cup {NoPresence}]

TypeOK ==
  /\ turn \in [Presences -> Calls \cup {NoCall}]
  /\ handle \in [Presences -> HandleState]
  /\ status \in [Presences -> PresenceStatus]
  /\ call \in [Calls -> CallState]
  /\ abort \in [Aborts -> AbortState]

Init ==
  /\ turn = [p \in Presences |-> NoCall]
  /\ handle = [p \in Presences |->
                 [busy |-> FALSE, lastIdle |-> TRUE, disposed |-> FALSE]]
  /\ status = [p \in Presences |-> "idle"]
  /\ call = [c \in Calls |-> NewCall]
  /\ abort = [i \in Aborts |-> [pc |-> "new", on |-> NoPresence]]

-----------------------------------------------------------------------------
(* Operators named Mut_X are plausible mistakes in X; the runs are repeated *)
(* with them to show that the properties would notice.                      *)

Returned(c, outcome) ==
  [call EXCEPT ![c].pc = "returned", ![c].outcome = outcome]

(* onEngineEvent(idle): the snapshot is taken and every waiter resolved.    *)
Awake(cs, p) ==
  [c \in Calls |->
     IF cs[c].on = p /\ cs[c].pc = "waiting" THEN [cs[c] EXCEPT !.pc = "woken"]
     ELSE cs[c]]

IdleHandle(p) == [handle EXCEPT ![p].busy = FALSE, ![p].lastIdle = TRUE]

(* "If not already idle": what driveWaitForIdle and interrupt("abort") do   *)
(* after their await.                                                       *)
EnsureIdle(p, cs) ==
  IF handle[p].busy \/ ~handle[p].lastIdle
  THEN handle' = IdleHandle(p) /\ call' = Awake(cs, p)
  ELSE call' = cs /\ UNCHANGED handle

(* handle.prompt and handle.continue throw on a disposed handle.            *)
Mut_Refuses(p) == FALSE
Refuses(p) == handle[p].disposed

Begun(c, p, pc) == [call EXCEPT ![c].pc = pc, ![c].on = p]

(* engage up to its first await, for a presence that is neither disposed    *)
(* nor engaging.  The vendor starts a turn, or rejects the prompt, as it    *)
(* must while a turn is running; a continue may also have nothing to do.    *)
Engage(c, p) ==
  /\ call[c].pc = "new"
  /\ status[p] \notin {"disposed", "engaging"}
  /\ status' = [status EXCEPT ![p] = "engaging"]
  /\ \/ /\ Refuses(p)
        /\ call' = Begun(c, p, "thrown")
        /\ UNCHANGED <<turn, handle>>
     \/ /\ ~Refuses(p)
        /\ handle' = [handle EXCEPT ![p].busy = TRUE, ![p].lastIdle = FALSE]
        /\ \/ /\ turn[p] = NoCall
              /\ turn' = [turn EXCEPT ![p] = c]
              /\ call' = Begun(c, p, "prompt")
           \/ /\ \E pc \in {"prompt", "thrown"} : call' = Begun(c, p, pc)
              /\ UNCHANGED turn
  /\ UNCHANGED abort

(* engage of a presence that is disposed or engaging.                       *)
EngageRefused(c, p) ==
  /\ call[c].pc = "new"
  /\ status[p] \in {"disposed", "engaging"}
  /\ call' = [Begun(c, p, "returned") EXCEPT ![c].outcome = "failed"]
  /\ UNCHANGED <<turn, handle, status, abort>>

(* The prompt resolved; engage calls waitUntilIdle, which rejects, answers  *)
(* at once, or queues a waiter and drives the vendor's waitForIdle.         *)
PromptResolves(c) ==
  LET p == call[c].on
  IN  /\ call[c].pc = "prompt"
      /\ EarlyPrompt \/ turn[p] # c
      /\ call' =
           IF handle[p].disposed THEN [call EXCEPT ![c].pc = "thrown"]
           ELSE IF ~handle[p].busy /\ handle[p].lastIdle
           THEN [call EXCEPT ![c].pc = "woken"]
           ELSE [call EXCEPT ![c].pc = "waiting",
                             ![c].drive = IF turn[p] = NoCall THEN "resolved" ELSE "pending"]
      /\ UNCHANGED <<turn, handle, status, abort>>

(* The prompt, or the vendor's waitForIdle while the call waits, rejects.   *)
PromptRejects(c) ==
  /\ call[c].pc = "prompt" /\ turn[call[c].on] # c
  /\ call' = [call EXCEPT ![c].pc = "thrown"]
  /\ UNCHANGED <<turn, handle, status, abort>>

DriveRejects(c) ==
  /\ call[c].drive # "none"
  /\ call' = [call EXCEPT ![c].drive = "none",
                          ![c].pc = IF @ = "waiting" THEN "thrown" ELSE @]
  /\ UNCHANGED <<turn, handle, status, abort>>

(* driveWaitForIdle after the vendor's promise resolved.                    *)
Mut_DriveReturns(c) ==
  /\ call[c].drive = "resolved"
  /\ call' = [call EXCEPT ![c].drive = "none"]
  /\ UNCHANGED <<turn, handle, status, abort>>
DriveReturns(c) ==
  /\ call[c].drive = "resolved"
  /\ EnsureIdle(call[c].on, [call EXCEPT ![c].drive = "none"])
  /\ UNCHANGED <<turn, status, abort>>

(* engage goes on with the snapshot, without another look at the status; it *)
(* parks if the call asked for it (the input is chosen here) or settles.    *)
Woken(c) ==
  /\ call[c].pc = "woken"
  /\ \/ status' = [status EXCEPT ![call[c].on] = "parked"] /\ call' = Returned(c, "parked")
     \/ status' = [status EXCEPT ![call[c].on] = "idle"] /\ call' = Returned(c, "settled")
  /\ UNCHANGED <<turn, handle, abort>>

(* The catch of engage.                                                     *)
Mut_AfterThrow(s) == s
Mut_AfterThrow_Kind(s) == IF s = "disposed" THEN s ELSE "failed"
AfterThrow(s) == IF s = "disposed" THEN s ELSE "idle"

Thrown(c) ==
  /\ call[c].pc = "thrown"
  /\ status' = [status EXCEPT ![call[c].on] = AfterThrow(@)]
  /\ call' = Returned(c, "failed")
  /\ UNCHANGED <<turn, handle, abort>>

-----------------------------------------------------------------------------
(* interrupt("abort") up to the vendor's abort, and after it.  Steering and *)
(* follow-ups change nothing here.                                          *)
Interrupt(i, p) ==
  /\ abort[i].pc = "new"
  /\ abort' = [abort EXCEPT ![i].on = p, ![i].pc =
       IF status[p] = "disposed" \/ handle[p].disposed THEN "returned"
       ELSE IF turn[p] = NoCall THEN "resolved" ELSE "pending"]
  /\ UNCHANGED <<turn, handle, status, call>>

AbortReturns(i) ==
  /\ abort[i].pc = "resolved"
  /\ abort' = [abort EXCEPT ![i].pc = "returned"]
  /\ EnsureIdle(abort[i].on, call)
  /\ UNCHANGED <<turn, status>>

(* dispose: the status, then the handle, whose waiters are rejected.        *)
Rejected(cs, p) ==
  [c \in Calls |->
     IF cs[c].on = p /\ cs[c].pc = "waiting" THEN [cs[c] EXCEPT !.pc = "thrown"]
     ELSE cs[c]]

Dispose(p) ==
  /\ status' = [status EXCEPT ![p] = "disposed"]
  /\ IF status[p] = "disposed" \/ handle[p].disposed
     THEN UNCHANGED <<handle, call>>
     ELSE /\ handle' = [handle EXCEPT ![p].disposed = TRUE]
          /\ call' = Rejected(call, p)
  /\ UNCHANGED <<turn, abort>>

(* The vendor reports that the turn is under way: onEngineEvent(agent_start). *)
AgentStart(p) ==
  /\ turn[p] # NoCall /\ ~handle[p].disposed
  /\ handle' = [handle EXCEPT ![p].busy = TRUE, ![p].lastIdle = FALSE]
  /\ UNCHANGED <<turn, status, call, abort>>

(* The vendor's turn ends: its idle event, if it emits one and the handle   *)
(* still listens, and the promises that waited for it.                      *)
TurnEnds(p) ==
  LET driven == [c \in Calls |->
                   IF call[c].on = p /\ call[c].drive = "pending"
                   THEN [call[c] EXCEPT !.drive = "resolved"] ELSE call[c]]
  IN  /\ turn[p] # NoCall
      /\ turn' = [turn EXCEPT ![p] = NoCall]
      /\ abort' = [i \in Aborts |->
                     IF abort[i].on = p /\ abort[i].pc = "pending"
                     THEN [abort[i] EXCEPT !.pc = "resolved"] ELSE abort[i]]
      /\ \E event \in EmitsIdle :
           IF event /\ ~handle[p].disposed
           THEN handle' = IdleHandle(p) /\ call' = Awake(driven, p)
           ELSE call' = driven /\ UNCHANGED handle
      /\ UNCHANGED status

-----------------------------------------------------------------------------
(* What goes on by itself: continuations and the vendor.                    *)
CallContinues(c) == PromptResolves(c) \/ DriveReturns(c) \/ Woken(c) \/ Thrown(c)

VendorRejects(c) == PromptRejects(c) \/ DriveRejects(c)

InFlight(c) == call[c].pc \in {"prompt", "waiting", "woken", "thrown"}

-----------------------------------------------------------------------------
(* Properties.                                                              *)

(* A presence performs one engagement at a time, and its status tells that  *)
(* it does until it is disposed: no error, abort or missed event leaves it  *)
(* engaging with nothing in flight, which would refuse every later engage.  *)
OneEngagement ==
  /\ \A c, d \in Calls :
       (InFlight(c) /\ InFlight(d) /\ call[c].on = call[d].on) => c = d
  /\ \A c \in Calls : InFlight(c) => status[call[c].on] \in {"engaging", "disposed"}
  /\ \A p \in Presences :
       status[p] = "engaging" => \E c \in Calls : InFlight(c) /\ call[c].on = p

(* A disposed session never gets another turn, also when an engagement that *)
(* was in flight at the dispose has set the status back and the presence    *)
(* is engaged again.                                                        *)
NoTurnAfterDispose ==
  [][\A p \in Presences :
       handle[p].disposed => turn'[p] \in {turn[p], NoCall}]_vars

(* Every engage call returns: no waiter is left behind by a missed event,   *)
(* an abort or a dispose.                                                   *)
EngagementsEnd == \A c \in Calls : InFlight(c) ~> call[c].pc = "returned"
=============================================================================
