-------------------------- MODULE LiveRecipesProofs --------------------------
(***************************************************************************)
(* Theorems about presences and live recipes, for any number of recipes,    *)
(* engage calls, interrupts and run ids, and for every vendor: whether its  *)
(* prompts resolve early and whether it emits idle events.                  *)
(*                                                                          *)
(* LiveInv is inductive.  Beside the types it says that calls in flight are *)
(* what the statuses tell, that a registry entry names a recipe that holds  *)
(* this run id and is not over, and that only a recipe that is over has a   *)
(* disposed handle.                                                         *)
(***************************************************************************)
EXTENDS LiveRecipes, TLAPS

Addressed ==
  /\ \A c \in Calls :
       IF call[c].pc = "new" THEN call[c].drive = "none" ELSE call[c].on \in Presences
  /\ \A i \in Aborts : abort[i].pc # "new" => abort[i].on \in Presences

RegistryHolds ==
  \A k \in RunIds :
    registry[k] # NoPresence =>
      live[registry[k]].runId = k /\ live[registry[k]].pc \in {"turns", "kept"}

DisposedIsClosed == \A p \in Presences : handle[p].disposed => live[p].pc = "closed"

LiveInv ==
  LiveTypeOK /\ Addressed /\ OneEngagement /\ RegistryHolds /\ DisposedIsClosed

-----------------------------------------------------------------------------
(* Waking and rejecting waiters moves calls within their flight.            *)
Moves(cs) ==
  /\ cs \in [Calls -> CallState]
  /\ \A c \in Calls :
       /\ cs[c].on = call[c].on
       /\ cs[c].pc = "new" => cs[c].drive = "none"
       /\ cs[c].pc = "new" <=> call[c].pc = "new"
       /\ cs[c].pc \in {"prompt", "waiting", "woken", "thrown"} <=> InFlight(c)

LEMMA AwakeMoves ==
  ASSUME NEW cs, Moves(cs), NEW p
  PROVE  Moves(Awake(cs, p))
BY DEF Moves, Awake, CallState, CallPc, InFlight

LEMMA RejectedMoves ==
  ASSUME LiveTypeOK, Addressed, NEW p
  PROVE  Moves(Rejected(call, p))
BY DEF Addressed, Moves, Rejected, CallState, CallPc, InFlight, LiveTypeOK, TypeOK

(* A step that only moves calls in flight.                                  *)
LEMMA MovePreserves ==
  ASSUME LiveInv, Moves(call'), UNCHANGED <<status, liveVars>>,
         turn' \in [Presences -> Calls \cup {NoCall}],
         handle' \in [Presences -> HandleState],
         \A p \in Presences : handle'[p].disposed = handle[p].disposed,
         abort' \in [Aborts -> AbortState],
         \A i \in Aborts : abort'[i].pc # "new" => abort'[i].on \in Presences
  PROVE  LiveInv'
<1>1. LiveTypeOK'
  BY DEF LiveInv, LiveTypeOK, TypeOK, Moves, liveVars
<1>2. Addressed'
  BY DEF LiveInv, Addressed, Moves
<1>3. OneEngagement'
  <2>1. \A c \in Calls : call'[c].on = call[c].on /\ (InFlight(c)' <=> InFlight(c))
    BY DEF Moves, InFlight
  <2>2. status' = status
    OBVIOUS
  <2> HIDE DEF InFlight
  <2> QED
    BY <2>1, <2>2 DEF LiveInv, OneEngagement
<1>4. RegistryHolds' /\ DisposedIsClosed'
  BY DEF LiveInv, RegistryHolds, DisposedIsClosed, liveVars
<1> QED
  BY <1>1, <1>2, <1>3, <1>4 DEF LiveInv

(* What the steps after an await do to the handle and to the calls.         *)
LEMMA IdleHandleTypes ==
  ASSUME LiveTypeOK, NEW p \in Presences
  PROVE  /\ IdleHandle(p) \in [Presences -> HandleState]
         /\ \A q \in Presences : IdleHandle(p)[q].disposed = handle[q].disposed
BY ZenonT(60) DEF IdleHandle, LiveTypeOK, TypeOK, HandleState

LEMMA EnsureIdleMoves ==
  ASSUME LiveTypeOK, NEW p \in Presences, NEW cs, Moves(cs), EnsureIdle(p, cs)
  PROVE  /\ Moves(call') /\ handle' \in [Presences -> HandleState]
         /\ \A q \in Presences : handle'[q].disposed = handle[q].disposed
<1>0. handle \in [Presences -> HandleState]
  BY DEF LiveTypeOK, TypeOK
<1>1. CASE handle' = IdleHandle(p) /\ call' = Awake(cs, p)
  <2>1. Moves(Awake(cs, p))
    BY AwakeMoves
  <2>2. Moves(call')
    BY <1>1, <2>1 DEF Moves
  <2> QED
    BY <2>2, <1>1, IdleHandleTypes
<1>2. CASE call' = cs /\ UNCHANGED handle
  <2>1. Moves(call')
    BY <1>2 DEF Moves
  <2> QED
    BY <1>0, <1>2, <2>1
<1> QED
  BY <1>1, <1>2 DEF EnsureIdle

(* Continuations and the vendor.                                            *)
LEMMA RuntimePreserves ==
  ASSUME LiveInv, Runtime
  PROVE  LiveInv'
<1> USE DEF LiveInv, LiveTypeOK, TypeOK
<1>0. Moves(call) /\ UNCHANGED liveVars
  BY DEF Moves, InFlight, Runtime, Addressed
<1>1. ASSUME NEW c \in Calls, PromptResolves(c) \/ PromptRejects(c) \/ DriveRejects(c)
      PROVE  LiveInv'
  <2>0. call[c] \in CallState
    OBVIOUS
  <2>1. Moves(call')
    <3>1. CASE PromptResolves(c)
      <4>0. call[c].pc = "prompt"
        BY <3>1 DEF PromptResolves
      <4>1. CASE call' = [call EXCEPT ![c].pc = "thrown"]
        <5>1. /\ call' \in [Calls -> CallState] /\ call'[c].on = call[c].on
              /\ call'[c].pc \in {"thrown", "woken", "waiting"}
              /\ \A e \in Calls : e # c => call'[e] = call[e]
          BY <4>1 DEF CallState, CallPc, DriveState
        <5> QED
          BY <1>0, <4>0, <5>1 DEF Moves, InFlight
      <4>2. CASE call' = [call EXCEPT ![c].pc = "woken"]
        <5>1. /\ call' \in [Calls -> CallState] /\ call'[c].on = call[c].on
              /\ call'[c].pc \in {"thrown", "woken", "waiting"}
              /\ \A e \in Calls : e # c => call'[e] = call[e]
          BY <4>2 DEF CallState, CallPc, DriveState
        <5> QED
          BY <1>0, <4>0, <5>1 DEF Moves, InFlight
      <4>3. ASSUME NEW d \in {"resolved", "pending"},
                   call' = [call EXCEPT ![c].pc = "waiting", ![c].drive = d]
            PROVE  Moves(call')
        <5>1. /\ call' \in [Calls -> CallState] /\ call'[c].on = call[c].on
              /\ call'[c].pc \in {"thrown", "woken", "waiting"}
              /\ \A e \in Calls : e # c => call'[e] = call[e]
          BY <4>3, ZenonT(60) DEF CallState, CallPc, DriveState
        <5> QED
          BY <1>0, <4>0, <5>1 DEF Moves, InFlight
      <4> QED
        BY <3>1, <4>1, <4>2, <4>3 DEF PromptResolves
    <3>2. CASE PromptRejects(c)
      BY <1>0, <3>2 DEF PromptRejects, Moves, CallState, CallPc, DriveState, InFlight
    <3>3. CASE DriveRejects(c)
      <4>1. CASE call[c].pc = "waiting"
        BY <1>0, <3>3, <4>1 DEF DriveRejects, Moves, CallState, CallPc, DriveState, InFlight
      <4>2. CASE call[c].pc # "waiting"
        <5>1. /\ call' \in [Calls -> CallState]
              /\ call'[c].pc = call[c].pc /\ call'[c].on = call[c].on
              /\ call'[c].drive = "none"
              /\ \A d \in Calls : d # c => call'[d] = call[d]
          BY <3>3, <4>2 DEF DriveRejects, CallState, DriveState
        <5> QED
          BY <1>0, <5>1 DEF Moves, InFlight
      <4> QED
        BY <4>1, <4>2
    <3> QED
      BY <1>1, <3>1, <3>2, <3>3
  <2>2. UNCHANGED <<turn, handle, status, abort>>
    BY <1>1 DEF PromptResolves, PromptRejects, DriveRejects
  <2> QED
    BY <1>0, <2>1, <2>2, MovePreserves DEF Addressed
<1>2. ASSUME NEW c \in Calls, DriveReturns(c)
      PROVE  LiveInv'
  <2> DEFINE cs == [call EXCEPT ![c].drive = "none"]
  <2>0. call[c].drive = "resolved"
    BY <1>2 DEF DriveReturns
  <2>1. Moves(cs)
    BY <1>0 DEF Moves, CallState, CallPc, DriveState, InFlight
  <2>4. call[c].on \in Presences
    BY <2>0 DEF Addressed
  <2>2. EnsureIdle(call[c].on, cs) /\ UNCHANGED <<turn, status, abort>>
    BY <1>2 DEF DriveReturns
  <2> HIDE DEF cs
  <2>3. /\ Moves(call') /\ handle' \in [Presences -> HandleState]
        /\ \A q \in Presences : handle'[q].disposed = handle[q].disposed
    BY <2>1, <2>2, <2>4, EnsureIdleMoves
  <2> QED
    BY <1>0, <2>2, <2>3, MovePreserves DEF Addressed
<1>3. ASSUME NEW i \in Aborts, AbortReturns(i)
      PROVE  LiveInv'
  <2>1. abort[i].on \in Presences /\ EnsureIdle(abort[i].on, call) /\ UNCHANGED <<turn, status>>
    BY <1>3 DEF AbortReturns, Addressed
  <2>2. /\ Moves(call') /\ handle' \in [Presences -> HandleState]
        /\ \A q \in Presences : handle'[q].disposed = handle[q].disposed
    BY <1>0, <2>1, EnsureIdleMoves
  <2>3. /\ abort' \in [Aborts -> AbortState]
        /\ \A j \in Aborts : abort'[j].pc # "new" => abort'[j].on \in Presences
    BY <1>3 DEF AbortReturns, AbortState, Addressed
  <2> QED
    BY <1>0, <2>1, <2>2, <2>3, MovePreserves
<1>4. ASSUME NEW p \in Presences, TurnEnds(p)
      PROVE  LiveInv'
  <2> DEFINE cs == [c \in Calls |->
                      IF call[c].on = p /\ call[c].drive = "pending"
                      THEN [call[c] EXCEPT !.drive = "resolved"] ELSE call[c]]
  <2>1. Moves(cs)
    BY <1>0 DEF Moves, CallState, CallPc, DriveState, InFlight
  <2> HIDE DEF cs
  <2>2. /\ Moves(call') /\ handle' \in [Presences -> HandleState]
        /\ \A q \in Presences : handle'[q].disposed = handle[q].disposed
    <3>0. Moves(Awake(cs, p))
      BY <2>1, AwakeMoves
    <3>1. \/ handle' = IdleHandle(p) /\ call' = Awake(cs, p)
          \/ handle' = handle /\ call' = cs
      BY <1>4 DEF TurnEnds, cs
    <3> QED
      BY <2>1, <3>0, <3>1, IdleHandleTypes DEF Moves
  <2>3. /\ abort' \in [Aborts -> AbortState]
        /\ \A j \in Aborts : abort'[j].pc # "new" => abort'[j].on \in Presences
    BY <1>4 DEF TurnEnds, AbortState, Addressed
  <2>4. turn' \in [Presences -> Calls \cup {NoCall}] /\ UNCHANGED status
    BY <1>4 DEF TurnEnds
  <2> QED
    BY <1>0, <2>2, <2>3, <2>4, MovePreserves
<1>5. ASSUME NEW c \in Calls, Woken(c) \/ Thrown(c)
      PROVE  LiveInv'
  <2> DEFINE p == call[c].on
  <2>1. /\ InFlight(c) /\ p \in Presences /\ UNCHANGED <<turn, handle, abort>>
        /\ \E o \in {"settled", "parked", "failed"} : call' = Returned(c, o)
        /\ \E s \in {"idle", "parked", "disposed"} :
             status' = [status EXCEPT ![p] = s] 
    <3>1. CASE Woken(c)
      BY <3>1 DEF Woken, InFlight, Addressed
    <3>2. CASE Thrown(c)
      <4>1. AfterThrow(status[p]) \in {"idle", "disposed"}
        BY DEF AfterThrow
      <4> QED
        BY <3>2, <4>1 DEF Thrown, InFlight, Addressed
    <3> QED
      BY <1>5, <3>1, <3>2
  <2>2. /\ call' \in [Calls -> CallState]
        /\ \A d \in Calls : call'[d].on = call[d].on /\ call'[d].drive = call[d].drive
        /\ \A d \in Calls : call'[d].pc = IF d = c THEN "returned" ELSE call[d].pc
    <3>1. PICK o \in {"settled", "parked", "failed"} : call' = Returned(c, o)
      BY <2>1
    <3> QED
      BY <3>1, ZenonT(60) DEF Returned, CallState, CallPc
  <2>3. /\ status' \in [Presences -> PresenceStatus] /\ status'[p] # "engaging"
        /\ \A q \in Presences : q # p => status'[q] = status[q]
    BY <2>1 DEF PresenceStatus
  <2>4. \A d \in Calls : InFlight(d)' <=> (InFlight(d) /\ d # c)
    BY <2>2 DEF InFlight
  <2>5. OneEngagement'
    <3> HIDE DEF InFlight
    <3> QED
      BY <2>1, <2>2, <2>3, <2>4 DEF OneEngagement
  <2>6. Addressed'
    BY <2>1, <2>2 DEF Addressed, InFlight
  <2> QED
    BY <1>0, <2>1, <2>2, <2>3, <2>5, <2>6 DEF Addressed, RegistryHolds, DisposedIsClosed, liveVars
<1>6. ASSUME NEW p \in Presences, AgentStart(p)
      PROVE  LiveInv'
  <2>1. /\ handle' = [handle EXCEPT ![p].busy = TRUE, ![p].lastIdle = FALSE]
        /\ UNCHANGED <<turn, status, call, abort>>
    BY <1>6 DEF AgentStart
  <2>2. /\ handle' \in [Presences -> HandleState]
        /\ \A q \in Presences : handle'[q].disposed = handle[q].disposed
    BY <2>1, ZenonT(60) DEF HandleState
  <2>3. Moves(call')
    BY <1>0, <2>1 DEF Moves
  <2> QED
    BY <1>0, <2>1, <2>2, <2>3, MovePreserves DEF Addressed
<1> QED
  BY <1>1, <1>2, <1>3, <1>4, <1>5, <1>6 DEF Runtime, CallContinues, VendorRejects

-----------------------------------------------------------------------------
(* engage, by a recipe or by the owner of a kept presence.                  *)
LEMMA EngagePreserves ==
  ASSUME LiveInv, NEW p \in Presences, NEW c \in Calls,
         Engage(c, p) \/ EngageRefused(c, p)
  PROVE  /\ TypeOK' /\ Addressed' /\ OneEngagement'
         /\ \A q \in Presences : handle'[q].disposed = handle[q].disposed
<1> USE DEF LiveInv, LiveTypeOK, TypeOK
<1>1. CASE Engage(c, p)
  <2>1. /\ call[c].pc = "new" /\ status[p] \notin {"disposed", "engaging"}
        /\ status' = [status EXCEPT ![p] = "engaging"] /\ UNCHANGED abort
        /\ \E pc \in {"prompt", "thrown"} : call' = Begun(c, p, pc)
        /\ handle' = handle \/
             handle' = [handle EXCEPT ![p].busy = TRUE, ![p].lastIdle = FALSE]
        /\ turn' = turn \/ turn' = [turn EXCEPT ![p] = c]
    BY <1>1 DEF Engage
  <2>2. /\ handle' \in [Presences -> HandleState]
        /\ \A q \in Presences : handle'[q].disposed = handle[q].disposed
    <3>1. CASE handle' = handle
      BY <3>1
    <3>2. CASE handle' = [handle EXCEPT ![p].busy = TRUE, ![p].lastIdle = FALSE]
      BY <3>2, ZenonT(60) DEF HandleState
    <3> QED
      BY <2>1, <3>1, <3>2
  <2>3. /\ call' \in [Calls -> CallState]
        /\ call'[c].pc \in {"prompt", "thrown"} /\ call'[c].on = p
        /\ \A d \in Calls : d # c => call'[d] = call[d]
    <3>1. PICK pc \in {"prompt", "thrown"} : call' = Begun(c, p, pc)
      BY <2>1
    <3> QED
      BY <3>1, ZenonT(60) DEF Begun, CallState, CallPc
  <2>4. /\ status' \in [Presences -> PresenceStatus] /\ status'[p] = "engaging"
        /\ \A q \in Presences : q # p => status'[q] = status[q]
    BY <2>1 DEF PresenceStatus
  <2>5. \A d \in Calls : InFlight(d)' <=> (InFlight(d) \/ d = c)
    BY <2>3 DEF InFlight
  <2>6. ~InFlight(c) /\ \A d \in Calls : InFlight(d) => call[d].on \in Presences \ {p}
    BY <2>1 DEF InFlight, OneEngagement, Addressed
  <2>7. OneEngagement'
    <3> HIDE DEF InFlight
    <3> QED
      BY <2>3, <2>4, <2>5, <2>6 DEF OneEngagement
  <2>8. Addressed'
    BY <2>1, <2>3 DEF Addressed
  <2> QED
    BY <2>1, <2>2, <2>3, <2>4, <2>7, <2>8
<1>2. CASE EngageRefused(c, p)
  <2>1. /\ call[c].pc = "new" /\ UNCHANGED <<turn, handle, status, abort>>
        /\ call' \in [Calls -> CallState]
        /\ call'[c].pc = "returned" /\ call'[c].on = p
        /\ \A d \in Calls : d # c => call'[d] = call[d]
    <3> DEFINE begun == Begun(c, p, "returned")
    <3>1. /\ begun \in [Calls -> CallState]
          /\ begun[c].pc = "returned" /\ begun[c].on = p
          /\ \A d \in Calls : d # c => begun[d] = call[d]
      BY DEF Begun, CallState, CallPc
    <3>2. call' = [begun EXCEPT ![c].outcome = "failed"]
      BY <1>2 DEF EngageRefused
    <3> HIDE DEF begun
    <3>3. /\ call' \in [Calls -> CallState]
          /\ call'[c].pc = "returned" /\ call'[c].on = p
          /\ \A d \in Calls : d # c => call'[d] = call[d]
      BY <3>1, <3>2 DEF CallState
    <3> QED
      BY <1>2, <3>3 DEF EngageRefused
  <2>2. \A d \in Calls : /\ InFlight(d)' <=> InFlight(d)
                         /\ InFlight(d) => call'[d].on = call[d].on
    BY <2>1 DEF InFlight
  <2>3. OneEngagement'
    <3> HIDE DEF InFlight
    <3> QED
      BY <2>1, <2>2 DEF OneEngagement
  <2> QED
    BY <2>1, <2>3 DEF Addressed
<1> QED
  BY <1>1, <1>2

(* Unregistering and disposing: the registry loses the run id of the recipe *)
(* that is over, and its calls stay in flight until they are rejected.      *)
LEMMA ShutPreserves ==
  ASSUME LiveInv, NEW p \in Presences, Shut(p)
  PROVE  LiveInv'
<1> USE DEF LiveInv, LiveTypeOK
<1>1. /\ Dispose(p) /\ registry' = Unregistered(p)
      /\ live' \in [Presences -> LiveState] /\ live'[p].pc = "closed"
      /\ \A q \in Presences : q # p => live'[q] = live[q]
  BY DEF Shut, LiveState, LivePc
<1>2. registry' \in [RunIds -> Presences \cup {NoPresence}]
  BY <1>1 DEF Unregistered
<1>3. Moves(call')
  <2>1. Moves(Rejected(call, p)) /\ Moves(call)
    BY RejectedMoves DEF Moves, InFlight, Addressed, TypeOK
  <2> QED
    BY <1>1, <2>1 DEF Dispose, Moves
<1>4. /\ handle' \in [Presences -> HandleState]
      /\ \A q \in Presences : q # p => handle'[q] = handle[q]
  <2>1. handle' = handle \/ handle' = [handle EXCEPT ![p].disposed = TRUE]
    BY <1>1 DEF Dispose
  <2>2. CASE handle' = handle
    BY <2>2 DEF TypeOK
  <2>3. CASE handle' = [handle EXCEPT ![p].disposed = TRUE]
    BY <2>3 DEF TypeOK, HandleState
  <2> QED
    BY <2>1, <2>2, <2>3
<1>5. /\ status' \in [Presences -> PresenceStatus] /\ status'[p] = "disposed"
      /\ \A q \in Presences : q # p => status'[q] = status[q]
      /\ UNCHANGED <<turn, abort>>
  BY <1>1 DEF Dispose, TypeOK, PresenceStatus
<1>6. LiveTypeOK' /\ Addressed'
  BY <1>1, <1>2, <1>3, <1>4, <1>5 DEF TypeOK, Moves, Addressed
<1>7. OneEngagement'
  <2>1. \A c \in Calls : call'[c].on = call[c].on /\ (InFlight(c)' <=> InFlight(c))
    BY <1>3 DEF Moves, InFlight
  <2>2. \A c \in Calls : InFlight(c) => call[c].on \in Presences
    BY DEF InFlight, Addressed
  <2> HIDE DEF InFlight
  <2> QED
    BY <1>5, <2>1, <2>2 DEF OneEngagement
<1>8. RegistryHolds'
  BY <1>1, PresenceAssumption DEF RegistryHolds, Unregistered
<1>9. DisposedIsClosed'
  BY <1>1, <1>4 DEF DisposedIsClosed
<1> QED
  BY <1>6, <1>7, <1>8, <1>9

-----------------------------------------------------------------------------
(* A recipe that begins takes over the run id.                              *)
LEMMA StartPreserves ==
  ASSUME LiveInv, NEW p \in Presences, NEW c \in Calls,
         NEW k \in RunIds \cup {NoRunId}, NEW keepAlive \in BOOLEAN,
         Start(p, k, keepAlive, c)
  PROVE  LiveInv'
<1>1. /\ TypeOK' /\ Addressed' /\ OneEngagement'
      /\ \A q \in Presences : handle'[q].disposed = handle[q].disposed
  BY EngagePreserves DEF Start
<1>2. /\ live[p].pc = "new"
      /\ live' \in [Presences -> LiveState]
      /\ live'[p].pc = "turns" /\ live'[p].runId = k
      /\ \A q \in Presences : q # p => live'[q] = live[q]
  BY DEF Start, LiveInv, LiveTypeOK, LiveState, LivePc
<1>3. /\ registry' \in [RunIds -> Presences \cup {NoPresence}]
      /\ \A q \in RunIds : registry'[q] = IF q = k THEN p ELSE registry[q]
  BY DEF Start, LiveInv, LiveTypeOK
<1>4. RegistryHolds'
  BY <1>2, <1>3 DEF LiveInv, LiveTypeOK, RegistryHolds
<1>5. DisposedIsClosed'
  BY <1>1, <1>2 DEF LiveInv, DisposedIsClosed
<1> QED
  BY <1>1, <1>2, <1>3, <1>4, <1>5 DEF LiveInv, LiveTypeOK

(* The other steps of a recipe and of its owner.                            *)
LEMMA RecipePreserves ==
  ASSUME LiveInv, NEW p \in Presences,
         \/ RecipeStep(p) \/ Close(p)
         \/ \E c \in Calls : OwnerEngages(p, c)
  PROVE  LiveInv'
<1>1. ASSUME NEW c \in Calls, NextTurn(p, c) \/ OwnerEngages(p, c)
      PROVE  LiveInv'
  <2>1. /\ TypeOK' /\ Addressed' /\ OneEngagement' /\ UNCHANGED liveVars
        /\ \A q \in Presences : handle'[q].disposed = handle[q].disposed
    BY <1>1, EngagePreserves DEF NextTurn, OwnerEngages
  <2> QED
    BY <2>1 DEF LiveInv, LiveTypeOK, RegistryHolds, DisposedIsClosed, liveVars
<1>2. CASE Shut(p)
  BY <1>2, ShutPreserves
<1>3. ASSUME TurnDone(p), live' = [live EXCEPT ![p].pc = "kept"],
             UNCHANGED <<vars, registry>>
      PROVE  LiveInv'
  <2>1. /\ live[p].pc = "turns"
        /\ live' \in [Presences -> LiveState]
        /\ live'[p].pc = "kept" /\ live'[p].runId = live[p].runId
        /\ \A q \in Presences : q # p => live'[q] = live[q]
    BY <1>3 DEF TurnDone, LiveInv, LiveTypeOK, LiveState, LivePc
  <2>2. TypeOK' /\ Addressed' /\ OneEngagement'
    BY <1>3 DEF vars, LiveInv, LiveTypeOK, TypeOK, Addressed, OneEngagement, InFlight
  <2>3. RegistryHolds' /\ DisposedIsClosed'
    BY <1>3, <2>1 DEF vars, LiveInv, LiveTypeOK, RegistryHolds, DisposedIsClosed
  <2> QED
    BY <1>3, <2>1, <2>2, <2>3 DEF LiveInv, LiveTypeOK
<1> QED
  BY <1>1, <1>2, <1>3 DEF RecipeStep, Finish, Close

(* An interrupt through the registry.                                       *)
LEMMA InterruptPreserves ==
  ASSUME LiveInv, NEW i \in Aborts, NEW k \in RunIds, InterruptRun(i, k)
  PROVE  LiveInv'
<1> DEFINE p == registry[k]
<1>1. p \in Presences
  BY DEF InterruptRun, LiveInv, LiveTypeOK
<1>2. /\ abort' \in [Aborts -> AbortState]
      /\ \A j \in Aborts : abort'[j].pc # "new" => abort'[j].on \in Presences
  BY <1>1 DEF InterruptRun, Interrupt, LiveInv, LiveTypeOK, TypeOK, AbortState, Addressed
<1>3. UNCHANGED <<turn, handle, status, call, liveVars>>
  BY DEF InterruptRun, Interrupt
<1>4. Moves(call)
  BY DEF Moves, InFlight, LiveInv, LiveTypeOK, TypeOK, Addressed
<1> QED
  BY <1>2, <1>3, <1>4, MovePreserves DEF LiveInv, LiveTypeOK, TypeOK, Moves

-----------------------------------------------------------------------------
(* LiveInv holds at first and every step keeps it.                          *)
LEMMA LiveInvInit == LiveInit => LiveInv
BY PresenceAssumption
   DEF LiveInit, Init, LiveInv, LiveTypeOK, TypeOK, Addressed, OneEngagement, RegistryHolds,
       DisposedIsClosed, NewCall, CallState, CallPc, DriveState, HandleState, AbortState,
       PresenceStatus, LiveState, LivePc, InFlight

LEMMA LiveInvStep == LiveInv /\ [LiveNext]_allVars => LiveInv'
<1> SUFFICES ASSUME LiveInv, [LiveNext]_allVars
             PROVE  LiveInv'
  OBVIOUS
<1>1. CASE UNCHANGED allVars
  BY <1>1 DEF allVars, vars, liveVars, LiveInv, LiveTypeOK, TypeOK, Addressed, OneEngagement,
              RegistryHolds, DisposedIsClosed, InFlight
<1>2. CASE LiveNext
  BY <1>2, RuntimePreserves, StartPreserves, RecipePreserves, InterruptPreserves DEF LiveNext
<1> QED
  BY <1>1, <1>2

(* The inductive invariant holds in every reachable state.                  *)
THEOREM LiveInvariance == LiveSpec => []LiveInv
BY LiveInvInit, LiveInvStep, PTL DEF LiveSpec

(* Every reachable state is well typed.                                     *)
THEOREM LiveTypeCorrectness == LiveSpec => []LiveTypeOK
<1>1. LiveInv => LiveTypeOK
  BY DEF LiveInv
<1> QED
  BY <1>1, LiveInvariance, PTL

(* A presence performs one engagement at a time and is engaging only while  *)
(* it does, whatever is interrupted, rejected, disposed or missed.          *)
THEOREM OneEngagementAtATime == LiveSpec => []OneEngagement
<1>1. LiveInv => OneEngagement
  BY DEF LiveInv
<1> QED
  BY <1>1, LiveInvariance, PTL

(* Interrupts by run id reach live presences only.                          *)
THEOREM RegistryNamesLive == LiveSpec => []RegisteredIsLive
<1>1. LiveInv => RegisteredIsLive
  BY DEF LiveInv, LiveTypeOK, RegistryHolds, DisposedIsClosed, RegisteredIsLive
<1> QED
  BY <1>1, LiveInvariance, PTL

(* A disposed vendor session is not given another turn.                     *)
NoNewTurn(p) == handle[p].disposed => turn'[p] \in {turn[p], NoCall}

(* engage gives a turn to no disposed session.                              *)
LEMMA EngageStartsNoDisposed ==
  ASSUME LiveInv, NEW p \in Presences, NEW c \in Calls,
         Engage(c, p) \/ EngageRefused(c, p), NEW q \in Presences
  PROVE  NoNewTurn(q)
<1>1. CASE turn' = turn
  BY <1>1 DEF NoNewTurn
<1>2. CASE turn' # turn
  <2>1. turn' = [turn EXCEPT ![p] = c] /\ ~handle[p].disposed
    BY <1>2 DEF Engage, EngageRefused, Refuses
  <2> QED
    BY <2>1 DEF NoNewTurn, LiveInv, LiveTypeOK, TypeOK
<1> QED
  BY <1>1, <1>2

THEOREM DisposedGetsNoTurn == LiveSpec => NoTurnAfterDispose
<1>1. LiveInv /\ [LiveNext]_allVars =>
      [\A p \in Presences :
         handle[p].disposed => turn'[p] \in {turn[p], NoCall}]_vars
  <2> SUFFICES ASSUME LiveInv, [LiveNext]_allVars, NEW q \in Presences
               PROVE  NoNewTurn(q) \/ UNCHANGED vars
    BY DEF NoNewTurn
  <2>1. CASE turn' = turn
    BY <2>1 DEF NoNewTurn
  <2>2. ASSUME NEW p \in Presences, TurnEnds(p)
        PROVE  NoNewTurn(q)
    BY <2>2 DEF TurnEnds, NoNewTurn, LiveInv, LiveTypeOK, TypeOK
  <2>3. ASSUME NEW p \in Presences, NEW c \in Calls, Engage(c, p) \/ EngageRefused(c, p)
        PROVE  NoNewTurn(q)
    BY <2>3, EngageStartsNoDisposed
  <2>4. ASSUME Runtime
        PROVE  turn' = turn \/ \E p \in Presences : TurnEnds(p)
    BY <2>4 DEF Runtime, CallContinues, VendorRejects, PromptResolves, PromptRejects,
                DriveRejects, DriveReturns, Woken, Thrown, AbortReturns, AgentStart
  <2>5. ASSUME NEW p \in Presences, RecipeStep(p) \/ Close(p)
        PROVE  turn' = turn \/ \E c \in Calls : Engage(c, p) \/ EngageRefused(c, p)
    BY <2>5 DEF RecipeStep, Finish, Close, Shut, Dispose, NextTurn, vars
  <2>6. CASE LiveNext
    BY <2>1, <2>2, <2>3, <2>4, <2>5, <2>6
       DEF LiveNext, OwnerEngages, Start, InterruptRun, Interrupt
  <2>7. CASE UNCHANGED allVars
    BY <2>1, <2>7 DEF allVars, vars
  <2> QED
    BY <2>6, <2>7
<1> QED
  BY <1>1, LiveInvariance, PTL DEF LiveSpec, NoTurnAfterDispose
=============================================================================
