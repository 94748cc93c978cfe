----------------------------- MODULE LiveRecipes -----------------------------
(***************************************************************************)
(* Live recipes (app/recipes/live.ts) and the registry through which a      *)
(* presence is interrupted by run id (mediation.ts).  A recipe materializes *)
(* one presence, registers it, engages it turn after turn and disposes it,  *)
(* at once or when its owner closes it.  A recipe and its presence share an *)
(* identity.                                                                *)
(***************************************************************************)
EXTENDS Presence

CONSTANTS RunIds, NoRunId

ASSUME RunIdAssumption == NoRunId \notin RunIds

VARIABLES
  live,      \* the recipes
  registry   \* livePresences: which presence a run id names

liveVars == <<live, registry>>
allVars == <<vars, liveVars>>

(* not begun, performing its turns, returned with the presence kept alive,  *)
(* over.                                                                    *)
LivePc == {"new", "turns", "kept", "closed"}

LiveState == [pc : LivePc, runId : RunIds \cup {NoRunId}, keepAlive : BOOLEAN]

LiveTypeOK ==
  /\ TypeOK
  /\ live \in [Presences -> LiveState]
  /\ registry \in [RunIds -> Presences \cup {NoPresence}]

LiveInit ==
  /\ Init
  /\ live = [p \in Presences |-> [pc |-> "new", runId |-> NoRunId, keepAlive |-> FALSE]]
  /\ registry = [k \in RunIds |-> NoPresence]

(* run, up to the first await of its first turn.                            *)
Start(p, k, keepAlive, c) ==
  /\ live[p].pc = "new"
  /\ live' = [live EXCEPT ![p] = [pc |-> "turns", runId |-> k, keepAlive |-> keepAlive]]
  /\ registry' = [q \in RunIds |-> IF q = k THEN p ELSE registry[q]]
  /\ Engage(c, p)

(* The turn is over.                                                        *)
TurnDone(p) == live[p].pc = "turns" /\ \A c \in Calls : ~(InFlight(c) /\ call[c].on = p)

NextTurn(p, c) ==
  /\ TurnDone(p)
  /\ Engage(c, p) \/ EngageRefused(c, p)
  /\ UNCHANGED liveVars

(* unregisterLivePresence deletes the entry of the run id.                  *)
Mut_Unregistered(p) == registry
Unregistered(p) == [k \in RunIds |-> IF k = live[p].runId THEN NoPresence ELSE registry[k]]

(* Unregister and dispose: the end of the recipe, or its close.             *)
Shut(p) ==
  /\ registry' = Unregistered(p)
  /\ live' = [live EXCEPT ![p].pc = "closed"]
  /\ Dispose(p)

Finish(p) ==
  /\ TurnDone(p)
  /\ IF live[p].keepAlive
     THEN live' = [live EXCEPT ![p].pc = "kept"] /\ UNCHANGED <<vars, registry>>
     ELSE Shut(p)

(* close: once or again, with an engagement of the owner in flight or not.  *)
Close(p) ==
  /\ live[p].keepAlive
  /\ live[p].pc \in {"kept", "closed"}
  /\ Shut(p)

(* The owner of a kept presence goes on engaging it, closed or not.         *)
OwnerEngages(p, c) ==
  /\ live[p].keepAlive
  /\ live[p].pc \in {"kept", "closed"}
  /\ Engage(c, p) \/ EngageRefused(c, p)
  /\ UNCHANGED liveVars

(* Mediation.interrupt; without an entry it rejects with PRESENCE_NOT_LIVE. *)
InterruptRun(i, k) ==
  /\ registry[k] # NoPresence
  /\ Interrupt(i, registry[k])
  /\ UNCHANGED liveVars

(* A recipe goes on: another turn, or the end.                              *)
RecipeStep(p) ==
  Finish(p) \/ \E c \in Calls : NextTurn(p, c)

Runtime ==
  /\ \/ \E c \in Calls : CallContinues(c) \/ VendorRejects(c)
     \/ \E i \in Aborts : AbortReturns(i)
     \/ \E p \in Presences : AgentStart(p) \/ TurnEnds(p)
  /\ UNCHANGED liveVars

LiveNext ==
  \/ Runtime
  \/ \E p \in Presences :
       \/ RecipeStep(p) \/ Close(p)
       \/ \E c \in Calls :
            \/ OwnerEngages(p, c)
            \/ \E k \in RunIds \cup {NoRunId}, keepAlive \in BOOLEAN :
                 Start(p, k, keepAlive, c)
  \/ \E i \in Aborts, k \in RunIds : InterruptRun(i, k)

LiveSpec == LiveInit /\ [][LiveNext]_allVars

(* Node runs every ready continuation, and the vendor ends each turn.  That *)
(* the vendor rejects something is never relied on.                         *)
LiveFairness ==
  /\ \A c \in Calls : WF_allVars(CallContinues(c) /\ UNCHANGED liveVars)
  /\ \A i \in Aborts : WF_allVars(AbortReturns(i) /\ UNCHANGED liveVars)
  /\ \A p \in Presences : WF_allVars(TurnEnds(p) /\ UNCHANGED liveVars)

FairLiveSpec == LiveSpec /\ LiveFairness

-----------------------------------------------------------------------------
(* Properties.                                                              *)

(* An interrupt never reaches a presence that is disposed: what the         *)
(* registry names is live, however recipes replace each other.              *)
RegisteredIsLive ==
  \A k \in RunIds :
    registry[k] # NoPresence =>
      /\ live[registry[k]].pc \in {"turns", "kept"}
      /\ ~handle[registry[k]].disposed
=============================================================================
