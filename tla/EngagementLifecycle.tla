------------------------- MODULE EngagementLifecycle -------------------------
(***************************************************************************)
(* What a durable engagement promises its clients, whatever crashes, is     *)
(* retried or re-run underneath: a run works, may park and be woken a       *)
(* bounded number of times, ends once, and belongs to one session from the  *)
(* moment it has one.                                                       *)
(***************************************************************************)
EXTENDS Naturals

CONSTANTS Runs, Sessions, NoSession, MaxParkLoops

VARIABLES
  state,    \* where each run is
  session,  \* the session it belongs to, once it has one
  served    \* how many of its parks are over

vars == <<state, session, served>>

States == {"absent", "working", "parked", "settled", "failed", "canceled"}

TypeOK ==
  /\ state \in [Runs -> States]
  /\ session \in [Runs -> Sessions \cup {NoSession}]
  /\ served \in [Runs -> 0..MaxParkLoops]

Init ==
  /\ state = [r \in Runs |-> "absent"]
  /\ session = [r \in Runs |-> NoSession]
  /\ served = [r \in Runs |-> 0]

Start(r) ==
  /\ state[r] = "absent"
  /\ state' = [state EXCEPT ![r] = "working"]
  /\ UNCHANGED <<session, served>>

(* The first successful materialization fixes the session for good.         *)
Bind(r) ==
  /\ state[r] = "working"
  /\ session[r] = NoSession
  /\ \E s \in Sessions : session' = [session EXCEPT ![r] = s]
  /\ UNCHANGED <<state, served>>

ParkOn(r) ==
  /\ state[r] = "working"
  /\ session[r] # NoSession
  /\ served[r] < MaxParkLoops
  /\ state' = [state EXCEPT ![r] = "parked"]
  /\ UNCHANGED <<session, served>>

Unpark(r) ==
  /\ state[r] = "parked"
  /\ state' = [state EXCEPT ![r] = "working"]
  /\ served' = [served EXCEPT ![r] = @ + 1]
  /\ UNCHANGED session

Settle(r) ==
  /\ state[r] = "working"
  /\ session[r] # NoSession
  /\ state' = [state EXCEPT ![r] = "settled"]
  /\ UNCHANGED <<session, served>>

Fail(r) ==
  /\ state[r] = "working"
  /\ state' = [state EXCEPT ![r] = "failed"]
  /\ UNCHANGED <<session, served>>

Cancel(r) ==
  /\ state[r] \in {"working", "parked"}
  /\ state' = [state EXCEPT ![r] = "canceled"]
  /\ UNCHANGED <<session, served>>

Next ==
  \E r \in Runs :
    Start(r) \/ Bind(r) \/ ParkOn(r) \/ Unpark(r) \/ Settle(r) \/ Fail(r) \/ Cancel(r)

Spec == Init /\ [][Next]_vars
=============================================================================
