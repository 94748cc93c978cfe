----------------------------- MODULE IpcProofs ------------------------------
(***************************************************************************)
(* Theorems about daemons and their clients, for any number of either and   *)
(* any number of stops, late answers and retries.                           *)
(*                                                                          *)
(* While daemons start one after the other and answer their probes in time, *)
(* PathInv is inductive: one daemon at most is starting; if it is going to  *)
(* unlink, it found nothing serving, and that stays so because nobody else  *)
(* can come to serve meanwhile.                                             *)
(*                                                                          *)
(* Flow says of every subscription what its channel holds: the connected    *)
(* frame first, then records in order, none missing while one daemon serves.*)
(***************************************************************************)
EXTENDS IpcSessions, SequenceTheorems, TLAPS

PathInv ==
  ~together /\ slow = 0 =>
    /\ \A d, e \in Daemons : pc[d] \in Starting /\ pc[e] \in Starting => d = e
    /\ \A d \in Daemons : pc[d] \in {"bound", "serving"} => path = d
    /\ \A d, e \in Daemons : pc[d] \in {"unlink", "relisten"} => pc[e] # "serving"

SocketInv == DaemonsTypeOK /\ PathInv

LEMMA SocketInit == ASSUME DaemonAssumption, DaemonsInit PROVE SocketInv
<1>1. slow \in 0..MaxSlow /\ stops \in 0..MaxStops
  BY DEF DaemonAssumption, DaemonsInit
<1>2. "off" \in DaemonPc
  BY DEF DaemonPc
<1>3. DaemonsTypeOK
  BY <1>1, <1>2, Zenon DEF DaemonsInit, DaemonsTypeOK
<1>4. PathInv
  BY DEF DaemonsInit, PathInv, Starting
<1> QED
  BY <1>3, <1>4 DEF SocketInv

LEMMA StartPreserves ==
  ASSUME SocketInv, NEW d \in Daemons, Start(d)
  PROVE  SocketInv'
<1>1. DaemonsTypeOK'
  BY DEF SocketInv, DaemonsTypeOK, DaemonPc, Starting, Start
<1>2. PathInv'
  BY DEF SocketInv, DaemonsTypeOK, PathInv, Starting, Start
<1> QED
  BY <1>1, <1>2 DEF SocketInv

LEMMA BindPreserves ==
  ASSUME DaemonAssumption, SocketInv, NEW d \in Daemons, Bind(d), pc[d] \in {"listen", "relisten"}
  PROVE  SocketInv'
<1>1. DaemonsTypeOK'
  BY DEF SocketInv, DaemonsTypeOK, DaemonPc, Starting, Bind
<1>2. PathInv'
  BY DEF DaemonAssumption, SocketInv, DaemonsTypeOK, PathInv, Starting, Bind
<1> QED
  BY <1>1, <1>2 DEF SocketInv

(* A daemon that starts moves on without the path: to its probe, or out.    *)
LEMMA MovePreserves ==
  ASSUME SocketInv, NEW d \in Daemons, pc[d] \in Starting,
         NEW t \in {"probe", "exited"}, pc' = [pc EXCEPT ![d] = t],
         UNCHANGED <<path, stopping, slow, stops, together>>
  PROVE  SocketInv'
<1>1. DaemonsTypeOK'
  BY DEF SocketInv, DaemonsTypeOK, DaemonPc, Starting
<1>2. PathInv'
  BY DEF SocketInv, DaemonsTypeOK, PathInv, Starting
<1> QED
  BY <1>1, <1>2 DEF SocketInv

LEMMA ProbePreserves ==
  ASSUME SocketInv, NEW d \in Daemons, Probe(d)
  PROVE  SocketInv'
<1>1. CASE pc' = [pc EXCEPT ![d] = OnProbe(Accepts(path))] /\ UNCHANGED slow
  <2>1. CASE Accepts(path)
    BY <1>1, <2>1, MovePreserves DEF Probe, OnProbe, Starting
  <2>2. CASE ~Accepts(path)
    <3>1. pc' = [pc EXCEPT ![d] = "unlink"]
      BY <1>1, <2>2 DEF OnProbe
    <3>2. DaemonsTypeOK'
      BY <1>1, <3>1 DEF SocketInv, DaemonsTypeOK, DaemonPc, Starting, Probe
    <3>3. PathInv'
      BY <1>1, <2>2, <3>1
      DEF SocketInv, DaemonsTypeOK, PathInv, Starting, Probe, Accepts
    <3> QED
      BY <3>2, <3>3 DEF SocketInv
  <2> QED
    BY <2>1, <2>2
<1>2. CASE slow < MaxSlow /\ pc' = [pc EXCEPT ![d] = OnProbe(FALSE)] /\ slow' = slow + 1
  <2>1. DaemonsTypeOK'
    BY <1>2, DaemonAssumption
    DEF DaemonAssumption, SocketInv, DaemonsTypeOK, DaemonPc, Starting, Probe, OnProbe
  <2>2. slow' # 0
    BY <1>2 DEF SocketInv, DaemonsTypeOK
  <2> QED
    BY <2>1, <2>2 DEF SocketInv, PathInv
<1> QED
  BY <1>1, <1>2 DEF Probe

LEMMA UnlinkPreserves ==
  ASSUME SocketInv, NEW d \in Daemons, Unlink(d)
  PROVE  SocketInv'
<1>1. DaemonsTypeOK'
  BY DEF SocketInv, DaemonsTypeOK, DaemonPc, Starting, Unlink
<1>2. PathInv'
  BY DEF SocketInv, DaemonsTypeOK, PathInv, Starting, Unlink
<1> QED
  BY <1>1, <1>2 DEF SocketInv

LEMMA ServePreserves ==
  ASSUME SocketInv, NEW d \in Daemons, Serve(d)
  PROVE  SocketInv'
<1>1. DaemonsTypeOK'
  BY DEF SocketInv, DaemonsTypeOK, DaemonPc, Starting, Serve
<1>2. PathInv'
  BY DEF SocketInv, DaemonsTypeOK, PathInv, Starting, Serve
<1> QED
  BY <1>1, <1>2 DEF SocketInv

LEMMA StopPreserves ==
  ASSUME DaemonAssumption, SocketInv, NEW d \in Daemons, Shutdown(d) \/ Exit(d) \/ Kill(d)
  PROVE  SocketInv'
<1>1. DaemonsTypeOK'
  BY DEF DaemonAssumption, SocketInv, DaemonsTypeOK, DaemonPc, Starting, Shutdown, Exit, Kill
<1>2. PathInv'
  BY DEF SocketInv, DaemonsTypeOK, PathInv, Starting, Shutdown, Exit, Kill
<1> QED
  BY <1>1, <1>2 DEF SocketInv

LEMMA SocketStillInv == ASSUME SocketInv, UNCHANGED socketVars PROVE SocketInv'
BY DEF SocketInv, DaemonsTypeOK, PathInv, socketVars

LEMMA DaemonNextPreserves ==
  ASSUME SocketInv, DaemonNext
  PROVE  SocketInv'
<1>1. ASSUME NEW d \in Daemons, ListenFirst(d) PROVE SocketInv'
  BY <1>1, DaemonAssumption, BindPreserves, MovePreserves DEF ListenFirst, Starting
<1>2. ASSUME NEW d \in Daemons, ListenAgain(d) PROVE SocketInv'
  BY <1>2, DaemonAssumption, BindPreserves, MovePreserves DEF ListenAgain, Starting
<1> QED
  BY <1>1, <1>2, DaemonAssumption, StartPreserves, ProbePreserves, UnlinkPreserves,
     ServePreserves, StopPreserves
  DEF DaemonNext, DaemonStep

-----------------------------------------------------------------------------
(* What the clients do to the socket: they start daemons.                   *)
LEMMA ClientsStartOnly ==
  ASSUME NEW c \in Clients,
         ClientStep(c) \/ Dispatch(c) \/ RequestFails(c) \/ Subscribe(c) \/ Unsubscribe(c)
  PROVE  UNCHANGED socketVars \/ \E d \in Daemons : Start(d)
<1>1. CASE Ping(c) \/ Poll(c) \/ Deadline(c) \/ Spawn(c)
  BY <1>1 DEF Ping, Poll, Deadline, Spawn, Pinged
<1>2. CASE Dispatch(c) \/ Handle(c) \/ Answer(c) \/ RequestFails(c)
  BY <1>2 DEF Dispatch, Handle, Answer, RequestFails, Requested
<1>3. CASE Subscribe(c) \/ Connected(c) \/ Frame(c) \/ ConnectionLost(c) \/ Unsubscribe(c)
           \/ CloseSeen(c)
  BY <1>3 DEF Subscribe, Connected, Frame, ConnectionLost, Unsubscribe, CloseSeen, Subscribed
<1> QED
  BY <1>1, <1>2, <1>3 DEF ClientStep

LEMMA SocketInvariant == Spec => []SocketInv
<1>1. Init => SocketInv
  BY SocketInit, DaemonAssumption DEF Init
<1>2. SocketInv /\ [Next]_vars => SocketInv'
  <2>1. SocketInv /\ UNCHANGED vars => SocketInv'
    BY SocketStillInv DEF vars
  <2>2. ASSUME SocketInv, NEW d \in Daemons, NEW c \in Clients, Emit(d, c) PROVE SocketInv'
    BY <2>2, SocketStillInv DEF Emit
  <2> QED
    BY <2>1, <2>2, DaemonNextPreserves, ClientsStartOnly, StartPreserves, SocketStillInv
    DEF Next
<1> QED
  BY <1>1, <1>2, PTL DEF Spec

(* Daemons that start one after the other and answer probes in time never   *)
(* take the path from one that serves (listenWithCleanup).                  *)
THEOREM StartedApartKeepsThePath == Spec => []ServingHasThePath
<1>1. SocketInv => ServingHasThePath
  BY DEF SocketInv, PathInv, ServingHasThePath
<1> QED
  BY <1>1, SocketInvariant, PTL

-----------------------------------------------------------------------------
KeyInv ==
  Keyed => \A c \in Clients :
    /\ runs[c] \in {0, 1}
    /\ request[c].pc = "handled" => request[c].run = 1
    /\ answers[c] \subseteq {1}

IdInv ==
  /\ request \in [Clients -> [pc : {"idle", "sent", "handled"}, on : Daemons \cup {NoDaemon},
                              tries : Nat, run : Nat]]
  /\ runs \in [Clients -> Nat]
  /\ answers \in [Clients -> SUBSET Nat]
  /\ KeyInv

LEMMA KeyedRunIsOne == ASSUME Keyed, NEW n \in {0, 1} PROVE RunFor(n) = 1
BY DEF RunFor

(* What the steps of a request make of it.                                  *)
LEMMA RequestPreserves ==
  ASSUME IpcAssumption, SocketInv, IdInv, NEW c \in Clients,
         Dispatch(c) \/ Handle(c) \/ Answer(c) \/ RequestFails(c)
  PROVE  IdInv'
<1> DEFINE R == [pc : {"idle", "sent", "handled"}, on : Daemons \cup {NoDaemon},
                 tries : Nat, run : Nat]
<1>1. request[c] \in R /\ runs[c] \in Nat /\ RunFor(runs[c]) \in Nat
  BY DEF IdInv, RunFor
<1>2. CASE Dispatch(c)
  <2>1. PICK r \in R : r.pc # "handled" /\ request' = [request EXCEPT ![c] = r]
    <3>1. CASE Accepts(path)
      <4>1. path \in Daemons
        BY <3>1 DEF Accepts
      <4>2. [request[c] EXCEPT !.pc = "sent", !.on = path, !.tries = @ + 1] \in R
        <5>1. request[c].tries + 1 \in Nat
          BY <1>1
        <5> QED
          BY <1>1, <4>1, <5>1, ZenonT(60)
      <4> QED
        BY <1>1, <1>2, <3>1, <4>2 DEF Dispatch, Requested
    <3>2. CASE ~Accepts(path)
      <4>1. [request[c] EXCEPT !.tries = @ + 1] \in R
        BY <1>1
      <4> QED
        BY <1>1, <1>2, <3>2, <4>1 DEF Dispatch, Requested
    <3> QED
      BY <3>1, <3>2
  <2>2. UNCHANGED <<runs, answers>>
    BY <1>2 DEF Dispatch
  <2> QED
    BY <2>1, <2>2 DEF IdInv, KeyInv
<1>3. CASE Handle(c)
  BY <1>1, <1>3, KeyedRunIsOne DEF IdInv, KeyInv, Handle, Requested
<1>4. ASSUME Answer(c) \/ RequestFails(c)
      PROVE  /\ request' \in [Clients -> R]
             /\ \A b \in Clients : request'[b].pc = "handled" => b # c /\ request'[b] = request[b]
  <2>1. request' = [request EXCEPT ![c] = Forgotten(c)]
    BY <1>4 DEF Answer, RequestFails, Requested
  <2>2. Forgotten(c) \in R /\ Forgotten(c).pc = "idle"
    BY <1>1 DEF Forgotten
  <2> QED
    BY <2>1, <2>2 DEF IdInv
<1>5. CASE Answer(c)
  <2>1. UNCHANGED runs /\ answers' = [answers EXCEPT ![c] = @ \cup {request[c].run}]
        /\ request[c].pc = "handled"
    BY <1>5 DEF Answer, HasResult
  <2>2. answers' \in [Clients -> SUBSET Nat]
    BY <1>1, <2>1 DEF IdInv
  <2>3. KeyInv'
    BY <1>4, <1>5, <2>1 DEF IdInv, KeyInv
  <2> QED
    BY <1>4, <1>5, <2>1, <2>2, <2>3 DEF IdInv
<1>6. CASE RequestFails(c)
  <2>1. UNCHANGED answers
        /\ (runs' = runs \/ runs' = [runs EXCEPT ![c] = IF RunFor(@) > @ THEN RunFor(@) ELSE @])
    BY <1>6 DEF RequestFails
  <2>2. runs' \in [Clients -> Nat]
    BY <1>1, <2>1 DEF IdInv
  <2>3. KeyInv'
    BY <1>4, <1>6, <2>1, KeyedRunIsOne DEF IdInv, KeyInv
  <2> QED
    BY <1>4, <1>6, <2>1, <2>2, <2>3 DEF IdInv
<1> QED
  BY <1>2, <1>3, <1>5, <1>6

LEMMA RestKeepsIds ==
  ASSUME Next
  PROVE  \/ UNCHANGED <<request, runs, answers>>
         \/ \E c \in Clients : Dispatch(c) \/ Handle(c) \/ Answer(c) \/ RequestFails(c)
BY DEF Next, ClientStep, sessionVars, Ping, Poll, Deadline, Spawn, Pinged, Subscribe,
   Connected, Frame, ConnectionLost, Unsubscribe, CloseSeen, Subscribed, Emit

(* With a clientRequestId there is one run, however often the dispatch is   *)
(* repeated and whatever answers get lost (runtime.ts, the idempotency key  *)
(* of dispatch).                                                            *)
THEOREM OneRunPerKey == Spec => []OneRunPerRequest
<1>1. Init => IdInv
  BY IpcAssumption DEF IpcAssumption, Init, IdInv, KeyInv
<1>2. SocketInv /\ IdInv /\ [Next]_vars => IdInv'
  <2>1. IdInv /\ UNCHANGED <<request, runs, answers>> => IdInv'
    BY DEF IdInv, KeyInv
  <2> QED
    BY <2>1, RestKeepsIds, RequestPreserves, IpcAssumption DEF vars, sessionVars
<1>3. IdInv => OneRunPerRequest
  BY DEF IdInv, KeyInv, OneRunPerRequest
<1> QED
  BY <1>1, <1>2, <1>3, SocketInvariant, PTL DEF Spec
-----------------------------------------------------------------------------
(* Types.  A client has no more runs than dispatches that reached a daemon. *)
CountInv ==
  \A c \in Clients :
    /\ runs[c] <= request[c].tries
    /\ request[c].pc = "sent" => runs[c] + 1 <= request[c].tries
    /\ request[c].pc = "handled" => request[c].run \in 1..MaxTries

TypeInv == TypeOK /\ CountInv

LEMMA RunForIsNext ==
  ASSUME NEW n \in Nat PROVE RunFor(n) \in 1..n + 1
BY DEF RunFor

LEMMA RequestTypes ==
  ASSUME IpcAssumption, TypeInv, NEW c \in Clients,
         Dispatch(c) \/ Handle(c) \/ Answer(c) \/ RequestFails(c)
  PROVE  TypeInv'
<1>1. /\ request[c] \in RequestState /\ runs[c] \in 0..MaxTries /\ request[c].tries \in 0..MaxTries
      /\ runs[c] \in Nat /\ RunFor(runs[c]) \in 1..runs[c] + 1 /\ MaxTries \in Nat
      /\ request \in [Clients -> RequestState] /\ runs \in [Clients -> 0..MaxTries]
      /\ answers \in [Clients -> SUBSET (1..MaxTries)]
  <2>1. /\ request[c] \in RequestState /\ runs[c] \in 0..MaxTries /\ MaxTries \in Nat
        /\ request \in [Clients -> RequestState] /\ runs \in [Clients -> 0..MaxTries]
        /\ answers \in [Clients -> SUBSET (1..MaxTries)]
    BY DEF TypeInv, TypeOK, IpcAssumption
  <2> QED
    BY <2>1, RunForIsNext DEF RequestState
<1>2. UNCHANGED <<socketVars, client, sub, channel, heard, emitted>>
  BY DEF Dispatch, Handle, Answer, RequestFails, Requested
<1>3. ASSUME request' \in [Clients -> RequestState], runs' \in [Clients -> 0..MaxTries],
             answers' \in [Clients -> SUBSET (1..MaxTries)]
      PROVE  TypeOK'
  BY <1>2, <1>3 DEF TypeInv, TypeOK, DaemonsTypeOK, socketVars
<1>4. CASE Dispatch(c)
  <2>1. PICK r \in RequestState :
          /\ r.pc # "handled" /\ request' = [request EXCEPT ![c] = r]
          /\ r.tries = request[c].tries + 1
    <3>1. request[c].tries + 1 \in 0..MaxTries /\ request[c].pc = "idle"
      BY <1>1, <1>4 DEF Dispatch
    <3>2. CASE Accepts(path)
      <4> DEFINE r == [request[c] EXCEPT !.pc = "sent", !.on = path, !.tries = @ + 1]
      <4>1. path \in Daemons
        BY <3>2 DEF Accepts
      <4>2. r \in RequestState
        BY <1>1, <3>1, <4>1, ZenonT(60) DEF RequestState
      <4>3. r.pc = "sent" /\ r.tries = request[c].tries + 1
        BY <1>1 DEF RequestState
      <4>4. request' = [request EXCEPT ![c] = r]
        BY <1>4, <3>2 DEF Dispatch, Requested
      <4> HIDE DEF r
      <4> QED
        BY <4>2, <4>3, <4>4
    <3>3. CASE ~Accepts(path)
      <4> DEFINE r == [request[c] EXCEPT !.tries = @ + 1]
      <4>1. r \in RequestState
        BY <1>1, <3>1, ZenonT(60) DEF RequestState
      <4>2. r.pc = "idle" /\ r.tries = request[c].tries + 1
        BY <1>1, <3>1 DEF RequestState
      <4>3. request' = [request EXCEPT ![c] = r]
        BY <1>4, <3>3 DEF Dispatch, Requested
      <4> HIDE DEF r
      <4> QED
        BY <4>1, <4>2, <4>3
    <3> QED
      BY <3>2, <3>3
  <2>2. UNCHANGED <<runs, answers>>
    BY <1>4 DEF Dispatch
  <2>3. CountInv'
    BY <1>1, <2>1, <2>2 DEF TypeInv, CountInv
  <2> QED
    BY <1>1, <1>3, <2>1, <2>2, <2>3 DEF TypeInv
<1>5. CASE Handle(c)
  <2> DEFINE r == [request[c] EXCEPT !.pc = "handled", !.run = RunFor(runs[c])]
  <2>1. r \in RequestState
    <3>1. RunFor(runs[c]) \in Nat
      BY <1>1
    <3> QED
      BY <1>1, <3>1, ZenonT(60) DEF RequestState
  <2>2. r.pc = "handled" /\ r.tries = request[c].tries /\ r.run = RunFor(runs[c])
    BY <1>1 DEF RequestState
  <2>3. /\ request' = [request EXCEPT ![c] = r] /\ request[c].pc = "sent" /\ UNCHANGED answers
        /\ runs' = [runs EXCEPT ![c] = IF RunFor(@) > @ THEN RunFor(@) ELSE @]
    BY <1>5 DEF Handle, Requested
  <2> HIDE DEF r
  <2>4. runs[c] + 1 <= request[c].tries
    BY <2>3 DEF TypeInv, CountInv
  <2>5. runs'[c] \in 0..request[c].tries /\ RunFor(runs[c]) \in 1..MaxTries
    BY <1>1, <2>3, <2>4
  <2>6. runs' \in [Clients -> 0..MaxTries]
    BY <1>1, <2>3, <2>5
  <2>7. CountInv'
    BY <1>1, <2>1, <2>2, <2>3, <2>5 DEF TypeInv, CountInv
  <2> QED
    BY <1>1, <1>3, <2>1, <2>3, <2>6, <2>7 DEF TypeInv
<1>6. ASSUME Answer(c) \/ RequestFails(c)
      PROVE  \E r \in RequestState : /\ r.pc = "idle" /\ r.tries = request[c].tries
                                     /\ request' = [request EXCEPT ![c] = r]
  <2>1. request' = [request EXCEPT ![c] = Forgotten(c)]
    BY <1>6 DEF Answer, RequestFails, Requested
  <2>2. Forgotten(c) \in RequestState
    BY <1>1, ZenonT(60) DEF RequestState, Forgotten
  <2>3. Forgotten(c).pc = "idle" /\ Forgotten(c).tries = request[c].tries
    BY <1>1 DEF RequestState, Forgotten
  <2> QED
    BY <2>1, <2>2, <2>3
<1>7. CASE Answer(c)
  <2>1. request[c].run \in 1..MaxTries /\ UNCHANGED runs
        /\ answers' = [answers EXCEPT ![c] = @ \cup {request[c].run}]
    BY <1>7 DEF Answer, HasResult, TypeInv, CountInv
  <2>2. CountInv'
    BY <1>1, <1>6, <1>7, <2>1 DEF TypeInv, CountInv
  <2> QED
    BY <1>1, <1>3, <1>6, <1>7, <2>1, <2>2 DEF TypeInv
<1>8. CASE RequestFails(c)
  <2>1. UNCHANGED answers
        /\ \/ UNCHANGED runs
           \/ /\ request[c].pc = "sent"
              /\ runs' = [runs EXCEPT ![c] = IF RunFor(@) > @ THEN RunFor(@) ELSE @]
    BY <1>8 DEF RequestFails
  <2>2. request[c].pc = "sent" => runs[c] + 1 <= request[c].tries
    BY DEF TypeInv, CountInv
  <2>3. runs[c] <= request[c].tries
    BY DEF TypeInv, CountInv
  <2>4. runs' \in [Clients -> 0..MaxTries] /\ runs'[c] <= request[c].tries
        /\ \A b \in Clients : b # c => runs'[b] = runs[b]
    BY <1>1, <2>1, <2>2, <2>3
  <2>5. CountInv'
    BY <1>1, <1>6, <1>8, <2>4 DEF TypeInv, CountInv
  <2> QED
    BY <1>1, <1>3, <1>6, <1>8, <2>1, <2>4, <2>5 DEF TypeInv
<1> QED
  BY <1>4, <1>5, <1>7, <1>8

(* The steps of a subscription: what changes for the client c.              *)
SubStep(c) ==
  Subscribe(c) \/ Connected(c) \/ Frame(c) \/ ConnectionLost(c) \/ Unsubscribe(c) \/ CloseSeen(c)

LEMMA SubscriptionTypes ==
  ASSUME IpcAssumption, TypeInv, NEW c \in Clients, SubStep(c)
  PROVE  /\ sub' \in [Clients -> SubState] /\ channel' \in [Clients -> Seq(Frames)]
         /\ heard' \in [Clients -> Seq(1..MaxRecords)]
         /\ sub' = [sub EXCEPT ![c] = sub'[c]] /\ channel' = [channel EXCEPT ![c] = channel'[c]]
         /\ heard' = [heard EXCEPT ![c] = heard'[c]]
         /\ UNCHANGED <<socketVars, client, request, runs, answers, emitted>>
<1>1. /\ sub \in [Clients -> SubState] /\ channel \in [Clients -> Seq(Frames)]
      /\ heard \in [Clients -> Seq(1..MaxRecords)] /\ emitted \in [Clients -> Seq(Daemons)]
      /\ sub[c] \in SubState /\ channel[c] \in Seq(Frames) /\ heard[c] \in Seq(1..MaxRecords)
      /\ Len(emitted[c]) + 1 \in Nat /\ Hello \in Frames /\ MaxRecords \in Nat
  BY DEF TypeInv, TypeOK, Hello, Frames, IpcAssumption
<1>2. UNCHANGED <<socketVars, client, request, runs, answers, emitted>>
  BY DEF SubStep, Subscribe, Connected, Frame, ConnectionLost, Unsubscribe, CloseSeen, Subscribed
<1>3. \E s \in SubState : sub' = [sub EXCEPT ![c] = s]
  <2>1. CASE Subscribe(c)
    <3>1. path \in Daemons => [sub[c] EXCEPT !.pc = "asked", !.to = path] \in SubState
      BY <1>1, ZenonT(60) DEF SubState
    <3>2. [sub[c] EXCEPT !.pc = "failed"] \in SubState
      BY <1>1, ZenonT(60) DEF SubState
    <3> QED
      BY <2>1, <3>1, <3>2 DEF Subscribe, Subscribed, Accepts
  <2>2. CASE Connected(c)
    <3>1. sub[c].to \in Daemons \cup {NoDaemon}
      BY <1>1 DEF SubState
    <3>2. [sub[c] EXCEPT !.server = sub[c].to, !.from = Len(emitted[c]) + 1] \in SubState
      BY <1>1, <3>1, ZenonT(60) DEF SubState
    <3> QED
      BY <2>2, <3>2 DEF Connected, Subscribed
  <2>3. CASE Frame(c)
    <3> DEFINE early == runs[c] = 0 /\ request[c].tries = 0
    <3>1. early \in BOOLEAN
      OBVIOUS
    <3>2. [sub[c] EXCEPT !.pc = "ready", !.early = early] \in SubState
      <4> HIDE DEF early
      <4> QED
        BY <1>1, <3>1, ZenonT(60) DEF SubState
    <3> QED
      BY <1>1, <2>3, <3>2 DEF Frame, Subscribed
  <2>4. CASE ConnectionLost(c)
    <3>1. [sub[c] EXCEPT !.pc = "failed"] \in SubState
      BY <1>1, ZenonT(60) DEF SubState
    <3>2. [sub[c] EXCEPT !.pc = @] = sub[c]
      BY <1>1 DEF SubState
    <3>3. sub' = [sub EXCEPT ![c] = IF sub[c].pc = "asked" THEN [sub[c] EXCEPT !.pc = "failed"]
                                    ELSE [sub[c] EXCEPT !.pc = @]]
      BY <1>1, <2>4 DEF ConnectionLost, Subscribed, SubState
    <3> QED
      BY <1>1, <3>1, <3>2, <3>3
  <2>5. CASE Unsubscribe(c)
    <3>1. [sub[c] EXCEPT !.pc = "closed"] \in SubState
      BY <1>1, ZenonT(60) DEF SubState
    <3> QED
      BY <2>5, <3>1 DEF Unsubscribe, Subscribed
  <2>6. CASE CloseSeen(c)
    <3>1. [sub[c] EXCEPT !.server = NoDaemon] \in SubState
      BY <1>1, ZenonT(60) DEF SubState
    <3> QED
      BY <2>6, <3>1 DEF CloseSeen, Subscribed, AfterClose
  <2> QED
    BY <2>1, <2>2, <2>3, <2>4, <2>5, <2>6 DEF SubStep
<1>4. \E fs \in Seq(Frames) : channel' = [channel EXCEPT ![c] = fs]
  <2>0. /\ <<>> \in Seq(Frames) /\ Append(channel[c], Hello) \in Seq(Frames)
        /\ channel[c] # <<>> => Tail(channel[c]) \in Seq(Frames)
    BY <1>1
  <2>1. CASE UNCHANGED channel
    BY <1>1, <2>1
  <2>2. CASE channel' = [channel EXCEPT ![c] = <<>>]
    BY <2>0, <2>2
  <2>3. CASE channel' = [channel EXCEPT ![c] = Append(@, Hello)]
    BY <2>0, <2>3
  <2>4. CASE channel[c] # <<>> /\ channel' = [channel EXCEPT ![c] = Tail(@)]
    BY <2>0, <2>4
  <2> QED
    BY <2>1, <2>2, <2>3, <2>4
    DEF SubStep, Subscribe, Connected, Frame, Rest, ConnectionLost, Unsubscribe, CloseSeen
<1>5. \E rs \in Seq(1..MaxRecords) : heard' = [heard EXCEPT ![c] = rs]
  <2>1. CASE UNCHANGED heard
    BY <1>1, <2>1
  <2>2. CASE /\ channel[c] # <<>> /\ Head(channel[c]) # Hello
             /\ heard' = [heard EXCEPT ![c] = Append(@, Head(channel[c]))]
    <3>1. Head(channel[c]) \in Frames
      BY <1>1, <2>2
    <3>2. Head(channel[c]) \in 1..MaxRecords
      BY <1>1, <2>2, <3>1 DEF Frames, Hello
    <3>3. Append(heard[c], Head(channel[c])) \in Seq(1..MaxRecords)
      BY <1>1, <3>2
    <3> QED
      BY <2>2, <3>3
  <2> QED
    BY <2>1, <2>2
    DEF SubStep, Subscribe, Connected, Frame, ConnectionLost, Unsubscribe, CloseSeen
<1> QED
  BY <1>1, <1>2, <1>3, <1>4, <1>5

LEMMA ClientTypes ==
  ASSUME IpcAssumption, TypeInv, NEW c \in Clients,
         Ping(c) \/ Spawn(c) \/ Poll(c) \/ Deadline(c)
  PROVE  /\ client' \in [Clients -> EnsurePc]
         /\ UNCHANGED <<request, runs, answers, sub, channel, heard, emitted>>
<1>1. client \in [Clients -> EnsurePc]
  BY DEF TypeInv, TypeOK
<1> QED
  BY <1>1 DEF Ping, Spawn, Poll, Deadline, Pinged, EnsurePc

LEMMA EmitTypes ==
  ASSUME IpcAssumption, TypeInv, NEW d \in Daemons, NEW c \in Clients, Emit(d, c)
  PROVE  /\ emitted' \in [Clients -> Seq(Daemons)] /\ channel' \in [Clients -> Seq(Frames)]
         /\ UNCHANGED <<socketVars, client, request, runs, answers, sub, heard>>
<1>1. /\ emitted[c] \in Seq(Daemons) /\ channel[c] \in Seq(Frames)
      /\ emitted \in [Clients -> Seq(Daemons)] /\ channel \in [Clients -> Seq(Frames)]
      /\ MaxRecords \in Nat /\ Len(emitted[c]) < MaxRecords
  BY DEF TypeInv, TypeOK, IpcAssumption, Emit
<1>2. /\ Append(emitted[c], d) \in Seq(Daemons) /\ Len(Append(emitted[c], d)) \in Frames
      /\ emitted' = [emitted EXCEPT ![c] = Append(emitted[c], d)]
  BY <1>1 DEF Frames, Emit
<1>3. Append(channel[c], Len(emitted'[c])) \in Seq(Frames)
  BY <1>1, <1>2
<1> QED
  BY <1>1, <1>2, <1>3 DEF Emit

LEMMA TypeInvStep ==
  ASSUME IpcAssumption, SocketInv', TypeInv, [Next]_vars
  PROVE  TypeInv'
<1>1. DaemonsTypeOK'
  BY DEF SocketInv
<1>2. CASE UNCHANGED sessionVars
  BY <1>1, <1>2 DEF TypeInv, TypeOK, CountInv, sessionVars
<1>3. ASSUME NEW c \in Clients, Ping(c) \/ Spawn(c) \/ Poll(c) \/ Deadline(c) PROVE TypeInv'
  BY <1>1, <1>3, ClientTypes DEF TypeInv, TypeOK, CountInv
<1>4. ASSUME NEW c \in Clients, SubStep(c) PROVE TypeInv'
  BY <1>1, <1>4, SubscriptionTypes DEF TypeInv, TypeOK, CountInv
<1>5. ASSUME NEW d \in Daemons, NEW c \in Clients, Emit(d, c) PROVE TypeInv'
  BY <1>1, <1>5, EmitTypes DEF TypeInv, TypeOK, CountInv
<1> QED
  BY <1>2, <1>3, <1>4, <1>5, RequestTypes DEF Next, ClientStep, SubStep, vars

LEMMA TypeInvariant == Spec => []TypeInv
<1>1. Init => TypeInv
  <2> SUFFICES ASSUME Init PROVE TypeInv
    OBVIOUS
  <2> DEFINE noRequest == [pc |-> "idle", on |-> NoDaemon, tries |-> 0, run |-> 0]
             noSub == [pc |-> "off", to |-> NoDaemon, server |-> NoDaemon, from |-> 0,
                       early |-> FALSE]
  <2>1. DaemonsTypeOK /\ MaxTries \in Nat
    BY SocketInit, DaemonAssumption, IpcAssumption DEF Init, SocketInv, IpcAssumption
  <2>2. noRequest \in RequestState /\ noSub \in SubState
    BY <2>1 DEF RequestState, SubState
  <2>3. noRequest.pc = "idle" /\ noRequest.tries = 0
    OBVIOUS
  <2> HIDE DEF noRequest, noSub
  <2>4. /\ client = [c \in Clients |-> "ping"] /\ request = [c \in Clients |-> noRequest]
        /\ runs = [c \in Clients |-> 0] /\ answers = [c \in Clients |-> {}]
        /\ sub = [c \in Clients |-> noSub] /\ channel = [c \in Clients |-> <<>>]
        /\ heard = [c \in Clients |-> <<>>] /\ emitted = [c \in Clients |-> <<>>]
    BY DEF Init, noRequest, noSub
  <2>5. TypeOK
    BY <2>1, <2>2, <2>4 DEF TypeOK, EnsurePc
  <2>6. CountInv
    BY <2>3, <2>4 DEF CountInv
  <2> QED
    BY <2>5, <2>6 DEF TypeInv
<1>2. SocketInv' /\ TypeInv /\ [Next]_vars => TypeInv'
  BY TypeInvStep, IpcAssumption
<1> QED
  BY <1>1, <1>2, SocketInvariant, PTL DEF Spec

(* Every variable of daemons and clients keeps its type; no client has more *)
(* runs, or is told of more, than it sent dispatches (ipc-client.ts).       *)
THEOREM IpcTypeCorrectness == Spec => []TypeOK
<1>1. TypeInv => TypeOK
  BY DEF TypeInv
<1> QED
  BY <1>1, TypeInvariant, PTL

-----------------------------------------------------------------------------
(* Subscriptions.  Before a run is dispatched nothing is emitted of it, so  *)
(* that a subscriber that was ready by then has missed nothing yet; while   *)
(* its daemon serves, the connection holds and keeps the order.             *)
InOrder(c) ==
  /\ Len(heard[c]) + Len(channel[c]) = Len(emitted[c])
  /\ \A i \in 1..Len(heard[c]) : heard[c][i] = i
  /\ \A i \in 1..Len(channel[c]) : channel[c][i] = Len(heard[c]) + i

Flow(c) ==
  /\ runs[c] = 0 => emitted[c] = <<>>
  /\ \A i \in 1..Len(emitted[c]) : pc[emitted[c][i]] # "off"
  /\ sub[c].to # NoDaemon => sub[c].to \in Daemons /\ pc[sub[c].to] \in {"serving", "exited"}
  /\ sub[c].pc \in {"asked", "ready"} => sub[c].to # NoDaemon
  /\ sub[c].pc = "off" =>
       sub[c].to = NoDaemon /\ sub[c].server = NoDaemon /\ heard[c] = <<>> /\ channel[c] = <<>>
  /\ sub[c].pc = "asked" =>
       /\ heard[c] = <<>>
       /\ \/ sub[c].server = NoDaemon /\ channel[c] = <<>>
          \/ sub[c].server = sub[c].to /\ channel[c] # <<>> /\ Head(channel[c]) = Hello
       /\ emitted[c] = <<>> => Len(channel[c]) <= 1
       /\ \A i \in 2..Len(channel[c]) : channel[c][i] # Hello
  /\ sub[c].pc = "ready" =>
       /\ sub[c].server = sub[c].to
       /\ \A i \in 1..Len(channel[c]) : channel[c][i] # Hello
  /\ sub[c].pc = "ready" /\ sub[c].early /\ OnlyDaemon(sub[c].to) /\ Accepts(sub[c].to) =>
       InOrder(c)

(* Daemons never go back to off, nor to serving.                            *)
Onwards ==
  \A d \in Daemons : /\ pc[d] # "off" => pc'[d] # "off"
                     /\ pc[d] \in {"serving", "exited"} => pc'[d] \in {"serving", "exited"}
                     /\ pc[d] = "exited" => pc'[d] = "exited"

LEMMA DaemonsGoOnwards ==
  ASSUME SocketInv, DaemonNext \/ UNCHANGED socketVars \/ \E d \in Daemons : Start(d)
  PROVE  Onwards
<1>1. pc \in [Daemons -> DaemonPc]
  BY DEF SocketInv, DaemonsTypeOK
<1>2. ASSUME NEW d \in Daemons, Start(d) PROVE Onwards
  BY <1>1, <1>2 DEF Start, Onwards
<1>3. ASSUME NEW d \in Daemons, DaemonStep(d) PROVE Onwards
  BY <1>1, <1>3
  DEF DaemonStep, ListenFirst, ListenAgain, Probe, OnProbe, Unlink, Serve, Bind, Onwards
<1>4. ASSUME NEW d \in Daemons, Shutdown(d) \/ Exit(d) \/ Kill(d) PROVE Onwards
  BY <1>1, <1>4 DEF Shutdown, Exit, Kill, Onwards
<1>5. CASE UNCHANGED socketVars
  BY <1>5 DEF socketVars, Onwards
<1> QED
  BY <1>2, <1>3, <1>4, <1>5 DEF DaemonNext

(* A step that leaves the subscription of c alone, and what is emitted.     *)
LEMMA FlowStays ==
  ASSUME TypeInv, NEW c \in Clients, Flow(c), Onwards, SocketInv',
         runs[c] <= runs'[c], runs'[c] \in Nat,
         sub'[c] = sub[c], channel'[c] = channel[c], heard'[c] = heard[c],
         emitted'[c] = emitted[c]
  PROVE  Flow(c)'
<1>1. /\ runs[c] \in Nat /\ emitted[c] \in Seq(Daemons) /\ sub[c].to \in Daemons \cup {NoDaemon}
      /\ \A i \in 1..Len(emitted[c]) : emitted[c][i] \in Daemons
  <2>1. runs[c] \in Nat /\ emitted[c] \in Seq(Daemons) /\ sub[c] \in SubState
    BY IpcAssumption DEF TypeInv, TypeOK, IpcAssumption
  <2> QED
    BY <2>1 DEF SubState
<1>2. runs'[c] = 0 => emitted'[c] = <<>>
  BY <1>1 DEF Flow
<1>3. \A i \in 1..Len(emitted'[c]) : pc'[emitted'[c][i]] # "off"
  BY <1>1 DEF Flow, Onwards
<1>4. sub'[c].to # NoDaemon => sub'[c].to \in Daemons /\ pc'[sub'[c].to] \in {"serving", "exited"}
  BY <1>1 DEF Flow, Onwards
<1>5. sub[c].pc = "ready" /\ OnlyDaemon(sub[c].to)' /\ Accepts(sub[c].to)' =>
        OnlyDaemon(sub[c].to) /\ Accepts(sub[c].to)
  BY <1>1 DEF Flow, Onwards, OnlyDaemon, Accepts
<1>6. sub[c].pc = "ready" /\ OnlyDaemon(sub[c].to)' /\ Accepts(sub[c].to)' /\ sub[c].early => InOrder(c)'
  BY <1>5 DEF Flow, InOrder
<1> QED
  BY <1>2, <1>3, <1>4, <1>6 DEF Flow

LEMMA AppendFacts ==
  ASSUME NEW S, NEW s \in Seq(S), NEW x \in S
  PROVE  /\ Append(s, x) \in Seq(S) /\ Len(Append(s, x)) = Len(s) + 1 /\ Len(s) \in Nat
         /\ Append(s, x)[Len(s) + 1] = x
         /\ \A i \in 1..Len(s) : Append(s, x)[i] = s[i]
         /\ Append(s, x) # <<>>
         /\ Head(Append(s, x)) = IF s = <<>> THEN x ELSE Head(s)
<1>1. /\ Append(s, x) \in Seq(S) /\ Len(Append(s, x)) = Len(s) + 1 /\ Len(s) \in Nat
      /\ Append(s, x)[Len(s) + 1] = x
      /\ \A i \in 1..Len(s) : Append(s, x)[i] = s[i]
  OBVIOUS
<1>2. Append(s, x) # <<>>
  <2>1. Len(<<>>) = 0
    OBVIOUS
  <2> QED
    BY <1>1, <2>1
<1>3. Head(Append(s, x)) = Append(s, x)[1]
  BY <1>1, <1>2
<1>4. CASE s = <<>>
  <2>1. Len(s) = 0
    BY <1>4
  <2> QED
    BY <1>1, <1>2, <1>3, <1>4, <2>1
<1>5. CASE s # <<>>
  <2>1. Head(s) = s[1] /\ 1 \in 1..Len(s)
    BY <1>5
  <2> QED
    BY <1>1, <1>2, <1>3, <1>5, <2>1
<1> QED
  BY <1>4, <1>5

LEMMA SubscriptionFlows ==
  ASSUME TypeInv, NEW c \in Clients, Flow(c), SubStep(c)
  PROVE  Flow(c)'
<1>1. /\ sub[c] \in SubState /\ channel[c] \in Seq(Frames) /\ heard[c] \in Seq(1..MaxRecords)
      /\ emitted[c] \in Seq(Daemons) /\ runs[c] \in Nat
      /\ sub \in [Clients -> SubState] /\ channel \in [Clients -> Seq(Frames)]
      /\ heard \in [Clients -> Seq(1..MaxRecords)]
      /\ NoDaemon \notin Daemons /\ Hello = 0
  BY IpcAssumption DEF TypeInv, TypeOK, IpcAssumption, Hello
<1>2. UNCHANGED <<socketVars, client, request, runs, answers, emitted>>
  BY IpcAssumption, SubscriptionTypes
<1>3. /\ pc' = pc /\ runs'[c] = runs[c] /\ emitted'[c] = emitted[c]
      /\ runs'[c] = 0 => emitted'[c] = <<>>
      /\ \A i \in 1..Len(emitted'[c]) : pc'[emitted'[c][i]] # "off"
      /\ \A d : Accepts(d)' <=> Accepts(d)
      /\ \A d : OnlyDaemon(d)' <=> OnlyDaemon(d)
  BY <1>2 DEF socketVars, Flow, Accepts, OnlyDaemon
<1>4. CASE Subscribe(c)
  <2>1. /\ sub[c].pc = "off" /\ heard'[c] = heard[c] /\ channel'[c] = channel[c]
        /\ \/ /\ Accepts(path) /\ sub'[c].pc = "asked" /\ sub'[c].to = path
              /\ sub'[c].server = sub[c].server
           \/ sub'[c].pc = "failed" /\ sub'[c].to = sub[c].to
    BY <1>1, <1>4 DEF Subscribe, Subscribed, SubState
  <2>2. Len(channel'[c]) = 0
    BY <1>1, <2>1 DEF Flow
  <2> QED
    BY <1>1, <1>3, <2>1, <2>2 DEF Flow, Accepts
<1>5. CASE Connected(c)
  <2>1. /\ sub[c].pc \in {"asked", "closed"} /\ sub[c].server = NoDaemon /\ sub[c].to # NoDaemon
        /\ sub'[c].pc = sub[c].pc /\ sub'[c].to = sub[c].to /\ sub'[c].server = sub[c].to
        /\ heard'[c] = heard[c] /\ channel'[c] = Append(channel[c], Hello)
    BY <1>1, <1>5 DEF Connected, Subscribed, SubState
  <2>2. sub[c].pc = "asked" => channel[c] = <<>>
    BY <2>1 DEF Flow
  <2>3. Hello \in Frames
    BY IpcAssumption DEF IpcAssumption, Frames, Hello
  <2>4. sub[c].pc = "asked" =>
          channel'[c] # <<>> /\ Head(channel'[c]) = Hello /\ Len(channel'[c]) = 1
    <3>1. sub[c].pc = "asked" => Len(channel[c]) = 0
      BY <2>2
    <3>2. channel[c] = <<>> => Append(channel[c], Hello) = <<Hello>>
      BY <1>1, <3>1
    <3>3. \A x : <<x>> # <<>> /\ Head(<<x>>) = x /\ Len(<<x>>) = 1
      OBVIOUS
    <3> QED
      BY <2>1, <2>2, <3>2, <3>3, Zenon
  <2> QED
    BY <1>1, <1>3, <2>1, <2>4 DEF Flow
<1>6. CASE Frame(c) /\ Head(channel[c]) = Hello
  <2>1. /\ sub[c].pc \in {"asked", "ready"} /\ channel[c] # <<>> /\ heard'[c] = heard[c]
        /\ sub'[c].pc = "ready" /\ sub'[c].to = sub[c].to /\ sub'[c].server = sub[c].server
        /\ sub'[c].early => runs[c] = 0
        /\ channel'[c] = Tail(channel[c])
    <3> DEFINE early == runs[c] = 0 /\ request[c].tries = 0
    <3>1. /\ sub[c].pc \in {"asked", "ready"} /\ channel[c] # <<>> /\ UNCHANGED heard
          /\ channel' = [channel EXCEPT ![c] = Tail(@)]
          /\ sub' = [sub EXCEPT ![c] = [sub[c] EXCEPT !.pc = "ready", !.early = early]]
      BY <1>6 DEF Frame, Subscribed, Rest
    <3>2. early => runs[c] = 0
      OBVIOUS
    <3> HIDE DEF early
    <3> QED
      BY <1>1, <3>1, <3>2 DEF SubState
  <2>2. /\ sub[c].pc = "asked" /\ sub[c].to # NoDaemon /\ sub[c].server = sub[c].to
        /\ \A i \in 2..Len(channel[c]) : channel[c][i] # Hello
        /\ heard[c] = <<>> /\ emitted[c] = <<>> => Len(channel[c]) <= 1
    <3>1. sub[c].pc # "ready"
      <4>1. 1 \in 1..Len(channel[c]) /\ channel[c][1] = Hello
        BY <1>1, <1>6, <2>1
      <4> QED
        BY <4>1 DEF Flow
    <3> QED
      BY <2>1, <3>1 DEF Flow
  <2>3. ASSUME sub'[c].early PROVE InOrder(c)'
    <3>1. emitted[c] = <<>> /\ heard[c] = <<>> /\ Len(channel[c]) <= 1
      BY <2>1, <2>2, <2>3 DEF Flow
    <3>2. Len(heard'[c]) = 0 /\ Len(emitted'[c]) = 0
      BY <1>3, <2>1, <3>1
    <3>3. Len(Tail(channel[c])) = Len(channel[c]) - 1 /\ Len(channel[c]) \in Nat \ {0}
      BY <1>1, <2>1
    <3>4. Len(channel[c]) = 1
      BY <1>1, <3>1, <3>3
    <3>5. Len(channel'[c]) = 0
      BY <2>1, <3>3, <3>4
    <3> QED
      BY <3>2, <3>5 DEF InOrder
  <2>4. \A i \in 1..Len(channel'[c]) : channel'[c][i] # Hello
    <3>1. \A i \in 1..Len(Tail(channel[c])) :
            i + 1 \in 2..Len(channel[c]) /\ Tail(channel[c])[i] = channel[c][i + 1]
      BY <1>1, <2>1
    <3> QED
      BY <2>1, <2>2, <3>1
  <2> QED
    BY <1>1, <1>3, <2>1, <2>2, <2>3, <2>4 DEF Flow
<1>7. CASE Frame(c) /\ Head(channel[c]) # Hello
  <2> DEFINE x == Head(channel[c])
  <2>1. /\ sub[c].pc \in {"asked", "ready"} /\ channel[c] # <<>> /\ sub'[c] = sub[c]
        /\ heard'[c] = Append(heard[c], x) /\ channel'[c] = Tail(channel[c])
    BY <1>1, <1>7 DEF Frame, Subscribed, Rest
  <2>2. sub[c].pc = "ready"
    BY <1>7, <2>1 DEF Flow
  <2>3. /\ x = channel[c][1] /\ x \in Frames /\ Len(channel'[c]) = Len(channel[c]) - 1
        /\ Len(channel[c]) \in Nat \ {0} /\ Len(heard[c]) \in Nat
        /\ \A i \in 1..Len(channel'[c]) :
             i + 1 \in 1..Len(channel[c]) /\ channel'[c][i] = channel[c][i + 1]
    BY <1>1, <2>1
  <2>4. /\ Len(heard'[c]) = Len(heard[c]) + 1 /\ heard'[c][Len(heard[c]) + 1] = x
        /\ \A i \in 1..Len(heard[c]) : heard'[c][i] = heard[c][i]
    <3>1. x \in 1..MaxRecords
      BY <1>1, <1>7, <2>3, IpcAssumption DEF Frames, IpcAssumption
    <3> QED
      BY <1>1, <2>1, <3>1
  <2>5. \A i \in 1..Len(channel'[c]) : channel'[c][i] # Hello
    BY <2>2, <2>3 DEF Flow
  <2> HIDE DEF x
  <2>6. ASSUME InOrder(c) PROVE InOrder(c)'
    <3>1. Len(heard'[c]) + Len(channel'[c]) = Len(emitted'[c])
      <4>1. Len(heard[c]) + Len(channel[c]) = Len(emitted[c])
        BY <2>6 DEF InOrder
      <4>2. /\ Len(channel'[c]) = Len(channel[c]) - 1 /\ Len(heard'[c]) = Len(heard[c]) + 1
            /\ Len(heard[c]) \in Int /\ Len(channel[c]) \in Int /\ emitted'[c] = emitted[c]
        BY <1>3, <2>3, <2>4
      <4>3. (Len(heard[c]) + 1) + (Len(channel[c]) - 1) = Len(heard[c]) + Len(channel[c])
        BY <1>1, <4>2
      <4> QED
        BY <4>1, <4>2, <4>3
    <3>2. x = Len(heard[c]) + 1
      BY <2>3, <2>6 DEF InOrder
    <3>3. ASSUME NEW i \in 1..Len(heard'[c]) PROVE heard'[c][i] = i
      <4>1. \A j \in 1..Len(heard[c]) : heard[c][j] = j
        BY <2>6 DEF InOrder
      <4>2. i \in 1..Len(heard[c]) \/ i = Len(heard[c]) + 1
        BY <2>3, <2>4
      <4> QED
        BY <2>4, <3>2, <4>1, <4>2
    <3>4. ASSUME NEW i \in 1..Len(channel'[c]) PROVE channel'[c][i] = Len(heard'[c]) + i
      <4>1. channel[c][i + 1] = Len(heard[c]) + (i + 1)
        BY <2>3, <2>6 DEF InOrder
      <4>2. channel'[c][i] = channel[c][i + 1]
        BY <2>3
      <4>3. Len(heard[c]) + (i + 1) = Len(heard'[c]) + i
        <5>1. Len(heard[c]) \in Nat /\ Len(heard'[c]) = Len(heard[c]) + 1 /\ i \in Int
          BY <2>3, <2>4
        <5>2. Len(heard[c]) + (i + 1) = (Len(heard[c]) + 1) + i
          BY <1>1, <5>1
        <5> QED
          BY <5>1, <5>2
      <4> QED
        BY <4>1, <4>2, <4>3
    <3> QED
      BY <3>1, <3>3, <3>4 DEF InOrder
  <2> QED
    BY <1>1, <1>3, <2>1, <2>2, <2>5, <2>6 DEF Flow
<1>8. CASE ConnectionLost(c)
  <2>1. /\ ~Accepts(sub[c].to) /\ heard'[c] = heard[c] /\ channel'[c] = <<>>
        /\ sub'[c].to = sub[c].to /\ sub'[c].server = sub[c].server
        /\ \/ sub[c].pc = "asked" /\ sub'[c].pc = "failed"
           \/ sub[c].pc = "ready" /\ sub'[c].pc = "ready"
    BY <1>1, <1>8 DEF ConnectionLost, Subscribed, SubState
  <2>2. Len(channel'[c]) = 0
    BY <2>1
  <2> QED
    BY <1>1, <1>3, <2>1, <2>2 DEF Flow
<1>9. CASE Unsubscribe(c) \/ CloseSeen(c)
  <2>1. sub'[c].pc = "closed" /\ sub'[c].to = sub[c].to
    BY <1>1, <1>9 DEF Unsubscribe, CloseSeen, Subscribed, AfterClose, SubState
  <2> QED
    BY <1>3, <2>1 DEF Flow
<1> QED
  BY <1>4, <1>5, <1>6, <1>7, <1>8, <1>9 DEF SubStep

LEMMA EmitFlows ==
  ASSUME TypeInv, NEW d \in Daemons, NEW c \in Clients, Flow(c), Emit(d, c)
  PROVE  Flow(c)'
<1> DEFINE n == Len(emitted[c]) + 1
<1>1. /\ channel[c] \in Seq(Frames) /\ emitted[c] \in Seq(Daemons) /\ NoDaemon \notin Daemons
      /\ channel \in [Clients -> Seq(Frames)] /\ emitted \in [Clients -> Seq(Daemons)]
      /\ sub[c] \in SubState /\ heard[c] \in Seq(1..MaxRecords) /\ n \in Frames \ {Hello}
  BY IpcAssumption DEF TypeInv, TypeOK, IpcAssumption, Emit, Frames, Hello
<1>2. /\ UNCHANGED <<socketVars, runs, sub, heard>> /\ pc' = pc /\ pc[d] # "off" /\ runs[c] > 0
      /\ emitted'[c] = Append(emitted[c], d)
      /\ channel'[c] = IF Listens(c, d) /\ sub[c].pc # "closed"
                       THEN Append(channel[c], Len(emitted'[c])) ELSE channel[c]
  BY <1>1 DEF Emit, socketVars
<1>3. /\ Len(emitted'[c]) = n /\ emitted'[c][n] = d /\ n \in Nat /\ emitted'[c] # <<>>
      /\ \A i \in 1..Len(emitted[c]) : emitted'[c][i] = emitted[c][i]
  BY <1>1, <1>2
<1>4. \/ channel'[c] = channel[c] /\ (sub[c].server # d \/ sub[c].pc = "closed")
      \/ channel'[c] = Append(channel[c], n) /\ sub[c].server = d /\ sub[c].pc # "closed"
  BY <1>2, <1>3 DEF Listens
<1> HIDE DEF n
<1>5. \A i \in 1..Len(emitted'[c]) : pc'[emitted'[c][i]] # "off"
  BY <1>1, <1>2, <1>3 DEF Flow, n
<1>6. /\ Len(Append(channel[c], n)) = Len(channel[c]) + 1 /\ Len(channel[c]) \in Nat
      /\ Append(channel[c], n)[Len(channel[c]) + 1] = n
      /\ \A i \in 1..Len(channel[c]) : Append(channel[c], n)[i] = channel[c][i]
      /\ channel[c] # <<>> => Append(channel[c], n) # <<>>
                              /\ Head(Append(channel[c], n)) = Head(channel[c])
  BY <1>1, AppendFacts
<1>7. sub[c].pc = "off" => channel'[c] = channel[c]
  BY <1>1, <1>4 DEF Flow
<1>8. ASSUME sub[c].pc = "asked"
      PROVE  /\ \/ sub[c].server = NoDaemon /\ channel'[c] = <<>>
                \/ /\ sub[c].server = sub[c].to /\ channel'[c] # <<>>
                   /\ Head(channel'[c]) = Hello
             /\ \A i \in 2..Len(channel'[c]) : channel'[c][i] # Hello
  <2>1. CASE sub[c].server = NoDaemon
    BY <1>1, <1>4, <1>8, <2>1 DEF Flow
  <2>2. CASE sub[c].server # NoDaemon
    <3>1. /\ sub[c].server = sub[c].to /\ channel[c] # <<>> /\ Head(channel[c]) = Hello
          /\ \A i \in 2..Len(channel[c]) : channel[c][i] # Hello
      BY <1>8, <2>2 DEF Flow
    <3>2. CASE channel'[c] = channel[c]
      BY <3>1, <3>2
    <3>3. CASE channel'[c] = Append(channel[c], n)
      <4>1. ASSUME NEW i \in 2..Len(channel'[c]) PROVE channel'[c][i] # Hello
        <5>1. i \in 2..Len(channel[c]) \/ i = Len(channel[c]) + 1
          BY <1>6, <3>3
        <5>2. i \in 2..Len(channel[c]) => channel'[c][i] = channel[c][i]
          BY <1>6, <3>3
        <5> QED
          BY <1>1, <1>6, <3>1, <3>3, <5>1, <5>2
      <4> QED
        BY <1>6, <3>1, <3>3, <4>1
    <3> QED
      BY <1>4, <3>2, <3>3
  <2> QED
    BY <2>1, <2>2
<1>9. ASSUME sub[c].pc = "ready", NEW i \in 1..Len(channel'[c]) PROVE channel'[c][i] # Hello
  <2>1. \A j \in 1..Len(channel[c]) : channel[c][j] # Hello
    BY <1>9 DEF Flow
  <2>2. CASE channel'[c] = channel[c]
    BY <1>9, <2>1, <2>2
  <2>3. CASE channel'[c] = Append(channel[c], n)
    <3>1. i \in 1..Len(channel[c]) \/ i = Len(channel[c]) + 1
      BY <1>6, <1>9, <2>3
    <3> QED
      BY <1>1, <1>6, <2>1, <2>3, <3>1
  <2> QED
    BY <1>4, <2>2, <2>3
<1>10. ASSUME sub[c].pc = "ready", sub[c].early, OnlyDaemon(sub[c].to), Accepts(sub[c].to)
       PROVE  InOrder(c)'
  <2>1. sub[c].server = d
    BY <1>2, <1>10 DEF Flow, OnlyDaemon
  <2>2. channel'[c] = Append(channel[c], n) /\ InOrder(c) /\ heard'[c] = heard[c]
    BY <1>2, <1>4, <1>10, <2>1 DEF Flow
  <2>3. Len(heard[c]) + Len(channel[c]) = Len(emitted[c]) /\ Len(heard[c]) \in Nat
    BY <1>1, <2>2 DEF InOrder
  <2>4. n = Len(heard[c]) + (Len(channel[c]) + 1)
    <3>1. n = (Len(heard[c]) + Len(channel[c])) + 1 /\ Len(channel[c]) \in Nat
      BY <1>6, <2>3 DEF n
    <3>2. \A a, b \in Nat : (a + b) + 1 = a + (b + 1)
      OBVIOUS
    <3> QED
      BY <2>3, <3>1, <3>2, Zenon
  <2>5. ASSUME NEW i \in 1..Len(channel'[c]) PROVE channel'[c][i] = Len(heard[c]) + i
    <3>1. i \in 1..Len(channel[c]) \/ i = Len(channel[c]) + 1
      BY <1>6, <2>2
    <3> QED
      BY <1>6, <2>2, <2>4, <3>1 DEF InOrder
  <2>6. Len(heard'[c]) + Len(channel'[c]) = Len(emitted'[c])
    BY <1>3, <1>6, <2>2, <2>4
  <2> QED
    BY <2>2, <2>5, <2>6 DEF InOrder
<1>11. /\ sub'[c] = sub[c] /\ heard'[c] = heard[c] /\ runs'[c] # 0
       /\ OnlyDaemon(sub[c].to)' <=> OnlyDaemon(sub[c].to)
       /\ Accepts(sub[c].to)' <=> Accepts(sub[c].to)
  <2>1. runs'[c] > 0
    BY <1>2
  <2> QED
    BY <1>2, <2>1 DEF OnlyDaemon, Accepts
<1> QED
  BY <1>2, <1>3, <1>5, <1>7, <1>8, <1>9, <1>10, <1>11 DEF Flow

LEMMA FlowStep ==
  ASSUME SocketInv, TypeInv, \A c \in Clients : Flow(c), [Next]_vars, SocketInv', TypeInv'
  PROVE  \A c \in Clients : Flow(c)'
<1> SUFFICES ASSUME NEW b \in Clients PROVE Flow(b)'
  OBVIOUS
<1>1. /\ request \in [Clients -> RequestState] /\ runs \in [Clients -> 0..MaxTries]
      /\ runs'[b] \in Nat /\ runs[b] \in Nat
      /\ emitted \in [Clients -> Seq(Daemons)] /\ channel \in [Clients -> Seq(Frames)]
  BY DEF TypeInv, TypeOK
<1>2. ASSUME Onwards, UNCHANGED <<sub, channel, heard, emitted>>, runs[b] <= runs'[b]
      PROVE  Flow(b)'
  BY <1>1, <1>2, FlowStays
<1>3. CASE (DaemonNext /\ UNCHANGED sessionVars) \/ UNCHANGED vars
  BY <1>1, <1>2, <1>3, DaemonsGoOnwards DEF sessionVars, vars
<1>4. ASSUME NEW c \in Clients, Ping(c) \/ Spawn(c) \/ Poll(c) \/ Deadline(c) PROVE Flow(b)'
  <2>1. UNCHANGED socketVars \/ \E d \in Daemons : Start(d)
    BY <1>4, ClientsStartOnly DEF ClientStep
  <2>2. UNCHANGED <<runs, sub, channel, heard, emitted>>
    BY <1>4, ClientTypes, IpcAssumption
  <2> QED
    BY <1>1, <1>2, <2>1, <2>2, DaemonsGoOnwards
<1>5. ASSUME NEW c \in Clients, Dispatch(c) \/ Handle(c) \/ Answer(c) \/ RequestFails(c)
      PROVE  Flow(b)'
  <2>1. UNCHANGED <<socketVars, sub, channel, heard, emitted>>
    BY <1>5 DEF Dispatch, Handle, Answer, RequestFails, Requested
  <2>2. \/ UNCHANGED runs
        \/ runs' = [runs EXCEPT ![c] = IF RunFor(@) > @ THEN RunFor(@) ELSE @]
    BY <1>5 DEF Dispatch, Handle, Answer, RequestFails
  <2>3. RunFor(runs[b]) \in 1..runs[b] + 1
    BY <1>1, RunForIsNext
  <2>4. runs[b] <= runs'[b]
    <3>1. CASE runs' = runs
      BY <1>1, <3>1
    <3>2. CASE runs' = [runs EXCEPT ![c] = IF RunFor(@) > @ THEN RunFor(@) ELSE @]
      <4>1. runs'[b] = runs[b] \/ (runs'[b] = RunFor(runs[b]) /\ RunFor(runs[b]) > runs[b])
        BY <1>1, <3>2
      <4> QED
        BY <1>1, <2>3, <4>1
    <3> QED
      BY <2>2, <3>1, <3>2
  <2> QED
    BY <1>2, <2>1, <2>4, DaemonsGoOnwards
<1>6. ASSUME UNCHANGED <<socketVars, runs>>, NEW c \in Clients, b # c,
             sub'[b] = sub[b], channel'[b] = channel[b], heard'[b] = heard[b],
             emitted'[b] = emitted[b]
      PROVE  Flow(b)'
  BY <1>1, <1>6, FlowStays, DaemonsGoOnwards
<1>7. ASSUME NEW c \in Clients, SubStep(c) PROVE Flow(b)'
  <2>1. CASE b = c
    BY <1>7, <2>1, SubscriptionFlows
  <2>2. CASE b # c
    <3>1. /\ UNCHANGED <<socketVars, runs, emitted>>
          /\ sub' = [sub EXCEPT ![c] = sub'[c]] /\ channel' = [channel EXCEPT ![c] = channel'[c]]
          /\ heard' = [heard EXCEPT ![c] = heard'[c]]
      BY <1>7, SubscriptionTypes, IpcAssumption
    <3>2. sub'[b] = sub[b] /\ channel'[b] = channel[b] /\ heard'[b] = heard[b]
      BY <2>2, <3>1 DEF TypeInv, TypeOK
    <3> QED
      BY <1>6, <2>2, <3>1, <3>2
  <2> QED
    BY <2>1, <2>2
<1>8. ASSUME NEW d \in Daemons, NEW c \in Clients, Emit(d, c) PROVE Flow(b)'
  <2>1. CASE b = c
    BY <1>8, <2>1, EmitFlows
  <2>2. CASE b # c
    BY <1>1, <1>6, <1>8, <2>2 DEF Emit
  <2> QED
    BY <2>1, <2>2
<1> QED
  BY <1>3, <1>4, <1>5, <1>7, <1>8 DEF Next, ClientStep, SubStep

LEMMA FlowInvariant == Spec => [](\A c \in Clients : Flow(c))
<1> DEFINE FlowInv == \A c \in Clients : Flow(c)
<1>1. Init => FlowInv
  <2> SUFFICES ASSUME Init, NEW c \in Clients PROVE Flow(c)
    OBVIOUS
  <2>1. /\ sub[c].pc = "off" /\ sub[c].to = NoDaemon /\ sub[c].server = NoDaemon
        /\ heard[c] = <<>> /\ channel[c] = <<>> /\ emitted[c] = <<>> /\ Len(<<>>) = 0
    BY DEF Init
  <2>2. \A i \in 1..Len(emitted[c]) : FALSE
    BY <2>1
  <2> QED
    BY <2>1, <2>2 DEF Flow
<1>2. SocketInv /\ TypeInv /\ FlowInv /\ [Next]_vars /\ SocketInv' /\ TypeInv' => FlowInv'
  BY FlowStep
<1> QED
  BY <1>1, <1>2, SocketInvariant, TypeInvariant, PTL DEF Spec

(* A subscriber that was ready before it dispatched has heard, or is about  *)
(* to hear, every record of its run once and in order, if no other daemon   *)
(* works on the database and its own still serves (subscribe, handleFrame). *)
THEOREM SubscribersMissNothing == Spec => []SubscriberMissesNothing
<1>1. TypeInv /\ (\A c \in Clients : Flow(c)) => SubscriberMissesNothing
  <2> SUFFICES ASSUME TypeInv, NEW c \in Clients, Flow(c), sub[c].pc = "ready", sub[c].early,
                      OnlyDaemon(sub[c].to), Accepts(sub[c].to)
               PROVE  heard[c] \o channel[c] = [i \in 1..Len(emitted[c]) |-> i]
    BY DEF SubscriberMissesNothing
  <2> DEFINE h == heard[c]
             k == channel[c]
             n == Len(emitted[c])
  <2>1. /\ h \in Seq(Nat) /\ k \in Seq(Nat) /\ n \in Nat
        /\ Len(h) \in Nat /\ Len(k) \in Nat
    <3>1. h \in Seq(1..MaxRecords) /\ k \in Seq(Frames) /\ emitted[c] \in Seq(Daemons)
      BY DEF TypeInv, TypeOK
    <3>2. 1..MaxRecords \subseteq Nat /\ Frames \subseteq Nat
      BY DEF Frames
    <3>3. n \in Nat
      BY <3>1
    <3> HIDE DEF h, k, n
    <3>4. h \in Seq(Nat) /\ k \in Seq(Nat)
      BY <3>1, <3>2, SeqMonotonic
    <3> QED
      BY <3>3, <3>4
  <2>2. /\ Len(h) + Len(k) = n /\ \A i \in 1..Len(h) : h[i] = i
        /\ \A i \in 1..Len(k) : k[i] = Len(h) + i
    BY DEF Flow, InOrder
  <2> HIDE DEF h, k, n
  <2>3. /\ h \o k \in Seq(Nat) /\ Len(h \o k) = n
        /\ \A i \in 1..n : (h \o k)[i] = IF i <= Len(h) THEN h[i] ELSE k[i - Len(h)]
    BY <2>1, <2>2, ConcatProperties
  <2>4. ASSUME NEW i \in 1..n PROVE (h \o k)[i] = i
    <3>1. CASE i <= Len(h)
      BY <2>1, <2>2, <2>3, <3>1
    <3>2. CASE ~(i <= Len(h))
      <4>1. i - Len(h) \in 1..Len(k) /\ Len(h) + (i - Len(h)) = i
        BY <2>1, <2>2, <3>2
      <4>2. k[i - Len(h)] = i
        BY <2>2, <4>1
      <4> QED
        BY <2>1, <2>3, <3>2, <4>2
    <3> QED
      BY <3>1, <3>2
  <2>5. h \o k \in [1..n -> Nat]
    BY <2>3, LenProperties
  <2>6. h \o k = [i \in 1..n |-> i]
    BY <2>4, <2>5
  <2> QED
    BY <2>6 DEF h, k, n
<1> QED
  BY <1>1, FlowInvariant, TypeInvariant, PTL
=============================================================================
