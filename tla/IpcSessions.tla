---------------------------- MODULE IpcSessions ----------------------------
(***************************************************************************)
(* Clients of the daemon (surfaces/ipc-client.ts) and the server's side of  *)
(* their requests and subscriptions (surfaces/ipc-server.ts).  A client     *)
(* makes sure that there is a daemon, perhaps subscribes to the events of   *)
(* its run, and dispatches the run, again if it gets no answer.  All        *)
(* daemons work on one database.                                            *)
(***************************************************************************)
EXTENDS Daemons, Sequences

CONSTANTS
  Clients,
  NoDaemon,    \* "no daemon"
  Keyed,       \* TRUE: dispatches carry a clientRequestId
  MaxTries,    \* bound: dispatches per client
  MaxRecords   \* bound: records emitted per client's run

ASSUME IpcAssumption ==
  /\ NoDaemon \notin Daemons /\ Keyed \in BOOLEAN
  /\ MaxTries \in Nat /\ MaxRecords \in Nat

VARIABLES
  client,   \* ensureDaemon of each client
  request,  \* its dispatch request
  runs,     \* runs in the database by client, oldest first: who answers for each
  answers,  \* runs the client was told, as positions in runs
  sub,      \* its subscription, server and client side
  channel,  \* frames under way to it
  heard,    \* records its listener got
  emitted   \* history: records of its run and the daemons that emitted them

sessionVars == <<client, request, runs, answers, sub, channel, heard, emitted>>
vars == <<socketVars, sessionVars>>

EnsurePc == {"ping", "spawn", "poll", "up", "failed"}

RequestState == [pc : {"idle", "sent", "handled"}, on : Daemons \cup {NoDaemon},
                 tries : 0..MaxTries, run : Nat]

(* server: the daemon whose notifier has a listener for the subscription.   *)
SubState == [pc : {"off", "asked", "ready", "failed", "closed"},
             to : Daemons \cup {NoDaemon}, server : Daemons \cup {NoDaemon}, from : Nat,
             early : BOOLEAN]

(* Frames under way: a record by its number, or the connected frame.        *)
Hello == 0

Frames == 0..MaxRecords

TypeOK ==
  /\ DaemonsTypeOK
  /\ client \in [Clients -> EnsurePc]
  /\ request \in [Clients -> RequestState]
  /\ runs \in [Clients -> 0..MaxTries]
  /\ answers \in [Clients -> SUBSET (1..MaxTries)]
  /\ sub \in [Clients -> SubState]
  /\ channel \in [Clients -> Seq(Frames)]
  /\ heard \in [Clients -> Seq(1..MaxRecords)]
  /\ emitted \in [Clients -> Seq(Daemons)]

Init ==
  /\ DaemonsInit
  /\ client = [c \in Clients |-> "ping"]
  /\ request = [c \in Clients |-> [pc |-> "idle", on |-> NoDaemon, tries |-> 0, run |-> 0]]
  /\ runs = [c \in Clients |-> 0]
  /\ answers = [c \in Clients |-> {}]
  /\ sub = [c \in Clients |->
       [pc |-> "off", to |-> NoDaemon, server |-> NoDaemon, from |-> 0, early |-> FALSE]]
  /\ channel = [c \in Clients |-> <<>>]
  /\ heard = [c \in Clients |-> <<>>]
  /\ emitted = [c \in Clients |-> <<>>]

-----------------------------------------------------------------------------
(* ensureDaemon.                                                            *)

Pinged(c, next) ==
  /\ client' = [client EXCEPT ![c] = next]
  /\ UNCHANGED <<socketVars, request, runs, answers, sub, channel, heard, emitted>>

(* The first ping: answered, or the client will spawn a daemon.             *)
Ping(c) ==
  /\ client[c] = "ping"
  /\ Pinged(c, IF Accepts(path) THEN "up" ELSE "spawn")

Spawn(c) ==
  /\ client[c] = "spawn"
  /\ client' = [client EXCEPT ![c] = "poll"]
  /\ \E d \in Daemons : Start(d)
  /\ UNCHANGED <<request, runs, answers, sub, channel, heard, emitted>>

(* Pinging on until the answer or the deadline.                             *)
Poll(c) ==
  /\ client[c] = "poll"
  /\ Accepts(path)
  /\ Pinged(c, "up")

Deadline(c) ==
  /\ client[c] = "poll"
  /\ ~Accepts(path)
  /\ Pinged(c, "failed")

-----------------------------------------------------------------------------
(* dispatch over requestJson.                                               *)

Requested(c, r) ==
  /\ request' = [request EXCEPT ![c] = r]
  /\ UNCHANGED <<socketVars, client, sub, channel, heard, emitted>>

(* Connects to what the path names; DAEMON_NOT_RUNNING if nothing accepts.  *)
Dispatch(c) ==
  /\ client[c] = "up"
  /\ request[c].pc = "idle"
  /\ request[c].tries < MaxTries
  /\ Requested(c, IF Accepts(path)
                  THEN [request[c] EXCEPT !.pc = "sent", !.on = path, !.tries = @ + 1]
                  ELSE [request[c] EXCEPT !.tries = @ + 1])
  /\ UNCHANGED <<runs, answers>>

(* runWorkflow with the request id as idempotency key, if there is one: the *)
(* run a dispatch of c is given when there have been n.                     *)
Mut_RunFor(n) == n + 1
RunFor(n) == IF Keyed /\ n > 0 THEN n ELSE n + 1

(* handleRequest: the run is in the database before the answer goes out.    *)
Handle(c) ==
  /\ request[c].pc = "sent"
  /\ Accepts(request[c].on)
  /\ Requested(c, [request[c] EXCEPT !.pc = "handled", !.run = RunFor(runs[c])])
  /\ runs' = [runs EXCEPT ![c] = IF RunFor(@) > @ THEN RunFor(@) ELSE @]
  /\ UNCHANGED answers

Forgotten(c) == [request[c] EXCEPT !.pc = "idle", !.on = NoDaemon]

(* runtime.dispatch has resolved: only now is there something to answer.    *)
Mut_HasResult(c) == request[c].pc # "idle"
HasResult(c) == request[c].pc = "handled"

Answer(c) ==
  /\ HasResult(c)
  /\ Accepts(request[c].on)
  /\ Requested(c, Forgotten(c))
  /\ answers' = [answers EXCEPT ![c] = @ \cup {request[c].run}]
  /\ UNCHANGED runs

(* TIMEOUT, or the connection breaks; the caller may try again.  A server   *)
(* that has the request handles it all the same.                            *)
RequestFails(c) ==
  /\ request[c].pc \in {"sent", "handled"}
  /\ Requested(c, Forgotten(c))
  /\ \/ UNCHANGED runs
     \/ /\ request[c].pc = "sent" /\ Accepts(request[c].on)
        /\ runs' = [runs EXCEPT ![c] = IF RunFor(@) > @ THEN RunFor(@) ELSE @]
  /\ UNCHANGED answers

-----------------------------------------------------------------------------
(* subscribe and serveEvents.                                               *)

Subscribed(c, s) ==
  /\ sub' = [sub EXCEPT ![c] = s]
  /\ UNCHANGED <<socketVars, client, request, runs, answers, emitted>>

Subscribe(c) ==
  /\ client[c] = "up"
  /\ sub[c].pc = "off"
  /\ Subscribed(c, IF Accepts(path)
                   THEN [sub[c] EXCEPT !.pc = "asked", !.to = path]
                   ELSE [sub[c] EXCEPT !.pc = "failed"])
  /\ UNCHANGED <<channel, heard>>

(* The connected frame is written and the listener added in one go.         *)
Connected(c) ==
  /\ sub[c].pc \in {"asked", "closed"} /\ sub[c].to # NoDaemon
  /\ sub[c].server = NoDaemon /\ sub[c].from = 0
  /\ Accepts(sub[c].to)
  /\ Subscribed(c, [sub[c] EXCEPT !.server = sub[c].to, !.from = Len(emitted[c]) + 1])
  /\ channel' = [channel EXCEPT ![c] = Append(@, Hello)]
  /\ UNCHANGED heard

(* The frames of a chunk are handled one after the other, in order.         *)
Mut_Rest(frames) == <<>>
Rest(frames) == Tail(frames)

(* handleFrame.                                                             *)
Frame(c) ==
  /\ channel[c] # <<>>
  /\ sub[c].pc \in {"asked", "ready"}
  /\ channel' = [channel EXCEPT ![c] = Rest(@)]
  /\ IF Head(channel[c]) = Hello
     THEN /\ Subscribed(c, [sub[c] EXCEPT !.pc = "ready", !.early = runs[c] = 0
                                                            /\ request[c].tries = 0])
          /\ UNCHANGED heard
     ELSE /\ Subscribed(c, sub[c])
          /\ heard' = [heard EXCEPT ![c] = Append(@, Head(channel[c]))]

(* The daemon is gone: ready rejects if it has not resolved; a subscriber   *)
(* that was ready is not told.                                              *)
ConnectionLost(c) ==
  /\ sub[c].pc \in {"asked", "ready"}
  /\ sub[c].pc = "ready" => channel[c] # <<>>
  /\ ~Accepts(sub[c].to)
  /\ Subscribed(c, [sub[c] EXCEPT !.pc = IF @ = "asked" THEN "failed" ELSE @])
  /\ channel' = [channel EXCEPT ![c] = <<>>]
  /\ UNCHANGED heard

(* unsubscribe, or stop of the client, destroys the connection.             *)
Unsubscribe(c) ==
  /\ sub[c].pc \in {"asked", "ready"}
  /\ Subscribed(c, [sub[c] EXCEPT !.pc = "closed"])
  /\ channel' = [channel EXCEPT ![c] = <<>>]
  /\ UNCHANGED heard

(* The server sees the close and drops the listener.                        *)
AfterClose(s) == [s EXCEPT !.server = NoDaemon]

CloseSeen(c) ==
  /\ sub[c].pc = "closed" /\ sub[c].server # NoDaemon
  /\ Subscribed(c, AfterClose(sub[c]))
  /\ UNCHANGED <<channel, heard>>

(* A worker notifies an outcome of the run: any daemon's, for all poll the  *)
(* same database.  The listener of a subscription gets it if it is on the   *)
(* same daemon.                                                             *)
Listens(c, d) == sub[c].server = d

Emit(d, c) ==
  /\ pc[d] \notin {"off", "exited"}
  /\ runs[c] > 0
  /\ Len(emitted[c]) < MaxRecords
  /\ emitted' = [emitted EXCEPT ![c] = Append(@, d)]
  /\ channel' = [channel EXCEPT ![c] =
       IF Listens(c, d) /\ sub[c].pc # "closed"
       THEN Append(@, Len(emitted'[c])) ELSE @]
  /\ UNCHANGED <<socketVars, client, request, runs, answers, sub, heard>>

-----------------------------------------------------------------------------
ClientStep(c) ==
  \/ Ping(c) \/ Spawn(c) \/ Poll(c) \/ Deadline(c)
  \/ Handle(c) \/ Answer(c) \/ Connected(c) \/ Frame(c) \/ ConnectionLost(c) \/ CloseSeen(c)

Next ==
  \/ DaemonNext /\ UNCHANGED sessionVars
  \/ \E c \in Clients :
       ClientStep(c) \/ Dispatch(c) \/ RequestFails(c) \/ Subscribe(c) \/ Unsubscribe(c)
  \/ \E d \in Daemons, c \in Clients : Emit(d, c)

Spec == Init /\ [][Next]_vars

(* A daemon that was started goes on; nobody has to stop one, to dispatch   *)
(* or to subscribe.                                                         *)
FairSpec ==
  /\ Spec
  /\ \A d \in Daemons : WF_vars(DaemonStep(d) /\ UNCHANGED sessionVars)

-----------------------------------------------------------------------------
(* One dispatch is one run: with a clientRequestId a client is told of at   *)
(* most one run, and there is no other, however often it times out and      *)
(* tries again, on whichever daemon.                                        *)
OneRunPerRequest ==
  Keyed => \A c \in Clients : runs[c] <= 1 /\ answers[c] \subseteq {1}

(* Who waits for ready before dispatching misses nothing: as long as only   *)
(* one daemon lived, the records of the run are what the listener got and   *)
(* what is under way, in the order they were emitted (subscribe, ready).    *)
OnlyDaemon(d) == \A e \in Daemons \ {d} : pc[e] = "off"

SubscriberMissesNothing ==
  \A c \in Clients :
    sub[c].pc = "ready" /\ sub[c].early /\ OnlyDaemon(sub[c].to) /\ Accepts(sub[c].to) =>
      heard[c] \o channel[c] = [i \in 1..Len(emitted[c]) |-> i]
=============================================================================
