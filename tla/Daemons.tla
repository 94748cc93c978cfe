------------------------------ MODULE Daemons ------------------------------
(***************************************************************************)
(* Daemons and the unix socket they share: how a daemon starts, takes the   *)
(* socket path or finds it taken, removes what it believes to be stale, and *)
(* stops (surfaces/daemon.ts, surfaces/ipc-server.ts).  A path names the    *)
(* socket of one daemon, which stays in the file system when its daemon     *)
(* dies; a connect to it is then refused.                                   *)
(***************************************************************************)
EXTENDS Naturals, FiniteSets

CONSTANTS
  Daemons,   \* daemon processes
  NoSocket,  \* nothing at the path
  Stale,     \* the socket of a daemon that died before
  MaxSlow,   \* bound: probes that a live daemon answers too late
  MaxStops   \* bound: daemons that are killed or told to stop

ASSUME DaemonAssumption ==
  /\ {NoSocket, Stale} \cap Daemons = {} /\ NoSocket # Stale
  /\ MaxSlow \in Nat /\ MaxStops \in Nat

VARIABLES
  path,      \* whose socket the path names
  pc,        \* where each daemon is
  stopping,  \* daemons that got SIGTERM
  slow,      \* late answers so far
  stops,     \* stops so far
  together   \* history: two daemons were starting at the same time

socketVars == <<path, pc, stopping, slow, stops, together>>

(* listen and relisten are the two attempts of listenWithCleanup; bound is  *)
(* the gap between bind and listen, when the path names a socket that       *)
(* refuses connections.                                                     *)
Starting == {"listen", "probe", "unlink", "relisten", "bound"}

DaemonPc == {"off", "serving", "exited"} \cup Starting

DaemonsTypeOK ==
  /\ path \in Daemons \cup {NoSocket, Stale}
  /\ pc \in [Daemons -> DaemonPc]
  /\ stopping \in SUBSET Daemons
  /\ slow \in 0..MaxSlow
  /\ stops \in 0..MaxStops
  /\ together \in BOOLEAN

DaemonsInit ==
  /\ path \in {NoSocket, Stale}
  /\ pc = [d \in Daemons |-> "off"]
  /\ stopping = {}
  /\ slow = 0 /\ stops = 0
  /\ together = FALSE

(* A request to the socket of s is accepted; a daemon that is stopping      *)
(* accepts them still (stop returns at once, see Shutdown).                 *)
Accepts(s) == s \in Daemons /\ pc[s] = "serving"

-----------------------------------------------------------------------------
(* The daemon composes itself and starts its worker, then the server.       *)
Start(d) ==
  /\ pc[d] = "off"
  /\ pc' = [pc EXCEPT ![d] = "listen"]
  /\ together' = (together \/ \E e \in Daemons : pc[e] \in Starting)
  /\ UNCHANGED <<path, stopping, slow, stops>>

Bind(d) ==
  /\ path = NoSocket
  /\ path' = d
  /\ pc' = [pc EXCEPT ![d] = "bound"]
  /\ UNCHANGED <<stopping, slow, stops, together>>

(* listenOnce, the first time: EADDRINUSE leads to a probe.                 *)
ListenFirst(d) ==
  /\ pc[d] = "listen"
  /\ \/ Bind(d)
     \/ /\ path # NoSocket
        /\ pc' = [pc EXCEPT ![d] = "probe"]
        /\ UNCHANGED <<path, stopping, slow, stops, together>>

(* isSocketAlive: what the probe of the path means for the daemon.  Without *)
(* an answer within 500 ms the socket counts as stale; with one start       *)
(* throws, and the process exits with the worker it has started.            *)
Mut_OnProbe(alive) == "unlink"
OnProbe(alive) == IF alive THEN "exited" ELSE "unlink"

Probe(d) ==
  /\ pc[d] = "probe"
  /\ \/ /\ pc' = [pc EXCEPT ![d] = OnProbe(Accepts(path))]
        /\ UNCHANGED slow
     \/ /\ Accepts(path) /\ slow < MaxSlow
        /\ pc' = [pc EXCEPT ![d] = OnProbe(FALSE)]
        /\ slow' = slow + 1
  /\ UNCHANGED <<path, stopping, stops, together>>

(* unlinkSync removes whatever the path names by now.                       *)
Unlink(d) ==
  /\ pc[d] = "unlink"
  /\ path' = NoSocket
  /\ pc' = [pc EXCEPT ![d] = "relisten"]
  /\ UNCHANGED <<stopping, slow, stops, together>>

(* listenOnce, the second time: if the path is taken again start throws.    *)
Mut_ListenAgain(d) ==
  /\ pc[d] = "relisten"
  /\ pc' = [pc EXCEPT ![d] = "exited"]
  /\ UNCHANGED <<path, stopping, slow, stops, together>>
ListenAgain(d) ==
  /\ pc[d] = "relisten"
  /\ \/ Bind(d)
     \/ /\ path # NoSocket
        /\ pc' = [pc EXCEPT ![d] = "exited"]
        /\ UNCHANGED <<path, stopping, slow, stops, together>>

Serve(d) ==
  /\ pc[d] = "bound"
  /\ pc' = [pc EXCEPT ![d] = "serving"]
  /\ UNCHANGED <<path, stopping, slow, stops, together>>

(* SIGTERM: ipcServer.stop finds server null, start never having assigned   *)
(* it, and returns; the host is stopped next, which waits for the worker.   *)
Shutdown(d) ==
  /\ pc[d] \notin {"off", "exited"}
  /\ d \notin stopping
  /\ stops < MaxStops
  /\ stops' = stops + 1
  /\ stopping' = stopping \cup {d}
  /\ UNCHANGED <<path, pc, slow, together>>

(* process.exit, after the host has stopped; the socket file stays.         *)
Exit(d) ==
  /\ d \in stopping
  /\ pc[d] # "exited"
  /\ pc' = [pc EXCEPT ![d] = "exited"]
  /\ UNCHANGED <<path, stopping, slow, stops, together>>

Kill(d) ==
  /\ pc[d] \notin {"off", "exited"}
  /\ stops < MaxStops
  /\ stops' = stops + 1
  /\ pc' = [pc EXCEPT ![d] = "exited"]
  /\ UNCHANGED <<path, stopping, slow, together>>

DaemonStep(d) ==
  ListenFirst(d) \/ Probe(d) \/ Unlink(d) \/ ListenAgain(d) \/ Serve(d)

DaemonNext ==
  \E d \in Daemons : Start(d) \/ DaemonStep(d) \/ Shutdown(d) \/ Exit(d) \/ Kill(d)

-----------------------------------------------------------------------------
(* Daemons that start one after the other never cut each other off: unless  *)
(* two were starting at once, or one took too long to answer a probe, the   *)
(* path names the daemon that serves (DAEMON-IPC-DESIGN.md, "one daemon =   *)
(* one db = one socket").                                                   *)
ServingHasThePath ==
  ~together /\ slow = 0 => \A d \in Daemons : pc[d] = "serving" => path = d

(* Once a daemon has been started, some daemon comes to serve at the path,  *)
(* however many starts race for it and remove each other's sockets, unless  *)
(* one is stopped.                                                          *)
StartsAreReached ==
  (\E d \in Daemons : pc[d] # "off") ~> (Accepts(path) \/ stops > 0)

(* A daemon told to stop no longer accepts requests ("stop() must always    *)
(* mean stop", ipc-server.ts).                                              *)
StopMeansStop == \A d \in stopping : ~Accepts(d)
=============================================================================
