------------------------------ MODULE Materialize ------------------------------
(***************************************************************************)
(* How a definition becomes a session that is engaged: the mediation       *)
(* facade (app/mediation.ts: engageLocal, reenter, reenterFromJoin), the   *)
(* start of the engagement leaf (workflows/engagement.ts), the presence    *)
(* factory (app/factory.ts) with the stores of capabilities and the        *)
(* registry of engines, and the in-memory join store they look up.         *)
(*                                                                         *)
(* Calls run concurrently and give way at every await.  Meanwhile the      *)
(* definition may be edited, capabilities published, and an engine may     *)
(* fail to load.  How the definition is read is DefinitionLoader.tla, what *)
(* an engagement does is Presence.tla; here it only has a beginning and an *)
(* end.                                                                    *)
(***************************************************************************)
EXTENDS Naturals, FiniteSets, Sequences

CONSTANTS
  Calls,          \* calls in progress at a time
  Runs,           \* durable runs
  Sessions,       \* session references
  Ids,            \* capability ids
  Kinds,          \* engine kinds, with "pi" and "prime"
  DefaultEngine,  \* the fallback of the composition, or "pi"
  Fragile,        \* engines whose adapter may fail to load
  Definitions,    \* what the loader may return
  Sources,        \* where a capability may come from
  FsLayouts,      \* [Ids -> Sources or Nil]: what the file store may find
  Artifacts,      \* what may be published: [source, path]
  Requests,       \* the calls that may be made
  Persistence,    \* may a new session have a file?
  Nil,
  MaxCalls, MaxEdits, MaxPublishes, MaxLoads   \* bounds

Verbs == {"engage", "leaf", "reenter", "reenterFromJoin"}
Pack == Ids \X Sources
Row == [session : Sessions, packs : SUBSET Pack, engine : Kinds]

(* A leaf belongs to a run; a reenter names a session, or a run instead.   *)
ASSUME MaterializeAssumption ==
  /\ Nil \notin Sessions /\ Nil \notin Runs /\ Nil \notin Kinds
  /\ Nil \notin Sources /\ Nil \notin Definitions /\ Nil \notin Artifacts
  /\ Nil \notin Row /\ \A p \in SUBSET Pack : p # Nil
  /\ DefaultEngine \in Kinds
  /\ FsLayouts \subseteq [Ids -> Sources \cup {Nil}]
  /\ Artifacts \subseteq [source : Sources, path : BOOLEAN]
  /\ Persistence \subseteq BOOLEAN
  /\ \A d \in Definitions : d.ext \in Seq(Ids) /\ d.engine \in Kinds \cup {Nil}
  /\ Requests \subseteq [verb : Verbs, session : Sessions \cup {Nil}, run : Runs \cup {Nil},
                        engine : Kinds \cup {Nil}, policy : {"snapshot", "latest"},
                        expect : {Nil} \cup SUBSET Pack]
  /\ \A q \in Requests :
       /\ q.verb = "leaf" => q.run # Nil
       /\ q.verb = "reenter" => q.session # Nil
       /\ q.verb = "reenterFromJoin" => q.run # Nil \/ q.session # Nil
  /\ MaxCalls \in Nat /\ MaxEdits \in Nat /\ MaxPublishes \in Nat /\ MaxLoads \in Nat

VARIABLES
  definition,  \* what the loader returns now
  fs,          \* what the file store finds, in its search order, per id
  registry,    \* the artifact published last, per id
  loads,       \* promises of the engine registry: kind and state
  cache,       \* the promise the registry remembers per kind, 0 if none
  created,     \* sessions: the engine that created them, and their file
  byRun,       \* the join rows
  bySession,   \* the index of the join rows
  pc, req, def, row, tried, packs, complete, promise, engine, handle,
  recorded,    \* history: packs and engines the leaves recorded per session
  count        \* how many calls, edits and publishes there were

world == <<definition, fs, registry>>
engines == <<loads, cache>>
joins == <<byRun, bySession, recorded>>
call == <<pc, req, def, row, tried, packs, complete, promise, engine, handle>>
vars == <<world, engines, created, joins, call, count>>

-----------------------------------------------------------------------------
Promises == 1 .. MaxLoads
NoRequest == [verb |-> "none", session |-> Nil, run |-> Nil, engine |-> Nil,
              policy |-> "snapshot", expect |-> Nil]

Reenters(q) == q.verb \in {"reenter", "reenterFromJoin"}

TypeOK ==
  /\ definition \in Definitions
  /\ fs \in [Ids -> Sources \cup {Nil}]
  /\ registry \in [Ids -> Artifacts \cup {Nil}]
  /\ loads \in [Promises -> [kind : Kinds \cup {Nil},
                             state : {"none", "pending", "ready", "failed", "forgotten"}]]
  /\ cache \in [Kinds -> 0 .. MaxLoads]
  /\ created \in [Sessions -> [engine : Kinds, file : BOOLEAN] \cup {Nil}]
  /\ byRun \in [Runs -> Row \cup {Nil}]
  /\ bySession \in [Sessions -> Runs \cup {Nil}]
  /\ pc \in [Calls -> {"idle", "lookup", "load", "pin", "resolve", "await", "open",
                       "record", "gate", "engaged", "dispose", "done", "failed"}]
  /\ req \in [Calls -> [verb : Verbs \cup {"none"},
                        session : Sessions \cup {Nil}, run : Runs \cup {Nil},
                        engine : Kinds \cup {Nil}, policy : {"snapshot", "latest"},
                        expect : {Nil} \cup SUBSET Pack]]
  /\ def \in [Calls -> Definitions \cup {Nil}]
  /\ row \in [Calls -> Row \cup {Nil}]
  /\ tried \in [Calls -> Nat]
  /\ packs \in [Calls -> SUBSET Pack]
  /\ complete \in [Calls -> BOOLEAN]
  /\ promise \in [Calls -> 0 .. MaxLoads]
  /\ engine \in [Calls -> Kinds \cup {Nil}]
  /\ handle \in [Calls -> Sessions \cup {Nil}]
  /\ recorded \in [Sessions -> SUBSET ((SUBSET Pack) \X Kinds)]
  /\ count \in [calls : Nat, edits : Nat, publishes : Nat]
  /\ \A c \in Calls :
       handle[c] # Nil <=> pc[c] \in {"record", "gate", "engaged", "dispose"}

-----------------------------------------------------------------------------
(* Stores of capabilities: the registry, then the file system. *)

(* modulePathFromArtifact: an artifact without a path is of no use. *)
HasPath(artifact) == artifact.path

(* The pack of a capability, in a set; none if no store has it, or if the  *)
(* first that has it says no path (CompositeCapabilityStore.get,           *)
(* packLoadPlanFromCapabilityArtifacts).                                   *)
Get(id) ==
  IF registry[id] # Nil
  THEN IF HasPath(registry[id]) THEN {<<id, registry[id].source>>} ELSE {}
  ELSE IF fs[id] # Nil THEN {<<id, fs[id]>>} ELSE {}

Mut_Unresolved(id) == registry[id] = Nil /\ fs[id] = Nil

(* An extension without a pack is an error, and the plan is not ok. *)
Unresolved(id) == Get(id) = {}

(* planHash sorts the packs and leaves out their paths, so it tells apart  *)
(* what the sets of id and source tell apart.                              *)
SameSnapshot(p, q) == p = q

-----------------------------------------------------------------------------
(* The in-memory join store. *)

RowOfSession(s) == IF bySession[s] = Nil THEN Nil ELSE byRun[bySession[s]]

Mut_Index(r, s) == [bySession EXCEPT ![s] = r]

(* put forgets the session the run had before, whoever owns it now. *)
Index(r, s) ==
  [t \in Sessions |->
     IF t = s THEN r
     ELSE IF byRun[r] # Nil /\ byRun[r].session = t THEN Nil
     ELSE bySession[t]]

Put(r, new) ==
  /\ byRun' = [byRun EXCEPT ![r] = new]
  /\ bySession' = Index(r, new.session)
  /\ recorded' = [recorded EXCEPT ![new.session] = @ \cup {<<new.packs, new.engine>>}]

NewRow(c) == [session |-> handle[c], packs |-> packs[c], engine |-> engine[c]]

-----------------------------------------------------------------------------
(* The engine of a call. *)

FirstOf(a, b) == IF a = Nil THEN b ELSE a

(* A reenter pins the engine of the row it found, unless the call names    *)
(* one; a leaf has only what its input says.                               *)
PinnedEngine(c) ==
  IF Reenters(req[c]) /\ row[c] # Nil THEN FirstOf(req[c].engine, row[c].engine)
  ELSE req[c].engine

(* resolveEngineKind *)
EngineKind(c) ==
  FirstOf(PinnedEngine(c), FirstOf(def[c].engine, DefaultEngine))

-----------------------------------------------------------------------------
Init ==
  /\ definition \in Definitions
  /\ fs \in FsLayouts
  /\ registry = [id \in Ids |-> Nil]
  /\ loads = [p \in Promises |-> [kind |-> Nil, state |-> "none"]]
  /\ cache = [k \in Kinds |-> 0]
  /\ created = [s \in Sessions |-> Nil]
  /\ byRun = [r \in Runs |-> Nil]
  /\ bySession = [s \in Sessions |-> Nil]
  /\ pc = [c \in Calls |-> "idle"]
  /\ req = [c \in Calls |-> NoRequest]
  /\ def = [c \in Calls |-> Nil]
  /\ row = [c \in Calls |-> Nil]
  /\ tried = [c \in Calls |-> 0]
  /\ packs = [c \in Calls |-> {}]
  /\ complete = [c \in Calls |-> TRUE]
  /\ promise = [c \in Calls |-> 0]
  /\ engine = [c \in Calls |-> Nil]
  /\ handle = [c \in Calls |-> Nil]
  /\ recorded = [s \in Sessions |-> {}]
  /\ count = [calls |-> 0, edits |-> 0, publishes |-> 0]

Goto(c, label) == pc' = [pc EXCEPT ![c] = label]

(* A call is made.  A session it names was returned by an earlier one; a   *)
(* leaf that resumes one is a wake, or a run dispatched on it.             *)
Begin(c, q) ==
  /\ pc[c] = "idle" /\ count.calls < MaxCalls
  /\ q.session # Nil => created[q.session] # Nil
  /\ req' = [req EXCEPT ![c] = q]
  /\ Goto(c, IF q.verb = "reenterFromJoin" THEN "lookup" ELSE "load")
  /\ count' = [count EXCEPT !.calls = @ + 1]
  /\ UNCHANGED <<world, engines, created, joins, def, row, tried, packs, complete,
                 promise, engine, handle>>

(* reenterFromJoin: the row says the session, its packs and its engine. *)
Lookup(c) ==
  /\ pc[c] = "lookup"
  /\ LET found == IF req[c].run # Nil THEN byRun[req[c].run] ELSE RowOfSession(req[c].session)
     IN IF found = Nil
        THEN Goto(c, "failed") /\ UNCHANGED <<req, row>>
        ELSE /\ Goto(c, "load")
             /\ row' = [row EXCEPT ![c] = found]
             /\ req' = [req EXCEPT ![c].session = found.session]
  /\ UNCHANGED <<world, engines, created, joins, def, tried, packs, complete, promise,
                 engine, handle, count>>

Load(c) ==
  /\ pc[c] = "load"
  /\ def' = [def EXCEPT ![c] = definition]
  /\ Goto(c, IF req[c].verb = "reenter" THEN "pin" ELSE "resolve")
  /\ UNCHANGED <<world, engines, created, joins, req, row, tried, packs, complete,
                 promise, engine, handle, count>>

(* reenter: getBySessionRef, for the engine and the baseline. *)
Pin(c) ==
  /\ pc[c] = "pin"
  /\ row' = [row EXCEPT ![c] = RowOfSession(req[c].session)]
  /\ Goto(c, "resolve")
  /\ UNCHANGED <<world, engines, created, joins, req, def, tried, packs, complete,
                 promise, engine, handle, count>>

(* The resolver asks the stores for one extension after the other. *)
Resolve(c) ==
  /\ pc[c] = "resolve" /\ tried[c] < Len(def[c].ext)
  /\ LET id == def[c].ext[tried[c] + 1]
     IN /\ packs' = [packs EXCEPT ![c] = @ \cup Get(id)]
        /\ complete' = [complete EXCEPT ![c] = @ /\ ~Unresolved(id)]
  /\ tried' = [tried EXCEPT ![c] = @ + 1]
  /\ UNCHANGED <<world, engines, created, joins, pc, req, def, row, promise, engine,
                 handle, count>>

(* A promise of the registry is shared by all who ask for the kind. *)
Shared(k, p) == cache[k] = p

(* The plan is complete: the registry is asked for the engine, which loads *)
(* it or returns the promise it remembers.                                 *)
Select(c) ==
  /\ pc[c] = "resolve" /\ tried[c] = Len(def[c].ext) /\ complete[c]
  /\ engine' = [engine EXCEPT ![c] = EngineKind(c)]
  /\ \E p \in Promises :
       /\ promise' = [promise EXCEPT ![c] = p]
       /\ \/ Shared(EngineKind(c), p) /\ UNCHANGED engines
          \/ /\ \A q \in Promises : ~Shared(EngineKind(c), q)
             /\ loads[p].state = "none"
             /\ \A q \in Promises : loads[q].state = "none" => p <= q
             /\ loads' = [loads EXCEPT ![p] = [kind |-> EngineKind(c), state |-> "pending"]]
             /\ cache' = [cache EXCEPT ![EngineKind(c)] = p]
  /\ Goto(c, "await")
  /\ UNCHANGED <<world, created, joins, req, def, row, tried, packs, complete, handle, count>>

(* CAPABILITY_RESOLVE_FAILED *)
Incomplete(c) ==
  /\ pc[c] = "resolve" /\ tried[c] = Len(def[c].ext) /\ ~complete[c]
  /\ Goto(c, "failed")
  /\ UNCHANGED <<world, engines, created, joins, req, def, row, tried, packs, complete,
                 promise, engine, handle, count>>

(* The factory of an engine returns or throws. *)
EngineLoads(p) ==
  /\ loads[p].state = "pending"
  /\ loads' = [loads EXCEPT ![p].state = "ready"]
  /\ UNCHANGED <<world, cache, created, joins, call, count>>

EngineFails(p) ==
  /\ loads[p].state = "pending" /\ loads[p].kind \in Fragile
  /\ loads' = [loads EXCEPT ![p].state = "failed"]
  /\ UNCHANGED <<world, cache, created, joins, call, count>>

Mut_Remembered(k, p) == cache[k]

(* What the registry remembers once the promise p has failed. *)
Remembered(k, p) == IF cache[k] = p THEN 0 ELSE cache[k]

(* The catch handler of the registry was there before those of the calls   *)
(* that wait, so it runs before them.                                      *)
Forget(p) ==
  /\ loads[p].state = "failed"
  /\ loads' = [loads EXCEPT ![p].state = "forgotten"]
  /\ cache' = [cache EXCEPT ![loads[p].kind] = Remembered(loads[p].kind, p)]
  /\ UNCHANGED <<world, created, joins, call, count>>

Await(c) ==
  /\ pc[c] = "await"
  /\ \/ loads[promise[c]].state = "ready" /\ Goto(c, "open")
     \/ loads[promise[c]].state = "forgotten" /\ Goto(c, "failed")
  /\ UNCHANGED <<world, engines, created, joins, req, def, row, tried, packs, complete,
                 promise, engine, handle, count>>

(* What follows on materialize: a leaf writes its row, a reenter compares  *)
(* the packs, unless the caller wants the latest ones.                     *)
Opened(c) ==
  Goto(c, IF req[c].verb = "leaf" THEN "record"
          ELSE IF Reenters(req[c]) /\ req[c].policy = "snapshot" THEN "gate"
          ELSE "engaged")

HasFile(s) == s # Nil /\ created[s].file

(* openSession opens the file of the session to resume. *)
Resume(c) ==
  /\ pc[c] = "open" /\ HasFile(req[c].session)
  /\ handle' = [handle EXCEPT ![c] = req[c].session]
  /\ Opened(c)
  /\ UNCHANGED <<world, engines, created, joins, req, def, row, tried, packs, complete,
                 promise, engine, count>>

(* It creates a session if there is none to resume, or the one to resume   *)
(* has no file.                                                            *)
Create(c, s, file) ==
  /\ pc[c] = "open" /\ ~HasFile(req[c].session)
  /\ created[s] = Nil
  /\ created' = [created EXCEPT ![s] = [engine |-> engine[c], file |-> file]]
  /\ handle' = [handle EXCEPT ![c] = s]
  /\ Opened(c)
  /\ UNCHANGED <<world, engines, joins, req, def, row, tried, packs, complete, promise,
                 engine, count>>

(* MATERIALIZE_FAILED *)
OpenFails(c) ==
  /\ pc[c] = "open"
  /\ Goto(c, "failed")
  /\ UNCHANGED <<world, engines, created, joins, req, def, row, tried, packs, complete,
                 promise, engine, handle, count>>

(* The leaf puts its row before it engages. *)
Record(c) ==
  /\ pc[c] = "record"
  /\ Put(req[c].run, NewRow(c))
  /\ Goto(c, "engaged")
  /\ UNCHANGED <<world, engines, created, req, def, row, tried, packs, complete, promise,
                 engine, handle, count>>

(* packPolicy "snapshot": the baseline is what the caller expects, given as *)
(* a hash, or else the packs of the row; without either there is no entry.  *)
Baseline(c) ==
  IF req[c].expect # Nil THEN req[c].expect
  ELSE IF row[c] # Nil THEN row[c].packs
  ELSE Nil

PassesGate(c) == Baseline(c) # Nil /\ SameSnapshot(Baseline(c), packs[c])

Mut_AfterGate(c) == IF PassesGate(c) THEN "engaged" ELSE "done"

(* failReenterGate returns inside the try, so the presence is disposed of. *)
AfterGate(c) == IF PassesGate(c) THEN "engaged" ELSE "dispose"

Gate(c) ==
  /\ pc[c] = "gate"
  /\ Goto(c, AfterGate(c))
  /\ UNCHANGED <<world, engines, created, joins, req, def, row, tried, packs, complete,
                 promise, engine, handle, count>>

(* The engagement ends; a leaf that parks puts its row again. *)
EngageEnds(c) ==
  /\ pc[c] = "engaged"
  /\ \/ UNCHANGED joins
     \/ req[c].verb = "leaf" /\ Put(req[c].run, NewRow(c))
  /\ Goto(c, "dispose")
  /\ UNCHANGED <<world, engines, created, req, def, row, tried, packs, complete, promise,
                 engine, handle, count>>

(* The presence is disposed of in the finally of every path. *)
Dispose(c) ==
  /\ pc[c] = "dispose"
  /\ handle' = [handle EXCEPT ![c] = Nil]
  /\ Goto(c, "done")
  /\ UNCHANGED <<world, engines, created, joins, req, def, row, tried, packs, complete,
                 promise, engine, count>>

(* The caller has its answer, and may make another call. *)
Return(c) ==
  /\ pc[c] \in {"done", "failed"}
  /\ Goto(c, "idle")
  /\ req' = [req EXCEPT ![c] = NoRequest]
  /\ def' = [def EXCEPT ![c] = Nil]
  /\ row' = [row EXCEPT ![c] = Nil]
  /\ tried' = [tried EXCEPT ![c] = 0]
  /\ packs' = [packs EXCEPT ![c] = {}]
  /\ complete' = [complete EXCEPT ![c] = TRUE]
  /\ promise' = [promise EXCEPT ![c] = 0]
  /\ engine' = [engine EXCEPT ![c] = Nil]
  /\ UNCHANGED <<world, engines, created, joins, handle, count>>

-----------------------------------------------------------------------------
(* The world around the calls. *)

Edit(d) ==
  /\ count.edits < MaxEdits /\ d # definition
  /\ definition' = d
  /\ count' = [count EXCEPT !.edits = @ + 1]
  /\ UNCHANGED <<fs, registry, engines, created, joins, call>>

(* publish puts what it is given before what was published earlier. *)
Publish(id, artifact) ==
  /\ count.publishes < MaxPublishes /\ artifact # registry[id]
  /\ registry' = [registry EXCEPT ![id] = artifact]
  /\ count' = [count EXCEPT !.publishes = @ + 1]
  /\ UNCHANGED <<definition, fs, engines, created, joins, call>>

-----------------------------------------------------------------------------
CallStep(c) ==
  \/ Lookup(c) \/ Load(c) \/ Pin(c)
  \/ Resolve(c) \/ Select(c) \/ Incomplete(c) \/ Await(c)
  \/ Resume(c) \/ OpenFails(c)
  \/ \E s \in Sessions, file \in Persistence : Create(c, s, file)
  \/ Record(c) \/ Gate(c) \/ EngageEnds(c) \/ Dispose(c)

RegistryStep(p) == EngineLoads(p) \/ EngineFails(p) \/ Forget(p)

Next ==
  \/ \E c \in Calls : CallStep(c) \/ Return(c) \/ \E q \in Requests : Begin(c, q)
  \/ \E p \in Promises : RegistryStep(p)
  \/ \E d \in Definitions : Edit(d)
  \/ \E id \in Ids, artifact \in Artifacts : Publish(id, artifact)

Spec == Init /\ [][Next]_vars

-----------------------------------------------------------------------------
(* A reenter under the default policy engages a session only with packs    *)
(* and an engine that a durable leaf recorded together for that session,   *)
(* whatever was edited, published or recorded between its awaits.  What    *)
(* the caller names comes first: packs it expects need no row to agree     *)
(* with, and an engine of its choice may differ; but reenterFromJoin takes *)
(* a recorded engine even then, if it is given none (mediation.reenter,    *)
(* reenterFromJoin).                                                       *)
SnapshotReentersAddNothing ==
  \A c \in Calls :
    pc[c] = "engaged" /\ Reenters(req[c]) /\ req[c].policy = "snapshot" =>
      /\ req[c].expect # Nil => packs[c] = req[c].expect
      /\ req[c].expect = Nil \/ req[c].verb = "reenterFromJoin" =>
           \E known \in recorded[req[c].session] :
             /\ req[c].expect = Nil => known[1] = packs[c]
             /\ req[c].engine = Nil => known[2] = engine[c]

(* A session is opened only with a pack for every extension of the         *)
(* definition the call has loaded: a capability that is missing, has no    *)
(* path or changes while the list is resolved never leaves a gap           *)
(* (DefaultPresenceFactory.materialize, fail-closed).                      *)
OpenedAsDefined ==
  \A c \in Calls :
    handle[c] # Nil =>
      {pack[1] : pack \in packs[c]} = {def[c].ext[i] : i \in DOMAIN def[c].ext}

(* An engine is loaded once however many calls ask for it at a time, and a *)
(* load that failed is tried again by the next call: who has seen it fail  *)
(* does not find it in the registry any more (createEngineRegistry).       *)
LoadsAreSharedAndRetried ==
  /\ \A p, q \in Promises :
       /\ loads[p].kind = loads[q].kind
       /\ {loads[p].state, loads[q].state} \subseteq {"pending", "ready"}
       => p = q
  /\ \A c \in Calls :
       pc[c] = "failed" /\ engine[c] # Nil /\ loads[promise[c]].state # "ready" =>
         \A k \in Kinds : cache[k] # promise[c]
=============================================================================
