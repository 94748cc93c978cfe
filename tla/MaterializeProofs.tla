-------------------------- MODULE MaterializeProofs --------------------------
(***************************************************************************)
(* Theorems about Materialize, for any number of calls, runs, sessions,     *)
(* capabilities and engines, and any edits, publishes and failed loads.     *)
(*                                                                          *)
(* Inv is inductive.  Beside the types it says that the index of the join   *)
(* store never names a row of another session and that every row was        *)
(* recorded (JoinInv); that the registry remembers the promise of a kind    *)
(* exactly while it has not been forgotten (LoadInv); and where a call      *)
(* stands: with the row it found (RowInv), the packs it has resolved so far *)
(* (PackInv), the promise it waits for (PromiseInv) and, once it engages,   *)
(* past the gate (GateInv).                                                 *)
(***************************************************************************)
EXTENDS Materialize, TLAPS

Known(w) == <<w.packs, w.engine>> \in recorded[w.session]

JoinInv ==
  /\ \A r \in Runs : byRun[r] # Nil => Known(byRun[r])
  /\ \A s \in Sessions :
       bySession[s] # Nil =>
         byRun[bySession[s]] # Nil /\ byRun[bySession[s]].session = s

Alive == {"pending", "ready", "failed"}

LoadInv ==
  /\ \A k \in Kinds :
       cache[k] # 0 => loads[cache[k]].kind = k /\ loads[cache[k]].state \in Alive
  /\ \A p \in Promises :
       loads[p].state \in Alive => loads[p].kind \in Kinds /\ cache[loads[p].kind] = p

Early == {"idle", "lookup", "load", "pin"}

Opening == {"open", "record", "gate", "engaged", "dispose"}

RowInv(c) ==
  /\ req[c].verb = "leaf" => req[c].run # Nil
  /\ req[c].verb = "reenter" => req[c].session # Nil
  /\ pc[c] \in {"idle", "lookup"} => row[c] = Nil
  /\ pc[c] = "lookup" => req[c].run # Nil \/ req[c].session # Nil
  /\ pc[c] = "pin" => req[c].verb = "reenter"
  /\ req[c].verb = "reenterFromJoin" /\ pc[c] \notin {"lookup", "done", "failed"} =>
       row[c] # Nil
  /\ pc[c] = "record" => req[c].verb = "leaf"
  /\ row[c] # Nil => row[c].session = req[c].session /\ Known(row[c])

(* What a call, or none, is asked. *)
Request == [verb : Verbs \cup {"none"}, session : Sessions \cup {Nil}, run : Runs \cup {Nil},
            engine : Kinds \cup {Nil}, policy : {"snapshot", "latest"},
            expect : {Nil} \cup SUBSET Pack]

Prefix(c) == {def[c].ext[i] : i \in 1 .. tried[c]}

PackIds(c) == {pack[1] : pack \in packs[c]}

PackInv(c) ==
  /\ pc[c] \in Early => tried[c] = 0 /\ packs[c] = {} /\ complete[c]
  /\ pc[c] \in {"pin", "resolve", "await"} \cup Opening =>
       def[c] # Nil /\ tried[c] <= Len(def[c].ext)
  /\ pc[c] \in {"resolve", "await"} \cup Opening /\ complete[c] => PackIds(c) = Prefix(c)
  /\ pc[c] \in {"await"} \cup Opening =>
       complete[c] /\ tried[c] = Len(def[c].ext) /\ engine[c] = EngineKind(c)

PromiseInv(c) ==
  /\ pc[c] \in Early \cup {"resolve"} => engine[c] = Nil
  /\ pc[c] = "await" => promise[c] \in Promises
  /\ pc[c] \in Opening => promise[c] \in Promises /\ loads[promise[c]].state = "ready"
  /\ pc[c] = "failed" /\ engine[c] # Nil =>
       promise[c] \in Promises /\ loads[promise[c]].state \in {"ready", "forgotten"}

GateInv(c) ==
  pc[c] = "engaged" /\ Reenters(req[c]) /\ req[c].policy = "snapshot" => PassesGate(c)

CallInv(c) == RowInv(c) /\ PackInv(c) /\ PromiseInv(c) /\ GateInv(c)

Inv == TypeOK /\ JoinInv /\ LoadInv /\ \A c \in Calls : CallInv(c)

-----------------------------------------------------------------------------
(* What a step leaves alone. *)

SameCall(b) ==
  /\ pc'[b] = pc[b] /\ req'[b] = req[b] /\ def'[b] = def[b] /\ row'[b] = row[b]
  /\ tried'[b] = tried[b] /\ packs'[b] = packs[b] /\ complete'[b] = complete[b]
  /\ promise'[b] = promise[b] /\ engine'[b] = engine[b]

(* Nothing is unrecorded, and an end of a load is final. *)
Later ==
  /\ \A s \in Sessions : recorded[s] \subseteq recorded'[s]
  /\ \A p \in Promises :
       loads[p].state \in {"ready", "forgotten"} => loads'[p].state = loads[p].state

LEMMA OthersKeep ==
  ASSUME TypeOK, Later, NEW b \in Calls, CallInv(b), SameCall(b)
  PROVE  CallInv(b)'
<1>1. RowInv(b)'
  <2>1. row[b] # Nil => row[b].session \in Sessions
    BY DEF TypeOK, Row
  <2> QED
    BY <2>1 DEF CallInv, RowInv, SameCall, Later, Known
<1>2. PackInv(b)'
  <2>1. PackIds(b)' = PackIds(b) /\ Prefix(b)' = Prefix(b)
    BY DEF PackIds, Prefix, SameCall
  <2>2. EngineKind(b)' = EngineKind(b)
    BY DEF EngineKind, PinnedEngine, Reenters, SameCall
  <2> QED
    BY <2>1, <2>2 DEF CallInv, PackInv, SameCall
<1>3. PromiseInv(b)'
  BY DEF CallInv, PromiseInv, SameCall, Later
<1>4. GateInv(b)'
  BY DEF CallInv, GateInv, SameCall, PassesGate, Baseline, SameSnapshot, Reenters
<1> QED
  BY <1>1, <1>2, <1>3, <1>4 DEF CallInv

(* A step of one call that leaves the join store and the registry alone has *)
(* to keep the types and its own invariant.                                 *)
LEMMA OneCallMoves ==
  ASSUME Inv, NEW c \in Calls, TypeOK', CallInv(c)',
         UNCHANGED <<engines, joins>>,
         \A b \in Calls \ {c} : SameCall(b)
  PROVE  Inv'
<1>1. JoinInv' /\ LoadInv' /\ Later
  BY DEF Inv, JoinInv, LoadInv, Later, Known, engines, joins
<1>2. ASSUME NEW b \in Calls PROVE CallInv(b)'
  BY <1>1, OthersKeep DEF Inv
<1> QED
  BY <1>1, <1>2 DEF Inv

LEMMA NoCallMoves ==
  ASSUME Inv, TypeOK', JoinInv', LoadInv', Later, UNCHANGED call
  PROVE  Inv'
<1>1. ASSUME NEW b \in Calls PROVE CallInv(b)'
  <2>1. SameCall(b)
    BY DEF SameCall, call
  <2> QED
    BY <2>1, OthersKeep DEF Inv
<1> QED
  BY <1>1 DEF Inv

(* What a call finds in the join store is the row of the session it names,  *)
(* and was recorded.                                                        *)
LEMMA FoundRows ==
  ASSUME Inv
  PROVE  /\ \A r \in Runs : byRun[r] # Nil => byRun[r] \in Row /\ Known(byRun[r])
         /\ \A s \in Sessions :
              RowOfSession(s) # Nil =>
                /\ RowOfSession(s) \in Row /\ Known(RowOfSession(s))
                /\ RowOfSession(s).session = s
  BY DEF Inv, TypeOK, JoinInv, RowOfSession

LEMMA KindIsKnown ==
  ASSUME MaterializeAssumption, TypeOK, NEW c \in Calls, def[c] # Nil
  PROVE  EngineKind(c) \in Kinds
<1>1. def[c].engine \in Kinds \cup {Nil}
  BY DEF MaterializeAssumption, TypeOK
<1>2. PinnedEngine(c) \in Kinds \cup {Nil}
  BY DEF TypeOK, PinnedEngine, FirstOf, Row
<1> QED
  BY <1>1, <1>2 DEF EngineKind, FirstOf, MaterializeAssumption

LEMMA InitEstablishes == ASSUME MaterializeAssumption, Init PROVE Inv
<1>1. TypeOK
  BY DEF MaterializeAssumption, Init, TypeOK, NoRequest, Promises
<1>2. JoinInv
  BY DEF Init, JoinInv
<1>3. LoadInv
  BY DEF Init, LoadInv, Alive
<1>4. ASSUME NEW c \in Calls PROVE CallInv(c)
  BY DEF Init, CallInv, RowInv, PackInv, PromiseInv, GateInv, NoRequest, Early, Opening
<1> QED
  BY <1>1, <1>2, <1>3, <1>4 DEF Inv
-----------------------------------------------------------------------------
(* Each action of a call preserves the invariant. *)

LEMMA BeginKeeps ==
  ASSUME MaterializeAssumption, Inv, NEW c \in Calls, NEW q \in Requests, Begin(c, q)
  PROVE  Inv'
<1>1. UNCHANGED <<engines, joins>> /\ \A b \in Calls \ {c} : SameCall(b)
  BY DEF Inv, TypeOK, Begin, Goto, SameCall
<1>2. q \in Request
  BY DEF MaterializeAssumption, Request
<1>3. count' \in [calls : Nat, edits : Nat, publishes : Nat]
  <2>1. count \in [calls : Nat, edits : Nat, publishes : Nat]
    BY DEF Inv, TypeOK
  <2>2. count' = [count EXCEPT !.calls = count.calls + 1]
    BY DEF Begin
  <2> QED
    BY <2>1, <2>2
<1>4. TypeOK'
  BY <1>2, <1>3 DEF Inv, TypeOK, Request, Begin, Goto, world, engines, joins
<1>5. CallInv(c)'
  <2>1. CallInv(c) /\ TypeOK
    BY DEF Inv
  <2>2. RowInv(c)'
    BY <2>1 DEF CallInv, RowInv, TypeOK, Begin, Goto, MaterializeAssumption, Known, joins, Row
  <2>3. PackInv(c)'
    BY <2>1 DEF CallInv, PackInv, TypeOK, Begin, Goto, Early, Opening
  <2>4. PromiseInv(c)'
    BY <2>1 DEF CallInv, PromiseInv, TypeOK, Begin, Goto, Early, Opening, engines
  <2>5. GateInv(c)'
    BY <2>1
    DEF CallInv, GateInv, TypeOK, Begin, Goto, PassesGate, Baseline, SameSnapshot, Reenters, RowInv
  <2> QED
    BY <2>2, <2>3, <2>4, <2>5 DEF CallInv
<1> QED
  BY <1>1, <1>4, <1>5, OneCallMoves

LEMMA LookupKeeps ==
  ASSUME MaterializeAssumption, Inv, NEW c \in Calls, Lookup(c)
  PROVE  Inv'
<1>1. UNCHANGED <<engines, joins>> /\ \A b \in Calls \ {c} : SameCall(b)
  BY DEF Inv, TypeOK, Lookup, Goto, SameCall
<1>2. \A r \in Runs : byRun[r] # Nil => byRun[r] \in Row
  BY FoundRows
<1>3. row' \in [Calls -> Row \cup {Nil}] /\ req' \in [Calls -> Request]
  <2>1. CASE req' = req /\ row' = row
    BY <2>1 DEF Inv, TypeOK, Request
  <2>2. CASE \E found \in Row : row' = [row EXCEPT ![c] = found]
                                /\ req' = [req EXCEPT ![c].session = found.session]
    <3>1. PICK found \in Row : /\ row' = [row EXCEPT ![c] = found]
                               /\ req' = [req EXCEPT ![c].session = found.session]
      BY <2>2
    <3>2. req \in [Calls -> Request] /\ row \in [Calls -> Row \cup {Nil}]
      BY DEF Inv, TypeOK, Request
    <3>3. found.session \in Sessions
      BY DEF Row
    <3>4. req[c] \in Request
      BY <3>2
    <3>5. [req[c] EXCEPT !.session = found.session] \in Request
      BY <3>3, <3>4 DEF Request
    <3> QED
      BY <3>1, <3>2, <3>5
  <2> QED
    BY <2>1, <2>2, <1>2, FoundRows DEF Lookup, Inv, CallInv, RowInv, TypeOK
<1>4. pc[c] = "lookup" /\ \E to \in {"load", "failed"} : pc' = [pc EXCEPT ![c] = to]
  BY DEF Lookup, Goto
<1>5. UNCHANGED <<world, engines, created, joins, def, tried, packs, complete, promise,
                  engine, handle, count>>
  BY DEF Lookup
<1>6. TypeOK'
  <2>1. PICK to \in {"load", "failed"} : pc' = [pc EXCEPT ![c] = to]
    BY <1>4
  <2>2. TypeOK /\ handle \in [Calls -> Sessions \cup {Nil}]
    BY DEF Inv, TypeOK
  <2>3. /\ pc' \in [Calls -> {"idle", "lookup", "load", "pin", "resolve", "await", "open",
                             "record", "gate", "engaged", "dispose", "done", "failed"}]
        /\ handle' \in [Calls -> Sessions \cup {Nil}]
    BY <2>1, <2>2, <1>3, <1>5 DEF TypeOK
  <2>4. \A b \in Calls :
          handle'[b] # Nil <=> pc'[b] \in {"record", "gate", "engaged", "dispose"}
    BY <2>1, <2>2, <1>3, <1>5, <1>4 DEF TypeOK
  <2> QED
    BY <2>2, <2>3, <2>4, <1>3, <1>5 DEF TypeOK, Request, world, engines, joins
<1>7. CallInv(c)'
  <2>1. CallInv(c) /\ TypeOK
    BY DEF Inv
  <2>2. RowInv(c)'
    <3>1. CASE pc' = [pc EXCEPT ![c] = "failed"] /\ UNCHANGED <<req, row, recorded>>
      BY <2>1, <3>1 DEF CallInv, RowInv, TypeOK, Known
    <3>2. CASE \E found \in Row :
                 /\ Known(found)
                 /\ pc' = [pc EXCEPT ![c] = "load"]
                 /\ row' = [row EXCEPT ![c] = found]
                 /\ req' = [req EXCEPT ![c].session = found.session]
      <4>1. PICK found \in Row :
                 /\ Known(found)
                 /\ pc' = [pc EXCEPT ![c] = "load"]
                 /\ row' = [row EXCEPT ![c] = found]
                 /\ req' = [req EXCEPT ![c].session = found.session]
        BY <3>2
      <4>2. /\ pc'[c] = "load" /\ row'[c] = found
            /\ req'[c] = [req[c] EXCEPT !.session = found.session]
        BY <4>1, <2>1 DEF TypeOK
      <4>3. found.session \in Sessions /\ req[c] \in Request
        BY <2>1 DEF Row, TypeOK, Request
      <4>4. /\ req'[c].session = found.session /\ req'[c].verb = req[c].verb
            /\ req'[c].run = req[c].run
        BY <4>2, <4>3 DEF Request
      <4>5. recorded' = recorded
        BY DEF Lookup, joins
      <4> QED
        BY <4>1, <4>2, <4>3, <4>4, <4>5, <2>1 DEF CallInv, RowInv, Known, MaterializeAssumption
    <3> QED
      BY <2>1, <3>1, <3>2, FoundRows DEF Lookup, Goto, CallInv, RowInv, TypeOK, joins
  <2>3. PackInv(c)'
    BY <2>1 DEF CallInv, PackInv, TypeOK, Lookup, Goto, Early, Opening
  <2>4. PromiseInv(c)'
    BY <2>1 DEF CallInv, PromiseInv, TypeOK, Lookup, Goto, Early, Opening, engines
  <2>5. GateInv(c)'
    BY <2>1
    DEF CallInv, GateInv, TypeOK, Lookup, Goto, PassesGate, Baseline, SameSnapshot, Reenters, RowInv
  <2> QED
    BY <2>2, <2>3, <2>4, <2>5 DEF CallInv
<1> QED
  BY <1>1, <1>6, <1>7, OneCallMoves

LEMMA LoadKeeps ==
  ASSUME MaterializeAssumption, Inv, NEW c \in Calls, Load(c)
  PROVE  Inv'
<1>1. UNCHANGED <<engines, joins>> /\ \A b \in Calls \ {c} : SameCall(b)
  BY DEF Inv, TypeOK, Load, Goto, SameCall
<1>2. TypeOK'
  BY DEF MaterializeAssumption, Inv, TypeOK, Load, Goto, world, engines, joins
<1>3. CallInv(c)'
  <2>1. CallInv(c) /\ TypeOK
    BY DEF Inv
  <2>2. RowInv(c)'
    BY <2>1
    DEF CallInv, RowInv, TypeOK, Load, Goto, MaterializeAssumption, Known, joins, Row,
        PackIds, Prefix
  <2>3. PackInv(c)'
    BY <2>1 DEF CallInv, PackInv, TypeOK, Load, Goto, Early, Opening, PackIds, Prefix
  <2>4. PromiseInv(c)'
    BY <2>1
    DEF CallInv, PromiseInv, TypeOK, Load, Goto, Early, Opening, engines, PackIds, Prefix
  <2>5. GateInv(c)'
    BY <2>1
    DEF CallInv, GateInv, TypeOK, Load, Goto, PassesGate, Baseline, SameSnapshot, Reenters, RowInv,
        PackIds, Prefix
  <2> QED
    BY <2>2, <2>3, <2>4, <2>5 DEF CallInv
<1> QED
  BY <1>1, <1>2, <1>3, OneCallMoves

LEMMA PinKeeps ==
  ASSUME MaterializeAssumption, Inv, NEW c \in Calls, Pin(c)
  PROVE  Inv'
<1>1. UNCHANGED <<engines, joins>> /\ \A b \in Calls \ {c} : SameCall(b)
  BY DEF Inv, TypeOK, Pin, Goto, SameCall
<1>2. RowOfSession(req[c].session) \in Row \cup {Nil}
  BY FoundRows DEF Inv, CallInv, RowInv, TypeOK, Pin
<1>3. TypeOK'
  BY <1>2 DEF Inv, TypeOK, Pin, Goto, world, engines, joins
<1>4. CallInv(c)'
  <2>1. CallInv(c) /\ TypeOK
    BY DEF Inv
  <2>2. RowInv(c)'
    <3>1. req[c].verb = "reenter" /\ req[c].session \in Sessions
      BY <2>1 DEF Pin, CallInv, RowInv, TypeOK
    <3>2. row'[c] = RowOfSession(req[c].session) /\ pc'[c] = "resolve"
      BY <2>1 DEF Pin, Goto, TypeOK
    <3>3. UNCHANGED <<req, recorded>>
      BY DEF Pin, joins
    <3>4. row'[c] # Nil => row'[c].session = req[c].session /\ Known(row'[c])
      BY <3>1, <3>2, FoundRows
    <3> QED
      BY <2>1, <3>1, <3>2, <3>3, <3>4 DEF CallInv, RowInv, Known
  <2>3. PackInv(c)'
    BY <2>1 DEF CallInv, PackInv, TypeOK, Pin, Goto, Early, Opening, PackIds, Prefix
  <2>4. PromiseInv(c)'
    BY <2>1 DEF CallInv, PromiseInv, TypeOK, Pin, Goto, Early, Opening, engines, PackIds, Prefix
  <2>5. GateInv(c)'
    BY <2>1
    DEF CallInv, GateInv, TypeOK, Pin, Goto, PassesGate, Baseline, SameSnapshot, Reenters, RowInv,
        PackIds, Prefix
  <2> QED
    BY <2>2, <2>3, <2>4, <2>5 DEF CallInv
<1> QED
  BY <1>1, <1>3, <1>4, OneCallMoves

LEMMA IncompleteKeeps ==
  ASSUME MaterializeAssumption, Inv, NEW c \in Calls, Incomplete(c)
  PROVE  Inv'
<1>1. UNCHANGED <<engines, joins>> /\ \A b \in Calls \ {c} : SameCall(b)
  BY DEF Inv, TypeOK, Incomplete, Goto, SameCall
<1>2. TypeOK'
  BY DEF MaterializeAssumption, Inv, TypeOK, Incomplete, Goto, world, engines, joins
<1>3. CallInv(c)'
  <2>1. CallInv(c) /\ TypeOK
    BY DEF Inv
  <2>2. RowInv(c)'
    BY <2>1
    DEF CallInv, RowInv, TypeOK, Incomplete, Goto, MaterializeAssumption, Known, joins, Row
  <2>3. PackInv(c)'
    <3>1. PackIds(c)' = PackIds(c) /\ Prefix(c)' = Prefix(c) /\ EngineKind(c)' = EngineKind(c)
      BY DEF PackIds, Prefix, EngineKind, PinnedEngine, Reenters, Incomplete
    <3> QED
      BY <2>1, <3>1 DEF CallInv, PackInv, TypeOK, Incomplete, Goto, Early, Opening
  <2>4. PromiseInv(c)'
    BY <2>1 DEF CallInv, PromiseInv, TypeOK, Incomplete, Goto, Early, Opening, engines
  <2>5. GateInv(c)'
    BY <2>1
    DEF CallInv, GateInv, TypeOK, Incomplete, Goto, PassesGate, Baseline, SameSnapshot, Reenters,
        RowInv
  <2> QED
    BY <2>2, <2>3, <2>4, <2>5 DEF CallInv
<1> QED
  BY <1>1, <1>2, <1>3, OneCallMoves

LEMMA AwaitKeeps ==
  ASSUME MaterializeAssumption, Inv, NEW c \in Calls, Await(c)
  PROVE  Inv'
<1>1. UNCHANGED <<engines, joins>> /\ \A b \in Calls \ {c} : SameCall(b)
  BY DEF Inv, TypeOK, Await, Goto, SameCall
<1>2. pc[c] = "await" /\ \E to \in {"open", "failed"} : pc' = [pc EXCEPT ![c] = to]
  BY DEF Await, Goto
<1>3. UNCHANGED <<world, engines, created, joins, req, def, row, tried, packs, complete,
                  promise, engine, handle, count>>
  BY DEF Await
<1>4. TypeOK'
  <2>1. PICK to \in {"open", "failed"} : pc' = [pc EXCEPT ![c] = to]
    BY <1>2
  <2>2. TypeOK /\ handle \in [Calls -> Sessions \cup {Nil}]
    BY DEF Inv, TypeOK
  <2>3. /\ pc' \in [Calls -> {"idle", "lookup", "load", "pin", "resolve", "await", "open",
                             "record", "gate", "engaged", "dispose", "done", "failed"}]
        /\ handle' \in [Calls -> Sessions \cup {Nil}]
    BY <2>1, <2>2, <1>2, <1>3 DEF TypeOK
  <2>4. \A b \in Calls :
          handle'[b] # Nil <=> pc'[b] \in {"record", "gate", "engaged", "dispose"}
    BY <2>1, <2>2, <1>2, <1>3, <1>2 DEF TypeOK
  <2> QED
    BY <2>2, <2>3, <2>4, <1>2, <1>3 DEF TypeOK, world, engines, joins
<1>5. CallInv(c)'
  <2>1. CallInv(c) /\ TypeOK
    BY DEF Inv
  <2>2. RowInv(c)'
    BY <2>1 DEF CallInv, RowInv, TypeOK, Await, Goto, MaterializeAssumption, Known, joins, Row
  <2>3. PackInv(c)'
    <3>1. PackIds(c)' = PackIds(c) /\ Prefix(c)' = Prefix(c) /\ EngineKind(c)' = EngineKind(c)
      BY DEF PackIds, Prefix, EngineKind, PinnedEngine, Reenters, Await
    <3> QED
      BY <2>1, <3>1 DEF CallInv, PackInv, TypeOK, Await, Goto, Early, Opening
  <2>4. PromiseInv(c)'
    BY <2>1 DEF CallInv, PromiseInv, TypeOK, Await, Goto, Early, Opening, engines
  <2>5. GateInv(c)'
    BY <2>1
    DEF CallInv, GateInv, TypeOK, Await, Goto, PassesGate, Baseline, SameSnapshot, Reenters, RowInv
  <2> QED
    BY <2>2, <2>3, <2>4, <2>5 DEF CallInv
<1> QED
  BY <1>1, <1>4, <1>5, OneCallMoves

LEMMA ResumeKeeps ==
  ASSUME MaterializeAssumption, Inv, NEW c \in Calls, Resume(c)
  PROVE  Inv'
<1>1. UNCHANGED <<engines, joins>> /\ \A b \in Calls \ {c} : SameCall(b)
  BY DEF Inv, TypeOK, Resume, Goto, Opened, SameCall
<1>2. TypeOK'
  BY DEF MaterializeAssumption, Inv, TypeOK, Resume, Goto, Opened, HasFile, world, engines,
         joins
<1>3. CallInv(c)'
  <2>1. CallInv(c) /\ TypeOK
    BY DEF Inv
  <2>2. RowInv(c)'
    BY <2>1
    DEF CallInv, RowInv, TypeOK, Resume, Goto, MaterializeAssumption, Known, joins, Row,
        Opened
  <2>3. PackInv(c)'
    <3>1. PackIds(c)' = PackIds(c) /\ Prefix(c)' = Prefix(c) /\ EngineKind(c)' = EngineKind(c)
      BY DEF PackIds, Prefix, EngineKind, PinnedEngine, Reenters, Resume
    <3> QED
      BY <2>1, <3>1 DEF CallInv, PackInv, TypeOK, Resume, Goto, Early, Opening, Opened
  <2>4. PromiseInv(c)'
    BY <2>1 DEF CallInv, PromiseInv, TypeOK, Resume, Goto, Early, Opening, engines, Opened
  <2>5. GateInv(c)'
    BY <2>1
    DEF CallInv, GateInv, TypeOK, Resume, Goto, PassesGate, Baseline, SameSnapshot, Reenters, RowInv,
        Opened
  <2> QED
    BY <2>2, <2>3, <2>4, <2>5 DEF CallInv
<1> QED
  BY <1>1, <1>2, <1>3, OneCallMoves

LEMMA CreateKeeps ==
  ASSUME MaterializeAssumption, Inv, NEW c \in Calls, NEW s \in Sessions,
         NEW file \in Persistence, Create(c, s, file)
  PROVE  Inv'
<1>1. UNCHANGED <<engines, joins>> /\ \A b \in Calls \ {c} : SameCall(b)
  BY DEF Inv, TypeOK, Create, Goto, Opened, SameCall
<1>2. created' \in [Sessions -> [engine : Kinds, file : BOOLEAN] \cup {Nil}]
  <2>1. engine[c] \in Kinds
    BY KindIsKnown DEF Inv, CallInv, PackInv, Opening, Create
  <2>2. [engine |-> engine[c], file |-> file] \in [engine : Kinds, file : BOOLEAN]
    BY <2>1 DEF MaterializeAssumption
  <2> QED
    BY <2>2 DEF Create, Inv, TypeOK
<1>3. \E to \in {"record", "gate", "engaged"} : pc' = [pc EXCEPT ![c] = to]
  BY DEF Create, Opened, Goto
<1>4. handle' = [handle EXCEPT ![c] = s] /\ s # Nil
  BY DEF Create, MaterializeAssumption
<1>5. UNCHANGED <<world, engines, joins, req, def, row, tried, packs, complete, promise,
                  engine, count>>
  BY DEF Create
<1>6. TypeOK'
  <2>1. PICK to \in {"record", "gate", "engaged"} : pc' = [pc EXCEPT ![c] = to]
    BY <1>3
  <2>2. TypeOK /\ handle \in [Calls -> Sessions \cup {Nil}]
    BY DEF Inv, TypeOK
  <2>3. /\ pc' \in [Calls -> {"idle", "lookup", "load", "pin", "resolve", "await", "open",
                             "record", "gate", "engaged", "dispose", "done", "failed"}]
        /\ handle' \in [Calls -> Sessions \cup {Nil}]
    BY <2>1, <2>2, <1>2, <1>4, <1>5 DEF TypeOK
  <2>4. \A b \in Calls :
          handle'[b] # Nil <=> pc'[b] \in {"record", "gate", "engaged", "dispose"}
    BY <2>1, <2>2, <1>2, <1>4, <1>5, <1>2 DEF TypeOK, Create
  <2> QED
    BY <2>2, <2>3, <2>4, <1>2, <1>4, <1>5 DEF TypeOK, world, engines, joins
<1>7. CallInv(c)'
  <2>1. CallInv(c) /\ TypeOK
    BY DEF Inv
  <2>2. RowInv(c)'
    BY <2>1
    DEF CallInv, RowInv, TypeOK, Create, Goto, MaterializeAssumption, Known, joins, Row,
        Opened
  <2>3. PackInv(c)'
    <3>1. PackIds(c)' = PackIds(c) /\ Prefix(c)' = Prefix(c) /\ EngineKind(c)' = EngineKind(c)
      BY DEF PackIds, Prefix, EngineKind, PinnedEngine, Reenters, Create
    <3> QED
      BY <2>1, <3>1 DEF CallInv, PackInv, TypeOK, Create, Goto, Early, Opening, Opened
  <2>4. PromiseInv(c)'
    BY <2>1 DEF CallInv, PromiseInv, TypeOK, Create, Goto, Early, Opening, engines, Opened
  <2>5. GateInv(c)'
    BY <2>1
    DEF CallInv, GateInv, TypeOK, Create, Goto, PassesGate, Baseline, SameSnapshot, Reenters, RowInv,
        Opened
  <2> QED
    BY <2>2, <2>3, <2>4, <2>5 DEF CallInv
<1> QED
  BY <1>1, <1>6, <1>7, OneCallMoves

LEMMA OpenFailsKeeps ==
  ASSUME MaterializeAssumption, Inv, NEW c \in Calls, OpenFails(c)
  PROVE  Inv'
<1>1. UNCHANGED <<engines, joins>> /\ \A b \in Calls \ {c} : SameCall(b)
  BY DEF Inv, TypeOK, OpenFails, Goto, SameCall
<1>2. TypeOK'
  BY DEF MaterializeAssumption, Inv, TypeOK, OpenFails, Goto, world, engines, joins
<1>3. CallInv(c)'
  <2>1. CallInv(c) /\ TypeOK
    BY DEF Inv
  <2>2. RowInv(c)'
    BY <2>1
    DEF CallInv, RowInv, TypeOK, OpenFails, Goto, MaterializeAssumption, Known, joins, Row
  <2>3. PackInv(c)'
    <3>1. PackIds(c)' = PackIds(c) /\ Prefix(c)' = Prefix(c) /\ EngineKind(c)' = EngineKind(c)
      BY DEF PackIds, Prefix, EngineKind, PinnedEngine, Reenters, OpenFails
    <3> QED
      BY <2>1, <3>1 DEF CallInv, PackInv, TypeOK, OpenFails, Goto, Early, Opening
  <2>4. PromiseInv(c)'
    BY <2>1 DEF CallInv, PromiseInv, TypeOK, OpenFails, Goto, Early, Opening, engines
  <2>5. GateInv(c)'
    BY <2>1
    DEF CallInv, GateInv, TypeOK, OpenFails, Goto, PassesGate, Baseline, SameSnapshot, Reenters,
        RowInv
  <2> QED
    BY <2>2, <2>3, <2>4, <2>5 DEF CallInv
<1> QED
  BY <1>1, <1>2, <1>3, OneCallMoves

LEMMA GateKeeps ==
  ASSUME MaterializeAssumption, Inv, NEW c \in Calls, Gate(c)
  PROVE  Inv'
<1>1. UNCHANGED <<engines, joins>> /\ \A b \in Calls \ {c} : SameCall(b)
  BY DEF Inv, TypeOK, Gate, Goto, SameCall
<1>2. TypeOK'
  BY DEF MaterializeAssumption, Inv, TypeOK, Gate, Goto, AfterGate, world, engines, joins
<1>3. CallInv(c)'
  <2>1. CallInv(c) /\ TypeOK
    BY DEF Inv
  <2>2. RowInv(c)'
    BY <2>1
    DEF CallInv, RowInv, TypeOK, Gate, Goto, MaterializeAssumption, Known, joins, Row,
        AfterGate
  <2>3. PackInv(c)'
    <3>1. PackIds(c)' = PackIds(c) /\ Prefix(c)' = Prefix(c) /\ EngineKind(c)' = EngineKind(c)
      BY DEF PackIds, Prefix, EngineKind, PinnedEngine, Reenters, Gate
    <3> QED
      BY <2>1, <3>1 DEF CallInv, PackInv, TypeOK, Gate, Goto, Early, Opening, AfterGate
  <2>4. PromiseInv(c)'
    BY <2>1 DEF CallInv, PromiseInv, TypeOK, Gate, Goto, Early, Opening, engines, AfterGate
  <2>5. GateInv(c)'
    BY <2>1
    DEF CallInv, GateInv, TypeOK, Gate, Goto, PassesGate, Baseline, SameSnapshot, Reenters, RowInv,
        AfterGate
  <2> QED
    BY <2>2, <2>3, <2>4, <2>5 DEF CallInv
<1> QED
  BY <1>1, <1>2, <1>3, OneCallMoves

LEMMA DisposeKeeps ==
  ASSUME MaterializeAssumption, Inv, NEW c \in Calls, Dispose(c)
  PROVE  Inv'
<1>1. UNCHANGED <<engines, joins>> /\ \A b \in Calls \ {c} : SameCall(b)
  BY DEF Inv, TypeOK, Dispose, Goto, SameCall
<1>2. TypeOK'
  BY DEF MaterializeAssumption, Inv, TypeOK, Dispose, Goto, world, engines, joins
<1>3. CallInv(c)'
  <2>1. CallInv(c) /\ TypeOK
    BY DEF Inv
  <2>2. RowInv(c)'
    BY <2>1 DEF CallInv, RowInv, TypeOK, Dispose, Goto, MaterializeAssumption, Known, joins, Row
  <2>3. PackInv(c)'
    <3>1. PackIds(c)' = PackIds(c) /\ Prefix(c)' = Prefix(c) /\ EngineKind(c)' = EngineKind(c)
      BY DEF PackIds, Prefix, EngineKind, PinnedEngine, Reenters, Dispose
    <3> QED
      BY <2>1, <3>1 DEF CallInv, PackInv, TypeOK, Dispose, Goto, Early, Opening
  <2>4. PromiseInv(c)'
    BY <2>1 DEF CallInv, PromiseInv, TypeOK, Dispose, Goto, Early, Opening, engines
  <2>5. GateInv(c)'
    BY <2>1
    DEF CallInv, GateInv, TypeOK, Dispose, Goto, PassesGate, Baseline, SameSnapshot, Reenters, RowInv
  <2> QED
    BY <2>2, <2>3, <2>4, <2>5 DEF CallInv
<1> QED
  BY <1>1, <1>2, <1>3, OneCallMoves

LEMMA ReturnKeeps ==
  ASSUME MaterializeAssumption, Inv, NEW c \in Calls, Return(c)
  PROVE  Inv'
<1>1. UNCHANGED <<engines, joins>> /\ \A b \in Calls \ {c} : SameCall(b)
  BY DEF Inv, TypeOK, Return, Goto, SameCall
<1>2. NoRequest \in [verb : Verbs \cup {"none"}, session : Sessions \cup {Nil}, run : Runs \cup {Nil},
                     engine : Kinds \cup {Nil}, policy : {"snapshot", "latest"},
                     expect : {Nil} \cup SUBSET Pack]
  BY DEF NoRequest
<1>3. pc' = [pc EXCEPT ![c] = "idle"] /\ req' = [req EXCEPT ![c] = NoRequest] /\ handle' = handle
  BY DEF Return, Goto
<1>4. TypeOK'
  BY <1>2, <1>3 DEF Inv, TypeOK, Return, world, engines, joins
<1>5. CallInv(c)'
  <2>1. CallInv(c) /\ TypeOK
    BY DEF Inv
  <2>2. RowInv(c)'
    BY <2>1
    DEF CallInv, RowInv, TypeOK, Return, Goto, MaterializeAssumption, Known, joins, Row,
        NoRequest
  <2>3. PackInv(c)'
    BY <2>1 DEF CallInv, PackInv, TypeOK, Return, Goto, Early, Opening, NoRequest
  <2>4. PromiseInv(c)'
    BY <2>1 DEF CallInv, PromiseInv, TypeOK, Return, Goto, Early, Opening, engines, NoRequest
  <2>5. GateInv(c)'
    BY <2>1
    DEF CallInv, GateInv, TypeOK, Return, Goto, PassesGate, Baseline, SameSnapshot, Reenters, RowInv,
        NoRequest
  <2> QED
    BY <2>2, <2>3, <2>4, <2>5 DEF CallInv
<1> QED
  BY <1>1, <1>4, <1>5, OneCallMoves

LEMMA ResolveKeeps ==
  ASSUME MaterializeAssumption, Inv, NEW c \in Calls, Resolve(c)
  PROVE  Inv'
<1> DEFINE id == def[c].ext[tried[c] + 1]
<1>1. UNCHANGED <<engines, joins>> /\ \A b \in Calls \ {c} : SameCall(b)
  BY DEF Inv, TypeOK, Resolve, SameCall
<1>2. TypeOK /\ CallInv(c)
  BY DEF Inv
<1>3. def[c].ext \in Seq(Ids) /\ tried[c] \in Nat /\ tried[c] < Len(def[c].ext)
  BY <1>2 DEF Resolve, TypeOK, CallInv, PackInv, MaterializeAssumption
<1>4. id \in Ids
  BY <1>3
<1>5. Get(id) \subseteq Pack /\ \A pack \in Get(id) : pack[1] = id
  <2>1. registry[id] = Nil => Get(id) = {} \/ (fs[id] # Nil /\ Get(id) = {<<id, fs[id]>>})
    BY DEF Get
  <2>2. registry[id] # Nil => Get(id) = {} \/ Get(id) = {<<id, registry[id].source>>}
    BY DEF Get
  <2>3. ASSUME NEW x \in Sources, Get(id) = {<<id, x>>}
        PROVE  Get(id) \subseteq Pack /\ \A pack \in Get(id) : pack[1] = id
    <3>1. <<id, x>> \in Pack /\ <<id, x>>[1] = id
      BY <1>4 DEF Pack
    <3> QED
      BY <2>3, <3>1
  <2>4. fs[id] # Nil => fs[id] \in Sources
    BY <1>2, <1>4 DEF TypeOK
  <2>5. registry[id] # Nil => registry[id].source \in Sources
    BY <1>2, <1>4 DEF TypeOK, MaterializeAssumption
  <2> HIDE DEF id
  <2>6. CASE registry[id] = Nil
    BY <2>1, <2>3, <2>4, <2>6
  <2>7. CASE registry[id] # Nil
    BY <2>2, <2>3, <2>5, <2>7
  <2> QED
    BY <2>6, <2>7
<1>6. /\ packs' = [packs EXCEPT ![c] = packs[c] \cup Get(id)]
      /\ complete' = [complete EXCEPT ![c] = complete[c] /\ ~Unresolved(id)]
      /\ tried' = [tried EXCEPT ![c] = tried[c] + 1]
      /\ UNCHANGED <<world, engines, created, joins, pc, req, def, row, promise, engine,
                     handle, count>>
  BY DEF Resolve
<1>7. TypeOK'
  <2>1. packs' \in [Calls -> SUBSET Pack] /\ tried' \in [Calls -> Nat]
    BY <1>2, <1>3, <1>5, <1>6 DEF TypeOK
  <2>2. complete' \in [Calls -> BOOLEAN]
    BY <1>2, <1>6 DEF TypeOK
  <2> QED
    BY <1>2, <1>6, <2>1, <2>2 DEF TypeOK, world, engines, joins
<1>8. CallInv(c)'
  <2>1. pc[c] = "resolve" /\ pc'[c] = "resolve"
    BY <1>6 DEF Resolve
  <2>2. RowInv(c)'
    BY <1>2, <1>6 DEF CallInv, RowInv, Known, joins
  <2>3. PackInv(c)'
    <3>1. packs'[c] = packs[c] \cup Get(id) /\ tried'[c] = tried[c] + 1
      BY <1>2, <1>6 DEF TypeOK
    <3>2. Prefix(c)' = Prefix(c) \cup {id}
      <4>1. 1 .. tried'[c] = (1 .. tried[c]) \cup {tried[c] + 1}
        BY <3>1, <1>3
      <4>2. def' = def
        BY <1>6
      <4>3. Prefix(c)' = {def[c].ext[i] : i \in (1 .. tried[c]) \cup {tried[c] + 1}}
        BY <4>1, <4>2 DEF Prefix
      <4>4. Prefix(c) = {def[c].ext[i] : i \in 1 .. tried[c]}
        BY DEF Prefix
      <4> DEFINE T == tried[c] + 1
                 S == 1 .. tried[c]
      <4>5. Prefix(c)' = {def[c].ext[i] : i \in S \cup {T}} /\ id = def[c].ext[T]
        BY <4>3
      <4>6. Prefix(c) = {def[c].ext[i] : i \in S}
        BY <4>4
      <4> HIDE DEF S, T, id
      <4> QED
        BY <4>5, <4>6
    <3>3. complete'[c] => complete[c] /\ Get(id) # {}
      BY <1>2, <1>6 DEF TypeOK, Unresolved
    <3>4. Get(id) # {} => PackIds(c)' = PackIds(c) \cup {id}
      BY <3>1, <1>5 DEF PackIds
    <3>5. complete'[c] => PackIds(c)' = Prefix(c)'
      BY <3>2, <3>3, <3>4, <2>1, <1>2 DEF CallInv, PackInv
    <3>6. tried'[c] <= Len(def'[c].ext) /\ def'[c] # Nil
      BY <3>1, <1>3, <1>6, <1>2, <2>1 DEF CallInv, PackInv
    <3> QED
      BY <3>5, <3>6, <2>1 DEF PackInv, Early, Opening
  <2>4. PromiseInv(c)' /\ GateInv(c)'
    BY <1>2, <1>6, <2>1 DEF CallInv, PromiseInv, GateInv, Early, Opening, engines
  <2> QED
    BY <2>2, <2>3, <2>4 DEF CallInv
<1> QED
  BY <1>1, <1>7, <1>8, OneCallMoves

LEMMA SelectKeeps ==
  ASSUME MaterializeAssumption, Inv, NEW c \in Calls, Select(c)
  PROVE  Inv'
<1> DEFINE k == EngineKind(c)
<1>1. TypeOK /\ CallInv(c) /\ JoinInv /\ LoadInv
  BY DEF Inv
<1>2. k \in Kinds
  BY <1>1, KindIsKnown DEF CallInv, PackInv, Select
<1>3. PICK p \in Promises :
        /\ promise' = [promise EXCEPT ![c] = p]
        /\ \/ cache[k] = p /\ UNCHANGED engines
           \/ /\ \A q \in Promises : cache[k] # q
              /\ loads[p].state = "none"
              /\ loads' = [loads EXCEPT ![p] = [kind |-> k, state |-> "pending"]]
              /\ cache' = [cache EXCEPT ![k] = p]
  BY DEF Select, Shared
<1>4. /\ pc[c] = "resolve" /\ tried[c] = Len(def[c].ext) /\ complete[c]
      /\ engine' = [engine EXCEPT ![c] = k]
      /\ pc' = [pc EXCEPT ![c] = "await"]
      /\ UNCHANGED <<world, created, joins, req, def, row, tried, packs, complete, handle, count>>
  BY DEF Select, Goto
<1>5. /\ loads \in [Promises -> [kind : Kinds \cup {Nil},
                       state : {"none", "pending", "ready", "failed", "forgotten"}]]
      /\ cache \in [Kinds -> 0 .. MaxLoads]
      /\ MaxLoads \in Nat /\ Promises = 1 .. MaxLoads
  BY <1>1 DEF TypeOK, MaterializeAssumption, Promises
<1>6. /\ loads' \in [Promises -> [kind : Kinds \cup {Nil},
                       state : {"none", "pending", "ready", "failed", "forgotten"}]]
      /\ cache' \in [Kinds -> 0 .. MaxLoads]
  <2>1. CASE UNCHANGED engines
    BY <2>1, <1>5 DEF engines
  <2>2. CASE /\ loads' = [loads EXCEPT ![p] = [kind |-> k, state |-> "pending"]]
             /\ cache' = [cache EXCEPT ![k] = p]
    BY <2>2, <1>2, <1>5
  <2> QED
    BY <1>3, <2>1, <2>2
<1>7. TypeOK'
  <2>1. /\ pc' \in [Calls -> {"idle", "lookup", "load", "pin", "resolve", "await", "open",
                             "record", "gate", "engaged", "dispose", "done", "failed"}]
        /\ promise' \in [Calls -> 0 .. MaxLoads]
        /\ engine' \in [Calls -> Kinds \cup {Nil}]
    BY <1>1, <1>2, <1>3, <1>4, <1>5 DEF TypeOK
  <2>2. \A b \in Calls : handle'[b] # Nil <=> pc'[b] \in {"record", "gate", "engaged", "dispose"}
    BY <1>1, <1>4 DEF TypeOK
  <2> QED
    BY <1>1, <1>4, <1>6, <2>1, <2>2 DEF TypeOK, world, joins
<1>8. LoadInv'
  <2>1. CASE UNCHANGED engines
    BY <2>1, <1>1 DEF LoadInv, engines
  <2>2. CASE /\ \A q \in Promises : cache[k] # q
             /\ loads[p].state = "none"
             /\ loads' = [loads EXCEPT ![p] = [kind |-> k, state |-> "pending"]]
             /\ cache' = [cache EXCEPT ![k] = p]
    <3>1. cache[k] = 0
      BY <2>2, <1>2, <1>5
    <3>2. /\ loads'[p] = [kind |-> k, state |-> "pending"] /\ cache'[k] = p
          /\ \A q \in Promises \ {p} : loads'[q] = loads[q]
          /\ \A j \in Kinds \ {k} : cache'[j] = cache[j]
      BY <2>2, <1>2, <1>5
    <3>3. ASSUME NEW j \in Kinds, cache'[j] # 0
          PROVE  loads'[cache'[j]].kind = j /\ loads'[cache'[j]].state \in Alive
      <4>1. CASE j = k
        BY <4>1, <3>2 DEF Alive
      <4>2. CASE j # k
        <5>1. cache'[j] = cache[j] /\ cache[j] \in Promises
          BY <4>2, <3>2, <3>3, <1>5
        <5>2. loads[cache[j]].kind = j /\ loads[cache[j]].state \in Alive
          BY <5>1, <3>3, <1>1 DEF LoadInv
        <5> QED
          BY <5>1, <5>2, <3>2, <2>2 DEF Alive
      <4> QED
        BY <4>1, <4>2
    <3>4. ASSUME NEW q \in Promises, loads'[q].state \in Alive
          PROVE  loads'[q].kind \in Kinds /\ cache'[loads'[q].kind] = q
      <4>1. CASE q = p
        BY <4>1, <3>2, <1>2
      <4>2. CASE q # p
        <5>1. loads'[q] = loads[q] /\ loads[q].kind \in Kinds /\ cache[loads[q].kind] = q
          BY <4>2, <3>2, <3>4, <1>1 DEF LoadInv
        <5>2. loads[q].kind # k
          BY <5>1, <3>1, <1>5
        <5> QED
          BY <5>1, <5>2, <3>2
      <4> QED
        BY <4>1, <4>2
    <3> QED
      BY <3>3, <3>4 DEF LoadInv
  <2> QED
    BY <1>3, <2>1, <2>2
<1>9. JoinInv' /\ Later
  <2>1. JoinInv'
    BY <1>1, <1>4 DEF JoinInv, Known, joins
  <2>2. \A q \in Promises :
          loads[q].state \in {"ready", "forgotten"} => loads'[q].state = loads[q].state
    BY <1>3, <1>5 DEF engines
  <2> QED
    BY <2>1, <2>2, <1>4 DEF Later, joins
<1>10. CallInv(c)'
  <2>1. pc'[c] = "await" /\ engine'[c] = k /\ promise'[c] = p
    BY <1>1, <1>3, <1>4 DEF TypeOK
  <2>2. PackIds(c)' = PackIds(c) /\ Prefix(c)' = Prefix(c) /\ EngineKind(c)' = EngineKind(c)
    BY <1>4 DEF PackIds, Prefix, EngineKind, PinnedEngine, Reenters
  <2>3. RowInv(c)'
    BY <2>1, <1>1, <1>4 DEF CallInv, RowInv, Known, joins
  <2>4. PackInv(c)'
    BY <2>1, <2>2, <1>1, <1>4 DEF CallInv, PackInv, Early, Opening
  <2>5. PromiseInv(c)' /\ GateInv(c)'
    BY <2>1 DEF PromiseInv, GateInv, Early, Opening
  <2> QED
    BY <2>3, <2>4, <2>5 DEF CallInv
<1>11. ASSUME NEW b \in Calls \ {c} PROVE CallInv(b)'
  <2>1. SameCall(b)
    BY <1>1, <1>3, <1>4 DEF SameCall, TypeOK
  <2> QED
    BY <2>1, <1>1, <1>9, OthersKeep DEF Inv
<1> QED
  BY <1>7, <1>8, <1>9, <1>10, <1>11 DEF Inv

(* The row of a run and its index are put together, and what any call       *)
(* found before stays recorded.                                             *)
LEMMA PutKeeps ==
  ASSUME MaterializeAssumption, Inv, NEW r \in Runs, NEW new \in Row, Put(r, new)
  PROVE  /\ JoinInv'
         /\ byRun' \in [Runs -> Row \cup {Nil}] /\ bySession' \in [Sessions -> Runs \cup {Nil}]
         /\ recorded' \in [Sessions -> SUBSET ((SUBSET Pack) \X Kinds)]
         /\ \A s \in Sessions : recorded[s] \subseteq recorded'[s]
<1>1. /\ TypeOK /\ JoinInv /\ new.session \in Sessions
      /\ <<new.packs, new.engine>> \in (SUBSET Pack) \X Kinds
  BY DEF Inv, Row
<1>2. /\ byRun' = [byRun EXCEPT ![r] = new]
      /\ bySession' = Index(r, new.session)
      /\ recorded' = [recorded EXCEPT ![new.session] =
                        recorded[new.session] \cup {<<new.packs, new.engine>>}]
  BY DEF Put
<1>3. recorded \in [Sessions -> SUBSET ((SUBSET Pack) \X Kinds)]
  BY <1>1 DEF TypeOK
<1>4. /\ recorded' \in [Sessions -> SUBSET ((SUBSET Pack) \X Kinds)]
      /\ \A s \in Sessions : recorded[s] \subseteq recorded'[s]
      /\ <<new.packs, new.engine>> \in recorded'[new.session]
  BY <1>1, <1>2, <1>3
<1>5. /\ byRun' \in [Runs -> Row \cup {Nil}] /\ byRun'[r] = new
      /\ \A q \in Runs \ {r} : byRun'[q] = byRun[q]
  BY <1>1, <1>2 DEF TypeOK
<1>6. /\ bySession' \in [Sessions -> Runs \cup {Nil}] /\ bySession'[new.session] = r
      /\ \A t \in Sessions \ {new.session} :
           bySession'[t] = IF byRun[r] # Nil /\ byRun[r].session = t THEN Nil ELSE bySession[t]
  BY <1>1, <1>2 DEF Index, TypeOK
<1>7. ASSUME NEW q \in Runs, byRun'[q] # Nil
      PROVE  Known(byRun[q])'
  <2>1. CASE q = r
    BY <2>1, <1>4, <1>5 DEF Known
  <2>2. CASE q # r
    <3>1. byRun'[q] = byRun[q] /\ Known(byRun[q]) /\ byRun[q] \in Row
      BY <2>2, <1>1, <1>5, <1>7, FoundRows
    <3>2. byRun[q].session \in Sessions
      BY <3>1 DEF Row
    <3> QED
      BY <3>1, <3>2, <1>4 DEF Known
  <2> QED
    BY <2>1, <2>2
<1>8. ASSUME NEW t \in Sessions, bySession'[t] # Nil
      PROVE  byRun'[bySession'[t]] # Nil /\ byRun'[bySession'[t]].session = t
  <2>1. new # Nil
    BY DEF MaterializeAssumption
  <2>2. CASE t = new.session
    BY <2>1, <2>2, <1>5, <1>6
  <2>3. CASE t # new.session
    <3>1. bySession'[t] = bySession[t] /\ ~(byRun[r] # Nil /\ byRun[r].session = t)
      BY <2>3, <1>6, <1>8
    <3>2. byRun[bySession[t]] # Nil /\ byRun[bySession[t]].session = t
      BY <3>1, <1>1, <1>8 DEF JoinInv
    <3>3. bySession[t] # r /\ bySession[t] \in Runs
      BY <3>1, <3>2, <1>1, <1>8 DEF TypeOK
    <3> QED
      BY <3>1, <3>2, <3>3, <1>5
  <2> QED
    BY <2>2, <2>3
<1> QED
  BY <1>4, <1>5, <1>6, <1>7, <1>8 DEF JoinInv

(* A leaf that puts its row, before it engages or when it parks. *)
LEMMA PuttingKeeps ==
  ASSUME MaterializeAssumption, Inv, NEW c \in Calls, NEW to \in {"engaged", "dispose"},
         pc[c] \in {"record", "engaged"}, req[c].verb = "leaf",
         Put(req[c].run, NewRow(c)), pc' = [pc EXCEPT ![c] = to],
         UNCHANGED <<world, engines, created, req, def, row, tried, packs, complete, promise,
                     engine, handle, count>>
  PROVE  Inv'
<1>1. TypeOK /\ CallInv(c) /\ LoadInv
  BY DEF Inv
<1>2. req[c].run \in Runs
  BY <1>1 DEF CallInv, RowInv, TypeOK
<1>3. NewRow(c) \in Row
  <2>1. handle[c] \in Sessions
    BY <1>1 DEF TypeOK
  <2>2. engine[c] \in Kinds
    BY <1>1, KindIsKnown DEF CallInv, PackInv, Opening
  <2>3. packs[c] \in SUBSET Pack
    BY <1>1 DEF TypeOK
  <2> QED
    BY <2>1, <2>2, <2>3 DEF NewRow, Row
<1>4. /\ JoinInv'
      /\ byRun' \in [Runs -> Row \cup {Nil}] /\ bySession' \in [Sessions -> Runs \cup {Nil}]
      /\ recorded' \in [Sessions -> SUBSET ((SUBSET Pack) \X Kinds)]
      /\ \A s \in Sessions : recorded[s] \subseteq recorded'[s]
  BY <1>2, <1>3, PutKeeps
<1>5. LoadInv' /\ Later
  BY <1>1, <1>4 DEF LoadInv, Later, engines
<1>6. TypeOK'
  <2>1. pc' \in [Calls -> {"idle", "lookup", "load", "pin", "resolve", "await", "open",
                          "record", "gate", "engaged", "dispose", "done", "failed"}]
    BY <1>1 DEF TypeOK
  <2>2. \A b \in Calls : handle'[b] # Nil <=> pc'[b] \in {"record", "gate", "engaged", "dispose"}
    BY <1>1 DEF TypeOK
  <2> QED
    BY <1>1, <1>4, <2>1, <2>2 DEF TypeOK, world, engines
<1>7. ASSUME NEW b \in Calls \ {c} PROVE CallInv(b)'
  <2>1. SameCall(b)
    BY <1>1 DEF SameCall, TypeOK
  <2> QED
    BY <2>1, <1>1, <1>5, OthersKeep DEF Inv
<1>8. CallInv(c)'
  <2>1. pc'[c] = to
    BY <1>1 DEF TypeOK
  <2>2. RowInv(c)'
    <3>1. row[c] # Nil => row[c].session \in Sessions
      BY <1>1 DEF TypeOK, Row
    <3> QED
      BY <2>1, <3>1, <1>1, <1>4 DEF CallInv, RowInv, Known
  <2>3. PackInv(c)'
    <3>1. PackIds(c)' = PackIds(c) /\ Prefix(c)' = Prefix(c) /\ EngineKind(c)' = EngineKind(c)
      BY DEF PackIds, Prefix, EngineKind, PinnedEngine, Reenters
    <3> QED
      BY <2>1, <3>1, <1>1 DEF CallInv, PackInv, Early, Opening
  <2>4. PromiseInv(c)'
    BY <2>1, <1>1 DEF CallInv, PromiseInv, Early, Opening, engines
  <2>5. GateInv(c)'
    BY DEF GateInv, Reenters
  <2> QED
    BY <2>2, <2>3, <2>4, <2>5 DEF CallInv
<1> QED
  BY <1>4, <1>5, <1>6, <1>7, <1>8 DEF Inv

LEMMA RecordKeeps ==
  ASSUME MaterializeAssumption, Inv, NEW c \in Calls, Record(c)
  PROVE  Inv'
<1>1. req[c].verb = "leaf"
  BY DEF Inv, CallInv, RowInv, Record
<1> QED
  BY <1>1, PuttingKeeps DEF Record, Goto

LEMMA EngageEndsKeeps ==
  ASSUME MaterializeAssumption, Inv, NEW c \in Calls, EngageEnds(c)
  PROVE  Inv'
<1>1. CASE req[c].verb = "leaf" /\ Put(req[c].run, NewRow(c))
  BY <1>1, PuttingKeeps DEF EngageEnds, Goto
<1>2. CASE UNCHANGED joins
  <2>1. TypeOK /\ CallInv(c)
    BY DEF Inv
  <2>2. /\ pc[c] = "engaged" /\ pc' = [pc EXCEPT ![c] = "dispose"]
        /\ UNCHANGED <<world, engines, created, req, def, row, tried, packs, complete, promise,
                       engine, handle, count>>
    BY DEF EngageEnds, Goto
  <2>3. TypeOK'
    BY <1>2, <2>1, <2>2 DEF TypeOK, world, engines, joins
  <2>4. \A b \in Calls \ {c} : SameCall(b)
    BY <2>1, <2>2 DEF SameCall, TypeOK
  <2>5. CallInv(c)'
    <3>1. PackIds(c)' = PackIds(c) /\ Prefix(c)' = Prefix(c) /\ EngineKind(c)' = EngineKind(c)
      BY <2>2 DEF PackIds, Prefix, EngineKind, PinnedEngine, Reenters
    <3>2. RowInv(c)' /\ PackInv(c)'
      BY <1>2, <2>1, <2>2, <3>1
      DEF CallInv, RowInv, PackInv, TypeOK, Known, joins, Early, Opening
    <3>3. PromiseInv(c)' /\ GateInv(c)'
      BY <2>1, <2>2 DEF CallInv, PromiseInv, GateInv, TypeOK, engines, Early, Opening
    <3> QED
      BY <3>2, <3>3 DEF CallInv
  <2> QED
    BY <1>2, <2>2, <2>3, <2>4, <2>5, OneCallMoves
<1> QED
  BY <1>1, <1>2 DEF EngageEnds

-----------------------------------------------------------------------------
(* The world around the calls. *)

LEMMA WorldKeeps ==
  ASSUME MaterializeAssumption, Inv,
         \/ \E d \in Definitions : Edit(d)
         \/ \E id \in Ids, artifact \in Artifacts : Publish(id, artifact)
  PROVE  Inv'
<1>1. UNCHANGED <<engines, created, joins, call, fs>>
  BY DEF Edit, Publish
<1>2. definition' \in Definitions /\ registry' \in [Ids -> Artifacts \cup {Nil}]
  <2>1. definition \in Definitions /\ registry \in [Ids -> Artifacts \cup {Nil}]
    BY DEF Inv, TypeOK
  <2>2. CASE \E d \in Definitions : Edit(d)
    BY <2>1, <2>2 DEF Edit
  <2>3. CASE \E id \in Ids, artifact \in Artifacts : Publish(id, artifact)
    BY <2>1, <2>3 DEF Publish
  <2> QED
    BY <2>2, <2>3
<1>3. count' \in [calls : Nat, edits : Nat, publishes : Nat]
  <2>1. count \in [calls : Nat, edits : Nat, publishes : Nat]
    BY DEF Inv, TypeOK
  <2>2. \/ count' = [count EXCEPT !.edits = count.edits + 1]
        \/ count' = [count EXCEPT !.publishes = count.publishes + 1]
    BY DEF Edit, Publish
  <2> QED
    BY <2>1, <2>2
<1>4. TypeOK'
  BY <1>1, <1>2, <1>3 DEF Inv, TypeOK, engines, joins, call
<1>5. JoinInv' /\ LoadInv' /\ Later
  BY <1>1 DEF Inv, JoinInv, LoadInv, Later, Known, engines, joins
<1> QED
  BY <1>1, <1>4, <1>5, NoCallMoves

LEMMA RegistryKeeps ==
  ASSUME MaterializeAssumption, Inv, NEW p \in Promises, RegistryStep(p)
  PROVE  Inv'
<1>1. TypeOK /\ LoadInv /\ JoinInv
  BY DEF Inv
<1>2. UNCHANGED <<world, created, joins, call, count>>
  BY DEF RegistryStep, EngineLoads, EngineFails, Forget
<1>3. /\ loads \in [Promises -> [kind : Kinds \cup {Nil},
                       state : {"none", "pending", "ready", "failed", "forgotten"}]]
      /\ cache \in [Kinds -> 0 .. MaxLoads]
      /\ MaxLoads \in Nat /\ Promises = 1 .. MaxLoads
  BY <1>1 DEF TypeOK, MaterializeAssumption, Promises
<1>4. loads[p].state \in Alive /\ loads[p].kind \in Kinds /\ cache[loads[p].kind] = p
  BY <1>1 DEF LoadInv, RegistryStep, EngineLoads, EngineFails, Forget, Alive
<1>5. PICK end \in {"ready", "failed", "forgotten"} :
        /\ loads' = [loads EXCEPT ![p].state = end]
        /\ loads[p].state = IF end = "forgotten" THEN "failed" ELSE "pending"
        /\ cache' = IF end = "forgotten" THEN [cache EXCEPT ![loads[p].kind] = 0] ELSE cache
  BY <1>4 DEF RegistryStep, EngineLoads, EngineFails, Forget, Remembered
<1>6. /\ loads'[p].state = end /\ loads'[p].kind = loads[p].kind
      /\ \A q \in Promises \ {p} : loads'[q] = loads[q]
      /\ \A k \in Kinds \ {loads[p].kind} : cache'[k] = cache[k]
      /\ cache'[loads[p].kind] = IF end = "forgotten" THEN 0 ELSE p
  BY <1>3, <1>4, <1>5
<1>7. TypeOK'
  <2>1. /\ loads' \in [Promises -> [kind : Kinds \cup {Nil},
                         state : {"none", "pending", "ready", "failed", "forgotten"}]]
        /\ cache' \in [Kinds -> 0 .. MaxLoads]
    <3>1. [loads[p] EXCEPT !.state = end]
            \in [kind : Kinds \cup {Nil}, state : {"none", "pending", "ready", "failed", "forgotten"}]
      <4>1. loads[p] \in [kind : Kinds \cup {Nil},
                          state : {"none", "pending", "ready", "failed", "forgotten"}]
        BY <1>3
      <4> QED
        BY <4>1
    <3>2. loads' = [loads EXCEPT ![p] = [loads[p] EXCEPT !.state = end]]
      BY <1>5
    <3>3. cache' \in [Kinds -> 0 .. MaxLoads]
      BY <1>3, <1>4, <1>5
    <3> QED
      BY <1>3, <3>1, <3>2, <3>3
  <2> QED
    BY <1>1, <1>2, <2>1 DEF TypeOK, world, joins, call
<1>8. LoadInv'
  <2>1. ASSUME NEW k \in Kinds, cache'[k] # 0
        PROVE  loads'[cache'[k]].kind = k /\ loads'[cache'[k]].state \in Alive
    <3>1. cache'[k] = cache[k] /\ cache[k] \in Promises
      BY <2>1, <1>3, <1>6, <1>4
    <3>2. loads[cache[k]].kind = k /\ loads[cache[k]].state \in Alive
      BY <2>1, <3>1, <1>1 DEF LoadInv
    <3>3. CASE cache[k] = p
      BY <3>1, <3>2, <3>3, <2>1, <1>6 DEF Alive
    <3>4. CASE cache[k] # p
      BY <3>1, <3>2, <3>4, <1>6
    <3> QED
      BY <3>3, <3>4
  <2>2. ASSUME NEW q \in Promises, loads'[q].state \in Alive
        PROVE  loads'[q].kind \in Kinds /\ cache'[loads'[q].kind] = q
    <3>1. CASE q = p
      BY <3>1, <2>2, <1>4, <1>6 DEF Alive
    <3>2. CASE q # p
      <4>1. loads'[q] = loads[q] /\ loads[q].kind \in Kinds /\ cache[loads[q].kind] = q
        BY <3>2, <2>2, <1>1, <1>6 DEF LoadInv
      <4>2. loads[q].kind # loads[p].kind
        BY <4>1, <3>2, <1>4
      <4> QED
        BY <4>1, <4>2, <1>6
    <3> QED
      BY <3>1, <3>2
  <2> QED
    BY <2>1, <2>2 DEF LoadInv
<1>9. JoinInv' /\ Later
  <2>1. JoinInv' /\ recorded' = recorded
    BY <1>1, <1>2 DEF JoinInv, Known, joins
  <2>2. \A q \in Promises :
          loads[q].state \in {"ready", "forgotten"} => loads'[q].state = loads[q].state
    BY <1>5, <1>6
  <2> QED
    BY <2>1, <2>2 DEF Later
<1> QED
  BY <1>2, <1>7, <1>8, <1>9, NoCallMoves

-----------------------------------------------------------------------------
LEMMA StepKeeps == ASSUME MaterializeAssumption, Inv, [Next]_vars PROVE Inv'
<1>1. CASE \E c \in Calls : CallStep(c)
  BY <1>1, LookupKeeps, LoadKeeps, PinKeeps, ResolveKeeps, SelectKeeps, IncompleteKeeps,
     AwaitKeeps, ResumeKeeps, OpenFailsKeeps, CreateKeeps, RecordKeeps, GateKeeps,
     EngageEndsKeeps, DisposeKeeps
  DEF CallStep
<1>2. CASE \E c \in Calls : Return(c)
  BY <1>2, ReturnKeeps
<1>3. CASE \E c \in Calls, q \in Requests : Begin(c, q)
  BY <1>3, BeginKeeps
<1>4. CASE \E p \in Promises : RegistryStep(p)
  BY <1>4, RegistryKeeps
<1>5. CASE \/ \E d \in Definitions : Edit(d)
           \/ \E id \in Ids, artifact \in Artifacts : Publish(id, artifact)
  BY <1>5, WorldKeeps
<1>6. CASE UNCHANGED vars
  <2>1. TypeOK' /\ JoinInv' /\ LoadInv' /\ Later
    BY <1>6 DEF Inv, TypeOK, JoinInv, LoadInv, Later, Known, vars, world, engines, joins, call
  <2> QED
    BY <1>6, <2>1, NoCallMoves DEF vars
<1> QED
  BY <1>1, <1>2, <1>3, <1>4, <1>5, <1>6 DEF Next

LEMMA InvAlways == Spec => []Inv
BY InitEstablishes, StepKeeps, MaterializeAssumption, PTL DEF Spec

(* Every variable keeps its type, and a call holds a session exactly while  *)
(* it records, engages or disposes of it (the finally blocks around         *)
(* DefaultPresenceFactory.materialize).                                     *)
THEOREM MaterializeTypeCorrectness == Spec => []TypeOK
<1>1. Inv => TypeOK
  BY DEF Inv
<1> QED
  BY <1>1, InvAlways, PTL

(* A reenter under the default policy engages only the packs its caller     *)
(* expects or, when it expects none, packs and an engine a leaf recorded    *)
(* together for the session: the row it found was recorded for the session  *)
(* it names, the gate compares the packs, and the engine kind is the row's  *)
(* unless the call names one (mediation.reenter, reenterFromJoin).          *)
THEOREM ReentersAddNothing == Spec => []SnapshotReentersAddNothing
<1>1. ASSUME Inv PROVE SnapshotReentersAddNothing
  <2> SUFFICES ASSUME NEW c \in Calls, pc[c] = "engaged", Reenters(req[c]),
                      req[c].policy = "snapshot"
               PROVE  /\ req[c].expect # Nil => packs[c] = req[c].expect
                      /\ req[c].expect = Nil \/ req[c].verb = "reenterFromJoin" =>
                           \E known \in recorded[req[c].session] :
                             /\ req[c].expect = Nil => known[1] = packs[c]
                             /\ req[c].engine = Nil => known[2] = engine[c]
    BY DEF SnapshotReentersAddNothing
  <2>1. CallInv(c) /\ TypeOK
    BY <1>1 DEF Inv
  <2>2. Baseline(c) # Nil /\ Baseline(c) = packs[c]
    BY <2>1 DEF CallInv, GateInv, PassesGate, SameSnapshot
  <2>3. req[c].expect # Nil => packs[c] = req[c].expect
    BY <2>2 DEF Baseline
  <2>4. ASSUME req[c].expect = Nil \/ req[c].verb = "reenterFromJoin"
        PROVE  \E known \in recorded[req[c].session] :
                 /\ req[c].expect = Nil => known[1] = packs[c]
                 /\ req[c].engine = Nil => known[2] = engine[c]
    <3>1. row[c] # Nil
      BY <2>1, <2>2, <2>4 DEF CallInv, RowInv, Baseline
    <3>2. /\ row[c].session = req[c].session
          /\ <<row[c].packs, row[c].engine>> \in recorded[req[c].session]
      BY <2>1, <3>1 DEF CallInv, RowInv, Known
    <3>3. row[c].engine \in Kinds
      BY <2>1, <3>1 DEF TypeOK, Row
    <3>4. req[c].engine = Nil => engine[c] = row[c].engine
      BY <2>1, <3>1, <3>3, MaterializeAssumption
      DEF CallInv, PackInv, Opening, EngineKind, PinnedEngine, FirstOf
    <3>5. req[c].expect = Nil => row[c].packs = packs[c]
      BY <2>2, <3>1 DEF Baseline
    <3> QED
      BY <3>2, <3>4, <3>5
  <2> QED
    BY <2>3, <2>4
<1> QED
  BY <1>1, InvAlways, PTL

(* A session is opened with a pack for every extension of the definition    *)
(* the call has loaded (DefaultPresenceFactory.materialize).                *)
THEOREM SessionsOpenAsDefined == Spec => []OpenedAsDefined
<1>1. ASSUME Inv PROVE OpenedAsDefined
  <2> SUFFICES ASSUME NEW c \in Calls, handle[c] # Nil
               PROVE  {pack[1] : pack \in packs[c]} = {def[c].ext[i] : i \in DOMAIN def[c].ext}
    BY DEF OpenedAsDefined
  <2>1. CallInv(c) /\ TypeOK /\ pc[c] \in {"record", "gate", "engaged", "dispose"}
    BY <1>1 DEF Inv, TypeOK
  <2>2. PackIds(c) = Prefix(c) /\ tried[c] = Len(def[c].ext) /\ def[c] # Nil
    BY <2>1 DEF CallInv, PackInv, Opening
  <2>3. def[c].ext \in Seq(Ids)
    BY <2>1, <2>2, MaterializeAssumption DEF TypeOK
  <2>4. DOMAIN def[c].ext = 1 .. tried[c]
    BY <2>2, <2>3
  <2> QED
    BY <2>2, <2>4 DEF PackIds, Prefix
<1> QED
  BY <1>1, InvAlways, PTL

(* No engine is loaded twice at a time, and a load that failed is not found *)
(* in the registry by whoever has seen it fail (createEngineRegistry).      *)
THEOREM LoadsAreShared == Spec => []LoadsAreSharedAndRetried
<1>1. ASSUME Inv PROVE LoadsAreSharedAndRetried
  <2>1. LoadInv /\ TypeOK
    BY <1>1 DEF Inv
  <2>2. ASSUME NEW p \in Promises, NEW q \in Promises, loads[p].kind = loads[q].kind,
               {loads[p].state, loads[q].state} \subseteq {"pending", "ready"}
        PROVE  p = q
    BY <2>1, <2>2 DEF LoadInv, Alive
  <2>3. ASSUME NEW c \in Calls, pc[c] = "failed", engine[c] # Nil,
               loads[promise[c]].state # "ready", NEW k \in Kinds
        PROVE  cache[k] # promise[c]
    <3>1. promise[c] \in Promises /\ loads[promise[c]].state = "forgotten"
      BY <1>1, <2>3 DEF Inv, CallInv, PromiseInv
    <3>2. promise[c] # 0
      BY <3>1, MaterializeAssumption DEF Promises
    <3> QED
      BY <2>1, <3>1, <3>2 DEF LoadInv, Alive
  <2> QED
    BY <2>2, <2>3 DEF LoadsAreSharedAndRetried
<1> QED
  BY <1>1, InvAlways, PTL
=============================================================================
