--------------------------- MODULE DefinitionLoader ---------------------------
(***************************************************************************)
(* The loader of agent definitions (adapters/definition/yaml-definition-   *)
(* loader.ts) and the merge of the config layers (domain/config-layer.ts). *)
(*                                                                         *)
(* A definition is read from a chain of files: an optional root, families  *)
(* that extend one another, and the agent.  Every file is read at a step   *)
(* of its own, and somebody may edit the files between two steps.  A file  *)
(* is a record of the fields whose merge differs: later-wins scalars       *)
(* (model), capability fields (engine, ext), the mode of the tools, which  *)
(* has a top-level and a nested spelling, and the two references.          *)
(***************************************************************************)
EXTENDS Naturals, FiniteSets, SequencesExt

CONSTANTS
  Files,          \* the files that may be layers
  Agent,          \* agent.yaml in the directory of the agent
  Refs,           \* the references a file may make to another one
  FileOf,         \* the file a reference means in the directory of a file
  Contents,       \* what a file may hold
  Requests,       \* [rootRef, familyRef, rootConfig] of the loads asked for
  Nil,            \* a field that is absent
  Missing,        \* the content of a file that does not exist
  Broken,         \* not yaml, no mapping, against the schema, or a lost prompt
  MaxLayerDepth,  \* MAX_LAYER_DEPTH
  MaxEdits        \* bound: how often the files are edited

ASSUME FilesAssumption ==
  /\ Agent \in Files
  /\ FileOf \in [Files -> [Refs -> Files]]
  /\ Nil \notin Refs \cup Files
  /\ Requests \subseteq [rootRef    : Refs \cup {Nil}, familyRef : Refs \cup {Nil},
                         rootConfig : Refs \cup {Nil}]
  /\ MaxLayerDepth \in Nat /\ MaxEdits \in Nat

VARIABLES
  disk,    \* what each file holds
  edits,   \* how many edits there were
  load,    \* the load in progress
  before   \* history: the files when the load began

vars == <<disk, edits, load, before>>

-----------------------------------------------------------------------------
(* resolveLayerFile: a reference is resolved in the directory of the file  *)
(* that makes it; those of the request in the directory of the agent.      *)
LayerFile(from, ref) == FileOf[from][ref]

(* The first of two optional values that is there (??). *)
FirstOf(a, b) == IF a = Nil THEN b ELSE a

Readable(c) == c \notin {Missing, Broken}

(* What the schema lets through: a list of extensions, and references. *)
ASSUME ContentsAssumption ==
  \A f \in Files : \A c \in Contents[f] :
    Readable(c) => /\ c.ext \in Seq(ToSet(c.ext))
                   /\ {c.extends, c.root} \subseteq Refs \cup {Nil}

NotFound == [error |-> "DEFINITION_NOT_FOUND"]
Invalid  == [error |-> "DEFINITION_INVALID"]
Awaited  == [awaited |-> TRUE]

(* readLayerYaml refuses a file that is not there with another code than   *)
(* one that makes no sense.                                                *)
ReadError(c) == IF c = Missing THEN NotFound ELSE Invalid

Idle == [phase |-> "idle", opts |-> Nil, agent |-> Nil, base |-> <<>>,
         families |-> <<>>, visited |-> {}, next |-> Nil, result |-> Awaited]

-----------------------------------------------------------------------------
(* The merge of a chain of layers, base first. *)

(* orderedUniqueStrings *)
OrderedUnique(s) ==
  LET out[i \in 0 .. Len(s)] ==
        IF i = 0 THEN <<>>
        ELSE IF s[i] \in {s[j] : j \in 1 .. i - 1} THEN out[i - 1]
        ELSE Append(out[i - 1], s[i])
  IN out[Len(s)]

(* The later layer that declares a field wins. *)
LaterWins(layers, field) ==
  LET won[i \in 0 .. Len(layers)] ==
        IF i = 0 THEN Nil ELSE FirstOf(layers[i][field], won[i - 1])
  IN won[Len(layers)]

(* mergeCapabilitySpecs *)
Union(layers) == OrderedUnique(FlattenSeq([i \in DOMAIN layers |-> layers[i].ext]))

EffectiveSpec(layers) ==
  [ext    |-> Union(layers),
   engine |-> LaterWins(layers, "engine"),
   mode   |-> LaterWins(layers, "toolMode")]

(* mergeDefinitionLayers, then mapYamlToDefinition, which asks for a name  *)
(* and a model of the merged record and lets a top-level agent_mode of any *)
(* layer replace the nested one.                                           *)
Definition(layers) ==
  LET spec  == EffectiveSpec(layers)
      model == LaterWins(layers, "model")
      name  == \E i \in DOMAIN layers : layers[i].name
  IN IF name /\ model # Nil
     THEN [model |-> model, ext |-> spec.ext, engine |-> spec.engine,
           mode |-> FirstOf(LaterWins(layers, "mode"), spec.mode)]
     ELSE Invalid

-----------------------------------------------------------------------------
(* resolveLayerChain: one step per file that is read. *)

Failed(l, code) == [l EXCEPT !.phase = "failed", !.result = code]

Mut_Chain(l) == l.base \o l.families \o <<l.agent>>

(* The base first, then the families from the last one read back, then the *)
(* agent.                                                                  *)
Chain(l) == l.base \o Reverse(l.families) \o <<l.agent>>

Merged(l) ==
  LET d == Definition(Chain(l))
  IN IF d = Invalid THEN Failed(l, d)
     ELSE [l EXCEPT !.phase = "loaded", !.result = d]

(* The file of the next layer is refused if the load has visited it. *)
Revisits(l, file) == file \in l.visited

Visiting(l, phase, file) ==
  IF Revisits(l, file) THEN Failed(l, Invalid)
  ELSE [l EXCEPT !.phase = phase, !.next = file, !.visited = @ \cup {file}]

Mut_TooDeep(l) == Len(l.families) > MaxLayerDepth

TooDeep(l) == Len(l.families) >= MaxLayerDepth

(* The loop over the families: the next one, or the merge. *)
NextFamily(l, from, ref) ==
  IF ref = Nil THEN Merged(l)
  ELSE IF TooDeep(l) THEN Failed(l, Invalid)
  ELSE Visiting(l, "family", LayerFile(from, ref))

FirstFamily(l) == NextFamily(l, Agent, FirstOf(l.opts.familyRef, l.agent.extends))

(* The root is what the request says, or the agent, or the loader. *)
RootRef(l) == FirstOf(l.opts.rootRef, FirstOf(l.agent.root, l.opts.rootConfig))

AfterAgent(l) ==
  IF RootRef(l) = Nil THEN FirstFamily(l)
  ELSE Visiting(l, "root", LayerFile(Agent, RootRef(l)))

(* What the load is after it has read a file that holds c. *)
AfterRead(l, c) ==
  IF ~Readable(c) THEN Failed(l, ReadError(c))
  ELSE CASE l.phase = "agent"  -> AfterAgent([l EXCEPT !.agent = c])
         [] l.phase = "root"   -> FirstFamily([l EXCEPT !.base = <<c>>])
         [] l.phase = "family" ->
              NextFamily([l EXCEPT !.families = Append(@, c)], l.next, c.extends)

Reading(l) == l.phase \in {"agent", "root", "family"}

-----------------------------------------------------------------------------
Init ==
  /\ disk \in {d \in [Files -> UNION {Contents[f] : f \in Files}] :
                 \A f \in Files : d[f] \in Contents[f]}
  /\ edits = 0
  /\ load = Idle
  /\ before = disk

(* loadDefinition is called. *)
StartLoad(opts) ==
  /\ load.phase = "idle"
  /\ load' = [Idle EXCEPT !.phase = "agent", !.opts = opts, !.next = Agent,
                          !.visited = {Agent}]
  /\ before' = disk
  /\ UNCHANGED <<disk, edits>>

(* The next file of the chain is read. *)
ReadLayer ==
  /\ Reading(load)
  /\ load' = AfterRead(load, disk[load.next])
  /\ UNCHANGED <<disk, edits, before>>

(* Somebody writes, replaces or removes a file.  An edit before the load   *)
(* begins is another initial disk, one after its end changes nothing.      *)
Edit(f, c) ==
  /\ Reading(load) /\ edits < MaxEdits
  /\ c \in Contents[f] /\ c # disk[f]
  /\ disk' = [disk EXCEPT ![f] = c]
  /\ edits' = edits + 1
  /\ UNCHANGED <<load, before>>

Next ==
  \/ \E opts \in Requests : StartLoad(opts)
  \/ ReadLayer
  \/ \E f \in Files : \E c \in Contents[f] : Edit(f, c)

Spec == Init /\ [][Next]_vars

-----------------------------------------------------------------------------
(* What a load should give, as a statement about the files. *)

RootOf(d, opts) ==
  LET ref == FirstOf(opts.rootRef, FirstOf(d[Agent].root, opts.rootConfig))
  IN IF ref = Nil THEN Nil ELSE LayerFile(Agent, ref)

(* The file n references away from the agent, Nil if there is none. *)
FileAt(d, opts, n) ==
  LET at[i \in 0 .. n] ==
        IF i = 0 THEN Agent
        ELSE LET from == at[i - 1]
                 ref  == IF from = Nil \/ ~Readable(d[from]) THEN Nil
                         ELSE IF i = 1 THEN FirstOf(opts.familyRef, d[from].extends)
                         ELSE d[from].extends
             IN IF ref = Nil THEN Nil ELSE LayerFile(from, ref)
  IN at[n]

FamilyFiles(d, opts) == {FileAt(d, opts, i) : i \in 0 .. MaxLayerDepth} \ {Nil}

(* The files that extend one another are readable, each of them once, none *)
(* of them the root, and not too many.                                     *)
HasChain(d, opts) ==
  /\ Readable(d[Agent])
  /\ \A f \in FamilyFiles(d, opts) : Readable(d[f]) /\ f # RootOf(d, opts)
  /\ FileAt(d, opts, Cardinality(FamilyFiles(d, opts))) = Nil
  /\ RootOf(d, opts) # Nil => Readable(d[RootOf(d, opts)])

(* The layers of the definition, base first. *)
ChainOf(d, opts) ==
  LET n == Cardinality(FamilyFiles(d, opts))
  IN (IF RootOf(d, opts) = Nil THEN <<>> ELSE <<d[RootOf(d, opts)]>>)
       \o [i \in 1 .. n |-> d[FileAt(d, opts, n - i)]]

(* A field is that of the last layer that declares it. *)
LastDeclared(layers, field) ==
  LET declared == {i \in DOMAIN layers : layers[i][field] # Nil}
  IN IF declared = {} THEN Nil
     ELSE layers[CHOOSE i \in declared : \A j \in declared : j <= i][field]

(* x is first mentioned before y: by an earlier layer or earlier in one.   *)
Precedes(layers, x, y) ==
  \E i \in DOMAIN layers :
    /\ Contains(layers[i].ext, x)
    /\ \A j \in 1 .. i - 1 : ~Contains(layers[j].ext, y)
    /\ Contains(layers[i].ext, y) =>
         \E k \in DOMAIN layers[i].ext :
           layers[i].ext[k] = x /\ ~Contains(SubSeq(layers[i].ext, 1, k), y)

(* The extensions of the layers, each once, in the order of first mention. *)
IsUnion(layers, ext) ==
  /\ ToSet(ext) = UNION {ToSet(layers[i].ext) : i \in DOMAIN layers}
  /\ \A i, j \in DOMAIN ext : i < j => Precedes(layers, ext[i], ext[j])

Complete(layers) ==
  /\ LastDeclared(layers, "model") # Nil
  /\ \E i \in DOMAIN layers : layers[i].name

Describes(layers, r) ==
  LET mode == LastDeclared(layers, "mode")
  IN /\ r.model = LastDeclared(layers, "model")
     /\ r.engine = LastDeclared(layers, "engine")
     /\ r.mode = FirstOf(mode, LastDeclared(layers, "toolMode"))
     /\ IsUnion(layers, r.ext)

(* r is what a load of the files d has to answer. *)
Answers(d, opts, r) ==
  IF HasChain(d, opts)
  THEN \A layers \in {ChainOf(d, opts)} :
         IF Complete(layers) THEN r \notin {NotFound, Invalid} /\ Describes(layers, r)
         ELSE r = Invalid
  ELSE r \in {NotFound, Invalid}

-----------------------------------------------------------------------------
Ended == load.phase \in {"loaded", "failed"}

(* A load holds a root, at most MaxLayerDepth families and an agent, one   *)
(* for every file it has visited, and answers once it has ended.           *)
TypeOK ==
  /\ disk \in [Files -> UNION {Contents[f] : f \in Files}]
  /\ edits \in 0 .. MaxEdits
  /\ load.phase \in {"idle", "agent", "root", "family", "loaded", "failed"}
  /\ load.visited \subseteq Files
  /\ Reading(load) => load.next \in load.visited
  /\ Len(load.base) <= 1 /\ Len(load.families) <= MaxLayerDepth
  /\ load.phase = "loaded" => Len(Chain(load)) = Cardinality(load.visited)
  /\ Ended <=> load.result # Awaited

(* While at most one file is edited, what a load answers is the definition *)
(* of the files as they were when it began or as they are when it ends:    *)
(* although it reads the layers one at a time, it never mixes a layer of   *)
(* before the edit with one it would only have reached after it, fails     *)
(* exactly if the chain is broken, too deep or cyclic, and merges base     *)
(* first (resolveLayerChain, mergeDefinitionLayers).                       *)
OneEditIsSeenWhole ==
  Ended /\ edits <= 1 =>
    Answers(before, load.opts, load.result) \/ Answers(disk, load.opts, load.result)

=============================================================================
