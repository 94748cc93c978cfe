------------------------ MODULE MCDefinitionLoader ------------------------
(* DefinitionLoader for TLC: an agent, three families that may extend one  *)
(* another or the agent, and the root config of the loader.  "up" is a     *)
(* relative path: it means another file in each directory.                 *)
EXTENDS DefinitionLoader

CONSTANTS a, f1, f2, f3

MCFiles == {a, f1, f2, f3}
MCRefs == {"a", "f1", "f2", "f3", "up"}

MCFileOf ==
  [f \in MCFiles |->
     [r \in MCRefs |->
        CASE r = "a" -> a [] r = "f1" -> f1 [] r = "f2" -> f2 [] r = "f3" -> f3
          [] r = "up" -> IF f = a THEN f2 ELSE f3]]

Layer(name, model, engine, ext, mode, toolMode, extends, root) ==
  [name |-> name, model |-> model, engine |-> engine, ext |-> ext, mode |-> mode,
   toolMode |-> toolMode, extends |-> extends, root |-> root]

MCContents ==
  [f \in MCFiles |->
    CASE f = a ->
           {Layer(TRUE, "m1", Nil, <<"x">>, Nil, "static", e, r) :
              e \in {Nil, "f1", "up", "a"}, r \in {Nil, "f1"}}
           \cup {Layer(FALSE, Nil, "prime", <<>>, Nil, Nil, "f1", Nil), Missing}
      [] f = f1 ->
           {Layer(TRUE, "m2", "pi", <<"y", "x">>, mode, Nil, e, Nil) :
              e \in {Nil, "f2", "a"}, mode \in {Nil, "dynamic"}}
           \cup {Broken}
      [] f = f2 ->
           {Layer(FALSE, Nil, "mock", <<"z", "y">>, Nil, "dynamic", e, "f1") :
              e \in {Nil, "up", "f1"}}
           \cup {Missing}
      [] f = f3 ->
           {Layer(FALSE, "m3", Nil, <<"z">>, "static", Nil, e, Nil) : e \in {Nil, "f1"}}]

MCRequests ==
  {[rootRef |-> r, familyRef |-> q, rootConfig |-> c] :
     r \in {Nil, "f3"}, q \in {Nil, "f2"}, c \in {Nil, "f2"}}
=============================================================================
