---------------------------- MODULE MCMaterialize ----------------------------
(* Materialize for TLC: two capabilities, one of which only a publish may   *)
(* provide, definitions that differ in extensions and engine, and every way *)
(* in: local, durable (first or resuming), reenter by session or by run,    *)
(* under both policies, with and without a snapshot the caller expects.     *)
EXTENDS Materialize, TLC

CONSTANTS s1, s2, r1, r2

MCDefinitions ==
  { [ext |-> <<"x">>, engine |-> Nil],
    [ext |-> <<"x", "y">>, engine |-> "prime"] }

MCFsLayouts == { [id \in Ids |-> IF id = "x" THEN "internal" ELSE Nil] }

MCArtifacts == { [source |-> "explicit", path |-> TRUE], [source |-> "explicit", path |-> FALSE] }

Req(verb, session, run, eng, policy) ==
  [verb |-> verb, session |-> session, run |-> run, engine |-> eng, policy |-> policy,
   expect |-> Nil]

Expecting(q, snapshot) == [q EXCEPT !.expect = snapshot]

MCRequests ==
  { Req("engage", Nil, Nil, Nil, "snapshot"),
    Req("leaf", Nil, r1, Nil, "snapshot"),
    Req("leaf", s1, r1, "pi", "snapshot"),
    Req("leaf", s1, r2, Nil, "snapshot"),
    Req("reenter", s1, Nil, Nil, "snapshot"),
    Req("reenter", s1, Nil, "prime", "latest"),
    Req("reenterFromJoin", Nil, r1, Nil, "snapshot"),
    Expecting(Req("reenter", s1, Nil, Nil, "snapshot"), {<<"x", "explicit">>}),
    Expecting(Req("reenterFromJoin", Nil, r1, Nil, "snapshot"), {<<"x", "explicit">>}) }

Symmetry == Permutations(Calls)
=============================================================================
