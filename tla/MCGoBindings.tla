----------------------------- MODULE MCGoBindings -----------------------------
(***************************************************************************)
(* GoBindings with waypoints of one motion that can be built, of one that  *)
(* cannot and of the wrong element type, a cap that needs a chain, and     *)
(* chains with a fixed joint, a joint that no constructor made and one     *)
(* that cannot be built.                                                   *)
(***************************************************************************)
EXTENDS GoBindings

MCKeys == {"waypoints", "rate", "cap"}

Scalar == [dtype |-> "f64", shape |-> <<1>>, data |-> 0]
Waypoints(dtype, data) == [dtype |-> dtype, shape |-> <<2, 1>>, data |-> data]

MCTensorsFor ==
  [k \in MCKeys |->
     CASE k = "waypoints" -> {Waypoints("f64", 1), Waypoints("f64", 0), Waypoints("i64", 1)}
       [] OTHER -> {Scalar}]

MCPrepared == [k \in {"limits", "tolerance"} |-> Scalar]

MCJointLists == {<<"fixed", "moving">>, <<"moving", "moving">>, <<"moving", "unset">>, <<"bad">>}

MCPrograms ==
  {{"maps", "generate", "chains"}, {"maps", "sessions"}, {"sessions", "chains", "builder"}, {"infer"}}

=============================================================================
