------------------------------ MODULE MCSession ------------------------------
(***************************************************************************)
(* Session on a small instance: two configurations of one arm and one of   *)
(* another, a period of two ticks, and trajectories of one to five ticks   *)
(* that share prefixes, diverge inside a step, and end early.              *)
(***************************************************************************)
EXTENDS Session

CONSTANTS a, b, z, up, flat, down, rest

MCWaypoint == {a, b, z}
MCDof == [w \in MCWaypoint |-> IF w = z THEN 7 ELSE 6]
MCBatch == {<<>>, <<a>>, <<b>>, <<a, b>>, <<b, a>>, <<a, a, b>>, <<z, z>>}
MCMotion == {up, flat, down, rest}

Pt(t, m) == [t |-> t, m |-> m]

MCTrajectory ==
  { <<Pt(0, up), Pt(1, rest)>>,
    <<Pt(0, up), Pt(1, down), Pt(2, rest)>>,
    <<Pt(0, up), Pt(2, down), Pt(3, rest)>>,
    <<Pt(0, up), Pt(1, flat), Pt(3, down), Pt(5, rest)>>,
    <<Pt(0, up), Pt(1, flat), Pt(2, down), Pt(5, rest)>> }

=============================================================================
