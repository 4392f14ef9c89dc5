------------------------------ MODULE MCGeometry ------------------------------
(***************************************************************************)
(* The geometry under a trajectory: the store whose views path::create     *)
(* reads, or path::create, or a path cursor on its own, or a trajectory    *)
(* cursor with the path cursor inside it, or a kinematic chain, or the     *)
(* conversion of an arm's model to a chain; or the observers that are told *)
(* of a trajectory being generated.                                        *)
(*                                                                         *)
(* The store has chunks of two rows, rows of two widths and room for three *)
(* chunks, so that appends cross chunk boundaries, truncations leave empty *)
(* chunks behind, and an emptied store is refilled at another width.       *)
(*                                                                         *)
(* The builder is given every path of two to four steps out of eight:      *)
(* along both axes in both directions, two diagonal detours and one that   *)
(* stays put.  The options coalesce or not, and blend with a deviation     *)
(* that leaves room between blends, with one that only half a segment      *)
(* limits, under a least curvature, under a greatest, and with options     *)
(* that are refused.                                                       *)
(*                                                                         *)
(* The cursors are on a path of four segments of one, two, one and three   *)
(* units, so that seeks fall on boundaries, skip segments in both          *)
(* directions and leave the path on either side.  The trajectory has five  *)
(* integration points: speeding up, cruising, slowing down, and a step at  *)
(* the very end whose extrapolation overshoots the path and is clamped.    *)
(*                                                                         *)
(* Chains have up to four joints out of four that turn, slide and stay,    *)
(* with origins that turn their axes, and two that are refused.  Arms are  *)
(* every row of four links and joints out of four, driven as they should   *)
(* be or with the inputs swapped, and one for each thing that can be wrong.*)
(*                                                                         *)
(* There are two observers and room for a third, generations of up to five *)
(* events, and two more nested in the first.  An observer that is told of  *)
(* a failure only returns.                                                 *)
(***************************************************************************)
EXTENDS PathBuilder, TrajectoryCursor, ArmModel, WaypointStore, Observers, SequencesExt

CONSTANTS a, b, z, p1, p2, p3

VARIABLE used  \* what is used

Steps == {<<1, 0>>, <<2, 0>>, <<-1, 0>>, <<0, 1>>, <<0, -2>>, <<1, 1>>, <<1, -1>>, <<0, 0>>}

Route(steps) == FoldLeft(LAMBDA walked, step : Append(walked, Plus(walked[Len(walked)], step)), <<<<0, 0>>>>, steps)

MCInputs == UNION {{Route(steps) : steps \in [1..n -> Steps]} : n \in {0, 2, 4}}

Option(linear, deviation_trim, min_trim, max_trim) ==
  [linear |-> linear, deviation_trim |-> deviation_trim, min_trim |-> min_trim, max_trim |-> max_trim]

MCOptions == {Option(0, 100, 0, 100), Option(0, 3, 0, 100), Option(2, 100, 5, 6),
              Option(2, 0, 0, 100), Option(0, 100, 6, 5)}
MCResidues == -1..3

MCStart == <<0, 1, 3, 4>>
MCPositions == -2..9
MCDeltas == {-3, -1, 0, 1, 2}

MCPoints == <<
  [time |-> 0, s |-> 0, s_dot |-> 0, s_ddot |-> 2],
  [time |-> 1, s |-> 1, s_dot |-> 2, s_ddot |-> 0],
  [time |-> 3, s |-> 5, s_dot |-> 2, s_ddot |-> -2],
  [time |-> 4, s |-> 6, s_dot |-> 2, s_ddot |-> 0],
  [time |-> 6, s |-> 7, s_dot |-> 0, s_ddot |-> 0] >>

MCTimes == -1..7
MCOffsets == {-2, 1}

Joint(kind, translation, rotation, length, axis) ==
  [kind |-> kind, translation |-> translation, rotation |-> rotation, norm |-> length, axis |-> axis]

X == <<1, 0, 0>>
Y == <<0, 1, 0>>
Z == <<0, 0, 1>>

MCJointChoices == {
  Joint("fixed", <<1, 2, 0>>, axis_rotation(X, 1), 1, zero3),
  Joint("rotating", <<2, 0, 1>>, identity, 1, Z),
  Joint("rotating", <<0, 1, 0>>, axis_rotation(Z, 1), 3, <<-2, 0, 0>>),
  Joint("translating", <<1, 0, 0>>, axis_rotation(Y, 3), 1, <<0, 3, 0>>),
  Joint("rotating", X, identity, 0, Z),
  Joint("translating", X, identity, 1, zero3)}
MCJointPositions == {<<1, 2, 3, 1>>, <<2, 1, 1, -1>>}
MCJointRates == {<<<<1, 0>>, <<2, 1>>, <<-1, 2>>, <<3, -1>>>>, <<<<0, 0>>, <<1, 2>>, <<0, 1>>, <<-1, 0>>>>}

\* Elements of arms: links, joints, and a row of them, the last one first.
Link(id, parent, pose) == [id |-> id, parent |-> parent, kind |-> "link", pose |-> pose]
ArmJoint(id, parent, type, axis) ==
  [id |-> id, parent |-> parent, kind |-> "joint", type |-> type, axis |-> axis, mimic |-> FALSE]

Names == <<"base", "shoulder", "elbow", "wrist">>
ParentIn(k) == IF k = 1 THEN "world" ELSE Names[k - 1]
Parts(k) == {
  Link(Names[k], ParentIn(k), [rotation |-> axis_rotation(X, 1), translation |-> <<0, 2, 1>>]),
  Link(Names[k], ParentIn(k), [rotation |-> axis_rotation(Z, 3), translation |-> <<1, 0, 0>>]),
  ArmJoint(Names[k], ParentIn(k), "revolute", <<0, -2, 0>>),
  ArmJoint(Names[k], ParentIn(k), "prismatic", X)}

Arm(elements, outputs, moveable, configured) ==
  [elements |-> elements, outputs |-> outputs, moveable |-> moveable, configured |-> configured]

InOrder(elements) == LET joint(e) == e.kind = "joint" IN
  [k \in 1..Len(SelectSeq(elements, joint)) |-> SelectSeq(elements, joint)[k].id]

Rows == {<<e, f, g, h>> : e \in Parts(1), f \in Parts(2), g \in Parts(3), h \in Parts(4)}
Turn(k) == ArmJoint(Names[k], ParentIn(k), "revolute", Z)
Bar(id, parent) == Link(id, parent, [rotation |-> identity, translation |-> X])

MCModels ==
  {Arm(Reverse(row), <<>>, InOrder(row), TRUE) : row \in Rows}
    \cup {Arm(row, <<>>, Reverse(InOrder(row)), TRUE) : row \in {r \in Rows : Len(InOrder(r)) = 2}}
    \cup {
      Arm(<<Turn(1), Turn(2)>>, <<>>, <<Names[1], Names[2]>>, FALSE),
      Arm(<<Turn(1), Turn(1)>>, <<>>, <<Names[1]>>, TRUE),
      Arm(<<Turn(1), Bar("tip", "base"), Bar("hand", "base")>>, <<>>, <<Names[1]>>, TRUE),
      Arm(<<Turn(1), Bar("tip", "base"), Bar("hand", "base")>>, <<"hand">>, <<Names[1]>>, TRUE),
      Arm(<<Turn(1), Turn(2)>>, <<"base">>, <<Names[1], Names[2]>>, TRUE),
      Arm(<<Turn(1), Turn(2)>>, <<"gone">>, <<Names[1], Names[2]>>, TRUE),
      Arm(<<Bar("tip", "hand"), Bar("hand", "tip")>>, <<"tip">>, <<>>, TRUE),
      Arm(<<[Turn(1) EXCEPT !.mimic = TRUE]>>, <<>>, <<>>, TRUE),
      Arm(<<[Turn(1) EXCEPT !.type = "continuous"]>>, <<>>, <<Names[1]>>, TRUE)}

MCTools == {[rotation |-> axis_rotation(Y, 1), translation |-> <<0, 0, 3>>]}

MCRow == {a, b, z}
MCDof == [r \in MCRow |-> IF r = z THEN 7 ELSE 6]
MCBatch == {<<a>>, <<b, a>>, <<a, b, b>>, <<z, z>>}
MCAddress == {p1, p2, p3}

MCInit ==
  /\ StoreInit /\ BuildInit /\ Init /\ KinematicsInit /\ ArmInit /\ ObserversInit
  /\ used \in {"store", "create", "path cursor", "trajectory cursor", "chain", "arm", "observers"}
  /\ used # "create" => opts = CHOOSE o \in Options : TRUE
  /\ used # "arm" => model = CHOOSE m \in Models : TRUE

MCNext ==
  /\ \/ used = "store" /\ StoreNext /\ UNCHANGED <<buildVars, vars, kinematicsVars, armVars, observerVars>>
     \/ used = "create" /\ BuildNext /\ UNCHANGED <<storeVars, vars, kinematicsVars, armVars, observerVars>>
     \/ used = "path cursor" /\ PathNext
          /\ UNCHANGED <<storeVars, buildVars, time, time_hint, sampled, kinematicsVars, armVars, observerVars>>
     \/ used = "trajectory cursor" /\ Next /\ UNCHANGED <<storeVars, buildVars, kinematicsVars, armVars, observerVars>>
     \/ used = "chain" /\ KinematicsNext /\ UNCHANGED <<storeVars, buildVars, vars, armVars, observerVars>>
     \/ used = "arm" /\ ArmNext /\ UNCHANGED <<storeVars, buildVars, vars, kinematicsVars, observerVars>>
     \/ used = "observers" /\ ObserversNext
          /\ UNCHANGED <<storeVars, buildVars, vars, kinematicsVars, armVars>>
  /\ UNCHANGED used

MCSpec == MCInit /\ [][MCNext]_<<storeVars, buildVars, vars, kinematicsVars, armVars, observerVars, used>>

=============================================================================
