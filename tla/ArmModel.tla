------------------------------- MODULE ArmModel -------------------------------
(***************************************************************************)
(* From a model of an arm to the joints of a kinematic chain               *)
(* (go/rdk/joints.go, JointsFromModel): the elements of the configuration, *)
(* its output frame, the walk up to the root and the walk back down, which *)
(* turns the poses of links into the origins of joints.                    *)
(*                                                                         *)
(* Abstractions.  A pose is a rigid transform as Kinematics has it.  A DH  *)
(* configuration is given as the joint and the link that each row expands  *)
(* to.  The model's own transforms and its list of moving joints are what  *)
(* the code expects of the library.                                        *)
(***************************************************************************)
EXTENDS Kinematics

CONSTANTS
  Models,  \* the models to convert
  Tools    \* poses of the tool in the output frame

VARIABLES
  model,   \* m, with its configuration
  tool,    \* tcp
  walk,    \* what the conversion does next: up, down, or done
  path,    \* the path from the root to the output frame, as far as it is known
  origin,  \* the transform from the last joint
  joints,  \* the joints made
  moving,  \* the names of the moving ones
  outcome  \* what is returned: the joints or an error

armVars == <<model, tool, walk, path, origin, joints, moving, outcome>>

NoPose == [rotation |-> identity, translation |-> zero3]

\* The links and joints of a configuration. Inputs have an entry for each moving joint.
Links == [id : STRING, parent : STRING, kind : {"link"}, pose : Poses]
ArmJoints ==
  [id : STRING, parent : STRING, kind : {"joint"}, type : STRING,
   axis : {a \in Vectors : Axial(a) /\ norm(a) # 0}, mimic : BOOLEAN]

ASSUME ArmAssumption ==
  /\ Tools \subseteq Poses
  /\ Models \subseteq
       [elements : Seq(Links \cup ArmJoints), outputs : Seq(STRING), moveable : Seq(STRING), configured : BOOLEAN]
  /\ \A m \in Models : Len(m.moveable) <= MaxJoints

Elements == {model.elements[k] : k \in 1..Len(model.elements)}
Ids == {e.id : e \in Elements}
element(id) == CHOOSE e \in Elements : e.id = id

Leaves == Ids \ {e.parent : e \in Elements}

\* The first configured output frame, or else the single leaf; a name that is not there
\* and a choice of leaves are refused.
outputFrameOf ==
  IF model.outputs # <<>> THEN {model.outputs[1]} \cap Ids
  ELSE {id \in Leaves : Leaves = {id}}

ArmInit ==
  /\ model \in Models /\ tool \in Tools
  /\ walk = "start" /\ path = <<>> /\ origin = NoPose
  /\ joints = <<>> /\ moving = <<>> /\ outcome = "none"

Fail(why) ==
  /\ walk' = "done" /\ outcome' = why
  /\ UNCHANGED <<model, tool, path, origin, joints, moving>>

\* The checks of the model and of its configuration.
JointsFromModel ==
  /\ walk = "start"
  /\ IF ~model.configured THEN Fail("no configuration")
     ELSE IF Cardinality(Ids) # Len(model.elements) THEN Fail("named twice")
     ELSE IF outputFrameOf = {} THEN Fail("no output frame")
     ELSE /\ walk' = "up"
          /\ path' = <<CHOOSE id \in outputFrameOf : TRUE>>
          /\ UNCHANGED <<model, tool, origin, joints, moving, outcome>>

\* One step to the parent of the frame reached, until it is no element.
ClimbUp ==
  /\ walk = "up"
  /\ LET parent == element(Head(path)).parent
     IN  IF parent \notin Ids
           THEN /\ walk' = "down"
                /\ UNCHANGED <<model, tool, path, origin, joints, moving, outcome>>
           ELSE IF \E k \in 1..Len(path) : path[k] = parent
             THEN Fail("cycle")
             ELSE /\ path' = <<parent>> \o path
                  /\ UNCHANGED <<model, tool, walk, origin, joints, moving, outcome>>

JointAt(kind, pose, axis) ==
  [kind |-> kind, translation |-> pose.translation, rotation |-> pose.rotation, norm |-> 1, axis |-> axis]

KindFor == [revolute |-> "rotating", prismatic |-> "translating"]

\* Fault: a link's pose is composed on the wrong side.
Carried_outside(pose) == compose(pose, origin.rotation, origin.translation)

\* A link extends the transform from the last joint.
Carried(pose) == compose(origin, pose.rotation, pose.translation)

\* The first element of the path that is left.
ClimbDown ==
  /\ walk = "down" /\ path # <<>>
  /\ LET e == element(Head(path))
     IN  IF e.kind = "link"
           THEN /\ origin' = Carried(e.pose)
                /\ path' = Tail(path)
                /\ UNCHANGED <<model, tool, walk, joints, moving, outcome>>
         ELSE IF e.mimic THEN Fail("mimic")
         ELSE IF e.type \notin DOMAIN KindFor THEN Fail("unsupported")
         ELSE /\ joints' = Append(joints, JointAt(KindFor[e.type], origin, e.axis))
              /\ moving' = Append(moving, e.id)
              /\ origin' = NoPose
              /\ path' = Tail(path)
              /\ UNCHANGED <<model, tool, walk, outcome>>

\* The tool, and the comparison with the model's own moving joints.
Conclude ==
  /\ walk = "down" /\ path = <<>>
  /\ joints' = Append(joints, JointAt("fixed", Carried(tool), zero3))
  /\ walk' = "done"
  /\ outcome' = IF moving = model.moveable THEN "joints" ELSE "other joints"
  /\ UNCHANGED <<model, tool, path, origin, moving>>

ArmNext == JointsFromModel \/ ClimbUp \/ ClimbDown \/ Conclude

ArmSpec == ArmInit /\ [][ArmNext]_armVars

-----------------------------------------------------------------------------
(* The model's own transforms *)

\* The input that the model takes for a joint.
InputOf(id, inputs) == inputs[CHOOSE k \in 1..Len(model.moveable) : model.moveable[k] = id]

\* The transform of a joint or a link from its parent.
Local(e, inputs) ==
  CASE e.kind = "link" -> e.pose
    [] e.kind = "joint" /\ e.type = "revolute" ->
         [NoPose EXCEPT !.rotation = axis_rotation(normalized(e.axis), InputOf(e.id, inputs))]
    [] e.kind = "joint" /\ e.type = "prismatic" ->
         [NoPose EXCEPT !.translation = by(InputOf(e.id, inputs), normalized(e.axis))]

\* The pose of a frame in the world, by way of its parents.
Transform(output, inputs) ==
  LET up[n \in 0..Len(model.elements)] ==
        IF n = 0 THEN [frame |-> output, pose |-> Local(element(output), inputs)]
        ELSE LET below == up[n - 1]
                 parent == element(below.frame).parent
             IN  IF parent \in Ids
                   THEN [frame |-> parent,
                         pose |-> compose(Local(element(parent), inputs), below.pose.rotation, below.pose.translation)]
                   ELSE below
  IN  up[Len(model.elements)].pose

Output == CHOOSE id \in outputFrameOf : TRUE
ToolOf(inputs) == LET end == Transform(Output, inputs) IN compose(end, tool.rotation, tool.translation)

\* Where the chain made of the joints has its end.
EndOfChain(made, inputs) ==
  LET end[i \in 0..Len(made)] ==
        IF i = 0 THEN NoPose
        ELSE LET joint == Derived(made[i])
                 value == IF Moves(joint) THEN inputs[dof(SubSeq(made, 1, i))] ELSE 0
             IN  Moved(compose(end[i - 1], joint.rotation, joint.translation), joint, value)
  IN  end[Len(made)]

\* With the inputs that drive the model, in the model's order, the chain has its end where
\* the model has the tool, however links and joints alternate; a model that cannot be
\* driven so does not become a chain (JointsFromModel).
ToolAgrees ==
  outcome = "joints" => \A inputs \in JointPositions : EndOfChain(joints, inputs) = ToolOf(inputs)

=============================================================================
