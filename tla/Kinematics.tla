------------------------------ MODULE Kinematics ------------------------------
(***************************************************************************)
(* A kinematic chain (kinematics/chain.cpp): its builder, the walk from    *)
(* the base that places the joints, the Jacobian, and the motion of a      *)
(* frame, with the workspace that is kept between calls; and the speed of  *)
(* the tool along a path (trajectory::tcp_limits).                         *)
(*                                                                         *)
(* Abstractions.  Numbers are integers.  A rotation is what it does to the *)
(* three axes, and joints turn by quarters.  A quaternion is its rotation  *)
(* and a norm, an axis is a multiple of a coordinate axis; norms that are  *)
(* not finite stand with those that are zero.  Speeds are squared.         *)
(***************************************************************************)
EXTENDS Integers, Sequences, FiniteSets

CONSTANTS
  JointChoices,  \* descriptions of joints given to the builder
  MaxJoints,     \* bound on the joints of a chain
  JointPositions, \* joint positions: sequences of MaxJoints entries
  Rates          \* pairs of joint velocity and acceleration: sequences of MaxJoints

VARIABLES
  described,  \* the builder's joints_
  chain,      \* the built chain's joints_, empty before
  workspace,  \* storage: joints_ and p_e_
  call,       \* the latest call and its arguments
  answer      \* what it returned or threw

kinematicsVars == <<described, chain, workspace, call, answer>>

-----------------------------------------------------------------------------
(* Vectors, rotations and rigid transforms *)

Vectors == Int \X Int \X Int
zero3 == <<0, 0, 0>>
add(a, b) == <<a[1] + b[1], a[2] + b[2], a[3] + b[3]>>
by(n, a) == <<n * a[1], n * a[2], n * a[3]>>
sub(a, b) == add(a, by(-1, b))
dot(a, b) == a[1] * b[1] + a[2] * b[2] + a[3] * b[3]
cross(a, b) == <<a[2] * b[3] - a[3] * b[2], a[3] * b[1] - a[1] * b[3], a[1] * b[2] - a[2] * b[1]>>

identity == <<<<1, 0, 0>>, <<0, 1, 0>>, <<0, 0, 1>>>>
rotate(r, v) == add(by(v[1], r[1]), add(by(v[2], r[2]), by(v[3], r[3])))
multiply(r, s) == <<rotate(r, s[1]), rotate(r, s[2]), rotate(r, s[3])>>

\* A rotation by some quarter turns about a unit axis: what is across the axis turns.
axis_rotation(axis, quarters) ==
  LET cosine == CASE quarters % 4 = 0 -> 1 [] quarters % 4 = 2 -> -1 [] OTHER -> 0
      sine == CASE quarters % 4 = 1 -> 1 [] quarters % 4 = 3 -> -1 [] OTHER -> 0
      turned(v) == add(by(cosine, v), add(by(sine, cross(axis, v)), by((1 - cosine) * dot(axis, v), axis)))
  IN  <<turned(identity[1]), turned(identity[2]), turned(identity[3])>>

\* The rotations: each axis of the turned frame is across the two others.
Rotations ==
  {r \in Vectors \X Vectors \X Vectors :
     cross(r[1], r[2]) = r[3] /\ cross(r[2], r[3]) = r[1] /\ cross(r[3], r[1]) = r[2]}

\* Rigid transforms.
Poses == [rotation : Rotations, translation : Vectors]

compose(parent, rotation, translation) ==
  [rotation |-> multiply(parent.rotation, rotation),
   translation |-> add(parent.translation, rotate(parent.rotation, translation))]

-----------------------------------------------------------------------------
(* The builder *)

\* The length of a multiple of a coordinate axis.
norm(a) == LET size(n) == IF n < 0 THEN -n ELSE n IN size(a[1]) + size(a[2]) + size(a[3])
normalized(a) == <<a[1] \div norm(a), a[2] \div norm(a), a[3] \div norm(a)>>

Moves(joint) == joint.kind # "fixed"
dof(joints) == Cardinality({i \in 1..Len(joints) : Moves(joints[i])})

Refused(joint) == joint.norm = 0 \/ (Moves(joint) /\ norm(joint.axis) = 0)

\* A joint with its derived values.
Derived(joint) == IF Moves(joint) THEN [joint EXCEPT !.axis = normalized(joint.axis)] ELSE joint

\* A coordinate axis times a number.
Axial(a) == \E i \in 1..3 : \A k \in (1..3) \ {i} : a[k] = 0

ASSUME KinematicsAssumption ==
  /\ JointChoices \subseteq
       [kind : {"fixed", "rotating", "translating"}, translation : Vectors, rotation : Rotations,
        norm : Nat, axis : {a \in Vectors : Axial(a)}]
  /\ MaxJoints \in Nat
  /\ JointPositions \subseteq [1..MaxJoints -> Int]
  /\ Rates \subseteq [1..MaxJoints -> Int \X Int]

None == [kind |-> "none"]
Threw(what) == [kind |-> "threw", what |-> what]

KinematicsInit ==
  /\ described = <<>> /\ chain = <<>>
  /\ workspace = [joints |-> <<>>, p_e |-> zero3]
  /\ call = None /\ answer = None

extend ==
  /\ chain = <<>> /\ Len(described) < MaxJoints
  /\ \E joint \in JointChoices : described' = Append(described, joint)
  /\ call' = None /\ answer' = None
  /\ UNCHANGED <<chain, workspace>>

\* Validation names the first joint that is at fault. The builder gives up its joints.
build ==
  /\ chain = <<>>
  /\ call' = [kind |-> "build"]
  /\ LET faulty == {i \in 1..Len(described) : Refused(described[i])}
     IN  IF described = <<>> \/ faulty # {}
           THEN /\ answer' = Threw(IF described = <<>> THEN 0 ELSE CHOOSE i \in faulty : \A k \in faulty : i <= k)
                /\ UNCHANGED <<described, chain>>
           ELSE /\ chain' = [i \in 1..Len(described) |-> Derived(described[i])]
                /\ described' = <<>>
                /\ answer' = None
  /\ UNCHANGED workspace

-----------------------------------------------------------------------------
(* Evaluation *)

MovingBefore(i) == dof(SubSeq(chain, 1, i - 1))

\* What is kept of a joint, before its motion: its axis and its origin.
Captured(placed, joint) ==
  [axis |-> rotate(placed.rotation, joint.axis), position |-> placed.translation,
   translates |-> joint.kind = "translating"]

Moved(placed, joint, value) ==
  CASE joint.kind = "fixed" -> placed
    [] joint.kind = "translating" ->
         [placed EXCEPT !.translation = add(@, by(value, rotate(placed.rotation, joint.axis)))]
    [] joint.kind = "rotating" -> [placed EXCEPT !.rotation = multiply(@, axis_rotation(joint.axis, value))]

\* One joint of the walk.
Walked(state, joint, value) ==
  LET placed == compose(state.running, joint.rotation, joint.translation)
  IN  [running |-> Moved(placed, joint, value),
       joints |-> IF Moves(joint) THEN Append(state.joints, Captured(placed, joint)) ELSE state.joints]

\* The value of the joint with index i.
ValueFor(q, i) == IF Moves(chain[i]) THEN q[MovingBefore(i) + 1] ELSE 0

Walk(q, last, joints) ==
  LET walk[i \in 0..last] ==
        IF i = 0 THEN [running |-> [rotation |-> identity, translation |-> zero3], joints |-> joints]
        ELSE Walked(walk[i - 1], chain[i], ValueFor(q, i))
  IN  [joints |-> walk[last].joints, p_e |-> walk[last].running.translation]

\* Fault: a workspace that is filled for as many joints is used as it is.
update_chain_state_cached(q, last, storage) ==
  IF storage.joints # <<>> /\ Len(storage.joints) = MovingBefore(last + 1) THEN storage ELSE Walk(q, last, <<>>)

\* What the storage holds after a walk through joint `last`, whatever it held before.
update_chain_state(q, last, storage) == Walk(q, last, <<>>)

linear_column(joint, p_e) ==
  IF joint.translates THEN joint.axis ELSE cross(joint.axis, sub(p_e, joint.position))

Total(terms) ==
  LET total[i \in 0..Len(terms)] == IF i = 0 THEN zero3 ELSE add(total[i - 1], terms[i]) IN total[Len(terms)]

jacobian(storage) ==
  [i \in 1..Len(storage.joints) |->
     [linear |-> linear_column(storage.joints[i], storage.p_e),
      angular |-> IF storage.joints[i].translates THEN zero3 ELSE storage.joints[i].axis]]

\* One joint of the loop that differentiates the velocity v, from the base to the tip.
loop_step(p_e, v, state, joint, rate, acceleration) ==
  LET w == joint.axis
      wq == by(rate, w)
      dw == cross(state.omega, w)
      r == sub(p_e, joint.position)
      v_point == add(sub(cross(state.omega, joint.position), state.c), state.t)
      col == linear_column(joint, p_e)
      d_col == IF joint.translates THEN dw ELSE add(cross(dw, r), cross(w, sub(v, v_point)))
      turned == [state EXCEPT !.dv = add(@, add(by(rate, d_col), by(acceleration, col)))]
  IN  IF joint.translates THEN [turned EXCEPT !.t = add(@, wq)]
      ELSE [turned EXCEPT !.omega = add(@, wq), !.c = add(@, cross(wq, joint.position))]

Differentiated(storage, v, q_dot, q_ddot) ==
  LET loop[i \in 0..Len(storage.joints)] ==
        IF i = 0 THEN [dv |-> zero3, omega |-> zero3, c |-> zero3, t |-> zero3]
        ELSE loop_step(storage.p_e, v, loop[i - 1], storage.joints[i], q_dot[i], q_ddot[i])
  IN  loop[Len(storage.joints)].dv

FrameKinematics(storage, q_dot, q_ddot) ==
  LET v == Total([i \in 1..Len(storage.joints) |-> by(q_dot[i], linear_column(storage.joints[i], storage.p_e))])
  IN  [kind |-> "frame", position |-> storage.p_e, velocity |-> v,
       acceleration |-> Differentiated(storage, v, q_dot, q_ddot)]

\* The speed of the tool per arc velocity and its derivative; none where it rests.
SpeedAlongPath(frame) ==
  IF frame.velocity = zero3 THEN [kind |-> "nullopt"]
  ELSE [kind |-> "speed", squared |-> dot(frame.velocity, frame.velocity),
        along |-> dot(frame.velocity, frame.acceleration)]

\* Arguments with an entry for each moving joint.
Arguments == {<<SubSeq(q, 1, dof(chain)), SubSeq(rates, 1, dof(chain))>> : q \in JointPositions, rates \in Rates}

Called(kind, last, q, rates) ==
  call' = [kind |-> kind, last |-> last, q |-> q, rates |-> rates]

q_dot_of(rates) == [i \in DOMAIN rates |-> rates[i][1]]
q_ddot_of(rates) == [i \in DOMAIN rates |-> rates[i][2]]

\* With the caller's workspace, for a frame up to the last one; and the evaluator of the
\* tcp limits, which keeps a workspace too.
forward_kinematics(kind) ==
  /\ chain # <<>>
  /\ \E last \in IF kind = "tcp" THEN {Len(chain)} ELSE 1..Len(chain), arguments \in Arguments :
       LET q == arguments[1]
           rates == arguments[2]
           storage == update_chain_state(q, last, workspace)
           frame == FrameKinematics(storage, q_dot_of(rates), q_ddot_of(rates))
       IN  /\ Called(kind, last, q, rates)
           /\ workspace' = storage
           /\ answer' = IF kind = "tcp" THEN SpeedAlongPath(frame) ELSE frame
  /\ UNCHANGED <<described, chain>>

\* A frame past the end, or vectors of another size, before anything is touched.
forward_kinematics_refused ==
  /\ chain # <<>>
  /\ call' = [kind |-> "refused"] /\ answer' = Threw(0)
  /\ UNCHANGED <<described, chain, workspace>>

\* The Jacobians use a workspace of their own.
full_jacobian ==
  /\ chain # <<>>
  /\ \E arguments \in Arguments :
       /\ Called("jacobian", Len(chain), arguments[1], arguments[2])
       /\ answer' = [kind |-> "jacobian",
                     columns |-> jacobian(Walk(arguments[1], Len(chain), <<>>))]
  /\ UNCHANGED <<described, chain, workspace>>

KinematicsNext ==
  \/ extend \/ build
  \/ forward_kinematics("frame") \/ forward_kinematics("tcp")
  \/ forward_kinematics_refused \/ full_jacobian

KinematicsSpec == KinematicsInit /\ [][KinematicsNext]_kinematicsVars

-----------------------------------------------------------------------------
(* Properties *)

\* How a point that moves in the frame of joint i is seen from the frame before it: the
\* position, velocity, acceleration and spin of textbook relative motion.
SeenThrough(joint, value, rate, acceleration, m) ==
  LET axis == joint.axis
      turn(v) == rotate(axis_rotation(axis, value), v)
      moved ==
        CASE joint.kind = "fixed" -> m
          [] joint.kind = "translating" ->
               [p |-> add(m.p, by(value, axis)), v |-> add(m.v, by(rate, axis)),
                a |-> add(m.a, by(acceleration, axis)), spin |-> m.spin]
          [] joint.kind = "rotating" ->
               LET swing == cross(axis, turn(m.p)) IN
               [p |-> turn(m.p),
                v |-> add(turn(m.v), by(rate, swing)),
                a |-> add(turn(m.a), add(by(2 * rate, cross(axis, turn(m.v))),
                        add(by(acceleration, swing), by(rate * rate, cross(axis, swing))))),
                spin |-> add(turn(m.spin), by(rate, axis))]
      out(v) == rotate(joint.rotation, v)
  IN  [p |-> add(joint.translation, out(moved.p)), v |-> out(moved.v), a |-> out(moved.a), spin |-> out(moved.spin)]

Still == [p |-> zero3, v |-> zero3, a |-> zero3, spin |-> zero3]

\* The velocity and acceleration of the joint with index i.
RateOf(rates, i) == IF Moves(chain[i]) THEN rates[MovingBefore(i) + 1] ELSE <<0, 0>>

\* The motion of the frame of joint `last`, from the tip to the base.
Motion(last, q, rates) ==
  LET seen[n \in 0..last] ==
        IF n = 0 THEN Still
        ELSE LET i == last - n + 1 IN
             SeenThrough(chain[i], ValueFor(q, i), RateOf(rates, i)[1], RateOf(rates, i)[2], seen[n - 1])
  IN  seen[last]

\* The sum of what each joint adds, weighed by its velocity.
Weighed(rates, parts) == Total([i \in DOMAIN parts |-> by(rates[i][1], parts[i])])

\* An answer is what a motion says.
AnswerIs(m, rates) ==
  CASE answer.kind = "frame" -> answer.position = m.p /\ answer.velocity = m.v /\ answer.acceleration = m.a
    [] answer.kind = "jacobian" ->
         /\ Weighed(rates, [i \in 1..dof(chain) |-> answer.columns[i].linear]) = m.v
         /\ Weighed(rates, [i \in 1..dof(chain) |-> answer.columns[i].angular]) = m.spin
    [] answer.kind = "speed" -> answer.squared = dot(m.v, m.v) /\ answer.along = dot(m.v, m.a)
    [] answer.kind = "nullopt" -> m.v = zero3

\* The running sums of forward_kinematics, base to tip in world coordinates and through a
\* workspace with a past, give the motion that relative kinematics gives from tip to base,
\* at every frame; the Jacobian maps the rates to the same velocity and spin, and the tcp
\* evaluator has the speed of the same tool.
MotionAgrees ==
  answer.kind \in {"frame", "jacobian", "speed", "nullopt"} =>
    AnswerIs(Motion(call.last, call.q, call.rates), call.rates)

=============================================================================
