----------------------------- MODULE MCFrontEnds -----------------------------
(***************************************************************************)
(* The two front ends that are given waypoints and return timed motion.    *)
(*                                                                         *)
(* MlModel under each choice of generators and segmentation, with          *)
(* waypoints of two families: up to five along a line, some near           *)
(* duplicates, some calling for reversals, and up to four along a          *)
(* slightly bent one, from which colinearization drifts if it can.         *)
(*                                                                         *)
(* MoveIt with plans of up to three states, of which the first joint may   *)
(* wrap around, limits from the model and from messages, scalings in and   *)
(* out of range, and a node whose parameters start undeclared and change.  *)
(***************************************************************************)
EXTENDS MlModel, MoveIt

VARIABLE serving  \* which of the two front ends is used

MCLine == {<<0, 0>>, <<1, 0>>, <<2, 0>>, <<9, 0>>}
MCBend == {<<0, 0>>, <<3, 1>>, <<6, 0>>, <<9, -1>>}
MCInput == UNION {[1..n -> MCLine] : n \in 0..4}
             \cup {given \in [1..5 -> MCLine] : given[1] = <<9, 0>>}
             \cup UNION {[1..n -> MCBend] : n \in 2..4}

MCConfig == [generators : {{"totg"}, {"totg", "legacy"}}, segment_totg : {TRUE}]
              \cup [generators : {{"legacy", "totg"}, {"legacy"}}, segment_totg : {FALSE}]

MCTurn == 8
Spots == {<<0, 0>>, <<1, 0>>, <<7, 1>>, <<3, 4>>}

Plan(spots) == [k \in 1..Len(spots) |-> [at |-> spots[k], other |-> k % 2, wait |-> 1]]
Plans == {Plan(spots) : spots \in UNION {[1..n -> Spots] : n \in 0..3}}

Bounds(low, high) == [velocity |-> <<low, high>>, acceleration |-> <<-1, 1>>]
Message(joint, velocity) == [joint |-> joint, velocity |-> velocity, acceleration |-> Unlimited]

Asked(states, grouped, present, bounds, messages, scaling) ==
  [states |-> states, grouped |-> grouped, present |-> present, bounds |-> bounds,
   messages |-> messages, scaling |-> [velocity |-> scaling, acceleration |-> 2]]

Bounded == <<Bounds(-2, 1), Bounds(-1, 1)>>
Unbounded == <<[Bounds(-2, 1) EXCEPT !.velocity = <<>>], Bounds(-1, 1)>>
Still == <<Bounds(-2, 1), [Bounds(0, 1) EXCEPT !.acceleration = <<-3, 2>>]>>
Slide == Plan(<<<<0, 0>>, <<3, 0>>, <<7, 0>>>>)
Corner == Plan(<<<<0, 0>>, <<7, 1>>, <<3, 4>>>>)

MCRequests ==
  {Asked(plan, TRUE, TRUE, Bounded, <<>>, 2) : plan \in Plans}
    \cup {Asked(Corner, TRUE, TRUE, bounds, messages, scaling) :
            bounds \in {Bounded, Unbounded},
            messages \in {<<>>, <<Message(1, 2), Message(2, 1), Message(1, 1)>>, <<Message(1, -1)>>},
            scaling \in {0, 1, 3}}
    \cup {Asked(plan, TRUE, TRUE, bounds, <<>>, 2) : plan \in {Corner, Slide}, bounds \in {Still}}
    \cup {Asked(Corner, FALSE, TRUE, Bounded, <<>>, 2), Asked(<<>>, TRUE, FALSE, Bounded, <<>>, 2)}

Setting(deviation, tolerance, period) == [deviation |-> deviation, tolerance |-> tolerance, period |-> period]
MCSettings == {Setting(0, 0, 0), Setting(-1, 2, 2), Setting(1, -1, -1)}
MCTravelTimes == {1, 5}
MCChanges == 2

MCInit ==
  /\ Init /\ MoveItInit
  /\ serving \in {"mlmodel", "moveit"}
  /\ serving = "mlmodel" => settings = CHOOSE s \in Settings : TRUE
  /\ serving = "moveit" => config = CHOOSE c \in Config : TRUE

MCNext ==
  \/ serving = "mlmodel" /\ Next /\ UNCHANGED <<moveitVars, serving>>
  \/ serving = "moveit" /\ MoveItNext /\ UNCHANGED <<vars, serving>>

MCSpec == MCInit /\ [][MCNext]_<<vars, moveitVars, serving>>

=============================================================================
