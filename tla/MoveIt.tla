-------------------------------- MODULE MoveIt --------------------------------
(***************************************************************************)
(* The MoveIt front end: the response adapters                             *)
(* (moveit/totg/response_adapter.cpp), which read their parameters from a  *)
(* node for each request, and the time parameterization                    *)
(* (moveit/totg/time_parameterization.cpp), which replaces the planner's   *)
(* trajectory by a timed one, step by step, of which any may throw.        *)
(*                                                                         *)
(* Abstractions.  There are two joints; the first one wraps around.  A     *)
(* state is the two positions, what lies outside the group, and the time   *)
(* from the state before.  Of a generated trajectory (trajectory::create)  *)
(* the model keeps what it was made of and its duration, which is any of   *)
(* TravelTimes: how limits determine it is the subject of                  *)
(* TrajectoryGeneration.  Positions strictly between its ends are left     *)
(* out.  Both adapters have a deviation, a tolerance and a period.         *)
(* Scalings are in halves.  A behaviour is one request: between requests   *)
(* an adapter keeps nothing but its node.  Changes bounds how often a      *)
(* parameter is set meanwhile.                                             *)
(***************************************************************************)
EXTENDS WaypointUtils

CONSTANTS
  Requests,     \* requests: the planner's trajectory, the limits, the scalings
  Settings,     \* the values of the parameters that a node may have or get
  TravelTimes,  \* durations of generated trajectories
  Turn,         \* a full turn of the first joint
  Changes       \* how often parameters may be set during a request

kinds == {"velocity", "acceleration"}

ASSUME MoveItAssumption ==
  /\ Requests \subseteq
       [states : Seq([at : Int \X Int, other : Nat, wait : Nat]),
        grouped : BOOLEAN, present : BOOLEAN, scaling : [kinds -> Int],
        bounds : [1..2 -> [kinds -> {<<>>} \cup (Int \X Int)]],
        messages : Seq([joint : 1..2, velocity : Int, acceleration : Int])]
  /\ Settings \subseteq [{"deviation", "tolerance", "period"} -> Int]
  /\ TravelTimes \subseteq Nat \ {0}
  /\ Turn \in Nat \ {0}

VARIABLES
  node,      \* the adapter's node: none, alive or gone
  settings,  \* its parameters; 0 stands for one that is not declared
  request,   \* the request being served, or the latest one
  response,  \* its trajectory and its error code
  taken,     \* the parameters that have been read for it
  inforce,   \* the parameters that the node has had since it came, in order
  stage,     \* how far its trajectory has come
  timed,     \* the generated trajectory, and the state that samples are written into
  assembled  \* the states that are to replace the planner's

moveitVars == <<node, settings, request, response, taken, inforce, stage, timed, assembled>>
work == <<stage, timed, assembled>>

parameters == <<"deviation", "tolerance", "period">>
defaults == [deviation |-> 1, tolerance |-> 1, period |-> 3]

NoRequest == [states |-> <<>>, grouped |-> FALSE, present |-> FALSE]
NotTimed == [points |-> <<>>, limits |-> <<>>, duration |-> 0, other |-> 0]

MoveItInit ==
  /\ node = "none" /\ settings \in Settings
  /\ request = NoRequest /\ taken = <<>> /\ inforce = <<>>
  /\ response = [states |-> <<>>, error |-> "none"]
  /\ stage = "reading" /\ timed = NotTimed /\ assembled = <<>>

\* initialize: parameters that are not declared yet are declared with their defaults.
initialize ==
  /\ node = "none" /\ response.error = "none"
  /\ node' = "alive"
  /\ settings' = [p \in DOMAIN settings |-> IF settings[p] = 0 THEN defaults[p] ELSE settings[p]]
  /\ UNCHANGED <<request, response, taken, inforce, work>>

set_parameter ==
  /\ node = "alive" /\ response.error \in {"none", "pending"}
  /\ Len(inforce) <= Changes
  /\ \E values \in Settings, p \in DOMAIN settings :
       /\ values[p] # 0
       /\ settings' = [settings EXCEPT ![p] = values[p]]
  /\ inforce' = IF response.error = "pending" THEN Append(inforce, settings') ELSE <<>>
  /\ UNCHANGED <<node, request, response, taken, work>>

destroy_node ==
  /\ node = "alive" /\ response.error \in {"none", "pending"}
  /\ node' = "gone"
  /\ UNCHANGED <<settings, request, response, taken, inforce, work>>

\* A response without a path, and an adapter without a node, have their answer at once.
adapt ==
  /\ response.error = "none"
  /\ \E given \in Requests :
       /\ given.messages = <<>>
       /\ request' = given
       /\ response' = [states |-> given.states,
                       error |-> IF ~given.present THEN "INVALID_MOTION_PLAN"
                                 ELSE IF node # "alive" THEN "FAILURE" ELSE "pending"]
  /\ inforce' = <<settings>>
  /\ taken' = <<>>
  /\ UNCHANGED <<node, settings, work>>

\* A caller with a time parameterization and no adapter, who may give limits.
CalledDirectly ==
  /\ response.error = "none" /\ node = "none"
  /\ \E given \in Requests :
       /\ given.present
       /\ request' = given
       /\ response' = [states |-> given.states, error |-> "pending"]
  /\ inforce' = <<defaults>>
  /\ taken' = [k \in 1..Len(parameters) |-> defaults[parameters[k]]]
  /\ UNCHANGED <<node, settings, work>>

\* Fault: the values that were declared are used.
make_declared(reading) == Append(taken, defaults[reading])

\* make_ reads one parameter after the other, whatever is set in between; the node is
\* locked.
make(reading) == Append(taken, settings[reading])

ReadParameter ==
  /\ response.error = "pending" /\ Len(taken) < Len(parameters)
  /\ taken' = make(parameters[Len(taken) + 1])
  /\ UNCHANGED <<node, settings, request, response, inforce, work>>

-----------------------------------------------------------------------------
(* The time parameterization *)

Unlimited == -9

Usable(limit) == limit # Unlimited /\ limit >= 0

\* The limit from the messages, of which a later one replaces an earlier one, or from the
\* model's bounds.
given_limit(joint, kind) ==
  LET messages == request.messages
      of == {k \in 1..Len(messages) : messages[k].joint = joint /\ messages[k][kind] # Unlimited}
      bound == request.bounds[joint][kind]
  IN  IF of # {} THEN messages[Max(of)][kind]
      ELSE IF bound = <<>> THEN Unlimited ELSE Min({Size(bound[1]), Size(bound[2])})

verified_scaling_factor(kind) ==
  IF request.scaling[kind] \in 1..2 THEN request.scaling[kind] ELSE 2

\* Fault: each limit is scaled by the other's factor.
resolve_limit_swapped(joint, kind) ==
  given_limit(joint, kind) * verified_scaling_factor(IF kind = "velocity" THEN "acceleration" ELSE "velocity")

resolve_limit(joint, kind) == given_limit(joint, kind) * verified_scaling_factor(kind)

\* unwind: each position of the first joint is moved by full turns next to the one before.
unwind(states) ==
  LET near(last, position) == position + (Turn * ((2 * (last - position) + Turn) \div (2 * Turn)))
      unwound[k \in 1..Len(states)] ==
        IF k = 1 THEN states[1]
        ELSE [states[k] EXCEPT !.at = <<near(unwound[k - 1].at[1], @[1]), @[2]>>]
  IN  unwound

Respond(states, succeeded) ==
  response' = [states |-> states, error |-> IF succeeded THEN "SUCCESS" ELSE "FAILURE"]

Keeps(states) == response' = [response EXCEPT !.states = states]

\* The constructor's checks, and those of compute_ before it touches the trajectory.
Refused ==
  \/ taken[2] < 0 \/ taken[3] <= 0
  \/ /\ response.states # <<>>
     /\ \/ ~request.grouped
        \/ \E joint \in 1..2, kind \in kinds : ~Usable(given_limit(joint, kind))

\* compute_ up to unwind.
computeTimeStamps ==
  /\ response.error = "pending" /\ stage = "reading" /\ Len(taken) = Len(parameters)
  /\ \/ Refused /\ Respond(response.states, FALSE) /\ UNCHANGED stage
     \/ ~Refused /\ response.states = <<>> /\ Respond(<<>>, TRUE) /\ UNCHANGED stage
     \/ /\ ~Refused /\ response.states # <<>>
        /\ Keeps(unwind(response.states))
        /\ stage' = "unwound"
  /\ UNCHANGED <<node, settings, request, taken, inforce, timed, assembled>>

\* The trajectory that is created, with the state that its samples are written into.
Created(points, duration) ==
  [points |-> points, duration |-> duration, other |-> response.states[1].other,
   limits |-> [joint \in 1..2 |-> [kind \in kinds |-> resolve_limit(joint, kind)]]]

\* Fault: the planner's states are given up before the result is assembled.
InPlace_cleared == Keeps(<<>>)

\* While the result is assembled the planner's states stay where they are.
InPlace == UNCHANGED response

AtRest(state) == <<[state EXCEPT !.wait = 0]>>

\* compute_ from unwind to create: a plan that never moves is answered by its first state.
Generate ==
  /\ response.error = "pending" /\ stage = "unwound"
  /\ LET states == response.states
         unique == deduplicate_waypoints([k \in 1..Len(states) |-> states[k].at], taken[2])
     IN  \/ /\ Len(unique) < 2
            /\ assembled' = AtRest(states[1])
            /\ stage' = "assembled"
            /\ UNCHANGED <<response, timed>>
         \/ /\ Len(unique) >= 2 /\ taken[1] >= 0
            /\ \E duration \in TravelTimes : timed' = Created(unique, duration)
            /\ stage' = "sampling"
            /\ InPlace
            /\ UNCHANGED assembled
  /\ UNCHANGED <<node, settings, request, taken, inforce>>

\* The samples of a motion are spaced evenly, by at most a period.
Steps(period) == (timed.duration + period - 1) \div period
TimeOf(k, period) == ((k - 1) * timed.duration) \div Steps(period)

\* Sample k, with the time since the one before it.
Sample(k, period) ==
  [at |-> IF k = 1 THEN timed.points[1] ELSE IF k = Steps(period) + 1 THEN Last(timed.points) ELSE <<>>,
   other |-> timed.other,
   wait |-> IF k = 1 THEN 0 ELSE TimeOf(k, period) - TimeOf(k - 1, period)]

AssembleOne ==
  /\ response.error = "pending" /\ stage = "sampling"
  /\ assembled' = Append(assembled, Sample(Len(assembled) + 1, taken[3]))
  /\ stage' = IF Len(assembled') = Steps(taken[3]) + 1 THEN "assembled" ELSE stage
  /\ UNCHANGED <<node, settings, request, response, taken, inforce, timed>>

clear ==
  /\ response.error = "pending" /\ stage = "assembled"
  /\ Keeps(<<>>)
  /\ stage' = "adding"
  /\ UNCHANGED <<node, settings, request, taken, inforce, timed, assembled>>

\* The last one that is added makes the answer.
addSuffixWayPoint ==
  /\ response.error = "pending" /\ stage = "adding"
  /\ LET states == Append(response.states, assembled[Len(response.states) + 1])
     IN  IF Len(states) = Len(assembled) THEN Respond(states, TRUE) ELSE Keeps(states)
  /\ UNCHANGED <<node, settings, request, taken, inforce, work>>

\* Whatever throws, the caller is left with the trajectory as it is.
Throws ==
  /\ response.error = "pending"
  /\ Respond(response.states, FALSE)
  /\ UNCHANGED <<node, settings, request, taken, inforce, work>>

MoveItNext ==
  \/ initialize \/ set_parameter \/ destroy_node
  \/ adapt \/ CalledDirectly \/ ReadParameter
  \/ computeTimeStamps \/ Generate \/ AssembleOne \/ clear \/ addSuffixWayPoint \/ Throws

MoveItSpec == MoveItInit /\ [][MoveItNext]_moveitVars

-----------------------------------------------------------------------------
(* Properties *)

\* The same place, but for full turns of the first joint.
SamePlace(a, b) == (a[1] - b[1]) % Turn = 0 /\ a[2] = b[2]

\* The same states in the same order, but for full turns.
SameMotion(states, plan) ==
  /\ Len(states) = Len(plan)
  /\ \A k \in 1..Len(plan) :
       /\ SamePlace(states[k].at, plan[k].at)
       /\ [states[k] EXCEPT !.at = <<>>] = [plan[k] EXCEPT !.at = <<>>]

\* A request that fails leaves the planner's motion to the caller.  compute_ says so of
\* every failure after the limits are resolved; it fails of the ones after it has cleared
\* the trajectory.
FailureKeepsTheMotion ==
  response.error \in {"FAILURE", "INVALID_MOTION_PLAN"} => SameMotion(response.states, request.states)

Sum(numbers) ==
  LET sum[k \in 0..Len(numbers)] == IF k = 0 THEN 0 ELSE sum[k - 1] + numbers[k]
  IN  sum[Len(numbers)]

Duration(states) == Sum([k \in 1..Len(states) |-> states[k].wait])

\* A request that fails has the planner's motion, until all that is to replace it has been
\* assembled, from its first sample to the end of the timed motion; after that it has what
\* was already put in its place, and never a mix (compute_, which assembles before it
\* replaces).
PlanSurvivesUntilReplaced ==
  response.error \in {"FAILURE", "INVALID_MOTION_PLAN"} =>
    \/ SameMotion(response.states, request.states)
    \/ /\ Duration(assembled) = timed.duration
       /\ Len(response.states) < Len(assembled)
       /\ \A k \in 1..Len(response.states) : response.states[k] = assembled[k]

\* The larger of the ways of the two joints, the first of which goes the shorter way round.
Around(a, b) == LET ahead == (b - a) % Turn IN Min({ahead, Turn - ahead})
Way(a, b) == Max({Around(a[1], b[1]), Size(b[2] - a[2])})

\* What a joint may do, by the last message that names it, or else by both of its bounds.
Within(limit, joint, kind) ==
  LET named == {k \in 1..Len(request.messages) :
                  request.messages[k].joint = joint /\ request.messages[k][kind] # Unlimited}
      factor == IF request.scaling[kind] \in {1, 2} THEN request.scaling[kind] ELSE 2
  IN  IF named # {}
        THEN \E k \in named : (\A j \in named : j <= k) /\ limit = factor * request.messages[k][kind]
        ELSE \A i \in 1..2 : limit <= factor * Size(request.bounds[joint][kind][i])

\* A request that succeeds is timed: from where the plan starts to where it ends, in steps
\* of at most the period that was read for it and that add up to the duration of the
\* generated motion; along points that pass each state of the plan at the tolerance and
\* take no longer way than the shortest one around through them all, under the limits of
\* each joint; what lies outside the group stays.  A plan is one state only if it does not
\* leave the tolerance (compute_).
SuccessIsTimed ==
  response.error = "SUCCESS" /\ request.states # <<>> =>
    LET plan == request.states
        states == response.states
        points == timed.points
    IN  /\ states # <<>> /\ SamePlace(states[1].at, plan[1].at) /\ states[1].wait = 0
        /\ \A k \in 1..Len(states) : states[k].other = plan[1].other /\ states[k].wait \in 0..taken[3]
        /\ Duration(states) = timed.duration
        /\ Len(states) = 1 => \A k \in 1..Len(plan) : Way(plan[1].at, plan[k].at) <= taken[2]
        /\ Len(states) > 1 =>
             /\ SamePlace(Last(states).at, Last(plan).at)
             /\ \A k \in 1..Len(plan) : \E j \in 1..Len(points) : Way(points[j], plan[k].at) <= 2 * taken[2]
             /\ Sum([k \in 1..Len(points) - 1 |-> Linf(points[k], points[k + 1])])
                  <= Sum([k \in 1..Len(plan) - 1 |-> Way(plan[k].at, plan[k + 1].at)])
             /\ \A joint \in 1..2, kind \in kinds : Within(timed.limits[joint][kind], joint, kind)

\* What is read for a request may be parts of several settings, but each part of one that
\* was in force while the request was being served, and none older than the part before it
\* (make_, of a node that others set meanwhile).
SettingsReadInOrder ==
  \E from \in [1..Len(taken) -> 1..Len(inforce)] :
    /\ \A k \in 1..Len(taken) : taken[k] = inforce[from[k]][parameters[k]]
    /\ \A j, k \in 1..Len(taken) : j < k => from[j] <= from[k]

=============================================================================
