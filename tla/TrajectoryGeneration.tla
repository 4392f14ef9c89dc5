------------------------- MODULE TrajectoryGeneration -------------------------
(***************************************************************************)
(* Time-optimal parameterization of a path (totg/trajectory.cpp,           *)
(* trajectory::create): forward integration in the phase plane until a     *)
(* limit curve is hit, a search for the next switching point, backward     *)
(* integration from there until it meets the forward points, and a splice; *)
(* again from the switching point, until one is the end of the path.       *)
(*                                                                         *)
(* Abstractions, beside those of SwitchingPoints.  Velocities are small    *)
(* integers.  A step of the integration goes to any velocity and as far as *)
(* Stride, within what quantization to segment ends leaves: accelerations  *)
(* are not computed, but the acceleration of a point is known by the point *)
(* it leads to.  A step takes one unit of time per unit of arc length.     *)
(* The bisection of a step that breaches a curve ends at neighbouring      *)
(* units.  Exceptions of the arithmetic may come at any step.              *)
(***************************************************************************)
EXTENDS SwitchingPoints, IntegrationPoints, SequencesExt

CONSTANTS
  Stride,  \* bound: the longest step of an integration
  Top      \* bound: the highest velocity of a step

ASSUME BoundsAssumption == Stride \in Nat \ {0} /\ Top \in Nat \ {0}

VARIABLES
  phase,     \* what runs next: "begin", "forward", "turn", "backward", "done" or "failed"
  where,     \* the switching point the forward pass started from
  points,    \* integration_points_
  duration,  \* duration_
  at,        \* current_point of the forward pass
  now,       \* its current_time
  first,     \* the forward pass has made no step yet
  backward,  \* backwards_points
  window,    \* forward_window: the index of its left point
  told,      \* the events the observer got since the last splice
  error      \* what was thrown

forwardVars == <<at, now, first>>
backwardVars == <<backward, window>>
generationVars == <<searchVars, phase, where, points, duration, forwardVars, backwardVars, told, error>>

\* Accelerations: that to a point, one given with a switching point, none.
To(p) == <<"to", p.s, p.s_dot>>
Given == <<"given">>
NaN == <<"nan">>

At(s, s_dot) == [s |-> s, s_dot |-> s_dot]
IntegrationPoint(time, p, s_ddot) == [time |-> time, s |-> p.s, s_dot |-> p.s_dot, s_ddot |-> s_ddot]

\* The time from one point to another that is reached from it.
Dt(p, q) == q.s - p.s

Moving(p, q) == p.s_dot + q.s_dot > 0
Between(a, b) == Smaller(a, b)..(a + b - Smaller(a, b))
Under(p) == p.s_dot <= Acc(p.s) /\ p.s_dot <= Vel(p.s)

k_path_begin == Point(0, 0, "path_begin", FALSE)

GenerationInit ==
  /\ SearchInit
  /\ phase = "begin"
  /\ where = k_path_begin
  /\ points = <<>> /\ duration = 0
  /\ at = At(0, 0) /\ now = 0 /\ first = TRUE
  /\ backward = <<>> /\ window = 0
  /\ told = <<>> /\ error = "none"

Failed(reason) ==
  /\ phase' = "failed" /\ error' = reason
  /\ UNCHANGED <<searchVars, where, points, duration, forwardVars, backwardVars, told>>

-----------------------------------------------------------------------------
(* Forward integration *)

\* The switching point that backward integration left at the end is taken off again,
\* and its time kept.
BeginForward ==
  /\ phase = "begin"
  /\ phase' = "forward"
  /\ at' = At(where.s, where.s_dot) /\ first' = TRUE
  /\ IF points = <<>>
       THEN now' = 0 /\ UNCHANGED <<points, duration>>
       ELSE /\ now' = Last(points).time
            /\ points' = Front(points)
            /\ duration' = Last(Front(points)).time
  /\ UNCHANGED <<searchVars, where, backwardVars, told, error>>

\* Where a step may lead: at most to the end of the segment. The first one from an
\* extremum has the acceleration zero.
Candidates ==
  {c \in [s : at.s + 1..Smaller(at.s + Stride, path[SegmentAt(at.s)].end), s_dot : 0..Top] :
     /\ Moving(at, c)
     /\ first /\ where.kind = "nondifferentiable_extremum" => c.s_dot = at.s_dot}

\* The step crosses into a segment with another tangent.
Cornered(c) == SegmentAt(c.s) # SegmentAt(at.s) /\ path[SegmentAt(at.s)].corner

\* How the bisection of a step to c can end: the breach out of bounds, and the point
\* before it within.
Bisections(c) ==
  LET steps == [s : at.s + 1..c.s, s_dot : Between(at.s_dot, c.s_dot)] IN
  {nb \in ({at} \cup steps) \X steps :
     /\ ~Under(nb[2]) /\ nb[1].s = nb[2].s - 1
     /\ nb[1] = at \/ (Under(nb[1]) /\ Moving(at, nb[1]))}

\* The breach may be a real one: it is across a boundary, or the acceleration curve is
\* a sink, or the velocity curve a trap.
MayHit(n, b) ==
  \/ SegmentAt(b.s) # SegmentAt(at.s)
  \/ b.s_dot >= Acc(b.s)
  \/ Delta(n.s) > 0

\* It may be an overshoot, to be clamped to the lower curve: the violated acceleration
\* curve is a source and the velocity curve is not violated, or it can be left or followed.
MayClamp(n, b) ==
  /\ SegmentAt(b.s) = SegmentAt(at.s)
  /\ Delta(n.s) <= 0 \/ (b.s_dot >= Acc(b.s) /\ b.s_dot <= Vel(b.s))

\* Fault: an overshoot is clamped to the velocity curve alone.
ClampedToVel(b) == At(b.s, Vel(b.s))

Clamped(b) == At(b.s, Smaller(Acc(b.s), Vel(b.s)))

\* Points that a step without a limit hit can commit.
Commits ==
  {c \in Candidates : ~Cornered(c) /\ Under(c)} \cup
  UNION {{Clamped(nb[2]) : nb \in {x \in Bisections(c) : MayClamp(x[1], x[2])}} :
         c \in {c \in Candidates : ~Cornered(c) /\ ~Under(c)}}

\* Bisected steps that hit a limit.
Hits == UNION {{nb \in Bisections(c) : MayHit(nb[1], nb[2])} :
               c \in {c \in Candidates : ~Cornered(c) /\ ~Under(c)}}

Stepped(next) == Append(points, IntegrationPoint(now, at, To(next)))
SteppedTo(next) == Append(Stepped(next), IntegrationPoint(now + Dt(at, next), next, NaN))

\* Fault: the observer hears of the start of the pass with every step.
StartedAlways == Append(told, "forward")

\* The observer hears of the start of the pass once, with its first step.
Started == IF first THEN Append(told, "forward") ELSE told

Advance ==
  /\ phase = "forward"
  /\ \E next \in Commits :
       /\ next.s < Length
       /\ points' = Stepped(next)
       /\ at' = next /\ now' = now + Dt(at, next) /\ first' = FALSE
       /\ position' = next.s
  /\ told' = Started
  /\ UNCHANGED <<path, cache, found, phase, where, duration, backwardVars, error>>

ReachEnd ==
  /\ phase = "forward"
  /\ \E next \in Commits : next.s = Length /\ points' = SteppedTo(next)
  /\ position' = Length
  /\ found' = Point(Length, 0, "path_end", TRUE)
  /\ phase' = "turn"
  /\ told' = Started
  /\ UNCHANGED <<path, cache, where, duration, forwardVars, backwardVars, error>>

\* At a corner the limit is zero, whatever the step would have been.
HitCorner ==
  /\ phase = "forward"
  /\ \E next \in Candidates :
       /\ Cornered(next)
       /\ points' = SteppedTo(next)
       /\ position' = next.s
       /\ found' = Point(next.s, 0, "discontinuous_velocity_limit", FALSE)
  /\ phase' = "turn"
  /\ told' = Append(Started, "hit")
  /\ UNCHANGED <<path, cache, where, duration, forwardVars, backwardVars, error>>

HitLimit ==
  /\ phase = "forward"
  /\ \E nb \in Hits :
       /\ nb[1] # at
       /\ points' = SteppedTo(nb[1])
       /\ find_switching_point(nb[1].s)
  /\ phase' = "turn"
  /\ told' = Append(Started, "hit")
  /\ UNCHANGED <<path, where, duration, forwardVars, backwardVars, error>>

\* The limit is too close for any progress.
HitAtOnce ==
  /\ phase = "forward"
  /\ \E nb \in Hits : nb[1] = at
  /\ points' = Append(points, IntegrationPoint(now, at, NaN))
  /\ find_switching_point(at.s)
  /\ phase' = "turn"
  /\ told' = Append(Started, "hit")
  /\ UNCHANGED <<path, where, duration, forwardVars, backwardVars, error>>

ForwardFails == phase = "forward" /\ Failed("forward step")

-----------------------------------------------------------------------------
(* Backward integration *)

\* Fault: no progress from one switching point to the next goes unnoticed.
TurnAnyway ==
  /\ phase = "turn"
  /\ IF Len(points) < 2 THEN Failed("no forward trajectory")
     ELSE /\ phase' = "backward"
          /\ backward' = <<IntegrationPoint(0, found, IF found.forward THEN Given ELSE NaN)>>
          /\ window' = Len(points) - 1
          /\ told' = Append(told, "backward")
          /\ UNCHANGED <<searchVars, where, points, duration, forwardVars, error>>

\* ensure_progress, and the entry of integrate_backwards_from. The times of backward
\* points are those to their right neighbours until they are spliced.
Turn ==
  /\ phase = "turn"
  /\ IF found.s <= where.s THEN Failed("no progress")
     ELSE IF Len(points) < 2 THEN Failed("no forward trajectory")
     ELSE IF found.s <= points[1].s THEN Failed("at the beginning")
     ELSE IF found.s < Last(points).s THEN Failed("behind the forward points")
     ELSE /\ phase' = "backward"
          /\ backward' = <<IntegrationPoint(0, found, IF found.forward THEN Given ELSE NaN)>>
          /\ window' = Len(points) - 1
          /\ told' = Append(told, "backward")
          /\ UNCHANGED <<searchVars, where, points, duration, forwardVars, error>>

\* Where a backward step from p may lead: at least to the start of the segment, unless it
\* is there already. The first one from an extremum has the acceleration zero.
Predecessors(p) ==
  LET start == path[SegmentAt(p.s)].start
      lowest == IF p.s > start /\ p.s - Stride < start THEN start ELSE p.s - Stride
  IN  {c \in [s : lowest..p.s - 1, s_dot : 0..Top] :
         /\ Moving(p, c)
         /\ Len(backward) = 1 /\ found.kind = "nondifferentiable_extremum" => c.s_dot = p.s_dot}

\* next is above the line from point l to point r, both given with s_dot.
Above(next, l, r) ==
  (next.s_dot - l.s_dot) * (r.s - l.s) > (r.s_dot - l.s_dot) * (next.s - l.s)

\* The backward step ends over the forward segment from point j, above it.
MeetsInside(j, next) == next.s >= points[j].s /\ Above(next, points[j], points[j + 1])

\* The backward step goes on to the left of that segment, and passes above its left end.
MeetsAtLeft(j, next, current) ==
  /\ next.s < points[j].s /\ points[j].s < current.s
  /\ (current.s_dot - next.s_dot) * (points[j].s - next.s)
       > (points[j].s_dot - next.s_dot) * (current.s - next.s)

\* The sliding of the window stops at segment j.
Stops(j, next, current) ==
  \/ next.s >= points[j].s
  \/ MeetsAtLeft(j, next, current)
  \/ j = 1

\* Where it stops: the rightmost of these segments, from where the window is.
Slid(next, current) ==
  IF next.s >= points[window + 1].s THEN window
  ELSE CHOOSE j \in 1..window :
    Stops(j, next, current) /\ \A i \in j + 1..window : ~Stops(i, next, current)

Meets(j, next, current) ==
  /\ next.s < points[j + 1].s
  /\ MeetsInside(j, next) \/ MeetsAtLeft(j, next, current)

\* Fault: the times between backward points are not summed up.
RetimedFlat(t) ==
  LET reversed == Reverse(backward)
  IN  [i \in 1..Len(reversed) |->
         [reversed[i] EXCEPT !.time = IF i = 1 THEN t ELSE t + reversed[i - 1].time]]

\* Fault: the switching point itself is left out.
RetimedButLast(t) ==
  LET reversed == Reverse(Tail(backward))
      time[i \in 1..Len(reversed)] == IF i = 1 THEN t ELSE time[i - 1] + reversed[i - 1].time
  IN  [i \in 1..Len(reversed) |-> [reversed[i] EXCEPT !.time = time[i]]]

\* The backward points in order, with their times counted from t on.
Retimed(t) ==
  LET reversed == Reverse(backward)
      time[i \in 1..Len(reversed)] == IF i = 1 THEN t ELSE time[i - 1] + reversed[i - 1].time
  IN  [i \in 1..Len(reversed) |-> [reversed[i] EXCEPT !.time = time[i]]]

\* Fault: the last forward point keeps its acceleration.
SplicedAsIs(j) == SubSeq(points, 1, j) \o Retimed(points[j].time + Dt(points[j], Last(backward)))

\* The forward points up to point j, led on to the first backward point, and the
\* backward points.
Spliced(j) ==
  LET left == points[j]
      right == Last(backward)
  IN  Append(SubSeq(points, 1, j - 1), [left EXCEPT !.s_ddot = To(right)])
        \o Retimed(left.time + Dt(left, right))

\* The splice at point j, and the end of the trajectory if that was the last.
Splice(j) ==
  IF ~Moving(points[j], Last(backward)) THEN Failed("no velocity at the splice")
  ELSE IF Dt(points[j], Last(backward)) <= 0 THEN Failed("no time at the splice")
  ELSE /\ points' = Spliced(j)
       /\ duration' = Last(Spliced(j)).time
       /\ phase' = IF found.kind = "path_end" THEN "done" ELSE "begin"
       /\ where' = found
       /\ told' = <<>>
       /\ backward' = <<>> /\ window' = 0
       /\ UNCHANGED <<searchVars, forwardVars, error>>

StepBackward ==
  /\ phase = "backward"
  /\ LET current == Last(backward) IN
     \E next \in Predecessors(current) :
       LET j == Slid(next, current) IN
       IF next.s <= 0 THEN Failed("the beginning is reached")
       ELSE IF Meets(j, next, current) THEN Splice(j)
       ELSE IF ~Under(next) THEN Failed("above the limit curve")
       ELSE /\ backward' = Append(backward,
                 IntegrationPoint(Dt(next, current), next, To(current)))
            /\ window' = j
            /\ UNCHANGED <<searchVars, phase, where, points, duration, forwardVars, told, error>>

BackwardFails == phase = "backward" /\ Failed("backward step")

Ended == phase \in {"done", "failed"} /\ UNCHANGED generationVars

GenerationNext ==
  \/ BeginForward \/ Advance \/ ReachEnd \/ HitCorner \/ HitLimit \/ HitAtOnce \/ ForwardFails
  \/ Turn \/ StepBackward \/ BackwardFails
  \/ Ended

GenerationSpec == GenerationInit /\ [][GenerationNext]_generationVars
GenerationFairSpec == GenerationSpec /\ WF_generationVars(GenerationNext)

-----------------------------------------------------------------------------
(* Properties *)

\* However often the integration turned back and spliced, the points start at rest at the
\* start, go forward along the path, and their times are sums of the times between them;
\* so is the time a forward pass resumes from (current_time, the splice).
TimesAddUp ==
  /\ points # <<>> => points[1].s = 0 /\ points[1].s_dot = 0 /\ points[1].time = 0
  /\ \A i \in 1..Len(points) - 1 :
       /\ points[i].s < points[i + 1].s
       /\ points[i + 1].time = points[i].time + Dt(points[i], points[i + 1])
  /\ phase = "forward" =>
       now = IF points = <<>> THEN 0 ELSE Last(points).time + Dt(Last(points), at)

\* Every point but the last carries the acceleration that leads to the next one, also where
\* a splice gave it a new neighbour: sampling interpolates with it.
AccelerationsLeadOn ==
  \A i \in 1..Len(points) - 1 : points[i].s_ddot = To(points[i + 1])

\* Every point that is kept is under both limit curves; what a forward pass hit is only
\* ever the last point, and a splice prunes it.
UnderTheCurves ==
  /\ \A i \in 1..Len(points) - 1 : Under(points[i])
  /\ phase \in {"begin", "done"} /\ points # <<>> => Under(Last(points))

\* A backward pass leaves the switching point at the end of the points, with another one
\* before it, and the duration is the time there: the next forward pass takes the last
\* point off and reads the one before (the assertions of current_time). When it is the
\* last pass, the trajectory ends at rest, and its points, which are not checked, would
\* pass the checks of points that are given.
HandedOver ==
  /\ phase \in {"begin", "done"} /\ points # <<>> =>
       /\ Len(points) >= 2
       /\ Last(points).s = where.s /\ Last(points).s_dot = where.s_dot
       /\ Last(points).s_ddot = IF where.forward THEN Given ELSE NaN
       /\ duration = Last(points).time
  /\ phase = "done" => Accepted(points, Length) /\ Last(points).s_dot = 0

\* The observer hears of the start of a pass, of at most one hit, of the turn, and of the
\* splice, in this order, before the next pass starts.
EventsInOrder ==
  /\ told \in {<<>>, <<"forward">>, <<"forward", "hit">>,
               <<"forward", "backward">>, <<"forward", "hit", "backward">>}
  /\ phase \in {"begin", "done"} => told = <<>>

\* Of the errors thrown for what would be a mistake of the algorithm, these three do not
\* happen: search, turn and splice keep ahead of the forward points.
NeverBehind ==
  error \notin {"at the beginning", "behind the forward points", "no time at the splice"}

\* The integration ends, whatever the limit curves make it do.
Ends == <>(phase \in {"done", "failed"})

\* The test "terminal_acceleration_finite": the last point of a trajectory has an
\* acceleration that is a number.
EndIsFinite == phase = "done" => Last(points).s_ddot # NaN

=============================================================================
