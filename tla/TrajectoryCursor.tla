--------------------------- MODULE TrajectoryCursor ---------------------------
(***************************************************************************)
(* A cursor on a trajectory (totg/trajectory.cpp, trajectory::cursor): a   *)
(* time, a hint at the integration point that governs it, and a path       *)
(* cursor at the arc length reached by then.  What it samples must depend  *)
(* on the time alone, not on the seeks that led there.                     *)
(*                                                                         *)
(* Abstractions.  Times and arc lengths are integers and the arithmetic on *)
(* them is exact; accelerations are even, so that half of one is a unit.   *)
(***************************************************************************)
EXTENDS PathCursor, IntegrationPoints

CONSTANTS
  Points,    \* integration_points_
  Times,     \* arguments of seek
  Offsets    \* arguments of seek_by

N == Len(Points)
Duration == Points[N].time

\* Points may be given (Accepted), or generated (HandedOver of TrajectoryGeneration).
ASSUME TrajectoryAssumption ==
  /\ Points \in Seq([time : Nat, s : 0..Length, s_dot : Int, s_ddot : Int])
  /\ Accepted(Points, Length)
  /\ Times \subseteq Int
  /\ Offsets \subseteq Int

VARIABLES
  time,       \* time_
  time_hint,  \* time_hint_: an integration point
  sampled     \* the latest sample, if any

vars == <<pathVars, time, time_hint, sampled>>

NoSample == [time |-> -1]
InTime(t) == 0 <= t /\ t <= Duration
Governs(i, t) == Points[i].time <= t /\ (i < N => t < Points[i + 1].time)

Arc(i, t) ==
  LET p == Points[i]
      dt == t - p.time
  IN  p.s + p.s_dot * dt + (p.s_ddot * dt * dt) \div 2

\* The integration never runs backwards through the start of the path.
ASSUME ForwardAssumption ==
  \A i \in 1..N : \A t \in 0..Duration : Governs(i, t) => Arc(i, t) >= 0

\* The arc length at time t, extrapolated from point i and clamped to the path's end.
Reached(i, t) == IF Arc(i, t) < Length THEN Arc(i, t) ELSE Length

Init ==
  /\ PathInit
  /\ time = 0
  /\ time_hint = 1
  /\ sampled = NoSample

\* The last integration point whose time is not after t, by binary search.
PointSearched(t) == CHOOSE i \in 1..N :
  Points[i].time <= t /\ \A j \in 1..N : Points[j].time <= t => j <= i

\* The hint that seek leaves behind: the one it has, a neighbour, or by search.
NextPoint(t) ==
  IF Governs(time_hint, t) THEN time_hint
  ELSE IF time_hint < N /\ Governs(time_hint + 1, t) THEN time_hint + 1
  ELSE IF time_hint > 1 /\ Governs(time_hint - 1, t) THEN time_hint - 1
  ELSE PointSearched(t)

\* Fault: the path cursor follows the hint the seek started from.
seek_behind(t) ==
  /\ time' = IF t < 0 THEN -1 ELSE IF t > Duration THEN Duration + 1 ELSE t
  /\ IF InTime(t)
       THEN /\ time_hint' = NextPoint(t)
            /\ path_seek(Reached(time_hint, t))
       ELSE UNCHANGED <<time_hint, pathVars>>
  /\ UNCHANGED sampled

\* Out of bounds only the time is moved, to one of the two infinities.
seek(t) ==
  /\ time' = IF t < 0 THEN -1 ELSE IF t > Duration THEN Duration + 1 ELSE t
  /\ IF InTime(t)
       THEN /\ time_hint' = NextPoint(t)
            /\ path_seek(Reached(time_hint', t))
       ELSE UNCHANGED <<time_hint, pathVars>>
  /\ UNCHANGED sampled

seek_by(dt) == seek(IF InTime(time) THEN time + dt ELSE time)

\* The kinematic state at the hint's point, and the geometry at the path cursor.
SampleAt(i, t, s) ==
  [time |-> t,
   s |-> s,
   s_dot |-> Points[i].s_dot + Points[i].s_ddot * (t - Points[i].time),
   s_ddot |-> Points[i].s_ddot,
   geometry |-> [c \in Components |-> Evaluated(Searched(s), s)]]

sample ==
  /\ InTime(time)
  /\ Queried(Components)
  /\ sampled' = [SampleAt(time_hint, time, position) EXCEPT !.geometry = storage']
  /\ UNCHANGED <<position, hint, time, time_hint>>

\* Out of bounds it throws.
sample_throws ==
  /\ ~InTime(time)
  /\ sampled' = NoSample
  /\ UNCHANGED <<pathVars, time, time_hint>>

Next ==
  \/ \E t \in Times : seek(t)
  \/ \E dt \in Offsets : seek_by(dt)
  \/ sample
  \/ sample_throws

Spec == Init /\ [][Next]_vars

-----------------------------------------------------------------------------
(* Properties *)

\* The variables have their types; a sample in range never finds the path cursor
\* out of bounds.
TypeOK ==
  /\ PathTypeOK
  /\ time \in -1..Duration + 1
  /\ time_hint \in 1..N
  /\ InTime(time) => OnPath(position)

\* The hint is at the integration point a search would find, whichever of the short
\* cuts seek took (seek).
HintGoverns == InTime(time) => time_hint = PointSearched(time)

\* What trajectory::sample computes for time t, with a cursor made for it alone.
FreshSample(t) == SampleAt(PointSearched(t), t, Reached(PointSearched(t), t))

\* A sample is the one a fresh cursor would take at the same time: neither the two
\* hints nor the cached geometry carry anything over from earlier seeks and samples.
SampleIsFresh == sampled # NoSample => sampled = FreshSample(sampled.time)

=============================================================================
