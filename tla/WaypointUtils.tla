----------------------------- MODULE WaypointUtils -----------------------------
(***************************************************************************)
(* What is done to waypoints before a path is made of them                 *)
(* (totg/waypoint_utils.cpp, totg/tools/legacy.cpp).  A waypoint is a pair *)
(* of integers, one per joint, and all tests are exact: a reversal is an   *)
(* angle of exactly 180 degrees, and distances are compared squared.       *)
(***************************************************************************)
EXTENDS Integers, SequencesExt

Diff(a, b) == <<b[1] - a[1], b[2] - a[2]>>
Dot(u, v) == u[1] * v[1] + u[2] * v[2]
Cross(u, v) == u[1] * v[2] - u[2] * v[1]
Size(x) == IF x < 0 THEN -x ELSE x
Linf(a, b) == IF Size(Diff(a, b)[1]) > Size(Diff(a, b)[2])
                THEN Size(Diff(a, b)[1]) ELSE Size(Diff(a, b)[2])

\* Fault: each waypoint is compared with its predecessor, kept or not.
DistinctFromPredecessor(waypoints, tolerance) ==
  LET far == {i \in 2..Len(waypoints) : Linf(waypoints[i - 1], waypoints[i]) > tolerance}
  IN  <<waypoints[1]>> \o [k \in 1..Len(SetToSortSeq(far, <)) |->
                             waypoints[SetToSortSeq(far, <)[k]]]

\* The waypoints that are farther than tolerance from the one kept before them.
Distinct(waypoints, tolerance) ==
  LET kept[i \in 1..Len(waypoints)] ==
        IF i = 1 THEN <<waypoints[1]>>
        ELSE LET before == kept[i - 1] IN
             IF Linf(Last(before), waypoints[i]) > tolerance
               THEN Append(before, waypoints[i]) ELSE before
  IN  kept[Len(waypoints)]

\* The last waypoint takes the place of the last one kept, unless all are one point.
deduplicate_waypoints(waypoints, tolerance) ==
  LET kept == Distinct(waypoints, tolerance) IN
  IF Len(kept) > 1 THEN Append(Front(kept), waypoints[Len(waypoints)]) ELSE kept

\* The motion turns back at b.  With no motion on either side the test is undefined
\* and comes out false.
Reverses(a, b, c) ==
  /\ Cross(Diff(a, b), Diff(b, c)) = 0
  /\ Dot(Diff(a, b), Diff(b, c)) < 0

\* Fault: a cusp ends its segment and does not start the next.
SplitBehind(segments, waypoints, i) ==
  Append(segments, <<waypoints[i + 1]>>)

\* A cusp both ends a segment and starts the next.
Split(segments, waypoints, i) == Append(segments, <<waypoints[i]>>)

segment_at_reversals(waypoints) ==
  LET Extended(segments, w) == Append(Front(segments), Append(Last(segments), w))
      Step(segments, i) ==
        IF i < Len(waypoints) /\ Reverses(waypoints[i - 1], waypoints[i], waypoints[i + 1])
          THEN Split(Extended(segments, waypoints[i]), waypoints, i)
          ELSE Extended(segments, waypoints[i])
      made[i \in 1..Len(waypoints)] ==
        IF i = 1 THEN << <<waypoints[1]>> >> ELSE Step(made[i - 1], i)
  IN  IF Len(waypoints) < 3 THEN <<waypoints>> ELSE made[Len(waypoints)]

\* point lies in the cylinder of diameter tolerance around the line, between its ends.
within_colinearization_tolerance(point, start, end, tolerance) ==
  LET line == Diff(start, end)
      along == Dot(Diff(start, point), line)
  IN  /\ line # <<0, 0>>
      /\ 0 <= along /\ along <= Dot(line, line)
      /\ 4 * Cross(Diff(start, point), line) * Cross(Diff(start, point), line)
           <= tolerance * tolerance * Dot(line, line)

\* Fault: what has been skipped is not tested against the longer line.
OnlyLocusFits(waypoints, anchor, locus, tolerance) ==
  within_colinearization_tolerance(waypoints[locus], waypoints[anchor],
                                   waypoints[locus + 1], tolerance)

\* The line from anchor may pass locus by: it and all skipped before it stay close.
CylinderExtends(waypoints, anchor, locus, tolerance) ==
  \A k \in anchor + 1..locus :
    within_colinearization_tolerance(waypoints[k], waypoints[anchor],
                                     waypoints[locus + 1], tolerance)

\* Indexes of the waypoints that colinearization keeps.
ColinearKept(waypoints, tolerance) ==
  LET Step(kept, locus) ==
        IF locus < Len(waypoints) /\ CylinderExtends(waypoints, Last(kept), locus, tolerance)
          THEN kept ELSE Append(kept, locus)
      indexes[i \in 1..Len(waypoints)] == IF i = 1 THEN <<1>> ELSE Step(indexes[i - 1], i)
  IN  IF Len(waypoints) <= 2 \/ tolerance <= 0
        THEN [i \in 1..Len(waypoints) |-> i]
        ELSE indexes[Len(waypoints)]

apply_colinearization(waypoints, tolerance) ==
  LET kept == ColinearKept(waypoints, tolerance) IN
  [k \in 1..Len(kept) |-> waypoints[kept[k]]]

=============================================================================
