--------------------------- MODULE IntegrationPoints ---------------------------
(***************************************************************************)
(* The integration points of a trajectory (totg/trajectory.cpp): what the  *)
(* constructor and trajectory::create ask of points that are given.        *)
(* Points that are generated are not asked.                                *)
(***************************************************************************)
EXTENDS Integers, Sequences

Accepted(points, length) ==
  /\ Len(points) >= 2
  /\ points[1].time = 0
  /\ points[1].s = 0 /\ points[Len(points)].s = length
  /\ \A i \in 1..Len(points) : points[i].s \in 0..length
  /\ \A i, j \in 1..Len(points) : i < j => points[i].time < points[j].time /\ points[i].s <= points[j].s

=============================================================================
