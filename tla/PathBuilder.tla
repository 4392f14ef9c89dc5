----------------------------- MODULE PathBuilder -----------------------------
(***************************************************************************)
(* path::create (totg/path.cpp): waypoints near a line are coalesced into  *)
(* it, then each corner becomes a circular blend or a hard stop, and the   *)
(* segments are laid out by arc length.  One step is one iteration of the  *)
(* coalescing loop or of the construction loop.                            *)
(*                                                                         *)
(* Abstractions.  Waypoints are points of the integer plane.  The tube     *)
(* test is exact.  Corners are blended where both segments lie along an    *)
(* axis, so that lengths are integers and a corner is straight, a reversal *)
(* or a right angle, whose tan(angle/2) is one: the deviation and the two  *)
(* curvature options are then the trims they allow, and the radius is the  *)
(* trim.  Lengths are counted in units of the last place, Unit of them to  *)
(* the unit of the plane; a quarter of a circle is taken for two radii.    *)
(* A distance measured from a blend's computed exit carries a residue.     *)
(***************************************************************************)
EXTENDS Integers, Sequences, FiniteSetsExt

CONSTANTS
  Inputs,    \* the sequences of waypoints given to create
  Options,   \* the path options: linear, deviation_trim, min_trim, max_trim
  Unit,      \* units of the last place in a unit of the plane; even
  Residues   \* what rounding may add to a distance from a blend's exit

\* Half a segment is a whole number of units, and rounding may be nothing; what it makes
\* too short to be emitted, less than two units, is no more than it may add.
ASSUME BuilderAssumption ==
  /\ Inputs \subseteq Seq(Int \X Int)
  /\ Options \subseteq [linear : Nat, deviation_trim : Nat, min_trim : Nat, max_trim : Nat]
  /\ Unit \in Nat \ {0} /\ Unit % 2 = 0
  /\ Residues \subseteq Int /\ 0 \in Residues
  /\ \E m \in Residues : \A r \in Residues : r <= m /\ 1 - r <= m

VARIABLES
  input,     \* waypoints
  opts,      \* the options of this path
  phase,     \* idle, coalescing, emitting, built or failed
  kept,      \* colinearized: indices into input
  locus,     \* index into kept of the corner at hand
  here,      \* current_position, and whether it is a blend's exit
  half,      \* previous_blend_takes_half_of_segment
  segments   \* segments: kind, start, length, and the points it joins

buildVars == <<input, opts, phase, kept, locus, here, half, segments>>

Minus(a, b) == <<a[1] - b[1], a[2] - b[2]>>
Plus(a, b) == <<a[1] + b[1], a[2] + b[2]>>
Scaled(k, a) == <<k * a[1], k * a[2]>>
Dot(a, b) == a[1] * b[1] + a[2] * b[2]
Sign(x) == IF x > 0 THEN 1 ELSE IF x < 0 THEN -1 ELSE 0
Direction(a) == <<Sign(a[1]), Sign(a[2])>>
AlongAxis(a) == a[1] = 0 \/ a[2] = 0
\* The length of a vector along an axis.
Norm(a) == Max({a[1], -a[1]}) + Max({a[2], -a[2]})

BuildInit ==
  /\ input = <<>> /\ opts \in Options /\ phase = "idle"
  /\ kept = <<>> /\ locus = 2 /\ here = [point |-> <<0, 0>>, exit |-> FALSE]
  /\ half = FALSE /\ segments = <<>>

Create ==
  /\ phase = "idle"
  /\ \E waypoints \in Inputs :
       /\ input' = waypoints
       /\ phase' = IF Len(waypoints) < 2 \/ opts.max_trim < opts.min_trim THEN "failed"
                   ELSE IF opts.linear > 0 THEN "coalescing" ELSE "emitting"
       /\ kept' = IF opts.linear > 0 THEN <<1>> ELSE [i \in 1..Len(waypoints) |-> i]
       /\ here' = [point |-> IF waypoints = <<>> THEN <<0, 0>> ELSE Scaled(Unit, waypoints[1]), exit |-> FALSE]
  /\ UNCHANGED <<opts, locus, half, segments>>

-----------------------------------------------------------------------------
(* Coalescing *)

\* locus_within_tolerance: between start and next, and within half the linear
\* deviation of the line.
locus_within_tolerance(start, next, point) ==
  LET line == Minus(next, start)
      to == Minus(point, start)
      dot == Dot(to, line)
      length_sq == Dot(line, line)
  IN  /\ 0 <= dot /\ dot <= length_sq
      /\ 4 * (Dot(to, to) * length_sq - dot * dot) <= opts.linear * opts.linear * length_sq

\* Fault: waypoints skipped earlier are not tested against the longer line.
Coalesces_latest(base, candidate) ==
  /\ candidate < Len(input)
  /\ input[base] # input[candidate + 1]
  /\ locus_within_tolerance(input[base], input[candidate + 1], input[candidate])

\* The candidate and all skipped before it lie along the line to the one after it.
Coalesces(base, candidate) ==
  /\ candidate < Len(input)
  /\ input[base] # input[candidate + 1]
  /\ \A k \in base + 1..candidate :
       locus_within_tolerance(input[base], input[candidate + 1], input[k])

\* One base of the coalescing loop: the first candidate that has to stay.
Coalesce ==
  /\ phase = "coalescing"
  /\ LET base == kept[Len(kept)]
     IN  IF base = Len(input)
           THEN phase' = "emitting" /\ UNCHANGED kept
           ELSE /\ kept' = Append(kept, Min({c \in base + 1..Len(input) : ~Coalesces(base, c)}))
                /\ UNCHANGED phase
  /\ UNCHANGED <<input, opts, locus, here, half, segments>>

-----------------------------------------------------------------------------
(* Construction *)

Corner(k) == input[kept[k]]
RightAngled == \A k \in 2..Len(kept) : AlongAxis(Minus(Corner(k), Corner(k - 1)))

NoBlend == [trim |-> 0, half_in |-> FALSE, half_out |-> FALSE]

\* try_create_blend, for the corner between two vectors.
try_create_blend(incoming, outgoing) ==
  LET in == Unit * Norm(incoming)
      out == Unit * Norm(outgoing)
      natural_trim == Min({in \div 2, out \div 2, opts.deviation_trim})
      trim == Min({natural_trim, opts.max_trim})
  IN  IF 0 \in {in, out, opts.deviation_trim} \/ Dot(incoming, outgoing) # 0 \/ natural_trim < opts.min_trim
        THEN NoBlend
        ELSE [trim |-> trim, half_in |-> trim = in \div 2, half_out |-> trim = out \div 2]

CumulativeLength ==
  IF segments = <<>> THEN 0 ELSE segments[Len(segments)].start + segments[Len(segments)].length

Segment(kind, start, length, from, to) ==
  [kind |-> kind, start |-> start, length |-> length, from |-> from, to |-> to]

\* Fault: nothing but the measured length decides whether a segment is left.
Consumed_measured(blend) == FALSE

\* Both blends of a segment take exactly half of it.
Consumed(blend) == half /\ blend.half_in

\* A corner with a blend: what is left of the incoming segment, if it has a position
\* inside it, and the arc.
EmitBlend ==
  /\ phase = "emitting" /\ locus < Len(kept) /\ RightAngled
  /\ LET incoming == Minus(Corner(locus), Corner(locus - 1))
         outgoing == Minus(Corner(locus + 1), Corner(locus))
         blend == try_create_blend(incoming, outgoing)
         corner == Scaled(Unit, Corner(locus))
         entry == Minus(corner, Scaled(blend.trim, Direction(incoming)))
         exit == Plus(corner, Scaled(blend.trim, Direction(outgoing)))
     IN  /\ blend # NoBlend
         /\ \E residue \in IF here.exit THEN Residues ELSE {0} :
              LET left == Norm(Minus(corner, here.point)) - blend.trim + residue
                  line == IF ~Consumed(blend) /\ left >= 2
                            THEN <<Segment("linear", CumulativeLength, left, here.point, entry)>> ELSE <<>>
                  start == CumulativeLength + (IF line = <<>> THEN 0 ELSE left)
              IN  segments' = segments \o line \o
                                <<Segment("circular", start, 2 * blend.trim, entry, exit)>>
         /\ here' = [point |-> exit, exit |-> TRUE]
         /\ half' = blend.half_out
  /\ locus' = locus + 1
  /\ UNCHANGED <<input, opts, phase, kept>>

HardStop ==
  IF locus = Len(kept) THEN TRUE
  ELSE try_create_blend(Minus(Corner(locus), Corner(locus - 1)),
                        Minus(Corner(locus + 1), Corner(locus))) = NoBlend

\* Fault: the mark of the blend before stays.
EmitLinear_marked ==
  /\ phase = "emitting" /\ locus <= Len(kept) /\ RightAngled /\ HardStop
  /\ LET to == Scaled(Unit, Corner(locus))
     IN  IF to = here.point
           THEN phase' = "failed" /\ UNCHANGED <<locus, here, half, segments>>
           ELSE /\ segments' = Append(segments,
                     Segment("linear", CumulativeLength, Norm(Minus(to, here.point)), here.point, to))
                /\ here' = [point |-> to, exit |-> FALSE]
                /\ locus' = locus + 1
                /\ UNCHANGED <<half, phase>>
  /\ UNCHANGED <<input, opts, kept>>

\* A hard stop, and the last waypoint; coincident ends throw.
EmitLinear ==
  /\ phase = "emitting" /\ locus <= Len(kept) /\ RightAngled /\ HardStop
  /\ LET to == Scaled(Unit, Corner(locus))
     IN  IF to = here.point
           THEN phase' = "failed" /\ UNCHANGED <<locus, here, half, segments>>
           ELSE /\ segments' = Append(segments,
                     Segment("linear", CumulativeLength, Norm(Minus(to, here.point)), here.point, to))
                /\ here' = [point |-> to, exit |-> FALSE]
                /\ locus' = locus + 1
                /\ half' = FALSE
                /\ UNCHANGED phase
  /\ UNCHANGED <<input, opts, kept>>

Finish ==
  /\ phase = "emitting" /\ locus > Len(kept)
  /\ phase' = IF segments = <<>> THEN "failed" ELSE "built"
  /\ UNCHANGED <<input, opts, kept, locus, here, half, segments>>

BuildNext == Create \/ Coalesce \/ EmitBlend \/ EmitLinear \/ Finish

BuildSpec == BuildInit /\ [][BuildNext]_buildVars

-----------------------------------------------------------------------------
(* Queries *)

\* path::length, and the end of a segment as the iterator and operator() compute it.
PathLength == CumulativeLength
SegmentEnd(k) == IF k < Len(segments) THEN segments[k + 1].start ELSE PathLength

\* operator(): the segment before the first one that starts after s.
SegmentFor(s) == Max({k \in 1..Len(segments) : segments[k].start <= s})

-----------------------------------------------------------------------------
(* Properties *)

\* Every waypoint that was dropped lies within the tolerance of the segment that
\* finally replaced it, not only of the shorter ones it was first tested against
\* (the re-test of skipped in path::create).
SkippedInTube ==
  phase = "emitting" /\ opts.linear > 0 =>
    \A i \in 1..Len(kept) - 1 : \A k \in kept[i] + 1..kept[i + 1] - 1 :
      locus_within_tolerance(input[kept[i]], input[kept[i + 1]], input[k])

\* The points a and b are as close as rounding leaves them.
Close(a, b) == Norm(Minus(a, b)) <= Max(Residues)

\* A built path goes from the first waypoint to the last without a gap: where a
\* segment ends the next one starts, in space and by arc length, each is as long as
\* the line it covers, and the segment that operator() finds at its start is itself.
\* Blends that meet in the middle of a segment and hard stops between blends do not
\* disturb that (the marks of path::create).
PathJoined ==
  phase = "built" =>
    /\ segments[1].start = 0
    /\ Close(segments[1].from, Scaled(Unit, input[1]))
    /\ Close(segments[Len(segments)].to, Scaled(Unit, input[Len(input)]))
    /\ \A k \in 1..Len(segments) :
         /\ k < Len(segments) => Close(segments[k].to, segments[k + 1].from)
         /\ segments[k].start < SegmentEnd(k)
         /\ SegmentEnd(k) = segments[k].start + segments[k].length
         /\ segments[k].kind = "linear" =>
              LET gap == segments[k].length - Norm(Minus(segments[k].to, segments[k].from))
              IN  gap \in Residues \cup {0}
         /\ SegmentFor(segments[k].start) = k

\* No linear segment consists of rounding alone: between two blends that take a
\* segment in full nothing is emitted (segment_fully_consumed).
NoSliver == \A k \in 1..Len(segments) : segments[k].kind = "linear" => segments[k].from # segments[k].to

=============================================================================
