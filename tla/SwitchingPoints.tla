--------------------------- MODULE SwitchingPoints ---------------------------
(***************************************************************************)
(* The search for switching points (totg/trajectory.cpp): where, past the  *)
(* point at which forward integration hit a limit curve, the integration   *)
(* may start again.  Two searches, on the acceleration curve and on the    *)
(* velocity curve, share a cache: the later of their two results is kept   *)
(* for the next search, and each result bounds the other search.           *)
(*                                                                         *)
(* Abstractions.  Arc length is counted in units; a unit is both the       *)
(* tolerance epsilon and the stride of the scan of the velocity curve, and *)
(* a segment is at least one unit long.  A limit curve is a number at each *)
(* unit of each segment.  What depends on the slopes of trajectories is    *)
(* given with the segment: `delta` is that of equation 40, the slope of    *)
(* the hardest braking less that of the velocity curve, and `admits` tells *)
(* if equation 38 holds at the end of the segment.  Limits are positive.   *)
(***************************************************************************)
EXTENDS Integers, Sequences

CONSTANT Paths  \* the paths to search

\* A segment: where it starts and ends, its limit curves and delta, the positions where
\* a joint comes to rest on a circular segment (candidate extrema), if the tangent is
\* discontinuous at its end, and if equation 38 holds there.
Segment(seg) ==
  /\ seg.start \in Nat /\ seg.end \in Nat /\ seg.start < seg.end
  /\ seg.acc \in [seg.start..seg.end -> Nat \ {0}]
  /\ seg.vel \in [seg.start..seg.end -> Nat \ {0}]
  /\ seg.delta \in [seg.start..seg.end -> Int]
  /\ seg.turns \subseteq seg.start..seg.end
  /\ seg.corner \in BOOLEAN /\ seg.admits \in BOOLEAN

ASSUME PathsAssumption ==
  \A p \in Paths :
    /\ Len(p) \in Nat \ {0} /\ DOMAIN p = 1..Len(p)
    /\ \A k \in 1..Len(p) : Segment(p[k])
    /\ p[1].start = 0
    /\ \A k \in 1..Len(p) - 1 : p[k + 1].start = p[k].end

\* Candidate extrema are on circular segments, which the path leaves in the direction of
\* their end. The velocity curve depends on position and direction alone, so that it does
\* not fall there.
ASSUME TangentAssumption ==
  \A p \in Paths : \A k \in 1..Len(p) - 1 :
    LET s == p[k].end IN
    s \in p[k].turns /\ p[k].acc[s] = p[k + 1].acc[s] => p[k].vel[s] <= p[k + 1].vel[s]

VARIABLES
  path,      \* the path being searched
  position,  \* where its cursor is
  cache,     \* switching_point_cache
  found      \* the switching point returned last

searchVars == <<path, position, cache, found>>

Segments == 1..Len(path)
Length == path[Len(path)].end

\* The segment a cursor at s is in: the later one at a boundary.
SegmentAt(s) == CHOOSE k \in Segments :
  path[k].start <= s /\ (s < path[k].end \/ k = Len(path))

Smaller(a, b) == IF a <= b THEN a ELSE b
First(S) == CHOOSE x \in S : \A y \in S : x <= y

\* A switching point. forward tells if it comes with a forward acceleration.
Point(s, s_dot, kind, forward) == [s |-> s, s_dot |-> s_dot, kind |-> kind, forward |-> forward]
nullopt == Point(-1, 0, "none", FALSE)
k_path_end_sentinel == Point(Length, 0, "path_end", FALSE)

-----------------------------------------------------------------------------
(* The acceleration curve *)

Joined(k) ==  \* the curve is continuous at the end of segment k
  k \in 1..Len(path) - 1 /\ path[k].acc[path[k].end] = path[k + 1].acc[path[k].end]

\* The curve is above its value at s next to s on the left and on the right; at a
\* boundary the neighbour is looked at only if the curve is continuous there.
FallsTo(k, s) ==
  IF s > path[k].start THEN path[k].acc[s - 1] > path[k].acc[s]
  ELSE Joined(k - 1) /\ path[k - 1].acc[s - 1] > path[k].acc[s]

RisesFrom(k, s) ==
  IF s < path[k].end THEN path[k].acc[s + 1] > path[k].acc[s]
  ELSE Joined(k) /\ path[k + 1].acc[s + 1] > path[k].acc[s]

\* VII-A case 2: the extrema of segment k not before `from` that are switching points.
Extrema(k, from) == {s \in path[k].turns :
  s >= from /\ path[k].acc[s] <= path[k].vel[s] /\ FallsTo(k, s) /\ RisesFrom(k, s)}

LowerAcc(k) == Smaller(path[k].acc[path[k].end], path[k + 1].acc[path[k].end])
LowerVel(k) == Smaller(path[k].vel[path[k].end], path[k + 1].vel[path[k].end])

\* VII-A case 1: the end of segment k is a switching point.
Discontinuous(k) ==
  /\ k < Len(path)
  /\ ~Joined(k)
  /\ path[k].admits
  /\ LowerAcc(k) <= LowerVel(k)

\* The walk goes through the segments from the cursor's on, as far as it crosses
\* boundaries within the hint; the extrema of a segment come before its end.
find_acceleration_switching_point(from, hint) ==
  LET walked == {k \in SegmentAt(from)..Len(path) : k = SegmentAt(from) \/ path[k].start <= hint}
      ends(k) == path[k].end <= hint /\ Discontinuous(k)
      hits == {k \in walked : Extrema(k, from) # {} \/ ends(k)}
      k == First(hits)
  IN  IF hits = {} THEN nullopt
      ELSE IF Extrema(k, from) # {}
        THEN Point(First(Extrema(k, from)), path[k].acc[First(Extrema(k, from))],
                   "nondifferentiable_extremum", TRUE)
        ELSE Point(path[k].end, LowerAcc(k), "discontinuous_curvature", TRUE)

-----------------------------------------------------------------------------
(* The velocity curve *)

\* Equations 41 and 42 at the end of segment k, where the velocity curve must be the
\* lower one on both sides.
Escapes(k) ==
  LET s == path[k].end IN
  /\ path[k].acc[s] > path[k].vel[s] /\ path[k + 1].acc[s] > path[k + 1].vel[s]
  /\ path[k].delta[s] >= 0
  /\ path[k + 1].delta[s] <= 0

\* The boundaries after the cursor, up to the hint; the robot stops at a corner.
find_discontinuous_velocity_switching_point(from, hint) ==
  LET hits == {k \in 1..Len(path) - 1 :
                 /\ from < path[k].end /\ path[k].end <= hint
                 /\ path[k].corner \/ Escapes(k)}
      k == First(hits)
  IN  IF hits = {} THEN nullopt
      ELSE Point(path[k].end, IF path[k].corner THEN 0 ELSE LowerVel(k),
                 "discontinuous_velocity_limit", FALSE)

Delta(s) == path[SegmentAt(s)].delta[s]
Vel(s) == path[SegmentAt(s)].vel[s]
Acc(s) == path[SegmentAt(s)].acc[s]

\* A sign change of delta between s - 1 and s. A corner between them makes the two
\* values incomparable.
Bracket(s) ==
  /\ Delta(s - 1) > 0 /\ Delta(s) <= 0
  /\ SegmentAt(s - 1) # SegmentAt(s) => ~path[SegmentAt(s - 1)].corner

\* The first bracket up to the hint whose escape is not above the acceleration curve.
find_continuous_velocity_switching_point(from, hint) ==
  LET hits == {s \in from + 1..hint : s < Length /\ Bracket(s) /\ Vel(s) <= Acc(s)}
      s == First(hits)
  IN  IF hits = {} THEN nullopt ELSE Point(s, Vel(s), "velocity_escape", FALSE)

\* The earlier of two switching points; of two at the same place, the slower.
select_switching_point(sp1, sp2) ==
  IF sp1 = nullopt THEN sp2
  ELSE IF sp2 = nullopt THEN sp1
  ELSE IF sp1.s = sp2.s THEN IF sp1.s_dot < sp2.s_dot THEN sp1 ELSE sp2
  ELSE IF sp1.s < sp2.s THEN sp1 ELSE sp2

find_velocity_switching_point(from, hint) ==
  LET discontinuous == find_discontinuous_velocity_switching_point(from, hint)
      bound == IF discontinuous = nullopt THEN hint ELSE discontinuous.s
  IN  select_switching_point(discontinuous, find_continuous_velocity_switching_point(from, bound))

-----------------------------------------------------------------------------
(* The search with its cache *)

\* Fault: only the entry of the velocity search is dropped.
ValidAccel(entry, from) ==
  IF entry.s <= from /\ ~entry.forward THEN nullopt ELSE entry

\* Fault: an entry at the cursor is kept.
ValidHere(entry, from) == IF entry.s < from THEN nullopt ELSE entry

\* Entries that are not past the cursor are dropped.
Valid(entry, from) == IF entry.s <= from THEN nullopt ELSE entry

\* The hint an entry gives to the other search.
BoundBy(entry) == IF entry = nullopt THEN Length ELSE entry.s

\* A search result as it is cached: that there is none is remembered only after a
\* search of the whole path.
Cached(result, bound) ==
  IF result = nullopt /\ bound = Length THEN k_path_end_sentinel ELSE result

\* The cache after a search from a cursor position.
Searched(from) ==
  LET vel0 == Valid(cache.next_vel, from)
      acc0 == Valid(cache.next_accel, from)
      accel == IF acc0 # nullopt THEN acc0
               ELSE Cached(find_acceleration_switching_point(from, BoundBy(vel0)), BoundBy(vel0))
      vel == IF vel0 # nullopt THEN vel0
             ELSE Cached(find_velocity_switching_point(from, BoundBy(accel)), BoundBy(accel))
  IN  [next_accel |-> accel, next_vel |-> vel]

\* value_or the end of the path.
Selected(entries) ==
  LET sp == select_switching_point(entries.next_accel, entries.next_vel)
  IN  IF sp = nullopt THEN k_path_end_sentinel ELSE sp

\* find_switching_point with the cursor at s.
find_switching_point(s) ==
  /\ position' = s
  /\ cache' = Searched(s)
  /\ found' = Selected(Searched(s))

SearchInit ==
  /\ path \in Paths
  /\ position = 0
  /\ cache = [next_accel |-> nullopt, next_vel |-> nullopt]
  /\ found = nullopt

-----------------------------------------------------------------------------
(* Properties *)

\* Cache and bounds save work and change nothing: wherever the next search starts, it
\* returns what two complete searches from there would give (switching_point_cache,
\* find_switching_point).
CacheTransparent ==
  \A s \in position..Length :
    Selected(Searched(s)) = Selected([next_accel |-> find_acceleration_switching_point(s, Length),
                                      next_vel |-> find_velocity_switching_point(s, Length)])

=============================================================================
