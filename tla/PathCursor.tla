------------------------------ MODULE PathCursor ------------------------------
(***************************************************************************)
(* A cursor on a path (totg/path.cpp, path::cursor and path::cursor::rich):*)
(* an arc length, a hint at the segment that holds it, and a cache of the  *)
(* geometry there.  Seeking updates the hint from its neighbourhood and    *)
(* searches only when that fails; a query computes what is not cached.     *)
(*                                                                         *)
(* Abstractions.  Arc length is counted in units.  A segment is the arc    *)
(* length it starts at.  A geometric quantity is the segment and the       *)
(* position it was evaluated from.  The two infinities that mark a cursor  *)
(* as out of bounds are the integers next to the path.                     *)
(***************************************************************************)
EXTENDS Integers, Sequences

CONSTANTS
  Start,      \* Start[k]: where segment k starts
  Length,     \* path::length()
  Positions,  \* arguments of seek
  Deltas      \* arguments of seek_by

\* Segments in order from the beginning of a path to its end, none of them empty.
EndToEnd(start, length) ==
  /\ start \in Seq(Nat) /\ start # <<>> /\ start[1] = 0
  /\ \A j, k \in 1..Len(start) : j < k => start[j] < start[k]
  /\ length \in Nat /\ start[Len(start)] < length

ASSUME PathAssumption ==
  /\ EndToEnd(Start, Length)
  /\ Positions \subseteq Int
  /\ Deltas \subseteq Int

VARIABLES
  position,  \* position_
  hint,      \* hint_: a segment
  cached,    \* cached_bits_: the components that are cached
  storage    \* configuration_, tangent_, curvature_

pathVars == <<position, hint, cached, storage>>

Segments == 1..Len(Start)
Components == {"configuration", "tangent", "curvature"}

Before == -1
Beyond == Length + 1
OnPath(s) == 0 <= s /\ s <= Length

StartOf(k) == Start[k]
EndOf(k) == IF k = Len(Start) THEN Length ELSE Start[k + 1]
Holds(k, s) == StartOf(k) <= s /\ s < EndOf(k)

Evaluated(k, s) == [segment |-> k, at |-> s]
Unwritten == Evaluated(0, 0)
Geometry == [segment : Segments, at : 0..Length]

PathInit ==
  /\ position = 0
  /\ hint = 1
  /\ cached = {}
  /\ storage = [c \in Components |-> Unwritten]

\* upper_bound over the segment starts, less one.
Searched(s) == CHOOSE k \in Segments :
  StartOf(k) <= s /\ \A j \in Segments : StartOf(j) <= s => j <= k

\* Fault: a position at the end of the hint's segment stays there.
HintAtBoundary(s) ==
  IF Holds(hint, s) \/ s = EndOf(hint) THEN hint
  ELSE IF hint > 1 /\ Holds(hint - 1, s) THEN hint - 1
  ELSE IF hint < Len(Start) /\ Holds(hint + 1, s) THEN hint + 1
  ELSE Searched(s)

\* The hint update_hint_ leaves behind once the cursor is at s.
update_hint(s) ==
  IF Holds(hint, s) THEN hint
  ELSE IF s = EndOf(hint)
    THEN IF hint < Len(Start) /\ Holds(hint + 1, s) THEN hint + 1 ELSE hint
  ELSE IF hint > 1 /\ Holds(hint - 1, s) THEN hint - 1
  ELSE IF hint < Len(Start) /\ Holds(hint + 1, s) THEN hint + 1
  ELSE Searched(s)

\* Where a seek to s leaves the cursor.
Placed(s) == IF s < 0 THEN Before ELSE IF s > Length THEN Beyond ELSE s

\* Fault: only a change of segment discards the cache.
path_seek_lazy(s) ==
  /\ position' = Placed(s)
  /\ hint' = IF OnPath(s) THEN update_hint(s) ELSE hint
  /\ cached' = IF hint' # hint THEN {} ELSE cached
  /\ UNCHANGED storage

\* rich::seek: a seek that does not move the cursor keeps the cache.
path_seek(s) ==
  /\ position' = Placed(s)
  /\ hint' = IF OnPath(s) THEN update_hint(s) ELSE hint
  /\ cached' = IF position' # position THEN {} ELSE cached
  /\ UNCHANGED storage

\* rich::seek_by: an infinity absorbs any delta.
path_seek_by(delta) == path_seek(IF OnPath(position) THEN position + delta ELSE position)

\* configuration_ref, tangent_ref and curvature_ref; out of bounds they throw.
Queried(components) ==
  /\ OnPath(position)
  /\ cached' = cached \cup components
  /\ storage' = [c \in Components |->
       IF c \in components \ cached THEN Evaluated(hint, position) ELSE storage[c]]

query(c) == Queried({c}) /\ UNCHANGED <<position, hint>>

PathNext ==
  \/ \E s \in Positions : path_seek(s)
  \/ \E delta \in Deltas : path_seek_by(delta)
  \/ \E c \in Components : query(c)

PathSpec == PathInit /\ [][PathNext]_pathVars

-----------------------------------------------------------------------------
(* Properties *)

\* The variables have their types.
PathTypeOK ==
  /\ position \in Before..Beyond
  /\ hint \in Segments
  /\ cached \subseteq Components
  /\ storage \in [Components -> Geometry \cup {Unwritten}]

\* Wherever the hint came from, it is the segment a search would find: the last one
\* that starts at or before the cursor, so that at a boundary the geometry is that
\* of the segment ahead (update_hint_).
HintLocates == OnPath(position) => hint = Searched(position)

\* What the cache holds was evaluated at the cursor's position, from the segment that
\* holds it; a cursor out of bounds caches nothing (rich::seek, cached_).
CacheCurrent ==
  IF OnPath(position)
    THEN \A c \in cached : storage[c] = Evaluated(Searched(position), position)
    ELSE cached = {}

=============================================================================
