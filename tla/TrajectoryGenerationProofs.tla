---------------------- MODULE TrajectoryGenerationProofs ----------------------
(***************************************************************************)
(* Proofs about trajectory generation, for every path, whatever its limit  *)
(* curves, and every course of the integration.                            *)
(***************************************************************************)
EXTENDS TrajectoryGeneration, SequenceTheorems, NaturalOrder, TLAPS

-----------------------------------------------------------------------------
(* The observer's events *)

\* What the observer has been told in each phase.
ToldInPhase ==
  /\ phase \in {"begin", "forward", "turn", "backward", "done", "failed"}
  /\ phase \in {"begin", "done"} => told = <<>>
  /\ phase = "forward" => told = IF first THEN <<>> ELSE <<"forward">>
  /\ phase = "turn" => told \in {<<"forward">>, <<"forward", "hit">>}
  /\ phase = "backward" => told \in {<<"forward", "backward">>, <<"forward", "hit", "backward">>}
  /\ told \in {<<>>, <<"forward">>, <<"forward", "hit">>,
               <<"forward", "backward">>, <<"forward", "hit", "backward">>}

LEMMA Appended ==
  ASSUME NEW a, NEW b, NEW c
  PROVE  Append(<<>>, a) = <<a>> /\ Append(<<a>>, b) = <<a, b>> /\ Append(<<a, b>>, c) = <<a, b, c>>
<1> DEFINE S == {a, b, c}
<1>1. <<a>> \in Seq(S) /\ <<a, b>> \in Seq(S) /\ <<a, b, c>> \in Seq(S)
  OBVIOUS
<1>2. Append(<<a>>, b) = <<a, b>>
  <2>1. Append(<<a>>, b) \in Seq(S) /\ Len(Append(<<a>>, b)) = 2
    BY <1>1
  <2>2. Append(<<a>>, b)[1] = a /\ Append(<<a>>, b)[2] = b
    BY <1>1
  <2>3. \A i \in 1..2 : Append(<<a>>, b)[i] = <<a, b>>[i]
    BY <2>2
  <2> QED
    BY <1>1, <2>1, <2>3, SeqEqual
<1>3. Append(<<a, b>>, c) = <<a, b, c>>
  <2>1. Append(<<a, b>>, c) \in Seq(S) /\ Len(Append(<<a, b>>, c)) = 3
    BY <1>1
  <2>2. Append(<<a, b>>, c)[1] = a /\ Append(<<a, b>>, c)[2] = b /\ Append(<<a, b>>, c)[3] = c
    BY <1>1
  <2>3. \A i \in 1..3 : Append(<<a, b>>, c)[i] = <<a, b, c>>[i]
    BY <2>2
  <2> QED
    BY <1>1, <2>1, <2>3, SeqEqual
<1>4. Append(<<>>, a) = <<a>>
  OBVIOUS
<1> QED
  BY <1>2, <1>3, <1>4

LEMMA ToldNext == ToldInPhase /\ [GenerationNext]_generationVars => ToldInPhase'
<1> SUFFICES ASSUME ToldInPhase, [GenerationNext]_generationVars PROVE ToldInPhase'
  OBVIOUS
<1>1. /\ Append(<<>>, "forward") = <<"forward">>
      /\ Append(<<"forward">>, "hit") = <<"forward", "hit">>
      /\ Append(<<"forward">>, "backward") = <<"forward", "backward">>
      /\ Append(<<"forward", "hit">>, "backward") = <<"forward", "hit", "backward">>
  BY Appended
<1>2. phase = "forward" => Started = <<"forward">>
  BY <1>1 DEF ToldInPhase, Started
<1>3. ASSUME NEW reason, Failed(reason) PROVE ToldInPhase'
  BY <1>3 DEF Failed, ToldInPhase
<1>4. CASE BeginForward
  BY <1>4 DEF BeginForward, ToldInPhase
<1>5. CASE Advance
  BY <1>2, <1>5 DEF Advance, ToldInPhase
<1>6. CASE ReachEnd
  BY <1>2, <1>6 DEF ReachEnd, ToldInPhase
<1>7. CASE HitCorner \/ HitLimit \/ HitAtOnce
  BY <1>1, <1>2, <1>7 DEF HitCorner, HitLimit, HitAtOnce, ToldInPhase
<1>8. CASE ForwardFails \/ BackwardFails
  BY <1>3, <1>8 DEF ForwardFails, BackwardFails
<1>9. CASE Turn
  <2>1. CASE \E reason : Failed(reason)
    BY <1>3, <2>1
  <2>2. CASE phase = "turn" /\ phase' = "backward" /\ told' = Append(told, "backward")
    BY <1>1, <2>2 DEF ToldInPhase
  <2> QED
    BY <1>9, <2>1, <2>2 DEF Turn
<1>10. CASE StepBackward
  <2>1. CASE \E reason : Failed(reason)
    BY <1>3, <2>1
  <2>2. CASE \E j : Splice(j)
    BY <1>3, <2>2 DEF Splice, ToldInPhase
  <2>3. CASE UNCHANGED <<phase, told, first>>
    BY <2>3 DEF ToldInPhase
  <2> QED
    BY <1>10, <2>1, <2>2, <2>3 DEF StepBackward, forwardVars
<1>11. CASE Ended \/ UNCHANGED generationVars
  BY <1>11 DEF Ended, generationVars, forwardVars, ToldInPhase
<1> QED
  BY <1>4, <1>5, <1>6, <1>7, <1>8, <1>9, <1>10, <1>11 DEF GenerationNext

\* The observer hears of the start of a pass, of at most one hit, of the turn and of the
\* splice, in this order (the calls of the observer in create).
THEOREM EventsOrdered == GenerationSpec => []EventsInOrder
<1>1. GenerationInit => ToldInPhase
  BY DEF GenerationInit, ToldInPhase
<1>2. ToldInPhase => EventsInOrder
  BY DEF ToldInPhase, EventsInOrder
<1> QED
  BY <1>1, <1>2, ToldNext, PTL DEF GenerationSpec

-----------------------------------------------------------------------------
(* Segments *)

LEMMA PathFacts ==
  ASSUME path \in Paths
  PROVE  /\ Len(path) \in Nat \ {0} /\ DOMAIN path = 1..Len(path)
         /\ \A k \in Segments : Segment(path[k])
         /\ path[1].start = 0
         /\ \A k \in 1..Len(path) - 1 : path[k + 1].start = path[k].end
BY PathsAssumption DEF Segments

LEMMA SegmentFacts ==
  ASSUME path \in Paths
  PROVE  /\ Len(path) \in Nat \ {0} /\ Segments = 1..Len(path)
         /\ \A k \in Segments : path[k].start \in Nat /\ path[k].end \in Nat /\ path[k].start < path[k].end
         /\ path[1].start = 0
         /\ \A k \in Segments : k + 1 \in Segments => path[k + 1].start = path[k].end
<1>1. \A k \in Segments : Segment(path[k])
  BY PathFacts
<1>2. \A k \in Segments : k + 1 \in Segments => k \in 1..Len(path) - 1
  BY PathFacts DEF Segments
<1> QED
  BY <1>1, <1>2, PathFacts DEF Segments, Segment

\* A later segment starts where an earlier one ends, or after it.
LEMMA SegmentsInOrder ==
  ASSUME path \in Paths, NEW j \in Segments, NEW k \in Segments, j < k
  PROVE  path[j].end <= path[k].start
<1> DEFINE T == {i \in Segments : j < i /\ path[i].start < path[j].end}
<1> SUFFICES ASSUME T # {} PROVE FALSE
  BY SegmentFacts
<1>1. T \subseteq Nat
  BY SegmentFacts
<1>2. PICK m \in T : \A i \in T : m <= i
  BY <1>1, LeastNatural
<1>3. m \in Segments /\ m - 1 \in Segments /\ (m - 1) + 1 = m /\ j <= m - 1
  BY <1>2, SegmentFacts
<1>4. path[m].start = path[m - 1].end
  BY <1>3, SegmentFacts
<1>5. m - 1 \notin T
  BY <1>2, <1>3, SegmentFacts
<1>6. j # m - 1
  BY <1>2, <1>4, SegmentFacts
<1>7. path[m - 1].start >= path[j].end
  <2>1. m \in Nat /\ j \in Nat
    BY <1>3, SegmentFacts
  <2>2. j < m - 1
    BY <1>3, <1>6, <2>1
  <2>3. path[m - 1].start \in Nat /\ path[j].end \in Nat
    BY <1>3, SegmentFacts
  <2> QED
    BY <1>3, <1>5, <2>2, <2>3
<1>8. path[m - 1].start < path[m - 1].end /\ path[m].start < path[j].end
  BY <1>2, <1>3, SegmentFacts
<1>9. path[m - 1].start \in Nat /\ path[m - 1].end \in Nat /\ path[j].end \in Nat
  BY <1>3, SegmentFacts
<1> QED
  BY <1>4, <1>7, <1>8, <1>9

LEMMA LengthFacts ==
  ASSUME path \in Paths
  PROVE  Length \in Nat \ {0} /\ \A k \in Segments : path[k].end <= Length
<1>1. Len(path) \in Segments /\ Length \in Nat \ {0}
  BY SegmentFacts DEF Length
<1>2. ASSUME NEW k \in Segments PROVE path[k].end <= Length
  <2>1. CASE k = Len(path)
    BY <1>1, <2>1, SegmentFacts DEF Length
  <2>2. CASE k < Len(path)
    <3>1. path[k].end <= path[Len(path)].start
      BY <1>1, <2>2, SegmentsInOrder
    <3> QED
      BY <1>1, <3>1, SegmentFacts DEF Length
  <2> QED
    BY <2>1, <2>2, SegmentFacts
<1> QED
  BY <1>1, <1>2

\* The segment of a position holds it, and is the only one that starts at or before the
\* position and ends after it.
LEMMA SegmentOf ==
  ASSUME path \in Paths, NEW s \in 0..Length
  PROVE  /\ SegmentAt(s) \in Segments
         /\ path[SegmentAt(s)].start <= s /\ s <= path[SegmentAt(s)].end
         /\ s < path[SegmentAt(s)].end \/ SegmentAt(s) = Len(path)
<1> DEFINE T == {k \in Segments : s < path[k].end \/ k = Len(path)}
<1>1. T \subseteq Nat /\ Len(path) \in T
  BY SegmentFacts
<1>2. PICK m \in T : \A k \in T : m <= k
  BY <1>1, LeastNatural
<1>3. path[m].start <= s
  <2>1. CASE m = 1
    BY <2>1, SegmentFacts, LengthFacts
  <2>2. CASE m # 1
    <3>1. m - 1 \in Segments /\ (m - 1) + 1 = m
      BY <1>2, <2>2, SegmentFacts
    <3>2. m - 1 \notin T
      BY <1>2, <3>1, SegmentFacts
    <3> QED
      BY <1>2, <3>1, <3>2, SegmentFacts, LengthFacts
  <2> QED
    BY <2>1, <2>2
<1>4. \E k \in Segments : path[k].start <= s /\ (s < path[k].end \/ k = Len(path))
  BY <1>2, <1>3
<1>5. /\ SegmentAt(s) \in Segments /\ path[SegmentAt(s)].start <= s
      /\ s < path[SegmentAt(s)].end \/ SegmentAt(s) = Len(path)
  BY <1>4 DEF SegmentAt
<1>6. s <= path[SegmentAt(s)].end
  BY <1>5, SegmentFacts, LengthFacts DEF Length
<1> QED
  BY <1>5, <1>6

LEMMA SegmentUnique ==
  ASSUME path \in Paths, NEW s \in 0..Length, NEW k \in Segments,
         path[k].start <= s, s < path[k].end \/ k = Len(path)
  PROVE  SegmentAt(s) = k
<1> DEFINE m == SegmentAt(s)
<1>1. /\ m \in Segments /\ path[m].start <= s
      /\ s < path[m].end \/ m = Len(path)
  BY SegmentOf
<1> HIDE DEF m
<1>2. ASSUME NEW i \in Segments, NEW j \in Segments, i < j, path[j].start <= s,
             s < path[i].end \/ i = Len(path)
      PROVE  FALSE
  <2>1. i # Len(path)
    BY <1>2, SegmentFacts
  <2> QED
    BY <1>2, <2>1, SegmentsInOrder, SegmentFacts, LengthFacts
<1>3. ~(m < k) /\ ~(k < m)
  BY <1>1, <1>2
<1>4. m = k
  BY <1>1, <1>3, SegmentFacts
<1> QED
  BY <1>4 DEF m

\* Where segments meet, a position belongs to the later one.
LEMMA SegmentAfter ==
  ASSUME path \in Paths, NEW k \in 1..Len(path) - 1
  PROVE  /\ k \in Segments /\ k + 1 \in Segments
         /\ path[k].end \in 0..Length /\ path[k].end < Length
         /\ SegmentAt(path[k].end) = k + 1
<1>1. k \in Segments /\ k + 1 \in Segments /\ path[k + 1].start = path[k].end
  <2>1. k \in Segments /\ k + 1 \in Segments
    <3>1. Len(path) \in Nat /\ Segments = 1..Len(path)
      BY SegmentFacts
    <3> QED
      BY <3>1
  <2> QED
    BY <2>1, SegmentFacts
<1>2. path[k].end < path[k + 1].end /\ path[k + 1].end <= Length /\ path[k].end \in Nat
  BY <1>1, SegmentFacts, LengthFacts
<1>3. path[k].end \in 0..Length /\ path[k].end < Length
  BY <1>1, <1>2, SegmentFacts, LengthFacts
<1> QED
  BY <1>1, <1>2, <1>3, SegmentUnique

LEMMA CurvesAt ==
  ASSUME path \in Paths, NEW s \in 0..Length
  PROVE  Acc(s) \in Nat \ {0} /\ Vel(s) \in Nat \ {0} /\ Delta(s) \in Int
<1>1. SegmentAt(s) \in Segments
  BY SegmentOf
<1>2. s \in path[SegmentAt(s)].start..path[SegmentAt(s)].end
  BY <1>1, SegmentOf, SegmentFacts, LengthFacts
<1>3. Segment(path[SegmentAt(s)])
  BY <1>1, PathFacts
<1> QED
  BY <1>2, <1>3 DEF Acc, Vel, Delta, Segment

-----------------------------------------------------------------------------
(* The search on the acceleration curve *)

LEMMA FirstOf ==
  ASSUME NEW S, S \subseteq Nat, S # {}
  PROVE  First(S) \in S /\ \A y \in S : First(S) <= y
BY LeastNatural DEF First

\* A set that keeps the first element of a larger one has the same first element.
LEMMA FirstKept ==
  ASSUME NEW S, S \subseteq Nat, NEW T, T \subseteq S, S # {}, First(S) \in T
  PROVE  First(T) = First(S)
<1>1. T \subseteq Nat /\ T # {}
  OBVIOUS
<1>2. First(S) \in S /\ \A y \in S : First(S) <= y
  BY FirstOf
<1>3. First(T) \in T /\ \A y \in T : First(T) <= y
  BY <1>1, FirstOf
<1>4. First(S) <= First(T) /\ First(T) <= First(S) /\ First(S) \in Nat /\ First(T) \in Nat
  BY <1>1, <1>2, <1>3
<1> QED
  BY <1>4

\* Segments in the order of positions.
LEMMA SegmentsFrom ==
  ASSUME path \in Paths, NEW p \in 0..Length, NEW s \in 0..Length, p <= s
  PROVE  SegmentAt(p) <= SegmentAt(s)
<1>1. /\ SegmentAt(p) \in Segments /\ SegmentAt(s) \in Segments
      /\ path[SegmentAt(p)].start <= p /\ s <= path[SegmentAt(s)].end
      /\ s < path[SegmentAt(s)].end \/ SegmentAt(s) = Len(path)
  BY SegmentOf
<1> DEFINE j == SegmentAt(s)
           k == SegmentAt(p)
<1> HIDE DEF j, k
<1>2. SUFFICES ASSUME j < k PROVE FALSE
  BY <1>1, SegmentFacts DEF j, k
<1>3. path[j].end <= path[k].start /\ j # Len(path)
  BY <1>1, <1>2, SegmentsInOrder, SegmentFacts DEF j, k
<1> QED
  BY <1>1, <1>3, SegmentFacts DEF j, k

\* The walk of the search, and the segments where it ends.
Walked(from, hint) ==
  {k \in SegmentAt(from)..Len(path) : k = SegmentAt(from) \/ path[k].start <= hint}
EndHits(k, hint) == path[k].end <= hint /\ Discontinuous(k)
AccHits(from, hint) == {k \in Walked(from, hint) : Extrema(k, from) # {} \/ EndHits(k, hint)}
AccHit(k, from) ==
  IF Extrema(k, from) # {}
    THEN Point(First(Extrema(k, from)), path[k].acc[First(Extrema(k, from))],
               "nondifferentiable_extremum", TRUE)
    ELSE Point(path[k].end, LowerAcc(k), "discontinuous_curvature", TRUE)

LEMMA AccSearch ==
  ASSUME NEW from, NEW hint
  PROVE  find_acceleration_switching_point(from, hint) =
           IF AccHits(from, hint) = {} THEN nullopt ELSE AccHit(First(AccHits(from, hint)), from)
BY DEF find_acceleration_switching_point, AccHits, Walked, EndHits, AccHit

LEMMA HitsAreSegments ==
  ASSUME path \in Paths, NEW from \in 0..Length, NEW hint
  PROVE  /\ AccHits(from, hint) \subseteq Segments /\ AccHits(from, hint) \subseteq Nat
         /\ \A k \in AccHits(from, hint) : SegmentAt(from) <= k
<1>1. SegmentAt(from) \in Segments
  BY SegmentOf
<1>2. SegmentAt(from)..Len(path) \subseteq Segments
  BY <1>1, SegmentFacts
<1> QED
  BY <1>1, <1>2, SegmentFacts DEF AccHits, Walked

\* An extremum is in its segment, not before the cursor, and before the end of the path.
LEMMA ExtremaIn ==
  ASSUME path \in Paths, NEW k \in Segments, NEW from
  PROVE  /\ Extrema(k, from) \subseteq path[k].start..path[k].end /\ Extrema(k, from) \subseteq Nat
         /\ \A s \in Extrema(k, from) : s >= from /\ s < Length
<1>1. Extrema(k, from) \subseteq path[k].start..path[k].end
  BY PathFacts DEF Extrema, Segment
<1>2. path[k].start \in Nat /\ path[k].end \in Nat
  BY SegmentFacts
<1>3. ASSUME NEW s \in Extrema(k, from) PROVE s >= from /\ s < Length
  <2>1. s >= from /\ RisesFrom(k, s)
    BY DEF Extrema
  <2>2. s < path[k].end \/ k \in 1..Len(path) - 1
    BY <2>1 DEF RisesFrom, Joined
  <2>3. path[k].end <= Length /\ (k \in 1..Len(path) - 1 => path[k].end < Length)
    BY LengthFacts, SegmentAfter
  <2> QED
    BY <1>1, <1>2, <2>1, <2>2, <2>3, LengthFacts
<1> QED
  BY <1>1, <1>2, <1>3

LEMMA AccHitIn ==
  ASSUME path \in Paths, NEW from \in 0..Length, NEW hint, NEW k \in AccHits(from, hint)
  PROVE  /\ AccHit(k, from).s \in path[k].start..path[k].end
         /\ AccHit(k, from).s \in from..Length - 1
<1>1. k \in Segments /\ SegmentAt(from) <= k /\ path[k].start \in Nat /\ path[k].end \in Nat
  BY HitsAreSegments, SegmentFacts
<1>2. CASE Extrema(k, from) # {}
  <2>1. First(Extrema(k, from)) \in Extrema(k, from)
    BY <1>1, <1>2, ExtremaIn, FirstOf
  <2>2. AccHit(k, from).s = First(Extrema(k, from))
    BY <1>2 DEF AccHit, Point
  <2> QED
    BY <1>1, <2>1, <2>2, ExtremaIn, LengthFacts
<1>3. CASE Extrema(k, from) = {}
  <2>1. AccHit(k, from).s = path[k].end
    BY <1>3 DEF AccHit, Point
  <2>2. k \in 1..Len(path) - 1
    BY <1>1, <1>3, SegmentFacts DEF AccHits, EndHits, Discontinuous
  <2>3. path[k].start < path[k].end /\ path[k].end < Length
    BY <1>1, <2>2, SegmentFacts, SegmentAfter
  <2>4. from <= path[k].end
    <3>1. SegmentAt(from) \in Segments /\ from <= path[SegmentAt(from)].end
      BY SegmentOf
    <3>2. k = SegmentAt(from) \/ path[SegmentAt(from)].end <= path[k].start
      BY <1>1, <3>1, SegmentsInOrder, SegmentFacts
    <3> QED
      BY <1>1, <2>3, <3>1, <3>2, SegmentFacts
  <2> QED
    BY <1>1, <2>1, <2>3, <2>4, LengthFacts
<1> QED
  BY <1>2, <1>3

\* The complete search from a cursor at s.
FullAcc(s) == find_acceleration_switching_point(s, Length)

LEMMA FullAccHits ==
  ASSUME path \in Paths, NEW from \in 0..Length
  PROVE  AccHits(from, Length) =
           {k \in SegmentAt(from)..Len(path) : Extrema(k, from) # {} \/ Discontinuous(k)}
<1>1. SegmentAt(from) \in Segments
  BY SegmentOf
<1>2. \A k \in SegmentAt(from)..Len(path) : k \in Segments
  BY <1>1, SegmentFacts
<1>3. \A k \in Segments : path[k].start <= Length /\ path[k].end <= Length
  BY SegmentFacts, LengthFacts
<1> QED
  BY <1>2, <1>3 DEF AccHits, Walked, EndHits

\* Until the cursor reaches what a search has found, the search finds it again.
LEMMA AccFoundAgain ==
  ASSUME path \in Paths, NEW p \in 0..Length, NEW s \in 0..Length, p <= s,
         FullAcc(p) = nullopt \/ s < FullAcc(p).s
  PROVE  FullAcc(s) = FullAcc(p)
<1> DEFINE P == AccHits(p, Length)
           S == AccHits(s, Length)
<1>1. /\ P = {k \in SegmentAt(p)..Len(path) : Extrema(k, p) # {} \/ Discontinuous(k)}
      /\ S = {k \in SegmentAt(s)..Len(path) : Extrema(k, s) # {} \/ Discontinuous(k)}
  BY FullAccHits
<1>2. /\ SegmentAt(p) \in Segments /\ SegmentAt(s) \in Segments
      /\ SegmentAt(p) <= SegmentAt(s)
  BY SegmentOf, SegmentsFrom
<1>3. ASSUME NEW k \in Segments
      PROVE  Extrema(k, s) = {x \in Extrema(k, p) : x >= s}
  <2>1. Segment(path[k])
    BY PathFacts
  <2>2. \A x \in path[k].turns : x \in Nat
    BY <2>1 DEF Segment
  <2>3. \A x \in path[k].turns : x >= s => x >= p
    BY <2>2, LengthFacts
  <2> QED
    BY <2>3 DEF Extrema
<1>4. S \subseteq P /\ P \subseteq Segments /\ P \subseteq Nat
  <2>1. P \subseteq Segments /\ P \subseteq Nat /\ S \subseteq Segments
    BY HitsAreSegments
  <2>2. ASSUME NEW k \in S PROVE k \in P
    <3>1. k \in Segments /\ k \in SegmentAt(p)..Len(path)
      BY <1>1, <1>2, <2>1, SegmentFacts
    <3> QED
      BY <1>1, <1>3, <3>1
  <2> QED
    BY <2>1, <2>2
<1>5. CASE P = {}
  <2>1. S = {}
    BY <1>4, <1>5
  <2> QED
    BY <1>5, <2>1, AccSearch DEF FullAcc
<1>6. CASE P # {}
  <2> DEFINE k == First(P)
  <2>1. k \in P /\ k \in Segments /\ \A i \in P : k <= i
    BY <1>4, <1>6, FirstOf
  <2>2. FullAcc(p) = AccHit(k, p)
    BY <1>6, AccSearch DEF FullAcc
  <2> HIDE DEF k
  <2>3. AccHit(k, p).s \in path[k].start..path[k].end /\ AccHit(k, p).s \in p..Length - 1
    BY <2>1, AccHitIn
  <2>4. s < AccHit(k, p).s
    BY <2>2, <2>3, LengthFacts DEF nullopt, Point
  <2>5. SegmentAt(s) <= k
    <3>1. path[SegmentAt(s)].start <= s /\ path[SegmentAt(s)].start \in Nat /\ path[k].end \in Nat /\ path[k].start \in Nat
      BY <1>2, <2>1, SegmentOf, SegmentFacts
    <3>2. s < path[k].end
      BY <2>3, <2>4, <3>1, LengthFacts
    <3>3. k < SegmentAt(s) => path[k].end <= path[SegmentAt(s)].start
      BY <1>2, <2>1, SegmentsInOrder
    <3> QED
      BY <1>2, <2>1, <3>1, <3>2, <3>3, SegmentFacts, LengthFacts
  <2>6. k \in S /\ AccHit(k, s) = AccHit(k, p)
    <3>1. Extrema(k, p) \subseteq Nat /\ Extrema(k, s) = {x \in Extrema(k, p) : x >= s}
      BY <1>3, <2>1, ExtremaIn
    <3>2. k \in SegmentAt(s)..Len(path)
      BY <1>2, <2>1, <2>5, SegmentFacts
    <3>3. CASE Extrema(k, p) # {}
      <4>1. First(Extrema(k, p)) \in Extrema(k, p)
        BY <3>1, <3>3, FirstOf
      <4>2. AccHit(k, p).s = First(Extrema(k, p))
        BY <3>3 DEF AccHit, Point
      <4>3. First(Extrema(k, p)) \in Extrema(k, s)
        BY <2>4, <3>1, <4>1, <4>2, LengthFacts
      <4>4. First(Extrema(k, s)) = First(Extrema(k, p))
        BY <3>1, <3>3, <4>3, FirstKept
      <4> QED
        BY <1>1, <3>2, <3>3, <4>3, <4>4 DEF AccHit
    <3>4. CASE Extrema(k, p) = {}
      BY <1>1, <2>1, <3>1, <3>2, <3>4 DEF AccHit
    <3> QED
      BY <3>3, <3>4
  <2>7. First(S) = k
    BY <1>4, <1>6, <2>6, FirstKept DEF k
  <2> QED
    BY <2>2, <2>6, <2>7, AccSearch DEF FullAcc
<1> QED
  BY <1>5, <1>6

\* A hint saves the search of what is past it, and nothing else.
LEMMA AccWithHint ==
  ASSUME path \in Paths, NEW from \in 0..Length, NEW hint \in 0..Length,
         find_acceleration_switching_point(from, hint) # FullAcc(from)
  PROVE  /\ find_acceleration_switching_point(from, hint) = nullopt
         /\ FullAcc(from).s > hint
<1> DEFINE B == AccHits(from, hint)
           F == AccHits(from, Length)
<1>1. F = {k \in SegmentAt(from)..Len(path) : Extrema(k, from) # {} \/ Discontinuous(k)}
  BY FullAccHits
<1>2. B \subseteq F /\ F \subseteq Segments /\ F \subseteq Nat
  BY <1>1, HitsAreSegments DEF AccHits, Walked, EndHits
<1>3. PICK k \in Segments : k = First(F) /\ k \in F /\ \A i \in F : k <= i
  <2>1. F # {}
    <3>1. SUFFICES ASSUME F = {} PROVE FALSE
      OBVIOUS
    <3>2. B = {}
      BY <1>2, <3>1
    <3> QED
      BY <3>1, <3>2, AccSearch DEF FullAcc
  <2> QED
    BY <1>2, <2>1, FirstOf
<1>4. /\ FullAcc(from) = AccHit(k, from)
      /\ AccHit(k, from).s \in path[k].start..path[k].end
  BY <1>3, AccSearch, AccHitIn DEF FullAcc
<1>5. k \notin B
  <2>1. SUFFICES ASSUME k \in B PROVE FALSE
    OBVIOUS
  <2>2. First(B) = k
    BY <1>2, <1>3, <2>1, FirstKept
  <2> QED
    BY <1>4, <2>1, <2>2, AccSearch
<1>6. k \in SegmentAt(from)..Len(path) /\ (Extrema(k, from) # {} \/ Discontinuous(k))
  BY <1>1, <1>3
<1>7. path[k].start \in Nat /\ path[k].end \in Nat /\ path[k].start < path[k].end
  BY SegmentFacts
<1>8. \/ k # SegmentAt(from) /\ path[k].start > hint
      \/ Extrema(k, from) = {} /\ path[k].end > hint
  <2>1. k \notin Walked(from, hint) \/ (Extrema(k, from) = {} /\ ~EndHits(k, hint))
    BY <1>5 DEF AccHits
  <2> QED
    BY <1>6, <1>7, <2>1, LengthFacts DEF Walked, EndHits
<1>9. FullAcc(from).s > hint
  <2>1. Extrema(k, from) = {} => AccHit(k, from).s = path[k].end
    BY DEF AccHit, Point
  <2> QED
    BY <1>4, <1>7, <1>8, <2>1, LengthFacts
<1>10. B = {}
  <2>1. SUFFICES ASSUME NEW i \in B PROVE FALSE
    OBVIOUS
  <2>2. i \in F /\ i \in Segments /\ k < i /\ i # SegmentAt(from)
    BY <1>2, <1>3, <1>5, <1>6, <2>1, SegmentFacts, SegmentOf
  <2>3. path[k].end <= path[i].start /\ path[i].start <= hint /\ path[i].start \in Nat
    BY <2>1, <2>2, SegmentsInOrder, SegmentFacts DEF AccHits, Walked
  <2> QED
    BY <1>7, <1>8, <2>3, LengthFacts
<1> QED
  BY <1>9, <1>10, AccSearch

-----------------------------------------------------------------------------
(* The search on the velocity curve *)

BoundaryHits(from, hint) ==
  {k \in 1..Len(path) - 1 :
     /\ from < path[k].end /\ path[k].end <= hint
     /\ path[k].corner \/ Escapes(k)}
BoundaryHit(k) ==
  Point(path[k].end, IF path[k].corner THEN 0 ELSE LowerVel(k), "discontinuous_velocity_limit", FALSE)

BracketHits(from, hint) == {s \in from + 1..hint : s < Length /\ Bracket(s) /\ Vel(s) <= Acc(s)}
BracketHit(s) == Point(s, Vel(s), "velocity_escape", FALSE)

LEMMA BoundarySearch ==
  ASSUME NEW from, NEW hint
  PROVE  find_discontinuous_velocity_switching_point(from, hint) =
           IF BoundaryHits(from, hint) = {} THEN nullopt ELSE BoundaryHit(First(BoundaryHits(from, hint)))
BY DEF find_discontinuous_velocity_switching_point, BoundaryHits, BoundaryHit

LEMMA BracketSearch ==
  ASSUME NEW from, NEW hint
  PROVE  find_continuous_velocity_switching_point(from, hint) =
           IF BracketHits(from, hint) = {} THEN nullopt ELSE BracketHit(First(BracketHits(from, hint)))
BY DEF find_continuous_velocity_switching_point, BracketHits, BracketHit

FullBoundary(s) == find_discontinuous_velocity_switching_point(s, Length)
FullBracket(s) == find_continuous_velocity_switching_point(s, Length)
FullVel(s) == find_velocity_switching_point(s, Length)

\* The later of two boundaries is that of the later segment.
LEMMA BoundariesInOrder ==
  ASSUME path \in Paths, NEW j \in 1..Len(path) - 1, NEW k \in 1..Len(path) - 1
  PROVE  /\ path[k].end \in Nat /\ path[k].end < Length
         /\ j <= k => path[j].end <= path[k].end
<1>1. j \in Segments /\ k \in Segments /\ path[k].end \in 0..Length /\ path[k].end < Length
  BY SegmentAfter
<1>2. j = k \/ (j < k => path[j].end <= path[k].start)
  BY <1>1, SegmentsInOrder
<1> QED
  BY <1>1, <1>2, SegmentFacts, LengthFacts

LEMMA BoundaryIn ==
  ASSUME path \in Paths, NEW from \in 0..Length, NEW hint,
         BoundaryHits(from, hint) # {}
  PROVE  /\ First(BoundaryHits(from, hint)) \in BoundaryHits(from, hint)
         /\ \A k \in BoundaryHits(from, hint) : First(BoundaryHits(from, hint)) <= k
         /\ BoundaryHit(First(BoundaryHits(from, hint))).s \in from + 1..Length - 1
<1> DEFINE k == First(BoundaryHits(from, hint))
<1>1. BoundaryHits(from, hint) \subseteq Nat
  BY SegmentFacts DEF BoundaryHits
<1>2. k \in BoundaryHits(from, hint) /\ \A i \in BoundaryHits(from, hint) : k <= i
  BY <1>1, FirstOf
<1> HIDE DEF k
<1>3. k \in 1..Len(path) - 1 /\ from < path[k].end
  BY <1>2 DEF BoundaryHits
<1>4. BoundaryHit(k).s = path[k].end
  BY DEF BoundaryHit, Point
<1>5. BoundaryHit(k).s \in from + 1..Length - 1
  BY <1>3, <1>4, BoundariesInOrder, LengthFacts
<1> QED
  BY <1>2, <1>5 DEF k

LEMMA BoundaryWithHint ==
  ASSUME path \in Paths, NEW from \in 0..Length, NEW hint \in 0..Length
  PROVE  find_discontinuous_velocity_switching_point(from, hint) =
           IF FullBoundary(from) # nullopt /\ FullBoundary(from).s <= hint THEN FullBoundary(from)
           ELSE nullopt
<1> DEFINE B == BoundaryHits(from, hint)
           F == BoundaryHits(from, Length)
<1>1. B = {k \in F : path[k].end <= hint} /\ F \subseteq Nat
  <2>1. \A k \in 1..Len(path) - 1 : path[k].end \in Nat /\ path[k].end <= Length
    BY BoundariesInOrder, LengthFacts
  <2> QED
    BY <2>1, SegmentFacts DEF BoundaryHits
<1>2. CASE F = {}
  BY <1>1, <1>2, BoundarySearch DEF FullBoundary
<1>3. CASE F # {}
  <2> DEFINE k == First(F)
  <2>1. k \in F /\ (\A i \in F : k <= i) /\ BoundaryHit(k).s \in from + 1..Length - 1
    BY <1>3, BoundaryIn
  <2>2. FullBoundary(from) = BoundaryHit(k)
    BY <1>3, BoundarySearch DEF FullBoundary
  <2>3. BoundaryHit(k).s = path[k].end /\ BoundaryHit(k) # nullopt
    BY <2>1, LengthFacts DEF BoundaryHit, nullopt, Point
  <2>4. CASE path[k].end <= hint
    <3>1. k \in B /\ First(B) = k
      BY <1>1, <1>3, <2>1, <2>4, FirstKept
    <3> QED
      BY <2>2, <2>3, <2>4, <3>1, BoundarySearch
  <2>5. CASE ~(path[k].end <= hint)
    <3>1. ASSUME NEW i \in B PROVE FALSE
      <4>1. i \in 1..Len(path) - 1 /\ k \in 1..Len(path) - 1 /\ k <= i /\ path[i].end <= hint
        BY <1>1, <2>1, <3>1 DEF BoundaryHits
      <4>2. path[k].end <= path[i].end /\ path[k].end \in Nat /\ path[i].end \in Nat
        BY <4>1, BoundariesInOrder
      <4> QED
        BY <2>5, <4>1, <4>2, LengthFacts
    <3> QED
      BY <2>2, <2>3, <2>5, <3>1, BoundarySearch
  <2> QED
    BY <2>4, <2>5
<1> QED
  BY <1>2, <1>3

LEMMA BoundaryFoundAgain ==
  ASSUME path \in Paths, NEW p \in 0..Length, NEW s \in 0..Length, p <= s,
         FullBoundary(p) = nullopt \/ s < FullBoundary(p).s
  PROVE  FullBoundary(s) = FullBoundary(p)
<1> DEFINE P == BoundaryHits(p, Length)
           S == BoundaryHits(s, Length)
<1>1. S = {k \in P : s < path[k].end} /\ P \subseteq Nat
  <2>1. \A k \in 1..Len(path) - 1 : path[k].end \in Nat /\ path[k].end <= Length
    BY BoundariesInOrder, LengthFacts
  <2> QED
    BY <2>1, SegmentFacts, LengthFacts DEF BoundaryHits
<1>2. CASE P = {}
  BY <1>1, <1>2, BoundarySearch DEF FullBoundary
<1>3. CASE P # {}
  <2> DEFINE k == First(P)
  <2>1. k \in P /\ BoundaryHit(k).s \in p + 1..Length - 1
    BY <1>3, BoundaryIn
  <2>2. FullBoundary(p) = BoundaryHit(k)
    BY <1>3, BoundarySearch DEF FullBoundary
  <2>3. BoundaryHit(k).s = path[k].end /\ BoundaryHit(k) # nullopt
    BY <2>1, LengthFacts DEF BoundaryHit, nullopt, Point
  <2>4. k \in S /\ First(S) = k
    BY <1>1, <1>3, <2>1, <2>2, <2>3, FirstKept
  <2> QED
    BY <2>2, <2>4, BoundarySearch DEF FullBoundary
<1> QED
  BY <1>2, <1>3

LEMMA BracketIn ==
  ASSUME path \in Paths, NEW from \in 0..Length, NEW hint \in 0..Length
  PROVE  /\ BracketHits(from, hint) \subseteq Nat
         /\ BracketHits(from, hint) # {} =>
              /\ First(BracketHits(from, hint)) \in BracketHits(from, hint)
              /\ \A s \in BracketHits(from, hint) : First(BracketHits(from, hint)) <= s
              /\ BracketHit(First(BracketHits(from, hint))).s = First(BracketHits(from, hint))
              /\ First(BracketHits(from, hint)) \in from + 1..Length - 1
<1>1. BracketHits(from, hint) \subseteq Nat
  BY LengthFacts DEF BracketHits
<1>2. ASSUME BracketHits(from, hint) # {}
      PROVE  /\ First(BracketHits(from, hint)) \in BracketHits(from, hint)
             /\ \A s \in BracketHits(from, hint) : First(BracketHits(from, hint)) <= s
  BY <1>1, <1>2, FirstOf
<1>3. \A s \in BracketHits(from, hint) : s \in from + 1..Length - 1
  BY LengthFacts DEF BracketHits
<1>4. \A s : BracketHit(s).s = s
  BY DEF BracketHit, Point
<1> QED
  BY <1>1, <1>2, <1>3, <1>4

LEMMA BracketWithHint ==
  ASSUME path \in Paths, NEW from \in 0..Length, NEW hint \in 0..Length
  PROVE  find_continuous_velocity_switching_point(from, hint) =
           IF FullBracket(from) # nullopt /\ FullBracket(from).s <= hint THEN FullBracket(from)
           ELSE nullopt
<1> DEFINE B == BracketHits(from, hint)
           F == BracketHits(from, Length)
<1>1. B = {s \in F : s <= hint} /\ F \subseteq Nat /\ Length \in 0..Length
  BY LengthFacts DEF BracketHits
<1>2. CASE F = {}
  BY <1>1, <1>2, BracketSearch DEF FullBracket
<1>3. CASE F # {}
  <2> DEFINE k == First(F)
  <2>1. k \in F /\ (\A i \in F : k <= i) /\ k \in from + 1..Length - 1 /\ BracketHit(k).s = k
    BY <1>1, <1>3, BracketIn
  <2>2. FullBracket(from) = BracketHit(k)
    BY <1>3, BracketSearch DEF FullBracket
  <2>3. BracketHit(k) # nullopt
    BY <2>1, LengthFacts DEF nullopt, Point
  <2>4. CASE k <= hint
    <3>1. k \in B /\ First(B) = k
      BY <1>1, <1>3, <2>1, <2>4, FirstKept
    <3> QED
      BY <2>1, <2>2, <2>3, <2>4, <3>1, BracketSearch
  <2>5. CASE ~(k <= hint)
    <3>1. B = {}
      BY <1>1, <2>1, <2>5, LengthFacts
    <3> QED
      BY <2>1, <2>2, <2>3, <2>5, <3>1, BracketSearch
  <2> QED
    BY <2>4, <2>5
<1> QED
  BY <1>2, <1>3

LEMMA BracketFoundAgain ==
  ASSUME path \in Paths, NEW p \in 0..Length, NEW s \in 0..Length, p <= s,
         FullBracket(p) = nullopt \/ s < FullBracket(p).s
  PROVE  FullBracket(s) = FullBracket(p)
<1> DEFINE P == BracketHits(p, Length)
           S == BracketHits(s, Length)
<1>1. S = {x \in P : s < x} /\ P \subseteq Nat /\ Length \in 0..Length
  BY LengthFacts DEF BracketHits
<1>2. CASE P = {}
  BY <1>1, <1>2, BracketSearch DEF FullBracket
<1>3. CASE P # {}
  <2> DEFINE k == First(P)
  <2>1. k \in P /\ k \in p + 1..Length - 1 /\ BracketHit(k).s = k
    BY <1>1, <1>3, BracketIn
  <2>2. FullBracket(p) = BracketHit(k)
    BY <1>3, BracketSearch DEF FullBracket
  <2>3. BracketHit(k) # nullopt
    BY <2>1, LengthFacts DEF nullopt, Point
  <2>4. k \in S /\ First(S) = k
    BY <1>1, <1>3, <2>1, <2>2, <2>3, FirstKept
  <2> QED
    BY <2>2, <2>4, BracketSearch DEF FullBracket
<1> QED
  BY <1>2, <1>3

LEMMA SelectFacts ==
  ASSUME NEW a, NEW b
  PROVE  /\ select_switching_point(nullopt, b) = b
         /\ select_switching_point(a, nullopt) = a
         /\ a # nullopt /\ b # nullopt /\ a.s # b.s =>
              select_switching_point(a, b) = IF a.s < b.s THEN a ELSE b
         /\ select_switching_point(a, b) \in {a, b}
BY DEF select_switching_point

\* What the two parts of the search find is past the cursor and before the end.
LEMMA VelPartsIn ==
  ASSUME path \in Paths, NEW from \in 0..Length
  PROVE  /\ FullBoundary(from) # nullopt => FullBoundary(from).s \in from + 1..Length - 1
         /\ FullBracket(from) # nullopt => FullBracket(from).s \in from + 1..Length - 1
<1>1. FullBoundary(from) # nullopt => FullBoundary(from).s \in from + 1..Length - 1
  BY BoundaryIn, BoundarySearch DEF FullBoundary
<1>2. Length \in 0..Length
  BY LengthFacts
<1>3. FullBracket(from) # nullopt => FullBracket(from).s \in from + 1..Length - 1
  BY <1>2, BracketIn, BracketSearch DEF FullBracket
<1> QED
  BY <1>1, <1>3

\* Up to a hint, the search finds the earlier of what its two parts find.
LEMMA VelUpTo ==
  ASSUME path \in Paths, NEW from \in 0..Length, NEW hint \in 0..Length
  PROVE  find_velocity_switching_point(from, hint) =
           LET sp == select_switching_point(FullBoundary(from), FullBracket(from))
           IN  IF sp # nullopt /\ sp.s <= hint THEN sp ELSE nullopt
<1> DEFINE d == FullBoundary(from)
           c == FullBracket(from)
           sp == select_switching_point(d, c)
           found_d == find_discontinuous_velocity_switching_point(from, hint)
           bound == IF found_d = nullopt THEN hint ELSE found_d.s
           found_c == find_continuous_velocity_switching_point(from, bound)
<1> SUFFICES find_velocity_switching_point(from, hint) =
               IF sp # nullopt /\ sp.s <= hint THEN sp ELSE nullopt
  OBVIOUS
<1>1. find_velocity_switching_point(from, hint) = select_switching_point(found_d, found_c)
  BY DEF find_velocity_switching_point
<1>2. /\ d # nullopt => d.s \in from + 1..Length - 1
      /\ c # nullopt => c.s \in from + 1..Length - 1
  BY VelPartsIn
<1>3. found_d = IF d # nullopt /\ d.s <= hint THEN d ELSE nullopt
  BY BoundaryWithHint
<1>4. bound \in 0..Length
  BY <1>2, <1>3, LengthFacts
<1>5. found_c = IF c # nullopt /\ c.s <= bound THEN c ELSE nullopt
  BY <1>4, BracketWithHint
<1> HIDE DEF found_d, found_c, d, c
<1>6. CASE d # nullopt /\ d.s <= hint
  <2>1. found_d = d /\ bound = d.s
    BY <1>3, <1>6
  <2>2. CASE c # nullopt /\ c.s <= d.s
    <3>1. found_c = c
      BY <1>5, <2>1, <2>2
    <3>2. sp \in {c, d}
      BY SelectFacts
    <3>3. sp # nullopt /\ sp.s <= hint
      BY <1>2, <1>6, <2>2, <3>2, LengthFacts
    <3> QED
      BY <1>1, <2>1, <3>1, <3>3
  <2>3. CASE ~(c # nullopt /\ c.s <= d.s)
    <3>1. found_c = nullopt
      BY <1>5, <2>1, <2>3
    <3>2. sp = d
      <4>1. CASE c = nullopt
        BY <4>1, SelectFacts
      <4>2. CASE c # nullopt
        <5>1. d.s < c.s
          BY <1>2, <1>6, <2>3, <4>2, LengthFacts
        <5> QED
          BY <1>6, <4>2, <5>1, <1>2, SelectFacts, LengthFacts
      <4> QED
        BY <4>1, <4>2
    <3> QED
      BY <1>1, <1>6, <2>1, <3>1, <3>2, SelectFacts
  <2> QED
    BY <2>2, <2>3
<1>7. CASE ~(d # nullopt /\ d.s <= hint)
  <2>1. found_d = nullopt /\ bound = hint
    BY <1>3, <1>7
  <2>2. find_velocity_switching_point(from, hint) = found_c
    BY <1>1, <2>1, SelectFacts
  <2>3. CASE c # nullopt /\ c.s <= hint
    <3>1. found_c = c
      BY <1>5, <2>1, <2>3
    <3>2. sp = c
      <4>1. CASE d = nullopt
        BY <4>1, SelectFacts
      <4>2. CASE d # nullopt
        <5>1. c.s < d.s
          BY <1>2, <1>7, <2>3, <4>2, LengthFacts
        <5> QED
          BY <1>2, <2>3, <4>2, <5>1, SelectFacts, LengthFacts
      <4> QED
        BY <4>1, <4>2
    <3> QED
      BY <2>2, <2>3, <3>1, <3>2
  <2>4. CASE ~(c # nullopt /\ c.s <= hint)
    <3>1. found_c = nullopt
      BY <1>5, <2>1, <2>4
    <3>2. ~(sp # nullopt /\ sp.s <= hint)
      BY <1>7, <2>4, SelectFacts
    <3> QED
      BY <2>2, <3>1, <3>2
  <2> QED
    BY <2>3, <2>4
<1> QED
  BY <1>6, <1>7

LEMMA FullVelIs ==
  ASSUME path \in Paths, NEW from \in 0..Length
  PROVE  /\ FullVel(from) = select_switching_point(FullBoundary(from), FullBracket(from))
         /\ FullVel(from) # nullopt => FullVel(from).s \in from + 1..Length - 1
<1> DEFINE sp == select_switching_point(FullBoundary(from), FullBracket(from))
<1>1. sp # nullopt => sp.s \in from + 1..Length - 1
  BY VelPartsIn, SelectFacts
<1>2. FullVel(from) = IF sp # nullopt /\ sp.s <= Length THEN sp ELSE nullopt
  <2>1. Length \in 0..Length
    BY LengthFacts
  <2> QED
    BY <2>1, VelUpTo DEF FullVel
<1> HIDE DEF sp
<1>3. FullVel(from) = sp
  BY <1>1, <1>2, LengthFacts
<1> QED
  BY <1>1, <1>3 DEF sp

LEMMA VelWithHint ==
  ASSUME path \in Paths, NEW from \in 0..Length, NEW hint \in 0..Length
  PROVE  find_velocity_switching_point(from, hint) =
           IF FullVel(from) # nullopt /\ FullVel(from).s <= hint THEN FullVel(from) ELSE nullopt
BY VelUpTo, FullVelIs

LEMMA VelFoundAgain ==
  ASSUME path \in Paths, NEW p \in 0..Length, NEW s \in 0..Length, p <= s,
         FullVel(p) = nullopt \/ s < FullVel(p).s
  PROVE  FullVel(s) = FullVel(p)
<1> DEFINE d == FullBoundary(p)
           c == FullBracket(p)
<1>1. /\ d # nullopt => d.s \in p + 1..Length - 1
      /\ c # nullopt => c.s \in p + 1..Length - 1
  BY VelPartsIn
<1>2. FullVel(p) = select_switching_point(d, c)
  BY FullVelIs
<1> HIDE DEF d, c
<1>3. (d = nullopt \/ s < d.s) /\ (c = nullopt \/ s < c.s)
  <2>1. CASE d = nullopt \/ c = nullopt
    BY <1>2, <2>1, SelectFacts
  <2>2. CASE d # nullopt /\ c # nullopt /\ d.s = c.s
    <3>1. select_switching_point(d, c) \in {d, c}
      BY SelectFacts
    <3> QED
      BY <1>2, <2>2, <3>1
  <2>3. CASE d # nullopt /\ c # nullopt /\ d.s # c.s
    <3>1. FullVel(p) = (IF d.s < c.s THEN d ELSE c)
      BY <1>2, <2>3, SelectFacts
    <3> QED
      BY <1>1, <2>3, <3>1, LengthFacts
  <2> QED
    BY <2>1, <2>2, <2>3
<1>4. FullBoundary(s) = d /\ FullBracket(s) = c
  BY <1>3, BoundaryFoundAgain, BracketFoundAgain DEF d, c
<1> QED
  BY <1>2, <1>4, FullVelIs

-----------------------------------------------------------------------------
(* The search with its cache *)

LEMMA FullAccIn ==
  ASSUME path \in Paths, NEW from \in 0..Length
  PROVE  FullAcc(from) # nullopt => FullAcc(from).s \in from..Length - 1
<1>1. CASE AccHits(from, Length) = {}
  BY <1>1, AccSearch DEF FullAcc
<1>2. CASE AccHits(from, Length) # {}
  <2>1. First(AccHits(from, Length)) \in AccHits(from, Length)
    BY <1>2, HitsAreSegments, FirstOf
  <2> QED
    BY <1>2, <2>1, AccSearch, AccHitIn DEF FullAcc
<1> QED
  BY <1>1, <1>2

\* An entry tells what a complete search from s would find, or nothing.
Faithful(entry, s, full) ==
  \/ entry = nullopt
  \/ entry.s <= s
  \/ entry = k_path_end_sentinel /\ full = nullopt
  \/ entry = full

\* From wherever the next search starts.
CacheInv ==
  /\ position \in 0..Length
  /\ \A s \in position..Length :
       Faithful(cache.next_accel, s, FullAcc(s)) /\ Faithful(cache.next_vel, s, FullVel(s))

\* An entry that tells all: the result of the complete search, or that it has none.
Exact(entry, full) ==
  \/ entry = k_path_end_sentinel /\ full = nullopt
  \/ entry = full /\ full # nullopt

LEMMA PointFacts ==
  ASSUME path \in Paths
  PROVE  /\ nullopt.s = -1 /\ k_path_end_sentinel.s = Length /\ k_path_end_sentinel # nullopt
         /\ k_path_end_sentinel.s_dot = 0 /\ k_path_end_sentinel.kind = "path_end"
BY LengthFacts DEF nullopt, k_path_end_sentinel, Point

LEMMA ValidEntry ==
  ASSUME path \in Paths, NEW s \in 0..Length, NEW full, NEW entry, Faithful(entry, s, full)
  PROVE  \/ Valid(entry, s) = nullopt
         \/ Exact(Valid(entry, s), full) /\ Valid(entry, s) # nullopt
BY PointFacts, LengthFacts DEF Faithful, Exact, Valid

\* What is past the next cursors, and exact at this one, stays faithful.
LEMMA StaysFaithful ==
  ASSUME path \in Paths, NEW s \in 0..Length, NEW t \in s..Length
  PROVE  /\ \A entry : entry = nullopt \/ Exact(entry, FullAcc(s)) => Faithful(entry, t, FullAcc(t))
         /\ \A entry : entry = nullopt \/ Exact(entry, FullVel(s)) => Faithful(entry, t, FullVel(t))
<1>1. t \in 0..Length /\ s <= t
  BY LengthFacts
<1>2. FullAcc(s) = nullopt \/ t < FullAcc(s).s => FullAcc(t) = FullAcc(s)
  BY <1>1, AccFoundAgain
<1>3. FullVel(s) = nullopt \/ t < FullVel(s).s => FullVel(t) = FullVel(s)
  BY <1>1, VelFoundAgain
<1>4. /\ FullAcc(s) # nullopt => FullAcc(s).s \in Nat
      /\ FullVel(s) # nullopt => FullVel(s).s \in Nat
  BY FullAccIn, FullVelIs, LengthFacts
<1>5. ASSUME NEW entry, entry = nullopt \/ Exact(entry, FullAcc(s))
      PROVE  Faithful(entry, t, FullAcc(t))
  BY <1>1, <1>2, <1>4, <1>5, LengthFacts DEF Exact, Faithful
<1>6. ASSUME NEW entry, entry = nullopt \/ Exact(entry, FullVel(s))
      PROVE  Faithful(entry, t, FullVel(t))
  BY <1>1, <1>3, <1>4, <1>6, LengthFacts DEF Exact, Faithful
<1> QED
  BY <1>5, <1>6

\* Each search is exact, or finds nothing because the other has found something nearer.
Settled(accel, vel, s) ==
  \/ Exact(accel, FullAcc(s)) /\ Exact(vel, FullVel(s))
  \/ /\ Exact(accel, FullAcc(s)) /\ vel = nullopt
     /\ FullAcc(s) # nullopt
     /\ FullVel(s) = nullopt \/ FullVel(s).s > FullAcc(s).s
  \/ /\ accel = nullopt /\ Exact(vel, FullVel(s))
     /\ FullVel(s) # nullopt
     /\ FullAcc(s) = nullopt \/ FullAcc(s).s > FullVel(s).s

LEMMA SearchSettles ==
  ASSUME path \in Paths, NEW s \in 0..Length,
         Faithful(cache.next_accel, s, FullAcc(s)), Faithful(cache.next_vel, s, FullVel(s))
  PROVE  Settled(Searched(s).next_accel, Searched(s).next_vel, s)
<1> DEFINE vel0 == Valid(cache.next_vel, s)
           acc0 == Valid(cache.next_accel, s)
           accel == IF acc0 # nullopt THEN acc0
                    ELSE Cached(find_acceleration_switching_point(s, BoundBy(vel0)), BoundBy(vel0))
           vel == IF vel0 # nullopt THEN vel0
                  ELSE Cached(find_velocity_switching_point(s, BoundBy(accel)), BoundBy(accel))
<1>1. Searched(s).next_accel = accel /\ Searched(s).next_vel = vel
  BY DEF Searched
<1>2. /\ FullAcc(s) # nullopt => FullAcc(s).s \in s..Length - 1
      /\ FullVel(s) # nullopt => FullVel(s).s \in s + 1..Length - 1
  BY FullAccIn, FullVelIs
<1>3. /\ acc0 = nullopt \/ (Exact(acc0, FullAcc(s)) /\ acc0 # nullopt)
      /\ vel0 = nullopt \/ (Exact(vel0, FullVel(s)) /\ vel0 # nullopt)
  BY ValidEntry
<1> HIDE DEF acc0, vel0
<1>4. \A e : e = nullopt \/ Exact(e, FullVel(s)) \/ Exact(e, FullAcc(s)) => BoundBy(e) \in 0..Length
  BY <1>2, PointFacts, LengthFacts DEF BoundBy, Exact
<1>5. \/ Exact(accel, FullAcc(s)) /\ accel # nullopt
      \/ /\ accel = nullopt /\ vel0 = FullVel(s) /\ FullVel(s) # nullopt
         /\ FullAcc(s) = nullopt \/ FullAcc(s).s > FullVel(s).s
  <2>1. CASE acc0 # nullopt
    BY <1>3, <2>1
  <2>2. CASE acc0 = nullopt
    <3> DEFINE bound == BoundBy(vel0)
               result == find_acceleration_switching_point(s, bound)
    <3>1. bound \in 0..Length
      BY <1>3, <1>4
    <3>2. result = FullAcc(s) \/ (result = nullopt /\ FullAcc(s).s > bound)
      BY <3>1, AccWithHint
    <3>3. accel = Cached(result, bound)
      BY <2>2
    <3>4. bound = Length \/ (vel0 = FullVel(s) /\ FullVel(s) # nullopt /\ bound = FullVel(s).s)
      BY <1>3, PointFacts DEF BoundBy, Exact
    <3> HIDE DEF bound, result, accel
    <3>5. CASE result # nullopt
      BY <3>2, <3>3, <3>5, PointFacts DEF Cached, Exact
    <3>6. CASE result = nullopt /\ bound = Length
      <4>1. FullAcc(s) = nullopt
        BY <1>2, <3>2, <3>6, LengthFacts
      <4> QED
        BY <3>3, <3>6, <4>1, PointFacts DEF Cached, Exact
    <3>7. CASE result = nullopt /\ bound # Length
      BY <3>2, <3>3, <3>4, <3>7 DEF Cached
    <3> QED
      BY <3>5, <3>6, <3>7
  <2> QED
    BY <2>1, <2>2
<1> HIDE DEF accel
<1>6. CASE vel0 # nullopt
  <2>1. vel = vel0 /\ Exact(vel, FullVel(s))
    BY <1>3, <1>6
  <2> QED
    BY <1>1, <1>5, <2>1 DEF Settled
<1>7. CASE vel0 = nullopt
  <2> DEFINE bound == BoundBy(accel)
             result == find_velocity_switching_point(s, bound)
  <2>1. Exact(accel, FullAcc(s)) /\ accel # nullopt
    BY <1>5, <1>7
  <2>2. bound \in 0..Length
    BY <1>4, <2>1
  <2>3. result = IF FullVel(s) # nullopt /\ FullVel(s).s <= bound THEN FullVel(s) ELSE nullopt
    BY <2>2, VelWithHint
  <2>4. vel = Cached(result, bound)
    BY <1>7
  <2>5. \/ bound = Length /\ FullAcc(s) = nullopt
        \/ FullAcc(s) # nullopt /\ bound = FullAcc(s).s /\ bound < Length
    BY <1>2, <2>1, PointFacts, LengthFacts DEF BoundBy, Exact
  <2> HIDE DEF bound, result, vel
  <2>6. CASE result # nullopt
    <3>1. Exact(vel, FullVel(s))
      BY <2>3, <2>4, <2>6, PointFacts DEF Cached, Exact
    <3> QED
      BY <1>1, <2>1, <3>1 DEF Settled
  <2>7. CASE result = nullopt /\ bound = Length
    <3>1. FullVel(s) = nullopt
      BY <1>2, <2>3, <2>7, LengthFacts
    <3>2. Exact(vel, FullVel(s))
      BY <2>4, <2>7, <3>1 DEF Cached, Exact
    <3> QED
      BY <1>1, <2>1, <3>2 DEF Settled
  <2>8. CASE result = nullopt /\ bound # Length
    <3>1. vel = nullopt /\ FullAcc(s) # nullopt /\ bound = FullAcc(s).s
      BY <2>4, <2>5, <2>8 DEF Cached
    <3>2. FullVel(s) = nullopt \/ FullVel(s).s > FullAcc(s).s
      BY <1>2, <2>2, <2>3, <2>8, <3>1, LengthFacts
    <3> QED
      BY <1>1, <2>1, <3>1, <3>2 DEF Settled
  <2> QED
    BY <2>6, <2>7, <2>8
<1> QED
  BY <1>6, <1>7

\* The path, and with it all that a complete search finds, stays.
LEMMA PathKept ==
  ASSUME path' = path
  PROVE  /\ Length' = Length /\ Segments' = Segments
         /\ \A s : SegmentAt(s)' = SegmentAt(s)
         /\ \A s : Acc(s)' = Acc(s) /\ Vel(s)' = Vel(s) /\ Delta(s)' = Delta(s)
<1>1. Length' = Length /\ Segments' = Segments
  BY DEF Length, Segments
<1>2. \A s : SegmentAt(s)' = SegmentAt(s)
  BY DEF SegmentAt, Segments
<1> QED
  BY <1>1, <1>2 DEF Acc, Vel, Delta

LEMMA SearchesKept ==
  ASSUME path' = path
  PROVE  \A s : FullAcc(s)' = FullAcc(s) /\ FullVel(s)' = FullVel(s)
<1> SUFFICES ASSUME NEW s PROVE FullAcc(s)' = FullAcc(s) /\ FullVel(s)' = FullVel(s)
  OBVIOUS
<1>1. /\ Length' = Length
      /\ \A t : SegmentAt(t)' = SegmentAt(t)
      /\ \A t : Acc(t)' = Acc(t) /\ Vel(t)' = Vel(t) /\ Delta(t)' = Delta(t)
  BY PathKept
<1>2. \A k : /\ Joined(k)' <=> Joined(k)
             /\ LowerAcc(k)' = LowerAcc(k) /\ LowerVel(k)' = LowerVel(k)
  BY DEF Joined, LowerAcc, LowerVel
<1>3. \A k, t : (FallsTo(k, t)' <=> FallsTo(k, t)) /\ (RisesFrom(k, t)' <=> RisesFrom(k, t))
  BY <1>2 DEF FallsTo, RisesFrom
<1>4. \A k : Extrema(k, s)' = Extrema(k, s)
  BY <1>3 DEF Extrema
<1>5. \A k : Discontinuous(k)' <=> Discontinuous(k)
  BY <1>2 DEF Discontinuous
<1>6. AccHits(s, Length)' = AccHits(s, Length)
  BY <1>1, <1>4, <1>5 DEF AccHits, Walked, EndHits
<1>7. \A k : AccHit(k, s)' = AccHit(k, s)
  BY <1>2, <1>4 DEF AccHit
<1>8. FullAcc(s)' = FullAcc(s)
  BY <1>6, <1>7 DEF FullAcc, find_acceleration_switching_point, AccHits, Walked, EndHits, AccHit
<1>9. \A k : (Escapes(k)' <=> Escapes(k)) /\ BoundaryHit(k)' = BoundaryHit(k)
  BY <1>2 DEF Escapes, BoundaryHit
<1>10. \A t : (Bracket(t)' <=> Bracket(t)) /\ BracketHit(t)' = BracketHit(t)
  BY <1>1 DEF Bracket, BracketHit
<1>11. \A h : BoundaryHits(s, h)' = BoundaryHits(s, h) /\ BracketHits(s, h)' = BracketHits(s, h)
  BY <1>1, <1>9, <1>10 DEF BoundaryHits, BracketHits
<1>12. \A h : find_discontinuous_velocity_switching_point(s, h)' =
                find_discontinuous_velocity_switching_point(s, h)
  BY <1>9, <1>11 DEF find_discontinuous_velocity_switching_point, BoundaryHits, BoundaryHit
<1>13. \A h : find_continuous_velocity_switching_point(s, h)' =
                find_continuous_velocity_switching_point(s, h)
  BY <1>10, <1>11 DEF find_continuous_velocity_switching_point, BracketHits, BracketHit
<1>14. FullVel(s)' = FullVel(s)
  BY <1>1, <1>12, <1>13 DEF FullVel, find_velocity_switching_point
<1> QED
  BY <1>8, <1>14

\* The earlier of what both searches find is chosen as if both were complete.
LEMMA SelectionSettled ==
  ASSUME path \in Paths, NEW s \in 0..Length, NEW entries,
         Settled(entries.next_accel, entries.next_vel, s)
  PROVE  Selected(entries) = Selected([next_accel |-> FullAcc(s), next_vel |-> FullVel(s)])
<1> DEFINE a == entries.next_accel
           v == entries.next_vel
           A == FullAcc(s)
           V == FullVel(s)
           Chosen(x, y) == IF select_switching_point(x, y) = nullopt THEN k_path_end_sentinel
                           ELSE select_switching_point(x, y)
<1>1. /\ A # nullopt => A.s \in s..Length - 1
      /\ V # nullopt => V.s \in s + 1..Length - 1
  BY FullAccIn, FullVelIs
<1>2. Settled(a, v, s)
  OBVIOUS
<1>3. SUFFICES Chosen(a, v) = Chosen(A, V)
  BY DEF Selected
<1> HIDE DEF a, v, A, V
<1>4. CASE Exact(a, A) /\ Exact(v, V)
  <2>1. CASE A # nullopt /\ V # nullopt
    BY <1>4, <2>1 DEF Exact
  <2>2. CASE A = nullopt /\ V = nullopt
    <3>1. a = k_path_end_sentinel /\ v = k_path_end_sentinel
      BY <1>4, <2>2 DEF Exact
    <3> QED
      BY <2>2, <3>1, SelectFacts
  <2>3. CASE A = nullopt /\ V # nullopt
    <3>1. a = k_path_end_sentinel /\ v = V
      BY <1>4, <2>3 DEF Exact
    <3>2. V.s < a.s /\ ~(a.s < V.s)
      BY <1>1, <2>3, <3>1, PointFacts, LengthFacts
    <3>3. select_switching_point(a, v) = V /\ select_switching_point(A, V) = V
      BY <2>3, <3>1, <3>2, SelectFacts, PointFacts
    <3> QED
      BY <3>3
  <2>4. CASE A # nullopt /\ V = nullopt
    <3>1. a = A /\ v = k_path_end_sentinel
      BY <1>4, <2>4 DEF Exact
    <3>2. A.s < v.s /\ A.s # v.s
      BY <1>1, <2>4, <3>1, PointFacts, LengthFacts
    <3>3. select_switching_point(a, v) = A /\ select_switching_point(A, V) = A
      BY <2>4, <3>1, <3>2, SelectFacts, PointFacts
    <3> QED
      BY <3>3
  <2> QED
    BY <2>1, <2>2, <2>3, <2>4
<1>5. CASE Exact(a, A) /\ v = nullopt /\ A # nullopt /\ (V = nullopt \/ V.s > A.s)
  <2>1. a = A
    BY <1>5 DEF Exact
  <2>2. V # nullopt => A.s < V.s /\ A.s # V.s
    BY <1>1, <1>5, LengthFacts
  <2>3. select_switching_point(A, V) = A /\ select_switching_point(a, v) = A
    BY <1>5, <2>1, <2>2, SelectFacts
  <2> QED
    BY <2>3
<1>6. CASE a = nullopt /\ Exact(v, V) /\ V # nullopt /\ (A = nullopt \/ A.s > V.s)
  <2>1. v = V
    BY <1>6 DEF Exact
  <2>2. A # nullopt => V.s < A.s /\ ~(A.s < V.s)
    BY <1>1, <1>6, LengthFacts
  <2>3. select_switching_point(A, V) = V /\ select_switching_point(a, v) = V
    BY <1>6, <2>1, <2>2, SelectFacts
  <2> QED
    BY <2>3
<1> QED
  BY <1>2, <1>4, <1>5, <1>6 DEF Settled, A, V

\* A search leaves entries that are faithful from wherever the next one starts, and finds
\* what two complete searches do.
LEMMA SearchFinds ==
  ASSUME path \in Paths, CacheInv, NEW s \in position..Length
  PROVE  /\ \A t \in s..Length :
              /\ Faithful(Searched(s).next_accel, t, FullAcc(t))
              /\ Faithful(Searched(s).next_vel, t, FullVel(t))
         /\ Selected(Searched(s)) = Selected([next_accel |-> FullAcc(s), next_vel |-> FullVel(s)])
<1>1. s \in 0..Length
  BY LengthFacts DEF CacheInv
<1>2. Settled(Searched(s).next_accel, Searched(s).next_vel, s)
  BY <1>1, SearchSettles DEF CacheInv
<1>3. ASSUME NEW t \in s..Length
      PROVE  /\ Faithful(Searched(s).next_accel, t, FullAcc(t))
             /\ Faithful(Searched(s).next_vel, t, FullVel(t))
  BY <1>1, <1>2, StaysFaithful DEF Settled
<1> QED
  BY <1>1, <1>2, <1>3, SelectionSettled

LEMMA CacheIsTransparent == path \in Paths /\ CacheInv => CacheTransparent
BY SearchFinds DEF CacheTransparent, FullAcc, FullVel

LEMMA SearchKeepsCache ==
  ASSUME path \in Paths, path' = path, CacheInv, NEW s \in position..Length, find_switching_point(s)
  PROVE  CacheInv'
<1>1. s \in 0..Length
  BY LengthFacts DEF CacheInv
<1>2. Length' = Length /\ k_path_end_sentinel' = k_path_end_sentinel
  BY PathKept DEF k_path_end_sentinel
<1>3. position' = s /\ cache' = Searched(s)
  BY DEF find_switching_point
<1>4. ASSUME NEW t \in s..Length
      PROVE  /\ Faithful(cache.next_accel, t, FullAcc(t))'
             /\ Faithful(cache.next_vel, t, FullVel(t))'
  BY <1>2, <1>3, <1>4, SearchFinds, SearchesKept DEF Faithful
<1> QED
  BY <1>1, <1>2, <1>3, <1>4 DEF CacheInv

\* Going on along the path, the cursor leaves the cache as faithful as it was.
LEMMA MovingKeepsCache ==
  ASSUME path \in Paths, path' = path, CacheInv, cache' = cache, position' \in position..Length
  PROVE  CacheInv'
<1>1. position' \in 0..Length /\ position'..Length \subseteq position..Length
  BY LengthFacts DEF CacheInv
<1>2. Length' = Length /\ k_path_end_sentinel' = k_path_end_sentinel
  BY PathKept DEF k_path_end_sentinel
<1>3. ASSUME NEW t \in position'..Length
      PROVE  /\ Faithful(cache.next_accel, t, FullAcc(t))'
             /\ Faithful(cache.next_vel, t, FullVel(t))'
  BY <1>1, <1>2, <1>3, SearchesKept DEF Faithful, CacheInv
<1> QED
  BY <1>1, <1>2, <1>3 DEF CacheInv

\* A point where the integration may start again: on the path, under both limit curves, and
\* at rest if it is the end.
SwitchPoint(p) ==
  /\ p.s \in 0..Length /\ p.s_dot \in Nat
  /\ Under(p)
  /\ p.kind = "path_end" => p.s = Length /\ p.s_dot = 0

\* Limits next to a boundary: that at it is that of the later segment.
LEMMA LimitsAtBoundary ==
  ASSUME path \in Paths, NEW k \in 1..Len(path) - 1
  PROVE  /\ Acc(path[k].end) = path[k + 1].acc[path[k].end]
         /\ Vel(path[k].end) = path[k + 1].vel[path[k].end]
         /\ path[k].acc[path[k].end] \in Nat /\ path[k + 1].acc[path[k].end] \in Nat
         /\ path[k].vel[path[k].end] \in Nat /\ path[k + 1].vel[path[k].end] \in Nat
<1>1. /\ k \in Segments /\ k + 1 \in Segments /\ SegmentAt(path[k].end) = k + 1
      /\ path[k + 1].start = path[k].end
  BY SegmentAfter, SegmentFacts
<1>2. Segment(path[k]) /\ Segment(path[k + 1])
  BY <1>1, PathFacts
<1>3. path[k].end \in path[k].start..path[k].end /\ path[k].end \in path[k + 1].start..path[k + 1].end
  BY <1>1, SegmentFacts
<1> QED
  BY <1>1, <1>2, <1>3 DEF Acc, Vel, Segment

LEMMA LowerFacts ==
  ASSUME path \in Paths, NEW k \in 1..Len(path) - 1
  PROVE  /\ LowerAcc(k) \in Nat /\ LowerAcc(k) <= path[k + 1].acc[path[k].end]
         /\ LowerVel(k) \in Nat /\ LowerVel(k) <= path[k + 1].vel[path[k].end]
<1> DEFINE a == path[k].acc[path[k].end]
           b == path[k + 1].acc[path[k].end]
           c == path[k].vel[path[k].end]
           d == path[k + 1].vel[path[k].end]
<1>1. a \in Nat /\ b \in Nat /\ c \in Nat /\ d \in Nat
  BY LimitsAtBoundary
<1>2. LowerAcc(k) = Smaller(a, b) /\ LowerVel(k) = Smaller(c, d)
  BY DEF LowerAcc, LowerVel
<1> HIDE DEF a, b, c, d
<1>3. Smaller(a, b) \in Nat /\ Smaller(a, b) <= b /\ Smaller(c, d) \in Nat /\ Smaller(c, d) <= d
  BY <1>1 DEF Smaller
<1> QED
  BY <1>2, <1>3 DEF b, d

\* At the end of a circular segment, an extremum is under the next velocity curve too.
LEMMA ExtremumUnder ==
  ASSUME path \in Paths, NEW k \in Segments, NEW from, NEW s \in Extrema(k, from)
  PROVE  /\ s \in 0..Length /\ path[k].acc[s] \in Nat
         /\ path[k].acc[s] <= Acc(s) /\ path[k].acc[s] <= Vel(s)
<1>1. s \in path[k].start..path[k].end /\ path[k].start \in Nat /\ path[k].end \in Nat
  BY ExtremaIn, SegmentFacts
<1>2. path[k].acc[s] \in Nat /\ path[k].vel[s] \in Nat
  BY <1>1, PathFacts DEF Segment
<1>3. path[k].acc[s] <= path[k].vel[s] /\ s \in path[k].turns /\ RisesFrom(k, s)
  BY DEF Extrema
<1>4. s \in 0..Length
  BY <1>1, LengthFacts
<1>5. CASE s < path[k].end
  <2>1. SegmentAt(s) = k
    BY <1>1, <1>4, <1>5, SegmentUnique
  <2> QED
    BY <1>2, <1>3, <1>4, <2>1 DEF Acc, Vel
<1>6. CASE s = path[k].end
  <2>1. k \in 1..Len(path) - 1 /\ path[k].acc[s] = path[k + 1].acc[s]
    BY <1>1, <1>3, <1>6 DEF RisesFrom, Joined
  <2>2. path[k].vel[s] <= path[k + 1].vel[s]
    BY <1>3, <1>6, <2>1, TangentAssumption
  <2>3. Acc(s) = path[k + 1].acc[s] /\ Vel(s) = path[k + 1].vel[s] /\ path[k + 1].vel[s] \in Nat
    BY <1>6, <2>1, LimitsAtBoundary
  <2> QED
    BY <1>2, <1>3, <1>4, <2>1, <2>2, <2>3
<1> QED
  BY <1>1, <1>5, <1>6

LEMMA AccSwitchPoint ==
  ASSUME path \in Paths, NEW from \in 0..Length, FullAcc(from) # nullopt
  PROVE  SwitchPoint(FullAcc(from))
<1>1. PICK k \in Segments : k \in AccHits(from, Length) /\ FullAcc(from) = AccHit(k, from)
  <2>1. AccHits(from, Length) # {}
    BY AccSearch DEF FullAcc
  <2> QED
    BY <2>1, AccSearch, HitsAreSegments, FirstOf DEF FullAcc
<1>2. CASE Extrema(k, from) # {}
  <2> DEFINE s == First(Extrema(k, from))
  <2>1. s \in Extrema(k, from)
    BY <1>2, ExtremaIn, FirstOf
  <2>2. FullAcc(from) = Point(s, path[k].acc[s], "nondifferentiable_extremum", TRUE)
    BY <1>1, <1>2 DEF AccHit
  <2> HIDE DEF s
  <2>3. /\ s \in 0..Length /\ path[k].acc[s] \in Nat
        /\ path[k].acc[s] <= Acc(s) /\ path[k].acc[s] <= Vel(s)
    BY <2>1, ExtremumUnder
  <2> QED
    BY <2>2, <2>3 DEF SwitchPoint, Under, Point
<1>3. CASE Extrema(k, from) = {}
  <2>1. FullAcc(from) = Point(path[k].end, LowerAcc(k), "discontinuous_curvature", TRUE)
    BY <1>1, <1>3 DEF AccHit
  <2>2. k \in 1..Len(path) - 1 /\ LowerAcc(k) <= LowerVel(k)
    BY <1>1, <1>3, SegmentFacts DEF AccHits, EndHits, Discontinuous
  <2>3. /\ LowerAcc(k) <= Acc(path[k].end) /\ LowerVel(k) <= Vel(path[k].end)
        /\ LowerAcc(k) \in Nat /\ LowerVel(k) \in Nat /\ path[k].end \in 0..Length
    BY <2>2, LimitsAtBoundary, LowerFacts, SegmentAfter
  <2>4. Vel(path[k].end) \in Nat
    BY <2>3, CurvesAt
  <2> QED
    BY <2>1, <2>2, <2>3, <2>4 DEF SwitchPoint, Under, Point
<1> QED
  BY <1>2, <1>3

LEMMA VelSwitchPoint ==
  ASSUME path \in Paths, NEW from \in 0..Length, FullVel(from) # nullopt
  PROVE  SwitchPoint(FullVel(from))
<1>1. CASE FullVel(from) = FullBoundary(from)
  <2> DEFINE k == First(BoundaryHits(from, Length))
  <2>1. BoundaryHits(from, Length) # {} /\ FullBoundary(from) = BoundaryHit(k)
    BY <1>1, BoundarySearch DEF FullBoundary
  <2>2. k \in BoundaryHits(from, Length)
    BY <2>1, BoundaryIn
  <2> HIDE DEF k
  <2>3. k \in 1..Len(path) - 1 /\ (path[k].corner \/ Escapes(k))
    BY <2>2 DEF BoundaryHits
  <2> DEFINE s == path[k].end
             s_dot == IF path[k].corner THEN 0 ELSE LowerVel(k)
  <2>4. s \in 0..Length /\ Acc(s) \in Nat /\ Vel(s) \in Nat
    BY <2>3, SegmentAfter, CurvesAt
  <2>5. s_dot \in Nat /\ s_dot <= Acc(s) /\ s_dot <= Vel(s)
    <3>1. CASE path[k].corner
      BY <2>4, <3>1
    <3>2. CASE ~path[k].corner
      <4>1. path[k + 1].acc[s] > path[k + 1].vel[s]
        BY <2>3, <3>2 DEF Escapes
      <4>2. Acc(s) = path[k + 1].acc[s] /\ Vel(s) = path[k + 1].vel[s]
        BY <2>3, LimitsAtBoundary
      <4>3. LowerVel(k) \in Nat /\ LowerVel(k) <= path[k + 1].vel[s]
        BY <2>3, LowerFacts
      <4> QED
        BY <2>4, <3>2, <4>1, <4>2, <4>3
    <3> QED
      BY <3>1, <3>2
  <2>6. FullVel(from) = Point(s, s_dot, "discontinuous_velocity_limit", FALSE)
    BY <1>1, <2>1 DEF BoundaryHit
  <2> HIDE DEF s, s_dot
  <2> QED
    BY <2>4, <2>5, <2>6 DEF SwitchPoint, Under, Point
<1>2. CASE FullVel(from) = FullBracket(from)
  <2> DEFINE s == First(BracketHits(from, Length))
  <2>1. BracketHits(from, Length) # {} /\ FullBracket(from) = BracketHit(s)
    BY <1>2, BracketSearch DEF FullBracket
  <2>2. Length \in 0..Length
    BY LengthFacts
  <2>3. s \in BracketHits(from, Length) /\ s \in from + 1..Length - 1
    BY <2>1, <2>2, BracketIn
  <2> HIDE DEF s
  <2>4. Vel(s) <= Acc(s) /\ s \in 0..Length
    BY <2>3, LengthFacts DEF BracketHits
  <2>5. FullVel(from) = Point(s, Vel(s), "velocity_escape", FALSE)
    BY <1>2, <2>1 DEF BracketHit
  <2>6. Vel(s) \in Nat
    BY <2>4, CurvesAt
  <2> QED
    BY <2>4, <2>5, <2>6 DEF SwitchPoint, Under, Point
<1>3. FullVel(from) \in {FullBoundary(from), FullBracket(from)}
  BY FullVelIs, SelectFacts
<1> QED
  BY <1>1, <1>2, <1>3

\* What a search returns is a switching point that is not before the cursor.
LEMMA SearchReturns ==
  ASSUME path \in Paths, CacheInv, NEW s \in position..Length
  PROVE  SwitchPoint(Selected(Searched(s))) /\ Selected(Searched(s)).s >= s
<1> DEFINE sp == select_switching_point(FullAcc(s), FullVel(s))
<1>1. s \in 0..Length
  BY LengthFacts DEF CacheInv
<1>2. Selected(Searched(s)) = IF sp = nullopt THEN k_path_end_sentinel ELSE sp
  BY SearchFinds DEF Selected
<1>3. CASE sp = nullopt
  <2>1. Length \in 0..Length /\ Acc(Length) \in Nat /\ Vel(Length) \in Nat
    BY LengthFacts, CurvesAt
  <2> QED
    BY <1>1, <1>2, <1>3, <2>1, LengthFacts DEF SwitchPoint, Under, k_path_end_sentinel, Point
<1>4. CASE sp # nullopt
  <2>1. sp \in {FullAcc(s), FullVel(s)}
    BY SelectFacts
  <2>2. SwitchPoint(sp)
    BY <1>1, <1>4, <2>1, AccSwitchPoint, VelSwitchPoint
  <2>3. sp.s >= s
    BY <1>1, <1>4, <2>1, FullAccIn, FullVelIs, LengthFacts
  <2> QED
    BY <1>2, <1>4, <2>2, <2>3
<1> QED
  BY <1>3, <1>4

-----------------------------------------------------------------------------
(* The integration points *)

Accelerations == ({"to"} \X Nat \X Nat) \cup {Given, NaN}
IPoint == [time : Int, s : Nat, s_dot : Nat, s_ddot : Accelerations]

\* p leads on to q.
Leads(p, q) ==
  /\ p.s < q.s /\ q.time = p.time + Dt(p, q)
  /\ p.s_ddot = To(q)
  /\ Under(p)

\* Points from rest at the start, each leading on to the next.
Trajectory(ps) ==
  /\ ps \in Seq(IPoint)
  /\ ps # <<>> => ps[1].s = 0 /\ ps[1].s_dot = 0 /\ ps[1].time = 0
  /\ \A i \in 1..Len(ps) - 1 : Leads(ps[i], ps[i + 1])

LEMMA PointTyped ==
  ASSUME NEW time \in Int, NEW p, p.s \in Nat, p.s_dot \in Nat, NEW a \in Accelerations
  PROVE  /\ IntegrationPoint(time, p, a) \in IPoint
         /\ IntegrationPoint(time, p, a).time = time
         /\ IntegrationPoint(time, p, a).s = p.s /\ IntegrationPoint(time, p, a).s_dot = p.s_dot
         /\ IntegrationPoint(time, p, a).s_ddot = a
         /\ To(p) \in Accelerations /\ To(IntegrationPoint(time, p, a)) = To(p)
         /\ Under(IntegrationPoint(time, p, a)) <=> Under(p)
BY DEF IntegrationPoint, IPoint, Accelerations, To, Under

\* A point that the last one leads on to continues a trajectory.
LEMMA TrajectoryGrows ==
  ASSUME NEW ps, Trajectory(ps), NEW q \in IPoint,
         IF ps = <<>> THEN q.s = 0 /\ q.s_dot = 0 /\ q.time = 0 ELSE Leads(ps[Len(ps)], q)
  PROVE  /\ Trajectory(Append(ps, q))
         /\ Append(ps, q) # <<>> /\ Len(Append(ps, q)) = Len(ps) + 1
         /\ Last(Append(ps, q)) = q
<1> DEFINE r == Append(ps, q)
           n == Len(ps)
<1>1. ps \in Seq(IPoint) /\ n \in Nat
  BY DEF Trajectory
<1>2. r \in Seq(IPoint) /\ Len(r) = n + 1 /\ r[n + 1] = q /\ \A i \in 1..n : r[i] = ps[i]
  BY <1>1
<1>3. r # <<>> /\ Last(r) = q
  BY <1>1, <1>2 DEF Last
<1>4. ps = <<>> => n = 0
  BY <1>1
<1>5. ps # <<>> => n >= 1
  BY <1>1
<1> HIDE DEF r, n
<1>6. r[1].s = 0 /\ r[1].s_dot = 0 /\ r[1].time = 0
  <2>1. CASE ps = <<>>
    BY <1>2, <1>4, <2>1
  <2>2. CASE ps # <<>>
    BY <1>1, <1>2, <1>5, <2>2 DEF Trajectory
  <2> QED
    BY <2>1, <2>2
<1>7. ASSUME NEW i \in 1..Len(r) - 1 PROVE Leads(r[i], r[i + 1])
  <2>1. CASE i = n
    <3>1. ps # <<>> /\ r[i] = ps[Len(ps)] /\ r[i + 1] = q
      BY <1>1, <1>2, <1>4, <1>7, <2>1 DEF n
    <3> QED
      BY <3>1
  <2>2. CASE i < n
    <3>1. i \in 1..Len(ps) - 1 /\ r[i] = ps[i] /\ r[i + 1] = ps[i + 1]
      BY <1>1, <1>2, <1>7, <2>2 DEF n
    <3> QED
      BY <3>1 DEF Trajectory
  <2> QED
    BY <1>1, <1>2, <2>1, <2>2
<1>8. Trajectory(r)
  BY <1>2, <1>6, <1>7 DEF Trajectory
<1> QED
  BY <1>2, <1>3, <1>8 DEF r, n

\* Without its last point it still is one, and its new last point led on to that.
LEMMA TrajectoryShrinks ==
  ASSUME NEW ps, Trajectory(ps), Len(ps) >= 2
  PROVE  /\ Trajectory(Front(ps)) /\ Front(ps) # <<>>
         /\ Leads(Last(Front(ps)), Last(ps)) /\ Last(Front(ps)) \in IPoint /\ Last(ps) \in IPoint
<1> DEFINE r == Front(ps)
           n == Len(ps)
<1>1. ps \in Seq(IPoint) /\ n \in Nat /\ n >= 2
  BY DEF Trajectory
<1>2. r \in Seq(IPoint) /\ Len(r) = n - 1 /\ \A i \in 1..n - 1 : r[i] = ps[i]
  <2>1. r = SubSeq(ps, 1, n - 1)
    BY DEF Front
  <2> HIDE DEF r
  <2> QED
    BY <1>1, <2>1
<1> HIDE DEF r, n
<1>3. r # <<>> /\ Last(r) = ps[n - 1] /\ Last(ps) = ps[(n - 1) + 1]
  BY <1>1, <1>2 DEF Last, n
<1>4. n - 1 \in 1..Len(ps) - 1
  BY <1>1 DEF n
<1>5. Leads(Last(r), Last(ps))
  BY <1>3, <1>4 DEF Trajectory
<1>6. ps # <<>>
  BY <1>1 DEF n
<1>7. r[1].s = 0 /\ r[1].s_dot = 0 /\ r[1].time = 0
  BY <1>1, <1>2, <1>6 DEF Trajectory
<1>8. ASSUME NEW i \in 1..Len(r) - 1 PROVE Leads(r[i], r[i + 1])
  <2>1. i \in 1..Len(ps) - 1 /\ r[i] = ps[i] /\ r[i + 1] = ps[i + 1]
    BY <1>1, <1>2, <1>8 DEF n
  <2> QED
    BY <2>1 DEF Trajectory
<1>9. Trajectory(r)
  BY <1>2, <1>7, <1>8 DEF Trajectory
<1>10. Last(r) \in IPoint /\ Last(ps) \in IPoint
  BY <1>1, <1>3 DEF n
<1> QED
  BY <1>3, <1>5, <1>9, <1>10 DEF r

-----------------------------------------------------------------------------
(* The splice *)

\* The backward points lead on to their left neighbours; their times are those to them.
Backwards ==
  /\ backward \in Seq(IPoint) /\ Len(backward) >= 1
  /\ \A i \in 1..Len(backward) : Under(backward[i])
  /\ \A i \in 1..Len(backward) - 1 :
       /\ backward[i + 1].s < backward[i].s
       /\ backward[i + 1].time = Dt(backward[i + 1], backward[i])
       /\ backward[i + 1].s_ddot = To(backward[i])

\* Retimed sums the times up: each is as far from t as its point is from the first.
LEMMA RetimedFacts ==
  ASSUME Backwards, NEW t \in Int
  PROVE  LET n == Len(backward) IN
         /\ Len(Retimed(t)) = n /\ Retimed(t) \in Seq(IPoint)
         /\ \A i \in 1..n :
              Retimed(t)[i] = [backward[n - i + 1] EXCEPT
                                 !.time = t + (backward[n - i + 1].s - backward[n].s)]
<1> DEFINE n == Len(backward)
           reversed == Reverse(backward)
           Steps(f) == [i \in 1..Len(reversed) |-> IF i = 1 THEN t ELSE f[i - 1] + reversed[i - 1].time]
           sums == [i \in 1..Len(reversed) |-> t + (reversed[i].s - reversed[1].s)]
<1>1. n \in Nat /\ n >= 1 /\ backward \in Seq(IPoint)
  BY DEF Backwards
<1>2. /\ reversed = [i \in 1..n |-> backward[(n - i) + 1]]
      /\ reversed \in Seq(IPoint) /\ Len(reversed) = n
  <2>1. reversed = [i \in 1..n |-> backward[(n - i) + 1]]
    BY DEF Reverse
  <2>2. \A i \in 1..n : backward[(n - i) + 1] \in IPoint
    BY <1>1
  <2>3. reversed \in [1..n -> IPoint]
    BY <2>1, <2>2
  <2> QED
    BY <1>1, <2>1, <2>3
<1>3. \A i \in 1..n : reversed[i] = backward[(n - i) + 1] /\ reversed[i] \in IPoint
  BY <1>1, <1>2
<1>4. \A i \in 2..n : reversed[i - 1].time = reversed[i].s - reversed[i - 1].s
  <2> SUFFICES ASSUME NEW i \in 2..n PROVE reversed[i - 1].time = reversed[i].s - reversed[i - 1].s
    OBVIOUS
  <2> DEFINE m == (n - i) + 1
  <2>1. m \in 1..n - 1 /\ (n - (i - 1)) + 1 = m + 1 /\ i \in 1..n /\ i - 1 \in 1..n
    BY <1>1
  <2>2. reversed[i] = backward[m] /\ reversed[i - 1] = backward[m + 1]
    BY <1>3, <2>1
  <2> HIDE DEF m, reversed
  <2>3. backward[m + 1].time = backward[m].s - backward[m + 1].s
    BY <2>1 DEF Backwards, Dt, n
  <2> QED
    BY <2>2, <2>3
<1> HIDE DEF n, reversed
<1>5. \A i \in 1..n : reversed[i].s \in Nat /\ reversed[i].time \in Int
  BY <1>3 DEF IPoint
<1> DEFINE Sums(i) == t + (reversed[i].s - reversed[1].s)
<1>6. sums = Steps(sums)
  <2>1. sums = [i \in 1..n |-> Sums(i)]
    BY <1>2
  <2> HIDE DEF sums
  <2>2. \A i \in 1..n : sums[i] = Sums(i)
    BY <2>1
  <2>3. ASSUME NEW i \in 1..n
        PROVE  Sums(i) = IF i = 1 THEN t ELSE sums[i - 1] + reversed[i - 1].time
    <3>1. CASE i = 1
      BY <1>1, <1>5, <3>1
    <3>2. CASE i # 1
      <4>1. i - 1 \in 1..n /\ i \in 2..n
        BY <1>1, <3>2
      <4>2. sums[i - 1] = t + (reversed[i - 1].s - reversed[1].s)
        BY <2>2, <4>1
      <4> QED
        BY <1>1, <1>4, <1>5, <3>2, <4>1, <4>2
    <3> QED
      BY <3>1, <3>2
  <2> HIDE DEF Sums
  <2>4. sums = [i \in 1..n |-> IF i = 1 THEN t ELSE sums[i - 1] + reversed[i - 1].time]
    BY <2>1, <2>3
  <2> QED
    BY <1>2, <2>4
<1>7. ASSUME NEW f, f = Steps(f) PROVE f = sums
  <2> DEFINE T == {i \in 1..n : f[i] # sums[i]}
  <2>1. f = [i \in 1..n |-> IF i = 1 THEN t ELSE f[i - 1] + reversed[i - 1].time]
    BY <1>2, <1>7
  <2>2. sums = [i \in 1..n |-> IF i = 1 THEN t ELSE sums[i - 1] + reversed[i - 1].time]
    BY <1>2, <1>6
  <2> HIDE DEF sums
  <2>3. SUFFICES ASSUME T # {} PROVE FALSE
    BY <2>1, <2>2
  <2>4. T \subseteq Nat
    BY <1>1
  <2>5. PICK m \in T : \A i \in T : m <= i
    BY <2>3, <2>4, LeastNatural
  <2>6. m \in 1..n /\ f[m] # sums[m]
    BY <2>5
  <2>7. m # 1
    BY <1>1, <2>1, <2>2, <2>6
  <2>8. m - 1 \in 1..n /\ m - 1 \notin T
    BY <1>1, <2>5, <2>6, <2>7
  <2>9. f[m] = f[m - 1] + reversed[m - 1].time
    BY <2>1, <2>6, <2>7
  <2>10. sums[m] = sums[m - 1] + reversed[m - 1].time
    BY <2>2, <2>6, <2>7
  <2> QED
    BY <2>6, <2>8, <2>9, <2>10
<1>8. (CHOOSE f : f = Steps(f)) = sums
  BY <1>6, <1>7
<1>9. Retimed(t) = [i \in 1..Len(reversed) |-> [reversed[i] EXCEPT !.time = (CHOOSE f : f = Steps(f))[i]]]
  BY DEF Retimed, reversed
<1>10. Retimed(t) = [i \in 1..n |-> [reversed[i] EXCEPT !.time = sums[i]]]
  <2> HIDE DEF Steps, sums
  <2>1. Len(reversed) = n
    BY <1>2
  <2> QED
    BY <1>8, <1>9, <2>1
<1>11. ASSUME NEW i \in 1..n
       PROVE  /\ Retimed(t)[i] = [backward[n - i + 1] EXCEPT
                                    !.time = t + (backward[n - i + 1].s - backward[n].s)]
              /\ Retimed(t)[i] \in IPoint
  <2>1. Retimed(t)[i] = [reversed[i] EXCEPT !.time = t + (reversed[i].s - reversed[1].s)]
    BY <1>2, <1>10
  <2>2. 1 \in 1..n /\ (n - 1) + 1 = n
    BY <1>1
  <2>3. reversed[i] = backward[n - i + 1] /\ reversed[1] = backward[n]
    BY <1>3, <2>2
  <2>4. t + (reversed[i].s - reversed[1].s) \in Int /\ reversed[i] \in IPoint
    BY <1>3, <1>5, <2>2
  <2>5. Retimed(t)[i] \in IPoint
    BY <2>1, <2>4 DEF IPoint
  <2> QED
    BY <2>1, <2>3, <2>5
<1>12. Retimed(t) \in [1..n -> IPoint]
  BY <1>10, <1>11
<1>13. Len(Retimed(t)) = n /\ Retimed(t) \in Seq(IPoint)
  BY <1>1, <1>12
<1> QED
  BY <1>11, <1>13 DEF n

\* The forward points up to point j, and the backward points: a trajectory that ends where
\* the backward points started.
LEMMA SplicedFacts ==
  ASSUME Trajectory(points), Backwards, NEW j \in 1..Len(points) - 1,
         points[j].s < Last(backward).s
  PROVE  /\ Trajectory(Spliced(j)) /\ Len(Spliced(j)) >= 2 /\ Spliced(j) # <<>>
         /\ Last(Spliced(j)).s = backward[1].s /\ Last(Spliced(j)).s_dot = backward[1].s_dot
         /\ Last(Spliced(j)).s_ddot = backward[1].s_ddot
<1> DEFINE n == Len(backward)
           left == points[j]
           right == Last(backward)
           t == left.time + Dt(left, right)
           r == Retimed(t)
           led == [left EXCEPT !.s_ddot = To(right)]
           kept == SubSeq(points, 1, j - 1)
           front == Append(kept, led)
           ps == front \o r
<1>1. /\ points \in Seq(IPoint) /\ Len(points) \in Nat /\ j \in Nat /\ j <= Len(points)
      /\ left \in IPoint /\ points # <<>>
  BY DEF Trajectory
<1>2. n \in Nat /\ n >= 1 /\ right = backward[n] /\ right \in IPoint
  BY DEF Backwards, Last
<1>3. t \in Int
  <2>1. left.time \in Int /\ left.s \in Nat /\ right.s \in Nat
    BY <1>1, <1>2 DEF IPoint
  <2> HIDE DEF left, right
  <2> QED
    BY <2>1 DEF Dt
<1>4. /\ Len(r) = n /\ r \in Seq(IPoint)
      /\ \A i \in 1..n :
           r[i] = [backward[n - i + 1] EXCEPT !.time = t + (backward[n - i + 1].s - backward[n].s)]
  BY <1>3, RetimedFacts
<1>5. led \in IPoint /\ led.s = left.s /\ led.s_dot = left.s_dot /\ led.time = left.time /\ led.s_ddot = To(right)
  <2>1. To(right) \in Accelerations
    BY <1>2 DEF To, Accelerations, IPoint
  <2> QED
    BY <1>1, <2>1 DEF IPoint
<1>6. Spliced(j) = ps
  BY DEF Spliced
<1> HIDE DEF r, led, t, left, right, n
<1>7. /\ kept \in Seq(IPoint) /\ Len(kept) = j - 1
      /\ \A i \in 1..j - 1 : kept[i] = points[i]
  BY <1>1
<1> HIDE DEF kept
<1>8. /\ front \in Seq(IPoint) /\ Len(front) = j
      /\ front[j] = led
      /\ \A i \in 1..j - 1 : front[i] = points[i]
  BY <1>1, <1>5, <1>7
<1> HIDE DEF front
<1>9. /\ ps \in Seq(IPoint) /\ Len(ps) = j + n
      /\ \A i \in 1..j - 1 : ps[i] = points[i]
      /\ ps[j] = led
      /\ \A i \in 1..n : ps[j + i] = r[i]
  <2>1. ps \in Seq(IPoint) /\ Len(ps) = j + n
    <3>1. front \in Seq(IPoint) /\ r \in Seq(IPoint)
      BY <1>4, <1>8
    <3>2. Len(front) = j /\ Len(r) = n
      BY <1>4, <1>8
    <3>3. ps \in Seq(IPoint) /\ Len(ps) = Len(front) + Len(r)
      BY <3>1
    <3> QED
      BY <3>2, <3>3
  <2>2. \A i \in 1..j + n : ps[i] = IF i <= j THEN front[i] ELSE r[i - j]
    BY <1>4, <1>8, ConcatProperties
  <2> HIDE DEF ps
  <2>3. \A i \in 1..j : ps[i] = front[i]
    BY <1>1, <1>2, <2>2
  <2>4. \A i \in 1..n : ps[j + i] = r[i]
    <3> SUFFICES ASSUME NEW i \in 1..n PROVE ps[j + i] = r[i]
      OBVIOUS
    <3>1. j + i \in 1..j + n /\ ~(j + i <= j) /\ (j + i) - j = i
      BY <1>1, <1>2
    <3> QED
      BY <2>2, <3>1
  <2> QED
    BY <1>1, <1>8, <2>1, <2>3, <2>4
<1> HIDE DEF ps
<1>10. \A i \in 1..n : /\ r[i].s = backward[n - i + 1].s /\ r[i].s_dot = backward[n - i + 1].s_dot
                       /\ r[i].s_ddot = backward[n - i + 1].s_ddot
                       /\ r[i].time = t + (backward[n - i + 1].s - backward[n].s)
  <2> SUFFICES ASSUME NEW i \in 1..n
               PROVE  /\ r[i].s = backward[n - i + 1].s /\ r[i].s_dot = backward[n - i + 1].s_dot
                      /\ r[i].s_ddot = backward[n - i + 1].s_ddot
                      /\ r[i].time = t + (backward[n - i + 1].s - backward[n].s)
    OBVIOUS
  <2>1. backward[n - i + 1] \in IPoint
    BY <1>2 DEF Backwards, n
  <2> QED
    BY <1>4, <2>1 DEF IPoint
<1>11. ps # <<>> /\ ps[1].s = 0 /\ ps[1].s_dot = 0 /\ ps[1].time = 0
  <2>1. points[1].s = 0 /\ points[1].s_dot = 0 /\ points[1].time = 0
    BY <1>1 DEF Trajectory
  <2> QED
    BY <1>1, <1>2, <1>5, <1>9, <2>1 DEF left
<1>12. ASSUME NEW i \in 1..Len(ps) - 1 PROVE Leads(ps[i], ps[i + 1])
  <2>1. i \in 1..j + n - 1
    BY <1>1, <1>2, <1>9
  <2>2. CASE i < j
    <3>1. i \in 1..Len(points) - 1 /\ ps[i] = points[i]
      BY <1>1, <1>9, <2>1, <2>2
    <3>2. Leads(points[i], points[i + 1])
      BY <3>1 DEF Trajectory
    <3>3. /\ ps[i + 1].s = points[i + 1].s /\ ps[i + 1].s_dot = points[i + 1].s_dot
          /\ ps[i + 1].time = points[i + 1].time
      <4>1. CASE i + 1 < j
        BY <1>9, <2>1, <4>1
      <4>2. CASE i + 1 = j
        BY <1>5, <1>9, <4>2 DEF left
      <4> QED
        BY <1>1, <2>1, <2>2, <4>1, <4>2
    <3> QED
      BY <3>1, <3>2, <3>3 DEF Leads, Dt, To
  <2>3. CASE i = j
    <3>1. ps[i] = led /\ ps[i + 1] = r[1]
      BY <1>2, <1>9, <2>3
    <3>2. 1 \in 1..n /\ n - 1 + 1 = n
      BY <1>2
    <3>3. r[1].s = right.s /\ r[1].s_dot = right.s_dot /\ r[1].time = t
      BY <1>2, <1>3, <1>10, <3>2 DEF IPoint
    <3>4. Under(left)
      BY DEF Trajectory, Leads, left
    <3>5. left.s < right.s /\ t = left.time + Dt(left, right)
      BY DEF left, right, t
    <3> QED
      BY <1>5, <3>1, <3>3, <3>4, <3>5 DEF Leads, Dt, To, Under
  <2>4. CASE i > j
    <3> DEFINE k == i - j
               m == n - (i - j)
    <3>1. /\ k \in 1..n /\ k + 1 \in 1..n /\ j + k = i /\ j + (k + 1) = i + 1
          /\ m \in 1..n - 1 /\ n - k + 1 = m + 1 /\ n - (k + 1) + 1 = m
      BY <1>1, <1>2, <2>1, <2>4
    <3>2. ps[i] = r[k] /\ ps[i + 1] = r[k + 1]
      BY <1>9, <3>1
    <3> HIDE DEF k, m
    <3>3. /\ r[k].s = backward[m + 1].s /\ r[k].s_dot = backward[m + 1].s_dot
          /\ r[k].s_ddot = backward[m + 1].s_ddot
          /\ r[k].time = t + (backward[m + 1].s - backward[n].s)
      BY <1>10, <3>1
    <3>4. /\ r[k + 1].s = backward[m].s /\ r[k + 1].s_dot = backward[m].s_dot
          /\ r[k + 1].time = t + (backward[m].s - backward[n].s)
      BY <1>10, <3>1
    <3>5. /\ backward[m + 1].s < backward[m].s
          /\ backward[m + 1].s_ddot = To(backward[m])
          /\ Under(backward[m + 1])
      BY <1>2, <3>1 DEF Backwards, n
    <3>6. backward[m].s \in Nat /\ backward[m + 1].s \in Nat /\ backward[n].s \in Nat
      <4>1. m \in 1..n /\ m + 1 \in 1..n /\ n \in 1..n
        BY <1>2, <3>1
      <4>2. backward[m] \in IPoint /\ backward[m + 1] \in IPoint /\ backward[n] \in IPoint
        BY <4>1 DEF Backwards, n
      <4> QED
        BY <4>2 DEF IPoint
    <3>7. r[k + 1].time = r[k].time + (r[k + 1].s - r[k].s)
      BY <1>3, <3>3, <3>4, <3>6
    <3> QED
      BY <3>2, <3>3, <3>4, <3>5, <3>7 DEF Leads, Dt, To, Under
  <2> QED
    BY <1>1, <2>1, <2>2, <2>3, <2>4
<1>13. Trajectory(ps)
  BY <1>9, <1>11, <1>12 DEF Trajectory
<1>14. Last(ps) = r[n]
  BY <1>1, <1>2, <1>9 DEF Last
<1>15. r[n].s = backward[1].s /\ r[n].s_dot = backward[1].s_dot /\ r[n].s_ddot = backward[1].s_ddot
  <2>1. n \in 1..n /\ n - n + 1 = 1
    BY <1>2
  <2> QED
    BY <1>10, <2>1
<1>16. Len(ps) >= 2
  BY <1>1, <1>2, <1>9
<1> QED
  BY <1>6, <1>11, <1>13, <1>14, <1>15, <1>16

-----------------------------------------------------------------------------
(* The invariant of the integration *)

\* Between two passes: the points end in the switching point that the next pass starts from.
BetweenPasses ==
  IF points = <<>> THEN where = k_path_begin /\ position = 0 /\ phase = "begin"
  ELSE /\ Len(points) >= 2
       /\ Last(points).s = where.s /\ Last(points).s_dot = where.s_dot
       /\ Last(points).s_ddot = IF where.forward THEN Given ELSE NaN
       /\ duration = Last(points).time
       /\ position <= where.s
       /\ phase = "done" => where.kind = "path_end"

\* In the forward pass: the points lead on to the current one.
InForward ==
  /\ at.s \in position..Length /\ at.s_dot \in Nat /\ Under(at)
  /\ now \in Int
  /\ IF points = <<>> THEN at.s = 0 /\ at.s_dot = 0 /\ now = 0
     ELSE Leads(Last(points), IntegrationPoint(now, at, NaN))

\* At the turn and in the backward pass: the switching point is ahead.
Ahead ==
  /\ points # <<>>
  /\ SwitchPoint(found) /\ position <= found.s

InBackward ==
  /\ Len(points) >= 2 /\ window \in 1..Len(points) - 1
  /\ Backwards
  /\ backward[1].s = found.s /\ backward[1].s_dot = found.s_dot
  /\ backward[1].s_ddot = IF found.forward THEN Given ELSE NaN
  /\ Last(backward).s \in 1..Length

GenerationInv ==
  /\ path \in Paths
  /\ CacheInv
  /\ phase \in {"begin", "forward", "turn", "backward", "done", "failed"}
  /\ SwitchPoint(where)
  /\ Trajectory(points)
  /\ phase \in {"begin", "done"} => BetweenPasses
  /\ phase = "forward" => InForward
  /\ phase \in {"turn", "backward"} => Ahead
  /\ phase = "turn" => Last(points).s <= found.s
  /\ phase = "backward" => InBackward
  /\ NeverBehind

LEMMA TrajectoryNumbers ==
  ASSUME NEW ps \in Seq(IPoint)
  PROVE  Len(ps) \in Nat /\ \A i \in 1..Len(ps) : ps[i].time \in Int /\ ps[i].s \in Nat
<1>1. Len(ps) \in Nat /\ \A i \in 1..Len(ps) : ps[i] \in IPoint
  BY LenProperties, ElementOfSeq
<1>2. \A p \in IPoint : p.time \in Int /\ p.s \in Nat
  BY DEF IPoint
<1> QED
  BY <1>1, <1>2

\* Each point of a trajectory is before all those after it, and behind them.
LEMMA TrajectoryOrdered ==
  ASSUME NEW ps, Trajectory(ps)
  PROVE  \A i, j \in 1..Len(ps) : i < j => ps[i].time < ps[j].time /\ ps[i].s < ps[j].s
<1> DEFINE n == Len(ps)
           T == {m \in 0..n : \A i, j \in 1..m : i < j => ps[i].time < ps[j].time /\ ps[i].s < ps[j].s}
<1>1. n \in Nat /\ \A i \in 1..n : ps[i].time \in Int /\ ps[i].s \in Nat
  <2>1. ps \in Seq(IPoint)
    BY DEF Trajectory
  <2> QED
    BY <2>1, TrajectoryNumbers
<1>2. 0 \in T
  BY <1>1
<1>3. ASSUME NEW m \in 1..n, m - 1 \in T PROVE m \in T
  <2>1. m \in 0..n
    BY <1>1
  <2>2. ASSUME NEW i \in 1..m - 1 PROVE ps[i].time < ps[m].time /\ ps[i].s < ps[m].s
    <3>1. m - 1 \in 1..n - 1 /\ m - 1 + 1 = m /\ i \in 1..n /\ m - 1 \in 1..n
      BY <1>1, <2>2
    <3>2. ps[m - 1].s < ps[m].s /\ ps[m].time = ps[m - 1].time + (ps[m].s - ps[m - 1].s)
      BY <3>1 DEF Trajectory, Leads, Dt
    <3>3. ps[m - 1].time < ps[m].time
      BY <1>1, <3>1, <3>2
    <3>4. i = m - 1 \/ (ps[i].time < ps[m - 1].time /\ ps[i].s < ps[m - 1].s)
      BY <1>3, <2>2
    <3> QED
      BY <1>1, <3>1, <3>2, <3>3, <3>4
  <2>3. ASSUME NEW i \in 1..m, NEW j \in 1..m, i < j PROVE ps[i].time < ps[j].time /\ ps[i].s < ps[j].s
    <3>1. i \in 1..m - 1 /\ (j = m \/ j \in 1..m - 1)
      BY <2>1, <2>3
    <3> QED
      BY <1>3, <2>2, <2>3, <3>1
  <2> QED
    BY <2>1, <2>3
<1> HIDE DEF T
<1>4. n \in T
  <2>1. 0..n \subseteq T
    BY <1>1, <1>2, <1>3, InductionFromZero
  <2> QED
    BY <1>1, <2>1
<1> QED
  BY <1>4 DEF T

LEMMA TrajectoryAccepted ==
  ASSUME NEW ps, Trajectory(ps), Len(ps) >= 2, Last(ps).s = Length
  PROVE  Accepted(ps, Length)
<1>1. ps \in Seq(IPoint) /\ ps # <<>>
  BY DEF Trajectory
<1>2. Len(ps) \in Nat /\ \A i \in 1..Len(ps) : ps[i].s \in Nat
  BY <1>1, TrajectoryNumbers
<1>3. \A i, j \in 1..Len(ps) : i < j => ps[i].time < ps[j].time /\ ps[i].s < ps[j].s
  BY TrajectoryOrdered
<1>4. ps[Len(ps)].s = Length
  BY DEF Last
<1>5. ASSUME NEW i \in 1..Len(ps) PROVE ps[i].s \in 0..Length
  <2>1. Len(ps) \in 1..Len(ps) /\ (i = Len(ps) \/ i < Len(ps))
    BY <1>2
  <2>2. Length \in Nat
    BY <1>2, <1>4, <2>1
  <2> QED
    BY <1>2, <1>3, <1>4, <2>1, <2>2
<1>6. \A i, j \in 1..Len(ps) : i < j => ps[i].time < ps[j].time /\ ps[i].s <= ps[j].s
  BY <1>2, <1>3
<1> QED
  BY <1>1, <1>4, <1>5, <1>6 DEF Accepted, Trajectory

\* The properties follow.
LEMMA GenerationInvImplies ==
  GenerationInv => /\ CacheTransparent /\ TimesAddUp /\ AccelerationsLeadOn
                   /\ UnderTheCurves /\ HandedOver
<1> SUFFICES ASSUME GenerationInv
             PROVE  CacheTransparent /\ TimesAddUp /\ AccelerationsLeadOn /\ UnderTheCurves /\ HandedOver
  OBVIOUS
<1>1. CacheTransparent
  BY CacheIsTransparent DEF GenerationInv
<1>2. Trajectory(points) /\ \A i \in 1..Len(points) - 1 : Leads(points[i], points[i + 1])
  BY DEF GenerationInv, Trajectory
<1>3. TimesAddUp
  <2>1. phase = "forward" => now = IF points = <<>> THEN 0 ELSE Last(points).time + Dt(Last(points), at)
    BY DEF GenerationInv, InForward, Leads, IntegrationPoint, Dt
  <2> QED
    BY <1>2, <2>1 DEF TimesAddUp, Trajectory, Leads
<1>4. AccelerationsLeadOn
  BY <1>2 DEF AccelerationsLeadOn, Leads
<1>5. UnderTheCurves
  <2>1. phase \in {"begin", "done"} /\ points # <<>> => Under(Last(points))
    BY DEF GenerationInv, BetweenPasses, SwitchPoint, Under
  <2> QED
    BY <1>2, <2>1 DEF UnderTheCurves, Leads
<1>6. HandedOver
  <2>1. ASSUME phase = "done"
        PROVE  Accepted(points, Length) /\ Last(points).s_dot = 0
    <3>1. /\ points # <<>> /\ Len(points) >= 2 /\ SwitchPoint(where) /\ where.kind = "path_end"
          /\ Last(points).s = where.s /\ Last(points).s_dot = where.s_dot
      BY <2>1 DEF GenerationInv, BetweenPasses
    <3>2. Last(points).s = Length /\ Last(points).s_dot = 0
      BY <3>1 DEF SwitchPoint
    <3> QED
      BY <1>2, <3>1, <3>2, TrajectoryAccepted
  <2>2. phase \in {"begin", "done"} /\ points # <<>> =>
          /\ Len(points) >= 2
          /\ Last(points).s = where.s /\ Last(points).s_dot = where.s_dot
          /\ Last(points).s_ddot = IF where.forward THEN Given ELSE NaN
          /\ duration = Last(points).time
    BY DEF GenerationInv, BetweenPasses
  <2> QED
    BY <2>1, <2>2 DEF HandedOver
<1> QED
  BY <1>1, <1>3, <1>4, <1>5, <1>6

LEMMA GenerationStarts == GenerationInit => GenerationInv
<1> SUFFICES ASSUME GenerationInit PROVE GenerationInv
  OBVIOUS
<1>1. path \in Paths /\ position = 0 /\ points = <<>> /\ phase = "begin" /\ where = k_path_begin /\ error = "none"
  BY DEF GenerationInit, SearchInit
<1>2. Length \in Nat \ {0} /\ 0 \in 0..Length
  BY <1>1, LengthFacts
<1>3. Acc(0) \in Nat /\ Vel(0) \in Nat
  BY <1>1, <1>2, CurvesAt
<1>4. SwitchPoint(where)
  BY <1>1, <1>2, <1>3 DEF SwitchPoint, Under, k_path_begin, Point
<1>5. CacheInv
  BY <1>1, <1>2 DEF CacheInv, Faithful, GenerationInit, SearchInit
<1>6. Trajectory(points)
  BY <1>1 DEF Trajectory
<1> QED
  BY <1>1, <1>4, <1>5, <1>6 DEF GenerationInv, BetweenPasses, NeverBehind

-----------------------------------------------------------------------------
(* The forward pass keeps it *)

\* Where a step may lead.
LEMMA CandidateFacts ==
  ASSUME path \in Paths, at.s \in 0..Length, at.s_dot \in Nat, NEW c \in Candidates
  PROVE  c.s \in at.s + 1..Length /\ c.s_dot \in Nat
<1>1. SegmentAt(at.s) \in Segments /\ path[SegmentAt(at.s)].end \in Nat
  BY SegmentOf, SegmentFacts
<1>2. path[SegmentAt(at.s)].end <= Length
  BY <1>1, LengthFacts
<1>3. /\ c.s \in at.s + 1..Smaller(at.s + Stride, path[SegmentAt(at.s)].end)
      /\ c.s_dot \in 0..Top
  BY DEF Candidates
<1>4. /\ Smaller(at.s + Stride, path[SegmentAt(at.s)].end) \in Nat
      /\ Smaller(at.s + Stride, path[SegmentAt(at.s)].end) <= Length
  BY <1>1, <1>2, BoundsAssumption, LengthFacts DEF Smaller
<1> QED
  BY <1>3, <1>4, BoundsAssumption, LengthFacts

LEMMA BisectionFacts ==
  ASSUME path \in Paths, at.s \in 0..Length, at.s_dot \in Nat, NEW c \in Candidates,
         NEW nb \in Bisections(c)
  PROVE  /\ nb[2].s \in at.s + 1..Length
         /\ nb[1] = at \/ (nb[1].s \in at.s + 1..Length /\ nb[1].s_dot \in Nat /\ Under(nb[1]))
<1>1. c.s \in at.s + 1..Length /\ c.s_dot \in Nat
  BY CandidateFacts
<1> DEFINE steps == [s : at.s + 1..c.s, s_dot : Between(at.s_dot, c.s_dot)]
<1>2. nb[1] \in {at} \cup steps /\ nb[2] \in steps /\ (nb[1] = at \/ Under(nb[1]))
  BY DEF Bisections
<1>3. Between(at.s_dot, c.s_dot) \subseteq Nat
  BY <1>1 DEF Between, Smaller
<1>4. \A p \in steps : p.s \in at.s + 1..Length /\ p.s_dot \in Nat
  BY <1>1, <1>3, LengthFacts
<1> HIDE DEF steps
<1> QED
  BY <1>2, <1>4

\* What a step commits is on the path, ahead, and under both curves.
LEMMA CommitFacts ==
  ASSUME path \in Paths, at.s \in 0..Length, at.s_dot \in Nat, NEW next \in Commits
  PROVE  next.s \in at.s + 1..Length /\ next.s_dot \in Nat /\ Under(next)
<1>1. CASE next \in Candidates /\ Under(next)
  BY <1>1, CandidateFacts
<1>2. CASE \E c \in Candidates : \E nb \in Bisections(c) : next = Clamped(nb[2])
  <2>1. PICK c \in Candidates : \E nb \in Bisections(c) : next = Clamped(nb[2])
    BY <1>2
  <2>2. PICK nb \in Bisections(c) : next = Clamped(nb[2])
    BY <2>1
  <2>3. nb[2].s \in at.s + 1..Length /\ nb[2].s \in 0..Length
    BY BisectionFacts, LengthFacts
  <2> DEFINE s == nb[2].s
  <2>4. Acc(s) \in Nat /\ Vel(s) \in Nat
    BY <2>3, CurvesAt
  <2>5. next.s = s /\ next.s_dot = Smaller(Acc(s), Vel(s))
    BY <2>2 DEF Clamped, At
  <2> HIDE DEF s
  <2>6. next.s_dot \in Nat /\ next.s_dot <= Acc(s) /\ next.s_dot <= Vel(s)
    BY <2>4, <2>5 DEF Smaller
  <2> QED
    BY <2>3, <2>5, <2>6 DEF Under, s
<1>3. next \in {c \in Candidates : ~Cornered(c) /\ Under(c)}
      \/ \E c \in {c \in Candidates : ~Cornered(c) /\ ~Under(c)} :
           next \in {Clamped(nb[2]) : nb \in {x \in Bisections(c) : MayClamp(x[1], x[2])}}
  BY DEF Commits
<1> QED
  BY <1>1, <1>2, <1>3

LEMMA HitFacts ==
  ASSUME path \in Paths, at.s \in 0..Length, at.s_dot \in Nat, NEW nb \in Hits
  PROVE  nb[1] = at \/ (nb[1].s \in at.s + 1..Length /\ nb[1].s_dot \in Nat /\ Under(nb[1]))
<1>1. PICK c \in Candidates : nb \in Bisections(c)
  BY DEF Hits
<1> QED
  BY <1>1, BisectionFacts

\* The points with the current one, which leads on to a next one, and with that one too.
LEMMA SteppedFacts ==
  ASSUME path \in Paths, Trajectory(points), InForward, position \in 0..Length,
         NEW next, next.s \in at.s + 1..Length, next.s_dot \in Nat
  PROVE  /\ Trajectory(Stepped(next)) /\ Stepped(next) # <<>>
         /\ \A a : Leads(Last(Stepped(next)), IntegrationPoint(now + Dt(at, next), next, a))
         /\ now + Dt(at, next) \in Int
         /\ Trajectory(SteppedTo(next)) /\ SteppedTo(next) # <<>> /\ Last(SteppedTo(next)).s = next.s
<1> DEFINE time == now + Dt(at, next)
           p == IntegrationPoint(now, at, To(next))
           q == IntegrationPoint(time, next, NaN)
<1>1. at.s \in Nat /\ at.s_dot \in Nat /\ Under(at) /\ now \in Int /\ next.s \in Nat /\ at.s < next.s
  BY LengthFacts DEF InForward
<1>2. time \in Int
  BY <1>1 DEF Dt
<1>3. NaN \in Accelerations /\ To(next) \in Accelerations /\ To(q) = To(next) /\ q \in IPoint /\ q.s = next.s /\ q.time = time
  <2>1. NaN \in Accelerations
    BY DEF Accelerations
  <2> QED
    BY <1>1, <1>2, <2>1, PointTyped
<1>4. p \in IPoint /\ p.time = now /\ p.s = at.s /\ p.s_dot = at.s_dot /\ p.s_ddot = To(next) /\ Under(p)
  BY <1>1, <1>3, PointTyped
<1> HIDE DEF p, q, time
<1>5. IF points = <<>> THEN p.s = 0 /\ p.s_dot = 0 /\ p.time = 0 ELSE Leads(points[Len(points)], p)
  <2>1. CASE points = <<>>
    BY <1>4, <2>1 DEF InForward
  <2>2. CASE points # <<>>
    <3>1. Leads(Last(points), IntegrationPoint(now, at, NaN))
      BY <2>2 DEF InForward
    <3> QED
      BY <1>4, <2>2, <3>1 DEF Leads, Last, Dt, To, IntegrationPoint
  <2> QED
    BY <2>1, <2>2
<1>6. Stepped(next) = Append(points, p) /\ SteppedTo(next) = Append(Append(points, p), q)
  BY DEF Stepped, SteppedTo, p, q, time
<1>7. /\ Trajectory(Append(points, p)) /\ Append(points, p) # <<>>
      /\ Last(Append(points, p)) = p
  BY <1>4, <1>5, TrajectoryGrows
<1>8. \A a : Leads(p, IntegrationPoint(time, next, a))
  BY <1>1, <1>4 DEF Leads, IntegrationPoint, Dt, To, time
<1>9. Leads(p, q)
  BY <1>8 DEF q
<1>10. Append(points, p)[Len(Append(points, p))] = p
  BY <1>7 DEF Last
<1> DEFINE ps == Append(points, p)
<1> HIDE DEF ps
<1>11. Trajectory(ps) /\ ps # <<>> /\ Last(ps) = p /\ ps[Len(ps)] = p
  BY <1>7, <1>10 DEF ps
<1>12. Trajectory(Append(ps, q)) /\ Append(ps, q) # <<>> /\ Last(Append(ps, q)) = q
  BY <1>3, <1>9, <1>11, TrajectoryGrows
<1>13. Stepped(next) = ps /\ SteppedTo(next) = Append(ps, q)
  BY <1>6 DEF ps
<1> QED
  BY <1>2, <1>3, <1>8, <1>11, <1>12, <1>13 DEF time

\* The path and its limits, and with them what is said of points, stay.
LEMMA PointsKept ==
  ASSUME path' = path
  PROVE  /\ \A p : (Under(p)' <=> Under(p)) /\ (SwitchPoint(p)' <=> SwitchPoint(p))
         /\ \A p, q : Leads(p, q)' <=> Leads(p, q)
         /\ \A ps : Trajectory(ps)' <=> Trajectory(ps)
<1>1. \A p : (Under(p)' <=> Under(p)) /\ (SwitchPoint(p)' <=> SwitchPoint(p))
  BY PathKept DEF Under, SwitchPoint
<1>2. \A p, q : Leads(p, q)' <=> Leads(p, q)
  BY <1>1 DEF Leads
<1>3. \A ps : Trajectory(ps)' <=> Trajectory(ps)
  BY <1>2 DEF Trajectory
<1> QED
  BY <1>1, <1>2, <1>3

\* So does the cache while the cursor rests.
LEMMA RestKeepsCache ==
  ASSUME path \in Paths, CacheInv, UNCHANGED searchVars
  PROVE  CacheInv'
<1>1. position' \in position..Length /\ path' = path /\ cache' = cache
  BY LengthFacts DEF CacheInv, searchVars
<1> QED
  BY <1>1, MovingKeepsCache

LEMMA InvUnchanged == GenerationInv /\ UNCHANGED generationVars => GenerationInv'
<1> SUFFICES ASSUME GenerationInv, UNCHANGED generationVars PROVE GenerationInv'
  OBVIOUS
<1>1. /\ UNCHANGED <<path, position, cache, found, phase, where, points, duration, at, now, backward, window, error>>
      /\ UNCHANGED searchVars
  BY DEF generationVars, searchVars, forwardVars, backwardVars
<1>2. path \in Paths /\ CacheInv'
  BY <1>1, RestKeepsCache DEF GenerationInv
<1>3. Length' = Length /\ k_path_begin' = k_path_begin
  BY <1>1, PathKept DEF k_path_begin
<1>4. SwitchPoint(where)' /\ Trajectory(points)'
  BY <1>1, PointsKept DEF GenerationInv
<1>5. phase \in {"begin", "done"} => BetweenPasses'
  BY <1>1, <1>3 DEF GenerationInv, BetweenPasses
<1>6. phase = "forward" => InForward'
  BY <1>1, <1>3, PointsKept DEF GenerationInv, InForward
<1>7. phase \in {"turn", "backward"} => Ahead'
  BY <1>1, PointsKept DEF GenerationInv, Ahead
<1>8. phase = "backward" => InBackward'
  BY <1>1, <1>3, PointsKept DEF GenerationInv, InBackward, Backwards
<1> QED
  BY <1>1, <1>2, <1>4, <1>5, <1>6, <1>7, <1>8 DEF GenerationInv, NeverBehind

\* A failure keeps the points, whatever it is; those that would be a mistake are excluded.
LEMMA FailureKeeps ==
  ASSUME GenerationInv, NEW reason, Failed(reason),
         reason \notin {"at the beginning", "behind the forward points", "no time at the splice"}
  PROVE  GenerationInv'
<1>1. /\ UNCHANGED <<path, where, points>> /\ UNCHANGED searchVars
      /\ phase' = "failed" /\ error' = reason
  BY DEF Failed, searchVars
<1>2. path \in Paths /\ CacheInv'
  BY <1>1, RestKeepsCache DEF GenerationInv
<1>3. SwitchPoint(where)' /\ Trajectory(points)'
  BY <1>1, PointsKept DEF GenerationInv
<1> QED
  BY <1>1, <1>2, <1>3 DEF GenerationInv, NeverBehind

LEMMA BeginForwardKeeps == GenerationInv /\ BeginForward => GenerationInv'
<1> SUFFICES ASSUME GenerationInv, BeginForward PROVE GenerationInv'
  OBVIOUS
<1>1. /\ UNCHANGED searchVars /\ path' = path /\ position' = position
      /\ UNCHANGED <<where, error>>
      /\ phase = "begin" /\ phase' = "forward" /\ at' = At(where.s, where.s_dot)
      /\ at'.s = where.s /\ at'.s_dot = where.s_dot
  BY DEF BeginForward, searchVars, At
<1>2. path \in Paths /\ CacheInv' /\ BetweenPasses /\ SwitchPoint(where) /\ Trajectory(points)
  BY <1>1, RestKeepsCache DEF GenerationInv
<1>3. SwitchPoint(where)' /\ Length' = Length
  BY <1>1, <1>2, PointsKept, PathKept
<1>4. CASE points = <<>>
  <2>1. points' = points /\ now' = 0 /\ where.s = 0 /\ where.s_dot = 0 /\ position = 0
    BY <1>2, <1>4 DEF BeginForward, BetweenPasses, k_path_begin, Point
  <2>2. Trajectory(points)'
    BY <1>1, <1>2, <2>1, PointsKept
  <2>3. Under(at)'
    BY <1>1, <1>2, PointsKept DEF SwitchPoint, Under, At
  <2>4. InForward'
    BY <1>1, <1>2, <1>3, <1>4, <2>1, <2>3, LengthFacts DEF InForward, SwitchPoint
  <2> QED
    BY <1>1, <1>2, <1>3, <2>2, <2>4 DEF GenerationInv, NeverBehind
<1>5. CASE points # <<>>
  <2>1. points' = Front(points) /\ now' = Last(points).time
    BY <1>5 DEF BeginForward
  <2>2. /\ Len(points) >= 2 /\ Last(points).s = where.s /\ Last(points).s_dot = where.s_dot
        /\ position <= where.s
    BY <1>2, <1>5 DEF BetweenPasses
  <2>3. /\ Trajectory(Front(points)) /\ Front(points) # <<>>
        /\ Leads(Last(Front(points)), Last(points)) /\ Last(points) \in IPoint
    BY <1>2, <2>2, TrajectoryShrinks
  <2>4. Trajectory(points)'
    BY <1>1, <2>1, <2>3, PointsKept
  <2>5. Under(at)'
    BY <1>1, <1>2, PointsKept DEF SwitchPoint, Under, At
  <2>6. Leads(Last(Front(points)), IntegrationPoint(Last(points).time, At(where.s, where.s_dot), NaN))
    BY <2>2, <2>3 DEF Leads, IntegrationPoint, At, Dt, To
  <2>7. Leads(Last(points), IntegrationPoint(now, at, NaN))'
    BY <1>1, <2>1, <2>6, PointsKept
  <2>8. now' \in Int
    BY <2>1, <2>3 DEF IPoint
  <2>9. where.s \in position..Length /\ where.s_dot \in Nat
    BY <1>2, <2>2, LengthFacts DEF SwitchPoint, GenerationInv, CacheInv
  <2>10. InForward'
    BY <1>1, <1>3, <2>1, <2>3, <2>5, <2>7, <2>8, <2>9 DEF InForward
  <2> QED
    BY <1>1, <1>2, <1>3, <2>4, <2>10 DEF GenerationInv, NeverBehind
<1> QED
  BY <1>4, <1>5

\* What the forward steps rest on.
LEMMA ForwardFacts ==
  ASSUME GenerationInv, phase = "forward"
  PROVE  /\ path \in Paths /\ CacheInv /\ SwitchPoint(where) /\ Trajectory(points) /\ NeverBehind
         /\ InForward /\ position \in 0..Length
         /\ at.s \in 0..Length /\ at.s \in position..Length /\ at.s_dot \in Nat
BY LengthFacts DEF GenerationInv, InForward, CacheInv

LEMMA AdvanceKeeps == GenerationInv /\ Advance => GenerationInv'
<1> SUFFICES ASSUME GenerationInv, Advance PROVE GenerationInv'
  OBVIOUS
<1>1. /\ path \in Paths /\ CacheInv /\ SwitchPoint(where) /\ Trajectory(points) /\ NeverBehind
      /\ InForward /\ position \in 0..Length
      /\ at.s \in 0..Length /\ at.s \in position..Length /\ at.s_dot \in Nat
  BY ForwardFacts DEF Advance
<1>2. PICK next \in Commits : /\ points' = Stepped(next)
                              /\ at' = next /\ now' = now + Dt(at, next) /\ position' = next.s
  BY DEF Advance
<1>3. UNCHANGED <<path, cache, where, error, phase>> /\ phase = "forward"
  BY DEF Advance
<1>4. next.s \in at.s + 1..Length /\ next.s_dot \in Nat /\ Under(next)
  BY <1>1, CommitFacts
<1>5. /\ Trajectory(Stepped(next)) /\ Stepped(next) # <<>>
      /\ \A a : Leads(Last(Stepped(next)), IntegrationPoint(now + Dt(at, next), next, a))
      /\ now + Dt(at, next) \in Int
  BY <1>1, <1>4, SteppedFacts
<1>6. CacheInv'
  <2>1. position' \in position..Length
    BY <1>1, <1>2, <1>4
  <2> QED
    BY <1>1, <1>3, <2>1, MovingKeepsCache
<1>7. SwitchPoint(where)' /\ Trajectory(points)' /\ Under(at)'
  BY <1>1, <1>2, <1>3, <1>4, <1>5, PointsKept
<1>8. Leads(Last(points), IntegrationPoint(now, at, NaN))'
  BY <1>2, <1>3, <1>5, PointsKept
<1>9. Length' = Length /\ next.s \in next.s..Length
  BY <1>3, <1>4, PathKept, LengthFacts
<1>10. InForward'
  BY <1>2, <1>4, <1>5, <1>7, <1>8, <1>9 DEF InForward
<1> QED
  BY <1>1, <1>3, <1>6, <1>7, <1>10 DEF GenerationInv, NeverBehind

\* The pass ends in a turn: the points are a trajectory, and the switching point is not
\* behind them.
LEMMA TurnReached ==
  ASSUME GenerationInv, phase = "forward", phase' = "turn",
         UNCHANGED <<path, where, error>>, CacheInv', Trajectory(points'), points' # <<>>,
         SwitchPoint(found'), position' <= found'.s, Last(points').s <= found'.s
  PROVE  GenerationInv'
<1>1. SwitchPoint(where)' /\ Trajectory(points)' /\ SwitchPoint(found)'
  BY PointsKept DEF GenerationInv
<1> QED
  BY <1>1 DEF GenerationInv, Ahead, NeverBehind

LEMMA ReachEndKeeps == GenerationInv /\ ReachEnd => GenerationInv'
<1> SUFFICES ASSUME GenerationInv, ReachEnd PROVE GenerationInv'
  OBVIOUS
<1>1. /\ path \in Paths /\ CacheInv /\ Trajectory(points) /\ InForward /\ position \in 0..Length
      /\ at.s \in 0..Length /\ at.s \in position..Length /\ at.s_dot \in Nat
  BY ForwardFacts DEF ReachEnd
<1>2. PICK next \in Commits : next.s = Length /\ points' = SteppedTo(next)
  BY DEF ReachEnd
<1>3. /\ UNCHANGED <<path, where, error>> /\ path' = path /\ cache' = cache /\ phase = "forward" /\ phase' = "turn"
      /\ position' = Length /\ found' = Point(Length, 0, "path_end", TRUE)
  BY DEF ReachEnd
<1>4. next.s \in at.s + 1..Length /\ next.s_dot \in Nat
  BY <1>1, CommitFacts
<1>5. Trajectory(points') /\ points' # <<>> /\ Last(points').s = next.s
  BY <1>1, <1>2, <1>4, SteppedFacts
<1>6. CacheInv'
  <2>1. position' \in position..Length
    BY <1>1, <1>3, LengthFacts
  <2> QED
    BY <1>1, <1>3, <2>1, MovingKeepsCache
<1>7. Length \in 0..Length /\ Acc(Length) \in Nat /\ Vel(Length) \in Nat
  BY <1>1, LengthFacts, CurvesAt
<1>8. SwitchPoint(found') /\ found'.s = Length
  BY <1>3, <1>7 DEF SwitchPoint, Under, Point
<1>9. position' <= found'.s /\ Last(points').s <= found'.s
  <2>1. Length <= Length
    BY <1>1, LengthFacts
  <2>2. position' = Length /\ Last(points').s = Length /\ found'.s = Length
    BY <1>2, <1>3, <1>5, <1>8
  <2> QED
    BY <2>1, <2>2
<1> QED
  BY <1>3, <1>5, <1>6, <1>8, <1>9, TurnReached

LEMMA HitCornerKeeps == GenerationInv /\ HitCorner => GenerationInv'
<1> SUFFICES ASSUME GenerationInv, HitCorner PROVE GenerationInv'
  OBVIOUS
<1>1. /\ path \in Paths /\ CacheInv /\ Trajectory(points) /\ InForward /\ position \in 0..Length
      /\ at.s \in 0..Length /\ at.s \in position..Length /\ at.s_dot \in Nat
  BY ForwardFacts DEF HitCorner
<1>2. PICK next \in Candidates :
         /\ points' = SteppedTo(next) /\ position' = next.s
         /\ found' = Point(next.s, 0, "discontinuous_velocity_limit", FALSE)
  BY DEF HitCorner
<1>3. UNCHANGED <<path, where, error>> /\ path' = path /\ cache' = cache /\ phase = "forward" /\ phase' = "turn"
  BY DEF HitCorner
<1>4. next.s \in at.s + 1..Length /\ next.s_dot \in Nat /\ next.s \in 0..Length
  BY <1>1, CandidateFacts, LengthFacts
<1>5. Trajectory(points') /\ points' # <<>> /\ Last(points').s = next.s
  BY <1>1, <1>2, <1>4, SteppedFacts
<1>6. CacheInv'
  <2>1. position' \in position..Length
    BY <1>1, <1>2, <1>4
  <2> QED
    BY <1>1, <1>3, <2>1, MovingKeepsCache
<1>7. Acc(next.s) \in Nat /\ Vel(next.s) \in Nat
  BY <1>1, <1>4, CurvesAt
<1>8. SwitchPoint(found') /\ found'.s = next.s
  BY <1>2, <1>4, <1>7 DEF SwitchPoint, Under, Point
<1>9. position' <= found'.s /\ Last(points').s <= found'.s
  <2>1. next.s \in Nat /\ next.s <= next.s
    BY <1>1, <1>4, LengthFacts
  <2>2. position' = next.s /\ Last(points').s = next.s /\ found'.s = next.s
    BY <1>2, <1>5, <1>8
  <2> QED
    BY <2>1, <2>2
<1> QED
  BY <1>3, <1>5, <1>6, <1>8, <1>9, TurnReached

\* A search from the last point finds the next switching point ahead.
LEMMA SearchedAhead ==
  ASSUME path \in Paths, CacheInv, NEW s \in position..Length, find_switching_point(s), path' = path
  PROVE  CacheInv' /\ SwitchPoint(found') /\ position' <= found'.s /\ found'.s >= s
<1>1. position' = s /\ found' = Selected(Searched(s))
  BY DEF find_switching_point
<1> QED
  BY <1>1, SearchKeepsCache, SearchReturns

LEMMA HitLimitKeeps == GenerationInv /\ HitLimit => GenerationInv'
<1> SUFFICES ASSUME GenerationInv, HitLimit PROVE GenerationInv'
  OBVIOUS
<1>1. /\ path \in Paths /\ CacheInv /\ Trajectory(points) /\ InForward /\ position \in 0..Length
      /\ at.s \in 0..Length /\ at.s \in position..Length /\ at.s_dot \in Nat
  BY ForwardFacts DEF HitLimit
<1>2. PICK nb \in Hits : /\ nb[1] # at
                         /\ points' = SteppedTo(nb[1]) /\ find_switching_point(nb[1].s)
  BY DEF HitLimit
<1>3. UNCHANGED <<path, where, error>> /\ phase = "forward" /\ phase' = "turn"
  BY DEF HitLimit
<1> DEFINE next == nb[1]
<1>4. next.s \in at.s + 1..Length /\ next.s_dot \in Nat
  BY <1>1, <1>2, HitFacts
<1>5. points' = SteppedTo(next) /\ find_switching_point(next.s)
  BY <1>2
<1> HIDE DEF next
<1>6. Trajectory(points') /\ points' # <<>> /\ Last(points').s = next.s
  BY <1>1, <1>4, <1>5, SteppedFacts
<1>7. next.s \in position..Length
  BY <1>1, <1>4
<1>8. CacheInv' /\ SwitchPoint(found') /\ position' <= found'.s /\ found'.s >= next.s
  BY <1>1, <1>3, <1>5, <1>7, SearchedAhead
<1>9. Last(points').s <= found'.s
  BY <1>1, <1>4, <1>6, <1>8, LengthFacts DEF SwitchPoint
<1> QED
  BY <1>3, <1>6, <1>8, <1>9, TurnReached

LEMMA HitAtOnceKeeps == GenerationInv /\ HitAtOnce => GenerationInv'
<1> SUFFICES ASSUME GenerationInv, HitAtOnce PROVE GenerationInv'
  OBVIOUS
<1>1. /\ path \in Paths /\ CacheInv /\ Trajectory(points) /\ InForward /\ position \in 0..Length
      /\ at.s \in 0..Length /\ at.s \in position..Length /\ at.s_dot \in Nat
  BY ForwardFacts DEF HitAtOnce
<1>2. /\ UNCHANGED <<path, where, error>> /\ phase = "forward" /\ phase' = "turn"
      /\ points' = Append(points, IntegrationPoint(now, at, NaN))
      /\ find_switching_point(at.s)
  BY DEF HitAtOnce
<1> DEFINE q == IntegrationPoint(now, at, NaN)
<1>3. q \in IPoint /\ q.s = at.s /\ q.s_dot = at.s_dot /\ q.time = now
  <2>1. NaN \in Accelerations /\ now \in Int
    BY <1>1 DEF Accelerations, InForward
  <2> QED
    BY <1>1, <2>1, PointTyped
<1>4. IF points = <<>> THEN q.s = 0 /\ q.s_dot = 0 /\ q.time = 0 ELSE Leads(points[Len(points)], q)
  BY <1>1, <1>3 DEF InForward, Last
<1> HIDE DEF q
<1>5. Trajectory(Append(points, q)) /\ Append(points, q) # <<>> /\ Last(Append(points, q)) = q
  BY <1>1, <1>3, <1>4, TrajectoryGrows
<1>6. points' = Append(points, q)
  BY <1>2 DEF q
<1>7. CacheInv' /\ SwitchPoint(found') /\ position' <= found'.s /\ found'.s >= at.s
  BY <1>1, <1>2, SearchedAhead
<1>8. Last(points').s <= found'.s
  BY <1>1, <1>3, <1>5, <1>6, <1>7, LengthFacts DEF SwitchPoint
<1> QED
  BY <1>2, <1>5, <1>6, <1>7, <1>8, TurnReached

-----------------------------------------------------------------------------
(* So does the backward pass *)

LEMMA AheadFacts ==
  ASSUME GenerationInv, phase \in {"turn", "backward"}
  PROVE  /\ path \in Paths /\ CacheInv /\ SwitchPoint(where) /\ Trajectory(points) /\ NeverBehind
         /\ points # <<>> /\ points[1].s = 0 /\ Len(points) \in Nat
         /\ SwitchPoint(found) /\ position <= found.s
BY DEF GenerationInv, Ahead, Trajectory

LEMMA TurnKeeps == GenerationInv /\ Turn => GenerationInv'
<1> SUFFICES ASSUME GenerationInv, Turn PROVE GenerationInv'
  OBVIOUS
<1>1. /\ path \in Paths /\ CacheInv /\ SwitchPoint(where) /\ Trajectory(points) /\ NeverBehind
      /\ points # <<>> /\ points[1].s = 0 /\ Len(points) \in Nat
      /\ SwitchPoint(found) /\ position <= found.s /\ phase = "turn"
  BY AheadFacts DEF Turn
<1>2. Last(points).s <= found.s /\ Last(points).s \in Nat
  <2>1. points \in Seq(IPoint) /\ Len(points) \in 1..Len(points)
    BY <1>1 DEF Trajectory
  <2>2. Last(points) \in IPoint
    BY <2>1 DEF Last
  <2> QED
    BY <1>1, <2>2 DEF GenerationInv, IPoint
<1>3. found.s \in Nat /\ where.s \in Nat
  BY <1>1, LengthFacts DEF SwitchPoint
<1>4. CASE Failed("no progress") \/ Failed("no forward trajectory")
  BY <1>4, FailureKeeps
<1>5. CASE /\ found.s > where.s /\ Len(points) >= 2
           /\ phase' = "backward"
           /\ backward' = <<IntegrationPoint(0, found, IF found.forward THEN Given ELSE NaN)>>
           /\ window' = Len(points) - 1
           /\ UNCHANGED <<searchVars, where, points, duration, forwardVars, error>>
  <2> DEFINE a == IF found.forward THEN Given ELSE NaN
  <2>1. a \in Accelerations /\ found.s_dot \in Nat
    BY <1>1 DEF Accelerations, SwitchPoint
  <2>2. PICK p : p = IntegrationPoint(0, found, a)
    OBVIOUS
  <2>3. /\ backward' = <<p>> /\ p \in IPoint /\ p.s = found.s /\ p.s_dot = found.s_dot
        /\ p.s_ddot = a /\ (Under(p) <=> Under(found))
    <3>1. backward' = <<p>>
      BY <1>5, <2>2
    <3> QED
      BY <1>3, <2>1, <2>2, <3>1, PointTyped
  <2>4. UNCHANGED <<path, position, found, where, points, error>> /\ UNCHANGED searchVars
    BY <1>5 DEF searchVars
  <2>5. CacheInv'
    BY <1>1, <2>4, RestKeepsCache
  <2>6. SwitchPoint(where)' /\ Trajectory(points)' /\ SwitchPoint(found)' /\ Length' = Length
    BY <1>1, <2>4, PointsKept, PathKept
  <2>7. backward' \in Seq(IPoint) /\ Len(backward') = 1 /\ backward'[1] = p /\ Last(backward') = p
    BY <2>3 DEF Last
  <2>8. Under(p)'
    BY <1>1, <2>3, <2>4, PointsKept DEF SwitchPoint
  <2>9. Backwards'
    <3>1. \A i \in 1..Len(backward') : backward'[i] = p
      BY <2>7
    <3>2. \A i \in 1..Len(backward') : Under(backward[i])'
      BY <2>8, <3>1
    <3> QED
      BY <2>7, <3>2 DEF Backwards
  <2>10. p.s \in 1..Length
    BY <1>1, <1>3, <1>5, <2>3 DEF SwitchPoint
  <2>11. InBackward'
    BY <1>1, <1>5, <2>3, <2>4, <2>6, <2>7, <2>9, <2>10 DEF InBackward, a
  <2> QED
    BY <1>1, <1>5, <2>4, <2>5, <2>6, <2>11 DEF GenerationInv, NeverBehind, Ahead
<1>6. /\ ~(found.s < Last(points).s)
      /\ found.s <= where.s \/ (found.s > where.s /\ ~(found.s <= points[1].s))
      /\ Len(points) < 2 \/ Len(points) >= 2
  BY <1>1, <1>2, <1>3
<1>7. CASE found.s <= where.s \/ Len(points) < 2
  BY <1>4, <1>7 DEF Turn
<1>8. CASE ~(found.s <= where.s \/ Len(points) < 2)
  BY <1>5, <1>6, <1>8 DEF Turn
<1> QED
  BY <1>7, <1>8

LEMMA SlidWhere ==
  ASSUME window \in Nat \ {0}, NEW next, NEW current
  PROVE  Slid(next, current) \in 1..window
<1> DEFINE T == {j \in 1..window : Stops(j, next, current)}
<1>1. 1 \in T
  BY DEF Stops
<1>2. T \subseteq 0..window /\ T # {}
  BY <1>1
<1>3. PICK j \in T : \A i \in T : i <= j
  BY <1>2, GreatestNatural
<1>4. \A i \in j + 1..window : i \in Nat /\ i > j /\ i \in 1..window
  BY <1>3
<1>5. \E k \in 1..window : Stops(k, next, current) /\ \A i \in k + 1..window : ~Stops(i, next, current)
  <2>1. \A i \in j + 1..window : ~Stops(i, next, current)
    BY <1>3, <1>4
  <2> QED
    BY <1>3, <2>1
<1>6. window \in 1..window
  OBVIOUS
<1> QED
  BY <1>5, <1>6 DEF Slid

LEMMA BackwardFacts ==
  ASSUME GenerationInv, phase = "backward"
  PROVE  /\ InBackward /\ Backwards /\ Len(points) >= 2 /\ window \in 1..Len(points) - 1
         /\ window \in Nat \ {0} /\ points \in Seq(IPoint)
         /\ Last(backward) \in IPoint /\ Last(backward).s \in 1..Length /\ Len(backward) \in Nat
<1>1. InBackward /\ Backwards /\ Trajectory(points)
  BY DEF GenerationInv, InBackward
<1>2. Len(points) \in Nat /\ points \in Seq(IPoint)
  BY <1>1 DEF Trajectory
<1>3. Last(backward) \in IPoint /\ Len(backward) \in Nat
  BY <1>1 DEF Backwards, Last
<1> QED
  BY <1>1, <1>2, <1>3 DEF InBackward

LEMMA SpliceKeeps ==
  ASSUME GenerationInv, phase = "backward", NEW j \in 1..window, NEW next, next.s \in Nat,
         next.s < Last(backward).s, Meets(j, next, Last(backward)), Splice(j)
  PROVE  GenerationInv'
<1>1. /\ path \in Paths /\ CacheInv /\ SwitchPoint(where) /\ Trajectory(points) /\ NeverBehind
      /\ SwitchPoint(found) /\ position <= found.s
  BY AheadFacts
<1>2. /\ InBackward /\ Backwards /\ Len(points) >= 2 /\ window \in 1..Len(points) - 1
      /\ window \in Nat \ {0} /\ points \in Seq(IPoint)
      /\ Last(backward) \in IPoint /\ Last(backward).s \in 1..Length
  BY BackwardFacts
<1>3. j \in 1..Len(points) - 1 /\ Len(points) \in Nat
  BY <1>2
<1>4. points[j].s < Last(backward).s /\ points[j].s \in Nat /\ Last(backward).s \in Nat
  <2>1. points[j] \in IPoint
    BY <1>2, <1>3
  <2>2. points[j].s \in Nat /\ Last(backward).s \in Nat
    BY <1>2, <2>1 DEF IPoint
  <2>3. next.s >= points[j].s \/ points[j].s < Last(backward).s
    BY DEF Meets, MeetsInside, MeetsAtLeft
  <2> QED
    BY <2>2, <2>3
<1>5. ~(Dt(points[j], Last(backward)) <= 0)
  BY <1>4 DEF Dt
<1>6. CASE Failed("no velocity at the splice")
  BY <1>6, FailureKeeps
<1>7. CASE /\ points' = Spliced(j) /\ duration' = Last(Spliced(j)).time
           /\ phase' = (IF found.kind = "path_end" THEN "done" ELSE "begin")
           /\ where' = found
           /\ UNCHANGED <<searchVars, forwardVars, error>>
  <2>1. /\ Trajectory(Spliced(j)) /\ Len(Spliced(j)) >= 2 /\ Spliced(j) # <<>>
        /\ Last(Spliced(j)).s = backward[1].s /\ Last(Spliced(j)).s_dot = backward[1].s_dot
        /\ Last(Spliced(j)).s_ddot = backward[1].s_ddot
    BY <1>1, <1>2, <1>3, <1>4, SplicedFacts
  <2>2. UNCHANGED <<path, position, found, error>> /\ UNCHANGED searchVars
    BY <1>7 DEF searchVars
  <2>3. CacheInv'
    BY <1>1, <2>2, RestKeepsCache
  <2>4. SwitchPoint(where)' /\ Trajectory(points)'
    BY <1>1, <1>7, <2>1, <2>2, PointsKept
  <2>5. BetweenPasses'
    BY <1>1, <1>2, <1>7, <2>1, <2>2 DEF BetweenPasses, InBackward
  <2> QED
    BY <1>1, <1>7, <2>2, <2>3, <2>4, <2>5 DEF GenerationInv, NeverBehind
<1> QED
  BY <1>5, <1>6, <1>7 DEF Splice

LEMMA PredecessorFacts ==
  ASSUME NEW p, p.s \in Nat, NEW next \in Predecessors(p)
  PROVE  next.s \in Int /\ next.s < p.s /\ next.s_dot \in Nat
<1> DEFINE start == path[SegmentAt(p.s)].start
           lowest == IF p.s > start /\ p.s - Stride < start THEN start ELSE p.s - Stride
<1>1. next \in [s : lowest..p.s - 1, s_dot : 0..Top]
  BY DEF Predecessors
<1> HIDE DEF lowest
<1>2. next.s \in lowest..p.s - 1 /\ next.s_dot \in 0..Top
  BY <1>1
<1> QED
  BY <1>2, BoundsAssumption

LEMMA StepBackwardKeeps == GenerationInv /\ StepBackward => GenerationInv'
<1> SUFFICES ASSUME GenerationInv, StepBackward PROVE GenerationInv'
  OBVIOUS
<1>1. phase = "backward"
  BY DEF StepBackward
<1>2. /\ InBackward /\ Backwards /\ Len(points) >= 2 /\ window \in 1..Len(points) - 1
      /\ window \in Nat \ {0} /\ points \in Seq(IPoint)
      /\ Last(backward) \in IPoint /\ Last(backward).s \in 1..Length /\ Len(backward) \in Nat
  BY <1>1, BackwardFacts
<1>3. /\ path \in Paths /\ CacheInv /\ SwitchPoint(where) /\ Trajectory(points) /\ NeverBehind
      /\ points # <<>> /\ SwitchPoint(found) /\ position <= found.s
  BY <1>1, AheadFacts
<1> DEFINE current == Last(backward)
<1>4. PICK next \in Predecessors(current) :
        LET j == Slid(next, current) IN
        IF next.s <= 0 THEN Failed("the beginning is reached")
        ELSE IF Meets(j, next, current) THEN Splice(j)
        ELSE IF ~Under(next) THEN Failed("above the limit curve")
        ELSE /\ backward' = Append(backward, IntegrationPoint(Dt(next, current), next, To(current)))
             /\ window' = j
             /\ UNCHANGED <<searchVars, phase, where, points, duration, forwardVars, told, error>>
  BY DEF StepBackward
<1>5. current.s \in Nat /\ current.s_dot \in Nat
  BY <1>2 DEF IPoint
<1>6. next.s \in Int /\ next.s < current.s /\ next.s_dot \in Nat
  BY <1>4, <1>5, PredecessorFacts
<1>7. Slid(next, current) \in 1..window
  BY <1>2, SlidWhere
<1>8. CASE next.s <= 0
  <2>1. Failed("the beginning is reached")
    BY <1>4, <1>8
  <2> QED
    BY <2>1, FailureKeeps
<1>9. CASE ~(next.s <= 0) /\ Meets(Slid(next, current), next, current)
  <2>1. next.s \in Nat
    BY <1>6, <1>9
  <2>2. Splice(Slid(next, current))
    BY <1>4, <1>9
  <2> QED
    BY <1>1, <1>6, <1>7, <1>9, <2>1, <2>2, SpliceKeeps
<1>10. CASE ~(next.s <= 0) /\ ~Meets(Slid(next, current), next, current) /\ ~Under(next)
  <2>1. Failed("above the limit curve")
    BY <1>4, <1>10
  <2> QED
    BY <2>1, FailureKeeps
<1>11. CASE ~(next.s <= 0) /\ ~Meets(Slid(next, current), next, current) /\ Under(next)
  <2>1. /\ backward' = Append(backward, IntegrationPoint(Dt(next, current), next, To(current)))
        /\ window' = Slid(next, current)
        /\ UNCHANGED <<searchVars, phase, where, points, duration, forwardVars, told, error>>
    BY <1>4, <1>11
  <2>2. UNCHANGED <<path, position, found, where, points, phase, error>> /\ UNCHANGED searchVars
    BY <2>1 DEF searchVars
  <2>3. CacheInv'
    BY <1>3, <2>2, RestKeepsCache
  <2>4. SwitchPoint(where)' /\ Trajectory(points)' /\ SwitchPoint(found)' /\ Length' = Length
    BY <1>3, <2>2, PointsKept, PathKept
  <2>5. PICK q : q = IntegrationPoint(Dt(next, current), next, To(current))
    OBVIOUS
  <2>6. next.s \in Nat /\ Dt(next, current) \in Int /\ To(current) \in Accelerations
    BY <1>5, <1>6, <1>11, PointTyped DEF Dt, To, Accelerations
  <2>7. /\ q \in IPoint /\ q.s = next.s /\ q.s_dot = next.s_dot /\ q.time = Dt(next, current)
        /\ q.s_ddot = To(current) /\ (Under(q) <=> Under(next))
    BY <1>6, <2>5, <2>6, PointTyped
  <2> DEFINE n == Len(backward)
  <2>8. /\ backward' = Append(backward, q) /\ backward \in Seq(IPoint) /\ n \in Nat /\ n >= 1
        /\ current = backward[n]
    BY <1>2, <2>1, <2>5 DEF Backwards, Last
  <2>9. /\ backward' \in Seq(IPoint) /\ Len(backward') = n + 1 /\ backward'[n + 1] = q
        /\ \A i \in 1..n : backward'[i] = backward[i]
    BY <2>7, <2>8
  <2> HIDE DEF n
  <2>10. Backwards'
    <3>1. ASSUME NEW i \in 1..n + 1 PROVE Under(backward[i])'
      <4>1. Under(backward'[i])
        <5>1. CASE i = n + 1
          BY <1>11, <2>7, <2>9, <5>1
        <5>2. CASE i \in 1..n
          BY <1>2, <2>9, <5>2 DEF Backwards, n
        <5>3. i = n + 1 \/ i \in 1..n
          BY <2>8
        <5> QED
          BY <5>1, <5>2, <5>3
      <4> QED
        BY <2>2, <4>1, PointsKept
    <3>2. ASSUME NEW i \in 1..n
          PROVE  /\ backward'[i + 1].s < backward'[i].s
                 /\ backward'[i + 1].time = Dt(backward'[i + 1], backward'[i])
                 /\ backward'[i + 1].s_ddot = To(backward'[i])
      <4>1. CASE i = n
        <5>1. backward'[i] = current /\ backward'[i + 1] = q
          BY <2>8, <2>9, <4>1
        <5> QED
          BY <1>6, <2>7, <5>1 DEF Dt
      <4>2. CASE i # n
        <5>1. i \in 1..n - 1 /\ backward'[i] = backward[i] /\ backward'[i + 1] = backward[i + 1]
          BY <2>8, <2>9, <4>2
        <5> QED
          BY <1>2, <5>1 DEF Backwards, n
      <4> QED
        BY <4>1, <4>2
    <3>3. Len(backward') - 1 = n /\ Len(backward') >= 1
      BY <2>8, <2>9
    <3> QED
      BY <2>9, <3>1, <3>2, <3>3 DEF Backwards
  <2>11. Last(backward') = q /\ backward'[1] = backward[1]
    BY <2>8, <2>9 DEF Last
  <2>12. q.s \in 1..Length
    BY <1>2, <1>5, <1>6, <1>11, <2>7, <1>3, LengthFacts
  <2>13. window' \in 1..Len(points) - 1
    BY <1>2, <1>7, <2>1
  <2>14. InBackward'
    BY <1>2, <2>2, <2>4, <2>10, <2>11, <2>12, <2>13 DEF InBackward
  <2> QED
    BY <1>1, <1>3, <2>2, <2>3, <2>4, <2>14 DEF GenerationInv, NeverBehind, Ahead
<1> QED
  BY <1>8, <1>9, <1>10, <1>11

LEMMA GenerationInvNext == GenerationInv /\ [GenerationNext]_generationVars => GenerationInv'
<1> SUFFICES ASSUME GenerationInv, [GenerationNext]_generationVars PROVE GenerationInv'
  OBVIOUS
<1>1. CASE BeginForward \/ Advance \/ ReachEnd \/ HitCorner \/ HitLimit \/ HitAtOnce
  BY <1>1, BeginForwardKeeps, AdvanceKeeps, ReachEndKeeps, HitCornerKeeps, HitLimitKeeps, HitAtOnceKeeps
<1>2. CASE ForwardFails \/ BackwardFails
  BY <1>2, FailureKeeps DEF ForwardFails, BackwardFails
<1>3. CASE Turn \/ StepBackward
  BY <1>3, TurnKeeps, StepBackwardKeeps
<1>4. CASE Ended \/ UNCHANGED generationVars
  BY <1>4, InvUnchanged DEF Ended
<1> QED
  BY <1>1, <1>2, <1>3, <1>4 DEF GenerationNext

LEMMA GenerationAlways == GenerationSpec => []GenerationInv
BY GenerationStarts, GenerationInvNext, PTL DEF GenerationSpec

-----------------------------------------------------------------------------
(* The theorems *)

\* Cache and bounds change nothing: wherever the next search starts, it returns what two
\* complete searches from there would give (switching_point_cache, find_switching_point).
THEOREM CacheChangesNothing == GenerationSpec => []CacheTransparent
<1>1. GenerationInv => CacheTransparent
  BY GenerationInvImplies
<1> QED
  BY <1>1, GenerationAlways, PTL

\* However often the integration turned back and spliced, the points start at rest at the
\* start, go forward, and their times are the sums of the times between them (the
\* re-timing of the backward points, and current_time at the start of a pass).
THEOREM TimesAreSums == GenerationSpec => []TimesAddUp
<1>1. GenerationInv => TimesAddUp
  BY GenerationInvImplies
<1> QED
  BY <1>1, GenerationAlways, PTL

\* Every point but the last carries the acceleration that leads to the next one, through
\* every splice.
THEOREM AccelerationsLead == GenerationSpec => []AccelerationsLeadOn
<1>1. GenerationInv => AccelerationsLeadOn
  BY GenerationInvImplies
<1> QED
  BY <1>1, GenerationAlways, PTL

\* Every point that is kept is under both limit curves, on either side of a boundary and
\* at every kind of switching point.
THEOREM KeptUnderTheCurves == GenerationSpec => []UnderTheCurves
<1>1. GenerationInv => UnderTheCurves
  BY GenerationInvImplies
<1> QED
  BY <1>1, GenerationAlways, PTL

\* A backward pass leaves the switching point for the next forward pass, with another point
\* before it and the time there (the assertions of current_time); the last pass ends at
\* rest at the end of the path.
THEOREM PassesHandOver == GenerationSpec => []HandedOver
<1>1. GenerationInv => HandedOver
  BY GenerationInvImplies
<1> QED
  BY <1>1, GenerationAlways, PTL

\* Three of the errors thrown for what would be a mistake of the algorithm never happen:
\* search, turn and splice keep ahead of the forward points.
THEOREM StaysAhead == GenerationSpec => []NeverBehind
<1>1. GenerationInv => NeverBehind
  BY DEF GenerationInv
<1> QED
  BY <1>1, GenerationAlways, PTL

=============================================================================
