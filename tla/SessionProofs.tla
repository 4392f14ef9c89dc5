---------------------------- MODULE SessionProofs ----------------------------
(***************************************************************************)
(* Proofs about the streaming session, for every set of batches and        *)
(* trajectories, every period and every bound.                             *)
(***************************************************************************)
EXTENDS Session, SequenceTheorems, NaturalOrder, TLAPS

-----------------------------------------------------------------------------
(* Trajectories. *)

\* What SessionAssumption says of a trajectory, unfolded for the provers.
LEMMA TrajectoryFacts ==
  ASSUME NEW tr \in Trajectory
  PROVE  /\ IsTrajectory(tr)
         /\ tr # NoTrajectory
         /\ Len(tr) \in Nat /\ Len(tr) >= 2
         /\ \A i \in 1..Len(tr) : tr[i] \in [t : Nat, m : Motion] /\ tr[i].t \in Nat
         /\ tr[1].t = 0
         /\ \A i, j \in 1..Len(tr) : i < j => tr[i].t < tr[j].t
         /\ Duration(tr) = tr[Len(tr)].t
         /\ Duration(tr) \in Nat \ {0}
<1>1. IsTrajectory(tr)
  BY SessionAssumption
<1>2. Len(tr) \in Nat /\ Len(tr) >= 2 /\ tr # NoTrajectory
  BY <1>1 DEF IsTrajectory, NoTrajectory
<1>3. ASSUME NEW i \in 1..Len(tr)
      PROVE  tr[i] \in [t : Nat, m : Motion] /\ tr[i].t \in Nat
  <2>1. tr \in Seq([t : Nat, m : Motion])
    BY <1>1 DEF IsTrajectory
  <2>2. tr[i] \in [t : Nat, m : Motion]
    BY <2>1, ElementOfSeq
  <2> QED
    BY <2>2
<1>4. tr[1].t = 0 /\ \A i, j \in 1..Len(tr) : i < j => tr[i].t < tr[j].t
  BY <1>1 DEF IsTrajectory
<1>5. Duration(tr) = tr[Len(tr)].t
  BY <1>2 DEF Duration, Last
<1>6. Duration(tr) \in Nat \ {0}
  <2>1. 1 \in 1..Len(tr) /\ Len(tr) \in 1..Len(tr) /\ 1 < Len(tr)
    BY <1>2
  <2> QED
    BY <1>3, <1>4, <1>5, <2>1
<1> QED
  BY <1>1, <1>2, <1>3, <1>4, <1>5, <1>6

\* The governing point of a time is a point of the trajectory not after that time.
LEMMA GoverningPoint ==
  ASSUME NEW tr \in Trajectory, NEW t \in Nat
  PROVE  \E i \in 1..Len(tr) : Governing(tr, t) = tr[i] /\ tr[i].t <= t
<1> DEFINE T == {i \in 1..Len(tr) : tr[i].t <= t}
           Greatest(i) == /\ tr[i].t <= t
                          /\ \A j \in 1..Len(tr) : tr[j].t <= t => j <= i
<1>1. Len(tr) \in Nat /\ 1 \in 1..Len(tr) /\ tr[1].t = 0
  BY TrajectoryFacts
<1>2. T \subseteq 0..Len(tr) /\ T # {}
  BY <1>1
<1>3. PICK g \in T : \A y \in T : y <= g
  BY <1>1, <1>2, GreatestNatural
<1>4. g \in 1..Len(tr) /\ Greatest(g)
  BY <1>3
<1>5. Greatest(CHOOSE i \in 1..Len(tr) : Greatest(i))
      /\ (CHOOSE i \in 1..Len(tr) : Greatest(i)) \in 1..Len(tr)
  BY <1>4
<1> QED
  BY <1>5 DEF Governing

\* The branch time is a time of e, and c has every point of e that precedes it.
LEMMA BranchKeepsPrefix ==
  ASSUME NEW e \in Trajectory, NEW c \in Trajectory
  PROVE  /\ find_branch_local_time(e, c) \in Nat
         /\ find_branch_local_time(e, c) <= Duration(e)
         /\ \A i \in 1..Len(e) :
              e[i].t < find_branch_local_time(e, c) => i <= Len(c) /\ c[i] = e[i]
<1>1. CASE Mismatches(e, c) = {}
  <2>1. find_branch_local_time(e, c) = Duration(e)
    BY <1>1 DEF find_branch_local_time
  <2>2. \A i \in 1..Len(e) : i <= Len(c) /\ c[i] = e[i]
    <3>1. Len(e) \in Nat /\ Len(c) \in Nat
      BY TrajectoryFacts
    <3> QED
      BY <1>1, <3>1 DEF Mismatches
  <2> QED
    BY <2>1, <2>2, TrajectoryFacts
<1>2. CASE Mismatches(e, c) # {}
  <2> DEFINE Least(i) == \A j \in Mismatches(e, c) : i <= j
             k == CHOOSE i \in Mismatches(e, c) : Least(i)
  <2>1. Mismatches(e, c) \subseteq Nat
    BY TrajectoryFacts DEF Mismatches
  <2>2. k \in Mismatches(e, c) /\ Least(k)
    <3>1. \E i \in Mismatches(e, c) : Least(i)
      BY <1>2, <2>1, LeastNatural
    <3> QED
      BY <3>1
  <2>3. k \in 1..Len(e) /\ find_branch_local_time(e, c) = e[k].t
    BY <1>2, <2>2 DEF find_branch_local_time, Mismatches
  <2> HIDE DEF k
  <2>4. ASSUME NEW i \in 1..Len(e), e[i].t < e[k].t
        PROVE  i <= Len(c) /\ c[i] = e[i]
    <3>1. i < k
      <4>1. k < i => e[k].t < e[i].t
        BY <2>3, TrajectoryFacts
      <4>2. e[i].t \in Nat /\ e[k].t \in Nat
        BY <2>3, TrajectoryFacts
      <4> QED
        BY <2>3, <2>4, <4>1, <4>2, TrajectoryFacts
    <3>2. i \notin Mismatches(e, c)
      BY <2>2, <2>3, <3>1, TrajectoryFacts
    <3> QED
      BY <3>2, TrajectoryFacts DEF Mismatches
  <2>5. e[k].t \in Nat /\ e[k].t <= Duration(e)
    <3>1. k < Len(e) => e[k].t < e[Len(e)].t
      BY <2>3, TrajectoryFacts
    <3> QED
      BY <2>3, <3>1, TrajectoryFacts
  <2> QED
    BY <2>3, <2>4, <2>5
<1> QED
  BY <1>1, <1>2

-----------------------------------------------------------------------------
(* Rows of the waypoint stores. *)

\* Appending past the seam, and winding the store back to what it held.
LEMMA AppendThenTruncate ==
  ASSUME NEW rows \in Seq(Waypoint), NEW batch \in Seq(Waypoint), batch # <<>>
  PROVE  /\ Tail(batch) \in Seq(Waypoint)
         /\ Appended(rows, batch) \in Seq(Waypoint)
         /\ Len(Appended(rows, batch)) = Len(rows) + Len(batch) - 1
         /\ Truncated(Appended(rows, batch), Len(rows)) = rows
<1>1. Tail(batch) \in Seq(Waypoint) /\ Len(Tail(batch)) = Len(batch) - 1
  BY HeadTailProperties
<1>2. /\ rows \o Tail(batch) \in Seq(Waypoint)
      /\ Len(rows \o Tail(batch)) = Len(rows) + Len(batch) - 1
  BY <1>1, ConcatProperties, LenProperties
<1>3. SubSeq(rows \o Tail(batch), 1, Len(rows)) = rows
  <2>1. CASE rows = <<>>
    BY <2>1, <1>1, <1>2, SubSeqEmpty
  <2>2. CASE rows # <<>>
    <3>1. Len(rows) \in 1..Len(rows) /\ 1 \in 1..Len(rows)
      BY <2>2, EmptySeq, LenProperties
    <3>2. SubSeq(rows \o Tail(batch), 1, Len(rows)) = SubSeq(rows, 1, Len(rows))
      BY <1>1, <3>1, SubSeqOfConcat1
    <3> QED
      BY <3>2, SubSeqFull
  <2> QED
    BY <2>1, <2>2
<1> QED
  BY <1>1, <1>2, <1>3 DEF Appended, Truncated

\* The last row of a nonempty store is a waypoint.
LEMMA LastRow ==
  ASSUME NEW rows \in Seq(Waypoint), rows # <<>>
  PROVE  Last(rows) \in Waypoint /\ <<Last(rows)>> \in Seq(Waypoint)
<1>1. Len(rows) \in 1..Len(rows)
  BY EmptySeq, LenProperties
<1>2. Last(rows) \in Waypoint
  BY <1>1, ElementOfSeq DEF Last
<1> QED
  BY <1>2

-----------------------------------------------------------------------------
(* The sampling grid. *)

\* s is a grid install_staged_, the first build or a pivot makes for tr, perhaps
\* with some of its samples taken.
Grid(s, tr) ==
  /\ s \in [start : Nat, count : Nat, next : Nat]
  /\ s.next <= s.count
  /\ s.count >= 1
  /\ s.count = 1 \/ /\ s.start < Duration(tr)
                    /\ s.count = quantized_samples(Duration(tr) - s.start)

\* Two natural numbers divided.
LEMMA DivNat ==
  ASSUME NEW n \in Nat, NEW d \in Nat \ {0}
  PROVE  /\ n \div d \in Nat
         /\ d * (n \div d) <= n
         /\ n < d * (n \div d) + d
OBVIOUS

\* A span has at least two samples, no fewer than one a period and no more than
\* one a tick besides the first.
LEMMA QuantizedCount ==
  ASSUME NEW span \in Nat \ {0}
  PROVE  /\ quantized_samples(span) \in Nat
         /\ quantized_samples(span) - 1 \in Nat \ {0}
         /\ quantized_samples(span) - 1 <= span
         /\ span <= Period * (quantized_samples(span) - 1)
<1> DEFINE q == (span + Period - 1) \div Period
<1>1. Period \in Nat \ {0} /\ span + Period - 1 \in Nat
  BY SessionAssumption DEF SessionAssumption
<1>2. q \in Nat /\ Period * q <= span + Period - 1 /\ span + Period - 1 < Period * q + Period
  BY <1>1, DivNat
<1>3. quantized_samples(span) = q + 1
  BY DEF quantized_samples
<1> HIDE DEF q
<1>4. q >= 1 /\ q <= span /\ span <= Period * q
  BY <1>1, <1>2
<1> QED
  BY <1>2, <1>3, <1>4

\* Consecutive multiples of a span, divided into equal steps of at most a period
\* and at least a tick.
LEMMA StepBounds ==
  ASSUME NEW k \in Nat \ {0}, NEW span \in Nat \ {0}, k <= span, span <= Period * k,
         NEW i \in Nat
  PROVE  /\ (i * span) \div k \in Nat
         /\ ((i + 1) * span) \div k \in Nat
         /\ (i * span) \div k < ((i + 1) * span) \div k
         /\ ((i + 1) * span) \div k <= (i * span) \div k + Period
<1> DEFINE x == (i * span) \div k
           y == ((i + 1) * span) \div k
<1>1. Period \in Nat \ {0}
  BY SessionAssumption DEF SessionAssumption
<1>2. i * span \in Nat /\ (i + 1) * span \in Nat
  OBVIOUS
<1>3. x \in Nat /\ k * x <= i * span /\ i * span < k * x + k
  BY <1>2, DivNat
<1>4. y \in Nat /\ k * y <= (i + 1) * span /\ (i + 1) * span < k * y + k
  BY <1>2, DivNat
<1> HIDE DEF x, y
<1>5. x < y /\ y <= x + Period
  BY <1>1, <1>3, <1>4
<1> QED
  BY <1>3, <1>4, <1>5 DEF x, y

\* The i-th sample time before the last is a step into [start, duration].
LEMMA InnerSample ==
  ASSUME NEW tr \in Trajectory, NEW s, Grid(s, tr), s.next < s.count - 1
  PROVE  /\ SampleTime(s, tr) \in Nat
         /\ s.start <= SampleTime(s, tr)
         /\ SampleTime(s, tr) < Duration(tr)
         /\ LET n == [s EXCEPT !.next = @ + 1] IN
              SampleTime(n, tr) \in (SampleTime(s, tr) + 1)..(SampleTime(s, tr) + Period)
<1> DEFINE span == Duration(tr) - s.start
           k == s.count - 1
           i == s.next
           x == (i * span) \div k
           y == ((i + 1) * span) \div k
           n == [s EXCEPT !.next = @ + 1]
<1>1. s \in [start : Nat, count : Nat, next : Nat] /\ i \in Nat /\ i < k /\ s.start \in Nat
  BY DEF Grid
<1>2. s.start < Duration(tr) /\ s.count = quantized_samples(span)
  BY <1>1 DEF Grid
<1>3. span \in Nat \ {0} /\ Duration(tr) \in Nat
  BY <1>1, <1>2, TrajectoryFacts
<1>4. k \in Nat \ {0} /\ k <= span /\ span <= Period * k
  <2> HIDE DEF span
  <2> QED
    BY <1>2, <1>3, QuantizedCount
<1>5. x \in Nat /\ y \in Nat /\ x < y /\ y <= x + Period
  <2> HIDE DEF span, k, i
  <2> QED
    BY <1>1, <1>3, <1>4, StepBounds
<1>6. y <= span /\ (i + 1 = k => y = span)
  <2> HIDE DEF span, k, i
  <2>1. (i + 1) * span \in Nat
    BY <1>1, <1>3
  <2>2. k * y <= (i + 1) * span /\ (i + 1) * span < k * y + k
    BY <1>4, <2>1, DivNat
  <2>3. (i + 1) * span <= k * span
    BY <1>1, <1>3, <1>4
  <2> HIDE DEF y
  <2>4. k * y <= k * span
    BY <1>3, <1>4, <1>5, <2>1, <2>2, <2>3
  <2>5. y <= span
    BY <1>3, <1>4, <1>5, <2>4
  <2>6. i + 1 = k => y = span
    BY <1>3, <1>4, <1>5, <2>2, <2>5
  <2> QED
    BY <2>5, <2>6
<1>7. SampleTime(s, tr) = s.start + x
  BY <1>1 DEF SampleTime
<1>8. n.next = i + 1 /\ n.start = s.start /\ n.count = s.count
  BY <1>1
<1>9. SampleTime(n, tr) = s.start + y
  <2>1. CASE i + 1 = k
    <3>1. SampleTime(n, tr) = Duration(tr)
      BY <1>8, <2>1 DEF SampleTime
    <3> QED
      BY <1>1, <1>3, <1>6, <2>1, <3>1
  <2>2. CASE i + 1 # k
    BY <1>8, <2>2 DEF SampleTime
  <2> QED
    BY <2>1, <2>2
<1> HIDE DEF x, y, k, i, n
<1>10. s.start + x < Duration(tr)
  BY <1>1, <1>3, <1>5, <1>6
<1>11. SampleTime(n, tr) \in (SampleTime(s, tr) + 1)..(SampleTime(s, tr) + Period)
  BY <1>1, <1>5, <1>7, <1>9, SessionAssumption DEF SessionAssumption
<1> QED
  BY <1>1, <1>5, <1>7, <1>10, <1>11 DEF n

\* Taking the next sample of a grid.
LEMMA GridSample ==
  ASSUME NEW tr \in Trajectory, NEW s, Grid(s, tr), s.next < s.count
  PROVE  /\ SampleTime(s, tr) \in Nat
         /\ SampleTime(s, tr) <= Duration(tr)
         /\ LET n == [s EXCEPT !.next = @ + 1] IN
              /\ Grid(n, tr)
              /\ IF n.next = n.count
                   THEN SampleTime(s, tr) = Duration(tr)
                   ELSE SampleTime(n, tr)
                          \in (SampleTime(s, tr) + 1)..(SampleTime(s, tr) + Period)
<1> DEFINE n == [s EXCEPT !.next = @ + 1]
<1>1. s \in [start : Nat, count : Nat, next : Nat]
  BY DEF Grid
<1>2. /\ n \in [start : Nat, count : Nat, next : Nat]
      /\ n.next = s.next + 1 /\ n.count = s.count /\ n.start = s.start
  BY <1>1
<1>3. Grid(n, tr)
  BY <1>1, <1>2 DEF Grid
<1>4. Duration(tr) \in Nat
  BY TrajectoryFacts
<1>5. CASE s.next = s.count - 1
  <2>1. SampleTime(s, tr) = Duration(tr) /\ n.next = n.count
    BY <1>1, <1>2, <1>5 DEF SampleTime
  <2> QED
    BY <1>3, <1>4, <2>1
<1>6. CASE s.next # s.count - 1
  <2>1. s.next < s.count - 1 /\ n.next # n.count
    BY <1>1, <1>2, <1>6
  <2>2. /\ SampleTime(s, tr) \in Nat
        /\ SampleTime(s, tr) < Duration(tr)
        /\ SampleTime(n, tr) \in (SampleTime(s, tr) + 1)..(SampleTime(s, tr) + Period)
    BY <2>1, InnerSample
  <2> QED
    BY <1>3, <1>4, <2>1, <2>2
<1> QED
  BY <1>5, <1>6

\* A fresh grid that starts before the trajectory ends has at least two samples,
\* the first at its start.
LEMMA FreshGrid ==
  ASSUME NEW tr \in Trajectory, NEW start \in Nat, start < Duration(tr)
  PROVE  LET s == quantized_for_trajectory(tr, start) IN
           /\ Grid(s, tr)
           /\ s.next = 0 /\ s.count >= 2
           /\ SampleTime(s, tr) = start
<1> DEFINE span == Duration(tr) - start
           s == quantized_for_trajectory(tr, start)
<1>1. span \in Nat \ {0}
  BY TrajectoryFacts
<1>2. s = [start |-> start, count |-> quantized_samples(span), next |-> 0]
  BY DEF quantized_for_trajectory
<1> HIDE DEF span
<1>3. quantized_samples(span) \in Nat /\ quantized_samples(span) >= 2
  BY <1>1, QuantizedCount
<1>4. s.start = start /\ s.count = quantized_samples(span) /\ s.next = 0
  BY <1>2
<1>5. Grid(s, tr)
  BY <1>2, <1>3, <1>4 DEF Grid, span
<1>6. SampleTime(s, tr) = start
  <2>1. s.next # s.count - 1
    BY <1>3, <1>4
  <2>2. 0 * (Duration(tr) - start) = 0
    BY TrajectoryFacts
  <2>3. 0 \div (s.count - 1) = 0
    <3>1. s.count - 1 \in Nat \ {0}
      BY <1>3, <1>4
    <3>2. ASSUME NEW k \in Nat \ {0} PROVE 0 \div k = 0
      OBVIOUS
    <3> QED
      BY <3>1, <3>2
  <2> QED
    BY <1>4, <2>1, <2>2, <2>3 DEF SampleTime
<1> QED
  BY <1>3, <1>4, <1>5, <1>6

\* The one-sample grid lands on the end.
LEMMA TerminalGrid ==
  ASSUME NEW tr \in Trajectory
  PROVE  /\ Grid(TerminalOnly, tr)
         /\ TerminalOnly.next = 0 /\ TerminalOnly.count = 1
         /\ SampleTime(TerminalOnly, tr) = Duration(tr)
BY DEF Grid, TerminalOnly, SampleTime

-----------------------------------------------------------------------------
(* Types, the shape of the state, and the sampler.                         *)
(* TypeOK is not inductive: the sampler must be a grid of the active       *)
(* trajectory for its sample times to be naturals, the latest sample must  *)
(* not precede the epoch for a pivot to resume at a natural, and staged    *)
(* waypoints must exist for a rebase to leave waypoints behind.            *)

Shape ==
  /\ active # NoTrajectory => waypoints # <<>> /\ Grid(sampler, active)
  /\ Staged => staging.waypoints # <<>>
  /\ Staged => staging.on
  /\ emitted_sample_count > 0 => active # NoTrajectory /\ epoch <= current_time
  /\ emitted_sample_count = 0 =>
       /\ epoch = 0 /\ current_time = 0
       /\ sampler.start = 0 /\ sampler.next = 0
       /\ active # NoTrajectory => sampler.count >= 2

SamplerInv == TypeOK /\ Shape /\ SamplerAhead

\* The constants' assumptions the step lemmas use.
LEMMA ConstantFacts ==
  /\ Batch \subseteq Seq(Waypoint)
  /\ Period \in Nat \ {0}
  /\ Demand \subseteq Nat \ {0}
  /\ Horizon \subseteq Nat
  /\ NoTrajectory \notin Trajectory
  /\ NoTrajectory = <<>>
<1>1. NoTrajectory \notin Trajectory
  BY TrajectoryFacts
<1> QED
  BY <1>1, SessionAssumption DEF SessionAssumption, NoTrajectory

\* A call that leaves the motion alone: it may rewrite either store while a row
\* remains, and open or leave the staging.
LEMMA MotionKept ==
  ASSUME SamplerInv,
         UNCHANGED <<control, history>>,
         waypoints' \in Seq(Waypoint),
         active # NoTrajectory => waypoints' # <<>>,
         staging' \in [on : BOOLEAN, waypoints : Seq(Waypoint),
                       next : Trajectory \cup {NoTrajectory}],
         staging'.next = staging.next,
         staging.waypoints # <<>> => staging'.waypoints # <<>>,
         staging.on => staging'.on,
         active = NoTrajectory => staging' = staging,
         call' \in Calls,
         reply' \in [kind : Kinds, slack : Int, delta : Int]
  PROVE  SamplerInv'
<1>1. TypeOK'
  BY DEF SamplerInv, TypeOK, control, history
<1>2. Shape'
  BY DEF SamplerInv, Shape, Staged, control
<1>3. SamplerAhead'
  BY DEF SamplerInv, SamplerAhead, control, Remaining
<1> QED
  BY <1>1, <1>2, <1>3 DEF SamplerInv

\* A batch the staged motion refuses leaves the staging as it was.
LEMMA StagedRewound ==
  ASSUME SamplerInv, NEW batch \in Seq(Waypoint), batch # <<>>,
         active # NoTrajectory, StageFails(batch)
  PROVE  staging' = staging
<1>1. /\ staging \in [on : BOOLEAN, waypoints : Seq(Waypoint),
                      next : Trajectory \cup {NoTrajectory}]
      /\ waypoints \in Seq(Waypoint) /\ waypoints # <<>>
  BY DEF SamplerInv, TypeOK, Shape
<1>2. CASE staging.waypoints = <<>>
  <2>1. Truncated(StagedRows(batch), Len(staging.waypoints)) = <<>>
    BY <1>2, SubSeqEmpty, EmptySeq DEF Truncated
  <2> QED
    BY <1>1, <1>2, <2>1 DEF StageFails
<1>3. CASE staging.waypoints # <<>>
  <2>1. Truncated(staging.waypoints \o Tail(batch), Len(staging.waypoints)) = staging.waypoints
    BY <1>1, AppendThenTruncate DEF Appended
  <2> QED
    BY <1>1, <1>3, <2>1 DEF StageFails
<1> QED
  BY <1>2, <1>3

\* Replies that only report.
LEMMA PlainReplies ==
  /\ NoReply \in [kind : Kinds, slack : Int, delta : Int]
  /\ Threw \in [kind : Kinds, slack : Int, delta : Int]
  /\ [kind |-> "noop", slack |-> 0, delta |-> 0] \in [kind : Kinds, slack : Int, delta : Int]
BY DEF NoReply, Threw, Kinds

\* An append that runs out of memory leaves rows behind, and no fewer than before.
LEMMA AppendFailsKeeps ==
  ASSUME SamplerInv, NEW batch \in Batch, AppendFails(batch)
  PROVE  SamplerInv'
<1> USE ConstantFacts, PlainReplies
<1>0. /\ waypoints \in Seq(Waypoint)
      /\ active # NoTrajectory => waypoints # <<>>
      /\ staging \in [on : BOOLEAN, waypoints : Seq(Waypoint),
                      next : Trajectory \cup {NoTrajectory}]
      /\ call \in Calls
      /\ reply' \in [kind : Kinds, slack : Int, delta : Int]
      /\ batch \in Seq(Waypoint)
      /\ UNCHANGED <<control, call, history>>
  BY DEF SamplerInv, TypeOK, Shape, AppendFails, Throw
<1>a. ASSUME NEW n \in 1..Len(batch), NEW k \in {1, 2}
      PROVE  /\ waypoints \o SubSeq(batch, k, n) \in Seq(Waypoint)
             /\ waypoints # <<>> => waypoints \o SubSeq(batch, k, n) # <<>>
  <2>1. SubSeq(batch, k, n) \in Seq(Waypoint)
    BY <1>0, <1>a, SubSeqProperties
  <2>2. /\ waypoints \o SubSeq(batch, k, n) \in Seq(Waypoint)
        /\ Len(waypoints \o SubSeq(batch, k, n)) = Len(waypoints) + Len(SubSeq(batch, k, n))
    BY <1>0, <2>1, ConcatProperties
  <2> QED
    BY <1>0, <2>1, <2>2, EmptySeq, LenProperties
<1>1. ASSUME NEW n \in 1..Len(batch) - 1, FirstBatch(batch), UNCHANGED staging,
             waypoints' = waypoints \o SubSeq(batch, 1, n)
      PROVE  SamplerInv'
  <2>1. n \in 1..Len(batch)
    BY <1>0, <1>1, LenProperties
  <2> QED
    BY <1>0, <1>1, <1>a, <2>1, MotionKept DEF FirstBatch
<1>2. ASSUME NEW n \in 1..Len(batch) - 1, UNCHANGED staging,
             waypoints' = waypoints \o SubSeq(batch, 2, n), active # NoTrajectory
      PROVE  SamplerInv'
  <2>1. n \in 1..Len(batch)
    BY <1>0, <1>2, LenProperties
  <2> QED
    BY <1>0, <1>2, <1>a, <2>1, MotionKept
<1>3. ASSUME NEW n \in Len(staging.waypoints)..Len(StagedRows(batch)) - 1, UNCHANGED waypoints,
             batch # <<>>, active # NoTrajectory,
             staging' = [staging EXCEPT !.waypoints = SubSeq(StagedRows(batch), 1, n)]
      PROVE  SamplerInv'
  <2>1. StagedRows(batch) \in Seq(Waypoint)
    <3>1. (IF staging.waypoints = <<>> THEN <<Last(waypoints)>> ELSE staging.waypoints) \in Seq(Waypoint)
      BY <1>0, <1>3, LastRow
    <3> QED
      BY <1>0, <1>3, <3>1, AppendThenTruncate DEF StagedRows
  <2>2. /\ Len(staging.waypoints) \in Nat /\ Len(StagedRows(batch)) \in Nat
        /\ n \in Nat /\ n < Len(StagedRows(batch)) /\ Len(staging.waypoints) <= n
    BY <1>0, <1>3, <2>1, LenProperties
  <2>3. SubSeq(StagedRows(batch), 1, n) \in Seq(Waypoint)
    <3>1. \A i \in 1..n : StagedRows(batch)[i] \in Waypoint
      BY <2>1, <2>2, ElementOfSeq
    <3> QED
      BY <2>2, <3>1, SubSeqProperties
  <2>4. staging.waypoints # <<>> => SubSeq(StagedRows(batch), 1, n) # <<>>
    <3>1. Len(SubSeq(StagedRows(batch), 1, n)) = n
      <4>1. \A i \in 1..n : StagedRows(batch)[i] \in Waypoint
        BY <2>1, <2>2, ElementOfSeq
      <4> QED
        BY <2>2, <4>1, SubSeqProperties
    <3>2. ASSUME staging.waypoints # <<>> PROVE n >= 1
      <4>1. staging.waypoints \in Seq(Waypoint)
        BY <1>0
      <4>2. Len(staging.waypoints) # 0
        BY <3>2, <4>1, EmptySeq
      <4> QED
        BY <2>2, <4>2
    <3>3. ASSUME SubSeq(StagedRows(batch), 1, n) = <<>> PROVE n = 0
      BY <3>1, <3>3, EmptySeq
    <3> QED
      BY <2>2, <3>2, <3>3
  <2>5. /\ staging' \in [on : BOOLEAN, waypoints : Seq(Waypoint),
                        next : Trajectory \cup {NoTrajectory}]
        /\ staging'.next = staging.next /\ staging'.on = staging.on
        /\ staging'.waypoints = SubSeq(StagedRows(batch), 1, n)
    BY <1>0, <1>3, <2>3
  <2> QED
    BY <1>0, <1>3, <2>4, <2>5, MotionKept
<1> QED
  BY <1>1, <1>2, <1>3 DEF AppendFails, SeamedBatch

\* The extends that leave the motion alone keep the invariant.
LEMMA QuietExtends ==
  ASSUME SamplerInv, NEW batch \in Batch,
         \/ ExtendRefused(batch)
         \/ FirstBuildFails(batch)
         \/ FirstSamplerThrows(batch)
         \/ ExtendNoop(batch)
         \/ StageAgainFails(batch)
         \/ CandidateFails(batch)
         \/ AppendFails(batch)
         \/ \E c \in Trajectory : PivotSamplerThrows(batch, c) \/ StageFirstFails(batch, c)
  PROVE  SamplerInv'
<1> USE ConstantFacts, PlainReplies
<1>0. /\ TypeOK
      /\ waypoints \in Seq(Waypoint)
      /\ active # NoTrajectory => waypoints # <<>>
      /\ staging \in [on : BOOLEAN, waypoints : Seq(Waypoint),
                      next : Trajectory \cup {NoTrajectory}]
      /\ call \in Calls
      /\ reply \in [kind : Kinds, slack : Int, delta : Int]
      /\ batch \in Seq(Waypoint)
      /\ Idle \in Calls
  BY DEF SamplerInv, TypeOK, Shape, Calls
<1>a. ASSUME batch # <<>>, active # NoTrajectory
      PROVE  /\ Appended(waypoints, batch) \in Seq(Waypoint)
             /\ Appended(waypoints, batch) # <<>>
             /\ Truncated(Appended(waypoints, batch), Len(waypoints)) = waypoints
  <2>1. Len(waypoints) >= 1 /\ Len(batch) >= 1
    BY <1>0, <1>a, EmptySeq
  <2>2. /\ Appended(waypoints, batch) \in Seq(Waypoint)
        /\ Len(Appended(waypoints, batch)) = Len(waypoints) + Len(batch) - 1
        /\ Truncated(Appended(waypoints, batch), Len(waypoints)) = waypoints
    BY <1>0, <1>a, AppendThenTruncate
  <2>3. Len(Appended(waypoints, batch)) >= 1
    BY <1>0, <2>1, <2>2, LenProperties
  <2> QED
    BY <2>2, <2>3, EmptySeq
<1>1. CASE ExtendRefused(batch)
  BY <1>0, <1>1, MotionKept DEF ExtendRefused, Throw
<1>2. CASE FirstBuildFails(batch)
  <2>1. waypoints \o batch \in Seq(Waypoint)
    BY <1>0, ConcatProperties
  <2>2. waypoints' \in Seq(Waypoint)
    <3>1. Truncated(waypoints \o batch, 0) = <<>>
      BY SubSeqEmpty DEF Truncated
    <3> QED
      BY <1>2, <3>1, EmptySeq DEF FirstBuildFails
  <2> QED
    BY <1>0, <1>2, <2>2, MotionKept DEF FirstBuildFails, FirstBatch, Throw
<1>3. CASE FirstSamplerThrows(batch)
  <2>1. waypoints' \in Seq(Waypoint)
    BY <1>0, <1>3, ConcatProperties DEF FirstSamplerThrows
  <2> QED
    BY <1>0, <1>3, <2>1, MotionKept DEF FirstSamplerThrows, FirstBatch, Throw
<1>4. CASE ExtendNoop(batch)
  BY <1>0, <1>4, MotionKept DEF ExtendNoop
<1>5. CASE StageAgainFails(batch)
  <2>1. UNCHANGED <<waypoints, control, call, history>> /\ reply' = Threw
    BY <1>5 DEF StageAgainFails, StageFails, Throw
  <2>2. staging' = staging
    BY <1>0, <1>5, StagedRewound DEF StageAgainFails, SeamedBatch, StageFails
  <2> QED
    BY <1>0, <2>1, <2>2, MotionKept
<1>6. CASE CandidateFails(batch)
  BY <1>0, <1>a, <1>6, MotionKept DEF CandidateFails, Candidate, SeamedBatch, Throw
<1>7. CASE \E c \in Trajectory : PivotSamplerThrows(batch, c)
  BY <1>0, <1>a, <1>7, MotionKept DEF PivotSamplerThrows, Candidate, SeamedBatch, Throw
<1>8. CASE \E c \in Trajectory : StageFirstFails(batch, c)
  BY <1>0, <1>a, <1>8, MotionKept DEF StageFirstFails, Candidate, SeamedBatch, Throw
<1>9. CASE AppendFails(batch)
  BY <1>0, <1>9, AppendFailsKeeps
<1> QED
  BY <1>1, <1>2, <1>3, <1>4, <1>5, <1>6, <1>7, <1>8, <1>9

\* So do the calls that begin, end or fail without a sample, and start_staging.
LEMMA QuietCalls ==
  ASSUME SamplerInv,
         \/ start_staging
         \/ \E n \in Demand : sample_next(n)
         \/ \E h \in Horizon : sample_at_least(h)
         \/ Drained
         \/ InstallThrows
  PROVE  SamplerInv'
<1> USE ConstantFacts, PlainReplies
<1>0. /\ TypeOK
      /\ waypoints \in Seq(Waypoint)
      /\ active # NoTrajectory => waypoints # <<>>
      /\ staging \in [on : BOOLEAN, waypoints : Seq(Waypoint),
                      next : Trajectory \cup {NoTrajectory}]
      /\ call \in Calls
      /\ reply \in [kind : Kinds, slack : Int, delta : Int]
      /\ Idle \in Calls
  BY DEF SamplerInv, TypeOK, Shape, Calls
<1>1. CASE start_staging
  <2>1. UNCHANGED <<waypoints, control, call, history>> /\ reply' = NoReply
    BY <1>1 DEF start_staging
  <2>2. /\ staging' \in [on : BOOLEAN, waypoints : Seq(Waypoint),
                         next : Trajectory \cup {NoTrajectory}]
        /\ staging'.next = staging.next
        /\ staging'.waypoints = staging.waypoints
        /\ staging.on => staging'.on
        /\ active = NoTrajectory => staging' = staging
    BY <1>0, <1>1 DEF start_staging
  <2> QED
    BY <1>0, <2>1, <2>2, MotionKept
<1>2. CASE \E n \in Demand : sample_next(n)
  <2>1. call' \in Calls
    <3>1. PICK d \in Nat \ {0} : call' = [op |-> "next", n |-> d]
      BY <1>2 DEF sample_next
    <3> QED
      BY <3>1 DEF Calls
  <2> QED
    BY <1>0, <1>2, <2>1, MotionKept DEF sample_next
<1>3. CASE \E h \in Horizon : sample_at_least(h)
  <2>1. call' \in Calls
    BY <1>0, <1>3 DEF sample_at_least, TypeOK, Calls
  <2> QED
    BY <1>0, <1>3, <2>1, MotionKept DEF sample_at_least
<1>4. CASE Drained
  BY <1>0, <1>4, MotionKept DEF Drained
<1>5. CASE InstallThrows
  BY <1>0, <1>5, MotionKept DEF InstallThrows
<1> QED
  BY <1>1, <1>2, <1>3, <1>4, <1>5

\* The first build installs a fresh grid at zero.
LEMMA FirstBuildStep ==
  ASSUME SamplerInv, NEW batch \in Batch, FirstBuild(batch)
  PROVE  SamplerInv'
<1> USE ConstantFacts
<1>1. /\ TypeOK /\ Shape /\ active = NoTrajectory /\ batch # <<>>
      /\ batch \in Seq(Waypoint) /\ waypoints \in Seq(Waypoint)
  BY DEF SamplerInv, FirstBuild, FirstBatch, TypeOK
<1>2. PICK tr \in Trajectory :
        /\ waypoints' = waypoints \o batch
        /\ active' = tr
        /\ sampler' = quantized_for_trajectory(tr, 0)
        /\ last_waypoint' = <<Last(waypoints')>>
        /\ generation_count' = 1
        /\ reply' = [kind |-> "first_build", slack |-> 0, delta |-> Duration(tr)]
  BY DEF FirstBuild, Builds
<1>3. /\ accepted' = accepted \o batch
      /\ UNCHANGED <<epoch, current_time, emitted_sample_count, staging, call,
                     retired, past, sampled>>
  BY DEF FirstBuild
<1>4. waypoints' \in Seq(Waypoint) /\ waypoints' # <<>>
  BY <1>1, <1>2, ConcatProperties, ConcatEqualIffEmpty
<1>5. last_waypoint' \in Seq(Waypoint) /\ last_waypoint' # <<>>
  BY <1>2, <1>4, LastRow
<1>6. accepted' \in Seq(Waypoint)
  BY <1>1, <1>3, ConcatProperties DEF TypeOK
<1>7. Duration(tr) \in Nat \ {0}
  BY <1>2, TrajectoryFacts
<1>8. /\ Grid(sampler', tr) /\ sampler'.start = 0
      /\ sampler'.next = 0 /\ sampler'.count >= 2
  BY <1>2, <1>7, FreshGrid DEF quantized_for_trajectory
<1>9. reply' \in [kind : Kinds, slack : Int, delta : Int]
  BY <1>2, <1>7 DEF Kinds
<1>10. emitted_sample_count = 0
  BY <1>1 DEF Shape, TypeOK
<1>11. TypeOK'
  BY <1>1, <1>2, <1>3, <1>4, <1>5, <1>6, <1>8, <1>9 DEF TypeOK, Grid
<1>12. Shape'
  BY <1>1, <1>2, <1>3, <1>4, <1>8, <1>10 DEF Shape, Staged
<1> QED
  BY <1>3, <1>10, <1>11, <1>12 DEF SamplerInv, SamplerAhead

\* Staging leaves the active trajectory and its grid alone.
LEMMA StageStep ==
  ASSUME SamplerInv, NEW batch \in Batch, NEW tr \in Trajectory,
         active # NoTrajectory, batch # <<>>,
         Stage(batch, tr),
         waypoints' = waypoints,
         reply' \in [kind : Kinds, slack : Int, delta : Int]
  PROVE  SamplerInv'
<1> USE ConstantFacts
<1>1. /\ TypeOK /\ Shape /\ batch \in Seq(Waypoint) /\ waypoints \in Seq(Waypoint)
      /\ waypoints # <<>> /\ staging.waypoints \in Seq(Waypoint)
  BY DEF SamplerInv, TypeOK, Shape
<1>2. StagedRows(batch) \in Seq(Waypoint) /\ StagedRows(batch) # <<>>
  <2>1. ASSUME NEW rows \in Seq(Waypoint), rows # <<>>
        PROVE  Appended(rows, batch) \in Seq(Waypoint) /\ Appended(rows, batch) # <<>>
    <3>1. Appended(rows, batch) \in Seq(Waypoint) /\ Tail(batch) \in Seq(Waypoint)
      BY <1>1, <2>1, AppendThenTruncate
    <3> QED
      BY <2>1, <3>1, ConcatEqualIffEmpty DEF Appended
  <2>2. <<Last(waypoints)>> \in Seq(Waypoint) /\ <<Last(waypoints)>> # <<>>
    BY <1>1, LastRow
  <2> QED
    BY <1>1, <2>1, <2>2 DEF StagedRows
<1>3. last_waypoint' \in Seq(Waypoint) /\ last_waypoint' # <<>>
  BY <1>1, LastRow DEF Stage
<1>4. accepted' \in Seq(Waypoint)
  BY <1>1, AppendThenTruncate, ConcatProperties DEF Stage, TypeOK
<1>5. /\ staging' = [on |-> TRUE, waypoints |-> StagedRows(batch), next |-> tr]
      /\ UNCHANGED <<active, sampler, epoch, current_time, emitted_sample_count,
                     generation_count, call, retired, past, sampled>>
  BY DEF Stage
<1>6. TypeOK'
  BY <1>1, <1>2, <1>3, <1>4, <1>5 DEF TypeOK
<1>7. Shape'
  BY <1>1, <1>2, <1>5 DEF Shape, Staged
<1> QED
  BY <1>5, <1>6, <1>7 DEF SamplerInv, SamplerAhead, Remaining

\* A pivot resumes on a fresh grid, one period past the latest sample.
LEMMA PivotStep ==
  ASSUME SamplerInv, NEW batch \in Batch, NEW candidate \in Trajectory,
         Pivot(batch, candidate)
  PROVE  SamplerInv'
<1> USE ConstantFacts
<1>1. /\ TypeOK /\ Shape /\ SamplerAhead
      /\ active # NoTrajectory /\ batch # <<>> /\ active \in Trajectory
      /\ batch \in Seq(Waypoint) /\ waypoints \in Seq(Waypoint) /\ waypoints # <<>>
  BY DEF SamplerInv, TypeOK, Shape, Pivot, Candidate, SeamedBatch
<1>2. /\ Samplable(candidate)
      /\ waypoints' = Appended(waypoints, batch)
      /\ active' = candidate
      /\ sampler' = quantized_for_trajectory(candidate, StartingLocalTime)
      /\ last_waypoint' = <<Last(waypoints')>>
      /\ generation_count' = generation_count + 1
      /\ reply' = [kind |-> "pivot", slack |-> BranchSlack(candidate),
                   delta |-> Duration(candidate) - Duration(active)]
      /\ accepted' = accepted \o Tail(batch)
      /\ UNCHANGED <<epoch, current_time, emitted_sample_count, staging, call,
                     retired, past, sampled>>
  BY DEF Pivot
<1>3. waypoints' \in Seq(Waypoint) /\ waypoints' # <<>> /\ accepted' \in Seq(Waypoint)
  <2>1. waypoints' \in Seq(Waypoint) /\ Tail(batch) \in Seq(Waypoint)
    BY <1>1, <1>2, AppendThenTruncate
  <2> QED
    BY <1>1, <1>2, <2>1, ConcatEqualIffEmpty, ConcatProperties DEF Appended, TypeOK
<1>4. last_waypoint' \in Seq(Waypoint) /\ last_waypoint' # <<>>
  BY <1>2, <1>3, LastRow
<1>5. /\ epoch \in Nat /\ current_time \in Nat /\ emitted_sample_count \in Nat
      /\ StartingLocalTime \in Nat
      /\ emitted_sample_count = 0 => StartingLocalTime = 0
      /\ emitted_sample_count > 0 => StartingLocalTime = (current_time - epoch) + Period
  BY <1>1 DEF TypeOK, Shape, StartingLocalTime
<1>6. /\ Grid(sampler', candidate)
      /\ sampler'.start = StartingLocalTime
      /\ sampler'.next = 0 /\ sampler'.count >= 2
      /\ SampleTime(sampler', candidate) = StartingLocalTime
  BY <1>2, <1>5, FreshGrid DEF Samplable, quantized_for_trajectory
<1>7. reply' \in [kind : Kinds, slack : Int, delta : Int]
  <2>1. find_branch_local_time(active, candidate) \in Nat
    BY <1>1, BranchKeepsPrefix
  <2>2. Duration(candidate) \in Nat /\ Duration(active) \in Nat
    BY <1>1, TrajectoryFacts
  <2> QED
    BY <1>2, <1>5, <2>1, <2>2 DEF BranchSlack, Kinds
<1>8. TypeOK'
  <2>1. sampler' \in [start : Nat, count : Nat, next : Nat]
    BY <1>6 DEF Grid
  <2>2. active' \in Trajectory /\ active' # NoTrajectory
    BY <1>2
  <2>3. /\ staging' = staging /\ call' = call /\ retired' = retired
        /\ past' = past /\ sampled' = sampled /\ epoch' = epoch
        /\ current_time' = current_time /\ emitted_sample_count' = emitted_sample_count
    BY <1>2
  <2>4. generation_count' \in Nat
    BY <1>1, <1>2 DEF TypeOK
  <2>5. TypeOK
    BY <1>1
  <2> QED
    BY <1>3, <1>4, <1>7, <2>1, <2>2, <2>3, <2>4, <2>5 DEF TypeOK
<1>9. Shape'
  BY <1>1, <1>2, <1>3, <1>5, <1>6 DEF Shape, Staged
<1>10. SamplerAhead'
  <2>1. Remaining(sampler') # 0
    BY <1>6 DEF Remaining, Grid
  <2>2. emitted_sample_count > 0 =>
          epoch + SampleTime(sampler', candidate) = current_time + Period
    BY <1>5, <1>6
  <2> QED
    BY <1>2, <1>5, <2>1, <2>2 DEF SamplerAhead
<1> QED
  BY <1>8, <1>9, <1>10 DEF SamplerInv

\* Emitting one sample of a grid of the trajectory that becomes, or stays, active.
LEMMA EmitFacts ==
  ASSUME NEW s, NEW tr \in Trajectory, NEW start \in Nat, NEW before,
         Grid(s, tr), s.next < s.count,
         TypeOK, call # Idle,
         before \subseteq [t : Nat, by : [t : Nat, m : Motion]],
         Emit(s, tr, start, before)
  PROVE  /\ Grid(sampler', tr)
         /\ current_time' = start + SampleTime(s, tr)
         /\ current_time' \in Nat /\ start <= current_time'
         /\ emitted_sample_count' = emitted_sample_count + 1
         /\ sampler'.next # 0
         /\ call' \in Calls
         /\ sampled' \subseteq [t : Nat, by : [t : Nat, m : Motion]]
         /\ UNCHANGED <<last_waypoint, reply, accepted>>
         /\ IF Remaining(sampler') = 0
              THEN current_time' = start + Duration(tr)
              ELSE start + SampleTime(sampler', tr)
                     \in (current_time' + 1)..(current_time' + Period)
<1> USE ConstantFacts
<1> DEFINE t == SampleTime(s, tr)
           n == [s EXCEPT !.next = @ + 1]
<1>1. /\ t \in Nat /\ Grid(n, tr)
      /\ IF n.next = n.count THEN t = Duration(tr)
         ELSE SampleTime(n, tr) \in (t + 1)..(t + Period)
  BY GridSample
<1>2. /\ sampler' = n
      /\ current_time' = start + t
      /\ emitted_sample_count' = emitted_sample_count + 1
      /\ call' = Continued(start + t)
      /\ sampled' = before \cup {[t |-> t, by |-> Governing(tr, t)]}
      /\ UNCHANGED <<last_waypoint, reply, accepted>>
  BY DEF Emit
<1>3. n.next # 0 /\ n.next \in Nat /\ n.count \in Nat
  BY DEF Grid
<1>4. sampled' \subseteq [t : Nat, by : [t : Nat, m : Motion]]
  <2>1. Governing(tr, t) \in [t : Nat, m : Motion]
    <3>1. PICK i \in 1..Len(tr) : Governing(tr, t) = tr[i]
      BY <1>1, GoverningPoint
    <3>2. \A j \in 1..Len(tr) : tr[j] \in [t : Nat, m : Motion]
      BY TrajectoryFacts
    <3> HIDE DEF t, n
    <3> QED
      BY <3>1, <3>2
  <2> HIDE DEF t
  <2>2. [t |-> t, by |-> Governing(tr, t)] \in [t : Nat, by : [t : Nat, m : Motion]]
    BY <1>1, <2>1
  <2> QED
    BY <1>2, <2>2
<1>5. call' \in Calls
  <2>1. call \in Calls
    BY DEF TypeOK
  <2>2. CASE call \in [op : {"next"}, n : Nat \ {0}]
    BY <1>2, <2>2 DEF Continued, Calls
  <2>3. CASE call \in [op : {"at_least"}, n : Nat]
    BY <1>2, <2>3 DEF Continued, Calls
  <2> QED
    BY <2>1, <2>2, <2>3 DEF Calls
<1> HIDE DEF t, n
<1>6. IF Remaining(sampler') = 0
        THEN current_time' = start + Duration(tr)
        ELSE start + SampleTime(sampler', tr)
               \in (current_time' + 1)..(current_time' + Period)
  BY <1>1, <1>2, <1>3 DEF Remaining
<1>7. start + t \in Nat /\ start <= start + t /\ Grid(sampler', tr) /\ sampler'.next # 0
  BY <1>1, <1>2, <1>3
<1>8. t = SampleTime(s, tr)
  BY DEF t
<1> QED
  BY <1>2, <1>4, <1>5, <1>6, <1>7, <1>8

\* A sample of the active trajectory, at most a period after the one before it.
LEMMA SampleActiveStep ==
  ASSUME SamplerInv, SampleActive
  PROVE  /\ SamplerInv'
         /\ IF emitted_sample_count = 0
              THEN current_time' = 0
              ELSE current_time' \in (current_time + 1)..(current_time + Period)
<1> USE ConstantFacts
<1>0. TypeOK /\ Shape /\ SamplerAhead
  BY DEF SamplerInv
<1>a. /\ sampler \in [start : Nat, count : Nat, next : Nat]
      /\ epoch \in Nat /\ current_time \in Nat /\ emitted_sample_count \in Nat
      /\ sampled \subseteq [t : Nat, by : [t : Nat, m : Motion]]
  BY <1>0 DEF TypeOK
<1>b. /\ call # Idle /\ Remaining(sampler) > (IF Staged THEN 1 ELSE 0)
      /\ Emit(sampler, active, epoch, sampled)
      /\ UNCHANGED <<waypoints, active, epoch, staging, generation_count, retired, past>>
  BY DEF SampleActive
<1>2. sampler.next < sampler.count /\ Remaining(sampler) > 0
  BY <1>a, <1>b DEF Remaining
<1>1. /\ TypeOK /\ Shape /\ SamplerAhead
      /\ call # Idle /\ sampler \in [start : Nat, count : Nat, next : Nat]
      /\ Remaining(sampler) > 0
      /\ Emit(sampler, active, epoch, sampled)
      /\ epoch \in Nat /\ current_time \in Nat /\ emitted_sample_count \in Nat
      /\ sampled \subseteq [t : Nat, by : [t : Nat, m : Motion]]
      /\ UNCHANGED <<waypoints, active, epoch, staging, generation_count, retired, past>>
  BY <1>0, <1>a, <1>b, <1>2
<1>3. active \in Trajectory /\ Grid(sampler, active)
  BY <1>1, <1>2 DEF TypeOK, Shape
<1>4. /\ Grid(sampler', active)
      /\ current_time' = epoch + SampleTime(sampler, active)
      /\ current_time' \in Nat /\ epoch <= current_time'
      /\ emitted_sample_count' = emitted_sample_count + 1
      /\ sampler'.next # 0
      /\ call' \in Calls
      /\ sampled' \subseteq [t : Nat, by : [t : Nat, m : Motion]]
      /\ UNCHANGED <<last_waypoint, reply, accepted>>
      /\ IF Remaining(sampler') = 0
           THEN current_time' = epoch + Duration(active)
           ELSE epoch + SampleTime(sampler', active)
                  \in (current_time' + 1)..(current_time' + Period)
  BY <1>1, <1>2, <1>3, EmitFacts
<1>5. sampler' \in [start : Nat, count : Nat, next : Nat]
  BY <1>4 DEF Grid
<1>6. TypeOK'
  BY <1>1, <1>3, <1>4, <1>5 DEF TypeOK
<1>7. Shape'
  BY <1>1, <1>3, <1>4 DEF Shape, Staged
<1>8. SamplerAhead'
  BY <1>1, <1>4 DEF SamplerAhead
<1>9. CASE emitted_sample_count = 0
  <2>1. sampler.count >= 2 /\ sampler.start = 0 /\ sampler.next = 0 /\ epoch = 0
    BY <1>1, <1>3, <1>9 DEF Shape
  <2>2. sampler.start < Duration(active)
    BY <1>3, <2>1 DEF Grid
  <2>3. sampler = quantized_for_trajectory(active, 0)
    BY <1>1, <1>3, <2>1 DEF Grid, quantized_for_trajectory
  <2>4. SampleTime(sampler, active) = 0
    BY <1>3, <2>1, <2>2, <2>3, FreshGrid
  <2> QED
    BY <1>4, <1>6, <1>7, <1>8, <1>9, <2>1, <2>4 DEF SamplerInv
<1>10. CASE emitted_sample_count # 0
  <2>1. epoch + SampleTime(sampler, active) \in (current_time + 1)..(current_time + Period)
    BY <1>1, <1>2, <1>10 DEF SamplerAhead
  <2> QED
    BY <1>4, <1>6, <1>7, <1>8, <1>10, <2>1 DEF SamplerInv
<1> QED
  BY <1>9, <1>10

\* A rebase makes the staged trajectory active and samples it at start, or at its
\* end if it is shorter.
LEMMA InstallStep ==
  ASSUME SamplerInv, NEW start \in Nat, call # Idle, Staged, InstallStaged(start)
  PROVE  /\ SamplerInv'
         /\ current_time' = epoch + Duration(active)
                              + (IF start < Duration(staging.next)
                                   THEN start ELSE Duration(staging.next))
<1> USE ConstantFacts
<1> DEFINE tr == staging.next
           s == IF start < Duration(tr) THEN quantized_for_trajectory(tr, start)
                                        ELSE TerminalOnly
<1>1. /\ TypeOK /\ Shape /\ tr \in Trajectory
      /\ active # NoTrajectory /\ active \in Trajectory
      /\ epoch \in Nat /\ emitted_sample_count \in Nat /\ generation_count \in Nat
      /\ waypoints \in Seq(Waypoint) /\ waypoints # <<>>
      /\ staging.waypoints \in Seq(Waypoint) /\ staging.waypoints # <<>>
      /\ retired \in Seq(Waypoint) /\ past \in Seq([at : Nat, motion : Trajectory])
  BY DEF SamplerInv, TypeOK, Shape, Staged, NotStaging
<1>2. Duration(active) \in Nat /\ Duration(tr) \in Nat \ {0}
  BY <1>1, TrajectoryFacts
<1>3. /\ active' = tr
      /\ waypoints' = staging.waypoints
      /\ epoch' = epoch + Duration(active)
      /\ staging' = NotStaging
      /\ generation_count' = generation_count + 1
      /\ retired' = retired \o Front(waypoints)
      /\ past' = Append(past, [at |-> epoch, motion |-> active])
      /\ Emit(s, tr, epoch', {})
  BY DEF InstallStaged
<1>4. /\ Grid(s, tr) /\ s.next < s.count
      /\ SampleTime(s, tr) = IF start < Duration(tr) THEN start ELSE Duration(tr)
  <2>1. CASE start < Duration(tr)
    <3>1. /\ Grid(s, tr) /\ s.next = 0 /\ s.count >= 2
          /\ SampleTime(s, tr) = start
      BY <1>1, <2>1, FreshGrid
    <3> QED
      BY <2>1, <3>1 DEF Grid
  <2>2. CASE ~(start < Duration(tr))
    <3>1. s = TerminalOnly
      BY <2>2
    <3> QED
      BY <1>1, <2>2, <3>1, TerminalGrid
  <2> QED
    BY <2>1, <2>2
<1> HIDE DEF s
<1>5. epoch' \in Nat
  BY <1>1, <1>2, <1>3
<1>6. /\ Grid(sampler', tr)
      /\ current_time' = epoch' + SampleTime(s, tr)
      /\ current_time' \in Nat /\ epoch' <= current_time'
      /\ emitted_sample_count' = emitted_sample_count + 1
      /\ sampler'.next # 0
      /\ call' \in Calls
      /\ sampled' \subseteq [t : Nat, by : [t : Nat, m : Motion]]
      /\ UNCHANGED <<last_waypoint, reply, accepted>>
      /\ IF Remaining(sampler') = 0
           THEN current_time' = epoch' + Duration(tr)
           ELSE epoch' + SampleTime(sampler', tr)
                  \in (current_time' + 1)..(current_time' + Period)
  BY <1>1, <1>3, <1>4, <1>5, EmitFacts
<1>7. sampler' \in [start : Nat, count : Nat, next : Nat]
  BY <1>6 DEF Grid
<1>8. retired' \in Seq(Waypoint)
  <2>1. Front(waypoints) \in Seq(Waypoint)
    <3>1. Len(waypoints) \in Nat /\ \A i \in 1..Len(waypoints) : waypoints[i] \in Waypoint
      BY <1>1, LenProperties, ElementOfSeq
    <3>2. \A i \in 1..Len(waypoints) - 1 : waypoints[i] \in Waypoint
      BY <3>1
    <3> QED
      BY <3>1, <3>2, SubSeqProperties DEF Front
  <2> QED
    BY <1>1, <1>3, <2>1, ConcatProperties
<1>9. past' \in Seq([at : Nat, motion : Trajectory])
  BY <1>1, <1>3, AppendProperties
<1>10. staging' \in [on : BOOLEAN, waypoints : Seq(Waypoint),
                     next : Trajectory \cup {NoTrajectory}]
  BY <1>3 DEF NotStaging
<1>11. TypeOK'
  <2>1. active' # NoTrajectory /\ active' \in Trajectory /\ last_waypoint' # <<>>
    BY <1>1, <1>3, <1>6 DEF TypeOK
  <2>2. generation_count' \in Nat /\ emitted_sample_count' \in Nat
    BY <1>1, <1>3, <1>6
  <2> HIDE DEF tr
  <2>3. /\ last_waypoint' \in Seq(Waypoint) /\ accepted' \in Seq(Waypoint)
        /\ reply' \in [kind : Kinds, slack : Int, delta : Int]
        /\ waypoints' \in Seq(Waypoint)
    BY <1>1, <1>3, <1>6 DEF TypeOK
  <2> QED
    BY <1>5, <1>6, <1>7, <1>8, <1>9, <1>10, <2>1, <2>2, <2>3 DEF TypeOK
<1>12. Shape'
  BY <1>1, <1>3, <1>6 DEF Shape, Staged, NotStaging
<1>13. SamplerAhead'
  BY <1>3, <1>6 DEF SamplerAhead
<1> QED
  BY <1>3, <1>4, <1>6, <1>11, <1>12, <1>13 DEF SamplerInv, tr

\* A rebase in place of the terminal samples the instant the terminal would have;
\* one after it goes on a period later, or at the end of a shorter trajectory.
LEMMA RebaseStep ==
  ASSUME SamplerInv, RebaseBeforeTerminal \/ RebaseAfterTerminal
  PROVE  /\ SamplerInv'
         /\ emitted_sample_count > 0
         /\ epoch + Duration(active) <= current_time'
         /\ current_time' \in (current_time + 1)..(current_time + Period)
<1> USE ConstantFacts
<1>1. /\ TypeOK /\ Shape /\ SamplerAhead /\ call # Idle /\ Staged
      /\ Remaining(sampler) = 0 \/ Remaining(sampler) = 1
  BY DEF SamplerInv, RebaseBeforeTerminal, RebaseAfterTerminal
<1>2. /\ active \in Trajectory /\ staging.next \in Trajectory
      /\ Grid(sampler, active)
      /\ epoch \in Nat /\ current_time \in Nat /\ emitted_sample_count \in Nat
  BY <1>1 DEF TypeOK, Shape, Staged, NotStaging
<1>3. Duration(active) \in Nat \ {0} /\ Duration(staging.next) \in Nat \ {0}
  BY <1>2, TrajectoryFacts
<1>4. emitted_sample_count > 0
  <2>1. SUFFICES ASSUME emitted_sample_count = 0 PROVE FALSE
    BY <1>2
  <2>2. sampler.count >= 2 /\ sampler.next = 0
    BY <1>1, <1>2, <2>1 DEF Shape, TypeOK
  <2>3. Remaining(sampler) >= 2
    BY <1>2, <2>2 DEF Remaining, Grid
  <2> QED
    BY <1>1, <2>3
<1>5. CASE RebaseBeforeTerminal
  <2>1. Remaining(sampler) = 1 /\ InstallStaged(0)
    BY <1>5 DEF RebaseBeforeTerminal
  <2>2. SampleTime(sampler, active) = Duration(active)
    <3>1. sampler.next = sampler.count - 1
      BY <1>2, <2>1 DEF Remaining, Grid
    <3> QED
      BY <3>1 DEF SampleTime
  <2>3. epoch + Duration(active) \in (current_time + 1)..(current_time + Period)
    BY <1>1, <1>4, <2>1, <2>2 DEF SamplerAhead
  <2>4. SamplerInv' /\ current_time' = epoch + Duration(active) + 0
    BY <1>1, <1>3, <2>1, InstallStep
  <2> QED
    BY <1>2, <1>3, <1>4, <2>3, <2>4
<1>6. CASE RebaseAfterTerminal
  <2>1. Remaining(sampler) = 0 /\ InstallStaged(Period)
    BY <1>6 DEF RebaseAfterTerminal
  <2>2. current_time = epoch + Duration(active)
    BY <1>1, <1>4, <2>1 DEF SamplerAhead
  <2>3. /\ SamplerInv'
        /\ current_time' = epoch + Duration(active)
                             + (IF Period < Duration(staging.next)
                                  THEN Period ELSE Duration(staging.next))
    BY <1>1, <2>1, InstallStep
  <2> QED
    BY <1>2, <1>3, <1>4, <2>2, <2>3
<1> QED
  BY <1>5, <1>6

\* A batch that joins the staged motion.
LEMMA StagingSteps ==
  ASSUME SamplerInv, NEW batch \in Batch,
         StageAgain(batch) \/ \E c \in Trajectory : StageFirst(batch, c)
  PROVE  /\ SamplerInv'
         /\ UNCHANGED <<waypoints, active, sampler, epoch, current_time,
                        emitted_sample_count, sampled>>
<1> USE ConstantFacts
<1>1. /\ TypeOK /\ Shape /\ batch \in Seq(Waypoint)
  BY DEF SamplerInv
<1>2. /\ staging \in [on : BOOLEAN, waypoints : Seq(Waypoint),
                      next : Trajectory \cup {NoTrajectory}]
      /\ waypoints \in Seq(Waypoint)
      /\ current_time \in Nat /\ epoch \in Nat
      /\ active # NoTrajectory => active \in Trajectory
  BY <1>1 DEF TypeOK, Shape
<1>3. ASSUME NEW tr \in Trajectory
      PROVE  Duration(tr) \in Int
  BY <1>3, TrajectoryFacts
<1>4. Duration(NoTrajectory) \in Int
  BY DEF Duration
<1>5. CASE StageAgain(batch)
  <2>1. /\ active # NoTrajectory /\ batch # <<>> /\ staging.on
    BY <1>5 DEF StageAgain, SeamedBatch
  <2>2. PICK tr \in Trajectory :
          /\ Stage(batch, tr)
          /\ reply' = [kind |-> "staged_again", slack |-> 0,
                       delta |-> Duration(tr) - Duration(staging.next)]
    BY <1>5 DEF StageAgain, Builds
  <2>3. waypoints' = waypoints
    BY <1>5 DEF StageAgain
  <2>4. reply' \in [kind : Kinds, slack : Int, delta : Int]
    BY <1>2, <1>3, <1>4, <2>2 DEF Kinds
  <2>5. SamplerInv'
    BY <2>1, <2>2, <2>3, <2>4, StageStep
  <2> QED
    BY <2>2, <2>3, <2>5 DEF Stage
<1>6. CASE \E c \in Trajectory : StageFirst(batch, c)
  <2>1. PICK c \in Trajectory : StageFirst(batch, c)
    BY <1>6
  <2>2. /\ active # NoTrajectory /\ batch # <<>> /\ active \in Trajectory
    BY <1>2, <2>1 DEF StageFirst, Candidate, SeamedBatch
  <2>3. PICK tr \in Trajectory :
          /\ Stage(batch, tr)
          /\ reply' = [kind |-> IF BranchAhead(c)
                                  THEN "staged_unsamplable"
                                  ELSE "staged_branch_sampled",
                       slack |-> BranchSlack(c),
                       delta |-> Duration(tr)]
    BY <2>1 DEF StageFirst, Builds
  <2>4. waypoints' = waypoints
    <3>1. waypoints' = Truncated(Appended(waypoints, batch), Len(waypoints))
      BY <2>1 DEF StageFirst
    <3>2. Truncated(Appended(waypoints, batch), Len(waypoints)) = waypoints
      BY <1>1, <1>2, <2>2, AppendThenTruncate
    <3> QED
      BY <3>1, <3>2
  <2>5. BranchSlack(c) \in Int
    <3>1. find_branch_local_time(active, c) \in Nat
      BY <2>2, BranchKeepsPrefix
    <3> QED
      BY <1>2, <3>1 DEF BranchSlack
  <2>6. reply' \in [kind : Kinds, slack : Int, delta : Int]
    <3>1. Duration(tr) \in Int
      BY <1>3
    <3>2. (IF BranchAhead(c) THEN "staged_unsamplable" ELSE "staged_branch_sampled")
             \in Kinds
      BY DEF Kinds
    <3> QED
      BY <2>3, <2>5, <3>1, <3>2
  <2>7. SamplerInv'
    BY <2>2, <2>3, <2>4, <2>6, StageStep
  <2> QED
    BY <2>3, <2>4, <2>7 DEF Stage
<1> QED
  BY <1>5, <1>6

\* The initial state.
LEMMA SamplerInvInit == Init => SamplerInv
<1> SUFFICES ASSUME Init PROVE SamplerInv
  OBVIOUS
<1> USE ConstantFacts
<1>1. TypeOK
  <2>1. <<>> \in Seq(Waypoint) /\ <<>> \in Seq([at : Nat, motion : Trajectory])
    BY EmptySeq
  <2>2. NotStaging \in [on : BOOLEAN, waypoints : Seq(Waypoint),
                        next : Trajectory \cup {NoTrajectory}]
    BY <2>1 DEF NotStaging
  <2> QED
    BY <2>1, <2>2, PlainReplies DEF Init, TypeOK, Calls
<1>2. Shape
  BY DEF Init, Shape, Staged, NotStaging
<1> QED
  BY <1>1, <1>2 DEF SamplerInv, SamplerAhead, Init

\* Every step keeps the sampler's invariant.
LEMMA SamplerInvNext == SamplerInv /\ [Next]_vars => SamplerInv'
<1> SUFFICES ASSUME SamplerInv, [Next]_vars PROVE SamplerInv'
  OBVIOUS
<1>1. ASSUME NEW batch \in Batch, Extend(batch) PROVE SamplerInv'
  <2>1. CASE ExtendRefused(batch) \/ FirstBuildFails(batch) \/ FirstSamplerThrows(batch)
             \/ ExtendNoop(batch) \/ StageAgainFails(batch) \/ CandidateFails(batch)
             \/ AppendFails(batch)
    BY <1>1, <2>1, QuietExtends
  <2>2. CASE FirstBuild(batch)
    BY <1>1, <2>2, FirstBuildStep
  <2>3. CASE StageAgain(batch)
    BY <1>1, <2>3, StagingSteps
  <2>4. ASSUME NEW c \in Trajectory, Pivot(batch, c) PROVE SamplerInv'
    BY <1>1, <2>4, PivotStep
  <2>5. ASSUME NEW c \in Trajectory,
               PivotSamplerThrows(batch, c) \/ StageFirstFails(batch, c)
        PROVE  SamplerInv'
    BY <1>1, <2>5, QuietExtends
  <2>6. ASSUME NEW c \in Trajectory, StageFirst(batch, c) PROVE SamplerInv'
    BY <1>1, <2>6, StagingSteps
  <2> QED
    BY <1>1, <2>1, <2>2, <2>3, <2>4, <2>5, <2>6 DEF Extend
<1>2. CASE start_staging \/ Sampling \/ Drained \/ InstallThrows
  BY <1>2, QuietCalls DEF Sampling
<1>3. CASE SampleActive
  BY <1>3, SampleActiveStep
<1>4. CASE RebaseBeforeTerminal \/ RebaseAfterTerminal
  BY <1>4, RebaseStep
<1>5. CASE UNCHANGED vars
  <2>1. TypeOK'
    BY <1>5 DEF SamplerInv, TypeOK, vars, control, history
  <2>2. Shape' /\ SamplerAhead'
    BY <1>5 DEF SamplerInv, Shape, SamplerAhead, Staged, Remaining, vars, control, history
  <2> QED
    BY <2>1, <2>2 DEF SamplerInv
<1> QED
  BY <1>1, <1>2, <1>3, <1>4, <1>5 DEF Next, SampleOne

LEMMA SamplerInvariant == Spec => []SamplerInv
BY SamplerInvInit, SamplerInvNext, PTL DEF Spec

\* The variables keep their types (TypeOK of Session), so every sample time is a
\* natural and every row store, plan and reply is well formed.
THEOREM TypeCorrect == Spec => []TypeOK
<1>1. SamplerInv => TypeOK
  BY DEF SamplerInv
<1> QED
  BY <1>1, SamplerInvariant, PTL

\* The sampler is never out of step with the stream, whatever extend, pivots and
\* rebases did to it: its next sample comes within a period of the latest, and
\* when it is exhausted the end of the active trajectory has been sampled.
THEOREM SamplerCorrect == Spec => []SamplerAhead
<1>1. SamplerInv => SamplerAhead
  BY DEF SamplerInv
<1> QED
  BY <1>1, SamplerInvariant, PTL

-----------------------------------------------------------------------------
(* The pace of the samples. *)

\* Nothing but a sample counts one.
LEMMA OthersEmitNothing ==
  ASSUME [Next]_vars, ~SampleActive, ~RebaseBeforeTerminal, ~RebaseAfterTerminal
  PROVE  UNCHANGED <<current_time, emitted_sample_count>>
<1>1. ASSUME NEW batch \in Batch, Extend(batch)
      PROVE  UNCHANGED <<current_time, emitted_sample_count>>
  <2>1. CASE \/ ExtendRefused(batch) \/ FirstBuild(batch) \/ FirstBuildFails(batch)
             \/ FirstSamplerThrows(batch) \/ ExtendNoop(batch)
    BY <2>1 DEF ExtendRefused, FirstBuild, FirstBuildFails, FirstSamplerThrows,
                ExtendNoop, Throw, control
  <2>2. CASE StageAgain(batch) \/ StageAgainFails(batch) \/ CandidateFails(batch) \/ AppendFails(batch)
    BY <2>2 DEF StageAgain, StageAgainFails, CandidateFails, AppendFails, Stage, StageFails, Throw,
                control
  <2>3. CASE \E c \in Trajectory : \/ Pivot(batch, c) \/ PivotSamplerThrows(batch, c)
                                   \/ StageFirst(batch, c) \/ StageFirstFails(batch, c)
    BY <2>3 DEF Pivot, PivotSamplerThrows, StageFirst, StageFirstFails, Stage, Throw, control
  <2> QED
    BY <1>1, <2>1, <2>2, <2>3 DEF Extend
<1>2. CASE start_staging \/ Sampling \/ Drained \/ InstallThrows \/ UNCHANGED vars
  BY <1>2 DEF start_staging, Sampling, sample_next, sample_at_least, Drained, InstallThrows,
              vars, control
<1> QED
  BY <1>1, <1>2 DEF Next, SampleOne

\* Sample times increase, by at most a period, from a first sample at the origin,
\* across every pivot and rebase (sample_one_): the stream has no gap, no repeated
\* instant and never runs backwards.
THEOREM Pacing == Spec => EmissionPaced
<1>1. SamplerInv /\ [Next]_vars =>
        [emitted_sample_count' # emitted_sample_count =>
           IF emitted_sample_count = 0
             THEN current_time' = 0
             ELSE current_time' \in (current_time + 1)..(current_time + Period)]_vars
  <2> SUFFICES ASSUME SamplerInv, [Next]_vars,
                      emitted_sample_count' # emitted_sample_count
               PROVE  IF emitted_sample_count = 0
                        THEN current_time' = 0
                        ELSE current_time' \in (current_time + 1)..(current_time + Period)
    OBVIOUS
  <2>1. CASE SampleActive
    BY <2>1, SampleActiveStep
  <2>2. CASE RebaseBeforeTerminal \/ RebaseAfterTerminal
    <3>1. emitted_sample_count \in Nat
      BY DEF SamplerInv, TypeOK
    <3> QED
      BY <2>2, <3>1, RebaseStep
  <2> QED
    BY <2>1, <2>2, OthersEmitNothing
<1> QED
  BY <1>1, SamplerInvariant, PTL DEF Spec, EmissionPaced

-----------------------------------------------------------------------------
(* The plan keeps what samples were computed from.                         *)
(* A pivot compares integration points, and the branch it finds lies after *)
(* the latest sample; so the points to keep must all start by then.        *)

EmittedInv ==
  /\ EmittedStillPlanned
  /\ \A e \in sampled : epoch + e.by.t <= current_time
  /\ emitted_sample_count = 0 => sampled = {}

\* A pivot after the first sample keeps every point that starts by that sample.
LEMMA PivotKeepsEmitted ==
  ASSUME SamplerInv, EmittedInv, NEW batch \in Batch, NEW candidate \in Trajectory,
         Pivot(batch, candidate)
  PROVE  EmittedInv'
<1>1. /\ active \in Trajectory /\ epoch \in Nat /\ current_time \in Nat
      /\ emitted_sample_count \in Nat
      /\ sampled \subseteq [t : Nat, by : [t : Nat, m : Motion]]
  BY ConstantFacts DEF SamplerInv, TypeOK, Pivot, Candidate, SeamedBatch
<1>2. /\ BranchAhead(candidate)
      /\ active' = candidate
      /\ UNCHANGED <<epoch, current_time, emitted_sample_count, sampled>>
  BY DEF Pivot
<1>3. EmittedStillPlanned'
  <2> SUFFICES ASSUME NEW e \in sampled
               PROVE  \E i \in 1..Len(candidate) : candidate[i] = e.by
    BY <1>2 DEF EmittedStillPlanned
  <2>1. emitted_sample_count # 0 /\ epoch + e.by.t <= current_time
    BY DEF EmittedInv
  <2>2. PICK i \in 1..Len(active) : active[i] = e.by
    BY DEF EmittedInv, EmittedStillPlanned
  <2>3. find_branch_local_time(active, candidate) \in Nat
    BY <1>1, BranchKeepsPrefix
  <2>4. epoch + find_branch_local_time(active, candidate) - current_time > 0
    BY <1>2, <2>1 DEF BranchAhead, BranchSlack
  <2>5. e.by.t \in Nat
    BY <1>1
  <2>6. active[i].t < find_branch_local_time(active, candidate)
    BY <1>1, <2>1, <2>2, <2>3, <2>4, <2>5
  <2>7. i <= Len(candidate) /\ candidate[i] = active[i]
    BY <1>1, <2>2, <2>6, BranchKeepsPrefix
  <2>8. i \in 1..Len(candidate)
    BY <2>7, TrajectoryFacts
  <2> QED
    BY <2>2, <2>7, <2>8
<1> QED
  BY <1>2, <1>3 DEF EmittedInv

\* A sample of tr, started at start, after the samples in before.
LEMMA EmitKeepsEmitted ==
  ASSUME NEW s, NEW tr \in Trajectory, NEW start \in Nat, NEW before,
         Grid(s, tr), s.next < s.count,
         emitted_sample_count \in Nat,
         Emit(s, tr, start, before),
         active' = tr, epoch' = start,
         \A e \in before : \E i \in 1..Len(tr) : tr[i] = e.by,
         \A e \in before : start + e.by.t <= current_time'
  PROVE  EmittedInv'
<1>1. SampleTime(s, tr) \in Nat
  BY GridSample
<1>2. PICK i \in 1..Len(tr) : /\ Governing(tr, SampleTime(s, tr)) = tr[i]
                              /\ tr[i].t <= SampleTime(s, tr)
  BY <1>1, GoverningPoint
<1> DEFINE e0 == [t |-> SampleTime(s, tr), by |-> tr[i]]
<1>3. /\ sampled' = before \cup {e0}
      /\ current_time' = start + SampleTime(s, tr)
      /\ emitted_sample_count' = emitted_sample_count + 1
  BY <1>2 DEF Emit
<1>4. tr[i].t \in Nat
  BY TrajectoryFacts
<1>5. e0.by = tr[i] /\ start + e0.by.t <= current_time'
  BY <1>1, <1>2, <1>3, <1>4
<1> HIDE DEF e0
<1>6. \A e \in sampled' : \E j \in 1..Len(tr) : tr[j] = e.by
  BY <1>3, <1>5
<1>7. \A e \in sampled' : start + e.by.t <= current_time'
  BY <1>3, <1>5
<1> QED
  BY <1>3, <1>6, <1>7 DEF EmittedInv, EmittedStillPlanned

\* Every step keeps the plan's side of what was sampled.
LEMMA EmittedInvNext == SamplerInv /\ EmittedInv /\ [Next]_vars => EmittedInv'
<1> SUFFICES ASSUME SamplerInv, EmittedInv, [Next]_vars PROVE EmittedInv'
  OBVIOUS
<1>1. ASSUME UNCHANGED <<active, epoch, current_time, emitted_sample_count, sampled>>
      PROVE  EmittedInv'
  BY <1>1 DEF EmittedInv, EmittedStillPlanned
<1>2. /\ epoch \in Nat /\ current_time \in Nat /\ emitted_sample_count \in Nat
      /\ sampled \subseteq [t : Nat, by : [t : Nat, m : Motion]]
  BY DEF SamplerInv, TypeOK
<1>3. ASSUME NEW batch \in Batch, Extend(batch) PROVE EmittedInv'
  <2>1. CASE ExtendRefused(batch) \/ FirstBuildFails(batch) \/ FirstSamplerThrows(batch)
             \/ ExtendNoop(batch) \/ StageAgainFails(batch) \/ CandidateFails(batch)
             \/ AppendFails(batch)
    BY <1>1, <2>1 DEF ExtendRefused, FirstBuildFails, FirstSamplerThrows, ExtendNoop, AppendFails,
                      StageAgainFails, StageFails, CandidateFails, Throw, control, history
  <2>2. CASE FirstBuild(batch)
    <3>1. emitted_sample_count = 0
      BY <1>2, <2>2 DEF SamplerInv, Shape, FirstBuild, FirstBatch
    <3> QED
      BY <2>2, <3>1 DEF FirstBuild, EmittedInv, EmittedStillPlanned
  <2>3. CASE StageAgain(batch)
    BY <1>1, <2>3, StagingSteps
  <2>4. ASSUME NEW c \in Trajectory, Pivot(batch, c) PROVE EmittedInv'
    BY <2>4, PivotKeepsEmitted
  <2>5. ASSUME NEW c \in Trajectory,
               PivotSamplerThrows(batch, c) \/ StageFirstFails(batch, c)
        PROVE  EmittedInv'
    BY <1>1, <2>5 DEF PivotSamplerThrows, StageFirstFails, Throw, control, history
  <2>6. ASSUME NEW c \in Trajectory, StageFirst(batch, c) PROVE EmittedInv'
    BY <1>1, <2>6, StagingSteps
  <2> QED
    BY <1>3, <2>1, <2>2, <2>3, <2>4, <2>5, <2>6 DEF Extend
<1>4. CASE start_staging \/ Sampling \/ Drained \/ InstallThrows \/ UNCHANGED vars
  BY <1>1, <1>4 DEF start_staging, Sampling, sample_next, sample_at_least, Drained,
                    InstallThrows, vars, control, history
<1>5. CASE SampleActive
  <2>1. /\ active \in Trajectory /\ Grid(sampler, active) /\ sampler.next < sampler.count
    <3>1. active # NoTrajectory /\ sampler.next < sampler.count
      BY <1>5 DEF SamplerInv, TypeOK, SampleActive, Remaining
    <3> QED
      BY <3>1 DEF SamplerInv, TypeOK, Shape
  <2>2. \A e \in sampled : epoch + e.by.t <= current_time'
    <3>1. emitted_sample_count # 0 => current_time <= current_time'
      BY <1>2, <1>5, SampleActiveStep, ConstantFacts
    <3>2. current_time' \in Nat
      BY <1>5, SampleActiveStep DEF SamplerInv, TypeOK
    <3> QED
      BY <1>2, <3>1, <3>2 DEF EmittedInv
  <2>3. /\ Emit(sampler, active, epoch, sampled)
        /\ active' = active /\ epoch' = epoch
        /\ \A e \in sampled : \E i \in 1..Len(active) : active[i] = e.by
    BY <1>5 DEF SampleActive, EmittedInv, EmittedStillPlanned
  <2> QED
    BY <1>2, <2>1, <2>2, <2>3, EmitKeepsEmitted
<1>6. CASE RebaseBeforeTerminal \/ RebaseAfterTerminal
  <2>1. PICK start \in Nat : Staged /\ InstallStaged(start)
    BY <1>6, ConstantFacts DEF RebaseBeforeTerminal, RebaseAfterTerminal
  <2> DEFINE tr == staging.next
             s == IF start < Duration(tr) THEN quantized_for_trajectory(tr, start)
                                          ELSE TerminalOnly
  <2>2. tr \in Trajectory /\ epoch' \in Nat
    <3>1. tr \in Trajectory
      BY <2>1 DEF SamplerInv, TypeOK, Staged
    <3>2. SamplerInv'
      BY <1>6, RebaseStep
    <3> QED
      BY <3>1, <3>2 DEF SamplerInv, TypeOK
  <2>3. Grid(s, tr) /\ s.next < s.count
    <3>1. CASE start < Duration(tr)
      <4>1. Grid(s, tr) /\ s.next = 0 /\ s.count >= 2
        BY <2>1, <2>2, <3>1, FreshGrid
      <4> QED
        BY <4>1 DEF Grid
    <3>2. CASE ~(start < Duration(tr))
      <4>1. s = TerminalOnly
        BY <3>2
      <4> QED
        BY <2>2, <4>1, TerminalGrid
    <3> QED
      BY <3>1, <3>2
  <2>4. Emit(s, tr, epoch', {}) /\ active' = tr
    BY <2>1 DEF InstallStaged
  <2> HIDE DEF s, tr
  <2> QED
    BY <1>2, <2>2, <2>3, <2>4, EmitKeepsEmitted
<1> QED
  BY <1>3, <1>4, <1>5, <1>6 DEF Next, SampleOne

\* However often extend pivots, every integration point that a sample of the
\* active trajectory was computed from is still in the plan (the branch_ahead test
\* of extend, over find_branch_local_time): the motion already commanded is never
\* rewritten before its latest sample's step.
THEOREM EmittedKept == Spec => []EmittedStillPlanned
<1>1. Init => EmittedInv
  BY DEF Init, EmittedInv, EmittedStillPlanned
<1>2. EmittedInv => EmittedStillPlanned
  BY DEF EmittedInv
<1> QED
  BY <1>1, <1>2, EmittedInvNext, SamplerInvariant, PTL DEF Spec

-----------------------------------------------------------------------------
(* Extends that throw. *)

\* A sampling call begins by forgetting what the latest extend returned.
SamplingForgets == call # Idle => reply = NoReply

\* extend is called between sampling calls, and begins none.
LEMMA ExtendReturns ==
  ASSUME NEW batch \in Batch, Extend(batch)
  PROVE  call = Idle /\ call' = Idle
<1>1. CASE \/ ExtendRefused(batch) \/ FirstBuild(batch) \/ FirstBuildFails(batch)
           \/ FirstSamplerThrows(batch) \/ ExtendNoop(batch) \/ AppendFails(batch)
  BY <1>1 DEF ExtendRefused, FirstBuild, FirstBuildFails, FirstSamplerThrows, ExtendNoop,
              AppendFails, FirstBatch, SeamedBatch, Throw
<1>2. CASE StageAgain(batch) \/ StageAgainFails(batch) \/ CandidateFails(batch)
  BY <1>2 DEF StageAgain, StageAgainFails, CandidateFails, Candidate, SeamedBatch, Stage,
              StageFails, Throw
<1>3. CASE \E c \in Trajectory : \/ Pivot(batch, c) \/ PivotSamplerThrows(batch, c)
                                 \/ StageFirst(batch, c) \/ StageFirstFails(batch, c)
  BY <1>3 DEF Pivot, PivotSamplerThrows, StageFirst, StageFirstFails, Candidate, SeamedBatch,
              Stage, Throw
<1> QED
  BY <1>1, <1>2, <1>3 DEF Extend

LEMMA SamplingForgetsNext == SamplingForgets /\ [Next]_vars => SamplingForgets'
<1> SUFFICES ASSUME SamplingForgets, [Next]_vars PROVE SamplingForgets'
  OBVIOUS
<1>1. ASSUME NEW batch \in Batch, Extend(batch) PROVE call' = Idle
  BY <1>1, ExtendReturns
<1>2. CASE start_staging \/ Sampling \/ Drained \/ InstallThrows \/ UNCHANGED vars
  BY <1>2 DEF SamplingForgets, start_staging, Sampling, sample_next, sample_at_least, Drained,
              InstallThrows, vars
<1>3. CASE SampleActive \/ RebaseBeforeTerminal \/ RebaseAfterTerminal
  BY <1>3 DEF SamplingForgets, SampleActive, RebaseBeforeTerminal, RebaseAfterTerminal,
              InstallStaged, Emit
<1> QED
  BY <1>1, <1>2, <1>3 DEF Next, SampleOne, SamplingForgets

\* A reply that is not Threw.
LEMMA OtherReply ==
  ASSUME NEW kind, NEW slack, NEW delta, kind # "threw"
  PROVE  [kind |-> kind, slack |-> slack, delta |-> delta] # Threw
<1>1. [kind |-> kind, slack |-> slack, delta |-> delta].kind = kind /\ Threw.kind = "threw"
  BY DEF Threw
<1> QED
  BY <1>1

\* An extend that throws, wherever it does, leaves the active trajectory, its sampling
\* and the staged trajectory alone: only rows of the stores may have grown.
THEOREM FailuresKeepMotion == Spec => FailedExtendKeepsMotion
<1> DEFINE Kept == UNCHANGED <<control, staging.on, staging.next>>
<1>1. ASSUME SamplerInv, SamplingForgets, [Next]_vars, reply' = Threw PROVE Kept
  <2>0. staging \in [on : BOOLEAN, waypoints : Seq(Waypoint), next : Trajectory \cup {NoTrajectory}]
    BY <1>1 DEF SamplerInv, TypeOK
  <2>1. ASSUME NEW batch \in Batch, Extend(batch) PROVE Kept
    <3>1. CASE \/ ExtendRefused(batch) \/ FirstBuildFails(batch) \/ FirstSamplerThrows(batch)
               \/ ExtendNoop(batch) \/ CandidateFails(batch)
      BY <3>1 DEF ExtendRefused, FirstBuildFails, FirstSamplerThrows, ExtendNoop, CandidateFails,
                  Throw
    <3>2. CASE StageAgainFails(batch)
      BY <2>0, <3>2 DEF StageAgainFails, StageFails, Throw
    <3>3. CASE AppendFails(batch)
      BY <2>0, <3>3 DEF AppendFails, Throw
    <3>4. CASE FirstBuild(batch)
      BY <1>1, <3>4, OtherReply DEF FirstBuild
    <3>5. CASE StageAgain(batch)
      BY <1>1, <3>5, OtherReply DEF StageAgain
    <3>6. ASSUME NEW c \in Trajectory, PivotSamplerThrows(batch, c) \/ StageFirstFails(batch, c)
          PROVE  Kept
      BY <3>6 DEF PivotSamplerThrows, StageFirstFails, Throw
    <3>7. ASSUME NEW c \in Trajectory, Pivot(batch, c) PROVE Kept
      BY <1>1, <3>7, OtherReply DEF Pivot
    <3>8. ASSUME NEW c \in Trajectory, StageFirst(batch, c) PROVE Kept
      <4>1. (IF BranchAhead(c) THEN "staged_unsamplable" ELSE "staged_branch_sampled") # "threw"
        OBVIOUS
      <4> QED
        BY <1>1, <3>8, <4>1, OtherReply DEF StageFirst
    <3> QED
      BY <2>1, <3>1, <3>2, <3>3, <3>4, <3>5, <3>6, <3>7, <3>8 DEF Extend
  <2>2. CASE start_staging \/ Sampling
    BY <1>1, <2>2, OtherReply DEF start_staging, Sampling, sample_next, sample_at_least, NoReply
  <2>3. CASE SampleOne
    <3>1. reply' = reply /\ call # Idle
      BY <2>3 DEF SampleOne, SampleActive, RebaseBeforeTerminal, RebaseAfterTerminal,
                  InstallStaged, Emit, InstallThrows, Drained
    <3> QED
      BY <1>1, <3>1, OtherReply DEF SamplingForgets, NoReply
  <2>4. CASE UNCHANGED vars
    BY <2>4 DEF vars
  <2> QED
    BY <1>1, <2>1, <2>2, <2>3, <2>4 DEF Next
<1>2. Init => SamplingForgets
  BY DEF Init, SamplingForgets
<1>3. SamplerInv /\ SamplingForgets /\ [Next]_vars => [reply' = Threw => Kept]_vars
  BY <1>1
<1> QED
  BY <1>2, <1>3, SamplingForgetsNext, SamplerInvariant, PTL DEF Spec, FailedExtendKeepsMotion

-----------------------------------------------------------------------------
(***************************************************************************)
(* What a session keeps while samplers can be built and memory lasts: its  *)
(* waypoints through every provisional append, and the session itself      *)
(* through every extend that throws.  And what its calls report: the       *)
(* growth an extend returns, and when a sampling call may come back.       *)
(***************************************************************************)

\* Neither a sampler nor an append can fail.
Reliable ==
  /\ ~Exhausts
  /\ \A tr \in Trajectory, start \in Nat : Representable(tr, start)

RowsInv ==
  /\ WaypointsConserved
  /\ StagedMotionContinues
  /\ active = NoTrajectory => retired = <<>>

-----------------------------------------------------------------------------
(* Sequences of rows *)

AreRows(s, t, u) == s \in Seq(Waypoint) /\ t \in Seq(Waypoint) /\ u \in Seq(Waypoint)

LEMMA Regrouped ==
  ASSUME NEW s, NEW t, NEW u, AreRows(s, t, u)
  PROVE  (s \o t) \o u = s \o (t \o u)
BY ConcatAssociative DEF AreRows

LEMMA TailConcat ==
  ASSUME NEW s \in Seq(Waypoint), NEW t \in Seq(Waypoint), s # <<>>
  PROVE  /\ s \o t \in Seq(Waypoint) /\ s \o t # <<>>
         /\ Tail(s \o t) = Tail(s) \o t
         /\ Head(s \o t) = Head(s)
<1>1. /\ Len(s) \in Nat \ {0} /\ Len(t) \in Nat
      /\ s \o t \in Seq(Waypoint) /\ Len(s \o t) = Len(s) + Len(t)
      /\ \A i \in 1..Len(s) + Len(t) : (s \o t)[i] = IF i <= Len(s) THEN s[i] ELSE t[i - Len(s)]
  BY EmptySeq, LenProperties, ConcatProperties
<1>2. s \o t # <<>>
  BY <1>1, EmptySeq
<1>3. /\ Tail(s) \in Seq(Waypoint) /\ Len(Tail(s)) = Len(s) - 1
      /\ \A i \in 1..Len(s) - 1 : Tail(s)[i] = s[i + 1]
  BY HeadTailProperties
<1>4. /\ Tail(s \o t) \in Seq(Waypoint) /\ Len(Tail(s \o t)) = Len(s) + Len(t) - 1
      /\ \A i \in 1..Len(s) + Len(t) - 1 : Tail(s \o t)[i] = (s \o t)[i + 1]
  BY <1>1, <1>2, HeadTailProperties
<1>5. /\ Tail(s) \o t \in Seq(Waypoint) /\ Len(Tail(s) \o t) = Len(s) - 1 + Len(t)
      /\ \A i \in 1..Len(s) - 1 + Len(t) :
           (Tail(s) \o t)[i] = IF i <= Len(s) - 1 THEN Tail(s)[i] ELSE t[i - (Len(s) - 1)]
  BY <1>3, ConcatProperties
<1>6. \A i \in 1..Len(Tail(s \o t)) : Tail(s \o t)[i] = (Tail(s) \o t)[i]
  <2> SUFFICES ASSUME NEW i \in 1..Len(s) + Len(t) - 1
               PROVE  (s \o t)[i + 1] = (Tail(s) \o t)[i]
    BY <1>4
  <2>1. CASE i <= Len(s) - 1
    BY <1>1, <1>3, <1>5, <2>1
  <2>2. CASE ~(i <= Len(s) - 1)
    <3>1. (s \o t)[i + 1] = t[(i + 1) - Len(s)] /\ (Tail(s) \o t)[i] = t[i - (Len(s) - 1)]
      BY <1>1, <1>5, <2>2
    <3>2. (i + 1) - Len(s) = i - (Len(s) - 1)
      BY <1>1
    <3> QED
      BY <3>1, <3>2
  <2> QED
    BY <2>1, <2>2
<1>7. Tail(s \o t) = Tail(s) \o t
  <2>1. Len(Tail(s \o t)) = Len(Tail(s) \o t)
    BY <1>1, <1>4, <1>5
  <2> QED
    BY <1>4, <1>5, <1>6, <2>1, SeqEqual
<1>8. Head(s \o t) = Head(s)
  <2>1. Head(s \o t) = (s \o t)[1] /\ Head(s) = s[1]
    BY <1>1, <1>2
  <2> QED
    BY <1>1, <2>1
<1> QED
  BY <1>1, <1>2, <1>7, <1>8

LEMMA LastConcat ==
  ASSUME NEW s \in Seq(Waypoint), NEW t \in Seq(Waypoint), t # <<>>
  PROVE  /\ s \o t \in Seq(Waypoint) /\ s \o t # <<>>
         /\ Last(s \o t) = Last(t)
<1>1. /\ Len(s) \in Nat /\ Len(t) \in Nat \ {0}
      /\ s \o t \in Seq(Waypoint) /\ Len(s \o t) = Len(s) + Len(t)
      /\ (s \o t)[Len(s) + Len(t)] = t[Len(s) + Len(t) - Len(s)]
  <2>1. /\ Len(s) \in Nat /\ Len(t) \in Nat \ {0}
        /\ s \o t \in Seq(Waypoint) /\ Len(s \o t) = Len(s) + Len(t)
        /\ \A i \in 1..Len(s) + Len(t) : (s \o t)[i] = IF i <= Len(s) THEN s[i] ELSE t[i - Len(s)]
    BY EmptySeq, LenProperties, ConcatProperties
  <2>2. Len(s) + Len(t) \in 1..Len(s) + Len(t) /\ ~(Len(s) + Len(t) <= Len(s))
    BY <2>1
  <2> QED
    BY <2>1, <2>2
<1>2. Len(s) + Len(t) - Len(s) = Len(t)
  BY <1>1
<1>3. s \o t # <<>>
  BY <1>1, EmptySeq
<1> QED
  BY <1>1, <1>2, <1>3 DEF Last

\* A batch past its seam.
LEMMA PastSeam ==
  ASSUME NEW batch \in Seq(Waypoint), Len(batch) > 1
  PROVE  Tail(batch) \in Seq(Waypoint) /\ Tail(batch) # <<>> /\ Last(Tail(batch)) = Last(batch)
<1>1. Len(batch) \in Nat /\ batch # <<>>
  BY EmptySeq, LenProperties
<1>2. /\ Tail(batch) \in Seq(Waypoint) /\ Len(Tail(batch)) = Len(batch) - 1
      /\ \A i \in 1..Len(Tail(batch)) : Tail(batch)[i] = batch[i + 1]
  BY <1>1, HeadTailProperties
<1>3. Tail(batch) # <<>>
  <2>1. Len(<<>>) = 0
    BY EmptySeq
  <2>2. Len(Tail(batch)) # 0
    BY <1>1, <1>2
  <2> QED
    BY <2>1, <2>2
<1>4. Tail(batch)[Len(batch) - 1] = batch[Len(batch)]
  <2>1. Len(batch) - 1 \in 1..Len(Tail(batch)) /\ (Len(batch) - 1) + 1 = Len(batch)
    BY <1>1, <1>2
  <2> QED
    BY <1>2, <2>1
<1> QED
  BY <1>2, <1>3, <1>4 DEF Last

\* Two stores that share a row at the seam are the first without it and the second.
LEMMA SeamCounted ==
  ASSUME NEW rows \in Seq(Waypoint), rows # <<>>, NEW next \in Seq(Waypoint), next # <<>>,
         Head(next) = Last(rows)
  PROVE  Front(rows) \in Seq(Waypoint) /\ Front(rows) \o next = rows \o Tail(next)
<1>1. Len(rows) \in Nat \ {0} /\ Len(next) \in Nat \ {0}
  BY EmptySeq
<1>2. rows = Front(rows) \o <<Last(rows)>>
  <2>1. 1 \in 1..Len(rows) /\ Len(rows) \in 1..Len(rows)
    BY <1>1
  <2>2. SubSeq(rows, 1, Len(rows)) = Front(rows) \o <<Last(rows)>>
    BY <2>1, SubSeqRecursiveSecond DEF Front, Last
  <2>3. SubSeq(rows, 1, Len(rows)) = rows
    BY SubSeqFull
  <2> QED
    BY <2>2, <2>3, Zenon
<1>3. Front(rows) \in Seq(Waypoint)
  <2>1. \A i \in 1..Len(rows) - 1 : rows[i] \in Waypoint
    BY <1>1, ElementOfSeq
  <2> QED
    BY <1>1, <2>1, SubSeqProperties DEF Front
<1>4. /\ <<Last(rows)>> \in Seq(Waypoint) /\ Tail(next) \in Seq(Waypoint)
      /\ next = <<Last(rows)>> \o Tail(next)
  <2>1. next = SubSeq(next, 1, Len(next)) /\ Tail(next) = SubSeq(next, 2, Len(next))
    BY SubSeqFull, TailIsSubSeq
  <2>2. SubSeq(next, 1, Len(next)) = <<next[1]>> \o SubSeq(next, 1 + 1, Len(next))
    <3>1. 1 \in 1..Len(next) /\ Len(next) \in 1..Len(next)
      BY <1>1
    <3> QED
      BY <3>1, SubSeqRecursiveFirst
  <2>3. next[1] = Last(rows)
    BY <1>1
  <2>4. <<Last(rows)>> \in Seq(Waypoint) /\ Tail(next) \in Seq(Waypoint)
    BY LastRow, HeadTailProperties
  <2> QED
    BY <2>1, <2>2, <2>3, <2>4
<1>5. (Front(rows) \o <<Last(rows)>>) \o Tail(next) = Front(rows) \o (<<Last(rows)>> \o Tail(next))
  <2> DEFINE front == Front(rows)
             seam == <<Last(rows)>>
             rest == Tail(next)
  <2>1. AreRows(front, seam, rest)
    BY <1>3, <1>4 DEF AreRows
  <2> HIDE DEF front, seam, rest
  <2>2. (front \o seam) \o rest = front \o (seam \o rest)
    BY <2>1, Regrouped
  <2> QED
    BY <2>2 DEF front, seam, rest
<1>6. Front(rows) \o next = rows \o Tail(next)
  BY <1>2, <1>4, <1>5
<1> QED
  BY <1>3, <1>6

-----------------------------------------------------------------------------
(* The waypoints *)

LEMMA RowsFacts ==
  ASSUME SamplerInv
  PROVE  /\ waypoints \in Seq(Waypoint) /\ accepted \in Seq(Waypoint) /\ retired \in Seq(Waypoint)
         /\ staging.waypoints \in Seq(Waypoint)
         /\ staging \in [on : BOOLEAN, waypoints : Seq(Waypoint), next : Trajectory \cup {NoTrajectory}]
         /\ active # NoTrajectory => waypoints # <<>>
         /\ active = NoTrajectory => ~Staged
BY DEF SamplerInv, TypeOK, Shape, Staged, NotStaging

\* An extend that throws or has nothing to add leaves everything as it was.
LEMMA FailedKeepsAll ==
  ASSUME Reliable, SamplerInv, RowsInv, NEW batch \in Batch,
         \/ ExtendRefused(batch) \/ FirstBuildFails(batch) \/ FirstSamplerThrows(batch)
         \/ ExtendNoop(batch) \/ StageAgainFails(batch) \/ CandidateFails(batch)
         \/ AppendFails(batch)
         \/ \E c \in Trajectory : PivotSamplerThrows(batch, c) \/ StageFirstFails(batch, c)
  PROVE  UNCHANGED <<waypoints, staging, control, history>>
<1> USE ConstantFacts
<1>1. /\ waypoints \in Seq(Waypoint) /\ batch \in Seq(Waypoint)
      /\ active = NoTrajectory => waypoints = <<>>
  BY RowsFacts DEF RowsInv, WaypointsConserved
<1>2. batch # <<>> /\ active # NoTrajectory => Truncated(Appended(waypoints, batch), Len(waypoints)) = waypoints
  BY <1>1, AppendThenTruncate
<1>3. CASE ExtendRefused(batch) \/ ExtendNoop(batch)
  BY <1>3 DEF ExtendRefused, ExtendNoop, Throw
<1>4. CASE FirstBuildFails(batch)
  <2>1. Truncated(waypoints \o batch, 0) = <<>>
    BY SubSeqEmpty DEF Truncated
  <2> QED
    BY <1>1, <1>4, <2>1 DEF FirstBuildFails, FirstBatch, Throw
<1>5. CASE FirstSamplerThrows(batch)
  BY <1>5 DEF FirstSamplerThrows, Builds, Reliable
<1>6. CASE StageAgainFails(batch)
  <2>1. staging' = staging
    BY <1>1, <1>6, StagedRewound DEF StageAgainFails, SeamedBatch
  <2> QED
    BY <1>6, <2>1 DEF StageAgainFails, StageFails, Throw
<1>7. CASE CandidateFails(batch)
  BY <1>2, <1>7 DEF CandidateFails, Candidate, SeamedBatch, Throw
<1>8. CASE AppendFails(batch)
  BY <1>8 DEF AppendFails, Reliable
<1>9. ASSUME NEW c \in Trajectory, PivotSamplerThrows(batch, c)
      PROVE  UNCHANGED <<waypoints, staging, control, history>>
  <2>1. StartingLocalTime \in Nat
    <3>1. /\ emitted_sample_count \in Nat /\ epoch \in Nat /\ current_time \in Nat
          /\ emitted_sample_count > 0 => epoch <= current_time
      BY DEF SamplerInv, TypeOK, Shape
    <3> QED
      BY <3>1 DEF StartingLocalTime
  <2> QED
    BY <1>9, <2>1 DEF PivotSamplerThrows, Reliable
<1>10. ASSUME NEW c \in Trajectory, StageFirstFails(batch, c)
       PROVE  UNCHANGED <<waypoints, staging, control, history>>
  BY <1>2, <1>10 DEF StageFirstFails, Candidate, SeamedBatch, Throw
<1> QED
  BY <1>3, <1>4, <1>5, <1>6, <1>7, <1>8, <1>9, <1>10

\* A batch past its seam joins the accepted waypoints and the staged rows alike.
LEMMA StageKeepsRows ==
  ASSUME SamplerInv, RowsInv, active # NoTrajectory, NEW batch \in Batch, NEW tr \in Trajectory,
         Len(batch) > 1, Stage(batch, tr), waypoints' = waypoints
  PROVE  RowsInv'
<1> USE ConstantFacts
<1> DEFINE more == Tail(batch)
<1>1. /\ waypoints \in Seq(Waypoint) /\ waypoints # <<>>
      /\ accepted \in Seq(Waypoint) /\ retired \in Seq(Waypoint)
      /\ staging.waypoints \in Seq(Waypoint)
      /\ retired \o waypoints \in Seq(Waypoint)
  BY RowsFacts, ConcatProperties
<1>2. more \in Seq(Waypoint) /\ more # <<>> /\ Last(more) = Last(batch)
  BY PastSeam
<1>3. /\ staging' = [on |-> TRUE, waypoints |-> StagedRows(batch), next |-> tr]
      /\ last_waypoint' = <<Last(batch)>>
      /\ accepted' = accepted \o more
      /\ active' = active /\ retired' = retired
  BY DEF Stage
<1> HIDE DEF more
<1>4. last_waypoint' = <<Last(accepted')>>
  BY <1>1, <1>2, <1>3, LastConcat
<1>5. /\ StagedRows(batch) # <<>>
      /\ Head(StagedRows(batch)) = Last(waypoints)
      /\ (retired \o waypoints) \o Tail(StagedRows(batch)) = accepted \o more
  <2>1. CASE staging.waypoints = <<>>
    <3>1. /\ <<Last(waypoints)>> \in Seq(Waypoint) /\ <<Last(waypoints)>> # <<>>
          /\ Tail(<<Last(waypoints)>>) = <<>> /\ Head(<<Last(waypoints)>>) = Last(waypoints)
      BY <1>1, LastRow
    <3>2. StagedRows(batch) = <<Last(waypoints)>> \o more
      BY <2>1 DEF StagedRows, Appended, more
    <3>3. Tail(StagedRows(batch)) = more
      BY <1>2, <3>1, <3>2, TailConcat, ConcatEmptySeq
    <3>4. accepted = retired \o waypoints
      <4>1. retired \o waypoints \o <<>> = accepted
        BY <2>1 DEF RowsInv, WaypointsConserved
      <4> QED
        BY <1>1, <4>1, ConcatEmptySeq
    <3> QED
      BY <1>2, <3>1, <3>2, <3>3, <3>4, TailConcat
  <2>2. CASE staging.waypoints # <<>>
    <3>1. StagedRows(batch) = staging.waypoints \o more
      BY <2>2 DEF StagedRows, Appended, more
    <3>2. /\ StagedRows(batch) # <<>>
          /\ Tail(StagedRows(batch)) = Tail(staging.waypoints) \o more
          /\ Head(StagedRows(batch)) = Head(staging.waypoints)
      BY <1>1, <1>2, <2>2, <3>1, TailConcat
    <3>3. Head(staging.waypoints) = Last(waypoints)
      BY <2>2 DEF RowsInv, StagedMotionContinues
    <3>4. (retired \o waypoints) \o Tail(staging.waypoints) = accepted
      BY <2>2 DEF RowsInv, WaypointsConserved
    <3>5. Tail(staging.waypoints) \in Seq(Waypoint)
      BY <1>1, <2>2, HeadTailProperties
    <3>6. (retired \o waypoints) \o (Tail(staging.waypoints) \o more)
            = ((retired \o waypoints) \o Tail(staging.waypoints)) \o more
      <4> DEFINE gone == retired \o waypoints
                 waits == Tail(staging.waypoints)
      <4>1. AreRows(gone, waits, more)
        BY <1>1, <1>2, <3>5 DEF AreRows
      <4> HIDE DEF gone, waits, more
      <4>2. gone \o (waits \o more) = (gone \o waits) \o more
        BY <4>1, Regrouped
      <4> QED
        BY <4>2 DEF gone, waits
    <3> QED
      BY <3>2, <3>3, <3>4, <3>6
  <2> QED
    BY <2>1, <2>2
<1>6. Staged'
  BY <1>3, TrajectoryFacts DEF Staged
<1>7. StagedMotionContinues'
  BY <1>3, <1>5, <1>6 DEF StagedMotionContinues
<1>8. WaypointsConserved'
  BY <1>3, <1>4, <1>5 DEF WaypointsConserved
<1> QED
  BY <1>3, <1>7, <1>8 DEF RowsInv

\* A pivot's batch joins the rows of the active trajectory.
LEMMA PivotKeepsRows ==
  ASSUME SamplerInv, RowsInv, NEW batch \in Batch, NEW candidate \in Trajectory,
         Pivot(batch, candidate)
  PROVE  RowsInv'
<1> USE ConstantFacts
<1> DEFINE more == Tail(batch)
<1>1. /\ active # NoTrajectory /\ ~staging.on /\ Len(batch) > 1
      /\ waypoints' = waypoints \o more
      /\ active' = candidate
      /\ last_waypoint' = <<Last(waypoints')>>
      /\ accepted' = accepted \o more
      /\ UNCHANGED <<staging, retired>>
  BY DEF Pivot, Candidate, SeamedBatch, Appended
<1>2. /\ waypoints \in Seq(Waypoint)
      /\ accepted \in Seq(Waypoint) /\ retired \in Seq(Waypoint)
      /\ more \in Seq(Waypoint) /\ more # <<>>
  BY <1>1, RowsFacts, PastSeam
<1> HIDE DEF more
<1>3. ~Staged /\ staging.waypoints = <<>>
  BY <1>1 DEF RowsInv, StagedMotionContinues
<1>4. accepted = retired \o waypoints /\ retired \o waypoints \in Seq(Waypoint)
  <2>1. (retired \o waypoints) \o <<>> = accepted
    BY <1>1, <1>3 DEF RowsInv, WaypointsConserved
  <2> QED
    BY <1>2, <2>1, ConcatEmptySeq, ConcatProperties
<1>5. retired \o (waypoints \o more) = accepted \o more
  <2>1. AreRows(retired, waypoints, more)
    BY <1>2 DEF AreRows
  <2>2. (retired \o waypoints) \o more = retired \o (waypoints \o more)
    BY <2>1, Regrouped
  <2> QED
    BY <1>4, <2>2
<1>6. /\ Last(waypoints \o more) = Last(more) /\ Last(accepted \o more) = Last(more)
      /\ accepted \o more \in Seq(Waypoint)
  BY <1>2, LastConcat
<1>7. WaypointsConserved'
  <2>1. (retired \o (waypoints \o more)) \o <<>> = accepted \o more
    BY <1>5, <1>6, ConcatEmptySeq
  <2>2. active' # NoTrajectory
    BY <1>1, TrajectoryFacts
  <2> QED
    BY <1>1, <1>3, <1>6, <2>1, <2>2 DEF WaypointsConserved
<1>8. StagedMotionContinues'
  BY <1>1, <1>3 DEF StagedMotionContinues, Staged
<1> QED
  BY <1>1, <1>7, <1>8, TrajectoryFacts DEF RowsInv

\* The first batch is the first of the accepted waypoints.
LEMMA FirstBuildKeepsRows ==
  ASSUME SamplerInv, RowsInv, NEW batch \in Batch, FirstBuild(batch)
  PROVE  RowsInv'
<1> USE ConstantFacts
<1>1. /\ active = NoTrajectory
      /\ waypoints' = waypoints \o batch
      /\ accepted' = accepted \o batch
      /\ last_waypoint' = <<Last(waypoints')>>
      /\ UNCHANGED <<staging, retired>>
  BY DEF FirstBuild, FirstBatch
<1>2. active' \in Trajectory
  BY DEF FirstBuild, Builds
<1>3. waypoints = <<>> /\ accepted = <<>> /\ retired = <<>> /\ staging = NotStaging
  BY <1>1 DEF RowsInv, WaypointsConserved, SamplerInv, TypeOK
<1>4. <<>> \o batch = batch /\ batch \o <<>> = batch
  BY ConcatEmptySeq
<1>5. WaypointsConserved'
  <2>1. retired' \o waypoints' \o <<>> = accepted'
    BY <1>1, <1>3, <1>4
  <2>2. active' # NoTrajectory
    BY <1>2, TrajectoryFacts
  <2> QED
    BY <1>1, <1>3, <1>4, <2>1, <2>2 DEF WaypointsConserved, NotStaging
<1>6. StagedMotionContinues'
  BY <1>1, <1>3 DEF StagedMotionContinues, Staged, NotStaging
<1> QED
  BY <1>2, <1>5, <1>6, TrajectoryFacts DEF RowsInv

\* A rebase retires the active trajectory's rows but the seam.
LEMMA RebaseKeepsRows ==
  ASSUME SamplerInv, RowsInv, RebaseBeforeTerminal \/ RebaseAfterTerminal
  PROVE  RowsInv'
<1>1. PICK start : Staged /\ InstallStaged(start)
  BY DEF RebaseBeforeTerminal, RebaseAfterTerminal
<1>2. /\ active' = staging.next
      /\ waypoints' = staging.waypoints
      /\ staging' = NotStaging
      /\ retired' = retired \o Front(waypoints)
      /\ UNCHANGED <<last_waypoint, accepted>>
  BY <1>1 DEF InstallStaged, Emit
<1>3. /\ waypoints \in Seq(Waypoint) /\ waypoints # <<>> /\ retired \in Seq(Waypoint)
      /\ staging.waypoints \in Seq(Waypoint) /\ active # NoTrajectory
  BY <1>1, RowsFacts
<1>4. staging.waypoints # <<>> /\ Head(staging.waypoints) = Last(waypoints)
  BY <1>1 DEF RowsInv, StagedMotionContinues
<1>5. /\ Front(waypoints) \in Seq(Waypoint)
      /\ Front(waypoints) \o staging.waypoints = waypoints \o Tail(staging.waypoints)
  BY <1>3, <1>4, SeamCounted
<1>6. (retired \o Front(waypoints)) \o staging.waypoints = accepted
  <2>1. Tail(staging.waypoints) \in Seq(Waypoint)
    BY <1>3, <1>4, HeadTailProperties
  <2>2. (retired \o waypoints) \o Tail(staging.waypoints) = accepted
    BY <1>3, <1>4 DEF RowsInv, WaypointsConserved
  <2>3. /\ (retired \o Front(waypoints)) \o staging.waypoints
             = retired \o (Front(waypoints) \o staging.waypoints)
        /\ (retired \o waypoints) \o Tail(staging.waypoints)
             = retired \o (waypoints \o Tail(staging.waypoints))
    <3> DEFINE front == Front(waypoints)
               next == staging.waypoints
               rest == Tail(staging.waypoints)
    <3>1. AreRows(retired, front, next) /\ AreRows(retired, waypoints, rest)
      BY <1>3, <1>5, <2>1 DEF AreRows
    <3> HIDE DEF front, next, rest
    <3>2. (retired \o front) \o next = retired \o (front \o next)
      BY <3>1, Regrouped
    <3>3. (retired \o waypoints) \o rest = retired \o (waypoints \o rest)
      BY <3>1, Regrouped
    <3> QED
      BY <3>2, <3>3 DEF front, next, rest
  <2> QED
    BY <1>5, <2>2, <2>3
<1>7. WaypointsConserved'
  <2>1. accepted \o <<>> = accepted
    BY RowsFacts, ConcatEmptySeq
  <2>2. last_waypoint = <<Last(accepted)>>
    BY <1>3 DEF RowsInv, WaypointsConserved
  <2>3. active' # NoTrajectory
    BY <1>1, <1>2 DEF Staged
  <2> QED
    BY <1>2, <1>6, <2>1, <2>2, <2>3 DEF WaypointsConserved, NotStaging
<1>8. StagedMotionContinues'
  BY <1>2 DEF StagedMotionContinues, Staged, NotStaging
<1> QED
  BY <1>1, <1>2, <1>7, <1>8 DEF RowsInv, Staged

LEMMA RowsInvNext == Reliable /\ SamplerInv /\ RowsInv /\ [Next]_vars => RowsInv'
<1> SUFFICES ASSUME Reliable, SamplerInv, RowsInv, [Next]_vars PROVE RowsInv'
  OBVIOUS
<1>1. ASSUME UNCHANGED <<waypoints, active, staging, last_waypoint, accepted, retired>>
      PROVE  RowsInv'
  BY <1>1 DEF RowsInv, WaypointsConserved, StagedMotionContinues, Staged
<1>2. ASSUME NEW batch \in Batch, Extend(batch) PROVE RowsInv'
  <2>1. CASE \/ ExtendRefused(batch) \/ FirstBuildFails(batch) \/ FirstSamplerThrows(batch)
             \/ ExtendNoop(batch) \/ StageAgainFails(batch) \/ CandidateFails(batch)
             \/ AppendFails(batch)
             \/ \E c \in Trajectory : PivotSamplerThrows(batch, c) \/ StageFirstFails(batch, c)
    BY <1>1, <2>1, FailedKeepsAll DEF control, history
  <2>2. CASE FirstBuild(batch)
    BY <2>2, FirstBuildKeepsRows
  <2>3. CASE StageAgain(batch)
    <3>1. PICK tr \in Trajectory : Stage(batch, tr)
      BY <2>3 DEF StageAgain, Builds
    <3>2. active # NoTrajectory /\ Len(batch) > 1 /\ waypoints' = waypoints
      BY <2>3 DEF StageAgain, SeamedBatch
    <3> QED
      BY <3>1, <3>2, StageKeepsRows
  <2>4. ASSUME NEW c \in Trajectory, Pivot(batch, c) PROVE RowsInv'
    BY <2>4, PivotKeepsRows
  <2>5. ASSUME NEW c \in Trajectory, StageFirst(batch, c) PROVE RowsInv'
    <3>1. PICK tr \in Trajectory : Stage(batch, tr)
      BY <2>5 DEF StageFirst, Builds
    <3>2. active # NoTrajectory /\ Len(batch) > 1
      BY <2>5 DEF StageFirst, Candidate, SeamedBatch
    <3>3. waypoints' = waypoints
      BY <2>5, StagingSteps
    <3> QED
      BY <3>1, <3>2, <3>3, StageKeepsRows
  <2> QED
    BY <1>2, <2>1, <2>2, <2>3, <2>4, <2>5 DEF Extend
<1>3. CASE start_staging
  <2>1. /\ UNCHANGED <<waypoints, active, last_waypoint, accepted, retired>>
        /\ staging' = [staging EXCEPT !.on = TRUE] \/ staging' = staging
    BY <1>3 DEF start_staging, control, history
  <2>2. staging'.waypoints = staging.waypoints /\ staging'.next = staging.next
        /\ (staging.on => staging'.on)
    BY <2>1, RowsFacts
  <2> QED
    BY <2>1, <2>2 DEF RowsInv, WaypointsConserved, StagedMotionContinues, Staged
<1>4. CASE Sampling \/ Drained \/ InstallThrows \/ UNCHANGED vars
  BY <1>1, <1>4 DEF Sampling, sample_next, sample_at_least, Drained, InstallThrows, vars,
                    control, history
<1>5. CASE SampleActive
  BY <1>1, <1>5 DEF SampleActive, Emit
<1>6. CASE RebaseBeforeTerminal \/ RebaseAfterTerminal
  BY <1>6, RebaseKeepsRows
<1> QED
  BY <1>2, <1>3, <1>4, <1>5, <1>6 DEF Next, SampleOne

LEMMA RowsInvInit == Init => RowsInv
BY DEF Init, RowsInv, WaypointsConserved, StagedMotionContinues, Staged, NotStaging

LEMMA RowsInvariant == ASSUME Reliable PROVE Spec => []RowsInv
<1>1. SamplerInv /\ RowsInv /\ [Next]_vars => RowsInv'
  BY RowsInvNext
<1> QED
  BY <1>1, RowsInvInit, SamplerInvariant, PTL DEF Spec

\* While samplers can be built and memory lasts, no waypoint is lost, duplicated or
\* reordered by provisional appends, failed builds, staging and rebases (extend, stage_,
\* install_staged_).
THEOREM RowsConserved == ASSUME Reliable PROVE Spec => []WaypointsConserved
<1>1. RowsInv => WaypointsConserved
  BY DEF RowsInv
<1> QED
  BY <1>1, RowsInvariant, PTL

\* While samplers can be built and memory lasts, staged motion starts where the active
\* trajectory ends, and its rows and its trajectory exist together (stage_,
\* install_staged_).
THEOREM StagingContinues == ASSUME Reliable PROVE Spec => []StagedMotionContinues
<1>1. RowsInv => StagedMotionContinues
  BY DEF RowsInv
<1> QED
  BY <1>1, RowsInvariant, PTL

\* While samplers can be built and memory lasts, an extend that throws leaves the session
\* as it was (extend, stage_; "Session state is unchanged in that case", session.hpp).
THEOREM FailuresChangeNothing == ASSUME Reliable PROVE Spec => FailedExtendChangesNothing
<1> DEFINE Same == UNCHANGED <<waypoints, staging, control>>
<1>1. ASSUME SamplerInv, RowsInv, SamplingForgets, [Next]_vars, reply' = Threw PROVE Same
  <2>1. ASSUME NEW batch \in Batch, Extend(batch) PROVE Same
    <3>1. CASE \/ ExtendRefused(batch) \/ FirstBuildFails(batch) \/ FirstSamplerThrows(batch)
               \/ ExtendNoop(batch) \/ StageAgainFails(batch) \/ CandidateFails(batch)
               \/ AppendFails(batch)
               \/ \E c \in Trajectory : PivotSamplerThrows(batch, c) \/ StageFirstFails(batch, c)
      BY <1>1, <3>1, FailedKeepsAll
    <3>2. CASE FirstBuild(batch)
      BY <1>1, <3>2, OtherReply DEF FirstBuild
    <3>3. CASE StageAgain(batch)
      BY <1>1, <3>3, OtherReply DEF StageAgain
    <3>4. ASSUME NEW c \in Trajectory, Pivot(batch, c) PROVE Same
      BY <1>1, <3>4, OtherReply DEF Pivot
    <3>5. ASSUME NEW c \in Trajectory, StageFirst(batch, c) PROVE Same
      <4>1. (IF BranchAhead(c) THEN "staged_unsamplable" ELSE "staged_branch_sampled") # "threw"
        OBVIOUS
      <4> QED
        BY <1>1, <3>5, <4>1, OtherReply DEF StageFirst
    <3> QED
      BY <2>1, <3>1, <3>2, <3>3, <3>4, <3>5 DEF Extend
  <2>2. CASE start_staging \/ Sampling
    BY <1>1, <2>2, OtherReply DEF start_staging, Sampling, sample_next, sample_at_least, NoReply
  <2>3. CASE SampleOne
    <3>1. reply' = reply /\ call # Idle
      BY <2>3 DEF SampleOne, SampleActive, RebaseBeforeTerminal, RebaseAfterTerminal,
                  InstallStaged, Emit, InstallThrows, Drained
    <3> QED
      BY <1>1, <3>1, OtherReply DEF SamplingForgets, NoReply
  <2>4. CASE UNCHANGED vars
    BY <2>4 DEF vars
  <2> QED
    BY <1>1, <2>1, <2>2, <2>3, <2>4 DEF Next
<1>2. Init => SamplingForgets
  BY DEF Init, SamplingForgets
<1>3. SamplerInv /\ RowsInv /\ SamplingForgets /\ [Next]_vars => [reply' = Threw => Same]_vars
  BY <1>1
<1> QED
  BY <1>2, <1>3, SamplingForgetsNext, RowsInvariant, SamplerInvariant, PTL
     DEF Spec, FailedExtendChangesNothing

-----------------------------------------------------------------------------
(* What remains to be sampled *)

\* The latest sample does not pass the end of the active trajectory.
LEMMA EndAhead ==
  ASSUME SamplerInv, active # NoTrajectory
  PROVE  /\ active \in Trajectory /\ Duration(active) \in Nat
         /\ epoch \in Nat /\ current_time \in Nat
         /\ current_time <= epoch + Duration(active)
<1>1. /\ active \in Trajectory /\ Grid(sampler, active)
      /\ epoch \in Nat /\ current_time \in Nat /\ emitted_sample_count \in Nat
  BY DEF SamplerInv, TypeOK, Shape
<1>2. Duration(active) \in Nat
  BY <1>1, TrajectoryFacts
<1>3. CASE emitted_sample_count = 0
  BY <1>1, <1>2, <1>3 DEF SamplerInv, Shape
<1>4. CASE emitted_sample_count > 0 /\ Remaining(sampler) = 0
  BY <1>1, <1>2, <1>4 DEF SamplerInv, SamplerAhead
<1>5. CASE emitted_sample_count > 0 /\ Remaining(sampler) # 0
  <2>1. sampler.next < sampler.count
    BY <1>1, <1>5 DEF Remaining, Grid
  <2>2. SampleTime(sampler, active) \in Nat /\ SampleTime(sampler, active) <= Duration(active)
    BY <1>1, <2>1, GridSample
  <2>3. epoch + SampleTime(sampler, active) \in (current_time + 1)..(current_time + Period)
    BY <1>5 DEF SamplerInv, SamplerAhead
  <2> QED
    BY <1>1, <1>2, <2>2, <2>3
<1> QED
  BY <1>1, <1>2, <1>3, <1>4, <1>5

\* What remains is the rest of the active trajectory and the staged one.
LEMMA RemainingIs ==
  SamplerInv =>
    /\ Duration(staging.next) \in Nat
    /\ remaining_total_duration =
         IF active = NoTrajectory
           THEN 0
           ELSE epoch + Duration(active) + Duration(staging.next) - current_time
<1> SUFFICES ASSUME SamplerInv
             PROVE  /\ Duration(staging.next) \in Nat
                    /\ remaining_total_duration =
                         IF active = NoTrajectory
                           THEN 0
                           ELSE epoch + Duration(active) + Duration(staging.next) - current_time
  OBVIOUS
<1>1. Duration(staging.next) \in Nat
  <2>1. staging.next \in Trajectory \/ staging.next = NoTrajectory
    BY RowsFacts
  <2> QED
    BY <2>1, TrajectoryFacts DEF Duration
<1>2. CASE active = NoTrajectory
  BY <1>1, <1>2 DEF remaining_total_duration
<1>3. CASE active # NoTrajectory
  BY <1>1, <1>3, EndAhead DEF remaining_total_duration
<1> QED
  BY <1>1, <1>2, <1>3

\* extend reports how much it changed remaining_total_duration() (extend, stage_,
\* extend_result::delta_total_duration).
THEOREM DeltaReported == Spec => DeltaIsGrowth
<1> DEFINE Growth == reply'.delta = remaining_total_duration' - remaining_total_duration
           Reported == reply'.kind \notin {"none", "threw"} /\ call' = Idle => Growth
<1>1. ASSUME SamplerInv, SamplerInv', SamplingForgets, Next,
             reply'.kind \notin {"none", "threw"}
      PROVE  Growth
  <2> DEFINE rem == epoch + Duration(active) + Duration(staging.next) - current_time
  <2>1. /\ Duration(staging.next) \in Nat
        /\ remaining_total_duration = IF active = NoTrajectory THEN 0 ELSE rem
    BY <1>1, RemainingIs
  <2>2. /\ Duration(staging'.next) \in Nat
        /\ remaining_total_duration'
             = IF active' = NoTrajectory
                 THEN 0
                 ELSE epoch' + Duration(active') + Duration(staging'.next) - current_time'
    <3>1. (SamplerInv =>
             /\ Duration(staging.next) \in Nat
             /\ remaining_total_duration =
                  IF active = NoTrajectory
                    THEN 0
                    ELSE epoch + Duration(active) + Duration(staging.next) - current_time)'
      BY RemainingIs, PTL
    <3> QED
      BY <1>1, <3>1
  <2>3. epoch \in Nat /\ current_time \in Nat
    BY <1>1 DEF SamplerInv, TypeOK
  <2>4. ~Staged => Duration(staging.next) = 0
    BY DEF Staged, Duration
  <2>5. \A tr \in Trajectory : tr # NoTrajectory /\ Duration(tr) \in Nat
    BY TrajectoryFacts
  <2>6. Threw.kind = "threw" /\ NoReply.kind = "none"
    BY DEF Threw, NoReply
  <2>7. ASSUME NEW batch \in Batch, NEW tr \in Trajectory, Stage(batch, tr),
               active # NoTrajectory,
               reply'.delta = Duration(tr) - Duration(staging.next)
        PROVE  Growth
    <3>1. /\ staging'.next = tr
          /\ UNCHANGED <<active, epoch, current_time>>
      BY <2>7 DEF Stage
    <3>2. Duration(active) \in Nat
      BY <1>1, <2>7, EndAhead
    <3> QED
      BY <2>1, <2>2, <2>3, <2>5, <2>7, <3>1, <3>2
  <2>8. ASSUME NEW batch \in Batch, Extend(batch) PROVE Growth
    <3>1. CASE \/ ExtendRefused(batch) \/ FirstBuildFails(batch) \/ FirstSamplerThrows(batch)
               \/ StageAgainFails(batch) \/ CandidateFails(batch) \/ AppendFails(batch)
               \/ \E c \in Trajectory : PivotSamplerThrows(batch, c) \/ StageFirstFails(batch, c)
      <4>1. reply' = Threw
        BY <3>1 DEF ExtendRefused, FirstBuildFails, FirstSamplerThrows, StageAgainFails,
                    StageFails, CandidateFails, AppendFails, PivotSamplerThrows,
                    StageFirstFails, Throw
      <4> QED
        BY <1>1, <2>6, <4>1
    <3>2. CASE ExtendNoop(batch)
      <4>1. /\ reply'.delta = 0
            /\ UNCHANGED <<active, epoch, current_time, staging>>
        BY <3>2 DEF ExtendNoop, control
      <4>2. active # NoTrajectory
        BY <3>2 DEF ExtendNoop, SeamedBatch
      <4> QED
        BY <1>1, <2>1, <2>2, <2>3, <4>1, <4>2, EndAhead
    <3>3. CASE FirstBuild(batch)
      <4>1. PICK tr \in Trajectory : /\ active' = tr
                                     /\ reply' = [kind |-> "first_build", slack |-> 0,
                                                  delta |-> Duration(tr)]
        BY <3>3 DEF FirstBuild, Builds
      <4>2. /\ active = NoTrajectory
            /\ UNCHANGED <<epoch, current_time, staging>>
        BY <3>3 DEF FirstBuild, FirstBatch
      <4>3. epoch = 0 /\ current_time = 0 /\ ~Staged
        <5>1. emitted_sample_count = 0
          BY <1>1, <4>2 DEF SamplerInv, TypeOK, Shape
        <5> QED
          BY <1>1, <4>2, <5>1, RowsFacts DEF SamplerInv, Shape
      <4> QED
        BY <2>1, <2>2, <2>4, <2>5, <4>1, <4>2, <4>3
    <3>4. CASE StageAgain(batch)
      <4>1. PICK tr \in Trajectory : /\ Stage(batch, tr)
                                     /\ reply' = [kind |-> "staged_again", slack |-> 0,
                                          delta |-> Duration(tr) - Duration(staging.next)]
        BY <3>4 DEF StageAgain, Builds
      <4>2. active # NoTrajectory
        BY <3>4 DEF StageAgain, SeamedBatch
      <4> QED
        BY <2>7, <4>1, <4>2
    <3>5. ASSUME NEW c \in Trajectory, Pivot(batch, c) PROVE Growth
      <4>1. /\ active # NoTrajectory /\ ~Staged
            /\ active' = c
            /\ reply'.delta = Duration(c) - Duration(active)
            /\ UNCHANGED <<epoch, current_time, staging>>
        BY <1>1, <3>5 DEF Pivot, Candidate, SeamedBatch, SamplerInv, Shape
      <4>2. Duration(active) \in Nat
        BY <1>1, <4>1, EndAhead
      <4> QED
        BY <2>1, <2>2, <2>3, <2>4, <2>5, <4>1, <4>2
    <3>6. ASSUME NEW c \in Trajectory, StageFirst(batch, c) PROVE Growth
      <4>1. PICK tr \in Trajectory : Stage(batch, tr) /\ reply'.delta = Duration(tr)
        BY <3>6 DEF StageFirst, Builds
      <4>2. active # NoTrajectory /\ ~Staged
        BY <1>1, <3>6 DEF StageFirst, Candidate, SeamedBatch, SamplerInv, Shape
      <4>3. Duration(tr) = Duration(tr) - Duration(staging.next)
        BY <2>4, <2>5, <4>2
      <4> QED
        BY <2>7, <4>1, <4>2, <4>3
    <3> QED
      BY <2>8, <3>1, <3>2, <3>3, <3>4, <3>5, <3>6 DEF Extend
  <2>9. CASE start_staging \/ Sampling
    <3>1. reply' = NoReply
      BY <2>9 DEF start_staging, Sampling, sample_next, sample_at_least
    <3> QED
      BY <1>1, <2>6, <3>1
  <2>10. CASE SampleOne
    <3>1. reply' = reply /\ call # Idle
      BY <2>10 DEF SampleOne, SampleActive, RebaseBeforeTerminal, RebaseAfterTerminal,
                   InstallStaged, Emit, InstallThrows, Drained
    <3> QED
      BY <1>1, <2>6, <3>1 DEF SamplingForgets
  <2> QED
    BY <1>1, <2>8, <2>9, <2>10 DEF Next
<1>2. Init => SamplingForgets
  BY DEF Init, SamplingForgets
<1>3. SamplerInv /\ SamplerInv' /\ SamplingForgets /\ [Next]_vars => [Reported]_vars
  BY <1>1
<1> QED
  BY <1>2, <1>3, SamplingForgetsNext, SamplerInvariant, PTL DEF Spec, DeltaIsGrowth

-----------------------------------------------------------------------------
(* Sampling calls *)

\* sample_at_least goes on only while it is short of its target.
CallPending == call.op = "at_least" => current_time <= call.n

\* The loops of the sampling calls, once more around.
LEMMA SampleTaken ==
  ASSUME SamplerInv, SampleActive \/ RebaseBeforeTerminal \/ RebaseAfterTerminal
  PROVE  /\ call \in [op : {"next"}, n : Nat \ {0}] \cup [op : {"at_least"}, n : Nat]
         /\ call' = Continued(current_time')
         /\ emitted_sample_count' = emitted_sample_count + 1
         /\ current_time \in Nat /\ current_time' \in Nat
         /\ current_time' <= current_time + Period
<1> USE ConstantFacts
<1>1. /\ call # Idle /\ call \in Calls
      /\ current_time \in Nat /\ emitted_sample_count \in Nat
      /\ emitted_sample_count = 0 => current_time = 0
  BY DEF SamplerInv, TypeOK, Shape, SampleActive, RebaseBeforeTerminal, RebaseAfterTerminal
<1>2. /\ call' = Continued(current_time')
      /\ emitted_sample_count' = emitted_sample_count + 1
  BY DEF SampleActive, RebaseBeforeTerminal, RebaseAfterTerminal, InstallStaged, Emit
<1>3. current_time' \in Nat /\ current_time' <= current_time + Period
  <2>1. CASE SampleActive
    BY <1>1, <2>1, SampleActiveStep
  <2>2. CASE RebaseBeforeTerminal \/ RebaseAfterTerminal
    BY <1>1, <2>2, RebaseStep
  <2> QED
    BY <2>1, <2>2
<1> QED
  BY <1>1, <1>2, <1>3 DEF Calls

LEMMA CallPendingNext == SamplerInv /\ CallPending /\ [Next]_vars => CallPending'
<1> SUFFICES ASSUME SamplerInv, CallPending, [Next]_vars PROVE CallPending'
  OBVIOUS
<1>1. Idle.op = "idle"
  BY DEF Idle
<1>2. ASSUME NEW batch \in Batch, Extend(batch) PROVE CallPending'
  BY <1>1, <1>2, ExtendReturns DEF CallPending
<1>3. CASE start_staging \/ UNCHANGED vars
  BY <1>3 DEF start_staging, vars, control, CallPending
<1>4. CASE Sampling
  <2>1. ASSUME NEW n \in Demand, sample_next(n) PROVE CallPending'
    BY <2>1 DEF sample_next, CallPending
  <2>2. ASSUME NEW h \in Horizon, sample_at_least(h) PROVE CallPending'
    <3>1. current_time \in Nat /\ h \in Nat
      BY ConstantFacts DEF SamplerInv, TypeOK
    <3>2. call' = [op |-> "at_least", n |-> current_time + h] /\ current_time' = current_time
      BY <2>2 DEF sample_at_least, control
    <3> QED
      BY <3>1, <3>2 DEF CallPending
  <2> QED
    BY <1>4, <2>1, <2>2 DEF Sampling
<1>5. CASE Drained \/ InstallThrows
  BY <1>1, <1>5 DEF Drained, InstallThrows, CallPending
<1>6. CASE SampleActive \/ RebaseBeforeTerminal \/ RebaseAfterTerminal
  <2>1. CASE call \in [op : {"next"}, n : Nat \ {0}]
    <3>1. call.op = "next" /\ call' = (IF call.n = 1 THEN Idle ELSE [call EXCEPT !.n = @ - 1])
      BY <1>6, <2>1, SampleTaken DEF Continued
    <3>2. call'.op # "at_least"
      BY <1>1, <2>1, <3>1
    <3> QED
      BY <3>2 DEF CallPending
  <2>2. CASE call \in [op : {"at_least"}, n : Nat]
    <3>1. call.op = "at_least" /\ call' = (IF current_time' >= call.n THEN Idle ELSE call)
      BY <1>6, <2>2, SampleTaken DEF Continued
    <3>2. CASE current_time' >= call.n
      BY <1>1, <3>1, <3>2 DEF CallPending
    <3>3. CASE ~(current_time' >= call.n)
      <4>1. call' = call /\ call.n \in Nat /\ current_time' \in Nat
        BY <1>6, <2>2, <3>1, <3>3, SampleTaken
      <4> QED
        BY <3>3, <4>1 DEF CallPending
    <3> QED
      BY <3>2, <3>3
  <2> QED
    BY <1>6, <2>1, <2>2, SampleTaken
<1> QED
  BY <1>2, <1>3, <1>4, <1>5, <1>6 DEF Next, SampleOne

\* While samplers can be built, a sampling call comes back short only when nothing is
\* left to sample, and sample_at_least overshoots its target by at most a period
\* (sample_next, sample_at_least, sample_one_).
THEOREM CallsKeepTheirWord == ASSUME Reliable PROVE Spec => CallsReturnWhatTheyPromise
<1> DEFINE Promise ==
             \/ remaining_total_duration = 0 /\ UNCHANGED current_time
             \/ call.op = "next" /\ call.n = 1 /\ emitted_sample_count' = emitted_sample_count + 1
             \/ call.op = "at_least" /\ current_time' \in call.n..(call.n + Period)
<1>1. ASSUME SamplerInv, CallPending, Next, call.op # "idle", call' = Idle PROVE Promise
  <2> USE ConstantFacts
  <2>1. call # Idle
    BY <1>1 DEF Idle
  <2>2. CASE SampleActive \/ RebaseBeforeTerminal \/ RebaseAfterTerminal
    <3>1. CASE call \in [op : {"next"}, n : Nat \ {0}]
      <4>1. call.op = "next" /\ call' = (IF call.n = 1 THEN Idle ELSE [call EXCEPT !.n = @ - 1])
        BY <1>1, <2>2, <3>1, SampleTaken DEF Continued
      <4>2. call.n = 1
        <5>1. SUFFICES ASSUME call.n # 1 PROVE FALSE
          OBVIOUS
        <5>2. call'.op = "next"
          BY <3>1, <4>1, <5>1
        <5> QED
          BY <1>1, <5>2 DEF Idle
      <4> QED
        BY <1>1, <2>2, <4>1, <4>2, SampleTaken
    <3>2. CASE call \in [op : {"at_least"}, n : Nat]
      <4>1. /\ call.op = "at_least" /\ call.n \in Nat
            /\ call' = (IF current_time' >= call.n THEN Idle ELSE call)
        BY <1>1, <2>2, <3>2, SampleTaken DEF Continued
      <4>2. current_time' >= call.n
        BY <1>1, <2>1, <4>1
      <4>3. current_time <= call.n
        BY <1>1, <4>1 DEF CallPending
      <4>4. /\ current_time \in Nat /\ current_time' \in Nat
            /\ current_time' <= current_time + Period
        BY <1>1, <2>2, SampleTaken
      <4>5. current_time' \in call.n..(call.n + Period)
        BY <4>1, <4>2, <4>3, <4>4
      <4> QED
        BY <4>1, <4>5
    <3> QED
      BY <1>1, <2>2, <3>1, <3>2, SampleTaken
  <2>3. CASE Drained
    <3>1. ~Staged /\ Remaining(sampler) = 0 /\ UNCHANGED current_time
      BY <2>3 DEF Drained, control
    <3>2. CASE active = NoTrajectory
      BY <3>1, <3>2 DEF remaining_total_duration
    <3>3. CASE active # NoTrajectory
      <4>1. emitted_sample_count > 0
        BY <1>1, <3>1, <3>3 DEF SamplerInv, TypeOK, Shape, Remaining, Grid
      <4>2. current_time = epoch + Duration(active)
        BY <1>1, <3>1, <4>1 DEF SamplerInv, SamplerAhead
      <4>3. Duration(staging.next) = 0
        BY <3>1 DEF Staged, Duration
      <4>4. Duration(active) \in Nat /\ epoch \in Nat /\ current_time \in Nat
        BY <1>1, <3>3, EndAhead
      <4> QED
        BY <3>1, <4>2, <4>3, <4>4 DEF remaining_total_duration
    <3> QED
      BY <3>2, <3>3
  <2>4. CASE InstallThrows
    <3>1. staging.next \in Trajectory /\ ~(Installable(0) /\ Installable(Period))
      BY <1>1, <2>4, RowsFacts DEF InstallThrows, Staged
    <3> QED
      BY <3>1 DEF Installable, Reliable
  <2>5. ASSUME NEW batch \in Batch, Extend(batch) PROVE FALSE
    BY <2>1, <2>5, ExtendReturns
  <2>6. CASE start_staging \/ Sampling
    BY <2>1, <2>6 DEF start_staging, Sampling, sample_next, sample_at_least
  <2> QED
    BY <1>1, <2>2, <2>3, <2>4, <2>5, <2>6 DEF Next, SampleOne
<1>2. Init => CallPending
  BY DEF Init, CallPending, Idle
<1>3. SamplerInv /\ CallPending /\ [Next]_vars
        => [call.op # "idle" /\ call' = Idle => Promise]_vars
  BY <1>1
<1> QED
  BY <1>2, <1>3, CallPendingNext, SamplerInvariant, PTL DEF Spec, CallsReturnWhatTheyPromise

-----------------------------------------------------------------------------
(***************************************************************************)
(* The streaming session implements the abstract motion stream, for every  *)
(* set of batches and trajectories, every period and every bound: initial  *)
(* states map to initial states, and every step to a step or a stutter.    *)
(***************************************************************************)

Item == [at : Nat, motion : Trajectory]
Current == [at |-> epoch, motion |-> active]
Coming == [at |-> epoch + Duration(active), motion |-> staging.next]

\* The refinement mapping of Session.
Plan == IF active = NoTrajectory THEN past
        ELSE past \o <<Current>> \o (IF Staged THEN <<Coming>> ELSE <<>>)
Running == IF emitted_sample_count = 0 THEN 0 ELSE Len(past) + 1

\* Nothing is past before the first sample.
PastInv == emitted_sample_count = 0 => past = <<>>

-----------------------------------------------------------------------------
(* Sequences *)

LEMMA Appending ==
  ASSUME NEW S, NEW s \in Seq(S), NEW x \in S, NEW y \in S
  PROVE  /\ s \o <<x>> = Append(s, x)
         /\ Append(s, x) \in Seq(S)
         /\ Len(Append(s, x)) = Len(s) + 1
         /\ Append(s, x)[Len(s) + 1] = x
         /\ Append(s, x) # <<>>
         /\ [Append(s, x) EXCEPT ![Len(s) + 1] = y] = Append(s, y)
         /\ s \o <<>> = s
<1>1. /\ Len(s) \in Nat
      /\ Append(s, x) \in Seq(S) /\ Append(s, y) \in Seq(S)
      /\ Len(Append(s, x)) = Len(s) + 1 /\ Len(Append(s, y)) = Len(s) + 1
      /\ \A i \in 1..Len(s) : Append(s, x)[i] = s[i] /\ Append(s, y)[i] = s[i]
      /\ Append(s, x)[Len(s) + 1] = x /\ Append(s, y)[Len(s) + 1] = y
  BY AppendProperties, LenProperties
<1>2. [Append(s, x) EXCEPT ![Len(s) + 1] = y] = Append(s, y)
  <2> DEFINE f == [Append(s, x) EXCEPT ![Len(s) + 1] = y]
  <2>1. /\ f \in Seq(S) /\ Len(f) = Len(s) + 1
        /\ \A i \in 1..Len(s) + 1 : f[i] = IF i = Len(s) + 1 THEN y ELSE Append(s, x)[i]
    <3> DEFINE g == Append(s, x)
               k == Len(s) + 1
    <3>1. g \in Seq(S) /\ k \in 1..Len(g) /\ Len(g) = k
      BY <1>1
    <3> HIDE DEF g, k
    <3>2. /\ [g EXCEPT ![k] = y] \in Seq(S) /\ Len([g EXCEPT ![k] = y]) = Len(g)
          /\ \A j \in 1..Len(g) : [g EXCEPT ![k] = y][j] = IF j = k THEN y ELSE g[j]
      BY <3>1, ExceptSeq
    <3>3. f = [g EXCEPT ![k] = y]
      BY DEF f, g, k
    <3> HIDE DEF f
    <3> QED
      BY <3>1, <3>2, <3>3 DEF g, k
  <2>2. \A i \in 1..Len(s) + 1 : f[i] = Append(s, y)[i]
    <3> HIDE DEF f
    <3> QED
      BY <1>1, <2>1
  <2> HIDE DEF f
  <2>3. f = Append(s, y)
    BY <1>1, <2>1, <2>2, SeqEqual
  <2> QED
    BY <2>3 DEF f
<1>3. s \o <<x>> = Append(s, x) /\ s \o <<>> = s
  BY <1>1, ConcatEmptySeq
<1>4. Append(s, x) # <<>>
  BY <1>1, EmptySeq
<1> QED
  BY <1>1, <1>2, <1>3, <1>4

-----------------------------------------------------------------------------
(* The plan, case by case *)

LEMMA PlanFacts ==
  ASSUME SamplerInv, PastInv
  PROVE  /\ past \in Seq(Item) /\ Len(past) \in Nat
         /\ epoch \in Nat /\ current_time \in Nat /\ emitted_sample_count \in Nat
         /\ active = NoTrajectory =>
              /\ ~Staged /\ Plan = <<>> /\ Running = 0
              /\ epoch = 0 /\ current_time = 0 /\ emitted_sample_count = 0 /\ past = <<>>
         /\ active # NoTrajectory =>
              /\ active \in Trajectory /\ Current \in Item /\ Duration(active) \in Nat
              /\ Plan = IF Staged THEN Append(Append(past, Current), Coming)
                        ELSE Append(past, Current)
         /\ Staged => active # NoTrajectory /\ staging.on
                      /\ staging.next \in Trajectory /\ Coming \in Item
<1>1. /\ past \in Seq(Item) /\ Len(past) \in Nat
      /\ epoch \in Nat /\ current_time \in Nat /\ emitted_sample_count \in Nat
      /\ active \in Trajectory \cup {NoTrajectory}
      /\ staging.next \in Trajectory \cup {NoTrajectory}
  BY LenProperties DEF SamplerInv, TypeOK, Item
<1>2. Staged => active # NoTrajectory /\ staging.on /\ staging.next \in Trajectory
  BY <1>1 DEF SamplerInv, TypeOK, Shape, Staged, NotStaging
<1>3. ASSUME active = NoTrajectory
      PROVE  /\ ~Staged /\ Plan = <<>> /\ Running = 0
             /\ epoch = 0 /\ current_time = 0 /\ emitted_sample_count = 0 /\ past = <<>>
  <2>1. emitted_sample_count = 0
    BY <1>1, <1>3 DEF SamplerInv, Shape
  <2>2. past = <<>> /\ epoch = 0 /\ current_time = 0
    BY <2>1 DEF PastInv, SamplerInv, Shape
  <2> QED
    BY <1>2, <1>3, <2>1, <2>2 DEF Plan, Running
<1>4. ASSUME active # NoTrajectory
      PROVE  active \in Trajectory /\ Current \in Item /\ Duration(active) \in Nat
  <2>1. active \in Trajectory
    BY <1>1, <1>4
  <2> QED
    BY <1>1, <2>1, TrajectoryFacts DEF Current, Item
<1>5. ASSUME Staged PROVE Coming \in Item
  BY <1>1, <1>2, <1>4, <1>5 DEF Coming, Item
<1>6. ASSUME active # NoTrajectory
      PROVE  Plan = IF Staged THEN Append(Append(past, Current), Coming) ELSE Append(past, Current)
  <2>1. past \o <<Current>> = Append(past, Current) /\ Append(past, Current) \in Seq(Item)
    BY <1>1, <1>4, <1>6, Appending
  <2>2. CASE Staged
    <3>1. Append(past, Current) \o <<Coming>> = Append(Append(past, Current), Coming)
      BY <1>5, <2>1, <2>2, Appending
    <3> QED
      BY <1>6, <2>1, <2>2, <3>1 DEF Plan
  <2>3. CASE ~Staged
    <3>1. Append(past, Current) \o <<>> = Append(past, Current)
      BY <2>1, ConcatEmptySeq
    <3> QED
      BY <1>6, <2>1, <2>3, <3>1 DEF Plan
  <2> QED
    BY <2>2, <2>3
<1> QED
  BY <1>1, <1>2, <1>3, <1>4, <1>5, <1>6

\* A step that changes neither the motion nor what is staged of it stutters.
LEMMA Stutters ==
  ASSUME UNCHANGED <<active, past, epoch, staging.next, emitted_sample_count, current_time>>
  PROVE  UNCHANGED Stream!vars
BY DEF Stream!vars, Staged

\* The abstract step that a change of the plan's end stands for.
LEMMA Follows ==
  ASSUME NEW tr \in Trajectory, NEW at,
         Len(Plan) < 2 \/ Running = Len(Plan),
         at = IF Plan = <<>> THEN 0 ELSE Plan[Len(Plan)].at + Duration(Plan[Len(Plan)].motion),
         Plan = <<>> \/ Plan[Len(Plan)].motion # NoTrajectory,
         Plan' = Append(Plan, [at |-> at, motion |-> tr]),
         Running' = Running, current_time' = current_time
  PROVE  Stream!Next
<1>1. Stream!PlanEnd = at
  BY DEF Stream!PlanEnd, Stream!Ends, Plan, Current, Coming, Duration, Last
<1>2. Stream!Follow(tr)
  BY <1>1 DEF Stream!Follow, Plan, Running, Current, Coming
<1> QED
  BY <1>2 DEF Stream!Next

LEMMA Revises ==
  ASSUME NEW tr \in Trajectory, Plan # <<>>,
         Running = Len(Plan) =>
           /\ \A i \in 1..Len(Plan[Len(Plan)].motion) :
                Plan[Len(Plan)].at + Plan[Len(Plan)].motion[i].t <= current_time =>
                  i <= Len(tr) /\ tr[i] = Plan[Len(Plan)].motion[i]
           /\ current_time + Period < Plan[Len(Plan)].at + tr[Len(tr)].t,
         Plan' = [Plan EXCEPT ![Len(Plan)] = [Plan[Len(Plan)] EXCEPT !.motion = tr]],
         Running' = Running, current_time' = current_time
  PROVE  Stream!Next
<1>1. Stream!Revise(tr)
  BY DEF Stream!Revise, Stream!Keeps, Plan, Running, Current, Coming
<1> QED
  BY <1>1 DEF Stream!Next

-----------------------------------------------------------------------------
(* The steps *)

\* The first build makes the plan's first motion.
LEMMA FirstBuildFollows ==
  ASSUME SamplerInv, PastInv, NEW batch \in Batch, FirstBuild(batch)
  PROVE  Stream!Next
<1>1. /\ active = NoTrajectory
      /\ UNCHANGED <<epoch, current_time, emitted_sample_count, staging, past>>
  BY DEF FirstBuild, FirstBatch
<1>2. PICK tr \in Trajectory : active' = tr
  BY DEF FirstBuild, Builds
<1>3. /\ Plan = <<>> /\ Running = 0 /\ epoch = 0 /\ past = <<>> /\ ~Staged
      /\ emitted_sample_count = 0
  BY <1>1, PlanFacts
<1>4. Plan' = Append(Plan, [at |-> 0, motion |-> tr])
  <2>1. tr # NoTrajectory /\ ~Staged'
    BY <1>1, <1>3, TrajectoryFacts DEF Staged
  <2>2. Plan' = <<>> \o <<[at |-> 0, motion |-> tr]>> \o <<>>
    BY <1>1, <1>2, <1>3, <2>1 DEF Plan, Current
  <2>3. <<[at |-> 0, motion |-> tr]>> \in Seq(Item)
    BY DEF Item
  <2> QED
    BY <1>3, <2>2, <2>3, ConcatEmptySeq
<1>5. Running' = 0 /\ Len(Plan) = 0
  BY <1>1, <1>3 DEF Running
<1> QED
  BY <1>1, <1>3, <1>4, <1>5, Follows

\* A batch that is staged joins the plan, or revises what waits there.
LEMMA StageRefines ==
  ASSUME SamplerInv, PastInv, active # NoTrajectory, NEW batch \in Batch, NEW tr \in Trajectory,
         Stage(batch, tr)
  PROVE  Stream!Next
<1>1. /\ staging'.next = tr
      /\ UNCHANGED <<active, epoch, current_time, emitted_sample_count, past>>
  BY DEF Stage
<1>2. /\ past \in Seq(Item) /\ Len(past) \in Nat /\ emitted_sample_count \in Nat
      /\ active \in Trajectory /\ Current \in Item /\ Duration(active) \in Nat
      /\ Plan = IF Staged THEN Append(Append(past, Current), Coming) ELSE Append(past, Current)
      /\ Staged => Coming \in Item
  BY PlanFacts
<1> DEFINE next == [at |-> epoch + Duration(active), motion |-> tr]
<1>3. next \in Item /\ Append(past, Current) \in Seq(Item)
      /\ Len(Append(past, Current)) = Len(past) + 1
      /\ Append(past, Current)[Len(past) + 1] = Current /\ Append(past, Current) # <<>>
  <2>1. epoch \in Nat
    BY PlanFacts
  <2>2. next \in Item
    BY <1>2, <2>1 DEF Item
  <2> HIDE DEF next
  <2> QED
    BY <1>2, <2>2, Appending
<1>4. Plan' = Append(Append(past, Current), next)
  <2>1. Staged' /\ active' # NoTrajectory /\ Current' = Current /\ Coming' = next
    BY <1>1, TrajectoryFacts DEF Staged, Current, Coming
  <2>2. Plan' = past \o <<Current>> \o <<next>>
    BY <1>1, <2>1 DEF Plan
  <2> HIDE DEF next
  <2>3. past \o <<Current>> = Append(past, Current)
    BY <1>2, Appending
  <2>4. Append(past, Current) \o <<next>> = Append(Append(past, Current), next)
    BY <1>3, Appending
  <2> QED
    BY <2>2, <2>3, <2>4
<1>5. Running' = Running /\ current_time' = current_time
  BY <1>1 DEF Running
<1>6. CASE ~Staged
  <2>1. Plan = Append(past, Current) /\ Plan[Len(Plan)] = Current /\ Plan # <<>>
    BY <1>2, <1>3, <1>6
  <2>2. Len(Plan) < 2 \/ Running = Len(Plan)
    <3>1. CASE emitted_sample_count = 0
      BY <1>2, <1>3, <2>1, <3>1, EmptySeq DEF PastInv
    <3>2. CASE emitted_sample_count # 0
      BY <1>3, <2>1, <3>2 DEF Running
    <3> QED
      BY <3>1, <3>2
  <2>3. Current.at = epoch /\ Current.motion = active
    BY DEF Current
  <2>4. Plan' = Append(Plan, next)
    BY <1>4, <2>1
  <2> QED
    BY <1>5, <2>1, <2>2, <2>3, <2>4, Follows
<1>7. CASE Staged
  <2>1. /\ Plan = Append(Append(past, Current), Coming)
        /\ Len(Plan) = Len(past) + 2 /\ Plan[Len(Plan)] = Coming /\ Plan # <<>>
        /\ [Plan EXCEPT ![Len(Plan)] = next] = Append(Append(past, Current), next)
    <3> DEFINE rows == Append(past, Current)
    <3>1. /\ Len(Append(rows, Coming)) = Len(rows) + 1
          /\ Append(rows, Coming)[Len(rows) + 1] = Coming /\ Append(rows, Coming) # <<>>
          /\ [Append(rows, Coming) EXCEPT ![Len(rows) + 1] = next] = Append(rows, next)
      <4>1. rows \in Seq(Item) /\ next \in Item /\ Coming \in Item
        BY <1>2, <1>3, <1>7
      <4> HIDE DEF rows, next
      <4> QED
        BY <4>1, Appending
    <3>2. Plan = Append(rows, Coming) /\ Len(rows) + 1 = Len(past) + 2
      BY <1>2, <1>3, <1>7
    <3> HIDE DEF rows, next
    <3>3. Plan = Append(Append(past, Current), Coming)
      BY <3>2 DEF rows
    <3> QED
      BY <3>1, <3>2, <3>3 DEF rows
  <2>2. [Plan[Len(Plan)] EXCEPT !.motion = tr] = next
    BY <2>1 DEF Coming
  <2>3. Running # Len(Plan)
    BY <1>2, <2>1 DEF Running
  <2>4. Plan' = [Plan EXCEPT ![Len(Plan)] = [Plan[Len(Plan)] EXCEPT !.motion = tr]]
    BY <1>4, <2>1, <2>2
  <2> QED
    BY <1>5, <2>1, <2>3, <2>4, Revises
<1> QED
  BY <1>6, <1>7

\* A pivot revises the last motion of the plan.
LEMMA PivotRefines ==
  ASSUME SamplerInv, PastInv, NEW batch \in Batch, NEW candidate \in Trajectory,
         Pivot(batch, candidate)
  PROVE  Stream!Next
<1>1. /\ active # NoTrajectory /\ ~staging.on
      /\ BranchAhead(candidate) /\ Samplable(candidate)
      /\ active' = candidate
      /\ UNCHANGED <<epoch, current_time, emitted_sample_count, staging, past>>
  BY DEF Pivot, Candidate, SeamedBatch
<1>2. /\ past \in Seq(Item) /\ Len(past) \in Nat /\ emitted_sample_count \in Nat
      /\ epoch \in Nat /\ current_time \in Nat /\ ~Staged
      /\ active \in Trajectory /\ Current \in Item /\ Plan = Append(past, Current)
  BY <1>1, PlanFacts
<1> DEFINE next == [at |-> epoch, motion |-> candidate]
<1>3. Plan' = Append(past, next)
  <2>1. ~Staged' /\ active' # NoTrajectory /\ Current' = next
    BY <1>1, <1>2, TrajectoryFacts DEF Staged, Current
  <2>2. Plan' = past \o <<next>> \o <<>>
    BY <1>1, <2>1 DEF Plan
  <2>3. next \in Item
    BY <1>2 DEF Item
  <2> HIDE DEF next
  <2>4. past \o <<next>> = Append(past, next) /\ Append(past, next) \in Seq(Item)
    BY <1>2, <2>3, Appending
  <2> QED
    BY <2>2, <2>4, ConcatEmptySeq
<1>4. /\ Len(Plan) = Len(past) + 1 /\ Plan[Len(Plan)] = Current /\ Plan # <<>>
      /\ [Plan EXCEPT ![Len(Plan)] = next] = Append(past, next)
  <2>1. next \in Item
    BY <1>2 DEF Item
  <2> HIDE DEF next
  <2> QED
    BY <1>2, <2>1, Appending
<1>5. [Plan[Len(Plan)] EXCEPT !.motion = candidate] = next
  BY <1>4 DEF Current
<1>6. ASSUME Running = Len(Plan)
      PROVE  /\ \A i \in 1..Len(active) :
                  epoch + active[i].t <= current_time => i <= Len(candidate) /\ candidate[i] = active[i]
             /\ current_time + Period < epoch + candidate[Len(candidate)].t
  <2>1. emitted_sample_count # 0
    BY <1>2, <1>4, <1>6 DEF Running
  <2>2. /\ find_branch_local_time(active, candidate) \in Nat
        /\ \A i \in 1..Len(active) :
             active[i].t < find_branch_local_time(active, candidate) =>
               i <= Len(candidate) /\ candidate[i] = active[i]
    BY <1>2, BranchKeepsPrefix
  <2>3. epoch + find_branch_local_time(active, candidate) - current_time > 0
    BY <1>1, <2>1 DEF BranchAhead, BranchSlack
  <2>4. \A i \in 1..Len(active) : active[i].t \in Nat
    BY <1>2, TrajectoryFacts
  <2>5. (current_time - epoch) + Period < Duration(candidate)
    BY <1>1, <2>1 DEF Samplable, StartingLocalTime
  <2>6. Duration(candidate) = candidate[Len(candidate)].t /\ Duration(candidate) \in Nat /\ Period \in Nat
    <3>1. Len(candidate) \in 1..Len(candidate)
      BY TrajectoryFacts
    <3> QED
      BY <3>1, TrajectoryFacts, ConstantFacts
  <2>7. current_time + Period < epoch + candidate[Len(candidate)].t
    BY <1>2, <2>5, <2>6
  <2>8. ASSUME NEW i \in 1..Len(active), epoch + active[i].t <= current_time
        PROVE  i <= Len(candidate) /\ candidate[i] = active[i]
    <3>1. active[i].t < find_branch_local_time(active, candidate)
      BY <1>2, <2>2, <2>3, <2>4, <2>8
    <3> QED
      BY <2>2, <3>1
  <2> QED
    BY <2>7, <2>8
<1>7. Current.at = epoch /\ Current.motion = active
  BY DEF Current
<1>8. Running' = Running /\ current_time' = current_time
  BY <1>1 DEF Running
<1>9. Plan' = [Plan EXCEPT ![Len(Plan)] = [Plan[Len(Plan)] EXCEPT !.motion = candidate]]
  BY <1>3, <1>4, <1>5
<1> QED
  BY <1>4, <1>6, <1>7, <1>8, <1>9, Revises

\* A sample of the active trajectory begins the stream or goes on within its motion.
LEMMA SampleActiveRefines ==
  ASSUME SamplerInv, PastInv, SampleActive
  PROVE  Stream!Next
<1>1. /\ call # Idle /\ Emit(sampler, active, epoch, sampled)
      /\ sampler.next < sampler.count
      /\ UNCHANGED <<active, epoch, staging, past>>
  <2>1. sampler \in [start : Nat, count : Nat, next : Nat]
    BY DEF SamplerInv, TypeOK
  <2> QED
    BY <2>1 DEF SampleActive, Remaining
<1>2. active # NoTrajectory
  <2>1. sampler.count # 0
    <3>1. sampler \in [start : Nat, count : Nat, next : Nat]
      BY DEF SamplerInv, TypeOK
    <3> QED
      BY <1>1, <3>1
  <2> QED
    BY <2>1 DEF SamplerInv, TypeOK
<1>3. /\ past \in Seq(Item) /\ Len(past) \in Nat /\ emitted_sample_count \in Nat
      /\ epoch \in Nat /\ current_time \in Nat
      /\ active \in Trajectory /\ Current \in Item /\ Duration(active) \in Nat
      /\ Plan = IF Staged THEN Append(Append(past, Current), Coming) ELSE Append(past, Current)
      /\ Staged => Coming \in Item
  BY <1>2, PlanFacts
<1>4. Plan' = Plan /\ emitted_sample_count' = emitted_sample_count + 1
  BY <1>1 DEF Plan, Current, Coming, Staged, Emit
<1>5. /\ IF emitted_sample_count = 0 THEN current_time' = 0
         ELSE current_time' \in (current_time + 1)..(current_time + Period)
      /\ current_time' <= epoch + Duration(active)
  <2>1. Grid(sampler, active)
    BY <1>2 DEF SamplerInv, Shape
  <2>2. SampleTime(sampler, active) \in Nat /\ SampleTime(sampler, active) <= Duration(active)
    BY <1>1, <1>3, <2>1, GridSample
  <2>3. current_time' = epoch + SampleTime(sampler, active)
    BY <1>1 DEF Emit
  <2> QED
    BY <1>3, <2>2, <2>3, SampleActiveStep
<1>6. /\ Len(Plan) >= Len(past) + 1 /\ Plan # <<>> /\ Plan[Len(past) + 1] = Current
  <2>1. /\ Append(past, Current) \in Seq(Item) /\ Len(Append(past, Current)) = Len(past) + 1
        /\ Append(past, Current)[Len(past) + 1] = Current /\ Append(past, Current) # <<>>
    BY <1>3, Appending
  <2>2. CASE ~Staged
    BY <1>3, <2>1, <2>2
  <2>3. CASE Staged
    <3>1. /\ Len(Append(Append(past, Current), Coming)) = Len(past) + 2
          /\ Append(Append(past, Current), Coming) # <<>>
      <4> DEFINE rows == Append(past, Current)
      <4>1. rows \in Seq(Item) /\ Coming \in Item /\ Len(rows) = Len(past) + 1
        BY <1>3, <2>1, <2>3
      <4> HIDE DEF rows
      <4>2. Len(Append(rows, Coming)) = Len(past) + 2 /\ Append(rows, Coming) # <<>>
        BY <1>3, <4>1, Appending
      <4> QED
        BY <4>2 DEF rows
    <3>2. Append(Append(past, Current), Coming)[Len(past) + 1] = Append(past, Current)[Len(past) + 1]
      <4>1. Len(past) + 1 \in 1..Len(Append(past, Current))
        BY <1>3, <2>1
      <4> QED
        BY <1>3, <2>1, <2>3, <4>1, AppendProperties
    <3> QED
      BY <1>3, <2>1, <2>3, <3>1, <3>2
  <2> QED
    BY <2>2, <2>3
<1>7. Current.at + Current.motion[Len(Current.motion)].t = epoch + Duration(active)
  BY <1>3, TrajectoryFacts DEF Current
<1>8. CASE emitted_sample_count = 0
  <2>1. past = <<>> /\ Running' = 1 /\ Running = 0
    BY <1>1, <1>3, <1>4, <1>8, EmptySeq DEF PastInv, Running
  <2>2. Stream!Begin
    BY <1>4, <1>5, <1>6, <1>8, <2>1 DEF Stream!Begin, Plan, Running, Current, Coming
  <2> QED
    BY <2>2 DEF Stream!Next
<1>9. CASE emitted_sample_count # 0
  <2>1. Running = Len(past) + 1 /\ Running' = Running /\ Running > 0
    BY <1>1, <1>3, <1>4, <1>9 DEF Running
  <2>2. Stream!Sample
    <3>1. Plan[Running].at + Plan[Running].motion[Len(Plan[Running].motion)].t = epoch + Duration(active)
      BY <1>6, <1>7, <2>1
    <3> QED
      BY <1>4, <1>5, <1>9, <2>1, <3>1
         DEF Stream!Sample, Stream!Ends, Plan, Running, Current, Coming
  <2> QED
    BY <2>2 DEF Stream!Next
<1> QED
  BY <1>8, <1>9

\* A rebase is the first sample of the plan's next motion.
LEMMA RebaseRefines ==
  ASSUME SamplerInv, PastInv, RebaseBeforeTerminal \/ RebaseAfterTerminal
  PROVE  Stream!Next
<1>1. PICK start \in Nat : /\ call # Idle /\ Staged /\ InstallStaged(start)
                           /\ start = 0 \/ (start = Period /\ Remaining(sampler) = 0)
  BY ConstantFacts DEF RebaseBeforeTerminal, RebaseAfterTerminal
<1>2. /\ past \in Seq(Item) /\ Len(past) \in Nat /\ emitted_sample_count \in Nat
      /\ epoch \in Nat /\ current_time \in Nat
      /\ active \in Trajectory /\ Current \in Item /\ Duration(active) \in Nat
      /\ staging.next \in Trajectory /\ Coming \in Item
      /\ Plan = Append(Append(past, Current), Coming)
  BY <1>1, PlanFacts
<1>3. /\ active' = staging.next
      /\ epoch' = epoch + Duration(active)
      /\ staging' = NotStaging
      /\ past' = Append(past, Current)
      /\ emitted_sample_count' = emitted_sample_count + 1
  BY <1>1 DEF InstallStaged, Emit, Current
<1> DEFINE rows == Append(past, Current)
<1>4. rows \in Seq(Item) /\ Len(rows) = Len(past) + 1
  BY <1>2, Appending
<1>5. /\ Plan = Append(rows, Coming) /\ past' = rows
  BY <1>2, <1>3
<1> HIDE DEF rows
<1>6. /\ rows \o <<Coming>> = Append(rows, Coming) /\ Append(rows, Coming) \in Seq(Item)
      /\ Len(Append(rows, Coming)) = Len(rows) + 1 /\ Append(rows, Coming)[Len(rows) + 1] = Coming
  BY <1>2, <1>4, Appending
<1>7. Plan' = Plan
  <2>1. ~Staged' /\ active' # NoTrajectory /\ Current' = Coming
    BY <1>2, <1>3, TrajectoryFacts DEF Staged, NotStaging, Current, Coming
  <2>2. Plan' = rows \o <<Coming>> \o <<>>
    BY <1>5, <2>1 DEF Plan
  <2> QED
    BY <1>5, <1>6, <2>2, ConcatEmptySeq
<1>8. /\ emitted_sample_count > 0
      /\ current_time' \in (current_time + 1)..(current_time + Period)
  BY RebaseStep
<1>9. Running = Len(past) + 1 /\ Running' = Len(past) + 2 /\ Len(Plan) = Len(past) + 2
  <2>1. Running = Len(past) + 1
    BY <1>8 DEF Running
  <2>2. Running' = Len(rows) + 1
    BY <1>2, <1>3, <1>5 DEF Running
  <2> QED
    BY <1>2, <1>4, <1>5, <1>6, <2>1, <2>2
<1>10. Plan[Running'] = Coming
  BY <1>2, <1>4, <1>5, <1>6, <1>9
<1>11. current_time' = epoch + Duration(active)
                         + (IF start < Duration(staging.next) THEN start ELSE Duration(staging.next))
  BY <1>1, InstallStep
<1>12. /\ Duration(staging.next) \in Nat \ {0}
       /\ Coming.motion[Len(Coming.motion)].t = Duration(staging.next)
       /\ Coming.at = epoch + Duration(active)
  BY <1>2, TrajectoryFacts DEF Coming
<1>13. current_time' <= Coming.at + Coming.motion[Len(Coming.motion)].t
  BY <1>1, <1>2, <1>11, <1>12
<1>14. current_time < Coming.at => current_time' = Coming.at
  <2>1. CASE start = 0
    BY <1>2, <1>11, <1>12, <2>1
  <2>2. CASE start # 0
    <3>1. current_time = epoch + Duration(active)
      BY <1>1, <1>8, <2>2 DEF SamplerInv, SamplerAhead
    <3> QED
      BY <1>2, <1>12, <3>1
  <2> QED
    BY <2>1, <2>2
<1>15. Stream!Cross
  <2>1. Running > 0 /\ Running < Len(Plan) /\ Running' = Running + 1
    BY <1>2, <1>9
  <2> QED
    BY <1>7, <1>8, <1>10, <1>13, <1>14, <2>1
       DEF Stream!Cross, Stream!Ends, Plan, Running, Current, Coming
<1> QED
  BY <1>15 DEF Stream!Next

\* Extends that throw or have nothing to add, and calls that begin, end or fail.
LEMMA QuietRefines ==
  ASSUME SamplerInv,
         \/ \E batch \in Batch :
              \/ ExtendRefused(batch) \/ FirstBuildFails(batch) \/ FirstSamplerThrows(batch)
              \/ ExtendNoop(batch) \/ StageAgainFails(batch) \/ CandidateFails(batch)
              \/ AppendFails(batch)
              \/ \E c \in Trajectory : PivotSamplerThrows(batch, c) \/ StageFirstFails(batch, c)
         \/ start_staging
         \/ Sampling
         \/ Drained
         \/ InstallThrows
         \/ UNCHANGED vars
  PROVE  UNCHANGED Stream!vars /\ (PastInv => PastInv')
<1>1. staging \in [on : BOOLEAN, waypoints : Seq(Waypoint), next : Trajectory \cup {NoTrajectory}]
  BY DEF SamplerInv, TypeOK
<1> DEFINE Still == UNCHANGED <<active, past, epoch, staging.next, emitted_sample_count, current_time>>
<1>2. ASSUME NEW batch \in Batch,
             \/ ExtendRefused(batch) \/ FirstBuildFails(batch) \/ FirstSamplerThrows(batch)
             \/ ExtendNoop(batch) \/ CandidateFails(batch)
             \/ \E c \in Trajectory : PivotSamplerThrows(batch, c) \/ StageFirstFails(batch, c)
      PROVE  Still
  BY <1>2 DEF ExtendRefused, FirstBuildFails, FirstSamplerThrows, ExtendNoop, CandidateFails,
              PivotSamplerThrows, StageFirstFails, Throw, control, history
<1>3. ASSUME NEW batch \in Batch, StageAgainFails(batch) PROVE Still
  BY <1>1, <1>3 DEF StageAgainFails, StageFails, Throw, control, history
<1>4. ASSUME NEW batch \in Batch, AppendFails(batch) PROVE Still
  BY <1>1, <1>4 DEF AppendFails, Throw, control, history
<1>5. ASSUME start_staging PROVE Still
  <2>1. staging' = [staging EXCEPT !.on = TRUE] \/ staging' = staging
    BY <1>5 DEF start_staging
  <2>2. staging'.next = staging.next
    BY <1>1, <2>1
  <2> QED
    BY <1>5, <2>2 DEF start_staging, control, history
<1>6. ASSUME Sampling PROVE Still
  <2>1. UNCHANGED <<staging, control, history>>
    BY <1>6 DEF Sampling, sample_next, sample_at_least
  <2> QED
    BY <2>1 DEF control, history
<1>7. ASSUME Drained \/ InstallThrows \/ UNCHANGED vars PROVE Still
  <2>1. UNCHANGED <<staging, control, history>>
    BY <1>7 DEF Drained, InstallThrows, vars
  <2> QED
    BY <2>1 DEF control, history
<1> HIDE DEF Still
<1>8. Still
  BY <1>2, <1>3, <1>4, <1>5, <1>6, <1>7
<1> QED
  BY <1>8, Stutters DEF Still, PastInv

\* Every step of the session is a step of the stream, or none.
LEMMA StepRefines ==
  SamplerInv /\ PastInv /\ [Next]_vars => PastInv' /\ [Stream!Next]_(Stream!vars)
<1> SUFFICES ASSUME SamplerInv, PastInv, [Next]_vars
             PROVE  PastInv' /\ [Stream!Next]_(Stream!vars)
  OBVIOUS
<1>1. ASSUME NEW batch \in Batch, Extend(batch)
      PROVE  PastInv' /\ [Stream!Next]_(Stream!vars)
  <2>1. CASE \/ ExtendRefused(batch) \/ FirstBuildFails(batch) \/ FirstSamplerThrows(batch)
             \/ ExtendNoop(batch) \/ StageAgainFails(batch) \/ CandidateFails(batch)
             \/ AppendFails(batch)
             \/ \E c \in Trajectory : PivotSamplerThrows(batch, c) \/ StageFirstFails(batch, c)
    BY <2>1, QuietRefines
  <2>2. CASE FirstBuild(batch)
    <3>1. PastInv'
      BY <2>2 DEF FirstBuild, PastInv
    <3> QED
      BY <2>2, <3>1, FirstBuildFollows
  <2>3. CASE StageAgain(batch)
    <3>1. PICK tr \in Trajectory : Stage(batch, tr)
      BY <2>3 DEF StageAgain, Builds
    <3>2. active # NoTrajectory
      BY <2>3 DEF StageAgain, SeamedBatch
    <3>3. PastInv'
      BY <3>1 DEF Stage, PastInv
    <3> QED
      BY <3>1, <3>2, <3>3, StageRefines
  <2>4. ASSUME NEW c \in Trajectory, StageFirst(batch, c)
        PROVE  PastInv' /\ [Stream!Next]_(Stream!vars)
    <3>1. PICK tr \in Trajectory : Stage(batch, tr)
      BY <2>4 DEF StageFirst, Builds
    <3>2. active # NoTrajectory
      BY <2>4 DEF StageFirst, Candidate, SeamedBatch
    <3>3. PastInv'
      BY <3>1 DEF Stage, PastInv
    <3> QED
      BY <3>1, <3>2, <3>3, StageRefines
  <2>5. ASSUME NEW c \in Trajectory, Pivot(batch, c)
        PROVE  PastInv' /\ [Stream!Next]_(Stream!vars)
    <3>1. PastInv'
      BY <2>5 DEF Pivot, PastInv
    <3> QED
      BY <2>5, <3>1, PivotRefines
  <2> QED
    BY <1>1, <2>1, <2>2, <2>3, <2>4, <2>5 DEF Extend
<1>2. CASE start_staging \/ Sampling \/ Drained \/ InstallThrows \/ UNCHANGED vars
  BY <1>2, QuietRefines
<1>3. CASE SampleActive
  <2>1. emitted_sample_count \in Nat /\ emitted_sample_count' = emitted_sample_count + 1
    BY <1>3 DEF SamplerInv, TypeOK, SampleActive, Emit
  <2>2. PastInv'
    BY <2>1 DEF PastInv
  <2> QED
    BY <1>3, <2>2, SampleActiveRefines
<1>4. CASE RebaseBeforeTerminal \/ RebaseAfterTerminal
  <2>1. emitted_sample_count \in Nat /\ emitted_sample_count' = emitted_sample_count + 1
    BY <1>4 DEF SamplerInv, TypeOK, RebaseBeforeTerminal, RebaseAfterTerminal, InstallStaged, Emit
  <2>2. PastInv'
    BY <2>1 DEF PastInv
  <2> QED
    BY <1>4, <2>2, RebaseRefines
<1> QED
  BY <1>1, <1>2, <1>3, <1>4 DEF Next, SampleOne

\* The streaming session implements the motion stream (extend, sample_one_ and
\* install_staged_ against what they promise together): each motion of the plan starts
\* where its predecessor ends, at most one waits, a motion being sampled is only replaced
\* by one that keeps what was sampled, and samples go through the plan in order.
THEOREM ImplementsStream == Spec => StreamSpec
<1>1. Init => Stream!Init /\ PastInv
  BY DEF Init, Stream!Init, PastInv
<1> QED
  BY <1>1, StepRefines, SamplerInvariant, PTL DEF Spec, StreamSpec, Stream!Spec

=============================================================================
