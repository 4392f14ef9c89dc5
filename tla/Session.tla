------------------------------- MODULE Session -------------------------------
(***************************************************************************)
(* The streaming session of totg/streaming/session.{hpp,cpp}: a caller     *)
(* extends a motion with batches of waypoints while it pulls samples of    *)
(* the motion planned so far.  A batch either replaces the active          *)
(* trajectory (a pivot) or joins staged motion that follows it (a rebase   *)
(* hands over when the active trajectory runs out).                        *)
(*                                                                         *)
(* Abstractions.  Time is counted in ticks.  A trajectory is the sequence  *)
(* of its integration points, a point being a time and the kinematic state *)
(* (s, s_dot, s_ddot) that holds from that time on, a model value.         *)
(* build_trajectory_from_ returns any trajectory or throws.  A waypoint is *)
(* a model value, compared as the code compares rows: bit for bit.  Memory *)
(* may run out in an append, and nowhere else.                             *)
(***************************************************************************)
EXTENDS Integers, Sequences

CONSTANTS
  Waypoint,      \* configurations a batch may carry
  Dof,           \* Dof[w]: number of joints of w
  Batch,         \* waypoint sequences a caller may pass to extend
  Motion,        \* kinematic states of integration points
  Trajectory,    \* trajectories that trajectory::create may return
  Period,        \* sample period, in ticks
  MaxCount,      \* largest sample count quantized_for_trajectory accepts
  Exhausts,      \* whether memory may run out
  Demand,        \* arguments of sample_next
  Horizon,       \* arguments of sample_at_least
  MaxAccepted    \* bound: waypoints accepted over a session's life

IsTrajectory(tr) ==
  /\ tr \in Seq([t : Nat, m : Motion])
  /\ Len(tr) >= 2
  /\ tr[1].t = 0
  /\ \A i, j \in 1..Len(tr) : i < j => tr[i].t < tr[j].t

ASSUME SessionAssumption ==
  /\ Batch \subseteq Seq(Waypoint)
  /\ Dof \in [Waypoint -> Nat]
  /\ \A tr \in Trajectory : IsTrajectory(tr)
  /\ Period \in Nat \ {0}
  /\ MaxCount \in Nat
  /\ Exhausts \in BOOLEAN
  /\ Demand \subseteq Nat \ {0}
  /\ Horizon \subseteq Nat
  /\ MaxAccepted \in Nat

VARIABLES
  waypoints,            \* waypoints_: rows that built the active trajectory
  active,               \* active_: NoTrajectory before the first extend
  sampler,              \* sampler_: grid over [start, duration] of active
  epoch,                \* epoch_: global time of active's local zero
  current_time,         \* current_time_: global time of the last sample
  emitted_sample_count, \* emitted_sample_count_
  staging,              \* staging_: on, its waypoints, the staged trajectory
  last_waypoint,        \* last_waypoint_: <<w>>, or <<>> before the first extend
  generation_count,     \* generation_count_
  call,                 \* the sampling call in progress, if any
  reply,                \* what the latest extend returned, until the next call
  \* History variables: no action reads them.
  accepted,             \* waypoints of the accepted batches, seams merged
  retired,              \* waypoints of past active trajectories, ends excluded
  past,                 \* past active trajectories with their epochs
  sampled               \* samples of active: local time and governing point

control == <<active, sampler, epoch, current_time, emitted_sample_count,
             last_waypoint, generation_count>>
history == <<accepted, retired, past, sampled>>
vars == <<waypoints, staging, control, call, reply, history>>

NoTrajectory == <<>>
NotStaging == [on |-> FALSE, waypoints |-> <<>>, next |-> NoTrajectory]
Idle == [op |-> "idle", n |-> 0]
NoReply == [kind |-> "none", slack |-> 0, delta |-> 0]
Threw == [kind |-> "threw", slack |-> 0, delta |-> 0]

-----------------------------------------------------------------------------
(* Trajectories and the uniform sampler. *)

Last(s) == s[Len(s)]
Front(s) == SubSeq(s, 1, Len(s) - 1)

\* The time of the last integration point; nothing lasts no time.
Duration(tr) == IF tr = NoTrajectory THEN 0 ELSE Last(tr).t

\* The integration point that governs local time t: cursor::seek keeps the last
\* one whose time is not after t, and cursor::sample extrapolates from it.
Governing(tr, t) ==
  tr[CHOOSE i \in 1..Len(tr) :
       /\ tr[i].t <= t
       /\ \A j \in 1..Len(tr) : tr[j].t <= t => j <= i]

\* Indexes of e at which the lockstep walk over the integration points differs.
Mismatches(e, c) == {i \in 1..Len(e) : i > Len(c) \/ e[i] # c[i]}

find_branch_local_time(e, c) ==
  IF Mismatches(e, c) = {}
    THEN Duration(e)
    ELSE e[CHOOSE i \in Mismatches(e, c) : \A j \in Mismatches(e, c) : i <= j].t

\* calculate_quantized_samples: one more than the span over the period, rounded up.
quantized_samples(span) == (span + Period - 1) \div Period + 1

Representable(tr, start) == quantized_samples(Duration(tr) - start) <= MaxCount

quantized_for_trajectory(tr, start) ==
  [start |-> start, count |-> quantized_samples(Duration(tr) - start), next |-> 0]

\* The one-sample grid that lands on the trajectory's end.
TerminalOnly == [start |-> 0, count |-> 1, next |-> 0]

Remaining(s) == s.count - s.next

\* linspace over [start, duration], the last sample exactly at the duration.
SampleTime(s, tr) ==
  IF s.next = s.count - 1
    THEN Duration(tr)
    ELSE s.start + (s.next * (Duration(tr) - s.start)) \div (s.count - 1)

-----------------------------------------------------------------------------
Init ==
  /\ waypoints = <<>>
  /\ active = NoTrajectory
  /\ sampler = [start |-> 0, count |-> 0, next |-> 0]
  /\ epoch = 0
  /\ current_time = 0
  /\ emitted_sample_count = 0
  /\ staging = NotStaging
  /\ last_waypoint = <<>>
  /\ generation_count = 0
  /\ call = Idle
  /\ reply = NoReply
  /\ accepted = <<>>
  /\ retired = <<>>
  /\ past = <<>>
  /\ sampled = {}

\* What build_trajectory_from_ may return; path::create wants two waypoints.
Builds(rows) == {NoTrajectory} \cup (IF Len(rows) >= 2 THEN Trajectory ELSE {})

\* Fault: the seam is stored twice.
AppendedWithSeam(rows, batch) == rows \o batch

\* waypoint_store::append past the seam, and truncate.
Appended(rows, batch) == rows \o Tail(batch)
Truncated(rows, count) == SubSeq(rows, 1, count)

remaining_active_duration ==
  LET end == epoch + Duration(active) IN
  IF active = NoTrajectory \/ end <= current_time THEN 0 ELSE end - current_time

remaining_total_duration ==
  LET end == epoch + Duration(active) + Duration(staging.next) IN
  IF active = NoTrajectory \/ end <= current_time THEN 0 ELSE end - current_time

-----------------------------------------------------------------------------
(* extend *)

Throw == reply' = Threw /\ UNCHANGED <<control, call, history>>

\* A batch is as wide as its first row, and so is the store.
SameDof(batch) == waypoints # <<>> => Dof[batch[1]] = Dof[waypoints[1]]

\* An empty batch, one of another DOF, or one that does not start at the seam.
ExtendRefused(batch) ==
  /\ call = Idle
  /\ \/ batch = <<>>
     \/ batch # <<>> /\ ~SameDof(batch)
     \/ batch # <<>> /\ active # NoTrajectory /\ <<batch[1]>> # last_waypoint
  /\ Throw
  /\ UNCHANGED <<waypoints, staging>>

FirstBatch(batch) ==
  /\ call = Idle
  /\ active = NoTrajectory
  /\ batch # <<>>
  /\ SameDof(batch)
  /\ Len(waypoints) + Len(batch) <= MaxAccepted

\* The first extend; with nothing built, the store is emptied again.
FirstBuild(batch) ==
  /\ FirstBatch(batch)
  /\ \E tr \in Builds(waypoints \o batch) \ {NoTrajectory} :
       /\ Representable(tr, 0)
       /\ waypoints' = waypoints \o batch
       /\ active' = tr
       /\ sampler' = quantized_for_trajectory(tr, 0)
       /\ last_waypoint' = <<Last(waypoints')>>
       /\ generation_count' = 1
       /\ reply' = [kind |-> "first_build", slack |-> 0, delta |-> Duration(tr)]
  /\ accepted' = accepted \o batch
  /\ UNCHANGED <<epoch, current_time, emitted_sample_count, staging, call,
                 retired, past, sampled>>

FirstBuildFails(batch) ==
  /\ FirstBatch(batch)
  /\ NoTrajectory \in Builds(waypoints \o batch)
  /\ waypoints' = Truncated(waypoints \o batch, 0)
  /\ Throw
  /\ UNCHANGED staging

\* quantized_for_trajectory throws after the store has been appended to.
FirstSamplerThrows(batch) ==
  /\ FirstBatch(batch)
  /\ \E tr \in Builds(waypoints \o batch) \ {NoTrajectory} : ~Representable(tr, 0)
  /\ waypoints' = waypoints \o batch
  /\ Throw
  /\ UNCHANGED staging

\* A later batch that passed the DOF and seam checks and carries new waypoints.
SeamedBatch(batch) ==
  /\ call = Idle
  /\ active # NoTrajectory
  /\ batch # <<>>
  /\ SameDof(batch)
  /\ <<batch[1]>> = last_waypoint
  /\ Len(accepted) + Len(batch) - 1 <= MaxAccepted
  /\ Len(waypoints) + Len(batch) - 1 <= MaxAccepted

ExtendNoop(batch) ==
  /\ SeamedBatch(batch)
  /\ Len(batch) = 1
  /\ reply' = [kind |-> "noop", slack |-> 0, delta |-> 0]
  /\ UNCHANGED <<waypoints, staging, control, call, history>>

\* Fault: the staged rows are seeded from one row too early.
StagedRowsEarly(batch) ==
  Appended(IF staging.waypoints = <<>>
             THEN SubSeq(waypoints, Len(waypoints) - 1, Len(waypoints))
             ELSE staging.waypoints,
           batch)

\* The staged rows once batch has joined them: seeded with the last row of the
\* active waypoints if nothing is staged yet.
StagedRows(batch) ==
  Appended(IF staging.waypoints = <<>> THEN <<Last(waypoints)>> ELSE staging.waypoints,
           batch)

\* stage_ succeeds: tr becomes the staged trajectory.
Stage(batch, tr) ==
  /\ staging' = [on |-> TRUE, waypoints |-> StagedRows(batch), next |-> tr]
  /\ last_waypoint' = <<Last(batch)>>
  /\ accepted' = accepted \o Tail(batch)
  /\ UNCHANGED <<active, sampler, epoch, current_time, emitted_sample_count,
                 generation_count, call, retired, past, sampled>>

\* stage_ throws: the staged rows are wound back to those committed before.
StageFails(batch) ==
  /\ staging' = [staging EXCEPT
       !.waypoints = Truncated(IF @ = <<>> THEN StagedRows(batch) ELSE @ \o Tail(batch),
                               Len(@))]
  /\ Throw

\* Fault: the whole new duration is reported as growth.
StageAgainWholeGrowth(batch) ==
  /\ SeamedBatch(batch)
  /\ Len(batch) > 1
  /\ staging.on
  /\ \E tr \in Builds(StagedRows(batch)) \ {NoTrajectory} :
       /\ Stage(batch, tr)
       /\ reply' = [kind |-> "staged_again", slack |-> 0, delta |-> Duration(tr)]
  /\ UNCHANGED waypoints

StageAgain(batch) ==
  /\ SeamedBatch(batch)
  /\ Len(batch) > 1
  /\ staging.on
  /\ \E tr \in Builds(StagedRows(batch)) \ {NoTrajectory} :
       /\ Stage(batch, tr)
       /\ reply' = [kind |-> "staged_again", slack |-> 0,
                    delta |-> Duration(tr) - Duration(staging.next)]
  /\ UNCHANGED waypoints

StageAgainFails(batch) ==
  /\ SeamedBatch(batch)
  /\ Len(batch) > 1
  /\ staging.on
  /\ NoTrajectory \in Builds(StagedRows(batch))
  /\ StageFails(batch)
  /\ UNCHANGED waypoints

\* waypoint_store::append throws before it has copied all of its rows, outside the
\* blocks that wind the store back, in either of the session's stores. (At the first
\* row of an empty store it has noted the width; WaypointStore has that case.)
AppendFails(batch) ==
  /\ Exhausts
  /\ Throw
  /\ \/ /\ FirstBatch(batch)
        /\ \E n \in 1..Len(batch) - 1 : waypoints' = waypoints \o SubSeq(batch, 1, n)
        /\ UNCHANGED staging
     \/ /\ SeamedBatch(batch) /\ Len(batch) > 1 /\ ~staging.on
        /\ \E n \in 1..Len(batch) - 1 : waypoints' = waypoints \o SubSeq(batch, 2, n)
        /\ UNCHANGED staging
     \/ /\ SeamedBatch(batch) /\ Len(batch) > 1 /\ staging.on
        /\ Len(StagedRows(batch)) <= MaxAccepted
        /\ \E n \in Len(staging.waypoints)..Len(StagedRows(batch)) - 1 :
             staging' = [staging EXCEPT !.waypoints = SubSeq(StagedRows(batch), 1, n)]
        /\ UNCHANGED waypoints

\* Fault: a pivot resumes at the latest sample instead of one period past it.
RepeatedLocalTime == IF emitted_sample_count = 0 THEN 0 ELSE current_time - epoch

\* Where a pivot would resume sampling, in local time.
StartingLocalTime ==
  IF emitted_sample_count = 0 THEN 0 ELSE (current_time - epoch) + Period

BranchSlack(candidate) ==
  epoch + find_branch_local_time(active, candidate) - current_time

\* Fault: a branch at the latest sample counts as ahead of it.
BranchNotBehind(candidate) == emitted_sample_count = 0 \/ BranchSlack(candidate) >= 0

BranchAhead(candidate) == emitted_sample_count = 0 \/ BranchSlack(candidate) > 0

\* Fault: a candidate that ends at the next sample still gets pivoted to.
SamplableToItsEnd(candidate) == StartingLocalTime <= Duration(candidate)

Samplable(candidate) == StartingLocalTime < Duration(candidate)

\* A batch that decides between pivoting and staging, and its candidate.
Candidate(batch, candidate) ==
  /\ SeamedBatch(batch)
  /\ Len(batch) > 1
  /\ ~staging.on
  /\ candidate \in Builds(Appended(waypoints, batch))

\* Fault: a failed candidate leaves its rows in the store.
CandidateFailsUnwound(batch) ==
  /\ Candidate(batch, NoTrajectory)
  /\ waypoints' = Appended(waypoints, batch)
  /\ Throw
  /\ UNCHANGED staging

CandidateFails(batch) ==
  /\ Candidate(batch, NoTrajectory)
  /\ waypoints' = Truncated(Appended(waypoints, batch), Len(waypoints))
  /\ Throw
  /\ UNCHANGED staging

Pivot(batch, candidate) ==
  /\ Candidate(batch, candidate)
  /\ candidate # NoTrajectory
  /\ BranchAhead(candidate)
  /\ Samplable(candidate)
  /\ Representable(candidate, StartingLocalTime)
  /\ waypoints' = Appended(waypoints, batch)
  /\ active' = candidate
  /\ sampler' = quantized_for_trajectory(candidate, StartingLocalTime)
  /\ last_waypoint' = <<Last(waypoints')>>
  /\ generation_count' = generation_count + 1
  /\ reply' = [kind |-> "pivot", slack |-> BranchSlack(candidate),
               delta |-> Duration(candidate) - Duration(active)]
  /\ accepted' = accepted \o Tail(batch)
  /\ UNCHANGED <<epoch, current_time, emitted_sample_count, staging, call,
                 retired, past, sampled>>

\* Fault: the candidate is committed before its sampler is built.
PivotCommitsEarly(batch, candidate) ==
  /\ Candidate(batch, candidate)
  /\ candidate # NoTrajectory
  /\ BranchAhead(candidate)
  /\ Samplable(candidate)
  /\ ~Representable(candidate, StartingLocalTime)
  /\ waypoints' = Appended(waypoints, batch)
  /\ active' = candidate
  /\ reply' = Threw
  /\ UNCHANGED <<sampler, epoch, current_time, emitted_sample_count, staging,
                 last_waypoint, generation_count, call, history>>

PivotSamplerThrows(batch, candidate) ==
  /\ Candidate(batch, candidate)
  /\ candidate # NoTrajectory
  /\ BranchAhead(candidate)
  /\ Samplable(candidate)
  /\ ~Representable(candidate, StartingLocalTime)
  /\ waypoints' = Appended(waypoints, batch)
  /\ Throw
  /\ UNCHANGED staging

\* The candidate is refused: its rows are dropped and the batch starts staging.
StageFirst(batch, candidate) ==
  /\ Candidate(batch, candidate)
  /\ candidate # NoTrajectory
  /\ ~(BranchAhead(candidate) /\ Samplable(candidate))
  /\ waypoints' = Truncated(Appended(waypoints, batch), Len(waypoints))
  /\ \E tr \in Builds(StagedRows(batch)) \ {NoTrajectory} :
       /\ Stage(batch, tr)
       /\ reply' = [kind |-> IF BranchAhead(candidate)
                               THEN "staged_unsamplable"
                               ELSE "staged_branch_sampled",
                    slack |-> BranchSlack(candidate),
                    delta |-> Duration(tr)]

StageFirstFails(batch, candidate) ==
  /\ Candidate(batch, candidate)
  /\ candidate # NoTrajectory
  /\ ~(BranchAhead(candidate) /\ Samplable(candidate))
  /\ NoTrajectory \in Builds(StagedRows(batch))
  /\ waypoints' = Truncated(Appended(waypoints, batch), Len(waypoints))
  /\ Throw
  /\ UNCHANGED staging

start_staging ==
  /\ call = Idle
  /\ staging' = IF active # NoTrajectory /\ ~staging.on
                  THEN [staging EXCEPT !.on = TRUE]
                  ELSE staging
  /\ reply' = NoReply
  /\ UNCHANGED <<waypoints, control, call, history>>

-----------------------------------------------------------------------------
(* sample_next, sample_at_least, and the step of their loops, sample_one_ *)

sample_next(n) ==
  /\ call = Idle
  /\ call' = [op |-> "next", n |-> n]
  /\ reply' = NoReply
  /\ UNCHANGED <<waypoints, staging, control, history>>

sample_at_least(horizon) ==
  /\ call = Idle
  /\ call' = [op |-> "at_least", n |-> current_time + horizon]
  /\ reply' = NoReply
  /\ UNCHANGED <<waypoints, staging, control, history>>

\* The loop after one more sample, the last one emitted at time now.
Continued(now) ==
  IF call.op = "next"
    THEN IF call.n = 1 THEN Idle ELSE [call EXCEPT !.n = @ - 1]
    ELSE IF now >= call.n THEN Idle ELSE call

Staged == staging.next # NoTrajectory

\* sampler s of trajectory tr, at global time start, produces its next sample.
Emit(s, tr, start, before) ==
  LET t == SampleTime(s, tr) IN
  /\ sampler' = [s EXCEPT !.next = @ + 1]
  /\ current_time' = start + t
  /\ emitted_sample_count' = emitted_sample_count + 1
  /\ call' = Continued(start + t)
  /\ sampled' = before \cup {[t |-> t, by |-> Governing(tr, t)]}
  /\ UNCHANGED <<last_waypoint, reply, accepted>>

SampleActive ==
  /\ call # Idle
  /\ Remaining(sampler) > (IF Staged THEN 1 ELSE 0)
  /\ Emit(sampler, active, epoch, sampled)
  /\ UNCHANGED <<waypoints, active, epoch, staging, generation_count, retired, past>>

\* The sampler of install_staged_ can be built: a short trajectory needs no grid.
Installable(start) ==
  start >= Duration(staging.next) \/ Representable(staging.next, start)

\* install_staged_ and the first sample of the trajectory it makes active.
InstallStaged(start) ==
  /\ Installable(start)
  /\ active' = staging.next
  /\ waypoints' = staging.waypoints
  /\ epoch' = epoch + Duration(active)
  /\ staging' = NotStaging
  /\ generation_count' = generation_count + 1
  /\ retired' = retired \o Front(waypoints)
  /\ past' = Append(past, [at |-> epoch, motion |-> active])
  /\ Emit(IF start < Duration(staging.next)
            THEN quantized_for_trajectory(staging.next, start)
            ELSE TerminalOnly,
          staging.next, epoch', {})

\* The staged trajectory's first sample takes the place of the terminal.
RebaseBeforeTerminal ==
  /\ call # Idle
  /\ Staged
  /\ Remaining(sampler) = 1
  /\ InstallStaged(0)

\* The terminal has gone out; sampling resumes one period into the staged one.
RebaseAfterTerminal ==
  /\ call # Idle
  /\ Staged
  /\ Remaining(sampler) = 0
  /\ InstallStaged(Period)

\* install_staged_ throws before it changes anything; the samples of this call
\* are lost with it.
InstallThrows ==
  /\ call # Idle
  /\ Staged
  /\ \/ Remaining(sampler) = 1 /\ ~Installable(0)
     \/ Remaining(sampler) = 0 /\ ~Installable(Period)
  /\ call' = Idle
  /\ UNCHANGED <<waypoints, staging, control, reply, history>>

\* Fault: an exhausted sampler ends the call although motion is staged.
DrainedRegardless ==
  /\ call # Idle
  /\ Remaining(sampler) = 0
  /\ call' = Idle
  /\ UNCHANGED <<waypoints, staging, control, reply, history>>

\* Nothing left to sample: the loop returns what it has.
Drained ==
  /\ call # Idle
  /\ ~Staged
  /\ Remaining(sampler) = 0
  /\ call' = Idle
  /\ UNCHANGED <<waypoints, staging, control, reply, history>>

SampleOne ==
  \/ SampleActive
  \/ RebaseBeforeTerminal
  \/ RebaseAfterTerminal
  \/ InstallThrows
  \/ Drained

Extend(batch) ==
  \/ ExtendRefused(batch)
  \/ FirstBuild(batch)
  \/ FirstBuildFails(batch)
  \/ FirstSamplerThrows(batch)
  \/ ExtendNoop(batch)
  \/ StageAgain(batch)
  \/ StageAgainFails(batch)
  \/ CandidateFails(batch)
  \/ AppendFails(batch)
  \/ \E candidate \in Trajectory :
       \/ Pivot(batch, candidate)
       \/ PivotSamplerThrows(batch, candidate)
       \/ StageFirst(batch, candidate)
       \/ StageFirstFails(batch, candidate)

Sampling ==
  \/ \E n \in Demand : sample_next(n)
  \/ \E h \in Horizon : sample_at_least(h)

Next ==
  \/ \E batch \in Batch : Extend(batch)
  \/ start_staging
  \/ Sampling
  \/ SampleOne

Spec == Init /\ [][Next]_vars

\* A caller that keeps pulling samples, and calls that return.
FairSpec == Spec /\ WF_vars(Sampling) /\ WF_vars(SampleOne)

-----------------------------------------------------------------------------
(* Properties *)

\* extend_result::kinds, no call, and a call that threw.
Kinds == {"none", "threw", "first_build", "pivot", "staged_branch_sampled",
          "staged_unsamplable", "staged_again", "noop"}

\* No call, a sample_next that still owes n samples, a sample_at_least up to n.
Calls == {Idle} \cup [op : {"next"}, n : Nat \ {0}] \cup [op : {"at_least"}, n : Nat]

\* The variables have their types, and a session without a trajectory has
\* neither a seam nor staged motion.
TypeOK ==
  /\ waypoints \in Seq(Waypoint)
  /\ active \in Trajectory \cup {NoTrajectory}
  /\ sampler \in [start : Nat, count : Nat, next : Nat]
  /\ epoch \in Nat
  /\ current_time \in Nat
  /\ emitted_sample_count \in Nat
  /\ staging \in [on : BOOLEAN, waypoints : Seq(Waypoint),
                  next : Trajectory \cup {NoTrajectory}]
  /\ last_waypoint \in Seq(Waypoint)
  /\ generation_count \in Nat
  /\ call \in Calls
  /\ reply \in [kind : Kinds, slack : Int, delta : Int]
  /\ accepted \in Seq(Waypoint)
  /\ retired \in Seq(Waypoint)
  /\ past \in Seq([at : Nat, motion : Trajectory])
  /\ sampled \subseteq [t : Nat, by : [t : Nat, m : Motion]]
  /\ active = NoTrajectory <=> last_waypoint = <<>>
  /\ active = NoTrajectory => staging = NotStaging /\ sampler.count = 0

\* No waypoint is lost, duplicated or reordered by provisional appends, failed
\* builds, staging and rebases: the accepted waypoints are those of the past
\* trajectories, of the active one and of the staged motion, in this order, the
\* shared seams counted once; and the next seam is the last of them
\* (session.cpp extend, stage_, install_staged_).
WaypointsConserved ==
  IF active = NoTrajectory
    THEN waypoints = <<>> /\ accepted = <<>>
    ELSE /\ retired \o waypoints
              \o (IF staging.waypoints = <<>> THEN <<>> ELSE Tail(staging.waypoints))
              = accepted
         /\ last_waypoint = <<Last(accepted)>>

\* Staged motion starts where the active trajectory ends, and a staged trajectory
\* exists exactly when staged waypoints do (install_staged_, stage_).
StagedMotionContinues ==
  /\ Staged <=> staging.waypoints # <<>>
  /\ Staged => staging.on /\ Head(staging.waypoints) = Last(waypoints)

\* The plan still holds every integration point a sample of the active trajectory
\* was computed from, however often the trajectory has been pivoted since: a
\* pivot never rewrites a step whose start has been sampled (the branch_ahead
\* test in extend).
EmittedStillPlanned ==
  \A e \in sampled : \E i \in 1..Len(active) : active[i] = e.by

\* What the comment at the branch_ahead test says: a new trajectory differs from
\* the old one only where no sample has been taken.
EmittedUncontradicted ==
  \A e \in sampled : Governing(active, e.t) = e.by

\* The next sample comes within one period of the latest, and an exhausted
\* sampler has sampled the very end of the active trajectory (uniform_sampler,
\* and the restart of the grid at pivots and rebases).
SamplerAhead ==
  emitted_sample_count > 0 =>
    IF Remaining(sampler) = 0
      THEN current_time = epoch + Duration(active)
      ELSE epoch + SampleTime(sampler, active)
             \in (current_time + 1)..(current_time + Period)

\* Sample times increase by at most a period, across pivots and rebases; the
\* first sample of a session is its origin (sample_one_).
EmissionPaced ==
  [][emitted_sample_count' # emitted_sample_count =>
       IF emitted_sample_count = 0
         THEN current_time' = 0
         ELSE current_time' \in (current_time + 1)..(current_time + Period)]_vars

\* An extend that throws leaves the session as it was ("Session state is
\* unchanged in that case", session.hpp).
FailedExtendChangesNothing ==
  [][reply' = Threw => UNCHANGED <<waypoints, staging, control>>]_vars

\* An extend that throws at least leaves the motion and its sampling alone, planned and
\* staged: only the rows of the stores may have grown (the order of the assignments in
\* extend and stage_).
FailedExtendKeepsMotion ==
  [][reply' = Threw => UNCHANGED <<control, staging.on, staging.next>>]_vars

\* extend_result::delta_total_duration is how much the call changed
\* remaining_total_duration().
DeltaIsGrowth ==
  [][reply'.kind \notin {"none", "threw"} /\ call' = Idle =>
       reply'.delta = remaining_total_duration' - remaining_total_duration]_vars

\* A sampling call comes back short only when nothing is left to sample, and
\* sample_at_least overshoots its target by at most a period.
CallsReturnWhatTheyPromise ==
  [][call.op # "idle" /\ call' = Idle =>
       \/ remaining_total_duration = 0 /\ UNCHANGED current_time
       \/ call.op = "next" /\ call.n = 1 /\ emitted_sample_count' = emitted_sample_count + 1
       \/ call.op = "at_least" /\ current_time' \in call.n..(call.n + Period)]_vars

\* The session implements the motion stream: its plan is the past trajectories,
\* the active one and the staged one.
Stream == INSTANCE MotionStream WITH
  plan <- IF active = NoTrajectory THEN past
          ELSE past \o <<[at |-> epoch, motion |-> active]>>
                    \o (IF Staged THEN <<[at |-> epoch + Duration(active),
                                         motion |-> staging.next]>>
                        ELSE <<>>),
  running <- IF emitted_sample_count = 0 THEN 0 ELSE Len(past) + 1,
  now <- current_time

StreamSpec == Stream!Spec

\* All accepted motion is sampled in the end: once no batch arrives, as the bound
\* on accepted waypoints makes sure, nothing remains.
EverythingSampled == <>[](remaining_total_duration = 0)

=============================================================================
