-------------------------------- MODULE MlModel --------------------------------
(***************************************************************************)
(* The trajectory service (service/mlmodel.cpp, mlmodel::infer): what its  *)
(* success callbacks make of the segments' trajectories, how its decider   *)
(* chooses between the generators, and what a caller gets.                 *)
(*                                                                         *)
(* Abstractions.  A behaviour is one call: infer makes its own planner and *)
(* keeps nothing.  A sample is a time and, at the ends of a segment, the   *)
(* waypoint there.  Tensors are checked for the number of joints only.     *)
(***************************************************************************)
EXTENDS Planner

CONSTANT Period   \* sample period, in ticks

ASSUME ServiceAssumption == Period \in Nat \ {0}

VARIABLE result   \* what infer returned or threw

vars == <<plannerVars, result>>

NoResult == [kind |-> "none", from |-> "", samples |-> <<>>]

Init == PlannerInit /\ result = NoResult

\* One more than the duration over the period, rounded up.
quantized_samples(duration) == (duration + Period - 1) \div Period + 1

\* The sample times of one trajectory, counted from its own start.
Times(duration) ==
  LET n == quantized_samples(duration) IN
  [i \in 1..n |-> IF i = n THEN duration ELSE ((i - 1) * duration) \div (n - 1)]

Sampled(made) ==
  LET times == Times(made.duration) IN
  [i \in 1..Len(times) |->
     [time |-> times[i],
      at |-> IF i = 1 THEN made.path[1]
             ELSE IF i = Len(times) THEN made.path[Len(made.path)] ELSE <<>>]]

\* What the success callbacks have accumulated: for_each_sample skips the start.
totg_samples(receiver) == FlattenSeq([k \in 1..Len(receiver) |-> Sampled(receiver[k])])
legacy_samples(receiver) == FlattenSeq([k \in 1..Len(receiver) |-> Tail(Sampled(receiver[k]))])

\* Tensors that do not agree on the number of joints, or no waypoints.
infer_refused ==
  /\ phase = "idle"
  /\ phase' = "done"
  /\ result' = [NoResult EXCEPT !.kind = "invalid_argument"]
  /\ UNCHANGED <<config, input, waypoints, segments, totg, legacy>>

infer(given) ==
  /\ given # <<>>
  /\ execute(given)
  /\ UNCHANGED result

\* The decider.
Decision ==
  IF totg.receiver # <<>>
    THEN [kind |-> "samples", from |-> "totg", samples |-> totg_samples(totg.receiver[1])]
  ELSE IF legacy.receiver # <<>>
    THEN [kind |-> "samples", from |-> "legacy", samples |-> legacy_samples(legacy.receiver[1])]
  ELSE IF legacy.error THEN [NoResult EXCEPT !.kind = "error", !.from = "legacy"]
  ELSE IF totg.error THEN [NoResult EXCEPT !.kind = "error", !.from = "totg"]
  ELSE IF Len(waypoints) < 2 THEN [NoResult EXCEPT !.kind = "empty"]
  ELSE [NoResult EXCEPT !.kind = "logic_error"]

decide ==
  /\ phase = "decide"
  /\ result' = Decision
  /\ phase' = "done"
  /\ UNCHANGED <<config, input, waypoints, segments, totg, legacy>>

Next ==
  \/ infer_refused
  \/ \E given \in Input : infer(given)
  \/ (run_totg \/ totg_done \/ run_legacy \/ legacy_done) /\ UNCHANGED result
  \/ decide

Spec == Init /\ [][Next]_vars

-----------------------------------------------------------------------------
(* Properties *)

\* The error the decider keeps for the impossible is not raised: with two waypoints
\* or more, each generator that runs leaves a receiver or an error (infer).
AlwaysAnOutcome == result.kind # "logic_error"

\* Samples are never those of a part of the motion: they pass through both ends of
\* every segment in order, save that the legacy generator leaves out the starts, and
\* end at the last given waypoint (run_totg_, run_legacy_, the decider).
ResultIsWhole ==
  result.kind = "samples" =>
    LET samples == result.samples
        n == Len(samples)
        of == IF result.from = "totg" THEN totg_segments ELSE segments
        ends == IF result.from = "totg"
                  THEN [k \in 1..2 * Len(of) |->
                          IF k % 2 = 1 THEN of[(k + 1) \div 2][1] ELSE Last(of[k \div 2])]
                  ELSE [k \in 1..Len(of) |-> Last(of[k])]
        passed[i \in 0..n] == IF i = 0 THEN 0
                              ELSE IF samples[i].at = <<>> THEN passed[i - 1] ELSE passed[i - 1] + 1
    IN  /\ passed[n] = Len(ends)
        /\ \A i \in 1..n : samples[i].at # <<>> => samples[i].at = ends[passed[i]]
        /\ Last(samples).at = Last(input)

\* The documentation of the sample times, which counts them from the start of the
\* whole trajectory: they increase.
SampleTimesAdvance ==
  \A i \in 1..Len(result.samples) - 1 :
    result.samples[i].time < result.samples[i + 1].time

=============================================================================
