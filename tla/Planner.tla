-------------------------------- MODULE Planner --------------------------------
(***************************************************************************)
(* The planning workflow (totg/tools/planner.hpp, planner::execute): the   *)
(* waypoints are preprocessed and split into segments, each registered     *)
(* generator runs over all of its segments until one fails, and a decider  *)
(* then chooses between the two outcomes.                                  *)
(*                                                                         *)
(* Abstractions.  The preprocessor and the segmenter are the ones the      *)
(* service registers.  A generator returns a trajectory, of which only the *)
(* duration is kept, or throws; a receiver is what the success callbacks   *)
(* were given, in order.  Timing statistics are left out.                  *)
(***************************************************************************)
EXTENDS WaypointUtils

CONSTANTS
  Input,        \* waypoint sequences a caller may pass
  Config,       \* configurations [generators, segment_totg]
  Tolerance,    \* of deduplication
  Diameter,     \* of the legacy generator's colinearization; 0 when it is off
  Durations     \* durations of generated trajectories, in ticks

ASSUME PlannerAssumption ==
  /\ Input \subseteq Seq(Int \X Int)
  /\ Config \subseteq [generators : (SUBSET {"totg", "legacy"}) \ {{}}, segment_totg : BOOLEAN]
  /\ Tolerance \in Nat
  /\ Diameter \in Nat
  /\ Durations \subseteq Nat \ {0}

VARIABLES
  config,     \* the registered generators, and segment_totg
  phase,      \* what execute is doing
  input,      \* what the waypoint provider returned
  waypoints,  \* the accumulator after preprocessing
  segments,   \* what the segmenter made of it
  totg,       \* totg_outcome
  legacy      \* legacy_outcome

plannerVars == <<config, phase, input, waypoints, segments, totg, legacy>>

\* algorithm_outcome: a receiver, as <<r>> or <<>>, and whether an exception was kept.
NoOutcome == [receiver |-> <<>>, error |-> FALSE]
Started == [receiver |-> << <<>> >>, error |-> FALSE]

Outcome(generator) == IF generator \in config.generators THEN Started ELSE NoOutcome

PlannerInit ==
  /\ config \in Config
  /\ phase = "idle"
  /\ input = <<>>
  /\ waypoints = <<>>
  /\ segments = <<>>
  /\ totg = NoOutcome
  /\ legacy = NoOutcome

\* execute up to the generators; with fewer than two waypoints they do not run.
execute(given) ==
  /\ phase = "idle"
  /\ input' = given
  /\ waypoints' = deduplicate_waypoints(given, Tolerance)
  /\ IF Len(waypoints') < 2
       THEN /\ phase' = "decide"
            /\ segments' = <<>>
            /\ totg' = NoOutcome
            /\ legacy' = NoOutcome
       ELSE /\ phase' = "totg"
            /\ segments' = segment_at_reversals(waypoints')
            /\ totg' = Outcome("totg")
            /\ legacy' = Outcome("legacy")
  /\ UNCHANGED config

totg_segments == IF config.segment_totg THEN segments ELSE <<waypoints>>

\* Fault: the generator stops one segment early.
RunsButLast(outcome, of) ==
  /\ outcome.receiver # <<>>
  /\ Len(outcome.receiver[1]) + 1 < Len(of)

\* The generator has another segment to do.
Runs(outcome, of) ==
  /\ outcome.receiver # <<>>
  /\ Len(outcome.receiver[1]) < Len(of)

\* Fault: the exception is dropped with the receiver.
FailedSilently(outcome) == NoOutcome

\* A segment failed: the exception is kept and the receiver is discarded.
Failed(outcome) == [receiver |-> <<>>, error |-> TRUE]

\* A segment succeeded: the callback folds its trajectory into the receiver.
Succeeded(outcome, made) == [outcome EXCEPT !.receiver = <<Append(@[1], made)>>]

Next_of(outcome, of) == of[Len(outcome.receiver[1]) + 1]

run_totg ==
  /\ phase = "totg"
  /\ Runs(totg, totg_segments)
  /\ \/ totg' = Failed(totg)
     \/ \E d \in Durations :
          totg' = Succeeded(totg, [path |-> Next_of(totg, totg_segments), duration |-> d])
  /\ UNCHANGED <<config, phase, input, waypoints, segments, legacy>>

totg_done ==
  /\ phase = "totg"
  /\ ~Runs(totg, totg_segments)
  /\ phase' = "legacy"
  /\ UNCHANGED <<config, input, waypoints, segments, totg, legacy>>

run_legacy ==
  /\ phase = "legacy"
  /\ Runs(legacy, segments)
  /\ \/ legacy' = Failed(legacy)
     \/ \E d \in Durations :
          legacy' = Succeeded(legacy,
            [path |-> apply_colinearization(Next_of(legacy, segments), Diameter),
             duration |-> d])
  /\ UNCHANGED <<config, phase, input, waypoints, segments, totg>>

legacy_done ==
  /\ phase = "legacy"
  /\ ~Runs(legacy, segments)
  /\ phase' = "decide"
  /\ UNCHANGED <<config, input, waypoints, segments, totg, legacy>>

-----------------------------------------------------------------------------
(* Properties *)

\* The preprocessed motion starts and ends where the given one does, and each waypoint
\* dropped is within the tolerance of one that is left, or within twice that of the
\* last, which took the place of its neighbour (deduplicate_waypoints).
PreprocessingFaithful ==
  Len(waypoints) >= 2 =>
    /\ waypoints[1] = input[1]
    /\ Last(waypoints) = Last(input)
    /\ \A i \in 1..Len(input) :
         \/ \E k \in 1..Len(waypoints) : Linf(input[i], waypoints[k]) <= Tolerance
         \/ Linf(input[i], Last(waypoints)) <= 2 * Tolerance

\* The segments are the preprocessed motion, cut at its reversals and nowhere else:
\* each is a stretch of it, starts at the cusp where the one before it ends, and goes on
\* to the next cusp or to the end (segment_at_reversals).
SegmentsAreTheMotion ==
  segments # <<>> =>
    LET cut[k \in 0..Len(segments)] == IF k = 0 THEN 1 ELSE cut[k - 1] + Len(segments[k]) - 1
    IN  /\ \A k \in 1..Len(segments) :
             cut[k - 1] < cut[k] /\ segments[k] = SubSeq(waypoints, cut[k - 1], cut[k])
        /\ cut[Len(segments)] = Len(waypoints)
        /\ \A i \in 2..Len(waypoints) - 1 :
             Reverses(waypoints[i - 1], waypoints[i], waypoints[i + 1]) <=>
               \E k \in 1..Len(segments) - 1 : cut[k] = i

\* Colinearization leaves no drift: every waypoint of a segment that the legacy
\* generator does not get is close to the line that replaces it
\* (apply_colinearization, which tests all it has skipped each time).
ColinearizationStaysClose ==
  \A r \in {legacy.receiver[k] : k \in 1..Len(legacy.receiver)} : \A k \in 1..Len(r) :
    \A i \in 1..Len(segments[k]) :
      LET w == segments[k][i] IN
      \E j \in 1..Len(r[k].path) - 1 :
        \/ w \in {r[k].path[j], r[k].path[j + 1]}
        \/ within_colinearization_tolerance(w, r[k].path[j], r[k].path[j + 1], Diameter)

=============================================================================
