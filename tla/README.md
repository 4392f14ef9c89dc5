# A verification of trajex in TLA+

trajex turns waypoints for a robot arm into time-optimal trajectories and hands
them out as samples. This directory holds TLA+ models of the parts of it whose
correctness rests on control, that is on the order of calls, on failures part
way, on hints and caches, and on clocks and counters at their limits. TLC checks
the models on small instances; TLAPS proves the theorems listed below for every
value of the constants. Paths are relative to `src/src/viam/trajex/` unless they
say otherwise.

Run `tlc -config X.cfg M` for a configuration and `tlapm M.tla` for proofs.

## The system

| Component | State | Operations | Talks to |
|---|---|---|---|
| **Streaming session** `totg/streaming/session.{hpp,cpp}` | waypoint store, active trajectory, cursor and sampler, epoch, clock of the samples, staged motion, seam, counters | `extend`, `start_staging`, `sample_next`, `sample_at_least`, durations | builds trajectories from its store; drives the sampler |
| **Waypoint store** `totg/streaming/private/waypoint_store.hpp` | chunks of rows, size, width, accumulator of views | `append`, `truncate`, `reset_to_last`, `last` | the session; `path::create` reads the views |
| **Waypoint accumulator** `totg/waypoint_accumulator.{hpp,cpp}` | views of rows it does not own | `add_waypoint`, `pop_back`, iteration | everyone who passes waypoints |
| **Waypoint preprocessing** `totg/waypoint_utils.cpp`, `totg/tools/legacy.cpp` | none | `deduplicate_waypoints`, `segment_at_reversals`, `apply_colinearization` | the planner's callbacks |
| **Path** `totg/path.{hpp,cpp}` | segments with their start arc lengths | `create` (coalescing, blends), geometry queries | trajectory generation |
| **Path cursor** `totg/path.cpp` | arc length, segment hint, cached geometry | `seek`, `seek_by`, queries | trajectory generation and cursor |
| **Trajectory generation** `totg/trajectory.cpp` | integration points, switching point cache, phase of the integration | `trajectory::create`: switching points, forward and backward integration, splice | path cursor; observers by callback |
| **Trajectory cursor** `totg/trajectory.cpp` | time, integration point hint, path cursor | `seek`, `seek_by`, `sample` | samplers |
| **Uniform sampler** `totg/uniform_sampler.cpp` | start, count, next | `advance`, `next`, `remaining` | moves a trajectory cursor |
| **Observers** `totg/observers.cpp` | registered observers, dispatching flag, collected events | dispatch, collection | called by trajectory generation |
| **Planner** `totg/tools/planner.{hpp,cpp}` | configuration, callbacks, outcome of each generator | `execute` | preprocessing, both generators, a decider |
| **Trajectory service** `service/mlmodel.cpp` | configuration; per call, the samples of the segments | `infer` | planner |
| **C API** `capi/capi.{h,cpp}` | owned handles: tensor maps, sessions, chains, builders | create, insert, view, generate, sample, destroy | session, trajectory generation, chain |
| **Go bindings** `src/go/`, with the **RDK service** and **joints** | pointers to handles; the caller's context | one Go call per operation, of several C calls each; `Infer`; `JointsFromModel` | the C API |
| **Kinematic chain** `kinematics/` | joints; the workspace kept between calls | builder, forward kinematics, Jacobian | TCP limits in generation |
| **MoveIt adapter** `moveit/totg/` | a node and its parameters | `adapt`, `computeTimeStamps` | the planner's parts; other threads, which set parameters |
| **Compatibility layer**, **replay and JSON**, **strong types** | none of their own | conversions | planner |

Nothing in the C++ code starts a thread. Concurrency is that of a caller who
interleaves the operations of a session: batches that arrive, in any order and
number, between samples and in the middle of motions. The library's objects are
not synchronised, so calls do not overlap, but a sampling call is a loop and may
be cut short by an exception. Around the library there is more: observers that
call back, Go contexts that are cancelled between two C calls, and ROS parameters
that are set while a request reads them.

What is hard here:

* **Ordering.** A batch may come before or after the samples it would change. The
  session decides between replacing the active trajectory (a *pivot*) and letting
  the new motion follow it (*staging*, and later a *rebase*); a wrong decision
  makes an arm jump. The rebase itself happens on one of two sides of the last
  sample of the active trajectory.
* **Failures part way.** Appends are provisional; a trajectory or a sampler may
  fail to build after them; an installation may throw in the middle of a sampling
  call; one of several segments may fail.
* **Hints and caches.** Two cursors carry hints that must not depend on where they
  have been, and geometry that must not outlive the position it belongs to. The
  switching point search carries a cache as well.
* **Ownership.** Objects cross two language boundaries; every call has a step at
  which an allocation may fail, and outputs are made while inputs are in use.
* **Boundaries.** Sample counts at exact multiples of the period, the terminal
  sample, motions shorter than a period, segment boundaries, chunk boundaries.

`PROJECT.json` lists each hazard at its line with the properties that cover it.

## Modules

`A → B` reads "A extends B"; `A ⊑ B`, "A is shown to implement B".

| Module | Models | |
|---|---|---|
| `Session` | the streaming session and the sampler it drives | ⊑ `MotionStream` |
| `MotionStream` | abstract: a plan of motions, sampled in order and forward only | |
| `WaypointStore` | the store, over a heap of chunks | ⊑ `RowLog` |
| `RowLog` | abstract: a sequence of rows, cut back or grown at its end | |
| `PathBuilder` | `path::create`: coalescing, corners, blends | |
| `PathCursor` | `path::cursor` and `path::cursor::rich` | |
| `IntegrationPoints` | what is asked of integration points that are given | |
| `TrajectoryCursor` | `trajectory::cursor` with the path cursor inside it | → `PathCursor`, `IntegrationPoints` |
| `SwitchingPoints` | the searches for switching points and the cache they share | |
| `TrajectoryGeneration` | `trajectory::create`: forward and backward integration, splices, events | → `SwitchingPoints`, `IntegrationPoints` |
| `Observers` | the composite observer, and observers that call back | |
| `Kinematics` | chains: builder, motion of a frame, Jacobian, tool speed | |
| `ArmModel` | `JointsFromModel` of `src/go/rdk/joints.go` | → `Kinematics` |
| `WaypointUtils` | preprocessing, as operators on sequences | |
| `Planner` | `planner::execute` with its two generators | → `WaypointUtils` |
| `MlModel` | `mlmodel::infer`: callbacks, decider, outcome | → `Planner` |
| `MoveIt` | the response adapters and `computeTimeStamps` | → `WaypointUtils` |
| `CApi` | the C interface, as operators from a heap to the results of a call | |
| `GoBindings` | the Go packages and the service, over the C interface | → `CApi` |
| `SessionProofs`, `TrajectoryGenerationProofs`, `GoBindingsProofs`, `ObserversProofs` | theorems about those modules | |
| `PathProofs` | theorems about `WaypointStore`, `PathBuilder`, `PathCursor` and `TrajectoryCursor` | |
| `KinematicsProofs` | theorems about `Kinematics` and `ArmModel` | |
| `FrontEndProofs` | theorems about `Planner`, `MlModel` and `MoveIt` | |
| `NaturalOrder` | lemmas on least and greatest elements, on induction up to a bound and on functions defined by recursion | |
| `MC*` | small instances; `MCFrontEnds` puts `MlModel` and `MoveIt` side by side, `MCGeometry` the components that one thread uses alone, the composite observer among them | |

Operators introduced by the word *Fault* are variants of an operator nearby with
the kind of mistake it is there to avoid. No specification uses them: each shows
that the property it is paired with in `PROJECT.json` can fail.

### Session

The variables have the names of the members they stand for. Time is an integer
number of ticks, and the sample period any number of them. A trajectory is its
sequence of integration points; a point is a time and a model value for the
kinematic state that holds from it on, which is all that the branch search, the
sampler and the cursor look at. `build_trajectory_from_` may return any trajectory
or throw, and needs two waypoints: nothing is assumed of what two successive
builds have in common. `extend` is one action for each way it can end, with the
whole of its effect; a sampling call is an action that starts it and one step per
`sample_one_`, because an exception can end it between two samples. The operator
`Continued` is the loop of the call.

The grid arithmetic of the sampler is the code's `lerp`, rounded down to ticks;
the last sample is exact. `MaxCount` is the largest sample count that
`quantized_for_trajectory` accepts: it makes samplers fail to build, as
non-finite counts do in the code. With `Exhausts`, memory may run out in any append
to either store, at any row (`AppendFails`); other allocations, and
the conversion of a count that is finite and beyond `size_t`, are left out.

Four history variables, read by no action, record the accepted waypoints, those
of past trajectories, past trajectories and the samples of the active one.

The refinement to `MotionStream` maps the plan to the past, the active and the
staged trajectory at their global times. It says in one formula what the session
is for: motions follow each other without a gap, samples move forward at most one
period at a time and pass through every motion, what has been sampled through is
never revised, and the one instant between two motions is sampled once.

### WaypointStore

A chunk lives at an address of a heap, which may be used again once the chunk is
released; a view is an address and an offset. This is what it takes to state that
no view dangles and that none reads a chunk with a stride it was not shaped for.
`append_fails` is an append that runs out of memory at any row. The refinement to
`RowLog` reads the rows through the views, so a view that dangles, or that reads
another row than the one it was made for, is not a step of a log.

### PathBuilder

One step is one iteration of the coalescing loop (with the re-test of all skipped
waypoints, from a line or with one of the two ends of the tube) or of the
construction loop (a blend, a hard stop, or nothing where two blends take a
segment in full). Waypoints are points of the integer plane and the tube is exact.
Corners are blended where both segments lie along an axis: there all lengths are
integers and the deviation and curvature options become the trims they allow. A
distance measured from a blend's computed exit carries a residue out of
`Residues`, some units of the last place, which is how the comparison with the
length of a sliver can go either way.

### PathCursor and TrajectoryCursor

Arc lengths and times are integers, the infinities the integers next to the path
or trajectory. A geometric quantity is the segment and position it was evaluated
from, so that a stale or misplaced evaluation is visible. `TrajectoryCursor` adds
the integration points; its arithmetic is exact (accelerations are even). The
assumption `TrajectoryAssumption` states what the constructor of `trajectory` and
its test overload enforce of points that are given (`Accepted` of
`IntegrationPoints`; generated points bypass these checks, and would pass them, as
`HandedOver` of `TrajectoryGeneration` says), `ForwardAssumption` that no integration point
extrapolates to a negative arc length, which the code relies on as well: it clamps
at the end of the path only.

### Kinematics and ArmModel

Vectors and rotations are exact: a rotation is what it does to the axes, joints
turn by quarters, an axis is a multiple of a coordinate axis. A behaviour of a
chain is a builder's calls, then any calls for the motion of a frame or of the
tool, all in one workspace, whose entries from an earlier call or another frame
are there to be read by mistake. `MotionAgrees` compares the code's running sums
from base to tip with relative motion, computed from tip to base. `ArmModel` walks
a configuration from its output frame up to the root and back down;
`ToolAgrees` compares the end of the chain it makes with the model's own
transforms, through the parents of the frame.

### SwitchingPoints and TrajectoryGeneration

Arc length is counted in units. A unit is the tolerance `epsilon` and the stride of
the scan of the velocity curve; a limit curve is a positive number at each unit of
each segment, and the two segments at a boundary may differ there. What depends on
slopes is given with the path: `delta` of equation 40 at each unit, the places
where a joint comes to rest on a blend, whether equation 38 holds at a boundary,
whether the tangent jumps there. The searches are then exact: the order of the
candidates, the bounds, the filters against the other curve, the choice between
two results, and the cache with its rules for dropping entries and for remembering
that there is nothing left.

In `TrajectoryGeneration` a step may go to any velocity and as far as `Stride`,
within what quantization to segment ends leaves: the accelerations that would
select one are not computed, so every behaviour of the code's loops has its
counterpart and some have no arithmetic behind them. What a step is then tested
for, and what follows, is the code's: tangent discontinuities, the bisection of a
breach (which ends at neighbouring units), sink and trap, clamping of overshoots,
limits hit at once, the sliding window with its two ways to meet the forward
points, the splice with its repairs, `ensure_progress` and every other error. An
acceleration is modelled as the point it leads to, and the time of a step as its
length: this is what it takes to see one that belongs to a pruned neighbour.
Errors of the arithmetic may come at any step. The pruned points kept for
observers are left out; the events themselves are in `told`. Behaviours that
the model has and the arithmetic excludes matter only to the run that expects a
violation; what geometry its counterexample stands for is said there.

### Observers

The calls in progress are a stack: a generation that emits events, a dispatch of
one of them, a dispatch of a failure, an exception on its way up. An observer that
is told of an event may return, throw, or generate a trajectory that the same
composite observes, and one that is told of a failure whatever `FailureReactions`
says. A generation emits events in the orders that `EventsInOrder` of
`TrajectoryGeneration` allows.

### CApi and GoBindings

A call of the C interface maps a heap to its possible results: the heap it leaves,
its code, the handle and the diagnostic. Wherever the code allocates, that may
fail. `GoBindings` takes one step per C call, with the pointers that the Go code
holds, and lets the context be cancelled between any two. A tensor is its element
type, its shape and one datum, enough to tell whose motion it is of. The caller
may close anything it holds at any time between calls. Callers are split into four
(`Programs`), by the calls they make.

### WaypointUtils, Planner and MlModel

A waypoint is a pair of integers. Reversals are exactly straight back and
distances are compared squared, so that the operators are exact where the code
is approximate. A behaviour is one call of `infer`: the planner is made for the
call. Each generator handles its segments one at a time, and any of them may
fail. A sample is its time and, at the ends of a segment, the waypoint there. The
legacy generator is the third-party one, and only what `planner.hpp` makes of it
is modelled.

### MoveIt

A behaviour is one request. `adapt` locks its node, if it is still there, and reads
its parameters one at a time; `set_parameter` may come between two reads, and the
node may go. `compute_` is then one action for each part of it that may throw, in the
code's order, and `Throws` may come between any two:

| Action | Code (`time_parameterization.cpp`) |
|---|---|
| `computeTimeStamps` | the constructor's checks, the limits, and `unwind` in place (89-194) |
| `Generate` | deduplication and `trajectory::create`, or the first state alone (196-222) |
| `AssembleOne` | one sample put into `result` (225-239) |
| `clear` | the planner's states are given up (241, 214) |
| `addSuffixWayPoint` | one state is put in their place (242-245, 215) |
| `Throws` | the handlers, which return false with the trajectory as it is (246-252) |

There are two joints, the first of which wraps around. Of a generated trajectory the
model keeps the points and limits it was made from and its duration, which may be
anything: how limits determine a duration is the subject of `TrajectoryGeneration`,
not of this module. `Generate` may also throw for any request, so a request that
`create` would refuse is among those it does. The states in between the ends of a
timed trajectory are their times only. `inforce` remembers the settings there have
been, read by no action.

## Runs

| Run | Asks | Bounds, and why they are enough |
|---|---|---|
| `session` (`MCSession.cfg`) | `WaypointsConserved`, `StagedMotionContinues`, `EmittedStillPlanned`, `SamplerAhead`, `FailedExtendChangesNothing`, `DeltaIsGrowth`, `StreamSpec` and `EverythingSampled`, with samplers that always build and memory that lasts | two configurations of one arm and one of another width, batches of up to three rows, four accepted waypoints; a period of two ticks; five trajectories of one to five ticks that share prefixes, part inside a step, between points or never, and are shorter than, as long as, or longer than a period. That gives pivots, refusals of both kinds, staging that grows, rebases on both sides of the terminal and onto a motion too short for a grid. 95,955 states |
| `session_throws` (`MCSessionThrows.cfg`) | `FailedExtendKeepsMotion`, when samplers fail to build and memory runs out | `MaxCount` of 3, which the longer trajectories exceed when they are sampled from their start; appends that fail at any row; three accepted waypoints. 54,128 states |
| `front_ends` (`MCFrontEnds.cfg`) | of the service, `AlwaysAnOutcome`, `ResultIsWhole`, `PreprocessingFaithful`, `SegmentsAreTheMotion`, `ColinearizationStaysClose`; of the MoveIt adapter, `PlanSurvivesUntilReplaced`, `SuccessIsTimed`, `SettingsReadInOrder` | up to five waypoints on a line with near duplicates and reversals, and up to four on a bend that colinearization can drift on, so that there are chains of duplicates, reversals next to each other, up to four segments and a failure at each; each choice of generators. Plans of up to three states that wrap around or not, limits from the model or from messages, a later one of which replaces an earlier, with bounds of different size on either side and scalings that differ and are out of range; two changes of parameters between any two reads, so that a request may read parts of two settings; motions shorter and longer than a period, with a throw after every step, between samples and between additions too. 2,444,357 states |
| `geometry` (`MCGeometry.cfg`) | `HintLocates`, `CacheCurrent`, `SampleIsFresh`, `SkippedInTube`, `PathJoined`, `NoSliver`, `MotionAgrees`, `ToolAgrees`, `LogSpec`; of the composite observer, `AllToldAlike` | for `create`, every route of two or four steps out of eight, with options that coalesce or not and blend in each of the ways; four path segments of unequal length and seeks everywhere and beyond; five integration points, the last step clamped; chains of up to four joints out of four kinds, under two positions and two rates; every row of four links and joints; chunks of two rows, rows of two widths and three addresses, so that appends cross chunks, truncations leave empty ones, and an emptied store is refilled at another width; two observers, a third added at any time, generations of up to five events and two more nested in the first; observers that are told of a failure return. 116,072 states |
| `trajectory_generation` (`MCTrajectoryGeneration.cfg`) | `CacheTransparent`, `TimesAddUp`, `AccelerationsLeadOn`, `UnderTheCurves`, `HandedOver`, `EventsInOrder`, `NeverBehind` and `Ends` | six paths of at most six units, one for each thing that stops a pass: an extremum, a step of the acceleration curve, a trap with an escape, a trap to the end, a crossing, several in a row; and sixteen with a blend between two lines, where several switching points meet; `Stride` 2 and `Top` 3, so that steps are longer and shorter than forward segments. 292,582 states |
| `bindings` (`MCGoBindings.cfg`) | `HandlesOwned`, `ViewsStand`, `NothingLostSilently`, `OutputsWhole`, `ChainAsGiven` | ten addresses, more than any call needs at once; tensors that can be built, cannot, and are of the wrong type; a cap that needs a chain; joint lists with a joint that is unset or refused; sessions of two samples. 820,962 states |

Six runs expect a violation; each records a disagreement between the code and
what the repository says of it (see `findings` in `PROJECT.json`):

* `session_branch` (`EmittedUncontradicted`): a pivot is admitted when the *old*
  trajectory's first differing point is ahead of the latest sample. The new
  trajectory may have an extra point before that and so differ, contrary to the
  comment at the test, where a sample has been taken. What does hold is
  `EmittedStillPlanned`.
* `session_overflow` (`FailedExtendChangesNothing`): when the sampler cannot be
  built, `extend` throws and leaves the appended rows in its store, contrary to the
  comment above the statement. The motion itself is unharmed
  (`FailedExtendKeepsMotion`).
* `mlmodel_times` (`SampleTimesAdvance`): the sample times of `infer` start again
  at every segment.
* `moveit_memory` (`FailureKeepsTheMotion`): a request may fail while the timed states
  are added to the cleared trajectory, and then leaves neither motion, contrary to the
  comment that a later failure leaves the planner's one unwound. What does hold is
  `PlanSurvivesUntilReplaced`.
* `generation_end` (`EndIsFinite`): when the last forward pass hits a limit curve
  and no switching point is left, the end of the path gets an acceleration that is
  not a number, which a test rules out for the one path it tries. On a straight last
  segment this takes a TCP limit that falls faster than the arm can brake, or a limit
  that falls at the last boundary at which no switching condition holds.
* `observers_call_back` (`NeverReentered`): while the composite tells its observers
  of a failure its dispatching flag is not set, so that one of them may add an
  observer or dispatch again, which the header says is refused. `AllToldAlike` holds
  as long as no observer does.

Four more disagreements, noted while modelling, have no run of their own:

* the last waypoint of `deduplicate_waypoints` replaces the last one kept without
  being compared to the one before it (`waypoint_utils.cpp:35`), so that two
  waypoints within the tolerance can be left (0, 2, 1 with a tolerance of 1);
* a seek before the path goes to minus infinity (`path.cpp:786`) where
  `path.hpp:696` says that it clamps to zero;
* the search for extrema keeps one that the cursor is exactly at
  (`trajectory.cpp:536`), which the comment at line 535 says it avoids; a pass that
  hits a limit at once there finds it again, and `ensure_progress` gives up;
* `Generate` says that the result is discarded when its context is cancelled in
  flight (`src/go/totg/totg.go:70`); the C call has replaced the outputs by then and
  they stay replaced. `OutputsWhole` states what holds: they are replaced together,
  or not at all.

Deadlock is not checked in `front_ends`, `mlmodel_times` and `geometry`, where a
behaviour is one call, or one object that is built and then used up, and ends when
it returns. Everywhere else it is.

Type invariants are not checked by runs: they are proved where there are proofs,
and elsewhere a value of a wrong type would stop TLC in the other properties.

**Fairness.** `FairSpec` is weakly fair to `Sampling` and to `SampleOne`. The
second says that a sampling call in progress goes on to return, which its loop
does. The first is an assumption about the caller, who is expected to keep pulling
samples; without it nothing is promised. Nothing is assumed of batches, and
`start_staging` may come at any time. The bound on accepted waypoints ends the
batches, which `EverythingSampled` needs. `GenerationFairSpec` is weakly fair to
the next step of `trajectory::create`, one loop in one thread that waits for
nothing; that it ends is then for the model to show, and needs `ensure_progress`.

## Proofs

`SessionProofs` proves of `Spec`, for all batches, trajectories, periods and
bounds that satisfy `SessionAssumption`:

* `TypeCorrect`: `TypeOK`;
* `SamplerCorrect`: `SamplerAhead`, the next sample is within one period of the
  latest and an exhausted sampler has sampled the very end;
* `Pacing`: `EmissionPaced`, its consequence for every step of the session;
* `EmittedKept`: `EmittedStillPlanned`;
* `FailuresKeepMotion`: `FailedExtendKeepsMotion`, failing samplers and appends
  included.

`SamplerAhead` is not inductive: it says nothing of the grid that the sampler is
on, or of sessions that have not been sampled. The invariant `SamplerInv` adds
`TypeOK` and `Shape`: the sampler of an active trajectory is on a grid over it
(`Grid`), the clock is not before the epoch once a sample has gone out, before
that clock, epoch and sampler are at their origin, and staged trajectory and
staged waypoints come together. The core of the argument is arithmetic: the
lemmas on quantized grids (`QuantizedCount`, `StepBounds`, `InnerSample`,
`GridSample`) show that consecutive points of a grid of `ceil(span/Period) + 1`
points are between one tick and one period apart. Then there is one lemma per
group of actions, and `SamplerInvNext` puts them together. `EmittedKept` needs
in addition that a sampled point is governed by an integration point not after
the latest sample (`EmittedInv`); a pivot keeps every such point because the branch
lies after the latest sample (`BranchKeepsPrefix`, `PivotKeepsEmitted`).

`SessionProofs` also proves `ImplementsStream`, `Spec => StreamSpec`: the session
implements `MotionStream`, for the same constants and with every failure. Each
action is a step of the stream or none: a first build and a staged trajectory are
`Follow`, a replaced staged trajectory and a pivot are `Revise`, a sample is `Begin`,
`Sample` or `Cross`. That a pivot satisfies `Keeps` is `BranchKeepsPrefix` once more;
that a sample is at most a period on and stays within its motion comes from
`SamplerInv`. To it the proof adds `PastInv`, that nothing is past before the first
sample.

Of rows and replies it proves:

* `RowsConserved`: `WaypointsConserved`, the rows in the stores, past and present,
  are the waypoints accepted, in order;
* `StagingContinues`: `StagedMotionContinues`;
* `FailuresChangeNothing`: `FailedExtendChangesNothing`;
* `DeltaReported`: `DeltaIsGrowth`;
* `CallsKeepTheirWord`: `CallsReturnWhatTheyPromise`, which is proved only and part of
  no run.

All but `DeltaReported` are proved from `Reliable`: memory does not run out and every
sampler that the session asks for can be built. Without it they are false
(`session_overflow`), and `FailuresKeepMotion` is what is left. `RowsInv` strengthens
the first two, which need each other: a rebase moves the staged rows behind the
active ones, and drops the row they share because staged motion starts at the last
active row. It adds that nothing is retired while there is no active trajectory.

`PathProofs` proves of the store `StoreImplementsLog`, `StoreSpec => LogSpec`, for every
chunk size, set of addresses, widths and batches: the rows that the views read are a
log. The invariant `StoreInv` says that the chunks in the list are distinct, are all
that is allocated, and are shaped for the width of the rows; that there are as many
views as rows; and that view `i` is cell `i % ChunkRows` of chunk `i \div ChunkRows`.
`WriteStep` is the core: an append writes only cells past the last row, in chunks that
it allocates or that a truncation has left, so the rows already there read as before.
`KeptRows` says the same of a truncation and of `reset_to_last`, which overwrites row
zero.

`TrajectoryGenerationProofs` proves of `GenerationSpec`, on every path, whatever its
limit curves and the course of the integration:

* `CacheChangesNothing`: `CacheTransparent`, the search that keeps what it found
  returns what two complete searches would;
* `TimesAreSums`: `TimesAddUp`;
* `AccelerationsLead`: `AccelerationsLeadOn`;
* `KeptUnderTheCurves`: `UnderTheCurves`;
* `PassesHandOver`: `HandedOver`; that the points would be accepted if they were given
  rests on each leading on to the next (`TrajectoryOrdered`);
* `StaysAhead`: `NeverBehind`;
* `EventsOrdered`: `EventsInOrder`, from `ToldInPhase`, which relates what has been told
  to the phase of the integration.

None but the last is inductive. `GenerationInv` says for each phase what the next one
relies on. `CacheInv`: a cached switching point that is still ahead of a position is what a
complete search from there would find, for every position that is still to come. `Trajectory`: the points start at rest, and each one
leads on to the next (`Leads`: position, time and acceleration agree, both under the
curves). In the forward pass the last point leads on to the current one
(`InForward`); at the turn the switching point is ahead (`Ahead`); in the backward pass
the backward points are a trajectory when read from their end (`Backwards`), which is
what the splice reverses and times anew. Searches and splices are functions or
quantifiers over sequences, whose inductions are done by a least counterexample
(`NaturalOrder`). `TangentAssumption` is needed: where a candidate extremum is at the
very end of its segment, the search that goes on from there and the one that starts
there would disagree if the velocity curve fell at that boundary. Extrema are found on
circular segments, which a path leaves tangentially.

`GoBindingsProofs` proves of `Spec` of `GoBindings`, for every program of calls and
every allocation that fails:

* `OneOwnerEach`: `HandlesOwned`;
* `ViewsLast`: `ViewsStand`;
* `LossesAnnounced`: `NothingLostSilently`;
* `ChainsAsGiven`: `ChainAsGiven`;
* `AllOrNothing`: `OutputsWhole`.

The last two are action properties. The invariant `GoInv` has four parts. `Owned`: each
pointer that is not null is to a live object of its kind, no two are to the same one,
and every live object has one. `LocalsHeld`: the locals of a call are null but at the
steps that need them, so that a call that returns leaks nothing. `CallOK`: what has
become of the inputs and outputs at each step of a call. `CallerOK`: what the caller has seen. Each function
of the C interface changes one object and at most the pointer to it; `Moves` says so,
and composes, so that an action's lemma looks at the objects it changes and no others.
`CallerAssumption` is what the types of Go and the checks at the boundary give: data
are natural numbers here, and a joint is of one of four kinds.

`PathProofs` proves of the path that `create` builds, for all waypoints and options and
whatever rounding adds:

* `DroppedAreNear`: `SkippedInTube`;
* `BuiltInOnePiece`: `PathJoined`;
* `NothingOfRounding`: `NoSliver`;
* `BuiltPathsCarryCursors`: the starts of its segments and its length are laid out as
  `PathAssumption` asks (`EndToEnd`), so that what is proved of cursors holds on it.

The invariant `BuildInv` says that the waypoints between two that were kept are in the
tube between them (`KeptOK`); that the segments emitted so far join up, each starting at
the sum of the lengths before it (`LaidOut`); and where emission stands (`Standing`): at
the corner before, or where its blend left the segment, having taken half of it at
most. That leaves the next blend its own half, and says when the two halves meet and
nothing may be emitted between them. `BuilderAssumption` has the residues contain one
that is as large as any, up or down, which is what the tolerance of a sliver covers.

Of the cursors, for every path, every set of integration points that satisfies the
assumptions, and every history of calls, it proves:

* `PathCursorCorrect` and `CacheIsCurrent`: `HintLocates` and `CacheCurrent` of
  `PathSpec`;
* `HintsCorrect`: `TypeOK` and `HintGoverns`;
* `SamplesAreFresh`: `SampleIsFresh`.

The argument: whatever short cut finds a segment (or point) that holds the
position, it is the one a search would find, since at most one does
(`HeldIsSearched`, `GoverningIsSearched`). The cache then holds what would be
evaluated now, as it is discarded whenever the position moves and the hint does
not move without the position. `CursorInv` adds to the properties that the path
cursor stands at the arc length reached by `time` while `time` is in range.

`KinematicsProofs` proves `MotionsAgree`, `MotionAgrees` of `KinematicsSpec`, for every
chain that can be built, however long, every frame of it, and all positions, velocities
and accelerations. `ChainTyped` says what a built chain is made of: rotations, and unit
axes where a joint moves. The algebra comes first: a rotation is linear and keeps what
is across what (`RotateCross`), a product of rotations and a turn about a unit axis are
rotations, and what is across obeys the identity of Jacobi. The argument then looks at
the motion `w[i]` of the tip as the base sees it when the joints up to `i` stand still
(`Worlds`). At the tip it is rest, at the base it is what relative kinematics says
(`WorldsAre`), and from one joint to the next it grows by what that joint adds, in
world coordinates and from the axis and origin that the walk has kept (`JointStep`).
The sums of the Jacobian's columns are thus the velocity and the spin
(`VelocityAgrees`, `SpinAgrees`). For the acceleration, the loop's sums and what is
still ahead of them make up the whole after every joint (`LoopStepKeeps`,
`AccelerationAgrees`); the lever arm's change is where the velocity of all the joints,
those after this one included, comes in. `KinematicsAssumption` has the axes along
coordinate axes and rotations that are rotations: the numbers here are integers.

It also proves `ToolsAgree`, `ToolAgrees` of `ArmSpec`, for every model and every tool.
The code goes down from the root and gives each joint the poses of the links before it;
the model goes up from its output frame. The two meet since rigid transforms are
associative (`ThenRules`): what the model composes on the way up is what the same
transforms come to on the way down (`TransformIs`), which ends as a line of frames has
no frame twice and so is no longer than the configuration (`LinesAreShort`). `Converted`
is the invariant of the way down: the end of the chain made so far, followed by the
transform that is kept for the next joint, is where the model has the frame reached. A
link moves that transform on (`LinkConverted`), a joint takes it and turns or slides as
the model's does (`JointMovesAlike`, `JointConverted`), the last joint has the rest and
the tool (`ToolConverted`). All this holds for inputs that drive the joints made so far
(`DrivenBy`); that they do is what the comparison of names at the end of the code makes
sure of, as names on a line are distinct. `ArmAssumption` is the types of a
configuration, with an input for each moving joint and joint axes that are not zero,
which the chain's builder refuses.

`ObserversProofs` proves `ToldAlike`, `AllToldAlike` of `ObserversSpec`, for any
number of observers, registered or added, any order of events, and observers that throw
or generate when they are told of an event. The invariant `ObserversInv` says that there
are at most three calls in progress, and which: a generation alone, a dispatch in it up
to some observer, or a failure told up to some observer, with what each has heard by
then. This needs `CallsBackNever`, that an observer which is told of a failure neither
generates nor adds: one that does is told of events that others are not
(`observers_call_back`).

`FrontEndProofs` proves of `Spec` of `MlModel`, for all waypoints, tolerances and
failures:

* `AlwaysDecides`: `AlwaysAnOutcome`;
* `DroppedHaveStandIns`: `PreprocessingFaithful`;
* `CutAtReversals`: `SegmentsAreTheMotion`;
* `LinesStayClose`: `ColinearizationStaysClose`;
* `SamplesAreWhole`: `ResultIsWhole`;

and of `MoveItSpec`, for all plans, limits, parameters, durations and interleavings, and
wherever something throws:

* `FailureKeepsPlan`: `PlanSurvivesUntilReplaced`;
* `SuccessTimed`: `SuccessIsTimed`;
* `ReadInOrder`: `SettingsReadInOrder`.

The middle three of the service's are about loops over waypoints. Each loop is a
function defined by recursion on its index; `Recursion` of `NaturalOrder` says that
there is one, and the loop's invariant is carried along its index: what is kept stands
for all that has been looked at (`StandsFor`); the segments made so far cut the motion
up to here, at its reversals (`Segmented`); all that has been skipped is close to the
lines that replace it, and what is skipped since the last one kept, to the line that
ends here (`KeepsClose`). `ServiceInv` then says at each phase what the outcomes are:
every trajectory received is that of the segment in its place, and a generator that is
done has all of them, or an error and no receiver. That every configuration registers a
generator is an assumption (`PlannerAssumption`), which the service's parser enforces.

For `SamplesAreWhole`, the samples of one trajectory pass through the ends of its
segment (`SampledPasses`), and samples that pass through some stops and end where others
begin pass through both (`TogetherPassThrough`), so that what is put together from the
receivers passes through all ends in order.

For MoveIt, `AnswerInv` says at each stage what the trajectory is: the plan, the plan
unwound, or the first states of what has been assembled, which is by then one state at
rest or every sample of the motion (`Complete`). That neither `Complete` nor the limits
change while states are added is what the two theorems about the answer rest on.
`FailureKeepsPlan` then follows from unwinding being by full turns (`UnwindKeeps`) and
from the waits of the samples adding up to the duration (`SamplesAreTimed`).
For `SuccessTimed`, unwinding leaves successive states at most half a turn apart, where
the way between them is the shortest one around (`AroundLeast`, `WayOfTurned`);
waypoints picked in order are no longer a way than all of them (`ShortcutsAreShorter`),
and those that deduplication leaves are picked in order and near the others
(`DeduplicationPicks`), which makes `PlanIsFollowed`; and each limit is the latest
message's, or no more than either bound of the model, scaled (`LimitsAreWithin`).
`ReadInv` says that what is read next is the latest setting in force, so that readings
are in the order of the settings. `MoveItAssumption` is the types of a request and of
the parameters.

The assumptions are named `ASSUME`s; TLC evaluates them on the instances.

Only model-checked is liveness, which is out of the prover's reach: `EverythingSampled`
and `Ends`.

## What is not modelled

* Floating point: the arithmetic of limit curves, acceleration bounds and TCP limits,
  the geometry of blends between arbitrary directions, and rounding, other than as the
  residues of `PathBuilder`. `src/src/viam/trajex/totg/path.hpp`, `trajectory.hpp` and
  `chain.hpp` are declarations and inline accessors.
* `trajectory::create` with given integration points, whose checks are the
  assumption `TrajectoryAssumption`; the pruned points it keeps for observers.
* The event collector of `observers.cpp`, which appends each event to a list.
* Of the session: allocations other than those of its stores; and the width that the
  store notes when the very first row of a session fails to be stored
  (`WaypointStore` has that case).
* In the MoveIt adapter, what `trajectory::create` makes of limits and points, other than
  that it has a duration; velocities and accelerations of the timed states; and groups
  of other than two joints.
* `planner.cpp`, the move validator and the failure callbacks of the planner, planners
  without a preprocessor or a segmenter; the C++ iterators over samples.
* Of the C interface and the Go packages: getters, versions and metadata, conversions
  between arrays and tensors, typed variants, error types, and `StartStaging`, which
  the count of samples that stands for a session behind a handle does not show. The
  service's status and registration.
* The legacy compatibility layer, replay and JSON, strong types, scripts and
  benchmarks: conversions, helpers and measurement, which keep no state and decide
  nothing that depends on order.

## What could follow

In the order of what it would add: that the accelerations and velocities of generated
points satisfy `ForwardAssumption`, for which the steps of the integration would need
their arithmetic; and `Observers` composed with `TrajectoryGeneration`, in place of the
order of events that the one takes from the other.
