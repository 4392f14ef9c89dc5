SPECIFICATION FairSpec
CONSTANTS
  a = a
  b = b
  z = z
  up = up
  flat = flat
  down = down
  rest = rest
  Waypoint <- MCWaypoint
  Dof <- MCDof
  Batch <- MCBatch
  Motion <- MCMotion
  Trajectory <- MCTrajectory
  Period = 2
  MaxCount = 100
  Exhausts = FALSE
  Demand = {1, 2}
  Horizon = {0, 3}
  MaxAccepted = 4
INVARIANTS
  WaypointsConserved
  StagedMotionContinues
  EmittedStillPlanned
  SamplerAhead
PROPERTIES
  FailedExtendChangesNothing
  DeltaIsGrowth
  StreamSpec
  EverythingSampled
