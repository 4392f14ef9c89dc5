SPECIFICATION Spec
CONSTANTS
  a = a
  b = b
  z = z
  up = up
  flat = flat
  down = down
  rest = rest
  Waypoint <- MCWaypoint
  Dof <- MCDof
  Batch <- MCBatch
  Motion <- MCMotion
  Trajectory <- MCTrajectory
  Period = 2
  MaxCount = 3
  Exhausts = FALSE
  Demand = {1, 2}
  Horizon = {0, 3}
  MaxAccepted = 4
PROPERTIES
  FailedExtendChangesNothing
