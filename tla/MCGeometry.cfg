SPECIFICATION MCSpec
CONSTANTS
  Start <- MCStart
  Length = 7
  Positions <- MCPositions
  Deltas <- MCDeltas
  Points <- MCPoints
  Times <- MCTimes
  Offsets <- MCOffsets
  Inputs <- MCInputs
  Options <- MCOptions
  Unit = 8
  Residues <- MCResidues
  JointChoices <- MCJointChoices
  MaxJoints = 4
  JointPositions <- MCJointPositions
  Rates <- MCJointRates
  Models <- MCModels
  Tools <- MCTools
  a = a
  b = b
  z = z
  p1 = p1
  p2 = p2
  p3 = p3
  Row <- MCRow
  Dof <- MCDof
  Batch <- MCBatch
  ChunkRows = 2
  Address <- MCAddress
  MaxRows = 6
  FailureReactions = {"returns"}
  MaxDepth = 7
  MaxEvents = 5
  MaxObservers = 3
INVARIANTS
  HintLocates
  CacheCurrent
  SampleIsFresh
  SkippedInTube
  PathJoined
  NoSliver
  MotionAgrees
  ToolAgrees
  AllToldAlike
PROPERTIES
  LogSpec
CHECK_DEADLOCK FALSE
