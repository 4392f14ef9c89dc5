SPECIFICATION MCSpec
CONSTANTS
  Input <- MCInput
  Config <- MCConfig
  Tolerance = 1
  Diameter = 2
  Durations = {2, 5}
  Period = 3
  Requests <- MCRequests
  Settings <- MCSettings
  TravelTimes <- MCTravelTimes
  Turn <- MCTurn
  Changes <- MCChanges
INVARIANTS
  AlwaysAnOutcome
  PreprocessingFaithful
  SegmentsAreTheMotion
  ColinearizationStaysClose
  ResultIsWhole
  PlanSurvivesUntilReplaced
  SuccessIsTimed
  SettingsReadInOrder
CHECK_DEADLOCK FALSE
