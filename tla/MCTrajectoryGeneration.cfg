SPECIFICATION GenerationFairSpec
CONSTANTS
  Paths <- MCPaths
  Stride = 2
  Top = 3
INVARIANTS
  CacheTransparent
  TimesAddUp
  AccelerationsLeadOn
  UnderTheCurves
  HandedOver
  EventsInOrder
  NeverBehind
PROPERTY
  Ends
