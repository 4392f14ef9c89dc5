SPECIFICATION Spec
CONSTANTS
  Addr = {a1, a2, a3, a4, a5, a6, a7, a8, a9, a10}
  NULL = NULL
  MaxSamples = 2
  Keys <- MCKeys
  TensorsFor <- MCTensorsFor
  JointLists <- MCJointLists
  Prepared <- MCPrepared
  Programs <- MCPrograms
INVARIANTS
  HandlesOwned
  ViewsStand
  NothingLostSilently
PROPERTIES
  OutputsWhole
  ChainAsGiven
