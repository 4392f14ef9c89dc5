SPECIFICATION GenerationSpec
CONSTANTS
  Paths <- MCPaths
  Stride = 2
  Top = 3
INVARIANTS
  EndIsFinite
