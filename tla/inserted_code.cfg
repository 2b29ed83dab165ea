SPECIFICATION SpecInserted
CONSTANTS
  a = a
  f = f
  Char <- MCChar
  Threads = {main, worker}
  Main = main
  DebugBuild = TRUE
  FLOATING_POINTS_ARM = TRUE
  Options <- MCOptions
  Labels <- MCLabels
  Blocks <- MCBlocks
  DelimBlocks <- MCDelimBlocks
  Code <- MCCode
  MaxDepth = 1
  MaxBlocks = 4
  MaxTime = 1
  MaxRefs = 6
  MaxLen = 3
  MaxBare = 1
INVARIANT TypeOKInserted
INVARIANT NoOverflow
PROPERTY CoarseSpec
