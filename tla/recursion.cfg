SPECIFICATION Spec
CONSTANTS
  a = a
  b = b
  f = f
  Char <- MCChar
  Threads = {main}
  Main = main
  DebugBuild = FALSE
  Options <- TraceOptions
  Labels <- MCLabels
  Blocks <- MCBlocks
  DelimBlocks <- MCDelimBlocks
  MaxDepth = 2
  MaxBlocks = 3
  MaxTime = 4
INVARIANT WholeExecutionTraced
