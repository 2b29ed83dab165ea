SPECIFICATION Spec
CONSTANTS
  a = a
  b = b
  f = f
  Char <- MCChar
  Threads = {main}
  Main = main
  DebugBuild = FALSE
  Options <- TraceTimeOptions
  Labels <- MCLabels
  Blocks <- MCBlocks
  DelimBlocks <- MCDelimBlocks
  MaxDepth = 1
  MaxBlocks = 3
  MaxTime = 4
PROPERTY MergedTimeKept
