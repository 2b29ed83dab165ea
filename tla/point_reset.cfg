SPECIFICATION Spec
CONSTANTS
  a = a
  b = b
  f = f
  Char <- MCChar
  Threads = {main}
  Main = main
  DebugBuild = FALSE
  Options <- PlainOptions
  Labels <- MCLabels
  Blocks <- MCBlocks
  DelimBlocks <- MCDelimBlocks
  MaxDepth = 1
  MaxBlocks = 3
  MaxTime = 4
INVARIANT PointBytesSplit
