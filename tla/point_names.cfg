SPECIFICATION Spec
CONSTANTS
  a = a
  b = b
  f = f
  Char <- MCChar
  Threads = {main}
  Main = main
  DebugBuild = FALSE
  Options <- PlainOptions
  Labels <- NumberedLabels
  Blocks <- MCBlocks
  DelimBlocks <- MCDelimBlocks
  MaxDepth = 1
  MaxBlocks = 4
  MaxTime = 4
INVARIANT NamesUnique
