SPECIFICATION Spec
CONSTANTS
  a = a
  b = b
  f = f
  Char <- MCChar
  Threads = {main, worker}
  Main = main
  DebugBuild = TRUE
  Options <- MCOptions
  Labels <- MCLabels
  Blocks <- MCBlocks
  DelimBlocks <- MCDelimBlocks
  MaxDepth = 1
  MaxBlocks = 5
  MaxTime = 4
INVARIANTS
  TypeOK
  RoiFlagTracksRegion
  SeparateCallsNumbered
  NoLabelWarning
  NamesUnique
  AbortMeansIncomplete
PROPERTY MeterSpec
