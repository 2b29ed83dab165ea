SPECIFICATION Spec
CONSTANTS
  alice = alice
  bob = bob
  carol = carol
  d1 = d1
  d2 = d2
  d3 = d3
  d4 = d4
  ls = ls
  ps = ps
  bin_ls = bin_ls
  fp64 = fp64
  fp32 = fp32
  p = p
  q = q
  NoFile = NoFile
  Broken = Broken
  NoDir = NoDir
  Shells = {alice}
  Dirs = {d1}
  Apps = {ls}
  PathApps = {}
  Rooflines = {fp64}
  Labels = {p, q}
  Commands <- ErtCommands
  MaxCommands = 1
  Outcomes <- MCOutcomes
  InitialDirs <- NoDirs
  InitialRooflines <- HasFp64
INVARIANT RooflineInPlace
