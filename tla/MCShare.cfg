SPECIFICATION Spec
SYMMETRY Alike
CONSTANTS
  p = p
  q = q
  f = f
  g = g
  Procs = {p, q}
  Files = {f, g}
  None = None
  NSft = 2
  FileTableSize = 2
  LockTableSize = 2
  Top = 3
  Regions <- FewRegions
  Modes <- FewModes
  Outcomes = {"ok", "fail", "abort"}
  MaxCount = 2
INVARIANT TypeOK
INVARIANT SlotsMatch
INVARIANT FreeCounts
INVARIANT OpensAgree
INVARIANT LocksApart
INVARIANT TransfersRespect
INVARIANT OpenFilesStay
