SPECIFICATION Spec
SYMMETRY Alike
CONSTANTS
  r = r
  a = a
  b = b
  Segs = {r, a, b}
  None = None
  Root = r
  NSft = 2
  StdFiles = 1
  MaxFiles = 2
  Outcomes = {"ok", "fail", "abort"}
  Kinds = {"file", "device"}
  Fcbs = TRUE
  MaxLost = 1
INVARIANT TypeOK
INVARIANT CountsMatch
INVARIANT NoInherit
INVARIANT MemoryOwned
PROPERTY ExecUndone
