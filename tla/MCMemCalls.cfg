SPECIFICATION FairSpec
CONSTANTS
  FirstMcb = 1
  SysParas = 0
  Top = 7
  Roots = {4, 65535}
  BridgeParas = 0
  Psps = {1, 2}
  Sizes = {0, 1, 3}
  FFFF = 65535
  Modes = {0, 1, 130}
INVARIANT TypeOK
INVARIANT ChainIntact
INVARIANT NeverPanics
PROPERTY ArenaSpec
PROPERTY CallsReturn
CONSTRAINT Bound
