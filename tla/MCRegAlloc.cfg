CONSTANTS
  v1 = v1
  v2 = v2
  v3 = v3
  v4 = v4
  ax = ax
  xmm = xmm
  none = none
  b1 = b1
  b2 = b2
  NONE = none
  Value <- MCValue
  Block <- MCBlock
  Entry = b1
  GPReg = {ax}
  SSEReg = {xmm}
  MaxUses = 255
  MaxRuns = 1
  Funcs <- SafetyFuncs
SPECIFICATION MCSpec
INVARIANTS NoConflict AllocationFits ErrorIsGenuine FrameCovers
PROPERTIES Terminates
CHECK_DEADLOCK FALSE
