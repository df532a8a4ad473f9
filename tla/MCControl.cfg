CONSTANTS
  TAG_COUNT = 3
  r1 = r1
  r2 = r2
  none = none
  Regs = {r1, r2}
  NoReg = none
  Insns <- MCInsns
SPECIFICATION ControlSpec
INVARIANTS
  RecentIsYoungest
  GprHazardExact
  FlagHazardExact
