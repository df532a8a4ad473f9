CONSTANTS
  TAG_COUNT = 4
  HASH_CYCLES = 8
  x = x
  y = y
  none = none
  Regs = {x, y}
  NoReg = none
  Insns <- FpInterruptInsns
SPECIFICATION PipelineSpec
INVARIANTS
  NoSpuriousCompletion
VIEW View
