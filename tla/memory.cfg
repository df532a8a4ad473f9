CONSTANTS
  TAG_COUNT = 4
  HASH_CYCLES = 8
  x = x
  y = y
  none = none
  Regs = {x, y}
  NoReg = none
  Insns <- MemoryInsns
SPECIFICATION PipelineSpec
INVARIANTS
  PipelineTypeOK
  CompletesInOrder
  PreciseInterrupts
  WritesWhenCompleting
  NoOrphans
  AnswersMatch
  IssuedIsInDcache
  SerializedIssuesAlone
VIEW View
