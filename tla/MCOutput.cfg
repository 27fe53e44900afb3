SPECIFICATION Spec
CONSTANTS
  Limits <- SmallLimits
  MaxChunk = 4
  LineWidth = 2
  LineCount = 6
  Failures <- TwoFailures
  Threshold = 3
INVARIANTS
  TypeOK
  KeepsBothEnds
  LoopFoundExactly
