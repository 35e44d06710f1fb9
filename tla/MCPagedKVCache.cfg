\* Three blocks of two tokens, two sequences, five allocations or appends.
CONSTANTS
  Blocks = {b1, b2, b3}
  SeqIds = {s1, s2}
  Prompts <- MCPrompts
  BlockSize = 2
  PrefixCaching = TRUE
  Reserves = {0, 1}
  MaxClock = 5
  MaxRef = 3
  x = x
  y = y
SPECIFICATION Spec
SYMMETRY MCSymmetry
INVARIANTS
  RefCounts
  FreeListExact
  SharedContentIsOwn
  SlotsExact
  AllocateNeverRunsOut
PROPERTY WritesArePrivate
