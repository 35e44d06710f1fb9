\* Four blocks of two tokens, two sequences, a block held back.
CONSTANTS
  Blocks = {b1, b2, b3, b4}
  SeqIds = {s1, s2}
  Prompts <- MCPrompts
  BlockSize = 2
  PrefixCaching = TRUE
  Reserves = {1}
  MaxClock = 5
  MaxRef = 1
  x = x
  y = y
SPECIFICATION CallerSpec
SYMMETRY MCSymmetry
PROPERTY ImplementsPool
