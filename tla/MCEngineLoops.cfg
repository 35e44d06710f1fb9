\* Three requests, one of which may be left without an assembler and grow
\* until it is too long for a step; the pool holds two of them at first.
CONSTANTS
  Requests = {r1, r2, r3}
  PromptLengths = {2}
  MaxTokens = 2
  MaxContext = 8
  MaxRunning = 2
  MaxWaiting = 2
  MaxBatchedTokens = 3
  ChunkedModes = {TRUE, FALSE}
  ChunkSize = 2
  NumBlocks = 3
  BlockSize = 2
  Reserve = 0
  MaxSampled = 20
  MaxRaises = 1
SPECIFICATION LoopsSpec
CHECK_DEADLOCK FALSE
PROPERTY LoopsReturn
