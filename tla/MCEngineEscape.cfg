\* Two requests of a token each in blocks of two: their second tokens fill
\* their blocks, and the third one of each needs a block where one is free.
CONSTANTS
  Requests = {r1, r2}
  PromptLengths = {1}
  MaxTokens = 3
  MaxContext = 4
  MaxRunning = 2
  MaxWaiting = 2
  MaxBatchedTokens = 4
  ChunkedModes = {TRUE, FALSE}
  ChunkSize = 2
  NumBlocks = 3
  BlockSize = 2
  Reserve = 0
  MaxSampled = 4
  MaxRaises = 1
SPECIFICATION Spec
SYMMETRY MCSymmetry
INVARIANT NoCacheExceptionEscapes
