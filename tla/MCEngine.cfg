\* Four requests in a pool too small for all of them, with and without
\* chunked prefill.
CONSTANTS
  Requests = {r1, r2, r3, r4}
  PromptLengths = {1, 3}
  MaxTokens = 3
  MaxContext = 8
  MaxRunning = 2
  MaxWaiting = 1
  MaxBatchedTokens = 4
  ChunkedModes = {TRUE, FALSE}
  ChunkSize = 2
  NumBlocks = 3
  BlockSize = 1
  Reserve = 0
  MaxSampled = 4
  MaxRaises = 1
SPECIFICATION Spec
PROPERTY LoopsEnd
SYMMETRY MCSymmetry
INVARIANTS
  ServedInOrder
  BlocksAccounted
  PlannedDecodesRun
  CacheInStep
  TokensKept
