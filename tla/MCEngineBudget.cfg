\* Three requests that run together, in chunks; the long prompt needs three.
CONSTANTS
  Requests = {r1, r2, r3}
  PromptLengths = {1, 5}
  MaxTokens = 3
  MaxContext = 9
  MaxRunning = 3
  MaxWaiting = 2
  MaxBatchedTokens = 4
  ChunkedModes = {TRUE}
  ChunkSize = 2
  NumBlocks = 7
  BlockSize = 1
  Reserve = 0
  MaxSampled = 5
  MaxRaises = 2
SPECIFICATION Spec
SYMMETRY MCSymmetry
INVARIANT BudgetRespected
