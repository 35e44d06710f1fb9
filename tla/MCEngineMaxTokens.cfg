\* Requests of at most two tokens, preempted after their first one.
CONSTANTS
  Requests = {r1, r2, r3, r4}
  PromptLengths = {1, 3}
  MaxTokens = 2
  MaxContext = 8
  MaxRunning = 2
  MaxWaiting = 1
  MaxBatchedTokens = 4
  ChunkedModes = {TRUE, FALSE}
  ChunkSize = 2
  NumBlocks = 4
  BlockSize = 1
  Reserve = 0
  MaxSampled = 4
  MaxRaises = 1
SPECIFICATION Spec
SYMMETRY MCSymmetry
INVARIANT MaxTokensRespected
