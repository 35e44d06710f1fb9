\* Two runs of three iterations, four tool calls, two failures in a row.
CONSTANTS
  None = None
  MaxTokens = 11
  ReserveForOutput = 2
  SystemTokens = 2
  MaxSummaryTokens = 3
  FragmentTokens = 2
  BigTurn = 2
  RecentTurns = 2
  WallClock = 1
  MaxOutput = 2
  PipeSize = 1
  Tools <- MCTools
  Prompts <- MCPrompts
  Completions <- MCCompletions
  Policies <- MCPolicies
  TurnTokens = {1, 3}
  CallTokens = {2}
  TokensOfKind <- MCTokensOfKind
  MaxAdded = 5
  MaxIterations = 3
  MaxToolCalls = 4
  MaxConsecutiveFailures = 2
  MaxRuns = 2
SPECIFICATION MCSpec
CHECK_DEADLOCK FALSE
INVARIANTS
  OverrunBounded
  SandboxAnswers
  RunBounded
  BlockedStaysOut
PROPERTIES
  RecentKept
