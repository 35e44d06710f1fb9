\* Twelve components that stand alone, each on a small instance of its own.
CONSTANTS
  share = share
  coin = coin
  None = None
  Unset = Unset
  Symbols <- MCSymbols
  Crypto <- MCCrypto
  LotSize = 1
  Feeds <- MCFeeds
  Orders <- MCOrders
  Bps = 20
  CryptoSpread = 1
  OpenSpread = 1
  ClosedSpread = 2
  Slippage = 1
  Commission = 1
  StartingCash = 27000
  Allowlist <- MCSymbols
  MaxOrderNotional = 20000
  MinOrderNotional = 8000
  MaxPositionWeight = 70
  MaxGrossExposure = 100
  MinCashBuffer = 10
  DailyLossLimit = 8
  MaxOrdersPerDay = 1
  MaxProposals = 3
  MaxJournal = 5
  Equities <- MCEquities
  Coins <- MCCrypto
  Weekend = {2, 3}
  ReferencePrice = 10
  Floor = 1
  Draws <- MCDraws
  Counts = {0, 2, 5}
  MaxDay = 4
  Names = {"ODIE"}
  Fold <- MCFold
  DefaultName <- MCDefaultName
  Limit = 2
  NapHours = {2}
  Pauses = {5}
  MaxHours = 10
  MaxMeetings = 2
  Vocabulary <- MCVocabulary
  StopLists <- MCStopLists
  Lookback = 8
  MaxPushed = 11
  Tokens = {1, 2, 3}
  LogitVectors <- MCLogitVectors
  GenConfigs <- MCGenConfigs
  MaxHistory = 3
  TargetLogits <- MCTargetLogits
  DraftLogits <- MCDraftLogits
  NumTokens = 2
  MaxProduced = 3
  Experts = {0, 1, 2}
  ExpertsPerToken = 2
  CapacityFactor = 100
  DropPolicies = {"rightmost", "none"}
  Batches <- MCBatches
  MaxSteps = 2
  Certain = 4
  RootToken = 1
  Draft <- MCDraft
  Widths = {1, 2}
  Levels = {1, 2}
  MaxDepth = 3
  MaxNodes = 5
  Files <- MCFiles
  Requested <- MCRequested
  Environments <- MCEnvironments
  CommandLines <- MCCommandLines
  Utf8 <- MCUtf8
  Spaces = {" "}
  Letters = {"a", "b", "e'"}
  Specials <- MCSpecials
  Merges <- MCMerges
  Pieces <- MCPieces
  Texts <- MCTexts
  MaxEncodings = 2
  Observers = {1, 2}
  Scrapers = {3}
  Edges <- MCEdges
  Observable = {2, 5}
  MaxObservations = 3
  MaxScrapes = 2
  Sections <- MCSections
  Checkpoints <- MCCheckpoints
  NoPath = NoPath
SPECIFICATION MCSpec
CHECK_DEADLOCK FALSE
INVARIANTS
  BookBalances
  FillsAudited
  NoOverdraft
  FillsPerDay
  SamePast
  WatchingHarmless
  StreamExact
  SamplesAsAsked
  SpeculationExact
  TargetPreserved
  RoutingFair
  PrunesLeastLikely
  LastWordWins
  EncodingExact
  ScrapesHonest
  CheckpointExact
