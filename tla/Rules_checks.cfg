CONSTANTS
  MaxOps = 4
  MaxStack = 6
  CENT = 4
  BytesPerInput = 4
  BytesPerOutput = 2
  KiloByte = 10
  MaxTxBytes = 20
  SplitAmount = 12
  SplitShare = 2
  nCombineThreshold = 10
  MaxInputs = 3
  StakeReward = 1
  Mints <- MCMints
  Chain <- MCChain
  nBlockMaxSize = 10
  nBlockPrioritySize = 4
  nBlockMinSize = 3
  nMinTxFee = 2
  PriorityFloor = 2
  MAX_BLOCK_SIGOPS = 8
  BaseSize = 1
  BaseSigOps = 1
  GenSize = 12
  Limit = 100000
  Interval = 4
  Rounds = 3
  Ops <- MCOps
  Stacks <- MCStacks
  MaxScript = 6
  Payments <- MCPayments
  Pools <- MCPools
  Starts <- MCStarts
  Spacings <- MCSpacings
  MaxGrowth = 4
  Steps <- MCSteps
  MaxBlocks = 5
  Tickets = 9
  LowerLimit = 3
  UpperLimit = 6
  Widening = 2
  MaxPowBlocks = 4
  CapPowBlocks = 3
  Factor <- MCFactor
  Premine = 500
  Subsidy = 20
  nMinSubsidy = 10
  StepBlocks = 2
  MaxSteps = 3
  MintStart = 10
  MintEnd = 2
  StageBlocks = 2
  Stages = 2
  LastMint = 5
  POS_BUG_FIX = 1
  Rolls <- MCRolls
  MaxJackpots = 8
  MaxFirst = 4
  MAX_MONEY = 32
  Word = 65
  BlockSubsidy = 24
  CoinDay = 16
  MintRate = 4
  nStakeMinAge = 1
  nCoinbaseMaturity = 1
  nMaxClockDrift = 1
  CoinbaseAmounts = {0, 24, 32}
  OutputLists <- MCOutputLists
  MaxTime = 2
  MaxMade = 6
  LeafTxs = {1, 2, 3, 4}
  MaxHashed = 5
  MaxTip = 80
  MaxAnswer = 2
  Sizes <- MCSizes
  Wanted = {"x"}
  MaxRecords = 3
SPECIFICATION Spec
INVARIANTS
  ScriptRules
  SpendingRules
  TemplateRules
  RewardRules
  StorageRules
PROPERTIES
  HeaderRules
  JobsEnd
CHECK_DEADLOCK FALSE
