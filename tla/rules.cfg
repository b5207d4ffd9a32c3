SPECIFICATION RulesSpec
CONSTANTS
  Users = {"u1", "u2"}
  Purse = 1
  AdminPurse = 1
  Staked <- StakedDef
  PoolYield = 0
  PoolReserve = 4
  Amounts = {1}
  Durations = {1}
  MaxLedger = 3
  Parameters = {"RewardRate"}
  ParamValues = {1}
  ParamMax = 1
  MaxOpenProposals = 1
  MaxProposals = 2
  GovRules <- GovRulesDef
  InitialRules <- InitialRulesDef
  MaxSettings = 1
  MaxBatch = 10
  MaxItems = 2
  Points = {0, 1, 2}
  PointsBudget = 2
  EpochLedgers = 2
  Windows = {0}
  MaxDisputes = 1
  Hashes = {"h1"}
  MaxContent = 2
  QuotaOps = {1, 2}
  NewsCap = 2
  ThreadCap = 2
  Tiers = {1, 2}
  Attempts = {1, 2}
  Keys = {"k1", "k2"}
  RateValues = {1, 2}
  MaxRate = 2
  Delays = {1}
  RecoveryDelay = 2
  MaxQueue = 1
  MaxActions = 1
  Groups <- GroupsDef
  MinRunway = 2
  YearLedgers = 1
  FeeValues = {0, 1, 2}
  MaxFee = 2
  VotedFees = {1, 3}
  MaxVotedFee = 1
  Notices = {0, 1, 2}
  Revenues = {1, 3}
  TreasuryLimits = {0, 1}
  LimitPeriod = 2
  LimitNotice = 1
  ContributionBps = 5000
  Rates = {0, 10000}
  Schedules <- SchedulesDef
  Boosts = {20000}
  Intervals = {1}
  RampLengths = {2}
  Reductions = {5000, 10000}
  Floors = {0, 4000}
  MinPools = {3}
  LedgersPerYear = 3
  MaxPolicies = 3
  Watched = {"u1"}
  MaxSeasons = 2
  MaxChanges = 2
  MaxRateBps = 20000
  Curves <- CurvesDef
  Steps <- StepsDef
  MaxPoints = 2
  MaxEpochs = 2
  EpochRewards = {2, 3}
  EpochVesting = {1}
  MaxQueued = 1
  Scale = 100
  Earned = {1, 2}
  MaxEarned = 2
  Caps = {0, 1}
  Ratios = {5000}
  MaxDelay = 2
  FeeRates = {5000, 10000}
  MaxClaimFee = 5000
  MaxBounty = 5000
  VestingTimes = {0, 2}
  QueueUsers = {"u1"}
  MaxStreak = 2
  TokenRates = {10000}
  MaxExtraTokens = 1
  ExtraTokens = {"t1"}
  TokenYear = 2
INVARIANTS
  ProposalBooks
  VotesBacked
  ForumVotesOnce
  SlashesSettledOnce
  RankingsFair
  Authority
  TreasuryCovered
  SpansPriced
  RewardsReachOnce
PROPERTIES
  PromotedKept
  FeeAnnounced
  RampSteady
CHECK_DEADLOCK FALSE
