SPECIFICATION FundsSpec
CONSTANTS
  Users = {"u1", "u2"}
  Purse = 2
  AdminPurse = 2
  Staked <- StakedDef
  PoolYield = 0
  PoolReserve = 3
  Amounts = {1, 2}
  Durations = {0, 1}
  MaxLedger = 3
  Spots = 1
  AuctionCap = 5
  OfferPairs <- OfferPairsDef
  MaxOpenOffers = 1
  MaxOffers = 2
  MaxListings = 1
  HasTreasury = FALSE
  Rates = {1, 2}
  MaxScore = 2
  FeeBps = 5000
  PresaleCap = 4
  MaxEvents = 1
  MaxRounds = 2
  SolvencyPeriod = 1
  LoanConfigs <- LoanConfigsDef
  LedgersPerYear = 1
  Claimants = {"u1"}
  ClaimAmounts = {1}
  Earnings = {0, 3}
  MaxAccrued = 3
  ClaimCap = 2
  ClaimWindow = 1
  InsuranceRate = 1000
  PremiumRate = 5000
  MaxCoverage = 1
  Periods = {1}
  MaxVesting = 1
  ClaimHorizon = 2
  SubStakers = {"u1"}
  SubRates = {5000, 10000}
  MainRate = 10000
  Capacities = {2}
  Bounds <- SubBoundsDef
  Limits <- SubLimitsDef
  SubYear = 1
  MaxSubPools = 2
  MaxRepricings = 1
  Heirs <- HeirsDef
  MaxSplits = 2
  PositionCaps = {2}
  DustThresholds = {2}
  DailyLimits = {0, 1}
  LEDGERS_PER_DAY = 2
  Fractions = {2}
  Adapters = {"a1", "a2"}
  IdleRatios = {5000}
  PerfFees = {5000}
  StrategyCaps = {5000}
  ExitFee = 5000
  InsuranceShare = 10000
  KeeperTipShare = 2500
  TreasurySplits <- SplitsDef
  MarketSteps <- MarketStepsDef
  MaxGain = 8
  MaxDrop = 0
  Lots = {2}
  Volatile = {"a1"}
  MaxLosses = 1
  MirrorRatios = {5000}
  MaxMirror = 1
  MirrorFee = 1000
  MaxFollowers = 1
  MaxUnbacked = 1
  Terms <- TermsDef
  DefaultTerms <- FirstTermsDef
  ExpeditedTerms <- HastyTermsDef
  ExpeditedDelay = 0
  Bond = 1
  MaxExpedited = 1
  Proposers = {"u1"}
  MaxBallots = 2
  Triggers = {20000}
  KeeperIncentive = 5000
  RecoveryCooldown = 2
  RewardSteps = {1}
  MaxDue = 1
  TopBoost = 20000
  MaxPledges = 2
  Guarded = {"u1"}
  Settlements = {0, 3}
  Earners = {"u1"}
  MaxSettled = 6
  Lumps = {2}
  WindHorizon = 1
  GiftPairs <- GiftPairsDef
  FaceValues = {1, 2}
  MaxNotes = 2
  YieldProtocols = {"y1", "y2"}
  YieldBuffer = 2000
  MaxYield = 1
  Tables <- TablesDef
  DropEpochs = {1, 2}
  FlashFees = {10000}
  ShareRates = {5000, 10000}
  MaxDistributions = 2
  MatchTerms <- MatchTermsDef
  MaxPrograms = 2
  AccessTiers <- AccessTiersDef
  MaxAge = 2
  MaxTiers = 2
INVARIANTS
  BidsStakedOrRefunded
  SharesOnlyChangeHands
  SealedBidsPaidOnce
  ContestsCovered
  CampaignsCovered
  ClaimsPaidOnce
  LoansRepaidOrOwed
  WindDownWhole
  SafeguardsHold
  BallotsSound
  StrategiesAccounted
  MirrorsExact
  PositionsWhole
  ExitsWithinLimits
  SubPoolsExact
CHECK_DEADLOCK FALSE
