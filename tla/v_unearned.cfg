\* stake changes a balance without settling its rewards first.
SPECIFICATION AuditSpec
CONSTANTS
    N = 2
    Modes = {}
    StakeAmounts = {1}
    ReferredAmounts = {1}
    DelegatedAmounts = {}
    YieldAmounts = {}
    FundAmounts = {}
    SlashAmounts = {}
    PartialAmounts = {}
    AutoRestakers = {}
    Cooldowners = {}
    Movers = {}
    ScaleUp = 1
    ScaleDown = 1
    RewardRate = 1
    RewardDivisor = 1
    LockPeriod = 0
    PenaltyBps = 0
    RestakeWindow = 0
    CooldownLedgers = 0
    UnstakeFeeBps = 0
    InsuranceFeeBps = 0
    RecycleBps = 0
    RevenueBps = 0
    HasFeeRecipients = FALSE
    InsuranceRateBps = 0
    ReferrerBps = 0
    RefereeBps = 0
    RedistributePenalty = FALSE
    PoolCap = 0
    MinStake = 0
    AutoPauseThreshold = 0
    MaxLedger = 2
    MaxHeld = 4
    MaxStakers = 3
INVARIANTS
    RewardsEarned
