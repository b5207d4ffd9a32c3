\* Stakes, compounding, exits with penalty and fee,
\* pausing and yield.
SPECIFICATION Spec
CONSTANTS
    N = 2
    Modes = {"paused"}
    StakeAmounts = {1}
    ReferredAmounts = {2}
    DelegatedAmounts = {}
    YieldAmounts = {1}
    FundAmounts = {}
    SlashAmounts = {}
    PartialAmounts = {}
    AutoRestakers = {1}
    Cooldowners = {}
    Movers = {}
    ScaleUp = 1
    ScaleDown = 1
    RewardRate = 1
    RewardDivisor = 1
    LockPeriod = 1
    PenaltyBps = 5000
    RestakeWindow = 1
    CooldownLedgers = 0
    UnstakeFeeBps = 5000
    InsuranceFeeBps = 0
    RecycleBps = 0
    RevenueBps = 0
    HasFeeRecipients = FALSE
    InsuranceRateBps = 0
    ReferrerBps = 0
    RefereeBps = 0
    RedistributePenalty = FALSE
    PoolCap = 0
    MinStake = 0
    AutoPauseThreshold = 1
    MaxLedger = 1
    MaxHeld = 4
    MaxStakers = 2
INVARIANTS
    TypeOK
    SharesBacked
PROPERTIES
    SharePriceNeverFalls
