\* claim_partial pays without debiting the reward pool.
SPECIFICATION Spec
CONSTANTS
    N = 2
    Modes = {}
    StakeAmounts = {}
    ReferredAmounts = {2}
    DelegatedAmounts = {}
    YieldAmounts = {}
    FundAmounts = {1}
    SlashAmounts = {}
    PartialAmounts = {1}
    AutoRestakers = {}
    Cooldowners = {}
    Movers = {}
    ScaleUp = 1
    ScaleDown = 1
    RewardRate = 1
    RewardDivisor = 1
    LockPeriod = 0
    PenaltyBps = 0
    RestakeWindow = 0
    CooldownLedgers = 0
    UnstakeFeeBps = 0
    InsuranceFeeBps = 0
    RecycleBps = 0
    RevenueBps = 0
    HasFeeRecipients = FALSE
    InsuranceRateBps = 0
    ReferrerBps = 0
    RefereeBps = 0
    RedistributePenalty = FALSE
    PoolCap = 0
    MinStake = 0
    AutoPauseThreshold = 0
    MaxLedger = 2
    MaxHeld = 3
    MaxStakers = 3
INVARIANTS
    Solvent
