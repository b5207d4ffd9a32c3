\* Cooldown requests, position transfers, delegated stakes and
\* redistributed slashes.
SPECIFICATION Spec
CONSTANTS
    N = 2
    Modes = {"paused"}
    StakeAmounts = {2}
    ReferredAmounts = {}
    DelegatedAmounts = {1}
    YieldAmounts = {}
    FundAmounts = {}
    SlashAmounts = {1}
    PartialAmounts = {}
    AutoRestakers = {}
    Cooldowners = {1}
    Movers = {1, 2}
    ScaleUp = 1
    ScaleDown = 1
    RewardRate = 0
    RewardDivisor = 1
    LockPeriod = 0
    PenaltyBps = 0
    RestakeWindow = 0
    CooldownLedgers = 1
    UnstakeFeeBps = 0
    InsuranceFeeBps = 0
    RecycleBps = 0
    RevenueBps = 0
    HasFeeRecipients = FALSE
    InsuranceRateBps = 0
    ReferrerBps = 0
    RefereeBps = 0
    RedistributePenalty = TRUE
    PoolCap = 0
    MinStake = 0
    AutoPauseThreshold = 0
    MaxLedger = 1
    MaxHeld = 3
    MaxStakers = 2
INVARIANTS
    SharesBacked
