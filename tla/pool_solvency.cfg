\* Fees, referral bonuses, claims, insurance and slashing.
SPECIFICATION Spec
CONSTANTS
    N = 2
    Modes = {}
    StakeAmounts = {2}
    ReferredAmounts = {}
    DelegatedAmounts = {3}
    YieldAmounts = {}
    FundAmounts = {1}
    SlashAmounts = {1}
    PartialAmounts = {}
    AutoRestakers = {}
    Cooldowners = {}
    Movers = {}
    ScaleUp = 1
    ScaleDown = 1
    RewardRate = 1
    RewardDivisor = 1
    LockPeriod = 0
    PenaltyBps = 0
    RestakeWindow = 0
    CooldownLedgers = 0
    UnstakeFeeBps = 7500
    InsuranceFeeBps = 2500
    RecycleBps = 5000
    RevenueBps = 5000
    HasFeeRecipients = TRUE
    InsuranceRateBps = 5000
    ReferrerBps = 5000
    RefereeBps = 5000
    RedistributePenalty = FALSE
    PoolCap = 0
    MinStake = 0
    AutoPauseThreshold = 0
    MaxLedger = 1
    MaxHeld = 5
    MaxStakers = 3
INVARIANTS
    Solvent
    NoPhantomShares
