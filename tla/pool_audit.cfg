\* Reward accrual on the settling paths: do_stake, stake_for, exits, whole and
\* partial claims, cooldown requests and compounding.
SPECIFICATION AuditSpec
CONSTANTS
    N = 2
    Modes = {}
    StakeAmounts = {}
    ReferredAmounts = {2}
    DelegatedAmounts = {1}
    YieldAmounts = {}
    FundAmounts = {1}
    SlashAmounts = {}
    PartialAmounts = {1}
    AutoRestakers = {1}
    Cooldowners = {2}
    Movers = {}
    ScaleUp = 1
    ScaleDown = 1
    RewardRate = 1
    RewardDivisor = 2
    LockPeriod = 0
    PenaltyBps = 0
    RestakeWindow = 0
    CooldownLedgers = 0
    UnstakeFeeBps = 0
    InsuranceFeeBps = 0
    RecycleBps = 0
    RevenueBps = 0
    HasFeeRecipients = FALSE
    InsuranceRateBps = 0
    ReferrerBps = 0
    RefereeBps = 0
    RedistributePenalty = FALSE
    PoolCap = 0
    MinStake = 0
    AutoPauseThreshold = 0
    MaxLedger = 2
    MaxHeld = 2
    MaxStakers = 2
INVARIANTS
    RewardsEarned
