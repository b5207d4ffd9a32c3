\* Every operating mode, with fees, penalties and slashes.
SPECIFICATION Spec
CONSTANTS
    N = 2
    Modes = {"paused", "withdrawOnly", "sunset", "stopped", "shutdown"}
    StakeAmounts = {1}
    ReferredAmounts = {2}
    DelegatedAmounts = {}
    YieldAmounts = {1}
    FundAmounts = {}
    SlashAmounts = {1}
    PartialAmounts = {}
    AutoRestakers = {}
    Cooldowners = {}
    Movers = {}
    ScaleUp = 1
    ScaleDown = 1
    RewardRate = 0
    RewardDivisor = 1
    LockPeriod = 1
    PenaltyBps = 5000
    RestakeWindow = 0
    CooldownLedgers = 0
    UnstakeFeeBps = 5000
    InsuranceFeeBps = 0
    RecycleBps = 0
    RevenueBps = 0
    HasFeeRecipients = FALSE
    InsuranceRateBps = 0
    ReferrerBps = 0
    RefereeBps = 0
    RedistributePenalty = FALSE
    PoolCap = 0
    MinStake = 0
    AutoPauseThreshold = 0
    MaxLedger = 1
    MaxHeld = 3
    MaxStakers = 2
INVARIANTS
    HoldersCanExit
    HoldersRegistered
