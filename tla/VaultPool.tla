------------------------------- MODULE VaultPool -------------------------------
(***************************************************************************)
(* The vault's accounting: who holds which shares of the pooled principal, *)
(* what the reward pool owes, and what the contract's token balance must   *)
(* cover.  Each action is one contract call.  A call that returns an error *)
(* reverts, so it is a call whose guard is false; calls do not interleave, *)
(* and the ledger sequence number advances between them.                   *)
(*                                                                         *)
(* The stake token is also the reward token (R = T in docs/INVARIANTS.md). *)
(* Options that stay unconfigured in this module, and so contribute        *)
(* nothing to any action: whitelist, KYC, lot size, position count, rate   *)
(* limits, auction spots, smoothing, epoch mode and epoch budgets,         *)
(* bootstrap and seasons, escrow, vesting, claim cap and claim fee, loans, *)
(* insurance policies, stake match, anniversary bonus, receipt NFT, large- *)
(* deposit locks, deposit and withdrawal limits, mirroring, extra reward   *)
(* tokens, strategies, hooks, CooldownPeriod, and the staged sunset        *)
(* (SunsetState).                                                          *)
(***************************************************************************)
EXTENDS VaultShares, PoolModes, Sums, Sequences, FiniteSets, SequencesExt, FiniteSetsExt

CONSTANTS
    N,                  \* the users are 1..N
    StakeAmounts,       \* amounts offered to stake / deposit
    ReferredAmounts,    \* amounts offered to stake_with_referral (do_stake)
    DelegatedAmounts,   \* amounts offered to stake_for
    YieldAmounts,       \* amounts offered to add_yield
    FundAmounts,        \* amounts offered to fund_reward_pool
    SlashAmounts,       \* amounts offered to slash
    PartialAmounts,     \* amounts offered to claim_partial
    AutoRestakers,      \* users whose auto_restake setting is on
    Cooldowners,        \* users that go through request_withdrawal
    Movers,             \* users that transfer their position
    ScaleUp, ScaleDown, \* decimal scaling of the token, see scale_amount
    RewardRate,         \* reward_rate_bps after the boost multipliers
    RewardDivisor,      \* BOOST_BPS_BASE * STELLAR_LEDGERS_PER_YEAR
    LockPeriod, PenaltyBps, RestakeWindow, CooldownLedgers,
    UnstakeFeeBps, InsuranceFeeBps, RecycleBps, RevenueBps,
    HasFeeRecipients,   \* BOOLEAN: the fee's remainder is paid out
    InsuranceRateBps,   \* cut of each claim kept in the insurance fund
    ReferrerBps, RefereeBps, \* bonuses of a first referred deposit
    RedistributePenalty,\* BOOLEAN: slashed tokens go to the other stakers
    PoolCap, MinStake,  \* 0 switches either off
    AutoPauseThreshold, \* token balance below which a payout pauses the pool
    MaxLedger, MaxHeld, MaxStakers  \* model bounds: time, tokens, stakers

Users == 1..N
NoLedger == -1

ASSUME PoolAssumption ==
    /\ N \in Nat \ {0}
    /\ \A A \in {StakeAmounts, ReferredAmounts, DelegatedAmounts, YieldAmounts,
                 FundAmounts, SlashAmounts, PartialAmounts} : A \subseteq Nat \ {0}
    /\ \A U \in {AutoRestakers, Cooldowners, Movers} : U \subseteq Users
    /\ ScaleUp \in Nat \ {0} /\ ScaleDown \in Nat \ {0}
    /\ RewardRate \in Nat /\ RewardDivisor \in Nat \ {0}
    /\ LockPeriod \in Nat /\ RestakeWindow \in Nat /\ CooldownLedgers \in Nat
    /\ \A b \in {PenaltyBps, UnstakeFeeBps, InsuranceFeeBps, RecycleBps, RevenueBps,
                 InsuranceRateBps, ReferrerBps, RefereeBps} :
            b \in 0..BPS_DENOMINATOR
    /\ HasFeeRecipients \in BOOLEAN /\ RedistributePenalty \in BOOLEAN
    /\ PoolCap \in Nat /\ MinStake \in Nat /\ AutoPauseThreshold \in Nat
    /\ AutoPauseThreshold > 0 => "paused" \in Modes
    /\ MaxLedger \in Nat /\ MaxHeld \in Nat
    /\ MaxStakers \in Nat

VARIABLES
    shares,         \* ShareBalance(u)
    pending,        \* WithdrawalRequest(u): locked shares and when, shares 0 = none
    totalShares,    \* TotalShares
    totalDeposited, \* TotalDeposited
    rewardPool,     \* RewardPoolBalance
    insuranceFund,  \* InsuranceFundBalance: retained from claims
    reserves,       \* fee cuts set aside: insurance reserve, revenue share pool
    held,           \* the contract's balance of the stake token
    accrued,        \* AccruedReward(u)
    remainder,      \* RewardRemainder(u): dust below one token unit
    checkpoint,     \* RewardCheckpointLedger(u)
    rewardsPaid,    \* TotalRewardsPaid
    stakedAt,       \* StakedAtLedger(u)
    lastUnstake,    \* last_unstake_ledger(u)
    restaked,       \* the penalty-exempt users (is_restaked)
    stakers,        \* AllStakers, in registration order
    totalStakers,   \* TotalStakers
    now             \* env.ledger().sequence()

position == <<shares, pending, totalShares, totalDeposited>>
funds    == <<rewardPool, insuranceFund, reserves, held, rewardsPaid>>
rewards  == <<accrued, remainder, checkpoint>>
registry == <<stakedAt, lastUnstake, restaked, stakers, totalStakers>>
vars     == <<position, funds, rewards, registry, modes, now>>

Init ==
    /\ shares = [u \in Users |-> 0]
    /\ pending = [u \in Users |-> [shares |-> 0, at |-> 0]]
    /\ totalShares = 0 /\ totalDeposited = 0
    /\ rewardPool = 0 /\ insuranceFund = 0 /\ reserves = 0 /\ held = 0 /\ rewardsPaid = 0
    /\ accrued = [u \in Users |-> 0]
    /\ remainder = [u \in Users |-> 0]
    /\ checkpoint = [u \in Users |-> NoLedger]
    /\ stakedAt = [u \in Users |-> NoLedger]
    /\ lastUnstake = [u \in Users |-> NoLedger]
    /\ restaked = {} /\ stakers = <<>> /\ totalStakers = 0
    /\ ModesInit
    /\ now = 0

-------------------------------------------------------------------------------
(* Helpers shared by the entry points. *)

\* assert_non_negative in the balance setters, and the token contract's own
\* refusal to overdraw: a call that would write a negative balance panics.
assert_non_negative ==
    /\ held' \in Nat /\ totalShares' \in Nat /\ totalDeposited' \in Nat
    /\ rewardPool' \in Nat
    /\ \A u \in Users : shares'[u] \in Nat /\ accrued'[u] \in Nat

\* reward_between_ledgers at a constant rate: the exact dust earned by
\* current_shares since the checkpoint, on top of the carried remainder.  An
\* address without a StakedAtLedger entry earns nothing.
reward_dust(u, current_shares) ==
    remainder[u] + IF stakedAt[u] = NoLedger \/ checkpoint[u] = NoLedger THEN 0
                   ELSE current_shares * RewardRate * (now - checkpoint[u])

accrued_after(u, current_shares) ==
    accrued[u] + (reward_dust(u, current_shares) \div RewardDivisor)

\* Mutant: the part already credited stays in the remainder.
accrue_rewards_keeping_dust(u, current_shares, owed) ==
    /\ accrued' = [accrued EXCEPT ![u] = owed]
    /\ remainder' = [remainder EXCEPT ![u] = reward_dust(u, current_shares)]
    /\ checkpoint' = [checkpoint EXCEPT ![u] = now]

\* Mutant: the checkpoint does not advance, so the span is credited again.
accrue_rewards_same_checkpoint(u, current_shares, owed) ==
    /\ accrued' = [accrued EXCEPT ![u] = owed]
    /\ remainder' = [remainder EXCEPT ![u] = reward_dust(u, current_shares) % RewardDivisor]
    /\ checkpoint' = IF checkpoint[u] = NoLedger THEN [checkpoint EXCEPT ![u] = now]
                     ELSE checkpoint

\* accrue_rewards settles u up to now and leaves `owed` in the accrued balance
\* (what is left once the caller paid or compounded some of it).
accrue_rewards(u, current_shares, owed) ==
    /\ accrued' = [accrued EXCEPT ![u] = owed]
    /\ remainder' = [remainder EXCEPT ![u] = reward_dust(u, current_shares) % RewardDivisor]
    /\ checkpoint' = [checkpoint EXCEPT ![u] = now]

\* maybe_restake_rewards: the accrued reward that compounds in this call.
restake_amount(u, current_shares) ==
    IF u \in AutoRestakers /\ ~withdraw_only THEN accrued_after(u, current_shares) ELSE 0

\* require_min_stake, on the totals read before accrual.
require_min_stake(u, amount) ==
    MinStake > 0 =>
        MinStake <= amount + IF shares[u] = 0 THEN 0
                             ELSE shares_to_amount(totalShares, totalDeposited, shares[u])

\* Mutant: the user is credited but TotalShares is not written.
credit_without_total(u, minted, amount) ==
    /\ shares' = [shares EXCEPT ![u] = @ + minted]
    /\ totalDeposited' = totalDeposited + amount
    /\ UNCHANGED totalShares

\* The paired writes of ShareBalance, TotalShares and TotalDeposited.
credit(u, minted, amount) ==
    /\ shares' = [shares EXCEPT ![u] = @ + minted]
    /\ totalShares' = totalShares + minted
    /\ totalDeposited' = totalDeposited + amount

\* The bookkeeping of a first stake in do_stake and stake_for.
open_position(u) ==
    /\ Len(stakers) < MaxStakers /\ totalStakers < MaxStakers
    /\ stakedAt' = [stakedAt EXCEPT ![u] = now]
    /\ totalStakers' = totalStakers + 1
    /\ stakers' = Append(stakers, u)
    /\ restaked' = IF /\ RestakeWindow > 0 /\ lastUnstake[u] # NoLedger
                      /\ now - lastUnstake[u] <= RestakeWindow
                   THEN restaked \cup {u} ELSE restaked
    /\ UNCHANGED lastUnstake

\* Every entry but u's, in the order of registration.
remove_from_staker_list(list, u) ==
    LET kept  == {i \in DOMAIN list : list[i] # u}
        at(k) == CHOOSE i \in kept : Cardinality({j \in kept : j <= i}) = k
    IN  [k \in 1..Cardinality(kept) |-> list[at(k)]]

\* TotalStakers saturates at zero.
close_registration(u) ==
    /\ stakedAt' = [stakedAt EXCEPT ![u] = NoLedger]
    /\ totalStakers' = IF totalStakers > 0 THEN totalStakers - 1 ELSE 0
    /\ stakers' = remove_from_staker_list(stakers, u)

\* check_auto_pause, after a payout: the threshold is on the token balance.
check_auto_pause ==
    modes' = IF held' < AutoPauseThreshold THEN modes \cup {"paused"} ELSE modes

is_locked(u) == LockPeriod > 0 /\ stakedAt[u] # NoLedger /\ now < stakedAt[u] + LockPeriod

-------------------------------------------------------------------------------
(* Inflows. *)

\* Mutant: a first stake is not recorded in AllStakers.
register_staker_skipped(u) == UNCHANGED registry

\* register_staker, called by stake when the caller held no shares.
register_staker(u) ==
    LET list == IF u \in Range(stakers) THEN stakers ELSE Append(stakers, u)
    IN  /\ Len(list) <= MaxStakers
        /\ stakers' = list
        /\ totalStakers' = Len(list)
        /\ UNCHANGED <<stakedAt, lastUnstake, restaked>>

\* The mint half of stake: no accrual, no pause check, no StakedAtLedger.
mint(u, amount) ==
    LET minted == amount_to_shares_with_decimals(totalShares, totalDeposited, amount,
                                                 ScaleUp, ScaleDown)
    IN  /\ require_no_sunset
        /\ held + amount <= MaxHeld
        /\ credit(u, minted, amount)
        /\ IF shares[u] = 0 THEN register_staker(u) ELSE UNCHANGED registry
        /\ UNCHANGED <<pending, insuranceFund, reserves, rewardsPaid, rewards, modes, now>>

stake(u, amount) ==
    /\ mint(u, amount)
    /\ held' = held + amount
    /\ UNCHANGED rewardPool

\* deposit with a registered referrer, on the depositor's first deposit: the
\* pool is charged for both bonuses, and only the referee's is transferred.
deposit_referred(u, amount) ==
    LET referee_bonus == bps(amount, RefereeBps)
        total_bonus   == bps(amount, ReferrerBps) + referee_bonus
    IN  /\ u \notin Range(stakers)
        /\ total_bonus > 0 /\ total_bonus <= rewardPool /\ total_bonus <= held + amount
        /\ mint(u, amount)
        /\ held' = held + amount - referee_bonus
        /\ rewardPool' = rewardPool - total_bonus

\* do_stake, reached through stake_with_referral: accrues, compounds, mints.
do_stake(u, amount) ==
    LET restake == restake_amount(u, shares[u])
        bonus   == amount_to_shares(totalShares, totalDeposited, restake)
        S       == totalShares + bonus
        D       == totalDeposited + restake
        minted  == amount_to_shares(S, D, amount)
    IN  /\ do_stake_open
        /\ require_min_stake(u, amount)
        /\ PoolCap > 0 => D + amount <= PoolCap
        /\ held + amount <= MaxHeld
        /\ accrue_rewards(u, shares[u], accrued_after(u, shares[u]) - restake)
        /\ shares' = [shares EXCEPT ![u] = @ + bonus + minted]
        /\ totalShares' = S + minted
        /\ totalDeposited' = D + amount
        /\ held' = held + amount
        /\ IF shares[u] = 0 THEN open_position(u) ELSE UNCHANGED registry
        /\ UNCHANGED <<pending, rewardPool, insuranceFund, reserves, rewardsPaid, modes, now>>

\* stake_for: a delegate pays, the beneficiary u is credited; no compounding.
stake_for(u, amount) ==
    LET minted == amount_to_shares(totalShares, totalDeposited, amount)
    IN  /\ require_not_paused /\ require_no_sunset
        /\ require_min_stake(u, amount)
        /\ PoolCap > 0 => totalDeposited + amount <= PoolCap
        /\ held + amount <= MaxHeld
        /\ accrue_rewards(u, shares[u], accrued_after(u, shares[u]))
        /\ credit(u, minted, amount)
        /\ held' = held + amount
        /\ IF shares[u] = 0 THEN open_position(u) ELSE UNCHANGED registry
        /\ UNCHANGED <<pending, rewardPool, insuranceFund, reserves, rewardsPaid, modes, now>>

\* Mutant: the yield is booked without pulling the tokens.
add_yield_unfunded(amount) ==
    /\ require_not_paused
    /\ totalDeposited < MaxHeld
    /\ totalDeposited' = totalDeposited + amount
    /\ UNCHANGED <<shares, pending, totalShares, funds, rewards, registry, modes, now>>

\* add_yield: principal without shares, so every share gains value.
add_yield(amount) ==
    /\ require_not_paused
    /\ held + amount <= MaxHeld
    /\ totalDeposited' = totalDeposited + amount
    /\ held' = held + amount
    /\ UNCHANGED <<shares, pending, totalShares, rewardPool, insuranceFund, reserves,
                   rewardsPaid, rewards, registry, modes, now>>

fund_reward_pool(amount) ==
    /\ held + amount <= MaxHeld
    /\ rewardPool' = rewardPool + amount
    /\ held' = held + amount
    /\ UNCHANGED <<position, insuranceFund, reserves, rewardsPaid, rewards, registry, modes,
                   now>>

-------------------------------------------------------------------------------
(* Exits. *)

\* do_unstake_to, for a caller whose share balance reads user_shares when the
\* call checks it.  The compounding in the middle writes ShareBalance and the
\* totals; the totals are read again, the share balance is not.
do_unstake_to(u, user_shares, burned) ==
    LET restake   == restake_amount(u, user_shares)
        bonus     == amount_to_shares(totalShares, totalDeposited, restake)
        S         == totalShares + bonus
        D         == totalDeposited + restake
        amount    == shares_to_amount(S, D, burned)
        penalised == is_locked(u) /\ u \notin restaked
        net       == amount - IF penalised THEN bps(amount, PenaltyBps) ELSE 0
        fee       == IF withdraw_only THEN 0 ELSE bps(net, UnstakeFeeBps)
        insurance == bps(fee, InsuranceFeeBps)
        recycled  == bps(fee - insurance, RecycleBps)
        revenue   == bps(fee - insurance - recycled, RevenueBps)
        treasury  == fee - insurance - recycled - revenue
        paid_out  == (net - fee) + IF HasFeeRecipients THEN treasury ELSE 0
    IN  /\ require_not_paused
        /\ user_shares >= burned
        /\ accrue_rewards(u, user_shares, accrued_after(u, user_shares) - restake)
        /\ shares' = [shares EXCEPT ![u] = user_shares - burned]
        /\ totalShares' = S - burned
        /\ totalDeposited' = D - net
        /\ reserves' = reserves + insurance + revenue
        /\ rewardPool' = rewardPool + recycled + (IF HasFeeRecipients THEN 0 ELSE treasury)
        /\ held' = held - paid_out
        /\ IF user_shares = burned
           THEN /\ close_registration(u)
                /\ lastUnstake' = [lastUnstake EXCEPT ![u] = now]
                /\ restaked' = restaked \ {u}
           ELSE UNCHANGED registry
        /\ check_auto_pause
        /\ UNCHANGED <<insuranceFund, rewardsPaid, now>>
        /\ assert_non_negative

\* withdraw, unstake and unstake_all.
withdraw(u, burned) == do_unstake_to(u, shares[u], burned) /\ UNCHANGED pending

\* request_withdrawal takes the shares out of the balance; a request that is
\* already pending is overwritten.
request_withdrawal(u, locked) ==
    /\ u \in Cooldowners /\ shares[u] >= locked
    /\ shares' = [shares EXCEPT ![u] = @ - locked]
    /\ pending' = [pending EXCEPT ![u] = [shares |-> locked, at |-> now]]
    /\ UNCHANGED <<totalShares, totalDeposited, funds, rewards, registry, modes, now>>

\* Mutant: the request survives its execution.
execute_withdrawal_kept(u) ==
    /\ pending[u].shares > 0
    /\ now >= pending[u].at + CooldownLedgers
    /\ do_unstake_to(u, shares[u] + pending[u].shares, pending[u].shares)
    /\ UNCHANGED pending

\* execute_withdrawal puts the shares back and unstakes them.
execute_withdrawal(u) ==
    /\ pending[u].shares > 0
    /\ now >= pending[u].at + CooldownLedgers
    /\ do_unstake_to(u, shares[u] + pending[u].shares, pending[u].shares)
    /\ pending' = [pending EXCEPT ![u] = [shares |-> 0, at |-> 0]]

\* The break-glass exit: principal only, and no registry upkeep.
emergency_withdraw(u) ==
    LET amount == shares_to_amount(totalShares, totalDeposited, shares[u])
    IN  /\ ~require_not_paused
        /\ shares[u] > 0
        /\ shares' = [shares EXCEPT ![u] = 0]
        /\ totalShares' = totalShares - shares[u]
        /\ totalDeposited' = totalDeposited - amount
        /\ accrued' = [accrued EXCEPT ![u] = 0]
        /\ held' = held - amount
        /\ UNCHANGED <<pending, rewardPool, insuranceFund, reserves, rewardsPaid, remainder,
                       checkpoint, registry, modes, now>>
        /\ assert_non_negative

-------------------------------------------------------------------------------
(* Rewards. *)

\* do_claim: settle, then pay the whole accrued reward if the pool covers it.
\* Claims are open while the pool is paused.
claim(u) ==
    LET reward      == accrued_after(u, shares[u])
        user_reward == (reward * (BPS_DENOMINATOR - InsuranceRateBps)) \div BPS_DENOMINATOR
    IN  /\ rewardPool >= reward
        /\ accrue_rewards(u, shares[u], 0)
        /\ rewardPool' = rewardPool - reward
        /\ insuranceFund' = insuranceFund + (reward - user_reward)
        /\ held' = held - user_reward
        /\ rewardsPaid' = rewardsPaid + reward
        /\ IF reward > 0 THEN check_auto_pause ELSE UNCHANGED modes
        /\ UNCHANGED <<position, reserves, registry, now>>
        /\ assert_non_negative

\* claim_partial pays from the accrued balance as it stands: no accrual first,
\* and no debit of the reward pool.
claim_partial(u, amount) ==
    /\ amount <= accrued[u]
    /\ accrued' = [accrued EXCEPT ![u] = @ - amount]
    /\ rewardsPaid' = rewardsPaid + amount
    /\ held' = held - amount
    /\ UNCHANGED <<position, rewardPool, insuranceFund, reserves, remainder, checkpoint,
                   registry, modes, now>>
    /\ assert_non_negative

\* Mutant: the fund is not debited.
deploy_insurance_fund_twice(amount) ==
    /\ amount <= insuranceFund
    /\ rewardPool' = rewardPool + amount
    /\ UNCHANGED <<position, insuranceFund, reserves, held, rewardsPaid, rewards, registry,
                   modes, now>>

\* deploy_insurance_fund: the fund's tokens already sit in the contract.
deploy_insurance_fund(amount) ==
    /\ amount <= insuranceFund
    /\ insuranceFund' = insuranceFund - amount
    /\ rewardPool' = rewardPool + amount
    /\ UNCHANGED <<position, reserves, held, rewardsPaid, rewards, registry, modes, now>>

-------------------------------------------------------------------------------
(* Slashing and position transfers. *)

\* redistribute_penalty: every registered entry but the slashed user's, pro
\* rata by shares, the last entry absorbing the rounding.
redistribute_penalty(u, total) ==
    LET list     == SelectSeq(stakers, LAMBDA v : v # u /\ shares[v] > 0)
        weight   == MapThenSumSet(LAMBDA i : shares[list[i]], DOMAIN list)
        part(i)  == (total * shares[list[i]]) \div weight
        portion(i) == IF i < Len(list) THEN part(i)
                      ELSE total - MapThenSumSet(part, 1..(Len(list) - 1))
    IN  [v \in Users |-> accrued[v]
            + MapThenSumSet(portion, {i \in DOMAIN list : list[i] = v})]

\* slash: burns the shares worth the slashed amount, rounded down, forfeits
\* the user's rewards; open while paused.
slash(u, requested) ==
    LET value  == shares_to_amount(totalShares, totalDeposited, shares[u])
        actual == Min({requested, value})
        burned == Min({amount_to_shares(totalShares, totalDeposited, actual), shares[u]})
        credited == IF RedistributePenalty THEN redistribute_penalty(u, actual) ELSE accrued
    IN  /\ shares[u] > 0 /\ value > 0
        /\ shares' = [shares EXCEPT ![u] = @ - burned]
        /\ totalShares' = totalShares - burned
        /\ totalDeposited' = totalDeposited - actual
        /\ held' = IF RedistributePenalty THEN held ELSE held - actual
        /\ accrued' = [credited EXCEPT ![u] = 0]
        /\ checkpoint' = [checkpoint EXCEPT ![u] = now]
        /\ IF burned = shares[u]
           THEN close_registration(u) /\ UNCHANGED <<lastUnstake, restaked>>
           ELSE UNCHANGED registry
        /\ UNCHANGED <<pending, rewardPool, insuranceFund, reserves, rewardsPaid, remainder,
                       modes, now>>
        /\ assert_non_negative

\* Both transfers hand over the lock-up timer and leave the staker registry
\* alone.
move_shares(from, to) ==
    /\ require_not_paused
    /\ from \in Movers /\ shares[from] > 0 /\ shares[to] = 0
    /\ shares' = [shares EXCEPT ![to] = shares[from], ![from] = 0]
    /\ stakedAt' = [stakedAt EXCEPT
                        ![to] = IF stakedAt[from] = NoLedger THEN now ELSE stakedAt[from],
                        ![from] = NoLedger]
    /\ UNCHANGED <<pending, totalShares, totalDeposited, funds, lastUnstake, restaked,
                   stakers, totalStakers, modes, now>>

\* transfer_position: from keeps the settled reward, to starts from zero.
transfer_position(from, to) ==
    /\ move_shares(from, to)
    /\ accrued' = [accrued EXCEPT ![from] = accrued_after(from, shares[from]), ![to] = 0]
    /\ remainder' = [remainder EXCEPT
                        ![from] = reward_dust(from, shares[from]) % RewardDivisor]
    /\ checkpoint' = [checkpoint EXCEPT ![from] = now, ![to] = now]

\* move_position_with_rewards: unsettled, accrued balance and checkpoint move.
transfer_position_with_rewards(from, to) ==
    /\ move_shares(from, to)
    /\ accrued' = [accrued EXCEPT ![to] = accrued[from], ![from] = 0]
    /\ checkpoint' = [checkpoint EXCEPT
                        ![to] = IF checkpoint[from] = NoLedger THEN now ELSE checkpoint[from],
                        ![from] = now]
    /\ UNCHANGED remainder

-------------------------------------------------------------------------------
\* The network closes a ledger.
close_ledger ==
    /\ now < MaxLedger
    /\ now' = now + 1
    /\ UNCHANGED <<position, funds, rewards, registry, modes>>

set_mode == ModesNext /\ UNCHANGED <<position, funds, rewards, registry, now>>

Next ==
    \/ \E u \in Users :
        \/ \E a \in StakeAmounts : stake(u, a)
        \/ \E a \in StakeAmounts : deposit_referred(u, a)
        \/ \E a \in ReferredAmounts : do_stake(u, a)
        \/ \E a \in DelegatedAmounts : stake_for(u, a)
        \/ \E s \in 1..shares[u] : withdraw(u, s)
        \/ \E s \in 1..shares[u] : request_withdrawal(u, s)
        \/ execute_withdrawal(u)
        \/ emergency_withdraw(u)
        \/ claim(u)
        \/ \E a \in PartialAmounts : claim_partial(u, a)
        \/ \E a \in SlashAmounts : slash(u, a)
        \/ \E to \in Users : transfer_position(u, to)
        \/ \E to \in Users : transfer_position_with_rewards(u, to)
    \/ \E a \in YieldAmounts : add_yield(a)
    \/ \E a \in FundAmounts : fund_reward_pool(a)
    \/ \E a \in FundAmounts : deploy_insurance_fund(a)
    \/ set_mode
    \/ close_ledger

Spec == Init /\ [][Next]_vars

-------------------------------------------------------------------------------
(* Properties. *)

TypeOK ==
    /\ shares \in [Users -> Nat]
    /\ pending \in [Users -> [shares : Nat, at : Nat]]
    /\ totalShares \in Nat /\ totalDeposited \in Nat
    /\ rewardPool \in Nat /\ insuranceFund \in Nat /\ reserves \in Nat
    /\ held \in Nat /\ rewardsPaid \in Nat
    /\ accrued \in [Users -> Nat]
    /\ remainder \in [Users -> 0..(RewardDivisor - 1)]
    /\ checkpoint \in [Users -> {NoLedger} \cup 0..now]
    /\ stakedAt \in [Users -> {NoLedger} \cup 0..now]
    /\ lastUnstake \in [Users -> {NoLedger} \cup 0..now]
    /\ restaked \subseteq Users
    /\ modes \subseteq Modes
    /\ now \in Nat

\* The shares u can still redeem, requested withdrawals included.
holding(u) == shares[u] + pending[u].shares

\* INV-1, the direction users depend on: all the redeemable shares together
\* never exceed TotalShares, so no sequence of exits can underflow it.  p is
\* the running total of the holdings.
SharesBacked ==
    \E p \in [Users -> 0..totalShares] :
        \A u \in Users : p[u] = holding(u) + IF u = 1 THEN 0 ELSE p[u - 1]

\* INV-1, "There are no unowned or phantom shares": TotalShares is exactly what
\* the users hold or have requested.  It is lost when a compounding exit
\* overwrites the compounded balance, or a second request the first.
NoPhantomShares == totalShares = sum([u \in Users |-> holding(u)])

\* INV-3 with R = T, and the tokens set aside from fees and claims: the token
\* balance covers everything the contract accounts for.
Solvent == held >= totalDeposited + rewardPool + insuranceFund + reserves

\* Whoever holds shares can redeem all of them with a call that succeeds now:
\* no mode, fee, penalty, slash or rounding leaves the books or the token
\* balance short.  A paused pool leaves the break-glass exit instead.
HoldersCanExit ==
    \A u \in Users : shares[u] > 0 =>
        IF require_not_paused THEN ENABLED withdraw(u, shares[u])
                              ELSE ENABLED emergency_withdraw(u)

\* Everybody with a share balance is on the AllStakers list, which the penalty
\* redistribution and check_invariants walk.
HoldersRegistered == \A u \in Users : shares[u] > 0 => u \in Range(stakers)

\* INV-5 and INV-6 for every call: no stake, exit, claim, compounding, transfer
\* or yield lowers the principal behind a share.  Only a slash may, through
\* the rounding of the shares it burns.
SharePriceNeverFalls ==
    [][\/ totalShares = 0
       \/ \E u \in Users, a \in SlashAmounts : slash(u, a)
       \/ totalDeposited' * totalShares >= totalDeposited * totalShares']_vars

===============================================================================
