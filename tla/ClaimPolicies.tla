------------------------------ MODULE ClaimPolicies ------------------------------
(***************************************************************************)
(* The alternative ways out of a staker's settled reward: each is an entry *)
(* point of its own with its own hold-back, and all of them drain the same *)
(* AccruedReward.  `capped': the epoch cap, the reserve floor and the      *)
(* anti-dump cooldown, which share one bucket of deferred rewards.         *)
(* `delayed': the large-claim queue, partial claims, vesting claims, with  *)
(* the claim fee, the bug-bounty share and the peg guard.  `streams':      *)
(* streak bonus, reward waterfall and validator rewards.  `extras': the    *)
(* additional reward tokens.                                               *)
(***************************************************************************)
EXTENDS PoolBase

CONSTANTS Earned,           \* what a settlement may add to a staker's accrued reward
          MaxEarned,        \* model bound on the rewards a staker earns
          Caps,             \* cap_per_epoch values
          Ratios,           \* reserve ratios in bps
          MaxDelay,         \* MAX_DELAY_LEDGERS of the large-claim queue
          FeeRates,         \* claim fees, bounty and recycled shares in bps
          MaxClaimFee,      \* MAX_CLAIM_FEE_BPS (500 in the code)
          MaxBounty,        \* MAX_BUG_BOUNTY_BPS (1000 in the code)
          VestingTimes,     \* claim vesting durations; 0 switches it off
          QueueUsers,       \* the stakers who use the delayed routes
          MaxStreak,
          TokenRates,       \* rates of the extra reward tokens
          MaxExtraTokens,   \* MAX_EXTRA_REWARD_TOKENS
          ExtraTokens, TokenYear

NoCap      == [cap |-> NoLedger, ledgers |-> 0]
NoDeferred == [amount |-> 0, from |-> 0]
NoPending  == [amount |-> 0, at |-> 0]
NoSchedule == [total |-> 0, released |-> 0, start |-> 0, duration |-> 0]

VARIABLES
    accrued,    \* AccruedReward of each staker
    earned,     \* history: all the reward and bonus ever credited to a staker
    cap,        \* epoch cap, tracker, deferred bucket, reserve ratio, cooldown
    delayed,    \* large-claim queue, vesting schedules, fee and bounty reserves, peg;
                \* history: fees recycled into the pool, buybacks out of it
    streams,    \* streak, waterfall credits, validator pool and balances
    extras      \* extra reward tokens and the users' checkpoints
policy_vars == <<accrued, earned, cap, delayed, streams, extras>>

CapInit ==
    cap = [cfg |-> NoCap, start |-> 0, paid |-> 0, deferred |-> [u \in Users |-> NoDeferred],
           ratio |-> 0, threshold |-> 0, rest |-> 0, until |-> [u \in Users |-> 0]]

DelayInit ==
    delayed = [threshold |-> 0, pending |-> [u \in Users |-> NoPending],
               duration |-> 0, schedule |-> [u \in Users |-> NoSchedule],
               fee |-> 0, reserve |-> 0, bounty |-> [u \in Users |-> 0], fund |-> 0,
               recycle |-> 0, recycled |-> 0, bought |-> 0, withdrawOnly |-> FALSE, halted |-> FALSE]

RewardTypes == {"BaseRate", "CampaignBoost"}

StreamInit ==
    streams = [period |-> 0, last |-> [u \in Users |-> 0], streak |-> [u \in Users |-> 0],
               order |-> <<"BaseRate", "CampaignBoost">>, credit |-> [u \in Users |-> 0],
               node |-> FALSE, vrPool |-> 0, vr |-> [u \in Users |-> 0]]

ExtraInit ==
    extras = [tokens |-> <<>>, checkpoint |-> [x \in ExtraTokens \X Users |-> 0],
              pending |-> [x \in ExtraTokens \X Users |-> 0],
              funded |-> [t \in ExtraTokens |-> 0], paid |-> [x \in ExtraTokens \X Users |-> 0],
              owed |-> [x \in ExtraTokens \X Users |-> 0],
              rounded |-> [x \in ExtraTokens \X Users |-> 0]]

PolicyInit ==
    /\ accrued = [u \in Users |-> 0] /\ earned = [u \in Users |-> 0]
    /\ CapInit /\ DelayInit /\ StreamInit /\ ExtraInit

\* A settlement (RewardRates, VaultPool) credits what the position has earned.
credit_accrued(u, amount) ==
    /\ earned[u] + amount <= MaxEarned
    /\ accrued' = [accrued EXCEPT ![u] = @ + amount]
    /\ earned' = [earned EXCEPT ![u] = @ + amount]
    /\ UNCHANGED <<base_vars, cap, delayed, streams, extras>>

\* The tail shared by the claims that draw on the reward pool.
pay_from_pool(u, amount) ==
    /\ rewardPool >= amount
    /\ rewardPool' = rewardPool - amount
    /\ push(u, amount)

-------------------------------------------------------------------------------
\* The tracker restarts with the cap.
set_epoch_reward_cap(c, ledgers) ==
    /\ ledgers > 0
    /\ cap' = [cap EXCEPT !.cfg = [cap |-> c, ledgers |-> ledgers], !.start = now, !.paid = 0]
    /\ UNCHANGED <<base_vars, accrued, earned, delayed, streams, extras>>

\* The epoch now: it restarts at the first claim after it has run out.
current_tracker ==
    IF now - cap.start < cap.cfg.ledgers THEN [start |-> cap.start, paid |-> cap.paid]
                                         ELSE [start |-> now, paid |-> 0]

\* Mutant: the newest deferral replaces what was waiting.
queue_deferred_replacing(bucket, amount, from) ==
    IF amount <= 0 THEN bucket ELSE [amount |-> amount, from |-> from]

\* One bucket: the amounts add up, the date of the latest deferral holds for all of it.
queue_deferred(bucket, amount, from) ==
    IF amount <= 0 THEN bucket ELSE [amount |-> bucket.amount + amount, from |-> from]

claim_epoch_capped_reward(u) ==
    LET t       == current_tracker
        payable == Min({accrued[u], Max({cap.cfg.cap - t.paid, 0})})
    IN  /\ cap.cfg # NoCap /\ accrued[u] > 0
        /\ pay_from_pool(u, payable)
        /\ accrued' = [accrued EXCEPT ![u] = 0]
        /\ cap' = [cap EXCEPT !.start = t.start, !.paid = t.paid + payable,
                     !.deferred[u] = queue_deferred(@, accrued[u] - payable, t.start + cap.cfg.ledgers)]
        /\ UNCHANGED <<now, pool, earned, delayed, streams, extras>>

\* Paid whole or not at all; it does not count against the cap of the epoch.
claim_deferred_reward(u) ==
    LET d == cap.deferred[u]
    IN  /\ d.amount > 0 /\ now >= d.from
        /\ pay_from_pool(u, d.amount)
        /\ cap' = [cap EXCEPT !.deferred[u] = NoDeferred]
        /\ UNCHANGED <<now, pool, accrued, earned, delayed, streams, extras>>

set_minimum_reserve_ratio_bps(r) ==
    /\ r <= 10000
    /\ cap' = [cap EXCEPT !.ratio = r]
    /\ UNCHANGED <<base_vars, accrued, earned, delayed, streams, extras>>

\* The stakers on the list; whoever has left is not, though their reward still waits.
total_pending_rewards == sum([u \in Users |-> IF shares[u] > 0 THEN accrued[u] ELSE 0])

compute_minimum_reserve_amount == (total_pending_rewards * cap.ratio) \div 10000

compute_available_for_claim == Max({rewardPool - compute_minimum_reserve_amount, 0})

claim_with_reserve_floor(u) ==
    LET payable == IF cap.ratio = 0 THEN accrued[u]
                                    ELSE Min({accrued[u], compute_available_for_claim})
    IN  /\ accrued[u] > 0
        /\ pay_from_pool(u, payable)
        /\ accrued' = [accrued EXCEPT ![u] = 0]
        /\ cap' = [cap EXCEPT !.deferred[u] = queue_deferred(@, accrued[u] - payable, now)]
        /\ UNCHANGED <<now, pool, earned, delayed, streams, extras>>

set_anti_dump_cooldown(threshold, ledgers) ==
    /\ threshold > 0 /\ ledgers > 0
    /\ cap' = [cap EXCEPT !.threshold = threshold, !.rest = ledgers]
    /\ UNCHANGED <<base_vars, accrued, earned, delayed, streams, extras>>

\* Switched off, the entry point itself is closed, whatever the cooldowns say.
disable_anti_dump_cooldown ==
    /\ cap.rest > 0
    /\ cap' = [cap EXCEPT !.rest = 0]
    /\ UNCHANGED <<base_vars, accrued, earned, delayed, streams, extras>>

claim_with_anti_dump_cooldown(u) ==
    /\ cap.rest > 0 /\ now >= cap.until[u] /\ accrued[u] > 0
    /\ pay_from_pool(u, accrued[u])
    /\ accrued' = [accrued EXCEPT ![u] = 0]
    /\ cap' = IF accrued[u] > cap.threshold THEN [cap EXCEPT !.until[u] = now + cap.rest] ELSE cap
    /\ UNCHANGED <<now, pool, earned, delayed, streams, extras>>

CappedNext ==
    \/ \E c \in Caps, d \in Durations : set_epoch_reward_cap(c, d)
    \/ \E r \in Ratios : set_minimum_reserve_ratio_bps(r)
    \/ \E a \in Amounts, d \in Durations : set_anti_dump_cooldown(a, d)
    \/ disable_anti_dump_cooldown
    \/ \E u \in Users : \/ claim_epoch_capped_reward(u) \/ claim_deferred_reward(u)
                        \/ claim_with_reserve_floor(u) \/ claim_with_anti_dump_cooldown(u)
                        \/ leave(u) /\ UNCHANGED policy_vars

-------------------------------------------------------------------------------
set_mev_protection_threshold(amount) ==
    /\ delayed' = [delayed EXCEPT !.threshold = amount]
    /\ UNCHANGED <<base_vars, accrued, earned, cap, streams, extras>>

\* claim(): a large claim is taken off the books and waits a random number of ledgers; a
\* second one while it waits is refused.  Smaller claims go the way of ClaimPipeline.
maybe_queue_large_claim(u) ==
    /\ delayed.threshold > 0 /\ accrued[u] >= delayed.threshold
    /\ delayed.pending[u] = NoPending
    /\ \E d \in 1..MaxDelay :
          delayed' = [delayed EXCEPT !.pending[u] = [amount |-> accrued[u], at |-> now + d]]
    /\ accrued' = [accrued EXCEPT ![u] = 0]
    /\ UNCHANGED <<base_vars, earned, cap, streams, extras>>

\* The tokens leave the contract, the reward pool's book balance does not change.
execute_pending_claim(u) ==
    LET p == delayed.pending[u]
    IN  /\ p # NoPending /\ now >= p.at
        /\ push(u, p.amount)
        /\ delayed' = [delayed EXCEPT !.pending[u] = NoPending]
        /\ UNCHANGED <<now, pool, rewardPool, accrued, earned, cap, streams, extras>>

\* Mutant: what was settled since the claim was queued is overwritten.
cancel_pending_claim_overwriting(u) ==
    LET p == delayed.pending[u]
    IN  /\ p # NoPending
        /\ accrued' = [accrued EXCEPT ![u] = p.amount]
        /\ delayed' = [delayed EXCEPT !.pending[u] = NoPending]
        /\ UNCHANGED <<base_vars, earned, cap, streams, extras>>

cancel_pending_claim(u) ==
    LET p == delayed.pending[u]
    IN  /\ p # NoPending
        /\ accrued' = [accrued EXCEPT ![u] = @ + p.amount]
        /\ delayed' = [delayed EXCEPT !.pending[u] = NoPending]
        /\ UNCHANGED <<base_vars, earned, cap, streams, extras>>

set_claim_fee_bps(f) ==
    /\ f <= MaxClaimFee
    /\ delayed' = [delayed EXCEPT !.fee = f]
    /\ UNCHANGED <<base_vars, accrued, earned, cap, streams, extras>>

set_bug_bounty_contribution_bps(u, b) ==
    /\ b <= MaxBounty
    /\ delayed' = [delayed EXCEPT !.bounty[u] = b]
    /\ UNCHANGED <<base_vars, accrued, earned, cap, streams, extras>>

set_fee_recycle_bps(r) ==
    /\ r <= 10000
    /\ delayed' = [delayed EXCEPT !.recycle = r]
    /\ UNCHANGED <<base_vars, accrued, earned, cap, streams, extras>>

\* enter_withdraw_only_mode and exit_withdraw_only_mode: claims are free meanwhile.
set_withdraw_only(on) ==
    /\ delayed' = [delayed EXCEPT !.withdrawOnly = on]
    /\ UNCHANGED <<base_vars, accrued, earned, cap, streams, extras>>

deduct_bounty_contribution(u, reward) == (reward * delayed.bounty[u]) \div 10000

apply_claim_fee(reward) == IF delayed.withdrawOnly THEN 0 ELSE (reward * delayed.fee) \div 10000

\* recycle_fee: the part of a fee that returns to the reward pool.
recycle_fee(fee) == (fee * delayed.recycle) \div 10000

\* Mutant: the recycled part stays in the reserve as well.
deducted_twice(bounty, fee) ==
    [delayed EXCEPT !.fund = @ + bounty, !.reserve = @ + fee, !.recycled = @ + recycle_fee(fee)]

\* The deductions of a claim: the bounty to its fund, the fee to the pool and the reserve.
deducted(bounty, fee) ==
    [delayed EXCEPT !.fund = @ + bounty, !.reserve = @ + fee - recycle_fee(fee), !.recycled = @ + recycle_fee(fee)]

withdraw_claim_fees(amount) ==
    /\ amount <= delayed.reserve
    /\ push(Admin, amount)
    /\ delayed' = [delayed EXCEPT !.reserve = @ - amount]
    /\ UNCHANGED <<now, pool, rewardPool, accrued, earned, cap, streams, extras>>

\* The committee pays reporters out of the fund.
pay_bug_bounty(amount) ==
    /\ amount <= delayed.fund
    /\ push(Admin, amount)
    /\ delayed' = [delayed EXCEPT !.fund = @ - amount]
    /\ UNCHANGED <<now, pool, rewardPool, accrued, earned, cap, streams, extras>>

claim_partial(u, amount) ==
    LET bounty == deduct_bounty_contribution(u, amount)
        fee    == apply_claim_fee(amount - bounty)
    IN  /\ ~delayed.halted /\ amount <= accrued[u]
        /\ push(u, amount - bounty - fee)
        /\ accrued' = [accrued EXCEPT ![u] = @ - amount]
        /\ delayed' = deducted(bounty, fee)
        /\ rewardPool' = rewardPool + recycle_fee(fee)
        /\ UNCHANGED <<now, pool, earned, cap, streams, extras>>

set_claim_vesting_duration(d) ==
    /\ delayed' = [delayed EXCEPT !.duration = d]
    /\ UNCHANGED <<base_vars, accrued, earned, cap, streams, extras>>

vested_amount(s) ==
    IF s.duration = 0 \/ now - s.start >= s.duration THEN s.total
                                                     ELSE (s.total * (now - s.start)) \div s.duration

releasable_amount(s) == Max({vested_amount(s) - s.released, 0})

\* The schedule after what has vested is paid out; a finished one is removed.
released(s) ==
    LET done == s.released + releasable_amount(s)
    IN  IF done >= s.total THEN NoSchedule ELSE [s EXCEPT !.released = done]

\* One schedule per staker: what is still locked starts again together with the new reward.
claim_vesting(u) ==
    LET bounty == deduct_bounty_contribution(u, accrued[u])
        fee    == apply_claim_fee(accrued[u] - bounty)
        net    == accrued[u] - bounty - fee
        rest   == released(delayed.schedule[u])
    IN  /\ delayed.duration > 0 /\ accrued[u] > 0 /\ ~delayed.halted
        /\ accrued' = [accrued EXCEPT ![u] = 0]
        /\ rewardPool' = rewardPool + recycle_fee(fee)
        /\ IF net <= 0
           THEN /\ delayed' = deducted(bounty, fee)
                /\ UNCHANGED <<wallet, held>>
           ELSE /\ delayed' = [deducted(bounty, fee) EXCEPT
                                 !.schedule[u] = [total |-> rest.total - rest.released + net, released |-> 0,
                                                  start |-> now, duration |-> delayed.duration]]
                /\ push(u, releasable_amount(delayed.schedule[u]))
        /\ UNCHANGED <<now, pool, earned, cap, streams, extras>>

release_vested(u) ==
    /\ delayed.schedule[u] # NoSchedule
    /\ push(u, releasable_amount(delayed.schedule[u]))
    /\ delayed' = [delayed EXCEPT !.schedule[u] = released(@)]
    /\ UNCHANGED <<now, pool, rewardPool, accrued, earned, cap, streams, extras>>

\* The oracle's price is below the band, above it, or inside.  With one token for stakes
\* and rewards a buyback only writes the spent amount off the pool's books.
check_peg(price, maxBuyback) ==
    \/ /\ price = "below"
       /\ LET spend == IF maxBuyback > 0 /\ maxBuyback < rewardPool THEN maxBuyback ELSE rewardPool
          IN  rewardPool' = rewardPool - spend /\ delayed' = [delayed EXCEPT !.bought = @ + spend]
       /\ UNCHANGED <<now, wallet, held, pool, accrued, earned, cap, streams, extras>>
    \/ /\ price # "below"
       /\ delayed' = [delayed EXCEPT !.halted = (price = "above")]
       /\ UNCHANGED <<base_vars, accrued, earned, cap, streams, extras>>

DelayedNext ==
    \/ \E a \in Amounts \cup {0} : set_mev_protection_threshold(a)
    \/ \E on \in BOOLEAN : set_withdraw_only(on)
    \/ \E f \in FeeRates : set_claim_fee_bps(f) \/ set_fee_recycle_bps(f) \/ \E u \in QueueUsers : set_bug_bounty_contribution_bps(u, f)
    \/ \E d \in VestingTimes : set_claim_vesting_duration(d)
    \/ \E a \in Amounts : \/ withdraw_claim_fees(a) \/ pay_bug_bounty(a)
                          \/ \E u \in Users : claim_partial(u, a)
    \/ \E u \in Users : \/ maybe_queue_large_claim(u) \/ execute_pending_claim(u) \/ cancel_pending_claim(u)
                        \/ claim_vesting(u) \/ release_vested(u)
    \/ \E p \in {"below", "inside", "above"}, a \in Amounts : check_peg(p, a)

-------------------------------------------------------------------------------
\* Streak periods are counted in ledgers; the bonus is the reward once per streak
\* (bonus_bps_per_streak at its maximum).
set_streak_config(period) ==
    /\ period > 0
    /\ streams' = [streams EXCEPT !.period = period]
    /\ UNCHANGED <<base_vars, accrued, earned, cap, delayed, extras>>

period_of(ledger) == ledger \div streams.period

\* Same period: the streak stays and earns nothing; the next one: one longer; later: anew.
next_streak(u) ==
    LET gap == period_of(now) - period_of(streams.last[u])
    IN  CASE streams.streak[u] = 0 -> <<1, TRUE>>
          [] streams.streak[u] > 0 /\ gap <= 0 -> <<streams.streak[u], FALSE>>
          [] streams.streak[u] > 0 /\ gap = 1 -> <<Min({streams.streak[u] + 1, MaxStreak}), TRUE>>
          [] OTHER -> <<1, TRUE>>

bonus_for(u) == IF next_streak(u)[2] THEN next_streak(u)[1] * accrued[u] ELSE 0

claim_with_streak_bonus(u) ==
    /\ streams.period > 0 /\ accrued[u] > 0
    /\ pay_from_pool(u, accrued[u] + bonus_for(u))
    /\ accrued' = [accrued EXCEPT ![u] = 0]
    /\ earned' = [earned EXCEPT ![u] = @ + bonus_for(u)]
    /\ streams' = [streams EXCEPT !.last[u] = now, !.streak[u] = next_streak(u)[1]]
    /\ UNCHANGED <<now, pool, cap, delayed, extras>>

set_reward_waterfall(order) ==
    /\ order # <<>>
    /\ streams' = [streams EXCEPT !.order = order]
    /\ UNCHANGED <<base_vars, accrued, earned, cap, delayed, extras>>

credit_reward(u, amount) ==
    /\ earned[u] + amount <= MaxEarned
    /\ streams' = [streams EXCEPT !.credit[u] = @ + amount]
    /\ earned' = [earned EXCEPT ![u] = @ + amount]
    /\ UNCHANGED <<base_vars, accrued, cap, delayed, extras>>

pending_for(u, t) == IF t = "BaseRate" THEN accrued[u] ELSE streams.credit[u]

\* The types the pool can pay, walking the order: a type larger than what is left is
\* skipped and smaller ones behind it are still paid.
payable_types(u) ==
    FoldLeft(LAMBDA acc, t : IF pending_for(u, t) <= acc.left
                             THEN [left |-> acc.left - pending_for(u, t), paid |-> acc.paid \cup {t}]
                             ELSE acc,
             [left |-> rewardPool, paid |-> {}], streams.order)

\* Mutant: the skipped types are debited as well.
claim_via_waterfall_debiting(u) ==
    LET p == payable_types(u)
    IN  /\ rewardPool > p.left
        /\ pay_from_pool(u, rewardPool - p.left)
        /\ accrued' = [accrued EXCEPT ![u] = 0]
        /\ streams' = [streams EXCEPT !.credit[u] = 0]
        /\ UNCHANGED <<now, pool, earned, cap, delayed, extras>>

claim_via_waterfall(u) ==
    LET p == payable_types(u)
    IN  /\ rewardPool > p.left
        /\ pay_from_pool(u, rewardPool - p.left)
        /\ accrued' = [accrued EXCEPT ![u] = IF "BaseRate" \in p.paid THEN 0 ELSE @]
        /\ streams' = [streams EXCEPT !.credit[u] = IF "CampaignBoost" \in p.paid THEN 0 ELSE @]
        /\ UNCHANGED <<now, pool, earned, cap, delayed, extras>>

register_validator_node ==
    /\ streams' = [streams EXCEPT !.node = TRUE]
    /\ UNCHANGED <<base_vars, accrued, earned, cap, delayed, extras>>

\* Only a number: the node's deposit moves no tokens.
deposit_validator_rewards(amount) ==
    /\ streams.node /\ streams.vrPool + amount <= MaxEarned
    /\ streams' = [streams EXCEPT !.vrPool = @ + amount]
    /\ UNCHANGED <<base_vars, accrued, earned, cap, delayed, extras>>

\* Pro rata to the positions; what the rounding leaves over is dropped with the pool.
distribute_validator_rewards ==
    LET share(u) == (streams.vrPool * amount_of(u)) \div totalDeposited
    IN  /\ streams.vrPool > 0 /\ totalShares > 0 /\ totalDeposited > 0
        /\ \A u \in Users : earned[u] + share(u) <= MaxEarned
        /\ earned' = [u \in Users |-> earned[u] + share(u)]
        /\ streams' = [streams EXCEPT !.vr = [u \in Users |-> @[u] + share(u)], !.vrPool = 0]
        /\ UNCHANGED <<base_vars, accrued, cap, delayed, extras>>

claim_validator_rewards(u) ==
    /\ streams.vr[u] > 0
    /\ push(u, streams.vr[u])
    /\ streams' = [streams EXCEPT !.vr[u] = 0]
    /\ UNCHANGED <<now, pool, rewardPool, accrued, earned, cap, delayed, extras>>

StreamNext ==
    \/ \E d \in Durations : set_streak_config(d)
    \/ \E o \in {<<"CampaignBoost", "BaseRate">>, <<"CampaignBoost">>} : set_reward_waterfall(o)
    \/ register_validator_node
    \/ \E a \in Amounts : deposit_validator_rewards(a)
    \/ distribute_validator_rewards
    \/ \E u \in Users : \/ claim_with_streak_bonus(u) \/ claim_via_waterfall(u) \/ claim_validator_rewards(u)
                        \/ \E a \in Amounts : credit_reward(u, a)

-------------------------------------------------------------------------------
\* Reward per share, in whole tokens: TokenYear ledgers of a rate of 10000 are one token.
index_of(t) == CHOOSE i \in DOMAIN extras.tokens : extras.tokens[i].token = t
added(t)    == \E i \in DOMAIN extras.tokens : extras.tokens[i].token = t

advance(t) == [t EXCEPT !.acc = @ + (now - t.last) * t.rate, !.last = now]

\* Earnings since the checkpoint in units of a rate point, and in whole tokens.
unsettled(t, u) ==
    IF t.acc <= extras.checkpoint[t.token, u] THEN 0
    ELSE shares[u] * (t.acc - extras.checkpoint[t.token, u])

earned_since_checkpoint(t, u) == unsettled(t, u) \div (10000 * TokenYear)

\* Every token advanced and the user's earnings moved to pending, at the shares held now.
\* A settlement drops the part of a token it cannot pay: `rounded' is the history of that.
settle_user(u) ==
    LET ts     == [i \in DOMAIN extras.tokens |-> advance(extras.tokens[i])]
        at(x)  == ts[index_of(x[1])]
        hit(x) == x[2] = u /\ added(x[1])
    IN  [extras EXCEPT !.tokens = ts,
           !.pending = [x \in DOMAIN @ |-> IF hit(x) THEN @[x] + earned_since_checkpoint(at(x), u) ELSE @[x]],
           !.rounded = [x \in DOMAIN @ |-> IF hit(x) THEN @[x] + (unsettled(at(x), u) % (10000 * TokenYear)) ELSE @[x]],
           !.checkpoint = [x \in DOMAIN @ |-> IF hit(x) THEN at(x).acc ELSE @[x]]]

add_reward_token(t, r) ==
    /\ ~added(t) /\ Len(extras.tokens) < MaxExtraTokens
    /\ extras' = [extras EXCEPT !.tokens = Append(@, [token |-> t, rate |-> r, acc |-> 0, last |-> now, pool |-> 0])]
    /\ UNCHANGED <<base_vars, accrued, earned, cap, delayed, streams>>

fund_reward_token(t, amount) ==
    /\ added(t) /\ extras.funded[t] + amount <= MaxEarned
    /\ extras' = [extras EXCEPT !.tokens[index_of(t)].pool = @ + amount, !.funded[t] = @ + amount]
    /\ UNCHANGED <<base_vars, accrued, earned, cap, delayed, streams>>

\* A token whose pool runs dry keeps the rest of what it owes.
take_payable(e, i, u) ==
    LET t == e.tokens[i].token
        p == Min({e.pending[t, u], e.tokens[i].pool})
    IN  [e EXCEPT !.tokens[i].pool = @ - p, !.pending[<<t, u>>] = @ - p, !.paid[<<t, u>>] = @ + p]

claim_token(t, u) ==
    /\ added(t)
    /\ extras' = take_payable(settle_user(u), index_of(t), u)
    /\ UNCHANGED <<base_vars, accrued, earned, cap, delayed, streams>>

claim_all(u) ==
    /\ extras' = FoldLeft(LAMBDA e, i : take_payable(e, i, u), settle_user(u),
                          [i \in DOMAIN extras.tokens |-> i])
    /\ UNCHANGED <<base_vars, accrued, earned, cap, delayed, streams>>

\* Mutant: the shares change before the extra tokens are settled.
set_shares_unsettled(u) == UNCHANGED extras

\* Every change of a share balance first settles the owner's extra rewards.
set_shares(u) == extras' = settle_user(u)

stakes_or_leaves(u) ==
    /\ leave(u) \/ \E a \in Amounts : join(u, a)
    /\ set_shares(u)
    /\ UNCHANGED <<accrued, earned, cap, delayed, streams>>

\* Each ledger a token pays its rate on the shares held in it (history in units of a
\* rate point; the settlement rounds it down).
token_dues ==
    [x \in DOMAIN extras.owed |-> extras.owed[x] + IF now < MaxLedger /\ added(x[1])
        THEN extras.tokens[index_of(x[1])].rate * shares[x[2]] ELSE 0]

ExtraNext ==
    \/ \E t \in ExtraTokens, r \in TokenRates : add_reward_token(t, r)
    \/ \E t \in ExtraTokens, a \in Amounts : fund_reward_token(t, a)
    \/ \E u \in Users : claim_all(u) \/ stakes_or_leaves(u) \/ \E t \in ExtraTokens : claim_token(t, u)

PolicyTick(f) ==
    /\ TimePasses
    /\ extras' = IF f = "extras" THEN [extras EXCEPT !.owed = token_dues] ELSE extras
    /\ UNCHANGED <<accrued, earned, cap, delayed, streams>>

PayoutNext(f) ==
    \/ f = "capped" /\ CappedNext
    \/ f = "delayed" /\ DelayedNext
    \/ f = "streams" /\ StreamNext
    \/ f = "extras" /\ ExtraNext
    \/ f \in {"capped", "delayed", "streams"} 
          /\ \E u \in IF f = "delayed" THEN QueueUsers ELSE Users, a \in Earned : credit_accrued(u, a)
    \/ f \in {"capped", "delayed", "streams", "extras"} /\ PolicyTick(f)

-------------------------------------------------------------------------------
\* What a staker has in hand and what the contract still keeps for them on any route.
kept_for(u) ==
    accrued[u] + cap.deferred[u].amount + delayed.pending[u].amount
    + (delayed.schedule[u].total - delayed.schedule[u].released) + streams.credit[u] + streams.vr[u]

\* What u took out of the contract beside its stake (the price of a share is one here).
in_hand(u) == wallet[u] - Purse - (Staked[u] - amount_of(u))

\* Every reward credited to the stakers is in their hands, kept for them on one of the
\* routes, in the fee and bounty reserves, or recycled into the reward pool, once; the
\* pool holds what was recycled.
rewards_reach_once ==
    /\ sum([u \in Users |-> in_hand(u) + kept_for(u)]) + (wallet[Admin] - AdminPurse)
         + delayed.reserve + delayed.fund + delayed.recycled = sum(earned)
    /\ delayed.fee = 0 /\ delayed.reserve = 0 /\ delayed.fund = 0 /\ delayed.recycled = 0
         /\ wallet[Admin] = AdminPurse /\ delayed.bounty = [u \in Users |-> 0]
       => \A u \in Users : in_hand(u) + kept_for(u) = earned[u]

\* The delayed routes leave the pool's books alone but for recycled fees and buybacks.
pool_recycles == rewardPool = PoolReserve + delayed.recycled - delayed.bought

\* Extra tokens are earned for exactly the ledgers and shares held, however stakes,
\* exits, claims and dry pools alternate: what was paid, is pending, or was dropped in
\* rounding, and what has not been settled yet, is all of it.  No token pays out more than it was given.
extra_tokens_exact ==
    /\ \A x \in ExtraTokens \X Users : added(x[1]) =>
          LET t   == advance(extras.tokens[index_of(x[1])])
              has == extras.paid[x] + extras.pending[x]
          IN  has * 10000 * TokenYear + extras.rounded[x] + unsettled(t, x[2]) = extras.owed[x]
    /\ \A i \in DOMAIN extras.tokens :
          LET t == extras.tokens[i].token
          IN  extras.tokens[i].pool + sum([u \in Users |-> extras.paid[t, u]]) = extras.funded[t]
===============================================================================
