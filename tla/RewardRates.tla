------------------------------ MODULE RewardRates ------------------------------
(***************************************************************************)
(* What a staker earns over a span of ledgers.  One settlement walks the   *)
(* span since the last one in segments that end at the next halving,       *)
(* boost tier, campaign or season boundary; the rate it starts from is     *)
(* written by the administrator, by a ramp and by four rate policies; a    *)
(* budget per epoch may clamp the result.  In epoch mode stakers are paid  *)
(* from snapshots instead.  The bootstrap rate of the code calls functions *)
(* that are defined nowhere, and is left out.                              *)
(***************************************************************************)
EXTENDS PoolBase

CONSTANTS
    Rates,          \* reward rates in basis points
    Schedules,      \* boost schedules: sequences of <<ledgers staked, multiplier>>
    Boosts,         \* multipliers of campaigns and seasons, in basis points
    Intervals,      \* lengths of halving intervals, campaigns, seasons and epochs
    RampLengths,    \* lengths of ramps
    Reductions,     \* cuts per halving interval, in basis points
    Floors,         \* floor_rate_bps of a halving schedule
    MinPools,       \* minimum pool sizes that start the rewards
    LedgersPerYear, \* STELLAR_LEDGERS_PER_YEAR
    MaxSeasons,     \* MAX_SEASONS (10 in the code)
    MaxChanges,     \* model bound on configuration changes
    MaxPolicies,    \* model bound on changes of the rate and its policies
    Watched,        \* the stakers who act while spans are checked
    MaxRateBps,     \* MAX_RATE_BPS
    Curves,         \* curves of the rate over the pool's size
    Steps,          \* its steps: sequences of <<pool size, rate>>
    MaxPoints,      \* MAX_CHECKPOINTS of the averaged history (50 in the code)
    MaxEpochs,      \* model bound on finalised epochs
    EpochRewards,   \* values for reward_per_epoch
    EpochVesting,   \* values for the vesting period
    MaxQueued,      \* entries of a vesting queue (10 in the code)
    Scale           \* fixed-point scale of the epoch reward factor (10^12 in the code)

Never     == 1000000    \* u32::MAX
Stuck     == -1         \* a walk that no longer advances: the call runs out of budget
NoHalving == [interval |-> 0, start |-> 0, reduction |-> 0, floor |-> 0]
NoBoost   == [mult |-> BPS_DENOMINATOR, start |-> Never, end |-> Never]
NoBudget  == [len |-> 0, per |-> 0, start |-> 0, emitted |-> 0]

VARIABLES
    plan,       \* boost schedule, halving, campaign, seasons, activation, budget
    rate,       \* RewardRateBps and everything that writes it
    span,       \* per user: staked_at, checkpoint, accrued reward, remainder
    epoch,      \* epoch mode
    changes     \* configuration changes so far, a model bound

rate_vars == <<plan, rate, span, epoch, changes>>

changed(max) == changes < max /\ changes' = changes + 1

PlanInit == plan = [schedule |-> <<>>, halving |-> NoHalving, campaign |-> NoBoost, seasons |-> <<>>,
                    minPool |-> 0, activatedAt |-> NoLedger, budget |-> NoBudget]

SpanInit == span = [u \in Users |-> [stakedAt |-> IF Staked[u] > 0 THEN 0 ELSE NoLedger,
                                     checkpoint |-> 0, accrued |-> 0, remainder |-> 0, index |-> 0]]

-------------------------------------------------------------------------------
\* Settings the segments are read from.
set_boost_schedule(s) ==
    /\ \A i \in DOMAIN s : s[i][2] >= BPS_DENOMINATOR /\ (i > 1 => s[i][1] > s[i - 1][1])
    /\ plan' = [plan EXCEPT !.schedule = s]

set_halving_schedule(interval, reduction, floor) ==
    /\ interval > 0 /\ reduction \in 1..BPS_DENOMINATOR
    /\ plan' = [plan EXCEPT !.halving = [interval |-> interval, start |-> now, reduction |-> reduction,
                                         floor |-> floor]]

start_boost_campaign(mult, duration) ==
    /\ mult >= BPS_DENOMINATOR /\ duration > 0
    /\ plan.campaign = NoBoost \/ now >= plan.campaign.end
    /\ plan' = [plan EXCEPT !.campaign = [mult |-> mult, start |-> now, end |-> now + duration]]

end_boost_campaign ==
    /\ plan.campaign # NoBoost
    /\ plan' = [plan EXCEPT !.campaign = NoBoost]

add_season(from, to, mult) ==
    /\ from < to /\ mult > 0 /\ Len(plan.seasons) < MaxSeasons
    /\ \A i \in DOMAIN plan.seasons : to <= plan.seasons[i].start \/ plan.seasons[i].end <= from
    /\ plan' = [plan EXCEPT !.seasons = Append(@, [mult |-> mult, start |-> from, end |-> to])]

remove_season(i) == plan' = [plan EXCEPT !.seasons = RemoveAt(@, i)]

\* The first time the pool reaches its minimum size is remembered for good.
maybe_activate_rewards(p, deposited) ==
    IF p.minPool > 0 /\ p.activatedAt = NoLedger /\ deposited >= p.minPool
    THEN [p EXCEPT !.activatedAt = now] ELSE p

set_min_pool_size_to_activate(m) ==
    plan' = maybe_activate_rewards([plan EXCEPT !.minPool = m], totalDeposited)

set_epoch_config(len, per) ==
    /\ len > 0
    /\ plan' = [plan EXCEPT !.budget = [len |-> len, per |-> per, start |-> now, emitted |-> 0]]

-------------------------------------------------------------------------------
\* Whoever writes the rate: the administrator, a ramp, the curve over the pool's size, its
\* steps, an outside benchmark, and the averaged history.  None of them settles anybody.
NoRamp == [from |-> 0, to |-> 0, start |-> NoLedger, len |-> 0]
NoCurve == [target |-> 0, max |-> 0, mid |-> 0, min |-> 0]

RateInit == \E r \in Rates : rate = [bps |-> r, ramp |-> NoRamp, curve |-> NoCurve, steps |-> <<>>,
                    bench |-> [spread |-> NoLedger, floor |-> 0, ceiling |-> 50000, interval |-> 0, last |-> 0],
                    points |-> <<>>, index |-> 0, indexed |-> 0]

\* The reward-per-share index is brought up to now at the rate in force.
update_global_accumulator ==
    IF now > rate.indexed
    THEN [rate EXCEPT !.indexed = now,
            !.index = IF totalShares > 0
                      THEN @ + (rate.bps * (now - rate.indexed) * Scale) \div (BPS_DENOMINATOR * LedgersPerYear) ELSE @]
    ELSE rate

set_reward_rate_bps(r) ==
    /\ r <= MaxRateBps
    /\ rate' = [update_global_accumulator EXCEPT !.bps = r, !.ramp = NoRamp]

\* The rate shown, between the two ends of a ramp while there is one.
compute_current_rate ==
    LET p == rate.ramp
        moved(d) == (d * (now - p.start)) \div p.len
    IN  IF p = NoRamp THEN rate.bps
        ELSE IF now <= p.start THEN p.from
        ELSE IF now - p.start >= p.len THEN p.to
        ELSE IF p.to >= p.from THEN p.from + moved(p.to - p.from) ELSE p.from - moved(p.from - p.to)

set_rate_ramp(to, len) ==
    /\ len > 0 /\ to <= MaxRateBps
    /\ rate' = [rate EXCEPT !.ramp = [from |-> compute_current_rate, to |-> to, start |-> now, len |-> len]]

\* Mutant: a cancelled ramp falls back to the rate from before it.
cancel_rate_ramp_back == rate.ramp # NoRamp /\ rate' = [rate EXCEPT !.ramp = NoRamp]

cancel_rate_ramp ==
    /\ rate.ramp # NoRamp
    /\ rate' = [rate EXCEPT !.bps = compute_current_rate, !.ramp = NoRamp]

complete_rate_ramp ==
    /\ rate.ramp # NoRamp /\ now - rate.ramp.start >= rate.ramp.len
    /\ rate' = [rate EXCEPT !.bps = rate.ramp.to, !.ramp = NoRamp]

\* The curve: max when the pool is empty, mid at its target, min at twice the target.
utilization_bps(target) == (totalDeposited * BPS_DENOMINATOR) \div target

compute_rate_bps(c) ==
    LET util == utilization_bps(c.target)
    IN  IF util <= BPS_DENOMINATOR THEN c.max - ((c.max - c.mid) * util) \div BPS_DENOMINATOR
        ELSE c.mid - ((c.mid - c.min) * (Min({util, 2 * BPS_DENOMINATOR}) - BPS_DENOMINATOR)) \div BPS_DENOMINATOR

sync(c) == IF c = NoCurve THEN rate.bps ELSE compute_rate_bps(c)

set_dynamic_rate_config(c) ==
    /\ c = NoCurve \/ (c.target > 0 /\ c.min <= c.mid /\ c.mid <= c.max /\ c.max <= MaxRateBps)
    /\ rate' = [rate EXCEPT !.curve = c, !.bps = sync(c)]

sync_dynamic_rate == rate' = [rate EXCEPT !.bps = sync(rate.curve)]

\* The steps: the highest one the pool has reached sets the rate.
set_tvl_rate_thresholds(s) ==
    /\ \A i \in DOMAIN s \ {1} : s[i][1] > s[i - 1][1]
    /\ rate' = [rate EXCEPT !.steps = s]

check_and_rebalance ==
    LET reached == {i \in DOMAIN rate.steps : rate.steps[i][1] <= totalDeposited}
    IN  rate' = IF reached = {} THEN rate ELSE [rate EXCEPT !.bps = rate.steps[Max(reached)][2]]

\* The benchmark: read from another contract, which may fail; refreshed once per interval.
set_rate_source(spread) == rate' = [rate EXCEPT !.bench.spread = spread]

set_rate_bounds(floor, ceiling) ==
    floor <= ceiling /\ rate' = [rate EXCEPT !.bench.floor = floor, !.bench.ceiling = ceiling]

set_refresh_interval(n) == rate' = [rate EXCEPT !.bench.interval = n]

compute_target_rate(value) == Max({Min({value + rate.bench.spread, rate.bench.ceiling}), rate.bench.floor})

refresh_rate(value, answered) ==
    LET b == rate.bench
    IN  /\ b.spread # NoLedger
        /\ b.interval > 0 /\ b.last > 0 => now - b.last >= b.interval
        /\ rate' = [rate EXCEPT !.bench.last = now, !.bps = IF answered THEN compute_target_rate(value) ELSE @]

\* The averaged history: the newest rates, each from the ledger it was recorded at.
record_rate_checkpoint(r) ==
    rate' = [rate EXCEPT !.points = LET all == Append(@, [bps |-> r, from |-> now])
                                    IN  IF Len(all) > MaxPoints THEN Tail(all) ELSE all,
                         !.bps = r]

\* Mutant: a segment reaches to the end of the span although a newer rate starts before.
calc_twa_sum_last(from, to) ==
    sum([i \in DOMAIN rate.points |-> rate.points[i].bps * Max({to - Max({from, rate.points[i].from}), 0})])

\* The weighted sum of calc_twa_rate, segment by segment.
calc_twa_sum(from, to) ==
    LET upto(i) == IF i < Len(rate.points) THEN Min({rate.points[i + 1].from, to}) ELSE to
    IN  sum([i \in DOMAIN rate.points |-> rate.points[i].bps * Max({upto(i) - Max({from, rate.points[i].from}), 0})])

PolicyNext ==
    /\ \/ \E r \in Rates : \/ set_reward_rate_bps(r) \/ record_rate_checkpoint(r)
                           \/ \E n \in RampLengths : set_rate_ramp(r, n)
                           \/ \E ok \in BOOLEAN : refresh_rate(r, ok)
       \/ cancel_rate_ramp \/ complete_rate_ramp
       \/ \E c \in Curves \cup {NoCurve} : set_dynamic_rate_config(c)
       \/ sync_dynamic_rate
       \/ \E s \in Steps : set_tvl_rate_thresholds(s)
       \/ check_and_rebalance
       \/ set_rate_source(0) \/ \E r \in Rates : set_rate_bounds(0, r)
       \/ \E i \in Intervals : set_refresh_interval(i)
    /\ UNCHANGED base_vars

\* Within a ledger, a ramp that starts, runs or ends leaves the rate shown where it is, unless
\* the administrator sets it; from one ledger to the next it moves the rate towards its
\* target, not past it, and is there when it ends.
between(a, x, b) == (a <= x /\ x <= b) \/ (b <= x /\ x <= a)

ramp_steady ==
    /\ now' = now /\ (rate.ramp # NoRamp \/ rate'.ramp # NoRamp) =>
           compute_current_rate' = compute_current_rate \/ \E r \in Rates : set_reward_rate_bps(r)
    /\ now' > now /\ rate.ramp # NoRamp =>
           /\ between(compute_current_rate, compute_current_rate', rate.ramp.to)
           /\ now' >= rate.ramp.start + rate.ramp.len => compute_current_rate' = rate.ramp.to

\* The segments of the averaged history weigh every ledger once, with the newest rate
\* recorded before it.
point_at(l) ==
    LET older == {i \in DOMAIN rate.points : rate.points[i].from <= l}
    IN  IF older = {} THEN 0 ELSE rate.points[Max(older)].bps

average_exact ==
    \A from \in 0..now : calc_twa_sum(from, now) = sum([l \in from..(now - 1) |-> point_at(l)])

-------------------------------------------------------------------------------
\* The rate of a ledger: halvings, then the tier, the campaign and the season.
halving_count_at(l) ==
    IF plan.halving # NoHalving /\ l > plan.halving.start
    THEN (l - plan.halving.start) \div plan.halving.interval ELSE 0

\* The rate after n halvings: once it is down to the floor it stays there.
cut(r, n) ==
    LET halved(x, i) == IF x <= plan.halving.floor THEN x
                        ELSE (x * (BPS_DENOMINATOR - plan.halving.reduction)) \div BPS_DENOMINATOR
    IN  Max({FoldLeft(halved, r, [i \in 1..n |-> i]), plan.halving.floor})

halving_adjusted_rate(base, l) == IF plan.halving = NoHalving THEN base ELSE cut(base, halving_count_at(l))

scaled(r, mult) == (r * mult) \div BPS_DENOMINATOR

reward_dust_for_ledgers(amount, r, tier, campaign, season, elapsed) ==
    amount * scaled(scaled(scaled(r, tier), campaign), season) * elapsed

\* Multiplier once `tier' tiers have been reached.
tier_multiplier(tier) == IF tier = 0 THEN BPS_DENOMINATOR ELSE plan.schedule[tier][2]

\* Tiers a position has reached after so many ledgers.
multiplier_for_elapsed(elapsed) == Cardinality({i \in DOMAIN plan.schedule : plan.schedule[i][1] <= elapsed})

\* Multiplier at a ledger and the next ledger at which it may change.
campaign_info_at(l) ==
    IF l < plan.campaign.start THEN <<BPS_DENOMINATOR, plan.campaign.start>>
    ELSE IF l < plan.campaign.end THEN <<plan.campaign.mult, plan.campaign.end>>
    ELSE <<BPS_DENOMINATOR, Never>>

\* Mutant: a season that has begun has no boundary ahead.
season_info_at_open(l) ==
    LET active == {i \in DOMAIN plan.seasons : plan.seasons[i].start <= l /\ l < plan.seasons[i].end}
    IN  IF active # {} THEN <<plan.seasons[Min(active)].mult, Never>> ELSE <<BPS_DENOMINATOR, Never>>

season_info_at(l) ==
    LET active == {i \in DOMAIN plan.seasons : plan.seasons[i].start <= l /\ l < plan.seasons[i].end}
        starts == {plan.seasons[i].start : i \in DOMAIN plan.seasons}
    IN  IF active # {} THEN LET s == plan.seasons[Min(active)] IN <<s.mult, s.end>>
        ELSE <<BPS_DENOMINATOR, Min({s \in starts : s > l} \cup {Never})>>

next_halving(l) ==
    IF plan.halving = NoHalving THEN Never
    ELSE plan.halving.start + (halving_count_at(l) + 1) * plan.halving.interval

\* One turn of the while loop of reward_between_ledgers.  A segment whose rate has been cut
\* to zero is skipped before the tier is advanced: when a tier starts there the walk does
\* not move again.
segment(w, amount, stakedAt, end) ==
    LET atTier   == IF w.tier < Len(plan.schedule) THEN stakedAt + plan.schedule[w.tier + 1][1] ELSE Never
        campaign == campaign_info_at(w.cursor)
        season   == season_info_at(w.cursor)
        seg == Min({next_halving(w.cursor), atTier, campaign[2], season[2], end})
        r   == halving_adjusted_rate(rate.bps, w.cursor)
    IN  IF w.cursor >= end THEN w
        ELSE IF plan.halving # NoHalving /\ r = 0 THEN [w EXCEPT !.cursor = seg]
        ELSE [cursor |-> seg, tier |-> IF seg = atTier THEN w.tier + 1 ELSE w.tier,
              dust |-> w.dust + reward_dust_for_ledgers(amount, r, tier_multiplier(w.tier),
                                                        campaign[1], season[1], seg - w.cursor)]

\* Every turn that moves at all passes a ledger or a tier, so this many turns are enough.
walk(amount, stakedAt, cursor, end, tier) ==
    LET last == FoldLeft(LAMBDA w, i : segment(w, amount, stakedAt, end),
                         [cursor |-> cursor, tier |-> tier, dust |-> 0],
                         [i \in 1..(end - cursor + Len(plan.schedule)) |-> i])
    IN  IF last.cursor >= end THEN last.dust ELSE Stuck

\* reward_accrual_floor: no reward before the pool first reached its minimum size.
reward_accrual_floor == IF plan.minPool = 0 THEN 0 ELSE IF plan.activatedAt = NoLedger THEN Never ELSE plan.activatedAt

span_start(u) == Max({span[u].checkpoint, reward_accrual_floor})

\* Dust earned by u since its checkpoint, in parts of a token.
reward_between_ledgers(u) ==
    LET start == span_start(u)
    IN  IF shares[u] = 0 \/ now <= start \/ rate.bps = 0 THEN 0
        ELSE walk(shares[u], span[u].stakedAt, start, now,
                  multiplier_for_elapsed(start - span[u].stakedAt))

\* Budget of the current epoch: whole epochs that passed are rolled over first.
rolled ==
    LET b == plan.budget
        n == (now - b.start) \div b.len
    IN  IF now - b.start < b.len THEN b ELSE [b EXCEPT !.start = @ + n * b.len, !.emitted = 0]

allowed(reward) == IF plan.budget = NoBudget THEN reward ELSE Min({reward, Max({rolled.per - rolled.emitted, 0})})

\* What a settlement leaves: the rate of the whole span is the one in force now, the part
\* of a token is kept for the next one, and what the budget cuts off is not kept.
accrue_rewards(u) ==
    LET total  == reward_between_ledgers(u) + span[u].remainder
        parts  == BPS_DENOMINATOR * LedgersPerYear
        reward == allowed(total \div parts)
    IN  IF epoch.mode THEN [pos |-> [span[u] EXCEPT !.checkpoint = now], plan |-> plan, rate |-> rate]
        ELSE [pos  |-> [span[u] EXCEPT !.checkpoint = now, !.remainder = total % parts, !.accrued = @ + reward,
                                       !.index = update_global_accumulator.index],
              rate |-> update_global_accumulator,
              plan |-> IF plan.budget = NoBudget THEN plan
                       ELSE [plan EXCEPT !.budget = [rolled EXCEPT !.emitted = @ + reward]]]

can_settle(u) == epoch.mode \/ reward_between_ledgers(u) # Stuck

enter(u, amount) ==
    LET s == accrue_rewards(u)
    IN  /\ can_settle(u) /\ join(u, amount)
        /\ span' = [span EXCEPT ![u] = [s.pos EXCEPT !.stakedAt = IF shares[u] = 0 THEN now ELSE @]]
        /\ plan' = maybe_activate_rewards(s.plan, totalDeposited + amount) /\ rate' = s.rate

exit(u) ==
    LET s == accrue_rewards(u)
    IN  /\ can_settle(u) /\ leave(u)
        /\ span' = [span EXCEPT ![u] = [s.pos EXCEPT !.stakedAt = NoLedger]]
        /\ plan' = s.plan /\ rate' = s.rate

claim(u) ==
    LET s == accrue_rewards(u)
    IN  /\ shares[u] > 0 /\ can_settle(u) /\ rewardPool >= s.pos.accrued
        /\ push(u, s.pos.accrued) /\ rewardPool' = rewardPool - s.pos.accrued
        /\ span' = [span EXCEPT ![u] = [s.pos EXCEPT !.accrued = 0]]
        /\ plan' = s.plan /\ rate' = s.rate
        /\ UNCHANGED <<now, pool>>

Change ==
    /\ \/ \E s \in Schedules : set_boost_schedule(s)
       \/ \E i \in Intervals, c \in Reductions, f \in Floors : set_halving_schedule(i, c, f)
       \/ \E b \in Boosts, d \in Intervals : start_boost_campaign(b, d)
       \/ end_boost_campaign
       \/ \E b \in Boosts, d \in Intervals, l \in {now, now + 1} : add_season(l, l + d, b)
       \/ \E i \in DOMAIN plan.seasons : remove_season(i)
       \/ \E m \in MinPools : set_min_pool_size_to_activate(m)
       \/ \E d \in Intervals : set_epoch_config(d, 1)
    /\ UNCHANGED <<base_vars, span>>

AccrualNext ==
    \/ \E u \in Watched : ((\E a \in Amounts : enter(u, a)) \/ exit(u) \/ claim(u)) /\ UNCHANGED changes
    \/ TimePasses /\ UNCHANGED <<plan, span, rate, changes>>
    \/ changed(MaxChanges) /\ Change /\ UNCHANGED rate
    \/ changed(MaxChanges) /\ (\E r \in Rates : set_reward_rate_bps(r)) /\ UNCHANGED <<base_vars, plan, span>>

\* The price of a single ledger: a rate of zero is off, whatever the floor of the halvings.
ledger_dust(u, l) ==
    IF rate.bps = 0 THEN 0
    ELSE reward_dust_for_ledgers(shares[u], halving_adjusted_rate(rate.bps, l),
             tier_multiplier(multiplier_for_elapsed(l - span[u].stakedAt)),
             campaign_info_at(l)[1], season_info_at(l)[1], 1)

\* However the segments fall, a span is worth the sum of its ledgers.
spans_priced ==
    \A u \in Users :
        LET dust == reward_between_ledgers(u)
        IN  shares[u] > 0 /\ dust # Stuck =>
                dust = sum([l \in span_start(u)..(now - 1) |-> ledger_dust(u, l)])

-------------------------------------------------------------------------------
\* Epoch mode: the stakers of an epoch share its reward by their stake when it is finalised.
\* History: `budget', the rewards of the finalised epochs, `paid', what was claimed of them,
\* and `received', what of that has left the contract.
EpochInit == epoch = [mode |-> FALSE, len |-> 0, per |-> 0, number |-> 0, start |-> 0, reward |-> 0,
                      factor |-> <<>>, snap |-> [u \in Users |-> <<>>], last |-> [u \in Users |-> 0],
                      cap |-> 0, period |-> 0, queue |-> [u \in Users |-> <<>>],
                      budget |-> 0, paid |-> 0, received |-> 0]

\* Set again, it changes the epochs to come; the one in progress keeps its reward.
set_epoch_mode(len, per) ==
    /\ rate.bps = 0
    /\ epoch' = IF epoch.number = 0
                THEN [epoch EXCEPT !.mode = TRUE, !.len = len, !.per = per, !.number = 1, !.start = now, !.reward = per]
                ELSE [epoch EXCEPT !.len = len, !.per = per]
    /\ UNCHANGED base_vars

set_vesting_period(p) == epoch' = [epoch EXCEPT !.period = p] /\ UNCHANGED base_vars

set_user_epoch_cap(c) == epoch' = [epoch EXCEPT !.cap = c] /\ UNCHANGED base_vars

finalize_epoch ==
    /\ epoch.mode /\ now >= epoch.start + epoch.len
    /\ epoch' = [epoch EXCEPT
           !.factor = Append(@, IF totalDeposited > 0 THEN (epoch.reward * Scale) \div totalDeposited ELSE 0),
           !.snap = [u \in Users |-> Append(@[u], IF shares[u] > 0 THEN amount_of(u) ELSE 0)],
           !.number = @ + 1, !.start = now, !.reward = epoch.per, !.budget = @ + epoch.reward]
    /\ UNCHANGED base_vars

epoch_reward(u, e) ==
    LET reward == (epoch.snap[u][e] * epoch.factor[e]) \div Scale
    IN  IF epoch.cap > 0 THEN Min({reward, epoch.cap}) ELSE reward

epoch_due(u) == sum([e \in (epoch.last[u] + 1)..(epoch.number - 1) |-> epoch_reward(u, e)])

\* With a vesting period the reward joins the queue of do_claim, which may be full.
claimed_by(u, due) ==
    IF epoch.period = 0 THEN [epoch EXCEPT !.paid = @ + due, !.received = @ + due]
    ELSE [epoch EXCEPT !.paid = @ + due, !.queue[u] = Append(@, [amount |-> due, at |-> now + epoch.period])]

\* Mutant: the epochs paid are not marked.
claim_epoch_rewards_again(u) ==
    /\ epoch.number > 0 /\ epoch_due(u) > 0 /\ rewardPool >= epoch_due(u)
    /\ IF epoch.period = 0 THEN push(u, epoch_due(u))
       ELSE Len(epoch.queue[u]) < MaxQueued /\ UNCHANGED <<wallet, held>>
    /\ rewardPool' = rewardPool - epoch_due(u)
    /\ epoch' = claimed_by(u, epoch_due(u))
    /\ UNCHANGED <<now, pool>>

claim_epoch_rewards(u) ==
    /\ epoch.number > 0 /\ epoch_due(u) > 0 /\ rewardPool >= epoch_due(u)
    /\ IF epoch.period = 0 THEN push(u, epoch_due(u))
       ELSE Len(epoch.queue[u]) < MaxQueued /\ UNCHANGED <<wallet, held>>
    /\ rewardPool' = rewardPool - epoch_due(u)
    /\ epoch' = [claimed_by(u, epoch_due(u)) EXCEPT !.last[u] = epoch.number - 1]
    /\ UNCHANGED <<now, pool>>

amount_in(entries) == sum([i \in DOMAIN entries |-> entries[i].amount])

\* The matured entries: the pool is asked for them again and not charged.
withdraw_vested(u) ==
    LET due == amount_in(SelectSeq(epoch.queue[u], LAMBDA e : now >= e.at))
    IN  /\ due > 0 /\ rewardPool >= due
        /\ push(u, due)
        /\ epoch' = [epoch EXCEPT !.received = @ + due, !.queue[u] = SelectSeq(@, LAMBDA e : now < e.at)]
        /\ UNCHANGED <<now, pool, rewardPool>>

EpochNext ==
    \/ changed(MaxChanges) /\ \/ \E i \in Intervals, p \in EpochRewards : set_epoch_mode(i, p)
                              \/ \E i \in Intervals : set_user_epoch_cap(i)
                              \/ \E p \in EpochVesting : set_vesting_period(p)
    \/ epoch.number <= MaxEpochs /\ finalize_epoch /\ UNCHANGED changes
    \/ (\E u \in Users : claim_epoch_rewards(u) \/ withdraw_vested(u)) /\ UNCHANGED changes

\* What epochs paid and still owe never exceeds the rewards of the finalised epochs, and
\* what was claimed has left the contract or waits in a queue, once.
epochs_within_budget ==
    /\ epoch.paid + sum([u \in Users |-> epoch_due(u)]) <= epoch.budget
    /\ epoch.received + sum([u \in Users |-> amount_in(epoch.queue[u])]) = epoch.paid

-------------------------------------------------------------------------------
RatesInit == PlanInit /\ RateInit /\ SpanInit /\ EpochInit /\ changes = 0

RatesNext(f) ==
    \/ f = "accrual" /\ AccrualNext /\ UNCHANGED epoch
    \/ f = "policies" /\ ((changed(MaxPolicies) /\ PolicyNext) \/ (PoolMoves /\ UNCHANGED <<rate, changes>>)) /\ UNCHANGED <<plan, span, epoch>>
    \/ f = "epochs" /\ (EpochNext \/ (PoolMoves /\ UNCHANGED <<epoch, changes>>)) /\ UNCHANGED <<plan, span, rate>>

===============================================================================
