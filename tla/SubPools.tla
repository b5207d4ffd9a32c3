-------------------------------- MODULE SubPools --------------------------------
(***************************************************************************)
(* Pools inside the pool.  Sub-pools take deposits of their own, up to a   *)
(* capacity that registered keepers shift between them; the positions earn *)
(* at the sub-pool's rate.  Meta-staking stakes the token a second time at *)
(* the admin's meta rate.  Both keep their tokens with the vault's.        *)
(***************************************************************************)
EXTENDS PoolBase

CONSTANTS
    SubStakers,         \* the users who enter sub-pools and meta-staking
    SubRates,           \* rates of sub-pools, and the meta rate, in basis points
    MainRate,           \* RewardRateBps, which no sub-pool may exceed
    Capacities,         \* max_capacity of a new sub-pool
    Bounds,             \* <<smallest, largest>> capacity the admin allows a keeper
    Limits,             \* <<largest amount, cooldown>> of a rebalancing
    SubYear,            \* ledgers in a year
    MaxSubPools,        \* 5 in the code
    MaxRepricings       \* model bound on changes of a rate

\* Rates, capacities and limits as their setters admit them.
ASSUME SubAssumption ==
    /\ SubStakers \subseteq Users /\ SubRates \subseteq Nat /\ Capacities \subseteq Nat
    /\ Bounds \subseteq Int \X Int /\ Limits \subseteq Nat \X Nat
    /\ SubYear \in Nat \ {0} /\ MaxSubPools \in Nat

NoBounds == <<-1, -1>>
Untouched == [pos |-> 0, since |-> 0, accrued |-> 0]

VARIABLES
    sub,        \* SubPool by id: rate, total_staked, max_capacity, rebalance bounds
    stakes,     \* position, checkpoint and accrued reward of each staker in each sub-pool
    rebalance,  \* limits and last ledger of rebalancing; the keepers' records
    meta        \* meta-staking: rate, total, positions
sub_vars == <<sub, stakes, rebalance, meta>>

SubPoolInit == sub = <<>> /\ stakes = [x \in SubStakers \X (1..MaxSubPools) |-> Untouched]

RebalanceInit == rebalance = [max |-> 0, cooldown |-> 0, last |-> 0, keeper |-> FALSE, capacity |-> 0]

\* `paid' and `owed' are history; `changes' counts the rate changes of either kind.
MetaInit == meta = [rate |-> 0, total |-> 0, user |-> [u \in SubStakers |-> Untouched], paid |-> 0, changes |-> 0,
                    owed |-> [x \in SubStakers \X (1..MaxSubPools) |-> 0]]

SubInit == SubPoolInit /\ RebalanceInit /\ MetaInit

create_sub_pool(r, cap) ==
    /\ cap > 0 /\ (MainRate > 0 => r <= MainRate)
    /\ Len(sub) < MaxSubPools
    /\ sub' = Append(sub, [rate |-> r, total |-> 0, cap |-> cap, bounds |-> NoBounds])
    /\ rebalance' = [rebalance EXCEPT !.capacity = rebalance.capacity + cap]
    /\ UNCHANGED <<base_vars, stakes, meta>>

\* The reward of the time since the checkpoint, at the rate of now.
interest(pos, r, since) ==
    IF pos > 0 /\ r > 0 /\ now > since
    THEN (pos * r * (now - since)) \div (BPS_DENOMINATOR * SubYear) ELSE 0

settle_sub_pool_rewards(u, id) ==
    LET s == stakes[<<u, id>>]
    IN  [pos |-> s.pos, since |-> now, accrued |-> s.accrued + interest(s.pos, sub[id].rate, s.since)]

\* A position and its sub-pool after so much was added to them, the reward settled first.
settled_by(u, id, amount) ==
    LET s == settle_sub_pool_rewards(u, id)
    IN  [s EXCEPT !.pos = s.pos + amount]

resized(id, amount) == [sub[id] EXCEPT !.total = sub[id].total + amount]

stake_into_sub_pool(u, id, amount) ==
    /\ sub[id].total + amount <= sub[id].cap
    /\ pull(u, amount)
    /\ sub' = [sub EXCEPT ![id] = resized(id, amount)]
    /\ stakes' = [stakes EXCEPT ![<<u, id>>] = settled_by(u, id, amount)]
    /\ UNCHANGED <<now, pool, rewardPool, rebalance, meta>>

unstake_from_sub_pool(u, id, amount) ==
    /\ stakes[<<u, id>>].pos >= amount
    /\ sub' = [sub EXCEPT ![id] = resized(id, -amount)]
    /\ stakes' = [stakes EXCEPT ![<<u, id>>] = settled_by(u, id, -amount)]
    /\ push(u, amount)
    /\ UNCHANGED <<now, pool, rewardPool, rebalance, meta>>

\* Mutant: the position in the destination grows before it is settled.
move_between_sub_pools_unsettled(u, from, to, amount) ==
    /\ from # to /\ stakes[<<u, from>>].pos >= amount
    /\ sub[to].total + amount <= sub[to].cap
    /\ sub' = [sub EXCEPT ![from] = resized(from, -amount), ![to] = resized(to, amount)]
    /\ stakes' = [stakes EXCEPT ![<<u, from>>] = settled_by(u, from, -amount), ![<<u, to>>].pos = @ + amount]
    /\ UNCHANGED <<base_vars, rebalance, meta>>

move_between_sub_pools(u, from, to, amount) ==
    /\ from # to /\ stakes[<<u, from>>].pos >= amount
    /\ sub[to].total + amount <= sub[to].cap
    /\ sub' = [sub EXCEPT ![from] = resized(from, -amount), ![to] = resized(to, amount)]
    /\ stakes' = [stakes EXCEPT ![<<u, from>>] = settled_by(u, from, -amount), ![<<u, to>>] = settled_by(u, to, amount)]
    /\ UNCHANGED <<base_vars, rebalance, meta>>

\* By the admin or the sub-pool's own; nobody is settled first.
set_sub_pool_rate(id, r) ==
    /\ meta.changes < MaxRepricings /\ (MainRate > 0 => r <= MainRate)
    /\ sub' = [sub EXCEPT ![id] = [sub[id] EXCEPT !.rate = r]]
    /\ meta' = [meta EXCEPT !.changes = meta.changes + 1]
    /\ UNCHANGED <<base_vars, stakes, rebalance>>

\* Records of keepers are kept; only whether the keeper is active matters here.
register_keeper ==
    /\ rebalance' = [rebalance EXCEPT !.keeper = TRUE]
    /\ UNCHANGED <<base_vars, sub, stakes, meta>>

deregister_keeper ==
    /\ rebalance.keeper
    /\ rebalance' = [rebalance EXCEPT !.keeper = FALSE]
    /\ UNCHANGED <<base_vars, sub, stakes, meta>>

set_sub_pool_rebalance_bounds(id, min, max) ==
    /\ 0 <= min /\ min <= max
    /\ sub' = [sub EXCEPT ![id] = [sub[id] EXCEPT !.bounds = <<min, max>>]]
    /\ UNCHANGED <<base_vars, stakes, rebalance, meta>>

set_sub_pool_rebalance_limits(max, cooldown) ==
    /\ rebalance' = [rebalance EXCEPT !.max = max, !.cooldown = cooldown]
    /\ UNCHANGED <<base_vars, sub, stakes, meta>>

\* A last ledger of zero counts as never.
cooldown_over == rebalance.cooldown = 0 \/ rebalance.last = 0 \/ now - rebalance.last >= rebalance.cooldown

recapped(id, amount) == [sub[id] EXCEPT !.cap = sub[id].cap + amount]

\* Mutant: the capacity may fall below what is staked.
rebalance_sub_pool_capacity_any(from, to, amount) ==
    /\ rebalance.keeper /\ from # to
    /\ rebalance.max > 0 => amount <= rebalance.max
    /\ cooldown_over
    /\ sub[from].bounds # NoBounds /\ sub[to].bounds # NoBounds
    /\ sub[from].cap - amount >= sub[from].bounds[1]
    /\ sub[to].cap + amount <= sub[to].bounds[2]
    /\ sub' = [sub EXCEPT ![from] = recapped(from, -amount), ![to] = recapped(to, amount)]
    /\ rebalance' = [rebalance EXCEPT !.last = now]
    /\ UNCHANGED <<base_vars, stakes, meta>>

rebalance_sub_pool_capacity(from, to, amount) ==
    /\ rebalance.keeper /\ from # to
    /\ rebalance.max > 0 => amount <= rebalance.max
    /\ cooldown_over
    /\ sub[from].bounds # NoBounds /\ sub[to].bounds # NoBounds
    /\ sub[from].cap - amount >= sub[from].total
    /\ sub[from].cap - amount >= sub[from].bounds[1]
    /\ sub[to].cap + amount <= sub[to].bounds[2]
    /\ sub' = [sub EXCEPT ![from] = recapped(from, -amount), ![to] = recapped(to, amount)]
    /\ rebalance' = [rebalance EXCEPT !.last = now]
    /\ UNCHANGED <<base_vars, stakes, meta>>

SubPoolNext ==
    \/ \E r \in SubRates, c \in Capacities : create_sub_pool(r, c)
    \/ \E id \in DOMAIN sub, r \in SubRates : set_sub_pool_rate(id, r)
    \/ \E u \in SubStakers, id \in DOMAIN sub, a \in Amounts :
           stake_into_sub_pool(u, id, a) \/ unstake_from_sub_pool(u, id, a)
    \/ \E u \in SubStakers, from, to \in DOMAIN sub, a \in Amounts : move_between_sub_pools(u, from, to, a)

\* Capacity moved while stakers come and go; the sub-pools pay nothing.
RebalanceNext ==
    \/ \E c \in Capacities : create_sub_pool(0, c)
    \/ register_keeper \/ deregister_keeper
    \/ \E id \in DOMAIN sub, b \in Bounds : set_sub_pool_rebalance_bounds(id, b[1], b[2])
    \/ \E l \in Limits : set_sub_pool_rebalance_limits(l[1], l[2])
    \/ \E u \in SubStakers, id \in DOMAIN sub, a \in Amounts :
           stake_into_sub_pool(u, id, a) \/ unstake_from_sub_pool(u, id, a)
    \/ \E from, to \in DOMAIN sub, a \in Amounts : rebalance_sub_pool_capacity(from, to, a)

-------------------------------------------------------------------------------
\* accrue_meta: with no rate, or nothing staked, the clock of the position stands still.
accrue_meta(u) ==
    LET m == meta.user[u]
    IN  IF meta.rate = 0 \/ m.pos = 0 THEN m
        ELSE [pos |-> m.pos, since |-> now, accrued |-> m.accrued + interest(m.pos, meta.rate, m.since)]

\* The position after so much was added to it.
meta_position(u, amount) ==
    LET m == accrue_meta(u)
    IN  [pos |-> m.pos + amount, since |-> now, accrued |-> m.accrued]

meta_stake(u, amount) ==
    /\ pull(u, amount)
    /\ meta' = [meta EXCEPT !.total = meta.total + amount,
                            !.user = [meta.user EXCEPT ![u] = meta_position(u, amount)]]
    /\ UNCHANGED <<now, pool, rewardPool, sub, stakes, rebalance>>

meta_unstake(u, amount) ==
    /\ meta.user[u].pos >= amount
    /\ push(u, amount)
    /\ meta' = [meta EXCEPT !.total = meta.total - amount,
                            !.user = [meta.user EXCEPT ![u] = meta_position(u, -amount)]]
    /\ UNCHANGED <<now, pool, rewardPool, sub, stakes, rebalance>>

\* Paid out of whatever the contract holds; no pool is charged.
meta_claim(u) ==
    LET m == accrue_meta(u)
        rest == IF m.accrued = 0 THEN m ELSE [pos |-> m.pos, since |-> now, accrued |-> 0]
    IN  /\ push(u, m.accrued)
        /\ meta' = [meta EXCEPT !.paid = meta.paid + m.accrued, !.user = [meta.user EXCEPT ![u] = rest]]
        /\ UNCHANGED <<now, pool, rewardPool, sub, stakes, rebalance>>

set_meta_reward_rate_bps(r) ==
    /\ meta.changes < MaxRepricings
    /\ meta' = [meta EXCEPT !.rate = r, !.changes = meta.changes + 1]
    /\ UNCHANGED <<base_vars, sub, stakes, rebalance>>

MetaNext ==
    \/ \E r \in SubRates : set_meta_reward_rate_bps(r)
    \/ \E u \in SubStakers : meta_claim(u) \/ \E a \in Amounts : meta_stake(u, a) \/ meta_unstake(u, a)

\* What each position earns in the ledger that closes, at the rate in force in it.
dues(x) == IF x[2] \in DOMAIN sub THEN stakes[x].pos * sub[x[2]].rate ELSE 0

SubTick ==
    /\ TimePasses
    /\ meta' = IF now < MaxLedger
               THEN [meta EXCEPT !.owed = [x \in DOMAIN meta.owed |-> meta.owed[x] + dues(x)]] ELSE meta
    /\ UNCHANGED <<sub, stakes, rebalance>>

-------------------------------------------------------------------------------
\* The books of the sub-pools agree: positions, totals and tokens, and no rebalancing
\* creates capacity or takes it from under a deposit.
sub_pools_balanced ==
    /\ \A id \in DOMAIN sub :
          /\ sub[id].total = sum([u \in SubStakers |-> stakes[<<u, id>>].pos])
          /\ sub[id].total <= sub[id].cap
    /\ sum([id \in DOMAIN sub |-> sub[id].cap]) = rebalance.capacity
    /\ meta.total = sum([u \in SubStakers |-> meta.user[u].pos])
    /\ held = totalDeposited + rewardPool + meta.total - meta.paid
              + sum([id \in DOMAIN sub |-> sub[id].total])

\* As long as no rate is changed, settled and unsettled reward together are never more than
\* what every ledger earned, over stakes, exits and moves between two ledgers, and exactly
\* that where the rate leaves nothing to round.
sub_rewards_exact ==
    meta.changes = 0 =>
        \A u \in SubStakers, id \in DOMAIN sub :
            LET s      == stakes[<<u, id>>]
                year   == BPS_DENOMINATOR * SubYear
                earned == (s.accrued + interest(s.pos, sub[id].rate, s.since)) * year
            IN  /\ earned <= meta.owed[<<u, id>>]
                /\ sub[id].rate % year = 0 => earned = meta.owed[<<u, id>>]

===============================================================================
