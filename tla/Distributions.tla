------------------------------ MODULE Distributions -----------------------------
(***************************************************************************)
(* Tokens and badges given to stakers beside their rewards: the revenue    *)
(* share fed by flash-stake fees and paid out against a Merkle root, the   *)
(* reward drops against another root, the matching program that tops up    *)
(* stakes, and the access tokens of stake tiers.                           *)
(* A Merkle root is the table of amounts it commits to; a proof for a user *)
(* and an amount exists exactly if the table says so.                      *)
(***************************************************************************)
EXTENDS PoolBase

CONSTANTS
    Tables,             \* the tables of amounts behind the roots
    DropEpochs,         \* epochs the operator gives to reward drops
    FlashFees,          \* flash-stake fees in bps
    ShareRates,         \* revenue share and recycled share in bps
    MaxDistributions,   \* model bound on the roots published
    MatchTerms,         \* pairs of match rate and cap per user
    MaxPrograms,        \* model bound on the matching programs
    AccessTiers,        \* sequences of pairs of least stake and least age
    MaxAge,             \* model bound on the ledger number here
    MaxTiers            \* the limit of set_access_tier

ASSUME DistributionAssumption ==
    /\ Tables \subseteq [Users -> Nat] /\ Tables # {}
    /\ FlashFees \subseteq Nat /\ ShareRates \subseteq Nat
    /\ MatchTerms \subseteq Nat \X Nat /\ MaxDistributions \in Nat

NoTable   == <<>>
NoProgram == [rate |-> 0, cap |-> 0, budget |-> 0, used |-> 0, active |-> FALSE]
NoTier    == 0

VARIABLES
    revenue,    \* fee, share and recycling settings, RevenueSharePool, its root, epoch and claims
    drop,       \* MerkleRoot with its epoch, and the claims of each epoch
    matching,   \* MatchingProgram and UserMatchingStats
    access      \* tiers, the user's tier, its tokens, and StakedAtLedger
distribution_vars == <<revenue, drop, matching, access>>

\* `paid' (payments under each epoch) is history.
RevenueInit ==
    revenue = [fee |-> 0, rate |-> 0, recycle |-> 0, pool |-> 0, table |-> NoTable, epoch |-> 0,
               claimed |-> {}, paid |-> [k \in Users \X (0..MaxDistributions) |-> 0]]

\* `paid' and `count' are history.
DropInit ==
    drop = [table |-> NoTable, epoch |-> 0, claimed |-> {}, paid |-> [k \in Users \X DropEpochs |-> 0], count |-> 0]

\* `spent' (budget used by former programs) and `programs' are history.
MatchingInit == matching = [program |-> NoProgram, matched |-> [u \in Users |-> 0], spent |-> 0, programs |-> 0]

AccessInit ==
    access = [tiers |-> <<>>, tier |-> [u \in Users |-> NoTier], tokens |-> [u \in Users |-> {}],
              since |-> [u \in Users |-> 0]]

DistributionInit == RevenueInit /\ DropInit /\ MatchingInit /\ AccessInit

-------------------------------------------------------------------------------
set_revenue_sharing(rate) ==
    /\ rate <= BPS_DENOMINATOR
    /\ revenue' = [revenue EXCEPT !.rate = rate]
    /\ UNCHANGED <<base_vars, drop, matching, access>>

set_flash_stake_fee_bps(fee) ==
    /\ fee <= BPS_DENOMINATOR
    /\ revenue' = [revenue EXCEPT !.fee = fee]
    /\ UNCHANGED <<base_vars, drop, matching, access>>

set_fee_recycle_bps(rate) ==
    /\ rate <= BPS_DENOMINATOR
    /\ revenue' = [revenue EXCEPT !.recycle = rate]
    /\ UNCHANGED <<base_vars, drop, matching, access>>

\* fee_recycle::recycle_fee: the part of a fee that goes to the reward pool.
recycle_fee(fee) == bps(fee, revenue.recycle)

\* In and out again: recycled part, revenue share and treasury part of the fee stay or leave.
flash_stake(u, amount) ==
    LET fee     == bps(amount, revenue.fee)
        rest    == fee - recycle_fee(fee)
        portion == bps(rest, revenue.rate)
    IN  /\ wallet[u] >= amount
        /\ wallet' = [wallet EXCEPT ![u] = @ - fee, ![Admin] = @ + rest - portion]
        /\ held' = held + recycle_fee(fee) + portion
        /\ rewardPool' = rewardPool + recycle_fee(fee)
        /\ revenue' = [revenue EXCEPT !.pool = @ + portion]
        /\ UNCHANGED <<now, pool, drop, matching, access>>

\* A new root replaces the one before, claimed or not; its total is only announced.
distribute_revenue(table) ==
    /\ revenue.pool > 0 /\ revenue.epoch < MaxDistributions
    /\ revenue' = [revenue EXCEPT !.table = table, !.epoch = @ + 1]
    /\ UNCHANGED <<base_vars, drop, matching, access>>

\* Mutant: the share paid stays in the revenue pool.
claim_revenue_share_kept(u, amount) ==
    /\ amount > 0 /\ revenue.table # NoTable
    /\ <<u, revenue.epoch>> \notin revenue.claimed
    /\ revenue.table[u] = amount
    /\ revenue.pool >= amount
    /\ push(u, amount)
    /\ revenue' = [revenue EXCEPT !.claimed = @ \cup {<<u, revenue.epoch>>}, !.paid[<<u, revenue.epoch>>] = @ + amount]
    /\ UNCHANGED <<now, pool, rewardPool, drop, matching, access>>

claim_revenue_share(u, amount) ==
    LET k == <<u, revenue.epoch>>
    IN  /\ amount > 0 /\ revenue.table # NoTable
        /\ k \notin revenue.claimed
        /\ revenue.table[u] = amount
        /\ revenue.pool >= amount
        /\ push(u, amount)
        /\ revenue' = [revenue EXCEPT !.claimed = @ \cup {k}, !.pool = @ - amount,
                !.paid = [revenue.paid EXCEPT ![k] = revenue.paid[k] + amount]]
        /\ UNCHANGED <<now, pool, rewardPool, drop, matching, access>>

\* The operator picks the epoch: an old one brings back its claims.
publish_merkle_root(table, epoch) ==
    /\ drop.count < MaxDistributions
    /\ drop' = [drop EXCEPT !.table = table, !.epoch = epoch, !.count = @ + 1]
    /\ UNCHANGED <<base_vars, revenue, matching, access>>

claim_merkle_reward(u, amount) ==
    LET k == <<u, drop.epoch>>
    IN  /\ drop.table # NoTable
        /\ k \notin drop.claimed
        /\ drop.table[u] = amount
        /\ rewardPool >= amount
        /\ rewardPool' = rewardPool - amount
        /\ push(u, amount)
        /\ drop' = [drop EXCEPT !.claimed = @ \cup {k},
                !.paid = [drop.paid EXCEPT ![k] = drop.paid[k] + amount]]
        /\ UNCHANGED <<now, pool, revenue, matching, access>>

-------------------------------------------------------------------------------
start_matching_program(rate, cap, budget) ==
    /\ matching.programs < MaxPrograms
    /\ ~matching.program.active
    /\ rate \in 1..BPS_DENOMINATOR /\ cap > 0 /\ budget > 0
    /\ pull(Admin, budget)
    /\ matching' = [matching EXCEPT
            !.program = [rate |-> rate, cap |-> cap, budget |-> budget, used |-> 0, active |-> TRUE],
            !.spent = @ + matching.program.used, !.programs = @ + 1]
    /\ UNCHANGED <<now, pool, rewardPool, revenue, drop, access>>

\* Mutant: the whole budget goes back, what was matched included.
end_matching_program_whole ==
    LET p == matching.program
    IN  /\ p.active
        /\ push(Admin, p.budget)
        /\ matching' = [matching EXCEPT !.program.active = FALSE, !.program.budget = p.used]
        /\ UNCHANGED <<now, pool, rewardPool, revenue, drop, access>>

end_matching_program ==
    LET p == matching.program
    IN  /\ p.active
        /\ push(Admin, p.budget - p.used)
        /\ matching' = [matching EXCEPT !.program = [p EXCEPT !.active = FALSE, !.budget = p.used]]
        /\ UNCHANGED <<now, pool, rewardPool, revenue, drop, access>>

\* The user's total of all programs counts against the cap of this one.
apply_stake_match(u, amount) ==
    LET p == matching.program
        headroom(limit, used) == IF limit > used THEN limit - used ELSE 0
    IN  IF ~p.active THEN 0
        ELSE Min({bps(amount, p.rate), headroom(p.cap, matching.matched[u]), headroom(p.budget, p.used)})

\* The stake and its match are minted one after the other.
stake_matched(u, amount) ==
    LET p      == matching.program
        match  == apply_stake_match(u, amount)
        minted == amount_to_shares(totalShares, totalDeposited, amount)
        extra  == amount_to_shares(totalShares + minted, totalDeposited + amount, match)
        given  == IF extra > 0 THEN match ELSE 0
    IN  /\ pull(u, amount)
        /\ shares' = [shares EXCEPT ![u] = @ + minted + extra]
        /\ totalShares' = totalShares + minted + extra
        /\ totalDeposited' = totalDeposited + amount + given
        /\ matching' = [matching EXCEPT !.program = [p EXCEPT !.used = p.used + given],
                !.matched = [matching.matched EXCEPT ![u] = matching.matched[u] + given]]
        /\ UNCHANGED <<now, rewardPool, revenue, drop, access>>

-------------------------------------------------------------------------------
set_access_tier(stake, age) ==
    /\ Len(access.tiers) < MaxTiers
    /\ access' = [access EXCEPT !.tiers = Append(@, [stake |-> stake, age |-> age])]
    /\ UNCHANGED <<base_vars, revenue, drop, matching>>

\* The first of the tiers in reach with the largest stake; NoTier if none is.
check_access_eligibility(u) ==
    LET t       == access.tiers
        reached == {i \in DOMAIN t : amount_of(u) >= t[i].stake /\ now - access.since[u] >= t[i].age}
        best    == {i \in reached : \A j \in reached : t[j].stake <= t[i].stake}
    IN  IF shares[u] = 0 \/ reached = {} THEN NoTier ELSE Min(best)

\* Mutant: the token of the former tier is not burned.
claim_access_token_piling(u) ==
    LET tier == check_access_eligibility(u)
    IN  /\ tier # NoTier /\ tier # access.tier[u]
        /\ access' = [access EXCEPT !.tier[u] = tier, !.tokens[u] = @ \cup {tier}]
        /\ UNCHANGED <<base_vars, revenue, drop, matching>>

\* One token at a time: the former tier's is burned before the new one is minted.
claim_access_token(u) ==
    LET tier == check_access_eligibility(u)
    IN  /\ tier # NoTier /\ tier # access.tier[u]
        /\ access' = [access EXCEPT !.tier = [access.tier EXCEPT ![u] = tier],
                !.tokens = [access.tokens EXCEPT ![u] = (access.tokens[u] \ {access.tier[u]}) \cup {tier}]]
        /\ UNCHANGED <<base_vars, revenue, drop, matching>>

\* Anyone may call it; the index of the tier stands for its rank.
revoke_access_token(u) ==
    LET tier == check_access_eligibility(u)
    IN  /\ access.tier[u] # NoTier
        /\ tier = NoTier \/ tier < access.tier[u]
        /\ access' = [access EXCEPT !.tier = [access.tier EXCEPT ![u] = NoTier],
                !.tokens = [access.tokens EXCEPT ![u] = access.tokens[u] \ {access.tier[u]}]]
        /\ UNCHANGED <<base_vars, revenue, drop, matching>>

\* StakedAtLedger is set when a position opens and kept while it grows.
open_or_grow(u, amount) ==
    /\ join(u, amount)
    /\ access' = IF shares[u] = 0 THEN [access EXCEPT !.since = [access.since EXCEPT ![u] = now]] ELSE access
    /\ UNCHANGED <<revenue, drop, matching>>

-------------------------------------------------------------------------------
SharingMoves ==
    \/ \E r \in ShareRates : set_revenue_sharing(r) \/ set_fee_recycle_bps(r)
    \/ \E f \in FlashFees : set_flash_stake_fee_bps(f)
    \/ \E t \in Tables : distribute_revenue(t)
    \/ \E u \in Users, a \in Amounts : flash_stake(u, a) \/ claim_revenue_share(u, a)

DropMoves ==
    \/ \E t \in Tables, e \in DropEpochs : publish_merkle_root(t, e)
    \/ \E u \in Users, a \in Amounts : claim_merkle_reward(u, a)

MatchingMoves ==
    \/ \E t \in MatchTerms, b \in Amounts : start_matching_program(t[1], t[2], b)
    \/ end_matching_program
    \/ \E u \in Users : (leave(u) /\ UNCHANGED distribution_vars) \/ \E a \in Amounts : stake_matched(u, a)

AccessMoves ==
    \/ \E t \in AccessTiers : set_access_tier(t[1], t[2])
    \/ \E u \in Users :
           \/ claim_access_token(u) \/ revoke_access_token(u)
           \/ leave(u) /\ UNCHANGED distribution_vars
           \/ \E a \in Amounts : open_or_grow(u, a)

DistributionTick == now < MaxAge /\ TimePasses /\ UNCHANGED distribution_vars

-------------------------------------------------------------------------------
\* The contract holds the deposits, the rewards, the revenue nobody drew yet and the match
\* budget nobody used, and a user draws at most one amount of the tables per epoch.
distributions_covered ==
    /\ held = totalDeposited + rewardPool + revenue.pool + matching.program.budget - matching.program.used
    /\ \A k \in DOMAIN revenue.paid : \E t \in Tables : revenue.paid[k] \in {0, t[k[1]]}
    /\ \A k \in DOMAIN drop.paid : \E t \in Tables : drop.paid[k] \in {0, t[k[1]]}

\* Every match was credited to somebody, over any number of programs.
matches_credited == sum(matching.matched) = matching.spent + matching.program.used

\* A user holds the token of the tier on record and no other, over upgrades, exits and
\* tiers added in any order.
one_access_token ==
    \A u \in Users : access.tokens[u] = {access.tier[u]} \ {NoTier}

===============================================================================
