------------------------------- MODULE Positions -------------------------------
(***************************************************************************)
(* What a staker does with a position besides staking more or leaving:     *)
(* split and merge it, hand it to another account with or without its      *)
(* rewards, leave it to an heir, let a keeper close it when it is dust,    *)
(* cut its receipt into fractions, redeem the receipt, schedule the exit,  *)
(* let others withdraw from it.  Position 0 is the share balance; the      *)
(* splits follow it.  A share of position 0 earns one token a ledger.      *)
(***************************************************************************)
EXTENDS PoolBase

CONSTANTS
    Heirs,              \* <<user, heir>> pairs that may be named
    MaxSplits,          \* model bound on the splits of a user
    PositionCaps,       \* max_positions_per_user values, 0 for none
    DustThresholds,     \* set_dust_threshold values
    DailyLimits,        \* set_daily_withdrawal_limit values
    LEDGERS_PER_DAY,
    Fractions           \* num_fractions of a receipt

ASSUME PositionAssumption ==
    /\ Heirs \subseteq Users \X Users
    /\ IsFiniteSet(DailyLimits) /\ DailyLimits \subseteq Nat /\ LEDGERS_PER_DAY \in Nat \ {0}
    /\ Fractions \subseteq Nat

\* The users who name heirs, cut receipts and withdraw in parts.
Owners == {h[1] : h \in Heirs}

MAX_POSITIONS_CEILING == 10
MAX_KEEPER_TIP_BPS == 1000
MIN_FRACTIONS == 2
NoHeir == [heir |-> Nobody, inactivity |-> 0, last |-> 0]
NoAllowance == [shares |-> 0, expires |-> 0]

VARIABLES
    position,   \* splits, StakedAtLedger, settled reward and checkpoint of each user
    heirs,      \* Beneficiary of each user
    dust,       \* position cap, dust threshold, tip and treasury
    receipt,    \* fractions by position and holder; scheduled exits
    leave_rules \* daily limit and trackers, allowances, minimum unstake amount
position_vars == <<position, heirs, dust, receipt, leave_rules>>

\* `forgone', `paid' and `earned' are history.
SplitInit ==
    position = [splits |-> [u \in Users |-> <<>>],
                at |-> [u \in Users |-> IF shares[u] > 0 THEN 0 ELSE NoLedger],
                since |-> [u \in Users |-> 0], accrued |-> [u \in Users |-> 0],
                earned |-> 0, paid |-> 0, forgone |-> 0]

\* `acted' is history: when the user last did something the record should count.
HeirInit == heirs = [rec |-> [u \in Users |-> NoHeir], acted |-> [u \in Users |-> 0], early |-> FALSE]

DustInit == dust = [cap |-> 0, threshold |-> 0, tip |-> 0, treasury |-> FALSE]

\* reward of the primary position since its checkpoint
unsettled(u) == shares[u] * (now - position.since[u])

accrue(u) == [position EXCEPT !.accrued[u] = @ + unsettled(u), !.since[u] = now]

touch(u) == [heirs EXCEPT !.acted[u] = now,
                          !.rec[u].last = IF heirs.rec[u] = NoHeir THEN @ ELSE now]

position_count_inner(u) == Len(position.splits[u]) + IF shares[u] > 0 THEN 1 ELSE 0

ensure_position_slot(u) == dust.cap = 0 \/ position_count_inner(u) < dust.cap

set_max_positions_per_user(n) ==
    /\ n <= MAX_POSITIONS_CEILING
    /\ dust' = [dust EXCEPT !.cap = n]
    /\ UNCHANGED <<base_vars, position, heirs, receipt, leave_rules>>

position_info(u, id) ==
    IF id = 0 THEN [amount |-> shares[u], at |-> IF position.at[u] = NoLedger THEN 0 ELSE position.at[u]]
    ELSE position.splits[u][id]

exists(u, id) == IF id = 0 THEN shares[u] > 0 ELSE id \in DOMAIN position.splits[u]

\* Stakes and exits settle first and count as activity.
stake_more(u, amount) ==
    /\ pull(u, amount) /\ mint_to(u, amount)
    /\ position' = [accrue(u) EXCEPT !.at[u] = IF @ = NoLedger THEN now ELSE @]
    /\ heirs' = touch(u)
    /\ UNCHANGED <<now, rewardPool, dust, receipt, leave_rules>>

leave_pool(u) ==
    /\ leave(u)
    /\ position' = [accrue(u) EXCEPT !.at[u] = NoLedger]
    /\ heirs' = touch(u)
    /\ UNCHANGED <<dust, receipt, leave_rules>>

claimed_by(u, p) == [p EXCEPT !.paid = @ + p.accrued[u], !.accrued[u] = 0]

claim_rewards(u) ==
    LET p == accrue(u)
    IN  /\ p.accrued[u] > 0 /\ rewardPool >= p.accrued[u]
        /\ push(u, p.accrued[u])
        /\ rewardPool' = rewardPool - p.accrued[u]
        /\ position' = claimed_by(u, p)
        /\ heirs' = touch(u)
        /\ UNCHANGED <<now, pool, dust, receipt, leave_rules>>

split_off(p, u, id, n) ==
    LET src == position_info(u, id)
        rest == [src EXCEPT !.amount = @ - n]
    IN  /\ shares' = IF id = 0 THEN [shares EXCEPT ![u] = rest.amount] ELSE shares
        /\ position' = [p EXCEPT !.splits[u] =
               Append(IF id = 0 THEN @ ELSE [@ EXCEPT ![id] = rest], [src EXCEPT !.amount = n])]

\* The older split of the primary position; what is settled is paid out first.  It does
\* not count as activity.
position_split(u, n) ==
    LET p == accrue(u)
    IN  /\ 0 < n /\ n < shares[u] /\ ensure_position_slot(u)
        /\ Len(position.splits[u]) < MaxSplits
        /\ rewardPool >= p.accrued[u]
        /\ push(u, p.accrued[u]) /\ rewardPool' = rewardPool - p.accrued[u]
        /\ split_off(claimed_by(u, p), u, 0, n)
        /\ UNCHANGED <<now, totalShares, totalDeposited, heirs, dust, receipt, leave_rules>>

split_position(u, id, n) ==
    /\ exists(u, id) /\ 0 < n /\ n < position_info(u, id).amount /\ ensure_position_slot(u)
    /\ Len(position.splits[u]) < MaxSplits
    /\ split_off(accrue(u), u, id, n)
    /\ heirs' = touch(u)
    /\ UNCHANGED <<now, wallet, held, rewardPool, totalShares, totalDeposited, dust, receipt, leave_rules>>

merged(u, kept, removed) ==
    LET sum2 == position_info(u, kept).amount + position_info(u, removed).amount
        splits == IF kept = 0 THEN position.splits[u]
                  ELSE [position.splits[u] EXCEPT ![kept].amount = sum2]
    IN  /\ shares' = IF kept = 0 THEN [shares EXCEPT ![u] = sum2] ELSE shares
        /\ position' = [accrue(u) EXCEPT !.splits[u] = RemoveAt(splits, removed)]

\* Mutant: merging does not count as activity.
merge_positions_unseen(u, a, b) ==
    /\ a # b /\ exists(u, a) /\ exists(u, b)
    /\ position_info(u, a).at = position_info(u, b).at
    /\ merged(u, Min({a, b}), Max({a, b}))
    /\ heirs' = [heirs EXCEPT !.acted[u] = now]
    /\ UNCHANGED <<now, wallet, held, rewardPool, totalShares, totalDeposited, dust, receipt, leave_rules>>

merge_positions(u, a, b) ==
    /\ a # b /\ exists(u, a) /\ exists(u, b)
    /\ position_info(u, a).at = position_info(u, b).at
    /\ merged(u, Min({a, b}), Max({a, b}))
    /\ heirs' = touch(u)
    /\ UNCHANGED <<now, wallet, held, rewardPool, totalShares, totalDeposited, dust, receipt, leave_rules>>

\* Mutant: the giver's reward is settled after the shares are gone.
settled_for_transfer_late(u) == [position EXCEPT !.since[u] = now]

\* What transfer_position settles for the giver before the shares move.
settled_for_transfer(u) == accrue(u)

\* The giver keeps what is settled; whatever the receiver had settled is set to zero.
transfer_position(from, to) ==
    LET p == settled_for_transfer(from)
    IN  /\ shares[from] > 0 /\ shares[to] = 0
        /\ shares' = [shares EXCEPT ![from] = 0, ![to] = shares[from]]
        /\ position' = [p EXCEPT !.at[to] = IF p.at[from] = NoLedger THEN now ELSE p.at[from],
                                 !.at[from] = NoLedger, !.since[to] = now,
                                 !.forgone = @ + p.accrued[to], !.accrued[to] = 0]
        /\ UNCHANGED <<now, wallet, held, rewardPool, totalShares, totalDeposited, heirs, dust, receipt, leave_rules>>

\* Nothing is settled: reward and checkpoint move as they are, over the receiver's.
moved_with_rewards(from, to) ==
    [position EXCEPT
        !.at[to] = IF position.at[from] = NoLedger THEN now ELSE position.at[from], !.at[from] = NoLedger,
        !.since[to] = position.since[from], !.since[from] = now,
        !.forgone = @ + position.accrued[to],
        !.accrued[to] = position.accrued[from], !.accrued[from] = 0]

move_position_with_rewards(from, to) ==
    /\ shares[from] > 0 /\ shares[to] = 0
    /\ shares' = [shares EXCEPT ![from] = 0, ![to] = shares[from]]

transfer_position_with_rewards(from, to) ==
    /\ move_position_with_rewards(from, to) /\ position' = moved_with_rewards(from, to)
    /\ UNCHANGED <<now, wallet, held, rewardPool, totalShares, totalDeposited, heirs, dust, receipt, leave_rules>>

set_beneficiary(u, heir, inactivity) ==
    /\ inactivity > 0 /\ heir # u
    /\ heirs' = [heirs EXCEPT !.rec[u] = [heir |-> heir, inactivity |-> inactivity, last |-> now],
                              !.acted[u] = now]
    /\ UNCHANGED <<base_vars, position, dust, receipt, leave_rules>>

clear_beneficiary(u) ==
    /\ heirs.rec[u] # NoHeir
    /\ heirs' = [heirs EXCEPT !.rec[u] = NoHeir]
    /\ UNCHANGED <<base_vars, position, dust, receipt, leave_rules>>

\* The primary position with its rewards, and every split.
claim_inheritance(u) ==
    LET r == heirs.rec[u]
        mine == position.splits[u]
    IN  /\ r # NoHeir /\ now >= r.last + r.inactivity
        /\ move_position_with_rewards(u, r.heir)
        /\ position' = [moved_with_rewards(u, r.heir) EXCEPT !.splits[r.heir] = @ \o mine, !.splits[u] = <<>>]
        /\ heirs' = [heirs EXCEPT !.rec[u] = NoHeir,
                                  !.early = @ \/ now - heirs.acted[u] < r.inactivity]
        /\ UNCHANGED <<now, wallet, held, rewardPool, totalShares, totalDeposited, dust, receipt, leave_rules>>

HandoverMoves ==
    \/ \E u \in Users \ Owners : leave_pool(u)
    \/ \E u \in Owners : claim_rewards(u) \/ position_split(u, 1) \/ \E id \in 0..MaxSplits : split_position(u, id, 1)
    \/ \E u \in Owners, a, b \in 0..MaxSplits : merge_positions(u, a, b)
    \/ \E from, to \in Users : transfer_position(from, to) \/ transfer_position_with_rewards(from, to)
    \/ \E h \in Heirs, d \in Durations : set_beneficiary(h[1], h[2], d)
    \/ \E u \in Users : clear_beneficiary(u) \/ claim_inheritance(u)

-------------------------------------------------------------------------------
set_dust_threshold(amount) ==
    /\ dust' = [dust EXCEPT !.threshold = amount]
    /\ UNCHANGED <<base_vars, position, heirs, receipt, leave_rules>>

set_dust_keeper_tip_bps(tip) ==
    /\ tip <= MAX_KEEPER_TIP_BPS
    /\ dust' = [dust EXCEPT !.tip = tip]
    /\ UNCHANGED <<base_vars, position, heirs, receipt, leave_rules>>

set_dust_treasury(b) ==
    /\ dust' = [dust EXCEPT !.treasury = b]
    /\ UNCHANGED <<base_vars, position, heirs, receipt, leave_rules>>

\* All of a user's shares, the splits included.
holding(u) == shares[u] + sum([i \in DOMAIN position.splits[u] |-> position.splits[u][i].amount])

\* Mutant: only the primary position is taken off the total.
shares_closed_primary(u) == shares[u]

\* The shares close_dust_position takes off the total.
shares_closed(u) == holding(u)

close_dust_position(keeper, u) ==
    LET amount == shares_to_amount(totalShares, totalDeposited, holding(u))
        fee    == (amount * dust.tip) \div BPS_DENOMINATOR
        to     == IF dust.treasury THEN Admin ELSE u
    IN  /\ dust.threshold > 0 /\ holding(u) > 0 /\ amount < dust.threshold
        /\ held >= amount
        /\ wallet' = [a \in Accounts |-> wallet[a] + (IF a = to THEN amount - fee ELSE 0)
                                                  + (IF a = keeper THEN fee ELSE 0)]
        /\ held' = held - amount
        /\ totalShares' = totalShares - shares_closed(u)
        /\ totalDeposited' = totalDeposited - amount
        /\ shares' = [shares EXCEPT ![u] = 0]
        /\ position' = [accrue(u) EXCEPT !.at[u] = NoLedger, !.splits[u] = <<>>]
        /\ UNCHANGED <<now, rewardPool, heirs, dust, receipt, leave_rules>>

DustMoves ==
    \/ \E t \in DustThresholds : set_dust_threshold(t)
    \/ set_dust_keeper_tip_bps(MAX_KEEPER_TIP_BPS)
    \/ set_dust_treasury(TRUE)
    \/ \E n \in PositionCaps : set_max_positions_per_user(n)
    \/ \E u \in Owners : leave_pool(u) \/ \E k \in Users : close_dust_position(k, u)
    \/ \E u \in Owners : stake_more(u, 1) \/ \E id \in 0..MaxSplits : split_position(u, id, 1)

-------------------------------------------------------------------------------
\* `exit' is the ledger of a scheduled exit; `written_off' and `unfunded' are history.
ReceiptInit ==
    receipt = [total |-> [u \in Users |-> 0], holders |-> [u \in Users |-> <<>>],
               bal |-> [u \in Users |-> [h \in Users |-> 0]],
               exit |-> [u \in Users |-> NoLedger], written_off |-> 0, unfunded |-> 0]

is_position_locked(u) == receipt.total[u] > 0

fractionalize_nft(u, n) ==
    /\ n >= MIN_FRACTIONS /\ shares[u] > 0 /\ ~is_position_locked(u)
    /\ receipt' = [receipt EXCEPT !.total[u] = n, !.holders[u] = <<u>>, !.bal[u][u] = n]
    /\ UNCHANGED <<base_vars, position, heirs, dust, leave_rules>>

\* The holder's balance is written before the recipient's is read.
fractions_moved(bal, owner, to, n) ==
    LET rest == [bal EXCEPT ![owner] = bal[owner] - n]
    IN  [rest EXCEPT ![to] = rest[to] + n]

\* Mutant: both balances are read before either is written.
transfer_fractions_stale(owner, to, n) ==
    /\ is_position_locked(owner) /\ receipt.bal[owner][owner] >= n
    /\ receipt' = [receipt EXCEPT
           !.bal[owner] = [[@ EXCEPT ![owner] = @ - n] EXCEPT ![to] = receipt.bal[owner][to] + n],
           !.holders[owner] = IF Contains(@, to) THEN @ ELSE Append(@, to)]
    /\ UNCHANGED <<base_vars, position, heirs, dust, leave_rules>>

\* Only the owner of the position can send fractions.
transfer_fractions(owner, to, n) ==
    /\ is_position_locked(owner) /\ receipt.bal[owner][owner] >= n
    /\ receipt' = [receipt EXCEPT
           !.bal[owner] = fractions_moved(@, owner, to, n),
           !.holders[owner] = IF Contains(@, to) THEN @ ELSE Append(@, to)]
    /\ UNCHANGED <<base_vars, position, heirs, dust, leave_rules>>

reconstruct_nft(u) ==
    /\ is_position_locked(u) /\ receipt.bal[u][u] = receipt.total[u]
    /\ receipt' = [receipt EXCEPT !.total[u] = 0, !.holders[u] = <<>>,
           !.bal[u] = [h \in Users |-> IF Contains(receipt.holders[u], h) THEN 0 ELSE @[h]]]
    /\ UNCHANGED <<base_vars, position, heirs, dust, leave_rules>>

\* do_unstake_to refuses a fractionalized position.
unstake_unfractioned(u) == ~is_position_locked(u) /\ leave_pool(u)

without_position(u) ==
    /\ totalDeposited' = totalDeposited - amount_of(u)
    /\ totalShares' = totalShares - shares[u]
    /\ shares' = [shares EXCEPT ![u] = 0]

\* Pays what is settled, off no pool, and the principal, fractions or not.
burn_and_redeem(u) ==
    /\ shares[u] > 0
    /\ push(u, amount_of(u) + position.accrued[u])
    /\ without_position(u)
    /\ position' = [claimed_by(u, position) EXCEPT !.forgone = @ + unsettled(u)]
    /\ receipt' = [receipt EXCEPT !.unfunded = @ + position.accrued[u]]
    /\ UNCHANGED <<now, rewardPool, heirs, dust, leave_rules>>

schedule_exit(u, target) ==
    /\ target > now
    /\ receipt' = [receipt EXCEPT !.exit[u] = target]
    /\ UNCHANGED <<base_vars, position, heirs, dust, leave_rules>>

cancel_scheduled_exit(u) ==
    /\ receipt.exit[u] # NoLedger
    /\ receipt' = [receipt EXCEPT !.exit[u] = NoLedger]
    /\ UNCHANGED <<base_vars, position, heirs, dust, leave_rules>>

\* By anyone.  The shares are burnt and the principal written off; nobody is paid.
execute_scheduled_exit(u) ==
    /\ receipt.exit[u] # NoLedger /\ now >= receipt.exit[u]
    /\ receipt' = [receipt EXCEPT !.exit[u] = NoLedger,
                                  !.written_off = @ + IF shares[u] > 0 THEN amount_of(u) ELSE 0]
    /\ IF shares[u] > 0 THEN without_position(u) ELSE UNCHANGED pool
    /\ position' = [position EXCEPT !.forgone = @ + unsettled(u)]
    /\ UNCHANGED <<now, wallet, held, rewardPool, heirs, dust, leave_rules>>

ReceiptMoves ==
    \/ \E u \in Owners, n \in Fractions : fractionalize_nft(u, n)
    \/ \E o \in Owners, to \in Users, n \in Amounts : transfer_fractions(o, to, n)
    \/ \E u \in Owners : \/ reconstruct_nft(u) \/ burn_and_redeem(u) \/ unstake_unfractioned(u) \/ claim_rewards(u)
                          \/ execute_scheduled_exit(u) \/ cancel_scheduled_exit(u)
                          \/ \E d \in Durations : schedule_exit(u, now + d)

-------------------------------------------------------------------------------
\* `out' (what left in each ledger under a limit), `given' and `taken' are history.
LimitInit ==
    leave_rules = [limit |-> 0, min |-> 0,
                   tracker |-> [u \in Users |-> [start |-> 0, used |-> 0]],
                   allowance |-> [x \in Users \X Users |-> NoAllowance],
                   out |-> [u \in Users |-> [l \in 0..MaxLedger |-> 0]],
                   given |-> [x \in Users \X Users |-> 0], taken |-> [x \in Users \X Users |-> 0]]

set_daily_withdrawal_limit(amount) ==
    /\ leave_rules' = [leave_rules EXCEPT !.limit = amount]
    /\ UNCHANGED <<base_vars, position, heirs, dust, receipt>>

set_min_unstake_amount(amount) ==
    /\ leave_rules' = [leave_rules EXCEPT !.min = amount]
    /\ UNCHANGED <<base_vars, position, heirs, dust, receipt>>

enforce_min_unstake(n, all) == leave_rules.min = 0 \/ n >= leave_rules.min \/ n = all

daily_tracker(u) ==
    LET t == leave_rules.tracker[u]
    IN  IF t.used > 0 /\ now - t.start < LEDGERS_PER_DAY THEN t ELSE [start |-> now, used |-> 0]

within_limit(u, amount) == leave_rules.limit = 0 \/ daily_tracker(u).used + amount <= leave_rules.limit

\* Nothing is recorded while there is no limit.
enforce_and_record(rules, u, amount) ==
    LET t == daily_tracker(u)
    IN  IF rules.limit = 0 THEN rules
        ELSE [rules EXCEPT
                !.tracker = [rules.tracker EXCEPT ![u] = [t EXCEPT !.used = t.used + amount]],
                !.out = [rules.out EXCEPT ![u] = [rules.out[u] EXCEPT ![now] = rules.out[u][now] + amount]]]

\* do_unstake_to at a price p: n shares of u, paid to another account perhaps.
unstake_to(u, n, to) ==
    LET amount == shares_to_amount(totalShares, totalDeposited, n)
    IN  /\ shares[u] >= n /\ push(to, amount)
        /\ shares' = [shares EXCEPT ![u] = @ - n]
        /\ totalShares' = totalShares - n /\ totalDeposited' = totalDeposited - amount
        /\ position' = [accrue(u) EXCEPT !.at[u] = IF shares[u] = n THEN NoLedger ELSE @]
        /\ heirs' = touch(u)
        /\ UNCHANGED <<now, rewardPool, dust, receipt>>

limited_unstake(u, n) ==
    LET amount == shares_to_amount(totalShares, totalDeposited, n)
    IN  /\ enforce_min_unstake(n, shares[u]) /\ within_limit(u, amount)
        /\ unstake_to(u, n, u)
        /\ leave_rules' = enforce_and_record(leave_rules, u, amount)

approve_withdrawal(owner, spender, n, expires) ==
    LET x == <<owner, spender>>
        a == IF n = 0 THEN NoAllowance ELSE [shares |-> n, expires |-> expires]
    IN  /\ n > 0 => expires > now
        /\ leave_rules' = [leave_rules EXCEPT
               !.allowance = [leave_rules.allowance EXCEPT ![x] = a],
               !.given = [leave_rules.given EXCEPT ![x] = n], !.taken = [leave_rules.taken EXCEPT ![x] = 0]]
        /\ UNCHANGED <<base_vars, position, heirs, dust, receipt>>

\* Mutant: the owner's daily limit is not consulted.
withdraw_from_unlimited(spender, owner, n, to) ==
    LET a == leave_rules.allowance[owner, spender]
        amount == shares_to_amount(totalShares, totalDeposited, n)
    IN  /\ a # NoAllowance /\ now < a.expires /\ a.shares >= n
        /\ enforce_min_unstake(n, shares[owner])
        /\ unstake_to(owner, n, to)
        /\ leave_rules' = [enforce_and_record(leave_rules, owner, amount) EXCEPT
               !.allowance[<<owner, spender>>] = IF a.shares = n THEN NoAllowance ELSE [a EXCEPT !.shares = @ - n],
               !.taken[<<owner, spender>>] = @ + n]

withdraw_from(spender, owner, n, to) ==
    LET x == <<owner, spender>>
        a == leave_rules.allowance[x]
        left == IF a.shares = n THEN NoAllowance ELSE [a EXCEPT !.shares = a.shares - n]
        amount == shares_to_amount(totalShares, totalDeposited, n)
        rules == enforce_and_record(leave_rules, owner, amount)
    IN  /\ a # NoAllowance /\ now < a.expires /\ a.shares >= n
        /\ enforce_min_unstake(n, shares[owner]) /\ within_limit(owner, amount)
        /\ unstake_to(owner, n, to)
        /\ leave_rules' = [rules EXCEPT !.allowance = [rules.allowance EXCEPT ![x] = left],
                                       !.taken = [rules.taken EXCEPT ![x] = rules.taken[x] + n]]

LimitMoves ==
    \/ \E l \in DailyLimits : set_daily_withdrawal_limit(l)
    \/ set_min_unstake_amount(2)
    \/ \E u \in Owners, n \in Amounts : limited_unstake(u, n)
    \/ \E h \in Heirs, n \in Amounts \cup {0}, d \in Durations : approve_withdrawal(h[1], h[2], n, now + d)
    \/ \E h \in Heirs, n \in Amounts : withdraw_from(h[2], h[1], n, h[2])

PositionInit == SplitInit /\ HeirInit /\ DustInit /\ ReceiptInit /\ LimitInit

\* Every share of a primary position earns a token in the ledger that closes.
PositionTick ==
    /\ TimePasses
    /\ position' = IF now < MaxLedger THEN [position EXCEPT !.earned = @ + sum(shares)] ELSE position
    /\ UNCHANGED <<heirs, dust, receipt, leave_rules>>

-------------------------------------------------------------------------------
\* The positions of all users hold every share and nothing else.
shares_in_positions == totalShares = sum([u \in Users |-> holding(u)])

\* Whatever is split, merged, closed or handed over, each ledger's reward is settled once:
\* it is paid, credited or still running, except what a handover wrote over
\* and what a redemption or a scheduled exit never settled.
rewards_follow ==
    position.earned = position.paid + position.forgone
        + sum([u \in Users |-> position.accrued[u] + unsettled(u)])

\* No heir takes a position whose owner did something within the period.
heirs_wait == ~heirs.early

\* The fractions of a receipt are all somebody's, the holders are all listed, and what
\* redemptions and scheduled exits leave behind is what they paid or did not pay.
receipts_whole ==
    /\ \A u \in Users : /\ sum(receipt.bal[u]) = receipt.total[u]
                         /\ \A h \in Users : receipt.bal[u][h] > 0 => Contains(receipt.holders[u], h)
    /\ held = totalDeposited + rewardPool + receipt.written_off - receipt.unfunded

\* In the day that starts with a withdrawal no more than the limit leaves, whoever
\* withdraws, and no spender takes more than was approved.
limits_kept ==
    /\ \A u \in Users : LET t == leave_rules.tracker[u] IN
          t.used > 0 =>
            /\ t.used <= Max(DailyLimits)
            /\ t.used = sum([k \in {k \in 0..MaxLedger : t.start <= k /\ k < t.start + LEDGERS_PER_DAY} |-> leave_rules.out[u][k]])
    /\ \A x \in Users \X Users : leave_rules.taken[x] + leave_rules.allowance[x].shares = leave_rules.given[x]

===============================================================================
