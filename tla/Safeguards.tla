------------------------------- MODULE Safeguards -------------------------------
(***************************************************************************)
(* Rules a staker sets or accepts for the position: automatic recovery of  *)
(* an unhealthy loan, called by keepers; a stake committed to by its hash  *)
(* and revealed within a window; and heartbeats, which keep the boost of a *)
(* reward.  None of them settles the rewards or the interest of the        *)
(* position first.                                                         *)
(***************************************************************************)
EXTENDS Loans

CONSTANTS
    Triggers,           \* trigger_health_bps values
    KeeperIncentive,    \* KEEPER_INCENTIVE_BPS, larger here so that it is not rounded away
    RecoveryCooldown,   \* RECOVERY_COOLDOWN_LEDGERS
    RewardSteps,        \* rewards a settlement accrues
    MaxDue,             \* model bound on the rewards accrued
    TopBoost,           \* largest multiplier of the boost schedule
    MaxPledges,         \* model bound on the commitments of a user
    Guarded             \* the users whose positions are watched

ASSUME SafeguardAssumption ==
    /\ Triggers \subseteq Nat /\ RewardSteps \subseteq Nat /\ Guarded \subseteq Users
    /\ KeeperIncentive \in Nat /\ RecoveryCooldown \in Nat /\ TopBoost \in Nat

RecoveryAction == {"AutoClaim", "AutoRepayLoan", "AutoUnstakePartial"}
NoRecovery  == [trigger |-> 0, action |-> Nobody, amount |-> 0]
NoPledge    == [amount |-> 0, at |-> 0]

VARIABLES
    due,        \* AccruedReward
    recovery,   \* RecoveryConfig and last recovery ledger of each user
    pledges,    \* CommitmentRecord of each user, and the reveal window
    heartbeat   \* HeartbeatLog and suspended flag of each user, and the interval
safeguard_vars == <<due, recovery, pledges, heartbeat>>

\* `returned' (debt the recoveries took off), `unfunded' (tokens they paid out of no pool)
\* and `worsened' (covered loans they left with less collateral for the debt) are history.
RecoveryInit ==
    recovery = [cfg |-> [u \in Users |-> NoRecovery], last |-> [u \in Users |-> 0],
                returned |-> 0, unfunded |-> 0, worsened |-> 0]

\* `made' and `used' are history.
PledgeInit ==
    pledges = [rec |-> [u \in Users |-> NoPledge], window |-> 1,
               made |-> [u \in Users |-> 0], used |-> [u \in Users |-> 0]]

\* `silent' (boost paid to users not heard from in time) is history.
HeartbeatInit ==
    heartbeat = [log |-> [u \in Users |-> NoLedger], flag |-> [u \in Users |-> FALSE], interval |-> 0, silent |-> 0]

SafeguardInit == due = [u \in Users |-> 0] /\ RecoveryInit /\ PledgeInit /\ HeartbeatInit

\* A settlement by any of the other entry points.
accrue_due(u, n) ==
    /\ shares[u] > 0 /\ due[u] + n <= MaxDue
    /\ due' = [due EXCEPT ![u] = due[u] + n]
    /\ UNCHANGED <<base_vars, loan_vars, recovery, pledges, heartbeat>>

-------------------------------------------------------------------------------
set_recovery_config(u, trigger, action, amount) ==
    /\ trigger > 0 /\ (action = "AutoClaim" \/ amount > 0)
    /\ recovery' = [recovery EXCEPT !.cfg = [recovery.cfg EXCEPT ![u] =
                        [trigger |-> trigger, action |-> action, amount |-> amount]]]
    /\ UNCHANGED <<base_vars, loan_vars, due, pledges, heartbeat>>

cancel_recovery_config(u) ==
    /\ recovery.cfg[u] # NoRecovery
    /\ recovery' = [recovery EXCEPT !.cfg = [recovery.cfg EXCEPT ![u] = NoRecovery]]
    /\ UNCHANGED <<base_vars, loan_vars, due, pledges, heartbeat>>

\* Of a loan with a debt, against a collateral of this worth; no interest is accrued.
current_health_bps(l, collateral) == (bps(collateral, loanConfig.ltv) * BPS_DENOMINATOR) \div debt_of(l)

\* Mutant: what is left after the interest does not come off the principal.
apply_loan_repayment_interest(l, amount) == [l EXCEPT !.interest = l.interest - Min({amount, l.interest})]

apply_loan_repayment(l, amount) ==
    LET onInterest == Min({amount, l.interest})
        rest == [l EXCEPT !.interest = l.interest - onInterest,
                          !.principal = l.principal - Min({amount - onInterest, l.principal})]
    IN  IF debt_of(rest) <= 0 THEN NoLoan ELSE rest

\* What the action does: shares burned, what they were worth, what of it comes off the
\* loan and what is paid to the user.  Neither pool of the contract is charged.
remedy(u) ==
    LET c == recovery.cfg[u]
        repaid == Min({amount_to_shares(totalShares, totalDeposited, Min({c.amount, debt_of(loans[u])})), shares[u]})
        closed == Min({c.amount, shares[u]})
        worth(n) == shares_to_amount(totalShares, totalDeposited, n)
        onLoan == Min({worth(closed), debt_of(loans[u])})
    IN  CASE c.action = "AutoClaim"     -> [burn |-> 0, worth |-> due[u], loan |-> 0, user |-> due[u]]
          [] c.action = "AutoRepayLoan" -> [burn |-> repaid, worth |-> worth(repaid), loan |-> worth(repaid), user |-> 0]
          [] OTHER                      -> [burn |-> closed, worth |-> worth(closed), loan |-> onLoan, user |-> worth(closed) - onLoan]

check_and_recover(keeper, u) ==
    LET c == recovery.cfg[u]
        l == loans[u]
        r == remedy(u)
        tip    == bps(r.worth, KeeperIncentive)
        given  == IF r.burn = 0 THEN 0 ELSE r.worth
        after  == IF c.action = "AutoClaim" THEN l ELSE apply_loan_repayment(l, r.loan)
        poorer == /\ after # NoLoan /\ amount_of(u) >= debt_of(l)
                  /\ (amount_of(u) - given) * debt_of(l) < amount_of(u) * debt_of(after)
    IN  /\ c # NoRecovery
        /\ recovery.last[u] # 0 => now >= recovery.last[u] + RecoveryCooldown
        /\ loanConfig # NoConfig /\ debt_of(l) > 0
        /\ current_health_bps(l, amount_of(u)) <= c.trigger
        /\ IF c.action = "AutoClaim" THEN r.worth > 0 ELSE r.burn > 0
        /\ held >= r.user + tip
        /\ held' = held - r.user - tip
        /\ wallet' = [a \in Accounts |-> wallet[a] + (IF a = u THEN r.user ELSE 0) + (IF a = keeper THEN tip ELSE 0)]
        /\ shares' = [shares EXCEPT ![u] = shares[u] - r.burn]
        /\ totalShares' = totalShares - r.burn
        /\ totalDeposited' = totalDeposited - given
        /\ loans' = [loans EXCEPT ![u] = after]
        /\ due' = [due EXCEPT ![u] = IF c.action = "AutoClaim" THEN 0 ELSE due[u]]
        /\ recovery' = [recovery EXCEPT
               !.last = [recovery.last EXCEPT ![u] = now],
               !.returned = recovery.returned + debt_of(l) - debt_of(after),
               !.unfunded = recovery.unfunded + tip + (IF r.burn = 0 THEN r.user ELSE 0),
               !.worsened = IF poorer THEN recovery.worsened + 1 ELSE recovery.worsened]
        /\ UNCHANGED <<now, rewardPool, loanConfig, writtenOff, pledges, heartbeat>>

RecoveryMoves ==
    \/ \E u \in Guarded, n \in RewardSteps : accrue_due(u, n)
    \/ \E u \in Guarded :
         \/ \E t \in Triggers, a \in RecoveryAction, n \in Amounts : set_recovery_config(u, t, a, n)
         \/ cancel_recovery_config(u)
         \/ check_and_recover(Admin, u)
    \/ /\ \/ \E c \in LoanConfigs : set_loan_config(c)
          \/ \E u \in Guarded, a \in Amounts : borrow(u, a) \/ repay(u, a)
          \/ \E u \in Guarded : liquidate_loan(u) \/ unstake_collateral(u)
       /\ UNCHANGED safeguard_vars

-------------------------------------------------------------------------------
is_expired(p) == now > p.at + pledges.window

set_commitment_window(w) ==
    /\ w > 0
    /\ pledges' = [pledges EXCEPT !.window = w]
    /\ UNCHANGED <<base_vars, loan_vars, due, recovery, heartbeat>>

\* The hash stands for the amount it hides.
commit_to_stake(u, amount) ==
    /\ pledges.made[u] < MaxPledges
    /\ pledges.rec[u] = NoPledge \/ is_expired(pledges.rec[u])
    /\ pledges' = [pledges EXCEPT !.rec = [pledges.rec EXCEPT ![u] = [amount |-> amount, at |-> now]],
                                  !.made = [pledges.made EXCEPT ![u] = pledges.made[u] + 1]]
    /\ UNCHANGED <<base_vars, loan_vars, due, recovery, heartbeat>>

\* Mutant: the commitment stays after its reveal.
consumed_later(u) == pledges.rec[u]

\* The record after a reveal.
consumed(u) == NoPledge

reveal_and_stake(u, amount) ==
    /\ pledges.rec[u] # NoPledge /\ ~is_expired(pledges.rec[u])
    /\ pledges.rec[u].amount = amount
    /\ join(u, amount)
    /\ pledges' = [pledges EXCEPT !.rec = [pledges.rec EXCEPT ![u] = consumed(u)],
                                  !.used = [pledges.used EXCEPT ![u] = pledges.used[u] + 1]]
    /\ UNCHANGED <<loan_vars, due, recovery, heartbeat>>

PledgeMoves ==
    \/ \E w \in Durations : set_commitment_window(w)
    \/ \E u \in Users, a \in Amounts : commit_to_stake(u, a) \/ reveal_and_stake(u, a)
    \/ \E u \in Guarded : leave(u) /\ UNCHANGED <<loan_vars, safeguard_vars>>

-------------------------------------------------------------------------------
set_heartbeat_interval(n) ==
    /\ heartbeat' = [heartbeat EXCEPT !.interval = n]
    /\ UNCHANGED <<base_vars, loan_vars, due, recovery, pledges>>

is_current(h, u) == h.interval = 0 \/ (h.log[u] # NoLedger /\ now - h.log[u] <= h.interval)

record_heartbeat(h, u) == [h EXCEPT !.log = [h.log EXCEPT ![u] = now], !.flag = [h.flag EXCEPT ![u] = FALSE]]

check_and_flag_suspended(h, u) == IF is_current(h, u) THEN h ELSE [h EXCEPT !.flag = [h.flag EXCEPT ![u] = TRUE]]

apply_heartbeat_boost(h, u, base) == IF is_current(h, u) THEN bps(base, TopBoost) ELSE base

send_heartbeat(u) ==
    /\ heartbeat' = record_heartbeat(heartbeat, u)
    /\ UNCHANGED <<base_vars, loan_vars, due, recovery, pledges>>

stake_with_heartbeat(u, amount) ==
    /\ join(u, amount)
    /\ heartbeat' = record_heartbeat(heartbeat, u)
    /\ UNCHANGED <<loan_vars, due, recovery, pledges>>

\* Mutant: the claim is recorded before the boost is looked up.
payout_of_heard(u) == apply_heartbeat_boost(record_heartbeat(heartbeat, u), u, due[u])

payout_of(u) == apply_heartbeat_boost(heartbeat, u, due[u])

\* The flag is raised and lowered again in the same call.
claim_with_heartbeat(u) ==
    LET payout == payout_of(u)
        heard  == record_heartbeat(check_and_flag_suspended(heartbeat, u), u)
    IN  \/ /\ due[u] <= 0
           /\ heartbeat' = record_heartbeat(heartbeat, u)
           /\ UNCHANGED <<base_vars, loan_vars, due, recovery, pledges>>
        \/ /\ due[u] > 0 /\ rewardPool >= payout
           /\ push(u, payout)
           /\ rewardPool' = rewardPool - payout
           /\ due' = [due EXCEPT ![u] = 0]
           /\ heartbeat' = [heard EXCEPT !.silent = IF is_current(heartbeat, u) THEN heard.silent ELSE heard.silent + payout - due[u]]
           /\ UNCHANGED <<now, pool, loan_vars, recovery, pledges>>

HeartbeatMoves ==
    \/ \E n \in Durations : set_heartbeat_interval(n)
    \/ \E u \in Guarded :
         \/ send_heartbeat(u) \/ claim_with_heartbeat(u)
         \/ \E n \in RewardSteps : accrue_due(u, n)
         \/ \E a \in Amounts : stake_with_heartbeat(u, a)

SafeguardTick == TimePasses /\ UNCHANGED <<loan_vars, safeguard_vars>>

-------------------------------------------------------------------------------
\* Debt a recovery takes off was given up in deposits, over borrowing, interest, exits and
\* repeated recoveries; what it pays beside that is all that lacks, and a loan the
\* position covers keeps at least its collateral for each token owed.
recoveries_accounted ==
    /\ held = totalDeposited + rewardPool + recovery.returned - recovery.unfunded
    /\ rewardPool + sum([u \in Users |-> loans[u].principal]) + writtenOff + recovery.returned >= PoolReserve
    /\ recovery.worsened = 0

\* Every revealed stake used up a commitment of its own.
pledges_used_once == \A u \in Users : pledges.used[u] + (IF pledges.rec[u] = NoPledge THEN 0 ELSE 1) <= pledges.made[u]

\* Nobody silent for longer than the interval is paid a boost, nobody stays suspended and
\* a heartbeat claim is charged to the reward pool.
boosts_heard ==
    /\ heartbeat.silent = 0
    /\ \A u \in Users : ~heartbeat.flag[u]
    /\ held = totalDeposited + rewardPool

===============================================================================
