----------------------------- MODULE ClaimPipeline -----------------------------
(***************************************************************************)
(* What do_claim does with a reward on its way to the staker: the claim    *)
(* cap, the insurance fund's cut, the premium of a policy, the repayment   *)
(* of a loan, the escrow of a new position and the vesting queue.  How much*)
(* a position has earned is any amount of Earnings; the claim statistics   *)
(* and the reward of a restaking user are VaultPool's.                     *)
(***************************************************************************)
EXTENDS Loans

CONSTANTS
    Claimants,      \* the users who call
    ClaimAmounts,   \* amounts they offer, and the admin schedules
    Earnings,       \* rewards a settlement credits
    MaxAccrued,     \* model bound on the unclaimed reward of a user
    ClaimCap, ClaimWindow,      \* set_claim_cap: amount per window; 0 = none
    InsuranceRate, PremiumRate, \* insurance_rate_bps, premium_bps of a policy
    MaxCoverage,    \* max_coverage_per_user
    Periods,        \* escrow and vesting periods the admin sets; 0 = none
    MaxVesting,     \* entries of a vesting queue (10 in the code)
    ClaimHorizon    \* model bound on the ledger number here

\* What the setters of caps, rates and periods admit.
ASSUME ClaimAssumption ==
    /\ Claimants \subseteq Users
    /\ ClaimAmounts \subseteq Nat \ {0} /\ Earnings \subseteq Nat /\ Periods \subseteq Nat
    /\ InsuranceRate \in 0..BPS_DENOMINATOR /\ PremiumRate \in 0..BPS_DENOMINATOR
    /\ ClaimCap \in Nat /\ ClaimWindow \in Nat /\ MaxCoverage \in Nat /\ MaxVesting \in Nat

VARIABLES
    escrowPeriod, vestingPeriod,    \* 0 = none
    accrued,        \* AccruedReward
    window,         \* UserClaimWindow: what was claimed since when
    insuranceFund,  \* InsuranceFundBalance
    policy,         \* coverage of the user's policy, NoLedger for none
    escrow,         \* EscrowBalance and EscrowReleaseLedger
    vesting,        \* VestingEntries; nothing reads their order, so a table of places
    forfeited,      \* escrow given up by a full exit      (history variables)
    unfunded        \* paid for entries no claim paid for

periods == <<escrowPeriod, vestingPeriod>>
claim_vars == <<periods, accrued, window, insuranceFund, policy, escrow, vesting, forfeited, unfunded>>

Places  == 1..MaxVesting
NoEntry == [amount |-> 0, at |-> NoLedger, funded |-> FALSE]

EscrowInit    == escrowPeriod = 0 /\ escrow = [u \in Users |-> [amount |-> 0, release |-> NoLedger]]
VestingInit   == vestingPeriod = 0 /\ vesting = [u \in Users |-> [i \in Places |-> NoEntry]]
InsuranceInit == insuranceFund = 0 /\ policy = [u \in Users |-> NoLedger]
WindowInit    == window = [u \in Users |-> [claimed |-> 0, since |-> NoLedger]]

ClaimInit ==
    /\ EscrowInit /\ VestingInit /\ InsuranceInit /\ WindowInit
    /\ accrued = [u \in Users |-> 0]
    /\ forfeited = 0 /\ unfunded = 0

\* set_vesting_period, set_escrow_period: for claims, and positions, to come.
set_vesting_period(p) ==
    /\ vestingPeriod' = p
    /\ UNCHANGED <<base_vars, loan_vars, escrowPeriod, accrued, window, insuranceFund, policy,
                   escrow, vesting, forfeited, unfunded>>

set_escrow_period(p) ==
    /\ escrowPeriod' = p
    /\ UNCHANGED <<base_vars, loan_vars, vestingPeriod, accrued, window, insuranceFund, policy,
                   escrow, vesting, forfeited, unfunded>>

\* apply_claim_cap: the window in force, and what of the reward it still admits.
claim_window(u) ==
    IF window[u].since = NoLedger \/ (ClaimWindow > 0 /\ now > window[u].since + ClaimWindow)
    THEN [claimed |-> 0, since |-> now] ELSE window[u]

apply_claim_cap(u, full) ==
    IF ClaimCap = 0 THEN full ELSE Min({full, Max({ClaimCap - claim_window(u).claimed, 0})})

\* The user's part after a cut of so many basis points; the rounding favours the fund.
after_cut(amount, rate) == (amount * (BPS_DENOMINATOR - rate)) \div BPS_DENOMINATOR

\* An entry joins the queue of u, which refuses when full.
free_places(u) == {i \in Places : vesting[u][i] = NoEntry}

push_back(u, entry) ==
    LET place == CHOOSE i \in Places : i \in free_places(u)
    IN  /\ free_places(u) # {}
        /\ vesting' = [vesting EXCEPT ![u] =
              [i \in Places |-> IF i = place THEN entry ELSE vesting[u][i]]]

\* do_claim, for a staker whose settlement credits `earned`.
do_claim(u, earned) ==
    LET total    == accrued[u] + earned
        reward   == apply_claim_cap(u, total)
        net      == after_cut(reward, InsuranceRate)
        insured  == IF policy[u] = NoLedger THEN net ELSE after_cut(net, PremiumRate)
        l        == accrue_loan_interest(loans[u])
        toLoan   == IF loans[u] = NoLoan THEN 0 ELSE Min({insured, debt_of(l)})
        mine     == insured - toLoan
        locked   == escrow[u].release # NoLedger /\ now < escrow[u].release
        payout   == mine + escrow[u].amount
        counted  == [claimed |-> claim_window(u).claimed + reward, since |-> claim_window(u).since]
        settled  == IF insured = 0 THEN loans[u] ELSE settle_loan(l, toLoan)
        claimed  ==
            /\ reward > 0
            /\ rewardPool >= reward
            /\ accrued' = [accrued EXCEPT ![u] = total - reward]
            /\ window' = IF ClaimCap = 0 THEN window
                         ELSE [window EXCEPT ![u] = counted]
            /\ insuranceFund' = insuranceFund + reward - insured
            /\ loans' = [loans EXCEPT ![u] = settled]
            /\ rewardPool' = rewardPool - reward + toLoan
            /\ UNCHANGED <<now, pool, loanConfig, writtenOff, periods, policy, forfeited, unfunded>>
    IN  /\ total <= MaxAccrued
        /\ \/ \* nothing to pay: only the settlement is written
              /\ reward = 0
              /\ accrued' = [accrued EXCEPT ![u] = total]
              /\ UNCHANGED <<base_vars, loan_vars, periods, window, insuranceFund, policy, escrow,
                             vesting, forfeited, unfunded>>
           \/ \* into escrow
              /\ claimed /\ locked
              /\ escrow' = [escrow EXCEPT ![u] = [amount |-> payout, release |-> escrow[u].release]]
              /\ UNCHANGED <<wallet, held, vesting>>
           \/ \* into the vesting queue
              /\ claimed /\ ~locked /\ vestingPeriod > 0
              /\ push_back(u, [amount |-> payout, at |-> now + vestingPeriod, funded |-> TRUE])
              /\ escrow' = [escrow EXCEPT ![u] = [amount |-> 0, release |-> NoLedger]]
              /\ UNCHANGED <<wallet, held>>
           \/ \* to the staker
              /\ claimed /\ ~locked /\ vestingPeriod = 0
              /\ push(u, payout)
              /\ escrow' = [escrow EXCEPT ![u] = [amount |-> 0, release |-> NoLedger]]
              /\ UNCHANGED vesting

\* The admin promises a payment nobody funded (that the queue may be full here is a
\* model bound: the code appends).
schedule_vesting(u, amount) ==
    /\ push_back(u, [amount |-> amount, at |-> now, funded |-> FALSE])
    /\ UNCHANGED <<base_vars, loan_vars, periods, accrued, window, insuranceFund, policy, escrow,
                   forfeited, unfunded>>

\* The matured entries of u (a free place among them, worth nothing), what entries are
\* worth, and the matured ones no claim paid for.
matured(u)          == {i \in Places : now >= vesting[u][i].at}
total_of(entries, S) == sum_over([i \in Places |-> entries[i].amount], S)
promised_to(u)      == {i \in matured(u) : ~vesting[u][i].funded}

\* Mutant: the matured entries are paid and left in the queue.
withdraw_vested_again(u) ==
    LET due == total_of(vesting[u], matured(u))
    IN  /\ due > 0 /\ rewardPool >= due
        /\ push(u, due)
        /\ unfunded' = unfunded + total_of(vesting[u], promised_to(u))
        /\ UNCHANGED <<now, pool, rewardPool, loan_vars, periods, accrued, window, insuranceFund,
                       policy, escrow, vesting, forfeited>>

\* withdraw_vested and withdraw_all_vested: the claim charged the pool already, so the
\* pool is asked for the amount a second time and not charged.
withdraw_vested(u) ==
    LET due == total_of(vesting[u], matured(u))
    IN  /\ due > 0
        /\ rewardPool >= due
        /\ vesting' = [vesting EXCEPT ![u] =
              [i \in Places |-> IF i \in matured(u) THEN NoEntry ELSE vesting[u][i]]]
        /\ push(u, due)
        /\ unfunded' = unfunded + total_of(vesting[u], promised_to(u))
        /\ UNCHANGED <<now, pool, rewardPool, loan_vars, periods, accrued, window, insuranceFund,
                       policy, escrow, forfeited>>

\* The first stake of a position starts its escrow; leaving with the last share
\* drops the escrow and what is in it.
open_position(u, amount) ==
    /\ shares[u] = 0
    /\ pull(u, amount) /\ mint_to(u, amount)
    /\ escrow' = IF escrowPeriod = 0 THEN escrow
                 ELSE [escrow EXCEPT ![u] = [amount |-> escrow[u].amount, release |-> now + escrowPeriod]]
    /\ UNCHANGED <<now, rewardPool, loan_vars, periods, accrued, window, insuranceFund, policy,
                   vesting, forfeited, unfunded>>

close_position(u) ==
    /\ shares[u] > 0
    /\ push(u, amount_of(u))
    /\ shares' = [shares EXCEPT ![u] = 0]
    /\ totalShares' = totalShares - shares[u]
    /\ totalDeposited' = totalDeposited - amount_of(u)
    /\ escrow' = [escrow EXCEPT ![u] = [amount |-> 0, release |-> NoLedger]]
    /\ forfeited' = forfeited + escrow[u].amount
    /\ UNCHANGED <<now, rewardPool, loan_vars, periods, accrued, window, insuranceFund, policy,
                   vesting, unfunded>>

purchase_insurance(u) ==
    /\ policy[u] = NoLedger /\ shares[u] > 0
    /\ policy' = [policy EXCEPT ![u] = Min({amount_of(u), MaxCoverage})]
    /\ UNCHANGED <<base_vars, loan_vars, periods, accrued, window, insuranceFund, escrow, vesting,
                   forfeited, unfunded>>

cancel_insurance(u) ==
    /\ policy[u] # NoLedger
    /\ policy' = [policy EXCEPT ![u] = NoLedger]
    /\ UNCHANGED <<base_vars, loan_vars, periods, accrued, window, insuranceFund, escrow, vesting,
                   forfeited, unfunded>>

\* The whole batch is paid or, when the fund cannot cover a policy, nobody is.
declare_shortfall(affected) ==
    LET covered == {u \in affected : policy[u] # NoLedger}
        due     == sum([u \in covered |-> policy[u]])
    IN  /\ due <= insuranceFund /\ due <= held
        /\ wallet' = [a \in Accounts |-> wallet[a] + IF a \in covered THEN policy[a] ELSE 0]
        /\ held' = held - due
        /\ insuranceFund' = insuranceFund - due
        /\ policy' = [u \in Users |-> IF u \in covered THEN NoLedger ELSE policy[u]]
        /\ UNCHANGED <<now, pool, rewardPool, loan_vars, periods, accrued, window, escrow, vesting,
                       forfeited, unfunded>>

ClaimNext ==
    \/ \E p \in Periods : set_vesting_period(p) \/ set_escrow_period(p)
    \/ \E u \in Claimants, e \in Earnings : do_claim(u, e)
    \/ \E u \in Claimants, a \in ClaimAmounts : schedule_vesting(u, a) \/ open_position(u, a)
    \/ \E u \in Claimants : withdraw_vested(u) \/ close_position(u)
    \/ \E u \in Claimants : purchase_insurance(u) \/ cancel_insurance(u)
    \/ \E a \in SUBSET Claimants \ {{}} : declare_shortfall(a)
    \/ (\E u \in Claimants, a \in ClaimAmounts : borrow(u, a) \/ repay(u, a)) /\ UNCHANGED claim_vars
    \/ (\E c \in LoanConfigs : set_loan_config(c)) /\ UNCHANGED claim_vars
    \/ now < ClaimHorizon /\ tick /\ UNCHANGED <<wallet, held, pool, rewardPool, loan_vars, claim_vars>>

-------------------------------------------------------------------------------
\* The tokens are the principal, the pool, the insurance fund, the escrows and the
\* queued vesting of claims, plus what exits gave up, less what schedule_vesting
\* promised unfunded.
claims_balanced ==
    held + unfunded =
        totalDeposited + rewardPool + insuranceFund + forfeited
        + sum([u \in Users |-> escrow[u].amount])
        + sum([u \in Users |-> total_of(vesting[u], {i \in Places : vesting[u][i].funded})])

===============================================================================
