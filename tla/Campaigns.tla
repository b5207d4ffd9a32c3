------------------------------- MODULE Campaigns -------------------------------
(***************************************************************************)
(* Funds collected for a purpose: the lockdrop (tokens locked for a share  *)
(* of a prize), the presale of pool spots, the stakers' mutual insurance   *)
(* with its votes on losses, and the guarantor's reserve, which is a number*)
(* only.  What a member has accrued is any amount of Amounts.              *)
(***************************************************************************)
EXTENDS PoolBase

CONSTANTS
    FeeBps,             \* contribution and reservation fee
    PresaleCap,         \* total_reservation_cap, and twice the cap per buyer
    MaxEvents, MaxRounds,   \* model bounds on loss events and on campaigns
    SolvencyPeriod      \* SOLVENCY_PERIOD_LEDGERS

ASSUME CampaignAssumption == FeeBps \in 0..BPS_DENOMINATOR /\ PresaleCap \in Nat

NoCommitment == [amount |-> 0, duration |-> 0, score |-> 0, at |-> NoLedger]

VARIABLES
    lockdrop,       \* LockdropConfig, "none" before the first, with the total score
    commitments,    \* LockdropCommitment of each user
    committers,     \* the users who committed, one entry per commitment
    allocation, lockdropClaimed,
    presale,        \* PresaleConfig; active FALSE before the first
    reservations,   \* PresaleReservation of each user
    mutual,         \* MutualInsuranceConfig and fund
    members,
    losses,         \* MutualLossEvent by id, with the set of voters
    guarantee       \* reserve, ledger of registration, insolvency

lockdrop_vars == <<lockdrop, commitments, committers, allocation, lockdropClaimed>>
presale_vars  == <<presale, reservations>>
mutual_vars   == <<mutual, members, losses>>
campaign_vars == <<lockdrop_vars, presale_vars, mutual_vars, guarantee>>

LockdropInit ==
    /\ lockdrop = [status |-> "none", prize |-> 0, endsAt |-> 0, total |-> 0, round |-> 0]
    /\ commitments = [u \in Users |-> NoCommitment] /\ committers = {}
    /\ allocation = [u \in Users |-> 0] /\ lockdropClaimed = {}

PresaleInit ==
    /\ presale = [active |-> FALSE, reserved |-> 0, opensAt |-> 0]
    /\ reservations = [u \in Users |-> [amount |-> 0, redeemed |-> FALSE]]

MutualInit ==
    /\ mutual = [active |-> FALSE, period |-> 0, fund |-> 0]
    /\ members = {} /\ losses = <<>>

GuaranteeInit == guarantee = [reserve |-> 0, registeredAt |-> NoLedger, insolventAt |-> NoLedger]

CampaignInit == LockdropInit /\ PresaleInit /\ MutualInit /\ GuaranteeInit

start_lockdrop(prize, duration) ==
    /\ lockdrop.status # "open" /\ lockdrop.round < MaxRounds /\ duration > 0
    /\ pull(Admin, prize)
    /\ lockdrop' = [status |-> "open", prize |-> prize, endsAt |-> now + duration,
                    total |-> 0, round |-> lockdrop.round + 1]
    /\ committers' = {}
    /\ UNCHANGED <<now, pool, rewardPool, commitments, allocation, lockdropClaimed,
                   presale_vars, mutual_vars, guarantee>>

commit_to_lockdrop(u, amount, duration) ==
    /\ lockdrop.status = "open" /\ now <= lockdrop.endsAt
    /\ duration > 0 /\ commitments[u] = NoCommitment
    /\ pull(u, amount)
    /\ commitments' = [commitments EXCEPT ![u] =
            [amount |-> amount, duration |-> duration, score |-> amount * duration, at |-> now]]
    /\ committers' = committers \cup {u}
    /\ lockdrop' = [lockdrop EXCEPT !.total = @ + amount * duration]
    /\ UNCHANGED <<now, pool, rewardPool, allocation, lockdropClaimed, presale_vars,
                   mutual_vars, guarantee>>

\* Mutant: every committer is promised the whole prize.
finalize_lockdrop_undivided ==
    /\ lockdrop.status = "open" /\ now > lockdrop.endsAt
    /\ lockdrop' = [lockdrop EXCEPT !.status = "final"]
    /\ allocation' = [u \in Users |->
            IF u \in committers /\ commitments[u] # NoCommitment THEN lockdrop.prize ELSE allocation[u]]
    /\ UNCHANGED <<base_vars, commitments, committers, lockdropClaimed, presale_vars,
                   mutual_vars, guarantee>>

\* Pro rata to the scores, rounded down; the score of an exit stays in the total.
finalize_lockdrop ==
    /\ lockdrop.status = "open" /\ now > lockdrop.endsAt
    /\ lockdrop' = [lockdrop EXCEPT !.status = "final"]
    /\ allocation' = [u \in Users |->
            IF lockdrop.total > 0 /\ u \in committers /\ commitments[u] # NoCommitment
            THEN (lockdrop.prize * commitments[u].score) \div lockdrop.total
            ELSE allocation[u]]
    /\ UNCHANGED <<base_vars, commitments, committers, lockdropClaimed, presale_vars,
                   mutual_vars, guarantee>>

\* The claimed mark is never reset, so it also ends later campaigns for the user.
claim_lockdrop_reward(u) ==
    /\ lockdrop.status = "final" /\ commitments[u] # NoCommitment
    /\ u \notin lockdropClaimed /\ allocation[u] > 0
    /\ push(u, allocation[u])
    /\ lockdropClaimed' = lockdropClaimed \cup {u}
    /\ UNCHANGED <<now, pool, rewardPool, lockdrop, commitments, committers, allocation,
                   presale_vars, mutual_vars, guarantee>>

exit_lockdrop(u) ==
    /\ commitments[u] # NoCommitment
    /\ now >= commitments[u].at + commitments[u].duration
    /\ push(u, commitments[u].amount)
    /\ commitments' = [commitments EXCEPT ![u] = NoCommitment]
    /\ UNCHANGED <<now, pool, rewardPool, lockdrop, committers, allocation, lockdropClaimed,
                   presale_vars, mutual_vars, guarantee>>

LockdropNext ==
    \/ \E a \in Amounts, d \in Durations : start_lockdrop(a, d)
    \/ \E u \in Users, a \in Amounts, d \in Durations : commit_to_lockdrop(u, a, d)
    \/ finalize_lockdrop
    \/ \E u \in Users : claim_lockdrop_reward(u) \/ exit_lockdrop(u)

-------------------------------------------------------------------------------
start_presale(wait) ==
    /\ ~presale.active /\ wait > 0
    /\ presale' = [active |-> TRUE, reserved |-> 0, opensAt |-> now + wait]
    /\ UNCHANGED <<base_vars, lockdrop_vars, reservations, mutual_vars, guarantee>>

cancel_presale ==
    /\ presale' = [presale EXCEPT !.active = FALSE]
    /\ UNCHANGED <<base_vars, lockdrop_vars, reservations, mutual_vars, guarantee>>

\* The fee goes from buyer to admin at once; the stake itself follows at redemption.
reserve_presale_spot(u, amount) ==
    LET fee == bps(amount, FeeBps)
    IN  /\ presale.active /\ now < presale.opensAt
        /\ reservations[u].amount + amount <= PresaleCap \div 2
        /\ presale.reserved + amount <= PresaleCap
        /\ wallet[u] >= fee
        /\ wallet' = [wallet EXCEPT ![u] = @ - fee, ![Admin] = @ + fee]
        /\ reservations' = [reservations EXCEPT ![u] = [@ EXCEPT !.amount = reservations[u].amount + amount]]
        /\ presale' = [presale EXCEPT !.reserved = @ + amount]
        /\ UNCHANGED <<now, held, pool, rewardPool, lockdrop_vars, mutual_vars, guarantee>>

redeem_presale_reservation(u) ==
    /\ presale.active /\ now >= presale.opensAt
    /\ ~reservations[u].redeemed /\ reservations[u].amount > 0
    /\ pull(u, reservations[u].amount)
    /\ mint_to(u, reservations[u].amount)
    /\ reservations' = [reservations EXCEPT ![u] = [@ EXCEPT !.redeemed = TRUE]]
    /\ UNCHANGED <<now, rewardPool, lockdrop_vars, presale, mutual_vars, guarantee>>

PresaleNext ==
    \/ \E d \in Durations : start_presale(d)
    \/ cancel_presale
    \/ \E u \in Users : redeem_presale_reservation(u) \/ \E a \in Amounts : reserve_presale_spot(u, a)

-------------------------------------------------------------------------------
\* enable_mutual_insurance, disable_mutual_insurance.
enable_mutual_insurance(period) ==
    /\ period > 0
    /\ mutual' = [mutual EXCEPT !.active = TRUE, !.period = period]
    /\ UNCHANGED <<base_vars, lockdrop_vars, presale_vars, members, losses, guarantee>>

disable_mutual_insurance ==
    /\ mutual.period > 0
    /\ mutual' = [mutual EXCEPT !.active = FALSE]
    /\ UNCHANGED <<base_vars, lockdrop_vars, presale_vars, members, losses, guarantee>>

join_mutual_insurance(u) ==
    /\ mutual.active
    /\ members' = members \cup {u}
    /\ UNCHANGED <<base_vars, lockdrop_vars, presale_vars, mutual, losses, guarantee>>

leave_mutual_insurance(u) ==
    /\ members' = members \ {u}
    /\ UNCHANGED <<base_vars, lockdrop_vars, presale_vars, mutual, losses, guarantee>>

\* The whole accrued reward leaves the pool, the contribution stays in the fund.
claim_reward_with_mutual_contribution(u, accrued) ==
    /\ u \in members /\ mutual.active
    /\ rewardPool >= accrued
    /\ rewardPool' = rewardPool - accrued
    /\ mutual' = [mutual EXCEPT !.fund = @ + bps(accrued, FeeBps)]
    /\ push(u, accrued - bps(accrued, FeeBps))
    /\ UNCHANGED <<now, pool, lockdrop_vars, presale_vars, members, losses, guarantee>>

file_mutual_loss_claim(u, amount) ==
    /\ u \in members /\ mutual.active /\ Len(losses) < MaxEvents
    /\ losses' = Append(losses, [claimant |-> u, amount |-> amount, for |-> 0, against |-> 0,
                                 endsAt |-> now + mutual.period, voters |-> {}, open |-> TRUE])
    /\ UNCHANGED <<base_vars, lockdrop_vars, presale_vars, mutual, members, guarantee>>

\* Weight is the position at the moment of the vote; voters need not be members.
vote_on_mutual_loss(u, id, approve) ==
    LET e     == losses[id]
        voted == [e EXCEPT !.voters = @ \cup {u}, !.for = @ + IF approve THEN amount_of(u) ELSE 0,
                           !.against = @ + IF approve THEN 0 ELSE amount_of(u)]
    IN  /\ e.open /\ now <= e.endsAt
        /\ shares[u] > 0 /\ u \notin e.voters
        /\ losses' = [losses EXCEPT ![id] = voted]
        /\ UNCHANGED <<base_vars, lockdrop_vars, presale_vars, mutual, members, guarantee>>

resolve_mutual_loss_claim(id) ==
    LET e      == losses[id]
        payout == IF e.for > e.against THEN Min({e.amount, mutual.fund}) ELSE 0
    IN  /\ e.open /\ now > e.endsAt
        /\ mutual' = [mutual EXCEPT !.fund = @ - payout]
        /\ push(e.claimant, payout)
        /\ losses' = [losses EXCEPT ![id] = [e EXCEPT !.open = FALSE]]
        /\ UNCHANGED <<now, pool, rewardPool, lockdrop_vars, presale_vars, members, guarantee>>

MutualNext ==
    \/ \E d \in Durations : enable_mutual_insurance(d)
    \/ disable_mutual_insurance
    \/ \E u \in Users : join_mutual_insurance(u) \/ leave_mutual_insurance(u)
    \/ \E u \in Users, a \in Amounts :
           claim_reward_with_mutual_contribution(u, a) \/ file_mutual_loss_claim(u, a)
    \/ \E id \in DOMAIN losses : \E u \in Users, a \in BOOLEAN : vote_on_mutual_loss(u, id, a)
    \/ \E id \in DOMAIN losses : resolve_mutual_loss_claim(id)

-------------------------------------------------------------------------------
\* insurance.rs: the reserve of the registered guarantor.  Registering again restarts
\* the period and keeps the reserve of the guarantor before.
register_guarantor ==
    /\ guarantee.insolventAt = NoLedger
    /\ guarantee' = [guarantee EXCEPT !.registeredAt = now]
    /\ UNCHANGED <<base_vars, lockdrop_vars, presale_vars, mutual_vars>>

deposit_guarantee(amount) ==
    /\ guarantee.registeredAt # NoLedger
    /\ guarantee.reserve + amount <= PresaleCap     \* model bound
    /\ guarantee' = [guarantee EXCEPT !.reserve = @ + amount]
    /\ UNCHANGED <<base_vars, lockdrop_vars, presale_vars, mutual_vars>>

declare_insolvency ==
    /\ guarantee.insolventAt = NoLedger
    /\ guarantee' = [guarantee EXCEPT !.insolventAt = now]
    /\ UNCHANGED <<base_vars, lockdrop_vars, presale_vars, mutual_vars>>

claim_guarantee(amount) ==
    /\ guarantee.insolventAt # NoLedger /\ guarantee.reserve >= amount
    /\ guarantee' = [guarantee EXCEPT !.reserve = @ - amount]
    /\ UNCHANGED <<base_vars, lockdrop_vars, presale_vars, mutual_vars>>

withdraw_guarantee ==
    /\ guarantee.registeredAt # NoLedger /\ guarantee.insolventAt = NoLedger
    /\ now >= guarantee.registeredAt + SolvencyPeriod
    /\ guarantee.reserve > 0
    /\ guarantee' = [guarantee EXCEPT !.reserve = 0]
    /\ UNCHANGED <<base_vars, lockdrop_vars, presale_vars, mutual_vars>>

GuaranteeNext ==
    \/ register_guarantor \/ declare_insolvency \/ withdraw_guarantee
    \/ \E a \in Amounts : deposit_guarantee(a) \/ claim_guarantee(a)

CampaignTick == tick /\ UNCHANGED <<wallet, held, pool, rewardPool, campaign_vars>>

CampaignNext == LockdropNext \/ PresaleNext \/ MutualNext \/ GuaranteeNext \/ CampaignTick

-------------------------------------------------------------------------------
\* Live locks, the prize of the running campaign, every prize allotted and not claimed, even
\* when its lock was taken out first and nobody can claim it any more, and the mutual fund
\* are covered by tokens beyond the stakers' principal and the reward pool.  The guarantor's
\* reserve is a number behind which no token ever moves, so there is nothing to cover.
campaigns_covered ==
    LET locked == sum([u \in Users |-> commitments[u].amount])
        prizes == (IF lockdrop.status = "open" THEN lockdrop.prize ELSE 0)
                  + sum([u \in Users \ lockdropClaimed |-> allocation[u]])
    IN  held >= totalDeposited + rewardPool + locked + prizes + mutual.fund

===============================================================================
