------------------------------ MODULE VaultAudit -------------------------------
(***************************************************************************)
(* VaultPool watched by an auditor that keeps, next to the contract's own  *)
(* books, the reward dust the staked shares have really earned: every      *)
(* ledger that closes adds RewardRate for each share held during it.       *)
(* Nothing the contract does reads the audit.                              *)
(***************************************************************************)
EXTENDS VaultPool

VARIABLE earned     \* dust earned so far by all shares, ledger by ledger

audit_vars == <<vars, earned>>

AuditInit == Init /\ earned = 0

AuditNext ==
    /\ Next
    /\ earned' = earned
         + (now' - now) * RewardRate * MapThenSumSet(holding, Users)

AuditSpec == AuditInit /\ [][AuditNext]_audit_vars

\* What u could be paid if the position were settled now, in dust.
entitlement(u) == accrued[u] * RewardDivisor + reward_dust(u, holding(u))

\* Nobody is ever credited for ledgers during which the shares were not
\* staked: what was paid and what is still owed, dust included, never exceeds
\* what the shares earned.  accrue_rewards multiplies the whole span since the
\* checkpoint by one share count, so every change of a balance must settle
\* first; a path that forgets to pays a stake for its past.
RewardsEarned ==
    rewardsPaid * RewardDivisor + MapThenSumSet(entitlement, Users) <= earned

===============================================================================
