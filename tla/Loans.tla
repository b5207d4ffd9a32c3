--------------------------------- MODULE Loans ---------------------------------
(***************************************************************************)
(* Loans against a staked position, paid out of the reward pool: borrow up *)
(* to the loan-to-value ceiling, interest, repayment (by hand or out of a  *)
(* claim) and liquidation.  A year has LedgersPerYear ledgers.             *)
(***************************************************************************)
EXTENDS PoolBase

CONSTANTS LoanConfigs,      \* LoanConfig records the admin sets
          LedgersPerYear    \* STELLAR_LEDGERS_PER_YEAR

ASSUME LoanAssumption ==
    LoanConfigs \subseteq [ltv : Nat, rate : Nat] /\ LedgersPerYear \in Nat \ {0}

LIQUIDATION_LTV_BPS == 9000
NoLoan   == [principal |-> 0, interest |-> 0, at |-> NoLedger]
NoConfig == [ltv |-> 0, rate |-> 0]

VARIABLES
    loanConfig,     \* NoConfig until set
    loans,          \* NoLoan or the Loan of each user
    writtenOff      \* debt beyond the position at a liquidation (a history variable)

loan_vars == <<loanConfig, loans, writtenOff>>

LoanInit == loanConfig = NoConfig /\ loans = [u \in Users |-> NoLoan] /\ writtenOff = 0

set_loan_config(c) ==
    /\ loanConfig' = c
    /\ UNCHANGED <<base_vars, loans, writtenOff>>

\* accrue_loan_interest: simple interest on the principal, rounded down; the
\* clock of the loan moves even when the interest of the span rounds to zero.
accrue_loan_interest(l) ==
    IF loanConfig = NoConfig \/ l = NoLoan THEN l
    ELSE [l EXCEPT !.at = now,
                   !.interest = @ + (l.principal * loanConfig.rate * (now - l.at))
                                    \div (BPS_DENOMINATOR * LedgersPerYear)]

debt_of(l) == l.principal + l.interest

\* settle_loan: interest first; a loan paid off is removed.
settle_loan(l, applied) ==
    LET toInterest == Min({applied, l.interest})
        rest == [l EXCEPT !.interest = @ - toInterest,
                          !.principal = Max({@ - (applied - toInterest), 0})]
    IN  IF debt_of(rest) = 0 THEN NoLoan ELSE rest

borrow(u, amount) ==
    LET l == accrue_loan_interest(IF loans[u] = NoLoan
                                  THEN [NoLoan EXCEPT !.at = now] ELSE loans[u])
    IN  /\ loanConfig # NoConfig
        /\ shares[u] > 0
        /\ debt_of(l) + amount <= bps(amount_of(u), loanConfig.ltv)
        /\ rewardPool >= amount
        /\ push(u, amount)
        /\ rewardPool' = rewardPool - amount
        /\ loans' = [loans EXCEPT ![u] = [l EXCEPT !.principal = l.principal + amount]]
        /\ UNCHANGED <<now, pool, loanConfig, writtenOff>>

\* Mutant: the repayment is taken but not returned to the reward pool.
repay_without_pool(u, amount) ==
    LET l == accrue_loan_interest(loans[u])
        applied == Min({amount, debt_of(l)})
    IN  /\ loans[u] # NoLoan
        /\ pull(u, applied)
        /\ loans' = [loans EXCEPT ![u] = settle_loan(l, applied)]
        /\ UNCHANGED <<now, pool, rewardPool, loanConfig, writtenOff>>

repay(u, amount) ==
    LET l == accrue_loan_interest(loans[u])
        applied == Min({amount, debt_of(l)})
    IN  /\ loans[u] # NoLoan
        /\ pull(u, applied)
        /\ rewardPool' = rewardPool + applied
        /\ loans' = [loans EXCEPT ![u] = settle_loan(l, applied)]
        /\ UNCHANGED <<now, pool, loanConfig, writtenOff>>

\* The covered part of the debt moves from the principal to the reward pool, the
\* shares of it are burned, and whatever the position does not cover is forgotten.
liquidate_loan(u) ==
    LET l       == accrue_loan_interest(loans[u])
        covered == Min({debt_of(l), amount_of(u)})
        slashed == Min({amount_to_shares(totalShares, totalDeposited, covered), shares[u]})
    IN  /\ loans[u] # NoLoan
        /\ amount_of(u) > 0
        /\ (debt_of(l) * BPS_DENOMINATOR) \div amount_of(u) >= LIQUIDATION_LTV_BPS
        /\ shares' = [shares EXCEPT ![u] = @ - slashed]
        /\ totalShares' = totalShares - slashed
        /\ totalDeposited' = Max({totalDeposited - covered, 0})
        /\ rewardPool' = rewardPool + covered
        /\ loans' = [loans EXCEPT ![u] = NoLoan]
        /\ writtenOff' = writtenOff + debt_of(l) - covered
        /\ UNCHANGED <<now, wallet, held, loanConfig>>

\* An exit asks nothing about a loan: the collateral can leave before the debt.
unstake_collateral(u) ==
    /\ shares[u] > 0
    /\ push(u, amount_of(u))
    /\ shares' = [shares EXCEPT ![u] = 0]
    /\ totalShares' = totalShares - shares[u]
    /\ totalDeposited' = totalDeposited - amount_of(u)
    /\ UNCHANGED <<now, rewardPool, loan_vars>>

LoanNext ==
    \/ \E c \in LoanConfigs : set_loan_config(c)
    \/ \E u \in Users, a \in Amounts : borrow(u, a) \/ repay(u, a)
    \/ \E u \in Users : liquidate_loan(u) \/ unstake_collateral(u)
    \/ tick /\ UNCHANGED <<wallet, held, pool, rewardPool, loan_vars>>

-------------------------------------------------------------------------------
\* What is in the pool, out on loan and written off together is never less than what
\* the pool started with, and the tokens are principal and pool.
loans_balanced ==
    /\ held = totalDeposited + rewardPool
    /\ rewardPool + sum([u \in Users |-> loans[u].principal]) + writtenOff >= PoolReserve

===============================================================================
