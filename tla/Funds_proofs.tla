------------------------------ MODULE Funds_proofs -----------------------------
(***************************************************************************)
(* Theorems about the features that hold other people's tokens, for every  *)
(* value of the constants.  Each feature has an inductive invariant of its *)
(* own: the books of the pool (PoolBase_proofs), the types of the feature's*)
(* storage and the balance the property states.  Here: loans, contests,    *)
(* sealed auctions, campaigns, distributions and the limits on exits.      *)
(***************************************************************************)
EXTENDS MCFunds, PoolBase_proofs, TLAPS

funds_vars == <<base_vars, auction_vars, market_vars, contest_vars,
                campaign_vars, loan_vars, claim_vars, sub_vars, position_vars, strategy_vars, mirror_vars,
                ballot_vars, safeguard_vars, wind_vars, distribution_vars, focus>>

-------------------------------------------------------------------------------
(* Loans. *)

\* In the focus of the loans only their own entry points run.
LEMMA LoanStep ==
    ASSUME focus = "loans", [FundsNext]_funds_vars
    PROVE  UNCHANGED focus /\ (LoanNext \/ UNCHANGED <<base_vars, loan_vars>>)
  BY DEF FundsNext, funds_vars, capacity_step, market_step, contest_step, campaign_step, claim_step,
         subpool_step, position_step, outside_step, ballot_step, safeguard_step, wind_step, shared_step

\* The smaller and the larger of two numbers.
LEMMA MinMax ==
    ASSUME NEW x \in Int, NEW y \in Int
    PROVE  Min({x, y}) = (IF x <= y THEN x ELSE y) /\ Max({x, y}) = (IF x >= y THEN x ELSE y)
  <1>1. x <= y \/ y <= x
    OBVIOUS
  <1>2. Min({x, y}) = (IF x <= y THEN x ELSE y)
    BY <1>1 DEF Min
  <1>3. Max({x, y}) = (IF x >= y THEN x ELSE y)
    BY <1>1 DEF Max
  <1> QED BY <1>2, <1>3

\* A loan, and one that is outstanding: its clock is a ledger of the past.
Loan == [principal : Nat, interest : Nat, at : Int]
live(l, t) == l # NoLoan => l.at \in 0..t

\* What is out on loan.
lent_out == sum([u \in Users |-> loans[u].principal])

LoanTyped ==
    /\ Books
    /\ loanConfig \in LoanConfigs \cup {NoConfig}
    /\ loans \in [Users -> Loan] /\ \A u \in Users : live(loans[u], now)
    /\ writtenOff \in Nat

LoanBooks ==
    /\ LoanTyped
    /\ held = totalDeposited + rewardPool
    /\ rewardPool + lent_out + writtenOff >= PoolReserve

\* What an entry point of the loans does to the books, whatever else the contract holds:
\* the tokens beyond principal and pool stay, and what is lent, back or written off.
loans_kept ==
    /\ LoanTyped'
    /\ held' - totalDeposited' - rewardPool' = held - totalDeposited - rewardPool
    /\ rewardPool' + lent_out' + writtenOff' >= rewardPool + lent_out + writtenOff

LoanInv == focus = "loans" => LoanBooks

\* Nothing is lent at the start.
LEMMA LoanInvInit == FundsInit => LoanInv
  <1> SUFFICES ASSUME FundsInit PROVE LoanBooks
    BY DEF LoanInv
  <1>1. BaseInitWith(Purse) /\ LoanInit /\ Purse \in Nat
    BY BaseAssumption DEF FundsInit, BaseInit
  <1>2. Books /\ held = totalDeposited + rewardPool /\ rewardPool = PoolReserve
    BY <1>1, BooksInit, BaseInitFacts DEF BaseInitWith
  <1>3. NoLoan \in Loan /\ live(NoLoan, now) /\ NoLoan.principal = 0
    BY DEF NoLoan, Loan, live, NoLedger
  <1>4. loans \in [Users -> Loan] /\ \A u \in Users : loans[u] = NoLoan
    BY <1>1, <1>3 DEF LoanInit
  <1> DEFINE f == [u \in Users |-> loans[u].principal]
  <1>5. IsFiniteSet(Users) /\ f \in [Users -> Int] /\ \A u \in Users : f[u] = 0
    BY <1>3, <1>4, BaseAssumption
  <1>6. lent_out = sum(f)
    BY DEF lent_out
  <1> HIDE DEF f
  <1>7. sum(f) = 0
    BY ONLY <1>5, SumZero
  <1> QED BY <1>1, <1>2, <1>3, <1>4, <1>6, <1>7, BaseAssumption DEF LoanBooks, LoanTyped, LoanInit

\* One loan changes: what is lent changes by the difference of its principals.
LEMMA LentChange ==
    ASSUME loans \in [Users -> Loan], NEW u \in Users, NEW l \in Loan, loans' = [loans EXCEPT ![u] = l]
    PROVE  /\ loans' \in [Users -> Loan]
           /\ lent_out \in Int /\ lent_out' \in Int /\ lent_out' = lent_out + l.principal - loans[u].principal
  <1> DEFINE f == [v \in Users |-> loans[v].principal]
             g == [v \in Users |-> loans'[v].principal]
  <1>1. loans' \in [Users -> Loan] /\ loans'[u] = l /\ \A v \in Users \ {u} : loans'[v] = loans[v]
    OBVIOUS
  <1>2. \A x \in Loan : x.principal \in Int
    BY DEF Loan
  <1>3. f \in [Users -> Int] /\ g \in [Users -> Int] /\ IsFiniteSet(Users)
    BY <1>1, <1>2, BaseAssumption
  <1>4. g[u] = l.principal /\ f[u] = loans[u].principal /\ \A v \in Users \ {u} : g[v] = f[v]
    BY <1>1
  <1>5. lent_out = sum(f) /\ lent_out' = sum(g)
    BY DEF lent_out
  <1> HIDE DEF f, g
  <1>6. sum(g) = sum(f) + g[u] - f[u]
    BY ONLY <1>3, <1>4, SumChange, u \in Users
  <1>7. sum(f) \in Int /\ sum(g) \in Int
    BY ONLY <1>3, SumType
  <1> QED BY <1>1, <1>4, <1>5, <1>6, <1>7

\* Interest only adds to the debt, and only to its interest.
LEMMA InterestAdds ==
    ASSUME LoanTyped, NEW l \in Loan, live(l, now)
    PROVE  /\ accrue_loan_interest(l) \in Loan /\ live(accrue_loan_interest(l), now)
           /\ accrue_loan_interest(l).principal = l.principal
           /\ l = NoLoan => accrue_loan_interest(l) = l
  <1>1. CASE loanConfig = NoConfig \/ l = NoLoan
    BY <1>1 DEF accrue_loan_interest
  <1>2. CASE loanConfig # NoConfig /\ l # NoLoan
    <2>1. l.principal \in Nat /\ l.interest \in Nat /\ loanConfig.rate \in Nat /\ now - l.at \in Nat /\ now \in Nat
      BY <1>2, LoanAssumption DEF LoanTyped, Loan, live, Books
    <2> DEFINE p == l.principal * loanConfig.rate
               q == p * (now - l.at)
               d == BPS_DENOMINATOR * LedgersPerYear
               i == l.interest + (q \div d)
    <2>2. p \in Nat
      BY <2>1, MulNat
    <2>3. q \in Nat
      <3> HIDE DEF p
      <3> QED BY <2>1, <2>2, MulNat
    <2>4. d \in Nat \ {0}
      BY LoanAssumption DEF BPS_DENOMINATOR
    <2>5. i \in Nat
      <3> HIDE DEF q, d
      <3>1. q \div d \in Nat
        BY <2>3, <2>4, DivNat
      <3> QED BY <2>1, <3>1
    <2>6. accrue_loan_interest(l) = [l EXCEPT !.at = now, !.interest = i]
      BY <1>2 DEF accrue_loan_interest
    <2> HIDE DEF i
    <2> DEFINE x == [l EXCEPT !.at = now, !.interest = i]
    <2>7. x \in Loan /\ x.principal = l.principal /\ x.at = now
      <3> DEFINE m == [l EXCEPT !.at = now]
                 y == [m EXCEPT !.interest = i]
      <3>1. m \in Loan /\ m.principal = l.principal /\ m.at = now
        BY <2>1 DEF Loan
      <3>2. y = x
        OBVIOUS
      <3> HIDE DEF m
      <3>3. y \in Loan /\ y.principal = m.principal /\ y.at = m.at
        BY ONLY <3>1, <2>5 DEF Loan
      <3> HIDE DEF y, x
      <3> QED BY <3>1, <3>2, <3>3
    <2>8. live(x, now)
      BY <2>1, <2>7 DEF live
    <2> QED BY <1>2, <2>6, <2>7, <2>8
  <1> QED BY <1>1, <1>2

\* Interest is paid before principal, and a payment takes no more principal than it is.
LEMMA SettleBound ==
    ASSUME NEW l \in Loan, NEW paid \in Nat, paid <= debt_of(l), l # NoLoan, l.at \in 0..now
    PROVE  /\ settle_loan(l, paid) \in Loan /\ live(settle_loan(l, paid), now)
           /\ settle_loan(l, paid).principal >= l.principal - paid
  <1>1. l.principal \in Nat /\ l.interest \in Nat
    BY DEF Loan
  <1> DEFINE toInterest == Min({paid, l.interest})
             i == l.interest - toInterest
             x == l.principal - (paid - toInterest)
             p == Max({x, 0})
             rest == [l EXCEPT !.interest = i, !.principal = p]
  <1>2. toInterest = IF paid <= l.interest THEN paid ELSE l.interest
    BY <1>1, MinMax
  <1>3. i \in Nat /\ x \in Nat /\ x >= l.principal - paid
    BY <1>1, <1>2 DEF debt_of
  <1>4. p = x
    <2> HIDE DEF x
    <2>1. x \in Int /\ 0 \in Int /\ x >= 0
      BY ONLY <1>3
    <2> QED BY ONLY <2>1, MinMax
  <1>5. settle_loan(l, paid) = IF debt_of(rest) = 0 THEN NoLoan ELSE rest
    BY DEF settle_loan
  <1> HIDE DEF i, p, x
  <1>6. rest \in Loan /\ rest.principal = p /\ rest.interest = i /\ rest.at = l.at
    BY <1>3, <1>4 DEF Loan
  <1>7. NoLoan \in Loan /\ live(NoLoan, now) /\ NoLoan.principal = 0
    BY DEF NoLoan, Loan, live, NoLedger
  <1>8. live(rest, now)
    BY <1>6 DEF live
  <1>9. debt_of(rest) = 0 => p = 0
    BY <1>3, <1>4, <1>6 DEF debt_of
  <1> HIDE DEF rest
  <1> QED BY <1>1, <1>3, <1>4, <1>5, <1>6, <1>7, <1>8, <1>9

\* A loan is paid out of the reward pool and its principal counted.
LEMMA BorrowKeeps ==
    ASSUME LoanTyped, NEW u \in Users, NEW a \in Nat, borrow(u, a)
    PROVE  loans_kept
  <1> DEFINE l0 == IF loans[u] = NoLoan THEN [NoLoan EXCEPT !.at = now] ELSE loans[u]
             l == accrue_loan_interest(l0)
             n == [l EXCEPT !.principal = @ + a]
  <1>1. /\ Books /\ loans \in [Users -> Loan] /\ loans[u] \in Loan /\ live(loans[u], now) /\ a \in Nat /\ u \in Accounts
        /\ wallet \in [Accounts -> Nat] /\ held \in Int /\ rewardPool \in Nat /\ totalDeposited \in Nat /\ now \in Nat
    BY BaseAssumption DEF LoanTyped, Books, Accounts
  <1>2. l0 \in Loan /\ live(l0, now) /\ l0.principal = loans[u].principal /\ l0 # NoLoan
    <2>1. NoLoan \in Loan /\ NoLoan.principal = 0 /\ NoLoan.at = -1
      BY DEF NoLoan, Loan, NoLedger
    <2> DEFINE x == [NoLoan EXCEPT !.at = now]
    <2>2. x \in Loan /\ x.principal = 0 /\ x.at = now
      BY <1>1, <2>1 DEF Loan
    <2> HIDE DEF x
    <2>3. live(x, now) /\ x # NoLoan
      BY <1>1, <2>1, <2>2 DEF live
    <2> QED BY <1>1, <2>1, <2>2, <2>3 DEF x
  <1> HIDE DEF l0
  <1>3. l \in Loan /\ live(l, now) /\ l.principal = loans[u].principal /\ (l = NoLoan => FALSE)
    <2>1. l = NoLoan => l0 = NoLoan
      <3>1. l0.at \in 0..now /\ now \in Nat
        BY <1>1, <1>2 DEF live
      <3>2. NoLoan.at = -1
        BY DEF NoLoan, NoLedger
      <3>3. l = l0 \/ l.at = now
        BY <1>1, <1>2 DEF accrue_loan_interest, Loan
      <3> QED BY <3>1, <3>2, <3>3
    <2> QED BY <1>2, <2>1, InterestAdds
  <1>4. /\ push(u, a) /\ rewardPool' = rewardPool - a /\ rewardPool >= a
        /\ loans' = [loans EXCEPT ![u] = n]
        /\ UNCHANGED <<now, pool, loanConfig, writtenOff>>
    BY DEF borrow, l0
  <1> HIDE DEF l
  <1> DEFINE s == l.principal + a
  <1>5. l.principal \in Nat /\ s \in Nat /\ n = [l EXCEPT !.principal = s]
    BY <1>1, <1>3 DEF Loan
  <1> HIDE DEF s
  <1>6. n \in Loan /\ n.principal = s /\ n.at = l.at
    BY ONLY <1>3, <1>5 DEF Loan
  <1>7. live(n, now')
    BY <1>3, <1>4, <1>6 DEF live
  <1> HIDE DEF n
  <1>8. loans' \in [Users -> Loan] /\ lent_out \in Int /\ lent_out' \in Int /\ lent_out' = lent_out + s - loans[u].principal
    BY ONLY <1>1, <1>4, <1>6, LentChange, u \in Users
  <1>9. \A v \in Users : live(loans'[v], now')
    BY <1>1, <1>4, <1>7 DEF live, LoanTyped
  <1>10. wallet' \in [Accounts -> Nat] /\ held' \in Int /\ held' = held - a
    BY <1>1, <1>4, PushTyped
  <1>11. Books' /\ held' - totalDeposited' - rewardPool' = held - totalDeposited - rewardPool
    <2>1. Books' /\ totalDeposited' = totalDeposited
      BY <1>1, <1>4, <1>10 DEF Books, pool
    <2> QED BY <1>1, <1>4, <1>10, <2>1
  <1>12. lent_out' = lent_out + a
    BY <1>1, <1>3, <1>5, <1>8 DEF s
  <1>13. rewardPool' + lent_out' + writtenOff' >= rewardPool + lent_out + writtenOff
    <2>1. writtenOff \in Nat /\ writtenOff' = writtenOff
      BY <1>4 DEF LoanTyped
    <2> QED BY <1>1, <1>4, <1>8, <1>12, <2>1
  <1>14. LoanTyped'
    BY <1>4, <1>8, <1>9, <1>11 DEF LoanTyped
  <1> QED BY <1>11, <1>13, <1>14 DEF loans_kept

\* A repayment goes to the reward pool, interest before principal.
LEMMA RepayKeeps ==
    ASSUME LoanTyped, NEW u \in Users, NEW a \in Nat, repay(u, a)
    PROVE  loans_kept
  <1> DEFINE l == accrue_loan_interest(loans[u])
             applied == Min({a, debt_of(l)})
             n == settle_loan(l, applied)
  <1>1. /\ Books /\ loans \in [Users -> Loan] /\ loans[u] \in Loan /\ live(loans[u], now) /\ a \in Nat /\ u \in Accounts
        /\ wallet \in [Accounts -> Nat] /\ held \in Int /\ rewardPool \in Nat /\ totalDeposited \in Nat /\ now \in Nat
    BY BaseAssumption DEF LoanTyped, Books, Accounts
  <1>2. loans[u] # NoLoan /\ loans[u].at \in 0..now
    BY <1>1 DEF repay, live
  <1>3. l \in Loan /\ live(l, now) /\ l.principal = loans[u].principal
    BY <1>1, InterestAdds
  <1>4. l # NoLoan /\ l.at \in 0..now
    <2>1. NoLoan.at = -1
      BY DEF NoLoan, NoLedger
    <2>2. l = loans[u] \/ l.at = now
      BY <1>1 DEF accrue_loan_interest, Loan
    <2> QED BY <1>1, <1>2, <2>1, <2>2
  <1>5. /\ pull(u, applied) /\ rewardPool' = rewardPool + applied
        /\ loans' = [loans EXCEPT ![u] = n]
        /\ UNCHANGED <<now, pool, loanConfig, writtenOff>>
    BY DEF repay
  <1> HIDE DEF l
  <1>6. debt_of(l) \in Nat /\ applied \in Nat /\ applied <= debt_of(l)
    <2>1. debt_of(l) \in Nat
      BY <1>3 DEF debt_of, Loan
    <2> QED BY <1>1, <2>1, MinMax
  <1> HIDE DEF applied
  <1>7. n \in Loan /\ live(n, now) /\ n.principal >= l.principal - applied
    BY <1>3, <1>4, <1>6, SettleBound
  <1> HIDE DEF n
  <1>8. loans' \in [Users -> Loan] /\ lent_out \in Int /\ lent_out' \in Int /\ lent_out' = lent_out + n.principal - loans[u].principal
    BY ONLY <1>1, <1>5, <1>7, LentChange, u \in Users
  <1>9. \A v \in Users : live(loans'[v], now')
    BY <1>1, <1>5, <1>7 DEF live, LoanTyped
  <1>10. wallet' \in [Accounts -> Nat] /\ held' \in Int /\ held' = held + applied
    BY <1>1, <1>5, <1>6, PullTyped
  <1>11. Books' /\ held' - totalDeposited' - rewardPool' = held - totalDeposited - rewardPool
    <2>1. Books' /\ totalDeposited' = totalDeposited
      BY <1>1, <1>5, <1>6, <1>10 DEF Books, pool
    <2> QED BY <1>1, <1>5, <1>6, <1>10, <2>1
  <1>12. lent_out' >= lent_out - applied
    <2>1. n.principal \in Nat /\ l.principal \in Nat
      BY <1>3, <1>7 DEF Loan
    <2> QED BY <1>3, <1>6, <1>7, <1>8, <2>1
  <1>13. rewardPool' + lent_out' + writtenOff' >= rewardPool + lent_out + writtenOff
    <2>1. writtenOff \in Nat /\ writtenOff' = writtenOff
      BY <1>5 DEF LoanTyped
    <2> QED BY <1>1, <1>5, <1>6, <1>8, <1>12, <2>1
  <1>14. LoanTyped'
    BY <1>5, <1>8, <1>9, <1>11 DEF LoanTyped
  <1> QED BY <1>11, <1>13, <1>14 DEF loans_kept

\* A liquidation moves what the position covers to the pool and writes off the rest.
LEMMA LiquidateKeeps ==
    ASSUME LoanTyped, NEW u \in Users, liquidate_loan(u)
    PROVE  loans_kept
  <1> DEFINE l       == accrue_loan_interest(loans[u])
             covered == Min({debt_of(l), amount_of(u)})
             worth   == amount_to_shares(totalShares, totalDeposited, covered)
             slashed == Min({worth, shares[u]})
  <1>1. /\ Books /\ loans \in [Users -> Loan] /\ loans[u] \in Loan /\ live(loans[u], now) /\ u \in Accounts
        /\ wallet \in [Accounts -> Nat] /\ held \in Int /\ rewardPool \in Nat /\ totalDeposited \in Nat /\ now \in Nat
        /\ writtenOff \in Nat
    BY BaseAssumption DEF LoanTyped, Books, Accounts
  <1>2. l \in Loan /\ l.principal = loans[u].principal
    BY <1>1, InterestAdds
  <1>3. /\ shares' = [shares EXCEPT ![u] = @ - slashed]
        /\ totalShares' = totalShares - slashed
        /\ totalDeposited' = Max({totalDeposited - covered, 0})
        /\ rewardPool' = rewardPool + covered
        /\ loans' = [loans EXCEPT ![u] = NoLoan]
        /\ writtenOff' = writtenOff + debt_of(l) - covered
        /\ UNCHANGED <<now, wallet, held, loanConfig>>
    BY DEF liquidate_loan
  <1> HIDE DEF l
  <1>4. /\ debt_of(l) \in Nat /\ debt_of(l) >= loans[u].principal /\ amount_of(u) \in 0..totalDeposited
        /\ shares[u] \in Nat /\ totalShares \in Nat
    BY <1>1, <1>2, AmountBound, BooksTotal DEF debt_of, Loan, Books
  <1>5. covered \in Nat /\ covered <= totalDeposited /\ covered <= debt_of(l)
    BY <1>1, <1>4, MinMax
  <1> HIDE DEF covered
  <1>6. worth \in Nat
    BY <1>1, <1>4, <1>5, MintDefaultNat
  <1> HIDE DEF worth
  <1>7. slashed \in Nat /\ slashed <= shares[u]
    BY <1>4, <1>6, MinMax
  <1> HIDE DEF slashed
  <1>8. shares' \in [Users -> Nat] /\ totalShares' = sum(shares')
    <2> DEFINE m == shares[u] - slashed
    <2>1. m \in Nat /\ shares' = [shares EXCEPT ![u] = m] /\ totalShares' = totalShares + m - shares[u]
      BY <1>3, <1>4, <1>7
    <2> HIDE DEF m
    <2> QED BY <1>1, <2>1, ShareWrite
  <1>9. totalDeposited' = totalDeposited - covered
    <2> DEFINE d == totalDeposited - covered
    <2>1. d \in Int /\ d >= 0 /\ 0 \in Int
      BY <1>1, <1>5
    <2>2. totalDeposited' = Max({d, 0})
      BY <1>3
    <2> HIDE DEF d
    <2>3. Max({d, 0}) = d
      BY ONLY <2>1, MinMax
    <2> QED BY <2>2, <2>3 DEF d
  <1>10. NoLoan \in Loan /\ NoLoan.principal = 0 /\ live(NoLoan, now')
    BY DEF NoLoan, Loan, live, NoLedger
  <1>11. loans' \in [Users -> Loan] /\ lent_out \in Int /\ lent_out' \in Int /\ lent_out' = lent_out + NoLoan.principal - loans[u].principal
    BY ONLY <1>1, <1>3, <1>10, LentChange, u \in Users
  <1>12. \A v \in Users : live(loans'[v], now')
    BY <1>1, <1>3, <1>10 DEF live, LoanTyped
  <1>13. Books' /\ held' - totalDeposited' - rewardPool' = held - totalDeposited - rewardPool
    <2>1. Books'
      BY <1>1, <1>3, <1>5, <1>8, <1>9 DEF Books
    <2> QED BY <1>1, <1>3, <1>5, <1>9, <2>1
  <1>14. writtenOff' \in Nat /\ rewardPool' + lent_out' + writtenOff' >= rewardPool + lent_out + writtenOff
    <2>1. loans[u].principal \in Nat
      BY <1>1 DEF Loan
    <2> QED BY <1>1, <1>3, <1>4, <1>5, <1>10, <1>11, <2>1
  <1>15. LoanTyped'
    BY <1>3, <1>11, <1>12, <1>13, <1>14 DEF LoanTyped
  <1> QED BY <1>13, <1>14, <1>15 DEF loans_kept

\* The settings, an exit under a loan, and time.
LEMMA LoanOthersKeep ==
    ASSUME LoanTyped,
           \/ \E c \in LoanConfigs : set_loan_config(c)
           \/ \E u \in Users : unstake_collateral(u)
           \/ tick /\ UNCHANGED <<wallet, held, pool, rewardPool, loan_vars>>
           \/ UNCHANGED <<base_vars, loan_vars>>
    PROVE  loans_kept
  <1>1. /\ Books /\ totalDeposited \in Nat /\ rewardPool \in Nat /\ wallet \in [Accounts -> Nat] /\ held \in Int
        /\ loans \in [Users -> Loan] /\ writtenOff \in Nat
    BY DEF LoanTyped, Books
  <1>2. lent_out \in Int
    <2> DEFINE f == [v \in Users |-> loans[v].principal]
    <2>1. \A x \in Loan : x.principal \in Int
      BY DEF Loan
    <2>2. f \in [Users -> Int] /\ IsFiniteSet(Users)
      BY <1>1, <2>1, BaseAssumption
    <2>3. lent_out = sum(f)
      BY DEF lent_out
    <2> HIDE DEF f
    <2>4. sum(f) \in Int
      BY ONLY <2>2, SumType
    <2> QED BY <2>3, <2>4
  <1>3. ASSUME Books', loanConfig' \in LoanConfigs \cup {NoConfig}, loans' = loans, writtenOff' = writtenOff, rewardPool' = rewardPool,
               held' - totalDeposited' - rewardPool' = held - totalDeposited - rewardPool, now' >= now
        PROVE  loans_kept
    <2>1. lent_out' = lent_out
      BY <1>3 DEF lent_out
    <2>2. rewardPool' + lent_out' + writtenOff' >= rewardPool + lent_out + writtenOff
      BY <1>1, <1>2, <1>3, <2>1
    <2>3. \A u \in Users : live(loans'[u], now')
      <3>1. now \in Nat /\ now' \in Nat
        BY <1>1, <1>3 DEF Books
      <3> QED BY <1>3, <3>1 DEF LoanTyped, live
    <2>4. LoanTyped'
      BY <1>1, <1>3, <2>3 DEF LoanTyped
    <2> QED BY <1>3, <2>2, <2>4 DEF loans_kept
  <1>4. now \in Nat /\ now >= now
    BY <1>1 DEF Books
  <1>5. CASE UNCHANGED <<base_vars, loan_vars>> \/ \E c \in LoanConfigs : set_loan_config(c)
    <2>1. Books' /\ UNCHANGED <<held, totalDeposited, rewardPool, now, loans, writtenOff>>
      BY <1>1, <1>5 DEF Books, base_vars, pool, loan_vars, set_loan_config
    <2>2. loanConfig' \in LoanConfigs \cup {NoConfig}
      BY <1>5 DEF LoanTyped, set_loan_config, loan_vars
    <2> QED BY <1>1, <1>3, <1>4, <2>1, <2>2
  <1>6. ASSUME NEW u \in Users, unstake_collateral(u) PROVE loans_kept
    <2>1. amount_of(u) \in 0..totalDeposited /\ u \in Accounts
      BY <1>1, AmountBound DEF Accounts
    <2>2. wallet' \in [Accounts -> Nat] /\ held' \in Int /\ held' = held - amount_of(u)
      BY <1>1, <1>6, <2>1, PushTyped DEF unstake_collateral
    <2>3. /\ shares' \in [Users -> Nat] /\ totalShares' = sum(shares') /\ totalDeposited' \in Nat
          /\ totalDeposited' = totalDeposited - amount_of(u)
      BY <1>1, <1>6, ExitKeeps DEF unstake_collateral
    <2>4. UNCHANGED <<now, rewardPool, loanConfig, loans, writtenOff>>
      BY <1>6 DEF unstake_collateral, loan_vars
    <2>5. Books' /\ held' - totalDeposited' - rewardPool' = held - totalDeposited - rewardPool
      <3>1. Books'
        BY <1>1, <2>2, <2>3, <2>4 DEF Books
      <3> DEFINE n == amount_of(u)
      <3>2. n \in Int /\ held' = held - n /\ totalDeposited' = totalDeposited - n
        BY <2>1, <2>2, <2>3
      <3> HIDE DEF n
      <3> QED BY <1>1, <2>4, <3>1, <3>2
    <2>6. loanConfig' \in LoanConfigs \cup {NoConfig} /\ now' >= now
      BY <1>4, <2>4 DEF LoanTyped
    <2> QED BY <1>3, <2>4, <2>5, <2>6
  <1>7. CASE tick /\ UNCHANGED <<wallet, held, pool, rewardPool, loan_vars>>
    <2>1. now' \in Nat /\ now' >= now
      BY <1>4, <1>7, TickNat
    <2>2. Books' /\ UNCHANGED <<held, totalDeposited, rewardPool, loanConfig, loans, writtenOff>>
      BY <1>1, <1>7, <2>1 DEF Books, pool, loan_vars
    <2>3. loanConfig' \in LoanConfigs \cup {NoConfig}
      BY <2>2 DEF LoanTyped
    <2> QED BY <1>1, <1>3, <2>1, <2>2, <2>3
  <1> QED BY <1>5, <1>6, <1>7

\* Every step keeps the loans in balance.
LEMMA LoanInvStep ==
    ASSUME LoanInv, [FundsNext]_funds_vars
    PROVE  LoanInv'
  <1>1. CASE focus # "loans"
    BY <1>1 DEF LoanInv, FundsNext, funds_vars
  <1>2. CASE focus = "loans"
    <2>1. LoanBooks /\ UNCHANGED focus /\ (LoanNext \/ UNCHANGED <<base_vars, loan_vars>>)
      BY <1>2, LoanStep DEF LoanInv
    <2> SUFFICES LoanBooks'
      BY DEF LoanInv
    <2>2. loans_kept
      <3>1. Amounts \subseteq Nat
        BY BaseAssumption
      <3> QED BY <2>1, <3>1, BorrowKeeps, RepayKeeps, LiquidateKeeps, LoanOthersKeep DEF LoanNext, LoanBooks
    <2> DEFINE a == held'   b == totalDeposited'   c == rewardPool'
    <2>3. a \in Int /\ b \in Int /\ c \in Int /\ LoanTyped'
      BY <2>2 DEF loans_kept, LoanTyped, Books
    <2>4. held \in Int /\ totalDeposited \in Int /\ rewardPool \in Int /\ held = totalDeposited + rewardPool
      BY <2>1 DEF LoanBooks, LoanTyped, Books
    <2>5. a - b - c = held - totalDeposited - rewardPool
      BY <2>2 DEF loans_kept
    <2>6. rewardPool' + lent_out' + writtenOff' >= PoolReserve
      <3> DEFINE x == rewardPool' + lent_out' + writtenOff'   y == rewardPool + lent_out + writtenOff
      <3>1. x >= y /\ y >= PoolReserve /\ PoolReserve \in Int
        BY <2>1, <2>2, BaseAssumption DEF loans_kept, LoanBooks
      <3>2. x \in Int /\ y \in Int
        <4>1. ASSUME NEW f \in [Users -> Loan] PROVE sum([v \in Users |-> f[v].principal]) \in Int
          <5> DEFINE g == [v \in Users |-> f[v].principal]
          <5>1. \A z \in Loan : z.principal \in Int
            BY DEF Loan
          <5>2. g \in [Users -> Int] /\ IsFiniteSet(Users)
            BY <5>1, BaseAssumption
          <5> HIDE DEF g
          <5>3. sum(g) \in Int
            BY ONLY <5>2, SumType
          <5> QED BY <5>3 DEF g
        <4>2. lent_out \in Int /\ writtenOff \in Int
          BY <2>1, <4>1 DEF lent_out, LoanBooks, LoanTyped
        <4>3. lent_out' \in Int /\ writtenOff' \in Int
          BY <2>3, <4>1 DEF lent_out, LoanTyped
        <4> QED BY <2>3, <2>4, <4>2, <4>3
      <3> HIDE DEF x, y
      <3>3. x >= PoolReserve
        BY ONLY <3>1, <3>2
      <3> QED BY <3>3 DEF x
    <2> HIDE DEF a, b, c
    <2>7. a = b + c
      BY ONLY <2>3, <2>4, <2>5
    <2> QED BY <2>3, <2>6, <2>7 DEF LoanBooks, a, b, c
  <1> QED BY <1>1, <1>2

\* Loans: whatever is borrowed, accrued, repaid, liquidated or exited under a loan, at any
\* loan-to-value, interest rate and share price, the tokens are principal and reward pool,
\* and what the pool lent is back, owed or written off by a liquidation.
THEOREM LoansAreBalanced == FundsSpec => []LoansRepaidOrOwed
  <1>1. LoanInv => LoansRepaidOrOwed
    BY DEF LoanInv, LoanBooks, LoansRepaidOrOwed, loans_balanced, lent_out
  <1>2. LoanInv /\ [FundsNext]_funds_vars => LoanInv'
    BY LoanInvStep
  <1> QED BY <1>1, <1>2, LoanInvInit, PTL DEF FundsSpec, funds_vars

-------------------------------------------------------------------------------
(* Contests. *)

\* In the focus of a contest only its own entry points run.
LEMMA ContestStep ==
    ASSUME focus \in {"prediction", "prizes"}, [FundsNext]_funds_vars
    PROVE  UNCHANGED focus /\ (ContestNext \/ UNCHANGED <<base_vars, contest_vars>>)
  BY DEF FundsNext, funds_vars, capacity_step, market_step, contest_step, campaign_step, claim_step,
         subpool_step, position_step, outside_step, ballot_step, safeguard_step, wind_step, shared_step,
         ContestNext

Bet == [higher : BOOLEAN, amount : Nat]
Market == [status : {"none", "open", "resolved"}, closesAt : Int, target : Int, rate : Rates \cup {0},
           higher : Nat, lower : Nat, outcome : {"none", "tie", "higher", "lower"}]
Prize == [status : {"none", "open", "finalized"}, prize : Nat, endsAt : Int]
Draw == [status : {"none", "open", "drawn"}, prize : Nat, drawAt : Int]

\* What a bet is worth in a market, the recorded bets on each side, and what each user is
\* due once the market is resolved.
worth(m, b) ==
    IF m.outcome = "tie" THEN b.amount
    ELSE IF m.outcome = (IF b.higher THEN "higher" ELSE "lower")
    THEN b.amount + (b.amount * (IF b.higher THEN m.lower ELSE m.higher))
                    \div (IF b.higher THEN m.higher ELSE m.lower)
    ELSE 0
on_higher(bs) == [u \in Users |-> IF bs[u].higher THEN bs[u].amount ELSE 0]
on_lower(bs)  == [u \in Users |-> IF bs[u].higher THEN 0 ELSE bs[u].amount]
won_by(m, bs) == [u \in Users |-> IF bs[u] = NoBet THEN 0 ELSE worth(m, bs[u])]

\* Every recorded bet is of some amount, and is in the pots.
in_pots(m, bs) ==
    /\ m \in Market /\ bs \in [Users -> Bet]
    /\ \A u \in Users : bs[u] # NoBet => bs[u].amount > 0
    /\ sum(on_higher(bs)) <= m.higher /\ sum(on_lower(bs)) <= m.lower

\* What the contract owes to the market, and the prizes of the open contests.
market_owes == IF market.status = "resolved" THEN sum(won_by(market, bets)) ELSE market.higher + market.lower
prizes_owed == (IF tournament.status = "open" THEN tournament.prize ELSE 0)
               + (IF lottery.status = "open" THEN lottery.prize ELSE 0)

ContestBooks ==
    /\ Books
    /\ rate \in Rates /\ in_pots(market, bets)
    /\ tournament \in Prize /\ lottery \in Draw /\ entrants \in Seq(Users)
    /\ held >= totalDeposited + rewardPool + market_owes + prizes_owed

ContestInv == focus \in {"prediction", "prizes"} => ContestBooks

\* What was bet on either side is a natural number.
LEMMA PotsTyped ==
    ASSUME NEW bs \in [Users -> Bet]
    PROVE  /\ on_higher(bs) \in [Users -> Nat] /\ on_lower(bs) \in [Users -> Nat]
           /\ on_higher(bs) \in [Users -> Int] /\ on_lower(bs) \in [Users -> Int]
           /\ sum(on_higher(bs)) \in Nat /\ sum(on_lower(bs)) \in Nat
  <1> DEFINE f == on_higher(bs)   g == on_lower(bs)
  <1>1. IsFiniteSet(Users) /\ f \in [Users -> Nat] /\ g \in [Users -> Nat]
    BY BaseAssumption DEF Bet, on_higher, on_lower
  <1> HIDE DEF f, g
  <1>2. sum(f) \in Nat /\ sum(g) \in Nat
    BY ONLY <1>1, SumNat
  <1>3. f \in [Users -> Int] /\ g \in [Users -> Int]
    BY <1>1
  <1> QED BY <1>1, <1>2, <1>3 DEF f, g

\* No bet exceeds the pot it is in.
LEMMA BetBound ==
    ASSUME NEW m, NEW bs, in_pots(m, bs), NEW u \in Users
    PROVE  /\ m.higher \in Nat /\ m.lower \in Nat /\ bs[u].amount \in Nat
           /\ bs[u].amount <= IF bs[u].higher THEN m.higher ELSE m.lower
  <1>1. /\ m.higher \in Nat /\ m.lower \in Nat /\ bs[u].amount \in Nat /\ bs[u].higher \in BOOLEAN
        /\ sum(on_higher(bs)) <= m.higher /\ sum(on_lower(bs)) <= m.lower
    BY DEF in_pots, Market, Bet
  <1> DEFINE f == on_higher(bs)   g == on_lower(bs)
  <1>2. IsFiniteSet(Users) /\ f \in [Users -> Nat] /\ g \in [Users -> Nat] /\ sum(f) \in Nat /\ sum(g) \in Nat
    BY BaseAssumption, PotsTyped DEF in_pots
  <1>3. /\ f[u] = (IF bs[u].higher THEN bs[u].amount ELSE 0)
        /\ g[u] = (IF bs[u].higher THEN 0 ELSE bs[u].amount)
    BY DEF on_higher, on_lower
  <1> HIDE DEF f, g
  <1>4. f[u] <= sum(f) /\ g[u] <= sum(g)
    BY ONLY <1>2, SumBound, u \in Users
  <1>5. sum(f) <= m.higher /\ sum(g) <= m.lower
    BY <1>1 DEF f, g
  <1>6. CASE bs[u].higher
    BY <1>1, <1>2, <1>3, <1>4, <1>5, <1>6
  <1>7. CASE ~bs[u].higher
    BY <1>1, <1>2, <1>3, <1>4, <1>5, <1>7
  <1> QED BY <1>1, <1>6, <1>7

\* A bet is worth a natural number of tokens: the pot it won is never empty.
LEMMA WinningsNat ==
    ASSUME NEW m, NEW bs, in_pots(m, bs)
    PROVE  won_by(m, bs) \in [Users -> Nat]
  <1> SUFFICES ASSUME NEW u \in Users, bs[u] # NoBet PROVE worth(m, bs[u]) \in Nat
    BY DEF won_by
  <1> DEFINE b == bs[u].amount
             w == IF bs[u].higher THEN m.higher ELSE m.lower
             l == IF bs[u].higher THEN m.lower ELSE m.higher
  <1>1. b \in Nat /\ w \in Nat /\ l \in Nat /\ b <= w /\ b > 0
    BY BetBound DEF in_pots
  <1>2. \/ worth(m, bs[u]) = b
        \/ worth(m, bs[u]) = b + (b * l) \div w
        \/ worth(m, bs[u]) = 0
    BY DEF worth
  <1> HIDE DEF b, w, l
  <1>3. (b * l) \div w \in Nat
    <2>1. b * l \in Nat /\ w \in Nat \ {0}
      BY <1>1, MulNat
    <2> QED BY <2>1, DivNat
  <1> QED BY <1>1, <1>2, <1>3

\* A pot pays each of its winners in proportion, so all of them together at most both pots.
LEMMA PotDivided ==
    ASSUME NEW W \in Nat, NEW L \in Nat, NEW f \in [Users -> Nat], NEW g \in [Users -> Nat], sum(f) <= W,
           \A u \in Users : g[u] = IF f[u] = 0 THEN 0 ELSE f[u] + (f[u] * L) \div W
    PROVE  sum(g) <= W + L
  <1>1. IsFiniteSet(Users) /\ f \in [Users -> Int] /\ g \in [Users -> Int]
    BY BaseAssumption
  <1>2. sum(f) \in Nat /\ sum(g) \in Nat
    <2>1. IsFiniteSet(Users) /\ f \in [Users -> Nat] /\ g \in [Users -> Nat]
      BY BaseAssumption
    <2> QED BY ONLY <2>1, SumNat
  <1>3. CASE W = 0
    <2>1. \A u \in Users : f[u] <= sum(f)
      <3>1. IsFiniteSet(Users) /\ f \in [Users -> Nat]
        BY BaseAssumption
      <3> QED BY ONLY <3>1, SumBound
    <2>2. \A u \in Users : g[u] = 0
      <3> SUFFICES ASSUME NEW u \in Users PROVE g[u] = 0
        OBVIOUS
      <3>1. f[u] = 0
        BY <1>2, <1>3, <2>1
      <3> QED BY <3>1
    <2>3. sum(g) = 0
      BY ONLY <1>1, <2>2, SumZero
    <2> QED BY <2>3
  <1>4. CASE W # 0
    <2>1. \A u \in Users : W * g[u] <= (W + L) * f[u]
      <3> SUFFICES ASSUME NEW u \in Users PROVE W * g[u] <= (W + L) * f[u]
        OBVIOUS
      <3>1. CASE f[u] = 0
        BY <3>1
      <3>2. CASE f[u] # 0
        <4> DEFINE b == f[u]   q == (b * L) \div W
        <4>1. b \in Nat /\ b * L \in Nat /\ g[u] = b + q
          BY <3>2, MulNat
        <4>2. q \in Nat /\ W * q <= b * L
          BY <1>4, <4>1, DivNat
        <4> HIDE DEF b, q
        <4>3. W * (b + q) = W * b + W * q /\ (W + L) * b = W * b + b * L
          BY <4>1, <4>2
        <4>4. W * b \in Nat /\ W * q \in Nat
          BY <4>1, <4>2, MulNat
        <4>5. W * (b + q) <= (W + L) * b
          BY <4>1, <4>2, <4>3, <4>4
        <4> QED BY <4>1, <4>5 DEF b
      <3> QED BY <3>1, <3>2
    <2>2. W \in Int /\ W + L \in Int
      OBVIOUS
    <2>3. W * sum(g) <= (W + L) * sum(f)
      BY ONLY <1>1, <2>1, <2>2, SumScaled
    <2> DEFINE x == sum(g)   y == sum(f)
    <2>4. x \in Nat /\ y \in Nat /\ y <= W /\ W * x <= (W + L) * y
      BY <1>2, <2>3
    <2> HIDE DEF x, y
    <2>5. (W + L) * y <= (W + L) * W
      BY <2>4, MulMono
    <2>6. W * x <= W * (W + L)
      BY <2>4, <2>5, MulNat
    <2>7. x <= W + L
      BY <1>4, <2>4, <2>6
    <2> QED BY <2>7 DEF x
  <1> QED BY <1>3, <1>4

\* Whatever the outcome, the bets recorded in the pots are worth at most both pots.
LEMMA PotsSuffice ==
    ASSUME NEW m, NEW bs, in_pots(m, bs), m.outcome \in {"tie", "higher", "lower"}
    PROVE  sum(won_by(m, bs)) \in Nat /\ sum(won_by(m, bs)) <= m.higher + m.lower
  <1> DEFINE f == on_higher(bs)   g == on_lower(bs)   h == won_by(m, bs)
             H == m.higher   L == m.lower
  <1>1. /\ IsFiniteSet(Users) /\ f \in [Users -> Nat] /\ g \in [Users -> Nat] /\ h \in [Users -> Nat]
        /\ f \in [Users -> Int] /\ g \in [Users -> Int]
        /\ sum(f) \in Nat /\ sum(g) \in Nat /\ H \in Nat /\ L \in Nat /\ sum(f) <= H /\ sum(g) <= L
    BY BaseAssumption, PotsTyped, WinningsNat DEF in_pots, Market
  <1>2. sum(h) \in Nat
    <2> HIDE DEF h
    <2> QED BY ONLY <1>1, SumNat
  <1>3. \A u \in Users : /\ bs[u].amount \in Nat /\ bs[u].higher \in BOOLEAN
                         /\ bs[u] = NoBet => bs[u].amount = 0
                         /\ bs[u] # NoBet => bs[u].amount > 0
    BY DEF in_pots, Bet, NoBet
  <1>4. CASE m.outcome = "tie"
    <2>1. \A u \in Users : h[u] = f[u] + g[u]
      BY <1>3, <1>4 DEF won_by, worth, on_higher, on_lower
    <2> HIDE DEF f, g, h
    <2>2. h \in [Users -> Int]
      BY <1>1
    <2>3. sum(h) = sum(f) + sum(g)
      <3>1. IsFiniteSet(Users) /\ f \in [Users -> Int] /\ g \in [Users -> Int]
        BY <1>1
      <3> QED BY ONLY <2>1, <2>2, <3>1, SumSplit
    <2> QED BY <1>1, <1>2, <2>3 DEF h
  <1>5. CASE m.outcome = "higher"
    <2>1. \A u \in Users : h[u] = IF f[u] = 0 THEN 0 ELSE f[u] + (f[u] * L) \div H
      <3> SUFFICES ASSUME NEW u \in Users PROVE h[u] = IF f[u] = 0 THEN 0 ELSE f[u] + (f[u] * L) \div H
        OBVIOUS
      <3>1. CASE bs[u] # NoBet /\ bs[u].higher
        <4>1. f[u] = bs[u].amount /\ f[u] # 0 /\ h[u] = worth(m, bs[u])
          BY <1>3, <3>1 DEF on_higher, won_by
        <4>2. worth(m, bs[u]) = bs[u].amount + (bs[u].amount * L) \div H
          BY <1>5, <3>1 DEF worth
        <4> QED BY <4>1, <4>2
      <3>2. CASE bs[u] = NoBet \/ ~bs[u].higher
        BY <1>3, <1>5, <3>2 DEF on_higher, won_by, worth
      <3> QED BY <1>3, <3>1, <3>2
    <2> HIDE DEF f, g, h, H, L
    <2>2. sum(h) <= H + L
      BY ONLY <1>1, <2>1, PotDivided
    <2> QED BY <1>2, <2>2 DEF h, H, L
  <1>6. CASE m.outcome = "lower"
    <2>1. \A u \in Users : h[u] = IF g[u] = 0 THEN 0 ELSE g[u] + (g[u] * H) \div L
      <3> SUFFICES ASSUME NEW u \in Users PROVE h[u] = IF g[u] = 0 THEN 0 ELSE g[u] + (g[u] * H) \div L
        OBVIOUS
      <3>1. CASE bs[u] # NoBet /\ ~bs[u].higher
        <4>1. g[u] = bs[u].amount /\ g[u] # 0 /\ h[u] = worth(m, bs[u])
          BY <1>3, <3>1 DEF on_lower, won_by
        <4>2. worth(m, bs[u]) = bs[u].amount + (bs[u].amount * H) \div L
          BY <1>6, <3>1 DEF worth
        <4> QED BY <4>1, <4>2
      <3>2. CASE bs[u] = NoBet \/ bs[u].higher
        BY <1>3, <1>6, <3>2 DEF on_lower, won_by, worth
      <3> QED BY <1>3, <3>1, <3>2
    <2> HIDE DEF f, g, h, H, L
    <2>2. sum(h) <= L + H
      BY ONLY <1>1, <2>1, PotDivided
    <2>3. L + H = H + L
      BY <1>1
    <2> QED BY <1>2, <2>2, <2>3 DEF h, H, L
  <1> QED BY <1>4, <1>5, <1>6

\* One bet is replaced: each side changes by the difference.
LEMMA BetReplaced ==
    ASSUME NEW bs \in [Users -> Bet], NEW u \in Users, NEW new \in [Users -> Bet],
           \A v \in Users \ {u} : new[v] = bs[v]
    PROVE  /\ sum(on_higher(new)) = sum(on_higher(bs)) + on_higher(new)[u] - on_higher(bs)[u]
           /\ sum(on_lower(new)) = sum(on_lower(bs)) + on_lower(new)[u] - on_lower(bs)[u]
  <1> DEFINE f == on_higher(bs)   fn == on_higher(new)
             g == on_lower(bs)    gn == on_lower(new)
  <1>2. \A v \in Users \ {u} : fn[v] = f[v] /\ gn[v] = g[v]
    BY DEF on_higher, on_lower
  <1>3. /\ IsFiniteSet(Users) /\ f \in [Users -> Int] /\ fn \in [Users -> Int]
        /\ g \in [Users -> Int] /\ gn \in [Users -> Int]
    BY PotsTyped, BaseAssumption
  <1> HIDE DEF f, fn, g, gn
  <1>4. sum(fn) = sum(f) + fn[u] - f[u]
    BY ONLY <1>2, <1>3, SumChange, u \in Users
  <1>5. sum(gn) = sum(g) + gn[u] - g[u]
    BY ONLY <1>2, <1>3, SumChange, u \in Users
  <1> QED BY <1>4, <1>5 DEF f, fn, g, gn

\* Removing a bet keeps the others in the pots, and the dues of the others.
LEMMA BetRemoved ==
    ASSUME NEW m, NEW bs, in_pots(m, bs), NEW u \in Users, bs[u] # NoBet
    PROVE  LET new == [bs EXCEPT ![u] = NoBet]
           IN  /\ in_pots(m, new) /\ worth(m, bs[u]) \in Nat
               /\ sum(won_by(m, bs)) \in Nat /\ sum(won_by(m, new)) \in Nat
               /\ sum(won_by(m, new)) = sum(won_by(m, bs)) - worth(m, bs[u])
  <1> DEFINE new == [bs EXCEPT ![u] = NoBet]
             f == won_by(m, bs)   g == won_by(m, new)
             sh == sum(on_higher(bs))   nh == sum(on_higher(new))
             sl == sum(on_lower(bs))    nl == sum(on_lower(new))
  <1>1. NoBet \in Bet /\ NoBet.amount = 0 /\ bs \in [Users -> Bet] /\ NoBet.higher = FALSE
    BY DEF NoBet, Bet, in_pots
  <1>2. /\ new \in [Users -> Bet]
        /\ nh = sh + 0 - (IF bs[u].higher THEN bs[u].amount ELSE 0)
        /\ nl = sl + 0 - (IF bs[u].higher THEN 0 ELSE bs[u].amount)
    <2> DEFINE b == NoBet
    <2>0. bs \in [Users -> Bet] /\ new \in [Users -> Bet] /\ new[u] = b /\ \A v \in Users \ {u} : new[v] = bs[v]
      BY <1>1
    <2> HIDE DEF new, b
    <2>1. /\ nh = sh + on_higher(new)[u] - on_higher(bs)[u]
          /\ nl = sl + on_lower(new)[u] - on_lower(bs)[u]
      BY ONLY <2>0, BetReplaced, u \in Users
    <2>2. /\ on_higher(new)[u] = 0 /\ on_lower(new)[u] = 0
          /\ on_higher(bs)[u] = (IF bs[u].higher THEN bs[u].amount ELSE 0)
          /\ on_lower(bs)[u] = (IF bs[u].higher THEN 0 ELSE bs[u].amount)
      BY <1>1, <2>0 DEF on_higher, on_lower, b
    <2> QED BY <2>0, <2>1, <2>2
  <1>3. sh \in Nat /\ sl \in Nat /\ bs[u].amount \in Nat /\ sh <= m.higher /\ sl <= m.lower /\ m \in Market
        /\ m.higher \in Nat /\ m.lower \in Nat
    BY <1>1, PotsTyped DEF in_pots, Market, Bet
  <1>4. new[u] = NoBet /\ \A v \in Users \ {u} : new[v] = bs[v]
    BY <1>1
  <1>5. \A v \in Users : new[v] # NoBet => new[v].amount > 0
    BY <1>4 DEF in_pots
  <1>6. f[u] = worth(m, bs[u]) /\ g[u] = 0 /\ \A v \in Users \ {u} : g[v] = f[v]
    BY <1>4 DEF won_by
  <1>7. nh <= m.higher /\ nl <= m.lower
    <2> HIDE DEF nh, nl, sh, sl, new
    <2> QED BY <1>2, <1>3
  <1>8. in_pots(m, new)
    <2> HIDE DEF new
    <2> QED BY <1>2, <1>3, <1>5, <1>7 DEF in_pots
  <1>9. IsFiniteSet(Users) /\ f \in [Users -> Nat] /\ g \in [Users -> Nat]
    <2> HIDE DEF new
    <2> QED BY <1>8, WinningsNat, BaseAssumption
  <1> HIDE DEF f, g
  <1>10. f \in [Users -> Int] /\ g \in [Users -> Int] /\ f[u] \in Nat
    BY <1>9
  <1>11. sum(f) \in Nat /\ sum(g) \in Nat
    BY ONLY <1>9, SumNat
  <1>12. sum(g) = sum(f) + g[u] - f[u]
    BY ONLY <1>6, <1>9, <1>10, SumChange, u \in Users
  <1>13. sum(g) = sum(f) - f[u]
    BY <1>6, <1>10, <1>11, <1>12
  <1> QED BY <1>6, <1>8, <1>10, <1>11, <1>13 DEF f, g, new

\* What a bet of the winning side is worth.
LEMMA WinningsWorth == \A b : winnings(b) = worth(market, b)
  BY DEF winnings, worth

\* No contest is open at the start.
LEMMA ContestInvInit == FundsInit => ContestInv
  <1> SUFFICES ASSUME FundsInit PROVE ContestBooks
    BY DEF ContestInv
  <1>1. BaseInitWith(Purse) /\ ContestInit /\ Purse \in Nat
    BY BaseAssumption DEF FundsInit, BaseInit
  <1>2. Books /\ held = totalDeposited + rewardPool /\ totalDeposited \in Nat /\ rewardPool \in Nat
    BY <1>1, BooksInit, BaseInitFacts
  <1>3. /\ NoBet \in Bet /\ NoBet.amount = 0
        /\ bets \in [Users -> Bet] /\ \A u \in Users : bets[u] = NoBet
        /\ market \in Market /\ market.higher = 0 /\ market.lower = 0 /\ market.status = "none"
        /\ rate \in Rates
    BY <1>1 DEF ContestInit, PredictionInit, NoBet, Bet, Market
  <1> DEFINE f == on_higher(bets)   g == on_lower(bets)
  <1>4. /\ IsFiniteSet(Users) /\ f \in [Users -> Int] /\ g \in [Users -> Int]
        /\ \A u \in Users : f[u] = 0 /\ g[u] = 0
    BY <1>3, PotsTyped, BaseAssumption DEF on_higher, on_lower
  <1> HIDE DEF f, g
  <1>5. sum(f) = 0 /\ sum(g) = 0
    BY ONLY <1>4, SumZero
  <1>6. in_pots(market, bets)
    BY <1>3, <1>5 DEF in_pots, f, g
  <1>7. tournament \in Prize /\ lottery \in Draw /\ prizes_owed = 0 /\ entrants \in Seq(Users)
    BY <1>1 DEF ContestInit, TournamentInit, LotteryInit, Prize, Draw, prizes_owed
  <1>8. market_owes = 0
    BY <1>3 DEF market_owes
  <1> QED BY <1>2, <1>3, <1>6, <1>7, <1>8 DEF ContestBooks

\* What is owed is a natural number.
LEMMA OwedNat ==
    ASSUME ContestBooks
    PROVE  /\ market_owes \in Nat /\ prizes_owed \in Nat /\ tournament.prize \in Nat /\ lottery.prize \in Nat
           /\ market.higher \in Nat /\ market.lower \in Nat
           /\ held \in Int /\ totalDeposited \in Nat /\ rewardPool \in Nat /\ wallet \in [Accounts -> Nat]
           /\ now \in Nat /\ Admin \in Accounts /\ \A u \in Users : u \in Accounts
  <1>1. tournament.prize \in Nat /\ lottery.prize \in Nat /\ market.higher \in Nat /\ market.lower \in Nat
    BY DEF ContestBooks, in_pots, Market, Prize, Draw
  <1> DEFINE f == won_by(market, bets)
  <1>2. IsFiniteSet(Users) /\ f \in [Users -> Nat]
    BY WinningsNat, BaseAssumption DEF ContestBooks
  <1> HIDE DEF f
  <1>3. sum(f) \in Nat
    BY ONLY <1>2, SumNat
  <1>4. market_owes \in Nat /\ prizes_owed \in Nat
    BY <1>1, <1>3 DEF market_owes, prizes_owed, f
  <1>5. /\ held \in Int /\ totalDeposited \in Nat /\ rewardPool \in Nat /\ wallet \in [Accounts -> Nat]
        /\ now \in Nat
    BY DEF ContestBooks, Books
  <1> QED BY <1>1, <1>4, <1>5 DEF Accounts

\* A bet comes into the pot of its side.
LEMMA PlaceBetKeeps ==
    ASSUME ContestBooks, NEW u \in Users, NEW h \in BOOLEAN, NEW a \in Amounts, place_bet(u, h, a)
    PROVE  ContestBooks'
  <1> DEFINE b == [higher |-> h, amount |-> a]
             new == [bets EXCEPT ![u] = b]
             sh == sum(on_higher(bets))   nh == sum(on_higher(new))
             sl == sum(on_lower(bets))    nl == sum(on_lower(new))
  <1>1. /\ market \in Market /\ bets \in [Users -> Bet] /\ in_pots(market, bets) /\ Books
        /\ a \in Nat /\ a > 0 /\ market.higher \in Nat /\ market.lower \in Nat
        /\ held >= totalDeposited + rewardPool + market_owes + prizes_owed
    <2>1. a \in Nat /\ a > 0
      BY BaseAssumption
    <2>2. market.higher \in Nat /\ market.lower \in Nat
      BY OwedNat
    <2>3. in_pots(market, bets) /\ Books /\ held >= totalDeposited + rewardPool + market_owes + prizes_owed
      BY DEF ContestBooks
    <2>4. market \in Market /\ bets \in [Users -> Bet]
      BY ONLY <2>3 DEF in_pots
    <2> QED BY <2>1, <2>2, <2>3, <2>4
  <1>2. /\ pull(u, a) /\ market.status = "open" /\ bets' = new
        /\ market' = IF h THEN [market EXCEPT !.higher = @ + a] ELSE [market EXCEPT !.lower = @ + a]
        /\ UNCHANGED <<now, pool, rewardPool, rate, tournament_vars, lottery>>
    BY DEF place_bet
  <1>3. b \in Bet /\ b # NoBet /\ b.amount = a /\ b.higher = h
    BY <1>1 DEF Bet, NoBet
  <1> HIDE DEF b
  <1>4. /\ new \in [Users -> Bet] /\ \A v \in Users : new[v] = bets[v] \/ new[v] = b
        /\ nh = sh + (IF h THEN a ELSE 0) - (IF bets[u].higher THEN bets[u].amount ELSE 0)
        /\ nl = sl + (IF h THEN 0 ELSE a) - (IF bets[u].higher THEN 0 ELSE bets[u].amount)
    <2>0. bets \in [Users -> Bet] /\ new \in [Users -> Bet] /\ new[u] = b /\ \A v \in Users \ {u} : new[v] = bets[v]
      BY <1>1, <1>3
    <2> HIDE DEF new
    <2>1. /\ nh = sh + on_higher(new)[u] - on_higher(bets)[u]
          /\ nl = sl + on_lower(new)[u] - on_lower(bets)[u]
      BY ONLY <2>0, BetReplaced, u \in Users
    <2>2. /\ on_higher(new)[u] = (IF h THEN a ELSE 0) /\ on_lower(new)[u] = (IF h THEN 0 ELSE a)
          /\ on_higher(bets)[u] = (IF bets[u].higher THEN bets[u].amount ELSE 0)
          /\ on_lower(bets)[u] = (IF bets[u].higher THEN 0 ELSE bets[u].amount)
      BY <1>3, <2>0 DEF on_higher, on_lower
    <2> QED BY <2>0, <2>1, <2>2
  <1>5. /\ sh \in Nat /\ sl \in Nat /\ bets[u].amount \in Nat /\ sh <= market.higher /\ sl <= market.lower
    BY <1>1, PotsTyped DEF in_pots, Bet
  <1> DEFINE H == market.higher + (IF h THEN a ELSE 0)
             L == market.lower + (IF h THEN 0 ELSE a)
  <1>6. H \in Nat /\ L \in Nat /\ H + L = market.higher + market.lower + a
    BY <1>1
  <1>7. market' \in Market /\ market'.higher = H /\ market'.lower = L /\ market'.status = market.status
    <2>1. CASE h
      <3> DEFINE x == market.higher + a
      <3>1. x \in Nat /\ market' = [market EXCEPT !.higher = x] /\ H = x /\ L = market.lower
        BY <1>1, <1>2, <2>1
      <3> HIDE DEF x
      <3> QED BY <1>1, <3>1 DEF Market
    <2>2. CASE ~h
      <3> DEFINE x == market.lower + a
      <3>1. x \in Nat /\ market' = [market EXCEPT !.lower = x] /\ L = x /\ H = market.higher
        BY <1>1, <1>2, <2>2
      <3> HIDE DEF x
      <3> QED BY <1>1, <3>1 DEF Market
    <2> QED BY <2>1, <2>2
  <1>8. nh <= H /\ nl <= L
    <2> HIDE DEF nh, nl, sh, sl
    <2> QED BY <1>1, <1>4, <1>5
  <1>9. in_pots(market', bets')
    <2>1. \A v \in Users : new[v] # NoBet => new[v].amount > 0
      BY <1>1, <1>3, <1>4 DEF in_pots
    <2> HIDE DEF H, L, new
    <2> QED BY <1>2, <1>4, <1>7, <1>8, <2>1 DEF in_pots
  <1>10. market_owes' = market_owes + a /\ prizes_owed' = prizes_owed
    <2>1. market_owes = market.higher + market.lower
      BY <1>2 DEF market_owes
    <2>2. market_owes' = H + L
      <3> HIDE DEF H, L
      <3> QED BY <1>2, <1>7 DEF market_owes
    <2> HIDE DEF H, L
    <2> QED BY <1>2, <1>6, <2>1, <2>2 DEF prizes_owed, tournament_vars
  <1>11. wallet' \in [Accounts -> Nat] /\ held' \in Int /\ held' = held + a
    BY <1>1, <1>2, OwedNat, PullTyped
  <1>12. Books'
    BY <1>1, <1>2, <1>11 DEF Books, pool
  <1>13. held' >= totalDeposited' + rewardPool' + market_owes' + prizes_owed'
    BY <1>1, <1>2, <1>10, <1>11, OwedNat DEF pool
  <1>14. rate' \in Rates /\ tournament' \in Prize /\ lottery' \in Draw /\ entrants' \in Seq(Users)
    BY <1>2 DEF ContestBooks, tournament_vars
  <1> QED BY <1>9, <1>12, <1>13, <1>14 DEF ContestBooks

\* A contest step that touches neither the market nor the bets.
LEMMA PrizeKeeps ==
    ASSUME ContestBooks, UNCHANGED <<now, pool, rewardPool, prediction_vars>>,
           tournament' \in Prize, lottery' \in Draw, entrants' \in Seq(Users),
           wallet' \in [Accounts -> Nat], held' \in Int, prizes_owed' \in Int,
           held' - prizes_owed' >= held - prizes_owed
    PROVE  ContestBooks'
  <1>1. market_owes' = market_owes /\ in_pots(market', bets') /\ rate' \in Rates
    BY DEF ContestBooks, prediction_vars, market_owes
  <1>2. Books'
    BY DEF ContestBooks, Books, pool
  <1>3. held' >= totalDeposited' + rewardPool' + market_owes' + prizes_owed'
    <2>1. held >= totalDeposited + rewardPool + market_owes + prizes_owed
      BY DEF ContestBooks
    <2> DEFINE x == held'   y == prizes_owed'
    <2>2. x \in Int /\ y \in Int /\ x - y >= held - prizes_owed
      OBVIOUS
    <2>3. /\ held \in Int /\ totalDeposited \in Nat /\ rewardPool \in Nat
          /\ market_owes \in Nat /\ prizes_owed \in Nat
      BY OwedNat
    <2>4. totalDeposited' = totalDeposited /\ rewardPool' = rewardPool
      BY DEF pool
    <2> HIDE DEF x, y
    <2>5. x >= totalDeposited + rewardPool + market_owes + y
      BY ONLY <2>1, <2>2, <2>3
    <2> QED BY <1>1, <2>4, <2>5 DEF x, y
  <1> QED BY <1>1, <1>2, <1>3 DEF ContestBooks

\* Resolving a market divides the pot it collected.
LEMMA ResolveKeeps == ASSUME ContestBooks, resolve_market PROVE ContestBooks'
  <1> DEFINE o == CASE rate > market.rate -> "higher"
                    [] rate < market.rate -> "lower"
                    [] OTHER -> "tie"
  <1>1. /\ market' = [market EXCEPT !.status = "resolved", !.outcome = o] /\ market.status = "open"
        /\ UNCHANGED <<base_vars, rate, bets, tournament_vars, lottery>>
    BY DEF resolve_market
  <1>2. o \in {"tie", "higher", "lower"}
    OBVIOUS
  <1> HIDE DEF o
  <1>3. market \in Market /\ in_pots(market, bets)
    BY DEF ContestBooks, in_pots
  <1>4. /\ market' \in Market /\ market'.higher = market.higher /\ market'.lower = market.lower
        /\ market'.outcome = o /\ market'.status = "resolved"
    <2> DEFINE x == [market EXCEPT !.status = "resolved"]
    <2>1. x \in Market /\ x.higher = market.higher /\ x.lower = market.lower /\ x.status = "resolved"
      BY <1>3 DEF Market
    <2>2. market' = [x EXCEPT !.outcome = o]
      BY <1>1
    <2> HIDE DEF x
    <2> QED BY <1>2, <2>1, <2>2 DEF Market
  <1>5. in_pots(market', bets')
    BY <1>1, <1>3, <1>4 DEF in_pots
  <1>6. sum(won_by(market', bets')) \in Nat /\ sum(won_by(market', bets')) <= market'.higher + market'.lower
    BY <1>2, <1>4, <1>5, PotsSuffice
  <1>7. market_owes' \in Nat /\ market_owes' <= market_owes
    BY <1>1, <1>4, <1>6 DEF market_owes
  <1>8. prizes_owed' = prizes_owed /\ rate' \in Rates /\ tournament' \in Prize /\ lottery' \in Draw
        /\ entrants' \in Seq(Users)
    BY <1>1 DEF ContestBooks, prizes_owed, tournament_vars
  <1>9. Books'
    BY <1>1 DEF ContestBooks, Books, base_vars, pool
  <1>10. held' >= totalDeposited' + rewardPool' + market_owes' + prizes_owed'
    <2>1. held >= totalDeposited + rewardPool + market_owes + prizes_owed
      BY DEF ContestBooks
    <2> QED BY <1>1, <1>7, <1>8, <2>1, OwedNat DEF base_vars, pool
  <1> QED BY <1>5, <1>8, <1>9, <1>10 DEF ContestBooks

\* A winning is paid from its pot.
LEMMA ClaimWinningsKeeps ==
    ASSUME ContestBooks, NEW u \in Users, claim_prediction_winnings(u)
    PROVE  ContestBooks'
  <1> DEFINE w == worth(market, bets[u])
             new == [bets EXCEPT ![u] = NoBet]
  <1>1. /\ push(u, w) /\ bets' = new /\ bets[u] # NoBet /\ market.status = "resolved"
        /\ UNCHANGED <<now, pool, rewardPool, rate, market, tournament_vars, lottery>>
    BY WinningsWorth DEF claim_prediction_winnings
  <1>2. /\ in_pots(market, new) /\ w \in Nat
        /\ sum(won_by(market, bets)) \in Nat /\ sum(won_by(market, new)) \in Nat
        /\ sum(won_by(market, new)) = sum(won_by(market, bets)) - w
    BY <1>1, BetRemoved DEF ContestBooks
  <1>3. market_owes' = market_owes - w /\ in_pots(market', bets')
    <2> HIDE DEF w, new
    <2> QED BY <1>1, <1>2 DEF market_owes
  <1> HIDE DEF w
  <1>4. wallet' \in [Accounts -> Nat] /\ held' \in Int /\ held' = held - w
    BY <1>1, <1>2, OwedNat, PushTyped
  <1>5. prizes_owed' = prizes_owed /\ rate' \in Rates /\ tournament' \in Prize /\ lottery' \in Draw
        /\ entrants' \in Seq(Users)
    BY <1>1 DEF ContestBooks, prizes_owed, tournament_vars
  <1>6. Books'
    BY <1>1, <1>4 DEF ContestBooks, Books, pool
  <1>7. held' >= totalDeposited' + rewardPool' + market_owes' + prizes_owed'
    <2>1. held >= totalDeposited + rewardPool + market_owes + prizes_owed
      BY DEF ContestBooks
    <2>2. w \in Nat /\ totalDeposited' = totalDeposited /\ rewardPool' = rewardPool /\ market_owes' = market_owes - w
      BY <1>1, <1>2, <1>3 DEF pool
    <2>3. held \in Int /\ totalDeposited \in Nat /\ rewardPool \in Nat /\ market_owes \in Nat /\ prizes_owed \in Nat
      BY OwedNat
    <2> QED BY ONLY <1>4, <1>5, <2>1, <2>2, <2>3
  <1> QED BY <1>3, <1>5, <1>6, <1>7 DEF ContestBooks

\* A new market has an empty pot.
LEMMA OpenMarketKeeps ==
    ASSUME ContestBooks, NEW o \in Durations, NEW t \in Durations, open_prediction_market(o, t)
    PROVE  ContestBooks'
  <1> DEFINE c == now + o   g == now + t
  <1>1. /\ market' = [market EXCEPT !.status = "open", !.closesAt = c, !.target = g, !.rate = rate]
        /\ market.status = "none"
        /\ UNCHANGED <<base_vars, rate, bets, tournament_vars, lottery>>
    BY DEF open_prediction_market
  <1>2. c \in Int /\ g \in Int /\ rate \in Rates /\ market \in Market /\ in_pots(market, bets)
    <2>1. now \in Nat /\ o \in Nat /\ t \in Nat
      BY OwedNat, BaseAssumption
    <2>2. rate \in Rates /\ in_pots(market, bets)
      BY DEF ContestBooks
    <2>3. market \in Market
      BY ONLY <2>2 DEF in_pots
    <2> QED BY <2>1, <2>2, <2>3
  <1> HIDE DEF c, g
  <1>3. market' \in Market /\ market'.higher = market.higher /\ market'.lower = market.lower /\ market'.status = "open"
    <2> DEFINE x == [market EXCEPT !.status = "open"]
               y == [x EXCEPT !.closesAt = c]
               z == [y EXCEPT !.target = g]
    <2>1. market' = [z EXCEPT !.rate = rate]
      BY <1>1
    <2>2. x \in Market /\ x.higher = market.higher /\ x.lower = market.lower /\ x.status = "open"
      BY <1>2 DEF Market
    <2> HIDE DEF x
    <2>3. y \in Market /\ y.higher = x.higher /\ y.lower = x.lower /\ y.status = x.status
      BY <1>2, <2>2 DEF Market
    <2> HIDE DEF y
    <2>4. z \in Market /\ z.higher = y.higher /\ z.lower = y.lower /\ z.status = y.status
      BY <1>2, <2>3 DEF Market
    <2> HIDE DEF z
    <2>5. market' \in Market /\ market'.higher = z.higher /\ market'.lower = z.lower /\ market'.status = z.status
      BY <1>2, <2>1, <2>4 DEF Market
    <2> QED BY <2>2, <2>3, <2>4, <2>5
  <1>4. in_pots(market', bets')
    BY <1>1, <1>2, <1>3 DEF in_pots
  <1>5. market_owes' = market_owes
    BY <1>1, <1>3 DEF market_owes
  <1>6. prizes_owed' = prizes_owed /\ rate' \in Rates /\ tournament' \in Prize /\ lottery' \in Draw
        /\ entrants' \in Seq(Users)
    BY <1>1 DEF ContestBooks, prizes_owed, tournament_vars
  <1>7. Books' /\ held' >= totalDeposited' + rewardPool' + market_owes' + prizes_owed'
    BY <1>1, <1>5, <1>6 DEF ContestBooks, Books, base_vars, pool
  <1> QED BY <1>4, <1>6, <1>7 DEF ContestBooks

\* The prize of a contest comes in when it opens.
LEMMA PrizeOpensKeeps ==
    ASSUME ContestBooks, NEW a \in Amounts, NEW d \in Durations,
           create_tournament(a, d) \/ create_lottery(a, d)
    PROVE  ContestBooks'
  <1>1. a \in Nat /\ d \in Nat /\ now + d \in Int /\ tournament \in Prize /\ lottery \in Draw /\ entrants \in Seq(Users)
    BY BaseAssumption, OwedNat DEF ContestBooks
  <1> DEFINE T == IF tournament.status = "open" THEN tournament.prize ELSE 0
             L == IF lottery.status = "open" THEN lottery.prize ELSE 0
  <1>2. T \in Nat /\ L \in Nat /\ prizes_owed = T + L
    BY OwedNat DEF prizes_owed
  <1>3. CASE create_tournament(a, d)
    <2> DEFINE e == now + d   n == [status |-> "open", prize |-> a, endsAt |-> e]
    <2>1. /\ pull(Admin, a) /\ tournament' = n /\ tournament.status = "none" /\ UNCHANGED <<entrants, lottery>>
          /\ UNCHANGED <<now, pool, rewardPool, prediction_vars>>
      BY <1>3 DEF create_tournament
    <2>2. n \in Prize /\ n.status = "open" /\ n.prize = a
      BY <1>1 DEF Prize
    <2> HIDE DEF n
    <2>3. wallet' \in [Accounts -> Nat] /\ held' \in Int /\ held' = held + a
      BY <1>1, <2>1, OwedNat, PullTyped
    <2>4. prizes_owed' = a + L /\ T = 0
      BY <2>1, <2>2 DEF prizes_owed
    <2> HIDE DEF T, L
    <2>5. prizes_owed' \in Int /\ held' - prizes_owed' >= held - prizes_owed
      <3> DEFINE x == held'   y == prizes_owed'   p == prizes_owed
      <3>1. x = held + a /\ held \in Int /\ a \in Nat /\ T \in Nat /\ L \in Nat /\ p = T + L
        BY <1>1, <1>2, <2>3, OwedNat
      <3>2. y = a + L /\ T = 0
        BY <2>4
      <3> HIDE DEF x, y, p
      <3>3. y \in Int /\ x - y >= held - p
        BY ONLY <3>1, <3>2
      <3> QED BY <3>3 DEF x, y, p
    <2> QED BY <1>1, <2>1, <2>2, <2>3, <2>5, PrizeKeeps
  <1>4. CASE create_lottery(a, d)
    <2> DEFINE e == now + d   n == [status |-> "open", prize |-> a, drawAt |-> e]
    <2>1. /\ pull(Admin, a) /\ lottery' = n /\ lottery.status # "open" /\ UNCHANGED <<entrants, tournament>>
          /\ UNCHANGED <<now, pool, rewardPool, prediction_vars>>
      BY <1>4 DEF create_lottery, tournament_vars
    <2>2. n \in Draw /\ n.status = "open" /\ n.prize = a
      BY <1>1 DEF Draw
    <2> HIDE DEF n
    <2>3. wallet' \in [Accounts -> Nat] /\ held' \in Int /\ held' = held + a
      BY <1>1, <2>1, OwedNat, PullTyped
    <2>4. prizes_owed' = T + a /\ L = 0
      BY <2>1, <2>2 DEF prizes_owed
    <2> HIDE DEF T, L
    <2>5. prizes_owed' \in Int /\ held' - prizes_owed' >= held - prizes_owed
      <3> DEFINE x == held'   y == prizes_owed'   p == prizes_owed
      <3>1. x = held + a /\ held \in Int /\ a \in Nat /\ T \in Nat /\ L \in Nat /\ p = T + L
        BY <1>1, <1>2, <2>3, OwedNat
      <3>2. y = T + a /\ L = 0
        BY <2>4
      <3> HIDE DEF x, y, p
      <3>3. y \in Int /\ x - y >= held - p
        BY ONLY <3>1, <3>2
      <3> QED BY <3>3 DEF x, y, p
    <2> QED BY <1>1, <2>1, <2>2, <2>3, <2>5, PrizeKeeps
  <1> QED BY <1>3, <1>4

\* The prize of a contest leaves at most once, when it is decided.
LEMMA PrizeLeavesKeeps ==
    ASSUME ContestBooks, finalize_tournament \/ draw_lottery
    PROVE  ContestBooks'
  <1>1. tournament \in Prize /\ lottery \in Draw /\ entrants \in Seq(Users)
    BY DEF ContestBooks
  <1> DEFINE T == IF tournament.status = "open" THEN tournament.prize ELSE 0
             L == IF lottery.status = "open" THEN lottery.prize ELSE 0
  <1>2. T \in Nat /\ L \in Nat /\ prizes_owed = T + L
    BY OwedNat DEF prizes_owed
  <1>5. CASE finalize_tournament
    <2> DEFINE n == [tournament EXCEPT !.status = "finalized"]
    <2>1. /\ tournament' = n /\ tournament.status = "open" /\ UNCHANGED <<entrants, lottery>>
          /\ UNCHANGED <<now, pool, rewardPool, prediction_vars>>
          /\ UNCHANGED <<wallet, held>> \/ \E w \in ToSet(entrants) : push(w, tournament.prize)
      BY <1>5 DEF finalize_tournament
    <2>2. n \in Prize /\ n.status = "finalized"
      BY <1>1 DEF Prize
    <2> HIDE DEF n
    <2>3. wallet' \in [Accounts -> Nat] /\ held' \in Int /\ held' >= held - tournament.prize
      <3>1. CASE UNCHANGED <<wallet, held>>
        BY <3>1, OwedNat
      <3>2. CASE \E w \in ToSet(entrants) : push(w, tournament.prize)
        <4>1. PICK w \in ToSet(entrants) : push(w, tournament.prize)
          BY <3>2
        <4>2. w \in Users
          BY <1>1, <4>1 DEF ToSet
        <4>3. wallet' \in [Accounts -> Nat] /\ held' \in Int /\ held' = held - tournament.prize
          BY <4>1, <4>2, OwedNat, PushTyped
        <4> QED BY <4>3, OwedNat
      <3> QED BY <2>1, <3>1, <3>2
    <2>4. prizes_owed' = L /\ T = tournament.prize
      BY <2>1, <2>2, OwedNat DEF prizes_owed
    <2> HIDE DEF T, L
    <2>5. prizes_owed' \in Int /\ held' - prizes_owed' >= held - prizes_owed
      BY <1>2, <2>3, <2>4, OwedNat
    <2> QED BY <1>1, <2>1, <2>2, <2>3, <2>5, PrizeKeeps
  <1>6. CASE draw_lottery
    <2> DEFINE n == [lottery EXCEPT !.status = "drawn"]
    <2>1. /\ lottery' = n /\ lottery.status = "open" /\ UNCHANGED <<entrants, tournament>>
          /\ UNCHANGED <<now, pool, rewardPool, prediction_vars>>
          /\ \E w \in Users : push(w, lottery.prize)
      BY <1>6 DEF draw_lottery, tournament_vars
    <2>2. n \in Draw /\ n.status = "drawn"
      BY <1>1 DEF Draw
    <2> HIDE DEF n
    <2>3. wallet' \in [Accounts -> Nat] /\ held' \in Int /\ held' = held - lottery.prize
      BY <2>1, OwedNat, PushTyped
    <2>4. prizes_owed' = T /\ L = lottery.prize
      BY <2>1, <2>2, OwedNat DEF prizes_owed
    <2> HIDE DEF T, L
    <2>5. prizes_owed' \in Int /\ held' - prizes_owed' >= held - prizes_owed
      BY <1>2, <2>3, <2>4, OwedNat
    <2> QED BY <1>1, <2>1, <2>2, <2>3, <2>5, PrizeKeeps
  <1> QED BY <1>5, <1>6

\* Every step keeps the pots covered.
LEMMA ContestInvStep ==
    ASSUME ContestInv, [FundsNext]_funds_vars
    PROVE  ContestInv'
  <1>1. CASE focus \notin {"prediction", "prizes"}
    BY <1>1 DEF ContestInv, FundsNext, funds_vars
  <1>2. CASE focus \in {"prediction", "prizes"}
    <2>1. ContestBooks /\ UNCHANGED focus /\ (ContestNext \/ UNCHANGED <<base_vars, contest_vars>>)
      BY <1>2, ContestStep DEF ContestInv
    <2> SUFFICES ContestBooks'
      BY DEF ContestInv
    <2>2. CASE UNCHANGED <<base_vars, contest_vars>>
      BY <2>1, <2>2 DEF ContestBooks, Books, market_owes, prizes_owed, base_vars, pool, contest_vars,
                        prediction_vars, tournament_vars
    <2>3. ASSUME NEW r \in Rates, set_reward_rate(r) PROVE ContestBooks'
      BY <2>1, <2>3 DEF ContestBooks, Books, market_owes, prizes_owed, base_vars, pool,
                        set_reward_rate, tournament_vars
    <2>4. ASSUME NEW u \in Users, NEW p \in Amounts, update_tournament_score(u, p) PROVE ContestBooks'
      <3>1. entrants \in Seq(Users) /\ entrants' \in Seq(Users)
        <4>1. entrants \in Seq(Users)
          BY <2>1 DEF ContestBooks
        <4>2. Append(entrants, u) \in Seq(Users)
          BY <4>1
        <4> QED BY <2>4, <4>1, <4>2 DEF update_tournament_score
      <3> QED BY <2>1, <2>4, <3>1 DEF ContestBooks, Books, market_owes, prizes_owed, base_vars, pool,
                        update_tournament_score, prediction_vars
    <2>5. CASE ContestTick
      <3>1. now' \in Nat
        BY <2>1, <2>5, TickNat DEF ContestBooks, Books, ContestTick
      <3> QED BY <2>1, <2>5, <3>1 DEF ContestBooks, Books, market_owes, prizes_owed, pool, ContestTick,
                        contest_vars, prediction_vars, tournament_vars
    <2>6. CASE PredictionNext
      BY <2>1, <2>3, <2>6, OpenMarketKeeps, PlaceBetKeeps, ResolveKeeps, ClaimWinningsKeeps DEF PredictionNext
    <2>7. CASE PrizeNext
      <3>1. ASSUME finalize_tournament \/ draw_lottery PROVE ContestBooks'
        BY <2>1, <3>1, PrizeLeavesKeeps
      <3> QED BY <2>1, <2>4, <2>7, <3>1, PrizeOpensKeeps DEF PrizeNext
    <2> QED BY <2>1, <2>2, <2>5, <2>6, <2>7 DEF ContestNext
  <1> QED BY <1>1, <1>2

\* Prediction market, tournament and lottery: for any bets, outcomes, order of claims and
\* prizes, the tokens beyond principal and reward pool cover every payout still to come;
\* a pot pays its winners at most both pots although every share is rounded on its own.
THEOREM ContestsPayTheirOwn == FundsSpec => []ContestsCovered
  <1>1. ContestInv => ContestsCovered
    <2> SUFFICES ASSUME ContestBooks PROVE contests_covered
      BY DEF ContestInv, ContestsCovered
    <2> DEFINE T == {u \in Users : bets[u] # NoBet}
               g == [u \in T |-> winnings(bets[u])]
               f == won_by(market, bets)
    <2>1. IsFiniteSet(Users) /\ f \in [Users -> Nat] /\ f \in [Users -> Int] /\ T \subseteq Users
      BY WinningsNat, BaseAssumption DEF ContestBooks
    <2>2. g \in [T -> Int] /\ (\A u \in T : g[u] = f[u]) /\ \A u \in Users \ T : f[u] = 0
      <3>1. \A u \in T : winnings(bets[u]) = f[u] /\ f[u] \in Int
        BY <2>1, WinningsWorth DEF won_by
      <3>2. \A u \in Users \ T : f[u] = 0
        BY DEF won_by
      <3> HIDE DEF f
      <3> QED BY <3>1, <3>2
    <2> HIDE DEF f, g, T
    <2>3. sum(g) = sum(f)
      BY ONLY <2>1, <2>2, SumWhere
    <2>4. market_owes = IF market.status = "resolved" THEN sum(g) ELSE market.higher + market.lower
      BY <2>3 DEF market_owes, f
    <2>5. held >= totalDeposited + rewardPool + market_owes + prizes_owed
      BY DEF ContestBooks
    <2>6. /\ market_owes \in Nat /\ held \in Int /\ totalDeposited \in Nat /\ rewardPool \in Nat
          /\ tournament.prize \in Nat /\ lottery.prize \in Nat
      BY OwedNat
    <2>7. held >= totalDeposited + rewardPool + market_owes
                  + (IF tournament.status = "open" THEN tournament.prize ELSE 0)
                  + (IF lottery.status = "open" THEN lottery.prize ELSE 0)
      BY <2>5, <2>6 DEF prizes_owed
    <2> QED BY <2>4, <2>7 DEF contests_covered, g, T
  <1>2. ContestInv /\ [FundsNext]_funds_vars => ContestInv'
    BY ContestInvStep
  <1> QED BY <1>1, <1>2, ContestInvInit, PTL DEF FundsSpec, funds_vars

-------------------------------------------------------------------------------
(* The commit-reveal auction of positions. *)

\* In the focus of the auction only its own entry points run.
LEMMA SealedStep ==
    ASSUME focus = "sealed", [FundsNext]_funds_vars
    PROVE  UNCHANGED focus /\ (SealedNext \/ MarketTick \/ UNCHANGED <<base_vars, market_vars>>)
  BY DEF FundsNext, funds_vars, capacity_step, market_step, contest_step, campaign_step, claim_step,
         subpool_step, position_step, outside_step, ballot_step, safeguard_step, wind_step, shared_step

Bid == [hash : Nat, locked : Nat, revealed : BOOLEAN]
Listing == [seller : Users, min : Nat, commitBy : Nat, revealBy : Nat, highest : Nat,
            winner : Users \cup {Nobody}, settled : BOOLEAN, shares : Nat]

\* What the bids b on the listing l still claim: a paid winner's bid is gone.
claim_of(l, b, u) == IF l.settled /\ u = l.winner THEN 0 ELSE b[u].locked
owing(l, b) == sum([u \in Users |-> claim_of(l, b, u)])
bids_owed(L, B) == sum([i \in DOMAIN L |-> owing(L[i], B[i])])

escrow_of(l) == IF l.settled THEN 0 ELSE l.shares
escrowed(L) == sum([i \in DOMAIN L |-> escrow_of(L[i])])

\* The leader of an auction has revealed its bid, and it is locked in full.
led(l, b) == l.winner # Nobody => b[l.winner].revealed /\ b[l.winner].locked = l.highest

SealedTyped ==
    /\ now \in Nat /\ held \in Int /\ totalDeposited \in Int /\ rewardPool \in Int /\ totalShares \in Int
    /\ shares \in [Users -> Nat] /\ kept \in Int
    /\ listings \in Seq(Listing) /\ sealed \in Seq([Users -> Bid]) /\ Len(sealed) = Len(listings)
    /\ \A i \in DOMAIN listings : led(listings[i], sealed[i])

SealedBooks ==
    /\ SealedTyped
    /\ held = totalDeposited + rewardPool + kept + bids_owed(listings, sealed)
    /\ totalShares = sum(shares) + escrowed(listings)

\* Both sequences are indexed by the listings.
LEMMA SealedEntries ==
    ASSUME NEW L \in Seq(Listing), NEW B \in Seq([Users -> Bid]), Len(B) = Len(L)
    PROVE  /\ IsFiniteSet(DOMAIN L) /\ DOMAIN B = DOMAIN L /\ DOMAIN L = 1..Len(L) /\ Len(L) \in Nat
           /\ \A i \in DOMAIN L : L[i] \in Listing /\ B[i] \in [Users -> Bid]
  <1>1. DOMAIN L = 1..Len(L) /\ DOMAIN B = DOMAIN L /\ Len(L) \in Nat
    OBVIOUS
  <1>2. IsFiniteSet(DOMAIN L)
    BY <1>1, FS_Interval
  <1> QED BY <1>1, <1>2

LEMMA ListingParts ==
    ASSUME NEW l \in Listing
    PROVE  /\ l.seller \in Users /\ l.min \in Nat /\ l.commitBy \in Nat /\ l.revealBy \in Nat /\ l.highest \in Nat
           /\ l.winner \in Users \cup {Nobody} /\ l.settled \in BOOLEAN /\ l.shares \in Nat
           /\ escrow_of(l) \in Nat
  BY DEF Listing, escrow_of

LEMMA BidParts == ASSUME NEW b \in Bid PROVE b.hash \in Nat /\ b.locked \in Nat /\ b.revealed \in BOOLEAN
  BY DEF Bid

\* What is claimed is a number.
LEMMA OwingNat ==
    ASSUME NEW l \in Listing, NEW b \in [Users -> Bid]
    PROVE  owing(l, b) \in Nat /\ \A u \in Users : claim_of(l, b, u) \in Nat
  <1> DEFINE f == [u \in Users |-> claim_of(l, b, u)]
  <1>1. \A u \in Users : claim_of(l, b, u) \in Nat
    BY BidParts DEF claim_of
  <1>2. f \in [Users -> Nat] /\ IsFiniteSet(Users)
    BY <1>1, BaseAssumption
  <1> HIDE DEF f
  <1>3. sum(f) \in Nat
    BY ONLY <1>2, SumNat
  <1> QED BY <1>1, <1>3 DEF owing, f

\* One claim changes.
LEMMA OneClaim ==
    ASSUME NEW l \in Listing, NEW b \in [Users -> Bid], NEW m \in Listing, NEW c \in [Users -> Bid], NEW u \in Users,
           \A v \in Users \ {u} : claim_of(m, c, v) = claim_of(l, b, v)
    PROVE  owing(m, c) = owing(l, b) + claim_of(m, c, u) - claim_of(l, b, u)
  <1> DEFINE f == [v \in Users |-> claim_of(l, b, v)]   g == [v \in Users |-> claim_of(m, c, v)]
  <1>1. f \in [Users -> Int] /\ g \in [Users -> Int] /\ IsFiniteSet(Users)
    BY OwingNat, BaseAssumption
  <1>2. (\A v \in Users \ {u} : g[v] = f[v]) /\ g[u] = claim_of(m, c, u) /\ f[u] = claim_of(l, b, u)
    OBVIOUS
  <1>3. owing(l, b) = sum(f) /\ owing(m, c) = sum(g)
    BY DEF owing
  <1> HIDE DEF f, g
  <1>4. sum(g) = sum(f) + g[u] - f[u]
    BY ONLY <1>1, <1>2, SumChange, u \in Users
  <1> QED BY <1>2, <1>3, <1>4

\* M and C are L and B but for the listing i and its bids, and the totals follow.
one_written(L, B, i, l, b, M, C) ==
    /\ M \in Seq(Listing) /\ C \in Seq([Users -> Bid]) /\ Len(C) = Len(M) /\ DOMAIN M = DOMAIN L
    /\ M[i] = l /\ C[i] = b /\ \A j \in DOMAIN L \ {i} : M[j] = L[j] /\ C[j] = B[j]
    /\ bids_owed(M, C) = bids_owed(L, B) + owing(l, b) - owing(L[i], B[i])
    /\ escrowed(M) = escrowed(L) + escrow_of(l) - escrow_of(L[i])

\* One listing, or the bids on it, change.
LEMMA OneListing ==
    ASSUME NEW L \in Seq(Listing), NEW B \in Seq([Users -> Bid]), Len(B) = Len(L),
           NEW i \in DOMAIN L, NEW l \in Listing, NEW b \in [Users -> Bid],
           NEW M, M = [L EXCEPT ![i] = l], NEW C, C = [B EXCEPT ![i] = b]
    PROVE  one_written(L, B, i, l, b, M, C)
  <1> DEFINE S == DOMAIN L
             f == [j \in S |-> owing(L[j], B[j])]   g == [j \in S |-> owing(M[j], C[j])]
             h == [j \in S |-> escrow_of(L[j])]   k == [j \in S |-> escrow_of(M[j])]
  <1>1. IsFiniteSet(S) /\ DOMAIN B = S /\ (\A j \in S : L[j] \in Listing /\ B[j] \in [Users -> Bid])
    BY SealedEntries
  <1>2. /\ M \in Seq(Listing) /\ C \in Seq([Users -> Bid]) /\ Len(C) = Len(M) /\ DOMAIN M = S
        /\ M[i] = l /\ C[i] = b /\ \A j \in S \ {i} : M[j] = L[j] /\ C[j] = B[j]
    BY <1>1
  <1>3. f \in [S -> Int] /\ g \in [S -> Int]
    <2>1. \A j \in S : M[j] \in Listing /\ C[j] \in [Users -> Bid]
      BY <1>2, SealedEntries
    <2>2. \A j \in S : owing(L[j], B[j]) \in Int /\ owing(M[j], C[j]) \in Int
      BY <1>1, <2>1, OwingNat
    <2> QED BY <2>2
  <1>4. h \in [S -> Int] /\ k \in [S -> Int]
    <2>1. \A j \in S : escrow_of(L[j]) \in Int /\ escrow_of(M[j]) \in Int
      BY <1>1, <1>2, ListingParts
    <2> QED BY <2>1
  <1>5. /\ \A j \in S \ {i} : g[j] = f[j] /\ k[j] = h[j]
        /\ g[i] = owing(l, b) /\ f[i] = owing(L[i], B[i]) /\ k[i] = escrow_of(l) /\ h[i] = escrow_of(L[i])
    BY <1>2
  <1>6. bids_owed(L, B) = sum(f) /\ bids_owed(M, C) = sum(g) /\ escrowed(L) = sum(h) /\ escrowed(M) = sum(k) /\ i \in S
    BY <1>2 DEF bids_owed, escrowed
  <1> HIDE DEF f, g, h, k, S
  <1>7. sum(g) = sum(f) + g[i] - f[i]
    <2>1. IsFiniteSet(S) /\ i \in S /\ \A j \in S \ {i} : g[j] = f[j]
      BY <1>1, <1>5, <1>6
    <2> QED BY ONLY <1>3, <2>1, SumChange
  <1>8. sum(k) = sum(h) + k[i] - h[i]
    <2>1. IsFiniteSet(S) /\ i \in S /\ \A j \in S \ {i} : k[j] = h[j]
      BY <1>1, <1>5, <1>6
    <2> QED BY ONLY <1>4, <2>1, SumChange
  <1> QED BY <1>2, <1>5, <1>6, <1>7, <1>8 DEF S, one_written

\* The totals are numbers.
LEMMA SealedTotals ==
    ASSUME NEW L \in Seq(Listing), NEW B \in Seq([Users -> Bid]), Len(B) = Len(L)
    PROVE  bids_owed(L, B) \in Int /\ escrowed(L) \in Int
  <1> DEFINE S == DOMAIN L   f == [j \in S |-> owing(L[j], B[j])]   h == [j \in S |-> escrow_of(L[j])]
  <1>1. IsFiniteSet(S) /\ (\A j \in S : L[j] \in Listing /\ B[j] \in [Users -> Bid])
    BY SealedEntries
  <1>2. \A j \in S : owing(L[j], B[j]) \in Int /\ escrow_of(L[j]) \in Int
    BY <1>1, OwingNat, ListingParts
  <1>3. f \in [S -> Int] /\ h \in [S -> Int]
    BY <1>2
  <1>4. bids_owed(L, B) = sum(f) /\ escrowed(L) = sum(h)
    BY DEF bids_owed, escrowed
  <1> HIDE DEF f, h, S
  <1>5. sum(f) \in Int /\ sum(h) \in Int
    BY ONLY <1>1, <1>3, SumType
  <1> QED BY <1>4, <1>5

LEMMA SealedBooksInit == ASSUME FundsInit PROVE SealedBooks
  <1>1. BaseInitWith(Purse) /\ Purse \in Nat /\ listings = << >> /\ sealed = << >> /\ kept = 0
    BY BaseAssumption DEF FundsInit, BaseInit, MarketInit, SealedInit
  <1>2. /\ now = 0 /\ shares \in [Users -> Nat] /\ totalShares = sum(shares) /\ totalShares \in Nat
        /\ totalDeposited \in Nat /\ rewardPool \in Nat /\ held = totalDeposited + rewardPool
    BY <1>1, BaseInitFacts
  <1>3. ASSUME NEW f, DOMAIN f = {} PROVE sum(f) = 0
    BY <1>3, SumEmpty DEF sum
  <1>4. bids_owed(listings, sealed) = 0 /\ escrowed(listings) = 0
    <2>1. DOMAIN listings = {}
      BY <1>1
    <2> DEFINE f == [i \in DOMAIN listings |-> owing(listings[i], sealed[i])]
               h == [i \in DOMAIN listings |-> escrow_of(listings[i])]
    <2>2. DOMAIN f = {} /\ DOMAIN h = {}
      BY <2>1
    <2>3. bids_owed(listings, sealed) = sum(f) /\ escrowed(listings) = sum(h)
      BY DEF bids_owed, escrowed
    <2> HIDE DEF f, h
    <2> QED BY <1>3, <2>2, <2>3
  <1>5. listings \in Seq(Listing) /\ sealed \in Seq([Users -> Bid]) /\ Len(sealed) = Len(listings) /\ DOMAIN listings = {}
    BY <1>1
  <1>6. SealedTyped
    BY <1>1, <1>2, <1>5 DEF SealedTyped
  <1> QED BY <1>1, <1>2, <1>4, <1>6 DEF SealedBooks

\* A listing takes a position into escrow; nobody has bid on it.
LEMMA ListPositionKeeps ==
    ASSUME SealedBooks, NEW u \in Users, NEW min \in Amounts, NEW c \in Durations, NEW r \in Durations,
           list_position_for_auction(u, min, c, r)
    PROVE  SealedBooks'
  <1> DEFINE L == listings   B == sealed   none == [v \in Users |-> NoBid]
             l == [seller |-> u, min |-> min, commitBy |-> now + c, revealBy |-> now + c + r, highest |-> 0,
                   winner |-> Nobody, settled |-> FALSE, shares |-> shares[u]]
             M == Append(L, l)   C == Append(B, none)   n == Len(L) + 1
  <1>1. /\ L \in Seq(Listing) /\ B \in Seq([Users -> Bid]) /\ Len(B) = Len(L) /\ now \in Nat
        /\ shares \in [Users -> Nat] /\ \A i \in DOMAIN L : led(L[i], B[i])
    BY DEF SealedBooks, SealedTyped
  <1>2. /\ listings' = M /\ sealed' = C /\ shares' = [shares EXCEPT ![u] = 0]
        /\ UNCHANGED <<now, held, totalShares, totalDeposited, rewardPool, kept>>
    BY DEF list_position_for_auction
  <1>3. l \in Listing /\ escrow_of(l) = shares[u] /\ none \in [Users -> Bid] /\ led(l, none)
        /\ l.winner = Nobody /\ ~l.settled
    <2>1. min \in Nat /\ c \in Nat /\ r \in Nat /\ shares[u] \in Nat /\ now + c \in Nat /\ now + c + r \in Nat
      BY <1>1, BaseAssumption
    <2> QED BY <2>1 DEF Listing, escrow_of, led, Bid, NoBid
  <1>4. owing(l, none) = 0
    <2> DEFINE f == [v \in Users |-> claim_of(l, none, v)]
    <2>1. \A v \in Users : claim_of(l, none, v) = 0
      BY <1>3 DEF claim_of, NoBid
    <2> HIDE DEF l, none
    <2>2. f \in [Users -> Int] /\ IsFiniteSet(Users) /\ \A v \in Users : f[v] = 0
      BY <2>1, BaseAssumption
    <2> HIDE DEF f
    <2>3. sum(f) = 0
      BY ONLY <2>2, SumZero
    <2> QED BY <2>3 DEF owing, f
  <1> HIDE DEF l, none, L, B
  <1>5. /\ M \in Seq(Listing) /\ C \in Seq([Users -> Bid]) /\ Len(C) = Len(M) /\ DOMAIN M = DOMAIN L \cup {n}
        /\ n \notin DOMAIN L /\ M[n] = l /\ C[n] = none /\ \A i \in DOMAIN L : M[i] = L[i] /\ C[i] = B[i]
    <2>1. DOMAIN B = DOMAIN L
      BY <1>1, SealedEntries
    <2> QED BY <1>1, <1>3, <2>1
  <1> HIDE DEF M, C, n
  <1>6. bids_owed(M, C) = bids_owed(L, B) /\ escrowed(M) = escrowed(L) + shares[u]
    <2> DEFINE S == DOMAIN L   R == DOMAIN M
               f == [i \in S |-> owing(L[i], B[i])]   g == [i \in R |-> owing(M[i], C[i])]
               h == [i \in S |-> escrow_of(L[i])]   k == [i \in R |-> escrow_of(M[i])]
    <2>1. IsFiniteSet(R) /\ (\A i \in R : M[i] \in Listing /\ C[i] \in [Users -> Bid])
          /\ IsFiniteSet(S) /\ (\A i \in S : L[i] \in Listing /\ B[i] \in [Users -> Bid])
      BY <1>1, <1>5, SealedEntries
    <2>2. n \in R /\ S \subseteq R /\ n \notin S /\ \A i \in R : i \in S \/ i = n
      BY <1>5
    <2>3. f \in [S -> Int] /\ g \in [R -> Int]
      <3>1. (\A i \in S : owing(L[i], B[i]) \in Int) /\ \A i \in R : owing(M[i], C[i]) \in Int
        BY <2>1, OwingNat
      <3> QED BY <3>1
    <2>4. h \in [S -> Int] /\ k \in [R -> Int]
      <3>1. (\A i \in S : escrow_of(L[i]) \in Int) /\ \A i \in R : escrow_of(M[i]) \in Int
        BY <2>1, ListingParts
      <3> QED BY <3>1
    <2>5. (\A i \in S : g[i] = f[i] /\ k[i] = h[i]) /\ g[n] = 0 /\ k[n] = shares[u]
      BY <1>3, <1>4, <1>5, <2>2
    <2>6. bids_owed(L, B) = sum(f) /\ bids_owed(M, C) = sum(g) /\ escrowed(L) = sum(h) /\ escrowed(M) = sum(k)
      BY DEF bids_owed, escrowed
    <2> HIDE DEF f, g, h, k, S, R
    <2>7. sum(g) = sum(f) + g[n]
      BY ONLY <2>1, <2>2, <2>3, <2>5, SumExtend
    <2>8. sum(k) = sum(h) + k[n]
      BY ONLY <2>1, <2>2, <2>4, <2>5, SumExtend
    <2>9. sum(f) \in Int
      BY ONLY <2>1, <2>3, SumType
    <2> QED BY ONLY <2>5, <2>6, <2>7, <2>8, <2>9
  <1> DEFINE s == [shares EXCEPT ![u] = 0]
  <1>7. s \in [Users -> Nat] /\ sum(s) = sum(shares) - shares[u]
    <2>1. s \in [Users -> Int] /\ shares \in [Users -> Int] /\ IsFiniteSet(Users) /\ s[u] = 0 /\ s \in [Users -> Nat]
          /\ \A v \in Users \ {u} : s[v] = shares[v]
      BY <1>1, BaseAssumption
    <2> HIDE DEF s
    <2>2. sum(s) = sum(shares) + s[u] - shares[u]
      BY ONLY <2>1, SumChange, u \in Users
    <2>3. sum(shares) \in Int /\ shares[u] \in Int
      BY <2>1, SumType
    <2> QED BY <2>1, <2>2, <2>3
  <1> HIDE DEF s
  <1>8. \A i \in DOMAIN M : led(M[i], C[i])
    BY <1>1, <1>3, <1>5
  <1>9. SealedTyped'
    BY <1>2, <1>5, <1>7, <1>8 DEF SealedBooks, SealedTyped, s
  <1>10. held' = totalDeposited' + rewardPool' + kept' + bids_owed(listings', sealed')
    BY <1>2, <1>6 DEF SealedBooks, L, B
  <1>11. totalShares' = sum(shares') + escrowed(listings')
    <2>1. totalShares = sum(shares) + escrowed(L) /\ sum(shares) \in Int /\ shares[u] \in Int /\ escrowed(L) \in Int
      <3>1. sum(shares) \in Int
        <4>1. shares \in [Users -> Int] /\ IsFiniteSet(Users)
          BY <1>1, BaseAssumption
        <4> QED BY ONLY <4>1, SumType
      <3> QED BY <1>1, <3>1, SealedTotals DEF SealedBooks, L
    <2>2. totalShares = sum(s) + escrowed(M)
      BY ONLY <1>6, <1>7, <2>1
    <2> QED BY <1>2, <2>2 DEF s
  <1> QED BY <1>9, <1>10, <1>11 DEF SealedBooks

\* A step that writes the listing i and its bids, moves `in' tokens in and `to' shares to v.
LEMMA SealedWrite ==
    ASSUME SealedBooks, NEW i \in DOMAIN listings, NEW l \in Listing, NEW b \in [Users -> Bid],
           listings' = [listings EXCEPT ![i] = l], sealed' = [sealed EXCEPT ![i] = b], led(l, b),
           shares' \in [Users -> Nat], NEW q \in Int, NEW p \in Int,
           sum(shares') = sum(shares) + escrow_of(listings[i]) - escrow_of(l),
           held' = held + q, kept' = kept + p,
           q = owing(l, b) - owing(listings[i], sealed[i]) + p,
           UNCHANGED <<now, totalShares, totalDeposited, rewardPool>>
    PROVE  SealedBooks'
  <1> DEFINE L == listings   B == sealed   M == [L EXCEPT ![i] = l]   C == [B EXCEPT ![i] = b]
             x == owing(l, b)   y == owing(L[i], B[i])   e == escrow_of(l)   f == escrow_of(L[i])
  <1>1. L \in Seq(Listing) /\ B \in Seq([Users -> Bid]) /\ Len(B) = Len(L) /\ \A j \in DOMAIN L : led(L[j], B[j])
    BY DEF SealedBooks, SealedTyped
  <1>2. /\ M \in Seq(Listing) /\ C \in Seq([Users -> Bid]) /\ Len(C) = Len(M) /\ DOMAIN M = DOMAIN L
        /\ M[i] = l /\ C[i] = b /\ \A j \in DOMAIN L \ {i} : M[j] = L[j] /\ C[j] = B[j]
        /\ bids_owed(M, C) = bids_owed(L, B) + x - y
        /\ escrowed(M) = escrowed(L) + e - f
    <2>1. M = [L EXCEPT ![i] = l] /\ C = [B EXCEPT ![i] = b] /\ i \in DOMAIN L
          /\ L \in Seq(Listing) /\ B \in Seq([Users -> Bid]) /\ Len(B) = Len(L)
      BY <1>1
    <2> HIDE DEF L, B, M, C
    <2>2. one_written(L, B, i, l, b, M, C)
      BY ONLY <2>1, OneListing, l \in Listing, b \in [Users -> Bid]
    <2> QED BY <2>2 DEF one_written
  <1>3. listings' = M /\ sealed' = C
    OBVIOUS
  <1>4. x \in Int /\ y \in Int /\ e \in Int /\ f \in Int /\ bids_owed(L, B) \in Int /\ escrowed(L) \in Int
    <2>1. L[i] \in Listing /\ B[i] \in [Users -> Bid]
      BY <1>1, SealedEntries
    <2> QED BY <1>1, <2>1, OwingNat, ListingParts, SealedTotals
  <1>5. sum(shares) \in Int
    <2>1. shares \in [Users -> Int] /\ IsFiniteSet(Users)
      BY BaseAssumption DEF SealedBooks, SealedTyped
    <2> QED BY ONLY <2>1, SumType
  <1>6. /\ held = totalDeposited + rewardPool + kept + bids_owed(L, B) /\ totalShares = sum(shares) + escrowed(L)
        /\ held \in Int /\ kept \in Int /\ totalDeposited \in Int /\ rewardPool \in Int /\ totalShares \in Int
    BY DEF SealedBooks, SealedTyped
  <1> DEFINE s == sum(shares')   h == held'   k == kept'   z == sum(shares)
             o == bids_owed(L, B)   N == bids_owed(M, C)   v == escrowed(L)   w == escrowed(M)
             D == totalDeposited   P == rewardPool   T == totalShares   g == held   d == kept
  <1>7. h = g + q /\ k = d + p /\ s = z + f - e /\ q = x - y + p
    OBVIOUS
  <1>8. N = o + x - y /\ w = v + e - f
    BY <1>2
  <1>8a. /\ g = D + P + d + o /\ T = z + v /\ x \in Int /\ y \in Int /\ e \in Int /\ f \in Int
         /\ o \in Int /\ v \in Int /\ z \in Int
         /\ g \in Int /\ d \in Int /\ D \in Int /\ P \in Int /\ T \in Int
    BY <1>4, <1>5, <1>6
  <1> HIDE DEF M, C, L, B, x, y, e, f, s, h, k, z, o, N, v, w, D, P, T, g, d
  <1>9. h = D + P + k + N /\ h \in Int /\ k \in Int /\ T = s + w
    BY ONLY <1>7, <1>8, <1>8a, q \in Int, p \in Int
  <1>10. \A j \in DOMAIN M : led(M[j], C[j])
    BY <1>1, <1>2
  <1>11. SealedTyped'
    BY <1>2, <1>3, <1>9, <1>10 DEF SealedBooks, SealedTyped, h, k
  <1> QED BY <1>3, <1>9, <1>11 DEF SealedBooks, h, k, s, N, w, D, P, T

\* What a step needs to know of one listing.
LEMMA OneAuction ==
    ASSUME SealedBooks, NEW i \in DOMAIN listings
    PROVE  /\ listings[i] \in Listing /\ sealed[i] \in [Users -> Bid] /\ led(listings[i], sealed[i])
           /\ listings \in Seq(Listing) /\ sealed \in Seq([Users -> Bid]) /\ DOMAIN sealed = DOMAIN listings
           /\ held \in Int /\ kept \in Int /\ shares \in [Users -> Nat] /\ sum(shares) \in Int
           /\ owing(listings[i], sealed[i]) \in Nat /\ escrow_of(listings[i]) \in Nat
  <1>1. listings \in Seq(Listing) /\ sealed \in Seq([Users -> Bid]) /\ Len(sealed) = Len(listings)
    BY DEF SealedBooks, SealedTyped
  <1>2. listings[i] \in Listing /\ sealed[i] \in [Users -> Bid] /\ DOMAIN sealed = DOMAIN listings
    BY <1>1, SealedEntries
  <1>3. sum(shares) \in Int
    <2>1. shares \in [Users -> Int] /\ IsFiniteSet(Users)
      BY BaseAssumption DEF SealedBooks, SealedTyped
    <2> QED BY ONLY <2>1, SumType
  <1>4. owing(listings[i], sealed[i]) \in Nat /\ escrow_of(listings[i]) \in Nat
    BY <1>2, OwingNat, ListingParts
  <1> QED BY <1>1, <1>2, <1>3, <1>4 DEF SealedBooks, SealedTyped

\* A commitment locks the minimum once.
LEMMA CommitBidKeeps ==
    ASSUME SealedBooks, NEW u \in Users, NEW i \in DOMAIN listings, NEW amount \in Amounts, commit_bid(u, i, amount)
    PROVE  SealedBooks'
  <1> DEFINE l == listings[i]   B == sealed[i]   old == B[u]
             k == IF old = NoBid THEN l.min ELSE old.locked
             bid == [old EXCEPT !.hash = amount, !.locked = k]   b == [B EXCEPT ![u] = bid]
             q == k - old.locked
  <1>1. /\ l \in Listing /\ B \in [Users -> Bid] /\ led(l, B) /\ listings \in Seq(Listing)
        /\ held \in Int /\ kept \in Int /\ shares \in [Users -> Nat] /\ sum(shares) \in Int /\ amount \in Nat
    BY OneAuction, BaseAssumption
  <1>2. /\ ~l.settled /\ ~old.revealed /\ sealed' = [sealed EXCEPT ![i] = b]
        /\ UNCHANGED <<now, pool, rewardPool, listings, kept>>
        /\ IF old = NoBid THEN held' = held + l.min ELSE held' = held
    BY DEF commit_bid, pull
  <1>3. old \in Bid /\ old.locked \in Nat /\ l.min \in Nat /\ (old = NoBid => old.locked = 0)
        /\ l.winner \in Users \cup {Nobody} /\ l.settled \in BOOLEAN
    BY <1>1, BidParts, ListingParts DEF NoBid
  <1>3a. l = listings[i] /\ B = sealed[i]
    OBVIOUS
  <1> HIDE DEF l, B, old
  <1>4. k \in Nat /\ held' = held + q /\ q \in Int
    BY <1>1, <1>2, <1>3
  <1> HIDE DEF k
  <1>5. bid \in Bid /\ bid.locked = k /\ bid.revealed = old.revealed
    BY <1>1, <1>3, <1>4 DEF Bid
  <1> HIDE DEF bid
  <1>6. b \in [Users -> Bid] /\ b[u] = bid /\ \A v \in Users \ {u} : b[v] = B[v]
    BY <1>1, <1>5
  <1> HIDE DEF b
  <1>7. led(l, b)
    BY <1>1, <1>2, <1>3, <1>6 DEF led, old
  <1>8. owing(l, b) = owing(l, B) + k - old.locked
    <2>1. \A v \in Users \ {u} : claim_of(l, b, v) = claim_of(l, B, v)
      BY <1>6 DEF claim_of
    <2>2. claim_of(l, b, u) = k /\ claim_of(l, B, u) = old.locked
      BY <1>2, <1>5, <1>6 DEF claim_of, old
    <2>3. owing(l, b) = owing(l, B) + claim_of(l, b, u) - claim_of(l, B, u)
      BY <1>1, <1>6, <2>1, OneClaim
    <2> QED BY <2>2, <2>3
  <1>9. q = owing(l, b) - owing(l, B) + 0
    <2>1. owing(l, b) \in Nat /\ owing(l, B) \in Nat
      BY <1>1, <1>3, <1>4, <1>6, <1>8, OwingNat
    <2> DEFINE x == owing(l, b)   y == owing(l, B)   z == old.locked
    <2>2. x \in Int /\ y \in Int /\ z \in Int /\ k \in Int /\ x = y + k - z
      BY <1>3, <1>4, <1>8, <2>1
    <2> HIDE DEF x, y, z
    <2>3. k - z = x - y + 0
      BY ONLY <2>2
    <2> QED BY <2>3 DEF x, y, z
  <1>10. listings' = [listings EXCEPT ![i] = l]
    BY <1>1, <1>2 DEF l
  <1>11. sum(shares') = sum(shares) + escrow_of(l) - escrow_of(l) /\ shares' \in [Users -> Nat] /\ kept' = kept + 0
    BY <1>1, <1>2, ListingParts DEF pool
  <1> HIDE DEF q
  <1>12. sum(shares') = sum(shares) + escrow_of(listings[i]) - escrow_of(l)
    BY ONLY <1>3a, <1>11
  <1>13. q = owing(l, b) - owing(listings[i], sealed[i]) + 0
    BY ONLY <1>3a, <1>9
  <1>14. /\ listings' = [listings EXCEPT ![i] = l] /\ sealed' = [sealed EXCEPT ![i] = b] /\ led(l, b)
         /\ l \in Listing /\ b \in [Users -> Bid] /\ shares' \in [Users -> Nat] /\ q \in Int
         /\ held' = held + q /\ kept' = kept + 0
    BY ONLY <1>1, <1>2, <1>4, <1>6, <1>7, <1>10, <1>11
  <1>15. UNCHANGED <<now, totalShares, totalDeposited, rewardPool>>
    BY <1>2 DEF pool
  <1> HIDE DEF q, b
  <1>16. 0 \in Int
    OBVIOUS
  <1> QED BY ONLY <1>12, <1>13, <1>14, <1>15, <1>16, SealedBooks, i \in DOMAIN listings, SealedWrite

\* A revealed bid is locked in full and may lead.
LEMMA RevealBidKeeps ==
    ASSUME SealedBooks, NEW u \in Users, NEW i \in DOMAIN listings, reveal_bid(u, i)
    PROVE  SealedBooks'
  <1> DEFINE l == listings[i]   B == sealed[i]   old == B[u]   amount == old.hash
             bid == [old EXCEPT !.locked = amount, !.revealed = TRUE]   b == [B EXCEPT ![u] = bid]
             top == [l EXCEPT !.highest = amount, !.winner = u]
             m == IF amount > l.highest THEN top ELSE l
             q == amount - old.locked
  <1>1. /\ l \in Listing /\ B \in [Users -> Bid] /\ led(l, B) /\ listings \in Seq(Listing)
        /\ held \in Int /\ kept \in Int /\ shares \in [Users -> Nat] /\ sum(shares) \in Int
    BY OneAuction
  <1>2. /\ ~l.settled /\ ~old.revealed /\ sealed' = [sealed EXCEPT ![i] = b]
        /\ UNCHANGED <<now, pool, rewardPool, kept>> /\ held' = held + q
        /\ listings' = IF amount > l.highest THEN [listings EXCEPT ![i] = top] ELSE listings
    BY DEF reveal_bid, pull
  <1>3. old \in Bid /\ old.locked \in Nat /\ amount \in Nat /\ l.highest \in Nat
        /\ l.winner \in Users \cup {Nobody} /\ l.settled \in BOOLEAN
    BY <1>1, BidParts, ListingParts
  <1>4. listings' = [listings EXCEPT ![i] = m]
    <2>1. [listings EXCEPT ![i] = l] = listings
      BY <1>1
    <2> HIDE DEF top, amount, l
    <2> QED BY <1>2, <2>1
  <1>4a. l = listings[i] /\ B = sealed[i]
    OBVIOUS
  <1> HIDE DEF l, B, old, amount
  <1>5. bid \in Bid /\ bid.locked = amount /\ bid.revealed
    BY <1>3 DEF Bid
  <1> HIDE DEF bid
  <1>6. b \in [Users -> Bid] /\ b[u] = bid /\ \A v \in Users \ {u} : b[v] = B[v]
    BY <1>1, <1>5
  <1> HIDE DEF b
  <1>7. top \in Listing /\ top.winner = u /\ top.highest = amount /\ top.settled = l.settled /\ top.shares = l.shares
    BY <1>1, <1>3 DEF Listing
  <1> HIDE DEF top
  <1>8. m \in Listing /\ ~m.settled /\ escrow_of(m) = escrow_of(l) /\ led(m, b)
    BY <1>1, <1>2, <1>3, <1>5, <1>6, <1>7 DEF led, escrow_of, old
  <1> HIDE DEF m
  <1>9. owing(m, b) = owing(l, B) + amount - old.locked
    <2>1. \A v \in Users \ {u} : claim_of(m, b, v) = claim_of(l, B, v)
      BY <1>2, <1>6, <1>8 DEF claim_of
    <2>2. claim_of(m, b, u) = amount /\ claim_of(l, B, u) = old.locked
      BY <1>2, <1>5, <1>6, <1>8 DEF claim_of, old
    <2>3. owing(m, b) = owing(l, B) + claim_of(m, b, u) - claim_of(l, B, u)
      BY <1>1, <1>6, <1>8, <2>1, OneClaim
    <2> QED BY <2>2, <2>3
  <1>10. q = owing(m, b) - owing(l, B) + 0 /\ q \in Int
    <2>1. owing(m, b) \in Nat /\ owing(l, B) \in Nat
      BY <1>1, <1>3, <1>6, <1>8, <1>9, OwingNat
    <2> DEFINE x == owing(m, b)   y == owing(l, B)   z == old.locked
    <2>2. x \in Int /\ y \in Int /\ z \in Int /\ amount \in Int /\ x = y + amount - z
      BY <1>3, <1>9, <2>1
    <2> HIDE DEF x, y, z
    <2>3. amount - z = x - y + 0 /\ amount - z \in Int
      BY ONLY <2>2
    <2> QED BY <2>3 DEF x, y, z
  <1>11. sum(shares') = sum(shares) + escrow_of(l) - escrow_of(m) /\ shares' \in [Users -> Nat] /\ kept' = kept + 0
    BY <1>1, <1>2, <1>8, ListingParts DEF pool
  <1> HIDE DEF q
  <1>12. sum(shares') = sum(shares) + escrow_of(listings[i]) - escrow_of(m)
    BY ONLY <1>4a, <1>11
  <1>13. q = owing(m, b) - owing(listings[i], sealed[i]) + 0
    BY ONLY <1>4a, <1>10
  <1>14. /\ listings' = [listings EXCEPT ![i] = m] /\ sealed' = [sealed EXCEPT ![i] = b] /\ led(m, b)
         /\ m \in Listing /\ b \in [Users -> Bid] /\ shares' \in [Users -> Nat] /\ q \in Int
         /\ held' = held + q /\ kept' = kept + 0
    BY ONLY <1>1, <1>2, <1>4, <1>6, <1>8, <1>10, <1>11
  <1>15. UNCHANGED <<now, totalShares, totalDeposited, rewardPool>>
    BY <1>2 DEF pool
  <1> HIDE DEF q, b, m
  <1>16. 0 \in Int
    OBVIOUS
  <1> QED BY ONLY <1>12, <1>13, <1>14, <1>15, <1>16, SealedBooks, i \in DOMAIN listings, SealedWrite

\* The position goes to the winner and its bid to the seller, or back to the seller.
LEMMA SettleAuctionKeeps ==
    ASSUME SealedBooks, NEW i \in DOMAIN listings, settle_auction(i)
    PROVE  SealedBooks'
  <1> DEFINE l == listings[i]   B == sealed[i]   m == [l EXCEPT !.settled = TRUE]   w == l.winner
             to == IF w = Nobody THEN l.seller ELSE w   q == IF w = Nobody THEN 0 ELSE 0 - l.highest
             s == [shares EXCEPT ![to] = shares[to] + l.shares]
  <1>1. /\ l \in Listing /\ B \in [Users -> Bid] /\ led(l, B) /\ sealed \in Seq([Users -> Bid])
        /\ held \in Int /\ kept \in Int /\ shares \in [Users -> Nat] /\ sum(shares) \in Int
    BY OneAuction
  <1>2. /\ l.seller \in Users /\ w \in Users \cup {Nobody} /\ l.highest \in Nat /\ l.shares \in Nat
        /\ l.settled \in BOOLEAN /\ Nobody \notin Users
    BY <1>1, ListingParts, BaseAssumption
  <1>3. /\ ~l.settled /\ listings' = [listings EXCEPT ![i] = m] /\ sealed' = sealed
        /\ UNCHANGED <<now, totalShares, totalDeposited, rewardPool, kept>>
    BY DEF settle_auction
  <1>4. held' = held + q /\ shares' = s
    BY <1>1, <1>2 DEF settle_auction, push
  <1>5. sealed' = [sealed EXCEPT ![i] = B]
    BY <1>1, <1>3
  <1>5a. l = listings[i] /\ B = sealed[i]
    OBVIOUS
  <1> HIDE DEF l, B
  <1>6. m \in Listing /\ m.settled /\ m.winner = w /\ m.highest = l.highest
    BY <1>1 DEF Listing
  <1> HIDE DEF m
  <1>7. led(m, B) /\ escrow_of(m) = 0 /\ escrow_of(l) = l.shares
    BY <1>1, <1>3, <1>6 DEF led, escrow_of
  <1>8. owing(m, B) = owing(l, B) + q
    <2>1. CASE w = Nobody
      <3>1. \A v \in Users : claim_of(m, B, v) = claim_of(l, B, v)
        BY <1>2, <1>3, <1>6, <2>1 DEF claim_of
      <3>2. [v \in Users |-> claim_of(m, B, v)] = [v \in Users |-> claim_of(l, B, v)]
        BY <3>1
      <3>3. owing(m, B) = owing(l, B) /\ owing(l, B) \in Nat
        BY <1>1, <3>2, OwingNat DEF owing
      <3> QED BY <2>1, <3>3
    <2>2. CASE w # Nobody
      <3>1. w \in Users /\ \A v \in Users \ {w} : claim_of(m, B, v) = claim_of(l, B, v)
        BY <1>2, <1>3, <1>6, <2>2 DEF claim_of
      <3>2. claim_of(m, B, w) = 0 /\ claim_of(l, B, w) = l.highest
        BY <1>1, <1>3, <1>6, <2>2 DEF claim_of, led
      <3>3. owing(m, B) = owing(l, B) + claim_of(m, B, w) - claim_of(l, B, w)
        BY <1>1, <1>6, <3>1, OneClaim
      <3>4. owing(l, B) \in Nat
        BY <1>1, OwingNat
      <3> QED BY <1>2, <2>2, <3>2, <3>3, <3>4
    <2> QED BY <2>1, <2>2
  <1>9. q \in Int /\ q = owing(m, B) - owing(l, B) + 0
    <2>1. owing(m, B) \in Nat /\ owing(l, B) \in Nat
      BY <1>1, <1>2, <1>6, <1>8, OwingNat
    <2> DEFINE x == owing(m, B)   y == owing(l, B)
    <2> HIDE DEF x, y
    <2> QED BY <1>1, <1>2, <1>6, <1>8, <2>1 DEF x, y
  <1>10. to \in Users /\ s \in [Users -> Nat] /\ sum(s) = sum(shares) + l.shares
    <2>1. to \in Users
      BY <1>2
    <2> HIDE DEF to
    <2>2. /\ s \in [Users -> Nat] /\ s \in [Users -> Int] /\ shares \in [Users -> Int] /\ IsFiniteSet(Users)
          /\ s[to] = shares[to] + l.shares /\ \A v \in Users \ {to} : s[v] = shares[v]
      BY <1>1, <1>2, <2>1, BaseAssumption
    <2> HIDE DEF s
    <2>3. sum(s) = sum(shares) + s[to] - shares[to]
      BY ONLY <2>1, <2>2, SumChange
    <2> QED BY <1>1, <1>2, <2>1, <2>2, <2>3
  <1>11. sum(shares') = sum(shares) + escrow_of(l) - escrow_of(m) /\ shares' \in [Users -> Nat] /\ kept' = kept + 0
    <2> HIDE DEF s
    <2> QED BY <1>1, <1>2, <1>3, <1>4, <1>7, <1>10
  <1> HIDE DEF q, s
  <1>12. sum(shares') = sum(shares) + escrow_of(listings[i]) - escrow_of(m)
    BY ONLY <1>5a, <1>11
  <1>13. q = owing(m, B) - owing(listings[i], sealed[i]) + 0
    BY ONLY <1>5a, <1>9
  <1>14. /\ listings' = [listings EXCEPT ![i] = m] /\ sealed' = [sealed EXCEPT ![i] = B] /\ led(m, B)
         /\ m \in Listing /\ B \in [Users -> Bid] /\ shares' \in [Users -> Nat] /\ q \in Int
         /\ held' = held + q /\ kept' = kept + 0
    BY ONLY <1>1, <1>3, <1>4, <1>5, <1>6, <1>7, <1>9, <1>11
  <1>15. UNCHANGED <<now, totalShares, totalDeposited, rewardPool>>
    BY <1>3 DEF pool
  <1> HIDE DEF q, m
  <1>16. 0 \in Int
    OBVIOUS
  <1> QED BY ONLY <1>12, <1>13, <1>14, <1>15, <1>16, SealedBooks, i \in DOMAIN listings, SealedWrite

\* The sweep: what the losers claim leaves, or stays with the contract as forfeited.
LEMMA RefundBidsKeeps ==
    ASSUME SealedBooks, NEW i \in DOMAIN listings, refund_losing_bids(i)
    PROVE  SealedBooks'
  <1> DEFINE l == listings[i]   B == sealed[i]   w == l.winner
             losers == {u \in Users : u # w /\ B[u].locked > 0}
             back == {u \in losers : B[u].revealed}
             gone == losers \ back
             R == [u \in back |-> B[u].locked]   G == [u \in gone |-> B[u].locked]
             b == [u \in Users |-> IF u \in losers THEN [B[u] EXCEPT !.locked = 0] ELSE B[u]]
             p == IF HasTreasury THEN 0 ELSE sum(G)
             leaving == sum(R) + IF HasTreasury THEN sum(G) ELSE 0
             q == 0 - leaving
  <1>1. /\ l \in Listing /\ B \in [Users -> Bid] /\ led(l, B) /\ listings \in Seq(Listing)
        /\ held \in Int /\ kept \in Int /\ shares \in [Users -> Nat] /\ sum(shares) \in Int /\ HasTreasury \in BOOLEAN
        /\ IsFiniteSet(Users)
    BY OneAuction, MarketAssumption, BaseAssumption
  <1>2. /\ l.settled /\ sealed' = [sealed EXCEPT ![i] = b] /\ held' = held - leaving /\ kept' = kept + p
        /\ UNCHANGED <<now, pool, rewardPool, listings>>
    BY DEF refund_losing_bids
  <1>3. \A u \in Users : B[u] \in Bid /\ B[u].locked \in Nat /\ B[u].revealed \in BOOLEAN
    BY <1>1, BidParts
  <1>4. listings' = [listings EXCEPT ![i] = l]
    BY <1>1, <1>2
  <1> HIDE DEF l, B, w
  <1>5. /\ b \in [Users -> Bid]
        /\ \A u \in Users : IF u \in losers THEN b[u].locked = 0 ELSE b[u] = B[u]
    BY <1>1, <1>3 DEF Bid
  <1>6. led(l, b)
    <2>1. w \in Users \cup {Nobody} /\ w \notin losers
      BY <1>1, ListingParts DEF w
    <2> HIDE DEF b
    <2> QED BY <1>1, <1>5, <2>1 DEF led, w
  <1> DEFINE f == [u \in Users |-> claim_of(l, B, u)]   g == [u \in Users |-> claim_of(l, b, u)]
             r == [u \in Users |-> IF u \in back THEN B[u].locked ELSE 0]
             s == [u \in Users |-> IF u \in gone THEN B[u].locked ELSE 0]
  <1>7. f \in [Users -> Int] /\ r \in [Users -> Int] /\ s \in [Users -> Int] /\ g \in [Users -> Int]
    <2>1. \A u \in Users : claim_of(l, B, u) \in Int /\ claim_of(l, b, u) \in Int
      <3> HIDE DEF b
      <3> QED BY <1>1, <1>5, OwingNat
    <2> HIDE DEF b
    <2> QED BY <1>3, <2>1
  <1>8. \A u \in Users : f[u] = r[u] + s[u]
    BY <1>2, <1>3 DEF claim_of, w
  <1>9. \A u \in Users : g[u] = 0
    <2> HIDE DEF b
    <2> QED BY <1>2, <1>3, <1>5 DEF claim_of, w
  <1>10. owing(l, B) = sum(f) /\ owing(l, b) = sum(g)
    BY DEF owing
  <1>11. back \subseteq Users /\ gone \subseteq Users /\ R \in [back -> Int] /\ G \in [gone -> Int]
         /\ (\A u \in back : R[u] = r[u]) /\ (\A u \in gone : G[u] = s[u])
         /\ (\A u \in Users \ back : r[u] = 0) /\ (\A u \in Users \ gone : s[u] = 0)
    BY <1>3
  <1> HIDE DEF f, g, r, s, R, G, back, gone, losers, b
  <1>12. sum(R) = sum(r)
    <2>1. IsFiniteSet(Users) /\ r \in [Users -> Int] /\ back \subseteq Users /\ R \in [back -> Int]
          /\ (\A u \in back : R[u] = r[u]) /\ \A u \in Users \ back : r[u] = 0
      BY <1>1, <1>7, <1>11
    <2> QED BY ONLY <2>1, SumWhere
  <1>13. sum(G) = sum(s)
    <2>1. IsFiniteSet(Users) /\ s \in [Users -> Int] /\ gone \subseteq Users /\ G \in [gone -> Int]
          /\ (\A u \in gone : G[u] = s[u]) /\ \A u \in Users \ gone : s[u] = 0
      BY <1>1, <1>7, <1>11
    <2> QED BY ONLY <2>1, SumWhere
  <1>14. sum(f) = sum(r) + sum(s) /\ sum(r) \in Int /\ sum(s) \in Int
    <2>1. IsFiniteSet(Users) /\ r \in [Users -> Int] /\ s \in [Users -> Int] /\ f \in [Users -> Int]
      BY <1>1, <1>7
    <2>2. sum(f) = sum(r) + sum(s)
      BY ONLY <1>8, <2>1, SumSplit
    <2>3. sum(r) \in Int /\ sum(s) \in Int
      BY ONLY <2>1, SumType
    <2> QED BY <2>2, <2>3
  <1>15. sum(g) = 0
    BY ONLY <1>1, <1>7, <1>9, SumZero
  <1>16. q = owing(l, b) - owing(l, B) + p /\ q \in Int /\ p \in Int
    BY <1>1, <1>10, <1>12, <1>13, <1>14, <1>15
  <1>17. held' = held + q
    BY <1>1, <1>2, <1>12, <1>13, <1>14
  <1>18. sum(shares') = sum(shares) + escrow_of(l) - escrow_of(l) /\ shares' \in [Users -> Nat]
    BY <1>1, <1>2, ListingParts DEF pool
  <1> HIDE DEF q, p, leaving
  <1> QED BY <1>1, <1>2, <1>4, <1>5, <1>6, <1>16, <1>17, <1>18, SealedWrite DEF l, B, pool

SealedInv == focus = "sealed" => SealedBooks

\* Every step keeps the auctions' books.
LEMMA SealedInvStep == ASSUME SealedInv, [FundsNext]_funds_vars PROVE SealedInv'
  <1>1. CASE focus # "sealed"
    BY <1>1 DEF SealedInv, FundsNext, funds_vars
  <1>2. CASE focus = "sealed"
    <2>1. SealedBooks /\ UNCHANGED focus /\ (SealedNext \/ MarketTick \/ UNCHANGED <<base_vars, market_vars>>)
      BY <1>2, SealedStep DEF SealedInv
    <2> SUFFICES SealedBooks'
      BY DEF SealedInv
    <2>2. CASE UNCHANGED <<base_vars, market_vars>>
      BY <2>1, <2>2 DEF SealedBooks, SealedTyped, base_vars, pool, market_vars, sealed_vars
    <2>3. CASE MarketTick
      <3>1. now' \in Nat
        BY <2>1, <2>3, TickNat DEF SealedBooks, SealedTyped, MarketTick
      <3> QED BY <2>1, <2>3, <3>1 DEF SealedBooks, SealedTyped, MarketTick, pool, market_vars, sealed_vars
    <2>4. CASE SealedNext
      BY <2>1, <2>4, ListPositionKeeps, CommitBidKeeps, RevealBidKeeps, SettleAuctionKeeps, RefundBidsKeeps
         DEF SealedNext
    <2> QED BY <2>1, <2>2, <2>3, <2>4
  <1> QED BY <1>1, <1>2

LEMMA SealedInvInit == FundsInit => SealedInv
  BY SealedBooksInit DEF SealedInv

\* Commit-reveal auction (position_sealed_bid_auction.rs): whatever is re-committed, left
\* unrevealed, won by nobody or swept twice, the contract holds beyond its own tokens
\* exactly the bids not yet paid to a seller, a loser or the treasury.
THEOREM SealedBidsAreSettled == FundsSpec => []SealedBidsPaidOnce
  <1>1. SealedInv => SealedBidsPaidOnce
    <2> SUFFICES ASSUME SealedBooks PROVE sealed_balanced
      BY DEF SealedInv, SealedBidsPaidOnce
    <2> DEFINE owed(i) == sum([u \in {u \in Users : ~(listings[i].settled /\ u = listings[i].winner)} |-> sealed[i][u].locked])
               f == [i \in DOMAIN listings |-> owing(listings[i], sealed[i])]
    <2>1. ASSUME NEW i \in DOMAIN listings PROVE owed(i) = owing(listings[i], sealed[i])
      <3> DEFINE l == listings[i]   b == sealed[i]   T == {u \in Users : ~(l.settled /\ u = l.winner)}
                 g == [u \in T |-> b[u].locked]   h == [u \in Users |-> claim_of(l, b, u)]
      <3>1. l \in Listing /\ b \in [Users -> Bid] /\ IsFiniteSet(Users) /\ T \subseteq Users
        BY OneAuction, BaseAssumption
      <3> HIDE DEF l, b
      <3>2. h \in [Users -> Int] /\ g \in [T -> Int]
        BY <3>1, OwingNat, BidParts
      <3>3. (\A u \in T : g[u] = h[u]) /\ \A u \in Users \ T : h[u] = 0
        BY DEF claim_of
      <3> HIDE DEF g, h, T
      <3>4. sum(g) = sum(h)
        BY ONLY <3>1, <3>2, <3>3, SumWhere
      <3> QED BY <3>4 DEF owing, g, h, T, l, b
    <2>2. f = [i \in DOMAIN listings |-> owed(i)]
      BY <2>1
    <2>3. held = totalDeposited + rewardPool + kept + sum(f)
      BY DEF SealedBooks, bids_owed
    <2> HIDE DEF f
    <2> QED BY <2>2, <2>3 DEF sealed_balanced
  <1> QED BY <1>1, SealedInvInit, SealedInvStep, PTL DEF FundsSpec, funds_vars

\* No auction step touches the offers: none to oneself is ever accepted beside them.
OffersBeside == focus = "sealed" => phantom = 0
LEMMA NoOffersBeside == ASSUME OffersBeside, [FundsNext]_funds_vars PROVE OffersBeside'
  <1> USE DEF OffersBeside
  <1>1. CASE focus # "sealed"
    BY <1>1 DEF FundsNext, funds_vars
  <1>2. CASE focus = "sealed"
    <2>1. UNCHANGED focus /\ (SealedNext \/ MarketTick \/ UNCHANGED <<base_vars, market_vars>>)
      BY <1>2, SealedStep
    <2>2. phantom' = phantom
      BY <2>1 DEF SealedNext, MarketTick, market_vars, swap_vars, list_position_for_auction, commit_bid, reveal_bid,
                  settle_auction, refund_losing_bids
    <2> QED BY <1>2, <2>2
  <1> QED BY <1>1, <1>2

\* In the focus of the swaps only the offers, exits and the clock run.
LEMMA SwapStep ==
    ASSUME focus = "swap", [FundsNext]_funds_vars
    PROVE  UNCHANGED focus /\ (SwapNext \/ MarketTick \/ UNCHANGED <<base_vars, market_vars>>)
  BY DEF FundsNext, funds_vars, capacity_step, market_step, contest_step, campaign_step, claim_step,
         subpool_step, position_step, outside_step, ballot_step, safeguard_step, wind_step, shared_step

\* An open offer, and the place of one that is gone.
Offer == [from : Users, to : Users, give : Nat, take : Nat, expires : Int]
Offers == Seq(Offer \cup {<<>>})

SwapBooks ==
    /\ shares \in [Users -> Nat] /\ totalShares \in Int /\ totalDeposited \in Int /\ now \in Nat
    /\ offers \in Offers /\ phantom \in Int /\ listings = <<>>
    /\ totalShares + phantom = sum(shares)

\* An accepted offer moves shares between two balances; the second write of an offer to
\* oneself makes the difference.
LEMMA AcceptKeeps ==
    ASSUME SwapBooks, NEW id \in DOMAIN offers, accept_swap_offer(id)
    PROVE  SwapBooks'
  <1> DEFINE o == offers[id]   x == o.from   y == o.to
             give == amount_to_shares(totalShares, totalDeposited, o.give)
             take == amount_to_shares(totalShares, totalDeposited, o.take)
             mine == shares[x] - give + take   theirs == shares[y] - take + give
             t == [shares EXCEPT ![x] = mine, ![y] = theirs]
             d == IF x = y THEN give - take ELSE 0
  <1>1. /\ shares \in [Users -> Nat] /\ totalShares \in Int /\ totalDeposited \in Int /\ offers \in Offers
        /\ phantom \in Int /\ totalShares + phantom = sum(shares)
    BY DEF SwapBooks
  <1>2. /\ o # <<>> /\ totalShares > 0 /\ totalDeposited > 0 /\ mine >= 0 /\ theirs >= 0
        /\ shares' = t /\ offers' = [offers EXCEPT ![id] = <<>>] /\ phantom' = phantom + d
        /\ UNCHANGED <<now, totalShares, totalDeposited, sealed_vars>>
    BY DEF accept_swap_offer
  <1>3. o \in Offer \cup {<<>>}
    BY <1>1 DEF Offers
  <1>4. x \in Users /\ y \in Users /\ o.give \in Nat /\ o.take \in Nat
    BY <1>2, <1>3 DEF Offer
  <1>5. give \in Nat /\ take \in Nat
    <2> DEFINE n == o.give   m == o.take
    <2>1. n \in Nat /\ m \in Nat /\ totalShares \in Nat /\ totalDeposited \in Nat
      BY <1>1, <1>2, <1>4
    <2> HIDE DEF n, m, o
    <2>2. amount_to_shares(totalShares, totalDeposited, n) \in Nat /\ amount_to_shares(totalShares, totalDeposited, m) \in Nat
      BY <2>1, MintDefaultNat
    <2> QED BY <2>2 DEF n, m
  <1> HIDE DEF give, take, x, y, o
  <1>6. mine \in Nat /\ theirs \in Nat /\ d \in Int
    <2> DEFINE e == shares[x]   f == shares[y]
    <2>1. e \in Nat /\ f \in Nat /\ e - give + take >= 0 /\ f - take + give >= 0
      BY <1>1, <1>2, <1>4
    <2> HIDE DEF e, f
    <2>2. e - give + take \in Nat /\ f - take + give \in Nat /\ give - take \in Int
      BY ONLY <1>5, <2>1
    <2> QED BY <2>2 DEF e, f
  <1>7. sum(t) = sum(shares) + d /\ t \in [Users -> Nat]
    <2> DEFINE u == mine   v == theirs   s == [shares EXCEPT ![x] = u]
    <2>1. u \in Nat /\ v \in Nat
      BY <1>6
    <2>2. /\ shares \in [Users -> Int] /\ s \in [Users -> Int] /\ t \in [Users -> Int] /\ t \in [Users -> Nat] /\ IsFiniteSet(Users)
          /\ (\A w \in Users \ {x} : s[w] = shares[w]) /\ s[x] = u
          /\ (\A w \in Users \ {y} : t[w] = s[w]) /\ t[y] = v
      <3>1. t = [shares EXCEPT ![x] = u, ![y] = v]
        OBVIOUS
      <3> HIDE DEF u, v, t
      <3>2. s \in [Users -> Nat] /\ (\A w \in Users \ {x} : s[w] = shares[w]) /\ s[x] = u
        BY ONLY <1>1, <1>4, <2>1
      <3>3. t = [s EXCEPT ![y] = v]
        BY ONLY <3>1
      <3> HIDE DEF s
      <3>4. t \in [Users -> Nat] /\ (\A w \in Users \ {y} : t[w] = s[w]) /\ t[y] = v
        BY ONLY <1>4, <2>1, <3>2, <3>3
      <3> QED BY <1>1, <3>2, <3>4, BaseAssumption
    <2>3. sum(s) = sum(shares) + s[x] - shares[x]
      <3> HIDE DEF s, t
      <3> QED BY ONLY <1>4, <2>2, SumChange
    <2>4. sum(t) = sum(s) + t[y] - s[y]
      <3> HIDE DEF s, t
      <3> QED BY ONLY <1>4, <2>2, SumChange
    <2>5. sum(shares) \in Int
      BY <2>2, SumType
    <2>6. s[y] = IF x = y THEN u ELSE shares[y]
      BY <1>4, <2>2
    <2>7. shares[x] \in Nat /\ shares[y] \in Nat
      BY <1>1, <1>4
    <2> DEFINE a == sum(s)   b == sum(t)   c == sum(shares)   e == shares[x]   f == shares[y]   g == s[y]
    <2>8. a = c + u - e /\ b = a + v - g /\ (x = y => g = u /\ e = f) /\ (x # y => g = f)
          /\ u = e - give + take /\ v = f - take + give
      BY <2>2, <2>3, <2>4, <2>6
    <2>9. c \in Int /\ e \in Nat /\ f \in Nat
      BY <2>5, <2>7
    <2>10. b = c + d
      <3> HIDE DEF a, b, c, e, f, g, u, v, s, t
      <3>1. CASE x = y
        BY <3>1, <1>5, <2>1, <2>8, <2>9
      <3>2. CASE x # y
        BY <3>2, <1>5, <2>1, <2>8, <2>9
      <3> QED BY <3>1, <3>2
    <2> QED BY <2>2, <2>10
  <1> HIDE DEF d, t, mine, theirs
  <1>8. offers' \in Offers
    <2>1. Len(offers) \in Nat /\ DOMAIN offers = 1..Len(offers) /\ \A i \in DOMAIN offers : offers[i] \in Offer \cup {<<>>}
      BY <1>1 DEF Offers
    <2>2. offers' \in [1..Len(offers) -> Offer \cup {<<>>}]
      BY <1>2, <2>1
    <2> QED BY <2>1, <2>2 DEF Offers
  <1>9. sum(shares) \in Int
    <2>1. shares \in [Users -> Int] /\ IsFiniteSet(Users)
      BY <1>1, BaseAssumption
    <2> QED BY ONLY <2>1, SumType
  <1>10. /\ shares' \in [Users -> Nat] /\ totalShares' = totalShares /\ totalDeposited' = totalDeposited /\ now' = now
         /\ phantom' = phantom + d /\ listings' = listings /\ sum(shares') = sum(shares) + d
    BY <1>2, <1>7 DEF sealed_vars
  <1>11. phantom' \in Int /\ totalShares' + phantom' = sum(shares')
    BY <1>1, <1>6, <1>9, <1>10
  <1> QED BY <1>8, <1>10, <1>11 DEF SwapBooks

\* Offers made and withdrawn, exits and the clock keep the balances counted.
LEMMA SwapMovesKeep ==
    ASSUME SwapBooks, SwapNext \/ MarketTick \/ UNCHANGED <<base_vars, market_vars>>
    PROVE  SwapBooks'
  <1>1. CASE UNCHANGED <<base_vars, market_vars>>
    BY <1>1 DEF SwapBooks, base_vars, pool, market_vars, swap_vars, sealed_vars
  <1>2. CASE MarketTick
    <2>1. now' \in Nat
      BY <1>2, TickNat DEF SwapBooks, MarketTick
    <2> QED BY <1>2, <2>1 DEF SwapBooks, MarketTick, pool, market_vars, swap_vars, sealed_vars
  <1>3. ASSUME NEW p \in OfferPairs, NEW a \in Amounts, NEW b \in Amounts, NEW n \in Durations,
               create_swap_offer(p[1], p[2], a, b, n)
        PROVE  SwapBooks'
    <2> DEFINE o == [from |-> p[1], to |-> p[2], give |-> a, take |-> b, expires |-> now + n]
    <2>1. p[1] \in Users /\ p[2] \in Users /\ a \in Nat /\ b \in Nat /\ now + n \in Int
      BY MarketAssumption, BaseAssumption DEF SwapBooks
    <2>2. offers' = Append(offers, o) /\ UNCHANGED <<base_vars, phantom, sealed_vars>>
      BY <1>3 DEF create_swap_offer
    <2>3. o \in Offer
      BY <2>1 DEF Offer
    <2> HIDE DEF o
    <2>4. offers' \in Offers
      BY <2>2, <2>3 DEF SwapBooks, Offers
    <2> QED BY <2>2, <2>4 DEF SwapBooks, base_vars, pool, sealed_vars
  <1>4. ASSUME NEW id \in DOMAIN offers, cancel_swap_offer(id) PROVE SwapBooks'
    <2>1. offers' = [offers EXCEPT ![id] = <<>>] /\ UNCHANGED <<base_vars, phantom, sealed_vars>>
      BY <1>4 DEF cancel_swap_offer
    <2>2. Len(offers) \in Nat /\ DOMAIN offers = 1..Len(offers) /\ \A i \in DOMAIN offers : offers[i] \in Offer \cup {<<>>}
      BY DEF SwapBooks, Offers
    <2>3. offers' \in [1..Len(offers) -> Offer \cup {<<>>}]
      BY <2>1, <2>2
    <2>4. offers' \in Offers
      BY <2>2, <2>3 DEF Offers
    <2> QED BY <2>1, <2>4 DEF SwapBooks, base_vars, pool, sealed_vars
  <1>5. ASSUME NEW u \in Users, leave(u), UNCHANGED market_vars PROVE SwapBooks'
    <2> DEFINE amount == amount_of(u)
    <2>1. /\ shares' = [shares EXCEPT ![u] = 0] /\ totalShares' = totalShares - shares[u] /\ now' = now
          /\ shares[u] > 0 /\ shares[u] <= totalShares /\ totalDeposited' = totalDeposited - amount
          /\ UNCHANGED <<offers, phantom, listings>>
      BY <1>5 DEF leave, market_vars, swap_vars, sealed_vars
    <2>2. shares \in [Users -> Int] /\ shares' \in [Users -> Nat] /\ shares' \in [Users -> Int] /\ IsFiniteSet(Users)
          /\ shares'[u] = 0 /\ (\A v \in Users \ {u} : shares'[v] = shares[v]) /\ shares[u] \in Nat
      BY <2>1, BaseAssumption DEF SwapBooks
    <2>3. sum(shares') = sum(shares) + shares'[u] - shares[u] /\ sum(shares) \in Int
      BY ONLY <2>2, SumChange, SumType, u \in Users
    <2>4. amount \in Int
      <3>1. totalShares \in Int /\ totalDeposited \in Int /\ shares[u] \in Nat /\ totalShares > 0
        BY <2>1, <2>2 DEF SwapBooks
      <3> DEFINE n == shares[u]
      <3>2. n \in Nat
        BY <3>1
      <3> HIDE DEF n
      <3>3. shares_to_amount(totalShares, totalDeposited, n) \in Int
        BY <3>1, <3>2 DEF shares_to_amount
      <3> QED BY <3>3 DEF amount_of, n
    <2> HIDE DEF amount
    <2>5. totalShares' \in Int /\ totalDeposited' \in Int /\ totalShares' + phantom' = sum(shares')
      BY <2>1, <2>2, <2>3, <2>4 DEF SwapBooks
    <2> QED BY <2>1, <2>2, <2>5 DEF SwapBooks
  <1> QED BY <1>1, <1>2, <1>3, <1>4, <1>5, AcceptKeeps DEF SwapNext

SwapInv == focus = "swap" => SwapBooks

LEMMA SwapInvInit == FundsInit => SwapInv
  <1> SUFFICES ASSUME FundsInit PROVE SwapBooks
    BY DEF SwapInv
  <1>1. BaseInitWith(Purse) /\ Purse \in Nat /\ listings = <<>> /\ offers = <<>> /\ phantom = 0
    BY BaseAssumption DEF FundsInit, BaseInit, MarketInit, SealedInit, SwapInit
  <1>2. now = 0 /\ shares \in [Users -> Nat] /\ totalShares = sum(shares) /\ totalShares \in Nat /\ totalDeposited \in Nat
    BY <1>1, BaseInitFacts
  <1> QED BY <1>1, <1>2 DEF SwapBooks, Offers

LEMMA SwapInvStep == ASSUME SwapInv, [FundsNext]_funds_vars PROVE SwapInv'
  <1>1. CASE focus # "swap"
    BY <1>1 DEF SwapInv, FundsNext, funds_vars
  <1>2. CASE focus = "swap"
    BY <1>2, SwapStep, SwapMovesKeep DEF SwapInv
  <1> QED BY <1>1, <1>2

\* Swap offers (vault.rs) and the commit-reveal auctions: a position in escrow is counted by
\* the total although no balance holds it, until it reaches the winner or returns; an offer
\* between two users mints and loses nothing, and one to oneself makes its difference.
THEOREM TradesMoveShares == FundsSpec => [](focus \in {"swap", "sealed"} => shares_only_change_hands)
  <1>1. SealedInv /\ OffersBeside => (focus = "sealed" => shares_only_change_hands)
    <2> SUFFICES ASSUME SealedBooks, phantom = 0 PROVE shares_only_change_hands
      BY DEF SealedInv, OffersBeside
    <2> DEFINE S == DOMAIN listings   T == {i \in S : ~listings[i].settled}
               f == [i \in S |-> escrow_of(listings[i])]   g == [i \in T |-> listings[i].shares]
    <2>1. IsFiniteSet(S) /\ \A i \in S : listings[i] \in Listing
      BY SealedEntries DEF SealedBooks, SealedTyped
    <2>2. \A i \in S : listings[i].shares \in Nat /\ escrow_of(listings[i]) \in Nat
      BY <2>1, ListingParts
    <2>3. f \in [S -> Int] /\ g \in [T -> Int] /\ T \subseteq S
      BY <2>2
    <2>4. (\A i \in T : g[i] = f[i]) /\ \A i \in S \ T : f[i] = 0
      BY DEF escrow_of
    <2>5. totalShares + phantom = sum(shares) + sum(f) /\ \A u \in Users : shares[u] >= 0
      BY DEF SealedBooks, SealedTyped, escrowed
    <2> HIDE DEF f, g, S, T
    <2>6. sum(g) = sum(f)
      BY ONLY <2>1, <2>3, <2>4, SumWhere
    <2> QED BY <2>5, <2>6 DEF shares_only_change_hands, g, T, S
  <1>2. SwapInv => (focus = "swap" => shares_only_change_hands)
    <2> SUFFICES ASSUME SwapBooks PROVE shares_only_change_hands
      BY DEF SwapInv
    <2> DEFINE T == {i \in DOMAIN listings : ~listings[i].settled}   g == [i \in T |-> listings[i].shares]
    <2>1. T = {} /\ DOMAIN g = {}
      BY DEF SwapBooks
    <2> HIDE DEF g
    <2>2. sum(g) = 0
      BY <2>1, SumEmpty DEF sum
    <2>3. shares \in [Users -> Int] /\ IsFiniteSet(Users) /\ \A u \in Users : shares[u] >= 0
      BY BaseAssumption DEF SwapBooks
    <2>4. sum(shares) \in Int
      BY ONLY <2>3, SumType
    <2>5. totalShares + phantom = sum(shares) + sum(g)
      BY <2>2, <2>4 DEF SwapBooks
    <2> QED BY <2>3, <2>5 DEF shares_only_change_hands, g, T
  <1>3. FundsInit => OffersBeside
    BY DEF OffersBeside, FundsInit, MarketInit, SwapInit
  <1>4. SealedInv /\ OffersBeside /\ SwapInv => (focus \in {"swap", "sealed"} => shares_only_change_hands)
    BY <1>1, <1>2
  <1> QED BY <1>3, <1>4, SealedInvInit, SealedInvStep, SwapInvInit, SwapInvStep, NoOffersBeside, PTL DEF FundsSpec, funds_vars

-------------------------------------------------------------------------------
(* Lockdrop, presale, mutual insurance and guarantee. *)

\* In the focus of a campaign only the campaigns' entry points run.
LEMMA CampaignStep ==
    ASSUME focus \in {"lockdrop", "presale", "mutual", "guarantee"}, [FundsNext]_funds_vars
    PROVE  UNCHANGED focus /\ (CampaignNext \/ UNCHANGED <<base_vars, campaign_vars>>)
  BY DEF FundsNext, funds_vars, capacity_step, market_step, contest_step, campaign_step, claim_step,
         subpool_step, position_step, outside_step, ballot_step, safeguard_step, wind_step, shared_step, CampaignNext

LEMMA MulPositive == ASSUME NEW x \in Nat, NEW y \in Nat, x > 0, y > 0 PROVE x * y \in Nat /\ x * y > 0
  <1>1. 1 * y <= x * y /\ x * y \in Nat
    BY MulMono, MulNat
  <1> QED BY <1>1

Commitment == [amount : Nat, duration : Nat, score : Nat, at : Int]
Lockdrop == [status : {"none", "open", "final"}, prize : Nat, endsAt : Nat, total : Nat, round : Nat]
Mutual == [active : BOOLEAN, period : Nat, fund : Int]
Loss == [claimant : Users, amount : Nat, for : Nat, against : Nat, endsAt : Nat, voters : SUBSET Users, open : BOOLEAN]

\* What the lockdrop has allotted to u and not paid: its allocation, until it is claimed.
due_of(A, X, u) == IF u \notin X THEN A[u] ELSE 0
promised(A, X) == sum([u \in Users |-> due_of(A, X, u)])

\* The scores that take part in the division, and the tokens locked.
score_of(K, c, u) == IF u \in K /\ c # NoCommitment THEN c.score ELSE 0
scored(K, C) == sum([u \in Users |-> score_of(K, C[u], u)])
locked_in(C) == sum([u \in Users |-> C[u].amount])

CampaignTyped ==
    /\ now \in Nat /\ held \in Int /\ shares \in [Users -> Nat] /\ totalShares \in Nat /\ totalDeposited \in Nat
    /\ rewardPool \in Int /\ mutual \in Mutual /\ losses \in Seq(Loss)
    /\ reservations \in [Users -> [amount : Nat, redeemed : BOOLEAN]]
    /\ lockdrop \in Lockdrop /\ commitments \in [Users -> Commitment] /\ committers \subseteq Users
    /\ allocation \in [Users -> Nat]

prize_open == IF lockdrop.status = "open" THEN lockdrop.prize ELSE 0
campaign_dues == promised(allocation, lockdropClaimed)

\* The total of an open campaign covers the scores it will be divided by, and the tokens
\* beyond the pool's own cover the locks, the prize, the promises and the fund.
CampaignBooks ==
    /\ CampaignTyped
    /\ \A u \in Users : commitments[u] # NoCommitment => commitments[u].score > 0
    /\ scored(committers, commitments) <= lockdrop.total
    /\ held >= totalDeposited + rewardPool + locked_in(commitments) + prize_open + campaign_dues + mutual.fund

LEMMA CommitmentParts ==
    ASSUME NEW c \in Commitment
    PROVE  c.amount \in Nat /\ c.duration \in Nat /\ c.score \in Nat /\ c.at \in Int
  BY DEF Commitment

\* The sums run over numbers.
due_numbers(K, A, X, C) ==
    /\ IsFiniteSet(Users)
    /\ [u \in Users |-> due_of(A, X, u)] \in [Users -> Nat]
    /\ [u \in Users |-> score_of(K, C[u], u)] \in [Users -> Nat]
    /\ [u \in Users |-> C[u].amount] \in [Users -> Nat]
    /\ promised(A, X) \in Nat /\ scored(K, C) \in Nat /\ locked_in(C) \in Nat

LEMMA DueFunctions ==
    ASSUME NEW K, NEW A \in [Users -> Nat], NEW X, NEW C \in [Users -> Commitment]
    PROVE  due_numbers(K, A, X, C)
  <1> DEFINE f == [u \in Users |-> due_of(A, X, u)]   g == [u \in Users |-> score_of(K, C[u], u)]
             h == [u \in Users |-> C[u].amount]
  <1>1. \A u \in Users : C[u].amount \in Nat /\ C[u].score \in Nat
    BY CommitmentParts
  <1>2. \A u \in Users : due_of(A, X, u) \in Nat /\ score_of(K, C[u], u) \in Nat
    BY <1>1 DEF due_of, score_of
  <1>3. f \in [Users -> Nat] /\ g \in [Users -> Nat] /\ h \in [Users -> Nat] /\ IsFiniteSet(Users)
    BY <1>1, <1>2, BaseAssumption
  <1>4. promised(A, X) = sum(f) /\ scored(K, C) = sum(g) /\ locked_in(C) = sum(h)
    BY DEF promised, scored, locked_in
  <1>5. sum(f) \in Nat /\ sum(g) \in Nat /\ sum(h) \in Nat
    <2> HIDE DEF f, g, h
    <2> QED BY ONLY <1>3, SumNat
  <1> QED BY <1>3, <1>4, <1>5 DEF due_numbers

\* One commitment is written: the sums move by the difference.
one_commitment(K, L, A, X, Y, C, D, u) ==
    /\ promised(A, Y) = promised(A, X) + due_of(A, Y, u) - due_of(A, X, u)
    /\ scored(L, D) = scored(K, C) + score_of(L, D[u], u) - score_of(K, C[u], u)
    /\ locked_in(D) = locked_in(C) + D[u].amount - C[u].amount

LEMMA OneCommitment ==
    ASSUME NEW K, NEW L, NEW A \in [Users -> Nat], NEW X, NEW Y, NEW C \in [Users -> Commitment],
           NEW D \in [Users -> Commitment], NEW u \in Users,
           \A v \in Users \ {u} : D[v] = C[v] /\ (v \in L <=> v \in K) /\ (v \in Y <=> v \in X)
    PROVE  one_commitment(K, L, A, X, Y, C, D, u)
  <1> DEFINE f1 == [v \in Users |-> due_of(A, X, v)]   f2 == [v \in Users |-> due_of(A, Y, v)]
             g1 == [v \in Users |-> score_of(K, C[v], v)]   g2 == [v \in Users |-> score_of(L, D[v], v)]
             h1 == [v \in Users |-> C[v].amount]   h2 == [v \in Users |-> D[v].amount]
  <1>1. IsFiniteSet(Users) /\ f1 \in [Users -> Nat] /\ f2 \in [Users -> Nat] /\ g1 \in [Users -> Nat]
        /\ g2 \in [Users -> Nat] /\ h1 \in [Users -> Nat] /\ h2 \in [Users -> Nat]
    <2>1. due_numbers(K, A, X, C)
      BY DueFunctions
    <2>2. due_numbers(L, A, Y, D)
      BY DueFunctions
    <2>3. IsFiniteSet(Users) /\ f1 \in [Users -> Nat] /\ g1 \in [Users -> Nat] /\ h1 \in [Users -> Nat]
      BY ONLY <2>1 DEF due_numbers
    <2>4. f2 \in [Users -> Nat] /\ g2 \in [Users -> Nat] /\ h2 \in [Users -> Nat]
      BY ONLY <2>2 DEF due_numbers
    <2> QED BY ONLY <2>3, <2>4
  <1>2. /\ \A v \in Users \ {u} : f2[v] = f1[v]
        /\ \A v \in Users \ {u} : g2[v] = g1[v]
        /\ \A v \in Users \ {u} : h2[v] = h1[v]
    BY DEF due_of, score_of
  <1>3. /\ f1[u] = due_of(A, X, u) /\ f2[u] = due_of(A, Y, u)
        /\ g1[u] = score_of(K, C[u], u) /\ g2[u] = score_of(L, D[u], u)
        /\ h1[u] = C[u].amount /\ h2[u] = D[u].amount
    OBVIOUS
  <1>4. /\ promised(A, X) = sum(f1) /\ promised(A, Y) = sum(f2) /\ scored(K, C) = sum(g1)
        /\ scored(L, D) = sum(g2) /\ locked_in(C) = sum(h1) /\ locked_in(D) = sum(h2)
    BY DEF promised, scored, locked_in
  <1> HIDE DEF f1, f2, g1, g2, h1, h2
  <1>5. /\ f1 \in [Users -> Int] /\ f2 \in [Users -> Int] /\ g1 \in [Users -> Int]
        /\ g2 \in [Users -> Int] /\ h1 \in [Users -> Int] /\ h2 \in [Users -> Int] /\ u \in Users /\ IsFiniteSet(Users)
    BY <1>1
  <1>6. sum(f2) = sum(f1) + f2[u] - f1[u]
    BY ONLY <1>2, <1>5, SumChange
  <1>7. sum(g2) = sum(g1) + g2[u] - g1[u]
    BY ONLY <1>2, <1>5, SumChange
  <1>8. sum(h2) = sum(h1) + h2[u] - h1[u]
    BY ONLY <1>2, <1>5, SumChange
  <1> QED BY <1>3, <1>4, <1>6, <1>7, <1>8 DEF one_commitment

\* What the books say in numbers.
LEMMA CampaignNumbers ==
    ASSUME CampaignTyped
    PROVE  /\ locked_in(commitments) \in Nat /\ campaign_dues \in Nat /\ scored(committers, commitments) \in Nat
           /\ prize_open \in Nat /\ mutual.fund \in Int /\ lockdrop.total \in Nat /\ lockdrop.prize \in Nat
           /\ lockdrop.endsAt \in Nat /\ lockdrop.round \in Nat /\ lockdrop.status \in {"none", "open", "final"}
           /\ held \in Int /\ totalDeposited \in Nat /\ rewardPool \in Int
           /\ \A u \in Users : commitments[u].amount \in Nat /\ commitments[u].score \in Nat /\ allocation[u] \in Nat
  <1>1. commitments \in [Users -> Commitment] /\ allocation \in [Users -> Nat] /\ lockdrop \in Lockdrop /\ mutual \in Mutual
        /\ held \in Int /\ totalDeposited \in Nat /\ rewardPool \in Int
    BY DEF CampaignTyped
  <1>2. /\ lockdrop.total \in Nat /\ lockdrop.prize \in Nat /\ mutual.fund \in Int /\ prize_open \in Nat
        /\ lockdrop.endsAt \in Nat /\ lockdrop.round \in Nat /\ lockdrop.status \in {"none", "open", "final"}
    BY <1>1 DEF Lockdrop, Mutual, prize_open
  <1>3. /\ locked_in(commitments) \in Nat /\ campaign_dues \in Nat /\ scored(committers, commitments) \in Nat
    <2>1. due_numbers(committers, allocation, lockdropClaimed, commitments)
      BY <1>1, DueFunctions
    <2> QED BY <2>1 DEF due_numbers, campaign_dues
  <1> QED BY <1>1, <1>2, <1>3, CommitmentParts

LEMMA CampaignBooksInit == ASSUME FundsInit PROVE CampaignBooks
  <1>1. BaseInitWith(Purse) /\ Purse \in Nat /\ LockdropInit /\ PresaleInit /\ MutualInit
    BY BaseAssumption DEF FundsInit, BaseInit, CampaignInit
  <1>2. /\ now = 0 /\ shares \in [Users -> Nat] /\ totalShares \in Nat
        /\ totalDeposited \in Nat /\ rewardPool \in Nat /\ held = totalDeposited + rewardPool
    BY <1>1, BaseInitFacts
  <1>3. NoCommitment \in Commitment /\ NoCommitment.amount = 0
    BY DEF NoCommitment, Commitment, NoLedger
  <1>4. /\ lockdrop = [status |-> "none", prize |-> 0, endsAt |-> 0, total |-> 0, round |-> 0]
        /\ commitments \in [Users -> Commitment] /\ (\A u \in Users : commitments[u] = NoCommitment)
        /\ committers = {} /\ allocation \in [Users -> Nat] /\ (\A u \in Users : allocation[u] = 0)
    BY <1>1, <1>3 DEF LockdropInit
  <1>5. lockdrop \in Lockdrop /\ lockdrop.total = 0 /\ prize_open = 0
    BY <1>4 DEF Lockdrop, prize_open
  <1>6. mutual \in Mutual /\ mutual.fund = 0 /\ losses \in Seq(Loss)
        /\ reservations \in [Users -> [amount : Nat, redeemed : BOOLEAN]]
    BY <1>1 DEF MutualInit, PresaleInit, Mutual
  <1>7. CampaignTyped
    BY <1>2, <1>4, <1>5, <1>6 DEF CampaignTyped
  <1>8. locked_in(commitments) = 0 /\ campaign_dues = 0 /\ scored(committers, commitments) = 0
    <2> DEFINE f == [u \in Users |-> due_of(allocation, lockdropClaimed, u)]
               g == [u \in Users |-> score_of(committers, commitments[u], u)]
               h == [u \in Users |-> commitments[u].amount]
    <2>1. (\A u \in Users : f[u] = 0) /\ (\A u \in Users : g[u] = 0) /\ (\A u \in Users : h[u] = 0)
      BY <1>3, <1>4 DEF due_of, score_of
    <2>2. f \in [Users -> Nat] /\ g \in [Users -> Nat] /\ h \in [Users -> Nat] /\ IsFiniteSet(Users)
      <3>1. due_numbers(committers, allocation, lockdropClaimed, commitments)
        BY <1>4, DueFunctions
      <3> QED BY <3>1, BaseAssumption DEF due_numbers
    <2>3. locked_in(commitments) = sum(h) /\ campaign_dues = sum(f) /\ scored(committers, commitments) = sum(g)
      BY DEF locked_in, campaign_dues, promised, scored
    <2> HIDE DEF f, g, h
    <2>4. f \in [Users -> Int] /\ g \in [Users -> Int] /\ h \in [Users -> Int]
      BY <2>2
    <2>5. sum(f) = 0 /\ sum(g) = 0 /\ sum(h) = 0
      BY ONLY <2>1, <2>2, <2>4, SumZero
    <2> QED BY <2>3, <2>5
  <1> QED BY <1>2, <1>4, <1>5, <1>6, <1>7, <1>8 DEF CampaignBooks

\* A step outside the lockdrop moves tokens, deposits, rewards and fund by what they are worth.
LEMMA CampaignKeeps ==
    ASSUME CampaignBooks, UNCHANGED lockdrop_vars, now' \in Nat, held' \in Int, shares' \in [Users -> Nat],
           totalShares' \in Nat, totalDeposited' \in Nat, rewardPool' \in Int, mutual' \in Mutual, losses' \in Seq(Loss),
           reservations' \in [Users -> [amount : Nat, redeemed : BOOLEAN]],
           held' - totalDeposited' - rewardPool' - mutual'.fund = held - totalDeposited - rewardPool - mutual.fund
    PROVE  CampaignBooks'
  <1>1. UNCHANGED <<lockdrop, commitments, committers, allocation, lockdropClaimed>>
    BY DEF lockdrop_vars
  <1>2. CampaignTyped'
    BY <1>1 DEF CampaignBooks, CampaignTyped
  <1>3. UNCHANGED <<prize_open, campaign_dues>> /\ UNCHANGED locked_in(commitments)
    BY <1>1 DEF prize_open, campaign_dues
  <1> DEFINE h == held'   D == totalDeposited'   R == rewardPool'   F == mutual'.fund
             l == locked_in(commitments)   p == prize_open   d == campaign_dues   m == mutual.fund
  <1>4. /\ h \in Int /\ D \in Int /\ R \in Int /\ F \in Int /\ l \in Int /\ p \in Int /\ d \in Int /\ m \in Int
        /\ h - D - R - F = held - totalDeposited - rewardPool - m
        /\ held >= totalDeposited + rewardPool + l + p + d + m
        /\ held \in Int /\ totalDeposited \in Int /\ rewardPool \in Int
    <2>1. CampaignTyped /\ mutual' \in Mutual
      BY DEF CampaignBooks
    <2>2. F \in Int
      BY <2>1 DEF Mutual
    <2> QED BY <2>1, <2>2, CampaignNumbers DEF CampaignBooks
  <1> HIDE DEF h, D, R, F, l, p, d, m
  <1>5. h >= D + R + l + p + d + F
    BY ONLY <1>4
  <1>6. held' >= totalDeposited' + rewardPool' + locked_in(commitments') + prize_open' + campaign_dues' + mutual'.fund
    BY <1>3, <1>5 DEF h, D, R, F, l, p, d
  <1> QED BY <1>1, <1>2, <1>6 DEF CampaignBooks

\* Steps that move no tokens of the campaigns: types only.
LEMMA CampaignQuiet ==
    ASSUME CampaignBooks, UNCHANGED <<held, pool, rewardPool, lockdrop_vars, reservations>>, now' \in Nat,
           mutual' \in Mutual, mutual'.fund = mutual.fund, losses' \in Seq(Loss)
    PROVE  CampaignBooks'
  <1>1. /\ held \in Int /\ shares \in [Users -> Nat] /\ totalShares \in Nat /\ totalDeposited \in Nat /\ rewardPool \in Int
        /\ reservations \in [Users -> [amount : Nat, redeemed : BOOLEAN]]
    BY DEF CampaignBooks, CampaignTyped
  <1>2. held' - totalDeposited' - rewardPool' - mutual'.fund = held - totalDeposited - rewardPool - mutual.fund
    BY DEF pool
  <1> QED BY <1>1, <1>2, CampaignKeeps DEF pool

\* The presale: a fee between purses, and a stake with its tokens.
LEMMA PresaleKeeps == ASSUME CampaignBooks, PresaleNext PROVE CampaignBooks'
  <1>1. CampaignTyped /\ now \in Nat /\ mutual \in Mutual /\ losses \in Seq(Loss)
        /\ reservations \in [Users -> [amount : Nat, redeemed : BOOLEAN]]
        /\ held \in Int /\ shares \in [Users -> Nat] /\ totalShares \in Nat /\ totalDeposited \in Nat /\ rewardPool \in Int
    BY DEF CampaignBooks, CampaignTyped
  <1>2. ASSUME NEW d \in Durations, start_presale(d) PROVE CampaignBooks'
    BY <1>1, <1>2, CampaignQuiet DEF start_presale, base_vars, mutual_vars
  <1>3. ASSUME cancel_presale PROVE CampaignBooks'
    BY <1>1, <1>3, CampaignQuiet DEF cancel_presale, base_vars, mutual_vars
  <1>4. ASSUME NEW u \in Users, NEW a \in Amounts, reserve_presale_spot(u, a) PROVE CampaignBooks'
    <2> DEFINE n == reservations[u].amount + a
    <2>1. a \in Nat /\ reservations[u].amount \in Nat
      BY <1>1, BaseAssumption
    <2>2. n \in Nat
      BY <2>1
    <2>3. reservations' = [reservations EXCEPT ![u] = [@ EXCEPT !.amount = n]]
      BY <1>4 DEF reserve_presale_spot
    <2> HIDE DEF n
    <2>4. reservations' \in [Users -> [amount : Nat, redeemed : BOOLEAN]]
      BY <1>1, <2>2, <2>3
    <2>5. UNCHANGED <<now, held, pool, rewardPool, lockdrop_vars, mutual, losses>>
      BY <1>4 DEF reserve_presale_spot, mutual_vars
    <2>6. held' - totalDeposited' - rewardPool' - mutual'.fund = held - totalDeposited - rewardPool - mutual.fund
      BY <2>5 DEF pool
    <2> QED BY <1>1, <2>4, <2>5, <2>6, CampaignKeeps DEF pool
  <1>5. ASSUME NEW u \in Users, redeem_presale_reservation(u) PROVE CampaignBooks'
    <2> DEFINE n == reservations[u].amount   minted == amount_to_shares(totalShares, totalDeposited, n)
    <2>1. n \in Nat
      BY <1>1
    <2>2. /\ held' = held + n /\ totalDeposited' = totalDeposited + n /\ totalShares' = totalShares + minted
          /\ shares' = [shares EXCEPT ![u] = @ + minted]
          /\ reservations' = [reservations EXCEPT ![u] = [@ EXCEPT !.redeemed = TRUE]]
          /\ UNCHANGED <<now, rewardPool, lockdrop_vars, mutual, losses>>
      BY <1>5 DEF redeem_presale_reservation, pull, mint_to, mutual_vars
    <2>3. minted \in Nat
      BY <1>1, <2>1, MintDefaultNat
    <2> HIDE DEF minted, n
    <2>4. shares' \in [Users -> Nat] /\ totalShares' \in Nat /\ totalDeposited' \in Nat /\ held' \in Int
          /\ reservations' \in [Users -> [amount : Nat, redeemed : BOOLEAN]]
      <3>1. shares' \in [Users -> Nat]
        BY ONLY <1>1, <2>2, <2>3
      <3>2. totalShares' \in Nat /\ totalDeposited' \in Nat
        BY ONLY <1>1, <2>1, <2>2, <2>3
      <3>3. held' \in Int
        BY ONLY <1>1, <2>1, <2>2
      <3>4. reservations' \in [Users -> [amount : Nat, redeemed : BOOLEAN]]
        BY ONLY <1>1, <2>2
      <3> QED BY <3>1, <3>2, <3>3, <3>4
    <2>5. held' - totalDeposited' - rewardPool' - mutual'.fund = held - totalDeposited - rewardPool - mutual.fund
      <3>1. mutual.fund \in Int
        BY <1>1, CampaignNumbers
      <3> DEFINE h == held'   D == totalDeposited'
      <3>2. h = held + n /\ D = totalDeposited + n
        BY <2>2
      <3> HIDE DEF h, D
      <3>3. h - D - rewardPool - mutual.fund = held - totalDeposited - rewardPool - mutual.fund
        BY ONLY <1>1, <2>1, <3>1, <3>2
      <3> QED BY <2>2, <3>3 DEF h, D
    <2> QED BY <1>1, <2>2, <2>4, <2>5, CampaignKeeps
  <1> QED BY <1>2, <1>3, <1>4, <1>5, PresaleNext DEF PresaleNext

\* The mutual fund: contributions and payouts move fund and tokens alike.
LEMMA MutualKeeps == ASSUME CampaignBooks, MutualNext PROVE CampaignBooks'
  <1>1. CampaignTyped /\ now \in Nat /\ mutual \in Mutual /\ losses \in Seq(Loss) /\ mutual.fund \in Int
        /\ reservations \in [Users -> [amount : Nat, redeemed : BOOLEAN]]
        /\ held \in Int /\ shares \in [Users -> Nat] /\ totalShares \in Nat /\ totalDeposited \in Nat /\ rewardPool \in Int
    BY CampaignNumbers DEF CampaignBooks, CampaignTyped
  <1>2. ASSUME NEW d \in Durations, enable_mutual_insurance(d) PROVE CampaignBooks'
    <2>1. d \in Nat
      BY BaseAssumption
    <2>2. mutual' \in Mutual /\ mutual'.fund = mutual.fund
      BY <1>1, <1>2, <2>1 DEF enable_mutual_insurance, Mutual
    <2> QED BY <1>1, <1>2, <2>2, CampaignQuiet DEF enable_mutual_insurance, base_vars, presale_vars
  <1>3. ASSUME disable_mutual_insurance PROVE CampaignBooks'
    <2>2. mutual' \in Mutual /\ mutual'.fund = mutual.fund
      BY <1>1, <1>3 DEF disable_mutual_insurance, Mutual
    <2> QED BY <1>1, <1>3, <2>2, CampaignQuiet DEF disable_mutual_insurance, base_vars, presale_vars
  <1>4. ASSUME NEW u \in Users, join_mutual_insurance(u) \/ leave_mutual_insurance(u) PROVE CampaignBooks'
    BY <1>1, <1>4, CampaignQuiet DEF join_mutual_insurance, leave_mutual_insurance, base_vars, presale_vars
  <1>5. ASSUME NEW u \in Users, NEW a \in Amounts, claim_reward_with_mutual_contribution(u, a) PROVE CampaignBooks'
    <2> DEFINE b == bps(a, FeeBps)   F == mutual.fund + b
    <2>1. a \in Nat /\ b \in Nat
      <3>1. a \in Nat /\ FeeBps \in 0..BPS_DENOMINATOR
        BY BaseAssumption, CampaignAssumption
      <3>2. FeeBps \in Nat
        BY <3>1 DEF BPS_DENOMINATOR
      <3> QED BY <3>1, <3>2, BpsNat
    <2>2. /\ rewardPool' = rewardPool - a /\ mutual' = [mutual EXCEPT !.fund = F] /\ held' = held - (a - b)
          /\ UNCHANGED <<now, pool, lockdrop_vars, reservations, losses>>
      BY <1>5 DEF claim_reward_with_mutual_contribution, push, presale_vars
    <2> HIDE DEF b
    <2>3. F \in Int
      BY <1>1, <2>1
    <2> HIDE DEF F
    <2>4. mutual' \in Mutual /\ mutual'.fund = F
      BY <1>1, <2>2, <2>3 DEF Mutual
    <2> DEFINE h == held'   R == rewardPool'
    <2>5. h = held - (a - b) /\ R = rewardPool - a /\ F = mutual.fund + b
      BY <2>2 DEF F
    <2> HIDE DEF h, R
    <2>6. h - totalDeposited - R - F = held - totalDeposited - rewardPool - mutual.fund /\ h \in Int /\ R \in Int
      BY ONLY <1>1, <2>1, <2>5
    <2>7. held' - totalDeposited' - rewardPool' - mutual'.fund = held - totalDeposited - rewardPool - mutual.fund
      BY <2>2, <2>4, <2>6 DEF h, R, pool
    <2> QED BY <1>1, <2>2, <2>4, <2>6, <2>7, CampaignKeeps DEF h, R, pool
  <1>6. ASSUME NEW u \in Users, NEW a \in Amounts, file_mutual_loss_claim(u, a) PROVE CampaignBooks'
    <2> DEFINE e == [claimant |-> u, amount |-> a, for |-> 0, against |-> 0,
                     endsAt |-> now + mutual.period, voters |-> {}, open |-> TRUE]
    <2>1. a \in Nat /\ now + mutual.period \in Nat
      BY <1>1, BaseAssumption DEF Mutual
    <2>2. e \in Loss
      BY <2>1 DEF Loss
    <2>3. losses' = Append(losses, e)
      BY <1>6 DEF file_mutual_loss_claim
    <2> HIDE DEF e
    <2>4. losses' \in Seq(Loss)
      BY <1>1, <2>2, <2>3
    <2> QED BY <1>1, <1>6, <2>4, CampaignQuiet DEF file_mutual_loss_claim, base_vars, presale_vars
  <1>7. ASSUME NEW i \in DOMAIN losses, NEW u \in Users, NEW a \in BOOLEAN, vote_on_mutual_loss(u, i, a) PROVE CampaignBooks'
    <2> DEFINE e == losses[i]   w == amount_of(u)
               f == e.for + IF a THEN w ELSE 0   g == e.against + IF a THEN 0 ELSE w   V == e.voters \cup {u}
    <2>1. e \in Loss
      BY <1>1
    <2>2. w \in Nat
      BY <1>1, RedeemNat DEF amount_of
    <2>3. losses' = [losses EXCEPT ![i] = [e EXCEPT !.voters = V, !.for = f, !.against = g]]
      BY <1>7 DEF vote_on_mutual_loss
    <2> HIDE DEF e, w
    <2>4. f \in Nat /\ g \in Nat /\ V \in SUBSET Users
      BY <2>1, <2>2 DEF Loss
    <2> HIDE DEF f, g, V
    <2>5. [e EXCEPT !.voters = V, !.for = f, !.against = g] \in Loss
      BY <2>1, <2>4 DEF Loss
    <2>6. losses' \in Seq(Loss)
      BY <1>1, <2>3, <2>5
    <2> QED BY <1>1, <1>7, <2>6, CampaignQuiet DEF vote_on_mutual_loss, base_vars, presale_vars
  <1>8. ASSUME NEW i \in DOMAIN losses, resolve_mutual_loss_claim(i) PROVE CampaignBooks'
    <2> DEFINE e == losses[i]   p == IF e.for > e.against THEN Min({e.amount, mutual.fund}) ELSE 0   F == mutual.fund - p
    <2>1. e \in Loss
      BY <1>1
    <2>2. /\ mutual' = [mutual EXCEPT !.fund = F] /\ held' = held - p
          /\ losses' = [losses EXCEPT ![i] = [e EXCEPT !.open = FALSE]]
          /\ UNCHANGED <<now, pool, rewardPool, lockdrop_vars, reservations>>
      BY <1>8 DEF resolve_mutual_loss_claim, push, presale_vars
    <2> HIDE DEF e
    <2>3. p \in Int
      <3> DEFINE x == e.amount   y == mutual.fund
      <3>1. x \in Int
        BY <2>1 DEF Loss
      <3>2. y \in Int
        BY <1>1
      <3>3. p = IF e.for > e.against THEN Min({x, y}) ELSE 0
        OBVIOUS
      <3> HIDE DEF x, y, p
      <3>4. Min({x, y}) \in Int
        BY ONLY <3>1, <3>2, MinMax
      <3> QED BY <3>3, <3>4
    <2> HIDE DEF p
    <2>4. F \in Int
      BY <1>1, <2>3
    <2> HIDE DEF F
    <2>5. mutual' \in Mutual /\ mutual'.fund = F
      BY <1>1, <2>2, <2>4 DEF Mutual
    <2>6. losses' \in Seq(Loss)
      <3>1. [e EXCEPT !.open = FALSE] \in Loss
        BY <2>1 DEF Loss
      <3> QED BY <1>1, <2>2, <3>1
    <2> DEFINE h == held'
    <2>7. h = held - p /\ F = mutual.fund - p
      BY <2>2 DEF F
    <2> HIDE DEF h
    <2>8. h - totalDeposited - rewardPool - F = held - totalDeposited - rewardPool - mutual.fund /\ h \in Int
      BY ONLY <1>1, <2>3, <2>7
    <2>9. held' - totalDeposited' - rewardPool' - mutual'.fund = held - totalDeposited - rewardPool - mutual.fund
      BY <2>2, <2>5, <2>8 DEF h, pool
    <2> QED BY <1>1, <2>2, <2>5, <2>6, <2>8, <2>9, CampaignKeeps DEF h, pool
  <1> QED BY <1>2, <1>3, <1>4, <1>5, <1>6, <1>7, <1>8, MutualNext DEF MutualNext

\* A new campaign: its prize comes with it, and nobody is scored yet.
LEMMA StartLockdropKeeps ==
    ASSUME CampaignBooks, NEW prize \in Amounts, NEW d \in Durations, start_lockdrop(prize, d)
    PROVE  CampaignBooks'
  <1> DEFINE C == commitments   A == allocation   X == lockdropClaimed   st == lockdrop.status   n == lockdrop.round + 1
             e == now + d
  <1>1. CampaignTyped /\ C \in [Users -> Commitment] /\ A \in [Users -> Nat] /\ st # "open" /\ n \in Nat /\ e \in Nat
        /\ prize \in Nat /\ {} \subseteq Users
    <2>1. CampaignTyped /\ now \in Nat /\ d \in Nat /\ prize \in Nat
      BY BaseAssumption DEF CampaignBooks, CampaignTyped
    <2>2. lockdrop.round \in Nat
      BY <2>1, CampaignNumbers
    <2>3. n \in Nat /\ e \in Nat
      BY <2>1, <2>2
    <2>4. C \in [Users -> Commitment] /\ A \in [Users -> Nat]
      BY <2>1 DEF CampaignTyped
    <2>5. st # "open"
      BY DEF start_lockdrop
    <2> QED BY <2>1, <2>3, <2>4, <2>5
  <1>2. /\ held' = held + prize /\ committers' = {}
        /\ lockdrop' = [status |-> "open", prize |-> prize, endsAt |-> e, total |-> 0, round |-> n]
        /\ UNCHANGED <<now, pool, rewardPool, commitments, allocation, lockdropClaimed, reservations, mutual, losses>>
    BY DEF start_lockdrop, pull, presale_vars, mutual_vars
  <1> HIDE DEF e, n, C, A, X, st
  <1>3. lockdrop' \in Lockdrop /\ lockdrop'.status = "open" /\ lockdrop'.prize = prize /\ lockdrop'.total = 0
    BY <1>1, <1>2 DEF Lockdrop
  <1>5. scored({}, C) = 0
    <2> DEFINE f == [u \in Users |-> score_of({}, C[u], u)]
    <2>1. f \in [Users -> Nat] /\ IsFiniteSet(Users) /\ \A u \in Users : f[u] = 0
      BY <1>1, BaseAssumption DEF score_of
    <2> HIDE DEF f
    <2>2. f \in [Users -> Int]
      BY <2>1
    <2>3. sum(f) = 0
      BY ONLY <2>1, <2>2, SumZero
    <2> QED BY <2>3 DEF scored, f
  <1>6. CampaignTyped'
    <2>1. held' \in Int
      BY <1>1, <1>2 DEF CampaignTyped
    <2> QED BY <1>1, <1>2, <1>3, <2>1 DEF CampaignTyped, pool
  <1>7. prize_open' = prize /\ prize_open = 0 /\ campaign_dues' = campaign_dues
    BY <1>1, <1>2, <1>3 DEF prize_open, campaign_dues, st
  <1> DEFINE h == held'   D == totalDeposited   R == rewardPool   l == locked_in(commitments)   q == campaign_dues   F == mutual.fund
  <1>8. /\ h = held + prize /\ held >= D + R + l + 0 + q + F /\ D \in Int /\ R \in Int /\ l \in Int /\ q \in Int /\ F \in Int
        /\ held \in Int
    BY <1>1, <1>2, <1>7, CampaignNumbers DEF CampaignBooks
  <1> HIDE DEF h, D, R, l, q, F
  <1>9. h >= D + R + l + prize + q + F
    BY ONLY <1>1, <1>8
  <1>10. held' >= totalDeposited' + rewardPool' + locked_in(commitments') + prize_open' + campaign_dues' + mutual'.fund
    BY <1>2, <1>7, <1>9 DEF h, D, R, l, q, F, pool
  <1>11. scored(committers', commitments') <= lockdrop'.total
    BY <1>2, <1>3, <1>5 DEF C
  <1> QED BY <1>2, <1>6, <1>10, <1>11 DEF CampaignBooks

\* A lock comes with its tokens; its score enters the total before the division.
LEMMA CommitKeeps ==
    ASSUME CampaignBooks, NEW u \in Users, NEW a \in Amounts, NEW d \in Durations, commit_to_lockdrop(u, a, d)
    PROVE  CampaignBooks'
  <1> DEFINE C == commitments   A == allocation   X == lockdropClaimed   K == committers   L == K \cup {u}
             c == [amount |-> a, duration |-> d, score |-> a * d, at |-> now]
             E == [C EXCEPT ![u] = c]   t == lockdrop.total + a * d
  <1>1. /\ CampaignTyped /\ C \in [Users -> Commitment] /\ A \in [Users -> Nat] /\ K \subseteq Users
        /\ now \in Nat /\ lockdrop \in Lockdrop /\ lockdrop.total \in Nat
    BY CampaignNumbers DEF CampaignBooks, CampaignTyped
  <1>2. a \in Nat /\ d \in Nat /\ a > 0 /\ d > 0 /\ C[u] = NoCommitment /\ lockdrop.status = "open"
    BY BaseAssumption DEF commit_to_lockdrop
  <1>3. a * d \in Nat /\ a * d > 0
    BY ONLY <1>2, MulPositive
  <1>4. t \in Nat
    BY <1>1, <1>3
  <1>5. /\ held' = held + a /\ commitments' = E /\ committers' = L
        /\ lockdrop' = [lockdrop EXCEPT !.total = t]
        /\ UNCHANGED <<now, pool, rewardPool, allocation, lockdropClaimed, reservations, mutual, losses>>
    BY DEF commit_to_lockdrop, pull, presale_vars, mutual_vars
  <1>6. c \in Commitment /\ c.amount = a /\ c.score = a * d /\ c # NoCommitment
    BY <1>1, <1>2, <1>3 DEF Commitment, NoCommitment
  <1>6b. NoCommitment.amount = 0
    BY DEF NoCommitment
  <1> HIDE DEF c
  <1>7. E \in [Users -> Commitment] /\ E[u] = c /\ \A v \in Users \ {u} : E[v] = C[v] /\ (v \in L <=> v \in K) /\ (v \in X <=> v \in X)
    BY <1>1, <1>6
  <1>8. /\ score_of(L, E[u], u) = a * d /\ score_of(K, C[u], u) = 0
        /\ E[u].amount = a /\ C[u].amount = 0 /\ L \subseteq Users
    BY <1>1, <1>2, <1>6, <1>6b, <1>7 DEF score_of
  <1>9. lockdrop' \in Lockdrop /\ lockdrop'.status = "open" /\ lockdrop'.prize = lockdrop.prize /\ lockdrop'.total = t
    <2> HIDE DEF t
    <2> QED BY <1>1, <1>2, <1>4, <1>5 DEF Lockdrop
  <1> HIDE DEF E, L, C, A, X, K
  <1>10. /\ scored(L, E) = scored(K, C) + a * d - 0 /\ locked_in(E) = locked_in(C) + a - 0
    <2>1. /\ scored(L, E) = scored(K, C) + score_of(L, E[u], u) - score_of(K, C[u], u)
          /\ locked_in(E) = locked_in(C) + E[u].amount - C[u].amount
      <3>1. one_commitment(K, L, A, X, X, C, E, u)
        BY ONLY <1>1, <1>7, u \in Users, OneCommitment
      <3> QED BY ONLY <3>1 DEF one_commitment
    <2> QED BY ONLY <1>8, <2>1
  <1>11. CampaignTyped'
    <2>1. held' \in Int
      BY <1>1, <1>2, <1>5 DEF CampaignTyped
    <2> QED BY <1>1, <1>5, <1>7, <1>8, <1>9, <2>1 DEF CampaignTyped, pool, A
  <1>12. prize_open' = prize_open
    BY <1>2, <1>9 DEF prize_open
  <1>13. campaign_dues' = promised(A, X) /\ campaign_dues = promised(A, X)
    BY <1>2, <1>5, <1>9 DEF campaign_dues, A, X, K, C
  <1>14. locked_in(C) = locked_in(commitments) /\ scored(K, C) = scored(committers, commitments)
    BY DEF C, K
  <1> DEFINE h == held'   D == totalDeposited   R == rewardPool   l == locked_in(C)   F == mutual.fund
             q == promised(A, X)   m == scored(K, C)   p == prize_open   l2 == locked_in(E)
             m2 == scored(L, E)   w == a * d   T == lockdrop.total
  <1>15. /\ h = held + a /\ held >= D + R + l + p + q + F /\ D \in Int /\ R \in Int /\ l \in Int /\ q \in Int /\ F \in Int
         /\ held \in Int /\ p \in Int /\ m \in Int /\ m <= T /\ T \in Int /\ w \in Int
         /\ m2 = m + w - 0 /\ l2 = l + a - 0 /\ t = T + w
    BY <1>1, <1>3, <1>5, <1>10, <1>13, <1>14, CampaignNumbers DEF CampaignBooks
  <1> HIDE DEF h, D, R, l, q, F, m, p, l2, m2, w, T, t
  <1>16. h >= D + R + l2 + p + q + F /\ m2 <= t
    BY ONLY <1>2, <1>15
  <1>17. held' >= totalDeposited' + rewardPool' + locked_in(commitments') + prize_open' + campaign_dues' + mutual'.fund
    BY <1>5, <1>12, <1>13, <1>16 DEF h, D, R, l2, p, q, F, pool
  <1>18. scored(committers', commitments') <= lockdrop'.total
    BY <1>5, <1>9, <1>16 DEF m2
  <1>19. \A v \in Users : commitments'[v] # NoCommitment => commitments'[v].score > 0
    <2>1. \A v \in Users : C[v] # NoCommitment => C[v].score > 0
      BY DEF CampaignBooks, C
    <2> QED BY <1>3, <1>5, <1>6, <1>7, <2>1
  <1> QED BY <1>11, <1>17, <1>18, <1>19 DEF CampaignBooks

\* A claim pays what was promised, once; an exit pays the lock back.
LEMMA ClaimLockdropKeeps ==
    ASSUME CampaignBooks, NEW u \in Users, claim_lockdrop_reward(u)
    PROVE  CampaignBooks'
  <1> DEFINE C == commitments   A == allocation   X == lockdropClaimed   K == committers   Y == X \cup {u}
             a == A[u]
  <1>1. CampaignTyped /\ C \in [Users -> Commitment] /\ A \in [Users -> Nat] /\ a \in Nat
    BY DEF CampaignBooks, CampaignTyped
  <1>2. C[u] # NoCommitment /\ lockdrop.status = "final" /\ u \notin X
    BY DEF claim_lockdrop_reward
  <1>3. /\ held' = held - a /\ lockdropClaimed' = Y
        /\ UNCHANGED <<now, pool, rewardPool, lockdrop, commitments, committers, allocation, reservations, mutual, losses>>
    BY DEF claim_lockdrop_reward, push, presale_vars, mutual_vars
  <1>4. \A v \in Users \ {u} : C[v] = C[v] /\ (v \in K <=> v \in K) /\ (v \in Y <=> v \in X)
    OBVIOUS
  <1>5. due_of(A, Y, u) = 0 /\ due_of(A, X, u) = a
    BY <1>2 DEF due_of
  <1> HIDE DEF C, A, X, K, Y, a
  <1>6. promised(A, Y) = promised(A, X) + 0 - a
    <2>1. promised(A, Y) = promised(A, X) + due_of(A, Y, u) - due_of(A, X, u)
      <3>1. one_commitment(K, K, A, X, Y, C, C, u)
        BY ONLY <1>1, <1>4, u \in Users, OneCommitment
      <3> QED BY ONLY <3>1 DEF one_commitment
    <2> QED BY ONLY <1>5, <2>1
  <1>7. CampaignTyped'
    <2>1. held' \in Int
      BY <1>1, <1>3 DEF CampaignTyped
    <2> QED BY <1>1, <1>3, <2>1 DEF CampaignTyped, pool
  <1>8. campaign_dues' = promised(A, Y) /\ campaign_dues = promised(A, X) /\ prize_open' = prize_open
    BY <1>2, <1>3 DEF campaign_dues, prize_open, A, X, K, C
  <1> DEFINE h == held'   D == totalDeposited   R == rewardPool   l == locked_in(commitments)   F == mutual.fund
             q == campaign_dues   p == prize_open   q2 == campaign_dues'
  <1>9. /\ h = held - a /\ held >= D + R + l + p + q + F /\ D \in Int /\ R \in Int /\ l \in Int /\ q \in Int /\ F \in Int
        /\ held \in Int /\ p \in Int /\ q2 = q + 0 - a
    BY <1>1, <1>3, <1>6, <1>8, CampaignNumbers DEF CampaignBooks
  <1> HIDE DEF h, D, R, l, q, F, p, q2
  <1>10. h >= D + R + l + p + q2 + F
    BY ONLY <1>1, <1>9
  <1>11. held' >= totalDeposited' + rewardPool' + locked_in(commitments') + prize_open' + campaign_dues' + mutual'.fund
    BY <1>3, <1>8, <1>10 DEF h, D, R, l, p, q2, F, pool
  <1>12. scored(committers', commitments') <= lockdrop'.total /\ \A v \in Users : commitments'[v] # NoCommitment => commitments'[v].score > 0
    BY <1>3 DEF CampaignBooks
  <1> QED BY <1>7, <1>11, <1>12 DEF CampaignBooks

LEMMA ExitLockdropKeeps ==
    ASSUME CampaignBooks, NEW u \in Users, exit_lockdrop(u)
    PROVE  CampaignBooks'
  <1> DEFINE C == commitments   A == allocation   X == lockdropClaimed   K == committers   st == lockdrop.status
             a == C[u].amount   E == [C EXCEPT ![u] = NoCommitment]
  <1>1. /\ CampaignTyped /\ C \in [Users -> Commitment] /\ A \in [Users -> Nat] /\ a \in Nat
        /\ NoCommitment \in Commitment /\ NoCommitment.amount = 0
    <2>1. NoCommitment \in Commitment /\ NoCommitment.amount = 0
      BY DEF NoCommitment, Commitment, NoLedger
    <2>2. CampaignTyped
      BY DEF CampaignBooks
    <2>3. a \in Nat
      BY <2>2, CampaignNumbers
    <2> QED BY <2>1, <2>2, <2>3 DEF CampaignTyped
  <1>2. /\ held' = held - a /\ commitments' = E
        /\ UNCHANGED <<now, pool, rewardPool, lockdrop, committers, allocation, lockdropClaimed, reservations, mutual, losses>>
    BY DEF exit_lockdrop, push, presale_vars, mutual_vars
  <1>3. E \in [Users -> Commitment] /\ E[u] = NoCommitment
        /\ \A v \in Users \ {u} : E[v] = C[v] /\ (v \in K <=> v \in K) /\ (v \in X <=> v \in X)
    BY <1>1
  <1> HIDE DEF E
  <1>4. score_of(K, E[u], u) = 0 /\ E[u].amount = 0 /\ score_of(K, C[u], u) \in Nat
    <2>1. C[u].score \in Nat
      BY <1>1, CampaignNumbers
    <2> QED BY <1>1, <1>3, <2>1 DEF score_of
  <1> DEFINE y == score_of(K, C[u], u)
             h == held'   D == totalDeposited   R == rewardPool   F == mutual.fund   T == lockdrop.total
             l == locked_in(C)   q == promised(A, X)   m == scored(K, C)   p == prize_open
             l2 == locked_in(E)   m2 == scored(K, E)
  <1>5. m2 = m + 0 - y /\ l2 = l + 0 - a
    <2>1. one_commitment(K, K, A, X, X, C, E, u)
      <3> HIDE DEF C, A, X, K, st
      <3> QED BY ONLY <1>1, <1>3, u \in Users, OneCommitment
    <2> QED BY <1>4, <2>1 DEF one_commitment
  <1>6. CampaignTyped'
    <2>1. held' \in Int
      BY <1>1, <1>2 DEF CampaignTyped
    <2> QED BY <1>1, <1>2, <1>3, <2>1 DEF CampaignTyped, pool
  <1>7. campaign_dues' = q /\ campaign_dues = q /\ prize_open' = prize_open
    BY <1>2 DEF campaign_dues, prize_open
  <1>8. /\ h = held - a /\ held >= D + R + l + p + q + F /\ D \in Int /\ R \in Int /\ l \in Int /\ q \in Int /\ F \in Int
        /\ held \in Int /\ p \in Int /\ y \in Nat /\ m \in Int /\ T \in Int /\ m <= T
    BY <1>1, <1>2, <1>4, <1>7, CampaignNumbers DEF CampaignBooks
  <1> HIDE DEF h, D, R, l, q, F, p, y, m, T, l2, m2, a
  <1>9. h >= D + R + l2 + p + q + F /\ m2 <= T
    BY ONLY <1>1, <1>5, <1>8
  <1>10. held' >= totalDeposited' + rewardPool' + locked_in(commitments') + prize_open' + campaign_dues' + mutual'.fund
    BY <1>2, <1>7, <1>9 DEF h, D, R, l2, p, q, F, pool
  <1>11. scored(committers', commitments') <= lockdrop'.total
    BY <1>2, <1>9 DEF m2, T
  <1>12. \A v \in Users : commitments'[v] # NoCommitment => commitments'[v].score > 0
    BY <1>2, <1>3 DEF CampaignBooks
  <1> QED BY <1>6, <1>10, <1>11, <1>12 DEF CampaignBooks

\* The division rounds down, so the promises of a campaign are within its prize.
LEMMA FinalizeKeeps ==
    ASSUME CampaignBooks, finalize_lockdrop
    PROVE  CampaignBooks'
  <1> DEFINE C == commitments   A == allocation   X == lockdropClaimed   K == committers   P == lockdrop.prize
             T == lockdrop.total
             in_run(u) == u \in K /\ C[u] # NoCommitment
             part(u) == (P * C[u].score) \div T
             B == [u \in Users |-> IF T > 0 /\ in_run(u) THEN part(u) ELSE A[u]]
             f == [u \in Users |-> due_of(A, X, u)]
             g == [u \in Users |-> due_of(B, X, u)]
             s == [u \in Users |-> score_of(K, C[u], u)]
             z == [u \in Users |-> IF in_run(u) THEN part(u) ELSE 0]
             fz == [u \in Users |-> f[u] + z[u]]
  <1>1. /\ CampaignTyped /\ C \in [Users -> Commitment] /\ A \in [Users -> Nat] /\ IsFiniteSet(Users)
        /\ P \in Nat /\ T \in Nat /\ lockdrop.status = "open" /\ lockdrop \in Lockdrop
        /\ \A u \in Users : C[u].score \in Nat
    <2>1. CampaignTyped
      BY DEF CampaignBooks
    <2>2. P \in Nat /\ T \in Nat /\ \A u \in Users : C[u].score \in Nat
      BY <2>1, CampaignNumbers
    <2> QED BY <2>1, <2>2, BaseAssumption DEF CampaignTyped, finalize_lockdrop
  <1>2. /\ lockdrop' = [lockdrop EXCEPT !.status = "final"] /\ allocation' = B
        /\ UNCHANGED <<now, held, pool, rewardPool, commitments, committers, lockdropClaimed, reservations, mutual, losses>>
    BY DEF finalize_lockdrop, base_vars, presale_vars, mutual_vars
  <1>3. lockdrop' \in Lockdrop /\ lockdrop'.status = "final" /\ lockdrop'.total = T
    BY <1>1, <1>2 DEF Lockdrop
  <1>4. s \in [Users -> Nat] /\ f \in [Users -> Nat] /\ sum(s) <= T /\ sum(s) \in Nat
    <2>1. s \in [Users -> Nat] /\ f \in [Users -> Nat] /\ scored(K, C) \in Nat
      <3>1. due_numbers(K, A, X, C)
        BY <1>1, DueFunctions
      <3> QED BY <3>1 DEF due_numbers
    <2>2. sum(s) = scored(K, C)
      BY DEF scored
    <2>3. scored(K, C) <= T
      BY DEF CampaignBooks
    <2> QED BY <2>1, <2>2, <2>3
  <1>5. \A u \in Users : in_run(u) => T > 0
    <2> SUFFICES ASSUME NEW u \in Users, in_run(u) PROVE T > 0
      OBVIOUS
    <2>1. s[u] > 0
      BY <1>1 DEF CampaignBooks, score_of
    <2> HIDE DEF s
    <2>2. s[u] <= sum(s)
      BY ONLY <1>1, <1>4, u \in Users, SumBound
    <2> QED BY <1>1, <1>4, <2>1, <2>2
  <1>6. \A u \in Users : in_run(u) => part(u) \in Nat /\ T * part(u) <= P * C[u].score
    <2> SUFFICES ASSUME NEW u \in Users, in_run(u) PROVE part(u) \in Nat /\ T * part(u) <= P * C[u].score
      OBVIOUS
    <2>1. P * C[u].score \in Nat /\ T \in Nat \ {0}
      BY <1>1, <1>5, MulNat
    <2> DEFINE n == P * C[u].score
    <2> HIDE DEF n, T
    <2>2. n \div T \in Nat /\ T * (n \div T) <= n
      BY <2>1 DEF n
    <2> QED BY <2>2 DEF n, T
  <1>7. B \in [Users -> Nat]
    <2> HIDE DEF T, C, A, K
    <2>1. \A u \in Users : (IF T > 0 /\ in_run(u) THEN part(u) ELSE A[u]) \in Nat
      <3> HIDE DEF part, in_run
      <3> QED BY <1>1, <1>6
    <2> QED BY <2>1
  <1>8. z \in [Users -> Nat] /\ \A u \in Users : T * z[u] <= P * s[u]
    <2>1. \A u \in Users : (IF in_run(u) THEN part(u) ELSE 0) \in Nat
      <3> HIDE DEF part, in_run
      <3> QED BY <1>6
    <2>2. \A u \in Users : s[u] = IF in_run(u) THEN C[u].score ELSE 0
      BY DEF score_of
    <2>3. \A u \in Users : z[u] = IF in_run(u) THEN part(u) ELSE 0
      OBVIOUS
    <2>4. T * 0 = 0 /\ P * 0 = 0
      BY <1>1
    <2>5. \A u \in Users : T * z[u] <= P * s[u]
      <3> HIDE DEF part, in_run, s, z, T, P
      <3> QED BY <1>6, <2>2, <2>3, <2>4
    <2> QED BY <2>1, <2>5
  <1>9. \A u \in Users : g[u] <= fz[u] /\ g[u] \in Int /\ fz[u] \in Int
    <2> SUFFICES ASSUME NEW u \in Users PROVE g[u] <= fz[u] /\ g[u] \in Int /\ fz[u] \in Int
      OBVIOUS
    <2>1. f[u] \in Nat /\ z[u] \in Nat /\ fz[u] = f[u] + z[u] /\ B[u] \in Nat
      <3> HIDE DEF f, z, B
      <3> QED BY <1>4, <1>7, <1>8
    <2>2. g[u] = IF u \notin X THEN B[u] ELSE 0
      BY DEF due_of
    <2>3. f[u] = IF u \notin X THEN A[u] ELSE 0
      BY DEF due_of
    <2>4. z[u] = IF in_run(u) THEN part(u) ELSE 0
      OBVIOUS
    <2>5. in_run(u) => B[u] = part(u)
      BY <1>5
    <2>6. ~in_run(u) => B[u] = A[u]
      OBVIOUS
    <2> HIDE DEF f, g, z, fz, B, part, in_run, C, A, X, K
    <2> QED BY ONLY <2>1, <2>2, <2>3, <2>4, <2>5, <2>6
  <1>10. g \in [Users -> Nat]
    <2> HIDE DEF B
    <2>1. \A u \in Users : due_of(B, X, u) \in Nat
      BY <1>7 DEF due_of
    <2> QED BY <2>1
  <1>11. fz \in [Users -> Int] /\ z \in [Users -> Int] /\ f \in [Users -> Int] /\ s \in [Users -> Int] /\ \A u \in Users : fz[u] = f[u] + z[u]
    <2> HIDE DEF f, z, s
    <2> QED BY <1>4, <1>8
  <1>12. campaign_dues = sum(f) /\ campaign_dues' = sum(g)
    BY <1>1, <1>2, <1>3 DEF campaign_dues, promised
  <1>12b. held >= totalDeposited + rewardPool + locked_in(commitments) + P + sum(f) + mutual.fund
    BY <1>1, <1>12 DEF CampaignBooks, prize_open
  <1> HIDE DEF f, g, z, s, fz, B, part, in_run, T, P
  <1>13. sum(fz) = sum(f) + sum(z)
    BY ONLY <1>1, <1>11, SumSplit
  <1>14. sum(g) <= sum(fz)
    <2>1. DOMAIN g = Users /\ DOMAIN fz = Users
      BY <1>10, <1>11
    <2>2. sum_over(g, Users) <= sum_over(fz, Users)
      BY ONLY <1>1, <1>9, SumMono
    <2> QED BY <2>1, <2>2 DEF sum
  <1>15. T * sum(z) <= P * sum(s) /\ sum(z) \in Nat
    <2>1. T \in Int /\ P \in Int
      BY <1>1
    <2>2. T * sum(z) <= P * sum(s)
      BY ONLY <1>1, <1>8, <1>11, <2>1, SumScaled
    <2>3. sum(z) \in Nat
      BY ONLY <1>1, <1>8, SumNat
    <2> QED BY <2>2, <2>3
  <1>16. sum(z) <= P
    <2>1. CASE T = 0
      <3>1. \A u \in Users : z[u] = 0
        BY <1>5, <2>1 DEF z
      <3>2. sum(z) = 0
        BY ONLY <1>1, <1>11, <3>1, SumZero
      <3> QED BY <1>1, <3>2
    <2>2. CASE T > 0
      <3> DEFINE x == sum(z)   y == sum(s)
      <3>1. x \in Nat /\ y \in Nat /\ T * x <= P * y /\ y <= T
        BY <1>4, <1>15
      <3> HIDE DEF x, y
      <3>2. P * y <= P * T
        BY ONLY <1>1, <3>1, MulMono
      <3>3. T * x <= T * P
        BY ONLY <1>1, <3>1, <3>2
      <3>4. x <= P
        <4> SUFFICES ASSUME P + 1 <= x PROVE FALSE
          BY <1>1, <3>1
        <4>1. T * (P + 1) <= T * x
          BY <1>1, <3>1, MulMono
        <4> QED BY ONLY <1>1, <2>2, <3>1, <3>3, <4>1
      <3> QED BY <3>4 DEF x
    <2> QED BY <1>1, <2>1, <2>2
  <1>17. CampaignTyped'
    BY <1>1, <1>2, <1>3, <1>7 DEF CampaignTyped, pool
  <1>18. prize_open' = 0
    BY <1>3 DEF prize_open
  <1> DEFINE D == totalDeposited   R == rewardPool   l == locked_in(commitments)   F == mutual.fund
             sf == sum(f)   sg == sum(g)   sz == sum(z)   sb == sum(fz)
  <1>19. /\ held >= D + R + l + P + sf + F /\ D \in Int /\ R \in Int /\ l \in Int /\ F \in Int /\ held \in Int /\ P \in Nat
         /\ sf \in Int /\ sg \in Int /\ sb \in Int /\ sz \in Int /\ sb = sf + sz /\ sg <= sb /\ sz <= P
    <2>1. sf \in Int /\ sg \in Int /\ sb \in Int
      <3>1. sum(f) \in Nat
        BY ONLY <1>1, <1>4, SumNat
      <3>2. sum(g) \in Nat
        BY ONLY <1>1, <1>10, SumNat
      <3> QED BY <1>13, <1>15, <3>1, <3>2
    <2> QED BY <1>1, <1>12b, <1>13, <1>14, <1>15, <1>16, <2>1, CampaignNumbers
  <1> HIDE DEF D, R, l, F, sf, sg, sz, sb
  <1>20. held >= D + R + l + 0 + sg + F
    BY ONLY <1>19
  <1>21. held' >= totalDeposited' + rewardPool' + locked_in(commitments') + prize_open' + campaign_dues' + mutual'.fund
    BY <1>2, <1>12, <1>18, <1>20 DEF D, R, l, F, sg, pool
  <1>22. scored(committers', commitments') <= lockdrop'.total /\ \A u \in Users : commitments'[u] # NoCommitment => commitments'[u].score > 0
    BY <1>2, <1>3 DEF CampaignBooks, T
  <1> QED BY <1>17, <1>21, <1>22 DEF CampaignBooks

LEMMA CampaignStepKeeps == ASSUME CampaignBooks, CampaignNext PROVE CampaignBooks'
  <1>1. now \in Nat /\ mutual \in Mutual /\ losses \in Seq(Loss)
    BY DEF CampaignBooks, CampaignTyped
  <1>2. CASE LockdropNext
    BY <1>2, StartLockdropKeeps, CommitKeeps, FinalizeKeeps, ClaimLockdropKeeps, ExitLockdropKeeps DEF LockdropNext
  <1>3. CASE PresaleNext
    BY <1>3, PresaleKeeps
  <1>4. CASE MutualNext
    BY <1>4, MutualKeeps
  <1>5. CASE GuaranteeNext
    BY <1>1, <1>5, CampaignQuiet
       DEF GuaranteeNext, register_guarantor, deposit_guarantee, declare_insolvency, claim_guarantee,
           withdraw_guarantee, base_vars, presale_vars, mutual_vars
  <1>6. CASE CampaignTick
    BY <1>1, <1>6, TickNat, CampaignQuiet DEF CampaignTick, campaign_vars, presale_vars, mutual_vars
  <1> QED BY <1>2, <1>3, <1>4, <1>5, <1>6 DEF CampaignNext

\* What the books promise is what the property counts.
LEMMA CampaignsWhole == ASSUME CampaignBooks PROVE campaigns_covered
  <1> DEFINE S == Users \ lockdropClaimed
             g == [u \in S |-> allocation[u]]
             f == [u \in Users |-> due_of(allocation, lockdropClaimed, u)]
             prizes == (IF lockdrop.status = "open" THEN lockdrop.prize ELSE 0) + sum(g)
  <1>1. /\ CampaignTyped /\ campaign_dues \in Nat /\ prize_open \in Nat /\ lockdrop.prize \in Nat
        /\ allocation \in [Users -> Nat] /\ commitments \in [Users -> Commitment]
    BY CampaignNumbers DEF CampaignBooks, CampaignTyped
  <1>2. prizes <= prize_open + campaign_dues /\ prizes \in Int
    <2>1. S \subseteq Users /\ g \in [S -> Int] /\ f \in [Users -> Int] /\ IsFiniteSet(Users)
      <3>1. due_numbers(committers, allocation, lockdropClaimed, commitments)
        BY <1>1, DueFunctions
      <3>2. f \in [Users -> Nat]
        BY <3>1 DEF due_numbers
      <3>3. S \subseteq Users /\ g \in [S -> Int]
        BY <1>1
      <3> QED BY <3>2, <3>3, BaseAssumption
    <2>2. (\A u \in S : g[u] = f[u]) /\ (\A u \in Users \ S : f[u] = 0)
      BY DEF due_of
    <2>3. campaign_dues = sum(f) /\ prizes = prize_open + sum(g)
      BY DEF campaign_dues, promised, prize_open
    <2> HIDE DEF f, g, S, prizes
    <2>4. sum(g) = sum(f)
      BY ONLY <2>1, <2>2, SumWhere
    <2> QED BY <1>1, <2>3, <2>4
  <1>3. campaigns_covered <=> held >= totalDeposited + rewardPool + locked_in(commitments) + prizes + mutual.fund
    BY DEF campaigns_covered, locked_in
  <1> DEFINE D == totalDeposited   R == rewardPool   l == locked_in(commitments)   F == mutual.fund
             p == prize_open   q == campaign_dues
  <1>4. /\ held >= D + R + l + p + q + F /\ D \in Int /\ R \in Int /\ l \in Int /\ F \in Int /\ held \in Int
        /\ p \in Int /\ q \in Int
    BY <1>1, CampaignNumbers DEF CampaignBooks
  <1> HIDE DEF D, R, l, F, p, q, prizes
  <1>5. held >= D + R + l + prizes + F
    BY ONLY <1>2, <1>4 DEF p, q
  <1> QED BY <1>3, <1>5 DEF D, R, l, F

CampaignInv == focus \in {"lockdrop", "presale", "mutual", "guarantee"} => CampaignBooks

LEMMA CampaignInvInit == ASSUME FundsInit PROVE CampaignInv
  BY CampaignBooksInit DEF CampaignInv

LEMMA CampaignInvStep == ASSUME CampaignInv, [FundsNext]_funds_vars PROVE CampaignInv'
  <1>1. CASE focus \in {"lockdrop", "presale", "mutual", "guarantee"}
    <2>1. UNCHANGED focus /\ (CampaignNext \/ UNCHANGED <<base_vars, campaign_vars>>) /\ CampaignBooks
      BY <1>1, CampaignStep DEF CampaignInv
    <2>2. CASE CampaignNext
      BY <2>1, <2>2, CampaignStepKeeps DEF CampaignInv
    <2>3. CASE UNCHANGED <<base_vars, campaign_vars>>
      <3>1. now \in Nat /\ mutual \in Mutual /\ losses \in Seq(Loss)
        BY <2>1 DEF CampaignBooks, CampaignTyped
      <3>2. CampaignBooks'
        BY <2>1, <2>3, <3>1, CampaignQuiet DEF base_vars, campaign_vars, presale_vars, mutual_vars
      <3> QED BY <2>1, <3>2 DEF CampaignInv
    <2> QED BY <2>1, <2>2, <2>3
  <1>2. CASE focus \notin {"lockdrop", "presale", "mutual", "guarantee"}
    <2>1. UNCHANGED focus
      BY DEF FundsNext, funds_vars
    <2> QED BY <1>2, <2>1 DEF CampaignInv
  <1> QED BY <1>1, <1>2

-------------------------------------------------------------------------------
(* Revenue shares, reward drops, stake matches and access tokens. *)

\* In these focuses only the distributions' entry points run.
LEMMA SharedStep ==
    ASSUME focus \in {"sharing", "drops", "matching", "access"}, [FundsNext]_funds_vars
    PROVE  /\ UNCHANGED focus
           /\ \/ SharingMoves \/ DropMoves \/ MatchingMoves \/ AccessMoves \/ DistributionTick
              \/ UNCHANGED <<base_vars, distribution_vars>>
  BY DEF FundsNext, funds_vars, capacity_step, market_step, contest_step, campaign_step, claim_step,
         subpool_step, position_step, outside_step, ballot_step, safeguard_step, wind_step, shared_step

BpsRates == 0..BPS_DENOMINATOR
ShareKeys == Users \X (0..MaxDistributions)
DropKeys == Users \X DropEpochs
Revenue == [fee : BpsRates, rate : BpsRates, recycle : BpsRates, pool : Nat, table : Tables \cup {NoTable},
            epoch : 0..MaxDistributions, claimed : SUBSET ShareKeys, paid : [ShareKeys -> Nat]]
Program == [rate : Nat, cap : Nat, budget : Nat, used : Nat, active : BOOLEAN]

\* A payment under a key is none, or, once claimed, an amount of one of the tables.
paid_once(paid, claimed, k) ==
    \/ paid[k] = 0
    \/ k \in claimed /\ \E t \in Tables : paid[k] = t[k[1]]

recorded(Keys, paid, claimed) == paid \in [Keys -> Nat] /\ \A k \in Keys : paid_once(paid, claimed, k)

RevenueBooks ==
    /\ revenue \in Revenue
    /\ \A k \in ShareKeys : paid_once(revenue.paid, revenue.claimed, k)

DropBooks ==
    /\ drop = [table |-> drop.table, epoch |-> drop.epoch, claimed |-> drop.claimed, paid |-> drop.paid, count |-> drop.count]
    /\ drop.paid \in [DropKeys -> Nat]
    /\ drop.table = NoTable \/ (drop.table \in Tables /\ drop.epoch \in DropEpochs)
    /\ \A k \in DropKeys : paid_once(drop.paid, drop.claimed, k)

MatchBooks ==
    /\ matching \in [program : Program, matched : [Users -> Nat], spent : Nat, programs : Nat]
    /\ matching.program.used <= matching.program.budget
    /\ matching.program.active \/ matching.program.budget = matching.program.used
    /\ sum(matching.matched) = matching.spent + matching.program.used

AccessBooks ==
    /\ access = [tiers |-> access.tiers, tier |-> access.tier, tokens |-> access.tokens, since |-> access.since]
    /\ access.tier = [u \in Users |-> access.tier[u]] /\ access.tokens = [u \in Users |-> access.tokens[u]]
    /\ \A u \in Users : access.tokens[u] = {access.tier[u]} \ {NoTier}

SharedBooks ==
    /\ Books /\ RevenueBooks /\ DropBooks /\ MatchBooks /\ AccessBooks
    /\ held = totalDeposited + rewardPool + revenue.pool + matching.program.budget - matching.program.used

\* One claim of an amount of a table, under a key that was not claimed.
LEMMA ClaimedOnce ==
    ASSUME NEW Keys, NEW paid \in [Keys -> Nat], NEW claimed, NEW k \in Keys, k \notin claimed,
           NEW n \in Nat, NEW t \in Tables, t[k[1]] = n, NEW more, more = [paid EXCEPT ![k] = paid[k] + n],
           \A j \in Keys : paid_once(paid, claimed, j)
    PROVE  recorded(Keys, more, claimed \cup {k})
  <1>1. paid[k] = 0 /\ more[k] = n /\ more \in [Keys -> Nat]
    BY DEF paid_once
  <1>2. \A j \in Keys \ {k} : more[j] = paid[j]
    OBVIOUS
  <1>3. paid_once(more, claimed \cup {k}, k)
    BY <1>1 DEF paid_once
  <1>4. ASSUME NEW j \in Keys \ {k} PROVE paid_once(more, claimed \cup {k}, j)
    BY <1>2 DEF paid_once
  <1> QED BY <1>1, <1>3, <1>4 DEF recorded

\* What the books say in numbers.
LEMMA SharedNumbers ==
    ASSUME SharedBooks
    PROVE  /\ held \in Int /\ totalDeposited \in Nat /\ rewardPool \in Nat /\ revenue.pool \in Nat
           /\ matching.program \in Program /\ matching.program.budget \in Nat /\ matching.program.used \in Nat
           /\ matching.program.used <= matching.program.budget
           /\ matching.program.rate \in Nat /\ matching.program.cap \in Nat
           /\ revenue.fee \in BpsRates /\ revenue.rate \in BpsRates /\ revenue.recycle \in BpsRates
           /\ wallet \in [Accounts -> Nat] /\ Admin \in Accounts /\ \A u \in Users : u \in Accounts
  <1>1. held \in Int /\ totalDeposited \in Nat /\ rewardPool \in Nat /\ wallet \in [Accounts -> Nat]
    BY DEF SharedBooks, Books
  <1>2. revenue.pool \in Nat /\ revenue.fee \in BpsRates /\ revenue.rate \in BpsRates /\ revenue.recycle \in BpsRates
    BY DEF SharedBooks, RevenueBooks, Revenue
  <1>3. matching.program \in Program /\ matching.program.used <= matching.program.budget
    BY DEF SharedBooks, MatchBooks
  <1>4. /\ matching.program.budget \in Nat /\ matching.program.used \in Nat
        /\ matching.program.rate \in Nat /\ matching.program.cap \in Nat
    BY <1>3 DEF Program
  <1> QED BY <1>1, <1>2, <1>3, <1>4 DEF Accounts

LEMMA SharedBooksInit == ASSUME FundsInit PROVE SharedBooks
  <1>1. BaseInitWith(Purse) /\ Purse \in Nat /\ RevenueInit /\ DropInit /\ MatchingInit /\ AccessInit
    BY BaseAssumption DEF FundsInit, BaseInit, DistributionInit
  <1>2. Books /\ held = totalDeposited + rewardPool
    BY <1>1, BooksInit, BaseInitFacts
  <1>3. RevenueBooks /\ revenue.pool = 0
    <2>1. [k \in ShareKeys |-> 0] \in [ShareKeys -> Nat] /\ 0 \in BpsRates /\ 0 \in 0..MaxDistributions
      BY DistributionAssumption DEF BpsRates, BPS_DENOMINATOR
    <2>2. revenue = [fee |-> 0, rate |-> 0, recycle |-> 0, pool |-> 0, table |-> NoTable, epoch |-> 0,
                     claimed |-> {}, paid |-> [k \in ShareKeys |-> 0]]
      BY <1>1 DEF RevenueInit, ShareKeys
    <2>3. revenue \in Revenue
      BY <2>1, <2>2 DEF Revenue
    <2> QED BY <2>2, <2>3 DEF RevenueBooks, paid_once
  <1>4. DropBooks
    <2> DEFINE p == [k \in DropKeys |-> 0]
    <2>1. drop = [table |-> NoTable, epoch |-> 0, claimed |-> {}, paid |-> p, count |-> 0]
      BY <1>1 DEF DropInit, DropKeys
    <2>2. p \in [DropKeys -> Nat] /\ \A k \in DropKeys : p[k] = 0
      OBVIOUS
    <2> HIDE DEF p
    <2>3. drop.table = NoTable /\ drop.epoch = 0 /\ drop.claimed = {} /\ drop.paid = p /\ drop.count = 0
      BY <2>1
    <2>4. \A k \in DropKeys : paid_once(p, {}, k)
      BY <2>2 DEF paid_once
    <2> QED BY ONLY <2>1, <2>2, <2>3, <2>4 DEF DropBooks
  <1>5. MatchBooks /\ matching.program.budget = 0 /\ matching.program.used = 0
    <2> DEFINE m == [u \in Users |-> 0]
    <2>1. matching = [program |-> NoProgram, matched |-> m, spent |-> 0, programs |-> 0]
      BY <1>1 DEF MatchingInit
    <2>2. m \in [Users -> Nat] /\ m \in [Users -> Int] /\ (\A u \in Users : m[u] = 0) /\ IsFiniteSet(Users)
      BY BaseAssumption
    <2>3. sum(m) = 0
      <3> HIDE DEF m
      <3> QED BY ONLY <2>2, SumZero
    <2>4. NoProgram \in Program /\ NoProgram.used = 0 /\ NoProgram.budget = 0
      BY DEF NoProgram, Program
    <2> HIDE DEF m
    <2> QED BY <2>1, <2>2, <2>3, <2>4 DEF MatchBooks
  <1>6. AccessBooks
    BY <1>1 DEF AccessInit, AccessBooks
  <1> QED BY <1>2, <1>3, <1>4, <1>5, <1>6 DEF SharedBooks

\* Settings and roots move no tokens.
LEMMA RevenueSettings ==
    ASSUME SharedBooks, UNCHANGED <<base_vars, drop, matching, access>>,
           \/ \E r \in ShareRates : set_revenue_sharing(r) \/ set_fee_recycle_bps(r)
           \/ \E f \in FlashFees : set_flash_stake_fee_bps(f)
           \/ \E t \in Tables : distribute_revenue(t)
    PROVE  SharedBooks'
  <1>1. revenue \in Revenue /\ revenue.epoch \in 0..MaxDistributions /\ MaxDistributions \in Nat
    BY DistributionAssumption DEF SharedBooks, RevenueBooks, Revenue
  <1> DEFINE unmoved == /\ revenue' \in Revenue /\ revenue'.pool = revenue.pool
                     /\ revenue'.paid = revenue.paid /\ revenue'.claimed = revenue.claimed
  <1>2. unmoved
    <2>1. ASSUME NEW r \in ShareRates, set_revenue_sharing(r) \/ set_fee_recycle_bps(r) PROVE unmoved
      <3>1. r \in BpsRates
        <4>1. r <= BPS_DENOMINATOR
          BY <2>1 DEF set_revenue_sharing, set_fee_recycle_bps
        <4>2. r \in Nat /\ BPS_DENOMINATOR \in Nat
          BY DistributionAssumption DEF BPS_DENOMINATOR
        <4> QED BY ONLY <4>1, <4>2 DEF BpsRates
      <3>2. revenue' = [revenue EXCEPT !.rate = r] \/ revenue' = [revenue EXCEPT !.recycle = r]
        BY <2>1 DEF set_revenue_sharing, set_fee_recycle_bps
      <3> QED BY <1>1, <3>1, <3>2 DEF Revenue
    <2>2. ASSUME NEW r \in FlashFees, set_flash_stake_fee_bps(r) PROVE unmoved
      <3>1. r \in BpsRates
        <4>1. r <= BPS_DENOMINATOR
          BY <2>2 DEF set_flash_stake_fee_bps
        <4>2. r \in Nat
          BY DistributionAssumption
        <4>3. BPS_DENOMINATOR \in Nat
          BY DEF BPS_DENOMINATOR
        <4> QED BY ONLY <4>1, <4>2, <4>3 DEF BpsRates
      <3>2. revenue' = [revenue EXCEPT !.fee = r]
        BY <2>2 DEF set_flash_stake_fee_bps
      <3> QED BY <1>1, <3>1, <3>2 DEF Revenue
    <2>3. ASSUME NEW t \in Tables, distribute_revenue(t) PROVE unmoved
      <3> DEFINE e == revenue.epoch + 1
      <3>0. revenue.epoch < MaxDistributions
        BY <2>3 DEF distribute_revenue
      <3>1. e \in 0..MaxDistributions
        BY ONLY <1>1, <3>0
      <3>2. revenue' = [revenue EXCEPT !.table = t, !.epoch = e]
        BY <2>3 DEF distribute_revenue
      <3> HIDE DEF e
      <3> QED BY <1>1, <3>1, <3>2 DEF Revenue
    <2> QED BY <2>1, <2>2, <2>3
  <1>3. RevenueBooks'
    BY <1>2 DEF SharedBooks, RevenueBooks
  <1>4. Books' /\ DropBooks' /\ MatchBooks' /\ AccessBooks'
    BY DEF SharedBooks, Books, DropBooks, MatchBooks, AccessBooks, base_vars, pool
  <1> QED BY <1>2, <1>3, <1>4 DEF SharedBooks, base_vars, pool

\* The fee is divided: recycled to the rewards, shared, and the rest to the treasury.
LEMMA FlashStakeKeeps == ASSUME SharedBooks, NEW u \in Users, NEW n \in Amounts, flash_stake(u, n) PROVE SharedBooks'
  <1> DEFINE fee == bps(n, revenue.fee)   back == recycle_fee(fee)   rest == fee - back   part == bps(rest, revenue.rate)
             p == revenue.pool + part   w == wallet[u] - fee
  <1>1. n \in Nat /\ fee \in 0..n
    BY BaseAssumption, SharedNumbers, BpsBound DEF BpsRates
  <1>2. back \in 0..fee
    <2>1. fee \in Nat
      BY <1>1
    <2> QED BY <2>1, SharedNumbers, BpsBound DEF BpsRates, recycle_fee
  <1>3. rest \in Nat
    BY <1>1, <1>2
  <1>4. part \in 0..rest
    BY <1>3, SharedNumbers, BpsBound DEF BpsRates
  <1>5. /\ wallet[u] >= n /\ wallet' = [wallet EXCEPT ![u] = @ - fee, ![Admin] = @ + rest - part]
        /\ held' = held + back + part /\ rewardPool' = rewardPool + back
        /\ revenue' = [revenue EXCEPT !.pool = p] /\ UNCHANGED <<now, pool, drop, matching, access>>
    BY DEF flash_stake
  <1> HIDE DEF fee, back, rest, part
  <1>6. /\ held \in Int /\ rewardPool \in Nat /\ revenue.pool \in Nat /\ totalDeposited \in Nat
        /\ matching.program.budget \in Nat /\ matching.program.used \in Nat
        /\ wallet \in [Accounts -> Nat] /\ u \in Accounts /\ Admin \in Accounts /\ u # Admin
    BY SharedNumbers, BaseAssumption
  <1>7. w \in Nat /\ p \in Nat /\ wallet[Admin] + rest - part \in Nat
    BY <1>1, <1>3, <1>4, <1>5, <1>6
  <1>8. wallet' \in [Accounts -> Nat]
    <2> DEFINE z == wallet[Admin] + rest - part
    <2>1. wallet' = [wallet EXCEPT ![u] = w, ![Admin] = z]
      BY <1>5, <1>6
    <2> HIDE DEF w, z
    <2>2. z \in Nat
      BY <1>7 DEF z
    <2> QED BY ONLY <1>6, <1>7, <2>1, <2>2
  <1> DEFINE h == held'   R == rewardPool'   b == matching.program.budget   c == matching.program.used   q == revenue.pool
  <1>9. /\ h = held + back + part /\ R = rewardPool + back /\ held = totalDeposited + rewardPool + q + b - c
        /\ p = q + part
    BY <1>5 DEF SharedBooks
  <1>10. /\ held \in Int /\ rewardPool \in Nat /\ q \in Nat /\ totalDeposited \in Nat /\ b \in Nat /\ c \in Nat
         /\ part \in Nat /\ back \in Nat
    BY <1>1, <1>2, <1>3, <1>4, <1>6
  <1> HIDE DEF h, R, b, c, q, p, w
  <1>11. h = totalDeposited + R + p + b - c /\ h \in Int /\ R \in Nat
    BY ONLY <1>9, <1>10
  <1>12. revenue \in Revenue
    BY DEF SharedBooks, RevenueBooks
  <1>13. revenue' \in Revenue /\ revenue'.pool = p /\ revenue'.paid = revenue.paid /\ revenue'.claimed = revenue.claimed
    BY <1>5, <1>7, <1>12 DEF Revenue
  <1>14. RevenueBooks'
    BY <1>13 DEF SharedBooks, RevenueBooks
  <1>15. DropBooks' /\ MatchBooks' /\ AccessBooks'
    BY <1>5 DEF SharedBooks, DropBooks, MatchBooks, AccessBooks
  <1>16. Books'
    BY <1>5, <1>8, <1>11 DEF SharedBooks, Books, pool, h, R
  <1> QED BY <1>5, <1>11, <1>13, <1>14, <1>15, <1>16 DEF SharedBooks, pool, h, R, b, c

\* A share of the revenue leaves the revenue pool with its tokens, once per epoch.
LEMMA ClaimShareKeeps == ASSUME SharedBooks, NEW u \in Users, NEW n \in Amounts, claim_revenue_share(u, n) PROVE SharedBooks'
  <1> DEFINE k == <<u, revenue.epoch>>   p == revenue.pool - n   K == revenue.claimed \cup {k}
             Q == revenue.paid   Z == [Q EXCEPT ![k] = Q[k] + n]   t == revenue.table
  <1>1. n \in Nat /\ revenue \in Revenue /\ u \in Accounts
    BY BaseAssumption, SharedNumbers DEF SharedBooks, RevenueBooks
  <1>2. k \in ShareKeys /\ Q \in [ShareKeys -> Nat] /\ t \in Tables \cup {NoTable} /\ k[1] = u
    BY <1>1 DEF Revenue, ShareKeys
  <1>3. /\ k \notin revenue.claimed /\ t \in Tables /\ t[k[1]] = n /\ revenue.pool >= n /\ push(u, n)
        /\ revenue' = [revenue EXCEPT !.claimed = K, !.pool = p, !.paid = Z]
        /\ UNCHANGED <<now, pool, rewardPool, drop, matching, access>>
    BY <1>2 DEF claim_revenue_share
  <1>4. \A j \in ShareKeys : paid_once(Q, revenue.claimed, j)
    BY DEF SharedBooks, RevenueBooks
  <1>5. Z \in [ShareKeys -> Nat] /\ \A j \in ShareKeys : paid_once(Z, K, j)
    <2> HIDE DEF k, Q, t
    <2>1. recorded(ShareKeys, Z, K)
      BY <1>1, <1>2, <1>3, <1>4, ClaimedOnce
    <2> QED BY <2>1 DEF recorded
  <1>6. p \in Nat /\ K \in SUBSET ShareKeys
    BY <1>1, <1>2, <1>3, SharedNumbers DEF Revenue
  <1>7. wallet' \in [Accounts -> Nat] /\ held' \in Int /\ held' = held - n
    BY <1>1, <1>3, SharedNumbers, PushTyped
  <1> HIDE DEF K, Z, k
  <1>8. revenue' \in Revenue /\ revenue'.pool = p /\ revenue'.paid = Z /\ revenue'.claimed = K
    <2> HIDE DEF p
    <2> QED BY <1>1, <1>3, <1>5, <1>6 DEF Revenue
  <1>9. RevenueBooks'
    BY <1>5, <1>8 DEF RevenueBooks
  <1>10. DropBooks' /\ MatchBooks' /\ AccessBooks' /\ Books'
    BY <1>3, <1>7 DEF SharedBooks, DropBooks, MatchBooks, AccessBooks, Books, pool
  <1> DEFINE h == held'   b == matching.program.budget   c == matching.program.used   q == revenue.pool
  <1>11. /\ held \in Int /\ rewardPool \in Nat /\ q \in Nat /\ totalDeposited \in Nat /\ b \in Nat /\ c \in Nat
         /\ h = held - n /\ p = q - n /\ held = totalDeposited + rewardPool + q + b - c
    BY <1>7, SharedNumbers DEF SharedBooks
  <1> HIDE DEF h, b, c, q, p
  <1>12. h = totalDeposited + rewardPool + p + b - c
    BY ONLY <1>1, <1>11
  <1> QED BY <1>3, <1>8, <1>9, <1>10, <1>12 DEF SharedBooks, pool, h, b, c

\* A reward drop is paid by the reward pool, once per epoch whatever roots come and go.
LEMMA ClaimDropKeeps == ASSUME SharedBooks, NEW u \in Users, NEW n \in Amounts, claim_merkle_reward(u, n) PROVE SharedBooks'
  <1> DEFINE k == <<u, drop.epoch>>   K == drop.claimed \cup {k}   Q == drop.paid   Z == [Q EXCEPT ![k] = Q[k] + n]   t == drop.table
  <1>1. n \in Nat /\ u \in Accounts /\ DropBooks
    BY BaseAssumption, SharedNumbers DEF SharedBooks
  <1>2. /\ k \notin drop.claimed /\ t # NoTable /\ t[u] = n /\ rewardPool >= n /\ push(u, n) /\ rewardPool' = rewardPool - n
        /\ drop' = [drop EXCEPT !.claimed = K, !.paid = Z]
        /\ UNCHANGED <<now, pool, revenue, matching, access>>
    BY DEF claim_merkle_reward
  <1>3. t \in Tables /\ drop.epoch \in DropEpochs /\ Q \in [DropKeys -> Nat] /\ k \in DropKeys /\ t[k[1]] = n
    BY <1>1, <1>2 DEF DropBooks, DropKeys
  <1>4. \A j \in DropKeys : paid_once(Q, drop.claimed, j)
    BY <1>1 DEF DropBooks
  <1>5. Z \in [DropKeys -> Nat] /\ \A j \in DropKeys : paid_once(Z, K, j)
    <2>1. k \notin drop.claimed /\ Z = [Q EXCEPT ![k] = Q[k] + n] /\ K = drop.claimed \cup {k}
      BY <1>2
    <2> HIDE DEF k, Q, t, Z, K
    <2> DEFINE c == drop.claimed
    <2>2. k \notin c /\ K = c \cup {k} /\ \A j \in DropKeys : paid_once(Q, c, j)
      BY <1>4, <2>1
    <2> HIDE DEF c
    <2>3. Z \in [DropKeys -> Nat] /\ \A j \in DropKeys : paid_once(Z, c \cup {k}, j)
      <3>1. n \in Nat /\ t \in Tables /\ Q \in [DropKeys -> Nat] /\ k \in DropKeys /\ t[k[1]] = n
            /\ k \notin c /\ (\A j \in DropKeys : paid_once(Q, c, j)) /\ Z = [Q EXCEPT ![k] = Q[k] + n]
        BY <1>1, <1>3, <2>1, <2>2
      <3>2. recorded(DropKeys, Z, c \cup {k})
        BY ONLY <3>1, ClaimedOnce
      <3> QED BY <3>2 DEF recorded
    <2> QED BY <2>2, <2>3
  <1> HIDE DEF K, Z, k
  <1>6. drop' = [table |-> t, epoch |-> drop.epoch, claimed |-> K, paid |-> Z, count |-> drop.count]
    <2>1. drop = [table |-> t, epoch |-> drop.epoch, claimed |-> drop.claimed, paid |-> Q, count |-> drop.count]
      BY <1>1 DEF DropBooks
    <2> QED BY <1>2, <2>1
  <1>7. /\ drop'.table = t /\ drop'.epoch = drop.epoch /\ drop'.claimed = K /\ drop'.paid = Z /\ drop'.count = drop.count
    BY <1>6
  <1>8. DropBooks'
    BY <1>3, <1>5, <1>6, <1>7 DEF DropBooks
  <1>9. wallet' \in [Accounts -> Nat] /\ held' \in Int /\ held' = held - n /\ rewardPool' \in Nat
    BY <1>1, <1>2, SharedNumbers, PushTyped
  <1>10. RevenueBooks' /\ MatchBooks' /\ AccessBooks' /\ Books'
    BY <1>2, <1>9 DEF SharedBooks, RevenueBooks, MatchBooks, AccessBooks, Books, pool
  <1> DEFINE h == held'   R == rewardPool'   b == matching.program.budget   c == matching.program.used   q == revenue.pool
  <1>11. /\ held \in Int /\ rewardPool \in Nat /\ q \in Nat /\ totalDeposited \in Nat /\ b \in Nat /\ c \in Nat
         /\ h = held - n /\ R = rewardPool - n /\ held = totalDeposited + rewardPool + q + b - c
    BY <1>2, <1>9, SharedNumbers DEF SharedBooks
  <1> HIDE DEF h, b, c, q, R
  <1>12. h = totalDeposited + R + q + b - c
    BY ONLY <1>1, <1>11
  <1> QED BY <1>2, <1>8, <1>10, <1>12 DEF SharedBooks, pool, h, b, c, R, q

LEMMA PublishKeeps == ASSUME SharedBooks, NEW t \in Tables, NEW e \in DropEpochs, publish_merkle_root(t, e) PROVE SharedBooks'
  <1> DEFINE n == drop.count + 1
  <1>1. /\ drop' = [drop EXCEPT !.table = t, !.epoch = e, !.count = n] /\ UNCHANGED <<base_vars, revenue, matching, access>>
    BY DEF publish_merkle_root
  <1> HIDE DEF n
  <1>2. DropBooks
    BY DEF SharedBooks
  <1>3. drop' = [table |-> t, epoch |-> e, claimed |-> drop.claimed, paid |-> drop.paid, count |-> n]
    <2>1. drop = [table |-> drop.table, epoch |-> drop.epoch, claimed |-> drop.claimed, paid |-> drop.paid, count |-> drop.count]
      BY <1>2 DEF DropBooks
    <2> QED BY <1>1, <2>1
  <1>4. drop'.table = t /\ drop'.epoch = e /\ drop'.claimed = drop.claimed /\ drop'.paid = drop.paid /\ drop'.count = n
    BY <1>3
  <1>5. DropBooks'
    BY <1>2, <1>3, <1>4 DEF DropBooks
  <1>6. Books' /\ RevenueBooks' /\ MatchBooks' /\ AccessBooks'
    BY <1>1 DEF SharedBooks, Books, RevenueBooks, MatchBooks, AccessBooks, base_vars, pool
  <1> QED BY <1>1, <1>5, <1>6 DEF SharedBooks, base_vars, pool

MatchRecord == [program : Program, matched : [Users -> Nat], spent : Nat, programs : Nat]

LEMMA MinOfThree ==
    ASSUME NEW x \in Nat, NEW y \in Nat, NEW z \in Nat
    PROVE  Min({x, y, z}) \in Nat /\ Min({x, y, z}) <= z
  <1> DEFINE S == {x, y, z}
  <1>1. \E m \in S : \A v \in S : m <= v
    <2>1. CASE x <= y /\ x <= z
      BY <2>1
    <2>2. CASE y <= x /\ y <= z
      BY <2>2
    <2>3. CASE z <= x /\ z <= y
      BY <2>3
    <2> QED BY <2>1, <2>2, <2>3
  <1>2. Min(S) \in S /\ \A v \in S : Min(S) <= v
    <2> HIDE DEF S
    <2> QED BY <1>1 DEF Min
  <1> QED BY <1>2

\* A match is a number within the budget left; without a program there is none.
LEMMA MatchWithin ==
    ASSUME SharedBooks, NEW u \in Users, NEW n \in Nat
    PROVE  /\ apply_stake_match(u, n) \in Nat
           /\ apply_stake_match(u, n) <= matching.program.budget - matching.program.used
           /\ ~matching.program.active => apply_stake_match(u, n) = 0
  <1> DEFINE p == matching.program
             headroom(limit, used) == IF limit > used THEN limit - used ELSE 0
             x == bps(n, p.rate)   y == headroom(p.cap, matching.matched[u])   z == headroom(p.budget, p.used)
  <1>1. p.budget \in Nat /\ p.used \in Nat /\ p.used <= p.budget /\ p.rate \in Nat /\ p.cap \in Nat
    BY SharedNumbers
  <1>2. matching.matched[u] \in Nat
    BY DEF SharedBooks, MatchBooks
  <1>3. x \in Nat
    BY <1>1, BpsNat
  <1>4. y \in Nat
    BY <1>1, <1>2
  <1>5. z \in Nat /\ z = p.budget - p.used
    BY <1>1
  <1>6. apply_stake_match(u, n) = IF ~p.active THEN 0 ELSE Min({x, y, z})
    BY DEF apply_stake_match
  <1> HIDE DEF x, y, z, p
  <1>7. Min({x, y, z}) \in Nat /\ Min({x, y, z}) <= z
    BY <1>3, <1>4, <1>5, MinOfThree
  <1> QED BY <1>1, <1>5, <1>6, <1>7 DEF p

\* A program starts with its budget in the contract, and only after the one before ended.
LEMMA StartMatchingKeeps ==
    ASSUME SharedBooks, NEW t \in MatchTerms, NEW n \in Amounts, start_matching_program(t[1], t[2], n)
    PROVE  SharedBooks'
  <1> DEFINE P == [rate |-> t[1], cap |-> t[2], budget |-> n, used |-> 0, active |-> TRUE]
             p == matching.program   s == matching.spent + p.used   c == matching.programs + 1
  <1>1. n \in Nat /\ t[1] \in Nat /\ t[2] \in Nat /\ matching \in MatchRecord /\ p.used \in Nat
    BY BaseAssumption, DistributionAssumption, SharedNumbers DEF SharedBooks, MatchBooks, MatchRecord
  <1>2. /\ ~p.active /\ pull(Admin, n) /\ matching' = [matching EXCEPT !.program = P, !.spent = s, !.programs = c]
        /\ UNCHANGED <<now, pool, rewardPool, revenue, drop, access>>
    BY DEF start_matching_program
  <1>3. P \in Program /\ P.budget = n /\ P.used = 0 /\ P.active
    BY <1>1 DEF Program
  <1>4. s \in Nat /\ c \in Nat
    <2>1. matching.spent \in Nat /\ matching.programs \in Nat
      BY <1>1 DEF MatchRecord
    <2> QED BY <1>1, <2>1
  <1>5. p.budget = p.used /\ p.budget \in Nat /\ sum(matching.matched) = s
    BY <1>2, SharedNumbers DEF SharedBooks, MatchBooks
  <1> HIDE DEF P, s, c
  <1>6. matching' \in MatchRecord /\ matching'.program = P /\ matching'.spent = s /\ matching'.matched = matching.matched
    BY <1>1, <1>2, <1>3, <1>4 DEF MatchRecord
  <1>7. MatchBooks'
    BY <1>1, <1>3, <1>4, <1>5, <1>6 DEF MatchBooks, MatchRecord
  <1>8. wallet' \in [Accounts -> Nat] /\ held' \in Int /\ held' = held + n
    BY <1>1, <1>2, SharedNumbers, PullTyped
  <1>9. RevenueBooks' /\ DropBooks' /\ AccessBooks' /\ Books'
    BY <1>2, <1>8 DEF SharedBooks, RevenueBooks, DropBooks, AccessBooks, Books, pool
  <1> DEFINE h == held'   q == revenue.pool   b == p.budget   d == p.used
  <1>10. /\ h = held + n /\ held = totalDeposited + rewardPool + q + b - d /\ b = d /\ b \in Nat /\ q \in Nat
         /\ totalDeposited \in Nat /\ rewardPool \in Nat
    BY <1>5, <1>8, SharedNumbers DEF SharedBooks
  <1> HIDE DEF h, q, b, d
  <1>11. h = totalDeposited + rewardPool + q + n - 0
    BY ONLY <1>1, <1>10
  <1> QED BY <1>2, <1>3, <1>6, <1>7, <1>9, <1>11 DEF SharedBooks, pool, h, q

\* Its end gives back what was not matched.
LEMMA EndMatchingKeeps == ASSUME SharedBooks, end_matching_program PROVE SharedBooks'
  <1> DEFINE p == matching.program   n == p.budget - p.used   P == [p EXCEPT !.active = FALSE, !.budget = p.used]
  <1>1. /\ matching \in MatchRecord /\ p \in Program /\ p.used \in Nat /\ p.budget \in Nat /\ n \in Nat
    BY SharedNumbers DEF SharedBooks, MatchBooks, MatchRecord
  <1>2. /\ push(Admin, n) /\ matching' = [matching EXCEPT !.program = P]
        /\ UNCHANGED <<now, pool, rewardPool, revenue, drop, access>>
    BY DEF end_matching_program
  <1>3. P \in Program /\ P.budget = p.used /\ P.used = p.used
    <2> HIDE DEF p
    <2> QED BY <1>1 DEF Program
  <1> HIDE DEF P
  <1>4. matching' \in MatchRecord /\ matching'.program = P /\ matching'.spent = matching.spent /\ matching'.matched = matching.matched
    BY <1>1, <1>2, <1>3 DEF MatchRecord
  <1>5. MatchBooks'
    BY <1>1, <1>3, <1>4 DEF SharedBooks, MatchBooks, MatchRecord
  <1>6. wallet' \in [Accounts -> Nat] /\ held' \in Int /\ held' = held - n
    BY <1>1, <1>2, SharedNumbers, PushTyped
  <1>7. RevenueBooks' /\ DropBooks' /\ AccessBooks' /\ Books'
    BY <1>2, <1>6 DEF SharedBooks, RevenueBooks, DropBooks, AccessBooks, Books, pool
  <1> DEFINE h == held'   q == revenue.pool   b == p.budget   d == p.used
  <1>8. /\ h = held - n /\ held = totalDeposited + rewardPool + q + b - d /\ b \in Nat /\ d \in Nat /\ q \in Nat
        /\ totalDeposited \in Nat /\ rewardPool \in Nat /\ n = b - d
    BY <1>1, <1>6, SharedNumbers DEF SharedBooks
  <1> HIDE DEF h, q, b, n, d
  <1>9. h = totalDeposited + rewardPool + q + d - d
    BY ONLY <1>8
  <1> QED BY <1>2, <1>3, <1>4, <1>5, <1>7, <1>9 DEF SharedBooks, pool, h, q, d

\* Stake and match are minted one after the other; the match comes out of the budget.
LEMMA StakeMatchedKeeps == ASSUME SharedBooks, NEW u \in Users, NEW n \in Amounts, stake_matched(u, n) PROVE SharedBooks'
  <1> DEFINE p == matching.program   match == apply_stake_match(u, n)
             minted == amount_to_shares(totalShares, totalDeposited, n)
             extra == amount_to_shares(totalShares + minted, totalDeposited + n, match)
             given == IF extra > 0 THEN match ELSE 0
             P == [p EXCEPT !.used = p.used + given]   M == matching.matched   g == M[u] + given
             G == [M EXCEPT ![u] = g]   m == shares[u] + minted + extra
  <1>1. /\ n \in Nat /\ u \in Accounts /\ Books /\ shares[u] \in Nat /\ totalShares \in Nat /\ totalDeposited \in Nat
        /\ IsFiniteSet(Users)
    BY BaseAssumption, BooksTotal, SharedNumbers DEF SharedBooks, Books
  <1>2. /\ p \in Program /\ p.used \in Nat /\ p.budget \in Nat /\ p.used <= p.budget /\ matching \in MatchRecord
        /\ (p.active \/ p.budget = p.used)
    BY SharedNumbers DEF SharedBooks, MatchBooks, MatchRecord
  <1>3. match \in Nat /\ match <= p.budget - p.used /\ (~p.active => match = 0)
    BY <1>1, MatchWithin
  <1>4. minted \in Nat
    BY <1>1, MintDefaultNat
  <1>5. /\ pull(u, n) /\ shares' = [shares EXCEPT ![u] = @ + minted + extra]
        /\ totalShares' = totalShares + minted + extra /\ totalDeposited' = totalDeposited + n + given
        /\ matching' = [matching EXCEPT !.program = P, !.matched = G]
        /\ UNCHANGED <<now, rewardPool, revenue, drop, access>>
    BY DEF stake_matched
  <1> HIDE DEF match, minted
  <1>6. extra \in Nat
    <2>1. totalShares + minted \in Nat /\ totalDeposited + n \in Nat
      BY <1>1, <1>4
    <2> QED BY <1>3, <2>1, MintDefaultNat
  <1> HIDE DEF extra
  <1>7. given \in Nat /\ p.used + given <= p.budget /\ (~p.active => given = 0)
    <2> HIDE DEF p
    <2> QED BY <1>2, <1>3
  <1> HIDE DEF given
  <1>8. m \in Nat /\ shares' = [shares EXCEPT ![u] = m]
    BY <1>1, <1>4, <1>5, <1>6
  <1>9. totalShares' = totalShares + m - shares[u]
    BY <1>1, <1>4, <1>5, <1>6
  <1>10. shares' \in [Users -> Nat] /\ totalShares' = sum(shares')
    <2> HIDE DEF m
    <2> QED BY <1>1, <1>8, <1>9, ShareWrite
  <1>11. P \in Program /\ P.budget = p.budget /\ P.used = p.used + given /\ P.active = p.active
    <2> DEFINE w == p.used + given
    <2>1. w \in Nat
      BY <1>2, <1>7
    <2> HIDE DEF p, w
    <2>2. [p EXCEPT !.used = w] \in Program /\ [p EXCEPT !.used = w].budget = p.budget
          /\ [p EXCEPT !.used = w].used = w /\ [p EXCEPT !.used = w].active = p.active
      BY <1>2, <2>1 DEF Program
    <2> QED BY <2>2 DEF w
  <1>12. M \in [Users -> Nat] /\ M[u] \in Nat /\ matching.spent \in Nat /\ sum(M) = matching.spent + p.used
    BY <1>2 DEF MatchRecord, SharedBooks, MatchBooks
  <1>13. g \in Nat
    BY <1>7, <1>12
  <1>14. G \in [Users -> Nat] /\ G[u] = M[u] + given /\ (\A v \in Users \ {u} : G[v] = M[v]) /\ M \in [Users -> Int] /\ G \in [Users -> Int]
    <2> HIDE DEF M
    <2>1. G \in [Users -> Nat]
      <3> HIDE DEF g
      <3> QED BY <1>12, <1>13
    <2> QED BY <1>12, <2>1
  <1> HIDE DEF P, G, M
  <1>15. sum(G) = sum(M) + G[u] - M[u]
    BY ONLY <1>1, <1>14, u \in Users, SumChange
  <1>16. matching' \in MatchRecord /\ matching'.program = P /\ matching'.spent = matching.spent /\ matching'.matched = G
    BY <1>2, <1>5, <1>11, <1>14 DEF MatchRecord
  <1>17. MatchBooks'
    <2> DEFINE x == sum(G)   y == sum(M)   sp == matching.spent   us == p.used
    <2>1. x = y + (M[u] + given) - M[u] /\ y = sp + us /\ sp \in Nat /\ us \in Nat
      BY <1>2, <1>12, <1>14, <1>15
    <2> HIDE DEF x, y, sp, us
    <2>2. x = sp + (us + given)
      BY ONLY <1>7, <1>12, <2>1
    <2>3. sum(matching'.matched) = matching'.spent + matching'.program.used
      BY <1>11, <1>16, <2>2 DEF x, sp, us
    <2>4. matching'.program.used <= matching'.program.budget /\ (matching'.program.active \/ matching'.program.budget = matching'.program.used)
      <3> HIDE DEF p
      <3> QED BY <1>2, <1>7, <1>11, <1>16
    <2> QED BY <1>16, <2>3, <2>4 DEF MatchBooks, MatchRecord
  <1>18. wallet' \in [Accounts -> Nat] /\ held' \in Int /\ held' = held + n
    BY <1>1, <1>5, SharedNumbers, PullTyped
  <1>19. totalDeposited' \in Nat
    BY <1>1, <1>5, <1>7
  <1>20. Books'
    BY <1>5, <1>10, <1>18, <1>19 DEF SharedBooks, Books
  <1>21. RevenueBooks' /\ DropBooks' /\ AccessBooks'
    BY <1>5 DEF SharedBooks, RevenueBooks, DropBooks, AccessBooks
  <1> DEFINE h == held'   D == totalDeposited'   q == revenue.pool   b == p.budget   d == p.used
  <1>22. /\ h = held + n /\ D = totalDeposited + n + given /\ held = totalDeposited + rewardPool + q + b - d
         /\ b \in Nat /\ d \in Nat /\ q \in Nat /\ rewardPool \in Nat /\ held \in Int
    BY <1>5, <1>18, SharedNumbers DEF SharedBooks
  <1> HIDE DEF h, q, b, d, D
  <1>23. h = D + rewardPool + q + b - (d + given)
    BY ONLY <1>1, <1>7, <1>22
  <1> QED BY <1>5, <1>11, <1>16, <1>17, <1>20, <1>21, <1>23 DEF SharedBooks, h, q, d, D, b

\* The tokens follow the tier on record.
LEMMA TokenWrite ==
    ASSUME AccessBooks, NEW u \in Users, NEW x, NEW K, K = {x} \ {NoTier}, NEW T, NEW W,
           T = [access.tier EXCEPT ![u] = x], W = [access.tokens EXCEPT ![u] = K],
           access' = [access EXCEPT !.tier = T, !.tokens = W]
    PROVE  AccessBooks'
  <1> DEFINE A == access.tier   B == access.tokens
  <1>1. /\ access = [tiers |-> access.tiers, tier |-> A, tokens |-> B, since |-> access.since]
        /\ A = [v \in Users |-> A[v]] /\ B = [v \in Users |-> B[v]]
        /\ \A v \in Users : B[v] = {A[v]} \ {NoTier}
    BY DEF AccessBooks
  <1>2. access' = [tiers |-> access.tiers, tier |-> T, tokens |-> W, since |-> access.since]
    BY <1>1
  <1>3. access'.tiers = access.tiers /\ access'.tier = T /\ access'.tokens = W /\ access'.since = access.since
    BY <1>2
  <1> HIDE DEF A, B
  <1>4. T = [v \in Users |-> T[v]] /\ T[u] = x /\ \A v \in Users \ {u} : T[v] = A[v]
    BY <1>1 DEF A
  <1>5. W = [v \in Users |-> W[v]] /\ W[u] = K /\ \A v \in Users \ {u} : W[v] = B[v]
    BY <1>1 DEF B
  <1>6. \A v \in Users : W[v] = {T[v]} \ {NoTier}
    BY <1>1, <1>4, <1>5
  <1> QED BY <1>2, <1>3, <1>4, <1>5, <1>6 DEF AccessBooks

\* Stakers who come and go leave the distributions alone.
LEMMA PoolShared ==
    ASSUME SharedBooks, PoolMoves, UNCHANGED <<revenue, drop, matching>>, AccessBooks'
    PROVE  SharedBooks'
  <1>1. Books' /\ rewardPool' = rewardPool /\ held' - totalDeposited' = held - totalDeposited
    BY PoolMovesKeep DEF SharedBooks
  <1>2. RevenueBooks' /\ DropBooks' /\ MatchBooks'
    BY DEF SharedBooks, RevenueBooks, DropBooks, MatchBooks
  <1> DEFINE h == held'   D == totalDeposited'   q == revenue.pool   b == matching.program.budget   d == matching.program.used
  <1>3. /\ h - D = held - totalDeposited /\ held = totalDeposited + rewardPool + q + b - d
        /\ h \in Int /\ D \in Int /\ held \in Int /\ totalDeposited \in Int /\ rewardPool \in Int
        /\ q \in Int /\ b \in Int /\ d \in Int
    BY <1>1, SharedNumbers DEF SharedBooks, Books
  <1> HIDE DEF h, D, q, b, d
  <1>4. h = D + rewardPool + q + b - d
    BY ONLY <1>3
  <1> QED BY <1>1, <1>2, <1>4 DEF SharedBooks, h, D, q, b, d

LEMMA LeaveShared == ASSUME SharedBooks, NEW u \in Users, leave(u), UNCHANGED distribution_vars PROVE SharedBooks'
  <1>1. PoolMoves
    BY DEF PoolMoves
  <1>2. UNCHANGED <<revenue, drop, matching>> /\ access' = access
    BY DEF distribution_vars
  <1>3. AccessBooks'
    BY <1>2 DEF SharedBooks, AccessBooks
  <1> QED BY <1>1, <1>2, <1>3, PoolShared

LEMMA AccessKeeps == ASSUME SharedBooks, AccessMoves PROVE SharedBooks'
  <1>1. AccessBooks /\ Books
    BY DEF SharedBooks
  <1>2. ASSUME AccessBooks', UNCHANGED <<base_vars, revenue, drop, matching>> PROVE SharedBooks'
    BY <1>2 DEF SharedBooks, Books, RevenueBooks, DropBooks, MatchBooks, base_vars, pool
  <1>3. ASSUME NEW t \in AccessTiers, set_access_tier(t[1], t[2]) PROVE SharedBooks'
    <2> DEFINE T == Append(access.tiers, [stake |-> t[1], age |-> t[2]])
    <2>1. access' = [access EXCEPT !.tiers = T] /\ UNCHANGED <<base_vars, revenue, drop, matching>>
      BY <1>3 DEF set_access_tier
    <2> HIDE DEF T
    <2>2. access = [tiers |-> access.tiers, tier |-> access.tier, tokens |-> access.tokens, since |-> access.since]
      BY <1>1 DEF AccessBooks
    <2>3. access' = [tiers |-> T, tier |-> access.tier, tokens |-> access.tokens, since |-> access.since]
      BY <2>1, <2>2
    <2>4. access'.tiers = T /\ access'.tier = access.tier /\ access'.tokens = access.tokens /\ access'.since = access.since
      BY <2>3
    <2>5. AccessBooks'
      BY <1>1, <2>3, <2>4 DEF AccessBooks
    <2> QED BY <1>2, <2>1, <2>5
  <1>4. ASSUME NEW u \in Users, claim_access_token(u) PROVE SharedBooks'
    <2> DEFINE x == check_access_eligibility(u)   K == (access.tokens[u] \ {access.tier[u]}) \cup {x}
               T == [access.tier EXCEPT ![u] = x]   W == [access.tokens EXCEPT ![u] = K]
    <2>1. x # NoTier /\ access' = [access EXCEPT !.tier = T, !.tokens = W] /\ UNCHANGED <<base_vars, revenue, drop, matching>>
      BY <1>4 DEF claim_access_token
    <2> HIDE DEF x
    <2>2. K = {x} \ {NoTier}
      BY <1>1, <2>1 DEF AccessBooks
    <2> HIDE DEF K
    <2>3. AccessBooks'
      BY <1>1, <2>1, <2>2, TokenWrite
    <2> QED BY <1>2, <2>1, <2>3
  <1>5. ASSUME NEW u \in Users, revoke_access_token(u) PROVE SharedBooks'
    <2> DEFINE K == access.tokens[u] \ {access.tier[u]}
               T == [access.tier EXCEPT ![u] = NoTier]   W == [access.tokens EXCEPT ![u] = K]
    <2>1. access' = [access EXCEPT !.tier = T, !.tokens = W] /\ UNCHANGED <<base_vars, revenue, drop, matching>>
      BY <1>5 DEF revoke_access_token
    <2>2. K = {NoTier} \ {NoTier}
      BY <1>1 DEF AccessBooks
    <2> HIDE DEF K
    <2>3. AccessBooks'
      BY <1>1, <2>1, <2>2, TokenWrite
    <2> QED BY <1>2, <2>1, <2>3
  <1>6. ASSUME NEW u \in Users, leave(u) /\ UNCHANGED distribution_vars PROVE SharedBooks'
    BY <1>6, LeaveShared
  <1>7. ASSUME NEW u \in Users, NEW a \in Amounts, open_or_grow(u, a) PROVE SharedBooks'
    <2>1. join(u, a) /\ UNCHANGED <<revenue, drop, matching>>
      BY <1>7 DEF open_or_grow
    <2>2. PoolMoves
      BY <2>1 DEF PoolMoves
    <2>3. access'.tiers = access.tiers /\ access'.tier = access.tier /\ access'.tokens = access.tokens
          /\ access' = [tiers |-> access.tiers, tier |-> access.tier, tokens |-> access.tokens, since |-> access'.since]
      <3> DEFINE S == [access.since EXCEPT ![u] = now]
      <3>1. access' = [access EXCEPT !.since = S] \/ access' = access
        BY <1>7 DEF open_or_grow
      <3> HIDE DEF S
      <3>2. access = [tiers |-> access.tiers, tier |-> access.tier, tokens |-> access.tokens, since |-> access.since]
        BY <1>1 DEF AccessBooks
      <3>3. CASE access' = access
        BY <3>2, <3>3
      <3>4. CASE access' = [access EXCEPT !.since = S]
        <4>1. access' = [tiers |-> access.tiers, tier |-> access.tier, tokens |-> access.tokens, since |-> S]
          BY <3>2, <3>4
        <4> QED BY <4>1
      <3> QED BY <3>1, <3>3, <3>4
    <2>4. AccessBooks'
      BY <1>1, <2>3 DEF AccessBooks
    <2> QED BY <2>1, <2>2, <2>4, PoolShared
  <1> QED BY <1>3, <1>4, <1>5, <1>6, <1>7 DEF AccessMoves

LEMMA SharedBooksStep ==
    ASSUME SharedBooks, SharingMoves \/ DropMoves \/ MatchingMoves \/ AccessMoves \/ DistributionTick
    PROVE  SharedBooks'
  <1>1. CASE SharingMoves
    <2>1. CASE \/ \E r \in ShareRates : set_revenue_sharing(r) \/ set_fee_recycle_bps(r)
               \/ \E f \in FlashFees : set_flash_stake_fee_bps(f)
               \/ \E t \in Tables : distribute_revenue(t)
      <3>1. UNCHANGED <<base_vars, drop, matching, access>>
        BY <2>1 DEF set_revenue_sharing, set_fee_recycle_bps, set_flash_stake_fee_bps, distribute_revenue
      <3> QED BY <2>1, <3>1, RevenueSettings
    <2> QED BY <1>1, <2>1, FlashStakeKeeps, ClaimShareKeeps DEF SharingMoves
  <1>2. CASE DropMoves
    BY <1>2, PublishKeeps, ClaimDropKeeps DEF DropMoves
  <1>3. CASE MatchingMoves
    BY <1>3, StartMatchingKeeps, EndMatchingKeeps, StakeMatchedKeeps, LeaveShared DEF MatchingMoves
  <1>4. CASE AccessMoves
    BY <1>4, AccessKeeps
  <1>5. CASE DistributionTick
    <2>1. PoolMoves /\ UNCHANGED <<revenue, drop, matching>> /\ access' = access
      BY <1>5 DEF DistributionTick, PoolMoves, distribution_vars
    <2>2. AccessBooks'
      BY <2>1 DEF SharedBooks, AccessBooks
    <2> QED BY <2>1, <2>2, PoolShared
  <1> QED BY <1>1, <1>2, <1>3, <1>4, <1>5

SharedInv == focus \in {"sharing", "drops", "matching", "access"} => SharedBooks

LEMMA SharedInvInit == FundsInit => SharedInv
  BY SharedBooksInit DEF SharedInv

LEMMA SharedInvStep == ASSUME SharedInv, [FundsNext]_funds_vars PROVE SharedInv'
  <1>1. CASE focus \in {"sharing", "drops", "matching", "access"}
    <2>1. /\ UNCHANGED focus /\ SharedBooks
          /\ \/ SharingMoves \/ DropMoves \/ MatchingMoves \/ AccessMoves \/ DistributionTick
             \/ UNCHANGED <<base_vars, distribution_vars>>
      BY <1>1, SharedStep DEF SharedInv
    <2>2. CASE UNCHANGED <<base_vars, distribution_vars>>
      BY <2>1, <2>2 DEF SharedInv, SharedBooks, Books, RevenueBooks, DropBooks, MatchBooks, AccessBooks,
                        base_vars, pool, distribution_vars
    <2> QED BY <2>1, <2>2, SharedBooksStep DEF SharedInv
  <1>2. CASE focus \notin {"sharing", "drops", "matching", "access"}
    BY <1>2 DEF SharedInv, FundsNext, funds_vars
  <1> QED BY <1>1, <1>2

\* What the books keep is what the properties say.
LEMMA SharedWhole == ASSUME SharedBooks PROVE distributions_covered /\ matches_credited /\ one_access_token
  <1>1. revenue.paid \in [ShareKeys -> Nat] /\ drop.paid \in [DropKeys -> Nat] /\ \E t : t \in Tables
    BY DistributionAssumption DEF SharedBooks, RevenueBooks, Revenue, DropBooks
  <1>2. \A k \in DOMAIN revenue.paid : \E t \in Tables : revenue.paid[k] \in {0, t[k[1]]}
    BY <1>1 DEF SharedBooks, RevenueBooks, paid_once
  <1>3. \A k \in DOMAIN drop.paid : \E t \in Tables : drop.paid[k] \in {0, t[k[1]]}
    BY <1>1 DEF SharedBooks, DropBooks, paid_once
  <1>4. matches_credited /\ one_access_token
    BY DEF SharedBooks, MatchBooks, AccessBooks, matches_credited, one_access_token
  <1> QED BY <1>2, <1>3, <1>4 DEF SharedBooks, distributions_covered

\* Campaigns and distributions (lockdrop.rs, presale.rs, mutual_insurance.rs, revenue
\* sharing, Merkle drops, matching, access tiers): in any order of exits, second commitments,
\* second campaigns, replaced roots, reused epochs and ended programs, what was collected or
\* promised is in the contract beyond principal and rewards, and is given once.
THEOREM CampaignsAreCovered == FundsSpec => []CampaignsCovered
  <1>1. CampaignInv /\ SharedInv => CampaignsCovered
    BY CampaignsWhole, SharedWhole DEF CampaignInv, SharedInv, CampaignsCovered
  <1> QED BY <1>1, CampaignInvInit, CampaignInvStep, SharedInvInit, SharedInvStep, PTL DEF FundsSpec, funds_vars

-------------------------------------------------------------------------------
(* Daily limits and allowances. *)

\* In this focus only the exits under a limit run.
LEMMA LimitStep ==
    ASSUME focus = "limits", [FundsNext]_funds_vars
    PROVE  UNCHANGED focus /\ (LimitMoves \/ PositionTick \/ UNCHANGED <<base_vars, position_vars>>)
  BY DEF FundsNext, funds_vars, capacity_step, market_step, contest_step, campaign_step, claim_step,
         subpool_step, position_step, outside_step, ballot_step, safeguard_step, wind_step, shared_step

Ledgers == 0..MaxLedger
Pairs == Users \X Users
Tracker == [start : Nat, used : Nat]
Allowance == [shares : Nat, expires : Nat]
LeaveRules == [limit : Nat, min : Nat, tracker : [Users -> Tracker], allowance : [Pairs -> Allowance],
               out : [Users -> [Ledgers -> Nat]], given : [Pairs -> Nat], taken : [Pairs -> Nat]]

day_of(s) == {k \in Ledgers : s <= k /\ k < s + LEDGERS_PER_DAY}
left_in(o, s) == sum([k \in day_of(s) |-> o[k]])

\* The tracker of a user with the withdrawals o, at ledger n: nothing left the position after
\* its day, or, when it counts nothing, since its start.
day_kept(t, o, n) ==
    /\ t.start <= n
    /\ \A k \in Ledgers : k > n => o[k] = 0
    /\ t.used > 0 => t.used <= Max(DailyLimits)
    /\ t.used > 0 => t.used = left_in(o, t.start)
    /\ t.used > 0 => \A k \in Ledgers : k >= t.start + LEDGERS_PER_DAY => o[k] = 0
    /\ t.used = 0 => \A k \in Ledgers : k >= t.start => o[k] = 0

LEMMA LedgersFinite == IsFiniteSet(Ledgers)
  <1>1. 0 \in Int /\ MaxLedger \in Int
    BY BaseAssumption
  <1>2. IsFiniteSet(0..MaxLedger)
    BY ONLY <1>1, FS_Interval
  <1> QED BY <1>2 DEF Ledgers

day_written(t, o, n) == t \in Tracker /\ o \in [Ledgers -> Nat] /\ day_kept(t, o, n)

\* A withdrawal of m is recorded with the tracker of its day.
LEMMA DayRecorded ==
    ASSUME NEW t \in Tracker, NEW o \in [Ledgers -> Nat], NEW n \in Ledgers, day_kept(t, o, n), NEW m \in Nat,
           NEW d, d = (IF t.used > 0 /\ n - t.start < LEDGERS_PER_DAY THEN t ELSE [start |-> n, used |-> 0]),
           d.used + m <= Max(DailyLimits),
           NEW e, e = [d EXCEPT !.used = d.used + m], NEW q, q = [o EXCEPT ![n] = o[n] + m]
    PROVE  day_written(e, q, n)
  <1> DEFINE D == day_of(d.start)   f == [k \in D |-> o[k]]   g == [k \in D |-> q[k]]   L == LEDGERS_PER_DAY
  <1>1. L \in Nat /\ L > 0 /\ MaxLedger \in Nat /\ n \in Nat /\ t.start \in Nat /\ t.used \in Nat
    BY PositionAssumption, BaseAssumption DEF Ledgers, Tracker
  <1>2. d \in Tracker /\ d.start \in Nat /\ d.used \in Nat /\ d.start <= n
    <2>1. CASE d = t
      BY <1>1, <2>1 DEF day_kept
    <2>2. CASE d = [start |-> n, used |-> 0]
      BY <1>1, <2>2 DEF Tracker
    <2> QED BY <2>1, <2>2
  <1>3. e \in Tracker /\ e.start = d.start /\ e.used = d.used + m
    <2> DEFINE x == d.used + m
    <2>1. x \in Nat /\ e = [d EXCEPT !.used = x]
      BY <1>2
    <2> HIDE DEF x
    <2>2. e \in Tracker /\ e.start = d.start /\ e.used = x
      BY <1>2, <2>1 DEF Tracker
    <2> QED BY <2>2 DEF x
  <1>4. q \in [Ledgers -> Nat] /\ q[n] = o[n] + m /\ \A k \in Ledgers : k # n => q[k] = o[k]
    OBVIOUS
  <1>5. n \in D /\ n < d.start + L
    <2>1. CASE d = t /\ t.used > 0 /\ n - t.start < L
      <3>1. t.start <= n
        BY DEF day_kept
      <3>2. n < t.start + L
        BY ONLY <1>1, <2>1
      <3> QED BY <2>1, <3>1, <3>2 DEF day_of
    <2>2. CASE d = [start |-> n, used |-> 0]
      BY <1>1, <2>2 DEF day_of
    <2> QED BY <2>1, <2>2
  <1>6. \A k \in Ledgers : k >= d.start + L => o[k] = 0
    <2>1. CASE d = t /\ t.used > 0
      BY <2>1 DEF day_kept
    <2>2. CASE d = [start |-> n, used |-> 0]
      <3>1. \A k \in Ledgers : k >= n + L => k > n
        BY <1>1 DEF Ledgers
      <3> QED BY <2>2, <3>1 DEF day_kept
    <2> QED BY <2>1, <2>2
  <1>7. d.used = sum(f) /\ (d.used = 0 => \A k \in Ledgers : k >= d.start => o[k] = 0)
    <2>1. CASE d = t /\ t.used > 0
      BY <2>1 DEF day_kept, left_in
    <2>2. CASE d = [start |-> n, used |-> 0] /\ ~(t.used > 0 /\ n - t.start < L)
      <3>1. \A k \in Ledgers : k >= n => o[k] = 0
        <4>1. CASE t.used = 0
          <5>1. \A k \in Ledgers : k >= n => k >= t.start
            BY <1>1 DEF day_kept, Ledgers
          <5> QED BY <4>1, <5>1 DEF day_kept
        <4>2. CASE t.used > 0 /\ n >= t.start + L
          <5>1. \A k \in Ledgers : k >= n => k >= t.start + L
            BY <1>1, <4>2 DEF Ledgers
          <5> QED BY <4>2, <5>1 DEF day_kept
        <4> QED BY <1>1, <2>2, <4>1, <4>2
      <3>2. D \subseteq Ledgers /\ \A k \in D : k >= n
        BY <2>2 DEF day_of
      <3>3. f \in [D -> Int] /\ (\A k \in D : f[k] = 0) /\ IsFiniteSet(D)
        <4> QED BY <3>1, <3>2, LedgersFinite, FS_Subset
      <3> HIDE DEF f, D
      <3>4. sum(f) = 0
        BY ONLY <3>3, SumZero
      <3> QED BY <2>2, <3>1, <3>4
    <2> QED BY <1>1, <2>1, <2>2
  <1>8. f \in [D -> Int] /\ g \in [D -> Int] /\ IsFiniteSet(D) /\ n \in D /\ (\A k \in D \ {n} : g[k] = f[k])
        /\ f[n] = o[n] /\ g[n] = o[n] + m
    <2>1. D \subseteq Ledgers /\ IsFiniteSet(Ledgers)
      BY LedgersFinite DEF day_of
    <2>2. IsFiniteSet(D)
      BY <2>1, FS_Subset
    <2> HIDE DEF D
    <2> QED BY <1>4, <1>5, <2>1, <2>2
  <1>9. left_in(q, e.start) = sum(g)
    BY <1>3 DEF left_in
  <1> HIDE DEF f, g, D, L
  <1>10. sum(g) = sum(f) + g[n] - f[n]
    BY ONLY <1>8, SumChange
  <1>11. e.used = left_in(q, e.start)
    <2> DEFINE x == sum(g)   y == sum(f)   z == o[n]
    <2>1. x = y + (z + m) - z /\ z \in Nat /\ y \in Nat /\ d.used = y
      BY <1>2, <1>7, <1>8, <1>10
    <2> HIDE DEF x, y, z
    <2>2. x = y + m
      BY ONLY <2>1, m \in Nat
    <2> QED BY <1>3, <1>9, <2>1, <2>2 DEF x
  <1>12. e.used = 0 => \A k \in Ledgers : k >= e.start => q[k] = 0
    <2> SUFFICES ASSUME e.used = 0, NEW k \in Ledgers, k >= e.start PROVE q[k] = 0
      OBVIOUS
    <2>1. d.used = 0 /\ m = 0
      BY <1>2, <1>3
    <2>2. o[k] = 0
      BY <1>3, <1>7, <2>1
    <2> QED BY <1>4, <2>1, <2>2
  <1>13. \A k \in Ledgers : k > n => q[k] = 0
    BY <1>1, <1>4 DEF day_kept, Ledgers
  <1>14. \A k \in Ledgers : k >= e.start + LEDGERS_PER_DAY => q[k] = 0
    <2> SUFFICES ASSUME NEW k \in Ledgers, k >= e.start + LEDGERS_PER_DAY PROVE q[k] = 0
      OBVIOUS
    <2>1. k # n
      BY <1>1, <1>2, <1>3, <1>5 DEF L, Ledgers
    <2> QED BY <1>3, <1>4, <1>6, <2>1 DEF L
  <1> QED BY <1>2, <1>3, <1>4, <1>11, <1>12, <1>13, <1>14 DEF day_kept, day_written

\* Time alone changes nothing.
LEMMA DayLater ==
    ASSUME NEW t \in Tracker, NEW o, NEW n \in Nat, NEW m \in Nat, m >= n, day_kept(t, o, n)
    PROVE  day_kept(t, o, m)
  <1>1. t.start \in Nat
    BY DEF Tracker
  <1>2. \A k \in Ledgers : k > m => k > n
    BY BaseAssumption DEF Ledgers
  <1> QED BY <1>1, <1>2 DEF day_kept

\* The books of the limits.
LimitBooks ==
    /\ Books /\ now \in Ledgers /\ leave_rules \in LeaveRules
    /\ leave_rules.limit \in DailyLimits \cup {0}
    /\ \A u \in Users : day_kept(leave_rules.tracker[u], leave_rules.out[u], now)
    /\ \A x \in Pairs : leave_rules.taken[x] + leave_rules.allowance[x].shares = leave_rules.given[x]

LEMMA LimitBooksInit == ASSUME FundsInit PROVE LimitBooks
  <1> DEFINE T == [u \in Users |-> [start |-> 0, used |-> 0]]   A == [x \in Pairs |-> NoAllowance]
             O == [u \in Users |-> [l \in Ledgers |-> 0]]   Z == [x \in Pairs |-> 0]
  <1>1. BaseInitWith(Purse) /\ Purse \in Nat /\ LimitInit
    BY BaseAssumption DEF FundsInit, BaseInit, PositionInit
  <1>2. Books /\ now = 0 /\ now \in Ledgers
    BY <1>1, BooksInit, BaseInitFacts, BaseAssumption DEF Ledgers
  <1>3. leave_rules = [limit |-> 0, min |-> 0, tracker |-> T, allowance |-> A, out |-> O, given |-> Z, taken |-> Z]
    BY <1>1 DEF LimitInit, Ledgers, Pairs
  <1>4. T \in [Users -> Tracker] /\ A \in [Pairs -> Allowance] /\ Z \in [Pairs -> Nat]
    BY DEF Tracker, Allowance, NoAllowance
  <1>5. O \in [Users -> [Ledgers -> Nat]]
    OBVIOUS
  <1>6. \A u \in Users : T[u].start = 0 /\ T[u].used = 0 /\ \A k \in Ledgers : O[u][k] = 0
    OBVIOUS
  <1>7. \A x \in Pairs : Z[x] + A[x].shares = Z[x]
    BY DEF NoAllowance
  <1> HIDE DEF T, A, O, Z
  <1>8. leave_rules \in LeaveRules
    BY <1>3, <1>4, <1>5 DEF LeaveRules
  <1>9. /\ leave_rules.limit = 0 /\ leave_rules.tracker = T /\ leave_rules.out = O /\ leave_rules.taken = Z
        /\ leave_rules.allowance = A /\ leave_rules.given = Z
    BY <1>3
  <1>10. \A u \in Users : day_kept(T[u], O[u], now)
    BY <1>2, <1>6 DEF day_kept
  <1> QED BY <1>2, <1>7, <1>8, <1>9, <1>10 DEF LimitBooks

\* Part of a position is closed.
LEMMA PartExit ==
    ASSUME Books, NEW u \in Users, NEW to \in Accounts, NEW n \in Nat, n <= shares[u],
           NEW m, m = shares_to_amount(totalShares, totalDeposited, n), push(to, m),
           shares' = [shares EXCEPT ![u] = @ - n], totalShares' = totalShares - n,
           totalDeposited' = totalDeposited - m, UNCHANGED <<now, rewardPool>>
    PROVE  Books' /\ m \in Nat
  <1> DEFINE x == shares[u] - n
  <1>1. /\ totalShares \in Nat /\ shares[u] \in Nat /\ shares[u] <= totalShares /\ totalDeposited \in Nat
        /\ wallet \in [Accounts -> Nat] /\ held \in Int
    BY BooksTotal DEF Books
  <1>2. m \in Nat /\ m <= totalDeposited
    <2>1. n <= totalShares
      BY <1>1
    <2> QED BY <1>1, <2>1, RedeemNat, RedeemAtMostAll
  <1>3. x \in Nat /\ shares' = [shares EXCEPT ![u] = x] /\ totalShares' = totalShares + x - shares[u]
    BY <1>1
  <1> HIDE DEF x
  <1>4. shares' \in [Users -> Nat] /\ totalShares' = sum(shares')
    BY <1>3, ShareWrite
  <1>5. wallet' \in [Accounts -> Nat] /\ held' \in Int
    BY <1>1, <1>2, PushTyped
  <1>6. totalDeposited' \in Nat
    BY <1>1, <1>2
  <1> QED BY <1>2, <1>4, <1>5, <1>6 DEF Books

\* What is recorded under the limit.
LEMMA RulesRecorded ==
    ASSUME LimitBooks, NEW u \in Users, NEW m \in Nat, within_limit(u, m),
           NEW r, r = enforce_and_record(leave_rules, u, m)
    PROVE  /\ r \in LeaveRules /\ r.limit = leave_rules.limit /\ r.allowance = leave_rules.allowance
           /\ r.given = leave_rules.given /\ r.taken = leave_rules.taken
           /\ \A v \in Users : day_kept(r.tracker[v], r.out[v], now)
  <1> DEFINE R == leave_rules
  <1>1. R \in LeaveRules /\ now \in Ledgers /\ R.limit \in DailyLimits \cup {0} /\ R.limit \in Nat
        /\ \A v \in Users : day_kept(R.tracker[v], R.out[v], now)
    BY DEF LimitBooks, LeaveRules
  <1>2. R.tracker \in [Users -> Tracker] /\ R.out \in [Users -> [Ledgers -> Nat]]
    BY <1>1 DEF LeaveRules
  <1>3. CASE R.limit = 0
    BY <1>1, <1>3 DEF enforce_and_record
  <1>4. CASE R.limit # 0
    <2> DEFINE t == R.tracker[u]   o == R.out[u]   d == daily_tracker(u)
               e == [d EXCEPT !.used = d.used + m]   q == [o EXCEPT ![now] = o[now] + m]
               T == [R.tracker EXCEPT ![u] = e]   O == [R.out EXCEPT ![u] = q]
    <2>1. r = [R EXCEPT !.tracker = T, !.out = O]
      BY <1>4 DEF enforce_and_record
    <2>2. d = (IF t.used > 0 /\ now - t.start < LEDGERS_PER_DAY THEN t ELSE [start |-> now, used |-> 0])
      BY DEF daily_tracker
    <2>3. d.used + m <= Max(DailyLimits)
      <3>1. R.limit \in DailyLimits /\ DailyLimits \subseteq Int /\ IsFiniteSet(DailyLimits) /\ DailyLimits # {}
        BY <1>1, <1>4, PositionAssumption
      <3>2. R.limit <= Max(DailyLimits) /\ Max(DailyLimits) \in Int
        BY <3>1, MaxOfFinite
      <3>3. d.used + m <= R.limit
        BY <1>4 DEF within_limit
      <3>4. d.used \in Nat
        <4>1. t \in Tracker
          BY <1>2
        <4> HIDE DEF t, d
        <4>2. t.used \in Nat
          BY <4>1 DEF Tracker
        <4> QED BY <2>2, <4>2
      <3> HIDE DEF d
      <3> QED BY <1>1, <3>2, <3>3, <3>4
    <2>4. t \in Tracker /\ o \in [Ledgers -> Nat] /\ day_kept(t, o, now)
      BY <1>1, <1>2
    <2>5. e = [d EXCEPT !.used = d.used + m] /\ q = [o EXCEPT ![now] = o[now] + m]
      OBVIOUS
    <2> HIDE DEF t, o, d, e, q
    <2>6. e \in Tracker /\ q \in [Ledgers -> Nat] /\ day_kept(e, q, now)
      <3>1. /\ t \in Tracker /\ o \in [Ledgers -> Nat] /\ now \in Ledgers /\ day_kept(t, o, now) /\ m \in Nat
            /\ d = (IF t.used > 0 /\ now - t.start < LEDGERS_PER_DAY THEN t ELSE [start |-> now, used |-> 0])
            /\ d.used + m <= Max(DailyLimits)
            /\ e = [d EXCEPT !.used = d.used + m] /\ q = [o EXCEPT ![now] = o[now] + m]
        BY ONLY <1>1, <2>2, <2>3, <2>4, <2>5, m \in Nat
      <3>2. day_written(e, q, now)
        BY ONLY <3>1, DayRecorded
      <3> QED BY <3>2 DEF day_written
    <2>7. /\ T \in [Users -> Tracker] /\ T[u] = e /\ (\A v \in Users \ {u} : T[v] = R.tracker[v])
          /\ O \in [Users -> [Ledgers -> Nat]] /\ O[u] = q /\ (\A v \in Users \ {u} : O[v] = R.out[v])
      BY <1>2, <2>6
    <2> HIDE DEF T, O
    <2>8. /\ r \in LeaveRules /\ r.limit = R.limit /\ r.allowance = R.allowance
          /\ r.given = R.given /\ r.taken = R.taken /\ r.tracker = T /\ r.out = O
      BY <1>1, <2>1, <2>7 DEF LeaveRules
    <2> QED BY <1>1, <2>6, <2>7, <2>8
  <1> QED BY <1>3, <1>4

LEMMA LimitMovesKeep == ASSUME LimitBooks, LimitMoves PROVE LimitBooks'
  <1> DEFINE R == leave_rules
  <1>1. /\ Books /\ now \in Ledgers /\ R \in LeaveRules /\ R.limit \in DailyLimits \cup {0}
        /\ (\A u \in Users : day_kept(R.tracker[u], R.out[u], now))
        /\ (\A x \in Pairs : R.taken[x] + R.allowance[x].shares = R.given[x])
    BY DEF LimitBooks
  <1>2. /\ R.allowance \in [Pairs -> Allowance] /\ R.given \in [Pairs -> Nat] /\ R.taken \in [Pairs -> Nat]
    BY <1>1 DEF LeaveRules
  <1>3. ASSUME NEW l \in DailyLimits, set_daily_withdrawal_limit(l) PROVE LimitBooks'
    <2>1. l \in Nat /\ leave_rules' = [R EXCEPT !.limit = l] /\ UNCHANGED base_vars
      BY <1>3, PositionAssumption DEF set_daily_withdrawal_limit
    <2>2. /\ leave_rules' \in LeaveRules /\ leave_rules'.limit = l /\ leave_rules'.tracker = R.tracker /\ leave_rules'.out = R.out
          /\ leave_rules'.taken = R.taken /\ leave_rules'.allowance = R.allowance /\ leave_rules'.given = R.given
      BY <1>1, <2>1 DEF LeaveRules
    <2>3. Books' /\ now' = now
      BY <1>1, <2>1 DEF Books, base_vars, pool
    <2> QED BY <1>1, <2>2, <2>3 DEF LimitBooks
  <1>4. ASSUME set_min_unstake_amount(2) PROVE LimitBooks'
    <2>1. leave_rules' = [R EXCEPT !.min = 2] /\ UNCHANGED base_vars
      BY <1>4 DEF set_min_unstake_amount
    <2>2. /\ leave_rules' \in LeaveRules /\ leave_rules'.limit = R.limit /\ leave_rules'.tracker = R.tracker /\ leave_rules'.out = R.out
          /\ leave_rules'.taken = R.taken /\ leave_rules'.allowance = R.allowance /\ leave_rules'.given = R.given
      BY <1>1, <2>1 DEF LeaveRules
    <2>3. Books' /\ now' = now
      BY <1>1, <2>1 DEF Books, base_vars, pool
    <2> QED BY <1>1, <2>2, <2>3 DEF LimitBooks
  <1>5. ASSUME NEW u \in Owners, NEW n \in Amounts, limited_unstake(u, n) PROVE LimitBooks'
    <2> DEFINE m == shares_to_amount(totalShares, totalDeposited, n)
    <2>1. u \in Users /\ n \in Nat /\ u \in Accounts
      BY BaseAssumption, PositionAssumption DEF Owners, Accounts
    <2>2. /\ within_limit(u, m) /\ leave_rules' = enforce_and_record(R, u, m) /\ n <= shares[u] /\ push(u, m)
          /\ shares' = [shares EXCEPT ![u] = @ - n] /\ totalShares' = totalShares - n
          /\ totalDeposited' = totalDeposited - m /\ UNCHANGED <<now, rewardPool>>
      BY <1>1, <1>5, <2>1 DEF limited_unstake, unstake_to, Books
    <2>3. Books' /\ m \in Nat
      BY <1>1, <2>1, <2>2, PartExit
    <2> HIDE DEF m
    <2>4. /\ leave_rules' \in LeaveRules /\ leave_rules'.limit = R.limit /\ leave_rules'.allowance = R.allowance
          /\ leave_rules'.given = R.given /\ leave_rules'.taken = R.taken
          /\ \A v \in Users : day_kept(leave_rules'.tracker[v], leave_rules'.out[v], now)
      BY <2>1, <2>2, <2>3, RulesRecorded
    <2> QED BY <1>1, <2>2, <2>3, <2>4 DEF LimitBooks
  <1>6. ASSUME NEW h \in Heirs, NEW n \in Amounts \cup {0}, NEW d \in Durations, approve_withdrawal(h[1], h[2], n, now + d)
        PROVE  LimitBooks'
    <2> DEFINE x == <<h[1], h[2]>>   e == now + d   a == IF n = 0 THEN NoAllowance ELSE [shares |-> n, expires |-> e]
               A == [R.allowance EXCEPT ![x] = a]   G == [R.given EXCEPT ![x] = n]   T == [R.taken EXCEPT ![x] = 0]
    <2>1. x \in Pairs /\ n \in Nat /\ e \in Nat
      <3>1. now \in Nat /\ d \in Nat
        BY <1>1, BaseAssumption DEF Books
      <3> QED BY <3>1, BaseAssumption, PositionAssumption DEF Pairs
    <2>2. leave_rules' = [R EXCEPT !.allowance = A, !.given = G, !.taken = T] /\ UNCHANGED base_vars
      BY <1>6 DEF approve_withdrawal
    <2> HIDE DEF x, e
    <2>3. a \in Allowance /\ a.shares = n
      BY <2>1 DEF Allowance, NoAllowance
    <2> HIDE DEF a
    <2>4. /\ A \in [Pairs -> Allowance] /\ G \in [Pairs -> Nat] /\ T \in [Pairs -> Nat]
          /\ \A y \in Pairs : T[y] + A[y].shares = G[y]
      <3>1. A \in [Pairs -> Allowance] /\ A[x] = a /\ \A y \in Pairs : y # x => A[y] = R.allowance[y]
        BY <1>2, <2>1, <2>3
      <3>2. G \in [Pairs -> Nat] /\ G[x] = n /\ \A y \in Pairs : y # x => G[y] = R.given[y]
        BY <1>2, <2>1
      <3>3. T \in [Pairs -> Nat] /\ T[x] = 0 /\ \A y \in Pairs : y # x => T[y] = R.taken[y]
        BY <1>2, <2>1
      <3> HIDE DEF A, G, T
      <3> QED BY <1>1, <2>1, <2>3, <3>1, <3>2, <3>3
    <2> HIDE DEF A, G, T
    <2>5. /\ leave_rules' \in LeaveRules /\ leave_rules'.limit = R.limit /\ leave_rules'.tracker = R.tracker /\ leave_rules'.out = R.out
          /\ leave_rules'.taken = T /\ leave_rules'.allowance = A /\ leave_rules'.given = G
      BY <1>1, <2>2, <2>4 DEF LeaveRules
    <2>6. Books' /\ now' = now
      BY <1>1, <2>2 DEF Books, base_vars, pool
    <2> QED BY <1>1, <2>4, <2>5, <2>6 DEF LimitBooks
  <1>7. ASSUME NEW h \in Heirs, NEW n \in Amounts, withdraw_from(h[2], h[1], n, h[2]) PROVE LimitBooks'
    <2> DEFINE u == h[1]   to == h[2]   x == <<u, to>>   m == shares_to_amount(totalShares, totalDeposited, n)
               a == R.allowance[x]   w == a.shares - n   left == IF a.shares = n THEN NoAllowance ELSE [a EXCEPT !.shares = w]
               r == enforce_and_record(R, u, m)   y == r.taken[x] + n
               A == [r.allowance EXCEPT ![x] = left]   T == [r.taken EXCEPT ![x] = y]
    <2>1. u \in Users /\ to \in Users /\ n \in Nat /\ to \in Accounts /\ x \in Pairs
      BY BaseAssumption, PositionAssumption DEF Pairs, Accounts
    <2>2. /\ within_limit(u, m) /\ n <= shares[u] /\ push(to, m)
          /\ shares' = [shares EXCEPT ![u] = @ - n] /\ totalShares' = totalShares - n
          /\ totalDeposited' = totalDeposited - m /\ UNCHANGED <<now, rewardPool>>
      BY <1>1, <1>7, <2>1 DEF withdraw_from, unstake_to, Books
    <2>3. a.shares >= n /\ leave_rules' = [r EXCEPT !.allowance = A, !.taken = T]
      BY <1>7 DEF withdraw_from
    <2>4. Books' /\ m \in Nat
      <3> HIDE DEF u, to
      <3> QED BY <1>1, <2>1, <2>2, PartExit
    <2> HIDE DEF m, u, to
    <2>5. /\ r \in LeaveRules /\ r.limit = R.limit /\ r.allowance = R.allowance
          /\ r.given = R.given /\ r.taken = R.taken
          /\ \A v \in Users : day_kept(r.tracker[v], r.out[v], now)
      BY <2>1, <2>2, <2>4, RulesRecorded
    <2> HIDE DEF r, x
    <2>6. a \in Allowance /\ a.shares \in Nat /\ R.taken[x] \in Nat /\ R.given[x] = R.taken[x] + a.shares
      BY <1>1, <1>2, <2>1 DEF Allowance
    <2> HIDE DEF a
    <2>7. w \in Nat /\ y \in Nat /\ y + w = R.given[x]
      BY <2>1, <2>3, <2>5, <2>6
    <2>8. left \in Allowance /\ left.shares = w
      <3>1. CASE a.shares = n
        BY <2>6, <3>1 DEF NoAllowance, Allowance
      <3>2. CASE a.shares # n
        <4> HIDE DEF w
        <4>1. left = [a EXCEPT !.shares = w]
          BY <3>2
        <4> QED BY <2>6, <2>7, <4>1 DEF Allowance
      <3> QED BY <3>1, <3>2
    <2> HIDE DEF w, y, left
    <2>9. A \in [Pairs -> Allowance] /\ A[x] = left /\ \A z \in Pairs : z # x => A[z] = R.allowance[z]
      BY <1>2, <2>1, <2>5, <2>8
    <2>10. T \in [Pairs -> Nat] /\ T[x] = y /\ \A z \in Pairs : z # x => T[z] = R.taken[z]
      BY <1>2, <2>1, <2>5, <2>7
    <2> HIDE DEF A, T
    <2>11. \A z \in Pairs : T[z] + A[z].shares = R.given[z]
      BY <1>1, <2>7, <2>8, <2>9, <2>10
    <2>12. /\ leave_rules' \in LeaveRules /\ leave_rules'.limit = R.limit /\ leave_rules'.tracker = r.tracker /\ leave_rules'.out = r.out
           /\ leave_rules'.taken = T /\ leave_rules'.allowance = A /\ leave_rules'.given = R.given
      BY <2>3, <2>5, <2>9, <2>10 DEF LeaveRules
    <2> QED BY <1>1, <2>2, <2>4, <2>5, <2>11, <2>12 DEF LimitBooks
  <1> QED BY <1>3, <1>4, <1>5, <1>6, <1>7 DEF LimitMoves

LEMMA LimitTickKeeps == ASSUME LimitBooks, PositionTick PROVE LimitBooks'
  <1>1. Books /\ now \in Ledgers /\ now \in Nat /\ leave_rules \in LeaveRules
    BY BaseAssumption DEF LimitBooks, Ledgers
  <1>2. tick /\ TimePasses /\ UNCHANGED leave_rules
    BY DEF PositionTick, TimePasses
  <1>3. Books'
    BY <1>1, <1>2, PoolMovesKeep DEF PoolMoves
  <1>4. now' \in Ledgers /\ now' \in Nat /\ now' >= now
    BY <1>1, <1>2, BaseAssumption DEF tick, Ledgers
  <1>5. leave_rules.tracker \in [Users -> Tracker]
    BY <1>1 DEF LeaveRules
  <1> DEFINE R == leave_rules   m == now'
  <1>6. \A u \in Users : day_kept(R.tracker[u], R.out[u], m)
    <2> SUFFICES ASSUME NEW u \in Users PROVE day_kept(R.tracker[u], R.out[u], m)
      OBVIOUS
    <2>1. R.tracker[u] \in Tracker /\ day_kept(R.tracker[u], R.out[u], now) /\ m \in Nat /\ m >= now /\ now \in Nat
      BY <1>1, <1>4, <1>5 DEF LimitBooks
    <2> HIDE DEF R, m
    <2> QED BY ONLY <2>1, DayLater
  <1> QED BY <1>2, <1>3, <1>4, <1>6 DEF LimitBooks

LimitInv == focus = "limits" => LimitBooks

LEMMA LimitInvInit == FundsInit => LimitInv
  BY LimitBooksInit DEF LimitInv

LEMMA LimitInvStep == ASSUME LimitInv, [FundsNext]_funds_vars PROVE LimitInv'
  <1>1. CASE focus = "limits"
    <2>1. UNCHANGED focus /\ LimitBooks /\ (LimitMoves \/ PositionTick \/ UNCHANGED <<base_vars, position_vars>>)
      BY <1>1, LimitStep DEF LimitInv
    <2>2. CASE UNCHANGED <<base_vars, position_vars>>
      BY <2>1, <2>2 DEF LimitInv, LimitBooks, Books, base_vars, pool, position_vars
    <2> QED BY <2>1, <2>2, LimitMovesKeep, LimitTickKeeps DEF LimitInv
  <1>2. CASE focus # "limits"
    BY <1>2 DEF LimitInv, FundsNext, funds_vars
  <1> QED BY <1>1, <1>2

\* Daily limits and allowances (daily_withdrawal_limit.rs, share_allowance.rs,
\* withdraw_from): whoever withdraws, by whatever road, and however the limit is changed
\* meanwhile, the tracker is what left the position in its day and never more than the largest
\* limit, and a spender has taken exactly the approval's shares that are not left.
THEOREM ExitsStayWithinLimits == FundsSpec => []ExitsWithinLimits
  <1>1. LimitInv => ExitsWithinLimits
    BY DEF LimitInv, ExitsWithinLimits, LimitBooks, limits_kept, day_kept, left_in, day_of, Ledgers, Pairs
  <1> QED BY <1>1, LimitInvInit, LimitInvStep, PTL DEF FundsSpec, funds_vars

-------------------------------------------------------------------------------
(* Positions that are split, merged, handed over, cut and closed. *)

Split == [amount : Nat, at : Int]
amounts_of(s) == [i \in DOMAIN s |-> s[i].amount]

\* The splits of a position have a natural total.
LEMMA SplitsNat ==
    ASSUME NEW s \in Seq(Split)
    PROVE  /\ Len(s) \in Nat /\ DOMAIN s = 1..Len(s) /\ IsFiniteSet(1..Len(s))
           /\ amounts_of(s) \in [1..Len(s) -> Int] /\ sum(amounts_of(s)) \in Nat
           /\ \A i \in 1..Len(s) : s[i] \in Split /\ s[i].amount \in Nat /\ amounts_of(s)[i] = s[i].amount
  <1> DEFINE n == Len(s)   f == amounts_of(s)   D == 1..n
  <1>1. n \in Nat /\ DOMAIN s = D /\ \A i \in D : s[i] \in Split
    BY LenProperties, ElementOfSeq
  <1>2. IsFiniteSet(D)
    BY <1>1, FS_Interval
  <1>3. \A i \in D : s[i].amount \in Nat
    BY <1>1 DEF Split
  <1>4. f = [i \in D |-> s[i].amount]
    BY <1>1 DEF amounts_of
  <1> HIDE DEF n, f, D
  <1>5. f \in [D -> Nat] /\ f \in [D -> Int] /\ \A i \in D : f[i] = s[i].amount
    BY <1>3, <1>4
  <1>6. sum(f) \in Nat
    BY <1>2, <1>5, SumNat
  <1> QED BY <1>1, <1>2, <1>3, <1>5, <1>6 DEF D, n, f

\* No split, no total.
LEMMA SplitsNone == <<>> \in Seq(Split) /\ sum(amounts_of(<<>>)) = 0
  <1>1. <<>> \in Seq(Split) /\ DOMAIN (<<>>) = {}
    OBVIOUS
  <1>2. amounts_of(<<>>) \in [{} -> Int] /\ IsFiniteSet({})
    BY <1>1, FS_EmptySet DEF amounts_of
  <1>3. sum(amounts_of(<<>>)) = 0
    BY <1>2, SumZero
  <1> QED BY <1>1, <1>3

\* Another split.
LEMMA SplitsAppend ==
    ASSUME NEW s \in Seq(Split), NEW e \in Split
    PROVE  /\ Append(s, e) \in Seq(Split)
           /\ sum(amounts_of(Append(s, e))) = sum(amounts_of(s)) + e.amount
  <1> DEFINE t == Append(s, e)   n == Len(s)   f == amounts_of(s)   g == amounts_of(t)
             D == 1..n   R == 1..(n + 1)   x == n + 1
  <1>1. t \in Seq(Split) /\ Len(t) = n + 1 /\ t[n + 1] = e /\ \A i \in D : t[i] = s[i]
    BY AppendProperties
  <1>2. n \in Nat /\ f \in [D -> Int] /\ \A i \in D : f[i] = s[i].amount
    BY SplitsNat
  <1> HIDE DEF t, n, f
  <1>3. g \in [R -> Int] /\ IsFiniteSet(R) /\ \A i \in R : g[i] = t[i].amount
    BY <1>1, SplitsNat
  <1> HIDE DEF g
  <1>4. x \in R /\ D \subseteq R /\ x \notin D /\ \A y \in R : y \in D \/ y = x
    BY <1>2
  <1>5. \A y \in D : g[y] = f[y]
    BY <1>1, <1>2, <1>3, <1>4
  <1>6. g[x] = e.amount
    BY <1>1, <1>3, <1>4
  <1> HIDE DEF D, R, x
  <1>7. sum(g) = sum(f) + g[x]
    BY ONLY <1>2, <1>3, <1>4, <1>5, SumExtend
  <1> QED BY <1>1, <1>6, <1>7 DEF f, g, t

\* One split is rewritten.
LEMMA SplitsReplace ==
    ASSUME NEW s \in Seq(Split), NEW i \in DOMAIN s, NEW e \in Split
    PROVE  /\ [s EXCEPT ![i] = e] \in Seq(Split)
           /\ sum(amounts_of([s EXCEPT ![i] = e])) = sum(amounts_of(s)) + e.amount - s[i].amount
           /\ Len([s EXCEPT ![i] = e]) = Len(s) /\ [s EXCEPT ![i] = e][i] = e
           /\ DOMAIN [s EXCEPT ![i] = e] = DOMAIN s /\ \A j \in DOMAIN s \ {i} : [s EXCEPT ![i] = e][j] = s[j]
  <1> DEFINE t == [s EXCEPT ![i] = e]   f == amounts_of(s)   g == amounts_of(t)
  <1>1. t \in Seq(Split) /\ DOMAIN t = DOMAIN s /\ t[i] = e /\ (\A j \in DOMAIN s : j # i => t[j] = s[j]) /\ Len(t) = Len(s)
    OBVIOUS
  <1>2. DOMAIN s = 1..Len(s) /\ IsFiniteSet(DOMAIN s) /\ f \in [DOMAIN s -> Int] /\ \A j \in DOMAIN s : f[j] = s[j].amount
    BY SplitsNat
  <1> HIDE DEF t, f
  <1>3. g \in [DOMAIN s -> Int] /\ \A j \in DOMAIN s : g[j] = t[j].amount
    BY <1>1, <1>2, SplitsNat
  <1>4. \A j \in DOMAIN s \ {i} : g[j] = f[j]
    BY <1>1, <1>2, <1>3
  <1> HIDE DEF f, g
  <1>5. sum(g) = sum(f) + g[i] - f[i]
    BY ONLY <1>2, <1>3, <1>4, i \in DOMAIN s, SumChange
  <1>6. sum(g) = sum(f) + e.amount - s[i].amount
    BY <1>1, <1>2, <1>3, <1>5
  <1> QED BY <1>1, <1>6 DEF f, g, t

\* What is left when one entry is taken out.
LEMMA TakenOut ==
    ASSUME NEW S, NEW s \in Seq(S), NEW i \in DOMAIN s
    PROVE  /\ RemoveAt(s, i) \in Seq(S) /\ Len(s) - 1 \in Nat /\ Len(RemoveAt(s, i)) = Len(s) - 1
           /\ \A j \in 1..(Len(s) - 1) : RemoveAt(s, i)[j] = s[IF j < i THEN j ELSE j + 1]
  <1> DEFINE n == Len(s)   a == SubSeq(s, 1, i - 1)   b == SubSeq(s, i + 1, n)
  <1>1. n \in Nat /\ i \in 1..n /\ \A j \in 1..n : s[j] \in S
    BY LenProperties, ElementOfSeq
  <1> HIDE DEF n
  <1>2. a \in Seq(S) /\ Len(a) = i - 1 /\ \A j \in 1..(i - 1) : a[j] = s[j]
    <2>1. 1 \in Int /\ i - 1 \in Int /\ \A j \in 1..(i - 1) : s[j] \in S
      BY <1>1
    <2>2. a \in Seq(S) /\ Len(a) = (IF 1 <= i - 1 THEN i - 1 - 1 + 1 ELSE 0)
          /\ \A j \in 1..(i - 1 - 1 + 1) : a[j] = s[1 + j - 1]
      BY <2>1, SubSeqProperties
    <2>3. \A j \in 1..(i - 1) : 1 + j - 1 = j
      BY <1>1
    <2> QED BY <1>1, <2>2, <2>3
  <1>3. b \in Seq(S) /\ Len(b) = n - i /\ \A j \in 1..(n - i) : b[j] = s[i + j]
    <2>1. i + 1 \in Int /\ n \in Int /\ \A j \in (i + 1)..n : s[j] \in S
      BY <1>1
    <2>2. b \in Seq(S) /\ Len(b) = (IF i + 1 <= n THEN n - (i + 1) + 1 ELSE 0)
          /\ \A j \in 1..(n - (i + 1) + 1) : b[j] = s[i + 1 + j - 1]
      BY <2>1, SubSeqProperties
    <2>3. \A j \in 1..(n - i) : i + 1 + j - 1 = i + j
      BY <1>1
    <2> QED BY <1>1, <2>2, <2>3
  <1> HIDE DEF a, b
  <1>4. /\ a \o b \in Seq(S) /\ Len(a \o b) = n - 1
        /\ \A j \in 1..(n - 1) : (a \o b)[j] = IF j <= i - 1 THEN a[j] ELSE b[j - (i - 1)]
    <2>1. /\ a \o b \in Seq(S) /\ Len(a \o b) = Len(a) + Len(b)
          /\ \A j \in 1..(Len(a) + Len(b)) : (a \o b)[j] = IF j <= Len(a) THEN a[j] ELSE b[j - Len(a)]
      BY <1>2, <1>3, ConcatProperties
    <2>2. Len(a) + Len(b) = n - 1
      BY <1>1, <1>2, <1>3
    <2> QED BY <1>2, <2>1, <2>2
  <1>5. \A j \in 1..(n - 1) : (a \o b)[j] = s[IF j < i THEN j ELSE j + 1]
    <2> SUFFICES ASSUME NEW j \in 1..(n - 1) PROVE (a \o b)[j] = s[IF j < i THEN j ELSE j + 1]
      OBVIOUS
    <2>1. CASE j < i
      BY <1>1, <1>2, <1>4, <2>1
    <2>2. CASE ~(j < i)
      <3>1. j - (i - 1) \in 1..(n - i) /\ i + (j - (i - 1)) = j + 1 /\ ~(j <= i - 1)
        BY <1>1, <2>2
      <3> QED BY <1>3, <1>4, <2>2, <3>1
    <2> QED BY <2>1, <2>2
  <1> DEFINE c == a \o b
  <1>6. RemoveAt(s, i) = c
    BY DEF RemoveAt, a, b, n
  <1>7. c \in Seq(S) /\ n - 1 \in Nat /\ Len(c) = n - 1 /\ \A j \in 1..(n - 1) : c[j] = s[IF j < i THEN j ELSE j + 1]
    <2>1. n - 1 \in Nat
      BY <1>1
    <2> QED BY <1>4, <1>5, <2>1
  <1> HIDE DEF c
  <1>8. /\ RemoveAt(s, i) \in Seq(S) /\ n - 1 \in Nat /\ Len(RemoveAt(s, i)) = n - 1
        /\ \A j \in 1..(n - 1) : RemoveAt(s, i)[j] = s[IF j < i THEN j ELSE j + 1]
    BY ONLY <1>6, <1>7
  <1> QED BY <1>8 DEF n

\* g is f without its entry at i, renumbered by k.
punctured(R, Q, T, i, f, g, k) ==
    /\ IsFiniteSet(R) /\ IsFiniteSet(Q) /\ i \in R /\ f \in [R -> Int] /\ g \in [Q -> Int] /\ T = R \ {i}
    /\ k \in [Q -> T] /\ (\A x, y \in Q : k[x] = k[y] => x = y) /\ (\A y \in T : \E x \in Q : k[x] = y)
    /\ \A x \in Q : g[x] = f[k[x]]

\* The sum of a list with one entry taken out, and renumbered.
LEMMA SumPunctured ==
    ASSUME NEW R, NEW Q, NEW T, NEW i, NEW f, NEW g, NEW k, punctured(R, Q, T, i, f, g, k)
    PROVE  sum(g) = sum(f) - f[i]
  <1> USE DEF punctured
  <1> DEFINE h == [j \in T |-> f[j]]
  <1>1. IsFiniteSet(T) /\ h \in [T -> Int] /\ \A j \in T : h[j] = f[j]
    BY FS_Subset
  <1> HIDE DEF h
  <1>2. \A x \in Q : g[x] = h[k[x]]
    BY <1>1
  <1>3. sum(g) = sum(h)
    BY <1>1, <1>2, SumAlong
  <1>4. sum_over(f, R) = f[i] + sum_over(f, R \ {i})
    <2>1. \A x \in R : f[x] \in Int
      OBVIOUS
    <2> QED BY <2>1, SumRemove
  <1>5. sum_over(f, T) = sum_over(h, T)
    BY <1>1, SumSame
  <1>6. sum(f) = sum_over(f, R) /\ sum(h) = sum_over(h, T)
    BY <1>1 DEF sum
  <1>7. sum(h) \in Int /\ f[i] \in Int
    BY <1>1, SumType
  <1> QED BY <1>3, <1>4, <1>5, <1>6, <1>7

\* h is f, and after it g, renumbered by k.
joined(D, A, E, B, f, g, h, k) ==
    /\ IsFiniteSet(D) /\ A \subseteq D /\ IsFiniteSet(E) /\ B = D \ A
    /\ f \in [A -> Int] /\ g \in [E -> Int] /\ h \in [D -> Int] /\ (\A i \in A : h[i] = f[i])
    /\ k \in [E -> B] /\ (\A x, y \in E : k[x] = k[y] => x = y) /\ (\A y \in B : \E x \in E : k[x] = y)
    /\ \A x \in E : g[x] = h[k[x]]

\* The sum of two lists, one after the other.
LEMMA SumJoined ==
    ASSUME NEW D, NEW A, NEW E, NEW B, NEW f, NEW g, NEW h, NEW k, joined(D, A, E, B, f, g, h, k)
    PROVE  sum(h) = sum(f) + sum(g)
  <1> USE DEF joined
  <1> DEFINE a == [i \in D |-> IF i \in A THEN h[i] ELSE 0]   b == [i \in D |-> IF i \in A THEN 0 ELSE h[i]]
             c == [i \in B |-> h[i]]
  <1>1. IsFiniteSet(A) /\ IsFiniteSet(B) /\ B \subseteq D
    BY FS_Subset
  <1>2. /\ a \in [D -> Int] /\ b \in [D -> Int] /\ c \in [B -> Int]
        /\ \A i \in D : a[i] = (IF i \in A THEN h[i] ELSE 0) /\ b[i] = (IF i \in A THEN 0 ELSE h[i])
        /\ \A i \in B : c[i] = h[i]
    BY <1>1
  <1> HIDE DEF a, b, c
  <1>3. /\ (\A i \in D : h[i] = a[i] + b[i]) /\ (\A i \in A : f[i] = a[i]) /\ (\A i \in D \ A : a[i] = 0)
        /\ (\A i \in B : c[i] = b[i]) /\ (\A i \in D \ B : b[i] = 0)
    BY <1>1, <1>2
  <1>4. \A x \in E : g[x] = c[k[x]]
    BY <1>2
  <1>5. sum(h) = sum(a) + sum(b)
    <2>1. /\ IsFiniteSet(D) /\ a \in [D -> Int] /\ b \in [D -> Int] /\ h \in [D -> Int]
          /\ \A i \in D : h[i] = a[i] + b[i]
      BY <1>2, <1>3
    <2> QED BY ONLY <2>1, SumSplit
  <1>6. sum(f) = sum(a)
    <2>1. /\ IsFiniteSet(D) /\ a \in [D -> Int] /\ A \subseteq D /\ f \in [A -> Int]
          /\ (\A i \in A : f[i] = a[i]) /\ (\A i \in D \ A : a[i] = 0)
      BY <1>2, <1>3
    <2> QED BY ONLY <2>1, SumWhere
  <1>7. sum(c) = sum(b)
    <2>1. /\ IsFiniteSet(D) /\ b \in [D -> Int] /\ B \subseteq D /\ c \in [B -> Int]
          /\ (\A i \in B : c[i] = b[i]) /\ (\A i \in D \ B : b[i] = 0)
      BY <1>1, <1>2, <1>3
    <2> QED BY ONLY <2>1, SumWhere
  <1>8. sum(g) = sum(c)
    <2>1. /\ IsFiniteSet(E) /\ IsFiniteSet(B) /\ k \in [E -> B] /\ g \in [E -> Int] /\ c \in [B -> Int]
          /\ (\A x, y \in E : k[x] = k[y] => x = y) /\ (\A y \in B : \E x \in E : k[x] = y)
          /\ \A x \in E : g[x] = c[k[x]]
      BY <1>1, <1>2, <1>4
    <2> QED BY ONLY <2>1, SumAlong
  <1> QED BY <1>5, <1>6, <1>7, <1>8

LEMMA SumSkip ==
    ASSUME NEW n \in Nat, NEW i \in 1..n, NEW f \in [1..n -> Int], NEW g \in [1..(n - 1) -> Int],
           \A j \in 1..(n - 1) : g[j] = f[IF j < i THEN j ELSE j + 1]
    PROVE  sum(g) = sum(f) - f[i]
  <1> DEFINE k == [j \in 1..(n - 1) |-> IF j < i THEN j ELSE j + 1]   T == 1..n \ {i}
  <1>1. IsFiniteSet(1..n) /\ IsFiniteSet(1..(n - 1))
    BY FS_Interval
  <1>2. k \in [1..(n - 1) -> T] /\ \A j \in 1..(n - 1) : k[j] = IF j < i THEN j ELSE j + 1
    OBVIOUS
  <1>3. \A j \in 1..(n - 1) : g[j] = f[k[j]]
    BY <1>2
  <1> HIDE DEF k
  <1>4. \A x, y \in 1..(n - 1) : k[x] = k[y] => x = y
    <2> SUFFICES ASSUME NEW x \in 1..(n - 1), NEW y \in 1..(n - 1), k[x] = k[y] PROVE x = y
      OBVIOUS
    <2>1. (IF x < i THEN x ELSE x + 1) = (IF y < i THEN y ELSE y + 1)
      BY <1>2
    <2>2. x \in Int /\ y \in Int /\ i \in Int
      OBVIOUS
    <2> QED BY ONLY <2>1, <2>2
  <1>5. \A y \in T : \E x \in 1..(n - 1) : k[x] = y
    <2> SUFFICES ASSUME NEW y \in T PROVE \E x \in 1..(n - 1) : k[x] = y
      OBVIOUS
    <2>1. CASE y < i
      <3>1. y \in 1..(n - 1) /\ k[y] = y
        BY <1>2, <2>1
      <3> QED BY <3>1
    <2>2. CASE ~(y < i)
      <3>1. y - 1 \in 1..(n - 1) /\ ~(y - 1 < i) /\ y - 1 + 1 = y
        BY <2>2
      <3>2. k[y - 1] = y
        BY <1>2, <3>1
      <3> QED BY <3>1, <3>2
    <2> QED BY <2>1, <2>2
  <1>6. T = 1..n \ {i}
    OBVIOUS
  <1> DEFINE R == 1..n   Q == 1..(n - 1)
  <1>7. /\ IsFiniteSet(R) /\ IsFiniteSet(Q) /\ i \in R /\ f \in [R -> Int] /\ g \in [Q -> Int] /\ T = R \ {i}
        /\ k \in [Q -> T] /\ (\A x, y \in Q : k[x] = k[y] => x = y) /\ (\A y \in T : \E x \in Q : k[x] = y)
        /\ (\A x \in Q : g[x] = f[k[x]])
    BY <1>1, <1>2, <1>3, <1>4, <1>5, <1>6
  <1> HIDE DEF T, R, Q
  <1>8. punctured(R, Q, T, i, f, g, k)
    BY ONLY <1>7 DEF punctured
  <1> QED BY ONLY <1>8, SumPunctured

LEMMA SumJoin ==
    ASSUME NEW n \in Nat, NEW m \in Nat, NEW f \in [1..n -> Int], NEW g \in [1..m -> Int], NEW h \in [1..(n + m) -> Int],
           \A i \in 1..(n + m) : h[i] = IF i <= n THEN f[i] ELSE g[i - n]
    PROVE  sum(h) = sum(f) + sum(g)
  <1> DEFINE B == (n + 1)..(n + m)   k == [i \in 1..m |-> n + i]
  <1>1. IsFiniteSet(1..(n + m)) /\ IsFiniteSet(1..m)
    BY FS_Interval
  <1>2. 1..n \subseteq 1..(n + m) /\ B = (1..(n + m)) \ (1..n)
    OBVIOUS
  <1>3. \A i \in 1..n : h[i] = f[i]
    BY <1>2
  <1>4. k \in [1..m -> B] /\ (\A x \in 1..m : k[x] = n + x)
    OBVIOUS
  <1> HIDE DEF k
  <1>5. \A x, y \in 1..m : k[x] = k[y] => x = y
    BY <1>4
  <1>6. \A y \in B : \E x \in 1..m : k[x] = y
    <2> SUFFICES ASSUME NEW y \in B PROVE \E x \in 1..m : k[x] = y
      OBVIOUS
    <2>1. y - n \in 1..m /\ n + (y - n) = y
      OBVIOUS
    <2> QED BY <1>4, <2>1
  <1>7. \A x \in 1..m : g[x] = h[k[x]]
    <2> SUFFICES ASSUME NEW x \in 1..m PROVE g[x] = h[k[x]]
      OBVIOUS
    <2>1. k[x] = n + x /\ n + x \in 1..(n + m) /\ ~(n + x <= n) /\ n + x - n = x
      BY <1>4
    <2>2. h[n + x] = g[n + x - n]
      BY <2>1
    <2> QED BY <2>1, <2>2
  <1> DEFINE A == 1..n   D == 1..(n + m)   E == 1..m
  <1>8. /\ IsFiniteSet(D) /\ A \subseteq D /\ IsFiniteSet(E) /\ B = D \ A /\ f \in [A -> Int] /\ g \in [E -> Int]
        /\ h \in [D -> Int] /\ (\A i \in A : h[i] = f[i]) /\ k \in [E -> B] /\ (\A x, y \in E : k[x] = k[y] => x = y)
        /\ (\A y \in B : \E x \in E : k[x] = y) /\ (\A x \in E : g[x] = h[k[x]])
    BY <1>1, <1>2, <1>3, <1>4, <1>5, <1>6, <1>7
  <1> HIDE DEF A, D, E, B
  <1>9. joined(D, A, E, B, f, g, h, k)
    BY ONLY <1>8 DEF joined
  <1> QED BY ONLY <1>9, SumJoined

\* One split goes.
LEMMA SplitsRemove ==
    ASSUME NEW s \in Seq(Split), NEW i \in DOMAIN s
    PROVE  /\ RemoveAt(s, i) \in Seq(Split)
           /\ sum(amounts_of(RemoveAt(s, i))) = sum(amounts_of(s)) - s[i].amount
  <1> DEFINE t == RemoveAt(s, i)   n == Len(s)   f == amounts_of(s)   g == amounts_of(t)
  <1>1. t \in Seq(Split) /\ n - 1 \in Nat /\ Len(t) = n - 1 /\ \A j \in 1..(n - 1) : t[j] = s[IF j < i THEN j ELSE j + 1]
    BY TakenOut
  <1>2. n \in Nat /\ i \in 1..n /\ f \in [1..n -> Int] /\ \A j \in 1..n : f[j] = s[j].amount
    BY SplitsNat
  <1> HIDE DEF t, n, f
  <1>3. g \in [1..(n - 1) -> Int] /\ \A j \in 1..(n - 1) : g[j] = t[j].amount
    BY <1>1, SplitsNat
  <1> HIDE DEF g
  <1>4. \A j \in 1..(n - 1) : g[j] = f[IF j < i THEN j ELSE j + 1]
    <2> SUFFICES ASSUME NEW j \in 1..(n - 1) PROVE g[j] = f[IF j < i THEN j ELSE j + 1]
      OBVIOUS
    <2> DEFINE x == IF j < i THEN j ELSE j + 1
    <2>1. x \in 1..n
      BY <1>2
    <2>2. t[j] = s[x]
      BY <1>1
    <2> HIDE DEF x
    <2>3. g[j] = f[x]
      BY <1>2, <1>3, <2>1, <2>2
    <2> QED BY <2>3 DEF x
  <1>5. sum(g) = sum(f) - f[i]
    BY ONLY <1>2, <1>3, <1>4, SumSkip
  <1> QED BY <1>1, <1>2, <1>5 DEF f, g, t

\* Two lists of splits become one.
LEMMA SplitsConcat ==
    ASSUME NEW s \in Seq(Split), NEW t \in Seq(Split)
    PROVE  /\ s \o t \in Seq(Split)
           /\ sum(amounts_of(s \o t)) = sum(amounts_of(s)) + sum(amounts_of(t))
  <1> DEFINE w == s \o t   n == Len(s)   m == Len(t)
             f == amounts_of(s)   g == amounts_of(t)   h == amounts_of(w)
  <1>1. w \in Seq(Split) /\ Len(w) = n + m /\ \A i \in 1..(n + m) : w[i] = IF i <= n THEN s[i] ELSE t[i - n]
    BY ConcatProperties
  <1>2. n \in Nat /\ f \in [1..n -> Int] /\ \A i \in 1..n : f[i] = s[i].amount
    BY SplitsNat
  <1>3. m \in Nat /\ g \in [1..m -> Int] /\ \A i \in 1..m : g[i] = t[i].amount
    BY SplitsNat
  <1> HIDE DEF w, n, m, f, g
  <1>4. h \in [1..(n + m) -> Int] /\ \A i \in 1..(n + m) : h[i] = w[i].amount
    BY <1>1, SplitsNat
  <1> HIDE DEF h
  <1>5. \A i \in 1..(n + m) : h[i] = IF i <= n THEN f[i] ELSE g[i - n]
    <2> SUFFICES ASSUME NEW i \in 1..(n + m) PROVE h[i] = IF i <= n THEN f[i] ELSE g[i - n]
      OBVIOUS
    <2>1. CASE i <= n
      <3>1. i \in 1..n
        BY <1>2, <2>1
      <3> QED BY <1>1, <1>2, <1>4, <2>1, <3>1
    <2>2. CASE ~(i <= n)
      <3> DEFINE x == i - n
      <3>1. x \in 1..m
        BY <1>2, <1>3, <2>2
      <3>2. w[i] = t[x]
        BY <1>1, <2>2
      <3> HIDE DEF x
      <3>3. h[i] = g[x]
        BY <1>3, <1>4, <3>1, <3>2
      <3> QED BY <2>2, <3>3 DEF x
    <2> QED BY <2>1, <2>2
  <1>6. sum(h) = sum(f) + sum(g)
    BY ONLY <1>2, <1>3, <1>4, <1>5, SumJoin
  <1> QED BY <1>1, <1>6 DEF f, g, h, w

PositionBook == [splits : [Users -> Seq(Split)], at : [Users -> Int], since : [Users -> Int],
                 accrued : [Users -> Int], earned : Int, paid : Int, forgone : Int]
HeirRecord == [heir : Users \cup {Nobody}, inactivity : Nat, last : Nat]
HeirBook == [rec : [Users -> HeirRecord], acted : [Users -> Nat], early : BOOLEAN]
ReceiptBook == [total : [Users -> Nat], holders : [Users -> Seq(Users)], bal : [Users -> [Users -> Nat]],
                exit : [Users -> Int], written_off : Int, unfunded : Int]

\* All the shares of each user, and all the reward each user has coming.
held_by(s, p) == [u \in Users |-> s[u] + sum(amounts_of(p.splits[u]))]
due_to(s, p, n) == [u \in Users |-> p.accrued[u] + s[u] * (n - p.since[u])]

\* The books of the positions: shares, rewards, heirs, receipts and tokens.
shares_booked ==
    /\ now \in Nat /\ held \in Int /\ shares \in [Users -> Nat] /\ totalDeposited \in Nat /\ rewardPool \in Nat
    /\ position \in PositionBook /\ totalShares = sum(held_by(shares, position))

rewards_booked == position.earned = position.paid + position.forgone + sum(due_to(shares, position, now))

heirs_booked ==
    /\ heirs \in HeirBook /\ heirs.early = FALSE
    /\ \A u \in Users : heirs.rec[u] # NoHeir => heirs.rec[u].heir \in Users /\ heirs.acted[u] <= heirs.rec[u].last

receipts_booked ==
    /\ receipt \in ReceiptBook
    /\ \A u \in Users : /\ sum(receipt.bal[u]) = receipt.total[u]
                        /\ \A h \in Users : receipt.bal[u][h] > 0 => Contains(receipt.holders[u], h)

tokens_booked == held = totalDeposited + rewardPool + receipt.written_off - receipt.unfunded

PositionBooks == shares_booked /\ rewards_booked /\ heirs_booked /\ receipts_booked /\ tokens_booked

\* What a list of positions holds is a natural number, what it has coming an integer.
LEMMA HeldTyped ==
    ASSUME NEW s \in [Users -> Nat], NEW p \in PositionBook
    PROVE  /\ held_by(s, p) \in [Users -> Nat] /\ held_by(s, p) \in [Users -> Int]
           /\ \A u \in Users : held_by(s, p)[u] = s[u] + sum(amounts_of(p.splits[u])) /\ s[u] <= held_by(s, p)[u]
  <1>1. \A u \in Users : s[u] \in Nat /\ sum(amounts_of(p.splits[u])) \in Nat
    <2> SUFFICES ASSUME NEW u \in Users PROVE s[u] \in Nat /\ sum(amounts_of(p.splits[u])) \in Nat
      OBVIOUS
    <2>1. p.splits[u] \in Seq(Split)
      BY DEF PositionBook
    <2> QED BY <2>1, SplitsNat
  <1>2. \A u \in Users : held_by(s, p)[u] = s[u] + sum(amounts_of(p.splits[u]))
    BY DEF held_by
  <1>3. \A u \in Users : held_by(s, p)[u] \in Nat /\ s[u] <= held_by(s, p)[u]
    BY <1>1, <1>2
  <1>4. held_by(s, p) = [u \in Users |-> held_by(s, p)[u]]
    BY DEF held_by
  <1> QED BY <1>2, <1>3, <1>4

LEMMA DueTyped ==
    ASSUME NEW s \in [Users -> Nat], NEW p \in PositionBook, NEW n \in Nat
    PROVE  /\ due_to(s, p, n) \in [Users -> Int]
           /\ \A u \in Users : due_to(s, p, n)[u] = p.accrued[u] + s[u] * (n - p.since[u])
  <1>1. \A u \in Users : s[u] \in Nat /\ p.accrued[u] \in Int /\ p.since[u] \in Int
    BY DEF PositionBook
  <1>2. \A u \in Users : p.accrued[u] + s[u] * (n - p.since[u]) \in Int
    BY <1>1
  <1> QED BY <1>2 DEF due_to

\* The totals over all users.
LEMMA PositionTotals ==
    ASSUME shares_booked
    PROVE  /\ totalShares \in Nat
           /\ \A u \in Users : /\ shares[u] \in Nat /\ held_by(shares, position)[u] \in Nat
                               /\ shares[u] <= held_by(shares, position)[u] /\ held_by(shares, position)[u] <= totalShares
  <1> DEFINE H == held_by(shares, position)
  <1>1. shares \in [Users -> Nat] /\ H \in [Users -> Nat] /\ totalShares = sum(H) /\ \A u \in Users : shares[u] <= H[u]
    BY HeldTyped DEF shares_booked
  <1> HIDE DEF H
  <1>2. sum(H) \in Nat /\ \A u \in Users : H[u] <= sum(H)
    BY <1>1, BaseAssumption, SumNat, SumBound
  <1> QED BY <1>1, <1>2 DEF H

\* One user's shares or splits change and the total follows.
LEMMA OneHolds ==
    ASSUME shares_booked, NEW s \in [Users -> Nat], NEW p \in PositionBook, NEW u \in Users,
           \A w \in Users \ {u} : s[w] = shares[w] /\ p.splits[w] = position.splits[w]
    PROVE  /\ sum(held_by(s, p)) = totalShares + held_by(s, p)[u] - held_by(shares, position)[u]
           /\ held_by(s, p)[u] = s[u] + sum(amounts_of(p.splits[u]))
           /\ held_by(shares, position)[u] = shares[u] + sum(amounts_of(position.splits[u]))
           /\ sum(amounts_of(p.splits[u])) \in Nat /\ sum(amounts_of(position.splits[u])) \in Nat
  <1> DEFINE f == held_by(shares, position)   g == held_by(s, p)
  <1>1. shares \in [Users -> Nat] /\ position \in PositionBook /\ totalShares = sum(f)
    BY DEF shares_booked
  <1>2. /\ f \in [Users -> Int] /\ g \in [Users -> Int]
        /\ (\A w \in Users : f[w] = shares[w] + sum(amounts_of(position.splits[w])))
        /\ (\A w \in Users : g[w] = s[w] + sum(amounts_of(p.splits[w])))
    BY <1>1, HeldTyped
  <1> HIDE DEF f, g
  <1>3. \A w \in Users \ {u} : g[w] = f[w]
    BY <1>2
  <1>4. sum(g) = sum(f) + g[u] - f[u]
    BY ONLY <1>2, <1>3, u \in Users, BaseAssumption, SumChange
  <1>5. p.splits[u] \in Seq(Split) /\ position.splits[u] \in Seq(Split)
    BY <1>1 DEF PositionBook
  <1>6. sum(amounts_of(p.splits[u])) \in Nat /\ sum(amounts_of(position.splits[u])) \in Nat
    BY <1>5, SplitsNat
  <1> QED BY <1>1, <1>2, <1>4, <1>6 DEF f, g

\* One user's reward is settled, paid or lost.
LEMMA OneEarns ==
    ASSUME shares_booked, rewards_booked, NEW s \in [Users -> Nat], NEW p \in PositionBook, NEW u \in Users,
           \A w \in Users \ {u} : s[w] = shares[w] /\ p.accrued[w] = position.accrued[w] /\ p.since[w] = position.since[w],
           p.earned = position.earned,
           p.paid + p.forgone + (p.accrued[u] + s[u] * (now - p.since[u]))
               = position.paid + position.forgone + (position.accrued[u] + shares[u] * (now - position.since[u]))
    PROVE  p.earned = p.paid + p.forgone + sum(due_to(s, p, now))
  <1> DEFINE f == due_to(shares, position, now)   g == due_to(s, p, now)
             a == position.accrued[u] + shares[u] * (now - position.since[u])   b == p.accrued[u] + s[u] * (now - p.since[u])
  <1>1. shares \in [Users -> Nat] /\ position \in PositionBook /\ now \in Nat /\ position.earned = position.paid + position.forgone + sum(f)
    BY DEF shares_booked, rewards_booked
  <1>2. /\ f \in [Users -> Int] /\ g \in [Users -> Int]
        /\ (\A w \in Users : f[w] = position.accrued[w] + shares[w] * (now - position.since[w]))
        /\ (\A w \in Users : g[w] = p.accrued[w] + s[w] * (now - p.since[w]))
    BY <1>1, DueTyped
  <1>3. f[u] = a /\ g[u] = b /\ p.paid + p.forgone + b = position.paid + position.forgone + a
    BY <1>2
  <1> HIDE DEF f, g, a, b
  <1>4. \A w \in Users \ {u} : g[w] = f[w]
    BY <1>2
  <1>5. sum(g) = sum(f) + g[u] - f[u]
    BY ONLY <1>2, <1>4, u \in Users, BaseAssumption, SumChange
  <1>6. sum(f) \in Int /\ g[u] \in Int /\ f[u] \in Int
    BY <1>2, BaseAssumption, SumType
  <1>7. p.earned \in Int /\ p.paid \in Int /\ p.forgone \in Int /\ position.paid \in Int /\ position.forgone \in Int /\ position.earned \in Int
    BY <1>1 DEF PositionBook
  <1>8. p.paid + p.forgone + g[u] = position.paid + position.forgone + f[u]
    BY <1>3
  <1>9. p.earned = p.paid + p.forgone + sum(g)
    BY ONLY <1>1, <1>5, <1>6, <1>7, <1>8, p.earned = position.earned
  <1> QED BY <1>9 DEF g

\* Two users' entries change.
LEMMA TwoChange ==
    ASSUME NEW S, IsFiniteSet(S), NEW f \in [S -> Int], NEW g \in [S -> Int], NEW x \in S, NEW y \in S, x # y,
           \A z \in S : z # x /\ z # y => g[z] = f[z]
    PROVE  sum(g) = sum(f) + g[x] - f[x] + g[y] - f[y]
  <1> DEFINE c == g[x]   h == [f EXCEPT ![x] = c]
  <1>1. h \in [S -> Int] /\ h[x] = g[x] /\ \A z \in S \ {x} : h[z] = f[z]
    OBVIOUS
  <1> HIDE DEF h
  <1>2. sum(h) = sum(f) + h[x] - f[x]
    BY ONLY <1>1, IsFiniteSet(S), f \in [S -> Int], x \in S, SumChange
  <1>3. \A z \in S \ {y} : g[z] = h[z]
    BY <1>1
  <1>4. sum(g) = sum(h) + g[y] - h[y]
    BY ONLY <1>1, <1>3, IsFiniteSet(S), g \in [S -> Int], y \in S, SumChange
  <1>5. sum(f) \in Int /\ sum(h) \in Int /\ g[x] \in Int /\ f[x] \in Int /\ g[y] \in Int /\ f[y] \in Int /\ h[y] = f[y]
    BY <1>1, SumType
  <1> QED BY <1>1, <1>2, <1>4, <1>5

\* A settlement: what u has coming is credited, and the checkpoint is now.
LEMMA Settled ==
    ASSUME shares_booked, NEW u \in Users
    PROVE  /\ accrue(u) \in PositionBook
           /\ accrue(u).accrued[u] = position.accrued[u] + shares[u] * (now - position.since[u]) /\ accrue(u).since[u] = now
           /\ \A w \in Users \ {u} : accrue(u).accrued[w] = position.accrued[w] /\ accrue(u).since[w] = position.since[w]
           /\ accrue(u).splits = position.splits /\ accrue(u).at = position.at /\ accrue(u).earned = position.earned
           /\ accrue(u).paid = position.paid /\ accrue(u).forgone = position.forgone
  <1> DEFINE a == position.accrued[u] + shares[u] * (now - position.since[u])
             A == [position.accrued EXCEPT ![u] = a]   C == [position.since EXCEPT ![u] = now]
  <1>1. position \in PositionBook /\ now \in Int /\ shares[u] \in Nat
    BY DEF shares_booked
  <1>2. position.accrued \in [Users -> Int] /\ position.since \in [Users -> Int]
    BY <1>1 DEF PositionBook
  <1>3. a \in Int
    BY <1>1, <1>2
  <1>4. accrue(u) = [position EXCEPT !.accrued = A, !.since = C]
    BY <1>1 DEF accrue, unsettled, PositionBook
  <1>5. a = position.accrued[u] + shares[u] * (now - position.since[u])
    OBVIOUS
  <1> HIDE DEF a
  <1>6. /\ A \in [Users -> Int] /\ A[u] = a /\ (\A w \in Users \ {u} : A[w] = position.accrued[w])
        /\ C \in [Users -> Int] /\ C[u] = now /\ (\A w \in Users \ {u} : C[w] = position.since[w])
    BY <1>1, <1>2, <1>3
  <1> HIDE DEF A, C
  <1>7. /\ accrue(u) \in PositionBook /\ accrue(u).accrued = A /\ accrue(u).since = C
        /\ accrue(u).splits = position.splits /\ accrue(u).at = position.at /\ accrue(u).earned = position.earned
        /\ accrue(u).paid = position.paid /\ accrue(u).forgone = position.forgone
    BY <1>1, <1>4, <1>6 DEF PositionBook
  <1> QED BY <1>5, <1>6, <1>7

\* A user did something: the record of the heir counts from now.
LEMMA Touched ==
    ASSUME heirs_booked, now \in Nat, NEW u \in Users, heirs' = touch(u)
    PROVE  heirs_booked'
  <1> DEFINE r == heirs.rec[u]   e == [r EXCEPT !.last = IF r = NoHeir THEN r.last ELSE now]
             R == [heirs.rec EXCEPT ![u] = e]   A == [heirs.acted EXCEPT ![u] = now]
  <1>1. /\ heirs \in HeirBook /\ heirs.rec \in [Users -> HeirRecord] /\ heirs.acted \in [Users -> Nat]
        /\ heirs.early = FALSE
        /\ \A w \in Users : heirs.rec[w] # NoHeir => heirs.rec[w].heir \in Users /\ heirs.acted[w] <= heirs.rec[w].last
    BY DEF heirs_booked, HeirBook
  <1>2. heirs' = [heirs EXCEPT !.acted = A, !.rec = R]
    BY <1>1 DEF touch, HeirBook, HeirRecord
  <1>3. r \in HeirRecord
    BY <1>1
  <1>4. e \in HeirRecord /\ e.heir = r.heir /\ (e # NoHeir => r # NoHeir /\ e.last = now)
    <2>1. CASE r = NoHeir
      <3>1. e = r
        BY <1>3, <2>1 DEF HeirRecord
      <3> QED BY <1>3, <2>1, <3>1
    <2>2. CASE r # NoHeir
      <3> HIDE DEF r
      <3>1. e = [r EXCEPT !.last = now]
        BY <2>2
      <3> QED BY <1>3, <2>2, <3>1 DEF HeirRecord
    <2> QED BY <2>1, <2>2
  <1>5. r # NoHeir => r.heir \in Users
    BY <1>1
  <1> HIDE DEF r, e
  <1>6. /\ R \in [Users -> HeirRecord] /\ R[u] = e /\ (\A w \in Users \ {u} : R[w] = heirs.rec[w])
        /\ A \in [Users -> Nat] /\ A[u] = now /\ (\A w \in Users \ {u} : A[w] = heirs.acted[w])
    BY <1>1, <1>4
  <1> HIDE DEF R, A
  <1>7. heirs' \in HeirBook /\ heirs'.rec = R /\ heirs'.acted = A /\ heirs'.early = FALSE
    BY <1>1, <1>2, <1>6 DEF HeirBook
  <1>8. \A w \in Users : R[w] # NoHeir => R[w].heir \in Users /\ A[w] <= R[w].last
    <2> SUFFICES ASSUME NEW w \in Users, R[w] # NoHeir PROVE R[w].heir \in Users /\ A[w] <= R[w].last
      OBVIOUS
    <2>1. CASE w = u
      BY <1>4, <1>5, <1>6, <2>1
    <2>2. CASE w # u
      BY <1>1, <1>6, <2>2
    <2> QED BY <2>1, <2>2
  <1> QED BY <1>7, <1>8 DEF heirs_booked

\* The rewards of u are settled up to now in p, and paid or credited; nobody else's move.
settled_in(u, p) ==
    /\ p \in PositionBook /\ p.earned = position.earned /\ p.forgone = position.forgone /\ p.since[u] = now
    /\ p.paid + p.accrued[u] = position.paid + (position.accrued[u] + shares[u] * (now - position.since[u]))
    /\ \A w \in Users \ {u} : p.accrued[w] = position.accrued[w] /\ p.since[w] = position.since[w]

\* Nobody else's position changes.
alone_in(u, s, p) ==
    /\ s \in [Users -> Nat]
    /\ \A w \in Users \ {u} : s[w] = shares[w] /\ p.splits[w] = position.splits[w]

\* What u holds, in the primary position s and the splits of p.
all_of(u, s, p) == s[u] + sum(amounts_of(p.splits[u]))

\* The pool's other numbers stay numbers within the ledger.
pool_typed == held \in Int /\ totalDeposited \in Nat /\ rewardPool \in Nat

LEMMA AccrueSettles ==
    ASSUME shares_booked, NEW u \in Users
    PROVE  settled_in(u, accrue(u)) /\ accrue(u).splits = position.splits /\ accrue(u).at = position.at
  <1>1. position \in PositionBook
    BY DEF shares_booked
  <1>2. position.paid \in Int
    BY <1>1 DEF PositionBook
  <1> QED BY <1>2, Settled DEF settled_in

\* The stake ledger is rewritten.
LEMMA AtRewritten ==
    ASSUME NEW u \in Users, NEW p, settled_in(u, p), NEW t \in Int, NEW q, q = [p EXCEPT !.at[u] = t]
    PROVE  settled_in(u, q) /\ q.splits = p.splits
  <1> DEFINE A == [p.at EXCEPT ![u] = t]
  <1>1. p \in PositionBook /\ A \in [Users -> Int]
    BY DEF settled_in, PositionBook
  <1>2. q = [p EXCEPT !.at = A]
    BY <1>1 DEF PositionBook
  <1> HIDE DEF A
  <1>3. /\ q \in PositionBook /\ q.splits = p.splits /\ q.accrued = p.accrued /\ q.since = p.since
        /\ q.earned = p.earned /\ q.paid = p.paid /\ q.forgone = p.forgone
    BY <1>1, <1>2 DEF PositionBook
  <1> QED BY <1>3 DEF settled_in

\* The splits are rewritten.
with_splits(p, u, S) == [p EXCEPT !.splits[u] = S]

LEMMA SplitsRewritten ==
    ASSUME NEW u \in Users, NEW p, settled_in(u, p), NEW S \in Seq(Split)
    PROVE  /\ settled_in(u, with_splits(p, u, S)) /\ with_splits(p, u, S).splits[u] = S
           /\ \A w \in Users \ {u} : with_splits(p, u, S).splits[w] = p.splits[w]
  <1> DEFINE A == [p.splits EXCEPT ![u] = S]   q == with_splits(p, u, S)
  <1>1. /\ p \in PositionBook /\ A \in [Users -> Seq(Split)] /\ A[u] = S
        /\ \A w \in Users \ {u} : A[w] = p.splits[w]
    BY DEF settled_in, PositionBook
  <1>2. q = [p EXCEPT !.splits = A]
    BY <1>1 DEF PositionBook, with_splits
  <1> HIDE DEF A, q
  <1>3. /\ q \in PositionBook /\ q.splits = A /\ q.accrued = p.accrued /\ q.since = p.since
        /\ q.earned = p.earned /\ q.paid = p.paid /\ q.forgone = p.forgone
    BY <1>1, <1>2 DEF PositionBook
  <1>4. settled_in(u, q) /\ q.splits[u] = S /\ \A w \in Users \ {u} : q.splits[w] = p.splits[w]
    BY <1>1, <1>3 DEF settled_in
  <1> QED BY <1>4 DEF q

\* What is settled is paid.
LEMMA ClaimsSettle ==
    ASSUME NEW u \in Users, NEW p, settled_in(u, p)
    PROVE  settled_in(u, claimed_by(u, p)) /\ claimed_by(u, p).splits = p.splits /\ p.accrued[u] \in Int
  <1> DEFINE q == claimed_by(u, p)   A == [p.accrued EXCEPT ![u] = 0]   c == p.paid + p.accrued[u]
  <1>1. /\ p \in PositionBook /\ A \in [Users -> Int] /\ A[u] = 0 /\ p.paid \in Int /\ p.accrued[u] \in Int
        /\ \A w \in Users \ {u} : A[w] = p.accrued[w]
    BY DEF settled_in, PositionBook
  <1>2. c \in Int /\ c + 0 = c
    BY <1>1
  <1>3. q = [p EXCEPT !.paid = c, !.accrued = A]
    BY <1>1 DEF PositionBook, claimed_by
  <1>4. c = p.paid + p.accrued[u]
    OBVIOUS
  <1> HIDE DEF A, c, q
  <1>5. /\ q \in PositionBook /\ q.splits = p.splits /\ q.accrued = A /\ q.since = p.since
        /\ q.earned = p.earned /\ q.paid = c /\ q.forgone = p.forgone
    BY <1>1, <1>2, <1>3 DEF PositionBook
  <1>6. q.paid + q.accrued[u] = p.paid + p.accrued[u]
    BY <1>1, <1>2, <1>4, <1>5
  <1>7. settled_in(u, q)
    BY <1>1, <1>5, <1>6 DEF settled_in
  <1> QED BY <1>1, <1>5, <1>7 DEF q

\* A step of one user, with the rewards settled, keeps shares and rewards booked.
LEMMA SettledStep ==
    ASSUME shares_booked, rewards_booked, NEW u \in Users, settled_in(u, position'), alone_in(u, shares', position'),
           now' = now, pool_typed',
           totalShares' = totalShares + all_of(u, shares', position') - all_of(u, shares, position)
    PROVE  shares_booked' /\ rewards_booked'
  <1> DEFINE s == shares'   p == position'
  <1>1. /\ s \in [Users -> Nat] /\ p \in PositionBook /\ now \in Nat
        /\ (\A w \in Users \ {u} : /\ s[w] = shares[w] /\ p.splits[w] = position.splits[w]
                                   /\ p.accrued[w] = position.accrued[w] /\ p.since[w] = position.since[w])
        /\ p.earned = position.earned /\ p.forgone = position.forgone /\ p.since[u] = now
        /\ p.paid + p.accrued[u] = position.paid + (position.accrued[u] + shares[u] * (now - position.since[u]))
    BY DEF settled_in, alone_in, shares_booked
  <1>2. sum(held_by(s, p)) = totalShares'
    <2>1. /\ sum(held_by(s, p)) = totalShares + held_by(s, p)[u] - held_by(shares, position)[u]
          /\ held_by(s, p)[u] = all_of(u, s, p) /\ held_by(shares, position)[u] = all_of(u, shares, position)
      BY <1>1, OneHolds DEF all_of
    <2> QED BY <2>1
  <1>3. p.paid + p.forgone + (p.accrued[u] + s[u] * (now - p.since[u]))
            = position.paid + position.forgone + (position.accrued[u] + shares[u] * (now - position.since[u]))
    <2> DEFINE x == position.accrued[u] + shares[u] * (now - position.since[u])
               a == p.paid   b == p.accrued[u]   c == p.forgone   d == position.paid   e == s[u] * (now - p.since[u])
    <2>1. position \in PositionBook /\ shares[u] \in Nat
      BY DEF shares_booked
    <2>2. x \in Int
      <3> DEFINE k == position.accrued[u]   m == shares[u]   n == position.since[u]
      <3>1. k \in Int /\ m \in Int /\ n \in Int /\ now \in Int
        BY <1>1, <2>1 DEF PositionBook
      <3> HIDE DEF k, m, n
      <3>2. k + m * (now - n) \in Int
        BY ONLY <3>1
      <3> QED BY <3>2 DEF k, m, n
    <2>3. a \in Int /\ b \in Int /\ c \in Int /\ d \in Int /\ s[u] \in Int
      BY <1>1, <2>1 DEF PositionBook
    <2>4. e = 0
      <3>1. now - p.since[u] = 0
        BY <1>1
      <3> QED BY <2>3, <3>1
    <2>5. a + b = d + x /\ c = position.forgone
      BY <1>1
    <2> HIDE DEF x, a, b, c, d, e
    <2>6. a + c + (b + e) = d + c + x
      BY ONLY <2>2, <2>3, <2>4, <2>5
    <2> QED BY <2>5, <2>6 DEF x, a, b, c, d, e
  <1>4. p.earned = p.paid + p.forgone + sum(due_to(s, p, now))
    BY <1>1, <1>3, OneEarns
  <1>5. shares_booked'
    BY <1>1, <1>2 DEF shares_booked, pool_typed
  <1> QED BY <1>4, <1>5 DEF rewards_booked

\* A step of u that settles the rewards and moves tokens only with the books.
settled_move(u) ==
    /\ settled_in(u, position') /\ alone_in(u, shares', position') /\ now' = now /\ pool_typed'
    /\ totalShares' = totalShares + all_of(u, shares', position') - all_of(u, shares, position)
    /\ heirs' = touch(u) \/ heirs' = heirs
    /\ receipt' = receipt
    /\ held' - totalDeposited' - rewardPool' = held - totalDeposited - rewardPool

LEMMA SettledKeeps ==
    ASSUME PositionBooks, NEW u \in Users, settled_move(u)
    PROVE  PositionBooks'
  <1>1. shares_booked /\ rewards_booked /\ heirs_booked /\ receipts_booked /\ tokens_booked
    BY DEF PositionBooks
  <1>2. shares_booked' /\ rewards_booked'
    BY <1>1, SettledStep DEF settled_move
  <1>3. heirs_booked'
    <2>1. now \in Nat /\ (heirs' = touch(u) \/ heirs' = heirs)
      BY <1>1 DEF shares_booked, settled_move
    <2>2. heirs' = heirs => heirs_booked'
      BY <1>1 DEF heirs_booked
    <2> QED BY <1>1, <2>1, <2>2, Touched
  <1>4. receipts_booked'
    BY <1>1 DEF receipts_booked, settled_move
  <1>5. tokens_booked'
    <2> DEFINE a == held   b == totalDeposited   c == rewardPool   d == held'   e == totalDeposited'   f == rewardPool'
               x == receipt.written_off   y == receipt.unfunded
    <2>1. a \in Int /\ b \in Int /\ c \in Int /\ d \in Int /\ e \in Int /\ f \in Int /\ x \in Int /\ y \in Int
      BY <1>1 DEF shares_booked, settled_move, pool_typed, receipts_booked, ReceiptBook
    <2>2. d - e - f = a - b - c /\ a = b + c + x - y
      BY <1>1 DEF settled_move, tokens_booked
    <2> HIDE DEF a, b, c, d, e, f, x, y
    <2>3. d = e + f + x - y
      BY ONLY <2>1, <2>2
    <2>4. receipt' = receipt
      BY DEF settled_move
    <2> QED BY <2>3, <2>4 DEF tokens_booked, d, e, f, x, y
  <1> QED BY <1>2, <1>3, <1>4, <1>5 DEF PositionBooks

\* Shares within the total redeem for a part of the deposits.
LEMMA PartRedeems ==
    ASSUME shares_booked, NEW n \in Nat, n <= totalShares
    PROVE  /\ shares_to_amount(totalShares, totalDeposited, n) \in Nat
           /\ shares_to_amount(totalShares, totalDeposited, n) <= totalDeposited
  <1>1. totalShares \in Nat /\ totalDeposited \in Nat
    BY PositionTotals DEF shares_booked
  <1> QED BY <1>1, RedeemNat, RedeemAtMostAll

\* Only the primary position is written.
LEMMA PrimaryWritten ==
    ASSUME shares_booked, NEW u \in Users, NEW m \in Nat, shares' = [shares EXCEPT ![u] = m],
           position'.splits = position.splits, totalShares' = totalShares + m - shares[u]
    PROVE  /\ alone_in(u, shares', position')
           /\ totalShares' = totalShares + all_of(u, shares', position') - all_of(u, shares, position)
  <1>1. shares \in [Users -> Nat] /\ position \in PositionBook
    BY DEF shares_booked
  <1>2. alone_in(u, shares', position') /\ shares'[u] = m
    BY <1>1 DEF alone_in
  <1> DEFINE x == sum(amounts_of(position.splits[u]))   y == shares[u]
  <1>3. x \in Nat
    <2>1. position.splits[u] \in Seq(Split)
      BY <1>1 DEF PositionBook
    <2> QED BY <2>1, SplitsNat
  <1>4. all_of(u, shares', position') = m + x /\ all_of(u, shares, position) = y + x
    BY <1>2 DEF all_of
  <1>5. totalShares \in Nat /\ y \in Nat
    BY PositionTotals
  <1> HIDE DEF x, y
  <1>6. totalShares + (m + x) - (y + x) = totalShares + m - y
    BY ONLY <1>3, <1>5, m \in Nat
  <1> QED BY <1>2, <1>4, <1>6 DEF y

\* Staking more.
LEMMA StakeMoreKeeps ==
    ASSUME PositionBooks, NEW u \in Users, NEW n \in Nat, stake_more(u, n)
    PROVE  PositionBooks'
  <1> DEFINE minted == amount_to_shares(totalShares, totalDeposited, n)
             p == accrue(u)   t == IF p.at[u] = NoLedger THEN now ELSE p.at[u]   m == shares[u] + minted
  <1>1. shares_booked /\ now \in Nat /\ held \in Int /\ totalDeposited \in Nat /\ rewardPool \in Nat /\ position \in PositionBook
    BY DEF PositionBooks, shares_booked
  <1>2. totalShares \in Nat /\ shares[u] \in Nat
    BY <1>1, PositionTotals
  <1>3. minted \in Nat
    BY <1>1, <1>2, MintDefaultNat
  <1>4. /\ held' = held + n /\ shares' = [shares EXCEPT ![u] = shares[u] + minted] /\ totalShares' = totalShares + minted
        /\ totalDeposited' = totalDeposited + n /\ now' = now /\ rewardPool' = rewardPool /\ heirs' = touch(u) /\ receipt' = receipt
    BY DEF stake_more, pull, mint_to
  <1>5. position' = [p EXCEPT !.at[u] = t]
    BY DEF stake_more
  <1>6. settled_in(u, p) /\ p.splits = position.splits /\ p.at = position.at
    BY <1>1, AccrueSettles
  <1>7. t \in Int
    BY <1>1, <1>6 DEF PositionBook
  <1> HIDE DEF minted, p, t
  <1>8. settled_in(u, position') /\ position'.splits = position.splits
    BY <1>5, <1>6, <1>7, AtRewritten
  <1>9. m \in Nat /\ totalShares + minted = totalShares + m - shares[u]
    BY <1>2, <1>3
  <1>10. shares' = [shares EXCEPT ![u] = m]
    BY <1>4
  <1> HIDE DEF m
  <1>11. alone_in(u, shares', position') /\ totalShares' = totalShares + all_of(u, shares', position') - all_of(u, shares, position)
    BY <1>1, <1>4, <1>8, <1>9, <1>10, PrimaryWritten
  <1>12. pool_typed' /\ held' - totalDeposited' - rewardPool' = held - totalDeposited - rewardPool
    BY <1>1, <1>4 DEF pool_typed
  <1>13. settled_move(u)
    BY <1>4, <1>8, <1>11, <1>12 DEF settled_move
  <1> QED BY <1>13, SettledKeeps

\* The primary position is left.
LEMMA LeavePoolKeeps ==
    ASSUME PositionBooks, NEW u \in Users, leave_pool(u)
    PROVE  PositionBooks'
  <1> DEFINE p == accrue(u)   n == amount_of(u)
  <1>1. shares_booked /\ now \in Nat /\ held \in Int /\ totalDeposited \in Nat /\ rewardPool \in Nat
    BY DEF PositionBooks, shares_booked
  <1>2. shares[u] \in Nat /\ shares[u] <= totalShares /\ totalShares \in Nat
    <2>1. \A w \in Users : shares[w] \in Nat /\ shares[w] <= held_by(shares, position)[w] /\ held_by(shares, position)[w] <= totalShares
                           /\ held_by(shares, position)[w] \in Nat
      BY <1>1, PositionTotals
    <2> QED BY <1>1, <2>1, PositionTotals
  <1>3. n \in Nat /\ n <= totalDeposited
    BY <1>1, <1>2, PartRedeems DEF amount_of
  <1>4. /\ held' = held - n /\ shares' = [shares EXCEPT ![u] = 0] /\ totalShares' = totalShares - shares[u]
        /\ totalDeposited' = totalDeposited - n /\ now' = now /\ rewardPool' = rewardPool /\ heirs' = touch(u) /\ receipt' = receipt
    BY DEF leave_pool, leave, push
  <1>5. position' = [p EXCEPT !.at[u] = NoLedger]
    BY DEF leave_pool
  <1>6. settled_in(u, p) /\ p.splits = position.splits
    BY <1>1, AccrueSettles
  <1> HIDE DEF p, n
  <1>7. settled_in(u, position') /\ position'.splits = position.splits
    <2>1. NoLedger \in Int
      BY DEF NoLedger
    <2> QED BY <1>5, <1>6, <2>1, AtRewritten
  <1>8. alone_in(u, shares', position') /\ totalShares' = totalShares + all_of(u, shares', position') - all_of(u, shares, position)
    <2>1. totalShares' = totalShares + 0 - shares[u]
      BY <1>2, <1>4
    <2> QED BY <1>1, <1>4, <1>7, <2>1, PrimaryWritten
  <1>9. pool_typed' /\ held' - totalDeposited' - rewardPool' = held - totalDeposited - rewardPool
    BY <1>1, <1>3, <1>4 DEF pool_typed
  <1>10. settled_move(u)
    BY <1>4, <1>7, <1>8, <1>9 DEF settled_move
  <1> QED BY <1>10, SettledKeeps

\* What a user holds, as a number within the total.
LEMMA AllOf ==
    ASSUME shares_booked, NEW u \in Users
    PROVE  /\ all_of(u, shares, position) \in Nat /\ all_of(u, shares, position) <= totalShares /\ totalShares \in Nat
           /\ shares[u] \in Nat /\ shares[u] <= totalShares /\ position.splits[u] \in Seq(Split)
           /\ sum(amounts_of(position.splits[u])) \in Nat
  <1> DEFINE a == all_of(u, shares, position)
  <1>1. shares \in [Users -> Nat] /\ position \in PositionBook
    BY DEF shares_booked
  <1>2. position.splits[u] \in Seq(Split)
    BY <1>1 DEF PositionBook
  <1>3. held_by(shares, position)[u] = a
    BY <1>1, HeldTyped DEF all_of
  <1>4. a \in Nat /\ a <= totalShares /\ totalShares \in Nat /\ shares[u] \in Nat /\ shares[u] <= a
    BY <1>3, PositionTotals
  <1> HIDE DEF a
  <1>5. shares[u] <= totalShares
    BY ONLY <1>4
  <1> QED BY <1>2, <1>4, <1>5, SplitsNat DEF a

\* Shares and splits of u are rewritten together.
position_rewritten(u, m, p, S, c) ==
    /\ m \in Nat /\ S \in Seq(Split) /\ c \in Int /\ shares' = [shares EXCEPT ![u] = m]
    /\ settled_in(u, p) /\ p.splits = position.splits /\ position' = with_splits(p, u, S)
    /\ sum(amounts_of(S)) = sum(amounts_of(position.splits[u])) + c
    /\ totalShares' = totalShares + m + c - shares[u]

LEMMA PositionWritten ==
    ASSUME shares_booked, NEW u \in Users, NEW m, NEW p, NEW S, NEW c, position_rewritten(u, m, p, S, c)
    PROVE  /\ settled_in(u, position') /\ alone_in(u, shares', position')
           /\ totalShares' = totalShares + all_of(u, shares', position') - all_of(u, shares, position)
  <1> USE DEF position_rewritten
  <1>1. settled_in(u, position') /\ position'.splits[u] = S /\ \A w \in Users \ {u} : position'.splits[w] = p.splits[w]
    BY SplitsRewritten
  <1>2. shares \in [Users -> Nat]
    BY DEF shares_booked
  <1>3. alone_in(u, shares', position') /\ shares'[u] = m
    BY <1>1, <1>2 DEF alone_in
  <1> DEFINE x == sum(amounts_of(position.splits[u]))   y == shares[u]   z == sum(amounts_of(S))
  <1>4. x \in Nat /\ y \in Nat /\ totalShares \in Nat
    BY AllOf
  <1>5. all_of(u, shares', position') = m + z /\ all_of(u, shares, position) = y + x /\ z = x + c
    BY <1>1, <1>3 DEF all_of
  <1> HIDE DEF x, y, z
  <1>6. totalShares + (m + z) - (y + x) = totalShares + m + c - y
    <2>1. m \in Nat /\ c \in Int
      OBVIOUS
    <2> QED BY ONLY <1>4, <1>5, <2>1
  <1> QED BY <1>1, <1>3, <1>5, <1>6 DEF y

\* A part of a position becomes a split of its own.
LEMMA SplitOff ==
    ASSUME shares_booked, NEW u \in Users, NEW id, NEW n \in Nat, exists(u, id), n < position_info(u, id).amount,
           NEW p, settled_in(u, p), p.splits = position.splits, split_off(p, u, id, n), totalShares' = totalShares
    PROVE  /\ settled_in(u, position') /\ alone_in(u, shares', position')
           /\ totalShares' = totalShares + all_of(u, shares', position') - all_of(u, shares, position)
  <1> DEFINE S == position.splits[u]   src == position_info(u, id)   r == src.amount - n
             rest == [src EXCEPT !.amount = r]   e == [src EXCEPT !.amount = n]
  <1>1. /\ shares[u] \in Nat /\ totalShares \in Nat /\ S \in Seq(Split) /\ shares \in [Users -> Nat]
        /\ position \in PositionBook /\ sum(amounts_of(S)) \in Nat
    BY AllOf DEF shares_booked
  <1>2. CASE id = 0
    <2> DEFINE y == shares[u]   m == y - n   T == Append(S, e)
    <2>1. src = [amount |-> shares[u], at |-> IF position.at[u] = NoLedger THEN 0 ELSE position.at[u]]
      BY <1>2 DEF position_info
    <2>2. e \in Split /\ e.amount = n /\ y \in Nat /\ n < y /\ r = m
      BY <1>1, <2>1 DEF Split, PositionBook
    <2>3. m \in Nat
      BY <2>2
    <2>4. shares' = [shares EXCEPT ![u] = m] /\ position' = [p EXCEPT !.splits[u] = T]
      <3>1. rest.amount = m
        BY <2>1, <2>2
      <3> HIDE DEF m, src
      <3>2. shares' = [shares EXCEPT ![u] = rest.amount] /\ position' = [p EXCEPT !.splits[u] = Append(p.splits[u], e)]
        BY <1>2 DEF split_off, src
      <3> HIDE DEF rest, e
      <3> QED BY <3>1, <3>2
    <2> HIDE DEF e, src, r
    <2>5. T \in Seq(Split) /\ sum(amounts_of(T)) = sum(amounts_of(S)) + n
      BY <1>1, <2>2, SplitsAppend
    <2> HIDE DEF y, m, T
    <2>6. totalShares = totalShares + m + n - y
      BY <1>1, <2>2, <2>3 DEF m
    <2>7. position_rewritten(u, m, p, T, n)
      BY <2>2, <2>3, <2>4, <2>5, <2>6 DEF position_rewritten, with_splits, y
    <2> QED BY <2>7, PositionWritten
  <1>3. CASE id # 0
    <2> DEFINE R == [S EXCEPT ![id] = rest]   T == Append(R, e)   y == shares[u]
    <2>1. src = S[id] /\ id \in DOMAIN S
      BY <1>3 DEF position_info, exists
    <2>2. src \in Split /\ src.amount \in Nat /\ n < src.amount
      <3>1. S[id] \in Split
        BY <1>1, <2>1
      <3> QED BY <2>1, <3>1 DEF Split
    <2> HIDE DEF src
    <2>3. r \in Nat
      BY <2>2
    <2> HIDE DEF r
    <2>4. e \in Split /\ e.amount = n /\ rest \in Split /\ rest.amount = r
      BY <2>2, <2>3 DEF Split
    <2>5. shares' = shares /\ position' = [p EXCEPT !.splits[u] = T]
      BY <1>3 DEF split_off, src, r
    <2> HIDE DEF e, rest
    <2>6. R \in Seq(Split) /\ sum(amounts_of(R)) = sum(amounts_of(S)) + r - S[id].amount
      BY <1>1, <2>1, <2>4, SplitsReplace
    <2> HIDE DEF R
    <2>7. T \in Seq(Split) /\ sum(amounts_of(T)) = sum(amounts_of(R)) + n
      BY <2>4, <2>6, SplitsAppend
    <2>8. sum(amounts_of(T)) = sum(amounts_of(S)) + 0
      <3> DEFINE a == sum(amounts_of(S))   b == sum(amounts_of(R))   c == sum(amounts_of(T))   d == src.amount
      <3>1. a \in Nat /\ d \in Nat /\ b = a + r - d /\ c = b + n /\ r = d - n
        BY <1>1, <2>1, <2>2, <2>6, <2>7 DEF r
      <3> HIDE DEF a, b, c, d
      <3>2. c = a + 0
        BY ONLY <3>1, n \in Nat
      <3> QED BY <3>2 DEF a, c
    <2>9. shares' = [shares EXCEPT ![u] = y] /\ y \in Nat /\ 0 \in Int /\ totalShares' = totalShares + y + 0 - shares[u]
      BY <1>1, <2>5
    <2>10. position' = with_splits(p, u, T)
      BY <2>5 DEF with_splits
    <2> HIDE DEF T, y
    <2>11. position_rewritten(u, y, p, T, 0)
      BY <2>7, <2>8, <2>9, <2>10 DEF position_rewritten
    <2> QED BY <2>11, PositionWritten
  <1> QED BY <1>2, <1>3

\* Rewards are claimed.
LEMMA ClaimRewardsKeeps ==
    ASSUME PositionBooks, NEW u \in Users, claim_rewards(u)
    PROVE  PositionBooks'
  <1> DEFINE p == accrue(u)   n == p.accrued[u]   y == shares[u]
  <1>1. shares_booked /\ now \in Nat /\ held \in Int /\ totalDeposited \in Nat /\ rewardPool \in Nat /\ shares \in [Users -> Nat]
    BY DEF PositionBooks, shares_booked
  <1>2. /\ rewardPool >= n /\ held' = held - n /\ rewardPool' = rewardPool - n /\ position' = claimed_by(u, p)
        /\ heirs' = touch(u) /\ now' = now /\ shares' = shares /\ totalShares' = totalShares /\ totalDeposited' = totalDeposited
        /\ receipt' = receipt
    BY DEF claim_rewards, push, pool
  <1>3. settled_in(u, p) /\ p.splits = position.splits
    BY <1>1, AccrueSettles
  <1> HIDE DEF p
  <1>4. settled_in(u, position') /\ position'.splits = position.splits /\ n \in Int
    BY <1>2, <1>3, ClaimsSettle
  <1> HIDE DEF n
  <1>5. pool_typed' /\ held' - totalDeposited' - rewardPool' = held - totalDeposited - rewardPool
    BY <1>1, <1>2, <1>4 DEF pool_typed
  <1>6. y \in Nat /\ shares' = [shares EXCEPT ![u] = y] /\ totalShares' = totalShares + y - shares[u]
    BY <1>1, <1>2, AllOf
  <1> HIDE DEF y
  <1>7. alone_in(u, shares', position') /\ totalShares' = totalShares + all_of(u, shares', position') - all_of(u, shares, position)
    BY <1>1, <1>4, <1>6, PrimaryWritten
  <1>8. settled_move(u)
    BY <1>2, <1>4, <1>5, <1>7 DEF settled_move
  <1> QED BY <1>8, SettledKeeps

\* The older split pays what is settled first.
LEMMA PositionSplitKeeps ==
    ASSUME PositionBooks, NEW u \in Users, NEW k \in Nat, position_split(u, k)
    PROVE  PositionBooks'
  <1> DEFINE p == accrue(u)   q == claimed_by(u, p)   n == p.accrued[u]
  <1>1. shares_booked /\ now \in Nat /\ held \in Int /\ totalDeposited \in Nat /\ rewardPool \in Nat
    BY DEF PositionBooks, shares_booked
  <1>2. /\ rewardPool >= n /\ held' = held - n /\ rewardPool' = rewardPool - n /\ split_off(q, u, 0, k)
        /\ heirs' = heirs /\ now' = now /\ totalShares' = totalShares /\ totalDeposited' = totalDeposited
        /\ receipt' = receipt
    BY DEF position_split, push
  <1>3. exists(u, 0) /\ k < position_info(u, 0).amount
    <2>1. k > 0 /\ k < shares[u] /\ shares[u] \in Nat
      BY <1>1, AllOf DEF position_split
    <2>2. shares[u] > 0
      BY <2>1
    <2> QED BY <2>1, <2>2 DEF exists, position_info
  <1>4. settled_in(u, p) /\ p.splits = position.splits
    BY <1>1, AccrueSettles
  <1> HIDE DEF p
  <1>5. settled_in(u, q) /\ q.splits = position.splits /\ n \in Int
    BY <1>4, ClaimsSettle
  <1> HIDE DEF n, q
  <1>6. pool_typed' /\ held' - totalDeposited' - rewardPool' = held - totalDeposited - rewardPool
    BY <1>1, <1>2, <1>5 DEF pool_typed
  <1>7. /\ settled_in(u, position') /\ alone_in(u, shares', position')
        /\ totalShares' = totalShares + all_of(u, shares', position') - all_of(u, shares, position)
    BY <1>1, <1>2, <1>3, <1>5, SplitOff
  <1>8. settled_move(u)
    BY <1>2, <1>6, <1>7 DEF settled_move
  <1> QED BY <1>8, SettledKeeps

\* The newer split credits what is settled.
LEMMA SplitPositionKeeps ==
    ASSUME PositionBooks, NEW u \in Users, NEW id, NEW k \in Nat, split_position(u, id, k)
    PROVE  PositionBooks'
  <1> DEFINE p == accrue(u)
  <1>1. shares_booked /\ now \in Nat /\ held \in Int /\ totalDeposited \in Nat /\ rewardPool \in Nat
    BY DEF PositionBooks, shares_booked
  <1>2. /\ held' = held /\ rewardPool' = rewardPool /\ split_off(p, u, id, k) /\ exists(u, id) /\ k < position_info(u, id).amount
        /\ heirs' = touch(u) /\ now' = now /\ totalShares' = totalShares /\ totalDeposited' = totalDeposited
        /\ receipt' = receipt
    BY DEF split_position
  <1>3. settled_in(u, p) /\ p.splits = position.splits
    BY <1>1, AccrueSettles
  <1> HIDE DEF p
  <1>4. pool_typed' /\ held' - totalDeposited' - rewardPool' = held - totalDeposited - rewardPool
    BY <1>1, <1>2 DEF pool_typed
  <1>5. /\ settled_in(u, position') /\ alone_in(u, shares', position')
        /\ totalShares' = totalShares + all_of(u, shares', position') - all_of(u, shares, position)
    BY <1>1, <1>2, <1>3, SplitOff
  <1>6. settled_move(u)
    BY <1>2, <1>4, <1>5 DEF settled_move
  <1> QED BY <1>6, SettledKeeps

\* Position k takes over position r, which goes.
LEMMA Merged ==
    ASSUME shares_booked, NEW u \in Users, NEW k \in Nat, NEW r \in Nat, k < r, exists(u, k), exists(u, r), merged(u, k, r),
           totalShares' = totalShares
    PROVE  /\ settled_in(u, position') /\ alone_in(u, shares', position')
           /\ totalShares' = totalShares + all_of(u, shares', position') - all_of(u, shares, position)
  <1> DEFINE S == position.splits[u]   p == accrue(u)   x == S[r].amount   y == shares[u]
             s2 == position_info(u, k).amount + position_info(u, r).amount
  <1>1. y \in Nat /\ totalShares \in Nat /\ S \in Seq(Split) /\ shares \in [Users -> Nat] /\ sum(amounts_of(S)) \in Nat
    BY AllOf DEF shares_booked
  <1>2. r # 0 /\ r \in DOMAIN S /\ position_info(u, r) = S[r]
    BY DEF exists, position_info
  <1>3. x \in Nat
    <2>1. S[r] \in Split
      BY <1>1, <1>2
    <2> QED BY <2>1 DEF Split
  <1>4. settled_in(u, p) /\ p.splits = position.splits
    BY AccrueSettles
  <1>5. CASE k = 0
    <2> DEFINE T == RemoveAt(S, r)   m == y + x   c == 0 - x
    <2>1. s2 = m
      BY <1>2, <1>5 DEF position_info
    <2>2. shares' = [shares EXCEPT ![u] = s2] /\ position' = with_splits(p, u, T)
      BY <1>5 DEF merged, with_splits
    <2>3. T \in Seq(Split) /\ sum(amounts_of(T)) = sum(amounts_of(S)) - x
      BY <1>1, <1>2, SplitsRemove
    <2> HIDE DEF T, p, s2
    <2>4. m \in Nat /\ c \in Int /\ totalShares' = totalShares + m + c - y
      <3> HIDE DEF x, y
      <3> QED BY ONLY <1>1, <1>3, totalShares' = totalShares
    <2>5. sum(amounts_of(T)) = sum(amounts_of(S)) + c
      BY <1>1, <1>3, <2>3
    <2> HIDE DEF m, c
    <2>6. position_rewritten(u, m, p, T, c)
      BY <1>4, <2>1, <2>2, <2>3, <2>4, <2>5 DEF position_rewritten
    <2> QED BY <2>6, PositionWritten
  <1>6. CASE k # 0
    <2> DEFINE z == S[k].amount   e == [S[k] EXCEPT !.amount = s2]   R == [S EXCEPT ![k] = e]   T == RemoveAt(R, r)
    <2>1. k \in DOMAIN S /\ position_info(u, k) = S[k]
      BY <1>6 DEF exists, position_info
    <2>2. z \in Nat /\ s2 = z + x /\ S[k] \in Split
      <3>1. S[k] \in Split
        BY <1>1, <2>1
      <3> QED BY <1>2, <2>1, <3>1 DEF Split
    <2>3. s2 \in Nat
      BY <1>3, <2>2
    <2>4. shares' = shares /\ position' = with_splits(p, u, T)
      <3>1. shares' = shares /\ position' = with_splits(p, u, RemoveAt([S EXCEPT ![k].amount = s2], r))
        BY <1>6 DEF merged, with_splits
      <3>2. [S EXCEPT ![k].amount = s2] = R
        BY <1>1, <2>1
      <3> QED BY <3>1, <3>2
    <2> HIDE DEF s2
    <2>5. e \in Split /\ e.amount = s2
      BY <2>2, <2>3 DEF Split
    <2> HIDE DEF e
    <2>6. /\ R \in Seq(Split) /\ sum(amounts_of(R)) = sum(amounts_of(S)) + s2 - z /\ DOMAIN R = DOMAIN S /\ R[r] = S[r]
      <3>1. r \in DOMAIN S \ {k}
        BY <1>2
      <3>2. /\ R \in Seq(Split) /\ sum(amounts_of(R)) = sum(amounts_of(S)) + e.amount - S[k].amount
            /\ DOMAIN R = DOMAIN S /\ \A j \in DOMAIN S \ {k} : R[j] = S[j]
        <4> HIDE DEF S
        <4> QED BY ONLY <1>1, <2>1, <2>5, SplitsReplace
      <3> QED BY <2>5, <3>1, <3>2
    <2> HIDE DEF R
    <2>7. T \in Seq(Split) /\ sum(amounts_of(T)) = sum(amounts_of(R)) - x
      BY <1>2, <2>6, SplitsRemove
    <2> HIDE DEF T, p
    <2>8. sum(amounts_of(T)) = sum(amounts_of(S)) + 0
      <3> DEFINE a == sum(amounts_of(S))   b == sum(amounts_of(R))   c == sum(amounts_of(T))
      <3>1. a \in Nat /\ x \in Nat /\ z \in Nat /\ b = a + s2 - z /\ c = b - x /\ s2 = z + x
        BY <1>1, <1>3, <2>2, <2>6, <2>7
      <3> HIDE DEF a, b, c, x, z
      <3>2. c = a + 0
        BY ONLY <3>1
      <3> QED BY <3>2 DEF a, c
    <2>9. shares' = [shares EXCEPT ![u] = y] /\ y \in Nat /\ 0 \in Int /\ totalShares' = totalShares + y + 0 - shares[u]
      BY <1>1, <2>4
    <2> HIDE DEF y
    <2>10. position_rewritten(u, y, p, T, 0)
      BY <1>4, <2>4, <2>7, <2>8, <2>9 DEF position_rewritten
    <2> QED BY <2>10, PositionWritten
  <1> QED BY <1>5, <1>6

LEMMA MergePositionsKeeps ==
    ASSUME PositionBooks, NEW u \in Users, NEW a, NEW b, merge_positions(u, a, b)
    PROVE  PositionBooks'
  <1> DEFINE k == Min({a, b})   r == Max({a, b})
  <1>1. shares_booked /\ now \in Nat /\ held \in Int /\ totalDeposited \in Nat /\ rewardPool \in Nat
    BY DEF PositionBooks, shares_booked
  <1>2. /\ held' = held /\ rewardPool' = rewardPool /\ merged(u, k, r) /\ exists(u, a) /\ exists(u, b) /\ a # b
        /\ heirs' = touch(u) /\ now' = now /\ totalShares' = totalShares /\ totalDeposited' = totalDeposited
        /\ receipt' = receipt
    BY DEF merge_positions
  <1>3. a \in Nat /\ b \in Nat
    <2>1. position.splits[u] \in Seq(Split)
      BY <1>1, AllOf
    <2>2. DOMAIN position.splits[u] \subseteq Nat
      BY <2>1
    <2> QED BY <1>2, <2>2 DEF exists
  <1>4. k \in Nat /\ r \in Nat /\ k < r /\ exists(u, k) /\ exists(u, r)
    <2>1. a \in Int /\ b \in Int
      BY <1>3
    <2>2. (k = a /\ r = b /\ a < b) \/ (k = b /\ r = a /\ b < a)
      BY <1>2, <2>1, MinMax
    <2> HIDE DEF k, r
    <2> QED BY <1>2, <1>3, <2>2
  <1> HIDE DEF k, r
  <1>5. pool_typed' /\ held' - totalDeposited' - rewardPool' = held - totalDeposited - rewardPool
    BY <1>1, <1>2 DEF pool_typed
  <1>6. /\ settled_in(u, position') /\ alone_in(u, shares', position')
        /\ totalShares' = totalShares + all_of(u, shares', position') - all_of(u, shares, position)
    BY <1>1, <1>2, <1>4, Merged
  <1>7. settled_move(u)
    BY <1>2, <1>5, <1>6 DEF settled_move
  <1> QED BY <1>7, SettledKeeps

\* A keeper closes a dust position, splits and all.
LEMMA CloseDustKeeps ==
    ASSUME PositionBooks, NEW u \in Users, NEW k, close_dust_position(k, u)
    PROVE  PositionBooks'
  <1> DEFINE n == all_of(u, shares, position)   a == shares_to_amount(totalShares, totalDeposited, n)
             p == accrue(u)   q == [p EXCEPT !.at[u] = NoLedger]   x == sum(amounts_of(position.splits[u]))
  <1>1. shares_booked /\ now \in Nat /\ held \in Int /\ totalDeposited \in Nat /\ rewardPool \in Nat
    BY DEF PositionBooks, shares_booked
  <1>2. n \in Nat /\ n <= totalShares /\ totalShares \in Nat /\ n = shares[u] + x /\ shares[u] \in Nat /\ x \in Nat
    BY <1>1, AllOf DEF all_of
  <1>3. a \in Nat /\ a <= totalDeposited
    BY <1>1, <1>2, PartRedeems
  <1>4. holding(u) = n
    BY DEF holding, all_of, amounts_of
  <1>5. /\ held' = held - a /\ totalShares' = totalShares - n /\ totalDeposited' = totalDeposited - a
        /\ shares' = [shares EXCEPT ![u] = 0] /\ now' = now /\ rewardPool' = rewardPool /\ heirs' = heirs /\ receipt' = receipt
    BY <1>4 DEF close_dust_position, shares_closed
  <1>6. settled_in(u, p) /\ p.splits = position.splits
    BY <1>1, AccrueSettles
  <1>7. position' = with_splits(q, u, <<>>)
    <2>1. position' = [accrue(u) EXCEPT !.at[u] = NoLedger, !.splits[u] = <<>>]
      BY DEF close_dust_position
    <2> QED BY <2>1 DEF with_splits
  <1> HIDE DEF p
  <1>8. settled_in(u, q) /\ q.splits = position.splits
    <2>1. NoLedger \in Int
      BY DEF NoLedger
    <2> QED BY <1>6, <2>1, AtRewritten
  <1> HIDE DEF q, a, n
  <1> DEFINE c == 0 - x
  <1>9. <<>> \in Seq(Split) /\ sum(amounts_of(<<>>)) = x + c /\ c \in Int
    BY <1>2, SplitsNone
  <1>10. totalShares' = totalShares + 0 + c - shares[u]
    <2> HIDE DEF x
    <2> QED BY <1>2, <1>5
  <1> HIDE DEF c
  <1>11. position_rewritten(u, 0, q, <<>>, c)
    BY <1>5, <1>7, <1>8, <1>9, <1>10 DEF position_rewritten
  <1>12. /\ settled_in(u, position') /\ alone_in(u, shares', position')
         /\ totalShares' = totalShares + all_of(u, shares', position') - all_of(u, shares, position)
    BY <1>1, <1>11, PositionWritten
  <1>13. pool_typed' /\ held' - totalDeposited' - rewardPool' = held - totalDeposited - rewardPool
    BY <1>1, <1>3, <1>5 DEF pool_typed
  <1>14. settled_move(u)
    BY <1>5, <1>12, <1>13 DEF settled_move
  <1> QED BY <1>14, SettledKeeps

\* Some shares of the primary position leave.
LEMMA UnstakeToKeeps ==
    ASSUME PositionBooks, NEW u \in Users, NEW n \in Nat, NEW v, unstake_to(u, n, v)
    PROVE  PositionBooks'
  <1> DEFINE a == shares_to_amount(totalShares, totalDeposited, n)   p == accrue(u)   m == shares[u] - n
             t == IF shares[u] = n THEN NoLedger ELSE p.at[u]
  <1>1. /\ shares_booked /\ now \in Nat /\ held \in Int /\ totalDeposited \in Nat /\ rewardPool \in Nat
        /\ position \in PositionBook
    BY DEF PositionBooks, shares_booked
  <1>2. shares[u] \in Nat /\ shares[u] <= totalShares /\ totalShares \in Nat /\ shares[u] >= n
    BY <1>1, AllOf DEF unstake_to
  <1>3. m \in Nat /\ n <= totalShares
    BY <1>2
  <1>4. a \in Nat /\ a <= totalDeposited
    BY <1>1, <1>3, PartRedeems
  <1>5. /\ held' = held - a /\ totalShares' = totalShares - n /\ totalDeposited' = totalDeposited - a
        /\ shares' = [shares EXCEPT ![u] = m] /\ now' = now /\ rewardPool' = rewardPool /\ heirs' = touch(u) /\ receipt' = receipt
    BY DEF unstake_to, push
  <1>6. position' = [p EXCEPT !.at[u] = t]
    BY DEF unstake_to
  <1>7. settled_in(u, p) /\ p.splits = position.splits /\ p.at = position.at
    BY <1>1, AccrueSettles
  <1>8. t \in Int
    BY <1>1, <1>7 DEF PositionBook, NoLedger
  <1>9. totalShares' = totalShares + m - shares[u]
    BY <1>2, <1>5
  <1> HIDE DEF a, p, t, m
  <1>10. settled_in(u, position') /\ position'.splits = position.splits
    BY <1>6, <1>7, <1>8, AtRewritten
  <1>11. alone_in(u, shares', position') /\ totalShares' = totalShares + all_of(u, shares', position') - all_of(u, shares, position)
    BY <1>1, <1>3, <1>5, <1>9, <1>10, PrimaryWritten
  <1>12. pool_typed' /\ held' - totalDeposited' - rewardPool' = held - totalDeposited - rewardPool
    BY <1>1, <1>4, <1>5 DEF pool_typed
  <1>13. settled_move(u)
    BY <1>5, <1>10, <1>11, <1>12 DEF settled_move
  <1> QED BY <1>13, SettledKeeps

\* The shares of u go, the reward since the checkpoint is given up, and what was settled is
\* paid or stays.
given_up(u) ==
    /\ position' \in PositionBook /\ shares' = [shares EXCEPT ![u] = 0]
    /\ position'.splits = position.splits /\ position'.earned = position.earned /\ position'.since = position.since
    /\ \A w \in Users \ {u} : position'.accrued[w] = position.accrued[w]
    /\ position'.paid + position'.accrued[u] = position.paid + position.accrued[u]
    /\ position'.forgone = position.forgone + shares[u] * (now - position.since[u])
    /\ totalShares' = totalShares + 0 - shares[u] /\ now' = now /\ pool_typed'

LEMMA GivenUp ==
    ASSUME shares_booked, rewards_booked, NEW u \in Users, given_up(u)
    PROVE  shares_booked' /\ rewards_booked'
  <1> USE DEF given_up
  <1> DEFINE s == shares'   p == position'
  <1>1. shares \in [Users -> Nat] /\ position \in PositionBook /\ now \in Nat
    BY DEF shares_booked
  <1>2. s \in [Users -> Nat] /\ s[u] = 0 /\ \A w \in Users \ {u} : s[w] = shares[w]
    BY <1>1
  <1>3. alone_in(u, shares', position') /\ totalShares' = totalShares + all_of(u, shares', position') - all_of(u, shares, position)
    BY PrimaryWritten
  <1>4. sum(held_by(s, p)) = totalShares'
    <2>1. /\ sum(held_by(s, p)) = totalShares + held_by(s, p)[u] - held_by(shares, position)[u]
          /\ held_by(s, p)[u] = all_of(u, s, p) /\ held_by(shares, position)[u] = all_of(u, shares, position)
      BY <1>2, OneHolds DEF all_of
    <2> QED BY <1>3, <2>1
  <1>5. p.paid + p.forgone + (p.accrued[u] + s[u] * (now - p.since[u]))
            = position.paid + position.forgone + (position.accrued[u] + shares[u] * (now - position.since[u]))
    <2> DEFINE x == shares[u] * (now - position.since[u])   y == position.accrued[u]
               a == p.paid   b == p.accrued[u]   c == p.forgone   d == position.paid   e == s[u] * (now - p.since[u])   f == position.forgone
    <2>1. position.since[u] \in Int /\ shares[u] \in Nat /\ p.since[u] \in Int
      BY <1>1 DEF PositionBook
    <2>2. x \in Int /\ e = 0
      BY <1>1, <1>2, <2>1
    <2>3. a \in Int /\ b \in Int /\ c \in Int /\ d \in Int /\ f \in Int /\ y \in Int
      BY <1>1 DEF PositionBook
    <2>4. a + b = d + y /\ c = f + x
      OBVIOUS
    <2> HIDE DEF x, y, a, b, c, d, e, f
    <2>5. a + c + (b + e) = d + f + (y + x)
      BY ONLY <2>2, <2>3, <2>4
    <2> QED BY <2>5 DEF x, y, a, b, c, d, e, f
  <1>6. p.earned = p.paid + p.forgone + sum(due_to(s, p, now))
    BY <1>2, <1>5, OneEarns
  <1>7. shares_booked'
    BY <1>1, <1>2, <1>4 DEF shares_booked, pool_typed
  <1> QED BY <1>6, <1>7 DEF rewards_booked

\* The fractions do not change.
LEMMA FractionsKept ==
    ASSUME receipts_booked, receipt' \in ReceiptBook, receipt'.total = receipt.total, receipt'.holders = receipt.holders,
           receipt'.bal = receipt.bal
    PROVE  receipts_booked'
  BY DEF receipts_booked

\* The receipt is redeemed: the settled reward is paid off no pool, the rest is given up.
LEMMA RedeemKeeps ==
    ASSUME PositionBooks, NEW u \in Users, burn_and_redeem(u)
    PROVE  PositionBooks'
  <1> DEFINE a == amount_of(u)   y == position.accrued[u]   x == unsettled(u)
             A == [position.accrued EXCEPT ![u] = 0]   c == position.paid + y   d == position.forgone + x
             e == receipt.unfunded + y
  <1>1. /\ shares_booked /\ rewards_booked /\ heirs_booked /\ receipts_booked /\ tokens_booked
        /\ held \in Int /\ totalDeposited \in Nat /\ rewardPool \in Nat /\ now \in Nat
        /\ position \in PositionBook /\ receipt \in ReceiptBook /\ shares \in [Users -> Nat]
    BY DEF PositionBooks, shares_booked, receipts_booked
  <1>2. shares[u] \in Nat /\ shares[u] <= totalShares /\ totalShares \in Nat
    BY <1>1, AllOf
  <1>3. a \in Nat /\ a <= totalDeposited
    BY <1>1, <1>2, PartRedeems DEF amount_of
  <1>4. /\ y \in Int /\ A \in [Users -> Int] /\ A[u] = 0 /\ (\A w \in Users \ {u} : A[w] = position.accrued[w])
        /\ position.paid \in Int /\ position.forgone \in Int /\ receipt.unfunded \in Int
    BY <1>1 DEF PositionBook, ReceiptBook
  <1>5. x \in Int /\ x = shares[u] * (now - position.since[u])
    <2>1. position.since[u] \in Int
      BY <1>1 DEF PositionBook
    <2> QED BY <1>1, <1>2, <2>1 DEF unsettled
  <1>6. /\ held' = held - (a + y) /\ totalDeposited' = totalDeposited - a /\ totalShares' = totalShares - shares[u]
        /\ shares' = [shares EXCEPT ![u] = 0] /\ now' = now /\ rewardPool' = rewardPool /\ heirs' = heirs
    BY DEF burn_and_redeem, push, without_position
  <1>7. position' = [position EXCEPT !.paid = c, !.accrued = A, !.forgone = d]
    BY <1>1 DEF burn_and_redeem, claimed_by, PositionBook
  <1>8. receipt' = [receipt EXCEPT !.unfunded = e]
    BY DEF burn_and_redeem
  <1> HIDE DEF a, x, A
  <1>9. c \in Int /\ d \in Int /\ e \in Int /\ c + 0 = c
    BY <1>4, <1>5
  <1>10. c = position.paid + position.accrued[u] /\ d = position.forgone + shares[u] * (now - position.since[u]) /\ e = receipt.unfunded + y
    BY <1>5
  <1> HIDE DEF c, d, e
  <1>11. /\ position' \in PositionBook /\ position'.splits = position.splits /\ position'.since = position.since
         /\ position'.earned = position.earned /\ position'.accrued = A /\ position'.paid = c /\ position'.forgone = d
    BY <1>1, <1>4, <1>7, <1>9 DEF PositionBook
  <1>12. position'.paid + position'.accrued[u] = position.paid + position.accrued[u]
    BY <1>4, <1>9, <1>10, <1>11
  <1>13. pool_typed'
    BY <1>1, <1>3, <1>4, <1>6 DEF pool_typed
  <1>14. shares_booked' /\ rewards_booked'
    <2>1. totalShares' = totalShares + 0 - shares[u]
      BY <1>2, <1>6
    <2>2. given_up(u)
      BY <1>4, <1>6, <1>10, <1>11, <1>12, <1>13, <2>1 DEF given_up
    <2> QED BY <1>1, <2>2, GivenUp
  <1>15. /\ receipt' \in ReceiptBook /\ receipt'.total = receipt.total /\ receipt'.holders = receipt.holders
         /\ receipt'.bal = receipt.bal /\ receipt'.written_off = receipt.written_off /\ receipt'.unfunded = e
    BY <1>1, <1>8, <1>9 DEF ReceiptBook
  <1>16. receipts_booked'
    BY <1>1, <1>15, FractionsKept
  <1>17. tokens_booked'
    <2> DEFINE f == receipt.written_off   g == receipt.unfunded
    <2>1. f \in Int /\ g \in Int /\ held = totalDeposited + rewardPool + f - g
      BY <1>1 DEF ReceiptBook, tokens_booked
    <2>2. e = g + y
      BY <1>10
    <2> HIDE DEF f, g, y
    <2>3. held' = totalDeposited' + rewardPool' + f - e
      BY <1>1, <1>3, <1>4, <1>6, <2>1, <2>2
    <2> QED BY <1>15, <2>3 DEF tokens_booked, f
  <1>18. heirs_booked'
    BY <1>1, <1>6 DEF heirs_booked
  <1> QED BY <1>14, <1>16, <1>17, <1>18 DEF PositionBooks

\* A scheduled exit writes the principal off and pays nobody.
LEMMA ScheduledExitKeeps ==
    ASSUME PositionBooks, NEW u \in Users, execute_scheduled_exit(u)
    PROVE  PositionBooks'
  <1> DEFINE a == IF shares[u] > 0 THEN amount_of(u) ELSE 0   x == unsettled(u)   d == position.forgone + x
             e == receipt.written_off + a   X == [receipt.exit EXCEPT ![u] = NoLedger]
  <1>1. /\ shares_booked /\ rewards_booked /\ heirs_booked /\ receipts_booked /\ tokens_booked
        /\ held \in Int /\ totalDeposited \in Nat /\ rewardPool \in Nat /\ now \in Nat
        /\ position \in PositionBook /\ receipt \in ReceiptBook /\ shares \in [Users -> Nat]
    BY DEF PositionBooks, shares_booked, receipts_booked
  <1>2. shares[u] \in Nat /\ shares[u] <= totalShares /\ totalShares \in Nat
    BY <1>1, AllOf
  <1>3. a \in Nat /\ a <= totalDeposited
    BY <1>1, <1>2, PartRedeems DEF amount_of
  <1>4. X \in [Users -> Int] /\ position.forgone \in Int /\ receipt.written_off \in Int
    BY <1>1 DEF PositionBook, ReceiptBook, NoLedger
  <1>5. x \in Int /\ x = shares[u] * (now - position.since[u])
    <2>1. position.since[u] \in Int
      BY <1>1 DEF PositionBook
    <2> QED BY <1>1, <1>2, <2>1 DEF unsettled
  <1>6. /\ totalDeposited' = totalDeposited - a /\ totalShares' = totalShares - shares[u] /\ shares' = [shares EXCEPT ![u] = 0]
        /\ held' = held /\ now' = now /\ rewardPool' = rewardPool /\ heirs' = heirs
    <2>1. CASE shares[u] > 0
      BY <2>1 DEF execute_scheduled_exit, without_position
    <2>2. CASE shares[u] = 0
      <3>1. UNCHANGED pool /\ held' = held /\ now' = now /\ rewardPool' = rewardPool /\ heirs' = heirs
        BY <2>2 DEF execute_scheduled_exit
      <3>2. a = 0 /\ shares = [shares EXCEPT ![u] = 0] /\ totalDeposited - a = totalDeposited /\ totalShares - shares[u] = totalShares
        BY <1>1, <1>2, <2>2
      <3> QED BY <3>1, <3>2 DEF pool
    <2> QED BY <1>2, <2>1, <2>2
  <1>7. position' = [position EXCEPT !.forgone = d]
    BY DEF execute_scheduled_exit
  <1>8. receipt' = [receipt EXCEPT !.exit = X, !.written_off = e]
    BY <1>1 DEF execute_scheduled_exit, ReceiptBook
  <1> HIDE DEF a, x, X
  <1>9. d \in Int /\ e \in Int
    BY <1>3, <1>4, <1>5
  <1>10. d = position.forgone + shares[u] * (now - position.since[u]) /\ e = receipt.written_off + a
    BY <1>5
  <1> HIDE DEF d, e
  <1>11. /\ position' \in PositionBook /\ position'.splits = position.splits /\ position'.since = position.since
         /\ position'.earned = position.earned /\ position'.accrued = position.accrued /\ position'.paid = position.paid
         /\ position'.forgone = d
    BY <1>1, <1>7, <1>9 DEF PositionBook
  <1>12. pool_typed'
    BY <1>1, <1>3, <1>6 DEF pool_typed
  <1>13. shares_booked' /\ rewards_booked'
    <2>1. totalShares' = totalShares + 0 - shares[u]
      BY <1>2, <1>6
    <2>2. given_up(u)
      BY <1>6, <1>10, <1>11, <1>12, <2>1 DEF given_up
    <2> QED BY <1>1, <2>2, GivenUp
  <1>14. /\ receipt' \in ReceiptBook /\ receipt'.total = receipt.total /\ receipt'.holders = receipt.holders
         /\ receipt'.bal = receipt.bal /\ receipt'.written_off = e /\ receipt'.unfunded = receipt.unfunded
    BY <1>1, <1>4, <1>8, <1>9 DEF ReceiptBook
  <1>15. receipts_booked'
    BY <1>1, <1>14, FractionsKept
  <1>16. tokens_booked'
    <2> DEFINE f == receipt.written_off   g == receipt.unfunded
    <2>1. f \in Int /\ g \in Int /\ held = totalDeposited + rewardPool + f - g
      BY <1>1 DEF ReceiptBook, tokens_booked
    <2>2. e = f + a
      BY <1>10
    <2> HIDE DEF f, g
    <2>3. held' = totalDeposited' + rewardPool' + e - g
      BY <1>1, <1>3, <1>6, <2>1, <2>2
    <2> QED BY <1>14, <2>3 DEF tokens_booked, g
  <1>17. heirs_booked'
    BY <1>1, <1>6 DEF heirs_booked
  <1> QED BY <1>13, <1>15, <1>16, <1>17 DEF PositionBooks

\* What u has coming.
coming_to(u, s, p) == p.accrued[u] + s[u] * (now - p.since[u])

\* Shares and splits go from x to y; what is written over of the rewards is booked as forgone.
handed_over(x, y) ==
    /\ x # y /\ position' \in PositionBook /\ shares' \in [Users -> Nat]
    /\ \A w \in Users : w # x /\ w # y =>
          /\ shares'[w] = shares[w] /\ position'.splits[w] = position.splits[w]
          /\ position'.accrued[w] = position.accrued[w] /\ position'.since[w] = position.since[w]
    /\ position'.earned = position.earned /\ position'.paid = position.paid
    /\ all_of(x, shares', position') + all_of(y, shares', position') = all_of(x, shares, position) + all_of(y, shares, position)
    /\ position'.forgone + coming_to(x, shares', position') + coming_to(y, shares', position')
           = position.forgone + coming_to(x, shares, position) + coming_to(y, shares, position)
    /\ totalShares' = totalShares /\ now' = now /\ pool_typed'

LEMMA HandedOver ==
    ASSUME shares_booked, rewards_booked, NEW x \in Users, NEW y \in Users, handed_over(x, y)
    PROVE  shares_booked' /\ rewards_booked'
  <1> DEFINE s == shares'   p == position'
             f == held_by(shares, position)   g == held_by(s, p)
             h == due_to(shares, position, now)   k == due_to(s, p, now)
  <1>1. /\ shares \in [Users -> Nat] /\ position \in PositionBook /\ now \in Nat /\ totalShares = sum(f)
        /\ position.earned = position.paid + position.forgone + sum(h)
    BY DEF shares_booked, rewards_booked
  <1>2. /\ x # y /\ p \in PositionBook /\ s \in [Users -> Nat]
        /\ (\A w \in Users : w # x /\ w # y =>
              /\ s[w] = shares[w] /\ p.splits[w] = position.splits[w]
              /\ p.accrued[w] = position.accrued[w] /\ p.since[w] = position.since[w])
        /\ p.earned = position.earned /\ p.paid = position.paid
        /\ totalShares' = totalShares /\ now' = now /\ pool_typed'
    BY DEF handed_over
  <1>3. /\ f \in [Users -> Int] /\ g \in [Users -> Int]
        /\ (\A w \in Users : f[w] = shares[w] + sum(amounts_of(position.splits[w])))
        /\ (\A w \in Users : g[w] = s[w] + sum(amounts_of(p.splits[w])))
    BY <1>1, <1>2, HeldTyped
  <1>4. /\ h \in [Users -> Int] /\ k \in [Users -> Int]
        /\ (\A w \in Users : h[w] = position.accrued[w] + shares[w] * (now - position.since[w]))
        /\ (\A w \in Users : k[w] = p.accrued[w] + s[w] * (now - p.since[w]))
    BY <1>1, <1>2, DueTyped
  <1>5. g[x] + g[y] = f[x] + f[y]
    BY <1>3 DEF handed_over, all_of
  <1>6. p.forgone + k[x] + k[y] = position.forgone + h[x] + h[y]
    BY <1>4 DEF handed_over, coming_to
  <1> HIDE DEF f, g, h, k
  <1>7. \A w \in Users : w # x /\ w # y => g[w] = f[w]
    BY <1>2, <1>3
  <1>8. \A w \in Users : w # x /\ w # y => k[w] = h[w]
    BY <1>2, <1>4
  <1>9. sum(g) = sum(f) + g[x] - f[x] + g[y] - f[y]
    <2>1. /\ IsFiniteSet(Users) /\ f \in [Users -> Int] /\ g \in [Users -> Int] /\ x # y
          /\ \A w \in Users : w # x /\ w # y => g[w] = f[w]
      BY <1>2, <1>3, <1>7, BaseAssumption
    <2> QED BY ONLY <2>1, x \in Users, y \in Users, TwoChange
  <1>10. sum(k) = sum(h) + k[x] - h[x] + k[y] - h[y]
    <2>1. /\ IsFiniteSet(Users) /\ h \in [Users -> Int] /\ k \in [Users -> Int] /\ x # y
          /\ \A w \in Users : w # x /\ w # y => k[w] = h[w]
      BY <1>2, <1>4, <1>8, BaseAssumption
    <2> QED BY ONLY <2>1, x \in Users, y \in Users, TwoChange
  <1>11. sum(f) \in Int /\ sum(h) \in Int
    BY <1>3, <1>4, BaseAssumption, SumType
  <1>12. sum(g) = totalShares'
    <2>1. g[x] \in Int /\ g[y] \in Int /\ f[x] \in Int /\ f[y] \in Int
      BY <1>3
    <2>2. sum(g) = sum(f)
      BY ONLY <1>5, <1>9, <1>11, <2>1
    <2> QED BY <1>1, <1>2, <2>2
  <1>13. p.earned = p.paid + p.forgone + sum(k)
    <2>1. k[x] \in Int /\ k[y] \in Int /\ h[x] \in Int /\ h[y] \in Int
      BY <1>4
    <2>2. p.forgone \in Int /\ position.forgone \in Int /\ position.paid \in Int
      BY <1>1, <1>2 DEF PositionBook
    <2>3. position.paid + position.forgone + sum(h) = position.paid + p.forgone + sum(k)
      BY ONLY <1>6, <1>10, <1>11, <2>1, <2>2
    <2> QED BY <1>1, <1>2, <2>3
  <1>14. shares_booked'
    BY <1>1, <1>2, <1>12 DEF shares_booked, pool_typed, g
  <1> QED BY <1>2, <1>13, <1>14 DEF rewards_booked, k

\* A handover moves no tokens.
LEMMA HandoverKeeps ==
    ASSUME PositionBooks, NEW x \in Users, NEW y \in Users, handed_over(x, y), heirs_booked',
           UNCHANGED <<held, totalDeposited, rewardPool, receipt>>
    PROVE  PositionBooks'
  <1>1. shares_booked' /\ rewards_booked'
    BY HandedOver DEF PositionBooks
  <1>2. receipts_booked' /\ tokens_booked'
    BY DEF PositionBooks, receipts_booked, tokens_booked
  <1> QED BY <1>1, <1>2 DEF PositionBooks

\* The primary position changes hands: whole to somebody with none.
LEMMA PrimaryMoves ==
    ASSUME shares_booked, NEW x \in Users, NEW y \in Users, shares[x] > 0, shares[y] = 0,
           shares' = [shares EXCEPT ![x] = 0, ![y] = shares[x]]
    PROVE  /\ x # y /\ shares' \in [Users -> Nat] /\ shares'[x] = 0 /\ shares'[y] = shares[x]
           /\ shares[x] \in Nat /\ \A w \in Users : w # x /\ w # y => shares'[w] = shares[w]
  <1>1. shares \in [Users -> Nat]
    BY DEF shares_booked
  <1>2. x # y /\ shares[x] \in Nat
    BY <1>1
  <1> QED BY <1>1, <1>2

\* The giver's rewards are settled and stay; the receiver's are set to zero.
LEMMA TransferKeeps ==
    ASSUME PositionBooks, NEW x \in Users, NEW y \in Users, transfer_position(x, y)
    PROVE  PositionBooks'
  <1> DEFINE p == accrue(x)   t == IF p.at[x] = NoLedger THEN now ELSE p.at[x]
             T == [[p.at EXCEPT ![y] = t] EXCEPT ![x] = NoLedger]   C == [p.since EXCEPT ![y] = now]
             A == [p.accrued EXCEPT ![y] = 0]   f == p.forgone + p.accrued[y]
  <1>1. /\ shares_booked /\ heirs_booked /\ position \in PositionBook /\ now \in Nat
        /\ held \in Int /\ totalDeposited \in Nat /\ rewardPool \in Nat
    BY DEF PositionBooks, shares_booked
  <1>2. /\ shares[x] > 0 /\ shares[y] = 0 /\ shares' = [shares EXCEPT ![x] = 0, ![y] = shares[x]]
        /\ UNCHANGED <<now, held, rewardPool, totalShares, totalDeposited, heirs, receipt>>
    BY DEF transfer_position
  <1>3. /\ x # y /\ shares' \in [Users -> Nat] /\ shares'[x] = 0 /\ shares'[y] = shares[x]
        /\ shares[x] \in Nat /\ \A w \in Users : w # x /\ w # y => shares'[w] = shares[w]
    BY <1>1, <1>2, PrimaryMoves
  <1>4. /\ p \in PositionBook /\ p.since[x] = now /\ p.accrued[x] = position.accrued[x] + shares[x] * (now - position.since[x])
        /\ (\A w \in Users \ {x} : p.accrued[w] = position.accrued[w] /\ p.since[w] = position.since[w])
        /\ p.splits = position.splits /\ p.at = position.at /\ p.earned = position.earned
        /\ p.paid = position.paid /\ p.forgone = position.forgone
    BY <1>1, Settled
  <1>5. position' = [p EXCEPT !.at[y] = t, !.at[x] = NoLedger, !.since[y] = now, !.forgone = f, !.accrued[y] = 0]
    BY DEF transfer_position, settled_for_transfer
  <1> HIDE DEF p
  <1>6. /\ T \in [Users -> Int] /\ C \in [Users -> Int] /\ A \in [Users -> Int] /\ f \in Int
        /\ C[y] = now /\ A[y] = 0 /\ \A w \in Users \ {y} : C[w] = p.since[w] /\ A[w] = p.accrued[w]
    <2>1. p.at \in [Users -> Int] /\ p.since \in [Users -> Int] /\ p.accrued \in [Users -> Int] /\ p.forgone \in Int
      BY <1>4 DEF PositionBook
    <2>2. t \in Int /\ NoLedger \in Int /\ now \in Int /\ 0 \in Int
      BY <1>1, <2>1 DEF NoLedger
    <2> HIDE DEF t
    <2>3. T \in [Users -> Int]
      BY <2>1, <2>2
    <2>4. C \in [Users -> Int] /\ C[y] = now /\ \A w \in Users \ {y} : C[w] = p.since[w]
      BY <2>1, <2>2
    <2>5. A \in [Users -> Int] /\ A[y] = 0 /\ \A w \in Users \ {y} : A[w] = p.accrued[w]
      BY <2>1, <2>2
    <2>6. f \in Int
      BY <2>1
    <2> HIDE DEF T, C, A, f
    <2> QED BY <2>3, <2>4, <2>5, <2>6
  <1>7. position' = [p EXCEPT !.at = T, !.since = C, !.forgone = f, !.accrued = A]
    BY <1>4, <1>5 DEF PositionBook
  <1>8. f = position.forgone + position.accrued[y]
    BY <1>3, <1>4
  <1> HIDE DEF T, C, A, f
  <1>9. /\ position' \in PositionBook /\ position'.splits = position.splits /\ position'.since = C /\ position'.accrued = A
        /\ position'.earned = position.earned /\ position'.paid = position.paid /\ position'.forgone = f
    BY <1>4, <1>6, <1>7 DEF PositionBook
  <1>10. all_of(x, shares', position') + all_of(y, shares', position') = all_of(x, shares, position) + all_of(y, shares, position)
    <2> DEFINE a == sum(amounts_of(position.splits[x]))   b == sum(amounts_of(position.splits[y]))   m == shares[x]
    <2>1. a \in Nat /\ b \in Nat /\ m \in Nat
      BY <1>1, <1>3, AllOf
    <2>2. /\ all_of(x, shares', position') = 0 + a /\ all_of(y, shares', position') = m + b
          /\ all_of(x, shares, position) = m + a /\ all_of(y, shares, position) = 0 + b
      BY <1>2, <1>3, <1>9 DEF all_of
    <2> HIDE DEF a, b, m
    <2>3. (0 + a) + (m + b) = (m + a) + (0 + b)
      BY ONLY <2>1
    <2> QED BY <2>2, <2>3
  <1>11. position'.forgone + coming_to(x, shares', position') + coming_to(y, shares', position')
             = position.forgone + coming_to(x, shares, position) + coming_to(y, shares, position)
    <2> DEFINE i == position.accrued[x]   j == shares[x] * (now - position.since[x])   k == position.accrued[y]   g == position.forgone
    <2>1. i \in Int /\ k \in Int /\ g \in Int /\ position.since[x] \in Int /\ position.since[y] \in Int
      BY <1>1 DEF PositionBook
    <2>2. j \in Int
      BY <1>1, <1>3, <2>1
    <2>3. coming_to(x, shares, position) = i + j
      BY DEF coming_to
    <2>4. coming_to(y, shares, position) = k
      <3>1. shares[y] * (now - position.since[y]) = 0
        BY <1>1, <1>2, <2>1
      <3> QED BY <2>1, <3>1 DEF coming_to
    <2>5. coming_to(x, shares', position') = i + j
      <3>1. position'.accrued[x] = i + j /\ position'.since[x] = now
        BY <1>3, <1>4, <1>6, <1>9
      <3>2. shares'[x] * (now - now) = 0
        BY <1>1, <1>3
      <3> HIDE DEF i, j
      <3> QED BY <2>1, <2>2, <3>1, <3>2 DEF coming_to
    <2>6. coming_to(y, shares', position') = 0
      <3>1. position'.accrued[y] = 0 /\ position'.since[y] = now
        BY <1>6, <1>9
      <3>2. shares'[y] * (now - now) = 0
        BY <1>1, <1>3
      <3> QED BY <3>1, <3>2 DEF coming_to
    <2>7. position'.forgone = g + k
      BY <1>8, <1>9
    <2> HIDE DEF i, j, k, g
    <2>8. (g + k) + (i + j) + 0 = g + (i + j) + k
      BY ONLY <2>1, <2>2
    <2> QED BY <2>3, <2>4, <2>5, <2>6, <2>7, <2>8 DEF g
  <1>12. pool_typed' /\ heirs_booked'
    BY <1>1, <1>2 DEF pool_typed, heirs_booked
  <1>13. \A w \in Users : w # x /\ w # y =>
            position'.accrued[w] = position.accrued[w] /\ position'.since[w] = position.since[w]
    BY <1>4, <1>6, <1>9
  <1>14. handed_over(x, y)
    BY <1>2, <1>3, <1>9, <1>10, <1>11, <1>12, <1>13 DEF handed_over
  <1> QED BY <1>2, <1>12, <1>14, HandoverKeeps

\* Reward and checkpoint go with the shares.
LEMMA MovedRewards ==
    ASSUME shares_booked, NEW x \in Users, NEW y \in Users, x # y
    PROVE  LET q == moved_with_rewards(x, y) IN
           /\ q \in PositionBook /\ q.splits = position.splits /\ q.earned = position.earned /\ q.paid = position.paid
           /\ q.forgone = position.forgone + position.accrued[y]
           /\ q.accrued[x] = 0 /\ q.accrued[y] = position.accrued[x] /\ q.since[x] = now /\ q.since[y] = position.since[x]
           /\ \A w \in Users : w # x /\ w # y => q.accrued[w] = position.accrued[w] /\ q.since[w] = position.since[w]
  <1> DEFINE q == moved_with_rewards(x, y)
             t == IF position.at[x] = NoLedger THEN now ELSE position.at[x]   a == position.accrued[x]   c == position.since[x]
             T == [[position.at EXCEPT ![y] = t] EXCEPT ![x] = NoLedger]
             C == [[position.since EXCEPT ![y] = c] EXCEPT ![x] = now]
             A == [[position.accrued EXCEPT ![y] = a] EXCEPT ![x] = 0]   f == position.forgone + position.accrued[y]
  <1>1. position \in PositionBook /\ now \in Nat
    BY DEF shares_booked
  <1>2. q = [position EXCEPT !.at = T, !.since = C, !.forgone = f, !.accrued = A]
    BY <1>1 DEF PositionBook, moved_with_rewards
  <1>3. /\ T \in [Users -> Int] /\ C \in [Users -> Int] /\ A \in [Users -> Int] /\ f \in Int
        /\ C[x] = now /\ C[y] = c /\ A[x] = 0 /\ A[y] = a
        /\ \A w \in Users : w # x /\ w # y => C[w] = position.since[w] /\ A[w] = position.accrued[w]
    <2>1. position.at \in [Users -> Int] /\ position.since \in [Users -> Int] /\ position.accrued \in [Users -> Int] /\ position.forgone \in Int
      BY <1>1 DEF PositionBook
    <2>2. t \in Int /\ NoLedger \in Int /\ now \in Int /\ 0 \in Int /\ a \in Int /\ c \in Int
      BY <1>1, <2>1 DEF NoLedger
    <2> HIDE DEF t, a, c
    <2>3. T \in [Users -> Int]
      BY <2>1, <2>2
    <2>4. C \in [Users -> Int] /\ C[x] = now /\ C[y] = c /\ \A w \in Users : w # x /\ w # y => C[w] = position.since[w]
      BY <2>1, <2>2
    <2>5. A \in [Users -> Int] /\ A[x] = 0 /\ A[y] = a /\ \A w \in Users : w # x /\ w # y => A[w] = position.accrued[w]
      BY <2>1, <2>2
    <2>6. f \in Int
      BY <2>1
    <2> HIDE DEF T, C, A, f
    <2> QED BY <2>3, <2>4, <2>5, <2>6
  <1>4. f = position.forgone + position.accrued[y]
    OBVIOUS
  <1> HIDE DEF q, T, C, A, f
  <1>5. /\ q \in PositionBook /\ q.splits = position.splits /\ q.since = C /\ q.accrued = A
        /\ q.earned = position.earned /\ q.paid = position.paid /\ q.forgone = f
    BY <1>1, <1>2, <1>3 DEF PositionBook
  <1>6. /\ q.forgone = position.forgone + position.accrued[y]
        /\ q.accrued[x] = 0 /\ q.accrued[y] = position.accrued[x] /\ q.since[x] = now /\ q.since[y] = position.since[x]
        /\ \A w \in Users : w # x /\ w # y => q.accrued[w] = position.accrued[w] /\ q.since[w] = position.since[w]
    BY <1>3, <1>4, <1>5
  <1> QED BY <1>5, <1>6 DEF q

\* A position with its rewards: what the giver had coming the receiver has coming, and what
\* the receiver had settled is gone.
LEMMA RewardsHanded ==
    ASSUME shares_booked, NEW x \in Users, NEW y \in Users, move_position_with_rewards(x, y),
           position'.accrued = moved_with_rewards(x, y).accrued, position'.since = moved_with_rewards(x, y).since,
           position'.forgone = moved_with_rewards(x, y).forgone
    PROVE  /\ position'.forgone + coming_to(x, shares', position') + coming_to(y, shares', position')
                 = position.forgone + coming_to(x, shares, position) + coming_to(y, shares, position)
           /\ \A w \in Users : w # x /\ w # y =>
                 position'.accrued[w] = position.accrued[w] /\ position'.since[w] = position.since[w]
  <1>1. shares[x] > 0 /\ shares[y] = 0 /\ shares' = [shares EXCEPT ![x] = 0, ![y] = shares[x]]
    BY DEF move_position_with_rewards
  <1>2. x # y /\ shares'[x] = 0 /\ shares'[y] = shares[x] /\ shares[x] \in Nat
    BY <1>1, PrimaryMoves
  <1>3. /\ position'.forgone = position.forgone + position.accrued[y]
        /\ position'.accrued[x] = 0 /\ position'.accrued[y] = position.accrued[x]
        /\ position'.since[x] = now /\ position'.since[y] = position.since[x]
        /\ \A w \in Users : w # x /\ w # y =>
              position'.accrued[w] = position.accrued[w] /\ position'.since[w] = position.since[w]
    BY <1>2, MovedRewards
  <1> DEFINE i == position.accrued[x]   j == shares[x] * (now - position.since[x])   k == position.accrued[y]   g == position.forgone
  <1>4. position \in PositionBook /\ now \in Nat
    BY DEF shares_booked
  <1>5. i \in Int /\ k \in Int /\ g \in Int /\ position.since[x] \in Int /\ position.since[y] \in Int
    BY <1>4 DEF PositionBook
  <1>6. j \in Int
    BY <1>2, <1>4, <1>5
  <1>7. coming_to(x, shares, position) = i + j
    BY DEF coming_to
  <1>8. coming_to(y, shares, position) = k
    <2>1. shares[y] * (now - position.since[y]) = 0
      BY <1>1, <1>4, <1>5
    <2> QED BY <1>5, <2>1 DEF coming_to
  <1>9. coming_to(y, shares', position') = i + j
    BY <1>2, <1>3 DEF coming_to
  <1>10. coming_to(x, shares', position') = 0
    <2>1. shares'[x] * (now - now) = 0
      BY <1>2, <1>4
    <2> QED BY <1>2, <1>3, <2>1 DEF coming_to
  <1>11. position'.forgone = g + k
    BY <1>3
  <1> HIDE DEF i, j, k, g
  <1>12. (g + k) + 0 + (i + j) = g + (i + j) + k
    BY ONLY <1>5, <1>6
  <1> QED BY <1>3, <1>7, <1>8, <1>9, <1>10, <1>11, <1>12 DEF g

LEMMA TransferWithRewardsKeeps ==
    ASSUME PositionBooks, NEW x \in Users, NEW y \in Users, transfer_position_with_rewards(x, y)
    PROVE  PositionBooks'
  <1> DEFINE q == moved_with_rewards(x, y)
  <1>1. /\ shares_booked /\ heirs_booked /\ now \in Nat /\ held \in Int /\ totalDeposited \in Nat /\ rewardPool \in Nat
    BY DEF PositionBooks, shares_booked
  <1>2. /\ move_position_with_rewards(x, y) /\ position' = q
        /\ UNCHANGED <<now, held, rewardPool, totalShares, totalDeposited, heirs, receipt>>
    BY DEF transfer_position_with_rewards
  <1>3. shares[x] > 0 /\ shares[y] = 0 /\ shares' = [shares EXCEPT ![x] = 0, ![y] = shares[x]]
    BY <1>2 DEF move_position_with_rewards
  <1>4. /\ x # y /\ shares' \in [Users -> Nat] /\ shares'[x] = 0 /\ shares'[y] = shares[x]
        /\ shares[x] \in Nat /\ \A w \in Users : w # x /\ w # y => shares'[w] = shares[w]
    BY <1>1, <1>3, PrimaryMoves
  <1>5. q \in PositionBook /\ q.splits = position.splits /\ q.earned = position.earned /\ q.paid = position.paid
    BY <1>1, <1>4, MovedRewards
  <1>6. /\ position'.forgone + coming_to(x, shares', position') + coming_to(y, shares', position')
              = position.forgone + coming_to(x, shares, position) + coming_to(y, shares, position)
        /\ \A w \in Users : w # x /\ w # y =>
              position'.accrued[w] = position.accrued[w] /\ position'.since[w] = position.since[w]
    BY <1>1, <1>2, RewardsHanded
  <1> HIDE DEF q
  <1>7. all_of(x, shares', position') + all_of(y, shares', position') = all_of(x, shares, position) + all_of(y, shares, position)
    <2> DEFINE a == sum(amounts_of(position.splits[x]))   b == sum(amounts_of(position.splits[y]))   m == shares[x]
    <2>1. a \in Nat /\ b \in Nat /\ m \in Nat
      BY <1>1, <1>4, AllOf
    <2>2. /\ all_of(x, shares', position') = 0 + a /\ all_of(y, shares', position') = m + b
          /\ all_of(x, shares, position) = m + a /\ all_of(y, shares, position) = 0 + b
      BY <1>2, <1>3, <1>4, <1>5 DEF all_of
    <2> HIDE DEF a, b, m
    <2>3. (0 + a) + (m + b) = (m + a) + (0 + b)
      BY ONLY <2>1
    <2> QED BY <2>2, <2>3
  <1>8. pool_typed' /\ heirs_booked'
    BY <1>1, <1>2 DEF pool_typed, heirs_booked
  <1>9. handed_over(x, y)
    BY <1>2, <1>4, <1>5, <1>6, <1>7, <1>8 DEF handed_over
  <1> QED BY <1>2, <1>8, <1>9, HandoverKeeps

\* The heir's record is used up, and the owner had been away for the period.
LEMMA RecordUsed ==
    ASSUME heirs_booked, now \in Nat, NEW u \in Users, heirs.rec[u] # NoHeir, now >= heirs.rec[u].last + heirs.rec[u].inactivity,
           heirs' = [heirs EXCEPT !.rec[u] = NoHeir, !.early = @ \/ now - heirs.acted[u] < heirs.rec[u].inactivity]
    PROVE  heirs_booked' /\ heirs.rec[u].heir \in Users
  <1> DEFINE r == heirs.rec[u]   R == [heirs.rec EXCEPT ![u] = NoHeir]   b == now - heirs.acted[u] < r.inactivity
  <1>1. /\ heirs \in HeirBook /\ heirs.rec \in [Users -> HeirRecord] /\ heirs.acted \in [Users -> Nat]
        /\ heirs.early = FALSE
        /\ \A w \in Users : heirs.rec[w] # NoHeir => heirs.rec[w].heir \in Users /\ heirs.acted[w] <= heirs.rec[w].last
    BY DEF heirs_booked, HeirBook
  <1>2. r.heir \in Users /\ heirs.acted[u] <= r.last /\ r \in HeirRecord /\ heirs.acted[u] \in Nat
    BY <1>1
  <1>3. b = FALSE
    <2>1. r.last \in Nat /\ r.inactivity \in Nat /\ now >= r.last + r.inactivity
      BY <1>2 DEF HeirRecord
    <2> QED BY <1>2, <2>1
  <1>4. NoHeir \in HeirRecord
    BY DEF HeirRecord, NoHeir
  <1>5. R \in [Users -> HeirRecord] /\ R[u] = NoHeir /\ \A w \in Users \ {u} : R[w] = heirs.rec[w]
    BY <1>1, <1>4
  <1>6. heirs' = [heirs EXCEPT !.rec = R, !.early = FALSE]
    <2>1. heirs' = [heirs EXCEPT !.rec = R, !.early = heirs.early \/ b]
      BY <1>1 DEF HeirBook
    <2> HIDE DEF b, R
    <2> QED BY <1>1, <1>3, <2>1
  <1> HIDE DEF R
  <1>7. heirs' \in HeirBook /\ heirs'.rec = R /\ heirs'.acted = heirs.acted /\ heirs'.early = FALSE
    BY <1>1, <1>5, <1>6 DEF HeirBook
  <1>8. \A w \in Users : R[w] # NoHeir => R[w].heir \in Users /\ heirs.acted[w] <= R[w].last
    BY <1>1, <1>5
  <1> QED BY <1>2, <1>7, <1>8 DEF heirs_booked

\* The heir takes the primary position with its rewards, and every split.
LEMMA InheritanceKeeps ==
    ASSUME PositionBooks, NEW x \in Users, claim_inheritance(x)
    PROVE  PositionBooks'
  <1> DEFINE y == heirs.rec[x].heir   q == moved_with_rewards(x, y)   S == position.splits[x]   R == position.splits[y]
             W == [[q.splits EXCEPT ![y] = R \o S] EXCEPT ![x] = <<>>]
  <1>1. /\ shares_booked /\ heirs_booked /\ now \in Nat /\ held \in Int /\ totalDeposited \in Nat /\ rewardPool \in Nat
    BY DEF PositionBooks, shares_booked
  <1>2. heirs_booked' /\ y \in Users
    <2>1. /\ heirs.rec[x] # NoHeir /\ now >= heirs.rec[x].last + heirs.rec[x].inactivity
          /\ heirs' = [heirs EXCEPT !.rec[x] = NoHeir, !.early = @ \/ now - heirs.acted[x] < heirs.rec[x].inactivity]
      BY DEF claim_inheritance
    <2> QED BY <1>1, <2>1, RecordUsed
  <1>3. /\ move_position_with_rewards(x, y)
        /\ UNCHANGED <<now, held, rewardPool, totalShares, totalDeposited, receipt>>
    BY DEF claim_inheritance
  <1>4. position' = [q EXCEPT !.splits[y] = q.splits[y] \o S, !.splits[x] = <<>>]
    BY DEF claim_inheritance
  <1>5. shares[x] > 0 /\ shares[y] = 0 /\ shares' = [shares EXCEPT ![x] = 0, ![y] = shares[x]]
    BY <1>3 DEF move_position_with_rewards
  <1>6. S \in Seq(Split) /\ sum(amounts_of(S)) \in Nat
    BY <1>1, AllOf
  <1>7. R \in Seq(Split) /\ sum(amounts_of(R)) \in Nat
    BY <1>1, <1>2, AllOf
  <1> HIDE DEF y
  <1>8. /\ x # y /\ shares' \in [Users -> Nat] /\ shares'[x] = 0 /\ shares'[y] = shares[x]
        /\ shares[x] \in Nat /\ \A w \in Users : w # x /\ w # y => shares'[w] = shares[w]
    BY <1>1, <1>2, <1>5, PrimaryMoves
  <1>9. q \in PositionBook /\ q.splits = position.splits /\ q.earned = position.earned /\ q.paid = position.paid
    BY <1>1, <1>2, <1>8, MovedRewards
  <1> HIDE DEF q
  <1>10. R \o S \in Seq(Split) /\ sum(amounts_of(R \o S)) = sum(amounts_of(R)) + sum(amounts_of(S))
    BY <1>6, <1>7, SplitsConcat
  <1>11. position' = [q EXCEPT !.splits = W]
    BY <1>2, <1>4, <1>8, <1>9 DEF PositionBook
  <1>12. /\ W \in [Users -> Seq(Split)] /\ W[x] = <<>> /\ W[y] = R \o S
         /\ \A w \in Users : w # x /\ w # y => W[w] = position.splits[w]
    <2> DEFINE Z == R \o S
    <2>1. q.splits \in [Users -> Seq(Split)] /\ Z \in Seq(Split) /\ <<>> \in Seq(Split)
      BY <1>9, <1>10, SplitsNone DEF PositionBook
    <2> HIDE DEF Z, S, R
    <2>2. W = [[q.splits EXCEPT ![y] = Z] EXCEPT ![x] = <<>>]
      BY DEF Z
    <2> HIDE DEF W
    <2>3. /\ W \in [Users -> Seq(Split)] /\ W[x] = <<>> /\ W[y] = Z
          /\ \A w \in Users : w # x /\ w # y => W[w] = q.splits[w]
      BY <1>2, <1>8, <2>1, <2>2
    <2> QED BY <1>9, <2>3 DEF Z
  <1> HIDE DEF W
  <1>13. /\ position' \in PositionBook /\ position'.splits = W /\ position'.since = q.since /\ position'.accrued = q.accrued
         /\ position'.earned = position.earned /\ position'.paid = position.paid /\ position'.forgone = q.forgone
    BY <1>9, <1>11, <1>12 DEF PositionBook
  <1>14. /\ position'.forgone + coming_to(x, shares', position') + coming_to(y, shares', position')
              = position.forgone + coming_to(x, shares, position) + coming_to(y, shares, position)
         /\ \A w \in Users : w # x /\ w # y =>
              position'.accrued[w] = position.accrued[w] /\ position'.since[w] = position.since[w]
    BY <1>1, <1>2, <1>3, <1>13, RewardsHanded DEF q
  <1>15. all_of(x, shares', position') + all_of(y, shares', position') = all_of(x, shares, position) + all_of(y, shares, position)
    <2> DEFINE a == sum(amounts_of(S))   b == sum(amounts_of(R))   c == sum(amounts_of(R \o S))   m == shares[x]
    <2>1. a \in Nat /\ b \in Nat /\ m \in Nat /\ c = b + a
      BY <1>6, <1>7, <1>8, <1>10
    <2>2. /\ all_of(x, shares', position') = 0 + 0 /\ all_of(y, shares', position') = m + c
          /\ all_of(x, shares, position) = m + a /\ all_of(y, shares, position) = 0 + b
      BY <1>5, <1>8, <1>12, <1>13, SplitsNone DEF all_of
    <2> HIDE DEF a, b, c, m
    <2>3. (0 + 0) + (m + c) = (m + a) + (0 + b)
      BY ONLY <2>1
    <2> QED BY <2>2, <2>3
  <1>16. pool_typed'
    BY <1>1, <1>3 DEF pool_typed
  <1>17. handed_over(x, y)
    BY <1>3, <1>8, <1>12, <1>13, <1>14, <1>15, <1>16 DEF handed_over
  <1> QED BY <1>2, <1>3, <1>17, HandoverKeeps

\* Steps that touch neither shares, positions nor tokens.
LEMMA PositionQuiet ==
    ASSUME PositionBooks, UNCHANGED <<base_vars, position>>, heirs_booked', receipts_booked',
           receipt'.written_off = receipt.written_off, receipt'.unfunded = receipt.unfunded
    PROVE  PositionBooks'
  BY DEF PositionBooks, shares_booked, rewards_booked, tokens_booked, base_vars, pool

\* An heir is named or forgotten.
LEMMA HeirNamed ==
    ASSUME PositionBooks, NEW u \in Users, NEW v \in Users, NEW d \in Nat, set_beneficiary(u, v, d)
    PROVE  PositionBooks'
  <1> DEFINE e == [heir |-> v, inactivity |-> d, last |-> now]   R == [heirs.rec EXCEPT ![u] = e]   A == [heirs.acted EXCEPT ![u] = now]
  <1>1. /\ heirs \in HeirBook /\ heirs.rec \in [Users -> HeirRecord] /\ heirs.acted \in [Users -> Nat] /\ heirs.early = FALSE
        /\ \A w \in Users : heirs.rec[w] # NoHeir => heirs.rec[w].heir \in Users /\ heirs.acted[w] <= heirs.rec[w].last
    BY DEF PositionBooks, heirs_booked, HeirBook
  <1>2. now \in Nat /\ receipts_booked
    BY DEF PositionBooks, shares_booked
  <1>3. e \in HeirRecord /\ e.heir = v /\ e.last = now
    BY <1>2 DEF HeirRecord
  <1>4. heirs' = [heirs EXCEPT !.rec = R, !.acted = A] /\ UNCHANGED <<base_vars, position, receipt>>
    BY <1>1 DEF set_beneficiary, HeirBook
  <1> HIDE DEF e
  <1>5. /\ R \in [Users -> HeirRecord] /\ R[u] = e /\ (\A w \in Users \ {u} : R[w] = heirs.rec[w])
        /\ A \in [Users -> Nat] /\ A[u] = now /\ (\A w \in Users \ {u} : A[w] = heirs.acted[w])
    BY <1>1, <1>2, <1>3
  <1> HIDE DEF R, A
  <1>6. heirs' \in HeirBook /\ heirs'.rec = R /\ heirs'.acted = A /\ heirs'.early = FALSE
    BY <1>1, <1>4, <1>5 DEF HeirBook
  <1>7. \A w \in Users : R[w] # NoHeir => R[w].heir \in Users /\ A[w] <= R[w].last
    <2> SUFFICES ASSUME NEW w \in Users, R[w] # NoHeir PROVE R[w].heir \in Users /\ A[w] <= R[w].last
      OBVIOUS
    <2>1. CASE w = u
      BY <1>2, <1>3, <1>5, <2>1
    <2>2. CASE w # u
      BY <1>1, <1>5, <2>2
    <2> QED BY <2>1, <2>2
  <1>8. heirs_booked'
    BY <1>6, <1>7 DEF heirs_booked
  <1>9. receipts_booked'
    BY <1>2, <1>4 DEF receipts_booked
  <1> QED BY <1>4, <1>8, <1>9, PositionQuiet

LEMMA HeirCleared ==
    ASSUME PositionBooks, NEW u \in Users, clear_beneficiary(u)
    PROVE  PositionBooks'
  <1> DEFINE R == [heirs.rec EXCEPT ![u] = NoHeir]
  <1>1. /\ heirs \in HeirBook /\ heirs.rec \in [Users -> HeirRecord] /\ heirs.early = FALSE
        /\ \A w \in Users : heirs.rec[w] # NoHeir => heirs.rec[w].heir \in Users /\ heirs.acted[w] <= heirs.rec[w].last
    BY DEF PositionBooks, heirs_booked, HeirBook
  <1>2. heirs' = [heirs EXCEPT !.rec = R] /\ UNCHANGED <<base_vars, position, receipt>>
    BY <1>1 DEF clear_beneficiary, HeirBook
  <1>3. NoHeir \in HeirRecord
    BY DEF HeirRecord, NoHeir
  <1>4. R \in [Users -> HeirRecord] /\ R[u] = NoHeir /\ \A w \in Users \ {u} : R[w] = heirs.rec[w]
    BY <1>1, <1>3
  <1> HIDE DEF R
  <1>5. heirs' \in HeirBook /\ heirs'.rec = R /\ heirs'.acted = heirs.acted /\ heirs'.early = FALSE
    BY <1>1, <1>2, <1>4 DEF HeirBook
  <1>6. \A w \in Users : R[w] # NoHeir => R[w].heir \in Users /\ heirs.acted[w] <= R[w].last
    BY <1>1, <1>4
  <1>7. heirs_booked'
    BY <1>5, <1>6 DEF heirs_booked
  <1>8. receipts_booked'
    BY <1>2 DEF PositionBooks, receipts_booked
  <1> QED BY <1>2, <1>7, <1>8, PositionQuiet

\* One receipt is rewritten, and is whole.
receipt_written(u, n, H, b) ==
    /\ n \in Nat /\ H \in Seq(Users) /\ b \in [Users -> Nat] /\ sum(b) = n
    /\ \A h \in Users : b[h] > 0 => Contains(H, h)
    /\ receipt' \in ReceiptBook
    /\ receipt'.total[u] = n /\ receipt'.holders[u] = H /\ receipt'.bal[u] = b
    /\ \A w \in Users \ {u} : /\ receipt'.total[w] = receipt.total[w] /\ receipt'.holders[w] = receipt.holders[w]
                              /\ receipt'.bal[w] = receipt.bal[w]
    /\ receipt'.written_off = receipt.written_off /\ receipt'.unfunded = receipt.unfunded

LEMMA ReceiptWritten ==
    ASSUME PositionBooks, NEW u \in Users, NEW n, NEW H, NEW b, receipt_written(u, n, H, b),
           UNCHANGED <<base_vars, position, heirs>>
    PROVE  PositionBooks'
  <1>1. receipts_booked /\ heirs_booked'
    BY DEF PositionBooks, heirs_booked
  <1>2. ASSUME NEW w \in Users
        PROVE  /\ sum(receipt'.bal[w]) = receipt'.total[w]
               /\ \A h \in Users : receipt'.bal[w][h] > 0 => Contains(receipt'.holders[w], h)
    <2>1. CASE w = u
      BY <2>1 DEF receipt_written
    <2>2. CASE w # u
      BY <1>1, <2>2 DEF receipt_written, receipts_booked
    <2> QED BY <2>1, <2>2
  <1>3. receipts_booked'
    BY <1>2 DEF receipts_booked, receipt_written
  <1> QED BY <1>1, <1>3, PositionQuiet DEF receipt_written

\* A receipt as it is: whole, and its balances within the total.
LEMMA ReceiptWhole ==
    ASSUME receipts_booked, NEW u \in Users
    PROVE  /\ receipt.total[u] \in Nat /\ receipt.holders[u] \in Seq(Users) /\ receipt.bal[u] \in [Users -> Nat]
           /\ sum(receipt.bal[u]) = receipt.total[u]
           /\ \A h \in Users : /\ receipt.bal[u][h] > 0 => Contains(receipt.holders[u], h)
                               /\ receipt.bal[u][h] \in Nat /\ receipt.bal[u][h] <= receipt.total[u]
  <1> DEFINE b == receipt.bal[u]
  <1>1. /\ receipt.total[u] \in Nat /\ receipt.holders[u] \in Seq(Users) /\ b \in [Users -> Nat] /\ sum(b) = receipt.total[u]
        /\ \A h \in Users : b[h] > 0 => Contains(receipt.holders[u], h)
    BY DEF receipts_booked, ReceiptBook
  <1> HIDE DEF b
  <1>2. \A h \in Users : b[h] \in Nat /\ b[h] <= sum(b)
    BY <1>1, BaseAssumption, SumBound
  <1> QED BY <1>1, <1>2 DEF b

\* The fields of a rewritten receipt.
LEMMA ReceiptFields ==
    ASSUME receipt \in ReceiptBook, NEW u \in Users, NEW n \in Nat, NEW H \in Seq(Users), NEW b \in [Users -> Nat],
           sum(b) = n, \A h \in Users : b[h] > 0 => Contains(H, h),
           receipt' = [receipt EXCEPT !.total[u] = n, !.holders[u] = H, !.bal[u] = b]
    PROVE  receipt_written(u, n, H, b)
  <1> DEFINE T == [receipt.total EXCEPT ![u] = n]   S == [receipt.holders EXCEPT ![u] = H]   B == [receipt.bal EXCEPT ![u] = b]
  <1>1. receipt' = [receipt EXCEPT !.total = T, !.holders = S, !.bal = B]
    BY DEF ReceiptBook
  <1>2. /\ receipt.total \in [Users -> Nat] /\ receipt.holders \in [Users -> Seq(Users)] /\ receipt.bal \in [Users -> [Users -> Nat]]
    BY DEF ReceiptBook
  <1>3. T \in [Users -> Nat] /\ T[u] = n /\ \A w \in Users \ {u} : T[w] = receipt.total[w]
    BY <1>2
  <1>4. S \in [Users -> Seq(Users)] /\ S[u] = H /\ \A w \in Users \ {u} : S[w] = receipt.holders[w]
    BY <1>2
  <1>5. B \in [Users -> [Users -> Nat]] /\ B[u] = b /\ \A w \in Users \ {u} : B[w] = receipt.bal[w]
    BY <1>2
  <1> HIDE DEF T, S, B
  <1>6. /\ receipt' \in ReceiptBook /\ receipt'.total = T /\ receipt'.holders = S /\ receipt'.bal = B
        /\ receipt'.written_off = receipt.written_off /\ receipt'.unfunded = receipt.unfunded
    BY <1>1, <1>3, <1>4, <1>5 DEF ReceiptBook
  <1> QED BY <1>3, <1>4, <1>5, <1>6 DEF receipt_written

\* A receipt is cut into fractions, all the owner's.
LEMMA FractionalizeKeeps ==
    ASSUME PositionBooks, NEW u \in Users, NEW n \in Nat, fractionalize_nft(u, n)
    PROVE  PositionBooks'
  <1> DEFINE c == receipt.bal[u]   b == [c EXCEPT ![u] = n]   H == <<u>>
  <1>1. receipts_booked /\ receipt \in ReceiptBook
    BY DEF PositionBooks, receipts_booked
  <1>2. /\ receipt.total[u] \in Nat /\ c \in [Users -> Nat] /\ sum(c) = receipt.total[u]
        /\ \A h \in Users : c[h] \in Nat /\ c[h] <= receipt.total[u]
    BY <1>1, ReceiptWhole
  <1>3. receipt.total[u] = 0
    BY <1>2 DEF fractionalize_nft, is_position_locked
  <1>4. receipt' = [receipt EXCEPT !.total[u] = n, !.holders[u] = H, !.bal[u] = b] /\ UNCHANGED <<base_vars, position, heirs>>
    BY DEF fractionalize_nft
  <1>5. \A h \in Users : c[h] = 0
    BY <1>2, <1>3
  <1> HIDE DEF c
  <1>6. b \in [Users -> Nat] /\ b[u] = n /\ \A h \in Users \ {u} : b[h] = c[h]
    BY <1>2
  <1> HIDE DEF b
  <1>7. sum(b) = n
    <2>1. IsFiniteSet(Users) /\ c \in [Users -> Int] /\ b \in [Users -> Int] /\ \A h \in Users \ {u} : b[h] = c[h]
      BY <1>2, <1>6, BaseAssumption
    <2>2. sum(b) = sum(c) + b[u] - c[u]
      BY ONLY <2>1, u \in Users, SumChange
    <2> QED BY <1>2, <1>3, <1>5, <1>6, <2>2
  <1>8. H \in Seq(Users) /\ \A h \in Users : b[h] > 0 => Contains(H, h)
    <2>1. H \in Seq(Users) /\ Len(H) = 1 /\ H[1] = u
      OBVIOUS
    <2>2. \A h \in Users : b[h] > 0 => h = u
      BY <1>5, <1>6
    <2> HIDE DEF H
    <2> QED BY <2>1, <2>2 DEF Contains
  <1> HIDE DEF H
  <1>9. receipt_written(u, n, H, b)
    BY <1>1, <1>4, <1>6, <1>7, <1>8, ReceiptFields
  <1> QED BY <1>4, <1>9, ReceiptWritten

\* Fractions moved from one balance to another, the same one perhaps, add up as before.
LEMMA FractionsMoved ==
    ASSUME NEW c \in [Users -> Nat], NEW u \in Users, NEW v \in Users, NEW n \in Nat, c[u] >= n
    PROVE  /\ fractions_moved(c, u, v, n) \in [Users -> Nat] /\ sum(fractions_moved(c, u, v, n)) = sum(c)
           /\ \A h \in Users : fractions_moved(c, u, v, n)[h] > 0 => c[h] > 0 \/ h = v
  <1> DEFINE m == c[u] - n   r == [c EXCEPT ![u] = m]   k == r[v] + n   b == [r EXCEPT ![v] = k]
  <1>1. m \in Nat
    OBVIOUS
  <1>2. fractions_moved(c, u, v, n) = b
    BY DEF fractions_moved
  <1>3. m = c[u] - n /\ c[u] \in Nat
    OBVIOUS
  <1> HIDE DEF m
  <1>4. r \in [Users -> Nat] /\ r[u] = m /\ \A h \in Users \ {u} : r[h] = c[h]
    BY <1>1
  <1> HIDE DEF r
  <1>5. k \in Nat /\ r[v] \in Nat
    BY <1>4
  <1>6. k = r[v] + n
    OBVIOUS
  <1> HIDE DEF k
  <1>7. b \in [Users -> Nat] /\ b[v] = k /\ \A h \in Users \ {v} : b[h] = r[h]
    BY <1>4, <1>5
  <1> HIDE DEF b
  <1>8. sum(r) = sum(c) + r[u] - c[u]
    <2>1. IsFiniteSet(Users) /\ c \in [Users -> Int] /\ r \in [Users -> Int] /\ \A h \in Users \ {u} : r[h] = c[h]
      BY <1>4, BaseAssumption
    <2> QED BY ONLY <2>1, u \in Users, SumChange
  <1>9. sum(b) = sum(r) + b[v] - r[v]
    <2>1. IsFiniteSet(Users) /\ r \in [Users -> Int] /\ b \in [Users -> Int] /\ \A h \in Users \ {v} : b[h] = r[h]
      BY <1>4, <1>7, BaseAssumption
    <2> QED BY ONLY <2>1, v \in Users, SumChange
  <1>10. sum(c) \in Nat
    BY BaseAssumption, SumNat
  <1>11. sum(b) = sum(c)
    BY ONLY <1>1, <1>3, <1>4, <1>5, <1>6, <1>7, <1>8, <1>9, <1>10, n \in Nat
  <1>12. \A h \in Users : b[h] > 0 => c[h] > 0 \/ h = v
    <2> SUFFICES ASSUME NEW h \in Users, b[h] > 0, h # v PROVE c[h] > 0
      OBVIOUS
    <2>1. r[h] > 0
      BY <1>7
    <2>2. CASE h = u
      BY <1>1, <1>3, <1>4, <2>1, <2>2
    <2>3. CASE h # u
      BY <1>4, <2>1, <2>3
    <2> QED BY <2>2, <2>3
  <1> QED BY <1>2, <1>7, <1>11, <1>12

\* The owner sends fractions; the recipient is listed.
LEMMA TransferFractionsKeeps ==
    ASSUME PositionBooks, NEW u \in Users, NEW v \in Users, NEW n \in Nat, transfer_fractions(u, v, n)
    PROVE  PositionBooks'
  <1> DEFINE c == receipt.bal[u]   b == fractions_moved(c, u, v, n)   G == receipt.holders[u]   t == receipt.total[u]
             H == IF Contains(G, v) THEN G ELSE Append(G, v)
  <1>1. receipts_booked /\ receipt \in ReceiptBook
    BY DEF PositionBooks, receipts_booked
  <1>2. t \in Nat /\ G \in Seq(Users) /\ c \in [Users -> Nat] /\ sum(c) = t /\ \A h \in Users : c[h] > 0 => Contains(G, h)
    BY <1>1, ReceiptWhole
  <1>3. c[u] >= n /\ UNCHANGED <<base_vars, position, heirs>>
    BY DEF transfer_fractions
  <1>4. receipt' = [receipt EXCEPT !.total[u] = t, !.holders[u] = H, !.bal[u] = b]
    <2>1. receipt' = [receipt EXCEPT !.bal[u] = b, !.holders[u] = H]
      BY DEF transfer_fractions
    <2> DEFINE S == [receipt.holders EXCEPT ![u] = H]   B == [receipt.bal EXCEPT ![u] = b]   T == [receipt.total EXCEPT ![u] = t]
    <2>2. T = receipt.total
      BY <1>1 DEF ReceiptBook
    <2> HIDE DEF b, H
    <2>3. receipt' = [receipt EXCEPT !.total = receipt.total, !.bal = B, !.holders = S]
      BY <1>1, <2>1 DEF ReceiptBook
    <2> HIDE DEF t, S, B, T
    <2>4. receipt' = [receipt EXCEPT !.total = T, !.bal = B, !.holders = S]
      BY <2>2, <2>3
    <2> QED BY <1>1, <2>4 DEF ReceiptBook, T, B, S
  <1> HIDE DEF c, G, t
  <1>5. b \in [Users -> Nat] /\ sum(b) = t /\ \A h \in Users : b[h] > 0 => c[h] > 0 \/ h = v
    BY <1>2, <1>3, FractionsMoved
  <1> HIDE DEF b
  <1>6. H \in Seq(Users) /\ \A h \in Users : Contains(G, h) \/ h = v => Contains(H, h)
    <2>1. CASE Contains(G, v)
      BY <1>2, <2>1
    <2>2. CASE ~Contains(G, v)
      <3>1. H = Append(G, v)
        BY <2>2
      <3> HIDE DEF H
      <3>2. /\ H \in Seq(Users) /\ Len(H) = Len(G) + 1 /\ Len(G) \in Nat /\ H[Len(G) + 1] = v
            /\ \A i \in 1..Len(G) : H[i] = G[i]
        BY <1>2, <3>1, AppendProperties, LenProperties
      <3>3. \A i \in 1..Len(G) : i \in 1..Len(H)
        BY <3>2
      <3>4. Len(G) + 1 \in 1..Len(H)
        BY <3>2
      <3> QED BY <3>2, <3>3, <3>4 DEF Contains
    <2> QED BY <2>1, <2>2
  <1> HIDE DEF H
  <1>7. \A h \in Users : b[h] > 0 => Contains(H, h)
    BY <1>2, <1>5, <1>6
  <1>8. receipt_written(u, t, H, b)
    BY <1>1, <1>2, <1>4, <1>5, <1>6, <1>7, ReceiptFields
  <1> QED BY <1>3, <1>8, ReceiptWritten

\* All fractions are back with the owner, and the receipt is one again.
LEMMA ReconstructKeeps ==
    ASSUME PositionBooks, NEW u \in Users, reconstruct_nft(u)
    PROVE  PositionBooks'
  <1> DEFINE c == receipt.bal[u]   G == receipt.holders[u]   b == [h \in Users |-> IF Contains(G, h) THEN 0 ELSE c[h]]
  <1>1. receipts_booked /\ receipt \in ReceiptBook
    BY DEF PositionBooks, receipts_booked
  <1>2. c \in [Users -> Nat] /\ \A h \in Users : c[h] > 0 => Contains(G, h)
    BY <1>1, ReceiptWhole
  <1>3. receipt' = [receipt EXCEPT !.total[u] = 0, !.holders[u] = <<>>, !.bal[u] = b] /\ UNCHANGED <<base_vars, position, heirs>>
    BY DEF reconstruct_nft
  <1> HIDE DEF c, G
  <1>4. b \in [Users -> Nat] /\ \A h \in Users : b[h] = 0
    BY <1>2
  <1> HIDE DEF b
  <1>5. sum(b) = 0
    <2>1. IsFiniteSet(Users) /\ b \in [Users -> Int] /\ \A h \in Users : b[h] = 0
      BY <1>4, BaseAssumption
    <2> QED BY ONLY <2>1, SumZero
  <1> DEFINE H == <<>>
  <1>6. H \in Seq(Users) /\ 0 \in Nat /\ \A h \in Users : b[h] > 0 => Contains(H, h)
    BY <1>4
  <1>7. receipt' = [receipt EXCEPT !.total[u] = 0, !.holders[u] = H, !.bal[u] = b]
    BY <1>3
  <1> HIDE DEF H
  <1>8. receipt_written(u, 0, H, b)
    BY <1>1, <1>4, <1>5, <1>6, <1>7, ReceiptFields
  <1> QED BY <1>3, <1>8, ReceiptWritten

\* An exit is scheduled or called off.
LEMMA ExitScheduled ==
    ASSUME PositionBooks, NEW u \in Users, NEW t \in Int, receipt' = [receipt EXCEPT !.exit[u] = t],
           UNCHANGED <<base_vars, position, heirs>>
    PROVE  PositionBooks'
  <1> DEFINE X == [receipt.exit EXCEPT ![u] = t]
  <1>1. receipts_booked /\ receipt \in ReceiptBook /\ heirs_booked'
    BY DEF PositionBooks, receipts_booked, heirs_booked
  <1>2. X \in [Users -> Int] /\ receipt' = [receipt EXCEPT !.exit = X]
    BY <1>1 DEF ReceiptBook
  <1> HIDE DEF X
  <1>3. /\ receipt' \in ReceiptBook /\ receipt'.total = receipt.total /\ receipt'.holders = receipt.holders
        /\ receipt'.bal = receipt.bal /\ receipt'.written_off = receipt.written_off /\ receipt'.unfunded = receipt.unfunded
    BY <1>1, <1>2 DEF ReceiptBook
  <1>4. receipts_booked'
    BY <1>1, <1>3, FractionsKept
  <1> QED BY <1>1, <1>3, <1>4, PositionQuiet

\* The books are in order at the start.
LEMMA PositionBooksInit == ASSUME FundsInit PROVE PositionBooks
  <1> DEFINE S == [u \in Users |-> <<>>]   A == [u \in Users |-> IF shares[u] > 0 THEN 0 ELSE NoLedger]
             Z == [u \in Users |-> 0]      R == [u \in Users |-> NoHeir]
             B == [u \in Users |-> [h \in Users |-> 0]]   X == [u \in Users |-> NoLedger]
  <1>1. BaseInitWith(Purse) /\ Purse \in Nat /\ SplitInit /\ HeirInit /\ ReceiptInit
    BY BaseAssumption DEF FundsInit, BaseInit, PositionInit
  <1>2. /\ now = 0 /\ shares \in [Users -> Nat] /\ totalShares = sum(shares) /\ totalDeposited \in Nat
        /\ rewardPool \in Nat /\ held = totalDeposited + rewardPool
    BY <1>1, BaseInitFacts
  <1>3. S \in [Users -> Seq(Split)] /\ \A u \in Users : S[u] = <<>>
    BY SplitsNone
  <1>4. /\ A \in [Users -> Int] /\ Z \in [Users -> Int] /\ Z \in [Users -> Nat] /\ X \in [Users -> Int]
        /\ \A u \in Users : Z[u] = 0
    BY DEF NoLedger
  <1>5. R \in [Users -> HeirRecord] /\ \A u \in Users : R[u] = NoHeir
    BY DEF NoHeir, HeirRecord
  <1>6. B \in [Users -> [Users -> Nat]] /\ \A u \in Users : B[u] \in [Users -> Nat] /\ B[u] \in [Users -> Int] /\ \A h \in Users : B[u][h] = 0
    OBVIOUS
  <1>7. S \in [Users -> Seq(Users)]
    OBVIOUS
  <1>8. position = [splits |-> S, at |-> A, since |-> Z, accrued |-> Z, earned |-> 0, paid |-> 0, forgone |-> 0]
    BY <1>1 DEF SplitInit
  <1>9. heirs = [rec |-> R, acted |-> Z, early |-> FALSE]
    BY <1>1 DEF HeirInit
  <1>10. receipt = [total |-> Z, holders |-> S, bal |-> B, exit |-> X, written_off |-> 0, unfunded |-> 0]
    BY <1>1 DEF ReceiptInit
  <1> HIDE DEF S, A, Z, R, B, X
  <1>11. position \in PositionBook /\ position.splits = S /\ position.accrued = Z /\ position.since = Z
    BY <1>3, <1>4, <1>8 DEF PositionBook
  <1>12. held_by(shares, position) = shares
    <2> DEFINE H == held_by(shares, position)
    <2>1. H \in [Users -> Nat] /\ \A u \in Users : H[u] = shares[u] + sum(amounts_of(position.splits[u]))
      BY <1>2, <1>11, HeldTyped
    <2>2. \A u \in Users : sum(amounts_of(position.splits[u])) = 0
      BY <1>3, <1>11, SplitsNone
    <2> HIDE DEF H
    <2>3. \A u \in Users : H[u] = shares[u]
      BY <1>2, <2>1, <2>2
    <2> QED BY <1>2, <2>1, <2>3 DEF H
  <1>13. sum(due_to(shares, position, now)) = 0
    <2> DEFINE D == due_to(shares, position, now)
    <2>1. now \in Nat
      BY <1>2
    <2>2. D \in [Users -> Int] /\ \A u \in Users : D[u] = position.accrued[u] + shares[u] * (now - position.since[u])
      BY <1>2, <1>11, <2>1, DueTyped
    <2> HIDE DEF D
    <2>3. \A u \in Users : position.accrued[u] = 0 /\ position.since[u] = 0 /\ shares[u] \in Nat
      BY <1>2, <1>4, <1>11
    <2>4. \A u \in Users : D[u] = 0
      BY <1>2, <2>2, <2>3
    <2> QED BY <2>2, <2>4, SumZero, BaseAssumption DEF D
  <1>14. shares_booked /\ rewards_booked
    <2>1. position.earned = 0 /\ position.paid = 0 /\ position.forgone = 0
      BY <1>8
    <2> QED BY <1>2, <1>11, <1>12, <1>13, <2>1 DEF shares_booked, rewards_booked
  <1>15. heirs_booked
    BY <1>4, <1>5, <1>9 DEF heirs_booked, HeirBook
  <1>16. receipts_booked /\ tokens_booked
    <2>1. receipt \in ReceiptBook
      BY <1>4, <1>6, <1>7, <1>10 DEF ReceiptBook
    <2>2. receipt.total = Z /\ receipt.bal = B /\ receipt.written_off = 0 /\ receipt.unfunded = 0
      BY <1>10
    <2>3. \A u \in Users : sum(B[u]) = 0
      BY <1>6, SumZero, BaseAssumption
    <2>4. receipts_booked
      BY <1>4, <1>6, <2>1, <2>2, <2>3 DEF receipts_booked
    <2> QED BY <1>2, <2>2, <2>4 DEF tokens_booked
  <1> QED BY <1>14, <1>15, <1>16 DEF PositionBooks

\* A ledger closes: what every share earns in it is what is due to its holder.
LEMMA PositionTickKeeps == ASSUME PositionBooks, PositionTick PROVE PositionBooks'
  <1> DEFINE D == due_to(shares, position, now)   E == due_to(shares', position', now')   Q == sum(shares)
  <1>1. shares_booked /\ rewards_booked /\ heirs_booked /\ receipts_booked /\ tokens_booked
    BY DEF PositionBooks
  <1>2. /\ now \in Nat /\ shares \in [Users -> Nat] /\ position \in PositionBook /\ position.earned \in Int
        /\ MaxLedger \in Nat /\ IsFiniteSet(Users) /\ shares \in [Users -> Int]
    BY <1>1, BaseAssumption DEF shares_booked, PositionBook
  <1>3. /\ UNCHANGED <<wallet, held, pool, rewardPool, heirs, receipt>> /\ tick
        /\ position' = IF now < MaxLedger THEN [position EXCEPT !.earned = position.earned + Q] ELSE position
    BY DEF PositionTick, TimePasses
  <1>4. UNCHANGED <<held, shares, totalShares, totalDeposited, rewardPool>>
    BY <1>3 DEF pool
  <1>5. CASE now < MaxLedger
    <2>1. now' = now + 1 /\ now' \in Nat /\ position' = [position EXCEPT !.earned = position.earned + Q]
      BY <1>2, <1>3, <1>5 DEF tick
    <2>2. Q \in Int
      BY <1>2, SumType
    <2> DEFINE e == position.earned + Q
    <2>3. e \in Int /\ e = position.earned + Q /\ position' = [position EXCEPT !.earned = e]
      BY <1>2, <2>1, <2>2
    <2> HIDE DEF D, E, Q, e
    <2>4. /\ position' \in PositionBook /\ position'.splits = position.splits /\ position'.since = position.since
          /\ position'.accrued = position.accrued /\ position'.earned = e
          /\ position'.paid = position.paid /\ position'.forgone = position.forgone
      BY <1>2, <2>3 DEF PositionBook
    <2>5. held_by(shares', position') = held_by(shares, position)
      BY <1>4, <2>4 DEF held_by
    <2>6. D \in [Users -> Int] /\ \A u \in Users : D[u] = position.accrued[u] + shares[u] * (now - position.since[u])
      BY <1>2, DueTyped DEF D
    <2>7. E \in [Users -> Int] /\ \A u \in Users : E[u] = position.accrued[u] + shares[u] * (now' - position.since[u])
      <3>1. E = due_to(shares, position', now')
        BY <1>4 DEF E
      <3>2. /\ due_to(shares, position', now') \in [Users -> Int]
            /\ \A u \in Users : due_to(shares, position', now')[u] = position'.accrued[u] + shares[u] * (now' - position'.since[u])
        BY <1>2, <2>1, <2>4, DueTyped
      <3>3. \A u \in Users : E[u] = position.accrued[u] + shares[u] * (now' - position.since[u])
        BY <2>4, <3>1, <3>2
      <3>4. E \in [Users -> Int]
        BY <3>1, <3>2
      <3> QED BY <3>3, <3>4
    <2>8. \A u \in Users : E[u] = D[u] + shares[u]
      <3> SUFFICES ASSUME NEW u \in Users PROVE E[u] = D[u] + shares[u]
        OBVIOUS
      <3> DEFINE a == position.accrued[u]   s == shares[u]   t == now - position.since[u]
      <3>1. a \in Int /\ s \in Int /\ t \in Int /\ now' - position.since[u] = t + 1
        <4>1. position.accrued[u] \in Int /\ position.since[u] \in Int
          BY <1>2 DEF PositionBook
        <4>2. s \in Int /\ now \in Int /\ now' = now + 1
          BY <1>2, <2>1
        <4> QED BY <4>1, <4>2
      <3>2. D[u] = a + s * t /\ E[u] = a + s * (t + 1)
        BY <2>6, <2>7, <3>1
      <3> HIDE DEF a, s, t
      <3>3. s * (t + 1) = s * t + s /\ s * t \in Int
        BY <3>1
      <3>4. E[u] = D[u] + s
        BY <3>1, <3>2, <3>3
      <3> QED BY <3>4 DEF s
    <2>9. sum(E) = sum(D) + Q
      BY <1>2, <2>6, <2>7, <2>8, SumSplit DEF Q
    <2>10. sum(D) \in Int /\ position.earned = position.paid + position.forgone + sum(D) /\ position.paid \in Int /\ position.forgone \in Int
      BY <1>1, <1>2, <2>6, SumType DEF rewards_booked, PositionBook, D
    <2>11. rewards_booked'
      BY <2>2, <2>3, <2>4, <2>9, <2>10 DEF rewards_booked, E
    <2>12. shares_booked'
      BY <1>1, <1>4, <2>1, <2>4, <2>5 DEF shares_booked
    <2> QED BY <1>1, <1>3, <1>4, <2>11, <2>12 DEF PositionBooks, heirs_booked, receipts_booked, tokens_booked
  <1>6. CASE ~(now < MaxLedger)
    <2>1. UNCHANGED <<now, position>>
      BY <1>3, <1>6 DEF tick
    <2> QED BY <1>1, <1>3, <1>4, <2>1 DEF PositionBooks, shares_booked, rewards_booked, heirs_booked, receipts_booked, tokens_booked
  <1> QED BY <1>5, <1>6

\* Settings of the dust keeper and of the exits touch none of this.
LEMMA PositionSettings ==
    ASSUME PositionBooks, UNCHANGED <<base_vars, position, heirs, receipt>>
    PROVE  PositionBooks'
  BY DEF PositionBooks, shares_booked, rewards_booked, heirs_booked, receipts_booked, tokens_booked, base_vars, pool

LEMMA OwnersAreUsers ==
    /\ \A u \in Owners : u \in Users
    /\ \A h \in Heirs : h[1] \in Users /\ h[2] \in Users /\ h[1] \in Owners
  BY PositionAssumption DEF Owners

LEMMA HandoverMovesKeep == ASSUME PositionBooks, HandoverMoves PROVE PositionBooks'
  <1>1. CASE \E u \in Users \ Owners : leave_pool(u)
    BY <1>1, LeavePoolKeeps
  <1>2. CASE \E u \in Owners : claim_rewards(u) \/ position_split(u, 1) \/ \E id \in 0..MaxSplits : split_position(u, id, 1)
    <2> PICK u \in Owners : claim_rewards(u) \/ position_split(u, 1) \/ \E id \in 0..MaxSplits : split_position(u, id, 1)
      BY <1>2
    <2>1. u \in Users /\ 1 \in Nat
      BY OwnersAreUsers
    <2> QED BY <2>1, ClaimRewardsKeeps, PositionSplitKeeps, SplitPositionKeeps
  <1>3. CASE \E u \in Owners, a, b \in 0..MaxSplits : merge_positions(u, a, b)
    BY <1>3, OwnersAreUsers, MergePositionsKeeps
  <1>4. CASE \E from, to \in Users : transfer_position(from, to) \/ transfer_position_with_rewards(from, to)
    BY <1>4, TransferKeeps, TransferWithRewardsKeeps
  <1>5. CASE \E h \in Heirs, d \in Durations : set_beneficiary(h[1], h[2], d)
    <2> PICK h \in Heirs, d \in Durations : set_beneficiary(h[1], h[2], d)
      BY <1>5
    <2>1. h[1] \in Users /\ h[2] \in Users /\ d \in Nat
      BY OwnersAreUsers, BaseAssumption
    <2> QED BY <2>1, HeirNamed
  <1>6. CASE \E u \in Users : clear_beneficiary(u) \/ claim_inheritance(u)
    BY <1>6, HeirCleared, InheritanceKeeps
  <1> QED BY <1>1, <1>2, <1>3, <1>4, <1>5, <1>6 DEF HandoverMoves

LEMMA DustMovesKeep == ASSUME PositionBooks, DustMoves PROVE PositionBooks'
  <1>1. CASE \/ \E t \in DustThresholds : set_dust_threshold(t)
             \/ set_dust_keeper_tip_bps(MAX_KEEPER_TIP_BPS)
             \/ set_dust_treasury(TRUE)
             \/ \E n \in PositionCaps : set_max_positions_per_user(n)
    <2>1. UNCHANGED <<base_vars, position, heirs, receipt>>
      BY <1>1 DEF set_dust_threshold, set_dust_keeper_tip_bps, set_dust_treasury, set_max_positions_per_user
    <2> QED BY <2>1, PositionSettings
  <1>2. CASE \E u \in Owners : leave_pool(u) \/ \E k \in Users : close_dust_position(k, u)
    BY <1>2, OwnersAreUsers, LeavePoolKeeps, CloseDustKeeps
  <1>3. CASE \E u \in Owners : stake_more(u, 1) \/ \E id \in 0..MaxSplits : split_position(u, id, 1)
    <2> PICK u \in Owners : stake_more(u, 1) \/ \E id \in 0..MaxSplits : split_position(u, id, 1)
      BY <1>3
    <2>1. u \in Users /\ 1 \in Nat
      BY OwnersAreUsers
    <2> QED BY <2>1, StakeMoreKeeps, SplitPositionKeeps
  <1> QED BY <1>1, <1>2, <1>3 DEF DustMoves

LEMMA ReceiptMovesKeep == ASSUME PositionBooks, ReceiptMoves PROVE PositionBooks'
  <1>1. CASE \E u \in Owners, n \in Fractions : fractionalize_nft(u, n)
    <2> PICK u \in Owners, n \in Fractions : fractionalize_nft(u, n)
      BY <1>1
    <2>1. u \in Users /\ n \in Nat
      BY OwnersAreUsers, PositionAssumption
    <2> QED BY <2>1, FractionalizeKeeps
  <1>2. CASE \E o \in Owners, to \in Users, n \in Amounts : transfer_fractions(o, to, n)
    <2> PICK o \in Owners, to \in Users, n \in Amounts : transfer_fractions(o, to, n)
      BY <1>2
    <2>1. o \in Users /\ n \in Nat
      BY OwnersAreUsers, BaseAssumption
    <2> QED BY <2>1, TransferFractionsKeeps
  <1>3. CASE \E u \in Owners : \/ reconstruct_nft(u) \/ burn_and_redeem(u) \/ unstake_unfractioned(u) \/ claim_rewards(u)
                               \/ execute_scheduled_exit(u) \/ cancel_scheduled_exit(u)
                               \/ \E d \in Durations : schedule_exit(u, now + d)
    <2> PICK u \in Owners : \/ reconstruct_nft(u) \/ burn_and_redeem(u) \/ unstake_unfractioned(u) \/ claim_rewards(u)
                            \/ execute_scheduled_exit(u) \/ cancel_scheduled_exit(u)
                            \/ \E d \in Durations : schedule_exit(u, now + d)
      BY <1>3
    <2>1. u \in Users
      BY OwnersAreUsers
    <2>2. CASE reconstruct_nft(u) \/ burn_and_redeem(u) \/ execute_scheduled_exit(u) \/ claim_rewards(u)
      BY <2>1, <2>2, ReconstructKeeps, RedeemKeeps, ScheduledExitKeeps, ClaimRewardsKeeps
    <2>3. CASE unstake_unfractioned(u)
      BY <2>1, <2>3, LeavePoolKeeps DEF unstake_unfractioned
    <2>4. CASE cancel_scheduled_exit(u)
      <3>1. NoLedger \in Int /\ receipt' = [receipt EXCEPT !.exit[u] = NoLedger] /\ UNCHANGED <<base_vars, position, heirs>>
        BY <2>4 DEF cancel_scheduled_exit, NoLedger
      <3> QED BY <2>1, <3>1, ExitScheduled
    <2>5. CASE \E d \in Durations : schedule_exit(u, now + d)
      <3> PICK d \in Durations : schedule_exit(u, now + d)
        BY <2>5
      <3> DEFINE t == now + d
      <3>1. t \in Int /\ receipt' = [receipt EXCEPT !.exit[u] = t] /\ UNCHANGED <<base_vars, position, heirs>>
        BY BaseAssumption DEF schedule_exit, PositionBooks, shares_booked
      <3> HIDE DEF t
      <3> QED BY <2>1, <3>1, ExitScheduled
    <2> QED BY <2>2, <2>3, <2>4, <2>5
  <1> QED BY <1>1, <1>2, <1>3 DEF ReceiptMoves

LEMMA PartExitsKeep == ASSUME PositionBooks, LimitMoves PROVE PositionBooks'
  <1>1. CASE \/ \E l \in DailyLimits : set_daily_withdrawal_limit(l)
             \/ set_min_unstake_amount(2)
             \/ \E h \in Heirs, n \in Amounts \cup {0}, d \in Durations : approve_withdrawal(h[1], h[2], n, now + d)
    <2>1. UNCHANGED <<base_vars, position, heirs, receipt>>
      BY <1>1 DEF set_daily_withdrawal_limit, set_min_unstake_amount, approve_withdrawal
    <2> QED BY <2>1, PositionSettings
  <1>2. CASE \E u \in Owners, n \in Amounts : limited_unstake(u, n)
    <2> PICK u \in Owners, n \in Amounts : limited_unstake(u, n)
      BY <1>2
    <2>1. u \in Users /\ n \in Nat /\ unstake_to(u, n, u)
      BY OwnersAreUsers, BaseAssumption DEF limited_unstake
    <2> QED BY <2>1, UnstakeToKeeps
  <1>3. CASE \E h \in Heirs, n \in Amounts : withdraw_from(h[2], h[1], n, h[2])
    <2> PICK h \in Heirs, n \in Amounts : withdraw_from(h[2], h[1], n, h[2])
      BY <1>3
    <2>1. h[1] \in Users /\ n \in Nat /\ unstake_to(h[1], n, h[2])
      BY OwnersAreUsers, BaseAssumption DEF withdraw_from
    <2> QED BY <2>1, UnstakeToKeeps
  <1> QED BY <1>1, <1>2, <1>3 DEF LimitMoves

-------------------------------------------------------------------------------
AboutPositions == {"handover", "dust", "receipts", "limits"}
PositionInv == focus \in AboutPositions => PositionBooks

LEMMA PositionStep ==
    ASSUME focus \in AboutPositions, [FundsNext]_funds_vars
    PROVE  /\ UNCHANGED focus
           /\ HandoverMoves \/ DustMoves \/ ReceiptMoves \/ LimitMoves \/ PositionTick \/ UNCHANGED <<base_vars, position_vars>>
  BY DEF AboutPositions, FundsNext, funds_vars, capacity_step, market_step, contest_step, campaign_step, claim_step,
         subpool_step, position_step, outside_step, ballot_step, safeguard_step, wind_step, shared_step

LEMMA PositionInvInit == FundsInit => PositionInv
  BY PositionBooksInit DEF PositionInv

LEMMA PositionInvStep == ASSUME PositionInv, [FundsNext]_funds_vars PROVE PositionInv'
  <1>1. CASE focus \in AboutPositions
    <2>1. /\ UNCHANGED focus /\ PositionBooks
          /\ HandoverMoves \/ DustMoves \/ ReceiptMoves \/ LimitMoves \/ PositionTick \/ UNCHANGED <<base_vars, position_vars>>
      BY <1>1, PositionStep DEF PositionInv
    <2>2. CASE UNCHANGED <<base_vars, position_vars>>
      <3>1. UNCHANGED <<base_vars, position, heirs, receipt>>
        BY <2>2 DEF position_vars
      <3>2. PositionBooks'
        BY <2>1, <3>1, PositionSettings
      <3> QED BY <3>2 DEF PositionInv
    <2>3. CASE HandoverMoves \/ DustMoves \/ ReceiptMoves \/ LimitMoves \/ PositionTick
      <3>1. PositionBooks'
        BY <2>1, <2>3, HandoverMovesKeep, DustMovesKeep, ReceiptMovesKeep, PartExitsKeep, PositionTickKeeps
      <3> QED BY <3>1 DEF PositionInv
    <2> QED BY <2>1, <2>2, <2>3
  <1>2. CASE focus \notin AboutPositions
    BY <1>2 DEF PositionInv, FundsNext, funds_vars
  <1> QED BY <1>1, <1>2

\* Positions (position_split_merge.rs, transfer_position and transfer_position_with_rewards of
\* vault.rs, beneficiary_inheritance.rs, dust_cleanup.rs, nft_fractionalize.rs, nft_redeem.rs,
\* scheduled_exit.rs, share_allowance.rs): through every split, merge, handover, closure and partial exit the primary
\* positions and the splits hold exactly the shares of the pool, each ledger's reward is paid,
\* credited, still running or counted as given up, no heir takes a position before its owner was
\* silent for the whole period, the fractions of a receipt are all held by a listed holder, and
\* the contract holds the principal, the reward pool and what exits left behind.
THEOREM PositionsAreWhole == FundsSpec => []PositionsWhole
  <1>1. PositionInv => PositionsWhole
    <2> SUFFICES ASSUME PositionBooks PROVE shares_in_positions /\ rewards_follow /\ heirs_wait /\ receipts_whole
      BY DEF PositionInv, PositionsWhole, AboutPositions
    <2>1. shares_in_positions
      <3>1. held_by(shares, position) = [u \in Users |-> holding(u)]
        BY DEF held_by, holding, amounts_of
      <3> QED BY <3>1 DEF PositionBooks, shares_booked, shares_in_positions
    <2>2. rewards_follow
      <3>1. due_to(shares, position, now) = [u \in Users |-> position.accrued[u] + unsettled(u)]
        BY DEF due_to, unsettled
      <3> QED BY <3>1 DEF PositionBooks, rewards_booked, rewards_follow
    <2>3. heirs_wait
      BY DEF PositionBooks, heirs_booked, heirs_wait
    <2>4. receipts_whole
      BY DEF PositionBooks, receipts_booked, tokens_booked, receipts_whole
    <2> QED BY <2>1, <2>2, <2>3, <2>4
  <1> QED BY <1>1, PositionInvInit, PositionInvStep, PTL DEF FundsSpec, funds_vars

===============================================================================
