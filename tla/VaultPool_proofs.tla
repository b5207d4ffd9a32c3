---------------------------- MODULE VaultPool_proofs ---------------------------
(***************************************************************************)
(* Theorems about VaultPool for every value of its constants: the types,   *)
(* solvency (INV-3), the backing of the users' shares (INV-1), the price   *)
(* of a share over every step, and the registry that owner-driven exits    *)
(* and the audit walk through.                                             *)
(***************************************************************************)
EXTENDS VaultPool, Arithmetic_proofs, TLAPS

-------------------------------------------------------------------------------
(* Accrual. *)

\* What accrue_rewards computes from a well-typed state is well typed.
LEMMA AccrualNat ==
    ASSUME TypeOK, NEW u \in Users, NEW c \in Nat
    PROVE  /\ reward_dust(u, c) \in Nat
           /\ reward_dust(u, c) % RewardDivisor \in 0..(RewardDivisor - 1)
           /\ accrued_after(u, c) \in Nat
           /\ restake_amount(u, c) \in Nat
           /\ accrued_after(u, c) - restake_amount(u, c) \in Nat
  <1>1. RewardRate \in Nat /\ RewardDivisor \in Nat \ {0}
    BY PoolAssumption
  <1>2. remainder[u] \in Nat /\ accrued[u] \in Nat
    BY <1>1 DEF TypeOK
  <1>3. ASSUME checkpoint[u] # NoLedger
        PROVE  c * RewardRate * (now - checkpoint[u]) \in Nat
    <2>1. now - checkpoint[u] \in Nat
      BY <1>3 DEF TypeOK
    <2>2. c * RewardRate \in Nat
      BY <1>1, MulNat
    <2>3. QED
      BY <2>1, <2>2, MulNat
  <1>4. reward_dust(u, c) \in Nat
    BY <1>2, <1>3 DEF reward_dust
  <1>5. reward_dust(u, c) % RewardDivisor \in 0..(RewardDivisor - 1)
    BY <1>1, <1>4, ModRange
  <1>6. accrued_after(u, c) \in Nat
    BY <1>1, <1>2, <1>4, DivNat DEF accrued_after
  <1>7. QED
    BY <1>4, <1>5, <1>6 DEF restake_amount

-------------------------------------------------------------------------------
(* Type correctness. *)

\* accrue_rewards keeps the reward books typed: the remainder stays below one
\* token unit and the checkpoint is the present ledger.
LEMMA AccrueTyped ==
    ASSUME TypeOK, now' = now, NEW u \in Users, NEW c \in Nat, NEW owed \in Nat,
           accrue_rewards(u, c, owed)
    PROVE  /\ accrued' \in [Users -> Nat]
           /\ remainder' \in [Users -> 0..(RewardDivisor - 1)]
           /\ checkpoint' \in [Users -> {NoLedger} \cup 0..now']
  <1>1. reward_dust(u, c) % RewardDivisor \in 0..(RewardDivisor - 1)
    BY AccrualNat
  <1>2. accrued' \in [Users -> Nat]
    BY DEF accrue_rewards, TypeOK
  <1>3. remainder' \in [Users -> 0..(RewardDivisor - 1)]
    BY <1>1 DEF accrue_rewards, TypeOK
  <1>4. checkpoint' \in [Users -> {NoLedger} \cup 0..now']
    BY DEF accrue_rewards, TypeOK
  <1>5. QED
    BY <1>2, <1>3, <1>4

\* The typed part of the staker registry.
RegistryTyped ==
    /\ stakedAt \in [Users -> {NoLedger} \cup 0..now]
    /\ lastUnstake \in [Users -> {NoLedger} \cup 0..now]
    /\ restaked \subseteq Users

\* A call that leaves the registry alone leaves it typed.
LEMMA RegistryKept ==
    ASSUME TypeOK, now' = now, UNCHANGED registry
    PROVE  RegistryTyped'
  BY DEF TypeOK, RegistryTyped, registry

\* A first stake writes the present ledger, never a later one.
LEMMA OpenTyped ==
    ASSUME TypeOK, now' = now, NEW u \in Users, open_position(u)
    PROVE  RegistryTyped'
  BY DEF TypeOK, RegistryTyped, open_position

\* register_staker writes the list and its length only.
LEMMA RegisterTyped ==
    ASSUME TypeOK, now' = now, NEW u \in Users, register_staker(u)
    PROVE  RegistryTyped'
  BY DEF TypeOK, RegistryTyped, register_staker

\* Closing a position clears its StakedAtLedger entry.
LEMMA CloseTyped ==
    ASSUME TypeOK, now' = now, NEW u \in Users, close_registration(u)
    PROVE  stakedAt' \in [Users -> {NoLedger} \cup 0..now']
  BY DEF TypeOK, close_registration

\* The amounts the model offers to the entry points are positive.
LEMMA AmountsNat ==
    ASSUME NEW a \in StakeAmounts \cup ReferredAmounts \cup DelegatedAmounts
                      \cup YieldAmounts \cup FundAmounts \cup SlashAmounts
                      \cup PartialAmounts
    PROVE  a \in Nat
  BY PoolAssumption

\* All that the mint half of stake and deposit leaves behind; the token and
\* pool balances are settled by the callers.
LEMMA StakeTyped ==
    ASSUME TypeOK, NEW u \in Users, NEW a \in Nat, mint(u, a)
    PROVE  /\ shares' \in [Users -> Nat]
           /\ pending' \in [Users -> [shares : Nat, at : Nat]]
           /\ totalShares' \in Nat /\ totalDeposited' \in Nat
           /\ insuranceFund' \in Nat /\ reserves' \in Nat /\ rewardsPaid' \in Nat
           /\ accrued' \in [Users -> Nat]
           /\ remainder' \in [Users -> 0..(RewardDivisor - 1)]
           /\ checkpoint' \in [Users -> {NoLedger} \cup 0..now']
           /\ RegistryTyped'
           /\ modes' \subseteq Modes
           /\ now' \in Nat
  <1> DEFINE m == amount_to_shares_with_decimals(totalShares, totalDeposited, a,
                                                 ScaleUp, ScaleDown)
  <1>1. m \in Nat
    BY MintNat, PoolAssumption DEF TypeOK
  <1>2. credit(u, m, a) /\ now' = now
    BY DEF mint
  <1>3. /\ shares' \in [Users -> Nat]
        /\ totalShares' \in Nat /\ totalDeposited' \in Nat
    BY <1>1, <1>2 DEF credit, TypeOK
  <1>4. RegistryTyped'
    BY <1>2, RegistryKept, RegisterTyped DEF mint
  <1>5. QED
    BY <1>3, <1>4 DEF mint, rewards, TypeOK

\* The amounts do_unstake_to computes: the fee and its four parts never exceed
\* what is redeemed, and nothing is lost between them.
LEMMA ExitAmounts ==
    ASSUME NEW amount \in Nat, NEW penalised \in BOOLEAN, NEW waived \in BOOLEAN,
           NEW net, net = amount - (IF penalised THEN bps(amount, PenaltyBps) ELSE 0),
           NEW fee, fee = (IF waived THEN 0 ELSE bps(net, UnstakeFeeBps)),
           NEW insurance, insurance = bps(fee, InsuranceFeeBps),
           NEW recycled, recycled = bps(fee - insurance, RecycleBps),
           NEW revenue, revenue = bps(fee - insurance - recycled, RevenueBps)
    PROVE  /\ net \in 0..amount /\ fee \in 0..net
           /\ insurance \in Nat /\ recycled \in Nat /\ revenue \in Nat
           /\ fee - insurance - recycled - revenue \in Nat
  <1>1. /\ PenaltyBps \in 0..BPS_DENOMINATOR /\ UnstakeFeeBps \in 0..BPS_DENOMINATOR
        /\ InsuranceFeeBps \in 0..BPS_DENOMINATOR /\ RecycleBps \in 0..BPS_DENOMINATOR
        /\ RevenueBps \in 0..BPS_DENOMINATOR
    BY PoolAssumption
  <1>2. net \in 0..amount
    <2>1. bps(amount, PenaltyBps) \in 0..amount
      BY <1>1, BpsBound
    <2>2. CASE penalised
      <3>1. net = amount - bps(amount, PenaltyBps)
        BY <2>2
      <3>2. QED
        BY <2>1, <3>1
    <2>3. CASE ~penalised
      <3>1. net = amount - 0
        BY <2>3
      <3>2. QED
        BY <3>1
    <2>4. QED
      BY <2>2, <2>3
  <1>3. fee \in 0..net
    <2>1. net \in Nat
      BY <1>2
    <2>2. bps(net, UnstakeFeeBps) \in 0..net
      BY <1>1, <2>1, BpsBound
    <2>3. QED
      BY <2>1, <2>2
  <1>4. insurance \in 0..fee
    <2>1. fee \in Nat
      BY <1>2, <1>3
    <2>2. bps(fee, InsuranceFeeBps) \in 0..fee
      BY <1>1, <2>1, BpsBound
    <2> QED BY <2>2
  <1>5. fee - insurance \in Nat
    BY <1>2, <1>3, <1>4
  <1>6. recycled \in 0..(fee - insurance)
    <2>1. bps(fee - insurance, RecycleBps) \in 0..(fee - insurance)
      BY <1>1, <1>5, BpsBound
    <2>2. QED
      BY <2>1
  <1>7. fee - insurance - recycled \in Nat
    BY <1>2, <1>3, <1>4, <1>5, <1>6
  <1>8. revenue \in 0..(fee - insurance - recycled)
    <2>1. bps(fee - insurance - recycled, RevenueBps) \in 0..(fee - insurance - recycled)
      BY <1>1, <1>7, BpsBound
    <2>2. QED
      BY <2>1
  <1>9. fee \in Nat /\ insurance \in Nat
    BY <1>2, <1>3, <1>4
  <1>10. recycled \in Nat /\ revenue \in Nat
    BY <1>5, <1>6, <1>7, <1>8
  <1>11. fee - insurance - recycled - revenue \in Nat
    BY <1>7, <1>8
  <1>12. QED
    BY <1>2, <1>3, <1>9, <1>10, <1>11

\* What an exit leaves behind is well typed, whatever balance it was told.
LEMMA ExitTyped ==
    ASSUME TypeOK, NEW u \in Users, NEW c \in Nat, NEW b \in Nat,
           do_unstake_to(u, c, b), pending' \in [Users -> [shares : Nat, at : Nat]]
    PROVE  TypeOK'
  <1> DEFINE restake   == restake_amount(u, c)
             bonus     == amount_to_shares(totalShares, totalDeposited, restake)
             S         == totalShares + bonus
             D         == totalDeposited + restake
             amount    == shares_to_amount(S, D, b)
             penalised == is_locked(u) /\ u \notin restaked
             net       == amount - IF penalised THEN bps(amount, PenaltyBps) ELSE 0
             fee       == IF withdraw_only THEN 0 ELSE bps(net, UnstakeFeeBps)
             insurance == bps(fee, InsuranceFeeBps)
             recycled  == bps(fee - insurance, RecycleBps)
             revenue   == bps(fee - insurance - recycled, RevenueBps)
  <1>1. restake \in Nat /\ accrued_after(u, c) - restake \in Nat
    BY AccrualNat
  <1>2. amount \in Nat
    <2>1. totalShares \in Nat /\ totalDeposited \in Nat
      BY DEF TypeOK
    <2>2. bonus \in Nat
      BY <1>1, <2>1, MintDefaultNat
    <2>3. S \in Nat /\ D \in Nat
      BY <1>1, <2>1, <2>2
    <2> HIDE DEF S, D
    <2>4. QED
      BY <2>3, RedeemNat
  <1>3. insurance \in Nat /\ revenue \in Nat
    <2>1. penalised \in BOOLEAN /\ withdraw_only \in BOOLEAN
      BY DEF is_locked, withdraw_only
    <2>2. /\ net = amount - (IF penalised THEN bps(amount, PenaltyBps) ELSE 0)
          /\ fee = (IF withdraw_only THEN 0 ELSE bps(net, UnstakeFeeBps))
          /\ insurance = bps(fee, InsuranceFeeBps)
          /\ recycled = bps(fee - insurance, RecycleBps)
          /\ revenue = bps(fee - insurance - recycled, RevenueBps)
      OBVIOUS
    <2> HIDE DEF amount, penalised, net, fee, insurance, recycled, revenue
    <2>3. QED
      BY <1>2, <2>1, <2>2, ExitAmounts
  <1>4. reserves' \in Nat
    <2>1. reserves' = reserves + insurance + revenue
      BY DEF do_unstake_to
    <2> HIDE DEF insurance, revenue
    <2>2. QED
      BY <1>3, <2>1 DEF TypeOK
  <1>5. now' = now /\ accrue_rewards(u, c, accrued_after(u, c) - restake)
    BY DEF do_unstake_to
  <1>6. /\ accrued' \in [Users -> Nat]
        /\ remainder' \in [Users -> 0..(RewardDivisor - 1)]
        /\ checkpoint' \in [Users -> {NoLedger} \cup 0..now']
    BY <1>1, <1>5, AccrueTyped
  <1>7. RegistryTyped'
    <2>1. CASE c = b
      <3>1. close_registration(u) /\ lastUnstake' = [lastUnstake EXCEPT ![u] = now] /\ restaked' = restaked \ {u}
        BY <2>1 DEF do_unstake_to
      <3>2. stakedAt' \in [Users -> {NoLedger} \cup 0..now']
        BY <1>5, <3>1, CloseTyped
      <3>3. lastUnstake' \in [Users -> {NoLedger} \cup 0..now'] /\ restaked' \subseteq Users
        <4>1. /\ now \in Nat /\ now' = now /\ lastUnstake \in [Users -> {NoLedger} \cup 0..now]
              /\ restaked \subseteq Users
          BY <1>5 DEF TypeOK
        <4> QED BY ONLY <3>1, <4>1
      <3> QED BY <3>2, <3>3 DEF RegistryTyped
    <2>2. CASE c # b
      BY <1>5, <2>2, RegistryKept DEF do_unstake_to
    <2>3. QED
      BY <2>1, <2>2
  <1>8. modes' \subseteq Modes
    <2>1. check_auto_pause /\ held' \in Nat
      BY DEF do_unstake_to, assert_non_negative
    <2>2. QED
      BY <2>1, PoolAssumption DEF check_auto_pause, TypeOK
  <1>9. /\ held' \in Nat /\ totalShares' \in Nat /\ totalDeposited' \in Nat
        /\ rewardPool' \in Nat /\ insuranceFund' \in Nat /\ rewardsPaid' \in Nat
    BY DEF do_unstake_to, assert_non_negative, TypeOK
  <1>10. shares' \in [Users -> Nat]
    <2>1. shares' = [shares EXCEPT ![u] = c - b] /\ c >= b
      BY DEF do_unstake_to
    <2>2. QED
      BY <2>1 DEF TypeOK
  <1>11. QED
    BY <1>4, <1>5, <1>6, <1>7, <1>8, <1>9, <1>10 DEF TypeOK, RegistryTyped

\* The two minting calls that accrue first.
LEMMA DoStakeTyped ==
    ASSUME TypeOK, NEW u \in Users, NEW a \in Nat, do_stake(u, a)
    PROVE  TypeOK'
  <1> DEFINE restake == restake_amount(u, shares[u])
             bonus   == amount_to_shares(totalShares, totalDeposited, restake)
             S       == totalShares + bonus
             D       == totalDeposited + restake
             minted  == amount_to_shares(S, D, a)
  <1>1. shares[u] \in Nat /\ totalShares \in Nat /\ totalDeposited \in Nat
    BY DEF TypeOK
  <1>2. restake \in Nat /\ accrued_after(u, shares[u]) - restake \in Nat
    BY <1>1, AccrualNat
  <1>3. bonus \in Nat
    BY <1>1, <1>2, MintDefaultNat
  <1>4. S \in Nat /\ D \in Nat
    BY <1>1, <1>2, <1>3
  <1>5. minted \in Nat
    <2> HIDE DEF S, D
    <2>1. QED
      BY <1>4, MintDefaultNat
  <1>6. /\ now' = now
        /\ accrue_rewards(u, shares[u], accrued_after(u, shares[u]) - restake)
        /\ shares' = [shares EXCEPT ![u] = @ + bonus + minted]
        /\ totalShares' = S + minted
        /\ totalDeposited' = D + a
    BY DEF do_stake
  <1>7. /\ accrued' \in [Users -> Nat]
        /\ remainder' \in [Users -> 0..(RewardDivisor - 1)]
        /\ checkpoint' \in [Users -> {NoLedger} \cup 0..now']
    BY <1>1, <1>2, <1>6, AccrueTyped
  <1>8. RegistryTyped'
    BY <1>6, RegistryKept, OpenTyped DEF do_stake
  <1>9. /\ shares' \in [Users -> Nat]
        /\ totalShares' \in Nat /\ totalDeposited' \in Nat
    <2> HIDE DEF bonus, minted, S, D
    <2>1. QED
      BY <1>1, <1>3, <1>4, <1>5, <1>6 DEF TypeOK
  <1>10. held' \in Nat
    BY DEF do_stake, TypeOK
  <1>11. /\ pending' = pending /\ rewardPool' = rewardPool
         /\ insuranceFund' = insuranceFund /\ reserves' = reserves
         /\ rewardsPaid' = rewardsPaid /\ modes' = modes
    BY DEF do_stake
  <1>12. QED
    BY <1>6, <1>7, <1>8, <1>9, <1>10, <1>11 DEF TypeOK, RegistryTyped

\* The delegated stake accrues and mints, without compounding.
LEMMA StakeForTyped ==
    ASSUME TypeOK, NEW u \in Users, NEW a \in Nat, stake_for(u, a)
    PROVE  TypeOK'
  <1> DEFINE minted == amount_to_shares(totalShares, totalDeposited, a)
  <1>1. shares[u] \in Nat /\ totalShares \in Nat /\ totalDeposited \in Nat
    BY DEF TypeOK
  <1>2. minted \in Nat
    BY <1>1, MintDefaultNat
  <1>3. accrued_after(u, shares[u]) \in Nat
    BY <1>1, AccrualNat
  <1>4. /\ now' = now
        /\ accrue_rewards(u, shares[u], accrued_after(u, shares[u]))
        /\ credit(u, minted, a)
        /\ held' = held + a
    BY DEF stake_for
  <1>5. /\ accrued' \in [Users -> Nat]
        /\ remainder' \in [Users -> 0..(RewardDivisor - 1)]
        /\ checkpoint' \in [Users -> {NoLedger} \cup 0..now']
    BY <1>1, <1>3, <1>4, AccrueTyped
  <1>6. RegistryTyped'
    BY <1>4, RegistryKept, OpenTyped DEF stake_for
  <1>7. /\ shares' \in [Users -> Nat]
        /\ totalShares' \in Nat /\ totalDeposited' \in Nat /\ held' \in Nat
    <2> HIDE DEF minted
    <2>1. QED
      BY <1>1, <1>2, <1>4 DEF credit, TypeOK
  <1>8. /\ pending' = pending /\ rewardPool' = rewardPool
        /\ insuranceFund' = insuranceFund /\ reserves' = reserves
        /\ rewardsPaid' = rewardsPaid /\ modes' = modes
    BY DEF stake_for
  <1>9. QED
    BY <1>4, <1>5, <1>6, <1>7, <1>8 DEF TypeOK, RegistryTyped

\* Paying a claim, with the insurance cut it keeps back.
LEMMA ClaimTyped ==
    ASSUME TypeOK, NEW u \in Users, claim(u)
    PROVE  TypeOK'
  <1> DEFINE reward == accrued_after(u, shares[u])
             kept   == BPS_DENOMINATOR - InsuranceRateBps
             user_reward == (reward * kept) \div BPS_DENOMINATOR
  <1>1. shares[u] \in Nat
    BY DEF TypeOK
  <1>2. reward \in Nat
    BY <1>1, AccrualNat
  <1>3. kept \in 0..BPS_DENOMINATOR
    <2>1. InsuranceRateBps \in 0..BPS_DENOMINATOR
      BY PoolAssumption
    <2>2. QED
      BY <2>1 DEF BPS_DENOMINATOR
  <1>4. user_reward \in 0..reward
    <2>1. bps(reward, kept) \in 0..reward
      <3> HIDE DEF reward, kept
      <3>1. QED
        BY <1>2, <1>3, BpsBound
    <2>2. QED
      BY <2>1 DEF bps
  <1>5. /\ now' = now
        /\ accrue_rewards(u, shares[u], 0)
        /\ insuranceFund' = insuranceFund + (reward - user_reward)
        /\ rewardsPaid' = rewardsPaid + reward
        /\ \/ check_auto_pause
           \/ modes' = modes
        /\ UNCHANGED <<position, reserves, registry>>
    BY DEF claim
  <1>6. /\ accrued' \in [Users -> Nat]
        /\ remainder' \in [Users -> 0..(RewardDivisor - 1)]
        /\ checkpoint' \in [Users -> {NoLedger} \cup 0..now']
    BY <1>1, <1>5, AccrueTyped
  <1>7. RegistryTyped'
    BY <1>5, RegistryKept
  <1>8. held' \in Nat /\ rewardPool' \in Nat
    BY DEF claim, assert_non_negative
  <1>9. insuranceFund' \in Nat /\ rewardsPaid' \in Nat
    <2> HIDE DEF reward, user_reward
    <2>1. QED
      BY <1>2, <1>4, <1>5 DEF TypeOK
  <1>10. modes' \subseteq Modes
    BY <1>5, <1>8, PoolAssumption DEF check_auto_pause, TypeOK
  <1>11. QED
    BY <1>5, <1>6, <1>7, <1>8, <1>9, <1>10 DEF TypeOK, RegistryTyped, position

\* A slash settles nothing, so only the balances it writes can go wrong.
LEMMA SlashTyped ==
    ASSUME TypeOK, NEW u \in Users, NEW a \in Nat, slash(u, a)
    PROVE  TypeOK'
  <1>1. /\ held' \in Nat /\ totalShares' \in Nat /\ totalDeposited' \in Nat
        /\ \A v \in Users : shares'[v] \in Nat /\ accrued'[v] \in Nat
    BY DEF slash, assert_non_negative
  <1>2. PICK s, c :
            /\ shares' = [shares EXCEPT ![u] = s]
            /\ accrued' = [c EXCEPT ![u] = 0]
            /\ DOMAIN c = Users
    <2>1. DOMAIN accrued = Users
      BY DEF TypeOK
    <2>2. \A total : DOMAIN redistribute_penalty(u, total) = Users
      BY DEF redistribute_penalty
    <2>3. QED
      BY <2>1, <2>2 DEF slash
  <1>3. shares' \in [Users -> Nat]
    BY <1>1, <1>2 DEF TypeOK
  <1>4. accrued' \in [Users -> Nat]
    <2>1. accrued' = [v \in Users |-> accrued'[v]]
      BY <1>2
    <2>2. QED
      BY <1>1, <2>1
  <1>5. /\ now' = now
        /\ checkpoint' = [checkpoint EXCEPT ![u] = now]
        /\ UNCHANGED <<pending, rewardPool, insuranceFund, reserves, rewardsPaid, remainder,
                       modes>>
    BY DEF slash
  <1>6. RegistryTyped'
    <2>1. CASE close_registration(u) /\ UNCHANGED <<lastUnstake, restaked>>
      BY <1>5, <2>1, CloseTyped DEF TypeOK, RegistryTyped
    <2>2. CASE UNCHANGED registry
      BY <1>5, <2>2, RegistryKept
    <2>3. QED
      BY <2>1, <2>2 DEF slash
  <1>7. /\ checkpoint' \in [Users -> {NoLedger} \cup 0..now']
        /\ remainder' \in [Users -> 0..(RewardDivisor - 1)]
        /\ pending' \in [Users -> [shares : Nat, at : Nat]]
    BY <1>5 DEF TypeOK
  <1>8. /\ rewardPool' \in Nat /\ insuranceFund' \in Nat /\ reserves' \in Nat
        /\ rewardsPaid' \in Nat /\ now' \in Nat /\ modes' \subseteq Modes
    BY <1>5 DEF TypeOK
  <1>9. QED
    BY <1>1, <1>3, <1>4, <1>6, <1>7, <1>8 DEF TypeOK, RegistryTyped

\* Handing a position over: the lock-up timer moves, the registry stays.
LEMMA MoveTyped ==
    ASSUME TypeOK, NEW from \in Users, NEW to \in Users, move_shares(from, to),
           accrued' \in [Users -> Nat],
           remainder' \in [Users -> 0..(RewardDivisor - 1)],
           checkpoint' \in [Users -> {NoLedger} \cup 0..now]
    PROVE  TypeOK'
  <1>1. now' = now /\ now \in Nat
    BY DEF move_shares, TypeOK
  <1>2. shares' \in [Users -> Nat]
    BY DEF move_shares, TypeOK
  <1>3. stakedAt' \in [Users -> {NoLedger} \cup 0..now]
    <2> DEFINE t == IF stakedAt[from] = NoLedger THEN now ELSE stakedAt[from]
    <2>1. t \in {NoLedger} \cup 0..now
      BY DEF TypeOK
    <2>2. stakedAt' = [stakedAt EXCEPT ![to] = t, ![from] = NoLedger]
      BY DEF move_shares
    <2> HIDE DEF t
    <2>3. QED
      BY <2>1, <2>2 DEF TypeOK
  <1>4. /\ pending' = pending /\ totalShares' = totalShares
        /\ totalDeposited' = totalDeposited /\ lastUnstake' = lastUnstake
        /\ restaked' = restaked /\ modes' = modes
        /\ rewardPool' = rewardPool /\ insuranceFund' = insuranceFund
        /\ reserves' = reserves /\ held' = held /\ rewardsPaid' = rewardsPaid
    BY DEF move_shares, funds
  <1>5. QED
    BY <1>1, <1>2, <1>3, <1>4 DEF TypeOK

\* transfer_position settles from and starts to afresh.
LEMMA TransferTyped ==
    ASSUME TypeOK, NEW from \in Users, NEW to \in Users, transfer_position(from, to)
    PROVE  TypeOK'
  <1>1. shares[from] \in Nat
    BY DEF TypeOK
  <1>2. accrued_after(from, shares[from]) \in Nat
    BY <1>1, AccrualNat
  <1>3. reward_dust(from, shares[from]) % RewardDivisor \in 0..(RewardDivisor - 1)
    BY <1>1, AccrualNat
  <1>4. accrued' \in [Users -> Nat]
    BY <1>2 DEF transfer_position, TypeOK
  <1>5. remainder' \in [Users -> 0..(RewardDivisor - 1)]
    BY <1>3 DEF transfer_position, TypeOK
  <1>6. checkpoint' \in [Users -> {NoLedger} \cup 0..now]
    BY DEF transfer_position, TypeOK
  <1>7. QED
    BY <1>4, <1>5, <1>6, MoveTyped DEF transfer_position

\* transfer_position_with_rewards moves balance and checkpoint unsettled.
LEMMA TransferWithRewardsTyped ==
    ASSUME TypeOK, NEW from \in Users, NEW to \in Users,
           transfer_position_with_rewards(from, to)
    PROVE  TypeOK'
  <1>1. accrued' \in [Users -> Nat] /\ remainder' \in [Users -> 0..(RewardDivisor - 1)]
    BY DEF transfer_position_with_rewards, TypeOK
  <1>2. checkpoint' \in [Users -> {NoLedger} \cup 0..now]
    <2> DEFINE t == IF checkpoint[from] = NoLedger THEN now ELSE checkpoint[from]
    <2>1. t \in {NoLedger} \cup 0..now /\ now \in {NoLedger} \cup 0..now
      BY DEF TypeOK
    <2>2. checkpoint' = [checkpoint EXCEPT ![to] = t, ![from] = now]
      BY DEF transfer_position_with_rewards
    <2> HIDE DEF t
    <2>3. QED
      BY <2>1, <2>2 DEF TypeOK
  <1>3. QED
    BY <1>1, <1>2, MoveTyped DEF transfer_position_with_rewards

\* The calls that touch neither positions nor the reward books of a user, and
\* the ones that only move shares in and out of a request.
LEMMA PlainCallsTyped ==
    ASSUME TypeOK, NEW a \in Nat,
           \/ add_yield(a) \/ fund_reward_pool(a) \/ deploy_insurance_fund(a)
           \/ set_mode \/ close_ledger \/ UNCHANGED vars
    PROVE  TypeOK'
  <1>1. CASE add_yield(a)
    BY <1>1 DEF add_yield, rewards, registry, TypeOK
  <1>2. CASE fund_reward_pool(a)
    BY <1>2 DEF fund_reward_pool, position, rewards, registry, TypeOK
  <1>3. CASE deploy_insurance_fund(a)
    BY <1>3 DEF deploy_insurance_fund, position, rewards, registry, TypeOK
  <1>4. CASE set_mode
    <2>1. modes' \subseteq Modes
      BY <1>4 DEF set_mode, ModesNext, set_paused, clear_paused, enter_withdraw_only_mode,
           exit_withdraw_only_mode, initiate_sunset, emergency_stop,
           start_graceful_shutdown, TypeOK
    <2>2. QED
      BY <1>4, <2>1 DEF set_mode, position, funds, rewards, registry, TypeOK
  <1>5. CASE close_ledger
    <2>1. now' \in Nat /\ 0..now \subseteq 0..now'
      BY <1>5 DEF close_ledger, TypeOK
    <2>2. UNCHANGED <<position, funds, rewards, registry, modes>>
      BY <1>5 DEF close_ledger
    <2>3. \A f : f \in [Users -> {NoLedger} \cup 0..now]
                    => f \in [Users -> {NoLedger} \cup 0..now']
      BY <2>1
    <2>4. /\ checkpoint' \in [Users -> {NoLedger} \cup 0..now']
          /\ stakedAt' \in [Users -> {NoLedger} \cup 0..now']
          /\ lastUnstake' \in [Users -> {NoLedger} \cup 0..now']
      BY <2>2, <2>3 DEF rewards, registry, TypeOK
    <2>5. QED
      BY <2>1, <2>2, <2>4 DEF position, funds, rewards, registry, TypeOK
  <1>6. CASE UNCHANGED vars
    BY <1>6 DEF vars, position, funds, rewards, registry, TypeOK
  <1>7. QED
    BY <1>1, <1>2, <1>3, <1>4, <1>5, <1>6

\* A request moves shares from the balance into the request.
LEMMA RequestTyped ==
    ASSUME TypeOK, NEW u \in Users, NEW s \in 1..shares[u], request_withdrawal(u, s)
    PROVE  TypeOK'
  <1>1. shares[u] \in Nat /\ s \in Nat /\ shares[u] - s \in Nat
    BY DEF TypeOK
  <1>2. shares' \in [Users -> Nat]
    BY <1>1 DEF request_withdrawal, TypeOK
  <1>3. pending' \in [Users -> [shares : Nat, at : Nat]]
    BY <1>1 DEF request_withdrawal, TypeOK
  <1>4. QED
    BY <1>2, <1>3 DEF request_withdrawal, funds, rewards, registry, TypeOK

\* The break-glass exit zeroes the position.
LEMMA EmergencyTyped ==
    ASSUME TypeOK, NEW u \in Users, emergency_withdraw(u)
    PROVE  TypeOK'
  BY DEF emergency_withdraw, assert_non_negative, registry, TypeOK

\* A partial claim takes at most what is accrued.
LEMMA PartialTyped ==
    ASSUME TypeOK, NEW u \in Users, NEW a \in Nat, claim_partial(u, a)
    PROVE  TypeOK'
  <1>1. accrued' \in [Users -> Nat] /\ rewardsPaid' \in Nat /\ held' \in Nat
    BY DEF claim_partial, assert_non_negative, TypeOK
  <1>2. QED
    BY <1>1 DEF claim_partial, position, registry, TypeOK

\* Every call preserves the types: no accounted quantity goes negative, no
\* remainder reaches a whole token unit, no timestamp lies in the future.
LEMMA StepTyped == TypeOK /\ [Next]_vars => TypeOK'
  <1> SUFFICES ASSUME TypeOK, [Next]_vars
               PROVE  TypeOK'
    OBVIOUS
  <1>1. ASSUME NEW u \in Users, NEW a \in StakeAmounts, stake(u, a)
        PROVE  TypeOK'
    <2>1. a \in Nat /\ mint(u, a)
      BY <1>1, AmountsNat DEF stake
    <2>2. held' \in Nat /\ rewardPool' \in Nat
      BY <1>1, <2>1 DEF stake, TypeOK
    <2>3. QED
      BY <2>1, <2>2, StakeTyped DEF TypeOK, RegistryTyped
  <1>2. ASSUME NEW u \in Users, NEW a \in StakeAmounts, deposit_referred(u, a)
        PROVE  TypeOK'
    <2> DEFINE referee == bps(a, RefereeBps)
               referrer == bps(a, ReferrerBps)
    <2>1. a \in Nat /\ mint(u, a)
      BY <1>2, AmountsNat DEF deposit_referred
    <2>2. referee \in Nat /\ referrer \in Nat
      <3>1. RefereeBps \in 0..BPS_DENOMINATOR /\ ReferrerBps \in 0..BPS_DENOMINATOR
        BY PoolAssumption
      <3>2. referee \in 0..a /\ referrer \in 0..a
        BY <2>1, <3>1, BpsBound
      <3> HIDE DEF referee, referrer
      <3>3. QED
        BY <2>1, <3>2
    <2>3. /\ referrer + referee <= rewardPool /\ referrer + referee <= held + a
          /\ held' = held + a - referee
          /\ rewardPool' = rewardPool - (referrer + referee)
      BY <1>2 DEF deposit_referred
    <2>4. held' \in Nat /\ rewardPool' \in Nat
      <3> HIDE DEF referee, referrer
      <3>1. QED
        BY <2>1, <2>2, <2>3 DEF TypeOK
    <2>5. QED
      BY <2>1, <2>4, StakeTyped DEF TypeOK, RegistryTyped
  <1>3. ASSUME NEW u \in Users, NEW s \in 1..shares[u], withdraw(u, s)
        PROVE  TypeOK'
    <2>1. shares[u] \in Nat /\ s \in Nat
      BY DEF TypeOK
    <2>2. pending' \in [Users -> [shares : Nat, at : Nat]]
      BY <1>3 DEF withdraw, TypeOK
    <2>3. QED
      BY <1>3, <2>1, <2>2, ExitTyped DEF withdraw
  <1>4. ASSUME NEW u \in Users, execute_withdrawal(u)
        PROVE  TypeOK'
    <2>1. shares[u] \in Nat /\ pending[u].shares \in Nat
      BY DEF TypeOK
    <2>2. shares[u] + pending[u].shares \in Nat
      BY <2>1
    <2>3. pending' \in [Users -> [shares : Nat, at : Nat]]
      BY <1>4 DEF execute_withdrawal, TypeOK
    <2>4. do_unstake_to(u, shares[u] + pending[u].shares, pending[u].shares)
      BY <1>4 DEF execute_withdrawal
    <2>5. QED
      BY <2>1, <2>2, <2>3, <2>4, ExitTyped
  <1>5. ASSUME NEW u \in Users, NEW a \in ReferredAmounts, do_stake(u, a)
        PROVE  TypeOK'
    BY <1>5, AmountsNat, DoStakeTyped
  <1>6. ASSUME NEW u \in Users, NEW a \in DelegatedAmounts, stake_for(u, a)
        PROVE  TypeOK'
    BY <1>6, AmountsNat, StakeForTyped
  <1>7. ASSUME NEW u \in Users, NEW a \in PartialAmounts, claim_partial(u, a)
        PROVE  TypeOK'
    BY <1>7, AmountsNat, PartialTyped
  <1>8. ASSUME NEW u \in Users, NEW a \in SlashAmounts, slash(u, a)
        PROVE  TypeOK'
    BY <1>8, AmountsNat, SlashTyped
  <1>9. ASSUME NEW a \in YieldAmounts, add_yield(a)
        PROVE  TypeOK'
    BY <1>9, AmountsNat, PlainCallsTyped
  <1>10. ASSUME NEW a \in FundAmounts, fund_reward_pool(a) \/ deploy_insurance_fund(a)
         PROVE  TypeOK'
    BY <1>10, AmountsNat, PlainCallsTyped
  <1>11. ASSUME set_mode \/ close_ledger \/ UNCHANGED vars
         PROVE  TypeOK'
    BY <1>11, PlainCallsTyped
  <1>12. QED
    BY <1>1, <1>2, <1>3, <1>4, <1>5, <1>6, <1>7, <1>8, <1>9, <1>10, <1>11, RequestTyped,
       EmergencyTyped, ClaimTyped, TransferTyped, TransferWithRewardsTyped DEF Next

\* Type correctness of the vault for any number of users, any amounts, any
\* rates and fees, and any admissible set of operating modes.
THEOREM TypeCorrect == Spec => []TypeOK
  <1>1. Init => TypeOK
    <2> SUFFICES ASSUME Init PROVE TypeOK
      OBVIOUS
    <2>1. remainder \in [Users -> 0..(RewardDivisor - 1)]
      BY PoolAssumption DEF Init
    <2>2. QED
      BY <2>1 DEF Init, ModesInit, TypeOK, NoLedger
  <1>2. QED
    BY <1>1, StepTyped, PTL DEF Spec

-------------------------------------------------------------------------------
(* Solvency. *)

\* Without compounding and without claim_partial, the two calls that book or
\* pay a reward the pool is never charged for, no call lets the accounted
\* amounts outgrow the token balance.
LEMMA StepSolvent ==
    ASSUME AutoRestakers = {}, PartialAmounts = {}, TypeOK, Solvent, [Next]_vars
    PROVE  Solvent'
  <1>1. /\ held \in Nat /\ totalDeposited \in Nat /\ rewardPool \in Nat
        /\ insuranceFund \in Nat /\ reserves \in Nat
        /\ held >= totalDeposited + rewardPool + insuranceFund + reserves
    BY DEF TypeOK, Solvent
  <1>2. \A u, c : restake_amount(u, c) = 0
    BY DEF restake_amount
  <1>3. \A a \in StakeAmounts \cup ReferredAmounts \cup DelegatedAmounts
                      \cup YieldAmounts \cup FundAmounts \cup SlashAmounts : a \in Nat
    BY PoolAssumption
  <1>4. ASSUME NEW u \in Users, NEW a \in StakeAmounts, stake(u, a)
        PROVE  Solvent'
    BY <1>1, <1>3, <1>4 DEF stake, mint, credit, Solvent
  <1>5. ASSUME NEW u \in Users, NEW a \in StakeAmounts, deposit_referred(u, a)
        PROVE  Solvent'
    <2> DEFINE referee  == bps(a, RefereeBps)
               referrer == bps(a, ReferrerBps)
    <2>1. a \in Nat
      BY <1>3
    <2>2. referee \in 0..a /\ referrer \in 0..a
      <3>1. RefereeBps \in 0..BPS_DENOMINATOR /\ ReferrerBps \in 0..BPS_DENOMINATOR
        BY PoolAssumption
      <3>2. QED
        BY <2>1, <3>1, BpsBound
    <2>3. /\ held' = held + a - referee
          /\ rewardPool' = rewardPool - (referrer + referee)
          /\ totalDeposited' = totalDeposited + a
          /\ insuranceFund' = insuranceFund /\ reserves' = reserves
      BY <1>5 DEF deposit_referred, mint, credit
    <2> HIDE DEF referee, referrer
    <2>4. QED
      BY <1>1, <2>1, <2>2, <2>3 DEF Solvent
  <1>6. ASSUME NEW u \in Users, NEW a \in ReferredAmounts, do_stake(u, a)
        PROVE  Solvent'
    <2>1. /\ held' = held + a
          /\ totalDeposited' = totalDeposited + restake_amount(u, shares[u]) + a
          /\ rewardPool' = rewardPool /\ insuranceFund' = insuranceFund
          /\ reserves' = reserves
      BY <1>6 DEF do_stake
    <2>2. QED
      BY <1>1, <1>2, <1>3, <2>1 DEF Solvent
  <1>7. ASSUME NEW u \in Users, NEW a \in DelegatedAmounts, stake_for(u, a)
        PROVE  Solvent'
    BY <1>1, <1>3, <1>7 DEF stake_for, credit, Solvent
  <1>8. ASSUME NEW u \in Users, NEW c \in Nat, NEW b \in Nat, do_unstake_to(u, c, b)
        PROVE  Solvent'
    <2> DEFINE restake   == restake_amount(u, c)
               S         == totalShares + amount_to_shares(totalShares, totalDeposited, restake)
               D         == totalDeposited + restake
               amount    == shares_to_amount(S, D, b)
               penalised == is_locked(u) /\ u \notin restaked
               net       == amount - IF penalised THEN bps(amount, PenaltyBps) ELSE 0
               fee       == IF withdraw_only THEN 0 ELSE bps(net, UnstakeFeeBps)
               insurance == bps(fee, InsuranceFeeBps)
               recycled  == bps(fee - insurance, RecycleBps)
               revenue   == bps(fee - insurance - recycled, RevenueBps)
               treasury  == fee - insurance - recycled - revenue
    <2>1. restake = 0
      BY <1>2
    <2>2. amount \in Nat
      <3>1. totalShares \in Nat /\ totalDeposited \in Nat /\ restake \in Nat
        BY <2>1 DEF TypeOK
      <3>2. amount_to_shares(totalShares, totalDeposited, restake) \in Nat
        BY <3>1, MintDefaultNat
      <3>3. S \in Nat /\ D \in Nat
        BY <3>1, <3>2
      <3> HIDE DEF S, D
      <3>4. QED
        BY <3>3, RedeemNat
    <2>3. penalised \in BOOLEAN /\ withdraw_only \in BOOLEAN
      BY DEF is_locked, withdraw_only
    <2>4. /\ net = amount - (IF penalised THEN bps(amount, PenaltyBps) ELSE 0)
          /\ fee = (IF withdraw_only THEN 0 ELSE bps(net, UnstakeFeeBps))
          /\ insurance = bps(fee, InsuranceFeeBps)
          /\ recycled = bps(fee - insurance, RecycleBps)
          /\ revenue = bps(fee - insurance - recycled, RevenueBps)
          /\ treasury = fee - insurance - recycled - revenue
      OBVIOUS
    <2>5. /\ totalDeposited' = D - net
          /\ reserves' = reserves + insurance + revenue
          /\ rewardPool' = rewardPool + recycled + (IF HasFeeRecipients THEN 0 ELSE treasury)
          /\ held' = held - ((net - fee) + IF HasFeeRecipients THEN treasury ELSE 0)
          /\ insuranceFund' = insuranceFund
      BY <1>8 DEF do_unstake_to
    <2>6. D = totalDeposited
      BY <1>1, <2>1
    <2> HIDE DEF D, amount, penalised, net, fee, insurance, recycled, revenue, treasury
    <2>7. /\ net \in 0..amount /\ fee \in 0..net
          /\ insurance \in Nat /\ recycled \in Nat /\ revenue \in Nat
          /\ treasury \in Nat
      BY <2>2, <2>3, <2>4, ExitAmounts
    <2>8. net \in Nat /\ fee \in Nat
      BY <2>2, <2>7
    <2>9. treasury = fee - insurance - recycled - revenue
      BY <2>4
    <2>10. CASE HasFeeRecipients
      BY <1>1, <2>5, <2>6, <2>7, <2>8, <2>9, <2>10 DEF Solvent
    <2>11. CASE ~HasFeeRecipients
      BY <1>1, <2>5, <2>6, <2>7, <2>8, <2>9, <2>11 DEF Solvent
    <2>12. QED
      BY <2>10, <2>11
  <1>9. ASSUME NEW u \in Users,
               \/ \E s \in 1..shares[u] : withdraw(u, s)
               \/ execute_withdrawal(u)
        PROVE  Solvent'
    <2>1. /\ shares[u] \in Nat /\ pending[u].shares \in Nat
          /\ shares[u] + pending[u].shares \in Nat
          /\ \A s \in 1..shares[u] : s \in Nat
      BY DEF TypeOK
    <2>2. QED
      BY <1>8, <1>9, <2>1 DEF withdraw, execute_withdrawal
  <1>10. ASSUME NEW u \in Users, \E s \in 1..shares[u] : request_withdrawal(u, s)
         PROVE  Solvent'
    BY <1>10 DEF request_withdrawal, funds, Solvent
  <1>11. ASSUME NEW u \in Users, emergency_withdraw(u)
         PROVE  Solvent'
    <2>1. shares_to_amount(totalShares, totalDeposited, shares[u]) \in Nat
      BY RedeemNat DEF TypeOK
    <2>2. QED
      BY <1>1, <1>11, <2>1 DEF emergency_withdraw, Solvent
  <1>12. ASSUME NEW u \in Users, claim(u)
         PROVE  Solvent'
    <2> DEFINE reward == accrued_after(u, shares[u])
               kept == BPS_DENOMINATOR - InsuranceRateBps
               user_reward == (reward * kept) \div BPS_DENOMINATOR
    <2>1. shares[u] \in Nat
      BY DEF TypeOK
    <2>2. reward \in Nat
      BY <2>1, AccrualNat
    <2>3. kept \in 0..BPS_DENOMINATOR
      <3>1. InsuranceRateBps \in 0..BPS_DENOMINATOR
        BY PoolAssumption
      <3>2. QED
        BY <3>1 DEF BPS_DENOMINATOR
    <2>4. user_reward \in 0..reward
      <3>1. bps(reward, kept) \in 0..reward
        <4> HIDE DEF reward, kept
        <4>1. QED
          BY <2>2, <2>3, BpsBound
      <3>2. QED
        BY <3>1 DEF bps
    <2>5. /\ rewardPool' = rewardPool - reward
          /\ insuranceFund' = insuranceFund + (reward - user_reward)
          /\ held' = held - user_reward
          /\ reserves' = reserves /\ totalDeposited' = totalDeposited
      BY <1>12 DEF claim, position
    <2> HIDE DEF reward, user_reward
    <2>6. QED
      BY <1>1, <2>2, <2>4, <2>5 DEF Solvent
  <1>13. ASSUME NEW u \in Users, NEW a \in SlashAmounts, slash(u, a)
         PROVE  Solvent'
    <2> DEFINE value  == shares_to_amount(totalShares, totalDeposited, shares[u])
               actual == Min({a, value})
    <2>1. value \in Nat /\ a \in Nat
      BY <1>3, RedeemNat DEF TypeOK
    <2>2. actual \in Nat
      <3> HIDE DEF value
      <3>1. a <= value \/ value <= a
        BY <2>1
      <3>2. QED
        BY <2>1, <3>1 DEF Min
    <2>3. /\ totalDeposited' = totalDeposited - actual
          /\ held' = IF RedistributePenalty THEN held ELSE held - actual
          /\ rewardPool' = rewardPool /\ insuranceFund' = insuranceFund
          /\ reserves' = reserves
      BY <1>13 DEF slash
    <2> HIDE DEF actual
    <2>4. QED
      BY <1>1, <2>2, <2>3 DEF Solvent
  <1>14. ASSUME NEW u \in Users, NEW to \in Users,
                transfer_position(u, to) \/ transfer_position_with_rewards(u, to)
         PROVE  Solvent'
    BY <1>14 DEF transfer_position, transfer_position_with_rewards, move_shares, funds,
                 Solvent
  <1>15. ASSUME NEW a \in YieldAmounts, add_yield(a)
         PROVE  Solvent'
    BY <1>1, <1>3, <1>15 DEF add_yield, Solvent
  <1>16. ASSUME NEW a \in FundAmounts, fund_reward_pool(a) \/ deploy_insurance_fund(a)
         PROVE  Solvent'
    BY <1>1, <1>3, <1>16 DEF fund_reward_pool, deploy_insurance_fund, position, Solvent
  <1>17. ASSUME set_mode \/ close_ledger \/ UNCHANGED vars
         PROVE  Solvent'
    BY <1>17 DEF set_mode, close_ledger, vars, position, funds, Solvent
  <1>18. QED
    BY <1>4, <1>5, <1>6, <1>7, <1>9, <1>10, <1>11, <1>12, <1>13, <1>14, <1>15, <1>16,
       <1>17 DEF Next

\* INV-3 of docs/INVARIANTS.md for every value of the constants, provided
\* nobody compounds and claim_partial is not used: the token balance covers the
\* principal, the reward pool, the insurance fund and the reserves.
THEOREM PoolSolvent ==
    ASSUME AutoRestakers = {}, PartialAmounts = {}
    PROVE  Spec => []Solvent
  <1>1. Init => Solvent
    BY DEF Init, Solvent
  <1>2. TypeOK /\ Solvent /\ [Next]_vars => Solvent'
    BY StepSolvent
  <1>3. QED
    BY <1>1, <1>2, TypeCorrect, PTL DEF Spec

-------------------------------------------------------------------------------
(* The shares the users hold are backed by TotalShares. *)

\* p is the running total of h, and grows along the users.
RunningTotal(h, p) ==
    /\ \A u \in Users : p[u] = h[u] + IF u = 1 THEN 0 ELSE p[u - 1]
    /\ \A u, v \in Users : u <= v => p[u] <= p[v]

\* The total of h is at most T.
TotalWithin(h, T) == \E p \in [Users -> 0..T] : RunningTotal(h, p)

\* Rewriting one entry changes the total by the difference.
LEMMA AdjustTotal ==
    ASSUME NEW h \in [Users -> Nat], NEW T \in Nat, TotalWithin(h, T),
           NEW u \in Users, NEW x \in Nat
    PROVE  /\ T - h[u] + x \in Nat
           /\ TotalWithin([h EXCEPT ![u] = x], T - h[u] + x)
  <1>1. PICK p \in [Users -> 0..T] : RunningTotal(h, p)
    BY DEF TotalWithin
  <1>2. N \in Nat /\ Users = 1..N
    BY PoolAssumption DEF Users
  <1> DEFINE g == [h EXCEPT ![u] = x]
             B == T - h[u] + x
             q == [v \in Users |-> IF v < u THEN p[v] ELSE p[v] - h[u] + x]
  <1>3. \A v \in Users : /\ v \in Nat /\ p[v] \in Nat /\ p[v] <= T /\ h[v] \in Nat
                         /\ v # 1 => v - 1 \in Users
    BY <1>2
  <1>4. \A v \in Users : p[v] = h[v] + IF v = 1 THEN 0 ELSE p[v - 1]
    BY <1>1 DEF RunningTotal
  <1>5. \A v, w \in Users : v <= w => p[v] <= p[w]
    BY <1>1 DEF RunningTotal
  <1>6. \A v \in Users : v < u => p[v] + h[u] <= p[u]
    <2>1. TAKE v \in Users
    <2>2. HAVE v < u
    <2>3. u # 1 /\ u - 1 \in Users /\ v <= u - 1
      BY <1>2, <1>3, <2>2
    <2>4. p[v] <= p[u - 1]
      BY <1>5, <2>3
    <2>5. p[u] = h[u] + p[u - 1]
      BY <1>4, <2>3
    <2>6. QED
      BY <1>3, <2>3, <2>4, <2>5
  <1>7. p[u] >= h[u]
    <2>1. CASE u = 1
      BY <1>3, <1>4, <2>1
    <2>2. CASE u # 1
      BY <1>3, <1>4, <2>2
    <2>3. QED
      BY <2>1, <2>2
  <1>8. B \in Nat
    BY <1>3, <1>7
  <1>9. \A v \in Users : q[v] \in 0..B
    <2>1. TAKE v \in Users
    <2>2. CASE v < u
      BY <1>3, <1>6, <1>8, <2>2
    <2>3. CASE ~(v < u)
      <3>1. p[u] <= p[v]
        BY <1>3, <1>5, <2>3
      <3>2. QED
        BY <1>3, <1>7, <1>8, <2>3, <3>1
    <2>4. QED
      BY <2>2, <2>3
  <1>10. \A v \in Users : q[v] = g[v] + IF v = 1 THEN 0 ELSE q[v - 1]
    <2>1. TAKE v \in Users
    <2>2. CASE v = 1
      <3>1. u = v \/ v < u
        BY <1>2, <2>2
      <3>2. QED
        BY <1>3, <1>4, <2>2, <3>1
    <2>3. CASE v # 1
      <3>1. v - 1 \in Users /\ p[v] = h[v] + p[v - 1]
        BY <1>3, <1>4, <2>3
      <3>2. CASE v < u
        BY <1>3, <2>3, <3>1, <3>2
      <3>3. CASE v = u
        BY <1>3, <2>3, <3>1, <3>3
      <3>4. CASE u < v
        BY <1>3, <2>3, <3>1, <3>4
      <3>5. QED
        BY <1>3, <3>2, <3>3, <3>4
    <2>4. QED
      BY <2>2, <2>3
  <1>11. \A v, w \in Users : v <= w => q[v] <= q[w]
    <2>1. TAKE v, w \in Users
    <2>2. HAVE v <= w
    <2>3. p[v] <= p[w]
      BY <1>5, <2>2
    <2>4. CASE v < u /\ ~(w < u)
      <3>1. p[u] <= p[w] /\ p[v] + h[u] <= p[u]
        BY <1>3, <1>5, <1>6, <2>4
      <3>2. QED
        BY <1>3, <2>4, <3>1
    <2>5. CASE ~(v < u /\ ~(w < u))
      BY <1>3, <2>2, <2>3, <2>5
    <2>6. QED
      BY <2>4, <2>5
  <1>12. q \in [Users -> 0..B]
    BY <1>9
  <1>13. RunningTotal(g, q)
    BY <1>10, <1>11 DEF RunningTotal
  <1>14. QED
    BY <1>8, <1>12, <1>13 DEF TotalWithin

\* A total within S is within anything larger.
LEMMA WidenTotal ==
    ASSUME NEW h, NEW S \in Nat, NEW T \in Nat, S <= T, TotalWithin(h, S)
    PROVE  TotalWithin(h, T)
  <1>1. [Users -> 0..S] \subseteq [Users -> 0..T]
    OBVIOUS
  <1>2. QED
    BY <1>1 DEF TotalWithin

\* The strengthening of SharesBacked that is inductive: the running total of
\* the holdings also grows along the users.
HoldingsBacked == TotalWithin([u \in Users |-> holding(u)], totalShares)

\* A call that touches one user's holding keeps the holdings backed if it does
\* not take more out of TotalShares than out of the holding.
LEMMA OneUserStep ==
    ASSUME TypeOK, TypeOK', HoldingsBacked, NEW u \in Users,
           \A v \in Users \ {u} : shares'[v] = shares[v] /\ pending'[v] = pending[v],
           totalShares' - (shares'[u] + pending'[u].shares)
                >= totalShares - (shares[u] + pending[u].shares)
    PROVE  HoldingsBacked'
  <1> DEFINE h == [v \in Users |-> holding(v)]
             x == shares'[u] + pending'[u].shares
             T == totalShares - h[u] + x
  <1>1. /\ \A v \in Users : holding(v) \in Nat
        /\ totalShares \in Nat /\ totalShares' \in Nat
    BY DEF TypeOK, holding
  <1>2. x \in Nat
    BY DEF TypeOK
  <1>3. h \in [Users -> Nat] /\ h[u] = holding(u)
    BY <1>1
  <1>4. T \in Nat /\ TotalWithin([h EXCEPT ![u] = x], T)
    <2> HIDE DEF h, x
    <2>1. TotalWithin(h, totalShares)
      BY DEF HoldingsBacked, h
    <2>2. QED
      BY <1>1, <1>2, <1>3, <2>1, AdjustTotal
  <1>5. T <= totalShares'
    <2>1. totalShares' - x >= totalShares - h[u]
      BY <1>3 DEF holding
    <2> HIDE DEF h, x
    <2>2. h[u] \in Nat
      BY <1>3
    <2>3. QED
      BY <1>1, <1>2, <2>1, <2>2
  <1>6. [h EXCEPT ![u] = x] = [v \in Users |-> shares'[v] + pending'[v].shares]
    BY DEF holding
  <1>7. TotalWithin([h EXCEPT ![u] = x], totalShares')
    <2> HIDE DEF h, x, T
    <2>1. QED
      BY <1>1, <1>4, <1>5, WidenTotal
  <1>8. QED
    BY <1>6, <1>7 DEF HoldingsBacked, holding

\* A call that writes no share balance keeps the holdings backed.
LEMMA SameHoldings ==
    ASSUME HoldingsBacked, UNCHANGED <<shares, pending, totalShares>>
    PROVE  HoldingsBacked'
  BY DEF HoldingsBacked, holding, TotalWithin, RunningTotal

\* Two users: what leaves one holding arrives in the other.
LEMMA MoveBacked ==
    ASSUME TypeOK, HoldingsBacked, NEW from \in Users, NEW to \in Users,
           move_shares(from, to)
    PROVE  HoldingsBacked'
  <1> DEFINE h == [v \in Users |-> holding(v)]
             a == pending[from].shares
             b == shares[from] + pending[to].shares
             g == [h EXCEPT ![from] = a]
             T == totalShares - h[from] + a
  <1>1. /\ \A v \in Users : shares[v] \in Nat /\ pending[v].shares \in Nat
        /\ totalShares \in Nat
    BY DEF TypeOK
  <1>2. /\ shares[to] = 0 /\ from # to
        /\ shares' = [shares EXCEPT ![to] = shares[from], ![from] = 0]
        /\ pending' = pending /\ totalShares' = totalShares
    BY DEF move_shares
  <1>3. h \in [Users -> Nat] /\ a \in Nat /\ b \in Nat
    BY <1>1 DEF holding
  <1>4. T \in Nat /\ TotalWithin(g, T)
    <2> HIDE DEF h, a
    <2>1. TotalWithin(h, totalShares)
      BY DEF HoldingsBacked, h
    <2>2. QED
      BY <1>1, <1>3, <2>1, AdjustTotal
  <1>5. g \in [Users -> Nat] /\ g[to] = pending[to].shares
    BY <1>1, <1>2, <1>3 DEF holding
  <1>6. TotalWithin([g EXCEPT ![to] = b], T - g[to] + b)
    <2> HIDE DEF g, b, T
    <2>1. QED
      BY <1>3, <1>4, <1>5, AdjustTotal
  <1>7. T - g[to] + b = totalShares
    <2>1. h[from] = shares[from] + a
      BY <1>1 DEF holding
    <2>2. T = totalShares - h[from] + a
      OBVIOUS
    <2> HIDE DEF h, g, T, a
    <2>3. QED
      BY <1>1, <1>3, <1>5, <2>1, <2>2
  <1>8. [g EXCEPT ![to] = b] = [v \in Users |-> shares'[v] + pending'[v].shares]
    <2>1. \A v \in Users : [g EXCEPT ![to] = b][v] = shares'[v] + pending'[v].shares
      <3>1. TAKE v \in Users
      <3>2. shares'[v] = IF v = from THEN 0 ELSE IF v = to THEN shares[from] ELSE shares[v]
        BY <1>2 DEF TypeOK
      <3>3. [g EXCEPT ![to] = b][v] = IF v = to THEN b ELSE IF v = from THEN a ELSE h[v]
        OBVIOUS
      <3>4. h[v] = shares[v] + pending[v].shares
        BY DEF holding
      <3> HIDE DEF g, h
      <3>5. QED
        BY <1>1, <1>2, <3>2, <3>3, <3>4
    <2>2. DOMAIN [g EXCEPT ![to] = b] = Users
      OBVIOUS
    <2>3. [g EXCEPT ![to] = b] = [v \in Users |-> [g EXCEPT ![to] = b][v]]
      BY <2>2
    <2> HIDE DEF g
    <2>4. QED
      BY <2>1, <2>3
  <1>9. TotalWithin([v \in Users |-> shares'[v] + pending'[v].shares], totalShares')
    <2> HIDE DEF h, g, T, a, b
    <2>1. QED
      BY <1>2, <1>6, <1>7, <1>8
  <1>10. QED
    BY <1>9 DEF HoldingsBacked, holding

\* No call takes shares out of TotalShares that a user can still redeem.
LEMMA StepBacked == TypeOK /\ HoldingsBacked /\ [Next]_vars => HoldingsBacked'
  <1> SUFFICES ASSUME TypeOK, HoldingsBacked, [Next]_vars
               PROVE  HoldingsBacked'
    OBVIOUS
  <1>1. TypeOK'
    BY StepTyped
  <1>2. /\ \A u \in Users : shares[u] \in Nat /\ pending[u].shares \in Nat
        /\ totalShares \in Nat /\ totalDeposited \in Nat
        /\ DOMAIN shares = Users /\ DOMAIN pending = Users
    BY DEF TypeOK
  <1>3. ASSUME NEW u \in Users, NEW m \in Nat,
               shares' = [shares EXCEPT ![u] = @ + m],
               totalShares' = totalShares + m, pending' = pending
        PROVE  HoldingsBacked'
    BY <1>1, <1>2, <1>3, OneUserStep
  <1>4. ASSUME NEW u \in Users, NEW a \in StakeAmounts, stake(u, a) \/ deposit_referred(u, a)
        PROVE  HoldingsBacked'
    <2> DEFINE m == amount_to_shares_with_decimals(totalShares, totalDeposited, a,
                                                   ScaleUp, ScaleDown)
    <2>1. m \in Nat
      BY <1>2, MintNat, AmountsNat, PoolAssumption
    <2>2. mint(u, a)
      BY <1>4 DEF stake, deposit_referred
    <2>3. credit(u, m, a) /\ pending' = pending
      BY <2>2 DEF mint
    <2> HIDE DEF m
    <2>4. QED
      BY <1>3, <2>1, <2>3 DEF credit
  <1>5. ASSUME NEW u \in Users, NEW a \in ReferredAmounts, do_stake(u, a)
        PROVE  HoldingsBacked'
    <2> DEFINE restake == restake_amount(u, shares[u])
               bonus   == amount_to_shares(totalShares, totalDeposited, restake)
               S       == totalShares + bonus
               D       == totalDeposited + restake
               minted  == amount_to_shares(S, D, a)
    <2>1. restake \in Nat
      BY <1>2, AccrualNat
    <2>2. bonus \in Nat
      BY <1>2, <2>1, MintDefaultNat
    <2>3. S \in Nat /\ D \in Nat /\ a \in Nat
      BY <1>2, <2>1, <2>2, AmountsNat
    <2>4. minted \in Nat
      <3> HIDE DEF S, D
      <3>1. QED
        BY <2>3, MintDefaultNat
    <2>5. /\ shares' = [shares EXCEPT ![u] = @ + bonus + minted]
          /\ totalShares' = totalShares + bonus + minted /\ pending' = pending
      BY <1>5 DEF do_stake
    <2> HIDE DEF bonus, minted
    <2>6. /\ bonus + minted \in Nat
          /\ shares[u] + bonus + minted = shares[u] + (bonus + minted)
          /\ totalShares + bonus + minted = totalShares + (bonus + minted)
      BY <1>2, <2>2, <2>4
    <2>7. /\ shares' = [shares EXCEPT ![u] = @ + (bonus + minted)]
          /\ totalShares' = totalShares + (bonus + minted)
      BY <2>5, <2>6
    <2>8. QED
      BY <1>3, <2>5, <2>6, <2>7
  <1>6. ASSUME NEW u \in Users, NEW a \in DelegatedAmounts, stake_for(u, a)
        PROVE  HoldingsBacked'
    <2> DEFINE m == amount_to_shares(totalShares, totalDeposited, a)
    <2>1. m \in Nat
      BY <1>2, MintDefaultNat, AmountsNat
    <2>2. credit(u, m, a) /\ pending' = pending
      BY <1>6 DEF stake_for
    <2> HIDE DEF m
    <2>3. QED
      BY <1>3, <2>1, <2>2 DEF credit
  <1>7. ASSUME NEW u \in Users, NEW c \in Nat, NEW b \in Nat, do_unstake_to(u, c, b)
        PROVE  \E bonus \in Nat : /\ shares' = [shares EXCEPT ![u] = c - b]
                                  /\ totalShares' = totalShares + bonus - b
    <2>1. restake_amount(u, c) \in Nat
      BY AccrualNat
    <2>2. amount_to_shares(totalShares, totalDeposited, restake_amount(u, c)) \in Nat
      BY <1>2, <2>1, MintDefaultNat
    <2> DEFINE bonus == amount_to_shares(totalShares, totalDeposited, restake_amount(u, c))
    <2>3. shares' = [shares EXCEPT ![u] = c - b]
      BY <1>7 DEF do_unstake_to
    <2>4. totalShares' = (totalShares + bonus) - b
      <3> DEFINE S == totalShares + bonus
      <3>1. totalShares' = S - b
        BY <1>7 DEF do_unstake_to
      <3>2. QED
        BY <3>1
    <2>5. bonus \in Nat
      BY <2>2
    <2> HIDE DEF bonus
    <2>6. QED
      BY <1>2, <2>3, <2>4, <2>5
  <1>8. ASSUME NEW u \in Users, NEW s \in 1..shares[u], withdraw(u, s)
        PROVE  HoldingsBacked'
    <2>1. s \in Nat /\ pending' = pending
      BY <1>8 DEF withdraw
    <2>2. PICK bonus \in Nat : /\ shares' = [shares EXCEPT ![u] = shares[u] - s]
                               /\ totalShares' = totalShares + bonus - s
      BY <1>2, <1>7, <1>8, <2>1 DEF withdraw
    <2>3. QED
      BY <1>1, <1>2, <2>1, <2>2, OneUserStep
  <1>9. ASSUME NEW u \in Users, execute_withdrawal(u)
        PROVE  HoldingsBacked'
    <2> DEFINE b == pending[u].shares
               c == shares[u] + b
    <2>1. b \in Nat /\ c \in Nat /\ c - b = shares[u]
      BY <1>2
    <2>2. PICK bonus \in Nat : /\ shares' = [shares EXCEPT ![u] = c - b]
                               /\ totalShares' = totalShares + bonus - b
      BY <1>7, <1>9, <2>1 DEF execute_withdrawal
    <2>3. pending' = [pending EXCEPT ![u] = [shares |-> 0, at |-> 0]]
      BY <1>9 DEF execute_withdrawal
    <2>4. \A v \in Users \ {u} : shares'[v] = shares[v] /\ pending'[v] = pending[v]
      BY <1>2, <2>2, <2>3
    <2>5. /\ shares'[u] = shares[u] /\ pending'[u].shares = 0
          /\ totalShares' = totalShares + bonus - pending[u].shares
      BY <1>2, <2>1, <2>2, <2>3
    <2>6. totalShares' - (shares'[u] + pending'[u].shares)
            >= totalShares - (shares[u] + pending[u].shares)
      BY <1>2, <2>5
    <2>7. QED
      BY <1>1, <2>4, <2>6, OneUserStep
  <1>10. ASSUME NEW u \in Users, NEW s \in 1..shares[u], request_withdrawal(u, s)
         PROVE  HoldingsBacked'
    <2>1. /\ s \in Nat
          /\ shares' = [shares EXCEPT ![u] = shares[u] - s]
          /\ pending' = [pending EXCEPT ![u] = [shares |-> s, at |-> now]]
          /\ totalShares' = totalShares
      BY <1>10 DEF request_withdrawal
    <2>2. \A v \in Users \ {u} : shares'[v] = shares[v] /\ pending'[v] = pending[v]
      BY <1>2, <2>1
    <2>3. shares'[u] = shares[u] - s /\ pending'[u].shares = s
      BY <1>2, <2>1
    <2>4. totalShares' - (shares'[u] + pending'[u].shares)
            >= totalShares - (shares[u] + pending[u].shares)
      BY <1>2, <2>1, <2>3
    <2>5. QED
      BY <1>1, <2>2, <2>4, OneUserStep
  <1>11. ASSUME NEW u \in Users, NEW b \in Nat,
                shares' = [shares EXCEPT ![u] = @ - b],
                totalShares' = totalShares - b, pending' = pending
         PROVE  HoldingsBacked'
    BY <1>1, <1>2, <1>11, OneUserStep
  <1>12. ASSUME NEW u \in Users, emergency_withdraw(u)
         PROVE  HoldingsBacked'
    <2>1. shares[u] - shares[u] = 0
      BY <1>2
    <2>2. shares' = [shares EXCEPT ![u] = 0]
      BY <1>12 DEF emergency_withdraw
    <2>3. shares' = [shares EXCEPT ![u] = @ - shares[u]]
      BY <2>1, <2>2
    <2>4. QED
      BY <1>2, <1>11, <1>12, <2>3 DEF emergency_withdraw
  <1>13. ASSUME NEW u \in Users, NEW a \in SlashAmounts, slash(u, a)
         PROVE  HoldingsBacked'
    <2> DEFINE value  == shares_to_amount(totalShares, totalDeposited, shares[u])
               actual == Min({a, value})
               worth  == amount_to_shares(totalShares, totalDeposited, actual)
               burned == Min({worth, shares[u]})
    <2>1. value \in Nat /\ a \in Nat
      BY <1>2, RedeemNat, AmountsNat
    <2>2. \A x, y \in Nat : Min({x, y}) \in Nat
      <3>1. TAKE x, y \in Nat
      <3>2. x <= y \/ y <= x
        OBVIOUS
      <3>3. QED
        BY <3>2 DEF Min
    <2>3. actual \in Nat
      BY <2>1, <2>2
    <2>4. worth \in Nat
      <3> HIDE DEF actual
      <3>1. QED
        BY <1>2, <2>3, MintDefaultNat
    <2>5. burned \in Nat
      <3> HIDE DEF worth
      <3>1. QED
        BY <1>2, <2>2, <2>4
    <2>6. /\ shares' = [shares EXCEPT ![u] = @ - burned]
          /\ totalShares' = totalShares - burned /\ pending' = pending
      BY <1>13 DEF slash
    <2> HIDE DEF burned
    <2>7. QED
      BY <1>11, <2>5, <2>6
  <1>14. ASSUME NEW u \in Users, NEW to \in Users,
                transfer_position(u, to) \/ transfer_position_with_rewards(u, to)
         PROVE  HoldingsBacked'
    BY <1>14, MoveBacked DEF transfer_position, transfer_position_with_rewards
  <1>15. ASSUME \/ \E u \in Users : claim(u)
                \/ \E u \in Users, a \in PartialAmounts : claim_partial(u, a)
                \/ \E a \in YieldAmounts : add_yield(a)
                \/ \E a \in FundAmounts : fund_reward_pool(a) \/ deploy_insurance_fund(a)
                \/ set_mode \/ close_ledger \/ UNCHANGED vars
         PROVE  HoldingsBacked'
    <2>1. UNCHANGED <<shares, pending, totalShares>>
      BY <1>15 DEF claim, claim_partial, add_yield, fund_reward_pool,
         deploy_insurance_fund, set_mode, close_ledger, vars, position
    <2>2. QED
      BY <2>1, SameHoldings
  <1>16. QED
    BY <1>4, <1>5, <1>6, <1>8, <1>9, <1>10, <1>12, <1>13, <1>14, <1>15 DEF Next

\* INV-1 of docs/INVARIANTS.md in the direction users depend on, for any number
\* of users: balances and requested withdrawals together never exceed
\* TotalShares, compounding, overwritten requests and transfers included.
THEOREM HoldingsNeverExceedTotal == Spec => []SharesBacked
  <1>1. Init => HoldingsBacked
    <2> SUFFICES ASSUME Init PROVE HoldingsBacked
      OBVIOUS
    <2> DEFINE h == [u \in Users |-> holding(u)]
               p == [u \in Users |-> 0]
    <2>1. N \in Nat /\ Users = 1..N
      BY PoolAssumption DEF Users
    <2>2. \A u \in Users : holding(u) = 0 /\ p[u] = 0
      BY DEF Init, holding
    <2>3. \A u \in Users : u # 1 => u - 1 \in Users
      BY <2>1
    <2>4. h = [u \in Users |-> 0]
      BY <2>2
    <2>5. p \in [Users -> 0..totalShares]
      BY DEF Init
    <2>6. \A u \in Users : p[u] = h[u] + IF u = 1 THEN 0 ELSE p[u - 1]
      BY <2>3, <2>4
    <2>7. \A u, v \in Users : u <= v => p[u] <= p[v]
      BY <2>2
    <2>8. QED
      BY <2>5, <2>6, <2>7 DEF HoldingsBacked, TotalWithin, RunningTotal
  <1>2. HoldingsBacked => SharesBacked
    <2> SUFFICES ASSUME HoldingsBacked PROVE SharesBacked
      OBVIOUS
    <2>1. PICK p \in [Users -> 0..totalShares] :
              RunningTotal([u \in Users |-> holding(u)], p)
      BY DEF HoldingsBacked, TotalWithin
    <2>2. \A u \in Users : p[u] = holding(u) + IF u = 1 THEN 0 ELSE p[u - 1]
      BY <2>1 DEF RunningTotal
    <2>3. QED
      BY <2>2 DEF SharesBacked
  <1>3. QED
    BY <1>1, <1>2, StepBacked, TypeCorrect, PTL DEF Spec

-------------------------------------------------------------------------------
(* No phantom shares. *)

\* The users are finitely many.
LEMMA FiniteUsers == IsFiniteSet(Users)
  <1>1. 1 \in Int /\ N \in Int
    BY PoolAssumption
  <1> QED BY ONLY <1>1, FS_Interval DEF Users

\* A call that changes one user's holding and TotalShares by the same number.
LEMMA OneUserExact ==
    ASSUME TypeOK, TypeOK', NoPhantomShares, NEW u \in Users,
           \A v \in Users \ {u} : shares'[v] = shares[v] /\ pending'[v] = pending[v],
           totalShares' - (shares'[u] + pending'[u].shares)
                = totalShares - (shares[u] + pending[u].shares)
    PROVE  NoPhantomShares'
  <1> DEFINE h == [v \in Users |-> holding(v)]   g == [v \in Users |-> shares'[v] + pending'[v].shares]
  <1>0. \A v \in Users : /\ shares[v] \in Nat /\ pending[v].shares \in Nat
                         /\ shares'[v] \in Nat /\ pending'[v].shares \in Nat
    BY DEF TypeOK
  <1>1. h \in [Users -> Int] /\ g \in [Users -> Int] /\ IsFiniteSet(Users)
    <2>1. \A v \in Users : holding(v) \in Int /\ shares'[v] + pending'[v].shares \in Int
      BY <1>0 DEF holding
    <2> QED BY <2>1, FiniteUsers
  <1>2. \A v \in Users \ {u} : g[v] = h[v]
    BY DEF holding
  <1>3. h[u] = shares[u] + pending[u].shares /\ g[u] = shares'[u] + pending'[u].shares
    BY DEF holding
  <1>4. totalShares = sum(h)
    BY DEF NoPhantomShares
  <1>5. totalShares \in Int /\ totalShares' \in Int
    BY DEF TypeOK
  <1>6. NoPhantomShares' <=> totalShares' = sum(g)
    BY DEF NoPhantomShares, holding
  <1> HIDE DEF h, g
  <1>7. sum(g) = sum(h) + g[u] - h[u]
    BY ONLY <1>1, <1>2, SumChange, u \in Users
  <1>8. h[u] \in Int /\ g[u] \in Int
    BY <1>1
  <1>9. totalShares' - g[u] = totalShares - h[u]
    BY <1>3
  <1> QED BY ONLY <1>4, <1>5, <1>6, <1>7, <1>8, <1>9

\* A transfer moves one balance onto an empty one.
LEMMA MoveExact ==
    ASSUME TypeOK, TypeOK', NoPhantomShares, NEW from \in Users, NEW to \in Users, move_shares(from, to)
    PROVE  NoPhantomShares'
  <1> DEFINE h == [v \in Users |-> holding(v)]
             f == [h EXCEPT ![from] = pending[from].shares]
             g == [v \in Users |-> shares'[v] + pending'[v].shares]
  <1>1. /\ \A v \in Users : shares[v] \in Nat /\ pending[v].shares \in Nat /\ shares'[v] \in Nat /\ pending'[v].shares \in Nat
        /\ DOMAIN shares = Users /\ totalShares \in Int
    BY DEF TypeOK
  <1>2. /\ shares[to] = 0 /\ from # to
        /\ shares' = [shares EXCEPT ![to] = shares[from], ![from] = 0]
        /\ pending' = pending /\ totalShares' = totalShares
    BY DEF move_shares
  <1>3. \A v \in Users : shares'[v] = IF v = from THEN 0 ELSE IF v = to THEN shares[from] ELSE shares[v]
    BY <1>1, <1>2
  <1>4. \A v \in Users : h[v] = shares[v] + pending[v].shares /\ g[v] = shares'[v] + pending[v].shares
    BY <1>2 DEF holding
  <1>5. h \in [Users -> Int] /\ g \in [Users -> Int] /\ IsFiniteSet(Users)
    <2>1. \A v \in Users : holding(v) \in Int /\ shares'[v] + pending'[v].shares \in Int
      BY <1>1 DEF holding
    <2> QED BY <2>1, FiniteUsers
  <1>6. totalShares = sum(h)
    BY DEF NoPhantomShares
  <1>7. NoPhantomShares' <=> totalShares' = sum(g)
    BY DEF NoPhantomShares, holding
  <1> HIDE DEF h, g
  <1>8. f \in [Users -> Int] /\ f[from] = pending[from].shares /\ \A v \in Users \ {from} : f[v] = h[v]
    BY <1>1, <1>5
  <1> HIDE DEF f
  <1>9. sum(f) = sum(h) + f[from] - h[from]
    BY ONLY <1>5, <1>8, SumChange, from \in Users
  <1>10. \A v \in Users \ {to} : g[v] = f[v]
    BY <1>1, <1>3, <1>4, <1>8
  <1>11. sum(g) = sum(f) + g[to] - f[to]
    BY ONLY <1>5, <1>8, <1>10, SumChange, to \in Users
  <1>12. /\ f[from] = pending[from].shares /\ h[from] = shares[from] + pending[from].shares
         /\ g[to] = shares[from] + pending[to].shares /\ f[to] = pending[to].shares
    BY <1>1, <1>2, <1>3, <1>4, <1>8
  <1>13. sum(h) \in Int
    BY <1>6, <1>1
  <1> QED BY <1>1, <1>2, <1>6, <1>7, <1>9, <1>11, <1>12, <1>13

\* What an exit burns when nothing compounds in it.
LEMMA ExitExact ==
    ASSUME TypeOK, AutoRestakers = {}, NEW u \in Users, NEW c \in Nat, NEW b \in Nat, do_unstake_to(u, c, b)
    PROVE  shares' = [shares EXCEPT ![u] = c - b] /\ totalShares' = totalShares - b
  <1> DEFINE restake == restake_amount(u, c)
             bonus == amount_to_shares(totalShares, totalDeposited, restake)
  <1>1. restake = 0
    BY DEF restake_amount
  <1>2. bonus = 0
    <2>1. totalShares \in Nat /\ totalDeposited \in Nat
      BY DEF TypeOK
    <2>2. amount_to_shares(totalShares, totalDeposited, 0) = 0
      BY <2>1 DEF amount_to_shares, amount_to_shares_with_decimals, scale_amount
    <2> QED BY <1>1, <2>2
  <1>3. shares' = [shares EXCEPT ![u] = c - b] /\ totalShares' = (totalShares + bonus) - b
    BY DEF do_unstake_to
  <1> HIDE DEF bonus
  <1> QED BY <1>2, <1>3 DEF TypeOK

\* A slash burns one natural number of shares.
LEMMA SlashBurns ==
    ASSUME TypeOK, NEW u \in Users, NEW a \in SlashAmounts, slash(u, a)
    PROVE  \E burned \in Nat : /\ shares' = [shares EXCEPT ![u] = @ - burned]
                               /\ totalShares' = totalShares - burned /\ pending' = pending
  <1>1. shares[u] \in Nat /\ totalShares \in Nat /\ totalDeposited \in Nat
    BY DEF TypeOK
  <1> DEFINE value  == shares_to_amount(totalShares, totalDeposited, shares[u])
             actual == Min({a, value})
             worth  == amount_to_shares(totalShares, totalDeposited, actual)
             burned == Min({worth, shares[u]})
  <1>2. value \in Nat /\ a \in Nat
    BY <1>1, RedeemNat, AmountsNat
  <1>3. \A x, y \in Nat : Min({x, y}) \in Nat
    <2> SUFFICES ASSUME NEW x \in Nat, NEW y \in Nat PROVE Min({x, y}) \in Nat
      OBVIOUS
    <2>1. x <= y \/ y <= x
      OBVIOUS
    <2> QED BY <2>1 DEF Min
  <1>4. actual \in Nat
    BY <1>2, <1>3
  <1>5. worth \in Nat
    <2> HIDE DEF actual
    <2> QED BY <1>1, <1>4, MintDefaultNat
  <1>6. burned \in Nat
    <2> HIDE DEF worth
    <2> QED BY <1>1, <1>3, <1>5
  <1>7. /\ shares' = [shares EXCEPT ![u] = @ - burned]
        /\ totalShares' = totalShares - burned /\ pending' = pending
    BY DEF slash
  <1> HIDE DEF burned
  <1> QED BY <1>6, <1>7

\* Every step keeps the total exact.
LEMMA StepExact ==
    ASSUME TypeOK, NoPhantomShares, AutoRestakers = {}, Cooldowners = {}, [Next]_vars
    PROVE  NoPhantomShares'
  <1>1. TypeOK'
    BY StepTyped
  <1>2. /\ \A u \in Users : shares[u] \in Nat /\ pending[u].shares \in Nat
        /\ totalShares \in Nat /\ totalDeposited \in Nat
        /\ DOMAIN shares = Users /\ DOMAIN pending = Users
    BY DEF TypeOK
  <1>3. ASSUME NEW u \in Users, NEW m \in Nat,
               shares' = [shares EXCEPT ![u] = @ + m],
               totalShares' = totalShares + m, pending' = pending
        PROVE  NoPhantomShares'
    <2>1. shares'[u] = shares[u] + m /\ \A v \in Users \ {u} : shares'[v] = shares[v] /\ pending'[v] = pending[v]
      BY <1>2, <1>3
    <2>2. totalShares' - (shares'[u] + pending'[u].shares) = totalShares - (shares[u] + pending[u].shares)
      BY <1>2, <1>3, <2>1
    <2> QED BY <1>1, <2>1, <2>2, OneUserExact
  <1>4. ASSUME NEW u \in Users, NEW a \in StakeAmounts, stake(u, a) \/ deposit_referred(u, a)
        PROVE  NoPhantomShares'
    <2> DEFINE m == amount_to_shares_with_decimals(totalShares, totalDeposited, a, ScaleUp, ScaleDown)
    <2>1. m \in Nat
      BY <1>2, MintNat, AmountsNat, PoolAssumption
    <2>2. mint(u, a)
      BY <1>4 DEF stake, deposit_referred
    <2>3. credit(u, m, a) /\ pending' = pending
      BY <2>2 DEF mint
    <2> HIDE DEF m
    <2> QED BY <1>3, <2>1, <2>3 DEF credit
  <1>5. ASSUME NEW u \in Users, NEW a \in ReferredAmounts, do_stake(u, a)
        PROVE  NoPhantomShares'
    <2> DEFINE restake == restake_amount(u, shares[u])
               bonus   == amount_to_shares(totalShares, totalDeposited, restake)
               S       == totalShares + bonus
               D       == totalDeposited + restake
               minted  == amount_to_shares(S, D, a)
    <2>1. restake \in Nat
      BY <1>2, AccrualNat
    <2>2. bonus \in Nat
      BY <1>2, <2>1, MintDefaultNat
    <2>3. S \in Nat /\ D \in Nat /\ a \in Nat
      BY <1>2, <2>1, <2>2, AmountsNat
    <2>4. minted \in Nat
      <3> HIDE DEF S, D
      <3> QED BY <2>3, MintDefaultNat
    <2>5. /\ shares' = [shares EXCEPT ![u] = @ + bonus + minted]
          /\ totalShares' = totalShares + bonus + minted /\ pending' = pending
      BY <1>5 DEF do_stake
    <2> HIDE DEF bonus, minted
    <2>6. /\ bonus + minted \in Nat
          /\ shares[u] + bonus + minted = shares[u] + (bonus + minted)
          /\ totalShares + bonus + minted = totalShares + (bonus + minted)
      BY <1>2, <2>2, <2>4
    <2>7. /\ shares' = [shares EXCEPT ![u] = @ + (bonus + minted)]
          /\ totalShares' = totalShares + (bonus + minted)
      BY <2>5, <2>6
    <2> QED BY <1>3, <2>5, <2>6, <2>7
  <1>6. ASSUME NEW u \in Users, NEW a \in DelegatedAmounts, stake_for(u, a)
        PROVE  NoPhantomShares'
    <2> DEFINE m == amount_to_shares(totalShares, totalDeposited, a)
    <2>1. m \in Nat
      BY <1>2, MintDefaultNat, AmountsNat
    <2>2. credit(u, m, a) /\ pending' = pending
      BY <1>6 DEF stake_for
    <2> HIDE DEF m
    <2> QED BY <1>3, <2>1, <2>2 DEF credit
  <1>7. ASSUME NEW u \in Users, NEW b \in Nat,
               shares' = [shares EXCEPT ![u] = shares[u] - b],
               totalShares' = totalShares - b, pending' = pending
        PROVE  NoPhantomShares'
    <2>1. shares'[u] = shares[u] - b /\ \A v \in Users \ {u} : shares'[v] = shares[v] /\ pending'[v] = pending[v]
      BY <1>2, <1>7
    <2>2. totalShares' - (shares'[u] + pending'[u].shares) = totalShares - (shares[u] + pending[u].shares)
      BY <1>2, <1>7, <2>1
    <2> QED BY <1>1, <2>1, <2>2, OneUserExact
  <1>8. ASSUME NEW u \in Users, NEW s \in 1..shares[u], withdraw(u, s)
        PROVE  NoPhantomShares'
    <2>1. s \in Nat /\ pending' = pending
      BY <1>2, <1>8 DEF withdraw
    <2>2. shares' = [shares EXCEPT ![u] = shares[u] - s] /\ totalShares' = totalShares - s
      BY <1>2, <1>8, <2>1, ExitExact DEF withdraw
    <2> QED BY <1>7, <2>1, <2>2
  <1>9. ASSUME NEW u \in Users, execute_withdrawal(u)
        PROVE  NoPhantomShares'
    <2> DEFINE b == pending[u].shares   c == shares[u] + b
    <2>1. b \in Nat /\ c \in Nat /\ c - b = shares[u]
      BY <1>2
    <2>2. shares' = [shares EXCEPT ![u] = c - b] /\ totalShares' = totalShares - b
      BY <1>9, <2>1, ExitExact DEF execute_withdrawal
    <2>3. pending' = [pending EXCEPT ![u] = [shares |-> 0, at |-> 0]]
      BY <1>9 DEF execute_withdrawal
    <2>4. \A v \in Users \ {u} : shares'[v] = shares[v] /\ pending'[v] = pending[v]
      BY <1>2, <2>2, <2>3
    <2>5. /\ shares'[u] = shares[u] /\ pending'[u].shares = 0
          /\ totalShares' = totalShares - pending[u].shares
      BY <1>2, <2>1, <2>2, <2>3
    <2>6. totalShares' - (shares'[u] + pending'[u].shares) = totalShares - (shares[u] + pending[u].shares)
      BY <1>2, <2>5
    <2> QED BY <1>1, <2>4, <2>6, OneUserExact
  <1>10. ASSUME NEW u \in Users, emergency_withdraw(u)
         PROVE  NoPhantomShares'
    <2>1. shares[u] - shares[u] = 0
      BY <1>2
    <2>2. shares' = [shares EXCEPT ![u] = 0]
      BY <1>10 DEF emergency_withdraw
    <2>3. shares' = [shares EXCEPT ![u] = shares[u] - shares[u]]
      BY <2>1, <2>2
    <2> QED BY <1>2, <1>7, <1>10, <2>3 DEF emergency_withdraw
  <1>11. ASSUME NEW u \in Users, NEW a \in SlashAmounts, slash(u, a)
         PROVE  NoPhantomShares'
    <2>1. PICK burned \in Nat : /\ shares' = [shares EXCEPT ![u] = @ - burned]
                                /\ totalShares' = totalShares - burned /\ pending' = pending
      BY <1>2, <1>11, SlashBurns
    <2> QED BY <1>7, <2>1
  <1>12. ASSUME NEW u \in Users, NEW to \in Users,
                transfer_position(u, to) \/ transfer_position_with_rewards(u, to)
         PROVE  NoPhantomShares'
    BY <1>1, <1>12, MoveExact DEF transfer_position, transfer_position_with_rewards
  <1>13. ASSUME UNCHANGED <<shares, pending, totalShares>>
         PROVE  NoPhantomShares'
    BY <1>13 DEF NoPhantomShares, holding
  <1>14. ASSUME \/ \E u \in Users : claim(u)
                \/ \E u \in Users, a \in PartialAmounts : claim_partial(u, a)
                \/ \E a \in YieldAmounts : add_yield(a)
                \/ \E a \in FundAmounts : fund_reward_pool(a) \/ deploy_insurance_fund(a)
                \/ set_mode \/ close_ledger \/ UNCHANGED vars
         PROVE  NoPhantomShares'
    BY <1>13, <1>14 DEF claim, claim_partial, add_yield, fund_reward_pool,
       deploy_insurance_fund, set_mode, close_ledger, vars, position
  <1>15. ASSUME NEW u \in Users, NEW s \in 1..shares[u], request_withdrawal(u, s)
         PROVE  FALSE
    BY <1>15 DEF request_withdrawal
  <1> QED BY <1>4, <1>5, <1>6, <1>8, <1>9, <1>10, <1>11, <1>12, <1>14, <1>15 DEF Next

\* INV-1 of docs/INVARIANTS.md to the letter: in a pool without compounding and without
\* withdrawal requests TotalShares is exactly what the users hold, for any number of users.
\* (Compounding exits and overwritten requests are what makes phantom shares.)
THEOREM TotalIsExact ==
    ASSUME AutoRestakers = {}, Cooldowners = {}
    PROVE  Spec => []NoPhantomShares
  <1>1. Init => NoPhantomShares
    <2> SUFFICES ASSUME Init PROVE NoPhantomShares
      OBVIOUS
    <2> DEFINE h == [u \in Users |-> holding(u)]
    <2>1. \A u \in Users : h[u] = 0
      BY DEF Init, holding
    <2>2. h \in [Users -> Int] /\ IsFiniteSet(Users) /\ totalShares = 0
      BY <2>1, FiniteUsers DEF Init
    <2>3. NoPhantomShares <=> totalShares = sum(h)
      BY DEF NoPhantomShares
    <2> HIDE DEF h
    <2>4. sum(h) = 0
      BY ONLY <2>1, <2>2, SumZero
    <2> QED BY <2>2, <2>3, <2>4
  <1>2. TypeOK /\ NoPhantomShares /\ [Next]_vars => NoPhantomShares'
    BY StepExact
  <1> QED BY <1>1, <1>2, TypeCorrect, PTL DEF Spec

-------------------------------------------------------------------------------
(* The share price. *)

\* No fall of the price in this step.
price_kept == totalDeposited' * totalShares >= totalDeposited * totalShares'

\* The two writes of an exit: it compounds, then redeems.
LEMMA ExitPrice ==
    ASSUME TypeOK, NEW u \in Users, NEW c \in Nat, NEW b \in Nat, do_unstake_to(u, c, b), totalShares # 0
    PROVE  price_kept
  <1> DEFINE restake   == restake_amount(u, c)
             bonus     == amount_to_shares(totalShares, totalDeposited, restake)
             S         == totalShares + bonus
             D         == totalDeposited + restake
             amount    == shares_to_amount(S, D, b)
             penalised == is_locked(u) /\ u \notin restaked
             net       == amount - IF penalised THEN bps(amount, PenaltyBps) ELSE 0
  <1>1. totalShares \in Nat \ {0} /\ totalDeposited \in Nat
    BY DEF TypeOK
  <1>2. restake \in Nat
    BY AccrualNat
  <1>3. bonus \in Nat
    BY <1>1, <1>2, MintDefaultNat
  <1>4. S \in Nat \ {0} /\ D \in Nat
    BY <1>1, <1>2, <1>3
  <1>5. amount \in Nat
    <2> HIDE DEF S, D
    <2> QED BY <1>4, RedeemNat
  <1>6. net \in 0..amount
    <2>1. PenaltyBps \in 0..BPS_DENOMINATOR
      BY PoolAssumption
    <2> HIDE DEF amount, penalised
    <2>2. bps(amount, PenaltyBps) \in 0..amount
      BY <1>5, <2>1, BpsBound
    <2>3. CASE penalised
      <3>1. net = amount - bps(amount, PenaltyBps)
        BY <2>3
      <3> QED BY <1>5, <2>2, <3>1
    <2>4. CASE ~penalised
      <3>1. net = amount - 0
        BY <2>4
      <3> QED BY <1>5, <3>1
    <2> QED BY <2>3, <2>4
  <1>7. totalShares' = S - b /\ totalDeposited' = D - net /\ S - b \in Nat /\ D - net \in Nat
    BY DEF do_unstake_to, assert_non_negative
  <1>8. D * totalShares >= totalDeposited * S
    <2>1. bonus = amount_to_shares_with_decimals(totalShares, totalDeposited, restake, 1, 1)
      BY DEF amount_to_shares
    <2> HIDE DEF restake, bonus
    <2> QED BY <1>1, <1>2, <1>3, <2>1, PriceMint
  <1>9. (D - net) * S >= D * (S - b)
    <2>1. net \in Nat /\ net <= shares_to_amount(S, D, b)
      BY <1>5, <1>6
    <2> HIDE DEF S, D, net
    <2> QED BY <1>4, <2>1, PriceRedeem
  <1> DEFINE S2 == S - b   D2 == D - net
  <1>10. S2 \in Nat /\ D2 \in Nat /\ D2 * S >= D * S2 /\ totalShares' = S2 /\ totalDeposited' = D2
    BY <1>7, <1>9
  <1> HIDE DEF S, D, S2, D2
  <1>11. D2 * totalShares >= totalDeposited * S2
    BY ONLY <1>1, <1>4, <1>8, <1>10, PriceChain
  <1> QED BY <1>10, <1>11 DEF price_kept

\* Both mints of do_stake.
LEMMA DoStakePrice ==
    ASSUME TypeOK, NEW u \in Users, NEW a \in Nat, do_stake(u, a), totalShares # 0
    PROVE  price_kept
  <1> DEFINE restake == restake_amount(u, shares[u])
             bonus   == amount_to_shares(totalShares, totalDeposited, restake)
             S       == totalShares + bonus
             D       == totalDeposited + restake
             minted  == amount_to_shares(S, D, a)
             S2      == S + minted
             D2      == D + a
  <1>1. totalShares \in Nat \ {0} /\ totalDeposited \in Nat /\ shares[u] \in Nat
    BY DEF TypeOK
  <1>2. restake \in Nat
    BY <1>1, AccrualNat
  <1>3. bonus \in Nat
    BY <1>1, <1>2, MintDefaultNat
  <1>4. S \in Nat \ {0} /\ D \in Nat
    BY <1>1, <1>2, <1>3
  <1>5. minted \in Nat
    <2> HIDE DEF S, D
    <2> QED BY <1>4, MintDefaultNat
  <1>6. D * totalShares >= totalDeposited * S
    <2>1. bonus = amount_to_shares_with_decimals(totalShares, totalDeposited, restake, 1, 1)
      BY DEF amount_to_shares
    <2> HIDE DEF restake, bonus
    <2> QED BY <1>1, <1>2, <1>3, <2>1, PriceMint
  <1>7. D2 * S >= D * S2
    <2>1. minted = amount_to_shares_with_decimals(S, D, a, 1, 1)
      BY DEF amount_to_shares
    <2> HIDE DEF S, D, minted
    <2> QED BY <1>4, <1>5, <2>1, PriceMint
  <1>8. totalShares' = S2 /\ totalDeposited' = D2
    BY DEF do_stake
  <1>9. S2 \in Nat /\ D2 \in Nat
    <2> HIDE DEF S, D, minted
    <2> QED BY <1>4, <1>5
  <1> HIDE DEF S, D, S2, D2
  <1>10. D2 * totalShares >= totalDeposited * S2
    BY ONLY <1>1, <1>4, <1>6, <1>7, <1>9, PriceChain
  <1> QED BY <1>8, <1>10 DEF price_kept

\* A single mint.
LEMMA CreditPrice ==
    ASSUME TypeOK, NEW u \in Users, NEW a \in Nat, NEW up \in Nat \ {0}, NEW down \in Nat \ {0}, totalShares # 0,
           credit(u, amount_to_shares_with_decimals(totalShares, totalDeposited, a, up, down), a)
    PROVE  price_kept
  <1> DEFINE m == amount_to_shares_with_decimals(totalShares, totalDeposited, a, up, down)
  <1>1. totalShares \in Nat \ {0} /\ totalDeposited \in Nat
    BY DEF TypeOK
  <1>2. m \in Nat
    BY <1>1, MintNat
  <1>3. totalShares' = totalShares + m /\ totalDeposited' = totalDeposited + a
    BY DEF credit
  <1>4. (totalDeposited + a) * totalShares >= totalDeposited * (totalShares + m)
    BY <1>1, <1>2, PriceMint
  <1> QED BY <1>3, <1>4 DEF price_kept

\* No step lowers the share price.
LEMMA StepPrice ==
    ASSUME TypeOK, [Next]_vars
    PROVE  \/ totalShares = 0 \/ (\E u \in Users, a \in SlashAmounts : slash(u, a)) \/ price_kept
  <1> SUFFICES ASSUME totalShares # 0, ~ \E u \in Users, a \in SlashAmounts : slash(u, a)
               PROVE  price_kept
    OBVIOUS
  <1>1. /\ \A u \in Users : shares[u] \in Nat /\ pending[u].shares \in Nat
        /\ totalShares \in Nat /\ totalDeposited \in Nat
    BY DEF TypeOK
  <1>2. ASSUME NEW u \in Users, NEW a \in StakeAmounts, stake(u, a) \/ deposit_referred(u, a)
        PROVE  price_kept
    BY <1>2, CreditPrice, AmountsNat, PoolAssumption DEF stake, deposit_referred, mint
  <1>3. ASSUME NEW u \in Users, NEW a \in ReferredAmounts, do_stake(u, a)
        PROVE  price_kept
    BY <1>3, DoStakePrice, AmountsNat
  <1>4. ASSUME NEW u \in Users, NEW a \in DelegatedAmounts, stake_for(u, a)
        PROVE  price_kept
    <2>1. credit(u, amount_to_shares_with_decimals(totalShares, totalDeposited, a, 1, 1), a)
      BY <1>4 DEF stake_for, amount_to_shares
    <2> QED BY <2>1, CreditPrice, AmountsNat
  <1>5. ASSUME NEW u \in Users, NEW s \in 1..shares[u], withdraw(u, s)
        PROVE  price_kept
    BY <1>1, <1>5, ExitPrice DEF withdraw
  <1>6. ASSUME NEW u \in Users, execute_withdrawal(u)
        PROVE  price_kept
    <2>1. shares[u] + pending[u].shares \in Nat /\ pending[u].shares \in Nat
      BY <1>1
    <2> QED BY <1>6, <2>1, ExitPrice DEF execute_withdrawal
  <1>7. ASSUME NEW u \in Users, emergency_withdraw(u)
        PROVE  price_kept
    <2> DEFINE amount == shares_to_amount(totalShares, totalDeposited, shares[u])
    <2>1. totalShares' = totalShares - shares[u] /\ totalDeposited' = totalDeposited - amount
      BY <1>7 DEF emergency_withdraw
    <2>2. amount \in Nat
      BY <1>1, RedeemNat
    <2>3. (totalDeposited - amount) * totalShares >= totalDeposited * (totalShares - shares[u])
      BY <1>1, <2>2, PriceRedeem
    <2> QED BY <2>1, <2>3 DEF price_kept
  <1>8. ASSUME totalShares' = totalShares, totalDeposited' \in Nat, totalDeposited' >= totalDeposited
        PROVE  price_kept
    <2> DEFINE y == totalDeposited'
    <2>1. y \in Nat /\ totalDeposited <= y
      BY <1>1, <1>8
    <2> HIDE DEF y
    <2>2. totalShares * totalDeposited <= totalShares * y
      BY <1>1, <2>1, MulMono
    <2>3. totalShares * totalDeposited = totalDeposited * totalShares /\ totalShares * y = y * totalShares
      BY <1>1, <2>1
    <2>4. y * totalShares >= totalDeposited * totalShares
      BY <1>1, <2>1, <2>2, <2>3, MulNat
    <2> QED BY <1>8, <2>4 DEF price_kept, y
  <1>9. ASSUME NEW a \in YieldAmounts, add_yield(a)
        PROVE  price_kept
    <2>1. a \in Nat /\ totalShares' = totalShares /\ totalDeposited' = totalDeposited + a
      BY <1>9, AmountsNat DEF add_yield
    <2> QED BY <1>1, <1>8, <2>1
  <1>10. ASSUME UNCHANGED <<totalShares, totalDeposited>>
         PROVE  price_kept
    BY <1>1, <1>8, <1>10
  <1>11. ASSUME NEW u \in Users, NEW to \in Users,
                transfer_position(u, to) \/ transfer_position_with_rewards(u, to)
         PROVE  price_kept
    BY <1>10, <1>11 DEF transfer_position, transfer_position_with_rewards, move_shares
  <1>12. ASSUME \/ \E u \in Users : claim(u)
                \/ \E u \in Users, a \in PartialAmounts : claim_partial(u, a)
                \/ \E u \in Users : \E s \in 1..shares[u] : request_withdrawal(u, s)
                \/ \E a \in FundAmounts : fund_reward_pool(a) \/ deploy_insurance_fund(a)
                \/ set_mode \/ close_ledger \/ UNCHANGED vars
         PROVE  price_kept
    BY <1>10, <1>12 DEF claim, claim_partial, request_withdrawal, fund_reward_pool,
       deploy_insurance_fund, set_mode, close_ledger, vars, position
  <1> QED BY <1>2, <1>3, <1>4, <1>5, <1>6, <1>7, <1>9, <1>11, <1>12 DEF Next

\* INV-5 and INV-6 for every call and every configuration: stakes at any decimal scaling,
\* compounding, fees, penalties, both exits, transfers and yield leave at least as much
\* principal behind each share as before; only a slash may not.
THEOREM PriceNeverFalls == Spec => SharePriceNeverFalls
  <1>1. TypeOK /\ [Next]_vars =>
            [\/ totalShares = 0
             \/ \E u \in Users, a \in SlashAmounts : slash(u, a)
             \/ totalDeposited' * totalShares >= totalDeposited * totalShares']_vars
    BY StepPrice DEF price_kept
  <1> QED BY <1>1, TypeCorrect, PTL DEF Spec, SharePriceNeverFalls

-------------------------------------------------------------------------------
(* The staker list. *)

\* Taking a user off the list keeps everybody else on it.
LEMMA RemoveKeeps ==
    ASSUME NEW list \in Seq(Users), NEW u
    PROVE  /\ remove_from_staker_list(list, u) \in Seq(Users)
           /\ \A v \in Range(list) \ {u} : v \in Range(remove_from_staker_list(list, u))
  <1> DEFINE kept    == {i \in DOMAIN list : list[i] # u}
             upto(i) == {j \in kept : j <= i}
             n       == Cardinality(kept)
             rank    == [i \in kept |-> Cardinality(upto(i))]
             at(k)   == CHOOSE i \in kept : Cardinality(upto(i)) = k
             new     == [k \in 1..n |-> list[at(k)]]
  <1>1. kept \subseteq 1..Len(list) /\ Len(list) \in Nat
    OBVIOUS
  <1>2. IsFiniteSet(kept)
    <2>1. 1 \in Int /\ Len(list) \in Int
      OBVIOUS
    <2>2. IsFiniteSet(1..Len(list))
      BY ONLY <2>1, FS_Interval
    <2> QED BY <1>1, <2>2, FS_Subset
  <1>3. n \in Nat
    BY <1>2, FS_CardinalityType
  <1>4. \A i \in kept : Cardinality(upto(i)) \in 1..n
    <2> SUFFICES ASSUME NEW i \in kept PROVE Cardinality(upto(i)) \in 1..n
      OBVIOUS
    <2>1. upto(i) \subseteq kept /\ i \in upto(i)
      BY <1>1
    <2> DEFINE s == upto(i)
    <2> HIDE DEF upto, kept
    <2>2. IsFiniteSet(s) /\ Cardinality(s) <= n
      BY <1>2, <2>1, FS_Subset
    <2>3. Cardinality(s) \in Nat /\ Cardinality(s) # 0
      BY <2>1, <2>2, FS_CardinalityType, FS_EmptySet
    <2> QED BY <1>3, <2>2, <2>3
  <1>5. \A i, j \in kept : i < j => Cardinality(upto(i)) < Cardinality(upto(j))
    <2> SUFFICES ASSUME NEW i \in kept, NEW j \in kept, i < j
                 PROVE  Cardinality(upto(i)) < Cardinality(upto(j))
      OBVIOUS
    <2>1. upto(i) \subseteq upto(j) /\ j \in upto(j) /\ j \notin upto(i) /\ upto(j) \subseteq kept
      BY <1>1
    <2> DEFINE s == upto(i)   r == upto(j)
    <2>2. s \subseteq r /\ s # r /\ r \subseteq kept
      BY <2>1
    <2> HIDE DEF s, r, kept
    <2>3. IsFiniteSet(r)
      BY <1>2, <2>2, FS_Subset
    <2>4. Cardinality(s) < Cardinality(r)
      BY <2>2, <2>3, FS_Subset, FS_CardinalityType
    <2> QED BY <2>4 DEF s, r
  <1>6. \A i, j \in kept : Cardinality(upto(i)) = Cardinality(upto(j)) => i = j
    <2> SUFFICES ASSUME NEW i \in kept, NEW j \in kept, i # j, Cardinality(upto(i)) = Cardinality(upto(j))
                 PROVE  FALSE
      OBVIOUS
    <2>1. i < j \/ j < i
      BY <1>1
    <2> HIDE DEF upto, kept, n
    <2>2. Cardinality(upto(i)) \in Int /\ Cardinality(upto(j)) \in Int
      BY <1>3, <1>4
    <2> QED BY <1>5, <2>1, <2>2
  <1>7. rank \in Injection(kept, 1..n)
    <2> HIDE DEF upto, kept, n
    <2> QED BY <1>4, <1>6 DEF Injection, IsInjective
  <1>8. rank \in Surjection(kept, 1..n)
    <2>1. 1 \in Int /\ n \in Int
      BY <1>3
    <2>2. IsFiniteSet(1..n) /\ Cardinality(1..n) = n
      <3> HIDE DEF n
      <3>1. IsFiniteSet(1..n) /\ Cardinality(1..n) = IF 1 > n THEN 0 ELSE n - 1 + 1
        BY ONLY <2>1, FS_Interval
      <3> QED BY <1>3, <3>1
    <2> HIDE DEF rank
    <2>3. Cardinality(kept) = Cardinality(1..n)
      BY <2>2
    <2> HIDE DEF kept, n
    <2> QED BY ONLY <1>7, <2>2, <2>3, FS_Injection
  <1>9. \A k \in 1..n : at(k) \in kept /\ Cardinality(upto(at(k))) = k
    <2> SUFFICES ASSUME NEW k \in 1..n PROVE at(k) \in kept /\ Cardinality(upto(at(k))) = k
      OBVIOUS
    <2>1. \E i \in kept : Cardinality(upto(i)) = k
      <3> HIDE DEF upto, kept, n
      <3> QED BY <1>8 DEF Surjection
    <2> HIDE DEF upto, kept
    <2> QED BY <2>1
  <1>10. new \in Seq(Users)
    <2>1. \A k \in 1..n : list[at(k)] \in Users
      <3>1. \A i \in kept : list[i] \in Users
        OBVIOUS
      <3>2. \A k \in 1..n : at(k) \in kept
        BY <1>9
      <3> HIDE DEF at, n, kept
      <3> QED BY <3>1, <3>2
    <2> HIDE DEF at, n
    <2> QED BY <1>3, <2>1
  <1>11. remove_from_staker_list(list, u) = new
    BY DEF remove_from_staker_list
  <1>12. ASSUME NEW v \in Range(list), v # u PROVE v \in Range(new)
    <2>1. PICK i \in DOMAIN list : v = list[i]
      BY DEF Range
    <2>2. i \in kept
      BY <1>12, <2>1
    <2> DEFINE k == Cardinality(upto(i))
    <2>3. k \in 1..n
      BY <1>4, <2>2
    <2>4. at(k) = i
      <3>1. at(k) \in kept /\ Cardinality(upto(at(k))) = k
        BY <1>9, <2>3
      <3>2. \A x, y \in kept : Cardinality(upto(x)) = Cardinality(upto(y)) => x = y
        BY <1>6
      <3> HIDE DEF kept, upto, at
      <3> QED BY <2>2, <3>1, <3>2 DEF k
    <2> HIDE DEF kept, upto, at, k, n
    <2>5. new[k] = v /\ k \in DOMAIN new
      BY <2>1, <2>3, <2>4
    <2> HIDE DEF new
    <2> QED BY <2>5 DEF Range
  <1> HIDE DEF new
  <1> QED BY <1>10, <1>11, <1>12

\* The invariant that is inductive: the list also names users only.
Registered == stakers \in Seq(Users) /\ HoldersRegistered

\* A call may leave u off the list only without shares, and touches nobody else.
LEMMA OneUserListed ==
    ASSUME Registered, NEW u \in Users, stakers' \in Seq(Users),
           \A v \in Users \ {u} : shares'[v] = shares[v],
           \A v \in Range(stakers) \ {u} : v \in Range(stakers'),
           shares'[u] > 0 => u \in Range(stakers')
    PROVE  Registered'
  BY DEF Registered, HoldersRegistered

\* Registering a staker keeps the others listed.
LEMMA AppendListed ==
    ASSUME NEW s \in Seq(Users), NEW u \in Users
    PROVE  Append(s, u) \in Seq(Users) /\ Range(Append(s, u)) = Range(s) \cup {u}
  <1> DEFINE q == Append(s, u)
  <1>1. /\ q \in Seq(Users) /\ Len(q) = Len(s) + 1 /\ q[Len(q)] = u
        /\ \A i \in 1..Len(s) : q[i] = s[i]
    OBVIOUS
  <1>2. DOMAIN q = 1..(Len(s) + 1) /\ DOMAIN s = 1..Len(s) /\ Len(s) \in Nat
    BY <1>1
  <1> HIDE DEF q
  <1>3. \A i \in DOMAIN q : q[i] \in Range(s) \cup {u}
    BY <1>1, <1>2 DEF Range
  <1>4. \A i \in DOMAIN s : s[i] \in Range(q)
    BY <1>1, <1>2 DEF Range
  <1>5. u \in Range(q)
    BY <1>1, <1>2 DEF Range
  <1>6. Range(q) \subseteq Range(s) \cup {u}
    BY <1>3 DEF Range
  <1>7. Range(s) \subseteq Range(q)
    BY <1>4 DEF Range
  <1> QED BY <1>1, <1>5, <1>6, <1>7 DEF q

\* Entering: the user is on the list afterwards, or was a holder before.
LEMMA EnterListed ==
    ASSUME TypeOK, Registered, NEW u \in Users, NEW m, shares' = [shares EXCEPT ![u] = m],
           IF shares[u] = 0 THEN register_staker(u) \/ open_position(u) ELSE UNCHANGED registry
    PROVE  Registered'
  <1>1. shares[u] \in Nat /\ stakers \in Seq(Users) /\ \A v \in Users \ {u} : shares'[v] = shares[v]
    BY DEF TypeOK, Registered
  <1>2. CASE shares[u] # 0
    <2>1. UNCHANGED stakers /\ u \in Range(stakers)
      BY <1>1, <1>2 DEF registry, Registered, HoldersRegistered
    <2> QED BY <1>1, <2>1, OneUserListed
  <1>3. CASE shares[u] = 0
    <2>1. stakers' = Append(stakers, u) \/ (stakers' = stakers /\ u \in Range(stakers))
      BY <1>3 DEF register_staker, open_position
    <2>2. stakers' \in Seq(Users) /\ u \in Range(stakers') /\ \A v \in Range(stakers) : v \in Range(stakers')
      BY <1>1, <2>1, AppendListed
    <2> QED BY <1>1, <2>2, OneUserListed
  <1> QED BY <1>2, <1>3

\* Leaving: off the list, or unchanged.
LEMMA LeaveListed ==
    ASSUME TypeOK, Registered, NEW u \in Users, NEW m, shares' = [shares EXCEPT ![u] = m],
           \/ close_registration(u) /\ m = 0
           \/ UNCHANGED stakers /\ (m > 0 => shares[u] > 0)
    PROVE  Registered'
  <1>1. shares'[u] = m /\ stakers \in Seq(Users) /\ \A v \in Users \ {u} : shares'[v] = shares[v]
    BY DEF TypeOK, Registered
  <1>2. CASE close_registration(u) /\ m = 0
    <2>1. stakers' \in Seq(Users) /\ \A v \in Range(stakers) \ {u} : v \in Range(stakers')
      BY <1>1, <1>2, RemoveKeeps DEF close_registration
    <2> QED BY <1>1, <1>2, <2>1, OneUserListed
  <1>3. CASE UNCHANGED stakers /\ (m > 0 => shares[u] > 0)
    <2>1. shares'[u] > 0 => u \in Range(stakers')
      BY <1>1, <1>3 DEF Registered, HoldersRegistered
    <2> QED BY <1>1, <1>3, <2>1, OneUserListed
  <1> QED BY <1>2, <1>3

\* Every step keeps the holders listed.
LEMMA StepListed ==
    ASSUME TypeOK, Registered, Movers = {}, [Next]_vars
    PROVE  Registered'
  <1>1. \A u \in Users : shares[u] \in Nat /\ pending[u].shares \in Nat
    BY DEF TypeOK
  <1>2. ASSUME NEW u \in Users, NEW a, stake(u, a) \/ deposit_referred(u, a) \/ do_stake(u, a) \/ stake_for(u, a)
        PROVE  Registered'
    <2>1. IF shares[u] = 0 THEN register_staker(u) \/ open_position(u) ELSE UNCHANGED registry
      BY <1>2 DEF stake, deposit_referred, mint, do_stake, stake_for
    <2>2. \E m : shares' = [shares EXCEPT ![u] = m]
      BY <1>2 DEF stake, deposit_referred, mint, do_stake, stake_for, credit
    <2> QED BY <2>1, <2>2, EnterListed
  <1>3. ASSUME NEW u \in Users, NEW c \in Nat, NEW b \in Nat, do_unstake_to(u, c, b), b # c => shares[u] > 0
        PROVE  Registered'
    <2>1. shares' = [shares EXCEPT ![u] = c - b]
      BY <1>3 DEF do_unstake_to
    <2>2. CASE c = b
      <3>1. close_registration(u) /\ c - b = 0
        BY <1>3, <2>2 DEF do_unstake_to
      <3> QED BY <2>1, <3>1, LeaveListed
    <2>3. CASE c # b
      <3>1. UNCHANGED stakers
        BY <1>3, <2>3 DEF do_unstake_to, registry
      <3> QED BY <1>3, <2>1, <2>3, <3>1, LeaveListed
    <2> QED BY <2>2, <2>3
  <1>4. ASSUME NEW u \in Users, NEW s \in 1..shares[u], withdraw(u, s)
        PROVE  Registered'
    <2>1. s \in Nat /\ shares[u] \in Nat /\ shares[u] > 0
      BY <1>1
    <2> QED BY <1>3, <1>4, <2>1 DEF withdraw
  <1>5. ASSUME NEW u \in Users, execute_withdrawal(u)
        PROVE  Registered'
    <2> DEFINE b == pending[u].shares   c == shares[u] + b
    <2>1. b \in Nat /\ c \in Nat /\ (b # c => shares[u] > 0)
      BY <1>1
    <2>2. do_unstake_to(u, c, b)
      BY <1>5 DEF execute_withdrawal
    <2> HIDE DEF b, c
    <2> QED BY <1>3, <2>1, <2>2
  <1>6. ASSUME NEW u \in Users, NEW s \in 1..shares[u], request_withdrawal(u, s)
        PROVE  Registered'
    <2>1. shares' = [shares EXCEPT ![u] = shares[u] - s] /\ UNCHANGED stakers /\ shares[u] > 0
      BY <1>1, <1>6 DEF request_withdrawal, registry
    <2> QED BY <2>1, LeaveListed
  <1>7. ASSUME NEW u \in Users, emergency_withdraw(u)
        PROVE  Registered'
    <2>1. shares' = [shares EXCEPT ![u] = 0] /\ UNCHANGED stakers /\ shares[u] > 0
      BY <1>7 DEF emergency_withdraw, registry
    <2> QED BY <2>1, LeaveListed
  <1>8. ASSUME NEW u \in Users, NEW a \in SlashAmounts, slash(u, a)
        PROVE  Registered'
    <2> DEFINE value  == shares_to_amount(totalShares, totalDeposited, shares[u])
               actual == Min({a, value})
               burned == Min({amount_to_shares(totalShares, totalDeposited, actual), shares[u]})
    <2>1. /\ shares' = [shares EXCEPT ![u] = @ - burned] /\ shares[u] > 0
          /\ IF burned = shares[u] THEN close_registration(u) ELSE UNCHANGED registry
      BY <1>8 DEF slash
    <2> HIDE DEF burned
    <2>2. CASE burned = shares[u]
      <3>0. shares[u] - burned = 0
        BY <1>1, <2>2
      <3>1. shares' = [shares EXCEPT ![u] = 0] /\ close_registration(u)
        BY <2>1, <2>2, <3>0
      <3> QED BY <3>1, LeaveListed
    <2>3. CASE burned # shares[u]
      <3>1. shares' = [shares EXCEPT ![u] = shares[u] - burned] /\ UNCHANGED stakers /\ shares[u] > 0
        BY <2>1, <2>3 DEF registry
      <3> QED BY <3>1, LeaveListed
    <2> QED BY <2>2, <2>3
  <1>9. ASSUME NEW u \in Users, NEW to \in Users,
               transfer_position(u, to) \/ transfer_position_with_rewards(u, to)
        PROVE  FALSE
    BY <1>9 DEF transfer_position, transfer_position_with_rewards, move_shares
  <1>10. ASSUME UNCHANGED <<shares, stakers>>
         PROVE  Registered'
    BY <1>10 DEF Registered, HoldersRegistered
  <1>11. ASSUME \/ \E u \in Users : claim(u)
                \/ \E u \in Users, a \in PartialAmounts : claim_partial(u, a)
                \/ \E a \in YieldAmounts : add_yield(a)
                \/ \E a \in FundAmounts : fund_reward_pool(a) \/ deploy_insurance_fund(a)
                \/ set_mode \/ close_ledger \/ UNCHANGED vars
         PROVE  Registered'
    BY <1>10, <1>11 DEF claim, claim_partial, add_yield, fund_reward_pool,
       deploy_insurance_fund, set_mode, close_ledger, vars, position, registry
  <1> QED BY <1>2, <1>4, <1>5, <1>6, <1>7, <1>8, <1>9, <1>11 DEF Next

\* Whoever holds shares is on the AllStakers list, whatever is staked, requested, exited,
\* slashed or withdrawn in an emergency, as long as no position is transferred: a transfer
\* leaves the registry alone.
THEOREM HoldersListed ==
    ASSUME Movers = {}
    PROVE  Spec => []HoldersRegistered
  <1>1. Init => Registered
    BY DEF Init, Registered, HoldersRegistered
  <1>2. TypeOK /\ Registered /\ [Next]_vars => Registered'
    BY StepListed
  <1>3. Registered => HoldersRegistered
    BY DEF Registered
  <1> QED BY <1>1, <1>2, <1>3, TypeCorrect, PTL DEF Spec

===============================================================================
