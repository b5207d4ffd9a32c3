-------------------------------- MODULE PoolBase -------------------------------
(***************************************************************************)
(* What the optional features of the vault share with each other: the      *)
(* share balances and totals, the reward pool, the stake token's balances  *)
(* (the stake token is also the reward token) and the ledger number.  A    *)
(* feature module EXTENDS this one, adds its own storage, and models its   *)
(* entry points as actions; an action that fails its checks reverts.       *)
(*                                                                         *)
(* The tokens form a closed system of purses, so the amounts are bounded.  *)
(* Admin stands for every account of the operator: admin, treasury, fee    *)
(* recipients.                                                             *)
(***************************************************************************)
EXTENDS VaultShares, Sums, FiniteSets, FiniteSetsExt, Sequences, SequencesExt

CONSTANTS
    Users,          \* the stakers
    Purse,          \* tokens each user starts with
    AdminPurse,     \* tokens the operator starts with
    Staked,         \* function: principal of each user at the start
    PoolYield,      \* yield in the principal at the start: the share price
    PoolReserve,    \* reward pool at the start
    Amounts,        \* amounts users and operator offer in a call
    Durations,      \* windows in ledgers
    MaxLedger       \* model bound on the ledger number

Admin    == "admin"
Accounts == Users \cup {Admin}
Nobody   == "nobody"
NoLedger == -1

ASSUME BaseAssumption ==
    /\ IsFiniteSet(Users) /\ Admin \notin Users /\ Nobody \notin Users
    /\ Purse \in Nat /\ AdminPurse \in Nat /\ PoolYield \in Nat /\ PoolReserve \in Nat
    /\ Staked \in [Users -> Nat]
    /\ Amounts \subseteq Nat \ {0} /\ Durations \subseteq Nat
    /\ MaxLedger \in Nat

VARIABLES
    now,            \* env.ledger().sequence()
    wallet,         \* token balance of every account
    held,           \* token balance of the contract
    shares,         \* ShareBalance
    totalShares, totalDeposited,
    rewardPool      \* RewardPoolBalance

pool      == <<shares, totalShares, totalDeposited>>
base_vars == <<now, wallet, held, pool, rewardPool>>

\* A pool in which Staked was deposited at a price of one, and yield added.
BaseInitWith(purse) ==
    /\ now = 0
    /\ wallet = [a \in Accounts |-> IF a = Admin THEN AdminPurse ELSE purse]
    /\ shares = Staked
    /\ totalShares = sum(Staked)
    /\ totalDeposited = sum(Staked) + IF sum(Staked) = 0 THEN 0 ELSE PoolYield
    /\ rewardPool = PoolReserve
    /\ held = totalDeposited + rewardPool

BaseInit == BaseInitWith(Purse)

\* A token transfer into the contract; the token refuses to overdraw a purse.
pull(a, amount) ==
    /\ wallet[a] >= amount
    /\ wallet' = [wallet EXCEPT ![a] = @ - amount]
    /\ held' = held + amount

\* A token transfer out of the contract.
push(a, amount) ==
    /\ held >= amount
    /\ wallet' = [wallet EXCEPT ![a] = @ + amount]
    /\ held' = held - amount

\* staked_amount: the position of u in tokens.
amount_of(u) == shares_to_amount(totalShares, totalDeposited, shares[u])

\* Writes of a deposit: shares minted for tokens already in the contract.
mint_to(u, amount) ==
    LET minted == amount_to_shares(totalShares, totalDeposited, amount)
    IN  /\ shares' = [shares EXCEPT ![u] = @ + minted]
        /\ totalShares' = totalShares + minted
        /\ totalDeposited' = totalDeposited + amount

\* Stakers join and leave (stake and unstake in VaultPool) while a feature is in use.
join(u, amount) ==
    /\ pull(u, amount) /\ mint_to(u, amount)
    /\ UNCHANGED <<now, rewardPool>>

leave(u) ==
    /\ shares[u] > 0 /\ shares[u] <= totalShares /\ amount_of(u) <= totalDeposited
    /\ push(u, amount_of(u))
    /\ totalDeposited' = totalDeposited - amount_of(u)
    /\ totalShares' = totalShares - shares[u]
    /\ shares' = [shares EXCEPT ![u] = 0]
    /\ UNCHANGED <<now, rewardPool>>

\* The ledger closes.
tick == now' = IF now < MaxLedger THEN now + 1 ELSE now

TimePasses == tick /\ UNCHANGED <<wallet, held, pool, rewardPool>>

\* Everything the pool does beside the feature in focus.
PoolMoves ==
    \/ \E u \in Users : leave(u) \/ \E a \in Amounts : join(u, a)
    \/ TimePasses

===============================================================================
