----------------------------- MODULE PoolBase_proofs ---------------------------
(***************************************************************************)
(* Facts about the pool that the features share: the types of its books,   *)
(* what a transfer, a mint and an exit do to them, and that the share      *)
(* balances add up to TotalShares meanwhile.                               *)
(***************************************************************************)
EXTENDS PoolBase, Arithmetic_proofs, SequenceTheorems

\* The deposits of the start add up.
LEMMA StakedSum == sum(Staked) \in Nat
  BY SumNat, BaseAssumption

\* A share of a natural amount in basis points is a natural number.
LEMMA BpsNat ==
    ASSUME NEW x \in Nat, NEW r \in Nat
    PROVE  bps(x, r) \in Nat
  <1>1. x * r \in Nat
    BY MulNat
  <1> QED BY <1>1, DivNat DEF bps, BPS_DENOMINATOR

\* The pool a behaviour starts from: what the contract holds is principal and reward pool.
LEMMA BaseInitFacts ==
    ASSUME NEW purse \in Nat, BaseInitWith(purse)
    PROVE  /\ now = 0 /\ wallet \in [Accounts -> Nat]
           /\ shares = Staked /\ shares \in [Users -> Nat]
           /\ totalShares = sum(shares) /\ totalShares \in Nat
           /\ totalDeposited \in Nat /\ rewardPool \in Nat
           /\ held = totalDeposited + rewardPool
  BY StakedSum, BaseAssumption DEF BaseInitWith, Accounts

-------------------------------------------------------------------------------
\* The books of the pool: types, and share balances that add up to the total.
Books ==
    /\ now \in Nat /\ wallet \in [Accounts -> Nat] /\ held \in Int
    /\ shares \in [Users -> Nat] /\ totalShares = sum(shares)
    /\ totalDeposited \in Nat /\ rewardPool \in Nat

\* The books are in order at the start.
LEMMA BooksInit ==
    ASSUME NEW purse \in Nat, BaseInitWith(purse)
    PROVE  Books
  BY BaseInitFacts DEF Books

\* No balance exceeds the total.
LEMMA BooksTotal == ASSUME Books PROVE totalShares \in Nat /\ \A u \in Users : shares[u] \in 0..totalShares
  <1>1. IsFiniteSet(Users) /\ shares \in [Users -> Nat] /\ totalShares = sum(shares)
    BY BaseAssumption DEF Books
  <1>2. sum(shares) \in Nat
    BY ONLY <1>1, SumNat
  <1>3. \A u \in Users : shares[u] <= sum(shares)
    BY ONLY <1>1, SumBound
  <1> QED BY <1>1, <1>2, <1>3

\* A position is worth something between nothing and the whole principal.
LEMMA AmountBound ==
    ASSUME Books, NEW u \in Users
    PROVE  amount_of(u) \in 0..totalDeposited
  <1>1. totalShares \in Nat /\ shares[u] \in Nat /\ shares[u] <= totalShares /\ totalDeposited \in Nat
    BY BooksTotal DEF Books
  <1>2. shares_to_amount(totalShares, totalDeposited, shares[u]) \in Nat
    BY <1>1, RedeemNat
  <1>3. shares_to_amount(totalShares, totalDeposited, shares[u]) <= totalDeposited
    BY <1>1, RedeemAtMostAll
  <1> QED BY <1>1, <1>2, <1>3 DEF amount_of

\* The ledger number stays a natural number.
LEMMA TickNat == ASSUME now \in Nat, tick PROVE now' \in Nat /\ now' >= now
  BY BaseAssumption DEF tick

\* Transfers keep the purses in order and say what the contract holds afterwards.
LEMMA PullTyped ==
    ASSUME wallet \in [Accounts -> Nat], held \in Int, NEW a \in Accounts, NEW n \in Nat, pull(a, n)
    PROVE  wallet' \in [Accounts -> Nat] /\ held' \in Int /\ held' = held + n
  BY DEF pull

\* A transfer out.
LEMMA PushTyped ==
    ASSUME wallet \in [Accounts -> Nat], held \in Int, NEW a \in Accounts, NEW n \in Nat, push(a, n)
    PROVE  wallet' \in [Accounts -> Nat] /\ held' \in Int /\ held' = held - n
  BY DEF push

\* One share balance and the total change by the same number.
LEMMA ShareWrite ==
    ASSUME Books, NEW u \in Users, NEW m \in Nat, shares' = [shares EXCEPT ![u] = m],
           totalShares' = totalShares + m - shares[u]
    PROVE  shares' \in [Users -> Nat] /\ totalShares' = sum(shares')
  <1> DEFINE f == shares   g == [shares EXCEPT ![u] = m]
  <1>1. f \in [Users -> Int] /\ g \in [Users -> Int] /\ g \in [Users -> Nat] /\ IsFiniteSet(Users)
    BY BaseAssumption DEF Books
  <1>2. g[u] = m /\ \A y \in Users \ {u} : g[y] = f[y]
    BY DEF Books
  <1>3. totalShares = sum(f)
    BY DEF Books
  <1>4. shares' = g /\ totalShares' = totalShares + m - f[u]
    OBVIOUS
  <1> HIDE DEF f, g
  <1>5. sum(g) = sum(f) + g[u] - f[u]
    BY ONLY <1>1, <1>2, SumChange, u \in Users
  <1> QED BY <1>1, <1>2, <1>3, <1>4, <1>5

\* A deposit that is minted at the price of now.
LEMMA MintKeeps ==
    ASSUME Books, NEW u \in Users, NEW n \in Nat, mint_to(u, n)
    PROVE  /\ shares' \in [Users -> Nat] /\ totalShares' = sum(shares')
           /\ totalDeposited' \in Nat /\ totalDeposited' = totalDeposited + n
  <1> DEFINE minted == amount_to_shares(totalShares, totalDeposited, n)
  <1>1. totalShares \in Nat /\ totalDeposited \in Nat /\ shares[u] \in Nat
    BY BooksTotal DEF Books
  <1>2. minted \in Nat
    BY <1>1, MintDefaultNat
  <1>3. /\ shares' = [shares EXCEPT ![u] = @ + minted] /\ totalShares' = totalShares + minted
        /\ totalDeposited' = totalDeposited + n
    BY DEF mint_to
  <1> DEFINE m == shares[u] + minted
  <1>4. m \in Nat /\ shares' = [shares EXCEPT ![u] = m]
    BY <1>1, <1>2, <1>3
  <1>5. totalShares' = totalShares + m - shares[u]
    <2> HIDE DEF minted
    <2> QED BY <1>1, <1>2, <1>3
  <1> HIDE DEF m, minted
  <1>6. shares' \in [Users -> Nat] /\ totalShares' = sum(shares')
    BY <1>4, <1>5, ShareWrite
  <1> QED BY <1>1, <1>3, <1>6

\* An exit of the whole position: the three writes of leave.
LEMMA ExitKeeps ==
    ASSUME Books, NEW u \in Users, totalDeposited' = totalDeposited - amount_of(u),
           totalShares' = totalShares - shares[u], shares' = [shares EXCEPT ![u] = 0]
    PROVE  /\ shares' \in [Users -> Nat] /\ totalShares' = sum(shares')
           /\ totalDeposited' \in Nat
  <1>1. totalShares \in Nat /\ totalDeposited \in Nat /\ shares[u] \in Nat /\ amount_of(u) \in 0..totalDeposited
    BY BooksTotal, AmountBound DEF Books
  <1>2. totalShares' = totalShares + 0 - shares[u]
    BY <1>1
  <1>3. shares' \in [Users -> Nat] /\ totalShares' = sum(shares')
    BY <1>2, ShareWrite, 0 \in Nat
  <1> QED BY <1>1, <1>3

\* Stakers who come and go keep the books, and what is held beyond them.
LEMMA PoolMovesKeep ==
    ASSUME Books, PoolMoves
    PROVE  /\ Books' /\ rewardPool' = rewardPool
           /\ held' - totalDeposited' = held - totalDeposited
  <1>1. /\ wallet \in [Accounts -> Nat] /\ held \in Int /\ totalDeposited \in Nat /\ now \in Nat
        /\ \A u \in Users : u \in Accounts
    BY DEF Books, Accounts
  <1>2. ASSUME NEW u \in Users, leave(u)
        PROVE  /\ Books' /\ rewardPool' = rewardPool
               /\ held' - totalDeposited' = held - totalDeposited
    <2>1. amount_of(u) \in 0..totalDeposited
      BY AmountBound
    <2>2. wallet' \in [Accounts -> Nat] /\ held' \in Int /\ held' = held - amount_of(u)
      BY <1>1, <1>2, <2>1, PushTyped DEF leave
    <2>3. totalDeposited' = totalDeposited - amount_of(u)
      BY <1>2 DEF leave
    <2>4. shares' \in [Users -> Nat] /\ totalShares' = sum(shares') /\ totalDeposited' \in Nat
      BY <1>2, ExitKeeps DEF leave
    <2>5. now' = now /\ rewardPool' = rewardPool
      BY <1>2 DEF leave
    <2>6. Books'
      BY <2>2, <2>4, <2>5 DEF Books
    <2> QED BY <1>1, <2>1, <2>2, <2>3, <2>5, <2>6
  <1>3. ASSUME NEW u \in Users, NEW a \in Amounts, join(u, a)
        PROVE  /\ Books' /\ rewardPool' = rewardPool
               /\ held' - totalDeposited' = held - totalDeposited
    <2>1. a \in Nat
      BY BaseAssumption
    <2>2. wallet' \in [Accounts -> Nat] /\ held' \in Int /\ held' = held + a
      BY <1>1, <1>3, <2>1, PullTyped DEF join
    <2>3. /\ shares' \in [Users -> Nat] /\ totalShares' = sum(shares')
          /\ totalDeposited' \in Nat /\ totalDeposited' = totalDeposited + a
      BY <1>3, <2>1, MintKeeps DEF join
    <2>4. now' = now /\ rewardPool' = rewardPool
      BY <1>3 DEF join
    <2>5. Books'
      BY <2>2, <2>3, <2>4 DEF Books
    <2> QED BY <1>1, <2>1, <2>2, <2>3, <2>4, <2>5
  <1>4. CASE TimePasses
    <2>1. now' \in Nat
      BY <1>1, <1>4, TickNat DEF TimePasses
    <2> QED BY <1>4, <2>1 DEF TimePasses, pool, Books
  <1> QED BY <1>2, <1>3, <1>4 DEF PoolMoves

===============================================================================
