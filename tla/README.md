# Stellar DeFi Vault: TLA+ models, checks and proofs

The repository is one Soroban contract, `VaultContract`. Users stake a token and
receive shares of a pooled principal; shares earn rewards that a separate reward
pool pays; an admin, delegated roles and a timelock control fees, rates and the
pool's operating modes. The core is `src/vault.rs` (15 000 lines) with
`src/balance.rs` and `src/balance/` as its storage layer; about two hundred more
files each add one optional feature.

Every contract call is a transaction: it runs alone, and a call that returns an
error or panics leaves no trace. The difficulty is therefore in *sequences* of
calls by several parties, with ledgers closing between them, over state that many
entry points write by slightly different rules.

## 1. Inventory

| Component | State | Operations | What makes it correct |
|---|---|---|---|
| Share arithmetic (`balance/shares.rs`) | none | amount to shares, shares to amount, decimal scaling | rounding favours the pool (INV-5, INV-6); redeeming all pays all (INV-4) |
| Inflows (`vault.rs`: `stake`, `deposit`, `do_stake`, `stake_for`, `add_yield`) | `ShareBalance`, `TotalShares`, `TotalDeposited`, token balance | mint, referral bonus, compounding | shares and totals move together (INV-1); tokens arrive (INV-3); rewards are settled before a balance changes |
| Exits (`do_unstake_to`, `withdrawal_cooldown.rs`, `emergency_withdraw`) | the same, `WithdrawalRequest`, lock timer, fee reserves | burn, penalty, fee routing, request and execute, break-glass exit | a holder can always leave; nothing underflows; fees are split without loss |
| Rewards (`accrue_rewards`, `do_claim`, `claim_partial`, auto-restake) | `AccruedReward`, `RewardRemainder`, `RewardCheckpointLedger`, `RewardPoolBalance`, insurance fund | settle, pay, retain, compound | nobody is paid for ledgers in which the shares were not staked; payments are charged to the pool |
| Slashing (`slash`, `redistribute_penalty`) | positions, accrued rewards | burn, forfeit, redistribute | the others are not diluted; the registry reaches all of them |
| Position transfer (`transfer_position`, `..._with_rewards`) | positions, timers, rewards | hand over | no shares or rewards lost |
| Staker registry (`AllStakers`, `TotalStakers`) | list and counter | append, append if absent, remove | every holder is listed |
| Modes (`Paused`, withdraw-only, sunset, stopped, shutting down) | five flags | raise, lower | a flag closes the entry points it says it closes; one-way flags stay |
| Pause control (`pause`, `pause_until`, `pause_grace_period.rs`, `guardian_pause.rs`, `access_roles.rs`, `synchronized_pause.rs`, `admin_action_nonce.rs`, timelock, multisig) | flag, pause record, schedule, limit, cooldown, queue | pause, unpause, force, queue, execute | a bounded pause ends; a schedule belongs to its pause |
| Admin (`admin.rs`, `admin_recovery.rs`, `admin_succession.rs`, timelock, multisig, roles, `fee_change_notice.rs`, `community_treasury.rs`) | admin key and pending transfers, three queues, approvals, pending fee, treasury balance | hand over, queue, approve, execute, announce, spend | nothing queued outlives its author; approvals are distinct; a rise is announced, or voted |
| Governance (`vault.rs` proposals, `batch_vote.rs`, `guardian_veto.rs`, `vault_extensions_761_764.rs`) | proposals, tallies, bonds, delegations | propose, vote, delegate, veto, cancel, enact | a stake votes once; bonds and slots are given back once |
| Forums (`roadmap_voting.rs`, `slash_dispute.rs`, `content_curation.rs`, ...) | votes, feeds, quotas | submit, vote, close | nobody counts twice; a full list drops the right entry |
| Rates and epochs (`reward_between_ledgers`, `reward_epochs.rs`, rate policies) | rate, ramps, schedules, checkpoints, epoch snapshots | configure, settle, finalize | a span is worth the sum of its ledgers; budgets hold |
| Claim routes (`do_claim`, `epoch_reward_cap.rs`, `claim_vesting.rs`, `claim_streak.rs`, ...) | escrow, vesting, deferred and pending claims | claim, defer, release | a reward arrives once, whichever way |
| Loans and recovery (`borrow`, `position_health_auto_recovery.rs`) | loan, interest, recovery settings | borrow, repay, liquidate, recover | the pool gets back what it lent; debt is cleared only by deposits |
| Auctions, markets, contests, campaigns | escrowed bids, offers, bets, prizes, commitments | bid, reveal, settle, refund, claim | what is taken in goes to exactly one party |
| Strategies, sub-pools, mirroring | allocations, capacities, followers | allocate, pull, harvest, move, mirror | tokens outside the vault stay on its books |
| Positions (split, merge, transfer, inherit, fractions, limits) | split positions, allowances, limits | move, close, withdraw for others | no share and no ledger of reward is counted twice, and nothing is given up beyond what the code gives up at a named step |
| Wind-down (staged sunset, migration, debt notes, yield deployment) | stage, list, notes, deployed amount | resolve, close, migrate, note, deploy | a closed pool leaves nobody behind except gifts |
| Distributions (revenue share, drops, matching, access tiers) | roots, claims, budgets, tokens | fund, publish, claim, match | paid once and covered |
| Analytics, badges, events, storage rent | logs | append | not modelled: nothing that moves money reads them |

The components interact by calls inside one transaction and through shared
storage. `do_unstake_to` is the busiest meeting point: it settles rewards, lets
the compounding rewrite balance and totals, prices the exit, routes the fee to
three accounts, maintains the registry, pays, and may pause the pool.

`PROJECT.json` lists the hazards at their lines: values read before a call that
rewrites them, requests that are overwritten, balances changed before rewards are
settled, pauses that renew their own deadline, flags written without the record
that bounds them, rounding, and lists maintained by several rules.

### Two generations of the same functions

`vault.rs` contains two versions of several functions (for instance `do_claim` at
7743 and 13646, `require_not_paused` at 3350 and 7522, `pending_reward` at 3231
and 6910). The model takes the generation that settles rewards: `do_stake`
6345, `do_unstake_to` 6569, `accrue_rewards` 6930, `do_claim` 7743. The public
`stake` (436) and `deposit` (529) exist once, and do not settle. About ninety
files of `src/` have no `mod` declaration, and a few function bodies in
`vault.rs` are garbled (`execute_fee_buyback` at 13545 contains an exit), so the
repository does not build as it stands at this commit. The models follow the
source text of each file, taken as if it were wired as its header says.

## 2. Modules

| Module | Models | Uses |
|---|---|---|
| `VaultShares` | `balance/shares.rs`, basis-point cuts | |
| `PoolModes` | the five flags, who may raise and lower each, the gates of the entry points; the abstract specification of pause control | |
| `VaultPool` | positions, funds, rewards, registry; one action per entry point | `VaultShares`, `PoolModes` |
| `VaultAudit` | `VaultPool` next to an auditor that counts what the shares really earned | `VaultPool` |
| `PauseControl` | every path that writes the pause flag and takes effect (section 2, below) | implements `PoolModes` |
| `PoolBase` | what the optional features share: share balances, totals, reward pool, wallets, ledger | `VaultShares` |
| `CapacityAuction` | the auction of pool spots | `PoolBase` |
| `Loans` | loans out of the reward pool | `PoolBase` |
| `ClaimPipeline` | `do_claim`: cap, insurance, loan repayment, escrow, vesting | `Loans` |
| `PositionMarkets` | swap offers; commit-reveal auction of a position | `PoolBase` |
| `Contests` | prediction market, tournament, lottery | `PoolBase` |
| `Campaigns` | lockdrop, presale, mutual insurance, guarantee | `PoolBase` |
| `SubPools` | sub-pools, capacity shifts by keepers, meta-staking | `PoolBase` |
| `Positions` | split, merge, both transfers, inheritance, dust, fractions, scheduled exits, limits, allowances | `PoolBase` |
| `Strategies` | both strategy registries, with adapters that may fail | `PoolBase` |
| `Mirroring` | leaders and followers | `PoolBase` |
| `Ballots` | categorized and expedited proposals, expiring delegation | `PoolBase` |
| `Safeguards` | automatic recovery, committed stakes, heartbeats | `Loans` |
| `WindDown` | staged sunset, migration, gifts, debt notes, yield deployment | `PoolBase` |
| `Distributions` | revenue share, flash stake, reward drops, matching, access tiers | `PoolBase` |
| `Governance` | proposals, bonds, votes, vetoes, enactment, delegation | `PoolBase` |
| `Forums` | roadmap, slash disputes, curation, news, comments, tips, quizzes | `PoolBase` |
| `Administration` | admin handover, queues, multisig with replaceable groups, roles, nonces, every writer of the unstake fee, treasury | `PoolBase` |
| `RewardRates` | the walk over a reward span, rate policies, ramps, budgets, epochs | `PoolBase` |
| `ClaimPolicies` | the alternative claim entry points | `PoolBase` |
| `MCFunds`, `MCRules` | the compositions that TLC checks | all of the above |
| `Sums` | totals over finite sets, in which the models and their properties count tokens, shares and votes | |
| `Arithmetic_proofs` | lemmas: totals of functions, changed in one entry, split, bounded; rounding; the round trip | `VaultShares`, `Sums` |
| `VaultPool_proofs` | the theorems about the core | `VaultPool`, `Arithmetic_proofs` |
| `PauseControl_proofs` | types, refinement, schedule | `PauseControl`, `Arithmetic_proofs` |
| `PoolBase_proofs` | what the shared operations of the features do to shares, totals and tokens | `PoolBase`, `Arithmetic_proofs` |
| `Funds_proofs` | loans, contests, swaps and sealed auctions, campaigns and distributions, positions, exit limits | `MCFunds`, `PoolBase_proofs` |
| `Features_proofs` | ballots, safeguards, strategies, claims, sub-pools | `Funds_proofs` |
| `Governance_proofs` | the square root; the books of proposals and delegations, entry point by entry point | `Governance`, `PoolBase_proofs` |
| `Rules_proofs` | proposals, votes, fee notice, treasury, authority, slash disputes, forums | `MCRules`, `Governance_proofs` |

**VaultPool.** The variables carry the names of the storage keys (listed at their
declaration). An action is an entry point together with everything it calls: the
guard is the conjunction of its checks and early returns, and the primed
variables its writes. `assert_non_negative` stands for the balance setters'
panic and for the token contract's refusal to overdraw: a call that would write a
negative balance is not enabled. `do_unstake_to(u, user_shares, burned)` takes as
a parameter the share balance it reads at its beginning, because that reading is
stale at its end. The users are `1..N`.

Amounts are small integers and basis points keep their denominator of 10 000, so
every rounding happens. Arithmetic overflow reverts in the code (`checked_*`) and
needs no model. The per-year reward divisor becomes the constant `RewardDivisor`;
the rate is constant, so the segment walk of `reward_between_ledgers` reduces to
one product, with the sub-unit remainder carried as in the code. The stake token
is the reward token (R = T), the case in which principal and rewards share one
balance. Options listed in the module's header stay unconfigured.

**PoolModes** and **PauseControl.** `VaultPool` sees the five flags and leaves
open when they change; `PauseControl` says when. It stores times relative to the
present ledger (age of the pause, ledgers left), which is all the code compares,
and so needs no bound on time. `pool_modes` is the refinement mapping: the flags,
with `paused` added when `DataKey::Paused` is set. The writers of the flag are
`initialize` and `import_state` (the initial states: open or paused), `pause`,
`pause_until` and its lazy schedule, `unpause`, the role's and the guardian's pause,
`check_auto_pause`, `force_unpause`, and the writers of the bare flag, which touch
neither record nor schedule: the queued actions, the multisig's `execute_proposal`
and `execute_admin_action_with_nonce`, which share one dispatch (`vault.rs:2205`),
and `synchronized_pause` and `synchronized_unpause`. `circuit_breaker.rs` writes
it too, in a call that then returns an error and is reverted.

**VaultAudit** adds `earned`, which grows with every closing ledger by the rate
for every share held during it, and compares it with what was paid and is owed.

**PoolBase and the features.** An optional feature adds storage of its own to the
pool and reads and writes the pool's. `PoolBase` has that common part: share
balances, totals, reward pool, the token balance `held`, everybody's `wallet` (the
tokens form a closed system, which bounds all amounts) and the ledger `now`.
Whatever the core does to a position that a feature does not look at is left to
`VaultPool`: a feature's own stake and exit mint and burn at the share price and
do the feature's bookkeeping, with penalty, fee and compounding unconfigured
(`Strategies` keeps the fee, `ClaimPipeline` the escrow, `RewardRates` the
settlement, `WindDown` the registry). How much reward a position has earned is
computed in `RewardRates` and in `Positions`, and any amount of a small set
elsewhere: the property is then about where a reward goes, not how large it is.

**MCFunds and MCRules** compose these modules. `focus` chooses in the initial state
the feature whose entry points are called in that behaviour; the other features'
variables stay. This checks each feature against the pool, with stakers coming and
going, and does not multiply the state spaces. The features are not independent in
the code. Where one calls or writes another, the callee is modelled in the caller's
module: claims and recoveries repay loans (`ClaimPipeline` and `Safeguards` extend
`Loans`), the claim fee recycles a part into the reward pool and is waived in
withdraw-only mode (`apply_claim_fee`), epoch claims feed the vesting queue
(`claim_epoch_rewards`), and `enact_proposal` and the ballots write the unstake fee
that is under notice (`enact_voted_fee`, `enact_ballot_fee`). What two focuses
do to each other beyond that, through the shared pool balance, the reward pool, a
setting or a share balance, is not explored.

Within the models, notable choices: a hash is the value it commits to (no
collisions); a Merkle root is the table it commits to; a strategy adapter
(external) answers any amount up to what it holds or fails; an `Err` after writes
reverts them, as the host does, which is why a failed expedited proposal
is not closed in `Ballots`. The vesting queue of `ClaimPipeline` is a table of
places, because nothing reads the order of its entries; a release empties
places. Some modules carry history variables for a property
(`forfeited`, `unfunded`, `earned`, `forgone`, `phantom`, `ever`, `asked`, `peak`, `rounded`,
`recycled`, `wait`); their comments say so.

## 3. Runs

| Run | Module | Result |
|---|---|---|
| `pool_exits` | VaultPool | types; holdings backed by `TotalShares`; no call but a slash lowers the share price, with compounding, penalty, fee, restake exemption, automatic pause and yield |
| `pool_solvency` | VaultPool | the token balance covers all accounts and no share is unowned, with fees to all four destinations, referral bonuses, claims, insurance, slashes |
| `pool_positions` | VaultPool | holdings backed with withdrawal requests, both transfers, delegated stakes and redistributed slashes |
| `pool_modes` | VaultPool | a holder can exit now in every combination of modes; every holder is registered |
| `pool_audit` | VaultAudit | nobody is credited more than the shares earned, on every path that settles |
| `pause_control` | PauseControl | types; all pausers together implement `PoolModes`; who lifts a pause clears its schedule, the four bare unpauses excepted (queued, multisig, nonce, synchronized); a limited pause ends unless somebody keeps pausing, in a stopped pool too |
| `funds` | MCFunds | 33 features that hold tokens or positions: bids staked or refunded, sealed bids paid once, shares only change hands, contests, campaigns and distributions covered, claims paid once, loans repaid or owed; sub-pools and meta-stakes exact, positions moved whole, limits kept over owner and spender, strategies on the books, mirrors exact, ballots sound, safeguards, wind-down whole |
| `rules` | MCRules | 20 features that decide or pay rewards: proposal books and tallies, forums, slash disputes, rankings, authority, fee notice, treasury; spans priced as the sum of their ledgers, ramps that move towards their target without jumps, rewards that arrive once |

Four further runs show where the code and its documents disagree; each one
checks a single sentence of the documentation (quoted in `PROJECT.json`) and ends
in a counterexample:

- `v_solvency`: `claim_partial` pays without debiting the reward pool.
- `v_phantom_restake`: an exit overwrites the balance its own compounding wrote.
- `v_unearned`: `stake` changes a balance without settling its rewards.
- `v_pause_loop`: pausing a paused pool, one ledger before its limit, renews the
  deadline of the forced unpause, so the pool stays closed for ever.

### Reading the passing runs together with these

A passing run states what holds on the paths it enables. `pool_solvency` has
neither compounding nor partial claims, `pool_modes` no transfers, `pool_audit`
no `stake` without settlement: the violating runs show why, one at a time.
`pool_exits` and `pool_positions` include compounding and overwritten requests,
and `SharesBacked` holds regardless: phantom shares dilute, they never underflow.

Several properties of the feature runs (`funds`, `rules`) are written to say exactly what the code
keeps, where a document would promise more. `ClaimsPaidOnce` counts what a claim
promises without funding, `SafeguardsHold` debt cleared against deposits given up,
`MirrorsExact` the tokens that mirrored stakes never brought, `WindDownWhole`
the gifts a closed pool may still hold, `PositionsWhole` the reward
that a handover, a redemption or a scheduled exit discards, `SharesOnlyChangeHands` the
shares that an offer to oneself duplicates (`phantom`), `FeeAnnounced` the votes,
`ScheduleEndsWithPause` the bare unpauses. `SlashesSettledOnce` is about disputes:
`slash` itself (`vault.rs:5382`) pays the treasury at once, where
`slash_dispute.rs:22-26` asks it to wait for the dispute window. `ExitsWithinLimits` is about the
window the code keeps, which starts anew with the first exit after its end, while
`daily_withdrawal_limit.rs:5-6` calls it rolling. `TreasuryCovered` says nothing of the
withdrawal limit. `CampaignsCovered` leaves out the guarantor's reserve, a number that
no token backs. The observations of section 7 list these places.

## 4. Bounds

| Bound | Value | Why it is enough |
|---|---|---|
| users `N` | 2 | every property compares a user with the rest of the pool, or two parties of a transfer |
| `MaxHeld`, tokens in the contract | 2 to 5 | several stakes, yield and a fee, with ratios other than 1 and all roundings |
| `MaxLedger` | 1 or 2 | lock, cooldown and restake window are one ledger, so before, at and after occur |
| `MaxStakers`, registry length | 2 or 3 | duplicates of an entry occur |
| amounts offered | one or two values per entry point | partial and full exits take every share count |
| `MaxPending`, timelock queue | 2 (5 in the code) | two queued actions can be executed in either order |
| pause limits | 0, 2, 3 ledgers | unlimited, and a change of the limit between pauses |
| feature runs: `Purse`, `Staked` | 1 or 2 tokens each | with `Amounts` 1 and 2: partial and full, first and second, and more than is there |
| feature runs: `MaxLedger` | 3 | every window, notice, cooldown, period and vesting is 1 or 2 ledgers, so there is a ledger before, at and after its end |
| ids (`MaxItems`, `MaxProposals`, `MaxSubPools`, `MaxNotes`, `MaxSplits`, ...) | 1 or 2 | a second instance started over the first |
| lists at their limit (`NewsCap`, `ThreadCap`, `MaxFollowers`, `MaxQueue`) | 1 or 2, and one entry more offered | the eviction or refusal at the limit happens |
| `MaxAccrued`, `MaxEarned`, `MaxSettled`, `MaxDue` | 1 to 6 | rewards above the cap, above the pool, and none |
| rates and shares in bps | 0, 5000, 10 000, 20 000 | odd amounts round; zero and full are the edges |
| `MaxLosses`, `MaxYield`, `MaxUnbacked` | 1 | one outside gain or loss, at any moment |
| `MarketSteps`, `MaxGain`, `MaxDrop` | gains and drops of 8 | gains large enough that performance fee, keeper's tip and both parts of the treasury split are at least one token, and harvests the contract has no tokens to tip from |
| `Groups` | `<<k1, k2>>`, `<<k1>>`, `<<k2, k2>>`, any threshold | the group is enlarged, reduced, and names a key twice |
| `FeeValues`, `VotedFees`, `MaxFee`, `MaxVotedFee` | 0 to 2, {1, 3}, 2, 1 | votes below, at and above both ceilings, before, during and after a notice |
| `RampLengths` | 2 | a ledger strictly between the ends of a ramp |
| `Floors` | 0, 4000 | a floor above and below the halved rate |
| `EpochRewards`, `EpochVesting`, `MaxQueued` | {2, 3}, 1, 1 | the admin changes the reward between epochs; a full vesting queue refuses a claim |
| `MaxContent`, `QuotaOps` | 2, {1, 2} | with a quota of 1 the second submission is one too many; the quota changes inside an epoch |

In `RewardRates` and `SubPools` a year has one to three ledgers, so that
a rate of 100% is worth whole tokens within the horizon.

The bounds sit in the guards and are named constants. Fees of 50% or 75% make
integer parts of tiny amounts visible. The feature runs do without deadlock
checking: their wallets, ledgers and ids run out, and a settled contest or a
renounced admin has nothing left to call. The other runs check it:
setting a mode and closing a ledger are always possible in the models that have
them, and claims are always enabled.

## 5. Fairness

Only `PauseControl` has liveness properties. `PauseFairSpec` assumes weak
fairness of `close_ledger` (the network closes ledgers whatever the contract
does), of the application of a due schedule (any user's call applies it) and of
`force_unpause` (permissionless: anyone who wants the pool back may call it).
Nothing is assumed of the admin, the roles or the guardian. `PauseEnds` needs no
more. `v_pause_loop` is checked under `PauseEagerSpec`, which adds strong fairness
of `force_unpause`: its counterexample is not a caller who is always too late, for
the call never becomes due at all.

## 6. Proofs

All theorems hold for every value of the constants that the named assumptions
allow: any number of users, any amounts, rates, fees, windows and limits, any
length of a behaviour. The assumptions, one in each module that declares constants (`PoolAssumption`,
`LoanAssumption`, `StrategyAssumption` and so on), say that amounts and windows
are naturals, that shares in basis points are at most 10 000 where the setters
check it, that a year and a day have at least one ledger, and that the users are
finitely many. The runs evaluate them.

### The core (`VaultPool_proofs`)

- `TypeCorrect`: `Spec => []TypeOK`. One lemma per entry point. It needs the
  rounding lemmas: a basis-point cut lies between zero and the value (`BpsBound`),
  the four parts of the fee add up to it (`ExitAmounts`), conversions are natural
  (`MintNat`, `RedeemNat`), and the remainder is a remainder (`ModRange`).
  `TypeOK` is inductive by itself.
- `HoldingsNeverExceedTotal`: `Spec => []SharesBacked`. `SharesBacked` states the
  sum over the users as a running total `p` bounded by `TotalShares`. It is not
  inductive as it stands: taking shares from user `u` lowers `p` from `u` on, and
  that it stays non-negative there needs `p` to grow along the users. The
  inductive form `HoldingsBacked` says so; `AdjustTotal` shows that rewriting one
  entry moves the total by the difference, and each entry point is one such
  rewriting (`OneUserStep`), a transfer two (`MoveBacked`).
- `TotalIsExact`: `Spec => []NoPhantomShares`, assuming `AutoRestakers = {}` and
  `Cooldowners = {}`: INV-1 as an equation. Both are needed: `v_phantom_restake`
  shows the first, an overwritten request the second.
- `PoolSolvent`: `Spec => []Solvent`, assuming `AutoRestakers = {}` and
  `PartialAmounts = {}`. Both are needed: `v_solvency` breaks it with partial
  claims, and compounding adds to `TotalDeposited` a reward that leaves neither
  the pool nor the balance.
- `PriceNeverFalls`: `Spec => SharePriceNeverFalls`, without restriction: an
  action property with products of four variables, reduced by the rounding lemmas
  to one inequality for minting, burning and adding yield.
- `HoldersListed`: `Spec => []HoldersRegistered`, assuming `Movers = {}` (a
  transfer does not register its recipient). The inductive form `Registered` adds
  the type of the list; `remove_from_staker_list`, a `SelectSeq`, keeps everybody else
  on it, and whoever it drops holds no shares.
- `NoValueFromRoundTrip` (`Arithmetic_proofs`): INV-6 for the conversions.

### Pause control (`PauseControl_proofs`)

`PauseTypeCorrect`; `PauseRefinesModes`, the refinement `PauseSpec =>
ImplementsPoolModes`, step by step: each of the pausers, the schedule, the queue
and the forced unpause changes the five flags as `PoolModes`, on which `VaultPool`
is built, allows; and `LiftingClearsSchedule`, an action property: a step that lifts
the pause clears the schedule or is one of the four bare unpauses, which are named.

### Features that hold tokens (`Funds_proofs`, `Features_proofs`)

Each theorem is about the composition `FundsSpec` while its feature is in focus.
The inductive invariant is in every case the books of the pool (`Books`: types,
and shares that sum up to the total), the types of the feature's storage, and the
sentences below.


- `LoansAreBalanced`: `FundsSpec => []LoansRepaidOrOwed`. The inductive form
  `LoanBooks` adds types, and that shares sum up to the total, since an
  exit is priced by them; interest, partial repayment and liquidation each
  change one entry of the table of debts.
- `ContestsPayTheirOwn`: `FundsSpec => []ContestsCovered`. A prediction market pays
  each winner a rounded share of both pots. `ContestBooks` therefore says more than
  that the rest of the money is there: the claims still open, priced from the pots,
  fit in what is left. That rounded shares never exceed the whole is a lemma about
  sums of quotients.
- `SealedBidsAreSettled`: `FundsSpec => []SealedBidsPaidOnce`. The tokens beyond
  principal and pool are the sum, over listings and bidders, of the bids not yet paid
  out, plus the forfeits no treasury took. A listing is only closed by the first
  `settle`, and a bid leaves the sum when its record is marked.
- `TradesMoveShares`: for swaps and sealed auctions, the shares in escrow of open
  listings and the users' shares together are `TotalShares` plus `phantom`, what
  offers to oneself have duplicated. It is the part of `SharesOnlyChangeHands`
  without the capacity auction.
- `CampaignsAreCovered`: `FundsSpec => []CampaignsCovered`, with one set of books for
  each of the eight features under the property. A lockdrop pays rounded shares of
  one pot by score, and the prize of everybody who has not claimed stays covered, of those
  too who left first and cannot claim any more; a presale reserves at its cap, a revenue root is claimed once a
  user, a matching program never uses more than its budget.
- `PositionsAreWhole`: `FundsSpec => []PositionsWhole`. Balances and split positions
  sum up to the total; each user's running reward is the shares times the ledgers
  since the checkpoint, so that earned is paid, credited, running or counted as
  given up; fractions sum up to the receipt over its listed holders.
- `ExitsStayWithinLimits`: `FundsSpec => []ExitsWithinLimits`. The tracker of a day
  is what left the position in that day, by either road; the largest limit ever
  set bounds it because the limit is compared with the tracker before the exit.
- `BallotsAreSound`: `FundsSpec => []BallotsSound`. Effective weights are sums over
  those who lent theirs and have not let it expire; delegation is one level
  deep, and the proof needs that a delegator is never a delegate at the same moment.
- `SafeguardsAreKept`: `FundsSpec => []SafeguardsHold`. "No poorer" compares the exact
  ratio of collateral to debt. The health in basis points that the code computes can
  drop by rounding alone: at a loan-to-value of 5000, with a collateral of 4 and a
  debt of 3, giving up 1 for 1 takes it from 6666 to 5000 through the rounded limit.
- `StrategiesAreAccounted`: `FundsSpec => []StrategiesAccounted`. Deposits, reward pool
  and reserve equal the idle tokens plus the recorded allocations, up to the gains and
  to the tips and treasury parts that were transferred (a tip is skipped when the contract
  is short of tokens, and without a split the treasury's part stays). The allocations are a sum over a registry that
  an unwinding shortens; the high-water mark bounds every fee while no loss is
  written off.
- `ClaimsArePaidOnce`: `FundsSpec => []ClaimsPaidOnce`. A claim is followed through
  cap, insurance cut, premium, loan repayment, escrow and vesting: each step takes
  a part of the amount, and the parts add up to it. The held tokens are principal,
  pool, funds, escrows and the funded entries of the queue.
- `SubPoolsAreExact`: `FundsSpec => []SubPoolsExact`. Positions sum up to the total of
  their pool, totals to the tokens, capacities to what rebalancing may
  move. For the reward, the invariant relates every position to the present
  ledger: settled reward times a year, plus position times rate times the ledgers
  since its checkpoint, is at most what the ledgers earned, and equal to it if the
  rate is a multiple of the divisor. Each settlement rounds down, so the
  inequality is all that holds at other rates (`SubRates` of the run has both kinds).

### Features that decide (`Governance_proofs`, `Rules_proofs`)

- `SquareRootFloor`: the Newton loop of quadratic voting (`isqrt`) ends, for every
  stake, at the floor of its square root, as its comment promises.
- `ProposalBooksKept`, `VotesAreBacked`: from one inductive invariant, `GovBooks`:
  a bond is settled by enactment only and nothing vetoed or cancelled is enacted, the
  bonds neither refunded nor slashed are the tokens beyond principal and reward pool,
  the slots taken are the open proposals, each tally is the sum of its receipts, and
  each delegate's weight the sum of what was lent it when it was lent.
- `FeesAreAnnounced`, an action property: a pending change is due when the notice
  in force at its announcement is over (`FeeInv`). Votes write the fee at any moment;
  they are the one exception, and leave the pending change in place.
- `TreasuryIsCovered` (`TreasuryInv`: types, and the property itself, which is inductive: every
  entry point that spends checks the treasury's balance and not the contract's).
- `AuthorityKept` (`KeysInv`: every change in the three queues names the admin of now, which
  each of the four ways the key changes hands must restore; `MultisigInv`: the approvals of an action are a
  sequence without repetition, of keys that were members, so that its length counts members.
  `initialize_multisig` may replace group and threshold between any two steps, so the
  bound is the threshold at the execution, which the history field `asked` keeps).
- `SlashesAreSettledOnce`: nothing in the code marks a slash as paid. It is the clock that
  excludes a second payment: a dispute can be resolved only after its deadline,
  which lies at or after the end of the window in which the slash can be disputed.
  `DisputeBooks` says that for the open disputes and the settled slashes; it needs
  the window not to be lengthened meanwhile (`raised`), and the property says so.
- `ForumsCountOnce`: `RulesSpec => []ForumVotesOnce`. The votes of a roadmap item are
  a sum over its voters that re-allocation, removal of an item and a new epoch must
  each keep; the tips of a day and the tiers of quizzes are counted the same way.

### How sums and loops are proved

RECURSIVE operators are beyond the provers, and so is induction with a predicate as
a parameter. A total of `Sums` is the library's fold, a recursive function on the
subsets of a set that is *chosen* by its equation. `Arithmetic_proofs` shows that a table
which satisfies the equation exists (`TableSums`), and replaces induction by a
smallest counterexample: among the subsets for which a statement about a given
function fails, one is minimal (`SmallestSubset`), and removing an element
contradicts it. The Newton loop, a recursive function on numbers, is treated the
same way with a least number (`LeastNat`). Lemmas then say what the models do with
totals: change one entry, add an index, split, bound.

### Left to TLC

- Liveness (`PauseEnds`), and `HoldersCanExit`, which is stated with ENABLED.
- What depends on the order in which a sequence is walked, or on its sorting:
  `MirrorsExact`, `BidsStakedOrRefunded`, `RankingsFair`, `PromotedKept`.
- Sums over the ledgers of a span: `SpansPriced`, `RewardsEarned`.
- `RewardsReachOnce` and `RampSteady`, which join many entry points with histories of their own; `WindDownWhole`, whose statement about
  resolved positions and notes holds while a share is worth one token, which is
  the price the run keeps (`PoolYield` = 0): at other prices a forced resolution
  rounds.

The proofs changed the models in form only: no operator is RECURSIVE any more, the
assumptions on constants are written down, and updates of records inside sequences
name the new record first (the prover misreads an `@` inside two EXCEPTs).

## 7. Not modelled

Calls by other contracts during a transaction (the reentrancy guard and the host
exclude them), authorization signatures (an action is a call that was signed),
archival of storage entries, events, analytics, and the parts that
`PROJECT.json` names with their reason: the withdrawal queue of
`vault_extensions_502_505.rs` and the older `request_unstake` flow, the dynamic
fee, `migrate_position`, the collateral swap, the sub-unit claim, deposit limits
that only strengthen guards, donation routing, and the interaction of two
optional features through the pool.

The models also show the following, which no run states as a property:

- a second `request_withdrawal` overwrites the first (`withdrawal_cooldown.rs`),
  whose shares stay in `TotalShares` and belong to nobody;
- the early-exit penalty of the last staker stays in `TotalDeposited` with no
  shares left, where INV-4 wants no principal tracked;
- `transfer_position` does not register the new owner in `AllStakers`, and sets
  the recipient's settled reward to zero, which a former owner loses;
- `stake` and `deposit` do not look at the pause flag; `stake_with_referral` looks
  at neither the sunset nor the withdraw-only flag;
- a queued Pause executes during the cooldown after a forced unpause;
- a pool stopped while paused, with neither a limit nor a schedule, cannot be
  unpaused, and `unstake` stays closed (only `emergency_withdraw` is left);
- `TotalStakers` drifts when a position left by `emergency_withdraw` is opened
  again (a second entry is appended, one removal clears both, the counter goes
  down once);
- the referral bonus is charged twice to the pool and transferred once, to the
  referee; the automatic pause compares the whole token balance with a threshold
  described as a reward balance.

Payments and reserves:

- `execute_pending_claim`, `claim_vesting`, `release_vested`,
  `claim_validator_rewards`, `burn_and_redeem`, `meta_claim` and the recovery
  keeper's incentive pay from the token balance without debiting the reward pool,
  like `claim_partial` in `v_solvency`; `withdraw_vested` checks the pool at the
  payment and does not debit it; `deposit_validator_rewards` and the guarantor's reserve move no
  tokens;
- `execute_buyback` (`vault.rs:10620`) treats everything above `TotalDeposited` as
  surplus, the reward pool and every feature's budget included;
  `available_for_yield` counts the reward pool as idle;
- a full exit drops the escrowed reward; a scheduled exit pays nothing and drops
  the unsettled one; redeeming a receipt pays the stored reward (`nft_redeem.rs:109`), where
  lines 63-64 say that the pending one is settled first; sub-pool rewards accrue with no way to claim them, and a rate
  change reprices the span before it;
- mirrored stakes mint shares for tokens that never arrive;
- `compound` (`vault_extensions_502_505.rs:208`) adds a reward to principal without
  debiting the pool;
- deferred rewards are paid outside the reserve floor and the epoch cap; the part
  of a settlement above an epoch's budget is lost; distributing validator rewards
  drops the remainder.

Positions and wind-down:

- `close_pool` (`vault.rs:12418`) looks only at the staker list, where `gift_stake`
  (12704) never enters the recipient: a pool can be closed over a gifted position;
- `force_resolve_position` fails while the reward pool is smaller than the accrued
  reward, and such a position keeps the pool from closing until its owner leaves;
- `migrate_to_new_pool` drops a reward the pool cannot pay, and asks for neither
  pause, sunset nor debt notes; forced resolution, migration and transfer pass the
  lock of a debt note; a note's expiry is never read;
- replacing the yield protocol while tokens are deployed leaves them with the old
  one until it is registered again;
- fractions can be sent only by the owner, so a receipt once cut is not
  reconstructed by others and `do_unstake_to` stays blocked, while redemption and
  transfers are not;
- split positions earn nothing, and exit by merging or as dust;
- the large-deposit hold is enforced by `withdraw_to` only.

Governance and administration:

- with a threshold of at most 50% a tie passes, and skips the execution delay and
  with it the guardian's window, which apply only if votes for exceed votes against;
- vetoed proposals keep their bond and, in the first generation, their slot;
  `enact_*` in `vault_extensions_761_764.rs` marks a failed proposal closed and then
  returns an error, which reverts the mark: it stays open with bond and slot;
  a second veto frees a second slot;
- `batch_vote` ignores delegation; `change_vote` can never find a record;
- `initialize_multisig` is documented as "Callable once" (`vault.rs:2248`) and
  overwrites; approved actions are dispatched after the admin has renounced;
  the emergency admin survives a transfer;
- `settle_pending_fee_change` is called by `propose_fee_change` only, so a matured
  rise waits for the next proposal; `circuit_breaker.rs` sets the pause flag and
  then returns an error, which reverts it;
- a slashed bond always finds a destination: `initialize` and `import_state` set the
  slash treasury to the admin, and `set_slash_treasury` only replaces it, so the branch
  of `proposal_requirements.rs:143-146` that keeps the bond is not reached;
- a stake voted by a delegate may be voted again by its owner, in a ballot still
  open when the delegation has expired;
- a rise of the unstake fee by `enact_proposal` (`vault.rs:9763`) or a ballot
  (`vault_extensions_761_764.rs:434`, 710) takes effect at once, where
  `fee_change_notice.rs:7-8` wants increases queued; the ballots compare with no ceiling, where
  line 51 says that no fee setter may exceed it;
- a delegate votes with the weight the stake had at the delegation
  (`vault.rs:9861-9866`); lines 9817-9818 say the live one;
- `batch_vote` weighs in the mode of now (`batch_vote.rs:53`), where
  `quadratic_vote.rs:13-14` says that an open proposal keeps its mode;
- without a quota configuration `consume_quota` refuses everything
  (`stake_quota.rs:87-90`); line 86 and the test `unconfigured_pool_has_no_quota_gate`
  (`test_stake_quota.rs:72`) say that nothing is gated.

Rates:

- `reward_between_ledgers` does not advance when a halved rate is zero and the
  schedule continues (`vault.rs:7125`): `RewardRates` models the call as one that
  never returns (`Stuck`, `can_settle`);
- policies may set a rate above the ceiling of `reward_rate_ceiling.rs`; the
  time-weighted average falls back to the first rate when the average is zero;
  a ramp is shown but not used by accrual, which reads the stored rate;
- a rate of zero pays nothing even where the halving schedule has a floor above
  zero (`vault.rs:7057` returns first).

Strategies and safeguards:

- `report_strategy_loss` resets the high-water mark, which
  `vault_extensions_765_768.rs:53` says is preserved during drawdowns; anybody may
  report, and an adapter that fails counts as worth nothing; gains of a harvest
  are not added to `TotalDeposited`; in the older registry `allocated` may become
  negative;
- "Debt drops, so health improves" (`position_health_auto_recovery.rs:267`) holds
  only while the collateral covers the debt; interest is not accrued first; a
  recovery at ledger 0 does not start the cooldown;
- a longer commitment window revives an expired commitment; a covenant with the
  same version and new text keeps its signatures.

Contests, campaigns, distributions:

- leaving a lockdrop before claiming forfeits the prize (`lockdrop_campaign.rs:292`
  against 339-341), where lines 12-13 call exit and claim independent; the prize stays
  in the contract;
- a second bet overwrites the first; a restarted presale forgets what was
  reserved; a swap offer to oneself makes shares
  (`vault.rs:13256` overwrites the balance just written), against INV-1
  (`docs/INVARIANTS.md:56`);
- replacing a revenue root drops unclaimed shares, and the announced total is not
  compared with the fund; republishing an epoch of a reward drop makes its old
  claims count again; the matching cap of a user counts former programs too.

## 8. Plan

Done: the core pool and pause control with their theorems, the optional features
in two compositions, and a theorem for most of the books they keep. What remains
worth doing:

1. The theorems that section 6 leaves to TLC without a reason of principle:
   `RewardsReachOnce`, and the settlement loop of the capacity auction written as a
   recursive function.
2. The withdrawal queue of `vault_extensions_502_505.rs` beside the cooldown
   flow, and `request_unstake`.
3. Pairs of features that meet in the token balance: buybacks, strategies and
   yield deployment against the reward pool.
