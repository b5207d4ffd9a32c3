------------------------------- MODULE Strategies -------------------------------
(***************************************************************************)
(* Idle tokens put to work outside the vault.  Adapters are contracts of   *)
(* other parties: they hold the tokens, report what they are worth and may *)
(* answer or fail in any call.  Exits pull tokens back, harvests charge a  *)
(* performance fee over a high-water mark, losses go to the insurance      *)
(* reserve and then to the share price, and a strategy can be unwound.     *)
(* The earlier registry with a cap for each strategy is beside it.         *)
(***************************************************************************)
EXTENDS PoolBase

CONSTANTS
    Adapters,           \* the strategy contracts
    Volatile,           \* the ones that gain, lose and fail
    IdleRatios,         \* set_min_idle_ratio_bps values
    PerfFees,           \* set_performance_fee_bps values
    KeeperTipShare,     \* KEEPER_TIP_SHARE_BPS, 500 in the code
    TreasurySplits,     \* bps_shares a treasury split is set to
    StrategyCaps,       \* cap_bps of a capped strategy
    ExitFee,            \* unstake fee, of which InsuranceShare goes to the reserve
    InsuranceShare,
    Lots,               \* amounts put into a strategy
    MarketSteps,        \* external: gains and losses of an adapter
    MaxGain,            \* model bounds on their sum
    MaxDrop,
    MaxLosses           \* model bound on the losses written off

ASSUME StrategyAssumption ==
    /\ Volatile \subseteq Adapters
    /\ IdleRatios \subseteq Nat /\ PerfFees \subseteq Nat /\ StrategyCaps \subseteq Nat /\ Lots \subseteq Nat
    /\ ExitFee \in 0..BPS_DENOMINATOR /\ InsuranceShare \in 0..BPS_DENOMINATOR
    /\ KeeperTipShare \in 0..BPS_DENOMINATOR /\ TreasurySplits \subseteq Seq(Nat) /\ MarketSteps \subseteq Int

MAX_PERFORMANCE_FEE_BPS == 5000
MAX_TREASURY_SPLIT_RECIPIENTS == 3
MAX_STRATEGIES == 3

VARIABLES
    strategies,     \* the StrategyRecords, idle ratio, fee, treasury split and insurance reserve
    capped,         \* StrategyConfigs of the registry with caps
    market_value    \* external: tokens each adapter holds; its net gains and their peak
strategy_vars == <<strategies, capped, market_value>>

\* `booked' (value recorded beyond what was sent), `paid' (tips and fees that left), `charged'
\* (gains a fee was charged on) and `reported' (losses written off) are history.
RecordInit ==
    strategies = [recs |-> <<>>, idle |-> 0, fee |-> 0, split |-> <<>>, reserve |-> 0,
                  booked |-> 0, paid |-> 0, charged |-> [a \in Adapters |-> 0], reported |-> 0]

CappedInit == capped = <<>>

\* External: the adapters' own books.
MarketValueInit == market_value = [a \in Adapters |-> [assets |-> 0, net |-> 0, peak |-> 0]]

StrategyInit == RecordInit /\ CappedInit /\ MarketValueInit

index(a) == IF \E i \in DOMAIN strategies.recs : strategies.recs[i].adapter = a
            THEN CHOOSE i \in DOMAIN strategies.recs : strategies.recs[i].adapter = a ELSE 0

get_total_allocated_to_strategies ==
    sum([i \in {i \in DOMAIN strategies.recs : ~strategies.recs[i].disabled /\ strategies.recs[i].allocated > 0} |-> strategies.recs[i].allocated])

set_min_idle_ratio_bps(r) ==
    /\ r <= BPS_DENOMINATOR
    /\ strategies' = [strategies EXCEPT !.idle = r]
    /\ UNCHANGED <<base_vars, capped, market_value>>

set_performance_fee_bps(r) ==
    /\ r <= MAX_PERFORMANCE_FEE_BPS
    /\ strategies' = [strategies EXCEPT !.fee = r]
    /\ UNCHANGED <<base_vars, capped, market_value>>

set_treasury_split(s) ==
    /\ Len(s) <= MAX_TREASURY_SPLIT_RECIPIENTS /\ sum(s) = BPS_DENOMINATOR
    /\ strategies' = [strategies EXCEPT !.split = s]
    /\ UNCHANGED <<base_vars, capped, market_value>>

\* Tokens to or from an adapter, on its books.
sent(a, n) ==
    market_value' = [market_value EXCEPT ![a] = [market_value[a] EXCEPT !.assets = market_value[a].assets + n]]

\* Mutant: topping up a strategy leaves its high-water mark where it was.
enlarged_unmarked(rec, n) == [rec EXCEPT !.allocated = rec.allocated + n]

enlarged(rec, n) == [rec EXCEPT !.allocated = rec.allocated + n, !.hwm = rec.hwm + n]

allocate_to_strategy(a, n) ==
    LET i == index(a)
        recs == strategies.recs
        tvl == held + get_total_allocated_to_strategies
    IN  /\ n <= held
        /\ strategies.idle > 0 => held - n >= (tvl * strategies.idle) \div BPS_DENOMINATOR
        /\ i # 0 => ~recs[i].disabled
        /\ strategies' = [strategies EXCEPT !.recs =
               IF i = 0 THEN Append(recs, [adapter |-> a, allocated |-> n, hwm |-> n, disabled |-> FALSE])
               ELSE [recs EXCEPT ![i] = enlarged(recs[i], n)]]
        /\ held' = held - n /\ sent(a, n)
        /\ UNCHANGED <<now, wallet, pool, rewardPool, capped>>

\* External: a withdrawal an adapter answers returns what it can.
returned(a, n, up) == IF a \in up THEN Min({n, market_value[a].assets}) ELSE 0

\* What each strategy in turn returns of the amount the ones before it left missing.
pulls(need, up) ==
    {got \in [DOMAIN strategies.recs -> 0..Max({need, 0})] :
        \A i \in DOMAIN got :
            LET rec     == strategies.recs[i]
                missing == need - sum_over(got, 1..(i - 1))
            IN  got[i] = IF missing <= 0 \/ rec.disabled \/ rec.allocated <= 0 THEN 0
                         ELSE returned(rec.adapter, Min({missing, rec.allocated}), up)}

\* The high-water mark stays where it was.
pull_from_strategies(got) ==
    LET recs == strategies.recs
    IN  [recs |-> [i \in DOMAIN recs |-> [recs[i] EXCEPT !.allocated = recs[i].allocated - got[i]]],
         left |-> [a \in Adapters |-> [market_value[a] EXCEPT !.assets =
                      market_value[a].assets - IF index(a) = 0 THEN 0 ELSE got[index(a)]]],
         total |-> sum(got)]

\* A share of the exit fee.
take_insurance_share(fee) == bps(fee, InsuranceShare)

\* do_unstake_to with a fee; when the contract is short the strategies are asked.
unstake_pulling(u, up) ==
    LET amount == amount_of(u)
        fee    == bps(amount, ExitFee)
        paid   == amount - fee
        cut    == take_insurance_share(fee)
    IN  \E got \in pulls(paid - held, up) :
          LET p == pull_from_strategies(got)
          IN  /\ shares[u] > 0 /\ held + p.total >= paid
              /\ held' = held + p.total - paid
              /\ wallet' = [wallet EXCEPT ![u] = wallet[u] + paid]
              /\ totalShares' = totalShares - shares[u] /\ totalDeposited' = totalDeposited - amount
              /\ shares' = [shares EXCEPT ![u] = 0]
              /\ rewardPool' = rewardPool + fee - cut
              /\ strategies' = [strategies EXCEPT !.recs = p.recs, !.reserve = strategies.reserve + cut]
              /\ market_value' = p.left
              /\ UNCHANGED <<now, capped>>

\* An adapter that does not answer counts at what was recorded.
current_value(rec, up) == IF rec.adapter \in up THEN market_value[rec.adapter].assets ELSE rec.allocated

harvestable(up) == {i \in DOMAIN strategies.recs :
                       LET rec == strategies.recs[i] IN ~rec.disabled /\ current_value(rec, up) > rec.hwm}

perf_fee(i, up) == bps(current_value(strategies.recs[i], up) - strategies.recs[i].hwm, strategies.fee)

keeper_tip(i, up) == bps(perf_fee(i, up), KeeperTipShare)

\* What the recipients of the split receive of n: rounded down each, nothing without a split.
apply_treasury_split(n) == sum([k \in DOMAIN strategies.split |-> bps(n, strategies.split[k])])

treasury_paid(i, up) == apply_treasury_split(perf_fee(i, up) - keeper_tip(i, up))

\* What the keeper gets for each gain in turn: nothing for one the contract cannot pay then.
tips_paid(up) ==
    LET Gains == harvestable(up)
    IN  {tips \in [Gains -> 0..Max({held, 0})] :
            \A i \in Gains :
                LET before == {j \in Gains : j < i}
                    left   == held - sum([j \in before |-> tips[j] + treasury_paid(j, up)])
                IN  tips[i] = IF left >= keeper_tip(i, up) THEN keeper_tip(i, up) ELSE 0}

\* By anyone.  A transfer to the treasury that the contract cannot pay reverts the call.
harvest(caller, up) ==
    LET Gains    == harvestable(up)
        recs     == strategies.recs
        to_split == sum([i \in Gains |-> treasury_paid(i, up)])
        value(i) == current_value(recs[i], up)
        gain(i)  == value(i) - recs[i].allocated
        above(a) == IF index(a) \in Gains THEN value(index(a)) - recs[index(a)].hwm ELSE 0
    IN  \E tips \in tips_paid(up) :
          /\ Gains # {} /\ held >= sum(tips) + to_split
          /\ held' = held - (sum(tips) + to_split)
          /\ wallet' = [a \in Accounts |-> wallet[a] + (IF a = Admin THEN to_split ELSE 0) + (IF a = caller THEN sum(tips) ELSE 0)]
          /\ strategies' = [strategies EXCEPT
                 !.recs = [i \in DOMAIN recs |-> IF i \in Gains THEN [recs[i] EXCEPT !.hwm = value(i), !.allocated = value(i)]
                                                 ELSE recs[i]],
                 !.booked = strategies.booked + sum([i \in Gains |-> gain(i)]),
                 !.charged = [a \in Adapters |-> strategies.charged[a] + above(a)],
                 !.paid = strategies.paid + (sum(tips) + to_split)]
          /\ UNCHANGED <<now, pool, rewardPool, capped, market_value>>

\* Mutant: the part the reserve absorbed is taken off the deposits as well.
absorb_twice(loss) ==
    totalDeposited' = Max({totalDeposited - loss, 0})

\* The reserve absorbs a loss first, the share price the rest.
absorb(loss) ==
    totalDeposited' = Max({totalDeposited - (loss - Min({loss, strategies.reserve})), 0})

\* What the deposits could not absorb comes off the gains recorded before.
after_loss(i, loss, rec) ==
    LET rest == loss - Min({loss, strategies.reserve})
    IN  [strategies EXCEPT !.recs = [strategies.recs EXCEPT ![i] = rec],
                           !.reserve = strategies.reserve - Min({loss, strategies.reserve}),
                           !.booked = strategies.booked - Max({rest - totalDeposited, 0}),
                           !.reported = strategies.reported + 1]

\* By anyone.  An adapter that does not answer is worth nothing, and the high-water mark
\* starts again from what is left.
report_strategy_loss(a, up) ==
    LET i     == index(a)
        rec   == strategies.recs[i]
        value == IF a \in up THEN market_value[a].assets ELSE 0
    IN  /\ strategies.reported < MaxLosses
        /\ i # 0 /\ value < rec.allocated
        /\ absorb(rec.allocated - value)
        /\ strategies' = after_loss(i, rec.allocated - value, [rec EXCEPT !.allocated = value, !.hwm = value])
        /\ UNCHANGED <<now, wallet, held, shares, totalShares, rewardPool, capped, market_value>>

emergency_unwind(a, up) ==
    LET i    == index(a)
        rec  == strategies.recs[i]
        got  == returned(a, rec.allocated, up)
        loss == rec.allocated - got
        gone == [adapter |-> a, allocated |-> 0, hwm |-> 0, disabled |-> TRUE]
    IN  /\ i # 0 /\ (loss > 0 => strategies.reported < MaxLosses)
        /\ held' = held + got /\ sent(a, 0 - got)
        /\ IF loss > 0 THEN absorb(loss) /\ strategies' = after_loss(i, loss, gone)
           ELSE /\ strategies' = [strategies EXCEPT !.recs = [strategies.recs EXCEPT ![i] = gone]]
                /\ UNCHANGED totalDeposited
        /\ UNCHANGED <<now, wallet, shares, totalShares, rewardPool, capped>>

\* External: the market moves.
market_moves(a, d) ==
    LET m   == market_value[a]
        net == m.net + d
    IN  /\ m.assets > 0 /\ m.assets + d >= 0 /\ net \in (0 - MaxDrop)..MaxGain
        /\ market_value' = [market_value EXCEPT ![a] = [assets |-> m.assets + d, net |-> net, peak |-> Max({net, m.peak})]]
        /\ UNCHANGED <<base_vars, strategies, capped>>

StrategyMoves ==
    \/ \E r \in IdleRatios : set_min_idle_ratio_bps(r)
    \/ \E r \in PerfFees : set_performance_fee_bps(r)
    \/ \E s \in TreasurySplits : set_treasury_split(s)
    \/ \E a \in Adapters, n \in Lots : allocate_to_strategy(a, n)
    \/ \E a \in Volatile, d \in MarketSteps : market_moves(a, d)
    \/ \E up \in {Adapters, Adapters \ Volatile} :
         \/ \E u \in Users : unstake_pulling(u, up)
         \/ harvest(Admin, up)
         \/ \E a \in Volatile : report_strategy_loss(a, up) \/ emergency_unwind(a, up)

-------------------------------------------------------------------------------
cap_index(a) == IF \E i \in DOMAIN capped : capped[i].adapter = a
                THEN CHOOSE i \in DOMAIN capped : capped[i].adapter = a ELSE 0

add_strategy(a, cap) ==
    /\ cap <= BPS_DENOMINATOR /\ Len(capped) < MAX_STRATEGIES /\ cap_index(a) = 0
    /\ cap + sum([i \in DOMAIN capped |-> capped[i].cap]) <= BPS_DENOMINATOR
    /\ capped' = Append(capped, [adapter |-> a, cap |-> cap, allocated |-> 0])
    /\ UNCHANGED <<base_vars, strategies, market_value>>

\* By any keeper; the adapter must accept the deposit.
allocate_capped(a, n) ==
    LET i == cap_index(a)
    IN  /\ i # 0 /\ held >= n
        /\ capped[i].allocated + n <= (totalDeposited * capped[i].cap) \div BPS_DENOMINATOR
        /\ capped' = [capped EXCEPT ![i] = [capped[i] EXCEPT !.allocated = capped[i].allocated + n]]
        /\ held' = held - n /\ sent(a, n)
        /\ UNCHANGED <<now, wallet, pool, rewardPool, strategies>>

\* Mutant: what was asked for, not what came back, is taken off.
withdrawn_asked(a, n) == n

\* The amount withdraw_from_strategy takes off the allocation.
withdrawn(a, n) == returned(a, n, Adapters)

\* A failing adapter reverts.  Withdrawn gains make the allocation negative.
withdraw_from_strategy(a, n) ==
    LET i == cap_index(a)
    IN  /\ i # 0
        /\ capped' = [capped EXCEPT ![i] = [capped[i] EXCEPT !.allocated = capped[i].allocated - withdrawn(a, n)]]
        /\ held' = held + returned(a, n, Adapters) /\ sent(a, 0 - returned(a, n, Adapters))
        /\ UNCHANGED <<now, wallet, pool, rewardPool, strategies>>

CappedMoves ==
    \/ \E a \in Adapters, c \in StrategyCaps : add_strategy(a, c)
    \/ \E a \in Adapters, n \in Amounts : allocate_capped(a, n) \/ withdraw_from_strategy(a, n)
    \/ \E a \in Volatile, d \in MarketSteps : market_moves(a, d)
    \/ \E u \in Users : leave(u) /\ UNCHANGED strategy_vars

-------------------------------------------------------------------------------
\* Whatever adapters answer, fail, gain or lose, every token of deposits, reward pool and
\* reserve is idle in the contract or recorded with a strategy; gains recorded and tips and
\* fees that really left are the only difference.
strategies_balanced ==
    held + sum([i \in DOMAIN strategies.recs |-> strategies.recs[i].allocated])
         + sum([i \in DOMAIN capped |-> capped[i].allocated])
    = totalDeposited + rewardPool + strategies.reserve + strategies.booked - strategies.paid

\* As long as no loss has been written off, the performance fee is charged on the best
\* the strategy ever did and never on principal or on capital that recovers.
fees_on_new_highs ==
    strategies.reported = 0 => \A a \in Adapters : strategies.charged[a] <= market_value[a].peak

===============================================================================
