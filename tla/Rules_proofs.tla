------------------------------ MODULE Rules_proofs -----------------------------
(***************************************************************************)
(* Theorems about the features that decide (MCRules) for every value of    *)
(* the constants: proposals and delegated votes, fee notice, community     *)
(* treasury, authority, slash disputes and the forums.                     *)
(***************************************************************************)
EXTENDS MCRules, Governance_proofs

rules_vars == <<base_vars, gov_vars, forum_vars, admin_vars, rate_vars, policy_vars, focus>>

\* A step that is not the administration's own leaves its storage alone.
LEMMA AdminStep ==
    ASSUME [RulesNext]_rules_vars, focus \in {"handover", "authority", "fee", "treasury"}
    PROVE  /\ UNCHANGED focus
           /\ \/ AdminNext(focus)
              \/ UNCHANGED <<base_vars, admin_vars>>
  BY DEF RulesNext, rules_vars, ForumNext, RatesNext, PayoutNext

-------------------------------------------------------------------------------
(* The notice of a fee rise. *)

FeeChange == [bps : Nat, at : Int, since : Nat, wait : Nat]

\* A change under notice is due when the notice that was in force at its announcement is
\* over, and it had one.
FeeInv ==
    IF focus = "fee"
    THEN /\ now \in Nat
         /\ fee \in [bps : Nat, notice : Nat, pending : FeeChange]
         /\ fee.pending # NoChange =>
                fee.pending.wait > 0 /\ fee.pending.at = fee.pending.since + fee.pending.wait
    ELSE TRUE

\* No change is pending at the start.
LEMMA FeeInvInit == RulesInit => FeeInv
  <1> SUFFICES ASSUME RulesInit, focus = "fee" PROVE FeeInv
    BY DEF FeeInv
  <1>1. now = 0 /\ fee = [bps |-> 0, notice |-> 0, pending |-> NoChange]
    BY DEF RulesInit, BaseInitWith, AdminInit, FeeInit
  <1>2. NoChange \in FeeChange
    BY DEF NoChange, NoLedger, FeeChange
  <1> QED BY <1>1, <1>2 DEF FeeInv

\* The settlement of a pending change keeps the record's type.
LEMMA SettledType ==
    ASSUME FeeInv, focus = "fee"
    PROVE  /\ settled \in [bps : Nat, notice : Nat, pending : FeeChange]
           /\ settled.notice = fee.notice
           /\ \/ settled = fee
              \/ /\ fee.pending # NoChange /\ now >= fee.pending.at
                 /\ settled.bps = fee.pending.bps /\ settled.pending = NoChange
  <1>1. NoChange \in FeeChange
    BY DEF NoChange, NoLedger, FeeChange
  <1> QED BY <1>1 DEF FeeInv, settled, FeeChange

\* Every step keeps the notice, and no fee rises without one.
LEMMA FeeInvStep ==
    ASSUME FeeInv, [RulesNext]_rules_vars
    PROVE  FeeInv' /\ (focus = "fee" => [fee_announced]_fee)
  <1>1. CASE focus # "fee"
    <2>1. UNCHANGED focus
      BY DEF RulesNext, rules_vars
    <2> QED BY <1>1, <2>1 DEF FeeInv
  <1>2. CASE focus = "fee"
    <2>1. UNCHANGED focus /\ (AdminNext("fee") \/ UNCHANGED <<base_vars, admin_vars>>)
      BY <1>2, AdminStep
    <2>2. FeeInv => now \in Nat /\ fee \in [bps : Nat, notice : Nat, pending : FeeChange]
      BY <1>2 DEF FeeInv
    <2>3. CASE UNCHANGED <<base_vars, admin_vars>>
      BY <1>2, <2>1, <2>3 DEF FeeInv, base_vars, admin_vars
    <2>4. CASE TimePasses /\ UNCHANGED admin_vars
      <3>1. now' \in Nat
        BY <2>2, <2>4, BaseAssumption DEF TimePasses, tick
      <3> QED BY <1>2, <2>1, <2>4, <3>1 DEF FeeInv, admin_vars
    <2>5. ASSUME NEW n \in Notices, set_fee_notice_ledgers(n), UNCHANGED base_vars
          PROVE  FeeInv' /\ [fee_announced]_fee
      <3>1. n \in Nat
        BY AdminAssumption
      <3>2. /\ fee' \in [bps : Nat, notice : Nat, pending : FeeChange]
            /\ fee'.bps = fee.bps /\ fee'.pending = fee.pending
        BY <2>2, <2>5, <3>1 DEF set_fee_notice_ledgers
      <3>3. FeeInv'
        BY <1>2, <2>1, <2>2, <2>5, <3>2 DEF FeeInv, base_vars
      <3>4. fee_announced
        BY <2>2, <3>2 DEF fee_announced, rises_under_notice
      <3> QED BY <3>3, <3>4
    <2>6. ASSUME NEW b \in FeeValues, propose_fee_change(b), UNCHANGED base_vars
          PROVE  FeeInv' /\ [fee_announced]_fee
      <3> DEFINE f == settled
                 c == [bps |-> b, since |-> now, wait |-> f.notice, at |-> now + f.notice]
      <3>1. b \in Nat /\ NoChange \in FeeChange
        BY AdminAssumption DEF NoChange, NoLedger, FeeChange
      <3>2. /\ f \in [bps : Nat, notice : Nat, pending : FeeChange]
            /\ f.notice = fee.notice
            /\ \/ f = fee
               \/ /\ fee.pending # NoChange /\ now >= fee.pending.at
                  /\ f.bps = fee.pending.bps /\ f.pending = NoChange
        BY <1>2, SettledType
      <3>3. fee' = IF b <= f.bps \/ f.notice = 0
                   THEN [f EXCEPT !.bps = b, !.pending = NoChange]
                   ELSE [f EXCEPT !.pending = c]
        BY <2>6 DEF propose_fee_change
      <3> HIDE DEF f
      <3>4. c \in FeeChange /\ c.wait = f.notice /\ c.at = c.since + c.wait
        BY <2>2, <3>1, <3>2 DEF FeeChange
      <3> HIDE DEF c
      <3>5. CASE b <= f.bps \/ f.notice = 0
        <4>1. fee' \in [bps : Nat, notice : Nat, pending : FeeChange] /\ fee'.bps = b /\ fee'.pending = NoChange
          BY <3>1, <3>2, <3>3, <3>5
        <4>2. FeeInv'
          BY <1>2, <2>1, <2>2, <2>6, <4>1 DEF FeeInv, base_vars
        <4>3. fee_announced
          BY <1>2, <2>2, <3>1, <3>2, <3>5, <4>1 DEF fee_announced, rises_under_notice, notice_given, FeeInv, FeeChange
        <4> QED BY <4>2, <4>3
      <3>6. CASE ~(b <= f.bps \/ f.notice = 0)
        <4>1. fee' \in [bps : Nat, notice : Nat, pending : FeeChange] /\ fee'.bps = f.bps /\ fee'.pending = c
          BY <3>1, <3>2, <3>3, <3>4, <3>6
        <4>2. FeeInv'
          BY <1>2, <2>1, <2>2, <2>6, <3>2, <3>4, <3>6, <4>1 DEF FeeInv, base_vars
        <4>3. fee_announced
          BY <1>2, <2>2, <3>1, <3>2, <4>1 DEF fee_announced, rises_under_notice, notice_given, FeeInv, FeeChange
        <4> QED BY <4>2, <4>3
      <3> QED BY <3>5, <3>6
    <2>7. ASSUME NEW b \in VotedFees, enact_voted_fee(b) \/ enact_ballot_fee(b), UNCHANGED base_vars
          PROVE  FeeInv' /\ [fee_announced]_fee
      <3>1. b \in Nat
        BY AdminAssumption
      <3>2. fee' = [fee EXCEPT !.bps = b]
        BY <2>7 DEF enact_voted_fee, enact_ballot_fee
      <3>3. fee' \in [bps : Nat, notice : Nat, pending : FeeChange] /\ fee'.pending = fee.pending
        BY <2>2, <3>1, <3>2
      <3>4. FeeInv'
        BY <1>2, <2>1, <2>2, <2>7, <3>3 DEF FeeInv, base_vars
      <3>5. fee_announced
        BY <2>7 DEF fee_announced
      <3> QED BY <3>4, <3>5
    <2> QED BY <1>2, <2>1, <2>3, <2>4, <2>5, <2>6, <2>7 DEF AdminNext, FeeNext, admin_vars
  <1> QED BY <1>1, <1>2

\* Only the fee's own entry points write it.
LEMMA FeeUntouched ==
    ASSUME [RulesNext]_rules_vars, focus # "fee"
    PROVE  UNCHANGED fee
  BY DEF RulesNext, rules_vars, AdminNext, admin_vars

\* fee_change_notice.rs: however changes are proposed, replaced, settled late and crossed by
\* votes, no fee rises under notice but the one announced last, and not before its notice
\* was over, unless the step is the enactment of a vote.
THEOREM FeesAreAnnounced == RulesSpec => FeeAnnounced
  <1>1. FeeInv /\ [RulesNext]_rules_vars => FeeInv'
    BY FeeInvStep
  <1>2. FeeInv /\ [RulesNext]_rules_vars => [fee_announced]_fee
    BY FeeInvStep, FeeUntouched
  <1> QED BY FeeInvInit, <1>1, <1>2, PTL DEF RulesSpec, rules_vars, FeeAnnounced

-------------------------------------------------------------------------------
(* The community treasury. *)

Spending == [amount : Nat, for : Int, against : Int, deadline : Int, executed : BOOLEAN, voters : SUBSET Users]

Treasury == [balance : Int, limit : Int, period : Int, setAt : Int, withdrawn : Int, start : Int,
             spending : Seq(Spending)]

TreasuryInv ==
    focus = "treasury" =>
        /\ held \in Int /\ totalDeposited \in Nat /\ totalShares \in Nat /\ rewardPool \in Int
        /\ now \in Nat /\ shares \in [Users -> Nat]
        /\ treasury \in Treasury
        /\ treasury_covered

\* The treasury starts empty.
LEMMA TreasuryInvInit == RulesInit => TreasuryInv
  <1> SUFFICES ASSUME RulesInit, focus = "treasury" PROVE TreasuryInv
    BY DEF TreasuryInv
  <1>1. BaseInitWith(2 * Purse + 2) /\ 2 * Purse + 2 \in Nat
    BY BaseAssumption DEF RulesInit
  <1>2. TreasuryInit
    BY DEF RulesInit, AdminInit
  <1>3. <<>> \in Seq(Spending)
    BY EmptySeq
  <1>4. treasury \in Treasury /\ treasury.balance = 0
    BY <1>2, <1>3 DEF TreasuryInit, Treasury
  <1>5. /\ now = 0 /\ shares \in [Users -> Nat] /\ totalShares \in Nat
        /\ totalDeposited \in Nat /\ rewardPool \in Nat /\ held = totalDeposited + rewardPool
    BY <1>1, BaseInitFacts
  <1> QED BY <1>4, <1>5 DEF TreasuryInv, treasury_covered

\* A position is worth a natural number of tokens.
LEMMA AmountNat ==
    ASSUME NEW u \in Users, shares \in [Users -> Nat], totalShares \in Nat, totalDeposited \in Nat
    PROVE  amount_of(u) \in Nat
  <1>1. CASE totalShares = 0
    BY <1>1 DEF amount_of, shares_to_amount
  <1>2. CASE totalShares # 0
    <2> DEFINE x == shares[u] * totalDeposited
    <2>1. x \in Nat
      OBVIOUS
    <2>2. x \div totalShares \in Nat
      <3> HIDE DEF x
      <3> QED BY <1>2, <2>1
    <2> QED BY <1>2, <2>2 DEF amount_of, shares_to_amount
  <1> QED BY <1>1, <1>2

\* Every step keeps the treasury covered.
LEMMA TreasuryInvStep ==
    ASSUME TreasuryInv, [RulesNext]_rules_vars
    PROVE  TreasuryInv'
  <1>1. CASE focus # "treasury"
    <2>1. UNCHANGED focus
      BY DEF RulesNext, rules_vars
    <2> QED BY <1>1, <2>1 DEF TreasuryInv
  <1>2. CASE focus = "treasury"
    <2>1. UNCHANGED focus /\ (AdminNext("treasury") \/ UNCHANGED <<base_vars, admin_vars>>)
      BY <1>2, AdminStep
    <2>2. /\ held \in Int /\ totalDeposited \in Nat /\ totalShares \in Nat /\ rewardPool \in Int
          /\ now \in Nat /\ shares \in [Users -> Nat]
          /\ treasury \in Treasury
          /\ held = totalDeposited + rewardPool + treasury.balance
      BY <1>2 DEF TreasuryInv, treasury_covered
    <2>0. treasury \in Treasury /\ treasury.balance \in Int /\ now \in Int
      BY <2>2 DEF Treasury
    <2>3. CASE UNCHANGED <<base_vars, admin_vars>>
      BY <1>2, <2>1, <2>3 DEF TreasuryInv, treasury_covered, base_vars, pool, admin_vars
    <2>4. CASE TimePasses /\ UNCHANGED admin_vars
      <3>1. now' \in Nat
        BY <2>2, <2>4, BaseAssumption DEF TimePasses, tick
      <3> QED BY <1>2, <2>1, <2>4, <3>1 DEF TreasuryInv, treasury_covered, TimePasses, pool, admin_vars
    <2>5. ASSUME TreasuryNext, UNCHANGED <<now, pool>>
          PROVE  TreasuryInv'
      <3> SUFFICES        /\ held' \in Int /\ rewardPool' \in Int /\ treasury' \in Treasury
                          /\ held' = totalDeposited + rewardPool' + treasury'.balance
        BY <1>2, <2>1, <2>2, <2>5 DEF TreasuryInv, treasury_covered, pool
      <3>1. ASSUME NEW u \in Users, NEW a \in Revenues, route_fee_revenue(u, a)
            PROVE  /\ held' \in Int /\ rewardPool' \in Int /\ treasury' \in Treasury
                   /\ held' = totalDeposited + rewardPool' + treasury'.balance
        <4>1. a \in Nat /\ bps(a, ContributionBps) \in Nat
          BY AdminAssumption, BpsNat
        <4>2. /\ treasury' \in Treasury /\ treasury'.balance = treasury.balance + bps(a, ContributionBps)
          <5>1. treasury' = [treasury EXCEPT !.balance = @ + bps(a, ContributionBps)]
            BY <3>1 DEF route_fee_revenue
          <5> QED BY ONLY <5>1, <2>0, <4>1 DEF Treasury
        <4>3. held' = held + a /\ rewardPool' = rewardPool + a - bps(a, ContributionBps)
          BY <3>1 DEF route_fee_revenue, pull
        <4>4. treasury.balance \in Int
          BY <2>2 DEF Treasury
        <4> QED BY <2>2, <4>1, <4>2, <4>3, <4>4
      <3>2. ASSUME NEW u \in Users, NEW a \in Amounts, NEW d \in Durations, propose_spending(u, a, d)
            PROVE  /\ held' \in Int /\ rewardPool' \in Int /\ treasury' \in Treasury
                   /\ held' = totalDeposited + rewardPool' + treasury'.balance
        <4> DEFINE p == [amount |-> a, for |-> 0, against |-> 0, deadline |-> now + d,
                         executed |-> FALSE, voters |-> {}]
        <4>1. p \in Spending
          BY ONLY <2>0, BaseAssumption DEF Spending
        <4>2. treasury.spending \in Seq(Spending)
          BY <2>2 DEF Treasury
        <4>3. Append(treasury.spending, p) \in Seq(Spending)
          <5> HIDE DEF p
          <5> QED BY <4>1, <4>2, AppendProperties
        <4>4. treasury' = [treasury EXCEPT !.spending = Append(treasury.spending, p)]
          BY <3>2 DEF propose_spending
        <4> HIDE DEF p
        <4>5. treasury' \in Treasury /\ treasury'.balance = treasury.balance
          BY <2>2, <4>3, <4>4 DEF Treasury
        <4> QED BY <2>2, <3>2, <4>5 DEF propose_spending
      <3>3. ASSUME NEW l \in TreasuryLimits, set_treasury_withdrawal_limit(l, LimitPeriod)
            PROVE  /\ held' \in Int /\ rewardPool' \in Int /\ treasury' \in Treasury
                   /\ held' = totalDeposited + rewardPool' + treasury'.balance
        <4>1. treasury' \in Treasury /\ treasury'.balance = treasury.balance
          <5>1. treasury' = [treasury EXCEPT !.limit = l, !.period = LimitPeriod, !.setAt = now]
            BY <3>3 DEF set_treasury_withdrawal_limit
          <5>2. l \in Int /\ LimitPeriod \in Int
            BY AdminAssumption
          <5> QED BY ONLY <5>1, <5>2, <2>0 DEF Treasury
        <4> QED BY <2>2, <3>3, <4>1 DEF set_treasury_withdrawal_limit
      <3>4. ASSUME NEW a \in Amounts, withdraw_treasury(a)
            PROVE  /\ held' \in Int /\ rewardPool' \in Int /\ treasury' \in Treasury
                   /\ held' = totalDeposited + rewardPool' + treasury'.balance
        <4>1. a \in Nat
          BY BaseAssumption
        <4> DEFINE used  == IF window_over THEN 0 ELSE treasury.withdrawn
                   left  == treasury.balance - a
                   total == used + a
                   since == IF window_over THEN now ELSE treasury.start
        <4>2. left \in Int /\ total \in Int /\ since \in Int
          BY <2>0, <4>1 DEF Treasury
        <4>3. treasury' = IF treasury.limit = 0 THEN [treasury EXCEPT !.balance = left]
                          ELSE [treasury EXCEPT !.balance = left, !.withdrawn = total, !.start = since]
          BY <3>4 DEF withdraw_treasury
        <4> HIDE DEF used, left, total, since
        <4>4. treasury' \in Treasury /\ treasury'.balance = treasury.balance - a
          <5>1. CASE treasury.limit = 0
            BY ONLY <5>1, <2>0, <4>2, <4>3 DEF Treasury, left
          <5>2. CASE treasury.limit # 0
            <6>1. treasury' \in Treasury /\ treasury'.balance = left
              BY ONLY <5>2, <2>0, <4>2, <4>3 DEF Treasury
            <6> QED BY <6>1 DEF left
          <5> QED BY <5>1, <5>2
        <4>5. held' = held - a /\ rewardPool' = rewardPool
          BY <3>4 DEF withdraw_treasury, push
        <4> QED BY <2>0, <2>2, <4>1, <4>4, <4>5
      <3>5. ASSUME NEW u \in Users, NEW i \in DOMAIN treasury.spending, execute_spending(u, i)
            PROVE  /\ held' \in Int /\ rewardPool' \in Int /\ treasury' \in Treasury
                   /\ held' = totalDeposited + rewardPool' + treasury'.balance
        <4> DEFINE q == treasury.spending
                   p == q[i]
        <4>1. q \in Seq(Spending) /\ i \in 1..Len(q) /\ treasury.balance \in Int
          BY <2>2, LenProperties DEF Treasury
        <4>2. p \in Spending
          BY <4>1, ElementOfSeq
        <4>3. [p EXCEPT !.executed = TRUE] \in Spending /\ p.amount \in Nat
          BY <4>2 DEF Spending
        <4>4. [q EXCEPT ![i] = [p EXCEPT !.executed = TRUE]] \in Seq(Spending)
          <5> HIDE DEF p, q
          <5> QED BY <4>1, <4>3, ExceptSeq
        <4>5. treasury' = [treasury EXCEPT !.balance = @ - p.amount,
                                           !.spending = [q EXCEPT ![i] = [p EXCEPT !.executed = TRUE]]]
          BY <2>2, <3>5 DEF execute_spending, Treasury
        <4>6. held' = held - p.amount /\ rewardPool' = rewardPool
          BY <3>5 DEF execute_spending, push
        <4> DEFINE w    == [q EXCEPT ![i] = [p EXCEPT !.executed = TRUE]]
                   left == treasury.balance - p.amount
        <4>7. treasury' \in Treasury /\ treasury'.balance = treasury.balance - p.amount
          <5>1. treasury' = [treasury EXCEPT !.balance = left, !.spending = w] /\ left \in Int /\ w \in Seq(Spending)
            BY <2>0, <4>3, <4>4, <4>5
          <5> HIDE DEF w, p, left
          <5>2. treasury' \in Treasury /\ treasury'.balance = left
            BY ONLY <2>0, <5>1 DEF Treasury
          <5> QED BY <5>2 DEF left
        <4>8. p.amount \in Int
          BY <4>3
        <4> HIDE DEF p
        <4> QED BY <2>0, <2>2, <4>6, <4>7, <4>8
      <3>6. ASSUME NEW u \in Users, NEW i \in DOMAIN treasury.spending, NEW s \in BOOLEAN, vote_spending(u, i, s)
            PROVE  /\ held' \in Int /\ rewardPool' \in Int /\ treasury' \in Treasury
                   /\ held' = totalDeposited + rewardPool' + treasury'.balance
        <4> DEFINE q == treasury.spending
                   p == q[i]
                   x == p.for + IF s THEN amount_of(u) ELSE 0
                   y == p.against + IF s THEN 0 ELSE amount_of(u)
                   z == p.voters \cup {u}
                   v == [p EXCEPT !.for = x, !.against = y, !.voters = z]
        <4>1. q \in Seq(Spending) /\ i \in 1..Len(q)
          BY <2>2, LenProperties DEF Treasury
        <4>2. p \in Spending
          BY <4>1, ElementOfSeq
        <4>3. amount_of(u) \in Nat
          BY <2>2, AmountNat
        <4>4. v \in Spending
          <5>1. x \in Int /\ y \in Int /\ z \in SUBSET Users
            BY <4>2, <4>3 DEF Spending
          <5> HIDE DEF p, x, y, z
          <5> QED BY ONLY <4>2, <5>1 DEF Spending
        <4>5. [q EXCEPT ![i] = v] \in Seq(Spending)
          <5> HIDE DEF v, q
          <5> QED BY <4>1, <4>4, ExceptSeq
        <4>6. treasury' = [treasury EXCEPT !.spending = [q EXCEPT ![i] = v]]
          BY <2>2, <3>6 DEF vote_spending, Treasury
        <4> HIDE DEF v, q
        <4>7. treasury' \in Treasury /\ treasury'.balance = treasury.balance
          BY <2>2, <4>5, <4>6 DEF Treasury
        <4> QED BY <2>2, <3>6, <4>7 DEF vote_spending
      <3> QED BY <2>5, <3>1, <3>2, <3>3, <3>4, <3>5, <3>6 DEF TreasuryNext
    <2> QED BY <1>2, <2>1, <2>3, <2>4, <2>5 DEF AdminNext
  <1> QED BY <1>1, <1>2

\* community_treasury.rs: whatever is contributed, withdrawn under changing limits and
\* voted for, the contract holds the principal, the reward pool and the treasury.
THEOREM TreasuryIsCovered == RulesSpec => []TreasuryCovered
  <1>1. TreasuryInv /\ [RulesNext]_rules_vars => TreasuryInv'
    BY TreasuryInvStep
  <1>2. TreasuryInv => TreasuryCovered
    BY DEF TreasuryInv, TreasuryCovered
  <1> QED BY TreasuryInvInit, <1>1, <1>2, PTL DEF RulesSpec, rules_vars

-------------------------------------------------------------------------------
(* Authority. *)

Auth == [admin : Keys \cup {Nobody}, renounced : BOOLEAN, pending : Keys \cup {Nobody},
         emergency : Keys \cup {Nobody}, recovery : {NoRecovery} \cup [to : Keys, at : Int],
         plan : {NoPlan} \cup [heir : Keys, threshold : Int, last : Int]]

Entry == [id : Int, kind : Kinds \cup {"Announced"}, by : Keys \cup {Nobody}, at : Int]

Queues == [actions : SUBSET Entry, timelocked : SUBSET Entry, announced : SUBSET Entry,
           next : Int, delay : Int]

\* Whoever may come to hold the key is an account: the administrator, the account a recovery
\* names and the heir.  A key that is nobody's would let queued changes survive a handover.
KeysInv ==
    focus \in {"handover", "authority"} =>
        /\ now \in Nat /\ auth \in Auth /\ queues \in Queues
        /\ has_admin => auth.admin \in Keys
        /\ queues_owned

\* Nothing is queued at the start.
LEMMA KeysInvInit == RulesInit => KeysInv
  <1> SUFFICES ASSUME RulesInit PROVE KeysInv
    OBVIOUS
  <1> DEFINE k == CHOOSE k \in Keys : TRUE
  <1>1. k \in Keys
    BY AdminAssumption
  <1>2. /\ now = 0 /\ AuthInit /\ QueueInit
    BY DEF RulesInit, AdminInit, BaseInitWith
  <1>3. auth = [admin |-> k, renounced |-> FALSE, pending |-> Nobody,
                emergency |-> Nobody, recovery |-> NoRecovery, plan |-> NoPlan]
    BY <1>2 DEF AuthInit
  <1> HIDE DEF k
  <1>4. auth \in Auth /\ auth.admin = k
    BY <1>1, <1>3 DEF Auth
  <1>5. queues \in Queues /\ queues.actions = {} /\ queues.timelocked = {} /\ queues.announced = {}
    BY <1>2 DEF QueueInit, Queues
  <1> QED BY <1>1, <1>2, <1>4, <1>5 DEF KeysInv, queues_owned

\* A handover to k: nobody else's changes are left queued.
LEMMA HandoverKeeps ==
    ASSUME auth \in Auth, queues \in Queues, has_admin => auth.admin \in Keys, queues_owned,
           NEW k \in Keys, auth' \in Auth, auth'.admin = k, auth'.renounced = auth.renounced,
           queues' = IF auth.admin \notin {k, Nobody}
                     THEN [queues EXCEPT !.actions = {}, !.timelocked = {}, !.announced = {}] ELSE queues
    PROVE  queues' \in Queues /\ (has_admin => auth.admin \in Keys)' /\ queues_owned'
  <1>1. CASE auth.admin \notin {k, Nobody}
    <2>1. /\ queues' \in Queues /\ queues'.actions = {}
          /\ queues'.timelocked = {} /\ queues'.announced = {}
      BY <1>1 DEF Queues
    <2> QED BY <2>1 DEF queues_owned, has_admin
  <1>2. CASE auth.admin \in {k, Nobody}
    BY <1>2, AdminAssumption DEF queues_owned, has_admin
  <1> QED BY <1>1, <1>2

\* What the handover paths do to the queues.
LEMMA HandoverStep ==
    ASSUME now \in Nat, auth \in Auth, queues \in Queues, has_admin => auth.admin \in Keys,
           queues_owned, HandoverNext
    PROVE  auth' \in Auth /\ queues' \in Queues /\ (has_admin => auth.admin \in Keys)' /\ queues_owned'
  <1>1. ASSUME auth' \in Auth, auth'.admin = auth.admin, auth'.renounced = auth.renounced, UNCHANGED queues
        PROVE  queues' \in Queues /\ (has_admin => auth.admin \in Keys)' /\ queues_owned'
    BY <1>1 DEF queues_owned, has_admin
  <1>2. ASSUME NEW k \in Keys, propose_admin(k) PROVE auth' \in Auth /\ auth'.admin = auth.admin /\ auth'.renounced = auth.renounced
    BY <1>2 DEF propose_admin, Auth
  <1>3. ASSUME NEW k \in Keys, set_admin(k)
        PROVE  auth' \in Auth /\ queues' \in Queues /\ (has_admin => auth.admin \in Keys)' /\ queues_owned'
    <2>1. auth' \in Auth /\ auth'.admin = k /\ auth'.renounced = auth.renounced
      BY <1>3 DEF set_admin, Auth
    <2> QED BY <1>3, <2>1, HandoverKeeps DEF set_admin
  <1>4. ASSUME NEW k \in Keys, set_emergency_admin(k) PROVE auth' \in Auth /\ auth'.admin = auth.admin /\ auth'.renounced = auth.renounced
    BY <1>4 DEF set_emergency_admin, Auth
  <1>5. ASSUME NEW k \in Keys, propose_admin_recovery(k) PROVE auth' \in Auth /\ auth'.admin = auth.admin /\ auth'.renounced = auth.renounced
    <2> DEFINE r == [to |-> k, at |-> now + RecoveryDelay]
    <2>1. r \in [to : Keys, at : Int]
      BY AdminAssumption
    <2>2. auth' = [auth EXCEPT !.recovery = r]
      BY <1>5 DEF propose_admin_recovery
    <2> HIDE DEF r
    <2> QED BY <2>1, <2>2 DEF Auth
  <1>6. ASSUME NEW k \in Keys, NEW d \in Delays, set_succession_plan(k, d)
        PROVE  auth' \in Auth /\ auth'.admin = auth.admin /\ auth'.renounced = auth.renounced
    <2> DEFINE p == [heir |-> k, threshold |-> d, last |-> now]
    <2>1. p \in [heir : Keys, threshold : Int, last : Int]
      BY AdminAssumption
    <2>2. auth' = [auth EXCEPT !.plan = p]
      BY <1>6 DEF set_succession_plan
    <2> HIDE DEF p
    <2> QED BY <2>1, <2>2 DEF Auth
  <1>7. CASE cancel_admin_proposal
    <2>1. auth' \in Auth /\ auth'.admin = auth.admin /\ auth'.renounced = auth.renounced
      BY <1>7 DEF cancel_admin_proposal, Auth
    <2> QED BY <1>1, <1>7, <2>1 DEF cancel_admin_proposal
  <1>8. CASE renounce_admin
    <2>1. auth' \in Auth /\ auth'.renounced = TRUE
      BY <1>8 DEF renounce_admin, Auth
    <2> QED BY <1>8, <2>1 DEF renounce_admin, has_admin, queues_owned
  <1>9. CASE cancel_admin_recovery
    <2>1. auth' \in Auth /\ auth'.admin = auth.admin /\ auth'.renounced = auth.renounced
      BY <1>9 DEF cancel_admin_recovery, Auth
    <2> QED BY <1>1, <1>9, <2>1 DEF cancel_admin_recovery
  <1>10. CASE execute_admin_recovery
    <2> DEFINE k == auth.recovery.to
    <2>1. k \in Keys
      BY <1>10 DEF execute_admin_recovery, Auth
    <2>2. auth' = [auth EXCEPT !.admin = k, !.pending = Nobody, !.recovery = NoRecovery]
      BY <1>10 DEF execute_admin_recovery
    <2>3. queues' = IF auth.admin \notin {k, Nobody}
                    THEN [queues EXCEPT !.actions = {}, !.timelocked = {}, !.announced = {}] ELSE queues
      BY <1>10 DEF execute_admin_recovery
    <2> HIDE DEF k
    <2>4. auth' \in Auth /\ auth'.admin = k /\ auth'.renounced = auth.renounced
      BY <2>1, <2>2 DEF Auth
    <2> QED BY <2>1, <2>3, <2>4, HandoverKeeps
  <1>11. CASE claim_succession
    <2> DEFINE k == auth.plan.heir
    <2>1. k \in Keys
      BY <1>11 DEF claim_succession, Auth
    <2>2. auth' = [auth EXCEPT !.admin = k, !.pending = Nobody, !.plan = NoPlan]
      BY <1>11 DEF claim_succession
    <2>3. queues' = IF auth.admin \notin {k, Nobody}
                    THEN [queues EXCEPT !.actions = {}, !.timelocked = {}, !.announced = {}] ELSE queues
      BY <1>11 DEF claim_succession
    <2> HIDE DEF k
    <2>4. auth' \in Auth /\ auth'.admin = k /\ auth'.renounced = auth.renounced
      BY <2>1, <2>2 DEF Auth
    <2> QED BY <2>1, <2>3, <2>4, HandoverKeeps
  <1> QED BY <1>1, <1>2, <1>3, <1>4, <1>5, <1>6, <1>7, <1>8, <1>9, <1>10, <1>11
       DEF HandoverNext, propose_admin, accept_admin, transfer_admin, set_emergency_admin,
           propose_admin_recovery, set_succession_plan

\* What queueing and executing do to them.
LEMMA QueueStep ==
    ASSUME now \in Nat, auth \in Auth, queues \in Queues, has_admin => auth.admin \in Keys,
           queues_owned, QueueNext, UNCHANGED auth
    PROVE  queues' \in Queues /\ (has_admin => auth.admin \in Keys)' /\ queues_owned'
  <1>1. /\ queues.delay \in Int /\ queues.next \in Int /\ auth.admin \in Keys \cup {Nobody}
        /\ queues.actions \subseteq Entry /\ queues.timelocked \subseteq Entry /\ queues.announced \subseteq Entry
    BY DEF Queues, Auth
  <1>2. ASSUME NEW kind \in Kinds \cup {"Announced"}, NEW d \in Int
        PROVE  entry(kind, d) \in Entry /\ entry(kind, d).by = auth.admin
    BY <1>1 DEF entry, Entry
  <1>3. (has_admin => auth.admin \in Keys)'
    BY DEF has_admin
  <1>4. ASSUME NEW d \in Delays, set_timelock_delay(d)
        PROVE  queues' \in Queues /\ queues_owned'
    <2>1. /\ queues' \in Queues /\ queues'.actions = queues.actions
          /\ queues'.timelocked = queues.timelocked /\ queues'.announced = queues.announced
      BY <1>4, AdminAssumption DEF set_timelock_delay, Queues
    <2> QED BY <2>1 DEF queues_owned, has_admin
  <1>5. ASSUME NEW d \in Delays, announce_config_change(d)
        PROVE  queues' \in Queues /\ queues_owned'
    <2> DEFINE e == entry("Announced", d)
    <2>1. e \in Entry /\ e.by = auth.admin
      BY <1>2, AdminAssumption
    <2>2. queues' = [queues EXCEPT !.announced = @ \cup {e}, !.next = @ + 1]
      BY <1>5 DEF announce_config_change
    <2> DEFINE w == queues.announced \cup {e}   n == queues.next + 1
    <2>3. w \in SUBSET Entry /\ n \in Int
      BY <1>1, <2>1
    <2>4. queues' = [queues EXCEPT !.announced = w, !.next = n]
      BY <2>2
    <2> HIDE DEF e, w, n
    <2>5. /\ queues' \in Queues /\ queues'.announced = w
          /\ queues'.actions = queues.actions /\ queues'.timelocked = queues.timelocked
      BY ONLY <2>3, <2>4, queues \in Queues DEF Queues
    <2> QED BY <2>1, <2>5 DEF w, queues_owned, has_admin
  <1>6. ASSUME NEW kind \in Kinds, queue_action(kind)
        PROVE  queues' \in Queues /\ queues_owned'
    <2> DEFINE e == entry(kind, queues.delay)
    <2>1. e \in Entry /\ e.by = auth.admin
      BY <1>1, <1>2
    <2>2. queues' = [queues EXCEPT !.actions = @ \cup {e}, !.next = @ + 1]
      BY <1>6 DEF queue_action
    <2> DEFINE w == queues.actions \cup {e}   n == queues.next + 1
    <2>3. w \in SUBSET Entry /\ n \in Int
      BY <1>1, <2>1
    <2>4. queues' = [queues EXCEPT !.actions = w, !.next = n]
      BY <2>2
    <2> HIDE DEF e, w, n
    <2>5. /\ queues' \in Queues /\ queues'.actions = w
          /\ queues'.timelocked = queues.timelocked /\ queues'.announced = queues.announced
      BY ONLY <2>3, <2>4, queues \in Queues DEF Queues
    <2> QED BY <2>1, <2>5 DEF w, queues_owned, has_admin
  <1>7. ASSUME NEW kind \in Kinds, queue_admin_action(kind)
        PROVE  queues' \in Queues /\ queues_owned'
    <2> DEFINE e == entry(kind, queues.delay)
    <2>1. e \in Entry /\ e.by = auth.admin
      BY <1>1, <1>2
    <2>2. queues' = [queues EXCEPT !.timelocked = @ \cup {e}, !.next = @ + 1]
      BY <1>7 DEF queue_admin_action
    <2> DEFINE w == queues.timelocked \cup {e}   n == queues.next + 1
    <2>3. w \in SUBSET Entry /\ n \in Int
      BY <1>1, <2>1
    <2>4. queues' = [queues EXCEPT !.timelocked = w, !.next = n]
      BY <2>2
    <2> HIDE DEF e, w, n
    <2>5. /\ queues' \in Queues /\ queues'.timelocked = w
          /\ queues'.actions = queues.actions /\ queues'.announced = queues.announced
      BY ONLY <2>3, <2>4, queues \in Queues DEF Queues
    <2> QED BY <2>1, <2>5 DEF w, queues_owned, has_admin
  <1>8. ASSUME NEW a, \/ queues' = [queues EXCEPT !.actions = @ \ {a}]
                      \/ queues' = [queues EXCEPT !.timelocked = @ \ {a}]
                      \/ queues' = [queues EXCEPT !.announced = @ \ {a}]
        PROVE  queues' \in Queues /\ queues_owned'
    <2>1. /\ queues' \in Queues /\ queues'.actions \subseteq queues.actions
          /\ queues'.timelocked \subseteq queues.timelocked /\ queues'.announced \subseteq queues.announced
      BY <1>8 DEF Queues
    <2> QED BY <2>1 DEF queues_owned, has_admin
  <1> QED BY <1>3, <1>4, <1>5, <1>6, <1>7, <1>8
       DEF QueueNext, cancel_action, execute_action, execute_admin_action, cancel_admin_action,
           cancel_config_change, execute_config_change

\* Every step leaves the queues to the administrator of now.
LEMMA KeysInvStep ==
    ASSUME KeysInv, [RulesNext]_rules_vars
    PROVE  KeysInv'
  <1>1. CASE focus \notin {"handover", "authority"}
    <2>1. UNCHANGED focus
      BY DEF RulesNext, rules_vars
    <2> QED BY <1>1, <2>1 DEF KeysInv
  <1>2. CASE focus \in {"handover", "authority"}
    <2>1. UNCHANGED focus /\ (AdminNext(focus) \/ UNCHANGED <<base_vars, admin_vars>>)
      BY <1>2, AdminStep
    <2>2. now \in Nat /\ auth \in Auth /\ queues \in Queues /\ (has_admin => auth.admin \in Keys) /\ queues_owned
      BY <1>2 DEF KeysInv
    <2>3. CASE UNCHANGED <<now, auth, queues>>
      BY <2>1, <2>2, <2>3 DEF KeysInv, queues_owned, has_admin
    <2>4. CASE TimePasses /\ UNCHANGED admin_vars
      <3>1. now' \in Nat
        BY <2>2, <2>4, BaseAssumption DEF TimePasses, tick
      <3> QED BY <2>1, <2>2, <2>4, <3>1 DEF KeysInv, queues_owned, has_admin, admin_vars
    <2>5. CASE HandoverNext /\ UNCHANGED now
      <3>1. auth' \in Auth /\ queues' \in Queues /\ (has_admin => auth.admin \in Keys)' /\ queues_owned'
        BY <2>2, <2>5, HandoverStep
      <3> QED BY <2>2, <2>5, <3>1 DEF KeysInv
    <2>6. CASE QueueNext /\ UNCHANGED <<now, auth>>
      <3>1. queues' \in Queues /\ (has_admin => auth.admin \in Keys)' /\ queues_owned'
        BY <2>2, <2>6, QueueStep
      <3> QED BY <2>2, <2>6, <3>1 DEF KeysInv
    <2> QED BY <1>2, <2>1, <2>3, <2>4, <2>5, <2>6 DEF AdminNext, base_vars, admin_vars
  <1> QED BY <1>1, <1>2
-------------------------------------------------------------------------------
\* A sequence that names nobody twice names as many as it is long.
LEMMA DistinctCount ==
    ASSUME NEW S, NEW q \in Seq(S), IsInjective(q)
    PROVE  Cardinality(ToSet(q)) = Len(q)
  <1>1. q \in Surjection(1..Len(q), ToSet(q))
    BY DEF Surjection, ToSet
  <1>2. q \in Injection(1..Len(q), ToSet(q))
    BY <1>1 DEF Surjection, Injection
  <1>3. Len(q) \in Nat /\ IsFiniteSet(1..Len(q)) /\ Cardinality(1..Len(q)) = Len(q)
    <2>1. Len(q) \in Nat
      OBVIOUS
    <2>2. \A n \in Nat : IsFiniteSet(1..n) /\ Cardinality(1..n) = n
      <3> SUFFICES ASSUME NEW n \in Nat PROVE IsFiniteSet(1..n) /\ Cardinality(1..n) = n
        OBVIOUS
      <3>1. IsFiniteSet(1..n) /\ Cardinality(1..n) = IF 1 > n THEN 0 ELSE n - 1 + 1
        BY ONLY FS_Interval, 1 \in Int, n \in Int
      <3> QED BY <3>1
    <2> QED BY <2>1, <2>2
  <1> QED BY <1>1, <1>2, <1>3, FS_Surjection

\* The multisig groups: approvals are of different members, and a proposal that was executed
\* has as many of them as the threshold of that moment asked.  A group has a threshold, and
\* there is a proposal only after a group.
Ballot == [kind : Kinds, approvals : Seq(Keys), executed : BOOLEAN, asked : Int]
Multisig == [admins : Seq(Keys), threshold : Int, proposals : Seq(Ballot), ever : SUBSET Keys]
approved(b, E) ==
    /\ IsInjective(b.approvals) /\ ToSet(b.approvals) \subseteq E
    /\ b.executed => b.asked >= 1 /\ Len(b.approvals) >= b.asked

MultisigSound ==
    /\ multisig \in Multisig
    /\ ToSet(multisig.admins) \subseteq multisig.ever
    /\ multisig.proposals # <<>> => multisig.threshold >= 1
    /\ multisig.admins # <<>> => multisig.threshold >= 1
    /\ \A i \in DOMAIN multisig.proposals : approved(multisig.proposals[i], multisig.ever)
MultisigInv == focus \in {"handover", "authority"} => MultisigSound

\* No multisig ballot at the start.
LEMMA MultisigInvInit == RulesInit => MultisigInv
  <1> SUFFICES ASSUME RulesInit PROVE MultisigInv
    OBVIOUS
  <1>1. multisig = [admins |-> <<>>, threshold |-> 0, proposals |-> <<>>, ever |-> {}]
    BY DEF RulesInit, AdminInit, MultisigInit
  <1>2. multisig \in Multisig /\ multisig.admins = <<>> /\ multisig.proposals = <<>>
    BY <1>1 DEF Multisig
  <1>3. ToSet(multisig.admins) = {}
    BY <1>2 DEF ToSet
  <1> QED BY <1>2, <1>3 DEF MultisigInv, MultisigSound

\* One ballot is replaced by a sound one.
LEMMA BallotChanged ==
    ASSUME MultisigSound, NEW i \in DOMAIN multisig.proposals, NEW b \in Ballot, approved(b, multisig.ever),
           multisig' = [multisig EXCEPT !.proposals = [multisig.proposals EXCEPT ![i] = b]]
    PROVE  MultisigSound'
  <1> DEFINE old == multisig.proposals   new == [old EXCEPT ![i] = b]
  <1>1. old \in Seq(Ballot) /\ i \in 1..Len(old) /\ multisig \in Multisig
    BY DEF MultisigSound, Multisig
  <1>2. new \in Seq(Ballot) /\ Len(new) = Len(old) /\ \A j \in DOMAIN new : new[j] = IF j = i THEN b ELSE old[j]
    BY <1>1, ExceptSeq
  <1>3. \A j \in DOMAIN new : approved(new[j], multisig.ever)
    BY <1>1, <1>2 DEF MultisigSound
  <1>4. old # <<>> /\ DOMAIN new = DOMAIN old
    BY <1>1, <1>2
  <1>5. multisig' = [multisig EXCEPT !.proposals = new]
    OBVIOUS
  <1> HIDE DEF new
  <1>6. /\ multisig' \in Multisig /\ multisig'.proposals = new
        /\ multisig'.admins = multisig.admins /\ multisig'.threshold = multisig.threshold
        /\ multisig'.ever = multisig.ever
    BY ONLY <1>1, <1>2, <1>5 DEF Multisig
  <1> QED BY <1>3, <1>4, <1>6 DEF MultisigSound

\* Approvals are added once per member, executions need as many as the threshold; a new
\* group leaves what was approved before it.
LEMMA MultisigStep ==
    ASSUME MultisigSound, AuthorityNext
    PROVE  MultisigSound'
  <1>1. multisig \in Multisig /\ multisig.admins \in Seq(Keys) /\ multisig.proposals \in Seq(Ballot)
        /\ multisig.ever \subseteq Keys /\ multisig.threshold \in Int
    BY DEF MultisigSound, Multisig
  <1>2. CASE UNCHANGED multisig
    BY <1>2 DEF MultisigSound
  <1>3. ASSUME NEW g \in Groups, NEW t \in 1..MAX_MULTISIG_ADMINS, initialize_multisig(g, t)
        PROVE  MultisigSound'
    <2> DEFINE E == multisig.ever \cup ToSet(g)
    <2>1. multisig' = [multisig EXCEPT !.admins = g, !.threshold = t, !.ever = E]
      BY <1>3 DEF initialize_multisig
    <2>2. g \in Seq(Keys) /\ t \in Int /\ t >= 1
      BY AdminAssumption DEF MAX_MULTISIG_ADMINS
    <2>3. E \subseteq Keys /\ multisig.ever \subseteq E /\ ToSet(g) \subseteq E
      BY <1>1, <2>2 DEF ToSet
    <2> HIDE DEF E
    <2>4. /\ multisig' \in Multisig /\ multisig'.admins = g /\ multisig'.threshold = t
          /\ multisig'.proposals = multisig.proposals /\ multisig'.ever = E
      BY ONLY <1>1, <2>1, <2>2, <2>3 DEF Multisig
    <2>5. \A i \in DOMAIN multisig.proposals : approved(multisig.proposals[i], E)
      BY <2>3 DEF MultisigSound, approved
    <2> QED BY <2>2, <2>3, <2>4, <2>5 DEF MultisigSound
  <1>4. ASSUME NEW k \in Keys, NEW kind \in Kinds, propose_action(k, kind)
        PROVE  MultisigSound'
    <2> DEFINE b == [kind |-> kind, approvals |-> <<k>>, executed |-> FALSE, asked |-> 0]
               new == Append(multisig.proposals, b)
    <2>0. k \in multisig.ever /\ multisig.admins # <<>> /\ multisig.threshold >= 1
      BY <1>1, <1>4 DEF propose_action, is_member, MultisigSound, ToSet
    <2>1. b \in Ballot /\ approved(b, multisig.ever)
      <3>1. ToSet(<<k>>) = {k}
        BY DEF ToSet
      <3> QED BY <2>0, <3>1 DEF Ballot, approved, IsInjective
    <2>2. multisig' = [multisig EXCEPT !.proposals = new]
      BY <1>4 DEF propose_action
    <2> HIDE DEF b
    <2>3. new \in Seq(Ballot) /\ \A j \in DOMAIN new : new[j] = b \/ (j \in DOMAIN multisig.proposals /\ new[j] = multisig.proposals[j])
      BY <1>1, <2>1
    <2>4. \A j \in DOMAIN new : approved(new[j], multisig.ever)
      BY <2>1, <2>3 DEF MultisigSound
    <2> HIDE DEF new
    <2>5. /\ multisig' \in Multisig /\ multisig'.proposals = new
          /\ multisig'.admins = multisig.admins /\ multisig'.threshold = multisig.threshold
          /\ multisig'.ever = multisig.ever
      BY ONLY <1>1, <2>2, <2>3 DEF Multisig
    <2> QED BY <2>0, <2>4, <2>5 DEF MultisigSound
  <1>5. ASSUME NEW k \in Keys, NEW i \in DOMAIN multisig.proposals, approve_action(k, i)
        PROVE  MultisigSound'
    <2> DEFINE p == multisig.proposals[i]   a == Append(p.approvals, k)   b == [p EXCEPT !.approvals = a]
    <2> DEFINE E == multisig.ever
    <2>0. p \in Ballot /\ approved(p, E)
      BY <1>1 DEF MultisigSound
    <2>1. p \in Ballot /\ approved(p, E) /\ p.approvals \in Seq(Keys)
      BY ONLY <2>0 DEF Ballot
    <2>2. ~p.executed /\ k \notin ToSet(p.approvals) /\ k \in E
      BY <1>5 DEF approve_action, is_member, MultisigSound
    <2>3. multisig' = [multisig EXCEPT !.proposals = [multisig.proposals EXCEPT ![i] = b]]
      BY <1>5, <1>1 DEF approve_action, Multisig
    <2> HIDE DEF p
    <2> HIDE DEF E
    <2>4. a \in Seq(Keys) /\ IsInjective(a) /\ ToSet(a) \subseteq E
      BY <2>1, <2>2 DEF approved, IsInjective, ToSet
    <2> HIDE DEF a
    <2>5. b \in Ballot /\ b.approvals = a /\ b.executed = FALSE
      BY <2>1, <2>2, <2>4 DEF Ballot
    <2>6. approved(b, E)
      BY <2>4, <2>5 DEF approved
    <2> QED BY <2>3, <2>5, <2>6, BallotChanged DEF E
  <1>6. ASSUME NEW i \in DOMAIN multisig.proposals, execute_proposal(i)
        PROVE  MultisigSound'
    <2> DEFINE p == multisig.proposals[i]   t == multisig.threshold
               b == [p EXCEPT !.executed = TRUE, !.asked = t]
    <2>1. p \in Ballot /\ approved(p, multisig.ever)
      BY <1>1 DEF MultisigSound
    <2>2. Len(p.approvals) >= t /\ t >= 1 /\ t \in Int
      BY <1>6, <1>1 DEF execute_proposal, MultisigSound
    <2>3. multisig' = [multisig EXCEPT !.proposals = [multisig.proposals EXCEPT ![i] = b]]
      BY <1>6, <1>1 DEF execute_proposal, Multisig
    <2> HIDE DEF p, t
    <2>5. b \in Ballot /\ b.approvals = p.approvals /\ b.asked = t
      BY <2>1, <2>2 DEF Ballot
    <2>6. approved(b, multisig.ever)
      BY <2>1, <2>2, <2>5 DEF approved
    <2> QED BY <2>3, <2>5, <2>6, BallotChanged
  <1> QED BY <1>2, <1>3, <1>4, <1>5, <1>6
       DEF AuthorityNext, set_rate_bps, set_max_reward_rate, role_set_reward_rate_bps, set_min_runway_ledgers,
           grant_role, revoke_role, renounce_role, execute_admin_action_with_nonce

\* Every step keeps the ballots sound.
LEMMA MultisigInvStep ==
    ASSUME MultisigInv, [RulesNext]_rules_vars
    PROVE  MultisigInv'
  <1>1. CASE focus \notin {"handover", "authority"}
    <2>1. UNCHANGED focus
      BY DEF RulesNext, rules_vars
    <2> QED BY <1>1, <2>1 DEF MultisigInv
  <1>2. CASE focus \in {"handover", "authority"}
    <2>1. UNCHANGED focus /\ (AdminNext(focus) \/ UNCHANGED <<base_vars, admin_vars>>)
      BY <1>2, AdminStep
    <2>2. CASE UNCHANGED multisig
      BY <1>2, <2>1, <2>2 DEF MultisigInv, MultisigSound
    <2>3. CASE AuthorityNext
      BY <1>2, <2>1, <2>3, MultisigStep DEF MultisigInv
    <2> QED BY <1>2, <2>1, <2>2, <2>3 DEF AdminNext, admin_vars
  <1> QED BY <1>1, <1>2

\* Authority: over transfers, nominations, renouncements, recoveries and successions no
\* queued, timelocked or announced change is left of another administrator, and whatever
\* the multisig executed was approved by as many different members as the threshold of that
\* moment asked, whoever replaced group and threshold in between.
THEOREM AuthorityKept == RulesSpec => []Authority
  <1>1. RulesInit => KeysInv /\ MultisigInv
    BY KeysInvInit, MultisigInvInit
  <1>2. KeysInv /\ MultisigInv /\ [RulesNext]_rules_vars => (KeysInv /\ MultisigInv)'
    BY KeysInvStep, MultisigInvStep
  <1>3. KeysInv /\ MultisigInv => Authority
    <2> SUFFICES ASSUME KeysInv, MultisigInv, focus \in {"handover", "authority"}
                 PROVE  queues_owned /\ approvals_distinct
      BY DEF Authority
    <2>1. queues_owned
      BY DEF KeysInv
    <2>2. ASSUME NEW i \in DOMAIN multisig.proposals, multisig.proposals[i].executed
          PROVE  /\ multisig.proposals[i].asked >= 1
                 /\ Cardinality(ToSet(multisig.proposals[i].approvals) \cap multisig.ever) >= multisig.proposals[i].asked
      <3> DEFINE q == multisig.proposals[i].approvals   n == multisig.proposals[i].asked   E == multisig.ever
      <3>1. q \in Seq(Keys) /\ IsInjective(q) /\ Len(q) >= n /\ n >= 1 /\ ToSet(q) \subseteq E
        <4> DEFINE p == multisig.proposals[i]
        <4>1. multisig.proposals \in Seq(Ballot) /\ approved(p, multisig.ever)
          BY DEF MultisigInv, MultisigSound, Multisig
        <4>2. p \in Ballot /\ p.executed
          BY <2>2, <4>1
        <4> HIDE DEF p
        <4>3. p.approvals \in Seq(Keys) /\ IsInjective(p.approvals) /\ Len(p.approvals) >= p.asked
              /\ p.asked >= 1 /\ ToSet(p.approvals) \subseteq multisig.ever
          BY ONLY <4>1, <4>2 DEF Ballot, approved
        <4> QED BY <4>3 DEF p
      <3> HIDE DEF q, n, E
      <3>2. Cardinality(ToSet(q)) = Len(q) /\ ToSet(q) \cap E = ToSet(q)
        BY <3>1, DistinctCount
      <3> QED BY <3>1, <3>2 DEF q, n, E
    <2> QED BY <2>1, <2>2 DEF approvals_distinct
  <1> QED BY <1>1, <1>2, <1>3, PTL DEF RulesSpec, rules_vars

-------------------------------------------------------------------------------
(* Proposals and delegated votes. *)

GovInv == focus \in {"governance", "delegation"} => GovBooks

\* The governance books are in order at the start.
LEMMA GovInvInit == RulesInit => GovInv
  <1> SUFFICES ASSUME RulesInit, focus \in {"governance", "delegation"} PROVE GovBooks
    BY DEF GovInv
  <1>1. BaseInitWith(Purse) /\ GovInit /\ Purse \in Nat
    BY BaseAssumption DEF RulesInit
  <1> QED BY <1>1, GovBooksInit

\* Every step keeps them in order.
LEMMA GovInvStep == ASSUME GovInv, [RulesNext]_rules_vars PROVE GovInv'
  <1>1. UNCHANGED focus
    BY DEF RulesNext, rules_vars
  <1>2. CASE focus \notin {"governance", "delegation"}
    BY <1>1, <1>2 DEF GovInv
  <1>3. CASE focus \in {"governance", "delegation"}
    <2>1. GovNext \/ DelegationNext \/ UNCHANGED <<base_vars, gov_vars>>
      BY <1>3 DEF RulesNext, rules_vars, ForumNext, AdminNext, RatesNext, PayoutNext
    <2>2. GovBooks
      BY <1>3 DEF GovInv
    <2>3. GovBooks'
      BY <2>1, <2>2, GovStep
    <2> QED BY <1>1, <2>3 DEF GovInv
  <1> QED BY <1>2, <1>3

\* Bonds: over votes, cancels, vetoes, expiries and enactments, with the settings changed
\* under way, the contract holds principal, reward pool and every bond not yet refunded or
\* slashed; the slots taken are the proposals in progress; nothing vetoed or cancelled was
\* ever enacted.
THEOREM ProposalBooksKept == RulesSpec => []ProposalBooks
  <1>1. GovInv => ProposalBooks
    <2> SUFFICES ASSUME GovBooks PROVE bonds_held /\ slots_counted /\ vetoes_final
      BY DEF GovInv, ProposalBooks
    <2>1. bonds_held
      <3>1. [id \in DOMAIN proposals |-> bond_in(proposals[id])]
                = [id \in DOMAIN proposals |-> IF proposals[id].settled \/ proposals[id].cancelled THEN 0
                                                ELSE proposals[id].bond]
        BY DEF bond_in
      <3>2. held = totalDeposited + rewardPool + sum([id \in DOMAIN proposals |-> bond_in(proposals[id])])
        BY DEF GovBooks, bonds_of
      <3> QED BY ONLY <3>1, <3>2 DEF bonds_held
    <2>2. slots_counted
      BY DEF GovBooks, slots_counted, open_of
    <2>3. vetoes_final
      BY DEF GovBooks, vetoes_final, in_order
    <2> QED BY <2>1, <2>2, <2>3
  <1>2. GovInv /\ [RulesNext]_rules_vars => GovInv'
    BY GovInvStep
  <1> QED BY GovInvInit, <1>1, <1>2, PTL DEF RulesSpec, rules_vars

\* Votes: each tally is the sum of its voters' receipts through vote, batch_vote and votes
\* with delegated weight, and a delegate holds exactly what its delegators of now lent it,
\* whatever they staked or withdrew since.
THEOREM VotesAreBacked == RulesSpec => []VotesBacked
  <1>1. GovInv => VotesBacked
    <2> SUFFICES ASSUME GovBooks PROVE tallies_receipted /\ weight_lent
      BY DEF GovInv, VotesBacked
    <2>1. tallies_receipted
      BY DEF GovBooks, tallies_receipted, in_order, tallied, cast_on
    <2>2. weight_lent
      BY DEF GovBooks, weight_lent, lent_to
    <2> QED BY <2>1, <2>2
  <1>2. GovInv /\ [RulesNext]_rules_vars => GovInv'
    BY GovInvStep
  <1> QED BY GovInvInit, <1>1, <1>2, PTL DEF RulesSpec, rules_vars

-------------------------------------------------------------------------------
(* Disputes about slashes. *)

Slash   == [user : Users, amount : Nat, at : Nat]
Dispute == [slash : Ids, overturn : Nat, uphold : Nat, resolved : BOOLEAN, deadline : Nat, voted : [Users -> Nat]]
Docket  == [window : Nat, raised : BOOLEAN, slash : Seq(Slash), list : Seq(Dispute), open : Int,
            linked : [Ids -> Nat], paid : [Ids -> Nat]]

unresolved(list) == {d \in DOMAIN list : ~list[d].resolved}

\* Slashes are of the past, disputes about slashes there are, and an open one is linked.
docketed(slash, list, linked, t) ==
    /\ Len(slash) <= MaxItems /\ \A s \in DOMAIN slash : slash[s].at <= t
    /\ \A d \in DOMAIN list : list[d].slash \in DOMAIN slash
    /\ \A d \in unresolved(list) : linked[list[d].slash] = d

\* With a window that only ever shrank: a slash in dispute is not paid for and the dispute
\* outlasts the window; a slash paid for is out of it.
timely(window, slash, list, paid, t) ==
    /\ \A d \in unresolved(list) :
           paid[list[d].slash] = 0 /\ list[d].deadline >= slash[list[d].slash].at + window
    /\ \A s \in Ids : \/ paid[s] = 0
                      \/ paid[s] = 1 /\ s \in DOMAIN slash /\ t > slash[s].at + window

DisputeBooks ==
    /\ now \in Nat /\ shares \in [Users -> Nat] /\ totalShares \in Nat /\ totalDeposited \in Nat
    /\ disputes \in Docket
    /\ docketed(disputes.slash, disputes.list, disputes.linked, now)
    /\ ~disputes.raised => timely(disputes.window, disputes.slash, disputes.list, disputes.paid, now)
    /\ disputes.open = Cardinality(unresolved(disputes.list))

\* The open disputes are finitely many.
LEMMA UnresolvedFinite ==
    ASSUME NEW list \in Seq(Dispute)
    PROVE  IsFiniteSet(unresolved(list))
  <1>1. DOMAIN list = 1..Len(list) /\ 1 \in Int /\ Len(list) \in Int
    OBVIOUS
  <1>2. IsFiniteSet(1..Len(list))
    BY ONLY <1>1, FS_Interval
  <1> QED BY <1>1, <1>2, FS_Subset DEF unresolved

\* No slash, no dispute at the start.
LEMMA DisputeBooksInit ==
    ASSUME NEW purse \in Nat, BaseInitWith(purse), DisputeInit
    PROVE  DisputeBooks
  <1>1. now = 0 /\ shares \in [Users -> Nat] /\ totalShares \in Nat /\ totalDeposited \in Nat
    BY BaseInitFacts
  <1>2. disputes \in Docket
    <2>1. [s \in Ids |-> 0] \in [Ids -> Nat] /\ <<>> \in Seq(Slash) /\ <<>> \in Seq(Dispute)
      OBVIOUS
    <2> QED BY <2>1 DEF DisputeInit, Docket
  <1>3. /\ disputes.slash = <<>> /\ disputes.list = <<>> /\ DOMAIN disputes.list = {} /\ DOMAIN disputes.slash = {}
        /\ disputes.open = 0 /\ \A s \in Ids : disputes.paid[s] = 0
    BY DEF DisputeInit
  <1>4. unresolved(disputes.list) = {} /\ Cardinality({}) = 0
    BY <1>3, FS_EmptySet DEF unresolved
  <1>5. docketed(disputes.slash, disputes.list, disputes.linked, now)
    BY <1>1, <1>3, <1>4, ForumAssumption DEF docketed
  <1>6. timely(disputes.window, disputes.slash, disputes.list, disputes.paid, now)
    BY <1>3, <1>4 DEF timely
  <1> QED BY <1>1, <1>2, <1>3, <1>4, <1>5, <1>6 DEF DisputeBooks

\* The types of the parts of the docket.
LEMMA DocketParts ==
    ASSUME NEW D \in Docket
    PROVE  /\ D.window \in Nat /\ D.raised \in BOOLEAN /\ D.slash \in Seq(Slash) /\ D.list \in Seq(Dispute)
           /\ D.open \in Int /\ D.linked \in [Ids -> Nat] /\ D.paid \in [Ids -> Nat]
  BY DEF Docket

\* The entries of the docket.
LEMMA EntriesTyped ==
    ASSUME NEW S \in Seq(Slash), NEW L \in Seq(Dispute)
    PROVE  /\ \A s \in DOMAIN S : S[s] \in Slash /\ S[s].at \in Nat
           /\ \A d \in DOMAIN L : L[d] \in Dispute /\ L[d].slash \in Ids /\ L[d].deadline \in Nat
  <1>1. \A s \in DOMAIN S : S[s] \in Slash
    OBVIOUS
  <1>2. \A d \in DOMAIN L : L[d] \in Dispute
    OBVIOUS
  <1>3. \A x \in Slash : x.at \in Nat
    BY DEF Slash
  <1>4. \A x \in Dispute : x.slash \in Ids /\ x.deadline \in Nat
    BY DEF Dispute
  <1> QED BY <1>1, <1>2, <1>3, <1>4

\* A later ledger, or a shorter window, keeps the docket in time.
LEMMA LaterInTime ==
    ASSUME NEW D \in Docket, NEW t \in Nat, docketed(D.slash, D.list, D.linked, t),
           timely(D.window, D.slash, D.list, D.paid, t),
           NEW w \in Nat, w <= D.window, NEW t2 \in Nat, t2 >= t
    PROVE  timely(w, D.slash, D.list, D.paid, t2)
  <1> DEFINE S == D.slash   L == D.list   P == D.paid   v == D.window
  <1>1. S \in Seq(Slash) /\ L \in Seq(Dispute) /\ v \in Nat
    BY DocketParts
  <1>2. \A s \in DOMAIN S : S[s].at \in Nat
    <2> HIDE DEF S
    <2> QED BY <1>1, EntriesTyped
  <1>3. \A d \in DOMAIN L : L[d].slash \in DOMAIN S /\ L[d].deadline \in Nat
    <2>1. docketed(S, L, D.linked, t)
      OBVIOUS
    <2> HIDE DEF S, L
    <2> QED BY <1>1, <2>1, EntriesTyped DEF docketed
  <1>4. timely(v, S, L, P, t) /\ unresolved(L) \subseteq DOMAIN L /\ w <= v
    BY DEF unresolved
  <1> HIDE DEF S, L, P, v
  <1>5. timely(w, S, L, P, t2)
    BY <1>1, <1>2, <1>3, <1>4 DEF timely
  <1> QED BY <1>5 DEF S, L, P

LEMMA SetWindowKeeps ==
    ASSUME DisputeBooks, NEW w \in Windows, set_slash_dispute_window(w), UNCHANGED <<now, pool>>
    PROVE  DisputeBooks'
  <1> DEFINE r == disputes.raised \/ w > disputes.window
  <1>1. disputes \in Docket /\ w \in Nat /\ now \in Nat
    BY ForumAssumption DEF DisputeBooks
  <1>2. r \in BOOLEAN /\ disputes' = [disputes EXCEPT !.window = w, !.raised = r]
    BY DEF set_slash_dispute_window
  <1>3. (~r => ~disputes.raised /\ w <= disputes.window)
    BY <1>1 DEF Docket
  <1> HIDE DEF r
  <1>4. /\ disputes' \in Docket /\ disputes'.window = w /\ disputes'.raised = r
        /\ disputes'.slash = disputes.slash /\ disputes'.list = disputes.list /\ disputes'.open = disputes.open
        /\ disputes'.linked = disputes.linked /\ disputes'.paid = disputes.paid
    BY ONLY <1>1, <1>2 DEF Docket
  <1>5. ~r => timely(w, disputes.slash, disputes.list, disputes.paid, now)
    BY <1>1, <1>3, LaterInTime DEF DisputeBooks
  <1> QED BY <1>4, <1>5 DEF DisputeBooks, pool

LEMMA RecordSlashKeeps ==
    ASSUME DisputeBooks, NEW u \in Users, NEW a \in Amounts, record_slash(u, a), UNCHANGED <<now, pool>>
    PROVE  DisputeBooks'
  <1> DEFINE x == [user |-> u, amount |-> a, at |-> now]
             S == disputes.slash
             L == disputes.list
             P == disputes.paid
             N == Append(S, x)
  <1>1. disputes \in Docket /\ now \in Nat /\ a \in Nat
    BY BaseAssumption DEF DisputeBooks
  <1>2. disputes' = [disputes EXCEPT !.slash = N] /\ Len(S) < MaxItems
    BY DEF record_slash
  <1>3. x \in Slash /\ x.at = now
    BY <1>1 DEF Slash
  <1> HIDE DEF x
  <1>4. S \in Seq(Slash) /\ L \in Seq(Dispute)
    BY <1>1, DocketParts
  <1>5. docketed(S, L, disputes.linked, now) /\ (~disputes.raised => timely(disputes.window, S, L, P, now))
    BY DEF DisputeBooks
  <1> HIDE DEF S, L, P
  <1>6. N \in Seq(Slash) /\ Len(N) = Len(S) + 1 /\ DOMAIN S \subseteq DOMAIN N
        /\ \A s \in DOMAIN N : N[s] = IF s \in DOMAIN S THEN S[s] ELSE x
    BY ONLY <1>3, <1>4
  <1> HIDE DEF N
  <1>7. /\ disputes' \in Docket /\ disputes'.slash = N /\ disputes'.list = disputes.list /\ disputes'.open = disputes.open
        /\ disputes'.linked = disputes.linked /\ disputes'.paid = disputes.paid
        /\ disputes'.window = disputes.window /\ disputes'.raised = disputes.raised
    BY ONLY <1>1, <1>2, <1>6 DEF Docket
  <1>8. docketed(N, L, disputes.linked, now)
    <2>1. Len(N) <= MaxItems
      BY <1>2, <1>4, <1>6, ForumAssumption
    <2>2. \A s \in DOMAIN N : N[s].at <= now
      BY <1>1, <1>3, <1>5, <1>6 DEF docketed
    <2> QED BY <1>5, <1>6, <2>1, <2>2 DEF docketed
  <1>9. ~disputes.raised => timely(disputes.window, N, L, P, now)
    BY <1>5, <1>6 DEF timely, docketed, unresolved
  <1> QED BY <1>7, <1>8, <1>9 DEF DisputeBooks, pool, L, P

\* A dispute opens only in the window of its slash, so a slash paid for is not disputed again.
LEMMA DisputeSlashKeeps ==
    ASSUME DisputeBooks, NEW u \in Users, NEW s \in DOMAIN disputes.slash, dispute_slash(u, s), UNCHANGED <<now, pool>>
    PROVE  DisputeBooks'
  <1> DEFINE S == disputes.slash
             L == disputes.list
             P == disputes.paid
             K == disputes.linked
             w == disputes.window
             k == Len(L) + 1
             x == [slash |-> s, overturn |-> 0, uphold |-> 0, resolved |-> FALSE,
                   deadline |-> now + w, voted |-> no_weights]
             N == Append(L, x)
             J == [K EXCEPT ![s] = k]
             o == disputes.open + 1
  <1>1. disputes \in Docket /\ now \in Nat
    BY DEF DisputeBooks
  <1>2. /\ disputes' = [disputes EXCEPT !.list = N, !.open = o, !.linked = J]
        /\ now <= S[s].at + w /\ K[s] = 0
    BY DEF dispute_slash
  <1>3. /\ S \in Seq(Slash) /\ L \in Seq(Dispute) /\ P \in [Ids -> Nat] /\ K \in [Ids -> Nat] /\ w \in Nat
        /\ disputes.open \in Int
    BY <1>1, DocketParts
  <1>4. /\ docketed(S, L, K, now) /\ (~disputes.raised => timely(w, S, L, P, now))
        /\ disputes.open = Cardinality(unresolved(L))
    BY DEF DisputeBooks
  <1>5. s \in DOMAIN S /\ disputes.raised \in BOOLEAN
    BY <1>1, DocketParts
  <1> HIDE DEF S, L, P, w
  <1>6. s \in Ids /\ S[s].at \in Nat /\ S[s].at <= now
    <2>1. DOMAIN S = 1..Len(S) /\ Len(S) \in Nat /\ Len(S) <= MaxItems /\ MaxItems \in Nat
      BY <1>3, <1>4, ForumAssumption DEF docketed
    <2> QED BY <1>3, <1>4, <1>5, <2>1, EntriesTyped DEF docketed, Ids
  <1>7. x \in Dispute /\ x.slash = s /\ ~x.resolved /\ x.deadline = now + w
    BY <1>1, <1>3, <1>6 DEF Dispute, no_weights
  <1> HIDE DEF x
  <1>8. /\ N \in Seq(Dispute) /\ DOMAIN N = DOMAIN L \cup {k} /\ k \notin DOMAIN L /\ k \in Nat /\ k # 0
        /\ N[k] = x /\ \A d \in DOMAIN L : N[d] = L[d]
    BY ONLY <1>3, <1>7
  <1>9. o \in Int
    BY <1>3
  <1> HIDE DEF K, N, k, o
  <1>10. J \in [Ids -> Nat] /\ J[s] = k /\ \A i \in Ids \ {s} : J[i] = K[i]
    BY <1>3, <1>6, <1>8
  <1> HIDE DEF J
  <1>11. /\ disputes' \in Docket /\ disputes'.slash = disputes.slash /\ disputes'.list = N /\ disputes'.open = o
         /\ disputes'.linked = J /\ disputes'.paid = disputes.paid
         /\ disputes'.window = disputes.window /\ disputes'.raised = disputes.raised
    BY ONLY <1>1, <1>2, <1>8, <1>9, <1>10 DEF Docket
  <1>12. unresolved(N) = unresolved(L) \cup {k} /\ k \notin unresolved(L)
    BY <1>7, <1>8 DEF unresolved
  <1>13. o = Cardinality(unresolved(N))
    <2>1. IsFiniteSet(unresolved(L))
      BY <1>3, UnresolvedFinite
    <2>2. Cardinality(unresolved(N)) = Cardinality(unresolved(L)) + 1
      BY <1>12, <2>1, FS_AddElement
    <2> QED BY <1>4, <2>2 DEF o
  <1>14. \A d \in unresolved(L) : L[d].slash # s /\ d \in DOMAIN L /\ L[d].slash \in Ids
    <2>1. \A d \in unresolved(L) : d \in Nat /\ d # 0 /\ d \in DOMAIN L
      BY <1>3 DEF unresolved
    <2> QED BY <1>2, <1>3, <1>4, <2>1, EntriesTyped DEF docketed, K
  <1>15. docketed(S, N, J, now)
    <2>1. \A d \in DOMAIN N : N[d].slash \in DOMAIN S
      BY <1>4, <1>5, <1>7, <1>8 DEF docketed
    <2>2. \A d \in unresolved(N) : J[N[d].slash] = d
      BY <1>4, <1>7, <1>8, <1>10, <1>12, <1>14 DEF docketed
    <2> QED BY <1>4, <2>1, <2>2 DEF docketed
  <1>16. ASSUME ~disputes.raised PROVE timely(w, S, N, P, now)
    <2>1. timely(w, S, L, P, now)
      BY <1>4, <1>16
    <2>2. P[s] = 0
      <3>1. ~(now > S[s].at + w)
        BY <1>1, <1>2, <1>3, <1>6 DEF S, w
      <3> QED BY <1>6, <2>1, <3>1 DEF timely
    <2>3. x.deadline >= S[s].at + w
      BY <1>1, <1>3, <1>6, <1>7
    <2>4. \A d \in unresolved(N) : P[N[d].slash] = 0 /\ N[d].deadline >= S[N[d].slash].at + w
      BY <1>7, <1>8, <1>12, <1>14, <2>1, <2>2, <2>3 DEF timely
    <2> QED BY <2>1, <2>4 DEF timely
  <1> QED BY <1>11, <1>13, <1>15, <1>16 DEF DisputeBooks, pool, S, P, w

\* A vote on a dispute writes its tally only.
LEMMA VoteOnDisputeKeeps ==
    ASSUME DisputeBooks, NEW u \in Users, NEW d \in DOMAIN disputes.list, NEW b \in BOOLEAN,
           vote_on_dispute(u, d, b), UNCHANGED <<now, pool>>
    PROVE  DisputeBooks'
  <1> DEFINE L == disputes.list
             p == L[d]
             a == amount_of(u)
             x == p.overturn + IF b THEN a ELSE 0
             y == p.uphold + IF b THEN 0 ELSE a
             v == [p.voted EXCEPT ![u] = a]
             q == [p EXCEPT !.overturn = x, !.uphold = y, !.voted = v]
             N == [L EXCEPT ![d] = q]
  <1>1. disputes \in Docket /\ L \in Seq(Dispute) /\ p \in Dispute /\ d \in DOMAIN L
    BY DocketParts, EntriesTyped DEF DisputeBooks
  <1>2. a \in Nat
    BY AmountNat DEF DisputeBooks
  <1>3. disputes' = [disputes EXCEPT !.list = N]
    BY DEF vote_on_dispute
  <1> HIDE DEF a, L
  <1>4. x \in Nat /\ y \in Nat /\ v \in [Users -> Nat]
    <2>1. p \in Dispute
      BY <1>1
    <2> HIDE DEF p
    <2>2. p.overturn \in Nat /\ p.uphold \in Nat /\ p.voted \in [Users -> Nat]
      BY ONLY <2>1 DEF Dispute
    <2>3. x \in Nat /\ y \in Nat
      BY ONLY <1>2, <2>2
    <2>4. v \in [Users -> Nat]
      BY ONLY <1>2, <2>2
    <2> QED BY <2>3, <2>4
  <1> HIDE DEF x, y, v
  <1>5. q \in Dispute /\ q.slash = p.slash /\ q.resolved = p.resolved /\ q.deadline = p.deadline
    <2> HIDE DEF p
    <2> QED BY ONLY <1>1, <1>4 DEF Dispute
  <1> HIDE DEF q
  <1>6. /\ N \in Seq(Dispute) /\ DOMAIN N = DOMAIN L
        /\ \A i \in DOMAIN L : N[i].slash = L[i].slash /\ N[i].resolved = L[i].resolved /\ N[i].deadline = L[i].deadline
    BY <1>1, <1>5
  <1> HIDE DEF N
  <1>7. /\ disputes' \in Docket /\ disputes'.slash = disputes.slash /\ disputes'.list = N /\ disputes'.open = disputes.open
        /\ disputes'.linked = disputes.linked /\ disputes'.paid = disputes.paid
        /\ disputes'.window = disputes.window /\ disputes'.raised = disputes.raised
    BY ONLY <1>1, <1>3, <1>6 DEF Docket
  <1>8. unresolved(N) = unresolved(L) /\ unresolved(L) \subseteq DOMAIN L
    BY <1>6 DEF unresolved
  <1>9. ASSUME NEW S, NEW K, NEW t, docketed(S, L, K, t) PROVE docketed(S, N, K, t)
    BY <1>6, <1>8, <1>9 DEF docketed
  <1>10. ASSUME NEW w, NEW S, NEW P, NEW t, timely(w, S, L, P, t) PROVE timely(w, S, N, P, t)
    BY <1>6, <1>8, <1>10 DEF timely
  <1> QED BY <1>7, <1>8, <1>9, <1>10 DEF DisputeBooks, pool, L

\* Settled once: the dispute is over, and by its deadline so is the window of its slash.
LEMMA ResolveDisputeKeeps ==
    ASSUME DisputeBooks, NEW d \in DOMAIN disputes.list, resolve_dispute(d), UNCHANGED <<now, pool>>
    PROVE  DisputeBooks'
  <1> DEFINE S == disputes.slash
             L == disputes.list
             P == disputes.paid
             K == disputes.linked
             w == disputes.window
             p == L[d]
             s == p.slash
             c == IF p.overturn > p.uphold THEN 0 ELSE 1
             q == [p EXCEPT !.resolved = TRUE]
             N == [L EXCEPT ![d] = q]
             J == [K EXCEPT ![s] = 0]
             G == [P EXCEPT ![s] = P[s] + c]
             o == disputes.open - 1
  <1>1. disputes \in Docket /\ now \in Nat
    BY DEF DisputeBooks
  <1>2. /\ disputes' = [disputes EXCEPT !.list = N, !.open = o, !.linked = J, !.paid = G]
        /\ ~p.resolved /\ now > p.deadline
    <2>1. ~p.resolved /\ now > p.deadline
      BY DEF resolve_dispute
    <2>2. disputes' = [disputes EXCEPT !.list = N, !.open = o, !.linked = J, !.paid = G]
      BY DEF resolve_dispute
    <2> QED BY <2>1, <2>2
  <1>3. /\ S \in Seq(Slash) /\ L \in Seq(Dispute) /\ P \in [Ids -> Nat] /\ K \in [Ids -> Nat] /\ w \in Nat
        /\ disputes.open \in Int /\ disputes.raised \in BOOLEAN /\ d \in DOMAIN L
    BY <1>1, DocketParts
  <1>4. /\ docketed(S, L, K, now) /\ (~disputes.raised => timely(w, S, L, P, now))
        /\ disputes.open = Cardinality(unresolved(L))
    BY DEF DisputeBooks
  <1> HIDE DEF S, L, P, K, w
  <1>5. p \in Dispute /\ s \in Ids /\ p.deadline \in Nat /\ s \in DOMAIN S /\ S[s].at \in Nat
    BY <1>3, <1>4, EntriesTyped DEF docketed
  <1>6. d \in unresolved(L) /\ unresolved(L) \subseteq DOMAIN L
    BY <1>2, <1>3 DEF unresolved, L
  <1>7. \A e \in unresolved(L) \ {d} : L[e].slash # s /\ L[e].slash \in Ids
    BY <1>3, <1>4, <1>6, EntriesTyped DEF docketed
  <1>8. c \in {0, 1} /\ o \in Int
    BY <1>3
  <1>9. q \in Dispute /\ q.slash = s /\ q.resolved /\ q.deadline = p.deadline
    <2>1. p \in Dispute
      BY <1>5
    <2> HIDE DEF p
    <2> QED BY ONLY <2>1 DEF Dispute
  <1> HIDE DEF c, o, q
  <1>10. /\ N \in Seq(Dispute) /\ DOMAIN N = DOMAIN L /\ N[d] = q /\ \A e \in DOMAIN L \ {d} : N[e] = L[e]
    BY <1>3, <1>9
  <1>11. J \in [Ids -> Nat] /\ \A i \in Ids \ {s} : J[i] = K[i]
    BY <1>3, <1>5
  <1>12. G \in [Ids -> Nat] /\ G[s] = P[s] + c /\ \A i \in Ids \ {s} : G[i] = P[i]
    <2>1. P[s] + c \in Nat
      BY <1>3, <1>5, <1>8
    <2> QED BY <1>3, <1>5, <2>1
  <1> HIDE DEF N, J, G
  <1>13. /\ disputes' \in Docket /\ disputes'.slash = disputes.slash /\ disputes'.list = N /\ disputes'.open = o
         /\ disputes'.linked = J /\ disputes'.paid = G
         /\ disputes'.window = disputes.window /\ disputes'.raised = disputes.raised
    BY ONLY <1>1, <1>2, <1>8, <1>10, <1>11, <1>12 DEF Docket
  <1>14. unresolved(N) = unresolved(L) \ {d}
    BY <1>9, <1>10 DEF unresolved
  <1>15. o = Cardinality(unresolved(N))
    <2>1. IsFiniteSet(unresolved(L))
      BY <1>3, UnresolvedFinite
    <2>2. Cardinality(unresolved(N)) = Cardinality(unresolved(L)) - 1
      BY <1>6, <1>14, <2>1, FS_RemoveElement
    <2> QED BY <1>4, <2>2 DEF o
  <1>16. docketed(S, N, J, now)
    <2>1. \A e \in DOMAIN N : N[e].slash \in DOMAIN S
      BY <1>4, <1>5, <1>9, <1>10 DEF docketed
    <2>2. \A e \in unresolved(N) : J[N[e].slash] = e
      BY <1>4, <1>6, <1>7, <1>10, <1>11, <1>14 DEF docketed
    <2> QED BY <1>4, <2>1, <2>2 DEF docketed
  <1>17. ASSUME ~disputes.raised PROVE timely(w, S, N, G, now)
    <2>1. timely(w, S, L, P, now)
      BY <1>4, <1>17
    <2>2. P[s] = 0 /\ p.deadline >= S[s].at + w
      BY <1>6, <2>1 DEF timely
    <2>3. now > S[s].at + w
      <3>1. now > p.deadline
        BY <1>2
      <3> HIDE DEF p, s
      <3> QED BY ONLY <1>1, <1>3, <1>5, <2>2, <3>1
    <2>4. \A e \in unresolved(N) : G[N[e].slash] = 0 /\ N[e].deadline >= S[N[e].slash].at + w
      BY <1>6, <1>7, <1>10, <1>12, <1>14, <2>1 DEF timely
    <2>5. G[s] = 0 \/ G[s] = 1
      BY <1>8, <1>12, <2>2
    <2>6. \A i \in Ids : G[i] = 0 \/ (G[i] = 1 /\ i \in DOMAIN S /\ now > S[i].at + w)
      BY <1>5, <1>12, <2>1, <2>3, <2>5 DEF timely
    <2> QED BY <2>4, <2>6 DEF timely
  <1> QED BY <1>13, <1>15, <1>16, <1>17 DEF DisputeBooks, pool, S, w

\* Time alone.
LEMMA DisputesLater ==
    ASSUME DisputeBooks, UNCHANGED <<disputes, pool>>, now' \in Nat, now' >= now
    PROVE  DisputeBooks'
  <1>1. disputes \in Docket /\ now \in Nat /\ disputes' = disputes
    BY DEF DisputeBooks
  <1>2. docketed(disputes.slash, disputes.list, disputes.linked, now')
    <2>1. \A s \in DOMAIN disputes.slash : disputes.slash[s].at \in Nat /\ disputes.slash[s].at <= now
      BY <1>1, DocketParts, EntriesTyped DEF DisputeBooks, docketed
    <2>2. \A s \in DOMAIN disputes.slash : disputes.slash[s].at <= now'
      BY <1>1, <2>1
    <2> QED BY <2>2 DEF DisputeBooks, docketed
  <1>3. ~disputes.raised => timely(disputes.window, disputes.slash, disputes.list, disputes.paid, now')
    <2>1. disputes.window \in Nat /\ disputes.window <= disputes.window
      BY <1>1, DocketParts
    <2> QED BY <1>1, <2>1, LaterInTime DEF DisputeBooks
  <1> QED BY <1>1, <1>2, <1>3 DEF DisputeBooks, pool

DisputeInv == focus = "dispute" => DisputeBooks

\* Nothing is disputed at the start.
LEMMA DisputeInvInit == RulesInit => DisputeInv
  <1> SUFFICES ASSUME RulesInit, focus = "dispute" PROVE DisputeBooks
    BY DEF DisputeInv
  <1>1. BaseInitWith(Purse) /\ DisputeInit /\ Purse \in Nat
    BY BaseAssumption DEF RulesInit, ForumInit
  <1> QED BY <1>1, DisputeBooksInit

\* Every step keeps the docket.
LEMMA DisputeInvStep == ASSUME DisputeInv, [RulesNext]_rules_vars PROVE DisputeInv'
  <1>1. UNCHANGED focus
    BY DEF RulesNext, rules_vars
  <1>2. CASE focus # "dispute"
    BY <1>1, <1>2 DEF DisputeInv
  <1>3. CASE focus = "dispute"
    <2>1. DisputeBooks /\ now \in Nat
      BY <1>3 DEF DisputeInv, DisputeBooks
    <2> SUFFICES DisputeBooks'
      BY <1>1 DEF DisputeInv
    <2>2. \/ DisputeNext /\ UNCHANGED <<now, pool>>
          \/ TimePasses /\ UNCHANGED disputes
          \/ UNCHANGED <<now, pool, disputes>>
      BY <1>3 DEF RulesNext, rules_vars, base_vars, forum_vars, ForumNext, AdminNext, RatesNext, PayoutNext
    <2>3. CASE DisputeNext /\ UNCHANGED <<now, pool>>
      BY <2>1, <2>3, SetWindowKeeps, RecordSlashKeeps, DisputeSlashKeeps, VoteOnDisputeKeeps,
         ResolveDisputeKeeps DEF DisputeNext
    <2>4. CASE TimePasses /\ UNCHANGED disputes
      <3>1. now' \in Nat /\ now' >= now /\ UNCHANGED <<disputes, pool>>
        BY <2>1, <2>4 DEF TimePasses, tick
      <3> QED BY <2>1, <3>1, DisputesLater
    <2>5. CASE UNCHANGED <<now, pool, disputes>>
      BY <2>1, <2>5, DisputesLater
    <2> QED BY <2>2, <2>3, <2>4, <2>5
  <1> QED BY <1>1, <1>2, <1>3

\* Disputes (slash_dispute.rs): as long as the window is not lengthened, a slash is paid to
\* the treasury at most once however often it is disputed, since a dispute outlives the
\* window in which the next one could be opened; and the open disputes are counted.
THEOREM SlashesAreSettledOnce == RulesSpec => []SlashesSettledOnce
  <1>1. DisputeInv => SlashesSettledOnce
    <2> SUFFICES ASSUME DisputeBooks PROVE slashes_settled_once
      BY DEF DisputeInv, SlashesSettledOnce
    <2>1. ASSUME ~disputes.raised, NEW s \in Ids PROVE disputes.paid[s] <= 1
      BY <2>1 DEF DisputeBooks, timely
    <2>2. disputes.open = Cardinality({d \in DOMAIN disputes.list : ~disputes.list[d].resolved})
      BY DEF DisputeBooks, unresolved
    <2> QED BY <2>1, <2>2 DEF slashes_settled_once
  <1> QED BY <1>1, DisputeInvInit, DisputeInvStep, PTL DEF RulesSpec, rules_vars

-------------------------------------------------------------------------------
(* Roadmap points. *)

Roadmap == [live : SUBSET Ids, votes : [Ids -> Int], next : Nat,
            alloc : [Users -> [Ids -> Nat]], epoch : [Users -> Int]]

points_on(A, i) == sum([u \in Users |-> A[u][i]])

\* The votes V of the live items L are the points A of the voters; nobody gave points to an
\* item that is still to come, from n on, and nobody gave too many.
points_kept(L, V, n, A) ==
    /\ \A i \in L : V[i] = points_on(A, i)
    /\ \A u \in Users : sum(A[u]) <= PointsBudget
    /\ \A i \in Ids : i >= n => i \notin L /\ V[i] = 0 /\ \A u \in Users : A[u][i] = 0

RoadmapBooks ==
    /\ roadmap \in Roadmap /\ now \in Nat
    /\ points_kept(roadmap.live, roadmap.votes, roadmap.next, roadmap.alloc)

\* The points of one voter are replaced by g.
LEMMA PointsReplaced ==
    ASSUME NEW A \in [Users -> [Ids -> Nat]], NEW B \in [Users -> [Ids -> Nat]], NEW u \in Users,
           \A v \in Users \ {u} : B[v] = A[v], NEW i \in Ids
    PROVE  points_on(B, i) = points_on(A, i) + B[u][i] - A[u][i]
  <1> DEFINE f == [v \in Users |-> A[v][i]]   g == [v \in Users |-> B[v][i]]
  <1>1. f \in [Users -> Int] /\ g \in [Users -> Int] /\ IsFiniteSet(Users) /\ \A v \in Users \ {u} : g[v] = f[v]
    BY BaseAssumption
  <1>2. g[u] = B[u][i] /\ f[u] = A[u][i]
    OBVIOUS
  <1>3. points_on(A, i) = sum(f) /\ points_on(B, i) = sum(g)
    BY DEF points_on
  <1> HIDE DEF f, g
  <1>4. sum(g) = sum(f) + g[u] - f[u]
    BY ONLY <1>1, SumChange, u \in Users
  <1> QED BY <1>2, <1>3, <1>4

\* Nobody gave points to an item: it has none.
LEMMA NoPoints ==
    ASSUME NEW A \in [Users -> [Ids -> Nat]], NEW i \in Ids, \A u \in Users : A[u][i] = 0
    PROVE  points_on(A, i) = 0
  <1> DEFINE f == [v \in Users |-> A[v][i]]
  <1>1. f \in [Users -> Int] /\ IsFiniteSet(Users) /\ \A v \in Users : f[v] = 0
    BY BaseAssumption
  <1> HIDE DEF f
  <1>2. sum(f) = 0
    BY ONLY <1>1, SumZero
  <1> QED BY <1>2 DEF points_on, f

LEMMA RoadmapBooksInit ==
    ASSUME RoadmapInit, now = 0
    PROVE  RoadmapBooks
  <1> DEFINE Z == [i \in Ids |-> 0]
  <1>1. Z \in [Ids -> Nat] /\ Z \in [Ids -> Int] /\ IsFiniteSet(Ids) /\ \A i \in Ids : Z[i] = 0
    <2>1. IsFiniteSet(Ids)
      BY FS_Interval, ForumAssumption DEF Ids
    <2> QED BY <2>1
  <1>2. sum(Z) <= PointsBudget
    <2> HIDE DEF Z
    <2>1. sum(Z) = 0
      BY ONLY <1>1, SumZero
    <2> QED BY <2>1, ForumAssumption
  <1>3. roadmap = [live |-> {}, votes |-> Z, next |-> 1, alloc |-> [u \in Users |-> Z], epoch |-> [u \in Users |-> -1]]
    BY DEF RoadmapInit, NoLedger
  <1> HIDE DEF Z
  <1>4. roadmap \in Roadmap
    BY <1>1, <1>3 DEF Roadmap
  <1>5. points_kept(roadmap.live, roadmap.votes, roadmap.next, roadmap.alloc)
    BY <1>1, <1>2, <1>3 DEF points_kept
  <1> QED BY <1>4, <1>5 DEF RoadmapBooks

\* A new item has no votes.
LEMMA AddItemKeeps == ASSUME RoadmapBooks, add_roadmap_item, UNCHANGED now PROVE RoadmapBooks'
  <1> DEFINE L == roadmap.live   V == roadmap.votes   A == roadmap.alloc   n == roadmap.next   M == L \cup {n}
  <1>1. roadmap \in Roadmap /\ L \in SUBSET Ids /\ V \in [Ids -> Int] /\ n \in Nat /\ A \in [Users -> [Ids -> Nat]]
        /\ points_kept(L, V, n, A) /\ now \in Nat /\ n \in Ids
    BY DEF RoadmapBooks, Roadmap, add_roadmap_item
  <1>2. M \in SUBSET Ids /\ n + 1 \in Nat
    BY <1>1
  <1>3. roadmap' = [roadmap EXCEPT !.live = M, !.next = n + 1]
    BY DEF add_roadmap_item
  <1> HIDE DEF L, V, A, n, M
  <1>4. /\ roadmap' \in Roadmap /\ roadmap'.live = M /\ roadmap'.votes = roadmap.votes /\ roadmap'.next = n + 1
        /\ roadmap'.alloc = roadmap.alloc
    BY ONLY <1>1, <1>2, <1>3 DEF Roadmap
  <1>5. V[n] = 0 /\ points_on(A, n) = 0
    BY <1>1, NoPoints DEF points_kept
  <1>6. \A i \in Ids : i >= n + 1 => i >= n /\ i # n
    BY <1>1 DEF Ids
  <1>7. points_kept(M, V, n + 1, A)
    BY <1>1, <1>5, <1>6 DEF points_kept, M
  <1> QED BY <1>1, <1>4, <1>7 DEF RoadmapBooks, V, A

\* A removed item takes its votes along, and the points stay spent.
LEMMA RemoveItemKeeps ==
    ASSUME RoadmapBooks, NEW i \in Ids, remove_roadmap_item(i), UNCHANGED now
    PROVE  RoadmapBooks'
  <1> DEFINE L == roadmap.live   V == roadmap.votes   A == roadmap.alloc   n == roadmap.next
             M == L \ {i}   W == [V EXCEPT ![i] = 0]
  <1>1. roadmap \in Roadmap /\ L \in SUBSET Ids /\ V \in [Ids -> Int] /\ n \in Nat /\ A \in [Users -> [Ids -> Nat]]
        /\ points_kept(L, V, n, A) /\ now \in Nat /\ i \in L
    BY DEF RoadmapBooks, Roadmap, remove_roadmap_item
  <1>2. M \in SUBSET Ids /\ W \in [Ids -> Int] /\ \A j \in Ids : W[j] = IF j = i THEN 0 ELSE V[j]
    BY <1>1
  <1>3. roadmap' = [roadmap EXCEPT !.live = M, !.votes = W]
    BY DEF remove_roadmap_item
  <1> HIDE DEF L, V, A, n, M, W
  <1>4. /\ roadmap' \in Roadmap /\ roadmap'.live = M /\ roadmap'.votes = W /\ roadmap'.next = roadmap.next
        /\ roadmap'.alloc = roadmap.alloc
    BY ONLY <1>1, <1>2, <1>3 DEF Roadmap
  <1>5. points_kept(M, W, n, A)
    BY <1>1, <1>2 DEF points_kept, M
  <1> QED BY <1>1, <1>4, <1>5 DEF RoadmapBooks, n, A

\* A vote moves the points of one voter and the votes of the items by the same numbers.
LEMMA VoteItemKeeps ==
    ASSUME RoadmapBooks, NEW u \in Users, NEW i \in Ids, NEW weight \in Points,
           vote_roadmap_item(u, i, weight), UNCHANGED now
    PROVE  RoadmapBooks'
  <1> DEFINE L == roadmap.live   V == roadmap.votes   A == roadmap.alloc   n == roadmap.next
             fresh == roadmap.epoch[u] \notin {NoLedger, current_epoch}
             mine  == IF fresh THEN [j \in Ids |-> 0] ELSE A[u]
             given == [mine EXCEPT ![i] = weight]
             back  == [j \in Ids |-> V[j] - IF fresh /\ j \in L THEN A[u][j] ELSE 0]
             W == [back EXCEPT ![i] = back[i] + weight - mine[i]]
             B == [A EXCEPT ![u] = given]
             E == [roadmap.epoch EXCEPT ![u] = current_epoch]
  <1>1. roadmap \in Roadmap /\ L \in SUBSET Ids /\ V \in [Ids -> Int] /\ n \in Nat /\ A \in [Users -> [Ids -> Nat]]
        /\ points_kept(L, V, n, A) /\ now \in Nat /\ i \in L /\ weight \in Nat /\ roadmap.epoch \in [Users -> Int]
    BY ForumAssumption DEF RoadmapBooks, Roadmap, vote_roadmap_item
  <1>2. sum(given) <= PointsBudget /\ roadmap' = [roadmap EXCEPT !.votes = W, !.alloc = B, !.epoch = E]
    BY DEF vote_roadmap_item
  <1>3. current_epoch \in Int
    BY <1>1, ForumAssumption, DivNat DEF current_epoch
  <1>4. E \in [Users -> Int]
    BY <1>1, <1>3
  <1> HIDE DEF L, V, A, n, E, fresh
  <1>5. mine \in [Ids -> Nat] /\ back \in [Ids -> Int] /\ fresh \in BOOLEAN
        /\ \A j \in Ids : mine[j] = (IF fresh THEN 0 ELSE A[u][j])
                          /\ back[j] = V[j] - (IF fresh /\ j \in L THEN A[u][j] ELSE 0)
    BY <1>1 DEF fresh
  <1> HIDE DEF mine, back
  <1>6. given \in [Ids -> Nat] /\ \A j \in Ids : given[j] = IF j = i THEN weight ELSE mine[j]
    BY <1>1, <1>5
  <1>7. W \in [Ids -> Int] /\ \A j \in Ids : W[j] = IF j = i THEN back[j] + weight - mine[j] ELSE back[j]
    BY <1>1, <1>5
  <1> HIDE DEF given, W
  <1>8. B \in [Users -> [Ids -> Nat]] /\ B[u] = given /\ \A v \in Users \ {u} : B[v] = A[v]
    BY <1>1, <1>6
  <1> HIDE DEF B
  <1>9. /\ roadmap' \in Roadmap /\ roadmap'.live = roadmap.live /\ roadmap'.votes = W /\ roadmap'.next = roadmap.next
        /\ roadmap'.alloc = B
    BY ONLY <1>1, <1>2, <1>4, <1>7, <1>8 DEF Roadmap
  <1>10. \A j \in Ids : points_on(B, j) = points_on(A, j) + given[j] - A[u][j]
    BY <1>1, <1>8, PointsReplaced
  <1>11. ASSUME NEW j \in L PROVE W[j] = points_on(B, j)
    <2>1. j \in Ids /\ V[j] = points_on(A, j) /\ V[j] \in Int /\ A[u][j] \in Nat
      BY <1>1 DEF points_kept
    <2>2. W[j] = V[j] + given[j] - A[u][j]
      BY <1>1, <1>5, <1>6, <1>7, <2>1
    <2> QED BY <1>10, <2>1, <2>2
  <1>12. \A v \in Users : sum(B[v]) <= PointsBudget
    BY <1>1, <1>2, <1>8 DEF points_kept
  <1>13. ASSUME NEW j \in Ids, j >= n PROVE j \notin L /\ W[j] = 0 /\ \A v \in Users : B[v][j] = 0
    <2>1. j \notin L /\ V[j] = 0 /\ (\A v \in Users : A[v][j] = 0) /\ j # i
      BY <1>1, <1>13 DEF points_kept
    <2>2. mine[j] = 0 /\ back[j] = 0
      BY <1>5, <2>1
    <2> QED BY <1>6, <1>7, <1>8, <2>1, <2>2
  <1>14. points_kept(L, W, n, B)
    BY <1>11, <1>12, <1>13 DEF points_kept
  <1> QED BY <1>1, <1>9, <1>14 DEF RoadmapBooks, n, L

-------------------------------------------------------------------------------
(* Daily tips. *)

Tip == [id : Nat, votes : Nat]

votes_of(s) == sum([i \in DOMAIN s |-> s[i].votes])

\* Every tip of a day D carries the votes V of that day's voters.
day_counted(D, V) == \A d \in Days : votes_of(D[d]) = sum(V[d])

TipBooks ==
    /\ now \in 0..MaxLedger /\ shares \in [Users -> Nat]
    /\ tips = [day |-> tips.day, next |-> tips.next, author |-> tips.author,
               voted |-> tips.voted, featured |-> tips.featured]
    /\ tips.day \in [Days -> Seq(Tip)] /\ tips.next \in Nat /\ tips.voted \in [Days -> [Users -> Nat]]
    /\ day_counted(tips.day, tips.voted)

\* The day of a ledger of the model is one of its days.
LEMMA TodayIsADay == ASSUME now \in 0..MaxLedger PROVE today \in Days
  <1> DEFINE q == now \div EpochLedgers   m == MaxLedger \div EpochLedgers   E == EpochLedgers
  <1>1. now \in Nat /\ MaxLedger \in Nat /\ now <= MaxLedger /\ E \in Nat /\ E > 0
    BY BaseAssumption, ForumAssumption
  <1>2. q \in Nat /\ m \in Nat /\ E * q <= now /\ MaxLedger < E * (m + 1)
    BY <1>1, DivNat
  <1> HIDE DEF q, m, E
  <1>3. E * q < E * (m + 1)
    BY <1>1, <1>2
  <1>4. q < m + 1
    BY <1>1, <1>2, <1>3
  <1> QED BY <1>1, <1>2, <1>4 DEF Days, today, q, m, E

\* A sequence of tips is summed over a finite domain.
LEMMA TipVotes ==
    ASSUME NEW s \in Seq(Tip)
    PROVE  /\ IsFiniteSet(DOMAIN s) /\ [i \in DOMAIN s |-> s[i].votes] \in [DOMAIN s -> Int]
           /\ \A i \in DOMAIN s : s[i] \in Tip /\ s[i].votes \in Nat
  <1>1. DOMAIN s = 1..Len(s) /\ Len(s) \in Nat /\ \A i \in DOMAIN s : s[i] \in Tip
    OBVIOUS
  <1>2. IsFiniteSet(DOMAIN s)
    BY <1>1, FS_Interval
  <1> QED BY <1>1, <1>2 DEF Tip

LEMMA TipBooksInit ==
    ASSUME TipInit, NEW purse \in Nat, BaseInitWith(purse)
    PROVE  TipBooks
  <1>1. now = 0 /\ 0 \in 0..MaxLedger /\ shares \in [Users -> Nat] /\ IsFiniteSet(Users)
    BY BaseInitFacts, BaseAssumption
  <1> DEFINE Z == no_weights   e == << >>   D == [d \in Days |-> e]   V == [d \in Days |-> Z]
  <1>2. Z \in [Users -> Nat] /\ Z \in [Users -> Int] /\ \A u \in Users : Z[u] = 0
    BY DEF no_weights
  <1>3. e \in Seq(Tip) /\ DOMAIN e = {}
    OBVIOUS
  <1>4. tips = [day |-> D, next |-> 0, author |-> [u \in Users |-> NoLedger], voted |-> V,
                featured |-> [day |-> NoLedger, id |-> 0, votes |-> 0]]
    BY DEF TipInit
  <1> HIDE DEF Z, e
  <1>5. D \in [Days -> Seq(Tip)] /\ V \in [Days -> [Users -> Nat]] /\ \A d \in Days : D[d] = e /\ V[d] = Z
    BY <1>2, <1>3
  <1>6. sum(Z) = 0
    BY ONLY <1>1, <1>2, SumZero
  <1>7. votes_of(e) = 0
    <2> DEFINE f == [i \in DOMAIN e |-> e[i].votes]
    <2>1. DOMAIN f = {}
      BY <1>3
    <2> HIDE DEF f
    <2>2. sum(f) = 0
      BY <2>1, SumEmpty DEF sum
    <2> QED BY <2>2 DEF votes_of, f
  <1> HIDE DEF D, V
  <1>8. day_counted(D, V)
    BY <1>5, <1>6, <1>7 DEF day_counted
  <1> QED BY <1>1, <1>4, <1>5, <1>8 DEF TipBooks

\* A tip comes without votes.
LEMMA SubmitTipKeeps ==
    ASSUME TipBooks, NEW u \in Users, submit_daily_tip(u), UNCHANGED <<now, shares>>
    PROVE  TipBooks'
  <1> DEFINE D == tips.day   V == tips.voted   t == today   s == D[t]
             c == [id |-> tips.next, votes |-> 0]   r == Append(s, c)
             N == [D EXCEPT ![t] = r]   A == [tips.author EXCEPT ![u] = today]
  <1>1. D \in [Days -> Seq(Tip)] /\ V \in [Days -> [Users -> Nat]] /\ tips.next \in Nat
        /\ t \in Days /\ day_counted(D, V)
    BY TodayIsADay DEF TipBooks
  <1>2. tips = [day |-> tips.day, next |-> tips.next, author |-> tips.author,
                voted |-> tips.voted, featured |-> tips.featured]
    BY DEF TipBooks
  <1>3. tips' = [tips EXCEPT !.day = N, !.next = tips.next + 1, !.author = A]
    BY DEF submit_daily_tip
  <1> HIDE DEF D, V, t, A
  <1>4. c \in Tip /\ c.votes = 0 /\ s \in Seq(Tip)
    BY <1>1 DEF Tip
  <1> HIDE DEF c, s
  <1>5. /\ r \in Seq(Tip) /\ DOMAIN r = DOMAIN s \cup {Len(s) + 1} /\ Len(s) + 1 \notin DOMAIN s
        /\ r[Len(s) + 1] = c /\ \A i \in DOMAIN s : r[i] = s[i]
    BY <1>4
  <1> HIDE DEF r
  <1>6. N \in [Days -> Seq(Tip)] /\ N[t] = r /\ \A d \in Days \ {t} : N[d] = D[d]
    BY <1>1, <1>5
  <1> HIDE DEF N
  <1>7. /\ tips' = [day |-> N, next |-> tips.next + 1, author |-> A, voted |-> tips.voted, featured |-> tips.featured]
    BY ONLY <1>2, <1>3
  <1>8. votes_of(r) = votes_of(s)
    <2> DEFINE f == [i \in DOMAIN s |-> s[i].votes]   g == [i \in DOMAIN r |-> r[i].votes]
               S == DOMAIN s   R == DOMAIN r   x == Len(s) + 1
    <2>1. IsFiniteSet(R) /\ f \in [S -> Int] /\ g \in [R -> Int]
      BY <1>4, <1>5, TipVotes
    <2>2. x \in R /\ S \subseteq R /\ x \notin S /\ \A y \in R : y \in S \/ y = x
      BY <1>5
    <2>3. (\A y \in S : g[y] = f[y]) /\ g[x] = 0
      BY <1>4, <1>5
    <2>4. votes_of(s) = sum(f) /\ votes_of(r) = sum(g)
      BY DEF votes_of
    <2> HIDE DEF f, g, S, R, x
    <2>5. sum(g) = sum(f) + g[x]
      BY ONLY <2>1, <2>2, <2>3, SumExtend
    <2>6. sum(f) \in Int
      <3>1. IsFiniteSet(S)
        BY <2>1, <2>2, FS_Subset
      <3> QED BY ONLY <2>1, <3>1, SumType
    <2> QED BY ONLY <2>3, <2>4, <2>5, <2>6
  <1>9. day_counted(N, V)
    BY <1>1, <1>6, <1>8 DEF day_counted, s
  <1> QED BY <1>1, <1>6, <1>7, <1>9 DEF TipBooks, V

\* A vote adds the same weight to one tip and to one voter of the day.
LEMMA VoteTipKeeps ==
    ASSUME TipBooks, NEW u \in Users, NEW i \in Ids, vote_daily_tip(u, i), UNCHANGED <<now, shares>>
    PROVE  TipBooks'
  <1> DEFINE D == tips.day   V == tips.voted   t == today   s == D[t]   v == V[t]   w == shares[u]
             c == s[i]   k == c.votes   b == [c EXCEPT !.votes = k + w]   r == [s EXCEPT ![i] = b]
             q == [v EXCEPT ![u] = w]   N == [D EXCEPT ![t] = r]   M == [V EXCEPT ![t] = q]
  <1>1. /\ D \in [Days -> Seq(Tip)] /\ V \in [Days -> [Users -> Nat]] /\ tips.next \in Nat
        /\ t \in Days /\ day_counted(D, V) /\ w \in Nat /\ i \in DOMAIN s /\ v[u] = 0
    BY TodayIsADay DEF TipBooks, vote_daily_tip
  <1>2. tips = [day |-> tips.day, next |-> tips.next, author |-> tips.author,
                voted |-> tips.voted, featured |-> tips.featured]
    BY DEF TipBooks
  <1>3. tips' = [tips EXCEPT !.day = N, !.voted = M]
    BY DEF vote_daily_tip
  <1> HIDE DEF D, V, t, w
  <1>4. s \in Seq(Tip) /\ v \in [Users -> Nat]
    BY <1>1
  <1> HIDE DEF s, v
  <1>5. c \in Tip /\ k \in Nat /\ b \in Tip /\ b.votes = k + w
    <2>1. c \in Tip /\ k \in Nat
      BY <1>1, <1>4, TipVotes
    <2>2. k + w \in Nat
      BY <1>1, <2>1
    <2> HIDE DEF c, k
    <2> QED BY <2>1, <2>2 DEF Tip
  <1> HIDE DEF b
  <1>6. r \in Seq(Tip) /\ DOMAIN r = DOMAIN s /\ r[i] = b /\ \A j \in DOMAIN s \ {i} : r[j] = s[j]
    BY <1>1, <1>4, <1>5
  <1>7. q \in [Users -> Nat] /\ q[u] = w /\ \A z \in Users \ {u} : q[z] = v[z]
    BY <1>1, <1>4
  <1> HIDE DEF r, q
  <1>8. N \in [Days -> Seq(Tip)] /\ N[t] = r /\ \A d \in Days \ {t} : N[d] = D[d]
    BY <1>1, <1>6
  <1>9. M \in [Days -> [Users -> Nat]] /\ M[t] = q /\ \A d \in Days \ {t} : M[d] = V[d]
    BY <1>1, <1>7
  <1> HIDE DEF N, M
  <1>10. tips' = [day |-> N, next |-> tips.next, author |-> tips.author, voted |-> M, featured |-> tips.featured]
    BY ONLY <1>2, <1>3
  <1>11. votes_of(r) = votes_of(s) + w
    <2> DEFINE f == [j \in DOMAIN s |-> s[j].votes]   g == [j \in DOMAIN r |-> r[j].votes]   S == DOMAIN s
    <2>1. IsFiniteSet(S) /\ f \in [S -> Int] /\ g \in [S -> Int]
      BY <1>4, <1>6, TipVotes
    <2>2. i \in S /\ \A y \in S \ {i} : g[y] = f[y]
      BY <1>1, <1>6
    <2>3. f[i] = k /\ g[i] = k + w
      BY <1>1, <1>5, <1>6
    <2>4. votes_of(s) = sum(f) /\ votes_of(r) = sum(g)
      BY DEF votes_of
    <2> HIDE DEF f, g, S, k
    <2>5. sum(g) = sum(f) + g[i] - f[i]
      BY ONLY <2>1, <2>2, SumChange
    <2>6. sum(f) \in Int
      BY ONLY <2>1, SumType
    <2> QED BY ONLY <1>1, <1>5, <2>3, <2>4, <2>5, <2>6
  <1>12. sum(q) = sum(v) + w
    <2>1. IsFiniteSet(Users) /\ v \in [Users -> Int] /\ q \in [Users -> Int] /\ u \in Users
      BY <1>4, <1>7, BaseAssumption
    <2>2. sum(q) = sum(v) + q[u] - v[u]
      BY ONLY <1>7, <2>1, SumChange
    <2>3. sum(v) \in Int
      BY ONLY <2>1, SumType
    <2> QED BY <1>1, <1>7, <2>2, <2>3
  <1>13. votes_of(s) = sum(v)
    BY <1>1 DEF day_counted, s, v
  <1>14. day_counted(N, M)
    BY <1>1, <1>8, <1>9, <1>11, <1>12, <1>13 DEF day_counted
  <1> QED BY <1>1, <1>8, <1>9, <1>10, <1>14 DEF TipBooks

\* Featuring a tip changes no votes.
LEMMA FinalizeTipKeeps ==
    ASSUME TipBooks, NEW d \in Days, finalize_daily_tip(d), UNCHANGED <<now, shares>>
    PROVE  TipBooks'
  <1> DEFINE best == Max({tips.day[d][i].votes : i \in DOMAIN tips.day[d]})
             i == SelectInSeq(tips.day[d], LAMBDA t : t.votes = best)
             F == [day |-> d, id |-> tips.day[d][i].id, votes |-> best]
  <1>1. tips = [day |-> tips.day, next |-> tips.next, author |-> tips.author,
                voted |-> tips.voted, featured |-> tips.featured]
    BY DEF TipBooks
  <1>2. tips' = [tips EXCEPT !.featured = F]
    BY DEF finalize_daily_tip
  <1> HIDE DEF F
  <1>3. tips' = [day |-> tips.day, next |-> tips.next, author |-> tips.author,
                 voted |-> tips.voted, featured |-> F]
    BY ONLY <1>1, <1>2
  <1> QED BY <1>3 DEF TipBooks
-------------------------------------------------------------------------------
(* Quizzes and the tiers they unlock. *)

Quiz == [tier : Nat, attempts : Nat \ {0}]

best_tier(Q, done) == Max({0} \cup {Q[i].tier : i \in done})

\* One user's books: the tier t of the quizzes done of the list Q, and for every quiz the
\* attempts left l and the wrong answers w.
graded(Q, done, t, l, w) ==
    /\ done \subseteq DOMAIN Q /\ t = best_tier(Q, done)
    /\ \A i \in Ids : IF i \in DOMAIN Q THEN \/ l[i] = -1 /\ w[i] = 0
                                             \/ l[i] >= 0 /\ l[i] + w[i] = Q[i].attempts
                      ELSE l[i] = -1 /\ w[i] = 0

Quizzes == [list : Seq(Quiz), done : [Users -> SUBSET Nat], tier : [Users -> Nat],
            left : [Users -> [Ids -> Int]], wrong : [Users -> [Ids -> Nat]]]

QuizBooks ==
    /\ quizzes \in Quizzes /\ Len(quizzes.list) <= MaxItems
    /\ \A u \in Users :
          graded(quizzes.list, quizzes.done[u], quizzes.tier[u], quizzes.left[u], quizzes.wrong[u])

\* The entries of the list are quizzes.
LEMMA QuizEntries ==
    ASSUME NEW Q \in Seq(Quiz)
    PROVE  \A i \in DOMAIN Q : Q[i] \in Quiz /\ Q[i].tier \in Nat /\ Q[i].attempts \in Nat \ {0}
  <1>1. \A i \in DOMAIN Q : Q[i] \in Quiz
    OBVIOUS
  <1>2. \A q \in Quiz : q.tier \in Nat /\ q.attempts \in Nat \ {0}
    BY DEF Quiz
  <1> QED BY <1>1, <1>2

\* The best tier is a maximum.
LEMMA BestTier ==
    ASSUME NEW Q \in Seq(Quiz), NEW done, done \subseteq DOMAIN Q
    PROVE  /\ best_tier(Q, done) \in Nat
           /\ best_tier(Q, done) = 0 \/ \E i \in done : Q[i].tier = best_tier(Q, done)
           /\ \A i \in done : Q[i].tier <= best_tier(Q, done)
  <1> DEFINE T == {Q[i].tier : i \in done}   S == {0} \cup T
  <1>1. \A i \in DOMAIN Q : Q[i].tier \in Nat
    BY QuizEntries
  <1>2. IsFiniteSet(done)
    <2>1. IsFiniteSet(DOMAIN Q)
      BY FS_Interval
    <2> QED BY <2>1, FS_Subset
  <1>3. IsFiniteSet(T)
    <2> DEFINE F == [i \in done |-> Q[i].tier]
    <2>1. F \in Surjection(done, T)
      BY DEF Surjection
    <2> HIDE DEF F, T
    <2> QED BY <1>2, <2>1, FS_Surjection
  <1>4. IsFiniteSet(S)
    <2>1. IsFiniteSet({0})
      BY FS_Singleton
    <2> QED BY <1>3, <2>1, FS_Union
  <1>5. S \subseteq Nat /\ S \subseteq Int /\ S # {}
    BY <1>1
  <1>6. Max(S) \in S /\ \A x \in S : x <= Max(S)
    <2> HIDE DEF S
    <2> QED BY <1>4, <1>5, MaxOfFinite
  <1>7. best_tier(Q, done) = Max(S)
    BY DEF best_tier
  <1> QED BY <1>5, <1>6, <1>7

LEMMA QuizBooksInit == ASSUME QuizInit PROVE QuizBooks
  <1> DEFINE e == << >>   L == [i \in Ids |-> -1]   W == [i \in Ids |-> 0]
  <1>1. quizzes = [list |-> e, done |-> [u \in Users |-> {}], tier |-> [u \in Users |-> 0],
                   left |-> [u \in Users |-> L], wrong |-> [u \in Users |-> W]]
    BY DEF QuizInit, no_weights
  <1>2. e \in Seq(Quiz) /\ DOMAIN e = {} /\ Len(e) = 0
    OBVIOUS
  <1>3. L \in [Ids -> Int] /\ W \in [Ids -> Nat] /\ \A i \in Ids : L[i] = -1 /\ W[i] = 0
    OBVIOUS
  <1> HIDE DEF e, L, W
  <1>4. quizzes \in Quizzes /\ quizzes.list = e
        /\ \A u \in Users : quizzes.done[u] = {} /\ quizzes.tier[u] = 0 /\ quizzes.left[u] = L /\ quizzes.wrong[u] = W
    BY <1>1, <1>2, <1>3 DEF Quizzes
  <1>5. best_tier(e, {}) = 0
    BY <1>2, BestTier
  <1>6. graded(e, {}, 0, L, W)
    BY <1>2, <1>3, <1>5 DEF graded
  <1>7. MaxItems \in Nat
    BY ForumAssumption
  <1>8. Len(quizzes.list) <= MaxItems
    BY <1>2, <1>4, <1>7
  <1>9. ASSUME NEW u \in Users
        PROVE  graded(quizzes.list, quizzes.done[u], quizzes.tier[u], quizzes.left[u], quizzes.wrong[u])
    BY <1>4, <1>6
  <1> QED BY <1>4, <1>8, <1>9 DEF QuizBooks

\* A new quiz: nobody has answered it.
LEMMA AddQuizKeeps ==
    ASSUME QuizBooks, NEW t \in Tiers, NEW n \in Attempts, add_quiz(t, n)
    PROVE  QuizBooks'
  <1> DEFINE Q == quizzes.list   c == [tier |-> t, attempts |-> n]   R == Append(Q, c)
  <1>1. quizzes \in Quizzes /\ Q \in Seq(Quiz) /\ Len(Q) < MaxItems /\ MaxItems \in Nat /\ c \in Quiz
    <2>1. quizzes \in Quizzes /\ t \in Nat /\ n \in Nat /\ n > 0 /\ MaxItems \in Nat /\ Len(Q) < MaxItems
      BY ForumAssumption DEF QuizBooks, add_quiz
    <2>2. Q \in Seq(Quiz)
      BY <2>1 DEF Quizzes
    <2> QED BY <2>1, <2>2 DEF Quiz
  <1>2. \A u \in Users : graded(Q, quizzes.done[u], quizzes.tier[u], quizzes.left[u], quizzes.wrong[u])
    BY DEF QuizBooks
  <1>3. quizzes' = [quizzes EXCEPT !.list = R]
    BY DEF add_quiz
  <1> HIDE DEF Q, c
  <1>4. R \in Seq(Quiz) /\ Len(R) <= MaxItems /\ DOMAIN R = DOMAIN Q \cup {Len(Q) + 1}
        /\ Len(Q) + 1 \notin DOMAIN Q /\ \A i \in DOMAIN Q : R[i] = Q[i]
    BY <1>1
  <1> HIDE DEF R
  <1>5. /\ quizzes' \in Quizzes /\ quizzes'.list = R /\ quizzes'.done = quizzes.done /\ quizzes'.tier = quizzes.tier
        /\ quizzes'.left = quizzes.left /\ quizzes'.wrong = quizzes.wrong
    BY ONLY <1>1, <1>3, <1>4 DEF Quizzes
  <1>6. ASSUME NEW D, NEW x, NEW l, NEW w, graded(Q, D, x, l, w) PROVE graded(R, D, x, l, w)
    <2>1. D \subseteq DOMAIN R /\ {Q[i].tier : i \in D} = {R[i].tier : i \in D}
      BY <1>4, <1>6 DEF graded
    <2>2. x = best_tier(R, D)
      BY <1>6, <2>1 DEF graded, best_tier
    <2> QED BY <1>4, <1>6, <2>1, <2>2 DEF graded
  <1> QED BY <1>2, <1>4, <1>5, <1>6 DEF QuizBooks

\* An answer, right or wrong.
LEMMA AnswerKeeps ==
    ASSUME QuizBooks, NEW u \in Users, NEW i \in DOMAIN quizzes.list, NEW right \in BOOLEAN,
           submit_quiz_answer(u, i, right)
    PROVE  QuizBooks'
  <1> DEFINE Q == quizzes.list   D == quizzes.done[u]   x == quizzes.tier[u]
             l == quizzes.left[u]   w == quizzes.wrong[u]   quiz == Q[i]
             y == IF quiz.tier > x THEN quiz.tier ELSE x
             left == IF l[i] = -1 THEN quiz.attempts ELSE l[i]
             m == [l EXCEPT ![i] = left - 1]   z == [w EXCEPT ![i] = w[i] + 1]
             E == D \cup {i}
  <1>1. quizzes \in Quizzes /\ Q \in Seq(Quiz) /\ Len(Q) <= MaxItems /\ i \in DOMAIN Q /\ MaxItems \in Nat
    BY ForumAssumption DEF QuizBooks, Quizzes
  <1>2. D \in SUBSET Nat /\ x \in Nat /\ l \in [Ids -> Int] /\ w \in [Ids -> Nat]
    BY <1>1 DEF Quizzes
  <1>3. \A v \in Users : graded(Q, quizzes.done[v], quizzes.tier[v], quizzes.left[v], quizzes.wrong[v])
    BY DEF QuizBooks
  <1>4. l[i] # 0
    BY DEF submit_quiz_answer
  <1>5. quizzes' = IF right
             THEN [quizzes EXCEPT !.done = [@ EXCEPT ![u] = E], !.tier = [@ EXCEPT ![u] = y]]
             ELSE [quizzes EXCEPT !.left = [@ EXCEPT ![u] = m], !.wrong = [@ EXCEPT ![u] = z]]
    BY DEF submit_quiz_answer
  <1>6. graded(Q, D, x, l, w)
    BY <1>3
  <1>7. quiz \in Quiz /\ quiz.tier \in Nat /\ quiz.attempts \in Nat \ {0} /\ i \in Ids /\ i \in Nat
    BY <1>1, QuizEntries DEF Ids
  <1> HIDE DEF Q, D, x, l, w
  <1>8. CASE right
    <2>1. y \in Nat /\ E \in SUBSET Nat
      BY <1>2, <1>7
    <2> HIDE DEF y, E
    <2> DEFINE F == [quizzes.done EXCEPT ![u] = E]   G == [quizzes.tier EXCEPT ![u] = y]
    <2>2. F \in [Users -> SUBSET Nat] /\ F[u] = E /\ \A v \in Users \ {u} : F[v] = quizzes.done[v]
      BY <1>1, <2>1 DEF Quizzes
    <2>3. G \in [Users -> Nat] /\ G[u] = y /\ \A v \in Users \ {u} : G[v] = quizzes.tier[v]
      BY <1>1, <2>1 DEF Quizzes
    <2>4. quizzes' = [quizzes EXCEPT !.done = F, !.tier = G]
      BY <1>5, <1>8
    <2> HIDE DEF F, G
    <2>5. /\ quizzes' \in Quizzes /\ quizzes'.list = quizzes.list /\ quizzes'.done = F /\ quizzes'.tier = G
          /\ quizzes'.left = quizzes.left /\ quizzes'.wrong = quizzes.wrong
      BY ONLY <1>1, <2>2, <2>3, <2>4 DEF Quizzes
    <2>6. E \subseteq DOMAIN Q /\ D \subseteq DOMAIN Q /\ x = best_tier(Q, D)
      BY <1>1, <1>6 DEF graded, E
    <2>7. y = best_tier(Q, E)
      <3> DEFINE a == best_tier(Q, D)   b == best_tier(Q, E)
      <3>1. a \in Nat /\ (a = 0 \/ \E j \in D : Q[j].tier = a) /\ \A j \in D : Q[j].tier <= a
        BY <1>1, <2>6, BestTier
      <3>2. b \in Nat /\ (b = 0 \/ \E j \in E : Q[j].tier = b) /\ \A j \in E : Q[j].tier <= b
        BY <1>1, <2>6, BestTier
      <3>3. \A j \in E : Q[j].tier \in Nat
        BY <1>1, <2>6, QuizEntries
      <3> HIDE DEF a, b
      <3>4. a <= b /\ quiz.tier <= b
        BY <3>1, <3>2, <3>3 DEF E
      <3>5. b <= a \/ b = quiz.tier
        BY <3>1, <3>2, <3>3 DEF E
      <3>6. x = a
        BY <2>6 DEF a
      <3>7. y = b
        BY <1>7, <3>1, <3>2, <3>4, <3>5, <3>6 DEF y
      <3> QED BY <3>7 DEF b
    <2>8. graded(Q, E, y, l, w)
      BY <1>6, <2>6, <2>7 DEF graded
    <2> QED BY <1>1, <1>3, <2>2, <2>3, <2>5, <2>8 DEF QuizBooks, Q, l, w
  <1>9. CASE ~right
    <2>1. left \in Nat /\ left - 1 \in Nat /\ w[i] + 1 \in Nat
          /\ left - 1 + (w[i] + 1) = quiz.attempts
      <3>1. \/ l[i] = -1 /\ w[i] = 0 /\ quiz.attempts > 0
            \/ l[i] >= 0 /\ l[i] + w[i] = quiz.attempts
        BY <1>1, <1>6, <1>7 DEF graded
      <3>2. l[i] \in Int /\ w[i] \in Nat
        BY <1>2, <1>7
      <3> HIDE DEF quiz
      <3> QED BY ONLY <1>4, <1>7, <3>1, <3>2
    <2> HIDE DEF left
    <2>2. m \in [Ids -> Int] /\ z \in [Ids -> Nat] /\ m[i] = left - 1 /\ z[i] = w[i] + 1
          /\ \A j \in Ids \ {i} : m[j] = l[j] /\ z[j] = w[j]
      BY <1>2, <1>7, <2>1
    <2> HIDE DEF m, z
    <2> DEFINE F == [quizzes.left EXCEPT ![u] = m]   G == [quizzes.wrong EXCEPT ![u] = z]
    <2>3. F \in [Users -> [Ids -> Int]] /\ F[u] = m /\ \A v \in Users \ {u} : F[v] = quizzes.left[v]
      BY <1>1, <2>2 DEF Quizzes
    <2>4. G \in [Users -> [Ids -> Nat]] /\ G[u] = z /\ \A v \in Users \ {u} : G[v] = quizzes.wrong[v]
      BY <1>1, <2>2 DEF Quizzes
    <2>5. quizzes' = [quizzes EXCEPT !.left = F, !.wrong = G]
      BY <1>5, <1>9
    <2> HIDE DEF F, G
    <2>6. /\ quizzes' \in Quizzes /\ quizzes'.list = quizzes.list /\ quizzes'.left = F /\ quizzes'.wrong = G
          /\ quizzes'.done = quizzes.done /\ quizzes'.tier = quizzes.tier
      BY ONLY <1>1, <2>3, <2>4, <2>5 DEF Quizzes
    <2>7. graded(Q, D, x, m, z)
      <3>1. m[i] >= 0 /\ m[i] + z[i] = Q[i].attempts
        <4> HIDE DEF quiz
        <4>1. m[i] >= 0 /\ m[i] + z[i] = quiz.attempts
          BY ONLY <2>1, <2>2
        <4> QED BY <4>1 DEF quiz
      <3>2. \A j \in Ids : IF j \in DOMAIN Q THEN \/ m[j] = -1 /\ z[j] = 0
                                                  \/ m[j] >= 0 /\ m[j] + z[j] = Q[j].attempts
                          ELSE m[j] = -1 /\ z[j] = 0
        BY <1>1, <1>6, <2>2, <3>1 DEF graded
      <3> QED BY <1>6, <3>2 DEF graded
    <2> QED BY <1>1, <1>3, <2>3, <2>4, <2>6, <2>7 DEF QuizBooks, Q, D, x
  <1> QED BY <1>8, <1>9

-------------------------------------------------------------------------------
ForumInv ==
    /\ focus = "roadmap" => RoadmapBooks
    /\ focus = "tip" => TipBooks
    /\ focus = "quiz" => QuizBooks

\* Nobody has voted or answered at the start.
LEMMA ForumInvInit == RulesInit => ForumInv
  <1> SUFFICES ASSUME RulesInit PROVE ForumInv
    OBVIOUS
  <1>1. RoadmapInit /\ TipInit /\ QuizInit /\ now = 0
    BY DEF RulesInit, ForumInit, BaseInitWith
  <1>2. focus = "tip" => BaseInitWith(Purse) /\ Purse \in Nat
    BY BaseAssumption DEF RulesInit
  <1> QED BY <1>1, <1>2, RoadmapBooksInit, TipBooksInit, QuizBooksInit DEF ForumInv

\* Every step keeps the points, the votes and the tiers.
LEMMA ForumInvStep == ASSUME ForumInv, [RulesNext]_rules_vars PROVE ForumInv'
  <1>1. UNCHANGED focus
    BY DEF RulesNext, rules_vars
  <1>2. ASSUME focus = "roadmap" PROVE RoadmapBooks'
    <2>1. RoadmapBooks /\ now \in Nat
      BY <1>2 DEF ForumInv, RoadmapBooks
    <2>2. \/ RoadmapNext /\ UNCHANGED now
          \/ PoolMoves /\ UNCHANGED roadmap
          \/ UNCHANGED <<now, roadmap>>
      BY <1>2 DEF RulesNext, rules_vars, base_vars, forum_vars, ForumNext, AdminNext, RatesNext, PayoutNext
    <2>3. CASE RoadmapNext /\ UNCHANGED now
      BY <2>1, <2>3, AddItemKeeps, RemoveItemKeeps, VoteItemKeeps DEF RoadmapNext
    <2>4. CASE PoolMoves /\ UNCHANGED roadmap
      <3>1. now' \in Nat
        BY <2>1, <2>4, TickNat DEF PoolMoves, leave, join, TimePasses
      <3> QED BY <2>1, <2>4, <3>1 DEF RoadmapBooks
    <2>5. CASE UNCHANGED <<now, roadmap>>
      BY <2>1, <2>5 DEF RoadmapBooks
    <2> QED BY <2>2, <2>3, <2>4, <2>5
  <1>3. ASSUME focus = "tip" PROVE TipBooks'
    <2>1. TipBooks /\ now \in 0..MaxLedger
      BY <1>3 DEF ForumInv, TipBooks
    <2>2. \/ TipNext /\ UNCHANGED <<now, shares>>
          \/ TimePasses /\ UNCHANGED tips
          \/ UNCHANGED <<now, shares, tips>>
      BY <1>3 DEF RulesNext, rules_vars, base_vars, pool, forum_vars, ForumNext, AdminNext, RatesNext, PayoutNext
    <2>3. CASE TipNext /\ UNCHANGED <<now, shares>>
      BY <2>1, <2>3, SubmitTipKeeps, VoteTipKeeps, FinalizeTipKeeps DEF TipNext
    <2>4. CASE TimePasses /\ UNCHANGED tips
      <3>1. now' \in 0..MaxLedger /\ UNCHANGED shares
        BY <2>1, <2>4, BaseAssumption DEF TimePasses, tick, pool
      <3> QED BY <2>1, <2>4, <3>1 DEF TipBooks
    <2>5. CASE UNCHANGED <<now, shares, tips>>
      BY <2>1, <2>5 DEF TipBooks
    <2> QED BY <2>2, <2>3, <2>4, <2>5
  <1>4. ASSUME focus = "quiz" PROVE QuizBooks'
    <2>1. QuizBooks
      BY <1>4 DEF ForumInv
    <2>2. QuizNext \/ UNCHANGED quizzes
      BY <1>4 DEF RulesNext, rules_vars, forum_vars, ForumNext, AdminNext, RatesNext, PayoutNext
    <2>3. CASE QuizNext
      BY <2>1, <2>3, AddQuizKeeps, AnswerKeeps DEF QuizNext
    <2>4. CASE UNCHANGED quizzes
      BY <2>1, <2>4 DEF QuizBooks
    <2> QED BY <2>2, <2>3, <2>4
  <1> QED BY <1>1, <1>2, <1>3, <1>4 DEF ForumInv

\* Roadmap, tips and quizzes (roadmap_voting.rs, daily_community_tip.rs, stake_to_learn.rs): the votes of an item
\* are the points its voters have on it now and nobody's points exceed the budget, over
\* epochs, removals and re-allocations; the tips of a day carry exactly the votes cast that
\* day; a tier is the best of the quizzes completed, and the attempts are counted down.
THEOREM ForumsCountOnce == RulesSpec => []ForumVotesOnce
  <1>1. ForumInv => ForumVotesOnce
    <2>1. RoadmapBooks => points_live
      BY DEF RoadmapBooks, points_kept, points_on, points_live
    <2>2. TipBooks => tips_voted_once
      BY DEF TipBooks, day_counted, votes_of, tips_voted_once
    <2>3. QuizBooks => tiers_earned
      <3> SUFFICES ASSUME QuizBooks, NEW u \in Users
                   PROVE  /\ quizzes.tier[u] = Max({0} \cup {quizzes.list[i].tier : i \in quizzes.done[u]})
                          /\ \A i \in DOMAIN quizzes.list : quizzes.wrong[u][i] <= quizzes.list[i].attempts
        BY DEF tiers_earned
      <3> DEFINE Q == quizzes.list   l == quizzes.left[u]   w == quizzes.wrong[u]
      <3>1. graded(Q, quizzes.done[u], quizzes.tier[u], l, w) /\ Q \in Seq(Quiz) /\ Len(Q) <= MaxItems
            /\ l \in [Ids -> Int] /\ w \in [Ids -> Nat] /\ MaxItems \in Nat
        BY ForumAssumption DEF QuizBooks, Quizzes
      <3> HIDE DEF Q, l, w
      <3>2. quizzes.tier[u] = Max({0} \cup {Q[i].tier : i \in quizzes.done[u]})
        BY <3>1 DEF graded, best_tier
      <3>3. ASSUME NEW i \in DOMAIN Q PROVE w[i] <= Q[i].attempts
        <4>1. Q[i].attempts \in Nat /\ i \in Ids /\ l[i] \in Int /\ w[i] \in Nat
          BY <3>1, QuizEntries DEF Ids
        <4>2. (l[i] = -1 /\ w[i] = 0) \/ (l[i] >= 0 /\ l[i] + w[i] = Q[i].attempts)
          BY <3>1, <4>1 DEF graded
        <4> QED BY ONLY <4>1, <4>2
      <3> QED BY <3>2, <3>3 DEF Q, w
    <2> QED BY <2>1, <2>2, <2>3 DEF ForumInv, ForumVotesOnce
  <1> QED BY <1>1, ForumInvInit, ForumInvStep, PTL DEF RulesSpec, rules_vars

===============================================================================
