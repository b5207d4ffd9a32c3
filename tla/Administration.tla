----------------------------- MODULE Administration ----------------------------
(***************************************************************************)
(* Who may change the pool, and after how long: the administrator and the  *)
(* four ways its key changes hands, the three queues of delayed changes,   *)
(* the multisig group, roles and nonces; the notice a fee rise needs; and  *)
(* the community treasury with its withdrawal limit and spending votes.    *)
(***************************************************************************)
EXTENDS PoolBase

CONSTANTS
    Keys,           \* addresses that may come to hold authority
    RateValues,     \* reward rates, in basis points
    MaxRate,        \* MAX_RATE_BPS
    Delays,         \* delays in ledgers
    RecoveryDelay,  \* ADMIN_RECOVERY_DELAY_LEDGERS
    MaxQueue,       \* entries of a queue (5 in the code)
    MaxActions,     \* model bound on queued, announced and proposed changes
    Groups,         \* multisig groups, as lists that may repeat a key
    MinRunway, YearLedgers,     \* runway guard, and ledgers in a year
    FeeValues, MaxFee,          \* unstake fees proposed, and MAX_FEE_BPS
    VotedFees, MaxVotedFee,     \* unstake fees voted on, and MAX_UNSTAKE_FEE_BPS
    Notices,                    \* ledgers of notice a fee rise may need
    Revenues,                   \* fees a call brings in
    TreasuryLimits,     \* limits of the treasurer per period
    LimitPeriod,        \* their period
    LimitNotice,        \* notice for raising a limit
    ContributionBps     \* treasury_contribution_bps

ASSUME AdminAssumption ==
    /\ Keys # {} /\ IsFiniteSet(Keys) /\ Nobody \notin Keys
    /\ RateValues \subseteq Nat /\ MaxRate \in Nat
    /\ Delays \subseteq Nat /\ RecoveryDelay \in Nat
    /\ MaxQueue \in Nat /\ MaxActions \in Nat /\ Groups \subseteq Seq(Keys)
    /\ FeeValues \subseteq Nat /\ MaxFee \in Nat /\ Notices \subseteq Nat
    /\ VotedFees \subseteq Nat
    /\ Revenues \subseteq Nat /\ TreasuryLimits \subseteq Nat
    /\ LimitPeriod \in Nat /\ LimitNotice \in Nat
    /\ ContributionBps \in 0..BPS_DENOMINATOR

MAX_MULTISIG_ADMINS == 5

NoRecovery == [to |-> Nobody, at |-> NoLedger]
NoPlan     == [heir |-> Nobody, threshold |-> 0, last |-> NoLedger]

VARIABLES
    auth,       \* the admin key, the nominee, the emergency key, recovery and succession
    queues,     \* delayed changes: PendingActions, the timelock map, announcements
    settings,   \* what the changes change
    multisig,   \* the group and its proposals
    roles, nonces,
    fee,        \* the unstake fee and the change under notice
    treasury    \* community treasury, its limit and its spending proposals

admin_vars == <<auth, queues, settings, multisig, roles, nonces, fee, treasury>>

AuthInit ==
    auth = [admin |-> CHOOSE k \in Keys : TRUE, renounced |-> FALSE, pending |-> Nobody,
            emergency |-> Nobody, recovery |-> NoRecovery, plan |-> NoPlan]

QueueInit == queues = [actions |-> {}, timelocked |-> {}, announced |-> {}, next |-> 1, delay |-> 1]

SettingsInit == settings = [rate |-> 0, ceiling |-> MaxRate, paused |-> FALSE, minRunway |-> 0]

\* `ever' is history: whoever was a member of some group.
MultisigInit == multisig = [admins |-> <<>>, threshold |-> 0, proposals |-> <<>>, ever |-> {}]

\* get_admin: nobody once the authority is renounced, whatever key is stored.
has_admin == ~auth.renounced
is_admin(k) == has_admin /\ auth.admin = k

-------------------------------------------------------------------------------
\* Mutant: announced changes survive the change of administrator.
set_admin_announced(k) ==
    /\ auth' = [auth EXCEPT !.admin = k, !.pending = Nobody]
    /\ queues' = IF auth.admin \notin {k, Nobody}
                 THEN [queues EXCEPT !.actions = {}, !.timelocked = {}] ELSE queues

\* Every change of the key: the nominee is forgotten and all queued changes are dropped.
set_admin(k) ==
    /\ auth' = [auth EXCEPT !.admin = k, !.pending = Nobody]
    /\ queues' = IF auth.admin \notin {k, Nobody}
                 THEN [queues EXCEPT !.actions = {}, !.timelocked = {}, !.announced = {}] ELSE queues

propose_admin(k) ==
    /\ has_admin /\ k # auth.admin
    /\ auth' = [auth EXCEPT !.pending = k] /\ UNCHANGED queues

accept_admin(k) == has_admin /\ auth.pending = k /\ set_admin(k)

cancel_admin_proposal ==
    /\ has_admin /\ auth.pending # Nobody
    /\ auth' = [auth EXCEPT !.pending = Nobody] /\ UNCHANGED queues

transfer_admin(k) == has_admin /\ set_admin(k)

renounce_admin ==
    /\ has_admin
    /\ auth' = [auth EXCEPT !.renounced = TRUE, !.admin = Nobody, !.emergency = Nobody, !.pending = Nobody]
    /\ UNCHANGED queues

set_emergency_admin(k) == has_admin /\ auth' = [auth EXCEPT !.emergency = k] /\ UNCHANGED queues

\* Anyone proposes a recovery; the administrator has the whole delay to cancel it.
propose_admin_recovery(k) ==
    /\ has_admin /\ k # auth.admin /\ auth.recovery = NoRecovery
    /\ auth' = [auth EXCEPT !.recovery = [to |-> k, at |-> now + RecoveryDelay]] /\ UNCHANGED queues

cancel_admin_recovery ==
    /\ has_admin /\ auth.recovery # NoRecovery
    /\ auth' = [auth EXCEPT !.recovery = NoRecovery] /\ UNCHANGED queues

\* It does not ask whether the authority was renounced meanwhile, nor undoes that.
execute_admin_recovery ==
    /\ auth.recovery # NoRecovery /\ now >= auth.recovery.at
    /\ auth' = [auth EXCEPT !.admin = auth.recovery.to, !.pending = Nobody, !.recovery = NoRecovery]
    /\ queues' = IF auth.admin \notin {auth.recovery.to, Nobody}
                 THEN [queues EXCEPT !.actions = {}, !.timelocked = {}, !.announced = {}] ELSE queues

set_succession_plan(k, threshold) ==
    /\ has_admin /\ threshold > 0
    /\ auth' = [auth EXCEPT !.plan = [heir |-> k, threshold |-> threshold, last |-> now]]
    /\ UNCHANGED queues

\* touch_admin_activity has no caller: only the plan itself restarts the clock.
claim_succession ==
    /\ auth.plan # NoPlan /\ now - auth.plan.last > auth.plan.threshold
    /\ auth' = [auth EXCEPT !.admin = auth.plan.heir, !.pending = Nobody, !.plan = NoPlan]
    /\ queues' = IF auth.admin \notin {auth.plan.heir, Nobody}
                 THEN [queues EXCEPT !.actions = {}, !.timelocked = {}, !.announced = {}] ELSE queues

HandoverNext ==
    \/ \E k \in Keys :
           \/ propose_admin(k) \/ accept_admin(k) \/ transfer_admin(k) \/ set_emergency_admin(k)
           \/ propose_admin_recovery(k)
           \/ \E d \in Delays : set_succession_plan(k, d)
    \/ cancel_admin_proposal \/ renounce_admin
    \/ cancel_admin_recovery \/ execute_admin_recovery \/ claim_succession

-------------------------------------------------------------------------------
entry(kind, d) == [id |-> queues.next, kind |-> kind, by |-> auth.admin, at |-> now + d]
Kinds == {"Pause", "Unpause", "SetRewardRate"}

set_timelock_delay(d) == has_admin /\ queues' = [queues EXCEPT !.delay = d] /\ UNCHANGED settings

queue_action(kind) ==
    /\ has_admin /\ Cardinality(queues.actions) < MaxQueue /\ queues.next <= MaxActions
    /\ queues' = [queues EXCEPT !.actions = @ \cup {entry(kind, queues.delay)}, !.next = @ + 1]
    /\ UNCHANGED settings

cancel_action(a) ==
    /\ has_admin /\ a \in queues.actions
    /\ queues' = [queues EXCEPT !.actions = @ \ {a}] /\ UNCHANGED settings

\* The projected runway of the reward pool at a rate, against the minimum.
enforce_runway(rate) ==
    \/ settings.minRunway = 0 \/ rate = 0 \/ totalDeposited = 0
    \/ (rewardPool * 10000 * YearLedgers) \div (rate * totalDeposited) >= settings.minRunway

\* dispatch_admin_action: the only rate change that looks at the ceiling.
dispatch_admin_action(kind) ==
    CASE kind = "Pause"   -> settings' = [settings EXCEPT !.paused = TRUE]
      [] kind = "Unpause" -> settings' = [settings EXCEPT !.paused = FALSE]
      [] OTHER -> \E r \in RateValues : /\ enforce_runway(r) /\ r <= settings.ceiling
                                        /\ settings' = [settings EXCEPT !.rate = r]

execute_action(a) ==
    /\ has_admin /\ a \in queues.actions /\ now >= a.at
    /\ dispatch_admin_action(a.kind)
    /\ queues' = [queues EXCEPT !.actions = @ \ {a}]

\* The second timelock only keeps the entry; executing it changes nothing else.
queue_admin_action(kind) ==
    /\ has_admin /\ queues.next <= MaxActions
    /\ queues' = [queues EXCEPT !.timelocked = @ \cup {entry(kind, queues.delay)}, !.next = @ + 1]
    /\ UNCHANGED settings

execute_admin_action(a) ==
    /\ has_admin /\ a \in queues.timelocked /\ now >= a.at
    /\ queues' = [queues EXCEPT !.timelocked = @ \ {a}] /\ UNCHANGED settings

cancel_admin_action(a) ==
    /\ has_admin /\ a \in queues.timelocked
    /\ queues' = [queues EXCEPT !.timelocked = @ \ {a}] /\ UNCHANGED settings

announce_config_change(d) ==
    /\ has_admin /\ queues.next <= MaxActions
    /\ queues' = [queues EXCEPT !.announced = @ \cup {entry("Announced", d)}, !.next = @ + 1]
    /\ UNCHANGED settings

cancel_config_change(a) ==
    /\ has_admin /\ a \in queues.announced
    /\ queues' = [queues EXCEPT !.announced = @ \ {a}] /\ UNCHANGED settings

execute_config_change(a) ==
    /\ has_admin /\ a \in queues.announced /\ now >= a.at
    /\ queues' = [queues EXCEPT !.announced = @ \ {a}] /\ UNCHANGED settings

QueueNext ==
    \/ \E d \in Delays : set_timelock_delay(d) \/ announce_config_change(d)
    \/ \E kind \in Kinds : queue_action(kind) \/ queue_admin_action(kind)
    \/ \E a \in queues.actions : cancel_action(a) \/ execute_action(a)
    \/ \E a \in queues.timelocked : execute_admin_action(a) \/ cancel_admin_action(a)
    \/ \E a \in queues.announced : cancel_config_change(a) \/ execute_config_change(a)

\* No change outlives the administrator who queued it.
queues_owned ==
    \A a \in queues.actions \cup queues.timelocked \cup queues.announced :
        has_admin => a.by = auth.admin

-------------------------------------------------------------------------------
\* Direct setters of the rate, none of which looks at the ceiling.
set_rate_bps(r) ==
    /\ has_admin /\ r <= MaxRate
    /\ settings' = [settings EXCEPT !.rate = r] /\ UNCHANGED <<multisig, roles, nonces>>

holds_role(role, k) == is_admin(k) \/ <<role, k>> \in roles

\* runway_guard::apply_reward_rate behind the RateSetter role.
role_set_reward_rate_bps(k, r) ==
    /\ holds_role("RateSetter", k) /\ r <= MaxRate /\ enforce_runway(r)
    /\ settings' = [settings EXCEPT !.rate = r] /\ UNCHANGED <<multisig, roles, nonces>>

execute_admin_action_with_nonce(k, kind, nonce) ==
    /\ is_admin(k) /\ nonce = nonces[k] /\ nonce < MaxActions
    /\ settings' \in CASE kind = "Pause"   -> {[settings EXCEPT !.paused = TRUE]}
                       [] kind = "Unpause" -> {[settings EXCEPT !.paused = FALSE]}
                       [] OTHER -> {[settings EXCEPT !.rate = r] : r \in RateValues}
    /\ nonces' = [nonces EXCEPT ![k] = @ + 1] /\ UNCHANGED <<multisig, roles>>

set_max_reward_rate(r) ==
    /\ has_admin /\ r > 0 /\ r <= settings.ceiling /\ r >= settings.rate
    /\ settings' = [settings EXCEPT !.ceiling = r] /\ UNCHANGED <<multisig, roles, nonces>>

set_min_runway_ledgers ==
    /\ has_admin
    /\ settings' = [settings EXCEPT !.minRunway = MinRunway] /\ UNCHANGED <<multisig, roles, nonces>>

grant_role(role, k) == has_admin /\ roles' = roles \cup {<<role, k>>} /\ UNCHANGED <<settings, multisig, nonces>>
revoke_role(role, k) == has_admin /\ roles' = roles \ {<<role, k>>} /\ UNCHANGED <<settings, multisig, nonces>>
renounce_role(role, k) ==
    <<role, k>> \in roles /\ roles' = roles \ {<<role, k>>} /\ UNCHANGED <<settings, multisig, nonces>>

\* By anyone, any number of times, any group; open proposals keep the approvals of earlier
\* groups and are executed against the threshold of the latest.
initialize_multisig(admins, threshold) ==
    /\ Len(admins) \in 1..MAX_MULTISIG_ADMINS /\ threshold \in 1..Len(admins)
    /\ multisig' = [multisig EXCEPT !.admins = admins, !.threshold = threshold,
                                    !.ever = multisig.ever \cup ToSet(admins)]
    /\ UNCHANGED <<settings, roles, nonces>>

is_member(k) == k \in ToSet(multisig.admins)

\* `asked' is history: the threshold a proposal was executed against.
propose_action(k, kind) ==
    /\ is_member(k) /\ Len(multisig.proposals) < MaxActions
    /\ multisig' = [multisig EXCEPT !.proposals =
            Append(@, [kind |-> kind, approvals |-> <<k>>, executed |-> FALSE, asked |-> 0])]
    /\ UNCHANGED <<settings, roles, nonces>>

\* Mutant: an approval may be repeated.
approve_action_again(k, i) ==
    /\ is_member(k) /\ ~multisig.proposals[i].executed /\ Len(multisig.proposals[i].approvals) < 2
    /\ multisig' = [multisig EXCEPT !.proposals[i].approvals = Append(@, k)]
    /\ UNCHANGED <<settings, roles, nonces>>

approve_action(k, i) ==
    /\ is_member(k) /\ ~multisig.proposals[i].executed
    /\ k \notin ToSet(multisig.proposals[i].approvals)
    /\ multisig' = [multisig EXCEPT !.proposals[i].approvals = Append(@, k)]
    /\ UNCHANGED <<settings, roles, nonces>>

execute_proposal(i) ==
    /\ ~multisig.proposals[i].executed
    /\ Len(multisig.proposals[i].approvals) >= multisig.threshold
    /\ dispatch_admin_action(multisig.proposals[i].kind)
    /\ multisig' = [multisig EXCEPT !.proposals[i].executed = TRUE, !.proposals[i].asked = multisig.threshold]
    /\ UNCHANGED <<roles, nonces>>

AuthorityNext ==
    \/ \E r \in RateValues : set_rate_bps(r) \/ set_max_reward_rate(r)
           \/ \E k \in Keys : role_set_reward_rate_bps(k, r)
    \/ set_min_runway_ledgers
    \/ \E k \in Keys : \/ grant_role("RateSetter", k) \/ revoke_role("RateSetter", k)
                       \/ renounce_role("RateSetter", k)
                       \/ \E kind \in Kinds, n \in 0..MaxActions : execute_admin_action_with_nonce(k, kind, n)
                       \/ \E kind \in Kinds : propose_action(k, kind)
                       \/ \E i \in DOMAIN multisig.proposals : approve_action(k, i)
    \/ \E g \in Groups, t \in 1..MAX_MULTISIG_ADMINS : initialize_multisig(g, t)
    \/ \E i \in DOMAIN multisig.proposals : execute_proposal(i)

\* What was executed, as many different members have approved as the threshold in force at
\* its execution asked, though they may have been members of different groups.
approvals_distinct ==
    \A i \in DOMAIN multisig.proposals :
        LET p == multisig.proposals[i]
        IN  p.executed => p.asked >= 1 /\ Cardinality(ToSet(p.approvals) \cap multisig.ever) >= p.asked

-------------------------------------------------------------------------------
\* The fee charged, the notice in force and the change under notice: due `at', and for the
\* property below the ledger it was announced `since' and the notice it was then to `wait'.
NoChange == [bps |-> 0, at |-> NoLedger, since |-> 0, wait |-> 0]
FeeInit == fee = [bps |-> 0, notice |-> 0, pending |-> NoChange]

set_fee_notice_ledgers(n) == fee' = [fee EXCEPT !.notice = n]

\* settle_pending_fee_change: a change whose notice is over becomes the fee.
settled ==
    IF fee.pending # NoChange /\ now >= fee.pending.at
    THEN [fee EXCEPT !.bps = fee.pending.bps, !.pending = NoChange] ELSE fee

\* Mutant: a second proposal keeps the date of the first.
propose_fee_change_dated(rate) ==
    LET f == settled
    IN  /\ rate <= MaxFee
        /\ fee' = IF rate <= f.bps \/ f.notice = 0
                  THEN [f EXCEPT !.bps = rate, !.pending = NoChange]
                  ELSE [f EXCEPT !.pending = [bps |-> rate, since |-> now, wait |-> f.notice,
                          at |-> IF f.pending = NoChange THEN now + f.notice ELSE f.pending.at]]

\* Lower at once, higher after the notice; a new proposal replaces a pending one.
propose_fee_change(rate) ==
    LET f == settled
    IN  /\ rate <= MaxFee
        /\ fee' = IF rate <= f.bps \/ f.notice = 0
                  THEN [f EXCEPT !.bps = rate, !.pending = NoChange]
                  ELSE [f EXCEPT !.pending = [bps |-> rate, since |-> now, wait |-> f.notice, at |-> now + f.notice]]

\* A vote on the unstake fee writes it without notice, and leaves a change under notice
\* where it is: enact_proposal below its own limit, the two kinds of ballots at any rate.
enact_voted_fee(rate)  == rate <= MaxVotedFee /\ fee' = [fee EXCEPT !.bps = rate]
enact_ballot_fee(rate) == fee' = [fee EXCEPT !.bps = rate]

FeeNext ==
    \/ \E n \in Notices : set_fee_notice_ledgers(n)
    \/ \E b \in FeeValues : propose_fee_change(b)
    \/ \E b \in VotedFees : enact_voted_fee(b) \/ enact_ballot_fee(b)

\* The fee is the one announced last, and it was announced as long before as the notice in
\* force then asked, however the notice has changed since.
notice_given ==
    /\ fee.pending # NoChange /\ fee'.bps <= fee.pending.bps
    /\ fee.pending.wait > 0 /\ now - fee.pending.since >= fee.pending.wait

rises_under_notice == fee'.bps > fee.bps /\ fee.notice > 0

\* A fee that rises under notice was announced, or voted.
fee_announced ==
    rises_under_notice => notice_given \/ \E b \in VotedFees : enact_voted_fee(b) \/ enact_ballot_fee(b)

-------------------------------------------------------------------------------
\* The community treasury inside the contract, the treasurer's limit, spending votes.
TreasuryInit ==
    treasury = [balance |-> 0, limit |-> 0, period |-> 0, setAt |-> 0, withdrawn |-> 0, start |-> 0,
                spending |-> <<>>]

\* Fee revenue that stays in the contract: part of it is the community's.
route_fee_revenue(u, amount) ==
    /\ pull(u, amount)
    /\ treasury' = [treasury EXCEPT !.balance = @ + bps(amount, ContributionBps)]
    /\ rewardPool' = rewardPool + amount - bps(amount, ContributionBps)

set_treasury_withdrawal_limit(limit, period) ==
    /\ limit > 0 => period > 0
    /\ limit > treasury.limit /\ treasury.limit > 0 => now >= treasury.setAt + LimitNotice
    /\ treasury' = [treasury EXCEPT !.limit = limit, !.period = period, !.setAt = now]
    /\ UNCHANGED <<wallet, held, rewardPool>>

window_over == treasury.period = 0 \/ now - treasury.start >= treasury.period

\* Mutant: a withdrawal that does not lower the treasury.
withdraw_treasury_kept(amount) ==
    /\ amount > 0 /\ amount <= treasury.balance
    /\ push(Admin, amount)
    /\ treasury' = [treasury EXCEPT !.withdrawn = amount]
    /\ UNCHANGED rewardPool

withdraw_treasury(amount) ==
    LET used == IF window_over THEN 0 ELSE treasury.withdrawn
    IN  /\ amount > 0 /\ amount <= treasury.balance
        /\ treasury.limit > 0 => used + amount <= treasury.limit
        /\ push(Admin, amount)
        /\ treasury' = IF treasury.limit = 0 THEN [treasury EXCEPT !.balance = @ - amount]
                       ELSE [treasury EXCEPT !.balance = @ - amount, !.withdrawn = used + amount,
                                             !.start = IF window_over THEN now ELSE @]
        /\ UNCHANGED rewardPool

propose_spending(u, amount, duration) ==
    /\ shares[u] > 0 /\ duration > 0 /\ Len(treasury.spending) < MaxActions
    /\ treasury' = [treasury EXCEPT !.spending = Append(@, [amount |-> amount, for |-> 0, against |-> 0,
                        deadline |-> now + duration, executed |-> FALSE, voters |-> {}])]
    /\ UNCHANGED <<wallet, held, rewardPool>>

vote_spending(u, i, support) ==
    LET p     == treasury.spending[i]
        voted == [p EXCEPT !.for = @ + IF support THEN amount_of(u) ELSE 0,
                           !.against = @ + IF support THEN 0 ELSE amount_of(u), !.voters = @ \cup {u}]
    IN  /\ ~p.executed /\ now <= p.deadline /\ u \notin p.voters /\ shares[u] > 0
        /\ treasury' = [treasury EXCEPT !.spending[i] = voted]
        /\ UNCHANGED <<wallet, held, rewardPool>>

\* Outside the treasurer's limit.
execute_spending(u, i) ==
    LET p == treasury.spending[i]
    IN  /\ ~p.executed /\ now > p.deadline /\ p.for > p.against /\ p.amount <= treasury.balance
        /\ push(u, p.amount)
        /\ treasury' = [treasury EXCEPT !.balance = @ - p.amount, !.spending[i].executed = TRUE]
        /\ UNCHANGED rewardPool

TreasuryNext ==
    \/ \E u \in Users, a \in Revenues : route_fee_revenue(u, a)
    \/ \E u \in Users, a \in Amounts : \E d \in Durations : propose_spending(u, a, d)
    \/ \E l \in TreasuryLimits : set_treasury_withdrawal_limit(l, LimitPeriod)
    \/ \E a \in Amounts : withdraw_treasury(a)
    \/ \E u \in Users, i \in DOMAIN treasury.spending :
           execute_spending(u, i) \/ \E s \in BOOLEAN : vote_spending(u, i, s)

\* Treasury and spending votes only ever pay what the community put in.
treasury_covered == held = totalDeposited + rewardPool + treasury.balance

-------------------------------------------------------------------------------
AdminInit ==
    /\ AuthInit /\ QueueInit /\ SettingsInit /\ MultisigInit /\ FeeInit /\ TreasuryInit
    /\ roles = {} /\ nonces = [k \in Keys |-> 0]

AdminNext(f) ==
    \/ /\ f = "handover"
       /\ \/ HandoverNext /\ UNCHANGED settings
          \/ QueueNext /\ UNCHANGED auth
       /\ UNCHANGED <<base_vars, multisig, roles, nonces, fee, treasury>>
    \/ f = "authority" /\ AuthorityNext /\ UNCHANGED <<base_vars, auth, queues, fee, treasury>>
    \/ f = "fee" /\ FeeNext /\ UNCHANGED <<base_vars, auth, queues, settings, multisig, roles, nonces, treasury>>
    \/ /\ f = "treasury" /\ TreasuryNext
       /\ UNCHANGED <<now, pool, auth, queues, settings, multisig, roles, nonces, fee>>
    \/ f \in {"handover", "fee", "treasury"} /\ TimePasses /\ UNCHANGED admin_vars

===============================================================================
