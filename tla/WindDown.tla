-------------------------------- MODULE WindDown --------------------------------
(***************************************************************************)
(* Ways out of the pool that do not go through the owner's unstake: the    *)
(* staged sunset with forced resolution, the migration to a successor      *)
(* pool, notes of debt on a position, and the deployment of idle tokens to *)
(* a yield protocol.  Gifted positions are here because their recipients   *)
(* are never entered in the list of stakers the sunset goes through.       *)
(***************************************************************************)
EXTENDS PoolBase

CONSTANTS
    Settlements,    \* rewards that accrue_rewards may settle in a call
    Earners,        \* users that earn rewards
    MaxSettled,     \* model bound on the rewards settled for a user
    Lumps,          \* amounts staked and given
    WindHorizon,    \* model bound on the ledger number here
    GiftPairs,      \* pairs of sender and recipient of gifts
    FaceValues,     \* face values of notes
    MaxNotes,       \* model bound on the notes ever minted
    YieldProtocols, \* contracts the operator registers
    YieldBuffer,    \* YIELD_BUFFER_BPS
    MaxYield        \* model bound on the yield the protocols pay

Stages == {"Active", "SunsetAnnounced", "GracePeriodActive", "ForceResolutionActive", "Closed"}
NoNote == [issuer |-> Nobody, holder |-> Nobody, face |-> 0]

VARIABLES
    sunset,     \* SunsetState, grace period end, migration target, the stakers' list and count
    settled,    \* AccruedReward of each user, and what became of the rewards settled
    notes,      \* DebtNFT by id, and the note of each issuer
    farm        \* yield protocol, YieldDeployed, and what each protocol holds
wind_vars == <<sunset, settled, notes, farm>>

\* `gifted' (open positions that were gifts) and `gone' (users ever resolved or migrated) are
\* history.
SunsetInit ==
    sunset = [stage |-> "Active", graceEnd |-> 0, target |-> FALSE,
              stakers |-> {u \in Users : Staked[u] > 0}, count |-> Cardinality({u \in Users : Staked[u] > 0}),
              gifted |-> {}, gone |-> {}]

\* `earned', `paid' and `lost' are history.
SettledInit ==
    settled = [due |-> [u \in Users |-> 0], earned |-> [u \in Users |-> 0],
               paid |-> [u \in Users |-> 0], lost |-> [u \in Users |-> 0]]

NotesInit == notes = [byId |-> <<>>, ofUser |-> [u \in Users |-> 0]]

\* `gains' is history.
FarmInit == farm = [protocol |-> Nobody, deployed |-> 0, at |-> [p \in YieldProtocols |-> 0], gains |-> 0]

WindDownInit == SunsetInit /\ SettledInit /\ NotesInit /\ FarmInit

-------------------------------------------------------------------------------
\* What accrue_rewards leaves: n more rewards of u, priced by the rate policies.
accrue_for(u, n) == [settled EXCEPT !.due[u] = @ + n, !.earned[u] = @ + n]

can_accrue(u, n) == n = 0 \/ (u \in Earners /\ settled.earned[u] + n <= MaxSettled)

paid_out(s, u) == [s EXCEPT !.due[u] = 0, !.paid[u] = @ + s.due[u]]

\* The position of u is closed: list and count follow.
remove_from_staker_list(u) ==
    [sunset EXCEPT !.stakers = @ \ {u}, !.count = IF @ > 0 THEN @ - 1 ELSE 0, !.gifted = @ \ {u}]

close_shares(u) ==
    /\ shares' = [shares EXCEPT ![u] = 0]
    /\ totalShares' = totalShares - shares[u]
    /\ totalDeposited' = totalDeposited - amount_of(u)

require_not_sunsetting == sunset.stage \in {"Active", "SunsetAnnounced"}

announce_sunset(grace) ==
    /\ sunset.stage = "Active"
    /\ sunset' = [sunset EXCEPT !.stage = "SunsetAnnounced", !.graceEnd = now + grace]
    /\ UNCHANGED <<base_vars, settled, notes, farm>>

start_grace_period ==
    /\ sunset.stage = "SunsetAnnounced"
    /\ sunset' = [sunset EXCEPT !.stage = "GracePeriodActive"]
    /\ UNCHANGED <<base_vars, settled, notes, farm>>

start_force_resolution ==
    /\ sunset.stage = "GracePeriodActive" /\ now >= sunset.graceEnd
    /\ sunset' = [sunset EXCEPT !.stage = "ForceResolutionActive"]
    /\ UNCHANGED <<base_vars, settled, notes, farm>>

\* Mutant: the rewards paid with the principal stay accrued.
force_resolve_position_kept(u, n) ==
    LET s == accrue_for(u, n)
    IN  /\ sunset.stage = "ForceResolutionActive" /\ shares[u] > 0 /\ can_accrue(u, n)
        /\ rewardPool >= s.due[u]
        /\ rewardPool' = rewardPool - s.due[u]
        /\ push(u, amount_of(u) + s.due[u])
        /\ close_shares(u)
        /\ settled' = [s EXCEPT !.paid[u] = @ + s.due[u]]
        /\ sunset' = [remove_from_staker_list(u) EXCEPT !.gone = @ \cup {u}]
        /\ UNCHANGED <<now, notes, farm>>

\* Principal and rewards, no fee, no penalty; no look at a note on the position.  A reward
\* pool too small for the rewards fails the whole call.
force_resolve_position(u, n) ==
    LET s == accrue_for(u, n)
    IN  /\ sunset.stage = "ForceResolutionActive" /\ shares[u] > 0 /\ can_accrue(u, n)
        /\ rewardPool >= s.due[u]
        /\ rewardPool' = rewardPool - s.due[u]
        /\ push(u, amount_of(u) + s.due[u])
        /\ close_shares(u)
        /\ settled' = paid_out(s, u)
        /\ sunset' = [remove_from_staker_list(u) EXCEPT !.gone = @ \cup {u}]
        /\ UNCHANGED <<now, notes, farm>>

\* Only the listed stakers are looked at.
close_pool ==
    /\ sunset.stage = "ForceResolutionActive"
    /\ \A u \in sunset.stakers : shares[u] = 0
    /\ sunset' = [sunset EXCEPT !.stage = "Closed"]
    /\ UNCHANGED <<base_vars, settled, notes, farm>>

set_migration_target ==
    /\ ~sunset.target
    /\ sunset' = [sunset EXCEPT !.target = TRUE]
    /\ UNCHANGED <<base_vars, settled, notes, farm>>

\* Neither pause, sunset stage nor notes are looked at.  Rewards the pool cannot pay are
\* dropped.  The principal passes through the wallet into the target pool.
migrate_to_new_pool(u, n) ==
    LET s     == accrue_for(u, n)
        pays  == rewardPool >= s.due[u]
        wages == IF pays THEN s.due[u] ELSE 0
    IN  /\ sunset.target /\ shares[u] > 0 /\ can_accrue(u, n)
        /\ held >= amount_of(u) + wages
        /\ wallet' = [wallet EXCEPT ![u] = @ + wages]
        /\ held' = held - amount_of(u) - wages
        /\ rewardPool' = rewardPool - wages
        /\ close_shares(u)
        /\ settled' = IF pays THEN paid_out(s, u) ELSE [s EXCEPT !.due[u] = 0, !.lost[u] = @ + s.due[u]]
        /\ sunset' = [remove_from_staker_list(u) EXCEPT !.gone = @ \cup {u}]
        /\ UNCHANGED <<now, notes, farm>>

\* The recipient is counted, but not entered in the list.
gift_stake(sender, recipient, amount) ==
    /\ require_not_sunsetting /\ shares[recipient] = 0
    /\ pull(sender, amount) /\ mint_to(recipient, amount)
    /\ sunset' = [sunset EXCEPT !.count = @ + 1, !.gifted = @ \cup {recipient}]
    /\ UNCHANGED <<now, rewardPool, settled, notes, farm>>

do_stake(u, amount, n) ==
    /\ require_not_sunsetting
    /\ IF shares[u] > 0 THEN can_accrue(u, n) ELSE n = 0
    /\ pull(u, amount) /\ mint_to(u, amount)
    /\ settled' = accrue_for(u, n)
    /\ sunset' = IF shares[u] > 0 THEN sunset
                 ELSE [sunset EXCEPT !.stakers = @ \cup {u}, !.count = @ + 1]
    /\ UNCHANGED <<now, rewardPool, notes, farm>>

has_debt_nft(u) == notes.ofUser[u] # 0

\* Mutant: a note on the position does not stop its owner.
do_unstake_noted(u, n) ==
    /\ shares[u] > 0 /\ can_accrue(u, n)
    /\ push(u, amount_of(u)) /\ close_shares(u)
    /\ settled' = accrue_for(u, n)
    /\ sunset' = remove_from_staker_list(u)
    /\ UNCHANGED <<now, rewardPool, notes, farm>>

\* do_unstake_to of the whole position: the rewards settled stay claimable.
do_unstake(u, n) ==
    /\ ~has_debt_nft(u)
    /\ shares[u] > 0 /\ can_accrue(u, n)
    /\ push(u, amount_of(u)) /\ close_shares(u)
    /\ settled' = accrue_for(u, n)
    /\ sunset' = remove_from_staker_list(u)
    /\ UNCHANGED <<now, rewardPool, notes, farm>>

\* Claims stay open at every stage.
claim_due(u) ==
    /\ settled.due[u] > 0 /\ rewardPool >= settled.due[u]
    /\ rewardPool' = rewardPool - settled.due[u]
    /\ push(u, settled.due[u])
    /\ settled' = paid_out(settled, u)
    /\ UNCHANGED <<now, pool, sunset, notes, farm>>

-------------------------------------------------------------------------------
mint_debt_nft(u, face) ==
    /\ Len(notes.byId) < MaxNotes
    /\ face > 0 /\ face <= amount_of(u) /\ ~has_debt_nft(u)
    /\ notes' = [byId |-> Append(notes.byId, [issuer |-> u, holder |-> u, face |-> face]),
                 ofUser |-> [notes.ofUser EXCEPT ![u] = Len(notes.byId) + 1]]
    /\ UNCHANGED <<base_vars, sunset, settled, farm>>

\* The issuer pays the face value out of the wallet, whatever the expiry of the note.
burn_debt_nft(id) ==
    LET note == notes.byId[id]
    IN  /\ note # NoNote /\ wallet[note.issuer] >= note.face
        /\ wallet' = [wallet EXCEPT ![note.issuer] = @ - note.face, ![note.holder] = @ + note.face]
        /\ notes' = [notes EXCEPT !.byId[id] = NoNote, !.ofUser[note.issuer] = 0]
        /\ UNCHANGED <<now, held, pool, rewardPool, sunset, settled, farm>>

transfer_debt_nft(id, to) ==
    /\ notes.byId[id] # NoNote
    /\ notes' = [notes EXCEPT !.byId[id].holder = to]
    /\ UNCHANGED <<base_vars, sunset, settled, farm>>

-------------------------------------------------------------------------------
set_yield_protocol(p) ==
    /\ farm' = [farm EXCEPT !.protocol = p]
    /\ UNCHANGED <<base_vars, sunset, settled, notes>>

\* The whole balance counts as idle, rewards and other features' tokens included.
available_for_yield == held - bps(totalDeposited, YieldBuffer)

deploy_to_yield(amount) ==
    /\ farm.protocol # Nobody /\ amount <= available_for_yield
    /\ held' = held - amount
    /\ farm' = [farm EXCEPT !.deployed = @ + amount, !.at[farm.protocol] = @ + amount]
    /\ UNCHANGED <<now, wallet, pool, rewardPool, sunset, settled, notes>>

\* Mutant: what came back is taken off, yield included.
withdraw_from_yield_returned(amount, gain) ==
    /\ farm.protocol # Nobody /\ amount <= farm.deployed
    /\ farm.at[farm.protocol] >= amount /\ farm.gains + gain <= MaxYield
    /\ held' = held + amount + gain
    /\ farm' = [farm EXCEPT !.deployed = @ - amount - gain, !.at[farm.protocol] = @ - amount, !.gains = @ + gain]
    /\ UNCHANGED <<now, wallet, pool, rewardPool, sunset, settled, notes>>

\* The protocol of the moment is asked: it pays what was deposited there, with its yield.
withdraw_from_yield(amount, gain) ==
    /\ farm.protocol # Nobody /\ amount <= farm.deployed
    /\ farm.at[farm.protocol] >= amount /\ farm.gains + gain <= MaxYield
    /\ held' = held + amount + gain
    /\ farm' = [farm EXCEPT !.deployed = @ - amount, !.at[farm.protocol] = @ - amount, !.gains = @ + gain]
    /\ UNCHANGED <<now, wallet, pool, rewardPool, sunset, settled, notes>>

-------------------------------------------------------------------------------
PositionTurns ==
    \/ \E u \in Users, n \in Settlements :
           \/ do_unstake(u, n) \/ migrate_to_new_pool(u, n)
           \/ \E a \in Lumps : do_stake(u, a, n)
    \/ set_migration_target

SunsetMoves ==
    \/ \E g \in Durations : announce_sunset(g)
    \/ start_grace_period \/ start_force_resolution \/ close_pool
    \/ \E u \in Users : claim_due(u) \/ \E n \in Settlements : force_resolve_position(u, n)
    \/ \E p \in GiftPairs, a \in Lumps : gift_stake(p[1], p[2], a)
    \/ PositionTurns

NoteMoves ==
    \/ \E u \in Users, f \in FaceValues : mint_debt_nft(u, f)
    \/ \E id \in DOMAIN notes.byId : burn_debt_nft(id) \/ \E u \in Users : transfer_debt_nft(id, u)
    \/ PositionTurns

YieldMoves ==
    \/ \E p \in YieldProtocols : set_yield_protocol(p)
    \/ \E a \in Amounts : deploy_to_yield(a) \/ \E g \in 0..MaxYield : withdraw_from_yield(a, g)
    \/ (\E u \in Users : leave(u) \/ \E a \in Amounts : join(u, a)) /\ UNCHANGED wind_vars

WindTick == now < WindHorizon /\ TimePasses /\ UNCHANGED wind_vars

-------------------------------------------------------------------------------
\* The stakers' list and count know every position but the gifts, so that a closed pool
\* holds nothing but gifts, and every reward was paid, is due, or was dropped by a migration.
resolved_whole ==
    /\ held = totalDeposited + rewardPool
    /\ sunset.stakers = {u \in Users : shares[u] > 0} \ sunset.gifted
    /\ sunset.count = Cardinality({u \in Users : shares[u] > 0})
    /\ sunset.stage = "Closed" => {u \in Users : shares[u] > 0} \subseteq sunset.gifted
    /\ \A u \in Users : settled.earned[u] = settled.due[u] + settled.paid[u] + settled.lost[u]

\* A note is indexed under its issuer, whoever holds it, and the position behind it is
\* worth its face value unless the position was migrated or resolved.
notes_backed ==
    /\ \A u \in Users : {id \in DOMAIN notes.byId : notes.byId[id].issuer = u} = {notes.ofUser[u]} \ {0}
    /\ \A u \in Users : has_debt_nft(u) /\ u \notin sunset.gone =>
           amount_of(u) >= notes.byId[notes.ofUser[u]].face

\* What is deployed is with the protocols, registered now or before, and nothing but yield
\* makes the difference between the tokens and the books.
farm_accounted ==
    /\ farm.deployed = sum(farm.at)
    /\ held + farm.deployed = totalDeposited + rewardPool + farm.gains

===============================================================================
