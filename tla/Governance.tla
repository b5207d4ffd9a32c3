------------------------------- MODULE Governance ------------------------------
(***************************************************************************)
(* Stake-weighted proposals on pool parameters: the bond, the vote (alone, *)
(* in a batch, through a delegate), the two vetoes, cancellation, the      *)
(* execution delay and the enactment that settles the bond.                *)
(* Weights follow the stake of the moment; stakers come and go meanwhile.  *)
(***************************************************************************)
EXTENDS PoolBase

CONSTANTS
    Parameters,         \* ProposableParam
    ParamValues,        \* proposed values
    ParamMax,           \* the largest value enactment accepts
    MaxOpenProposals,   \* MAX_OPEN_PROPOSALS
    MaxProposals,       \* model bound on the ids
    GovRules,           \* sets of values the administrator's setters choose from
    InitialRules,       \* settings made before the behaviour starts
    MaxSettings,        \* model bound on later calls of the setters
    MaxBatch            \* MAX_BATCH_VOTES

ASSUME GovAssumption ==
    /\ GovRules.delays \subseteq Nat /\ GovRules.limits \subseteq Nat /\ GovRules.bonds \subseteq Nat
    /\ GovRules.cutoffs \subseteq Nat /\ GovRules.quorums \subseteq Nat
    /\ GovRules.modes \subseteq {"Linear", "Quadratic"}
    /\ InitialRules \subseteq
           [delay : Nat, limit : Nat, vetoes : Nat, bond : Nat, cutoff : Nat, minStake : Nat, quorum : Nat,
            rules : [quorum : Nat, threshold : Nat], vetoBps : Nat, mode : {"Linear", "Quadratic"},
            changes : Nat]

Guardian == Admin

VARIABLES
    gov,            \* the settings
    params,         \* the governed parameters
    proposals,      \* GovernanceProposal by id, with its meta, snapshot and receipts
    openCount,      \* open proposals
    voteDelegate,   \* delegate of a user, or Nobody
    weightSnapshot, \* DelegatedWeightSnapshot
    delegatedWeight \* DelegatedVoteWeight

gov_vars == <<gov, params, proposals, openCount, voteDelegate, weightSnapshot, delegatedWeight>>

NoParams == [quorum |-> 0, threshold |-> 0]
NoVote   == [support |-> FALSE, weight |-> 0]

\* What is in force before any setter is called.
DefaultRules ==
    [delay |-> 1, limit |-> 0, vetoes |-> 0, bond |-> 0, cutoff |-> 0, minStake |-> 0, quorum |-> 0,
     rules |-> NoParams, vetoBps |-> 0, mode |-> "Linear", changes |-> 0]

ProposalInit ==
    /\ gov \in InitialRules
    /\ params = [p \in Parameters |-> 0]
    /\ proposals = <<>> /\ openCount = 0

DelegationInit ==
    /\ voteDelegate = [u \in Users |-> Nobody]
    /\ weightSnapshot = [u \in Users |-> 0] /\ delegatedWeight = [u \in Users |-> 0]

GovInit == ProposalInit /\ DelegationInit

gov_settings(new) ==
    /\ gov.changes < MaxSettings
    /\ gov' = [new EXCEPT !.changes = @ + 1]
    /\ UNCHANGED <<params, proposals, openCount, voteDelegate, weightSnapshot, delegatedWeight>>

set_execution_delay(d)        == gov_settings([gov EXCEPT !.delay = d])
set_guardian_veto_limit(n)    == gov_settings([gov EXCEPT !.limit = n])
reset_guardian_veto_count     == gov_settings([gov EXCEPT !.vetoes = 0])
set_proposal_bond(a)          == gov_settings([gov EXCEPT !.bond = a])
set_cancellation_cutoff(n)    == gov_settings([gov EXCEPT !.cutoff = n])
set_proposal_requirements(m, b) == gov_settings([gov EXCEPT !.minStake = m, !.bond = b])
set_proposal_quorum_bps(q)    == q <= 10000 /\ gov_settings([gov EXCEPT !.quorum = q])
set_veto_threshold_bps(v)     == v <= 10000 /\ gov_settings([gov EXCEPT !.vetoBps = v])
set_vote_weight_mode(m)       == gov_settings([gov EXCEPT !.mode = m])
set_governance_params(q, t)   ==
    q <= 10000 /\ t \in 1..10000 /\ gov_settings([gov EXCEPT !.rules = [quorum |-> q, threshold |-> t]])

\* Newton's iteration from n downwards, as in the code: it stops when the next value is
\* no smaller.
newton(n, x) == (x + n \div x) \div 2

isqrt(n) ==
    LET root[x \in 1..n] == IF newton(n, x) < x THEN root[newton(n, x)] ELSE x
    IN  IF n <= 1 THEN n ELSE root[n]

weigh(mode, amount) == IF mode = "Linear" THEN amount ELSE isqrt(amount)

is_open(p) == ~p.enacted /\ ~p.cancelled

create_proposal(u, parameter, value, duration) ==
    /\ Len(proposals) < MaxProposals
    /\ shares[u] > 0 /\ amount_of(u) >= gov.minStake
    /\ openCount < MaxOpenProposals
    /\ pull(u, gov.bond)
    /\ proposals' = Append(proposals,
            [parameter |-> parameter, value |-> value, mode |-> gov.mode,
             votesFor |-> 0, votesAgainst |-> 0, createdAt |-> now, endsAt |-> now + duration,
             enacted |-> FALSE, cancelled |-> FALSE, vetoer |-> Nobody, guardianVeto |-> FALSE,
             proposer |-> u, bond |-> gov.bond, settled |-> FALSE,
             rules |-> gov.rules, base |-> totalDeposited, voters |-> {}, receipts |-> [v \in Users |-> NoVote]])
    /\ openCount' = openCount + 1
    /\ UNCHANGED <<now, pool, rewardPool, gov, params, voteDelegate, weightSnapshot, delegatedWeight>>

cast(p, u, support, weight) ==
    [p EXCEPT !.votesFor = @ + IF support THEN weight ELSE 0,
              !.votesAgainst = @ + IF support THEN 0 ELSE weight,
              !.voters = @ \cup {u},
              !.receipts[u] = [support |-> support, weight |-> weight]]

votable(p, u) == is_open(p) /\ now <= p.endsAt /\ u \notin p.voters

vote(u, id, support) ==
    /\ voteDelegate[u] = Nobody /\ shares[u] > 0
    /\ votable(proposals[id], u)
    /\ proposals' = [proposals EXCEPT ![id] =
            cast(@, u, support, weigh(@.mode, amount_of(u)) + delegatedWeight[u])]
    /\ UNCHANGED <<base_vars, gov, params, openCount, voteDelegate, weightSnapshot, delegatedWeight>>

\* Mutant: the ballot of a batch is not checked against the votes already cast.
batch_vote_unchecked(u, ballots) ==
    /\ shares[u] > 0 /\ Len(ballots) <= MaxBatch
    /\ proposals' = FoldLeft(LAMBDA ps, b :
            IF b.id \in DOMAIN ps /\ is_open(ps[b.id]) /\ now <= ps[b.id].endsAt
            THEN [ps EXCEPT ![b.id] = cast(@, u, b.support, weigh(gov.mode, amount_of(u)))] ELSE ps,
            proposals, ballots)
    /\ UNCHANGED <<base_vars, gov, params, openCount, voteDelegate, weightSnapshot, delegatedWeight>>

\* Ballots are cast in their order and one that cannot be cast is skipped, so of several on
\* a proposal the first counts.  The weight is the voter's own stake in the mode of the
\* moment, and a delegation does not keep the delegator from voting here.
batch_vote(u, ballots) ==
    LET weight     == weigh(gov.mode, amount_of(u))
        naming(id) == {k \in DOMAIN ballots : ballots[k].id = id}
    IN  /\ shares[u] > 0 /\ Len(ballots) <= MaxBatch
        /\ proposals' = [id \in DOMAIN proposals |->
                IF weight > 0 /\ naming(id) # {} /\ votable(proposals[id], u)
                THEN cast(proposals[id], u, ballots[Min(naming(id))].support, weight) ELSE proposals[id]]
        /\ UNCHANGED <<base_vars, gov, params, openCount, voteDelegate, weightSnapshot, delegatedWeight>>

\* governance_params::passes: quorum and majority of the snapshot taken at creation.
passes(p) ==
    LET total == p.votesFor + p.votesAgainst
    IN  IF p.rules = NoParams THEN p.votesFor > p.votesAgainst
        ELSE /\ total > 0
             /\ total * 10000 >= p.base * p.rules.quorum
             /\ p.votesFor * 10000 >= total * p.rules.threshold

meets_quorum(total) ==
    gov.quorum = 0 \/ (totalShares > 0 /\ total * 10000 >= gov.quorum * totalShares)

\* The bond leaves once: back to the proposer with a quorum, to the slash treasury without,
\* which initialize sets to the administrator and nothing ever clears.
settle_bond(p) ==
    IF p.settled \/ p.bond = 0 THEN UNCHANGED <<wallet, held>>
    ELSE push(IF meets_quorum(p.votesFor + p.votesAgainst) THEN p.proposer ELSE Admin, p.bond)

close_slot == openCount' = IF openCount > 0 THEN openCount - 1 ELSE 0

\* Mutant: a cancelled proposal can still be enacted and its bond settled.
enact_proposal_cancelled(id) ==
    LET p == proposals[id]
    IN  /\ ~p.enacted /\ now > p.endsAt
        /\ p.votesFor > p.votesAgainst => now >= p.endsAt + gov.delay
        /\ p.vetoer = Nobody /\ ~p.guardianVeto
        /\ passes(p) => p.value <= ParamMax
        /\ params' = IF passes(p) THEN [params EXCEPT ![p.parameter] = p.value] ELSE params
        /\ proposals' = [proposals EXCEPT ![id].enacted = TRUE, ![id].settled = TRUE]
        /\ close_slot /\ settle_bond(p)
        /\ UNCHANGED <<now, pool, rewardPool, gov, voteDelegate, weightSnapshot, delegatedWeight>>

\* Mutant: the veto of a large staker is not looked at.
enact_proposal_vetoed(id) ==
    LET p == proposals[id]
    IN  /\ is_open(p) /\ now > p.endsAt
        /\ p.votesFor > p.votesAgainst => now >= p.endsAt + gov.delay
        /\ ~p.guardianVeto
        /\ passes(p) => p.value <= ParamMax
        /\ params' = IF passes(p) THEN [params EXCEPT ![p.parameter] = p.value] ELSE params
        /\ proposals' = [proposals EXCEPT ![id].enacted = TRUE, ![id].settled = TRUE]
        /\ close_slot /\ settle_bond(p)
        /\ UNCHANGED <<now, pool, rewardPool, gov, voteDelegate, weightSnapshot, delegatedWeight>>

\* Anyone may call it; a value out of range reverts the whole enactment.
enact_proposal(id) ==
    LET p == proposals[id]
    IN  /\ is_open(p) /\ now > p.endsAt
        /\ p.votesFor > p.votesAgainst => now >= p.endsAt + gov.delay
        /\ p.vetoer = Nobody /\ ~p.guardianVeto
        /\ passes(p) => p.value <= ParamMax
        /\ params' = IF passes(p) THEN [params EXCEPT ![p.parameter] = p.value] ELSE params
        /\ proposals' = [proposals EXCEPT ![id].enacted = TRUE, ![id].settled = TRUE]
        /\ close_slot /\ settle_bond(p)
        /\ UNCHANGED <<now, pool, rewardPool, gov, voteDelegate, weightSnapshot, delegatedWeight>>

cancel_proposal(u, id) ==
    LET p == proposals[id]
    IN  /\ is_open(p) /\ p.proposer = u
        /\ p.votesFor = 0 /\ p.votesAgainst = 0
        /\ gov.cutoff > 0 => now <= p.createdAt + gov.cutoff
        /\ proposals' = [proposals EXCEPT ![id].cancelled = TRUE]
        /\ close_slot
        /\ push(u, p.bond)
        /\ UNCHANGED <<now, pool, rewardPool, gov, params, voteDelegate, weightSnapshot, delegatedWeight>>

\* A large enough staker stops a proposal; neither slot nor bond is released.
veto_proposal(u, id) ==
    /\ gov.vetoBps > 0
    /\ ~proposals[id].enacted /\ proposals[id].vetoer = Nobody
    /\ (IF totalShares = 0 THEN 0 ELSE (shares[u] * 10000) \div totalShares) >= gov.vetoBps
    /\ proposals' = [proposals EXCEPT ![id].vetoer = u]
    /\ UNCHANGED <<base_vars, gov, params, openCount, voteDelegate, weightSnapshot, delegatedWeight>>

guardian_veto_proposal(id) ==
    LET p == proposals[id]
    IN  /\ gov.limit > 0 => gov.vetoes < gov.limit
        /\ ~p.enacted /\ ~p.guardianVeto /\ p.votesFor > p.votesAgainst
        /\ p.endsAt < now /\ now < p.endsAt + gov.delay
        /\ proposals' = [proposals EXCEPT ![id].guardianVeto = TRUE]
        /\ gov' = [gov EXCEPT !.vetoes = @ + 1]
        /\ UNCHANGED <<base_vars, params, openCount, voteDelegate, weightSnapshot, delegatedWeight>>

\* Mutant: what is taken back is the delegator's stake of now.
withdrawn_now(u) ==
    IF voteDelegate[u] = Nobody THEN delegatedWeight
    ELSE [delegatedWeight EXCEPT ![voteDelegate[u]] = IF @ > amount_of(u) THEN @ - amount_of(u) ELSE 0]

\* withdraw_delegated_weight: what the delegator once lent, as it was then.
withdrawn(u) ==
    IF voteDelegate[u] = Nobody THEN delegatedWeight
    ELSE [delegatedWeight EXCEPT ![voteDelegate[u]] =
              IF @ > weightSnapshot[u] THEN @ - weightSnapshot[u] ELSE 0]

delegate_vote_weight(u, d) ==
    /\ d # u /\ voteDelegate[d] = Nobody /\ shares[u] > 0 /\ voteDelegate[u] # d
    /\ voteDelegate' = [voteDelegate EXCEPT ![u] = d]
    /\ weightSnapshot' = [weightSnapshot EXCEPT ![u] = amount_of(u)]
    /\ delegatedWeight' = [withdrawn(u) EXCEPT ![d] = @ + amount_of(u)]
    /\ UNCHANGED <<base_vars, gov, params, proposals, openCount>>

revoke_vote_delegation(u) ==
    /\ voteDelegate[u] # Nobody
    /\ delegatedWeight' = withdrawn(u)
    /\ weightSnapshot' = [weightSnapshot EXCEPT ![u] = 0]
    /\ voteDelegate' = [voteDelegate EXCEPT ![u] = Nobody]
    /\ UNCHANGED <<base_vars, gov, params, proposals, openCount>>

-------------------------------------------------------------------------------
GovSettings ==
    \/ \E d \in GovRules.delays : set_execution_delay(d)
    \/ \E n \in GovRules.limits : set_guardian_veto_limit(n)
    \/ reset_guardian_veto_count
    \/ \E a \in GovRules.bonds : set_proposal_bond(a) \/ set_proposal_requirements(a, a)
    \/ \E n \in GovRules.cutoffs : set_cancellation_cutoff(n)
    \/ \E q \in GovRules.quorums :
           set_proposal_quorum_bps(q) \/ set_governance_params(q, q) \/ set_veto_threshold_bps(q)
    \/ \E m \in GovRules.modes : set_vote_weight_mode(m)

ProposalNext ==
    \/ \E u \in Users, p \in Parameters, v \in ParamValues, d \in Durations : create_proposal(u, p, v, d)
    \/ \E u \in Users, id \in DOMAIN proposals :
           \/ \E s \in BOOLEAN : vote(u, id, s)
           \/ cancel_proposal(u, id)
           \/ veto_proposal(u, id)
    \/ \E u \in Users, s \in BOOLEAN :
           batch_vote(u, <<[id |-> 1, support |-> s], [id |-> 2, support |-> TRUE], [id |-> 1, support |-> ~s]>>)
    \/ \E id \in DOMAIN proposals : enact_proposal(id) \/ guardian_veto_proposal(id)

VotersNext ==
    \/ \E u, d \in Users : delegate_vote_weight(u, d)
    \/ \E u \in Users : revoke_vote_delegation(u)

\* Proposals from creation to enactment, with settings changed under way.
GovNext ==
    \/ GovSettings /\ UNCHANGED base_vars
    \/ ProposalNext
    \/ TimePasses /\ UNCHANGED gov_vars

\* Delegation of weight while stakers come and go and a proposal is voted on.
DelegationNext ==
    \/ VotersNext
    \/ Len(proposals) = 0 /\ ProposalNext
    \/ \E u \in Users, id \in DOMAIN proposals : vote(u, id, TRUE)
    \/ PoolMoves /\ UNCHANGED gov_vars

-------------------------------------------------------------------------------
\* Every bond is in the contract until it is refunded or slashed, once.
bonds_held ==
    held = totalDeposited + rewardPool
           + sum([id \in DOMAIN proposals |-> IF proposals[id].settled \/ proposals[id].cancelled THEN 0
                                       ELSE proposals[id].bond])

slots_counted == openCount = Cardinality({id \in DOMAIN proposals : is_open(proposals[id])})

\* The tally of a proposal is the sum of the receipts of its voters.
tallies_receipted ==
    \A id \in DOMAIN proposals :
        LET p == proposals[id]
            tally(s) == sum([u \in p.voters |-> IF p.receipts[u].support = s
                                                 THEN p.receipts[u].weight ELSE 0])
        IN  p.votesFor = tally(TRUE) /\ p.votesAgainst = tally(FALSE)

\* What a delegate votes with is what its delegators lent it.
weight_lent ==
    \A d \in Users : delegatedWeight[d] =
        sum([u \in Users |-> IF voteDelegate[u] = d THEN weightSnapshot[u] ELSE 0])

\* A veto is final, and so is a cancellation: neither is overtaken by an enactment.
vetoes_final ==
    \A id \in DOMAIN proposals :
        LET p == proposals[id]
        IN  p.vetoer # Nobody \/ p.guardianVeto \/ p.cancelled => ~p.enacted

===============================================================================
