-------------------------------- MODULE Ballots --------------------------------
(***************************************************************************)
(* The second generation of governance: proposals in categories, each with *)
(* its own quorum, threshold and period, expedited proposals against a     *)
(* bond, and vote delegation that expires.  The contract's calls revert    *)
(* when they return an error, so a proposal that misses its quorum or its  *)
(* threshold is not closed and its bond stays where it is.                 *)
(***************************************************************************)
EXTENDS PoolBase

CONSTANTS
    Terms,                      \* <<quorum, threshold, period>> the admin may set
    DefaultTerms,               \* of a category nobody has set
    ExpeditedTerms,             \* the same of an expedited proposal
    ExpeditedDelay,             \* EXPEDITED_EXECUTION_DELAY_LEDGERS
    Bond,                       \* MIN_EXPEDITED_BOND
    MaxExpedited,               \* MAX_OPEN_EXPEDITED_PROPOSALS
    Proposers,                  \* the users who propose
    MaxBallots                  \* model bound on proposals

ASSUME BallotAssumption ==
    /\ Terms \subseteq Nat \X Nat \X Nat /\ DefaultTerms \in Nat \X Nat \X Nat /\ ExpeditedTerms \in Nat \X Nat \X Nat
    /\ ExpeditedDelay \in Nat /\ Bond \in Nat /\ Proposers \subseteq Users

NoTerm == -1
NotLent == [to |-> Nobody, expires |-> 0]

VARIABLES
    ballots,    \* the CategorizedProposals, the category's terms, open expedited ones
    lent        \* DelegationRecord of each user and delegator list of each delegate
ballot_vars == <<ballots, lent>>

\* `set' (enactments so far) is history.
BallotInit == ballots = [props |-> <<>>, terms |-> DefaultTerms, open |-> 0, set |-> 0]

LentInit == lent = [rec |-> [u \in Users |-> NotLent], list |-> [u \in Users |-> <<>>]]

set_category_params(t) ==
    /\ t[1] <= BPS_DENOMINATOR /\ t[2] <= BPS_DENOMINATOR /\ t[2] >= 5000 /\ t[3] > 0
    /\ ballots' = [ballots EXCEPT !.terms = t]
    /\ UNCHANGED <<base_vars, lent>>

\* The terms of now are kept with the proposal.
proposal(u, t, bond, delay) ==
    [proposer |-> u, quorum |-> t[1], threshold |-> t[2], ends |-> now + t[3], delay |-> delay, bond |-> bond,
     for |-> 0, against |-> 0, voted |-> {}, vetoed |-> FALSE, enacted |-> FALSE, refunded |-> FALSE]

create_categorized_proposal(u) ==
    /\ shares[u] > 0 /\ Len(ballots.props) < MaxBallots
    /\ ballots' = [ballots EXCEPT !.props = Append(ballots.props, proposal(u, ballots.terms, 0, 0))]
    /\ UNCHANGED <<base_vars, lent>>

create_expedited_proposal(u) ==
    /\ shares[u] > 0 /\ Len(ballots.props) < MaxBallots
    /\ ballots.open < MaxExpedited
    /\ pull(u, Bond)
    /\ ballots' = [ballots EXCEPT !.props = Append(ballots.props, proposal(u, ExpeditedTerms, Bond, ExpeditedDelay)),
                                  !.open = ballots.open + 1]
    /\ UNCHANGED <<now, pool, rewardPool, lent>>

is_delegation_active_at(u, l) == lent.rec[u] # NotLent /\ (lent.rec[u].expires = NoTerm \/ l < lent.rec[u].expires)

\* A user's own weight unless lent, and that of the delegators whose record names the user.
effective_vote_weight_at_ledger(u, l) ==
    LET mine == {i \in DOMAIN lent.list[u] :
                    LET d == lent.list[u][i] IN is_delegation_active_at(d, l) /\ lent.rec[d].to = u}
    IN  (IF is_delegation_active_at(u, l) THEN 0 ELSE amount_of(u))
        + sum([i \in mine |-> amount_of(lent.list[u][i])])

\* Mutant: a ballot is not remembered.
counted_again(p, u, support, w) ==
    [p EXCEPT !.for = IF support THEN p.for + w ELSE p.for, !.against = IF support THEN p.against ELSE p.against + w]

counted(p, u, support, w) ==
    [p EXCEPT !.for = IF support THEN p.for + w ELSE p.for, !.against = IF support THEN p.against ELSE p.against + w,
              !.voted = p.voted \cup {<<u, w>>}]

vote_categorized_proposal(u, id, support) ==
    LET p == ballots.props[id]
        w == effective_vote_weight_at_ledger(u, now)
    IN  /\ ~p.enacted /\ now <= p.ends
        /\ ~\E b \in p.voted : b[1] = u
        /\ w > 0
        /\ ballots' = [ballots EXCEPT !.props = [ballots.props EXCEPT ![id] = counted(p, u, support, w)]]
        /\ UNCHANGED <<base_vars, lent>>

\* Quorum is taken of the deposits of now.
carried(p) ==
    LET total == p.for + p.against
    IN  /\ total >= (totalDeposited * p.quorum) \div BPS_DENOMINATOR
        /\ total > 0
        /\ (p.for * BPS_DENOMINATOR) \div total >= p.threshold

\* Anyone may call it, on an expedited proposal too, whose bond and slot it leaves.
enact_categorized_proposal(id) ==
    LET p == ballots.props[id]
    IN  /\ ~p.enacted /\ now > p.ends /\ ~p.vetoed /\ carried(p)
        /\ ballots' = [ballots EXCEPT !.props = [ballots.props EXCEPT ![id] = [p EXCEPT !.enacted = TRUE]],
                                      !.set = ballots.set + 1]
        /\ UNCHANGED <<base_vars, lent>>

\* By any guardian; a second veto frees a second slot.  The bond stays.
veto_expedited_proposal(id) ==
    LET p == ballots.props[id]
    IN  /\ ~p.enacted
        /\ ballots' = [ballots EXCEPT !.props = [ballots.props EXCEPT ![id] = [p EXCEPT !.vetoed = TRUE]],
                                      !.open = IF p.bond > 0 /\ ballots.open > 0 THEN ballots.open - 1 ELSE ballots.open]
        /\ UNCHANGED <<base_vars, lent>>

\* Mutant: the proposal is not marked when the bond goes back.
closed_open(p) == [p EXCEPT !.refunded = TRUE]

\* An expedited proposal once it is carried out.
closed(p) == [p EXCEPT !.enacted = TRUE, !.refunded = TRUE]

enact_expedited_proposal(id) ==
    LET p == ballots.props[id]
    IN  /\ ~p.enacted /\ now > p.ends + p.delay /\ ~p.vetoed /\ carried(p)
        /\ push(p.proposer, p.bond)
        /\ ballots' = [ballots EXCEPT !.props = [ballots.props EXCEPT ![id] = closed(p)],
                                      !.open = IF ballots.open > 0 THEN ballots.open - 1 ELSE ballots.open,
                                      !.set = ballots.set + 1]
        /\ UNCHANGED <<now, pool, rewardPool, lent>>

\* Mutant: a delegator is listed once for every delegation.
listed_again(d, to) == Append(lent.list[to], d)

\* A list is never shortened; who delegates again to the same one is in it already.
listed(d, to) == IF Contains(lent.list[to], d) THEN lent.list[to] ELSE Append(lent.list[to], d)

delegate_vote_weight_with_expiry(d, to, expires) ==
    /\ d # to /\ (expires # NoTerm => expires > now)
    /\ lent' = [lent EXCEPT !.rec = [lent.rec EXCEPT ![d] = [to |-> to, expires |-> expires]],
                            !.list = [lent.list EXCEPT ![to] = listed(d, to)]]
    /\ UNCHANGED <<base_vars, ballots>>

BallotMoves ==
    \/ \E t \in Terms : ballots.props # <<>> /\ set_category_params(t)
    \/ \E u \in Proposers : create_categorized_proposal(u) \/ create_expedited_proposal(u)
    \/ \E id \in DOMAIN ballots.props :
         \/ \E u \in Users : vote_categorized_proposal(u, id, TRUE)
         \/ \E u \in Users \ Proposers : vote_categorized_proposal(u, id, FALSE)
         \/ enact_categorized_proposal(id) \/ veto_expedited_proposal(id) \/ enact_expedited_proposal(id)
    \/ \E u \in Users \ Proposers : leave(u) /\ UNCHANGED ballot_vars

LentMoves ==
    \/ \E d, to \in Users, e \in Durations \cup {NoTerm} :
           delegate_vote_weight_with_expiry(d, to, IF e = NoTerm THEN e ELSE now + e)
    \/ \E u \in Users : leave(u) /\ UNCHANGED ballot_vars
    \/ \E u \in Proposers : ballots.props = <<>> /\ create_categorized_proposal(u)
    \/ \E id \in DOMAIN ballots.props, u \in Users : vote_categorized_proposal(u, id, TRUE)

BallotTick == TimePasses /\ UNCHANGED ballot_vars

-------------------------------------------------------------------------------
\* At any ledger every stake backs exactly one vote, over chains of delegation, changes of
\* delegate, expiries and exits.
stake_backs_one_vote == sum([u \in Users |-> effective_vote_weight_at_ledger(u, now)]) = sum([u \in Users |-> amount_of(u)])

\* Tallies are the ballots cast, one each, and a bond is held until it goes back, once.
ballots_sound ==
    /\ \A i \in DOMAIN ballots.props : LET p == ballots.props[i] IN
          /\ p.for + p.against = sum([b \in p.voted |-> b[2]])
          /\ \A b, c \in p.voted : b[1] = c[1] => b = c
          /\ p.refunded => p.enacted
    /\ held = totalDeposited + rewardPool
              + sum([i \in {i \in DOMAIN ballots.props : ~ballots.props[i].refunded} |-> ballots.props[i].bond])

===============================================================================
