-------------------------------- MODULE MCRules --------------------------------
(***************************************************************************)
(* The features that decide rather than hold tokens, one at a time: as in  *)
(* MCFunds, `focus' picks the feature whose entry points are called.       *)
(***************************************************************************)
EXTENDS Governance, Forums, Administration, RewardRates, ClaimPolicies

VARIABLE focus

Features ==
    {"governance", "delegation", "roadmap", "dispute", "curation", "news", "thread", "tip",
     "quiz", "handover", "authority", "fee", "treasury",
     "accrual", "policies", "epochs", "capped", "delayed", "streams", "extras"}

StakedDef == [u \in Users |-> IF u = "u1" THEN 2 ELSE 1]
SchedulesDef == {<<<<1, 20000>>>>, <<<<0, 15000>>, <<2, 20000>>>>}
GroupsDef == {<<"k1", "k2">>, <<"k1">>, <<"k2", "k2">>}
CurvesDef == {[target |-> 2, max |-> 20000, mid |-> 10000, min |-> 0]}
StepsDef == {<<<<1, 10000>>, <<3, 5000>>>>}
GovRulesDef == [delays |-> {0, 2}, limits |-> {1}, bonds |-> {1}, cutoffs |-> {1},
                quorums |-> {5000}, modes |-> {"Quadratic"}]

InitialRulesDef ==
    {[DefaultRules EXCEPT !.bond = 1, !.quorum = r[1], !.delay = 2, !.vetoBps = r[2]] : r \in {<<0, 0>>, <<0, 5000>>, <<9000, 0>>}}

RulesInit ==
    /\ focus \in Features
    /\ BaseInitWith(IF focus \in {"accrual", "policies", "epochs", "extras"} THEN 0
                    ELSE IF focus = "treasury" THEN 2 * Purse + 2 ELSE Purse)
    /\ GovInit /\ ForumInit /\ AdminInit /\ RatesInit /\ PolicyInit
    /\ focus # "governance" => gov.quorum = 0 /\ gov.vetoBps = 0
    /\ (focus = "accrual") = (rate.bps > 0)

RulesNext ==
    /\ UNCHANGED focus
    /\ \/ /\ \/ focus = "governance" /\ GovNext
             \/ focus = "delegation" /\ DelegationNext
          /\ UNCHANGED <<forum_vars, admin_vars, rate_vars, policy_vars>>
       \/ ForumNext(focus) /\ UNCHANGED <<gov_vars, admin_vars, rate_vars, policy_vars>>
       \/ AdminNext(focus) /\ UNCHANGED <<gov_vars, forum_vars, rate_vars, policy_vars>>
       \/ RatesNext(focus) /\ UNCHANGED <<gov_vars, forum_vars, admin_vars, policy_vars>>
       \/ PayoutNext(focus) /\ UNCHANGED <<gov_vars, forum_vars, admin_vars, rate_vars>>

RulesSpec ==
    RulesInit /\ [][RulesNext]_<<base_vars, gov_vars, forum_vars, admin_vars, rate_vars, policy_vars, focus>>

-------------------------------------------------------------------------------
\* Proposals: every bond is held until it is refunded or slashed, once, and the open slots
\* count the proposals in progress, over cancels, vetoes, expiries and enactments, and what
\* was vetoed or cancelled stays so.
ProposalBooks == focus = "governance" => bonds_held /\ slots_counted /\ vetoes_final

\* The tally of a proposal is what its voters cast, through vote, batch_vote and
\* delegation, and a delegate holds exactly the weight its delegators of now lent it.
VotesBacked == focus \in {"governance", "delegation"} => tallies_receipted /\ weight_lent

\* Roadmap points, daily tips and quizzes: nobody counts twice, over re-allocations,
\* closed items, epochs, new days, stakes that change and repeated answers.
ForumVotesOnce ==
    /\ focus = "roadmap" => points_live
    /\ focus = "tip" => tips_voted_once
    /\ focus = "quiz" => tiers_earned

\* slash_dispute.rs: unless the window was lengthened, the disputes of a slash send its amount
\* to the treasury at most once however often it is disputed, and the open ones are counted.
SlashesSettledOnce == focus = "dispute" => slashes_settled_once

\* Curation quotas hold over epochs and moving stakes, and the comment thread is the top of
\* everything posted although it only ever sees one comment at a time.
RankingsFair ==
    /\ focus = "curation" => curation_fair
    /\ focus = "thread" => thread_is_top

\* stake_weighted_news_feed.rs: a full feed drops promoted items last.
PromotedKept == [][focus = "news" => promoted_kept]_news

\* No queued change outlives the administrator who queued it, over transfers, renouncements,
\* recoveries and successions; and a multisig action was approved by as many different
\* members as the threshold of its execution asked, over groups replaced by anyone meanwhile.
Authority == focus \in {"handover", "authority"} => queues_owned /\ approvals_distinct

\* fee_change_notice.rs: no setter raises a fee above what was announced, nor before the
\* notice, whatever was proposed again, settled late or voted meanwhile; only the enactment
\* of a vote raises it without.
FeeAnnounced == [][fee_announced]_fee

\* community_treasury.rs: withdrawals, votes and limits only ever spend what was put in.
TreasuryCovered == focus = "treasury" => treasury_covered

\* Rewards over a span with seasons, boost tiers, halvings and an activation, and the
\* time-weighted rate, are the sums of what each ledger of the span is worth.
SpansPriced ==
    /\ focus = "accrual" => spans_priced
    /\ focus = "policies" => average_exact

\* Starting, cancelling or replacing a ramp leaves the rate of the ledger where it is, and from
\* one ledger to the next a running ramp moves towards its target and is there at its end.
RampSteady == [][focus = "policies" => ramp_steady]_<<now, rate>>

\* Caps, deferrals, delays, vesting, streams, waterfalls, epochs and extra tokens: a reward
\* reaches its staker exactly once on whichever route, and within its budget.
RewardsReachOnce ==
    /\ focus \in {"capped", "delayed", "streams"} => rewards_reach_once
    /\ focus = "delayed" => pool_recycles
    /\ focus = "epochs" => epochs_within_budget
    /\ focus = "extras" => extra_tokens_exact

===============================================================================
