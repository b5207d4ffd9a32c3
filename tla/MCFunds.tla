-------------------------------- MODULE MCFunds --------------------------------
(***************************************************************************)
(* The features that hold other people's tokens, one at a time: each keeps *)
(* its own records beside the pool of PoolBase, and `focus' picks the one  *)
(* whose entry points are called in a behaviour.  Features that work on    *)
(* each other's records (claims and loans, strategies and caps) are in one *)
(* module; what two focuses might do to each other is not explored.        *)
(***************************************************************************)
EXTENDS CapacityAuction, PositionMarkets, Contests, Campaigns, ClaimPipeline,
        SubPools, Positions, Strategies, Mirroring, Ballots, Safeguards,
        WindDown, Distributions

VARIABLE focus

Features ==
    {"capacity", "swap", "sealed", "prediction", "prizes", "lockdrop", "presale", "mutual",
     "guarantee", "claims", "loans", "sharing", "drops", "matching", "access",
     "subpools", "rebalance", "meta", "handover", "dust", "receipts", "limits",
     "strategies", "capped", "mirrors", "ballots", "lending", "recovery", "pledges",
     "heartbeats", "sunset", "notes", "yield"}

StakedDef      == [u \in Users |-> 2]
LoanConfigsDef == {[ltv |-> 9500, rate |-> 5000]}
OfferPairsDef  == {<<"u1", "u2">>, <<"u2", "u1">>, <<"u1", "u1">>}

SubBoundsDef   == {<<0, 3>>}
TermsDef       == {<<10000, 5000, 1>>}
FirstTermsDef  == <<5000, 5000, 1>>
HastyTermsDef  == <<4000, 7500, 1>>
HeirsDef       == {<<"u1", "u2">>}
SubLimitsDef   == {<<1, 2>>}
GiftPairsDef   == {<<"u1", "u2">>, <<"u2", "u1">>}
TablesDef      == {[u \in Users |-> 1], [u \in Users |-> IF u = "u1" THEN 2 ELSE 1]}
MatchTermsDef  == {<<10000, 1>>, <<5000, 2>>}
AccessTiersDef == {<<3, 0>>, <<1, 1>>}
MarketStepsDef == {-8, 8}
SplitsDef      == {<<5000, 5000>>}

FundsInit ==
    /\ focus \in Features
    /\ BaseInit /\ AuctionInit /\ MarketInit /\ ContestInit /\ CampaignInit /\ LoanInit /\ ClaimInit /\ SubInit
    /\ PositionInit /\ StrategyInit /\ MirrorInit /\ BallotInit /\ LentInit /\ SafeguardInit
    /\ WindDownInit /\ DistributionInit

capacity_step == focus = "capacity" /\ AuctionNext
                 /\ UNCHANGED <<market_vars, contest_vars, campaign_vars, loan_vars, claim_vars>>
market_step   == \/ focus = "swap" /\ SwapNext
                 \/ focus = "sealed" /\ SealedNext
                 \/ focus \in {"swap", "sealed"} /\ MarketTick
contest_step  == \/ focus = "prediction" /\ PredictionNext
                 \/ focus = "prizes" /\ PrizeNext
                 \/ focus \in {"prediction", "prizes"} /\ ContestTick
campaign_step == \/ focus = "lockdrop" /\ LockdropNext
                 \/ focus = "presale" /\ PresaleNext
                 \/ focus = "mutual" /\ MutualNext
                 \/ focus = "guarantee" /\ GuaranteeNext
                 \/ focus \in {"lockdrop", "presale", "mutual", "guarantee"} /\ CampaignTick
claim_step    == \/ focus = "claims" /\ ClaimNext
                 \/ focus = "loans" /\ LoanNext /\ UNCHANGED claim_vars

subpool_step  == \/ focus = "subpools" /\ SubPoolNext
                 \/ focus = "rebalance" /\ RebalanceNext
                 \/ focus = "meta" /\ MetaNext
                 \/ focus \in {"subpools", "rebalance", "meta"} /\ SubTick

position_step == \/ focus = "handover" /\ HandoverMoves
                 \/ focus = "dust" /\ DustMoves
                 \/ focus = "receipts" /\ ReceiptMoves
                 \/ focus = "limits" /\ LimitMoves
                 \/ focus \in {"handover", "dust", "receipts", "limits"} /\ PositionTick

outside_step  == \/ focus = "strategies" /\ StrategyMoves /\ UNCHANGED mirror_vars
                 \/ focus = "capped" /\ CappedMoves /\ UNCHANGED mirror_vars
                 \/ focus = "mirrors" /\ MirrorMoves /\ UNCHANGED strategy_vars

ballot_step   == \/ focus = "ballots" /\ BallotMoves
                 \/ focus = "lending" /\ LentMoves
                 \/ focus \in {"ballots", "lending"} /\ BallotTick

safeguard_step == \/ focus = "recovery" /\ RecoveryMoves
                  \/ focus = "pledges" /\ PledgeMoves
                  \/ focus = "heartbeats" /\ HeartbeatMoves
                  \/ focus \in {"recovery", "pledges", "heartbeats"} /\ SafeguardTick

wind_step     == \/ focus = "sunset" /\ SunsetMoves
                 \/ focus = "notes" /\ NoteMoves
                 \/ focus = "yield" /\ YieldMoves
                 \/ focus \in {"sunset", "notes", "yield"} /\ WindTick

shared_step   == \/ focus = "sharing" /\ SharingMoves
                 \/ focus = "drops" /\ DropMoves
                 \/ focus = "matching" /\ MatchingMoves
                 \/ focus = "access" /\ AccessMoves
                 \/ focus = "access" /\ DistributionTick

position_rules == <<auction_vars, market_vars, contest_vars, campaign_vars, loan_vars, claim_vars, sub_vars,
                    position_vars, strategy_vars, mirror_vars, ballot_vars, safeguard_vars>>

FundsNext ==
    /\ UNCHANGED focus
    /\ \/ capacity_step /\ UNCHANGED <<sub_vars, position_vars, strategy_vars, mirror_vars, ballot_vars, safeguard_vars, wind_vars, distribution_vars>>
       \/ market_step /\ UNCHANGED <<auction_vars, contest_vars, campaign_vars, loan_vars, claim_vars, sub_vars, position_vars, strategy_vars, mirror_vars, ballot_vars, safeguard_vars, wind_vars, distribution_vars>>
       \/ contest_step /\ UNCHANGED <<auction_vars, market_vars, campaign_vars, loan_vars, claim_vars, sub_vars, position_vars, strategy_vars, mirror_vars, ballot_vars, safeguard_vars, wind_vars, distribution_vars>>
       \/ campaign_step /\ UNCHANGED <<auction_vars, market_vars, contest_vars, loan_vars, claim_vars, sub_vars, position_vars, strategy_vars, mirror_vars, ballot_vars, safeguard_vars, wind_vars, distribution_vars>>
       \/ claim_step /\ UNCHANGED <<auction_vars, market_vars, contest_vars, campaign_vars, sub_vars, position_vars, strategy_vars, mirror_vars, ballot_vars, safeguard_vars, wind_vars, distribution_vars>>
       \/ subpool_step /\ UNCHANGED <<auction_vars, market_vars, contest_vars, campaign_vars, loan_vars, claim_vars, position_vars, strategy_vars, mirror_vars, ballot_vars, safeguard_vars, wind_vars, distribution_vars>>
       \/ position_step /\ UNCHANGED <<auction_vars, market_vars, contest_vars, campaign_vars, loan_vars, claim_vars, sub_vars, strategy_vars, mirror_vars, ballot_vars, safeguard_vars, wind_vars, distribution_vars>>
       \/ outside_step /\ UNCHANGED <<auction_vars, market_vars, contest_vars, campaign_vars, loan_vars, claim_vars, sub_vars, position_vars, ballot_vars, safeguard_vars, wind_vars, distribution_vars>>
       \/ ballot_step /\ UNCHANGED <<auction_vars, market_vars, contest_vars, campaign_vars, loan_vars, claim_vars, sub_vars, position_vars, strategy_vars, mirror_vars, safeguard_vars, wind_vars, distribution_vars>>
       \/ safeguard_step /\ UNCHANGED <<auction_vars, market_vars, contest_vars, campaign_vars, claim_vars, sub_vars, position_vars, strategy_vars, mirror_vars, ballot_vars, wind_vars, distribution_vars>>
       \/ wind_step /\ UNCHANGED <<position_rules, distribution_vars>>
       \/ shared_step /\ UNCHANGED <<position_rules, wind_vars>>

FundsSpec ==
    FundsInit /\ [][FundsNext]_<<base_vars, auction_vars, market_vars, contest_vars,
                                 campaign_vars, loan_vars, claim_vars, sub_vars, position_vars, strategy_vars, mirror_vars, ballot_vars, safeguard_vars,
                                 wind_vars, distribution_vars, focus>>

-------------------------------------------------------------------------------
\* "A bid is only ever staked or refunded, never kept" (finalize_capacity_auction),
\* whatever the rounds, top-ups, ties, the cap and a pool closed in between do.
BidsStakedOrRefunded == focus = "capacity" => bids_balanced

\* Swaps, auctions, lockdrops, presales and contests never create or destroy a share that
\* the total does not count, whatever positions change hands or are closed meanwhile; the
\* one exception is an accepted offer to oneself, which makes its difference and no more.
SharesOnlyChangeHands ==
    focus \notin {"handover", "dust", "receipts", "limits"} => shares_only_change_hands

\* Each locked bid of the commit-reveal auction goes to exactly one of seller, bidder and
\* treasury, over re-commits, unrevealed bids, no winner and repeated sweeps.
SealedBidsPaidOnce == focus = "sealed" => sealed_balanced

\* Nobody's winnings are paid out of the stakers' principal, whoever claims first, with
\* bets doubled, overwritten or on an empty side, and with both prizes outstanding.
ContestsCovered == focus \in {"prediction", "prizes"} => contests_covered

\* Everything a campaign collects can be given back, exits before the close, second
\* commitments, a second campaign and contested losses included; and revenue shares, reward
\* drops, stake matches and access tokens are backed and given once, over replaced roots,
\* reused epochs, ended programs and upgraded tiers.
CampaignsCovered ==
    /\ focus \in {"lockdrop", "presale", "mutual", "guarantee"} => campaigns_covered
    /\ focus \in {"sharing", "drops", "matching", "access"} => distributions_covered /\ matches_credited /\ one_access_token

\* Positions closed by the operator, a migration or their owner leave books and registry
\* whole: a closed pool holds gifts only, rewards are paid once, notes keep their position,
\* and tokens deployed for yield stay accounted for when the protocol is replaced.
WindDownWhole ==
    /\ focus \in {"sunset", "notes"} => resolved_whole /\ notes_backed
    /\ focus = "yield" => farm_accounted

\* do_claim: a reward is paid exactly once on whichever way it goes, capped, insured,
\* applied to a loan, escrowed, vested, forfeited by an exit or paid.
ClaimsPaidOnce == focus = "claims" => claims_balanced

\* The reward pool lends nothing it does not get back or still has coming, in any order
\* of top-ups, partial repayments, exits of the collateral and liquidations.
LoansRepaidOrOwed == focus = "loans" => loans_balanced

\* Sub-pools and meta-staking: capacity is only moved and tokens are only kept, whatever
\* keepers, movers and rate changes do, and between two rate changes, which apply to the
\* whole unsettled time, a position earns every ledger exactly once.
SubPoolsExact == focus \in {"subpools", "rebalance", "meta"} => sub_pools_balanced /\ sub_rewards_exact

\* Splits, merges, transfers, inheritances, receipts and dust closures count no share and no
\* ledger of reward twice, and give up only what the code gives up there: the receiver's
\* accrued reward at a handover, the reward since the last settlement at a redemption and a
\* scheduled exit (`forgone'), a scheduled exit's principal (`written_off'), and redeemed
\* rewards paid from the tokens without a debit of the reward pool (`unfunded').
PositionsWhole ==
    focus \in {"handover", "dust", "receipts", "limits"} =>
        shares_in_positions /\ rewards_follow /\ heirs_wait /\ receipts_whole

\* However the exits of a position are spread over its owner and a spender, the daily
\* limit and the approved allowance hold for all of them together.
ExitsWithinLimits == focus = "limits" => limits_kept

\* Tokens sent to strategies stay on the books through pulls, harvests, losses reported
\* twice or wrongly, failing adapters and unwinding, and fees are not charged twice.
StrategiesAccounted ==
    focus \in {"strategies", "capped"} => strategies_balanced /\ fees_on_new_highs

\* Mirrored actions reach exactly the followers of now, after any changes of leader, and
\* the deposits lack exactly the tokens mirrored stakes never brought.
MirrorsExact == focus = "mirrors" => mirrors_exact

\* Delegated and own weight never back two votes at once, ballots count once, and the bond
\* of an expedited proposal goes back at most once, whichever way it is enacted or vetoed.
BallotsSound == focus \in {"ballots", "lending"} => stake_backs_one_vote /\ ballots_sound

\* Recoveries, commitments and heartbeats: debt is only cleared by deposits given up, a
\* commitment is staked once, and no boost is paid to a silent position.
SafeguardsHold ==
    /\ focus = "recovery" => recoveries_accounted
    /\ focus = "pledges" => pledges_used_once
    /\ focus = "heartbeats" => boosts_heard

===============================================================================
