---------------------------- MODULE PositionMarkets ----------------------------
(***************************************************************************)
(* Two ways to trade a position: an offer to exchange parts of two         *)
(* positions, and the commit-reveal auction of a whole position, of which a*)
(* settled auction pays the seller and a sweep refunds the losers.  A bid's*)
(* hash is the amount it commits to (hash collisions do not happen).  The  *)
(* rewards that accept_swap_offer claims first are not modelled here.      *)
(***************************************************************************)
EXTENDS PoolBase

CONSTANTS
    OfferPairs,         \* offerer and counterparty of the offers made
    MaxOpenOffers,      \* open offers of one user (5 in the code)
    MaxOffers,          \* model bound on offers made
    MaxListings,        \* model bound on auctions
    HasTreasury         \* SlashTreasury is set

ASSUME MarketAssumption == HasTreasury \in BOOLEAN /\ OfferPairs \subseteq Users \X Users

VARIABLES
    offers,     \* SwapOffer by id; offers[id] = <<>> once removed
    listings,   \* AuctionListing by id
    sealed,     \* AuctionBidRecord by id and bidder; NoBid before the first commit
    phantom,    \* shares made, less shares lost, by offers to oneself (history)
    kept        \* forfeits left in the contract for want of a treasury (history)

swap_vars   == <<offers, phantom>>
sealed_vars == <<listings, sealed, kept>>
market_vars == <<swap_vars, sealed_vars>>
NoBid == [hash |-> 0, locked |-> 0, revealed |-> FALSE]

SwapInit   == offers = <<>> /\ phantom = 0
SealedInit == listings = <<>> /\ sealed = <<>> /\ kept = 0
MarketInit == SwapInit /\ SealedInit

\* count_user_open_offers: expired offers no longer count.
count_user_open_offers(u) ==
    Cardinality({i \in DOMAIN offers : offers[i] # <<>> /\ offers[i].from = u
                                       /\ offers[i].expires >= now})

create_swap_offer(u, v, mine, theirs, duration) ==
    /\ Len(offers) < MaxOffers
    /\ shares[u] > 0 /\ shares[v] > 0
    /\ mine <= amount_of(u) /\ theirs <= amount_of(v)
    /\ count_user_open_offers(u) < MaxOpenOffers
    /\ offers' = Append(offers, [from |-> u, to |-> v, give |-> mine, take |-> theirs,
                                 expires |-> now + duration])
    /\ UNCHANGED <<base_vars, phantom, sealed_vars>>

\* Mutant: the acceptance converts the amounts but forgets one direction.
accept_swap_offer_one_sided(id) ==
    LET o    == offers[id]
        give == amount_to_shares(totalShares, totalDeposited, o.give)
        take == amount_to_shares(totalShares, totalDeposited, o.take)
        mine == shares[o.from] - give + take
    IN  /\ o # <<>> /\ now <= o.expires
        /\ totalShares > 0 /\ totalDeposited > 0 /\ give > 0 /\ take > 0
        /\ mine >= 0 /\ shares[o.to] - take + give >= 0
        /\ shares' = [shares EXCEPT ![o.from] = mine]
        /\ offers' = [offers EXCEPT ![id] = <<>>]
        /\ phantom' = phantom + IF o.from = o.to THEN give - take ELSE 0
        /\ UNCHANGED <<now, wallet, held, totalShares, totalDeposited, rewardPool, sealed_vars>>

\* The amounts are converted at the price of the acceptance, not of the offer; a balance
\* that would go negative makes the call fail.  Both balances are read before either is
\* written: of an offer to oneself the second write stands.
accept_swap_offer(id) ==
    LET o      == offers[id]
        give   == amount_to_shares(totalShares, totalDeposited, o.give)
        take   == amount_to_shares(totalShares, totalDeposited, o.take)
        mine   == shares[o.from] - give + take
        theirs == shares[o.to] - take + give
    IN  /\ o # <<>> /\ now <= o.expires
        /\ totalShares > 0 /\ totalDeposited > 0 /\ give > 0 /\ take > 0
        /\ mine >= 0 /\ theirs >= 0
        /\ shares' = [shares EXCEPT ![o.from] = mine, ![o.to] = theirs]
        /\ offers' = [offers EXCEPT ![id] = <<>>]
        /\ phantom' = phantom + IF o.from = o.to THEN give - take ELSE 0
        /\ UNCHANGED <<now, wallet, held, totalShares, totalDeposited, rewardPool, sealed_vars>>

cancel_swap_offer(id) ==
    /\ offers[id] # <<>>
    /\ offers' = [offers EXCEPT ![id] = <<>>]
    /\ UNCHANGED <<base_vars, phantom, sealed_vars>>

-------------------------------------------------------------------------------
\* The whole position goes into escrow; the pool totals do not notice.
list_position_for_auction(u, min, commit, reveal) ==
    /\ Len(listings) < MaxListings
    /\ commit > 0 /\ reveal > 0
    /\ \A i \in DOMAIN listings : listings[i].seller = u => listings[i].settled
    /\ shares[u] > 0
    /\ shares' = [shares EXCEPT ![u] = 0]
    /\ listings' = Append(listings,
            [seller |-> u, min |-> min, commitBy |-> now + commit,
             revealBy |-> now + commit + reveal, highest |-> 0, winner |-> Nobody,
             settled |-> FALSE, shares |-> shares[u]])
    /\ sealed' = Append(sealed, [v \in Users |-> NoBid])
    /\ UNCHANGED <<now, wallet, held, totalShares, totalDeposited, rewardPool, swap_vars, kept>>

\* The first commitment locks the minimum; a later one only replaces the hash.
commit_bid(u, id, amount) ==
    LET old    == sealed[id][u]
        locked == IF old = NoBid THEN listings[id].min ELSE old.locked
        bids   == [sealed[id] EXCEPT ![u] = [old EXCEPT !.hash = amount, !.locked = locked]]
    IN  /\ ~listings[id].settled /\ now <= listings[id].commitBy
        /\ ~old.revealed
        /\ sealed' = [sealed EXCEPT ![id] = bids]
        /\ IF old = NoBid THEN pull(u, listings[id].min) ELSE UNCHANGED <<wallet, held>>
        /\ UNCHANGED <<now, pool, rewardPool, swap_vars, listings, kept>>

\* A revealed amount below the minimum is ignored; the first of equal bids leads.
reveal_bid(u, id) ==
    LET l      == listings[id]
        bid    == sealed[id][u]
        amount == bid.hash
        bids   == [sealed[id] EXCEPT ![u] = [bid EXCEPT !.locked = amount, !.revealed = TRUE]]
    IN  /\ ~l.settled /\ l.commitBy < now /\ now <= l.revealBy
        /\ bid # NoBid /\ ~bid.revealed
        /\ amount >= l.min
        /\ pull(u, amount - bid.locked)
        /\ sealed' = [sealed EXCEPT ![id] = bids]
        /\ listings' = IF amount > l.highest
                       THEN [listings EXCEPT ![id] = [l EXCEPT !.highest = amount, !.winner = u]]
                       ELSE listings
        /\ UNCHANGED <<now, pool, rewardPool, swap_vars, kept>>

settle_auction(id) ==
    LET l == listings[id]
    IN  /\ ~l.settled /\ now > l.revealBy
        /\ listings' = [listings EXCEPT ![id] = [l EXCEPT !.settled = TRUE]]
        /\ \/ l.winner # Nobody /\ push(l.seller, l.highest)
              /\ shares' = [shares EXCEPT ![l.winner] = @ + l.shares]
           \/ l.winner = Nobody /\ UNCHANGED <<wallet, held>>
              /\ shares' = [shares EXCEPT ![l.seller] = @ + l.shares]
        /\ UNCHANGED <<now, totalShares, totalDeposited, rewardPool, swap_vars, sealed, kept>>

\* Mutant: the sweep pays but does not clear the locked amount.
refund_losing_bids_kept(id) ==
    LET l      == listings[id]
        losers == {u \in Users : u # l.winner /\ sealed[id][u].locked > 0}
        refund == {u \in losers : sealed[id][u].revealed}
        total(s) == sum([u \in s |-> sealed[id][u].locked])
    IN  /\ l.settled
        /\ held >= total(refund)
        /\ wallet' = [a \in Accounts |->
                        wallet[a] + IF a \in refund THEN sealed[id][a].locked ELSE 0]
        /\ held' = held - total(refund)
        /\ UNCHANGED <<now, pool, rewardPool, swap_vars, listings, sealed, kept>>

\* Revealed losers get their bid back; a bid never revealed is forfeited.
refund_losing_bids(id) ==
    LET l       == listings[id]
        losers  == {u \in Users : u # l.winner /\ sealed[id][u].locked > 0}
        refund  == {u \in losers : sealed[id][u].revealed}
        total(s) == sum([u \in s |-> sealed[id][u].locked])
        forfeit == total(losers \ refund)
        leaving == total(refund) + IF HasTreasury THEN forfeit ELSE 0
        bids    == [u \in Users |-> IF u \in losers THEN [sealed[id][u] EXCEPT !.locked = 0] ELSE sealed[id][u]]
    IN  /\ l.settled
        /\ held >= leaving
        /\ wallet' = [a \in Accounts |->
                        wallet[a] + CASE a \in refund -> sealed[id][a].locked
                                      [] a = Admin /\ HasTreasury -> forfeit
                                      [] OTHER -> 0]
        /\ held' = held - leaving
        /\ sealed' = [sealed EXCEPT ![id] = bids]
        /\ kept' = kept + IF HasTreasury THEN 0 ELSE forfeit
        /\ UNCHANGED <<now, pool, rewardPool, swap_vars, listings>>

SwapNext ==
    \/ \E p \in OfferPairs, a, b \in Amounts, d \in Durations :
           create_swap_offer(p[1], p[2], a, b, d)
    \/ \E id \in DOMAIN offers : accept_swap_offer(id) \/ cancel_swap_offer(id)
    \/ \E u \in Users : leave(u) /\ UNCHANGED market_vars

SealedNext ==
    \/ \E u \in Users, m \in Amounts, c, r \in Durations : list_position_for_auction(u, m, c, r)
    \/ \E id \in DOMAIN listings, u \in Users : (\E a \in Amounts : commit_bid(u, id, a)) \/ reveal_bid(u, id)
    \/ \E id \in DOMAIN listings : settle_auction(id) \/ refund_losing_bids(id)

MarketTick == tick /\ UNCHANGED <<wallet, held, pool, rewardPool, market_vars>>

MarketNext == SwapNext \/ SealedNext \/ MarketTick

-------------------------------------------------------------------------------
\* No trade between two positions mints or loses a share: balances and escrowed positions
\* add up to TotalShares and none is negative, whatever order offers, exits, listings and
\* settlements come in; an accepted offer to oneself makes exactly the difference of its
\* two amounts.
shares_only_change_hands ==
    LET inEscrow == {i \in DOMAIN listings : ~listings[i].settled}
    IN  /\ \A u \in Users : shares[u] >= 0
        /\ totalShares + phantom = sum(shares) + sum([i \in inEscrow |-> listings[i].shares])

\* What the contract holds beyond its own is the bids of the live auctions and, of the
\* settled ones, of the losers not swept yet.
sealed_balanced ==
    LET owed(i) == sum([u \in {u \in Users : ~(listings[i].settled /\ u = listings[i].winner)} |-> sealed[i][u].locked])
    IN  held = totalDeposited + rewardPool + kept + sum([i \in DOMAIN listings |-> owed(i)])

===============================================================================
