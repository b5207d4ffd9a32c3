---------------------------- MODULE CapacityAuction ----------------------------
(***************************************************************************)
(* The auction of pool spots: bids are escrowed, topped up, ranked and, at *)
(* the close, staked or refunded.  Rewards are not configured, so crediting*)
(* a stake is the minting of its shares.                                   *)
(***************************************************************************)
EXTENDS PoolBase

CONSTANTS Spots, AuctionCap    \* spots offered; pool cap, 0 = none

VARIABLES
    auction,    \* CapacityAuction; status "none", "open" or "finalized"
    bids,       \* AuctionBids, in order of first bid
    spotHolders,\* granted pool spots
    auctionMode,\* deposits are reserved for spot holders
    depositsOpen\* neither paused, stopped nor shutting down

auction_vars == <<auction, bids, spotHolders, auctionMode, depositsOpen>>

AuctionInit ==
    /\ auction = [status |-> "none", minBid |-> 0, endsAt |-> 0, escrowed |-> 0]
    /\ bids = <<>> /\ spotHolders = {} /\ auctionMode = FALSE /\ depositsOpen = TRUE

start_capacity_auction(min, duration) ==
    /\ duration > 0
    /\ auction.status # "open"
    /\ auction' = [status |-> "open", minBid |-> min, endsAt |-> now + duration,
                   escrowed |-> 0]
    /\ bids' = <<>>
    /\ UNCHANGED <<base_vars, spotHolders, auctionMode, depositsOpen>>

\* A second bid tops the first up and keeps its time.
place_bid(u, amount) ==
    LET mine  == {i \in DOMAIN bids : bids[i].bidder = u}
        prior == IF mine = {} THEN 0 ELSE bids[CHOOSE i \in mine : TRUE].amount
    IN  /\ auction.status = "open" /\ now < auction.endsAt
        /\ prior + amount >= auction.minBid
        /\ pull(u, amount)
        /\ bids' = IF mine = {}
                   THEN Append(bids, [bidder |-> u, amount |-> amount, at |-> now])
                   ELSE [i \in DOMAIN bids |->
                            IF i \in mine THEN [bids[i] EXCEPT !.amount = @ + amount]
                                          ELSE bids[i]]
        /\ auction' = [auction EXCEPT !.escrowed = @ + amount]
        /\ UNCHANGED <<now, pool, rewardPool, spotHolders, auctionMode, depositsOpen>>

outbids(a, b) == a.amount > b.amount \/ (a.amount = b.amount /\ a.at < b.at)

\* sorted_auction_bids: insertion behind every bid that is not outbid, so that
\* full ties keep the order of arrival.
sorted_auction_bids ==
    FoldLeft(LAMBDA sorted, b :
                 LET before == {j \in DOMAIN sorted : outbids(b, sorted[j])}
                     at     == IF before = {} THEN Len(sorted) + 1 ELSE Min(before)
                 IN  InsertAt(sorted, at, b),
             <<>>, bids)

\* Mutant: the refund of a bid that does not fit the cap is forgotten.
settle_bid_without_refund(r, b) ==
    LET minted == amount_to_shares(r.S, r.D, b.amount)
        wins   == /\ depositsOpen /\ r.rank < Spots
                  /\ AuctionCap = 0 \/ r.D + b.amount <= AuctionCap
    IN  IF wins
        THEN [r EXCEPT !.rank = @ + 1, !.S = @ + minted, !.D = @ + b.amount,
                       !.shares[b.bidder] = @ + minted, !.winners = @ \cup {b.bidder}]
        ELSE [r EXCEPT !.rank = @ + 1]

\* One turn of finalize_capacity_auction's loop, in rank order: stake the bid if
\* a spot is left and it fits the cap, else refund it.
settle_bid(r, b) ==
    LET minted == amount_to_shares(r.S, r.D, b.amount)
        wins   == /\ depositsOpen /\ r.rank < Spots
                  /\ AuctionCap = 0 \/ r.D + b.amount <= AuctionCap
    IN  IF wins
        THEN [r EXCEPT !.rank = @ + 1, !.S = @ + minted, !.D = @ + b.amount,
                       !.shares[b.bidder] = @ + minted, !.winners = @ \cup {b.bidder}]
        ELSE [r EXCEPT !.rank = @ + 1, !.wallet[b.bidder] = @ + b.amount,
                       !.refunded = @ + b.amount]

finalize_capacity_auction ==
    LET r == FoldLeft(settle_bid,
                      [rank |-> 0, S |-> totalShares, D |-> totalDeposited,
                       shares |-> shares, wallet |-> wallet, winners |-> {},
                       refunded |-> 0],
                      sorted_auction_bids)
    IN  /\ auction.status = "open" /\ now >= auction.endsAt
        /\ shares' = r.shares /\ totalShares' = r.S /\ totalDeposited' = r.D
        /\ wallet' = r.wallet /\ held' = held - r.refunded
        /\ spotHolders' = spotHolders \cup r.winners
        /\ auction' = [auction EXCEPT !.status = "finalized", !.escrowed = 0]
        /\ bids' = <<>>
        /\ UNCHANGED <<now, rewardPool, auctionMode, depositsOpen>>

set_auction_mode(enabled) ==
    /\ auctionMode' = enabled
    /\ UNCHANGED <<base_vars, auction, bids, spotHolders, depositsOpen>>

\* A direct stake, which asks require_pool_spot.
require_pool_spot(u) == auctionMode => u \in spotHolders

stake_with_spot(u, amount) ==
    /\ depositsOpen /\ require_pool_spot(u)
    /\ AuctionCap > 0 => totalDeposited + amount <= AuctionCap
    /\ pull(u, amount)
    /\ mint_to(u, amount)
    /\ UNCHANGED <<now, rewardPool, auction_vars>>

\* pause, unpause, emergency_stop, start_graceful_shutdown.
open_or_close_deposits ==
    /\ depositsOpen' = ~depositsOpen
    /\ UNCHANGED <<base_vars, auction, bids, spotHolders, auctionMode>>

AuctionNext ==
    \/ \E min \in Amounts, d \in Durations : start_capacity_auction(min, d)
    \/ \E u \in Users, a \in Amounts : place_bid(u, a)
    \/ finalize_capacity_auction
    \/ \E e \in BOOLEAN : set_auction_mode(e)
    \/ \E u \in Users, a \in Amounts : stake_with_spot(u, a)
    \/ open_or_close_deposits
    \/ tick /\ UNCHANGED <<wallet, held, pool, rewardPool, auction_vars>>

-------------------------------------------------------------------------------
\* The tokens beyond principal and reward pool are exactly the live bids.
bids_balanced ==
    LET escrow == FoldLeft(LAMBDA s, b : s + b.amount, 0, bids)
    IN  /\ held = totalDeposited + rewardPool + escrow
        /\ auction.escrowed = escrow

===============================================================================
