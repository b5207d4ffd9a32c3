-------------------------------- MODULE Contests --------------------------------
(***************************************************************************)
(* Three contests whose stakes and prizes the contract holds until they are*)
(* decided: the prediction market on the reward rate, the staking          *)
(* tournament and the lottery.                                             *)
(***************************************************************************)
EXTENDS PoolBase

CONSTANTS Rates,        \* reward rates the admin sets
          MaxScore      \* model bound on a tournament score

NoBet == [higher |-> FALSE, amount |-> 0]

VARIABLES
    rate,           \* RewardRateBps, which the market bets on
    market,         \* PredictionMarket; status "none", "open", "resolved"
    bets,           \* the recorded bet of each user
    tournament,     \* Tournament; status "none", "open", "finalized"
    score,          \* TournamentScore
    entrants,       \* TournamentParticipants, in order of entry
    lottery         \* LotteryConfig; status "none", "open", "drawn"

prediction_vars == <<rate, market, bets>>
tournament_vars == <<tournament, score, entrants>>
contest_vars    == <<prediction_vars, tournament_vars, lottery>>

PredictionInit ==
    /\ rate \in Rates
    /\ market = [status |-> "none", closesAt |-> 0, target |-> 0, rate |-> 0,
                 higher |-> 0, lower |-> 0, outcome |-> "none"]
    /\ bets = [u \in Users |-> NoBet]

TournamentInit ==
    /\ tournament = [status |-> "none", prize |-> 0, endsAt |-> 0]
    /\ score = [u \in Users |-> 0] /\ entrants = <<>>

LotteryInit == lottery = [status |-> "none", prize |-> 0, drawAt |-> 0]

ContestInit == PredictionInit /\ TournamentInit /\ LotteryInit

\* set_reward_rate.
set_reward_rate(r) ==
    /\ rate' = r
    /\ UNCHANGED <<base_vars, market, bets, tournament_vars, lottery>>

\* There is one market for the life of the contract: the record is never removed.
open_prediction_market(open, target) ==
    /\ market.status = "none"
    /\ now + open < now + target
    /\ market' = [market EXCEPT !.status = "open", !.closesAt = now + open,
                                !.target = now + target, !.rate = rate]
    /\ UNCHANGED <<base_vars, rate, bets, tournament_vars, lottery>>

\* A second bet replaces the record of the first; both stay in the pots.
place_bet(u, higher, amount) ==
    /\ shares[u] > 0
    /\ market.status = "open" /\ now <= market.closesAt
    /\ pull(u, amount)
    /\ market' = IF higher THEN [market EXCEPT !.higher = @ + amount]
                           ELSE [market EXCEPT !.lower = @ + amount]
    /\ bets' = [bets EXCEPT ![u] = [higher |-> higher, amount |-> amount]]
    /\ UNCHANGED <<now, pool, rewardPool, rate, tournament_vars, lottery>>

resolve_market ==
    /\ market.status = "open" /\ now >= market.target
    /\ market' = [market EXCEPT !.status = "resolved",
                    !.outcome = CASE rate > market.rate -> "higher"
                                  [] rate < market.rate -> "lower"
                                  [] OTHER -> "tie"]
    /\ UNCHANGED <<base_vars, rate, bets, tournament_vars, lottery>>

\* What a recorded bet is worth once the market is resolved.
winnings(b) ==
    LET won     == market.outcome = IF b.higher THEN "higher" ELSE "lower"
        winning == IF b.higher THEN market.higher ELSE market.lower
        losing  == IF b.higher THEN market.lower ELSE market.higher
    IN  CASE market.outcome = "tie" -> b.amount
          [] won -> b.amount + (b.amount * losing) \div winning
          [] OTHER -> 0

\* Mutant: the bet is paid and kept.
claim_prediction_winnings_kept(u) ==
    /\ market.status = "resolved" /\ bets[u] # NoBet
    /\ push(u, winnings(bets[u]))
    /\ UNCHANGED <<now, pool, rewardPool, rate, market, bets, tournament_vars, lottery>>

claim_prediction_winnings(u) ==
    /\ market.status = "resolved" /\ bets[u] # NoBet
    /\ push(u, winnings(bets[u]))
    /\ bets' = [bets EXCEPT ![u] = NoBet]
    /\ UNCHANGED <<now, pool, rewardPool, rate, market, tournament_vars, lottery>>

PredictionNext ==
    \/ \E r \in Rates : set_reward_rate(r)
    \/ \E o, t \in Durations : open_prediction_market(o, t)
    \/ \E u \in Users, h \in BOOLEAN, a \in Amounts : place_bet(u, h, a)
    \/ resolve_market
    \/ \E u \in Users : claim_prediction_winnings(u)

-------------------------------------------------------------------------------
\* One tournament, for the life of the contract.
create_tournament(prize, duration) ==
    /\ tournament.status = "none" /\ duration > 0
    /\ pull(Admin, prize)
    /\ tournament' = [status |-> "open", prize |-> prize, endsAt |-> now + duration]
    /\ UNCHANGED <<now, pool, rewardPool, prediction_vars, score, entrants, lottery>>

\* Outside the tournament's ledgers the call succeeds and scores nothing.
update_tournament_score(u, points) ==
    /\ tournament.status = "open" /\ now < tournament.endsAt
    /\ score[u] + points <= MaxScore
    /\ score' = [score EXCEPT ![u] = @ + points]
    /\ entrants' = IF Contains(entrants, u) THEN entrants ELSE Append(entrants, u)
    /\ UNCHANGED <<base_vars, prediction_vars, tournament, lottery>>

\* Highest score; of equals the one with the smallest address, which any of them may be.
finalize_tournament ==
    LET best == {u \in ToSet(entrants) :
                    score[u] > 0 /\ \A v \in ToSet(entrants) : score[v] <= score[u]}
    IN  /\ tournament.status = "open" /\ now >= tournament.endsAt
        /\ tournament' = [tournament EXCEPT !.status = "finalized"]
        /\ \/ best = {} /\ UNCHANGED <<wallet, held>>
           \/ \E w \in best : push(w, tournament.prize)
        /\ UNCHANGED <<now, pool, rewardPool, prediction_vars, score, entrants, lottery>>

create_lottery(prize, wait) ==
    /\ lottery.status # "open"
    /\ pull(Admin, prize)
    /\ lottery' = [status |-> "open", prize |-> prize, drawAt |-> now + wait]
    /\ UNCHANGED <<now, pool, rewardPool, prediction_vars, tournament_vars>>

\* Any staker whose position is worth a token may be drawn; without one the call fails.
draw_lottery ==
    /\ lottery.status = "open" /\ now >= lottery.drawAt
    /\ \E w \in {u \in Users : amount_of(u) > 0} : push(w, lottery.prize)
    /\ lottery' = [lottery EXCEPT !.status = "drawn"]
    /\ UNCHANGED <<now, pool, rewardPool, prediction_vars, tournament_vars>>

PrizeNext ==
    \/ \E a \in Amounts, d \in Durations : create_tournament(a, d) \/ create_lottery(a, d)
    \/ \E u \in Users, p \in Amounts : update_tournament_score(u, p)
    \/ finalize_tournament
    \/ draw_lottery

ContestTick == tick /\ UNCHANGED <<wallet, held, pool, rewardPool, contest_vars>>

ContestNext == PredictionNext \/ PrizeNext \/ ContestTick

-------------------------------------------------------------------------------
\* The tokens beyond principal and pool cover every payout still to come.
contests_covered ==
    LET owed == CASE market.status = "resolved" -> 
                     sum([u \in {u \in Users : bets[u] # NoBet} |-> winnings(bets[u])])
                  [] OTHER -> market.higher + market.lower
    IN  held >= totalDeposited + rewardPool + owed
                + (IF tournament.status = "open" THEN tournament.prize ELSE 0)
                + (IF lottery.status = "open" THEN lottery.prize ELSE 0)

===============================================================================
