-------------------------------- MODULE Mirroring --------------------------------
(***************************************************************************)
(* Followers copy a share of what their leader stakes and unstakes.  Any   *)
(* account may be named as leader.                                         *)
(***************************************************************************)
EXTENDS PoolBase

CONSTANTS
    MirrorRatios,       \* mirror_ratio_bps values
    MaxMirror,          \* max_mirror_amount
    MirrorFee,          \* leader_fee_bps
    MaxFollowers,       \* 10 in the code
    MaxUnbacked         \* model bound on the deposits no tokens were brought for

MAX_LEADER_FEE_BPS == 1000
NoMirror == [leader |-> Nobody, ratio |-> 0, max |-> 0, fee |-> 0]

VARIABLE mirrors    \* MirrorConfig of each user and follower list of each leader
mirror_vars == <<mirrors>>

\* `unbacked' (deposits recorded with no tokens) is history.
MirrorInit ==
    mirrors = [cfg |-> [u \in Users |-> NoMirror], followers |-> [a \in Accounts |-> <<>>],
               unbacked |-> 0]

add_follower(lists, leader, f) ==
    IF Contains(lists[leader], f) THEN lists ELSE [lists EXCEPT ![leader] = Append(@, f)]

remove_follower(lists, leader, f) == [lists EXCEPT ![leader] = SelectSeq(@, LAMBDA x : x # f)]

\* Mutant: the follower stays in the list of the leader it leaves.
unfollowed_never(f, leader) == mirrors.followers

\* The lists once a follower has left its leader of now for another.
unfollowed(f, leader) ==
    IF mirrors.cfg[f] # NoMirror /\ mirrors.cfg[f].leader # leader
    THEN remove_follower(mirrors.followers, mirrors.cfg[f].leader, f) ELSE mirrors.followers

set_mirror_config(f, leader, ratio, max, fee) ==
    LET lists == unfollowed(f, leader)
    IN  /\ f # leader /\ 0 < ratio /\ ratio <= BPS_DENOMINATOR /\ max > 0 /\ fee <= MAX_LEADER_FEE_BPS
        /\ Contains(lists[leader], f) \/ Len(lists[leader]) < MaxFollowers
        /\ mirrors' = [mirrors EXCEPT
               !.cfg[f] = [leader |-> leader, ratio |-> ratio, max |-> max, fee |-> fee],
               !.followers = add_follower(lists, leader, f)]
        /\ UNCHANGED base_vars

cancel_mirroring(f) ==
    /\ mirrors.cfg[f] # NoMirror
    /\ mirrors' = [mirrors EXCEPT !.cfg[f] = NoMirror,
                                  !.followers = remove_follower(@, mirrors.cfg[f].leader, f)]
    /\ UNCHANGED base_vars

\* State of the pool the mirrored actions work on, one follower after the other.
here == [shares |-> shares, total |-> totalShares, deposited |-> totalDeposited, unbacked |-> mirrors.unbacked]

mirror_amount(f, amount) == Min({(amount * mirrors.cfg[f].ratio) \div BPS_DENOMINATOR, mirrors.cfg[f].max})

follows(f, leader) == mirrors.cfg[f] # NoMirror /\ mirrors.cfg[f].leader = leader

\* The follower must have the tokens, but none are taken.
mirror_stake(s, f, leader, amount) ==
    LET n == mirror_amount(f, amount)
        minted == amount_to_shares(s.total, s.deposited, n)
    IN  IF follows(f, leader) /\ n > 0 /\ wallet[f] >= n
        THEN [shares |-> [s.shares EXCEPT ![f] = @ + minted], total |-> s.total + minted,
              deposited |-> s.deposited + n, unbacked |-> s.unbacked + n]
        ELSE s

\* The follower's shares are burnt and nothing is paid.
mirror_unstake(s, f, leader, amount) ==
    LET n == mirror_amount(f, amount)
        out == shares_to_amount(s.total, s.deposited, n)
    IN  IF follows(f, leader) /\ n > 0 /\ s.shares[f] >= n
        THEN [shares |-> [s.shares EXCEPT ![f] = @ - n], total |-> s.total - n,
              deposited |-> s.deposited - out, unbacked |-> s.unbacked - out]
        ELSE s

written(s) ==
    /\ shares' = s.shares /\ totalShares' = s.total /\ totalDeposited' = s.deposited
    /\ mirrors' = [mirrors EXCEPT !.unbacked = s.unbacked]
    /\ UNCHANGED <<now, rewardPool>>

\* maybe_mirror_action comes last in a deposit and in an exit.
stake_mirrored(u, amount) ==
    LET minted == amount_to_shares(totalShares, totalDeposited, amount)
        own == [here EXCEPT !.shares[u] = @ + minted, !.total = @ + minted, !.deposited = @ + amount]
    IN  /\ mirrors.unbacked < MaxUnbacked
        /\ pull(u, amount)
        /\ written(FoldLeft(LAMBDA s, f : mirror_stake(s, f, u, amount), own, mirrors.followers[u]))

unstake_mirrored(u) ==
    LET amount == amount_of(u)
        own == [here EXCEPT !.shares[u] = 0, !.total = @ - shares[u], !.deposited = @ - amount]
    IN  /\ shares[u] > 0 /\ push(u, amount)
        /\ written(FoldLeft(LAMBDA s, f : mirror_unstake(s, f, u, amount), own, mirrors.followers[u]))

MirrorMoves ==
    \/ \E f \in Users, l \in Accounts, r \in MirrorRatios : set_mirror_config(f, l, r, MaxMirror, MirrorFee)
    \/ \E f \in Users : cancel_mirroring(f)
    \/ \E u \in Users : unstake_mirrored(u) \/ \E a \in Amounts : stake_mirrored(u, a)

-------------------------------------------------------------------------------
\* Each follower is in exactly the list of the leader it follows, once, and the deposits
\* lack exactly the tokens that mirrored stakes never brought.
mirrors_exact ==
    /\ \A f \in Users, l \in Accounts : Contains(mirrors.followers[l], f) <=> mirrors.cfg[f] # NoMirror /\ mirrors.cfg[f].leader = l
    /\ \A l \in Accounts : IsInjective(mirrors.followers[l])
    /\ totalShares = sum(shares)
    /\ held = totalDeposited + rewardPool - mirrors.unbacked

===============================================================================
