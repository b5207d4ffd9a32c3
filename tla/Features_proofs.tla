---------------------------- MODULE Features_proofs ----------------------------
(***************************************************************************)
(* More theorems about the features that hold other people's tokens: the   *)
(* ballots, the safeguards, the strategies tokens are put to work in, the  *)
(* pipeline of a claim, and the sub-pools.  The inductive invariants are   *)
(* built as in Funds_proofs.                                               *)
(***************************************************************************)
EXTENDS Funds_proofs

-------------------------------------------------------------------------------
(* Ballots in categories, expedited ones, and delegation that expires. *)

\* In these focuses only ballots and delegations run.
LEMMA BallotStep ==
    ASSUME focus \in {"ballots", "lending"}, [FundsNext]_funds_vars
    PROVE  UNCHANGED focus /\ (BallotMoves \/ LentMoves \/ BallotTick \/ UNCHANGED <<base_vars, ballot_vars>>)
  BY DEF FundsNext, funds_vars, capacity_step, market_step, contest_step, campaign_step, claim_step,
         subpool_step, position_step, outside_step, ballot_step, safeguard_step, wind_step, shared_step

TermsOf == Nat \X Nat \X Nat
Ballot == [proposer : Users, quorum : Nat, threshold : Nat, ends : Nat, delay : Nat, bond : Nat, for : Nat,
           against : Nat, voted : SUBSET (Users \X Nat), vetoed : BOOLEAN, enacted : BOOLEAN, refunded : BOOLEAN]
BallotSheet == [props : Seq(Ballot), terms : TermsOf, open : Nat, set : Nat]

weights_of(p) == [b \in p.voted |-> b[2]]

\* A ballot in order: every vote counted once, and a bond only goes back with the enactment.
ballot_counted(p) ==
    /\ p \in Ballot /\ IsFiniteSet(p.voted)
    /\ p.for + p.against = sum(weights_of(p))
    /\ \A b, c \in p.voted : b[1] = c[1] => b = c
    /\ p.refunded => p.enacted

\* The bond the contract holds for a ballot, and all of them.
posted(p) == IF p.refunded THEN 0 ELSE p.bond
posted_in(ps) == sum([i \in DOMAIN ps |-> posted(ps[i])])

Lending == [to : Users \cup {Nobody}, expires : Int]
LentBooks ==
    /\ lent \in [rec : [Users -> Lending], list : [Users -> Seq(Users)]]
    /\ \A u \in Users : \A i, j \in DOMAIN lent.list[u] : lent.list[u][i] = lent.list[u][j] => i = j
    /\ \A d \in Users : lent.rec[d] # NotLent =>
          lent.rec[d].to \in Users /\ \E i \in DOMAIN lent.list[lent.rec[d].to] : lent.list[lent.rec[d].to][i] = d

BallotBooks ==
    /\ Books /\ LentBooks /\ ballots \in BallotSheet
    /\ \A i \in DOMAIN ballots.props : ballot_counted(ballots.props[i])
    /\ held = totalDeposited + rewardPool + posted_in(ballots.props)

LEMMA BallotsFinite ==
    ASSUME NEW ps, ps \in Seq(Ballot)
    PROVE  /\ DOMAIN ps = 1..Len(ps) /\ Len(ps) \in Nat /\ IsFiniteSet(DOMAIN ps)
           /\ \A i \in DOMAIN ps : ps[i] \in Ballot /\ posted(ps[i]) \in Nat
           /\ [i \in DOMAIN ps |-> posted(ps[i])] \in [DOMAIN ps -> Nat]
           /\ posted_in(ps) \in Nat
  <1> DEFINE f == [i \in DOMAIN ps |-> posted(ps[i])]
  <1>1. DOMAIN ps = 1..Len(ps) /\ Len(ps) \in Nat /\ \A i \in DOMAIN ps : ps[i] \in Ballot
    OBVIOUS
  <1>2. IsFiniteSet(1..Len(ps))
    <2>1. 1 \in Int /\ Len(ps) \in Int
      BY <1>1
    <2> QED BY ONLY <2>1, FS_Interval
  <1>3. IsFiniteSet(DOMAIN ps)
    BY <1>1, <1>2
  <1>4. \A i \in DOMAIN ps : posted(ps[i]) \in Nat
    BY <1>1 DEF posted, Ballot
  <1>5. f \in [DOMAIN ps -> Nat]
    BY <1>4
  <1> HIDE DEF f
  <1>6. sum(f) \in Nat
    BY ONLY <1>3, <1>5, SumNat
  <1> QED BY <1>1, <1>3, <1>4, <1>5, <1>6 DEF f, posted_in

LEMMA BallotBooksInit == ASSUME FundsInit PROVE BallotBooks
  <1>1. BaseInitWith(Purse) /\ Purse \in Nat /\ BallotInit /\ LentInit
    BY BaseAssumption DEF FundsInit, BaseInit
  <1>2. Books /\ held = totalDeposited + rewardPool /\ totalDeposited \in Nat /\ rewardPool \in Nat
    BY <1>1, BooksInit, BaseInitFacts
  <1>3. ballots.props = <<>> /\ ballots \in BallotSheet /\ DOMAIN ballots.props = {}
    BY <1>1, BallotAssumption DEF BallotInit, BallotSheet, TermsOf
  <1>4. posted_in(ballots.props) = 0
    <2> DEFINE S == DOMAIN ballots.props   f == [i \in S |-> posted(ballots.props[i])]
    <2>1. S = {} /\ IsFiniteSet(S)
      BY <1>3, FS_EmptySet
    <2>2. f \in [S -> Int] /\ \A i \in S : f[i] = 0
      BY <2>1
    <2>3. posted_in(ballots.props) = sum(f)
      BY DEF posted_in
    <2> HIDE DEF f, S
    <2>4. sum(f) = 0
      BY ONLY <2>1, <2>2, SumZero
    <2> QED BY <2>3, <2>4
  <1>5. LentBooks
    <2> DEFINE E == [u \in Users |-> <<>>]   R == [u \in Users |-> NotLent]
    <2>1. E \in [Users -> Seq(Users)] /\ \A u \in Users : DOMAIN E[u] = {}
      OBVIOUS
    <2>2. R \in [Users -> Lending] /\ \A u \in Users : R[u] = NotLent
      BY DEF NotLent, Lending
    <2>3. lent = [rec |-> R, list |-> E]
      BY <1>1 DEF LentInit
    <2> HIDE DEF E, R
    <2>4. lent.rec = R /\ lent.list = E /\ lent \in [rec : [Users -> Lending], list : [Users -> Seq(Users)]]
      BY <2>1, <2>2, <2>3
    <2> QED BY <2>1, <2>2, <2>4 DEF LentBooks
  <1>6. held = totalDeposited + rewardPool + posted_in(ballots.props)
    BY <1>2, <1>4
  <1> QED BY <1>2, <1>3, <1>5, <1>6 DEF BallotBooks

\* One ballot is written.
ballot_written(new, ps, p, q) == new \in Seq(Ballot) /\ (\A i \in DOMAIN new : ballot_counted(new[i])) /\ posted_in(new) = posted_in(ps) + posted(p) - posted(q)

LEMMA BallotWritten ==
    ASSUME NEW ps \in Seq(Ballot), \A i \in DOMAIN ps : ballot_counted(ps[i]), NEW id \in DOMAIN ps,
           NEW p, ballot_counted(p), NEW new, new = [ps EXCEPT ![id] = p]
    PROVE  ballot_written(new, ps, p, ps[id])
  <1>1. p \in Ballot
    BY DEF ballot_counted
  <1>2. /\ new \in Seq(Ballot) /\ DOMAIN new = DOMAIN ps /\ new[id] = p
        /\ \A i \in DOMAIN ps \ {id} : new[i] = ps[i]
    BY <1>1
  <1> DEFINE S == DOMAIN ps   f == [i \in S |-> posted(ps[i])]   g == [i \in S |-> posted(new[i])]
  <1>3. IsFiniteSet(S) /\ f \in [S -> Nat] /\ g \in [S -> Nat] /\ id \in S
    BY <1>2, BallotsFinite
  <1>4. f[id] = posted(ps[id]) /\ g[id] = posted(p) /\ \A i \in S \ {id} : g[i] = f[i]
    BY <1>2
  <1>5. posted_in(ps) = sum(f) /\ posted_in(new) = sum(g)
    BY <1>2 DEF posted_in
  <1>6. \A i \in DOMAIN new : ballot_counted(new[i])
    BY <1>2
  <1> HIDE DEF f, g, S
  <1>7. f \in [S -> Int] /\ g \in [S -> Int] /\ IsFiniteSet(S) /\ id \in S /\ \A i \in S \ {id} : g[i] = f[i]
    BY <1>3, <1>4
  <1>8. sum(g) = sum(f) + g[id] - f[id]
    BY ONLY <1>7, SumChange
  <1> QED BY <1>2, <1>4, <1>5, <1>6, <1>8 DEF ballot_written

\* A ballot is added.
LEMMA BallotAdded ==
    ASSUME NEW ps \in Seq(Ballot), \A i \in DOMAIN ps : ballot_counted(ps[i]),
           NEW p, ballot_counted(p), NEW new, new = Append(ps, p)
    PROVE  /\ new \in Seq(Ballot) /\ (\A i \in DOMAIN new : ballot_counted(new[i]))
           /\ posted_in(new) = posted_in(ps) + posted(p)
  <1> DEFINE k == Len(ps) + 1   S == DOMAIN ps   R == DOMAIN new
             f == [i \in S |-> posted(ps[i])]   g == [i \in R |-> posted(new[i])]
  <1>1. p \in Ballot
    BY DEF ballot_counted
  <1>2. /\ new \in Seq(Ballot) /\ R = S \cup {k} /\ k \notin S /\ new[k] = p
        /\ \A i \in S : new[i] = ps[i]
    BY <1>1
  <1>3. IsFiniteSet(R) /\ f \in [S -> Int] /\ g \in [R -> Int]
    <2>1. f \in [S -> Nat]
      BY BallotsFinite
    <2>2. IsFiniteSet(R) /\ g \in [R -> Nat]
      BY <1>2, BallotsFinite
    <2> HIDE DEF f, g, R, S
    <2> QED BY <2>1, <2>2
  <1>4. g[k] = posted(p) /\ (\A i \in S : g[i] = f[i])
    BY <1>2
  <1>5. posted_in(ps) = sum(f) /\ posted_in(new) = sum(g)
    BY DEF posted_in
  <1>6. \A i \in DOMAIN new : ballot_counted(new[i])
    BY <1>2
  <1>7. k \in R /\ S \subseteq R /\ k \notin S /\ (\A y \in R : y \in S \/ y = k)
    BY <1>2
  <1> HIDE DEF f, g, S, R, k
  <1>8. sum(g) = sum(f) + g[k]
    BY ONLY <1>3, <1>4, <1>7, SumExtend
  <1> QED BY <1>2, <1>4, <1>5, <1>6, <1>8

\* The books follow from the ballots that are written and the tokens that move.
LEMMA SheetKeeps ==
    ASSUME BallotBooks, NEW P, ballots' \in BallotSheet, ballots'.props = P,
           \A i \in DOMAIN P : ballot_counted(P[i]), Books', LentBooks', NEW x \in Int,
           posted_in(P) = posted_in(ballots.props) + x,
           held' - totalDeposited' - rewardPool' = held - totalDeposited - rewardPool + x
    PROVE  BallotBooks'
  <1> DEFINE a == held'   b == totalDeposited'   c == rewardPool'   y == posted_in(ballots.props)   z == posted_in(P)
  <1>1. a \in Int /\ b \in Int /\ c \in Int
    BY DEF Books
  <1>2. held \in Int /\ totalDeposited \in Int /\ rewardPool \in Int /\ y \in Int /\ held = totalDeposited + rewardPool + y
    BY BallotsFinite DEF BallotBooks, Books, BallotSheet
  <1>3. z = y + x /\ a - b - c = held - totalDeposited - rewardPool + x
    OBVIOUS
  <1> HIDE DEF a, b, c, y, z
  <1>4. a = b + c + z
    BY ONLY <1>1, <1>2, <1>3, x \in Int
  <1>5. held' = totalDeposited' + rewardPool' + posted_in(ballots'.props)
    BY <1>4 DEF a, b, c, z
  <1> QED BY <1>5 DEF BallotBooks

\* A vote counted once more.
LEMMA VoteCounted ==
    ASSUME NEW p, ballot_counted(p), NEW u \in Users, ~\E b \in p.voted : b[1] = u, NEW s \in BOOLEAN, NEW w \in Nat,
           NEW q, q = counted(p, u, s, w)
    PROVE  ballot_counted(q) /\ posted(q) = posted(p)
  <1> DEFINE x == IF s THEN p.for + w ELSE p.for   y == IF s THEN p.against ELSE p.against + w   b == <<u, w>>
             V == p.voted \cup {b}   f == weights_of(p)   g == weights_of(q)
  <1>1. p \in Ballot /\ IsFiniteSet(p.voted) /\ p.voted \subseteq Users \X Nat /\ p.for \in Nat /\ p.against \in Nat
    BY DEF ballot_counted, Ballot
  <1>2. x \in Nat /\ y \in Nat /\ x + y = p.for + p.against + w
    BY <1>1
  <1>3. b \in Users \X Nat /\ b[1] = u /\ b[2] = w /\ b \notin p.voted
    OBVIOUS
  <1> HIDE DEF b
  <1>4. V \subseteq Users \X Nat /\ IsFiniteSet(V)
    BY <1>1, <1>3, FS_AddElement
  <1>5. q = [p EXCEPT !.for = x, !.against = y, !.voted = V]
    BY DEF counted, b
  <1> HIDE DEF x, y, V
  <1>6. q \in Ballot /\ q.for = x /\ q.against = y /\ q.voted = V /\ q.refunded = p.refunded /\ q.enacted = p.enacted /\ q.bond = p.bond
    BY <1>1, <1>2, <1>4, <1>5 DEF Ballot
  <1>7. /\ b \in V /\ p.voted \subseteq V /\ b \notin p.voted /\ (\A c \in V : c \in p.voted \/ c = b)
    BY <1>3 DEF V
  <1>8. f \in [p.voted -> Int] /\ g \in [V -> Int] /\ g[b] = w /\ \A c \in p.voted : g[c] = f[c]
    BY <1>1, <1>3, <1>4, <1>6, <1>7 DEF weights_of
  <1>9. sum(g) = sum(f) + w /\ sum(f) \in Int
    <2> DEFINE S == p.voted
    <2> HIDE DEF f, g, S
    <2>1. /\ IsFiniteSet(V) /\ b \in V /\ S \subseteq V /\ b \notin S /\ (\A c \in V : c \in S \/ c = b)
          /\ f \in [S -> Int] /\ g \in [V -> Int] /\ \A c \in S : g[c] = f[c]
      BY <1>4, <1>7, <1>8 DEF S
    <2>2. sum(g) = sum(f) + g[b]
      BY ONLY <2>1, SumExtend
    <2>3. IsFiniteSet(S) /\ f \in [S -> Int]
      BY <1>1, <1>8 DEF S
    <2>4. sum(f) \in Int
      BY ONLY <2>3, SumType
    <2> QED BY <1>8, <2>2, <2>4
  <1>10. q.for + q.against = sum(g)
    <2>1. p.for + p.against = sum(f)
      BY DEF ballot_counted
    <2> HIDE DEF f, g
    <2> QED BY ONLY <1>1, <1>2, <1>6, <1>9, <2>1
  <1>11. \A c, d \in q.voted : c[1] = d[1] => c = d
    BY <1>3, <1>6, <1>7 DEF ballot_counted
  <1>12. q.refunded => q.enacted
    BY <1>6 DEF ballot_counted
  <1> QED BY <1>4, <1>6, <1>10, <1>11, <1>12 DEF ballot_counted, posted

\* A write that touches neither the votes nor the bond.
LEMMA BallotFlagged ==
    ASSUME NEW p, ballot_counted(p), NEW q \in Ballot, q.for = p.for, q.against = p.against, q.voted = p.voted,
           q.refunded => q.enacted
    PROVE  ballot_counted(q)
  BY DEF ballot_counted, weights_of

\* A new ballot has no votes.
LEMMA BallotNew ==
    ASSUME NEW u \in Users, NEW t \in TermsOf, NEW n \in Nat, NEW d \in Nat, now \in Nat,
           NEW p, p = proposal(u, t, n, d)
    PROVE  ballot_counted(p) /\ posted(p) = n
  <1>1. t[1] \in Nat /\ t[2] \in Nat /\ t[3] \in Nat /\ now + t[3] \in Nat
    BY DEF TermsOf
  <1> DEFINE e == now + t[3]
  <1>2. /\ p \in Ballot /\ p.for = 0 /\ p.against = 0 /\ p.voted = {} /\ p.refunded = FALSE /\ p.enacted = FALSE /\ p.bond = n
    <2>1. e \in Nat
      BY <1>1
    <2>2. p = [proposer |-> u, quorum |-> t[1], threshold |-> t[2], ends |-> e, delay |-> d, bond |-> n,
               for |-> 0, against |-> 0, voted |-> {}, vetoed |-> FALSE, enacted |-> FALSE, refunded |-> FALSE]
      BY DEF proposal
    <2> HIDE DEF e
    <2> QED BY <1>1, <2>1, <2>2 DEF Ballot
  <1>3. IsFiniteSet(p.voted)
    BY <1>2, FS_EmptySet
  <1>4. sum(weights_of(p)) = 0
    <2> DEFINE S == p.voted   f == weights_of(p)
    <2>1. IsFiniteSet(S) /\ f \in [S -> Int] /\ \A x \in S : f[x] = 0
      BY <1>2, <1>3 DEF weights_of
    <2> HIDE DEF f, S
    <2>2. sum(f) = 0
      BY ONLY <2>1, SumZero
    <2> QED BY <2>2 DEF f
  <1> QED BY <1>2, <1>3, <1>4 DEF ballot_counted, posted

\* The delegators whose stake backs u at ledger l, by their place in the list of u.
backers(u, l) == {i \in DOMAIN lent.list[u] : is_delegation_active_at(lent.list[u][i], l) /\ lent.rec[lent.list[u][i]].to = u}
back_of(u, l) == [i \in backers(u, l) |-> amount_of(lent.list[u][i])]

LEMMA BackTyped ==
    ASSUME Books, LentBooks, NEW u \in Users, NEW l
    PROVE  /\ IsFiniteSet(backers(u, l)) /\ back_of(u, l) \in [backers(u, l) -> Nat] /\ sum(back_of(u, l)) \in Nat
           /\ amount_of(u) \in Nat
           /\ effective_vote_weight_at_ledger(u, l)
                = (IF is_delegation_active_at(u, l) THEN 0 ELSE amount_of(u)) + sum(back_of(u, l))
  <1> DEFINE L == lent.list[u]   S == backers(u, l)   f == back_of(u, l)
  <1>1. L \in Seq(Users)
    BY DEF LentBooks
  <1>2. S \subseteq DOMAIN L
    BY DEF backers
  <1>3. IsFiniteSet(DOMAIN L)
    <2>1. DOMAIN L = 1..Len(L) /\ 1 \in Int /\ Len(L) \in Int
      BY <1>1
    <2> HIDE DEF L
    <2>2. IsFiniteSet(1..Len(L))
      BY ONLY <2>1, FS_Interval
    <2> QED BY <2>1, <2>2
  <1>4. \A v \in Users : amount_of(v) \in Nat
    BY AmountBound DEF Books
  <1>5. \A i \in DOMAIN L : L[i] \in Users
    BY <1>1
  <1>6. f \in [S -> Nat]
    BY <1>2, <1>4, <1>5 DEF back_of
  <1>7. effective_vote_weight_at_ledger(u, l) = (IF is_delegation_active_at(u, l) THEN 0 ELSE amount_of(u)) + sum(back_of(u, l))
    BY DEF effective_vote_weight_at_ledger, back_of, backers
  <1>8. IsFiniteSet(S)
    BY <1>2, <1>3, FS_Subset
  <1> HIDE DEF S, f
  <1>9. sum(f) \in Nat
    BY ONLY <1>6, <1>8, SumNat
  <1> QED BY <1>4, <1>6, <1>7, <1>8, <1>9 DEF S, f

LEMMA BallotVoteKeeps ==
    ASSUME BallotBooks, NEW u \in Users, NEW id \in DOMAIN ballots.props, NEW s \in BOOLEAN,
           vote_categorized_proposal(u, id, s)
    PROVE  BallotBooks'
  <1> DEFINE B == ballots   w == effective_vote_weight_at_ledger(u, now)   p == B.props[id]   q == counted(p, u, s, w)
             P == [B.props EXCEPT ![id] = q]
  <1>1. ballots' = [B EXCEPT !.props = P] /\ (~\E b \in p.voted : b[1] = u) /\ UNCHANGED <<base_vars, lent>>
    BY DEF vote_categorized_proposal
  <1>2. B \in BallotSheet /\ B.props \in Seq(Ballot) /\ (\A i \in DOMAIN B.props : ballot_counted(B.props[i])) /\ Books /\ LentBooks
        /\ ballot_counted(p)
    BY DEF BallotBooks, BallotSheet
  <1>3. w \in Nat
    <2>1. amount_of(u) \in Nat /\ sum(back_of(u, now)) \in Nat
          /\ w = (IF is_delegation_active_at(u, now) THEN 0 ELSE amount_of(u)) + sum(back_of(u, now))
      BY <1>2, BackTyped
    <2> HIDE DEF w
    <2> QED BY <2>1
  <1> HIDE DEF w
  <1>4. ballot_counted(q) /\ posted(q) = posted(p)
    <2> HIDE DEF p
    <2> QED BY <1>1, <1>2, <1>3, VoteCounted
  <1>5. posted(p) \in Nat /\ posted_in(B.props) \in Nat
    BY <1>2, BallotsFinite
  <1> HIDE DEF q
  <1>6. ballot_written(P, B.props, q, B.props[id])
    BY <1>2, <1>4, BallotWritten
  <1>7. P \in Seq(Ballot) /\ (\A i \in DOMAIN P : ballot_counted(P[i])) /\ posted_in(P) = posted_in(B.props) + 0
    BY <1>4, <1>5, <1>6 DEF ballot_written
  <1> HIDE DEF P
  <1>8. ballots' \in BallotSheet /\ ballots'.props = P
    BY <1>1, <1>2, <1>7 DEF BallotSheet
  <1>9. Books' /\ LentBooks' /\ held' - totalDeposited' - rewardPool' = held - totalDeposited - rewardPool + 0
    <2>1. Books' /\ LentBooks' /\ held' = held /\ totalDeposited' = totalDeposited /\ rewardPool' = rewardPool
      BY <1>1, <1>2 DEF Books, LentBooks, base_vars, pool
    <2>2. held \in Int /\ totalDeposited \in Int /\ rewardPool \in Int
      BY <1>2 DEF Books
    <2> QED BY <2>1, <2>2
  <1> QED BY <1>7, <1>8, <1>9, SheetKeeps

\* A ballot is enacted or vetoed; no token moves.
LEMMA BallotMarkKeeps ==
    ASSUME BallotBooks, NEW id \in DOMAIN ballots.props,
           enact_categorized_proposal(id) \/ veto_expedited_proposal(id)
    PROVE  BallotBooks'
  <1> DEFINE B == ballots   p == B.props[id]
             e == [p EXCEPT !.enacted = TRUE]   v == [p EXCEPT !.vetoed = TRUE]
             o == IF p.bond > 0 /\ ballots.open > 0 THEN ballots.open - 1 ELSE ballots.open
             n == B.set + 1
  <1>1. PICK q \in {e, v} : /\ \/ ballots' = [B EXCEPT !.props = [B.props EXCEPT ![id] = q], !.set = n]
                               \/ ballots' = [B EXCEPT !.props = [B.props EXCEPT ![id] = q], !.open = o]
                            /\ UNCHANGED <<base_vars, lent>>
    BY DEF enact_categorized_proposal, veto_expedited_proposal
  <1> DEFINE P == [B.props EXCEPT ![id] = q]
  <1>2. /\ B \in BallotSheet /\ B.props \in Seq(Ballot) /\ (\A i \in DOMAIN B.props : ballot_counted(B.props[i])) /\ Books /\ LentBooks
        /\ ballot_counted(p) /\ p \in Ballot /\ o \in Nat /\ n \in Nat
    BY DEF BallotBooks, BallotSheet, ballot_counted
  <1>3. /\ q \in Ballot /\ q.for = p.for /\ q.against = p.against /\ q.voted = p.voted
        /\ q.refunded = p.refunded /\ q.bond = p.bond /\ (p.enacted => q.enacted)
    <2> HIDE DEF p
    <2>1. CASE q = e
      BY <1>2, <2>1 DEF Ballot
    <2>2. CASE q = v
      BY <1>2, <2>2 DEF Ballot
    <2> QED BY <2>1, <2>2
  <1> HIDE DEF e, v
  <1>4. ballot_counted(q) /\ posted(q) = posted(p)
    <2>1. q.refunded => q.enacted
      BY <1>2, <1>3 DEF ballot_counted
    <2>2. posted(q) = posted(p)
      BY <1>3 DEF posted
    <2>3. ballot_counted(q)
      BY <1>2, <1>3, <2>1, BallotFlagged
    <2> QED BY <2>2, <2>3
  <1>5. posted(p) \in Nat /\ posted_in(B.props) \in Nat
    BY <1>2, BallotsFinite
  <1>6. ballot_written(P, B.props, q, B.props[id])
    BY <1>2, <1>4, BallotWritten
  <1>7. P \in Seq(Ballot) /\ (\A i \in DOMAIN P : ballot_counted(P[i])) /\ posted_in(P) = posted_in(B.props) + 0
    BY <1>4, <1>5, <1>6 DEF ballot_written
  <1>8. ballots' = [B EXCEPT !.props = P, !.set = n] \/ ballots' = [B EXCEPT !.props = P, !.open = o]
    BY <1>1
  <1> HIDE DEF P, o, n
  <1>9. ballots' \in BallotSheet /\ ballots'.props = P
    BY <1>2, <1>7, <1>8 DEF BallotSheet
  <1>10. Books' /\ LentBooks' /\ held' - totalDeposited' - rewardPool' = held - totalDeposited - rewardPool + 0
    <2>1. Books' /\ LentBooks' /\ held' = held /\ totalDeposited' = totalDeposited /\ rewardPool' = rewardPool
      BY <1>1, <1>2 DEF Books, LentBooks, base_vars, pool
    <2>2. held \in Int /\ totalDeposited \in Int /\ rewardPool \in Int
      BY <1>2 DEF Books
    <2> QED BY <2>1, <2>2
  <1> QED BY <1>7, <1>9, <1>10, SheetKeeps

\* An expedited ballot is enacted: it was not enacted, so its bond was still there.
LEMMA EnactExpeditedKeeps ==
    ASSUME BallotBooks, NEW id \in DOMAIN ballots.props, enact_expedited_proposal(id)
    PROVE  BallotBooks'
  <1> DEFINE B == ballots   p == B.props[id]   q == closed(p)   P == [B.props EXCEPT ![id] = q]
             o == IF B.open > 0 THEN B.open - 1 ELSE B.open   n == B.set + 1
  <1>1. /\ ballots' = [B EXCEPT !.props = P, !.open = o, !.set = n] /\ ~p.enacted /\ push(p.proposer, p.bond)
        /\ UNCHANGED <<now, pool, rewardPool, lent>>
    BY DEF enact_expedited_proposal
  <1>2. /\ B \in BallotSheet /\ B.props \in Seq(Ballot) /\ (\A i \in DOMAIN B.props : ballot_counted(B.props[i])) /\ Books /\ LentBooks
        /\ ballot_counted(p) /\ p \in Ballot /\ o \in Nat /\ n \in Nat /\ p.proposer \in Accounts /\ p.bond \in Nat
    <2>1. /\ B \in BallotSheet /\ B.props \in Seq(Ballot) /\ (\A i \in DOMAIN B.props : ballot_counted(B.props[i])) /\ Books /\ LentBooks
          /\ ballot_counted(p) /\ p \in Ballot /\ o \in Nat /\ n \in Nat
      BY DEF BallotBooks, BallotSheet, ballot_counted
    <2> HIDE DEF p
    <2>2. p.proposer \in Accounts /\ p.bond \in Nat
      BY <2>1 DEF Ballot, Accounts
    <2> QED BY <2>1, <2>2
  <1>3. /\ q \in Ballot /\ q.for = p.for /\ q.against = p.against /\ q.voted = p.voted /\ q.refunded = TRUE /\ q.enacted = TRUE
    <2> HIDE DEF p
    <2> QED BY <1>2 DEF Ballot, closed
  <1> HIDE DEF q
  <1>4. ballot_counted(q) /\ posted(q) = 0 /\ posted(p) = p.bond
    <2>1. ~p.refunded
      BY <1>1, <1>2 DEF ballot_counted
    <2>2. posted(q) = 0 /\ posted(p) = p.bond
      BY <1>3, <2>1 DEF posted
    <2>3. ballot_counted(q)
      BY <1>2, <1>3, BallotFlagged
    <2> QED BY <2>2, <2>3
  <1>5. posted_in(B.props) \in Nat
    BY <1>2, BallotsFinite
  <1>6. ballot_written(P, B.props, q, p)
    BY <1>2, <1>4, BallotWritten
  <1> DEFINE x == 0 - p.bond
  <1>7. P \in Seq(Ballot) /\ (\A i \in DOMAIN P : ballot_counted(P[i])) /\ posted_in(P) = posted_in(B.props) + x /\ x \in Int
    <2> HIDE DEF P, p
    <2> QED BY <1>2, <1>4, <1>5, <1>6 DEF ballot_written
  <1> HIDE DEF P, o, n
  <1>8. ballots' \in BallotSheet /\ ballots'.props = P
    BY <1>1, <1>2, <1>7 DEF BallotSheet
  <1>9. Books' /\ LentBooks' /\ held' - totalDeposited' - rewardPool' = held - totalDeposited - rewardPool + x
    <2>1. held \in Int /\ totalDeposited \in Int /\ rewardPool \in Int /\ wallet \in [Accounts -> Nat]
      BY <1>2 DEF Books
    <2>2. wallet' \in [Accounts -> Nat] /\ held' \in Int /\ held' = held - p.bond
      <3> HIDE DEF p
      <3> QED BY <1>1, <1>2, <2>1, PushTyped
    <2>3. Books' /\ LentBooks' /\ totalDeposited' = totalDeposited /\ rewardPool' = rewardPool
      BY <1>1, <1>2, <2>2 DEF Books, LentBooks, pool
    <2> HIDE DEF p
    <2> QED BY <1>2, <2>1, <2>2, <2>3
  <1> HIDE DEF x
  <1> QED BY <1>7, <1>8, <1>9, SheetKeeps

\* A ballot is opened, with or without a bond.
LEMMA CreateBallotKeeps ==
    ASSUME BallotBooks, NEW u \in Users, create_categorized_proposal(u) \/ create_expedited_proposal(u)
    PROVE  BallotBooks'
  <1> DEFINE B == ballots   o == B.open + 1
  <1>1. /\ B \in BallotSheet /\ B.props \in Seq(Ballot) /\ (\A i \in DOMAIN B.props : ballot_counted(B.props[i])) /\ Books /\ LentBooks
        /\ B.terms \in TermsOf /\ o \in Nat /\ now \in Nat /\ posted_in(B.props) \in Nat
        /\ held \in Int /\ totalDeposited \in Int /\ rewardPool \in Int /\ wallet \in [Accounts -> Nat] /\ u \in Accounts
    BY BallotsFinite DEF BallotBooks, BallotSheet, Books, Accounts
  <1> HIDE DEF o
  <1>2. CASE create_categorized_proposal(u)
    <2> DEFINE p == proposal(u, B.terms, 0, 0)   P == Append(B.props, p)
    <2>1. ballots' = [B EXCEPT !.props = P] /\ UNCHANGED <<base_vars, lent>>
      BY <1>2 DEF create_categorized_proposal
    <2>2. ballot_counted(p) /\ posted(p) = 0
      BY <1>1, BallotNew
    <2> HIDE DEF p
    <2>3. P \in Seq(Ballot) /\ (\A i \in DOMAIN P : ballot_counted(P[i])) /\ posted_in(P) = posted_in(B.props) + 0
      BY <1>1, <2>2, BallotAdded
    <2> HIDE DEF P
    <2>4. ballots' \in BallotSheet /\ ballots'.props = P
      BY <1>1, <2>1, <2>3 DEF BallotSheet
    <2>5. Books' /\ LentBooks' /\ held' = held /\ totalDeposited' = totalDeposited /\ rewardPool' = rewardPool
      BY <1>1, <2>1 DEF Books, LentBooks, base_vars, pool
    <2>6. held' - totalDeposited' - rewardPool' = held - totalDeposited - rewardPool + 0
      BY <1>1, <2>5
    <2> QED BY <2>3, <2>4, <2>5, <2>6, SheetKeeps
  <1>3. CASE create_expedited_proposal(u)
    <2> DEFINE p == proposal(u, ExpeditedTerms, Bond, ExpeditedDelay)   P == Append(B.props, p)
    <2>1. ballots' = [B EXCEPT !.props = P, !.open = o] /\ pull(u, Bond) /\ UNCHANGED <<now, pool, rewardPool, lent>>
      BY <1>3 DEF create_expedited_proposal, o
    <2>2. ballot_counted(p) /\ posted(p) = Bond /\ Bond \in Nat
      <3>1. ExpeditedTerms \in TermsOf /\ Bond \in Nat /\ ExpeditedDelay \in Nat /\ now \in Nat
        BY <1>1, BallotAssumption DEF TermsOf
      <3>2. p = proposal(u, ExpeditedTerms, Bond, ExpeditedDelay)
        OBVIOUS
      <3> HIDE DEF p
      <3> QED BY ONLY <3>1, <3>2, u \in Users, BallotNew
    <2> HIDE DEF p
    <2>3. P \in Seq(Ballot) /\ (\A i \in DOMAIN P : ballot_counted(P[i])) /\ posted_in(P) = posted_in(B.props) + Bond
      BY <1>1, <2>2, BallotAdded
    <2> HIDE DEF P
    <2>4. ballots' \in BallotSheet /\ ballots'.props = P
      BY <1>1, <2>1, <2>3 DEF BallotSheet
    <2>5. wallet' \in [Accounts -> Nat] /\ held' \in Int /\ held' = held + Bond
      BY <1>1, <2>1, <2>2, PullTyped
    <2>6. Books' /\ LentBooks' /\ totalDeposited' = totalDeposited /\ rewardPool' = rewardPool
      BY <1>1, <2>1, <2>5 DEF Books, LentBooks, pool
    <2>7. held' - totalDeposited' - rewardPool' = held - totalDeposited - rewardPool + Bond
      BY <1>1, <2>2, <2>5, <2>6
    <2> QED BY <2>2, <2>3, <2>4, <2>6, <2>7, SheetKeeps
  <1> QED BY <1>2, <1>3

\* The terms of later ballots change.
LEMMA TermsKeep ==
    ASSUME BallotBooks, NEW t \in Terms, set_category_params(t)
    PROVE  BallotBooks'
  <1>1. ballots' = [ballots EXCEPT !.terms = t] /\ UNCHANGED <<base_vars, lent>> /\ t \in TermsOf
    BY BallotAssumption DEF set_category_params, TermsOf
  <1>2. ballots' \in BallotSheet /\ ballots'.props = ballots.props
    BY <1>1 DEF BallotBooks, BallotSheet
  <1> QED BY <1>1, <1>2 DEF BallotBooks, Books, LentBooks, base_vars, pool

\* The pool moves beside the ballots.
LEMMA PoolBallots == ASSUME BallotBooks, PoolMoves, UNCHANGED ballot_vars PROVE BallotBooks'
  <1>1. Books' /\ rewardPool' = rewardPool /\ held' - totalDeposited' = held - totalDeposited
    BY PoolMovesKeep DEF BallotBooks
  <1>2. LentBooks' /\ ballots' = ballots /\ ballots \in BallotSheet /\ \A i \in DOMAIN ballots.props : ballot_counted(ballots.props[i])
    BY DEF BallotBooks, LentBooks, ballot_vars
  <1>3. posted_in(ballots.props) \in Nat
    BY <1>2, BallotsFinite DEF BallotSheet
  <1> DEFINE P == ballots.props
  <1>4. posted_in(P) = posted_in(ballots.props) + 0
    BY <1>3
  <1>5. held' - totalDeposited' - rewardPool' = held - totalDeposited - rewardPool + 0
    <2>1. held \in Int /\ totalDeposited \in Int /\ rewardPool \in Int
      BY DEF BallotBooks, Books
    <2>2. held' \in Int /\ totalDeposited' \in Int /\ rewardPool' \in Int
      BY <1>1 DEF Books
    <2> DEFINE a == held'   b == totalDeposited'   c == rewardPool'
    <2>3. a \in Int /\ b \in Int /\ c = rewardPool /\ a - b = held - totalDeposited
      BY <1>1, <2>2
    <2> HIDE DEF a, b, c
    <2>4. a - b - c = held - totalDeposited - rewardPool + 0
      BY ONLY <2>1, <2>3
    <2> QED BY <2>4 DEF a, b, c
  <1> QED BY <1>1, <1>2, <1>4, <1>5, SheetKeeps

\* A list stays without repetitions and keeps the places of the others.
lists_once(N, L, d) ==
    /\ N \in Seq(Users) /\ (\A i, j \in DOMAIN N : N[i] = N[j] => i = j)
    /\ (\E i \in DOMAIN N : N[i] = d) /\ DOMAIN L \subseteq DOMAIN N /\ \A i \in DOMAIN L : N[i] = L[i]

LEMMA ListedOnce ==
    ASSUME NEW L \in Seq(Users), \A i, j \in DOMAIN L : L[i] = L[j] => i = j, NEW d \in Users,
           NEW N, N = (IF Contains(L, d) THEN L ELSE Append(L, d))
    PROVE  lists_once(N, L, d)
  <1>1. DOMAIN L = 1..Len(L) /\ Len(L) \in Nat
    OBVIOUS
  <1>2. CASE Contains(L, d)
    <2>1. N = L
      BY <1>2
    <2>2. \E i \in DOMAIN L : L[i] = d
      BY <1>1, <1>2 DEF Contains
    <2> QED BY <2>1, <2>2 DEF lists_once
  <1>3. CASE ~Contains(L, d)
    <2>1. \A i \in DOMAIN L : L[i] # d
      BY <1>1, <1>3 DEF Contains
    <2>2. N = Append(L, d)
      BY <1>3
    <2> DEFINE k == Len(L) + 1
    <2>3. N \in Seq(Users) /\ DOMAIN N = DOMAIN L \cup {k} /\ k \notin DOMAIN L /\ N[k] = d /\ \A i \in DOMAIN L : N[i] = L[i]
      BY <2>2
    <2> HIDE DEF k
    <2> QED BY <2>1, <2>3 DEF lists_once
  <1> QED BY <1>2, <1>3

LEMMA LendKeeps ==
    ASSUME BallotBooks, NEW d \in Users, NEW to \in Users, NEW e \in Int, delegate_vote_weight_with_expiry(d, to, e)
    PROVE  BallotBooks'
  <1> DEFINE L == lent.list[to]   N == listed(d, to)   r == [to |-> to, expires |-> e]
             R == [lent.rec EXCEPT ![d] = r]   M == [lent.list EXCEPT ![to] = N]
  <1>1. lent' = [lent EXCEPT !.rec = R, !.list = M] /\ UNCHANGED <<base_vars, ballots>>
    BY DEF delegate_vote_weight_with_expiry
  <1>2. /\ lent \in [rec : [Users -> Lending], list : [Users -> Seq(Users)]]
        /\ lent.rec \in [Users -> Lending] /\ lent.list \in [Users -> Seq(Users)] /\ L \in Seq(Users)
        /\ \A u \in Users : \A i, j \in DOMAIN lent.list[u] : lent.list[u][i] = lent.list[u][j] => i = j
    BY DEF BallotBooks, LentBooks
  <1>3. lists_once(N, L, d)
    <2>1. N = (IF Contains(L, d) THEN L ELSE Append(L, d)) /\ \A i, j \in DOMAIN L : L[i] = L[j] => i = j
      BY <1>2 DEF listed
    <2> HIDE DEF L, N
    <2> QED BY <1>2, <2>1, ListedOnce
  <1>4. r \in Lending /\ r.to = to
    BY DEF Lending
  <1> HIDE DEF N, r
  <1>5. R \in [Users -> Lending] /\ R[d] = r /\ \A u \in Users \ {d} : R[u] = lent.rec[u]
    BY <1>2, <1>4
  <1>6. M \in [Users -> Seq(Users)] /\ M[to] = N /\ \A u \in Users \ {to} : M[u] = lent.list[u]
    BY <1>2, <1>3 DEF lists_once
  <1> HIDE DEF R, M
  <1>7. lent'.rec = R /\ lent'.list = M /\ lent' \in [rec : [Users -> Lending], list : [Users -> Seq(Users)]]
    BY <1>1, <1>2, <1>5, <1>6
  <1>8. ASSUME NEW u \in Users PROVE \A i, j \in DOMAIN M[u] : M[u][i] = M[u][j] => i = j
    <2>1. CASE u = to
      BY <1>3, <1>6, <2>1 DEF lists_once
    <2>2. CASE u # to
      BY <1>2, <1>6, <2>2
    <2> QED BY <2>1, <2>2
  <1>9. ASSUME NEW x \in Users, R[x] # NotLent PROVE R[x].to \in Users /\ \E i \in DOMAIN M[R[x].to] : M[R[x].to][i] = x
    <2>1. CASE x = d
      BY <1>3, <1>4, <1>5, <1>6, <2>1 DEF lists_once
    <2>2. CASE x # d
      <3> DEFINE v == lent.rec[x].to
      <3>1. R[x] = lent.rec[x] /\ v \in Users
        BY <1>5, <1>9, <2>2 DEF BallotBooks, LentBooks
      <3>2. PICK i \in DOMAIN lent.list[v] : lent.list[v][i] = x
        BY <1>9, <3>1 DEF BallotBooks, LentBooks
      <3>3. i \in DOMAIN M[v] /\ M[v][i] = x
        <4> HIDE DEF v
        <4>1. CASE v = to
          BY <1>3, <1>6, <3>2, <4>1 DEF lists_once
        <4>2. CASE v # to
          BY <1>6, <3>1, <3>2, <4>2
        <4> QED BY <4>1, <4>2
      <3> QED BY <3>1, <3>3
    <2> QED BY <2>1, <2>2
  <1>10. LentBooks'
    BY <1>7, <1>8, <1>9 DEF LentBooks
  <1> QED BY <1>1, <1>10 DEF BallotBooks, Books, base_vars, pool

\* Over chains of delegation every stake is counted for exactly one voter.
LEMMA StakeCountedOnce == ASSUME Books, LentBooks PROVE stake_backs_one_vote
  <1> DEFINE act(d) == is_delegation_active_at(d, now)
             A == {d \in Users : act(d)}   k == [d \in A |-> lent.rec[d].to]   a == [d \in A |-> amount_of(d)]
             back == [u \in Users |-> group(a, k, A, u)]
             own == [u \in Users |-> IF act(u) THEN 0 ELSE amount_of(u)]
             in == [u \in Users |-> IF act(u) THEN amount_of(u) ELSE 0]
             amt == [u \in Users |-> amount_of(u)]
             W == [u \in Users |-> effective_vote_weight_at_ledger(u, now)]
  <1>1. (\A u \in Users : amount_of(u) \in Nat) /\ IsFiniteSet(Users) /\ A \subseteq Users
    BY AmountBound, BaseAssumption DEF Books
  <1>2. IsFiniteSet(A)
    BY <1>1, FS_Subset
  <1>3. \A d \in A : lent.rec[d].to \in Users /\ \E i \in DOMAIN lent.list[lent.rec[d].to] : lent.list[lent.rec[d].to][i] = d
    BY DEF LentBooks, is_delegation_active_at
  <1>4. k \in [A -> Users] /\ a \in [A -> Int]
    BY <1>1, <1>3
  <1>5. ASSUME NEW u \in Users PROVE sum(back_of(u, now)) = back[u] /\ back[u] \in Nat
    <2> DEFINE S == backers(u, now)   T == {d \in A : k[d] = u}   L == lent.list[u]
               kk == [i \in S |-> L[i]]   f == back_of(u, now)   g == [d \in T |-> amount_of(d)]
    <2>1. L \in Seq(Users) /\ (\A i, j \in DOMAIN L : L[i] = L[j] => i = j) /\ S \subseteq DOMAIN L
      BY DEF LentBooks, backers
    <2>2. IsFiniteSet(S) /\ f \in [S -> Nat] /\ sum(f) \in Nat
      BY BackTyped
    <2>3. \A i \in DOMAIN L : i \in S <=> L[i] \in T
      BY <2>1 DEF backers
    <2>4. kk \in [S -> T] /\ \A x, y \in S : kk[x] = kk[y] => x = y
      BY <2>1, <2>3
    <2>5. \A v \in T : \E x \in S : kk[x] = v
      <3> SUFFICES ASSUME NEW v \in T PROVE \E x \in S : kk[x] = v
        OBVIOUS
      <3>1. v \in A /\ lent.rec[v].to = u
        OBVIOUS
      <3>2. PICK i \in DOMAIN L : L[i] = v
        BY <1>3, <3>1
      <3>3. i \in S
        BY <2>3, <3>2
      <3>4. kk[i] = v
        <4> HIDE DEF L, S
        <4> QED BY <3>2, <3>3
      <3> QED BY <3>3, <3>4
    <2>6. f \in [S -> Int] /\ g \in [T -> Int] /\ \A x \in S : f[x] = g[kk[x]]
      <3>1. T \subseteq Users /\ \A d \in T : g[d] = amount_of(d)
        BY <1>1
      <3>2. g \in [T -> Int]
        <4> HIDE DEF T
        <4> QED BY <1>1, <3>1
      <3>3. \A x \in S : f[x] = amount_of(L[x]) /\ kk[x] = L[x] /\ kk[x] \in T
        BY <2>4 DEF back_of
      <3> HIDE DEF S, T, f, g, kk, L
      <3> QED BY <2>2, <3>1, <3>2, <3>3
    <2>7. IsFiniteSet(T)
      BY <1>2, FS_Subset
    <2>8. (\A x \in T : a[x] = g[x]) /\ DOMAIN g = T /\ back[u] = sum_over(a, T)
      BY DEF group
    <2> HIDE DEF S, T, kk, f, g, L, a, k, A, back
    <2>9. sum(f) = sum(g)
      BY ONLY <2>2, <2>4, <2>5, <2>6, <2>7, SumAlong
    <2>10. sum_over(a, T) = sum_over(g, T)
      BY ONLY <2>7, <2>8, SumSame
    <2>11. sum(g) = sum_over(g, T)
      BY <2>8 DEF sum
    <2> QED BY <2>2, <2>8, <2>9, <2>10, <2>11 DEF f
  <1>6. ASSUME NEW u \in Users PROVE W[u] = own[u] + back[u]
    <2>1. W[u] = (IF act(u) THEN 0 ELSE amount_of(u)) + sum(back_of(u, now))
      BY BackTyped
    <2> QED BY <1>5, <2>1
  <1>7. own \in [Users -> Int] /\ in \in [Users -> Int] /\ amt \in [Users -> Int] /\ back \in [Users -> Int]
        /\ \A u \in Users : amt[u] = own[u] + in[u]
    <2>1. back \in [Users -> Int]
      <3>1. \A u \in Users : back[u] \in Int
        BY <1>5
      <3> DEFINE G(u) == group(a, k, A, u)
      <3>2. back = [u \in Users |-> G(u)] /\ \A u \in Users : G(u) \in Int
        BY <3>1
      <3> QED BY <3>2
    <2> HIDE DEF act
    <2> QED BY <1>1, <2>1
  <1>8. W \in [Users -> Int] /\ \A u \in Users : W[u] = own[u] + back[u]
    <2>1. \A u \in Users : W[u] \in Int
      <3> HIDE DEF W, own, back
      <3> QED BY <1>6, <1>7
    <2>2. W \in [Users -> Int]
      <3> DEFINE w(u) == effective_vote_weight_at_ledger(u, now)
      <3>1. W = [u \in Users |-> w(u)] /\ \A u \in Users : w(u) \in Int
        BY <2>1
      <3> HIDE DEF w
      <3> QED BY <3>1
    <2> HIDE DEF W, own, back
    <2> QED BY <1>6, <2>2
  <1>9. sum(back) = sum(a)
    <2> HIDE DEF A, k, a
    <2> QED BY ONLY <1>1, <1>2, <1>4, SumGrouped
  <1>10. a \in [A -> Int] /\ (\A x \in A : a[x] = in[x]) /\ (\A x \in Users \ A : in[x] = 0)
    <2> HIDE DEF act
    <2> QED BY <1>1
  <1> HIDE DEF A, k, a, back, own, in, amt, W
  <1>11. sum(a) = sum(in)
    <2>1. /\ IsFiniteSet(Users) /\ in \in [Users -> Int] /\ A \subseteq Users /\ a \in [A -> Int]
          /\ (\A x \in A : a[x] = in[x]) /\ (\A x \in Users \ A : in[x] = 0)
      BY <1>1, <1>7, <1>10
    <2> QED BY ONLY <2>1, SumWhere
  <1>12. sum(W) = sum(own) + sum(back)
    BY ONLY <1>1, <1>7, <1>8, SumSplit
  <1>13. sum(amt) = sum(own) + sum(in)
    BY ONLY <1>1, <1>7, SumSplit
  <1>14. sum(W) = sum(amt)
    BY <1>9, <1>11, <1>12, <1>13
  <1> QED BY <1>14 DEF stake_backs_one_vote, W, amt

LEMMA BallotMovesKeep == ASSUME BallotBooks, BallotMoves \/ LentMoves \/ BallotTick PROVE BallotBooks'
  <1>1. CASE BallotMoves
    <2>1. CASE \E u \in Users \ Proposers : leave(u) /\ UNCHANGED ballot_vars
      BY <2>1, PoolBallots DEF PoolMoves
    <2>2. ASSUME NEW id \in DOMAIN ballots.props,
                 \/ \E u \in Users : vote_categorized_proposal(u, id, TRUE)
                 \/ \E u \in Users \ Proposers : vote_categorized_proposal(u, id, FALSE)
                 \/ enact_categorized_proposal(id) \/ veto_expedited_proposal(id) \/ enact_expedited_proposal(id)
          PROVE BallotBooks'
      BY <2>2, BallotVoteKeeps, BallotMarkKeeps, EnactExpeditedKeeps
    <2>3. ASSUME NEW u \in Proposers, create_categorized_proposal(u) \/ create_expedited_proposal(u) PROVE BallotBooks'
      BY <2>3, CreateBallotKeeps, BallotAssumption
    <2>4. ASSUME NEW t \in Terms, set_category_params(t) PROVE BallotBooks'
      BY <2>4, TermsKeep
    <2> QED BY <1>1, <2>1, <2>2, <2>3, <2>4 DEF BallotMoves
  <1>2. CASE LentMoves
    <2>1. ASSUME NEW d \in Users, NEW to \in Users, NEW e \in Durations \cup {NoTerm},
                 delegate_vote_weight_with_expiry(d, to, IF e = NoTerm THEN e ELSE now + e)
          PROVE  BallotBooks'
      <3> DEFINE x == IF e = NoTerm THEN e ELSE now + e
      <3>1. x \in Int
        BY BaseAssumption DEF NoTerm, BallotBooks, Books
      <3> QED BY <2>1, <3>1, LendKeeps
    <2>2. CASE \E u \in Users : leave(u) /\ UNCHANGED ballot_vars
      BY <2>2, PoolBallots DEF PoolMoves
    <2>3. ASSUME NEW u \in Proposers, create_categorized_proposal(u) PROVE BallotBooks'
      BY <2>3, CreateBallotKeeps, BallotAssumption
    <2>4. ASSUME NEW id \in DOMAIN ballots.props, NEW u \in Users, vote_categorized_proposal(u, id, TRUE) PROVE BallotBooks'
      BY <2>4, BallotVoteKeeps
    <2> QED BY <1>2, <2>1, <2>2, <2>3, <2>4 DEF LentMoves
  <1>3. CASE BallotTick
    BY <1>3, PoolBallots DEF BallotTick, PoolMoves
  <1> QED BY <1>1, <1>2, <1>3

BallotInv == focus \in {"ballots", "lending"} => BallotBooks

LEMMA BallotInvInit == FundsInit => BallotInv
  BY BallotBooksInit DEF BallotInv

LEMMA BallotInvStep == ASSUME BallotInv, [FundsNext]_funds_vars PROVE BallotInv'
  <1>1. CASE focus \in {"ballots", "lending"}
    <2>1. UNCHANGED focus /\ BallotBooks /\ (BallotMoves \/ LentMoves \/ BallotTick \/ UNCHANGED <<base_vars, ballot_vars>>)
      BY <1>1, BallotStep DEF BallotInv
    <2>2. CASE UNCHANGED <<base_vars, ballot_vars>>
      BY <2>1, <2>2 DEF BallotInv, BallotBooks, LentBooks, Books, base_vars, pool, ballot_vars
    <2> QED BY <2>1, <2>2, BallotMovesKeep DEF BallotInv
  <1>2. CASE focus \notin {"ballots", "lending"}
    BY <1>2 DEF BallotInv, FundsNext, funds_vars
  <1> QED BY <1>1, <1>2

\* The books say what the property says: a bond that went back is not counted.
LEMMA BallotsWhole == ASSUME BallotBooks PROVE ballots_sound
  <1> DEFINE ps == ballots.props   S == DOMAIN ps   T == {i \in S : ~ps[i].refunded}
             f == [i \in S |-> posted(ps[i])]   g == [i \in T |-> ps[i].bond]
  <1>1. ps \in Seq(Ballot) /\ IsFiniteSet(S) /\ f \in [S -> Nat] /\ \A i \in S : ps[i] \in Ballot
    BY BallotsFinite DEF BallotBooks, BallotSheet
  <1>2. \A i \in S : ps[i].bond \in Nat
    BY <1>1 DEF Ballot
  <1>3. /\ IsFiniteSet(S) /\ f \in [S -> Int] /\ T \subseteq S /\ g \in [T -> Int]
        /\ (\A i \in T : g[i] = f[i]) /\ \A i \in S \ T : f[i] = 0
    BY <1>1, <1>2 DEF posted
  <1>4. held = totalDeposited + rewardPool + sum(f)
    BY DEF BallotBooks, posted_in
  <1>5. \A i \in S : /\ ps[i].for + ps[i].against = sum([b \in ps[i].voted |-> b[2]])
                     /\ \A b, c \in ps[i].voted : b[1] = c[1] => b = c
                     /\ ps[i].refunded => ps[i].enacted
    BY DEF BallotBooks, ballot_counted, weights_of
  <1> HIDE DEF f
  <1>6. sum(g) = sum(f)
    <2> HIDE DEF S, T, g
    <2> QED BY ONLY <1>3, SumWhere
  <1>7. held = totalDeposited + rewardPool + sum(g)
    BY <1>4, <1>6
  <1> QED BY <1>5, <1>7 DEF ballots_sound

\* Categorized and expedited ballots and delegation with expiry
\* (vault_extensions_761_764.rs): over any chain, change or expiry of delegations and any exits, the weights
\* of all voters at a ledger add up to the stakes, the tally of a ballot is its votes, one a
\* voter, and the contract holds each bond until it goes back, once.
THEOREM BallotsAreSound == FundsSpec => []BallotsSound
  <1>1. BallotInv => BallotsSound
    BY BallotsWhole, StakeCountedOnce DEF BallotInv, BallotsSound, BallotBooks
  <1> QED BY <1>1, BallotInvInit, BallotInvStep, PTL DEF FundsSpec, funds_vars

-------------------------------------------------------------------------------
(* Recoveries, commitments and heartbeats. *)

\* In these focuses only the entry points of the feature run.
LEMMA SafeguardStep ==
    ASSUME focus \in {"recovery", "pledges", "heartbeats"}, [FundsNext]_funds_vars
    PROVE  /\ UNCHANGED focus
           /\ \/ focus = "recovery" /\ RecoveryMoves
              \/ focus = "pledges" /\ PledgeMoves
              \/ focus = "heartbeats" /\ HeartbeatMoves
              \/ SafeguardTick
              \/ UNCHANGED <<base_vars, loan_vars, safeguard_vars>>
  BY DEF FundsNext, funds_vars, capacity_step, market_step, contest_step, campaign_step, claim_step,
         subpool_step, position_step, outside_step, ballot_step, safeguard_step, wind_step, shared_step

PledgeSheet == [rec : [Users -> [amount : Nat, at : Nat]], window : Nat, made : [Users -> Nat], used : [Users -> Nat]]
PledgeBooks == now \in Nat /\ pledges \in PledgeSheet /\ pledges_used_once

\* A commitment is made once more than it is on record, and used once at its reveal.
LEMMA PledgeMovesKeep ==
    ASSUME PledgeBooks, PledgeMoves \/ SafeguardTick
    PROVE  PledgeBooks'
  <1> DEFINE p == pledges   q == pledges'
  <1>1. /\ now \in Nat /\ p \in PledgeSheet /\ p.rec \in [Users -> [amount : Nat, at : Nat]] /\ p.window \in Nat
        /\ p.made \in [Users -> Nat] /\ p.used \in [Users -> Nat] /\ NoPledge \in [amount : Nat, at : Nat]
    BY DEF PledgeBooks, PledgeSheet, NoPledge
  <1>2. \A u \in Users : p.used[u] + (IF p.rec[u] = NoPledge THEN 0 ELSE 1) <= p.made[u]
    BY DEF PledgeBooks, pledges_used_once
  <1>3. ASSUME now' = now, NEW u \in Users, NEW r \in [amount : Nat, at : Nat], NEW m \in Nat, NEW n \in Nat,
               q.rec = [p.rec EXCEPT ![u] = r], q.made = [p.made EXCEPT ![u] = m],
               q.used = [p.used EXCEPT ![u] = n], q \in PledgeSheet,
               n + (IF r = NoPledge THEN 0 ELSE 1) <= m
        PROVE  PledgeBooks'
    <2>1. \A v \in Users : q.used[v] + (IF q.rec[v] = NoPledge THEN 0 ELSE 1) <= q.made[v]
      <3> SUFFICES ASSUME NEW v \in Users PROVE q.used[v] + (IF q.rec[v] = NoPledge THEN 0 ELSE 1) <= q.made[v]
        OBVIOUS
      <3>1. CASE v = u
        BY <1>1, <1>3, <3>1
      <3>2. CASE v # u
        <4>1. q.used[v] = p.used[v] /\ q.rec[v] = p.rec[v] /\ q.made[v] = p.made[v]
          BY <1>1, <1>3, <3>2
        <4> QED BY <1>2, <4>1
      <3> QED BY <3>1, <3>2
    <2> QED BY <1>1, <1>3, <2>1 DEF PledgeBooks, pledges_used_once
  <1>4. ASSUME now' \in Nat, pledges' = pledges PROVE PledgeBooks'
    BY <1>4 DEF PledgeBooks, pledges_used_once
  <1>5. ASSUME NEW w \in Durations, set_commitment_window(w) PROVE PledgeBooks'
    <2>1. q = [p EXCEPT !.window = w] /\ now' = now /\ w \in Nat
      BY <1>5, BaseAssumption DEF set_commitment_window, base_vars
    <2>2. q \in PledgeSheet /\ q.rec = p.rec /\ q.made = p.made /\ q.used = p.used
      BY <1>1, <2>1 DEF PledgeSheet
    <2> QED BY <1>1, <1>2, <2>1, <2>2 DEF PledgeBooks, pledges_used_once
  <1>6. ASSUME NEW u \in Users, NEW a \in Amounts, commit_to_stake(u, a) PROVE PledgeBooks'
    <2> DEFINE r == [amount |-> a, at |-> now]   m == p.made[u] + 1
               R == [p.rec EXCEPT ![u] = r]   M == [p.made EXCEPT ![u] = m]
    <2>1. q = [p EXCEPT !.rec = R, !.made = M] /\ now' = now
      BY <1>6 DEF commit_to_stake, base_vars
    <2>2. r \in [amount : Nat, at : Nat] /\ m \in Nat /\ p.used[u] \in Nat
      BY <1>1, BaseAssumption
    <2>3. p.used[u] + (IF r = NoPledge THEN 0 ELSE 1) <= m
      <3>1. p.used[u] <= p.made[u] /\ p.made[u] \in Nat
        BY <1>1, <1>2, <2>2
      <3> QED BY <2>2, <3>1
    <2>4. R \in [Users -> [amount : Nat, at : Nat]] /\ M \in [Users -> Nat]
      BY <1>1, <2>2
    <2>5. p.used = [p.used EXCEPT ![u] = p.used[u]]
      BY <1>1
    <2> HIDE DEF R, M
    <2>6. q \in PledgeSheet /\ q.rec = R /\ q.made = M /\ q.used = p.used
      BY ONLY <1>1, <2>1, <2>4 DEF PledgeSheet
    <2>7. q.rec = [p.rec EXCEPT ![u] = r] /\ q.made = [p.made EXCEPT ![u] = m] /\ q.used = [p.used EXCEPT ![u] = p.used[u]]
      BY <2>5, <2>6 DEF R, M
    <2> HIDE DEF r, m
    <2> QED BY <1>3, <2>1, <2>2, <2>3, <2>6, <2>7
  <1>7. ASSUME NEW u \in Users, NEW a \in Amounts, reveal_and_stake(u, a) PROVE PledgeBooks'
    <2> DEFINE n == p.used[u] + 1
               R == [p.rec EXCEPT ![u] = NoPledge]   U == [p.used EXCEPT ![u] = n]
    <2>1. q = [p EXCEPT !.rec = R, !.used = U] /\ now' = now /\ p.rec[u] # NoPledge
      BY <1>7 DEF reveal_and_stake, join, consumed
    <2>2. n \in Nat /\ p.made[u] \in Nat
      BY <1>1
    <2>3. n + (IF NoPledge = NoPledge THEN 0 ELSE 1) <= p.made[u]
      BY <1>1, <1>2, <2>1, <2>2
    <2>4. R \in [Users -> [amount : Nat, at : Nat]] /\ U \in [Users -> Nat]
      BY <1>1, <2>2
    <2>5. p.made = [p.made EXCEPT ![u] = p.made[u]]
      BY <1>1
    <2> HIDE DEF R, U
    <2>6. q \in PledgeSheet /\ q.rec = R /\ q.made = p.made /\ q.used = U
      BY ONLY <1>1, <2>1, <2>4 DEF PledgeSheet
    <2>7. q.rec = [p.rec EXCEPT ![u] = NoPledge] /\ q.used = [p.used EXCEPT ![u] = n] /\ q.made = [p.made EXCEPT ![u] = p.made[u]]
      BY <2>5, <2>6 DEF R, U
    <2> HIDE DEF n
    <2> QED BY <1>1, <1>3, <2>1, <2>2, <2>3, <2>6, <2>7
  <1>8. ASSUME NEW u \in Guarded, leave(u), UNCHANGED safeguard_vars PROVE PledgeBooks'
    BY <1>1, <1>4, <1>8 DEF leave, safeguard_vars
  <1>9. CASE SafeguardTick
    BY <1>1, <1>4, <1>9, TickNat DEF SafeguardTick, TimePasses, safeguard_vars
  <1> QED BY <1>5, <1>6, <1>7, <1>8, <1>9 DEF PledgeMoves

-------------------------------------------------------------------------------
HeartbeatSheet == [log : [Users -> Int], flag : [Users -> BOOLEAN], interval : Nat, silent : Int]
HeartbeatBooks ==
    /\ Books /\ due \in [Users -> Nat] /\ heartbeat \in HeartbeatSheet
    /\ boosts_heard

\* A heartbeat lowers the flag of the user and touches nobody else's.
heard_from(h, k) == /\ k \in HeartbeatSheet /\ k.silent = h.silent
                    /\ ((\A v \in Users : ~h.flag[v]) => (\A v \in Users : ~k.flag[v]))

\* Recording a heartbeat, straight or after the check for a suspension.
LEMMA HeartbeatRecorded ==
    ASSUME now \in Nat, NEW h \in HeartbeatSheet, NEW u \in Users
    PROVE  /\ heard_from(h, record_heartbeat(h, u))
           /\ heard_from(h, record_heartbeat(check_and_flag_suspended(h, u), u))
  <1>1. ASSUME NEW g \in HeartbeatSheet, g.silent = h.silent, \A v \in Users \ {u} : g.flag[v] = h.flag[v]
        PROVE  heard_from(h, record_heartbeat(g, u))
    <2> DEFINE L == [g.log EXCEPT ![u] = now]   F == [g.flag EXCEPT ![u] = FALSE]
               k == [g EXCEPT !.log = L, !.flag = F]
    <2>1. g.log \in [Users -> Int] /\ g.flag \in [Users -> BOOLEAN] /\ g.interval \in Nat /\ g.silent \in Int
      BY <1>1 DEF HeartbeatSheet
    <2>2. L \in [Users -> Int] /\ F \in [Users -> BOOLEAN]
      BY <2>1
    <2>3. F[u] = FALSE /\ \A v \in Users \ {u} : F[v] = h.flag[v]
      BY <1>1, <2>1
    <2> HIDE DEF L, F
    <2>4. k \in HeartbeatSheet /\ k.flag = F /\ k.silent = g.silent
      BY ONLY <1>1, <2>2 DEF HeartbeatSheet
    <2>5. record_heartbeat(g, u) = k
      BY DEF record_heartbeat, L, F
    <2> HIDE DEF k
    <2> QED BY <1>1, <2>3, <2>4, <2>5 DEF heard_from
  <1>2. heard_from(h, record_heartbeat(h, u))
    BY <1>1
  <1>3. check_and_flag_suspended(h, u) \in HeartbeatSheet /\ check_and_flag_suspended(h, u).silent = h.silent
        /\ \A v \in Users \ {u} : check_and_flag_suspended(h, u).flag[v] = h.flag[v]
    <2> DEFINE F == [h.flag EXCEPT ![u] = TRUE]   k == [h EXCEPT !.flag = F]
    <2>1. h.flag \in [Users -> BOOLEAN] /\ F \in [Users -> BOOLEAN] /\ \A v \in Users \ {u} : F[v] = h.flag[v]
      BY DEF HeartbeatSheet
    <2> HIDE DEF F
    <2>2. k \in HeartbeatSheet /\ k.flag = F /\ k.silent = h.silent
      BY ONLY <2>1, h \in HeartbeatSheet DEF HeartbeatSheet
    <2>3. check_and_flag_suspended(h, u) = IF is_current(h, u) THEN h ELSE k
      BY DEF check_and_flag_suspended, F
    <2> HIDE DEF k
    <2> QED BY <2>1, <2>2, <2>3
  <1> QED BY <1>1, <1>2, <1>3

\* The whole of the books after a step that pays nobody.
LEMMA HeartbeatQuiet ==
    ASSUME HeartbeatBooks, Books', due' \in [Users -> Nat], rewardPool' = rewardPool,
           held' - totalDeposited' = held - totalDeposited, heartbeat' = heartbeat \/ heard_from(heartbeat, heartbeat')
    PROVE  HeartbeatBooks'
  <1> DEFINE a == held'   b == totalDeposited'
  <1>1. /\ held \in Int /\ totalDeposited \in Int /\ rewardPool \in Int /\ held = totalDeposited + rewardPool
        /\ a \in Int /\ b \in Int /\ a - b = held - totalDeposited
    <2>1. held \in Int /\ totalDeposited \in Int /\ rewardPool \in Int /\ held = totalDeposited + rewardPool
      BY DEF HeartbeatBooks, boosts_heard, Books
    <2>2. a \in Int /\ b \in Int
      BY Books' DEF Books
    <2> QED BY ONLY <2>1, <2>2, held' - totalDeposited' = held - totalDeposited
  <1> HIDE DEF a, b
  <1>2. a = b + rewardPool
    BY <1>1
  <1>3. held' = totalDeposited' + rewardPool'
    BY <1>2 DEF a, b
  <1>4. heartbeat' \in HeartbeatSheet /\ heartbeat'.silent = 0 /\ \A u \in Users : ~heartbeat'.flag[u]
    BY DEF HeartbeatBooks, boosts_heard, heard_from
  <1> QED BY <1>3, <1>4 DEF HeartbeatBooks, boosts_heard

\* A settlement adds to the rewards of a user.
LEMMA AccrueDue ==
    ASSUME due \in [Users -> Nat], NEW u \in Guarded, NEW n \in RewardSteps, accrue_due(u, n)
    PROVE  due' \in [Users -> Nat] /\ UNCHANGED <<base_vars, loan_vars, recovery, pledges, heartbeat>>
  BY SafeguardAssumption DEF accrue_due

\* Every heartbeat entry point keeps the books: a claim pays the boost of the record as it was.
LEMMA HeartbeatMovesKeep ==
    ASSUME HeartbeatBooks, HeartbeatMoves \/ SafeguardTick
    PROVE  HeartbeatBooks'
  <1> DEFINE h == heartbeat
  <1>1. /\ Books /\ due \in [Users -> Nat] /\ h \in HeartbeatSheet /\ now \in Nat /\ wallet \in [Accounts -> Nat]
        /\ held \in Int /\ totalDeposited \in Nat /\ rewardPool \in Nat /\ held = totalDeposited + rewardPool
        /\ h.silent = 0 /\ (\A u \in Users : ~h.flag[u]) /\ Guarded \subseteq Users /\ Users \subseteq Accounts
    BY SafeguardAssumption DEF HeartbeatBooks, boosts_heard, Books, Accounts
  <1>2. ASSUME UNCHANGED base_vars
        PROVE  Books' /\ rewardPool' = rewardPool /\ held' - totalDeposited' = held - totalDeposited
    BY <1>1, <1>2 DEF Books, base_vars, pool
  <1>3. ASSUME NEW n \in Durations, set_heartbeat_interval(n) PROVE HeartbeatBooks'
    <2>1. heartbeat' = [h EXCEPT !.interval = n] /\ n \in Nat /\ UNCHANGED base_vars /\ due' = due
      BY <1>3, BaseAssumption DEF set_heartbeat_interval
    <2>2. heard_from(h, heartbeat')
      BY <1>1, <2>1 DEF heard_from, HeartbeatSheet
    <2> QED BY <1>1, <1>2, <2>1, <2>2, HeartbeatQuiet
  <1>4. ASSUME NEW u \in Guarded, send_heartbeat(u) PROVE HeartbeatBooks'
    <2>1. heartbeat' = record_heartbeat(h, u) /\ UNCHANGED base_vars /\ due' = due
      BY <1>4 DEF send_heartbeat
    <2>2. heard_from(h, heartbeat')
      BY <1>1, <2>1, HeartbeatRecorded
    <2> QED BY <1>1, <1>2, <2>1, <2>2, HeartbeatQuiet
  <1>5. ASSUME NEW u \in Guarded, NEW n \in RewardSteps, accrue_due(u, n) PROVE HeartbeatBooks'
    <2>1. due' \in [Users -> Nat] /\ UNCHANGED base_vars /\ heartbeat' = h
      BY <1>1, <1>5, AccrueDue
    <2> QED BY <1>1, <1>2, <2>1, HeartbeatQuiet
  <1>6. ASSUME NEW u \in Guarded, NEW a \in Amounts, stake_with_heartbeat(u, a) PROVE HeartbeatBooks'
    <2>1. heartbeat' = record_heartbeat(h, u) /\ PoolMoves /\ due' = due
      BY <1>1, <1>6 DEF stake_with_heartbeat, PoolMoves
    <2>2. heard_from(h, heartbeat')
      BY <1>1, <2>1, HeartbeatRecorded
    <2> QED BY <1>1, <2>1, <2>2, PoolMovesKeep, HeartbeatQuiet
  <1>7. ASSUME NEW u \in Guarded, claim_with_heartbeat(u) PROVE HeartbeatBooks'
    <2> DEFINE payout == payout_of(u)
               heard  == record_heartbeat(check_and_flag_suspended(h, u), u)
               s == IF is_current(h, u) THEN heard.silent ELSE heard.silent + payout - due[u]
    <2>1. CASE heartbeat' = record_heartbeat(h, u) /\ UNCHANGED <<base_vars, due>>
      <3>1. heard_from(h, heartbeat')
        BY <1>1, <2>1, HeartbeatRecorded
      <3> QED BY <1>1, <1>2, <2>1, <3>1, HeartbeatQuiet
    <2>2. CASE /\ due[u] > 0 /\ rewardPool >= payout
               /\ push(u, payout)
               /\ rewardPool' = rewardPool - payout
               /\ due' = [due EXCEPT ![u] = 0]
               /\ heartbeat' = [heard EXCEPT !.silent = s]
               /\ UNCHANGED <<now, pool>>
      <3>1. u \in Users /\ u \in Accounts /\ due[u] \in Nat
        BY <1>1
      <3>2. payout \in Nat /\ (~is_current(h, u) => payout = due[u])
        BY <3>1, BpsNat, SafeguardAssumption DEF payout_of, apply_heartbeat_boost
      <3>3. heard_from(h, heard)
        BY <1>1, <3>1, HeartbeatRecorded
      <3>4. heard \in HeartbeatSheet /\ heard.silent = 0 /\ \A v \in Users : ~heard.flag[v]
        BY <1>1, <3>3 DEF heard_from
      <3>5. s = 0
        BY <3>1, <3>2, <3>4
      <3> HIDE DEF s, heard, payout
      <3>6. heartbeat' \in HeartbeatSheet /\ heartbeat'.silent = 0 /\ \A v \in Users : ~heartbeat'.flag[v]
        BY <2>2, <3>4, <3>5 DEF HeartbeatSheet
      <3>7. wallet' \in [Accounts -> Nat] /\ held' \in Int /\ held' = held - payout
        BY <1>1, <2>2, <3>1, <3>2, PushTyped
      <3>8. rewardPool' \in Nat /\ rewardPool' = rewardPool - payout /\ due' \in [Users -> Nat]
        BY <1>1, <2>2, <3>1, <3>2
      <3>9. UNCHANGED <<now, shares, totalShares, totalDeposited>>
        BY <2>2 DEF pool
      <3>10. held' = totalDeposited' + rewardPool'
        BY <1>1, <3>2, <3>7, <3>8, <3>9
      <3>11. Books'
        BY <1>1, <3>7, <3>8, <3>9 DEF Books
      <3> QED BY <3>6, <3>8, <3>10, <3>11 DEF HeartbeatBooks, boosts_heard
    <2> QED BY <1>7, <2>1, <2>2 DEF claim_with_heartbeat
  <1>8. CASE SafeguardTick
    <2>1. PoolMoves /\ heartbeat' = h /\ due' = due
      BY <1>8 DEF SafeguardTick, PoolMoves, safeguard_vars
    <2> QED BY <1>1, <2>1, PoolMovesKeep, HeartbeatQuiet
  <1> QED BY <1>3, <1>4, <1>5, <1>6, <1>7, <1>8 DEF HeartbeatMoves

-------------------------------------------------------------------------------
\* Shares of an amount, or fewer, are worth no more than the amount.
LEMMA FewerSharesWorth ==
    ASSUME NEW S \in Nat, NEW D \in Nat, NEW a \in Nat, NEW n \in Nat, n <= amount_to_shares(S, D, a)
    PROVE  shares_to_amount(S, D, n) <= a
  <1>1. CASE S = 0
    BY <1>1 DEF shares_to_amount
  <1>2. CASE S # 0 /\ D = 0
    <2>1. n * D = 0 /\ 0 \div S = 0
      BY <1>2
    <2> QED BY <1>2, <2>1 DEF shares_to_amount
  <1>3. CASE S # 0 /\ D # 0
    <2> DEFINE m == (a * S) \div D
    <2>1. amount_to_shares(S, D, a) = m
      BY <1>3 DEF amount_to_shares, amount_to_shares_with_decimals
    <2>2. a * S \in Nat /\ m \in Nat /\ D * m <= a * S
      BY <1>3, MulNat, DivNat
    <2>3. n <= m
      BY <2>1
    <2> HIDE DEF m
    <2>4. D * n <= D * m /\ n * D \in Nat /\ n * D = D * n /\ D * m \in Nat
      BY <2>2, <2>3, MulMono, MulNat
    <2>5. n * D <= a * S
      BY <2>2, <2>4
    <2>6. (n * D) \div S <= a
      BY <1>3, <2>4, <2>5, DivBound
    <2> QED BY <1>3, <2>6 DEF shares_to_amount
  <1> QED BY <1>1, <1>2, <1>3

\* A recovery pays off exactly what it applies, interest first.
LEMMA RecoveryRepays ==
    ASSUME NEW l \in Loan, NEW x \in Nat, x <= debt_of(l), l.at \in 0..now
    PROVE  /\ apply_loan_repayment(l, x) \in Loan /\ live(apply_loan_repayment(l, x), now)
           /\ debt_of(apply_loan_repayment(l, x)) = debt_of(l) - x
           /\ apply_loan_repayment(l, x).principal >= l.principal - x
           /\ (x = debt_of(l) => apply_loan_repayment(l, x) = NoLoan)
  <1>1. l.principal \in Nat /\ l.interest \in Nat /\ debt_of(l) = l.principal + l.interest
    BY DEF Loan, debt_of
  <1> DEFINE onInterest == Min({x, l.interest})
             i == l.interest - onInterest
             y == x - onInterest
             p == l.principal - Min({y, l.principal})
             rest == [l EXCEPT !.interest = i, !.principal = p]
  <1>2. onInterest = IF x <= l.interest THEN x ELSE l.interest
    BY <1>1, MinMax
  <1>3. i \in Nat /\ y \in Nat /\ y <= l.principal /\ y <= x /\ i + l.principal - y = debt_of(l) - x
    BY <1>1, <1>2
  <1>4. apply_loan_repayment(l, x) = IF debt_of(rest) <= 0 THEN NoLoan ELSE rest
    BY DEF apply_loan_repayment
  <1> HIDE DEF i, y
  <1>5. Min({y, l.principal}) = y
    BY <1>1, <1>3, MinMax
  <1>6. p = l.principal - y /\ p \in Nat /\ i + p = debt_of(l) - x /\ p >= l.principal - x
    BY <1>1, <1>3, <1>5
  <1> HIDE DEF p
  <1>7. rest \in Loan /\ rest.principal = p /\ rest.interest = i /\ rest.at = l.at
    BY <1>3, <1>6 DEF Loan
  <1>8. NoLoan \in Loan /\ live(NoLoan, now) /\ NoLoan.principal = 0 /\ debt_of(NoLoan) = 0
    BY DEF NoLoan, Loan, live, NoLedger, debt_of
  <1>9. live(rest, now) /\ debt_of(rest) = debt_of(l) - x
    <2>1. live(rest, now)
      BY <1>7 DEF live
    <2>2. debt_of(rest) = p + i
      BY <1>7 DEF debt_of
    <2> QED BY <1>3, <1>6, <2>1, <2>2
  <1>10. debt_of(rest) <= 0 => debt_of(rest) = 0 /\ p = 0
    BY <1>3, <1>6, <1>7, <1>9
  <1> HIDE DEF rest
  <1> QED BY <1>1, <1>4, <1>6, <1>7, <1>8, <1>9, <1>10

Remedy == [trigger : Nat, action : RecoveryAction \cup {Nobody}, amount : Nat]
RecoverySheet == [cfg : [Users -> Remedy], last : [Users -> Nat], returned : Nat, unfunded : Nat, worsened : Nat]

\* Recovery figures of a step: what is burned and given up, what comes off the loan, what the user gets.
remedy_sound(u, r) ==
    /\ r.burn \in Nat /\ r.worth \in Nat /\ r.loan \in Nat /\ r.user \in Nat
    /\ r.burn <= shares[u] /\ (r.burn # 0 => r.worth <= totalDeposited)
    /\ recovery.cfg[u].action = "AutoClaim" => r.burn = 0
    /\ recovery.cfg[u].action # "AutoClaim" =>
         /\ r.loan <= debt_of(loans[u]) /\ r.worth = r.loan + r.user
         /\ (r.user > 0 => r.loan = debt_of(loans[u]))

\* The remedy is sound whatever the user set it to.
LEMMA RemedySound ==
    ASSUME LoanTyped, due \in [Users -> Nat], recovery \in RecoverySheet, NEW u \in Users
    PROVE  remedy_sound(u, remedy(u))
  <1> DEFINE c == recovery.cfg[u]   d == debt_of(loans[u])
             asked  == Min({c.amount, d})
             minted == amount_to_shares(totalShares, totalDeposited, asked)
             repaid == Min({minted, shares[u]})
             undone == Min({c.amount, shares[u]})
             price(n) == shares_to_amount(totalShares, totalDeposited, n)
             onLoan == Min({price(undone), d})
  <1>1. c \in Remedy /\ c.amount \in Nat /\ loans[u] \in Loan /\ due[u] \in Nat /\ shares[u] \in Nat
        /\ totalShares \in Nat /\ totalDeposited \in Nat /\ shares[u] <= totalShares
    BY BooksTotal DEF RecoverySheet, Remedy, LoanTyped, Books
  <1>2. d \in Nat
    BY <1>1 DEF debt_of, Loan
  <1>3. remedy(u) = CASE c.action = "AutoClaim"     -> [burn |-> 0, worth |-> due[u], loan |-> 0, user |-> due[u]]
                      [] c.action = "AutoRepayLoan" -> [burn |-> repaid, worth |-> price(repaid), loan |-> price(repaid), user |-> 0]
                      [] OTHER                      -> [burn |-> undone, worth |-> price(undone), loan |-> onLoan, user |-> price(undone) - onLoan]
    BY DEF remedy
  <1> HIDE DEF c, d
  <1>4. asked \in Nat /\ asked <= d
    BY <1>1, <1>2, MinMax
  <1> HIDE DEF asked
  <1>5. minted \in Nat
    BY <1>1, <1>4, MintDefaultNat
  <1>6. repaid \in Nat /\ repaid <= shares[u] /\ repaid <= minted
    <2> HIDE DEF minted
    <2> QED BY <1>1, <1>5, MinMax
  <1>7. undone \in Nat /\ undone <= shares[u]
    BY <1>1, MinMax
  <1> HIDE DEF repaid, undone
  <1>8. price(repaid) \in Nat /\ price(undone) \in Nat
    BY <1>1, <1>6, <1>7, RedeemNat
  <1>9. price(repaid) <= totalDeposited /\ price(undone) <= totalDeposited
    <2>1. repaid <= totalShares /\ undone <= totalShares
      BY <1>1, <1>6, <1>7
    <2> QED BY <1>1, <1>6, <1>7, <2>1, RedeemAtMostAll
  <1>10. price(repaid) <= d
    <2>1. price(repaid) <= asked
      BY <1>1, <1>4, <1>6, FewerSharesWorth
    <2> QED BY <1>2, <1>4, <1>8, <2>1
  <1> HIDE DEF minted
  <1> DEFINE wr == price(repaid)   wc == price(undone)
  <1>11. wr \in Nat /\ wc \in Nat /\ wr <= totalDeposited /\ wc <= totalDeposited /\ wr <= d
    BY <1>8, <1>9, <1>10
  <1>12. remedy(u) = CASE c.action = "AutoClaim"     -> [burn |-> 0, worth |-> due[u], loan |-> 0, user |-> due[u]]
                      [] c.action = "AutoRepayLoan" -> [burn |-> repaid, worth |-> wr, loan |-> wr, user |-> 0]
                      [] OTHER                      -> [burn |-> undone, worth |-> wc, loan |-> onLoan, user |-> wc - onLoan]
    BY <1>3
  <1>13. onLoan = IF wc <= d THEN wc ELSE d
    <2>1. onLoan = Min({wc, d})
      OBVIOUS
    <2> HIDE DEF onLoan, wc
    <2> QED BY <1>2, <1>11, <2>1, MinMax
  <1> HIDE DEF wr, wc, onLoan
  <1>14. onLoan \in Nat /\ onLoan <= d /\ wc - onLoan \in Nat /\ wc = onLoan + (wc - onLoan) /\ (wc - onLoan > 0 => onLoan = d)
    BY <1>2, <1>11, <1>13
  <1> DEFINE r == remedy(u)
  <1>15. CASE c.action = "AutoClaim"
    <2>1. r.burn = 0 /\ r.worth = due[u] /\ r.loan = 0 /\ r.user = due[u]
      BY <1>12, <1>15
    <2> HIDE DEF r
    <2> QED BY <1>1, <1>15, <2>1 DEF remedy_sound, c, r
  <1>16. CASE c.action = "AutoRepayLoan"
    <2>1. r.burn = repaid /\ r.worth = wr /\ r.loan = wr /\ r.user = 0
      BY <1>12, <1>16
    <2> HIDE DEF r
    <2>2. wr = wr + 0
      BY <1>11
    <2> QED BY <1>1, <1>6, <1>11, <1>16, <2>1, <2>2 DEF remedy_sound, c, d, r
  <1>17. CASE c.action # "AutoClaim" /\ c.action # "AutoRepayLoan"
    <2>1. r.burn = undone /\ r.worth = wc /\ r.loan = onLoan /\ r.user = wc - onLoan
      BY <1>12, <1>17
    <2> HIDE DEF r
    <2> QED BY <1>1, <1>7, <1>11, <1>14, <1>17, <2>1 DEF remedy_sound, c, d, r
  <1> QED BY <1>15, <1>16, <1>17

-------------------------------------------------------------------------------
RecoveryBooks ==
    /\ LoanTyped /\ due \in [Users -> Nat] /\ recovery \in RecoverySheet
    /\ held = totalDeposited + rewardPool + recovery.returned - recovery.unfunded
    /\ rewardPool + lent_out + writtenOff + recovery.returned >= PoolReserve
    /\ recovery.worsened = 0

\* What is lent is a number.
LEMMA LentInt ==
    ASSUME NEW L \in [Users -> Loan]
    PROVE  sum([v \in Users |-> L[v].principal]) \in Int
  <1> DEFINE f == [v \in Users |-> L[v].principal]
  <1>1. \A z \in Loan : z.principal \in Int
    BY DEF Loan
  <1>2. f \in [Users -> Int] /\ IsFiniteSet(Users)
    BY <1>1, BaseAssumption
  <1> HIDE DEF f
  <1>3. sum(f) \in Int
    BY ONLY <1>2, SumType
  <1> QED BY <1>3 DEF f

\* A step of the loans, or a setting, beside the recoveries.
LEMMA RecoveryQuiet ==
    ASSUME RecoveryBooks, loans_kept, due' \in [Users -> Nat], recovery' \in RecoverySheet,
           recovery'.returned = recovery.returned, recovery'.unfunded = recovery.unfunded, recovery'.worsened = recovery.worsened
    PROVE  RecoveryBooks'
  <1> DEFINE a == held'   b == totalDeposited'   c == rewardPool'   x == lent_out'   y == writtenOff'
             p == recovery.returned   q == recovery.unfunded
  <1>1. /\ held \in Int /\ totalDeposited \in Int /\ rewardPool \in Int /\ writtenOff \in Int /\ lent_out \in Int
        /\ p \in Int /\ q \in Int
    <2>1. loans \in [Users -> Loan]
      BY DEF RecoveryBooks, LoanTyped
    <2>2. lent_out \in Int
      BY <2>1, LentInt DEF lent_out
    <2> QED BY <2>2 DEF RecoveryBooks, LoanTyped, Books, RecoverySheet
  <1>2. a \in Int /\ b \in Int /\ c \in Int /\ y \in Int /\ x \in Int
    <2>1. LoanTyped' /\ loans' \in [Users -> Loan]
      BY DEF loans_kept, LoanTyped
    <2>2. x \in Int
      BY <2>1, LentInt DEF lent_out
    <2> QED BY <2>1, <2>2 DEF LoanTyped, Books
  <1>3. /\ a - b - c = held - totalDeposited - rewardPool
        /\ c + x + y >= rewardPool + lent_out + writtenOff
    BY DEF loans_kept
  <1>4. /\ held = totalDeposited + rewardPool + p - q
        /\ rewardPool + lent_out + writtenOff + p >= PoolReserve
    BY DEF RecoveryBooks
  <1> HIDE DEF a, b, c, x, y, p, q
  <1>5. a = b + c + p - q /\ c + x + y + p >= PoolReserve
    BY <1>1, <1>2, <1>3, <1>4, BaseAssumption
  <1>6. /\ held' = totalDeposited' + rewardPool' + recovery'.returned - recovery'.unfunded
        /\ rewardPool' + lent_out' + writtenOff' + recovery'.returned >= PoolReserve
    BY <1>5 DEF a, b, c, x, y, p, q
  <1>7. LoanTyped' /\ recovery'.worsened = 0
    BY DEF loans_kept, RecoveryBooks
  <1> QED BY <1>6, <1>7 DEF RecoveryBooks

\* A covered loan keeps its collateral for each token owed when both lose the same.
LEMMA NotPoorer ==
    ASSUME NEW A \in Int, NEW D \in Int, NEW x \in Nat, A >= D
    PROVE  ~((A - x) * D < A * (D - x))
  <1>1. x * (A - D) >= 0
    BY MulNat, A - D \in Nat
  <1>2. (A - x) * D - A * (D - x) = x * (A - D)
    OBVIOUS
  <1>3. (A - x) * D \in Int /\ A * (D - x) \in Int /\ x * (A - D) \in Int
    OBVIOUS
  <1> QED BY ONLY <1>1, <1>2, <1>3

\* A recovery: what comes off the loan is given up in deposits, unless nothing comes off.
LEMMA RecoverKeeps ==
    ASSUME RecoveryBooks, NEW u \in Users, NEW keeper \in Accounts, check_and_recover(keeper, u)
    PROVE  RecoveryBooks'
  <1> DEFINE c == recovery.cfg[u]
             l == loans[u]
             r == remedy(u)
             tip == bps(r.worth, KeeperIncentive)
             given == IF r.burn = 0 THEN 0 ELSE r.worth
             after == IF c.action = "AutoClaim" THEN l ELSE apply_loan_repayment(l, r.loan)
             poorer == /\ after # NoLoan /\ amount_of(u) >= debt_of(l)
                       /\ (amount_of(u) - given) * debt_of(l) < amount_of(u) * debt_of(after)
             last == [recovery.last EXCEPT ![u] = now]
             back == recovery.returned + debt_of(l) - debt_of(after)
             extra == IF r.burn = 0 THEN r.user ELSE 0
             lacking == recovery.unfunded + tip + extra
             worsened == IF poorer THEN recovery.worsened + 1 ELSE recovery.worsened
  <1>1. /\ LoanTyped /\ Books /\ due \in [Users -> Nat] /\ recovery \in RecoverySheet /\ l \in Loan /\ live(l, now)
        /\ loans \in [Users -> Loan] /\ wallet \in [Accounts -> Nat] /\ held \in Int /\ now \in Nat
        /\ totalDeposited \in Nat /\ rewardPool \in Nat /\ writtenOff \in Nat /\ shares \in [Users -> Nat] /\ shares[u] \in Nat
        /\ totalShares \in Nat /\ amount_of(u) \in Nat
    BY BooksTotal, AmountBound DEF RecoveryBooks, LoanTyped, Books
  <1>2. /\ debt_of(l) > 0 /\ (c.action # "AutoClaim" => r.burn > 0) /\ held >= r.user + tip
        /\ held' = held - r.user - tip
        /\ wallet' = [a \in Accounts |-> wallet[a] + (IF a = u THEN r.user ELSE 0) + (IF a = keeper THEN tip ELSE 0)]
        /\ shares' = [shares EXCEPT ![u] = shares[u] - r.burn]
        /\ totalShares' = totalShares - r.burn
        /\ totalDeposited' = totalDeposited - given
        /\ loans' = [loans EXCEPT ![u] = after]
        /\ due' = [due EXCEPT ![u] = IF c.action = "AutoClaim" THEN 0 ELSE due[u]]
        /\ recovery' = [recovery EXCEPT !.last = last, !.returned = back, !.unfunded = lacking, !.worsened = worsened]
        /\ UNCHANGED <<now, rewardPool, loanConfig, writtenOff>>
    BY DEF check_and_recover
  <1>3. remedy_sound(u, r)
    BY <1>1, RemedySound
  <1> HIDE DEF r
  <1>4. /\ r.burn \in Nat /\ r.worth \in Nat /\ r.loan \in Nat /\ r.user \in Nat
        /\ r.burn <= shares[u] /\ (r.burn # 0 => r.worth <= totalDeposited)
        /\ (c.action = "AutoClaim" => r.burn = 0)
        /\ (c.action # "AutoClaim" => /\ r.loan <= debt_of(l) /\ r.worth = r.loan + r.user
                                      /\ (r.user > 0 => r.loan = debt_of(l)))
    BY <1>3 DEF remedy_sound
  <1>5. tip \in Nat
    BY <1>4, BpsNat, SafeguardAssumption
  <1> HIDE DEF tip
  <1>6. given \in Nat /\ given <= totalDeposited
    BY <1>1, <1>4
  <1>7. l.at \in 0..now /\ debt_of(l) \in Nat /\ l.principal \in Nat
    <2>1. debt_of(NoLoan) = 0
      BY DEF NoLoan, debt_of
    <2>2. l # NoLoan
      BY <1>2, <2>1
    <2> QED BY <1>1, <2>2 DEF live, Loan, debt_of
  <1> DEFINE cleared == IF c.action = "AutoClaim" THEN 0 ELSE r.loan
  <1>8. /\ after \in Loan /\ live(after, now) /\ debt_of(after) = debt_of(l) - cleared
        /\ after.principal >= l.principal - cleared /\ (cleared = debt_of(l) => after = NoLoan)
    <2>1. CASE c.action = "AutoClaim"
      BY <1>1, <1>2, <1>7, <2>1
    <2>2. CASE c.action # "AutoClaim"
      BY <1>1, <1>4, <1>7, <2>2, RecoveryRepays
    <2> QED BY <2>1, <2>2
  <1>9. cleared \in Nat /\ given - r.user = cleared - extra /\ (cleared # debt_of(l) => given = cleared)
    BY <1>2, <1>4
  <1>10. extra \in Nat
    BY <1>4
  <1> HIDE DEF cleared, given, after, extra
  <1>11. ~poorer
    <2> SUFFICES ASSUME after # NoLoan, amount_of(u) >= debt_of(l)
                 PROVE  ~((amount_of(u) - given) * debt_of(l) < amount_of(u) * debt_of(after))
      OBVIOUS
    <2>1. given = cleared
      BY <1>8, <1>9
    <2> DEFINE A == amount_of(u)   D == debt_of(l)
    <2>2. A \in Int /\ D \in Int /\ A >= D
      BY <1>1, <1>7
    <2> HIDE DEF A, D
    <2>3. ~((A - cleared) * D < A * (D - cleared))
      BY <1>9, <2>2, NotPoorer
    <2> QED BY <1>8, <2>1, <2>3 DEF A, D
  <1>12. worsened = 0
    BY <1>11 DEF RecoveryBooks
  <1> HIDE DEF worsened, poorer
  <1>13. back = recovery.returned + cleared /\ recovery.returned \in Nat /\ recovery.unfunded \in Nat
    <2>1. recovery.returned \in Nat /\ recovery.unfunded \in Nat
      BY <1>1 DEF RecoverySheet
    <2> QED BY <1>7, <1>8, <1>9, <2>1
  <1>14. back \in Nat /\ lacking \in Nat
    BY <1>5, <1>9, <1>10, <1>13
  <1>15. last \in [Users -> Nat]
    BY <1>1 DEF RecoverySheet
  <1> HIDE DEF last, back, lacking
  <1>16. /\ recovery' \in RecoverySheet /\ recovery'.returned = back /\ recovery'.unfunded = lacking
         /\ recovery'.worsened = 0
    <2>1. worsened \in Nat
      BY <1>12
    <2> QED BY ONLY <1>1, <1>2, <1>12, <1>14, <1>15, <2>1 DEF RecoverySheet
  <1>17. shares' \in [Users -> Nat] /\ totalShares' = sum(shares')
    <2> DEFINE m == shares[u] - r.burn
    <2>1. m \in Nat /\ shares' = [shares EXCEPT ![u] = m] /\ totalShares' = totalShares + m - shares[u]
      BY <1>1, <1>2, <1>4
    <2> HIDE DEF m
    <2> QED BY <1>1, <2>1, ShareWrite
  <1>18. wallet' \in [Accounts -> Nat] /\ held' \in Int /\ totalDeposited' \in Nat /\ due' \in [Users -> Nat]
    <2>1. wallet' \in [Accounts -> Nat]
      BY <1>1, <1>2, <1>4, <1>5
    <2>2. held' \in Int /\ totalDeposited' \in Nat
      BY <1>1, <1>2, <1>4, <1>5, <1>6
    <2>3. due' \in [Users -> Nat]
      BY <1>1, <1>2
    <2> QED BY <2>1, <2>2, <2>3
  <1>19. Books'
    BY <1>1, <1>2, <1>17, <1>18 DEF Books
  <1>20. loans' \in [Users -> Loan] /\ lent_out \in Int /\ lent_out' \in Int /\ lent_out' = lent_out + after.principal - l.principal
    BY ONLY <1>1, <1>2, <1>8, LentChange, u \in Users
  <1>21. LoanTyped'
    <2>1. \A v \in Users : live(loans'[v], now')
      BY <1>1, <1>2, <1>8 DEF live, LoanTyped
    <2> QED BY <1>1, <1>2, <1>19, <1>20, <2>1 DEF LoanTyped
  <1>22. held' = totalDeposited' + rewardPool' + recovery'.returned - recovery'.unfunded
    <2> DEFINE a == held'   b == totalDeposited'   o == recovery.returned   p == recovery.unfunded   k == r.user
    <2>1. a = held - k - tip /\ b = totalDeposited - given /\ rewardPool' = rewardPool
      BY <1>2
    <2>2. held = totalDeposited + rewardPool + o - p
      BY DEF RecoveryBooks
    <2>3. back = o + cleared /\ lacking = p + tip + extra /\ given - k = cleared - extra
      BY <1>9, <1>13 DEF lacking
    <2>4. /\ k \in Int /\ o \in Int /\ p \in Int /\ tip \in Int /\ given \in Int /\ cleared \in Int /\ extra \in Int
          /\ held \in Int /\ totalDeposited \in Int /\ rewardPool \in Int
      BY <1>1, <1>4, <1>5, <1>6, <1>9, <1>10, <1>13
    <2> HIDE DEF a, b, o, p, k
    <2>5. a = b + rewardPool + back - lacking
      BY ONLY <2>1, <2>2, <2>3, <2>4
    <2> QED BY <1>16, <2>1, <2>5 DEF a, b
  <1>23. rewardPool' + lent_out' + writtenOff' + recovery'.returned >= PoolReserve
    <2> DEFINE x == lent_out'   p == after.principal   q == l.principal   o == recovery.returned
    <2>1. x = lent_out + p - q /\ p >= q - cleared /\ back = o + cleared
      BY <1>8, <1>13, <1>20
    <2>2. rewardPool + lent_out + writtenOff + o >= PoolReserve
      BY DEF RecoveryBooks
    <2>3. /\ x \in Int /\ p \in Int /\ q \in Int /\ cleared \in Int /\ o \in Int /\ lent_out \in Int /\ rewardPool \in Int
          /\ writtenOff \in Int /\ PoolReserve \in Int
      <3>1. p \in Nat
        BY <1>8 DEF Loan
      <3> QED BY <1>1, <1>7, <1>9, <1>13, <1>20, <3>1, BaseAssumption
    <2> HIDE DEF x, p, q, o
    <2>4. rewardPool + x + writtenOff + back >= PoolReserve
      BY ONLY <2>1, <2>2, <2>3
    <2> QED BY <1>2, <1>16, <2>4 DEF x
  <1> QED BY <1>16, <1>18, <1>21, <1>22, <1>23 DEF RecoveryBooks

\* Every step around the recoveries keeps their books.
LEMMA RecoveryMovesKeep ==
    ASSUME RecoveryBooks, RecoveryMoves \/ SafeguardTick
    PROVE  RecoveryBooks'
  <1>1. LoanTyped /\ due \in [Users -> Nat] /\ recovery \in RecoverySheet /\ Guarded \subseteq Users /\ Admin \in Accounts
    BY SafeguardAssumption DEF RecoveryBooks, Accounts
  <1>2. ASSUME UNCHANGED <<base_vars, loan_vars>>, due' \in [Users -> Nat], recovery' \in RecoverySheet,
               recovery'.returned = recovery.returned, recovery'.unfunded = recovery.unfunded, recovery'.worsened = recovery.worsened
        PROVE  RecoveryBooks'
    <2>1. loans_kept
      BY <1>1, <1>2, LoanOthersKeep
    <2> QED BY <1>2, <2>1, RecoveryQuiet
  <1>3. ASSUME NEW u \in Guarded, NEW n \in RewardSteps, accrue_due(u, n) PROVE RecoveryBooks'
    <2>1. due' \in [Users -> Nat] /\ UNCHANGED <<base_vars, loan_vars, recovery>>
      BY <1>1, <1>3, AccrueDue
    <2> QED BY <1>1, <1>2, <2>1
  <1>4. ASSUME NEW u \in Guarded, NEW m \in Remedy, UNCHANGED <<base_vars, loan_vars, due>>,
               recovery' = [recovery EXCEPT !.cfg = [recovery.cfg EXCEPT ![u] = m]]
        PROVE  RecoveryBooks'
    <2> DEFINE C == [recovery.cfg EXCEPT ![u] = m]
    <2>1. C \in [Users -> Remedy]
      BY <1>1 DEF RecoverySheet
    <2>2. recovery' = [recovery EXCEPT !.cfg = C]
      BY <1>4
    <2> HIDE DEF C
    <2>3. /\ recovery' \in RecoverySheet /\ recovery'.returned = recovery.returned
          /\ recovery'.unfunded = recovery.unfunded /\ recovery'.worsened = recovery.worsened
      BY ONLY <1>1, <2>1, <2>2 DEF RecoverySheet
    <2> QED BY <1>1, <1>2, <1>4, <2>3
  <1>5. ASSUME NEW u \in Guarded, NEW t \in Triggers, NEW a \in RecoveryAction, NEW n \in Amounts, set_recovery_config(u, t, a, n)
        PROVE  RecoveryBooks'
    <2> DEFINE m == [trigger |-> t, action |-> a, amount |-> n]
    <2>1. m \in Remedy
      BY SafeguardAssumption, BaseAssumption DEF Remedy
    <2>2. UNCHANGED <<base_vars, loan_vars, due>> /\ recovery' = [recovery EXCEPT !.cfg = [recovery.cfg EXCEPT ![u] = m]]
      BY <1>5 DEF set_recovery_config
    <2> HIDE DEF m
    <2> QED BY <1>4, <2>1, <2>2
  <1>6. ASSUME NEW u \in Guarded, cancel_recovery_config(u) PROVE RecoveryBooks'
    <2>1. NoRecovery \in Remedy
      BY DEF NoRecovery, Remedy
    <2> QED BY <1>4, <1>6, <2>1 DEF cancel_recovery_config
  <1>7. ASSUME NEW u \in Guarded, check_and_recover(Admin, u) PROVE RecoveryBooks'
    BY <1>1, <1>7, RecoverKeeps
  <1>8. ASSUME loans_kept, UNCHANGED safeguard_vars PROVE RecoveryBooks'
    BY <1>1, <1>8, RecoveryQuiet DEF safeguard_vars
  <1>9. ASSUME \/ \E c \in LoanConfigs : set_loan_config(c)
               \/ \E u \in Guarded, a \in Amounts : borrow(u, a) \/ repay(u, a)
               \/ \E u \in Guarded : liquidate_loan(u) \/ unstake_collateral(u)
        PROVE  loans_kept
    <2>1. Amounts \subseteq Nat
      BY BaseAssumption
    <2> QED BY <1>1, <1>9, <2>1, BorrowKeeps, RepayKeeps, LiquidateKeeps, LoanOthersKeep
  <1>10. CASE SafeguardTick
    BY <1>1, <1>8, <1>10, LoanOthersKeep DEF SafeguardTick, TimePasses
  <1> QED BY <1>3, <1>5, <1>6, <1>7, <1>8, <1>9, <1>10 DEF RecoveryMoves

-------------------------------------------------------------------------------
\* The books of the three features.
SafeguardInv ==
    /\ focus = "recovery" => RecoveryBooks
    /\ focus = "pledges" => PledgeBooks
    /\ focus = "heartbeats" => HeartbeatBooks

\* They are in order at the start.
LEMMA SafeguardInvInit == FundsInit => SafeguardInv
  <1> SUFFICES ASSUME FundsInit PROVE RecoveryBooks /\ PledgeBooks /\ HeartbeatBooks
    BY DEF SafeguardInv
  <1>1. BaseInitWith(Purse) /\ LoanInit /\ SafeguardInit /\ Purse \in Nat
    BY BaseAssumption DEF FundsInit, BaseInit
  <1>2. Books /\ held = totalDeposited + rewardPool /\ now = 0 /\ rewardPool = PoolReserve /\ totalDeposited \in Nat
    BY <1>1, BooksInit, BaseInitFacts DEF BaseInitWith
  <1>3. due \in [Users -> Nat]
    BY <1>1 DEF SafeguardInit
  <1>4. PledgeBooks
    BY <1>1, <1>2 DEF SafeguardInit, PledgeInit, PledgeBooks, PledgeSheet, NoPledge, pledges_used_once
  <1>5. HeartbeatBooks
    <2>1. heartbeat \in HeartbeatSheet /\ heartbeat.silent = 0 /\ \A u \in Users : ~heartbeat.flag[u]
      BY <1>1 DEF SafeguardInit, HeartbeatInit, HeartbeatSheet, NoLedger
    <2> QED BY <1>2, <1>3, <2>1 DEF HeartbeatBooks, boosts_heard
  <1>6. RecoveryBooks
    <2>1. NoLoan \in Loan /\ live(NoLoan, now) /\ NoLoan.principal = 0
      BY DEF NoLoan, Loan, live, NoLedger
    <2>2. loans \in [Users -> Loan] /\ (\A u \in Users : loans[u] = NoLoan) /\ writtenOff = 0 /\ loanConfig = NoConfig
      BY <1>1, <2>1 DEF LoanInit
    <2> DEFINE f == [u \in Users |-> loans[u].principal]
    <2>3. f \in [Users -> Int] /\ IsFiniteSet(Users) /\ \A u \in Users : f[u] = 0
      BY <2>1, <2>2, BaseAssumption
    <2>4. lent_out = sum(f)
      BY DEF lent_out
    <2> HIDE DEF f
    <2>5. sum(f) = 0
      BY ONLY <2>3, SumZero
    <2>6. LoanTyped
      BY <1>2, <2>1, <2>2 DEF LoanTyped
    <2>7. NoRecovery \in Remedy
      BY DEF NoRecovery, Remedy
    <2>8. recovery \in RecoverySheet /\ recovery.returned = 0 /\ recovery.unfunded = 0 /\ recovery.worsened = 0
      BY <1>1, <2>7 DEF SafeguardInit, RecoveryInit, RecoverySheet
    <2> QED BY <1>2, <1>3, <2>2, <2>4, <2>5, <2>6, <2>8, BaseAssumption DEF RecoveryBooks
  <1> QED BY <1>4, <1>5, <1>6

\* Every step keeps the books of the feature in focus.
LEMMA SafeguardInvStep == SafeguardInv /\ [FundsNext]_funds_vars => SafeguardInv'
  <1> SUFFICES ASSUME SafeguardInv, [FundsNext]_funds_vars PROVE SafeguardInv'
    OBVIOUS
  <1>1. CASE focus \notin {"recovery", "pledges", "heartbeats"}
    BY <1>1 DEF SafeguardInv, FundsNext, funds_vars
  <1>2. CASE focus \in {"recovery", "pledges", "heartbeats"}
    <2>1. /\ UNCHANGED focus
          /\ \/ focus = "recovery" /\ RecoveryMoves
             \/ focus = "pledges" /\ PledgeMoves
             \/ focus = "heartbeats" /\ HeartbeatMoves
             \/ SafeguardTick
             \/ UNCHANGED <<base_vars, loan_vars, safeguard_vars>>
      BY <1>2, SafeguardStep
    <2>2. CASE UNCHANGED <<base_vars, loan_vars, safeguard_vars>>
      <3>1. RecoveryBooks => RecoveryBooks'
        <4>1. lent_out' = lent_out
          BY <2>2 DEF lent_out, loan_vars
        <4>2. LoanTyped => LoanTyped'
          BY <2>2 DEF LoanTyped, Books, base_vars, pool, loan_vars
        <4>3. UNCHANGED <<held, totalDeposited, rewardPool, writtenOff, due, recovery>>
          BY <2>2 DEF base_vars, pool, loan_vars, safeguard_vars
        <4> QED BY <4>1, <4>2, <4>3 DEF RecoveryBooks
      <3>2. PledgeBooks => PledgeBooks'
        BY <2>2 DEF PledgeBooks, pledges_used_once, base_vars, safeguard_vars
      <3>3. HeartbeatBooks => HeartbeatBooks'
        BY <2>2 DEF HeartbeatBooks, boosts_heard, Books, base_vars, pool, safeguard_vars
      <3> QED BY <2>1, <3>1, <3>2, <3>3 DEF SafeguardInv
    <2>3. CASE focus = "recovery"
      BY <2>1, <2>2, <2>3, RecoveryMovesKeep DEF SafeguardInv
    <2>4. CASE focus = "pledges"
      BY <2>1, <2>2, <2>4, PledgeMovesKeep DEF SafeguardInv
    <2>5. CASE focus = "heartbeats"
      BY <2>1, <2>2, <2>5, HeartbeatMovesKeep DEF SafeguardInv
    <2> QED BY <1>2, <2>3, <2>4, <2>5
  <1> QED BY <1>1, <1>2

\* Automatic recovery, commitments and heartbeats (position_health_auto_recovery.rs,
\* commitment.rs, position_heartbeat.rs): over any borrowing, exits and repeated
\* recoveries the debt a keeper clears was given up in deposits, what is paid beside it is
\* all the pool lacks and a covered loan is left no poorer; a commitment is revealed once;
\* and only a user heard from in time is paid the boost, out of the reward pool.
THEOREM SafeguardsAreKept == FundsSpec => []SafeguardsHold
  <1>1. RecoveryBooks => recoveries_accounted
    BY DEF RecoveryBooks, recoveries_accounted, lent_out
  <1>2. SafeguardInv => SafeguardsHold
    BY <1>1 DEF SafeguardInv, SafeguardsHold, PledgeBooks, HeartbeatBooks
  <1> QED BY <1>2, SafeguardInvInit, SafeguardInvStep, PTL DEF FundsSpec, funds_vars

-------------------------------------------------------------------------------
(* Strategies. *)

\* In these focuses only the entry points of the strategies run.
LEMMA StrategyStep ==
    ASSUME focus \in {"strategies", "capped"}, [FundsNext]_funds_vars
    PROVE  /\ UNCHANGED focus
           /\ \/ focus = "strategies" /\ StrategyMoves
              \/ focus = "capped" /\ CappedMoves
              \/ UNCHANGED <<base_vars, strategy_vars>>
  BY DEF FundsNext, funds_vars, capacity_step, market_step, contest_step, campaign_step, claim_step,
         subpool_step, position_step, outside_step, ballot_step, safeguard_step, wind_step, shared_step

\* What a list of allocations adds up to.
allocated_in(rs) == sum([i \in DOMAIN rs |-> rs[i].allocated])

listed_amounts(rs) ==
    /\ DOMAIN rs = 1..Len(rs) /\ Len(rs) \in Nat /\ IsFiniteSet(DOMAIN rs)
    /\ [i \in DOMAIN rs |-> rs[i].allocated] \in [DOMAIN rs -> Int]
    /\ allocated_in(rs) \in Int

\* The allocations of a list add up to an integer.
LEMMA AllocationsAdd ==
    ASSUME NEW R, \A r \in R : r.allocated \in Int, NEW rs \in Seq(R)
    PROVE  listed_amounts(rs)
  <1> DEFINE f == [i \in DOMAIN rs |-> rs[i].allocated]
  <1>1. DOMAIN rs = 1..Len(rs) /\ Len(rs) \in Nat /\ \A i \in DOMAIN rs : rs[i] \in R
    OBVIOUS
  <1>2. IsFiniteSet(1..Len(rs))
    <2>1. 1 \in Int /\ Len(rs) \in Int
      BY <1>1
    <2> QED BY ONLY <2>1, FS_Interval
  <1>3. f \in [DOMAIN rs -> Int] /\ IsFiniteSet(DOMAIN rs)
    BY <1>1, <1>2
  <1>4. allocated_in(rs) = sum(f)
    BY DEF allocated_in
  <1> HIDE DEF f
  <1>5. sum(f) \in Int
    BY ONLY <1>3, SumType
  <1> QED BY <1>1, <1>3, <1>4, <1>5 DEF listed_amounts, f

\* One allocation changes, or another is added.
rewritten(R, rs, i, r) ==
    /\ [rs EXCEPT ![i] = r] \in Seq(R) /\ DOMAIN [rs EXCEPT ![i] = r] = DOMAIN rs
    /\ allocated_in([rs EXCEPT ![i] = r]) = allocated_in(rs) + r.allocated - rs[i].allocated
    /\ allocated_in(rs) \in Int /\ rs[i].allocated \in Int
appended(R, rs, r) ==
    /\ Append(rs, r) \in Seq(R) /\ DOMAIN Append(rs, r) = 1..(Len(rs) + 1)
    /\ allocated_in(Append(rs, r)) = allocated_in(rs) + r.allocated
    /\ allocated_in(rs) \in Int

\* Writing one record changes the sum by the difference.
LEMMA AllocationWrite ==
    ASSUME NEW R, \A r \in R : r.allocated \in Int, NEW rs \in Seq(R), NEW i \in DOMAIN rs, NEW r \in R
    PROVE  rewritten(R, rs, i, r)
  <1> DEFINE qs == [rs EXCEPT ![i] = r]
             f == [k \in DOMAIN rs |-> rs[k].allocated]   g == [k \in DOMAIN qs |-> qs[k].allocated]
  <1>1. qs \in Seq(R) /\ DOMAIN qs = DOMAIN rs /\ qs[i] = r /\ \A k \in DOMAIN rs \ {i} : qs[k] = rs[k]
    OBVIOUS
  <1>2. listed_amounts(rs)
    BY AllocationsAdd
  <1> HIDE DEF qs
  <1>3. listed_amounts(qs)
    BY <1>1, AllocationsAdd
  <1>4. /\ IsFiniteSet(DOMAIN rs) /\ f \in [DOMAIN rs -> Int] /\ g \in [DOMAIN rs -> Int]
        /\ g[i] = r.allocated /\ f[i] = rs[i].allocated /\ \A k \in DOMAIN rs \ {i} : g[k] = f[k]
    <2>1. IsFiniteSet(DOMAIN rs) /\ f \in [DOMAIN rs -> Int]
      BY <1>2 DEF listed_amounts
    <2>2. g \in [DOMAIN rs -> Int]
      BY <1>1, <1>3 DEF listed_amounts
    <2> QED BY <1>1, <2>1, <2>2
  <1>5. allocated_in(rs) = sum(f) /\ allocated_in(qs) = sum(g)
    BY DEF allocated_in
  <1> HIDE DEF f, g
  <1>6. sum(g) = sum(f) + g[i] - f[i]
    BY ONLY <1>4, SumChange, i \in DOMAIN rs
  <1>7. allocated_in(rs) \in Int /\ rs[i].allocated \in Int
    BY <1>2, <1>4 DEF listed_amounts
  <1> QED BY <1>1, <1>4, <1>5, <1>6, <1>7 DEF qs, rewritten

\* Appending one adds its allocation.
LEMMA AllocationAdd ==
    ASSUME NEW R, \A r \in R : r.allocated \in Int, NEW rs \in Seq(R), NEW r \in R
    PROVE  appended(R, rs, r)
  <1> DEFINE qs == Append(rs, r)   n == Len(rs) + 1
             f == [k \in DOMAIN rs |-> rs[k].allocated]   g == [k \in DOMAIN qs |-> qs[k].allocated]
  <1>1. /\ qs \in Seq(R) /\ DOMAIN qs = 1..n /\ DOMAIN rs = 1..Len(rs) /\ Len(rs) \in Nat /\ qs[n] = r
        /\ \A k \in DOMAIN rs : qs[k] = rs[k]
    OBVIOUS
  <1>2. listed_amounts(rs)
    BY AllocationsAdd
  <1> HIDE DEF qs
  <1>3. listed_amounts(qs)
    BY <1>1, AllocationsAdd
  <1>4. /\ IsFiniteSet(DOMAIN qs) /\ n \in DOMAIN qs /\ DOMAIN rs \subseteq DOMAIN qs /\ n \notin DOMAIN rs
        /\ (\A y \in DOMAIN qs : y \in DOMAIN rs \/ y = n)
        /\ f \in [DOMAIN rs -> Int] /\ g \in [DOMAIN qs -> Int] /\ \A y \in DOMAIN rs : g[y] = f[y]
    <2>1. n \in DOMAIN qs /\ DOMAIN rs \subseteq DOMAIN qs /\ n \notin DOMAIN rs /\ (\A y \in DOMAIN qs : y \in DOMAIN rs \/ y = n)
      BY <1>1
    <2>2. f \in [DOMAIN rs -> Int] /\ g \in [DOMAIN qs -> Int] /\ IsFiniteSet(DOMAIN qs)
      BY <1>2, <1>3 DEF listed_amounts
    <2> QED BY <1>1, <2>1, <2>2
  <1>5. allocated_in(rs) = sum(f) /\ allocated_in(qs) = sum(g) /\ g[n] = r.allocated
    BY <1>1, <1>4 DEF allocated_in
  <1> HIDE DEF f, g, n
  <1>6. sum(g) = sum(f) + g[n]
    BY ONLY <1>4, SumExtend
  <1>7. allocated_in(rs) \in Int
    BY <1>2 DEF listed_amounts
  <1> QED BY <1>1, <1>5, <1>6, <1>7 DEF qs, n, appended

\* The records, the sheet they are on, and what an adapter reports.
Record == [adapter : Adapters, allocated : Nat, hwm : Int, disabled : BOOLEAN]
StrategySheet == [recs : Seq(Record), idle : Nat, fee : Nat, split : Seq(Nat), reserve : Nat, booked : Int, paid : Int,
                  charged : [Adapters -> Int], reported : Nat]
MarketOf == [assets : Nat, net : Int, peak : Nat]

\* One record for each adapter.
one_each(rs) == \A i, j \in DOMAIN rs : rs[i].adapter = rs[j].adapter => i = j

\* Until a loss is written off: an adapter without a record holds and earned nothing, no
\* record is above its high-water mark, and the mark less what was charged covers what the
\* adapter holds apart from its gains.
unused(s, m, a) == (\A i \in DOMAIN s.recs : s.recs[i].adapter # a) => m.assets = 0 /\ m.net = 0 /\ s.charged[a] = 0
below_mark(s, m, r) == ~r.disabled => r.allocated <= r.hwm /\ m.assets - m.net <= r.hwm - s.charged[r.adapter]
marked(s, m) ==
    s.reported = 0 =>
        /\ \A a \in Adapters : s.charged[a] <= m[a].peak /\ m[a].net <= m[a].peak /\ unused(s, m[a], a)
        /\ \A i \in DOMAIN s.recs : below_mark(s, m[s.recs[i].adapter], s.recs[i])

StrategyBooks ==
    /\ Books /\ capped = <<>> /\ strategies \in StrategySheet /\ market_value \in [Adapters -> MarketOf]
    /\ one_each(strategies.recs) /\ marked(strategies, market_value)
    /\ held + allocated_in(strategies.recs) = totalDeposited + rewardPool + strategies.reserve + strategies.booked - strategies.paid

\* What the books are made of.
strategy_parts ==
    /\ Books /\ held \in Int /\ totalDeposited \in Nat /\ rewardPool \in Nat /\ now \in Nat /\ wallet \in [Accounts -> Nat]
    /\ strategies \in StrategySheet /\ strategies.recs \in Seq(Record) /\ strategies.reserve \in Nat
    /\ strategies.booked \in Int /\ strategies.paid \in Int /\ strategies.charged \in [Adapters -> Int]
    /\ strategies.reported \in Nat /\ strategies.fee \in Nat /\ strategies.split \in Seq(Nat)
    /\ (\A i \in DOMAIN strategies.recs : strategies.recs[i] \in Record)
    /\ DOMAIN strategies.recs = 1..Len(strategies.recs) /\ Len(strategies.recs) \in Nat
    /\ IsFiniteSet(DOMAIN strategies.recs) /\ allocated_in(strategies.recs) \in Int
    /\ market_value \in [Adapters -> MarketOf] /\ one_each(strategies.recs) /\ marked(strategies, market_value)
    /\ held + allocated_in(strategies.recs) = totalDeposited + rewardPool + strategies.reserve + strategies.booked - strategies.paid

\* The numbers of a record.
LEMMA RecordNumbers == \A r \in Record : r.allocated \in Int /\ r.allocated \in Nat /\ r.hwm \in Int /\ r.disabled \in BOOLEAN /\ r.adapter \in Adapters
  BY DEF Record

\* The books, taken apart.
LEMMA StrategyParts == ASSUME StrategyBooks PROVE strategy_parts
  <1>1. strategies \in StrategySheet /\ strategies.recs \in Seq(Record)
    BY DEF StrategyBooks, StrategySheet
  <1>2. listed_amounts(strategies.recs)
    BY <1>1, RecordNumbers, AllocationsAdd
  <1>3. /\ strategies.reserve \in Nat /\ strategies.booked \in Int /\ strategies.paid \in Int
        /\ strategies.charged \in [Adapters -> Int] /\ strategies.reported \in Nat /\ strategies.fee \in Nat
        /\ strategies.split \in Seq(Nat)
    BY <1>1 DEF StrategySheet
  <1>4. /\ \A i \in DOMAIN strategies.recs : strategies.recs[i] \in Record
        /\ DOMAIN strategies.recs = 1..Len(strategies.recs) /\ Len(strategies.recs) \in Nat
    BY <1>1
  <1>5. held \in Int /\ totalDeposited \in Nat /\ rewardPool \in Nat /\ now \in Nat /\ wallet \in [Accounts -> Nat]
    BY DEF StrategyBooks, Books
  <1> QED BY <1>1, <1>2, <1>3, <1>4, <1>5 DEF StrategyBooks, strategy_parts, listed_amounts

\* The record of an adapter.
LEMMA IndexFound ==
    ASSUME strategies.recs \in Seq(Record), NEW a
    PROVE  /\ (index(a) # 0 => index(a) \in DOMAIN strategies.recs /\ strategies.recs[index(a)].adapter = a)
           /\ (index(a) = 0 => \A i \in DOMAIN strategies.recs : strategies.recs[i].adapter # a)
  <1> DEFINE D == {i \in DOMAIN strategies.recs : strategies.recs[i].adapter = a}
             c == CHOOSE i \in DOMAIN strategies.recs : strategies.recs[i].adapter = a
  <1>1. DOMAIN strategies.recs = 1..Len(strategies.recs) /\ Len(strategies.recs) \in Nat
    OBVIOUS
  <1>2. CASE \E i \in DOMAIN strategies.recs : strategies.recs[i].adapter = a
    <2>1. c \in DOMAIN strategies.recs /\ strategies.recs[c].adapter = a
      BY <1>2
    <2>2. index(a) = c
      BY <1>2 DEF index
    <2> HIDE DEF c
    <2>3. c # 0
      BY <1>1, <2>1
    <2> QED BY <2>1, <2>2, <2>3
  <1>3. CASE ~ \E i \in DOMAIN strategies.recs : strategies.recs[i].adapter = a
    <2>1. index(a) = 0
      BY <1>3 DEF index
    <2> QED BY <1>3, <2>1
  <1> QED BY <1>2, <1>3

\* The sheet t and the adapters q are in order again after a record of s is added, or written.
first_settled(s, t, m, q, a, n) == one_each(t.recs) /\ marked(t, q)
record_settled(s, t, m, q, i, r) == one_each(t.recs) /\ marked(t, q)

\* Tokens to and from an adapter change what it holds and nothing else.
LEMMA SentTo ==
    ASSUME market_value \in [Adapters -> MarketOf], NEW a \in Adapters, NEW n \in Int,
           market_value[a].assets + n \in Nat, sent(a, n)
    PROVE  /\ market_value' \in [Adapters -> MarketOf] /\ market_value'[a].assets = market_value[a].assets + n
           /\ market_value'[a].net = market_value[a].net /\ market_value'[a].peak = market_value[a].peak
           /\ \A b \in Adapters \ {a} : market_value'[b] = market_value[b]
           /\ market_value[a].assets \in Nat /\ market_value[a].net \in Int /\ market_value[a].peak \in Nat
  <1> DEFINE v == market_value[a]   x == v.assets + n   w == [v EXCEPT !.assets = x]
  <1>1. v \in MarketOf /\ x \in Nat
    OBVIOUS
  <1>2. w \in MarketOf /\ w.assets = x /\ w.net = v.net /\ w.peak = v.peak
        /\ v.assets \in Nat /\ v.net \in Int /\ v.peak \in Nat
    <2> HIDE DEF x, v
    <2> QED BY <1>1 DEF MarketOf
  <1>3. market_value' = [market_value EXCEPT ![a] = w]
    BY DEF sent
  <1> HIDE DEF w
  <1> QED BY <1>2, <1>3

\* A first allocation appends a record.
LEMMA FirstKeeps ==
    ASSUME NEW s \in StrategySheet, NEW t \in StrategySheet, NEW m \in [Adapters -> MarketOf], NEW q \in [Adapters -> MarketOf],
           NEW a \in Adapters, NEW n \in Nat, one_each(s.recs), marked(s, m),
           \A i \in DOMAIN s.recs : s.recs[i].adapter # a,
           t.recs = Append(s.recs, [adapter |-> a, allocated |-> n, hwm |-> n, disabled |-> FALSE]),
           t.charged = s.charged, t.reported = s.reported,
           q[a].assets = m[a].assets + n, q[a].net = m[a].net, q[a].peak = m[a].peak,
           \A b \in Adapters \ {a} : q[b] = m[b]
    PROVE  first_settled(s, t, m, q, a, n)
  <1> DEFINE r == [adapter |-> a, allocated |-> n, hwm |-> n, disabled |-> FALSE]   k == Len(s.recs) + 1
  <1>1. s.recs \in Seq(Record) /\ t.recs \in Seq(Record) /\ s.charged \in [Adapters -> Int]
    BY DEF StrategySheet
  <1>2. /\ DOMAIN s.recs = 1..Len(s.recs) /\ Len(s.recs) \in Nat /\ DOMAIN t.recs = 1..k /\ t.recs[k] = r
        /\ \A i \in DOMAIN s.recs : t.recs[i] = s.recs[i] /\ s.recs[i] \in Record
    BY <1>1
  <1>3. \A i \in DOMAIN t.recs : i \in DOMAIN s.recs \/ i = k
    BY <1>2
  <1>4. r.adapter = a /\ r.allocated = n /\ r.hwm = n
    OBVIOUS
  <1>5. k \in DOMAIN t.recs /\ DOMAIN s.recs \subseteq DOMAIN t.recs
    BY <1>2
  <1> HIDE DEF r, k
  <1>6. one_each(t.recs)
    BY <1>2, <1>3, <1>4 DEF one_each
  <1>7. ASSUME t.reported = 0 PROVE \A b \in Adapters : t.charged[b] <= q[b].peak /\ q[b].net <= q[b].peak /\ unused(t, q[b], b)
    <2> TAKE b \in Adapters
    <2>1. s.charged[b] <= m[b].peak /\ m[b].net <= m[b].peak /\ unused(s, m[b], b)
      BY <1>7 DEF marked
    <2>2. CASE b = a
      <3>1. unused(t, q[b], b)
        BY <1>2, <1>4, <1>5, <2>2 DEF unused
      <3> QED BY <2>1, <2>2, <3>1
    <2>3. CASE b # a
      <3>1. unused(t, q[b], b)
        BY <1>2, <1>5, <2>1, <2>3 DEF unused
      <3> QED BY <2>1, <2>3, <3>1
    <2> QED BY <2>2, <2>3
  <1>8. ASSUME t.reported = 0 PROVE \A i \in DOMAIN t.recs : below_mark(t, q[t.recs[i].adapter], t.recs[i])
    <2> TAKE i \in DOMAIN t.recs
    <2>1. CASE i \in DOMAIN s.recs
      <3>1. below_mark(s, m[s.recs[i].adapter], s.recs[i])
        BY <1>8, <2>1 DEF marked
      <3>2. s.recs[i].adapter \in Adapters \ {a} /\ t.recs[i] = s.recs[i]
        BY <1>2, <2>1, RecordNumbers
      <3> QED BY <3>1, <3>2 DEF below_mark
    <2>2. CASE i = k
      <3>1. unused(s, m[a], a)
        BY <1>8 DEF marked
      <3>2. m[a].assets = 0 /\ m[a].net = 0 /\ s.charged[a] = 0
        BY <3>1 DEF unused
      <3>3. q[a].assets = n /\ q[a].net = 0
        BY <3>2
      <3> QED BY <1>2, <1>4, <2>2, <3>2, <3>3 DEF below_mark
    <2> QED BY <1>3, <2>1, <2>2
  <1> QED BY <1>6, <1>7, <1>8 DEF marked, first_settled

\* A record, what its adapter holds and what was charged on it change together.
LEMMA RecordWrite ==
    ASSUME NEW s \in StrategySheet, NEW t \in StrategySheet, NEW m \in [Adapters -> MarketOf], NEW q \in [Adapters -> MarketOf],
           NEW i \in DOMAIN s.recs, NEW r \in Record, one_each(s.recs), marked(s, m),
           r.adapter = s.recs[i].adapter,
           t.recs = [s.recs EXCEPT ![i] = r],
           t.charged = s.charged,
           t.reported = 0 => s.reported = 0 /\ below_mark(t, q[r.adapter], r),
           q[r.adapter].net = m[r.adapter].net, q[r.adapter].peak = m[r.adapter].peak,
           \A b \in Adapters \ {r.adapter} : q[b] = m[b]
    PROVE  record_settled(s, t, m, q, i, r)
  <1>1. s.recs \in Seq(Record) /\ t.recs \in Seq(Record) /\ s.charged \in [Adapters -> Int]
    BY DEF StrategySheet
  <1>2. /\ DOMAIN t.recs = DOMAIN s.recs /\ t.recs[i] = r
        /\ \A k \in DOMAIN s.recs \ {i} : t.recs[k] = s.recs[k]
        /\ \A k \in DOMAIN s.recs : t.recs[k].adapter = s.recs[k].adapter /\ s.recs[k].adapter \in Adapters
    BY <1>1, RecordNumbers
  <1>3. \A k \in DOMAIN s.recs \ {i} : s.recs[k].adapter # r.adapter
    BY DEF one_each
  <1>4. one_each(t.recs)
    BY <1>2 DEF one_each
  <1>5. ASSUME t.reported = 0 PROVE \A b \in Adapters : t.charged[b] <= q[b].peak /\ q[b].net <= q[b].peak /\ unused(t, q[b], b)
    <2> TAKE b \in Adapters
    <2>1. s.charged[b] <= m[b].peak /\ m[b].net <= m[b].peak /\ unused(s, m[b], b)
      BY <1>5 DEF marked
    <2>2. unused(t, q[b], b)
      BY <1>2, <2>1 DEF unused
    <2> QED BY <2>1, <2>2
  <1>6. ASSUME t.reported = 0 PROVE \A k \in DOMAIN t.recs : below_mark(t, q[t.recs[k].adapter], t.recs[k])
    <2> TAKE k \in DOMAIN t.recs
    <2>1. CASE k = i
      BY <1>2, <1>6, <2>1
    <2>2. CASE k # i
      <3>1. below_mark(s, m[s.recs[k].adapter], s.recs[k])
        BY <1>2, <1>6, <2>2 DEF marked
      <3> QED BY <1>2, <1>3, <2>2, <3>1 DEF below_mark
    <2> QED BY <2>1, <2>2
  <1> QED BY <1>4, <1>5, <1>6 DEF marked, record_settled

\* Tokens sent to a strategy stay on the books, and raise its mark.
LEMMA AllocateKeeps ==
    ASSUME StrategyBooks, NEW a \in Adapters, NEW n \in Nat, allocate_to_strategy(a, n)
    PROVE  StrategyBooks'
  <1> DEFINE i == index(a)   recs == strategies.recs   s == strategies'   q == market_value'
             new == [adapter |-> a, allocated |-> n, hwm |-> n, disabled |-> FALSE]
             more == enlarged(recs[i], n)
             qs == IF i = 0 THEN Append(recs, new) ELSE [recs EXCEPT ![i] = more]
  <1>1. strategy_parts
    BY StrategyParts
  <1>2. /\ strategies' = [strategies EXCEPT !.recs = qs] /\ held' = held - n /\ sent(a, n)
        /\ UNCHANGED <<now, wallet, pool, rewardPool, capped>> /\ (i # 0 => ~recs[i].disabled)
    BY DEF allocate_to_strategy
  <1>3. recs \in Seq(Record) /\ strategies \in StrategySheet /\ market_value \in [Adapters -> MarketOf]
        /\ one_each(recs) /\ marked(strategies, market_value)
        /\ held \in Int /\ capped = <<>> /\ totalDeposited \in Nat
    BY <1>1 DEF strategy_parts, StrategyBooks
  <1>4. market_value[a].assets \in Nat
    BY <1>3 DEF MarketOf
  <1>5. /\ q \in [Adapters -> MarketOf] /\ q[a].assets = market_value[a].assets + n
        /\ q[a].net = market_value[a].net /\ q[a].peak = market_value[a].peak
        /\ \A b \in Adapters \ {a} : q[b] = market_value[b]
    <2>1. market_value[a].assets + n \in Nat /\ n \in Int
      BY <1>4
    <2> QED BY <1>2, <1>3, <2>1, SentTo
  <1>6. /\ (i # 0 => i \in DOMAIN recs /\ recs[i].adapter = a)
        /\ (i = 0 => \A k \in DOMAIN recs : recs[k].adapter # a)
    BY <1>3, IndexFound
  <1>7. /\ new \in Record /\ new.allocated = n
        /\ (i # 0 => /\ more \in Record /\ more.allocated = recs[i].allocated + n /\ more.adapter = a
                     /\ more.hwm = recs[i].hwm + n /\ more.disabled = recs[i].disabled /\ recs[i] \in Record)
    <2>1. new \in Record /\ new.allocated = n
      BY DEF Record
    <2>2. ASSUME i # 0
          PROVE  /\ more \in Record /\ more.allocated = recs[i].allocated + n /\ more.adapter = a
                 /\ more.hwm = recs[i].hwm + n /\ more.disabled = recs[i].disabled /\ recs[i] \in Record
      <3> DEFINE r == recs[i]   x == r.allocated + n   y == r.hwm + n
      <3>1. r \in Record /\ r.adapter = a
        BY <1>3, <1>6, <2>2
      <3>2. x \in Nat /\ y \in Int
        BY <3>1, RecordNumbers
      <3>3. more = [r EXCEPT !.allocated = x, !.hwm = y]
        BY DEF enlarged
      <3> HIDE DEF r, x, y, more
      <3>4. more \in Record /\ more.allocated = x /\ more.adapter = a /\ more.hwm = y /\ more.disabled = r.disabled
        BY <3>1, <3>2, <3>3 DEF Record
      <3> QED BY <3>1, <3>4 DEF r, x, y
    <2> QED BY <2>1, <2>2
  <1>8. \A r \in Record : r.allocated \in Int
    BY RecordNumbers
  <1>9. qs \in Seq(Record) /\ allocated_in(qs) = allocated_in(recs) + n /\ allocated_in(recs) \in Int
    <2>1. CASE i = 0
      <3> HIDE DEF new
      <3>1. Append(recs, new) \in Seq(Record) /\ allocated_in(Append(recs, new)) = allocated_in(recs) + new.allocated /\ allocated_in(recs) \in Int
        <4>1. appended(Record, recs, new)
          BY <1>3, <1>7, <1>8, AllocationAdd
        <4> QED BY <4>1 DEF appended
      <3> QED BY <1>7, <2>1, <3>1
    <2>2. CASE i # 0
      <3> HIDE DEF more, new, i, recs
      <3>1. /\ [recs EXCEPT ![i] = more] \in Seq(Record)
            /\ allocated_in([recs EXCEPT ![i] = more]) = allocated_in(recs) + more.allocated - recs[i].allocated
            /\ allocated_in(recs) \in Int /\ recs[i].allocated \in Int
        <4>1. recs \in Seq(Record) /\ i \in DOMAIN recs /\ more \in Record
          BY <1>3, <1>6, <1>7, <2>2
        <4>2. rewritten(Record, recs, i, more)
          BY ONLY <1>8, <4>1, AllocationWrite
        <4> QED BY <4>2 DEF rewritten
      <3> QED BY <1>7, <2>2, <3>1
    <2> QED BY <2>1, <2>2
  <1> HIDE DEF new, more, i
  <1>10. /\ s \in StrategySheet /\ s.recs = qs /\ s.charged = strategies.charged /\ s.reported = strategies.reported
         /\ s.reserve = strategies.reserve /\ s.booked = strategies.booked /\ s.paid = strategies.paid
    <2> HIDE DEF qs
    <2> QED BY <1>2, <1>3, <1>9 DEF StrategySheet
  <1>11. one_each(s.recs) /\ marked(s, q)
    <2>1. CASE i = 0
      <3>1. s.recs = Append(strategies.recs, [adapter |-> a, allocated |-> n, hwm |-> n, disabled |-> FALSE])
        BY <1>10, <2>1 DEF new
      <3>2. \A k \in DOMAIN strategies.recs : strategies.recs[k].adapter # a
        BY <1>6, <2>1
      <3> HIDE DEF s, q, qs
      <3>3. one_each(strategies.recs)
        BY <1>3
      <3>4. first_settled(strategies, s, market_value, q, a, n)
        BY ONLY <1>3, <1>5, <1>10, <3>1, <3>2, <3>3, n \in Nat, a \in Adapters, FirstKeeps
      <3> QED BY <3>4 DEF first_settled
    <2>2. CASE i # 0
      <3>1. s.recs = [strategies.recs EXCEPT ![i] = more] /\ i \in DOMAIN strategies.recs /\ more \in Record
            /\ more.adapter = strategies.recs[i].adapter /\ more.adapter = a
        BY <1>6, <1>7, <1>10, <2>2
      <3>2. s.reported = 0 => strategies.reported = 0 /\ below_mark(s, q[more.adapter], more)
        <4> SUFFICES ASSUME s.reported = 0 PROVE below_mark(s, q[a], more)
          BY <1>10, <3>1
        <4>1. below_mark(strategies, market_value[a], strategies.recs[i])
          BY <1>3, <1>6, <1>10, <2>2 DEF marked
        <4> DEFINE r == recs[i]   v == market_value[a]   w == q[a]   c == strategies.charged[a]
        <4>2. /\ r.adapter = a /\ more.adapter = a /\ ~r.disabled /\ ~more.disabled
              /\ r.allocated \in Int /\ r.hwm \in Int /\ v.assets \in Int /\ v.net \in Int /\ c \in Int
          <5>1. r.adapter = a /\ more.adapter = a /\ ~r.disabled /\ ~more.disabled /\ r \in Record
            BY <1>2, <1>6, <1>7, <2>2
          <5>2. c \in Int /\ v \in MarketOf
            BY <1>1, <1>3 DEF strategy_parts
          <5> HIDE DEF r, v, c
          <5>3. v.assets \in Int /\ v.net \in Int /\ r.allocated \in Int /\ r.hwm \in Int
            BY <5>1, <5>2, RecordNumbers DEF MarketOf
          <5> QED BY <5>1, <5>2, <5>3
        <4>3. r.allocated <= r.hwm /\ v.assets - v.net <= r.hwm - c
          BY <4>1, <4>2 DEF below_mark
        <4>4. w.assets = v.assets + n /\ w.net = v.net /\ more.allocated = r.allocated + n /\ more.hwm = r.hwm + n
          BY <1>5, <1>7, <2>2
        <4>5. s.charged[more.adapter] = c
          BY <1>10, <4>2
        <4> HIDE DEF r, v, w, c
        <4>6. more.allocated <= more.hwm /\ w.assets - w.net <= more.hwm - c
          BY <4>2, <4>3, <4>4
        <4> QED BY <4>5, <4>6 DEF below_mark, w
      <3>3. /\ q[more.adapter].net = market_value[more.adapter].net /\ q[more.adapter].peak = market_value[more.adapter].peak
            /\ \A b \in Adapters \ {more.adapter} : q[b] = market_value[b]
        BY <1>5, <3>1
      <3>4. one_each(strategies.recs) /\ strategies \in StrategySheet /\ market_value \in [Adapters -> MarketOf] /\ marked(strategies, market_value)
            /\ s \in StrategySheet /\ q \in [Adapters -> MarketOf] /\ s.charged = strategies.charged
        BY <1>3, <1>5, <1>10
      <3> HIDE DEF s, q, qs, recs
      <3>5. record_settled(strategies, s, market_value, q, i, more)
        BY ONLY <3>1, <3>2, <3>3, <3>4, RecordWrite
      <3> QED BY <3>5 DEF record_settled
    <2> QED BY <2>1, <2>2
  <1>12. Books'
    <2>1. held' \in Int
      BY <1>2, <1>3
    <2>2. UNCHANGED <<now, wallet, shares, totalShares, totalDeposited, rewardPool>> /\ Books
      BY <1>1, <1>2 DEF strategy_parts, pool
    <2> QED BY <2>1, <2>2 DEF Books
  <1>13. held' + allocated_in(s.recs) = totalDeposited' + rewardPool' + s.reserve + s.booked - s.paid
    <2>1. held + allocated_in(recs) = totalDeposited + rewardPool + strategies.reserve + strategies.booked - strategies.paid
      BY <1>1 DEF strategy_parts
    <2>2. totalDeposited' = totalDeposited /\ rewardPool' = rewardPool
      BY <1>2 DEF pool
    <2>3. rewardPool \in Nat /\ strategies.reserve \in Nat /\ strategies.booked \in Int /\ strategies.paid \in Int
      BY <1>1 DEF strategy_parts
    <2> DEFINE x == held'   y == allocated_in(s.recs)   z == allocated_in(recs)
    <2>4. x = held - n /\ y = z + n /\ z \in Int /\ held \in Int
      BY <1>2, <1>3, <1>9, <1>10
    <2> HIDE DEF x, y, z
    <2>5. x + y = totalDeposited + rewardPool + strategies.reserve + strategies.booked - strategies.paid
      BY <2>1, <2>3, <2>4, <1>3 DEF z
    <2> QED BY <1>10, <2>2, <2>5 DEF x, y
  <1> QED BY <1>2, <1>3, <1>5, <1>10, <1>11, <1>12, <1>13 DEF StrategyBooks

\* The market moves what an adapter holds and its net gains alike.
LEMMA MarketKeeps ==
    ASSUME StrategyBooks, NEW a \in Adapters, NEW d \in Int, market_moves(a, d)
    PROVE  StrategyBooks'
  <1> DEFINE v == market_value[a]   net == v.net + d   x == v.assets + d   p == Max({net, v.peak})
             w == [assets |-> x, net |-> net, peak |-> p]
  <1>1. strategy_parts
    BY StrategyParts
  <1>2. v.assets > 0 /\ x >= 0 /\ market_value' = [market_value EXCEPT ![a] = w] /\ UNCHANGED <<base_vars, strategies, capped>>
    BY DEF market_moves
  <1>3. v.assets \in Nat /\ v.net \in Int /\ v.peak \in Nat /\ market_value \in [Adapters -> MarketOf]
    BY <1>1 DEF strategy_parts, MarketOf
  <1>4. net \in Int /\ x \in Nat /\ d \in Int
    BY <1>2, <1>3
  <1>5. p = (IF net >= v.peak THEN net ELSE v.peak)
    <2>1. net \in Int /\ v.peak \in Int
      BY <1>3, <1>4
    <2> HIDE DEF net, v
    <2> QED BY ONLY <2>1, MinMax DEF p
  <1>6. p \in Nat /\ net <= p /\ v.peak <= p
    BY <1>3, <1>4, <1>5
  <1> HIDE DEF p
  <1>7. w \in MarketOf /\ w.assets = x /\ w.net = net /\ w.peak = p
    BY <1>4, <1>6 DEF MarketOf
  <1> HIDE DEF w
  <1>8. market_value' \in [Adapters -> MarketOf] /\ market_value'[a] = w /\ \A b \in Adapters \ {a} : market_value'[b] = market_value[b]
    BY <1>2, <1>3, <1>7
  <1>9. marked(strategies, market_value')
    <2> SUFFICES ASSUME strategies.reported = 0 PROVE marked(strategies, market_value')
      BY DEF marked
    <2>1. marked(strategies, market_value) /\ strategies.charged \in [Adapters -> Int]
          /\ \A i \in DOMAIN strategies.recs : strategies.recs[i] \in Record
      BY <1>1 DEF strategy_parts
    <2>2. strategies.charged[a] <= v.peak /\ unused(strategies, v, a)
      BY <2>1 DEF marked
    <2>3. \E i \in DOMAIN strategies.recs : strategies.recs[i].adapter = a
      BY <1>2, <1>3, <2>2 DEF unused
    <2>4. strategies.charged[a] <= w.peak /\ w.net <= w.peak /\ unused(strategies, w, a)
      BY <1>3, <1>6, <1>7, <2>1, <2>2, <2>3 DEF unused
    <2>5. \A b \in Adapters : strategies.charged[b] <= market_value'[b].peak /\ market_value'[b].net <= market_value'[b].peak
                              /\ unused(strategies, market_value'[b], b)
      BY <1>8, <2>1, <2>4 DEF marked
    <2>6. ASSUME NEW i \in DOMAIN strategies.recs
          PROVE  below_mark(strategies, market_value'[strategies.recs[i].adapter], strategies.recs[i])
      <3> DEFINE r == strategies.recs[i]
      <3>1. below_mark(strategies, market_value[r.adapter], r) /\ r \in Record
        BY <2>1 DEF marked
      <3>2. r.allocated \in Int /\ r.hwm \in Int /\ r.adapter \in Adapters /\ strategies.charged[r.adapter] \in Int
        BY <2>1, <3>1, RecordNumbers
      <3> HIDE DEF r
      <3>3. CASE r.adapter = a
        <4>1. w.assets - w.net = v.assets - v.net
          BY <1>3, <1>4, <1>7
        <4>2. below_mark(strategies, v, r)
          BY <3>1, <3>3
        <4>3. below_mark(strategies, w, r)
          BY <4>1, <4>2 DEF below_mark
        <4> QED BY <1>8, <3>3, <4>3 DEF r
      <3>4. CASE r.adapter # a
        BY <1>8, <3>1, <3>2, <3>4 DEF r
      <3> QED BY <3>3, <3>4
    <2> QED BY <2>5, <2>6 DEF marked
  <1> QED BY <1>2, <1>8, <1>9 DEF StrategyBooks, Books, base_vars, pool

\* What a loss leaves: the record rewritten, and reserve, deposits and recorded gains
\* lower by exactly the loss.
loss_booked(i, loss, r) ==
    /\ strategies' \in StrategySheet /\ strategies'.recs = [strategies.recs EXCEPT ![i] = r]
    /\ strategies'.charged = strategies.charged /\ strategies'.paid = strategies.paid
    /\ strategies'.reported = strategies.reported + 1 /\ totalDeposited' \in Nat
    /\ strategies'.reserve \in Nat /\ strategies'.booked \in Int
    /\ totalDeposited' + strategies'.reserve + strategies'.booked
         = totalDeposited + strategies.reserve + strategies.booked - loss

\* A loss is absorbed once, by the reserve, the deposits and then the recorded gains.
LEMMA LossAbsorbed ==
    ASSUME strategy_parts, NEW i \in DOMAIN strategies.recs, NEW r \in Record, NEW loss \in Nat,
           absorb(loss), strategies' = after_loss(i, loss, r)
    PROVE  loss_booked(i, loss, r)
  <1> DEFINE R == strategies.reserve   D == totalDeposited   B == strategies.booked
             cut == Min({loss, R})   rest == loss - cut   down == D - rest   over == rest - D
             left == Max({down, 0})   gone == Max({over, 0})
             c == R - cut   b == B - gone   k == strategies.reported + 1
             qs == [strategies.recs EXCEPT ![i] = r]
  <1>1. R \in Nat /\ D \in Nat /\ B \in Int /\ strategies \in StrategySheet /\ strategies.recs \in Seq(Record) /\ strategies.reported \in Nat
    BY DEF strategy_parts
  <1>2. totalDeposited' = left /\ strategies' = [strategies EXCEPT !.recs = qs, !.reserve = c, !.booked = b, !.reported = k]
    BY DEF absorb, after_loss
  <1>3. cut = (IF loss <= R THEN loss ELSE R)
    <2>1. loss \in Int /\ R \in Int
      BY <1>1
    <2> HIDE DEF R
    <2> QED BY ONLY <2>1, MinMax DEF cut
  <1> HIDE DEF cut, R, D, B
  <1>4. cut \in Nat /\ cut <= R /\ cut <= loss
    BY <1>1, <1>3
  <1>5. rest \in Nat /\ c \in Nat /\ down \in Int /\ over \in Int /\ over = 0 - down
    BY <1>1, <1>4
  <1> HIDE DEF rest
  <1>6. left = (IF down >= 0 THEN down ELSE 0) /\ gone = (IF over >= 0 THEN over ELSE 0)
    <2>1. down \in Int /\ over \in Int /\ 0 \in Int
      BY <1>5
    <2> HIDE DEF down, over
    <2> QED BY ONLY <2>1, MinMax DEF left, gone
  <1> HIDE DEF left, gone
  <1>7. left \in Nat /\ gone \in Nat /\ left - gone = D - rest
    BY <1>1, <1>5, <1>6
  <1>8. b \in Int /\ k \in Nat /\ qs \in Seq(Record)
    BY <1>1, <1>7
  <1>9. left + c + b = D + R + B - loss
    BY <1>1, <1>4, <1>5, <1>7 DEF rest
  <1> HIDE DEF qs, c, b, k
  <1>10. /\ strategies' \in StrategySheet /\ strategies'.recs = qs /\ strategies'.reserve = c /\ strategies'.booked = b
         /\ strategies'.charged = strategies.charged /\ strategies'.paid = strategies.paid /\ strategies'.reported = k
    BY <1>1, <1>2, <1>5, <1>8 DEF StrategySheet
  <1> QED BY <1>2, <1>5, <1>7, <1>8, <1>9, <1>10 DEF loss_booked, qs, k, R, D, B

\* By anyone: a record is written down to what the adapter answers.
LEMMA ReportKeeps ==
    ASSUME StrategyBooks, NEW a \in Adapters, NEW up \in SUBSET Adapters, report_strategy_loss(a, up)
    PROVE  StrategyBooks'
  <1> DEFINE i == index(a)   rec == strategies.recs[i]   value == IF a \in up THEN market_value[a].assets ELSE 0
             r == [rec EXCEPT !.allocated = value, !.hwm = value]   loss == rec.allocated - value
             s == strategies'
  <1>1. strategy_parts
    BY StrategyParts
  <1>2. /\ i # 0 /\ value < rec.allocated /\ absorb(loss) /\ strategies' = after_loss(i, loss, r)
        /\ UNCHANGED <<now, wallet, held, shares, totalShares, rewardPool, capped, market_value>>
    BY DEF report_strategy_loss
  <1>3. /\ strategies \in StrategySheet /\ strategies.recs \in Seq(Record) /\ market_value \in [Adapters -> MarketOf]
        /\ one_each(strategies.recs) /\ marked(strategies, market_value) /\ strategies.reported \in Nat /\ Books
    BY <1>1 DEF strategy_parts
  <1>4. i \in DOMAIN strategies.recs /\ rec.adapter = a
    BY <1>2, <1>3, IndexFound
  <1>5. value \in Nat /\ rec \in Record /\ rec.allocated \in Nat
    <2>1. market_value[a].assets \in Nat
      BY <1>3 DEF MarketOf
    <2>2. rec \in Record
      BY <1>3, <1>4
    <2> QED BY <2>1, <2>2, RecordNumbers
  <1> HIDE DEF value, i
  <1>6. r \in Record /\ r.adapter = a /\ r.allocated = value /\ loss \in Nat
    <2>1. loss \in Nat
      BY <1>2, <1>5
    <2>2. rec \in Record /\ rec.adapter = a
      BY <1>4, <1>5
    <2> HIDE DEF rec
    <2>3. r \in Record /\ r.adapter = a /\ r.allocated = value
      <3>1. value \in Nat /\ value \in Int
        BY <1>5
      <3> QED BY ONLY <2>2, <3>1 DEF Record, r
    <2> QED BY <2>1, <2>3
  <1> HIDE DEF r
  <1>7. loss_booked(i, loss, r)
    <2> HIDE DEF loss
    <2> QED BY <1>1, <1>2, <1>4, <1>6, LossAbsorbed
  <1>8. rewritten(Record, strategies.recs, i, r)
    <2>1. \A x \in Record : x.allocated \in Int
      BY RecordNumbers
    <2> QED BY ONLY <1>3, <1>4, <1>6, <2>1, AllocationWrite
  <1>9. one_each(s.recs) /\ marked(s, market_value)
    <2>1. /\ s \in StrategySheet /\ s.recs = [strategies.recs EXCEPT ![i] = r] /\ s.charged = strategies.charged
          /\ s.reported # 0 /\ r.adapter = strategies.recs[i].adapter
      BY <1>3, <1>4, <1>6, <1>7 DEF loss_booked
    <2> HIDE DEF s
    <2>2. record_settled(strategies, s, market_value, market_value, i, r)
      BY ONLY <1>3, <1>4, <1>6, <2>1, RecordWrite
    <2> QED BY <2>2 DEF record_settled
  <1>10. Books'
    BY <1>2, <1>3, <1>7 DEF Books, loss_booked
  <1>11. held' + allocated_in(s.recs) = totalDeposited' + rewardPool' + s.reserve + s.booked - s.paid
    <2> DEFINE D == totalDeposited'   y == allocated_in(s.recs)   z == allocated_in(strategies.recs)
               x == s.reserve   b == s.booked   v == rec.allocated   R == strategies.reserve   B == strategies.booked
               P == strategies.paid
    <2>1. held' = held /\ rewardPool' = rewardPool /\ s.paid = P
      BY <1>2, <1>7 DEF loss_booked
    <2>2. held \in Int /\ rewardPool \in Nat /\ P \in Int /\ R \in Nat /\ B \in Int /\ totalDeposited \in Nat
          /\ held + z = totalDeposited + rewardPool + R + B - P /\ z \in Int
      BY <1>1 DEF strategy_parts
    <2>3. D \in Nat /\ x \in Nat /\ b \in Int /\ D + x + b = totalDeposited + R + B - loss
      BY <1>7 DEF loss_booked
    <2>4. y = z + value - v
      BY <1>6, <1>7, <1>8 DEF loss_booked, rewritten
    <2>5. loss = v - value /\ v \in Nat
      BY <1>5
    <2> HIDE DEF D, y, z, x, b, v, R, B, P, loss
    <2>6. held + y = D + rewardPool + x + b - P
      BY <2>2, <2>3, <2>4, <2>5, <1>5
    <2> QED BY <2>1, <2>6 DEF D, y, x, b, P
  <1>12. capped' = <<>> /\ market_value' = market_value /\ s \in StrategySheet
    BY <1>2, <1>7 DEF StrategyBooks, loss_booked
  <1> QED BY <1>3, <1>9, <1>10, <1>11, <1>12 DEF StrategyBooks

\* An adapter returns no more than it is asked for and no more than it has.
LEMMA ReturnedBound ==
    ASSUME market_value \in [Adapters -> MarketOf], NEW a \in Adapters, NEW n \in Nat, NEW up
    PROVE  returned(a, n, up) \in Nat /\ returned(a, n, up) <= n /\ returned(a, n, up) <= market_value[a].assets
           /\ market_value[a].assets \in Nat
  <1> DEFINE x == market_value[a].assets   y == Min({n, x})
  <1>1. x \in Nat
    BY DEF MarketOf
  <1>2. y = (IF n <= x THEN n ELSE x)
    <2>1. n \in Int /\ x \in Int
      BY <1>1
    <2> HIDE DEF x
    <2> QED BY ONLY <2>1, MinMax DEF y
  <1>3. returned(a, n, up) = (IF a \in up THEN y ELSE 0)
    BY DEF returned
  <1> HIDE DEF y
  <1> QED BY <1>1, <1>2, <1>3

\* Unwinding a strategy: what comes back is idle again, the rest is a loss.
LEMMA UnwindKeeps ==
    ASSUME StrategyBooks, NEW a \in Adapters, NEW up \in SUBSET Adapters, emergency_unwind(a, up)
    PROVE  StrategyBooks'
  <1> DEFINE i == index(a)   rec == strategies.recs[i]   got == returned(a, rec.allocated, up)
             r == [adapter |-> a, allocated |-> 0, hwm |-> 0, disabled |-> TRUE]   loss == rec.allocated - got
             s == strategies'   q == market_value'
  <1>1. strategy_parts
    BY StrategyParts
  <1>2. /\ i # 0 /\ held' = held + got /\ sent(a, 0 - got)
        /\ IF loss > 0 THEN absorb(loss) /\ strategies' = after_loss(i, loss, r)
           ELSE /\ strategies' = [strategies EXCEPT !.recs = [strategies.recs EXCEPT ![i] = r]]
                /\ UNCHANGED totalDeposited
        /\ UNCHANGED <<now, wallet, shares, totalShares, rewardPool, capped>>
    BY DEF emergency_unwind
  <1>3. /\ strategies \in StrategySheet /\ strategies.recs \in Seq(Record) /\ market_value \in [Adapters -> MarketOf]
        /\ one_each(strategies.recs) /\ marked(strategies, market_value) /\ strategies.reported \in Nat /\ Books
    BY <1>1 DEF strategy_parts
  <1>4. i \in DOMAIN strategies.recs /\ rec.adapter = a
    BY <1>2, <1>3, IndexFound
  <1>5. rec \in Record /\ rec.allocated \in Nat
    <2>2. rec \in Record
      BY <1>3, <1>4
    <2> QED BY <2>2, RecordNumbers
  <1> HIDE DEF i
  <1>6. got \in Nat /\ got <= rec.allocated /\ got <= market_value[a].assets /\ market_value[a].assets \in Nat
    <2> DEFINE n == rec.allocated
    <2>1. n \in Nat
      BY <1>5
    <2> HIDE DEF n
    <2>2. got = returned(a, n, up)
      BY DEF n
    <2>3. returned(a, n, up) \in Nat /\ returned(a, n, up) <= n /\ returned(a, n, up) <= market_value[a].assets
           /\ market_value[a].assets \in Nat
      BY <1>3, <2>1, ReturnedBound
    <2> QED BY <2>2, <2>3 DEF n
  <1> HIDE DEF got
  <1>7. r \in Record /\ r.adapter = a /\ r.allocated = 0 /\ r.disabled = TRUE /\ loss \in Nat
    <2>1. loss \in Nat
      BY <1>5, <1>6
    <2>2. rec \in Record /\ rec.adapter = a
      BY <1>4, <1>5
    <2> HIDE DEF rec
    <2>3. r \in Record /\ r.adapter = a /\ r.allocated = 0 /\ r.disabled = TRUE
      BY ONLY a \in Adapters DEF Record, r
    <2> QED BY <2>1, <2>3
  <1> HIDE DEF r
  <1>8. /\ q \in [Adapters -> MarketOf] /\ q[a].net = market_value[a].net /\ q[a].peak = market_value[a].peak
        /\ \A b \in Adapters \ {a} : q[b] = market_value[b]
    <2> DEFINE n == 0 - got
    <2>1. n \in Int /\ market_value[a].assets + n \in Nat
      BY <1>6
    <2>2. sent(a, n)
      BY <1>2
    <2> HIDE DEF n
    <2> QED BY <1>3, <2>1, <2>2, SentTo
  <1>9. rewritten(Record, strategies.recs, i, r)
    <2>1. \A x \in Record : x.allocated \in Int
      BY RecordNumbers
    <2> QED BY ONLY <1>3, <1>4, <1>7, <2>1, AllocationWrite
  <1>10. /\ s \in StrategySheet /\ s.recs = [strategies.recs EXCEPT ![i] = r] /\ s.charged = strategies.charged
         /\ s.paid = strategies.paid /\ s.reserve \in Nat /\ s.booked \in Int
         /\ (s.reported = 0 => strategies.reported = 0) /\ totalDeposited' \in Nat
         /\ totalDeposited' + s.reserve + s.booked = totalDeposited + strategies.reserve + strategies.booked - loss
    <2>1. CASE loss > 0
      <3>1. absorb(loss) /\ strategies' = after_loss(i, loss, r)
        BY <1>2, <2>1
      <3> HIDE DEF loss
      <3>2. loss_booked(i, loss, r)
        BY <1>1, <1>4, <1>7, <3>1, LossAbsorbed
      <3>3. strategies.reported + 1 # 0
        BY <1>3
      <3> QED BY <3>2, <3>3 DEF loss_booked
    <2>2. CASE ~ (loss > 0)
      <3> DEFINE qs == [strategies.recs EXCEPT ![i] = r]
      <3>1. strategies' = [strategies EXCEPT !.recs = qs] /\ totalDeposited' = totalDeposited /\ loss = 0
        <4>1. loss = 0
          BY <1>7, <2>2
        <4> QED BY <1>2, <2>2, <4>1
      <3>2. qs \in Seq(Record)
        BY <1>9 DEF rewritten
      <3> HIDE DEF qs
      <3>3. /\ s \in StrategySheet /\ s.recs = qs /\ s.charged = strategies.charged /\ s.paid = strategies.paid
            /\ s.reserve = strategies.reserve /\ s.booked = strategies.booked /\ s.reported = strategies.reported
        BY <1>3, <3>1, <3>2 DEF StrategySheet
      <3>4. strategies.reserve \in Nat /\ strategies.booked \in Int /\ totalDeposited \in Nat
        BY <1>1 DEF strategy_parts
      <3> HIDE DEF loss
      <3> QED BY <3>1, <3>3, <3>4 DEF qs
    <2> QED BY <2>1, <2>2
  <1>11. one_each(s.recs) /\ marked(s, q)
    <2>1. r.adapter = strategies.recs[i].adapter /\ below_mark(s, q[r.adapter], r)
      BY <1>4, <1>7 DEF below_mark
    <2>2. /\ s \in StrategySheet /\ s.recs = [strategies.recs EXCEPT ![i] = r] /\ s.charged = strategies.charged
          /\ (s.reported = 0 => strategies.reported = 0 /\ below_mark(s, q[r.adapter], r))
          /\ q \in [Adapters -> MarketOf]
          /\ q[r.adapter].net = market_value[r.adapter].net /\ q[r.adapter].peak = market_value[r.adapter].peak
          /\ \A b \in Adapters \ {r.adapter} : q[b] = market_value[b]
      BY <1>7, <1>8, <1>10, <2>1
    <2> HIDE DEF s, q
    <2>3. record_settled(strategies, s, market_value, q, i, r)
      BY ONLY <1>3, <1>4, <1>7, <2>1, <2>2, RecordWrite
    <2> QED BY <2>3 DEF record_settled
  <1>12. Books'
    <2>1. held' \in Int
      BY <1>2, <1>3, <1>6 DEF Books
    <2>2. UNCHANGED <<now, wallet, shares, totalShares, rewardPool>> /\ totalDeposited' \in Nat
      BY <1>2, <1>10
    <2> QED BY <1>3, <2>1, <2>2 DEF Books
  <1>13. held' + allocated_in(s.recs) = totalDeposited' + rewardPool' + s.reserve + s.booked - s.paid
    <2> DEFINE D == totalDeposited'   y == allocated_in(s.recs)   z == allocated_in(strategies.recs)
               x == s.reserve   b == s.booked   v == rec.allocated   R == strategies.reserve   B == strategies.booked
               P == strategies.paid   h == held'
    <2>1. h = held + got /\ rewardPool' = rewardPool /\ s.paid = P
      BY <1>2, <1>10
    <2>2. held \in Int /\ rewardPool \in Nat /\ P \in Int /\ R \in Nat /\ B \in Int /\ totalDeposited \in Nat
          /\ held + z = totalDeposited + rewardPool + R + B - P /\ z \in Int
      BY <1>1 DEF strategy_parts
    <2>3. D \in Nat /\ x \in Nat /\ b \in Int /\ D + x + b = totalDeposited + R + B - loss
      BY <1>10
    <2>4. y = z + 0 - v
      BY <1>7, <1>9, <1>10 DEF rewritten
    <2>5. loss = v - got /\ v \in Nat
      BY <1>5
    <2> HIDE DEF D, y, z, x, b, v, R, B, P, loss, h
    <2>6. h + y = D + rewardPool + x + b - P
      BY <2>1, <2>2, <2>3, <2>4, <2>5, <1>6
    <2> QED BY <2>1, <2>6 DEF D, y, x, b, P, h
  <1>14. capped' = <<>>
    BY <1>2 DEF StrategyBooks
  <1> QED BY <1>8, <1>10, <1>11, <1>12, <1>13, <1>14 DEF StrategyBooks

\* Settings of the keeper's part.
LEMMA SettingsKeep ==
    ASSUME StrategyBooks, NEW r,
           (r \in Nat /\ (set_min_idle_ratio_bps(r) \/ set_performance_fee_bps(r))) \/ (r \in Seq(Nat) /\ set_treasury_split(r))
    PROVE  StrategyBooks'
  <1>1. strategy_parts
    BY StrategyParts
  <1>2. strategies \in StrategySheet /\ UNCHANGED <<base_vars, capped, market_value>>
        /\ \/ r \in Nat /\ (strategies' = [strategies EXCEPT !.idle = r] \/ strategies' = [strategies EXCEPT !.fee = r])
           \/ r \in Seq(Nat) /\ strategies' = [strategies EXCEPT !.split = r]
    BY <1>1 DEF strategy_parts, set_min_idle_ratio_bps, set_performance_fee_bps, set_treasury_split
  <1>3. /\ strategies' \in StrategySheet /\ strategies'.recs = strategies.recs /\ strategies'.charged = strategies.charged
        /\ strategies'.reported = strategies.reported /\ strategies'.reserve = strategies.reserve
        /\ strategies'.booked = strategies.booked /\ strategies'.paid = strategies.paid
    BY <1>2 DEF StrategySheet
  <1>4. Books'
    BY <1>1, <1>2 DEF strategy_parts, Books, base_vars, pool
  <1>5. marked(strategies, market_value) => marked(strategies', market_value)
    BY <1>3 DEF marked, unused, below_mark
  <1>6. UNCHANGED <<held, totalDeposited, rewardPool, capped, market_value>>
    BY <1>2 DEF base_vars, pool
  <1> QED BY <1>3, <1>4, <1>5, <1>6 DEF StrategyBooks

\* No strategy returns more than is recorded with it or than its adapter has.
covered_by_records(got) ==
    /\ got \in [DOMAIN strategies.recs -> Nat]
    /\ \A i \in DOMAIN strategies.recs : got[i] <= strategies.recs[i].allocated
                                         /\ got[i] <= market_value[strategies.recs[i].adapter].assets

\* What exits pull is covered.
LEMMA PullsCovered ==
    ASSUME strategy_parts, NEW need \in Int, NEW up, NEW got \in pulls(need, up)
    PROVE  covered_by_records(got)
  <1>1. /\ DOMAIN strategies.recs = 1..Len(strategies.recs) /\ Len(strategies.recs) \in Nat
        /\ market_value \in [Adapters -> MarketOf] /\ \A i \in DOMAIN strategies.recs : strategies.recs[i] \in Record
    BY DEF strategy_parts
  <1>2. got \in [DOMAIN strategies.recs -> 0..Max({need, 0})]
    BY DEF pulls
  <1>3. Max({need, 0}) \in Int
    <2>1. Max({need, 0}) = (IF need >= 0 THEN need ELSE 0)
      BY MinMax, need \in Int, 0 \in Int
    <2> QED BY <2>1
  <1>4. DOMAIN got = DOMAIN strategies.recs /\ got \in [DOMAIN strategies.recs -> Nat] /\ \A i \in DOMAIN got : got[i] \in Nat
    <2> DEFINE D == DOMAIN strategies.recs   b == Max({need, 0})
    <2> HIDE DEF D, b
    <2>1. got \in [D -> 0..b] /\ b \in Int
      BY <1>2, <1>3 DEF D, b
    <2>2. got \in [D -> Nat] /\ DOMAIN got = D /\ \A i \in D : got[i] \in Nat
      BY ONLY <2>1
    <2> QED BY <2>2 DEF D
  <1>5. ASSUME NEW i \in DOMAIN strategies.recs
        PROVE  got[i] <= strategies.recs[i].allocated /\ got[i] <= market_value[strategies.recs[i].adapter].assets
    <2> DEFINE rec == strategies.recs[i]   before == sum_over(got, 1..(i - 1))   missing == need - before
               v == rec.allocated   n == Min({missing, v})
    <2>1. got[i] = IF missing <= 0 \/ rec.disabled \/ rec.allocated <= 0 THEN 0 ELSE returned(rec.adapter, n, up)
      BY <1>4 DEF pulls
    <2>2. rec.adapter \in Adapters /\ v \in Nat
      BY <1>1, RecordNumbers
    <2>3. before \in Int
      <3>1. 1 \in Int /\ i - 1 \in Int
        BY <1>1
      <3>2. IsFiniteSet(1..(i - 1))
        BY ONLY <3>1, FS_Interval
      <3>3. \A x \in 1..(i - 1) : got[x] \in Int
        BY <1>1, <1>4
      <3> QED BY <3>2, <3>3, SumInt
    <2> HIDE DEF before
    <2>4. missing \in Int
      BY <2>3
    <2> HIDE DEF missing, v
    <2>5. market_value[rec.adapter].assets \in Nat
      BY <1>1, <2>2 DEF MarketOf
    <2>6. CASE missing <= 0 \/ rec.disabled \/ v <= 0
      BY <2>1, <2>2, <2>5, <2>6 DEF v
    <2>7. CASE ~(missing <= 0 \/ rec.disabled \/ v <= 0)
      <3>1. n = (IF missing <= v THEN missing ELSE v)
        <4>1. missing \in Int /\ v \in Int
          BY <2>2, <2>4
        <4> QED BY ONLY <4>1, MinMax
      <3> HIDE DEF n
      <3>2. n \in Nat /\ n <= v
        BY <2>2, <2>4, <2>7, <3>1
      <3>3. got[i] = returned(rec.adapter, n, up)
        BY <2>1, <2>7 DEF v
      <3>4. returned(rec.adapter, n, up) \in Nat /\ returned(rec.adapter, n, up) <= n
            /\ returned(rec.adapter, n, up) <= market_value[rec.adapter].assets
        <4> HIDE DEF rec
        <4> QED BY <1>1, <2>2, <3>2, ReturnedBound
      <3>5. got[i] <= v
        BY <2>2, <3>2, <3>3, <3>4
      <3> QED BY <3>3, <3>4, <3>5 DEF v
    <2> QED BY <2>6, <2>7
  <1> QED BY <1>4, <1>5 DEF covered_by_records

\* The records and the adapters after a pull, for what was got.
pulled(got) ==
    LET p == pull_from_strategies(got)
    IN  /\ p.recs \in Seq(Record) /\ p.left \in [Adapters -> MarketOf] /\ p.total \in Nat
        /\ allocated_in(p.recs) = allocated_in(strategies.recs) - p.total
        /\ one_each(p.recs)
        /\ \A s \in StrategySheet : s.recs = p.recs /\ s.charged = strategies.charged /\ s.reported = strategies.reported
              => marked(s, p.left)

\* A pull keeps what is recorded plus what came back, and the marks.
LEMMA PullKeeps == ASSUME strategy_parts, NEW got, covered_by_records(got) PROVE pulled(got)
  <1> DEFINE recs == strategies.recs   p == pull_from_strategies(got)   D == DOMAIN strategies.recs
             less(i) == recs[i].allocated - got[i]
             new(i) == [recs[i] EXCEPT !.allocated = less(i)]
             back(a) == IF index(a) = 0 THEN 0 ELSE got[index(a)]
             rest(a) == market_value[a].assets - back(a)
             at(a) == [market_value[a] EXCEPT !.assets = rest(a)]
             qs == [i \in D |-> new(i)]   left == [a \in Adapters |-> at(a)]
  <1>1. p.recs = qs /\ p.left = left /\ p.total = sum(got)
    BY DEF pull_from_strategies
  <1>2. /\ recs \in Seq(Record) /\ D = 1..Len(recs) /\ Len(recs) \in Nat /\ IsFiniteSet(D) /\ one_each(recs)
        /\ market_value \in [Adapters -> MarketOf] /\ marked(strategies, market_value)
        /\ strategies.charged \in [Adapters -> Int]
        /\ (\A i \in D : recs[i] \in Record)
    BY DEF strategy_parts
  <1>3. got \in [D -> Nat] /\ \A i \in D : got[i] <= recs[i].allocated /\ got[i] <= market_value[recs[i].adapter].assets
    BY DEF covered_by_records
  <1>4. ASSUME NEW i \in D
        PROVE  /\ new(i) \in Record /\ new(i).allocated = recs[i].allocated - got[i] /\ new(i).adapter = recs[i].adapter
               /\ new(i).hwm = recs[i].hwm /\ new(i).disabled = recs[i].disabled
    <2> DEFINE r == recs[i]   x == less(i)
    <2>1. r \in Record
      BY <1>2
    <2>2. r.allocated \in Nat
      BY <2>1, RecordNumbers
    <2>3. x \in Nat
      BY <1>3, <2>2
    <2>4. new(i) = [r EXCEPT !.allocated = x]
      OBVIOUS
    <2>5. x = recs[i].allocated - got[i]
      OBVIOUS
    <2> DEFINE w == new(i)
    <2> HIDE DEF r, x, w
    <2>6. w = [r EXCEPT !.allocated = x]
      BY <2>4 DEF w
    <2>7. w \in Record /\ w.allocated = x /\ w.adapter = r.adapter /\ w.hwm = r.hwm /\ w.disabled = r.disabled
      BY ONLY <2>1, <2>3, <2>6 DEF Record
    <2> QED BY <2>5, <2>7 DEF w, r
  <1>5. ASSUME NEW a \in Adapters
        PROVE  /\ at(a) \in MarketOf /\ at(a).assets = rest(a) /\ rest(a) <= market_value[a].assets /\ rest(a) \in Nat
               /\ at(a).net = market_value[a].net /\ at(a).peak = market_value[a].peak
               /\ market_value[a].assets \in Nat /\ market_value[a].net \in Int
    <2> DEFINE v == market_value[a]   x == rest(a)   w == at(a)   b == back(a)
    <2>1. v \in MarketOf
      BY <1>2
    <2>2. v.assets \in Nat /\ v.net \in Int
      BY <2>1 DEF MarketOf
    <2>3. b \in Nat /\ b <= v.assets
      <3>1. CASE index(a) = 0
        BY <2>2, <3>1
      <3>2. CASE index(a) # 0
        <4>1. index(a) \in D /\ recs[index(a)].adapter = a
          BY <1>2, <3>2, IndexFound
        <4> QED BY <1>3, <3>2, <4>1
      <3> QED BY <3>1, <3>2
    <2>4. x = v.assets - b /\ w = [v EXCEPT !.assets = x]
      OBVIOUS
    <2> HIDE DEF v, x, w, b
    <2>5. x \in Nat /\ x <= v.assets
      BY <2>2, <2>3, <2>4
    <2>6. w \in MarketOf /\ w.assets = x /\ w.net = v.net /\ w.peak = v.peak
      BY ONLY <2>1, <2>4, <2>5 DEF MarketOf
    <2> QED BY <2>2, <2>5, <2>6 DEF v, x, w
  <1>6. ASSUME NEW i \in D PROVE rest(recs[i].adapter) = market_value[recs[i].adapter].assets - got[i]
    <2>1. index(recs[i].adapter) = i
      <3>1. index(recs[i].adapter) # 0
        BY <1>2, IndexFound
      <3>2. index(recs[i].adapter) \in D /\ recs[index(recs[i].adapter)].adapter = recs[i].adapter
        BY <1>2, <3>1, IndexFound
      <3> QED BY <1>2, <3>2 DEF one_each
    <2>2. i # 0
      BY <1>2
    <2> QED BY <2>1, <2>2
  <1> HIDE DEF new, at, rest, back
  <1>7. qs \in Seq(Record) /\ DOMAIN qs = D /\ \A i \in D : qs[i] = new(i)
    <2>1. qs \in [1..Len(recs) -> Record]
      BY <1>2, <1>4
    <2> HIDE DEF qs
    <2>2. qs \in Seq(Record)
      BY ONLY <1>2, <2>1
    <2> QED BY <2>2 DEF qs
  <1>8. left \in [Adapters -> MarketOf] /\ \A a \in Adapters : left[a] = at(a)
    BY <1>5
  <1> HIDE DEF qs, left
  <1>9. sum(got) \in Nat
    BY <1>2, <1>3, SumNat
  <1>10. allocated_in(qs) = allocated_in(recs) - sum(got)
    <2> DEFINE f == [i \in DOMAIN qs |-> qs[i].allocated]   h == [i \in DOMAIN recs |-> recs[i].allocated]
    <2>1. allocated_in(qs) = sum(f) /\ allocated_in(recs) = sum(h)
      BY DEF allocated_in
    <2>2. f \in [D -> Int] /\ h \in [D -> Int] /\ got \in [D -> Int] /\ \A i \in D : h[i] = f[i] + got[i]
      <3>1. \A i \in D : qs[i].allocated \in Int /\ recs[i].allocated \in Int /\ got[i] \in Int
        BY <1>2, <1>3, <1>4, <1>7, RecordNumbers
      <3>2. \A i \in D : recs[i].allocated = qs[i].allocated + got[i]
        BY <1>4, <1>7, <3>1
      <3> QED BY <1>3, <1>7, <3>1, <3>2
    <2>5. IsFiniteSet(D)
      BY <1>2
    <2> HIDE DEF f, h, D, recs
    <2>3. sum(h) = sum(f) + sum(got)
      BY ONLY <2>5, <2>2, SumSplit
    <2>4. sum(f) \in Int
      BY ONLY <2>5, <2>2, SumType
    <2> QED BY <1>9, <2>1, <2>3, <2>4
  <1>11. one_each(qs)
    BY <1>2, <1>4, <1>7 DEF one_each
  <1>12. ASSUME NEW s \in StrategySheet, s.recs = qs, s.charged = strategies.charged, s.reported = strategies.reported
         PROVE  marked(s, left)
    <2> SUFFICES ASSUME s.reported = 0 PROVE marked(s, left)
      BY DEF marked
    <2>1. ASSUME NEW a \in Adapters PROVE s.charged[a] <= left[a].peak /\ left[a].net <= left[a].peak /\ unused(s, left[a], a)
      <3>1. strategies.charged[a] <= market_value[a].peak /\ market_value[a].net <= market_value[a].peak
            /\ unused(strategies, market_value[a], a)
        BY <1>2, <1>12 DEF marked
      <3>2. left[a].peak = market_value[a].peak /\ left[a].net = market_value[a].net /\ left[a].assets = rest(a)
            /\ rest(a) \in Nat /\ rest(a) <= market_value[a].assets
        BY <1>5, <1>8
      <3>3. unused(s, left[a], a)
        BY <1>4, <1>7, <1>12, <3>1, <3>2 DEF unused
      <3> QED BY <1>12, <3>1, <3>2, <3>3
    <2>2. ASSUME NEW i \in D PROVE below_mark(s, left[qs[i].adapter], qs[i])
      <3> DEFINE r == recs[i]   a == r.adapter   v == market_value[a]   w == left[a]   c == strategies.charged[a]   n == qs[i]
      <3>1. below_mark(strategies, v, r) /\ r \in Record
        BY <1>2, <1>12 DEF marked
      <3>2. a \in Adapters /\ r.allocated \in Int /\ r.hwm \in Int
        BY <3>1, RecordNumbers
      <3>3. n.adapter = a /\ n.hwm = r.hwm /\ n.disabled = r.disabled /\ n.allocated = r.allocated - got[i] /\ got[i] \in Nat
        BY <1>3, <1>4, <1>7
      <3>4. w.net = v.net /\ w.assets \in Nat /\ w.assets <= v.assets /\ v.assets \in Nat /\ v.net \in Int /\ c \in Int
        BY <1>2, <1>5, <1>8, <3>2
      <3>5. s.charged[n.adapter] = c /\ strategies.charged[r.adapter] = c
        BY <1>12, <3>3
      <3>6. left[n.adapter] = w
        BY <3>3
      <3> HIDE DEF r, a, v, w, c, n
      <3>7. ~n.disabled => n.allocated <= n.hwm /\ w.assets - w.net <= n.hwm - c
        <4> SUFFICES ASSUME ~n.disabled PROVE n.allocated <= n.hwm /\ w.assets - w.net <= n.hwm - c
          OBVIOUS
        <4>1. r.allocated <= r.hwm /\ v.assets - v.net <= r.hwm - c
          BY <3>1, <3>3, <3>5 DEF below_mark
        <4> QED BY ONLY <3>2, <3>3, <3>4, <4>1
      <3> QED BY <3>5, <3>6, <3>7 DEF below_mark, n
    <2> QED BY <1>7, <1>12, <2>1, <2>2 DEF marked
  <1> QED BY <1>1, <1>7, <1>8, <1>9, <1>10, <1>11, <1>12 DEF pulled

\* An exit with a fee that asks the strategies for what the contract lacks.
LEMMA UnstakePullingKeeps ==
    ASSUME StrategyBooks, NEW u \in Users, NEW up, unstake_pulling(u, up)
    PROVE  StrategyBooks'
  <1> DEFINE amount == amount_of(u)   fee == bps(amount, ExitFee)   paid == amount - fee   cut == take_insurance_share(fee)
             need == paid - held   s == strategies'
  <1>1. strategy_parts
    BY StrategyParts
  <1>2. PICK got \in pulls(need, up) :
          LET p == pull_from_strategies(got)
          IN  /\ shares[u] > 0 /\ held + p.total >= paid
              /\ held' = held + p.total - paid
              /\ wallet' = [wallet EXCEPT ![u] = wallet[u] + paid]
              /\ totalShares' = totalShares - shares[u] /\ totalDeposited' = totalDeposited - amount
              /\ shares' = [shares EXCEPT ![u] = 0]
              /\ rewardPool' = rewardPool + fee - cut
              /\ strategies' = [strategies EXCEPT !.recs = p.recs, !.reserve = strategies.reserve + cut]
              /\ market_value' = p.left
              /\ UNCHANGED <<now, capped>>
    BY DEF unstake_pulling
  <1>3. /\ Books /\ strategies \in StrategySheet /\ held \in Int /\ wallet \in [Accounts -> Nat] /\ totalDeposited \in Nat
        /\ rewardPool \in Nat /\ strategies.reserve \in Nat /\ strategies.booked \in Int /\ strategies.paid \in Int
        /\ now \in Nat /\ allocated_in(strategies.recs) \in Int
    BY <1>1 DEF strategy_parts
  <1>4. amount \in 0..totalDeposited
    BY <1>3, AmountBound
  <1> HIDE DEF amount
  <1>5. fee \in 0..amount
    <2>1. amount \in Nat /\ ExitFee \in 0..BPS_DENOMINATOR
      BY <1>3, <1>4, StrategyAssumption
    <2> QED BY <2>1, BpsBound
  <1> HIDE DEF fee
  <1>6. cut \in 0..fee
    <2>1. fee \in Nat /\ InsuranceShare \in 0..BPS_DENOMINATOR
      BY <1>3, <1>4, <1>5, StrategyAssumption
    <2> QED BY <2>1, BpsBound DEF take_insurance_share
  <1> HIDE DEF cut
  <1>7. amount \in Nat /\ fee \in Nat /\ cut \in Nat /\ paid \in Nat /\ paid = amount - fee /\ need \in Int
    BY <1>3, <1>4, <1>5, <1>6
  <1> HIDE DEF paid, need
  <1>8. covered_by_records(got)
    BY <1>1, <1>2, <1>7, PullsCovered
  <1>9. pulled(got)
    BY <1>1, <1>8, PullKeeps
  <1> DEFINE p == pull_from_strategies(got)   total == p.total   qs == p.recs   left == p.left   c == strategies.reserve + cut
  <1>10. /\ qs \in Seq(Record) /\ left \in [Adapters -> MarketOf] /\ total \in Nat /\ one_each(qs)
         /\ allocated_in(qs) = allocated_in(strategies.recs) - total
    BY <1>9 DEF pulled
  <1>11. /\ held' = held + total - paid /\ wallet' = [wallet EXCEPT ![u] = wallet[u] + paid]
         /\ totalShares' = totalShares - shares[u] /\ totalDeposited' = totalDeposited - amount_of(u)
         /\ shares' = [shares EXCEPT ![u] = 0] /\ rewardPool' = rewardPool + fee - cut
         /\ strategies' = [strategies EXCEPT !.recs = qs, !.reserve = c]
         /\ market_value' = left /\ now' = now /\ capped' = capped
    BY <1>2 DEF amount
  <1>12. \A t \in StrategySheet : t.recs = qs /\ t.charged = strategies.charged /\ t.reported = strategies.reported => marked(t, left)
    BY <1>9 DEF pulled
  <1> HIDE DEF p, total, qs, left
  <1>13. /\ s \in StrategySheet /\ s.recs = qs /\ s.charged = strategies.charged /\ s.reported = strategies.reported
         /\ s.reserve = c /\ s.booked = strategies.booked /\ s.paid = strategies.paid
    <2>1. c \in Nat
      BY <1>3, <1>7
    <2> HIDE DEF c
    <2> QED BY <1>3, <1>10, <1>11, <2>1 DEF StrategySheet
  <1>14. marked(s, left)
    <2> HIDE DEF s
    <2> QED BY <1>12, <1>13
  <1>15. Books'
    <2>1. shares' \in [Users -> Nat] /\ totalShares' = sum(shares') /\ totalDeposited' \in Nat
      BY <1>3, <1>11, ExitKeeps
    <2>2. held' \in Int /\ rewardPool' \in Nat /\ now' \in Nat
      <3>1. held + total - paid \in Int
        BY <1>3, <1>7, <1>10
      <3>2. rewardPool + fee - cut \in Nat
        BY <1>3, <1>6, <1>7
      <3> QED BY <1>3, <1>11, <3>1, <3>2
    <2>3. wallet' \in [Accounts -> Nat]
      <3>1. u \in Accounts
        BY DEF Accounts
      <3>2. wallet[u] + paid \in Nat
        BY <1>3, <1>7, <3>1
      <3> QED BY <1>3, <1>11, <3>2
    <2> QED BY <2>1, <2>2, <2>3 DEF Books
  <1>16. held' + allocated_in(s.recs) = totalDeposited' + rewardPool' + s.reserve + s.booked - s.paid
    <2> DEFINE h == held'   D == totalDeposited'   w == rewardPool'   y == allocated_in(s.recs)   z == allocated_in(strategies.recs)
               R == strategies.reserve   B == strategies.booked   P == strategies.paid
    <2>1. held + z = totalDeposited + rewardPool + R + B - P
      BY <1>1 DEF strategy_parts
    <2>2. h = held + total - paid /\ D = totalDeposited - amount /\ w = rewardPool + fee - cut /\ y = z - total
      BY <1>10, <1>11, <1>13 DEF amount
    <2>3. s.reserve = R + cut /\ s.booked = B /\ s.paid = P
      BY <1>13
    <2>4. z \in Int /\ R \in Int /\ B \in Int /\ P \in Int /\ total \in Int
      BY <1>3, <1>10
    <2> HIDE DEF h, D, w, y, z, R, B, P, c
    <2>5. h + y = D + w + (R + cut) + B - P
      BY <1>3, <1>7, <2>1, <2>2, <2>4
    <2> QED BY <2>3, <2>5 DEF h, D, w, y
  <1> QED BY <1>10, <1>11, <1>13, <1>14, <1>15, <1>16 DEF StrategyBooks

\* What a harvest sends to the recipients of the split.
harvest_split(up) == sum([i \in harvestable(up) |-> treasury_paid(i, up)])

\* The value a strategy counts at.
LEMMA ValueNat ==
    ASSUME strategy_parts, NEW up, NEW i \in DOMAIN strategies.recs
    PROVE  /\ current_value(strategies.recs[i], up) \in Nat /\ strategies.recs[i] \in Record
           /\ strategies.recs[i].adapter \in Adapters /\ strategies.recs[i].allocated \in Nat /\ strategies.recs[i].hwm \in Int
  <1> DEFINE r == strategies.recs[i]
  <1>1. r \in Record /\ market_value \in [Adapters -> MarketOf]
    BY DEF strategy_parts
  <1>2. r.adapter \in Adapters /\ r.allocated \in Nat /\ r.hwm \in Int
    BY <1>1, RecordNumbers
  <1> HIDE DEF r
  <1>3. current_value(r, up) \in Nat
    BY <1>1, <1>2 DEF current_value, MarketOf
  <1> QED BY <1>1, <1>2, <1>3 DEF r

\* The strategies with gains are strategies on the list.
LEMMA HarvestableIn ==
    ASSUME strategy_parts, NEW up
    PROVE  /\ harvestable(up) \subseteq DOMAIN strategies.recs /\ IsFiniteSet(harvestable(up))
           /\ \A i \in harvestable(up) : ~strategies.recs[i].disabled /\ current_value(strategies.recs[i], up) > strategies.recs[i].hwm
  <1>1. harvestable(up) \subseteq DOMAIN strategies.recs
        /\ \A i \in harvestable(up) : ~strategies.recs[i].disabled /\ current_value(strategies.recs[i], up) > strategies.recs[i].hwm
    BY DEF harvestable
  <1>2. IsFiniteSet(DOMAIN strategies.recs)
    BY DEF strategy_parts
  <1> QED BY <1>1, <1>2, FS_Subset

\* The parts of the split are amounts.
LEMMA SplitNat ==
    ASSUME strategy_parts, NEW n \in Nat
    PROVE  apply_treasury_split(n) \in Nat
  <1> DEFINE s == strategies.split   D == DOMAIN s   f == [k \in D |-> bps(n, s[k])]
  <1>1. s \in Seq(Nat)
    BY DEF strategy_parts
  <1> HIDE DEF s
  <1>2. D = 1..Len(s) /\ Len(s) \in Nat /\ \A k \in D : s[k] \in Nat
    BY <1>1
  <1>3. IsFiniteSet(D)
    BY <1>2, FS_Interval
  <1>4. f \in [D -> Nat]
    BY <1>2, BpsNat
  <1>5. apply_treasury_split(n) = sum(f)
    BY DEF apply_treasury_split, s
  <1> HIDE DEF f, D
  <1> QED BY <1>3, <1>4, <1>5, SumNat

\* So is what the treasury receives of each gain, and of all of them.
LEMMA FeesInOrder == ASSUME strategy_parts, NEW up PROVE harvest_split(up) \in Nat
  <1> DEFINE G == harvestable(up)   f == [i \in G |-> treasury_paid(i, up)]
  <1>1. G \subseteq DOMAIN strategies.recs /\ IsFiniteSet(G) /\ strategies.fee \in Nat
        /\ \A i \in G : current_value(strategies.recs[i], up) > strategies.recs[i].hwm
    BY HarvestableIn DEF strategy_parts
  <1>2. ASSUME NEW i \in G PROVE treasury_paid(i, up) \in Nat
    <2> DEFINE x == current_value(strategies.recs[i], up) - strategies.recs[i].hwm   y == perf_fee(i, up)   t == keeper_tip(i, up)
    <2>1. x \in Nat
      <3>1. current_value(strategies.recs[i], up) \in Nat /\ strategies.recs[i].hwm \in Int
        BY <1>1, ValueNat
      <3> QED BY <1>1, <3>1
    <2>2. y = bps(x, strategies.fee) /\ t = bps(y, KeeperTipShare) /\ treasury_paid(i, up) = apply_treasury_split(y - t)
      BY DEF perf_fee, keeper_tip, treasury_paid
    <2> HIDE DEF x, y, t
    <2>3. y \in Nat
      BY <1>1, <2>1, <2>2, BpsNat
    <2>4. t \in 0..y
      BY ONLY <2>2, <2>3, StrategyAssumption, BpsBound
    <2>5. y - t \in Nat
      BY <2>3, <2>4
    <2> QED BY <2>2, <2>5, SplitNat
  <1>3. f \in [G -> Nat]
    BY <1>2
  <1>4. harvest_split(up) = sum(f)
    BY DEF harvest_split
  <1> HIDE DEF f, G
  <1> QED BY ONLY <1>1, <1>3, <1>4, SumNat

\* The records after a harvest, what it recorded beyond what was sent, and what it charged on.
harvest_recs(up) ==
    [i \in DOMAIN strategies.recs |->
        IF i \in harvestable(up)
        THEN [strategies.recs[i] EXCEPT !.hwm = current_value(strategies.recs[i], up),
                                        !.allocated = current_value(strategies.recs[i], up)]
        ELSE strategies.recs[i]]
harvest_gain(up) == sum([i \in harvestable(up) |-> current_value(strategies.recs[i], up) - strategies.recs[i].allocated])
harvest_above(a, up) ==
    IF index(a) \in harvestable(up)
    THEN current_value(strategies.recs[index(a)], up) - strategies.recs[index(a)].hwm ELSE 0

\* Each record after a harvest.
LEMMA HarvestRecord ==
    ASSUME strategy_parts, NEW up, NEW i \in DOMAIN strategies.recs
    PROVE  /\ harvest_recs(up)[i] \in Record /\ harvest_recs(up)[i].adapter = strategies.recs[i].adapter
           /\ harvest_recs(up)[i].disabled = strategies.recs[i].disabled
           /\ harvest_recs(up)[i].allocated =
                 IF i \in harvestable(up) THEN current_value(strategies.recs[i], up) ELSE strategies.recs[i].allocated
           /\ harvest_recs(up)[i].hwm =
                 IF i \in harvestable(up) THEN current_value(strategies.recs[i], up) ELSE strategies.recs[i].hwm
  <1> DEFINE r == strategies.recs[i]   v == current_value(r, up)   w == [r EXCEPT !.hwm = v, !.allocated = v]
  <1>1. r \in Record /\ v \in Nat
    BY ValueNat
  <1>2. harvest_recs(up)[i] = IF i \in harvestable(up) THEN w ELSE r
    BY DEF harvest_recs
  <1>3. w \in Record /\ w.adapter = r.adapter /\ w.disabled = r.disabled /\ w.allocated = v /\ w.hwm = v
    <2>1. v \in Int
      BY <1>1
    <2> HIDE DEF r, v
    <2> QED BY ONLY <1>1, <2>1 DEF Record, w
  <1> HIDE DEF w, r, v
  <1>4. CASE i \in harvestable(up)
    BY <1>2, <1>3, <1>4 DEF r, v
  <1>5. CASE i \notin harvestable(up)
    BY <1>1, <1>2, <1>5 DEF r
  <1> QED BY <1>4, <1>5

\* A harvest records the gains it found, and nothing else.
LEMMA HarvestSum ==
    ASSUME strategy_parts, NEW up
    PROVE  /\ harvest_recs(up) \in Seq(Record) /\ DOMAIN harvest_recs(up) = DOMAIN strategies.recs
           /\ harvest_gain(up) \in Int
           /\ allocated_in(harvest_recs(up)) = allocated_in(strategies.recs) + harvest_gain(up)
  <1> DEFINE recs == strategies.recs   D == DOMAIN strategies.recs   G == harvestable(up)   qs == harvest_recs(up)
             v(i) == current_value(recs[i], up)
             g == [i \in G |-> v(i) - recs[i].allocated]
             x == [i \in D |-> IF i \in G THEN v(i) - recs[i].allocated ELSE 0]
             f == [i \in D |-> recs[i].allocated]   h == [i \in D |-> qs[i].allocated]
  <1>1. IsFiniteSet(D) /\ D = 1..Len(recs) /\ Len(recs) \in Nat /\ G \subseteq D
    BY HarvestableIn DEF strategy_parts
  <1>2. DOMAIN qs = D
    BY DEF harvest_recs
  <1>3. \A i \in D : /\ qs[i] \in Record /\ v(i) \in Int /\ recs[i].allocated \in Int /\ qs[i].allocated \in Int
                     /\ qs[i].allocated = IF i \in G THEN v(i) ELSE recs[i].allocated
    <2> TAKE i \in D
    <2>1. qs[i] \in Record /\ qs[i].allocated = IF i \in G THEN v(i) ELSE recs[i].allocated
      BY HarvestRecord
    <2>2. v(i) \in Nat /\ recs[i].allocated \in Nat
      BY ValueNat
    <2>3. qs[i].allocated \in Int
      BY <2>1, RecordNumbers
    <2> QED BY <2>1, <2>2, <2>3
  <1>4. qs \in Seq(Record)
    <2>1. qs \in [1..Len(recs) -> Record]
      <3>1. qs = [i \in D |-> qs[i]]
        BY DEF harvest_recs
      <3> QED BY <1>1, <1>3, <3>1
    <2> HIDE DEF qs, recs
    <2> QED BY ONLY <1>1, <2>1
  <1>5. harvest_gain(up) = sum(g) /\ allocated_in(recs) = sum(f) /\ allocated_in(qs) = sum(h)
    BY <1>2 DEF harvest_gain, allocated_in
  <1> HIDE DEF v, qs, D, G, recs
  <1>6. /\ f \in [D -> Int] /\ x \in [D -> Int] /\ h \in [D -> Int] /\ g \in [G -> Int]
        /\ (\A i \in D : h[i] = f[i] + x[i]) /\ (\A i \in G : g[i] = x[i]) /\ (\A i \in D \ G : x[i] = 0)
    BY <1>1, <1>3
  <1> HIDE DEF f, x, h, g
  <1>7. IsFiniteSet(D) /\ G \subseteq D
    BY <1>1
  <1>8. sum(h) = sum(f) + sum(x)
    BY ONLY <1>6, <1>7, SumSplit
  <1>9. sum(g) = sum(x)
    BY ONLY <1>6, <1>7, SumWhere
  <1>10. sum(x) \in Int
    BY ONLY <1>6, <1>7, SumType
  <1> QED BY <1>2, <1>4, <1>5, <1>8, <1>9, <1>10 DEF qs, D, recs

\* A fee is charged on what the strategy is worth above its mark, and the mark follows.
LEMMA HarvestMarks ==
    ASSUME strategy_parts, NEW up, NEW s \in StrategySheet, s.recs = harvest_recs(up), s.reported = strategies.reported,
           \A a \in Adapters : s.charged[a] = strategies.charged[a] + harvest_above(a, up)
    PROVE  one_each(s.recs) /\ marked(s, market_value)
  <1> DEFINE recs == strategies.recs   D == DOMAIN strategies.recs   G == harvestable(up)   qs == harvest_recs(up)
  <1>1. /\ recs \in Seq(Record) /\ one_each(recs) /\ marked(strategies, market_value) /\ strategies.charged \in [Adapters -> Int]
        /\ market_value \in [Adapters -> MarketOf] /\ D = 1..Len(recs) /\ Len(recs) \in Nat
    BY DEF strategy_parts
  <1>2. DOMAIN qs = D
    BY HarvestSum
  <1>3. \A i \in D : /\ qs[i].adapter = recs[i].adapter /\ qs[i].disabled = recs[i].disabled
                     /\ qs[i].allocated = (IF i \in G THEN current_value(recs[i], up) ELSE recs[i].allocated)
                     /\ qs[i].hwm = (IF i \in G THEN current_value(recs[i], up) ELSE recs[i].hwm)
                     /\ recs[i].adapter \in Adapters /\ recs[i].hwm \in Int /\ recs[i].allocated \in Nat
    BY HarvestRecord, ValueNat
  <1>4. \A i \in D : index(recs[i].adapter) = i
    <2> TAKE i \in D
    <2>1. index(recs[i].adapter) # 0
      BY <1>1, IndexFound
    <2>2. index(recs[i].adapter) \in D /\ recs[index(recs[i].adapter)].adapter = recs[i].adapter
      BY <1>1, <2>1, IndexFound
    <2> QED BY <1>1, <2>2 DEF one_each
  <1>5. one_each(s.recs)
    BY <1>1, <1>2, <1>3 DEF one_each
  <1>6. G \subseteq D /\ \A i \in G : ~recs[i].disabled /\ current_value(recs[i], up) > recs[i].hwm
    BY HarvestableIn
  <1>7. SUFFICES ASSUME s.reported = 0 PROVE marked(s, market_value)
    BY <1>5 DEF marked
  \* A record that gains is one whose adapter answers: it was not above its mark.
  <1>8. ASSUME NEW i \in G
        PROVE  LET m == market_value[recs[i].adapter]
                   c == s.charged[recs[i].adapter]
               IN  current_value(recs[i], up) = m.assets /\ c <= m.net /\ m.assets - m.net <= m.assets - c
    <2> DEFINE r == recs[i]   a == r.adapter   m == market_value[a]   c == s.charged[a]   k == strategies.charged[a]
               x == current_value(r, up)
    <2>1. below_mark(strategies, m, r) /\ ~r.disabled /\ x > r.hwm /\ r.allocated \in Nat /\ r.hwm \in Int /\ a \in Adapters
      BY <1>1, <1>3, <1>6, <1>7 DEF marked
    <2>2. m.assets \in Nat /\ m.net \in Int /\ k \in Int
      BY <1>1, <2>1 DEF MarketOf
    <2>3. r.allocated <= r.hwm /\ m.assets - m.net <= r.hwm - k
      BY <2>1 DEF below_mark
    <2>4. x = m.assets
      <3>1. CASE r.adapter \in up
        BY <3>1 DEF current_value
      <3>2. CASE r.adapter \notin up
        <4>1. x = r.allocated
          BY <3>2 DEF current_value
        <4> QED BY <2>1, <2>3, <4>1
      <3> QED BY <3>1, <3>2
    <2>5. c = k + (x - r.hwm)
      <3>1. harvest_above(a, up) = x - r.hwm
        <4>1. index(a) = i
          BY <1>4, <1>6
        <4> QED BY <4>1 DEF harvest_above
      <3> QED BY <2>1, <3>1
    <2> HIDE DEF r, a, m, c, k, x
    <2>6. c <= m.net /\ m.assets - m.net <= m.assets - c
      BY <2>1, <2>2, <2>3, <2>4, <2>5
    <2> QED BY <2>4, <2>6 DEF r, a, m, c, x
  <1>9. ASSUME NEW a \in Adapters
        PROVE  s.charged[a] <= market_value[a].peak /\ market_value[a].net <= market_value[a].peak /\ unused(s, market_value[a], a)
    <2>1. /\ strategies.charged[a] <= market_value[a].peak /\ market_value[a].net <= market_value[a].peak
          /\ unused(strategies, market_value[a], a) /\ strategies.charged[a] \in Int
      BY <1>1, <1>7 DEF marked
    <2>2. market_value[a].peak \in Int /\ market_value[a].net \in Int
      BY <1>1 DEF MarketOf
    <2>3. CASE index(a) \in G
      <3> DEFINE i == index(a)
      <3>1. i \in D /\ recs[i].adapter = a
        <4>1. index(a) # 0
          BY <1>1, <1>6, <2>3
        <4> QED BY <1>1, <4>1, IndexFound
      <3>2. s.charged[a] <= market_value[a].net
        BY <1>8, <2>3, <3>1
      <3>3. s.charged[a] \in Int
        BY DEF StrategySheet
      <3>4. unused(s, market_value[a], a)
        BY <1>2, <1>3, <3>1 DEF unused
      <3> HIDE DEF i
      <3> QED BY <2>1, <2>2, <3>2, <3>3, <3>4
    <2>4. CASE index(a) \notin G
      <3>1. s.charged[a] = strategies.charged[a]
        BY <2>1, <2>4 DEF harvest_above
      <3>2. unused(s, market_value[a], a)
        BY <1>2, <1>3, <2>1, <3>1 DEF unused
      <3> QED BY <2>1, <3>1, <3>2
    <2> QED BY <2>3, <2>4
  <1>10. ASSUME NEW i \in D PROVE below_mark(s, market_value[qs[i].adapter], qs[i])
    <2> DEFINE r == recs[i]   n == qs[i]   a == r.adapter   m == market_value[a]   c == s.charged[a]
    <2>1. n.adapter = a /\ n.disabled = r.disabled /\ a \in Adapters /\ c \in Int
      BY <1>3 DEF StrategySheet
    <2>2. m.assets \in Nat /\ m.net \in Int
      BY <1>1, <2>1 DEF MarketOf
    <2>3. CASE i \in G
      <3>1. n.allocated = m.assets /\ n.hwm = m.assets /\ m.assets - m.net <= m.assets - c
        BY <1>3, <1>8, <2>3
      <3> QED BY <2>1, <2>2, <3>1 DEF below_mark
    <2>4. CASE i \notin G
      <3>1. n.allocated = r.allocated /\ n.hwm = r.hwm /\ below_mark(strategies, m, r)
        BY <1>1, <1>3, <1>7, <2>4 DEF marked
      <3>2. c = strategies.charged[a]
        <4>1. index(a) = i
          BY <1>4
        <4>2. strategies.charged[a] \in Int
          BY <1>1, <2>1
        <4> QED BY <2>1, <2>4, <4>1, <4>2 DEF harvest_above
      <3> QED BY <2>1, <3>1, <3>2 DEF below_mark
    <2> QED BY <2>3, <2>4
  <1> QED BY <1>2, <1>5, <1>7, <1>9, <1>10 DEF marked

\* Harvests pay fees out of the idle tokens and put the gains on the books.
LEMMA HarvestKeeps ==
    ASSUME StrategyBooks, NEW up, harvest(Admin, up)
    PROVE  StrategyBooks'
  <1>0. strategy_parts
    BY StrategyParts
  <1> DEFINE split == harvest_split(up)
  <1> PICK tips \in tips_paid(up) :
          /\ held' = held - (sum(tips) + split)
          /\ wallet' = [a \in Accounts |-> wallet[a] + (IF a = Admin THEN split ELSE 0) + (IF a = Admin THEN sum(tips) ELSE 0)]
          /\ strategies' = [strategies EXCEPT
                 !.recs = harvest_recs(up), !.booked = strategies.booked + harvest_gain(up),
                 !.charged = [a \in Adapters |-> strategies.charged[a] + harvest_above(a, up)],
                 !.paid = strategies.paid + (sum(tips) + split)]
          /\ UNCHANGED <<now, pool, rewardPool, capped, market_value>>
    BY DEF harvest, harvest_recs, harvest_gain, harvest_above, harvest_split
  <1> DEFINE tip == sum(tips)   fees == tip + split
             qs == harvest_recs(up)   b == strategies.booked + harvest_gain(up)   P == strategies.paid + fees
             ch == [a \in Adapters |-> strategies.charged[a] + harvest_above(a, up)]   s == strategies'
             purse(a) == wallet[a] + (IF a = Admin THEN split ELSE 0) + (IF a = Admin THEN tip ELSE 0)
  <1>1. strategy_parts
    BY StrategyParts
  <1>2. /\ held' = held - fees /\ wallet' = [a \in Accounts |-> purse(a)]
        /\ strategies' = [strategies EXCEPT !.recs = qs, !.booked = b, !.charged = ch, !.paid = P]
        /\ UNCHANGED <<now, pool, rewardPool, capped, market_value>>
    OBVIOUS
  <1>3. /\ Books /\ strategies \in StrategySheet /\ held \in Int /\ wallet \in [Accounts -> Nat] /\ totalDeposited \in Nat
        /\ rewardPool \in Nat /\ strategies.reserve \in Nat /\ strategies.booked \in Int /\ strategies.paid \in Int
        /\ strategies.charged \in [Adapters -> Int] /\ market_value \in [Adapters -> MarketOf]
        /\ allocated_in(strategies.recs) \in Int
    BY <1>1 DEF strategy_parts
  <1>4. fees \in Nat /\ tip \in Nat /\ split \in Nat
    <2>1. tips \in [harvestable(up) -> Nat] /\ IsFiniteSet(harvestable(up))
      <3>1. tips \in [harvestable(up) -> 0..Max({held, 0})]
        BY DEF tips_paid
      <3>2. \A n \in 0..Max({held, 0}) : n \in Nat
        OBVIOUS
      <3> QED BY <1>0, <3>1, <3>2, HarvestableIn
    <2>2. tip \in Nat
      BY <2>1, SumNat
    <2>3. split \in Nat
      BY <1>0, FeesInOrder
    <2> QED BY <2>2, <2>3
  <1> HIDE DEF fees, tip, split
  <1>5. /\ qs \in Seq(Record) /\ harvest_gain(up) \in Int
        /\ allocated_in(qs) = allocated_in(strategies.recs) + harvest_gain(up)
    BY <1>1, HarvestSum
  <1>6. ch \in [Adapters -> Int] /\ \A a \in Adapters : ch[a] = strategies.charged[a] + harvest_above(a, up)
    <2>1. ASSUME NEW a \in Adapters PROVE harvest_above(a, up) \in Int
      <3>1. CASE index(a) \in harvestable(up)
        <4>1. index(a) \in DOMAIN strategies.recs
          BY <1>1, <3>1, HarvestableIn
        <4>2. current_value(strategies.recs[index(a)], up) \in Nat /\ strategies.recs[index(a)].hwm \in Int
          BY <1>1, <4>1, ValueNat
        <4> QED BY <3>1, <4>2 DEF harvest_above
      <3>2. CASE index(a) \notin harvestable(up)
        BY <3>2 DEF harvest_above
      <3> QED BY <3>1, <3>2
    <2> QED BY <1>3, <2>1
  <1> HIDE DEF qs, ch
  <1>7. b \in Int /\ P \in Int
    BY <1>3, <1>4, <1>5
  <1>8. /\ s \in StrategySheet /\ s.recs = qs /\ s.charged = ch /\ s.reported = strategies.reported
        /\ s.reserve = strategies.reserve /\ s.booked = b /\ s.paid = P
    <2> HIDE DEF b, P
    <2> QED BY <1>2, <1>3, <1>5, <1>6, <1>7 DEF StrategySheet
  <1>9. one_each(s.recs) /\ marked(s, market_value)
    <2>1. s.recs = harvest_recs(up) /\ \A a \in Adapters : s.charged[a] = strategies.charged[a] + harvest_above(a, up)
      BY <1>6, <1>8 DEF qs
    <2> HIDE DEF s
    <2> QED BY <1>1, <1>8, <2>1, HarvestMarks
  <1>10. Books'
    <2>1. \A a \in Accounts : purse(a) \in Nat
      BY <1>3, <1>4
    <2> HIDE DEF purse
    <2>2. wallet' \in [Accounts -> Nat]
      BY <1>2, <2>1
    <2>3. held' \in Int
      BY <1>2, <1>3, <1>4
    <2>4. UNCHANGED <<now, shares, totalShares, totalDeposited, rewardPool>>
      BY <1>2 DEF pool
    <2> QED BY <1>3, <2>2, <2>3, <2>4 DEF Books
  <1>11. held' + allocated_in(s.recs) = totalDeposited' + rewardPool' + s.reserve + s.booked - s.paid
    <2> DEFINE h == held'   y == allocated_in(s.recs)   z == allocated_in(strategies.recs)   g == harvest_gain(up)
               R == strategies.reserve   B == strategies.booked   Q == strategies.paid
    <2>1. held + z = totalDeposited + rewardPool + R + B - Q
      BY <1>1 DEF strategy_parts
    <2>2. h = held - fees /\ totalDeposited' = totalDeposited /\ rewardPool' = rewardPool /\ y = z + g
      BY <1>2, <1>5, <1>8 DEF pool
    <2>3. s.reserve = R /\ s.booked = B + g /\ s.paid = Q + fees
      BY <1>8
    <2>4. z \in Int /\ R \in Int /\ B \in Int /\ Q \in Int /\ g \in Int
      BY <1>3, <1>5
    <2> HIDE DEF h, y, z, g, R, B, Q, b, P
    <2>5. h + y = totalDeposited + rewardPool + R + (B + g) - (Q + fees)
      BY <1>3, <1>4, <2>1, <2>2, <2>4
    <2> QED BY <2>2, <2>3, <2>5 DEF h, y
  <1>12. capped' = <<>> /\ market_value' = market_value
    BY <1>2 DEF StrategyBooks
  <1> QED BY <1>3, <1>8, <1>9, <1>10, <1>11, <1>12 DEF StrategyBooks

\* Every move of the strategies keeps their books.
LEMMA StrategyMovesKeep == ASSUME StrategyBooks, StrategyMoves PROVE StrategyBooks'
  <1>1. /\ \A a \in Volatile : a \in Adapters
        /\ \A r \in IdleRatios : r \in Nat
        /\ \A r \in PerfFees : r \in Nat
        /\ \A n \in Lots : n \in Nat
        /\ \A r \in TreasurySplits : r \in Seq(Nat)
        /\ \A d \in MarketSteps : d \in Int
    BY StrategyAssumption
  <1>2. ASSUME NEW r \in IdleRatios, set_min_idle_ratio_bps(r) PROVE StrategyBooks'
    BY <1>1, <1>2, SettingsKeep
  <1>3. ASSUME NEW r \in PerfFees, set_performance_fee_bps(r) PROVE StrategyBooks'
    BY <1>1, <1>3, SettingsKeep
  <1>4. ASSUME NEW a \in Adapters, NEW n \in Lots, allocate_to_strategy(a, n) PROVE StrategyBooks'
    BY <1>1, <1>4, AllocateKeeps
  <1>11. ASSUME NEW r \in TreasurySplits, set_treasury_split(r) PROVE StrategyBooks'
    BY <1>1, <1>11, SettingsKeep
  <1>5. ASSUME NEW a \in Volatile, NEW d \in MarketSteps, market_moves(a, d) PROVE StrategyBooks'
    BY <1>1, <1>5, MarketKeeps
  <1>6. ASSUME NEW up \in SUBSET Adapters, NEW u \in Users, unstake_pulling(u, up) PROVE StrategyBooks'
    BY <1>6, UnstakePullingKeeps
  <1>7. ASSUME NEW up \in SUBSET Adapters, harvest(Admin, up) PROVE StrategyBooks'
    BY <1>7, HarvestKeeps
  <1>8. ASSUME NEW up \in SUBSET Adapters, NEW a \in Volatile, report_strategy_loss(a, up) PROVE StrategyBooks'
    BY <1>1, <1>8, ReportKeeps
  <1>9. ASSUME NEW up \in SUBSET Adapters, NEW a \in Volatile, emergency_unwind(a, up) PROVE StrategyBooks'
    BY <1>1, <1>9, UnwindKeeps
  <1>10. \A up \in {Adapters, Adapters \ Volatile} : up \in SUBSET Adapters
    OBVIOUS
  <1> QED BY <1>2, <1>3, <1>4, <1>5, <1>6, <1>7, <1>8, <1>9, <1>10, <1>11 DEF StrategyMoves

-------------------------------------------------------------------------------
\* The registry with caps: the other records are as they started.
CapConfig == [adapter : Adapters, cap : Nat, allocated : Int]
CappedBooks ==
    /\ Books /\ RecordInit /\ capped \in Seq(CapConfig) /\ market_value \in [Adapters -> MarketOf]
    /\ held + allocated_in(capped) = totalDeposited + rewardPool

\* The position of an adapter in the registry.
LEMMA CapIndexFound ==
    ASSUME NEW a, cap_index(a) # 0
    PROVE  cap_index(a) \in DOMAIN capped /\ capped[cap_index(a)].adapter = a
  <1>1. \E i \in DOMAIN capped : capped[i].adapter = a
    BY DEF cap_index
  <1>2. cap_index(a) = CHOOSE i \in DOMAIN capped : capped[i].adapter = a
    BY <1>1 DEF cap_index
  <1> QED BY <1>1, <1>2

\* Tokens go to or come from an adapter, and its allocation follows.
LEMMA CappedSend ==
    ASSUME CappedBooks, NEW a \in Adapters, NEW n \in Int, cap_index(a) # 0, market_value[a].assets + n \in Nat,
           capped' = [capped EXCEPT ![cap_index(a)] = [capped[cap_index(a)] EXCEPT !.allocated = capped[cap_index(a)].allocated + n]],
           held' = held - n, sent(a, n), UNCHANGED <<now, wallet, pool, rewardPool, strategies>>
    PROVE  CappedBooks'
  <1> DEFINE i == cap_index(a)   c == capped[i]   x == c.allocated + n   r == [c EXCEPT !.allocated = x]
             qs == [capped EXCEPT ![i] = r]
  <1>1. i \in DOMAIN capped
    BY CapIndexFound
  <1>2. Books /\ RecordInit /\ capped \in Seq(CapConfig) /\ market_value \in [Adapters -> MarketOf]
        /\ held \in Int /\ totalDeposited \in Nat /\ rewardPool \in Nat
        /\ held + allocated_in(capped) = totalDeposited + rewardPool
    BY DEF CappedBooks, Books
  <1>3. \A y \in CapConfig : y.allocated \in Int
    BY DEF CapConfig
  <1>4. c \in CapConfig /\ c.allocated \in Int
    BY <1>1, <1>2, <1>3
  <1>5. x \in Int
    BY <1>4
  <1>6. r \in CapConfig /\ r.allocated = x
    <2> HIDE DEF c, x
    <2> QED BY ONLY <1>4, <1>5 DEF CapConfig, r
  <1>7. capped' = qs
    OBVIOUS
  <1> HIDE DEF i, r
  <1>8. rewritten(CapConfig, capped, i, r)
    BY ONLY <1>1, <1>2, <1>3, <1>6, AllocationWrite
  <1>9. qs \in Seq(CapConfig) /\ allocated_in(qs) = allocated_in(capped) + x - c.allocated /\ allocated_in(capped) \in Int
    BY <1>6, <1>8 DEF rewritten
  <1>10. market_value' \in [Adapters -> MarketOf]
    BY <1>2, SentTo
  <1>11. Books' /\ RecordInit'
    <2>1. held' \in Int
      BY <1>2
    <2>2. UNCHANGED <<now, wallet, shares, totalShares, totalDeposited, rewardPool, strategies>>
      BY DEF pool
    <2> QED BY <1>2, <2>1, <2>2 DEF Books, RecordInit
  <1>12. held' + allocated_in(qs) = totalDeposited' + rewardPool'
    <2> DEFINE h == held'   y == allocated_in(qs)   z == allocated_in(capped)   v == c.allocated
    <2>1. h = held - n /\ y = z + x - v /\ z \in Int /\ x = v + n /\ v \in Int /\ held + z = totalDeposited + rewardPool
      BY <1>2, <1>4, <1>9
    <2>2. totalDeposited' = totalDeposited /\ rewardPool' = rewardPool
      BY DEF pool
    <2> HIDE DEF h, y, z, v, x
    <2>3. h + y = totalDeposited + rewardPool
      BY <1>2, <2>1
    <2> QED BY <2>2, <2>3 DEF h, y
  <1> QED BY <1>7, <1>9, <1>10, <1>11, <1>12 DEF CappedBooks

\* Every move of the registry keeps its books.
LEMMA CappedMovesKeep == ASSUME CappedBooks, CappedMoves PROVE CappedBooks'
  <1>1. Books /\ RecordInit /\ capped \in Seq(CapConfig) /\ market_value \in [Adapters -> MarketOf]
        /\ held \in Int /\ totalDeposited \in Nat /\ rewardPool \in Nat
        /\ held + allocated_in(capped) = totalDeposited + rewardPool
    BY DEF CappedBooks, Books
  <1>2. \A y \in CapConfig : y.allocated \in Int
    BY DEF CapConfig
  <1>3. ASSUME NEW a \in Adapters, NEW c \in StrategyCaps, add_strategy(a, c) PROVE CappedBooks'
    <2> DEFINE r == [adapter |-> a, cap |-> c, allocated |-> 0]
    <2>1. r \in CapConfig /\ r.allocated = 0
      BY StrategyAssumption DEF CapConfig
    <2>2. capped' = Append(capped, r) /\ UNCHANGED <<base_vars, strategies, market_value>>
      BY <1>3 DEF add_strategy
    <2> HIDE DEF r
    <2>3. appended(CapConfig, capped, r)
      BY ONLY <1>1, <1>2, <2>1, AllocationAdd
    <2>4. capped' \in Seq(CapConfig) /\ allocated_in(capped') = allocated_in(capped)
      BY <2>1, <2>2, <2>3 DEF appended
    <2>5. UNCHANGED <<held, totalDeposited, rewardPool, market_value, strategies>> /\ Books'
      BY <1>1, <2>2 DEF Books, base_vars, pool
    <2> QED BY <1>1, <2>4, <2>5 DEF CappedBooks, RecordInit
  <1>4. ASSUME NEW a \in Adapters, NEW n \in Amounts, allocate_capped(a, n) PROVE CappedBooks'
    <2>1. n \in Nat /\ n \in Int /\ market_value[a].assets \in Nat
      BY <1>1, BaseAssumption DEF MarketOf
    <2>2. market_value[a].assets + n \in Nat
      BY <2>1
    <2> QED BY <1>4, <2>1, <2>2, CappedSend DEF allocate_capped
  <1>5. ASSUME NEW a \in Adapters, NEW n \in Amounts, withdraw_from_strategy(a, n) PROVE CappedBooks'
    <2> DEFINE got == returned(a, n, Adapters)   d == 0 - got   i == cap_index(a)
    <2>1. n \in Nat
      BY BaseAssumption
    <2>2. got \in Nat /\ got <= market_value[a].assets /\ market_value[a].assets \in Nat
      BY <1>1, <2>1, ReturnedBound
    <2>3. /\ i # 0 /\ capped' = [capped EXCEPT ![i] = [capped[i] EXCEPT !.allocated = capped[i].allocated - got]]
          /\ held' = held + got /\ sent(a, d) /\ UNCHANGED <<now, wallet, pool, rewardPool, strategies>>
      BY <1>5 DEF withdraw_from_strategy, withdrawn
    <2> HIDE DEF got
    <2>4. d \in Int /\ market_value[a].assets + d \in Nat /\ held' = held - d
      BY <1>1, <2>2, <2>3
    <2>5. capped' = [capped EXCEPT ![i] = [capped[i] EXCEPT !.allocated = capped[i].allocated + d]]
      <3>1. capped[i].allocated \in Int
        BY <1>1, <1>2, <2>3, CapIndexFound
      <3>2. capped[i].allocated - got = capped[i].allocated + d
        BY <2>2, <3>1
      <3> QED BY <2>3, <3>2
    <2> HIDE DEF d
    <2> QED BY <2>3, <2>4, <2>5, CappedSend
  <1>6. ASSUME NEW a \in Volatile, NEW d \in MarketSteps, market_moves(a, d) PROVE CappedBooks'
    <2> DEFINE m == market_value[a]   net == m.net + d   x == m.assets + d   p == Max({net, m.peak})
               w == [assets |-> x, net |-> net, peak |-> p]
    <2>1. a \in Adapters /\ d \in Int /\ x >= 0 /\ market_value' = [market_value EXCEPT ![a] = w] /\ UNCHANGED <<base_vars, strategies, capped>>
      BY <1>6, StrategyAssumption DEF market_moves
    <2>2. m.assets \in Nat /\ m.net \in Int /\ m.peak \in Nat
      BY <1>1, <2>1 DEF MarketOf
    <2>3. x \in Nat /\ net \in Int
      BY <2>1, <2>2
    <2>4. p = (IF net >= m.peak THEN net ELSE m.peak)
      <3>1. net \in Int /\ m.peak \in Int
        BY <2>2, <2>3
      <3> HIDE DEF net, m
      <3> QED BY ONLY <3>1, MinMax DEF p
    <2>5. p \in Nat
      BY <2>2, <2>3, <2>4
    <2> HIDE DEF p, net, x
    <2>6. w \in MarketOf
      BY <2>3, <2>5 DEF MarketOf
    <2> HIDE DEF w
    <2>7. market_value' \in [Adapters -> MarketOf]
      BY <1>1, <2>1, <2>6
    <2>8. UNCHANGED <<held, totalDeposited, rewardPool, strategies, capped>> /\ Books'
      BY <1>1, <2>1 DEF Books, base_vars, pool
    <2> QED BY <1>1, <2>7, <2>8 DEF CappedBooks, RecordInit
  <1>7. ASSUME NEW u \in Users, leave(u), UNCHANGED strategy_vars PROVE CappedBooks'
    <2>1. PoolMoves
      BY <1>7 DEF PoolMoves
    <2>2. Books' /\ rewardPool' = rewardPool /\ held' - totalDeposited' = held - totalDeposited
      BY <1>1, <2>1, PoolMovesKeep
    <2>3. UNCHANGED <<strategies, capped, market_value>>
      BY <1>7 DEF strategy_vars
    <2> DEFINE h == held'   D == totalDeposited'   z == allocated_in(capped)
    <2>4. h \in Int /\ D \in Int
      BY <2>2 DEF Books
    <2>5. listed_amounts(capped)
      BY <1>1, <1>2, AllocationsAdd
    <2>6. z \in Int /\ h - D = held - totalDeposited /\ held + z = totalDeposited + rewardPool
      BY <1>1, <2>2, <2>5 DEF listed_amounts
    <2> HIDE DEF h, D, z
    <2>7. h + z = D + rewardPool
      BY <1>1, <2>4, <2>6
    <2>8. held' + allocated_in(capped') = totalDeposited' + rewardPool'
      BY <2>2, <2>3, <2>7 DEF h, D, z
    <2> QED BY <1>1, <2>2, <2>3, <2>8 DEF CappedBooks, RecordInit
  <1> QED BY <1>3, <1>4, <1>5, <1>6, <1>7 DEF CappedMoves

StrategyInv ==
    /\ focus = "strategies" => StrategyBooks
    /\ focus = "capped" => CappedBooks

\* Nothing is out of the contract at the start.
LEMMA StrategyInvInit == ASSUME FundsInit PROVE StrategyInv
  <1>1. BaseInitWith(Purse) /\ Purse \in Nat /\ StrategyInit
    BY BaseAssumption DEF FundsInit, BaseInit
  <1>2. Books /\ held = totalDeposited + rewardPool /\ totalDeposited \in Nat /\ rewardPool \in Nat
    BY <1>1, BooksInit, BaseInitFacts
  <1>3. RecordInit /\ capped = <<>> /\ MarketValueInit
    BY <1>1 DEF StrategyInit, CappedInit
  <1> DEFINE zero == [assets |-> 0, net |-> 0, peak |-> 0]
  <1>4. zero \in MarketOf /\ market_value = [a \in Adapters |-> zero] /\ zero.assets = 0 /\ zero.net = 0 /\ zero.peak = 0
    BY <1>3 DEF MarketValueInit, MarketOf
  <1> HIDE DEF zero
  <1>5. market_value \in [Adapters -> MarketOf] /\ \A a \in Adapters : market_value[a] = zero
    BY <1>4
  <1> DEFINE none == [a \in Adapters |-> 0]
  <1>6. /\ strategies \in StrategySheet /\ strategies.recs = <<>> /\ strategies.reserve = 0 /\ strategies.booked = 0
        /\ strategies.paid = 0 /\ strategies.charged = none /\ strategies.reported = 0
    <2>1. none \in [Adapters -> Int] /\ <<>> \in Seq(Record) /\ <<>> \in Seq(Nat)
      OBVIOUS
    <2>2. strategies = [recs |-> <<>>, idle |-> 0, fee |-> 0, split |-> <<>>, reserve |-> 0,
                        booked |-> 0, paid |-> 0, charged |-> none, reported |-> 0]
      BY <1>3 DEF RecordInit
    <2> HIDE DEF none
    <2> QED BY <2>1, <2>2 DEF StrategySheet
  <1>7. DOMAIN strategies.recs = {} /\ \A a \in Adapters : strategies.charged[a] = 0
    BY <1>6
  <1>8. one_each(strategies.recs) /\ marked(strategies, market_value)
    BY <1>4, <1>5, <1>6, <1>7 DEF one_each, marked, unused
  <1>9. allocated_in(<<>>) = 0
    <2> DEFINE rs == <<>>   f == [i \in DOMAIN rs |-> rs[i].allocated]
    <2>1. DOMAIN rs = {} /\ f \in [{} -> Int] /\ \A i \in {} : f[i] = 0
      OBVIOUS
    <2>2. allocated_in(rs) = sum(f)
      BY DEF allocated_in
    <2> HIDE DEF f
    <2>3. sum(f) = 0
      BY ONLY <2>1, SumZero, FS_EmptySet
    <2> QED BY <2>2, <2>3
  <1>10. StrategyBooks
    <2>1. held + 0 = totalDeposited + rewardPool + 0 + 0 - 0
      BY <1>2
    <2> QED BY <1>2, <1>3, <1>5, <1>6, <1>8, <1>9, <2>1 DEF StrategyBooks
  <1>11. CappedBooks
    <2>1. held + 0 = totalDeposited + rewardPool /\ <<>> \in Seq(CapConfig)
      BY <1>2
    <2> QED BY <1>2, <1>3, <1>5, <1>9, <2>1 DEF CappedBooks
  <1> QED BY <1>10, <1>11 DEF StrategyInv

\* Every step keeps the books of the strategies in focus.
LEMMA StrategyInvStep == StrategyInv /\ [FundsNext]_funds_vars => StrategyInv'
  <1> SUFFICES ASSUME StrategyInv, [FundsNext]_funds_vars PROVE StrategyInv'
    OBVIOUS
  <1>1. CASE focus \notin {"strategies", "capped"}
    BY <1>1 DEF StrategyInv, FundsNext, funds_vars
  <1>2. CASE focus \in {"strategies", "capped"}
    <2>1. /\ UNCHANGED focus
          /\ \/ focus = "strategies" /\ StrategyMoves
             \/ focus = "capped" /\ CappedMoves
             \/ UNCHANGED <<base_vars, strategy_vars>>
      BY <1>2, StrategyStep
    <2>2. CASE UNCHANGED <<base_vars, strategy_vars>>
      <3>1. StrategyBooks => StrategyBooks'
        BY <2>2 DEF StrategyBooks, Books, base_vars, pool, strategy_vars
      <3>2. CappedBooks => CappedBooks'
        BY <2>2 DEF CappedBooks, RecordInit, Books, base_vars, pool, strategy_vars
      <3> QED BY <2>1, <3>1, <3>2 DEF StrategyInv
    <2>3. CASE focus = "strategies"
      BY <2>1, <2>2, <2>3, StrategyMovesKeep DEF StrategyInv
    <2>4. CASE focus = "capped"
      BY <2>1, <2>2, <2>4, CappedMovesKeep DEF StrategyInv
    <2> QED BY <1>2, <2>3, <2>4
  <1> QED BY <1>1, <1>2

\* Tokens put to work (strategy_adapter.rs, auto_allocation.rs): whatever the adapters
\* answer, gain or lose, and however exits, harvests, reported losses and unwindings
\* interleave, deposits, reward pool and reserve equal the idle tokens and the recorded
\* allocations, gains and fees apart; and until a loss is written off the performance fee
\* is only charged on new highs.
THEOREM StrategiesAreAccounted == FundsSpec => []StrategiesAccounted
  <1>1. ASSUME StrategyInv PROVE StrategiesAccounted
    <2>1. CASE focus = "strategies"
      <3>1. strategy_parts /\ capped = <<>>
        BY <1>1, <2>1, StrategyParts DEF StrategyInv, StrategyBooks
      <3>2. allocated_in(capped) = 0
        <4> DEFINE rs == capped   f == [i \in DOMAIN rs |-> rs[i].allocated]
        <4>1. f \in [{} -> Int] /\ \A i \in {} : f[i] = 0
          BY <3>1
        <4>2. allocated_in(rs) = sum(f)
          BY DEF allocated_in
        <4> HIDE DEF f
        <4>3. sum(f) = 0
          BY ONLY <4>1, SumZero, FS_EmptySet
        <4> QED BY <4>2, <4>3
      <3>3. strategies_balanced
        <4> DEFINE z == allocated_in(strategies.recs)
        <4>1. held + z = totalDeposited + rewardPool + strategies.reserve + strategies.booked - strategies.paid
              /\ held \in Int /\ z \in Int
          BY <3>1 DEF strategy_parts
        <4>2. z + 0 = z /\ held + z + 0 = held + z
          BY <4>1
        <4> QED BY <3>2, <4>1, <4>2 DEF strategies_balanced, allocated_in
      <3>4. fees_on_new_highs
        BY <3>1 DEF strategy_parts, marked, fees_on_new_highs
      <3> QED BY <3>3, <3>4 DEF StrategiesAccounted
    <2>2. CASE focus = "capped"
      <3>1. CappedBooks
        BY <1>1, <2>2 DEF StrategyInv
      <3> DEFINE none == [a \in Adapters |-> 0]
      <3>2. /\ strategies.recs = <<>> /\ strategies.reserve = 0 /\ strategies.booked = 0
            /\ strategies.paid = 0 /\ strategies.charged = none /\ \A a \in Adapters : none[a] = 0
        BY <3>1 DEF CappedBooks, RecordInit
      <3>3. allocated_in(strategies.recs) = 0
        <4> DEFINE rs == strategies.recs   f == [i \in DOMAIN rs |-> rs[i].allocated]
        <4>1. f \in [{} -> Int] /\ \A i \in {} : f[i] = 0
          BY <3>2
        <4>2. allocated_in(rs) = sum(f)
          BY DEF allocated_in
        <4> HIDE DEF f
        <4>3. sum(f) = 0
          BY ONLY <4>1, SumZero, FS_EmptySet
        <4> QED BY <4>2, <4>3
      <3>4. strategies_balanced
        <4> DEFINE z == allocated_in(capped)
        <4>1. held + z = totalDeposited + rewardPool /\ held \in Int /\ totalDeposited \in Nat /\ rewardPool \in Nat
          BY <3>1 DEF CappedBooks, Books
        <4>2. held + 0 + z = totalDeposited + rewardPool + 0 + 0 - 0
          BY <4>1
        <4> QED BY <3>2, <3>3, <4>2 DEF strategies_balanced, allocated_in
      <3>5. fees_on_new_highs
        <4>1. \A a \in Adapters : market_value[a].peak \in Nat
          BY <3>1 DEF CappedBooks, MarketOf
        <4> QED BY <3>2, <4>1 DEF fees_on_new_highs
      <3> QED BY <3>4, <3>5 DEF StrategiesAccounted
    <2> QED BY <2>1, <2>2 DEF StrategiesAccounted
  <1> QED BY <1>1, StrategyInvInit, StrategyInvStep, PTL DEF FundsSpec, funds_vars

-------------------------------------------------------------------------------
(* Claims. *)

\* In the focus of the claims only their own entry points run.
LEMMA ClaimStep ==
    ASSUME focus = "claims", [FundsNext]_funds_vars
    PROVE  UNCHANGED focus /\ (ClaimNext \/ UNCHANGED <<base_vars, loan_vars, claim_vars>>)
  BY DEF FundsNext, funds_vars, capacity_step, market_step, contest_step, campaign_step, claim_step,
         subpool_step, position_step, outside_step, ballot_step, safeguard_step, wind_step, shared_step

Window  == [claimed : Nat, since : Int]
Escrow  == [amount : Nat, release : Int]
Entry   == [amount : Nat, at : Int, funded : BOOLEAN]
Entries == [Places -> Entry]

\* What is escrowed, and what is queued for the claims that paid for it.
funded_in(e)  == {i \in Places : e[i].funded}
kept_back(E)  == sum([u \in Users |-> E[u].amount])
queued(V)     == sum([u \in Users |-> total_of(V[u], funded_in(V[u]))])

ClaimTyped ==
    /\ escrowPeriod \in Nat /\ vestingPeriod \in Nat
    /\ accrued \in [Users -> Nat] /\ window \in [Users -> Window]
    /\ insuranceFund \in Nat /\ policy \in [Users -> Nat \cup {NoLedger}]
    /\ escrow \in [Users -> Escrow] /\ vesting \in [Users -> Entries]
    /\ forfeited \in Nat /\ unfunded \in Nat

ClaimBooks ==
    /\ LoanTyped /\ ClaimTyped
    /\ held + unfunded = totalDeposited + rewardPool + insuranceFund + forfeited
                         + kept_back(escrow) + queued(vesting)

\* The places of a queue are finite, and no entry is empty-handed.
LEMMA PlacesFinite == IsFiniteSet(Places) /\ NoEntry \in Entry /\ NoEntry.amount = 0 /\ ~NoEntry.funded
  <1>1. 1 \in Int /\ MaxVesting \in Int
    BY ClaimAssumption
  <1>2. IsFiniteSet(Places)
    BY ONLY <1>1, FS_Interval DEF Places
  <1> QED BY <1>2 DEF NoEntry, Entry, NoLedger

\* Totals of entries are natural numbers.
LEMMA TotalNat ==
    ASSUME NEW e \in Entries, NEW S \in SUBSET Places
    PROVE  total_of(e, S) \in Nat
  <1> DEFINE f == [i \in Places |-> e[i].amount]
  <1>1. \A x \in Entry : x.amount \in Nat
    BY DEF Entry
  <1>2. \A i \in S : f[i] \in Nat
    BY <1>1 DEF Entries
  <1>3. IsFiniteSet(S)
    BY PlacesFinite, FS_Subset
  <1> HIDE DEF f
  <1>4. sum_over(f, S) \in Nat
    BY ONLY <1>2, <1>3, SumOverNat
  <1> QED BY <1>4 DEF total_of, f

\* Escrows add up to a natural number.
LEMMA KeptBackNat == ASSUME NEW E \in [Users -> Escrow] PROVE kept_back(E) \in Nat
  <1> DEFINE f == [u \in Users |-> E[u].amount]
  <1>1. \A x \in Escrow : x.amount \in Nat
    BY DEF Escrow
  <1>2. f \in [Users -> Nat] /\ IsFiniteSet(Users)
    BY <1>1, BaseAssumption
  <1> HIDE DEF f
  <1>3. sum(f) \in Nat
    BY ONLY <1>2, SumNat
  <1> QED BY <1>3 DEF f, kept_back

\* Queues add up to a natural number.
LEMMA QueuedNat == ASSUME NEW V \in [Users -> Entries] PROVE queued(V) \in Nat
  <1> DEFINE g == [u \in Users |-> total_of(V[u], funded_in(V[u]))]
  <1>1. \A u \in Users : g[u] \in Nat
    BY TotalNat DEF funded_in
  <1>2. g \in [Users -> Nat] /\ IsFiniteSet(Users)
    BY <1>1, BaseAssumption
  <1> HIDE DEF g
  <1>3. sum(g) \in Nat
    BY ONLY <1>2, SumNat
  <1> QED BY <1>3 DEF g, queued

\* One escrow is rewritten.
LEMMA EscrowWrite ==
    ASSUME NEW E \in [Users -> Escrow], NEW u \in Users, NEW x \in Escrow, NEW F, F = [E EXCEPT ![u] = x]
    PROVE  F \in [Users -> Escrow] /\ kept_back(F) = kept_back(E) + x.amount - E[u].amount
  <1> DEFINE f == [v \in Users |-> E[v].amount]
             g == [v \in Users |-> F[v].amount]
  <1>1. F \in [Users -> Escrow] /\ F[u] = x /\ \A v \in Users \ {u} : F[v] = E[v]
    OBVIOUS
  <1>2. \A y \in Escrow : y.amount \in Int
    BY DEF Escrow
  <1>3. f \in [Users -> Int] /\ g \in [Users -> Int] /\ IsFiniteSet(Users)
    BY <1>1, <1>2, BaseAssumption
  <1>4. g[u] = x.amount /\ f[u] = E[u].amount /\ \A v \in Users \ {u} : g[v] = f[v]
    BY <1>1
  <1>5. kept_back(E) = sum(f) /\ kept_back(F) = sum(g)
    BY DEF kept_back
  <1> HIDE DEF f, g
  <1>6. sum(g) = sum(f) + g[u] - f[u]
    BY ONLY <1>3, <1>4, SumChange, u \in Users
  <1> QED BY <1>1, <1>4, <1>5, <1>6

\* One queue is rewritten.
LEMMA QueueWrite ==
    ASSUME NEW V \in [Users -> Entries], NEW u \in Users, NEW e \in Entries, NEW W, W = [V EXCEPT ![u] = e]
    PROVE  /\ W \in [Users -> Entries]
           /\ queued(W) = queued(V) + total_of(e, funded_in(e)) - total_of(V[u], funded_in(V[u]))
  <1> DEFINE f == [v \in Users |-> total_of(V[v], funded_in(V[v]))]
             g == [v \in Users |-> total_of(W[v], funded_in(W[v]))]
  <1>1. W \in [Users -> Entries] /\ W[u] = e /\ \A v \in Users \ {u} : W[v] = V[v]
    OBVIOUS
  <1>2. \A y \in Entries : total_of(y, funded_in(y)) \in Int
    BY TotalNat DEF funded_in
  <1>3. f \in [Users -> Int] /\ g \in [Users -> Int] /\ IsFiniteSet(Users)
    BY <1>1, <1>2, BaseAssumption
  <1>4. /\ g[u] = total_of(e, funded_in(e)) /\ f[u] = total_of(V[u], funded_in(V[u]))
        /\ \A v \in Users \ {u} : g[v] = f[v]
    BY <1>1
  <1>5. queued(V) = sum(f) /\ queued(W) = sum(g)
    BY DEF queued
  <1> HIDE DEF f, g
  <1>6. sum(g) = sum(f) + g[u] - f[u]
    BY ONLY <1>3, <1>4, SumChange, u \in Users
  <1> QED BY <1>1, <1>4, <1>5, <1>6

\* Two sets of places without a common one.
LEMMA TotalSplit ==
    ASSUME NEW e \in Entries, NEW A \in SUBSET Places, NEW B \in SUBSET Places, A \cap B = {}
    PROVE  total_of(e, A \cup B) = total_of(e, A) + total_of(e, B)
  <1> DEFINE f == [i \in Places |-> e[i].amount]
             on(S) == [i \in A \cup B |-> IF i \in S THEN f[i] ELSE 0]
             p == on(A)
             q == on(B)
             h == [i \in A \cup B |-> f[i]]
             a == [i \in A |-> f[i]]
             b == [i \in B |-> f[i]]
  <1>1. \A x \in Entry : x.amount \in Int
    BY DEF Entry
  <1>2. f \in [Places -> Int]
    BY <1>1 DEF Entries
  <1>3. IsFiniteSet(A \cup B) /\ IsFiniteSet(A) /\ IsFiniteSet(B)
    BY PlacesFinite, FS_Subset
  <1> HIDE DEF f
  <1>4. p \in [A \cup B -> Int] /\ q \in [A \cup B -> Int] /\ h \in [A \cup B -> Int] /\ a \in [A -> Int] /\ b \in [B -> Int]
    BY <1>2
  <1>5. \A i \in A \cup B : h[i] = p[i] + q[i]
    BY <1>2
  <1>6. /\ A \subseteq A \cup B /\ (\A i \in A : a[i] = p[i]) /\ \A i \in (A \cup B) \ A : p[i] = 0
        /\ B \subseteq A \cup B /\ (\A i \in B : b[i] = q[i]) /\ \A i \in (A \cup B) \ B : q[i] = 0
    BY <1>2
  <1>7. /\ \A i \in A \cup B : h[i] = f[i]
        /\ \A i \in A : a[i] = f[i]
        /\ \A i \in B : b[i] = f[i]
    OBVIOUS
  <1>8. sum(h) = sum_over(h, A \cup B) /\ sum(a) = sum_over(a, A) /\ sum(b) = sum_over(b, B)
    BY DEF sum
  <1> HIDE DEF p, q, h, a, b
  <1>9. sum(h) = sum(p) + sum(q)
    BY ONLY <1>3, <1>4, <1>5, SumSplit
  <1>10. sum(a) = sum(p)
    BY ONLY <1>3, <1>4, <1>6, SumWhere
  <1>11. sum(b) = sum(q)
    BY ONLY <1>3, <1>4, <1>6, SumWhere
  <1>12. sum_over(h, A \cup B) = sum_over(f, A \cup B)
    BY ONLY <1>3, <1>7, SumSame
  <1>13. sum_over(a, A) = sum_over(f, A)
    BY ONLY <1>3, <1>7, SumSame
  <1>14. sum_over(b, B) = sum_over(f, B)
    BY ONLY <1>3, <1>7, SumSame
  <1>15. sum_over(f, A \cup B) = sum_over(f, A) + sum_over(f, B)
    BY ONLY <1>8, <1>9, <1>10, <1>11, <1>12, <1>13, <1>14
  <1> QED BY <1>15 DEF total_of, f

\* Only the entries counted matter.
LEMMA TotalSame ==
    ASSUME NEW e \in Entries, NEW d \in Entries, NEW S \in SUBSET Places, \A i \in S : e[i] = d[i]
    PROVE  total_of(e, S) = total_of(d, S)
  <1> DEFINE f == [i \in Places |-> e[i].amount]
             g == [i \in Places |-> d[i].amount]
  <1>1. IsFiniteSet(S) /\ \A i \in S : f[i] = g[i]
    BY PlacesFinite, FS_Subset
  <1> HIDE DEF f, g
  <1>2. sum_over(f, S) = sum_over(g, S)
    BY ONLY <1>1, SumSame
  <1> QED BY <1>2 DEF total_of, f, g

\* An entry by itself.
LEMMA TotalOne ==
    ASSUME NEW e \in Entries, NEW k \in Places
    PROVE  total_of(e, {k}) = e[k].amount
  <1> DEFINE f == [i \in Places |-> e[i].amount]
             S == {k}
  <1>1. \A x \in Entry : x.amount \in Int
    BY DEF Entry
  <1>2. IsFiniteSet(S) /\ k \in S /\ (\A i \in S : f[i] \in Int) /\ f[k] = e[k].amount /\ S \ {k} = {} /\ e[k].amount \in Int
    BY <1>1, FS_Singleton DEF Entries
  <1> HIDE DEF f, S
  <1>3. sum_over(f, S) = f[k] + sum_over(f, S \ {k})
    BY ONLY <1>2, SumRemove
  <1>4. sum_over(f, {}) = 0
    BY SumEmpty
  <1>5. sum_over(f, S) = e[k].amount
    <2> DEFINE R == S \ {k}
               s == sum_over(f, R)
    <2>1. R = {}
      BY <1>2
    <2>2. s = 0
      BY <1>4, <2>1
    <2>3. sum_over(f, S) = f[k] + s
      BY <1>3
    <2> HIDE DEF s
    <2> QED BY ONLY <1>2, <2>2, <2>3
  <1> QED BY <1>5 DEF total_of, f, S

\* An entry joins a queue, in a place that was free.
LEMMA PushBack ==
    ASSUME vesting \in [Users -> Entries], NEW u \in Users, NEW x \in Entry, push_back(u, x)
    PROVE  /\ vesting' \in [Users -> Entries]
           /\ queued(vesting') = queued(vesting) + IF x.funded THEN x.amount ELSE 0
  <1> DEFINE k == CHOOSE i \in Places : i \in free_places(u)
             e == vesting[u]
             d == [i \in Places |-> IF i = k THEN x ELSE vesting[u][i]]
  <1>1. free_places(u) # {} /\ vesting' = [vesting EXCEPT ![u] = d]
    BY DEF push_back
  <1>2. k \in Places /\ e[k] = NoEntry
    BY <1>1 DEF free_places
  <1> HIDE DEF k
  <1>3. e \in Entries /\ d \in Entries /\ d[k] = x /\ \A i \in Places \ {k} : d[i] = e[i]
    BY <1>2 DEF Entries
  <1> DEFINE A == funded_in(e)
             F == funded_in(d)
  <1>4. k \notin A /\ A \in SUBSET Places /\ F \in SUBSET Places /\ {k} \in SUBSET Places
    BY <1>2, PlacesFinite DEF funded_in
  <1>5. F = IF x.funded THEN A \cup {k} ELSE A
    BY <1>3, <1>4 DEF funded_in
  <1> HIDE DEF e, d
  <1>6. total_of(d, A) = total_of(e, A)
    BY <1>3, <1>4, TotalSame
  <1>7. total_of(d, {k}) = x.amount
    BY <1>2, <1>3, TotalOne
  <1>8. total_of(d, A \cup {k}) = total_of(d, A) + total_of(d, {k})
    BY <1>3, <1>4, TotalSplit
  <1>9. x.amount \in Nat /\ x.funded \in BOOLEAN
    BY DEF Entry
  <1>10. total_of(d, F) \in Nat /\ total_of(e, A) \in Nat
    BY <1>3, <1>4, TotalNat
  <1>11. total_of(d, F) = total_of(e, A) + IF x.funded THEN x.amount ELSE 0
    <2>1. CASE x.funded
      <3>1. total_of(d, F) = total_of(d, A \cup {k})
        BY <1>5, <2>1
      <3> QED BY <1>6, <1>7, <1>8, <2>1, <3>1
    <2>2. CASE ~x.funded
      <3>1. total_of(d, F) = total_of(d, A)
        BY <1>5, <2>2
      <3>2. total_of(e, A) + 0 = total_of(e, A)
        BY <1>10
      <3> QED BY <1>6, <2>2, <3>1, <3>2
    <2> QED BY <1>9, <2>1, <2>2
  <1>12. /\ vesting' \in [Users -> Entries]
         /\ queued(vesting') = queued(vesting) + total_of(d, F) - total_of(e, A)
    BY <1>1, <1>3, QueueWrite DEF e
  <1>13. queued(vesting) \in Int
    BY QueuedNat
  <1> DEFINE t == total_of(d, F)
             s == total_of(e, A)
             p == queued(vesting)
             q == queued(vesting')
             y == IF x.funded THEN x.amount ELSE 0
  <1>14. t \in Int /\ s \in Int /\ p \in Int /\ y \in Int /\ t = s + y /\ q = p + t - s
    BY <1>9, <1>10, <1>11, <1>12, <1>13
  <1> HIDE DEF t, s, p, q, y
  <1>15. q = p + y
    BY ONLY <1>14
  <1> QED BY <1>12, <1>15 DEF q, p, y

\* The numbers of the books.
LEMMA ClaimNumbers ==
    ASSUME LoanTyped, ClaimTyped
    PROVE  /\ held \in Int /\ totalDeposited \in Nat /\ rewardPool \in Nat /\ insuranceFund \in Nat
           /\ forfeited \in Nat /\ unfunded \in Nat /\ kept_back(escrow) \in Nat /\ queued(vesting) \in Nat
  BY KeptBackNat, QueuedNat DEF LoanTyped, Books, ClaimTyped

\* What the vault holds changes by what the books do.
books_move ==
    (held' - held) + (unfunded' - unfunded)
        = (totalDeposited' - totalDeposited) + (rewardPool' - rewardPool) + (insuranceFund' - insuranceFund)
            + (forfeited' - forfeited) + (kept_back(escrow') - kept_back(escrow)) + (queued(vesting') - queued(vesting))

\* A step that changes some of the numbers by amounts that cancel out.
LEMMA ClaimBalance ==
    ASSUME ClaimBooks, LoanTyped', ClaimTyped', books_move
    PROVE  ClaimBooks'
  <1> DEFINE a0 == held   b0 == totalDeposited   c0 == rewardPool   d0 == insuranceFund
             e0 == forfeited   f0 == unfunded   g0 == kept_back(escrow)   h0 == queued(vesting)
             a1 == held'   b1 == totalDeposited'   c1 == rewardPool'   d1 == insuranceFund'
             e1 == forfeited'   f1 == unfunded'   g1 == kept_back(escrow')   h1 == queued(vesting')
  <1>1. a0 \in Int /\ b0 \in Int /\ c0 \in Int /\ d0 \in Int /\ e0 \in Int /\ f0 \in Int /\ g0 \in Int /\ h0 \in Int
    BY ClaimNumbers DEF ClaimBooks
  <1>2. a1 \in Int /\ b1 \in Int /\ c1 \in Int /\ d1 \in Int /\ e1 \in Int /\ f1 \in Int /\ g1 \in Int /\ h1 \in Int
    BY KeptBackNat, QueuedNat DEF LoanTyped, Books, ClaimTyped
  <1>3. /\ a0 + f0 = b0 + c0 + d0 + e0 + g0 + h0
        /\ (a1 - a0) + (f1 - f0) = (b1 - b0) + (c1 - c0) + (d1 - d0) + (e1 - e0) + (g1 - g0) + (h1 - h0)
    BY DEF ClaimBooks, books_move
  <1>4. ClaimBooks' <=> a1 + f1 = b1 + c1 + d1 + e1 + g1 + h1
    BY DEF ClaimBooks
  <1> HIDE DEF a0, b0, c0, d0, e0, f0, g0, h0, a1, b1, c1, d1, e1, f1, g1, h1
  <1>5. a1 + f1 = b1 + c1 + d1 + e1 + g1 + h1
    BY ONLY <1>1, <1>2, <1>3
  <1> QED BY <1>4, <1>5

\* Steps that leave the tokens, the escrows and the queues alone.
LEMMA ClaimQuiet ==
    ASSUME ClaimBooks, LoanTyped', UNCHANGED <<held, totalDeposited, rewardPool, escrow, vesting, insuranceFund, forfeited, unfunded>>,
           escrowPeriod' \in Nat, vestingPeriod' \in Nat, accrued' \in [Users -> Nat], window' \in [Users -> Window],
           policy' \in [Users -> Nat \cup {NoLedger}]
    PROVE  ClaimBooks'
  BY DEF ClaimBooks, ClaimTyped, kept_back, queued

\* The pool and the loans are as before.
LEMMA LoanQuiet == ASSUME LoanTyped, UNCHANGED <<base_vars, loan_vars>> PROVE LoanTyped'
  BY LoanOthersKeep DEF loans_kept

\* Periods and policies.
LEMMA ClaimSettings ==
    ASSUME ClaimBooks,
           \/ \E p \in Periods : set_vesting_period(p) \/ set_escrow_period(p)
           \/ \E u \in Claimants : purchase_insurance(u) \/ cancel_insurance(u)
    PROVE  ClaimBooks'
  <1>1. LoanTyped /\ ClaimTyped /\ Periods \subseteq Nat /\ Claimants \subseteq Users /\ MaxCoverage \in Nat
    BY ClaimAssumption DEF ClaimBooks
  <1>2. ASSUME NEW p \in Periods, set_vesting_period(p) \/ set_escrow_period(p) PROVE ClaimBooks'
    <2>1. LoanTyped'
      BY <1>1, <1>2, LoanQuiet DEF set_vesting_period, set_escrow_period
    <2>2. UNCHANGED <<held, totalDeposited, rewardPool, escrow, vesting, insuranceFund, forfeited, unfunded, accrued, window, policy>>
      BY <1>2 DEF set_vesting_period, set_escrow_period, base_vars, pool
    <2>3. escrowPeriod' \in Nat /\ vestingPeriod' \in Nat
      BY <1>1, <1>2 DEF set_vesting_period, set_escrow_period, ClaimTyped
    <2> QED BY <1>1, <2>1, <2>2, <2>3, ClaimQuiet DEF ClaimTyped
  <1>3. ASSUME NEW u \in Users, purchase_insurance(u) \/ cancel_insurance(u) PROVE ClaimBooks'
    <2>1. LoanTyped' /\ Books
      BY <1>1, <1>3, LoanQuiet DEF purchase_insurance, cancel_insurance, LoanTyped
    <2>2. UNCHANGED <<held, totalDeposited, rewardPool, escrow, vesting, insuranceFund, forfeited, unfunded, accrued, window, periods>>
      BY <1>3 DEF purchase_insurance, cancel_insurance, base_vars, pool
    <2>3. policy' \in [Users -> Nat \cup {NoLedger}]
      <3> DEFINE n == amount_of(u)
                 c == Min({n, MaxCoverage})
      <3>1. n \in Nat
        BY <2>1, AmountBound DEF Books
      <3> HIDE DEF n
      <3>2. n \in Int /\ MaxCoverage \in Int
        BY <1>1, <3>1
      <3>3. c = IF n <= MaxCoverage THEN n ELSE MaxCoverage
        BY ONLY <3>2, MinMax
      <3>4. c \in Nat
        BY <1>1, <3>1, <3>3
      <3>5. policy' = [policy EXCEPT ![u] = c] \/ policy' = [policy EXCEPT ![u] = NoLedger]
        BY <1>3 DEF purchase_insurance, cancel_insurance, n
      <3> HIDE DEF c
      <3> QED BY <1>1, <3>4, <3>5 DEF ClaimTyped
    <2> QED BY <1>1, <2>1, <2>2, <2>3, ClaimQuiet DEF ClaimTyped, periods
  <1> QED BY <1>1, <1>2, <1>3

\* Borrowing, repaying and the passing of time.
LEMMA ClaimLoans ==
    ASSUME ClaimBooks, loans_kept, UNCHANGED claim_vars
    PROVE  ClaimBooks'
  <1>1. LoanTyped' /\ ClaimTyped' /\ ClaimTyped /\ LoanTyped
    BY DEF ClaimBooks, ClaimTyped, loans_kept, claim_vars, periods
  <1>2. kept_back(escrow') = kept_back(escrow) /\ queued(vesting') = queued(vesting)
        /\ UNCHANGED <<insuranceFund, forfeited, unfunded>>
    BY DEF claim_vars
  <1> DEFINE a == held' - held   b == totalDeposited' - totalDeposited   c == rewardPool' - rewardPool
  <1>3. /\ held' \in Int /\ totalDeposited' \in Int /\ rewardPool' \in Int
        /\ held \in Int /\ totalDeposited \in Int /\ rewardPool \in Int
    BY <1>1 DEF LoanTyped, Books
  <1>4. /\ a \in Int /\ b \in Int /\ c \in Int /\ a = b + c
        /\ held' = held + a /\ totalDeposited' = totalDeposited + b /\ rewardPool' = rewardPool + c
    <2> DEFINE x == held'   y == totalDeposited'   z == rewardPool'
    <2>1. x - y - z = held - totalDeposited - rewardPool
      BY DEF loans_kept
    <2>2. x \in Int /\ y \in Int /\ z \in Int
      BY <1>3
    <2> HIDE DEF x, y, z
    <2>3. /\ x - held \in Int /\ y - totalDeposited \in Int /\ z - rewardPool \in Int
          /\ x - held = (y - totalDeposited) + (z - rewardPool)
          /\ x = held + (x - held) /\ y = totalDeposited + (y - totalDeposited) /\ z = rewardPool + (z - rewardPool)
      BY ONLY <1>3, <2>1, <2>2
    <2> QED BY <2>3 DEF x, y, z
  <1> DEFINE k == kept_back(escrow)   q == queued(vesting)
  <1>5. /\ insuranceFund' = insuranceFund + 0 /\ forfeited' = forfeited + 0 /\ unfunded' = unfunded + 0
        /\ kept_back(escrow') = k + 0 /\ queued(vesting') = q + 0
    <2>1. insuranceFund \in Int /\ forfeited \in Int /\ unfunded \in Int /\ k \in Int /\ q \in Int
      BY <1>1, ClaimNumbers
    <2> HIDE DEF k, q
    <2>2. insuranceFund = insuranceFund + 0 /\ forfeited = forfeited + 0 /\ unfunded = unfunded + 0 /\ k = k + 0 /\ q = q + 0
      BY ONLY <2>1
    <2> QED BY <1>2, <2>2 DEF k, q
  <1> HIDE DEF a, b, c
  <1>6. a + 0 = b + c + 0 + 0 + 0 + 0 /\ 0 \in Int
    BY ONLY <1>4
  <1>20. /\ held \in Int /\ totalDeposited \in Nat /\ rewardPool \in Nat /\ insuranceFund \in Nat
         /\ forfeited \in Nat /\ unfunded \in Nat /\ kept_back(escrow) \in Nat /\ queued(vesting) \in Nat
    BY ClaimNumbers DEF ClaimBooks
  <1>21. books_move
    BY ONLY <1>20, <1>4, <1>5, <1>6 DEF books_move
  <1> QED BY <1>1, <1>21, ClaimBalance

\* The admin's promise adds nothing that was paid for.
LEMMA ScheduleKeeps ==
    ASSUME ClaimBooks, NEW u \in Users, NEW n \in Nat, schedule_vesting(u, n)
    PROVE  ClaimBooks'
  <1> DEFINE x == [amount |-> n, at |-> now, funded |-> FALSE]
  <1>1. LoanTyped /\ ClaimTyped /\ now \in Int /\ vesting \in [Users -> Entries]
    BY DEF ClaimBooks, LoanTyped, Books, ClaimTyped
  <1>2. x \in Entry /\ ~x.funded
    BY <1>1 DEF Entry
  <1>3. push_back(u, x)
    BY DEF schedule_vesting
  <1>4. UNCHANGED <<held, totalDeposited, rewardPool, insuranceFund, forfeited, unfunded, accrued, window, periods, policy, escrow>>
    BY DEF schedule_vesting, base_vars, pool
  <1>5. LoanTyped'
    BY <1>1, LoanQuiet DEF schedule_vesting
  <1> HIDE DEF x
  <1>6. vesting' \in [Users -> Entries] /\ queued(vesting') = queued(vesting) + 0
    BY <1>1, <1>2, <1>3, PushBack
  <1>7. ClaimTyped'
    BY <1>1, <1>4, <1>6 DEF ClaimTyped, periods
  <1>8. queued(vesting') = queued(vesting)
    <2>1. queued(vesting) \in Nat
      BY <1>1, QueuedNat
    <2> QED BY <1>6, <2>1
  <1> QED BY <1>4, <1>5, <1>7, <1>8 DEF ClaimBooks, kept_back

\* The matured entries leave the queue: what is paid is what was funded, and the rest of it
\* what was only promised.
LEMMA MaturedLeave ==
    ASSUME NEW e \in Entries, NEW D \in SUBSET Places, NEW P, P = {i \in D : ~e[i].funded},
           NEW d, d = [i \in Places |-> IF i \in D THEN NoEntry ELSE e[i]]
    PROVE  /\ d \in Entries /\ total_of(e, D) \in Nat /\ total_of(e, P) \in Nat
           /\ total_of(d, funded_in(d)) - total_of(e, funded_in(e)) = total_of(e, P) - total_of(e, D)
  <1>1. d \in Entries
    BY PlacesFinite DEF Entries
  <1> DEFINE F == funded_in(e)
             G == funded_in(d)
             H == D \ P
  <1>2. /\ F \in SUBSET Places /\ G \in SUBSET Places /\ H \in SUBSET Places /\ P \in SUBSET Places
        /\ H \cap P = {} /\ H \cup P = D
    BY DEF funded_in
  <1>3. G \cap H = {} /\ G \cup H = F /\ \A i \in G : d[i] = e[i]
    BY PlacesFinite DEF funded_in, Entries
  <1>4. total_of(e, H \cup P) = total_of(e, H) + total_of(e, P)
    BY <1>2, TotalSplit
  <1>5. total_of(e, G \cup H) = total_of(e, G) + total_of(e, H)
    BY <1>2, <1>3, TotalSplit
  <1>6. total_of(d, G) = total_of(e, G)
    BY <1>1, <1>2, <1>3, TotalSame
  <1>7. total_of(e, D) = total_of(e, H \cup P) /\ total_of(e, F) = total_of(e, G \cup H)
    BY <1>2, <1>3
  <1>8. /\ total_of(e, D) \in Nat /\ total_of(e, P) \in Nat /\ total_of(e, H) \in Nat /\ total_of(e, G) \in Nat
        /\ total_of(e, F) \in Nat
    BY <1>2, TotalNat
  <1> DEFINE tD == total_of(e, D)   tP == total_of(e, P)   tH == total_of(e, H)   tG == total_of(e, G)
             tF == total_of(e, F)   t == total_of(d, G)
  <1>9. /\ tD \in Int /\ tP \in Int /\ tH \in Int /\ tG \in Int /\ tF \in Int
        /\ tD = tH + tP /\ tF = tG + tH /\ t = tG
    BY <1>4, <1>5, <1>6, <1>7, <1>8
  <1> HIDE DEF tD, tP, tH, tG, tF, t
  <1>10. t - tF = tP - tD
    BY ONLY <1>9
  <1> QED BY <1>1, <1>8, <1>10 DEF t, tF, tP, tD

\* Vested rewards are paid.
LEMMA WithdrawVestedKeeps ==
    ASSUME ClaimBooks, NEW u \in Users, withdraw_vested(u)
    PROVE  ClaimBooks'
  <1> DEFINE e == vesting[u]
             D == matured(u)
             P == promised_to(u)
             d == [i \in Places |-> IF i \in D THEN NoEntry ELSE vesting[u][i]]
             paid == total_of(vesting[u], D)
             free == total_of(vesting[u], P)
  <1>1. /\ LoanTyped /\ ClaimTyped /\ Books /\ vesting \in [Users -> Entries] /\ u \in Accounts
        /\ wallet \in [Accounts -> Nat] /\ held \in Int /\ unfunded \in Nat
    BY DEF ClaimBooks, LoanTyped, Books, ClaimTyped, Accounts
  <1>2. e \in Entries /\ D \in SUBSET Places /\ P = {i \in D : ~e[i].funded}
    BY <1>1 DEF matured, promised_to
  <1>3. /\ vesting' = [vesting EXCEPT ![u] = d] /\ push(u, paid) /\ unfunded' = unfunded + free
        /\ UNCHANGED <<now, pool, rewardPool, loan_vars, periods, accrued, window, insuranceFund, policy, escrow, forfeited>>
    BY DEF withdraw_vested
  <1>4. /\ d \in Entries /\ paid \in Nat /\ free \in Nat
        /\ total_of(d, funded_in(d)) - total_of(e, funded_in(e)) = free - paid
    <2> HIDE DEF D, P
    <2>1. d = [i \in Places |-> IF i \in D THEN NoEntry ELSE e[i]]
      OBVIOUS
    <2> HIDE DEF d, e
    <2>2. /\ d \in Entries /\ total_of(e, D) \in Nat /\ total_of(e, P) \in Nat
          /\ total_of(d, funded_in(d)) - total_of(e, funded_in(e)) = total_of(e, P) - total_of(e, D)
      BY ONLY <1>2, <2>1, MaturedLeave
    <2> QED BY <2>2 DEF e
  <1> HIDE DEF d, paid, free, D, P
  <1>5. /\ vesting' \in [Users -> Entries]
        /\ queued(vesting') = queued(vesting) + total_of(d, funded_in(d)) - total_of(e, funded_in(e))
    BY <1>1, <1>3, <1>4, QueueWrite
  <1>6. queued(vesting') = queued(vesting) + (free - paid)
    <2> DEFINE s == total_of(d, funded_in(d))   t == total_of(e, funded_in(e))   q == queued(vesting)   r == queued(vesting')
    <2>1. s \in Int /\ t \in Int /\ q \in Int
      BY <1>1, <1>2, <1>4, TotalNat, QueuedNat DEF funded_in
    <2>2. s - t = free - paid /\ r = q + s - t /\ free \in Int /\ paid \in Int
      BY <1>4, <1>5
    <2> HIDE DEF s, t, q, r, e
    <2>3. r = q + (free - paid)
      BY ONLY <2>1, <2>2
    <2> QED BY <2>3 DEF r, q
  <1>7. wallet' \in [Accounts -> Nat] /\ held' \in Int /\ held' = held - paid
    BY <1>1, <1>3, <1>4, PushTyped
  <1>8. Books' /\ LoanTyped'
    <2>1. Books'
      BY <1>1, <1>3, <1>7 DEF Books, pool
    <2> QED BY <1>1, <1>3, <2>1 DEF LoanTyped, loan_vars
  <1>9. ClaimTyped'
    BY <1>1, <1>3, <1>4, <1>5 DEF ClaimTyped, periods
  <1> DEFINE k == kept_back(escrow)   m == 0 - paid   h == free - paid
  <1>10. /\ held' = held + m /\ totalDeposited' = totalDeposited + 0 /\ rewardPool' = rewardPool + 0
         /\ insuranceFund' = insuranceFund + 0 /\ forfeited' = forfeited + 0 /\ unfunded' = unfunded + free
         /\ kept_back(escrow') = k + 0 /\ queued(vesting') = queued(vesting) + h
    <2>1. totalDeposited \in Int /\ rewardPool \in Int /\ insuranceFund \in Int /\ forfeited \in Int /\ k \in Int
      BY <1>1, ClaimNumbers
    <2>2. kept_back(escrow') = k /\ UNCHANGED <<totalDeposited, rewardPool, insuranceFund, forfeited>>
      BY <1>3 DEF pool
    <2> HIDE DEF k
    <2> QED BY <1>1, <1>3, <1>4, <1>6, <1>7, <2>1, <2>2
  <1>11. /\ m \in Int /\ h \in Int /\ free \in Int /\ 0 \in Int
         /\ m + free = 0 + 0 + 0 + 0 + 0 + h
    BY ONLY <1>4
  <1> HIDE DEF m, h
  <1>20. /\ held \in Int /\ totalDeposited \in Nat /\ rewardPool \in Nat /\ insuranceFund \in Nat
         /\ forfeited \in Nat /\ unfunded \in Nat /\ kept_back(escrow) \in Nat /\ queued(vesting) \in Nat
    BY ClaimNumbers DEF ClaimBooks
  <1>21. books_move
    BY ONLY <1>20, <1>10, <1>11 DEF books_move
  <1> QED BY <1>8, <1>9, <1>21, ClaimBalance

\* A new position starts an escrow; what an older escrow holds stays in it.
LEMMA OpenPositionKeeps ==
    ASSUME ClaimBooks, NEW u \in Users, NEW n \in Nat, open_position(u, n)
    PROVE  ClaimBooks'
  <1>1. /\ LoanTyped /\ ClaimTyped /\ Books /\ u \in Accounts /\ escrow \in [Users -> Escrow] /\ escrowPeriod \in Nat
        /\ wallet \in [Accounts -> Nat] /\ held \in Int /\ now \in Nat /\ escrow[u] \in Escrow
    BY DEF ClaimBooks, LoanTyped, Books, ClaimTyped, Accounts
  <1>2. /\ pull(u, n) /\ mint_to(u, n)
        /\ UNCHANGED <<now, rewardPool, loan_vars, periods, accrued, window, insuranceFund, policy, vesting, forfeited, unfunded>>
    BY DEF open_position
  <1>3. wallet' \in [Accounts -> Nat] /\ held' \in Int /\ held' = held + n
    BY <1>1, <1>2, PullTyped
  <1>4. /\ shares' \in [Users -> Nat] /\ totalShares' = sum(shares')
        /\ totalDeposited' \in Nat /\ totalDeposited' = totalDeposited + n
    BY <1>1, <1>2, MintKeeps
  <1>5. Books' /\ LoanTyped'
    <2>1. Books'
      BY <1>1, <1>2, <1>3, <1>4 DEF Books
    <2> QED BY <1>1, <1>2, <2>1 DEF LoanTyped, loan_vars
  <1> DEFINE x == [amount |-> escrow[u].amount, release |-> now + escrowPeriod]
  <1>6. x \in Escrow /\ x.amount = escrow[u].amount /\ escrow[u].amount \in Int
    BY <1>1 DEF Escrow
  <1>7. escrow' = escrow \/ escrow' = [escrow EXCEPT ![u] = x]
    BY DEF open_position
  <1> DEFINE k == kept_back(escrow)   l == kept_back(escrow')   q == queued(vesting)
  <1>8. escrow' \in [Users -> Escrow] /\ l = k + 0
    <2>1. k \in Int
      BY <1>1, KeptBackNat
    <2>2. CASE escrow' = escrow
      <3>1. l = k
        BY <2>2
      <3> HIDE DEF k, l
      <3> QED BY <1>1, <2>1, <2>2, <3>1
    <2>3. CASE escrow' = [escrow EXCEPT ![u] = x]
      <3> HIDE DEF x
      <3>1. escrow' \in [Users -> Escrow] /\ l = k + x.amount - escrow[u].amount
        BY <1>1, <1>6, <2>3, EscrowWrite
      <3> HIDE DEF k, l
      <3> QED BY <1>6, <2>1, <3>1
    <2> QED BY <1>7, <2>2, <2>3
  <1>9. ClaimTyped'
    BY <1>1, <1>2, <1>8 DEF ClaimTyped, periods
  <1>10. /\ rewardPool' = rewardPool + 0 /\ insuranceFund' = insuranceFund + 0 /\ forfeited' = forfeited + 0
         /\ unfunded' = unfunded + 0 /\ queued(vesting') = q + 0
    <2>1. rewardPool \in Int /\ insuranceFund \in Int /\ forfeited \in Int /\ q \in Int /\ unfunded \in Int
      BY <1>1, ClaimNumbers
    <2>2. queued(vesting') = q
      BY <1>2
    <2> HIDE DEF q
    <2> QED BY <1>2, <2>1, <2>2
  <1>11. n \in Int /\ 0 \in Int /\ n + 0 = n + 0 + 0 + 0 + 0 + 0
    OBVIOUS
  <1>20. /\ held \in Int /\ totalDeposited \in Nat /\ rewardPool \in Nat /\ insuranceFund \in Nat
         /\ forfeited \in Nat /\ unfunded \in Nat /\ kept_back(escrow) \in Nat /\ queued(vesting) \in Nat
    BY ClaimNumbers DEF ClaimBooks
  <1>21. books_move
    BY ONLY <1>20, <1>3, <1>4, <1>8, <1>10, <1>11 DEF books_move
  <1> QED BY <1>5, <1>9, <1>21, ClaimBalance

\* Leaving gives up the escrow.
LEMMA ClosePositionKeeps ==
    ASSUME ClaimBooks, NEW u \in Users, close_position(u)
    PROVE  ClaimBooks'
  <1> DEFINE n == amount_of(u)
             x == [amount |-> 0, release |-> NoLedger]
             y == escrow[u].amount
  <1>1. /\ LoanTyped /\ ClaimTyped /\ Books /\ u \in Accounts /\ escrow \in [Users -> Escrow] /\ forfeited \in Nat
        /\ wallet \in [Accounts -> Nat] /\ held \in Int /\ escrow[u] \in Escrow /\ totalDeposited \in Nat
    BY DEF ClaimBooks, LoanTyped, Books, ClaimTyped, Accounts
  <1>2. /\ push(u, n) /\ totalDeposited' = totalDeposited - n
        /\ escrow' = [escrow EXCEPT ![u] = x] /\ forfeited' = forfeited + y
        /\ UNCHANGED <<now, rewardPool, loan_vars, periods, accrued, window, insuranceFund, policy, vesting, unfunded>>
    BY DEF close_position
  <1>3. shares' \in [Users -> Nat] /\ totalShares' = sum(shares') /\ totalDeposited' \in Nat
    BY <1>1, ExitKeeps DEF close_position
  <1>4. n \in Nat /\ y \in Nat /\ x \in Escrow /\ x.amount = 0
    BY <1>1, AmountBound DEF Escrow, NoLedger
  <1> HIDE DEF n, x, y
  <1>5. wallet' \in [Accounts -> Nat] /\ held' \in Int /\ held' = held - n
    BY <1>1, <1>2, <1>4, PushTyped
  <1>6. Books' /\ LoanTyped'
    <2>1. Books'
      BY <1>1, <1>2, <1>3, <1>5 DEF Books
    <2> QED BY <1>1, <1>2, <2>1 DEF LoanTyped, loan_vars
  <1>7. escrow' \in [Users -> Escrow] /\ kept_back(escrow') = kept_back(escrow) + 0 - y
    BY <1>1, <1>2, <1>4, EscrowWrite DEF y
  <1>8. ClaimTyped'
    BY <1>1, <1>2, <1>4, <1>7 DEF ClaimTyped, periods
  <1> DEFINE m == 0 - n   z == 0 - y   k == kept_back(escrow)   l == kept_back(escrow')   q == queued(vesting)
  <1>9. /\ held' = held + m /\ totalDeposited' = totalDeposited + m /\ l = k + z
    <2>1. k \in Int
      BY <1>1, KeptBackNat
    <2>2. l = k + 0 - y
      BY <1>7
    <2> HIDE DEF k, l
    <2> QED BY <1>1, <1>2, <1>4, <1>5, <2>1, <2>2
  <1>10. /\ rewardPool' = rewardPool + 0 /\ insuranceFund' = insuranceFund + 0
         /\ unfunded' = unfunded + 0 /\ queued(vesting') = q + 0
    <2>1. rewardPool \in Int /\ insuranceFund \in Int /\ q \in Int /\ unfunded \in Int
      BY <1>1, ClaimNumbers
    <2>2. queued(vesting') = q
      BY <1>2
    <2> HIDE DEF q
    <2> QED BY <1>2, <2>1, <2>2
  <1>11. m \in Int /\ z \in Int /\ y \in Int /\ 0 \in Int /\ m + 0 = m + 0 + 0 + y + z + 0
    BY ONLY <1>4
  <1> HIDE DEF m, z
  <1>12. forfeited' = forfeited + y
    BY <1>2
  <1>20. /\ held \in Int /\ totalDeposited \in Nat /\ rewardPool \in Nat /\ insuranceFund \in Nat
         /\ forfeited \in Nat /\ unfunded \in Nat /\ kept_back(escrow) \in Nat /\ queued(vesting) \in Nat
    BY ClaimNumbers DEF ClaimBooks
  <1>21. books_move
    <2>1. held' - held = m /\ totalDeposited' - totalDeposited = m /\ l - k = z /\ forfeited' - forfeited = y
      BY ONLY <1>20, <1>9, <1>11, <1>12
    <2>2. rewardPool' - rewardPool = 0 /\ insuranceFund' - insuranceFund = 0 /\ unfunded' - unfunded = 0 /\ queued(vesting') - q = 0
      BY ONLY <1>20, <1>10
    <2>3. m + 0 = m + 0 + 0 + y + z + 0
      BY ONLY <1>11
    <2> QED BY ONLY <2>1, <2>2, <2>3 DEF books_move
  <1> QED BY <1>6, <1>8, <1>21, ClaimBalance

\* A shortfall pays every covered policy once, out of the insurance fund.
LEMMA ShortfallKeeps ==
    ASSUME ClaimBooks, NEW S \in SUBSET Users, declare_shortfall(S)
    PROVE  ClaimBooks'
  <1> DEFINE covered == {u \in S : policy[u] # NoLedger}
             f == [u \in covered |-> policy[u]]
             n == sum(f)
  <1>1. /\ LoanTyped /\ ClaimTyped /\ Books /\ policy \in [Users -> Nat \cup {NoLedger}] /\ insuranceFund \in Nat
        /\ wallet \in [Accounts -> Nat] /\ held \in Int /\ Users \subseteq Accounts
    BY DEF ClaimBooks, LoanTyped, Books, ClaimTyped, Accounts
  <1>2. /\ n <= insuranceFund
        /\ wallet' = [a \in Accounts |-> wallet[a] + IF a \in covered THEN policy[a] ELSE 0]
        /\ held' = held - n /\ insuranceFund' = insuranceFund - n
        /\ policy' = [u \in Users |-> IF u \in covered THEN NoLedger ELSE policy[u]]
        /\ UNCHANGED <<now, pool, rewardPool, loan_vars, periods, accrued, window, escrow, vesting, forfeited, unfunded>>
    BY DEF declare_shortfall
  <1>3. covered \subseteq Users /\ \A u \in covered : policy[u] \in Nat
    BY <1>1
  <1>4. IsFiniteSet(covered) /\ f \in [covered -> Nat]
    BY <1>3, FS_Subset, BaseAssumption
  <1> HIDE DEF covered, f
  <1>5. n \in Nat
    BY ONLY <1>4, SumNat
  <1> HIDE DEF n
  <1>6. wallet' \in [Accounts -> Nat]
    BY <1>1, <1>2, <1>3
  <1>7. held' \in Int /\ insuranceFund' \in Nat /\ policy' \in [Users -> Nat \cup {NoLedger}]
    BY <1>1, <1>2, <1>5
  <1>8. Books' /\ LoanTyped'
    <2>1. Books'
      BY <1>1, <1>2, <1>6, <1>7 DEF Books, pool
    <2> QED BY <1>1, <1>2, <2>1 DEF LoanTyped, loan_vars
  <1>9. ClaimTyped'
    BY <1>1, <1>2, <1>7 DEF ClaimTyped, periods
  <1> DEFINE m == 0 - n   k == kept_back(escrow)   q == queued(vesting)
  <1>10. /\ held' = held + m /\ insuranceFund' = insuranceFund + m
         /\ totalDeposited' = totalDeposited + 0 /\ rewardPool' = rewardPool + 0 /\ forfeited' = forfeited + 0
         /\ unfunded' = unfunded + 0 /\ kept_back(escrow') = k + 0 /\ queued(vesting') = q + 0
    <2>1. /\ totalDeposited \in Int /\ rewardPool \in Int /\ q \in Int /\ k \in Int /\ unfunded \in Int /\ forfeited \in Int
      BY <1>1, ClaimNumbers
    <2>2. queued(vesting') = q /\ kept_back(escrow') = k /\ UNCHANGED <<totalDeposited, rewardPool, forfeited, unfunded>>
      BY <1>2 DEF pool
    <2> HIDE DEF q, k
    <2> QED BY <1>1, <1>2, <1>5, <2>1, <2>2
  <1>11. m \in Int /\ 0 \in Int /\ m + 0 = 0 + 0 + m + 0 + 0 + 0
    BY ONLY <1>5
  <1> HIDE DEF m
  <1>20. /\ held \in Int /\ totalDeposited \in Nat /\ rewardPool \in Nat /\ insuranceFund \in Nat
         /\ forfeited \in Nat /\ unfunded \in Nat /\ kept_back(escrow) \in Nat /\ queued(vesting) \in Nat
    BY ClaimNumbers DEF ClaimBooks
  <1>21. books_move
    BY ONLY <1>20, <1>10, <1>11 DEF books_move
  <1> QED BY <1>8, <1>9, <1>21, ClaimBalance

\* A cut takes a part of the amount.
LEMMA CutBound == ASSUME NEW x \in Nat, NEW r \in 0..BPS_DENOMINATOR PROVE after_cut(x, r) \in 0..x
  <1> DEFINE s == BPS_DENOMINATOR - r
  <1>1. s \in 0..BPS_DENOMINATOR
    <2>1. BPS_DENOMINATOR \in Nat
      BY DEF BPS_DENOMINATOR
    <2> QED BY ONLY <2>1, r \in 0..BPS_DENOMINATOR
  <1>2. after_cut(x, r) = bps(x, s)
    BY DEF after_cut, bps
  <1> HIDE DEF s
  <1> QED BY <1>1, <1>2, BpsBound

\* The cap admits a part of the reward, and the window keeps its type.
LEMMA CapBound ==
    ASSUME ClaimBooks, NEW u \in Users, NEW x \in Nat
    PROVE  /\ apply_claim_cap(u, x) \in 0..x
           /\ claim_window(u).claimed \in Nat /\ claim_window(u).since \in Int
  <1>1. now \in Nat /\ window[u] \in Window /\ ClaimCap \in Nat
    BY ClaimAssumption DEF ClaimBooks, LoanTyped, Books, ClaimTyped
  <1>2. claim_window(u).claimed \in Nat /\ claim_window(u).since \in Int
    BY <1>1 DEF claim_window, Window
  <1> DEFINE d == ClaimCap - claim_window(u).claimed
             m == Max({d, 0})
             n == Min({x, m})
  <1>3. d \in Int /\ 0 \in Int /\ x \in Int
    BY <1>1, <1>2
  <1>4. apply_claim_cap(u, x) = IF ClaimCap = 0 THEN x ELSE n
    BY DEF apply_claim_cap
  <1> HIDE DEF d
  <1>5. m = IF d >= 0 THEN d ELSE 0
    BY ONLY <1>3, MinMax
  <1>6. m \in Nat /\ m \in Int
    BY <1>3, <1>5
  <1> HIDE DEF m
  <1>7. n = IF x <= m THEN x ELSE m
    BY ONLY <1>3, <1>6, MinMax
  <1>8. n \in 0..x
    BY <1>6, <1>7
  <1> HIDE DEF n
  <1> QED BY <1>2, <1>4, <1>8

\* What a claim applies to a loan leaves a loan, and no more than the debt is taken.
LEMMA ClaimSettles ==
    ASSUME LoanTyped, NEW u \in Users, NEW x \in Nat, NEW l, l = accrue_loan_interest(loans[u]),
           NEW t, t = (IF loans[u] = NoLoan THEN 0 ELSE Min({x, debt_of(l)})),
           NEW s, s = (IF x = 0 THEN loans[u] ELSE settle_loan(l, t))
    PROVE  t \in 0..x /\ s \in Loan /\ live(s, now)
  <1>1. loans[u] \in Loan /\ live(loans[u], now) /\ now \in Nat
    BY DEF LoanTyped, Books
  <1>2. l \in Loan /\ live(l, now) /\ (loans[u] = NoLoan => l = NoLoan)
    <2>1. /\ accrue_loan_interest(loans[u]) \in Loan /\ live(accrue_loan_interest(loans[u]), now)
          /\ loans[u] = NoLoan => accrue_loan_interest(loans[u]) = loans[u]
      BY <1>1, InterestAdds
    <2> QED BY <2>1
  <1>3. NoLoan \in Loan /\ NoLoan.principal = 0 /\ NoLoan.interest = 0 /\ NoLoan.at = -1 /\ live(NoLoan, now)
    BY DEF NoLoan, Loan, NoLedger, live
  <1>4. CASE loans[u] = NoLoan
    <2>1. t = 0 /\ l = NoLoan
      BY <1>2, <1>4
    <2>2. settle_loan(NoLoan, 0) \in Loan /\ live(settle_loan(NoLoan, 0), now)
      <3> DEFINE p == Min({0, NoLoan.interest})
                 q == Max({NoLoan.principal - (0 - p), 0})
                 r == [NoLoan EXCEPT !.interest = NoLoan.interest - p, !.principal = q]
      <3>1. p = 0
        <4>1. 0 \in Int
          OBVIOUS
        <4>2. Min({0, 0}) = 0
          BY ONLY <4>1, MinMax
        <4> QED BY <1>3, <4>2
      <3>2. q = 0
        <4>1. 0 \in Int
          OBVIOUS
        <4>2. Max({0, 0}) = 0
          BY ONLY <4>1, MinMax
        <4>3. NoLoan.principal - (0 - p) = 0
          BY <1>3, <3>1
        <4> QED BY <4>2, <4>3
      <3>3. settle_loan(NoLoan, 0) = IF debt_of(r) = 0 THEN NoLoan ELSE r
        BY DEF settle_loan
      <3> HIDE DEF p, q
      <3>4. r.principal = 0 /\ r.interest = 0
        BY <1>3, <3>1, <3>2 DEF NoLoan
      <3>5. debt_of(r) = 0
        BY <3>4 DEF debt_of
      <3> QED BY <1>3, <3>3, <3>5
    <2> QED BY <1>1, <2>1, <2>2
  <1>5. CASE loans[u] # NoLoan
    <2>1. l # NoLoan /\ l.at \in 0..now
      <3>1. loans[u].at \in 0..now
        BY <1>1, <1>5 DEF live
      <3>2. l = loans[u] \/ l.at = now
        BY <1>1 DEF accrue_loan_interest, Loan
      <3> QED BY <1>1, <1>3, <1>5, <3>1, <3>2
    <2> DEFINE D == debt_of(l)
    <2>2. D \in Nat
      BY <1>2 DEF debt_of, Loan
    <2>3. t = Min({x, D})
      BY <1>5
    <2>4. x \in Int /\ D \in Int
      BY <2>2
    <2> HIDE DEF D
    <2>5. t = IF x <= D THEN x ELSE D
      BY ONLY <2>3, <2>4, MinMax
    <2>6. t \in Nat /\ t <= D /\ t <= x
      BY <2>2, <2>5
    <2>7. settle_loan(l, t) \in Loan /\ live(settle_loan(l, t), now)
      <3>1. t <= debt_of(l)
        BY <2>6 DEF D
      <3> QED BY <1>2, <2>1, <2>6, <3>1, SettleBound
    <2> QED BY <1>1, <2>6, <2>7
  <1> QED BY <1>4, <1>5

\* A claim without its last branch: what the cap, the funds, the loan and the pool get of
\* the reward, and what is left of it for the staker.
claim_parts(u, reward, cut, repaid, rest) ==
    /\ reward \in Nat /\ cut \in Nat /\ repaid \in Nat /\ rest \in Nat /\ reward = cut + repaid + rest
    /\ accrued' \in [Users -> Nat] /\ window' \in [Users -> Window]
    /\ insuranceFund' = insuranceFund + cut
    /\ rewardPool' = rewardPool - reward + repaid /\ rewardPool >= reward
    /\ loans' \in [Users -> Loan] /\ \A v \in Users : live(loans'[v], now)
    /\ UNCHANGED <<now, pool, loanConfig, writtenOff, periods, policy, forfeited, unfunded>>

\* Whatever the branch, the staker's part goes into the escrow, the queue or the purse.
LEMMA ClaimBranch ==
    ASSUME ClaimBooks, NEW u \in Users, NEW reward, NEW cut, NEW repaid, NEW rest, claim_parts(u, reward, cut, repaid, rest),
           NEW paid \in Nat, NEW back \in Int, NEW later \in Int, rest = paid + back + later,
           wallet' \in [Accounts -> Nat], held' = held - paid,
           escrow' \in [Users -> Escrow], kept_back(escrow') = kept_back(escrow) + back,
           vesting' \in [Users -> Entries], queued(vesting') = queued(vesting) + later
    PROVE  ClaimBooks'
  <1>1. LoanTyped /\ ClaimTyped /\ Books
    BY DEF ClaimBooks, LoanTyped
  <1>2. /\ reward \in Nat /\ cut \in Nat /\ repaid \in Nat /\ rest \in Nat /\ reward = cut + repaid + rest
        /\ accrued' \in [Users -> Nat] /\ window' \in [Users -> Window]
        /\ insuranceFund' = insuranceFund + cut
        /\ rewardPool' = rewardPool - reward + repaid /\ rewardPool >= reward
        /\ loans' \in [Users -> Loan] /\ (\A v \in Users : live(loans'[v], now))
        /\ UNCHANGED <<now, pool, loanConfig, writtenOff, periods, policy, forfeited, unfunded>>
    BY DEF claim_parts
  <1>3. held \in Int /\ rewardPool \in Nat /\ insuranceFund \in Nat /\ totalDeposited \in Nat /\ forfeited \in Nat /\ unfunded \in Nat
    BY <1>1, ClaimNumbers
  <1>4. held' \in Int /\ rewardPool' \in Nat /\ insuranceFund' \in Nat
    BY <1>2, <1>3
  <1>5. Books'
    BY <1>1, <1>2, <1>4 DEF Books, pool
  <1>6. LoanTyped'
    BY <1>1, <1>2, <1>5 DEF LoanTyped
  <1>7. ClaimTyped'
    BY <1>1, <1>2, <1>4 DEF ClaimTyped, periods
  <1> DEFINE a == 0 - paid
             c == repaid - reward
  <1>8. /\ held' = held + a /\ totalDeposited' = totalDeposited + 0 /\ rewardPool' = rewardPool + c
        /\ forfeited' = forfeited + 0 /\ unfunded' = unfunded + 0
    BY <1>2, <1>3 DEF pool
  <1>9. /\ a \in Int /\ c \in Int /\ cut \in Int /\ 0 \in Int
        /\ a + 0 = 0 + c + cut + 0 + back + later
    BY ONLY <1>2, rest = paid + back + later, paid \in Nat, back \in Int, later \in Int
  <1>10. insuranceFund' = insuranceFund + cut
    BY <1>2
  <1> HIDE DEF a, c
  <1>20. /\ held \in Int /\ totalDeposited \in Nat /\ rewardPool \in Nat /\ insuranceFund \in Nat
         /\ forfeited \in Nat /\ unfunded \in Nat /\ kept_back(escrow) \in Nat /\ queued(vesting) \in Nat
    BY ClaimNumbers DEF ClaimBooks
  <1>21. books_move
    BY ONLY <1>20, <1>8, <1>9, <1>10, back \in Int, later \in Int,
            kept_back(escrow') = kept_back(escrow) + back, queued(vesting') = queued(vesting) + later DEF books_move
  <1> QED BY <1>6, <1>7, <1>21, ClaimBalance

\* A claim: nothing of the reward is lost or paid twice.
LEMMA DoClaimKeeps ==
    ASSUME ClaimBooks, NEW u \in Users, NEW earned \in Nat, do_claim(u, earned)
    PROVE  ClaimBooks'
  <1> DEFINE whole  == accrued[u] + earned
             reward == apply_claim_cap(u, whole)
             net    == after_cut(reward, InsuranceRate)
             safe   == IF policy[u] = NoLedger THEN net ELSE after_cut(net, PremiumRate)
             l      == accrue_loan_interest(loans[u])
             toLoan == IF loans[u] = NoLoan THEN 0 ELSE Min({safe, debt_of(l)})
             mine   == safe - toLoan
             barred == escrow[u].release # NoLedger /\ now < escrow[u].release
             payout == mine + escrow[u].amount
             tally  == [claimed |-> claim_window(u).claimed + reward, since |-> claim_window(u).since]
             after  == IF safe = 0 THEN loans[u] ELSE settle_loan(l, toLoan)
             cut    == reward - safe
             taken  ==
                /\ reward > 0
                /\ rewardPool >= reward
                /\ accrued' = [accrued EXCEPT ![u] = whole - reward]
                /\ window' = IF ClaimCap = 0 THEN window ELSE [window EXCEPT ![u] = tally]
                /\ insuranceFund' = insuranceFund + reward - safe
                /\ loans' = [loans EXCEPT ![u] = after]
                /\ rewardPool' = rewardPool - reward + toLoan
                /\ UNCHANGED <<now, pool, loanConfig, writtenOff, periods, policy, forfeited, unfunded>>
             gone   == [amount |-> 0, release |-> NoLedger]
             heldBack   == [amount |-> payout, release |-> escrow[u].release]
             entry  == [amount |-> payout, at |-> now + vestingPeriod, funded |-> TRUE]
  <1>1. /\ LoanTyped /\ ClaimTyped /\ Books /\ u \in Accounts /\ now \in Nat /\ vestingPeriod \in Nat
        /\ accrued \in [Users -> Nat] /\ window \in [Users -> Window] /\ loans \in [Users -> Loan]
        /\ escrow \in [Users -> Escrow] /\ vesting \in [Users -> Entries] /\ policy \in [Users -> Nat \cup {NoLedger}]
        /\ wallet \in [Accounts -> Nat] /\ held \in Int /\ \A v \in Users : live(loans[v], now)
    BY DEF ClaimBooks, LoanTyped, ClaimTyped, Books, Accounts
  <1>2. \/ /\ reward = 0 /\ accrued' = [accrued EXCEPT ![u] = whole]
           /\ UNCHANGED <<base_vars, loan_vars, periods, window, insuranceFund, policy, escrow, vesting, forfeited, unfunded>>
        \/ taken /\ barred /\ escrow' = [escrow EXCEPT ![u] = heldBack] /\ UNCHANGED <<wallet, held, vesting>>
        \/ /\ taken /\ push_back(u, entry)
           /\ escrow' = [escrow EXCEPT ![u] = gone] /\ UNCHANGED <<wallet, held>>
        \/ taken /\ push(u, payout) /\ escrow' = [escrow EXCEPT ![u] = gone] /\ UNCHANGED vesting
    BY ZenonT(40) DEF do_claim
  <1>3. whole \in Nat
    BY <1>1
  <1> HIDE DEF whole
  <1>4. /\ reward \in 0..whole /\ claim_window(u).claimed \in Nat /\ claim_window(u).since \in Int
    BY <1>3, CapBound
  <1>5. reward \in Nat /\ whole - reward \in Nat /\ tally \in Window
    <2>1. reward \in Nat /\ whole - reward \in Nat
      BY <1>3, <1>4
    <2> HIDE DEF reward
    <2> QED BY <1>4, <2>1 DEF Window
  <1> HIDE DEF reward, tally
  <1>6. net \in 0..reward
    BY <1>5, ClaimAssumption, CutBound
  <1>7. safe \in 0..reward
    <2>1. net \in Nat
      BY <1>5, <1>6
    <2> HIDE DEF net
    <2>2. after_cut(net, PremiumRate) \in 0..net
      BY <2>1, ClaimAssumption, CutBound
    <2> QED BY <1>5, <1>6, <2>1, <2>2
  <1> HIDE DEF net, safe
  <1>8. safe \in Nat /\ cut \in Nat
    BY <1>5, <1>7
  <1>9. toLoan \in 0..safe /\ after \in Loan /\ live(after, now)
    BY <1>1, <1>8, ClaimSettles
  <1> HIDE DEF l, toLoan, after
  <1>10. toLoan \in Nat /\ mine \in Nat /\ reward = cut + toLoan + mine
    BY <1>5, <1>8, <1>9
  <1> HIDE DEF mine
  <1>11. escrow[u].amount \in Nat /\ payout \in Nat /\ escrow[u].release \in Int
    <2>1. escrow[u].amount \in Nat /\ escrow[u].release \in Int
      BY <1>1 DEF Escrow
    <2> QED BY <1>10, <2>1
  <1> DEFINE was == escrow[u].amount
  <1>12. payout = mine + was /\ was \in Int
    BY <1>11
  <1> HIDE DEF payout
  <1>13. heldBack \in Escrow /\ heldBack.amount = payout /\ gone \in Escrow /\ gone.amount = 0
    BY <1>11 DEF Escrow, NoLedger
  <1>14. entry \in Entry /\ entry.amount = payout /\ entry.funded
    BY <1>1, <1>11 DEF Entry
  <1>15. ASSUME taken PROVE claim_parts(u, reward, cut, toLoan, mine)
    <2>1. accrued' \in [Users -> Nat] /\ window' \in [Users -> Window]
      BY <1>1, <1>5, <1>15
    <2>2. loans' \in [Users -> Loan] /\ \A v \in Users : live(loans'[v], now)
      BY <1>1, <1>9, <1>15
    <2>3. insuranceFund' = insuranceFund + cut
      <3>1. insuranceFund \in Int /\ reward \in Int /\ safe \in Int
        BY <1>1, <1>5, <1>8, ClaimNumbers
      <3> QED BY <1>15, <3>1
    <2>4. /\ rewardPool' = rewardPool - reward + toLoan /\ rewardPool >= reward
          /\ UNCHANGED <<now, pool, loanConfig, writtenOff, periods, policy, forfeited, unfunded>>
      BY <1>15
    <2> HIDE DEF cut
    <2> QED BY <1>5, <1>8, <1>10, <2>1, <2>2, <2>3, <2>4 DEF claim_parts
  <1> DEFINE k == kept_back(escrow)   q == queued(vesting)   k1 == kept_back(escrow')   q1 == queued(vesting')
  <1>16. k \in Int /\ q \in Int
    BY <1>1, KeptBackNat, QueuedNat
  <1>17. ASSUME escrow' = [escrow EXCEPT ![u] = gone]
         PROVE  escrow' \in [Users -> Escrow] /\ k1 = k + (0 - was)
    <2> HIDE DEF gone
    <2>1. escrow' \in [Users -> Escrow] /\ k1 = k + gone.amount - escrow[u].amount
      BY <1>1, <1>13, <1>17, EscrowWrite
    <2>2. gone.amount = 0 /\ escrow[u].amount = was
      BY <1>13
    <2> HIDE DEF k, k1, was
    <2> QED BY <1>12, <1>16, <2>1, <2>2
  <1>18. CASE /\ reward = 0 /\ accrued' = [accrued EXCEPT ![u] = whole]
              /\ UNCHANGED <<base_vars, loan_vars, periods, window, insuranceFund, policy, escrow, vesting, forfeited, unfunded>>
    <2>1. LoanTyped'
      BY <1>1, <1>18, LoanQuiet
    <2>2. accrued' \in [Users -> Nat]
      BY <1>1, <1>3, <1>18
    <2>3. UNCHANGED <<held, totalDeposited, rewardPool, escrow, vesting, insuranceFund, forfeited, unfunded, periods, window, policy>>
      BY <1>18 DEF base_vars, pool
    <2> QED BY <1>1, <2>1, <2>2, <2>3, ClaimQuiet DEF ClaimTyped, periods
  <1>19. CASE taken /\ barred /\ escrow' = [escrow EXCEPT ![u] = heldBack] /\ UNCHANGED <<wallet, held, vesting>>
    <2>1. claim_parts(u, reward, cut, toLoan, mine)
      BY <1>15, <1>19
    <2>2. escrow' \in [Users -> Escrow] /\ k1 = k + mine
      <3> HIDE DEF heldBack
      <3>1. escrow' \in [Users -> Escrow] /\ k1 = k + heldBack.amount - escrow[u].amount
        BY <1>1, <1>13, <1>19, EscrowWrite
      <3>2. heldBack.amount = payout /\ escrow[u].amount = was /\ payout \in Int /\ mine \in Int
        BY <1>10, <1>11, <1>13
      <3> HIDE DEF k, k1, was
      <3> QED BY <1>12, <1>16, <3>1, <3>2
    <2>3. wallet' \in [Accounts -> Nat] /\ held' = held - 0 /\ vesting' \in [Users -> Entries] /\ q1 = q + 0
      <3>1. q1 = q
        BY <1>19
      <3> HIDE DEF q, q1
      <3> QED BY <1>1, <1>16, <1>19, <3>1
    <2>4. 0 \in Nat /\ 0 \in Int /\ mine \in Int /\ mine = 0 + mine + 0
      BY <1>10
    <2> HIDE DEF cut, taken, barred
    <2> QED BY <2>1, <2>2, <2>3, <2>4, ClaimBranch
  <1>20. CASE taken /\ push_back(u, entry) /\ escrow' = [escrow EXCEPT ![u] = gone] /\ UNCHANGED <<wallet, held>>
    <2>1. claim_parts(u, reward, cut, toLoan, mine)
      BY <1>15, <1>20
    <2>2. escrow' \in [Users -> Escrow] /\ k1 = k + (0 - was)
      BY <1>17, <1>20
    <2>3. vesting' \in [Users -> Entries] /\ q1 = q + payout
      <3> HIDE DEF entry
      <3> QED BY <1>1, <1>14, <1>20, PushBack
    <2>4. wallet' \in [Accounts -> Nat] /\ held' = held - 0
      BY <1>1, <1>20
    <2>5. 0 \in Nat /\ 0 - was \in Int /\ payout \in Int /\ mine = 0 + (0 - was) + payout
      <3> HIDE DEF was
      <3> QED BY <1>10, <1>11, <1>12
    <2> HIDE DEF cut, taken
    <2> QED BY <2>1, <2>2, <2>3, <2>4, <2>5, ClaimBranch
  <1>21. CASE taken /\ push(u, payout) /\ escrow' = [escrow EXCEPT ![u] = gone] /\ UNCHANGED vesting
    <2>1. claim_parts(u, reward, cut, toLoan, mine)
      BY <1>15, <1>21
    <2>2. escrow' \in [Users -> Escrow] /\ k1 = k + (0 - was)
      BY <1>17, <1>21
    <2>3. wallet' \in [Accounts -> Nat] /\ held' = held - payout
      BY <1>1, <1>11, <1>21, PushTyped
    <2>4. vesting' \in [Users -> Entries] /\ q1 = q + 0
      <3>1. q1 = q
        BY <1>21
      <3> HIDE DEF q, q1
      <3> QED BY <1>1, <1>16, <1>21, <3>1
    <2>5. 0 \in Int /\ 0 - was \in Int /\ payout \in Nat /\ mine = payout + (0 - was) + 0
      <3> HIDE DEF was
      <3> QED BY <1>10, <1>11, <1>12
    <2> HIDE DEF cut, taken
    <2> QED BY <2>1, <2>2, <2>3, <2>4, <2>5, ClaimBranch
  <1> QED BY <1>2, <1>18, <1>19, <1>20, <1>21

ClaimInv == focus = "claims" => ClaimBooks

\* Nothing is escrowed, queued or owed at the start.
LEMMA ClaimInvInit == ASSUME FundsInit PROVE ClaimInv
  <1>1. BaseInitWith(Purse) /\ LoanInit /\ ClaimInit /\ Purse \in Nat
    BY BaseAssumption DEF FundsInit, BaseInit
  <1>2. Books /\ held = totalDeposited + rewardPool /\ totalDeposited \in Nat /\ rewardPool \in Nat
    BY <1>1, BooksInit, BaseInitFacts
  <1>3. LoanTyped
    <2>1. NoLoan \in Loan /\ live(NoLoan, now)
      BY DEF NoLoan, Loan, live, NoLedger
    <2> QED BY <1>1, <1>2, <2>1 DEF LoanTyped, LoanInit
  <1> DEFINE x == [amount |-> 0, release |-> NoLedger]
             e == [i \in Places |-> NoEntry]
             w == [claimed |-> 0, since |-> NoLedger]
  <1>4. x \in Escrow /\ x.amount = 0 /\ w \in Window
    BY DEF Escrow, Window, NoLedger
  <1>5. e \in Entries /\ funded_in(e) = {}
    BY PlacesFinite DEF Entries, funded_in
  <1>6. total_of(e, funded_in(e)) = 0
    <2> DEFINE f == [i \in Places |-> e[i].amount]
    <2>1. sum_over(f, {}) = 0
      BY SumEmpty
    <2> HIDE DEF e
    <2> QED BY <1>5, <2>1 DEF total_of
  <1>7. /\ escrow \in [Users -> Escrow] /\ (\A u \in Users : escrow[u].amount = 0)
    <2> HIDE DEF x
    <2> QED BY <1>1, <1>4 DEF ClaimInit, EscrowInit, x
  <1>8. vesting \in [Users -> Entries] /\ \A u \in Users : total_of(vesting[u], funded_in(vesting[u])) = 0
    <2>1. vesting = [u \in Users |-> e]
      BY <1>1 DEF ClaimInit, VestingInit
    <2> HIDE DEF e
    <2> QED BY <1>5, <1>6, <2>1
  <1>9. kept_back(escrow) = 0 /\ queued(vesting) = 0
    <2> DEFINE f == [u \in Users |-> escrow[u].amount]
               g == [u \in Users |-> total_of(vesting[u], funded_in(vesting[u]))]
    <2>1. /\ IsFiniteSet(Users) /\ f \in [Users -> Int] /\ g \in [Users -> Int]
          /\ (\A u \in Users : f[u] = 0) /\ \A u \in Users : g[u] = 0
      BY <1>7, <1>8, BaseAssumption
    <2> HIDE DEF f, g
    <2>2. sum(f) = 0 /\ sum(g) = 0
      BY ONLY <2>1, SumZero
    <2> QED BY <2>2 DEF f, g, kept_back, queued
  <1>10. ClaimTyped
    <2>1. window \in [Users -> Window] /\ accrued \in [Users -> Nat] /\ policy \in [Users -> Nat \cup {NoLedger}]
      <3> HIDE DEF w
      <3> QED BY <1>1, <1>4 DEF ClaimInit, WindowInit, InsuranceInit, w
    <2>2. escrowPeriod = 0 /\ vestingPeriod = 0 /\ insuranceFund = 0 /\ forfeited = 0 /\ unfunded = 0
      BY <1>1 DEF ClaimInit, EscrowInit, VestingInit, InsuranceInit
    <2> QED BY <1>7, <1>8, <2>1, <2>2 DEF ClaimTyped
  <1>11. insuranceFund = 0 /\ forfeited = 0 /\ unfunded = 0
    BY <1>1 DEF ClaimInit, InsuranceInit
  <1>12. held + unfunded = totalDeposited + rewardPool + insuranceFund + forfeited + kept_back(escrow) + queued(vesting)
    BY <1>2, <1>9, <1>11
  <1> QED BY <1>3, <1>10, <1>12 DEF ClaimInv, ClaimBooks

\* Every step keeps the books of the claims.
LEMMA ClaimInvStep == ASSUME ClaimInv, [FundsNext]_funds_vars PROVE ClaimInv'
  <1>1. CASE focus # "claims"
    BY <1>1 DEF ClaimInv, FundsNext, funds_vars
  <1>2. CASE focus = "claims"
    <2>1. ClaimBooks /\ LoanTyped /\ (ClaimNext \/ UNCHANGED <<base_vars, loan_vars, claim_vars>>)
      BY <1>2, ClaimStep DEF ClaimInv, ClaimBooks
    <2>2. Claimants \subseteq Users /\ ClaimAmounts \subseteq Nat /\ Earnings \subseteq Nat
      BY ClaimAssumption
    <2> SUFFICES ClaimBooks'
      BY DEF ClaimInv
    <2>3. CASE UNCHANGED <<base_vars, loan_vars, claim_vars>>
      BY <2>1, <2>3, LoanOthersKeep, ClaimLoans
    <2>4. CASE \E u \in Claimants, e \in Earnings : do_claim(u, e)
      BY <2>1, <2>2, <2>4, DoClaimKeeps
    <2>5. CASE \E u \in Claimants, a \in ClaimAmounts : schedule_vesting(u, a) \/ open_position(u, a)
      BY <2>1, <2>2, <2>5, ScheduleKeeps, OpenPositionKeeps
    <2>6. CASE \E u \in Claimants : withdraw_vested(u) \/ close_position(u)
      BY <2>1, <2>2, <2>6, WithdrawVestedKeeps, ClosePositionKeeps
    <2>7. CASE \E a \in SUBSET Claimants \ {{}} : declare_shortfall(a)
      <3>1. PICK a \in SUBSET Claimants : declare_shortfall(a)
        BY <2>7
      <3>2. a \in SUBSET Users
        BY <2>2
      <3> QED BY <2>1, <3>1, <3>2, ShortfallKeeps
    <2>8. CASE (\E u \in Claimants, a \in ClaimAmounts : borrow(u, a) \/ repay(u, a)) /\ UNCHANGED claim_vars
      <3>1. loans_kept
        BY <2>1, <2>2, <2>8, BorrowKeeps, RepayKeeps
      <3> QED BY <2>1, <2>8, <3>1, ClaimLoans
    <2>9. CASE (\E c \in LoanConfigs : set_loan_config(c)) /\ UNCHANGED claim_vars
      BY <2>1, <2>9, LoanOthersKeep, ClaimLoans
    <2>10. CASE tick /\ UNCHANGED <<wallet, held, pool, rewardPool, loan_vars, claim_vars>>
      <3>1. tick /\ UNCHANGED <<wallet, held, pool, rewardPool, loan_vars>> /\ UNCHANGED claim_vars
        BY <2>10
      <3> QED BY <2>1, <3>1, LoanOthersKeep, ClaimLoans
    <2>11. CASE \/ \E p \in Periods : set_vesting_period(p) \/ set_escrow_period(p)
                \/ \E u \in Claimants : purchase_insurance(u) \/ cancel_insurance(u)
      BY <2>1, <2>11, ClaimSettings
    <2> QED BY <2>1, <2>3, <2>4, <2>5, <2>6, <2>7, <2>8, <2>9, <2>10, <2>11 DEF ClaimNext
  <1> QED BY <1>1, <1>2

\* Claims: whatever the cap, the cuts of insurance and policy, a loan, an escrow and the
\* vesting queue make of a reward, at any rates, periods and queue lengths, the tokens held
\* are principal, pool, funds, escrows and funded entries: no part of a claim is dropped,
\* and none is paid twice.
THEOREM ClaimsArePaidOnce == FundsSpec => []ClaimsPaidOnce
  <1>1. ClaimInv => ClaimsPaidOnce
    BY DEF ClaimInv, ClaimBooks, ClaimsPaidOnce, claims_balanced, kept_back, queued, funded_in
  <1>2. ClaimInv /\ [FundsNext]_funds_vars => ClaimInv'
    BY ClaimInvStep
  <1> QED BY <1>1, <1>2, ClaimInvInit, PTL DEF FundsSpec, funds_vars

-------------------------------------------------------------------------------
(* Sub-pools and meta-staking. *)

\* In the focus of the sub-pools only their own entry points run.
LEMMA SubStep ==
    ASSUME focus \in {"subpools", "rebalance", "meta"}, [FundsNext]_funds_vars
    PROVE  /\ UNCHANGED focus
           /\ \/ SubPoolNext \/ RebalanceNext \/ MetaNext \/ SubTick
              \/ UNCHANGED <<base_vars, sub_vars>>
  BY DEF FundsNext, funds_vars, capacity_step, market_step, contest_step, campaign_step, claim_step,
         subpool_step, position_step, outside_step, ballot_step, safeguard_step, wind_step, shared_step

SubPool     == [rate : Nat, total : Nat, cap : Nat, bounds : Int \X Int]
SubPosition == [pos : Nat, since : Nat, accrued : Nat]
SubIds      == 1..MaxSubPools
SubKeys     == SubStakers \X SubIds
Rebalance   == [max : Nat, cooldown : Nat, last : Nat, keeper : BOOLEAN, capacity : Int]
Meta        == [rate : Nat, total : Nat, user : [SubStakers -> SubPosition], paid : Nat, changes : Nat,
                owed : [SubKeys -> Nat]]

\* What the positions of a sub-pool, and all of meta-staking, come to; totals and capacities.
in_pool(S, id) == sum([u \in SubStakers |-> S[<<u, id>>].pos])
meta_in(M)     == sum([u \in SubStakers |-> M[u].pos])
totals(P)      == sum([id \in DOMAIN P |-> P[id].total])
capacities(P)  == sum([id \in DOMAIN P |-> P[id].cap])

pools_agree(P, S) ==
    /\ P \in Seq(SubPool) /\ Len(P) <= MaxSubPools /\ S \in [SubKeys -> SubPosition]
    /\ \A id \in DOMAIN P : P[id].total = in_pool(S, id)

\* A position's reward in units of a year's basis points: settled, and running since then.
sub_year == BPS_DENOMINATOR * SubYear
running(s, r, t) == s.accrued * sub_year + (s.pos * r) * (t - s.since)

\* No more than what it was owed ledger by ledger, and exactly that without rounding.
fair(s, r, t, owed) == running(s, r, t) <= owed /\ (r % sub_year = 0 => running(s, r, t) = owed)

\* A rewritten sub-pool and a rewritten position, and what each makes of the sums.
pool_written(P, id, p, Q) == Q = [P EXCEPT ![id] = p]
position_written(S, u, id, s, T) == T = [S EXCEPT ![<<u, id>>] = s]

sums_of_pools(P, id, p, Q) ==
    /\ Q \in Seq(SubPool) /\ DOMAIN Q = DOMAIN P /\ Len(Q) = Len(P) /\ Q[id] = p
    /\ \A j \in DOMAIN P \ {id} : Q[j] = P[j]
    /\ totals(P) \in Int /\ totals(Q) = totals(P) + p.total - P[id].total
    /\ capacities(P) \in Int /\ capacities(Q) = capacities(P) + p.cap - P[id].cap

sums_of_positions(S, u, id, s, T) ==
    /\ T \in [SubKeys -> SubPosition] /\ T[<<u, id>>] = s
    /\ \A x \in SubKeys \ {<<u, id>>} : T[x] = S[x]
    /\ in_pool(T, id) = in_pool(S, id) + s.pos - S[<<u, id>>].pos
    /\ \A j \in SubIds \ {id} : in_pool(T, j) = in_pool(S, j)

\* The ids of the sub-pools are keys of the positions.
LEMMA SubKey ==
    ASSUME NEW P \in Seq(SubPool), Len(P) <= MaxSubPools, NEW u \in SubStakers, NEW id \in DOMAIN P
    PROVE  id \in SubIds /\ <<u, id>> \in SubKeys /\ P[id] \in SubPool /\ DOMAIN P = 1..Len(P)
  BY SubAssumption DEF SubIds, SubKeys

\* Finite sets of stakers and of sub-pools.
LEMMA SubFinite ==
    /\ IsFiniteSet(SubStakers)
    /\ \A P \in Seq(SubPool) : IsFiniteSet(DOMAIN P)
  <1>1. IsFiniteSet(SubStakers)
    BY SubAssumption, BaseAssumption, FS_Subset
  <1>2. ASSUME NEW P \in Seq(SubPool) PROVE IsFiniteSet(DOMAIN P)
    <2>1. DOMAIN P = 1..Len(P) /\ 1 \in Int /\ Len(P) \in Int
      OBVIOUS
    <2> QED BY ONLY <2>1, FS_Interval
  <1> QED BY <1>1, <1>2

\* The sums are natural numbers, and a position is part of its sub-pool.
LEMMA InPoolNat ==
    ASSUME NEW S \in [SubKeys -> SubPosition], NEW id \in SubIds
    PROVE  in_pool(S, id) \in Nat /\ \A u \in SubStakers : S[<<u, id>>].pos <= in_pool(S, id)
  <1> DEFINE f == [u \in SubStakers |-> S[<<u, id>>].pos]
  <1>1. \A x \in SubPosition : x.pos \in Nat
    BY DEF SubPosition
  <1>2. \A u \in SubStakers : S[<<u, id>>] \in SubPosition
    BY DEF SubKeys
  <1>3. f \in [SubStakers -> Nat] /\ IsFiniteSet(SubStakers)
    BY <1>1, <1>2, SubFinite
  <1>4. \A u \in SubStakers : f[u] = S[<<u, id>>].pos
    OBVIOUS
  <1>5. in_pool(S, id) = sum(f)
    BY DEF in_pool
  <1> HIDE DEF f
  <1>6. sum(f) \in Nat
    BY ONLY <1>3, SumNat
  <1>7. \A u \in SubStakers : f[u] <= sum(f)
    BY ONLY <1>3, SumBound
  <1> QED BY <1>4, <1>5, <1>6, <1>7

\* One position changes: so does the sum of its sub-pool, and no other.
LEMMA InPoolChange ==
    ASSUME NEW S \in [SubKeys -> SubPosition], NEW u \in SubStakers, NEW id \in SubIds, NEW s \in SubPosition,
           NEW T, position_written(S, u, id, s, T)
    PROVE  sums_of_positions(S, u, id, s, T)
  <1>1. /\ <<u, id>> \in SubKeys /\ T \in [SubKeys -> SubPosition] /\ T[<<u, id>>] = s
        /\ \A x \in SubKeys \ {<<u, id>>} : T[x] = S[x]
    BY DEF SubKeys, position_written
  <1>2. \A v \in SubStakers, j \in SubIds : <<v, j>> # <<u, id>> => T[<<v, j>>] = S[<<v, j>>]
    BY <1>1 DEF SubKeys
  <1>3. \A x \in SubPosition : x.pos \in Int
    BY DEF SubPosition
  <1>4. \A v \in SubStakers, j \in SubIds : S[<<v, j>>] \in SubPosition /\ T[<<v, j>>] \in SubPosition
    BY <1>1 DEF SubKeys
  <1>5. in_pool(T, id) = in_pool(S, id) + s.pos - S[<<u, id>>].pos
    <2> DEFINE f == [v \in SubStakers |-> S[<<v, id>>].pos]
               g == [v \in SubStakers |-> T[<<v, id>>].pos]
    <2>1. f \in [SubStakers -> Int] /\ g \in [SubStakers -> Int] /\ IsFiniteSet(SubStakers)
      BY <1>3, <1>4, SubFinite
    <2>2. g[u] = s.pos /\ f[u] = S[<<u, id>>].pos
      BY <1>1
    <2>3. \A v \in SubStakers \ {u} : g[v] = f[v]
      BY <1>2
    <2>4. in_pool(S, id) = sum(f) /\ in_pool(T, id) = sum(g)
      BY DEF in_pool
    <2> HIDE DEF f, g
    <2>5. sum(g) = sum(f) + g[u] - f[u]
      BY ONLY <2>1, <2>3, SumChange, u \in SubStakers
    <2> QED BY <2>2, <2>4, <2>5
  <1>6. ASSUME NEW j \in SubIds \ {id} PROVE in_pool(T, j) = in_pool(S, j)
    <2> DEFINE f == [v \in SubStakers |-> S[<<v, j>>].pos]
               g == [v \in SubStakers |-> T[<<v, j>>].pos]
    <2>1. \A v \in SubStakers : T[<<v, j>>] = S[<<v, j>>]
      BY <1>2, <1>6
    <2>2. f = g
      BY <2>1
    <2> QED BY <2>2 DEF in_pool
  <1> QED BY <1>1, <1>5, <1>6 DEF sums_of_positions

\* One sub-pool is rewritten: totals and capacities change by the difference.
LEMMA PoolWrite ==
    ASSUME NEW P \in Seq(SubPool), NEW id \in DOMAIN P, NEW p \in SubPool, NEW Q, pool_written(P, id, p, Q)
    PROVE  sums_of_pools(P, id, p, Q)
  <1>1. /\ Q \in Seq(SubPool) /\ DOMAIN Q = DOMAIN P /\ Len(Q) = Len(P) /\ Q[id] = p
        /\ \A j \in DOMAIN P \ {id} : Q[j] = P[j]
    BY DEF pool_written
  <1>2. \A x \in SubPool : x.total \in Int /\ x.cap \in Int
    BY DEF SubPool
  <1>3. \A j \in DOMAIN P : P[j] \in SubPool /\ Q[j] \in SubPool
    BY <1>1
  <1> DEFINE D == DOMAIN P
             f == [j \in D |-> P[j].total]
             g == [j \in D |-> Q[j].total]
             h == [j \in D |-> P[j].cap]
             k == [j \in D |-> Q[j].cap]
  <1>4. IsFiniteSet(D) /\ id \in D
    BY SubFinite
  <1>5. f \in [D -> Int] /\ g \in [D -> Int] /\ h \in [D -> Int] /\ k \in [D -> Int]
    BY <1>2, <1>3
  <1>6. /\ g[id] = p.total /\ f[id] = P[id].total /\ k[id] = p.cap /\ h[id] = P[id].cap
        /\ \A j \in D \ {id} : g[j] = f[j]
        /\ \A j \in D \ {id} : k[j] = h[j]
    BY <1>1
  <1>7. totals(P) = sum(f) /\ totals(Q) = sum(g) /\ capacities(P) = sum(h) /\ capacities(Q) = sum(k)
    BY <1>1 DEF totals, capacities
  <1> HIDE DEF f, g, h, k, D
  <1>8. sum(g) = sum(f) + g[id] - f[id]
    <2>1. IsFiniteSet(D) /\ id \in D /\ f \in [D -> Int] /\ g \in [D -> Int] /\ \A j \in D \ {id} : g[j] = f[j]
      BY ONLY <1>4, <1>5, <1>6
    <2> QED BY ONLY <2>1, SumChange
  <1>9. sum(k) = sum(h) + k[id] - h[id]
    <2>1. IsFiniteSet(D) /\ id \in D /\ h \in [D -> Int] /\ k \in [D -> Int] /\ \A j \in D \ {id} : k[j] = h[j]
      BY ONLY <1>4, <1>5, <1>6
    <2> QED BY ONLY <2>1, SumChange
  <1>10. sum(f) \in Int /\ sum(h) \in Int
    BY ONLY <1>4, <1>5, SumType
  <1> QED BY <1>1, <1>6, <1>7, <1>8, <1>9, <1>10 DEF sums_of_pools

\* A position and its sub-pool change by the same amount.
LEMMA OneResize ==
    ASSUME NEW P, NEW S, pools_agree(P, S), NEW u \in SubStakers, NEW id \in DOMAIN P, NEW a \in Int,
           NEW s \in SubPosition, s.pos = S[<<u, id>>].pos + a,
           NEW p \in SubPool, p.total = P[id].total + a,
           NEW Q, pool_written(P, id, p, Q), NEW T, position_written(S, u, id, s, T)
    PROVE  pools_agree(Q, T) /\ totals(P) \in Int /\ totals(Q) = totals(P) + a
  <1>1. P \in Seq(SubPool) /\ Len(P) <= MaxSubPools /\ S \in [SubKeys -> SubPosition]
    BY DEF pools_agree
  <1>2. \A j \in DOMAIN P : j \in SubIds /\ P[j] \in SubPool
    BY <1>1, SubKey
  <1>3. S[<<u, id>>] \in SubPosition
    BY <1>1, <1>2 DEF SubKeys
  <1>4. S[<<u, id>>].pos \in Int /\ P[id].total \in Int
    BY <1>2, <1>3 DEF SubPosition, SubPool
  <1>5. sums_of_pools(P, id, p, Q)
    BY <1>1, PoolWrite
  <1>6. sums_of_positions(S, u, id, s, T)
    BY <1>1, <1>2, InPoolChange
  <1>7. in_pool(S, id) \in Int /\ in_pool(S, id) = P[id].total
    BY <1>1, <1>2, InPoolNat DEF pools_agree
  <1>8. Q[id].total = in_pool(T, id)
    <2> DEFINE x == in_pool(S, id)   y == in_pool(T, id)   z == S[<<u, id>>].pos
    <2>1. x \in Int /\ x = P[id].total /\ y = x + s.pos - z /\ s.pos = z + a /\ z \in Int
      BY <1>4, <1>6, <1>7 DEF sums_of_positions
    <2> HIDE DEF x, y, z
    <2>2. y = x + a
      BY <2>1
    <2>3. Q[id] = p
      BY <1>5 DEF sums_of_pools
    <2> QED BY <2>1, <2>2, <2>3 DEF y
  <1>9. DOMAIN Q = DOMAIN P /\ \A j \in DOMAIN Q \ {id} : Q[j].total = in_pool(T, j)
    BY <1>2, <1>5, <1>6 DEF pools_agree, sums_of_pools, sums_of_positions
  <1>10. pools_agree(Q, T)
    BY <1>1, <1>5, <1>6, <1>8, <1>9 DEF pools_agree, sums_of_pools, sums_of_positions
  <1>11. totals(P) \in Int /\ totals(Q) = totals(P) + a
    BY <1>4, <1>5 DEF sums_of_pools
  <1> QED BY <1>10, <1>11

\* The deposits fit the capacities; no checkpoint lies ahead; ids not yet given are blank.
within(P)          == \A id \in DOMAIN P : P[id].total <= P[id].cap
stamped(S, t)      == \A x \in DOMAIN S : S[x].since <= t
blank(P, S, O)     == \A u \in SubStakers, id \in SubIds : id \notin DOMAIN P => S[<<u, id>>] = Untouched /\ O[<<u, id>>] = 0
all_fair(P, S, O, t) == \A u \in SubStakers, id \in DOMAIN P : fair(S[<<u, id>>], P[id].rate, t, O[<<u, id>>])

\* The books of the sub-pools and of meta-staking, of any values of the variables.
sub_books(P, S, R, M, t) ==
    /\ pools_agree(P, S) /\ within(P) /\ stamped(S, t)
    /\ R \in Rebalance /\ capacities(P) = R.capacity
    /\ M \in Meta /\ M.total = meta_in(M.user) /\ stamped(M.user, t)
    /\ blank(P, S, M.owed) /\ (M.changes = 0 => all_fair(P, S, M.owed, t))

SubBooks ==
    /\ Books /\ sub_books(sub, stakes, rebalance, meta, now)
    /\ held = totalDeposited + rewardPool + meta.total - meta.paid + totals(sub)

\* The year is not empty.
LEMMA SubYearNat == sub_year \in Nat \ {0}
  BY SubAssumption, MulPositive DEF sub_year, BPS_DENOMINATOR

\* The reward since the checkpoint, in units of a year's basis points, rounded down.
LEMMA InterestFair ==
    ASSUME now \in Nat, NEW pos \in Nat, NEW r \in Nat, NEW since \in Nat, since <= now
    PROVE  /\ interest(pos, r, since) \in Nat
           /\ interest(pos, r, since) * sub_year <= (pos * r) * (now - since)
           /\ r % sub_year = 0 => interest(pos, r, since) * sub_year = (pos * r) * (now - since)
  <1> DEFINE d == sub_year
             t == now - since
             x == pos * r * t
             i == interest(pos, r, since)
  <1>1. d \in Nat \ {0} /\ t \in Nat /\ pos * r \in Nat
    BY SubYearNat, MulNat
  <1>2. x \in Nat
    BY <1>1, MulNat
  <1>3. i = IF pos > 0 /\ r > 0 /\ now > since THEN x \div d ELSE 0
    BY DEF interest, sub_year
  <1>4. CASE pos > 0 /\ r > 0 /\ now > since
    <2>1. i = x \div d
      BY <1>3, <1>4
    <2>2. x \div d \in Nat /\ d * (x \div d) <= x
      BY <1>1, <1>2, DivNat
    <2>3. ASSUME r % d = 0 PROVE (x \div d) * d = x
      <3> DEFINE q == r \div d
                 z == pos * q * t
      <3>1. d \in Nat \ {0} /\ t \in Nat /\ pos \in Nat /\ r \in Nat
        BY <1>1
      <3> HIDE DEF d, t
      <3>2. q \in Nat /\ r = d * q
        BY <2>3, <3>1
      <3> HIDE DEF q
      <3>3. z \in Nat
        BY <3>1, <3>2
      <3>4. pos * (d * q) * t = (pos * q * t) * d
        BY <3>1, <3>2
      <3>5. x = z * d
        BY <3>2, <3>4
      <3> HIDE DEF x, z
      <3>6. (z * d) \div d = z
        BY <3>1, <3>3
      <3> QED BY <3>5, <3>6
    <2> HIDE DEF d, x, i
    <2>4. i \in Nat /\ i * d <= x /\ (r % d = 0 => i * d = x)
      BY <1>1, <2>1, <2>2, <2>3
    <2> QED BY <2>4 DEF d, x, i
  <1>5. CASE pos = 0 \/ r = 0 \/ now = since
    <2>1. x = 0
      BY <1>5
    <2>2. i = 0
      BY <1>3, <1>5
    <2>3. i * d = 0
      BY <1>1, <2>2
    <2> QED BY <2>1, <2>2, <2>3
  <1> QED BY <1>4, <1>5

\* A position settled now is as fair as it was, whatever is added to it.
LEMMA SettledFair ==
    ASSUME now \in Nat, NEW s \in SubPosition, s.since <= now, NEW r \in Nat, NEW owed \in Nat, fair(s, r, now, owed),
           NEW n \in SubPosition, n.since = now, n.accrued = s.accrued + interest(s.pos, r, s.since)
    PROVE  fair(n, r, now, owed)
  <1>1. s.pos \in Nat /\ s.since \in Nat /\ s.accrued \in Nat /\ n.pos \in Nat
    BY DEF SubPosition
  <1> DEFINE i == interest(s.pos, r, s.since)
             x == (s.pos * r) * (now - s.since)
             y == sub_year
             c == s.accrued
  <1>2. i \in Nat /\ i * y <= x /\ (r % y = 0 => i * y = x)
    <2> DEFINE p == s.pos   q == s.since
    <2>1. now \in Nat /\ p \in Nat /\ r \in Nat /\ q \in Nat /\ q <= now
      BY <1>1
    <2> HIDE DEF p, q
    <2>2. /\ interest(p, r, q) \in Nat
          /\ interest(p, r, q) * y <= (p * r) * (now - q)
          /\ r % y = 0 => interest(p, r, q) * y = (p * r) * (now - q)
      BY ONLY <2>1, InterestFair
    <2> QED BY <2>2 DEF p, q
  <1>3. x \in Nat /\ y \in Nat /\ c \in Nat
    BY <1>1, SubYearNat, MulNat
  <1>4. running(s, r, now) = c * y + x
    BY DEF running
  <1>5. running(n, r, now) = (c + i) * y
    <2>1. now - now = 0 /\ n.pos * r \in Nat
      BY <1>1, MulNat
    <2>2. running(n, r, now) = n.accrued * y + (n.pos * r) * (now - n.since)
      BY DEF running
    <2>3. n.accrued = c + i /\ n.since = now
      OBVIOUS
    <2> HIDE DEF c, i, y
    <2>4. (n.pos * r) * (now - n.since) = 0
      BY <2>1, <2>3
    <2>5. (c + i) * y \in Nat
      BY <1>2, <1>3
    <2> QED BY <2>2, <2>3, <2>4, <2>5
  <1> HIDE DEF i, x, y, c
  <1>6. (c + i) * y = c * y + i * y /\ c * y \in Nat /\ i * y \in Nat
    BY <1>2, <1>3
  <1>7. c * y + x <= owed /\ (r % y = 0 => c * y + x = owed)
    BY <1>4 DEF fair, y
  <1>8. (c + i) * y <= owed /\ (r % y = 0 => (c + i) * y = owed)
    BY <1>2, <1>3, <1>6, <1>7
  <1> QED BY <1>5, <1>8 DEF fair, y

\* One position and its sub-pool are resized, the position settled at t: the books stay in order.
LEMMA ResizeKeeps ==
    ASSUME NEW P, NEW S, NEW R, NEW M, NEW t \in Nat, sub_books(P, S, R, M, t),
           NEW u \in SubStakers, NEW id \in DOMAIN P, NEW a \in Int,
           NEW s \in SubPosition, s.pos = S[<<u, id>>].pos + a, s.since = t,
           NEW p \in SubPool, p.total = P[id].total + a, p.cap = P[id].cap, p.rate = P[id].rate, p.total <= p.cap,
           M.changes = 0 => fair(s, P[id].rate, t, M.owed[<<u, id>>]),
           NEW Q, pool_written(P, id, p, Q), NEW T, position_written(S, u, id, s, T)
    PROVE  /\ sub_books(Q, T, R, M, t) /\ totals(P) \in Int /\ totals(Q) = totals(P) + a
           /\ sums_of_pools(P, id, p, Q) /\ sums_of_positions(S, u, id, s, T)
  <1>1. pools_agree(P, S) /\ within(P) /\ stamped(S, t) /\ capacities(P) = R.capacity /\ blank(P, S, M.owed)
    BY DEF sub_books
  <1>2. P \in Seq(SubPool) /\ Len(P) <= MaxSubPools /\ S \in [SubKeys -> SubPosition]
    BY <1>1 DEF pools_agree
  <1>3. \A j \in DOMAIN P : j \in SubIds /\ P[j] \in SubPool
    BY <1>2, SubKey
  <1>4. sums_of_pools(P, id, p, Q)
    BY <1>2, PoolWrite
  <1>5. sums_of_positions(S, u, id, s, T)
    BY <1>2, <1>3, InPoolChange
  <1>6. pools_agree(Q, T) /\ totals(P) \in Int /\ totals(Q) = totals(P) + a
    BY <1>1, OneResize
  <1>7. DOMAIN Q = DOMAIN P /\ Q[id] = p /\ \A j \in DOMAIN P \ {id} : Q[j] = P[j]
    BY <1>4 DEF sums_of_pools
  <1>8. T \in [SubKeys -> SubPosition] /\ T[<<u, id>>] = s /\ \A x \in SubKeys \ {<<u, id>>} : T[x] = S[x]
    BY <1>5 DEF sums_of_positions
  <1>9. within(Q)
    BY <1>1, <1>7 DEF within
  <1>10. stamped(T, t)
    <2>1. DOMAIN S = SubKeys /\ DOMAIN T = SubKeys
      BY <1>2, <1>8
    <2> QED BY <1>1, <1>8, <2>1 DEF stamped
  <1>11. capacities(Q) = capacities(P)
    <2>1. P[id].cap \in Int
      BY <1>3 DEF SubPool
    <2> QED BY <1>4, <2>1 DEF sums_of_pools
  <1>12. blank(Q, T, M.owed)
    <2> SUFFICES ASSUME NEW v \in SubStakers, NEW j \in SubIds, j \notin DOMAIN Q
                 PROVE  T[<<v, j>>] = Untouched /\ M.owed[<<v, j>>] = 0
      BY DEF blank
    <2>1. <<v, j>> \in SubKeys /\ <<v, j>> # <<u, id>> /\ j \notin DOMAIN P
      BY <1>7 DEF SubKeys
    <2> QED BY <1>1, <1>8, <2>1 DEF blank
  <1>13. ASSUME M.changes = 0 PROVE all_fair(Q, T, M.owed, t)
    <2> SUFFICES ASSUME NEW v \in SubStakers, NEW j \in DOMAIN Q
                 PROVE  fair(T[<<v, j>>], Q[j].rate, t, M.owed[<<v, j>>])
      BY DEF all_fair
    <2>1. fair(s, P[id].rate, t, M.owed[<<u, id>>]) /\ all_fair(P, S, M.owed, t)
      BY <1>13 DEF sub_books
    <2>2. Q[j].rate = P[j].rate /\ j \in DOMAIN P
      BY <1>7
    <2>3. CASE <<v, j>> = <<u, id>>
      BY <1>8, <2>1, <2>2, <2>3
    <2>4. CASE <<v, j>> # <<u, id>>
      <3>1. T[<<v, j>>] = S[<<v, j>>]
        BY <1>3, <1>8, <2>2, <2>4 DEF SubKeys
      <3>2. fair(S[<<v, j>>], P[j].rate, t, M.owed[<<v, j>>])
        BY <2>1, <2>2 DEF all_fair
      <3> QED BY <2>2, <3>1, <3>2
    <2> QED BY <2>3, <2>4
  <1>14. R \in Rebalance /\ M \in Meta /\ M.total = meta_in(M.user) /\ stamped(M.user, t)
    BY DEF sub_books
  <1>15. sub_books(Q, T, R, M, t)
    BY <1>1, <1>6, <1>9, <1>10, <1>11, <1>12, <1>13, <1>14 DEF sub_books
  <1> QED BY <1>4, <1>5, <1>6, <1>15

\* What the books say of the variables.
LEMMA SubFacts ==
    ASSUME SubBooks
    PROVE  /\ sub_books(sub, stakes, rebalance, meta, now) /\ now \in Nat
           /\ sub \in Seq(SubPool) /\ Len(sub) <= MaxSubPools /\ stakes \in [SubKeys -> SubPosition]
           /\ \A id \in DOMAIN sub : id \in SubIds /\ sub[id] \in SubPool
           /\ \A u \in SubStakers, id \in DOMAIN sub : stakes[<<u, id>>] \in SubPosition /\ stakes[<<u, id>>].since <= now
           /\ rebalance \in Rebalance /\ meta \in Meta
  <1>1. sub_books(sub, stakes, rebalance, meta, now) /\ now \in Nat
    BY DEF SubBooks, Books
  <1>2. /\ sub \in Seq(SubPool) /\ Len(sub) <= MaxSubPools /\ stakes \in [SubKeys -> SubPosition]
        /\ rebalance \in Rebalance /\ meta \in Meta /\ stamped(stakes, now)
    BY <1>1 DEF sub_books, pools_agree
  <1>3. \A id \in DOMAIN sub : id \in SubIds /\ sub[id] \in SubPool
    BY <1>2, SubAssumption DEF SubIds
  <1>4. \A u \in SubStakers, id \in DOMAIN sub : <<u, id>> \in SubKeys
    BY <1>3 DEF SubKeys
  <1> QED BY <1>1, <1>2, <1>3, <1>4 DEF stamped

\* A resized sub-pool is one.
LEMMA ResizedPool ==
    ASSUME SubBooks, NEW id \in DOMAIN sub, NEW a \in Int, sub[id].total + a >= 0
    PROVE  /\ resized(id, a) \in SubPool /\ resized(id, a).total = sub[id].total + a
           /\ resized(id, a).cap = sub[id].cap /\ resized(id, a).rate = sub[id].rate
           /\ sub[id].total \in Nat /\ sub[id].cap \in Nat /\ sub[id].total <= sub[id].cap
  <1>1. sub[id] \in SubPool
    BY SubFacts
  <1>2. sub[id].total \in Nat /\ sub[id].cap \in Nat
    BY <1>1 DEF SubPool
  <1>3. sub[id].total + a \in Nat
    BY <1>2
  <1>4. /\ resized(id, a) \in SubPool /\ resized(id, a).total = sub[id].total + a
        /\ resized(id, a).cap = sub[id].cap /\ resized(id, a).rate = sub[id].rate
    BY <1>1, <1>3 DEF resized, SubPool
  <1>5. within(sub)
    BY DEF SubBooks, sub_books
  <1> QED BY <1>2, <1>4, <1>5 DEF within

\* A settled position is one, and as fair as before.
LEMMA SettledPosition ==
    ASSUME SubBooks, NEW u \in SubStakers, NEW id \in DOMAIN sub, NEW a \in Int, stakes[<<u, id>>].pos + a >= 0
    PROVE  /\ settled_by(u, id, a) \in SubPosition /\ settled_by(u, id, a).since = now
           /\ settled_by(u, id, a).pos = stakes[<<u, id>>].pos + a
           /\ meta.changes = 0 => fair(settled_by(u, id, a), sub[id].rate, now, meta.owed[<<u, id>>])
           /\ stakes[<<u, id>>].pos \in Nat /\ stakes[<<u, id>>].pos <= sub[id].total
  <1> DEFINE s == stakes[<<u, id>>]
             r == sub[id].rate
             i == interest(s.pos, r, s.since)
             m == settle_sub_pool_rewards(u, id)
             n == settled_by(u, id, a)
             o == meta.owed[<<u, id>>]
  <1>1. s \in SubPosition /\ s.since <= now /\ sub[id] \in SubPool /\ now \in Nat /\ id \in SubIds
    BY SubFacts
  <1>2. s.pos \in Nat /\ s.since \in Nat /\ s.accrued \in Nat /\ r \in Nat
    BY <1>1 DEF SubPosition, SubPool
  <1>3. o \in Nat
    BY <1>1, SubFacts DEF Meta, SubKeys
  <1>4. i \in Nat
    <2> DEFINE p == s.pos   q == s.since
    <2>1. now \in Nat /\ p \in Nat /\ r \in Nat /\ q \in Nat /\ q <= now
      BY <1>1, <1>2
    <2> HIDE DEF p, q, r
    <2>2. interest(p, r, q) \in Nat
      BY ONLY <2>1, InterestFair
    <2> QED BY <2>2 DEF p, q, r
  <1>5. m = [pos |-> s.pos, since |-> now, accrued |-> s.accrued + i]
    BY DEF settle_sub_pool_rewards
  <1>6. n = [pos |-> s.pos + a, since |-> now, accrued |-> s.accrued + i]
    BY <1>5 DEF settled_by
  <1>7. s.pos + a \in Nat /\ s.accrued + i \in Nat
    BY <1>2, <1>4
  <1>8. n \in SubPosition /\ n.since = now /\ n.pos = s.pos + a /\ n.accrued = s.accrued + i
    BY <1>1, <1>6, <1>7 DEF SubPosition
  <1>9. ASSUME meta.changes = 0 PROVE fair(n, r, now, o)
    <2>1. all_fair(sub, stakes, meta.owed, now)
      BY <1>9, SubFacts DEF sub_books
    <2>2. fair(s, r, now, o)
      BY <2>1 DEF all_fair
    <2>3. n.accrued = s.accrued + interest(s.pos, r, s.since)
      BY <1>8
    <2> HIDE DEF s, r, n, o, i
    <2> QED BY <1>1, <1>2, <1>3, <1>8, <2>2, <2>3, SettledFair
  <1>10. s.pos <= sub[id].total
    <2>1. pools_agree(sub, stakes) /\ stakes \in [SubKeys -> SubPosition]
      BY SubFacts DEF sub_books
    <2> QED BY <1>1, <2>1, InPoolNat DEF pools_agree
  <1> QED BY <1>2, <1>8, <1>9, <1>10

\* Tokens come in for a sub-pool or for meta-staking, or go out.
LEMMA SubTransfer ==
    ASSUME Books, NEW u \in SubStakers, NEW a \in Nat, UNCHANGED <<now, pool, rewardPool>>
    PROVE  /\ pull(u, a) => Books' /\ held' = held + a
           /\ push(u, a) => Books' /\ held' = held - a
  <1>1. u \in Accounts
    BY SubAssumption DEF Accounts
  <1>2. wallet \in [Accounts -> Nat] /\ held \in Int
    BY DEF Books
  <1>3. pull(u, a) => wallet' \in [Accounts -> Nat] /\ held' \in Int /\ held' = held + a
    BY <1>1, <1>2, PullTyped
  <1>4. push(u, a) => wallet' \in [Accounts -> Nat] /\ held' \in Int /\ held' = held - a
    BY <1>1, <1>2, PushTyped
  <1> QED BY <1>3, <1>4 DEF Books, pool

\* Where the tokens moved with the books, the balance stays.
LEMMA SubClose ==
    ASSUME SubBooks, Books', sub_books(sub', stakes', rebalance', meta', now'),
           NEW a \in Int, NEW b \in Int, NEW c \in Int, totals(sub) \in Int, totals(sub') = totals(sub) + a,
           meta'.total = meta.total + b, meta'.paid = meta.paid + c, held' = held + a + b - c,
           UNCHANGED <<totalDeposited, rewardPool>>
    PROVE  SubBooks'
  <1> DEFINE x == held   y == held'   w == totals(sub)   z == totals(sub')
             e == meta.total   d == meta.paid   f == meta'.total   g == meta'.paid
             t == totalDeposited
  <1>1. /\ x = t + rewardPool + e - d + w /\ y = x + a + b - c /\ z = w + a /\ w \in Int
        /\ f = e + b /\ g = d + c /\ t \in Int /\ rewardPool \in Int
    BY DEF SubBooks, Books
  <1>2. e \in Int /\ d \in Int
    BY SubFacts DEF Meta
  <1>3. totalDeposited' = t /\ rewardPool' = rewardPool
    OBVIOUS
  <1> HIDE DEF x, y, z, w, e, d, f, g, t
  <1>4. y = t + rewardPool + f - g + z
    BY ONLY <1>1, <1>2, a \in Int, b \in Int, c \in Int
  <1>5. (held = totalDeposited + rewardPool + meta.total - meta.paid + totals(sub))'
    BY <1>3, <1>4 DEF y, f, g, z
  <1> QED BY <1>5 DEF SubBooks

\* The same, meta-staking left alone.
LEMMA SubCloseAlone ==
    ASSUME SubBooks, Books', sub_books(sub', stakes', rebalance', meta, now'),
           NEW a \in Int, totals(sub) \in Int, totals(sub') = totals(sub) + a, held' = held + a,
           UNCHANGED <<meta, totalDeposited, rewardPool>>
    PROVE  SubBooks'
  <1>1. meta.total \in Int /\ meta.paid \in Int
    BY SubFacts DEF Meta
  <1>2. 0 \in Int /\ meta'.total = meta.total + 0 /\ meta'.paid = meta.paid + 0 /\ meta' = meta
    BY <1>1
  <1>3. held' = held + a + 0 - 0
    <2>1. held \in Int
      BY DEF SubBooks, Books
    <2> QED BY <2>1
  <1> QED BY <1>2, <1>3, SubClose

\* stake_into_sub_pool adds the same amount to the position, the sub-pool and the contract.
LEMMA SubStakeKeeps ==
    ASSUME SubBooks, NEW u \in SubStakers, NEW id \in DOMAIN sub, NEW a \in Nat, stake_into_sub_pool(u, id, a)
    PROVE  SubBooks'
  <1> DEFINE p == resized(id, a)
             s == settled_by(u, id, a)
  <1>1. /\ sub[id].total + a <= sub[id].cap /\ pull(u, a)
        /\ sub' = [sub EXCEPT ![id] = p] /\ stakes' = [stakes EXCEPT ![<<u, id>>] = s]
        /\ UNCHANGED <<now, pool, rewardPool, rebalance, meta>>
    BY DEF stake_into_sub_pool
  <1>2. sub[id].total \in Nat /\ stakes[<<u, id>>].pos \in Nat
    <2>1. sub[id] \in SubPool /\ stakes[<<u, id>>] \in SubPosition
      BY SubFacts
    <2> QED BY <2>1 DEF SubPool, SubPosition
  <1>3. sub[id].total + a >= 0 /\ stakes[<<u, id>>].pos + a >= 0 /\ a \in Int
    BY <1>2
  <1>4. p \in SubPool /\ p.total = sub[id].total + a /\ p.cap = sub[id].cap /\ p.rate = sub[id].rate
    BY <1>3, ResizedPool
  <1>5. /\ s \in SubPosition /\ s.since = now /\ s.pos = stakes[<<u, id>>].pos + a
        /\ meta.changes = 0 => fair(s, sub[id].rate, now, meta.owed[<<u, id>>])
    BY <1>3, SettledPosition
  <1>6. sub_books(sub, stakes, rebalance, meta, now) /\ now \in Nat
    BY SubFacts
  <1>7. p.total <= p.cap /\ pool_written(sub, id, p, sub') /\ position_written(stakes, u, id, s, stakes')
    BY <1>1, <1>4 DEF pool_written, position_written
  <1> HIDE DEF p, s
  <1>8. sub_books(sub', stakes', rebalance, meta, now) /\ totals(sub) \in Int /\ totals(sub') = totals(sub) + a
    BY <1>3, <1>4, <1>5, <1>6, <1>7, ResizeKeeps
  <1>9. Books' /\ held' = held + a
    BY <1>1, SubTransfer DEF SubBooks
  <1>10. /\ meta' = meta /\ rebalance' = rebalance /\ now' = now
         /\ totalDeposited' = totalDeposited /\ rewardPool' = rewardPool
    BY <1>1 DEF pool
  <1> QED BY <1>3, <1>8, <1>9, <1>10, SubCloseAlone

\* unstake_from_sub_pool takes it from all three.
LEMMA SubUnstakeKeeps ==
    ASSUME SubBooks, NEW u \in SubStakers, NEW id \in DOMAIN sub, NEW a \in Nat, unstake_from_sub_pool(u, id, a)
    PROVE  SubBooks'
  <1> DEFINE b == -a
             p == resized(id, b)
             s == settled_by(u, id, b)
  <1>1. /\ stakes[<<u, id>>].pos >= a /\ push(u, a)
        /\ sub' = [sub EXCEPT ![id] = p] /\ stakes' = [stakes EXCEPT ![<<u, id>>] = s]
        /\ UNCHANGED <<now, pool, rewardPool, rebalance, meta>>
    BY DEF unstake_from_sub_pool
  <1>2. b \in Int /\ \A x \in Int : x + b = x - a
    OBVIOUS
  <1>3. stakes[<<u, id>>] \in SubPosition /\ sub[id] \in SubPool
    BY SubFacts
  <1>4. stakes[<<u, id>>].pos \in Nat /\ sub[id].total \in Nat
    BY <1>3 DEF SubPosition, SubPool
  <1>5. stakes[<<u, id>>].pos + b >= 0
    BY <1>1, <1>4
  <1> HIDE DEF b
  <1>6. /\ s \in SubPosition /\ s.since = now /\ s.pos = stakes[<<u, id>>].pos + b
        /\ meta.changes = 0 => fair(s, sub[id].rate, now, meta.owed[<<u, id>>])
        /\ stakes[<<u, id>>].pos <= sub[id].total
    BY <1>2, <1>5, SettledPosition
  <1>7. sub[id].total + b >= 0
    BY <1>2, <1>4, <1>5, <1>6
  <1>8. /\ p \in SubPool /\ p.total = sub[id].total + b /\ p.cap = sub[id].cap /\ p.rate = sub[id].rate
        /\ sub[id].cap \in Nat /\ sub[id].total <= sub[id].cap
    BY <1>2, <1>7, ResizedPool
  <1>9. sub_books(sub, stakes, rebalance, meta, now) /\ now \in Nat
    BY SubFacts
  <1>10. p.total <= p.cap
    BY <1>2, <1>4, <1>8
  <1>11. pool_written(sub, id, p, sub') /\ position_written(stakes, u, id, s, stakes')
    BY <1>1 DEF pool_written, position_written
  <1> HIDE DEF p, s
  <1>12. sub_books(sub', stakes', rebalance, meta, now) /\ totals(sub) \in Int /\ totals(sub') = totals(sub) + b
    BY <1>2, <1>6, <1>8, <1>9, <1>10, <1>11, ResizeKeeps
  <1>13. Books' /\ held' = held - a /\ held \in Int
    BY <1>1, SubTransfer DEF SubBooks, Books
  <1>14. held' = held + b
    BY <1>2, <1>13
  <1>15. /\ meta' = meta /\ rebalance' = rebalance /\ now' = now
         /\ totalDeposited' = totalDeposited /\ rewardPool' = rewardPool
    BY <1>1 DEF pool
  <1> QED BY <1>2, <1>12, <1>13, <1>14, <1>15, SubCloseAlone

\* move_between_sub_pools is an exit and an entry; no token moves.
LEMMA SubMoveKeeps ==
    ASSUME SubBooks, NEW u \in SubStakers, NEW from \in DOMAIN sub, NEW to \in DOMAIN sub, NEW a \in Nat,
           move_between_sub_pools(u, from, to, a)
    PROVE  SubBooks'
  <1> DEFINE b == -a
             p == resized(from, b)
             s == settled_by(u, from, b)
             q == resized(to, a)
             n == settled_by(u, to, a)
             P == [sub EXCEPT ![from] = p]
             S == [stakes EXCEPT ![<<u, from>>] = s]
  <1>1. /\ from # to /\ stakes[<<u, from>>].pos >= a /\ sub[to].total + a <= sub[to].cap
        /\ sub' = [sub EXCEPT ![from] = p, ![to] = q]
        /\ stakes' = [stakes EXCEPT ![<<u, from>>] = s, ![<<u, to>>] = n]
        /\ UNCHANGED <<base_vars, rebalance, meta>>
    BY DEF move_between_sub_pools
  <1>2. b \in Int /\ a \in Int /\ \A x \in Int : x + b = x - a
    OBVIOUS
  <1>3. /\ stakes[<<u, from>>] \in SubPosition /\ sub[from] \in SubPool
        /\ stakes[<<u, to>>] \in SubPosition /\ sub[to] \in SubPool
        /\ from \in SubIds /\ to \in SubIds
        /\ sub_books(sub, stakes, rebalance, meta, now) /\ now \in Nat
        /\ sub \in Seq(SubPool) /\ stakes \in [SubKeys -> SubPosition]
    BY SubFacts
  <1>4. /\ stakes[<<u, from>>].pos \in Nat /\ sub[from].total \in Nat
        /\ stakes[<<u, to>>].pos \in Nat /\ sub[to].total \in Nat
    BY <1>3 DEF SubPosition, SubPool
  <1>5. stakes[<<u, from>>].pos + b >= 0 /\ stakes[<<u, to>>].pos + a >= 0 /\ sub[to].total + a >= 0
    BY <1>1, <1>4
  <1> HIDE DEF b
  <1>6. /\ s \in SubPosition /\ s.since = now /\ s.pos = stakes[<<u, from>>].pos + b
        /\ meta.changes = 0 => fair(s, sub[from].rate, now, meta.owed[<<u, from>>])
        /\ stakes[<<u, from>>].pos <= sub[from].total
    BY <1>2, <1>5, SettledPosition
  <1>7. sub[from].total + b >= 0
    BY <1>2, <1>4, <1>5, <1>6
  <1>8. /\ p \in SubPool /\ p.total = sub[from].total + b /\ p.cap = sub[from].cap /\ p.rate = sub[from].rate
        /\ sub[from].cap \in Nat /\ sub[from].total <= sub[from].cap
    BY <1>2, <1>7, ResizedPool
  <1>9. p.total <= p.cap
    BY <1>2, <1>4, <1>8
  <1>10. /\ n \in SubPosition /\ n.since = now /\ n.pos = stakes[<<u, to>>].pos + a
         /\ meta.changes = 0 => fair(n, sub[to].rate, now, meta.owed[<<u, to>>])
    BY <1>2, <1>5, SettledPosition
  <1>11. q \in SubPool /\ q.total = sub[to].total + a /\ q.cap = sub[to].cap /\ q.rate = sub[to].rate
    BY <1>2, <1>5, ResizedPool
  <1>12. q.total <= q.cap
    BY <1>1, <1>11
  <1> HIDE DEF p, s, q, n
  <1>13. pool_written(sub, from, p, P) /\ position_written(stakes, u, from, s, S)
    BY DEF pool_written, position_written
  <1>14. P[to] = sub[to] /\ S[<<u, to>>] = stakes[<<u, to>>] /\ DOMAIN P = DOMAIN sub
    <2>1. <<u, to>> \in SubKeys /\ <<u, to>> # <<u, from>>
      BY <1>1, <1>3 DEF SubKeys
    <2> QED BY <1>1, <1>3, <2>1
  <1>15. sub' = [P EXCEPT ![to] = q] /\ stakes' = [S EXCEPT ![<<u, to>>] = n]
    BY <1>1
  <1>16. pool_written(P, to, q, sub') /\ position_written(S, u, to, n, stakes')
    BY <1>15 DEF pool_written, position_written
  <1> HIDE DEF P, S
  <1>17. sub_books(P, S, rebalance, meta, now) /\ totals(sub) \in Int /\ totals(P) = totals(sub) + b
    <2>1. u \in SubStakers /\ from \in DOMAIN sub /\ b \in Int /\ now \in Nat
      BY <1>2, <1>3
    <2>2. sub_books(sub, stakes, rebalance, meta, now)
      BY <1>3
    <2> QED BY ONLY <1>6, <1>8, <1>9, <1>13, <2>1, <2>2, ResizeKeeps
  <1>18. /\ n.pos = S[<<u, to>>].pos + a /\ q.total = P[to].total + a /\ q.cap = P[to].cap /\ q.rate = P[to].rate
         /\ meta.changes = 0 => fair(n, P[to].rate, now, meta.owed[<<u, to>>])
         /\ to \in DOMAIN P
    BY <1>10, <1>11, <1>14
  <1>19. sub_books(sub', stakes', rebalance, meta, now) /\ totals(P) \in Int /\ totals(sub') = totals(P) + a
    <2>1. u \in SubStakers /\ a \in Int /\ now \in Nat /\ n \in SubPosition /\ n.since = now /\ q \in SubPool
      BY <1>2, <1>3, <1>10, <1>11
    <2>2. sub_books(P, S, rebalance, meta, now)
      BY <1>17
    <2> QED BY ONLY <1>12, <1>16, <1>18, <2>1, <2>2, ResizeKeeps
  <1>20. totals(sub') = totals(sub) + 0
    BY <1>2, <1>17, <1>19
  <1>21. /\ meta' = meta /\ rebalance' = rebalance /\ now' = now /\ held' = held
         /\ totalDeposited' = totalDeposited /\ rewardPool' = rewardPool /\ Books'
    BY <1>1 DEF base_vars, pool, SubBooks, Books
  <1>22. held' = held + 0 /\ 0 \in Int
    BY <1>21 DEF SubBooks, Books
  <1> QED BY <1>17, <1>19, <1>20, <1>21, <1>22, SubCloseAlone

\* A sub-pool is rewritten, its deposits left alone.
LEMMA RewriteKeeps ==
    ASSUME NEW P, NEW S, NEW R, NEW M, NEW t \in Nat, sub_books(P, S, R, M, t),
           NEW id \in DOMAIN P, NEW p \in SubPool, p.total = P[id].total, p.total <= p.cap,
           NEW Q, pool_written(P, id, p, Q),
           NEW C \in Rebalance, C.capacity = R.capacity + p.cap - P[id].cap,
           NEW N \in Meta, N.total = M.total, N.user = M.user, N.owed = M.owed,
           N.changes = 0 => M.changes = 0 /\ p.rate = P[id].rate
    PROVE  sub_books(Q, S, C, N, t) /\ totals(P) \in Int /\ totals(Q) = totals(P)
  <1>1. /\ pools_agree(P, S) /\ within(P) /\ stamped(S, t) /\ capacities(P) = R.capacity /\ blank(P, S, M.owed)
        /\ M.total = meta_in(M.user) /\ stamped(M.user, t)
    BY DEF sub_books
  <1>2. P \in Seq(SubPool) /\ Len(P) <= MaxSubPools
    BY <1>1 DEF pools_agree
  <1>3. sums_of_pools(P, id, p, Q)
    BY <1>2, PoolWrite
  <1>4. Q \in Seq(SubPool) /\ DOMAIN Q = DOMAIN P /\ Len(Q) = Len(P) /\ Q[id] = p /\ \A j \in DOMAIN P \ {id} : Q[j] = P[j]
    BY <1>3 DEF sums_of_pools
  <1>5. P[id].total \in Int
    BY <1>2 DEF SubPool
  <1>6. totals(P) \in Int /\ totals(Q) = totals(P)
    BY <1>3, <1>5 DEF sums_of_pools
  <1>7. capacities(Q) = C.capacity
    BY <1>1, <1>3 DEF sums_of_pools
  <1>8. pools_agree(Q, S)
    BY <1>1, <1>4 DEF pools_agree
  <1>9. within(Q)
    BY <1>1, <1>4 DEF within
  <1>10. blank(Q, S, N.owed)
    BY <1>1, <1>4 DEF blank
  <1>11. ASSUME N.changes = 0 PROVE all_fair(Q, S, N.owed, t)
    <2>1. all_fair(P, S, M.owed, t) /\ \A j \in DOMAIN Q : Q[j].rate = P[j].rate
      BY <1>4, <1>11 DEF sub_books
    <2> QED BY <1>4, <2>1 DEF all_fair
  <1> QED BY <1>1, <1>6, <1>7, <1>8, <1>9, <1>10, <1>11 DEF sub_books

\* Sub-pools that keep their deposits, and no token moves: the books stay in order.
LEMMA SubStill ==
    ASSUME SubBooks, UNCHANGED base_vars, sub_books(sub', stakes', rebalance', meta', now),
           totals(sub) \in Int, totals(sub') = totals(sub), meta'.total = meta.total, meta'.paid = meta.paid
    PROVE  SubBooks'
  <1>1. meta.total \in Int /\ meta.paid \in Int
    BY SubFacts DEF Meta
  <1>2. /\ now' = now /\ held' = held /\ held \in Int
        /\ totalDeposited' = totalDeposited /\ rewardPool' = rewardPool /\ Books'
    BY DEF base_vars, pool, SubBooks, Books
  <1>3. /\ totals(sub') = totals(sub) + 0 /\ held' = held + 0 + 0 - 0
        /\ meta'.total = meta.total + 0 /\ meta'.paid = meta.paid + 0 /\ 0 \in Int
    BY <1>1, <1>2
  <1> QED BY <1>2, <1>3, SubClose

\* The total of the sub-pools is an integer.
LEMMA TotalsInt == ASSUME SubBooks PROVE totals(sub) \in Int
  <1> DEFINE f == [id \in DOMAIN sub |-> sub[id].total]
             D == DOMAIN sub
  <1>1. sub \in Seq(SubPool) /\ \A id \in D : sub[id] \in SubPool
    BY SubFacts
  <1>2. \A id \in D : sub[id].total \in Int
    BY <1>1 DEF SubPool
  <1>3. IsFiniteSet(D) /\ f \in [D -> Int] /\ totals(sub) = sum(f)
    BY <1>1, <1>2, SubFinite DEF totals
  <1> HIDE DEF f, D
  <1>4. sum(f) \in Int
    BY ONLY <1>3, SumType
  <1> QED BY <1>3, <1>4

\* set_sub_pool_rate leaves the deposits alone; from now on the rates are no longer those of the start.
LEMMA SubRateKeeps ==
    ASSUME SubBooks, NEW id \in DOMAIN sub, NEW r \in SubRates, set_sub_pool_rate(id, r)
    PROVE  SubBooks'
  <1> DEFINE p == [sub[id] EXCEPT !.rate = r]
  <1>1. sub' = [sub EXCEPT ![id] = p] /\ UNCHANGED <<base_vars, stakes, rebalance>>
    BY DEF set_sub_pool_rate
  <1>2. sub[id] \in SubPool /\ r \in Nat
    BY SubFacts, SubAssumption
  <1>3. p \in SubPool /\ p.total = sub[id].total /\ p.cap = sub[id].cap /\ sub[id].cap \in Int
    BY <1>2 DEF SubPool
  <1>4. p.total <= p.cap
    BY <1>3 DEF SubBooks, sub_books, within
  <1>5. rebalance \in Rebalance /\ now \in Nat /\ sub_books(sub, stakes, rebalance, meta, now) /\ meta \in Meta
    BY SubFacts
  <1>6. rebalance.capacity = rebalance.capacity + p.cap - sub[id].cap
    <2>1. rebalance.capacity \in Int
      BY <1>5 DEF Rebalance
    <2> QED BY <1>3, <2>1
  <1>7. /\ meta' \in Meta /\ meta'.total = meta.total /\ meta'.user = meta.user /\ meta'.owed = meta.owed
        /\ meta'.paid = meta.paid /\ meta'.changes # 0
    <2> DEFINE c == meta.changes + 1
    <2>1. meta' = [meta EXCEPT !.changes = c]
      BY DEF set_sub_pool_rate
    <2>2. c \in Nat /\ c # 0
      BY <1>5 DEF Meta
    <2> HIDE DEF c
    <2> QED BY <1>5, <2>1, <2>2 DEF Meta
  <1>8. pool_written(sub, id, p, sub')
    BY <1>1 DEF pool_written
  <1> HIDE DEF p
  <1>9. sub_books(sub', stakes, rebalance, meta', now) /\ totals(sub) \in Int /\ totals(sub') = totals(sub)
    BY ONLY <1>3, <1>4, <1>5, <1>6, <1>7, <1>8, RewriteKeeps, id \in DOMAIN sub
  <1>10. stakes' = stakes /\ rebalance' = rebalance /\ UNCHANGED base_vars
    BY <1>1
  <1> QED BY <1>7, <1>9, <1>10, SubStill

\* set_sub_pool_rebalance_bounds.
LEMMA SubBoundsKeeps ==
    ASSUME SubBooks, NEW id \in DOMAIN sub, NEW b \in Bounds, set_sub_pool_rebalance_bounds(id, b[1], b[2])
    PROVE  SubBooks'
  <1> DEFINE l == <<b[1], b[2]>>
             p == [sub[id] EXCEPT !.bounds = l]
  <1>1. sub' = [sub EXCEPT ![id] = p] /\ UNCHANGED <<base_vars, stakes, rebalance, meta>>
    BY DEF set_sub_pool_rebalance_bounds
  <1>2. sub[id] \in SubPool /\ l \in Int \X Int
    BY SubFacts, SubAssumption
  <1> HIDE DEF l
  <1>3. p \in SubPool /\ p.total = sub[id].total /\ p.cap = sub[id].cap /\ p.rate = sub[id].rate /\ sub[id].cap \in Int
    BY <1>2 DEF SubPool
  <1>4. p.total <= p.cap
    BY <1>3 DEF SubBooks, sub_books, within
  <1>5. rebalance \in Rebalance /\ now \in Nat /\ sub_books(sub, stakes, rebalance, meta, now) /\ meta \in Meta
    BY SubFacts
  <1>6. rebalance.capacity = rebalance.capacity + p.cap - sub[id].cap
    <2>1. rebalance.capacity \in Int
      BY <1>5 DEF Rebalance
    <2> QED BY <1>3, <2>1
  <1>7. pool_written(sub, id, p, sub')
    BY <1>1 DEF pool_written
  <1> HIDE DEF p
  <1>8. sub_books(sub', stakes, rebalance, meta, now) /\ totals(sub) \in Int /\ totals(sub') = totals(sub)
    BY ONLY <1>3, <1>4, <1>5, <1>6, <1>7, RewriteKeeps, id \in DOMAIN sub
  <1>9. stakes' = stakes /\ rebalance' = rebalance /\ meta' = meta /\ UNCHANGED base_vars
    BY <1>1
  <1> QED BY <1>8, <1>9, SubStill

\* Keepers come and go, and the limits of a rebalancing are set: the capacity counted so far stays.
LEMMA SubSettingsKeep ==
    ASSUME SubBooks,
           register_keeper \/ deregister_keeper \/ \E l \in Limits : set_sub_pool_rebalance_limits(l[1], l[2])
    PROVE  SubBooks'
  <1>1. rebalance \in Rebalance /\ sub_books(sub, stakes, rebalance, meta, now)
    BY SubFacts
  <1>2. /\ rebalance' \in Rebalance /\ rebalance'.capacity = rebalance.capacity
        /\ UNCHANGED <<base_vars, sub, stakes, meta>>
    <2>1. CASE register_keeper
      BY <1>1, <2>1 DEF register_keeper, Rebalance
    <2>2. CASE deregister_keeper
      BY <1>1, <2>2 DEF deregister_keeper, Rebalance
    <2>3. CASE \E l \in Limits : set_sub_pool_rebalance_limits(l[1], l[2])
      <3>1. PICK l \in Limits : set_sub_pool_rebalance_limits(l[1], l[2])
        BY <2>3
      <3>2. l[1] \in Nat /\ l[2] \in Nat
        BY SubAssumption
      <3> QED BY <1>1, <3>1, <3>2 DEF set_sub_pool_rebalance_limits, Rebalance
    <2> QED BY <2>1, <2>2, <2>3
  <1>3. sub_books(sub', stakes', rebalance', meta', now)
    BY <1>1, <1>2 DEF sub_books
  <1>4. sub' = sub /\ meta' = meta /\ UNCHANGED base_vars
    BY <1>2
  <1> QED BY <1>3, <1>4, TotalsInt, SubStill

\* rebalance_sub_pool_capacity moves capacity that no deposit needs; the sum stays.
LEMMA RebalanceKeeps ==
    ASSUME SubBooks, NEW from \in DOMAIN sub, NEW to \in DOMAIN sub, NEW a \in Nat,
           rebalance_sub_pool_capacity(from, to, a)
    PROVE  SubBooks'
  <1> DEFINE b == -a
             p == recapped(from, b)
             q == recapped(to, a)
             P == [sub EXCEPT ![from] = p]
             k == rebalance.capacity + b
             C == [rebalance EXCEPT !.capacity = k]
  <1>1. /\ from # to /\ sub[from].cap - a >= sub[from].total
        /\ sub' = [sub EXCEPT ![from] = p, ![to] = q]
        /\ rebalance' = [rebalance EXCEPT !.last = now]
        /\ UNCHANGED <<base_vars, stakes, meta>>
    BY DEF rebalance_sub_pool_capacity
  <1>2. b \in Int /\ \A x \in Int : x + b = x - a
    OBVIOUS
  <1> HIDE DEF b
  <1>3. /\ sub[from] \in SubPool /\ sub[to] \in SubPool /\ sub \in Seq(SubPool)
        /\ sub_books(sub, stakes, rebalance, meta, now) /\ now \in Nat
        /\ rebalance \in Rebalance /\ meta \in Meta
    BY SubFacts
  <1>4. /\ sub[from].total \in Nat /\ sub[from].cap \in Nat /\ sub[to].total \in Nat /\ sub[to].cap \in Nat
        /\ rebalance.capacity \in Int
    BY <1>3 DEF SubPool, Rebalance
  <1>5. sub[from].cap + b \in Nat /\ sub[from].total <= sub[from].cap + b /\ sub[to].cap + a \in Nat
    BY <1>1, <1>2, <1>4
  <1>6. /\ p \in SubPool /\ p.total = sub[from].total /\ p.cap = sub[from].cap + b /\ p.rate = sub[from].rate
        /\ q \in SubPool /\ q.total = sub[to].total /\ q.cap = sub[to].cap + a /\ q.rate = sub[to].rate
    BY <1>3, <1>5 DEF recapped, SubPool
  <1>7. sub[to].total <= sub[to].cap
    BY <1>3 DEF sub_books, within
  <1>8. p.total <= p.cap /\ q.total <= q.cap
    BY <1>4, <1>5, <1>6, <1>7
  <1> HIDE DEF p, q
  <1>9. k \in Int
    BY <1>2, <1>4
  <1>10. C \in Rebalance /\ C.capacity = k
    <2> HIDE DEF k
    <2> QED BY <1>3, <1>9 DEF Rebalance
  <1>11. rebalance' \in Rebalance /\ rebalance'.capacity = rebalance.capacity
    BY <1>1, <1>3 DEF Rebalance
  <1>12. k = rebalance.capacity + p.cap - sub[from].cap
    BY <1>2, <1>4, <1>6
  <1>13. P[to] = sub[to] /\ DOMAIN P = DOMAIN sub /\ sub' = [P EXCEPT ![to] = q]
    BY <1>1, <1>3
  <1>14. pool_written(sub, from, p, P) /\ pool_written(P, to, q, sub')
    BY <1>13 DEF pool_written
  <1>15. rebalance'.capacity = C.capacity + q.cap - P[to].cap
    <2>1. rebalance.capacity = k + (sub[to].cap + a) - sub[to].cap
      BY <1>2, <1>4
    <2> QED BY <1>6, <1>10, <1>11, <1>13, <2>1
  <1> HIDE DEF P, C, k
  <1>16. C.capacity = rebalance.capacity + p.cap - sub[from].cap
    BY <1>10, <1>12
  <1>17. sub_books(P, stakes, C, meta, now) /\ totals(sub) \in Int /\ totals(P) = totals(sub)
    BY ONLY <1>3, <1>6, <1>8, <1>10, <1>14, <1>16, RewriteKeeps, from \in DOMAIN sub
  <1>18. q.total = P[to].total /\ q.rate = P[to].rate /\ to \in DOMAIN P
    BY <1>6, <1>13
  <1>19. sub_books(sub', stakes, rebalance', meta, now) /\ totals(sub') = totals(P)
    BY ONLY <1>3, <1>6, <1>8, <1>11, <1>14, <1>15, <1>17, <1>18, RewriteKeeps
  <1>20. stakes' = stakes /\ meta' = meta /\ UNCHANGED base_vars /\ totals(sub') = totals(sub)
    BY <1>1, <1>17, <1>19
  <1> QED BY <1>17, <1>19, <1>20, SubStill

\* A new sub-pool is empty, and adds its capacity.
LEMMA PoolAdded ==
    ASSUME NEW P \in Seq(SubPool), NEW p \in SubPool, NEW Q, Q = Append(P, p)
    PROVE  /\ totals(Q) = totals(P) + p.total
           /\ capacities(Q) = capacities(P) + p.cap
  <1> DEFINE n == Len(P) + 1
             D == DOMAIN P
             E == DOMAIN Q
             f == [j \in D |-> P[j].total]
             g == [j \in E |-> Q[j].total]
             h == [j \in D |-> P[j].cap]
             k == [j \in E |-> Q[j].cap]
  <1>1. /\ Q \in Seq(SubPool) /\ Q[n] = p /\ n \in E /\ n \notin D /\ D \subseteq E
        /\ \A j \in E : j \in D \/ j = n
        /\ \A j \in D : Q[j] = P[j] /\ P[j] \in SubPool
        /\ \A j \in E : Q[j] \in SubPool
    OBVIOUS
  <1>2. \A x \in SubPool : x.total \in Int /\ x.cap \in Int
    BY DEF SubPool
  <1>3. IsFiniteSet(E)
    BY <1>1, SubFinite
  <1>4. f \in [D -> Int] /\ g \in [E -> Int] /\ h \in [D -> Int] /\ k \in [E -> Int]
    BY <1>1, <1>2
  <1>5. /\ g[n] = p.total /\ k[n] = p.cap
        /\ \A j \in D : g[j] = f[j]
        /\ \A j \in D : k[j] = h[j]
    BY <1>1
  <1>6. totals(P) = sum(f) /\ totals(Q) = sum(g) /\ capacities(P) = sum(h) /\ capacities(Q) = sum(k)
    BY DEF totals, capacities
  <1>7. n \in E /\ n \notin D /\ D \subseteq E /\ \A j \in E : j \in D \/ j = n
    BY <1>1
  <1>8. \A j \in D : g[j] = f[j]
    BY <1>5
  <1>9. \A j \in D : k[j] = h[j]
    BY <1>5
  <1> HIDE DEF n, D, E, f, g, h, k
  <1>10. sum(g) = sum(f) + g[n]
    <2>1. f \in [D -> Int] /\ g \in [E -> Int]
      BY <1>4
    <2> QED BY ONLY <1>3, <1>7, <1>8, <2>1, SumExtend
  <1>11. sum(k) = sum(h) + k[n]
    <2>1. h \in [D -> Int] /\ k \in [E -> Int]
      BY <1>4
    <2> QED BY ONLY <1>3, <1>7, <1>9, <2>1, SumExtend
  <1> QED BY <1>5, <1>6, <1>10, <1>11

\* Nobody is in a sub-pool before it exists.
LEMMA BlankPool ==
    ASSUME NEW P, NEW S \in [SubKeys -> SubPosition], NEW O, blank(P, S, O), NEW id \in SubIds, id \notin DOMAIN P
    PROVE  in_pool(S, id) = 0
  <1> DEFINE f == [u \in SubStakers |-> S[<<u, id>>].pos]
  <1>1. \A u \in SubStakers : S[<<u, id>>].pos = 0
    BY DEF blank, Untouched
  <1>2. IsFiniteSet(SubStakers) /\ f \in [SubStakers -> Int] /\ \A u \in SubStakers : f[u] = 0
    BY <1>1, SubFinite
  <1>3. in_pool(S, id) = sum(f)
    BY DEF in_pool
  <1> HIDE DEF f
  <1>4. sum(f) = 0
    BY ONLY <1>2, SumZero
  <1> QED BY <1>3, <1>4

\* create_sub_pool opens an empty sub-pool whose positions were never touched.
LEMMA SubCreateKeeps ==
    ASSUME SubBooks, NEW r \in Nat, NEW c \in Nat, create_sub_pool(r, c)
    PROVE  SubBooks'
  <1> DEFINE p == [rate |-> r, total |-> 0, cap |-> c, bounds |-> NoBounds]
             n == Len(sub) + 1
             Q == Append(sub, p)
             k == rebalance.capacity + c
  <1>1. /\ Len(sub) < MaxSubPools /\ sub' = Q /\ rebalance' = [rebalance EXCEPT !.capacity = k]
        /\ UNCHANGED <<base_vars, stakes, meta>>
    BY DEF create_sub_pool
  <1>2. /\ sub_books(sub, stakes, rebalance, meta, now) /\ now \in Nat /\ sub \in Seq(SubPool)
        /\ stakes \in [SubKeys -> SubPosition] /\ rebalance \in Rebalance /\ meta \in Meta
    BY SubFacts
  <1>3. p \in SubPool /\ p.total = 0 /\ p.cap = c /\ p.rate = r
    BY DEF SubPool, NoBounds
  <1> HIDE DEF p
  <1>4. totals(Q) = totals(sub) + p.total /\ capacities(Q) = capacities(sub) + p.cap
    BY <1>2, <1>3, PoolAdded
  <1>5. /\ Q \in Seq(SubPool) /\ Len(Q) <= MaxSubPools /\ DOMAIN Q = DOMAIN sub \cup {n}
        /\ Q[n] = p /\ (\A j \in DOMAIN sub : Q[j] = sub[j]) /\ n \notin DOMAIN sub /\ n \in SubIds
    BY <1>1, <1>2, <1>3, SubAssumption DEF SubIds
  <1>6. /\ pools_agree(sub, stakes) /\ within(sub) /\ stamped(stakes, now) /\ blank(sub, stakes, meta.owed)
        /\ capacities(sub) = rebalance.capacity
        /\ meta.total = meta_in(meta.user) /\ stamped(meta.user, now)
        /\ meta.changes = 0 => all_fair(sub, stakes, meta.owed, now)
    BY <1>2 DEF sub_books
  <1>7. in_pool(stakes, n) = 0
    BY <1>2, <1>5, <1>6, BlankPool
  <1> HIDE DEF Q, n
  <1>8. pools_agree(Q, stakes)
    BY <1>2, <1>3, <1>5, <1>6, <1>7 DEF pools_agree
  <1>9. within(Q)
    BY <1>3, <1>5, <1>6 DEF within
  <1>10. blank(Q, stakes, meta.owed)
    BY <1>5, <1>6 DEF blank
  <1>11. ASSUME meta.changes = 0 PROVE all_fair(Q, stakes, meta.owed, now)
    <2> SUFFICES ASSUME NEW u \in SubStakers, NEW j \in DOMAIN Q
                 PROVE  fair(stakes[<<u, j>>], Q[j].rate, now, meta.owed[<<u, j>>])
      BY DEF all_fair
    <2>1. CASE j \in DOMAIN sub
      BY <1>5, <1>6, <1>11, <2>1 DEF all_fair
    <2>2. CASE j = n
      <3>1. stakes[<<u, n>>] = Untouched /\ meta.owed[<<u, n>>] = 0 /\ Q[n].rate = r
        BY <1>3, <1>5, <1>6 DEF blank
      <3>2. 0 * sub_year = 0 /\ 0 * r = 0 /\ 0 * (now - 0) = 0
        BY <1>2, SubYearNat
      <3>3. running(Untouched, r, now) = 0
        BY <3>2 DEF running, Untouched
      <3> QED BY <2>2, <3>1, <3>3 DEF fair
    <2> QED BY <1>5, <2>1, <2>2
  <1>12. k \in Int /\ capacities(Q) = k
    <2>1. rebalance.capacity \in Int
      BY <1>2 DEF Rebalance
    <2> QED BY <1>3, <1>4, <1>6, <2>1
  <1>13. rebalance' \in Rebalance /\ rebalance'.capacity = k
    <2> HIDE DEF k
    <2> QED BY <1>1, <1>2, <1>12 DEF Rebalance
  <1>14. sub_books(sub', stakes', rebalance', meta', now)
    <2>1. sub_books(Q, stakes, rebalance', meta, now)
      BY <1>2, <1>6, <1>8, <1>9, <1>10, <1>11, <1>12, <1>13 DEF sub_books
    <2> QED BY <1>1, <2>1
  <1>15. totals(sub) \in Int
    BY TotalsInt
  <1>16. totals(sub') = totals(sub)
    BY <1>1, <1>3, <1>4, <1>15
  <1>17. meta' = meta /\ UNCHANGED base_vars
    BY <1>1
  <1> QED BY <1>14, <1>15, <1>16, <1>17, SubStill

\* One position of meta-staking changes: so does the sum.
LEMMA MetaChange ==
    ASSUME NEW U \in [SubStakers -> SubPosition], NEW u \in SubStakers, NEW m \in SubPosition,
           NEW V, V = [U EXCEPT ![u] = m]
    PROVE  V \in [SubStakers -> SubPosition] /\ meta_in(V) = meta_in(U) + m.pos - U[u].pos
  <1> DEFINE f == [v \in SubStakers |-> U[v].pos]
             g == [v \in SubStakers |-> V[v].pos]
  <1>1. V \in [SubStakers -> SubPosition]
    OBVIOUS
  <1>2. \A x \in SubPosition : x.pos \in Int
    BY DEF SubPosition
  <1>3. f \in [SubStakers -> Int] /\ g \in [SubStakers -> Int] /\ IsFiniteSet(SubStakers)
    BY <1>1, <1>2, SubFinite
  <1>4. g[u] = m.pos /\ f[u] = U[u].pos
    OBVIOUS
  <1>5. \A v \in SubStakers \ {u} : g[v] = f[v]
    OBVIOUS
  <1>6. meta_in(U) = sum(f) /\ meta_in(V) = sum(g)
    BY DEF meta_in
  <1> HIDE DEF f, g
  <1>7. sum(g) = sum(f) + g[u] - f[u]
    BY ONLY <1>3, <1>5, SumChange, u \in SubStakers
  <1> QED BY <1>1, <1>4, <1>6, <1>7

\* accrue_meta gives a position with the same stake.
LEMMA AccruedMeta ==
    ASSUME SubBooks, NEW u \in SubStakers
    PROVE  /\ accrue_meta(u) \in SubPosition /\ accrue_meta(u).pos = meta.user[u].pos
           /\ accrue_meta(u).since <= now /\ meta.user[u].pos \in Nat
           /\ meta.user \in [SubStakers -> SubPosition]
  <1> DEFINE m == meta.user[u]
             i == interest(m.pos, meta.rate, m.since)
             c == m.accrued + i
  <1>1. meta \in Meta /\ now \in Nat /\ stamped(meta.user, now)
    BY SubFacts DEF sub_books
  <1>2. meta.user \in [SubStakers -> SubPosition] /\ meta.rate \in Nat
    BY <1>1 DEF Meta
  <1>3. m \in SubPosition /\ m.since <= now
    BY <1>1, <1>2 DEF stamped
  <1>4. m.pos \in Nat /\ m.since \in Nat /\ m.accrued \in Nat
    BY <1>3 DEF SubPosition
  <1>5. i \in Nat
    <2> DEFINE p == m.pos   q == m.since   r == meta.rate
    <2>1. now \in Nat /\ p \in Nat /\ r \in Nat /\ q \in Nat /\ q <= now
      BY <1>1, <1>2, <1>3, <1>4
    <2> HIDE DEF p, q, r
    <2>2. interest(p, r, q) \in Nat
      BY ONLY <2>1, InterestFair
    <2> QED BY <2>2 DEF p, q, r
  <1>6. c \in Nat
    BY <1>4, <1>5
  <1>7. accrue_meta(u) = IF meta.rate = 0 \/ m.pos = 0 THEN m ELSE [pos |-> m.pos, since |-> now, accrued |-> c]
    BY DEF accrue_meta
  <1> HIDE DEF c
  <1> QED BY <1>1, <1>2, <1>3, <1>4, <1>6, <1>7 DEF SubPosition

\* Meta-staking changes one position, its total and what it paid; the sub-pools are left alone.
LEMMA MetaKeeps ==
    ASSUME SubBooks, NEW u \in SubStakers, NEW m \in SubPosition, m.since <= now,
           NEW b \in Int, m.pos = meta.user[u].pos + b, NEW c \in Nat, NEW total, total = meta.total + b,
           NEW paid, paid = meta.paid + c, NEW V, V = [meta.user EXCEPT ![u] = m],
           meta' = [meta EXCEPT !.total = total, !.paid = paid, !.user = V],
           held' = held + b - c, Books', UNCHANGED <<now, pool, rewardPool, sub, stakes, rebalance>>
    PROVE  SubBooks'
  <1>1. /\ sub_books(sub, stakes, rebalance, meta, now) /\ now \in Nat /\ meta \in Meta
        /\ meta.user \in [SubStakers -> SubPosition] /\ meta.user[u].pos \in Nat
    BY SubFacts, AccruedMeta
  <1>2. /\ V \in [SubStakers -> SubPosition] /\ meta_in(V) = meta_in(meta.user) + m.pos - meta.user[u].pos
    BY <1>1, MetaChange
  <1>3. meta.total = meta_in(meta.user) /\ stamped(meta.user, now) /\ meta.total \in Nat /\ meta.paid \in Nat
    BY <1>1 DEF sub_books, Meta
  <1>4. total = meta_in(V)
    BY <1>1, <1>2, <1>3
  <1>5. meta_in(V) \in Nat
    <2> DEFINE g == [v \in SubStakers |-> V[v].pos]
    <2>1. \A x \in SubPosition : x.pos \in Nat
      BY DEF SubPosition
    <2>2. g \in [SubStakers -> Nat] /\ IsFiniteSet(SubStakers) /\ meta_in(V) = sum(g)
      BY <1>2, <2>1, SubFinite DEF meta_in
    <2> HIDE DEF g
    <2>3. sum(g) \in Nat
      BY ONLY <2>2, SumNat
    <2> QED BY <2>2, <2>3
  <1>6. total \in Nat /\ paid \in Nat
    BY <1>3, <1>4, <1>5
  <1>7. stamped(V, now)
    <2>1. DOMAIN V = SubStakers /\ DOMAIN meta.user = SubStakers
      BY <1>1, <1>2
    <2> QED BY <1>1, <1>3, <2>1 DEF stamped
  <1>8. /\ meta' \in Meta /\ meta'.total = total /\ meta'.paid = paid /\ meta'.user = V
        /\ meta'.owed = meta.owed /\ meta'.changes = meta.changes
    <2>1. meta' = [meta EXCEPT !.total = total, !.paid = paid, !.user = V]
      OBVIOUS
    <2> QED BY ONLY <1>1, <1>2, <1>6, <2>1 DEF Meta
  <1>9. sub_books(sub, stakes, rebalance, meta', now)
    BY <1>1, <1>4, <1>7, <1>8 DEF sub_books
  <1>10. /\ sub' = sub /\ stakes' = stakes /\ rebalance' = rebalance /\ now' = now
         /\ totalDeposited' = totalDeposited /\ rewardPool' = rewardPool
    BY DEF pool
  <1>11. sub_books(sub', stakes', rebalance', meta', now')
    BY <1>9, <1>10
  <1>12. totals(sub) \in Int /\ 0 \in Int /\ c \in Int
    BY TotalsInt
  <1>13. totals(sub') = totals(sub) + 0 /\ held' = held + 0 + b - c
    BY <1>10, <1>12 DEF SubBooks, Books
  <1>14. meta'.total = meta.total + b /\ meta'.paid = meta.paid + c
    BY <1>8
  <1>15. UNCHANGED <<totalDeposited, rewardPool>>
    BY <1>10
  <1>16. SubBooks /\ Books' /\ b \in Int
    OBVIOUS
  <1> QED BY ONLY <1>11, <1>12, <1>13, <1>14, <1>15, <1>16, SubClose

\* meta_stake.
LEMMA MetaStakeKeeps ==
    ASSUME SubBooks, NEW u \in SubStakers, NEW a \in Nat, meta_stake(u, a)
    PROVE  SubBooks'
  <1> DEFINE m == meta_position(u, a)
             total == meta.total + a
             paid == meta.paid
             V == [meta.user EXCEPT ![u] = m]
  <1>1. pull(u, a) /\ UNCHANGED <<now, pool, rewardPool, sub, stakes, rebalance>>
    BY DEF meta_stake
  <1>2. meta' = [meta EXCEPT !.total = total, !.user = V]
    BY DEF meta_stake
  <1>3. accrue_meta(u) \in SubPosition /\ accrue_meta(u).pos = meta.user[u].pos /\ now \in Nat /\ meta \in Meta
    BY AccruedMeta, SubFacts
  <1>4. meta.paid \in Nat
    BY <1>3 DEF Meta
  <1>5. m \in SubPosition /\ m.pos = meta.user[u].pos + a /\ m.since = now
    BY <1>3 DEF meta_position, SubPosition
  <1> HIDE DEF m, V, total
  <1>6. meta' = [meta EXCEPT !.total = total, !.paid = paid, !.user = V]
    BY <1>2, <1>3 DEF Meta
  <1>7. Books' /\ held' = held + a /\ held \in Int
    BY <1>1, SubTransfer DEF SubBooks, Books
  <1>8. held' = held + a - 0 /\ paid = meta.paid + 0 /\ 0 \in Nat /\ a \in Int
    BY <1>4, <1>7
  <1>9. m.since <= now /\ total = meta.total + a /\ V = [meta.user EXCEPT ![u] = m]
    BY <1>3, <1>5 DEF V, total
  <1> HIDE DEF paid
  <1>10. SubBooks /\ u \in SubStakers
    OBVIOUS
  <1> QED BY ONLY <1>1, <1>5, <1>6, <1>7, <1>8, <1>9, <1>10, MetaKeeps

\* meta_unstake.
LEMMA MetaUnstakeKeeps ==
    ASSUME SubBooks, NEW u \in SubStakers, NEW a \in Nat, meta_unstake(u, a)
    PROVE  SubBooks'
  <1> DEFINE b == -a
             m == meta_position(u, b)
             total == meta.total - a
             paid == meta.paid
             V == [meta.user EXCEPT ![u] = m]
  <1>1. meta.user[u].pos >= a /\ push(u, a) /\ UNCHANGED <<now, pool, rewardPool, sub, stakes, rebalance>>
    BY DEF meta_unstake
  <1>2. meta' = [meta EXCEPT !.total = total, !.user = V]
    BY DEF meta_unstake
  <1>3. /\ accrue_meta(u) \in SubPosition /\ accrue_meta(u).pos = meta.user[u].pos /\ now \in Nat /\ meta \in Meta
        /\ meta.user[u].pos \in Nat
    BY AccruedMeta, SubFacts
  <1>4. meta.paid \in Nat /\ meta.total \in Nat
    BY <1>3 DEF Meta
  <1>5. b \in Int /\ meta.user[u].pos + b \in Nat /\ \A x \in Int : x + b = x - a
    BY <1>1, <1>3
  <1> HIDE DEF b
  <1>6. m \in SubPosition /\ m.pos = meta.user[u].pos + b /\ m.since = now
    BY <1>3, <1>5 DEF meta_position, SubPosition
  <1> HIDE DEF m, V, total
  <1>7. meta' = [meta EXCEPT !.total = total, !.paid = paid, !.user = V]
    BY <1>2, <1>3 DEF Meta
  <1>8. Books' /\ held' = held - a /\ held \in Int
    BY <1>1, SubTransfer DEF SubBooks, Books
  <1>9. held' = held + b - 0 /\ paid = meta.paid + 0 /\ 0 \in Nat
    BY <1>4, <1>5, <1>8
  <1>10. m.since <= now /\ total = meta.total + b /\ V = [meta.user EXCEPT ![u] = m]
    BY <1>3, <1>4, <1>5, <1>6 DEF V, total
  <1> HIDE DEF paid
  <1>11. SubBooks /\ u \in SubStakers /\ UNCHANGED <<now, pool, rewardPool, sub, stakes, rebalance>>
    BY <1>1
  <1> QED BY ONLY <1>5, <1>6, <1>7, <1>8, <1>9, <1>10, <1>11, MetaKeeps

\* meta_claim pays what accrued, and counts it as paid.
LEMMA MetaClaimKeeps ==
    ASSUME SubBooks, NEW u \in SubStakers, meta_claim(u)
    PROVE  SubBooks'
  <1> DEFINE m == accrue_meta(u)
             n == IF m.accrued = 0 THEN m ELSE [pos |-> m.pos, since |-> now, accrued |-> 0]
             c == m.accrued
             total == meta.total
             paid == meta.paid + c
             V == [meta.user EXCEPT ![u] = n]
  <1>1. push(u, c) /\ UNCHANGED <<now, pool, rewardPool, sub, stakes, rebalance>>
    BY DEF meta_claim
  <1>2. meta' = [meta EXCEPT !.paid = paid, !.user = V]
    BY DEF meta_claim
  <1>3. /\ m \in SubPosition /\ m.pos = meta.user[u].pos /\ m.since <= now /\ now \in Nat /\ meta \in Meta
    BY AccruedMeta, SubFacts
  <1>4. c \in Nat /\ m.pos \in Nat /\ meta.total \in Nat
    BY <1>3 DEF SubPosition, Meta
  <1> HIDE DEF m
  <1>5. n \in SubPosition /\ n.pos = m.pos /\ n.since <= now
    BY <1>3, <1>4 DEF SubPosition
  <1> HIDE DEF n, V, c, paid
  <1>6. meta' = [meta EXCEPT !.total = total, !.paid = paid, !.user = V]
    BY <1>2, <1>3 DEF Meta
  <1>7. Books' /\ held' = held - c /\ held \in Int
    BY <1>1, <1>4, SubTransfer DEF SubBooks, Books
  <1>8. held' = held + 0 - c /\ 0 \in Int /\ n.pos = meta.user[u].pos + 0 /\ total = meta.total + 0
    BY <1>3, <1>4, <1>5, <1>7
  <1>9. paid = meta.paid + c /\ V = [meta.user EXCEPT ![u] = n]
    BY DEF V, paid
  <1> HIDE DEF total
  <1>10. SubBooks /\ u \in SubStakers /\ UNCHANGED <<now, pool, rewardPool, sub, stakes, rebalance>>
    BY <1>1
  <1> QED BY ONLY <1>4, <1>5, <1>6, <1>7, <1>8, <1>9, <1>10, MetaKeeps

\* set_meta_reward_rate_bps counts as a change of rates.
LEMMA MetaRateKeeps ==
    ASSUME SubBooks, NEW r \in SubRates, set_meta_reward_rate_bps(r)
    PROVE  SubBooks'
  <1> DEFINE c == meta.changes + 1
  <1>1. meta' = [meta EXCEPT !.rate = r, !.changes = c] /\ UNCHANGED <<base_vars, sub, stakes, rebalance>>
    BY DEF set_meta_reward_rate_bps
  <1>2. meta \in Meta /\ r \in Nat /\ sub_books(sub, stakes, rebalance, meta, now)
    BY SubFacts, SubAssumption
  <1>3. c \in Nat /\ c # 0
    BY <1>2 DEF Meta
  <1> HIDE DEF c
  <1>4. /\ meta' \in Meta /\ meta'.total = meta.total /\ meta'.user = meta.user /\ meta'.owed = meta.owed
        /\ meta'.paid = meta.paid /\ meta'.changes # 0
    BY <1>1, <1>2, <1>3 DEF Meta
  <1>5. sub_books(sub, stakes, rebalance, meta', now)
    BY <1>2, <1>4 DEF sub_books
  <1>6. sub' = sub /\ stakes' = stakes /\ rebalance' = rebalance /\ UNCHANGED base_vars
    BY <1>1
  <1> QED BY <1>4, <1>5, <1>6, TotalsInt, SubStill

\* A ledger closes: what a position is owed grows as its running reward does.
LEMMA SubTickKeeps ==
    ASSUME SubBooks, SubTick
    PROVE  SubBooks'
  <1> DEFINE O == [x \in DOMAIN meta.owed |-> meta.owed[x] + dues(x)]
  <1>1. /\ now' = IF now < MaxLedger THEN now + 1 ELSE now
        /\ UNCHANGED <<wallet, held, pool, rewardPool, sub, stakes, rebalance>>
        /\ meta' = IF now < MaxLedger THEN [meta EXCEPT !.owed = O] ELSE meta
    BY DEF SubTick, TimePasses, tick
  <1>2. /\ sub_books(sub, stakes, rebalance, meta, now) /\ now \in Nat /\ meta \in Meta
        /\ stakes \in [SubKeys -> SubPosition] /\ sub \in Seq(SubPool)
        /\ \A id \in DOMAIN sub : id \in SubIds /\ sub[id] \in SubPool
    BY SubFacts
  <1>3. totals(sub) \in Int
    BY TotalsInt
  <1>4. CASE now < MaxLedger
    <2>1. now' = now + 1 /\ meta' = [meta EXCEPT !.owed = O]
      BY <1>1, <1>4
    <2>2. meta.owed \in [SubKeys -> Nat] /\ DOMAIN meta.owed = SubKeys
      BY <1>2 DEF Meta
    <2>3. \A x \in SubPosition : x.pos \in Nat /\ x.since \in Nat /\ x.accrued \in Nat
      BY DEF SubPosition
    <2>4. \A x \in SubPool : x.rate \in Nat
      BY DEF SubPool
    <2>5. ASSUME NEW x \in SubKeys PROVE dues(x) \in Nat
      <3>1. stakes[x].pos \in Nat
        BY <1>2, <2>3
      <3>2. x[2] \in DOMAIN sub => sub[x[2]].rate \in Nat
        BY <1>2, <2>4
      <3> QED BY <3>1, <3>2, MulNat DEF dues
    <2>6. O \in [SubKeys -> Nat] /\ \A x \in SubKeys : O[x] = meta.owed[x] + dues(x)
      BY <2>2, <2>5
    <2> HIDE DEF O
    <2>7. /\ meta' \in Meta /\ meta'.owed = O /\ meta'.total = meta.total /\ meta'.paid = meta.paid
          /\ meta'.user = meta.user /\ meta'.changes = meta.changes
      BY <1>2, <2>1, <2>6 DEF Meta
    <2>8. /\ pools_agree(sub, stakes) /\ within(sub) /\ stamped(stakes, now) /\ blank(sub, stakes, meta.owed)
          /\ rebalance \in Rebalance /\ capacities(sub) = rebalance.capacity
          /\ meta.total = meta_in(meta.user) /\ stamped(meta.user, now)
          /\ meta.changes = 0 => all_fair(sub, stakes, meta.owed, now)
      BY <1>2 DEF sub_books
    <2>9. stamped(stakes, now + 1)
      <3>1. \A x \in DOMAIN stakes : stakes[x].since \in Nat /\ stakes[x].since <= now
        BY <1>2, <2>3, <2>8 DEF stamped
      <3> QED BY <1>2, <3>1 DEF stamped
    <2>10. stamped(meta.user, now + 1)
      <3>1. meta.user \in [SubStakers -> SubPosition]
        BY <1>2 DEF Meta
      <3>2. \A x \in DOMAIN meta.user : meta.user[x].since \in Nat /\ meta.user[x].since <= now
        BY <2>3, <2>8, <3>1 DEF stamped
      <3> QED BY <1>2, <3>2 DEF stamped
    <2>11. blank(sub, stakes, O)
      <3> SUFFICES ASSUME NEW u \in SubStakers, NEW id \in SubIds, id \notin DOMAIN sub
                   PROVE  stakes[<<u, id>>] = Untouched /\ O[<<u, id>>] = 0
        BY DEF blank
      <3>1. <<u, id>> \in SubKeys /\ stakes[<<u, id>>] = Untouched /\ meta.owed[<<u, id>>] = 0
        BY <2>8 DEF blank, SubKeys
      <3>2. dues(<<u, id>>) = 0
        BY DEF dues
      <3> QED BY <2>6, <3>1, <3>2
    <2>12. ASSUME meta.changes = 0 PROVE all_fair(sub, stakes, O, now + 1)
      <3> SUFFICES ASSUME NEW u \in SubStakers, NEW id \in DOMAIN sub
                   PROVE  fair(stakes[<<u, id>>], sub[id].rate, now + 1, O[<<u, id>>])
        BY DEF all_fair
      <3> DEFINE s == stakes[<<u, id>>]
                 r == sub[id].rate
                 o == meta.owed[<<u, id>>]
                 k == O[<<u, id>>]
                 z == s.pos * r
                 y == s.accrued * sub_year
      <3>1. <<u, id>> \in SubKeys /\ s \in SubPosition /\ r \in Nat /\ o \in Nat
        BY <1>2, <2>2, <2>4 DEF SubKeys
      <3>2. fair(s, r, now, o)
        BY <2>8, <2>12 DEF all_fair
      <3>3. k = o + z
        BY <2>6, <3>1 DEF dues
      <3>4. z \in Nat /\ y \in Nat /\ s.since \in Nat
        BY <2>3, <3>1, SubYearNat, MulNat
      <3>5. running(s, r, now) = y + z * (now - s.since) /\ running(s, r, now + 1) = y + z * ((now + 1) - s.since)
        BY DEF running
      <3> DEFINE e == s.since
                 A == running(s, r, now)
                 B == running(s, r, now + 1)
      <3>6. (A <= o /\ (r % sub_year = 0 => A = o)) /\ A = y + z * (now - e) /\ B = y + z * ((now + 1) - e) /\ e \in Nat
        BY <3>2, <3>4, <3>5 DEF fair
      <3> HIDE DEF s, r, o, k, z, y, e, A, B
      <3>7. z * ((now + 1) - e) = z * (now - e) + z /\ z * (now - e) \in Int
        BY <1>2, <3>4, <3>6
      <3>8. B = A + z /\ A \in Int
        BY <3>4, <3>6, <3>7
      <3>9. B <= k /\ (r % sub_year = 0 => B = k)
        BY <3>1, <3>3, <3>4, <3>6, <3>8
      <3> QED BY <3>9 DEF fair, B, k, s, r
    <2>13. sub_books(sub, stakes, rebalance, meta', now + 1)
      BY <2>7, <2>8, <2>9, <2>10, <2>11, <2>12 DEF sub_books
    <2>14. /\ sub' = sub /\ stakes' = stakes /\ rebalance' = rebalance /\ held' = held
           /\ totalDeposited' = totalDeposited /\ rewardPool' = rewardPool
      BY <1>1 DEF pool
    <2>15. sub_books(sub', stakes', rebalance', meta', now')
      BY <2>1, <2>13, <2>14
    <2>16. Books'
      BY <1>1, <1>2, <2>1 DEF SubBooks, Books, pool
    <2>17. (held = totalDeposited + rewardPool + meta.total - meta.paid + totals(sub))'
      BY <2>7, <2>14 DEF SubBooks
    <2> QED BY <2>15, <2>16, <2>17 DEF SubBooks
  <1>5. CASE ~(now < MaxLedger)
    <2>1. /\ sub' = sub /\ stakes' = stakes /\ rebalance' = rebalance /\ meta' = meta /\ UNCHANGED base_vars
      BY <1>1, <1>5 DEF base_vars
    <2> QED BY <1>2, <1>3, <2>1, SubStill
  <1> QED BY <1>4, <1>5

SubInv == focus \in {"subpools", "rebalance", "meta"} => SubBooks

\* There is no sub-pool at the start, and nobody meta-stakes.
LEMMA SubInvInit == ASSUME FundsInit PROVE SubInv
  <1>1. BaseInitWith(Purse) /\ SubInit /\ Purse \in Nat
    BY BaseAssumption DEF FundsInit, BaseInit
  <1>2. Books /\ held = totalDeposited + rewardPool /\ totalDeposited \in Nat /\ rewardPool \in Nat /\ now \in Nat
    BY <1>1, BooksInit, BaseInitFacts DEF Books
  <1>3. Untouched \in SubPosition /\ Untouched.pos = 0 /\ Untouched.since = 0
    BY DEF Untouched, SubPosition
  <1> DEFINE U == [u \in SubStakers |-> Untouched]
             O == [x \in SubKeys |-> 0]
  <1>4. /\ sub = <<>> /\ stakes = [x \in SubKeys |-> Untouched]
        /\ rebalance = [max |-> 0, cooldown |-> 0, last |-> 0, keeper |-> FALSE, capacity |-> 0]
        /\ meta = [rate |-> 0, total |-> 0, user |-> U, paid |-> 0, changes |-> 0, owed |-> O]
    BY <1>1 DEF SubInit, SubPoolInit, RebalanceInit, MetaInit, SubKeys, SubIds
  <1>5. stakes \in [SubKeys -> SubPosition] /\ U \in [SubStakers -> SubPosition] /\ O \in [SubKeys -> Nat]
    BY <1>3, <1>4
  <1>6. sub \in Seq(SubPool) /\ DOMAIN sub = {} /\ Len(sub) <= MaxSubPools
    BY <1>4, SubAssumption
  <1>7. totals(sub) = 0 /\ capacities(sub) = 0
    <2> DEFINE f == [id \in {} |-> sub[id].total]
               h == [id \in {} |-> sub[id].cap]
    <2>1. f \in [{} -> Int] /\ h \in [{} -> Int] /\ IsFiniteSet({})
      BY FS_EmptySet
    <2>2. (\A x \in {} : f[x] = 0) /\ (\A x \in {} : h[x] = 0)
      OBVIOUS
    <2>3. totals(sub) = sum(f) /\ capacities(sub) = sum(h)
      BY <1>6 DEF totals, capacities
    <2> HIDE DEF f, h
    <2>4. sum(f) = 0
      BY ONLY <2>1, <2>2, SumZero
    <2>5. sum(h) = 0
      BY ONLY <2>1, <2>2, SumZero
    <2> QED BY <2>3, <2>4, <2>5
  <1>8. meta_in(U) = 0
    <2> DEFINE f == [u \in SubStakers |-> U[u].pos]
    <2>1. \A u \in SubStakers : U[u].pos = 0
      BY <1>3
    <2>2. f \in [SubStakers -> Int] /\ IsFiniteSet(SubStakers) /\ \A u \in SubStakers : f[u] = 0
      BY <2>1, SubFinite
    <2>3. meta_in(U) = sum(f)
      BY DEF meta_in
    <2> HIDE DEF f
    <2>4. sum(f) = 0
      BY ONLY <2>2, SumZero
    <2> QED BY <2>3, <2>4
  <1>9. stamped(stakes, now) /\ stamped(U, now)
    BY <1>2, <1>3, <1>4 DEF stamped
  <1>10. blank(sub, stakes, O)
    BY <1>4 DEF blank, SubKeys
  <1>11. pools_agree(sub, stakes) /\ within(sub) /\ all_fair(sub, stakes, O, now)
    BY <1>5, <1>6 DEF pools_agree, within, all_fair
  <1>12. rebalance \in Rebalance /\ rebalance.capacity = 0
    BY <1>4 DEF Rebalance
  <1> HIDE DEF U, O
  <1>13. meta \in Meta /\ meta.total = 0 /\ meta.paid = 0 /\ meta.user = U /\ meta.owed = O
    BY <1>4, <1>5 DEF Meta
  <1>14. sub_books(sub, stakes, rebalance, meta, now)
    BY <1>7, <1>8, <1>9, <1>10, <1>11, <1>12, <1>13 DEF sub_books
  <1>15. held = totalDeposited + rewardPool + meta.total - meta.paid + totals(sub)
    BY <1>2, <1>7, <1>13
  <1> QED BY <1>2, <1>14, <1>15 DEF SubInv, SubBooks

\* Every entry point keeps the books of the sub-pools.
LEMMA SubInvStep == ASSUME SubInv, [FundsNext]_funds_vars PROVE SubInv'
  <1>1. CASE focus \notin {"subpools", "rebalance", "meta"}
    BY <1>1 DEF SubInv, FundsNext, funds_vars
  <1>2. CASE focus \in {"subpools", "rebalance", "meta"}
    <2>1. SubBooks /\ (SubPoolNext \/ RebalanceNext \/ MetaNext \/ SubTick \/ UNCHANGED <<base_vars, sub_vars>>)
      BY <1>2, SubStep DEF SubInv
    <2>2. SubRates \subseteq Nat /\ Capacities \subseteq Nat /\ Amounts \subseteq Nat /\ 0 \in Nat
      BY SubAssumption, BaseAssumption
    <2> SUFFICES SubBooks'
      BY DEF SubInv
    <2>3. CASE UNCHANGED <<base_vars, sub_vars>>
      <3>1. /\ sub' = sub /\ stakes' = stakes /\ rebalance' = rebalance /\ meta' = meta /\ UNCHANGED base_vars
        BY <2>3 DEF sub_vars
      <3> QED BY <2>1, <3>1, SubFacts, TotalsInt, SubStill
    <2>4. CASE \E r \in Nat, c \in Nat : create_sub_pool(r, c)
      BY <2>1, <2>4, SubCreateKeeps
    <2>5. CASE \E id \in DOMAIN sub, r \in SubRates : set_sub_pool_rate(id, r)
      BY <2>1, <2>5, SubRateKeeps
    <2>6. CASE \E u \in SubStakers, id \in DOMAIN sub, a \in Nat :
                  stake_into_sub_pool(u, id, a) \/ unstake_from_sub_pool(u, id, a)
      BY <2>1, <2>6, SubStakeKeeps, SubUnstakeKeeps
    <2>7. CASE \E u \in SubStakers, from, to \in DOMAIN sub, a \in Nat : move_between_sub_pools(u, from, to, a)
      BY <2>1, <2>7, SubMoveKeeps
    <2>8. CASE \E id \in DOMAIN sub, b \in Bounds : set_sub_pool_rebalance_bounds(id, b[1], b[2])
      BY <2>1, <2>8, SubBoundsKeeps
    <2>9. CASE register_keeper \/ deregister_keeper \/ \E l \in Limits : set_sub_pool_rebalance_limits(l[1], l[2])
      BY <2>1, <2>9, SubSettingsKeep
    <2>10. CASE \E from, to \in DOMAIN sub, a \in Nat : rebalance_sub_pool_capacity(from, to, a)
      BY <2>1, <2>10, RebalanceKeeps
    <2>11. CASE \E r \in SubRates : set_meta_reward_rate_bps(r)
      BY <2>1, <2>11, MetaRateKeeps
    <2>12. CASE \E u \in SubStakers : meta_claim(u) \/ \E a \in Nat : meta_stake(u, a) \/ meta_unstake(u, a)
      BY <2>1, <2>12, MetaClaimKeeps, MetaStakeKeeps, MetaUnstakeKeeps
    <2>13. CASE SubTick
      BY <2>1, <2>13, SubTickKeeps
    <2>14. CASE SubPoolNext
      BY <2>2, <2>4, <2>5, <2>6, <2>7, <2>14 DEF SubPoolNext
    <2>15. CASE RebalanceNext
      BY <2>2, <2>4, <2>6, <2>8, <2>9, <2>10, <2>15 DEF RebalanceNext
    <2>16. CASE MetaNext
      BY <2>2, <2>11, <2>12, <2>16 DEF MetaNext
    <2> QED BY <2>1, <2>3, <2>13, <2>14, <2>15, <2>16
  <1> QED BY <1>1, <1>2

\* A fair position has earned no more than it is owed, settled and unsettled together.
LEMMA FairEarned ==
    ASSUME SubBooks, meta.changes = 0, NEW u \in SubStakers, NEW id \in DOMAIN sub,
           NEW s, s = stakes[<<u, id>>], NEW r, r = sub[id].rate, NEW o, o = meta.owed[<<u, id>>],
           NEW e, e = (s.accrued + interest(s.pos, r, s.since)) * sub_year
    PROVE  e <= o /\ (r % sub_year = 0 => e = o)
  <1> DEFINE i == interest(s.pos, r, s.since)
             c == s.accrued
             y == sub_year
             x == (s.pos * r) * (now - s.since)
  <1>1. s \in SubPosition /\ s.since <= now /\ sub[id] \in SubPool /\ now \in Nat /\ id \in SubIds /\ meta \in Meta
    BY SubFacts
  <1>2. s.pos \in Nat /\ s.since \in Nat /\ c \in Nat /\ r \in Nat /\ o \in Nat /\ y \in Nat
    BY <1>1, SubYearNat DEF SubPosition, SubPool, Meta, SubKeys
  <1>3. i \in Nat /\ i * y <= x /\ (r % y = 0 => i * y = x)
    <2> DEFINE v == s.pos   w == s.since
    <2>1. v \in Nat /\ w \in Nat /\ w <= now /\ now \in Nat /\ r \in Nat
      BY <1>1, <1>2
    <2> HIDE DEF v, w
    <2>2. /\ interest(v, r, w) \in Nat /\ interest(v, r, w) * sub_year <= (v * r) * (now - w)
          /\ r % sub_year = 0 => interest(v, r, w) * sub_year = (v * r) * (now - w)
      BY ONLY <2>1, InterestFair
    <2> QED BY <2>2 DEF v, w
  <1>4. x \in Nat
    BY <1>1, <1>2, MulNat
  <1>5. all_fair(sub, stakes, meta.owed, now)
    BY SubFacts DEF sub_books
  <1>6. c * y + x <= o /\ (r % y = 0 => c * y + x = o)
    BY <1>5 DEF all_fair, fair, running
  <1>7. e = (c + i) * y
    OBVIOUS
  <1> HIDE DEF i, c, y, x
  <1>8. (c + i) * y = c * y + i * y /\ c * y \in Nat /\ i * y \in Nat
    BY <1>2, <1>3
  <1>9. e <= o /\ (r % y = 0 => e = o)
    BY <1>2, <1>3, <1>4, <1>6, <1>7, <1>8
  <1> QED BY <1>9 DEF y

\* Sub-pools and meta-staking, over every sequence of stakes, exits, moves, claims, changes of a
\* rate and rebalancings: positions add up to the totals and the totals to the tokens held, no
\* rebalancing creates capacity or takes it from under a deposit, and until a rate changes
\* nobody's reward exceeds what the ledgers earned, nor falls short of it where nothing is rounded.
THEOREM SubPoolsAreExact == FundsSpec => []SubPoolsExact
  <1>1. SubInv => SubPoolsExact
    <2> SUFFICES ASSUME SubBooks PROVE sub_pools_balanced /\ sub_rewards_exact
      BY DEF SubInv, SubPoolsExact
    <2>1. sub_pools_balanced
      BY DEF SubBooks, sub_books, pools_agree, within, sub_pools_balanced, in_pool, meta_in, totals, capacities
    <2>2. sub_rewards_exact
      <3> SUFFICES ASSUME meta.changes = 0, NEW u \in SubStakers, NEW id \in DOMAIN sub,
                          NEW e, e = (stakes[<<u, id>>].accrued
                                      + interest(stakes[<<u, id>>].pos, sub[id].rate, stakes[<<u, id>>].since)) * sub_year
                   PROVE  e <= meta.owed[<<u, id>>] /\ (sub[id].rate % sub_year = 0 => e = meta.owed[<<u, id>>])
        BY DEF sub_rewards_exact, sub_year
      <3> QED BY FairEarned
    <2> QED BY <2>1, <2>2
  <1>2. SubInv /\ [FundsNext]_funds_vars => SubInv'
    BY SubInvStep
  <1> QED BY <1>1, <1>2, SubInvInit, PTL DEF FundsSpec, funds_vars

===============================================================================
