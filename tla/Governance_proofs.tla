--------------------------- MODULE Governance_proofs ---------------------------
(***************************************************************************)
(* The integer square root of quadratic votes, and the books of proposals, *)
(* votes and delegations.                                                  *)
(***************************************************************************)
EXTENDS Governance, PoolBase_proofs, TLAPS

-------------------------------------------------------------------------------
(* quadratic_vote::isqrt. *)

\* Every non-empty set of naturals has a least element.
LEMMA LeastNat ==
    ASSUME NEW T, T \subseteq Nat, T # {}
    PROVE  \E m \in T : \A t \in T : m <= t
  <1>1. PICK k \in T : TRUE
    OBVIOUS
  <1> DEFINE S == T \cap 0..k
  <1>2. IsFiniteSet(S)
    <2>1. 0 \in Int /\ k \in Int
      OBVIOUS
    <2>2. IsFiniteSet(0..k)
      BY ONLY <2>1, FS_Interval
    <2> QED BY <2>2, FS_Subset
  <1> DEFINE Bad == {t \in SUBSET S : t # {} /\ ~ \E m \in t : \A x \in t : m <= x}
  <1>3. ASSUME Bad # {} PROVE FALSE
    <2>1. PICK t \in Bad : \A u \in Bad : u \subseteq t => u = t
      <3>1. IsFiniteSet(S) /\ Bad # {} /\ Bad \subseteq SUBSET S
        BY <1>2, <1>3
      <3> HIDE DEF Bad
      <3> QED BY ONLY <3>1, SmallestSubset
    <2>2. PICK x \in t : TRUE
      OBVIOUS
    <2>3. t \ {x} \notin Bad
      BY <2>1, <2>2
    <2> QED BY <2>1, <2>2, <2>3
  <1>4. S \in SUBSET S /\ k \in S
    OBVIOUS
  <1>5. PICK m \in S : \A x \in S : m <= x
    BY <1>3, <1>4
  <1>6. \A t \in T : m <= t
    BY <1>5
  <1> QED BY <1>6

\* The square of a sum of two naturals is at least four times their product.
LEMMA MeanSquare ==
    ASSUME NEW a \in Nat, NEW b \in Nat
    PROVE  4 * (a * b) <= (a + b) * (a + b)
  <1>1. PICK d \in Nat : a = b + d \/ b = a + d
    <2>1. CASE a >= b
      <3>1. a - b \in Nat /\ a = b + (a - b)
        BY <2>1
      <3> QED BY <3>1
    <2>2. CASE a < b
      <3>1. b - a \in Nat /\ b = a + (b - a)
        BY <2>2
      <3> QED BY <3>1
    <2> QED BY <2>1, <2>2
  <1>2. d * d \in Nat
    BY MulNat
  <1>3. (a + b) * (a + b) = 4 * (a * b) + d * d
    BY <1>1
  <1>4. a * b \in Nat
    BY MulNat
  <1> QED BY <1>2, <1>3, <1>4

\* A step of the iteration is at least the root, and is below x unless x is the root.
LEMMA NewtonStep ==
    ASSUME NEW n \in Nat, NEW x \in 1..n
    PROVE  /\ newton(n, x) \in 1..n
           /\ n < (newton(n, x) + 1) * (newton(n, x) + 1)
           /\ newton(n, x) >= x => x * x <= n
  <1> DEFINE q == n \div x
             y == newton(n, x)
  <1>1. x \in Nat /\ x > 0 /\ q \in Nat /\ x * q <= n /\ n < x * q + x
    OBVIOUS
  <1>2. q >= 1 /\ q <= n
    <2>1. q # 0
      BY <1>1
    <2>2. x * q >= q
      <3> HIDE DEF q
      <3> QED BY <1>1
    <2> HIDE DEF q
    <2> QED BY <1>1, <2>1, <2>2
  <1>3. y = (x + q) \div 2
    BY DEF newton
  <1> HIDE DEF q, y
  <1>4. y \in Nat /\ 2 * y <= x + q /\ x + q <= 2 * y + 1
    BY <1>1, <1>3
  <1>5. y \in 1..n
    BY <1>1, <1>2, <1>4
  <1>6. n < (y + 1) * (y + 1)
    <2> DEFINE r == q + 1   s == x + r   z == y + 1
    <2>1. r \in Nat /\ s \in Nat /\ z \in Nat /\ s <= 2 * z
      BY <1>1, <1>4
    <2>2. n < x * r
      BY <1>1
    <2>3. 4 * (x * r) <= s * s
      BY <1>1, <2>1, MeanSquare
    <2> HIDE DEF s, z, r
    <2>4. s * s <= (2 * z) * (2 * z)
      <3> DEFINE t == 2 * z
      <3>1. t \in Nat /\ s <= t
        BY <2>1
      <3> HIDE DEF t
      <3>2. s * s <= s * t /\ t * s <= t * t /\ s * t = t * s
        BY <2>1, <3>1, MulMono
      <3>3. s * s \in Nat /\ s * t \in Nat /\ t * t \in Nat
        BY <2>1, <3>1, MulNat
      <3> QED BY <3>2, <3>3 DEF t
    <2>5. (2 * z) * (2 * z) = 4 * (z * z) /\ z * z \in Nat /\ x * r \in Nat
      BY <1>1, <2>1, MulNat
    <2>6. s * s \in Nat
      BY <2>1, MulNat
    <2>7. n < z * z
      BY ONLY <2>2, <2>3, <2>4, <2>5, <2>6, n \in Nat
    <2> QED BY <2>7 DEF z
  <1>7. y >= x => x * x <= n
    <2> SUFFICES ASSUME y >= x PROVE x * x <= n
      OBVIOUS
    <2>1. q >= x
      BY <1>1, <1>4
    <2>2. x * x <= x * q
      BY <1>1, <2>1, MulMono
    <2> QED BY <1>1, <2>2, MulNat
  <1> QED BY <1>5, <1>6, <1>7 DEF y

descent_row(n, f, x) == IF newton(n, x) < x THEN f[newton(n, x)] ELSE x
descent(n) == CHOOSE f : f = [x \in 1..n |-> descent_row(n, f, x)]

\* The iteration is defined for every start: each value rests on smaller ones.
LEMMA DescentDefined ==
    ASSUME NEW n \in Nat
    PROVE  descent(n) = [x \in 1..n |-> descent_row(n, descent(n), x)]
  <1> DEFINE good(k, f) == f = [x \in 1..k |-> descent_row(n, f, x)]
             Bad == {k \in 0..n : ~ \E f : good(k, f)}
  <1>1. ASSUME Bad # {} PROVE FALSE
    <2>1. PICK k \in Bad : \A t \in Bad : k <= t
      <3>1. Bad \subseteq Nat
        OBVIOUS
      <3> HIDE DEF Bad
      <3> QED BY ONLY <1>1, <3>1, LeastNat
    <2>2. k # 0
      <3> SUFFICES ASSUME k = 0 PROVE FALSE
        OBVIOUS
      <3> DEFINE f == [x \in {} |-> 0]
      <3>1. 1..0 = {}
        OBVIOUS
      <3>2. f = [x \in 1..0 |-> descent_row(n, f, x)]
        BY <3>1
      <3> QED BY <2>1, <3>2
    <2>3. k \in 1..n /\ k - 1 \in 0..n /\ k - 1 \notin Bad
      BY <2>1, <2>2
    <2>4. PICK f : good(k - 1, f)
      BY <2>3
    <2> DEFINE g == [x \in 1..k |-> IF x = k THEN descent_row(n, f, k) ELSE f[x]]
    <2>5. \A x \in 1..k : g[x] = descent_row(n, g, x)
      <3> SUFFICES ASSUME NEW x \in 1..k PROVE g[x] = descent_row(n, g, x)
        OBVIOUS
      <3>1. x \in 1..n /\ newton(n, x) \in 1..n
        BY <2>3, NewtonStep
      <3>2. newton(n, x) < x => newton(n, x) \in 1..k /\ newton(n, x) # k /\ g[newton(n, x)] = f[newton(n, x)]
        BY <2>3, <3>1
      <3>3. descent_row(n, g, x) = descent_row(n, f, x)
        BY <3>2 DEF descent_row
      <3>4. CASE x = k
        BY <3>3, <3>4
      <3>5. CASE x # k
        <4>1. x \in 1..(k - 1)
          BY <2>3, <3>5
        <4>2. f[x] = descent_row(n, f, x)
          BY <2>4, <4>1
        <4> QED BY <3>3, <3>5, <4>2
      <3> QED BY <3>4, <3>5
    <2>6. g = [x \in 1..k |-> descent_row(n, g, x)]
      <3>1. g = [x \in 1..k |-> g[x]]
        OBVIOUS
      <3> HIDE DEF g
      <3> QED BY <2>5, <3>1
    <2> HIDE DEF g
    <2> QED BY <2>1, <2>6
  <1>2. n \in 0..n /\ n \notin Bad
    BY <1>1
  <1>3. \E f : f = [x \in 1..n |-> descent_row(n, f, x)]
    BY <1>2
  <1> QED BY <1>3 DEF descent

\* The code's loop is the descent from n.
LEMMA IsqrtDescent ==
    ASSUME NEW n \in Nat
    PROVE  isqrt(n) = IF n <= 1 THEN n ELSE descent(n)[n]
  BY DEF isqrt, descent, descent_row

\* Where the iteration starts above the root it ends at the root.
LEMMA DescentEnds ==
    ASSUME NEW n \in Nat, NEW a \in 1..n, n < (a + 1) * (a + 1)
    PROVE  LET r == descent(n)[a] IN r \in 1..n /\ r * r <= n /\ n < (r + 1) * (r + 1)
  <1> DEFINE root(r) == r \in 1..n /\ r * r <= n /\ n < (r + 1) * (r + 1)
             Bad == {x \in 1..n : n < (x + 1) * (x + 1) /\ ~root(descent(n)[x])}
  <1>1. ASSUME Bad # {} PROVE FALSE
    <2>1. PICK x \in Bad : \A t \in Bad : x <= t
      <3>1. Bad \subseteq Nat
        OBVIOUS
      <3> HIDE DEF Bad
      <3> QED BY ONLY <1>1, <3>1, LeastNat
    <2> DEFINE y == newton(n, x)
    <2>2. x \in 1..n /\ y \in 1..n /\ n < (y + 1) * (y + 1) /\ (y >= x => x * x <= n) /\ n < (x + 1) * (x + 1)
      BY <2>1, NewtonStep
    <2>3. descent(n)[x] = IF y < x THEN descent(n)[y] ELSE x
      BY <2>2, DescentDefined DEF descent_row
    <2> HIDE DEF y
    <2>4. CASE y < x
      <3>1. y \notin Bad
        BY <2>1, <2>2, <2>4
      <3>2. root(descent(n)[y])
        BY <2>2, <3>1
      <3> QED BY <2>1, <2>3, <2>4, <3>2
    <2>5. CASE ~(y < x)
      <3>1. root(x) /\ descent(n)[x] = x
        BY <2>2, <2>3, <2>5
      <3> QED BY <2>1, <3>1
    <2> QED BY <2>4, <2>5
  <1>2. a \notin Bad
    BY <1>1
  <1> QED BY <1>2

\* quadratic_vote.rs states the postcondition x*x <= n < (x+1)*(x+1) of its loop: the vote
\* weight of a stake in Quadratic mode is the floor of its square root, for every stake.
THEOREM SquareRootFloor ==
    ASSUME NEW n \in Nat
    PROVE  isqrt(n) \in Nat /\ isqrt(n) * isqrt(n) <= n /\ n < (isqrt(n) + 1) * (isqrt(n) + 1)
  <1>1. CASE n <= 1
    <2>1. n = 0 \/ n = 1
      BY <1>1
    <2>2. isqrt(n) = n
      BY <1>1, IsqrtDescent
    <2> QED BY <2>1, <2>2
  <1>2. CASE ~(n <= 1)
    <2>1. n \in 1..n /\ n < (n + 1) * (n + 1)
      BY <1>2
    <2> DEFINE r == descent(n)[n]
    <2>2. r \in 1..n /\ r * r <= n /\ n < (r + 1) * (r + 1)
      BY <2>1, DescentEnds
    <2>3. isqrt(n) = r
      BY <1>2, IsqrtDescent
    <2> HIDE DEF r
    <2> QED BY <2>2, <2>3
  <1> QED BY <1>1, <1>2

-------------------------------------------------------------------------------
(* Proposals. *)

Modes == {"Linear", "Quadratic"}
Rule == [quorum : Nat, threshold : Nat]
Settings == [delay : Nat, limit : Nat, vetoes : Nat, bond : Nat, cutoff : Nat, minStake : Nat, quorum : Nat,
             rules : Rule, vetoBps : Nat, mode : Modes, changes : Nat]
Receipt == [support : BOOLEAN, weight : Nat]
Proposal == [parameter : Parameters, value : ParamValues, mode : Modes, votesFor : Nat, votesAgainst : Nat,
             createdAt : Int, endsAt : Int, enacted : BOOLEAN, cancelled : BOOLEAN,
             vetoer : Users \cup {Nobody}, guardianVeto : BOOLEAN, proposer : Users, bond : Nat,
             settled : BOOLEAN, rules : Rule, base : Nat, voters : SUBSET Users, receipts : [Users -> Receipt]]

\* What the voters of p cast on one side.
cast_on(p, s) == [u \in p.voters |-> IF p.receipts[u].support = s THEN p.receipts[u].weight ELSE 0]

\* A proposal in order: tallied, settled by its enactment only, not enacted against a veto.
tallied(p) == p.votesFor = sum(cast_on(p, TRUE)) /\ p.votesAgainst = sum(cast_on(p, FALSE))
in_order(p) ==
    /\ p \in Proposal
    /\ tallied(p)
    /\ p.settled => p.enacted
    /\ p.vetoer # Nobody \/ p.guardianVeto \/ p.cancelled => ~p.enacted

\* The bond of a proposal still in the contract, and all of them.
bond_in(p) == IF p.settled \/ p.cancelled THEN 0 ELSE p.bond
bonds_of(ps) == sum([id \in DOMAIN ps |-> bond_in(ps[id])])
open_of(ps) == {id \in DOMAIN ps : is_open(ps[id])}

\* The weight a delegate d was lent.
lent_to(vd, ws, d) == [u \in Users |-> IF vd[u] = d THEN ws[u] ELSE 0]

GovBooks ==
    /\ Books
    /\ gov \in Settings
    /\ proposals \in Seq(Proposal) /\ \A id \in DOMAIN proposals : in_order(proposals[id])
    /\ openCount = Cardinality(open_of(proposals))
    /\ held = totalDeposited + rewardPool + bonds_of(proposals)
    /\ voteDelegate \in [Users -> Users \cup {Nobody}]
    /\ weightSnapshot \in [Users -> Nat] /\ delegatedWeight \in [Users -> Nat]
    /\ \A d \in Users : delegatedWeight[d] = sum(lent_to(voteDelegate, weightSnapshot, d))

\* The proposals form a finite set, and so do the open ones.
LEMMA ProposalsFinite ==
    ASSUME NEW ps, ps \in Seq(Proposal)
    PROVE  /\ DOMAIN ps = 1..Len(ps) /\ Len(ps) \in Nat /\ IsFiniteSet(DOMAIN ps) /\ IsFiniteSet(open_of(ps))
           /\ \A id \in DOMAIN ps : ps[id] \in Proposal
           /\ [id \in DOMAIN ps |-> bond_in(ps[id])] \in [DOMAIN ps -> Nat]
  <1>1. DOMAIN ps = 1..Len(ps) /\ Len(ps) \in Nat /\ \A id \in DOMAIN ps : ps[id] \in Proposal
    OBVIOUS
  <1>2. IsFiniteSet(1..Len(ps))
    <2>1. 1 \in Int /\ Len(ps) \in Int
      BY <1>1
    <2> QED BY ONLY <2>1, FS_Interval
  <1>3. IsFiniteSet(DOMAIN ps)
    BY <1>1, <1>2
  <1>4. IsFiniteSet(open_of(ps))
    BY <1>3, FS_Subset DEF open_of
  <1>5. \A id \in DOMAIN ps : bond_in(ps[id]) \in Nat
    BY <1>1 DEF bond_in, Proposal
  <1> QED BY <1>1, <1>3, <1>4, <1>5

\* No proposal, vote or delegation at the start.
LEMMA GovBooksInit ==
    ASSUME NEW purse \in Nat, BaseInitWith(purse), GovInit
    PROVE  GovBooks
  <1>1. Books /\ held = totalDeposited + rewardPool /\ totalDeposited \in Nat /\ rewardPool \in Nat
    BY BooksInit, BaseInitFacts
  <1>2. gov \in Settings
    BY GovAssumption DEF GovInit, ProposalInit, Settings, Rule, Modes
  <1>3. proposals = <<>> /\ openCount = 0 /\ DOMAIN proposals = {} /\ proposals \in Seq(Proposal)
    BY DEF GovInit, ProposalInit
  <1>4. open_of(proposals) = {} /\ Cardinality({}) = 0 /\ IsFiniteSet({})
    BY <1>3, FS_EmptySet DEF open_of
  <1>5. bonds_of(proposals) = 0
    <2> DEFINE f == [id \in DOMAIN proposals |-> bond_in(proposals[id])]
    <2>1. IsFiniteSet(DOMAIN proposals) /\ f \in [DOMAIN proposals -> Int] /\ \A x \in DOMAIN proposals : f[x] = 0
      BY <1>3, <1>4
    <2> HIDE DEF f
    <2>2. sum(f) = 0
      BY ONLY <2>1, SumZero
    <2> QED BY <2>2 DEF bonds_of, f
  <1>6. /\ voteDelegate \in [Users -> Users \cup {Nobody}]
        /\ weightSnapshot \in [Users -> Nat] /\ delegatedWeight \in [Users -> Nat]
        /\ \A u \in Users : weightSnapshot[u] = 0 /\ delegatedWeight[u] = 0
    BY DEF GovInit, DelegationInit
  <1>7. ASSUME NEW d \in Users PROVE delegatedWeight[d] = sum(lent_to(voteDelegate, weightSnapshot, d))
    <2> DEFINE f == lent_to(voteDelegate, weightSnapshot, d)
    <2>1. IsFiniteSet(Users) /\ f \in [Users -> Int] /\ \A x \in Users : f[x] = 0
      BY <1>6, BaseAssumption DEF lent_to
    <2> HIDE DEF f
    <2>2. sum(f) = 0
      BY ONLY <2>1, SumZero
    <2> QED BY <1>6, <2>2 DEF f
  <1>8. held = totalDeposited + rewardPool + bonds_of(proposals)
    BY <1>1, <1>5
  <1>9. openCount = Cardinality(open_of(proposals)) /\ \A id \in DOMAIN proposals : in_order(proposals[id])
    BY <1>3, <1>4
  <1> QED BY <1>1, <1>2, <1>3, <1>6, <1>7, <1>8, <1>9 DEF GovBooks

\* One proposal is written: the bonds change by the difference of its two versions.
LEMMA ProposalWritten ==
    ASSUME NEW ps \in Seq(Proposal), NEW id \in DOMAIN ps, NEW p \in Proposal,
           NEW new \in Seq(Proposal), DOMAIN new = DOMAIN ps, new[id] = p,
           \A i \in DOMAIN ps \ {id} : new[i] = ps[i]
    PROVE  /\ bonds_of(ps) \in Nat /\ bonds_of(new) \in Nat
           /\ bonds_of(new) = bonds_of(ps) + bond_in(p) - bond_in(ps[id])
  <1>1. DOMAIN new = DOMAIN ps
    OBVIOUS
  <1> DEFINE S == DOMAIN ps
             f == [i \in S |-> bond_in(ps[i])]
             g == [i \in S |-> bond_in(new[i])]
  <1>2. IsFiniteSet(S) /\ f \in [S -> Nat] /\ g \in [S -> Nat] /\ id \in S
    BY <1>1, ProposalsFinite
  <1>3. f[id] = bond_in(ps[id]) /\ g[id] = bond_in(p) /\ \A i \in S \ {id} : g[i] = f[i]
    BY <1>1
  <1>4. bonds_of(ps) = sum(f) /\ bonds_of(new) = sum(g)
    BY <1>1 DEF bonds_of
  <1> HIDE DEF f, g, S
  <1>5. f \in [S -> Int] /\ g \in [S -> Int]
    BY <1>2
  <1>6. sum(g) = sum(f) + g[id] - f[id]
    <2>1. IsFiniteSet(S) /\ id \in S /\ \A i \in S \ {id} : g[i] = f[i]
      BY <1>2, <1>3
    <2> QED BY ONLY <1>5, <2>1, SumChange
  <1>7. sum(f) \in Nat /\ sum(g) \in Nat
    BY ONLY <1>2, SumNat
  <1> QED BY <1>1, <1>3, <1>4, <1>6, <1>7 DEF S

\* A proposal is added: its bond is one more, and so is it if it is open.
LEMMA ProposalAdded ==
    ASSUME NEW ps \in Seq(Proposal), NEW p \in Proposal, NEW new \in Seq(Proposal), is_open(p),
           NEW k, k \notin DOMAIN ps, DOMAIN new = DOMAIN ps \cup {k}, new[k] = p,
           \A i \in DOMAIN ps : new[i] = ps[i]
    PROVE  /\ bonds_of(ps) \in Nat /\ bonds_of(new) = bonds_of(ps) + bond_in(p)
           /\ Cardinality(open_of(new)) = Cardinality(open_of(ps)) + 1
  <1> DEFINE S == DOMAIN ps
  <1>1. /\ DOMAIN new = S \cup {k} /\ k \notin S
        /\ new[k] = p /\ \A i \in S : new[i] = ps[i]
    OBVIOUS
  <1> DEFINE f == [i \in S |-> bond_in(ps[i])]
             g == [i \in DOMAIN new |-> bond_in(new[i])]
  <1>2. /\ IsFiniteSet(S) /\ f \in [S -> Nat] /\ g \in [DOMAIN new -> Nat] /\ IsFiniteSet(open_of(ps))
        /\ f \in [S -> Int] /\ g \in [S \cup {k} -> Int]
    BY <1>1, ProposalsFinite
  <1>3. g[k] = bond_in(p) /\ \A i \in S : g[i] = f[i]
    BY <1>1
  <1>4. bonds_of(ps) = sum(f) /\ bonds_of(new) = sum(g)
    BY DEF bonds_of
  <1>5. open_of(new) = open_of(ps) \cup {k} /\ k \notin open_of(ps)
    BY <1>1 DEF open_of
  <1>6. Cardinality(open_of(new)) = Cardinality(open_of(ps)) + 1
    BY <1>2, <1>5, FS_AddElement
  <1> HIDE DEF f, g, S
  <1>7. sum(g) = sum(f) + g[k]
    <2> DEFINE R == DOMAIN new
    <2>1. /\ IsFiniteSet(R) /\ k \in R /\ S \subseteq R /\ k \notin S /\ (\A i \in R : i \in S \/ i = k)
          /\ f \in [S -> Int] /\ g \in [R -> Int] /\ \A i \in S : g[i] = f[i]
      BY <1>1, <1>2, <1>3, ProposalsFinite
    <2> HIDE DEF R
    <2> QED BY ONLY <2>1, SumExtend
  <1>8. sum(f) \in Nat
    BY ONLY <1>2, SumNat
  <1> QED BY <1>1, <1>3, <1>4, <1>6, <1>7, <1>8 DEF S

\* What casting a vote writes, and what it leaves alone.
LEMMA CastWrites ==
    ASSUME NEW p \in Proposal, NEW u \in Users, NEW s \in BOOLEAN, NEW w \in Nat, NEW c, c = cast(p, u, s, w)
    PROVE  /\ c \in Proposal /\ c.voters = p.voters \cup {u}
           /\ c.receipts[u].support = s /\ c.receipts[u].weight = w
           /\ \A v \in Users \ {u} : c.receipts[v] = p.receipts[v]
           /\ c.votesFor = p.votesFor + (IF s THEN w ELSE 0)
           /\ c.votesAgainst = p.votesAgainst + (IF s THEN 0 ELSE w)
           /\ c.enacted = p.enacted /\ c.cancelled = p.cancelled /\ c.settled = p.settled /\ c.bond = p.bond
           /\ c.vetoer = p.vetoer /\ c.guardianVeto = p.guardianVeto
  <1> DEFINE vf == p.votesFor + (IF s THEN w ELSE 0)
             va == p.votesAgainst + (IF s THEN 0 ELSE w)
             V  == p.voters \cup {u}
             b  == [support |-> s, weight |-> w]
             r  == [p.receipts EXCEPT ![u] = b]
             p1 == [p EXCEPT !.votesFor = vf]
             p2 == [p1 EXCEPT !.votesAgainst = va]
             p3 == [p2 EXCEPT !.voters = V]
             p4 == [p3 EXCEPT !.receipts = r]
             same(x, y) == /\ x.enacted = y.enacted /\ x.cancelled = y.cancelled /\ x.settled = y.settled
                           /\ x.bond = y.bond /\ x.vetoer = y.vetoer /\ x.guardianVeto = y.guardianVeto
  <1>1. c = p4
    BY DEF cast
  <1>2. vf \in Nat /\ va \in Nat /\ V \in SUBSET Users
    BY DEF Proposal
  <1>3. b \in Receipt /\ b.support = s /\ b.weight = w
    BY DEF Receipt
  <1> HIDE DEF b
  <1>4. r \in [Users -> Receipt] /\ r[u] = b /\ \A v \in Users \ {u} : r[v] = p.receipts[v]
    BY <1>3 DEF Proposal
  <1> HIDE DEF vf, va, V, r
  <1>5. p1 \in Proposal /\ p1.votesFor = vf /\ same(p1, p)
    BY <1>2 DEF Proposal
  <1> HIDE DEF p1
  <1>6. p2 \in Proposal /\ p2.votesFor = p1.votesFor /\ p2.votesAgainst = va /\ same(p2, p1)
    BY ONLY <1>2, <1>5 DEF Proposal
  <1> HIDE DEF p2
  <1>7. /\ p3 \in Proposal /\ p3.votesFor = p2.votesFor /\ p3.votesAgainst = p2.votesAgainst /\ p3.voters = V
        /\ same(p3, p2)
    BY ONLY <1>2, <1>6 DEF Proposal
  <1> HIDE DEF p3
  <1>8. /\ p4 \in Proposal /\ p4.votesFor = p3.votesFor /\ p4.votesAgainst = p3.votesAgainst
        /\ p4.voters = p3.voters /\ p4.receipts = r /\ same(p4, p3)
    BY ONLY <1>4, <1>7 DEF Proposal
  <1> HIDE DEF p4
  <1> QED BY <1>1, <1>3, <1>4, <1>5, <1>6, <1>7, <1>8 DEF vf, va, V

\* A vote cast keeps a proposal in order: the tally grows by the receipt of the new voter.
LEMMA CastInOrder ==
    ASSUME NEW p, in_order(p), NEW u \in Users, u \notin p.voters, NEW s \in BOOLEAN, NEW w \in Nat,
           NEW c, c = cast(p, u, s, w)
    PROVE  in_order(c) /\ bond_in(c) = bond_in(p) /\ is_open(c) = is_open(p)
  <1>1. p \in Proposal
    BY DEF in_order
  <1>2. /\ c \in Proposal /\ c.voters = p.voters \cup {u}
        /\ c.receipts[u].support = s /\ c.receipts[u].weight = w
        /\ \A v \in Users \ {u} : c.receipts[v] = p.receipts[v]
        /\ c.votesFor = p.votesFor + (IF s THEN w ELSE 0)
        /\ c.votesAgainst = p.votesAgainst + (IF s THEN 0 ELSE w)
        /\ c.enacted = p.enacted /\ c.cancelled = p.cancelled /\ c.settled = p.settled /\ c.bond = p.bond
        /\ c.vetoer = p.vetoer /\ c.guardianVeto = p.guardianVeto
    BY <1>1, CastWrites
  <1>3. ASSUME NEW b \in BOOLEAN
        PROVE  sum(cast_on(c, b)) = sum(cast_on(p, b)) + (IF s = b THEN w ELSE 0)
    <2> DEFINE S == p.voters
               R == c.voters
               f == cast_on(p, b)
               g == cast_on(c, b)
    <2>1. S \subseteq Users /\ R \subseteq Users /\ IsFiniteSet(Users) /\ u \in R /\ S \subseteq R /\ u \notin S
          /\ \A y \in R : y \in S \/ y = u
      BY <1>1, <1>2, BaseAssumption DEF Proposal
    <2>2. IsFiniteSet(R)
      BY <2>1, FS_Subset
    <2>3. \A v \in Users : p.receipts[v].weight \in Nat /\ c.receipts[v].weight \in Nat
      BY <1>1, <1>2 DEF Proposal, Receipt
    <2>4. f \in [S -> Int] /\ g \in [R -> Int]
      BY <2>1, <2>3 DEF cast_on
    <2>5. g[u] = (IF s = b THEN w ELSE 0) /\ \A y \in S : g[y] = f[y]
      BY <1>2, <2>1 DEF cast_on
    <2> HIDE DEF S, R, f, g
    <2>6. sum(g) = sum(f) + g[u]
      BY ONLY <2>1, <2>2, <2>4, <2>5, SumExtend
    <2> QED BY <2>5, <2>6 DEF f, g
  <1>4. p.votesFor = sum(cast_on(p, TRUE)) /\ p.votesAgainst = sum(cast_on(p, FALSE))
    BY DEF in_order, tallied
  <1>5. c.votesFor = sum(cast_on(c, TRUE))
    <2>1. sum(cast_on(c, TRUE)) = sum(cast_on(p, TRUE)) + (IF s = TRUE THEN w ELSE 0)
      BY <1>3
    <2>2. c.votesFor = p.votesFor + (IF s THEN w ELSE 0)
      BY <1>2
    <2> QED BY ONLY <1>4, <2>1, <2>2
  <1>6. c.votesAgainst = sum(cast_on(c, FALSE))
    <2>1. sum(cast_on(c, FALSE)) = sum(cast_on(p, FALSE)) + (IF s = FALSE THEN w ELSE 0)
      BY <1>3
    <2>2. (IF s = FALSE THEN w ELSE 0) = (IF s THEN 0 ELSE w)
      OBVIOUS
    <2> QED BY <1>2, <1>4, <2>1, <2>2
  <1> QED BY <1>2, <1>5, <1>6 DEF in_order, tallied, bond_in, is_open

\* A write that touches neither votes nor bond.
LEMMA FlagKeepsTally ==
    ASSUME NEW p, in_order(p), NEW c \in Proposal, c.votesFor = p.votesFor, c.votesAgainst = p.votesAgainst,
           c.voters = p.voters, c.receipts = p.receipts
    PROVE  tallied(c)
  BY DEF in_order, tallied, cast_on

\* A step that writes one proposal keeps the books when the slot and the tokens follow it.
LEMMA OneWritten ==
    ASSUME GovBooks, NEW id \in DOMAIN proposals, NEW p, in_order(p), proposals' = [proposals EXCEPT ![id] = p],
           Books', gov' \in Settings, UNCHANGED <<voteDelegate, weightSnapshot, delegatedWeight>>,
           \/ is_open(p) = is_open(proposals[id]) /\ openCount' = openCount
           \/ ~is_open(p) /\ is_open(proposals[id]) /\ close_slot,
           held' - totalDeposited' - rewardPool'
               = held - totalDeposited - rewardPool + bond_in(p) - bond_in(proposals[id])
    PROVE  GovBooks'
  <1>1. proposals \in Seq(Proposal) /\ p \in Proposal /\ proposals[id] \in Proposal
    BY ProposalsFinite DEF GovBooks, in_order
  <1>2. /\ proposals' \in Seq(Proposal) /\ DOMAIN proposals' = DOMAIN proposals /\ proposals'[id] = p
        /\ \A i \in DOMAIN proposals \ {id} : proposals'[i] = proposals[i]
    <2> DEFINE new == [proposals EXCEPT ![id] = p]
    <2>1. /\ new \in Seq(Proposal) /\ DOMAIN new = DOMAIN proposals /\ new[id] = p
          /\ \A i \in DOMAIN proposals \ {id} : new[i] = proposals[i]
      <3>1. proposals \in Seq(Proposal) /\ p \in Proposal /\ id \in DOMAIN proposals
        BY <1>1
      <3> QED BY ONLY <3>1
    <2>2. proposals' = new
      OBVIOUS
    <2> HIDE DEF new
    <2> QED BY ONLY <2>1, <2>2
  <1>2a. /\ bonds_of(proposals) \in Nat /\ bonds_of(proposals') \in Nat
         /\ bonds_of(proposals') = bonds_of(proposals) + bond_in(p) - bond_in(proposals[id])
    <2>1. id \in DOMAIN proposals
      OBVIOUS
    <2> QED BY ONLY <1>1, <1>2, <2>1, ProposalWritten
  <1>3. \A i \in DOMAIN proposals' : in_order(proposals'[i])
    BY <1>2 DEF GovBooks
  <1>4. held' = totalDeposited' + rewardPool' + bonds_of(proposals')
    <2>1. held = totalDeposited + rewardPool + bonds_of(proposals) /\ held \in Int /\ totalDeposited \in Nat /\ rewardPool \in Nat
      BY DEF GovBooks, Books
    <2>2. held' \in Int /\ totalDeposited' \in Nat /\ rewardPool' \in Nat
      BY DEF Books
    <2>3. bond_in(p) \in Nat /\ bond_in(proposals[id]) \in Nat
      BY <1>1 DEF bond_in, Proposal
    <2>4. held' - totalDeposited' - rewardPool'
              = held - totalDeposited - rewardPool + bond_in(p) - bond_in(proposals[id])
      OBVIOUS
    <2> QED BY ONLY <1>2a, <2>1, <2>2, <2>3, <2>4
  <1>5. openCount' = Cardinality(open_of(proposals'))
    <2>1. openCount = Cardinality(open_of(proposals)) /\ IsFiniteSet(open_of(proposals))
      BY <1>1, ProposalsFinite DEF GovBooks
    <2>2. CASE is_open(p) = is_open(proposals[id]) /\ openCount' = openCount
      <3>1. open_of(proposals') = open_of(proposals)
        BY <1>2, <2>2 DEF open_of
      <3> QED BY <2>1, <2>2, <3>1
    <2>3. CASE ~is_open(p) /\ is_open(proposals[id]) /\ close_slot
      <3>1. open_of(proposals') = open_of(proposals) \ {id} /\ id \in open_of(proposals)
        BY <1>2, <2>3 DEF open_of
      <3>2. Cardinality(open_of(proposals')) = Cardinality(open_of(proposals)) - 1
        BY <2>1, <3>1, FS_RemoveElement
      <3>3. openCount \in Nat /\ openCount # 0
        <4>1. Cardinality(open_of(proposals)) \in Nat /\ Cardinality(open_of(proposals)) # 0
          BY <2>1, <3>1, FS_CardinalityType, FS_EmptySet
        <4> QED BY <2>1, <4>1
      <3> QED BY <2>1, <2>3, <3>2, <3>3 DEF close_slot
    <2> QED BY <2>2, <2>3
  <1> QED BY <1>2, <1>3, <1>4, <1>5 DEF GovBooks

\* Votes weigh a natural number.
LEMMA WeightNat ==
    ASSUME Books, NEW u \in Users, NEW m
    PROVE  weigh(m, amount_of(u)) \in Nat
  <1>1. amount_of(u) \in Nat
    BY AmountBound DEF Books
  <1>2. isqrt(amount_of(u)) \in Nat
    BY <1>1, SquareRootFloor
  <1> QED BY <1>1, <1>2 DEF weigh

\* A vote is cast with the weight of the voter and of its delegators.
LEMMA VoteKeeps ==
    ASSUME GovBooks, NEW u \in Users, NEW id \in DOMAIN proposals, NEW s \in BOOLEAN, vote(u, id, s)
    PROVE  GovBooks'
  <1> DEFINE p == proposals[id]
             w == weigh(p.mode, amount_of(u)) + delegatedWeight[u]
             c == cast(p, u, s, w)
  <1>1. proposals' = [proposals EXCEPT ![id] = c] /\ u \notin p.voters
        /\ UNCHANGED <<base_vars, gov, params, openCount, voteDelegate, weightSnapshot, delegatedWeight>>
    BY DEF vote, votable
  <1>2. w \in Nat
    <2>1. weigh(p.mode, amount_of(u)) \in Nat /\ delegatedWeight[u] \in Nat
      BY WeightNat DEF GovBooks
    <2> QED BY <2>1
  <1>3. in_order(p)
    BY DEF GovBooks
  <1> HIDE DEF w
  <1>4. in_order(c) /\ bond_in(c) = bond_in(p) /\ is_open(c) = is_open(p)
    <2> HIDE DEF p
    <2> QED BY <1>1, <1>2, <1>3, CastInOrder
  <1>5. Books' /\ gov' \in Settings /\ UNCHANGED <<held, totalDeposited, rewardPool>>
    BY <1>1 DEF GovBooks, Books, base_vars, pool
  <1>6. held' - totalDeposited' - rewardPool' = held - totalDeposited - rewardPool + bond_in(c) - bond_in(p)
    <2>1. bond_in(p) \in Nat /\ held \in Int /\ totalDeposited \in Nat /\ rewardPool \in Nat
      BY <1>3 DEF in_order, bond_in, Proposal, GovBooks, Books
    <2> HIDE DEF p, c
    <2> QED BY <1>4, <1>5, <2>1
  <1> HIDE DEF c
  <1> QED BY <1>1, <1>4, <1>5, <1>6, OneWritten

\* A large staker's veto leaves tally, slot and bond alone.
LEMMA VetoKeeps ==
    ASSUME GovBooks, NEW u \in Users, NEW id \in DOMAIN proposals, veto_proposal(u, id)
    PROVE  GovBooks'
  <1> DEFINE p == proposals[id]
             c == [p EXCEPT !.vetoer = u]
  <1>1. /\ proposals' = [proposals EXCEPT ![id] = c] /\ ~p.enacted
        /\ UNCHANGED <<base_vars, gov, params, openCount, voteDelegate, weightSnapshot, delegatedWeight>>
    BY DEF veto_proposal
  <1>2. in_order(p) /\ p \in Proposal
    BY DEF GovBooks, in_order
  <1>3. /\ c \in Proposal /\ c.votesFor = p.votesFor /\ c.votesAgainst = p.votesAgainst
        /\ c.voters = p.voters /\ c.receipts = p.receipts /\ c.enacted = p.enacted /\ c.cancelled = p.cancelled
        /\ c.settled = p.settled /\ c.bond = p.bond
    <2> HIDE DEF p
    <2> QED BY <1>2 DEF Proposal
  <1> HIDE DEF c
  <1>4. in_order(c) /\ bond_in(c) = bond_in(p) /\ is_open(c) = is_open(p)
    <2> HIDE DEF p
    <2>1. tallied(c)
      BY <1>2, <1>3, FlagKeepsTally
    <2> QED BY <1>1, <1>2, <1>3, <2>1 DEF in_order, bond_in, is_open
  <1>5. Books' /\ gov' \in Settings /\ UNCHANGED <<held, totalDeposited, rewardPool>>
    BY <1>1 DEF GovBooks, Books, base_vars, pool
  <1>6. held' - totalDeposited' - rewardPool' = held - totalDeposited - rewardPool + bond_in(c) - bond_in(p)
    <2>1. bond_in(p) \in Nat /\ held \in Int /\ totalDeposited \in Nat /\ rewardPool \in Nat
      BY <1>2 DEF bond_in, Proposal, GovBooks, Books
    <2> HIDE DEF p
    <2> QED BY <1>4, <1>5, <2>1
  <1> QED BY <1>1, <1>4, <1>5, <1>6, OneWritten

\* So does the guardian's, which is also counted.
LEMMA GuardianVetoKeeps ==
    ASSUME GovBooks, NEW id \in DOMAIN proposals, guardian_veto_proposal(id)
    PROVE  GovBooks'
  <1> DEFINE p == proposals[id]
             c == [p EXCEPT !.guardianVeto = TRUE]
             n == gov.vetoes + 1
  <1>1. /\ proposals' = [proposals EXCEPT ![id] = c] /\ ~p.enacted /\ gov' = [gov EXCEPT !.vetoes = n]
        /\ UNCHANGED <<base_vars, params, openCount, voteDelegate, weightSnapshot, delegatedWeight>>
    BY DEF guardian_veto_proposal
  <1>2. in_order(p) /\ p \in Proposal /\ gov \in Settings
    BY DEF GovBooks, in_order
  <1>3. /\ c \in Proposal /\ c.votesFor = p.votesFor /\ c.votesAgainst = p.votesAgainst
        /\ c.voters = p.voters /\ c.receipts = p.receipts /\ c.enacted = p.enacted /\ c.cancelled = p.cancelled
        /\ c.settled = p.settled /\ c.bond = p.bond
    <2> HIDE DEF p
    <2> QED BY <1>2 DEF Proposal
  <1> HIDE DEF c
  <1>4. in_order(c) /\ bond_in(c) = bond_in(p) /\ is_open(c) = is_open(p)
    <2> HIDE DEF p
    <2>1. tallied(c)
      BY <1>2, <1>3, FlagKeepsTally
    <2> QED BY <1>1, <1>2, <1>3, <2>1 DEF in_order, bond_in, is_open
  <1>5. gov' \in Settings
    <2>1. n \in Nat
      BY <1>2 DEF Settings
    <2> HIDE DEF n
    <2> QED BY <1>1, <1>2, <2>1 DEF Settings
  <1>6. Books' /\ UNCHANGED <<held, totalDeposited, rewardPool>>
    BY <1>1 DEF GovBooks, Books, base_vars, pool
  <1>7. held' - totalDeposited' - rewardPool' = held - totalDeposited - rewardPool + bond_in(c) - bond_in(p)
    <2>1. bond_in(p) \in Nat /\ held \in Int /\ totalDeposited \in Nat /\ rewardPool \in Nat
      BY <1>2 DEF bond_in, Proposal, GovBooks, Books
    <2> HIDE DEF p
    <2> QED BY <1>4, <1>6, <2>1
  <1> QED BY <1>1, <1>4, <1>5, <1>6, <1>7, OneWritten

\* A cancellation frees the slot and refunds the bond.
LEMMA CancelKeeps ==
    ASSUME GovBooks, NEW u \in Users, NEW id \in DOMAIN proposals, cancel_proposal(u, id)
    PROVE  GovBooks'
  <1> DEFINE p == proposals[id]
             c == [p EXCEPT !.cancelled = TRUE]
  <1>1. /\ proposals' = [proposals EXCEPT ![id] = c] /\ is_open(p) /\ close_slot /\ push(u, p.bond)
        /\ UNCHANGED <<now, pool, rewardPool, gov, params, voteDelegate, weightSnapshot, delegatedWeight>>
    BY DEF cancel_proposal
  <1>2. in_order(p) /\ p \in Proposal
    BY DEF GovBooks, in_order
  <1>3. /\ c \in Proposal /\ c.votesFor = p.votesFor /\ c.votesAgainst = p.votesAgainst
        /\ c.voters = p.voters /\ c.receipts = p.receipts /\ c.enacted = p.enacted /\ c.cancelled = TRUE
        /\ c.settled = p.settled
    <2> HIDE DEF p
    <2> QED BY <1>2 DEF Proposal
  <1> HIDE DEF c
  <1>4. in_order(c) /\ bond_in(c) = 0 /\ bond_in(p) = p.bond /\ ~is_open(c) /\ p.bond \in Nat
    <2> HIDE DEF p
    <2>1. tallied(c)
      BY <1>2, <1>3, FlagKeepsTally
    <2> QED BY <1>1, <1>2, <1>3, <2>1 DEF in_order, bond_in, is_open, Proposal
  <1>5. wallet \in [Accounts -> Nat] /\ held \in Int /\ totalDeposited \in Nat /\ rewardPool \in Nat /\ u \in Accounts
    BY DEF GovBooks, Books, Accounts
  <1>6. wallet' \in [Accounts -> Nat] /\ held' \in Int /\ held' = held - p.bond
    <2> HIDE DEF p
    <2> QED BY <1>1, <1>4, <1>5, PushTyped
  <1>7. Books' /\ gov' \in Settings /\ UNCHANGED <<totalDeposited, rewardPool>>
    BY <1>1, <1>6 DEF GovBooks, Books, pool
  <1>8. held' - totalDeposited' - rewardPool' = held - totalDeposited - rewardPool + bond_in(c) - bond_in(p)
    <2> HIDE DEF p
    <2> QED BY <1>4, <1>5, <1>6, <1>7
  <1> QED BY <1>1, <1>4, <1>7, <1>8, OneWritten

\* An enactment frees the slot and settles the bond, whoever receives it.
LEMMA EnactKeeps ==
    ASSUME GovBooks, NEW id \in DOMAIN proposals, enact_proposal(id)
    PROVE  GovBooks'
  <1> DEFINE p == proposals[id]
             c1 == [p EXCEPT !.enacted = TRUE]
             c == [c1 EXCEPT !.settled = TRUE]
  <1>1. /\ proposals' = [proposals EXCEPT ![id].enacted = TRUE, ![id].settled = TRUE]
        /\ is_open(p) /\ close_slot /\ settle_bond(p)
        /\ p.vetoer = Nobody /\ ~p.guardianVeto
        /\ UNCHANGED <<now, pool, rewardPool, gov, voteDelegate, weightSnapshot, delegatedWeight>>
    BY DEF enact_proposal
  <1>2. in_order(p) /\ p \in Proposal /\ proposals \in Seq(Proposal)
    BY DEF GovBooks, in_order
  <1>3. proposals' = [proposals EXCEPT ![id] = c]
    BY <1>1, <1>2
  <1>4. /\ c \in Proposal /\ c.votesFor = p.votesFor /\ c.votesAgainst = p.votesAgainst
        /\ c.voters = p.voters /\ c.receipts = p.receipts /\ c.enacted = TRUE /\ c.cancelled = p.cancelled
        /\ c.settled = TRUE /\ c.vetoer = p.vetoer /\ c.guardianVeto = p.guardianVeto
    <2> HIDE DEF p
    <2>1. /\ c1 \in Proposal /\ c1.votesFor = p.votesFor /\ c1.votesAgainst = p.votesAgainst
          /\ c1.voters = p.voters /\ c1.receipts = p.receipts /\ c1.enacted = TRUE /\ c1.cancelled = p.cancelled
          /\ c1.vetoer = p.vetoer /\ c1.guardianVeto = p.guardianVeto
      BY <1>2 DEF Proposal
    <2> HIDE DEF c1
    <2>2. /\ c \in Proposal /\ c.votesFor = c1.votesFor /\ c.votesAgainst = c1.votesAgainst
          /\ c.voters = c1.voters /\ c.receipts = c1.receipts /\ c.enacted = c1.enacted /\ c.cancelled = c1.cancelled
          /\ c.settled = TRUE /\ c.vetoer = c1.vetoer /\ c.guardianVeto = c1.guardianVeto
      BY ONLY <2>1 DEF Proposal
    <2> QED BY <2>1, <2>2
  <1> HIDE DEF c
  <1>5. in_order(c) /\ bond_in(c) = 0 /\ ~is_open(c) /\ p.bond \in Nat /\ p.proposer \in Users /\ bond_in(p) \in Nat
    <2> HIDE DEF p
    <2>1. tallied(c)
      BY <1>2, <1>4, FlagKeepsTally
    <2> QED BY <1>1, <1>2, <1>4, <2>1 DEF in_order, bond_in, is_open, Proposal
  <1>6. wallet \in [Accounts -> Nat] /\ held \in Int /\ totalDeposited \in Nat /\ rewardPool \in Nat
    BY DEF GovBooks, Books
  <1>7. wallet' \in [Accounts -> Nat] /\ held' \in Int /\ held' = held - bond_in(p)
    <2> HIDE DEF p
    <2>1. CASE p.settled \/ p.bond = 0
      <3>1. UNCHANGED <<wallet, held>> /\ bond_in(p) = 0
        BY <1>1, <2>1 DEF settle_bond, bond_in
      <3> QED BY <1>6, <3>1
    <2>2. CASE ~(p.settled \/ p.bond = 0)
      <3>1. bond_in(p) = p.bond
        BY <1>1, <2>2 DEF bond_in, is_open
      <3>2. PICK a \in Accounts : push(a, p.bond)
        BY <1>1, <1>5, <2>2 DEF settle_bond, Accounts
      <3> QED BY <1>5, <1>6, <3>1, <3>2, PushTyped
    <2> QED BY <2>1, <2>2
  <1>8. Books' /\ gov' \in Settings /\ UNCHANGED <<totalDeposited, rewardPool>>
    BY <1>1, <1>7 DEF GovBooks, Books, pool
  <1>9. held' - totalDeposited' - rewardPool' = held - totalDeposited - rewardPool + bond_in(c) - bond_in(p)
    <2> HIDE DEF p
    <2> QED BY <1>5, <1>6, <1>7, <1>8
  <1> QED BY <1>1, <1>3, <1>5, <1>8, <1>9, OneWritten

\* A new proposal has no votes and its bond is pulled in.
LEMMA CreateKeeps ==
    ASSUME GovBooks, NEW u \in Users, NEW parameter \in Parameters, NEW value \in ParamValues,
           NEW duration \in Durations, create_proposal(u, parameter, value, duration)
    PROVE  GovBooks'
  <1> DEFINE none == [v \in Users |-> NoVote]
             p == [parameter |-> parameter, value |-> value, mode |-> gov.mode,
                   votesFor |-> 0, votesAgainst |-> 0, createdAt |-> now, endsAt |-> now + duration,
                   enacted |-> FALSE, cancelled |-> FALSE, vetoer |-> Nobody, guardianVeto |-> FALSE,
                   proposer |-> u, bond |-> gov.bond, settled |-> FALSE,
                   rules |-> gov.rules, base |-> totalDeposited, voters |-> {}, receipts |-> none]
             k == Len(proposals) + 1
  <1>1. /\ proposals' = Append(proposals, p) /\ openCount' = openCount + 1 /\ pull(u, gov.bond)
        /\ UNCHANGED <<now, pool, rewardPool, gov, params, voteDelegate, weightSnapshot, delegatedWeight>>
    BY DEF create_proposal
  <1>2. /\ proposals \in Seq(Proposal) /\ gov \in Settings /\ gov.bond \in Nat /\ gov.mode \in Modes
        /\ gov.rules \in Rule /\ now \in Int /\ totalDeposited \in Nat /\ duration \in Int
    BY BaseAssumption DEF GovBooks, Books, Settings
  <1>3. none \in [Users -> Receipt]
    BY DEF NoVote, Receipt
  <1> HIDE DEF none
  <1>4. p \in Proposal
    BY ONLY <1>2, <1>3, u \in Users, parameter \in Parameters, value \in ParamValues DEF Proposal
  <1>5. /\ p.voters = {} /\ p.votesFor = 0 /\ p.votesAgainst = 0 /\ p.bond = gov.bond
        /\ ~p.enacted /\ ~p.cancelled /\ ~p.settled
    OBVIOUS
  <1> HIDE DEF p
  <1>6. in_order(p) /\ is_open(p) /\ bond_in(p) = gov.bond
    <2>1. ASSUME NEW b \in BOOLEAN PROVE sum(cast_on(p, b)) = 0
      <3> DEFINE f == cast_on(p, b)   S == p.voters
      <3>1. IsFiniteSet(S) /\ f \in [S -> Int] /\ \A x \in S : f[x] = 0
        BY <1>5, FS_EmptySet DEF cast_on
      <3> HIDE DEF f, S
      <3>2. sum(f) = 0
        BY ONLY <3>1, SumZero
      <3> QED BY <3>2 DEF f
    <2>2. tallied(p)
      BY <1>5, <2>1 DEF tallied
    <2> QED BY <1>4, <1>5, <2>2 DEF in_order, is_open, bond_in
  <1>7. /\ proposals' \in Seq(Proposal) /\ DOMAIN proposals' = DOMAIN proposals \cup {k} /\ k \notin DOMAIN proposals
        /\ proposals'[k] = p /\ \A i \in DOMAIN proposals : proposals'[i] = proposals[i]
    <2> DEFINE new == Append(proposals, p)
    <2>1. /\ new \in Seq(Proposal) /\ DOMAIN new = DOMAIN proposals \cup {k} /\ k \notin DOMAIN proposals
          /\ new[k] = p /\ \A i \in DOMAIN proposals : new[i] = proposals[i]
      BY ONLY <1>2, <1>4
    <2>2. proposals' = new
      BY <1>1
    <2> HIDE DEF new
    <2> QED BY ONLY <2>1, <2>2
  <1> HIDE DEF k
  <1>8. /\ bonds_of(proposals) \in Nat /\ bonds_of(proposals') = bonds_of(proposals) + bond_in(p)
        /\ Cardinality(open_of(proposals')) = Cardinality(open_of(proposals)) + 1
    BY ONLY <1>2, <1>4, <1>6, <1>7, ProposalAdded
  <1>9. wallet' \in [Accounts -> Nat] /\ held' \in Int /\ held' = held + gov.bond
    BY <1>1, <1>2, PullTyped DEF GovBooks, Books, Accounts
  <1>10. Books' /\ gov' \in Settings /\ UNCHANGED <<totalDeposited, rewardPool>>
    BY <1>1, <1>9 DEF GovBooks, Books, pool
  <1>11. held' = totalDeposited' + rewardPool' + bonds_of(proposals')
    <2>1. held = totalDeposited + rewardPool + bonds_of(proposals) /\ rewardPool \in Nat
      BY DEF GovBooks, Books
    <2> QED BY ONLY <1>2, <1>6, <1>8, <1>9, <1>10, <2>1
  <1>12. \A i \in DOMAIN proposals' : in_order(proposals'[i])
    BY <1>6, <1>7 DEF GovBooks
  <1>13. openCount' = Cardinality(open_of(proposals'))
    BY <1>1, <1>8 DEF GovBooks
  <1> QED BY <1>1, <1>7, <1>10, <1>11, <1>12, <1>13 DEF GovBooks

\* A step that rewrites proposals and leaves each one's bond and openness as they were.
LEMMA AllRewritten ==
    ASSUME GovBooks, DOMAIN proposals' = DOMAIN proposals, proposals' \in Seq(Proposal),
           \A i \in DOMAIN proposals :
               /\ in_order(proposals'[i]) /\ bond_in(proposals'[i]) = bond_in(proposals[i])
               /\ is_open(proposals'[i]) = is_open(proposals[i]),
           UNCHANGED <<base_vars, gov, openCount, voteDelegate, weightSnapshot, delegatedWeight>>
    PROVE  GovBooks'
  <1>1. open_of(proposals') = open_of(proposals)
    BY DEF open_of
  <1>2. bonds_of(proposals') = bonds_of(proposals)
    <2>1. [i \in DOMAIN proposals' |-> bond_in(proposals'[i])] = [i \in DOMAIN proposals |-> bond_in(proposals[i])]
      OBVIOUS
    <2> QED BY ONLY <2>1 DEF bonds_of
  <1>3. Books' /\ UNCHANGED <<held, totalDeposited, rewardPool>>
    BY DEF GovBooks, Books, base_vars, pool
  <1> QED BY <1>1, <1>2, <1>3 DEF GovBooks

\* A batch casts at most one vote on each proposal.
LEMMA BatchVoteKeeps ==
    ASSUME GovBooks, NEW u \in Users, NEW ballots \in Seq([id : Nat, support : BOOLEAN]), batch_vote(u, ballots)
    PROVE  GovBooks'
  <1> DEFINE w == weigh(gov.mode, amount_of(u))
             naming(id) == {k \in DOMAIN ballots : ballots[k].id = id}
             side(id) == ballots[Min(naming(id))].support
             counts(id) == w > 0 /\ naming(id) # {} /\ votable(proposals[id], u)
             next(id) == IF counts(id) THEN cast(proposals[id], u, side(id), w) ELSE proposals[id]
  <1>1. /\ proposals' = [id \in DOMAIN proposals |-> next(id)]
        /\ UNCHANGED <<base_vars, gov, params, openCount, voteDelegate, weightSnapshot, delegatedWeight>>
    BY DEF batch_vote
  <1>2. w \in Nat /\ proposals \in Seq(Proposal)
    BY WeightNat DEF GovBooks
  <1> HIDE DEF w
  <1>3. ASSUME NEW id, naming(id) # {} PROVE side(id) \in BOOLEAN
    <2> DEFINE N == naming(id)
    <2>1. N \subseteq Nat /\ N # {} /\ N \subseteq DOMAIN ballots
      BY <1>3
    <2> HIDE DEF N
    <2>2. PICK k \in N : \A t \in N : k <= t
      BY ONLY <2>1, LeastNat
    <2>3. Min(N) \in N
      BY <2>2 DEF Min
    <2>4. ballots[Min(N)] \in [id : Nat, support : BOOLEAN]
      <3> DEFINE B == [id : Nat, support : BOOLEAN]
      <3>0. ballots \in Seq(B)
        OBVIOUS
      <3> HIDE DEF B
      <3>1. \A i \in DOMAIN ballots : ballots[i] \in B
        BY ONLY <3>0
      <3>2. Min(N) \in DOMAIN ballots
        BY ONLY <2>1, <2>3
      <3> QED BY <3>1, <3>2 DEF B
    <2> QED BY <2>4 DEF N
  <1>4. ASSUME NEW id \in DOMAIN proposals
        PROVE  in_order(next(id)) /\ bond_in(next(id)) = bond_in(proposals[id]) /\ is_open(next(id)) = is_open(proposals[id])
    <2>1. in_order(proposals[id])
      BY DEF GovBooks
    <2>2. CASE counts(id)
      <3> DEFINE p == proposals[id]   s == side(id)   c == cast(p, u, s, w)
      <3>1. s \in BOOLEAN /\ u \notin p.voters /\ in_order(p) /\ next(id) = c
        BY <1>3, <2>1, <2>2 DEF votable
      <3> HIDE DEF p, s
      <3>2. in_order(c) /\ bond_in(c) = bond_in(p) /\ is_open(c) = is_open(p)
        BY <1>2, <3>1, CastInOrder
      <3> QED BY <3>1, <3>2 DEF p
    <2>3. CASE ~counts(id)
      BY <2>1, <2>3
    <2> QED BY <2>2, <2>3
  <1> HIDE DEF next
  <1>5. DOMAIN proposals' = DOMAIN proposals /\ \A id \in DOMAIN proposals : proposals'[id] = next(id)
    BY <1>1
  <1>6. proposals' \in Seq(Proposal)
    <2> DEFINE n == Len(proposals)
    <2>1. n \in Nat /\ DOMAIN proposals = 1..n
      BY <1>2
    <2>2. \A id \in 1..n : next(id) \in Proposal
      BY <1>4, <2>1 DEF in_order
    <2> HIDE DEF n
    <2>3. proposals' = [id \in 1..n |-> next(id)]
      BY <1>1, <2>1
    <2> QED BY <2>1, <2>2, <2>3
  <1>7. \A i \in DOMAIN proposals :
               /\ in_order(proposals'[i]) /\ bond_in(proposals'[i]) = bond_in(proposals[i])
               /\ is_open(proposals'[i]) = is_open(proposals[i])
    BY <1>4, <1>5
  <1> QED BY <1>1, <1>5, <1>6, <1>7, AllRewritten

\* The administrator's setters write natural numbers and modes.
LEMMA SettingsKeep ==
    ASSUME GovBooks, GovSettings, UNCHANGED base_vars
    PROVE  GovBooks'
  <1>1. gov \in Settings
    BY DEF GovBooks
  <1>2. ASSUME NEW new \in Settings, gov_settings(new) PROVE GovBooks'
    <2> DEFINE n == new.changes + 1
    <2>1. n \in Nat
      BY <1>2 DEF Settings
    <2>2. gov' = [new EXCEPT !.changes = n]
      BY <1>2 DEF gov_settings
    <2> HIDE DEF n
    <2>3. gov' \in Settings
      BY ONLY <1>2, <2>1, <2>2 DEF Settings
    <2>4. UNCHANGED <<proposals, openCount, voteDelegate, weightSnapshot, delegatedWeight>>
      BY <1>2 DEF gov_settings
    <2>5. Books' /\ UNCHANGED <<held, totalDeposited, rewardPool>>
      BY DEF GovBooks, Books, base_vars, pool
    <2> QED BY <2>3, <2>4, <2>5 DEF GovBooks
  <1>3. ASSUME NEW n \in Nat
        PROVE  /\ [gov EXCEPT !.delay = n] \in Settings /\ [gov EXCEPT !.limit = n] \in Settings
               /\ [gov EXCEPT !.vetoes = n] \in Settings /\ [gov EXCEPT !.bond = n] \in Settings
               /\ [gov EXCEPT !.cutoff = n] \in Settings /\ [gov EXCEPT !.quorum = n] \in Settings
               /\ [gov EXCEPT !.vetoBps = n] \in Settings
    BY ONLY <1>1, <1>3 DEF Settings
  <1>4. ASSUME NEW n \in Nat PROVE [gov EXCEPT !.minStake = n, !.bond = n] \in Settings
    BY ONLY <1>1, <1>4 DEF Settings
  <1>5. ASSUME NEW n \in Nat PROVE [gov EXCEPT !.rules = [quorum |-> n, threshold |-> n]] \in Settings
    <2> DEFINE r == [quorum |-> n, threshold |-> n]
    <2>1. r \in Rule
      BY <1>5 DEF Rule
    <2> HIDE DEF r
    <2>2. [gov EXCEPT !.rules = r] \in Settings
      BY ONLY <1>1, <2>1 DEF Settings
    <2> QED BY <2>2 DEF r
  <1>6. ASSUME NEW m \in Modes PROVE [gov EXCEPT !.mode = m] \in Settings
    BY ONLY <1>1, <1>6 DEF Settings
  <1>7. /\ GovRules.delays \subseteq Nat /\ GovRules.limits \subseteq Nat /\ GovRules.bonds \subseteq Nat
        /\ GovRules.cutoffs \subseteq Nat /\ GovRules.quorums \subseteq Nat /\ GovRules.modes \subseteq Modes
    BY GovAssumption DEF Modes
  <1>8. ASSUME NEW d \in GovRules.delays, set_execution_delay(d) PROVE GovBooks'
    BY <1>2, <1>3, <1>7, <1>8 DEF set_execution_delay
  <1>9. ASSUME NEW n \in GovRules.limits, set_guardian_veto_limit(n) PROVE GovBooks'
    BY <1>2, <1>3, <1>7, <1>9 DEF set_guardian_veto_limit
  <1>10. ASSUME reset_guardian_veto_count PROVE GovBooks'
    BY <1>2, <1>3, <1>10 DEF reset_guardian_veto_count
  <1>11. ASSUME NEW a \in GovRules.bonds, set_proposal_bond(a) \/ set_proposal_requirements(a, a) PROVE GovBooks'
    <2>1. CASE set_proposal_bond(a)
      BY <1>2, <1>3, <1>7, <1>11, <2>1 DEF set_proposal_bond
    <2>2. CASE set_proposal_requirements(a, a)
      BY <1>2, <1>4, <1>7, <1>11, <2>2 DEF set_proposal_requirements
    <2> QED BY <1>11, <2>1, <2>2
  <1>12. ASSUME NEW n \in GovRules.cutoffs, set_cancellation_cutoff(n) PROVE GovBooks'
    BY <1>2, <1>3, <1>7, <1>12 DEF set_cancellation_cutoff
  <1>13. ASSUME NEW q \in GovRules.quorums,
                set_proposal_quorum_bps(q) \/ set_governance_params(q, q) \/ set_veto_threshold_bps(q)
         PROVE  GovBooks'
    <2>1. CASE set_proposal_quorum_bps(q)
      <3> DEFINE new == [gov EXCEPT !.quorum = q]
      <3>1. q \in Nat /\ gov_settings(new)
        BY <1>7, <1>13, <2>1 DEF set_proposal_quorum_bps
      <3>2. new \in Settings
        BY <1>3, <3>1
      <3> HIDE DEF new
      <3> QED BY <1>2, <3>1, <3>2
    <2>2. CASE set_governance_params(q, q)
      <3> DEFINE new == [gov EXCEPT !.rules = [quorum |-> q, threshold |-> q]]
      <3>0. gov_settings(new)
        BY <2>2 DEF set_governance_params
      <3>1. q \in Nat /\ gov_settings(new)
        BY <1>7, <1>13, <3>0
      <3>2. new \in Settings
        BY <1>5, <3>1
      <3> HIDE DEF new
      <3> QED BY <1>2, <3>1, <3>2
    <2>3. CASE set_veto_threshold_bps(q)
      <3> DEFINE new == [gov EXCEPT !.vetoBps = q]
      <3>1. q \in Nat /\ gov_settings(new)
        BY <1>7, <1>13, <2>3 DEF set_veto_threshold_bps
      <3>2. new \in Settings
        BY <1>3, <3>1
      <3> HIDE DEF new
      <3> QED BY <1>2, <3>1, <3>2
    <2> QED BY <1>13, <2>1, <2>2, <2>3
  <1>14. ASSUME NEW m \in GovRules.modes, set_vote_weight_mode(m) PROVE GovBooks'
    BY <1>2, <1>6, <1>7, <1>14 DEF set_vote_weight_mode
  <1> QED BY <1>8, <1>9, <1>10, <1>11, <1>12, <1>13, <1>14 DEF GovSettings

-------------------------------------------------------------------------------
(* Delegated weight. *)

\* The entry of u makes the whole difference in what d was lent.
moves_by_one(vd, ws, vd2, ws2, u, d) ==
    /\ sum(lent_to(vd, ws, d)) \in Nat
    /\ vd[u] = d => ws[u] <= sum(lent_to(vd, ws, d))
    /\ sum(lent_to(vd2, ws2, d)) = sum(lent_to(vd, ws, d)) + (IF vd2[u] = d THEN ws2[u] ELSE 0)
                                                           - (IF vd[u] = d THEN ws[u] ELSE 0)

\* What is lent when one delegator's delegate and snapshot are written.
LEMMA LentChange ==
    ASSUME NEW vd \in [Users -> Users \cup {Nobody}], NEW ws \in [Users -> Nat], NEW d \in Users, NEW u \in Users,
           NEW vd2 \in [Users -> Users \cup {Nobody}], NEW ws2 \in [Users -> Nat],
           \A v \in Users \ {u} : vd2[v] = vd[v] /\ ws2[v] = ws[v]
    PROVE  moves_by_one(vd, ws, vd2, ws2, u, d)
  <1> DEFINE f == lent_to(vd, ws, d)   g == lent_to(vd2, ws2, d)
  <1>1. /\ f \in [Users -> Nat] /\ g \in [Users -> Nat] /\ f \in [Users -> Int] /\ g \in [Users -> Int]
        /\ \A v \in Users \ {u} : g[v] = f[v]
        /\ IsFiniteSet(Users) /\ u \in Users
    BY BaseAssumption DEF lent_to
  <1>2. f[u] = (IF vd[u] = d THEN ws[u] ELSE 0) /\ g[u] = (IF vd2[u] = d THEN ws2[u] ELSE 0)
    BY DEF lent_to
  <1> HIDE DEF f, g
  <1>3. sum(g) = sum(f) + g[u] - f[u]
    BY ONLY <1>1, SumChange
  <1>4. sum(f) \in Nat /\ f[u] <= sum(f)
    BY ONLY <1>1, SumNat, SumBound
  <1> QED BY <1>2, <1>3, <1>4 DEF f, g, moves_by_one

\* Delegation books alone: everything else stays.
LEMMA LendingKeeps ==
    ASSUME GovBooks, UNCHANGED <<base_vars, gov, proposals, openCount>>,
           voteDelegate' \in [Users -> Users \cup {Nobody}], weightSnapshot' \in [Users -> Nat],
           delegatedWeight' \in [Users -> Nat],
           \A d \in Users : delegatedWeight'[d] = sum(lent_to(voteDelegate', weightSnapshot', d))
    PROVE  GovBooks'
  <1>1. Books' /\ UNCHANGED <<held, totalDeposited, rewardPool>>
    BY DEF GovBooks, Books, base_vars, pool
  <1> QED BY <1>1 DEF GovBooks

\* What withdrawing u's weight leaves each delegate.
LEMMA WithdrawnWeight ==
    ASSUME GovBooks, NEW u \in Users
    PROVE  /\ withdrawn(u) \in [Users -> Nat]
           /\ \A d \in Users : withdrawn(u)[d] = sum(lent_to(voteDelegate, weightSnapshot, d))
                                                - (IF voteDelegate[u] = d THEN weightSnapshot[u] ELSE 0)
  <1> DEFINE vd == voteDelegate   ws == weightSnapshot   dw == delegatedWeight
             L(d) == sum(lent_to(vd, ws, d))
  <1>1. /\ vd \in [Users -> Users \cup {Nobody}] /\ ws \in [Users -> Nat] /\ dw \in [Users -> Nat]
        /\ \A d \in Users : dw[d] = L(d)
    BY DEF GovBooks
  <1>2. \A d \in Users : L(d) \in Nat /\ (vd[u] = d => ws[u] <= L(d))
    <2>1. \A d \in Users : moves_by_one(vd, ws, vd, ws, u, d)
      BY <1>1, LentChange
    <2> QED BY <2>1 DEF moves_by_one
  <1>3. withdrawn(u) = IF vd[u] = Nobody THEN dw
                       ELSE [dw EXCEPT ![vd[u]] = IF dw[vd[u]] > ws[u] THEN dw[vd[u]] - ws[u] ELSE 0]
    BY DEF withdrawn
  <1>4. Nobody \notin Users /\ u \in Users
    BY BaseAssumption
  <1> HIDE DEF L, vd, ws, dw
  <1>5. CASE vd[u] = Nobody
    <2>1. withdrawn(u) = dw
      BY <1>3, <1>5
    <2>2. \A d \in Users : vd[u] # d
      BY ONLY <1>4, <1>5
    <2>3. withdrawn(u) \in [Users -> Nat] /\ \A d \in Users : withdrawn(u)[d] = L(d) - (IF vd[u] = d THEN ws[u] ELSE 0)
      BY ONLY <1>1, <1>2, <2>1, <2>2
    <2> QED BY <2>3 DEF L, vd, ws
  <1>6. CASE vd[u] # Nobody
    <2> DEFINE e == vd[u]
               r == IF dw[e] > ws[u] THEN dw[e] - ws[u] ELSE 0
    <2>1. e \in Users /\ withdrawn(u) = [dw EXCEPT ![e] = r]
      BY <1>1, <1>3, <1>4, <1>6
    <2>2. r = L(e) - ws[u] /\ r \in Nat
      <3>1. dw[e] = L(e) /\ L(e) \in Nat /\ ws[u] <= L(e) /\ ws[u] \in Nat
        BY <1>1, <1>2, <1>4, <2>1
      <3> QED BY <3>1
    <2> HIDE DEF r
    <2>3. withdrawn(u) \in [Users -> Nat]
      BY ONLY <1>1, <2>1, <2>2
    <2>4. \A d \in Users : withdrawn(u)[d] = L(d) - (IF vd[u] = d THEN ws[u] ELSE 0)
      <3> TAKE d \in Users
      <3>1. CASE d = e
        BY <1>1, <2>1, <2>2, <3>1
      <3>2. CASE d # e
        <4>1. withdrawn(u)[d] = dw[d] /\ vd[u] # d /\ L(d) \in Nat /\ dw[d] = L(d)
          BY <1>1, <1>2, <2>1, <3>2
        <4> QED BY <4>1
      <3> QED BY <3>1, <3>2
    <2> QED BY <2>3, <2>4 DEF L, vd, ws
  <1> QED BY <1>5, <1>6

\* A revocation takes back exactly what was lent.
LEMMA RevokeKeeps ==
    ASSUME GovBooks, NEW u \in Users, revoke_vote_delegation(u)
    PROVE  GovBooks'
  <1>1. /\ voteDelegate \in [Users -> Users \cup {Nobody}] /\ weightSnapshot \in [Users -> Nat]
        /\ delegatedWeight' = withdrawn(u)
        /\ weightSnapshot' = [weightSnapshot EXCEPT ![u] = 0] /\ voteDelegate' = [voteDelegate EXCEPT ![u] = Nobody]
        /\ UNCHANGED <<base_vars, gov, params, proposals, openCount>>
    BY DEF GovBooks, revoke_vote_delegation
  <1>2. /\ voteDelegate' \in [Users -> Users \cup {Nobody}] /\ weightSnapshot' \in [Users -> Nat]
        /\ voteDelegate'[u] = Nobody
        /\ \A v \in Users \ {u} : voteDelegate'[v] = voteDelegate[v] /\ weightSnapshot'[v] = weightSnapshot[v]
    BY <1>1
  <1>3. /\ withdrawn(u) \in [Users -> Nat]
        /\ \A d \in Users : withdrawn(u)[d] = sum(lent_to(voteDelegate, weightSnapshot, d))
                                             - (IF voteDelegate[u] = d THEN weightSnapshot[u] ELSE 0)
    BY WithdrawnWeight
  <1>4. ASSUME NEW d \in Users
        PROVE  delegatedWeight'[d] = sum(lent_to(voteDelegate', weightSnapshot', d))
    <2>1. /\ sum(lent_to(voteDelegate, weightSnapshot, d)) \in Nat
          /\ sum(lent_to(voteDelegate', weightSnapshot', d)) = sum(lent_to(voteDelegate, weightSnapshot, d))
                 + (IF voteDelegate'[u] = d THEN weightSnapshot'[u] ELSE 0)
                 - (IF voteDelegate[u] = d THEN weightSnapshot[u] ELSE 0)
      <3> DEFINE V == voteDelegate'   W == weightSnapshot'
      <3>1. voteDelegate \in [Users -> Users \cup {Nobody}] /\ weightSnapshot \in [Users -> Nat] /\ u \in Users /\ d \in Users
        BY <1>1
      <3>2. /\ V \in [Users -> Users \cup {Nobody}] /\ W \in [Users -> Nat]
            /\ \A v \in Users \ {u} : V[v] = voteDelegate[v] /\ W[v] = weightSnapshot[v]
        BY <1>2
      <3> HIDE DEF V, W
      <3>3. moves_by_one(voteDelegate, weightSnapshot, V, W, u, d)
        BY ONLY <3>1, <3>2, LentChange
      <3> QED BY ONLY <3>3 DEF V, W, moves_by_one
    <2>2. voteDelegate'[u] # d
      BY <1>2, BaseAssumption
    <2>3. weightSnapshot[u] \in Nat
      BY <1>1
    <2> QED BY <1>1, <1>3, <2>1, <2>2, <2>3
  <1> QED BY <1>1, <1>2, <1>3, <1>4, LendingKeeps

\* A delegation takes back what was lent and lends the stake of now.
LEMMA DelegateKeeps ==
    ASSUME GovBooks, NEW u \in Users, NEW e \in Users, delegate_vote_weight(u, e)
    PROVE  GovBooks'
  <1> DEFINE a == amount_of(u)
             m == withdrawn(u)[e] + a
  <1>1. /\ voteDelegate \in [Users -> Users \cup {Nobody}] /\ weightSnapshot \in [Users -> Nat]
        /\ delegatedWeight' = [withdrawn(u) EXCEPT ![e] = m] /\ voteDelegate[u] # e
        /\ weightSnapshot' = [weightSnapshot EXCEPT ![u] = a] /\ voteDelegate' = [voteDelegate EXCEPT ![u] = e]
        /\ UNCHANGED <<base_vars, gov, params, proposals, openCount>>
    BY DEF GovBooks, delegate_vote_weight
  <1>2. a \in Nat
    BY AmountBound DEF GovBooks, Books
  <1> HIDE DEF a
  <1>3. /\ voteDelegate' \in [Users -> Users \cup {Nobody}] /\ weightSnapshot' \in [Users -> Nat]
        /\ voteDelegate'[u] = e /\ weightSnapshot'[u] = a
        /\ \A v \in Users \ {u} : voteDelegate'[v] = voteDelegate[v] /\ weightSnapshot'[v] = weightSnapshot[v]
    BY <1>1, <1>2
  <1>4. /\ withdrawn(u) \in [Users -> Nat]
        /\ \A d \in Users : withdrawn(u)[d] = sum(lent_to(voteDelegate, weightSnapshot, d))
                                             - (IF voteDelegate[u] = d THEN weightSnapshot[u] ELSE 0)
    BY WithdrawnWeight
  <1>5. m \in Nat
    BY <1>2, <1>4
  <1>6. /\ delegatedWeight' \in [Users -> Nat] /\ delegatedWeight'[e] = m
        /\ \A d \in Users \ {e} : delegatedWeight'[d] = withdrawn(u)[d]
    <2> HIDE DEF m
    <2> QED BY <1>1, <1>4, <1>5
  <1>7. ASSUME NEW d \in Users
        PROVE  delegatedWeight'[d] = sum(lent_to(voteDelegate', weightSnapshot', d))
    <2>1. /\ sum(lent_to(voteDelegate, weightSnapshot, d)) \in Nat
          /\ sum(lent_to(voteDelegate', weightSnapshot', d)) = sum(lent_to(voteDelegate, weightSnapshot, d))
                 + (IF voteDelegate'[u] = d THEN weightSnapshot'[u] ELSE 0)
                 - (IF voteDelegate[u] = d THEN weightSnapshot[u] ELSE 0)
      <3> DEFINE V == voteDelegate'   W == weightSnapshot'
      <3>1. voteDelegate \in [Users -> Users \cup {Nobody}] /\ weightSnapshot \in [Users -> Nat] /\ u \in Users /\ d \in Users
        BY <1>1
      <3>2. /\ V \in [Users -> Users \cup {Nobody}] /\ W \in [Users -> Nat]
            /\ \A v \in Users \ {u} : V[v] = voteDelegate[v] /\ W[v] = weightSnapshot[v]
        BY <1>3
      <3> HIDE DEF V, W
      <3>3. moves_by_one(voteDelegate, weightSnapshot, V, W, u, d)
        BY ONLY <3>1, <3>2, LentChange
      <3> QED BY ONLY <3>3 DEF V, W, moves_by_one
    <2>2. weightSnapshot[u] \in Nat
      BY <1>1
    <2>3. CASE d = e
      <3>1. sum(lent_to(voteDelegate', weightSnapshot', d)) = sum(lent_to(voteDelegate, weightSnapshot, d)) + a
        BY <1>1, <1>2, <1>3, <2>1, <2>3
      <3>2. delegatedWeight'[d] = sum(lent_to(voteDelegate, weightSnapshot, d)) + a
        BY <1>1, <1>4, <1>6, <2>1, <2>3
      <3> QED BY <3>1, <3>2
    <2>4. CASE d # e
      BY <1>3, <1>4, <1>6, <2>1, <2>2, <2>4
    <2> QED BY <2>3, <2>4
  <1> QED BY <1>1, <1>3, <1>6, <1>7, LendingKeeps

-------------------------------------------------------------------------------
(* Every step of proposals and delegation keeps the books. *)

\* Every entry point of the proposals keeps the books.
LEMMA ProposalNextKeeps == ASSUME GovBooks, ProposalNext PROVE GovBooks'
  <1>1. ASSUME NEW u \in Users, NEW s \in BOOLEAN,
               batch_vote(u, <<[id |-> 1, support |-> s], [id |-> 2, support |-> TRUE], [id |-> 1, support |-> ~s]>>)
        PROVE  GovBooks'
    <2> DEFINE q == <<[id |-> 1, support |-> s], [id |-> 2, support |-> TRUE], [id |-> 1, support |-> ~s]>>
    <2>1. q \in Seq([id : Nat, support : BOOLEAN])
      OBVIOUS
    <2>2. batch_vote(u, q)
      BY <1>1
    <2> HIDE DEF q
    <2> QED BY <2>1, <2>2, BatchVoteKeeps
  <1> QED BY <1>1, CreateKeeps, VoteKeeps, CancelKeeps, VetoKeeps, EnactKeeps, GuardianVetoKeeps DEF ProposalNext

\* Stakers join and leave and ledgers close without the governance storage.
LEMMA MovesKeep == ASSUME GovBooks, PoolMoves, UNCHANGED gov_vars PROVE GovBooks'
  <1>1. Books' /\ rewardPool' = rewardPool /\ held' - totalDeposited' = held - totalDeposited
    BY PoolMovesKeep DEF GovBooks
  <1>2. UNCHANGED <<gov, proposals, openCount, voteDelegate, weightSnapshot, delegatedWeight>>
    BY DEF gov_vars
  <1>3. held' = totalDeposited' + rewardPool' + bonds_of(proposals)
    <2>1. /\ held = totalDeposited + rewardPool + bonds_of(proposals) /\ held \in Int
          /\ totalDeposited \in Nat /\ rewardPool \in Nat /\ proposals \in Seq(Proposal)
      BY DEF GovBooks, Books
    <2>2. held' \in Int /\ totalDeposited' \in Nat
      BY <1>1 DEF Books
    <2>3. bonds_of(proposals) \in Int
      <3>1. IsFiniteSet(DOMAIN proposals) /\ [id \in DOMAIN proposals |-> bond_in(proposals[id])] \in [DOMAIN proposals -> Nat]
        BY <2>1, ProposalsFinite
      <3> QED BY <3>1, SumNat DEF bonds_of
    <2>4. rewardPool' = rewardPool /\ held' - totalDeposited' = held - totalDeposited
      BY <1>1
    <2> DEFINE b == bonds_of(proposals)
    <2>5. held = totalDeposited + rewardPool + b /\ b \in Int /\ held \in Int /\ totalDeposited \in Nat /\ rewardPool \in Nat
      BY <2>1, <2>3
    <2> HIDE DEF b
    <2> DEFINE h == held'   t == totalDeposited'
    <2>6. h \in Int /\ t \in Nat /\ h - t = held - totalDeposited
      BY <2>2, <2>4
    <2> HIDE DEF h, t
    <2>7. h = t + rewardPool + b
      BY ONLY <2>5, <2>6
    <2> QED BY <2>4, <2>7 DEF b, h, t
  <1> QED BY <1>1, <1>2, <1>3 DEF GovBooks

\* Every step of proposals and delegation keeps the books.
LEMMA GovStep ==
    ASSUME GovBooks, GovNext \/ DelegationNext \/ UNCHANGED <<base_vars, gov_vars>>
    PROVE  GovBooks'
  <1>1. CASE UNCHANGED <<base_vars, gov_vars>>
    BY <1>1 DEF GovBooks, Books, base_vars, pool, gov_vars
  <1>2. CASE GovNext
    BY <1>2, SettingsKeep, ProposalNextKeeps, MovesKeep DEF GovNext, PoolMoves
  <1>3. CASE DelegationNext
    BY <1>3, DelegateKeeps, RevokeKeeps, VoteKeeps, ProposalNextKeeps, MovesKeep DEF DelegationNext, VotersNext
  <1> QED BY <1>1, <1>2, <1>3

===============================================================================
