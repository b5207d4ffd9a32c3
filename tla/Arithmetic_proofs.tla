--------------------------- MODULE Arithmetic_proofs ---------------------------
(***************************************************************************)
(* The arithmetic under the vault, for all amounts.                        *)
(*                                                                         *)
(* Sums over finite sets, without induction: the library's fold is a       *)
(* recursive function on the subsets of its set, chosen by its equation; a *)
(* table that satisfies the equation is shown to exist, and each fact is   *)
(* proved on a smallest subset that would violate it.                      *)
(*                                                                         *)
(* The share price: conversions round down, so neither a round trip nor a  *)
(* mint nor a redemption takes value from the other shares (INV-5 and INV-6*)
(* of docs/INVARIANTS.md).                                                 *)
(***************************************************************************)
EXTENDS VaultShares, Sums, FiniteSetTheorems, TLAPS

\* A family of subsets of a finite set has a minimal member: what stands in for induction.
LEMMA SmallestSubset ==
    ASSUME NEW S, IsFiniteSet(S), NEW T, T \subseteq SUBSET S, T # {}
    PROVE  \E m \in T : \A t \in T : t \subseteq m => t = m
  <1> DEFINE R == StrictSubsetOrdering(S)
  <1>1. IsWellFoundedOn(R, SUBSET S)
    BY FS_StrictSubsetOrderingWellFounded, FS_FiniteSubsetsOfFinite
  <1>2. PICK m \in T : \A t \in T : ~(<<t, m>> \in R)
    <2> HIDE DEF R
    <2> QED BY <1>1, WFMin
  <1>3. \A t \in T : t \subseteq m => t = m
    BY <1>2 DEF StrictSubsetOrdering
  <1> QED BY <1>3

\* A finite set of integers has a greatest element.
LEMMA MaxOfFinite ==
    ASSUME NEW S, S \subseteq Int, IsFiniteSet(S), S # {}
    PROVE  Max(S) \in S /\ \A x \in S : x <= Max(S)
  <1>1. \E m \in S : \A x \in S : m >= x
    <2> DEFINE Bad == {t \in SUBSET S : t # {} /\ ~ \E m \in t : \A x \in t : m >= x}
    <2> SUFFICES ASSUME Bad # {} PROVE FALSE
      OBVIOUS
    <2>1. PICK t \in Bad : \A u \in Bad : u \subseteq t => u = t
      <3> HIDE DEF Bad
      <3>1. Bad \subseteq SUBSET S
        BY DEF Bad
      <3>2. IsFiniteSet(S) /\ Bad # {}
        OBVIOUS
      <3> QED BY ONLY <3>1, <3>2, SmallestSubset
    <2>2. PICK x \in t : TRUE
      OBVIOUS
    <2>3. t \ {x} \notin Bad
      BY <2>1, <2>2
    <2> QED BY <2>1, <2>2, <2>3
  <1> QED BY <1>1 DEF Max

-------------------------------------------------------------------------------
\* The fold of the library, spelled out: the element it picks, one row of the table of
\* partial sums, and the table.
chosen_of(s) == CHOOSE x \in s : TRUE
sum_row(f, g, s) == IF s = {} THEN 0 ELSE f[chosen_of(s)] + g[s \ {chosen_of(s)}]
sums_table(f, S) == CHOOSE g : g = [s \in SUBSET S |-> sum_row(f, g, s)]

\* A sum is an entry of its table.
LEMMA SumTable ==
    ASSUME NEW f, NEW S
    PROVE  sum_over(f, S) = sums_table(f, S)[S]
  BY DEF sum_over, MapThenSumSet, MapThenFoldSet, sums_table, sum_row, chosen_of

\* The element picked from a non-empty set is one of its elements.
LEMMA PickOne == ASSUME NEW s, s # {} PROVE chosen_of(s) \in s
  BY DEF chosen_of

\* For a finite set the table exists, and lists the sums over the subsets.
LEMMA TableSums ==
    ASSUME NEW f, NEW S, IsFiniteSet(S)
    PROVE  /\ sums_table(f, S) = [s \in SUBSET S |-> sum_row(f, sums_table(f, S), s)]
           /\ \A s \in SUBSET S : sums_table(f, S)[s] = sum_over(f, s)
  <1> DEFINE eqn(t) == sums_table(f, t) = [s \in SUBSET t |-> sum_row(f, sums_table(f, t), s)]
             all(t) == \A s \in SUBSET t : sums_table(f, t)[s] = sum_over(f, s)
             Bad == {t \in SUBSET S : ~(eqn(t) /\ all(t))}
  <1> SUFFICES ASSUME Bad # {} PROVE FALSE
    OBVIOUS
  <1>1. PICK m \in Bad : \A t \in Bad : t \subseteq m => t = m
    <2>1. IsFiniteSet(S) /\ Bad # {} /\ Bad \subseteq SUBSET S
      OBVIOUS
    <2> HIDE DEF Bad
    <2> QED BY ONLY <2>1, SmallestSubset
  <1>2. \A t \in SUBSET m : t # m => eqn(t) /\ all(t)
    BY <1>1
  <1>3. \A s \in SUBSET m : s # {} /\ s # m => sum_over(f, s) = f[chosen_of(s)] + sum_over(f, s \ {chosen_of(s)})
    <2> SUFFICES ASSUME NEW s \in SUBSET m, s # {}, s # m
                 PROVE  sum_over(f, s) = f[chosen_of(s)] + sum_over(f, s \ {chosen_of(s)})
      OBVIOUS
    <2>1. eqn(s) /\ all(s)
      BY <1>2
    <2>2. sums_table(f, s)[s] = f[chosen_of(s)] + sums_table(f, s)[s \ {chosen_of(s)}]
      BY <2>1 DEF sum_row
    <2>3. sums_table(f, s)[s] = sum_over(f, s) /\ sums_table(f, s)[s \ {chosen_of(s)}] = sum_over(f, s \ {chosen_of(s)})
      BY <2>1
    <2> QED BY <2>2, <2>3
  <1>4. sum_over(f, {}) = 0 \/ m = {}
    <2> SUFFICES ASSUME m # {} PROVE sum_over(f, {}) = 0
      OBVIOUS
    <2>1. eqn({})
      BY <1>2
    <2>2. sums_table(f, {})[{}] = 0
      BY <2>1 DEF sum_row
    <2> QED BY <2>2, SumTable
  <1> DEFINE h == [s \in SUBSET m |-> IF s = {} THEN 0 ELSE f[chosen_of(s)] + sum_over(f, s \ {chosen_of(s)})]
  <1>5. h = [s \in SUBSET m |-> sum_row(f, h, s)]
    <2> SUFFICES ASSUME NEW s \in SUBSET m, s # {} PROVE h[s \ {chosen_of(s)}] = sum_over(f, s \ {chosen_of(s)})
      BY DEF sum_row
    <2>1. chosen_of(s) \in s
      BY PickOne
    <2>2. s \ {chosen_of(s)} \in SUBSET m /\ s \ {chosen_of(s)} # m /\ m # {}
      BY <2>1
    <2>3. CASE s \ {chosen_of(s)} = {}
      BY <2>2, <2>3, <1>4
    <2>4. CASE s \ {chosen_of(s)} # {}
      BY <2>2, <2>4, <1>3
    <2> QED BY <2>3, <2>4
  <1>6. eqn(m)
    <2> HIDE DEF h
    <2>1. \E g : g = [s \in SUBSET m |-> sum_row(f, g, s)]
      BY <1>5
    <2> QED BY <2>1 DEF sums_table
  <1>7. all(m)
    <2> DEFINE Off == {s \in SUBSET m : sums_table(f, m)[s] # sum_over(f, s)}
    <2> SUFFICES ASSUME Off # {} PROVE FALSE
      OBVIOUS
    <2>1. PICK s \in Off : \A t \in Off : t \subseteq s => t = s
      <3>1. IsFiniteSet(m)
        BY FS_Subset
      <3>2. IsFiniteSet(m) /\ Off # {} /\ Off \subseteq SUBSET m
        BY <3>1
      <3> HIDE DEF Off
      <3> QED BY ONLY <3>2, SmallestSubset
    <2>2. s # m
      BY SumTable
    <2>3. sums_table(f, m)[s] = sum_row(f, sums_table(f, m), s)
      BY <1>6
    <2>4. CASE s = {}
      BY <2>2, <2>3, <2>4, <1>4 DEF sum_row
    <2>5. CASE s # {}
      <3>1. chosen_of(s) \in s
        BY PickOne, <2>5
      <3>2. sums_table(f, m)[s \ {chosen_of(s)}] = sum_over(f, s \ {chosen_of(s)})
        BY <2>1, <3>1
      <3>3. sums_table(f, m)[s] = f[chosen_of(s)] + sum_over(f, s \ {chosen_of(s)})
        BY <2>3, <2>5, <3>2 DEF sum_row
      <3> QED BY <3>3, <1>3, <2>2, <2>5
    <2> QED BY <2>4, <2>5
  <1> QED BY <1>1, <1>6, <1>7

\* The empty sum.
LEMMA SumEmpty == ASSUME NEW f PROVE sum_over(f, {}) = 0
  <1> SUFFICES ASSUME NEW S, S = {} PROVE sum_over(f, S) = 0
    OBVIOUS
  <1>0. IsFiniteSet(S)
    BY FS_EmptySet
  <1>1. /\ sums_table(f, S) = [s \in SUBSET S |-> sum_row(f, sums_table(f, S), s)]
        /\ \A s \in SUBSET S : sums_table(f, S)[s] = sum_over(f, s)
    BY ONLY <1>0, TableSums
  <1>2. sums_table(f, S)[S] = sum_row(f, sums_table(f, S), S)
    BY <1>1
  <1> QED BY <1>2, SumTable DEF sum_row

\* One element split off, the one the fold picks.
LEMMA SumPick ==
    ASSUME NEW f, NEW S, IsFiniteSet(S), S # {}
    PROVE  sum_over(f, S) = f[chosen_of(S)] + sum_over(f, S \ {chosen_of(S)})
  <1>1. /\ sums_table(f, S) = [s \in SUBSET S |-> sum_row(f, sums_table(f, S), s)]
        /\ \A s \in SUBSET S : sums_table(f, S)[s] = sum_over(f, s)
    BY TableSums
  <1>2. sums_table(f, S)[S] = sum_row(f, sums_table(f, S), S)
    BY <1>1
  <1>3. /\ sums_table(f, S)[S] = sum_over(f, S)
        /\ sums_table(f, S)[S \ {chosen_of(S)}] = sum_over(f, S \ {chosen_of(S)})
    BY <1>1
  <1> QED BY <1>2, <1>3 DEF sum_row

\* Sums of integers are integers.
LEMMA SumInt ==
    ASSUME NEW f, NEW S, IsFiniteSet(S), \A x \in S : f[x] \in Int
    PROVE  sum_over(f, S) \in Int
  <1> DEFINE Bad == {t \in SUBSET S : sum_over(f, t) \notin Int}
  <1> SUFFICES ASSUME Bad # {} PROVE FALSE
    OBVIOUS
  <1>1. PICK m \in Bad : \A t \in Bad : t \subseteq m => t = m
    <2>1. IsFiniteSet(S) /\ Bad # {} /\ Bad \subseteq SUBSET S
      OBVIOUS
    <2> HIDE DEF Bad
    <2> QED BY ONLY <2>1, SmallestSubset
  <1>2. m # {}
    BY SumEmpty
  <1>3. chosen_of(m) \in m /\ IsFiniteSet(m)
    BY <1>2, PickOne, FS_Subset
  <1>4. sum_over(f, m \ {chosen_of(m)}) \in Int
    BY <1>1, <1>3
  <1>5. sum_over(f, m) = f[chosen_of(m)] + sum_over(f, m \ {chosen_of(m)})
    BY <1>2, <1>3, SumPick
  <1> QED BY <1>3, <1>4, <1>5

\* Any element can be split off: the order of the fold does not matter.
LEMMA SumRemove ==
    ASSUME NEW f, NEW S, IsFiniteSet(S), \A x \in S : f[x] \in Int, NEW x \in S
    PROVE  sum_over(f, S) = f[x] + sum_over(f, S \ {x})
  <1> DEFINE Bad == {t \in SUBSET S : \E y \in t : sum_over(f, t) # f[y] + sum_over(f, t \ {y})}
  <1> SUFFICES ASSUME Bad # {} PROVE FALSE
    OBVIOUS
  <1>1. PICK m \in Bad : \A t \in Bad : t \subseteq m => t = m
    <2>1. IsFiniteSet(S) /\ Bad # {} /\ Bad \subseteq SUBSET S
      OBVIOUS
    <2> HIDE DEF Bad
    <2> QED BY ONLY <2>1, SmallestSubset
  <1>2. PICK y \in m : sum_over(f, m) # f[y] + sum_over(f, m \ {y})
    OBVIOUS
  <1> DEFINE p == chosen_of(m)
  <1>3. p \in m /\ IsFiniteSet(m)
    BY <1>2, PickOne, FS_Subset
  <1>4. sum_over(f, m) = f[p] + sum_over(f, m \ {p})
    BY <1>2, <1>3, SumPick
  <1> HIDE DEF p
  <1>5. p # y
    BY <1>2, <1>4
  <1>6. sum_over(f, m \ {p}) = f[y] + sum_over(f, (m \ {p}) \ {y})
    <2>1. m \ {p} \notin Bad /\ m \ {p} \in SUBSET S /\ y \in m \ {p}
      BY <1>1, <1>3, <1>5
    <2> QED BY <2>1
  <1>7. sum_over(f, m \ {y}) = f[p] + sum_over(f, (m \ {y}) \ {p})
    <2>1. m \ {y} \notin Bad /\ m \ {y} \in SUBSET S /\ p \in m \ {y}
      BY <1>1, <1>3, <1>5
    <2> QED BY <2>1
  <1>8. (m \ {p}) \ {y} = (m \ {y}) \ {p}
    OBVIOUS
  <1>9. sum_over(f, (m \ {y}) \ {p}) \in Int
    <2>1. IsFiniteSet((m \ {y}) \ {p}) /\ \A z \in (m \ {y}) \ {p} : f[z] \in Int
      BY <1>3, FS_Subset
    <2> QED BY <2>1, SumInt
  <1>10. f[p] \in Int /\ f[y] \in Int
    BY <1>3
  <1>11. sum_over(f, m) = f[p] + (f[y] + sum_over(f, (m \ {y}) \ {p}))
    BY <1>4, <1>6, <1>8
  <1>12. sum_over(f, m) = f[y] + sum_over(f, m \ {y})
    <2> DEFINE a == f[p]
               b == f[y]
               c == sum_over(f, (m \ {y}) \ {p})
    <2>1. a \in Int /\ b \in Int /\ c \in Int
      BY <1>9, <1>10
    <2>2. a + (b + c) = b + (a + c)
      <3> HIDE DEF a, b, c
      <3> QED BY <2>1
    <2> QED BY <2>2, <1>7, <1>11
  <1> QED BY <1>2, <1>12

\* Equal terms, equal sums.
LEMMA SumSame ==
    ASSUME NEW f, NEW g, NEW S, IsFiniteSet(S), \A x \in S : f[x] = g[x]
    PROVE  sum_over(f, S) = sum_over(g, S)
  <1> DEFINE Bad == {t \in SUBSET S : sum_over(f, t) # sum_over(g, t)}
  <1> SUFFICES ASSUME Bad # {} PROVE FALSE
    OBVIOUS
  <1>1. PICK m \in Bad : \A t \in Bad : t \subseteq m => t = m
    <2>1. IsFiniteSet(S) /\ Bad # {} /\ Bad \subseteq SUBSET S
      OBVIOUS
    <2> HIDE DEF Bad
    <2> QED BY ONLY <2>1, SmallestSubset
  <1>2. m # {}
    BY SumEmpty
  <1>3. chosen_of(m) \in m /\ IsFiniteSet(m)
    BY <1>2, PickOne, FS_Subset
  <1>4. sum_over(f, m \ {chosen_of(m)}) = sum_over(g, m \ {chosen_of(m)})
    BY <1>1, <1>3
  <1>5. /\ sum_over(f, m) = f[chosen_of(m)] + sum_over(f, m \ {chosen_of(m)})
        /\ sum_over(g, m) = g[chosen_of(m)] + sum_over(g, m \ {chosen_of(m)})
    BY <1>2, <1>3, SumPick
  <1> QED BY <1>3, <1>4, <1>5

\* Smaller terms, smaller sums.
LEMMA SumMono ==
    ASSUME NEW f, NEW g, NEW S, IsFiniteSet(S),
           \A x \in S : f[x] \in Int /\ g[x] \in Int /\ f[x] <= g[x]
    PROVE  sum_over(f, S) <= sum_over(g, S)
  <1> DEFINE Bad == {t \in SUBSET S : ~(sum_over(f, t) <= sum_over(g, t))}
  <1> SUFFICES ASSUME Bad # {} PROVE FALSE
    OBVIOUS
  <1>1. PICK m \in Bad : \A t \in Bad : t \subseteq m => t = m
    <2>1. IsFiniteSet(S) /\ Bad # {} /\ Bad \subseteq SUBSET S
      OBVIOUS
    <2> HIDE DEF Bad
    <2> QED BY ONLY <2>1, SmallestSubset
  <1>2. m # {}
    BY SumEmpty
  <1> DEFINE r == m \ {chosen_of(m)}
  <1>3. chosen_of(m) \in m /\ IsFiniteSet(m) /\ IsFiniteSet(r) /\ r \subseteq S
    BY <1>2, PickOne, FS_Subset
  <1>4. sum_over(f, r) <= sum_over(g, r)
    BY <1>1, <1>3
  <1>5. /\ sum_over(f, m) = f[chosen_of(m)] + sum_over(f, r)
        /\ sum_over(g, m) = g[chosen_of(m)] + sum_over(g, r)
    BY <1>2, <1>3, SumPick
  <1>6. /\ sum_over(f, r) \in Int /\ sum_over(g, r) \in Int
    BY <1>3, SumInt
  <1>7. f[chosen_of(m)] <= g[chosen_of(m)] /\ f[chosen_of(m)] \in Int /\ g[chosen_of(m)] \in Int
    BY <1>3
  <1>8. sum_over(f, m) <= sum_over(g, m)
    BY <1>4, <1>5, <1>6, <1>7
  <1> QED BY <1>8

-------------------------------------------------------------------------------
(* Sums of functions. *)

\* A sum of integers is an integer, and one of naturals a natural.
LEMMA SumType ==
    ASSUME NEW S, IsFiniteSet(S), NEW f \in [S -> Int]
    PROVE  sum(f) \in Int
  BY SumInt DEF sum

\* Sums of naturals are naturals.
LEMMA SumOverNat ==
    ASSUME NEW f, NEW S, IsFiniteSet(S), \A x \in S : f[x] \in Nat
    PROVE  sum_over(f, S) \in Nat
  <1> DEFINE Bad == {t \in SUBSET S : sum_over(f, t) \notin Nat}
  <1> SUFFICES ASSUME Bad # {} PROVE FALSE
    OBVIOUS
  <1>1. PICK m \in Bad : \A t \in Bad : t \subseteq m => t = m
    <2>1. IsFiniteSet(S) /\ Bad # {} /\ Bad \subseteq SUBSET S
      OBVIOUS
    <2> HIDE DEF Bad
    <2> QED BY ONLY <2>1, SmallestSubset
  <1>2. m # {}
    BY SumEmpty
  <1>3. chosen_of(m) \in m /\ IsFiniteSet(m)
    BY <1>2, PickOne, FS_Subset
  <1>4. sum_over(f, m \ {chosen_of(m)}) \in Nat
    BY <1>1, <1>3
  <1>5. sum_over(f, m) = f[chosen_of(m)] + sum_over(f, m \ {chosen_of(m)})
    BY <1>2, <1>3, SumPick
  <1> QED BY <1>3, <1>4, <1>5

\* The same for a whole function.
LEMMA SumNat ==
    ASSUME NEW S, IsFiniteSet(S), NEW f \in [S -> Nat]
    PROVE  sum(f) \in Nat
  BY SumOverNat DEF sum

\* A function that is zero everywhere, or defined nowhere, sums to zero.
LEMMA SumZero ==
    ASSUME NEW S, IsFiniteSet(S), NEW f \in [S -> Int], \A x \in S : f[x] = 0
    PROVE  sum(f) = 0
  <1> DEFINE Bad == {t \in SUBSET S : sum_over(f, t) # 0}
  <1>1. ASSUME Bad # {} PROVE FALSE
    <2>1. PICK m \in Bad : \A t \in Bad : t \subseteq m => t = m
      <3>1. IsFiniteSet(S) /\ Bad # {} /\ Bad \subseteq SUBSET S
        BY <1>1
      <3> HIDE DEF Bad
      <3> QED BY ONLY <3>1, SmallestSubset
    <2>2. m # {}
      BY SumEmpty
    <2>3. chosen_of(m) \in m /\ IsFiniteSet(m)
      BY <2>2, PickOne, FS_Subset
    <2>4. sum_over(f, m \ {chosen_of(m)}) = 0
      BY <2>1, <2>3
    <2>5. sum_over(f, m) = f[chosen_of(m)] + sum_over(f, m \ {chosen_of(m)})
      BY <2>2, <2>3, SumPick
    <2>6. f[chosen_of(m)] = 0
      BY <2>3
    <2> QED BY <2>4, <2>5, <2>6
  <1> QED BY <1>1 DEF sum

\* Changing one value changes the sum by the difference.
LEMMA SumChange ==
    ASSUME NEW S, IsFiniteSet(S), NEW f \in [S -> Int], NEW g \in [S -> Int],
           NEW x \in S, \A y \in S \ {x} : g[y] = f[y]
    PROVE  sum(g) = sum(f) + g[x] - f[x]
  <1> DEFINE r == S \ {x}
  <1>1. IsFiniteSet(r) /\ r \subseteq S
    BY FS_Subset
  <1>2. sum_over(f, S) = f[x] + sum_over(f, r)
    BY SumRemove
  <1>3. sum_over(g, S) = g[x] + sum_over(g, r)
    BY SumRemove
  <1>4. sum_over(g, r) = sum_over(f, r)
    BY <1>1, SumSame
  <1>5. sum_over(f, r) \in Int
    BY <1>1, SumInt
  <1>6. sum(f) = sum_over(f, S) /\ sum(g) = sum_over(g, S)
    BY DEF sum
  <1>7. f[x] \in Int /\ g[x] \in Int
    OBVIOUS
  <1> HIDE DEF r
  <1> QED BY <1>2, <1>3, <1>4, <1>5, <1>6, <1>7

\* Defining a function at one more point adds its value there.
LEMMA SumExtend ==
    ASSUME NEW R, IsFiniteSet(R), NEW x \in R, NEW S, S \subseteq R, x \notin S, \A y \in R : y \in S \/ y = x,
           NEW f \in [S -> Int], NEW g \in [R -> Int], \A y \in S : g[y] = f[y]
    PROVE  sum(g) = sum(f) + g[x]
  <1>1. S = R \ {x} /\ IsFiniteSet(S)
    BY FS_Subset
  <1>2. sum_over(g, R) = g[x] + sum_over(g, R \ {x})
    BY SumRemove
  <1>3. sum_over(g, S) = sum_over(f, S)
    BY <1>1, SumSame
  <1>4. sum_over(f, S) \in Int /\ g[x] \in Int
    BY <1>1, SumInt
  <1>5. sum(f) = sum_over(f, S) /\ sum(g) = sum_over(g, R)
    BY DEF sum
  <1>6. sum(g) = g[x] + sum(f) /\ sum(f) \in Int
    BY <1>1, <1>2, <1>3, <1>4, <1>5
  <1> QED BY <1>4, <1>6

\* No value of a function into the naturals exceeds its sum.
LEMMA SumBound ==
    ASSUME NEW S, IsFiniteSet(S), NEW f \in [S -> Nat], NEW x \in S
    PROVE  f[x] <= sum(f)
  <1>1. IsFiniteSet(S \ {x})
    BY FS_Subset
  <1>2. sum_over(f, S) = f[x] + sum_over(f, S \ {x})
    BY SumRemove
  <1>3. sum_over(f, S \ {x}) \in Nat
    BY <1>1, SumOverNat
  <1> QED BY <1>2, <1>3 DEF sum

\* Sums keep a weighted comparison of the summands.
LEMMA SumScaled ==
    ASSUME NEW S, IsFiniteSet(S), NEW f \in [S -> Int], NEW g \in [S -> Int], NEW c \in Int, NEW d \in Int,
           \A x \in S : c * f[x] <= d * g[x]
    PROVE  c * sum(f) <= d * sum(g)
  <1> DEFINE Bad == {t \in SUBSET S : ~(c * sum_over(f, t) <= d * sum_over(g, t))}
  <1>1. ASSUME Bad # {} PROVE FALSE
    <2>1. PICK m \in Bad : \A t \in Bad : t \subseteq m => t = m
      <3>1. IsFiniteSet(S) /\ Bad # {} /\ Bad \subseteq SUBSET S
        BY <1>1
      <3> HIDE DEF Bad
      <3> QED BY ONLY <3>1, SmallestSubset
    <2>2. m # {}
      <3>1. c * 0 <= d * 0
        OBVIOUS
      <3> QED BY <3>1, SumEmpty
    <2> DEFINE y == chosen_of(m)
               r == m \ {y}
    <2>3. y \in m /\ y \in S /\ IsFiniteSet(m) /\ IsFiniteSet(r) /\ r \subseteq S
      BY <2>2, PickOne, FS_Subset
    <2>4. c * sum_over(f, r) <= d * sum_over(g, r)
      BY <2>1, <2>3
    <2>5. sum_over(f, m) = f[y] + sum_over(f, r) /\ sum_over(g, m) = g[y] + sum_over(g, r)
      BY <2>2, <2>3, SumPick
    <2>6. sum_over(f, r) \in Int /\ sum_over(g, r) \in Int /\ f[y] \in Int /\ g[y] \in Int
      BY <2>3, SumInt
    <2>7. c * f[y] <= d * g[y]
      BY <2>3
    <2> HIDE DEF y, r
    <2>8. \A p, q, u, v \in Int : c * p <= d * q /\ c * u <= d * v => c * (p + u) <= d * (q + v)
      OBVIOUS
    <2>9. c * sum_over(f, m) <= d * sum_over(g, m)
      BY <2>4, <2>5, <2>6, <2>7, <2>8
    <2> QED BY <2>9
  <1>2. S \notin Bad
    BY <1>1
  <1> QED BY <1>2 DEF sum

\* The sum of a function that splits in two is the sum of the two sums.
LEMMA SumSplit ==
    ASSUME NEW S, IsFiniteSet(S), NEW f \in [S -> Int], NEW g \in [S -> Int], NEW h \in [S -> Int],
           \A x \in S : h[x] = f[x] + g[x]
    PROVE  sum(h) = sum(f) + sum(g)
  <1> DEFINE Bad == {t \in SUBSET S : sum_over(h, t) # sum_over(f, t) + sum_over(g, t)}
  <1>1. ASSUME Bad # {} PROVE FALSE
    <2>1. PICK m \in Bad : \A t \in Bad : t \subseteq m => t = m
      <3>1. IsFiniteSet(S) /\ Bad # {} /\ Bad \subseteq SUBSET S
        BY <1>1
      <3> HIDE DEF Bad
      <3> QED BY ONLY <3>1, SmallestSubset
    <2>2. m # {}
      <3>1. 0 = 0 + 0
        OBVIOUS
      <3> QED BY <3>1, SumEmpty
    <2> DEFINE y == chosen_of(m)
               r == m \ {y}
    <2>3. y \in m /\ y \in S /\ IsFiniteSet(m) /\ IsFiniteSet(r) /\ r \subseteq S
      BY <2>2, PickOne, FS_Subset
    <2>4. sum_over(h, r) = sum_over(f, r) + sum_over(g, r)
      BY <2>1, <2>3
    <2>5. /\ sum_over(f, m) = f[y] + sum_over(f, r) /\ sum_over(g, m) = g[y] + sum_over(g, r)
          /\ sum_over(h, m) = h[y] + sum_over(h, r)
      BY <2>2, <2>3, SumPick
    <2>6. sum_over(f, r) \in Int /\ sum_over(g, r) \in Int /\ f[y] \in Int /\ g[y] \in Int
      BY <2>3, SumInt
    <2>7. h[y] = f[y] + g[y]
      BY <2>3
    <2> HIDE DEF y, r
    <2>8. sum_over(h, m) = sum_over(f, m) + sum_over(g, m)
      BY <2>4, <2>5, <2>6, <2>7
    <2> QED BY <2>8
  <1>2. S \notin Bad
    BY <1>1
  <1> QED BY <1>2 DEF sum

\* Points where a function is zero can be left out of its domain.
LEMMA SumWhere ==
    ASSUME NEW S, IsFiniteSet(S), NEW f \in [S -> Int], NEW T, T \subseteq S, NEW g \in [T -> Int],
           \A x \in T : g[x] = f[x], \A x \in S \ T : f[x] = 0
    PROVE  sum(g) = sum(f)
  <1> DEFINE Bad == {t \in SUBSET S : sum_over(f, t) # sum_over(f, t \cap T)}
  <1>1. ASSUME Bad # {} PROVE FALSE
    <2>1. PICK m \in Bad : \A t \in Bad : t \subseteq m => t = m
      <3>1. IsFiniteSet(S) /\ Bad # {} /\ Bad \subseteq SUBSET S
        BY <1>1
      <3> HIDE DEF Bad
      <3> QED BY ONLY <3>1, SmallestSubset
    <2>2. PICK y \in m : y \notin T
      <3>1. m # m \cap T
        BY <2>1
      <3> QED BY <3>1
    <2> DEFINE r == m \ {y}
    <2>3. y \in S /\ IsFiniteSet(m) /\ IsFiniteSet(r) /\ r \subseteq S /\ r \cap T = m \cap T
      BY <2>2, FS_Subset
    <2>4. sum_over(f, r) = sum_over(f, r \cap T)
      BY <2>1, <2>2, <2>3
    <2>5. sum_over(f, m) = f[y] + sum_over(f, r)
      BY <2>2, <2>3, SumRemove
    <2>6. sum_over(f, r) \in Int /\ f[y] = 0
      BY <2>2, <2>3, SumInt
    <2>7. sum_over(f, m) = sum_over(f, m \cap T)
      <3>1. sum_over(f, m) = sum_over(f, r)
        <4> HIDE DEF r
        <4> QED BY <2>5, <2>6
      <3>2. sum_over(f, r) = sum_over(f, m \cap T)
        <4> HIDE DEF r
        <4> QED BY ONLY <2>3, <2>4
      <3> QED BY ONLY <3>1, <3>2
    <2> QED BY <2>7
  <1>2. S \notin Bad
    BY <1>1
  <1>3. sum_over(f, S) = sum_over(f, T)
    <2>1. S \cap T = T
      OBVIOUS
    <2> QED BY <1>2, <2>1
  <1>4. IsFiniteSet(T)
    BY FS_Subset
  <1>5. sum_over(g, T) = sum_over(f, T)
    BY <1>4, SumSame
  <1> QED BY <1>3, <1>5 DEF sum

-------------------------------------------------------------------------------
\* The sum over the points of t that k sends to u.
group(f, k, t, u) == sum_over(f, {d \in t : k[d] = u})

\* A sum taken group by group is the sum.
LEMMA SumGrouped ==
    ASSUME NEW S, IsFiniteSet(S), NEW T, IsFiniteSet(T), NEW f \in [S -> Int], NEW k \in [S -> T]
    PROVE  sum([u \in T |-> group(f, k, S, u)]) = sum(f)
  <1> DEFINE G(t) == [u \in T |-> group(f, k, t, u)]
             Bad == {t \in SUBSET S : sum(G(t)) # sum_over(f, t)}
  <1>0. ASSUME NEW t \in SUBSET S PROVE G(t) \in [T -> Int]
    <2>1. ASSUME NEW u \in T PROVE group(f, k, t, u) \in Int
      <3> DEFINE c == {d \in t : k[d] = u}
      <3>1. c \subseteq S
        OBVIOUS
      <3> HIDE DEF c
      <3>2. IsFiniteSet(c) /\ \A x \in c : f[x] \in Int
        BY <3>1, FS_Subset
      <3>3. sum_over(f, c) \in Int
        BY ONLY <3>2, SumInt
      <3> QED BY <3>3 DEF c, group
    <2> QED BY <2>1
  <1>1. ASSUME Bad # {} PROVE FALSE
    <2>1. PICK m \in Bad : \A t \in Bad : t \subseteq m => t = m
      <3>1. IsFiniteSet(S) /\ Bad # {} /\ Bad \subseteq SUBSET S
        BY <1>1
      <3> HIDE DEF Bad
      <3> QED BY ONLY <3>1, SmallestSubset
    <2>2. m # {}
      <3>1. ASSUME m = {} PROVE FALSE
        <4>1. G({}) \in [T -> Int]
          BY <1>0
        <4>2. \A u \in T : G({})[u] = 0
          <5>1. ASSUME NEW u \in T PROVE group(f, k, {}, u) = 0
            <6>1. {d \in {} : k[d] = u} = {}
              OBVIOUS
            <6> QED BY <6>1, SumEmpty DEF group
          <5> QED BY <5>1
        <4> DEFINE e == G({})
        <4>3. e \in [T -> Int] /\ \A u \in T : e[u] = 0
          BY <4>1, <4>2
        <4> HIDE DEF e
        <4>4. sum(e) = 0
          BY ONLY <4>3, IsFiniteSet(T), SumZero
        <4>5. sum_over(f, {}) = 0
          BY SumEmpty
        <4> QED BY <2>1, <3>1, <4>4, <4>5 DEF e
      <3> QED BY <3>1
    <2> DEFINE y == chosen_of(m)
               r == m \ {y}
               a == G(r)
               b == G(m)
               v == k[y]
    <2>3. y \in m /\ y \in S /\ IsFiniteSet(m) /\ IsFiniteSet(r) /\ r \subseteq S /\ v \in T /\ f[y] \in Int
          /\ r \in SUBSET S /\ m \in SUBSET S
      BY <2>2, PickOne, FS_Subset
    <2>4. sum(a) = sum_over(f, r)
      <3>1. r \subseteq m /\ r # m
        BY <2>3
      <3>2. r \notin Bad
        BY <2>1, <3>1
      <3> QED BY <2>3, <3>2
    <2>5. sum_over(f, m) = f[y] + sum_over(f, r)
      BY <2>2, <2>3, SumPick
    <2>6. a \in [T -> Int] /\ b \in [T -> Int]
      BY <1>0, <2>3
    <2>7. \A u \in T \ {v} : b[u] = a[u]
      <3>1. ASSUME NEW u \in T \ {v} PROVE b[u] = a[u]
        <4>1. {d \in m : k[d] = u} = {d \in r : k[d] = u}
          OBVIOUS
        <4> QED BY <4>1 DEF group
      <3> QED BY <3>1
    <2>8. b[v] = a[v] + f[y]
      <3> DEFINE c == {d \in m : k[d] = v}
                 e == {d \in r : k[d] = v}
      <3>1. c \subseteq m /\ y \in c /\ e = c \ {y}
        BY <2>3
      <3>2. b[v] = sum_over(f, c) /\ a[v] = sum_over(f, e)
        BY <2>3 DEF group
      <3> HIDE DEF c, e
      <3>3. IsFiniteSet(c) /\ (\A x \in c : f[x] \in Int) /\ y \in c
        BY <2>3, <3>1, FS_Subset
      <3> HIDE DEF y, b, a, v, r
      <3>4. sum_over(f, c) = f[y] + sum_over(f, c \ {y})
        BY ONLY <3>3, SumRemove
      <3>5. a[v] \in Int
        BY <2>3, <2>6
      <3> QED BY <2>3, <3>1, <3>2, <3>4, <3>5
    <2> HIDE DEF y, r, a, b, v
    <2>9. sum(b) = sum(a) + b[v] - a[v]
      BY ONLY IsFiniteSet(T), <2>3, <2>6, <2>7, SumChange
    <2>10. sum(a) \in Int
      BY ONLY IsFiniteSet(T), <2>6, SumType
    <2>11. a[v] \in Int
      BY <2>3, <2>6
    <2>12. sum(b) = sum_over(f, m)
      BY ONLY <2>3, <2>4, <2>5, <2>8, <2>9, <2>10, <2>11
    <2> QED BY <2>12 DEF b
  <1>2. S \notin Bad
    BY <1>1
  <1> QED BY <1>2 DEF sum

\* The values along a list without repetitions add up to the values of its elements.
LEMMA SumAlong ==
    ASSUME NEW S, IsFiniteSet(S), NEW T, IsFiniteSet(T), NEW k \in [S -> T], NEW f \in [S -> Int], NEW g \in [T -> Int],
           \A x, y \in S : k[x] = k[y] => x = y, \A u \in T : \E x \in S : k[x] = u,
           \A x \in S : f[x] = g[k[x]]
    PROVE  sum(f) = sum(g)
  <1> DEFINE h == [u \in T |-> group(f, k, S, u)]
  <1>1. sum(h) = sum(f)
    BY SumGrouped
  <1>2. \A u \in T : h[u] = g[u]
    <2> SUFFICES ASSUME NEW u \in T PROVE group(f, k, S, u) = g[u]
      OBVIOUS
    <2>1. PICK x \in S : k[x] = u
      OBVIOUS
    <2>2. {d \in S : k[d] = u} = {x}
      BY <2>1
    <2>3. IsFiniteSet({x}) /\ x \in {x} /\ (\A d \in {x} : f[d] \in Int)
      <3>1. IsFiniteSet({x})
        BY FS_Singleton
      <3> QED BY <3>1
    <2>3a. {x} \ {x} = {}
      OBVIOUS
    <2>4. sum_over(f, {x}) = f[x] + sum_over(f, {x} \ {x})
      BY ONLY <2>3, SumRemove
    <2>5. sum_over(f, {x} \ {x}) = 0
      BY <2>3a, SumEmpty
    <2>6. f[x] \in Int /\ f[x] = g[u]
      BY <2>1
    <2>7. group(f, k, S, u) = sum_over(f, {x})
      BY <2>2 DEF group
    <2> QED BY ONLY <2>4, <2>5, <2>6, <2>7
  <1>3. h = g
    BY <1>2
  <1> QED BY <1>1, <1>3

-------------------------------------------------------------------------------
(* Arithmetic. *)

\* Division of naturals rounds down.
LEMMA DivNat ==
    ASSUME NEW x \in Nat, NEW d \in Nat \ {0}
    PROVE  x \div d \in Nat /\ d * (x \div d) <= x
  OBVIOUS

\* What a division leaves over is less than the divisor.
LEMMA ModRange ==
    ASSUME NEW x \in Nat, NEW d \in Nat \ {0}
    PROVE  x % d \in 0..(d - 1)
  OBVIOUS

\* The provers need the closure of the naturals under products spelt out.
LEMMA MulNat ==
    ASSUME NEW x \in Nat, NEW y \in Nat
    PROVE  x * y \in Nat
  OBVIOUS

\* A product grows with its factor.
LEMMA MulMono ==
    ASSUME NEW x \in Nat, NEW y \in Nat, NEW z \in Nat, y <= z
    PROVE  x * y <= x * z
  OBVIOUS

\* A quotient is at most any b whose product with the divisor covers x.
LEMMA DivBound ==
    ASSUME NEW x \in Nat, NEW d \in Nat \ {0}, NEW b \in Nat, x <= b * d
    PROVE  x \div d <= b
  OBVIOUS

\* A basis-point share of a value lies between nothing and the whole value.
LEMMA BpsBound ==
    ASSUME NEW v \in Nat, NEW b \in 0..BPS_DENOMINATOR
    PROVE  bps(v, b) \in 0..v
  <1>1. v * b \in Nat
    BY MulNat DEF BPS_DENOMINATOR
  <1>2. v * b <= v * BPS_DENOMINATOR
    BY MulMono DEF BPS_DENOMINATOR
  <1>3. BPS_DENOMINATOR \in Nat \ {0}
    BY DEF BPS_DENOMINATOR
  <1>4. bps(v, b) \in Nat
    BY <1>1, <1>3, DivNat DEF bps
  <1>5. bps(v, b) <= v
    BY <1>1, <1>2, <1>3, DivBound DEF bps
  <1>6. QED
    BY <1>4, <1>5

-------------------------------------------------------------------------------
(* The conversions of VaultShares. *)

\* Minting never yields a negative number of shares, at any decimal scaling.
LEMMA MintNat ==
    ASSUME NEW S \in Nat, NEW D \in Nat, NEW a \in Nat,
           NEW up \in Nat \ {0}, NEW down \in Nat \ {0}
    PROVE  amount_to_shares_with_decimals(S, D, a, up, down) \in Nat
  <1>1. scale_amount(a, up, down) \in Nat
    BY MulNat, DivNat DEF scale_amount
  <1>2. ASSUME D # 0
        PROVE  (a * S) \div D \in Nat
    BY <1>2, MulNat, DivNat
  <1>3. QED
    BY <1>1, <1>2 DEF amount_to_shares_with_decimals

\* The same at the default precision.
LEMMA MintDefaultNat ==
    ASSUME NEW S \in Nat, NEW D \in Nat, NEW a \in Nat
    PROVE  amount_to_shares(S, D, a) \in Nat
  BY MintNat DEF amount_to_shares

\* Redeeming never pays a negative amount.
LEMMA RedeemNat ==
    ASSUME NEW S \in Nat, NEW D \in Nat, NEW x \in Nat
    PROVE  shares_to_amount(S, D, x) \in Nat
  <1>1. CASE S = 0
    BY <1>1 DEF shares_to_amount
  <1>2. CASE S # 0
    BY <1>2, MulNat, DivNat DEF shares_to_amount
  <1>3. QED
    BY <1>1, <1>2

\* Redeeming at most all the shares pays at most all the principal, and
\* redeeming exactly all of them pays exactly all of it (INV-4, first half).
LEMMA RedeemAtMostAll ==
    ASSUME NEW S \in Nat, NEW D \in Nat, NEW x \in Nat, x <= S
    PROVE  /\ shares_to_amount(S, D, x) <= D
           /\ S > 0 => shares_to_amount(S, D, S) = D
  <1>1. CASE S = 0
    BY <1>1 DEF shares_to_amount
  <1>2. CASE S # 0
    <2>1. x * D \in Nat /\ x * D <= D * S
      BY MulNat, MulMono
    <2>2. shares_to_amount(S, D, x) <= D
      BY <1>2, <2>1, DivBound DEF shares_to_amount
    <2>3. (S * D) \div S = D
      BY <1>2
    <2>4. QED
      BY <1>2, <2>2, <2>3 DEF shares_to_amount
  <1>3. QED
    BY <1>1, <1>2

\* INV-6: staking an amount and redeeming the minted shares at the same ratio
\* never returns more than the amount.
THEOREM NoValueFromRoundTrip ==
    ASSUME NEW S \in Nat \ {0}, NEW D \in Nat \ {0}, NEW a \in Nat
    PROVE  shares_to_amount(S, D, amount_to_shares(S, D, a)) <= a
  <1> DEFINE m == (a * S) \div D
  <1>1. amount_to_shares(S, D, a) = m
    BY DEF amount_to_shares, amount_to_shares_with_decimals
  <1>2. a * S \in Nat /\ m \in Nat /\ D * m <= a * S
    BY MulNat, DivNat
  <1>3. m * D \in Nat /\ m * D <= a * S
    BY <1>2, MulNat
  <1>4. (m * D) \div S <= a
    BY <1>3, DivBound
  <1>5. QED
    BY <1>1, <1>4 DEF shares_to_amount

-------------------------------------------------------------------------------
(* The price of a share. *)

\* Minting at the current ratio, rounded down, does not lower the principal per share.
LEMMA PriceMint ==
    ASSUME NEW S \in Nat \ {0}, NEW D \in Nat, NEW a \in Nat, NEW up \in Nat \ {0}, NEW down \in Nat \ {0},
           NEW m \in Nat, m = amount_to_shares_with_decimals(S, D, a, up, down)
    PROVE  (D + a) * S >= D * (S + m)
  <1>1. CASE D = 0
    <2>1. (D + a) * S \in Nat /\ D * (S + m) = 0
      BY <1>1, MulNat
    <2> QED BY <2>1
  <1>2. CASE D # 0
    <2>1. m = (a * S) \div D
      BY <1>2 DEF amount_to_shares_with_decimals
    <2> DEFINE p == a * S
    <2>2. p \in Nat
      BY MulNat
    <2> HIDE DEF p
    <2>3. D * m <= p
      BY <1>2, <2>1, <2>2, DivNat DEF p
    <2>4. (D + a) * S = D * S + p /\ D * (S + m) = D * S + D * m
      BY DEF p
    <2>5. D * S \in Nat /\ D * m \in Nat
      BY MulNat
    <2> QED BY <2>2, <2>3, <2>4, <2>5
  <1> QED BY <1>1, <1>2

\* Redeeming b shares for no more than they are worth does not lower it either.
LEMMA PriceRedeem ==
    ASSUME NEW S \in Nat \ {0}, NEW D \in Nat, NEW b \in Nat, NEW paid \in Nat,
           paid <= shares_to_amount(S, D, b)
    PROVE  (D - paid) * S >= D * (S - b)
  <1> DEFINE p == b * D   q == shares_to_amount(S, D, b)
  <1>1. p \in Nat /\ q = p \div S
    BY MulNat DEF shares_to_amount
  <1> HIDE DEF p, q
  <1>2. q \in Nat /\ S * q <= p
    BY <1>1, DivNat
  <1>3. S * paid <= S * q
    BY <1>2, MulMono DEF q
  <1>4. (D - paid) * S = D * S - S * paid /\ D * (S - b) = D * S - p
    BY DEF p
  <1>5. S * paid \in Nat /\ S * q \in Nat /\ D * S \in Nat
    BY <1>2, MulNat
  <1> QED BY <1>1, <1>2, <1>3, <1>4, <1>5

\* Two price moves that are no falls are together none.
LEMMA PriceChain ==
    ASSUME NEW S \in Nat, NEW D \in Nat, NEW S1 \in Nat \ {0}, NEW D1 \in Nat, NEW S2 \in Nat, NEW D2 \in Nat,
           D1 * S >= D * S1, D2 * S1 >= D1 * S2
    PROVE  D2 * S >= D * S2
  <1>1. /\ D1 * S \in Nat /\ D * S1 \in Nat /\ D2 * S1 \in Nat /\ D1 * S2 \in Nat
        /\ D2 * S \in Nat /\ D * S2 \in Nat
    BY MulNat
  <1>2. S * (D1 * S2) <= S * (D2 * S1)
    BY <1>1, MulMono
  <1>3. S2 * (D * S1) <= S2 * (D1 * S)
    BY <1>1, MulMono
  <1>4. /\ S * (D1 * S2) = S2 * (D1 * S)
        /\ S * (D2 * S1) = S1 * (D2 * S) /\ S2 * (D * S1) = S1 * (D * S2)
    OBVIOUS
  <1> DEFINE x == D2 * S   y == D * S2
  <1>5. x \in Nat /\ y \in Nat
    BY <1>1
  <1>6. S1 * y <= S1 * x
    <2>1. S1 * x \in Nat /\ S1 * y \in Nat /\ S2 * (D1 * S) \in Nat
      BY <1>1, MulNat
    <2> QED BY <1>2, <1>3, <1>4, <2>1
  <1> HIDE DEF x, y
  <1>7. x >= y
    <2> SUFFICES ASSUME x < y PROVE FALSE
      BY <1>5
    <2>1. S1 * (x + 1) <= S1 * y
      BY <1>5, MulMono
    <2>2. S1 * (x + 1) = S1 * x + S1 /\ S1 * x \in Nat /\ S1 * y \in Nat
      BY <1>5, MulNat
    <2> QED BY <1>6, <2>1, <2>2
  <1> QED BY <1>7 DEF x, y

===============================================================================
