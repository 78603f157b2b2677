------------------------- MODULE StreamsGraphProofs -------------------------
(***************************************************************************)
(* The rate graph, for every table of streams: what generate() makes of    *)
(* the table, one stream at a time, is what StreamsGraph tells from the    *)
(* table alone.                                                            *)
(*                                                                         *)
(* The invariant says that the scan is on the way its root leads, that the *)
(* events added so far are, root by root, the intervals of the positions   *)
(* scanned, and that a root falls before it rises again.  So a part of the *)
(* sorted events adds up to one rate per root, which is compared with what *)
(* the root sends at that moment.  Sums and recursive functions are told   *)
(* by the set of the numbers or subsets for which a claim holds: it holds  *)
(* the first, and the next of each.                                        *)
(***************************************************************************)
EXTENDS StreamsGraph, FiniteSetTheorems, NaturalsInduction, WellFoundedInduction, TLAPS

-----------------------------------------------------------------------------
(* Smallest elements, which stand for induction, and largest ones.         *)

\* A set of naturals that is not empty has a smallest element.
LEMMA SmallestNat ==
  ASSUME NEW T \in SUBSET Nat, T # {}
  PROVE  \E n \in T : \A m \in T : n <= m
<1> DEFINE R == OpToRel(<, Nat)
<1>1. \A m, n \in Nat : <<m, n>> \in R <=> m < n
  BY DEF OpToRel
<1>2. IsWellFoundedOn(R, Nat)
  BY NatLessThanWellFounded
<1> HIDE DEF R
<1>3. IsWellFoundedOn(R, T)
  BY <1>2, IsWellFoundedOnSubset
<1>4. T \subseteq T
  OBVIOUS
<1>5. PICK n \in T : \A m \in T : ~(<<m, n>> \in R)
  BY ONLY <1>3, <1>4, T # {}, WFMin, Zenon
<1>6. \A m \in T : ~(m < n)
  BY <1>1, <1>5
<1> QED BY <1>5, <1>6

\* A set that holds 0 and every successor of its members below n holds 0 .. n.
LEMMA CountUp ==
  ASSUME NEW n \in Nat, NEW T, 0 \in T, \A k \in 0 .. n - 1 : k \in T => k + 1 \in T
  PROVE  \A k \in 0 .. n : k \in T
<1> DEFINE B == {k \in 0 .. n : k \notin T}
<1> SUFFICES ASSUME B # {} PROVE FALSE
  OBVIOUS
<1>1. B \in SUBSET Nat
  OBVIOUS
<1> HIDE DEF B
<1>2. PICK k \in B : \A j \in B : k <= j
  BY <1>1, SmallestNat
<1>3. k \in 0 .. n /\ k \notin T /\ k # 0
  BY DEF B
<1>4. k - 1 \in 0 .. n /\ k - 1 \notin B
  BY <1>1, <1>2, <1>3
<1>5. k - 1 \in T /\ k - 1 \in 0 .. n - 1
  BY <1>3, <1>4 DEF B
<1> QED BY <1>3, <1>5

\* A set of subsets of a finite set has a smallest member.
LEMMA SmallestSubset ==
  ASSUME NEW S, IsFiniteSet(S), NEW T, T \subseteq SUBSET S, T # {}
  PROVE  \E x \in T : \A y \in T : ~(y \subseteq x /\ y # x)
<1>1. IsWellFoundedOn(StrictSubsetOrdering(S), FiniteSubsetsOf(S))
  BY FS_StrictSubsetOrderingWellFounded
<1>2. FiniteSubsetsOf(S) = SUBSET S
  BY FS_FiniteSubsetsOfFinite
<1>3. PICK x \in T : \A y \in T : ~(<<y, x>> \in StrictSubsetOrdering(S))
  BY <1>1, <1>2, WFMin
<1> QED BY <1>3 DEF StrictSubsetOrdering

\* A set of subsets of a finite set that holds the empty one, and every one with
\* one element more than a member, holds them all.
LEMMA GrowSet ==
  ASSUME NEW S, IsFiniteSet(S), NEW T, {} \in T,
         \A s \in SUBSET S : \A x \in S : s \in T /\ x \notin s => s \cup {x} \in T
  PROVE  S \in T
<1> DEFINE B == {s \in SUBSET S : s \notin T}
<1> SUFFICES ASSUME B # {} PROVE FALSE
  OBVIOUS
<1>1. B \subseteq SUBSET S
  OBVIOUS
<1> HIDE DEF B
<1>2. PICK s \in B : \A y \in B : ~(y \subseteq s /\ y # s)
  BY <1>1, SmallestSubset
<1>3. s \in SUBSET S /\ s \notin T /\ s # {}
  BY DEF B
<1>4. PICK x \in s : TRUE
  BY <1>3
<1> DEFINE r == s \ {x}
<1>5. r \in SUBSET S /\ r \subseteq s /\ r # s /\ x \notin r /\ r \cup {x} = s /\ x \in S
  BY <1>3, <1>4
<1> HIDE DEF r
<1>6. r \in T
  BY <1>2, <1>5 DEF B
<1> QED BY <1>3, <1>5, <1>6

\* The largest element is the one that is not exceeded.
LEMMA MaxIs ==
  ASSUME NEW S, S \subseteq Int, NEW x \in S, \A y \in S : x >= y
  PROVE  Max(S) = x
<1> DEFINE m == Max(S)
<1>1. m \in S /\ \A y \in S : m >= y
  BY DEF Max
<1> HIDE DEF m
<1>2. m = x
  BY <1>1
<1> QED BY <1>2 DEF m

\* A finite set of integers that is not empty has a largest element.
LEMMA MaxExists ==
  ASSUME NEW S, S \subseteq Int, IsFiniteSet(S), S # {}
  PROVE  Max(S) \in S /\ \A y \in S : Max(S) >= y
<1> DEFINE T == {s \in SUBSET S : s = {} \/ \E x \in s : \A y \in s : x >= y}
<1>1. {} \in T
  OBVIOUS
<1>2. ASSUME NEW s \in SUBSET S, NEW z \in S, s \in T, z \notin s
      PROVE  s \cup {z} \in T
  <2>1. CASE s = {}
    <3>1. z \in s \cup {z} /\ \A y \in s \cup {z} : z >= y
      BY <2>1
    <3> QED BY <3>1
  <2>2. CASE s # {}
    <3>1. PICK x \in s : \A y \in s : x >= y
      BY <1>2, <2>2
    <3>2. CASE x >= z
      <4>1. x \in s \cup {z} /\ \A y \in s \cup {z} : x >= y
        BY <3>1, <3>2
      <4> QED BY <4>1
    <3>3. CASE ~(x >= z)
      <4>1. z \in s \cup {z} /\ \A y \in s \cup {z} : z >= y
        BY <3>1, <3>3
      <4> QED BY <4>1
    <3> QED BY <3>2, <3>3
  <2> QED BY <2>1, <2>2
<1> HIDE DEF T
<1>3. S \in T
  BY <1>1, <1>2, GrowSet
<1>4. \E x \in S : \A y \in S : x >= y
  BY <1>3 DEF T
<1> QED BY <1>4 DEF Max

-----------------------------------------------------------------------------
(* Sums.  The library's fold over a set is a recursion over its subsets     *)
(* that takes the elements as CHOOSE hands them out: a sum that may take    *)
(* them in any order satisfies it, and only one function does.             *)

Pick(s) == CHOOSE x \in s : TRUE

\* g adds up f over the subsets of S, in the order of Pick.
AddsUp(f, S, g) ==
  g = [s \in SUBSET S |-> IF s = {} THEN 0 ELSE LET x == Pick(s) IN f[x] + g[s \ {x}]]

\* g adds up f over the subsets of S, in any order.
Totals(f, S, g) ==
  /\ g \in [SUBSET S -> Int]
  /\ g[{}] = 0
  /\ \A s \in SUBSET S : \A x \in S : x \notin s => g[s \cup {x}] = f[x] + g[s]

Sum(f, S) == SumFunctionOnSet(f, S)

\* A sum over a set is the entry of the set in the function of partial sums that
\* the library's fold chooses.
LEMMA SumChooses ==
  ASSUME NEW f, NEW S
  PROVE  Sum(f, S) = (CHOOSE g : AddsUp(f, S, g))[S]
BY Zenon DEF Sum, SumFunctionOnSet, FoldFunctionOnSet, MapThenFoldSet, AddsUp, Pick

\* One step of such a function: the picked element and the rest.
LEMMA AddsUpStep ==
  ASSUME NEW f, NEW S, NEW g, AddsUp(f, S, g), NEW s \in SUBSET S
  PROVE  g[s] = IF s = {} THEN 0 ELSE f[Pick(s)] + g[s \ {Pick(s)}]
BY DEF AddsUp

\* Every function that adds up one picked element after another ends in the sum.
LEMMA SumIsUnique ==
  ASSUME NEW f, NEW S, IsFiniteSet(S), NEW g, AddsUp(f, S, g)
  PROVE  Sum(f, S) = g[S]
<1> DEFINE h == CHOOSE e : AddsUp(f, S, e)
<1>1. AddsUp(f, S, h)
  OBVIOUS
<1> HIDE DEF h
<1> DEFINE T == {s \in SUBSET S : h[s] # g[s]}
<1>2. T = {}
  <2> SUFFICES ASSUME T # {} PROVE FALSE
    OBVIOUS
  <2>1. T \subseteq SUBSET S
    OBVIOUS
  <2> HIDE DEF T
  <2>2. PICK s \in T : \A y \in T : ~(y \subseteq s /\ y # s)
    BY <2>1, SmallestSubset
  <2>3. s \in SUBSET S /\ h[s] # g[s]
    BY DEF T
  <2>4. s # {}
    BY <2>3, <1>1, AddsUpStep
  <2>5. Pick(s) \in s
    BY <2>4 DEF Pick
  <2> DEFINE r == s \ {Pick(s)}
  <2>6. r \in SUBSET S /\ r \subseteq s /\ r # s
    BY <2>3, <2>5
  <2>7. h[r] = g[r]
    BY <2>2, <2>6 DEF T
  <2>8. h[s] = f[Pick(s)] + h[r]
    BY <1>1, <2>3, <2>4, AddsUpStep
  <2>9. g[s] = f[Pick(s)] + g[r]
    BY <2>3, <2>4, AddsUpStep
  <2> QED BY <2>3, <2>7, <2>8, <2>9
<1>3. h[S] = g[S]
  BY <1>2
<1> QED BY <1>3, SumChooses DEF h

\* Totals that do not depend on the order are what the recursion computes.
LEMMA TotalsAddUp ==
  ASSUME NEW f, NEW S, NEW g, Totals(f, S, g)
  PROVE  AddsUp(f, S, g)
<1>1. ASSUME NEW s \in SUBSET S
      PROVE  g[s] = IF s = {} THEN 0 ELSE LET x == Pick(s) IN f[x] + g[s \ {x}]
  <2>1. CASE s = {}
    BY <2>1 DEF Totals
  <2>2. CASE s # {}
    <3> DEFINE x == Pick(s)
               r == s \ {x}
    <3>1. x \in s
      BY <2>2 DEF Pick
    <3>2. r \in SUBSET S /\ x \notin r /\ x \in S /\ r \cup {x} = s
      BY <3>1
    <3> HIDE DEF x, r
    <3>3. g[s] = f[x] + g[r]
      BY <3>2 DEF Totals
    <3> QED BY <2>2, <3>3 DEF x, r
  <2> QED BY <2>1, <2>2
<1>2. g = [s \in SUBSET S |-> g[s]]
  BY DEF Totals
<1> QED BY <1>1, <1>2 DEF AddsUp

\* There are such totals.
LEMMA TotalsExist ==
  ASSUME NEW f, NEW S, IsFiniteSet(S), \A x \in S : f[x] \in Int
  PROVE  \E g : Totals(f, S, g)
<1> DEFINE T == {s \in SUBSET S : \E g : Totals(f, s, g)}
<1>1. {} \in T
  <2> DEFINE g == [s \in SUBSET {} |-> 0]
  <2>1. Totals(f, {}, g)
    BY DEF Totals
  <2> QED BY <2>1
<1>2. ASSUME NEW s \in SUBSET S, NEW z \in S, s \in T, z \notin s
      PROVE  s \cup {z} \in T
  <2>1. PICK g : Totals(f, s, g)
    BY <1>2
  <2> DEFINE R == s \cup {z}
             h == [r \in SUBSET R |-> IF z \in r THEN f[z] + g[r \ {z}] ELSE g[r]]
  <2>2. \A r \in SUBSET R : r \ {z} \in SUBSET s /\ (z \notin r => r \in SUBSET s)
    OBVIOUS
  <2>3. h \in [SUBSET R -> Int]
    BY <2>1, <2>2 DEF Totals
  <2>4. h[{}] = 0
    BY <2>1 DEF Totals
  <2>5. ASSUME NEW r \in SUBSET R, NEW x \in R, x \notin r
        PROVE  h[r \cup {x}] = f[x] + h[r]
    <3>0. r \cup {x} \in SUBSET R
      OBVIOUS
    <3>1. CASE x = z
      <4>1. (r \cup {x}) \ {z} = r /\ z \in r \cup {x} /\ z \notin r
        BY <2>5, <3>1
      <4> QED BY <3>0, <3>1, <4>1
    <3>2. CASE x # z /\ z \notin r
      <4>1. z \notin r \cup {x} /\ r \in SUBSET s /\ x \in s
        BY <3>2
      <4>2. h[r \cup {x}] = g[r \cup {x}] /\ h[r] = g[r]
        BY <3>0, <3>2, <4>1
      <4>3. g[r \cup {x}] = f[x] + g[r]
        BY <2>1, <2>5, <4>1 DEF Totals
      <4> QED BY <4>2, <4>3
    <3>3. CASE x # z /\ z \in r
      <4> DEFINE q == r \ {z}
      <4>1. z \in r \cup {x} /\ q \in SUBSET s /\ x \in s /\ x \notin q /\ (r \cup {x}) \ {z} = q \cup {x}
        BY <2>5, <3>3
      <4>2. h[r \cup {x}] = f[z] + g[q \cup {x}] /\ h[r] = f[z] + g[q]
        BY <3>0, <3>3, <4>1
      <4> HIDE DEF q
      <4>3. g[q \cup {x}] = f[x] + g[q] /\ g[q] \in Int
        BY <2>1, <4>1 DEF Totals
      <4>4. f[x] \in Int /\ f[z] \in Int
        BY <4>1
      <4> HIDE DEF h
      <4> QED BY <4>2, <4>3, <4>4
    <3> QED BY <3>1, <3>2, <3>3
  <2> HIDE DEF h
  <2>6. Totals(f, R, h)
    BY <2>3, <2>4, <2>5 DEF Totals
  <2> QED BY <2>6
<1> HIDE DEF T
<1>3. S \in T
  BY <1>1, <1>2, GrowSet
<1> QED BY <1>3 DEF T

\* The sum is the total, whatever the order the elements are added in.
LEMMA SumIsTotal ==
  ASSUME NEW f, NEW S, IsFiniteSet(S), NEW g, Totals(f, S, g), NEW s \in SUBSET S
  PROVE  Sum(f, s) = g[s]
<1> DEFINE h == [r \in SUBSET s |-> g[r]]
<1>1. Totals(f, s, h)
  <2>1. h \in [SUBSET s -> Int] /\ h[{}] = 0
    BY DEF Totals
  <2>2. ASSUME NEW r \in SUBSET s, NEW x \in s, x \notin r
        PROVE  h[r \cup {x}] = f[x] + h[r]
    <3>1. r \cup {x} \in SUBSET s /\ r \in SUBSET S /\ x \in S
      OBVIOUS
    <3>2. g[r \cup {x}] = f[x] + g[r]
      BY <2>2, <3>1 DEF Totals
    <3> QED BY <3>1, <3>2
  <2> HIDE DEF h
  <2> QED BY <2>1, <2>2 DEF Totals
<1>2. IsFiniteSet(s)
  BY FS_Subset
<1>3. h[s] = g[s]
  OBVIOUS
<1> HIDE DEF h
<1>4. AddsUp(f, s, h)
  BY <1>1, TotalsAddUp
<1>5. Sum(f, s) = h[s]
  BY <1>2, <1>4, SumIsUnique
<1> QED BY <1>3, <1>5

\* Nothing adds up to 0.
LEMMA SumEmpty == \A f : Sum(f, {}) = 0
<1> TAKE f
<1>1. IsFiniteSet({})
  BY FS_EmptySet
<1>2. PICK g : Totals(f, {}, g)
  BY <1>1, TotalsExist
<1>3. Sum(f, {}) = g[{}]
  BY <1>1, <1>2, SumIsTotal
<1> QED BY <1>2, <1>3 DEF Totals

\* A sum of integers is an integer.
LEMMA SumIsInt ==
  ASSUME NEW f, NEW S, IsFiniteSet(S), \A x \in S : f[x] \in Int
  PROVE  Sum(f, S) \in Int
<1>1. PICK g : Totals(f, S, g)
  BY TotalsExist
<1>2. Sum(f, S) = g[S]
  BY <1>1, SumIsTotal
<1> QED BY <1>1, <1>2 DEF Totals

\* One element more adds its value.
LEMMA SumInsert ==
  ASSUME NEW f, NEW S, IsFiniteSet(S), NEW z, z \notin S, \A x \in S \cup {z} : f[x] \in Int
  PROVE  Sum(f, S \cup {z}) = f[z] + Sum(f, S)
<1> DEFINE R == S \cup {z}
<1>1. IsFiniteSet(R)
  BY FS_AddElement
<1>2. S \in SUBSET R /\ R \in SUBSET R /\ z \in R /\ R = S \cup {z}
  OBVIOUS
<1> HIDE DEF R
<1>3. PICK g : Totals(f, R, g)
  BY <1>1, <1>2, TotalsExist
<1>4. Sum(f, S) = g[S] /\ Sum(f, R) = g[R]
  BY <1>1, <1>2, <1>3, SumIsTotal
<1>5. g[S \cup {z}] = f[z] + g[S]
  BY <1>2, <1>3 DEF Totals
<1> QED BY <1>2, <1>4, <1>5

\* A sum depends on the values at its elements only, and grows with them.
LEMMA SumGrows ==
  ASSUME NEW S, IsFiniteSet(S), NEW f, NEW g,
         \A x \in S : f[x] \in Int /\ g[x] \in Int /\ f[x] <= g[x]
  PROVE  Sum(f, S) <= Sum(g, S)
<1> DEFINE T == {s \in SUBSET S : Sum(f, s) <= Sum(g, s)}
<1>1. {} \in T
  BY SumEmpty
<1>2. ASSUME NEW s \in SUBSET S, NEW z \in S, s \in T, z \notin s
      PROVE  s \cup {z} \in T
  <2> DEFINE a == Sum(f, s)
             b == Sum(g, s)
             c == Sum(f, s \cup {z})
             d == Sum(g, s \cup {z})
  <2>1. IsFiniteSet(s)
    BY FS_Subset
  <2>2. a \in Int /\ b \in Int
    BY <2>1, SumIsInt
  <2>3. c = f[z] + a /\ d = g[z] + b
    BY <1>2, <2>1, SumInsert
  <2>4. a <= b
    BY <1>2
  <2> HIDE DEF a, b, c, d
  <2>5. c <= d
    BY <2>2, <2>3, <2>4
  <2> QED BY <2>5 DEF c, d
<1> HIDE DEF T
<1>3. S \in T
  BY <1>1, <1>2, GrowSet
<1> QED BY <1>3 DEF T

\* Functions that agree on a set have the same sum over it.
LEMMA SumSame ==
  ASSUME NEW S, IsFiniteSet(S), NEW f, NEW g, \A x \in S : f[x] \in Int /\ f[x] = g[x]
  PROVE  Sum(f, S) = Sum(g, S)
<1> DEFINE a == Sum(f, S)
           b == Sum(g, S)
<1>1. a \in Int /\ b \in Int
  BY SumIsInt
<1>2. a <= b /\ b <= a
  BY SumGrows
<1> HIDE DEF a, b
<1>3. a = b
  BY <1>1, <1>2
<1> QED BY <1>3 DEF a, b

\* A change at one element changes the sum by as much.
LEMMA SumChange ==
  ASSUME NEW S, IsFiniteSet(S), NEW f, NEW g, NEW z \in S,
         \A x \in S : f[x] \in Int /\ g[x] \in Int,
         \A x \in S : x # z => f[x] = g[x]
  PROVE  Sum(g, S) = Sum(f, S) + (g[z] - f[z])
<1> DEFINE R == S \ {z}
           a == Sum(f, R)
           b == Sum(g, R)
           c == Sum(f, S)
           d == Sum(g, S)
<1>1. IsFiniteSet(R) /\ R \cup {z} = S /\ z \notin R
  BY FS_Subset
<1>2. a = b
  BY <1>1, SumSame
<1>3. a \in Int
  BY <1>1, SumIsInt
<1>4. c = f[z] + a
  BY ONLY <1>1, SumInsert, \A x \in S : f[x] \in Int /\ g[x] \in Int
<1>5. d = g[z] + b
  BY ONLY <1>1, SumInsert, \A x \in S : f[x] \in Int /\ g[x] \in Int
<1>6. f[z] \in Int /\ g[z] \in Int
  OBVIOUS
<1> HIDE DEF a, b, c, d
<1>7. d = c + (g[z] - f[z])
  BY <1>2, <1>3, <1>4, <1>5, <1>6
<1> QED BY <1>7 DEF c, d

-----------------------------------------------------------------------------
(* Recursion over 0 .. n, and the two functions the model defines by it.   *)

\* f goes from a as h says, for n steps.
Follows(f, a, h, n, S) ==
  f \in [0 .. n -> S] /\ f[0] = a /\ \A k \in 1 .. n : f[k] = h[k][f[k - 1]]

\* A recursion over 0 .. n has a solution.
LEMMA Recursion ==
  ASSUME NEW n \in Nat, NEW S, NEW a \in S, NEW h \in [1 .. n -> [S -> S]]
  PROVE  \E f : Follows(f, a, h, n, S)
<1> DEFINE Goes(f, m) == f[0] = a /\ \A k \in 1 .. m : f[k] = h[k][f[k - 1]]
           T == {m \in 0 .. n : \E f \in [0 .. m -> S] : Goes(f, m)}
<1>1. 0 \in T
  <2> DEFINE f == [k \in 0 .. 0 |-> a]
  <2>1. f \in [0 .. 0 -> S] /\ Goes(f, 0)
    OBVIOUS
  <2> HIDE DEF f, Goes
  <2> QED BY <2>1
<1>2. ASSUME NEW m \in 0 .. n - 1, m \in T
      PROVE  m + 1 \in T
  <2>1. PICK f \in [0 .. m -> S] : Goes(f, m)
    BY <1>2
  <2> DEFINE v == h[m + 1][f[m]]
             g == [k \in 0 .. m + 1 |-> IF k = m + 1 THEN v ELSE f[k]]
  <2>2. v \in S
    OBVIOUS
  <2> HIDE DEF v
  <2>3. g \in [0 .. m + 1 -> S] /\ g[m + 1] = v /\ \A k \in 0 .. m : g[k] = f[k]
    BY <2>2
  <2> HIDE DEF g
  <2>4. g[0] = a
    BY <2>1, <2>3
  <2>5. ASSUME NEW k \in 1 .. m + 1
        PROVE  g[k] = h[k][g[k - 1]]
    <3>1. CASE k = m + 1
      BY <2>3, <3>1 DEF v
    <3>2. CASE k # m + 1
      <4>1. k \in 1 .. m /\ k \in 0 .. m /\ k - 1 \in 0 .. m
        BY <3>2
      <4>2. f[k] = h[k][f[k - 1]]
        BY <2>1, <4>1
      <4> QED BY <2>3, <4>1, <4>2
    <3> QED BY <3>1, <3>2
  <2>6. Goes(g, m + 1)
    BY <2>4, <2>5
  <2> HIDE DEF Goes
  <2> QED BY <2>3, <2>6
<1> HIDE DEF T
<1>3. n \in T
  <2>1. \A k \in 0 .. n : k \in T
    BY ONLY n \in Nat, <1>1, <1>2, CountUp
  <2> QED BY <2>1
<1>4. PICK f \in [0 .. n -> S] : Goes(f, n)
  BY <1>3 DEF T
<1> QED BY <1>4 DEF Follows

\* What holds of a table: the ids tell its streams apart.
LEMMA TableFacts ==
  ASSUME table \in Tables
  PROVE  /\ table \in Seq(Stream)
         /\ \A j, k \in DOMAIN table : table[j].id = table[k].id => j = k
         /\ DOMAIN table = 1 .. Len(table) /\ Len(table) \in Nat
         /\ \A k \in DOMAIN table : table[k] \in Stream
BY TablesAssumption

\* Of finds the one enabled stream of an id.
LEMMA OfFacts ==
  ASSUME table \in Tables
  PROVE  /\ \A n \in Present : /\ Of(n) \in Stream /\ Of(n).enabled /\ Of(n).id = n
                               /\ \E k \in DOMAIN table : table[k] = Of(n)
         /\ \A k \in DOMAIN table : table[k].enabled =>
              table[k].id \in Present /\ Of(table[k].id) = table[k]
         /\ Present \subseteq Nat /\ NONE \notin Present
         /\ Roots \subseteq Present
<1> DEFINE All == {table[k] : k \in DOMAIN table}
<1>1. ASSUME NEW n \in Present
      PROVE  /\ Of(n) \in All /\ Of(n).enabled /\ Of(n).id = n
             /\ \A s \in All : s.enabled /\ s.id = n => s = Of(n)
  <2>1. \E s \in All : s.enabled /\ s.id = n
    BY DEF Present
  <2>2. Of(n) \in All /\ Of(n).enabled /\ Of(n).id = n
    BY <2>1 DEF Of
  <2> HIDE DEF All
  <2>3. \A s \in All : s.id = n => s = Of(n)
    BY <2>2, TableFacts DEF All
  <2> QED BY <2>2, <2>3
<1>2. \A k \in DOMAIN table : table[k].enabled => table[k].id \in Present
  BY DEF Present
<1>3. Present \subseteq Nat
  BY TableFacts DEF Present, Stream
<1>4. Roots \subseteq Present
  BY DEF Roots, Present
<1>5. \A n \in Present : /\ Of(n) \in Stream /\ Of(n).enabled /\ Of(n).id = n
                         /\ \E k \in DOMAIN table : table[k] = Of(n)
  BY <1>1, TableFacts
<1>6. \A k \in DOMAIN table : table[k].enabled => Of(table[k].id) = table[k]
  BY <1>1, <1>2
<1>7. NONE \notin Present
  BY <1>3 DEF NONE
<1> QED BY <1>2, <1>3, <1>4, <1>5, <1>6, <1>7

\* A table holds finitely many streams and roots.
LEMMA PresentFinite ==
  ASSUME table \in Tables
  PROVE  /\ IsFiniteSet(Present) /\ Cardinality(Present) \in Nat
         /\ IsFiniteSet(Roots)
<1> DEFINE K == {k \in DOMAIN table : table[k].enabled}
           f == [k \in K |-> table[k].id]
<1>1. IsFiniteSet(DOMAIN table)
  <2>1. IsFiniteSet(1 .. Len(table))
    BY TableFacts, FS_Interval
  <2> QED BY <2>1, TableFacts
<1>2. IsFiniteSet(K)
  BY <1>1, FS_Subset
<1>3. Present = {f[k] : k \in K}
  BY DEF Present
<1>4. f \in Surjection(K, Present)
  BY <1>3 DEF Surjection
<1> HIDE DEF f, K
<1>5. IsFiniteSet(Present)
  BY <1>2, <1>4, FS_Surjection
<1>6. IsFiniteSet(Roots)
  BY <1>5, OfFacts, FS_Subset
<1> QED BY <1>5, <1>6, FS_CardinalityType

Top == Cardinality(Present)

\* Where a chain goes from an id.
Onward(n) == IF n \in Present THEN Of(n).next ELSE NONE

\* The chain of a root starts at the root and goes where the streams lead.
LEMMA ChainIs ==
  ASSUME table \in Tables, NEW r \in Nat
  PROVE  /\ Chain(r) \in [0 .. Top -> Nat \cup {NONE}]
         /\ Chain(r)[0] = r
         /\ \A k \in 1 .. Top : Chain(r)[k] = Onward(Chain(r)[k - 1])
<1> DEFINE S == Nat \cup {NONE}
           Def(w) == w = [k \in 0 .. Top |-> IF k = 0 THEN r ELSE Onward(w[k - 1])]
           h == [k \in 1 .. Top |-> [n \in S |-> Onward(n)]]
<1>1. Top \in Nat
  BY PresentFinite DEF Top
<1>2. ASSUME NEW n \in S PROVE Onward(n) \in S
  BY <1>2, OfFacts DEF Onward, Stream
<1>3. h \in [1 .. Top -> [S -> S]]
  BY <1>2
<1>4. \A k \in 1 .. Top : \A n \in S : h[k][n] = Onward(n)
  OBVIOUS
<1> HIDE DEF h, S
<1>5. r \in S
  BY DEF S
<1>6. PICK f : Follows(f, r, h, Top, S)
  BY ONLY <1>1, <1>3, <1>5, Recursion, Zenon
<1> USE DEF Follows
<1>7. \A k \in 1 .. Top : f[k] = Onward(f[k - 1])
  <2> TAKE k \in 1 .. Top
  <2>1. k - 1 \in 0 .. Top
    BY <1>1
  <2>2. f[k - 1] \in S
    BY <1>6, <2>1
  <2> QED BY <1>4, <1>6, <2>2
<1>8. Def(f)
  BY <1>1, <1>6, <1>7
<1>9. Chain(r) = CHOOSE w : Def(w)
  BY DEF Chain, Onward, Top
<1> DEFINE c == Chain(r)
<1>10. Def(c)
  BY <1>8, <1>9
<1> HIDE DEF c
<1>11. c[0] = r /\ \A k \in 1 .. Top : c[k] = Onward(c[k - 1])
  BY <1>1, <1>10
<1>12. \A k \in 0 .. Top : c[k] \in S
  <2> DEFINE T == {k \in 0 .. Top : c[k] \in S}
  <2>1. 0 \in T
    BY <1>1, <1>5, <1>11
  <2>2. \A k \in 0 .. Top - 1 : k \in T => k + 1 \in T
    BY <1>1, <1>2, <1>11
  <2> HIDE DEF T
  <2>3. \A k \in 0 .. Top : k \in T
    BY <1>1, <2>1, <2>2, CountUp
  <2> QED BY <2>3 DEF T
<1>13. c \in [0 .. Top -> S]
  BY <1>10, <1>12
<1> HIDE DEF Def
<1> QED BY <1>11, <1>13 DEF c, S

\* root_streams holds every root, once.
LEMMA RootStreamsAre ==
  ASSUME table \in Tables
  PROVE  /\ RootStreams(table) \in Seq(Present)
         /\ {RootStreams(table)[x] : x \in DOMAIN RootStreams(table)} = Roots
         /\ \A x, y \in DOMAIN RootStreams(table) :
              RootStreams(table)[x] = RootStreams(table)[y] => x = y
<1> DEFINE n == Len(table)
           Root(k) == table[k].enabled /\ table[k].self_start
           Put(k, q) == IF Root(k) THEN Append(q, table[k].id) ELSE q
           Def(w) == w = [k \in 0 .. n |-> IF k = 0 THEN << >> ELSE Put(k, w[k - 1])]
           S == Seq(Nat)
           h == [k \in 1 .. n |-> [q \in S |-> Put(k, q)]]
<1>1. n \in Nat /\ DOMAIN table = 1 .. n /\ \A k \in 1 .. n : table[k] \in Stream /\ table[k].id \in Nat
  BY TableFacts DEF Stream
<1>2. ASSUME NEW k \in 1 .. n, NEW q \in S PROVE Put(k, q) \in S
  BY <1>1
<1> HIDE DEF Put
<1>3. h \in [1 .. n -> [S -> S]] /\ \A k \in 1 .. n : \A q \in S : h[k][q] = Put(k, q)
  BY <1>2
<1>4. << >> \in S
  OBVIOUS
<1> HIDE DEF h, S
<1>5. PICK f : Follows(f, << >>, h, n, S)
  BY ONLY <1>1, <1>3, <1>4, Recursion, Zenon
<1> USE DEF Follows
<1>6. \A k \in 1 .. n : f[k] = Put(k, f[k - 1])
  <2> TAKE k \in 1 .. n
  <2>1. k - 1 \in 0 .. n
    BY <1>1
  <2> QED BY <1>3, <1>5, <2>1
<1>7. Def(f)
  BY <1>1, <1>5, <1>6
<1> DEFINE c == CHOOSE w : Def(w)
<1>8. RootStreams(table) = c[n]
  BY DEF RootStreams, Put
<1>9. Def(c)
  BY <1>7
<1> HIDE DEF c
<1>10. c[0] = << >> /\ \A k \in 1 .. n : c[k] = Put(k, c[k - 1])
  BY <1>1, <1>9
<1> HIDE DEF Def
<1> DEFINE Ids(k) == {table[j].id : j \in {j \in 1 .. k : Root(j)}}
           OK(k, q) == /\ q \in Seq(Present)
                       /\ {q[x] : x \in DOMAIN q} = Ids(k)
                       /\ \A x, y \in DOMAIN q : q[x] = q[y] => x = y
           T == {k \in 0 .. n : OK(k, c[k])}
<1>11. 0 \in T
  <2>1. << >> \in Seq(Present) /\ DOMAIN << >> = {} /\ Ids(0) = {}
    OBVIOUS
  <2>2. OK(0, << >>)
    BY <2>1
  <2> HIDE DEF OK
  <2> QED BY <1>1, <1>10, <2>2
<1>12. ASSUME NEW k \in 0 .. n - 1, k \in T
       PROVE  k + 1 \in T
  <2> DEFINE q == c[k]
             g == c[k + 1]
             id == table[k + 1].id
  <2>1. k + 1 \in 1 .. n /\ k + 1 \in 0 .. n /\ (k + 1) - 1 = k
    BY <1>1
  <2>2. g = Put(k + 1, q)
    BY <1>10, <2>1
  <2>3. OK(k, q)
    BY <1>12
  <2>4. CASE ~Root(k + 1)
    <3>1. g = q /\ Ids(k + 1) = Ids(k)
      BY <1>1, <2>1, <2>2, <2>4 DEF Put
    <3>2. OK(k + 1, g)
      BY ONLY <2>3, <3>1, ZenonT(60)
    <3> HIDE DEF OK
    <3> QED BY <2>1, <3>2
  <2>5. CASE Root(k + 1)
    <3> HIDE DEF q, g
    <3>1. g = Append(q, id) /\ Ids(k + 1) = Ids(k) \cup {id}
      BY <1>1, <2>1, <2>2, <2>5 DEF Put
    <3>2. id \notin Ids(k)
      BY <1>1, <2>1, TableFacts
    <3>3. id \in Present
      BY <1>1, <2>1, <2>5 DEF Present
    <3> HIDE DEF id
    <3>4. g \in Seq(Present) /\ Len(g) = Len(q) + 1 /\ DOMAIN g = 1 .. Len(q) + 1 /\ Len(q) \in Nat
          /\ g[Len(q) + 1] = id /\ \A x \in 1 .. Len(q) : g[x] = q[x]
      BY <2>3, <3>1, <3>3
    <3>5. DOMAIN q = 1 .. Len(q)
      BY <2>3
    <3>6. {g[x] : x \in DOMAIN g} = Ids(k + 1)
      <4>1. {g[x] : x \in DOMAIN g} = {q[x] : x \in DOMAIN q} \cup {id}
        BY ONLY <3>4, <3>5
      <4> QED BY <2>3, <3>1, <4>1
    <3>7. \A x, y \in DOMAIN g : g[x] = g[y] => x = y
      <4>1. \A x \in 1 .. Len(q) : g[x] # id
        BY <2>3, <3>2, <3>4, <3>5
      <4>2. \A x, y \in 1 .. Len(q) : g[x] = g[y] => x = y
        BY <2>3, <3>4, <3>5
      <4> QED BY <3>4, <4>1, <4>2
    <3>8. OK(k + 1, g)
      BY <3>4, <3>6, <3>7
    <3> HIDE DEF OK
    <3> QED BY <2>1, <3>8 DEF g
  <2> QED BY <2>4, <2>5
<1> HIDE DEF T, n
<1>13. n \in T
  <2>1. n \in Nat /\ n \in 0 .. n
    BY <1>1
  <2>2. \A k \in 0 .. n : k \in T
    BY ONLY <2>1, <1>11, <1>12, CountUp
  <2> QED BY <2>1, <2>2
<1>14. OK(n, c[n])
  BY <1>13 DEF T
<1>15. Ids(n) = Roots
  BY <1>1 DEF Roots
<1> HIDE DEF Ids
<1> QED BY <1>8, <1>14, <1>15

-----------------------------------------------------------------------------
(* The chain of a root.                                                    *)

\* The first m ids of the chain are present, and no id of the first m + 1 returns.
Path(r, m) ==
  /\ m \in 0 .. Top
  /\ \A k \in 0 .. m - 1 : Chain(r)[k] \in Present
  /\ \A a, b \in 0 .. m : Chain(r)[a] = Chain(r)[b] => a = b

\* The id at position m is present too.
Walk(r, m) == Path(r, m) /\ Chain(r)[m] \in Present

\* A walk is shorter than the table: there is a position after it.
LEMMA WalkIsShort ==
  ASSUME table \in Tables, NEW r \in Nat, NEW m, Walk(r, m)
  PROVE  m \in Nat /\ m + 1 \in 1 .. Top /\ Top \in Nat
<1> DEFINE c == Chain(r)
           f == [k \in 0 .. m |-> c[k]]
<1>1. m \in Nat /\ Top \in Nat /\ m <= Top
  BY PresentFinite DEF Walk, Path, Top
<1>2. \A k \in 0 .. m : c[k] \in Present
  BY <1>1 DEF Walk, Path
<1>3. \A a, b \in 0 .. m : c[a] = c[b] => a = b
  BY <1>1 DEF Walk, Path
<1> HIDE DEF c
<1>4. f \in Injection(0 .. m, Present)
  <2>1. f \in [0 .. m -> Present] /\ \A a, b \in 0 .. m : f[a] = f[b] => a = b
    BY <1>2, <1>3
  <2> QED BY <2>1 DEF Injection, IsInjective
<1> HIDE DEF f
<1>5. Cardinality(0 .. m) <= Cardinality(Present)
  BY <1>4, PresentFinite, FS_Injection
<1>6. Cardinality(0 .. m) = m + 1
  BY <1>1, FS_Interval
<1> QED BY <1>1, <1>5, <1>6 DEF Top

\* After a walk the chain goes where its last stream leads.
LEMMA ChainStep ==
  ASSUME table \in Tables, NEW r \in Nat, NEW m, Walk(r, m)
  PROVE  Chain(r)[m + 1] = Of(Chain(r)[m]).next
<1>1. m + 1 \in 1 .. Top /\ (m + 1) - 1 = m
  BY WalkIsShort
<1>2. Chain(r)[m + 1] = Onward(Chain(r)[m])
  BY <1>1, ChainIs
<1> QED BY <1>2 DEF Onward, Walk

\* What has been walked is visited.
LEMMA WalkIsVisited ==
  ASSUME table \in Tables, NEW r \in Nat, NEW m, Walk(r, m)
  PROVE  0 .. m \subseteq Visited(r)
<1>1. m \in Nat /\ m <= Top /\ Top \in Nat /\ DOMAIN Chain(r) = 0 .. Top
  BY WalkIsShort, ChainIs
<1>2. ASSUME NEW k \in 0 .. m
      PROVE  /\ k \in 0 .. Top /\ Chain(r)[k] \in Present
             /\ \A a, b \in 0 .. k : Chain(r)[a] = Chain(r)[b] => a = b
  BY <1>1 DEF Walk, Path
<1> QED BY <1>1, <1>2 DEF Visited

\* A chain that ends at position m: that is all it visits, and it is not broken.
LEMMA ChainEnds ==
  ASSUME table \in Tables, NEW r \in Nat, NEW m, Walk(r, m), Of(Chain(r)[m]).next = NONE
  PROVE  /\ Visited(r) = 0 .. m /\ ~Broken(r)
         /\ Endless(r) => \E k \in 0 .. m : Of(Chain(r)[k]).type = "continuous"
<1> DEFINE c == Chain(r)
           T == {k \in 0 .. Top : k > m => c[k] = NONE}
<1>1. m \in Nat /\ m + 1 \in 1 .. Top /\ Top \in Nat /\ DOMAIN c = 0 .. Top
  BY WalkIsShort, ChainIs
<1>2. c[m + 1] = NONE
  BY ChainStep
<1>3. NONE \notin Present
  BY OfFacts
<1>4. \A k \in 1 .. Top : c[k] = Onward(c[k - 1])
  BY ChainIs
<1>5. \A k \in 0 .. m : c[k] \in Present
  BY <1>1 DEF Walk, Path
<1> HIDE DEF c
<1>6. \A k \in 0 .. Top : k > m => c[k] = NONE
  <2>1. 0 \in T
    BY <1>1
  <2>2. ASSUME NEW k \in 0 .. Top - 1, k \in T PROVE k + 1 \in T
    <3>1. k + 1 \in 0 .. Top /\ k + 1 \in 1 .. Top /\ (k + 1) - 1 = k
      BY <1>1
    <3>2. CASE k + 1 = m + 1
      BY <1>2, <3>1, <3>2
    <3>3. CASE k + 1 > m + 1
      <4>1. c[k] = NONE
        BY <1>1, <2>2, <3>3
      <4>2. c[k + 1] = NONE
        BY <1>3, <1>4, <3>1, <4>1 DEF Onward
      <4> QED BY <3>1, <4>2
    <3>4. CASE k + 1 < m + 1
      BY <1>1, <3>1, <3>4
    <3> QED BY <1>1, <3>2, <3>3, <3>4
  <2> HIDE DEF T
  <2>3. \A k \in 0 .. Top : k \in T
    BY <1>1, <2>1, <2>2, CountUp
  <2> QED BY <2>3 DEF T
<1>7. Visited(r) \subseteq 0 .. m
  <2>1. \A k \in 0 .. Top : c[k] \in Present => k \in 0 .. m
    BY <1>1, <1>3, <1>6
  <2> QED BY <1>1, <2>1 DEF Visited, c
<1>8. 0 .. m \subseteq Visited(r)
  BY WalkIsVisited
<1>9. ~Broken(r)
  <2>1. \A k \in 0 .. Top : c[k] \in Present \cup {NONE}
    BY <1>1, <1>5, <1>6
  <2> QED BY <1>1, <2>1 DEF Broken, c
<1>10. ~(\A k \in 0 .. Top : c[k] \in Present)
  BY <1>1, <1>2, <1>3
<1>11. Visited(r) = 0 .. m
  BY <1>7, <1>8
<1> QED BY <1>1, <1>9, <1>10, <1>11 DEF Endless, Loops, c

\* A chain that returns after position m to where it has been: that is all it
\* visits, it is not broken, and it never ends.
LEMMA ChainLoops ==
  ASSUME table \in Tables, NEW r \in Nat, NEW m, Walk(r, m),
         \E k \in 0 .. m : Of(Chain(r)[m]).next = Chain(r)[k]
  PROVE  Visited(r) = 0 .. m /\ ~Broken(r) /\ Endless(r)
<1> DEFINE c == Chain(r)
           B == {c[k] : k \in 0 .. m}
           T == {k \in 0 .. Top : c[k] \in B}
<1>1. m \in Nat /\ m + 1 \in 1 .. Top /\ Top \in Nat /\ DOMAIN c = 0 .. Top
  BY WalkIsShort, ChainIs
<1>2. c[m + 1] \in B
  BY ChainStep
<1>4. \A k \in 1 .. Top : c[k] = Onward(c[k - 1])
  BY ChainIs
<1>5. \A k \in 0 .. m : c[k] \in Present
  BY <1>1 DEF Walk, Path
<1> HIDE DEF c
<1>6. \A k \in 0 .. Top : c[k] \in B
  <2>0. \A j \in 0 .. m : Onward(c[j]) \in B
    <3> TAKE j \in 0 .. m
    <3>1. j + 1 \in 1 .. Top /\ (j + 1) - 1 = j /\ j + 1 \in 0 .. m + 1
      BY <1>1
    <3>2. c[j + 1] = Onward(c[j])
      BY <1>4, <3>1
    <3>3. c[j + 1] \in B
      BY <1>1, <1>2, <3>1
    <3> QED BY <3>2, <3>3
  <2>1. 0 \in T
    BY <1>1
  <2>2. ASSUME NEW k \in 0 .. Top - 1, k \in T PROVE k + 1 \in T
    <3>1. k + 1 \in 0 .. Top /\ k + 1 \in 1 .. Top /\ (k + 1) - 1 = k
      BY <1>1
    <3>2. PICK j \in 0 .. m : c[k] = c[j]
      BY <2>2
    <3>3. c[k + 1] = Onward(c[j])
      BY <1>4, <3>1, <3>2
    <3> QED BY <2>0, <3>1, <3>3
  <2> HIDE DEF T
  <2>3. \A k \in 0 .. Top : k \in T
    BY <1>1, <2>1, <2>2, CountUp
  <2> QED BY <2>3 DEF T
<1>7. \A k \in 0 .. Top : c[k] \in Present
  BY <1>5, <1>6
<1>8. Visited(r) \subseteq 0 .. m
  <2>1. PICK j \in 0 .. m : c[m + 1] = c[j]
    BY <1>2
  <2>2. ASSUME NEW k \in 0 .. Top, \A a, b \in 0 .. k : c[a] = c[b] => a = b
        PROVE  k \in 0 .. m
    BY <1>1, <2>1, <2>2
  <2> QED BY <1>1, <2>2 DEF Visited, c
<1>9. 0 .. m \subseteq Visited(r)
  BY WalkIsVisited
<1> QED BY <1>1, <1>7, <1>8, <1>9 DEF Broken, Endless, Loops, c

\* A chain that goes on.
LEMMA ChainGoesOn ==
  ASSUME table \in Tables, NEW r \in Nat, NEW m, Walk(r, m),
         ~\E k \in 0 .. m : Of(Chain(r)[m]).next = Chain(r)[k]
  PROVE  Path(r, m + 1)
<1> DEFINE c == Chain(r)
<1>1. m \in Nat /\ m + 1 \in 1 .. Top /\ m + 1 \in 0 .. Top /\ Top \in Nat
  BY WalkIsShort
<1>2. \A k \in 0 .. m : c[m + 1] # c[k]
  BY ChainStep
<1>3. \A k \in 0 .. m : c[k] \in Present
  BY <1>1 DEF Walk, Path
<1>4. \A a, b \in 0 .. m : c[a] = c[b] => a = b
  BY DEF Walk, Path
<1> HIDE DEF c
<1>5. \A a, b \in 0 .. m + 1 : c[a] = c[b] => a = b
  BY <1>1, <1>2, <1>4
<1>6. (m + 1) - 1 = m
  BY <1>1
<1> QED BY <1>1, <1>3, <1>5, <1>6 DEF Path, c

\* A chain that comes to a stream that is missing.
LEMMA ChainBreaks ==
  ASSUME table \in Tables, NEW r \in Nat, NEW m, Path(r, m), Chain(r)[m] \in Nat \ Present
  PROVE  Broken(r)
<1>1. DOMAIN Chain(r) = 0 .. Top /\ m \in 0 .. Top
  BY ChainIs DEF Path
<1>2. Chain(r)[m] \notin Present \cup {NONE}
  BY DEF NONE
<1> QED BY <1>1, <1>2 DEF Broken

-----------------------------------------------------------------------------
(* Events and the rates they add up to.                                    *)

Event == [time : Int, diff : Int]

Diffs(evs) == [j \in DOMAIN evs |-> evs[j].diff]

Falls(evs, j) == j \in DOMAIN evs /\ evs[j].diff < 0

\* Every fall follows its rise.
Paired(evs) ==
  \A j \in DOMAIN evs : evs[j].diff < 0 =>
    /\ j - 1 \in DOMAIN evs /\ evs[j - 1].diff = -evs[j].diff
    /\ evs[j - 1].time <= evs[j].time

\* A set of events that holds the rise of each of its falls.
HasRises(evs, D) == \A j \in D : evs[j].diff < 0 => j - 1 \in D

Up(D, n) == {j \in D : j <= n}

\* The parts of a list of events.
LEMMA EventFacts ==
  ASSUME NEW evs \in Seq(Event)
  PROVE  /\ Len(evs) \in Nat /\ DOMAIN evs = 1 .. Len(evs)
         /\ \A j \in DOMAIN evs : /\ evs[j].time \in Int /\ evs[j].diff \in Int
                                  /\ Diffs(evs)[j] = evs[j].diff
         /\ IsFiniteSet(DOMAIN evs)
<1>1. Len(evs) \in Nat /\ DOMAIN evs = 1 .. Len(evs)
  OBVIOUS
<1>2. IsFiniteSet(1 .. Len(evs))
  BY <1>1, FS_Interval
<1>3. \A j \in DOMAIN evs : evs[j] \in Event
  OBVIOUS
<1> QED BY <1>1, <1>2, <1>3 DEF Diffs, Event

\* The sum over the first events of a set.
LEMMA SumUp ==
  ASSUME NEW evs \in Seq(Event), NEW D \in SUBSET DOMAIN evs
  PROVE  /\ Sum(Diffs(evs), Up(D, 0)) = 0
         /\ Up(D, Len(evs)) = D
         /\ \A n \in 0 .. Len(evs) :
              IsFiniteSet(Up(D, n)) /\ Sum(Diffs(evs), Up(D, n)) \in Int
<1> DEFINE d == Diffs(evs)
<1>1. Up(D, 0) = {} /\ Up(D, Len(evs)) = D
  BY EventFacts DEF Up
<1>2. Sum(d, Up(D, 0)) = 0
  BY <1>1, SumEmpty
<1>3. ASSUME NEW n \in 0 .. Len(evs)
      PROVE  IsFiniteSet(Up(D, n)) /\ Sum(d, Up(D, n)) \in Int
  <2> DEFINE U == Up(D, n)
  <2>1. U \subseteq DOMAIN evs
    BY DEF Up
  <2> HIDE DEF U
  <2>2. IsFiniteSet(U)
    BY <2>1, EventFacts, FS_Subset
  <2>3. \A j \in U : d[j] \in Int
    BY <2>1, EventFacts
  <2> HIDE DEF d
  <2>4. Sum(d, U) \in Int
    BY <2>2, <2>3, SumIsInt
  <2> QED BY <2>2, <2>4 DEF U
<1> QED BY <1>1, <1>2, <1>3

\* One event more.
LEMMA SumUpStep ==
  ASSUME NEW evs \in Seq(Event), NEW D \in SUBSET DOMAIN evs, NEW n \in Nat, n < Len(evs)
  PROVE  /\ n + 1 \notin D => Up(D, n + 1) = Up(D, n)
         /\ n + 1 \in D => /\ Up(D, n + 1) = Up(D, n) \cup {n + 1} /\ n + 1 \notin Up(D, n)
                           /\ Sum(Diffs(evs), Up(D, n + 1)) = evs[n + 1].diff + Sum(Diffs(evs), Up(D, n))
<1> DEFINE d == Diffs(evs)
           U == Up(D, n)
           z == n + 1
<1>0. n \in 0 .. Len(evs)
  BY EventFacts
<1>1. IsFiniteSet(U) /\ U \subseteq DOMAIN evs
  <2>1. IsFiniteSet(U)
    BY <1>0, SumUp
  <2> QED BY <2>1 DEF Up
<1>2. z \notin D => Up(D, z) = U
  BY EventFacts DEF Up
<1>3. ASSUME z \in D
      PROVE  Up(D, z) = U \cup {z} /\ z \notin U /\ Sum(d, U \cup {z}) = evs[z].diff + Sum(d, U)
  <2>1. Up(D, z) = U \cup {z} /\ z \notin U
    BY <1>3, EventFacts DEF Up
  <2>2. \A x \in U \cup {z} : d[x] \in Int
    BY <1>1, <1>3, EventFacts
  <2>3. d[z] = evs[z].diff
    BY <1>3, EventFacts
  <2> HIDE DEF d, U, z
  <2>4. Sum(d, U \cup {z}) = d[z] + Sum(d, U)
    BY ONLY <1>1, <2>1, <2>2, SumInsert
  <2> QED BY <2>1, <2>3, <2>4
<1> QED BY <1>2, <1>3

\* What has risen before it falls never sums up to less than nothing.
LEMMA NoNegativeSum ==
  ASSUME NEW evs \in Seq(Event), Paired(evs), NEW D \in SUBSET DOMAIN evs, HasRises(evs, D)
  PROVE  Sum(Diffs(evs), D) \in Nat
<1> DEFINE s(n) == Sum(Diffs(evs), Up(D, n))
           N == Len(evs)
           Good(n) == s(n) >= 0 /\ (n \in D /\ evs[n].diff > 0 => s(n) >= evs[n].diff)
           T == {n \in 0 .. N : Good(n)}
<1>1. N \in Nat /\ DOMAIN evs = 1 .. N /\ \A j \in 1 .. N : evs[j].diff \in Int
  BY EventFacts
<1>2. s(0) = 0 /\ \A n \in 0 .. N : s(n) \in Int
  BY SumUp
<1>3. \A n \in 0 .. N - 1 : s(n + 1) = IF n + 1 \in D THEN evs[n + 1].diff + s(n) ELSE s(n)
  <2> TAKE n \in 0 .. N - 1
  <2>1. n \in Nat /\ n < Len(evs)
    BY <1>1
  <2>2. n + 1 \in D => s(n + 1) = evs[n + 1].diff + s(n)
    BY <2>1, SumUpStep
  <2>3. n + 1 \notin D => Up(D, n + 1) = Up(D, n)
    BY <1>1, <2>1 DEF Up
  <2> QED BY <2>2, <2>3
<1> HIDE DEF s
<1>4. 0 \in T
  BY <1>1, <1>2
<1>5. ASSUME NEW n \in 0 .. N - 1, n \in T PROVE n + 1 \in T
  <2>1. n + 1 \in 0 .. N /\ n \in 0 .. N /\ (n + 1) - 1 = n /\ s(n) \in Int /\ Good(n)
    BY <1>1, <1>2, <1>5
  <2>2. CASE n + 1 \notin D
    BY <1>3, <2>1, <2>2
  <2>3. CASE n + 1 \in D /\ evs[n + 1].diff >= 0
    BY <1>1, <1>3, <2>1, <2>3
  <2>4. CASE n + 1 \in D /\ evs[n + 1].diff < 0
    <3>1. n \in D /\ evs[n].diff = -evs[n + 1].diff
      BY <2>1, <2>4 DEF HasRises, Paired
    <3>2. evs[n + 1].diff \in Int /\ evs[n].diff > 0
      BY <1>1, <2>4, <3>1
    <3>3. s(n) >= evs[n].diff
      BY <2>1, <3>1, <3>2
    <3>4. s(n + 1) = evs[n + 1].diff + s(n)
      BY <1>3, <2>4
    <3>5. s(n + 1) >= 0
      BY <2>1, <3>1, <3>2, <3>3, <3>4
    <3> QED BY <2>1, <2>4, <3>2, <3>5
  <2>5. n + 1 \in D => evs[n + 1].diff \in Int
    BY <1>1
  <2> QED BY <2>2, <2>3, <2>4, <2>5
<1> HIDE DEF T
<1>6. \A n \in 0 .. N : n \in T
  BY <1>1, <1>4, <1>5, CountUp
<1>7. s(N) \in Int /\ s(N) >= 0
  BY <1>1, <1>2, <1>6 DEF T
<1>8. s(N) = Sum(Diffs(evs), D)
  BY SumUp DEF s
<1> QED BY <1>7, <1>8

\* The events not after event k.
Prefix(evs, k) == {j \in DOMAIN evs : NotAfter(evs, j, k)}

\* The rate after an event is the sum of the differences up to it.
LEMMA RateIsSum ==
  ASSUME NEW evs, NEW k
  PROVE  RateAfter(evs, k) = Sum(Diffs(evs), Prefix(evs, k))
BY DEF RateAfter, Sum, Diffs, Prefix

\* What is sorted up to an event holds the rise of every fall: the sort is stable,
\* so not even a burst of no packets falls first.
LEMMA PrefixHasRises ==
  ASSUME NEW evs \in Seq(Event), Paired(evs), NEW k \in DOMAIN evs
  PROVE  HasRises(evs, Prefix(evs, k))
<1> SUFFICES ASSUME NEW j \in DOMAIN evs, NotAfter(evs, j, k), evs[j].diff < 0
             PROVE  j - 1 \in DOMAIN evs /\ NotAfter(evs, j - 1, k)
  BY DEF HasRises, Prefix
<1>1. j - 1 \in DOMAIN evs /\ evs[j - 1].time <= evs[j].time
  BY DEF Paired
<1>2. /\ evs[j].time \in Int /\ evs[j - 1].time \in Int /\ evs[k].time \in Int
      /\ j \in Nat /\ k \in Nat
  BY <1>1, EventFacts
<1> QED BY <1>1, <1>2 DEF NotAfter

\* Walking the sorted events the rate is never below zero.
LEMMA RateIsNat ==
  ASSUME NEW evs \in Seq(Event), Paired(evs), NEW k \in DOMAIN evs
  PROVE  RateAfter(evs, k) \in Nat
<1>1. Prefix(evs, k) \in SUBSET DOMAIN evs /\ HasRises(evs, Prefix(evs, k))
  BY PrefixHasRises DEF Prefix
<1> QED BY <1>1, RateIsSum, NoNegativeSum

-----------------------------------------------------------------------------
(* Events of several roots.  A root has one rate at a time, so a set of     *)
(* events that holds what came before, root by root, adds up to the sum of  *)
(* the rates the roots are at.                                             *)

Rises(evs, j) == j \in DOMAIN evs /\ evs[j].diff > 0

\* Every event has a root; a root falls before it rises again.
Owned(evs, own, R) ==
  /\ own \in [DOMAIN evs -> R]
  /\ \A j \in DOMAIN evs : evs[j].diff # 0
  /\ \A j \in DOMAIN evs : evs[j].diff < 0 => own[j - 1] = own[j]
  /\ \A j, l \in DOMAIN evs : j < l /\ own[j] = own[l] /\ Rises(evs, j) /\ Rises(evs, l) =>
       Falls(evs, j + 1) /\ evs[j + 1].time <= evs[l].time

\* A set that holds what came before, root by root.
Closed(evs, own, D) ==
  /\ HasRises(evs, D)
  /\ \A j, l \in DOMAIN evs : j < l /\ own[j] = own[l] /\ Rises(evs, j) /\ Rises(evs, l) /\ l \in D =>
       j + 1 \in D

\* A rise of root r whose fall is not in the set.
IsOpen(evs, own, D, r, j) ==
  /\ j \in D /\ own[j] = r /\ evs[j].diff > 0
  /\ ~(Falls(evs, j + 1) /\ j + 1 \in D)

OpenRate(evs, own, D, R) ==
  [r \in R |-> IF \E j \in D : IsOpen(evs, own, D, r, j)
                 THEN evs[CHOOSE j \in D : IsOpen(evs, own, D, r, j)].diff ELSE 0]

\* A root is in at most one burst.
LEMMA OpenIsOne ==
  ASSUME NEW evs \in Seq(Event), NEW R, NEW own, Owned(evs, own, R),
         NEW D \in SUBSET DOMAIN evs, Closed(evs, own, D),
         NEW r, NEW j \in D, NEW l \in D, IsOpen(evs, own, D, r, j), IsOpen(evs, own, D, r, l)
  PROVE  j = l
<1>1. j \in Nat /\ l \in Nat /\ j \in DOMAIN evs /\ l \in DOMAIN evs
  BY EventFacts
<1>2. ASSUME NEW a \in DOMAIN evs, NEW b \in DOMAIN evs, a < b, b \in D,
             IsOpen(evs, own, D, r, a), IsOpen(evs, own, D, r, b)
      PROVE  FALSE
  <2>1. own[a] = own[b] /\ Rises(evs, a) /\ Rises(evs, b)
    BY <1>2 DEF IsOpen, Rises
  <2>2. Falls(evs, a + 1)
    BY <1>2, <2>1 DEF Owned
  <2>3. a + 1 \in D
    BY <1>2, <2>1 DEF Closed
  <2> QED BY <1>2, <2>2, <2>3 DEF IsOpen
<1>3. ~(j < l) /\ ~(l < j)
  BY <1>1, <1>2
<1> QED BY <1>1, <1>3

\* The rate of a root is that of the burst it is in, or 0.
LEMMA OpenRateIs ==
  ASSUME NEW evs \in Seq(Event), NEW R, NEW own, Owned(evs, own, R),
         NEW D \in SUBSET DOMAIN evs, Closed(evs, own, D), NEW r \in R
  PROVE  /\ OpenRate(evs, own, D, R)[r] \in Nat
         /\ \A j \in D : IsOpen(evs, own, D, r, j) => OpenRate(evs, own, D, R)[r] = evs[j].diff
         /\ (~\E j \in D : IsOpen(evs, own, D, r, j)) => OpenRate(evs, own, D, R)[r] = 0
<1> DEFINE c == OpenRate(evs, own, D, R)[r]
           O(j) == IsOpen(evs, own, D, r, j)
           p == CHOOSE j \in D : O(j)
<1>1. c = IF \E j \in D : O(j) THEN evs[p].diff ELSE 0
  BY DEF OpenRate
<1>2. ASSUME NEW j \in D, O(j)
      PROVE  c = evs[j].diff /\ c \in Nat
  <2>1. p \in D /\ O(p)
    BY <1>2
  <2> HIDE DEF p
  <2>2. p = j
    BY <1>2, <2>1, OpenIsOne
  <2>3. evs[j].diff \in Int /\ evs[j].diff > 0
    BY <1>2, EventFacts DEF IsOpen
  <2> QED BY <1>1, <1>2, <2>2, <2>3
<1> HIDE DEF O, c
<1> QED BY <1>1, <1>2 DEF O, c

\* The first events of a closed set are closed.
LEMMA UpIsClosed ==
  ASSUME NEW evs \in Seq(Event), NEW R, NEW own, Owned(evs, own, R), Paired(evs),
         NEW D \in SUBSET DOMAIN evs, Closed(evs, own, D), NEW n \in 0 .. Len(evs)
  PROVE  Up(D, n) \in SUBSET DOMAIN evs /\ Closed(evs, own, Up(D, n))
<1>1. DOMAIN evs = 1 .. Len(evs) /\ Len(evs) \in Nat
  BY EventFacts
<1>2. HasRises(evs, Up(D, n))
  BY <1>1 DEF Closed, HasRises, Up
<1>3. ASSUME NEW j \in DOMAIN evs, NEW l \in DOMAIN evs, j < l, own[j] = own[l],
             Rises(evs, j), Rises(evs, l), l \in Up(D, n)
      PROVE  j + 1 \in Up(D, n)
  <2>1. j + 1 \in D
    BY <1>3 DEF Closed, Up
  <2> QED BY <1>1, <1>3, <2>1 DEF Up
<1> QED BY <1>2, <1>3 DEF Closed, Up

\* One event more.
LEMMA OpenRateStep ==
  ASSUME NEW evs \in Seq(Event), NEW R, NEW own, Owned(evs, own, R), Paired(evs),
         NEW D \in SUBSET DOMAIN evs, Closed(evs, own, D),
         NEW n \in 0 .. Len(evs) - 1, n + 1 \in D
  PROVE  LET c == OpenRate(evs, own, Up(D, n), R)
             e == OpenRate(evs, own, Up(D, n + 1), R)
             r == own[n + 1]
         IN  /\ r \in R
             /\ \A q \in R : c[q] \in Int /\ e[q] \in Int
             /\ \A q \in R : q # r => c[q] = e[q]
             /\ e[r] - c[r] = evs[n + 1].diff
<1> DEFINE E == Up(D, n)
           F == Up(D, n + 1)
           c == OpenRate(evs, own, E, R)
           e == OpenRate(evs, own, F, R)
           r == own[n + 1]
           z == n + 1
<1>1. /\ DOMAIN evs = 1 .. Len(evs) /\ Len(evs) \in Nat /\ n \in Nat /\ z \in Nat
      /\ n \in 0 .. Len(evs) /\ z \in 0 .. Len(evs) /\ z \in DOMAIN evs /\ z - 1 = n
      /\ evs[z].diff \in Int
  BY EventFacts
<1>2. r \in R
  BY <1>1 DEF Owned
<1>3. /\ E \in SUBSET DOMAIN evs /\ Closed(evs, own, E)
      /\ F \in SUBSET DOMAIN evs /\ Closed(evs, own, F)
  BY <1>1, UpIsClosed
<1>4. F = E \cup {z} /\ z \notin E /\ \A j \in E : j <= n
  BY <1>1, SumUpStep DEF Up
<1> HIDE DEF E, F, c, e, r, z
<1>5. \A q \in R : c[q] \in Int /\ e[q] \in Int
  BY <1>3, OpenRateIs DEF c, e
<1>6. ASSUME NEW q \in R, q # r PROVE c[q] = e[q]
  <2>1. ASSUME NEW j \in E
        PROVE  IsOpen(evs, own, E, q, j) <=> IsOpen(evs, own, F, q, j)
    <3>1. CASE j + 1 = z
      <4>1. Falls(evs, z) => own[j] = own[z]
        BY <1>1, <1>3, <3>1 DEF Owned, Falls
      <4> QED BY <1>4, <1>6, <3>1, <4>1 DEF IsOpen, r, z
    <3>2. CASE j + 1 # z
      BY <1>4, <3>2 DEF IsOpen
    <3> QED BY <3>1, <3>2
  <2>2. ~IsOpen(evs, own, F, q, z)
    BY <1>6 DEF IsOpen, r, z
  <2>3. CASE \E j \in E : IsOpen(evs, own, E, q, j)
    <3>1. PICK j \in E : IsOpen(evs, own, E, q, j)
      BY <2>3
    <3>2. j \in F /\ IsOpen(evs, own, F, q, j)
      BY <1>4, <2>1, <3>1
    <3>3. c[q] = evs[j].diff
      BY <1>3, <3>1, OpenRateIs DEF c
    <3>4. e[q] = evs[j].diff
      BY <1>3, <3>2, OpenRateIs DEF e
    <3> QED BY <3>3, <3>4
  <2>4. CASE ~\E j \in E : IsOpen(evs, own, E, q, j)
    <3>1. ~\E j \in F : IsOpen(evs, own, F, q, j)
      BY <1>4, <2>1, <2>2, <2>4
    <3>2. c[q] = 0
      BY <1>3, <2>4, OpenRateIs DEF c
    <3>3. e[q] = 0
      BY <1>3, <3>1, OpenRateIs DEF e
    <3> QED BY <3>2, <3>3
  <2> QED BY <2>3, <2>4
<1>7. e[r] - c[r] = evs[z].diff
  <2>1. CASE evs[z].diff > 0
    <3>1. ~\E j \in E : IsOpen(evs, own, E, r, j)
      <4> SUFFICES ASSUME NEW j \in E, IsOpen(evs, own, E, r, j) PROVE FALSE
        OBVIOUS
      <4>1. j \in DOMAIN evs /\ j < z /\ own[j] = own[z] /\ Rises(evs, j) /\ Rises(evs, z)
        BY <1>1, <1>3, <1>4, <2>1 DEF IsOpen, Rises, r, z
      <4>2. Falls(evs, j + 1)
        BY <1>1, <4>1 DEF Owned
      <4>3. j + 1 \in F
        BY <1>1, <1>3, <1>4, <4>1 DEF Closed
      <4>4. j + 1 # z
        BY <1>1, <2>1, <4>2 DEF Falls
      <4> QED BY <1>4, <4>2, <4>3, <4>4 DEF IsOpen
    <3>2. z \in F /\ IsOpen(evs, own, F, r, z)
      <4>1. z + 1 \notin F
        BY <1>1, <1>4
      <4> QED BY <1>4, <2>1, <4>1 DEF IsOpen, r, z
    <3>3. c[r] = 0
      BY <1>2, <1>3, <3>1, OpenRateIs DEF c
    <3>4. e[r] = evs[z].diff
      BY <1>2, <1>3, <3>2, OpenRateIs DEF e
    <3> QED BY <1>1, <3>3, <3>4
  <2>2. CASE evs[z].diff < 0
    <3>1. n \in F /\ n \in DOMAIN evs /\ own[n] = own[z] /\ evs[n].diff = -evs[z].diff
      BY <1>1, <1>3, <1>4, <2>2 DEF Closed, HasRises, Paired, Owned
    <3>2. n \in E /\ evs[n].diff > 0 /\ n + 1 = z
      BY <1>1, <1>4, <2>2, <3>1
    <3>3. IsOpen(evs, own, E, r, n)
      BY <1>4, <3>1, <3>2 DEF IsOpen, r, z
    <3>4. ~\E j \in F : IsOpen(evs, own, F, r, j)
      <4> SUFFICES ASSUME NEW j \in F, IsOpen(evs, own, F, r, j) PROVE FALSE
        OBVIOUS
      <4>1. j # z
        BY <1>1, <2>2 DEF IsOpen
      <4>2. j # n
        BY <1>1, <1>4, <2>2, <3>2 DEF IsOpen, Falls
      <4>3. j \in DOMAIN evs /\ j < n /\ own[j] = own[n] /\ Rises(evs, j) /\ Rises(evs, n)
        BY <1>1, <1>3, <1>4, <3>1, <3>2, <4>1, <4>2 DEF IsOpen, Rises, r, z
      <4>4. Falls(evs, j + 1)
        BY <3>1, <4>3 DEF Owned
      <4>5. j + 1 \in F
        BY <1>3, <3>1, <4>3 DEF Closed
      <4> QED BY <4>4, <4>5 DEF IsOpen
    <3>5. c[r] = evs[n].diff
      BY <1>2, <1>3, <3>2, <3>3, OpenRateIs DEF c
    <3>6. e[r] = 0
      BY <1>2, <1>3, <3>4, OpenRateIs DEF e
    <3> QED BY <1>1, <3>1, <3>5, <3>6
  <2>3. evs[z].diff # 0
    BY <1>1 DEF Owned
  <2> QED BY <1>1, <2>1, <2>2, <2>3
<1> QED BY <1>2, <1>5, <1>6, <1>7 DEF E, F, c, e, r, z

\* Zeros add up to 0.
LEMMA SumZero ==
  ASSUME NEW S, IsFiniteSet(S), NEW f, \A x \in S : f[x] = 0
  PROVE  Sum(f, S) = 0
<1> DEFINE T == {s \in SUBSET S : Sum(f, s) = 0}
<1>1. {} \in T
  BY SumEmpty
<1>2. ASSUME NEW s \in SUBSET S, NEW z \in S, s \in T, z \notin s
      PROVE  s \cup {z} \in T
  <2>1. IsFiniteSet(s) /\ \A x \in s \cup {z} : f[x] \in Int
    BY FS_Subset
  <2>2. Sum(f, s \cup {z}) = f[z] + Sum(f, s)
    BY <1>2, <2>1, SumInsert
  <2>3. Sum(f, s \cup {z}) = 0
    BY <1>2, <2>2
  <2> QED BY <2>3
<1> HIDE DEF T
<1>3. S \in T
  BY <1>1, <1>2, GrowSet
<1> QED BY <1>3 DEF T

\* A closed set of events adds up to what the roots send together.
LEMMA OpenSum ==
  ASSUME NEW evs \in Seq(Event), NEW R, IsFiniteSet(R), NEW own, Owned(evs, own, R), Paired(evs),
         NEW D \in SUBSET DOMAIN evs, Closed(evs, own, D)
  PROVE  Sum(Diffs(evs), D) = Sum(OpenRate(evs, own, D, R), R)
<1> DEFINE N == Len(evs)
           c(n) == OpenRate(evs, own, Up(D, n), R)
           s(n) == Sum(Diffs(evs), Up(D, n))
           T == {n \in 0 .. N : s(n) = Sum(c(n), R)}
<1>1. N \in Nat /\ DOMAIN evs = 1 .. N /\ \A j \in 1 .. N : evs[j].diff \in Int
  BY EventFacts
<1>2. 0 \in T
  <2>1. Up(D, 0) = {}
    BY <1>1 DEF Up
  <2>2. \A r \in R : c(0)[r] = 0
    BY <2>1 DEF OpenRate
  <2> HIDE DEF c
  <2>3. Sum(c(0), R) = 0
    BY <2>2, SumZero
  <2>4. s(0) = 0
    BY SumUp
  <2> QED BY <1>1, <2>3, <2>4
<1>3. ASSUME NEW n \in 0 .. N - 1, n \in T PROVE n + 1 \in T
  <2>0. n + 1 \in 0 .. N /\ n \in 0 .. N /\ n \in Nat /\ n < Len(evs) /\ n \in 0 .. Len(evs) - 1
    BY <1>1
  <2>1. CASE n + 1 \notin D
    <3>1. Up(D, n + 1) = Up(D, n)
      BY <1>1, <2>0, <2>1 DEF Up
    <3> QED BY <1>3, <2>0, <3>1
  <2>2. CASE n + 1 \in D
    <3> DEFINE a == c(n)
               b == c(n + 1)
               r == own[n + 1]
    <3>1. /\ r \in R /\ \A q \in R : a[q] \in Int /\ b[q] \in Int
          /\ \A q \in R : q # r => a[q] = b[q]
          /\ b[r] - a[r] = evs[n + 1].diff
      BY <2>0, <2>2, OpenRateStep
    <3>2. s(n + 1) = evs[n + 1].diff + s(n)
      BY <2>0, <2>2, SumUpStep
    <3>3. s(n) = Sum(a, R)
      BY <1>3
    <3>4. evs[n + 1].diff \in Int
      BY <1>1, <2>2
    <3> HIDE DEF a, b, r, s, c
    <3>5. Sum(b, R) = Sum(a, R) + (b[r] - a[r])
      <4>1. r \in R
        BY <3>1
      <4>2. \A q \in R : a[q] \in Int /\ b[q] \in Int
        BY <3>1
      <4>3. \A q \in R : q # r => a[q] = b[q]
        BY <3>1
      <4> QED BY ONLY <4>1, <4>2, <4>3, SumChange, IsFiniteSet(R), SMTT(30)
    <3>6. Sum(a, R) \in Int
      BY <3>1, SumIsInt
    <3>7. s(n + 1) = Sum(b, R)
      BY <3>1, <3>2, <3>3, <3>4, <3>5, <3>6
    <3> QED BY <2>0, <3>7 DEF b
  <2> QED BY <2>1, <2>2
<1> HIDE DEF T
<1>4. \A n \in 0 .. N : n \in T
  BY <1>1, <1>2, <1>3, CountUp
<1>5. s(N) = Sum(c(N), R)
  BY <1>1, <1>4 DEF T
<1>6. Up(D, N) = D
  BY SumUp
<1> QED BY <1>5, <1>6

\* The values of a function on a finite set are finitely many.
LEMMA ImageFinite ==
  ASSUME NEW S, IsFiniteSet(S), NEW f, DOMAIN f = S
  PROVE  IsFiniteSet({f[x] : x \in S})
<1> DEFINE T == {f[x] : x \in S}
           g == [x \in S |-> f[x]]
<1>1. g \in Surjection(S, T)
  BY DEF Surjection
<1> HIDE DEF g, T
<1>2. IsFiniteSet(T)
  BY <1>1, FS_Surjection
<1> QED BY <1>2 DEF T

\* A set of events that holds everything that is sorted before its members.
DownSet(evs, P) ==
  P \subseteq DOMAIN evs /\ \A j \in P : \A i \in DOMAIN evs : NotAfter(evs, i, j) => i \in P

\* Such a set is the events up to one.
LEMMA DownSetIsPrefix ==
  ASSUME NEW evs \in Seq(Event), NEW P, DownSet(evs, P), P # {}
  PROVE  \E k \in P : P = Prefix(evs, k)
<1> DEFINE f == [j \in P |-> evs[j].time]
           S == {f[j] : j \in P}
<1>1. P \subseteq DOMAIN evs /\ IsFiniteSet(P) /\ \A j \in P : j \in Nat /\ evs[j].time \in Int
  BY EventFacts, FS_Subset DEF DownSet
<1>2. IsFiniteSet(S)
  <2>1. DOMAIN f = P
    OBVIOUS
  <2> HIDE DEF f
  <2> QED BY <1>1, <2>1, ImageFinite
<1>3. S \subseteq Int /\ S # {} /\ \A j \in P : evs[j].time \in S
  BY <1>1
<1>4. \A x \in S : \E j \in P : evs[j].time = x
  OBVIOUS
<1> HIDE DEF S
<1> DEFINE t == Max(S)
<1>5. t \in S /\ \A y \in S : t >= y
  BY <1>2, <1>3, MaxExists
<1> HIDE DEF t
<1> DEFINE K == {j \in P : evs[j].time = t}
<1>6. K # {} /\ K \subseteq Int /\ IsFiniteSet(K)
  BY <1>1, <1>4, <1>5, FS_Subset
<1> DEFINE k == Max(K)
<1>7. k \in K /\ \A y \in K : k >= y
  BY <1>6, MaxExists
<1> HIDE DEF k
<1>8. k \in P /\ evs[k].time = t /\ k \in Nat
  BY <1>1, <1>7
<1>9. ASSUME NEW j \in P PROVE NotAfter(evs, j, k)
  <2>1. evs[j].time \in Int /\ t \in Int /\ t >= evs[j].time /\ j \in Nat
    BY <1>1, <1>3, <1>5
  <2>2. evs[j].time = t => j <= k
    BY <1>7, <1>8, <2>1
  <2> QED BY <1>8, <2>1, <2>2 DEF NotAfter
<1>10. P = Prefix(evs, k)
  BY <1>1, <1>8, <1>9 DEF Prefix, DownSet
<1> QED BY <1>8, <1>10

\* What is sorted first holds what came before, root by root.
LEMMA DownSetIsClosed ==
  ASSUME NEW evs \in Seq(Event), NEW R, NEW own, Owned(evs, own, R), Paired(evs),
         NEW P, DownSet(evs, P)
  PROVE  P \in SUBSET DOMAIN evs /\ Closed(evs, own, P)
<1>1. P \subseteq DOMAIN evs
  BY DEF DownSet
<1>2. ASSUME NEW j \in P, evs[j].diff < 0 PROVE j - 1 \in P
  <2>1. j \in DOMAIN evs /\ j - 1 \in DOMAIN evs /\ evs[j - 1].time <= evs[j].time
    BY <1>1, <1>2 DEF Paired
  <2>2. j \in Nat /\ evs[j].time \in Int /\ evs[j - 1].time \in Int
    BY <2>1, EventFacts
  <2>3. NotAfter(evs, j - 1, j)
    BY <2>1, <2>2 DEF NotAfter
  <2> QED BY <2>1, <2>3 DEF DownSet
<1>3. ASSUME NEW j \in DOMAIN evs, NEW l \in DOMAIN evs, j < l, own[j] = own[l],
             Rises(evs, j), Rises(evs, l), l \in P
      PROVE  j + 1 \in P
  <2>1. j + 1 \in DOMAIN evs /\ evs[j + 1].time <= evs[l].time
    BY <1>3 DEF Owned, Falls
  <2>2. j \in Nat /\ l \in Nat /\ evs[l].time \in Int /\ evs[j + 1].time \in Int
    BY <2>1, EventFacts
  <2>3. NotAfter(evs, j + 1, l)
    BY <1>3, <2>1, <2>2 DEF NotAfter
  <2> QED BY <1>3, <2>1, <2>3 DEF DownSet
<1> QED BY <1>1, <1>2, <1>3 DEF Closed, HasRises

\* The highest rate of a list of events.
Peak(evs) == Max({0} \cup {RateAfter(evs, k) : k \in DOMAIN evs})

\* The highest rate is a rate after some event, or 0, and none is higher.
LEMMA PeakFacts ==
  ASSUME NEW evs \in Seq(Event), Paired(evs)
  PROVE  /\ Peak(evs) \in Nat
         /\ \A k \in DOMAIN evs : RateAfter(evs, k) \in Nat /\ RateAfter(evs, k) <= Peak(evs)
         /\ Peak(evs) = 0 \/ \E k \in DOMAIN evs : Peak(evs) = RateAfter(evs, k)
<1> DEFINE f == [k \in DOMAIN evs |-> RateAfter(evs, k)]
           S == {f[k] : k \in DOMAIN evs}
           W == {0} \cup S
           m == Max(W)
<1>1. \A k \in DOMAIN evs : f[k] \in Nat /\ f[k] = RateAfter(evs, k)
  BY RateIsNat
<1>2. DOMAIN f = DOMAIN evs
  OBVIOUS
<1>3. Peak(evs) = m
  BY DEF Peak
<1> HIDE DEF f
<1>4. IsFiniteSet(S)
  BY <1>2, EventFacts, ImageFinite
<1>5. IsFiniteSet(W) /\ W \subseteq Nat /\ W \subseteq Int /\ W # {}
  <2>1. W = S \cup {0}
    OBVIOUS
  <2>2. W \subseteq Nat /\ W \subseteq Int /\ W # {}
    BY <1>1
  <2> QED BY <1>4, <2>1, <2>2, FS_AddElement
<1>6. 0 \in W /\ (\A k \in DOMAIN evs : f[k] \in W) /\ \A x \in W : x = 0 \/ \E k \in DOMAIN evs : x = f[k]
  OBVIOUS
<1> HIDE DEF W
<1>7. m \in W /\ \A y \in W : m >= y
  BY <1>5, MaxExists
<1> HIDE DEF m
<1> QED BY <1>1, <1>3, <1>5, <1>6, <1>7

\* Whatever is sorted first, the roots are together at no more than the highest rate.
LEMMA PeakCovers ==
  ASSUME NEW evs \in Seq(Event), Paired(evs), NEW P, DownSet(evs, P)
  PROVE  Sum(Diffs(evs), P) \in Nat /\ Sum(Diffs(evs), P) <= Peak(evs)
<1>1. CASE P = {}
  BY <1>1, SumEmpty, PeakFacts
<1>2. CASE P # {}
  <2>1. PICK k \in P : P = Prefix(evs, k)
    BY <1>2, DownSetIsPrefix
  <2>2. k \in DOMAIN evs
    BY DEF DownSet
  <2>3. Sum(Diffs(evs), P) = RateAfter(evs, k)
    BY <2>1, RateIsSum
  <2> QED BY <2>2, <2>3, PeakFacts
<1> QED BY <1>1, <1>2

\* The stable sort is an order of the events.
LEMMA NotAfterOrders ==
  ASSUME NEW evs \in Seq(Event), NEW i \in DOMAIN evs, NEW j \in DOMAIN evs, NEW k \in DOMAIN evs
  PROVE  /\ NotAfter(evs, k, k)
         /\ NotAfter(evs, i, j) /\ NotAfter(evs, j, k) => NotAfter(evs, i, k)
         /\ NotAfter(evs, i, j) /\ NotAfter(evs, j, i) => i = j
<1>1. /\ i \in Nat /\ j \in Nat /\ k \in Nat
      /\ evs[i].time \in Int /\ evs[j].time \in Int /\ evs[k].time \in Int
  BY EventFacts
<1> QED BY <1>1 DEF NotAfter

\* The events up to one are sorted first, with it and without it.
LEMMA PrefixIsDownSet ==
  ASSUME NEW evs \in Seq(Event), NEW k \in DOMAIN evs
  PROVE  DownSet(evs, Prefix(evs, k)) /\ DownSet(evs, Prefix(evs, k) \ {k}) /\ k \in Prefix(evs, k)
<1>1. \A j \in Prefix(evs, k) : \A i \in DOMAIN evs : NotAfter(evs, i, j) => i \in Prefix(evs, k)
  BY NotAfterOrders DEF Prefix
<1>2. \A j \in Prefix(evs, k) \ {k} : ~NotAfter(evs, k, j)
  BY NotAfterOrders DEF Prefix
<1>3. k \in Prefix(evs, k)
  BY NotAfterOrders DEF Prefix
<1>4. Prefix(evs, k) \subseteq DOMAIN evs
  BY DEF Prefix
<1> QED BY <1>1, <1>2, <1>3, <1>4 DEF DownSet

\* The highest rate is reached by a rise.
LEMMA PeakIsRise ==
  ASSUME NEW evs \in Seq(Event), Paired(evs), Peak(evs) # 0
  PROVE  \E k \in DOMAIN evs : evs[k].diff >= 0 /\ Peak(evs) = Sum(Diffs(evs), Prefix(evs, k))
<1>1. PICK k \in DOMAIN evs : Peak(evs) = RateAfter(evs, k)
  BY PeakFacts
<1>2. Peak(evs) = Sum(Diffs(evs), Prefix(evs, k))
  BY <1>1, RateIsSum
<1>3. ASSUME evs[k].diff < 0 PROVE FALSE
  <2> DEFINE P == Prefix(evs, k)
             Q == P \ {k}
             d == Diffs(evs)
             a == Sum(d, P)
             b == Sum(d, Q)
  <2>1. DownSet(evs, P) /\ DownSet(evs, Q) /\ k \in P
    BY PrefixIsDownSet
  <2>2. P \subseteq DOMAIN evs /\ P = Q \cup {k} /\ k \notin Q
    BY <2>1 DEF DownSet
  <2>3. IsFiniteSet(P) /\ IsFiniteSet(Q)
    BY <2>2, EventFacts, FS_Subset
  <2>4. d[k] = evs[k].diff /\ \A x \in Q \cup {k} : d[x] \in Int
    BY <2>2, EventFacts
  <2>5. b \in Nat /\ b <= Peak(evs)
    BY <2>1, PeakCovers
  <2>6. Sum(d, Q \cup {k}) = d[k] + b
    BY <2>2, <2>3, <2>4, SumInsert
  <2>7. a = d[k] + b
    BY <2>2, <2>6
  <2> HIDE DEF a, b
  <2>8. a = Peak(evs) /\ d[k] \in Int
    BY <1>2, <2>4 DEF a
  <2> QED BY <1>3, <2>4, <2>5, <2>7, <2>8
<1>4. evs[k].diff \in Int
  BY EventFacts
<1> QED BY <1>2, <1>3, <1>4


\* The time of the last event.
LEMMA LastTimeIs ==
  ASSUME NEW evs \in Seq(Event), evs # << >>
  PROVE  /\ LastTime(evs) \in Int
         /\ \A k \in DOMAIN evs : evs[k].time <= LastTime(evs)
         /\ \E k \in DOMAIN evs : evs[k].time = LastTime(evs)
<1> DEFINE f == [k \in DOMAIN evs |-> evs[k].time]
           S == {f[k] : k \in DOMAIN evs}
           m == Max(S)
<1>1. \A k \in DOMAIN evs : evs[k].time \in Int
  BY EventFacts
<1>2. IsFiniteSet(DOMAIN evs) /\ DOMAIN evs # {}
  BY EventFacts
<1>3. S = {evs[k].time : k \in DOMAIN evs}
  OBVIOUS
<1>4. LastTime(evs) = m
  BY <1>3 DEF LastTime
<1>5. DOMAIN f = DOMAIN evs /\ \A k \in DOMAIN evs : f[k] = evs[k].time
  OBVIOUS
<1>7. S \subseteq Int /\ S # {}
  BY <1>1, <1>2
<1> HIDE DEF f
<1>6. IsFiniteSet(S)
  BY <1>2, <1>5, ImageFinite
<1>8. m \in S /\ \A y \in S : m >= y
  BY <1>6, <1>7, MaxExists
<1>9. \A k \in DOMAIN evs : evs[k].time \in S
  BY <1>3
<1>10. \E k \in DOMAIN evs : evs[k].time = m
  BY <1>5, <1>8
<1> HIDE DEF m
<1>11. m \in Int
  BY <1>7, <1>8
<1>12. \A k \in DOMAIN evs : evs[k].time <= m
  <2> TAKE k \in DOMAIN evs
  <2>1. evs[k].time \in S /\ evs[k].time \in Int
    BY <1>1, <1>9
  <2> QED BY <1>8, <1>11, <2>1
<1> QED BY <1>4, <1>10, <1>11, <1>12
-----------------------------------------------------------------------------
(* The events of one stream.                                               *)

\* A product of naturals is one.
LEMMA Product ==
  ASSUME NEW a \in Nat, NEW b \in Nat
  PROVE  a * b \in Nat
OBVIOUS

\* A larger count of gaps is longer by at least one.
LEMMA ProductGrows ==
  ASSUME NEW x \in Nat, NEW y \in Nat, NEW g \in Nat, x < y
  PROVE  x * g \in Nat /\ y * g \in Nat /\ x * g + g <= y * g
<1> DEFINE d == y - x - 1
<1>1. d \in Nat /\ y = x + 1 + d
  OBVIOUS
<1> HIDE DEF d
<1>2. y * g = x * g + g + d * g
  BY <1>1
<1>3. d * g \in Nat /\ x * g \in Nat /\ y * g \in Nat
  BY <1>1, Product
<1> QED BY <1>2, <1>3

\* The numbers of a stream that its times are made of.
LEMMA StreamFacts ==
  ASSUME NEW s \in Stream
  PROVE  /\ s.isg \in Nat /\ s.ibg \in Nat /\ s.bursts \in Nat /\ s.pps \in Nat /\ s.pps > 0
         /\ s.next \in Nat \cup {NONE} /\ s.id \in Nat
         /\ s.type \in {"continuous", "single_burst", "multi_burst"}
         /\ get_burst_length(s) \in Nat /\ BurstsOf(s) \in Nat
<1>1. s.pkts * Second \in Nat
  BY SecondAssumption, Product DEF Stream
<1> DEFINE p == s.pkts * Second
<1>2. p \in Nat /\ s.pps \in Nat \ {0}
  BY <1>1 DEF Stream
<1> HIDE DEF p
<1>3. p \div s.pps \in Nat
  BY <1>2
<1>4. get_burst_length(s) \in Nat
  BY <1>3 DEF get_burst_length, p
<1>5. BurstsOf(s) \in Nat
  BY DEF BurstsOf, Stream
<1> QED BY <1>4, <1>5 DEF Stream

\* A burst begins after the stream is reached, ends after it begins, and before the
\* next one begins.
LEMMA BurstTimes ==
  ASSUME NEW s \in Stream, NEW at \in Int, NEW x \in Nat
  PROVE  /\ BurstStart(s, at, x) \in Int /\ BurstEnd(s, at, x) \in Int
         /\ at <= BurstStart(s, at, x) /\ BurstStart(s, at, x) <= BurstEnd(s, at, x)
         /\ \A y \in Nat : x < y => BurstEnd(s, at, x) <= BurstStart(s, at, y)
<1> DEFINE l == get_burst_length(s)
           g == l + s.ibg
<1>1. l \in Nat /\ g \in Nat /\ s.isg \in Nat
  BY StreamFacts
<1>2. \A y \in Nat : BurstStart(s, at, y) = at + s.isg + y * g /\ BurstEnd(s, at, y) = at + s.isg + y * g + l
  BY DEF BurstStart, BurstEnd
<1>3. x * g \in Nat
  BY <1>1, Product
<1>4. g >= l
  BY <1>1, StreamFacts
<1> HIDE DEF l, g
<1>5. ASSUME NEW y \in Nat, x < y
      PROVE  BurstEnd(s, at, x) <= BurstStart(s, at, y)
  <2>1. x * g + g <= y * g /\ y * g \in Nat
    BY <1>1, <1>5, ProductGrows
  <2> DEFINE a == x * g
             b == y * g
  <2>2. BurstEnd(s, at, x) = at + s.isg + a + l /\ BurstStart(s, at, y) = at + s.isg + b
    BY <1>2
  <2> HIDE DEF a, b
  <2>3. a + g <= b /\ a \in Nat /\ b \in Nat
    BY <1>3, <2>1 DEF a, b
  <2> QED BY <1>1, <1>4, <2>2, <2>3
<1>6. /\ BurstStart(s, at, x) \in Int /\ BurstEnd(s, at, x) \in Int
      /\ at <= BurstStart(s, at, x) /\ BurstStart(s, at, x) <= BurstEnd(s, at, x)
  <2> DEFINE a == x * g
  <2>1. BurstEnd(s, at, x) = at + s.isg + a + l /\ BurstStart(s, at, x) = at + s.isg + a
    BY <1>2
  <2>2. a \in Nat
    BY <1>3
  <2> HIDE DEF a
  <2> QED BY <1>1, <2>1, <2>2
<1> QED BY <1>5, <1>6

\* Burst x is the pair of events after position 2x.
LEMMA BurstFacts ==
  ASSUME NEW s \in Stream, NEW at \in Int, NEW n \in Nat
  PROVE  LET b == BurstEvents(s, at, n)
         IN  /\ b \in Seq(Event) /\ Len(b) = 2 * n /\ DOMAIN b = 1 .. 2 * n
             /\ \A x \in 0 .. n - 1 :
                  /\ b[2 * x + 1].time = BurstStart(s, at, x) /\ b[2 * x + 1].diff = s.pps
                  /\ b[2 * x + 2].time = BurstEnd(s, at, x) /\ b[2 * x + 2].diff = -s.pps
             /\ \A k \in DOMAIN b : \E x \in 0 .. n - 1 : k = 2 * x + 1 \/ k = 2 * x + 2
<1> DEFINE b == BurstEvents(s, at, n)
<1>0. s.pps \in Nat /\ s.pps > 0
  BY StreamFacts
<1>1. ASSUME NEW k \in 1 .. 2 * n
      PROVE  /\ k % 2 = 1 => k \div 2 \in 0 .. n - 1 /\ k = 2 * (k \div 2) + 1
             /\ k % 2 # 1 => k \div 2 - 1 \in 0 .. n - 1 /\ k = 2 * (k \div 2 - 1) + 2
  OBVIOUS
<1>2. ASSUME NEW x \in 0 .. n - 1
      PROVE  /\ 2 * x + 1 \in 1 .. 2 * n /\ (2 * x + 1) % 2 = 1 /\ (2 * x + 1) \div 2 = x
             /\ 2 * x + 2 \in 1 .. 2 * n /\ (2 * x + 2) % 2 # 1 /\ (2 * x + 2) \div 2 - 1 = x
  OBVIOUS
<1>3. DOMAIN b = 1 .. 2 * n
  BY DEF BurstEvents
<1>4. ASSUME NEW k \in 1 .. 2 * n
      PROVE  b[k] = IF k % 2 = 1 THEN Rise(s, BurstStart(s, at, k \div 2))
                    ELSE Fall(s, BurstEnd(s, at, k \div 2 - 1))
  BY DEF BurstEvents
<1>5. ASSUME NEW x \in 0 .. n - 1
      PROVE  /\ b[2 * x + 1] = Rise(s, BurstStart(s, at, x))
             /\ b[2 * x + 2] = Fall(s, BurstEnd(s, at, x))
  <2>1. b[2 * x + 1] = Rise(s, BurstStart(s, at, x))
    BY <1>2, <1>4
  <2>2. b[2 * x + 2] = Fall(s, BurstEnd(s, at, x))
    BY <1>2, <1>4
  <2> QED BY <2>1, <2>2
<1>6. b = [k \in 1 .. 2 * n |-> b[k]]
  BY DEF BurstEvents
<1> HIDE DEF b
<1>7. \A k \in 1 .. 2 * n : \E x \in 0 .. n - 1 : k = 2 * x + 1 \/ k = 2 * x + 2
  BY <1>1
<1>8. \A k \in 1 .. 2 * n : b[k] \in Event
  <2> TAKE k \in 1 .. 2 * n
  <2>1. PICK x \in 0 .. n - 1 : k = 2 * x + 1 \/ k = 2 * x + 2
    BY <1>7
  <2>2. x \in Nat
    OBVIOUS
  <2>3. BurstStart(s, at, x) \in Int /\ BurstEnd(s, at, x) \in Int
    BY <2>2, BurstTimes
  <2>4. Rise(s, BurstStart(s, at, x)) \in Event /\ Fall(s, BurstEnd(s, at, x)) \in Event
    BY <1>0, <2>3 DEF Rise, Fall, Event
  <2> QED BY <1>5, <2>1, <2>4
<1>9. b \in Seq(Event) /\ Len(b) = 2 * n
  <2> DEFINE N == 2 * n
  <2>1. N \in Nat /\ b = [k \in 1 .. N |-> b[k]] /\ \A k \in 1 .. N : b[k] \in Event
    BY <1>6, <1>8
  <2> HIDE DEF N
  <2>2. b \in Seq(Event) /\ Len(b) = N
    BY <2>1
  <2> QED BY <2>2 DEF N
<1>10. ASSUME NEW x \in 0 .. n - 1
       PROVE  /\ b[2 * x + 1].time = BurstStart(s, at, x) /\ b[2 * x + 1].diff = s.pps
              /\ b[2 * x + 2].time = BurstEnd(s, at, x) /\ b[2 * x + 2].diff = -s.pps
  <2>1. \A t : Rise(s, t).time = t /\ Rise(s, t).diff = s.pps
    BY DEF Rise
  <2>2. \A t : Fall(s, t).time = t /\ Fall(s, t).diff = -s.pps
    BY DEF Fall
  <2>3. /\ b[2 * x + 1] = Rise(s, BurstStart(s, at, x))
        /\ b[2 * x + 2] = Fall(s, BurstEnd(s, at, x))
    BY <1>5
  <2> QED BY <2>1, <2>2, <2>3, Zenon
<1> QED BY <1>3, <1>7, <1>9, <1>10 DEF b

\* The rise of burst x is at an odd position, its fall after it.
LEMMA BurstIsPaired ==
  ASSUME NEW s \in Stream, NEW at \in Int, NEW n \in Nat
  PROVE  /\ Paired(BurstEvents(s, at, n))
         /\ \A x \in 0 .. n - 1 : /\ Rises(BurstEvents(s, at, n), 2 * x + 1)
                                  /\ Falls(BurstEvents(s, at, n), 2 * x + 2)
         /\ \A k \in DOMAIN BurstEvents(s, at, n) : Rises(BurstEvents(s, at, n), k) =>
              \E x \in 0 .. n - 1 : k = 2 * x + 1
         /\ \A k \in DOMAIN BurstEvents(s, at, n) : BurstEvents(s, at, n)[k].diff # 0
<1> DEFINE b == BurstEvents(s, at, n)
<1>1. /\ b \in Seq(Event) /\ DOMAIN b = 1 .. 2 * n
      /\ \A k \in DOMAIN b : \E x \in 0 .. n - 1 : k = 2 * x + 1 \/ k = 2 * x + 2
  BY BurstFacts
<1>2. \A x \in 0 .. n - 1 :
        /\ b[2 * x + 1].time = BurstStart(s, at, x) /\ b[2 * x + 1].diff = s.pps
        /\ b[2 * x + 2].time = BurstEnd(s, at, x) /\ b[2 * x + 2].diff = -s.pps
  BY BurstFacts
<1>3. s.pps \in Nat /\ s.pps > 0
  BY StreamFacts
<1>4. \A x \in 0 .. n - 1 : BurstStart(s, at, x) <= BurstEnd(s, at, x)
  BY BurstTimes
<1> HIDE DEF b
<1> DEFINE p == s.pps
<1>5. \A x \in 0 .. n - 1 : 2 * x + 1 \in DOMAIN b /\ 2 * x + 2 \in DOMAIN b /\ (2 * x + 2) - 1 = 2 * x + 1
  BY <1>1
<1>6. ASSUME NEW x \in 0 .. n - 1
      PROVE  /\ b[2 * x + 1].diff > 0 /\ b[2 * x + 2].diff < 0
             /\ b[2 * x + 1].diff = -b[2 * x + 2].diff
             /\ b[2 * x + 1].diff \in Int /\ b[2 * x + 2].diff \in Int
  <2> DEFINE u == b[2 * x + 1].diff
             v == b[2 * x + 2].diff
  <2>1. u = p /\ v = -p
    BY <1>2
  <2>2. p \in Nat /\ p > 0
    BY <1>3
  <2> HIDE DEF u, v, p
  <2>3. u > 0 /\ v < 0 /\ u = -v /\ u \in Int /\ v \in Int
    BY <2>1, <2>2
  <2> QED BY <2>3 DEF u, v
<1>7. Paired(b)
  <2> SUFFICES ASSUME NEW k \in DOMAIN b, b[k].diff < 0
               PROVE  /\ k - 1 \in DOMAIN b /\ b[k - 1].diff = -b[k].diff
                      /\ b[k - 1].time <= b[k].time
    BY DEF Paired
  <2>1. PICK x \in 0 .. n - 1 : k = 2 * x + 1 \/ k = 2 * x + 2
    BY <1>1
  <2>2. b[2 * x + 1].diff \in Int
    BY <1>6
  <2>3. k = 2 * x + 2
    BY <1>6, <2>1, <2>2
  <2>4. k - 1 = 2 * x + 1
    BY <2>3
  <2> QED BY <1>2, <1>4, <1>5, <1>6, <2>3, <2>4
<1>8. \A x \in 0 .. n - 1 : Rises(b, 2 * x + 1) /\ Falls(b, 2 * x + 2)
  BY <1>5, <1>6 DEF Rises, Falls
<1>9. ASSUME NEW k \in DOMAIN b
      PROVE  b[k].diff # 0 /\ (Rises(b, k) => \E x \in 0 .. n - 1 : k = 2 * x + 1)
  <2>1. PICK x \in 0 .. n - 1 : k = 2 * x + 1 \/ k = 2 * x + 2
    BY <1>1
  <2>2. b[2 * x + 1].diff \in Int /\ b[2 * x + 2].diff \in Int
    BY <1>6
  <2> QED BY <1>6, <2>1, <2>2 DEF Rises
<1> QED BY <1>7, <1>8, <1>9 DEF b

\* All of them belong to the root that is scanned.
LEMMA BurstIsOwned ==
  ASSUME NEW s \in Stream, NEW at \in Int, NEW n \in Nat, NEW R, NEW r \in R
  PROVE  /\ Owned(BurstEvents(s, at, n), [k \in DOMAIN BurstEvents(s, at, n) |-> r], R)
         /\ \A k \in DOMAIN BurstEvents(s, at, n) :
              /\ at <= BurstEvents(s, at, n)[k].time
              /\ BurstEvents(s, at, n)[k].time <= BurstEnd(s, at, n - 1)
<1> DEFINE b == BurstEvents(s, at, n)
           own == [k \in DOMAIN b |-> r]
<1>1. /\ b \in Seq(Event) /\ DOMAIN b = 1 .. 2 * n
      /\ \A k \in DOMAIN b : \E x \in 0 .. n - 1 : k = 2 * x + 1 \/ k = 2 * x + 2
  BY BurstFacts
<1>2. \A x \in 0 .. n - 1 :
        b[2 * x + 1].time = BurstStart(s, at, x) /\ b[2 * x + 2].time = BurstEnd(s, at, x)
  BY BurstFacts
<1>3. /\ Paired(b)
      /\ \A x \in 0 .. n - 1 : Rises(b, 2 * x + 1) /\ Falls(b, 2 * x + 2)
      /\ \A k \in DOMAIN b : Rises(b, k) => \E x \in 0 .. n - 1 : k = 2 * x + 1
      /\ \A k \in DOMAIN b : b[k].diff # 0
  BY BurstIsPaired
<1> HIDE DEF b
<1>4. own \in [DOMAIN b -> R] /\ \A j, k \in DOMAIN b : own[j] = own[k]
  OBVIOUS
<1> HIDE DEF own
<1>5. ASSUME NEW j \in DOMAIN b, NEW l \in DOMAIN b, j < l, Rises(b, j), Rises(b, l)
      PROVE  Falls(b, j + 1) /\ b[j + 1].time <= b[l].time
  <2>1. PICK x \in 0 .. n - 1 : j = 2 * x + 1
    BY <1>3, <1>5
  <2>2. PICK y \in 0 .. n - 1 : l = 2 * y + 1
    BY <1>3, <1>5
  <2>3. x < y /\ j + 1 = 2 * x + 2 /\ x \in Nat /\ y \in Nat
    BY <1>5, <2>1, <2>2
  <2>4. BurstEnd(s, at, x) <= BurstStart(s, at, y)
    BY <2>3, BurstTimes
  <2> QED BY <1>2, <1>3, <2>2, <2>3, <2>4
<1>6. Owned(b, own, R)
  <2>1. \A j \in DOMAIN b : b[j].diff < 0 => own[j - 1] = own[j]
    BY <1>3, <1>4 DEF Paired
  <2> QED BY <1>3, <1>4, <1>5, <2>1 DEF Owned
<1>7. ASSUME NEW k \in DOMAIN b
      PROVE  at <= b[k].time /\ b[k].time <= BurstEnd(s, at, n - 1)
  <2>1. PICK x \in 0 .. n - 1 : k = 2 * x + 1 \/ k = 2 * x + 2
    BY <1>1
  <2> DEFINE bs == BurstStart(s, at, x)
             be == BurstEnd(s, at, x)
             ls == BurstStart(s, at, n - 1)
             le == BurstEnd(s, at, n - 1)
  <2>2. x \in Nat /\ n - 1 \in Nat
    OBVIOUS
  <2>3. bs \in Int /\ be \in Int /\ at <= bs /\ bs <= be
    BY <2>2, BurstTimes
  <2>4. ls \in Int /\ le \in Int /\ ls <= le
    BY <2>2, BurstTimes
  <2>5. x < n - 1 => be <= ls
    BY <2>2, BurstTimes
  <2>6. x = n - 1 => be = le
    OBVIOUS
  <2>7. b[k].time = bs \/ b[k].time = be
    BY <1>2, <2>1
  <2> HIDE DEF bs, be, ls, le
  <2>8. be <= le
    BY <2>2, <2>3, <2>4, <2>5, <2>6
  <2>9. at <= b[k].time /\ b[k].time <= le
    BY <2>3, <2>4, <2>7, <2>8
  <2> QED BY <2>9 DEF le
<1> QED BY <1>6, <1>7 DEF b, own

\* What holds of the events when the events b are put behind them.
LEMMA JoinFacts ==
  ASSUME NEW evs \in Seq(Event), NEW b \in Seq(Event), Paired(b)
  PROVE  /\ evs \o b \in Seq(Event)
         /\ DOMAIN evs \subseteq DOMAIN (evs \o b)
         /\ \A j \in DOMAIN evs : (evs \o b)[j] = evs[j]
         /\ \A k \in DOMAIN b : /\ Len(evs) + k \in DOMAIN (evs \o b) /\ (evs \o b)[Len(evs) + k] = b[k]
                                /\ Len(evs) + k \notin DOMAIN evs
         /\ \A j \in DOMAIN (evs \o b) :
              j \in DOMAIN evs \/ (j > Len(evs) /\ j - Len(evs) \in DOMAIN b /\ j = Len(evs) + (j - Len(evs)))
         /\ \A j \in DOMAIN evs : Falls(evs \o b, j + 1) <=> Falls(evs, j + 1)
<1> DEFINE e == evs \o b
           n == Len(evs)
           m == Len(b)
<1>1. /\ n \in Nat /\ m \in Nat /\ DOMAIN evs = 1 .. n /\ DOMAIN b = 1 .. m
      /\ e \in Seq(Event) /\ Len(e) = n + m /\ DOMAIN e = 1 .. n + m
      /\ \A j \in 1 .. n : e[j] = evs[j]
      /\ \A k \in 1 .. m : e[n + k] = b[k]
  OBVIOUS
<1> HIDE DEF e, n, m
<1>2. \A j \in DOMAIN evs : Falls(e, j + 1) <=> Falls(evs, j + 1)
  <2> TAKE j \in DOMAIN evs
  <2>1. CASE j + 1 \in DOMAIN evs
    BY <1>1, <2>1 DEF Falls
  <2>2. CASE j + 1 \notin DOMAIN evs
    <3>1. j + 1 = n + 1
      BY <1>1, <2>2
    <3>2. 1 \in DOMAIN b => ~(b[1].diff < 0)
      <4>1. 1 - 1 \notin DOMAIN b
        BY <1>1
      <4> QED BY <4>1 DEF Paired
    <3>3. n + 1 \in DOMAIN e => 1 \in DOMAIN b /\ e[n + 1] = b[1]
      BY <1>1
    <3> QED BY <2>2, <3>1, <3>2, <3>3 DEF Falls
  <2> QED BY <2>1, <2>2
<1>3. \A k \in DOMAIN b : n + k \in DOMAIN e /\ e[n + k] = b[k] /\ n + k \notin DOMAIN evs
  BY <1>1
<1>4. \A j \in DOMAIN e : j \in DOMAIN evs \/ (j > n /\ j - n \in DOMAIN b /\ j = n + (j - n))
  BY <1>1
<1>5. DOMAIN evs \subseteq DOMAIN e /\ \A j \in DOMAIN evs : e[j] = evs[j]
  BY <1>1
<1> QED BY <1>1, <1>2, <1>3, <1>4, <1>5 DEF e, n

\* A list of pairs behind a list of pairs is one.
LEMMA JoinPaired ==
  ASSUME NEW evs \in Seq(Event), NEW b \in Seq(Event), Paired(evs), Paired(b)
  PROVE  Paired(evs \o b)
<1> DEFINE e == evs \o b
           n == Len(evs)
<1> SUFFICES ASSUME NEW j \in DOMAIN e, e[j].diff < 0
             PROVE  /\ j - 1 \in DOMAIN e /\ e[j - 1].diff = -e[j].diff
                    /\ e[j - 1].time <= e[j].time
  BY DEF Paired
<1>1. CASE j \in DOMAIN evs
  <2>1. e[j] = evs[j]
    BY <1>1, JoinFacts
  <2>2. /\ j - 1 \in DOMAIN evs /\ evs[j - 1].diff = -evs[j].diff
        /\ evs[j - 1].time <= evs[j].time
    BY <1>1, <2>1 DEF Paired
  <2>3. e[j - 1] = evs[j - 1] /\ j - 1 \in DOMAIN e
    BY <2>2, JoinFacts
  <2> QED BY <2>1, <2>2, <2>3
<1>2. CASE j \notin DOMAIN evs
  <2> DEFINE k == j - n
  <2>1. k \in DOMAIN b /\ j = n + k
    BY <1>2, JoinFacts
  <2>2. n \in Nat /\ k \in Nat
    BY <2>1, EventFacts
  <2> HIDE DEF k
  <2>3. e[j] = b[k]
    BY <2>1, JoinFacts
  <2>4. k - 1 \in DOMAIN b /\ b[k - 1].diff = -b[k].diff /\ b[k - 1].time <= b[k].time
    BY <2>1, <2>3 DEF Paired
  <2>5. n + (k - 1) \in DOMAIN e /\ e[n + (k - 1)] = b[k - 1]
    BY <2>4, JoinFacts
  <2>6. j - 1 = n + (k - 1)
    BY <2>1, <2>2
  <2> QED BY <2>3, <2>4, <2>5, <2>6
<1> QED BY <1>1, <1>2

\* Root r has fallen by time t.
Calm(evs, own, r, t) ==
  \A j \in DOMAIN evs : own[j] = r =>
    evs[j].time <= t /\ (Rises(evs, j) => Falls(evs, j + 1))

\* The owners once the events b of root r are added.
JoinOwn(evs, own, b, r) ==
  [j \in DOMAIN (evs \o b) |-> IF j \in DOMAIN evs THEN own[j] ELSE r]

\* The old events keep their roots, the new ones have root r.
LEMMA JoinOwnIs ==
  ASSUME NEW evs \in Seq(Event), NEW b \in Seq(Event), Paired(b), NEW own, NEW r
  PROVE  /\ DOMAIN JoinOwn(evs, own, b, r) = DOMAIN (evs \o b)
         /\ \A j \in DOMAIN evs : JoinOwn(evs, own, b, r)[j] = own[j]
         /\ \A j \in DOMAIN (evs \o b) : j \notin DOMAIN evs => JoinOwn(evs, own, b, r)[j] = r
         /\ \A k \in DOMAIN b : JoinOwn(evs, own, b, r)[Len(evs) + k] = r
<1>1. DOMAIN evs \subseteq DOMAIN (evs \o b)
  BY JoinFacts
<1>2. \A k \in DOMAIN b : Len(evs) + k \in DOMAIN (evs \o b) /\ Len(evs) + k \notin DOMAIN evs
  BY JoinFacts
<1> DEFINE e == evs \o b
           n == Len(evs)
<1> HIDE DEF e, n
<1>3. DOMAIN evs \subseteq DOMAIN e /\ \A k \in DOMAIN b : n + k \in DOMAIN e /\ n + k \notin DOMAIN evs
  BY <1>1, <1>2 DEF e, n
<1> DEFINE o == [j \in DOMAIN e |-> IF j \in DOMAIN evs THEN own[j] ELSE r]
<1>4. /\ DOMAIN o = DOMAIN e
      /\ \A j \in DOMAIN evs : o[j] = own[j]
      /\ \A j \in DOMAIN e : j \notin DOMAIN evs => o[j] = r
      /\ \A k \in DOMAIN b : o[n + k] = r
  BY <1>3
<1>5. o = JoinOwn(evs, own, b, r)
  BY DEF JoinOwn, e
<1> HIDE DEF o
<1> QED BY <1>4, <1>5 DEF e, n

\* Falls and rises among the added events.
LEMMA JoinMoves ==
  ASSUME NEW evs \in Seq(Event), NEW b \in Seq(Event), Paired(b), NEW k \in DOMAIN b
  PROVE  /\ Rises(evs \o b, Len(evs) + k) <=> Rises(b, k)
         /\ Falls(evs \o b, (Len(evs) + k) + 1) <=> Falls(b, k + 1)
         /\ Falls(b, k + 1) => (evs \o b)[(Len(evs) + k) + 1] = b[k + 1]
<1> DEFINE e == evs \o b
           n == Len(evs)
<1>1. n \in Nat /\ k \in Nat /\ DOMAIN b = 1 .. Len(b) /\ Len(b) \in Nat
  BY EventFacts
<1>2. \A x \in DOMAIN b : n + x \in DOMAIN e /\ e[n + x] = b[x]
  BY JoinFacts
<1>3. \A j \in DOMAIN e : j \in DOMAIN evs \/ j - n \in DOMAIN b
  BY JoinFacts
<1>4. DOMAIN evs = 1 .. n
  BY EventFacts
<1> HIDE DEF e, n
<1>5. Rises(e, n + k) <=> Rises(b, k)
  BY <1>2 DEF Rises
<1>6. (n + k) + 1 = n + (k + 1) /\ ((n + k) + 1) - n = k + 1 /\ (n + k) + 1 \notin DOMAIN evs
  BY <1>1, <1>4
<1>7. k + 1 \in DOMAIN b <=> (n + k) + 1 \in DOMAIN e
  BY <1>2, <1>3, <1>6
<1>8. k + 1 \in DOMAIN b => e[(n + k) + 1] = b[k + 1]
  BY <1>2, <1>6
<1> QED BY <1>5, <1>7, <1>8 DEF Falls, e, n

\* If root r is silent by the time the new events begin, it still has one rate at a
\* time.
LEMMA JoinOwned ==
  ASSUME NEW evs \in Seq(Event), NEW b \in Seq(Event), Paired(evs), Paired(b),
         NEW R, NEW r \in R, NEW own, Owned(evs, own, R), Owned(b, [k \in DOMAIN b |-> r], R),
         NEW at \in Int, Calm(evs, own, r, at), \A k \in DOMAIN b : at <= b[k].time
  PROVE  Owned(evs \o b, JoinOwn(evs, own, b, r), R)
<1> DEFINE e == evs \o b
           n == Len(evs)
           o == JoinOwn(evs, own, b, r)
<1>0. n \in Nat /\ DOMAIN evs = 1 .. n /\ DOMAIN b = 1 .. Len(b) /\ Len(b) \in Nat
  BY EventFacts
<1>1. /\ e \in Seq(Event) /\ DOMAIN evs \subseteq DOMAIN e /\ \A j \in DOMAIN evs : e[j] = evs[j]
  BY JoinFacts
<1>2. \A k \in DOMAIN b : n + k \in DOMAIN e /\ e[n + k] = b[k]
  BY JoinFacts
<1>3. \A j \in DOMAIN e : j \in DOMAIN evs \/ (j > n /\ j - n \in DOMAIN b /\ j = n + (j - n))
  BY JoinFacts
<1>4. \A j \in DOMAIN evs : Falls(e, j + 1) <=> Falls(evs, j + 1)
  BY JoinFacts
<1>5. /\ DOMAIN o = DOMAIN e /\ \A j \in DOMAIN evs : o[j] = own[j]
      /\ \A j \in DOMAIN e : j \notin DOMAIN evs => o[j] = r
  BY JoinOwnIs
<1>6. o = [j \in DOMAIN e |-> o[j]]
  BY DEF JoinOwn
<1>7. Paired(e)
  BY JoinPaired
<1>8. \A k \in DOMAIN b : /\ Rises(e, n + k) <=> Rises(b, k)
                          /\ Falls(e, (n + k) + 1) <=> Falls(b, k + 1)
                          /\ Falls(b, k + 1) => e[(n + k) + 1] = b[k + 1]
  BY JoinMoves
<1>9. \A k \in DOMAIN b : at <= b[k].time /\ b[k].time \in Int
  BY EventFacts
<1> HIDE DEF e, n, o
<1>10. o \in [DOMAIN e -> R]
  BY <1>5, <1>6 DEF Owned
<1>11. ASSUME NEW j \in DOMAIN e PROVE e[j].diff # 0
  <2>1. (\A i \in DOMAIN evs : evs[i].diff # 0) /\ (\A k \in DOMAIN b : b[k].diff # 0)
    BY DEF Owned
  <2>2. CASE j \in DOMAIN evs
    BY <1>1, <2>1, <2>2
  <2>3. CASE j \notin DOMAIN evs
    BY <1>2, <1>3, <2>1, <2>3
  <2> QED BY <2>2, <2>3
<1>12. ASSUME NEW j \in DOMAIN e, e[j].diff < 0 PROVE o[j - 1] = o[j]
  <2>1. j - 1 \in DOMAIN e
    BY <1>7, <1>12 DEF Paired
  <2>2. CASE j \in DOMAIN evs
    <3>1. evs[j].diff < 0
      BY <1>1, <1>12, <2>2
    <3>2. j - 1 \in DOMAIN evs /\ own[j - 1] = own[j]
      BY <2>2, <3>1 DEF Paired, Owned
    <3> QED BY <1>5, <2>2, <3>2
  <2>3. CASE j \notin DOMAIN evs
    <3>1. j - n \in DOMAIN b /\ j = n + (j - n)
      BY <1>3, <2>3
    <3> DEFINE k == j - n
    <3>2. b[k].diff < 0
      BY <1>2, <1>12, <3>1
    <3>3. k - 1 \in DOMAIN b
      BY <3>1, <3>2 DEF Paired
    <3>4. j - 1 \notin DOMAIN evs
      BY <1>0, <3>1, <3>3
    <3> QED BY <1>5, <2>1, <2>3, <3>4
  <2> QED BY <2>2, <2>3
<1>13. ASSUME NEW j \in DOMAIN e, NEW l \in DOMAIN e, j < l, o[j] = o[l], Rises(e, j), Rises(e, l)
       PROVE  Falls(e, j + 1) /\ e[j + 1].time <= e[l].time
  <2>1. CASE j \in DOMAIN evs /\ l \in DOMAIN evs
    <3>1. own[j] = own[l] /\ Rises(evs, j) /\ Rises(evs, l)
      BY <1>1, <1>5, <1>13, <2>1 DEF Rises
    <3>2. Falls(evs, j + 1) /\ evs[j + 1].time <= evs[l].time
      BY <1>13, <2>1, <3>1 DEF Owned
    <3>3. j + 1 \in DOMAIN evs
      BY <3>2 DEF Falls
    <3> QED BY <1>1, <1>4, <2>1, <3>2, <3>3
  <2>2. CASE j \in DOMAIN evs /\ l \notin DOMAIN evs
    <3>1. l - n \in DOMAIN b /\ e[l] = b[l - n]
      BY <1>2, <1>3, <2>2
    <3>2. own[j] = r /\ Rises(evs, j)
      BY <1>1, <1>5, <1>13, <2>2 DEF Rises
    <3>3. Falls(evs, j + 1)
      BY <2>2, <3>2 DEF Calm
    <3>4. j + 1 \in DOMAIN evs /\ evs[j + 1].diff < 0 /\ (j + 1) - 1 = j
      BY <1>0, <2>2, <3>3 DEF Falls
    <3>5. own[j + 1] = r
      BY <3>2, <3>4 DEF Owned
    <3>6. evs[j + 1].time <= at /\ evs[j + 1].time \in Int
      BY <3>4, <3>5, EventFacts DEF Calm
    <3>7. at <= e[l].time /\ e[l].time \in Int
      BY <1>9, <3>1
    <3>8. e[j + 1] = evs[j + 1]
      BY <1>1, <3>4
    <3> QED BY <1>4, <2>2, <3>3, <3>6, <3>7, <3>8
  <2>3. CASE j \notin DOMAIN evs
    <3> DEFINE x == j - n
               y == l - n
    <3>1. j \in Nat /\ l \in Nat
      BY <1>1, EventFacts
    <3>2. x \in DOMAIN b /\ j = n + x
      BY <1>3, <2>3
    <3>3. l \notin DOMAIN evs
      BY <1>0, <1>3, <1>13, <2>3, <3>1
    <3>4. y \in DOMAIN b /\ l = n + y
      BY <1>3, <3>3
    <3>5. x < y /\ x \in Nat /\ y \in Nat
      BY <1>0, <1>13, <3>1, <3>2, <3>4
    <3> HIDE DEF x, y
    <3>6. Rises(b, x) /\ Rises(b, y)
      BY <1>8, <1>13, <3>2, <3>4
    <3>7. Falls(b, x + 1) /\ b[x + 1].time <= b[y].time
      BY <3>2, <3>4, <3>5, <3>6 DEF Owned
    <3>8. Falls(e, j + 1) /\ e[j + 1] = b[x + 1]
      BY <1>8, <3>2, <3>7
    <3>9. e[l] = b[y]
      BY <1>2, <3>4
    <3> QED BY <3>7, <3>8, <3>9
  <2> QED BY <2>1, <2>2, <2>3
<1>14. Owned(e, o, R)
  BY <1>10, <1>11, <1>12, <1>13 DEF Owned
<1> QED BY <1>14 DEF e, o


-----------------------------------------------------------------------------
(* The events are the intervals the roots send.                            *)

\* The rise j, with its fall if it has one, is interval i.
Shows(evs, j, i) ==
  /\ j \in DOMAIN evs /\ evs[j].diff = i.pps /\ evs[j].time = i.from
  /\ i.to = INFINITE => ~Falls(evs, j + 1)
  /\ i.to # INFINITE => Falls(evs, j + 1) /\ evs[j + 1].time = i.to

\* The events b are what root r sends at position m.
Block(b, r, m) ==
  /\ \A k \in DOMAIN b : Rises(b, k) => \E i \in IntervalsAt(r, m) : Shows(b, k, i)
  /\ \A i \in IntervalsAt(r, m) : \E k \in DOMAIN b : Shows(b, k, i)

\* The events are what every root r sends at its first seen[r] positions.
Listing(evs, own, seen) ==
  /\ \A j \in DOMAIN evs : Rises(evs, j) =>
       \E k \in 0 .. seen[own[j]] - 1 : \E i \in IntervalsAt(own[j], k) : Shows(evs, j, i)
  /\ \A r \in Roots : \A k \in 0 .. seen[r] - 1 : \A i \in IntervalsAt(r, k) :
       \E j \in DOMAIN evs : own[j] = r /\ Shows(evs, j, i)

\* An interval that is listed stays listed when events are added.
LEMMA ShowsKept ==
  ASSUME NEW evs \in Seq(Event), NEW b \in Seq(Event), Paired(b), NEW i
  PROVE  /\ \A j \in DOMAIN evs : Shows(evs, j, i) => Shows(evs \o b, j, i)
         /\ \A k \in DOMAIN b : Shows(b, k, i) => Shows(evs \o b, Len(evs) + k, i)
<1> DEFINE e == evs \o b
           n == Len(evs)
<1>1. DOMAIN evs \subseteq DOMAIN e /\ \A j \in DOMAIN evs : e[j] = evs[j]
  BY JoinFacts
<1>2. \A j \in DOMAIN evs : Falls(e, j + 1) <=> Falls(evs, j + 1)
  BY JoinFacts
<1>3. \A k \in DOMAIN b : n + k \in DOMAIN e /\ e[n + k] = b[k]
  BY JoinFacts
<1>4. \A k \in DOMAIN b : /\ Falls(e, (n + k) + 1) <=> Falls(b, k + 1)
                          /\ Falls(b, k + 1) => e[(n + k) + 1] = b[k + 1]
  BY JoinMoves
<1> HIDE DEF e, n
<1>5. ASSUME NEW j \in DOMAIN evs, Shows(evs, j, i) PROVE Shows(e, j, i)
  <2>1. Falls(evs, j + 1) => e[j + 1] = evs[j + 1]
    BY <1>1 DEF Falls
  <2> QED BY <1>1, <1>2, <1>5, <2>1 DEF Shows
<1>6. ASSUME NEW k \in DOMAIN b, Shows(b, k, i) PROVE Shows(e, n + k, i)
  <2>1. e[n + k] = b[k] /\ n + k \in DOMAIN e
    BY <1>3
  <2>2. /\ Falls(e, (n + k) + 1) <=> Falls(b, k + 1)
        /\ Falls(b, k + 1) => e[(n + k) + 1] = b[k + 1]
    BY <1>4
  <2> QED BY <1>6, <2>1, <2>2 DEF Shows
<1> QED BY <1>5, <1>6 DEF e, n

\* One position more of root r is listed.
LEMMA ListingGrows ==
  ASSUME NEW evs \in Seq(Event), NEW b \in Seq(Event), Paired(b), NEW r \in Roots,
         NEW own \in [DOMAIN evs -> Roots], NEW seen \in [Roots -> Nat],
         NEW new \in [Roots -> Nat], NEW m \in Nat, seen[r] = m, new[r] = m + 1,
         \A q \in Roots : q # r => new[q] = seen[q],
         Listing(evs, own, seen), Block(b, r, m)
  PROVE  Listing(evs \o b, JoinOwn(evs, own, b, r), new)
<1> DEFINE e == evs \o b
           n == Len(evs)
           o == JoinOwn(evs, own, b, r)
<1>1. DOMAIN evs \subseteq DOMAIN e /\ \A j \in DOMAIN evs : e[j] = evs[j]
  BY JoinFacts
<1>2. \A k \in DOMAIN b : n + k \in DOMAIN e /\ e[n + k] = b[k]
  BY JoinFacts
<1>3. \A j \in DOMAIN e : j \in DOMAIN evs \/ (j - n \in DOMAIN b /\ j = n + (j - n))
  BY JoinFacts
<1>4. /\ DOMAIN o = DOMAIN e /\ \A j \in DOMAIN evs : o[j] = own[j]
      /\ \A j \in DOMAIN e : j \notin DOMAIN evs => o[j] = r
      /\ \A k \in DOMAIN b : o[n + k] = r
  BY JoinOwnIs
<1>5. \A i : /\ \A j \in DOMAIN evs : Shows(evs, j, i) => Shows(e, j, i)
             /\ \A k \in DOMAIN b : Shows(b, k, i) => Shows(e, n + k, i)
  BY ShowsKept
<1>6. ASSUME NEW q \in Roots PROVE 0 .. seen[q] - 1 \subseteq 0 .. new[q] - 1
  <2>1. seen[q] \in Nat /\ new[q] \in Nat /\ seen[q] <= new[q]
    <3>1. CASE q = r
      BY <3>1
    <3>2. CASE q # r
      BY <3>2
    <3> QED BY <3>1, <3>2
  <2> QED BY <2>1
<1>7. m \in 0 .. new[r] - 1
  OBVIOUS
<1> HIDE DEF e, n, o
<1>8. ASSUME NEW j \in DOMAIN e, Rises(e, j)
      PROVE  \E k \in 0 .. new[o[j]] - 1 : \E i \in IntervalsAt(o[j], k) : Shows(e, j, i)
  <2>1. CASE j \in DOMAIN evs
    <3>1. Rises(evs, j) /\ o[j] = own[j] /\ own[j] \in Roots
      BY <1>1, <1>4, <1>8, <2>1 DEF Rises
    <3>2. PICK k \in 0 .. seen[own[j]] - 1 : \E i \in IntervalsAt(own[j], k) : Shows(evs, j, i)
      BY <2>1, <3>1 DEF Listing
    <3>3. PICK i \in IntervalsAt(own[j], k) : Shows(evs, j, i)
      BY <3>2
    <3>4. k \in 0 .. new[own[j]] - 1 /\ Shows(e, j, i)
      BY <1>5, <1>6, <2>1, <3>1, <3>3
    <3> QED BY <3>1, <3>4
  <2>2. CASE j \notin DOMAIN evs
    <3> DEFINE x == j - n
    <3>1. x \in DOMAIN b /\ j = n + x /\ o[j] = r
      BY <1>3, <1>4, <2>2
    <3> HIDE DEF x
    <3>2. Rises(b, x)
      BY <1>2, <1>8, <3>1 DEF Rises
    <3>3. PICK i \in IntervalsAt(r, m) : Shows(b, x, i)
      BY <3>1, <3>2 DEF Block
    <3>4. Shows(e, j, i)
      BY <1>5, <3>1, <3>3
    <3> QED BY <1>7, <3>1, <3>4
  <2> QED BY <2>1, <2>2
<1>9. ASSUME NEW q \in Roots, NEW k \in 0 .. new[q] - 1, NEW i \in IntervalsAt(q, k)
      PROVE  \E j \in DOMAIN e : o[j] = q /\ Shows(e, j, i)
  <2>1. CASE k \in 0 .. seen[q] - 1
    <3>1. PICK j \in DOMAIN evs : own[j] = q /\ Shows(evs, j, i)
      BY <2>1 DEF Listing
    <3>2. j \in DOMAIN e /\ o[j] = q /\ Shows(e, j, i)
      BY <1>1, <1>4, <1>5, <3>1
    <3> QED BY <3>2
  <2>2. CASE k \notin 0 .. seen[q] - 1
    <3>1. q = r /\ k = m
      BY <2>2
    <3>2. PICK x \in DOMAIN b : Shows(b, x, i)
      BY <3>1 DEF Block
    <3>3. n + x \in DOMAIN e /\ o[n + x] = q /\ Shows(e, n + x, i)
      BY <1>2, <1>4, <1>5, <3>1, <3>2
    <3> QED BY <3>3
  <2> QED BY <2>1, <2>2
<1>10. Listing(e, o, new)
  BY <1>8, <1>9 DEF Listing
<1> QED BY <1>10 DEF e, o

\* Root r is silent again once the last of its new bursts has ended.
LEMMA CalmGrows ==
  ASSUME NEW evs \in Seq(Event), NEW b \in Seq(Event), Paired(b), NEW own, NEW r,
         NEW t \in Int, NEW u \in Int, t <= u, Calm(evs, own, r, t),
         \A k \in DOMAIN b : b[k].time <= u /\ (Rises(b, k) => Falls(b, k + 1))
  PROVE  Calm(evs \o b, JoinOwn(evs, own, b, r), r, u)
<1> DEFINE e == evs \o b
           n == Len(evs)
           o == JoinOwn(evs, own, b, r)
<1>1. DOMAIN evs \subseteq DOMAIN e /\ \A j \in DOMAIN evs : e[j] = evs[j]
  BY JoinFacts
<1>2. \A k \in DOMAIN b : n + k \in DOMAIN e /\ e[n + k] = b[k]
  BY JoinFacts
<1>3. \A j \in DOMAIN e : j \in DOMAIN evs \/ (j - n \in DOMAIN b /\ j = n + (j - n))
  BY JoinFacts
<1>4. /\ DOMAIN o = DOMAIN e /\ \A j \in DOMAIN evs : o[j] = own[j]
  BY JoinOwnIs
<1>5. \A j \in DOMAIN evs : Falls(e, j + 1) <=> Falls(evs, j + 1)
  BY JoinFacts
<1>6. \A k \in DOMAIN b : Falls(e, (n + k) + 1) <=> Falls(b, k + 1)
  BY JoinMoves
<1>7. \A j \in DOMAIN evs : evs[j].time \in Int
  BY EventFacts
<1> HIDE DEF e, n, o
<1>8. ASSUME NEW j \in DOMAIN e, o[j] = r
      PROVE  e[j].time <= u /\ (Rises(e, j) => Falls(e, j + 1))
  <2>1. CASE j \in DOMAIN evs
    <3>1. evs[j].time <= t /\ (Rises(evs, j) => Falls(evs, j + 1))
      BY <1>4, <1>8, <2>1 DEF Calm
    <3>2. Rises(e, j) => Rises(evs, j)
      BY <1>1, <2>1 DEF Rises
    <3>3. evs[j].time <= u
      BY <1>7, <2>1, <3>1
    <3> QED BY <1>1, <1>5, <2>1, <3>1, <3>2, <3>3
  <2>2. CASE j \notin DOMAIN evs
    <3> DEFINE x == j - n
    <3>1. x \in DOMAIN b /\ j = n + x
      BY <1>3, <2>2
    <3> HIDE DEF x
    <3>2. e[j] = b[x] /\ (Falls(e, j + 1) <=> Falls(b, x + 1))
      BY <1>2, <1>6, <3>1
    <3>3. Rises(e, j) => Rises(b, x)
      BY <3>1, <3>2 DEF Rises
    <3> QED BY <3>1, <3>2, <3>3
  <2> QED BY <2>1, <2>2
<1>9. Calm(e, o, r, u)
  BY <1>8 DEF Calm
<1> QED BY <1>9 DEF e, o

\* A root that is still to be scanned has no events.
LEMMA FreshIsCalm ==
  ASSUME NEW evs \in Seq(Event), Paired(evs), NEW own, Owned(evs, own, Roots),
         NEW seen \in [Roots -> Nat], Listing(evs, own, seen), NEW r \in Roots, seen[r] = 0, NEW t
  PROVE  Calm(evs, own, r, t)
<1>1. \A j \in DOMAIN evs : Rises(evs, j) => own[j] # r
  <2> SUFFICES ASSUME NEW j \in DOMAIN evs, Rises(evs, j), own[j] = r PROVE FALSE
    OBVIOUS
  <2>1. \E k \in 0 .. seen[r] - 1 : TRUE
    BY DEF Listing
  <2> QED BY <2>1
<1>2. ASSUME NEW j \in DOMAIN evs PROVE own[j] # r
  <2>1. evs[j].diff \in Int /\ evs[j].diff # 0
    BY EventFacts DEF Owned
  <2>2. CASE evs[j].diff > 0
    BY <1>1, <2>2 DEF Rises
  <2>3. CASE evs[j].diff < 0
    <3>1. j - 1 \in DOMAIN evs /\ evs[j - 1].diff = -evs[j].diff /\ own[j - 1] = own[j]
      BY <2>3 DEF Paired, Owned
    <3>2. Rises(evs, j - 1)
      BY <2>1, <2>3, <3>1 DEF Rises
    <3> QED BY <1>1, <3>1, <3>2
  <2> QED BY <2>1, <2>2, <2>3
<1> QED BY <1>2 DEF Calm

-----------------------------------------------------------------------------
(* What the scan of one stream adds.                                       *)

\* The time a walk has come to, and how it goes on.
LEMMA ReachedFacts ==
  ASSUME table \in Tables, NEW r \in Nat, NEW m, Walk(r, m)
  PROVE  /\ Reached(r, 0) = 0
         /\ Reached(r, m) \in Nat
         /\ Reached(r, m + 1) = Reached(r, m) + Stay(Of(Chain(r)[m]))
         /\ Stay(Of(Chain(r)[m])) \in Nat
<1> DEFINE f(k) == [x \in 0 .. (k - 1) |-> Stay(Of(Chain(r)[x]))]
<1>1. \A k : Reached(r, k) = Sum(f(k), 0 .. (k - 1))
  BY DEF Reached, Sum
<1>2. m \in Nat /\ \A k \in 0 .. m : Chain(r)[k] \in Present
  BY WalkIsShort DEF Walk, Path
<1>3. ASSUME NEW s \in Stream PROVE Stay(s) \in Nat
  <2> DEFINE l == get_burst_length(s)
             n == BurstsOf(s)
  <2>1. l \in Nat /\ n \in Nat /\ s.isg \in Nat /\ s.ibg \in Nat
    BY StreamFacts
  <2>2. Stay(s) = IF n = 0 THEN 0 ELSE s.isg + n * l + (n - 1) * s.ibg
    BY DEF Stay
  <2> HIDE DEF l, n
  <2>3. CASE n = 0
    BY <2>2, <2>3
  <2>4. CASE n # 0
    <3>1. n - 1 \in Nat
      BY <2>1, <2>4
    <3>2. n * l \in Nat /\ (n - 1) * s.ibg \in Nat
      BY <2>1, <3>1, Product
    <3> QED BY <2>1, <2>2, <2>4, <3>2
  <2> QED BY <2>3, <2>4
<1>4. \A k \in 0 .. m : Stay(Of(Chain(r)[k])) \in Nat
  BY <1>2, <1>3, OfFacts
<1> DEFINE g == [k \in 0 .. m |-> Stay(Of(Chain(r)[k]))]
<1>5. \A k \in 0 .. m : g[k] \in Nat /\ g[k] = Stay(Of(Chain(r)[k]))
  BY <1>4
<1>6. \A k \in 0 .. (m - 1) : f(m)[k] = Stay(Of(Chain(r)[k])) /\ f(m)[k] = g[k]
  BY <1>2
<1>7. f(m + 1) = g
  BY <1>2
<1> DEFINE h == f(m)
           e == f(0)
           S == 0 .. (m - 1)
<1>8. \A k \in S : h[k] \in Nat /\ h[k] = g[k]
  BY <1>5, <1>6, <1>2
<1>9. IsFiniteSet(S) /\ 0 .. m = S \cup {m} /\ m \notin S /\ 0 .. (m + 1) - 1 = 0 .. m
  <2>1. IsFiniteSet(0 .. (m - 1))
    BY <1>2, FS_Interval
  <2> QED BY <1>2, <2>1
<1>10. Reached(r, m) = Sum(h, S) /\ Reached(r, m + 1) = Sum(g, S \cup {m}) /\ Reached(r, 0) = Sum(e, {})
  <2>1. 0 .. (0 - 1) = {}
    OBVIOUS
  <2> QED BY <1>1, <1>7, <1>9, <2>1
<1> DEFINE st == Stay(Of(Chain(r)[m]))
<1>11. st \in Nat /\ g[m] = st
  BY <1>2, <1>5
<1> HIDE DEF g, h, e, S, f, st
<1>12. Sum(e, {}) = 0
  BY SumEmpty
<1>13. Sum(h, S) = Sum(g, S)
  <2>1. \A x \in S : h[x] \in Int /\ h[x] = g[x]
    BY <1>8
  <2> QED BY <1>9, <2>1, SumSame
<1>14. Sum(g, S \cup {m}) = g[m] + Sum(g, S)
  <2>1. \A x \in S \cup {m} : g[x] \in Int
    BY <1>5, <1>9
  <2> QED BY <1>9, <2>1, SumInsert
<1>15. Sum(h, S) \in Int /\ Sum(h, S) >= 0
  <2> DEFINE z == [x \in S |-> 0]
  <2>1. \A x \in S : z[x] = 0
    OBVIOUS
  <2> HIDE DEF z
  <2>2. Sum(z, S) = 0
    BY <1>9, <2>1, SumZero
  <2>3. \A x \in S : z[x] \in Int /\ h[x] \in Int /\ z[x] <= h[x]
    BY <1>8, <2>1
  <2>4. Sum(z, S) <= Sum(h, S)
    BY <1>9, <2>3, SumGrows
  <2>5. Sum(h, S) \in Int
    <3>1. \A x \in S : h[x] \in Int
      BY <1>8
    <3> QED BY <1>9, <3>1, SumIsInt
  <2> QED BY <2>2, <2>4, <2>5
<1> DEFINE a == Sum(h, S)
           b == Sum(g, S)
           c == Sum(g, S \cup {m})
<1>16. a \in Nat /\ a = b /\ c = st + b /\ Reached(r, m) = a /\ Reached(r, m + 1) = c
  BY <1>10, <1>11, <1>13, <1>14, <1>15
<1>17. Reached(r, 0) = 0
  BY <1>10, <1>12
<1> HIDE DEF a, b, c
<1> QED BY <1>11, <1>16, <1>17 DEF st

\* The last burst ends when the stream's stay is over.
LEMMA StayIsEnd ==
  ASSUME NEW s \in Stream, NEW at \in Int, BurstsOf(s) # 0
  PROVE  BurstEnd(s, at, BurstsOf(s) - 1) = at + Stay(s)
<1> DEFINE l == get_burst_length(s)
           n == BurstsOf(s)
           i == s.ibg
           g == s.isg
           x == n - 1
<1>1. l \in Nat /\ n \in Nat /\ g \in Nat /\ i \in Nat /\ n # 0
  BY StreamFacts
<1>2. BurstEnd(s, at, n - 1) = at + g + x * (l + i) + l
  BY DEF BurstEnd, BurstStart
<1>3. Stay(s) = g + n * l + x * i
  BY DEF Stay
<1>4. x \in Nat /\ n = x + 1
  BY <1>1
<1> HIDE DEF l, n, i, g, x
<1>5. n * l = x * l + l
  BY <1>1, <1>4
<1>6. x * (l + i) = x * l + x * i
  BY <1>1, <1>4
<1>7. x * l \in Nat /\ x * i \in Nat
  BY <1>1, <1>4, Product
<1> DEFINE p == x * l
           q == x * i
           y == n * l
           w == x * (l + i)
<1>8. p \in Nat /\ q \in Nat /\ y = p + l /\ w = p + q
  BY <1>5, <1>6, <1>7
<1>9. BurstEnd(s, at, n - 1) = at + g + w + l /\ Stay(s) = g + y + q
  BY <1>2, <1>3
<1> HIDE DEF p, q, y, w
<1>10. at + g + w + l = at + (g + y + q)
  BY <1>1, <1>8
<1>11. BurstEnd(s, at, n - 1) = at + Stay(s)
  BY <1>9, <1>10
<1> QED BY <1>11 DEF n

\* The events of a stream with bursts are what the root sends at that position.
LEMMA BurstsAreBlock ==
  ASSUME table \in Tables, NEW r \in Nat, NEW m, Walk(r, m),
         Of(Chain(r)[m]).type # "continuous"
  PROVE  Block(BurstEvents(Of(Chain(r)[m]), Reached(r, m), BurstsOf(Of(Chain(r)[m]))), r, m)
<1> DEFINE s == Of(Chain(r)[m])
           at == Reached(r, m)
           n == BurstsOf(s)
           b == BurstEvents(s, at, n)
           Inter(x) == [pps |-> s.pps, from |-> BurstStart(s, at, x), to |-> BurstEnd(s, at, x)]
<1>1. s \in Stream /\ at \in Nat /\ n \in Nat
  BY OfFacts, ReachedFacts, StreamFacts DEF Walk
<1>2. IntervalsAt(r, m) = {Inter(x) : x \in 0 .. (n - 1)}
  BY DEF IntervalsAt, BurstStart, BurstEnd
<1>3. \A x \in 0 .. n - 1 :
        /\ b[2 * x + 1].time = BurstStart(s, at, x) /\ b[2 * x + 1].diff = s.pps
        /\ b[2 * x + 2].time = BurstEnd(s, at, x)
  BY <1>1, BurstFacts
<1>4. /\ \A x \in 0 .. n - 1 : Rises(b, 2 * x + 1) /\ Falls(b, 2 * x + 2)
      /\ \A k \in DOMAIN b : Rises(b, k) => \E x \in 0 .. n - 1 : k = 2 * x + 1
  BY <1>1, BurstIsPaired
<1>5. \A x \in 0 .. n - 1 : BurstEnd(s, at, x) \in Nat
  <2> TAKE x \in 0 .. n - 1
  <2>1. x \in Nat /\ at \in Int
    BY <1>1
  <2>2. /\ BurstStart(s, at, x) \in Int /\ BurstEnd(s, at, x) \in Int
        /\ at <= BurstStart(s, at, x) /\ BurstStart(s, at, x) <= BurstEnd(s, at, x)
    BY <1>1, <2>1, BurstTimes
  <2> QED BY <1>1, <2>2
<1> HIDE DEF s, n, at, b
<1>6. ASSUME NEW x \in 0 .. n - 1 PROVE Shows(b, 2 * x + 1, Inter(x))
  <2> DEFINE u == 2 * x + 1
             v == 2 * x + 2
             i == Inter(x)
  <2>1. /\ b[u].time = BurstStart(s, at, x) /\ b[u].diff = s.pps
        /\ b[v].time = BurstEnd(s, at, x) /\ Rises(b, u) /\ Falls(b, v)
    BY <1>3, <1>4
  <2>2. v = u + 1
    OBVIOUS
  <2>3. i.pps = s.pps /\ i.from = BurstStart(s, at, x) /\ i.to = BurstEnd(s, at, x)
    OBVIOUS
  <2>4. i.to # INFINITE
    BY <1>5, <2>3 DEF INFINITE
  <2> HIDE DEF u, v, i
  <2>5. Shows(b, u, i)
    BY <2>1, <2>2, <2>3, <2>4 DEF Shows, Rises
  <2> QED BY <2>5 DEF u, i
<1> HIDE DEF Inter
<1>7. ASSUME NEW k \in DOMAIN b, Rises(b, k)
      PROVE  \E i \in IntervalsAt(r, m) : Shows(b, k, i)
  <2>1. PICK x \in 0 .. n - 1 : k = 2 * x + 1
    BY <1>4, <1>7
  <2>2. Inter(x) \in IntervalsAt(r, m) /\ Shows(b, k, Inter(x))
    BY <1>2, <1>6, <2>1
  <2> QED BY <2>2
<1>8. ASSUME NEW i \in IntervalsAt(r, m)
      PROVE  \E k \in DOMAIN b : Shows(b, k, i)
  <2>1. PICK x \in 0 .. (n - 1) : i = Inter(x)
    BY <1>2
  <2>2. Shows(b, 2 * x + 1, i)
    BY <1>6, <2>1
  <2>3. 2 * x + 1 \in DOMAIN b
    BY <2>2 DEF Shows
  <2> QED BY <2>2, <2>3
<1>9. Block(b, r, m)
  BY <1>7, <1>8 DEF Block
<1> QED BY <1>9 DEF b, s, n, at

\* One rise, of a continuous stream.
LEMMA RiseFacts ==
  ASSUME NEW s \in Stream, NEW t \in Int, NEW R, NEW r \in R
  PROVE  LET b == <<Rise(s, t)>>
         IN  /\ b \in Seq(Event) /\ DOMAIN b = {1} /\ b[1].time = t /\ b[1].diff = s.pps
             /\ Paired(b) /\ Rises(b, 1) /\ ~Falls(b, 1 + 1)
             /\ Owned(b, [k \in DOMAIN b |-> r], R)
<1> DEFINE b == <<Rise(s, t)>>
           own == [k \in DOMAIN b |-> r]
<1>1. s.pps \in Nat /\ s.pps > 0
  BY StreamFacts
<1>2. Rise(s, t) \in Event /\ Rise(s, t).time = t /\ Rise(s, t).diff = s.pps
  BY <1>1 DEF Rise, Event
<1>3. b \in Seq(Event) /\ DOMAIN b = {1} /\ b[1] = Rise(s, t)
  BY <1>2
<1> HIDE DEF b
<1>4. b[1].time = t /\ b[1].diff = s.pps
  BY <1>2, <1>3
<1>5. Rises(b, 1) /\ ~Falls(b, 1 + 1) /\ ~(b[1].diff < 0) /\ b[1].diff # 0
  BY <1>1, <1>3, <1>4 DEF Rises, Falls
<1>6. Paired(b)
  BY <1>3, <1>5 DEF Paired
<1>7. own \in [DOMAIN b -> R]
  OBVIOUS
<1> HIDE DEF own
<1>8. Owned(b, own, R)
  <2>1. \A j, l \in DOMAIN b : ~(j < l)
    BY <1>3
  <2> QED BY <1>3, <1>5, <1>7, <2>1 DEF Owned
<1> QED BY <1>3, <1>4, <1>5, <1>6, <1>8 DEF b, own

\* The rise of a continuous stream is what the root sends at that position.
LEMMA RiseIsBlock ==
  ASSUME table \in Tables, NEW r \in Nat, NEW m, Walk(r, m),
         Of(Chain(r)[m]).type = "continuous"
  PROVE  Block(<<Rise(Of(Chain(r)[m]), Reached(r, m) + Of(Chain(r)[m]).isg)>>, r, m)
<1> DEFINE s == Of(Chain(r)[m])
           at == Reached(r, m) + s.isg
           b == <<Rise(s, at)>>
           i == [pps |-> s.pps, from |-> at, to |-> INFINITE]
<1>1. s \in Stream /\ Reached(r, m) \in Nat /\ s.isg \in Nat
  BY OfFacts, ReachedFacts, StreamFacts DEF Walk
<1>2. IntervalsAt(r, m) = {i}
  BY DEF IntervalsAt
<1>3. at \in Int
  BY <1>1
<1> HIDE DEF s, at
<1>4. DOMAIN b = {1} /\ b[1].time = at /\ b[1].diff = s.pps /\ ~Falls(b, 1 + 1)
  BY <1>1, <1>3, RiseFacts
<1>5. i.pps = s.pps /\ i.from = at /\ i.to = INFINITE
  OBVIOUS
<1> HIDE DEF b, i
<1>6. Shows(b, 1, i)
  BY <1>4, <1>5 DEF Shows
<1>7. Block(b, r, m)
  BY <1>2, <1>4, <1>6 DEF Block
<1> QED BY <1>7 DEF b, s, at

-----------------------------------------------------------------------------
(* The parts of the inductive invariant.                                   *)

Ids(q) == {q[x] : x \in DOMAIN q}

\* The first loop has read the table.
Hashed(h) == DOMAIN h = Present /\ \A n \in Present : h[n] = Of(n)

\* The roots still to be scanned, each once.
Queue(q) ==
  /\ q \in Seq(Present) /\ Ids(q) \subseteq Roots
  /\ \A x, y \in DOMAIN q : q[x] = q[y] => x = y

\* The duration d before the events are sorted.
Lasts(d) == d \in {0, INFINITE} /\ (d = INFINITE => \E r \in Roots : Endless(r))

\* The roots D are scanned: none is broken, none is endless but the duration is.
Walked(D, d) == \A q \in D : ~Broken(q) /\ (Endless(q) => d = INFINITE)

\* The scan is at position m of root r, with the stream id next and the streams
\* before it in the loop hash.
Here(r, m, id, before, d) ==
  /\ Path(r, m) /\ id = Chain(r)[m] /\ id \in Nat
  /\ before = {Chain(r)[k] : k \in 0 .. m - 1}
  /\ \A k \in 0 .. m - 1 : Of(Chain(r)[k]).type = "continuous" => d = INFINITE

\* The events are those of the positions seen: all of the roots D, none of the
\* roots L.
Graph(evs, own, seen, D, L) ==
  /\ Owned(evs, own, Roots) /\ seen \in [Roots -> Nat] /\ Listing(evs, own, seen)
  /\ \A q \in D : Visited(q) = 0 .. seen[q] - 1
  /\ \A q \in L : seen[q] = 0

\* Root r has sent its first m positions by the time `at', and is silent then.
Sending(evs, own, seen, r, m, at) ==
  seen[r] = m /\ at = Reached(r, m) /\ Calm(evs, own, r, at)

\* The events b are all of root r.
Mine(b, r) == Owned(b, [k \in DOMAIN b |-> r], Roots)

\* The graph once position m of root r is added.
Grown(evs, own, seen, D, L, r, m) == Graph(evs, own, seen, D, L) /\ seen[r] = m + 1

\* The scan of one stream adds its block to the graph.
LEMMA GraphGrows ==
  ASSUME NEW evs \in Seq(Event), Paired(evs), NEW b \in Seq(Event), Paired(b), NEW r \in Roots,
         NEW m \in Nat, NEW own, NEW seen, NEW D \in SUBSET Roots, NEW L \in SUBSET Roots,
         r \notin D, r \notin L,
         Graph(evs, own, seen, D, L), seen[r] = m,
         Block(b, r, m), Mine(b, r),
         NEW at \in Int, Calm(evs, own, r, at), \A k \in DOMAIN b : at <= b[k].time
  PROVE  \E o, new : Grown(evs \o b, o, new, D, L, r, m) /\ o = JoinOwn(evs, own, b, r)
<1> DEFINE new == [q \in Roots |-> IF q = r THEN m + 1 ELSE seen[q]]
           o == JoinOwn(evs, own, b, r)
           e == evs \o b
<1>1. seen \in [Roots -> Nat] /\ Listing(evs, own, seen) /\ Owned(evs, own, Roots)
  BY DEF Graph
<1>2. new \in [Roots -> Nat] /\ new[r] = m + 1 /\ \A q \in Roots : q # r => new[q] = seen[q]
  BY <1>1
<1> HIDE DEF new
<1>3. own \in [DOMAIN evs -> Roots]
  BY <1>1 DEF Owned
<1>4. Listing(e, o, new)
  BY <1>1, <1>2, <1>3, ListingGrows
<1>5. Owned(e, o, Roots)
  BY <1>1, JoinOwned DEF Mine
<1> HIDE DEF o, e
<1>6. \A q \in D : Visited(q) = 0 .. new[q] - 1
  <2>1. \A q \in D : q \in Roots /\ q # r /\ Visited(q) = 0 .. seen[q] - 1
    BY DEF Graph
  <2> QED BY <1>2, <2>1
<1>7. \A q \in L : new[q] = 0
  <2>1. \A q \in L : q \in Roots /\ q # r /\ seen[q] = 0
    BY DEF Graph
  <2> QED BY <1>2, <2>1
<1>8. Graph(e, o, new, D, L)
  BY <1>2, <1>4, <1>5, <1>6, <1>7 DEF Graph
<1>9. Grown(e, o, new, D, L, r, m)
  BY <1>2, <1>8 DEF Grown
<1> QED BY <1>9 DEF e, o

\* Where a stream with bursts leaves the chain.
After(s, at) == IF BurstsOf(s) = 0 THEN at ELSE BurstEnd(s, at, BurstsOf(s) - 1)

\* The scan of a stream with bursts: the graph has one position more, and the chain
\* is where the stream's stay ends.
LEMMA ScanBursts ==
  ASSUME table \in Tables, NEW evs \in Seq(Event), Paired(evs), NEW r \in Roots, NEW m, Walk(r, m),
         NEW own, NEW seen, NEW D \in SUBSET Roots, NEW L \in SUBSET Roots, r \notin D, r \notin L,
         NEW at, Graph(evs, own, seen, D, L), Sending(evs, own, seen, r, m, at),
         NEW s, s = Of(Chain(r)[m]), s.type # "continuous",
         NEW b, b = BurstEvents(s, at, BurstsOf(s))
  PROVE  \E o, new : /\ Graph(evs \o b, o, new, D, L)
                     /\ Sending(evs \o b, o, new, r, m + 1, After(s, at))
<1> DEFINE n == BurstsOf(s)
           u == After(s, at)
<1>1. r \in Nat
  BY OfFacts
<1>2. m \in Nat
  BY <1>1, WalkIsShort
<1>3. /\ Reached(r, m) \in Nat /\ Reached(r, m + 1) = Reached(r, m) + Stay(Of(Chain(r)[m]))
      /\ Stay(Of(Chain(r)[m])) \in Nat
  BY <1>1, ReachedFacts
<1>4. at \in Nat /\ at = Reached(r, m) /\ Stay(s) \in Nat /\ Reached(r, m + 1) = at + Stay(s)
  BY <1>3 DEF Sending
<1>5. s \in Stream
  BY <1>1, OfFacts DEF Walk
<1>6. n \in Nat
  BY <1>5, StreamFacts
<1>7. at \in Int
  BY <1>4
<1>8. b \in Seq(Event)
  BY <1>5, <1>6, <1>7, BurstFacts
<1>9. Paired(b)
  BY <1>5, <1>6, <1>7, BurstIsPaired
<1>10. Mine(b, r)
  BY <1>5, <1>6, <1>7, BurstIsOwned DEF Mine
<1>11. \A k \in DOMAIN b : at <= b[k].time /\ b[k].time <= BurstEnd(s, at, n - 1)
  BY <1>5, <1>6, <1>7, BurstIsOwned
<1>12. Block(b, r, m)
  <2>1. Block(BurstEvents(Of(Chain(r)[m]), Reached(r, m), BurstsOf(Of(Chain(r)[m]))), r, m)
    BY <1>1, BurstsAreBlock
  <2> QED BY <1>4, <2>1
<1>13. u = at + Stay(s)
  <2>1. CASE n = 0
    BY <1>7, <2>1 DEF After, Stay
  <2>2. CASE n # 0
    BY <1>5, <1>7, <2>2, StayIsEnd DEF After
  <2> QED BY <2>1, <2>2
<1>14. \A k \in DOMAIN b : b[k].time <= u /\ (Rises(b, k) => Falls(b, k + 1))
  <2>1. DOMAIN b = 1 .. 2 * n /\ \A x \in 0 .. n - 1 : Falls(b, 2 * x + 2)
    BY <1>5, <1>6, <1>7, BurstFacts, BurstIsPaired
  <2>2. \A k \in DOMAIN b : Rises(b, k) => \E x \in 0 .. n - 1 : k = 2 * x + 1
    BY <1>5, <1>6, <1>7, BurstIsPaired
  <2>3. DOMAIN b # {} => u = BurstEnd(s, at, n - 1)
    BY <1>6, <2>1 DEF After
  <2>4. ASSUME NEW k \in DOMAIN b, Rises(b, k) PROVE Falls(b, k + 1)
    <3>1. PICK x \in 0 .. n - 1 : k = 2 * x + 1
      BY <2>2, <2>4
    <3>2. k + 1 = 2 * x + 2
      BY <3>1
    <3> QED BY <2>1, <3>2
  <2> QED BY <1>11, <2>3, <2>4
<1>15. Calm(evs, own, r, at) /\ seen[r] = m
  BY DEF Sending
<1> DEFINE o == JoinOwn(evs, own, b, r)
<1>16. u \in Int /\ at <= u
  BY <1>4, <1>13
<1>17. u = Reached(r, m + 1)
  BY <1>4, <1>13
<1> HIDE DEF u, n
<1>18. PICK new : Grown(evs \o b, o, new, D, L, r, m)
  <2>1. \A k \in DOMAIN b : at <= b[k].time
    BY <1>11
  <2> QED BY <1>2, <1>7, <1>8, <1>9, <1>10, <1>12, <1>15, <2>1, GraphGrows, SMTT(60)
<1>19. Calm(evs \o b, o, r, u)
  BY <1>7, <1>8, <1>9, <1>14, <1>15, <1>16, CalmGrows
<1>20. Sending(evs \o b, o, new, r, m + 1, u)
  BY <1>17, <1>18, <1>19 DEF Sending, Grown
<1> HIDE DEF o
<1> QED BY <1>18, <1>20 DEF u, Grown

\* The scan of a continuous stream: the graph has one position more.
LEMMA ScanContinuous ==
  ASSUME table \in Tables, NEW evs \in Seq(Event), Paired(evs), NEW r \in Roots, NEW m, Walk(r, m),
         NEW own, NEW seen, NEW D \in SUBSET Roots, NEW L \in SUBSET Roots, r \notin D, r \notin L,
         NEW at, Graph(evs, own, seen, D, L), Sending(evs, own, seen, r, m, at),
         NEW s, s = Of(Chain(r)[m]), s.type = "continuous",
         NEW b, b = <<Rise(s, at + s.isg)>>
  PROVE  \E o, new : Grown(evs \o b, o, new, D, L, r, m)
<1>1. r \in Nat
  BY OfFacts
<1>2. m \in Nat
  BY <1>1, WalkIsShort
<1>3. Reached(r, m) \in Nat
  BY <1>1, ReachedFacts
<1>4. at \in Nat /\ at = Reached(r, m)
  BY <1>3 DEF Sending
<1>5. s \in Stream
  BY <1>1, OfFacts DEF Walk
<1>6. s.isg \in Nat
  BY <1>5, StreamFacts
<1> DEFINE t == at + s.isg
<1>7. at \in Int /\ t \in Int /\ at <= t
  BY <1>4, <1>6
<1> HIDE DEF t
<1>8. b = <<Rise(s, t)>>
  BY DEF t
<1>9. b \in Seq(Event) /\ Paired(b) /\ DOMAIN b = {1} /\ b[1].time = t
  BY ONLY <1>5, <1>7, <1>8, RiseFacts, ZenonT(60)
<1>10. Mine(b, r)
  <2>1. Mine(<<Rise(s, t)>>, r)
    BY ONLY <1>5, <1>7, RiseFacts, r \in Roots DEF Mine
  <2> QED BY <1>8, <2>1
<1>11. \A k \in DOMAIN b : at <= b[k].time
  BY <1>7, <1>9
<1>12. Block(b, r, m)
  <2>1. Block(<<Rise(Of(Chain(r)[m]), Reached(r, m) + Of(Chain(r)[m]).isg)>>, r, m)
    BY <1>1, RiseIsBlock
  <2> QED BY <1>4, <2>1
<1>15. Calm(evs, own, r, at) /\ seen[r] = m
  BY DEF Sending
<1> QED BY <1>2, <1>7, <1>9, <1>10, <1>11, <1>12, <1>15, GraphGrows

\* A root whose last position is scanned.
LEMMA ScanEnds ==
  ASSUME NEW evs, NEW own, NEW seen, NEW r \in Roots, NEW m \in Nat,
         NEW D, NEW L, Graph(evs, own, seen, D, L),
         seen[r] = m + 1, Visited(r) = 0 .. m, NEW E, E \subseteq D \cup {r}
  PROVE  Graph(evs, own, seen, E, L)
<1>1. (m + 1) - 1 = m
  OBVIOUS
<1> QED BY <1>1 DEF Graph

-----------------------------------------------------------------------------
(* The inductive invariant.                                                *)

Base ==
  /\ table \in Tables
  /\ pc \in {"collect", "root", "scan", "done", "error"}
  /\ stream_id \in Nat \cup {NONE}
  /\ offset \in Int /\ offset >= -1
  /\ events \in Seq(Event) /\ Paired(events)
  /\ duration \in Int /\ max_rate \in Nat

\* Nothing is read before the first loop, and everything after it.
Begun ==
  /\ pc = "collect" => /\ hash = <<>> /\ roots = <<>> /\ loop_hash = {}
                       /\ events = <<>> /\ duration = 0
  /\ pc # "collect" => Hashed(hash) /\ Queue(roots) /\ loop_hash \subseteq Present

AtRoot ==
  /\ Lasts(duration) /\ Walked(Roots \ Ids(roots), duration)
  /\ ContinuousIsLast => \E own, seen : Graph(events, own, seen, Roots \ Ids(roots), Ids(roots))

\* The scan is at position m of root r.
ScanOf(r, m) ==
  /\ Here(r, m, stream_id, loop_hash, duration)
  /\ Walked(Roots \ (Ids(roots) \cup {r}), duration)
  /\ ContinuousIsLast =>
       \E own, seen : /\ Graph(events, own, seen, Roots \ (Ids(roots) \cup {r}), Ids(roots))
                      /\ Sending(events, own, seen, r, m, offset)

AtScan == Lasts(duration) /\ \E r \in Roots \ Ids(roots) : \E m \in Nat : ScanOf(r, m)

AtDone ==
  /\ Walked(Roots, duration) /\ max_rate = Peak(events)
  /\ events # <<>> /\ (~\E r \in Roots : Endless(r)) => duration = ToInt(LastTime(events))
  /\ ContinuousIsLast => \E own, seen : Graph(events, own, seen, Roots, {})

GraphIInv ==
  /\ Base /\ Begun
  /\ pc = "root" => AtRoot
  /\ pc = "scan" => AtScan
  /\ pc = "done" => AtDone
  /\ pc = "error" => \E r \in Roots : Broken(r)

\* What is told of the table alone stays as long as the table does.
LEMMA TableKept ==
  ASSUME UNCHANGED table
  PROVE  /\ Roots' = Roots /\ Present' = Present /\ Top' = Top /\ (ContinuousIsLast' <=> ContinuousIsLast)
         /\ \A n : Of(n)' = Of(n)
         /\ \A r : /\ Chain(r)' = Chain(r) /\ Visited(r)' = Visited(r)
                   /\ (Broken(r)' <=> Broken(r)) /\ (Endless(r)' <=> Endless(r))
         /\ \A r, m : Reached(r, m)' = Reached(r, m) /\ IntervalsAt(r, m)' = IntervalsAt(r, m)
<1>1. Roots' = Roots /\ Present' = Present
  BY DEF Roots, Present
<1>2. \A n : Of(n)' = Of(n)
  BY DEF Of
<1>3. Top' = Top
  BY <1>1 DEF Top
<1>4. \A r : Chain(r)' = Chain(r)
  BY DEF Chain, Of, Present
<1>5. \A r : Visited(r)' = Visited(r)
  BY DEF Chain, Of, Present, Visited
<1>6. \A r : (Broken(r)' <=> Broken(r)) /\ (Endless(r)' <=> Endless(r))
  BY <1>1, <1>2, <1>4, <1>5 DEF Broken, Endless, Loops
<1>7. \A r, m : Reached(r, m)' = Reached(r, m)
  BY DEF Chain, Of, Present, Reached
<1>8. \A r, m : IntervalsAt(r, m)' = IntervalsAt(r, m)
  BY DEF Chain, Of, Present, Reached, IntervalsAt
<1>9. ContinuousIsLast' <=> ContinuousIsLast
  BY DEF ContinuousIsLast
<1> QED BY <1>1, <1>2, <1>3, <1>4, <1>5, <1>6, <1>7, <1>8, <1>9

\* The parts of the invariant after a step, told with the table before it.
LEMMA PartsKept ==
  ASSUME UNCHANGED table
  PROVE  /\ Hashed(hash') => Hashed(hash)'
         /\ Queue(roots') => Queue(roots)'
         /\ Lasts(duration') => Lasts(duration)'
         /\ \A D : Walked(D, duration') => Walked(D, duration)'
         /\ \A r, m : Here(r, m, stream_id', loop_hash', duration') =>
                        Here(r, m, stream_id, loop_hash, duration)'
         /\ \A own, seen, r, m : Sending(events', own, seen, r, m, offset') =>
                                   Sending(events, own, seen, r, m, offset)'
         /\ \A own, seen, D, L : Graph(events', own, seen, D, L) => Graph(events, own, seen, D, L)'
<1>1. /\ Roots' = Roots /\ Present' = Present /\ Top' = Top
      /\ \A n : Of(n)' = Of(n)
      /\ \A r : /\ Chain(r)' = Chain(r) /\ Visited(r)' = Visited(r)
                /\ (Broken(r)' <=> Broken(r)) /\ (Endless(r)' <=> Endless(r))
      /\ \A r, m : Reached(r, m)' = Reached(r, m) /\ IntervalsAt(r, m)' = IntervalsAt(r, m)
  BY TableKept
<1>2. Hashed(hash') => Hashed(hash)'
  BY <1>1 DEF Hashed
<1>3. Queue(roots') => Queue(roots)'
  BY <1>1 DEF Queue, Ids
<1>4. Lasts(duration') => Lasts(duration)'
  BY <1>1 DEF Lasts
<1>5. \A D : Walked(D, duration') => Walked(D, duration)'
  BY <1>1 DEF Walked
<1>6. \A r, m : Path(r, m) => Path(r, m)'
  BY <1>1 DEF Path
<1>7. \A r, m : Here(r, m, stream_id', loop_hash', duration') =>
                  Here(r, m, stream_id, loop_hash, duration)'
  BY <1>1, <1>6 DEF Here
<1>8. \A own, seen, r, m : Sending(events', own, seen, r, m, offset') =>
                             Sending(events, own, seen, r, m, offset)'
  BY <1>1 DEF Sending, Calm, Falls, Rises
<1>9. \A own, seen : Listing(events', own, seen) => Listing(events, own, seen)'
  BY <1>1 DEF Listing, Shows, Falls, Rises
<1>10. \A own, R : Owned(events', own, R) => Owned(events, own, R)'
  BY DEF Owned, Falls, Rises
<1>11. \A own, seen, D, L : Graph(events', own, seen, D, L) => Graph(events, own, seen, D, L)'
  BY <1>1, <1>9, <1>10 DEF Graph
<1> QED BY <1>2, <1>3, <1>4, <1>5, <1>7, <1>8, <1>11

\* generate() starts in the invariant.
LEMMA BeginsInv ==
  ASSUME Init
  PROVE  GraphIInv
<1>1. << >> \in Seq(Event) /\ Paired(<< >>)
  BY DEF Paired
<1> QED BY <1>1 DEF Init, GraphIInv, Base, Begun

\* The invariant after a step, told with the table before it.
LEMMA RootKept ==
  ASSUME UNCHANGED table, Lasts(duration'), Walked(Roots \ Ids(roots'), duration'),
         ContinuousIsLast =>
           \E own, seen : Graph(events', own, seen, Roots \ Ids(roots'), Ids(roots'))
  PROVE  AtRoot'
<1>1. /\ Roots' = Roots /\ (ContinuousIsLast' <=> ContinuousIsLast)
      /\ \A r : Visited(r)' = Visited(r) /\ (Broken(r)' <=> Broken(r)) /\ (Endless(r)' <=> Endless(r))
  BY TableKept
<1>2. Lasts(duration)'
  BY PartsKept
<1>3. Walked(Roots \ Ids(roots), duration)'
  BY <1>1 DEF Walked, Ids
<1>4. \A own, seen : Listing(events', own, seen) => Listing(events, own, seen)'
  BY TableKept DEF Listing, Shows, Falls, Rises
<1>5. ASSUME NEW own, NEW seen, Graph(events', own, seen, Roots \ Ids(roots'), Ids(roots'))
      PROVE  Graph(events, own, seen, Roots \ Ids(roots), Ids(roots))'
  BY <1>1, <1>4, <1>5 DEF Graph, Ids
<1>6. ContinuousIsLast' =>
        \E own, seen : Graph(events, own, seen, Roots \ Ids(roots), Ids(roots))'
  BY <1>1, <1>5
<1> QED BY <1>2, <1>3, <1>6 DEF AtRoot

\* The same during a scan.
LEMMA ScanKept ==
  ASSUME UNCHANGED table, Lasts(duration'), NEW r \in Roots \ Ids(roots'), NEW m \in Nat,
         Here(r, m, stream_id', loop_hash', duration'),
         Walked(Roots \ (Ids(roots') \cup {r}), duration'),
         ContinuousIsLast =>
           \E own, seen : /\ Graph(events', own, seen, Roots \ (Ids(roots') \cup {r}), Ids(roots'))
                          /\ Sending(events', own, seen, r, m, offset')
  PROVE  AtScan'
<1>1. /\ Roots' = Roots /\ (ContinuousIsLast' <=> ContinuousIsLast)
      /\ \A q : Visited(q)' = Visited(q) /\ (Broken(q)' <=> Broken(q)) /\ (Endless(q)' <=> Endless(q))
  BY TableKept
<1>2. Lasts(duration)'
  BY PartsKept
<1>3. Walked(Roots \ (Ids(roots) \cup {r}), duration)'
  BY <1>1 DEF Walked, Ids
<1>4. \A own, seen : Listing(events', own, seen) => Listing(events, own, seen)'
  BY TableKept DEF Listing, Shows, Falls, Rises
<1>5. ASSUME NEW own, NEW seen, Graph(events', own, seen, Roots \ (Ids(roots') \cup {r}), Ids(roots'))
      PROVE  Graph(events, own, seen, Roots \ (Ids(roots) \cup {r}), Ids(roots))'
  BY <1>1, <1>4, <1>5 DEF Graph, Ids
<1>6. \A own, seen : Sending(events', own, seen, r, m, offset') =>
                       Sending(events, own, seen, r, m, offset)'
  BY PartsKept
<1>7. ContinuousIsLast' =>
        \E own, seen : /\ Graph(events, own, seen, Roots \ (Ids(roots) \cup {r}), Ids(roots))'
                       /\ Sending(events, own, seen, r, m, offset)'
  BY <1>1, <1>5, <1>6
<1>8. Here(r, m, stream_id, loop_hash, duration)'
  BY PartsKept
<1>9. ScanOf(r, m)'
  BY <1>3, <1>7, <1>8 DEF ScanOf
<1>10. r \in (Roots \ Ids(roots))'
  BY <1>1 DEF Ids
<1> QED BY <1>2, <1>9, <1>10 DEF AtScan

\* The first loop keeps the invariant.
LEMMA CollectInv ==
  ASSUME GraphIInv, collect
  PROVE  GraphIInv'
<1>1. table \in Tables /\ UNCHANGED <<table, stream_id, offset, loop_hash, events, duration, max_rate>>
  BY DEF GraphIInv, Base, collect
<1>2. pc = "collect" /\ pc' = "root" /\ roots' = RootStreams(table)
  BY DEF collect
<1>3. events = << >> /\ duration = 0 /\ loop_hash = {}
  BY <1>2 DEF GraphIInv, Begun
<1>4. Queue(roots') /\ Ids(roots') = Roots
  BY <1>1, <1>2, RootStreamsAre DEF Queue, Ids
<1>5. Hashed(hash')
  <2> DEFINE K(n) == {k \in Kept(table) : table[k].id = n}
  <2>1. hash' = [n \in {table[k].id : k \in Kept(table)} |-> table[Max(K(n))]]
    BY DEF collect
  <2>2. DOMAIN hash' = Present
    BY <2>1 DEF Kept, Present
  <2>3. ASSUME NEW n \in Present PROVE hash'[n] = Of(n)
    <3>1. PICK k \in DOMAIN table : table[k].enabled /\ table[k].id = n
      BY DEF Present
    <3>2. K(n) = {k}
      BY <1>1, <3>1, TableFacts DEF Kept
    <3>3. Max({k}) = k
      <4>1. k \in Int
        BY <1>1, TableFacts
      <4> QED BY <4>1, MaxIs
    <3>4. n \in {table[x].id : x \in Kept(table)}
      BY <3>1 DEF Kept
    <3>5. hash'[n] = table[Max(K(n))]
      BY <2>1, <3>4
    <3>6. table[k] = Of(n)
      BY <1>1, <3>1, OfFacts
    <3> QED BY <3>2, <3>3, <3>5, <3>6
  <2> QED BY <2>2, <2>3 DEF Hashed
<1>6. Lasts(duration')
  BY <1>1, <1>3 DEF Lasts, INFINITE
<1>7. Walked(Roots \ Ids(roots'), duration')
  BY <1>4 DEF Walked
<1>8. ContinuousIsLast =>
        \E own, seen : Graph(events', own, seen, Roots \ Ids(roots'), Ids(roots'))
  <2> DEFINE seen == [q \in Roots |-> 0]
             own == [j \in DOMAIN events' |-> 0]
  <2>1. seen \in [Roots -> Nat] /\ \A q \in Roots : seen[q] = 0
    OBVIOUS
  <2>2. DOMAIN events' = {}
    BY <1>1, <1>3
  <2>3. own \in [DOMAIN events' -> Roots]
    BY <2>2
  <2> HIDE DEF own, seen
  <2>4. Owned(events', own, Roots)
    BY <2>2, <2>3 DEF Owned
  <2>5. Listing(events', own, seen)
    BY <2>1, <2>2 DEF Listing
  <2>6. Roots \ Ids(roots') = {}
    BY <1>4
  <2>7. Graph(events', own, seen, Roots \ Ids(roots'), Ids(roots'))
    BY <1>4, <2>1, <2>4, <2>5, <2>6 DEF Graph
  <2> QED BY <2>7
<1>9. AtRoot'
  BY <1>1, <1>6, <1>7, <1>8, RootKept
<1>10. Begun'
  <2>1. Hashed(hash)' /\ Queue(roots)'
    BY <1>1, <1>4, <1>5, PartsKept
  <2> QED BY <1>1, <1>2, <1>3, <2>1 DEF Begun
<1>11. Base'
  BY <1>1, <1>2 DEF GraphIInv, Base
<1> QED BY <1>2, <1>9, <1>10, <1>11 DEF GraphIInv

\* The start of a chain keeps the invariant.
LEMMA NextRootInv ==
  ASSUME GraphIInv, next_root
  PROVE  GraphIInv'
<1> DEFINE r == Head(roots)
<1>1. table \in Tables /\ UNCHANGED <<table, hash, events, duration, max_rate>>
  BY DEF GraphIInv, Base, next_root
<1>2. /\ pc = "root" /\ pc' = "scan" /\ roots # << >> /\ stream_id' = r /\ roots' = Tail(roots)
      /\ offset' = 0 /\ loop_hash' = {}
  BY DEF next_root
<1>3. Hashed(hash) /\ Queue(roots) /\ AtRoot /\ events \in Seq(Event) /\ Paired(events)
  BY <1>2 DEF GraphIInv, Begun, Base
<1>4. /\ r \in Roots /\ r \notin Ids(roots') /\ Ids(roots) = Ids(roots') \cup {r}
      /\ Queue(roots')
  <2> DEFINE q == roots
             n == Len(q)
             u == Tail(q)
  <2>1. q \in Seq(Present) /\ q # << >>
    BY <1>2, <1>3 DEF Queue
  <2>2. /\ n \in Nat /\ n >= 1 /\ DOMAIN q = 1 .. n /\ r = q[1]
        /\ u \in Seq(Present) /\ DOMAIN u = 1 .. (n - 1) /\ \A x \in 1 .. (n - 1) : u[x] = q[x + 1]
    BY <2>1
  <2>3. \A x, y \in DOMAIN q : q[x] = q[y] => x = y
    BY <1>3 DEF Queue
  <2>4. Ids(q) \subseteq Roots
    BY <1>3 DEF Queue
  <2> HIDE DEF n, u, r
  <2>5. r \in Ids(q)
    BY <2>2 DEF Ids
  <2>6. r \notin Ids(u)
    <3> SUFFICES ASSUME NEW x \in 1 .. (n - 1), u[x] = r PROVE FALSE
      BY <2>2 DEF Ids
    <3>1. 1 \in DOMAIN q /\ x + 1 \in DOMAIN q /\ x + 1 # 1
      BY <2>2
    <3> QED BY <2>2, <2>3, <3>1
  <2>7. Ids(u) \subseteq Ids(q)
    <3> SUFFICES ASSUME NEW x \in 1 .. (n - 1) PROVE u[x] \in Ids(q)
      BY <2>2 DEF Ids
    <3>1. x + 1 \in DOMAIN q /\ u[x] = q[x + 1]
      BY <2>2
    <3> QED BY <3>1 DEF Ids
  <2>8. Ids(q) \subseteq Ids(u) \cup {r}
    <3> SUFFICES ASSUME NEW x \in 1 .. n PROVE q[x] \in Ids(u) \cup {r}
      BY <2>2 DEF Ids
    <3>1. CASE x = 1
      BY <2>2, <3>1
    <3>2. CASE x # 1
      <4>1. x - 1 \in DOMAIN u /\ u[x - 1] = q[(x - 1) + 1] /\ (x - 1) + 1 = x
        BY <2>2, <3>2
      <4> QED BY <4>1 DEF Ids
    <3> QED BY <3>1, <3>2
  <2>9. \A x, y \in DOMAIN u : u[x] = u[y] => x = y
    <3> SUFFICES ASSUME NEW x \in 1 .. (n - 1), NEW y \in 1 .. (n - 1), u[x] = u[y] PROVE x = y
      BY <2>2
    <3>1. x + 1 \in DOMAIN q /\ y + 1 \in DOMAIN q /\ q[x + 1] = q[y + 1]
      BY <2>2
    <3>2. x + 1 = y + 1
      BY <2>3, <3>1
    <3> QED BY <3>2
  <2>10. Queue(u)
    BY <2>2, <2>4, <2>7, <2>9 DEF Queue
  <2>11. roots' = u
    BY <1>2 DEF u
  <2> QED BY <2>4, <2>5, <2>6, <2>7, <2>8, <2>10, <2>11
<1> HIDE DEF r
<1>5. r \in Present /\ r \in Nat /\ NONE \notin Present
  BY <1>1, <1>4, OfFacts
<1>6. Chain(r)[0] = r /\ Top \in Nat
  BY <1>1, <1>5, ChainIs, PresentFinite DEF Top
<1>7. Walk(r, 0)
  BY <1>5, <1>6 DEF Walk, Path
<1>8. Here(r, 0, stream_id', loop_hash', duration')
  <2>1. 0 .. 0 - 1 = {}
    OBVIOUS
  <2> QED BY <1>2, <1>5, <1>6, <1>7, <2>1 DEF Here, Walk
<1>9. Lasts(duration')
  BY <1>1, <1>3 DEF AtRoot
<1>10. Roots \ (Ids(roots') \cup {r}) = Roots \ Ids(roots)
  BY <1>4
<1>11. Walked(Roots \ (Ids(roots') \cup {r}), duration')
  BY <1>1, <1>3, <1>10 DEF AtRoot
<1>12. ASSUME ContinuousIsLast
       PROVE  \E own, seen : /\ Graph(events', own, seen, Roots \ (Ids(roots') \cup {r}), Ids(roots'))
                             /\ Sending(events', own, seen, r, 0, offset')
  <2>1. PICK own, seen : Graph(events, own, seen, Roots \ Ids(roots), Ids(roots))
    BY <1>3, <1>12 DEF AtRoot
  <2>2. Graph(events', own, seen, Roots \ (Ids(roots') \cup {r}), Ids(roots'))
    BY <1>1, <1>4, <1>10, <2>1 DEF Graph
  <2>3. seen[r] = 0
    BY <1>4, <2>1 DEF Graph
  <2>4. Reached(r, 0) = 0
    BY <1>1, <1>5, <1>7, ReachedFacts
  <2>5. Calm(events, own, r, 0)
    <3>1. Owned(events, own, Roots) /\ seen \in [Roots -> Nat] /\ Listing(events, own, seen)
      BY <2>1 DEF Graph
    <3> QED BY <1>3, <1>4, <2>3, <3>1, FreshIsCalm
  <2>6. Sending(events', own, seen, r, 0, offset')
    BY <1>1, <1>2, <2>3, <2>4, <2>5 DEF Sending
  <2> QED BY <2>2, <2>6
<1>13. AtScan'
  <2>1. r \in Roots \ Ids(roots') /\ 0 \in Nat
    BY <1>4
  <2> QED BY <1>1, <1>8, <1>9, <1>11, <1>12, <2>1, ScanKept
<1>14. Begun'
  <2>1. Hashed(hash)' /\ Queue(roots)'
    BY <1>1, <1>3, <1>4, PartsKept
  <2> QED BY <1>2, <2>1 DEF Begun
<1>15. Base'
  BY <1>1, <1>2, <1>5 DEF GraphIInv, Base
<1> QED BY <1>2, <1>13, <1>14, <1>15 DEF GraphIInv

\* What one turn of the loop does to the events and the time.
LEMMA StreamAdds ==
  ASSUME GraphIInv, NEW s \in Stream, add_rate_events_for_stream(s)
  PROVE  /\ events' \in Seq(Event) /\ Paired(events')
         /\ offset' \in Int /\ offset' >= -1
         /\ s.type # "continuous" => /\ events' = events \o BurstEvents(s, offset, BurstsOf(s))
                                     /\ offset' = After(s, offset)
         /\ s.type = "continuous" => events' = events \o <<Rise(s, offset + s.isg)>>
<1>1. offset \in Int /\ offset >= -1 /\ events \in Seq(Event) /\ Paired(events)
  BY DEF GraphIInv, Base
<1>2. BurstsOf(s) \in Nat /\ s.isg \in Nat
  BY StreamFacts
<1>3. CASE s.type = "continuous"
  <2> DEFINE t == offset + s.isg
             b == <<Rise(s, t)>>
  <2>1. events' = Append(events, Rise(s, t)) /\ offset' = -1
    BY <1>3 DEF add_rate_events_for_stream
  <2>2. t \in Int
    BY <1>1, <1>2
  <2> HIDE DEF t
  <2>3. b \in Seq(Event) /\ Paired(b)
    BY <2>2, RiseFacts
  <2>4. Rise(s, t) \in Event
    BY <2>2, StreamFacts DEF Rise, Event
  <2>5. events' = events \o b
    BY <1>1, <2>1, <2>4
  <2> HIDE DEF b
  <2>6. events \o b \in Seq(Event) /\ Paired(events \o b)
    BY <1>1, <2>3, JoinFacts, JoinPaired
  <2>7. events' = events \o <<Rise(s, offset + s.isg)>>
    BY <2>5 DEF b, t
  <2>8. events' \in Seq(Event) /\ Paired(events')
    BY <2>5, <2>6
  <2> QED BY <1>3, <2>1, <2>7, <2>8
<1>4. CASE s.type # "continuous"
  <2> DEFINE n == BurstsOf(s)
             b == BurstEvents(s, offset, n)
  <2>1. events' = events \o b /\ offset' = After(s, offset)
    BY <1>4 DEF add_rate_events_for_stream, After
  <2>2. b \in Seq(Event)
    BY <1>1, <1>2, BurstFacts
  <2>3. Paired(b)
    BY <1>1, <1>2, BurstIsPaired
  <2>4. After(s, offset) \in Int /\ After(s, offset) >= -1
    <3>1. CASE n = 0
      BY <1>1, <3>1 DEF After
    <3>2. CASE n # 0
      <4>1. n - 1 \in Nat
        BY <1>2, <3>2
      <4> DEFINE x == n - 1
                 be == BurstEnd(s, offset, x)
                 bs == BurstStart(s, offset, x)
      <4>2. bs \in Int /\ be \in Int /\ offset <= bs /\ bs <= be
        BY <1>1, <4>1, BurstTimes
      <4>3. After(s, offset) = be
        BY <3>2 DEF After
      <4> HIDE DEF bs, be
      <4> QED BY <1>1, <4>2, <4>3
    <3> QED BY <3>1, <3>2
  <2> HIDE DEF b
  <2>5. events \o b \in Seq(Event) /\ Paired(events \o b)
    BY <1>1, <2>2, <2>3, JoinFacts, JoinPaired
  <2> QED BY <1>4, <2>1, <2>4, <2>5 DEF b
<1> QED BY <1>3, <1>4

\* A turn of generate_graph_for_one_root keeps the invariant: the chain breaks, ends,
\* closes on itself or goes on.
LEMMA ScanInv ==
  ASSUME GraphIInv, generate_graph_for_one_root
  PROVE  GraphIInv'
<1>1. table \in Tables /\ UNCHANGED <<table, hash, roots, max_rate>> /\ pc = "scan"
  BY DEF GraphIInv, Base, generate_graph_for_one_root
<1>2. Hashed(hash) /\ Queue(roots) /\ AtScan /\ loop_hash \subseteq Present /\ Lasts(duration)
  BY <1>1 DEF GraphIInv, Begun, AtScan
<1>3. PICK r \in Roots \ Ids(roots), m \in Nat : ScanOf(r, m)
  BY <1>2 DEF AtScan
<1>4. Here(r, m, stream_id, loop_hash, duration)
  BY <1>3 DEF ScanOf
<1>5. r \in Nat /\ r \in Roots
  BY <1>1, <1>3, OfFacts
<1>6. /\ Roots' = Roots /\ Present' = Present
      /\ \A q : Broken(q)' <=> Broken(q)
  BY <1>1, TableKept
<1>7. Hashed(hash)' /\ Queue(roots)'
  BY <1>1, <1>2, PartsKept
<1>8. CASE stream_id \notin DOMAIN hash
  <2>1. pc' = "error" /\ UNCHANGED <<stream_id, offset, loop_hash, events, duration>>
    BY <1>8 DEF generate_graph_for_one_root
  <2>2. Chain(r)[m] \in Nat \ Present /\ Path(r, m)
    BY <1>2, <1>4, <1>8 DEF Here, Hashed
  <2>3. Broken(r)
    BY <1>1, <1>5, <2>2, ChainBreaks
  <2>4. Base'
    BY <1>1, <2>1 DEF GraphIInv, Base
  <2>5. Begun'
    BY <1>2, <1>6, <1>7, <2>1 DEF Begun
  <2> QED BY <1>5, <1>6, <2>1, <2>3, <2>4, <2>5 DEF GraphIInv
<1>9. CASE stream_id \in DOMAIN hash
  <2> DEFINE s == hash[stream_id]
             seen == loop_hash \cup {stream_id}
             loops == s.next # NONE /\ ClosesLoop(s.next, seen)
             ends == s.next = NONE \/ loops
             D == Roots \ (Ids(roots) \cup {r})
  <2>1. /\ loop_hash' = seen
        /\ add_rate_events_for_stream(s)
        /\ duration' = IF s.type = "continuous" \/ loops THEN INFINITE ELSE duration
        /\ pc' = IF ends THEN "root" ELSE "scan"
        /\ stream_id' = IF ends THEN stream_id ELSE s.next
    BY <1>9 DEF generate_graph_for_one_root
  <2>2. Walk(r, m) /\ stream_id \in Present /\ stream_id = Chain(r)[m]
    BY <1>2, <1>4, <1>9 DEF Walk, Here, Hashed
  <2>3. s = Of(Chain(r)[m]) /\ s \in Stream
    BY <1>1, <1>2, <2>2, OfFacts DEF Hashed
  <2>4. s.next \in Nat \cup {NONE}
    BY <2>3, StreamFacts
  <2>5. seen = {Chain(r)[k] : k \in 0 .. m}
    <3>1. 0 .. m = (0 .. m - 1) \cup {m}
      OBVIOUS
    <3> QED BY <1>4, <2>2, <3>1 DEF Here
  <2>6. seen \subseteq Present /\ NONE \notin Present
    BY <1>1, <1>2, <2>2, OfFacts
  <2>7. loops <=> \E k \in 0 .. m : Of(Chain(r)[m]).next = Chain(r)[k]
    BY <2>3, <2>5, <2>6 DEF ClosesLoop
  <2>8. /\ events' \in Seq(Event) /\ Paired(events') /\ offset' \in Int /\ offset' >= -1
        /\ s.type # "continuous" => /\ events' = events \o BurstEvents(s, offset, BurstsOf(s))
                                    /\ offset' = After(s, offset)
        /\ s.type = "continuous" => events' = events \o <<Rise(s, offset + s.isg)>>
    BY <2>1, <2>3, StreamAdds
  <2> HIDE DEF s
  <2>9. Lasts(duration')
    <3>1. CASE s.type = "continuous"
      <4>1. m \in Visited(r)
        BY <1>1, <1>5, <2>2, WalkIsVisited
      <4>2. Endless(r)
        BY <2>3, <3>1, <4>1 DEF Endless, Loops
      <4> QED BY <1>5, <2>1, <3>1, <4>2 DEF Lasts
    <3>2. CASE loops
      <4>1. Endless(r)
        BY <1>1, <1>5, <2>2, <2>7, <3>2, ChainLoops
      <4> QED BY <1>5, <2>1, <3>2, <4>1 DEF Lasts
    <3>3. CASE ~(s.type = "continuous" \/ loops)
      BY <1>2, <2>1, <3>3
    <3> QED BY <3>1, <3>2, <3>3
  <2>10. duration = INFINITE => duration' = INFINITE
    BY <2>1
  <2>11. Walked(D, duration')
    BY <1>3, <2>10 DEF ScanOf, Walked
  <2>12. ASSUME NEW k \in 0 .. m, Of(Chain(r)[k]).type = "continuous" PROVE duration' = INFINITE
    <3>1. CASE k = m
      BY <2>1, <2>3, <2>12, <3>1
    <3>2. CASE k # m
      <4>1. k \in 0 .. m - 1
        BY <3>2
      <4> QED BY <1>4, <2>10, <2>12, <4>1 DEF Here
    <3> QED BY <3>1, <3>2
  <2>13. ASSUME ContinuousIsLast
         PROVE  \E o, new :
                  /\ Grown(events', o, new, D, Ids(roots), r, m)
                  /\ s.type # "continuous" => Sending(events', o, new, r, m + 1, offset')
    <3>1. PICK own, vis : /\ Graph(events, own, vis, D, Ids(roots))
                          /\ Sending(events, own, vis, r, m, offset)
      BY <1>3, <2>13 DEF ScanOf
    <3>2. events \in Seq(Event) /\ Paired(events)
      BY DEF GraphIInv, Base
    <3>3. D \in SUBSET Roots /\ r \notin D /\ r \notin Ids(roots) /\ Ids(roots) \in SUBSET Roots
      BY <1>2, <1>3 DEF Queue
    <3> HIDE DEF D
    <3>4. CASE s.type = "continuous"
      <4> DEFINE b == <<Rise(s, offset + s.isg)>>
      <4>1. events' = events \o b
        BY <2>8, <3>4
      <4>2. b = <<Rise(s, offset + s.isg)>>
        OBVIOUS
      <4> HIDE DEF b
      <4>3. \E o, new : Grown(events \o b, o, new, D, Ids(roots), r, m)
        BY <1>1, <1>5, <2>2, <2>3, <3>1, <3>2, <3>3, <3>4, <4>2, ScanContinuous
      <4> QED BY <3>4, <4>1, <4>3
    <3>5. CASE s.type # "continuous"
      <4> DEFINE b == BurstEvents(s, offset, BurstsOf(s))
      <4>1. events' = events \o b /\ offset' = After(s, offset)
        BY <2>8, <3>5
      <4>2. b = BurstEvents(s, offset, BurstsOf(s))
        OBVIOUS
      <4> HIDE DEF b
      <4>3. PICK o, new : /\ Graph(events \o b, o, new, D, Ids(roots))
                          /\ Sending(events \o b, o, new, r, m + 1, After(s, offset))
        BY <1>1, <1>5, <2>2, <2>3, <3>1, <3>2, <3>3, <3>5, <4>2, ScanBursts
      <4>4. new[r] = m + 1
        BY <4>3 DEF Sending
      <4> QED BY <4>1, <4>3, <4>4 DEF Grown
    <3> QED BY <3>4, <3>5
  <2>14. Base'
    <3>1. stream_id' \in Nat \cup {NONE}
      BY <2>1, <2>4 DEF GraphIInv, Base
    <3>2. duration' \in Int /\ pc' \in {"root", "scan"}
      BY <2>1 DEF GraphIInv, Base, INFINITE
    <3> QED BY <1>1, <2>8, <3>1, <3>2 DEF GraphIInv, Base
  <2>15. Begun'
    BY <1>6, <1>7, <2>1, <2>6 DEF Begun
  <2>16. CASE ends
    <3>1. /\ Visited(r) = 0 .. m /\ ~Broken(r)
          /\ Endless(r) => duration' = INFINITE
      <4>1. CASE s.next = NONE
        <5>1. /\ Visited(r) = 0 .. m /\ ~Broken(r)
              /\ Endless(r) => \E k \in 0 .. m : Of(Chain(r)[k]).type = "continuous"
          BY <1>1, <1>5, <2>2, <2>3, <4>1, ChainEnds
        <5> QED BY <2>12, <5>1
      <4>2. CASE loops
        <5>1. Visited(r) = 0 .. m /\ ~Broken(r)
          BY <1>1, <1>5, <2>2, <2>7, <4>2, ChainLoops
        <5> QED BY <2>1, <4>2, <5>1
      <4> QED BY <2>16, <4>1, <4>2
    <3>2. Roots \ Ids(roots') \subseteq D \cup {r}
      BY <1>1
    <3>3. Walked(Roots \ Ids(roots'), duration')
      BY <2>11, <3>1, <3>2 DEF Walked
    <3>4. ASSUME ContinuousIsLast
          PROVE  \E own, vis : Graph(events', own, vis, Roots \ Ids(roots'), Ids(roots'))
      <4>1. PICK o, new : Grown(events', o, new, D, Ids(roots), r, m)
        BY <2>13, <3>4
      <4>2. Graph(events', o, new, D, Ids(roots)) /\ new[r] = m + 1
        BY <4>1 DEF Grown
      <4>3. Graph(events', o, new, Roots \ Ids(roots'), Ids(roots))
        BY <1>5, <3>1, <3>2, <4>2, ScanEnds
      <4> QED BY <1>1, <4>3
    <3>5. AtRoot'
      BY <1>1, <2>9, <3>3, <3>4, RootKept
    <3>6. pc' = "root"
      BY <2>1, <2>16
    <3> QED BY <2>14, <2>15, <3>5, <3>6 DEF GraphIInv
  <2>17. CASE ~ends
    <3>1. pc' = "scan" /\ stream_id' = s.next /\ s.next \in Nat /\ ~loops
      BY <2>1, <2>4, <2>17
    <3>2. Path(r, m + 1)
      BY <1>1, <1>5, <2>2, <2>7, <3>1, ChainGoesOn
    <3>3. Chain(r)[m + 1] = s.next
      BY <1>1, <1>5, <2>2, <2>3, ChainStep
    <3>4. Here(r, m + 1, stream_id', loop_hash', duration')
      <4>1. (m + 1) - 1 = m
        OBVIOUS
      <4> QED BY <2>1, <2>5, <2>12, <3>1, <3>2, <3>3, <4>1 DEF Here
    <3>5. ASSUME ContinuousIsLast
          PROVE  \E own, vis : /\ Graph(events', own, vis, D, Ids(roots))
                               /\ Sending(events', own, vis, r, m + 1, offset')
      <4>1. s.type # "continuous"
        <5>1. \E k \in DOMAIN table : table[k] = s
          BY <1>1, <2>2, <2>3, OfFacts
        <5>2. s.enabled
          BY <1>1, <2>2, <2>3, OfFacts
        <5>3. s.next # NONE
          BY <2>17
        <5> QED BY <3>5, <5>1, <5>2, <5>3 DEF ContinuousIsLast
      <4> QED BY <2>13, <3>5, <4>1 DEF Grown
    <3>6. m + 1 \in Nat /\ r \in Roots \ Ids(roots') /\ D = Roots \ (Ids(roots') \cup {r})
      BY <1>1, <1>3
    <3>7. Ids(roots') = Ids(roots)
      BY <1>1
    <3> HIDE DEF D
    <3>8. AtScan'
      BY <1>1, <2>9, <2>11, <3>4, <3>5, <3>6, <3>7, ScanKept
    <3> QED BY <2>14, <2>15, <3>1, <3>8 DEF GraphIInv
  <2> QED BY <2>16, <2>17
<1> QED BY <1>8, <1>9

\* The sort and the sum keep the invariant.
LEMMA FindMaxRateInv ==
  ASSUME GraphIInv, find_max_rate
  PROVE  GraphIInv'
<1>1. /\ table \in Tables /\ pc = "root" /\ roots = << >> /\ pc' = "done"
      /\ UNCHANGED <<table, hash, roots, stream_id, offset, loop_hash, events>>
  BY DEF GraphIInv, Base, find_max_rate
<1>2. Hashed(hash) /\ Queue(roots) /\ AtRoot /\ loop_hash \subseteq Present
  BY <1>1 DEF GraphIInv, Begun
<1>3. events \in Seq(Event) /\ Paired(events) /\ duration \in Int
  BY DEF GraphIInv, Base
<1>4. Ids(roots) = {} /\ Roots \ Ids(roots) = Roots
  BY <1>1 DEF Ids
<1>5. /\ Roots' = Roots /\ Present' = Present /\ (ContinuousIsLast' <=> ContinuousIsLast)
      /\ \A q : Visited(q)' = Visited(q) /\ (Broken(q)' <=> Broken(q)) /\ (Endless(q)' <=> Endless(q))
  BY <1>1, TableKept
<1>6. Peak(events) \in Nat
  BY <1>3, PeakFacts
<1>7. max_rate' = Peak(events)
  BY DEF find_max_rate, Peak
<1>8. Walked(Roots, duration) /\ Lasts(duration)
  BY <1>2, <1>4 DEF AtRoot
<1>9. \/ duration = INFINITE /\ duration' = duration
      \/ duration # INFINITE /\ events # << >> /\ duration' = ToInt(LastTime(events))
      \/ duration # INFINITE /\ events = << >> /\ duration' \in Garbage
  BY DEF find_max_rate
<1>10. duration' \in Int
  <2>1. CASE duration = INFINITE
    BY <1>3, <1>9, <2>1
  <2>2. CASE duration # INFINITE /\ events = << >>
    BY <1>9, <2>2, GarbageAssumption
  <2>3. CASE duration # INFINITE /\ events # << >>
    <3>1. LastTime(events) \in Int
      BY <1>3, <2>3, LastTimeIs
    <3>2. ToInt(LastTime(events)) \in Int
      BY <3>1, WidthAssumption DEF ToInt
    <3> QED BY <1>9, <2>3, <3>2
  <2> QED BY <2>1, <2>2, <2>3
<1>11. Walked(Roots, duration')
  <2>1. \A q \in Roots : Endless(q) => duration = INFINITE
    BY <1>8 DEF Walked
  <2>2. duration = INFINITE => duration' = INFINITE
    BY <1>9
  <2> QED BY <1>8, <2>2 DEF Walked
<1>12. events # << >> /\ (~\E r \in Roots : Endless(r)) => duration' = ToInt(LastTime(events))
  BY <1>8, <1>9 DEF Lasts
<1>13. AtDone'
  <2>1. Walked(Roots, duration)'
    BY <1>5, <1>11 DEF Walked
  <2>2. (max_rate = Peak(events))'
    <3>1. Peak(events)' = Peak(events)
      BY <1>1 DEF Peak, RateAfter, NotAfter
    <3> QED BY <1>7, <3>1
  <2>3. ToInt(LastTime(events))' = ToInt(LastTime(events))
    BY <1>1 DEF LastTime, ToInt
  <2>4. (events # << >> /\ (~\E r \in Roots : Endless(r)) => duration = ToInt(LastTime(events)))'
    BY <1>1, <1>5, <1>12, <2>3
  <2>5. ASSUME ContinuousIsLast'
        PROVE  \E own, seen : Graph(events, own, seen, Roots, {})'
    <3>1. ContinuousIsLast
      BY <1>5, <2>5
    <3>2. PICK own, seen : Graph(events, own, seen, Roots \ Ids(roots), Ids(roots))
      BY <1>2, <3>1 DEF AtRoot
    <3>3. Graph(events', own, seen, Roots, {})
      BY <1>1, <1>4, <3>2
    <3>4. \A x, y : Listing(events', x, y) => Listing(events, x, y)'
      BY <1>1, TableKept DEF Listing, Shows, Falls, Rises
    <3>5. Graph(events, own, seen, Roots, {})'
      BY <1>5, <3>3, <3>4 DEF Graph
    <3> QED BY <3>5
  <2> QED BY <2>1, <2>2, <2>4, <2>5 DEF AtDone
<1>14. Begun'
  <2>1. Hashed(hash)' /\ Queue(roots)'
    BY <1>1, <1>2, PartsKept
  <2> QED BY <1>1, <1>2, <1>5, <2>1 DEF Begun
<1>15. Base'
  BY <1>1, <1>6, <1>7, <1>10 DEF GraphIInv, Base
<1> QED BY <1>1, <1>13, <1>14, <1>15 DEF GraphIInv

\* A step that changes nothing keeps the invariant.
LEMMA StutterInv ==
  ASSUME GraphIInv, UNCHANGED vars
  PROVE  GraphIInv'
<1>1. UNCHANGED <<table, pc, hash, roots, stream_id, offset, loop_hash, events, duration, max_rate>>
  BY DEF vars
<1>2. /\ Roots' = Roots /\ Present' = Present /\ (ContinuousIsLast' <=> ContinuousIsLast)
      /\ \A q : Visited(q)' = Visited(q) /\ (Broken(q)' <=> Broken(q)) /\ (Endless(q)' <=> Endless(q))
  BY <1>1, TableKept
<1>3. Base'
  BY <1>1 DEF GraphIInv, Base
<1>4. Begun'
  <2>1. pc # "collect" => Hashed(hash)' /\ Queue(roots)'
    BY <1>1, PartsKept DEF GraphIInv, Begun
  <2> QED BY <1>1, <1>2, <2>1 DEF GraphIInv, Begun
<1>5. pc = "root" => AtRoot'
  BY <1>1, RootKept DEF GraphIInv, AtRoot
<1>6. ASSUME pc = "scan" PROVE AtScan'
  <2>1. Lasts(duration) /\ \E r \in Roots \ Ids(roots) : \E m \in Nat : ScanOf(r, m)
    BY <1>6 DEF GraphIInv, AtScan
  <2>2. PICK r \in Roots \ Ids(roots), m \in Nat : ScanOf(r, m)
    BY <2>1
  <2> QED BY <1>1, <2>1, <2>2, ScanKept DEF ScanOf
<1>7. ASSUME pc = "done" PROVE AtDone'
  <2>0. AtDone
    BY <1>7 DEF GraphIInv
  <2>1. Walked(Roots, duration)'
    BY <1>1, <1>2, <2>0 DEF Walked, AtDone
  <2>2. Peak(events)' = Peak(events)
    BY <1>1 DEF Peak, RateAfter, NotAfter
  <2>3. ToInt(LastTime(events))' = ToInt(LastTime(events))
    BY <1>1 DEF LastTime, ToInt
  <2>4. (events # << >> /\ (~\E r \in Roots : Endless(r)) => duration = ToInt(LastTime(events)))'
    BY <1>1, <1>2, <2>0, <2>3 DEF AtDone
  <2>5. \A x, y : Listing(events', x, y) => Listing(events, x, y)'
    BY <1>1, TableKept DEF Listing, Shows, Falls, Rises
  <2>6. ASSUME NEW own, NEW seen, Graph(events', own, seen, Roots, {})
        PROVE  Graph(events, own, seen, Roots, {})'
    BY <1>2, <2>5, <2>6 DEF Graph
  <2>7. ContinuousIsLast' => \E own, seen : Graph(events, own, seen, Roots, {})'
    BY <1>1, <1>2, <2>0, <2>6 DEF AtDone
  <2>8. (max_rate = Peak(events))'
    BY <1>1, <2>0, <2>2 DEF AtDone
  <2> QED BY <2>1, <2>4, <2>7, <2>8 DEF AtDone
<1>8. pc = "error" => (\E r \in Roots : Broken(r))'
  BY <1>2 DEF GraphIInv
<1> QED BY <1>1, <1>3, <1>4, <1>5, <1>6, <1>7, <1>8 DEF GraphIInv

\* Every step keeps the invariant.
LEMMA GraphIsInv ==
  ASSUME GraphIInv, [Next]_vars
  PROVE  GraphIInv'
<1>1. CASE collect
  BY <1>1, CollectInv
<1>2. CASE next_root
  BY <1>2, NextRootInv
<1>3. CASE generate_graph_for_one_root
  BY <1>3, ScanInv
<1>4. CASE find_max_rate
  BY <1>4, FindMaxRateInv
<1>5. CASE UNCHANGED vars
  BY <1>5, StutterInv
<1> QED BY <1>1, <1>2, <1>3, <1>4, <1>5 DEF Next, Step, Stopped

\* What the inductive invariant is for.
LEMMA InvGivesGraphInv ==
  ASSUME GraphIInv
  PROVE  GraphInv
<1>1. /\ table \in Tables /\ stream_id \in Nat \cup {NONE} /\ offset \in Int /\ offset >= -1
      /\ events \in Seq(Event) /\ Paired(events) /\ duration \in Int /\ max_rate \in Nat
      /\ pc \in {"collect", "root", "scan", "done", "error"}
  BY DEF GraphIInv, Base
<1>2. TypeOK
  <2>1. table \in Seq(Stream)
    BY <1>1, TableFacts
  <2>2. /\ DOMAIN hash \subseteq Nat /\ \A n \in DOMAIN hash : hash[n] \in Stream
        /\ roots \in Seq(DOMAIN hash) /\ loop_hash \subseteq DOMAIN hash
    <3>1. CASE pc = "collect"
      <4>1. hash = << >> /\ roots = << >> /\ loop_hash = {}
        BY <3>1 DEF GraphIInv, Begun
      <4>2. DOMAIN hash = {}
        BY <4>1
      <4>3. roots \in Seq(DOMAIN hash)
        BY <4>1
      <4> QED BY <4>1, <4>2, <4>3
    <3>2. CASE pc # "collect"
      <4>1. Hashed(hash) /\ Queue(roots) /\ loop_hash \subseteq Present
        BY <3>2 DEF GraphIInv, Begun
      <4>2. Present \subseteq Nat /\ \A n \in Present : Of(n) \in Stream
        BY <1>1, OfFacts
      <4> QED BY <4>1, <4>2 DEF Hashed, Queue
    <3> QED BY <3>1, <3>2
  <2>3. events \in Seq([time : Int, diff : Int])
    BY <1>1 DEF Event
  <2> QED BY <1>1, <2>1, <2>2, <2>3 DEF TypeOK
<1>3. RefusesExactlyBroken
  BY DEF GraphIInv, AtDone, Walked, RefusesExactlyBroken
<1>4. RateNeverNegative
  <2> SUFFICES ASSUME NEW k \in DOMAIN events PROVE RateAfter(events, k) >= 0
    BY DEF RateNeverNegative
  <2>1. RateAfter(events, k) \in Nat
    BY <1>1, RateIsNat
  <2> QED BY <2>1
<1> QED BY <1>2, <1>3, <1>4 DEF GraphInv

\* Whatever the table is, generate() keeps its types, refuses exactly the tables
\* with a chain that runs into a missing stream, and no event it sorts pulls the
\* rate below zero.
THEOREM GraphIsSound == Spec => []GraphInv
<1>1. Init => GraphIInv
  BY BeginsInv
<1>2. GraphIInv /\ [Next]_vars => GraphIInv'
  BY GraphIsInv
<1>3. GraphIInv => GraphInv
  BY InvGivesGraphInv
<1> QED BY <1>1, <1>2, <1>3, PTL DEF Spec

-----------------------------------------------------------------------------
(* The duration and the highest rate.                                      *)

\* The parts of an interval; it ends unless the stream is continuous.
LEMMA IntervalFacts ==
  ASSUME table \in Tables, NEW r \in Nat, NEW m, Walk(r, m), NEW i \in IntervalsAt(r, m)
  PROVE  /\ i.pps \in Nat /\ i.pps > 0 /\ i.from \in Int
         /\ Of(Chain(r)[m]).type # "continuous" => i.to \in Nat
<1> DEFINE s == Of(Chain(r)[m])
           at == Reached(r, m)
           n == BurstsOf(s)
           Inter(x) == [pps |-> s.pps, from |-> BurstStart(s, at, x), to |-> BurstEnd(s, at, x)]
           c == [pps |-> s.pps, from |-> at + s.isg, to |-> INFINITE]
<1>1. s \in Stream /\ at \in Nat /\ at \in Int
  BY OfFacts, ReachedFacts DEF Walk
<1>2. n \in Nat /\ s.pps \in Nat /\ s.pps > 0 /\ s.isg \in Nat
  BY <1>1, StreamFacts
<1>3. CASE s.type = "continuous"
  <2>1. i = c
    BY <1>3 DEF IntervalsAt
  <2> HIDE DEF at, s
  <2> QED BY <1>1, <1>2, <1>3, <2>1 DEF s
<1>4. CASE s.type # "continuous"
  <2>1. \E x \in 0 .. (n - 1) : i = Inter(x)
    BY <1>4 DEF IntervalsAt, BurstStart, BurstEnd
  <2>2. PICK x \in 0 .. (n - 1) : i = Inter(x)
    BY <2>1
  <2>3. x \in Nat
    BY <1>2
  <2>4. /\ BurstStart(s, at, x) \in Int /\ BurstEnd(s, at, x) \in Int
        /\ at <= BurstStart(s, at, x) /\ BurstStart(s, at, x) <= BurstEnd(s, at, x)
    BY <1>1, <2>3, BurstTimes
  <2> DEFINE bs == BurstStart(s, at, x)
             be == BurstEnd(s, at, x)
  <2>5. i.pps = s.pps /\ i.from = bs /\ i.to = be
    BY <2>2
  <2> HIDE DEF at, s, bs, be
  <2>6. bs \in Int /\ be \in Nat
    BY <1>1, <2>4 DEF bs, be
  <2> QED BY <1>2, <2>5, <2>6
<1> QED BY <1>3, <1>4

\* Interval i is among the events, as one of root r.
Sent(own, r, i) == \E j \in DOMAIN events : own[j] = r /\ Shows(events, j, i)

\* Everything is scanned: the events are the intervals of all roots, and the
\* rises are theirs.
LEMMA AllIsSent ==
  ASSUME table \in Tables, NEW own, NEW seen, Graph(events, own, seen, Roots, {})
  PROVE  /\ \A j \in DOMAIN events : Rises(events, j) =>
              \E i \in Intervals(own[j]) : Shows(events, j, i)
         /\ \A r \in Roots : \A i \in Intervals(r) :
              /\ Sent(own, r, i)
              /\ i.pps \in Nat /\ i.pps > 0 /\ i.from \in Int
              /\ ~Endless(r) => i.to \in Nat
<1>1. /\ Owned(events, own, Roots) /\ seen \in [Roots -> Nat] /\ Listing(events, own, seen)
      /\ \A q \in Roots : Visited(q) = 0 .. seen[q] - 1
  BY DEF Graph
<1>2. ASSUME NEW j \in DOMAIN events, Rises(events, j)
      PROVE  \E i \in Intervals(own[j]) : Shows(events, j, i)
  <2>1. PICK k \in 0 .. seen[own[j]] - 1 : \E i \in IntervalsAt(own[j], k) : Shows(events, j, i)
    BY <1>1, <1>2 DEF Listing
  <2>2. own[j] \in Roots
    BY <1>1 DEF Owned
  <2>3. k \in Visited(own[j])
    BY <1>1, <2>1, <2>2
  <2> QED BY <2>1, <2>3 DEF Intervals
<1>3. ASSUME NEW r \in Roots, NEW i \in Intervals(r)
      PROVE  /\ Sent(own, r, i)
             /\ i.pps \in Nat /\ i.pps > 0 /\ i.from \in Int
             /\ ~Endless(r) => i.to \in Nat
  <2>1. PICK k \in Visited(r) : i \in IntervalsAt(r, k)
    BY DEF Intervals
  <2>2. k \in 0 .. seen[r] - 1 /\ seen[r] \in Nat
    BY <1>1
  <2>3. Sent(own, r, i)
    BY <1>1, <2>1, <2>2 DEF Listing, Sent
  <2>4. r \in Nat
    BY OfFacts
  <2>5. Walk(r, k)
    <3>1. \A x \in 0 .. k : x \in Visited(r)
      BY <1>1, <2>2
    <3>2. DOMAIN Chain(r) = 0 .. Top
      BY <2>4, ChainIs
    <3>3. \A x \in 0 .. k : Chain(r)[x] \in Present
      BY <3>1 DEF Visited
    <3>4. k \in 0 .. Top /\ \A a, b \in 0 .. k : Chain(r)[a] = Chain(r)[b] => a = b
      BY <2>1, <3>2 DEF Visited
    <3>5. k \in Nat /\ 0 .. k - 1 \subseteq 0 .. k /\ k \in 0 .. k
      BY <2>2
    <3> QED BY <3>3, <3>4, <3>5 DEF Walk, Path
  <2>6. /\ i.pps \in Nat /\ i.pps > 0 /\ i.from \in Int
        /\ Of(Chain(r)[k]).type # "continuous" => i.to \in Nat
    BY <2>1, <2>4, <2>5, IntervalFacts
  <2>7. ~Endless(r) => Of(Chain(r)[k]).type # "continuous"
    BY <2>1 DEF Endless, Loops
  <2> QED BY <2>3, <2>6, <2>7
<1> QED BY <1>2, <1>3

\* The last event is the end of the last interval.
LEMMA DurationOfInv ==
  ASSUME GraphIInv
  PROVE  DurationIsLastEnd
<1> SUFFICES ASSUME pc = "done", ContinuousIsLast
             PROVE  IF \E r \in Roots : Endless(r) THEN duration = INFINITE
                    ELSE Ends # {} =>
                           duration = IF Max(Ends) <= IntMax THEN Max(Ends) ELSE -IntMax - 1
  BY DEF DurationIsLastEnd
<1>1. AtDone /\ table \in Tables /\ events \in Seq(Event) /\ Paired(events)
  BY DEF GraphIInv, Base
<1>2. CASE \E r \in Roots : Endless(r)
  BY <1>1, <1>2 DEF AtDone, Walked
<1>3. CASE ~\E r \in Roots : Endless(r)
  <2> SUFFICES ASSUME Ends # {}
               PROVE  duration = IF Max(Ends) <= IntMax THEN Max(Ends) ELSE -IntMax - 1
    BY <1>3
  <2> DEFINE S == UNION {{i.to : i \in Intervals(r)} : r \in Roots}
             last == LastTime(events)
  <2>0. S = Ends
    BY DEF Ends
  <2>1. events # << >> /\ duration = ToInt(last)
    <3>1. PICK own, seen : Graph(events, own, seen, Roots, {})
      BY <1>1 DEF AtDone
    <3>2. PICK r \in Roots : Intervals(r) # {}
      BY DEF Ends
    <3>3. PICK i \in Intervals(r) : TRUE
      BY <3>2
    <3>4. Sent(own, r, i)
      BY <1>1, <3>1, AllIsSent
    <3>5. events # << >>
      BY <3>4 DEF Sent
    <3> QED BY <1>1, <1>3, <3>5 DEF AtDone
  <2>2. /\ last \in Int /\ \A k \in DOMAIN events : events[k].time <= last
        /\ \E k \in DOMAIN events : events[k].time = last
    BY <1>1, <2>1, LastTimeIs
  <2>3. PICK own, seen : Graph(events, own, seen, Roots, {})
    BY <1>1 DEF AtDone
  <2>4. Owned(events, own, Roots)
    BY <2>3 DEF Graph
  <2>5. \A j \in DOMAIN events : Rises(events, j) =>
          \E i \in Intervals(own[j]) : Shows(events, j, i)
    BY <1>1, <2>3, AllIsSent
  <2>6. \A r \in Roots : \A i \in Intervals(r) : Sent(own, r, i) /\ i.to \in Nat
    BY <1>1, <1>3, <2>3, AllIsSent
  <2>7. \A j \in DOMAIN events : events[j].time \in Int /\ events[j].diff \in Int
    BY <1>1, EventFacts
  <2>8. \A j \in DOMAIN events : j \in Nat
    BY <1>1, EventFacts
  <2>9. \A y \in S : \E r \in Roots : \E i \in Intervals(r) : y = i.to
    OBVIOUS
  <2>10. \A r \in Roots : \A i \in Intervals(r) : i.to \in S
    OBVIOUS
  <2> HIDE DEF S, last
  <2>11. S \subseteq Int
    BY <2>6, <2>9
  <2>12. ASSUME NEW y \in S PROVE last >= y
    <3>0. PICK r \in Roots : \E i \in Intervals(r) : y = i.to
      BY <2>9
    <3>1. PICK i \in Intervals(r) : y = i.to
      BY <3>0
    <3>2. PICK j \in DOMAIN events : Shows(events, j, i)
      BY <2>6 DEF Sent
    <3>3. i.to # INFINITE
      BY <2>6 DEF INFINITE
    <3>4. Falls(events, j + 1) /\ events[j + 1].time = i.to
      BY <3>2, <3>3 DEF Shows
    <3>5. j + 1 \in DOMAIN events
      BY <3>4 DEF Falls
    <3>6. events[j + 1].time <= last /\ events[j + 1].time \in Int
      BY <2>2, <2>7, <3>5
    <3> QED BY <2>2, <3>1, <3>4, <3>6
  <2>13. last \in S
    <3>1. PICK k \in DOMAIN events : events[k].time = last
      BY <2>2
    <3>2. events[k].diff # 0
      BY <2>4 DEF Owned
    <3>3. CASE events[k].diff > 0
      <4>1. Rises(events, k) /\ own[k] \in Roots
        BY <2>4, <3>3 DEF Rises, Owned
      <4>2. PICK i \in Intervals(own[k]) : Shows(events, k, i)
        BY <2>5, <4>1
      <4>3. i.to # INFINITE /\ i.to \in S
        BY <2>6, <2>10, <4>1 DEF INFINITE
      <4>4. Falls(events, k + 1) /\ events[k + 1].time = i.to
        BY <4>2, <4>3 DEF Shows
      <4>5. k + 1 \in DOMAIN events /\ events[k + 1].diff < 0 /\ (k + 1) - 1 = k
        BY <2>8, <4>4 DEF Falls
      <4>6. events[k].time <= events[k + 1].time
        BY <1>1, <4>5 DEF Paired
      <4>7. events[k + 1].time <= last /\ events[k + 1].time \in Int
        BY <2>2, <2>7, <4>5
      <4>8. events[k + 1].time = last
        BY <2>2, <3>1, <4>6, <4>7
      <4> QED BY <4>3, <4>4, <4>8
    <3>4. CASE events[k].diff < 0
      <4>1. /\ k - 1 \in DOMAIN events /\ events[k - 1].diff = -events[k].diff
        BY <1>1, <3>4 DEF Paired
      <4>2. Rises(events, k - 1) /\ own[k - 1] \in Roots
        BY <2>4, <2>7, <3>4, <4>1 DEF Rises, Owned
      <4>3. PICK i \in Intervals(own[k - 1]) : Shows(events, k - 1, i)
        BY <2>5, <4>1, <4>2
      <4>4. i.to # INFINITE /\ i.to \in S
        BY <2>6, <2>10, <4>2 DEF INFINITE
      <4>5. (k - 1) + 1 = k
        BY <2>8
      <4>6. events[k].time = i.to
        BY <4>3, <4>4, <4>5 DEF Shows
      <4> QED BY <3>1, <4>4, <4>6
    <3> QED BY <2>7, <3>2, <3>3, <3>4
  <2>14. Max(S) = last
    BY <2>11, <2>12, <2>13, MaxIs
  <2> QED BY <2>0, <2>1, <2>14 DEF ToInt
<1> QED BY <1>2, <1>3

\* What the first rounds send at a moment.
FirstRounds(t) == Sum([r \in Roots |-> Max({0} \cup Sends(r, t))], Roots)

\* The moment of the first round is a moment.
LEMMA FoldedIs ==
  ASSUME NEW own, NEW seen, Graph(events, own, seen, Roots, {}), table \in Tables,
         NEW r \in Roots, NEW t \in Nat
  PROVE  Folded(r, t) \in Int
<1> SUFFICES ASSUME Loops(r), LoopStart(r) < LoopEnd(r), LoopEnd(r) <= t
             PROVE  LoopStart(r) + ((t - LoopStart(r)) % (LoopEnd(r) - LoopStart(r))) \in Int
  BY DEF Folded
<1>1. r \in Nat /\ seen[r] \in Nat /\ Visited(r) = 0 .. seen[r] - 1
  BY OfFacts DEF Graph
<1>2. DOMAIN Chain(r) = 0 .. Top /\ Top \in Nat
  BY <1>1, ChainIs, PresentFinite DEF Top
<1>3. Turn(r) = seen[r]
  <2>1. Cardinality(0 .. seen[r] - 1) = seen[r]
    <3> DEFINE n == seen[r]
    <3>1. n \in Nat /\ 0 \in Int /\ n - 1 \in Int
      BY <1>1
    <3> HIDE DEF n
    <3>2. Cardinality(0 .. n - 1) = IF 0 > n - 1 THEN 0 ELSE (n - 1) - 0 + 1
      BY <3>1, FS_Interval
    <3>3. Cardinality(0 .. n - 1) = n
      BY <3>1, <3>2
    <3> QED BY <3>3 DEF n
  <2> QED BY <1>1, <2>1 DEF Turn
<1>4. ASSUME NEW k \in Visited(r) PROVE Walk(r, k)
  <2>1. /\ k \in 0 .. Top /\ Chain(r)[k] \in Present
        /\ \A a, b \in 0 .. k : Chain(r)[a] = Chain(r)[b] => a = b
    BY <1>2 DEF Visited
  <2>2. \A x \in 0 .. k - 1 : Chain(r)[x] \in Present
    BY <1>2, <2>1 DEF Loops
  <2> QED BY <2>1, <2>2 DEF Walk, Path
<1>5. ASSUME NEW k \in Visited(r)
      PROVE  Reached(r, k) \in Nat /\ Reached(r, k + 1) \in Nat /\ k + 1 \in 0 .. Top
  <2>1. Walk(r, k)
    BY <1>4
  <2>2. /\ Reached(r, k) \in Nat /\ Stay(Of(Chain(r)[k])) \in Nat
        /\ Reached(r, k + 1) = Reached(r, k) + Stay(Of(Chain(r)[k]))
    BY <1>1, <2>1, ReachedFacts
  <2>3. k + 1 \in 0 .. Top
    BY <1>1, <2>1, WalkIsShort
  <2> QED BY <2>2, <2>3
<1>6. 0 \in Visited(r)
  <2>1. Chain(r)[0] \in Present
    BY <1>2 DEF Loops
  <2>2. \A a, b \in 0 .. 0 : a = b
    OBVIOUS
  <2> QED BY <1>2, <2>1, <2>2 DEF Visited
<1>7. seen[r] - 1 \in Visited(r) /\ (seen[r] - 1) + 1 = seen[r]
  BY <1>1, <1>6
<1>8. LoopEnd(r) \in Nat /\ Turn(r) \in 0 .. Top
  BY <1>3, <1>5, <1>7 DEF LoopEnd
<1>9. \E k \in Visited(r) : Chain(r)[k] = Chain(r)[Turn(r)]
  <2> DEFINE n == Turn(r)
             c == Chain(r)
  <2>1. c[n] \in Present
    BY <1>2, <1>8 DEF Loops
  <2>2. n \notin Visited(r) /\ n \in Nat /\ Visited(r) = 0 .. n - 1
    BY <1>1, <1>3
  <2>3. ~\A a, b \in 0 .. n : c[a] = c[b] => a = b
    BY <1>2, <1>8, <2>1, <2>2 DEF Visited
  <2>4. \A a, b \in 0 .. n - 1 : c[a] = c[b] => a = b
    <3>1. n - 1 \in Visited(r)
      BY <1>3, <1>7
    <3> QED BY <3>1 DEF Visited
  <2> HIDE DEF n, c
  <2>5. PICK a \in 0 .. n, b \in 0 .. n : c[a] = c[b] /\ a # b
    BY <2>3
  <2>6. a = n \/ b = n
    BY <2>2, <2>4, <2>5
  <2>7. \E k \in 0 .. n - 1 : c[k] = c[n]
    BY <2>2, <2>5, <2>6
  <2> QED BY <2>2, <2>7 DEF n, c
<1>10. LoopStart(r) \in Nat
  BY <1>5, <1>9 DEF LoopStart, Entry
<1> DEFINE a == LoopStart(r)
           b == LoopEnd(r)
<1> HIDE DEF a, b
<1>11. a \in Nat /\ b \in Nat /\ a < b
  BY <1>8, <1>10 DEF a, b
<1>12. b - a \in Nat /\ b - a > 0 /\ t - a \in Int
  BY <1>11
<1>13. (t - a) % (b - a) \in Int
  BY <1>12
<1>14. a + ((t - a) % (b - a)) \in Int
  BY <1>11, <1>13
<1> QED BY <1>14 DEF a, b

\* No moment of the first rounds sends more than the highest rate: the events up to that
\* moment are sorted first, and each root that sends is in a burst among them.
LEMMA MaxCovers ==
  ASSUME NEW own, NEW seen, Graph(events, own, seen, Roots, {}), table \in Tables,
         events \in Seq(Event), Paired(events), NEW t \in Int
  PROVE  FirstRounds(t) <= Peak(events)
<1> DEFINE P == {j \in DOMAIN events : events[j].time <= t}
           c == OpenRate(events, own, P, Roots)
           f == [r \in Roots |-> Max({0} \cup Sends(r, t))]
<1>1. Owned(events, own, Roots)
  BY DEF Graph
<1>2. \A j \in DOMAIN events : events[j].time \in Int
  BY EventFacts
<1>3. DownSet(events, P)
  BY <1>2 DEF DownSet, NotAfter
<1>4. \A j : j \in P <=> j \in DOMAIN events /\ events[j].time <= t
  OBVIOUS
<1> HIDE DEF P
<1>5. P \in SUBSET DOMAIN events /\ Closed(events, own, P)
  BY <1>1, <1>3, DownSetIsClosed
<1>6. \A r \in Roots : /\ c[r] \in Nat
                       /\ \A j \in P : IsOpen(events, own, P, r, j) => c[r] = events[j].diff
  BY <1>1, <1>5, OpenRateIs
<1>7. Sum(Diffs(events), P) = Sum(c, Roots)
  BY <1>1, <1>5, PresentFinite, OpenSum
<1>8. Sum(Diffs(events), P) <= Peak(events) /\ Sum(Diffs(events), P) \in Int
  BY <1>3, PeakCovers
<1>9. Peak(events) \in Int
  BY PeakFacts
<1> HIDE DEF c
<1>10. ASSUME NEW r \in Roots, NEW x \in Sends(r, t) PROVE x = c[r]
  <2>1. PICK i \in Intervals(r) : x = i.pps /\ i.from <= t /\ (i.to = INFINITE \/ t < i.to)
    BY DEF Sends
  <2>2. Sent(own, r, i) /\ i.pps \in Nat /\ i.pps > 0
    BY AllIsSent
  <2>3. PICK j \in DOMAIN events : own[j] = r /\ Shows(events, j, i)
    BY <2>2 DEF Sent
  <2>4. j \in P /\ events[j].diff > 0 /\ events[j].diff = x
    BY <1>4, <2>1, <2>2, <2>3 DEF Shows
  <2>5. ~(Falls(events, j + 1) /\ j + 1 \in P)
    <3>1. CASE i.to = INFINITE
      BY <2>3, <3>1 DEF Shows
    <3>2. CASE i.to # INFINITE
      <4>1. Falls(events, j + 1) /\ events[j + 1].time = i.to /\ t < i.to
        BY <2>1, <2>3, <3>2 DEF Shows
      <4>2. j + 1 \in DOMAIN events
        BY <4>1 DEF Falls
      <4>3. ~(events[j + 1].time <= t)
        BY <1>2, <4>1, <4>2
      <4> QED BY <1>4, <4>3
    <3> QED BY <3>1, <3>2
  <2>6. IsOpen(events, own, P, r, j)
    BY <2>3, <2>4, <2>5 DEF IsOpen
  <2> QED BY <1>6, <2>4, <2>6
<1>11. ASSUME NEW r \in Roots PROVE f[r] \in Int /\ f[r] <= c[r]
  <2> DEFINE W == {0} \cup Sends(r, t)
             mx == Max(W)
  <2>1. f[r] = mx
    OBVIOUS
  <2>2. c[r] \in Nat /\ \A x \in Sends(r, t) : x = c[r]
    BY <1>6, <1>10
  <2>3. W \subseteq Int /\ \A y \in W : y = 0 \/ y = c[r]
    BY <2>2
  <2>4. CASE Sends(r, t) = {}
    <3>1. 0 \in W /\ \A y \in W : 0 >= y
      BY <2>4
    <3>2. mx = 0
      BY <2>3, <3>1, MaxIs
    <3> HIDE DEF mx
    <3> QED BY <2>1, <2>2, <3>2
  <2>5. CASE Sends(r, t) # {}
    <3> DEFINE z == c[r]
    <3>1. z \in W /\ \A y \in W : z >= y
      BY <2>2, <2>3, <2>5
    <3> HIDE DEF z
    <3>2. mx = z
      BY <2>3, <3>1, MaxIs
    <3> HIDE DEF mx
    <3> QED BY <2>1, <2>2, <3>2 DEF z
  <2> QED BY <2>4, <2>5
<1>12. FirstRounds(t) = Sum(f, Roots)
  BY DEF FirstRounds
<1> HIDE DEF f
<1>13. IsFiniteSet(Roots)
  BY PresentFinite
<1>14. Sum(f, Roots) <= Sum(c, Roots)
  <2>1. \A r \in Roots : f[r] \in Int /\ c[r] \in Int /\ f[r] <= c[r]
    BY <1>6, <1>11
  <2> QED BY <1>13, <2>1, SumGrows
<1>15. Sum(f, Roots) \in Int
  BY <1>11, <1>13, SumIsInt
<1> DEFINE a == Sum(f, Roots)
           b == Sum(c, Roots)
           p == Peak(events)
<1>16. a \in Int /\ a <= b /\ b <= p /\ b \in Int /\ p \in Int /\ FirstRounds(t) = a
  BY <1>7, <1>8, <1>9, <1>12, <1>14, <1>15
<1>17. FirstRounds(t) <= p
  <2> HIDE DEF a, b, p
  <2> QED BY <1>16
<1> QED BY <1>17

\* The highest rate is reached by a rise, and at that moment every burst that counts
\* has begun and none has ended before.
LEMMA MaxIsTouched ==
  ASSUME NEW own, NEW seen, Graph(events, own, seen, Roots, {}), table \in Tables,
         events \in Seq(Event), Paired(events), Peak(events) # 0
  PROVE  \E t \in Moments : Peak(events) <= RateTouched(t)
<1>1. PICK k \in DOMAIN events :
        events[k].diff >= 0 /\ Peak(events) = Sum(Diffs(events), Prefix(events, k))
  BY PeakIsRise
<1> DEFINE t == events[k].time
           P == Prefix(events, k)
           c == OpenRate(events, own, P, Roots)
           f == [r \in Roots |-> Max({0} \cup Touches(r, t))]
<1>2. Owned(events, own, Roots)
  BY DEF Graph
<1>3. \A j \in DOMAIN events : events[j].time \in Int /\ events[j].diff \in Int /\ events[j].diff # 0
  BY <1>2, EventFacts DEF Owned
<1>4. DownSet(events, P)
  BY PrefixIsDownSet
<1>5. \A j : j \in P <=> j \in DOMAIN events /\ NotAfter(events, j, k)
  BY DEF Prefix
<1>6. \A j \in DOMAIN events : Rises(events, j) =>
        \E i \in Intervals(own[j]) : Shows(events, j, i)
  BY AllIsSent
<1>7. t \in Moments
  <2>1. Rises(events, k) /\ own[k] \in Roots
    BY <1>1, <1>2, <1>3 DEF Rises, Owned
  <2>2. PICK i \in Intervals(own[k]) : Shows(events, k, i)
    BY <1>6, <2>1
  <2>3. t = i.from
    BY <2>2 DEF Shows
  <2> QED BY <2>1, <2>2, <2>3 DEF Moments
<1>8. t \in Int
  BY <1>3
<1>9. \A j \in DOMAIN events : /\ j \in P => events[j].time <= t
                               /\ j \notin P => t <= events[j].time
  BY <1>3, <1>5 DEF NotAfter
<1> HIDE DEF P, t
<1>10. P \in SUBSET DOMAIN events /\ Closed(events, own, P)
  BY <1>2, <1>4, DownSetIsClosed
<1>11. \A r \in Roots : /\ c[r] \in Nat
                        /\ \A j \in P : IsOpen(events, own, P, r, j) => c[r] = events[j].diff
                        /\ (~\E j \in P : IsOpen(events, own, P, r, j)) => c[r] = 0
  BY <1>2, <1>10, OpenRateIs
<1>12. Sum(Diffs(events), P) = Sum(c, Roots)
  BY <1>2, <1>10, PresentFinite, OpenSum
<1>13. Sum(Diffs(events), P) \in Int
  BY <1>4, PeakCovers
<1> HIDE DEF c
<1>14. ASSUME NEW r \in Roots PROVE c[r] = 0 \/ c[r] \in Touches(r, t)
  <2>1. CASE ~\E j \in P : IsOpen(events, own, P, r, j)
    BY <1>11, <2>1
  <2>2. ASSUME NEW j \in P, IsOpen(events, own, P, r, j) PROVE c[r] \in Touches(r, t)
    <3>1. j \in DOMAIN events /\ own[j] = r /\ Rises(events, j) /\ c[r] = events[j].diff
      BY <1>10, <1>11, <2>2 DEF IsOpen, Rises
    <3>2. PICK i \in Intervals(r) : Shows(events, j, i)
      BY <1>6, <3>1
    <3>3. i.pps = c[r] /\ i.from <= t
      BY <1>9, <3>1, <3>2 DEF Shows
    <3>4. i.to = INFINITE \/ t <= i.to
      <4>1. CASE i.to # INFINITE
        <5>1. Falls(events, j + 1) /\ events[j + 1].time = i.to
          BY <3>2, <4>1 DEF Shows
        <5>2. j + 1 \in DOMAIN events /\ j + 1 \notin P
          BY <2>2, <5>1 DEF IsOpen, Falls
        <5> QED BY <1>9, <5>1, <5>2
      <4> QED BY <4>1
    <3>5. i \in {x \in Intervals(r) : x.from <= t /\ (x.to = INFINITE \/ t <= x.to)}
      BY <3>3, <3>4
    <3> QED BY <3>3, <3>5 DEF Touches
  <2> QED BY <2>1, <2>2
<1>15. ASSUME NEW r \in Roots PROVE f[r] \in Int /\ c[r] <= f[r]
  <2> DEFINE W == {0} \cup Touches(r, t)
             mx == Max(W)
             d == Diffs(events)
             V == {d[j] : j \in DOMAIN events}
  <2>1. f[r] = mx
    OBVIOUS
  <2>2. IsFiniteSet(DOMAIN events) /\ DOMAIN d = DOMAIN events /\ \A j \in DOMAIN events : d[j] = events[j].diff
    BY EventFacts DEF Diffs
  <2> HIDE DEF d
  <2>3. IsFiniteSet(V)
    BY <2>2, ImageFinite
  <2>4. ASSUME NEW x \in Touches(r, t) PROVE x \in V /\ x \in Int
    <3>1. PICK i \in Intervals(r) : x = i.pps
      BY DEF Touches
    <3>2. Sent(own, r, i) /\ i.pps \in Nat
      BY AllIsSent
    <3>3. PICK j \in DOMAIN events : Shows(events, j, i)
      BY <3>2 DEF Sent
    <3>4. x = d[j]
      BY <2>2, <3>1, <3>3 DEF Shows
    <3> QED BY <3>1, <3>2, <3>4
  <2>5. IsFiniteSet(Touches(r, t))
    BY <2>3, <2>4, FS_Subset
  <2>6. IsFiniteSet(W)
    BY <2>5, FS_Singleton, FS_Union
  <2>7. W \subseteq Int /\ W # {}
    BY <2>4
  <2>8. c[r] \in W
    BY <1>14
  <2> HIDE DEF W
  <2>9. mx \in W /\ \A y \in W : mx >= y
    BY <2>6, <2>7, MaxExists
  <2> HIDE DEF mx
  <2>10. mx \in Int /\ c[r] \in Int /\ mx >= c[r]
    BY <2>7, <2>8, <2>9
  <2> QED BY <2>1, <2>10
<1>16. RateTouched(t) = Sum(f, Roots)
  BY DEF RateTouched, Sum
<1> HIDE DEF f
<1>17. Sum(c, Roots) <= Sum(f, Roots)
  <2>1. \A r \in Roots : c[r] \in Int /\ f[r] \in Int /\ c[r] <= f[r]
    BY <1>11, <1>15
  <2>2. IsFiniteSet(Roots)
    BY PresentFinite
  <2> QED BY <2>1, <2>2, SumGrows
<1>18. Peak(events) <= RateTouched(t)
  BY <1>1, <1>12, <1>16, <1>17 DEF P
<1> QED BY <1>7, <1>18

\* Both bounds together.
LEMMA MaxRateOfInv ==
  ASSUME GraphIInv
  PROVE  MaxIsHighestRate
<1> SUFFICES ASSUME pc = "done", ContinuousIsLast
             PROVE  /\ \A t \in 0..Horizon : InStep(t) => RateSent(t) <= max_rate
                    /\ max_rate = 0 \/ \E t \in Moments : max_rate <= RateTouched(t)
  BY DEF MaxIsHighestRate
<1>1. AtDone /\ table \in Tables /\ events \in Seq(Event) /\ Paired(events)
  BY DEF GraphIInv, Base
<1>2. max_rate = Peak(events)
  BY <1>1 DEF AtDone
<1>3. PICK own, seen : Graph(events, own, seen, Roots, {})
  BY <1>1 DEF AtDone
<1>4. ASSUME NEW t \in 0..Horizon, InStep(t) PROVE RateSent(t) <= max_rate
  <2> DEFINE f == [r \in Roots |-> Max({0} \cup Sends(r, Folded(r, t)))]
  <2>1. RateSent(t) = Sum(f, Roots)
    BY DEF RateSent, Sum
  <2>2. CASE Roots = {}
    <3>1. Sum(f, Roots) = 0
      BY <2>2, SumEmpty
    <3>2. Peak(events) \in Nat
      BY <1>1, PeakFacts
    <3> HIDE DEF f
    <3> QED BY <1>2, <2>1, <3>1, <3>2
  <2>3. CASE Roots # {}
    <3>1. PICK q \in Roots : TRUE
      BY <2>3
    <3> DEFINE u == Folded(q, t)
    <3>2. \A r \in Roots : Folded(r, t) = u
      BY <1>4 DEF InStep
    <3>3. u \in Int
      BY <1>1, <1>3, HorizonAssumption, FoldedIs
    <3> HIDE DEF u
    <3>4. f = [r \in Roots |-> Max({0} \cup Sends(r, u))]
      BY <3>2
    <3>5. Sum(f, Roots) = FirstRounds(u)
      BY <3>4 DEF FirstRounds
    <3> HIDE DEF f
    <3>6. FirstRounds(u) <= Peak(events)
      BY <1>1, <1>3, <3>3, MaxCovers
    <3> QED BY <1>2, <2>1, <3>5, <3>6
  <2> QED BY <2>2, <2>3
<1>5. max_rate # 0 => \E t \in Moments : max_rate <= RateTouched(t)
  BY <1>1, <1>2, <1>3, MaxIsTouched
<1> QED BY <1>4, <1>5

\* The duration the port answers with is infinite exactly when a root leads to a
\* continuous stream or into a loop, and otherwise it is the end of the last
\* burst of any root, or INT_MIN where an int cannot hold that: for every table
\* whose continuous streams lead nowhere and every width of the int.
THEOREM DurationIsRight == Spec => []DurationIsLastEnd
<1>1. Init => GraphIInv
  BY BeginsInv
<1>2. GraphIInv /\ [Next]_vars => GraphIInv'
  BY GraphIsInv
<1>3. GraphIInv => DurationIsLastEnd
  BY DurationOfInv
<1> QED BY <1>1, <1>2, <1>3, PTL DEF Spec

\* The rate that a share of the line is turned into a factor with is the highest
\* one of the table as long as its roots are in step: no such moment sends more,
\* loops repeated, and some moment has as much if what ends then is counted with
\* what begins.
THEOREM MaxRateIsRight == Spec => []MaxIsHighestRate
<1>1. Init => GraphIInv
  BY BeginsInv
<1>2. GraphIInv /\ [Next]_vars => GraphIInv'
  BY GraphIsInv
<1>3. GraphIInv => MaxIsHighestRate
  BY MaxRateOfInv
<1> QED BY <1>1, <1>2, <1>3, PTL DEF Spec
=============================================================================
