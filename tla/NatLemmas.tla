------------------------------ MODULE NatLemmas -----------------------------
(***************************************************************************)
(* Induction over the natural numbers without an operator parameter: the   *)
(* predicate is a set.  Used wherever a model counts, sums or takes the    *)
(* first or last of something.                                             *)
(***************************************************************************)
EXTENDS Integers, WellFoundedInduction, NaturalsInduction, TLAPS

\* A set of naturals that is not empty has a least element.
LEMMA LeastElement ==
  ASSUME NEW T \in SUBSET Nat, T # {}
  PROVE  \E x \in T : \A y \in T : x <= y
<1> DEFINE R == OpToRel(<, Nat)
<1>1. \E x \in T : \A y \in T : ~ (<<y, x>> \in R)
  BY WFMin, NatLessThanWellFounded
<1>2. \A x, y \in Nat : y < x => <<y, x>> \in R
  BY DEF OpToRel
<1> HIDE DEF R
<1>3. \E x \in T : \A y \in T : ~(y < x)
  BY <1>1, <1>2, Zenon
<1>. QED BY <1>3

\* One that is bounded has a greatest.
LEMMA GreatestElement ==
  ASSUME NEW T \in SUBSET Nat, T # {}, NEW b \in Nat, \A x \in T : x <= b
  PROVE  \E x \in T : \A y \in T : y <= x
<1> DEFINE D == {n \in Nat : \E x \in T : n = b - x}
<1>1. D \in SUBSET Nat
  OBVIOUS
<1>2. D # {}
  <2>1. PICK x \in T : TRUE
    OBVIOUS
  <2>2. b - x \in Nat
    BY <2>1
  <2>. QED BY <2>1, <2>2
<1>3. PICK d \in D : \A e \in D : d <= e
  BY <1>1, <1>2, LeastElement
<1>4. PICK x \in T : d = b - x
  BY <1>3
<1>5. \A y \in T : b - y \in D
  OBVIOUS
<1>6. \A y \in T : d <= b - y
  BY <1>3, <1>5
<1>7. \A y \in T : y <= x
  BY <1>4, <1>6
<1>. QED BY <1>7

\* Induction: a set that has 0, and with every number the next, has them all.
LEMMA SetInduction ==
  ASSUME NEW T \in SUBSET Nat, 0 \in T, \A n \in T : n + 1 \in T
  PROVE  T = Nat
<1> SUFFICES ASSUME Nat \ T # {} PROVE FALSE
  OBVIOUS
<1>1. PICK x \in Nat \ T : \A y \in Nat \ T : x <= y
  BY LeastElement
<1>2. x # 0 /\ x - 1 \in Nat
  BY <1>1
<1>3. x - 1 \in T
  BY <1>1, <1>2
<1>. QED BY <1>1, <1>2, <1>3

-----------------------------------------------------------------------------
(* Recursion: the i-th step is G[i]. *)

Steps(f, G, n) == \A i \in 0 .. n - 1 : f[i + 1] = G[i + 1][f[i]]
IsRun(f, x, G, D) == f \in [Nat -> D] /\ f[0] = x /\ \A i \in Nat : f[i + 1] = G[i + 1][f[i]]

LEMMA RunUnique ==
  ASSUME NEW G, NEW n \in Nat, NEW m \in Nat, n <= m, NEW f, NEW g, f[0] = g[0],
         Steps(f, G, n), Steps(g, G, m)
  PROVE  \A i \in 0 .. n : f[i] = g[i]
<1> DEFINE T == {i \in Nat : i <= n => f[i] = g[i]}
<1>1. 0 \in T
  OBVIOUS
<1>2. ASSUME NEW i \in T PROVE i + 1 \in T
  <2> SUFFICES ASSUME i + 1 <= n PROVE f[i + 1] = g[i + 1]
    OBVIOUS
  <2>1. i \in 0 .. n - 1 /\ i \in 0 .. m - 1 /\ i <= n
    OBVIOUS
  <2>2. f[i] = g[i]
    BY <2>1
  <2>3. f[i + 1] = G[i + 1][f[i]] /\ g[i + 1] = G[i + 1][g[i]]
    BY <2>1 DEF Steps
  <2> QED BY <2>2, <2>3
<1>3. T \in SUBSET Nat
  OBVIOUS
<1> HIDE DEF T
<1>4. T = Nat
  BY <1>1, <1>2, <1>3, SetInduction
<1> QED BY <1>4 DEF T

LEMMA RunExists ==
  ASSUME NEW D, NEW x \in D, NEW G \in [Nat -> [D -> D]]
  PROVE  \E f : IsRun(f, x, G, D)
<1> DEFINE Run(f, n) == f \in [0 .. n -> D] /\ f[0] = x /\ Steps(f, G, n)
           T == {n \in Nat : \E f : Run(f, n)}
<1>1. 0 \in T
  <2>1. Run([i \in 0 .. 0 |-> x], 0)
    BY DEF Steps
  <2> QED BY <2>1
<1>2. ASSUME NEW n \in T PROVE n + 1 \in T
  <2>1. PICK f : Run(f, n)
    OBVIOUS
  <2>2. n \in Nat /\ f[n] \in D /\ n + 1 \in Nat
    BY <2>1
  <2> DEFINE g == [i \in 0 .. n + 1 |-> IF i = n + 1 THEN G[n + 1][f[n]] ELSE f[i]]
  <2>3. G[n + 1][f[n]] \in D
    BY <2>2
  <2>4. g \in [0 .. n + 1 -> D]
    BY <2>1, <2>2, <2>3
  <2>5. g[0] = x
    BY <2>1, <2>2
  <2>6. ASSUME NEW i \in 0 .. (n + 1) - 1 PROVE g[i + 1] = G[i + 1][g[i]]
    <3>1. g[i] = f[i] /\ i \in 0 .. n
      BY <2>2
    <3>2. CASE i = n
      <4>1. g[n + 1] = G[n + 1][f[n]] /\ g[n] = f[n]
        BY <2>2, <3>1, <3>2
      <4> HIDE DEF g
      <4> QED BY <3>2, <4>1
    <3>3. CASE i # n
      <4>1. i \in 0 .. n - 1 /\ g[i + 1] = f[i + 1]
        BY <2>2, <3>3
      <4>2. f[i + 1] = G[i + 1][f[i]]
        BY <2>1, <4>1 DEF Steps
      <4> QED BY <3>1, <4>1, <4>2
    <3> QED BY <3>2, <3>3
  <2> HIDE DEF g
  <2>7. Run(g, n + 1)
    BY <2>4, <2>5, <2>6 DEF Steps
  <2> QED BY <2>2, <2>7
<1>3. T \in SUBSET Nat
  OBVIOUS
<1>4. T = Nat
  <2> HIDE DEF T
  <2> QED BY <1>1, <1>2, <1>3, SetInduction
<1>5. \A n \in Nat : \E f : Run(f, n)
  BY <1>4
<1> DEFINE S == [n \in Nat |-> CHOOSE f : Run(f, n)]
<1>6. ASSUME NEW n \in Nat PROVE Run(S[n], n)
  <2>1. S[n] = CHOOSE f : Run(f, n)
    OBVIOUS
  <2> HIDE DEF S
  <2>2. \E f : Run(f, n)
    BY <1>5
  <2> QED BY <2>1, <2>2, Zenon
<1> HIDE DEF S, T
<1> DEFINE h == [n \in Nat |-> S[n][n]]
<1>7. h \in [Nat -> D] /\ h[0] = x
  BY <1>6
<1>8. ASSUME NEW i \in Nat PROVE h[i + 1] = G[i + 1][h[i]]
  <2> DEFINE a == S[i]
             b == S[i + 1]
  <2>1. a[0] = b[0] /\ Steps(a, G, i) /\ Steps(b, G, i + 1)
    BY <1>6
  <2>2. i \in 0 .. (i + 1) - 1 /\ i <= i + 1 /\ i \in 0 .. i /\ i + 1 \in Nat
    OBVIOUS
  <2>3. h[i] = a[i] /\ h[i + 1] = b[i + 1]
    OBVIOUS
  <2> HIDE DEF a, b, h
  <2>4. a[i] = b[i]
    BY <2>1, <2>2, RunUnique
  <2>5. b[i + 1] = G[i + 1][b[i]]
    BY <2>1, <2>2 DEF Steps
  <2> QED BY <2>3, <2>4, <2>5
<1> HIDE DEF h
<1>9. IsRun(h, x, G, D)
  BY <1>7, <1>8 DEF IsRun
<1> QED BY <1>9

-----------------------------------------------------------------------------
(* Sums: s[n] is the sum of d[1] ... d[n]. *)

IsSumTo(s, d, n) == s = [i \in 0 .. n |-> IF i = 0 THEN 0 ELSE s[i - 1] + d[i]]
IsSum(s, d) == s = [i \in Nat |-> IF i = 0 THEN 0 ELSE s[i - 1] + d[i]]

LEMMA SumToUnique ==
  ASSUME NEW d, NEW n \in Nat, NEW m \in Nat, n <= m,
         NEW s, NEW t, IsSumTo(s, d, n), IsSumTo(t, d, m)
  PROVE  \A i \in 0 .. n : s[i] = t[i]
<1> DEFINE T == {i \in Nat : i <= n => s[i] = t[i]}
<1>0. /\ \A i \in 0 .. n : s[i] = IF i = 0 THEN 0 ELSE s[i - 1] + d[i]
      /\ \A i \in 0 .. m : t[i] = IF i = 0 THEN 0 ELSE t[i - 1] + d[i]
  BY Zenon DEF IsSumTo
<1>1. 0 \in T
  BY <1>0
<1>2. ASSUME NEW i \in T PROVE i + 1 \in T
  <2> SUFFICES ASSUME i + 1 <= n PROVE s[i + 1] = t[i + 1]
    OBVIOUS
  <2>1. i + 1 \in 0 .. n /\ i + 1 \in 0 .. m /\ i + 1 # 0 /\ (i + 1) - 1 = i /\ i <= n
    OBVIOUS
  <2>2. s[i] = t[i]
    BY <2>1
  <2>3. s[i + 1] = s[i] + d[i + 1] /\ t[i + 1] = t[i] + d[i + 1]
    BY <1>0, <2>1
  <2>. QED BY <2>2, <2>3
<1>3. T \in SUBSET Nat
  OBVIOUS
<1> HIDE DEF T
<1>4. T = Nat
  BY <1>1, <1>2, <1>3, SetInduction
<1>. QED BY <1>4 DEF T

LEMMA SumToExists ==
  ASSUME NEW d
  PROVE  \A n \in Nat : \E s : IsSumTo(s, d, n)
<1> DEFINE T == {n \in Nat : \E s : IsSumTo(s, d, n)}
<1>1. 0 \in T
  <2> DEFINE s == [i \in 0 .. 0 |-> 0]
  <2>1. s = [i \in 0 .. 0 |-> IF i = 0 THEN 0 ELSE s[i - 1] + d[i]]
    OBVIOUS
  <2>. QED BY <2>1 DEF IsSumTo
<1>2. ASSUME NEW n \in T PROVE n + 1 \in T
  <2>1. PICK s : IsSumTo(s, d, n)
    OBVIOUS
  <2>2. n \in Nat
    OBVIOUS
  <2> DEFINE u == [i \in 0 .. n + 1 |-> IF i = n + 1 THEN s[n] + d[n + 1] ELSE s[i]]
  <2>3. \A i \in 0 .. n : s[i] = IF i = 0 THEN 0 ELSE s[i - 1] + d[i]
    BY <2>1, Zenon DEF IsSumTo
  <2>4. ASSUME NEW i \in 0 .. n + 1
        PROVE  u[i] = IF i = 0 THEN 0 ELSE u[i - 1] + d[i]
    <3>1. CASE i = 0
      <4>1. i \in 0 .. n /\ i # n + 1
        BY <2>2, <3>1
      <4>. QED BY <3>1, <4>1, <2>3
    <3>2. CASE i = n + 1
      <4>1. i - 1 = n /\ n \in 0 .. n + 1 /\ n # n + 1 /\ i # 0
        BY <2>2, <3>2
      <4>2. u[n] = s[n] /\ u[i] = s[n] + d[n + 1]
        BY <3>2, <4>1
      <4>. QED BY <3>2, <4>1, <4>2
    <3>3. CASE i # 0 /\ i # n + 1
      <4>1. i \in 0 .. n /\ i - 1 \in 0 .. n + 1 /\ i - 1 # n + 1
        BY <2>2, <3>3
      <4>2. u[i] = s[i] /\ u[i - 1] = s[i - 1]
        BY <3>3, <4>1
      <4>3. s[i] = s[i - 1] + d[i]
        BY <3>3, <4>1, <2>3
      <4>. QED BY <3>3, <4>2, <4>3
    <3>. QED BY <3>1, <3>2, <3>3
  <2>5. u = [i \in 0 .. n + 1 |-> u[i]]
    OBVIOUS
  <2> HIDE DEF u
  <2>6. IsSumTo(u, d, n + 1)
    BY <2>4, <2>5, Zenon DEF IsSumTo
  <2>. QED BY <2>2, <2>6
<1>3. T \in SUBSET Nat
  OBVIOUS
<1> HIDE DEF T
<1>4. T = Nat
  BY <1>1, <1>2, <1>3, SetInduction
<1>. QED BY <1>4 DEF T

\* There is such a function, whatever is summed.
LEMMA SumExists ==
  ASSUME NEW d
  PROVE  \E s : IsSum(s, d)
<1> DEFINE S(n) == CHOOSE s : IsSumTo(s, d, n)
           f == [n \in Nat |-> S(n)[n]]
<1>1. \A n \in Nat : IsSumTo(S(n), d, n)
  BY SumToExists, Zenon
<1> HIDE DEF S
<1>2. \A n \in Nat : \A i \in 0 .. n : S(n)[i] = IF i = 0 THEN 0 ELSE S(n)[i - 1] + d[i]
  BY <1>1, Zenon DEF IsSumTo
<1>3. ASSUME NEW n \in Nat PROVE f[n] = IF n = 0 THEN 0 ELSE f[n - 1] + d[n]
  <2>1. CASE n = 0
    BY <1>2, <2>1
  <2>2. CASE n # 0
    <3>1. n - 1 \in Nat /\ n - 1 <= n /\ n - 1 \in 0 .. n - 1 /\ n \in 0 .. n
      BY <2>2
    <3>2. S(n - 1)[n - 1] = S(n)[n - 1]
      BY <1>1, <3>1, SumToUnique
    <3>3. S(n)[n] = S(n)[n - 1] + d[n]
      BY <1>2, <2>2, <3>1
    <3>. QED BY <2>2, <3>1, <3>2, <3>3
  <2>. QED BY <2>1, <2>2
<1>4. f = [n \in Nat |-> f[n]]
  OBVIOUS
<1> HIDE DEF f
<1>5. IsSum(f, d)
  BY <1>3, <1>4, Zenon DEF IsSum
<1>. QED BY <1>5

\* The sums of positive numbers grow.
LEMMA SumGrows ==
  ASSUME NEW d, NEW s, IsSum(s, d), NEW N \in Nat, \A i \in 1 .. N : d[i] \in Nat \ {0}
  PROVE  /\ \A i \in 0 .. N : s[i] \in Nat
         /\ \A i \in 1 .. N : s[i] = s[i - 1] + d[i]
         /\ \A i, j \in 0 .. N : i < j => s[i] < s[j]
         /\ s[0] = 0
<1>0. \A i \in Nat : s[i] = IF i = 0 THEN 0 ELSE s[i - 1] + d[i]
  BY Zenon DEF IsSum
<1>1. s[0] = 0 /\ \A i \in 1 .. N : s[i] = s[i - 1] + d[i]
  BY <1>0
<1> DEFINE T == {j \in Nat : j <= N => s[j] \in Nat /\ \A i \in 0 .. j - 1 : s[i] \in Nat /\ s[i] < s[j]}
<1>2. 0 \in T
  BY <1>1
<1>3. ASSUME NEW j \in T PROVE j + 1 \in T
  <2> SUFFICES ASSUME j + 1 <= N
               PROVE  s[j + 1] \in Nat /\ \A i \in 0 .. (j + 1) - 1 : s[i] \in Nat /\ s[i] < s[j + 1]
    OBVIOUS
  <2>1. /\ j + 1 \in 1 .. N /\ (j + 1) - 1 = j /\ j <= N
        /\ \A i \in 0 .. (j + 1) - 1 : i = j \/ i \in 0 .. j - 1
    OBVIOUS
  <2>2. s[j + 1] = s[j] + d[j + 1] /\ d[j + 1] \in Nat \ {0}
    BY <1>1, <2>1
  <2>3. s[j] \in Nat /\ \A i \in 0 .. j - 1 : s[i] \in Nat /\ s[i] < s[j]
    BY <2>1
  <2>. QED BY <2>1, <2>2, <2>3
<1>4. T \in SUBSET Nat
  OBVIOUS
<1> HIDE DEF T
<1>5. T = Nat
  BY <1>2, <1>3, <1>4, SetInduction
<1>6. \A j \in Nat : j <= N => s[j] \in Nat /\ \A i \in 0 .. j - 1 : s[i] \in Nat /\ s[i] < s[j]
  BY <1>5 DEF T
<1>. QED BY <1>1, <1>6
=============================================================================
