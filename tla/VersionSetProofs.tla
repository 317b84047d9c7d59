-------------------------- MODULE VersionSetProofs --------------------------
(***************************************************************************)
(* Proof that the files of a level below level 0 never overlap, and that   *)
(* while no snapshot is held Get returns the newest value of every key,    *)
(* for any number of keys, levels and writes and all limits on sizes.      *)
(*                                                                         *)
(* A flush can add a file to the level into which a compaction is about to *)
(* write, after its inputs were chosen.  It does no harm because the       *)
(* inputs leave no gap: a range of user keys that meets none of them is    *)
(* before all of them or after all of them (GapFree).                      *)
(*                                                                         *)
(* Get trusts the first file that has the key.  That is right because a    *)
(* key's entries get older from level to level (Layers) and what is        *)
(* dropped was not the newest of its key, or was a deletion with nothing   *)
(* below it to hide (NewestHeld, Survives).                                *)
(***************************************************************************)
EXTENDS VersionSet, NatLemmas, FiniteSetTheorems, TLAPS

Entry == [key : Keys, seq : 1 .. MaxSeq, del : BOOLEAN]

\* Entries of which no two have the same number: Before orders them.
Distinct(S) == S \subseteq Entry /\ \A d, e \in S : d.seq = e.seq => d = e

AllBefore(A, B) == \A d \in A : \A e \in B : Before(d, e)
Apart(A, B) == AllBefore(A, B) \/ AllBefore(B, A)

-----------------------------------------------------------------------------
(* The order of entries *)

LEMMA EntryFields ==
  ASSUME NEW e \in Entry
  PROVE  /\ e.key \in Nat /\ e.key > 0 /\ e.key <= MaxKey
         /\ e.seq \in Nat /\ e.seq > 0 /\ e.seq <= MaxSeq
  BY VersionConstants DEF Entry, Keys

LEMMA BeforeOrders ==
  ASSUME NEW S, Distinct(S)
  PROVE  /\ \A d, e \in S : d = e \/ Before(d, e) \/ Before(e, d)
         /\ \A d, e \in S : ~(Before(d, e) /\ Before(e, d))
         /\ \A d, e, f \in S : Before(d, e) /\ Before(e, f) => Before(d, f)
         /\ \A e \in S : ~Before(e, e)
<1>1. \A e \in S : e.key \in Nat /\ e.seq \in Nat
  BY EntryFields DEF Distinct
<1>2. \A d, e \in S : d.seq = e.seq => d = e
  BY DEF Distinct
<1> QED BY <1>1, <1>2 DEF Before

LEMMA DistinctIsFinite ==
  ASSUME NEW S, Distinct(S)
  PROVE  IsFiniteSet(S)
<1> DEFINE f == [e \in S |-> e.seq]
<1>1. \A e \in S : e.seq \in 1 .. MaxSeq
  BY EntryFields, VersionConstants DEF Distinct
<1>2. \A d, e \in S : d.seq = e.seq => d = e
  BY DEF Distinct
<1>3. f \in Injection(S, 1 .. MaxSeq)
  BY <1>1, <1>2 DEF Injection, IsInjective
<1>4. IsFiniteSet(1 .. MaxSeq)
  BY FS_Interval, VersionConstants
<1> QED BY <1>3, <1>4, FS_Injection

LEMMA DistinctSubset ==
  ASSUME NEW S, Distinct(S), NEW T \in SUBSET S
  PROVE  Distinct(T) /\ IsFiniteSet(T)
<1>1. Distinct(T)
  BY DEF Distinct
<1> QED BY <1>1, DistinctIsFinite

\* A set that is not empty has a first and a last entry.
LEMMA HasFirst ==
  ASSUME NEW S, Distinct(S), S # {}
  PROVE  Smallest(S) \in S /\ \A d \in S : d = Smallest(S) \/ Before(Smallest(S), d)
<1> DEFINE K == {e.key : e \in S}
<1>1. \A e \in S : e.key \in Nat /\ e.seq \in Nat /\ e.seq <= MaxSeq
  BY EntryFields DEF Distinct
<1>2. K \in SUBSET Nat /\ K # {}
  BY <1>1
<1> HIDE DEF K
<1>3. PICK k \in K : \A j \in K : k <= j
  BY <1>2, LeastElement
<1> DEFINE Q == {e.seq : e \in {d \in S : d.key = k}}
<1>4. Q \in SUBSET Nat /\ Q # {} /\ MaxSeq \in Nat /\ \A n \in Q : n <= MaxSeq
  BY <1>1, <1>3, VersionConstants DEF K
<1> HIDE DEF Q
<1>5. PICK n \in Q : \A j \in Q : j <= n
  BY <1>4, GreatestElement
<1>6. PICK e \in S : e.key = k /\ e.seq = n
  BY <1>5 DEF Q
<1>7. ASSUME NEW d \in S PROVE d = e \/ Before(e, d)
  <2>1. k <= d.key
    BY <1>3 DEF K
  <2>2. d.key = k => d.seq <= n
    BY <1>5 DEF Q
  <2>3. d.seq = e.seq => d = e
    BY DEF Distinct
  <2> QED BY <2>1, <2>2, <2>3, <1>1, <1>6 DEF Before
<1>8. \E x \in S : \A d \in S : d = x \/ Before(x, d)
  BY <1>7
<1> QED BY <1>8 DEF Smallest

LEMMA HasLast ==
  ASSUME NEW S, Distinct(S), S # {}
  PROVE  Largest(S) \in S /\ \A d \in S : d = Largest(S) \/ Before(d, Largest(S))
<1> DEFINE K == {e.key : e \in S}
<1>1. \A e \in S : e.key \in Nat /\ e.seq \in Nat /\ e.key <= MaxKey
  BY EntryFields DEF Distinct
<1>2. K \in SUBSET Nat /\ K # {} /\ MaxKey \in Nat /\ \A k \in K : k <= MaxKey
  BY <1>1, VersionConstants
<1> HIDE DEF K
<1>3. PICK k \in K : \A j \in K : j <= k
  BY <1>2, GreatestElement
<1> DEFINE Q == {e.seq : e \in {d \in S : d.key = k}}
<1>4. Q \in SUBSET Nat /\ Q # {}
  BY <1>1, <1>3 DEF K
<1> HIDE DEF Q
<1>5. PICK n \in Q : \A j \in Q : n <= j
  BY <1>4, LeastElement
<1>6. PICK e \in S : e.key = k /\ e.seq = n
  BY <1>5 DEF Q
<1>7. ASSUME NEW d \in S PROVE d = e \/ Before(d, e)
  <2>1. d.key <= k
    BY <1>3 DEF K
  <2>2. d.key = k => n <= d.seq
    BY <1>5 DEF Q
  <2>3. d.seq = e.seq => d = e
    BY DEF Distinct
  <2> QED BY <2>1, <2>2, <2>3, <1>1, <1>6 DEF Before
<1>8. \E x \in S : \A d \in S : d = x \/ Before(d, x)
  BY <1>7
<1> QED BY <1>8 DEF Largest

\* The user keys of a file lie between those of its first and last entry.
LEMMA FileSpan ==
  ASSUME NEW S, Distinct(S), S # {}
  PROVE  /\ Smallest(S) \in S /\ Largest(S) \in S
         /\ Smallest(S).key \in Nat /\ Largest(S).key \in Nat
         /\ \A d \in S : d.key \in Nat /\ Smallest(S).key <= d.key /\ d.key <= Largest(S).key
<1>1. \A e \in S : e.key \in Nat /\ e.seq \in Nat
  BY EntryFields DEF Distinct
<1> QED BY <1>1, HasFirst, HasLast DEF Before

-----------------------------------------------------------------------------
(* Sets in order *)

\* How many elements are before one.
Rank(S, R) == [x \in S |-> Cardinality({y \in S : <<y, x>> \in R})]

LEMMA Ranked ==
  ASSUME NEW S, IsFiniteSet(S), NEW R,
         \A x, y \in S : x = y \/ <<x, y>> \in R \/ <<y, x>> \in R,
         \A x, y, z \in S : <<x, y>> \in R /\ <<y, z>> \in R => <<x, z>> \in R,
         \A x \in S : <<x, x>> \notin R
  PROVE  /\ Cardinality(S) \in Nat
         /\ \A x \in S : Rank(S, R)[x] \in 0 .. Cardinality(S) - 1
         /\ \A x, y \in S : <<x, y>> \in R => Rank(S, R)[x] < Rank(S, R)[y]
         /\ \A i \in 0 .. Cardinality(S) - 1 : \E x \in S : Rank(S, R)[x] = i
<1> DEFINE below == [x \in S |-> {y \in S : <<y, x>> \in R}]
           rank == Rank(S, R)
           n == Cardinality(S)
<1>0. \A x \in S : rank[x] = Cardinality(below[x])
  BY DEF Rank
<1>00. \A x, y \in S : y \in below[x] <=> <<y, x>> \in R
  OBVIOUS
<1>000. \A x \in S : below[x] \in SUBSET S
  OBVIOUS
<1> HIDE DEF rank, below
<1>1. n \in Nat
  BY FS_CardinalityType
<1>2. \A x \in S : IsFiniteSet(below[x]) /\ rank[x] \in Nat
  BY <1>0, <1>000, FS_Subset, FS_CardinalityType
<1>3. ASSUME NEW x \in S PROVE rank[x] < n
  <2>1. below[x] \in SUBSET S /\ x \notin below[x]
    BY <1>00, <1>000
  <2>2. rank[x] <= n /\ (n = rank[x] => S = below[x])
    BY <1>0, <2>1, FS_Subset
  <2> HIDE DEF n
  <2> QED BY <1>1, <1>2, <2>1, <2>2
<1>4. ASSUME NEW x \in S, NEW y \in S, <<x, y>> \in R PROVE rank[x] < rank[y]
  <2>1. below[x] \in SUBSET below[y]
    BY <1>4, <1>00, <1>000
  <2>2. x \in below[y] /\ x \notin below[x]
    BY <1>4, <1>00
  <2>3. rank[x] <= rank[y] /\ (rank[y] = rank[x] => below[y] = below[x])
    BY <1>0, <1>2, <2>1, FS_Subset
  <2> QED BY <1>2, <2>2, <2>3
<1>5. \A x \in S : rank[x] \in 0 .. n - 1
  BY <1>1, <1>2, <1>3
<1>6. ASSUME NEW i \in 0 .. n - 1, \A x \in S : rank[x] # i PROVE FALSE
  <2> DEFINE T == (0 .. n - 1) \ {i}
             f == [x \in S |-> rank[x]]
  <2>2. f \in [S -> T]
    BY <1>5, <1>6
  <2>3. IsFiniteSet(0 .. n - 1) /\ Cardinality(0 .. n - 1) = n
    <3> HIDE DEF n
    <3>1. 0 \in Int /\ n - 1 \in Int
      BY <1>1
    <3> QED BY <1>1, <3>1, FS_Interval
  <2>4. IsFiniteSet(T) /\ Cardinality(T) = n - 1
    BY <2>3, FS_RemoveElement
  <2>5. Cardinality(T) < Cardinality(S)
    BY <2>4, <1>1
  <2>6. PICK x, y \in S : x # y /\ f[x] = f[y]
    <3> HIDE DEF T, f
    <3> QED BY <2>2, <2>4, <2>5, FS_PigeonHole
  <2>7. rank[x] = rank[y]
    BY <2>6
  <2>8. rank[x] < rank[y] \/ rank[y] < rank[x]
    BY <1>4, <2>6
  <2> QED BY <1>2, <2>7, <2>8
<1> QED BY <1>1, <1>4, <1>5, <1>6 DEF rank

\* l lists the elements of S in the order R.
Lists(l, S, R) ==
    /\ IsFiniteSet(S) /\ Cardinality(S) \in Nat
    /\ l \in [1 .. Cardinality(S) -> S]
    /\ \A i, j \in 1 .. Cardinality(S) : i < j => <<l[i], l[j]>> \in R
    /\ \A x \in S : \E i \in 1 .. Cardinality(S) : l[i] = x

LEMMA ListedByRank ==
  ASSUME NEW S, IsFiniteSet(S), NEW R,
         \A x, y \in S : x = y \/ <<x, y>> \in R \/ <<y, x>> \in R,
         \A x, y, z \in S : <<x, y>> \in R /\ <<y, z>> \in R => <<x, z>> \in R,
         \A x \in S : <<x, x>> \notin R,
         NEW l \in [1 .. Cardinality(S) -> S],
         \A i \in 1 .. Cardinality(S) : Rank(S, R)[l[i]] = i - 1
  PROVE  Lists(l, S, R)
<1> DEFINE rank == Rank(S, R)
           n == Cardinality(S)
<1>1. /\ n \in Nat
      /\ \A x \in S : rank[x] \in 0 .. n - 1
      /\ \A x, y \in S : <<x, y>> \in R => rank[x] < rank[y]
  BY Ranked
<1>2. \A i \in 1 .. n : l[i] \in S /\ rank[l[i]] = i - 1
  OBVIOUS
<1> HIDE DEF rank, n
<1>4. ASSUME NEW i \in 1 .. n, NEW j \in 1 .. n, i < j PROVE <<l[i], l[j]>> \in R
  <2>1. /\ l[i] \in S /\ l[j] \in S /\ rank[l[i]] = i - 1 /\ rank[l[j]] = j - 1
        /\ i - 1 < j - 1 /\ ~(j - 1 < i - 1) /\ i - 1 # j - 1
    BY <1>1, <1>2, <1>4
  <2>2. l[i] = l[j] \/ <<l[i], l[j]>> \in R \/ <<l[j], l[i]>> \in R
    BY <2>1
  <2>3. l[i] # l[j] /\ <<l[j], l[i]>> \notin R
    BY <1>1, <2>1
  <2> QED BY <2>2, <2>3
<1>5. ASSUME NEW x \in S PROVE \E i \in 1 .. n : l[i] = x
  <2>1. rank[x] \in 0 .. n - 1 /\ rank[x] + 1 \in 1 .. n /\ (rank[x] + 1) - 1 = rank[x]
    BY <1>1
  <2> DEFINE y == l[rank[x] + 1]
  <2>2. y \in S /\ rank[y] = rank[x]
    BY <1>2, <2>1
  <2>3. ~(rank[x] < rank[y]) /\ ~(rank[y] < rank[x])
    BY <2>1, <2>2
  <2>4. y = x
    BY <1>1, <2>2, <2>3
  <2> QED BY <2>1, <2>4
<1> QED BY <1>1, <1>4, <1>5 DEF Lists, n

\* The entries in order.
LEMMA InOrderLists ==
  ASSUME NEW S, Distinct(S)
  PROVE  Lists(InOrder(S), S, {p \in S \X S : Before(p[1], p[2])})
<1> DEFINE R == {p \in S \X S : Before(p[1], p[2])}
           n == Cardinality(S)
           l == InOrder(S)
<1>1. \A x, y \in S : <<x, y>> \in R <=> Before(x, y)
  OBVIOUS
<1>2. /\ \A x, y \in S : x = y \/ <<x, y>> \in R \/ <<y, x>> \in R
      /\ \A x, y, z \in S : <<x, y>> \in R /\ <<y, z>> \in R => <<x, z>> \in R
      /\ \A x \in S : <<x, x>> \notin R
  BY <1>1, BeforeOrders
<1>3. IsFiniteSet(S)
  BY DistinctIsFinite
<1>4. \A x \in S : Rank(S, R)[x] = Cardinality({y \in S : Before(y, x)})
  <2>1. \A x \in S : {y \in S : <<y, x>> \in R} = {y \in S : Before(y, x)}
    BY <1>1
  <2> HIDE DEF R
  <2> QED BY <2>1 DEF Rank
<1> HIDE DEF R
<1>5. n \in Nat /\ \A i \in 0 .. n - 1 : \E x \in S : Rank(S, R)[x] = i
  BY <1>2, <1>3, Ranked
<1>6. l = [i \in 1 .. n |-> CHOOSE x \in S : Cardinality({y \in S : Before(y, x)}) = i - 1]
  BY DEF InOrder, Ordered
<1> HIDE DEF l, n
<1>7. ASSUME NEW i \in 1 .. n PROVE l[i] \in S /\ Rank(S, R)[l[i]] = i - 1
  <2>1. i - 1 \in 0 .. n - 1
    BY <1>5
  <2>2. \E x \in S : Cardinality({y \in S : Before(y, x)}) = i - 1
    BY <1>4, <1>5, <2>1
  <2>3. l[i] = CHOOSE x \in S : Cardinality({y \in S : Before(y, x)}) = i - 1
    BY <1>6
  <2>4. l[i] \in S /\ Cardinality({y \in S : Before(y, l[i])}) = i - 1
    BY <2>2, <2>3, Zenon
  <2> QED BY <2>4, <1>4
<1>8. l \in [1 .. n -> S]
  BY <1>6, <1>7
<1>9. Lists(l, S, R)
  BY <1>2, <1>3, <1>7, <1>8, ListedByRank DEF n
<1> QED BY <1>9 DEF l, R

-----------------------------------------------------------------------------
(* Sets of files *)

\* Files that hold something; no two of them the same entry.
Good(F) == Distinct(UNION F) /\ {} \notin F
FileSet(F) == Good(F) /\ \A f, g \in F : f # g => f \cap g = {}

LEMMA GoodFile ==
  ASSUME NEW F, Good(F), NEW f \in F
  PROVE  /\ f # {} /\ Distinct(f) /\ f \subseteq UNION F
         /\ Smallest(f) \in f /\ Largest(f) \in f
         /\ \A d \in f : d = Smallest(f) \/ Before(Smallest(f), d)
         /\ \A d \in f : d = Largest(f) \/ Before(d, Largest(f))
<1>1. f # {} /\ f \in SUBSET UNION F /\ Distinct(UNION F)
  BY DEF Good
<1>2. Distinct(f)
  BY <1>1, DistinctSubset
<1> QED BY <1>1, <1>2, HasFirst, HasLast

LEMMA GoodFinite ==
  ASSUME NEW F, Good(F)
  PROVE  IsFiniteSet(F)
<1>1. IsFiniteSet(UNION F)
  BY DistinctIsFinite DEF Good
<1>2. IsFiniteSet(SUBSET UNION F) /\ F \in SUBSET SUBSET UNION F
  BY <1>1, FS_SUBSET
<1> QED BY <1>2, FS_Subset

\* The list of files is in the order of their first entries.
LEMMA SortedLists ==
  ASSUME NEW F, FileSet(F)
  PROVE  Lists(Sorted(F), F, {p \in F \X F : Before(Smallest(p[1]), Smallest(p[2]))})
<1> DEFINE R == {p \in F \X F : Before(Smallest(p[1]), Smallest(p[2]))}
           n == Cardinality(F)
           l == Sorted(F)
<1>1. \A x, y \in F : <<x, y>> \in R <=> Before(Smallest(x), Smallest(y))
  OBVIOUS
<1>a. \A x \in F : Smallest(x) \in x /\ Smallest(x) \in UNION F
  BY GoodFile DEF FileSet
<1>b. \A x, y \in F : x # y => Smallest(x) # Smallest(y)
  BY <1>a DEF FileSet
<1> DEFINE U == UNION F
<1>c. /\ \A d, e \in U : d = e \/ Before(d, e) \/ Before(e, d)
      /\ \A d, e, f \in U : Before(d, e) /\ Before(e, f) => Before(d, f)
      /\ \A e \in U : ~Before(e, e)
  BY BeforeOrders DEF FileSet, Good
<1> HIDE DEF R, U
<1>d. \A x \in F : Smallest(x) \in U
  BY <1>a DEF U
<1>2. /\ \A x, y \in F : x = y \/ <<x, y>> \in R \/ <<y, x>> \in R
      /\ \A x, y, z \in F : <<x, y>> \in R /\ <<y, z>> \in R => <<x, z>> \in R
      /\ \A x \in F : <<x, x>> \notin R
  <2>1. \A x, y \in F : x = y \/ <<x, y>> \in R \/ <<y, x>> \in R
    BY <1>1, <1>b, <1>c, <1>d
  <2>2. \A x, y, z \in F : <<x, y>> \in R /\ <<y, z>> \in R => <<x, z>> \in R
    BY <1>1, <1>c, <1>d
  <2>3. \A x \in F : <<x, x>> \notin R
    BY <1>1, <1>c, <1>d
  <2> QED BY <2>1, <2>2, <2>3
<1>3. IsFiniteSet(F)
  BY GoodFinite DEF FileSet
<1>4. \A x \in F : Rank(F, R)[x] = Cardinality({y \in F : Before(Smallest(y), Smallest(x))})
  <2>1. \A x \in F : {y \in F : <<y, x>> \in R} = {y \in F : Before(Smallest(y), Smallest(x))}
    BY <1>1
  <2> QED BY <2>1 DEF Rank
<1>5. n \in Nat /\ \A i \in 0 .. n - 1 : \E x \in F : Rank(F, R)[x] = i
  BY <1>2, <1>3, Ranked
<1>6. l = [i \in 1 .. n |->
             CHOOSE x \in F : Cardinality({y \in F : Before(Smallest(y), Smallest(x))}) = i - 1]
  BY DEF Sorted, Ordered
<1> HIDE DEF l, n
<1>7. ASSUME NEW i \in 1 .. n PROVE l[i] \in F /\ Rank(F, R)[l[i]] = i - 1
  <2>1. i - 1 \in 0 .. n - 1
    BY <1>5
  <2>2. \E x \in F : Cardinality({y \in F : Before(Smallest(y), Smallest(x))}) = i - 1
    BY <1>4, <1>5, <2>1
  <2>3. l[i] = CHOOSE x \in F : Cardinality({y \in F : Before(Smallest(y), Smallest(x))}) = i - 1
    BY <1>6
  <2>4. l[i] \in F /\ Cardinality({y \in F : Before(Smallest(y), Smallest(l[i]))}) = i - 1
    BY <2>2, <2>3, Zenon
  <2> QED BY <2>4, <1>4
<1>8. l \in [1 .. n -> F]
  BY <1>6, <1>7
<1>9. Lists(l, F, R)
  BY <1>2, <1>3, <1>7, <1>8, ListedByRank DEF n
<1> QED BY <1>9 DEF l, R

LEMMA SortedIsList ==
  ASSUME NEW F, FileSet(F)
  PROVE  /\ ToSet(Sorted(F)) = F /\ Sorted(F) \in Seq(F)
         /\ Len(Sorted(F)) = Cardinality(F) /\ Cardinality(F) \in Nat
         /\ \A i, j \in 1 .. Len(Sorted(F)) :
              i < j => Before(Smallest(Sorted(F)[i]), Smallest(Sorted(F)[j]))
<1> DEFINE l == Sorted(F)
           n == Cardinality(F)
<1>1. /\ n \in Nat /\ l \in [1 .. n -> F]
      /\ \A i, j \in 1 .. n : i < j => Before(Smallest(l[i]), Smallest(l[j]))
      /\ \A x \in F : \E i \in 1 .. n : l[i] = x
  BY SortedLists DEF Lists
<1> HIDE DEF l, n
<1>2. l \in Seq(F) /\ Len(l) = n /\ DOMAIN l = 1 .. n
  BY <1>1
<1>3. ToSet(l) = F
  BY <1>1, <1>2 DEF ToSet
<1> QED BY <1>1, <1>2, <1>3 DEF l, n

LEMMA GoodSubset ==
  ASSUME NEW F, Good(F), NEW G \in SUBSET F
  PROVE  Good(G)
<1>1. UNION G \in SUBSET UNION F
  OBVIOUS
<1> QED BY <1>1, DistinctSubset DEF Good

\* The range of user keys of some files.
LEMMA Spanned ==
  ASSUME NEW F, Good(F), F # {}
  PROVE  /\ Low(F) \in Nat /\ High(F) \in Nat /\ Low(F) <= High(F)
         /\ \A f \in F : /\ Smallest(f).key \in Nat /\ Largest(f).key \in Nat
                         /\ Smallest(f).key <= Largest(f).key
                         /\ Low(F) <= Smallest(f).key /\ Largest(f).key <= High(F)
         /\ \E f \in F : Smallest(f).key = Low(F)
         /\ \E f \in F : Largest(f).key = High(F)
<1> DEFINE U == UNION F
<1>1. U # {} /\ Distinct(U)
  BY DEF Good
<1> HIDE DEF U
<1>2. /\ Smallest(U) \in U /\ Largest(U) \in U
      /\ Smallest(U).key \in Nat /\ Largest(U).key \in Nat
      /\ \A d \in U : d.key \in Nat /\ Smallest(U).key <= d.key /\ d.key <= Largest(U).key
  BY <1>1, FileSpan
<1>3. Low(F) = Smallest(U).key /\ High(F) = Largest(U).key
  BY DEF Low, High, U
<1>4. \A f \in F : f \subseteq U /\ f # {} /\ Distinct(f)
  BY GoodFile DEF U
<1>5. \A f \in F : /\ Smallest(f) \in f /\ Largest(f) \in f
                   /\ \A d \in f : Smallest(f).key <= d.key /\ d.key <= Largest(f).key
  BY <1>4, FileSpan
<1>6. \A f \in F : /\ Smallest(f).key \in Nat /\ Largest(f).key \in Nat
                   /\ Smallest(f).key <= Largest(f).key
                   /\ Low(F) <= Smallest(f).key /\ Largest(f).key <= High(F)
  BY <1>2, <1>3, <1>4, <1>5
<1>7. PICK f \in F : Smallest(U) \in f
  BY <1>2 DEF U
<1>8. PICK g \in F : Largest(U) \in g
  BY <1>2 DEF U
<1>9. Smallest(f).key = Low(F)
  BY <1>2, <1>3, <1>5, <1>6, <1>7
<1>10. Largest(g).key = High(F)
  BY <1>2, <1>3, <1>5, <1>6, <1>8
<1>11. Low(F) \in Nat /\ High(F) \in Nat /\ Low(F) <= High(F)
  BY <1>2, <1>3
<1> QED BY <1>6, <1>9, <1>10, <1>11

\* Between the first and the last user key of the files there is none that a
\* range could have for itself.
GapFree(F) ==
    \A lo, hi \in Nat : lo <= hi /\ (\A f \in F : ~Meets(f, lo, hi)) =>
        \/ \A f \in F : Largest(f).key < lo
        \/ \A f \in F : hi < Smallest(f).key

LEMMA OneIsGapFree ==
  ASSUME NEW f, Good({f})
  PROVE  GapFree({f})
<1>1. Smallest(f).key \in Nat /\ Largest(f).key \in Nat
  BY Spanned
<1> QED BY <1>1 DEF GapFree, Meets

\* What meets the range of the files leaves no gap either.
LEMMA GapFreeGrows ==
  ASSUME NEW F, NEW G, Good(F \cup G), F # {}, GapFree(F),
         \A g \in G : Meets(g, Low(F), High(F))
  PROVE  GapFree(F \cup G)
<1>1. Good(F)
  BY GoodSubset
<1>2. /\ Low(F) \in Nat /\ High(F) \in Nat
      /\ \E f \in F : Smallest(f).key = Low(F)
      /\ \E f \in F : Largest(f).key = High(F)
  BY <1>1, Spanned
<1>3. \A f \in F \cup G : Smallest(f).key \in Nat /\ Largest(f).key \in Nat
  BY Spanned
<1> SUFFICES ASSUME NEW lo \in Nat, NEW hi \in Nat, lo <= hi,
                    \A f \in F \cup G : ~Meets(f, lo, hi)
             PROVE  \/ \A f \in F \cup G : Largest(f).key < lo
                    \/ \A f \in F \cup G : hi < Smallest(f).key
  BY DEF GapFree
<1>4. CASE \A f \in F : Largest(f).key < lo
  <2>1. High(F) < lo
    BY <1>2, <1>4
  <2>2. \A g \in G : Smallest(g).key <= High(F)
    BY DEF Meets
  <2>3. \A g \in G : Largest(g).key < lo
    BY <1>2, <1>3, <2>1, <2>2 DEF Meets
  <2> QED BY <1>4, <2>3
<1>5. CASE \A f \in F : hi < Smallest(f).key
  <2>1. hi < Low(F)
    BY <1>2, <1>5
  <2>2. \A g \in G : Low(F) <= Largest(g).key
    BY <1>2, <1>3 DEF Meets
  <2>3. \A g \in G : hi < Smallest(g).key
    BY <1>2, <1>3, <2>1, <2>2 DEF Meets
  <2> QED BY <1>5, <2>3
<1>6. (\A f \in F : Largest(f).key < lo) \/ (\A f \in F : hi < Smallest(f).key)
  BY DEF GapFree
<1> QED BY <1>4, <1>5, <1>6

-----------------------------------------------------------------------------
(* The files a compaction takes *)

LEMMA Lesser ==
  ASSUME NEW a \in Nat, NEW b \in Nat
  PROVE  /\ Min({a, b}) \in Nat /\ Min({a, b}) <= a /\ Min({a, b}) <= b
         /\ Min({a, b}) = a \/ Min({a, b}) = b
<1>1. \E x \in {a, b} : \A y \in {a, b} : x <= y
  OBVIOUS
<1>2. Min({a, b}) \in {a, b} /\ \A y \in {a, b} : Min({a, b}) <= y
  BY <1>1 DEF Min
<1> QED BY <1>2

LEMMA Greater ==
  ASSUME NEW a \in Nat, NEW b \in Nat
  PROVE  /\ Max({a, b}) \in Nat /\ a <= Max({a, b}) /\ b <= Max({a, b})
         /\ Max({a, b}) = a \/ Max({a, b}) = b
<1>1. \E x \in {a, b} : \A y \in {a, b} : x >= y
  OBVIOUS
<1>2. Max({a, b}) \in {a, b} /\ \A y \in {a, b} : Max({a, b}) >= y
  BY <1>1 DEF Max
<1> QED BY <1>2

\* Files of the level, with those that were to be taken, that leave no gap.
Fills(S, level, min, F) == S \subseteq level /\ min \subseteq S /\ GapFree(F \cup S)

IsWiden(f, files, lo, hi) ==
    f = [i \in Nat |-> IF i = 0 THEN Meeting(files, lo, hi) ELSE Widened(files, lo, hi, f[i - 1])]

LEMMA OverlappingIs ==
  ASSUME NEW lv, NEW level, NEW lo, NEW hi
  PROVE  Overlapping(lv, level, lo, hi) =
           IF level = 0 THEN (CHOOSE f : IsWiden(f, Files(lv, level), lo, hi))[Len(lv[0])]
           ELSE Meeting(Files(lv, level), lo, hi)
  BY Zenon DEF Overlapping, IsWiden

LEMMA WidenExists ==
  ASSUME NEW files, NEW lo, NEW hi
  PROVE  \E f : IsWiden(f, files, lo, hi)
<1> DEFINE D == SUBSET files
           x == Meeting(files, lo, hi)
           G == [i \in Nat |-> [d \in D |-> Widened(files, lo, hi, d)]]
<1>1. x \in D /\ \A d \in D : Widened(files, lo, hi, d) \in D
  BY DEF Widened, Meeting
<1>2. G \in [Nat -> [D -> D]]
  BY <1>1
<1>3. \A i \in Nat : \A d \in D : G[i][d] = Widened(files, lo, hi, d)
  OBVIOUS
<1> HIDE DEF D, x, G
<1>a. PICK f : IsRun(f, x, G, D)
  BY <1>1, <1>2, RunExists
<1>4. f \in [Nat -> D] /\ f[0] = x /\ \A i \in Nat : f[i + 1] = G[i + 1][f[i]]
  BY <1>a DEF IsRun
<1>5. ASSUME NEW i \in Nat
      PROVE  f[i] = IF i = 0 THEN Meeting(files, lo, hi) ELSE Widened(files, lo, hi, f[i - 1])
  <2>1. CASE i = 0
    BY <2>1, <1>4 DEF x
  <2>2. CASE i # 0
    <3>1. i - 1 \in Nat /\ (i - 1) + 1 = i
      BY <2>2
    <3>2. f[i] = G[i][f[i - 1]] /\ f[i - 1] \in D
      BY <1>4, <3>1
    <3> QED BY <1>3, <2>2, <3>2
  <2> QED BY <2>1, <2>2
<1>6. f = [i \in Nat |-> f[i]]
  BY <1>4
<1>7. IsWiden(f, files, lo, hi)
  BY <1>5, <1>6, Zenon DEF IsWiden
<1> QED BY <1>7

\* GetOverlappingInputs: every file that meets the range, and at level 0 more,
\* but none beyond a gap.
LEMMA OverlappingCorrect ==
  ASSUME NEW lv, NEW level, Len(lv[0]) \in Nat, NEW F, F # {}, GapFree(F),
         Good(F \cup Files(lv, level))
  PROVE  /\ Overlapping(lv, level, Low(F), High(F)) \subseteq Files(lv, level)
         /\ Meeting(Files(lv, level), Low(F), High(F)) \subseteq
              Overlapping(lv, level, Low(F), High(F))
         /\ GapFree(F \cup Overlapping(lv, level, Low(F), High(F)))
<1> DEFINE files == Files(lv, level)
           lo == Low(F)
           hi == High(F)
           M == Meeting(files, lo, hi)
           W == CHOOSE f : IsWiden(f, files, lo, hi)
<1>1. Good(F) /\ Good(files)
  BY GoodSubset
<1>2. lo \in Nat /\ hi \in Nat
  BY <1>1, Spanned
<1>3. M \subseteq files /\ \A g \in M : Meets(g, lo, hi)
  BY DEF Meeting
<1>4. GapFree(F \cup M)
  <2>1. Good(F \cup M)
    BY <1>3, GoodSubset
  <2> HIDE DEF M, lo, hi
  <2> QED BY <1>3, <2>1, GapFreeGrows DEF lo, hi
<1>5. IsWiden(W, files, lo, hi)
  <2>1. \E f : IsWiden(f, files, lo, hi)
    BY WidenExists
  <2> QED BY <2>1, Zenon
<1> HIDE DEF W
<1>6. W[0] = M /\ \A i \in Nat : i # 0 => W[i] = Widened(files, lo, hi, W[i - 1])
  BY <1>5 DEF IsWiden
<1> HIDE DEF M, lo, hi, files
<1> DEFINE T == {i \in Nat : Fills(W[i], files, M, F)}
<1>7. 0 \in T
  BY <1>3, <1>4, <1>6 DEF Fills
<1>8. ASSUME NEW i \in T PROVE i + 1 \in T
  <2> DEFINE found == W[i]
             new == Widened(files, lo, hi, found)
  <2>1. i \in Nat /\ Fills(found, files, M, F) /\ W[i + 1] = new
    BY <1>6
  <2> HIDE DEF found
  <2>2. CASE found = {}
    <3>1. new = found
      BY <2>2 DEF Widened
    <3>2. Fills(W[i + 1], files, M, F)
      BY <2>1, <3>1, Zenon
    <3> QED BY <2>1, <3>2
  <2>3. CASE found # {}
    <3> DEFINE a == Min({lo, Low(found)})
               b == Max({hi, High(found)})
               H == F \cup found
    <3>1. new = Meeting(files, a, b)
      BY <2>3 DEF Widened
    <3>2. Good(found) /\ Good(H) /\ H # {}
      BY <2>1, GoodSubset DEF files, Fills
    <3>3. Low(found) \in Nat /\ High(found) \in Nat
      BY <2>3, <3>2, Spanned
    <3>4. /\ a \in Nat /\ b \in Nat /\ a <= lo /\ a <= Low(found) /\ hi <= b /\ High(found) <= b
          /\ (a = lo \/ a = Low(found)) /\ (b = hi \/ b = High(found))
      BY <1>2, <3>3, Lesser, Greater
    <3> HIDE DEF a, b, H, new
    <3>5. \A g \in files : Smallest(g).key \in Nat /\ Largest(g).key \in Nat
      BY <1>1, Spanned
    <3>6. new \subseteq files /\ \A g \in files : g \in new <=> Largest(g).key >= a /\ Smallest(g).key <= b
      BY <3>1 DEF Meeting, Meets
    <3>7. ASSUME NEW g \in found PROVE g \in new
      <4>1. g \in files /\ Low(found) <= Smallest(g).key /\ Smallest(g).key <= Largest(g).key
            /\ Largest(g).key <= High(found)
        BY <2>1, <2>3, <3>2, Spanned DEF Fills
      <4>2. Smallest(g).key \in Nat /\ Largest(g).key \in Nat
        BY <3>5, <4>1
      <4> QED BY <3>3, <3>4, <3>6, <4>1, <4>2
    <3>8. Low(H) \in Nat /\ High(H) \in Nat /\ Low(H) <= a /\ b <= High(H)
      <4>1. \A f \in H : Low(H) <= Smallest(f).key /\ Largest(f).key <= High(H)
        BY <3>2, Spanned
      <4>2. Low(H) \in Nat /\ High(H) \in Nat
        BY <3>2, Spanned
      <4>3. PICK f \in F : Smallest(f).key = lo
        BY <1>1, Spanned DEF lo
      <4>4. PICK g \in found : Smallest(g).key = Low(found)
        BY <2>3, <3>2, Spanned
      <4>5. PICK j \in F : Largest(j).key = hi
        BY <1>1, Spanned DEF hi
      <4>6. PICK k \in found : Largest(k).key = High(found)
        BY <2>3, <3>2, Spanned
      <4>7. f \in H /\ g \in H /\ j \in H /\ k \in H
        BY <4>3, <4>4, <4>5, <4>6 DEF H
      <4>8. Low(H) <= lo /\ Low(H) <= Low(found) /\ hi <= High(H) /\ High(found) <= High(H)
        BY <4>1, <4>3, <4>4, <4>5, <4>6, <4>7
      <4> QED BY <4>2, <4>8, <3>4
    <3>9. \A g \in new : Meets(g, Low(H), High(H))
      BY <3>4, <3>5, <3>6, <3>8 DEF Meets
    <3>10. Good(H \cup new) /\ GapFree(H)
      BY <2>1, <3>6, GoodSubset DEF H, files, Fills
    <3>11. GapFree(H \cup new)
      BY <3>2, <3>9, <3>10, GapFreeGrows
    <3>12. H \cup new = F \cup new
      BY <3>7 DEF H
    <3>13. Fills(new, files, M, F)
      BY <2>1, <3>6, <3>7, <3>11, <3>12 DEF Fills
    <3>14. Fills(W[i + 1], files, M, F)
      BY <2>1, <3>13, Zenon DEF new
    <3> QED BY <2>1, <3>14
  <2> QED BY <2>2, <2>3
<1>9. T \in SUBSET Nat
  OBVIOUS
<1> HIDE DEF T
<1>10. T = Nat
  BY <1>7, <1>8, <1>9, SetInduction
<1>11. Fills(W[Len(lv[0])], files, M, F)
  BY <1>10 DEF T
<1>12. Overlapping(lv, level, lo, hi) = IF level = 0 THEN W[Len(lv[0])] ELSE M
  BY OverlappingIs DEF W, M, files
<1>13. Fills(M, files, M, F)
  BY <1>3, <1>4 DEF Fills
<1> QED BY <1>11, <1>12, <1>13 DEF lo, hi, files, M, Fills

IsAdd(f, level, files) == f = [i \in Nat |-> IF i = 0 THEN files ELSE WithNext(level, f[i - 1])]

LEMMA BoundaryIs ==
  ASSUME NEW level, NEW files
  PROVE  Boundary(level, files) =
           IF files = {} THEN {} ELSE (CHOOSE f : IsAdd(f, level, files))[Cardinality(level)]
  BY Zenon DEF Boundary, IsAdd

LEMMA NextInLevel ==
  ASSUME NEW level, FileSet(level), NEW files \in SUBSET level
  PROVE  /\ files \subseteq WithNext(level, files) /\ WithNext(level, files) \subseteq level
         /\ WithNext(level, files) \ files \subseteq Following(level, files)
<1> DEFINE S == Following(level, files)
<1>1. S \in SUBSET level /\ FileSet(S)
  <2>1. S \in SUBSET level
    BY DEF Following
  <2> HIDE DEF S
  <2> QED BY <2>1, GoodSubset DEF FileSet
<1>2. S # {} => Sorted(S)[1] \in S
  <2> HIDE DEF S
  <2> SUFFICES ASSUME S # {} PROVE Sorted(S)[1] \in S
    OBVIOUS
  <2>1. ToSet(Sorted(S)) = S /\ Sorted(S) \in Seq(S)
    BY <1>1, SortedIsList
  <2>2. Sorted(S) # << >>
    BY <2>1 DEF ToSet
  <2> QED BY <2>1, <2>2
<1> QED BY <1>1, <1>2 DEF WithNext

LEMMA AddExists ==
  ASSUME NEW level, FileSet(level), NEW files \in SUBSET level
  PROVE  \E f : IsAdd(f, level, files)
<1> DEFINE D == SUBSET level
           G == [i \in Nat |-> [d \in D |-> WithNext(level, d)]]
<1>1. files \in D /\ \A d \in D : WithNext(level, d) \in D
  BY NextInLevel
<1>2. G \in [Nat -> [D -> D]]
  BY <1>1
<1>3. \A i \in Nat : \A d \in D : G[i][d] = WithNext(level, d)
  OBVIOUS
<1> HIDE DEF D, G
<1>a. PICK f : IsRun(f, files, G, D)
  BY <1>1, <1>2, RunExists
<1>4. f \in [Nat -> D] /\ f[0] = files /\ \A i \in Nat : f[i + 1] = G[i + 1][f[i]]
  BY <1>a DEF IsRun
<1>5. ASSUME NEW i \in Nat
      PROVE  f[i] = IF i = 0 THEN files ELSE WithNext(level, f[i - 1])
  <2>1. CASE i = 0
    BY <2>1, <1>4
  <2>2. CASE i # 0
    <3>1. i - 1 \in Nat /\ (i - 1) + 1 = i
      BY <2>2
    <3>2. f[i] = G[i][f[i - 1]] /\ f[i - 1] \in D
      BY <1>4, <3>1
    <3> QED BY <1>3, <2>2, <3>2
  <2> QED BY <2>1, <2>2
<1>6. f = [i \in Nat |-> f[i]]
  BY <1>4
<1>7. IsAdd(f, level, files)
  BY <1>5, <1>6, Zenon DEF IsAdd
<1> QED BY <1>7

\* AddBoundaryInputs takes files of the level and leaves no gap.
LEMMA BoundaryCorrect ==
  ASSUME NEW level, FileSet(level), NEW files \in SUBSET level, files # {},
         NEW X, Good(X \cup level), GapFree(X \cup files)
  PROVE  /\ files \subseteq Boundary(level, files) /\ Boundary(level, files) \subseteq level
         /\ GapFree(X \cup Boundary(level, files))
<1> DEFINE A == CHOOSE f : IsAdd(f, level, files)
<1>1. IsAdd(A, level, files)
  <2>1. \E f : IsAdd(f, level, files)
    BY AddExists
  <2> QED BY <2>1, Zenon
<1> HIDE DEF A
<1>2. A[0] = files /\ \A i \in Nat : i # 0 => A[i] = WithNext(level, A[i - 1])
  BY <1>1 DEF IsAdd
<1> DEFINE T == {i \in Nat : Fills(A[i], level, files, X)}
<1>3. 0 \in T
  BY <1>2 DEF Fills
<1>4. ASSUME NEW i \in T PROVE i + 1 \in T
  <2> DEFINE S == A[i]
             new == WithNext(level, S)
             H == X \cup S
  <2>1. i \in Nat /\ Fills(S, level, files, X) /\ A[i + 1] = new /\ S # {}
    BY <1>2 DEF Fills
  <2> HIDE DEF S
  <2>2. S \subseteq new /\ new \subseteq level /\ new \ S \subseteq Following(level, S)
    BY <2>1, NextInLevel DEF Fills
  <2> HIDE DEF new
  <2>3. Good(S) /\ Good(H) /\ H # {} /\ Good(H \cup new)
    BY <2>1, <2>2, GoodSubset
  <2>4. High(S) \in Nat /\ \E f \in S : Largest(f).key = High(S)
    BY <2>1, <2>3, Spanned
  <2>5. /\ Low(H) \in Nat /\ High(H) \in Nat
        /\ \A f \in H : /\ Smallest(f).key \in Nat /\ Largest(f).key \in Nat
                        /\ Smallest(f).key <= Largest(f).key
                        /\ Low(H) <= Smallest(f).key /\ Largest(f).key <= High(H)
    BY <2>3, Spanned
  <2>6. Low(H) <= High(S) /\ High(S) <= High(H)
    <3>1. PICK f \in S : Largest(f).key = High(S)
      BY <2>4
    <3>2. f \in H
      OBVIOUS
    <3> HIDE DEF H
    <3>3. /\ Smallest(f).key \in Nat /\ Largest(f).key \in Nat /\ Smallest(f).key <= Largest(f).key
          /\ Low(H) <= Smallest(f).key /\ Largest(f).key <= High(H)
      BY <2>5, <3>2
    <3> QED BY <2>4, <2>5, <3>1, <3>3
  <2>7. ASSUME NEW g \in new \ S PROVE Meets(g, Low(H), High(H))
    <3>1. Smallest(g).key = High(S)
      BY <2>2 DEF Following
    <3>2. Smallest(g).key \in Nat /\ Largest(g).key \in Nat /\ Smallest(g).key <= Largest(g).key
      BY <2>3, Spanned DEF Fills
    <3> QED BY <2>4, <2>5, <2>6, <3>1, <3>2 DEF Meets
  <2>8. GapFree(H)
    BY <2>1 DEF Fills
  <2>9. GapFree(H \cup (new \ S))
    <3>1. Good(H \cup (new \ S))
      BY <2>3, GoodSubset
    <3> HIDE DEF H
    <3> QED BY <2>3, <2>7, <2>8, <3>1, GapFreeGrows
  <2>10. H \cup (new \ S) = X \cup new
    BY <2>2
  <2>11. Fills(new, level, files, X)
    BY <2>1, <2>2, <2>9, <2>10 DEF Fills
  <2>12. Fills(A[i + 1], level, files, X)
    BY <2>1, <2>11, Zenon
  <2> QED BY <2>1, <2>12
<1>5. T \in SUBSET Nat
  OBVIOUS
<1> HIDE DEF T
<1>6. T = Nat
  BY <1>3, <1>4, <1>5, SetInduction
<1>7. Cardinality(level) \in Nat
  BY GoodFinite, FS_CardinalityType DEF FileSet
<1>8. Fills(A[Cardinality(level)], level, files, X)
  BY <1>6, <1>7 DEF T
<1>9. Boundary(level, files) = A[Cardinality(level)]
  BY BoundaryIs DEF A
<1> QED BY <1>8, <1>9 DEF Fills

-----------------------------------------------------------------------------
(* What a compaction takes *)

\* A level as Builder leaves it; below level 0 its files do not overlap.
LevelOK(lv, l) ==
    /\ FileSet(Files(lv, l)) /\ lv[l] = Sorted(Files(lv, l))
    /\ l > 0 => \A f, g \in Files(lv, l) : f = g \/ Apart(f, g)
LevelsOK(lv) ==
    /\ \A l \in Levels : LevelOK(lv, l)
    /\ Distinct(UNION {UNION Files(lv, l) : l \in Levels})

\* The inputs of a compaction leave no gap, and what stays at the level of its
\* output is apart from all of them.
CompOK(c, lv) ==
    /\ c.level \in 0 .. NumLevels - 2
    /\ c.in0 # {} /\ c.in0 \subseteq Files(lv, c.level) /\ c.in1 \subseteq Files(lv, c.level + 1)
    /\ GapFree(c.in0 \cup c.in1)
    /\ \A g \in Files(lv, c.level + 1) \ c.in1 : Apart(g, UNION (c.in0 \cup c.in1))

LEMMA LevelList ==
  ASSUME NEW lv, NEW l, LevelOK(lv, l)
  PROVE  lv[l] \in Seq(Files(lv, l)) /\ Len(lv[l]) \in Nat /\ Good(Files(lv, l))
<1>1. FileSet(Files(lv, l)) /\ lv[l] = Sorted(Files(lv, l))
  BY DEF LevelOK
<1>2. lv[l] \in Seq(Files(lv, l))
  BY <1>1, SortedIsList
<1> QED BY <1>1, <1>2 DEF FileSet

LEMMA LevelsGood ==
  ASSUME NEW lv, LevelsOK(lv), NEW l \in Levels, NEW m \in Levels,
         NEW F, F \subseteq Files(lv, l) \cup Files(lv, m)
  PROVE  Good(F)
<1> DEFINE W == UNION {UNION Files(lv, k) : k \in Levels}
<1>1. Distinct(W)
  BY DEF LevelsOK
<1>2. UNION Files(lv, l) \subseteq W /\ UNION Files(lv, m) \subseteq W
  OBVIOUS
<1> HIDE DEF W
<1>3. UNION F \in SUBSET W
  BY <1>2
<1>4. {} \notin Files(lv, l) /\ {} \notin Files(lv, m)
  BY DEF LevelsOK, LevelOK, FileSet, Good
<1> QED BY <1>1, <1>3, <1>4, DistinctSubset DEF Good

\* A file that keeps away from the user keys of some files is apart from them.
LEMMA ApartByKeys ==
  ASSUME NEW f, NEW g, Distinct(f), Distinct(g), f # {}, g # {},
         Largest(f).key < Smallest(g).key
  PROVE  AllBefore(f, g)
<1>1. /\ \A d \in f : d.key \in Nat /\ d.key <= Largest(f).key
      /\ \A d \in g : d.key \in Nat /\ Smallest(g).key <= d.key
      /\ Largest(f).key \in Nat /\ Smallest(g).key \in Nat
  BY FileSpan
<1> QED BY <1>1 DEF AllBefore, Before

\* What is left at the level below is apart from all that is taken.
LEMMA RestApart ==
  ASSUME NEW zero, NEW next, zero # {}, Good(zero \cup next),
         \A f, g \in next : f = g \/ Apart(f, g),
         NEW g \in next, ~Meets(g, Low(zero), High(zero))
  PROVE  Apart(g, UNION (zero \cup Meeting(next, Low(zero), High(zero))))
<1> DEFINE lo == Low(zero)
           hi == High(zero)
           one == Meeting(next, lo, hi)
<1>1. Good(zero) /\ Good(next)
  BY GoodSubset
<1>2. /\ lo \in Nat /\ hi \in Nat /\ lo <= hi
      /\ \A f \in zero : /\ Smallest(f).key \in Nat /\ Largest(f).key \in Nat
                         /\ lo <= Smallest(f).key /\ Largest(f).key <= hi
  BY <1>1, Spanned
<1>3. \A f \in next : /\ Smallest(f).key \in Nat /\ Largest(f).key \in Nat
                      /\ Smallest(f).key <= Largest(f).key
  BY <1>1, Spanned
<1>4. \A f \in zero \cup next : f # {} /\ Distinct(f) /\ Smallest(f) \in f /\ Largest(f) \in f
  BY GoodFile
<1>5. one \subseteq next /\ \A h \in one : Largest(h).key >= lo /\ Smallest(h).key <= hi
  BY DEF Meeting, Meets
<1>6. Largest(g).key < lo \/ hi < Smallest(g).key
  BY <1>2, <1>3 DEF Meets
<1> HIDE DEF lo, hi, one
<1>7. CASE Largest(g).key < lo
  <2>1. ASSUME NEW f \in zero PROVE AllBefore(g, f)
    BY <1>2, <1>3, <1>4, <1>7, ApartByKeys
  <2>2. ASSUME NEW h \in one PROVE AllBefore(g, h)
    <3>1. Largest(h).key > Largest(g).key
      BY <1>2, <1>3, <1>5, <1>7
    <3>2. ~Before(Largest(h), Largest(g))
      BY <3>1, <1>3, <1>5 DEF Before
    <3>3. ~AllBefore(h, g)
      BY <3>2, <1>4, <1>5 DEF AllBefore
    <3>4. h # g
      BY <3>1, <1>3
    <3> QED BY <1>5, <3>3, <3>4 DEF Apart
  <2> QED BY <2>1, <2>2 DEF AllBefore, Apart, one, lo, hi
<1>8. CASE hi < Smallest(g).key
  <2>1. ASSUME NEW f \in zero PROVE AllBefore(f, g)
    BY <1>2, <1>3, <1>4, <1>8, ApartByKeys
  <2>2. ASSUME NEW h \in one PROVE AllBefore(h, g)
    <3>1. Smallest(h).key < Smallest(g).key
      BY <1>2, <1>3, <1>5, <1>8
    <3>2. ~Before(Smallest(g), Smallest(h))
      BY <3>1, <1>3, <1>5 DEF Before
    <3>3. ~AllBefore(g, h)
      BY <3>2, <1>4, <1>5 DEF AllBefore
    <3>4. h # g
      BY <3>1, <1>3
    <3> QED BY <1>5, <3>3, <3>4 DEF Apart
  <2> QED BY <2>1, <2>2 DEF AllBefore, Apart, one, lo, hi
<1> QED BY <1>6, <1>7, <1>8

\* SetupOtherInputs
LEMMA InputsCorrect ==
  ASSUME NEW lv, LevelsOK(lv), NEW level \in 0 .. NumLevels - 2,
         NEW first, first # {}, first \subseteq Files(lv, level), GapFree(first)
  PROVE  CompOK(Inputs(lv, level, first), lv)
<1> DEFINE here == Files(lv, level)
           next == Files(lv, level + 1)
           zero == Boundary(here, first)
           one == Overlapping(lv, level + 1, Low(zero), High(zero))
           range == zero \cup one
           wide == Overlapping(lv, level, Low(range), High(range))
           more == Boundary(here, wide)
           one2 == Overlapping(lv, level + 1, Low(more), High(more))
           expand == /\ one # {}
                     /\ Cardinality(more) > Cardinality(zero)
                     /\ Size(one) + Size(more) < Expanded
                     /\ Cardinality(one2) = Cardinality(one)
           in0 == IF expand THEN more ELSE zero
           in1 == IF expand THEN one2 ELSE one
           c == Inputs(lv, level, first)
<1>1. c.level = level /\ c.in0 = in0 /\ c.in1 = in1
  BY DEF Inputs
<1>2. level \in Levels /\ level + 1 \in Levels /\ 0 \in Levels /\ level + 1 # 0 /\ level + 1 > 0
  BY VersionConstants DEF Levels
<1>3. /\ LevelOK(lv, level) /\ LevelOK(lv, level + 1) /\ Len(lv[0]) \in Nat
      /\ FileSet(here) /\ \A f, g \in next : f = g \/ Apart(f, g)
  BY <1>2, LevelList DEF LevelsOK, LevelOK
<1>4. \A F : F \subseteq here \cup next => Good(F)
  BY <1>2, LevelsGood
<1>5. \A lo, hi : Overlapping(lv, level + 1, lo, hi) = Meeting(next, lo, hi)
  BY <1>2, OverlappingIs
<1> HIDE DEF here, next, c
<1>6. first \subseteq zero /\ zero \subseteq here /\ GapFree(zero)
  <2>1. {} \cup first = first /\ {} \cup here = here /\ Good({} \cup here) /\ GapFree({} \cup first)
    BY <1>4
  <2>2. first \subseteq zero /\ zero \subseteq here /\ GapFree({} \cup zero)
    <3> HIDE DEF zero
    <3> QED BY <1>3, <2>1, BoundaryCorrect DEF zero, here
  <2> QED BY <2>2
<1> HIDE DEF zero
<1>7. zero # {}
  BY <1>6
<1>8. one = Meeting(next, Low(zero), High(zero)) /\ one \subseteq next
  BY <1>5 DEF Meeting
<1> HIDE DEF one
<1>9. GapFree(zero \cup one)
  <2>1. Good(zero \cup one) /\ \A g \in one : Meets(g, Low(zero), High(zero))
    BY <1>4, <1>6, <1>8 DEF Meeting
  <2> QED BY <1>6, <1>7, <2>1, GapFreeGrows
<1>10. CASE ~expand
  <2>1. in0 = zero /\ in1 = one
    BY <1>10
  <2>2. ASSUME NEW g \in next \ one PROVE Apart(g, UNION (zero \cup one))
    <3>1. ~Meets(g, Low(zero), High(zero)) /\ Good(zero \cup next)
      BY <1>4, <1>6, <1>8 DEF Meeting
    <3> QED BY <1>3, <1>7, <1>8, <3>1, RestApart
  <2> HIDE DEF in0, in1
  <2> QED BY <1>1, <1>6, <1>7, <1>8, <1>9, <2>1, <2>2 DEF CompOK, here, next, c
<1>11. CASE expand
  <2>1. in0 = more /\ in1 = one2 /\ Cardinality(one2) = Cardinality(one)
    BY <1>11
  <2> HIDE DEF in0, in1, expand
  <2>2. Good(range) /\ range # {} /\ Good(range \cup here) /\ GapFree(range)
    BY <1>4, <1>6, <1>7, <1>8, <1>9
  <2>3. wide \subseteq here /\ Meeting(here, Low(range), High(range)) \subseteq wide
        /\ GapFree(range \cup wide)
    <3> HIDE DEF range
    <3> QED BY <1>3, <2>2, OverlappingCorrect DEF here
  <2>4. zero \subseteq wide
    <3> SUFFICES ASSUME NEW f \in zero PROVE f \in Meeting(here, Low(range), High(range))
      BY <2>3
    <3>1. f \in range /\ f \in here
      BY <1>6
    <3> HIDE DEF range
    <3>2. /\ Low(range) \in Nat /\ High(range) \in Nat
          /\ Smallest(f).key \in Nat /\ Largest(f).key \in Nat
          /\ Smallest(f).key <= Largest(f).key
          /\ Low(range) <= Smallest(f).key /\ Largest(f).key <= High(range)
      BY <2>2, <3>1, Spanned
    <3> QED BY <3>1, <3>2 DEF Meeting, Meets
  <2> HIDE DEF wide
  <2>5. wide \subseteq more /\ more \subseteq here /\ GapFree(range \cup more)
    <3> HIDE DEF range, more
    <3> QED BY <1>3, <1>7, <2>2, <2>3, <2>4, BoundaryCorrect DEF more
  <2> HIDE DEF more
  <2>6. zero \subseteq more /\ more # {}
    BY <1>7, <2>4, <2>5
  <2>7. one2 = Meeting(next, Low(more), High(more)) /\ one2 \subseteq next
    BY <1>5 DEF Meeting
  <2> HIDE DEF one2
  <2>8. Low(more) <= Low(zero) /\ High(zero) <= High(more)
        /\ Low(more) \in Nat /\ High(more) \in Nat /\ Low(zero) \in Nat /\ High(zero) \in Nat
    <3>1. Good(more) /\ Good(zero)
      BY <1>4, <1>6, <2>5
    <3>2. /\ Low(more) \in Nat /\ High(more) \in Nat
          /\ \A f \in more : Low(more) <= Smallest(f).key /\ Largest(f).key <= High(more)
      BY <2>6, <3>1, Spanned
    <3>3. /\ Low(zero) \in Nat /\ High(zero) \in Nat
          /\ \E f \in zero : Smallest(f).key = Low(zero)
          /\ \E f \in zero : Largest(f).key = High(zero)
      BY <1>7, <3>1, Spanned
    <3> QED BY <2>6, <3>2, <3>3
  <2>9. one \subseteq one2
    <3>1. \A g \in next : Smallest(g).key \in Nat /\ Largest(g).key \in Nat
      BY <1>4, Spanned
    <3> QED BY <1>8, <2>7, <2>8, <3>1 DEF Meeting, Meets
  <2>10. one2 = one
    <3>1. IsFiniteSet(one2)
      BY <1>4, <2>7, GoodFinite
    <3> QED BY <2>1, <2>9, <3>1, FS_Subset
  <2>11. GapFree(more \cup one)
    <3>1. range \cup more = more \cup one
      BY <2>6
    <3> QED BY <2>5, <3>1
  <2>12. ASSUME NEW g \in next \ one2 PROVE Apart(g, UNION (more \cup one2))
    <3>1. ~Meets(g, Low(more), High(more)) /\ Good(more \cup next)
      BY <1>4, <2>5, <2>7 DEF Meeting
    <3> QED BY <1>3, <2>6, <2>7, <3>1, RestApart
  <2> QED BY <1>1, <2>1, <2>5, <2>6, <2>7, <2>10, <2>11, <2>12 DEF CompOK, here, next, c
<1> QED BY <1>10, <1>11

-----------------------------------------------------------------------------
(* The merging loop *)

IsAfter(f, c, list, n) ==
    f = [i \in 0 .. n |-> IF i = 0 THEN MergeStart ELSE MergeStep(c, f[i - 1], list[i])]

LEMMA MergeIs ==
  ASSUME NEW c
  PROVE  LET list == InOrder(UNION (c.in0 \cup c.in1))
             done == (CHOOSE f : IsAfter(f, c, list, Len(list)))[Len(list)]
         IN  Merge(c) = (done.outs \cup {done.cur}) \ {{}}
  BY Zenon DEF Merge, IsAfter

LEMMA AfterExists ==
  ASSUME NEW c, NEW list
  PROVE  \A n \in Nat : \E f : IsAfter(f, c, list, n)
<1> DEFINE T == {n \in Nat : \E f : IsAfter(f, c, list, n)}
<1>1. 0 \in T
  <2> DEFINE f == [i \in 0 .. 0 |-> MergeStart]
  <2>1. f = [i \in 0 .. 0 |-> IF i = 0 THEN MergeStart ELSE MergeStep(c, f[i - 1], list[i])]
    OBVIOUS
  <2> QED BY <2>1 DEF IsAfter
<1>2. ASSUME NEW n \in T PROVE n + 1 \in T
  <2>1. PICK f : IsAfter(f, c, list, n)
    OBVIOUS
  <2>2. n \in Nat /\ \A i \in 0 .. n : f[i] = IF i = 0 THEN MergeStart ELSE MergeStep(c, f[i - 1], list[i])
    BY <2>1, Zenon DEF IsAfter
  <2> DEFINE g == [i \in 0 .. n + 1 |-> IF i <= n THEN f[i] ELSE MergeStep(c, f[n], list[n + 1])]
  <2>3. ASSUME NEW i \in 0 .. n + 1
        PROVE  g[i] = IF i = 0 THEN MergeStart ELSE MergeStep(c, g[i - 1], list[i])
    <3>1. CASE i = 0
      BY <2>2, <3>1
    <3>2. CASE i # 0 /\ i <= n
      <4>1. i - 1 \in 0 .. n + 1 /\ i - 1 <= n /\ i \in 0 .. n
        BY <2>2, <3>2
      <4>2. g[i - 1] = f[i - 1] /\ g[i] = f[i]
        BY <3>2, <4>1
      <4> HIDE DEF g
      <4> QED BY <2>2, <3>2, <4>1, <4>2
    <3>3. CASE i = n + 1
      <4>1. i - 1 = n /\ ~(i <= n) /\ i # 0 /\ n \in 0 .. n + 1 /\ n <= n
        BY <2>2, <3>3
      <4>2. g[i] = MergeStep(c, f[n], list[n + 1]) /\ g[i - 1] = f[n]
        BY <4>1
      <4> HIDE DEF g
      <4> QED BY <3>3, <4>1, <4>2
    <3> QED BY <2>2, <3>1, <3>2, <3>3
  <2>4. g = [i \in 0 .. n + 1 |-> g[i]]
    OBVIOUS
  <2> HIDE DEF g
  <2>5. g = [i \in 0 .. n + 1 |-> IF i = 0 THEN MergeStart ELSE MergeStep(c, g[i - 1], list[i])]
    BY <2>3, <2>4
  <2> QED BY <2>2, <2>5 DEF IsAfter
<1>3. T \in SUBSET Nat
  OBVIOUS
<1> HIDE DEF T
<1>4. T = Nat
  BY <1>1, <1>2, <1>3, SetInduction
<1> QED BY <1>4 DEF T

\* The files written so far hold entries that were read, in order: none of
\* them overlaps another or the one being written.
Merged(acc, read) ==
    /\ acc.cur \subseteq read /\ \A o \in acc.outs : o \subseteq read
    /\ \A o \in acc.outs : AllBefore(o, acc.cur)
    /\ \A o, p \in acc.outs : o = p \/ Apart(o, p)

LEMMA MergeStepCorrect ==
  ASSUME NEW c, NEW acc, NEW read, NEW e, Merged(acc, read), \A d \in read : Before(d, e)
  PROVE  Merged(MergeStep(c, acc, e), read \cup {e})
<1> DEFINE stop == Overlap(c, acc, e) > GrandParents
           outs == IF stop THEN acc.outs \cup {acc.cur} ELSE acc.outs
           cur == IF stop THEN {} ELSE acc.cur
           last == IF e.key # acc.key THEN MaxSeq + 1 ELSE acc.last
           drop == \/ last <= c.smallest
                   \/ e.del /\ e.seq <= c.smallest /\ IsBaseLevel(c, e.key)
           cur2 == IF drop THEN cur ELSE cur \cup {e}
           full == Cardinality(cur2) >= MaxFile
           outs2 == IF full THEN outs \cup {cur2} ELSE outs
           cur3 == IF full THEN {} ELSE cur2
<1>1. MergeStep(c, acc, e).outs = outs2 /\ MergeStep(c, acc, e).cur = cur3
  BY DEF MergeStep
<1>2. /\ cur \subseteq read /\ \A o \in outs : o \subseteq read
      /\ \A o \in outs : AllBefore(o, cur)
      /\ \A o, p \in outs : o = p \/ Apart(o, p)
  <2> HIDE DEF stop
  <2> QED BY DEF Merged, AllBefore, Apart
<1>3. cur2 = cur \/ cur2 = cur \cup {e}
  <2> HIDE DEF drop, cur
  <2> QED OBVIOUS
<1> HIDE DEF outs, cur, cur2
<1>4. /\ cur2 \subseteq read \cup {e} /\ \A o \in outs : o \subseteq read \cup {e}
      /\ \A o \in outs : AllBefore(o, cur2)
  BY <1>2, <1>3 DEF AllBefore
<1>5. (outs2 = outs /\ cur3 = cur2) \/ (outs2 = outs \cup {cur2} /\ cur3 = {})
  <2> HIDE DEF full
  <2> QED OBVIOUS
<1> HIDE DEF outs2, cur3
<1>6. /\ cur3 \subseteq read \cup {e} /\ \A o \in outs2 : o \subseteq read \cup {e}
      /\ \A o \in outs2 : AllBefore(o, cur3)
      /\ \A o, p \in outs2 : o = p \/ Apart(o, p)
  <2>1. CASE outs2 = outs /\ cur3 = cur2
    BY <1>2, <1>4, <2>1
  <2>2. CASE outs2 = outs \cup {cur2} /\ cur3 = {}
    BY <1>2, <1>4, <2>2 DEF AllBefore, Apart
  <2> QED BY <1>5, <2>1, <2>2
<1> QED BY <1>1, <1>6 DEF Merged

\* A run of the loop over the n entries of list.
IsMerge(A, list, n, c, U) ==
    /\ n \in Nat /\ list \in [1 .. n -> U]
    /\ \A i, j \in 1 .. n : i < j => Before(list[i], list[j])
    /\ \A e \in U : \E i \in 1 .. n : list[i] = e
    /\ A[0] = MergeStart
    /\ \A i \in Nat : i + 1 <= n => A[i + 1] = MergeStep(c, A[i], list[i + 1])
    /\ Merge(c) = (A[n].outs \cup {A[n].cur}) \ {{}}

LEMMA MergeRuns ==
  ASSUME NEW c, NEW U, U = UNION (c.in0 \cup c.in1), Distinct(U)
  PROVE  \E A, list, n : IsMerge(A, list, n, c, U)
<1> DEFINE n == Cardinality(U)
           list == InOrder(U)
           A == CHOOSE f : IsAfter(f, c, list, Len(list))
<1>1. Lists(list, U, {p \in U \X U : Before(p[1], p[2])})
  BY InOrderLists
<1>2. /\ n \in Nat /\ list \in [1 .. n -> U]
      /\ \A i, j \in 1 .. n : i < j => Before(list[i], list[j])
      /\ \A e \in U : \E i \in 1 .. n : list[i] = e
  BY <1>1 DEF Lists
<1> HIDE DEF n, list
<1>3. Len(list) = n
  BY <1>2
<1>4. IsAfter(A, c, list, n)
  <2>1. \E f : IsAfter(f, c, list, Len(list))
    BY <1>2, <1>3, AfterExists
  <2>2. IsAfter(A, c, list, Len(list))
    BY <2>1, Zenon
  <2> HIDE DEF A
  <2> QED BY <2>2, <1>3
<1>5. Merge(c) = (A[n].outs \cup {A[n].cur}) \ {{}}
  BY <1>3, MergeIs DEF list
<1> HIDE DEF A
<1>6. \A i \in 0 .. n : A[i] = IF i = 0 THEN MergeStart ELSE MergeStep(c, A[i - 1], list[i])
  BY <1>4, Zenon DEF IsAfter
<1>7. A[0] = MergeStart
  BY <1>2, <1>6
<1>8. ASSUME NEW i \in Nat, i + 1 <= n PROVE A[i + 1] = MergeStep(c, A[i], list[i + 1])
  <2>1. i + 1 \in 0 .. n /\ i + 1 # 0 /\ (i + 1) - 1 = i
    BY <1>2, <1>8
  <2> QED BY <1>6, <2>1
<1>9. IsMerge(A, list, n, c, U)
  BY <1>2, <1>5, <1>7, <1>8 DEF IsMerge
<1> QED BY <1>9

\* The entries read in i rounds.
Read(list, i) == {list[j] : j \in 1 .. i}

LEMMA ReadNext ==
  ASSUME NEW A, NEW list, NEW n, NEW c, NEW U, IsMerge(A, list, n, c, U), NEW i \in Nat, i + 1 <= n
  PROVE  /\ Read(list, i + 1) = Read(list, i) \cup {list[i + 1]}
         /\ Read(list, i) \cup {list[i + 1]} \subseteq U
         /\ \A d \in Read(list, i) : Before(d, list[i + 1])
<1>1. /\ n \in Nat /\ list \in [1 .. n -> U]
      /\ \A j, k \in 1 .. n : j < k => Before(list[j], list[k])
  BY DEF IsMerge
<1>2. i + 1 \in 1 .. n /\ \A j \in 1 .. i : j \in 1 .. n /\ j < i + 1
  BY <1>1
<1>3. 1 .. (i + 1) = (1 .. i) \cup {i + 1}
  OBVIOUS
<1>4. Read(list, i + 1) = Read(list, i) \cup {list[i + 1]}
  BY <1>3 DEF Read
<1> QED BY <1>1, <1>2, <1>4 DEF Read

\* The outputs of a compaction hold entries of its inputs and do not overlap.
LEMMA MergeCorrect ==
  ASSUME NEW c, NEW U, U = UNION (c.in0 \cup c.in1), Distinct(U)
  PROVE  /\ \A o \in Merge(c) : o # {} /\ o \subseteq U
         /\ \A o, p \in Merge(c) : o = p \/ Apart(o, p)
<1>1. PICK A, list, n : IsMerge(A, list, n, c, U)
  BY MergeRuns
<1>2. /\ n \in Nat /\ list \in [1 .. n -> U] /\ A[0] = MergeStart
      /\ Merge(c) = (A[n].outs \cup {A[n].cur}) \ {{}}
  BY <1>1 DEF IsMerge
<1> DEFINE T == {i \in Nat : i <= n => Merged(A[i], Read(list, i))}
<1>3. 0 \in T
  <2>1. Merged(MergeStart, Read(list, 0))
    BY DEF Merged, MergeStart
  <2> QED BY <1>2, <2>1
<1>4. ASSUME NEW i \in T PROVE i + 1 \in T
  <2> SUFFICES ASSUME i + 1 <= n PROVE Merged(A[i + 1], Read(list, i + 1))
    OBVIOUS
  <2>1. i \in Nat /\ i <= n /\ Merged(A[i], Read(list, i))
    BY <1>2
  <2>2. A[i + 1] = MergeStep(c, A[i], list[i + 1])
    BY <1>1, <2>1 DEF IsMerge
  <2>3. /\ Read(list, i + 1) = Read(list, i) \cup {list[i + 1]}
        /\ \A d \in Read(list, i) : Before(d, list[i + 1])
    BY <1>1, <2>1, ReadNext
  <2>4. Merged(MergeStep(c, A[i], list[i + 1]), Read(list, i) \cup {list[i + 1]})
    BY <2>1, <2>3, MergeStepCorrect
  <2> QED BY <2>2, <2>3, <2>4
<1>5. T \in SUBSET Nat
  OBVIOUS
<1> HIDE DEF T
<1>6. T = Nat
  BY <1>3, <1>4, <1>5, SetInduction
<1>7. Merged(A[n], Read(list, n))
  BY <1>2, <1>6 DEF T
<1>8. Read(list, n) \subseteq U
  BY <1>2 DEF Read
<1>9. \A o \in Merge(c) : o # {} /\ o \subseteq U
  BY <1>2, <1>7, <1>8 DEF Merged
<1>10. \A o, p \in Merge(c) : o = p \/ Apart(o, p)
  BY <1>2, <1>7 DEF Merged, Apart
<1> QED BY <1>9, <1>10

-----------------------------------------------------------------------------
(* Where a compaction starts *)

IsLoop(f, list, target, n) ==
    f = [i \in 0 .. n |-> IF i = 0 THEN [left |-> 0, right |-> n]
                          ELSE Narrowed(list, target, f[i - 1])]

LEMMA FindFileIs ==
  ASSUME NEW list, NEW target
  PROVE  FindFile(list, target) =
           (CHOOSE f : IsLoop(f, list, target, Len(list)))[Len(list)].right + 1
  BY Zenon DEF FindFile, IsLoop

\* The bounds of the binary search stay within the list.
Bounds(n) == [left : 0 .. n, right : 0 .. n]

LEMMA NarrowedInside ==
  ASSUME NEW list, NEW target, NEW n \in Nat, NEW s \in Bounds(n)
  PROVE  Narrowed(list, target, s) \in Bounds(n)
<1> DEFINE mid == (s.left + s.right) \div 2
<1>1. s.left \in 0 .. n /\ s.right \in 0 .. n
  BY DEF Bounds
<1>2. s.left < s.right => mid \in 0 .. n /\ mid + 1 \in 0 .. n
  BY <1>1
<1> HIDE DEF mid
<1>3. \A k \in 0 .. n : [s EXCEPT !.left = k] \in Bounds(n) /\ [s EXCEPT !.right = k] \in Bounds(n)
  BY DEF Bounds
<1>4. Narrowed(list, target, s) =
        IF s.left >= s.right THEN s
        ELSE IF Before(Largest(list[mid + 1]), target) THEN [s EXCEPT !.left = mid + 1]
        ELSE [s EXCEPT !.right = mid]
  BY DEF Narrowed, mid
<1>5. CASE s.left >= s.right
  BY <1>4, <1>5
<1>6. CASE s.left < s.right
  BY <1>1, <1>2, <1>3, <1>4, <1>6
<1> QED BY <1>1, <1>5, <1>6

LEMMA LoopExists ==
  ASSUME NEW list, NEW target, NEW n \in Nat
  PROVE  \E f : IsLoop(f, list, target, n) /\ f \in [0 .. n -> Bounds(n)]
<1> DEFINE D == Bounds(n)
           x == [left |-> 0, right |-> n]
           G == [i \in Nat |-> [d \in D |-> Narrowed(list, target, d)]]
<1>1. x \in D /\ \A d \in D : Narrowed(list, target, d) \in D
  <2>1. x \in D
    BY DEF Bounds
  <2> QED BY <2>1, NarrowedInside
<1>2. G \in [Nat -> [D -> D]]
  BY <1>1
<1>3. \A i \in Nat : \A d \in D : G[i][d] = Narrowed(list, target, d)
  OBVIOUS
<1> HIDE DEF D, x, G
<1>4. PICK h : IsRun(h, x, G, D)
  BY <1>1, <1>2, RunExists
<1>5. h \in [Nat -> D] /\ h[0] = x /\ \A i \in Nat : h[i + 1] = G[i + 1][h[i]]
  BY <1>4 DEF IsRun
<1> DEFINE f == [i \in 0 .. n |-> h[i]]
<1>6. ASSUME NEW i \in 0 .. n
      PROVE  f[i] = IF i = 0 THEN x ELSE Narrowed(list, target, f[i - 1])
  <2>1. CASE i = 0
    BY <2>1, <1>5
  <2>2. CASE i # 0
    <3>1. i \in Nat /\ i - 1 \in Nat /\ (i - 1) + 1 = i /\ i - 1 \in 0 .. n
      BY <2>2
    <3>2. h[i] = G[i][h[i - 1]] /\ h[i - 1] \in D
      BY <1>5, <3>1
    <3>3. f[i] = h[i] /\ f[i - 1] = h[i - 1]
      BY <3>1
    <3> QED BY <1>3, <2>2, <3>1, <3>2, <3>3
  <2> QED BY <2>1, <2>2
<1>7. f = [i \in 0 .. n |-> f[i]] /\ f \in [0 .. n -> D]
  BY <1>5
<1> HIDE DEF f
<1>8. f = [i \in 0 .. n |-> IF i = 0 THEN x ELSE Narrowed(list, target, f[i - 1])]
  BY <1>6, <1>7
<1>9. IsLoop(f, list, target, n)
  BY <1>8 DEF IsLoop, x
<1> QED BY <1>7, <1>9 DEF D

\* FindFile gives a place in the list, or the one after it.
LEMMA FindFileInside ==
  ASSUME NEW list, NEW target, Len(list) \in Nat
  PROVE  FindFile(list, target) \in Nat /\ FindFile(list, target) >= 1
<1> DEFINE n == Len(list)
           f == CHOOSE g : IsLoop(g, list, target, n)
<1>1. IsLoop(f, list, target, n)
  <2>1. \E g : IsLoop(g, list, target, n)
    BY LoopExists
  <2> QED BY <2>1, Zenon
<1>0. FindFile(list, target) = f[n].right + 1
  BY FindFileIs
<1> HIDE DEF f, n
<1>00. n \in Nat
  BY DEF n
<1>2. \A i \in 0 .. n : f[i] = IF i = 0 THEN [left |-> 0, right |-> n]
                               ELSE Narrowed(list, target, f[i - 1])
  BY <1>1, Zenon DEF IsLoop
<1> DEFINE T == {i \in Nat : i <= n => f[i] \in Bounds(n)}
<1>3. 0 \in T
  <2>1. f[0] = [left |-> 0, right |-> n]
    BY <1>00, <1>2
  <2>2. [left |-> 0, right |-> n] \in Bounds(n)
    BY <1>00 DEF Bounds
  <2> QED BY <2>1, <2>2
<1>4. ASSUME NEW i \in T PROVE i + 1 \in T
  <2> SUFFICES ASSUME i + 1 <= n PROVE f[i + 1] \in Bounds(n)
    OBVIOUS
  <2>1. i \in Nat /\ i <= n /\ i + 1 \in 0 .. n /\ i + 1 # 0 /\ (i + 1) - 1 = i
    BY <1>00
  <2>2. f[i + 1] = Narrowed(list, target, f[i]) /\ f[i] \in Bounds(n)
    BY <1>2, <2>1
  <2> QED BY <1>00, <2>2, NarrowedInside
<1>5. T \in SUBSET Nat
  OBVIOUS
<1> HIDE DEF T
<1>6. T = Nat
  BY <1>3, <1>4, <1>5, SetInduction
<1>7. f[n] \in Bounds(n)
  BY <1>00, <1>6 DEF T
<1> QED BY <1>0, <1>00, <1>7 DEF Bounds

\* The newest entry decides which of two files at level 0 is read first.
LEMMA NewestOrders ==
  ASSUME NEW F, FileSet(F)
  PROVE  /\ \A f, g \in F : f = g \/ NewestFirst(f, g) \/ NewestFirst(g, f)
         /\ \A f, g, h \in F : NewestFirst(f, g) /\ NewestFirst(g, h) => NewestFirst(f, h)
         /\ \A f \in F : ~NewestFirst(f, f)
<1> DEFINE top == [f \in F |-> Max({e.seq : e \in f})]
<1>1. ASSUME NEW f \in F PROVE top[f] \in Nat /\ \E e \in f : top[f] = e.seq
  <2> DEFINE Q == {e.seq : e \in f}
  <2>1. f # {} /\ Distinct(f)
    BY GoodFile DEF FileSet
  <2>2. \A e \in f : e.seq \in Nat /\ e.seq <= MaxSeq
    BY <2>1, EntryFields DEF Distinct
  <2>3. Q \in SUBSET Nat /\ Q # {} /\ MaxSeq \in Nat /\ \A q \in Q : q <= MaxSeq
    BY <2>1, <2>2, VersionConstants
  <2>4. top[f] = Max(Q)
    OBVIOUS
  <2>5. Max(Q) \in Q
    <3> HIDE DEF Q
    <3>1. \E x \in Q : \A y \in Q : y <= x
      BY <2>3, GreatestElement
    <3>2. \E x \in Q : \A y \in Q : x >= y
      BY <2>3, <3>1
    <3> QED BY <3>2 DEF Max
  <2> QED BY <2>2, <2>4, <2>5
<1>2. \A f, g \in F : NewestFirst(f, g) <=> top[f] > top[g]
  BY DEF NewestFirst
<1> HIDE DEF top
<1>3. ASSUME NEW f \in F, NEW g \in F, top[f] = top[g] PROVE f = g
  <2>1. PICK d \in f : top[f] = d.seq
    BY <1>1
  <2>2. PICK e \in g : top[g] = e.seq
    BY <1>1
  <2>3. d = e
    BY <1>3, <2>1, <2>2 DEF FileSet, Good, Distinct
  <2> QED BY <2>3 DEF FileSet
<1> QED BY <1>1, <1>2, <1>3

\* The files of level 0 as a lookup visits them.
LEMMA NewestListed ==
  ASSUME NEW F, FileSet(F)
  PROVE  /\ Cardinality(F) \in Nat
         /\ DOMAIN Ordered(F, NewestFirst) = 1 .. Cardinality(F)
         /\ \A i \in 1 .. Cardinality(F) : Ordered(F, NewestFirst)[i] \in F
         /\ \A i, j \in 1 .. Cardinality(F) :
              i < j => NewestFirst(Ordered(F, NewestFirst)[i], Ordered(F, NewestFirst)[j])
         /\ \A f \in F : \E i \in 1 .. Cardinality(F) : Ordered(F, NewestFirst)[i] = f
<1> DEFINE R == {p \in F \X F : NewestFirst(p[1], p[2])}
           n == Cardinality(F)
           l == Ordered(F, NewestFirst)
<1>1. \A x, y \in F : <<x, y>> \in R <=> NewestFirst(x, y)
  OBVIOUS
<1> HIDE DEF R
<1>2. /\ \A x, y \in F : x = y \/ <<x, y>> \in R \/ <<y, x>> \in R
      /\ \A x, y, z \in F : <<x, y>> \in R /\ <<y, z>> \in R => <<x, z>> \in R
      /\ \A x \in F : <<x, x>> \notin R
  BY <1>1, NewestOrders
<1>3. IsFiniteSet(F)
  BY GoodFinite DEF FileSet
<1>4. \A x \in F : Rank(F, R)[x] = Cardinality({y \in F : NewestFirst(y, x)})
  <2>1. \A x \in F : {y \in F : <<y, x>> \in R} = {y \in F : NewestFirst(y, x)}
    BY <1>1
  <2> QED BY <2>1 DEF Rank
<1>5. n \in Nat /\ \A i \in 0 .. n - 1 : \E x \in F : Rank(F, R)[x] = i
  BY <1>2, <1>3, Ranked
<1>6. l = [i \in 1 .. n |-> CHOOSE x \in F : Cardinality({y \in F : NewestFirst(y, x)}) = i - 1]
  BY DEF Ordered
<1> HIDE DEF l, n
<1>7. ASSUME NEW i \in 1 .. n PROVE l[i] \in F /\ Rank(F, R)[l[i]] = i - 1
  <2>1. i - 1 \in 0 .. n - 1
    BY <1>5
  <2>2. \E x \in F : Cardinality({y \in F : NewestFirst(y, x)}) = i - 1
    BY <1>4, <1>5, <2>1
  <2>3. l[i] = CHOOSE x \in F : Cardinality({y \in F : NewestFirst(y, x)}) = i - 1
    BY <1>6
  <2>4. l[i] \in F /\ Cardinality({y \in F : NewestFirst(y, l[i])}) = i - 1
    BY <2>2, <2>3, Zenon
  <2> QED BY <2>4, <1>4
<1>8. l \in [1 .. n -> F]
  BY <1>6, <1>7
<1>9. Lists(l, F, R)
  BY <1>2, <1>3, <1>7, <1>8, ListedByRank DEF n
<1>10. \A i, j \in 1 .. n : i < j => NewestFirst(l[i], l[j])
  BY <1>1, <1>7, <1>9 DEF Lists, n
<1>11. \A f \in F : \E i \in 1 .. n : l[i] = f
  BY <1>9 DEF Lists, n
<1> QED BY <1>5, <1>7, <1>8, <1>10, <1>11 DEF l, n

\* Levels in order.
LEMMA NumbersListed ==
  ASSUME NEW N \in Nat, NEW S, S \subseteq 0 .. N
  PROVE  /\ Cardinality(S) \in Nat
         /\ DOMAIN Ordered(S, <) = 1 .. Cardinality(S)
         /\ \A i \in 1 .. Cardinality(S) : Ordered(S, <)[i] \in S
         /\ \A i, j \in 1 .. Cardinality(S) : i < j => Ordered(S, <)[i] < Ordered(S, <)[j]
         /\ \A x \in S : \E i \in 1 .. Cardinality(S) : Ordered(S, <)[i] = x
<1> DEFINE R == {p \in S \X S : p[1] < p[2]}
           n == Cardinality(S)
<1>1. \A x, y \in S : <<x, y>> \in R <=> x < y
  OBVIOUS
<1> HIDE DEF R
<1>2. /\ \A x, y \in S : x = y \/ <<x, y>> \in R \/ <<y, x>> \in R
      /\ \A x, y, z \in S : <<x, y>> \in R /\ <<y, z>> \in R => <<x, z>> \in R
      /\ \A x \in S : <<x, x>> \notin R
  BY <1>1
<1>3. IsFiniteSet(S)
  <2>1. IsFiniteSet(0 .. N)
    <3>1. 0 \in Int /\ N \in Int
      OBVIOUS
    <3> QED BY <3>1, FS_Interval
  <2> QED BY <2>1, FS_Subset
<1>4. \A x \in S : Rank(S, R)[x] = Cardinality({y \in S : y < x})
  <2>1. \A x \in S : {y \in S : <<y, x>> \in R} = {y \in S : y < x}
    BY <1>1
  <2> QED BY <2>1 DEF Rank
<1>5. n \in Nat /\ \A i \in 0 .. n - 1 : \E x \in S : Rank(S, R)[x] = i
  BY ONLY <1>2, <1>3, Ranked
<1> DEFINE l == Ordered(S, <)
<1>6. l = [i \in 1 .. n |-> CHOOSE x \in S : Cardinality({y \in S : y < x}) = i - 1]
  BY DEF Ordered
<1> HIDE DEF l, n
<1>7. ASSUME NEW i \in 1 .. n PROVE l[i] \in S /\ Rank(S, R)[l[i]] = i - 1
  <2>1. i - 1 \in 0 .. n - 1
    BY <1>5
  <2>2. \E x \in S : Cardinality({y \in S : y < x}) = i - 1
    BY <1>4, <1>5, <2>1
  <2>3. l[i] = CHOOSE x \in S : Cardinality({y \in S : y < x}) = i - 1
    BY <1>6
  <2>4. l[i] \in S /\ Cardinality({y \in S : y < l[i]}) = i - 1
    BY <2>2, <2>3, Zenon
  <2> QED BY <2>4, <1>4
<1>8. l \in [1 .. n -> S]
  BY <1>6, <1>7
<1>9. Lists(l, S, R)
  BY <1>2, <1>3, <1>7, <1>8, ListedByRank DEF n
<1>10. \A i, j \in 1 .. n : i < j => l[i] < l[j]
  BY <1>1, <1>7, <1>9 DEF Lists, n
<1>11. \A x \in S : \E i \in 1 .. n : l[i] = x
  BY <1>9 DEF Lists, n
<1> QED BY <1>5, <1>7, <1>8, <1>10, <1>11 DEF l, n

\* What a lookup visits: files of the version, level by level and at level 0
\* the newest first, and all that may hold the key.
VisitsInOrder(V, lv, target) ==
    /\ Len(V) \in Nat /\ DOMAIN V = 1 .. Len(V)
    /\ \A i \in 1 .. Len(V) : V[i].level \in Levels /\ V[i].file \in Files(lv, V[i].level)
    /\ \A i, j \in 1 .. Len(V) : i < j =>
         \/ V[i].level < V[j].level
         \/ V[i].level = 0 /\ V[j].level = 0 /\ NewestFirst(V[i].file, V[j].file)
    /\ \A f \in Files(lv, 0) : Covers(f, target.key) =>
         \E i \in 1 .. Len(V) : V[i].file = f
    /\ \A l \in 1 .. NumLevels - 1 :
         /\ FindFile(lv[l], target) <= Len(lv[l])
         /\ Smallest(lv[l][FindFile(lv[l], target)]).key <= target.key
         => \E i \in 1 .. Len(V) : V[i].file = lv[l][FindFile(lv[l], target)]

LEMMA VisitedInOrder ==
  ASSUME NEW lv, \A l \in Levels : LevelOK(lv, l), NEW target
  PROVE  VisitsInOrder(Visited(lv, target), lv, target)
<1> DEFINE Z == {f \in Files(lv, 0) : Covers(f, target.key)}
           zero == Ordered(Z, NewestFirst)
           at == [l \in Levels |-> FindFile(lv[l], target)]
           S == {l \in 1 .. NumLevels - 1 :
                   at[l] <= Len(lv[l]) /\ Smallest(lv[l][at[l]]).key <= target.key}
           deep == Ordered(S, <)
           A == [i \in DOMAIN zero |-> [file |-> zero[i], level |-> 0]]
           B == [i \in DOMAIN deep |-> [file |-> lv[deep[i]][at[deep[i]]], level |-> deep[i]]]
           n == Cardinality(Z)
           m == Cardinality(S)
           V == Visited(lv, target)
<1>0. NumLevels \in Nat /\ NumLevels > 2 /\ 0 \in Levels
  BY VersionConstants DEF Levels
<1>1. FileSet(Z)
  <2>1. FileSet(Files(lv, 0)) /\ Z \in SUBSET Files(lv, 0)
    BY <1>0 DEF LevelOK
  <2> HIDE DEF Z
  <2> QED BY <2>1, GoodSubset DEF FileSet
<1>2. /\ n \in Nat /\ DOMAIN zero = 1 .. n /\ \A i \in 1 .. n : zero[i] \in Files(lv, 0)
      /\ \A i, j \in 1 .. n : i < j => NewestFirst(zero[i], zero[j])
      /\ \A f \in Z : \E i \in 1 .. n : zero[i] = f
  <2>1. Z \subseteq Files(lv, 0)
    OBVIOUS
  <2> HIDE DEF Z
  <2> QED BY <1>1, <2>1, NewestListed
<1>3. S \subseteq 0 .. NumLevels - 1 /\ NumLevels - 1 \in Nat
  BY <1>0
<1>4. /\ m \in Nat /\ DOMAIN deep = 1 .. m
      /\ \A i \in 1 .. m : deep[i] \in S
      /\ \A i, j \in 1 .. m : i < j => deep[i] < deep[j]
      /\ \A l \in S : \E i \in 1 .. m : deep[i] = l
  <2> HIDE DEF S
  <2> QED BY <1>3, NumbersListed
<1>5. \A l \in S : /\ l \in Levels /\ l \in 1 .. NumLevels - 1
                   /\ lv[l][at[l]] \in Files(lv, l)
  <2> SUFFICES ASSUME NEW l \in S
               PROVE  l \in Levels /\ l \in 1 .. NumLevels - 1 /\ lv[l][at[l]] \in Files(lv, l)
    OBVIOUS
  <2>1. l \in Levels /\ l \in 1 .. NumLevels - 1 /\ at[l] <= Len(lv[l])
    BY <1>0 DEF Levels
  <2>2. lv[l] \in Seq(Files(lv, l)) /\ Len(lv[l]) \in Nat
    BY <2>1, LevelList
  <2>3. at[l] \in Nat /\ at[l] >= 1
    BY <2>1, <2>2, FindFileInside
  <2> HIDE DEF at
  <2>4. at[l] \in 1 .. Len(lv[l])
    BY <2>1, <2>2, <2>3
  <2> QED BY <2>1, <2>2, <2>4
<1>a. \A l \in 1 .. NumLevels - 1 : at[l] = FindFile(lv[l], target)
  BY <1>0 DEF Levels
<1>6. V = A \o B
  <2>2. S = {l \in 1 .. NumLevels - 1 :
              /\ FindFile(lv[l], target) <= Len(lv[l])
              /\ Smallest(lv[l][FindFile(lv[l], target)]).key <= target.key}
    BY <1>a
  <2>3. \A i \in DOMAIN deep : at[deep[i]] = FindFile(lv[deep[i]], target)
    BY <1>4, <1>5
  <2> HIDE DEF at
  <2>4. B = [i \in DOMAIN deep |-> [file |-> lv[deep[i]][FindFile(lv[deep[i]], target)],
                                    level |-> deep[i]]]
    BY <2>3
  <2> QED BY <2>2, <2>4 DEF Visited
<1>b. \A l \in 1 .. NumLevels - 1 :
        /\ FindFile(lv[l], target) <= Len(lv[l])
        /\ Smallest(lv[l][FindFile(lv[l], target)]).key <= target.key
        => l \in S
  BY <1>a
<1>c. \A f \in Files(lv, 0) : Covers(f, target.key) => f \in Z
  OBVIOUS
<1> HIDE DEF V, Z, S, zero, deep, at
<1>7. /\ DOMAIN A = 1 .. n /\ \A i \in 1 .. n : A[i].level = 0 /\ A[i].file = zero[i]
      /\ DOMAIN B = 1 .. m /\ \A i \in 1 .. m : B[i].level = deep[i] /\ B[i].file = lv[deep[i]][at[deep[i]]]
  BY <1>2, <1>4
<1>d. A = [i \in 1 .. n |-> A[i]] /\ B = [i \in 1 .. m |-> B[i]]
  BY <1>2, <1>4
<1> HIDE DEF A, B, n, m
<1>8. /\ Len(V) = n + m /\ DOMAIN V = 1 .. n + m
      /\ \A i \in 1 .. n : V[i] = A[i]
      /\ \A i \in 1 .. n + m : i > n => i - n \in 1 .. m /\ V[i] = B[i - n]
  <2> DEFINE X == {A[i] : i \in 1 .. n} \cup {B[i] : i \in 1 .. m}
  <2>1. A \in [1 .. n -> X] /\ B \in [1 .. m -> X]
    BY <1>d
  <2> HIDE DEF X
  <2>2. A \in Seq(X) /\ B \in Seq(X) /\ Len(A) = n /\ Len(B) = m
    BY <1>2, <1>4, <2>1
  <2> HIDE DEF V
  <2>a. V \in Seq(X)
    BY ONLY <1>6, <2>2
  <2>b. Len(V) = n + m
    <3>1. n \in Nat /\ m \in Nat
      BY <1>2, <1>4
    <3>2. Len(A \o B) = Len(A) + Len(B)
      BY ONLY <2>2
    <3> QED BY ONLY <1>6, <2>2, <3>1, <3>2
  <2>3. V \in Seq(X) /\ Len(V) = n + m
    BY <2>a, <2>b
  <2>4. \A i \in 1 .. n + m : V[i] = IF i <= n THEN A[i] ELSE B[i - n]
    BY <1>6, <2>2
  <2>5. DOMAIN V = 1 .. n + m
    BY <2>3
  <2>6. \A i \in 1 .. n : i \in 1 .. n + m /\ i <= n
    BY <1>2, <1>4
  <2>7. \A i \in 1 .. n + m : i > n => i - n \in 1 .. m /\ ~(i <= n)
    BY <1>2, <1>4
  <2> QED BY <2>3, <2>4, <2>5, <2>6, <2>7
<1>9. n + m \in Nat
  BY <1>2, <1>4
<1>10. ASSUME NEW i \in 1 .. n + m PROVE V[i].level \in Levels /\ V[i].file \in Files(lv, V[i].level)
  <2>1. CASE i <= n
    <3>1. i \in 1 .. n
      BY <1>2, <1>4, <2>1
    <3> QED BY <1>0, <1>2, <1>7, <1>8, <3>1
  <2>2. CASE i > n
    BY <1>4, <1>5, <1>7, <1>8, <2>2
  <2> QED BY <1>2, <1>4, <2>1, <2>2
<1>11. ASSUME NEW i \in 1 .. n + m, NEW j \in 1 .. n + m, i < j
       PROVE  \/ V[i].level < V[j].level
              \/ V[i].level = 0 /\ V[j].level = 0 /\ NewestFirst(V[i].file, V[j].file)
  <2>1. CASE j <= n
    <3>1. i \in 1 .. n /\ j \in 1 .. n
      BY <1>2, <1>4, <1>11, <2>1
    <3> QED BY <1>2, <1>7, <1>8, <1>11, <3>1
  <2>2. CASE i <= n /\ j > n
    <3>1. i \in 1 .. n /\ j - n \in 1 .. m
      BY <1>2, <1>4, <1>8, <2>2
    <3>2. V[i].level = 0 /\ V[j].level \in 1 .. NumLevels - 1
      BY <1>4, <1>5, <1>7, <1>8, <2>2, <3>1
    <3> QED BY <3>2
  <2>3. CASE i > n
    <3>1. i - n \in 1 .. m /\ j - n \in 1 .. m /\ i - n < j - n /\ j > n
      BY <1>2, <1>4, <1>8, <1>11, <2>3
    <3>2. V[i].level = deep[i - n] /\ V[j].level = deep[j - n]
      BY <1>7, <1>8, <2>3, <3>1
    <3> QED BY <1>4, <3>1, <3>2
  <2> QED BY <1>2, <1>4, <2>1, <2>2, <2>3
<1>12. ASSUME NEW f \in Files(lv, 0), Covers(f, target.key)
       PROVE  \E i \in 1 .. n + m : V[i].file = f
  <2>1. PICK i \in 1 .. n : zero[i] = f
    BY <1>2, <1>c, <1>12
  <2>2. i \in 1 .. n + m
    BY <1>2, <1>4
  <2> QED BY <1>7, <1>8, <2>1, <2>2
<1>13. ASSUME NEW l \in 1 .. NumLevels - 1,
              FindFile(lv[l], target) <= Len(lv[l]),
              Smallest(lv[l][FindFile(lv[l], target)]).key <= target.key
       PROVE  \E i \in 1 .. n + m : V[i].file = lv[l][FindFile(lv[l], target)]
  <2>1. PICK i \in 1 .. m : deep[i] = l
    BY <1>4, <1>b, <1>13
  <2>2. n + i \in 1 .. n + m /\ n + i > n /\ (n + i) - n = i
    BY <1>2, <1>4
  <2>3. V[n + i].file = lv[l][at[l]]
    BY <1>7, <1>8, <2>1, <2>2
  <2> QED BY <1>a, <2>2, <2>3
<1>14. VisitsInOrder(V, lv, target)
  <2>1. \A i \in 1 .. Len(V) : V[i].level \in Levels /\ V[i].file \in Files(lv, V[i].level)
    BY <1>8, <1>10
  <2>2. \A i, j \in 1 .. Len(V) : i < j =>
          \/ V[i].level < V[j].level
          \/ V[i].level = 0 /\ V[j].level = 0 /\ NewestFirst(V[i].file, V[j].file)
    BY <1>8, <1>11
  <2> QED BY <1>8, <1>9, <1>12, <1>13, <2>1, <2>2 DEF VisitsInOrder
<1> QED BY <1>14 DEF V

\* The first file that a lookup visits, when it visits two, is not at the last
\* level: there is one below to compact it into.
LEMMA FirstVisited ==
  ASSUME NEW lv, \A l \in Levels : LevelOK(lv, l), NEW target,
         Len(Visited(lv, target)) >= 2
  PROVE  /\ Visited(lv, target)[1].level \in 0 .. NumLevels - 2
         /\ Visited(lv, target)[1].file \in Files(lv, Visited(lv, target)[1].level)
<1> DEFINE V == Visited(lv, target)
<1>1. VisitsInOrder(V, lv, target)
  BY VisitedInOrder
<1> HIDE DEF V
<1>2. 1 \in 1 .. Len(V) /\ 2 \in 1 .. Len(V) /\ 1 < 2
  BY <1>1 DEF VisitsInOrder, V
<1>3. /\ V[1].level \in Levels /\ V[1].file \in Files(lv, V[1].level) /\ V[2].level \in Levels
      /\ V[1].level < V[2].level \/ V[1].level = 0
  BY <1>1, <1>2 DEF VisitsInOrder
<1>4. V[1].level \in 0 .. NumLevels - 2
  BY <1>3, VersionConstants DEF Levels
<1> QED BY <1>3, <1>4 DEF V

\* Fractions are compared by their products.
LEMMA HigherTrans ==
  ASSUME NEW a \in Nat, NEW p \in Nat \ {0}, NEW b \in Nat, NEW q \in Nat \ {0},
         NEW c \in Nat, NEW r \in Nat \ {0}, a * q > b * p, ~(c * q > b * r)
  PROVE  a * r > c * p
<1>1. (a * q) * r > (b * p) * r
  BY SMT
<1>2. (b * r) * p >= (c * q) * p
  BY SMT
<1>3. (b * p) * r = (b * r) * p /\ (a * q) * r = (a * r) * q /\ (c * q) * p = (c * p) * q
  BY SMT
<1>4. (a * r) * q > (c * p) * q
  BY <1>1, <1>2, <1>3, SMT
<1>5. a * r \in Nat /\ c * p \in Nat
  BY SMT
<1>6. \A x, y \in Nat : x * q > y * q => x > y
  BY SMT
<1> QED BY <1>4, <1>5, <1>6

LEMMA ScoredType ==
  ASSUME NEW lv, \A l \in Levels : LevelOK(lv, l), NEW l \in 0 .. NumLevels - 2
  PROVE  Scored(lv, l).n \in Nat /\ Scored(lv, l).d \in Nat \ {0}
<1>1. l \in Levels /\ 0 \in Levels /\ (l # 0 => l \in 1 .. NumLevels - 2)
  BY VersionConstants DEF Levels
<1>2. Len(lv[0]) \in Nat
  BY <1>1, LevelList
<1>3. Size(Files(lv, l)) \in Nat
  <2>1. Distinct(UNION Files(lv, l))
    BY <1>1, LevelList DEF Good
  <2> QED BY <2>1, DistinctIsFinite, FS_CardinalityType DEF Size
<1>4. L0Trigger \in Nat \ {0} /\ (l # 0 => LevelSize[l] \in Nat \ {0})
  BY <1>1, VersionConstants
<1> QED BY <1>2, <1>3, <1>4 DEF Scored

\* Finalize finds a level.
LEMMA BestLevelExists ==
  ASSUME NEW lv, \A l \in Levels : LevelOK(lv, l)
  PROVE  BestLevel(lv) \in 0 .. NumLevels - 2
<1> DEFINE n == [l \in 0 .. NumLevels - 2 |-> Scored(lv, l).n]
           d == [l \in 0 .. NumLevels - 2 |-> Scored(lv, l).d]
           H == [a \in 0 .. NumLevels - 2 |-> [b \in 0 .. NumLevels - 2 |-> n[a] * d[b] > n[b] * d[a]]]
           Best(l, k) == \A m \in 0 .. k : ~H[m][l] /\ (m < l => H[l][m])
           T == {k \in Nat : k <= NumLevels - 2 => \E l \in 0 .. k : Best(l, k)}
<1>0. NumLevels - 2 \in Nat
  BY VersionConstants
<1>1. \A l \in 0 .. NumLevels - 2 : n[l] \in Nat /\ d[l] \in Nat \ {0}
  BY ScoredType
<1>2. \A a, b \in 0 .. NumLevels - 2 : H[a][b] <=> n[a] * d[b] > n[b] * d[a]
  OBVIOUS
<1>3. \A a, b \in 0 .. NumLevels - 2 : Higher(Scored(lv, a), Scored(lv, b)) <=> H[a][b]
  BY DEF Higher
<1> HIDE DEF n, d, H
<1>4. \A a, b, c \in 0 .. NumLevels - 2 : H[a][b] /\ ~H[c][b] => H[a][c]
  <2> SUFFICES ASSUME NEW a \in 0 .. NumLevels - 2, NEW b \in 0 .. NumLevels - 2,
                      NEW c \in 0 .. NumLevels - 2, H[a][b], ~H[c][b]
               PROVE  H[a][c]
    OBVIOUS
  <2>1. n[a] * d[b] > n[b] * d[a] /\ ~(n[c] * d[b] > n[b] * d[c])
    BY <1>2
  <2>2. n[a] * d[c] > n[c] * d[a]
    BY <1>1, <2>1, HigherTrans
  <2> QED BY <1>2, <2>2
<1>5. \A a, c \in 0 .. NumLevels - 2 : H[a][c] => ~H[c][a]
  <2> SUFFICES ASSUME NEW a \in 0 .. NumLevels - 2, NEW c \in 0 .. NumLevels - 2, H[a][c], H[c][a]
               PROVE  FALSE
    OBVIOUS
  <2> DEFINE x == n[a] * d[c]
             y == n[c] * d[a]
  <2>1. x > y /\ y > x
    BY <1>2
  <2>2. x \in Int /\ y \in Int
    BY <1>1
  <2> HIDE DEF x, y
  <2> QED BY <2>1, <2>2
<1>6. 0 \in T
  <2>1. ~H[0][0]
    BY <1>0, <1>5
  <2>2. Best(0, 0)
    BY <2>1
  <2> QED BY <2>2
<1>7. ASSUME NEW k \in T PROVE k + 1 \in T
  <2> SUFFICES ASSUME k + 1 <= NumLevels - 2 PROVE \E l \in 0 .. k + 1 : Best(l, k + 1)
    OBVIOUS
  <2>1. k \in Nat /\ k <= NumLevels - 2 /\ k + 1 \in 0 .. NumLevels - 2
    BY <1>0
  <2>2. PICK l \in 0 .. k : Best(l, k)
    BY <2>1
  <2>3. l \in 0 .. NumLevels - 2 /\ l < k + 1 /\ l \in 0 .. k + 1 /\ k + 1 \in 0 .. k + 1
    BY <1>0, <2>1
  <2>4. \A m \in 0 .. k + 1 : m \in 0 .. NumLevels - 2 /\ (m = k + 1 \/ m \in 0 .. k)
    BY <1>0, <2>1
  <2>5. CASE H[k + 1][l]
    <3>1. ASSUME NEW m \in 0 .. k + 1 PROVE ~H[m][k + 1] /\ (m < k + 1 => H[k + 1][m])
      <4>1. CASE m = k + 1
        BY <1>5, <2>1, <4>1
      <4>2. CASE m \in 0 .. k
        <5>1. ~H[m][l] /\ m \in 0 .. NumLevels - 2
          BY <2>2, <2>4, <4>2
        <5>2. H[k + 1][m]
          BY <1>4, <2>1, <2>3, <2>5, <5>1
        <5> QED BY <1>5, <2>1, <5>1, <5>2
      <4> QED BY <2>4, <4>1, <4>2
    <3>2. Best(k + 1, k + 1)
      BY <3>1
    <3> QED BY <2>3, <3>2
  <2>6. CASE ~H[k + 1][l]
    <3>1. Best(l, k + 1)
      BY <2>2, <2>3, <2>4, <2>6
    <3> QED BY <2>3, <3>1
  <2> QED BY <2>5, <2>6
<1>8. T \in SUBSET Nat
  OBVIOUS
<1> HIDE DEF T
<1>9. T = Nat
  BY <1>6, <1>7, <1>8, SetInduction
<1>10. PICK l \in 0 .. NumLevels - 2 : Best(l, NumLevels - 2)
  BY <1>0, <1>9 DEF T
<1>11. \E x \in 0 .. NumLevels - 2 : \A m \in 0 .. NumLevels - 2 :
         /\ ~Higher(Scored(lv, m), Scored(lv, x))
         /\ m < x => Higher(Scored(lv, x), Scored(lv, m))
  BY <1>3, <1>10
<1> QED BY <1>11, Zenon DEF BestLevel

\* PickCompaction by size: the level is not empty and a file of it is taken.
LEMMA FirstFileInLevel ==
  ASSUME \A l \in Levels : LevelOK(levels, l), NeedsSize(levels)
  PROVE  /\ BestLevel(levels) \in 0 .. NumLevels - 2
         /\ FirstFile(BestLevel(levels)) \in Files(levels, BestLevel(levels))
<1> DEFINE l == BestLevel(levels)
           list == levels[l]
           after == {i \in DOMAIN list : pointer[l] = NoKey
                                           \/ Before(pointer[l], Largest(list[i]))}
<1>1. l \in 0 .. NumLevels - 2
  BY BestLevelExists
<1> HIDE DEF l
<1>2. l \in Levels /\ LevelOK(levels, l)
  BY <1>1, VersionConstants DEF Levels
<1>3. list \in Seq(Files(levels, l)) /\ Len(list) \in Nat
  BY <1>2, LevelList
<1>4. list # << >>
  <2>1. Scored(levels, l).n > 0
    <3>1. Scored(levels, l).n \in Nat /\ Scored(levels, l).d \in Nat \ {0}
      BY <1>1, ScoredType
    <3>2. Scored(levels, l).n >= Scored(levels, l).d
      BY DEF NeedsSize, l
    <3> QED BY <3>1, <3>2
  <2>2. CASE l = 0
    BY <1>3, <2>1, <2>2 DEF Scored
  <2>3. CASE l # 0
    <3>1. Cardinality(UNION Files(levels, l)) > 0
      BY <2>1, <2>3 DEF Scored, Size
    <3>2. Files(levels, l) # {}
      <4> SUFFICES ASSUME Files(levels, l) = {} PROVE FALSE
        OBVIOUS
      <4>1. UNION Files(levels, l) = {}
        OBVIOUS
      <4> QED BY <3>1, <4>1, FS_EmptySet
    <3> QED BY <1>3, <3>2 DEF Files, ToSet
  <2> QED BY <2>2, <2>3
<1>5. FirstFile(l) = IF after = {} THEN list[1] ELSE list[Min(after)]
  BY DEF FirstFile
<1>6. after # {} => Min(after) \in after
  <2> SUFFICES ASSUME after # {} PROVE Min(after) \in after
    OBVIOUS
  <2>1. after \in SUBSET Nat
    BY <1>3
  <2> HIDE DEF after
  <2>2. \E x \in after : \A y \in after : x <= y
    BY <2>1, LeastElement
  <2> QED BY <2>2 DEF Min
<1>7. FirstFile(l) \in Files(levels, l)
  <2>1. \A i \in DOMAIN list : list[i] \in Files(levels, l)
    BY <1>3
  <2>2. 1 \in DOMAIN list
    BY <1>3, <1>4
  <2>3. after \subseteq DOMAIN list
    OBVIOUS
  <2> HIDE DEF after, list
  <2> QED BY <1>5, <1>6, <2>1, <2>2, <2>3
<1> QED BY <1>1, <1>7 DEF l

\* No other file of the level meets the range of these.
Closed(level, S) == \A g \in level \ S : ~Meets(g, Low(S), High(S))

LEMMA WidenedGrows ==
  ASSUME NEW files, Good(files), NEW lo \in Nat, NEW hi \in Nat,
         NEW found, found \subseteq files, found # {}
  PROVE  /\ found \subseteq Widened(files, lo, hi, found)
         /\ Widened(files, lo, hi, found) = found => Closed(files, found)
<1> DEFINE a == Min({lo, Low(found)})
           b == Max({hi, High(found)})
<1>1. Good(found)
  BY GoodSubset
<1>2. /\ Low(found) \in Nat /\ High(found) \in Nat
      /\ \A g \in found : /\ Low(found) <= Smallest(g).key /\ Smallest(g).key <= Largest(g).key
                          /\ Largest(g).key <= High(found)
  BY <1>1, Spanned
<1>3. \A g \in files : Smallest(g).key \in Nat /\ Largest(g).key \in Nat
  BY Spanned
<1>4. a \in Nat /\ b \in Nat /\ a <= Low(found) /\ High(found) <= b
  BY <1>2, Lesser, Greater
<1>5. Widened(files, lo, hi, found) = Meeting(files, a, b)
  BY DEF Widened
<1> HIDE DEF a, b
<1>6. \A g \in files : g \in Widened(files, lo, hi, found) <=>
        Largest(g).key >= a /\ Smallest(g).key <= b
  BY <1>5 DEF Meeting, Meets
<1>7. found \subseteq Widened(files, lo, hi, found)
  BY <1>2, <1>3, <1>4, <1>6
<1>8. ASSUME Widened(files, lo, hi, found) = found, NEW g \in files \ found
      PROVE  ~Meets(g, Low(found), High(found))
  BY <1>2, <1>3, <1>4, <1>6, <1>8 DEF Meets
<1> QED BY <1>7, <1>8 DEF Closed

\* The search of GetOverlappingInputs has nothing more to find when it ends:
\* each round that goes on adds a file.
Progress(S, T, level, i) ==
    /\ S \subseteq level /\ S \subseteq T
    /\ T = S \/ Cardinality(S) >= i + 1

LEMMA OverlappingClosed ==
  ASSUME NEW lv, LevelOK(lv, 0), NEW lo \in Nat, NEW hi \in Nat,
         NEW S, S = Overlapping(lv, 0, lo, hi), S # {}
  PROVE  S \subseteq Files(lv, 0) /\ Closed(Files(lv, 0), S)
<1> DEFINE files == Files(lv, 0)
           n == Cardinality(files)
           W == CHOOSE f : IsWiden(f, files, lo, hi)
<1>1. IsWiden(W, files, lo, hi)
  <2>1. \E f : IsWiden(f, files, lo, hi)
    BY WidenExists
  <2> QED BY <2>1, Zenon
<1>2. S = W[Len(lv[0])]
  BY OverlappingIs
<1> HIDE DEF W
<1>3. W[0] = Meeting(files, lo, hi) /\ \A i \in Nat : i # 0 => W[i] = Widened(files, lo, hi, W[i - 1])
  BY <1>1 DEF IsWiden
<1>4. Good(files) /\ n \in Nat /\ Len(lv[0]) = n /\ IsFiniteSet(files)
  BY SortedIsList, GoodFinite DEF LevelOK, FileSet
<1> HIDE DEF files, n
<1>5. \A i \in Nat : W[i + 1] = Widened(files, lo, hi, W[i])
  <2>1. \A i \in Nat : i + 1 \in Nat /\ i + 1 # 0 /\ (i + 1) - 1 = i
    OBVIOUS
  <2> QED BY <1>3, <2>1
<1>6. ASSUME NEW F, F \subseteq files
      PROVE  F \subseteq Widened(files, lo, hi, F) /\ Widened(files, lo, hi, F) \subseteq files
  <2>1. Widened(files, lo, hi, F) \subseteq files
    BY DEF Widened, Meeting
  <2>2. F \subseteq Widened(files, lo, hi, F)
    BY <1>4, <1>6, WidenedGrows
  <2> QED BY <2>1, <2>2
<1>7. \A F : F \subseteq files => IsFiniteSet(F) /\ Cardinality(F) \in Nat /\ Cardinality(F) <= n
  BY <1>4, FS_Subset, FS_CardinalityType DEF n
<1> DEFINE T == {i \in Nat : Progress(W[i], W[i + 1], files, i)}
<1>8. 0 \in T
  <2>1. W[0] \subseteq files /\ W[0 + 1] = Widened(files, lo, hi, W[0])
    BY <1>3, <1>5 DEF Meeting
  <2>2. W[0] \subseteq W[0 + 1]
    BY <1>6, <2>1
  <2>3. CASE W[0] = {}
    <3>1. W[0 + 1] = W[0]
      BY <2>1, <2>3 DEF Widened
    <3> QED BY <2>1, <2>2, <3>1 DEF Progress
  <2>4. CASE W[0] # {}
    <3>1. Cardinality(W[0]) # 0
      BY <1>7, <2>1, <2>4, FS_EmptySet
    <3>2. Cardinality(W[0]) >= 0 + 1
      BY <1>7, <2>1, <3>1
    <3> QED BY <2>1, <2>2, <3>2 DEF Progress
  <2> QED BY <2>3, <2>4
<1>9. ASSUME NEW i \in T PROVE i + 1 \in T
  <2> DEFINE A == W[i]
             B == W[i + 1]
             C == W[(i + 1) + 1]
  <2>1. i \in Nat /\ i + 1 \in Nat /\ Progress(A, B, files, i)
    OBVIOUS
  <2>2. B = Widened(files, lo, hi, A) /\ C = Widened(files, lo, hi, B)
    BY <1>5, <2>1
  <2> HIDE DEF A, B, C
  <2>3. A \subseteq files /\ B \subseteq files /\ A \subseteq B /\ B \subseteq C
    BY <1>6, <2>1, <2>2 DEF Progress
  <2>4. CASE B = A
    <3>1. C = B
      BY <2>2, <2>4
    <3> QED BY <2>1, <2>3, <3>1 DEF Progress, B, C
  <2>5. CASE B # A
    <3>1. Cardinality(A) >= i + 1
      BY <2>1, <2>5 DEF Progress
    <3>2. Cardinality(A) <= Cardinality(B) /\ Cardinality(A) # Cardinality(B)
      BY <1>7, <2>3, <2>5, FS_Subset
    <3>3. Cardinality(A) \in Nat /\ Cardinality(B) \in Nat
      BY <1>7, <2>3
    <3>4. Cardinality(B) >= (i + 1) + 1
      BY <2>1, <3>1, <3>2, <3>3
    <3> QED BY <2>1, <2>3, <3>4 DEF Progress, B, C
  <2> QED BY <2>4, <2>5
<1>10. T \in SUBSET Nat
  OBVIOUS
<1> HIDE DEF T
<1>11. T = Nat
  BY <1>8, <1>9, <1>10, SetInduction
<1>12. Progress(W[n], W[n + 1], files, n)
  BY <1>4, <1>11 DEF T
<1>13. S = W[n] /\ S \subseteq files
  BY <1>2, <1>4, <1>12 DEF Progress
<1>14. ~(Cardinality(S) >= n + 1)
  BY <1>4, <1>7, <1>13
<1>15. W[n + 1] = S
  BY <1>12, <1>13, <1>14 DEF Progress
<1>16. Widened(files, lo, hi, S) = S
  BY <1>4, <1>5, <1>13, <1>15
<1> QED BY <1>4, <1>13, <1>16, WidenedGrows DEF files

\* PickCompaction: what a compaction starts from.
Starts(level, first) ==
    /\ level \in 0 .. NumLevels - 2
    /\ first # {} /\ first \subseteq Files(levels, level) /\ GapFree(first)
    /\ level = 0 => Closed(Files(levels, level), first)

LEMMA PickedStarts ==
  ASSUME LevelsOK(levels), NeedsSize(levels) \/ seek # {},
         \A s \in seek : s.level \in 0 .. NumLevels - 2 /\ s.file \in Files(levels, s.level)
  PROVE  \E level, first : Starts(level, first) /\ Picked = Inputs(levels, level, first)
<1> DEFINE level == IF NeedsSize(levels) THEN BestLevel(levels)
                    ELSE (CHOOSE s \in seek : TRUE).level
           file == IF NeedsSize(levels) THEN FirstFile(level)
                   ELSE (CHOOSE s \in seek : TRUE).file
           first == IF level > 0 THEN {file}
                    ELSE Overlapping(levels, 0, Smallest(file).key, Largest(file).key)
<1>0. \A l \in Levels : LevelOK(levels, l)
  BY DEF LevelsOK
<1>1. level \in 0 .. NumLevels - 2 /\ file \in Files(levels, level)
  <2>1. CASE NeedsSize(levels)
    <3>1. level = BestLevel(levels) /\ file = FirstFile(BestLevel(levels))
      BY <2>1
    <3> QED BY <1>0, <2>1, <3>1, FirstFileInLevel
  <2>2. CASE ~NeedsSize(levels)
    <3> DEFINE s == CHOOSE s \in seek : TRUE
    <3>1. s \in seek
      BY <2>2
    <3>2. level = s.level /\ file = s.file
      BY <2>2
    <3> HIDE DEF s, level, file
    <3> QED BY <3>1, <3>2
  <2> QED BY <2>1, <2>2
<1>2. Picked = Inputs(levels, level, first)
  BY DEF Picked
<1> HIDE DEF level, file
<1>3. level \in Levels /\ 0 \in Levels
  BY <1>1, VersionConstants DEF Levels
<1>4. Good({file}) /\ Good({file} \cup Files(levels, level)) /\ GapFree({file})
  <2>1. Good({file}) /\ Good({file} \cup Files(levels, level))
    BY <1>1, <1>3, LevelsGood
  <2> QED BY <2>1, OneIsGapFree
<1>5. /\ first # {} /\ first \subseteq Files(levels, level) /\ GapFree(first)
      /\ level = 0 => Closed(Files(levels, level), first)
  <2>1. CASE level > 0
    BY <1>1, <1>4, <2>1
  <2>2. CASE ~(level > 0)
    <3>1. level = 0
      BY <1>1, <2>2
    <3>2. Low({file}) = Smallest(file).key /\ High({file}) = Largest(file).key
      BY DEF Low, High
    <3>3. first = Overlapping(levels, level, Low({file}), High({file}))
      BY <2>2, <3>1, <3>2
    <3>4. Len(levels[0]) \in Nat
      BY <1>0, <1>3, LevelList
    <3> HIDE DEF first
    <3>5. /\ first \subseteq Files(levels, level)
          /\ Meeting(Files(levels, level), Low({file}), High({file})) \subseteq first
          /\ GapFree({file} \cup first)
      BY <1>4, <3>3, <3>4, OverlappingCorrect
    <3>6. Low({file}) \in Nat /\ High({file}) \in Nat
          /\ file \in Meeting(Files(levels, level), Low({file}), High({file}))
      <4>1. Smallest(file).key \in Nat /\ Largest(file).key \in Nat
            /\ Smallest(file).key <= Largest(file).key
        BY <1>4, Spanned
      <4> QED BY <1>1, <3>2, <4>1 DEF Meeting, Meets
    <3>7. {file} \cup first = first
      BY <3>5, <3>6
    <3>8. Closed(Files(levels, level), first)
      BY <1>0, <1>3, <3>1, <3>3, <3>5, <3>6, OverlappingClosed
    <3> QED BY <3>5, <3>6, <3>7, <3>8
  <2> QED BY <2>1, <2>2
<1> HIDE DEF first
<1> QED BY <1>1, <1>2, <1>5 DEF Starts

\* The compaction that PickCompaction sets up.
LEMMA PickedCorrect ==
  ASSUME LevelsOK(levels), NeedsSize(levels) \/ seek # {},
         \A s \in seek : s.level \in 0 .. NumLevels - 2 /\ s.file \in Files(levels, s.level)
  PROVE  CompOK(Picked, levels)
<1>1. PICK level, first : Starts(level, first) /\ Picked = Inputs(levels, level, first)
  BY PickedStarts
<1> QED BY <1>1, InputsCorrect DEF Starts

\* PickLevelForMemTableOutput: down to the level of the new file nothing
\* overlaps it, if that is not level 0.
LEMMA PickLevelCorrect ==
  ASSUME NEW lv, NEW f
  PROVE  /\ PickLevel(lv, f) \in 0 .. MaxMemLevel
         /\ PickLevel(lv, f) > 0 =>
              \A m \in 0 .. PickLevel(lv, f) : \A g \in Files(lv, m) :
                 ~Meets(g, Smallest(f).key, Largest(f).key)
<1> DEFINE lo == Smallest(f).key
           hi == Largest(f).key
           fits == [l \in Nat |-> /\ \A g \in Files(lv, l) : ~Meets(g, lo, hi)
                                  /\ l + 1 < NumLevels =>
                                       Size(Overlapping(lv, l + 1, lo, hi)) <= GrandParents]
           M == {l \in 0 .. MaxMemLevel : \A m \in 1 .. l : fits[m]}
           p == PickLevel(lv, f)
<1>0. MaxMemLevel \in Nat
  BY VersionConstants
<1>a. \A m \in Nat : fits[m] <=>
        /\ \A g \in Files(lv, m) : ~Meets(g, lo, hi)
        /\ m + 1 < NumLevels => Size(Overlapping(lv, m + 1, lo, hi)) <= GrandParents
  OBVIOUS
<1>1. M = {l \in 0 .. MaxMemLevel : \A m \in 1 .. l :
             /\ \A g \in Files(lv, m) : ~Meets(g, lo, hi)
             /\ m + 1 < NumLevels => Size(Overlapping(lv, m + 1, lo, hi)) <= GrandParents}
  <2> HIDE DEF fits, lo, hi
  <2>1. \A l \in 0 .. MaxMemLevel : (\A m \in 1 .. l : fits[m]) <=> \A m \in 1 .. l :
          /\ \A g \in Files(lv, m) : ~Meets(g, lo, hi)
          /\ m + 1 < NumLevels => Size(Overlapping(lv, m + 1, lo, hi)) <= GrandParents
    BY <1>a
  <2> QED BY <2>1, Zenon
<1>2. p = IF \E g \in Files(lv, 0) : Meets(g, lo, hi) THEN 0 ELSE Max(M)
  <2> HIDE DEF M
  <2> QED BY <1>1, Zenon DEF PickLevel
<1>3. \A m \in Nat : fits[m] => \A g \in Files(lv, m) : ~Meets(g, lo, hi)
  OBVIOUS
<1> HIDE DEF fits, lo, hi, p
<1>4. Max(M) \in M
  <2>1. 0 \in M /\ M \in SUBSET Nat /\ \A x \in M : x <= MaxMemLevel
    BY <1>0
  <2> HIDE DEF M
  <2>2. \E x \in M : \A y \in M : y <= x
    BY <1>0, <2>1, GreatestElement
  <2>3. \E x \in M : \A y \in M : x >= y
    BY <2>1, <2>2
  <2> QED BY <2>3 DEF Max
<1>5. CASE \E g \in Files(lv, 0) : Meets(g, lo, hi)
  BY <1>0, <1>2, <1>5 DEF p
<1>6. CASE ~\E g \in Files(lv, 0) : Meets(g, lo, hi)
  <2>1. p \in 0 .. MaxMemLevel /\ \A m \in 1 .. p : fits[m]
    BY <1>2, <1>4, <1>6
  <2>2. ASSUME NEW m \in 0 .. p PROVE \A g \in Files(lv, m) : ~Meets(g, lo, hi)
    <3>1. CASE m = 0
      BY <1>6, <3>1
    <3>2. CASE m # 0
      <4>1. m \in 1 .. p /\ m \in Nat
        BY <2>1, <3>2
      <4> QED BY <1>3, <2>1, <4>1
    <3> QED BY <3>1, <3>2
  <2> QED BY <2>1, <2>2 DEF p, lo, hi
<1> QED BY <1>5, <1>6

-----------------------------------------------------------------------------
(* The invariant *)

EntriesOK == /\ Distinct(written) /\ mem \subseteq written
             /\ lastSeq \in 0 .. MaxSeq /\ \A e \in written : e.seq <= lastSeq
FilesOK == /\ levels = [l \in Levels |-> levels[l]]
           /\ \A l \in Levels : LevelOK(levels, l) /\ UNION Files(levels, l) \subseteq written \ mem
SeekOK == \A s \in seek : s.level \in 0 .. NumLevels - 2 /\ s.file \in Files(levels, s.level)
VInv == EntriesOK /\ FilesOK /\ SeekOK /\ \A c \in comp : CompOK(c, levels)

LEMMA AllLevels ==
  ASSUME EntriesOK, FilesOK
  PROVE  LevelsOK(levels)
<1>1. UNION {UNION Files(levels, l) : l \in Levels} \in SUBSET written
  BY DEF FilesOK
<1> QED BY <1>1, DistinctSubset DEF EntriesOK, FilesOK, LevelsOK

\* A level that Builder has sorted.
LEMMA SortedLevel ==
  ASSUME NEW lv, NEW l, NEW F, lv[l] = Sorted(F), FileSet(F),
         l > 0 => \A f, g \in F : f = g \/ Apart(f, g)
  PROVE  LevelOK(lv, l) /\ Files(lv, l) = F
<1>1. Files(lv, l) = F
  BY SortedIsList DEF Files
<1> QED BY <1>1 DEF LevelOK

LEMMA SameLevel ==
  ASSUME NEW lv, NEW new, NEW l, LevelOK(lv, l), new[l] = lv[l]
  PROVE  LevelOK(new, l) /\ Files(new, l) = Files(lv, l)
<1>1. Files(new, l) = Files(lv, l)
  BY DEF Files
<1> QED BY <1>1 DEF LevelOK

LEMMA ApartFiles ==
  ASSUME NEW W, Distinct(W), NEW F, UNION F \subseteq W, {} \notin F,
         \A f, g \in F : f = g \/ Apart(f, g)
  PROVE  FileSet(F)
<1>1. Distinct(UNION F)
  BY DistinctSubset
<1>2. ASSUME NEW f \in F, NEW g \in F, f # g, NEW e, e \in f, e \in g PROVE FALSE
  <2>1. Before(e, e)
    BY <1>2 DEF Apart, AllBefore
  <2>2. e \in UNION F
    BY <1>2
  <2> QED BY <1>1, <2>1, <2>2, BeforeOrders
<1>3. \A f, g \in F : f # g => f \cap g = {}
  BY <1>2
<1> QED BY <1>1, <1>3 DEF FileSet, Good

\* The files of a compaction are exchanged for others with some of the same
\* entries.
Exchanged(new, c, outs) ==
    \A l \in Levels : Files(new, l) =
        IF l = c.level THEN Files(levels, l) \ c.in0
        ELSE IF l = c.level + 1 THEN (Files(levels, l) \ c.in1) \cup outs
        ELSE Files(levels, l)

LEMMA InstallCorrect ==
  ASSUME EntriesOK, FilesOK, NEW c, CompOK(c, levels), NEW outs,
         \A o \in outs : o # {} /\ o \subseteq UNION (c.in0 \cup c.in1),
         \A o, p \in outs : o = p \/ Apart(o, p),
         NEW new, new = Install(c, outs)
  PROVE  /\ new = [l \in Levels |-> new[l]]
         /\ \A l \in Levels : LevelOK(new, l) /\ UNION Files(new, l) \subseteq written \ mem
         /\ Exchanged(new, c, outs)
<1> DEFINE U == UNION (c.in0 \cup c.in1)
           F0 == Files(levels, c.level) \ c.in0
           F1 == (Files(levels, c.level + 1) \ c.in1) \cup outs
<1>1. c.level \in Levels /\ c.level + 1 \in Levels /\ c.level + 1 # c.level /\ c.level + 1 > 0
  BY VersionConstants DEF CompOK, Levels
<1>2. /\ new = [l \in Levels |-> new[l]]
      /\ new[c.level] = Sorted(F0) /\ new[c.level + 1] = Sorted(F1)
      /\ \A l \in Levels : l # c.level /\ l # c.level + 1 => new[l] = levels[l]
  BY <1>1 DEF Install
<1>3. /\ LevelOK(levels, c.level) /\ LevelOK(levels, c.level + 1)
      /\ UNION Files(levels, c.level) \subseteq written \ mem
      /\ UNION Files(levels, c.level + 1) \subseteq written \ mem
      /\ c.in0 \subseteq Files(levels, c.level) /\ c.in1 \subseteq Files(levels, c.level + 1)
      /\ \A g \in Files(levels, c.level + 1) \ c.in1 : Apart(g, U)
  BY <1>1 DEF FilesOK, CompOK
<1> HIDE DEF U
<1>4. U \subseteq written \ mem /\ \A o \in outs : o # {} /\ o \subseteq U
  BY <1>3 DEF U
<1>5. /\ LevelOK(new, c.level) /\ UNION Files(new, c.level) \subseteq written \ mem
      /\ Files(new, c.level) = F0
  <2>1. /\ F0 \in SUBSET Files(levels, c.level) /\ FileSet(Files(levels, c.level))
        /\ c.level > 0 => \A f, g \in Files(levels, c.level) : f = g \/ Apart(f, g)
    BY <1>3 DEF LevelOK
  <2> HIDE DEF F0
  <2>2. FileSet(F0) /\ (c.level > 0 => \A f, g \in F0 : f = g \/ Apart(f, g))
    BY <2>1, GoodSubset DEF FileSet
  <2>3. LevelOK(new, c.level) /\ Files(new, c.level) = F0
    BY <1>2, <2>2, SortedLevel
  <2> QED BY <1>3, <2>1, <2>3
<1>6. /\ LevelOK(new, c.level + 1) /\ UNION Files(new, c.level + 1) \subseteq written \ mem
      /\ Files(new, c.level + 1) = F1
  <2>1. /\ \A f, g \in Files(levels, c.level + 1) : f = g \/ Apart(f, g)
        /\ {} \notin Files(levels, c.level + 1)
    BY <1>1, <1>3 DEF LevelOK, FileSet, Good
  <2>2. ASSUME NEW f \in F1, NEW g \in F1 PROVE f = g \/ Apart(f, g)
    <3>1. \A h \in Files(levels, c.level + 1) \ c.in1 : \A o \in outs : Apart(h, o) /\ Apart(o, h)
      BY <1>3, <1>4 DEF Apart, AllBefore
    <3> QED BY <2>1, <3>1
  <2>3. UNION F1 \subseteq written \ mem /\ {} \notin F1
    BY <1>3, <1>4, <2>1
  <2> HIDE DEF F1
  <2>4. Distinct(written) /\ UNION F1 \subseteq written
    BY <2>3 DEF EntriesOK
  <2>5. FileSet(F1)
    BY <2>2, <2>3, <2>4, ApartFiles
  <2>6. LevelOK(new, c.level + 1) /\ Files(new, c.level + 1) = F1
    BY <1>2, <2>2, <2>5, SortedLevel
  <2> QED BY <2>3, <2>6
<1>7. ASSUME NEW l \in Levels, l # c.level, l # c.level + 1
      PROVE  /\ LevelOK(new, l) /\ UNION Files(new, l) \subseteq written \ mem
             /\ Files(new, l) = Files(levels, l)
  <2>1. new[l] = levels[l] /\ LevelOK(levels, l) /\ UNION Files(levels, l) \subseteq written \ mem
    BY <1>2, <1>7 DEF FilesOK
  <2> QED BY <2>1, SameLevel
<1>8. \A l \in Levels : LevelOK(new, l) /\ UNION Files(new, l) \subseteq written \ mem
  BY <1>5, <1>6, <1>7
<1>9. Exchanged(new, c, outs)
  BY <1>1, <1>5, <1>6, <1>7 DEF Exchanged
<1> QED BY <1>2, <1>8, <1>9

LEMMA InitHolds == Init => VInv
<1> SUFFICES ASSUME Init PROVE VInv
  OBVIOUS
<1>1. mem = {} /\ lastSeq = 0 /\ written = {} /\ levels = [l \in Levels |-> << >>] /\ seek = {} /\ comp = {}
  BY DEF Init
<1>2. EntriesOK
  BY <1>1, VersionConstants DEF EntriesOK, Distinct
<1>3. FileSet({}) /\ Sorted({}) = << >>
  <2>1. Distinct(UNION {})
    BY DEF Distinct
  <2>2. FileSet({})
    BY <2>1 DEF FileSet, Good
  <2>3. Sorted({}) \in Seq({}) /\ Len(Sorted({})) = Cardinality({})
    BY <2>2, SortedIsList
  <2>4. Cardinality({}) = 0
    BY FS_EmptySet
  <2> QED BY <2>2, <2>3, <2>4
<1>4. ASSUME NEW l \in Levels PROVE LevelOK(levels, l) /\ UNION Files(levels, l) \subseteq written \ mem
  <2>1. levels[l] = Sorted({})
    BY <1>1, <1>3
  <2>2. LevelOK(levels, l) /\ Files(levels, l) = {}
    BY <1>3, <2>1, SortedLevel
  <2> QED BY <2>2
<1>5. FilesOK
  BY <1>1, <1>4 DEF FilesOK
<1> QED BY <1>1, <1>2, <1>5 DEF VInv, SeekOK

LEMMA WriteHolds == \A op \in Ops : VInv /\ Write(op) => VInv'
<1> SUFFICES ASSUME NEW op \in Ops, VInv, Write(op) PROVE VInv'
  OBVIOUS
<1> DEFINE e == [key |-> op[1], seq |-> lastSeq + 1, del |-> op[2]]
<1>1. /\ lastSeq < MaxSeq /\ mem' = mem \cup {e} /\ written' = written \cup {e}
      /\ lastSeq' = lastSeq + 1 /\ levels' = levels /\ seek' = seek /\ comp' = comp
  BY DEF Write
<1>2. /\ Distinct(written) /\ mem \subseteq written
      /\ lastSeq \in 0 .. MaxSeq /\ \A d \in written : d.seq <= lastSeq
  BY DEF VInv, EntriesOK
<1>3. op[1] \in Keys /\ op[2] \in BOOLEAN /\ MaxSeq \in Nat
  BY VersionConstants DEF Keys
<1>4. e \in Entry /\ e.seq = lastSeq + 1
  BY <1>1, <1>2, <1>3 DEF Entry
<1> HIDE DEF e
<1>5. \A d \in written : d.seq \in Nat /\ d.seq <= lastSeq /\ d \in Entry
  BY <1>2, EntryFields DEF Distinct
<1>6. e \notin written /\ \A d \in written : d.seq # e.seq
  BY <1>2, <1>3, <1>4, <1>5
<1>7. Distinct(written')
  BY <1>1, <1>2, <1>4, <1>5, <1>6 DEF Distinct
<1>8. EntriesOK'
  BY <1>1, <1>2, <1>3, <1>4, <1>5, <1>7 DEF EntriesOK
<1>9. FilesOK'
  BY <1>1, <1>6 DEF VInv, FilesOK
<1>10. SeekOK' /\ \A c \in comp' : CompOK(c, levels')
  BY <1>1 DEF VInv, SeekOK
<1> QED BY <1>8, <1>9, <1>10 DEF VInv

\* CompactMemTable: a new file, below level 0 only past files that have none of
\* its keys.
LEMMA FlushFiles ==
  ASSUME VInv, Flush, NEW l, l = PickLevel(levels, mem)
  PROVE  /\ l \in Levels /\ l \in Nat
         /\ l > 0 => \A m \in 0 .. l : \A g \in Files(levels, m) :
                       ~Meets(g, Smallest(mem).key, Largest(mem).key)
         /\ \A k \in Levels :
              /\ LevelOK(levels', k)
              /\ Files(levels', k) = IF k = l THEN Files(levels, k) \cup {mem} ELSE Files(levels, k)
<1> DEFINE F == Files(levels, l) \cup {mem}
           lo == Smallest(mem).key
           hi == Largest(mem).key
<1>1. /\ mem # {} /\ levels' = [levels EXCEPT ![l] = Sorted(F)] /\ mem' = {} /\ seek' = {}
      /\ lastSeq' = lastSeq /\ comp' = comp /\ written' = written
  BY DEF Flush
<1>2. /\ Distinct(written) /\ mem \subseteq written
      /\ levels = [k \in Levels |-> levels[k]]
      /\ \A k \in Levels : LevelOK(levels, k) /\ UNION Files(levels, k) \subseteq written \ mem
      /\ LevelsOK(levels)
  BY AllLevels DEF VInv, EntriesOK, FilesOK
<1>3. /\ l \in 0 .. MaxMemLevel
      /\ l > 0 => \A m \in 0 .. l : \A g \in Files(levels, m) : ~Meets(g, lo, hi)
  BY PickLevelCorrect
<1>4. l \in Levels
  BY <1>3, VersionConstants DEF Levels
<1>5. Distinct(mem) /\ lo \in Nat /\ hi \in Nat /\ lo <= hi
  BY <1>1, <1>2, DistinctSubset, FileSpan
<1>6. ASSUME NEW m \in Levels, NEW g \in Files(levels, m)
      PROVE  /\ g # {} /\ Distinct(g) /\ g \cap mem = {}
             /\ Smallest(g).key \in Nat /\ Largest(g).key \in Nat
  <2>1. Good(Files(levels, m)) /\ UNION Files(levels, m) \subseteq written \ mem
    BY <1>2, LevelList
  <2>2. g # {} /\ Distinct(g)
    BY <2>1, GoodFile
  <2>3. Smallest(g).key \in Nat /\ Largest(g).key \in Nat
    BY <2>1, Spanned
  <2> QED BY <2>1, <2>2, <2>3
<1>7. ASSUME NEW m \in 0 .. l, l > 0, NEW g \in Files(levels, m)
      PROVE  Apart(g, mem) /\ Apart(mem, g)
  <2>1. m \in Levels /\ ~Meets(g, lo, hi)
    BY <1>3, <1>4, <1>7, VersionConstants DEF Levels
  <2>2. g # {} /\ Distinct(g) /\ Smallest(g).key \in Nat /\ Largest(g).key \in Nat
    BY <1>6, <2>1
  <2>3. Largest(g).key < lo \/ hi < Smallest(g).key
    BY <1>5, <2>1, <2>2 DEF Meets
  <2>4. CASE Largest(g).key < lo
    <3>1. AllBefore(g, mem)
      BY <1>1, <1>5, <2>2, <2>4, ApartByKeys
    <3> QED BY <3>1 DEF Apart
  <2>5. CASE hi < Smallest(g).key
    <3>1. AllBefore(mem, g)
      BY <1>1, <1>5, <2>2, <2>5, ApartByKeys
    <3> QED BY <3>1 DEF Apart
  <2> QED BY <2>3, <2>4, <2>5
<1>8. FileSet(F) /\ (l > 0 => \A f, g \in F : f = g \/ Apart(f, g))
  <2>1. FileSet(Files(levels, l)) /\ (l > 0 => \A f, g \in Files(levels, l) : f = g \/ Apart(f, g))
    BY <1>2, <1>4 DEF LevelOK
  <2>2. UNION F \in SUBSET written /\ {} \notin F
    BY <1>1, <1>2, <1>4, <1>6
  <2>3. Good(F)
    BY <1>2, <2>2, DistinctSubset DEF Good
  <2>4. \A f, g \in F : f # g => f \cap g = {}
    BY <1>4, <1>6, <2>1 DEF FileSet
  <2>5. l > 0 => l \in 0 .. l
    BY <1>3
  <2>6. ASSUME l > 0, NEW f \in F, NEW g \in F PROVE f = g \/ Apart(f, g)
    BY <1>7, <2>1, <2>5, <2>6
  <2> QED BY <2>3, <2>4, <2>6 DEF FileSet
<1>9. levels'[l] = Sorted(F) /\ \A k \in Levels : k # l => levels'[k] = levels[k]
  BY <1>1, <1>2, <1>4
<1>10. LevelOK(levels', l) /\ Files(levels', l) = F
  BY <1>8, <1>9, SortedLevel
<1>11. ASSUME NEW k \in Levels
       PROVE  LevelOK(levels', k) /\ Files(levels', k) = IF k = l THEN F ELSE Files(levels, k)
  <2>1. CASE k # l
    BY <1>2, <1>9, <2>1, SameLevel
  <2> QED BY <1>10, <2>1
<1> QED BY <1>3, <1>4, <1>11, VersionConstants

\* A flush in the middle of a compaction: the new file may join the level of
\* the outputs, but only before or after all of the inputs.
LEMMA FlushHolds == VInv /\ Flush => VInv'
<1> SUFFICES ASSUME VInv, Flush PROVE VInv'
  OBVIOUS
<1> DEFINE l == PickLevel(levels, mem)
           lo == Smallest(mem).key
           hi == Largest(mem).key
<1>1. /\ mem # {} /\ mem \subseteq written /\ Distinct(written) /\ mem' = {} /\ seek' = {}
      /\ lastSeq' = lastSeq /\ comp' = comp /\ written' = written
  BY DEF Flush, VInv, EntriesOK
<1>2. /\ levels = [k \in Levels |-> levels[k]]
      /\ \A k \in Levels : LevelOK(levels, k) /\ UNION Files(levels, k) \subseteq written \ mem
  BY DEF VInv, FilesOK
<1>3. /\ l \in Levels /\ l \in Nat
      /\ l > 0 => \A m \in 0 .. l : \A g \in Files(levels, m) : ~Meets(g, lo, hi)
      /\ \A k \in Levels :
           /\ LevelOK(levels', k)
           /\ Files(levels', k) = IF k = l THEN Files(levels, k) \cup {mem} ELSE Files(levels, k)
  BY FlushFiles
<1> HIDE DEF l
<1>4. Distinct(mem) /\ lo \in Nat /\ hi \in Nat /\ lo <= hi
  BY <1>1, DistinctSubset, FileSpan
<1>5. ASSUME NEW m \in Levels, NEW g \in Files(levels, m)
      PROVE  g # {} /\ Distinct(g)
  BY <1>2, LevelList, GoodFile
<1>6. EntriesOK'
  BY <1>1 DEF VInv, EntriesOK
<1>7. FilesOK'
  <2>1. levels' = [k \in Levels |-> levels'[k]]
    BY <1>2 DEF Flush
  <2>2. \A k \in Levels : UNION Files(levels', k) \subseteq written'
    BY <1>1, <1>2, <1>3
  <2> QED BY <1>1, <1>3, <2>1, <2>2 DEF FilesOK
<1>8. ASSUME NEW c \in comp PROVE CompOK(c, levels')
  <2> DEFINE I == c.in0 \cup c.in1
  <2>1. /\ c.level \in 0 .. NumLevels - 2
        /\ c.in0 # {} /\ c.in0 \subseteq Files(levels, c.level)
        /\ c.in1 \subseteq Files(levels, c.level + 1)
        /\ GapFree(I)
        /\ \A g \in Files(levels, c.level + 1) \ c.in1 : Apart(g, UNION I)
    BY DEF VInv, CompOK
  <2>2. c.level \in Levels /\ c.level + 1 \in Levels /\ c.level + 1 > 0
    BY <2>1, VersionConstants DEF Levels
  <2>3. /\ Files(levels, c.level) \subseteq Files(levels', c.level)
        /\ Files(levels, c.level + 1) \subseteq Files(levels', c.level + 1)
    BY <1>3, <2>2
  <2>4. ASSUME NEW g \in Files(levels', c.level + 1) \ c.in1 PROVE Apart(g, UNION I)
    <3>1. CASE g \in Files(levels, c.level + 1)
      BY <2>1, <3>1
    <3>2. CASE g \notin Files(levels, c.level + 1)
      <4>1. l = c.level + 1 /\ g = mem
        BY <1>3, <2>2, <3>2
      <4>2. l > 0 /\ c.level \in 0 .. l /\ c.level + 1 \in 0 .. l
        BY <2>1, <2>2, <4>1
      <4>3. \A f \in I : ~Meets(f, lo, hi)
        BY <1>3, <2>1, <4>2
      <4>4. (\A f \in I : Largest(f).key < lo) \/ (\A f \in I : hi < Smallest(f).key)
        <5> HIDE DEF I, lo, hi
        <5> QED BY <1>4, <2>1, <4>3 DEF GapFree
      <4>5. \A f \in I : f # {} /\ Distinct(f)
        BY <1>5, <2>1, <2>2
      <4>6. (\A f \in I : AllBefore(f, mem)) \/ (\A f \in I : AllBefore(mem, f))
        <5> HIDE DEF I
        <5> QED BY <1>1, <1>4, <4>4, <4>5, ApartByKeys
      <4> QED BY <4>1, <4>6 DEF Apart, AllBefore
    <3> QED BY <3>1, <3>2
  <2> QED BY <2>1, <2>3, <2>4 DEF CompOK
<1> QED BY <1>1, <1>6, <1>7, <1>8 DEF VInv, SeekOK

LEMMA SampleHolds == \A e \in written : VInv /\ RecordReadSample(e) => VInv'
<1> SUFFICES ASSUME NEW e \in written, VInv, RecordReadSample(e) PROVE VInv'
  OBVIOUS
<1> DEFINE s == Visited(levels, e)[1]
<1>1. /\ Len(Visited(levels, e)) >= 2 /\ seek' = {s}
      /\ mem' = mem /\ levels' = levels /\ lastSeq' = lastSeq /\ comp' = comp /\ written' = written
  BY DEF RecordReadSample
<1>2. s.level \in 0 .. NumLevels - 2 /\ s.file \in Files(levels, s.level)
  BY <1>1, FirstVisited DEF VInv, FilesOK
<1> HIDE DEF s
<1> QED BY <1>1, <1>2 DEF VInv, EntriesOK, FilesOK, SeekOK

LEMMA CompactHolds == VInv /\ Compact => VInv'
<1> SUFFICES ASSUME VInv, Compact PROVE VInv'
  OBVIOUS
<1> DEFINE c == Picked
<1>1. /\ (NeedsSize(levels) \/ seek # {}) /\ comp = {}
      /\ mem' = mem /\ lastSeq' = lastSeq /\ written' = written
      /\ \/ IsTrivialMove(c) /\ levels' = Install(c, c.in0) /\ seek' = {} /\ comp' = comp
         \/ comp' = {c} /\ levels' = levels /\ seek' = seek
  BY DEF Compact
<1>2. CompOK(c, levels)
  BY <1>1, AllLevels, PickedCorrect DEF VInv, SeekOK, Compact
<1> HIDE DEF c
<1>3. EntriesOK'
  BY <1>1 DEF VInv, EntriesOK
<1>4. CASE IsTrivialMove(c) /\ levels' = Install(c, c.in0) /\ seek' = {} /\ comp' = comp
  <2>1. c.in0 \subseteq Files(levels, c.level) /\ c.level \in Levels
    BY <1>2, VersionConstants DEF CompOK, Levels
  <2>2. Good(Files(levels, c.level))
    BY <2>1, LevelList DEF VInv, FilesOK
  <2>3. \A o \in c.in0 : o # {} /\ o \subseteq UNION (c.in0 \cup c.in1)
    BY <2>1, <2>2 DEF Good
  <2>4. \A o, p \in c.in0 : o = p
    <3>1. IsFiniteSet(c.in0)
      BY <2>1, <2>2, GoodFinite, FS_Subset
    <3>2. Cardinality(c.in0) = 1
      BY <1>4 DEF IsTrivialMove
    <3>3. \E x : c.in0 = {x}
      BY <3>1, <3>2, FS_Singleton
    <3> QED BY <3>3
  <2>5. /\ levels' = [l \in Levels |-> levels'[l]]
        /\ \A l \in Levels : LevelOK(levels', l) /\ UNION Files(levels', l) \subseteq written \ mem
    BY <1>2, <1>4, <2>3, <2>4, InstallCorrect DEF VInv
  <2>6. FilesOK'
    BY <1>1, <2>5 DEF FilesOK
  <2>7. comp' = {}
    BY <1>4 DEF Compact
  <2> QED BY <1>3, <1>4, <2>6, <2>7 DEF VInv, SeekOK
<1>5. CASE comp' = {c} /\ levels' = levels /\ seek' = seek
  BY <1>1, <1>2, <1>3, <1>5 DEF VInv, FilesOK, SeekOK
<1> QED BY <1>1, <1>4, <1>5

LEMMA FinishHolds == VInv /\ FinishCompaction => VInv'
<1> SUFFICES ASSUME VInv, FinishCompaction PROVE VInv'
  OBVIOUS
<1>1. PICK c \in comp : levels' = Install(c, Merge(c))
  BY DEF FinishCompaction
<1>2. /\ comp' = {} /\ seek' = {}
      /\ mem' = mem /\ lastSeq' = lastSeq /\ written' = written
  BY DEF FinishCompaction
<1>3. CompOK(c, levels)
  BY DEF VInv
<1>4. Distinct(UNION (c.in0 \cup c.in1))
  <2>1. /\ c.in0 \cup c.in1 \subseteq Files(levels, c.level) \cup Files(levels, c.level + 1)
        /\ c.level \in Levels /\ c.level + 1 \in Levels
    BY <1>3, VersionConstants DEF CompOK, Levels
  <2> QED BY <2>1, AllLevels, LevelsGood DEF VInv, Good
<1>5. /\ \A o \in Merge(c) : o # {} /\ o \subseteq UNION (c.in0 \cup c.in1)
      /\ \A o, p \in Merge(c) : o = p \/ Apart(o, p)
  BY <1>4, MergeCorrect
<1>6. /\ levels' = [l \in Levels |-> levels'[l]]
      /\ \A l \in Levels : LevelOK(levels', l) /\ UNION Files(levels', l) \subseteq written \ mem
  BY <1>1, <1>3, <1>5, InstallCorrect DEF VInv
<1>7. FilesOK' /\ EntriesOK'
  BY <1>2, <1>6 DEF FilesOK, EntriesOK, VInv
<1> QED BY <1>2, <1>7 DEF VInv, SeekOK

LEMMA NextHolds == VInv /\ [Next]_vars => VInv'
<1> SUFFICES ASSUME VInv, [Next]_vars PROVE VInv'
  OBVIOUS
<1>1. ASSUME NEW op \in Ops, Write(op) PROVE VInv'
  BY <1>1, WriteHolds
<1>2. CASE Flush
  BY <1>2, FlushHolds
<1>3. CASE GetSnapshot \/ (\E s \in snapshots : ReleaseSnapshot(s)) \/ UNCHANGED vars
  <2>1. /\ mem' = mem /\ levels' = levels /\ lastSeq' = lastSeq /\ seek' = seek /\ comp' = comp
        /\ written' = written
    BY <1>3 DEF GetSnapshot, ReleaseSnapshot, vars
  <2> QED BY <2>1 DEF VInv, EntriesOK, FilesOK, SeekOK
<1>4. ASSUME NEW e \in written, RecordReadSample(e) PROVE VInv'
  BY <1>4, SampleHolds
<1>5. CASE Background
  BY <1>5, CompactHolds, FinishHolds DEF Background
<1> QED BY <1>1, <1>2, <1>3, <1>4, <1>5 DEF Next

-----------------------------------------------------------------------------
(* The levels are well formed *)

\* Every version that a flush, a move or a compaction installs is well formed,
\* and the compaction under way still fits it.
THEOREM VersionInvariant == Spec => []VInv
<1>1. Init => VInv
  BY InitHolds
<1>2. VInv /\ [Next]_vars => VInv'
  BY NextHolds
<1> QED BY <1>1, <1>2, PTL DEF Spec

LEMMA SortedFollows == VInv => LevelsSorted
<1> SUFFICES ASSUME VInv, NEW l \in 1 .. NumLevels - 1, NEW i \in 2 .. Len(levels[l])
             PROVE  Before(Largest(levels[l][i - 1]), Smallest(levels[l][i]))
  BY DEF LevelsSorted
<1> DEFINE f == levels[l][i - 1]
           g == levels[l][i]
           F == Files(levels, l)
<1>1. l \in Levels /\ l > 0
  BY VersionConstants DEF Levels
<1>2. LevelOK(levels, l) /\ FileSet(F) /\ levels[l] = Sorted(F)
      /\ \A x, y \in F : x = y \/ Apart(x, y)
  BY <1>1 DEF VInv, FilesOK, LevelOK
<1>3. levels[l] \in Seq(F) /\ Len(levels[l]) \in Nat
  BY <1>2, LevelList
<1>4. \A x, y \in 1 .. Len(levels[l]) : x < y => Before(Smallest(levels[l][x]), Smallest(levels[l][y]))
  BY <1>2, SortedIsList
<1>5. i - 1 \in 1 .. Len(levels[l]) /\ i \in 1 .. Len(levels[l]) /\ i - 1 < i
  BY <1>3
<1>6. f \in F /\ g \in F /\ Before(Smallest(f), Smallest(g))
  BY <1>3, <1>4, <1>5
<1> HIDE DEF f, g, F
<1>7. /\ Smallest(f) \in f /\ Largest(f) \in f /\ Smallest(g) \in g
      /\ Smallest(f) \in UNION F /\ Smallest(g) \in UNION F
  <2>1. Good(F)
    BY <1>2 DEF FileSet
  <2> QED BY <1>6, <2>1, GoodFile
<1>8. ~Before(Smallest(g), Smallest(f)) /\ ~Before(Smallest(f), Smallest(f))
  BY <1>2, <1>6, <1>7, BeforeOrders DEF FileSet, Good
<1>9. f # g
  BY <1>6, <1>8
<1>10. AllBefore(f, g)
  BY <1>2, <1>6, <1>7, <1>8, <1>9 DEF Apart, AllBefore
<1>11. Before(Largest(f), Smallest(g))
  BY <1>7, <1>10 DEF AllBefore
<1> QED BY <1>11 DEF f, g

\* Below level 0 the files of a level never overlap: what MaybeAddFile asserts
\* of every version, those that a flush installs while DoCompactionWork has
\* released mutex_ included.
THEOREM LevelsStaySorted == Spec => []LevelsSorted
  BY VersionInvariant, SortedFollows, PTL

-----------------------------------------------------------------------------
(* Looking up a key *)

\* What a table answers when the reader sees all of it: its newest entry of
\* the key, if it has one.
AnswersNewest(g, S, k) ==
    /\ (\A e \in S : e.key # k) => g = NoKey
    /\ (\E e \in S : e.key = k) =>
         g \in S /\ g.key = k /\ \A e \in S : e.key = k => e.seq <= g.seq

LEMMA TableGetNewest ==
  ASSUME NEW f, Distinct(f), NEW k \in Nat, NEW snap \in Nat, \A e \in f : e.seq <= snap
  PROVE  AnswersNewest(TableGet(f, LookupKey(k, snap)), f, k)
<1> DEFINE t == LookupKey(k, snap)
           after == {e \in f : ~Before(e, t)}
           s == Smallest(after)
           g == TableGet(f, t)
<1>1. \A e \in f : e.key \in Nat /\ e.seq \in Nat
  BY EntryFields DEF Distinct
<1>2. t.key = k /\ t.seq = snap
  BY DEF LookupKey
<1>3. g = IF after # {} /\ s.key = k THEN s ELSE NoKey
  BY <1>2 DEF TableGet
<1> HIDE DEF t, g
<1>4. \A e \in f : e \in after <=> k <= e.key
  BY <1>1, <1>2 DEF Before
<1>5. after \subseteq f
  OBVIOUS
<1> HIDE DEF after
<1>6. after # {} => s \in after /\ \A d \in after : d = s \/ Before(s, d)
  <2>1. Distinct(after)
    BY <1>5, DistinctSubset
  <2> QED BY <2>1, HasFirst
<1> HIDE DEF s
<1>7. ASSUME \A e \in f : e.key # k PROVE g = NoKey
  BY <1>3, <1>5, <1>6, <1>7
<1>8. ASSUME NEW e \in f, e.key = k
      PROVE  g \in f /\ g.key = k /\ \A d \in f : d.key = k => d.seq <= g.seq
  <2>1. e \in after /\ s \in after /\ s \in f
    BY <1>1, <1>4, <1>5, <1>6, <1>8
  <2>2. s.key = k
    BY <1>1, <1>4, <1>6, <1>8, <2>1 DEF Before
  <2>3. g = s
    BY <1>3, <2>1, <2>2
  <2>4. ASSUME NEW d \in f, d.key = k PROVE d.seq <= s.seq
    <3>1. d \in after
      BY <1>1, <1>4, <2>4
    <3> QED BY <1>1, <1>6, <2>1, <2>2, <2>4, <3>1 DEF Before
  <2> QED BY <2>1, <2>2, <2>3, <2>4
<1> QED BY <1>7, <1>8 DEF AnswersNewest, g, t

LEMMA NarrowedMoves ==
  ASSUME NEW list, NEW target, NEW n \in Nat, NEW s \in Bounds(n), s.left < s.right,
         NEW mid, mid = (s.left + s.right) \div 2
  PROVE  /\ Before(Largest(list[mid + 1]), target) =>
              /\ Narrowed(list, target, s).left = mid + 1
              /\ Narrowed(list, target, s).right = s.right
         /\ ~Before(Largest(list[mid + 1]), target) =>
              /\ Narrowed(list, target, s).left = s.left
              /\ Narrowed(list, target, s).right = mid
<1>1. s.left \in 0 .. n /\ s.right \in 0 .. n /\ ~(s.left >= s.right)
  BY DEF Bounds
<1>2. Narrowed(list, target, s) =
        IF Before(Largest(list[mid + 1]), target) THEN [s EXCEPT !.left = mid + 1]
        ELSE [s EXCEPT !.right = mid]
  BY <1>1, Zenon DEF Narrowed
<1>3. \A k : /\ [s EXCEPT !.left = k].left = k /\ [s EXCEPT !.left = k].right = s.right
             /\ [s EXCEPT !.right = k].left = s.left /\ [s EXCEPT !.right = k].right = k
  BY DEF Bounds
<1> QED BY <1>2, <1>3

\* FindFile: the place before which all files end before the target.
LEMMA FindFileFinds ==
  ASSUME NEW list, NEW target, Len(list) \in Nat, NEW x \in 1 .. Len(list) + 1,
         \A i \in 1 .. Len(list) : Before(Largest(list[i]), target) <=> i < x
  PROVE  FindFile(list, target) = x
<1> DEFINE n == Len(list)
           f == CHOOSE g : IsLoop(g, list, target, n)
<1>1. IsLoop(f, list, target, n)
  <2>1. \E g : IsLoop(g, list, target, n)
    BY LoopExists
  <2> QED BY <2>1, Zenon
<1>2. FindFile(list, target) = f[n].right + 1
  BY FindFileIs
<1>3. n \in Nat /\ x \in 1 .. n + 1 /\ \A i \in 1 .. n : Before(Largest(list[i]), target) <=> i < x
  OBVIOUS
<1> HIDE DEF f, n
<1>4. \A i \in 0 .. n : f[i] = IF i = 0 THEN [left |-> 0, right |-> n]
                               ELSE Narrowed(list, target, f[i - 1])
  BY <1>1, Zenon DEF IsLoop
<1> DEFINE Near(s, i) == /\ s \in Bounds(n) /\ s.left <= x - 1 /\ x - 1 <= s.right
                         /\ s.right - s.left <= n - i
           T == {i \in Nat : i <= n => Near(f[i], i)}
<1>5. 0 \in T
  <2>1. f[0] = [left |-> 0, right |-> n]
    BY <1>3, <1>4
  <2> QED BY <1>3, <2>1 DEF Bounds
<1>6. ASSUME NEW i \in T PROVE i + 1 \in T
  <2> SUFFICES ASSUME i + 1 <= n PROVE Near(f[i + 1], i + 1)
    OBVIOUS
  <2> DEFINE s == f[i]
             mid == (s.left + s.right) \div 2
  <2>1. i \in Nat /\ i <= n /\ i + 1 \in 0 .. n /\ i + 1 # 0 /\ (i + 1) - 1 = i
    BY <1>3
  <2>2. f[i + 1] = Narrowed(list, target, s) /\ Near(s, i)
    BY <1>4, <2>1
  <2> HIDE DEF s
  <2>3. s.left \in Nat /\ s.right \in Nat /\ s.right <= n /\ s \in Bounds(n)
    BY <1>3, <2>2 DEF Bounds
  <2>4. s.left < s.right => mid \in Nat /\ s.left <= mid /\ mid < s.right /\ mid + 1 \in 1 .. n
    BY <1>3, <2>3
  <2>5. f[i + 1] \in Bounds(n)
    BY <1>3, <2>2, <2>3, NarrowedInside
  <2>6. CASE s.left >= s.right
    <3>1. f[i + 1] = s
      BY <2>2, <2>6 DEF Narrowed
    <3> QED BY <1>3, <2>1, <2>2, <2>3, <2>6, <3>1
  <2>7. CASE s.left < s.right /\ Before(Largest(list[mid + 1]), target)
    <3>1. f[i + 1].left = mid + 1 /\ f[i + 1].right = s.right
      BY <1>3, <2>2, <2>3, <2>7, NarrowedMoves
    <3>2. mid + 1 < x
      BY <1>3, <2>4, <2>7
    <3> HIDE DEF mid
    <3> QED BY <1>3, <2>1, <2>2, <2>3, <2>4, <2>5, <2>7, <3>1, <3>2
  <2>8. CASE s.left < s.right /\ ~Before(Largest(list[mid + 1]), target)
    <3>1. f[i + 1].left = s.left /\ f[i + 1].right = mid
      BY <1>3, <2>2, <2>3, <2>8, NarrowedMoves
    <3>2. x <= mid + 1
      BY <1>3, <2>4, <2>8
    <3> HIDE DEF mid
    <3> QED BY <1>3, <2>1, <2>2, <2>3, <2>4, <2>5, <2>8, <3>1, <3>2
  <2> QED BY <2>3, <2>6, <2>7, <2>8
<1>7. T \in SUBSET Nat
  OBVIOUS
<1> HIDE DEF T
<1>8. T = Nat
  BY <1>5, <1>6, <1>7, SetInduction
<1>9. Near(f[n], n)
  BY <1>3, <1>8 DEF T
<1>10. f[n].right = x - 1
  BY <1>3, <1>9 DEF Bounds
<1> QED BY <1>2, <1>3, <1>10
-----------------------------------------------------------------------------
(* What a lookup relies on *)

NoCommonKey(A, B) == \A d \in A : \A e \in B : d.key # e.key
Newer(A, B) == \A d \in A : \A e \in B : d.key = e.key => d.seq > e.seq
AllNewer(A, B) == \A d \in A : \A e \in B : d.seq > e.seq

Held(lv) == UNION {UNION Files(lv, l) : l \in Levels}

\* Below level 0 all entries of a key are in one file of the level.
OneFile(lv) ==
    \A l \in 1 .. NumLevels - 1 : \A f, g \in Files(lv, l) : f = g \/ NoCommonKey(f, g)

\* What is at a lower level is newer, key by key.
Layers(lv) ==
    \A l, m \in Levels : l < m => Newer(UNION Files(lv, l), UNION Files(lv, m))

\* The files of level 0 were written one after the other.
ZeroOrder(lv) == \A f, g \in Files(lv, 0) : f = g \/ AllNewer(f, g) \/ AllNewer(g, f)

\* The file that holds a key is among the files visited.
LEMMA HolderVisited ==
  ASSUME NEW lv, LevelsOK(lv), OneFile(lv), NEW k \in Nat, NEW snap \in Nat,
         \A e \in Held(lv) : e.seq <= snap,
         NEW l \in Levels, NEW f \in Files(lv, l), NEW e \in f, e.key = k
  PROVE  \E i \in DOMAIN Visited(lv, LookupKey(k, snap)) :
            Visited(lv, LookupKey(k, snap))[i].file = f
<1> DEFINE t == LookupKey(k, snap)
           V == Visited(lv, t)
           list == lv[l]
<1>1. t.key = k /\ t.seq = snap
  BY DEF LookupKey
<1>2. VisitsInOrder(V, lv, t)
  BY VisitedInOrder DEF LevelsOK
<1> HIDE DEF V, t
<1>3. LevelOK(lv, l) /\ Good(Files(lv, l)) /\ list \in Seq(Files(lv, l)) /\ Len(list) \in Nat
  BY LevelList DEF LevelsOK
<1>4. \A g \in Files(lv, l) :
        /\ g # {} /\ Distinct(g) /\ g \subseteq Held(lv) /\ Smallest(g) \in g /\ Largest(g) \in g
        /\ \A d \in g : d.key \in Nat /\ Smallest(g).key <= d.key /\ d.key <= Largest(g).key
  <2>1. \A g \in Files(lv, l) : g # {} /\ Distinct(g) /\ g \subseteq Held(lv)
    BY <1>3, GoodFile DEF Held
  <2> QED BY <2>1, FileSpan
<1>5. Smallest(f).key \in Nat /\ Smallest(f).key <= k /\ k <= Largest(f).key /\ Largest(f).key \in Nat
  BY <1>4
<1>6. CASE l = 0
  <2>1. Covers(f, t.key)
    BY <1>1, <1>5 DEF Covers
  <2> QED BY <1>2, <1>6, <2>1 DEF VisitsInOrder, V, t
<1>7. CASE l # 0
  <2>1. l \in 1 .. NumLevels - 1
    BY <1>7 DEF Levels
  <2>2. PICK x \in 1 .. Len(list) : list[x] = f
    BY <1>3 DEF Files, ToSet
  <2>3. list = Sorted(Files(lv, l)) /\ FileSet(Files(lv, l))
        /\ \A g, h \in Files(lv, l) : g = h \/ Apart(g, h)
    BY <1>3, <2>1 DEF LevelOK
  <2>4. \A i, j \in 1 .. Len(list) : i < j => Before(Smallest(list[i]), Smallest(list[j]))
    BY <2>3, SortedIsList
  <2>5. \A i \in 1 .. Len(list) : list[i] \in Files(lv, l)
    BY <1>3
  <2> HIDE DEF list
  <2>6. ASSUME NEW i \in 1 .. Len(list), NEW j \in 1 .. Len(list), i < j
        PROVE  AllBefore(list[i], list[j]) /\ NoCommonKey(list[i], list[j])
    <3> DEFINE g == list[i]
               h == list[j]
    <3>1. g \in Files(lv, l) /\ h \in Files(lv, l) /\ Before(Smallest(g), Smallest(h))
      BY <2>4, <2>5, <2>6
    <3> HIDE DEF g, h
    <3>2. Smallest(g) \in g /\ Smallest(h) \in h
          /\ Smallest(g) \in UNION Files(lv, l) /\ Smallest(h) \in UNION Files(lv, l)
      BY <1>4, <3>1
    <3>3. ~Before(Smallest(h), Smallest(g)) /\ ~Before(Smallest(g), Smallest(g))
      BY <1>3, <3>1, <3>2, BeforeOrders DEF Good
    <3>4. g # h
      BY <3>1, <3>3
    <3>5. AllBefore(g, h)
      BY <2>3, <3>1, <3>2, <3>3, <3>4 DEF Apart, AllBefore
    <3>6. NoCommonKey(g, h)
      BY <2>1, <3>1, <3>4 DEF OneFile
    <3> QED BY <3>5, <3>6 DEF g, h
  <2>7. ASSUME NEW i \in 1 .. Len(list) PROVE Before(Largest(list[i]), t) <=> i < x
    <3> DEFINE g == list[i]
               z == Largest(g)
    <3>1. g \in Files(lv, l) /\ z \in g /\ z.key \in Nat
      BY <1>4, <2>5
    <3>2. z.seq <= snap /\ z.seq \in Nat /\ e.seq \in Nat
      <4>1. z \in Held(lv) /\ z \in Entry /\ e \in Entry
        BY <1>4, <3>1 DEF Distinct
      <4> QED BY <4>1, EntryFields
    <3> HIDE DEF g, z
    <3>3. CASE i < x
      <4>1. Before(z, e) /\ z.key # e.key
        BY <2>2, <2>6, <3>1, <3>3 DEF AllBefore, NoCommonKey, g
      <4> QED BY <1>1, <3>3, <4>1 DEF Before, z, g
    <3>4. CASE i = x
      <4>1. k <= z.key
        BY <1>5, <2>2, <3>4 DEF z, g
      <4> QED BY <1>1, <3>1, <3>2, <3>4, <4>1 DEF Before, z, g
    <3>5. CASE x < i
      <4>1. Before(e, z) /\ z.key # e.key
        BY <2>2, <2>6, <3>1, <3>5 DEF AllBefore, NoCommonKey, g
      <4>2. k < z.key
        BY <3>1, <4>1 DEF Before
      <4> QED BY <1>1, <3>1, <3>2, <3>5, <4>2 DEF Before, z, g
    <3> QED BY <3>3, <3>4, <3>5
  <2>8. x \in 1 .. Len(list) + 1
    BY <1>3
  <2>9. FindFile(list, t) = x
    BY <1>3, <2>7, <2>8, FindFileFinds
  <2>10. FindFile(lv[l], t) <= Len(lv[l]) /\ Smallest(lv[l][FindFile(lv[l], t)]).key <= t.key
         /\ lv[l][FindFile(lv[l], t)] = f
    BY <1>1, <1>3, <1>5, <2>2, <2>9 DEF list
  <2> QED BY <1>2, <2>1, <2>10 DEF VisitsInOrder, V, t
<1> QED BY <1>6, <1>7

\* A file whose last entry is newer is not older as a whole.
LEMMA NewestNotOlder ==
  ASSUME NEW F, Good(F), NEW f \in F, NEW g \in F, NewestFirst(f, g)
  PROVE  ~AllNewer(g, f)
<1> DEFINE A == {e.seq : e \in f}
           B == {e.seq : e \in g}
<1>1. f # {} /\ g # {} /\ Distinct(f) /\ Distinct(g)
  BY GoodFile
<1>2. \A e \in f \cup g : e.seq \in Nat /\ e.seq <= MaxSeq
  BY <1>1, EntryFields DEF Distinct
<1>3. /\ A \in SUBSET Nat /\ A # {} /\ B \in SUBSET Nat /\ B # {} /\ MaxSeq \in Nat
      /\ \A n \in A \cup B : n <= MaxSeq
  BY <1>1, <1>2, VersionConstants
<1>4. Max(A) > Max(B)
  BY DEF NewestFirst
<1>5. (\E d \in f : d.seq = Max(A)) \/ Max(A) \notin A
  OBVIOUS
<1>6. \A e \in g : e.seq \in B
  OBVIOUS
<1> HIDE DEF A, B
<1>7. \A S : S \in SUBSET Nat /\ S # {} /\ (\A n \in S : n <= MaxSeq) =>
        Max(S) \in S /\ \A n \in S : n <= Max(S)
  <2> SUFFICES ASSUME NEW S, S \in SUBSET Nat, S # {}, \A n \in S : n <= MaxSeq
               PROVE  Max(S) \in S /\ \A n \in S : n <= Max(S)
    OBVIOUS
  <2>1. \E x \in S : \A y \in S : y <= x
    BY <1>3, GreatestElement
  <2>2. \E x \in S : \A y \in S : x >= y
    BY <2>1
  <2>3. Max(S) \in S /\ \A y \in S : Max(S) >= y
    BY <2>2 DEF Max
  <2> QED BY <2>3
<1>8. Max(A) \in A /\ Max(B) \in B /\ \A n \in B : n <= Max(B)
  BY <1>3, <1>7
<1>9. PICK d \in f : d.seq = Max(A)
  BY <1>5, <1>8
<1>10. PICK e \in g : TRUE
  BY <1>1
<1>11. e.seq <= Max(B) /\ e.seq \in Nat /\ Max(B) \in Nat /\ Max(A) \in Nat
  BY <1>2, <1>3, <1>6, <1>8
<1>12. ~(e.seq > d.seq)
  BY <1>4, <1>9, <1>11
<1> QED BY <1>12 DEF AllNewer

\* Version::Get: the first file that holds the key holds its newest entry.
LEMMA VersionGetNewest ==
  ASSUME NEW lv, LevelsOK(lv), OneFile(lv), Layers(lv), ZeroOrder(lv),
         NEW k \in Nat \ {0}, NEW snap \in Nat, \A e \in Held(lv) : e.seq <= snap
  PROVE  AnswersNewest(VersionGet(lv, LookupKey(k, snap)), Held(lv), k)
<1> DEFINE t == LookupKey(k, snap)
           V == Visited(lv, t)
           ans == [i \in DOMAIN V |-> TableGet(V[i].file, t)]
           hits == {i \in DOMAIN V : TableGet(V[i].file, t) # NoKey}
           r == VersionGet(lv, t)
<1>1. VisitsInOrder(V, lv, t)
  BY VisitedInOrder DEF LevelsOK
<1>2. r = IF hits = {} THEN NoKey ELSE TableGet(V[Min(hits)].file, t)
  BY DEF VersionGet
<1>3. \A i \in DOMAIN V : ans[i] = TableGet(V[i].file, t)
  OBVIOUS
<1>4. hits \subseteq DOMAIN V /\ \A i \in DOMAIN V : i \in hits <=> ans[i] # NoKey
  OBVIOUS
<1> HIDE DEF V, ans, hits, r
<1>5. /\ Len(V) \in Nat /\ DOMAIN V = 1 .. Len(V)
      /\ \A i \in DOMAIN V : V[i].level \in Levels /\ V[i].file \in Files(lv, V[i].level)
      /\ \A i, j \in DOMAIN V : i < j =>
           \/ V[i].level < V[j].level
           \/ V[i].level = 0 /\ V[j].level = 0 /\ NewestFirst(V[i].file, V[j].file)
  BY <1>1 DEF VisitsInOrder
<1>6. ASSUME NEW i \in DOMAIN V
      PROVE  /\ V[i].file \subseteq Held(lv)
             /\ AnswersNewest(ans[i], V[i].file, k)
             /\ i \in hits <=> \E e \in V[i].file : e.key = k
  <2> DEFINE f == V[i].file
             l == V[i].level
  <2>1. l \in Levels /\ f \in Files(lv, l) /\ Good(Files(lv, l))
    BY <1>5, LevelList DEF LevelsOK
  <2>2. f \subseteq Held(lv) /\ Distinct(f)
    BY <2>1, GoodFile DEF Held
  <2> HIDE DEF f, l
  <2>3. AnswersNewest(ans[i], f, k)
    BY <1>3, <2>2, TableGetNewest DEF f
  <2>4. \A e \in f : e # NoKey
    <3>1. \A e \in f : e.key > 0
      BY <2>2, EntryFields DEF Distinct
    <3>2. NoKey.key = 0
      BY DEF NoKey
    <3> QED BY <3>1, <3>2
  <2>5. i \in hits <=> \E e \in f : e.key = k
    BY <1>4, <2>3, <2>4 DEF AnswersNewest
  <2> QED BY <2>2, <2>3, <2>5 DEF f
<1>7. ASSUME NEW e \in Held(lv), e.key = k PROVE \E i \in hits : e \in V[i].file
  <2>1. PICK l \in Levels : \E f \in Files(lv, l) : e \in f
    BY DEF Held
  <2>2. PICK f \in Files(lv, l) : e \in f
    BY <2>1
  <2>3. PICK i \in DOMAIN V : V[i].file = f
    BY <1>7, <2>2, HolderVisited DEF V
  <2> QED BY <1>6, <1>7, <2>2, <2>3
<1>8. ASSUME \A e \in Held(lv) : e.key # k PROVE r = NoKey
  <2>1. hits = {}
    BY <1>4, <1>6, <1>8
  <2> QED BY <1>2, <2>1
<1>9. ASSUME NEW e0 \in Held(lv), e0.key = k
      PROVE  r \in Held(lv) /\ r.key = k /\ \A e \in Held(lv) : e.key = k => e.seq <= r.seq
  <2> DEFINE m == Min(hits)
  <2>1. hits # {} /\ hits \in SUBSET Nat
    BY <1>4, <1>5, <1>7, <1>9
  <2>2. m \in hits /\ \A i \in hits : m <= i
    <3>1. \E x \in hits : \A y \in hits : x <= y
      BY <2>1, LeastElement
    <3> QED BY <3>1 DEF Min
  <2>3. r = ans[m] /\ m \in DOMAIN V
    BY <1>2, <1>3, <1>4, <2>1, <2>2
  <2> HIDE DEF m
  <2>4. /\ r \in V[m].file /\ r.key = k /\ V[m].file \subseteq Held(lv)
        /\ \A e \in V[m].file : e.key = k => e.seq <= r.seq
    BY <1>6, <2>2, <2>3 DEF AnswersNewest
  <2>5. ASSUME NEW e \in Held(lv), e.key = k PROVE e.seq <= r.seq
    <3>1. PICK i \in hits : e \in V[i].file
      BY <1>7, <2>5
    <3>2. i \in DOMAIN V /\ i \in Nat /\ m \in Nat /\ m <= i
      BY <1>4, <1>5, <2>2, <2>3
    <3>3. e.seq \in Nat /\ r.seq \in Nat
      <4>1. e \in Entry /\ r \in Entry
        BY <2>4 DEF LevelsOK, Distinct, Held
      <4> QED BY <4>1, EntryFields
    <3>4. CASE m = i
      BY <2>4, <2>5, <3>1, <3>4
    <3>5. CASE m < i /\ V[m].level < V[i].level
      <4>1. r \in UNION Files(lv, V[m].level) /\ e \in UNION Files(lv, V[i].level)
        BY <1>5, <2>3, <2>4, <3>1, <3>2
      <4>2. r.seq > e.seq
        BY <1>5, <2>3, <2>4, <2>5, <3>2, <3>5, <4>1 DEF Layers, Newer
      <4> QED BY <3>3, <4>2
    <3>6. CASE V[m].level = 0 /\ V[i].level = 0 /\ NewestFirst(V[m].file, V[i].file)
      <4> DEFINE f == V[m].file
                 g == V[i].file
      <4>1. f \in Files(lv, 0) /\ g \in Files(lv, 0) /\ 0 \in Levels
        BY <1>5, <2>3, <3>2, <3>6
      <4>2. FileSet(Files(lv, 0)) /\ Good(Files(lv, 0))
        BY <4>1 DEF LevelsOK, LevelOK, FileSet
      <4> HIDE DEF f, g
      <4>3. f # g
        BY <3>6, <4>1, <4>2, NewestOrders DEF f, g
      <4>4. ~AllNewer(g, f)
        BY <3>6, <4>1, <4>2, NewestNotOlder DEF f, g
      <4>5. AllNewer(f, g)
        BY <4>1, <4>3, <4>4 DEF ZeroOrder
      <4>6. r.seq > e.seq
        BY <2>4, <3>1, <4>5 DEF AllNewer, f, g
      <4> QED BY <3>3, <4>6
    <3> QED BY <1>5, <2>3, <3>2, <3>4, <3>5, <3>6
  <2> QED BY <2>4, <2>5
<1>10. AnswersNewest(r, Held(lv), k)
  BY <1>8, <1>9 DEF AnswersNewest
<1> QED BY <1>10 DEF r

\* The memtable is newer than every file.
MemNewest(lv) == AllNewer(mem, Held(lv))

\* The newest entry of a key is there, or it is a deletion and so is every
\* other entry of the key gone.
Newest(e) == \A d \in written : d.key = e.key => d.seq <= e.seq
NewestHeld(lv) ==
    \A e \in written : Newest(e) =>
        \/ e \in mem \cup Held(lv)
        \/ e.del /\ \A d \in mem \cup Held(lv) : d.key # e.key

LookupOK(lv) == /\ OneFile(lv) /\ Layers(lv) /\ ZeroOrder(lv)
                /\ MemNewest(lv) /\ NewestHeld(lv)

LEMMA HeldWritten ==
  ASSUME EntriesOK, FilesOK
  PROVE  /\ Held(levels) \subseteq written /\ Held(levels) \cap mem = {}
         /\ \A e \in written : /\ e \in Entry /\ e.seq \in Nat /\ e.key \in Nat /\ e.key > 0
                               /\ e.seq <= lastSeq
         /\ lastSeq \in Nat
<1>1. Held(levels) \subseteq written /\ Held(levels) \cap mem = {}
  BY DEF FilesOK, Held
<1>2. \A e \in written : e \in Entry /\ e.seq <= lastSeq
  BY DEF EntriesOK, Distinct
<1>3. lastSeq \in Nat
  BY VersionConstants DEF EntriesOK
<1> QED BY <1>1, <1>2, <1>3, EntryFields

\* DBImpl::Get gives the newest entry that is left.
LEMMA GetNewest ==
  ASSUME EntriesOK, FilesOK, LookupOK(levels), NEW k \in Keys
  PROVE  AnswersNewest(Get(k, lastSeq), mem \cup Held(levels), k)
<1> DEFINE t == LookupKey(k, lastSeq)
           inMem == TableGet(mem, t)
           below == VersionGet(levels, t)
           g == Get(k, lastSeq)
<1>1. g = IF inMem # NoKey THEN inMem ELSE below
  BY DEF Get
<1>2. k \in Nat /\ k \in Nat \ {0}
  BY VersionConstants DEF Keys
<1>3. /\ Held(levels) \subseteq written /\ lastSeq \in Nat /\ mem \subseteq written
      /\ \A e \in written : e.seq \in Nat /\ e.key > 0 /\ e.seq <= lastSeq
  BY HeldWritten DEF EntriesOK
<1>4. LevelsOK(levels)
  BY AllLevels
<1>5. AnswersNewest(inMem, mem, k)
  <2>1. Distinct(mem)
    BY DistinctSubset DEF EntriesOK
  <2> QED BY <1>2, <1>3, <2>1, TableGetNewest
<1>6. AnswersNewest(below, Held(levels), k)
  BY <1>2, <1>3, <1>4, VersionGetNewest DEF LookupOK
<1> HIDE DEF inMem, below, g
<1>7. \A e \in mem : e # NoKey
  <2>1. NoKey.key = 0
    BY DEF NoKey
  <2> QED BY <1>3, <2>1
<1>8. CASE \A e \in mem : e.key # k
  <2>1. g = below
    BY <1>1, <1>5, <1>8 DEF AnswersNewest
  <2> QED BY <1>6, <1>8, <2>1 DEF AnswersNewest, g
<1>9. CASE \E e \in mem : e.key = k
  <2>1. /\ inMem \in mem /\ inMem.key = k /\ inMem # NoKey
        /\ \A e \in mem : e.key = k => e.seq <= inMem.seq
    BY <1>5, <1>7, <1>9 DEF AnswersNewest
  <2>2. g = inMem
    BY <1>1, <2>1
  <2>3. ASSUME NEW e \in Held(levels) PROVE e.seq <= inMem.seq
    <3>1. inMem.seq > e.seq
      BY <2>1 DEF LookupOK, MemNewest, AllNewer
    <3> QED BY <1>3, <2>1, <3>1
  <2> QED BY <1>9, <2>1, <2>2, <2>3 DEF AnswersNewest, g
<1> QED BY <1>8, <1>9

LEMMA GetFollows == VInv /\ LookupOK(levels) /\ snapshots = {} => GetCorrect
<1> SUFFICES ASSUME VInv, LookupOK(levels), NEW k \in Keys
             PROVE  Visible(Get(k, lastSeq)) = Visible(Truth(k, lastSeq))
  BY DEF GetCorrect
<1> DEFINE seen == {e \in written : e.key = k /\ e.seq <= lastSeq}
           g == Get(k, lastSeq)
           t == Truth(k, lastSeq)
           here == mem \cup Held(levels)
<1>1. EntriesOK /\ FilesOK
  BY DEF VInv
<1>2. AnswersNewest(g, here, k)
  BY <1>1, GetNewest
<1>3. /\ here \subseteq written /\ MaxSeq \in Nat
      /\ \A e \in written : e.seq \in Nat /\ e.seq <= lastSeq /\ e.seq <= MaxSeq
  BY <1>1, HeldWritten, EntryFields, VersionConstants DEF EntriesOK
<1>4. t = IF seen = {} THEN NoKey ELSE CHOOSE e \in seen : \A d \in seen : d.seq <= e.seq
  BY DEF Truth
<1>5. seen \subseteq written /\ \A e \in written : e \in seen <=> e.key = k
  BY <1>3
<1> HIDE DEF g, t, here, seen
<1>6. CASE seen = {}
  <2>1. g = NoKey
    BY <1>2, <1>3, <1>5, <1>6 DEF AnswersNewest
  <2> QED BY <1>4, <1>6, <2>1 DEF g, t
<1>7. CASE seen # {}
  <2> DEFINE Q == {e.seq : e \in seen}
  <2>1. Q \in SUBSET Nat /\ Q # {} /\ \A q \in Q : q <= MaxSeq
    BY <1>3, <1>5, <1>7
  <2> HIDE DEF Q
  <2>2. PICK q \in Q : \A p \in Q : p <= q
    BY <1>3, <2>1, GreatestElement
  <2>3. \E e \in seen : \A d \in seen : d.seq <= e.seq
    BY <2>2 DEF Q
  <2>4. t \in seen /\ \A d \in seen : d.seq <= t.seq
    BY <1>4, <1>7, <2>3
  <2>5. t \in written /\ t.key = k /\ Newest(t)
    BY <1>5, <2>4 DEF Newest
  <2>6. CASE t \in here
    <3>1. g \in here /\ g.key = k /\ t.seq <= g.seq
      BY <1>2, <2>5, <2>6 DEF AnswersNewest
    <3>2. g \in written /\ g.seq <= t.seq
      BY <1>3, <2>5, <3>1 DEF Newest
    <3>3. g.seq = t.seq
      BY <1>3, <2>5, <3>1, <3>2
    <3>4. g = t
      BY <1>1, <2>5, <3>2, <3>3 DEF EntriesOK, Distinct
    <3> QED BY <3>4 DEF g, t
  <2>7. CASE t.del /\ \A d \in here : d.key # k
    <3>1. g = NoKey
      BY <1>2, <2>7 DEF AnswersNewest
    <3>2. Visible(g) = NoKey /\ Visible(t) = NoKey
      BY <2>7, <3>1 DEF Visible, NoKey
    <3> QED BY <3>2 DEF g, t
  <2> QED BY <2>5, <2>6, <2>7 DEF LookupOK, NewestHeld, here
<1> QED BY <1>6, <1>7

-----------------------------------------------------------------------------
(* At level 0 a compaction takes all that overlaps it *)

\* Nothing follows them either: AddBoundaryInputs adds no file.
LEMMA BoundaryOfClosed ==
  ASSUME NEW level, FileSet(level), NEW S, S \subseteq level, S # {}, Closed(level, S)
  PROVE  Boundary(level, S) = S
<1> DEFINE A == CHOOSE f : IsAdd(f, level, S)
<1>1. IsAdd(A, level, S)
  <2>1. \E f : IsAdd(f, level, S)
    BY AddExists
  <2> QED BY <2>1, Zenon
<1>2. Boundary(level, S) = A[Cardinality(level)]
  BY BoundaryIs
<1> HIDE DEF A
<1>3. A[0] = S /\ \A i \in Nat : i # 0 => A[i] = WithNext(level, A[i - 1])
  BY <1>1 DEF IsAdd
<1>4. Good(level) /\ Good(S) /\ Cardinality(level) \in Nat
  BY GoodSubset, SortedIsList DEF FileSet
<1>5. ASSUME NEW g \in Following(level, S) PROVE FALSE
  <2>1. g \in level /\ Before(Largest(UNION S), Smallest(g)) /\ Smallest(g).key = High(S)
    BY DEF Following
  <2>2. /\ Low(S) \in Nat /\ High(S) \in Nat /\ Low(S) <= High(S)
        /\ Smallest(g).key \in Nat /\ Largest(g).key \in Nat /\ Smallest(g).key <= Largest(g).key
    BY <1>4, <2>1, Spanned
  <2>3. g \in S
    BY <2>1, <2>2 DEF Closed, Meets
  <2>4. Distinct(UNION S) /\ Smallest(g) \in UNION S /\ UNION S # {}
    BY <1>4, <2>3, GoodFile DEF Good
  <2> DEFINE U == UNION S
  <2>5. Largest(U) \in U /\ \A d \in U : d = Largest(U) \/ Before(d, Largest(U))
    BY <2>4, HasLast
  <2> HIDE DEF U
  <2>6. Distinct(U) /\ Smallest(g) \in U /\ Before(Largest(U), Smallest(g))
    BY <2>1, <2>4 DEF U
  <2> QED BY <2>5, <2>6, BeforeOrders
<1>6. WithNext(level, S) = S
  BY <1>5 DEF WithNext
<1> DEFINE T == {i \in Nat : A[i] = S}
<1>7. 0 \in T
  BY <1>3
<1>8. ASSUME NEW i \in T PROVE i + 1 \in T
  <2>1. i \in Nat /\ i + 1 \in Nat /\ i + 1 # 0 /\ (i + 1) - 1 = i /\ A[i] = S
    OBVIOUS
  <2>2. A[i + 1] = WithNext(level, A[i])
    BY <1>3, <2>1
  <2> QED BY <1>6, <2>1, <2>2
<1>9. T \in SUBSET Nat
  OBVIOUS
<1> HIDE DEF T
<1>10. T = Nat
  BY <1>7, <1>8, <1>9, SetInduction
<1>11. A[Cardinality(level)] = S
  BY <1>4, <1>10 DEF T
<1> QED BY <1>2, <1>11

\* SetupOtherInputs: all files of the next level that the inputs meet, and at
\* level 0 all of its own.
LEMMA InputsTake ==
  ASSUME NEW lv, LevelsOK(lv), NEW level \in 0 .. NumLevels - 2,
         NEW first, first # {}, first \subseteq Files(lv, level), GapFree(first),
         level = 0 => Closed(Files(lv, level), first),
         NEW c, c = Inputs(lv, level, first)
  PROVE  /\ c.level = level /\ c.version = lv /\ c.smallest = OldestSnapshot
         /\ c.in1 = Meeting(Files(lv, level + 1), Low(c.in0), High(c.in0))
         /\ level = 0 => Closed(Files(lv, level), c.in0)
<1> DEFINE here == Files(lv, level)
           zero == Boundary(here, first)
           one == Overlapping(lv, level + 1, Low(zero), High(zero))
           range == zero \cup one
           wide == Overlapping(lv, level, Low(range), High(range))
           more == Boundary(here, wide)
           one2 == Overlapping(lv, level + 1, Low(more), High(more))
           expand == /\ one # {}
                     /\ Cardinality(more) > Cardinality(zero)
                     /\ Size(one) + Size(more) < Expanded
                     /\ Cardinality(one2) = Cardinality(one)
           in0 == IF expand THEN more ELSE zero
           in1 == IF expand THEN one2 ELSE one
<1>1. /\ c.level = level /\ c.version = lv /\ c.smallest = OldestSnapshot
      /\ c.in0 = in0 /\ c.in1 = in1
  BY DEF Inputs
<1>2. (in0 = more /\ in1 = one2) \/ (in0 = zero /\ in1 = one)
  <2> HIDE DEF expand, more, zero, one, one2
  <2> QED OBVIOUS
<1>3. level \in Levels /\ level + 1 \in Levels /\ level + 1 # 0
  BY VersionConstants DEF Levels
<1>4. \A lo, hi : Overlapping(lv, level + 1, lo, hi) = Meeting(Files(lv, level + 1), lo, hi)
  BY <1>3, OverlappingIs
<1>5. c.in1 = Meeting(Files(lv, level + 1), Low(c.in0), High(c.in0))
  <2> HIDE DEF in0, in1, zero, more
  <2> QED BY <1>1, <1>2, <1>4
<1>6. c.in0 # {}
  BY InputsCorrect DEF CompOK
<1>7. ASSUME level = 0 PROVE Closed(here, c.in0)
  <2>1. LevelOK(lv, 0) /\ FileSet(here)
    BY <1>3, <1>7 DEF LevelsOK, LevelOK
  <2>2. zero = first
    BY <1>7, <2>1, BoundaryOfClosed
  <2> HIDE DEF zero, in0, in1, expand
  <2>3. Low(range) \in Nat /\ High(range) \in Nat
    <3>1. one \subseteq Files(lv, level + 1)
      BY <1>4 DEF Meeting
    <3>2. Good(range) /\ range # {}
      BY <1>3, <2>2, <3>1, LevelsGood
    <3> HIDE DEF range
    <3> QED BY <3>2, Spanned
  <2>4. ASSUME wide # {} PROVE Closed(here, wide) /\ wide \subseteq here
    <3> HIDE DEF range, wide
    <3>1. wide = Overlapping(lv, 0, Low(range), High(range))
      BY <1>7 DEF wide
    <3> QED BY <1>7, <2>1, <2>3, <2>4, <3>1, OverlappingClosed
  <2> HIDE DEF wide
  <2>5. CASE c.in0 = more
    <3>1. wide # {}
      BY <1>6, <2>5, BoundaryIs
    <3>2. more = wide
      BY <2>1, <2>4, <3>1, BoundaryOfClosed
    <3> QED BY <2>4, <2>5, <3>1, <3>2
  <2>6. CASE c.in0 = zero
    BY <1>7, <2>2, <2>6
  <2> QED BY <1>1, <1>2, <2>5, <2>6
<1> QED BY <1>1, <1>5, <1>7

\* What a compaction has chosen still lies as Version::Get needs it: above
\* what stays behind nothing older is moved over, and what is dropped as the
\* last of its key is.
CompKeys(c, lv) ==
    /\ c.smallest \in 0 .. MaxSeq /\ \A d \in UNION (c.in0 \cup c.in1) : d.seq <= c.smallest
    /\ \A g \in Files(lv, c.level) \ c.in0 : Newer(g, UNION c.in0)
    /\ \A g \in Files(lv, c.level + 1) \ c.in1 : NoCommonKey(g, UNION (c.in0 \cup c.in1))
    /\ \A l \in c.level + 2 .. NumLevels - 1 : \A f \in Files(lv, l) :
         f \in Files(c.version, l) \/ NoCommonKey(f, UNION (c.in0 \cup c.in1))

\* Files that do not meet the range of others have no key in common with them.
LEMMA OutOfRange ==
  ASSUME NEW F, Good(F), F # {}, NEW g, g # {}, Distinct(g), ~Meets(g, Low(F), High(F))
  PROVE  NoCommonKey(g, UNION F)
<1>1. /\ Low(F) \in Nat /\ High(F) \in Nat
      /\ \A f \in F : Low(F) <= Smallest(f).key /\ Largest(f).key <= High(F)
  BY Spanned
<1>2. \A f \in F : f # {} /\ Distinct(f)
  BY GoodFile
<1>3. \A f \in F : \A d \in f : d.key \in Nat /\ Smallest(f).key <= d.key /\ d.key <= Largest(f).key
                                /\ Smallest(f).key \in Nat /\ Largest(f).key \in Nat
  BY <1>2, FileSpan
<1>4. \A d \in UNION F : d.key \in Nat /\ Low(F) <= d.key /\ d.key <= High(F)
  BY <1>1, <1>3
<1>5. /\ Smallest(g).key \in Nat /\ Largest(g).key \in Nat
      /\ \A d \in g : d.key \in Nat /\ Smallest(g).key <= d.key /\ d.key <= Largest(g).key
  BY FileSpan
<1> QED BY <1>1, <1>4, <1>5 DEF Meets, NoCommonKey

LEMMA InputsKeys ==
  ASSUME EntriesOK, FilesOK, OneFile(levels), snapshots = {},
         NEW level \in 0 .. NumLevels - 2,
         NEW first, first # {}, first \subseteq Files(levels, level), GapFree(first),
         level = 0 => Closed(Files(levels, level), first),
         NEW c, c = Inputs(levels, level, first)
  PROVE  CompKeys(c, levels)
<1>1. LevelsOK(levels)
  BY AllLevels
<1>2. /\ c.level = level /\ c.version = levels /\ c.smallest = OldestSnapshot
      /\ c.in1 = Meeting(Files(levels, level + 1), Low(c.in0), High(c.in0))
      /\ level = 0 => Closed(Files(levels, level), c.in0)
  BY <1>1, InputsTake
<1>3. /\ c.in0 # {} /\ c.in0 \subseteq Files(levels, level) /\ c.in1 \subseteq Files(levels, level + 1)
  BY <1>1, <1>2, InputsCorrect DEF CompOK
<1>4. level \in Levels /\ level + 1 \in Levels /\ level + 1 \in 1 .. NumLevels - 1
  BY VersionConstants DEF Levels
<1>5. \A F : F \subseteq Files(levels, level) \cup Files(levels, level + 1) => Good(F)
  BY <1>1, <1>4, LevelsGood
<1>6. Good(c.in0) /\ \A g \in Files(levels, level) \cup Files(levels, level + 1) : g # {} /\ Distinct(g)
  BY <1>3, <1>5, GoodFile
<1>7. c.smallest \in 0 .. MaxSeq /\ \A d \in UNION (c.in0 \cup c.in1) : d.seq <= c.smallest
  <2>1. c.smallest = lastSeq /\ lastSeq \in 0 .. MaxSeq
    BY <1>2 DEF OldestSnapshot, EntriesOK
  <2>2. UNION (c.in0 \cup c.in1) \subseteq written
    BY <1>3, <1>4 DEF FilesOK
  <2> QED BY <2>1, <2>2 DEF EntriesOK
<1>8. ASSUME NEW g \in Files(levels, level) \ c.in0 PROVE Newer(g, UNION c.in0)
  <2>1. CASE level = 0
    <3>1. ~Meets(g, Low(c.in0), High(c.in0))
      BY <1>2, <2>1 DEF Closed
    <3>2. NoCommonKey(g, UNION c.in0)
      BY <1>3, <1>6, <3>1, OutOfRange
    <3> QED BY <3>2 DEF Newer, NoCommonKey
  <2>2. CASE level # 0
    <3>1. level \in 1 .. NumLevels - 1
      BY <2>2, VersionConstants
    <3>2. \A f \in c.in0 : NoCommonKey(g, f)
      BY <1>3, <3>1 DEF OneFile
    <3> QED BY <3>2 DEF Newer, NoCommonKey
  <2> QED BY <2>1, <2>2
<1>9. ASSUME NEW g \in Files(levels, level + 1) \ c.in1 PROVE NoCommonKey(g, UNION (c.in0 \cup c.in1))
  <2>1. ~Meets(g, Low(c.in0), High(c.in0))
    BY <1>2 DEF Meeting
  <2>2. NoCommonKey(g, UNION c.in0)
    BY <1>3, <1>6, <2>1, OutOfRange
  <2>3. \A f \in c.in1 : NoCommonKey(g, f)
    BY <1>3, <1>4 DEF OneFile
  <2> QED BY <2>2, <2>3 DEF NoCommonKey
<1> QED BY <1>2, <1>7, <1>8, <1>9 DEF CompKeys

LEMMA PickedKeys ==
  ASSUME EntriesOK, FilesOK, SeekOK, OneFile(levels), snapshots = {},
         NeedsSize(levels) \/ seek # {}
  PROVE  CompKeys(Picked, levels)
<1>1. PICK level, first : Starts(level, first) /\ Picked = Inputs(levels, level, first)
  BY AllLevels, PickedStarts DEF SeekOK
<1> QED BY <1>1, InputsKeys DEF Starts

-----------------------------------------------------------------------------
(* What a compaction drops *)

Kept(acc) == acc.cur \cup (UNION acc.outs)

\* Of the entries read, one of each key is kept, the newest, unless it is a
\* deletion and no deeper level has the key.
Survives(d, read, out, c) ==
    \/ d \in out
    \/ \E e \in read : e.key = d.key /\ e.seq > d.seq
    \/ d.del /\ IsBaseLevel(c, d.key) /\ \A e \in out : e.key # d.key
LastRead(acc, read) ==
    \/ read = {} /\ acc.key = 0
    \/ \E p \in read : acc.key = p.key /\ acc.last = p.seq /\ \A d \in read : d = p \/ Before(d, p)
Dropped(c, acc, read) ==
    /\ LastRead(acc, read)
    /\ Kept(acc) \subseteq read
    /\ \A d, e \in Kept(acc) : d.key = e.key => d = e
    /\ \A d \in read : Survives(d, read, Kept(acc), c)

LEMMA MergeStepKeeps ==
  ASSUME NEW c, NEW acc, NEW e
  PROVE  LET last == IF e.key # acc.key THEN MaxSeq + 1 ELSE acc.last
             drop == \/ last <= c.smallest
                     \/ e.del /\ e.seq <= c.smallest /\ IsBaseLevel(c, e.key)
         IN  /\ MergeStep(c, acc, e).key = e.key /\ MergeStep(c, acc, e).last = e.seq
             /\ Kept(MergeStep(c, acc, e)) = IF drop THEN Kept(acc) ELSE Kept(acc) \cup {e}
<1> DEFINE stop == Overlap(c, acc, e) > GrandParents
           outs == IF stop THEN acc.outs \cup {acc.cur} ELSE acc.outs
           cur == IF stop THEN {} ELSE acc.cur
           last == IF e.key # acc.key THEN MaxSeq + 1 ELSE acc.last
           drop == \/ last <= c.smallest
                   \/ e.del /\ e.seq <= c.smallest /\ IsBaseLevel(c, e.key)
           cur2 == IF drop THEN cur ELSE cur \cup {e}
           full == Cardinality(cur2) >= MaxFile
           outs2 == IF full THEN outs \cup {cur2} ELSE outs
           cur3 == IF full THEN {} ELSE cur2
           r == MergeStep(c, acc, e)
<1>1. r.outs = outs2 /\ r.cur = cur3 /\ r.key = e.key /\ r.last = e.seq
  BY DEF MergeStep
<1> HIDE DEF r
<1>2. cur \cup (UNION outs) = Kept(acc)
  <2> HIDE DEF stop
  <2> QED BY DEF Kept
<1> HIDE DEF cur, outs, drop
<1>3. cur2 \cup (UNION outs) = IF drop THEN Kept(acc) ELSE Kept(acc) \cup {e}
  BY <1>2
<1> HIDE DEF cur2
<1>4. cur3 \cup (UNION outs2) = cur2 \cup (UNION outs)
  <2> HIDE DEF full
  <2> QED OBVIOUS
<1> HIDE DEF cur3, outs2
<1>5. Kept(r) = IF drop THEN Kept(acc) ELSE Kept(acc) \cup {e}
  BY <1>1, <1>3, <1>4 DEF Kept
<1> QED BY <1>1, <1>5 DEF r, drop

LEMMA DroppedStep ==
  ASSUME NEW c, NEW acc, NEW read, NEW e, Dropped(c, acc, read), \A d \in read : Before(d, e),
         c.smallest \in 0 .. MaxSeq,
         \A d \in read \cup {e} : d \in Entry /\ d.seq <= c.smallest
  PROVE  Dropped(c, MergeStep(c, acc, e), read \cup {e})
<1> DEFINE last == IF e.key # acc.key THEN MaxSeq + 1 ELSE acc.last
           drop == \/ last <= c.smallest
                   \/ e.del /\ e.seq <= c.smallest /\ IsBaseLevel(c, e.key)
           r == MergeStep(c, acc, e)
           out == Kept(acc)
           new == Kept(r)
<1>1. r.key = e.key /\ r.last = e.seq /\ new = IF drop THEN out ELSE out \cup {e}
  BY MergeStepKeeps
<1>2. \A d \in read \cup {e} : d.key \in Nat /\ d.key > 0 /\ d.seq \in Nat
  BY EntryFields
<1>3. /\ out \subseteq read
      /\ \A d, f \in out : d.key = f.key => d = f
      /\ \A d \in read : Survives(d, read, out, c)
      /\ LastRead(acc, read)
  BY DEF Dropped
<1> HIDE DEF r, out, new
<1>4. LastRead(r, read \cup {e})
  BY <1>1 DEF LastRead
<1>5. CASE e.key = acc.key
  <2>1. PICK p \in read : acc.key = p.key /\ acc.last = p.seq
    BY <1>2, <1>3, <1>5 DEF LastRead
  <2>2. drop
    BY <1>5, <2>1
  <2>3. new = out
    BY <1>1, <2>2
  <2>4. p.key = e.key /\ p.seq > e.seq
    <3>1. Before(p, e)
      OBVIOUS
    <3> QED BY <1>2, <1>5, <2>1, <3>1 DEF Before
  <2>5. Survives(e, read \cup {e}, new, c)
    BY <2>4 DEF Survives
  <2>6. \A d \in read : Survives(d, read \cup {e}, new, c)
    BY <1>3, <2>3 DEF Survives
  <2> QED BY <1>3, <1>4, <2>3, <2>5, <2>6 DEF Dropped, new, r
<1>6. CASE e.key # acc.key
  <2>1. \A d \in read : d.key # e.key
    <3>1. CASE read = {}
      BY <3>1
    <3>2. CASE read # {}
      <4>1. PICK p \in read : acc.key = p.key /\ \A d \in read : d = p \/ Before(d, p)
        BY <1>3, <3>2 DEF LastRead
      <4>2. p.key < e.key
        BY <1>2, <1>6, <4>1 DEF Before
      <4> QED BY <1>2, <4>1, <4>2 DEF Before
    <3> QED BY <3>1, <3>2
  <2>2. drop <=> e.del /\ IsBaseLevel(c, e.key)
    <3>1. last = MaxSeq + 1
      BY <1>6
    <3>2. ~(last <= c.smallest) /\ e.seq <= c.smallest
      BY <3>1, VersionConstants
    <3> HIDE DEF last
    <3> QED BY <3>2
  <2> HIDE DEF drop
  <2>3. \A d, f \in new : d.key = f.key => d = f
    BY <1>1, <1>3, <2>1
  <2>4. new \subseteq read \cup {e}
    BY <1>1, <1>3
  <2>5. Survives(e, read \cup {e}, new, c)
    <3>1. CASE drop
      <4>1. \A d \in new : d.key # e.key
        BY <1>1, <1>3, <2>1, <3>1
      <4> QED BY <2>2, <3>1, <4>1 DEF Survives
    <3>2. CASE ~drop
      BY <1>1, <3>2 DEF Survives
    <3> QED BY <3>1, <3>2
  <2>6. ASSUME NEW d \in read PROVE Survives(d, read \cup {e}, new, c)
    <3>1. Survives(d, read, out, c) /\ d.key # e.key
      BY <1>3, <2>1
    <3>2. out \subseteq new /\ \A f \in new : f \in out \/ f = e
      BY <1>1
    <3> QED BY <3>1, <3>2 DEF Survives
  <2> QED BY <1>4, <2>3, <2>4, <2>5, <2>6 DEF Dropped, new, r
<1> QED BY <1>5, <1>6

LEMMA MergeKeeps ==
  ASSUME NEW c, NEW U, U = UNION (c.in0 \cup c.in1), Distinct(U),
         c.smallest \in 0 .. MaxSeq, \A d \in U : d.seq <= c.smallest
  PROVE  /\ \A d, e \in UNION Merge(c) : d.key = e.key => d = e
         /\ \A d \in U : Survives(d, U, UNION Merge(c), c)
<1>1. PICK A, list, n : IsMerge(A, list, n, c, U)
  BY MergeRuns
<1>2. /\ n \in Nat /\ list \in [1 .. n -> U] /\ A[0] = MergeStart
      /\ \A e \in U : \E i \in 1 .. n : list[i] = e
      /\ Merge(c) = (A[n].outs \cup {A[n].cur}) \ {{}}
  BY <1>1 DEF IsMerge
<1> DEFINE T == {i \in Nat : i <= n => Dropped(c, A[i], Read(list, i))}
<1>3. 0 \in T
  <2>1. Read(list, 0) = {} /\ MergeStart.key = 0 /\ Kept(MergeStart) = {}
    BY DEF Read, MergeStart, Kept
  <2>2. Dropped(c, MergeStart, Read(list, 0))
    BY <2>1 DEF Dropped, LastRead
  <2> QED BY <1>2, <2>2
<1>4. ASSUME NEW i \in T PROVE i + 1 \in T
  <2> SUFFICES ASSUME i + 1 <= n PROVE Dropped(c, A[i + 1], Read(list, i + 1))
    OBVIOUS
  <2>1. i \in Nat /\ i <= n /\ Dropped(c, A[i], Read(list, i))
    BY <1>2
  <2>2. A[i + 1] = MergeStep(c, A[i], list[i + 1])
    BY <1>1, <2>1 DEF IsMerge
  <2>3. /\ Read(list, i + 1) = Read(list, i) \cup {list[i + 1]}
        /\ Read(list, i) \cup {list[i + 1]} \subseteq U
        /\ \A d \in Read(list, i) : Before(d, list[i + 1])
    BY <1>1, <2>1, ReadNext
  <2>4. \A d \in Read(list, i) \cup {list[i + 1]} : d \in Entry /\ d.seq <= c.smallest
    BY <2>3 DEF Distinct
  <2>5. Dropped(c, MergeStep(c, A[i], list[i + 1]), Read(list, i) \cup {list[i + 1]})
    BY <2>1, <2>3, <2>4, DroppedStep
  <2> QED BY <2>2, <2>3, <2>5
<1>5. T \in SUBSET Nat
  OBVIOUS
<1> HIDE DEF T
<1>6. T = Nat
  BY <1>3, <1>4, <1>5, SetInduction
<1>7. Dropped(c, A[n], Read(list, n))
  BY <1>2, <1>6 DEF T
<1>8. Read(list, n) = U
  BY <1>2 DEF Read
<1>9. UNION Merge(c) = Kept(A[n])
  BY <1>2 DEF Kept
<1> QED BY <1>7, <1>8, <1>9 DEF Dropped

-----------------------------------------------------------------------------
(* A new version *)

\* A compaction puts its outputs in place of its inputs.
LEMMA InstallKeeps ==
  ASSUME EntriesOK, FilesOK, LookupOK(levels), NEW c, CompOK(c, levels), CompKeys(c, levels),
         NEW outs, NEW U, U = UNION (c.in0 \cup c.in1),
         \A o \in outs : o \subseteq U,
         \A o, p \in outs : o = p \/ NoCommonKey(o, p),
         \A d \in U : Survives(d, U, UNION outs, c),
         NEW new, Exchanged(new, c, outs)
  PROVE  LookupOK(new)
<1> DEFINE L == c.level
           E == [l \in Levels |-> UNION Files(levels, l)]
           N == [l \in Levels |-> UNION Files(new, l)]
<1>1. /\ L \in Levels /\ L + 1 \in Levels /\ L \in Nat /\ L + 1 \in 1 .. NumLevels - 1
      /\ Levels \subseteq Nat /\ 0 \in Levels /\ L + 1 # L /\ L + 1 # 0
  BY VersionConstants DEF CompOK, Levels
<1>2. /\ Files(new, L) = Files(levels, L) \ c.in0
      /\ Files(new, L + 1) = (Files(levels, L + 1) \ c.in1) \cup outs
      /\ \A l \in Levels : l # L /\ l # L + 1 => Files(new, l) = Files(levels, l)
  BY <1>1 DEF Exchanged
<1>3. /\ c.in0 \subseteq Files(levels, L) /\ c.in1 \subseteq Files(levels, L + 1)
      /\ \A g \in Files(levels, L) \ c.in0 : Newer(g, UNION c.in0)
      /\ \A g \in Files(levels, L + 1) \ c.in1 : NoCommonKey(g, U)
      /\ \A l \in L + 2 .. NumLevels - 1 : \A f \in Files(levels, l) :
           f \in Files(c.version, l) \/ NoCommonKey(f, U)
  BY DEF CompOK, CompKeys
<1>4. /\ \A l \in Levels : E[l] = UNION Files(levels, l) /\ N[l] = UNION Files(new, l)
      /\ Held(levels) = UNION {E[l] : l \in Levels} /\ Held(new) = UNION {N[l] : l \in Levels}
  BY DEF Held
<1> HIDE DEF L, E, N
<1>5. \A l, m \in Levels : l < m => Newer(E[l], E[m])
  BY <1>4 DEF LookupOK, Layers
<1>6. UNION c.in0 \subseteq E[L] /\ UNION c.in1 \subseteq E[L + 1] /\ U = (UNION c.in0) \cup (UNION c.in1)
      /\ UNION outs \subseteq U
  <2>1. E[L] = UNION Files(levels, L) /\ E[L + 1] = UNION Files(levels, L + 1)
    BY <1>1, <1>4
  <2>2. UNION c.in0 \subseteq E[L] /\ UNION c.in1 \subseteq E[L + 1]
    BY <1>3, <2>1
  <2>3. U = (UNION c.in0) \cup (UNION c.in1)
    OBVIOUS
  <2> QED BY <2>2, <2>3
<1>7. ASSUME NEW l \in Levels, NEW d \in N[l]
      PROVE  d \in E[l] \/ (l = L + 1 /\ d \in UNION outs)
  BY <1>1, <1>2, <1>4
<1>8. ASSUME NEW l \in Levels, l <= L PROVE Newer(N[l], U)
  <2>1. CASE l < L
    <3>1. l # L /\ l # L + 1 /\ l < L + 1
      BY <1>1, <2>1
    <3>2. N[l] = E[l] /\ Newer(E[l], E[L]) /\ Newer(E[l], E[L + 1])
      <4>1. Files(new, l) = Files(levels, l)
        BY <1>2, <3>1
      <4> QED BY <1>1, <1>4, <1>5, <2>1, <3>1, <4>1
    <3> QED BY <1>6, <3>2 DEF Newer
  <2>2. CASE l = L
    <3>1. \A d \in N[l] : \E g \in Files(levels, L) \ c.in0 : d \in g
      BY <1>1, <1>2, <1>4, <2>2
    <3>2. Newer(N[l], UNION c.in0)
      BY <1>3, <3>1 DEF Newer
    <3>3. Newer(E[L], E[L + 1]) /\ N[l] \subseteq E[L]
      BY <1>1, <1>2, <1>4, <1>5, <2>2
    <3> QED BY <1>6, <3>2, <3>3 DEF Newer
  <2> QED BY <1>1, <1>8, <2>1, <2>2
<1>9. ASSUME NEW m \in Levels, m > L + 1 PROVE N[m] = E[m] /\ Newer(U, E[m])
  <2>1. m # L /\ m # L + 1 /\ L < m /\ L + 1 < m
    BY <1>1, <1>9
  <2>2. N[m] = E[m] /\ Newer(E[L], E[m]) /\ Newer(E[L + 1], E[m])
    BY <1>1, <1>2, <1>4, <1>5, <2>1
  <2> QED BY <1>6, <2>2 DEF Newer
<1>10. OneFile(new)
  <2> SUFFICES ASSUME NEW l \in 1 .. NumLevels - 1, NEW f \in Files(new, l), NEW g \in Files(new, l)
               PROVE  f = g \/ NoCommonKey(f, g)
    BY DEF OneFile
  <2>1. l \in Levels
    BY DEF Levels
  <2>2. \A x, y \in Files(levels, l) : x = y \/ NoCommonKey(x, y)
    BY DEF LookupOK, OneFile
  <2>3. CASE l # L + 1
    BY <1>2, <2>1, <2>2, <2>3
  <2>4. CASE l = L + 1
    <3>1. \A x \in Files(levels, L + 1) \ c.in1 : \A o \in outs : NoCommonKey(x, o) /\ NoCommonKey(o, x)
      BY <1>3 DEF NoCommonKey
    <3> QED BY <1>2, <2>2, <2>4, <3>1
  <2> QED BY <2>3, <2>4
<1>11. Layers(new)
  <2> SUFFICES ASSUME NEW l \in Levels, NEW m \in Levels, l < m, NEW d \in N[l], NEW e \in N[m], d.key = e.key
               PROVE  d.seq > e.seq
    BY <1>4 DEF Layers, Newer
  <2>1. CASE m = L + 1 /\ e \in UNION outs
    <3>1. l <= L
      BY <1>1, <2>1
    <3> QED BY <1>6, <1>8, <2>1, <3>1 DEF Newer
  <2>2. CASE l = L + 1 /\ d \in UNION outs
    <3>1. m > L + 1
      BY <1>1, <2>2
    <3> QED BY <1>6, <1>9, <2>2, <3>1 DEF Newer
  <2>3. CASE d \in E[l] /\ e \in E[m]
    BY <1>5, <2>3 DEF Newer
  <2> QED BY <1>7, <2>1, <2>2, <2>3
<1>12. ZeroOrder(new)
  <2>1. Files(new, 0) \subseteq Files(levels, 0)
    BY <1>1, <1>2
  <2> QED BY <2>1 DEF LookupOK, ZeroOrder
<1>13. Held(new) \subseteq Held(levels) /\ U \subseteq Held(levels)
  BY <1>1, <1>4, <1>6, <1>7
<1>14. MemNewest(new)
  BY <1>13 DEF LookupOK, MemNewest, AllNewer
<1>15. NewestHeld(new)
  <2> SUFFICES ASSUME NEW e \in written, Newest(e), e \notin mem \cup Held(new)
               PROVE  e.del /\ \A d \in mem \cup Held(new) : d.key # e.key
    BY DEF NewestHeld
  <2>0. /\ Held(levels) \subseteq written /\ mem \subseteq written
        /\ \A d \in written : d.seq \in Nat /\ d.key \in Nat
    BY HeldWritten DEF EntriesOK
  <2>1. CASE e \notin Held(levels)
    BY <1>13, <2>1 DEF LookupOK, NewestHeld
  <2>2. CASE e \in Held(levels)
    <3>1. e \in U
      <4>1. PICK l \in Levels : \E f \in Files(levels, l) : e \in f
        BY <2>2 DEF Held
      <4>2. PICK f \in Files(levels, l) : e \in f
        BY <4>1
      <4>3. f \notin Files(new, l)
        BY <4>2 DEF Held
      <4>4. (l = L /\ f \in c.in0) \/ (l = L + 1 /\ f \in c.in1)
        BY <1>1, <1>2, <4>2, <4>3
      <4> QED BY <4>2, <4>4
    <3>2. e \notin UNION outs
      <4>1. UNION outs \subseteq N[L + 1]
        BY <1>1, <1>2, <1>4
      <4> QED BY <1>1, <1>4, <4>1
    <3>3. \A d \in written : d.key = e.key => ~(d.seq > e.seq)
      BY <2>0 DEF Newest
    <3>4. e.del /\ IsBaseLevel(c, e.key) /\ \A d \in UNION outs : d.key # e.key
      BY <1>13, <2>0, <3>1, <3>2, <3>3 DEF Survives
    <3>5. ASSUME NEW d \in mem \cup Held(new), d.key = e.key PROVE FALSE
      <4>1. CASE d \in mem
        BY <2>0, <2>2, <3>3, <3>5, <4>1 DEF LookupOK, MemNewest, AllNewer
      <4>2. CASE d \in Held(new)
        <5>1. PICK l \in Levels : d \in N[l]
          BY <1>4, <4>2
        <5>2. d \in written
          BY <1>13, <2>0, <4>2
        <5>3. CASE l <= L
          BY <1>8, <3>1, <3>3, <3>5, <5>1, <5>2, <5>3 DEF Newer
        <5>4. CASE l = L + 1
          <6>1. d \in UNION outs \/ \E g \in Files(levels, L + 1) \ c.in1 : d \in g
            BY <1>1, <1>2, <1>4, <5>1, <5>4
          <6> QED BY <1>3, <3>1, <3>4, <3>5, <6>1 DEF NoCommonKey
        <5>5. CASE l > L + 1
          <6>1. l \in L + 2 .. NumLevels - 1
            BY <1>1, <5>5 DEF Levels
          <6>2. PICK f \in Files(levels, l) : d \in f
            BY <1>4, <1>9, <5>1, <5>5
          <6>3. f \in Files(c.version, l)
            BY <1>3, <3>1, <3>5, <6>1, <6>2 DEF NoCommonKey
          <6>4. ~Covers(f, e.key)
            BY <3>4, <6>1, <6>3 DEF IsBaseLevel, L
          <6>5. Distinct(f) /\ f # {}
            BY <6>2, LevelList, GoodFile DEF FilesOK
          <6>6. Covers(f, d.key)
            BY <6>2, <6>5, FileSpan DEF Covers
          <6> QED BY <3>5, <6>4, <6>6
        <5> QED BY <1>1, <5>3, <5>4, <5>5
      <4> QED BY <4>1, <4>2
    <3> QED BY <3>4, <3>5
  <2> QED BY <2>1, <2>2
<1> QED BY <1>10, <1>11, <1>12, <1>14, <1>15 DEF LookupOK

-----------------------------------------------------------------------------
(* Lookups stay correct *)

LookupInv == LookupOK(levels) /\ \A c \in comp : CompKeys(c, levels)

LEMMA LookupInit == Init => LookupInv
<1> SUFFICES ASSUME Init PROVE LookupInv
  OBVIOUS
<1>1. mem = {} /\ written = {} /\ levels = [l \in Levels |-> << >>] /\ comp = {} /\ 0 \in Levels
  BY VersionConstants DEF Init, Levels
<1>2. \A l \in Levels : Files(levels, l) = {}
  BY <1>1 DEF Files, ToSet
<1>3. \A l \in 1 .. NumLevels - 1 : l \in Levels
  BY DEF Levels
<1>4. OneFile(levels) /\ Layers(levels) /\ ZeroOrder(levels)
  BY <1>1, <1>2, <1>3 DEF OneFile, Layers, ZeroOrder, Newer
<1>5. MemNewest(levels) /\ NewestHeld(levels)
  BY <1>1 DEF MemNewest, AllNewer, NewestHeld
<1> QED BY <1>1, <1>4, <1>5 DEF LookupInv, LookupOK

LEMMA LookupWrite == \A op \in Ops : VInv /\ LookupInv /\ Write(op) => LookupInv'
<1> SUFFICES ASSUME NEW op \in Ops, VInv, LookupInv, Write(op) PROVE LookupInv'
  OBVIOUS
<1> DEFINE e == [key |-> op[1], seq |-> lastSeq + 1, del |-> op[2]]
           H == Held(levels)
<1>1. /\ mem' = mem \cup {e} /\ written' = written \cup {e} /\ levels' = levels /\ comp' = comp
  BY DEF Write
<1>2. e.seq = lastSeq + 1
  OBVIOUS
<1> HIDE DEF e, H
<1>3. /\ H \subseteq written /\ mem \subseteq written /\ lastSeq \in Nat
      /\ \A d \in written : d.seq \in Nat /\ d.seq <= lastSeq
  BY HeldWritten DEF VInv, EntriesOK, H
<1>4. \A d \in written : e.seq > d.seq
  BY <1>2, <1>3
<1>5. AllNewer(mem, H) /\ NewestHeld(levels) /\ OneFile(levels) /\ Layers(levels) /\ ZeroOrder(levels)
  BY DEF LookupInv, LookupOK, MemNewest, H
<1>6. AllNewer(mem', H)
  BY <1>1, <1>3, <1>4, <1>5 DEF AllNewer
<1>7. ASSUME NEW d \in written', \A f \in written' : f.key = d.key => f.seq <= d.seq
      PROVE  \/ d \in mem' \cup H
             \/ d.del /\ \A f \in mem' \cup H : f.key # d.key
  <2>1. CASE d = e
    BY <1>1, <2>1
  <2>2. CASE d # e
    <3>1. d \in written /\ Newest(d)
      BY <1>1, <1>7, <2>2 DEF Newest
    <3>2. e.key # d.key
      <4>1. e.seq > d.seq /\ e.seq \in Nat /\ d.seq \in Nat
        BY <1>2, <1>3, <1>4, <3>1
      <4> QED BY <1>1, <1>7, <4>1
    <3> QED BY <1>1, <1>5, <3>1, <3>2 DEF NewestHeld, H
  <2> QED BY <2>1, <2>2
<1>8. LookupOK(levels)'
  <2>1. OneFile(levels') /\ Layers(levels') /\ ZeroOrder(levels')
    BY <1>1, <1>5
  <2>2. MemNewest(levels)'
    BY <1>1, <1>6 DEF MemNewest, H
  <2>3. NewestHeld(levels)'
    BY <1>1, <1>7 DEF NewestHeld, Newest, H
  <2> QED BY <2>1, <2>2, <2>3 DEF LookupOK
<1>9. \A c \in comp' : CompKeys(c, levels')
  BY <1>1 DEF LookupInv
<1> QED BY <1>8, <1>9 DEF LookupInv

\* A flush: the new file is newer than all others, and goes below level 0 only
\* past files that have none of its keys.
LEMMA LookupFlush == VInv /\ LookupInv /\ Flush => LookupInv'
<1> SUFFICES ASSUME VInv, LookupInv, Flush PROVE LookupInv'
  OBVIOUS
<1> DEFINE p == PickLevel(levels, mem)
           F == [l \in Levels |-> Files(levels, l)]
           G == [l \in Levels |-> Files(levels', l)]
           H == Held(levels)
<1>1. mem # {} /\ mem' = {} /\ comp' = comp /\ written' = written
  BY DEF Flush
<1>a. /\ p \in Levels /\ p \in Nat
      /\ p > 0 => \A l \in 0 .. p : \A g \in Files(levels, l) :
                    ~Meets(g, Smallest(mem).key, Largest(mem).key)
      /\ \A l \in Levels : Files(levels', l) =
           IF l = p THEN Files(levels, l) \cup {mem} ELSE Files(levels, l)
  BY FlushFiles
<1> HIDE DEF p
<1>2. \A l \in Levels : G[l] = IF l = p THEN F[l] \cup {mem} ELSE F[l]
  BY <1>a
<1>3. ASSUME p > 0, NEW l \in Levels, l <= p, NEW g \in F[l] PROVE NoCommonKey(g, mem)
  <2>1. l \in 0 .. p /\ g \in Files(levels, l)
    BY <1>3, VersionConstants DEF Levels
  <2>2. Low({mem}) = Smallest(mem).key /\ High({mem}) = Largest(mem).key
    BY DEF Low, High
  <2>3. g # {} /\ Distinct(g) /\ ~Meets(g, Low({mem}), High({mem}))
    BY <1>3, <1>a, <2>1, <2>2, LevelList, GoodFile DEF VInv, FilesOK
  <2>4. UNION {mem} = mem /\ Good({mem})
    BY <1>1, DistinctSubset DEF VInv, EntriesOK, Good
  <2>5. NoCommonKey(g, UNION {mem})
    BY <2>3, <2>4, OutOfRange
  <2> QED BY <2>4, <2>5
<1>4. /\ \A l \in Levels : F[l] = Files(levels, l) /\ G[l] = Files(levels', l)
      /\ H = UNION {UNION F[l] : l \in Levels} /\ Held(levels') = UNION {UNION G[l] : l \in Levels}
  BY DEF Held
<1>5. /\ Levels \subseteq Nat /\ 0 \in Levels /\ 1 .. NumLevels - 1 \subseteq Levels
      /\ \A l \in 1 .. NumLevels - 1 : l > 0
  BY VersionConstants DEF Levels
<1> HIDE DEF F, G, H
<1>6. AllNewer(mem, H) /\ OneFile(levels) /\ Layers(levels) /\ ZeroOrder(levels) /\ NewestHeld(levels)
  BY DEF LookupInv, LookupOK, MemNewest, H
<1>7. \A l \in Levels : \A g \in F[l] : g \subseteq H /\ AllNewer(mem, g)
  BY <1>4, <1>6 DEF AllNewer
<1>8. OneFile(levels')
  <2> SUFFICES ASSUME NEW l \in 1 .. NumLevels - 1, NEW f \in G[l], NEW g \in G[l]
               PROVE  f = g \/ NoCommonKey(f, g)
    BY <1>4, <1>5 DEF OneFile
  <2>1. l \in Levels /\ l > 0 /\ \A x, y \in F[l] : x = y \/ NoCommonKey(x, y)
    BY <1>4, <1>5, <1>6 DEF OneFile
  <2>2. CASE l # p
    BY <1>2, <2>1, <2>2
  <2>3. CASE l = p
    <3>1. \A x \in F[l] : NoCommonKey(x, mem) /\ NoCommonKey(mem, x)
      BY <1>2, <1>3, <2>1, <2>3 DEF NoCommonKey
    <3>2. (f \in F[l] \/ f = mem) /\ (g \in F[l] \/ g = mem)
      BY <1>2, <2>1, <2>3
    <3> QED BY <2>1, <3>1, <3>2
  <2> QED BY <2>2, <2>3
<1>9. Layers(levels')
  <2> SUFFICES ASSUME NEW l \in Levels, NEW m \in Levels, l < m,
                      NEW f \in G[l], NEW g \in G[m], NEW d \in f, NEW e \in g, d.key = e.key
               PROVE  d.seq > e.seq
    BY <1>4 DEF Layers, Newer
  <2>1. CASE f \in F[l] /\ g \in F[m]
    BY <1>4, <1>6, <2>1 DEF Layers, Newer
  <2>2. CASE f = mem /\ g \in F[m]
    BY <1>7, <2>2 DEF AllNewer
  <2>3. CASE g = mem /\ m = p /\ f \in F[l]
    <3>1. p > 0 /\ l <= p
      BY <1>5, <2>3
    <3> QED BY <1>3, <2>3, <3>1 DEF NoCommonKey
  <2>4. f \in F[l] \/ (f = mem /\ l = p)
    BY <1>2
  <2>5. g \in F[m] \/ (g = mem /\ m = p)
    BY <1>2
  <2>6. l # m
    BY <1>5
  <2> QED BY <2>1, <2>2, <2>3, <2>4, <2>5, <2>6
<1>10. ZeroOrder(levels')
  <2> SUFFICES ASSUME NEW f \in G[0], NEW g \in G[0]
               PROVE  f = g \/ AllNewer(f, g) \/ AllNewer(g, f)
    BY <1>4, <1>5 DEF ZeroOrder
  <2>1. (f \in F[0] \/ f = mem) /\ (g \in F[0] \/ g = mem)
    BY <1>2, <1>5
  <2>2. \A x, y \in F[0] : x = y \/ AllNewer(x, y) \/ AllNewer(y, x)
    BY <1>4, <1>5, <1>6 DEF ZeroOrder
  <2> QED BY <1>5, <1>7, <2>1, <2>2
<1>11. Held(levels') = mem \cup H
  <2>1. \A l \in Levels : UNION G[l] = IF l = p THEN (UNION F[l]) \cup mem ELSE UNION F[l]
    BY <1>2
  <2> QED BY <1>a, <1>2, <1>4, <2>1
<1>12. LookupOK(levels)'
  <2>1. MemNewest(levels)'
    BY <1>1 DEF MemNewest, AllNewer
  <2>2. mem' \cup Held(levels') = mem \cup H
    BY <1>1, <1>11
  <2>3. NewestHeld(levels)'
    BY <1>1, <1>6, <2>2 DEF NewestHeld, Newest, H
  <2> QED BY <1>8, <1>9, <1>10, <2>1, <2>3 DEF LookupOK
<1>13. ASSUME NEW c \in comp PROVE CompKeys(c, levels')
  <2> DEFINE L == c.level
             I == c.in0 \cup c.in1
             U == UNION I
  <2>1. L \in 0 .. NumLevels - 2 /\ c.in0 \subseteq Files(levels, L) /\ c.in1 \subseteq Files(levels, L + 1)
    BY DEF VInv, CompOK
  <2>2. L \in Levels /\ L + 1 \in Levels /\ L \in Nat /\ L + 1 > 0
    BY <2>1, VersionConstants DEF Levels
  <2>3. /\ c.smallest \in 0 .. MaxSeq /\ \A d \in U : d.seq <= c.smallest
        /\ \A g \in F[L] \ c.in0 : Newer(g, UNION c.in0)
        /\ \A g \in F[L + 1] \ c.in1 : NoCommonKey(g, U)
        /\ \A l \in L + 2 .. NumLevels - 1 : \A f \in Files(levels, l) :
             f \in Files(c.version, l) \/ NoCommonKey(f, U)
    BY <1>4, <2>2 DEF LookupInv, CompKeys
  <2>4. c.in0 \subseteq F[L] /\ c.in1 \subseteq F[L + 1] /\ UNION c.in0 \subseteq H
    BY <1>4, <1>7, <2>1, <2>2
  <2>5. ASSUME p > L PROVE NoCommonKey(mem, U)
    <3>1. p > 0 /\ L <= p /\ L + 1 <= p
      BY <1>a, <2>2, <2>5
    <3>2. \A g \in I : NoCommonKey(g, mem)
      BY <1>3, <2>2, <2>4, <3>1
    <3> QED BY <3>2 DEF NoCommonKey
  <2>6. ASSUME NEW g \in G[L] \ c.in0 PROVE Newer(g, UNION c.in0)
    <3>1. CASE g = mem
      BY <1>6, <2>4, <3>1 DEF AllNewer, Newer
    <3> QED BY <1>2, <2>2, <2>3, <2>6, <3>1
  <2>7. ASSUME NEW g \in G[L + 1] \ c.in1 PROVE NoCommonKey(g, U)
    <3>1. CASE g \in F[L + 1]
      BY <2>3, <2>7, <3>1
    <3>2. CASE g = mem /\ p = L + 1
      <4>1. p > L
        BY <2>2, <3>2
      <4> QED BY <2>5, <3>2, <4>1
    <3> QED BY <1>2, <2>2, <2>7, <3>1, <3>2
  <2>8. ASSUME NEW l \in L + 2 .. NumLevels - 1, NEW f \in Files(levels', l)
        PROVE  f \in Files(c.version, l) \/ NoCommonKey(f, U)
    <3>1. l \in Levels /\ l > L
      BY <2>2 DEF Levels
    <3>2. f \in Files(levels, l) \/ (f = mem /\ l = p)
      BY <1>2, <1>4, <3>1
    <3> QED BY <2>3, <2>5, <3>1, <3>2
  <2> QED BY <1>4, <2>2, <2>3, <2>6, <2>7, <2>8 DEF CompKeys
<1> QED BY <1>1, <1>12, <1>13 DEF LookupInv


\* A version that is installed with the memtable and the history as they were.
LEMMA LookupInstalled ==
  ASSUME LookupOK(levels'), mem' = mem, written' = written, comp' = {}
  PROVE  LookupInv'
<1>1. LookupOK(levels)'
  BY DEF LookupOK, MemNewest, NewestHeld, Newest
<1> QED BY <1>1 DEF LookupInv

LEMMA LookupCompact == VInv /\ LookupInv /\ snapshots = {} /\ Compact => LookupInv'
<1> SUFFICES ASSUME VInv, LookupInv, snapshots = {}, Compact PROVE LookupInv'
  OBVIOUS
<1> DEFINE c == Picked
<1>1. /\ (NeedsSize(levels) \/ seek # {}) /\ comp = {} /\ mem' = mem /\ written' = written
      /\ \/ IsTrivialMove(c) /\ levels' = Install(c, c.in0) /\ comp' = comp
         \/ comp' = {c} /\ levels' = levels
  BY DEF Compact
<1>2. CompOK(c, levels)
  BY <1>1, AllLevels, PickedCorrect DEF VInv, SeekOK
<1>3. CompKeys(c, levels)
  BY <1>1, PickedKeys DEF VInv, LookupInv, LookupOK
<1> HIDE DEF c
<1>4. CASE IsTrivialMove(c) /\ levels' = Install(c, c.in0) /\ comp' = comp
  <2> DEFINE U == UNION (c.in0 \cup c.in1)
  <2>1. c.in0 \subseteq Files(levels, c.level) /\ c.level \in Levels
    BY <1>2, VersionConstants DEF CompOK, Levels
  <2>2. Good(Files(levels, c.level))
    BY <2>1, LevelList DEF VInv, FilesOK
  <2>3. \A o \in c.in0 : o # {} /\ o \subseteq U
    BY <2>1, <2>2 DEF Good
  <2>4. \A o, p \in c.in0 : o = p
    <3>1. IsFiniteSet(c.in0)
      BY <2>1, <2>2, GoodFinite, FS_Subset
    <3>2. \E x : c.in0 = {x}
      BY <1>4, <3>1, FS_Singleton DEF IsTrivialMove
    <3> QED BY <3>2
  <2>5. Exchanged(levels', c, c.in0)
    BY <1>2, <1>4, <2>3, <2>4, InstallCorrect DEF VInv
  <2>6. UNION c.in0 = U
    BY <1>4 DEF IsTrivialMove
  <2>7. \A d \in U : Survives(d, U, UNION c.in0, c)
    BY <2>6 DEF Survives
  <2> HIDE DEF U
  <2>8. LookupOK(levels')
    BY <1>2, <1>3, <2>3, <2>4, <2>5, <2>7, InstallKeeps DEF U, VInv, LookupInv
  <2> QED BY <1>1, <1>4, <2>8, LookupInstalled
<1>5. CASE comp' = {c} /\ levels' = levels
  <2>1. LookupOK(levels)'
    BY <1>1, <1>5 DEF LookupInv, LookupOK, MemNewest, NewestHeld, Newest
  <2> QED BY <1>3, <1>5, <2>1 DEF LookupInv
<1> QED BY <1>1, <1>4, <1>5

LEMMA LookupFinish == VInv /\ LookupInv /\ FinishCompaction => LookupInv'
<1> SUFFICES ASSUME VInv, LookupInv, FinishCompaction PROVE LookupInv'
  OBVIOUS
<1>1. PICK c \in comp : levels' = Install(c, Merge(c))
  BY DEF FinishCompaction
<1>2. comp' = {} /\ mem' = mem /\ written' = written
  BY DEF FinishCompaction
<1>3. CompOK(c, levels) /\ CompKeys(c, levels)
  BY DEF VInv, LookupInv
<1> DEFINE U == UNION (c.in0 \cup c.in1)
<1>4. Distinct(U)
  <2>1. /\ c.in0 \cup c.in1 \subseteq Files(levels, c.level) \cup Files(levels, c.level + 1)
        /\ c.level \in Levels /\ c.level + 1 \in Levels
    BY <1>3, VersionConstants DEF CompOK, Levels
  <2> QED BY <2>1, AllLevels, LevelsGood DEF VInv, Good
<1>5. /\ \A o \in Merge(c) : o # {} /\ o \subseteq U
      /\ \A o, p \in Merge(c) : o = p \/ Apart(o, p)
  BY <1>4, MergeCorrect
<1>6. Exchanged(levels', c, Merge(c))
  BY <1>1, <1>3, <1>5, InstallCorrect DEF VInv
<1>7. c.smallest \in 0 .. MaxSeq /\ \A d \in U : d.seq <= c.smallest
  BY <1>3 DEF CompKeys
<1> HIDE DEF U
<1>8. /\ \A d, e \in UNION Merge(c) : d.key = e.key => d = e
      /\ \A d \in U : Survives(d, U, UNION Merge(c), c)
  BY <1>4, <1>7, MergeKeeps DEF U
<1>9. ASSUME NEW o \in Merge(c), NEW p \in Merge(c), o # p PROVE NoCommonKey(o, p)
  <2> SUFFICES ASSUME NEW d \in o, NEW e \in p, d.key = e.key PROVE FALSE
    BY DEF NoCommonKey
  <2>1. d = e /\ d \in U /\ ~Before(d, d)
    BY <1>4, <1>5, <1>8, BeforeOrders
  <2> QED BY <1>5, <1>9, <2>1 DEF Apart, AllBefore
<1>10. LookupOK(levels')
  BY <1>3, <1>5, <1>6, <1>8, <1>9, InstallKeeps DEF U, VInv, LookupInv
<1> QED BY <1>2, <1>10, LookupInstalled

LEMMA LookupNext == VInv /\ LookupInv /\ snapshots = {} /\ [Next]_vars => LookupInv'
<1> SUFFICES ASSUME VInv, LookupInv, snapshots = {}, [Next]_vars PROVE LookupInv'
  OBVIOUS
<1>1. ASSUME NEW op \in Ops, Write(op) PROVE LookupInv'
  BY <1>1, LookupWrite
<1>2. CASE Flush
  BY <1>2, LookupFlush
<1>3. ASSUME mem' = mem /\ levels' = levels /\ comp' = comp /\ written' = written
      PROVE  LookupInv'
  BY <1>3 DEF LookupInv, LookupOK, MemNewest, NewestHeld, Newest
<1>4. CASE GetSnapshot \/ (\E s \in snapshots : ReleaseSnapshot(s)) \/ UNCHANGED vars
  BY <1>3, <1>4 DEF GetSnapshot, ReleaseSnapshot, vars
<1>5. ASSUME NEW e \in written, RecordReadSample(e) PROVE LookupInv'
  BY <1>3, <1>5 DEF RecordReadSample
<1>6. CASE Background
  BY <1>6, LookupCompact, LookupFinish DEF Background
<1> QED BY <1>1, <1>2, <1>4, <1>5, <1>6 DEF Next

\* In a database that takes no snapshot, as the front ends of this repository
\* use it, Get returns the newest value of every key at every moment, whatever
\* was flushed past other levels, moved, merged or dropped.
THEOREM GetIsCorrect == Spec => GetWithoutSnapshots
<1>1. Init => LookupInv
  BY LookupInit
<1>2. VInv /\ LookupInv /\ snapshots = {} /\ [Next]_vars => LookupInv'
  BY LookupNext
<1>3. VInv /\ LookupInv /\ snapshots = {} => GetCorrect
  BY GetFollows DEF LookupInv
<1> QED BY <1>1, <1>2, <1>3, VersionInvariant, PTL DEF Spec, GetWithoutSnapshots

=============================================================================
