--------------------------- MODULE LockFreeProofs ---------------------------
(***************************************************************************)
(* Proofs about the two structures that threads share without a lock, for  *)
(* every number of threads.                                                *)
(*                                                                         *)
(* AtomicBitset, for every number of bits and every word width: the        *)
(* inductive invariant says that the words hold the bits that are owned;   *)
(* it is what makes the outcome of fetch_or a proof that nobody owns the   *)
(* bit.                                                                    *)
(*                                                                         *)
(* FreeList, for every number of blocks: the free list of concurrentqueue  *)
(* never hands out a block twice and loses none.                           *)
(* Every block is in one place: on the list, claimed by one thread (which  *)
(* owns it, has just popped it or is about to push it), or pending, marked *)
(* and kept off the list by threads that still refer to it (NodeOK).  The  *)
(* place determines the mark and how much the count exceeds the number of  *)
(* threads that hold a reference.  The link of a block is only written at  *)
(* a place where the count is zero, so nobody that is about to exchange    *)
(* the head for the link it read has read an old one (LinksOK).            *)
(***************************************************************************)
EXTENDS AtomicBitset, FreeList, NatLemmas, FiniteSetTheorems, TLAPS

(* The bitset *)

\* A bit has a place in a word of the vector.
LEMMA PlaceInRange ==
  ASSUME NEW b \in Bits
  PROVE  blockIndex(b) \in Blocks /\ bitOffset(b) \in 0 .. kBitsPerBlock - 1
  BY SizesOK, Z3 DEF Bits, Blocks, kNumBlocks, blockIndex, bitOffset

\* Two bits never share a place.
LEMMA PlaceUnique ==
  ASSUME NEW a \in Bits, NEW b \in Bits,
         blockIndex(a) = blockIndex(b), bitOffset(a) = bitOffset(b)
  PROVE  a = b
  BY SizesOK, Z3 DEF Bits, blockIndex, bitOffset

\* The scan stays within the bitset.
LEMMA NextBitInRange ==
  ASSUME NEW b \in Bits
  PROVE  NextBit(b) \in Bits
  BY SizesOK DEF Bits, NextBit

IInv == TypeOK /\ BitsAreOwned

\* The bitset starts in the inductive invariant.
LEMMA IInvInit == BitsetInit => IInv
  <1> SUFFICES ASSUME BitsetInit PROVE IInv
    OBVIOUS
  <1>1. TypeOK
    BY SizesOK DEF BitsetInit, TypeOK, Bits
  <1>2. BitsAreOwned
    BY PlaceInRange DEF BitsetInit, BitsAreOwned, IsSet
  <1> QED
    BY <1>1, <1>2 DEF IInv

\* fetch_or of one bit changes no other bit.
LEMMA SetOne ==
  ASSUME TypeOK, NEW b \in Bits,
         data_' = [data_ EXCEPT ![blockIndex(b)] = @ \cup {bitOffset(b)}]
  PROVE  /\ data_' \in [Blocks -> SUBSET (0 .. kBitsPerBlock - 1)]
         /\ \A a \in Bits : IsSet(a)' <=> IsSet(a) \/ a = b
  <1>1. data_ \in [Blocks -> SUBSET (0 .. kBitsPerBlock - 1)]
    BY DEF TypeOK
  <1>2. data_' \in [Blocks -> SUBSET (0 .. kBitsPerBlock - 1)]
    BY <1>1, PlaceInRange
  <1>3. ASSUME NEW a \in Bits PROVE IsSet(a)' <=> IsSet(a) \/ a = b
    <2>1. blockIndex(a)' = blockIndex(a) /\ bitOffset(a)' = bitOffset(a)
      BY DEF blockIndex, bitOffset
    <2>2. CASE blockIndex(a) = blockIndex(b)
      BY <1>1, <2>1, <2>2, PlaceInRange, PlaceUnique DEF IsSet
    <2>3. CASE blockIndex(a) # blockIndex(b)
      BY <1>1, <2>1, <2>3, PlaceInRange DEF IsSet
    <2> QED
      BY <2>2, <2>3
  <1> QED
    BY <1>2, <1>3

\* fetch_and of one bit changes no other bit.
LEMMA ClearOne ==
  ASSUME TypeOK, NEW b \in Bits,
         data_' = [data_ EXCEPT ![blockIndex(b)] = Without(@, bitOffset(b))]
  PROVE  /\ data_' \in [Blocks -> SUBSET (0 .. kBitsPerBlock - 1)]
         /\ \A a \in Bits : IsSet(a)' <=> IsSet(a) /\ a # b
  <1>1. data_ \in [Blocks -> SUBSET (0 .. kBitsPerBlock - 1)]
    BY DEF TypeOK
  <1>2. data_' \in [Blocks -> SUBSET (0 .. kBitsPerBlock - 1)]
    BY <1>1, PlaceInRange DEF Without
  <1>3. ASSUME NEW a \in Bits PROVE IsSet(a)' <=> IsSet(a) /\ a # b
    <2>1. blockIndex(a)' = blockIndex(a) /\ bitOffset(a)' = bitOffset(a)
      BY DEF blockIndex, bitOffset
    <2>2. CASE blockIndex(a) = blockIndex(b)
      BY <1>1, <2>1, <2>2, PlaceInRange, PlaceUnique DEF IsSet, Without
    <2>3. CASE blockIndex(a) # blockIndex(b)
      BY <1>1, <2>1, <2>3, PlaceInRange DEF IsSet, Without
    <2> QED
      BY <2>2, <2>3
  <1> QED
    BY <1>2, <1>3

\* Every step of a thread keeps the inductive invariant.
LEMMA IInvStep == IInv /\ [BitsetNext]_bitsetVars => IInv'
  <1> SUFFICES ASSUME IInv, [BitsetNext]_bitsetVars PROVE IInv'
    OBVIOUS
  <1> USE DEF IInv
  <1>1. ASSUME NEW t \in Threads, Enter(t) PROVE IInv'
    <2>1. TypeOK'
      BY <1>1, SizesOK DEF Enter, TypeOK, Bits
    <2>2. BitsAreOwned'
      BY <1>1 DEF Enter, BitsAreOwned, IsSet
    <2> QED
      BY <2>1, <2>2
  <1>2. ASSUME NEW t \in Threads, Get(t) PROVE IInv'
    <2>1. TypeOK'
      BY <1>2, NextBitInRange DEF Get, Sees, TypeOK
    <2>2. BitsAreOwned'
      BY <1>2 DEF Get, Sees, BitsAreOwned, IsSet
    <2> QED
      BY <2>1, <2>2
  <1>3. ASSUME NEW t \in Threads, Set(t) PROVE IInv'
    <2>1. i[t] \in Bits
      BY DEF TypeOK
    <2>2. /\ data_' \in [Blocks -> SUBSET (0 .. kBitsPerBlock - 1)]
          /\ \A a \in Bits : IsSet(a)' <=> IsSet(a) \/ a = i[t]
      BY <1>3, <2>1, SetOne DEF Set
    <2>3. TypeOK'
      BY <1>3, <2>1, <2>2, NextBitInRange DEF Set, TypeOK
    <2>4. BitsAreOwned'
      BY <1>3, <2>1, <2>2 DEF Set, BitsAreOwned, Won
    <2> QED
      BY <2>3, <2>4
  <1>4. ASSUME NEW b \in Bits, Clear(b) PROVE IInv'
    <2>1. /\ data_' \in [Blocks -> SUBSET (0 .. kBitsPerBlock - 1)]
          /\ \A a \in Bits : IsSet(a)' <=> IsSet(a) /\ a # b
      BY <1>4, ClearOne DEF Clear
    <2>2. TypeOK'
      BY <1>4, <2>1 DEF Clear, TypeOK
    <2>3. BitsAreOwned'
      BY <1>4, <2>1 DEF Clear, BitsAreOwned
    <2> QED
      BY <2>2, <2>3
  <1>5. ASSUME UNCHANGED bitsetVars PROVE IInv'
    BY <1>5 DEF bitsetVars, TypeOK, BitsAreOwned, IsSet
  <1> QED
    BY <1>1, <1>2, <1>3, <1>4, <1>5 DEF BitsetNext

\* The inductive invariant holds in every reachable state.
LEMMA Invariance == BitsetSpec => []IInv
  BY IInvInit, IInvStep, PTL DEF BitsetSpec

\* The words of the bitset hold exactly the bits blindset handed out and clear
\* did not take back, however the threads interleave.
THEOREM BitsAreOwnedCorrect == BitsetSpec => []BitsAreOwned
  BY Invariance, PTL DEF IInv

\* AtomicBitset implements ChunkPool: blindset never returns a bit that another
\* thread owns.  Only the step in which fetch_or found the bit clear grants it.
THEOREM ImplementsChunkPool == BitsetSpec => IsChunkPool
  <1> DEFINE W == {t \in Threads : pc[t] # "out"}
  <1>1. BitsetInit => Pool!Init
    BY DEF BitsetInit, Pool!Init
  <1>2. ASSUME IInv, [BitsetNext]_bitsetVars PROVE [Pool!Next]_<<W, owned>>
    <2>1. ASSUME NEW t \in Threads, Enter(t) PROVE Pool!Ask(t)
      BY <1>2, <2>1 DEF IInv, TypeOK, Enter, Pool!Ask
    <2>2. ASSUME NEW t \in Threads, Get(t) PROVE UNCHANGED <<W, owned>>
      BY <1>2, <2>2 DEF IInv, TypeOK, Get, Sees
    <2>3. ASSUME NEW t \in Threads, Set(t)
          PROVE  (\E b \in Bits : Pool!Grant(t, b)) \/ UNCHANGED <<W, owned>>
      <3>1. i[t] \in Bits
        BY <1>2 DEF IInv, TypeOK
      <3>2. CASE Won(i[t])
        BY <1>2, <2>3, <3>1, <3>2 DEF IInv, TypeOK, BitsAreOwned, Won, Set, Pool!Grant
      <3>3. CASE ~Won(i[t])
        BY <1>2, <2>3, <3>3 DEF IInv, TypeOK, Set
      <3> QED
        BY <3>2, <3>3
    <2>4. ASSUME NEW b \in Bits, Clear(b) PROVE Pool!Free(b)
      BY <2>4 DEF Clear, Pool!Free
    <2>5. ASSUME UNCHANGED bitsetVars PROVE UNCHANGED <<W, owned>>
      BY <2>5 DEF bitsetVars
    <2>6. CASE BitsetNext
      <3>1. CASE \E t \in Threads : Enter(t) \/ Get(t) \/ Set(t)
        <4>1. PICK t \in Threads : Enter(t) \/ Get(t) \/ Set(t)
          BY <3>1
        <4> QED
          BY <4>1, <2>1, <2>2, <2>3 DEF Pool!Next
      <3>2. CASE \E b \in Bits : Clear(b)
        BY <3>2, <2>4 DEF Pool!Next
      <3> QED
        BY <2>6, <3>1, <3>2 DEF BitsetNext
    <2> QED
      BY <1>2, <2>5, <2>6
  <1> QED
    BY <1>1, <1>2, Invariance, PTL DEF BitsetSpec, IsChunkPool, Pool!Spec

-----------------------------------------------------------------------------
(* The free list *)

\* A thread's variables.
IsUser(w) == DOMAIN w = {"pc", "owns", "head", "next", "seen", "node", "then"}

Early == {"peek", "link", "one"}   \* about to push, the count is zero
Late  == {"push", "mark"}          \* about to push, the count is the list's

\* What the thread claims the node n as.
Kind(w, n) ==
    IF n \in w.owns THEN "owns"
    ELSE IF w.pc = "got" /\ w.head = n THEN "got"
    ELSE IF w.pc \in Early /\ w.node = n THEN "early"
    ELSE IF w.pc \in Late /\ w.node = n THEN "late"
    ELSE "none"

\* The thread has raised the count of n and not lowered it yet.
Holding(w, n) ==
    \/ w.pc \in {"next", "pop", "got"} /\ w.head = n
    \/ w.pc = "lower" /\ w.node = n
Holders(n) == {u \in Users : Holding(user[u], n)}

UserOK(w) ==
    /\ IsUser(w)
    /\ w.owns \subseteq Nodes
    /\ w.pc \in {"idle", "reload", "refs", "raise", "next", "pop", "got", "lower"} \cup Early \cup Late
    /\ w.head \in Nodes \cup {NoNode} /\ w.next \in Nodes \cup {NoNode} /\ w.node \in Nodes \cup {NoNode}
    /\ w.pc \in {"refs", "raise", "next", "pop", "got"} => w.head \in Nodes
    /\ w.pc \in {"lower"} \cup Early \cup Late => w.node \in Nodes
    /\ w.pc = "raise" => w.seen.count # 0
    /\ w.pc = "got" => w.head \notin w.owns
    /\ w.pc \in Early \cup Late => w.node \notin w.owns

\* What a thread knows of links: that of a node it refers to, and that of the
\* node it is about to push.
LinksOK(w, nx) ==
    /\ w.pc = "pop" => w.next = nx[w.head]
    /\ w.pc \in {"one", "push"} => nx[w.node] = w.next

\* The count of n, beyond the references held, and its mark.
Refs(n, extra, mark) ==
    refs[n] = [count |-> extra + Cardinality(Holders(n)), should |-> mark]
RefsAs(n, kind) ==
    \/ kind = "owns" /\ Refs(n, 0, FALSE)
    \/ kind \in {"got", "late"} /\ Refs(n, 1, FALSE)
    \/ kind = "early" /\ Refs(n, 0, TRUE) /\ Holders(n) = {}

Unclaimed(n) == \A u \in Users : Kind(user[u], n) = "none"
Listed(n) == n \in OnList /\ Unclaimed(n) /\ Refs(n, 1, FALSE)
Claimed(n) ==
    /\ n \notin OnList
    /\ \E u \in Users : /\ Kind(user[u], n) # "none"
                        /\ \A v \in Users \ {u} : Kind(user[v], n) = "none"
                        /\ RefsAs(n, Kind(user[u], n))
Pending(n) == n \notin OnList /\ Unclaimed(n) /\ Refs(n, 0, TRUE) /\ Holders(n) # {}
NodeOK(n) == Listed(n) \/ Claimed(n) \/ Pending(n)

\* The k nodes l, linked from the head h.
IsList(l, k, h, nx) ==
    /\ l \in [1 .. k -> Nodes]
    /\ \A p, j \in 1 .. k : l[p] = l[j] => p = j
    /\ h = IF k = 0 THEN NoNode ELSE l[1]
    /\ \A p \in 1 .. k : nx[l[p]] = IF p = k THEN NoNode ELSE l[p + 1]
HasList(h, nx) == \E k \in Nat : \E l \in [1 .. k -> Nodes] : IsList(l, k, h, nx)

FInv ==
    /\ DOMAIN user = Users /\ DOMAIN refs = Nodes
    /\ nextOf \in [Nodes -> Nodes \cup {NoNode}] /\ listHead \in Nodes \cup {NoNode}
    /\ \A u \in Users : UserOK(user[u]) /\ LinksOK(user[u], nextOf)
    /\ \A n \in Nodes : NodeOK(n)
    /\ HasList(listHead, nextOf)
-----------------------------------------------------------------------------
(* The list.                                                                *)

\* f follows the links from h; OnList is what it meets.
Follows(f, h, nx) ==
    f = [p \in 0 .. Cardinality(Nodes) |->
            IF p = 0 THEN h ELSE IF f[p - 1] = NoNode THEN NoNode ELSE nx[f[p - 1]]]
Met(f) == {f[p] : p \in DOMAIN f} \ {NoNode}

LEMMA OnListIsMet ==
  /\ OnList = Met(CHOOSE f : Follows(f, listHead, nextOf))
  /\ OnList' = Met(CHOOSE f : Follows(f, listHead', nextOf'))
BY Zenon DEF OnList, Met, Follows

\* What is met is the list.
LEMMA ListIsMet ==
  ASSUME FreeConstantsOK, NEW k \in Nat, NEW l, NEW h, NEW nx, IsList(l, k, h, nx)
  PROVE  Met(CHOOSE f : Follows(f, h, nx)) = {l[p] : p \in 1 .. k}
<1> DEFINE M == Cardinality(Nodes)
           g == [p \in 0 .. M |-> IF p < k THEN l[p + 1] ELSE NoNode]
           f == CHOOSE f : Follows(f, h, nx)
<1>1. M \in Nat
  BY FS_CardinalityType DEF FreeConstantsOK
<1>2. k <= M
  <2> SUFFICES ASSUME M < k PROVE FALSE
    BY <1>1
  <2>1. IsFiniteSet(1 .. k) /\ Cardinality(1 .. k) = k
    BY FS_Interval
  <2>2. l \in [1 .. k -> Nodes] /\ IsFiniteSet(Nodes)
    BY DEF IsList, FreeConstantsOK
  <2> HIDE DEF M
  <2>3. \E x, y \in 1 .. k : x # y /\ l[x] = l[y]
    BY <2>1, <2>2, FS_PigeonHole DEF M
  <2>4. QED  BY <2>3 DEF IsList
<1> HIDE DEF M
<1>3. \A p \in 1 .. k : l[p] \in Nodes /\ l[p] # NoNode
  BY DEF IsList, FreeConstantsOK
<1>4. \A p \in 0 .. M :
         g[p] = IF p = 0 THEN h ELSE IF g[p - 1] = NoNode THEN NoNode ELSE nx[g[p - 1]]
  <2> SUFFICES ASSUME NEW p \in 0 .. M
      PROVE  g[p] = IF p = 0 THEN h ELSE IF g[p - 1] = NoNode THEN NoNode ELSE nx[g[p - 1]]
    OBVIOUS
  <2>1. CASE p = 0
    BY <2>1, <1>1 DEF IsList
  <2>2. CASE p # 0
    <3>1. p - 1 \in 0 .. M /\ p \in 1 .. M
      BY <2>2, <1>1
    <3>2. CASE p - 1 < k
      <4>1. g[p - 1] = l[p] /\ p \in 1 .. k
        BY <1>1, <3>1, <3>2
      <4>2. g[p] = IF p = k THEN NoNode ELSE l[p + 1]
        BY <1>1, <3>1, <3>2
      <4>3. nx[l[p]] = IF p = k THEN NoNode ELSE l[p + 1]
        BY <4>1 DEF IsList
      <4>4. QED  BY <1>3, <2>2, <4>1, <4>2, <4>3
    <3>3. CASE ~(p - 1 < k)
      BY <1>1, <2>2, <3>1, <3>3
    <3>4. QED  BY <3>2, <3>3
  <2>3. QED  BY <2>1, <2>2
<1>5. Follows(g, h, nx)
  <2>1. DOMAIN g = 0 .. M /\ g = [p \in 0 .. M |-> g[p]]
    OBVIOUS
  <2> HIDE DEF g
  <2>2. g = [p \in 0 .. M |-> IF p = 0 THEN h ELSE IF g[p - 1] = NoNode THEN NoNode ELSE nx[g[p - 1]]]
    BY <1>4, <2>1
  <2>3. QED  BY <2>2, Zenon DEF Follows, M
<1>6. Follows(f, h, nx)
  BY <1>5, Zenon
<1> HIDE DEF f
<1>7. /\ DOMAIN f = 0 .. M
      /\ \A p \in 0 .. M : f[p] = IF p = 0 THEN h ELSE IF f[p - 1] = NoNode THEN NoNode ELSE nx[f[p - 1]]
  BY <1>6, Zenon DEF Follows, M
<1>8. \A p \in 0 .. M : f[p] = g[p]
  <2> HIDE DEF g
  <2> DEFINE T == {p \in Nat : p <= M => f[p] = g[p]}
  <2>1. 0 \in T
    BY <1>1, <1>4, <1>7
  <2>2. ASSUME NEW p \in T PROVE p + 1 \in T
    <3> SUFFICES ASSUME p + 1 <= M PROVE f[p + 1] = g[p + 1]
      OBVIOUS
    <3>1. p + 1 \in 0 .. M /\ p + 1 # 0 /\ (p + 1) - 1 = p /\ p <= M /\ p \in Nat
      BY <1>1
    <3>2. f[p] = g[p]
      BY <3>1
    <3>3. f[p + 1] = IF f[p] = NoNode THEN NoNode ELSE nx[f[p]]
      BY <1>7, <3>1
    <3>4. g[p + 1] = IF g[p] = NoNode THEN NoNode ELSE nx[g[p]]
      BY <1>4, <3>1
    <3>5. QED  BY <3>2, <3>3, <3>4
  <2> HIDE DEF T
  <2>3. T = Nat
    <3>1. T \in SUBSET Nat  BY DEF T
    <3>2. QED  BY <2>1, <2>2, <3>1, SetInduction
  <2>4. QED  BY <1>1, <2>3 DEF T
<1>9. Met(f) = {l[p] : p \in 1 .. k}
  <2>1. ASSUME NEW x \in Met(f) PROVE x \in {l[p] : p \in 1 .. k}
    <3>1. PICK p \in 0 .. M : x = f[p] /\ f[p] # NoNode
      BY <1>7 DEF Met
    <3>2. x = g[p] /\ g[p] # NoNode
      BY <1>8, <3>1
    <3>3. p < k /\ x = l[p + 1] /\ p + 1 \in 1 .. k
      BY <1>1, <3>2
    <3>4. QED  BY <3>3
  <2>2. ASSUME NEW p \in 1 .. k PROVE l[p] \in Met(f)
    <3>1. p - 1 \in 0 .. M /\ p - 1 < k
      BY <1>1, <1>2
    <3>2. g[p - 1] = l[p]
      BY <3>1
    <3>3. f[p - 1] = l[p] /\ l[p] # NoNode
      BY <1>3, <1>8, <3>1, <3>2
    <3>4. QED  BY <1>7, <3>1, <3>3 DEF Met
  <2>3. QED  BY <2>1, <2>2
<1>10. QED  BY <1>9 DEF f

LEMMA OnListIsList ==
  ASSUME FreeConstantsOK, NEW k \in Nat, NEW l
  PROVE  /\ IsList(l, k, listHead, nextOf) => OnList = {l[p] : p \in 1 .. k}
         /\ IsList(l, k, listHead', nextOf') => OnList' = {l[p] : p \in 1 .. k}
<1>1. IsList(l, k, listHead, nextOf) => OnList = {l[p] : p \in 1 .. k}
  BY OnListIsMet, ListIsMet
<1>2. IsList(l, k, listHead', nextOf') => OnList' = {l[p] : p \in 1 .. k}
  BY OnListIsMet, ListIsMet
<1>3. QED  BY <1>1, <1>2

\* The head is on the list, taking it off leaves the rest, and its link is a
\* node of the list or none.
LEMMA PopList ==
  ASSUME FreeConstantsOK, HasList(listHead, nextOf), listHead # NoNode,
         nextOf' = nextOf, listHead' = nextOf[listHead]
  PROVE  /\ listHead \in OnList /\ OnList' = OnList \ {listHead}
         /\ HasList(listHead', nextOf')
<1>0. PICK k \in Nat : \E l \in [1 .. k -> Nodes] : IsList(l, k, listHead, nextOf)
  BY DEF HasList
<1>1. PICK l \in [1 .. k -> Nodes] : IsList(l, k, listHead, nextOf)
  BY <1>0
<1>2. k # 0 /\ k - 1 \in Nat /\ listHead = l[1]
  BY <1>1 DEF IsList
<1> DEFINE m == [p \in 1 .. k - 1 |-> l[p + 1]]
<1>3. m \in [1 .. k - 1 -> Nodes] /\ \A p \in 1 .. k - 1 : m[p] = l[p + 1]
  BY <1>1, <1>2 DEF IsList
<1> HIDE DEF m
<1>4. listHead' = IF k - 1 = 0 THEN NoNode ELSE m[1]
  BY <1>1, <1>2, <1>3 DEF IsList
<1>5. \A p, j \in 1 .. k - 1 : m[p] = m[j] => p = j
  BY <1>1, <1>2, <1>3 DEF IsList
<1>6. \A p \in 1 .. k - 1 : nextOf'[m[p]] = IF p = k - 1 THEN NoNode ELSE m[p + 1]
  <2> SUFFICES ASSUME NEW p \in 1 .. k - 1
      PROVE  nextOf[m[p]] = IF p = k - 1 THEN NoNode ELSE m[p + 1]
    OBVIOUS
  <2>1. p + 1 \in 1 .. k /\ nextOf[l[p + 1]] = IF p + 1 = k THEN NoNode ELSE l[(p + 1) + 1]
    BY <1>1, <1>2 DEF IsList
  <2>2. p # k - 1 => m[p + 1] = l[(p + 1) + 1]
    BY <1>2, <1>3
  <2>3. QED  BY <1>2, <1>3, <2>1, <2>2
<1>7. IsList(m, k - 1, listHead', nextOf')
  BY <1>3, <1>4, <1>5, <1>6 DEF IsList
<1>8. OnList = {l[p] : p \in 1 .. k} /\ OnList' = {m[p] : p \in 1 .. k - 1}
  BY <1>1, <1>2, <1>7, OnListIsList
<1>9. {m[p] : p \in 1 .. k - 1} = {l[p] : p \in 1 .. k} \ {l[1]}
  <2>1. ASSUME NEW p \in 1 .. k - 1 PROVE m[p] \in {l[j] : j \in 1 .. k} \ {l[1]}
    <3>1. p + 1 \in 1 .. k /\ p + 1 # 1 /\ m[p] = l[p + 1]
      BY <1>2, <1>3
    <3>2. l[p + 1] # l[1]
      BY <1>1, <1>2, <3>1 DEF IsList
    <3>3. QED  BY <3>1, <3>2
  <2>2. ASSUME NEW p \in 1 .. k, l[p] # l[1] PROVE l[p] \in {m[j] : j \in 1 .. k - 1}
    <3>1. p - 1 \in 1 .. k - 1 /\ m[p - 1] = l[p]
      BY <1>2, <1>3, <2>2
    <3>2. QED  BY <3>1
  <2>3. QED  BY <2>1, <2>2
<1>10. listHead \in OnList
  BY <1>2, <1>8
<1>11. HasList(listHead', nextOf')
  BY <1>2, <1>3, <1>7 DEF HasList
<1>12. QED  BY <1>2, <1>8, <1>9, <1>10, <1>11

\* A node linked to the head is pushed in front of it.
LEMMA PushList ==
  ASSUME FreeConstantsOK, HasList(listHead, nextOf), NEW n \in Nodes, n \notin OnList,
         nextOf[n] = listHead, nextOf' = nextOf, listHead' = n
  PROVE  OnList' = OnList \cup {n} /\ HasList(listHead', nextOf')
<1>0. PICK k \in Nat : \E l \in [1 .. k -> Nodes] : IsList(l, k, listHead, nextOf)
  BY DEF HasList
<1>1. PICK l \in [1 .. k -> Nodes] : IsList(l, k, listHead, nextOf)
  BY <1>0
<1>2. OnList = {l[p] : p \in 1 .. k}
  BY <1>1, OnListIsList
<1> DEFINE m == [p \in 1 .. k + 1 |-> IF p = 1 THEN n ELSE l[p - 1]]
<1>3. m \in [1 .. k + 1 -> Nodes] /\ m[1] = n /\ \A p \in 1 .. k : m[p + 1] = l[p]
  BY <1>1 DEF IsList
<1>4. \A p \in 1 .. k + 1 : p = 1 \/ (p - 1 \in 1 .. k /\ m[p] = l[p - 1])
  OBVIOUS
<1> HIDE DEF m
<1>5. \A p, j \in 1 .. k + 1 : m[p] = m[j] => p = j
  <2>1. \A p \in 1 .. k : l[p] # n
    BY <1>2
  <2>2. \A p, j \in 1 .. k : l[p] = l[j] => p = j
    BY <1>1 DEF IsList
  <2>3. QED  BY <1>3, <1>4, <2>1, <2>2
<1>6. \A p \in 1 .. k + 1 : nextOf'[m[p]] = IF p = k + 1 THEN NoNode ELSE m[p + 1]
  <2> SUFFICES ASSUME NEW p \in 1 .. k + 1
      PROVE  nextOf[m[p]] = IF p = k + 1 THEN NoNode ELSE m[p + 1]
    OBVIOUS
  <2>1. CASE p = 1
    BY <1>1, <1>3, <2>1 DEF IsList
  <2>2. CASE p # 1
    <3>1. p - 1 \in 1 .. k /\ m[p] = l[p - 1]
      BY <1>4, <2>2
    <3>2. nextOf[l[p - 1]] = IF p - 1 = k THEN NoNode ELSE l[p]
      BY <1>1, <3>1 DEF IsList
    <3>3. p # k + 1 => m[p + 1] = l[p]
      BY <1>3
    <3>4. QED  BY <3>1, <3>2, <3>3
  <2>3. QED  BY <2>1, <2>2
<1>7. IsList(m, k + 1, listHead', nextOf')
  BY <1>3, <1>5, <1>6 DEF IsList
<1>8. OnList' = {m[p] : p \in 1 .. k + 1}
  BY <1>7, OnListIsList
<1>9. {m[p] : p \in 1 .. k + 1} = {l[p] : p \in 1 .. k} \cup {n}
  <2>1. ASSUME NEW p \in 1 .. k + 1 PROVE m[p] \in {l[j] : j \in 1 .. k} \cup {n}
    BY <1>3, <1>4
  <2>2. ASSUME NEW p \in 1 .. k PROVE l[p] \in {m[j] : j \in 1 .. k + 1}
    <3>1. p + 1 \in 1 .. k + 1 /\ m[p + 1] = l[p]  BY <1>3
    <3>2. QED  BY <3>1
  <2>3. n \in {m[j] : j \in 1 .. k + 1}
    BY <1>3
  <2>4. QED  BY <2>1, <2>2, <2>3
<1>10. HasList(listHead', nextOf')
  <2>1. k + 1 \in Nat /\ m \in [1 .. k + 1 -> Nodes]  BY <1>3
  <2>2. QED  BY <1>7, <2>1 DEF HasList
<1>11. QED  BY <1>2, <1>8, <1>9, <1>10

\* The link of a node that is not on the list does not matter to it.
LEMMA LinkList ==
  ASSUME FreeConstantsOK, HasList(listHead, nextOf), NEW n, n \notin OnList,
         listHead' = listHead, \A m \in Nodes : m # n => nextOf'[m] = nextOf[m]
  PROVE  OnList' = OnList /\ HasList(listHead', nextOf')
<1>0. PICK k \in Nat : \E l \in [1 .. k -> Nodes] : IsList(l, k, listHead, nextOf)
  BY DEF HasList
<1>1. PICK l \in [1 .. k -> Nodes] : IsList(l, k, listHead, nextOf)
  BY <1>0
<1>2. OnList = {l[p] : p \in 1 .. k}
  BY <1>1, OnListIsList
<1>3. IsList(l, k, listHead', nextOf')
  BY <1>1, <1>2 DEF IsList
<1>4. QED  BY <1>1, <1>2, <1>3, OnListIsList DEF HasList

-----------------------------------------------------------------------------
(* The variables of a thread.                                               *)

Has(w, at, owns, head, next, node) ==
    /\ IsUser(w) /\ w.pc = at /\ w.owns = owns
    /\ w.head = head /\ w.next = next /\ w.node = node

\* Between two turns of a loop a thread has no node but those it owns.
Resting(w, owns) ==
    /\ IsUser(w) /\ w.owns = owns /\ w.next = NoNode /\ w.node = NoNode
    /\ \/ w.pc \in {"idle", "reload"} /\ w.head = NoNode
       \/ w.pc = "refs" /\ w.head \in Nodes

LEMMA IdleFields ==
  ASSUME NEW o, NEW at, NEW h, NEW n
  PROVE  /\ Has(IdleUser(o), "idle", o, NoNode, NoNode, NoNode)
         /\ Has([IdleUser(o) EXCEPT !.pc = at], at, o, NoNode, NoNode, NoNode)
         /\ Has([IdleUser(o) EXCEPT !.pc = at, !.head = h], at, o, h, NoNode, NoNode)
         /\ Has([IdleUser(o) EXCEPT !.pc = at, !.node = n], at, o, NoNode, NoNode, n)
<1> DEFINE p == IdleUser(o)
<1>1. Has(p, "idle", o, NoNode, NoNode, NoNode)
  BY DEF IdleUser, Has, IsUser
<1> HIDE DEF p
<1>2. Has([p EXCEPT !.pc = at], at, o, NoNode, NoNode, NoNode)
  BY <1>1, Zenon DEF Has, IsUser
<1>3. Has([p EXCEPT !.pc = at, !.head = h], at, o, h, NoNode, NoNode)
  BY <1>1, Zenon DEF Has, IsUser
<1>4. Has([p EXCEPT !.pc = at, !.node = n], at, o, NoNode, NoNode, n)
  BY <1>1, Zenon DEF Has, IsUser
<1>5. QED  BY <1>1, <1>2, <1>3, <1>4, Zenon DEF p

LEMMA IdleRests ==
  ASSUME NEW o
  PROVE  /\ Resting(IdleUser(o), o)
         /\ Resting([IdleUser(o) EXCEPT !.pc = "reload"], o)
<1>1. Has(IdleUser(o), "idle", o, NoNode, NoNode, NoNode)
  BY IdleFields
<1> DEFINE r == [IdleUser(o) EXCEPT !.pc = "reload"]
<1>2. Has(r, "reload", o, NoNode, NoNode, NoNode)
  BY IdleFields, Zenon
<1> HIDE DEF r
<1>3. Resting(r, o)
  BY <1>2 DEF Has, Resting
<1>4. QED  BY <1>1, <1>3 DEF Has, Resting, r

LEMMA TurnRests ==
  ASSUME NEW rec, NEW h \in Nodes \cup {NoNode}
  PROVE  Resting(Turn(rec, h), rec.owns)
<1>1. CASE h = NoNode
  <2>1. Turn(rec, h) = IdleUser(rec.owns)  BY <1>1, Zenon DEF Turn
  <2>2. QED  BY <2>1, IdleRests
<1>2. CASE h # NoNode
  <2> DEFINE r == [IdleUser(rec.owns) EXCEPT !.pc = "refs", !.head = h]
  <2>1. Turn(rec, h) = r  BY <1>2, Zenon DEF Turn
  <2>2. Has(r, "refs", rec.owns, h, NoNode, NoNode)  BY IdleFields, Zenon
  <2> HIDE DEF r
  <2>3. QED  BY <1>2, <2>1, <2>2 DEF Has, Resting
<1>3. QED  BY <1>1, <1>2

LEMMA BackRests ==
  ASSUME NEW rec, rec.head \in Nodes \cup {NoNode}
  PROVE  Resting(Back(rec), rec.owns)
BY TurnRests, IdleRests DEF Back

LEMMA RestingOK ==
  ASSUME FreeConstantsOK, NEW w, NEW o \in SUBSET Nodes, Resting(w, o)
  PROVE  /\ UserOK(w) /\ \A nx : LinksOK(w, nx)
         /\ \A n \in Nodes : /\ Kind(w, n) = IF n \in o THEN "owns" ELSE "none"
                             /\ ~Holding(w, n)
<1>1. UserOK(w)
  BY DEF Resting, UserOK, Early, Late
<1>2. w.pc \in {"idle", "reload", "refs"} /\ w.owns = o
  BY DEF Resting
<1>3. \A nx : LinksOK(w, nx)
  BY <1>2 DEF LinksOK
<1>4. QED  BY <1>1, <1>2, <1>3 DEF Kind, Holding, Early, Late

-----------------------------------------------------------------------------
(* What a step of one thread does to the places of the nodes.               *)

\* The thread u goes to w.
Goes(u, w) == DOMAIN user = Users /\ user' = [user EXCEPT ![u] = w]

LEMMA OneUser ==
  ASSUME FreeConstantsOK, NEW u \in Users, NEW w, Goes(u, w), NEW n \in Nodes
  PROVE  /\ DOMAIN user' = Users /\ user'[u] = w
         /\ \A v \in Users \ {u} : user'[v] = user[v]
         /\ Holders(n)' = IF Holding(w, n) THEN Holders(n) \cup {u} ELSE Holders(n) \ {u}
         /\ u \in Holders(n) <=> Holding(user[u], n)
         /\ IsFiniteSet(Holders(n)) /\ Cardinality(Holders(n)) \in Nat
         /\ Cardinality(Holders(n)) = 0 <=> Holders(n) = {}
         /\ Cardinality(Holders(n)') = 0 <=> Holders(n)' = {}
         /\ Cardinality(Holders(n)') =
               IF Holding(w, n)
               THEN IF Holding(user[u], n) THEN Cardinality(Holders(n)) ELSE Cardinality(Holders(n)) + 1
               ELSE IF Holding(user[u], n) THEN Cardinality(Holders(n)) - 1 ELSE Cardinality(Holders(n))
<1>1. DOMAIN user' = Users /\ user'[u] = w /\ \A v \in Users \ {u} : user'[v] = user[v]
  BY DEF Goes
<1>2. u \in Holders(n) <=> Holding(user[u], n)
  BY DEF Holders
<1>3. Holders(n)' = IF Holding(w, n) THEN Holders(n) \cup {u} ELSE Holders(n) \ {u}
  <2>1. Holders(n)' = {v \in Users : Holding(user'[v], n)}
    BY Zenon DEF Holders
  <2>2. \A v \in Users : Holding(user'[v], n) <=> IF v = u THEN Holding(w, n) ELSE Holding(user[v], n)
    BY <1>1
  <2>3. \A v : v \in Holders(n) <=> v \in Users /\ Holding(user[v], n)
    BY DEF Holders
  <2>4. \A v : v \in Holders(n)' <=> v \in Users /\ IF v = u THEN Holding(w, n) ELSE Holding(user[v], n)
    BY <2>1, <2>2
  <2>5. QED  BY <2>3, <2>4
<1>4. IsFiniteSet(Holders(n))
  <2>1. Holders(n) \in SUBSET Users  BY DEF Holders
  <2>2. QED  BY <2>1, FS_Subset DEF FreeConstantsOK
<1>5. Cardinality(Holders(n)) \in Nat /\ (Cardinality(Holders(n)) = 0 <=> Holders(n) = {})
  BY <1>4, FS_CardinalityType, FS_EmptySet
<1>6. /\ Cardinality(Holders(n) \cup {u}) =
            IF u \in Holders(n) THEN Cardinality(Holders(n)) ELSE Cardinality(Holders(n)) + 1
      /\ Cardinality(Holders(n) \ {u}) =
            IF u \in Holders(n) THEN Cardinality(Holders(n)) - 1 ELSE Cardinality(Holders(n))
  BY <1>4, FS_AddElement, FS_RemoveElement
<1> DEFINE H == Holders(n)
           G == Holders(n)'
<1>7. Cardinality(G) =
         IF Holding(w, n)
         THEN IF Holding(user[u], n) THEN Cardinality(H) ELSE Cardinality(H) + 1
         ELSE IF Holding(user[u], n) THEN Cardinality(H) - 1 ELSE Cardinality(H)
  <2>1. CASE Holding(w, n)
    <3>1. G = H \cup {u}  BY <1>3, <2>1
    <3>2. QED  BY <1>2, <1>6, <2>1, <3>1
  <2>2. CASE ~Holding(w, n)
    <3>1. G = H \ {u}  BY <1>3, <2>2
    <3>2. QED  BY <1>2, <1>6, <2>2, <3>1
  <2>3. QED  BY <2>1, <2>2
<1>8. Cardinality(G) = 0 <=> G = {}
  <2>1. IsFiniteSet(G)
    BY <1>3, <1>4, FS_AddElement, FS_RemoveElement
  <2> HIDE DEF G
  <2>2. QED  BY <2>1, FS_EmptySet
<1>9. QED  BY <1>1, <1>2, <1>3, <1>4, <1>5, <1>7, <1>8

\* For the node n the step is none.
Same(u, w, n) ==
    /\ Kind(w, n) = Kind(user[u], n)
    /\ Holding(w, n) <=> Holding(user[u], n)
    /\ refs'[n] = refs[n]
    /\ n \in OnList' <=> n \in OnList

LEMMA SameKeeps ==
  ASSUME FreeConstantsOK, NEW u \in Users, NEW w, Goes(u, w), NEW n \in Nodes, NodeOK(n), Same(u, w, n)
  PROVE  NodeOK(n)'
<1>1. \A v \in Users : Kind(user'[v], n) = Kind(user[v], n)
  BY OneUser DEF Same
<1>2. Holders(n)' = Holders(n)
  <2>1. u \in Holders(n) <=> Holding(w, n)
    BY OneUser DEF Same
  <2>2. Holders(n)' = IF Holding(w, n) THEN Holders(n) \cup {u} ELSE Holders(n) \ {u}
    BY OneUser
  <2>3. QED  BY <2>1, <2>2
<1>3. refs'[n] = refs[n] /\ (n \in OnList' <=> n \in OnList)
  BY DEF Same
<1>4. \A k, m : Refs(n, k, m)' <=> Refs(n, k, m)
  BY <1>2, <1>3, Zenon DEF Refs
<1>5. CASE Listed(n)
  BY <1>1, <1>3, <1>4, <1>5 DEF NodeOK, Listed, Unclaimed
<1>6. CASE Claimed(n)
  <2>1. PICK v \in Users : /\ Kind(user[v], n) # "none"
                           /\ \A x \in Users \ {v} : Kind(user[x], n) = "none"
                           /\ RefsAs(n, Kind(user[v], n))
    BY <1>6 DEF Claimed
  <2> DEFINE k == Kind(user[v], n)
  <2>2. Kind(user'[v], n) = k
    BY <1>1
  <2> HIDE DEF k
  <2>3. RefsAs(n, k)
    BY <2>1 DEF k
  <2>4. \/ k = "owns" /\ Refs(n, 0, FALSE)'
        \/ k \in {"got", "late"} /\ Refs(n, 1, FALSE)'
        \/ k = "early" /\ Refs(n, 0, TRUE)' /\ Holders(n)' = {}
    BY <1>2, <1>4, <2>3, Zenon DEF RefsAs
  <2>5. RefsAs(n, Kind(user[v], n))'
    BY <2>2, <2>4, Zenon DEF RefsAs
  <2>6. Kind(user'[v], n) # "none" /\ \A x \in Users \ {v} : Kind(user'[x], n) = "none"
    BY <1>1, <2>1
  <2>7. n \notin OnList'
    BY <1>3, <1>6 DEF Claimed
  <2>8. Claimed(n)'
    BY <2>5, <2>6, <2>7, Zenon DEF Claimed
  <2>9. QED  BY <2>8, Zenon DEF NodeOK
<1>7. CASE Pending(n)
  BY <1>1, <1>2, <1>3, <1>4, <1>7 DEF NodeOK, Pending, Unclaimed
<1>8. QED  BY <1>5, <1>6, <1>7 DEF NodeOK

\* A node a thread claims is claimed by no other and is not on the list.
LEMMA ClaimedBy ==
  ASSUME NEW n \in Nodes, NodeOK(n), NEW u \in Users, Kind(user[u], n) # "none"
  PROVE  /\ n \notin OnList
         /\ \A v \in Users \ {u} : Kind(user[v], n) = "none"
         /\ RefsAs(n, Kind(user[u], n))
BY DEF NodeOK, Listed, Unclaimed, Claimed, Pending

\* The thread claims n as k after its step.
LEMMA BecomesClaimed ==
  ASSUME FreeConstantsOK, NEW u \in Users, NEW w, Goes(u, w), NEW n \in Nodes,
         \A v \in Users \ {u} : Kind(user[v], n) = "none",
         n \notin OnList', NEW k, k # "none", Kind(w, n) = k, RefsAs(n, k)'
  PROVE  NodeOK(n)'
<1>1. user'[u] = w /\ \A v \in Users \ {u} : Kind(user'[v], n) = "none"
  BY OneUser
<1>2. RefsAs(n, Kind(user[u], n))'
  <2>1. Kind(user'[u], n) = k  BY <1>1
  <2>2. QED  BY <2>1, Zenon DEF RefsAs
<1>3. Claimed(n)'
  <2>1. Kind(user'[u], n) # "none"  BY <1>1
  <2>2. QED  BY <1>1, <1>2, <2>1, Zenon DEF Claimed
<1>4. QED  BY <1>3, Zenon DEF NodeOK

\* Nobody claims n after the step: it is on the list or pending.
LEMMA BecomesFree ==
  ASSUME FreeConstantsOK, NEW u \in Users, NEW w, Goes(u, w), NEW n \in Nodes,
         \A v \in Users \ {u} : Kind(user[v], n) = "none", Kind(w, n) = "none",
         \/ n \in OnList' /\ Refs(n, 1, FALSE)'
         \/ n \notin OnList' /\ Refs(n, 0, TRUE)' /\ Holders(n)' # {}
  PROVE  NodeOK(n)'
<1>1. Unclaimed(n)'
  <2>1. \A v \in Users : Kind(user'[v], n) = "none"
    BY OneUser
  <2>2. QED  BY <2>1, Zenon DEF Unclaimed
<1>2. Listed(n)' \/ Pending(n)'
  BY <1>1, Zenon DEF Listed, Pending
<1>3. QED  BY <1>2, Zenon DEF NodeOK

\* The parts of the invariant, put together after a step of u on the node n.
LEMMA Assemble ==
  ASSUME FreeConstantsOK, FInv, NEW u \in Users, NEW w, Goes(u, w),
         UserOK(w), LinksOK(w, nextOf'), \A v \in Users \ {u} : LinksOK(user[v], nextOf'),
         DOMAIN refs' = Nodes, nextOf' \in [Nodes -> Nodes \cup {NoNode}], listHead' \in Nodes \cup {NoNode},
         HasList(listHead', nextOf'),
         NEW n \in Nodes, NodeOK(n)', \A m \in Nodes \ {n} : Same(u, w, m)
  PROVE  FInv'
<1>1. DOMAIN user' = Users /\ user'[u] = w /\ \A v \in Users \ {u} : user'[v] = user[v]
  BY OneUser
<1>2. \A v \in Users : UserOK(user'[v]) /\ LinksOK(user'[v], nextOf')
  BY <1>1 DEF FInv
<1>3. ASSUME NEW m \in Nodes PROVE NodeOK(m)'
  <2>1. NodeOK(m)  BY DEF FInv
  <2>2. CASE m = n  BY <2>2
  <2>3. CASE m # n  BY <2>1, <2>3, SameKeeps
  <2>4. QED  BY <2>2, <2>3
<1>4. QED  BY <1>1, <1>2, <1>3, Zenon DEF FInv

\* A step that moves no node.
LEMMA QuietStep ==
  ASSUME FreeConstantsOK, FInv, NEW u \in Users, NEW w, Goes(u, w),
         UserOK(w), LinksOK(w, nextOf'), \A v \in Users \ {u} : LinksOK(user[v], nextOf'),
         refs' = refs, nextOf' \in [Nodes -> Nodes \cup {NoNode}], listHead' = listHead,
         HasList(listHead', nextOf'), OnList' = OnList,
         \A m \in Nodes : Kind(w, m) = Kind(user[u], m) /\ (Holding(w, m) <=> Holding(user[u], m))
  PROVE  FInv'
<1>1. DOMAIN user' = Users /\ user'[u] = w /\ \A v \in Users \ {u} : user'[v] = user[v]
  BY DEF Goes
<1>2. \A v \in Users : UserOK(user'[v]) /\ LinksOK(user'[v], nextOf')
  BY <1>1 DEF FInv
<1>3. ASSUME NEW m \in Nodes PROVE NodeOK(m)'
  <2>1. NodeOK(m)  BY DEF FInv
  <2>2. Same(u, w, m)  BY DEF Same
  <2>3. QED  BY <2>1, <2>2, SameKeeps
<1>4. DOMAIN refs' = Nodes /\ listHead' \in Nodes \cup {NoNode}
  BY DEF FInv
<1>5. QED  BY <1>1, <1>2, <1>3, <1>4, Zenon DEF FInv

\* Head and links are left alone.
LEMMA ListUnchanged ==
  ASSUME FInv, listHead' = listHead, nextOf' = nextOf
  PROVE  /\ OnList' = OnList /\ HasList(listHead', nextOf')
         /\ nextOf' \in [Nodes -> Nodes \cup {NoNode}] /\ listHead' \in Nodes \cup {NoNode}
         /\ \A v \in Users : LinksOK(user[v], nextOf')
<1>1. OnList' = OnList
  BY OnListIsMet
<1>2. QED  BY <1>1 DEF FInv

\* So is everything: the thread goes to rest, with the nodes it owned.
LEMMA RestStep ==
  ASSUME FreeConstantsOK, FInv, NEW u \in Users, NEW w, user' = [user EXCEPT ![u] = w],
         UNCHANGED <<listHead, nextOf, refs>>,
         user[u].pc \in {"idle", "reload", "refs", "raise"}, Resting(w, user[u].owns)
  PROVE  FInv'
<1>1. Goes(u, w) /\ UserOK(user[u]) /\ user[u].owns \in SUBSET Nodes
  BY DEF Goes, FInv, UserOK
<1>2. /\ UserOK(w) /\ LinksOK(w, nextOf')
      /\ \A n \in Nodes : Kind(w, n) = (IF n \in user[u].owns THEN "owns" ELSE "none") /\ ~Holding(w, n)
  BY <1>1, RestingOK
<1>3. \A n \in Nodes : /\ Kind(user[u], n) = IF n \in user[u].owns THEN "owns" ELSE "none"
                       /\ ~Holding(user[u], n)
  BY DEF Kind, Holding, Early, Late
<1>4. QED  BY <1>1, <1>2, <1>3, ListUnchanged, QuietStep

\* A reference to n is taken or given back, and no more.
LEMMA Shifted ==
  ASSUME FreeConstantsOK, NEW u \in Users, NEW w, Goes(u, w), NEW n \in Nodes, NodeOK(n),
         Kind(w, n) = Kind(user[u], n), OnList' = OnList, NEW d \in Int,
         refs'[n] = [count |-> refs[n].count + d, should |-> refs[n].should],
         Cardinality(Holders(n)') = Cardinality(Holders(n)) + d,
         refs[n].count # 0 \/ Holders(n) # {},
         Pending(n) => Holders(n)' # {}
  PROVE  NodeOK(n)'
<1>1. Cardinality(Holders(n)) \in Nat /\ (Cardinality(Holders(n)) = 0 <=> Holders(n) = {})
  BY OneUser
<1>2. /\ Refs(n, 0, FALSE) => Refs(n, 0, FALSE)'
      /\ Refs(n, 1, FALSE) => Refs(n, 1, FALSE)'
      /\ Refs(n, 0, TRUE) => Refs(n, 0, TRUE)'
  <2>1. (0 + Cardinality(Holders(n))) + d = 0 + Cardinality(Holders(n)')
    BY <1>1
  <2>2. (1 + Cardinality(Holders(n))) + d = 1 + Cardinality(Holders(n)')
    BY <1>1
  <2>3. ASSUME Refs(n, 0, FALSE) PROVE Refs(n, 0, FALSE)'
    <3>1. refs[n].count = 0 + Cardinality(Holders(n)) /\ refs[n].should = FALSE
      BY <2>3 DEF Refs
    <3>2. refs'[n] = [count |-> 0 + Cardinality(Holders(n)'), should |-> FALSE]
      BY <2>1, <3>1
    <3>3. QED  BY <3>2, Zenon DEF Refs
  <2>4. ASSUME Refs(n, 1, FALSE) PROVE Refs(n, 1, FALSE)'
    <3>1. refs[n].count = 1 + Cardinality(Holders(n)) /\ refs[n].should = FALSE
      BY <2>4 DEF Refs
    <3>2. refs'[n] = [count |-> 1 + Cardinality(Holders(n)'), should |-> FALSE]
      BY <2>2, <3>1
    <3>3. QED  BY <3>2, Zenon DEF Refs
  <2>5. ASSUME Refs(n, 0, TRUE) PROVE Refs(n, 0, TRUE)'
    <3>1. refs[n].count = 0 + Cardinality(Holders(n)) /\ refs[n].should = TRUE
      BY <2>5 DEF Refs
    <3>2. refs'[n] = [count |-> 0 + Cardinality(Holders(n)'), should |-> TRUE]
      BY <2>1, <3>1
    <3>3. QED  BY <3>2, Zenon DEF Refs
  <2>6. QED  BY <2>3, <2>4, <2>5
<1>3. \A v \in Users : Kind(user'[v], n) = Kind(user[v], n)
  BY OneUser
<1>4. CASE Listed(n)
  <2>1. Refs(n, 1, FALSE)'  BY <1>2, <1>4 DEF Listed
  <2>2. \A v \in Users : Kind(user[v], n) = "none"  BY <1>4 DEF Listed, Unclaimed
  <2>3. n \in OnList'  BY <1>4 DEF Listed
  <2>4. QED  BY <2>1, <2>2, <2>3, BecomesFree
<1>5. CASE Claimed(n)
  <2>1. PICK v \in Users : /\ Kind(user[v], n) # "none"
                           /\ \A x \in Users \ {v} : Kind(user[x], n) = "none"
                           /\ RefsAs(n, Kind(user[v], n))
    BY <1>5 DEF Claimed
  <2> DEFINE k == Kind(user[v], n)
  <2>2. Kind(user'[v], n) = k
    BY <1>3
  <2> HIDE DEF k
  <2>3. RefsAs(n, k)
    BY <2>1 DEF k
  <2>4. k # "early"
    <3> SUFFICES ASSUME k = "early" PROVE FALSE  OBVIOUS
    <3>1. Refs(n, 0, TRUE) /\ Holders(n) = {}
      BY <2>3 DEF RefsAs
    <3>2. refs[n].count = 0
      BY <1>1, <3>1 DEF Refs
    <3>3. QED  BY <3>1, <3>2
  <2>5. \/ k = "owns" /\ Refs(n, 0, FALSE)'
        \/ k \in {"got", "late"} /\ Refs(n, 1, FALSE)'
    BY <1>2, <2>3, <2>4 DEF RefsAs
  <2>6. RefsAs(n, Kind(user[v], n))'
    BY <2>2, <2>5, Zenon DEF RefsAs
  <2>7. Kind(user'[v], n) # "none" /\ \A x \in Users \ {v} : Kind(user'[x], n) = "none"
    BY <1>3, <2>1
  <2>8. n \notin OnList'
    BY <1>5 DEF Claimed
  <2>9. Claimed(n)'
    BY <2>6, <2>7, <2>8, Zenon DEF Claimed
  <2>10. QED  BY <2>9, Zenon DEF NodeOK
<1>6. CASE Pending(n)
  <2>1. Refs(n, 0, TRUE)'  BY <1>2, <1>6 DEF Pending
  <2>2. \A v \in Users : Kind(user[v], n) = "none"  BY <1>6 DEF Pending, Unclaimed
  <2>3. n \notin OnList'  BY <1>6 DEF Pending
  <2>4. QED  BY <1>6, <2>1, <2>2, <2>3, BecomesFree
<1>7. QED  BY <1>4, <1>5, <1>6 DEF NodeOK

-----------------------------------------------------------------------------
(* try_get *)

LEMMA LoadHeadKeeps ==
  ASSUME FreeConstantsOK, FInv, NEW u \in Users, LoadHead(u)
  PROVE  FInv'
<1> DEFINE w == Turn(user[u], listHead)
<1>1. /\ user' = [user EXCEPT ![u] = w] /\ UNCHANGED <<listHead, nextOf, refs>>
      /\ user[u].pc \in {"idle", "reload"}
  BY DEF LoadHead, SetUser, Is
<1>2. Resting(w, user[u].owns)
  BY TurnRests DEF FInv
<1> HIDE DEF w
<1>3. QED  BY <1>1, <1>2, RestStep

LEMMA LoadRefsKeeps ==
  ASSUME FreeConstantsOK, FInv, NEW u \in Users, LoadRefs(u)
  PROVE  FInv'
<1> DEFINE s == user[u]
           seen == refs[s.head]
<1>1. UNCHANGED <<listHead, nextOf, refs>> /\ s.pc = "refs" /\ UserOK(s)
  BY DEF LoadRefs, Is, FInv
<1>2. CASE seen.count = 0
  <2> DEFINE w == [IdleUser(s.owns) EXCEPT !.pc = "reload"]
  <2>1. user' = [user EXCEPT ![u] = w]
    BY <1>2, Zenon DEF LoadRefs, SetUser
  <2>2. Resting(w, s.owns)
    BY IdleRests
  <2> HIDE DEF w
  <2>3. QED  BY <1>1, <2>1, <2>2, RestStep
<1>3. CASE seen.count # 0
  <2> DEFINE w == [s EXCEPT !.seen = seen, !.pc = "raise"]
  <2>1. user' = [user EXCEPT ![u] = w]
    BY <1>3, Zenon DEF LoadRefs, SetUser
  <2>2. IsUser(s)
    BY <1>1 DEF UserOK
  <2>3. Has(w, "raise", s.owns, s.head, s.next, s.node) /\ w.seen = seen
    BY <2>2, Zenon DEF Has, IsUser
  <2> HIDE DEF w
  <2>4. Goes(u, w)
    BY <2>1 DEF Goes, FInv
  <2>5. UserOK(w) /\ LinksOK(w, nextOf')
    BY <1>1, <1>3, <2>3 DEF UserOK, Has, LinksOK, Early, Late
  <2>6. \A m \in Nodes : Kind(w, m) = Kind(s, m) /\ (Holding(w, m) <=> Holding(s, m))
    BY <1>1, <2>3 DEF Has, Kind, Holding, Early, Late
  <2>7. QED  BY <1>1, <2>4, <2>5, <2>6, ListUnchanged, QuietStep
<1>4. QED  BY <1>2, <1>3

LEMMA RaiseRefsKeeps ==
  ASSUME FreeConstantsOK, FInv, NEW u \in Users, RaiseRefs(u)
  PROVE  FInv'
<1> DEFINE s == user[u]
<1>0. PICK n \in Nodes : n = s.head
  BY DEF RaiseRefs, Is, FInv, UserOK
<1>1. UNCHANGED <<listHead, nextOf>> /\ s.pc = "raise" /\ UserOK(s) /\ n \in Nodes
  BY <1>0 DEF RaiseRefs, Is, FInv, UserOK
<1>2. CASE refs[n] # s.seen
  <2> DEFINE w == [IdleUser(s.owns) EXCEPT !.pc = "reload"]
  <2>1. user' = [user EXCEPT ![u] = w] /\ UNCHANGED refs
    BY <1>2, <1>0, Zenon DEF RaiseRefs, SetUser
  <2>2. Resting(w, s.owns)
    BY IdleRests
  <2> HIDE DEF w
  <2>3. QED  BY <1>1, <2>1, <2>2, RestStep
<1>3. CASE refs[n] = s.seen
  <2> DEFINE w == [s EXCEPT !.pc = "next", !.seen = Zero]
  <2>1. /\ user' = [user EXCEPT ![u] = w]
        /\ refs' = [refs EXCEPT ![n] = [count |-> @.count + 1, should |-> @.should]]
    BY <1>3, <1>0, Zenon DEF RaiseRefs, SetUser
  <2>2. IsUser(s)
    BY <1>1 DEF UserOK
  <2>3. Has(w, "next", s.owns, n, s.next, s.node)
    BY <1>0, <2>2, Zenon DEF Has, IsUser
  <2> HIDE DEF w
  <2>4. Goes(u, w)
    BY <2>1 DEF Goes, FInv
  <2>5. UserOK(w) /\ LinksOK(w, nextOf')
    BY <1>1, <2>3 DEF UserOK, Has, LinksOK, Early, Late
  <2>6. \A m \in Nodes : Kind(w, m) = Kind(s, m) /\ ~Holding(s, m) /\ (Holding(w, m) <=> m = n)
    BY <1>1, <2>3 DEF Has, Kind, Holding, Early, Late
  <2>7. /\ DOMAIN refs' = Nodes /\ \A m \in Nodes \ {n} : refs'[m] = refs[m]
        /\ refs'[n] = [count |-> refs[n].count + 1, should |-> refs[n].should]
    BY <1>1, <2>1 DEF FInv
  <2>8. \A m \in Nodes \ {n} : Same(u, w, m)
    BY <1>1, <2>6, <2>7, ListUnchanged DEF Same
  <2>9. NodeOK(n)'
    <3>1. Cardinality(Holders(n)') = Cardinality(Holders(n)) + 1 /\ Holders(n)' # {}
      BY <1>1, <2>4, <2>6, OneUser
    <3>2. refs[n].count # 0
      BY <1>1, <1>3 DEF UserOK
    <3>3. NodeOK(n) /\ OnList' = OnList
      BY <1>1, ListUnchanged DEF FInv
    <3>4. QED  BY <1>1, <2>4, <2>6, <2>7, <3>1, <3>2, <3>3, Shifted
  <2>10. QED  BY <1>1, <2>4, <2>5, <2>7, <2>8, <2>9, ListUnchanged, Assemble
<1>4. QED  BY <1>2, <1>3

LEMMA LoadNextKeeps ==
  ASSUME FreeConstantsOK, FInv, NEW u \in Users, LoadNext(u)
  PROVE  FInv'
<1> DEFINE s == user[u]
           w == [s EXCEPT !.pc = "pop", !.next = nextOf[s.head]]
<1>1. /\ UNCHANGED <<listHead, nextOf, refs>> /\ s.pc = "next" /\ UserOK(s)
      /\ s.head \in Nodes /\ nextOf[s.head] \in Nodes \cup {NoNode}
  BY DEF LoadNext, Is, FInv, UserOK
<1>2. user' = [user EXCEPT ![u] = w]
  BY Zenon DEF LoadNext, SetUser
<1>3. IsUser(s)
  BY <1>1 DEF UserOK
<1>4. Has(w, "pop", s.owns, s.head, nextOf[s.head], s.node)
  BY <1>3, Zenon DEF Has, IsUser
<1> HIDE DEF w
<1>5. Goes(u, w)
  BY <1>2 DEF Goes, FInv
<1>6. UserOK(w) /\ LinksOK(w, nextOf')
  BY <1>1, <1>4 DEF UserOK, Has, LinksOK, Early, Late
<1>7. \A m \in Nodes : Kind(w, m) = Kind(s, m) /\ (Holding(w, m) <=> Holding(s, m))
  BY <1>1, <1>4 DEF Has, Kind, Holding, Early, Late
<1>8. QED  BY <1>1, <1>5, <1>6, <1>7, ListUnchanged, QuietStep

\* The link that was read is that of the head still, because the reference
\* has kept the head from being linked anew.
LEMMA PopKeeps ==
  ASSUME FreeConstantsOK, FInv, NEW u \in Users, Pop(u)
  PROVE  FInv'
<1> DEFINE s == user[u]
<1>0. PICK n \in Nodes : n = s.head
  BY DEF Pop, Is, FInv, UserOK
<1>1. /\ UNCHANGED <<nextOf, refs>> /\ s.pc = "pop" /\ UserOK(s) /\ IsUser(s) /\ n \in Nodes
      /\ s.next = nextOf[n] /\ nextOf[n] \in Nodes \cup {NoNode}
  BY <1>0 DEF Pop, Is, FInv, UserOK, LinksOK
<1>2. CASE listHead # n
  <2> DEFINE w == [s EXCEPT !.pc = "lower", !.node = n, !.head = listHead, !.next = NoNode]
  <2>1. user' = [user EXCEPT ![u] = w] /\ UNCHANGED listHead
    BY <1>2, <1>0, Zenon DEF Pop, SetUser
  <2>2. Has(w, "lower", s.owns, listHead, NoNode, n)
    BY <1>0, <1>1, Zenon DEF Has, IsUser
  <2> HIDE DEF w
  <2>3. Goes(u, w)
    BY <2>1 DEF Goes, FInv
  <2>4. listHead \in Nodes \cup {NoNode}
    BY DEF FInv
  <2>5. UserOK(w) /\ LinksOK(w, nextOf')
    BY <1>1, <2>2, <2>4 DEF UserOK, Has, LinksOK, Early, Late
  <2>6. \A m \in Nodes : Kind(w, m) = Kind(s, m) /\ (Holding(w, m) <=> Holding(s, m))
    BY <1>0, <1>1, <2>2 DEF Has, Kind, Holding, Early, Late
  <2>7. QED  BY <1>1, <2>1, <2>3, <2>5, <2>6, ListUnchanged, QuietStep
<1>3. CASE listHead = n
  <2> DEFINE w == [s EXCEPT !.pc = "got", !.next = NoNode]
  <2>1. user' = [user EXCEPT ![u] = w] /\ listHead' = s.next
    BY <1>3, <1>0, Zenon DEF Pop, SetUser
  <2>2. Has(w, "got", s.owns, n, NoNode, s.node)
    BY <1>0, <1>1, Zenon DEF Has, IsUser
  <2> HIDE DEF w
  <2>3. Goes(u, w)
    BY <2>1 DEF Goes, FInv
  <2>4. n \in OnList /\ OnList' = OnList \ {n} /\ HasList(listHead', nextOf')
    BY <1>1, <1>3, <2>1, PopList DEF FInv, FreeConstantsOK
  <2>5. Listed(n)
    BY <1>1, <2>4 DEF FInv, NodeOK, Claimed, Pending
  <2>6. \A v \in Users : Kind(user[v], n) = "none"
    BY <2>5 DEF Listed, Unclaimed
  <2>7. n \notin s.owns
    BY <2>6 DEF Kind
  <2>8. UserOK(w) /\ LinksOK(w, nextOf')
    BY <1>1, <2>2, <2>7 DEF UserOK, Has, LinksOK, Early, Late
  <2>9. /\ \A m \in Nodes \ {n} : Kind(w, m) = Kind(s, m)
        /\ \A m \in Nodes : Holding(w, m) <=> Holding(s, m)
        /\ Kind(w, n) = "got" /\ Holding(w, n)
    BY <1>0, <1>1, <2>2, <2>7 DEF Has, Kind, Holding, Early, Late
  <2>10. \A m \in Nodes \ {n} : Same(u, w, m)
    BY <1>1, <2>4, <2>9 DEF Same
  <2>11. RefsAs(n, "got")'
    <3>1. Cardinality(Holders(n)') = Cardinality(Holders(n))
      BY <1>1, <2>3, <2>9, OneUser
    <3>2. Refs(n, 1, FALSE)'
      BY <1>1, <2>5, <3>1 DEF Listed, Refs
    <3>3. QED  BY <3>2, Zenon DEF RefsAs
  <2>12. NodeOK(n)'
    BY <1>1, <2>3, <2>4, <2>6, <2>9, <2>11, BecomesClaimed
  <2>13. DOMAIN refs' = Nodes /\ nextOf' \in [Nodes -> Nodes \cup {NoNode}] /\ listHead' \in Nodes \cup {NoNode}
    BY <1>1, <2>1 DEF FInv
  <2>14. \A v \in Users \ {u} : LinksOK(user[v], nextOf')
    BY <1>1 DEF FInv
  <2>15. QED  BY <1>1, <2>3, <2>4, <2>8, <2>10, <2>12, <2>13, <2>14, Assemble
<1>4. QED  BY <1>2, <1>3

LEMMA GotKeeps ==
  ASSUME FreeConstantsOK, FInv, NEW u \in Users, Got(u)
  PROVE  FInv'
<1> DEFINE s == user[u]
<1>0. PICK n \in Nodes : n = s.head
  BY DEF Got, Is, FInv, UserOK
<1> DEFINE w == IdleUser(s.owns \cup {n})
<1>1. /\ UNCHANGED <<listHead, nextOf>> /\ s.pc = "got" /\ UserOK(s) /\ n \in Nodes
      /\ n \notin s.owns /\ s.owns \cup {n} \in SUBSET Nodes
  BY <1>0 DEF Got, Is, FInv, UserOK
<1>2. /\ user' = [user EXCEPT ![u] = w]
      /\ refs' = [refs EXCEPT ![n] = [count |-> @.count - 2, should |-> @.should]]
  BY <1>0, Zenon DEF Got, SetUser
<1>3. Resting(w, s.owns \cup {n})
  BY IdleRests
<1> HIDE DEF w
<1>4. Goes(u, w)
  BY <1>2 DEF Goes, FInv
<1>5. /\ UserOK(w) /\ LinksOK(w, nextOf')
      /\ \A m \in Nodes : Kind(w, m) = (IF m \in s.owns \cup {n} THEN "owns" ELSE "none") /\ ~Holding(w, m)
  BY <1>1, <1>3, RestingOK
<1>6. /\ \A m \in Nodes \ {n} : Kind(s, m) = (IF m \in s.owns THEN "owns" ELSE "none") /\ ~Holding(s, m)
      /\ Kind(s, n) = "got" /\ Holding(s, n)
  BY <1>0, <1>1 DEF Kind, Holding, Early, Late
<1>7. /\ DOMAIN refs' = Nodes /\ \A m \in Nodes \ {n} : refs'[m] = refs[m]
      /\ refs'[n] = [count |-> refs[n].count - 2, should |-> refs[n].should]
  BY <1>1, <1>2 DEF FInv
<1>8. \A m \in Nodes \ {n} : Same(u, w, m)
  BY <1>1, <1>5, <1>6, <1>7, ListUnchanged DEF Same
<1>9. NodeOK(n)'
  <2>1. n \notin OnList /\ (\A v \in Users \ {u} : Kind(user[v], n) = "none") /\ RefsAs(n, "got")
    <3>1. NodeOK(n)  BY <1>1 DEF FInv
    <3>2. QED  BY <1>1, <1>6, <3>1, ClaimedBy
  <2>2. refs[n] = [count |-> 1 + Cardinality(Holders(n)), should |-> FALSE]
    BY <2>1 DEF RefsAs, Refs
  <2>3. Cardinality(Holders(n)') = Cardinality(Holders(n)) - 1 /\ Cardinality(Holders(n)) \in Nat
    BY <1>1, <1>4, <1>5, <1>6, OneUser
  <2>4. refs'[n] = [count |-> 0 + Cardinality(Holders(n)'), should |-> FALSE]
    <3>1. refs[n].count - 2 = 0 + Cardinality(Holders(n)') /\ refs[n].should = FALSE
      BY <2>2, <2>3
    <3>2. QED  BY <1>7, <3>1
  <2>5. RefsAs(n, "owns")'
    BY <2>4, Zenon DEF RefsAs, Refs
  <2>6. Kind(w, n) = "owns"
    BY <1>1, <1>5
  <2>7. QED  BY <1>1, <1>4, <2>1, <2>5, <2>6, ListUnchanged, BecomesClaimed
<1>10. QED  BY <1>1, <1>4, <1>5, <1>7, <1>8, <1>9, ListUnchanged, Assemble

LEMMA LowerRefsKeeps ==
  ASSUME FreeConstantsOK, FInv, NEW u \in Users, LowerRefs(u)
  PROVE  FInv'
<1> DEFINE s == user[u]
<1>0. PICK n \in Nodes : n = s.node
  BY DEF LowerRefs, Is, FInv, UserOK
<1>1. /\ UNCHANGED <<listHead, nextOf>> /\ s.pc = "lower" /\ UserOK(s) /\ IsUser(s)
      /\ s.head \in Nodes \cup {NoNode} /\ s.owns \in SUBSET Nodes /\ NodeOK(n)
  BY DEF LowerRefs, Is, FInv, UserOK
<1>2. refs' = [refs EXCEPT ![n] = [count |-> @.count - 1, should |-> @.should]]
  BY <1>0, Zenon DEF LowerRefs
<1>3. /\ DOMAIN refs' = Nodes /\ \A m \in Nodes \ {n} : refs'[m] = refs[m]
      /\ refs'[n] = [count |-> refs[n].count - 1, should |-> refs[n].should]
  BY <1>2 DEF FInv
<1>4. \A m \in Nodes : /\ Kind(s, m) = IF m \in s.owns THEN "owns" ELSE "none"
                       /\ Holding(s, m) <=> m = n
  BY <1>0, <1>1 DEF Kind, Holding, Early, Late
<1>5. CASE refs[n] = [count |-> 1, should |-> TRUE]
  <2> DEFINE w == [s EXCEPT !.pc = "peek", !.then = "turn"]
  <2>1. user' = [user EXCEPT ![u] = w]
    BY <1>0, <1>5, Zenon DEF LowerRefs, SetUser
  <2>2. Has(w, "peek", s.owns, s.head, s.next, n)
    BY <1>0, <1>1, Zenon DEF Has, IsUser
  <2> HIDE DEF w
  <2>3. Goes(u, w)
    BY <2>1 DEF Goes, FInv
  <2>4. Cardinality(Holders(n)) \in Nat /\ (Cardinality(Holders(n)) = 0 <=> Holders(n) = {})
    BY <2>3, OneUser
  <2>5. Pending(n)
    <3>1. refs[n].count = 1 /\ refs[n].should = TRUE
      BY <1>5
    <3>2. ~Refs(n, 1, FALSE) /\ ~Refs(n, 0, FALSE)
      BY <3>1 DEF Refs
    <3>3. ~(Refs(n, 0, TRUE) /\ Holders(n) = {})
      BY <2>4, <3>1 DEF Refs
    <3>4. ~Listed(n)
      BY <3>2 DEF Listed
    <3>5. ~Claimed(n)
      BY <3>2, <3>3 DEF Claimed, RefsAs
    <3>6. QED  BY <1>1, <3>4, <3>5 DEF NodeOK
  <2>6. /\ Cardinality(Holders(n)) = 1 /\ n \notin OnList
        /\ \A v \in Users : Kind(user[v], n) = "none"
    <3>1. refs[n].count = 0 + Cardinality(Holders(n))
      BY <2>5 DEF Pending, Refs
    <3>2. refs[n].count = 1
      BY <1>5
    <3>3. QED  BY <2>4, <2>5, <3>1, <3>2 DEF Pending, Unclaimed
  <2>7. n \notin s.owns
    BY <2>6 DEF Kind
  <2>8. UserOK(w) /\ LinksOK(w, nextOf')
    BY <1>1, <2>2, <2>7 DEF UserOK, Has, LinksOK, Early, Late
  <2>9. /\ \A m \in Nodes \ {n} : Kind(w, m) = Kind(s, m)
        /\ \A m \in Nodes : ~Holding(w, m)
        /\ Kind(w, n) = "early"
    BY <1>1, <2>2, <2>7 DEF Has, Kind, Holding, Early, Late
  <2>10. \A m \in Nodes \ {n} : Same(u, w, m)
    BY <1>1, <1>3, <1>4, <2>9, ListUnchanged DEF Same
  <2>11. RefsAs(n, "early")'
    <3>1. Cardinality(Holders(n)') = 0 /\ Holders(n)' = {}
      BY <1>4, <2>3, <2>6, <2>9, OneUser
    <3>2. refs'[n] = [count |-> 0 + Cardinality(Holders(n)'), should |-> TRUE]
      BY <1>3, <1>5, <3>1
    <3>3. QED  BY <3>1, <3>2, Zenon DEF RefsAs, Refs
  <2>12. NodeOK(n)'
    BY <1>1, <2>3, <2>6, <2>9, <2>11, ListUnchanged, BecomesClaimed
  <2>13. QED  BY <1>1, <1>3, <2>3, <2>8, <2>10, <2>12, ListUnchanged, Assemble
<1>6. CASE refs[n] # [count |-> 1, should |-> TRUE]
  <2> DEFINE w == Turn(s, s.head)
  <2>1. user' = [user EXCEPT ![u] = w]
    BY <1>0, <1>6, Zenon DEF LowerRefs, SetUser
  <2>2. Resting(w, s.owns)
    BY <1>1, TurnRests
  <2> HIDE DEF w
  <2>3. Goes(u, w)
    BY <2>1 DEF Goes, FInv
  <2>4. /\ UserOK(w) /\ LinksOK(w, nextOf')
        /\ \A m \in Nodes : Kind(w, m) = (IF m \in s.owns THEN "owns" ELSE "none") /\ ~Holding(w, m)
    BY <1>1, <2>2, RestingOK
  <2>5. \A m \in Nodes \ {n} : Same(u, w, m)
    BY <1>1, <1>3, <1>4, <2>4, ListUnchanged DEF Same
  <2>6. /\ Cardinality(Holders(n)') = Cardinality(Holders(n)) + (-1) /\ Holders(n) # {}
        /\ Cardinality(Holders(n)) \in Nat /\ (Cardinality(Holders(n)') = 0 <=> Holders(n)' = {})
    BY <1>4, <2>3, <2>4, OneUser
  <2>7. Pending(n) => Holders(n)' # {}
    <3> SUFFICES ASSUME Pending(n), Holders(n)' = {} PROVE FALSE
      OBVIOUS
    <3>1. Cardinality(Holders(n)) = 1
      BY <2>6
    <3>2. refs[n] = [count |-> 0 + Cardinality(Holders(n)), should |-> TRUE]
      BY DEF Pending, Refs
    <3>3. QED  BY <1>6, <3>1, <3>2
  <2>8. Kind(w, n) = Kind(s, n) /\ OnList' = OnList
    BY <1>1, <1>4, <2>4, ListUnchanged
  <2>9. refs'[n] = [count |-> refs[n].count + (-1), should |-> refs[n].should]
    BY <1>3
  <2>10. NodeOK(n)'
    BY <1>1, <2>3, <2>6, <2>7, <2>8, <2>9, Shifted
  <2>11. QED  BY <1>1, <1>3, <2>3, <2>4, <2>5, <2>10, ListUnchanged, Assemble
<1>7. QED  BY <1>5, <1>6

-----------------------------------------------------------------------------
(* add *)

LEMMA AddKeeps ==
  ASSUME FreeConstantsOK, FInv, NEW u \in Users, Add(u)
  PROVE  FInv'
<1> DEFINE s == user[u]
           o(n) == s.owns \ {n}
           w(n) == IF refs[n].count = 0 THEN [IdleUser(o(n)) EXCEPT !.pc = "peek", !.node = n]
                   ELSE IdleUser(o(n))
<1>0. PICK n \in s.owns :
         /\ refs' = [refs EXCEPT ![n] = [count |-> @.count, should |-> TRUE]]
         /\ user' = [user EXCEPT ![u] = w(n)]
  BY Zenon DEF Add, SetUser
<1>1. /\ UNCHANGED <<listHead, nextOf>> /\ s.pc = "idle" /\ UserOK(s)
      /\ n \in Nodes /\ o(n) \in SUBSET Nodes /\ NodeOK(n)
  BY DEF Add, Is, FInv, UserOK
<1>2. /\ DOMAIN refs' = Nodes /\ \A m \in Nodes \ {n} : refs'[m] = refs[m]
      /\ refs'[n] = [count |-> refs[n].count, should |-> TRUE]
  BY <1>0, <1>1 DEF FInv
<1>3. \A m \in Nodes : /\ Kind(s, m) = IF m \in s.owns THEN "owns" ELSE "none"
                       /\ ~Holding(s, m)
  BY <1>1 DEF Kind, Holding, Early, Late
<1>4. /\ n \notin OnList /\ (\A v \in Users \ {u} : Kind(user[v], n) = "none")
      /\ RefsAs(n, "owns")
  BY <1>1, <1>3, ClaimedBy
<1>5. refs[n].count = Cardinality(Holders(n))
  <2>1. Refs(n, 0, FALSE)
    BY <1>4 DEF RefsAs
  <2>2. refs[n].count = 0 + Cardinality(Holders(n))
    BY <2>1 DEF Refs
  <2>3. IsFiniteSet(Holders(n))
    <3>1. Holders(n) \in SUBSET Users  BY DEF Holders
    <3>2. QED  BY <3>1, FS_Subset DEF FreeConstantsOK
  <2>4. Cardinality(Holders(n)) \in Nat
    BY <2>3, FS_CardinalityType
  <2>5. QED  BY <2>2, <2>4
<1>6. CASE refs[n].count = 0
  <2> DEFINE x == [IdleUser(o(n)) EXCEPT !.pc = "peek", !.node = n]
  <2>1. user' = [user EXCEPT ![u] = x]
    BY <1>0, <1>6, Zenon
  <2>2. Has(x, "peek", o(n), NoNode, NoNode, n)
    BY IdleFields, Zenon
  <2> HIDE DEF x
  <2>3. Goes(u, x)
    BY <2>1 DEF Goes, FInv
  <2>4. UserOK(x) /\ LinksOK(x, nextOf')
    BY <1>1, <2>2 DEF UserOK, Has, LinksOK, Early, Late
  <2>5. /\ \A m \in Nodes \ {n} : Kind(x, m) = Kind(s, m)
        /\ \A m \in Nodes : ~Holding(x, m)
        /\ Kind(x, n) = "early"
    BY <1>1, <2>2 DEF Has, Kind, Holding, Early, Late
  <2>6. \A m \in Nodes \ {n} : Same(u, x, m)
    BY <1>1, <1>2, <1>3, <2>5, ListUnchanged DEF Same
  <2>7. RefsAs(n, "early")'
    <3>1. Cardinality(Holders(n)') = 0 /\ Holders(n)' = {}
      BY <1>1, <1>3, <1>5, <1>6, <2>3, <2>5, OneUser
    <3>2. refs'[n] = [count |-> 0 + Cardinality(Holders(n)'), should |-> TRUE]
      BY <1>2, <1>6, <3>1
    <3>3. QED  BY <3>1, <3>2, Zenon DEF RefsAs, Refs
  <2>8. NodeOK(n)'
    BY <1>1, <1>4, <2>3, <2>5, <2>7, ListUnchanged, BecomesClaimed
  <2>9. QED  BY <1>1, <1>2, <2>3, <2>4, <2>6, <2>8, ListUnchanged, Assemble
<1>7. CASE refs[n].count # 0
  <2> DEFINE x == IdleUser(o(n))
  <2>1. user' = [user EXCEPT ![u] = x]
    BY <1>0, <1>7, Zenon
  <2>2. Resting(x, o(n))
    BY IdleRests
  <2> HIDE DEF x
  <2>3. Goes(u, x)
    BY <2>1 DEF Goes, FInv
  <2>4. /\ UserOK(x) /\ LinksOK(x, nextOf')
        /\ \A m \in Nodes : Kind(x, m) = (IF m \in o(n) THEN "owns" ELSE "none") /\ ~Holding(x, m)
    BY <1>1, <2>2, RestingOK
  <2>5. \A m \in Nodes \ {n} : Same(u, x, m)
    BY <1>1, <1>2, <1>3, <2>4, ListUnchanged DEF Same
  <2>6. Kind(x, n) = "none"
    BY <1>1, <2>4
  <2>7. Refs(n, 0, TRUE)' /\ Holders(n)' # {}
    <3>1. Cardinality(Holders(n)') = Cardinality(Holders(n)) /\ Cardinality(Holders(n)) \in Nat
      BY <1>1, <1>3, <2>3, <2>4, OneUser
    <3>2. refs'[n] = [count |-> 0 + Cardinality(Holders(n)'), should |-> TRUE]
      <4>1. refs[n].count = 0 + Cardinality(Holders(n)')
        BY <1>5, <3>1
      <4>2. QED  BY <1>2, <4>1, Zenon
    <3>3. Holders(n)' # {}
      BY <1>1, <1>5, <1>7, <2>3, <3>1, OneUser
    <3>4. QED  BY <3>2, <3>3, Zenon DEF Refs
  <2>8. NodeOK(n)'
    BY <1>1, <1>4, <2>3, <2>6, <2>7, ListUnchanged, BecomesFree
  <2>9. QED  BY <1>1, <1>2, <2>3, <2>4, <2>5, <2>8, ListUnchanged, Assemble
<1>8. QED  BY <1>6, <1>7

LEMMA PeekKeeps ==
  ASSUME FreeConstantsOK, FInv, NEW u \in Users, Peek(u)
  PROVE  FInv'
<1> DEFINE s == user[u]
           w == [s EXCEPT !.pc = "link", !.next = listHead]
<1>1. /\ UNCHANGED <<listHead, nextOf, refs>> /\ s.pc = "peek" /\ UserOK(s) /\ IsUser(s)
      /\ listHead \in Nodes \cup {NoNode}
  BY DEF Peek, Is, FInv, UserOK
<1>2. user' = [user EXCEPT ![u] = w]
  BY Zenon DEF Peek, SetUser
<1>3. Has(w, "link", s.owns, s.head, listHead, s.node)
  BY <1>1, Zenon DEF Has, IsUser
<1> HIDE DEF w
<1>4. Goes(u, w)
  BY <1>2 DEF Goes, FInv
<1>5. UserOK(w) /\ LinksOK(w, nextOf')
  BY <1>1, <1>3 DEF UserOK, Has, LinksOK, Early, Late
<1>6. \A m \in Nodes : Kind(w, m) = Kind(s, m) /\ (Holding(w, m) <=> Holding(s, m))
  BY <1>1, <1>3 DEF Has, Kind, Holding, Early, Late
<1>7. QED  BY <1>1, <1>4, <1>5, <1>6, ListUnchanged, QuietStep

\* Nobody refers to the node whose link is written, so nobody has read it.
LEMMA LinkNodeKeeps ==
  ASSUME FreeConstantsOK, FInv, NEW u \in Users, LinkNode(u)
  PROVE  FInv'
<1> DEFINE s == user[u]
           w == [s EXCEPT !.pc = "one"]
<1>0. PICK n \in Nodes : n = s.node
  BY DEF LinkNode, Is, FInv, UserOK, Early
<1>1. /\ UNCHANGED <<listHead, refs>> /\ s.pc = "link" /\ UserOK(s) /\ IsUser(s)
      /\ s.next \in Nodes \cup {NoNode} /\ n \notin s.owns /\ NodeOK(n)
  BY <1>0 DEF LinkNode, Is, FInv, UserOK, Early
<1>2. user' = [user EXCEPT ![u] = w]
  BY Zenon DEF LinkNode, SetUser
<1>3. nextOf' = [nextOf EXCEPT ![n] = s.next]
  BY <1>0, Zenon DEF LinkNode
<1>4. Has(w, "one", s.owns, s.head, s.next, n)
  BY <1>0, <1>1, Zenon DEF Has, IsUser
<1> HIDE DEF w
<1>5. Goes(u, w)
  BY <1>2 DEF Goes, FInv
<1>6. /\ nextOf' \in [Nodes -> Nodes \cup {NoNode}] /\ nextOf'[n] = s.next
      /\ \A m \in Nodes : m # n => nextOf'[m] = nextOf[m]
  BY <1>1, <1>3 DEF FInv
<1>7. UserOK(w) /\ LinksOK(w, nextOf')
  BY <1>0, <1>1, <1>4, <1>6 DEF UserOK, Has, LinksOK, Early, Late
<1>8. \A m \in Nodes : Kind(w, m) = Kind(s, m) /\ (Holding(w, m) <=> Holding(s, m))
  BY <1>0, <1>1, <1>4 DEF Has, Kind, Holding, Early, Late
<1>9. Kind(s, n) = "early"
  BY <1>0, <1>1 DEF Kind, Early
<1>10. /\ n \notin OnList /\ (\A v \in Users \ {u} : Kind(user[v], n) = "none")
       /\ Holders(n) = {}
  <2>1. RefsAs(n, "early") /\ n \notin OnList /\ \A v \in Users \ {u} : Kind(user[v], n) = "none"
    BY <1>1, <1>9, ClaimedBy
  <2>2. QED  BY <2>1 DEF RefsAs
<1>11. ASSUME NEW v \in Users \ {u} PROVE LinksOK(user[v], nextOf')
  <2>1. UserOK(user[v]) /\ LinksOK(user[v], nextOf)
    BY DEF FInv
  <2>2. ~Holding(user[v], n) /\ Kind(user[v], n) = "none"
    BY <1>10 DEF Holders
  <2>3. user[v].pc = "pop" => user[v].head \in Nodes /\ user[v].head # n
    BY <2>1, <2>2 DEF Holding, UserOK
  <2>4. user[v].pc \in {"one", "push"} => user[v].node \in Nodes /\ user[v].node # n
    BY <2>1, <2>2 DEF Kind, UserOK, Early, Late
  <2>5. QED  BY <1>6, <2>1, <2>3, <2>4 DEF LinksOK
<1>12. OnList' = OnList /\ HasList(listHead', nextOf')
  BY <1>1, <1>6, <1>10, LinkList DEF FInv
<1>13. QED  BY <1>1, <1>5, <1>6, <1>7, <1>8, <1>11, <1>12, QuietStep

LEMMA StoreOneKeeps ==
  ASSUME FreeConstantsOK, FInv, NEW u \in Users, StoreOne(u)
  PROVE  FInv'
<1> DEFINE s == user[u]
           w == [s EXCEPT !.pc = "push"]
<1>0. PICK n \in Nodes : n = s.node
  BY DEF StoreOne, Is, FInv, UserOK, Early
<1>1. /\ UNCHANGED <<listHead, nextOf>> /\ s.pc = "one" /\ UserOK(s) /\ IsUser(s)
      /\ LinksOK(s, nextOf) /\ n \notin s.owns /\ NodeOK(n)
  BY <1>0 DEF StoreOne, Is, FInv, UserOK, Early
<1>2. /\ user' = [user EXCEPT ![u] = w]
      /\ refs' = [refs EXCEPT ![n] = [count |-> 1, should |-> FALSE]]
  BY <1>0, Zenon DEF StoreOne, SetUser
<1>3. Has(w, "push", s.owns, s.head, s.next, n)
  BY <1>0, <1>1, Zenon DEF Has, IsUser
<1> HIDE DEF w
<1>4. Goes(u, w)
  BY <1>2 DEF Goes, FInv
<1>5. UserOK(w) /\ LinksOK(w, nextOf')
  BY <1>0, <1>1, <1>3 DEF UserOK, Has, LinksOK, Early, Late
<1>6. /\ \A m \in Nodes \ {n} : Kind(w, m) = Kind(s, m)
      /\ \A m \in Nodes : ~Holding(w, m) /\ ~Holding(s, m)
      /\ Kind(w, n) = "late" /\ Kind(s, n) = "early"
  BY <1>0, <1>1, <1>3 DEF Has, Kind, Holding, Early, Late
<1>7. /\ DOMAIN refs' = Nodes /\ \A m \in Nodes \ {n} : refs'[m] = refs[m]
      /\ refs'[n] = [count |-> 1, should |-> FALSE]
  BY <1>2 DEF FInv
<1>8. \A m \in Nodes \ {n} : Same(u, w, m)
  BY <1>1, <1>6, <1>7, ListUnchanged DEF Same
<1>9. NodeOK(n)'
  <2>1. n \notin OnList /\ (\A v \in Users \ {u} : Kind(user[v], n) = "none") /\ RefsAs(n, "early")
    BY <1>1, <1>6, ClaimedBy
  <2>2. Cardinality(Holders(n)') = 0
    <3>1. Holders(n) = {}
      BY <2>1 DEF RefsAs
    <3>2. QED  BY <1>4, <1>6, <3>1, OneUser
  <2>3. refs'[n] = [count |-> 1 + Cardinality(Holders(n)'), should |-> FALSE]
    <3>1. 1 + Cardinality(Holders(n)') = 1
      BY <2>2
    <3>2. QED  BY <1>7, <3>1, Zenon
  <2>4. RefsAs(n, "late")'
    BY <2>3, Zenon DEF RefsAs, Refs
  <2>5. QED  BY <1>1, <1>4, <1>6, <2>1, <2>4, ListUnchanged, BecomesClaimed
<1>10. QED  BY <1>1, <1>4, <1>5, <1>7, <1>8, <1>9, ListUnchanged, Assemble

LEMMA PushKeeps ==
  ASSUME FreeConstantsOK, FInv, NEW u \in Users, Push(u)
  PROVE  FInv'
<1> DEFINE s == user[u]
<1>0. PICK n \in Nodes : n = s.node
  BY DEF Push, Is, FInv, UserOK, Late
<1>1. /\ UNCHANGED <<nextOf, refs>> /\ s.pc = "push" /\ UserOK(s) /\ IsUser(s)
      /\ nextOf[n] = s.next /\ n \notin s.owns /\ NodeOK(n) /\ listHead \in Nodes \cup {NoNode}
      /\ s.head \in Nodes \cup {NoNode} /\ s.owns \in SUBSET Nodes
  BY <1>0 DEF Push, Is, FInv, UserOK, LinksOK, Late
<1>2. CASE listHead # s.next
  <2> DEFINE w == [s EXCEPT !.pc = "mark", !.next = listHead]
  <2>1. user' = [user EXCEPT ![u] = w] /\ UNCHANGED listHead
    BY <1>2, Zenon DEF Push, SetUser
  <2>2. Has(w, "mark", s.owns, s.head, listHead, s.node)
    BY <1>1, Zenon DEF Has, IsUser
  <2> HIDE DEF w
  <2>3. Goes(u, w)
    BY <2>1 DEF Goes, FInv
  <2>4. UserOK(w) /\ LinksOK(w, nextOf')
    BY <1>1, <2>2 DEF UserOK, Has, LinksOK, Early, Late
  <2>5. \A m \in Nodes : Kind(w, m) = Kind(s, m) /\ (Holding(w, m) <=> Holding(s, m))
    BY <1>1, <2>2 DEF Has, Kind, Holding, Early, Late
  <2>6. QED  BY <1>1, <2>1, <2>3, <2>4, <2>5, ListUnchanged, QuietStep
<1>3. CASE listHead = s.next
  <2> DEFINE w == Back(s)
  <2>1. user' = [user EXCEPT ![u] = w] /\ listHead' = n
    BY <1>0, <1>3, Zenon DEF Push, SetUser
  <2>2. Resting(w, s.owns)
    BY <1>1, BackRests
  <2> HIDE DEF w
  <2>3. Goes(u, w)
    BY <2>1 DEF Goes, FInv
  <2>4. /\ UserOK(w) /\ LinksOK(w, nextOf')
        /\ \A m \in Nodes : Kind(w, m) = (IF m \in s.owns THEN "owns" ELSE "none") /\ ~Holding(w, m)
    BY <1>1, <2>2, RestingOK
  <2>5. /\ \A m \in Nodes \ {n} : Kind(s, m) = IF m \in s.owns THEN "owns" ELSE "none"
        /\ \A m \in Nodes : ~Holding(s, m)
        /\ Kind(s, n) = "late"
    BY <1>0, <1>1 DEF Kind, Holding, Early, Late
  <2>6. n \notin OnList /\ (\A v \in Users \ {u} : Kind(user[v], n) = "none") /\ RefsAs(n, "late")
    BY <1>1, <2>5, ClaimedBy
  <2>7. OnList' = OnList \cup {n} /\ HasList(listHead', nextOf')
    BY <1>1, <1>3, <2>1, <2>6, PushList DEF FInv
  <2>8. \A m \in Nodes \ {n} : Same(u, w, m)
    BY <1>1, <2>4, <2>5, <2>7 DEF Same
  <2>9. Refs(n, 1, FALSE)'
    <3>1. Cardinality(Holders(n)') = Cardinality(Holders(n))
      BY <2>3, <2>4, <2>5, OneUser
    <3>2. Refs(n, 1, FALSE)
      BY <2>6 DEF RefsAs
    <3>3. QED  BY <1>1, <3>1, <3>2, Zenon DEF Refs
  <2>10. NodeOK(n)'
    <3>1. Kind(w, n) = "none"  BY <1>1, <2>4
    <3>2. n \in OnList'  BY <2>7
    <3>3. QED  BY <2>3, <2>6, <2>9, <3>1, <3>2, BecomesFree
  <2>11. /\ DOMAIN refs' = Nodes /\ nextOf' \in [Nodes -> Nodes \cup {NoNode}]
         /\ listHead' \in Nodes \cup {NoNode} /\ \A v \in Users \ {u} : LinksOK(user[v], nextOf')
    BY <1>1, <2>1 DEF FInv
  <2>12. QED  BY <2>3, <2>4, <2>7, <2>8, <2>10, <2>11, Assemble
<1>4. QED  BY <1>2, <1>3

LEMMA MarkKeeps ==
  ASSUME FreeConstantsOK, FInv, NEW u \in Users, Mark(u)
  PROVE  FInv'
<1> DEFINE s == user[u]
<1>0. PICK n \in Nodes : n = s.node
  BY DEF Mark, Is, FInv, UserOK, Late
<1>1. /\ UNCHANGED <<listHead, nextOf>> /\ s.pc = "mark" /\ UserOK(s) /\ IsUser(s)
      /\ n \notin s.owns /\ NodeOK(n) /\ s.head \in Nodes \cup {NoNode} /\ s.owns \in SUBSET Nodes
  BY <1>0 DEF Mark, Is, FInv, UserOK, Late
<1>2. refs' = [refs EXCEPT ![n] = [count |-> @.count - 1, should |-> TRUE]]
  BY <1>0, Zenon DEF Mark
<1>3. /\ DOMAIN refs' = Nodes /\ \A m \in Nodes \ {n} : refs'[m] = refs[m]
      /\ refs'[n] = [count |-> refs[n].count - 1, should |-> TRUE]
  BY <1>2 DEF FInv
<1>4. /\ \A m \in Nodes \ {n} : Kind(s, m) = IF m \in s.owns THEN "owns" ELSE "none"
      /\ \A m \in Nodes : ~Holding(s, m)
      /\ Kind(s, n) = "late"
  BY <1>0, <1>1 DEF Kind, Holding, Early, Late
<1>5. /\ n \notin OnList /\ (\A v \in Users \ {u} : Kind(user[v], n) = "none")
      /\ refs[n] = [count |-> 1 + Cardinality(Holders(n)), should |-> FALSE]
  <2>1. n \notin OnList /\ (\A v \in Users \ {u} : Kind(user[v], n) = "none") /\ RefsAs(n, "late")
    BY <1>1, <1>4, ClaimedBy
  <2>2. QED  BY <2>1 DEF RefsAs, Refs
<1>6. CASE refs[n] = [count |-> 1, should |-> FALSE]
  <2> DEFINE w == [s EXCEPT !.pc = "link"]
  <2>1. user' = [user EXCEPT ![u] = w]
    BY <1>0, <1>6, Zenon DEF Mark, SetUser
  <2>2. Has(w, "link", s.owns, s.head, s.next, n)
    BY <1>0, <1>1, Zenon DEF Has, IsUser
  <2> HIDE DEF w
  <2>3. Goes(u, w)
    BY <2>1 DEF Goes, FInv
  <2>4. UserOK(w) /\ LinksOK(w, nextOf')
    BY <1>0, <1>1, <2>2 DEF UserOK, Has, LinksOK, Early, Late
  <2>5. /\ \A m \in Nodes \ {n} : Kind(w, m) = Kind(s, m)
        /\ \A m \in Nodes : ~Holding(w, m)
        /\ Kind(w, n) = "early"
    BY <1>0, <1>1, <2>2 DEF Has, Kind, Holding, Early, Late
  <2>6. \A m \in Nodes \ {n} : Same(u, w, m)
    BY <1>1, <1>3, <1>4, <2>5, ListUnchanged DEF Same
  <2>7. RefsAs(n, "early")'
    <3>1. Cardinality(Holders(n)) \in Nat
      BY <2>3, OneUser
    <3>2. Cardinality(Holders(n)) = 0
      BY <1>5, <1>6, <3>1
    <3>3. Cardinality(Holders(n)') = 0 /\ Holders(n)' = {}
      BY <1>4, <2>3, <2>5, <3>2, OneUser
    <3>4. refs[n].count - 1 = 0 + Cardinality(Holders(n)')
      BY <1>6, <3>3
    <3>5. QED  BY <1>3, <3>3, <3>4, Zenon DEF RefsAs, Refs
  <2>8. NodeOK(n)'
    BY <1>1, <1>5, <2>3, <2>5, <2>7, ListUnchanged, BecomesClaimed
  <2>9. QED  BY <1>1, <1>3, <2>3, <2>4, <2>6, <2>8, ListUnchanged, Assemble
<1>7. CASE refs[n] # [count |-> 1, should |-> FALSE]
  <2> DEFINE w == Back(s)
  <2>1. user' = [user EXCEPT ![u] = w]
    BY <1>0, <1>7, Zenon DEF Mark, SetUser
  <2>2. Resting(w, s.owns)
    BY <1>1, BackRests
  <2> HIDE DEF w
  <2>3. Goes(u, w)
    BY <2>1 DEF Goes, FInv
  <2>4. /\ UserOK(w) /\ LinksOK(w, nextOf')
        /\ \A m \in Nodes : Kind(w, m) = (IF m \in s.owns THEN "owns" ELSE "none") /\ ~Holding(w, m)
    BY <1>1, <2>2, RestingOK
  <2>5. \A m \in Nodes \ {n} : Same(u, w, m)
    BY <1>1, <1>3, <1>4, <2>4, ListUnchanged DEF Same
  <2>6. Kind(w, n) = "none"
    BY <1>1, <2>4
  <2>7. Refs(n, 0, TRUE)' /\ Holders(n)' # {}
    <3>1. Cardinality(Holders(n)') = Cardinality(Holders(n)) /\ Cardinality(Holders(n)) \in Nat
      BY <1>4, <2>3, <2>4, OneUser
    <3>2. Cardinality(Holders(n)) # 0
      <4> SUFFICES ASSUME Cardinality(Holders(n)) = 0 PROVE FALSE  OBVIOUS
      <4>1. 1 + Cardinality(Holders(n)) = 1  OBVIOUS
      <4>2. QED  BY <1>5, <1>7, <4>1, Zenon
    <3>3. refs[n].count - 1 = 0 + Cardinality(Holders(n)')
      BY <1>5, <3>1
    <3>4. Holders(n)' # {}
      BY <2>3, <3>1, <3>2, OneUser
    <3>5. QED  BY <1>3, <3>3, <3>4, Zenon DEF Refs
  <2>8. NodeOK(n)'
    BY <1>1, <1>5, <2>3, <2>6, <2>7, ListUnchanged, BecomesFree
  <2>9. QED  BY <1>1, <1>3, <2>3, <2>4, <2>5, <2>8, ListUnchanged, Assemble
<1>8. QED  BY <1>6, <1>7

-----------------------------------------------------------------------------
(* The invariant and what it implies.                                       *)

\* At first every node is with the thread that allocated it.
LEMMA FInvInit ==
  ASSUME FreeConstantsOK, FreeInit
  PROVE  FInv
<1> DEFINE first(u) == {n \in Nodes : FirstOwner[n] = u}
<1>1. /\ DOMAIN user = Users /\ DOMAIN refs = Nodes
      /\ nextOf \in [Nodes -> Nodes \cup {NoNode}] /\ listHead = NoNode
      /\ \A u \in Users : user[u] = IdleUser(first(u))
      /\ \A n \in Nodes : refs[n] = Zero
  BY Zenon DEF FreeInit
<1>2. ASSUME NEW u \in Users
      PROVE  /\ UserOK(user[u]) /\ LinksOK(user[u], nextOf)
             /\ \A n \in Nodes : /\ Kind(user[u], n) = IF FirstOwner[n] = u THEN "owns" ELSE "none"
                                 /\ ~Holding(user[u], n)
  <2>1. Resting(user[u], first(u)) /\ first(u) \in SUBSET Nodes
    BY <1>1, IdleRests
  <2>2. \A n \in Nodes : n \in first(u) <=> FirstOwner[n] = u
    OBVIOUS
  <2> HIDE DEF first
  <2>3. QED  BY <2>1, <2>2, RestingOK
<1>3. IsList(<<>>, 0, listHead, nextOf) /\ <<>> \in [1 .. 0 -> Nodes]
  BY <1>1 DEF IsList
<1>4. OnList = {} /\ HasList(listHead, nextOf)
  <2>1. 0 \in Nat /\ 1 .. 0 = {}
    OBVIOUS
  <2>2. OnList = {<<>>[p] : p \in 1 .. 0}
    BY <1>3, <2>1, OnListIsList
  <2>3. QED  BY <1>3, <2>1, <2>2 DEF HasList
<1>5. ASSUME NEW n \in Nodes PROVE NodeOK(n)
  <2> DEFINE u == FirstOwner[n]
  <2>1. u \in Users /\ n \notin OnList
    BY <1>4 DEF FreeConstantsOK
  <2>2. Kind(user[u], n) = "owns" /\ \A v \in Users \ {u} : Kind(user[v], n) = "none"
    BY <1>2, <2>1
  <2>3. Holders(n) = {}
    BY <1>2 DEF Holders
  <2>4. 0 + Cardinality(Holders(n)) = 0
    BY <2>3, FS_EmptySet
  <2>5. Refs(n, 0, FALSE)
    BY <1>1, <2>4, Zenon DEF Refs, Zero
  <2>6. RefsAs(n, Kind(user[u], n))
    BY <2>2, <2>5 DEF RefsAs
  <2> HIDE DEF u
  <2>7. Kind(user[u], n) # "none"
    BY <2>2
  <2>8. Claimed(n)
    BY <2>1, <2>2, <2>6, <2>7, Zenon DEF Claimed
  <2>9. QED  BY <2>8 DEF NodeOK
<1>6. QED  BY <1>1, <1>2, <1>4, <1>5, Zenon DEF FInv

LEMMA FInvStep ==
  ASSUME FreeConstantsOK, FInv, [FreeNext]_freeVars
  PROVE  FInv'
<1>1. CASE UNCHANGED freeVars
  <2>1. OnList' = OnList
    BY <1>1, OnListIsMet DEF freeVars
  <2>2. \A n \in Nodes : NodeOK(n)' <=> NodeOK(n)
    BY <1>1, <2>1, Zenon DEF freeVars, NodeOK, Listed, Claimed, Pending, Unclaimed, Refs, RefsAs, Holders
  <2>3. /\ listHead' = listHead /\ nextOf' = nextOf /\ refs' = refs /\ user' = user
    BY <1>1 DEF freeVars
  <2>4. QED  BY <2>2, <2>3, Zenon DEF FInv
<1>2. CASE FreeNext
  <2>1. PICK u \in Users :
           \/ LoadHead(u) \/ LoadRefs(u) \/ RaiseRefs(u) \/ LoadNext(u) \/ Pop(u) \/ Got(u)
           \/ LowerRefs(u) \/ Add(u) \/ Peek(u) \/ LinkNode(u) \/ StoreOne(u) \/ Push(u) \/ Mark(u)
    BY <1>2, Zenon DEF FreeNext
  <2>2. QED
    BY <2>1, LoadHeadKeeps, LoadRefsKeeps, RaiseRefsKeeps, LoadNextKeeps, PopKeeps, GotKeeps,
       LowerRefsKeeps, AddKeeps, PeekKeeps, LinkNodeKeeps, StoreOneKeeps, PushKeeps, MarkKeeps
<1>3. QED  BY <1>1, <1>2

LEMMA FInvImplies ==
  ASSUME FreeConstantsOK, FInv
  PROVE  FreeListIntact
<1>1. ASSUME NEW n \in Nodes
      PROVE  Cardinality(Owned(n)) <= 1 /\ (n \in OnList => Owned(n) = {})
  <2>1. NodeOK(n)
    BY DEF FInv
  <2>2. ASSUME NEW u \in Owned(n) PROVE u \in Users /\ Kind(user[u], n) # "none"
    BY DEF Owned, Is, Kind
  <2>3. CASE Owned(n) = {}
    BY <2>3, FS_EmptySet
  <2>4. CASE Owned(n) # {}
    <3>1. PICK u : u \in Owned(n)
      BY <2>4
    <3>2. n \notin OnList /\ \A v \in Users \ {u} : Kind(user[v], n) = "none"
      BY <2>1, <2>2, <3>1, ClaimedBy
    <3>3. Owned(n) = {u}
      BY <2>2, <3>1, <3>2
    <3>4. Cardinality(Owned(n)) = 1
      BY <3>3, FS_Singleton
    <3>5. QED  BY <3>2, <3>4
  <2>5. QED  BY <2>3, <2>4
<1>2. listHead # NoNode => \E n \in OnList : nextOf[n] = NoNode
  <2> SUFFICES ASSUME listHead # NoNode PROVE \E n \in OnList : nextOf[n] = NoNode
    OBVIOUS
  <2>0. PICK k \in Nat : \E l \in [1 .. k -> Nodes] : IsList(l, k, listHead, nextOf)
    BY DEF FInv, HasList
  <2>1. PICK l \in [1 .. k -> Nodes] : IsList(l, k, listHead, nextOf)
    BY <2>0
  <2>2. k \in 1 .. k /\ nextOf[l[k]] = NoNode
    BY <2>1 DEF IsList
  <2>3. l[k] \in OnList
    BY <2>1, <2>2, OnListIsList
  <2>4. QED  BY <2>2, <2>3
<1>3. ASSUME NEW u \in Users, Is(u, "got") PROVE ~refs[user[u].head].should
  <2> DEFINE n == user[u].head
  <2>1. n \in Nodes /\ NodeOK(n) /\ Kind(user[u], n) = "got"
    BY <1>3 DEF FInv, UserOK, Is, Kind
  <2>2. RefsAs(n, "got")
    BY <2>1, ClaimedBy
  <2>3. QED  BY <2>2 DEF RefsAs, Refs
<1>4. ASSUME \A u \in Users : Is(u, "idle"), NEW n \in Nodes
      PROVE  /\ n \in OnList \/ Owned(n) # {}
             /\ refs[n] = [count |-> IF n \in OnList THEN 1 ELSE 0, should |-> FALSE]
  <2>1. \A u \in Users : ~Holding(user[u], n) /\ Kind(user[u], n) = IF n \in user[u].owns THEN "owns" ELSE "none"
    BY <1>4 DEF Is, Holding, Kind, Early, Late
  <2>2. Holders(n) = {}
    BY <2>1 DEF Holders
  <2>3. 0 + Cardinality(Holders(n)) = 0 /\ 1 + Cardinality(Holders(n)) = 1
    BY <2>2, FS_EmptySet
  <2>4. Listed(n) \/ Claimed(n)
    BY <2>2 DEF FInv, NodeOK, Pending
  <2>5. CASE Listed(n)
    <3>1. n \in OnList /\ refs[n] = [count |-> 1, should |-> FALSE]
      BY <2>3, <2>5, Zenon DEF Listed, Refs
    <3>2. QED  BY <3>1, Zenon
  <2>6. CASE Claimed(n)
    <3>1. PICK u \in Users : Kind(user[u], n) # "none" /\ RefsAs(n, Kind(user[u], n))
      BY <2>6 DEF Claimed
    <3>2. Kind(user[u], n) = "owns" /\ n \in user[u].owns
      BY <2>1, <3>1
    <3>3. Refs(n, 0, FALSE)
      BY <3>1, <3>2 DEF RefsAs
    <3>4. n \notin OnList /\ refs[n] = [count |-> 0, should |-> FALSE]
      BY <2>3, <2>6, <3>3, Zenon DEF Claimed, Refs
    <3>5. u \in Owned(n)
      BY <3>2 DEF Owned
    <3>6. QED  BY <3>4, <3>5, Zenon
  <2>7. QED  BY <2>4, <2>5, <2>6
<1>5. QED  BY <1>1, <1>2, <1>3, <1>4, Zenon DEF FreeListIntact

\* try_get and add of FreeList (src/frontend/pmr/concurrentqueue.h), for any
\* finite number of threads and blocks: a block is never with two threads nor
\* with a thread and on the list, the list always ends, a block just taken is
\* not marked, and when no thread is in an operation no block is lost.
THEOREM FreeListIntactCorrect == FreeSpec => []FreeListIntact
<1>1. FreeInit => FInv
  BY FInvInit, FreeConstants
<1>2. FInv /\ [FreeNext]_freeVars => FInv'
  BY FInvStep, FreeConstants
<1>3. FInv => FreeListIntact
  BY FInvImplies, FreeConstants
<1>4. QED  BY <1>1, <1>2, <1>3, PTL DEF FreeSpec

=============================================================================
