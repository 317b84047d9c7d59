---------------------------- MODULE AtomicBitset ----------------------------
(***************************************************************************)
(* frontend/pmr/atomicbitset.h: N bits in words of kBitsPerBlock bits, each *)
(* word an atomic integer.  Clerk threads call blindset concurrently, the  *)
(* uring thread clears bits.  A word is modelled as the set of the offsets *)
(* of its 1 bits, so that fetch_or adds one and fetch_and removes one.     *)
(***************************************************************************)
EXTENDS Integers

CONSTANTS
  Threads,        \* threads that call blindset
  N,              \* _size
  kBitsPerBlock,  \* bits of a word (64 in the code)
  StaleLoads      \* whether a relaxed load may return an old value

ASSUME SizesOK == /\ N \in Nat \ {0}
                  /\ kBitsPerBlock \in Nat \ {0}
                  /\ StaleLoads \in BOOLEAN

Bits == 0 .. N - 1
kNumBlocks == (N + kBitsPerBlock - 1) \div kBitsPerBlock
Blocks == 0 .. kNumBlocks - 1

VARIABLES
  data_,  \* the words
  pc,     \* thread: "out" of blindset, about to "get" or to "set" bit i
  i,      \* thread: the loop variable of blindset
  owned   \* bits returned by blindset and not cleared since (history)

bitsetVars == <<data_, pc, i, owned>>

blockIndex(b) == b \div kBitsPerBlock
bitOffset(b) == b % kBitsPerBlock

BitsetInit ==
  /\ data_ = [w \in Blocks |-> {}]
  /\ pc = [t \in Threads |-> "out"]
  /\ i = [t \in Threads |-> 0]
  /\ owned = {}

IsSet(b) == bitOffset(b) \in data_[blockIndex(b)]

\* what the relaxed load of get may see
Loaded(b) == IF StaleLoads THEN BOOLEAN ELSE {IsSet(b)}

\* the next iteration of the loop, or the goto to its start
NextBitMutant(b) == IF b + 1 < N - 1 THEN b + 1 ELSE 0
NextBit(b) == IF b + 1 < N THEN b + 1 ELSE 0

Enter(t) ==
  /\ pc[t] = "out"
  /\ pc' = [pc EXCEPT ![t] = "get"]
  /\ i' = [i EXCEPT ![t] = 0]
  /\ UNCHANGED <<data_, owned>>

\* the load of get returned v
Sees(t, v) ==
  /\ pc[t] = "get"
  /\ \/ ~v /\ pc' = [pc EXCEPT ![t] = "set"] /\ UNCHANGED i
     \/ v /\ i' = [i EXCEPT ![t] = NextBit(@)] /\ UNCHANGED pc
  /\ UNCHANGED <<data_, owned>>

Get(t) == \E v \in Loaded(i[t]) : Sees(t, v)

\* what fetch_or returned tells whether this thread is the one that set the bit
WonMutant(b) == TRUE
Won(b) == ~IsSet(b)

Set(t) ==
  /\ pc[t] = "set"
  /\ data_' = [data_ EXCEPT ![blockIndex(i[t])] = @ \cup {bitOffset(i[t])}]
  /\ \/ /\ Won(i[t])
        /\ pc' = [pc EXCEPT ![t] = "out"]
        /\ owned' = owned \cup {i[t]}
        /\ UNCHANGED i
     \/ /\ ~Won(i[t])
        /\ pc' = [pc EXCEPT ![t] = "get"]
        /\ i' = [i EXCEPT ![t] = NextBit(@)]
        /\ UNCHANGED owned

\* fetch_and with the complement of the mask
WithoutMutant(word, off) == word \cap {off}
Without(word, off) == word \ {off}

\* FreeChunk clears a chunk that the uring thread was handed
Clear(b) ==
  /\ b \in owned
  /\ data_' = [data_ EXCEPT ![blockIndex(b)] = Without(@, bitOffset(b))]
  /\ owned' = owned \ {b}
  /\ UNCHANGED <<pc, i>>

BitsetNext ==
  \/ \E t \in Threads : Enter(t) \/ Get(t) \/ Set(t)
  \/ \E b \in Bits : Clear(b)

BitsetSpec == BitsetInit /\ [][BitsetNext]_bitsetVars

----------------------------------------------------------------------------

\* Every word holds bits of its width and every scan stays within the bitset.
TypeOK ==
  /\ data_ \in [Blocks -> SUBSET (0 .. kBitsPerBlock - 1)]
  /\ pc \in [Threads -> {"out", "get", "set"}]
  /\ i \in [Threads -> Bits]
  /\ owned \in SUBSET Bits

\* The words hold exactly the bits handed out: setting or clearing one bit never
\* disturbs another of the same word, and no bit is left set that nobody owns.
BitsAreOwned == \A b \in Bits : IsSet(b) <=> b \in owned

Pool == INSTANCE ChunkPool WITH waiting <- {t \in Threads : pc[t] # "out"}

\* blindset hands a bit to one thread only, although get and set are two steps
\* and other threads run between them: the bitset implements ChunkPool.
IsChunkPool == Pool!Spec

\* A thread that loads bit b again and again sees its present value some time:
\* atomic stores become visible.
SeesSomeTime(t, b) == SF_bitsetVars(i[t] = b /\ Sees(t, IsSet(b)))

\* As long as some bit stays clear, blindset returns: the scan reaches every bit.
FindsFreeBit ==
  \A t \in Threads, b \in Bits :
    SeesSomeTime(t, b) /\ <>[](~IsSet(b)) => []<>(pc[t] = "out")
============================================================================
