--------------------------- MODULE MCServerStructs --------------------------
(***************************************************************************)
(* The pmem front end and the concurrent structures of the server, each    *)
(* explored on its own in one run: the hash table behind CuckooDB and the  *)
(* three parts of the queue between the clerks and the log thread (the     *)
(* producers' blocks, the free list the blocks go back to, the table from  *)
(* threads to producers).                                                  *)
(***************************************************************************)
EXTENDS FreeList, PMemAccess, Sequences, TLC

CONSTANTS Threads, TableKeys, Hash, Tag, Slots, FirstPower, PathLen, Ops, MaxPower,
          Producers, Consumers, MaxItems, MaxOver, PerBlock, FirstIndex, PoolBlocks, HeapBlocks,
          Ids, IdHash, FirstSize, MaxLives,
          p1, p2, u1, u2, c1

VARIABLES part,
          buckets, old, lock, remaining, th, map,
          tailIndex, headIndex, optimistic, overcommit, tailBlock, headers, entries, block,
          prod, con, taken,
          tables, used, resizing, producers, lives, worker

T == INSTANCE CuckooMap WITH Keys <- TableKeys
Q == INSTANCE ConcurrentQueue
H == INSTANCE ProducerHash

-----------------------------------------------------------------------------
(* Constants.  With one slot to a bucket, a, b and c need the two buckets of *)
(* the new table, so that the third insertion searches a path and doubles.   *)

Insert(k, v) == [name |-> "insert", key |-> k, val |-> v]
Erase(k) == [name |-> "erase", key |-> k, val |-> "none"]
Find(k) == [name |-> "find", key |-> k, val |-> "none"]

MCHash == [a |-> 0, b |-> 1, c |-> 0, d |-> 3]
MCTag  == [a |-> 1, b |-> 3, c |-> 3, d |-> 2]
MCOps  ==
    [t1 |-> <<{Insert("a", "t1")}, {Insert("b", "t1")}, {Insert("c", "t1"), Erase("a")}>>,
     t2 |-> <<{Insert("c", "t2"), Erase("a")}, {Insert("d", "t2"), Insert("c", "t2")}>>,
     t3 |-> <<{Find("c"), Insert("b", "t3"), Insert("d", "t3")}>>]

MCProducers == <<p2, p1>>
MCMaxItems == [p \in {p1, p2} |-> IF p = p1 THEN 3 ELSE 1]

\* the threads that dequeue are interchangeable
ConsumerSymmetry == Permutations(Consumers)

MCFirstOwner == <<u1, u2>>
MCIdHash == <<1, 1, 2>>

\* numbers of operations of the clients of the pmem front end
Ops41 == [c \in Clients |-> IF c = c1 THEN 4 ELSE 1]

-----------------------------------------------------------------------------
cuckooVs == <<buckets, old, lock, remaining, th, map>>
queueVs == <<tailIndex, headIndex, optimistic, overcommit, tailBlock, headers, entries, block,
             prod, con, taken>>
hashVs  == <<tables, used, resizing, producers, lives, worker>>

StructsInit ==
    /\ part \in {"pmem", "cuckoo", "queue", "freelist", "producers"}
    /\ Init /\ T!CuckooInit /\ Q!QueueInit /\ FreeInit /\ H!HashInit

StructsNext ==
    \/ part = "pmem" /\ Next /\ UNCHANGED <<part, cuckooVs, queueVs, freeVars, hashVs>>
    \/ part = "cuckoo" /\ T!CuckooNext /\ UNCHANGED <<part, vars, queueVs, freeVars, hashVs>>
    \/ part = "queue" /\ Q!QueueNext /\ UNCHANGED <<part, vars, cuckooVs, freeVars, hashVs>>
    \/ part = "freelist" /\ FreeNext /\ UNCHANGED <<part, vars, cuckooVs, queueVs, hashVs>>
    \/ part = "producers" /\ H!HashNext /\ UNCHANGED <<part, vars, cuckooVs, queueVs, freeVars>>

StructsSpec ==
    StructsInit /\ [][StructsNext]_<<part, vars, cuckooVs, queueVs, freeVars, hashVs>>

\* The hash table behaves as a map.
TableCorrect == part = "cuckoo" => T!TableIsMap

\* Items come out of the queue once, in the order of their producer.
QueueDelivers == part = "queue" => Q!QueueDelivers

\* A producer is used by one thread, and threads find theirs again.
ProducersOwned == part = "producers" => H!ProducersOwned
=============================================================================
