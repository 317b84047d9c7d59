-------------------------- MODULE ConcurrentQueue ---------------------------
(***************************************************************************)
(* moodycamel::ConcurrentQueue (src/frontend/pmr/concurrentqueue.h), the   *)
(* queue between the clerks and the log writer, as the program uses it:    *)
(* every thread that enqueues has a producer of its own (the implicit      *)
(* ones), each a queue of fixed-size blocks found through a block index    *)
(* that is a ring and doubles when it is full; any thread dequeues from    *)
(* any of them.  Nothing is locked: every action below is one access to    *)
(* shared memory, with the thread's own work around it.                    *)
(*                                                                         *)
(* The item a producer enqueues at an index is that index.  Blocks come    *)
(* from the initial pool or the free list as long as there are any, then   *)
(* from the heap; each is taken and given back in one step (FreeList has   *)
(* the steps).  Accesses are sequentially consistent and no allocation     *)
(* fails.                                                                  *)
(***************************************************************************)
EXTENDS Integers, Sequences, FiniteSets, FiniteSetsExt

CONSTANTS Producers,     \* sequence of producers, as try_dequeue meets them
          Consumers,     \* threads that dequeue
          MaxItems,      \* bound: producer -> items it enqueues
          MaxOver,       \* bound: dequeues of a producer that find it empty too late
          PerBlock,      \* MC_BLOCK_SIZE
          FirstIndex,    \* IMPLICIT_INITIAL_INDEX_SIZE
          PoolBlocks,    \* blocks of the initial pool, naturals
          HeapBlocks     \* bound: blocks of the heap, larger naturals

VARIABLES tailIndex, headIndex, optimistic, overcommit,   \* of each producer
          tailBlock,  \* producer -> block
          headers,    \* producer -> its block indices, the last is current
          entries,    \* producer -> BlockIndexEntry objects [key, value]
          block,      \* block -> [items, done, free]
          prod,       \* producer -> [pc, entry]
          con,        \* consumer -> where it is in try_dequeue
          taken       \* history: [producer, index] pairs handed out
queueVars == <<tailIndex, headIndex, optimistic, overcommit, tailBlock, headers,
               entries, block, prod, con, taken>>

Names == {Producers[i] : i \in DOMAIN Producers}
Blocks == PoolBlocks \cup HeapBlocks
Invalid == 1    \* INVALID_BLOCK_BASE
Nil == 0

Base(i) == i - (i % PerBlock)

-----------------------------------------------------------------------------
(* The block index *)

\* new_block_index: the old entries from the one after the tail on, then new
\* ones; the tail is the last of the old.
NewHeader(old, count) ==
    LET cap == Len(old.slots)
    IN  [slots |-> [i \in 1 .. 2 * cap |->
                       IF i <= cap THEN old.slots[((old.tail + i) % cap) + 1]
                       ELSE count + (i - cap)],
         tail |-> cap - 1]

\* The first index of an ImplicitProducer.
FirstHeader == [slots |-> [i \in 1 .. FirstIndex |-> i], tail |-> FirstIndex - 1]

NewEntry == [key |-> Invalid, value |-> Nil]

\* get_block_index_index_for_index, given the tail that was loaded and the
\* key of its entry: C++ division truncates towards zero, and base and key
\* are multiples of the block size.
SlotFor(h, tail, key, i) == ((tail + ((Base(i) - key) \div PerBlock)) % Len(h.slots)) + 1

Current(p) == headers[p][Len(headers[p])]
NextSlot(h) == ((h.tail + 1) % Len(h.slots))

-----------------------------------------------------------------------------
(* ImplicitProducer::enqueue *)

At(p, pc, e) == prod' = [prod EXCEPT ![p] = [pc |-> pc, entry |-> e]]

\* At the end of a block: an entry of the index is claimed with its key
\* (insert_block_index_entry), if its slot is free.
ClaimEntry(p) ==
    /\ prod[p].pc = "idle" /\ tailIndex[p] < MaxItems[p] /\ tailIndex[p] % PerBlock = 0
    /\ LET e == Current(p).slots[NextSlot(Current(p)) + 1]
       IN  /\ entries[p][e].key = Invalid \/ entries[p][e].value = Nil
           /\ entries' = [entries EXCEPT ![p][e].key = tailIndex[p]]
           /\ At(p, "index", e)
    /\ UNCHANGED <<tailIndex, headIndex, optimistic, overcommit, tailBlock, headers, block, con, taken>>

\* No room in the index: a new one of twice the size.
GrowIndex(p) ==
    /\ prod[p].pc = "idle" /\ tailIndex[p] < MaxItems[p] /\ tailIndex[p] % PerBlock = 0
    /\ LET h == Current(p)
           e == h.slots[NextSlot(h) + 1]
           n == Len(entries[p])
       IN  /\ entries[p][e].key # Invalid /\ entries[p][e].value # Nil
           /\ headers' = [headers EXCEPT ![p] = Append(@, NewHeader(h, n))]
           /\ entries' = [entries EXCEPT ![p] = @ \o [i \in 1 .. Len(h.slots) |-> NewEntry]]
    /\ UNCHANGED <<tailIndex, headIndex, optimistic, overcommit, tailBlock, block, prod, con, taken>>

\* The index's tail moves to the entry.
MoveIndexTail(p) ==
    /\ prod[p].pc = "index"
    /\ headers' = [headers EXCEPT ![p][Len(headers[p])].tail = NextSlot(Current(p))]
    /\ At(p, "block", prod[p].entry)
    /\ UNCHANGED <<tailIndex, headIndex, optimistic, overcommit, tailBlock, entries, block, con, taken>>

\* requisition_block, reset_empty, and the block goes into the entry.
TakeBlock(p) ==
    /\ prod[p].pc = "block"
    /\ LET free == {b \in Blocks : block[b].free}
           b == Min(IF free \cap PoolBlocks # {} THEN free \cap PoolBlocks ELSE free)
       IN  /\ free # {}
           /\ block' = [block EXCEPT ![b].free = FALSE, ![b].done = 0]
           /\ entries' = [entries EXCEPT ![p][prod[p].entry].value = b]
           /\ tailBlock' = [tailBlock EXCEPT ![p] = b]
    /\ At(p, "item", 0)
    /\ UNCHANGED <<tailIndex, headIndex, optimistic, overcommit, headers, con, taken>>

\* The item, then the tail that makes it visible.
PutItem(p) ==
    /\ prod[p].pc = "item" \/ (prod[p].pc = "idle" /\ tailIndex[p] % PerBlock # 0)
    /\ tailIndex[p] < MaxItems[p]
    /\ block' = [block EXCEPT ![tailBlock[p]].items[tailIndex[p] % PerBlock] = <<p, tailIndex[p]>>]
    /\ At(p, "tail", 0)
    /\ UNCHANGED <<tailIndex, headIndex, optimistic, overcommit, tailBlock, headers, entries, con, taken>>
PublishItem(p) ==
    /\ prod[p].pc = "tail"
    /\ tailIndex' = [tailIndex EXCEPT ![p] = @ + 1]
    /\ At(p, "idle", 0)
    /\ UNCHANGED <<headIndex, optimistic, overcommit, tailBlock, headers, entries, block, con, taken>>

-----------------------------------------------------------------------------
(* try_dequeue *)

IdleCon == [pc |-> "idle", prod |-> Nil, left |-> <<>>, best |-> 0, over |-> 0, my |-> 0,
            index |-> 0, header |-> 0, tail |-> 0, entry |-> 0, block |-> 0, item |-> <<>>]
Goes(c, rec) == con' = [con EXCEPT ![c] = rec]
Producer(c) == con[c].prod

\* Scan: size_approx of each producer in turn; the largest is tried first, the
\* others after it.  (The code stops at the third that is not empty; there are
\* at most three here.)
Scan(c) ==
    LET s == IF con[c].pc = "idle" THEN [IdleCon EXCEPT !.pc = "scan", !.left = Producers]
             ELSE con[c]
        p == Head(s.left)
        size == tailIndex[p] - headIndex[p]
        best == IF size > s.best THEN [s EXCEPT !.prod = p, !.best = size] ELSE s
        next == [best EXCEPT !.left = Tail(@)]
    IN  /\ con[c].pc \in {"idle", "scan"}
        /\ Goes(c, IF next.left # <<>> THEN next
                   ELSE IF next.prod = Nil THEN IdleCon
                   ELSE [next EXCEPT !.pc = "over", !.best = 0,
                                     !.left = SelectSeq(Producers, LAMBDA q : q # next.prod)])
        /\ UNCHANGED <<tailIndex, headIndex, optimistic, overcommit, tailBlock, headers, entries,
                       block, prod, taken>>

\* dequeue found nothing there: the next producer, or false.
Failed(s) ==
    IF s.left = <<>> THEN IdleCon
    ELSE [IdleCon EXCEPT !.pc = "over", !.prod = Head(s.left), !.left = Tail(s.left)]

LoadOvercommit(c) ==
    /\ con[c].pc = "over"
    /\ Goes(c, [con[c] EXCEPT !.pc = "check", !.over = overcommit[Producer(c)]])
    /\ UNCHANGED <<tailIndex, headIndex, optimistic, overcommit, tailBlock, headers, entries, block,
                   prod, taken>>
CheckEmpty(c) ==
    /\ con[c].pc = "check"
    /\ LET p == Producer(c)
       IN  Goes(c, IF optimistic[p] - con[c].over < tailIndex[p]
                   THEN [con[c] EXCEPT !.pc = "count"] ELSE Failed(con[c]))
    /\ UNCHANGED <<tailIndex, headIndex, optimistic, overcommit, tailBlock, headers, entries, block,
                   prod, taken>>
AddOptimistic(c) ==
    /\ con[c].pc = "count" /\ optimistic[Producer(c)] < MaxItems[Producer(c)] + MaxOver
    /\ Goes(c, [con[c] EXCEPT !.pc = "recheck", !.my = optimistic[Producer(c)]])
    /\ optimistic' = [optimistic EXCEPT ![Producer(c)] = @ + 1]
    /\ UNCHANGED <<tailIndex, headIndex, overcommit, tailBlock, headers, entries, block, prod, taken>>
Recheck(c) ==
    /\ con[c].pc = "recheck"
    /\ Goes(c, [con[c] EXCEPT !.pc = IF con[c].my - con[c].over < tailIndex[Producer(c)]
                                     THEN "head" ELSE "undo"])
    /\ UNCHANGED <<tailIndex, headIndex, optimistic, overcommit, tailBlock, headers, entries, block,
                   prod, taken>>
AddOvercommit(c) ==
    /\ con[c].pc = "undo"
    /\ overcommit' = [overcommit EXCEPT ![Producer(c)] = @ + 1]
    /\ Goes(c, Failed(con[c]))
    /\ UNCHANGED <<tailIndex, headIndex, optimistic, tailBlock, headers, entries, block, prod, taken>>

\* The index to take, and its entry through the current block index.
ClaimIndex(c) ==
    /\ con[c].pc = "head"
    /\ Goes(c, [con[c] EXCEPT !.pc = "header", !.index = headIndex[Producer(c)]])
    /\ headIndex' = [headIndex EXCEPT ![Producer(c)] = @ + 1]
    /\ UNCHANGED <<tailIndex, optimistic, overcommit, tailBlock, headers, entries, block, prod, taken>>
LoadHeader(c) ==
    /\ con[c].pc = "header"
    /\ Goes(c, [con[c] EXCEPT !.pc = "tailOf", !.header = Len(headers[Producer(c)])])
    /\ UNCHANGED <<tailIndex, headIndex, optimistic, overcommit, tailBlock, headers, entries, block,
                   prod, taken>>
LoadIndexTail(c) ==
    /\ con[c].pc = "tailOf"
    /\ Goes(c, [con[c] EXCEPT !.pc = "key", !.tail = headers[Producer(c)][con[c].header].tail])
    /\ UNCHANGED <<tailIndex, headIndex, optimistic, overcommit, tailBlock, headers, entries, block,
                   prod, taken>>
FindEntry(c) ==
    /\ con[c].pc = "key"
    /\ LET p == Producer(c)
           h == headers[p][con[c].header]
           e == h.slots[SlotFor(h, con[c].tail, entries[p][h.slots[con[c].tail + 1]].key,
                                con[c].index)]
       IN  Goes(c, [con[c] EXCEPT !.pc = "value", !.entry = e])
    /\ UNCHANGED <<tailIndex, headIndex, optimistic, overcommit, tailBlock, headers, entries, block,
                   prod, taken>>
LoadBlock(c) ==
    /\ con[c].pc = "value"
    /\ Goes(c, [con[c] EXCEPT !.pc = "take", !.block = entries[Producer(c)][con[c].entry].value])
    /\ UNCHANGED <<tailIndex, headIndex, optimistic, overcommit, tailBlock, headers, entries, block,
                   prod, taken>>
TakeItem(c) ==
    /\ con[c].pc = "take"
    /\ LET b == con[c].block
           i == con[c].index
           item == IF b = Nil THEN <<>> ELSE block[b].items[i % PerBlock]
       IN  /\ Goes(c, [con[c] EXCEPT !.pc = "empty", !.item = item])
           /\ taken' = taken \cup {item}
    /\ UNCHANGED <<tailIndex, headIndex, optimistic, overcommit, tailBlock, headers, entries, block,
                   prod>>

\* Mutant: set_empty is true one item early.
IsLastEarly(b) == block[b].done >= PerBlock - 2

\* set_empty: is it the last item of the block to be taken?
IsLast(b) == block[b].done = PerBlock - 1

SetEmpty(c) ==
    /\ con[c].pc = "empty"
    /\ block' = [block EXCEPT ![con[c].block].done = @ + 1]
    /\ Goes(c, IF IsLast(con[c].block) THEN [con[c] EXCEPT !.pc = "clear"] ELSE IdleCon)
    /\ UNCHANGED <<tailIndex, headIndex, optimistic, overcommit, tailBlock, headers, entries, prod,
                   taken>>

\* The block leaves the index, then goes back to the pool or the heap.
ClearEntry(c) ==
    /\ con[c].pc = "clear"
    /\ entries' = [entries EXCEPT ![Producer(c)][con[c].entry].value = Nil]
    /\ Goes(c, [con[c] EXCEPT !.pc = "free"])
    /\ UNCHANGED <<tailIndex, headIndex, optimistic, overcommit, tailBlock, headers, block, prod,
                   taken>>
FreeBlock(c) ==
    /\ con[c].pc = "free"
    /\ block' = [block EXCEPT ![con[c].block].free = TRUE]
    /\ Goes(c, IdleCon)
    /\ UNCHANGED <<tailIndex, headIndex, optimistic, overcommit, tailBlock, headers, entries, prod,
                   taken>>

-----------------------------------------------------------------------------
QueueInit ==
    /\ tailIndex = [p \in Names |-> 0] /\ headIndex = [p \in Names |-> 0]
    /\ optimistic = [p \in Names |-> 0] /\ overcommit = [p \in Names |-> 0]
    /\ tailBlock = [p \in Names |-> Nil]
    /\ headers = [p \in Names |-> <<FirstHeader>>]
    /\ entries = [p \in Names |-> [i \in 1 .. FirstIndex |-> NewEntry]]
    /\ block = [b \in Blocks |-> [items |-> [i \in 0 .. PerBlock - 1 |-> <<>>],
                                  done |-> 0, free |-> TRUE]]
    /\ prod = [p \in Names |-> [pc |-> "idle", entry |-> 0]]
    /\ con = [c \in Consumers |-> IdleCon]
    /\ taken = {}

QueueNext ==
    \/ \E p \in Names : \/ ClaimEntry(p) \/ GrowIndex(p) \/ MoveIndexTail(p) \/ TakeBlock(p)
                        \/ PutItem(p) \/ PublishItem(p)
    \/ \E c \in Consumers :
          \/ Scan(c) \/ LoadOvercommit(c) \/ CheckEmpty(c) \/ AddOptimistic(c)
          \/ Recheck(c) \/ AddOvercommit(c) \/ ClaimIndex(c) \/ LoadHeader(c) \/ LoadIndexTail(c)
          \/ FindEntry(c) \/ LoadBlock(c) \/ TakeItem(c) \/ SetEmpty(c) \/ ClearEntry(c) \/ FreeBlock(c)

QueueSpec == QueueInit /\ [][QueueNext]_queueVars

Quiet == /\ \A c \in Consumers : con[c].pc = "idle"
         /\ \A p \in Names : prod[p].pc = "idle"

\* Whatever the interleaving, a consumer that claimed an index gets the very
\* item enqueued there (so that each is handed out once, in its producer's
\* order), from a block that is not free; and whenever no operation is under
\* way the counters agree, so that a later try_dequeue finds what is left.
QueueDelivers ==
    /\ \A c \in Consumers : con[c].pc = "empty" =>
          /\ con[c].item = <<con[c].prod, con[c].index>>
          /\ ~block[con[c].block].free
    /\ Quiet => \A p \in Names :
          /\ optimistic[p] - overcommit[p] = headIndex[p] /\ headIndex[p] <= tailIndex[p]
          /\ {i \in 0 .. MaxItems[p] : <<p, i>> \in taken} = 0 .. headIndex[p] - 1
=============================================================================
