------------------------------ MODULE LRUCache ------------------------------
(***************************************************************************)
(* One shard of the cache of src/database/leveldb/util/cache.cc, used by   *)
(* TableCache (db/table_cache.cc): threads look a table up, open and       *)
(* insert it if it is not there, keep a handle while they read, release    *)
(* it; files that are deleted are evicted, whoever is reading them.  Each  *)
(* method of the cache holds its mutex throughout; between the failed      *)
(* lookup and the insertion of a table there is no lock.                   *)
(***************************************************************************)
EXTENDS Integers, Sequences, FiniteSets, SequencesExt, FiniteSetsExt

CONSTANTS Tables,        \* file numbers, the keys of the cache
          HashOf,        \* table -> Hash of the key
          ChargeOf,      \* table -> charge
          Threads,       \* readers of tables
          Handles,       \* bound: entries allocated at a time, naturals
          Capacity,      \* capacity_
          FirstLength    \* the length HandleTable starts with (4)

VARIABLES heap,       \* handle -> [key, refs, inCache], Free if not allocated
          chains,     \* table_.list_: bucket -> sequence of handles
          lru,        \* lru_: sequence of handles, oldest first
          inUse,      \* in_use_: set of handles
          usage,      \* usage_
          thread      \* thread -> [pc, key, handle]
cacheVars == <<heap, chains, lru, inUse, usage, thread>>

Free == [key |-> 0, refs |-> 0, inCache |-> FALSE]

\* What the methods pass on: the cache without the threads.
Cache == [heap |-> heap, chains |-> chains, lru |-> lru, inUse |-> inUse, usage |-> usage]
Becomes(c) == /\ heap' = c.heap /\ chains' = c.chains /\ lru' = c.lru
              /\ inUse' = c.inUse /\ usage' = c.usage

-----------------------------------------------------------------------------
(* HandleTable *)

Length(ch) == Cardinality(DOMAIN ch)
Elems(ch) == FoldSet(LAMBDA b, n : n + Len(ch[b]), 0, DOMAIN ch)
Bucket(ch, key) == HashOf[key] % Length(ch)

\* FindPointer: the handles of the bucket with this key.
FindPointer(c, key) ==
    LET chain == c.chains[Bucket(c.chains, key)]
    IN  {i \in DOMAIN chain : c.heap[chain[i]].key = key}
TableLookup(c, key) ==
    LET at == FindPointer(c, key)
    IN  IF at = {} THEN {} ELSE {c.chains[Bucket(c.chains, key)][Min(at)]}

\* Resize: a power of two not below the number of elements; every chain is
\* emptied from its front onto the front of its new chain.
Resize(c) ==
    LET new == Min({FirstLength * 2 ^ i : i \in {j \in 0 .. Cardinality(Handles) :
                                          FirstLength * 2 ^ j >= Elems(c.chains)}})
        all == FlattenSeq([b \in 1 .. Length(c.chains) |-> c.chains[b - 1]])
        of(b) == SelectSeq(all, LAMBDA h : HashOf[c.heap[h].key] % new = b)
    IN  [c EXCEPT !.chains = [b \in 0 .. new - 1 |-> Reverse(of(b))]]

\* Insert: in the place of the entry with this key, or at the end.
TableInsert(c, h) ==
    LET key == c.heap[h].key
        b == Bucket(c.chains, key)
        at == FindPointer(c, key)
        d == IF at = {} THEN [c EXCEPT !.chains[b] = Append(@, h)]
             ELSE [c EXCEPT !.chains[b][Min(at)] = h]
    IN  IF at = {} /\ Elems(d.chains) > Length(d.chains) THEN Resize(d) ELSE d
TableRemove(c, key) ==
    LET at == FindPointer(c, key)
    IN  IF at = {} THEN c ELSE [c EXCEPT !.chains[Bucket(c.chains, key)] = RemoveAt(@, Min(at))]

-----------------------------------------------------------------------------
(* LRUCache *)

\* Mutant: an entry that was erased goes to the list too.
UnrefErased(c, h) ==
    LET refs == c.heap[h].refs - 1
        d == [c EXCEPT !.heap[h].refs = refs]
    IN  IF refs = 0 THEN [d EXCEPT !.heap[h] = Free]
        ELSE IF refs = 1
        THEN [d EXCEPT !.inUse = @ \ {h}, !.lru = Append(@, h)]
        ELSE d

\* Unref: the last reference frees the entry; when only the cache's own is
\* left it may be evicted.
Unref(c, h) ==
    LET refs == c.heap[h].refs - 1
        d == [c EXCEPT !.heap[h].refs = refs]
    IN  IF refs = 0 THEN [d EXCEPT !.heap[h] = Free]
        ELSE IF c.heap[h].inCache /\ refs = 1
        THEN [d EXCEPT !.inUse = @ \ {h}, !.lru = Append(@, h)]
        ELSE d

Ref(c, h) ==
    LET d == IF c.heap[h].refs = 1 /\ c.heap[h].inCache
             THEN [c EXCEPT !.lru = Remove(@, h), !.inUse = @ \cup {h}] ELSE c
    IN  [d EXCEPT !.heap[h].refs = @ + 1]

\* FinishErase of what the hash table gave up; LRU_Remove takes it from
\* whichever list it is in.
FinishErase(c, hs) ==
    IF hs = {} THEN c
    ELSE LET h == CHOOSE x \in hs : TRUE
         IN  Unref([c EXCEPT !.lru = Remove(@, h), !.inUse = @ \ {h},
                             !.heap[h].inCache = FALSE,
                             !.usage = @ - ChargeOf[c.heap[h].key]], h)

\* Erase, and Prune and the loop that evicts: the oldest entry on the list.
EraseKey(c, key) == FinishErase(TableRemove(c, key), TableLookup(c, key))
EvictWhile(c, Over(_)) ==
    LET state[i \in 0 .. Len(c.lru)] ==
            IF i = 0 THEN c
            ELSE LET s == state[i - 1]
                 IN  IF Over(s) /\ s.lru # <<>> THEN EraseKey(s, s.heap[Head(s.lru)].key) ELSE s
    IN  state[Len(c.lru)]

\* Insert: the entry, a reference for the caller and, unless caching is off,
\* one for the cache; then the entry of the same key goes, and the oldest
\* ones while there is too much.
InsertNew(h, key) ==
    LET new == [key |-> key, refs |-> 2, inCache |-> TRUE]
        c == [Cache EXCEPT !.heap[h] = new, !.inUse = @ \cup {h}, !.usage = @ + ChargeOf[key]]
        old == TableLookup(c, key)
        kept == FinishErase(TableInsert(c, h), old)
        off == [Cache EXCEPT !.heap[h] = [new EXCEPT !.refs = 1, !.inCache = FALSE]]
    IN  EvictWhile(IF Capacity > 0 THEN kept ELSE off, LAMBDA s : s.usage > Capacity)

-----------------------------------------------------------------------------
(* TableCache *)

At(t, pc, key, handle) == thread' = [thread EXCEPT ![t] = [pc |-> pc, key |-> key, handle |-> handle]]
Idle(t) == thread[t].pc = "idle"

\* FindTable, first half: the handle, or none.
Lookup(t, key) ==
    /\ Idle(t)
    /\ LET hs == TableLookup(Cache, key)
       IN  IF hs = {} THEN At(t, "missed", key, 0) /\ UNCHANGED <<heap, chains, lru, inUse, usage>>
           ELSE LET h == CHOOSE x \in hs : TRUE
                IN  Becomes(Ref(Cache, h)) /\ At(t, "holds", key, h)

\* The file could not be opened: nothing is cached.
OpenFails(t) ==
    /\ thread[t].pc = "missed"
    /\ At(t, "idle", 0, 0)
    /\ UNCHANGED <<heap, chains, lru, inUse, usage>>

\* FindTable, second half.
Insert(t) ==
    /\ thread[t].pc = "missed"
    /\ \E h \in Handles :
          /\ heap[h] = Free /\ \A g \in Handles : heap[g] = Free => h <= g
          /\ Becomes(InsertNew(h, thread[t].key))
          /\ At(t, "holds", thread[t].key, h)

\* After InternalGet, or when the iterator is deleted.
Release(t) ==
    /\ thread[t].pc = "holds"
    /\ Becomes(Unref(Cache, thread[t].handle))
    /\ At(t, "idle", 0, 0)

Evict(key) == Becomes(EraseKey(Cache, key)) /\ UNCHANGED thread
Prune == Becomes(EvictWhile(Cache, LAMBDA s : TRUE)) /\ UNCHANGED thread

-----------------------------------------------------------------------------
CacheInit ==
    /\ heap = [h \in Handles |-> Free] /\ chains = [b \in 0 .. FirstLength - 1 |-> <<>>]
    /\ lru = <<>> /\ inUse = {} /\ usage = 0
    /\ thread = [t \in Threads |-> [pc |-> "idle", key |-> 0, handle |-> 0]]

CacheNext ==
    \/ \E t \in Threads : OpenFails(t) \/ Insert(t) \/ Release(t) \/ \E k \in Tables : Lookup(t, k)
    \/ \E k \in Tables : Evict(k)
    \/ Prune

CacheSpec == CacheInit /\ [][CacheNext]_cacheVars

Holders(h) == {t \in Threads : thread[t].pc = "holds" /\ thread[t].handle = h}
Cached == {h \in Handles : heap[h].inCache}

\* No entry is freed while a thread reads its table, and none is kept when
\* nobody does and the cache has dropped it: the references counted are the
\* threads that hold the entry and the cache.  Every entry the cache owns is
\* found under its key, on the list that tells whether it is in use, and
\* charged for; and the charge is never above both the capacity and what the
\* threads can hold at once.
CacheIntact ==
    /\ \A h \in Handles :
          /\ heap[h].refs = Cardinality(Holders(h)) + (IF heap[h].inCache THEN 1 ELSE 0)
          /\ \A t \in Holders(h) : heap[h].key = thread[t].key
          /\ heap[h].inCache => TableLookup(Cache, heap[h].key) = {h}
    /\ inUse = {h \in Cached : heap[h].refs > 1}
    /\ ToSet(lru) = Cached \ inUse /\ Len(lru) = Cardinality(ToSet(lru))
    /\ Elems(chains) = Cardinality(Cached)
    /\ usage = FoldSet(LAMBDA h, n : n + ChargeOf[heap[h].key], 0, Cached)
    /\ usage > Capacity =>
          usage <= Cardinality(Threads) * Max({ChargeOf[k] : k \in Tables})
=============================================================================
