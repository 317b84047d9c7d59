----------------------------- MODULE CuckooMap -----------------------------
(***************************************************************************)
(* libcuckoo::cuckoohash_map as CuckooDB uses it: insert_or_assign, find   *)
(* and erase from several threads, striped spinlocks, cuckoo paths that    *)
(* are searched without keeping locks and checked again when they are      *)
(* followed, and doubling that leaves the old buckets to be rehashed by    *)
(* whoever next takes their lock.                                          *)
(*                                                                         *)
(* CuckooDB builds the table with its default size, which has as many      *)
(* buckets as there may be locks (kMaxNumLocks): the array of locks never  *)
(* grows and every doubling is lazy.  So it is here: Locks = 2^FirstPower. *)
(* A spinlock is acquired in one step when it is free; what a thread does  *)
(* between taking its locks and letting them go is one step, since nobody  *)
(* else reads what they protect.                                           *)
(***************************************************************************)
EXTENDS Naturals, Sequences, FiniteSets, FiniteSetsExt, SequencesExt, Bitwise

CONSTANTS Threads, Keys,
          Hash,        \* Hash[k]: the low bits of the hash of the key
          Tag,         \* Tag[k]: the low bits of its nonzero tag, multiplied
          Slots,       \* slot_per_bucket()
          FirstPower,  \* hashpower of the new table
          PathLen,     \* MAX_BFS_PATH_LEN
          Ops,         \* Ops[t][n]: the operations the n-th call of thread t may be
          MaxPower     \* bound: hashpower at which the table stops growing

VARIABLES buckets,   \* buckets_: [hp, slot], slot[i][j] an entry or NoEntry
          old,       \* old_buckets_
          lock,      \* lock[l]: [holder, count, migrated]
          remaining, \* num_remaining_lazy_rehash_locks_
          th,        \* th[t]: where the thread is and its local variables
          map        \* history: the value each key should have

cuckooVars == <<buckets, old, lock, remaining, th, map>>

NoEntry == [key |-> "none", val |-> "none"]
Nobody  == "nobody"
Locks   == 2 ^ FirstPower
LockSet == 0 .. Locks - 1

hashsize(hp)     == 2 ^ hp
index_hash(hp, k) == Hash[k] % hashsize(hp)
alt_index(hp, k, i) == (i ^^ Tag[k]) % hashsize(hp)
lock_ind(i)      == i % Locks
SameHash(k, m)   == Hash[k] = Hash[m] /\ Tag[k] = Tag[m]

NewBuckets(hp) ==
    [hp |-> hp, slot |-> [i \in 0 .. hashsize(hp) - 1 |->
                             [j \in 0 .. Slots - 1 |-> NoEntry]]]
Deallocated(c) == [c EXCEPT !.slot = <<>>]
Occupied(c, i, j) == c.slot[i][j] # NoEntry

Idle == [pc |-> "idle", n |-> 0]

CuckooInit ==
    /\ buckets = NewBuckets(FirstPower)
    /\ old = Deallocated(NewBuckets(0))
    /\ lock = [l \in LockSet |-> [holder |-> Nobody, count |-> 0, migrated |-> TRUE]]
    /\ remaining = 0
    /\ th = [t \in Threads |-> Idle]
    /\ map = [k \in Keys |-> "none"]

-----------------------------------------------------------------------------
(* Moving what a doubling left behind.  A key is in its first or its second *)
(* bucket and keeps that role; the doubled table gives each bucket a twin.  *)

MovesUp(k, i, hp) ==
    LET twin == i + hashsize(hp)
        first == index_hash(hp, k)
        newFirst == index_hash(hp + 1, k)
    IN  \/ i = first /\ newFirst = twin
        \/ i = alt_index(hp, k, first) /\ alt_index(hp + 1, k, newFirst) = twin

move_bucket(from, to, i) ==
    LET up(j) == Occupied(from, i, j) /\ MovesUp(from.slot[i][j].key, i, from.hp)
        rank(j) == Cardinality({h \in 0 .. j - 1 : up(h)})
        stays == [j \in 0 .. Slots - 1 |-> IF up(j) THEN to.slot[i][j] ELSE from.slot[i][j]]
        twin == [s \in 0 .. Slots - 1 |->
                    IF \E j \in 0 .. Slots - 1 : up(j) /\ rank(j) = s
                    THEN from.slot[i][CHOOSE j \in 0 .. Slots - 1 : up(j) /\ rank(j) = s]
                    ELSE NoEntry]
    IN  [to EXCEPT !.slot[i] = stays, !.slot[i + hashsize(from.hp)] = twin]

\* The containers, the remaining count and the migrated locks after
\* rehash_lock of every lock of S.
rehash_lock(S) ==
    LET todo == {l \in S : ~lock[l].migrated}
        mine == {i \in DOMAIN old.slot : lock_ind(i) \in todo}
        left == remaining - Cardinality(todo)
    IN  [buckets |-> FoldSet(LAMBDA i, c : move_bucket(old, c, i), buckets, mine),
         old |-> IF todo # {} /\ left = 0 THEN Deallocated(old) ELSE old,
         remaining |-> left,
         todo |-> todo]

Held(t) == {l \in LockSet : lock[l].holder = t}
\* The locks when t has let go of those of S and those of M are migrated.
Released(S, M) ==
    [l \in LockSet |-> [lock[l] EXCEPT !.holder = IF l \in S THEN Nobody ELSE @,
                                       !.migrated = @ \/ l \in M]]

-----------------------------------------------------------------------------
(* Taking locks: in the order of their indexes, the hashpower checked after *)
(* the first, the old buckets of all of them moved after the last.          *)

Wanted(S) == SetToSortSeq({lock_ind(i) : i \in S}, <)
Waits(t) == th[t].pc = "lock"

\* Thread t goes on to take the locks of the buckets S, then to pc.
Lock(t, rec, S, pc) == [rec EXCEPT !.pc = "lock", !.want = Wanted(S), !.next = pc]

Begin(t) ==
    /\ th[t].pc = "idle"
    /\ th[t].n < Len(Ops[t])
    /\ \E op \in Ops[t][th[t].n + 1] :
          th' = [th EXCEPT ![t] = [pc |-> "snapshot", n |-> @.n + 1, op |-> op]]
    /\ UNCHANGED <<buckets, old, lock, remaining, map>>

\* What a thread remembers once it has read the hashpower.
Snapshot(t, hp) ==
    LET k == th[t].op.key
        i1 == index_hash(hp, k)
    IN  [pc |-> "lock", n |-> th[t].n, op |-> th[t].op, hp |-> hp,
         i1 |-> i1, i2 |-> alt_index(hp, k, i1), want |-> <<>>, next |-> th[t].op.name,
         queue |-> <<>>, code |-> 0, path |-> <<>>, depth |-> 0]

Restart(t) == [pc |-> "snapshot", n |-> th[t].n, op |-> th[t].op]

\* snapshot_and_lock_two up to the first lock.
snapshot_and_lock_two(t) ==
    /\ th[t].pc = "snapshot"
    /\ LET r == Snapshot(t, buckets.hp)
       IN  th' = [th EXCEPT ![t] = Lock(t, r, {r.i1, r.i2}, r.next)]
    /\ UNCHANGED <<buckets, old, lock, remaining, map>>

\* check_hashpower, which only the first lock of a group makes.
HashpowerChanged(t) == Held(t) = {} /\ buckets.hp # th[t].hp

LockNext(t) ==
    /\ Waits(t)
    /\ lock[Head(th[t].want)].holder = Nobody
    /\ \/ /\ HashpowerChanged(t)
          /\ th' = [th EXCEPT ![t] = Restart(t)]
          /\ UNCHANGED <<buckets, old, lock, remaining>>
       \/ /\ ~HashpowerChanged(t)
          /\ Len(th[t].want) > 1
          /\ lock' = [lock EXCEPT ![Head(th[t].want)].holder = t]
          /\ th' = [th EXCEPT ![t].want = Tail(@)]
          /\ UNCHANGED <<buckets, old, remaining>>
       \/ /\ ~HashpowerChanged(t)
          /\ Len(th[t].want) = 1
          /\ LET mine == Held(t) \cup {Head(th[t].want)}
                 done == rehash_lock(mine)
             IN  /\ buckets' = done.buckets
                 /\ old' = done.old
                 /\ remaining' = done.remaining
                 /\ lock' = [l \in LockSet |->
                               IF l \in mine
                               THEN [lock[l] EXCEPT !.holder = t, !.migrated = TRUE]
                               ELSE lock[l]]
          /\ th' = [th EXCEPT ![t].pc = th[t].next, ![t].want = <<>>]
    /\ UNCHANGED map

Finish(t) == th' = [th EXCEPT ![t] = [pc |-> "idle", n |-> @.n]]

-----------------------------------------------------------------------------
(* The operations on the two buckets of the key, both locked.              *)

\* try_read_from_bucket and cuckoo_find: the places of the key among its two
\* buckets, the first bucket before the second, the lower slot first.
InBucket(i, k) == {j \in 0 .. Slots - 1 : buckets.slot[i][j].key = k}
cuckoo_find(k, i1, i2) ==
    IF InBucket(i1, k) # {} THEN <<i1, Min(InBucket(i1, k))>>
    ELSE IF InBucket(i2, k) # {} THEN <<i2, Min(InBucket(i2, k))>>
    ELSE <<>>

\* try_find_insert_bucket: the last empty slot.
FreeSlots(i) == {j \in 0 .. Slots - 1 : ~Occupied(buckets, i, j)}
FreePlace(i1, i2) ==
    IF FreeSlots(i1) # {} THEN <<i1, Max(FreeSlots(i1))>>
    ELSE IF FreeSlots(i2) # {} THEN <<i2, Max(FreeSlots(i2))>>
    ELSE <<>>

Counted(S, i, by) == [Released(S, {}) EXCEPT ![lock_ind(i)].count = @ + by]

\* add_to_bucket, or the assignment to what is already there.
Assign(t, pos) ==
    /\ buckets' = [buckets EXCEPT !.slot[pos[1]][pos[2]].val = th[t].op.val]
    /\ lock' = Released(Held(t), {})
add_to_bucket(t, pos) ==
    /\ buckets' = [buckets EXCEPT !.slot[pos[1]][pos[2]] =
                       [key |-> th[t].op.key, val |-> th[t].op.val]]
    /\ lock' = Counted(Held(t), pos[1], 1)

\* find: the value the thread reads, "none" when the key is not there.
Read(t) ==
    LET pos == cuckoo_find(th[t].op.key, th[t].i1, th[t].i2)
    IN  IF pos = <<>> THEN "none" ELSE buckets.slot[pos[1]][pos[2]].val

find(t) ==
    /\ th[t].pc = "find"
    /\ lock' = Released(Held(t), {})
    /\ Finish(t)
    /\ UNCHANGED <<buckets, old, remaining, map>>

erase(t) ==
    /\ th[t].pc = "erase"
    /\ LET pos == cuckoo_find(th[t].op.key, th[t].i1, th[t].i2)
       IN  \/ /\ pos = <<>>
              /\ lock' = Released(Held(t), {})
              /\ UNCHANGED buckets
           \/ /\ pos # <<>>
              /\ buckets' = [buckets EXCEPT !.slot[pos[1]][pos[2]] = NoEntry]
              /\ lock' = [Released(Held(t), {}) EXCEPT ![lock_ind(pos[1])].count = @ - 1]
    /\ map' = [map EXCEPT ![th[t].op.key] = "none"]
    /\ Finish(t)
    /\ UNCHANGED <<old, remaining>>

\* The search of a path starts from both buckets of the key, which are let go.
StartSearch(rec) ==
    [rec EXCEPT !.pc = "search", !.want = <<>>, !.path = <<>>, !.depth = 0, !.code = 0,
                !.queue = <<[bucket |-> rec.i1, code |-> 0, depth |-> 0],
                            [bucket |-> rec.i2, code |-> 1, depth |-> 0]>>]

\* cuckoo_insert: assign, add, or run_cuckoo.
cuckoo_insert(t) ==
    /\ th[t].pc = "insert"
    /\ LET r == th[t]
           pos == cuckoo_find(r.op.key, r.i1, r.i2)
           free == FreePlace(r.i1, r.i2)
       IN  \/ /\ pos # <<>>
              /\ Assign(t, pos)
              /\ map' = [map EXCEPT ![r.op.key] = r.op.val]
              /\ Finish(t)
           \/ /\ pos = <<>> /\ free # <<>>
              /\ add_to_bucket(t, free)
              /\ map' = [map EXCEPT ![r.op.key] = r.op.val]
              /\ Finish(t)
           \/ /\ pos = <<>> /\ free = <<>>
              /\ lock' = Released(Held(t), {})
              /\ th' = [th EXCEPT ![t] = StartSearch(r)]
              /\ UNCHANGED <<buckets, map>>
    /\ UNCHANGED <<old, remaining>>

-----------------------------------------------------------------------------
(* run_cuckoo.  The search takes one lock at a time (lock_one) for as long  *)
(* as it looks at one bucket.                                               *)

\* lock_one around a look at bucket i; Found is what the thread becomes.
LookAt(t, i, Found(_)) ==
    /\ lock[lock_ind(i)].holder = Nobody
    /\ \/ /\ buckets.hp # th[t].hp
          /\ th' = [th EXCEPT ![t] = Restart(t)]
          /\ UNCHANGED <<buckets, old, lock, remaining>>
       \/ /\ buckets.hp = th[t].hp
          /\ LET done == rehash_lock({lock_ind(i)})
             IN  /\ buckets' = done.buckets
                 /\ old' = done.old
                 /\ remaining' = done.remaining
                 /\ lock' = Released({}, done.todo)
                 /\ th' = [th EXCEPT ![t] = Found(done.buckets.slot[i])]
    /\ UNCHANGED map

\* slot_search at the bucket of x: the slots before the first empty one, from
\* the starting slot on, are searched later through their other buckets.
Scan(t, x, b) ==
    LET at(i) == (x.code + i) % Slots
        empty == {i \in 0 .. Slots - 1 : b[at(i)] = NoEntry}
        more == IF x.depth < PathLen - 1
                THEN [i \in 1 .. Slots |->
                        [bucket |-> alt_index(th[t].hp, b[at(i - 1)].key, x.bucket),
                         code |-> x.code * Slots + at(i - 1), depth |-> x.depth + 1]]
                ELSE <<>>
        r == th[t]
    IN  IF empty # {}
        THEN [r EXCEPT !.pc = "path", !.queue = <<>>,
                       !.code = x.code * Slots + at(Min(empty)), !.depth = x.depth]
        ELSE IF Len(r.queue) = 1 /\ more = <<>>
             THEN [r EXCEPT !.pc = "lock_all", !.queue = <<>>]
             ELSE [r EXCEPT !.queue = Tail(@) \o more]

slot_search(t) ==
    /\ th[t].pc = "search"
    /\ LET x == Head(th[t].queue)
       IN  LookAt(t, x.bucket, LAMBDA b : Scan(t, x, b))

\* cuckoopath_search: the slots come from the code, the buckets from the keys
\* that are there now.
PathSlot(t, i) == (th[t].code \div Slots ^ (th[t].depth - i)) % Slots
PathBucket(t, i) ==
    IF i > 0 THEN LET prev == th[t].path[i] IN alt_index(th[t].hp, prev.key, prev.bucket)
    ELSE IF th[t].code \div Slots ^ (th[t].depth + 1) = 0 THEN th[t].i1 ELSE th[t].i2

\* cuckoopath_move locks the two buckets of its last step, or those of the
\* key as well (lock_three) when it is the last step.
MoveLocks(rec, d) ==
    IF d = 0 THEN {rec.i1, rec.i2}
    ELSE IF d = 1 THEN {rec.i1, rec.i2, rec.path[2].bucket}
    ELSE {rec.path[d].bucket, rec.path[d + 1].bucket}
StartMove(t, rec, d) == Lock(t, [rec EXCEPT !.depth = d, !.code = 0], MoveLocks(rec, d), "move")

Follow(t, i, b) ==
    LET r == th[t]
        j == PathSlot(t, i)
        step == [bucket |-> PathBucket(t, i), slot |-> j, key |-> b[j].key]
        longer == [r EXCEPT !.path = Append(@, step)]
    IN  IF b[j] = NoEntry \/ i = r.depth THEN StartMove(t, longer, i) ELSE longer

cuckoopath_search(t) ==
    /\ th[t].pc = "path"
    /\ LET i == Len(th[t].path)
       IN  LookAt(t, PathBucket(t, i), LAMBDA b : Follow(t, i, b))

\* One step of cuckoopath_move, its locks held: the key moves if the path is
\* still there, else everything is let go and the search starts again.
PathHolds(t) ==
    LET r == th[t]
        from == r.path[r.depth]
        to == r.path[r.depth + 1]
    IN  IF r.depth = 0 THEN ~Occupied(buckets, r.path[1].bucket, r.path[1].slot)
        ELSE /\ ~Occupied(buckets, to.bucket, to.slot)
             /\ Occupied(buckets, from.bucket, from.slot)
             /\ SameHash(buckets.slot[from.bucket][from.slot].key, from.key)

cuckoopath_move(t) ==
    /\ th[t].pc = "move"
    /\ LET r == th[t]
           from == r.path[r.depth]
           to == r.path[r.depth + 1]
           keep == {lock_ind(r.i1), lock_ind(r.i2)}
       IN  \/ /\ ~PathHolds(t)
              /\ th' = [th EXCEPT ![t] = StartSearch(r)]
              /\ lock' = Released(Held(t), {})
              /\ UNCHANGED buckets
           \/ /\ PathHolds(t) /\ r.depth = 0
              /\ th' = [th EXCEPT ![t].pc = "insert2"]
              /\ UNCHANGED <<buckets, lock>>
           \/ /\ PathHolds(t) /\ r.depth > 0
              /\ buckets' = [buckets EXCEPT
                               !.slot[to.bucket][to.slot] = buckets.slot[from.bucket][from.slot],
                               !.slot[from.bucket][from.slot] = NoEntry]
              /\ IF r.depth = 1
                 THEN /\ th' = [th EXCEPT ![t].pc = "insert2"]
                      /\ lock' = Released(Held(t) \ keep, {})
                 ELSE /\ th' = [th EXCEPT ![t] = StartMove(t, r, r.depth - 1)]
                      /\ lock' = Released(Held(t), {})
    /\ UNCHANGED <<old, remaining, map>>

\* The end of cuckoo_insert: the key may have come in while the locks were
\* not held, so that it is searched again before it is added.
AddedBefore(t) == <<>>  \* Mutant: it is not searched again.
AddedMeanwhile(t) == cuckoo_find(th[t].op.key, th[t].i1, th[t].i2)
AfterCuckoo(t) ==
    /\ th[t].pc = "insert2"
    /\ LET pos == AddedMeanwhile(t)
           first == th[t].path[1]
       IN  \/ pos # <<>> /\ Assign(t, pos)
           \/ pos = <<>> /\ add_to_bucket(t, <<first.bucket, first.slot>>)
    /\ map' = [map EXCEPT ![th[t].op.key] = th[t].op.val]
    /\ Finish(t)
    /\ UNCHANGED <<old, remaining>>

-----------------------------------------------------------------------------
(* cuckoo_fast_double: every lock, in order; then the hashpower is checked, *)
(* the rest of the old buckets moved, the containers swapped and the new    *)
(* one put in.                                                              *)

lock_all(t) ==
    /\ th[t].pc = "lock_all"
    /\ LET l == Cardinality(Held(t))
       IN  /\ lock[l].holder = Nobody
           /\ lock' = [lock EXCEPT ![l].holder = t]
           /\ th' = [th EXCEPT ![t].pc = IF l = Locks - 1 THEN "double" ELSE @]
    /\ UNCHANGED <<buckets, old, remaining, map>>

\* check_resize_validity.  (Its two exceptions, for a maximum hashpower that the
\* program never sets and for a table that is nearly empty, are thrown before
\* anything is changed.)
ResizeValid(t) == buckets.hp = th[t].hp

\* The swap shows the hashpower of the old container for a moment.
cuckoo_fast_double(t) ==
    /\ th[t].pc = "double"
    /\ \/ /\ ~ResizeValid(t)
          /\ lock' = Released(LockSet, {})
          /\ th' = [th EXCEPT ![t] = Restart(t)]
          /\ UNCHANGED <<buckets, old, remaining>>
       \/ /\ ResizeValid(t)
          /\ buckets.hp < MaxPower
          /\ LET done == rehash_lock(LockSet)
             IN  /\ old' = done.buckets
                 /\ buckets' = Deallocated(old)
          /\ remaining' = Locks
          /\ lock' = [l \in LockSet |-> [lock[l] EXCEPT !.migrated = FALSE]]
          /\ th' = [th EXCEPT ![t].pc = "assign"]
    /\ UNCHANGED map

AssignBuckets(t) ==
    /\ th[t].pc = "assign"
    /\ buckets' = NewBuckets(th[t].hp + 1)
    /\ lock' = Released(LockSet, {})
    /\ th' = [th EXCEPT ![t] = Restart(t)]
    /\ UNCHANGED <<old, remaining, map>>

CuckooNext ==
    \E t \in Threads :
        \/ Begin(t)
        \/ snapshot_and_lock_two(t)
        \/ LockNext(t)
        \/ find(t)
        \/ erase(t)
        \/ cuckoo_insert(t)
        \/ slot_search(t)
        \/ cuckoopath_search(t)
        \/ cuckoopath_move(t)
        \/ AfterCuckoo(t)
        \/ lock_all(t)
        \/ cuckoo_fast_double(t)
        \/ AssignBuckets(t)

CuckooSpec == CuckooInit /\ [][CuckooNext]_cuckooVars

-----------------------------------------------------------------------------
\* Where a key is: in the buckets, or in old ones not moved yet.
Live(c, k) == {<<i, j>> \in (DOMAIN c.slot) \X (0 .. Slots - 1) : c.slot[i][j].key = k}
Unmoved(k) == {p \in Live(old, k) : ~lock[lock_ind(p[1])].migrated}
Values(k) == {buckets.slot[p[1]][p[2]].val : p \in Live(buckets, k)}
                \cup {old.slot[p[1]][p[2]].val : p \in Unmoved(k)}
Stored(k) == Cardinality(Live(buckets, k)) + Cardinality(Unmoved(k))

\* The table is a map.  Whatever cuckoo paths, erasures and doublings run at
\* the same time, a key that was put is in the table exactly once with the
\* last value put, one that was erased or never put is not there; whoever
\* holds the two locks of a key finds that value (cuckoo_find looks only at
\* the two buckets of the current hashpower); the counters of the locks add
\* up to the number of keys, which size() and the doubling rely on; and the
\* threads inside an operation never all wait for a lock that one of them holds.
TableIsMap ==
    /\ \A k \in Keys :
          /\ Stored(k) = IF map[k] = "none" THEN 0 ELSE 1
          /\ Values(k) \subseteq {map[k]}
    /\ \A t \in Threads :
          th[t].pc \in {"find", "erase", "insert", "insert2"} => Read(t) = map[th[t].op.key]
    /\ MapThenSumSet(LAMBDA l : lock[l].count, LockSet)
          = Cardinality({k \in Keys : map[k] # "none"})
    /\ LET waiting == {t \in Threads : Waits(t) /\ lock[Head(th[t].want)].holder # Nobody}
                        \cup {t \in Threads : th[t].pc = "lock_all"
                                /\ lock[Cardinality(Held(t))].holder # Nobody}
           active == {t \in Threads : th[t].pc # "idle"}
       IN  active # {} => waiting # active
=============================================================================
