---------------------------- MODULE BlockFormat -----------------------------
(***************************************************************************)
(* A block of a table: BlockBuilder and Block::Iter of                     *)
(* src/database/leveldb/table.  Keys share a prefix with the key before    *)
(* them except at restart points.  The iterator can only decode forward    *)
(* from a restart point, so Prev and Seek go back to one; Seek starts from *)
(* where the iterator stands when that is nearer.                          *)
(*                                                                         *)
(* A key is a sequence of bytes.  The offset of an entry is its index.     *)
(***************************************************************************)
EXTENDS Integers, Sequences, FiniteSetsExt

CONSTANTS BlockKeys,     \* keys
          BlockMax,      \* bound: entries of the block
          Interval       \* block_restart_interval

VARIABLES entries,    \* buffer_: list of [shared, suffix]
          restarts,   \* restarts_: indices of entries
          counter,    \* counter_: entries since the last restart point
          lastKey,    \* last_key_
          keys,       \* history: the keys added
          finished,   \* finished_
          iter,       \* Block::Iter: [cur, ri, key, next]
          expect      \* history: the entry the iterator should stand on
blockVars == <<entries, restarts, counter, lastKey, keys, finished, iter, expect>>

\* BytewiseComparator::Compare
Less(a, b) ==
    \E i \in 0 .. Min({Len(a), Len(b)}) :
        /\ SubSeq(a, 1, i) = SubSeq(b, 1, i)
        /\ i < Len(b)
        /\ i = Len(a) \/ (i < Len(a) /\ a[i + 1] < b[i + 1])

N == Len(entries)
NumRestarts == Len(restarts)

-----------------------------------------------------------------------------
(* BlockBuilder *)

CommonPrefix(a, b) ==
    Max({i \in 0 .. Min({Len(a), Len(b)}) : SubSeq(a, 1, i) = SubSeq(b, 1, i)})

Add(key) ==
    /\ ~finished /\ N < BlockMax
    /\ N > 0 => Less(lastKey, key)
    /\ LET restart == counter >= Interval
           shared == IF restart THEN 0 ELSE CommonPrefix(lastKey, key)
       IN  /\ restarts' = IF restart THEN Append(restarts, N + 1) ELSE restarts
           /\ counter' = IF restart THEN 1 ELSE counter + 1
           /\ entries' = Append(entries, [shared |-> shared,
                                          suffix |-> SubSeq(key, shared + 1, Len(key))])
    /\ lastKey' = key
    /\ keys' = Append(keys, key)
    /\ UNCHANGED <<finished, iter, expect>>

\* Finish, and an iterator on the block.
Finish ==
    /\ ~finished
    /\ finished' = TRUE
    /\ iter' = [cur |-> N + 1, ri |-> NumRestarts + 1, key |-> <<>>, next |-> N + 1]
    /\ expect' = N + 1
    /\ UNCHANGED <<entries, restarts, counter, lastKey, keys>>

-----------------------------------------------------------------------------
(* Block::Iter *)

Valid(it) == it.cur <= N

SeekToRestartPoint(it, ri) == [it EXCEPT !.key = <<>>, !.ri = ri, !.next = restarts[ri]]

\* The restart block of an entry, as ParseNextKey leaves it: the last one
\* that starts before the entry, not below the one it was in.
RestartOf(cur, ri) == Max({ri} \cup {r \in DOMAIN restarts : r > ri /\ restarts[r] < cur})

\* ParseNextKey; an entry that shares more than the key has is corrupt.
ParseNextKey(it) ==
    LET end == [it EXCEPT !.cur = N + 1, !.ri = NumRestarts + 1]
    IN  IF it.next > N THEN end
        ELSE LET e == entries[it.next]
             IN  IF Len(it.key) < e.shared THEN [end EXCEPT !.key = <<>>]
                 ELSE [cur |-> it.next, ri |-> RestartOf(it.next, it.ri),
                       key |-> SubSeq(it.key, 1, e.shared) \o e.suffix,
                       next |-> it.next + 1]

\* The iterator after 1, 2, ... calls of ParseNextKey, up to the first that
\* ends the block or satisfies Stop.
ParseUntil(it, Stop(_)) ==
    LET after[i \in 0 .. N + 1] == IF i = 0 THEN it ELSE ParseNextKey(after[i - 1])
    IN  after[Min({i \in 1 .. N + 1 : ~Valid(after[i]) \/ Stop(after[i])})]

\* The last restart point in left .. right whose key is before the target.
SearchRestarts(left, right, target) ==
    LET search[l \in 1 .. NumRestarts, r \in 0 .. NumRestarts] ==
            LET mid == (l + r + 1) \div 2
            IN  IF l >= r THEN l
                ELSE IF Less(entries[restarts[mid]].suffix, target) THEN search[mid, r]
                ELSE search[l, mid - 1]
    IN  search[left, right]

\* Mutant: going on from here whenever the restart block is the right one,
\* though the target may be behind in it.
SeekSkips(it, target) ==
    LET ahead == Valid(it) /\ Less(it.key, target)
        behind == Valid(it) /\ Less(target, it.key)
        left == SearchRestarts(IF ahead THEN it.ri ELSE 1,
                               IF behind THEN it.ri ELSE NumRestarts, target)
        from == IF left = it.ri THEN it ELSE SeekToRestartPoint(it, left)
    IN  IF Valid(it) /\ ~ahead /\ ~behind THEN it
        ELSE ParseUntil(from, LAMBDA i : ~Less(i.key, target))

SeekTo(it, target) ==
    LET ahead == Valid(it) /\ Less(it.key, target)
        behind == Valid(it) /\ Less(target, it.key)
        left == SearchRestarts(IF ahead THEN it.ri ELSE 1,
                               IF behind THEN it.ri ELSE NumRestarts, target)
        from == IF ahead /\ left = it.ri THEN it ELSE SeekToRestartPoint(it, left)
    IN  IF Valid(it) /\ ~ahead /\ ~behind THEN it
        ELSE ParseUntil(from, LAMBDA i : ~Less(i.key, target))

PrevOf(it) ==
    LET before == {r \in 1 .. it.ri : restarts[r] < it.cur}
    IN  IF before = {} THEN [it EXCEPT !.cur = N + 1, !.ri = NumRestarts + 1]
        ELSE ParseUntil(SeekToRestartPoint(it, Max(before)), LAMBDA i : i.next >= it.cur)

Seek(target) ==
    /\ finished
    /\ iter' = SeekTo(iter, target)
    /\ expect' = Min({i \in 1 .. N : ~Less(keys[i], target)} \cup {N + 1})
    /\ UNCHANGED <<entries, restarts, counter, lastKey, keys, finished>>

SeekToFirst ==
    /\ finished
    /\ iter' = ParseNextKey(SeekToRestartPoint(iter, 1))
    /\ expect' = 1
    /\ UNCHANGED <<entries, restarts, counter, lastKey, keys, finished>>

SeekToLast ==
    /\ finished
    /\ iter' = ParseUntil(SeekToRestartPoint(iter, NumRestarts), LAMBDA i : i.next > N)
    /\ expect' = IF N = 0 THEN 1 ELSE N
    /\ UNCHANGED <<entries, restarts, counter, lastKey, keys, finished>>

Next ==
    /\ finished /\ Valid(iter)
    /\ iter' = ParseNextKey(iter)
    /\ expect' = expect + 1
    /\ UNCHANGED <<entries, restarts, counter, lastKey, keys, finished>>

Prev ==
    /\ finished /\ Valid(iter)
    /\ iter' = PrevOf(iter)
    /\ expect' = IF expect = 1 THEN N + 1 ELSE expect - 1
    /\ UNCHANGED <<entries, restarts, counter, lastKey, keys, finished>>

-----------------------------------------------------------------------------
BlockInit ==
    /\ entries = <<>> /\ restarts = <<1>> /\ counter = 0 /\ lastKey = <<>>
    /\ keys = <<>> /\ finished = FALSE /\ expect = 1
    /\ iter = [cur |-> 1, ri |-> 1, key |-> <<>>, next |-> 1]

BlockNext ==
    \/ \E k \in BlockKeys : Add(k) \/ Seek(k)
    \/ Finish
    \/ SeekToFirst \/ SeekToLast \/ Next \/ Prev
BlockSpec == BlockInit /\ [][BlockNext]_blockVars

\* Every move ends on the entry it should, with that entry's whole key, and
\* none takes a good block for a corrupt one.
BlockIterCorrect ==
    finished => /\ iter.cur = expect
                /\ expect <= N => iter.key = keys[expect]
=============================================================================
