---------------------------- MODULE TableFormat -----------------------------
(***************************************************************************)
(* A table file: TableBuilder with its filter block, and the lookup        *)
(* Table::InternalGet (src/database/leveldb/table/table_builder.cc,        *)
(* filter_block.cc, format.cc, table.cc, util/bloom.cc,                    *)
(* util/comparator.cc, db/dbformat.cc).  The index holds one key per data  *)
(* block, shortened to anything between the block and the next; the filter *)
(* is found by the block's offset in the file.                             *)
(*                                                                         *)
(* An internal key is [user, seq], user a sequence of bytes; bytes end at  *)
(* TopByte.  Sizes are numbers of entries.                                 *)
(***************************************************************************)
EXTENDS Integers, Sequences, FiniteSets, FiniteSetsExt

CONSTANTS UserKeys,      \* user keys
          TopByte,       \* 0xff
          TopSeq,        \* kMaxSequenceNumber
          TableMax,      \* bound: entries of the table
          BlockSize,     \* options.block_size
          FilterBase,    \* kFilterBase
          Hash,          \* BloomHash of a user key
          Delta,         \* the step of the double hashing, of a hash
          Bits,          \* bits of a filter
          Probes         \* k_

VARIABLES added,      \* history: the keys added, in order
          rep,        \* TableBuilder::Rep
          closed      \* Finish has been called
tableVars == <<added, rep, closed>>

TrailerSize == 1    \* kBlockTrailerSize

-----------------------------------------------------------------------------
(* Comparators *)

ByteLess(a, b) ==
    \E i \in 0 .. Min({Len(a), Len(b)}) :
        /\ SubSeq(a, 1, i) = SubSeq(b, 1, i)
        /\ i < Len(b)
        /\ i = Len(a) \/ (i < Len(a) /\ a[i + 1] < b[i + 1])

\* InternalKeyComparator::Compare: newer entries first.
KeyLess(a, b) == ByteLess(a.user, b.user) \/ (a.user = b.user /\ a.seq > b.seq)

\* BytewiseComparatorImpl::FindShortestSeparator and FindShortSuccessor
UserSeparator(start, limit) ==
    LET same == Max({i \in 0 .. Min({Len(start), Len(limit)}) :
                        SubSeq(start, 1, i) = SubSeq(limit, 1, i)})
        d == same + 1
    IN  IF same >= Min({Len(start), Len(limit)}) THEN start
        ELSE IF start[d] < TopByte /\ start[d] + 1 < limit[d]
        THEN Append(SubSeq(start, 1, same), start[d] + 1)
        ELSE start
UserSuccessor(key) ==
    LET at == {i \in DOMAIN key : key[i] # TopByte}
    IN  IF at = {} THEN key ELSE Append(SubSeq(key, 1, Min(at) - 1), key[Min(at)] + 1)

\* InternalKeyComparator: a shorter user key that is larger gets the highest
\* sequence number, which sorts first.
Shortened(start, user) ==
    IF Len(user) < Len(start.user) /\ ByteLess(start.user, user)
    THEN [user |-> user, seq |-> TopSeq] ELSE start
FindShortestSeparator(start, limit) == Shortened(start, UserSeparator(start.user, limit.user))
FindShortSuccessor(key) == Shortened(key, UserSuccessor(key.user))

-----------------------------------------------------------------------------
(* BloomFilterPolicy, on user keys (InternalFilterPolicy) *)

Positions(user) == {(Hash[user] + j * Delta[Hash[user]]) % Bits : j \in 0 .. Probes - 1}
CreateFilter(users) == UNION {Positions(u) : u \in users}
KeyInFilter(user, filter) == filter # {} /\ Positions(user) \subseteq filter

\* FilterBlockBuilder::StartBlock: filters up to the one of the offset; the
\* first takes the keys there are, the others are empty.
StartBlock(r) ==
    LET have == Len(r.filters)
        goal == r.offset \div FilterBase
    IN  IF goal <= have THEN r
        ELSE [r EXCEPT !.filters = [i \in 1 .. goal |->
                                        IF i <= have THEN r.filters[i]
                                        ELSE IF i = have + 1 THEN CreateFilter(r.fkeys) ELSE {}],
                       !.fkeys = {}]
FinishFilters(r) == IF r.fkeys = {} THEN r.filters ELSE Append(r.filters, CreateFilter(r.fkeys))

\* FilterBlockReader::KeyMayMatch: by the offset of the data block.
KeyMayMatch(fs, offset, user) ==
    LET i == offset \div FilterBase + 1
    IN  i <= Len(fs) => KeyInFilter(user, fs[i])

-----------------------------------------------------------------------------
(* TableBuilder *)

\* rep.block: data_block; index: index_block; pending, handle: the entry that
\* index_block still lacks; last: last_key; offset: length of the file;
\* pieces: the file, offset -> what was written there; fkeys, filters: the
\* filter block's builder.
EmptyRep ==
    [block |-> <<>>, index |-> <<>>, pending |-> FALSE, handle |-> 0,
     last |-> [user |-> <<>>, seq |-> 0], offset |-> 0, pieces |-> <<>>,
     fkeys |-> {}, filters |-> <<>>]

\* WriteRawBlock: contents of the given size, and a trailer.
WriteRaw(r, contents, size) ==
    [r EXCEPT !.pieces = [o \in DOMAIN @ \cup {r.offset} |->
                             IF o = r.offset THEN contents ELSE r.pieces[o]],
              !.offset = @ + size + TrailerSize]

\* Mutant: the filter is begun at the offset the block starts at.
FlushFilterFirst(r) ==
    IF r.block = <<>> THEN r
    ELSE LET f == StartBlock(r)
         IN  [WriteRaw(f, f.block, Len(f.block)) EXCEPT
                 !.block = <<>>, !.handle = f.offset, !.pending = TRUE]

\* Flush: the block is written, its index entry waits.
Flush(r) ==
    IF r.block = <<>> THEN r
    ELSE StartBlock([WriteRaw(r, r.block, Len(r.block)) EXCEPT
                        !.block = <<>>, !.handle = r.offset, !.pending = TRUE])

\* The index entry of the last block, once its separator is known.
AddIndex(r, key) ==
    IF ~r.pending THEN r
    ELSE [r EXCEPT !.index = Append(@, [key |-> key, handle |-> r.handle]), !.pending = FALSE]

AddTo(r, key) ==
    LET i == AddIndex(r, FindShortestSeparator(r.last, key))
        a == [i EXCEPT !.fkeys = @ \cup {key.user}, !.last = key, !.block = Append(@, key)]
    IN  IF Len(a.block) >= BlockSize THEN Flush(a) ELSE a

Add(key) ==
    /\ ~closed /\ Len(added) < TableMax
    /\ added # <<>> => KeyLess(added[Len(added)], key)
    /\ rep' = AddTo(rep, key)
    /\ added' = Append(added, key)
    /\ UNCHANGED closed

\* Finish: the last data block, the filters, the metaindex block, the index
\* and the footer, which is the last thing in the file.
FinishTable ==
    /\ ~closed /\ added # <<>>
    /\ LET r == Flush(rep)
           f == WriteRaw(r, FinishFilters(r), 1)
           m == WriteRaw(f, [filter |-> r.offset], 1)
           i == AddIndex(m, FindShortSuccessor(m.last))
           w == WriteRaw(i, i.index, Len(i.index))
       IN  rep' = WriteRaw(w, [metaindex |-> f.offset, index |-> i.offset], 0)
    /\ closed' = TRUE
    /\ UNCHANGED added

-----------------------------------------------------------------------------
(* Table: everything is found from the end of the file *)

Footer == rep.pieces[rep.offset - TrailerSize]
TheIndex == rep.pieces[Footer.index]
TheFilters == rep.pieces[rep.pieces[Footer.metaindex].filter]

\* The first of the keys that is not before the target, 0 if there is none.
SeekIn(list, target) ==
    LET at == {i \in DOMAIN list : ~KeyLess(list[i], target)} IN IF at = {} THEN 0 ELSE Min(at)

\* InternalGet: the block the index gives, unless the filter excludes the key.
NotFound == [user |-> <<>>, seq |-> 0]
InternalGet(target) ==
    LET i == SeekIn([j \in DOMAIN TheIndex |-> TheIndex[j].key], target)
        h == TheIndex[i].handle
        block == rep.pieces[h]
        at == SeekIn(block, target)
    IN  IF i = 0 THEN NotFound
        ELSE IF ~KeyMayMatch(TheFilters, h, target.user) THEN NotFound
        ELSE IF at = 0 THEN NotFound
        ELSE block[at]

-----------------------------------------------------------------------------
InternalKeys == [user : UserKeys, seq : 1 .. TopSeq - 1]

TableInit == added = <<>> /\ rep = EmptyRep /\ closed = FALSE
TableNext == FinishTable \/ \E k \in InternalKeys : Add(k)
TableSpec == TableInit /\ [][TableNext]_tableVars

\* What a lookup is for: the newest entry of the user key not newer than the
\* sequence number asked for.
Newest(target) ==
    LET at == SeekIn(added, target)
    IN  IF at # 0 /\ added[at].user = target.user THEN added[at] ELSE NotFound

\* A lookup in the finished file finds the entry if the table has one (the
\* shortened index keys never lead past it, no filter hides it), and never
\* takes another entry of the same user key for it.
TableGetCorrect ==
    closed => \A k \in InternalKeys :
        LET found == InternalGet(k)
        IN  IF Newest(k) # NotFound THEN found = Newest(k) ELSE found.user # k.user
=============================================================================
