------------------------------- MODULE DBIter -------------------------------
(***************************************************************************)
(* Reading LevelDB in key order: DBIter over a MergingIterator over the    *)
(* memtable and a TwoLevelIterator (db_iter.cc, merger.cc,                 *)
(* two_level_iterator.cc of src/database/leveldb).  Each layer keeps a     *)
(* direction and repairs the positions below it when the direction         *)
(* changes, while writers go on inserting into the memtable.               *)
(*                                                                         *)
(* An entry is an internal key [key, seq, del]; its sequence number stands *)
(* for its value.  A child's position is the entry it stands on, NoEntry   *)
(* when it is not valid.                                                   *)
(***************************************************************************)
EXTENDS Integers, Sequences, FiniteSets, FiniteSetsExt

CONSTANTS MaxKey,      \* user keys are 1 .. MaxKey
          Loaded,      \* entries there are when the iterator is made
          MaxSeq       \* bound: entries there are at the end

VARIABLES mem,       \* entries of the memtable
          blocks,    \* the table: list of [sep, entries], the index and its blocks
          last,      \* last_sequence_ of the database
          sequence,  \* sequence_: what the iterator may see
          pos,       \* child -> entry
          current,   \* MergingIterator::current_, 0 for nullptr
          mdir,      \* MergingIterator::direction_
          dir,       \* DBIter::direction_
          valid,     \* valid_
          saved,     \* saved_key_ and saved_value_
          pc,        \* "idle", or the loop DBIter is in
          skipping,  \* FindNextUserEntry's argument
          type,      \* FindPrevUserEntry's value_type is kTypeValue
          want       \* history: the key the call has to arrive at, 0 for none
data == <<mem, blocks, last, sequence>>
merger == <<pos, current, mdir>>
vars == <<data, merger, dir, valid, saved, pc, skipping, type, want>>

Keys == 1 .. MaxKey
Children == {1, 2}           \* the memtable and the table
NoEntry == [key |-> 0, seq |-> 0, del |-> FALSE]
NoSaved == [key |-> 0, seq |-> 0]

Before(a, b) == a.key < b.key \/ (a.key = b.key /\ a.seq > b.seq)
Smallest(S) == IF S = {} THEN NoEntry ELSE CHOOSE e \in S : \A d \in S : d = e \/ Before(e, d)
Largest(S) == IF S = {} THEN NoEntry ELSE CHOOSE e \in S : \A d \in S : d = e \/ Before(d, e)

-----------------------------------------------------------------------------
(* The children *)

TableEntries == UNION {blocks[i].entries : i \in DOMAIN blocks}
Entries(c) == IF c = 1 THEN mem ELSE TableEntries

\* SkipList::Iterator and Block::Iter: the first entry not before the target.
SeekIn(S, target) == Smallest({e \in S : ~Before(e, target)})

\* TwoLevelIterator::Seek: the first block whose separator is not before the
\* target; SkipEmptyDataBlocksForward when the target lies after its entries.
TableSeek(target) ==
    LET at == {i \in DOMAIN blocks : ~Before(blocks[i].sep, target)}
        i == Min(at)
        found == SeekIn(blocks[i].entries, target)
    IN  IF at = {} THEN NoEntry
        ELSE IF found # NoEntry THEN found
        ELSE IF i < Len(blocks) THEN Smallest(blocks[i + 1].entries)
        ELSE NoEntry

ChildSeek(c, target) == IF c = 1 THEN SeekIn(mem, target) ELSE TableSeek(target)

\* Next and Prev go on into the next block (SkipEmptyDataBlocksForward and
\* -Backward): the blocks are in order and none is empty.
ChildNext(c, e) == Smallest({d \in Entries(c) : Before(e, d)})
ChildPrev(c, e) == Largest({d \in Entries(c) : Before(d, e)})
ChildFirst(c) == Smallest(Entries(c))
ChildLast(c) == Largest(Entries(c))

-----------------------------------------------------------------------------
(* MergingIterator: operators on its state [pos, cur, dir] *)

It == [pos |-> pos, cur |-> current, dir |-> mdir]
ValidIt(it) == it.cur # 0
KeyOf(it) == it.pos[it.cur]

FindSmallest(ps) ==
    LET on == {c \in Children : ps[c] # NoEntry}
    IN  IF on = {} THEN 0 ELSE CHOOSE c \in on : \A d \in on : d = c \/ Before(ps[c], ps[d])
FindLargest(ps) ==
    LET on == {c \in Children : ps[c] # NoEntry}
    IN  IF on = {} THEN 0 ELSE CHOOSE c \in on : \A d \in on : d = c \/ Before(ps[d], ps[c])

Forward(ps) == [pos |-> ps, cur |-> FindSmallest(ps), dir |-> "forward"]
Reverse(ps) == [pos |-> ps, cur |-> FindLargest(ps), dir |-> "reverse"]

MergeSeekToFirst == Forward([c \in Children |-> ChildFirst(c)])
MergeSeekToLast == Reverse([c \in Children |-> ChildLast(c)])
MergeSeek(target) == Forward([c \in Children |-> ChildSeek(c, target)])

\* The other children, which stand before the key after a Prev, are put
\* behind it.
AfterKey(it, c) ==
    LET found == ChildSeek(c, KeyOf(it))
    IN  IF found = KeyOf(it) THEN ChildNext(c, found) ELSE found
MergeNext(it) ==
    LET ps == [c \in Children |-> IF c = it.cur \/ it.dir = "forward" THEN it.pos[c]
                                  ELSE AfterKey(it, c)]
    IN  Forward([ps EXCEPT ![it.cur] = ChildNext(it.cur, @)])

BeforeKey(it, c) ==
    LET found == ChildSeek(c, KeyOf(it))
    IN  IF found # NoEntry THEN ChildPrev(c, found) ELSE ChildLast(c)
MergePrev(it) ==
    LET ps == [c \in Children |-> IF c = it.cur \/ it.dir = "reverse" THEN it.pos[c]
                                  ELSE BeforeKey(it, c)]
    IN  Reverse([ps EXCEPT ![it.cur] = ChildPrev(it.cur, @)])

SetIt(it) == pos' = it.pos /\ current' = it.cur /\ mdir' = it.dir

-----------------------------------------------------------------------------
(* What the iterator should show *)

\* The value of key at sequence: the newest entry that may be seen.
Shown(key) ==
    LET seen == {e \in mem \cup TableEntries : e.key = key /\ e.seq <= sequence}
        newest == CHOOSE e \in seen : \A d \in seen : d.seq <= e.seq
    IN  IF seen = {} THEN 0 ELSE IF newest.del THEN 0 ELSE newest.seq
VisibleKeys == {k \in Keys : Shown(k) # 0}
FirstKey(S) == IF S = {} THEN 0 ELSE Min(S)
LastKey(S) == IF S = {} THEN 0 ELSE Max(S)

\* DBIter::key and DBIter::value
Key == IF dir = "forward" THEN pos[current].key ELSE saved.key
Value == IF dir = "forward" THEN pos[current].seq ELSE saved.seq

-----------------------------------------------------------------------------
(* DBIter *)

\* Where a positioning of iter_ leads: into the loop, or to the end.
EnterNext(it, skip) ==
    /\ SetIt(it) /\ dir' = "forward"
    /\ IF ValidIt(it) THEN pc' = "findnext" /\ skipping' = skip /\ UNCHANGED valid
       ELSE pc' = "idle" /\ valid' = FALSE /\ UNCHANGED skipping

Seek(k) ==
    /\ pc = "idle"
    /\ want' = FirstKey({j \in VisibleKeys : j >= k})
    /\ EnterNext(MergeSeek([key |-> k, seq |-> sequence, del |-> FALSE]), FALSE)
    /\ saved' = NoSaved
    /\ UNCHANGED <<data, type>>

SeekToFirst ==
    /\ pc = "idle"
    /\ want' = FirstKey(VisibleKeys)
    /\ EnterNext(MergeSeekToFirst, FALSE)
    /\ saved' = [saved EXCEPT !.seq = 0]
    /\ UNCHANGED <<data, type>>

SeekToLast ==
    /\ pc = "idle"
    /\ want' = LastKey(VisibleKeys)
    /\ SetIt(MergeSeekToLast)
    /\ dir' = "reverse" /\ pc' = "findprev" /\ type' = FALSE
    /\ saved' = [saved EXCEPT !.seq = 0]
    /\ UNCHANGED <<data, valid, skipping>>

\* After a Prev iter_ stands before the entries of the key, or before all.
Next ==
    /\ pc = "idle" /\ valid
    /\ want' = FirstKey({j \in VisibleKeys : j > Key})
    /\ LET it == IF dir = "reverse" /\ ~ValidIt(It) THEN MergeSeekToFirst ELSE MergeNext(It) IN
        /\ EnterNext(it, TRUE)
        /\ saved' = IF ~ValidIt(it) THEN [saved EXCEPT !.key = 0]
                    ELSE [saved EXCEPT !.key = Key]
    /\ UNCHANGED <<data, type>>

\* One turn of FindNextUserEntry.
FindNextUserEntry ==
    /\ pc = "findnext"
    /\ LET e == KeyOf(It)
           seen == e.seq <= sequence
           found == seen /\ ~e.del /\ ~(skipping /\ e.key <= saved.key)
           it == MergeNext(It)
       IN  IF found
           THEN /\ valid' = TRUE /\ pc' = "idle"
                /\ saved' = [saved EXCEPT !.key = 0]
                /\ UNCHANGED <<merger, skipping>>
           ELSE /\ SetIt(it)
                /\ skipping' = (skipping \/ (seen /\ e.del))
                /\ IF ValidIt(it)
                   THEN /\ saved' = IF seen /\ e.del THEN [saved EXCEPT !.key = e.key] ELSE saved
                        /\ UNCHANGED <<valid, pc>>
                   ELSE /\ saved' = [saved EXCEPT !.key = 0]
                        /\ valid' = FALSE /\ pc' = "idle"
    /\ UNCHANGED <<data, dir, type, want>>

\* Prev, going backward already or out of the current key first.
Prev ==
    /\ pc = "idle" /\ valid
    /\ want' = LastKey({j \in VisibleKeys : j < Key})
    /\ IF dir = "forward"
       THEN saved' = [saved EXCEPT !.key = Key] /\ pc' = "back" /\ UNCHANGED type
       ELSE saved' = saved /\ pc' = "findprev" /\ type' = FALSE
    /\ UNCHANGED <<data, merger, dir, valid, skipping>>

\* One turn of the loop that leaves the current key.
StepBack ==
    /\ pc = "back"
    /\ LET it == MergePrev(It) IN
        /\ SetIt(it)
        /\ IF ~ValidIt(it)
           THEN /\ valid' = FALSE /\ pc' = "idle" /\ saved' = NoSaved
                /\ UNCHANGED <<dir, type>>
           ELSE IF KeyOf(it).key < saved.key
           THEN /\ dir' = "reverse" /\ pc' = "findprev" /\ type' = FALSE
                /\ UNCHANGED <<valid, saved>>
           ELSE UNCHANGED <<dir, pc, type, valid, saved>>
    /\ UNCHANGED <<data, skipping, want>>

EndPrev ==
    /\ pc' = "idle"
    /\ valid' = type
    /\ IF type THEN UNCHANGED <<saved, dir>> ELSE saved' = NoSaved /\ dir' = "forward"
    /\ UNCHANGED <<merger, type>>

\* Mutant: it stops at the first value it meets, which is the oldest.
FindPrevFirst ==
    /\ pc = "findprev"
    /\ IF ~ValidIt(It) \/ type THEN EndPrev
       ELSE LET e == KeyOf(It)
                seen == e.seq <= sequence
            IN  /\ SetIt(MergePrev(It))
                /\ type' = (seen /\ ~e.del)
                /\ saved' = IF seen /\ ~e.del THEN [key |-> e.key, seq |-> e.seq] ELSE saved
                /\ UNCHANGED <<pc, valid, dir>>
    /\ UNCHANGED <<data, skipping, want>>

\* One turn of FindPrevUserEntry: on until a key before the saved one.
FindPrevUserEntry ==
    /\ pc = "findprev"
    /\ IF ~ValidIt(It) THEN EndPrev
       ELSE LET e == KeyOf(It)
                seen == e.seq <= sequence
            IN  IF seen /\ type /\ e.key < saved.key THEN EndPrev
                ELSE /\ SetIt(MergePrev(It))
                     /\ type' = IF seen THEN ~e.del ELSE type
                     /\ saved' = IF ~seen THEN saved
                                 ELSE IF e.del THEN NoSaved
                                 ELSE [key |-> e.key, seq |-> e.seq]
                     /\ UNCHANGED <<pc, valid, dir>>
    /\ UNCHANGED <<data, skipping, want>>

\* A writer, at any time: the memtable's iterator sees it.
Insert(k, del) ==
    /\ last < MaxSeq
    /\ last' = last + 1
    /\ mem' = mem \cup {[key |-> k, seq |-> last + 1, del |-> del]}
    /\ UNCHANGED <<blocks, sequence, merger, dir, valid, saved, pc, skipping, type, want>>

-----------------------------------------------------------------------------
(* The database when the iterator is made *)

\* Tables of the given entries: any cut into blocks, or a level cut into files,
\* which LevelFileNumIterator indexes by their largest keys.  TableBuilder gives the
\* index of a block its last key or a shorter user key between that and the
\* next block, with the highest sequence number (FindShortestSeparator).
IsTable(bs, S) ==
    /\ UNION {bs[i].entries : i \in DOMAIN bs} = S
    /\ \A i \in DOMAIN bs : bs[i].entries # {}
    /\ \A i, j \in DOMAIN bs : i < j => Before(Largest(bs[i].entries), Smallest(bs[j].entries))
Separators(bs, i) ==
    {Largest(bs[i].entries)} \cup
    {[key |-> k, seq |-> MaxSeq + 1, del |-> FALSE] :
        k \in {k \in Keys : /\ k > Largest(bs[i].entries).key
                            /\ i < Len(bs) => k < Smallest(bs[i + 1].entries).key}}

Op == [key : Keys, del : BOOLEAN]
Entry(op, s) == [key |-> op.key, seq |-> s, del |-> op.del]
Cuts(S) == {bs \in UNION {[1 .. n -> [entries : SUBSET S]] : n \in 0 .. Cardinality(S)} : IsTable(bs, S)}

Init ==
    /\ \E ops \in [1 .. Loaded -> Op] : \E old \in 0 .. Loaded :
        /\ mem = {Entry(ops[s], s) : s \in old + 1 .. Loaded}
        /\ \E bs \in Cuts({Entry(ops[s], s) : s \in 1 .. old}) :
           \E seps \in [DOMAIN bs -> UNION {Separators(bs, i) : i \in DOMAIN bs}] :
              /\ \A i \in DOMAIN bs : seps[i] \in Separators(bs, i)
              /\ blocks = [i \in DOMAIN bs |-> [sep |-> seps[i], entries |-> bs[i].entries]]
    /\ last = Loaded
    /\ sequence \in 1 .. Loaded
    /\ pos = [c \in Children |-> NoEntry] /\ current = 0 /\ mdir = "forward"
    /\ dir = "forward" /\ valid = FALSE /\ saved = NoSaved
    /\ pc = "idle" /\ skipping = FALSE /\ type = FALSE /\ want = 0

Calls == SeekToFirst \/ SeekToLast \/ (\E k \in Keys : Seek(k)) \/ Next \/ Prev
Loops == FindNextUserEntry \/ StepBack \/ FindPrevUserEntry
NextStep == Calls \/ Loops \/ \E k \in Keys, d \in BOOLEAN : Insert(k, d)

Spec == Init /\ [][NextStep]_vars

-----------------------------------------------------------------------------
(* Properties *)

\* A finished call stands on the key it was asked for: the neighbour of the
\* key before it, or the first at or after the target, among the keys that
\* are visible at the iterator's sequence number; with that key's newest
\* visible value.  It is not valid exactly when there is no such key.
IterCorrect ==
    pc = "idle" => /\ valid <=> want # 0
                   /\ valid => Key = want /\ Value = Shown(want)
=============================================================================
