------------------------------ MODULE SkipList ------------------------------
(***************************************************************************)
(* The memtable of LevelDB: SkipList (src/database/leveldb/db/skiplist.h)  *)
(* under MemTable (db/memtable.cc).  One writer inserts, serialised by the *)
(* database; a reader follows the links with no lock, one load per step,   *)
(* while nodes are being linked in.  Nothing is ever removed.              *)
(*                                                                         *)
(* An entry of the memtable is an internal key, (user key, sequence        *)
(* number), and the comparator sorts newer entries of a user key first;    *)
(* entries are numbered 1, 2, ... in that order, so that a node is its     *)
(* number.  0 is head_, and nullptr comes after every node, which is how   *)
(* each comparison of the code treats it.  Loads and stores of links are   *)
(* sequentially consistent; a load of max_height_, which is relaxed, may   *)
(* return any earlier value.                                               *)
(***************************************************************************)
EXTENDS Integers, FiniteSetsExt

CONSTANTS Users,         \* number of user keys
          MaxSeq,        \* bound: entries inserted
          MaxHeight      \* kMaxHeight

VARIABLES link,       \* next_: node -> level -> node
          maxHeight,  \* max_height_
          writer,     \* Insert under way: [node, prev, height, done]
          inserted,   \* nodes linked at the lowest level
          written,    \* sequence number of the last Insert
          lastSeq,    \* versions_->LastSequence(), published to readers
          reader      \* an iterator: [op, target, x, level, pos, before, snap]
skipVars == <<link, maxHeight, writer, inserted, written, lastSeq, reader>>

Entries == 1 .. Users * MaxSeq
Head == 0
Null == Users * MaxSeq + 1
Levels == 1 .. MaxHeight

Entry(user, seq) == user * MaxSeq + (MaxSeq - seq) + 1
UserOf(n) == (n - 1) \div MaxSeq
SeqOf(n) == MaxSeq - ((n - 1) % MaxSeq)

-----------------------------------------------------------------------------
(* Insert *)

\* FindGreaterOrEqual with prev: the node before the key on each level.
FindPrev(key) ==
    LET walk[x \in Entries \cup {Head}, l \in Levels] ==
            IF link[x][l] < key THEN walk[link[x][l], l] ELSE x
        prev[l \in 1 .. MaxHeight + 1] ==
            IF l > maxHeight THEN Head ELSE walk[prev[l + 1], l]
    IN  prev

\* MemTable::Add, SkipList::Insert up to the loop that links the node; the
\* height is RandomHeight's.
Insert(user, height) ==
    /\ writer = <<>> /\ written < MaxSeq
    /\ written' = written + 1
    /\ LET n == Entry(user, written + 1)
       IN  writer' = [node |-> n, prev |-> FindPrev(n), height |-> height, done |-> 0]
    /\ maxHeight' = Max({height, maxHeight})
    /\ UNCHANGED <<link, inserted, lastSeq, reader>>

\* Mutant: from the highest level down.
LinkLevelDown(w) == w.height - w.done

LinkLevel(w) == w.done + 1

\* One turn of the loop.  The node's own link of this level is stored first;
\* no reader can load it before the second store.
Link ==
    /\ writer # <<>>
    /\ LET n == writer.node
           l == LinkLevel(writer)
           p == writer.prev[l]
       IN  /\ link' = [link EXCEPT ![n][l] = link[p][l], ![p][l] = n]
           /\ inserted' = IF l = 1 THEN inserted \cup {n} ELSE inserted
    /\ writer' = IF writer.done + 1 = writer.height THEN <<>>
                 ELSE [writer EXCEPT !.done = @ + 1]
    /\ UNCHANGED <<maxHeight, written, lastSeq, reader>>

\* SetLastSequence, after the whole batch is in the memtable.
SetLastSequence ==
    /\ writer = <<>> /\ lastSeq < written
    /\ lastSeq' = written
    /\ UNCHANGED <<link, maxHeight, writer, inserted, written, reader>>

-----------------------------------------------------------------------------
(* Readers *)

Idle(pos) == [op |-> "none", target |-> 0, x |-> 0, level |-> 0, pos |-> pos,
              before |-> {}, snap |-> 0]

Start(op, target, height, snap) ==
    /\ reader.op \in {"none", "found", "back"}
    /\ reader' = [op |-> op, target |-> target, x |-> Head, level |-> height,
                  pos |-> reader.pos, before |-> inserted, snap |-> snap]
    /\ UNCHANGED <<link, maxHeight, writer, inserted, written, lastSeq>>

\* MemTable::Get: a seek to the newest entry the snapshot may see.
Get(user, height) == lastSeq > 0 /\ Start("get", Entry(user, lastSeq), height, lastSeq)

Seek(target, height) == Start("seek", target, height, 0)
SeekToLast(height) == Start("less", Null, height, 0)
Prev(height) == reader.pos \in Entries /\ Start("less", reader.pos, height, 0)

\* The search is over.  target is where it started from, pos what it found.
Found(op, pos) == [reader EXCEPT !.op = op, !.x = Head, !.level = 0, !.pos = pos,
                                 !.snap = IF reader.op = "get" THEN @ ELSE 0]

\* FindGreaterOrEqual, FindLessThan and FindLast, one load of a link: on, or
\* down, or the end.
Follow ==
    /\ reader.op \in {"get", "seek", "less"}
    /\ LET n == link[reader.x][reader.level]
       IN  reader' = IF n < reader.target THEN [reader EXCEPT !.x = n]
                     ELSE IF reader.level > 1 THEN [reader EXCEPT !.level = @ - 1]
                     ELSE IF reader.op # "less" THEN Found("found", n)
                     ELSE Found("back", IF reader.x = Head THEN Null ELSE reader.x)
    /\ UNCHANGED <<link, maxHeight, writer, inserted, written, lastSeq>>

\* Iterator::Next and SeekToFirst: one load.
Step(from) ==
    /\ reader.op \in {"none", "found", "back"}
    /\ reader' = [Idle(link[from][1]) EXCEPT !.op = "found", !.target = from + 1,
                                             !.before = inserted]
    /\ UNCHANGED <<link, maxHeight, writer, inserted, written, lastSeq>>
Next == reader.pos \in Entries /\ Step(reader.pos)
SeekToFirst == Step(Head)

-----------------------------------------------------------------------------
SkipInit ==
    /\ link = [n \in Entries \cup {Head} |-> [l \in Levels |-> Null]]
    /\ maxHeight = 1 /\ writer = <<>> /\ inserted = {} /\ written = 0 /\ lastSeq = 0
    /\ reader = Idle(Null)

SkipNext ==
    \/ \E u \in 0 .. Users - 1, h \in Levels : Insert(u, h)
    \/ Link \/ SetLastSequence
    \/ \E h \in 1 .. maxHeight :
          \/ \E u \in 0 .. Users - 1 : Get(u, h)
          \/ \E t \in Entries : Seek(t, h)
          \/ SeekToLast(h) \/ Prev(h)
    \/ Follow \/ Next \/ SeekToFirst

SkipSpec == SkipInit /\ [][SkipNext]_skipVars

\* Entries that were there when the search started.
Between(a, b) == {n \in reader.before : a <= n /\ n < b}

\* A search that raced with insertions passes over no entry that was there
\* when it started and stops only at entries that have been inserted; and a
\* Get finds exactly the newest entry its snapshot covers, whatever is being
\* inserted meanwhile.
SearchesFind ==
    /\ reader.op = "found" =>
        /\ reader.target <= reader.pos /\ reader.pos \in inserted \cup {Null}
        /\ Between(reader.target, reader.pos) = {}
    /\ reader.op = "back" =>
        LET at == IF reader.pos = Null THEN Head ELSE reader.pos
        IN  /\ at < reader.target /\ at \in inserted \cup {Head}
            /\ Between(at + 1, reader.target) = {}
    /\ reader.op = "found" /\ reader.snap > 0 =>
        LET user == UserOf(reader.target)
            seen == {n \in inserted : UserOf(n) = user /\ SeqOf(n) <= reader.snap}
        IN  IF seen = {} THEN reader.pos = Null \/ UserOf(reader.pos) # user
            ELSE reader.pos = Min(seen)
=============================================================================
