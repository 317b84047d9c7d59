----------------------------- MODULE VersionSet -----------------------------
(***************************************************************************)
(* The levels of LevelDB: Version, VersionSet and Compaction of            *)
(* src/database/leveldb/db/version_set.cc with the merging loop of         *)
(* DBImpl::DoCompactionWork.  A lookup goes level by level and stops at    *)
(* the first file that answers, so everything depends on which files a     *)
(* compaction takes, which entries it drops and where it cuts its output.  *)
(*                                                                         *)
(* An entry is an internal key [key, seq, del]; its sequence number stands *)
(* for its value.  The size of a file is its number of entries.            *)
(***************************************************************************)
EXTENDS Integers, Sequences, FiniteSets, SequencesExt, FiniteSetsExt

CONSTANTS MaxKey,          \* user keys are 1 .. MaxKey
          Ops,             \* what is written: pairs of a key and whether it is deleted
          MaxSeq,          \* bound: entries written
          MaxSnapshots,    \* bound: snapshots held at a time
          NumLevels,       \* config::kNumLevels
          MaxMemLevel,     \* config::kMaxMemCompactLevel
          L0Trigger,       \* config::kL0_CompactionTrigger
          LevelSize,       \* MaxBytesForLevel: LevelSize[l] entries at level l
          MaxFile,         \* max_file_size
          GrandParents,    \* MaxGrandParentOverlapBytes
          Expanded         \* ExpandedCompactionByteSizeLimit

ASSUME VersionConstants ==
    /\ MaxKey \in Nat \ {0} /\ MaxSeq \in Nat /\ MaxSnapshots \in Nat
    /\ Ops \subseteq (1 .. MaxKey) \X BOOLEAN
    /\ NumLevels \in Nat /\ NumLevels > 2
    /\ MaxMemLevel \in 0 .. NumLevels - 2
    /\ L0Trigger \in Nat \ {0} /\ MaxFile \in Nat \ {0}
    /\ LevelSize \in [1 .. NumLevels - 2 -> Nat \ {0}]
    /\ GrandParents \in Nat /\ Expanded \in Nat

VARIABLES mem,        \* entries of the memtable
          levels,     \* current_->files_: level -> list of files, each the set of its entries
          lastSeq,    \* last_sequence_
          snapshots,  \* sequence numbers of the live snapshots
          pointer,    \* compact_pointer_: level -> an entry, or NoKey
          seek,       \* file_to_compact_ with its level, {} or a singleton
          comp,       \* the compaction in progress, {} or a singleton
          written     \* history: every entry ever written
vars == <<mem, levels, lastSeq, snapshots, pointer, seek, comp, written>>

Keys == 1 .. MaxKey
Levels == 0 .. NumLevels - 1
NoKey == [key |-> 0, seq |-> 0, del |-> FALSE]

-----------------------------------------------------------------------------
(* Internal keys (dbformat) *)

\* InternalKeyComparator: user keys go up, sequence numbers down.
Before(a, b) == a.key < b.key \/ (a.key = b.key /\ a.seq > b.seq)

\* A set as a list in the given order.
Ordered(S, less(_, _)) ==
    [i \in 1 .. Cardinality(S) |->
        CHOOSE x \in S : Cardinality({y \in S : less(y, x)}) = i - 1]
InOrder(entries) == Ordered(entries, Before)

Smallest(f) == CHOOSE e \in f : \A d \in f : d = e \/ Before(e, d)
Largest(f) == CHOOSE e \in f : \A d \in f : d = e \/ Before(d, e)

\* LookupKey: sorts before the entries of key at snap or older.
LookupKey(key, snap) == [key |-> key, seq |-> snap, del |-> FALSE]

\* TotalFileSize: no entry is in two files.
Size(files) == Cardinality(UNION files)

Files(lv, l) == ToSet(lv[l])

\* The list that Builder keeps: sorted by smallest key, at level 0 too.
Sorted(files) == Ordered(files, LAMBDA f, g : Before(Smallest(f), Smallest(g)))

-----------------------------------------------------------------------------
(* Looking up a key *)

\* FindFile: binary search for the first file whose largest key is not
\* before the target.
Narrowed(list, target, s) ==
    LET mid == (s.left + s.right) \div 2
    IN  IF s.left >= s.right THEN s
        ELSE IF Before(Largest(list[mid + 1]), target) THEN [s EXCEPT !.left = mid + 1]
        ELSE [s EXCEPT !.right = mid]
FindFile(list, target) ==
    LET loop[i \in 0 .. Len(list)] ==
            IF i = 0 THEN [left |-> 0, right |-> Len(list)]
            ELSE Narrowed(list, target, loop[i - 1])
    IN  loop[Len(list)].right + 1

\* Table::InternalGet and SaveValue: the first entry at or after the target,
\* if it is of the same user key.
TableGet(f, target) ==
    LET after == {e \in f : ~Before(e, target)}
    IN  IF after # {} /\ Smallest(after).key = target.key THEN Smallest(after) ELSE NoKey

Covers(f, key) == Smallest(f).key <= key /\ key <= Largest(f).key

\* A newer file at level 0 has newer entries.
NewestFirst(f, g) == Max({e.seq : e \in f}) > Max({e.seq : e \in g})

\* ForEachOverlapping: the files a lookup visits, with their levels.
Visited(lv, target) ==
    LET zero == Ordered({f \in Files(lv, 0) : Covers(f, target.key)}, NewestFirst)
        At(l) == FindFile(lv[l], target)
        deep == Ordered({l \in 1 .. NumLevels - 1 :
                           At(l) <= Len(lv[l]) /\ Smallest(lv[l][At(l)]).key <= target.key}, <)
    IN  [i \in DOMAIN zero |-> [file |-> zero[i], level |-> 0]] \o
        [i \in DOMAIN deep |-> [file |-> lv[deep[i]][At(deep[i])], level |-> deep[i]]]

\* Version::Get: the first file visited that holds the key decides.
VersionGet(lv, target) ==
    LET visited == Visited(lv, target)
        hits == {i \in DOMAIN visited : TableGet(visited[i].file, target) # NoKey}
    IN  IF hits = {} THEN NoKey ELSE TableGet(visited[Min(hits)].file, target)

\* DBImpl::Get: the memtable first.
Get(key, snap) ==
    LET target == LookupKey(key, snap)
        inMem == TableGet(mem, target)
    IN  IF inMem # NoKey THEN inMem ELSE VersionGet(levels, target)

-----------------------------------------------------------------------------
(* Choosing files *)

Meets(f, lo, hi) == Largest(f).key >= lo /\ Smallest(f).key <= hi

\* The user keys the files span.
Low(files) == Smallest(UNION files).key
High(files) == Largest(UNION files).key

\* GetOverlappingInputs: at level 0 a file that is added widens the range and
\* the search starts again.
Meeting(files, lo, hi) == {f \in files : Meets(f, lo, hi)}
Widened(files, lo, hi, found) ==
    IF found = {} THEN {} ELSE Meeting(files, Min({lo, Low(found)}), Max({hi, High(found)}))
Overlapping(lv, level, lo, hi) ==
    LET files == Files(lv, level)
        widen[i \in Nat] == IF i = 0 THEN Meeting(files, lo, hi)
                            ELSE Widened(files, lo, hi, widen[i - 1])
    IN  IF level = 0 THEN widen[Len(lv[0])] ELSE Meeting(files, lo, hi)

\* Mutant: only level 0 is looked at.
PickLevelBlind(lv, f) ==
    IF \E g \in Files(lv, 0) : Meets(g, Smallest(f).key, Largest(f).key) THEN 0
    ELSE MaxMemLevel

\* PickLevelForMemTableOutput: as deep as nothing is overlapped on the way.
PickLevel(lv, f) ==
    LET lo == Smallest(f).key
        hi == Largest(f).key
        Fits(l) == /\ \A g \in Files(lv, l) : ~Meets(g, lo, hi)
                   /\ l + 1 < NumLevels =>
                        Size(Overlapping(lv, l + 1, lo, hi)) <= GrandParents
    IN  IF \E g \in Files(lv, 0) : Meets(g, lo, hi) THEN 0
        ELSE Max({l \in 0 .. MaxMemLevel : \A m \in 1 .. l : Fits(m)})

\* Mutant: no boundary files.
NoBoundary(level, files) == files

\* AddBoundaryInputs: files of the level that go on with the user key at
\* which the chosen ones end, so that no newer entry moves below an older.
Following(level, files) ==
    {g \in level : Before(Largest(UNION files), Smallest(g)) /\ Smallest(g).key = High(files)}
WithNext(level, files) ==
    IF Following(level, files) = {} THEN files
    ELSE files \cup {Sorted(Following(level, files))[1]}
Boundary(level, files) ==
    LET add[i \in Nat] == IF i = 0 THEN files ELSE WithNext(level, add[i - 1])
    IN  IF files = {} THEN {} ELSE add[Cardinality(level)]

\* What no reader can see: older than this and overwritten.
OldestSnapshot == IF snapshots = {} THEN lastSeq ELSE Min(snapshots)

\* SetupOtherInputs: the files of the next level, and more of this level if
\* that costs none of the next.
Inputs(lv, level, first) ==
    LET zero == Boundary(Files(lv, level), first)
        one == Overlapping(lv, level + 1, Low(zero), High(zero))
        range == zero \cup one
        more == Boundary(Files(lv, level), Overlapping(lv, level, Low(range), High(range)))
        one2 == Overlapping(lv, level + 1, Low(more), High(more))
        expand == /\ one # {}
                  /\ Cardinality(more) > Cardinality(zero)
                  /\ Size(one) + Size(more) < Expanded
                  /\ Cardinality(one2) = Cardinality(one)
        in0 == IF expand THEN more ELSE zero
        in1 == IF expand THEN one2 ELSE one
        all == in0 \cup in1
    IN  [level |-> level, in0 |-> in0, in1 |-> in1, version |-> lv,
         smallest |-> OldestSnapshot,
         grand |-> IF level + 2 < NumLevels
                   THEN Sorted(Overlapping(lv, level + 2, Low(all), High(all))) ELSE <<>>]

\* Finalize: the level with the highest score.  Scores are fractions; a level
\* of the same score as a lower one is not preferred.
Scored(lv, l) == IF l = 0 THEN [n |-> Len(lv[0]), d |-> L0Trigger]
                 ELSE [n |-> Size(Files(lv, l)), d |-> LevelSize[l]]
Higher(a, b) == a.n * b.d > b.n * a.d
BestLevel(lv) ==
    CHOOSE l \in 0 .. NumLevels - 2 : \A m \in 0 .. NumLevels - 2 :
        /\ ~Higher(Scored(lv, m), Scored(lv, l))
        /\ m < l => Higher(Scored(lv, l), Scored(lv, m))
NeedsSize(lv) == Scored(lv, BestLevel(lv)).n >= Scored(lv, BestLevel(lv)).d

\* PickCompaction: the file after the compaction pointer, or the first; at
\* level 0 all the files that overlap it.
FirstFile(level) ==
    LET list == levels[level]
        after == {i \in DOMAIN list : pointer[level] = NoKey
                                        \/ Before(pointer[level], Largest(list[i]))}
    IN  IF after = {} THEN list[1] ELSE list[Min(after)]
Picked ==
    LET level == IF NeedsSize(levels) THEN BestLevel(levels)
                 ELSE (CHOOSE s \in seek : TRUE).level
        file == IF NeedsSize(levels) THEN FirstFile(level)
                ELSE (CHOOSE s \in seek : TRUE).file
        first == IF level > 0 THEN {file}
                 ELSE Overlapping(levels, 0, Smallest(file).key, Largest(file).key)
    IN  Inputs(levels, level, first)

IsTrivialMove(c) ==
    /\ Cardinality(c.in0) = 1 /\ c.in1 = {}
    /\ Size(ToSet(c.grand)) <= GrandParents

-----------------------------------------------------------------------------
(* DoCompactionWork *)

\* Mutant: the level after that of the outputs is not looked at.
IsBaseLevelMutant(c, key) ==
    \A l \in c.level + 3 .. NumLevels - 1 : \A f \in Files(c.version, l) : ~Covers(f, key)
\* IsBaseLevelForKey
IsBaseLevel(c, key) ==
    \A l \in c.level + 2 .. NumLevels - 1 : \A f \in Files(c.version, l) : ~Covers(f, key)

\* ShouldStopBefore: how many grandparents the key has passed, and their size.
Passed(c, acc, e) ==
    Cardinality({i \in acc.gp + 1 .. Len(c.grand) :
                    \A j \in acc.gp + 1 .. i : Before(Largest(c.grand[j]), e)})
Overlap(c, acc, e) ==
    IF ~acc.seen THEN acc.overlap
    ELSE acc.overlap + Size({c.grand[i] : i \in acc.gp + 1 .. acc.gp + Passed(c, acc, e)})

\* The loop, one input entry after the other: acc.last is the sequence number
\* of the previous entry of the same user key.
MergeStep(c, acc, e) ==
    LET stop == Overlap(c, acc, e) > GrandParents
        outs == IF stop THEN acc.outs \cup {acc.cur} ELSE acc.outs
        cur == IF stop THEN {} ELSE acc.cur
        last == IF e.key # acc.key THEN MaxSeq + 1 ELSE acc.last
        drop == \/ last <= c.smallest
                \/ e.del /\ e.seq <= c.smallest /\ IsBaseLevel(c, e.key)
        cur2 == IF drop THEN cur ELSE cur \cup {e}
        full == Cardinality(cur2) >= MaxFile
    IN  [outs |-> IF full THEN outs \cup {cur2} ELSE outs,
         cur |-> IF full THEN {} ELSE cur2,
         gp |-> acc.gp + Passed(c, acc, e), seen |-> TRUE,
         overlap |-> IF stop THEN 0 ELSE Overlap(c, acc, e),
         key |-> e.key, last |-> e.seq]
MergeStart == [outs |-> {}, cur |-> {}, gp |-> 0, seen |-> FALSE, overlap |-> 0,
               key |-> 0, last |-> 0]
Merge(c) ==
    LET list == InOrder(UNION (c.in0 \cup c.in1))
        after[i \in 0 .. Len(list)] ==
            IF i = 0 THEN MergeStart ELSE MergeStep(c, after[i - 1], list[i])
        done == after[Len(list)]
    IN  (done.outs \cup {done.cur}) \ {{}}

\* Mutant: the outputs stay at the level of the inputs.
InstallSameLevel(c, outs) ==
    [l \in Levels |-> IF l = c.level THEN Sorted((Files(levels, l) \ c.in0) \cup outs)
                      ELSE IF l = c.level + 1 THEN Sorted(Files(levels, l) \ c.in1)
                      ELSE levels[l]]

\* VersionSet::Builder with the edit of a compaction.
Install(c, outs) ==
    [l \in Levels |-> IF l = c.level THEN Sorted(Files(levels, l) \ c.in0)
                      ELSE IF l = c.level + 1 THEN Sorted((Files(levels, l) \ c.in1) \cup outs)
                      ELSE levels[l]]

-----------------------------------------------------------------------------
Init ==
    /\ mem = {} /\ lastSeq = 0 /\ written = {}
    /\ levels = [l \in Levels |-> <<>>]
    /\ snapshots = {}
    /\ pointer = [l \in Levels |-> NoKey]
    /\ seek = {} /\ comp = {}

Write(op) ==
    /\ lastSeq < MaxSeq
    /\ LET e == [key |-> op[1], seq |-> lastSeq + 1, del |-> op[2]] IN
        /\ mem' = mem \cup {e}
        /\ written' = written \cup {e}
    /\ lastSeq' = lastSeq + 1
    /\ UNCHANGED <<levels, snapshots, pointer, seek, comp>>

\* CompactMemTable, also in the middle of a compaction.  A new version has
\* no file_to_compact_.
Flush ==
    /\ mem # {}
    /\ LET l == PickLevel(levels, mem)
       IN  levels' = [levels EXCEPT ![l] = Sorted(Files(levels, l) \cup {mem})]
    /\ mem' = {}
    /\ seek' = {}
    /\ UNCHANGED <<lastSeq, snapshots, pointer, comp, written>>

GetSnapshot ==
    /\ Cardinality(snapshots) < MaxSnapshots /\ lastSeq > 0
    /\ snapshots' = snapshots \cup {lastSeq}
    /\ UNCHANGED <<mem, levels, lastSeq, pointer, seek, comp, written>>

ReleaseSnapshot(s) ==
    /\ snapshots' = snapshots \ {s}
    /\ UNCHANGED <<mem, levels, lastSeq, pointer, seek, comp, written>>

\* Version::RecordReadSample: an iterator crosses a key that two files may
\* hold, once too often (allowed_seeks).
RecordReadSample(e) ==
    /\ seek = {}
    /\ Len(Visited(levels, e)) >= 2
    /\ seek' = {Visited(levels, e)[1]}
    /\ UNCHANGED <<mem, levels, lastSeq, snapshots, pointer, comp, written>>

\* BackgroundCompaction with PickCompaction: a file is moved, or the inputs
\* and the smallest snapshot are fixed and mutex_ is released.
Compact ==
    /\ comp = {}
    /\ NeedsSize(levels) \/ seek # {}
    /\ \E c \in {Picked} :
           /\ pointer' = [pointer EXCEPT ![c.level] = Largest(UNION c.in0)]
           /\ IF IsTrivialMove(c)
              THEN /\ levels' = Install(c, c.in0)
                   /\ seek' = {}
                   /\ comp' = comp
              ELSE /\ comp' = {c}
                   /\ UNCHANGED <<levels, seek>>
    /\ UNCHANGED <<mem, lastSeq, snapshots, written>>

\* InstallCompactionResults
FinishCompaction ==
    /\ comp # {}
    /\ \E c \in comp : levels' = Install(c, Merge(c))
    /\ comp' = {} /\ seek' = {}
    /\ UNCHANGED <<mem, lastSeq, snapshots, pointer, written>>

Background == Compact \/ FinishCompaction
Next ==
    \/ \E op \in Ops : Write(op)
    \/ Flush
    \/ GetSnapshot
    \/ \E s \in snapshots : ReleaseSnapshot(s)
    \/ \E e \in written : RecordReadSample(e)
    \/ Background

\* The background thread runs whenever it is scheduled: weak fairness of
\* Background, with its enabling condition (NeedsCompaction, or a compaction
\* under way) and what it alone changes written out.
Scheduled == comp # {} \/ seek # {} \/ NeedsSize(levels)
Spec == /\ Init /\ [][Next]_vars
        /\ []<>~Scheduled \/ []<><<comp' # comp \/ pointer' # pointer>>_vars

-----------------------------------------------------------------------------
(* Properties *)

\* Below level 0 the files of a level do not overlap: what MaybeAddFile
\* asserts of every version, those that a flush installs in the middle of a
\* compaction included.  FindFile's binary search depends on it.
LevelsSorted ==
    \A l \in 1 .. NumLevels - 1 : \A i \in 2 .. Len(levels[l]) :
        Before(Largest(levels[l][i - 1]), Smallest(levels[l][i]))

\* An entry at a higher level is newer than every entry of its key at a deeper
\* one, and one of the memtable newer than both, also while snapshots keep
\* several entries of a key and the outputs of a compaction cut them apart: this
\* is what Version::Get relies on when it stops at the first level that has the
\* key, and what AddBoundaryInputs is for.
LayersOrdered ==
    /\ \A l \in Levels : \A e \in mem, d \in UNION Files(levels, l) :
           e.key = d.key => e.seq > d.seq
    /\ \A l, m \in Levels : l < m =>
           \A e \in UNION Files(levels, l), d \in UNION Files(levels, m) :
               e.key = d.key => e.seq > d.seq

\* What the entries written so far say of key at snap.
Truth(key, snap) ==
    LET seen == {e \in written : e.key = key /\ e.seq <= snap}
    IN  IF seen = {} THEN NoKey ELSE CHOOSE e \in seen : \A d \in seen : d.seq <= e.seq
Visible(e) == IF e.del THEN NoKey ELSE e

\* Get returns the newest value not newer than the reader's snapshot, for
\* every key, now and at every snapshot still held, whatever was flushed,
\* moved, merged or dropped.  It fails once a snapshot was taken: a deletion
\* marker can be dropped while the value it hides stays in a neighbouring file
\* of the next level (SetupOtherInputs looks for boundary files of inputs_[0]
\* only).
GetCorrect ==
    \A key \in Keys : \A snap \in snapshots \cup {lastSeq} :
        Visible(Get(key, snap)) = Visible(Truth(key, snap))

\* As long as no snapshot is taken, which is how this repository uses LevelDB,
\* Get returns the newest value of every key and none of a deleted one,
\* whatever was flushed, moved, merged or dropped.
GetWithoutSnapshots == [](snapshots = {}) => []GetCorrect

\* Compactions catch up with the writes: no level stays over its limit.
Settles == []<>~Scheduled
=============================================================================
