--------------------------- MODULE MCLevelDBParts ---------------------------
(***************************************************************************)
(* The parts of LevelDB below DBImpl and VersionSet, each explored on its  *)
(* own in one run: the iterators, the formats of log, block, table, batch  *)
(* and version edit, the structures in memory and the POSIX environment.   *)
(***************************************************************************)
EXTENDS LogFormat

CONSTANTS BlockKeys, BlockMax, Interval,
          UserKeys, TopByte, TopSeq, TableMax, BlockSize, FilterBase,
          Hash, Delta, Bits, Probes,
          GroupBits, NumberBits, KLevels, Batches, Edits,
          Users, MaxSeq, MaxHeight,
          Tables, HashOf, ChargeOf, Threads, Handles, Capacity, FirstLength,
          ArenaBlock, Align, Sizes, MaxAllocs,
          MaxKey, Loaded, IterSeq,
          BufferSize, AppendSizes, MaxBytes, MaxFailures,
          Openers, MaxMmaps, MaxOpenFiles, MaxOpens, MaxWork

VARIABLES part,
          entries, restarts, counter, lastKey, keys, finished, iter, expect,
          added, rep, closed,
          kind, source, bytes, at, got, verdict,
          link, maxHeight, writer, inserted, written, lastSeq, reader,
          heap, chains, lru, inUse, usage, thread,
          arenaBlocks, ptr, remaining, allocs,
          mem, blocks, last, sequence, pos, current, mdir, dir, valid, saved, pc, skipping,
          type, want,
          content, durable, wfile, appended, failures, lostTo, promised,
          allowed, opener, fds, opens, work, background, scheduled, ran

B == INSTANCE BlockFormat
T == INSTANCE TableFormat
R == INSTANCE RecordFormat
S == INSTANCE SkipList
C == INSTANCE LRUCache
A == INSTANCE Arena WITH blocks <- arenaBlocks
I == INSTANCE DBIter WITH MaxSeq <- IterSeq
E == INSTANCE PosixEnv

-----------------------------------------------------------------------------
(* Constants *)

MCBlockKeys == {<<0>>, <<0, 0>>, <<0, 1>>, <<0, 1, 0>>, <<1>>, <<1, 0>>, <<1, 1>>, <<1, 1, 1>>}

\* 3 stands for the byte 0xff.
MCUserKeys == {<<0>>, <<0, 1>>, <<0, 3>>, <<1, 0>>, <<1, 3>>, <<3>>, <<3, 3>>}
MCHash == [u \in MCUserKeys |-> u[1] + 4 * Len(u)]
MCDelta == [h \in 0 .. 11 |-> 1 + (h % 3)]

MCStrings == {<<>>, <<5>>, <<3, 7, 4, 1, 0>>}
MCNumbers == {0, 3, 4, 31}
UpToTwo(X) == {<<>>} \cup {<<a>> : a \in X} \cup {<<a, b>> : a, b \in X}
MCBatches == UpToTwo([tag : {0}, args : {<<s>> : s \in MCStrings}] \cup
                     [tag : {1}, args : {<<s, t>> : s, t \in MCStrings}])
MCEdits == UpToTwo([tag : {1}, args : {<<s>> : s \in MCStrings}] \cup
                   [tag : {2, 9}, args : {<<n>> : n \in MCNumbers}] \cup
                   [tag : {5}, args : {<<l, s>> : l \in {0, 6}, s \in MCStrings}] \cup
                   [tag : {6}, args : {<<l, n>> : l \in {0, 6}, n \in MCNumbers}] \cup
                   [tag : {7}, args : {<<6, 31, n, <<5>>, s>> : n \in MCNumbers, s \in MCStrings}])

\* Tables 1 and 2 share a bucket until the hash table has four.
MCHashOf == <<1, 3, 2>>
MCChargeOf == <<1, 1, 2>>

-----------------------------------------------------------------------------
blockVs == <<entries, restarts, counter, lastKey, keys, finished, iter, expect>>
tableVs == <<added, rep, closed>>
recordVs == <<kind, source, bytes, at, got, verdict>>
skipVs == <<link, maxHeight, writer, inserted, written, lastSeq, reader>>
cacheVs == <<heap, chains, lru, inUse, usage, thread>>
arenaVs == <<arenaBlocks, ptr, remaining, allocs>>
iterVs == <<mem, blocks, last, sequence, pos, current, mdir, dir, valid, saved, pc, skipping,
            type, want>>
fileVs == <<logVars, blockVs, tableVs, recordVs>>
memoryVs == <<skipVs, cacheVs, arenaVs>>
writeVs == <<content, durable, wfile, appended, failures, lostTo, promised>>
openVs == <<allowed, opener, fds, opens>>
workVs == <<work, background, scheduled, ran>>
envVs == <<writeVs, openVs, workVs>>

NoRecord == /\ kind = "batch" /\ source = <<>> /\ bytes = <<>>
            /\ at = 0 /\ got = <<>> /\ verdict = "ok"
NoIter == /\ mem = {} /\ blocks = <<>> /\ last = 0 /\ sequence = 0 /\ pos = <<>>
          /\ current = 0 /\ mdir = "forward" /\ dir = "forward" /\ valid = FALSE
          /\ saved = 0 /\ pc = "idle" /\ skipping = FALSE /\ type = FALSE /\ want = 0

Init == /\ part \in {"log", "block", "table", "record", "memtable", "cache", "arena", "iter",
                     "env file", "env tables", "env work"}
        /\ LogInit /\ B!BlockInit /\ T!TableInit
        /\ IF part = "record" THEN R!RecordInit ELSE NoRecord
        /\ S!SkipInit /\ C!CacheInit /\ A!ArenaInit
        /\ IF part = "iter" THEN I!Init ELSE NoIter
        /\ E!EnvInit

FileStep ==
    \/ part = "log" /\ LogNext /\ UNCHANGED <<blockVs, tableVs, recordVs>>
    \/ part = "block" /\ B!BlockNext /\ UNCHANGED <<logVars, tableVs, recordVs>>
    \/ part = "table" /\ T!TableNext /\ UNCHANGED <<logVars, blockVs, recordVs>>
    \/ part = "record" /\ R!RecordNext /\ UNCHANGED <<logVars, blockVs, tableVs>>
MemoryStep ==
    \/ part = "memtable" /\ S!SkipNext /\ UNCHANGED <<cacheVs, arenaVs>>
    \/ part = "cache" /\ C!CacheNext /\ UNCHANGED <<skipVs, arenaVs>>
    \/ part = "arena" /\ A!ArenaNext /\ UNCHANGED <<skipVs, cacheVs>>
EnvStep ==
    \/ part = "env file" /\ E!WriteStep /\ UNCHANGED <<openVs, workVs>>
    \/ part = "env tables" /\ E!OpenStep /\ UNCHANGED <<writeVs, workVs>>
    \/ part = "env work" /\ E!WorkStep /\ UNCHANGED <<writeVs, openVs>>

Next ==
    \/ FileStep /\ UNCHANGED <<part, memoryVs, iterVs, envVs>>
    \/ MemoryStep /\ UNCHANGED <<part, fileVs, iterVs, envVs>>
    \/ part = "iter" /\ I!NextStep /\ UNCHANGED <<part, fileVs, memoryVs, envVs>>
    \/ EnvStep /\ UNCHANGED <<part, fileVs, memoryVs, iterVs>>

Spec == Init /\ [][Next]_<<part, fileVs, memoryVs, iterVs, envVs>>

-----------------------------------------------------------------------------
\* What LevelDB wrote it reads back: log_reader.cc returns the records that
\* log_writer.cc wrote, and the batches and version edits in them survive
\* encoding and decoding.
LogCorrect ==
    /\ part = "log" => LogReadsBack
    /\ part = "record" => R!DecodesWhatWasEncoded

\* Block::Iter stands where it should after every move.
BlockIterCorrect == part = "block" => B!BlockIterCorrect

\* Table::InternalGet finds what the table holds.
TableGetCorrect == part = "table" => T!TableGetCorrect

\* The memtable: readers of the skip list find what was published to them,
\* and the arena's allocations, of which its nodes are made, do not overlap.
MemTableIntact ==
    /\ part = "memtable" => S!SearchesFind
    /\ part = "arena" => A!ArenaDisjoint

\* The cache's references, lists and charges agree.
CacheIntact == part = "cache" => C!CacheIntact

\* DBIter stands on the key it was asked for.
IterCorrect == part = "iter" => I!IterCorrect

\* env_posix.cc: a file keeps what it was given in order and what a Sync
\* promised, the limiters are never exceeded and lose nothing, and the
\* background thread runs every item of its queue.
EnvCorrect ==
    /\ part = "env file" => E!FileInOrder
    /\ part = "env tables" => E!TablesLimited
    /\ part = "env work" => E!WorkRuns
=============================================================================
