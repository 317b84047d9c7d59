# A TLA+ model of PMRAccess

PMRAccess is a key-value service over RDMA. Clients write records into a memory
region of the server by one-sided writes; a thread of the server per client (a
*clerk*) indexes or stores the record and answers. The repository has three
front ends with the same client interface (PUT, UPDATE, GET, DELETE, CLOSE):

* **pmr** puts records into chunks of a persistent memory region, answers at
  once, and moves full chunks to the database and a log file later;
* **group** collects requests of all clerks into batches, which a leader writes
  to the database and a log;
* **pmem** writes each record to a ring in persistent memory and to the database.

Below them are two databases (LevelDB and CuckooDB, which is libcuckoo's hash
map), the RDMA layer, and the lock-free queue between clerks and log writer.
LevelDB, libcuckoo and the queue are kept in the repository and built with it,
and the answers of the front ends are only as good as theirs, so they are
modelled too, as far as this program uses them.

This directory has TLA+ modules translated from that code, TLC configurations
that check them on small instances, and TLAPS proofs of what matters most for
every size.

## 1. Inventory

| component | state | operations | talks to |
|---|---|---|---|
| PMR client, `frontend/pmr/pmr.cc:43-212` | `chunk_offset_`, `buf_head_`, header word | Connect, SendWrite, SendGet, SendDelete, SendClose, SendAlloc | its clerk (request, reply), the chunk (one-sided write) |
| PMR clerk, `pmr.cc:214-348` | `chunk_offset_`, `buf_head_`, `key_batch`, `metas` | one case of `Run` per operation | `map_`, database, `bitmap_`, `global_queue` |
| PMR server, `pmr.cc:350-436` | `map_`, `bitmap_`, chunks, `clerk_num_` | Listen, AllocChunk, FreeChunk | clerks, uring thread |
| log writer, `pmr.cc:14-41`, `uring.h` | `inflight_`, `offset_`, ring | Write, Submit, Wait, Seen, Full, Empty | `global_queue`, kernel, FreeChunk |
| chunk allocator, `atomicbitset.h` | `data_` | blindset, set, clear, get | clerks (set), uring thread (clear) |
| group front end, `frontend/group/` | `writers_queue`, the static `batch`, `Writer::done`, `cv` | Send*, Run, BuildBatchGroup | database, ring log |
| pmem front end, `frontend/pmem/` | `buf_head_`, ring in persistent memory | Send*, Run, Listen | database |
| RDMA and sockets, `rdmautil/`; accept loops | queue pairs, buffers, header words | default_connect, post_*, poll_one_completion, Listen | all front ends |
| database adapters, `database/db.h` | the database | Put, Get, Update, Delete, PutBatch | LevelDB, libcuckoo |
| LevelDB, `database/leveldb/` | memtables, versions, logs, MANIFEST, tables, caches | Open, Write, Get, iterators, snapshots, background work | POSIX environment |
| libcuckoo (twice, the same files) | buckets, old buckets, spinlocks | insert_or_assign, find, erase | CuckooDB, `map_` |
| concurrentqueue, `frontend/pmr/concurrentqueue.h` | producers, blocks, block index, free list | enqueue, try_dequeue, thread exit | clerks, uring thread |
| benchmark, test, scripts, command line, kernel patches | workload, options | | clients |

What is hard here, and the properties that make the component correct:

* **Two owners of a cursor**, client and clerk. `BatchIntact`, `Connections`.
* **A chunk passes through four hands** (clerk, queue, ring, bitset) without a
  lock. `ChunkOwnership`, `AckedKept`, `Drained`, `RingBounded`.
* **A record moves from the index to the database** while other clerks look it
  up. `GetFinds`, `ReadYourWrites`.
* **Test and set of the bitset are two steps**, with relaxed loads.
  `BitsAreOwned`, `IsChunkPool`, `FindsFreeBit`.
* **The batch leader works without the mutex**, and signals can be lost.
  `AckedLogged`, `LogReplays`, `IsKVStore`, `CallReturns`, `DeletedNotFound`.
* **A connection is set up by two sides at once**, and requests are pairs of
  RDMA writes. `MessageBeforeHeader`, `Served`, `ConnectReturns`.
* **LevelDB recovers from crashes** between any two steps of writing, flushing,
  compacting, installing versions and removing files. `AckedOnDisk`, `Reopens`,
  `RestartSame`; it reads without locks while all that goes on: `ReadsSnapshot`;
  it moves entries between levels that must stay searchable: `LevelsSorted`,
  `LayersOrdered`, `GetWithoutSnapshots`, `Settles`; writers wait for a background thread: `WritesReturn`.
* **Formats that end anywhere**, iterators with a direction, lists read while
  they are written. `LogCorrect`, `BlockIterCorrect`, `TableGetCorrect`,
  `IterCorrect`, `MemTableIntact`, `CacheIntact`,
  `EnvCorrect`.
* **Lock-free and striped-lock containers.** `TableCorrect`, `QueueDelivers`,
  `FreeListIntact`, `ProducersOwned`.

`PROJECT.json` lists the hazards one by one, with the line where each bites.

## 2. Modules

| module | models |
|---|---|
| `PMRAccess` | pmr front end: clients, clerks, index, chunks, queue, uring thread |
| `PMRAccessProofs` | its theorems: protocol, chunks and ring; what is stored, kept and found |
| `AtomicBitset`, `ChunkPool` | the bitset by atomic operations; the pool it promises |
| `GroupCommit`, `GroupCommitProofs` | group front end with queue, leader, batch, log; its theorems |
| `PMemAccess`, `PMemAccessProofs` | pmem front end with its ring; its theorems |
| `KVStore` | what a front end promises: a linearizable map |
| `RDMALink`, `RDMALinkProofs` | accept loops, connection set-up, posts and completions of the three front ends; its theorem |
| `DBImpl`, `DBImplProofs` | LevelDB: writers, memtables, log, MANIFEST, tables, background thread, recovery, crashes; its theorems |
| `VersionSet`, `VersionSetProofs` | LevelDB: levels, choice and execution of compactions, lookup; its theorems |
| `DBIter` | LevelDB: DBIter over MergingIterator over TwoLevelIterator |
| `LogFormat`, `BlockFormat`, `TableFormat`, `RecordFormat` | LevelDB: log files; blocks; tables with index and filter; varint-coded batches and edits |
| `SkipList`, `Arena`, `LRUCache` | LevelDB: memtable, its memory, the cache of open tables |
| `PosixEnv` | LevelDB: buffered files, limiters, background queue |
| `CuckooMap` | libcuckoo |
| `ConcurrentQueue`, `FreeList`, `ProducerHash` | the queue: blocks and indexes; block reuse; threads and their producers |
| `LockFreeProofs` | theorems about the bitset and about block reuse |
| `NatLemmas` | induction over numbers, least and greatest elements, recursion, sums |
| `MC*` | constants for TLC; `MCLevelDBParts`, `MCServerStructs` and `MCServerLive` explore several parts in one run, each on its own |

### Correspondence with the code

`PMRAccess`. An action is one access to state that another thread sees.
`Connect`, `SendWrite`, `SendGet`, `SendDelete`, `SendClose` are the part of the
client's method up to the spin on `*header_`; `ReturnAlloc` and `Return` are the
part after it. `SendWrite` calls `SendAlloc` in the middle: the record then waits
in `pend`, and `ReturnAlloc` carries on with `WriteRecord`. The cases of
`PMRClerk::Run` are cut where another thread can come in between: GET between
`map_.find` and the `memcpy` (`GetCopy`) or the database (`GetDb`); ALLOC and
CLOSE between the copy of the chunk, `PutBatch`, each `map_.erase` (`Erase`),
`enqueue` (`Enqueue`) and `AllocChunk`. `UringDequeue`, `UringSubmit`,
`UringFree` are the parts of `UringRun`; `WriteDone` and `WriteFailed` are the
kernel. History variables (`acked`, `gone`, `lost`, `rd`) are read by no guard.
`COPY2DRAM` is defined in `pmr.cc:6`, so the copy in `tmp_buf` is modelled.

`GroupCommit`. What a clerk does between locking and unlocking `global_mutex` is
one step: `Enqueue` (becoming leader at once if alone), `Wake` and `SpuriousWake`
(return of `cv.Wait` and the loop's test), `BuildBatchGroup`, `Finish`. The
unlocked parts are steps of their own: the leader's `usleep`, `PutBatch`,
`LogBatch`, `ClerkGet`. `woken` holds the writers signalled while they wait; a
signal for anyone else is lost. `LogBatch` writes any number of the batch's bytes,
because nobody reads the result of `pwrite` (`ringlog.h:67`); the records that are
not in the file then are kept in the history variable `lost`. `dbtype`, chosen at the start, says whether the
database is LevelDB, whose batches are atomic and may fail, or CuckooDB.

`PMemAccess`. `SendWrite` places the record in the ring and sends it; `ClerkPut`,
`ClerkGet`, `ClerkDelete` call the database and answer.

`AtomicBitset`. `Get` and `Set` are the relaxed load and the `fetch_or` of one
iteration of `blindset`, `Clear` the `fetch_and` of the uring thread.

`RDMALink`. `frontend`, chosen at the start, selects the code of pmr, pmem or
group where they differ. One side has a program counter, a queue pair state, the
posts not yet executed and its buffer. The adapter executes the posts of one side
in order (`ToClerk`, `ToClient`), fails them when the other side is gone
(`Unreachable`) or the key does not fit the address (`BadKey`).

`DBImpl`. `waits` says on which condition variable a writer waits: its own, until
a leader signals it as a member of its group or as the new front of the queue
(`Signalled`), or `background_work_finished_signal_` (`WaitForRoom`), until the
background thread signals (`SignalAll`, at the end of `BackgroundCall`, after a
flush inside a compaction and in `RecordBackgroundError`). A writer that waits
does nothing, whatever the queue and the memtables are like; spurious wakeups,
which would hide a missing signal, are left out. Code under `mutex_` is one step; the steps are cut where it is
released: logging, syncing and inserting a group; building a table; opening,
filling and finishing a compaction; writing and syncing the MANIFEST; renaming
CURRENT; removing files. Files are functions from numbers to contents, with
the synced length of a log apart. `Crash` loses memory and, if the machine fails,
any unsynced suffix, the next record perhaps incomplete; recovery is again a
sequence of steps that can crash. A record written behind an incomplete one of
the same log may be unreadable (`Written`): the reader drops the rest of a block
in which it meets a bad record.
A compaction of `DBImpl` takes all tables of the version; `VersionSet` has the
levels and the real choice of inputs, and leaves out files and crashes.

`CuckooMap`. What a thread does between taking its locks and letting them go is
one step; taking each lock is a step. `FreeList`, `ProducerHash` and
`ConcurrentQueue` have one shared access per step.

### Abstractions

* In the front-end modules a request and its reply are one message each and a
  header word is a flag; `RDMALink` has the layer below and `MessageBeforeHeader`
  is what justifies it.
* A record is its writer, number, key and length. A chunk, a ring and a log file
  are sets of records at offsets; a write removes what it overlaps, and a read
  that does not find exactly one record yields `Torn`.
* PUT and UPDATE are one action: the code handles them in one case.
* LevelDB's batch is atomic, CuckooDB's is key by key. CuckooDB reports a
  missing key as found with an empty value; LevelDB reports NOTFOUND.
* A chunk is taken in one step in `PMRAccess`; `ImplementsChunkPool` is the
  theorem that justifies it, as `MessageBeforeHeaderCorrect` justifies messages
  that arrive whole. The queue between clerks and log writer is a
  sequence per clerk; `QueueDelivers` is what justifies that.
* In LevelDB an entry is an internal key whose sequence number stands for its
  value; sizes are numbers of entries; a checksum is right exactly when the
  bytes are those it was computed from.
* Atomic accesses are sequentially consistent, except the relaxed loads of the
  bitset and of `max_height_`, which may be stale.

## 3. What the runs check

Clients stop at some point, after which nothing happens any more, so all runs
say `CHECK_DEADLOCK FALSE`. That nobody stops too early is
what the liveness properties check.

| run | instance | properties |
|---|---|---|
| `pmr` | 2 clients with 3 and 1 operations, one own and one shared key, deletes, lengths 1 and 2, 2 chunks of 3, CuckooDB, ring of one entry, log writes that fail | `Connections`, `ChunkOwnership`, `RingBounded`, `BatchIntact`, `AckedKept`, `ReadYourWrites`, `GetFinds` |
| `server_live` | pmr: 2 clients, 2 chunks with room for one record, ring of one entry, LevelDB, failing database and log writes; bitset: 3 threads, 3 bits in words of 2, stale loads; link: 2 clients, 3 requests, queue pairs of 3 posts, each front end, failing set-up, dying clients | `CallReturns`, `Drained`, `BitsAreOwned`, `IsChunkPool`, `FindsFreeBit`, `MessageBeforeHeader`, `Served` |
| `group` | 3 clients with 2, 1, 1 operations: one puts and gets, one puts, one deletes; 1 key, records of 2 bytes, batches of up to 2 records, both databases, failing database writes, at most one record lost by log writes (`MaxLost`) that fail or fall short at any byte | `AckedLogged`, `LogReplays`, `IsKVStore`, `CallReturns` |
| `db` | a syncing writer of two-key batches, a deleting writer, a reader with a snapshot; at most 4 writes and 3 events, 5 of both together (`MaxSteps`) (events: crash of process or machine, failing append, sync, build, install), memtable of two entries, level 0 full with two tables, `reuse_logs` with logs that are not full and MANIFESTs of up to 2 edits written on | `Reopens`, `AckedOnDisk`, `ReadsSnapshot`, `RestartSame`, `WritesReturn` |
| `versions` | 3 keys, 4 writes, 1 snapshot, 4 levels that overflow after 1 and 2 entries, files of up to two entries | `LevelsSorted`, `LayersOrdered`, `GetWithoutSnapshots`, `Settles` |
| `leveldb_parts` | logs of 3 records in blocks of 5 with 3 faults; blocks of up to 6 keys; tables of up to 5; batches and edits of up to two items cut off anywhere; 3 insertions of heights to 3; 5 allocations; 3 threads, 3 tables, capacity 2; an iterator over 3 loaded entries and a growing memtable; a file of 10 bytes with 2 failures, 3 threads that open 6 tables, 4 work items | `LogCorrect`, `BlockIterCorrect`, `TableGetCorrect`, `MemTableIntact`, `CacheIntact`, `IterCorrect`, `EnvCorrect` |
| `server_structs` | pmem: 2 clients with 4 and 1 operations, 1 key, lengths 1 to 3, ring of 7, failing database writes; 3 threads on 4 keys, one slot to a bucket, doubling twice; 2 producers, 2 consumers, blocks of 2; 3 users of 2 blocks; 3 thread identifiers, table of 4 that grows | `RecentKept`, `IsKVStore`, `TableCorrect`, `QueueDelivers`, `FreeListIntact`, `ProducersOwned` |

**Why the bounds are enough.** Two clients are what every race of the pmr front
end takes: one that reads or allocates and one that flushes; the uring thread and
the kernel come on top. Two chunks of three units, with records of one and two,
reach the exact end of a chunk, its reuse by the other client and an empty pool.
A ring of one entry is full after one write. Three bits in words of two leave the
last word half used. Three group clients are a leader, a follower in its batch
and a writer left at the front; the lost record is a whole batch or the end of one,
and records of two bytes let a write end inside one. Four records of up to three
units go nearly twice round the pmem ring of seven. In `db` one batch fills a memtable and one delete does not, so
that three writes and a crash bring a flush inside a compaction and a live
memtable together, and a restart finds logs to write on and logs to flush; three
events are a failure and two crashes, or a snapshot, a crash and a failure. Four
writes make a writer wait for the flush of the immutable memtable and, with two
tables filling level 0, for a compaction. In `versions` four writes reach level 3 and put two
entries of a key into neighbouring files. One slot to a bucket makes the third
key take a cuckoo path and the fourth a doubling. Blocks of two make producers
and consumers cross blocks and grow the index. The log area of the group run is
large enough not to wrap (section 4).
Symmetry is over chunks (`pmr`) and over the consumers of the queue
(`server_structs`), which nothing distinguishes; only in runs without liveness.

**Fairness.** In the front ends each clerk, the uring thread, the kernel and a
waiting client's return are weakly fair: each is a thread or device that does not
wait for a competitor in that step, and a spin loop sees a header word that stays
set. Issuing another request is not fair, nor is a spurious wakeup or a failure.
`AllocChunk` is one weakly fair step although a thread in `blindset` could lose
every race: the runs have a chunk per client. That a thread
which looks at a bit again and again sees its present value some time, as C++ asks
of atomic stores, is a hypothesis of `FindsFreeBit` (`SeesSomeTime`, strong
fairness of that load). The fairness of the pmr front end and of the bitset's
threads is stated in `MCServerLive`, beside that of the link. In `RDMALink` the accept loop, each
thread and the adapter are weakly fair. The 50 us that a pmr client sleeps
before its first request (`pmr.cc:79`) order nothing, so the request may come
before the clerk is made (`rdma_first`). In `DBImpl` the writer at the front that
does not wait for a signal, the background thread and a recovery are weakly fair; crashes and errors are not. In
`VersionSet` a scheduled compaction runs some time.

## 4. What the checks found

| run | property | behaviour |
|---|---|---|
| `pmr_get_race` | `GetOwnKey` | GET copies from an address whose chunk was flushed, freed and rewritten after `map_.find` |
| `rdma_reply` | `RepliesArrive` | a reply too long to be inlined is sent from `send_buf` with the key of another region; the queue pair fails and the client waits for ever |
| `rdma_first` | `ConnectReturns` | the constructor of `PMRClerk` overwrites the header word of a request that arrived before it; `Connect` never returns |
| `group_delete` | `DeletedNotFound` | a DELETE is batched as a PUT of an empty value; with LevelDB the next GET of the key is answered OK |
| `versions_snapshot` | `GetCorrect` | a compaction with a snapshot leaves an old value behind and drops its deletion |

The following deviations are in the models, or were met while modelling, and
delimit what the passing runs may claim:

* pmr: a flush stores its value and erases the index entry of a key even when
  another clerk indexed a newer record (`pmr.cc:294-297`), so a GET can return a
  replaced value. DELETE leaves the index entry (`pmr.cc:277`), so the key is
  still found. `ReadYourWrites` is therefore about a key with one writer, and
  counts a DELETE only in the database.
* pmr: a client that closes without having written keeps its chunk allocated
  (`pmr.cc:313`); the runs have a chunk per client.
* group: the batch limit is tested after the copy (`group.cc:45`); a DELETE is
  batched like a write and stores a value of length 0, which a later GET finds
  (`group.cc:40`, run `group_delete`); the leader sends its reply without setting status or length (`group.cc:270`);
  the log position is compared with the end of the area one write too late
  (`ringlog.h:62`). `IsKVStore` takes a DELETE as a write of the empty value: it
  says that calls are linearizable, not that DELETE deletes.
* group: the results of `pwrite` and `fdatasync` are ignored (`ringlog.h:67-68`),
  so a request can be answered that is not in the log, and nothing in the
  repository reads the log back. `AckedLogged` and `LogReplays` therefore except
  the records of a write that failed, as `AckedKept` does for pmr; they say that
  nothing else loses a record or puts it out of order.
* pmem: `clerk_num_ * PMEM_BUFSIZE` is an int and overflows at the 128th clerk
  (`pmem.cc:262`).
* rdmautil: `default_connect` returns a positive error number while its callers
  test for -1 (`rdmautil.cc:17-31`, `pmr.cc:68`, `pmr.cc:401`), so a queue pair
  that was never brought up is used; a client that dies during the exchange of
  certificates ends the server; a device that cannot be opened leads to a null
  context. `Served` excepts these states, which the model reaches, and the first
  request of a pmr client that comes before its clerk (`FirstOverwritten`).
  `PMRAccess` begins behind it: its clients connect to a clerk that is there.
* LevelDB: an edit with an internal key of length 0 is encoded and not decoded
  (`GetInternalKey`, `version_edit.cc:86-93`); `DecodesWhatWasEncoded`, the part of
  `LogCorrect` about records, says so. The
  program makes no such edit.
* LevelDB: a failed `AddRecord` leaves part of a record in the log, and what is
  appended behind it may be dropped with it at recovery, also under `reuse_logs`;
  the sequence number advances all the same. `AckedOnDisk` is stated for groups
  in logs without such a record.
* LevelDB: `SetupOtherInputs` calls `AddBoundaryInputs` for `inputs_[0]` only
  (`version_set.cc:1390`, `1405`), never for `inputs_[1]`. When a snapshot made a
  compaction keep two entries of a user key and split them over two files of
  level + 1, a later compaction can take the file with the deletion marker as
  `inputs_[1]`, leave the one with the older value, and drop the marker: the
  deleted value is found again. The comment in `DoCompactionWork`
  (`db_impl.cc:967-971`) takes for granted that "data in layers that are being
  compacted here and have smaller sequence numbers will be dropped".
  Run `versions_snapshot` shows it in 19 steps; what holds with snapshots is that
  levels stay sorted and layers ordered (`versions`). PMRAccess takes no
  snapshots (`database/db.h`), so two entries of a key are never kept by a
  compaction, and it is not affected: this is theorem `GetIsCorrect`.
* libcuckoo: `cuckoopath_move` moves an element between buckets and not its count
  between locks, so a lock's `elem_counter` can be off; the sum is right.
* benchmark: the remainder of `opnum / client_num` is given to nobody
  (`benchmark.cc:41`).

## 5. What is proved

For all sets of clients, keys, chunks, threads and blocks, all sizes and bounds.
`ConstantsOK`, `SizesOK`, `FreeConstantsOK` and `DBConstants` state the only
assumptions: sizes are positive, a record is shorter than a chunk, `None`, `Empty`
and `Torn` are no values, threads and blocks of the free list are finite in number
and every block begins with a thread, a LevelDB batch is a sequence of puts and
deletes. Every inductive invariant below was checked by TLC on the
instance of its run before it was proved.

| theorem | states |
|---|---|
| `PMRAccessProofs`: `TypeCorrect`, `ConnectionsCorrect`, `ChunkOwnershipCorrect`, `RingBoundedCorrect` | `Spec => []` of the invariant |
| `PMRAccessProofs`: `BatchIntactCorrect`, `AckedKeptCorrect` | `Spec => []` of the invariant |
| `PMRAccessProofs`: `GetFindsCorrect`, `ReadYourWritesCorrect` | `~DbFails /\ Spec => []` of the invariant |
| `LockFreeProofs`: `BitsAreOwnedCorrect`, `ImplementsChunkPool` | invariant; refinement of `ChunkPool` |
| `PMemAccessProofs`: `RecentKeptCorrect`, `ImplementsKVStore` | invariant; refinement of `KVStore` |
| `GroupCommitProofs`: `ImplementsKVStore` | refinement of `KVStore` until a database write fails |
| `GroupCommitProofs`: `AckedLoggedCorrect`, `LogReplaysCorrect` | `Spec /\ []LogHasRoom => []` of the invariant |
| `RDMALinkProofs`: `MessageBeforeHeaderCorrect` | `Spec => []MessageBeforeHeader` |
| `LockFreeProofs`: `FreeListIntactCorrect` | `FreeSpec => []FreeListIntact` |
| `DBImplProofs`: `DBInvariant` | `Spec => []Inv`, the inductive invariant of LevelDB |
| `DBImplProofs`: `AlwaysReopens`, `AckedStaysOnDisk`, `ReadersSeeOneState`, `RestartShowsTheSame` | `Spec => []` of `Reopens`, `AckedOnDisk`, `ReadsSnapshot`, `RestartSame` |
| `VersionSetProofs`: `VersionInvariant` | `Spec => []VInv`, the inductive invariant of the levels |
| `VersionSetProofs`: `LevelsStaySorted` | `Spec => []LevelsSorted` |
| `VersionSetProofs`: `GetIsCorrect` | `Spec => GetWithoutSnapshots`: as long as no snapshot is taken, every `Get` is right |

**pmr: protocol, chunks, ring.** The inductive invariant is `TypeOK /\
Connections /\ ChunkOwnership /\ RingBounded` together with finiteness of `ring`.
None of the parts is inductive alone. `inflight \in Nat` needs that the ring has
an element when one is seen, which is `RingBounded`; the cardinality changes by
exactly one only because the chunk of a new write is in no other write of the
ring, which is `ChunkOwnership`; that in turn needs `Connections` to know that a
clerk at CLOSE has a chunk and that a clerk which handed over its chunk does not
serve another PUT.

**pmr: what is stored.** `DInv` adds that client and clerk agree on chunk and
head, but for the one record whose PUT the clerk has not seen and while a new
chunk is fetched (`Synced`); that records of a chunk do not overlap (`Apart`) and
every entry of a clerk's batch has its record in the chunk (`Filled`); that the
copies of a chunk in the queue and in the ring hold what the chunk held
(`Copies`) and log writes do not overlap (`LogPlaced`); and where every answered
write is (`Kept`). `BatchIntact` and `AckedKept` follow. `FInv` adds that a key
that was answered is in the index or the database, also between the steps of a
flush: `PutBatch` comes before `erase`, and GET looks in the index first. `WInv`
adds, for a key with one writer, that the newest record is the one in the index,
or the last of its key in the batch, or the one in the database, and never an
older one in front of it. Both need `~DbFails`: `Run` does not look at the result
of `PutBatch` and erases the index entries all the same, so that with a failing
database the properties do not hold.

**Bitset.** The words hold exactly the bits handed out, and a step of the bitset
is a grant, a release, a request or a stutter of `ChunkPool`. The argument rests
on `fetch_or` telling who changed the bit, never on the load before it, so it
holds for stale loads as well.

**pmem.** A record is found by how many bytes were written since: between it and
the head of the ring lie exactly those, or, when the head went round in between,
at least as many less what a wrap leaves unused (`Placed`). The refinement maps
the clerk's step to the step in which `KVStore` takes effect.

**group.** `Queued` says that the queue holds each clerk with an unserved request
once and only the clerk at its front is past waiting; `Batched` that the leader's
batch is the requests of the first clerks of the queue. So there is one leader,
nobody rebuilds the static batch while it is used, and the clerks the leader
answers are those whose requests it stored. `Logged` and `Replayed` extend this
to the log: to the records written to it and those that a failing write should
have put there (`Issued`), which together lie below `offset_` in the order in which
the database got them. They need `LogHasRoom`: no leader writes the log when the area is
full. Without it the position starts over and older records are written over
(section 4), and the two properties do not hold. `ImplementsKVStore` needs no
such hypothesis.

**RDMA.** The two sides of a connection pass one turn back and forth (`Turn`): a
request under way, a request that arrived, a reply under way, a reply that
arrived, or none of these. A side posts only when nothing it posted is on its way
(`InOrder`), because it polls for the completion of its last, signalled write;
so message and header word of one turn are never mixed with those of another.
Failing set-up, dying clients and unreachable peers keep the invariant, because
they only remove posts.

**Free list.** Every block is in one place (`NodeOK`): on the list, claimed by one
thread, or pending, that is marked and kept off the list by the threads which
still refer to it. The place determines the mark and by how much the count
exceeds the number of threads that hold a reference (`Refs`). A link is written
only while the count is zero, so a thread about to exchange the head for the link
it read holds a link that is still true (`LinksOK`): this is what makes the
exchange free of the ABA problem. `OnList` is a recursive function; that it is
the set of nodes of a finite list without repetition is proved by induction
(`ListIsMet`).

**LevelDB.** `Inv` is the types, `ReadsSnapshot` and fourteen parts that no
property states, because the properties look at one moment and a crash can come
at any.

*On disk* (`Disk`): the tables of the version are covered by the sequence number
of the MANIFEST; a kept log is newer than all tables, or is contained in them (an
edit that reached the MANIFEST although the write was reported to have failed);
logs are ordered by number; a sequence number has one entry; every group that was
written is in a kept log, in the synced part of it if it was acknowledged with
`sync`, or each of its entries is `Old`: the tables have one of the key that is
at least as new, or a deletion took the key away and nothing older than this
deletion is anywhere that could still reach a table. The last clause is what
makes it safe to drop a deletion marker, and it is not visible in a single table
or log. `Disk` is stated of a version given by its entries, so that the same
formula holds of the MANIFEST that CURRENT names (`DiskInv`) and of the one that
`Open` wrote and CURRENT does not name yet (`NewVersion`); the step that renames
CURRENT then has nothing to show.

*In memory*, by phase: while logs are replayed, what was replayed is in the tables
collected by the edit, or in the memtable of a log that is written on
(`ReplayInv`). When the database is open, tables, immutable memtable, memtable
and the group being written are ordered by sequence number (`Layered`), a
memtable holds what its log holds unless a record of it is incomplete
(`LogsMatch`), and the leader's group is numbered behind everything (`Leaders`).
The version in memory is the one on disk until an install fails; after that the
disk may be one edit ahead, and `bgError` stops everything that would rely on the
difference (`OpenVersion`). The inputs of a compaction stay in the version, older
than what flushes add meanwhile, and its `smallest_snapshot` is not above any
snapshot taken since (`Compacting`); a job's table
is referred to by nothing else (`Jobs`), and files chosen for removal are in no
version, of no reader and no output (`Garbage`), although versions, readers and
outputs changed between the choice and the removal.

`Reopens` and `AckedOnDisk` follow from `Disk`; `RestartSame` from `Layered`,
`LogsMatch` and `OpenVersion`; `ReadsSnapshot` is kept because a reader's
memtables and tables stay (`Reading`, `Garbage`), what is written meanwhile has a
higher number, and a compaction keeps what a snapshot can see (`Kept`). There is one
lemma per action, and for the steps of compactions and flushes lemmas about what
`Kept` and a flush do to `Shown`.

**Levels.** `LevelsSorted` is not inductive: a compaction chooses its inputs in
one version and installs its outputs in another, and a flush in between may have
added a file to the level of the outputs. `VInv` says of the compaction under way
(`CompOK`) that its inputs are still files of the current version, that what
stays at the level of the outputs is apart from all of them, and that they leave
no gap (`GapFree`): a range of user keys that meets none of them is before all of
them or after all of them. `PickLevelForMemTableOutput` puts a file below level 0
only if it meets none on the way, so that it meets no input, and `GapFree` turns
this into being apart from the outputs, which hold only entries of the inputs.
`GapFree` of what `SetupOtherInputs` chooses is proved along its steps: one file
leaves no gap, and what meets the range of files without a gap leaves none either
(`GapFreeGrows`), which covers the widening search at level 0, boundary files and
the optional second search (`OverlappingCorrect`, `BoundaryCorrect`,
`InputsCorrect`). The merging loop is followed entry by entry (`Merged`): whatever
it drops and wherever it cuts, no two outputs overlap. The loops are recursive
functions; that they exist, and what they keep, is proved by induction.
For TLC the ranges in `GapFree` were those of the keys of the instance.

**Lookups.** `Version::Get` stops at the first file that has the key. `LookupInv`
says why that is the newest entry: the memtable is newer than every file
(`MemNewest`), of two entries of a key at different levels the higher one is newer
(`Layers`), below level 0 a key is in one file of a level only (`OneFile`), the
files of level 0 are ordered by age (`ZeroOrder`), and the newest entry of a key
was not dropped unless it is a deletion of which nothing is left to hide
(`NewestHeld`). `GetFollows` derives `GetCorrect` from it, with the binary search
of `FindFile` shown to end at the file that can hold the key. For the step that
installs a compaction, `CompKeys` says of its inputs that what stays at their
level is newer and what stays at the next has none of their keys; at level 0 this
needs that the widening search of `GetOverlappingInputs` ends only when nothing
more overlaps (`OverlappingClosed`, by the number of files found), and that
`AddBoundaryInputs` then adds none (`BoundaryOfClosed`). `IsBaseLevelForKey` looks
at the version in which the compaction began; a file that a flush puts into a
deeper level meanwhile meets no input and so has none of the keys. The merging
loop keeps of every key the newest entry alone (`Dropped`, `MergeKeeps`).
The hypothesis `[](snapshots = {})` of `GetWithoutSnapshots` is what the adapters do: they read with
default options and take no snapshot (`database/db.h:112`). With snapshots the
formula is false: run `versions_snapshot` (section 4).

`NatLemmas` has induction with the predicate given as a set, which the provers
can instantiate, unlike the library's theorems with an operator parameter.

**Only model-checked.** All liveness properties (`CallReturns`, `Drained`,
`FindsFreeBit`, `Served`, `WritesReturn`, `Settles`): fairness and ENABLED are
out of the prover's reach. `LayersOrdered` with a snapshot, libcuckoo, the blocks of the queue and the table of producers (`TableCorrect`, `QueueDelivers`, `ProducersOwned`), and the properties of run
`leveldb_parts`. The properties about formats and
iterators are about what recursive definitions compute for each input. The others
are within reach (section 7).

## 6. Not modelled

* io_uring, the kernel patches, `dmabuf.h` and the RDMA adapter: used by what
  they promise. Memory registration and addresses are keys and offsets.
* `post_read` and `post_cas` (no callers); PeekUsage; the leak of `tmp_buf`.
* LevelDB: manual compaction, GetProperty, DestroyDB, RepairDB, the destructor
  and the C interface (no caller here); seek statistics from Get, whose call is
  commented out in this copy; compression; checksum arithmetic; the slowdown
  sleep of a write; directory operations and file locks of the environment;
  `env_windows.cc` and the helpers for tests.
* libcuckoo: the locked table, growth of the lock array and the full rehash that
  goes with it (the default size has as many buckets as locks), `rehash`,
  `reserve`, and the exceptions of `check_resize_validity`, which are thrown before
  the table is changed (no maximum is set; a load factor below 5 %).
* concurrentqueue: explicit producers, tokens and bulk operations (not used),
  failed allocations.
* Benchmark, tests, option parsing and scripts: no state of the service.

## 7. Plan

Done: the front ends, the allocator, the RDMA layer, LevelDB, libcuckoo and the
queue as above, and the proofs of section 5, which cover every safety property of
the three front ends, the allocator, the RDMA layer, the free list of the queue
and LevelDB's writers, recovery, flushes, compactions and removal of files, that
its levels stay sorted and that lookups in them are right. What could come next:

1. `TablesLimited` (part of `EnvCorrect`), `ArenaDisjoint`, `CacheIntact` and
   `ProducersOwned`, for any number of threads.
