------------------------------- MODULE DBImpl -------------------------------
(***************************************************************************)
(* The LevelDB of src/database/leveldb behind the server: DBImpl with the  *)
(* part of VersionSet that decides what is on disk.  Writers queue and the *)
(* front one writes for a group; a full memtable is switched and flushed   *)
(* by the background thread, which also merges tables; the MANIFEST names  *)
(* the tables and the oldest log that is still needed; files nobody needs  *)
(* are removed; a restart reads CURRENT, the MANIFEST and the logs.        *)
(*                                                                         *)
(* Code that holds mutex_ is one step.  Files are named by their number.   *)
(* An entry is an internal key with its value: the value of a Put is its   *)
(* sequence number, since every operation has its own.                     *)
(***************************************************************************)
EXTENDS Integers, Sequences, FiniteSets, SequencesExt, FiniteSetsExt, Functions

CONSTANTS Clients,      \* threads that call Write
          Readers,      \* threads that call Get, or hold a snapshot or an iterator
          Keys,         \* user keys
          Requests,     \* client -> what it may write: [batch, sync] where a batch is
                        \* a sequence of [key, del] and sync is WriteOptions::sync
          ReuseLogs,    \* Options::reuse_logs
          MemLimit,     \* entries in a memtable that is full (write_buffer_size)
          Trigger,      \* config::kL0_CompactionTrigger
          Stop,         \* config::kL0_StopWritesTrigger
          MaxWrites,    \* bound: calls of Write
          ManifestLimit,  \* TargetFileSize as a number of edits
          MaxEvents,    \* bound: crashes, failing file operations, reads, snapshots
          MaxSteps,     \* bound: calls of Write and events together
          Power         \* TRUE: a crash may also lose what was not synced

ASSUME DBConstants ==
    /\ ReuseLogs \in BOOLEAN /\ Power \in BOOLEAN
    /\ MemLimit \in Nat \ {0} /\ Trigger \in Nat \ {0} /\ Stop \in Nat
    /\ Trigger <= Stop
    /\ MaxWrites \in Nat /\ MaxEvents \in Nat /\ MaxSteps \in Nat /\ ManifestLimit \in Nat
    /\ \A c \in Clients : \A q \in Requests[c] :
         q.batch \in Seq([key : Keys, del : BOOLEAN]) /\ q.sync \in BOOLEAN

VARIABLES
    \* on disk
    logs,         \* log number -> records; a record is a set of entries
    synced,       \* log number -> how many of its records are synced
    tables,       \* table number -> entries
    manifests,    \* MANIFEST number -> version edits
    CURRENT,      \* number of the MANIFEST in use, 0 before the first Open
    \* DBImpl and VersionSet
    phase,        \* "down", "replay", "newlog", "opening", "open"
    writers,      \* writers_
    call,         \* client -> its Writer and where Write has got to
    waits,        \* client -> the condition variable it waits on: its own, "bg" for
                  \* background_work_finished_signal_, or "none"
    mems,         \* memtables, by the number of their log
    logNo,        \* logfile_number_, which is also mem_
    immNo,        \* imm_, 0 for nullptr
    files,        \* current version: table number -> level
    logNumber, nextFile, lastSeq, manifestNo,   \* VersionSet
    descriptorOpen,                             \* descriptor_log_ # nullptr
    pending,      \* pending_outputs_
    bgError,      \* bg_error_ is set
    bg,           \* the background thread: "none" means not scheduled
    job,          \* the flush in progress and the edit being applied
    comp,         \* the compaction in progress, {} or a singleton
    garbage,      \* files_to_delete of RemoveObsoleteFiles
    todo,         \* logs left to replay
    reader,       \* reader -> its lookup in progress
    snapshot,     \* reader -> its snapshot and what it showed at first
    \* history and budgets
    groups,       \* groups of batches that reached the log, and their fate
    nWrites, nEvents

disk == <<logs, synced, tables, manifests, CURRENT>>
versions == <<files, logNumber, nextFile, lastSeq, manifestNo, descriptorOpen>>
memory == <<mems, logNo, immNo>>
background == <<pending, bg, job, comp, garbage>>
budget == <<nWrites, nEvents>>
vars == <<disk, phase, writers, call, waits, memory, versions, background, bgError, todo,
          reader, snapshot, groups, budget>>

-----------------------------------------------------------------------------
(* Entries and lookups *)

NoEntry == [key |-> 0, seq |-> 0, del |-> TRUE]
Idle == [pc |-> "idle", batch |-> <<>>, sync |-> FALSE, group |-> {}, ok |-> TRUE]
NoRead == [on |-> FALSE, at |-> 0, mem |-> 0, imm |-> 0, files |-> {}, expect |-> {}]
NoSnapshot == [seq |-> 0, shown |-> {}]
NoJob == [table |-> 0, edit |-> <<>>]
NoFiles == [logs |-> {}, tables |-> {}, manifests |-> {}]

\* A record of a log that a failed or interrupted write left incomplete.
Torn == {NoEntry}

\* The newest entry of a key that a reader at sequence number snap sees.
Newest(entries, key, snap) ==
    LET seen == {e \in entries : e.key = key /\ e.seq <= snap}
    IN  IF seen = {} THEN NoEntry ELSE CHOOSE e \in seen : \A f \in seen : f.seq <= e.seq

\* A table that was removed cannot be read.
TableEntries(fs) == UNION {tables[f] : f \in fs \cap DOMAIN tables}

\* MemTable::Get and Version::Get: the memtable hides the immutable one,
\* which hides the tables.
LookupImmFirst(mem, imm, fs, key, snap) ==
    LET inMem == Newest(mems[mem], key, snap)
        inImm == IF imm = 0 THEN NoEntry ELSE Newest(mems[imm], key, snap)
    IN  IF inImm # NoEntry THEN inImm
        ELSE IF inMem # NoEntry THEN inMem
        ELSE Newest(TableEntries(fs), key, snap)
Lookup(mem, imm, fs, key, snap) ==
    LET inMem == Newest(mems[mem], key, snap)
        inImm == IF imm = 0 THEN NoEntry ELSE Newest(mems[imm], key, snap)
    IN  IF inMem # NoEntry THEN inMem
        ELSE IF inImm # NoEntry THEN inImm
        ELSE Newest(TableEntries(fs), key, snap)

\* What a reader that holds these references is shown: the entries that are
\* not deletions.
Shown(mem, imm, fs, snap) ==
    {e \in {Lookup(mem, imm, fs, k, snap) : k \in Keys} : ~e.del}
View(snap) == Shown(logNo, immNo, DOMAIN files, snap)

Level0 == {f \in DOMAIN files : files[f] = 0}

\* VersionSet::NeedsCompaction: Finalize gave level 0 a score of 1 or more.
NeedsCompaction(fs) == Cardinality({f \in DOMAIN fs : fs[f] = 0}) >= Trigger

-----------------------------------------------------------------------------
(* VersionSet: edits and the MANIFEST *)

Edit(add, del, log) ==
    [add |-> add, del |-> del, log |-> log, next |-> nextFile, seq |-> lastSeq]

\* VersionSet::Builder
Apply(fs, edit) ==
    [f \in (DOMAIN fs \ edit.del) \cup DOMAIN edit.add |->
        IF f \in DOMAIN edit.add THEN edit.add[f] ELSE fs[f]]

\* The version that the edits of a MANIFEST, applied in order, add up to: a
\* table that one of them adds and no later one deletes, at the level that
\* was given last.
ManifestFiles(m) ==
    LET adds(f) == {i \in DOMAIN m : f \in DOMAIN m[i].add}
    IN  [f \in {n \in UNION {DOMAIN m[i].add : i \in DOMAIN m} :
                   \E i \in adds(n) : \A j \in i + 1 .. Len(m) : n \notin m[j].del}
           |-> m[Max(adds(f))].add[f]]

\* What a log gives back when it is read: the entries of every record but the
\* incomplete ones.
ReadLog(log) == UNION (Range(log) \ {Torn})

\* What the log has of a record after it was written.  The reader drops the
\* rest of the block in which it meets an incomplete record: a record written
\* behind one, in the same block, is as good as incomplete.
Written(record) == {record} \cup ({Torn} \cap Range(logs[logNo]))

\* RemoveObsoleteFiles: what is removed if the version in memory is fs.
LiveNoPending(fs, cs, out) ==
    DOMAIN fs \cup UNION {reader[r].files : r \in Readers} \cup UNION {c.inputs : c \in cs}
Live(fs, cs, out) ==
    DOMAIN fs \cup out \cup UNION {reader[r].files : r \in Readers}
              \cup UNION {c.inputs : c \in cs}
ObsoleteImmLog(fs, cs, out, log) ==
    [logs |-> {n \in DOMAIN logs : n < logNo},
     tables |-> DOMAIN tables \ Live(fs, cs, out),
     manifests |-> {n \in DOMAIN manifests : n < manifestNo}]
Obsolete(fs, cs, out, log) ==
    [logs |-> {n \in DOMAIN logs : n < log},
     tables |-> DOMAIN tables \ Live(fs, cs, out),
     manifests |-> {n \in DOMAIN manifests : n < manifestNo}]
Without(f, gone) == [n \in DOMAIN f \ gone |-> f[n]]
With(f, n, v) == [m \in DOMAIN f \cup {n} |-> IF m = n THEN v ELSE f[m]]

\* BuildTable: a new table with all entries of a memtable
BuildTable(n, entries) == With(tables, n, entries)

\* VersionSet::MarkFileNumberUsed
MarkFileNumberUsed(next, n) == Max({next, n + 1})

-----------------------------------------------------------------------------
(* Write *)

\* The writer at the front runs, unless it still waits for a signal.
AtFront(c) == phase = "open" /\ writers # <<>> /\ Head(writers) = c /\ waits[c] = "none"

\* A crash, a failing file operation, a read: something rare.
Event ==
    /\ nEvents < MaxEvents /\ nWrites + nEvents < MaxSteps
    /\ nEvents' = nEvents + 1
    /\ nWrites' = nWrites

Write(c) ==
    /\ phase = "open" /\ call[c].pc = "idle" /\ waits[c] = "none"
    /\ nWrites < MaxWrites /\ nWrites + nEvents < MaxSteps
    /\ \E q \in Requests[c] :
        call' = [call EXCEPT ![c] =
                    [pc |-> "queued", batch |-> q.batch, sync |-> q.sync, group |-> {}, ok |-> TRUE]]
    /\ writers' = Append(writers, c)
    /\ waits' = [waits EXCEPT ![c] = IF writers = <<>> THEN "none" ELSE "own"]
    /\ nWrites' = nWrites + 1
    /\ UNCHANGED <<disk, phase, memory, versions, background, bgError, todo, reader, snapshot, groups,
                   nEvents>>

\* The writers whose cv the leader of n writers signals: the others of its
\* group, which return, and the new front of the queue.
SignalledGroup(n) == Range(SubSeq(writers, 1, n))
Signalled(n) == {writers[i] : i \in (1 .. n + 1) \cap DOMAIN writers}

\* The end of Write: the writers of the group leave the queue with the
\* leader's status and return.
Leave(n) ==
    /\ waits' = [d \in Clients |-> IF d \in Signalled(n) THEN "none" ELSE waits[d]]
    /\ writers' = SubSeq(writers, n + 1, Len(writers))
    /\ call' = [d \in Clients |-> IF d \in Range(SubSeq(writers, 1, n)) THEN Idle ELSE call[d]]

MemFull == Cardinality(mems[logNo]) >= MemLimit

\* background_work_finished_signal_.SignalAll()
NoSignal == waits
SignalAll == [c \in Clients |-> IF waits[c] = "bg" THEN "none" ELSE waits[c]]

\* MakeRoomForWrite: the memtable is full, and the one before it is not
\* flushed yet or level 0 has too many tables.  The writer looks again when
\* the background thread signals.
WaitForRoom(c) ==
    /\ AtFront(c) /\ call[c].pc = "queued" /\ ~bgError
    /\ MemFull /\ (immNo # 0 \/ Cardinality(Level0) >= Stop)
    /\ waits' = [waits EXCEPT ![c] = "bg"]
    /\ UNCHANGED <<disk, phase, writers, call, memory, versions, background, bgError, todo, reader,
                   snapshot, groups, budget>>

\* MakeRoomForWrite returns the background error.
WriteRefused(c) ==
    /\ AtFront(c) /\ call[c].pc = "queued" /\ bgError
    /\ Leave(1)
    /\ UNCHANGED <<disk, phase, memory, versions, background, bgError, todo, reader, snapshot, groups, budget>>

\* MaybeScheduleCompaction
ScheduledForTables(imm, fs) ==
    IF bg # "none" THEN bg
    ELSE IF bgError' \/ ~NeedsCompaction(fs) THEN "none" ELSE "scheduled"
Scheduled(imm, fs) ==
    IF bg # "none" THEN bg
    ELSE IF bgError' \/ (imm = 0 /\ ~NeedsCompaction(fs)) THEN "none" ELSE "scheduled"

\* MakeRoomForWrite switches to a new memtable and log.
SwitchMemTable(c) ==
    /\ AtFront(c) /\ call[c].pc = "queued" /\ ~bgError
    /\ MemFull /\ immNo = 0 /\ Cardinality(Level0) < Stop
    /\ logs' = With(logs, nextFile, <<>>)
    /\ synced' = With(synced, nextFile, 0)
    /\ mems' = With(mems, nextFile, {})
    /\ immNo' = logNo
    /\ logNo' = nextFile
    /\ nextFile' = nextFile + 1
    /\ bgError' = bgError
    /\ bg' = Scheduled(immNo', files)
    /\ UNCHANGED <<tables, manifests, CURRENT, phase, writers, call, waits, files, logNumber, lastSeq,
                   manifestNo, descriptorOpen, pending, job, comp, garbage, todo, reader, snapshot, groups,
                   budget>>

\* The new log cannot be created: its number is given back and Write fails.
SwitchFails(c) ==
    /\ AtFront(c) /\ call[c].pc = "queued" /\ ~bgError
    /\ MemFull /\ immNo = 0 /\ Cardinality(Level0) < Stop
    /\ Event
    /\ Leave(1)
    /\ UNCHANGED <<disk, phase, memory, versions, background, bgError, todo, reader, snapshot, groups>>

\* BuildBatchGroup: the writers behind the leader that join it (a sync write
\* never joins the group of a leader that does not sync).  The size limit of
\* a group lets it end earlier, at any writer.
Joins(c, n) ==
    \A i \in 2 .. n : call[writers[i]].sync => call[c].sync

\* The entries of a group: sequence numbers go up through its batches.
GroupOps(n) == FlattenSeq([i \in 1 .. n |-> call[writers[i]].batch])
GroupEntries(n) ==
    {[key |-> GroupOps(n)[i].key, seq |-> lastSeq + i, del |-> GroupOps(n)[i].del] :
        i \in DOMAIN GroupOps(n)}

\* A Writer that has got to pc.
Goto(w, pc, group, ok) ==
    [pc |-> pc, batch |-> w.batch, sync |-> w.sync, group |-> group, ok |-> ok]

BuildBatchGroup(c) ==
    /\ AtFront(c) /\ call[c].pc = "queued" /\ ~bgError /\ ~MemFull
    /\ \E n \in 1 .. Len(writers) :
        /\ Joins(c, n)
        /\ call' = [d \in Clients |->
             IF d = c THEN Goto(call[c], "log", GroupEntries(n), TRUE)
             ELSE IF d \in Range(SubSeq(writers, 1, n)) THEN Goto(call[d], "grouped", {}, TRUE)
             ELSE call[d]]
    /\ UNCHANGED <<disk, phase, writers, waits, memory, versions, background, bgError, todo, reader, snapshot,
                   groups, budget>>

\* History: the group in the log, and whether the log was whole before it.
Logged(c) == [entries |-> call[c].group, sync |-> call[c].sync, acked |-> FALSE,
              whole |-> Torn \notin Range(logs[logNo])]

\* log_->AddRecord, and Sync when the leader asks for it.
AddRecord(c) ==
    /\ AtFront(c) /\ call[c].pc = "log"
    /\ \E record \in Written(call[c].group) : logs' = [logs EXCEPT ![logNo] = Append(@, record)]
    /\ synced' = [synced EXCEPT ![logNo] = IF call[c].sync THEN Len(logs[logNo]) + 1 ELSE @]
    /\ groups' = groups \cup {Logged(c)}
    /\ call' = [call EXCEPT ![c] = Goto(@, "insert", @.group, TRUE)]
    /\ UNCHANGED <<tables, manifests, CURRENT, phase, writers, waits, memory, versions, background,
                   bgError, todo, reader, snapshot, budget>>

\* AddRecord fails and leaves part of the record; nothing else notices.
AddRecordFails(c) ==
    /\ AtFront(c) /\ call[c].pc = "log" /\ Event
    /\ logs' = [logs EXCEPT ![logNo] = Append(@, Torn)]
    /\ call' = [call EXCEPT ![c] = Goto(@, "publish", @.group, FALSE)]
    /\ UNCHANGED <<synced, tables, manifests, CURRENT, phase, writers, waits, memory, versions,
                   background, bgError, todo, reader, snapshot, groups>>

\* Sync fails: the record may or may not show up at the next Open, so that
\* no later write is accepted.
SyncFails(c) ==
    /\ AtFront(c) /\ call[c].pc = "log" /\ call[c].sync /\ Event
    /\ \E record \in Written(call[c].group) : logs' = [logs EXCEPT ![logNo] = Append(@, record)]
    /\ groups' = groups \cup {Logged(c)}
    /\ call' = [call EXCEPT ![c] = Goto(@, "syncError", @.group, FALSE)]
    /\ UNCHANGED <<synced, tables, manifests, CURRENT, phase, writers, waits, memory, versions,
                   background, bgError, todo, reader, snapshot>>

\* WriteBatchInternal::InsertInto, without mutex_.
InsertInto(c) ==
    /\ AtFront(c) /\ call[c].pc = "insert"
    /\ mems' = [mems EXCEPT ![logNo] = @ \cup call[c].group]
    /\ call' = [call EXCEPT ![c] = Goto(@, "publish", @.group, TRUE)]
    /\ UNCHANGED <<disk, phase, writers, waits, logNo, immNo, versions, background, bgError, todo,
                   reader, snapshot, groups, budget>>

\* Back under mutex_: the sequence number is advanced even after an error,
\* and the group is woken.  (RecordBackgroundError finds nobody waiting: only
\* the front writer, which is this one, waits for the background thread.)
GroupSize == Cardinality({i \in DOMAIN writers : call[writers[i]].pc = "grouped"}) + 1
Answered(g, ok) == [entries |-> g.entries, sync |-> g.sync, acked |-> ok, whole |-> g.whole]
Publish(c) ==
    /\ AtFront(c) /\ call[c].pc \in {"publish", "syncError"}
    /\ bgError' = (bgError \/ call[c].pc = "syncError")
    /\ lastSeq' = lastSeq + Cardinality(call[c].group)
    /\ Leave(GroupSize)
    /\ groups' = {IF g.entries = call[c].group THEN Answered(g, call[c].ok) ELSE g : g \in groups}
    /\ UNCHANGED <<disk, phase, memory, files, logNumber, nextFile, manifestNo, descriptorOpen,
                   background, todo, reader, snapshot, budget>>

-----------------------------------------------------------------------------
(* The background thread *)

\* The end of BackgroundCall, which schedules itself again if there is work,
\* or of a CompactMemTable inside a compaction.
Resume(imm, fs, cs, error) ==
    IF cs # {} THEN "merge"
    ELSE IF error \/ (imm = 0 /\ ~NeedsCompaction(fs)) THEN "none"
    ELSE "scheduled"

\* BackgroundCall when there is nothing it may do.  Its end signals.
BackgroundIdle ==
    /\ phase = "open" /\ bg = "scheduled" /\ bgError
    /\ bg' = "none"
    /\ waits' = SignalAll
    /\ UNCHANGED <<disk, phase, writers, call, memory, versions, pending, job, comp, garbage,
                   bgError, todo, reader, snapshot, groups, budget>>

\* CompactMemTable, WriteLevel0Table: a number for the table; also from the
\* loop of a compaction, which looks at has_imm_.
FlushStart ==
    /\ phase = "open" /\ immNo # 0
    /\ (bg = "scheduled" /\ ~bgError) \/ bg = "merge"
    /\ job' = [table |-> nextFile, edit |-> <<>>]
    /\ pending' = pending \cup {nextFile}
    /\ nextFile' = nextFile + 1
    /\ bg' = "build"
    /\ UNCHANGED <<disk, phase, writers, call, waits, memory, files, logNumber, lastSeq, manifestNo,
                   descriptorOpen, comp, garbage, bgError, todo, reader, snapshot, groups, budget>>

\* PickLevelForMemTableOutput: a table that overlaps nothing goes deeper.
OutputLevel(entries) ==
    IF \E f \in DOMAIN files : \E e \in entries, g \in tables[f] : e.key = g.key THEN 0 ELSE 1

\* BuildTable, then the first half of LogAndApply: the edit is complete, and
\* mutex_ is released for the MANIFEST.
FlushBuild ==
    /\ phase = "open" /\ bg = "build"
    /\ tables' = BuildTable(job.table, mems[immNo])
    /\ pending' = pending \ {job.table}
    /\ job' = [table |-> job.table,
                edit |-> Edit([f \in {job.table} |-> OutputLevel(mems[immNo])], {}, logNo)]
    /\ bg' = "manifest"
    /\ UNCHANGED <<logs, synced, manifests, CURRENT, phase, writers, call, waits, memory, versions,
                   comp, garbage, bgError, todo, reader, snapshot, groups, budget>>

\* The table cannot be built: no later write is accepted, and RecordBackgroundError
\* wakes the writer that waits for the flush.
FlushFails ==
    /\ phase = "open" /\ bg = "build" /\ Event
    /\ pending' = pending \ {job.table}
    /\ job' = NoJob
    /\ bgError' = TRUE
    /\ bg' = Resume(immNo, files, comp, TRUE)
    /\ waits' = SignalAll
    /\ UNCHANGED <<disk, phase, writers, call, memory, versions, comp, garbage, todo, reader, snapshot,
                   groups>>

\* DoCompactionWork: the inputs and the smallest snapshot are fixed.
Snapshots == {snapshot[r].seq : r \in {s \in Readers : snapshot[s].seq # 0}}
SmallestIsLast == lastSeq
SmallestSnapshot == IF Snapshots = {} THEN lastSeq ELSE Min(Snapshots)
CompactionStart ==
    /\ phase = "open" /\ bg = "scheduled" /\ ~bgError /\ immNo = 0 /\ NeedsCompaction(files)
    /\ comp' = {[inputs |-> DOMAIN files, smallest |-> SmallestSnapshot, out |-> 0]}
    /\ bg' = "merge"
    /\ UNCHANGED <<disk, phase, writers, call, waits, memory, versions, pending, job, garbage, bgError,
                   todo, reader, snapshot, groups, budget>>

TheComp == CHOOSE c \in comp : TRUE

\* OpenCompactionOutputFile
CompactionOpen ==
    /\ phase = "open" /\ bg = "merge" /\ TheComp.out = 0
    /\ comp' = {[inputs |-> TheComp.inputs, smallest |-> TheComp.smallest, out |-> nextFile]}
    /\ pending' = pending \cup {nextFile}
    /\ tables' = With(tables, nextFile, {})
    /\ nextFile' = nextFile + 1
    /\ UNCHANGED <<logs, synced, manifests, CURRENT, phase, writers, call, waits, memory, files,
                   logNumber, lastSeq, manifestNo, descriptorOpen, job, garbage, bgError, bg,
                   todo, reader, snapshot, groups, budget>>

\* The entries the loop of DoCompactionWork keeps: (A) drops what a newer
\* entry hides from every snapshot; a deletion that every snapshot sees is
\* dropped too, since all the tables take part.
Kept(entries, smallest) ==
    {e \in entries :
        /\ \A f \in entries : f.key = e.key /\ f.seq > e.seq => f.seq > smallest
        /\ ~(e.del /\ e.seq <= smallest)}

\* FinishCompactionOutputFile, InstallCompactionResults and the first half of
\* LogAndApply.  An output file that was removed meanwhile stays removed.
CompactionFinish ==
    /\ phase = "open" /\ bg = "merge" /\ TheComp.out # 0
    /\ LET out == TheComp.out IN
        /\ tables' = IF out \notin DOMAIN tables THEN tables
                     ELSE [tables EXCEPT ![out] = Kept(TableEntries(TheComp.inputs),
                                                       TheComp.smallest)]
        /\ job' = [table |-> 0, edit |-> Edit([f \in {out} |-> 1], TheComp.inputs, logNumber)]
    /\ bg' = "manifest"
    /\ UNCHANGED <<logs, synced, manifests, CURRENT, phase, writers, call, waits, memory, versions,
                   pending, comp, garbage, bgError, todo, reader, snapshot, groups, budget>>

Flushing == job.table # 0

\* The second half of LogAndApply and what follows it: the edit is in the
\* MANIFEST, the new version is installed, and RemoveObsoleteFiles has
\* listed the files to delete.
LogAndApply ==
    /\ phase = "open" /\ bg = "manifest"
    /\ manifests' = [manifests EXCEPT ![manifestNo] = Append(@, job.edit)]
    /\ files' = Apply(files, job.edit)
    /\ logNumber' = job.edit.log
    /\ immNo' = IF Flushing THEN 0 ELSE immNo
    /\ pending' = IF Flushing THEN pending ELSE pending \ {TheComp.out}
    /\ comp' = IF Flushing THEN comp ELSE {}
    /\ job' = NoJob
    /\ garbage' = IF bgError THEN NoFiles
                  ELSE Obsolete(files', comp', pending', logNumber')
    /\ bg' = "clean"
    /\ UNCHANGED <<logs, synced, tables, CURRENT, phase, writers, call, waits, mems, logNo, nextFile,
                   lastSeq, manifestNo, descriptorOpen, bgError, todo, reader, snapshot, groups, budget>>

\* The MANIFEST cannot be written or synced; the edit may be in it.
LogAndApplyFails ==
    /\ phase = "open" /\ bg = "manifest" /\ Event
    /\ manifests' \in {manifests, [manifests EXCEPT ![manifestNo] = Append(@, job.edit)]}
    /\ bgError' = TRUE
    /\ pending' = IF Flushing THEN pending ELSE pending \ {TheComp.out}
    /\ comp' = IF Flushing THEN comp ELSE {}
    /\ job' = NoJob
    /\ bg' = Resume(immNo, files, comp', TRUE)
    /\ waits' = SignalAll
    /\ UNCHANGED <<logs, synced, tables, CURRENT, phase, writers, call, memory, versions, garbage,
                   todo, reader, snapshot, groups>>

\* RemoveObsoleteFiles deletes the files it listed, without mutex_; then the
\* end of BackgroundCall, or of a CompactMemTable inside a compaction, signals.
RemoveFiles ==
    /\ phase = "open" /\ bg = "clean"
    /\ logs' = Without(logs, garbage.logs)
    /\ synced' = Without(synced, garbage.logs)
    /\ tables' = Without(tables, garbage.tables)
    /\ manifests' = Without(manifests, garbage.manifests)
    /\ garbage' = NoFiles
    /\ bg' = Resume(immNo, files, comp, bgError)
    /\ waits' = SignalAll
    /\ UNCHANGED <<CURRENT, phase, writers, call, memory, versions, pending, job, comp, bgError,
                   todo, reader, snapshot, groups, budget>>

-----------------------------------------------------------------------------
(* Get, NewIterator and snapshots *)

\* Get takes its references under mutex_ and looks up without it; an iterator
\* holds the same references for longer.
GetStart(r) ==
    /\ phase = "open" /\ Event /\ ~reader[r].on
    /\ LET at == IF snapshot[r].seq = 0 THEN lastSeq ELSE snapshot[r].seq IN
        reader' = [reader EXCEPT ![r] = [on |-> TRUE, at |-> at, mem |-> logNo, imm |-> immNo,
                                         files |-> DOMAIN files, expect |-> View(at)]]
    /\ UNCHANGED <<disk, phase, writers, call, waits, memory, versions, background, bgError, todo,
                   snapshot, groups>>

GetEnd(r) ==
    /\ phase = "open" /\ reader[r].on
    /\ reader' = [reader EXCEPT ![r] = NoRead]
    /\ UNCHANGED <<disk, phase, writers, call, waits, memory, versions, background, bgError, todo,
                   snapshot, groups, budget>>

GetSnapshot(r) ==
    /\ phase = "open" /\ Event /\ ~reader[r].on /\ snapshot[r] = NoSnapshot /\ lastSeq > 0
    /\ snapshot' = [snapshot EXCEPT ![r] = [seq |-> lastSeq, shown |-> View(lastSeq)]]
    /\ UNCHANGED <<disk, phase, writers, call, waits, memory, versions, background, bgError, todo,
                   reader, groups>>

ReleaseSnapshot(r) ==
    /\ phase = "open" /\ ~reader[r].on /\ snapshot[r] # NoSnapshot
    /\ snapshot' = [snapshot EXCEPT ![r] = NoSnapshot]
    /\ UNCHANGED <<disk, phase, writers, call, waits, memory, versions, background, bgError, todo,
                   reader, groups, budget>>

-----------------------------------------------------------------------------
(* Crash and Open *)

\* What is left of a log: all of it, or when the machine fails at least the
\* records that were synced, the next one perhaps incomplete.
Remains(n) ==
    IF ~Power THEN {logs[n]}
    ELSE {SubSeq(logs[n], 1, i) : i \in synced[n] .. Len(logs[n])} \cup
         {Append(SubSeq(logs[n], 1, i), Torn) : i \in synced[n] .. Len(logs[n]) - 1}

\* The records that are gone, of the logs that a restart reads, unless a table
\* has them as well.
Lost(left) ==
    {rec \in UNION {Range(logs[n]) \ Range(left[n]) :
                      n \in {m \in DOMAIN logs : m >= Last(manifests[CURRENT]).log}} :
        ~(rec \subseteq TableEntries(DOMAIN ManifestFiles(manifests[CURRENT])))}

Crash ==
    /\ phase # "down" /\ Event
    /\ logs' \in {f \in [DOMAIN logs -> UNION {Remains(n) : n \in DOMAIN logs}] :
                    \A n \in DOMAIN logs : f[n] \in Remains(n)}
    /\ synced' = [n \in DOMAIN logs |-> Len(logs'[n])]
    /\ groups' = {g \in groups : g.entries \notin Lost(logs')}
    /\ phase' = "down"
    /\ writers' = <<>> /\ call' = [c \in Clients |-> Idle]
    /\ waits' = [c \in Clients |-> "none"]
    /\ mems' = [n \in {} |-> {}] /\ logNo' = 0 /\ immNo' = 0
    /\ files' = [n \in {} |-> 0] /\ logNumber' = 0 /\ nextFile' = 2 /\ lastSeq' = 0
    /\ manifestNo' = 0 /\ descriptorOpen' = FALSE
    /\ pending' = {} /\ bg' = "none" /\ job' = NoJob /\ comp' = {} /\ garbage' = NoFiles
    /\ bgError' = FALSE /\ todo' = {}
    /\ reader' = [r \in Readers |-> NoRead] /\ snapshot' = [r \in Readers |-> NoSnapshot]
    /\ UNCHANGED <<tables, manifests, CURRENT>>

\* NewDB: the first MANIFEST, and CURRENT naming it.
NewDB ==
    /\ phase = "down" /\ CURRENT = 0
    /\ manifests' = With(manifests, 1, <<[add |-> [f \in {} |-> 0], del |-> {}, log |-> 0,
                                          next |-> 2, seq |-> 0]>>)
    /\ CURRENT' = 1
    /\ UNCHANGED <<logs, synced, tables, phase, writers, call, waits, memory, versions, background,
                   bgError, todo, reader, snapshot, groups, budget>>

\* With reuse_logs the MANIFEST is written on until it has grown to the size
\* limit (opening it again does not fail); else a new one gets the number that
\* was next.
ReuseManifest(m) == ReuseLogs /\ Len(m) < ManifestLimit

\* DBImpl::Recover: the version the MANIFEST describes, and the choice of the logs to replay.
\* Open fails when a table the version names is missing.
Recover ==
    /\ phase = "down" /\ CURRENT # 0
    /\ LET m == manifests[CURRENT] IN
        /\ files' = ManifestFiles(m)
        /\ logNumber' = Last(m).log
        /\ nextFile' = Last(m).next + 1
        /\ lastSeq' = Last(m).seq
        /\ descriptorOpen' = ReuseManifest(m)
        /\ manifestNo' = IF ReuseManifest(m) THEN CURRENT ELSE Last(m).next
    /\ DOMAIN files' \subseteq DOMAIN tables
    /\ todo' = {n \in DOMAIN logs : n >= logNumber'}
    /\ job' = [table |-> 0, edit |-> [n \in {} |-> 0]]
    /\ phase' = "replay"
    /\ UNCHANGED <<disk, writers, call, waits, memory, pending, bg, comp, garbage, bgError, reader,
                   snapshot, groups, budget>>

MaxSeq(entries, seq) == Max({e.seq : e \in entries} \cup {seq})

\* RecoverLogFile: the oldest log left becomes a level-0 table (job.edit
\* collects them), or with reuse_logs the last one is written on, unless its
\* entries filled the memtable and were flushed (compactions # 0).  Only the
\* last record of a log can do that: Write adds none to a full memtable.
RecoverLogFile ==
    /\ phase = "replay" /\ todo # {}
    /\ LET n == Min(todo)
           entries == ReadLog(logs[n])
           reuse == ReuseLogs /\ todo = {n} /\ Cardinality(entries) < MemLimit
       IN   /\ lastSeq' = MaxSeq(entries, lastSeq)
            /\ todo' = todo \ {n}
            /\ IF reuse
               THEN /\ mems' = With(mems, n, entries)
                    /\ logNo' = n
                    /\ nextFile' = MarkFileNumberUsed(nextFile, n)
                    /\ UNCHANGED <<tables, job>>
               ELSE IF entries = {}
               THEN /\ nextFile' = MarkFileNumberUsed(nextFile, n)
                    /\ UNCHANGED <<mems, logNo, tables, job>>
               ELSE /\ tables' = BuildTable(nextFile, entries)
                    /\ job' = [table |-> 0, edit |-> With(job.edit, nextFile, 0)]
                    /\ nextFile' = MarkFileNumberUsed(nextFile + 1, n)
                    /\ UNCHANGED <<mems, logNo>>
    /\ UNCHANGED <<logs, synced, manifests, CURRENT, phase, writers, call, waits, immNo, files,
                   logNumber, manifestNo, descriptorOpen, pending, bg, comp, garbage, bgError,
                   reader, snapshot, groups, budget>>

\* DB::Open: a log and a memtable if none was taken over.
OpenLog ==
    /\ phase = "replay" /\ todo = {}
    /\ IF logNo # 0 THEN UNCHANGED <<logs, synced, mems, logNo, nextFile>>
       ELSE /\ logs' = With(logs, nextFile, <<>>)
            /\ synced' = With(synced, nextFile, 0)
            /\ mems' = With(mems, nextFile, {})
            /\ logNo' = nextFile
            /\ nextFile' = nextFile + 1
    /\ phase' = "newlog"
    /\ UNCHANGED <<tables, manifests, CURRENT, writers, call, waits, immNo, files, logNumber, lastSeq,
                   manifestNo, descriptorOpen, background, bgError, todo, reader, snapshot,
                   groups, budget>>

\* DB::Open: LogAndApply if there is something to save.  A new MANIFEST begins
\* with a snapshot of the version (WriteSnapshot); CURRENT follows in a step
\* of its own.
Snapshot == [add |-> files, del |-> {}, log |-> logNumber, next |-> nextFile, seq |-> lastSeq]
SaveManifest ==
    /\ phase = "newlog"
    /\ IF descriptorOpen /\ job.edit = [n \in {} |-> 0]
       THEN UNCHANGED <<manifests, files, logNumber>>
       ELSE /\ files' = Apply(files, Edit(job.edit, {}, logNo))
            /\ logNumber' = logNo
            /\ manifests' = IF descriptorOpen
                            THEN [manifests EXCEPT ![manifestNo] =
                                    Append(@, Edit(job.edit, {}, logNo))]
                            ELSE With(manifests, manifestNo,
                                      <<Snapshot, Edit(job.edit, {}, logNo)>>)
    /\ job' = NoJob
    /\ phase' = "opening"
    /\ UNCHANGED <<logs, synced, tables, CURRENT, writers, call, waits, memory, nextFile, lastSeq,
                   manifestNo, descriptorOpen, pending, bg, comp, garbage, bgError, todo, reader,
                   snapshot, groups, budget>>

\* SetCurrentFile
SetCurrentFile ==
    /\ phase = "opening" /\ CURRENT # manifestNo
    /\ CURRENT' = manifestNo
    /\ descriptorOpen' = TRUE
    /\ UNCHANGED <<logs, synced, tables, manifests, phase, writers, call, waits, memory, files,
                   logNumber, nextFile, lastSeq, manifestNo, background, bgError, todo, reader,
                   snapshot, groups, budget>>

\* The end of DB::Open: RemoveObsoleteFiles and MaybeScheduleCompaction.
Opened ==
    /\ phase = "opening" /\ CURRENT = manifestNo
    /\ LET gone == Obsolete(files, {}, {}, logNumber) IN
        /\ logs' = Without(logs, gone.logs)
        /\ synced' = Without(synced, gone.logs)
        /\ tables' = Without(tables, gone.tables)
        /\ manifests' = Without(manifests, gone.manifests)
    /\ bgError' = bgError
    /\ bg' = Scheduled(0, files)
    /\ phase' = "open"
    /\ UNCHANGED <<CURRENT, writers, call, waits, memory, versions, pending, job, comp, garbage, todo,
                   reader, snapshot, groups, budget>>

-----------------------------------------------------------------------------
Init ==
    /\ logs = [n \in {} |-> <<>>] /\ synced = [n \in {} |-> 0]
    /\ tables = [n \in {} |-> {}] /\ manifests = [n \in {} |-> <<>>] /\ CURRENT = 0
    /\ phase = "down"
    /\ writers = <<>> /\ call = [c \in Clients |-> Idle]
    /\ waits = [c \in Clients |-> "none"]
    /\ mems = [n \in {} |-> {}] /\ logNo = 0 /\ immNo = 0
    /\ files = [n \in {} |-> 0] /\ logNumber = 0 /\ nextFile = 2 /\ lastSeq = 0
    /\ manifestNo = 0 /\ descriptorOpen = FALSE
    /\ pending = {} /\ bg = "none" /\ job = NoJob /\ comp = {} /\ garbage = NoFiles
    /\ bgError = FALSE /\ todo = {}
    /\ reader = [r \in Readers |-> NoRead] /\ snapshot = [r \in Readers |-> NoSnapshot]
    /\ groups = {} /\ nWrites = 0 /\ nEvents = 0

Open == NewDB \/ Recover \/ RecoverLogFile \/ OpenLog \/ SaveManifest \/ SetCurrentFile \/ Opened
Lead(c) == \/ WaitForRoom(c) \/ WriteRefused(c) \/ SwitchMemTable(c) \/ BuildBatchGroup(c) \/ AddRecord(c)
           \/ InsertInto(c) \/ Publish(c)
WriteFaults(c) == SwitchFails(c) \/ AddRecordFails(c) \/ SyncFails(c)
Background == \/ BackgroundIdle \/ FlushStart \/ FlushBuild \/ CompactionStart
              \/ CompactionOpen \/ CompactionFinish \/ LogAndApply \/ RemoveFiles
BackgroundFaults == FlushFails \/ LogAndApplyFails

Next ==
    \/ \E c \in Clients : Write(c) \/ Lead(c) \/ WriteFaults(c)
    \/ Background \/ BackgroundFaults
    \/ \E r \in Readers : GetStart(r) \/ GetEnd(r) \/ GetSnapshot(r) \/ ReleaseSnapshot(r)
    \/ Open \/ Crash

\* Threads that hold or wait for mutex_ run, and a server that is down is
\* started again.
Spec == /\ Init /\ [][Next]_vars
        /\ \A c \in Clients : WF_vars(Lead(c))
        /\ WF_vars(Background) /\ WF_vars(Open)

-----------------------------------------------------------------------------
(* Properties *)

\* The entries a restart is sure to find: the tables of the version that
\* CURRENT leads to, and the logs that its log number asks for.
OnDisk(read) ==
    IF CURRENT = 0 THEN {}
    ELSE LET m == manifests[CURRENT]
         IN  TableEntries(DOMAIN ManifestFiles(m)) \cup
             UNION {read[n] : n \in {k \in DOMAIN logs : k >= Last(m).log}}
AllRecords == [n \in DOMAIN logs |-> ReadLog(logs[n])]
SyncedRecords == [n \in DOMAIN logs |-> ReadLog(SubSeq(logs[n], 1, synced[n]))]

\* An entry is on disk, or a newer one of the same key is, or a newer
\* deletion took all of them with it.
Stands(e, entries) ==
    \/ \E f \in entries : f.key = e.key /\ f.seq >= e.seq
    \/ /\ \A f \in entries : f.key # e.key
       /\ \E g \in groups : \E d \in g.entries : d.del /\ d.key = e.key /\ d.seq >= e.seq

\* A restart finds its MANIFEST and every table it names: RemoveObsoleteFiles
\* and the order of the steps of LogAndApply and Open never leave CURRENT
\* leading to a file that is not there.
Reopens ==
    CURRENT # 0 => /\ CURRENT \in DOMAIN manifests
                   /\ DOMAIN ManifestFiles(manifests[CURRENT]) \subseteq DOMAIN tables

\* A write that returned OK is found by a restart, whatever the flush, the
\* compaction, the removal of logs or an earlier recovery was doing; one
\* written with sync is found even if the machine fails.  (Only for logs
\* without an incomplete record: what follows one may be dropped with it.)
AckedOnDisk ==
    \A g \in groups : g.acked /\ g.whole =>
        \A e \in g.entries : /\ Stands(e, OnDisk(AllRecords))
                              /\ g.sync => Stands(e, OnDisk(SyncedRecords))

\* A Get, or an iterator, shows what the database held when it took its
\* references, and a snapshot what it held when it was taken, through
\* concurrent writes, switches of the memtable, flushes, compactions and
\* removals of files.
ReadsSnapshot ==
    \A r \in Readers :
        /\ reader[r].on =>
             Shown(reader[r].mem, reader[r].imm, reader[r].files, reader[r].at)
                = reader[r].expect
        /\ snapshot[r].seq # 0 /\ phase = "open" => View(snapshot[r].seq) = snapshot[r].shown

\* What is shown now is what a restart would show: the memtables hold what
\* the logs that are kept hold, and nothing is counted twice or left out
\* when a memtable becomes a table.
RestartSame ==
    phase = "open" /\ ~bgError /\ (\A n \in DOMAIN logs : Torn \notin Range(logs[n])) =>
        View(lastSeq) =
            {e \in {Newest(OnDisk(AllRecords), k, lastSeq) : k \in Keys} : ~e.del}

\* Every call of Write returns, also after an error of the background thread
\* and when level 0 is full: no writer is left waiting on its own cv or on
\* background_work_finished_signal_.
WritesReturn ==
    \A c \in Clients : (call[c].pc # "idle" \/ waits[c] # "none")
                        ~> (call[c].pc = "idle" /\ waits[c] = "none")

=============================================================================
