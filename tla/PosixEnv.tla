------------------------------ MODULE PosixEnv ------------------------------
(***************************************************************************)
(* LevelDB's environment on POSIX (src/database/leveldb/util/env_posix.cc): *)
(* the buffered file that logs, tables and manifests are written through,  *)
(* the limiters that decide how a table is opened for reading, and the     *)
(* queue of the background thread.  The three share no state; each is a    *)
(* machine of its own.  The system calls are external: write may write a   *)
(* part, and every call may fail.                                          *)
(***************************************************************************)
EXTENDS Integers, Sequences, SequencesExt, FiniteSets

CONSTANTS BufferSize,    \* kWritableFileBufferSize
          AppendSizes,   \* sizes of the data given to Append
          MaxBytes,      \* bound: bytes appended
          MaxFailures,   \* bound: system calls that fail
          Openers,       \* threads that open and close tables
          MaxMmaps,      \* mmap_limiter_ at the start
          MaxOpenFiles,  \* fd_limiter_ at the start
          MaxOpens,      \* bound: tables opened
          MaxWork        \* bound: work items scheduled

VARIABLES content,    \* the file, its bytes numbered in the order they were appended
          durable,    \* how many of them fdatasync has put on the disk
          wfile,      \* PosixWritableFile: [pc, buf, left, rest], see FileIdle
          appended,   \* bytes given to Append
          failures,
          lostTo,     \* history: bytes given to Append when a call last failed
          promised,   \* history: bytes a later Sync that returned OK has to have saved
          allowed,    \* allowed[l]: acquires_allowed_ of a limiter
          opener,     \* opener[t]: where thread t is, with its table once open
          fds,        \* open descriptors of tables
          opens,
          work,       \* background_work_queue_
          background, \* the background thread: "none", "run", "wait", "signalled"
          scheduled,  \* work items scheduled
          ran         \* work items run, in order
writeVars == <<content, durable, wfile, appended, failures, lostTo, promised>>
openVars == <<allowed, opener, fds, opens>>
workVars == <<work, background, scheduled, ran>>

-----------------------------------------------------------------------------
(* PosixWritableFile *)

\* buf: buf_[0 .. pos_ - 1]; left: what WriteUnbuffered has still to write;
\* rest: what Append has not placed yet.
FileIdle == [pc |-> "idle", buf |-> <<>>, left |-> <<>>, rest |-> <<>>]
FlushBuffer(pc) == [wfile EXCEPT !.pc = pc, !.left = wfile.buf]

Bytes(n) == [i \in 1 .. n |-> appended + i]
Fits(data) == IF Len(data) < BufferSize - Len(wfile.buf) THEN Len(data) ELSE BufferSize - Len(wfile.buf)

\* As much as possible goes into the buffer; the rest waits for FlushBuffer.
AppendTo(n) ==
    /\ wfile.pc = "idle" /\ appended + n <= MaxBytes
    /\ appended' = appended + n
    /\ LET k == Fits(Bytes(n))
           buf == wfile.buf \o SubSeq(Bytes(n), 1, k)
           rest == SubSeq(Bytes(n), k + 1, n)
       IN  wfile' = IF rest = <<>> THEN [wfile EXCEPT !.buf = buf]
                    ELSE [pc |-> "append", buf |-> buf, left |-> buf, rest |-> rest]
    /\ UNCHANGED <<content, durable, failures, lostTo, promised>>

Flush == /\ wfile.pc = "idle" /\ wfile' = FlushBuffer("flush")
         /\ UNCHANGED <<content, durable, appended, failures, lostTo, promised>>

\* Sync: SyncDirIfManifest has succeeded, then FlushBuffer and SyncFd.
Sync == /\ wfile.pc = "idle" /\ wfile' = FlushBuffer("sync")
        /\ UNCHANGED <<content, durable, appended, failures, lostTo, promised>>

Close == /\ wfile.pc = "idle" /\ wfile' = FlushBuffer("close")
         /\ UNCHANGED <<content, durable, appended, failures, lostTo, promised>>

\* One turn of WriteUnbuffered's loop: write takes k bytes.
WriteUnbuffered ==
    /\ wfile.left # <<>>
    /\ \E k \in 1 .. Len(wfile.left) :
        /\ content' = content \o SubSeq(wfile.left, 1, k)
        /\ wfile' = [wfile EXCEPT !.left = SubSeq(@, k + 1, Len(@))]
    /\ UNCHANGED <<durable, appended, failures, lostTo, promised>>

\* Mutant: the rest of the data is put behind what was flushed.
PlacedOver(rest) ==
    IF Len(rest) < BufferSize THEN [FileIdle EXCEPT !.buf = wfile.buf \o rest]
    ELSE [FileIdle EXCEPT !.pc = "direct", !.left = rest]

\* Large data is written directly, small data goes to the buffer.
Placed(rest) == IF Len(rest) < BufferSize THEN [FileIdle EXCEPT !.buf = rest]
                ELSE [FileIdle EXCEPT !.pc = "direct", !.left = rest]

\* WriteUnbuffered has written everything; FlushBuffer sets pos_ to zero.
WriteEnds ==
    /\ wfile.pc # "idle" /\ wfile.left = <<>> /\ wfile.pc \notin {"fsync", "closed"}
    /\ wfile' = CASE wfile.pc = "append" -> Placed(wfile.rest)
                  [] wfile.pc \in {"direct", "flush"} -> FileIdle
                  [] wfile.pc = "sync" -> [FileIdle EXCEPT !.pc = "fsync"]
                  [] wfile.pc = "close" -> [FileIdle EXCEPT !.pc = "closed"]
    /\ UNCHANGED <<content, durable, appended, failures, lostTo, promised>>

\* SyncFd
SyncFd ==
    /\ wfile.pc = "fsync" /\ wfile' = FileIdle
    /\ durable' = Len(content)
    /\ promised' = promised \cup (lostTo + 1 .. appended)
    /\ UNCHANGED <<content, appended, failures, lostTo>>

\* A system call fails and the operation returns its error: write (pos_ is
\* zero all the same), fdatasync, or the fsync of the directory, which leaves
\* the buffer as it is.
Failed == failures < MaxFailures /\ failures' = failures + 1 /\ lostTo' = appended
WriteFails ==
    /\ Failed
    /\ \/ wfile.left # <<>> /\ wfile' = [FileIdle EXCEPT !.pc = IF wfile.pc = "close" THEN "closed" ELSE "idle"]
       \/ wfile.pc = "fsync" /\ wfile' = FileIdle
       \/ wfile.pc = "idle" /\ wfile' = wfile
    /\ UNCHANGED <<content, durable, appended, promised>>

-----------------------------------------------------------------------------
(* Limiter, NewRandomAccessFile, PosixRandomAccessFile, PosixMmapReadableFile *)

\* Acquire subtracts, looks at the old value, and adds again if there was none.
Granted(old) == old > 0
At(t, pc) == opener[t] = pc
Goto(t, pc) == opener' = [opener EXCEPT ![t] = pc]
Add(l, n) == allowed' = [allowed EXCEPT ![l] = @ + n]

OpenTable(t) ==
    /\ At(t, "none") /\ opens < MaxOpens /\ opens' = opens + 1
    /\ fds' = fds + 1 /\ Goto(t, "mmap?")
    /\ UNCHANGED allowed

Acquire(t, l, asks, granted, refused) ==
    /\ At(t, asks) /\ Add(l, -1)
    /\ Goto(t, IF Granted(allowed[l]) THEN granted ELSE refused)
    /\ UNCHANGED <<fds, opens>>
AcquireMmap(t) == Acquire(t, "mmap", "mmap?", "map", "no mmap")
AcquireFd(t) == Acquire(t, "fd", "fd?", "kept", "no fd")

\* The refused caller gives back what it took: it has no region and asks for
\* a permanent descriptor, or closes the descriptor and reopens at each read.
NoMmap(t) == At(t, "no mmap") /\ Add("mmap", 1) /\ Goto(t, "fd?") /\ UNCHANGED <<fds, opens>>
NoFd(t) == At(t, "no fd") /\ Add("fd", 1) /\ Goto(t, "temporary") /\ fds' = fds - 1 /\ UNCHANGED opens

\* GetFileSize and mmap succeed or fail; either way the descriptor is closed.
Mmap(t) == At(t, "map") /\ Goto(t, "mapped") /\ fds' = fds - 1 /\ UNCHANGED <<allowed, opens>>
MmapFails(t) == At(t, "map") /\ Add("mmap", 1) /\ Goto(t, "none") /\ fds' = fds - 1 /\ UNCHANGED opens

\* Read of a table without a permanent descriptor opens it for the time being.
ReadOpens(t) == At(t, "temporary") /\ Goto(t, "reading") /\ fds' = fds + 1 /\ UNCHANGED <<allowed, opens>>
ReadCloses(t) == At(t, "reading") /\ Goto(t, "temporary") /\ fds' = fds - 1 /\ UNCHANGED <<allowed, opens>>

\* The destructors.
CloseTable(t) ==
    \/ At(t, "mapped") /\ Add("mmap", 1) /\ Goto(t, "none") /\ UNCHANGED <<fds, opens>>
    \/ At(t, "kept") /\ Add("fd", 1) /\ Goto(t, "none") /\ fds' = fds - 1 /\ UNCHANGED opens
    \/ At(t, "temporary") /\ Goto(t, "none") /\ UNCHANGED <<allowed, fds, opens>>

-----------------------------------------------------------------------------
(* Schedule and BackgroundThreadMain, each under background_work_mutex_ *)

\* Signal does nothing when nobody waits.
Signalled == IF background = "none" THEN "run"
             ELSE IF background = "wait" /\ work = <<>> THEN "signalled" ELSE background
Schedule ==
    /\ scheduled < MaxWork /\ scheduled' = scheduled + 1
    /\ background' = Signalled
    /\ work' = Append(work, scheduled + 1)
    /\ UNCHANGED ran

\* It waits for as long as the queue is empty; a wait may end without a signal.
BackgroundWaits == /\ background \in {"run", "signalled"} /\ work = <<>> /\ background' = "wait"
                   /\ UNCHANGED <<work, scheduled, ran>>
SpuriousWakeup == background = "wait" /\ background' = "signalled" /\ UNCHANGED <<work, scheduled, ran>>

\* It takes the front of the queue and calls it without the mutex.
BackgroundWork ==
    /\ background \in {"run", "signalled"} /\ work # <<>>
    /\ ran' = Append(ran, Head(work)) /\ work' = Tail(work) /\ background' = "run"
    /\ UNCHANGED scheduled

-----------------------------------------------------------------------------
EnvInit ==
    /\ content = <<>> /\ durable = 0 /\ wfile = FileIdle /\ appended = 0
    /\ failures = 0 /\ lostTo = 0 /\ promised = {}
    /\ allowed = [mmap |-> MaxMmaps, fd |-> MaxOpenFiles]
    /\ opener = [t \in Openers |-> "none"] /\ fds = 0 /\ opens = 0
    /\ work = <<>> /\ background = "none" /\ scheduled = 0 /\ ran = <<>>

WriteStep == \/ \E n \in AppendSizes : AppendTo(n)
             \/ Flush \/ Sync \/ Close \/ WriteUnbuffered \/ WriteEnds \/ SyncFd \/ WriteFails
OpenStep == \E t \in Openers :
    \/ OpenTable(t) \/ AcquireMmap(t) \/ AcquireFd(t) \/ NoMmap(t) \/ NoFd(t)
    \/ Mmap(t) \/ MmapFails(t) \/ ReadOpens(t) \/ ReadCloses(t) \/ CloseTable(t)
WorkStep == Schedule \/ BackgroundWaits \/ SpuriousWakeup \/ BackgroundWork

\* The three have nothing to do with one another.
EnvNext == \/ WriteStep /\ UNCHANGED <<openVars, workVars>>
           \/ OpenStep /\ UNCHANGED <<writeVars, workVars>>
           \/ WorkStep /\ UNCHANGED <<writeVars, openVars>>
EnvSpec == EnvInit /\ [][EnvNext]_<<writeVars, openVars, workVars>>

-----------------------------------------------------------------------------
(* Properties *)

\* Whatever write takes at a time and whichever call fails, the file has the
\* appended bytes in order and none twice.  As long as nothing failed it
\* lacks only what is still in memory, and what was appended after the last
\* failure and before a Sync that returned OK is on the disk for good.
InMemory == IF wfile.pc = "append" THEN wfile.left \o wfile.rest
            ELSE IF wfile.left # <<>> THEN wfile.left
            ELSE IF wfile.pc = "idle" THEN wfile.buf ELSE <<>>
FileInOrder ==
    /\ \A i, j \in DOMAIN content : i < j => content[i] < content[j]
    /\ lostTo = 0 => content \o InMemory = [i \in 1 .. appended |-> i]
    /\ promised \subseteq {content[i] : i \in 1 .. durable}

\* The limiters keep what they promise while threads open and close tables
\* at the same time: no more regions and permanent descriptors than allowed,
\* and, when nobody is opening one, none of either lost.
In(pcs) == Cardinality({t \in Openers : opener[t] \in pcs})
TablesLimited ==
    /\ In({"map", "mapped"}) <= MaxMmaps /\ In({"kept"}) <= MaxOpenFiles
    /\ fds = In({"mmap?", "map", "no mmap", "fd?", "no fd", "kept", "reading"})
    /\ In({"none", "mapped", "kept", "temporary", "reading"}) = Cardinality(Openers) =>
        allowed = [mmap |-> MaxMmaps - In({"mapped"}), fd |-> MaxOpenFiles - In({"kept"})]

\* Every item is run once and in order, and the thread is never left waiting
\* with work in the queue.
WorkRuns ==
    /\ ran \o work = [i \in 1 .. scheduled |-> i]
    /\ work # <<>> => background \in {"run", "signalled"}
=============================================================================
