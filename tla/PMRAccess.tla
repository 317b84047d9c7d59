------------------------------ MODULE PMRAccess ------------------------------
(***************************************************************************)
(* The PMR front end (frontend/pmr): clients that append records to a      *)
(* chunk of the server's persistent memory region by one-sided writes, one *)
(* clerk thread per client that indexes the records and answers requests,  *)
(* and the uring thread that copies full chunks to the log file and frees  *)
(* them.                                                                   *)
(*                                                                         *)
(* Abstractions.  A request and its reply are one message each: the        *)
(* buffers, header words and queue pairs below them deliver a request      *)
(* before its header word.  AllocChunk takes any clear bit in one step:    *)
(* module AtomicBitset shows that blindset does.  A record is identified   *)
(* by who wrote it and when, so two writes are never confused; its length  *)
(* is in units of which a chunk has MAX_ASYNC_SIZE.                        *)
(***************************************************************************)
EXTENDS Integers, Sequences, FiniteSets

CONSTANTS
  Clients,         \* connections; client c is served by clerk c
  Keys,
  Chunks,          \* chunks of the messaging buffer
  MAX_ASYNC_SIZE,  \* length of a chunk
  Lens,            \* lengths a record can have
  QueueDepth,      \* entries of the io_uring (64 in the code)
  MaxOps,          \* MaxOps[c], bound: operations client c issues before it closes
  WriteKeys,       \* WriteKeys[c]: the keys client c writes or deletes
  Deletes,         \* whether clients send DELETE
  AtomicBatch,     \* TRUE for LevelDB's PutBatch, FALSE for CuckooDB's
  WritesFail,      \* whether writes of the log file may fail
  DbFails,         \* whether writes of LevelDB may fail
  None, Torn       \* no value; bytes that are no record's value

Recs == [key : Keys, by : Clients, seq : Nat, len : Lens]
Vals == Recs \cup {Torn}
Cursors == [chunk : Chunks \cup {None}, head : Nat]
Locs == [chunk : Chunks, off : Nat, len : Lens]      \* Meta(void *, ...)
Metas == [key : Keys, off : Nat, len : Lens]         \* key_batch[i] and metas[i]
Entries == [off : Nat, rec : Recs]
Requests == [op : {"ALLOC", "CLOSE"}] \cup [op : {"GET", "DELETE"}, key : Keys]
              \cup [op : {"PUT"}, rec : Recs]
Replies == [status : {"OK", "NOTFOUND"}, res : Vals \cup {None}, chunk : Chunks \cup {None}]

ASSUME ConstantsOK ==
  /\ MAX_ASYNC_SIZE \in Nat
  /\ Lens \subseteq 1 .. MAX_ASYNC_SIZE - 1
  /\ QueueDepth \in Nat \ {0}
  /\ MaxOps \in [Clients -> Nat]
  /\ WriteKeys \in [Clients -> SUBSET Keys]
  /\ Deletes \in BOOLEAN /\ AtomicBatch \in BOOLEAN
  /\ WritesFail \in BOOLEAN /\ DbFails \in BOOLEAN
  /\ None \notin Chunks /\ None \notin Vals /\ None \notin Locs
  /\ None \notin Requests /\ None \notin Replies
  /\ Torn \notin Recs

VARIABLES
  cpc,    \* client: "new", "idle", "call", "closing" or "closed"
  nops,   \* client: operations issued
  ccur,   \* client: chunk_offset_ and buf_head_
  pend,   \* client: the record SendWrite holds while it waits for SendAlloc
  req,    \* the request in the clerk's message buffer
  sent,   \* the clerk's header word is CLIENT_DONE
  rep,    \* the reply in the client's message buffer, or None
  rd,     \* client: what the GET that returned last was given (history)
  kpc,    \* clerk: where Run is
  kcur,   \* clerk: chunk_offset_ and buf_head_
  batch,  \* clerk: key_batch and metas
  ki,     \* clerk: index of the loop over the batch
  kloc,   \* clerk: the Meta that map_.find copied
  tmp,    \* clerk: tmp_buf, the DRAM copy of the chunk
  bit,    \* bitmap_
  mem,    \* contents of the chunks: records and the offsets they start at
  map,    \* map_, the index of records not yet in the database
  db,     \* the database
  queue,  \* global_queue: a FIFO per producing clerk
  ring,   \* writes in the io_uring: prepared, submitted or completed
  inflight, \* inflight_
  offset, \* offset_, where the next write of the log file goes
  upc,    \* where UringRun is
  log,    \* contents of the log file
  acked,  \* records whose write the clerk has answered (history)
  gone,   \* the records of a key that a DELETE of it found answered (history)
  lost    \* the records of failed writes of the log file (history)

clientVars == <<cpc, nops, ccur, pend, rd>>
mailVars   == <<req, sent, rep>>
clerkVars  == <<kpc, kcur, batch, ki, kloc, tmp>>
uringVars  == <<ring, inflight, offset, upc, log>>
histVars   == <<acked, gone, lost>>
vars == <<clientVars, mailVars, clerkVars, uringVars, histVars, bit, mem, map, db, queue>>

\* no chunk yet: UINT32_MAX in both fields, which nothing reads before an ALLOC
NoCursor == [chunk |-> None, head |-> 0]

Init ==
  /\ cpc = [c \in Clients |-> "new"] /\ nops = [c \in Clients |-> 0]
  /\ ccur = [c \in Clients |-> NoCursor] /\ kcur = [c \in Clients |-> NoCursor]
  /\ pend = [c \in Clients |-> None] /\ rd = [c \in Clients |-> None]
  /\ req = [c \in Clients |-> None] /\ rep = [c \in Clients |-> None]
  /\ sent = [c \in Clients |-> FALSE]
  /\ kpc = [c \in Clients |-> "spin"] /\ batch = [c \in Clients |-> << >>]
  /\ ki = [c \in Clients |-> 1] /\ kloc = [c \in Clients |-> None]
  /\ tmp = [c \in Clients |-> {}]
  /\ bit = [ch \in Chunks |-> FALSE] /\ mem = [ch \in Chunks |-> {}]
  /\ map = [k \in Keys |-> None] /\ db = [k \in Keys |-> None]
  /\ queue = [c \in Clients |-> << >>]
  /\ ring = {} /\ inflight = 0 /\ offset = 0
  /\ upc = "fill" /\ log = {}
  /\ acked = {} /\ gone = {} /\ lost = {}

----------------------------------------------------------------------------
(* Memory of a chunk. *)

Overlaps(e, off, len) == e.off < off + len /\ off < e.off + e.rec.len

\* a one-sided write of record r at offset off
Store(m, off, r) ==
  {e \in m : ~Overlaps(e, off, r.len)} \cup {[off |-> off, rec |-> r]}

\* the len units at offset off: a record, if one was written exactly there
Load(m, off, len) ==
  IF \E e \in m : e.off = off /\ e.rec.len = len
  THEN (CHOOSE e \in m : e.off = off /\ e.rec.len = len).rec
  ELSE Torn

----------------------------------------------------------------------------
(* Client side. *)

Call(c, r) ==
  /\ req' = [req EXCEPT ![c] = r]
  /\ sent' = [sent EXCEPT ![c] = TRUE]
  /\ rep' = [rep EXCEPT ![c] = None]

\* Connect ends with SendAlloc
Connect(c) ==
  /\ cpc[c] = "new"
  /\ cpc' = [cpc EXCEPT ![c] = "call"]
  /\ Call(c, [op |-> "ALLOC"])
  /\ UNCHANGED <<nops, ccur, pend, rd, clerkVars, uringVars, histVars, bit, mem, map, db, queue>>

\* the part of SendWrite after the allocation, with cursor cur: the record
\* goes to the chunk before the request and the header word reach the clerk
WriteRecord(c, r, cur) ==
  /\ mem' = [mem EXCEPT ![cur.chunk] = Store(@, cur.head, r)]
  /\ ccur' = [ccur EXCEPT ![c] = [chunk |-> cur.chunk, head |-> cur.head + r.len]]
  /\ pend' = [pend EXCEPT ![c] = None]
  /\ Call(c, [op |-> "PUT", rec |-> r])

NeedsAllocMutant(cur, r) == cur.head >= MAX_ASYNC_SIZE
NeedsAlloc(cur, r) == cur.head + r.len >= MAX_ASYNC_SIZE

\* SendPut and SendUpdate
SendWrite(c, k, n) ==
  LET r == [key |-> k, by |-> c, seq |-> nops[c] + 1, len |-> n] IN
  /\ cpc[c] = "idle" /\ nops[c] < MaxOps[c]
  /\ cpc' = [cpc EXCEPT ![c] = "call"]
  /\ nops' = [nops EXCEPT ![c] = @ + 1]
  /\ rd' = [rd EXCEPT ![c] = None]
  /\ \/ /\ NeedsAlloc(ccur[c], r)
        /\ pend' = [pend EXCEPT ![c] = r]
        /\ Call(c, [op |-> "ALLOC"])
        /\ UNCHANGED <<ccur, mem>>
     \/ /\ ~NeedsAlloc(ccur[c], r)
        /\ WriteRecord(c, r, ccur[c])
  /\ UNCHANGED <<clerkVars, uringVars, histVars, bit, map, db, queue>>

\* the history variable remembers which records of k were answered before,
\* and which of those were deleted
SendGet(c, k) ==
  /\ cpc[c] = "idle" /\ nops[c] < MaxOps[c]
  /\ cpc' = [cpc EXCEPT ![c] = "call"]
  /\ nops' = [nops EXCEPT ![c] = @ + 1]
  /\ rd' = [rd EXCEPT ![c] = [key |-> k, res |-> None,
                              before |-> {r \in acked : r.key = k},
                              dead |-> {r \in gone : r.key = k}]]
  /\ Call(c, [op |-> "GET", key |-> k])
  /\ UNCHANGED <<ccur, pend, clerkVars, uringVars, histVars, bit, mem, map, db, queue>>

SendDelete(c, k) ==
  /\ Deletes
  /\ cpc[c] = "idle" /\ nops[c] < MaxOps[c]
  /\ cpc' = [cpc EXCEPT ![c] = "call"]
  /\ nops' = [nops EXCEPT ![c] = @ + 1]
  /\ rd' = [rd EXCEPT ![c] = None]
  /\ Call(c, [op |-> "DELETE", key |-> k])
  /\ UNCHANGED <<ccur, pend, clerkVars, uringVars, histVars, bit, mem, map, db, queue>>

SendClose(c) ==
  /\ cpc[c] = "idle"
  /\ cpc' = [cpc EXCEPT ![c] = "closing"]
  /\ rd' = [rd EXCEPT ![c] = None]
  /\ Call(c, [op |-> "CLOSE"])
  /\ UNCHANGED <<nops, ccur, pend, clerkVars, uringVars, histVars, bit, mem, map, db, queue>>

\* the client sees CLERK_DONE in its header word
ReturnAlloc(c) ==
  LET cur == [chunk |-> rep[c].chunk, head |-> 0] IN
  /\ cpc[c] = "call" /\ rep[c] # None /\ req[c].op = "ALLOC"
  /\ \/ /\ pend[c] # None
        /\ WriteRecord(c, pend[c], cur)
        /\ UNCHANGED cpc
     \/ /\ pend[c] = None
        /\ ccur' = [ccur EXCEPT ![c] = cur]
        /\ cpc' = [cpc EXCEPT ![c] = "idle"]
        /\ rep' = [rep EXCEPT ![c] = None]
        /\ UNCHANGED <<mem, pend, req, sent>>
  /\ UNCHANGED <<nops, rd, clerkVars, uringVars, histVars, bit, map, db, queue>>

Return(c) ==
  /\ cpc[c] = "call" /\ rep[c] # None /\ req[c].op # "ALLOC"
  /\ cpc' = [cpc EXCEPT ![c] = "idle"]
  /\ rep' = [rep EXCEPT ![c] = None]
  /\ rd' = IF req[c].op = "GET" THEN [rd EXCEPT ![c].res = rep[c].res] ELSE rd
  /\ UNCHANGED <<nops, ccur, pend, req, sent, clerkVars, uringVars, histVars, bit, mem, map, db, queue>>

----------------------------------------------------------------------------
(* Clerk side: PMRClerk::Run. *)

TakenMutant(c) == UNCHANGED sent
Taken(c) == sent' = [sent EXCEPT ![c] = FALSE]

\* the header word says CLIENT_DONE and is set back to CLERK_DONE
Receive(c, op) ==
  /\ kpc[c] = "spin" /\ sent[c] /\ req[c].op = op
  /\ Taken(c)

Reply(c, s, v, ch) == rep' = [rep EXCEPT ![c] = [status |-> s, res |-> v, chunk |-> ch]]

Goto(c, to) == kpc' = [kpc EXCEPT ![c] = to]

\* Request::Length
Length(r) == r.len

ClerkPut(c) ==
  LET r == req[c].rec IN
  /\ Receive(c, "PUT")
  /\ batch' = [batch EXCEPT ![c] = Append(@, [key |-> r.key, off |-> kcur[c].head, len |-> r.len])]
  /\ map' = [map EXCEPT ![r.key] = [chunk |-> kcur[c].chunk, off |-> kcur[c].head, len |-> r.len]]
  /\ kcur' = [kcur EXCEPT ![c] = [chunk |-> @.chunk, head |-> @.head + Length(r)]]
  /\ acked' = acked \cup {r}
  /\ Reply(c, "OK", None, None)
  /\ UNCHANGED <<clientVars, req, kpc, ki, kloc, tmp, uringVars, gone, lost, bit, mem, db, queue>>

\* map_.find: a hit keeps the address for the memcpy, a miss goes to the database
LookupMutant(k) == IF db[k] = None THEN map[k] ELSE None
Lookup(k) == map[k]

ClerkGet(c) ==
  LET loc == Lookup(req[c].key) IN
  /\ Receive(c, "GET")
  /\ kloc' = [kloc EXCEPT ![c] = loc]
  /\ Goto(c, IF loc # None THEN "copy" ELSE "dbget")
  /\ UNCHANGED <<clientVars, req, rep, kcur, batch, ki, tmp, uringVars, histVars, bit, mem, map, db, queue>>

\* memcpy from the chunk, whoever owns it by now.  A copy that overlaps a
\* client's write in time may also mix old and new bytes; no property tells
\* that from the wrong record or Torn, which the model does return.
GetCopy(c) ==
  /\ kpc[c] = "copy"
  /\ Reply(c, "OK", Load(mem[kloc[c].chunk], kloc[c].off, kloc[c].len), None)
  /\ kloc' = [kloc EXCEPT ![c] = None]
  /\ Goto(c, "spin")
  /\ UNCHANGED <<clientVars, req, sent, kcur, batch, ki, tmp, uringVars, histVars, bit, mem, map, db, queue>>

\* LevelDB answers NOTFOUND for a missing key, CuckooDB OK with an empty
\* value; res is None in both cases
GetDb(c) ==
  /\ kpc[c] = "dbget"
  /\ Reply(c, IF db[req[c].key] = None /\ AtomicBatch THEN "NOTFOUND" ELSE "OK",
           db[req[c].key], None)
  /\ Goto(c, "spin")
  /\ UNCHANGED <<clientVars, req, sent, kcur, batch, ki, kloc, tmp, uringVars, histVars, bit, mem, map, db, queue>>

\* both databases report success, whether or not they had the key
ClerkDelete(c) ==
  /\ Receive(c, "DELETE")
  /\ \/ /\ db' = [db EXCEPT ![req[c].key] = None]
        /\ gone' = gone \cup {r \in acked : r.key = req[c].key}
        /\ Reply(c, "OK", None, None)
     \/ /\ AtomicBatch /\ DbFails
        /\ Reply(c, "NOTFOUND", None, None)
        /\ UNCHANGED <<db, gone>>
  /\ UNCHANGED <<clientVars, req, clerkVars, uringVars, acked, lost, bit, mem, map, queue>>

\* copy the chunk to tmp_buf and enter PutBatch
StartFlush(c) ==
  /\ tmp' = [tmp EXCEPT ![c] = mem[kcur[c].chunk]]
  /\ ki' = [ki EXCEPT ![c] = 1]
  /\ Goto(c, "putbatch")

ClerkAlloc(c) ==
  /\ Receive(c, "ALLOC")
  /\ \/ kcur[c].chunk # None /\ StartFlush(c)
     \/ kcur[c].chunk = None /\ Goto(c, "alloc") /\ UNCHANGED <<tmp, ki>>
  /\ UNCHANGED <<clientVars, req, rep, kcur, batch, kloc, uringVars, histVars, bit, mem, map, db, queue>>

NeedsFlushMutant(cur) == cur.head > 2
NeedsFlush(cur) == cur.head > 0

ClerkClose(c) ==
  /\ Receive(c, "CLOSE")
  /\ \/ NeedsFlush(kcur[c]) /\ StartFlush(c)
     \/ ~NeedsFlush(kcur[c]) /\ Goto(c, "recv") /\ UNCHANGED <<tmp, ki>>
  /\ UNCHANGED <<clientVars, req, rep, kcur, batch, kloc, uringVars, histVars, bit, mem, map, db, queue>>

\* the value PutBatch reads from tmp_buf for entry i of the batch
BatchValue(c, i) == Load(tmp[c], batch[c][i].off, batch[c][i].len)

LastWith(c, k) ==
  CHOOSE i \in DOMAIN batch[c] : /\ batch[c][i].key = k
                                 /\ \A j \in DOMAIN batch[c] : batch[c][j].key = k => j <= i

\* CuckooDB::PutBatch has stored all entries of the batch
StoredMutant(c) == ki[c] >= Len(batch[c])
Stored(c) == ki[c] > Len(batch[c])

\* DBType::PutBatch: LevelDB writes the batch in one step, or fails to and reports
\* success all the same; CuckooDB writes it key by key
PutBatch(c) ==
  /\ kpc[c] = "putbatch"
  /\ \/ /\ AtomicBatch
        /\ \/ db' = [k \in Keys |-> IF \E i \in DOMAIN batch[c] : batch[c][i].key = k
                                    THEN BatchValue(c, LastWith(c, k)) ELSE db[k]]
           \/ DbFails /\ UNCHANGED db
        /\ Goto(c, "erase")
        /\ UNCHANGED ki
     \/ /\ ~AtomicBatch /\ ~Stored(c)
        /\ db' = [db EXCEPT ![batch[c][ki[c]].key] = BatchValue(c, ki[c])]
        /\ ki' = [ki EXCEPT ![c] = @ + 1]
        /\ UNCHANGED kpc
     \/ /\ ~AtomicBatch /\ Stored(c)
        /\ ki' = [ki EXCEPT ![c] = 1]
        /\ Goto(c, "erase")
        /\ UNCHANGED db
  /\ UNCHANGED <<clientVars, mailVars, kcur, batch, kloc, tmp, uringVars, histVars, bit, mem, map, queue>>

\* map_.erase, key by key
Erase(c) ==
  /\ kpc[c] = "erase" /\ ki[c] <= Len(batch[c])
  /\ map' = [map EXCEPT ![batch[c][ki[c]].key] = None]
  /\ ki' = [ki EXCEPT ![c] = @ + 1]
  /\ UNCHANGED <<clientVars, mailVars, kpc, kcur, batch, kloc, tmp, uringVars, histVars, bit, mem, db, queue>>

\* hand tmp_buf and the chunk to the uring thread; only ALLOC, after which the
\* clerk goes on, resets the batch
Enqueue(c) ==
  /\ kpc[c] = "erase" /\ ki[c] > Len(batch[c])
  /\ queue' = [queue EXCEPT ![c] =
       Append(@, [buf |-> tmp[c], len |-> kcur[c].head, chunk |-> kcur[c].chunk])]
  /\ \/ req[c].op = "ALLOC" /\ batch' = [batch EXCEPT ![c] = << >>] /\ Goto(c, "alloc")
     \/ req[c].op = "CLOSE" /\ UNCHANGED batch /\ Goto(c, "recv")
  /\ tmp' = [tmp EXCEPT ![c] = {}]
  /\ UNCHANGED <<clientVars, mailVars, kcur, ki, kloc, uringVars, histVars, bit, mem, map, db>>

\* AtomicBitset::blindset may take bit ch
TakableMutant(ch) == TRUE
Takable(ch) == ~bit[ch]

\* AllocChunk returns and the reply carries the chunk
AllocChunk(c) ==
  /\ kpc[c] = "alloc"
  /\ \E ch \in Chunks :
       /\ Takable(ch)
       /\ bit' = [bit EXCEPT ![ch] = TRUE]
       /\ kcur' = [kcur EXCEPT ![c] = [chunk |-> ch, head |-> 0]]
       /\ Reply(c, "OK", None, ch)
  /\ Goto(c, "spin")
  /\ UNCHANGED <<clientVars, req, sent, batch, ki, kloc, tmp, uringVars, histVars, mem, map, db, queue>>

\* the clerk's post_recv meets the client's post_send: both are done
CloseHandshake(c) ==
  /\ kpc[c] = "recv" /\ cpc[c] = "closing"
  /\ Goto(c, "exit")
  /\ cpc' = [cpc EXCEPT ![c] = "closed"]
  /\ UNCHANGED <<nops, ccur, pend, rd, mailVars, kcur, batch, ki, kloc, tmp, uringVars, histVars, bit, mem, map, db, queue>>

----------------------------------------------------------------------------
(* The uring thread: UringRun and IOuring. *)

InState(it, s) ==
  [buf |-> it.buf, len |-> it.len, chunk |-> it.chunk, pos |-> it.pos, st |-> s]

FullMutant == inflight > QueueDepth
Full == inflight >= QueueDepth

\* the inner loop of UringRun: IOuring::Write prepares one write
UringDequeue ==
  /\ upc = "fill" /\ ~Full
  /\ \E c \in Clients :
       LET it == Head(queue[c]) IN
       /\ queue[c] # << >>
       /\ ring' = ring \cup {[buf |-> it.buf, len |-> it.len, chunk |-> it.chunk,
                              pos |-> offset, st |-> "prep"]}
       /\ queue' = [queue EXCEPT ![c] = Tail(@)]
       /\ offset' = offset + it.len
  /\ inflight' = inflight + 1
  /\ UNCHANGED <<clientVars, mailVars, clerkVars, upc, log, histVars, bit, mem, map, db>>

\* the loop ends when the ring is full or try_dequeue finds nothing
UringSubmit ==
  /\ upc = "fill" /\ inflight # 0
  /\ Full \/ \A c \in Clients : queue[c] = << >>
  /\ ring' = {InState(it, IF it.st = "prep" THEN "flight" ELSE it.st) : it \in ring}
  /\ upc' = "wait"
  /\ UNCHANGED <<clientVars, mailVars, clerkVars, inflight, offset, log, histVars, bit, mem, map, db, queue>>

Complete(it) == ring' = (ring \ {it}) \cup {InState(it, "done")}

\* the kernel finishes a submitted write, in any order
WriteDone(it) ==
  /\ it.st = "flight"
  /\ Complete(it)
  /\ log' = {e \in log : ~Overlaps(e, it.pos, it.len)}
              \cup {[off |-> it.pos + e.off, rec |-> e.rec] : e \in {x \in it.buf : x.off < it.len}}
  /\ UNCHANGED <<clientVars, mailVars, clerkVars, inflight, offset, upc, histVars, bit, mem, map, db, queue>>

\* a completion with a negative res; UringRun does not look at res
WriteFailed(it) ==
  /\ WritesFail
  /\ it.st = "flight"
  /\ Complete(it)
  /\ lost' = lost \cup {e.rec : e \in {x \in it.buf : x.off < it.len}}
  /\ UNCHANGED <<clientVars, mailVars, clerkVars, inflight, offset, log, upc, acked, gone, bit, mem, map, db, queue>>

FinishedMutant(it) == it.st # "prep"
Finished(it) == it.st = "done"

FreeChunkMutant(ch) == UNCHANGED bit
FreeChunk(ch) == bit' = [bit EXCEPT ![ch] = FALSE]

Seen == inflight' = inflight - 1

\* Wait returns a completion; FreeChunk and Seen
UringFree ==
  /\ upc = "wait"
  /\ \E it \in ring :
       /\ Finished(it)
       /\ FreeChunk(it.chunk)
       /\ ring' = ring \ {it}
  /\ Seen
  /\ upc' = "fill"
  /\ UNCHANGED <<clientVars, mailVars, clerkVars, offset, log, histVars, mem, map, db, queue>>

----------------------------------------------------------------------------

ClientNext(c) ==
  \/ Connect(c)
  \/ \E k \in WriteKeys[c], n \in Lens : SendWrite(c, k, n)
  \/ \E k \in Keys : SendGet(c, k)
  \/ \E k \in WriteKeys[c] : SendDelete(c, k)
  \/ SendClose(c) \/ ReturnAlloc(c) \/ Return(c)

ClerkNext(c) ==
  \/ ClerkPut(c) \/ ClerkGet(c) \/ GetCopy(c) \/ GetDb(c) \/ ClerkDelete(c)
  \/ ClerkAlloc(c) \/ ClerkClose(c) \/ PutBatch(c) \/ Erase(c) \/ Enqueue(c)
  \/ AllocChunk(c) \/ CloseHandshake(c)

UringNext == UringDequeue \/ UringSubmit \/ UringFree

KernelNext == \E it \in ring : WriteDone(it) \/ WriteFailed(it)

Next ==
  \/ \E c \in Clients : ClientNext(c) \/ ClerkNext(c)
  \/ UringNext
  \/ KernelNext

Spec == Init /\ [][Next]_vars

----------------------------------------------------------------------------
(* Properties. *)

Items == [buf : SUBSET Entries, len : Nat, chunk : Chunks]
Writes == [buf : SUBSET Entries, len : Nat, chunk : Chunks, pos : Nat,
           st : {"prep", "flight", "done"}]

ClientTypes ==
  /\ cpc \in [Clients -> {"new", "idle", "call", "closing", "closed"}]
  /\ nops \in [Clients -> Nat]
  /\ ccur \in [Clients -> Cursors]
  /\ pend \in [Clients -> Recs \cup {None}]

MailTypes ==
  /\ req \in [Clients -> Requests \cup {None}]
  /\ sent \in [Clients -> BOOLEAN]
  /\ rep \in [Clients -> Replies \cup {None}]

ClerkTypes ==
  /\ kpc \in [Clients -> {"spin", "copy", "dbget", "putbatch", "erase", "alloc", "recv", "exit"}]
  /\ kcur \in [Clients -> Cursors]
  /\ batch \in [Clients -> Seq(Metas)]
  /\ ki \in [Clients -> Nat]
  /\ kloc \in [Clients -> Locs \cup {None}]
  /\ tmp \in [Clients -> SUBSET Entries]

StoreTypes ==
  /\ bit \in [Chunks -> BOOLEAN]
  /\ mem \in [Chunks -> SUBSET Entries]
  /\ map \in [Keys -> Locs \cup {None}]
  /\ db \in [Keys -> Vals \cup {None}]
  /\ queue \in [Clients -> Seq(Items)]

UringTypes ==
  /\ ring \in SUBSET Writes
  /\ inflight \in Nat /\ offset \in Nat
  /\ upc \in {"fill", "wait"}
  /\ log \in SUBSET Entries

\* Every variable of the clients, the clerks, the server and the uring thread
\* has its type; in particular inflight_ of IOuring never becomes negative.
TypeOK == ClientTypes /\ MailTypes /\ ClerkTypes /\ StoreTypes /\ UringTypes

Connection(c) ==
  /\ sent[c] => kpc[c] = "spin" /\ rep[c] = None /\ cpc[c] \in {"call", "closing"}
  /\ kpc[c] \notin {"spin", "exit"} =>
       ~sent[c] /\ rep[c] = None /\ cpc[c] \in {"call", "closing"}
  /\ rep[c] # None => cpc[c] = "call" /\ kpc[c] = "spin" /\ ~sent[c]
  /\ kpc[c] = "exit" => cpc[c] = "closed"
  /\ cpc[c] # "new" => req[c] # None
  /\ cpc[c] = "call" => req[c].op # "CLOSE"
  /\ cpc[c] = "closing" => req[c].op = "CLOSE"
  /\ kpc[c] = "copy" => kloc[c] # None
  /\ kpc[c] \in {"copy", "dbget"} => req[c].op = "GET"
  /\ kpc[c] = "alloc" => req[c].op = "ALLOC"
  /\ kcur[c].chunk = None =>
       /\ kcur[c].head = 0 /\ kpc[c] \in {"spin", "alloc"}
       /\ \/ cpc[c] = "new"
          \/ cpc[c] = "call" /\ req[c].op = "ALLOC" /\ rep[c] = None
  /\ kpc[c] \in {"putbatch", "erase"} /\ req[c].op = "CLOSE" => kcur[c].head > 0

\* A client and its clerk keep to the protocol of the header words: a request is
\* served once, by a clerk that was waiting for it, the request stays in place
\* until it is answered, and after the first ALLOC the clerk has a chunk.
Connections == \A c \in Clients : Connection(c)

\* clerk c still owns the chunk its cursor names: Run has not enqueued it
Holds(c) ==
  /\ kcur[c].chunk # None /\ kpc[c] # "alloc"
  /\ kpc[c] \in {"recv", "exit"} => kcur[c].head = 0

ClerkChunks == \A c \in Clients : Holds(c) =>
  /\ bit[kcur[c].chunk]
  /\ \A d \in Clients : Holds(d) /\ kcur[c].chunk = kcur[d].chunk => c = d
  /\ \A d \in Clients : \A i \in DOMAIN queue[d] : queue[d][i].chunk # kcur[c].chunk
  /\ \A it \in ring : it.chunk # kcur[c].chunk

QueueChunks == \A c \in Clients : \A i \in DOMAIN queue[c] :
  /\ bit[queue[c][i].chunk]
  /\ \A d \in Clients : \A j \in DOMAIN queue[d] :
       queue[c][i].chunk = queue[d][j].chunk => c = d /\ i = j
  /\ \A it \in ring : it.chunk # queue[c][i].chunk

RingChunks == \A it \in ring :
  bit[it.chunk] /\ \A jt \in ring : it.chunk = jt.chunk => it = jt

\* A chunk belongs to one clerk, one queued item or one write of the ring, and
\* is marked in bitmap_ as long as it does: AllocChunk never hands out a chunk
\* that is still to be copied, and FreeChunk's assert(bitmap_.get(chunkid))
\* never fails.
ChunkOwnership == ClerkChunks /\ QueueChunks /\ RingChunks

\* inflight_ counts the writes of the ring and stays within its entries, so
\* io_uring_get_sqe in IOuring::Write never comes back empty-handed.
RingBounded == inflight = Cardinality(ring) /\ inflight <= QueueDepth

\* The chunk a clerk owns has, at the place the clerk's metas say, a record of
\* the key they say, so that PutBatch stores that key's value, and no record
\* reaches past the chunk.
BatchIntact ==
  \A c \in Clients : Holds(c) => \A i \in DOMAIN batch[c] :
    LET b == batch[c][i]
        v == Load(mem[kcur[c].chunk], b.off, b.len) IN
    /\ v # Torn /\ v.key = b.key /\ v.by = c
    /\ b.off + b.len <= MAX_ASYNC_SIZE

InLog(r) == \E e \in log : e.rec = r

\* A write the client was told is done is in an allocated chunk of the
\* persistent memory region or in the log file, however far its chunk has come
\* on the way from one to the other; the only way to lose it is that the write
\* of its own chunk failed, which UringRun does not notice.
AckedKept ==
  \A r \in acked \ lost :
    \/ \E ch \in Chunks : bit[ch] /\ \E e \in mem[ch] : e.rec = r
    \/ InLog(r)

\* what the GET that client c made last returned
Got(c) == cpc[c] = "idle" /\ rd[c] # None

\* A GET that began after a write of its key was answered comes back empty only
\* if the key was deleted some time: Run puts the batch into the database before
\* it erases the index entries, and GET looks in the opposite order, so that no
\* clerk sees a record in neither place.
GetFinds == \A c \in Clients :
  Got(c) /\ rd[c].res = None => rd[c].before = {} \/ \E g \in gone : g.key = rd[c].key

\* A client that is the only writer of a key reads what it wrote last.
ReadYourWrites ==
  \A c \in Clients : Got(c) /\ (\A d \in Clients \ {c} : rd[c].key \notin WriteKeys[d]) =>
    \A r \in rd[c].before \ rd[c].dead :
      (\A o \in rd[c].before : o.seq <= r.seq) => rd[c].res = r

\* Every request is answered.
CallReturns == \A c \in Clients : cpc[c] = "call" ~> cpc[c] = "idle"

\* What a client wrote is in the log file some time after it closed, unless the
\* write of its chunk failed.
Drained == \A c \in Clients :
  cpc[c] = "closed" ~> \A r \in acked \ lost : r.by = c => InLog(r)

\* TestGet of test.cc: a GET returns the value stored under its key.
GetOwnKey == \A c \in Clients : Got(c) /\ rd[c].res # None =>
  rd[c].res # Torn /\ rd[c].res.key = rd[c].key
============================================================================
