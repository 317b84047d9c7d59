---------------------------- MODULE GroupCommit ----------------------------
(***************************************************************************)
(* The group front end (frontend/group): clerks put the requests that must *)
(* be logged into a queue; the clerk at its front becomes the leader,      *)
(* copies the queued requests into the one static batch, applies it to the *)
(* database and the log without the mutex, and wakes the others.           *)
(*                                                                         *)
(* What a clerk does between locking and unlocking global_mutex is one     *)
(* step: all that other clerks access there is accessed under that mutex.  *)
(* As in PMRAccess a request and its reply are one message each, and a     *)
(* record has an identity in place of its bytes.                           *)
(***************************************************************************)
EXTENDS Integers, Sequences, FiniteSets

CONSTANTS
  Clients,
  Keys,
  Lens,              \* lengths a record can have
  MAX_ASYNC_SIZE,    \* size of the batch buffer
  PREALLOCATE_SIZE,  \* size of the log area
  MaxOps,            \* MaxOps[c], bound: operations client c issues before it closes
  Sends,             \* Sends[c], bound: the requests client c sends: "PUT", "GET", "DELETE"
  MaxLost,           \* bound: records that failing writes of the log lose
  None, Empty        \* no value; the value of length 0

Recs == [op : {"PUT", "DELETE"}, key : Keys, by : Clients, seq : Nat, len : Lens]
Vals == Recs \cup {Empty}
Requests == [op : {"CLOSE"}] \cup [op : {"GET"}, key : Keys] \cup [op : {"LOGGED"}, rec : Recs]
Replies == [status : {"OK", "NOTFOUND", "PUT", "DELETE"}, res : Vals \cup {None}]

\* calls as the abstract store sees them
AbstractCalls == [op : {"READ"}, key : Keys] \cup [op : {"WRITE"}, key : Keys, val : Vals]

ASSUME ConstantsOK ==
  /\ MAX_ASYNC_SIZE \in Nat /\ PREALLOCATE_SIZE \in Nat
  /\ Lens \subseteq Nat \ {0}
  /\ MaxOps \in [Clients -> Nat]
  /\ Sends \in [Clients -> SUBSET {"PUT", "GET", "DELETE"}]
  /\ None \notin Vals /\ None \notin Requests /\ None \notin Replies /\ None \notin Clients
  /\ None \notin AbstractCalls
  /\ Empty \notin Recs

VARIABLES
  cpc,     \* client: "idle", "call", "closing" or "closed"
  nops,    \* client: operations issued
  req,     \* the request in the clerk's buffer
  sent,    \* the clerk's header word is CLIENT_DONE
  rep,     \* the reply in the client's buffer, or None
  gpc,     \* clerk: where Run is
  writers_queue,
  done,    \* Writer::done of a clerk
  woken,   \* clerks whose condition variable was signalled
  batch,   \* the static batch: the requests copied into it
  last,    \* the leader's last_writer
  ki,      \* the leader's position in PutBatch
  dbtype,  \* the DBType the server was built with: "LevelDB" or "CuckooDB"
  db, log, offset_,
  lost,    \* log entries whose pwrite failed or fell short of them (history)
  failed,  \* some write of the database failed (history)
  acked    \* records whose request was answered (history)

clientVars == <<cpc, nops>>
mailVars   == <<req, sent, rep>>
groupVars  == <<gpc, writers_queue, done, woken, batch, last, ki>>
storeVars  == <<dbtype, db, log, offset_, lost, failed>>
vars == <<clientVars, mailVars, groupVars, storeVars, acked>>

Init ==
  /\ cpc = [c \in Clients |-> "idle"] /\ nops = [c \in Clients |-> 0]
  /\ req = [c \in Clients |-> None] /\ rep = [c \in Clients |-> None]
  /\ sent = [c \in Clients |-> FALSE]
  /\ gpc = [c \in Clients |-> "spin"]
  /\ writers_queue = << >> /\ done = [c \in Clients |-> FALSE] /\ woken = {}
  /\ batch = << >> /\ last = None /\ ki = 1
  /\ dbtype \in {"LevelDB", "CuckooDB"} /\ failed = FALSE
  /\ db = [k \in Keys |-> None] /\ log = {} /\ offset_ = 0 /\ lost = {}
  /\ acked = {}

----------------------------------------------------------------------------
(* Client side. *)

Send(c, r, pc) ==
  /\ cpc[c] = "idle"
  /\ cpc' = [cpc EXCEPT ![c] = pc]
  /\ req' = [req EXCEPT ![c] = r]
  /\ sent' = [sent EXCEPT ![c] = TRUE]
  /\ UNCHANGED <<rep, groupVars, storeVars, acked>>

Issue(c) == nops[c] < MaxOps[c] /\ nops' = [nops EXCEPT ![c] = @ + 1]

SendLogged(c, op, k, n) ==
  /\ Issue(c)
  /\ Send(c, [op |-> "LOGGED", rec |-> [op |-> op, key |-> k, by |-> c, seq |-> nops[c] + 1,
                                        len |-> n]], "call")

\* SendPut and SendUpdate
SendWrite(c, k, n) == "PUT" \in Sends[c] /\ SendLogged(c, "PUT", k, n)

SendDelete(c, k, n) == "DELETE" \in Sends[c] /\ SendLogged(c, "DELETE", k, n)

SendGet(c, k) ==
  /\ "GET" \in Sends[c]
  /\ Issue(c)
  /\ Send(c, [op |-> "GET", key |-> k], "call")

SendClose(c) ==
  /\ nops[c] = MaxOps[c]
  /\ Send(c, [op |-> "CLOSE"], "closing")
  /\ UNCHANGED nops

Return(c) ==
  /\ cpc[c] = "call" /\ rep[c] # None
  /\ cpc' = [cpc EXCEPT ![c] = "idle"]
  /\ rep' = [rep EXCEPT ![c] = None]
  /\ UNCHANGED <<nops, req, sent, groupVars, storeVars, acked>>

----------------------------------------------------------------------------
(* Clerk side: GroupClerk::Run. *)

Receive(c, op) ==
  /\ gpc[c] = "spin" /\ sent[c] /\ req[c].op = op
  /\ sent' = [sent EXCEPT ![c] = FALSE]

Reply(c, s, v) == rep' = [rep EXCEPT ![c] = [status |-> s, res |-> v]]

Answered(c) == acked' = acked \cup {req[c].rec}

ClerkGet(c) ==
  LET v == db[req[c].key] IN
  /\ Receive(c, "GET")
  /\ Reply(c, IF v = None /\ dbtype = "LevelDB" THEN "NOTFOUND" ELSE "OK", v)
  /\ UNCHANGED <<clientVars, req, groupVars, storeVars, acked>>

ClerkClose(c) ==
  /\ Receive(c, "CLOSE")
  /\ gpc' = [gpc EXCEPT ![c] = "recv"]
  /\ UNCHANGED <<clientVars, req, rep, writers_queue, done, woken, batch, last, ki, storeVars, acked>>

\* post_recv meets the client's post_send
CloseHandshake(c) ==
  /\ gpc[c] = "recv" /\ cpc[c] = "closing"
  /\ gpc' = [gpc EXCEPT ![c] = "exit"]
  /\ cpc' = [cpc EXCEPT ![c] = "closed"]
  /\ UNCHANGED <<nops, mailVars, writers_queue, done, woken, batch, last, ki, storeVars, acked>>

Front(c, q) == Head(q) = c

\* push the writer; wait unless it is at the front
Enqueue(c) ==
  LET q == Append(writers_queue, c) IN
  /\ Receive(c, "LOGGED")
  /\ writers_queue' = q
  /\ done' = [done EXCEPT ![c] = FALSE]
  /\ gpc' = [gpc EXCEPT ![c] = IF Front(c, q) THEN "lead" ELSE "wait"]
  /\ UNCHANGED <<clientVars, req, rep, woken, batch, last, ki, storeVars, acked>>

\* Wait returns, whether signalled or spuriously, and the loop tests its condition
LeaveWait(c) ==
  /\ gpc[c] = "wait"
  /\ woken' = woken \ {c}
  /\ \/ /\ done[c]
        /\ gpc' = [gpc EXCEPT ![c] = "spin"]
        /\ Reply(c, "OK", None)
        /\ Answered(c)
     \/ /\ ~done[c]
        /\ gpc' = [gpc EXCEPT ![c] = IF Front(c, writers_queue) THEN "lead" ELSE "wait"]
        /\ UNCHANGED <<rep, acked>>
  /\ UNCHANGED <<clientVars, req, sent, writers_queue, done, batch, last, ki, storeVars>>

Wake(c) == c \in woken /\ LeaveWait(c)
SpuriousWake(c) == c \notin woken /\ LeaveWait(c)

Request(c) == req[c].rec

\* total length of the requests of the first n writers of the queue
Length[n \in Nat] ==
  IF n = 0 THEN 0 ELSE Length[n - 1] + Request(writers_queue[n]).len

\* BuildBatchGroup takes writers until the batch is full or the queue ends
Taken == CHOOSE n \in 1 .. Len(writers_queue) :
  /\ \A m \in 1 .. n - 1 : Length[m] < MAX_ASYNC_SIZE
  /\ n = Len(writers_queue) \/ Length[n] >= MAX_ASYNC_SIZE

\* after the usleep, with the mutex again
BuildBatchGroup(c) ==
  /\ gpc[c] = "lead"
  /\ batch' = [j \in 1 .. Taken |-> Request(writers_queue[j])]
  /\ last' = writers_queue[Taken]
  /\ ki' = 1
  /\ gpc' = [gpc EXCEPT ![c] = "put"]
  /\ UNCHANGED <<clientVars, mailVars, writers_queue, done, woken, storeVars, acked>>

\* a DELETE is a record with a value of length 0
Value(r) == IF r.op = "DELETE" THEN Empty ELSE r

LastWith(k) ==
  CHOOSE j \in DOMAIN batch : /\ batch[j].key = k
                              /\ \A m \in DOMAIN batch : batch[m].key = k => m <= j

StoredMutant == ki >= Len(batch)
Stored == ki > Len(batch)

\* DBType::PutBatch: LevelDB writes the batch in one step, or fails to and reports
\* success all the same; CuckooDB writes it key by key
PutBatch(c) ==
  /\ gpc[c] = "put"
  /\ \/ /\ dbtype = "LevelDB"
        /\ \/ /\ db' = [k \in Keys |-> IF \E j \in DOMAIN batch : batch[j].key = k
                                       THEN Value(batch[LastWith(k)]) ELSE db[k]]
              /\ UNCHANGED failed
           \/ failed' = TRUE /\ UNCHANGED db
        /\ gpc' = [gpc EXCEPT ![c] = "log"]
        /\ UNCHANGED ki
     \/ /\ dbtype = "CuckooDB" /\ ~Stored
        /\ db' = [db EXCEPT ![batch[ki].key] = Value(batch[ki])]
        /\ ki' = ki + 1
        /\ UNCHANGED <<gpc, failed>>
     \/ /\ dbtype = "CuckooDB" /\ Stored
        /\ gpc' = [gpc EXCEPT ![c] = "log"]
        /\ UNCHANGED <<db, ki, failed>>
  /\ UNCHANGED <<clientVars, mailVars, writers_queue, done, woken, batch, last, dbtype, log, offset_,
                 lost, acked>>

BatchLength[n \in Nat] == IF n = 0 THEN 0 ELSE BatchLength[n - 1] + batch[n].len
batch_length == BatchLength[Len(batch)]

\* RingLog::PutBatch takes the area from the old offset_ ...
NextPosMutant(pos, n) == pos
NextPos(pos, n) == IF pos < PREALLOCATE_SIZE THEN pos + n ELSE n

\* ... and writes it.  Only the leader does, so the compare-exchange succeeds.
\* The result of pwrite is ignored: n bytes of the batch reach the file, all of
\* them or, when the write fails or falls short, fewer.
LogBatch(c) ==
  LET pos == offset_
      entries == {[off |-> pos + BatchLength[j - 1], rec |-> batch[j]] : j \in DOMAIN batch} IN
  /\ gpc[c] = "log"
  /\ offset_' = NextPos(pos, batch_length)
  /\ \E n \in 0 .. batch_length :
       LET whole == {e \in entries : e.off + e.rec.len <= pos + n} IN
       /\ log' = {e \in log : e.off + e.rec.len <= pos \/ pos + n <= e.off} \cup whole
       /\ lost' = lost \cup (entries \ whole)
       /\ whole = entries \/ Cardinality(lost') <= MaxLost
  /\ gpc' = [gpc EXCEPT ![c] = "finish"]
  /\ UNCHANGED <<clientVars, mailVars, writers_queue, done, woken, batch, last, ki, dbtype, db, failed, acked>>

\* the writers popped from the queue: up to last_writer
PoppedMutant == Len(writers_queue)
Popped == CHOOSE n \in DOMAIN writers_queue : writers_queue[n] = last

\* the writer at the front of what is left of the queue is signalled
SignalFrontMutant(q) == {}
SignalFront(q) == IF q = << >> THEN {} ELSE {Head(q)}

\* The leader's reply is the request it overwrites: status and val_size share
\* the place of op, key_size and val_size, and only done writers set them.
Finish(c) ==
  LET ready == {writers_queue[j] : j \in 1 .. Popped} \ {c}
      rest == SubSeq(writers_queue, Popped + 1, Len(writers_queue)) IN
  /\ gpc[c] = "finish"
  /\ writers_queue' = rest
  /\ done' = [d \in Clients |-> done[d] \/ d \in ready]
  /\ woken' = woken \cup {d \in ready \cup SignalFront(rest) : gpc[d] = "wait"}
  /\ gpc' = [gpc EXCEPT ![c] = "spin"]
  /\ Reply(c, Request(c).op, None)
  /\ Answered(c)
  /\ UNCHANGED <<clientVars, req, sent, batch, last, ki, storeVars>>

----------------------------------------------------------------------------

ClientNext(c) ==
  \/ \E k \in Keys, n \in Lens : SendWrite(c, k, n) \/ SendDelete(c, k, n)
  \/ \E k \in Keys : SendGet(c, k)
  \/ SendClose(c) \/ Return(c)

ClerkNext(c) ==
  \/ ClerkGet(c) \/ ClerkClose(c) \/ CloseHandshake(c)
  \/ Enqueue(c) \/ Wake(c)
  \/ BuildBatchGroup(c) \/ PutBatch(c) \/ LogBatch(c) \/ Finish(c)

Next == \E c \in Clients : ClientNext(c) \/ ClerkNext(c) \/ SpuriousWake(c)

Spec == Init /\ [][Next]_vars

(* Clerks that can run do, and a waiting client sees its reply.  A condition *)
(* variable need not wake anybody without a signal.                          *)
FairSpec == Spec /\ \A c \in Clients : WF_vars(ClerkNext(c)) /\ WF_vars(Return(c))

----------------------------------------------------------------------------
(* Properties. *)

\* the entries PutBatch wrote, or should have written
Issued == log \cup lost

InLog(r) == \E e \in Issued : e.rec = r

\* A logged request that was answered is in the log, unless the one write that
\* should have put it there failed: no other write, queue hand-over or batch
\* limit loses it.
AckedLogged == \A r \in acked : InLog(r)

\* As long as no write of the database fails, the record of a key that was last
\* written to the log, or should have been, is the one in the database, except
\* while a batch is under way: the batches reach both in the same order, and
\* replaying the log yields the database but for the keys whose last record is
\* one of a write that failed.
LogReplays ==
  (~failed /\ \A c \in Clients : gpc[c] \notin {"put", "log"}) =>
    \A k \in Keys :
      LET E == {e \in Issued : e.rec.key = k} IN
      IF E = {} THEN db[k] = None
      ELSE \E e \in E : (\A f \in E : f.off <= e.off) /\ db[k] = Value(e.rec)

\* the calls that have taken effect: those of the batch once it is stored
Effective(c) ==
  \/ rep[c] # None
  \/ done[c] /\ gpc[c] = "wait"
  \/ \E d \in Clients, j \in DOMAIN batch :
       /\ batch[j].by = c
       /\ gpc[d] \in {"log", "finish"} \/ (gpc[d] = "put" /\ j < ki)

AbstractCall(r) ==
  IF r.op = "GET" THEN [op |-> "READ", key |-> r.key]
  ELSE [op |-> "WRITE", key |-> r.rec.key, val |-> Value(r.rec)]

Store == INSTANCE KVStore WITH
  store <- db,
  call <- [c \in Clients |-> IF cpc[c] = "call" THEN AbstractCall(req[c]) ELSE None],
  done <- {c \in Clients : cpc[c] = "call" /\ Effective(c)},
  got <- [c \in Clients |-> IF rep[c] # None THEN rep[c].res ELSE None]

\* The group front end is linearizable as long as no write of the database fails,
\* if DELETE is taken to store the value of length 0: a call takes effect once,
\* when PutBatch or Get runs.  What a GET answers for a deleted key is the matter
\* of DeletedNotFound.
IsKVStore == Store!Init /\ [][failed' \/ Store!Next]_(Store!vars)

\* the newest record of k is a DELETE of c that was answered, and nobody is
\* writing k
Deleted(c, k) ==
  \E r \in acked :
    /\ r.op = "DELETE" /\ r.key = k /\ r.by = c
    /\ \A s \in acked : s.key = k => s.by = c /\ s.seq <= r.seq
    /\ \A d \in Clients : (req[d] # None /\ req[d].op = "LOGGED") =>
         (req[d].rec.key = k => req[d].rec \in acked)

\* A client that deleted a key does not find it, with the database that tells
\* what it lacks: TestDelete says the key "should be deleted".  It does not hold.
DeletedNotFound ==
  \A c \in Clients, k \in Keys :
    (/\ dbtype = "LevelDB" /\ ~failed
     /\ cpc[c] = "call" /\ req[c] = [op |-> "GET", key |-> k] /\ rep[c] # None
     /\ Deleted(c, k)) => rep[c].status # "OK"

\* Every request is answered: no wakeup is lost and a new leader is always found.
CallReturns == \A c \in Clients : cpc[c] = "call" ~> cpc[c] = "idle"
============================================================================
