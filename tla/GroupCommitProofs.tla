-------------------------- MODULE GroupCommitProofs -------------------------
(***************************************************************************)
(* Proofs about GroupCommit, for any clients, keys, lengths and sizes: the *)
(* front end is a linearizable map as long as no write of the database     *)
(* fails; as long as the log area was not filled, what is answered is in   *)
(* the log and the log replays to the database, but for what the failing   *)
(* writes of the log lost.                                                 *)
(***************************************************************************)
EXTENDS GroupCommit, SequenceTheorems, NatLemmas

Active == {"lead", "put", "log", "finish"}
Leading == {"put", "log", "finish"}

TypeOK ==
  /\ cpc \in [Clients -> {"idle", "call", "closing", "closed"}]
  /\ nops \in [Clients -> Nat]
  /\ req \in [Clients -> Requests \cup {None}]
  /\ sent \in [Clients -> BOOLEAN]
  /\ rep \in [Clients -> Replies \cup {None}]
  /\ gpc \in [Clients -> {"spin", "recv", "exit", "wait"} \cup Active]
  /\ writers_queue \in Seq(Clients)
  /\ done \in [Clients -> BOOLEAN]
  /\ batch \in Seq(Recs)
  /\ ki \in Nat
  /\ dbtype \in {"LevelDB", "CuckooDB"}
  /\ db \in [Keys -> Vals \cup {None}]
  /\ failed \in BOOLEAN
  /\ acked \subseteq Recs

\* A client that called has one request: on its way, with a clerk that has
\* queued it, or answered.
Calling ==
  \A c \in Clients :
    /\ cpc[c] = "call" => /\ req[c] \in Requests /\ req[c].op \in {"GET", "LOGGED"}
                          /\ req[c].op = "LOGGED" => req[c].rec.by = c
    /\ cpc[c] = "closing" => req[c] \in Requests /\ req[c].op = "CLOSE"
    /\ rep[c] # None => cpc[c] = "call" /\ ~sent[c] /\ gpc[c] = "spin"
    /\ sent[c] => cpc[c] \in {"call", "closing"} /\ gpc[c] = "spin"
    /\ gpc[c] \in Active \cup {"wait"} => cpc[c] = "call" /\ req[c].op = "LOGGED"
    /\ gpc[c] \in {"recv", "exit"} => cpc[c] \in {"closing", "closed"}

InQueue(c) == gpc[c] \in Active \/ (gpc[c] = "wait" /\ ~done[c])

\* The queue holds every clerk with a request that is not served, once, and
\* only the one at its front is past waiting.
Queued ==
  /\ \A i, j \in 1 .. Len(writers_queue) : writers_queue[i] = writers_queue[j] => i = j
  /\ \A i \in 1 .. Len(writers_queue) : InQueue(writers_queue[i])
  /\ \A c \in Clients : InQueue(c) => \E i \in 1 .. Len(writers_queue) : writers_queue[i] = c
  /\ \A c \in Clients : gpc[c] \in Active => Len(writers_queue) > 0 /\ writers_queue[1] = c

\* A leader's batch holds the requests of the first clerks of the queue.
Batched ==
  \A c \in Clients : gpc[c] \in Leading =>
    /\ Len(batch) \in 1 .. Len(writers_queue)
    /\ \A j \in 1 .. Len(batch) : batch[j] = req[writers_queue[j]].rec
    /\ last = writers_queue[Len(batch)]
    /\ ki \in 1 .. Len(batch) + 1
    /\ dbtype = "LevelDB" => ki = 1

IInv == TypeOK /\ Calling /\ Queued /\ Batched

LEMMA InitInv == Init => IInv
<1> SUFFICES ASSUME Init PROVE IInv
  OBVIOUS
<1>1. TypeOK
  <2>1. writers_queue \in Seq(Clients) /\ batch \in Seq(Recs)
    BY DEF Init
  <2>2. dbtype \in {"LevelDB", "CuckooDB"} /\ failed \in BOOLEAN
    BY DEF Init
  <2>3. gpc \in [Clients -> {"spin", "recv", "exit", "wait"} \cup Active]
    BY DEF Init
  <2>4. done \in [Clients -> BOOLEAN] /\ sent \in [Clients -> BOOLEAN]
    BY DEF Init
  <2>. QED BY <2>1, <2>2, <2>3, <2>4 DEF Init, TypeOK
<1>2. Calling
  BY ConstantsOK DEF Init, Calling, Active
<1>3. Queued /\ Batched
  BY DEF Init, Queued, Batched, Active, Leading, InQueue
<1>. QED BY <1>1, <1>2, <1>3 DEF IInv

-----------------------------------------------------------------------------
(* The operators of the model. *)

\* The request of a clerk in the queue.
LEMMA RequestIs ==
  ASSUME TypeOK, Calling, NEW c \in Clients, gpc[c] \in Active \cup {"wait"}
  PROVE  Request(c) \in Recs /\ Request(c).by = c /\ Request(c).key \in Keys
         /\ Request(c).len \in Nat \ {0}
<1>1. req[c] \in Requests /\ req[c].op = "LOGGED" /\ req[c].rec.by = c
  BY DEF Calling
<1>2. req[c].rec \in Recs
  BY <1>1 DEF Requests
<1>. QED BY <1>1, <1>2, ConstantsOK DEF Recs, Request

\* Length sums the requests of the queue.
LEMMA LengthIs == IsSum(Length, [n \in Nat |-> Request(writers_queue[n]).len])
<1> DEFINE d == [n \in Nat |-> Request(writers_queue[n]).len]
<1>1. PICK s : IsSum(s, d)
  BY SumExists
<1>2. s = [n \in Nat |-> IF n = 0 THEN 0 ELSE s[n - 1] + Request(writers_queue[n]).len]
  <2>1. \A n \in Nat : d[n] = Request(writers_queue[n]).len
    OBVIOUS
  <2>2. s = [n \in Nat |-> IF n = 0 THEN 0 ELSE s[n - 1] + d[n]]
    BY <1>1, Zenon DEF IsSum
  <2>. QED BY <2>1, <2>2
<1>3. Length = [n \in Nat |-> IF n = 0 THEN 0 ELSE Length[n - 1] + Request(writers_queue[n]).len]
  BY <1>2, Zenon DEF Length
<1>4. \A n \in Nat : Length[n] = IF n = 0 THEN 0 ELSE Length[n - 1] + d[n]
  BY <1>3
<1>5. Length = [n \in Nat |-> Length[n]]
  BY <1>3
<1>. QED BY <1>4, <1>5, Zenon DEF IsSum

\* BatchLength sums those of the batch.
LEMMA BatchLengthIs == IsSum(BatchLength, [n \in Nat |-> batch[n].len])
<1> DEFINE d == [n \in Nat |-> batch[n].len]
<1>1. PICK s : IsSum(s, d)
  BY SumExists
<1>2. s = [n \in Nat |-> IF n = 0 THEN 0 ELSE s[n - 1] + batch[n].len]
  <2>1. \A n \in Nat : d[n] = batch[n].len
    OBVIOUS
  <2>2. s = [n \in Nat |-> IF n = 0 THEN 0 ELSE s[n - 1] + d[n]]
    BY <1>1, Zenon DEF IsSum
  <2>. QED BY <2>1, <2>2
<1>3. BatchLength = [n \in Nat |-> IF n = 0 THEN 0 ELSE BatchLength[n - 1] + batch[n].len]
  BY <1>2, Zenon DEF BatchLength
<1>4. \A n \in Nat : BatchLength[n] = IF n = 0 THEN 0 ELSE BatchLength[n - 1] + d[n]
  BY <1>3
<1>5. BatchLength = [n \in Nat |-> BatchLength[n]]
  BY <1>3
<1>. QED BY <1>4, <1>5, Zenon DEF IsSum

\* BuildBatchGroup takes at least one writer and no more than there are.
LEMMA TakenIs ==
  ASSUME TypeOK, Calling, Queued, Len(writers_queue) > 0
  PROVE  Taken \in 1 .. Len(writers_queue)
<1> DEFINE N == Len(writers_queue)
           d == [n \in Nat |-> Request(writers_queue[n]).len]
           T == {n \in 1 .. N : n = N \/ Length[n] >= MAX_ASYNC_SIZE}
<1>1. N \in Nat /\ \A n \in 1 .. N : writers_queue[n] \in Clients
  BY DEF TypeOK
<1>2. \A n \in 1 .. N : d[n] \in Nat \ {0}
  BY <1>1, RequestIs DEF Queued, InQueue
<1>3. \A n \in 0 .. N : Length[n] \in Nat
  <2> HIDE DEF d, N
  <2>. QED BY <1>1, <1>2, LengthIs, SumGrows DEF d
<1>4. T \in SUBSET Nat /\ T # {}
  BY <1>1
<1>5. PICK n \in T : \A m \in T : n <= m
  BY <1>4, LeastElement
<1>6. /\ n \in 1 .. N
      /\ \A m \in 1 .. n - 1 : Length[m] < MAX_ASYNC_SIZE
      /\ n = N \/ Length[n] >= MAX_ASYNC_SIZE
  BY <1>1, <1>3, <1>5, ConstantsOK
<1>. QED BY <1>6, Zenon DEF Taken

\* The last request of the batch for a key.
LEMMA LastWithIs ==
  ASSUME TypeOK, NEW k, \E j \in DOMAIN batch : batch[j].key = k
  PROVE  /\ LastWith(k) \in DOMAIN batch /\ batch[LastWith(k)].key = k
         /\ \A m \in DOMAIN batch : batch[m].key = k => m <= LastWith(k)
<1> DEFINE T == {j \in DOMAIN batch : batch[j].key = k}
<1>1. DOMAIN batch = 1 .. Len(batch) /\ Len(batch) \in Nat
  BY DEF TypeOK
<1>2. T \in SUBSET Nat /\ T # {} /\ \A j \in T : j <= Len(batch)
  BY <1>1
<1>3. \E j \in T : \A m \in T : m <= j
  BY <1>1, <1>2, GreatestElement
<1>4. \E j \in DOMAIN batch : /\ batch[j].key = k
                              /\ \A m \in DOMAIN batch : batch[m].key = k => m <= j
  BY <1>3
<1>. QED BY <1>4, Zenon DEF LastWith

\* Finish pops exactly the writers of the batch.
LEMMA PoppedIs ==
  ASSUME TypeOK, Queued, Batched, NEW c \in Clients, gpc[c] \in Leading
  PROVE  Popped = Len(batch)
<1>1. /\ DOMAIN writers_queue = 1 .. Len(writers_queue)
      /\ Len(batch) \in 1 .. Len(writers_queue) /\ last = writers_queue[Len(batch)]
  BY DEF TypeOK, Batched
<1>2. \A n \in DOMAIN writers_queue : writers_queue[n] = last => n = Len(batch)
  BY <1>1 DEF Queued
<1>3. \E n \in DOMAIN writers_queue : writers_queue[n] = last
  BY <1>1
<1>. QED BY <1>2, <1>3 DEF Popped

-----------------------------------------------------------------------------
(* Steps preserve the invariant. *)

\* The clerks of the queue are no others.
LEMMA QueueClients ==
  ASSUME IInv
  PROVE  /\ Len(writers_queue) \in Nat
         /\ \A i \in 1 .. Len(writers_queue) :
              /\ writers_queue[i] \in Clients /\ InQueue(writers_queue[i])
              /\ gpc[writers_queue[i]] \in Active \cup {"wait"}
<1>1. \A i \in 1 .. Len(writers_queue) : writers_queue[i] \in Clients
  BY DEF IInv, TypeOK
<1>2. \A i \in 1 .. Len(writers_queue) : InQueue(writers_queue[i])
  BY DEF IInv, Queued
<1>. QED BY <1>1, <1>2 DEF InQueue, IInv, TypeOK

\* A leader's batch persists while the queue only grows.
LEMMA BatchedKept ==
  ASSUME IInv, UNCHANGED <<batch, last, ki, dbtype>>,
         Len(writers_queue) <= Len(writers_queue)', Len(writers_queue)' \in Nat,
         \A i \in 1 .. Len(writers_queue) :
           writers_queue'[i] = writers_queue[i] /\ req'[writers_queue[i]] = req[writers_queue[i]],
         \A c \in Clients : gpc'[c] \in Leading => gpc[c] \in Leading
  PROVE  Batched'
<1> SUFFICES ASSUME NEW c \in Clients, gpc'[c] \in Leading
             PROVE  /\ Len(batch) \in 1 .. Len(writers_queue)'
                    /\ \A j \in 1 .. Len(batch) : batch[j] = req'[writers_queue'[j]].rec
                    /\ last = writers_queue'[Len(batch)]
                    /\ ki \in 1 .. Len(batch) + 1
                    /\ dbtype = "LevelDB" => ki = 1
  BY DEF Batched
<1>1. /\ Len(batch) \in 1 .. Len(writers_queue)
      /\ \A j \in 1 .. Len(batch) : batch[j] = req[writers_queue[j]].rec
      /\ last = writers_queue[Len(batch)]
      /\ ki \in 1 .. Len(batch) + 1
      /\ dbtype = "LevelDB" => ki = 1
  BY DEF IInv, Batched
<1>2. Len(batch) \in 1 .. Len(writers_queue)' /\ Len(writers_queue) \in Nat
  BY <1>1, QueueClients
<1>3. last = writers_queue'[Len(batch)]
  BY <1>1
<1>4. ASSUME NEW j \in 1 .. Len(batch)
      PROVE  batch[j] = req'[writers_queue'[j]].rec
  <2>1. j \in 1 .. Len(writers_queue)
    BY <1>1, <1>2
  <2>. QED BY <1>1, <2>1
<1>. QED BY <1>1, <1>2, <1>3, <1>4

\* What a client's call does to the mail.
LEMMA SendStep ==
  ASSUME IInv, NEW c \in Clients, NEW r \in Requests, NEW pc \in {"call", "closing"}, Send(c, r, pc),
         nops' \in [Clients -> Nat],
         IF pc = "closing" THEN r.op = "CLOSE"
         ELSE r.op \in {"GET", "LOGGED"} /\ (r.op = "LOGGED" => r.rec.by = c)
  PROVE  IInv'
<1>1. UNCHANGED <<rep, gpc, writers_queue, done, woken, batch, last, ki, dbtype, db, log, lost, offset_, failed, acked>>
  BY DEF Send, groupVars, storeVars
<1>2. cpc[c] = "idle" /\ gpc[c] = "spin" /\ rep[c] = None
  BY DEF Send, IInv, TypeOK, Calling
<1>3. TypeOK'
  BY <1>1 DEF Send, IInv, TypeOK
<1>4. /\ cpc'[c] = pc /\ req'[c] = r /\ sent'[c]
      /\ \A d \in Clients : d # c => cpc'[d] = cpc[d] /\ req'[d] = req[d] /\ sent'[d] = sent[d]
  BY DEF Send, IInv, TypeOK
<1>5. Calling'
  BY <1>1, <1>2, <1>4 DEF IInv, Calling, Active
<1>6. Queued'
  BY <1>1 DEF IInv, Queued, InQueue
<1>7. Batched'
  <2>1. \A i \in 1 .. Len(writers_queue) : writers_queue[i] \in Clients /\ writers_queue[i] # c
    BY <1>2, QueueClients DEF Active
  <2>2. \A i \in 1 .. Len(writers_queue) : req'[writers_queue[i]] = req[writers_queue[i]]
    BY <1>4, <2>1
  <2>. QED BY <1>1, <2>2, QueueClients, BatchedKept
<1>. QED BY <1>3, <1>5, <1>6, <1>7 DEF IInv

LEMMA ClientStep ==
  ASSUME IInv, NEW c \in Clients, ClientNext(c)
  PROVE  IInv'
<1>1. ASSUME NEW op \in {"PUT", "DELETE"}, NEW k \in Keys, NEW n \in Lens, SendLogged(c, op, k, n)
      PROVE  IInv'
  <2> DEFINE r == [op |-> op, key |-> k, by |-> c, seq |-> nops[c] + 1, len |-> n]
  <2>1. r \in Recs /\ r.by = c
    BY DEF Recs, IInv, TypeOK
  <2>2. Send(c, [op |-> "LOGGED", rec |-> r], "call") /\ nops' \in [Clients -> Nat]
    BY <1>1 DEF SendLogged, Issue, IInv, TypeOK
  <2> HIDE DEF r
  <2>3. [op |-> "LOGGED", rec |-> r] \in Requests
    BY <2>1 DEF Requests
  <2>. QED BY <2>1, <2>2, <2>3, SendStep
<1>2. ASSUME NEW k \in Keys, SendGet(c, k)
      PROVE  IInv'
  <2>1. [op |-> "GET", key |-> k] \in Requests
    BY DEF Requests
  <2>2. nops' \in [Clients -> Nat]
    BY <1>2 DEF SendGet, Issue, IInv, TypeOK
  <2>. QED BY <1>2, <2>1, <2>2, SendStep DEF SendGet
<1>3. CASE SendClose(c)
  <2>1. [op |-> "CLOSE"] \in Requests
    BY DEF Requests
  <2>2. nops' \in [Clients -> Nat]
    BY <1>3 DEF SendClose, IInv, TypeOK
  <2>. QED BY <1>3, <2>1, <2>2, SendStep DEF SendClose
<1>4. CASE Return(c)
  <2>1. UNCHANGED <<nops, req, sent, gpc, writers_queue, done, woken, batch, last, ki, dbtype, db, log, lost,
                    offset_, failed, acked>>
    BY <1>4 DEF Return, groupVars, storeVars
  <2>2. TypeOK'
    BY <1>4, <2>1 DEF Return, IInv, TypeOK
  <2>3. Calling'
    BY <1>4, <2>1 DEF Return, IInv, TypeOK, Calling, Active
  <2>4. Queued' /\ Batched'
    BY <2>1 DEF IInv, Queued, InQueue, Batched
  <2>. QED BY <2>2, <2>3, <2>4 DEF IInv
<1>. QED BY <1>1, <1>2, <1>3, <1>4 DEF ClientNext, SendWrite, SendDelete

LEMMA GetStep ==
  ASSUME IInv, NEW c \in Clients, ClerkGet(c)
  PROVE  IInv'
<1>1. UNCHANGED <<cpc, nops, req, gpc, writers_queue, done, woken, batch, last, ki, dbtype, db, log, lost, offset_,
                  failed, acked>>
  BY DEF ClerkGet, clientVars, groupVars, storeVars
<1>2. /\ gpc[c] = "spin" /\ sent[c] /\ req[c].op = "GET"
      /\ sent' = [sent EXCEPT ![c] = FALSE]
      /\ cpc[c] = "call" /\ req[c] \in Requests
  BY DEF ClerkGet, Receive, IInv, Calling
<1>3. req[c].key \in Keys
  BY <1>2 DEF Requests
<1>4. PICK s \in {"OK", "NOTFOUND"} : rep' = [rep EXCEPT ![c] = [status |-> s, res |-> db[req[c].key]]]
  BY DEF ClerkGet, Reply
<1>5. [status |-> s, res |-> db[req[c].key]] \in Replies
  BY <1>3, <1>4 DEF IInv, TypeOK, Replies
<1>6. TypeOK'
  BY <1>1, <1>2, <1>4, <1>5 DEF IInv, TypeOK
<1>7. Calling'
  BY <1>1, <1>2, <1>4 DEF IInv, TypeOK, Calling, Active
<1>8. Queued' /\ Batched'
  BY <1>1 DEF IInv, Queued, InQueue, Batched
<1>. QED BY <1>6, <1>7, <1>8 DEF IInv

LEMMA CloseStep ==
  ASSUME IInv, NEW c \in Clients, ClerkClose(c) \/ CloseHandshake(c)
  PROVE  IInv'
<1>1. UNCHANGED <<nops, req, rep, writers_queue, done, woken, batch, last, ki, dbtype, db, log, lost, offset_,
                  failed, acked>>
  BY DEF ClerkClose, CloseHandshake, clientVars, mailVars, storeVars
<1>2. /\ gpc[c] \in {"spin", "recv"} /\ gpc'[c] \in {"recv", "exit"} /\ ~sent'[c]
      /\ cpc[c] = "closing" /\ cpc'[c] \in {"closing", "closed"}
      /\ rep[c] = None
      /\ \A d \in Clients : d # c => cpc'[d] = cpc[d] /\ gpc'[d] = gpc[d] /\ sent'[d] = sent[d]
      /\ gpc' \in [Clients -> {"spin", "recv", "exit", "wait"} \cup Active]
      /\ cpc' \in [Clients -> {"idle", "call", "closing", "closed"}]
      /\ sent' \in [Clients -> BOOLEAN]
  <2>1. CASE ClerkClose(c)
    <3>1. /\ gpc[c] = "spin" /\ sent[c] /\ req[c].op = "CLOSE" /\ UNCHANGED cpc
          /\ sent' = [sent EXCEPT ![c] = FALSE] /\ gpc' = [gpc EXCEPT ![c] = "recv"]
      BY <2>1 DEF ClerkClose, Receive, clientVars
    <3>2. cpc[c] = "closing" /\ rep[c] = None
      BY <3>1 DEF IInv, Calling
    <3>. QED BY <3>1, <3>2 DEF IInv, TypeOK
  <2>2. CASE CloseHandshake(c)
    BY <2>2 DEF CloseHandshake, mailVars, IInv, TypeOK, Calling
  <2>. QED BY <2>1, <2>2
<1>3. TypeOK'
  BY <1>1, <1>2 DEF IInv, TypeOK
<1>4. Calling'
  BY <1>1, <1>2 DEF IInv, Calling, Active
<1>5. \A d \in Clients : /\ gpc'[d] \in Active <=> gpc[d] \in Active
                         /\ gpc'[d] \in Leading <=> gpc[d] \in Leading
                         /\ gpc'[d] = "wait" <=> gpc[d] = "wait"
  BY <1>2 DEF Active, Leading
<1>6. \A i \in 1 .. Len(writers_queue) : writers_queue[i] \in Clients
  BY DEF IInv, TypeOK
<1>7. Queued' /\ Batched'
  BY <1>1, <1>5, <1>6 DEF IInv, Queued, InQueue, Batched
<1>. QED BY <1>3, <1>4, <1>7 DEF IInv

\* Steps that leave the queue alone and make nobody but its front active.
LEMMA SameQueue ==
  ASSUME IInv, TypeOK', Calling', UNCHANGED <<req, writers_queue, batch, last, ki, dbtype>>,
         \A d \in Clients : /\ InQueue(d)' <=> InQueue(d)
                            /\ gpc'[d] \in Active => \/ gpc[d] \in Active
                                                     \/ Len(writers_queue) > 0 /\ writers_queue[1] = d
                            /\ gpc'[d] \in Leading => gpc[d] \in Leading
  PROVE  IInv'
<1>1. Queued'
  <2>1. \A i \in 1 .. Len(writers_queue) : InQueue(writers_queue[i])'
    <3> SUFFICES ASSUME NEW i \in 1 .. Len(writers_queue) PROVE InQueue(writers_queue[i])'
      OBVIOUS
    <3>1. writers_queue[i] \in Clients /\ InQueue(writers_queue[i])
      BY QueueClients
    <3>2. InQueue(writers_queue[i])' <=> gpc'[writers_queue[i]] \in Active
                                         \/ (gpc'[writers_queue[i]] = "wait" /\ ~done'[writers_queue[i]])
      BY DEF InQueue
    <3>3. \A d \in Clients : InQueue(d) => gpc'[d] \in Active \/ (gpc'[d] = "wait" /\ ~done'[d])
      BY DEF InQueue
    <3>. QED BY <3>1, <3>2, <3>3
  <2>2. \A d \in Clients : gpc'[d] \in Active => Len(writers_queue) > 0 /\ writers_queue[1] = d
    BY DEF IInv, Queued
  <2>. QED BY <2>1, <2>2 DEF IInv, Queued
<1>2. Batched'
  BY QueueClients, BatchedKept
<1>. QED BY <1>1, <1>2 DEF IInv

LEMMA EnqueueStep ==
  ASSUME IInv, NEW c \in Clients, Enqueue(c)
  PROVE  IInv'
<1> DEFINE N == Len(writers_queue)
<1>1. UNCHANGED <<cpc, nops, req, rep, batch, last, ki, dbtype, db, failed, acked>>
  BY DEF Enqueue, clientVars, storeVars
<1>2. /\ gpc[c] = "spin" /\ sent[c] /\ req[c].op = "LOGGED"
      /\ sent' = [sent EXCEPT ![c] = FALSE]
      /\ done' = [done EXCEPT ![c] = FALSE]
      /\ cpc[c] = "call" /\ rep[c] = None
  BY DEF Enqueue, Receive, IInv, Calling
<1>3. /\ writers_queue' = Append(writers_queue, c)
      /\ gpc' = [gpc EXCEPT ![c] = IF Head(writers_queue') = c THEN "lead" ELSE "wait"]
  BY DEF Enqueue, Front
<1>4. /\ N \in Nat /\ Len(writers_queue)' = N + 1 /\ writers_queue' \in Seq(Clients)
      /\ writers_queue'[N + 1] = c
      /\ \A i \in 1 .. N : writers_queue'[i] = writers_queue[i]
      /\ Head(writers_queue') = writers_queue'[1]
  BY <1>3 DEF IInv, TypeOK
<1>5. \A i \in 1 .. N : writers_queue[i] \in Clients /\ writers_queue[i] # c
  BY <1>2, QueueClients DEF Active
<1>6. gpc'[c] = IF N = 0 THEN "lead" ELSE "wait"
  <2>1. CASE N = 0
    BY <1>3, <1>4, <2>1 DEF IInv, TypeOK
  <2>2. CASE N # 0
    <3>1. writers_queue'[1] # c
      BY <1>4, <1>5, <2>2
    <3>. QED BY <1>3, <1>4, <2>2, <3>1 DEF IInv, TypeOK
  <2>. QED BY <2>1, <2>2
<1>7. /\ ~done'[c] /\ ~sent'[c]
      /\ \A d \in Clients : d # c => gpc'[d] = gpc[d] /\ done'[d] = done[d] /\ sent'[d] = sent[d]
  BY <1>2, <1>3 DEF IInv, TypeOK
<1>8. TypeOK'
  <2>1. gpc' \in [Clients -> {"spin", "recv", "exit", "wait"} \cup Active]
    BY <1>3 DEF IInv, TypeOK, Active
  <2>. QED BY <1>1, <1>2, <1>4, <2>1 DEF IInv, TypeOK
<1>9. Calling'
  BY <1>1, <1>2, <1>6, <1>7 DEF IInv, Calling, Active
<1>10. InQueue(c)' /\ \A d \in Clients : d # c => (InQueue(d)' <=> InQueue(d))
  BY <1>6, <1>7 DEF InQueue, Active
<1>11. Queued'
  <2>1. ASSUME NEW i \in 1 .. N + 1, NEW j \in 1 .. N + 1, writers_queue'[i] = writers_queue'[j]
        PROVE  i = j
    <3>1. (i \in 1 .. N \/ i = N + 1) /\ (j \in 1 .. N \/ j = N + 1)
      BY <1>4
    <3>. QED BY <2>1, <3>1, <1>4, <1>5 DEF IInv, Queued
  <2>2. ASSUME NEW i \in 1 .. N + 1
        PROVE  InQueue(writers_queue[i])'
    <3>1. i \in 1 .. N \/ i = N + 1
      BY <1>4
    <3>2. CASE i \in 1 .. N
      <4>1. InQueue(writers_queue[i])
        BY <3>2, QueueClients
      <4>. QED BY <3>2, <4>1, <1>4, <1>5, <1>7 DEF InQueue, Active
    <3>3. CASE i = N + 1
      BY <3>3, <1>4, <1>10 DEF InQueue
    <3>. QED BY <3>1, <3>2, <3>3
  <2>3. ASSUME NEW d \in Clients, InQueue(d)'
        PROVE  \E i \in 1 .. N + 1 : writers_queue'[i] = d
    <3>1. CASE d = c
      BY <3>1, <1>4
    <3>2. CASE d # c
      <4>1. PICK i \in 1 .. N : writers_queue[i] = d
        BY <2>3, <3>2, <1>10 DEF IInv, Queued
      <4>. QED BY <4>1, <1>4
    <3>. QED BY <3>1, <3>2
  <2>4. ASSUME NEW d \in Clients, gpc'[d] \in Active
        PROVE  N + 1 > 0 /\ writers_queue'[1] = d
    <3>1. CASE d = c
      BY <2>4, <3>1, <1>4, <1>6 DEF Active
    <3>2. CASE d # c
      <4>1. N > 0 /\ writers_queue[1] = d
        BY <2>4, <3>2, <1>7 DEF IInv, Queued
      <4>. QED BY <4>1, <1>4
    <3>. QED BY <3>1, <3>2
  <2>. QED BY <1>4, <2>1, <2>2, <2>3, <2>4 DEF Queued
<1>12. Batched'
  <2>1. \A d \in Clients : gpc'[d] \in Leading => gpc[d] \in Leading
    BY <1>6, <1>7 DEF Leading
  <2>. QED BY <1>1, <1>4, <2>1, BatchedKept
<1>. QED BY <1>8, <1>9, <1>11, <1>12 DEF IInv

LEMMA LeaveWaitStep ==
  ASSUME IInv, NEW c \in Clients, LeaveWait(c)
  PROVE  IInv'
<1>1. UNCHANGED <<cpc, nops, req, sent, writers_queue, done, batch, last, ki, dbtype, db, failed>>
  BY DEF LeaveWait, clientVars, storeVars
<1>2. /\ gpc[c] = "wait" /\ cpc[c] = "call" /\ req[c].op = "LOGGED" /\ req[c] \in Requests
      /\ ~sent[c] /\ rep[c] = None
  BY DEF LeaveWait, IInv, Calling
<1>3. CASE done[c]
  <2>1. /\ gpc' = [gpc EXCEPT ![c] = "spin"]
        /\ rep' = [rep EXCEPT ![c] = [status |-> "OK", res |-> None]]
        /\ acked' = acked \cup {Request(c)}
    BY <1>3 DEF LeaveWait, Reply, Answered, Request
  <2>2. Request(c) \in Recs
    BY <1>2, RequestIs DEF IInv
  <2>3. TypeOK'
    BY <1>1, <2>1, <2>2 DEF IInv, TypeOK, Replies
  <2>4. Calling'
    BY <1>1, <1>2, <2>1 DEF IInv, TypeOK, Calling, Active
  <2>5. \A d \in Clients : /\ InQueue(d)' <=> InQueue(d)
                           /\ gpc'[d] \in Active <=> gpc[d] \in Active
                           /\ gpc'[d] \in Leading <=> gpc[d] \in Leading
    BY <1>1, <1>2, <1>3, <2>1 DEF IInv, TypeOK, InQueue, Active, Leading
  <2>. QED BY <1>1, <2>3, <2>4, <2>5, SameQueue
<1>4. CASE ~done[c]
  <2>1. /\ gpc' = [gpc EXCEPT ![c] = IF Head(writers_queue) = c THEN "lead" ELSE "wait"]
        /\ UNCHANGED <<rep, acked>>
    BY <1>4 DEF LeaveWait, Front
  <2>2. TypeOK'
    BY <1>1, <2>1 DEF IInv, TypeOK, Active
  <2>3. Calling'
    BY <1>1, <1>2, <2>1 DEF IInv, TypeOK, Calling, Active
  <2>4. InQueue(c) /\ Len(writers_queue) > 0
    BY <1>2, <1>4 DEF InQueue, IInv, Queued, TypeOK
  <2>5. Head(writers_queue) = writers_queue[1]
    BY <2>4 DEF IInv, TypeOK
  <2>6. \A d \in Clients : /\ InQueue(d)' <=> InQueue(d)
                           /\ gpc'[d] \in Active => gpc[d] \in Active \/ writers_queue[1] = d
                           /\ gpc'[d] \in Leading => gpc[d] \in Leading
    BY <1>1, <1>2, <1>4, <2>1, <2>5 DEF IInv, TypeOK, InQueue, Active, Leading
  <2>. QED BY <1>1, <2>2, <2>3, <2>4, <2>6, SameQueue
<1>. QED BY <1>3, <1>4

\* The batch a leader builds.
LEMMA BuiltIs ==
  ASSUME IInv, NEW c \in Clients, BuildBatchGroup(c)
  PROVE  /\ gpc[c] = "lead" /\ gpc' = [gpc EXCEPT ![c] = "put"] /\ ki' = 1
         /\ Taken \in 1 .. Len(writers_queue)
         /\ batch' \in Seq(Recs) /\ Len(batch)' = Taken /\ last' = writers_queue[Taken]
         /\ \A j \in 1 .. Taken : batch'[j] = req[writers_queue[j]].rec
<1>1. /\ gpc[c] = "lead" /\ gpc' = [gpc EXCEPT ![c] = "put"] /\ ki' = 1 /\ last' = writers_queue[Taken]
      /\ batch' = [j \in 1 .. Taken |-> Request(writers_queue[j])]
  BY DEF BuildBatchGroup
<1>2. Taken \in 1 .. Len(writers_queue)
  BY <1>1, TakenIs DEF IInv, Queued, Active
<1>3. \A j \in 1 .. Taken : Request(writers_queue[j]) \in Recs
  <2> SUFFICES ASSUME NEW j \in 1 .. Taken PROVE Request(writers_queue[j]) \in Recs
    OBVIOUS
  <2>1. j \in 1 .. Len(writers_queue)
    BY <1>2, QueueClients
  <2>. QED BY <2>1, QueueClients, RequestIs DEF IInv
<1>4. Taken \in Nat
  BY <1>2, QueueClients
<1> HIDE DEF Taken
<1>5. batch' \in Seq(Recs) /\ Len(batch)' = Taken
  BY <1>1, <1>3, <1>4
<1>. QED BY <1>1, <1>2, <1>5 DEF Request

LEMMA BuildStep ==
  ASSUME IInv, NEW c \in Clients, BuildBatchGroup(c)
  PROVE  IInv'
<1>1. UNCHANGED <<cpc, nops, req, sent, rep, writers_queue, done, dbtype, db, failed, acked>>
  BY DEF BuildBatchGroup, clientVars, mailVars, storeVars
<1>2. /\ gpc[c] = "lead" /\ gpc' = [gpc EXCEPT ![c] = "put"] /\ ki' = 1
      /\ Taken \in 1 .. Len(writers_queue)
      /\ batch' \in Seq(Recs) /\ Len(batch)' = Taken /\ last' = writers_queue[Taken]
      /\ \A j \in 1 .. Taken : batch'[j] = req[writers_queue[j]].rec
  BY BuiltIs
<1>3. TypeOK'
  BY <1>1, <1>2 DEF IInv, TypeOK, Active
<1>4. Calling'
  BY <1>1, <1>2 DEF IInv, TypeOK, Calling, Active
<1>5. \A d \in Clients : /\ gpc'[d] \in Active <=> gpc[d] \in Active
                         /\ gpc'[d] = "wait" <=> gpc[d] = "wait"
  BY <1>2 DEF IInv, TypeOK, Active
<1>6. Queued'
  BY <1>1, <1>5, QueueClients DEF IInv, Queued, InQueue
<1>7. Batched'
  <2> HIDE DEF Taken
  <2>1. 1 \in 1 .. Taken + 1
    BY <1>2, QueueClients
  <2>. QED BY <1>1, <1>2, <2>1 DEF Batched
<1>. QED BY <1>3, <1>4, <1>6, <1>7 DEF IInv

\* There is one leader at most.
LEMMA OneLeader ==
  ASSUME IInv, NEW c \in Clients, NEW d \in Clients, gpc[c] \in Active, gpc[d] \in Active
  PROVE  c = d
BY DEF IInv, Queued

LEMMA ValueIs ==
  ASSUME NEW r \in Recs
  PROVE  Value(r) \in Vals /\ Value(r) # None
BY ConstantsOK DEF Value, Vals

\* The requests of a leader's batch.
LEMMA BatchIs ==
  ASSUME IInv, NEW c \in Clients, gpc[c] \in Leading, NEW j \in 1 .. Len(batch)
  PROVE  /\ j \in 1 .. Len(writers_queue) /\ writers_queue[j] \in Clients
         /\ batch[j] = Request(writers_queue[j])
         /\ batch[j] \in Recs /\ batch[j].by = writers_queue[j] /\ batch[j].key \in Keys
         /\ batch[j].len \in Nat \ {0}
<1>1. j \in 1 .. Len(writers_queue) /\ batch[j] = req[writers_queue[j]].rec
  BY QueueClients DEF IInv, Batched
<1>2. writers_queue[j] \in Clients /\ gpc[writers_queue[j]] \in Active \cup {"wait"}
  BY <1>1, QueueClients
<1>. QED BY <1>1, <1>2, RequestIs DEF IInv, Request

LEMMA PutStep ==
  ASSUME IInv, NEW c \in Clients, PutBatch(c)
  PROVE  IInv'
<1>1. UNCHANGED <<cpc, nops, req, sent, rep, writers_queue, done, batch, last, dbtype, acked>>
  BY DEF PutBatch, clientVars, mailVars
<1>2. /\ gpc[c] = "put" /\ gpc' \in {gpc, [gpc EXCEPT ![c] = "log"]}
      /\ ki' = ki \/ (dbtype = "CuckooDB" /\ ~Stored /\ ki' = ki + 1)
      /\ failed' \in BOOLEAN
  BY DEF PutBatch, IInv, TypeOK
<1>3. db' \in [Keys -> Vals \cup {None}]
  <2>1. \A j \in DOMAIN batch : Value(batch[j]) \in Vals
    BY <1>2, BatchIs, ValueIs DEF Leading, IInv, TypeOK
  <2>2. \A k \in Keys : (\E j \in DOMAIN batch : batch[j].key = k) => Value(batch[LastWith(k)]) \in Vals
    BY <2>1, LastWithIs DEF IInv
  <2>3. CASE dbtype = "LevelDB"
    <3> HIDE DEF LastWith, Value
    <3>1. \/ db' = [k \in Keys |-> IF \E j \in DOMAIN batch : batch[j].key = k
                                  THEN Value(batch[LastWith(k)]) ELSE db[k]]
          \/ db' = db
      BY <2>3, Zenon DEF PutBatch
    <3>2. \A k \in Keys : db[k] \in Vals \cup {None}
      BY DEF IInv, TypeOK
    <3>3. CASE db' = db
      BY <3>3 DEF IInv, TypeOK
    <3>. QED BY <2>2, <3>1, <3>2, <3>3
  <2>4. CASE dbtype = "CuckooDB" /\ ~Stored
    <3>1. ki \in DOMAIN batch
      BY <1>2, <2>4 DEF Stored, IInv, TypeOK, Batched, Leading
    <3>. QED BY <2>1, <2>4, <3>1 DEF PutBatch, IInv, TypeOK
  <2>5. CASE dbtype = "CuckooDB" /\ Stored
    BY <2>5 DEF PutBatch, IInv, TypeOK
  <2>. QED BY <2>3, <2>4, <2>5 DEF IInv, TypeOK
<1>4. ki' \in Nat /\ gpc' \in [Clients -> {"spin", "recv", "exit", "wait"} \cup Active]
  <2>1. gpc \in [Clients -> {"spin", "recv", "exit", "wait"} \cup Active] /\ ki \in Nat
    BY DEF IInv, TypeOK
  <2>2. "log" \in {"spin", "recv", "exit", "wait"} \cup Active
    BY DEF Active
  <2>3. [gpc EXCEPT ![c] = "log"] \in [Clients -> {"spin", "recv", "exit", "wait"} \cup Active]
    BY <2>1, <2>2
  <2>. QED BY <1>2, <2>1, <2>3
<1>5. TypeOK'
  BY <1>1, <1>2, <1>3, <1>4 DEF IInv, TypeOK
<1>6. \A d \in Clients : /\ gpc'[d] \in Active <=> gpc[d] \in Active
                         /\ gpc'[d] \in Leading <=> gpc[d] \in Leading
                         /\ \A x \in {"spin", "wait", "recv", "exit"} : gpc'[d] = x <=> gpc[d] = x
  BY <1>2 DEF IInv, TypeOK, Active, Leading
<1>7. Calling'
  BY <1>1, <1>6 DEF IInv, Calling
<1>8. Queued'
  BY <1>1, <1>6, QueueClients DEF IInv, Queued, InQueue
<1>9. Batched'
  <2>1. gpc[c] \in Leading
    BY <1>2 DEF Leading
  <2>2. ki' \in 1 .. Len(batch) + 1 /\ (dbtype = "LevelDB" => ki' = 1)
    BY <1>2, <2>1 DEF Stored, IInv, Batched, TypeOK
  <2>. QED BY <1>1, <1>6, <2>1, <2>2 DEF IInv, Batched
<1>. QED BY <1>5, <1>7, <1>8, <1>9 DEF IInv

LEMMA LogStep ==
  ASSUME IInv, NEW c \in Clients, LogBatch(c)
  PROVE  IInv'
<1>1. UNCHANGED <<cpc, nops, req, sent, rep, writers_queue, done, batch, last, ki, dbtype, db, failed, acked>>
  BY DEF LogBatch, clientVars, mailVars
<1>2. gpc[c] = "log" /\ gpc' = [gpc EXCEPT ![c] = "finish"]
  BY DEF LogBatch
<1>3. TypeOK'
  BY <1>1, <1>2 DEF IInv, TypeOK, Active
<1>4. \A d \in Clients : /\ gpc'[d] \in Active <=> gpc[d] \in Active
                         /\ gpc'[d] \in Leading <=> gpc[d] \in Leading
                         /\ \A x \in {"spin", "wait", "recv", "exit"} : gpc'[d] = x <=> gpc[d] = x
  BY <1>2 DEF IInv, TypeOK, Active, Leading
<1>5. Calling'
  BY <1>1, <1>4 DEF IInv, Calling
<1>6. \A d \in Clients : InQueue(d)' <=> InQueue(d)
  BY <1>1, <1>4 DEF InQueue
<1>. QED BY <1>1, <1>3, <1>4, <1>5, <1>6, SameQueue

\* What Finish does: the clerks of the batch leave the queue, all but the
\* leader marked done.
LEMMA FinishIs ==
  ASSUME IInv, NEW c \in Clients, Finish(c)
  PROVE  LET m == Len(batch)
             N == Len(writers_queue) IN
         /\ gpc[c] = "finish" /\ writers_queue[1] = c /\ m \in 1 .. N /\ N \in Nat
         /\ writers_queue' \in Seq(Clients) /\ Len(writers_queue)' = N - m
         /\ \A i \in 1 .. N - m : writers_queue'[i] = writers_queue[m + i]
         /\ \A d \in Clients : done'[d] <=> done[d] \/ \E j \in 2 .. m : d = writers_queue[j]
         /\ done' \in [Clients -> BOOLEAN]
         /\ gpc' = [gpc EXCEPT ![c] = "spin"]
         /\ rep' = [rep EXCEPT ![c] = [status |-> Request(c).op, res |-> None]]
         /\ acked' = acked \cup {Request(c)}
<1> DEFINE m == Len(batch)
           N == Len(writers_queue)
<1>1. gpc[c] = "finish" /\ gpc[c] \in Leading /\ gpc[c] \in Active
  BY DEF Finish, Leading, Active
<1>2. writers_queue[1] = c /\ m \in 1 .. N /\ N \in Nat
  BY <1>1, QueueClients DEF IInv, Queued, Batched
<1>3. Popped = m
  BY <1>1, PoppedIs DEF IInv
<1>4. /\ writers_queue' = SubSeq(writers_queue, m + 1, N)
      /\ done' = [d \in Clients |-> done[d] \/ d \in {writers_queue[j] : j \in 1 .. m} \ {c}]
      /\ gpc' = [gpc EXCEPT ![c] = "spin"]
      /\ rep' = [rep EXCEPT ![c] = [status |-> Request(c).op, res |-> None]]
      /\ acked' = acked \cup {Request(c)}
  BY <1>3 DEF Finish, Reply, Answered, Request
<1>5. /\ writers_queue' \in Seq(Clients) /\ Len(writers_queue)' = N - m
      /\ \A i \in 1 .. N - m : writers_queue'[i] = writers_queue[m + i]
  BY <1>2, <1>4 DEF IInv, TypeOK
<1>6. \A i, j \in 1 .. N : writers_queue[i] = writers_queue[j] => i = j
  BY DEF IInv, Queued
<1>7. ASSUME NEW d \in Clients
      PROVE  done'[d] <=> done[d] \/ \E j \in 2 .. m : d = writers_queue[j]
  <2>1. d \in {writers_queue[j] : j \in 1 .. m} \ {c} <=> \E j \in 2 .. m : d = writers_queue[j]
    <3>1. ASSUME NEW j \in 1 .. m, d = writers_queue[j], d # c
          PROVE  j \in 2 .. m
      BY <1>2, <3>1
    <3>2. ASSUME NEW j \in 2 .. m, d = writers_queue[j]
          PROVE  j \in 1 .. m /\ d # c
      BY <1>2, <1>6, <3>2
    <3>. QED BY <3>1, <3>2
  <2>. QED BY <1>4, <2>1, Zenon
<1>8. done' \in [Clients -> BOOLEAN]
  <2>1. \A d \in Clients : done[d] \in BOOLEAN
    BY DEF IInv, TypeOK
  <2>. QED BY <1>4, <2>1, Zenon
<1>. QED BY <1>1, <1>2, <1>4, <1>5, <1>7, <1>8

LEMMA FinishStep ==
  ASSUME IInv, NEW c \in Clients, Finish(c)
  PROVE  IInv'
<1> DEFINE m == Len(batch)
           N == Len(writers_queue)
           q == writers_queue
<1>1. UNCHANGED <<cpc, nops, req, sent, batch, last, ki, dbtype, db, failed>>
  BY DEF Finish, clientVars, storeVars
<1>2. /\ gpc[c] = "finish" /\ q[1] = c /\ m \in 1 .. N /\ N \in Nat
      /\ q' \in Seq(Clients) /\ Len(q)' = N - m
      /\ \A i \in 1 .. N - m : q'[i] = q[m + i]
      /\ \A d \in Clients : done'[d] <=> done[d] \/ \E j \in 2 .. m : d = q[j]
      /\ done' \in [Clients -> BOOLEAN]
      /\ gpc' = [gpc EXCEPT ![c] = "spin"]
      /\ rep' = [rep EXCEPT ![c] = [status |-> Request(c).op, res |-> None]]
      /\ acked' = acked \cup {Request(c)}
  BY FinishIs
<1>3. Request(c) \in Recs /\ Request(c).op \in {"PUT", "DELETE"}
  BY <1>2, RequestIs DEF IInv, Active, Recs
<1>4. TypeOK'
  <2>1. rep' \in [Clients -> Replies \cup {None}]
    <3>1. [status |-> Request(c).op, res |-> None] \in Replies
      BY <1>3 DEF Replies
    <3>. QED BY <1>2, <3>1 DEF IInv, TypeOK
  <2>2. gpc' \in [Clients -> {"spin", "recv", "exit", "wait"} \cup Active]
    BY <1>2 DEF IInv, TypeOK
  <2>. QED BY <1>1, <1>2, <1>3, <2>1, <2>2 DEF IInv, TypeOK
<1>5. /\ gpc'[c] = "spin" /\ rep'[c] # None
      /\ \A d \in Clients : d # c => gpc'[d] = gpc[d] /\ rep'[d] = rep[d] /\ gpc[d] \notin Active
  <2>1. [status |-> Request(c).op, res |-> None] # None
    BY <1>3, ConstantsOK DEF Replies
  <2>2. \A d \in Clients : d # c => gpc[d] \notin Active
    BY <1>2, OneLeader DEF Active
  <2>. QED BY <1>2, <2>1, <2>2 DEF IInv, TypeOK
<1>6. cpc[c] = "call" /\ ~sent[c]
  BY <1>2 DEF IInv, Calling, Active
<1>7. Calling'
  BY <1>1, <1>5, <1>6 DEF IInv, Calling, Active
<1>8. \A d \in Clients : InQueue(d)' <=> d # c /\ gpc[d] = "wait" /\ ~done[d] /\ \A j \in 2 .. m : d # q[j]
  BY <1>2, <1>5 DEF InQueue, Active
<1>9. \A i, j \in 1 .. N : q[i] = q[j] => i = j
  BY DEF IInv, Queued
<1>10. Queued'
  <2>1. \A i \in 1 .. N - m : m + i \in 1 .. N /\ m + i > m
    BY <1>2
  <2>2. ASSUME NEW i \in 1 .. N - m, NEW j \in 1 .. N - m, q'[i] = q'[j]
        PROVE  i = j
    <3>1. q[m + i] = q[m + j] /\ m + i \in 1 .. N /\ m + j \in 1 .. N
      BY <1>2, <2>1, <2>2
    <3>2. m + i = m + j
      BY <3>1, <1>9
    <3>. QED BY <3>2, <1>2
  <2>3. ASSUME NEW i \in 1 .. N - m
        PROVE  InQueue(writers_queue[i])'
    <3> DEFINE d == q[m + i]
    <3>1. q'[i] = d /\ m + i \in 1 .. N /\ d \in Clients /\ InQueue(d) /\ gpc[d] \in Active \cup {"wait"}
      BY <1>2, <2>1, QueueClients
    <3>2. d # c
      <4>1. 1 \in 1 .. N /\ m + i # 1
        BY <1>2, <2>1
      <4>. QED BY <1>2, <1>9, <3>1, <4>1
    <3>3. \A j \in 2 .. m : d # q[j]
      <4> SUFFICES ASSUME NEW j \in 2 .. m, d = q[j] PROVE FALSE
        OBVIOUS
      <4>1. j \in 1 .. N /\ j <= m
        BY <1>2
      <4>2. m + i = j
        BY <3>1, <4>1, <1>9
      <4>. QED BY <1>2, <4>1, <4>2
    <3>4. gpc[d] = "wait" /\ ~done[d]
      BY <1>5, <3>1, <3>2 DEF InQueue
    <3> HIDE DEF d
    <3>5. gpc'[d] = "wait" /\ ~done'[d]
      BY <1>2, <1>5, <3>1, <3>2, <3>3, <3>4
    <3>. QED BY <3>1, <3>5 DEF InQueue
  <2>4. ASSUME NEW d \in Clients, InQueue(d)'
        PROVE  \E i \in 1 .. N - m : q'[i] = d
    <3>1. d # c /\ gpc[d] = "wait" /\ ~done[d] /\ \A j \in 2 .. m : d # q[j]
      BY <2>4, <1>8
    <3>2. PICK j \in 1 .. N : q[j] = d
      BY <3>1 DEF IInv, Queued, InQueue
    <3>3. j > m
      BY <1>2, <3>1, <3>2
    <3>4. j - m \in 1 .. N - m /\ m + (j - m) = j
      BY <1>2, <3>3
    <3>. QED BY <1>2, <3>2, <3>4
  <2>5. \A d \in Clients : gpc'[d] \notin Active
    BY <1>5 DEF Active
  <2>. QED BY <1>2, <2>2, <2>3, <2>4, <2>5 DEF Queued
<1>11. Batched'
  BY <1>5 DEF Batched, Leading, Active
<1>. QED BY <1>4, <1>7, <1>10, <1>11 DEF IInv

LEMMA StepInv == IInv /\ [Next]_vars => IInv'
<1> SUFFICES ASSUME IInv, [Next]_vars PROVE IInv'
  OBVIOUS
<1>1. CASE UNCHANGED vars
  BY <1>1 DEF vars, clientVars, mailVars, groupVars, storeVars, IInv, TypeOK, Calling, Queued, InQueue,
              Batched
<1>2. ASSUME NEW c \in Clients, ClientNext(c) \/ ClerkNext(c) \/ SpuriousWake(c)
      PROVE  IInv'
  BY <1>2, ClientStep, GetStep, CloseStep, EnqueueStep, LeaveWaitStep, BuildStep, PutStep, LogStep,
     FinishStep DEF ClerkNext, Wake, SpuriousWake
<1>. QED BY <1>1, <1>2 DEF Next

LEMMA Invariance == Spec => []IInv
BY InitInv, StepInv, PTL DEF Spec

-----------------------------------------------------------------------------
(* Refinement of the abstract store. *)

CallOf == [c \in Clients |-> IF cpc[c] = "call" THEN AbstractCall(req[c]) ELSE None]
DoneOf == {c \in Clients : cpc[c] = "call" /\ Effective(c)}
GotOf == [c \in Clients |-> IF rep[c] # None THEN rep[c].res ELSE None]

LEMMA AbstractCallIs ==
  ASSUME NEW r \in Requests, r.op \in {"GET", "LOGGED"}
  PROVE  /\ AbstractCall(r) \in AbstractCalls /\ AbstractCall(r) # None
         /\ r.op = "GET" => /\ AbstractCall(r).op = "READ" /\ AbstractCall(r).key = r.key
                            /\ r.key \in Keys
         /\ r.op = "LOGGED" => /\ AbstractCall(r).op = "WRITE" /\ AbstractCall(r).key = r.rec.key
                               /\ AbstractCall(r).val = Value(r.rec) /\ r.rec.key \in Keys
<1>1. CASE r.op = "GET"
  <2>1. r.key \in Keys
    BY <1>1 DEF Requests
  <2>2. AbstractCall(r) = [op |-> "READ", key |-> r.key]
    BY <1>1 DEF AbstractCall
  <2>. QED BY <1>1, <2>1, <2>2, ConstantsOK DEF AbstractCalls
<1>2. CASE r.op = "LOGGED"
  <2>1. r.rec \in Recs /\ r.rec.key \in Keys
    BY <1>2 DEF Requests, Recs
  <2>2. AbstractCall(r) = [op |-> "WRITE", key |-> r.rec.key, val |-> Value(r.rec)]
    BY <1>2 DEF AbstractCall
  <2>3. Value(r.rec) \in Vals
    BY <2>1, ValueIs
  <2> HIDE DEF Value
  <2>. QED BY <1>2, <2>1, <2>2, <2>3, ConstantsOK DEF AbstractCalls
<1>. QED BY <1>1, <1>2

\* The requests of the batch are those of clerks in the queue, whose calls
\* are not answered.
LEMMA BatchClerks ==
  ASSUME IInv, NEW c \in Clients, gpc[c] \in Leading, NEW j \in DOMAIN batch
  PROVE  LET d == batch[j].by IN
         /\ j \in 1 .. Len(batch) /\ d = writers_queue[j] /\ d \in Clients
         /\ gpc[d] \in Active \cup {"wait"} /\ (gpc[d] = "wait" => ~done[d])
         /\ cpc[d] = "call" /\ rep[d] = None /\ ~sent[d]
         /\ req[d] \in Requests /\ req[d].op = "LOGGED" /\ req[d].rec = batch[j]
<1> DEFINE d == batch[j].by
<1>1. j \in 1 .. Len(batch)
  BY DEF IInv, TypeOK
<1>2. d = writers_queue[j] /\ d \in Clients /\ j \in 1 .. Len(writers_queue) /\ batch[j] = req[d].rec
  BY <1>1, BatchIs DEF Request
<1>3. InQueue(d) /\ gpc[d] \in Active \cup {"wait"}
  BY <1>2, QueueClients
<1> HIDE DEF d
<1>4. gpc[d] = "wait" => ~done[d]
  BY <1>3 DEF InQueue, Active
<1>5. /\ cpc[d] = "call" /\ rep[d] = None /\ ~sent[d]
      /\ req[d] \in Requests /\ req[d].op = "LOGGED"
  BY <1>2, <1>3 DEF IInv, Calling, Active
<1>. QED BY <1>1, <1>2, <1>3, <1>4, <1>5 DEF d

\* A call whose clerk spins has taken effect when it was answered.
LEMMA SpinEffective ==
  ASSUME IInv, NEW c \in Clients, gpc[c] \notin Active \cup {"wait"}
  PROVE  Effective(c) <=> rep[c] # None
<1>1. ASSUME NEW d \in Clients, NEW j \in DOMAIN batch, gpc[d] \in Leading
      PROVE  batch[j].by # c
  BY <1>1, BatchClerks
<1>. QED BY <1>1 DEF Effective, Leading

\* Only the leader makes calls of the batch take effect.
LEMMA LeaderEffective ==
  ASSUME IInv, NEW l \in Clients, gpc[l] \in Active, NEW c \in Clients
  PROVE  Effective(c) <=>
           \/ rep[c] # None
           \/ done[c] /\ gpc[c] = "wait"
           \/ \E j \in DOMAIN batch : /\ batch[j].by = c
                                      /\ gpc[l] \in {"log", "finish"} \/ (gpc[l] = "put" /\ j < ki)
<1>1. \A d \in Clients : gpc[d] \in {"log", "finish", "put"} => d = l
  BY OneLeader DEF Active
<1>. QED BY <1>1, Zenon DEF Effective

\* Steps that leave the batch alone.
LEMMA SameEffective ==
  ASSUME UNCHANGED <<rep, done, batch, ki>>, NEW c \in Clients,
         \A d \in Clients : \/ gpc'[d] = gpc[d]
                            \/ /\ gpc[d] \notin {"wait", "put", "log", "finish"}
                               /\ gpc'[d] \notin {"wait", "put", "log", "finish"}
  PROVE  Effective(c)' <=> Effective(c)
BY DEF Effective

LEMMA SendInvokes ==
  ASSUME IInv, NEW c \in Clients, NEW r \in Requests, r.op \in {"GET", "LOGGED"}, Send(c, r, "call")
  PROVE  Store!Invoke(c)
<1>1. CallOf[c] = None
  BY DEF Send, CallOf
<1>2. CallOf' = [CallOf EXCEPT ![c] = AbstractCall(r)]
  BY DEF Send, CallOf, IInv, TypeOK
<1>3. CallOf'[c] = AbstractCall(r)
  BY <1>2 DEF CallOf
<1>4. UNCHANGED <<db, rep, done, batch, ki, gpc>> /\ cpc[c] = "idle" /\ cpc' = [cpc EXCEPT ![c] = "call"]
  BY DEF Send, groupVars, storeVars
<1>5. ~Effective(c)
  BY <1>4, SpinEffective DEF IInv, Calling
<1>6. \A d \in Clients : Effective(d)' <=> Effective(d)
  BY <1>4, SameEffective
<1>7. UNCHANGED DoneOf
  <2>1. \A d \in Clients : d # c => cpc'[d] = cpc[d]
    BY <1>4 DEF IInv, TypeOK
  <2>. QED BY <1>4, <1>5, <1>6, <2>1 DEF DoneOf
<1>8. UNCHANGED GotOf
  BY <1>4 DEF GotOf
<1>. QED BY <1>1, <1>2, <1>3, <1>4, <1>7, <1>8, AbstractCallIs
         DEF Store!Invoke, Store!Calls, AbstractCalls, CallOf, DoneOf, GotOf

LEMMA GetReads ==
  ASSUME IInv, NEW c \in Clients, ClerkGet(c)
  PROVE  Store!Read(c)
<1>1. UNCHANGED <<cpc, req, gpc, done, batch, ki, db>>
  BY DEF ClerkGet, clientVars, groupVars, storeVars
<1>2. /\ gpc[c] = "spin" /\ sent[c] /\ req[c].op = "GET"
      /\ cpc[c] = "call" /\ req[c] \in Requests /\ rep[c] = None
  BY DEF ClerkGet, Receive, IInv, Calling
<1>3. /\ CallOf[c] = AbstractCall(req[c]) /\ CallOf[c].op = "READ" /\ CallOf[c] # None
      /\ CallOf[c].key = req[c].key /\ req[c].key \in Keys
  BY <1>2, AbstractCallIs DEF CallOf
<1>4. PICK s \in {"OK", "NOTFOUND"} : rep' = [rep EXCEPT ![c] = [status |-> s, res |-> db[req[c].key]]]
  BY DEF ClerkGet, Reply
<1>5. [status |-> s, res |-> db[req[c].key]] # None
  BY <1>3, <1>4, ConstantsOK DEF IInv, TypeOK, Replies
<1>6. /\ rep'[c] # None /\ rep'[c].res = db[req[c].key]
      /\ \A d \in Clients : d # c => rep'[d] = rep[d]
  BY <1>4, <1>5 DEF IInv, TypeOK
<1>7. ~Effective(c)
  BY <1>2, SpinEffective DEF Active
<1>8. \A d \in Clients : Effective(d)' <=> d = c \/ Effective(d)
  BY <1>1, <1>6 DEF Effective
<1>9. DoneOf' = DoneOf \cup {c} /\ c \notin DoneOf
  BY <1>1, <1>2, <1>7, <1>8 DEF DoneOf
<1>10. GotOf' = [GotOf EXCEPT ![c] = db[CallOf[c].key]]
  BY <1>3, <1>6 DEF GotOf
<1>11. UNCHANGED CallOf
  BY <1>1 DEF CallOf
<1>12. c \in Store!Pending("READ")
  BY <1>3, <1>9 DEF Store!Pending, CallOf, DoneOf
<1>. QED BY <1>1, <1>9, <1>10, <1>11, <1>12 DEF Store!Read, CallOf, DoneOf, GotOf

LEMMA ReturnReturns ==
  ASSUME IInv, NEW c \in Clients, Return(c)
  PROVE  Store!Return(c)
<1>1. /\ cpc[c] = "call" /\ rep[c] # None /\ gpc[c] = "spin"
      /\ cpc' = [cpc EXCEPT ![c] = "idle"] /\ rep' = [rep EXCEPT ![c] = None]
      /\ UNCHANGED <<req, gpc, done, batch, ki, db>>
  BY DEF Return, groupVars, storeVars, IInv, Calling
<1>2. \A d \in Clients : d # c => cpc'[d] = cpc[d] /\ rep'[d] = rep[d]
  BY <1>1 DEF IInv, TypeOK
<1>3. cpc'[c] = "idle" /\ rep'[c] = None
  BY <1>1 DEF IInv, TypeOK
<1>4. CallOf' = [CallOf EXCEPT ![c] = None]
  BY <1>1, <1>2, <1>3 DEF CallOf
<1>5. GotOf' = [GotOf EXCEPT ![c] = None]
  BY <1>2, <1>3 DEF GotOf
<1>6. Effective(c)
  BY <1>1 DEF Effective
<1>7. \A d \in Clients : d # c => (Effective(d)' <=> Effective(d))
  BY <1>1, <1>2 DEF Effective
<1>8. DoneOf' = DoneOf \ {c} /\ c \in DoneOf
  BY <1>1, <1>2, <1>3, <1>6, <1>7 DEF DoneOf
<1>. QED BY <1>1, <1>4, <1>5, <1>8 DEF Store!Return, CallOf, DoneOf, GotOf

Abstract == <<db, CallOf, DoneOf, GotOf>>

\* Closing a connection is no matter of the store.
LEMMA CloseStutters ==
  ASSUME IInv, NEW c \in Clients, SendClose(c) \/ ClerkClose(c) \/ CloseHandshake(c)
  PROVE  UNCHANGED Abstract
<1>1. /\ UNCHANGED <<rep, done, batch, ki, db>>
      /\ cpc[c] # "call" /\ cpc'[c] # "call" /\ gpc[c] \in {"spin", "recv"} /\ gpc'[c] \in {"spin", "recv", "exit"}
      /\ \A d \in Clients : d # c => cpc'[d] = cpc[d] /\ req'[d] = req[d] /\ gpc'[d] = gpc[d]
  <2>1. CASE SendClose(c)
    <3>1. cpc[c] = "idle" /\ UNCHANGED <<rep, gpc, done, batch, ki, db>>
      BY <2>1 DEF SendClose, Send, groupVars, storeVars
    <3>2. gpc[c] = "spin"
      BY <3>1 DEF IInv, TypeOK, Calling
    <3>3. /\ cpc'[c] = "closing"
          /\ \A d \in Clients : d # c => cpc'[d] = cpc[d] /\ req'[d] = req[d]
      BY <2>1 DEF SendClose, Send, IInv, TypeOK
    <3>. QED BY <3>1, <3>2, <3>3
  <2>2. CASE ClerkClose(c)
    <3>1. cpc[c] = "closing"
      BY <2>2 DEF ClerkClose, Receive, IInv, Calling
    <3>. QED BY <2>2, <3>1 DEF ClerkClose, Receive, clientVars, storeVars, IInv, TypeOK
  <2>3. CASE CloseHandshake(c)
    BY <2>3 DEF CloseHandshake, mailVars, storeVars, IInv, TypeOK
  <2>. QED BY <2>1, <2>2, <2>3
<1>2. \A d \in Clients : Effective(d)' <=> Effective(d)
  BY <1>1, SameEffective
<1>3. UNCHANGED DoneOf
  BY <1>1, <1>2 DEF DoneOf
<1>4. UNCHANGED <<CallOf, GotOf>>
  BY <1>1 DEF CallOf, GotOf
<1>. QED BY <1>1, <1>3, <1>4 DEF Abstract

LEMMA EnqueueStutters ==
  ASSUME IInv, NEW c \in Clients, Enqueue(c)
  PROVE  UNCHANGED Abstract
<1>1. UNCHANGED <<cpc, req, rep, batch, ki, db>>
  BY DEF Enqueue, clientVars, storeVars
<1>2. /\ gpc[c] = "spin" /\ gpc'[c] \in {"lead", "wait"} /\ ~done'[c]
      /\ \A d \in Clients : d # c => gpc'[d] = gpc[d] /\ done'[d] = done[d]
  BY DEF Enqueue, Receive, IInv, TypeOK
<1>3. \A d \in Clients : Effective(d)' <=> Effective(d)
  BY <1>1, <1>2 DEF Effective
<1>. QED BY <1>1, <1>3 DEF Abstract, DoneOf, CallOf, GotOf

LEMMA LeaveWaitStutters ==
  ASSUME IInv, NEW c \in Clients, LeaveWait(c)
  PROVE  UNCHANGED Abstract
<1>1. UNCHANGED <<cpc, req, done, batch, ki, db>>
  BY DEF LeaveWait, clientVars, storeVars
<1>2. gpc[c] = "wait" /\ rep[c] = None
  BY DEF LeaveWait, IInv, Calling, Active
<1>3. CASE done[c]
  <2>1. [status |-> "OK", res |-> None] # None
    BY ConstantsOK DEF Replies
  <2>2. /\ gpc'[c] = "spin" /\ rep'[c] = [status |-> "OK", res |-> None]
        /\ \A d \in Clients : d # c => gpc'[d] = gpc[d] /\ rep'[d] = rep[d]
    BY <1>3 DEF LeaveWait, Reply, IInv, TypeOK
  <2>3. \A d \in Clients : Effective(d)' <=> Effective(d)
    BY <1>1, <1>2, <1>3, <2>1, <2>2 DEF Effective
  <2>4. UNCHANGED GotOf
    BY <1>2, <2>2 DEF GotOf
  <2>. QED BY <1>1, <2>3, <2>4 DEF Abstract, DoneOf, CallOf
<1>4. CASE ~done[c]
  <2>1. /\ gpc'[c] \in {"lead", "wait"} /\ UNCHANGED rep
        /\ \A d \in Clients : d # c => gpc'[d] = gpc[d]
    BY <1>4 DEF LeaveWait, IInv, TypeOK
  <2>2. \A d \in Clients : Effective(d)' <=> Effective(d)
    BY <1>1, <1>2, <1>4, <2>1 DEF Effective
  <2>. QED BY <1>1, <2>1, <2>2 DEF Abstract, DoneOf, CallOf, GotOf
<1>. QED BY <1>3, <1>4

LEMMA BuildStutters ==
  ASSUME IInv, NEW c \in Clients, BuildBatchGroup(c)
  PROVE  UNCHANGED Abstract
<1>1. UNCHANGED <<cpc, req, rep, done, db>>
  BY DEF BuildBatchGroup, clientVars, mailVars, storeVars
<1>2. gpc[c] = "lead" /\ gpc' = [gpc EXCEPT ![c] = "put"] /\ ki' = 1 /\ batch' \in Seq(Recs)
  BY BuiltIs
<1>3. /\ gpc'[c] = "put"
      /\ \A d \in Clients : d # c => gpc'[d] = gpc[d] /\ gpc[d] \notin Leading
  BY <1>2, OneLeader DEF IInv, TypeOK, Active, Leading
<1>4. ASSUME NEW j \in DOMAIN batch' PROVE ~(j < ki')
  BY <1>2
<1>5. ASSUME NEW d \in Clients
      PROVE  Effective(d)' <=> Effective(d)
  <2>1. Effective(d)' <=> rep[d] # None \/ (done[d] /\ gpc'[d] = "wait")
    BY <1>1, <1>3, <1>4 DEF Effective, Leading
  <2>2. Effective(d) <=> rep[d] # None \/ (done[d] /\ gpc[d] = "wait")
    BY <1>2, <1>3 DEF Effective, Leading
  <2>. QED BY <1>2, <1>3, <2>1, <2>2
<1>. QED BY <1>1, <1>5 DEF Abstract, DoneOf, CallOf, GotOf

\* Storing the requests of part of the batch, J, that were not stored.
LEMMA PutWrites ==
  ASSUME IInv, NEW c \in Clients, gpc[c] = "put", NEW J \in SUBSET DOMAIN batch, J # {},
         UNCHANGED <<cpc, req, rep, done, batch>>,
         \A j \in J : ~(j < ki),
         \A d \in Clients : d # c => gpc'[d] = gpc[d],
         gpc'[c] \in Leading,
         \A j \in DOMAIN batch : gpc'[c] \in {"log", "finish"} \/ j < ki' <=> j < ki \/ j \in J,
         db' = [k \in Keys |-> db'[k]],
         \A k \in Keys : \/ db'[k] = db[k] /\ \A j \in J : batch[j].key # k
                         \/ \E j \in J : batch[j].key = k /\ db'[k] = Value(batch[j])
  PROVE  \E S \in SUBSET Clients : Store!Write(S)
<1>0. PICK S \in SUBSET Clients : S = {batch[j].by : j \in J}
  <2>1. \A j \in J : batch[j].by \in Clients
    BY BatchClerks DEF Leading
  <2>. QED BY <2>1
<1> HIDE DEF Value
<1>1. ASSUME NEW j \in J
      PROVE  LET d == batch[j].by IN
             /\ d \in Clients /\ d \notin DoneOf
             /\ CallOf[d] # None /\ CallOf[d].op = "WRITE" /\ CallOf[d].key = batch[j].key
             /\ CallOf[d].val = Value(batch[j])
  <2> DEFINE d == batch[j].by
  <2>1. /\ j \in 1 .. Len(batch) /\ d = writers_queue[j] /\ d \in Clients
        /\ (gpc[d] = "wait" => ~done[d])
        /\ cpc[d] = "call" /\ rep[d] = None
        /\ req[d] \in Requests /\ req[d].op = "LOGGED" /\ req[d].rec = batch[j]
    BY <1>1, BatchClerks DEF Leading
  <2>2. \A i \in DOMAIN batch : batch[i].by = d => i = j
    <3> SUFFICES ASSUME NEW i \in DOMAIN batch, batch[i].by = d PROVE i = j
      OBVIOUS
    <3>1. gpc[c] \in Leading
      BY DEF Leading
    <3>2. i \in 1 .. Len(batch) /\ j \in 1 .. Len(batch) /\ batch[i].by = writers_queue[i]
      BY <2>1, <3>1, BatchClerks
    <3>3. i \in 1 .. Len(writers_queue) /\ j \in 1 .. Len(writers_queue)
      BY <3>1, <3>2, BatchIs
    <3>4. writers_queue[i] = writers_queue[j]
      BY <2>1, <3>2
    <3>. QED BY <3>3, <3>4 DEF IInv, Queued
  <2> HIDE DEF d
  <2>3. ~Effective(d)
    BY <1>1, <2>1, <2>2, LeaderEffective DEF Active
  <2>4. d \notin DoneOf
    BY <2>3 DEF DoneOf
  <2>5. CallOf[d] = AbstractCall(req[d])
    BY <2>1 DEF CallOf
  <2>. QED BY <2>1, <2>4, <2>5, AbstractCallIs DEF d
<1>2. S # {} /\ S \subseteq Store!Pending("WRITE")
  BY <1>0, <1>1 DEF Store!Pending, CallOf, DoneOf
<1>3. ASSUME NEW k \in Keys
      PROVE  /\ Store!Written(S, k) = {} => \A j \in J : batch[j].key # k
             /\ \A j \in J : batch[j].key = k => Value(batch[j]) \in Store!Written(S, k)
  <2>1. Store!Written(S, k) = {CallOf[d].val : d \in {e \in S : CallOf[e].key = k}}
    BY Zenon DEF Store!Written, CallOf
  <2>2. ASSUME NEW j \in J, batch[j].key = k
        PROVE  Value(batch[j]) \in Store!Written(S, k)
    <3>1. batch[j].by \in {e \in S : CallOf[e].key = k}
      BY <1>0, <1>1, <2>2
    <3>2. Value(batch[j]) = CallOf[batch[j].by].val
      BY <1>1
    <3>. QED BY <2>1, <3>1, <3>2, Zenon
  <2>. QED BY <2>2
<1>4. ASSUME NEW k \in Keys, \A j \in J : batch[j].key # k
      PROVE  Store!Written(S, k) = {}
  <2>1. Store!Written(S, k) = {CallOf[d].val : d \in {e \in S : CallOf[e].key = k}}
    BY Zenon DEF Store!Written, CallOf
  <2>. QED BY <1>0, <1>1, <1>4, <2>1
<1>5. \A k \in Keys : IF Store!Written(S, k) = {} THEN db'[k] = db[k]
                      ELSE db'[k] \in Store!Written(S, k)
  <2> SUFFICES ASSUME NEW k \in Keys
               PROVE  IF Store!Written(S, k) = {} THEN db'[k] = db[k]
                      ELSE db'[k] \in Store!Written(S, k)
    OBVIOUS
  <2>1. CASE db'[k] = db[k] /\ \A j \in J : batch[j].key # k
    BY <1>4, <2>1
  <2>2. CASE \E j \in J : batch[j].key = k /\ db'[k] = Value(batch[j])
    BY <1>3, <2>2
  <2>. QED BY <2>1, <2>2
<1>6. \A d \in Clients : Effective(d)' <=> Effective(d) \/ d \in S
  <2> SUFFICES ASSUME NEW d \in Clients
               PROVE  Effective(d)' <=> Effective(d) \/ d \in S
    OBVIOUS
  <2>1. \A e \in Clients : e # c => gpc'[e] \notin {"put", "log", "finish"}
    BY OneLeader DEF Active
  <2>2. Effective(d)' <=> \/ rep[d] # None
                          \/ done[d] /\ gpc'[d] = "wait"
                          \/ \E j \in DOMAIN batch :
                               /\ batch[j].by = d
                               /\ gpc'[c] \in {"log", "finish"} \/ (gpc'[c] = "put" /\ j < ki')
    BY <2>1 DEF Effective
  <2>3. gpc'[c] \in {"log", "finish", "put"} /\ (gpc'[d] = "wait" <=> gpc[d] = "wait")
    BY DEF Leading
  <2>4. Effective(d)' <=> \/ rep[d] # None
                          \/ done[d] /\ gpc[d] = "wait"
                          \/ \E j \in DOMAIN batch : batch[j].by = d /\ (j < ki \/ j \in J)
    BY <2>2, <2>3
  <2>5. Effective(d) <=> \/ rep[d] # None
                         \/ done[d] /\ gpc[d] = "wait"
                         \/ \E j \in DOMAIN batch : batch[j].by = d /\ j < ki
    BY LeaderEffective DEF Active
  <2>6. d \in S <=> \E j \in J : batch[j].by = d
    BY <1>0
  <2>. QED BY <2>4, <2>5, <2>6
<1>7. DoneOf' = DoneOf \cup S
  <2>1. \A d \in S : d \in Clients /\ cpc[d] = "call"
    BY <1>0, BatchClerks DEF Leading
  <2>. QED BY <1>6, <2>1 DEF DoneOf
<1>8. UNCHANGED <<CallOf, GotOf>>
  BY DEF CallOf, GotOf
<1>9. Store!Write(S)
  BY <1>2, <1>5, <1>7, <1>8 DEF Store!Write, CallOf, DoneOf, GotOf
<1>. QED BY <1>9

LEMMA PutRefines ==
  ASSUME IInv, NEW c \in Clients, PutBatch(c)
  PROVE  failed' \/ UNCHANGED Abstract \/ \E S \in SUBSET Clients : Store!Write(S)
<1>1. UNCHANGED <<cpc, req, rep, done, batch>> /\ gpc[c] = "put"
  BY DEF PutBatch, clientVars, mailVars
<1>2. /\ DOMAIN batch = 1 .. Len(batch) /\ Len(batch) \in Nat /\ Len(batch) # 0
      /\ ki \in 1 .. Len(batch) + 1 /\ (dbtype = "LevelDB" => ki = 1)
  BY <1>1, QueueClients DEF IInv, TypeOK, Batched, Leading
<1>3. \A d \in Clients : d # c => gpc'[d] = gpc[d]
  BY DEF PutBatch, IInv, TypeOK
<1>5. CASE dbtype = "LevelDB" /\ ~failed'
  <2>1. /\ gpc'[c] = "log"
        /\ db' = [k \in Keys |-> IF \E j \in DOMAIN batch : batch[j].key = k
                                 THEN Value(batch[LastWith(k)]) ELSE db[k]]
    BY <1>5 DEF PutBatch, IInv, TypeOK
  <2>2. \A j \in DOMAIN batch : ~(j < ki)
    BY <1>2, <1>5
  <2> HIDE DEF LastWith, Value
  <2>3. ASSUME NEW k \in Keys
        PROVE  \/ db'[k] = db[k] /\ \A j \in DOMAIN batch : batch[j].key # k
               \/ \E j \in DOMAIN batch : batch[j].key = k /\ db'[k] = Value(batch[j])
    <3>1. CASE \E j \in DOMAIN batch : batch[j].key = k
      <4>1. db'[k] = Value(batch[LastWith(k)])
        BY <2>1, <3>1
      <4>. QED BY <3>1, <4>1, LastWithIs DEF IInv
    <3>2. CASE ~\E j \in DOMAIN batch : batch[j].key = k
      BY <2>1, <3>2
    <3>. QED BY <3>1, <3>2
  <2>4. db' = [k \in Keys |-> db'[k]]
    BY <2>1
  <2> DEFINE J == DOMAIN batch
  <2>5. J # {} /\ J \in SUBSET DOMAIN batch /\ gpc'[c] \in Leading
    <3>1. 1 \in J
      BY <1>2
    <3>. QED BY <2>1, <3>1 DEF Leading
  <2>6. /\ \A j \in DOMAIN batch : gpc'[c] \in {"log", "finish"} \/ j < ki' <=> j < ki \/ j \in J
        /\ \A j \in J : ~(j < ki)
        /\ \A k \in Keys : \/ db'[k] = db[k] /\ \A j \in J : batch[j].key # k
                           \/ \E j \in J : batch[j].key = k /\ db'[k] = Value(batch[j])
    BY <2>1, <2>2, <2>3
  <2> HIDE DEF J
  <2>. QED BY <1>1, <1>3, <2>4, <2>5, <2>6, PutWrites
<1>6. CASE dbtype = "CuckooDB" /\ ~Stored
  <2>1. /\ gpc'[c] = "put" /\ ki' = ki + 1
        /\ db' = [db EXCEPT ![batch[ki].key] = Value(batch[ki])]
    BY <1>1, <1>6 DEF PutBatch
  <2>2. ki \in DOMAIN batch /\ ki \in Nat
    BY <1>2, <1>6 DEF Stored
  <2> HIDE DEF Value
  <2> DEFINE J == {ki}
  <2>3. J \in SUBSET DOMAIN batch /\ J # {} /\ (\A j \in J : ~(j < ki)) /\ gpc'[c] \in Leading
    BY <2>1, <2>2 DEF Leading
  <2>4. \A j \in DOMAIN batch : gpc'[c] \in {"log", "finish"} \/ j < ki' <=> j < ki \/ j \in J
    BY <1>2, <2>1, <2>2
  <2>5. /\ db' = [k \in Keys |-> db'[k]]
        /\ \A k \in Keys : \/ db'[k] = db[k] /\ \A j \in J : batch[j].key # k
                           \/ \E j \in J : batch[j].key = k /\ db'[k] = Value(batch[j])
    BY <2>1 DEF IInv, TypeOK
  <2> HIDE DEF J
  <2>. QED BY <1>1, <1>3, <2>3, <2>4, <2>5, PutWrites
<1>7. CASE dbtype = "CuckooDB" /\ Stored
  <2>1. gpc'[c] = "log" /\ UNCHANGED <<db, ki>>
    BY <1>7 DEF PutBatch, IInv, TypeOK
  <2>2. \A j \in DOMAIN batch : j < ki
    BY <1>2, <1>7 DEF Stored
  <2>3. \A d \in Clients : Effective(d)' <=> Effective(d)
    BY <1>1, <1>3, <2>1, <2>2 DEF Effective
  <2>. QED BY <1>1, <2>1, <2>3 DEF Abstract, DoneOf, CallOf, GotOf
<1>. QED BY <1>5, <1>6, <1>7 DEF IInv, TypeOK

LEMMA LogStutters ==
  ASSUME IInv, NEW c \in Clients, LogBatch(c)
  PROVE  UNCHANGED Abstract
<1>1. UNCHANGED <<cpc, req, rep, done, batch, ki, db>>
  BY DEF LogBatch, clientVars, mailVars
<1>2. /\ gpc[c] = "log" /\ gpc'[c] = "finish"
      /\ \A d \in Clients : d # c => gpc'[d] = gpc[d]
  BY DEF LogBatch, IInv, TypeOK
<1>3. \A d \in Clients : Effective(d)' <=> Effective(d)
  BY <1>1, <1>2 DEF Effective
<1>. QED BY <1>1, <1>3 DEF Abstract, DoneOf, CallOf, GotOf

\* The calls of the batch stay effective when its clerks leave the queue.
LEMMA FinishStutters ==
  ASSUME IInv, NEW c \in Clients, Finish(c)
  PROVE  UNCHANGED Abstract
<1> DEFINE m == Len(batch)
           q == writers_queue
<1>1. UNCHANGED <<cpc, req, batch, ki, db>>
  BY DEF Finish, clientVars, storeVars
<1>2. /\ gpc[c] = "finish" /\ q[1] = c /\ m \in 1 .. Len(q) /\ Len(q) \in Nat
      /\ \A d \in Clients : done'[d] <=> done[d] \/ \E j \in 2 .. m : d = q[j]
      /\ gpc' = [gpc EXCEPT ![c] = "spin"]
      /\ rep' = [rep EXCEPT ![c] = [status |-> Request(c).op, res |-> None]]
  BY FinishIs
<1>3. rep[c] = None /\ [status |-> Request(c).op, res |-> None] # None
  <2>1. Request(c).op \in {"PUT", "DELETE"}
    BY <1>2, RequestIs DEF IInv, Active, Recs
  <2>. QED BY <1>2, <2>1, ConstantsOK DEF IInv, Calling, Replies
<1>4. /\ gpc'[c] = "spin" /\ rep'[c] # None /\ rep'[c].res = None
      /\ \A d \in Clients : d # c => gpc'[d] = gpc[d] /\ rep'[d] = rep[d] /\ gpc[d] \notin Active
  <2>1. \A d \in Clients : d # c => gpc[d] \notin Active
    BY <1>2, OneLeader DEF Active
  <2>. QED BY <1>2, <1>3, <2>1 DEF IInv, TypeOK
<1>5. UNCHANGED GotOf
  BY <1>3, <1>4 DEF GotOf
<1>6. DOMAIN batch = 1 .. m /\ \A j \in DOMAIN batch : batch[j].by = q[j]
  BY <1>2, BatchClerks DEF Leading, IInv, TypeOK
<1>7. ASSUME NEW d \in Clients
      PROVE  Effective(d)' <=> Effective(d)
  <2>1. Effective(d) <=> rep[d] # None \/ (done[d] /\ gpc[d] = "wait") \/ \E j \in 1 .. m : q[j] = d
    BY <1>2, <1>6, LeaderEffective DEF Active
  <2>2. Effective(d)' <=> rep'[d] # None \/ (done'[d] /\ gpc'[d] = "wait")
    BY <1>4 DEF Effective, Active
  <2>3. CASE d = c
    <3>1. 1 \in 1 .. m
      BY <1>2
    <3>. QED BY <1>2, <1>4, <2>1, <2>2, <2>3, <3>1
  <2>4. CASE d # c
    <3>1. (\E j \in 1 .. m : q[j] = d) <=> \E j \in 2 .. m : d = q[j]
      BY <1>2, <2>4
    <3>2. (\E j \in 1 .. m : q[j] = d) => gpc[d] = "wait"
      BY <1>2, <1>4, <2>4, QueueClients
    <3>. QED BY <1>2, <1>4, <2>1, <2>2, <2>4, <3>1, <3>2
  <2>. QED BY <2>3, <2>4
<1>. QED BY <1>1, <1>5, <1>7 DEF Abstract, DoneOf, CallOf

\* As long as no write of the database fails, the group front end is a
\* linearizable map, whatever the number of clerks and the size of the batch:
\* a call takes effect once, when PutBatch stores it or Get reads.
THEOREM ImplementsKVStore == Spec => IsKVStore
<1>1. Init => Store!Init
  BY DEF Init, Store!Init, Effective
<1>2. ASSUME IInv, [Next]_vars
      PROVE  [failed' \/ Store!Next]_(Store!vars)
  <2>1. UNCHANGED Abstract => UNCHANGED Store!vars
    BY DEF Store!vars, Abstract, CallOf, DoneOf, GotOf
  <2>2. ASSUME UNCHANGED vars
        PROVE  UNCHANGED Abstract
    BY <2>2 DEF vars, clientVars, mailVars, groupVars, storeVars, Abstract, CallOf, DoneOf, GotOf, Effective
  <2>3. ASSUME NEW c \in Clients, NEW op \in {"PUT", "DELETE"}, NEW k \in Keys, NEW n \in Lens,
               SendLogged(c, op, k, n)
        PROVE  Store!Invoke(c)
    <3> DEFINE r == [op |-> op, key |-> k, by |-> c, seq |-> nops[c] + 1, len |-> n]
    <3>1. r \in Recs
      BY <1>2 DEF Recs, IInv, TypeOK
    <3>2. Send(c, [op |-> "LOGGED", rec |-> r], "call")
      BY <2>3 DEF SendLogged
    <3> HIDE DEF r
    <3>3. [op |-> "LOGGED", rec |-> r] \in Requests
      BY <3>1 DEF Requests
    <3>. QED BY <1>2, <3>2, <3>3, SendInvokes
  <2>4. ASSUME NEW c \in Clients, NEW k \in Keys, SendGet(c, k)
        PROVE  Store!Invoke(c)
    <3>1. [op |-> "GET", key |-> k] \in Requests
      BY DEF Requests
    <3>. QED BY <1>2, <2>4, <3>1, SendInvokes DEF SendGet
  <2>5. ASSUME NEW c \in Clients, ClientNext(c)
        PROVE  Store!Next \/ UNCHANGED Store!vars
    BY <1>2, <2>1, <2>3, <2>4, <2>5, ReturnReturns, CloseStutters
       DEF ClientNext, SendWrite, SendDelete, Store!Next
  <2>6. ASSUME NEW c \in Clients, ClerkNext(c) \/ SpuriousWake(c)
        PROVE  failed' \/ Store!Next \/ UNCHANGED Store!vars
    <3>1. CASE ClerkGet(c)
      BY <1>2, <3>1, GetReads DEF Store!Next
    <3>2. CASE PutBatch(c)
      BY <1>2, <2>1, <3>2, PutRefines DEF Store!Next
    <3>. QED BY <1>2, <2>1, <2>6, <3>1, <3>2, CloseStutters, EnqueueStutters, LeaveWaitStutters,
                BuildStutters, LogStutters, FinishStutters DEF ClerkNext, Wake, SpuriousWake
  <2>. QED BY <1>2, <2>1, <2>2, <2>5, <2>6 DEF Next
<1>. QED BY <1>1, <1>2, Invariance, PTL DEF Spec, IsKVStore

-----------------------------------------------------------------------------
(* The log. *)

\* A leader about to write the log finds room there.  When none is left,
\* RingLog::PutBatch writes past the end of the log area and offset_ starts
\* over, so that older records are written over.
LogHasRoom == \A c \in Clients : gpc[c] = "log" => offset_ < PREALLOCATE_SIZE

\* What was written to the log, or should have been, lies below offset_; what was
\* answered, what a leader has finished and what it is about to, is among it.
Logged ==
  /\ offset_ \in Nat
  /\ \A e \in Issued : e.off \in Nat /\ e.rec \in Recs /\ e.off + e.rec.len <= offset_
  /\ \A r \in acked : InLog(r)
  /\ \A c \in Clients : done[c] /\ gpc[c] = "wait" => InLog(Request(c))
  /\ \A c \in Clients : gpc[c] = "finish" => \A j \in DOMAIN batch : InLog(batch[j])

\* The requests of the batch that are in the database and not in the log yet.
Ahead == {j \in DOMAIN batch : \E c \in Clients : gpc[c] = "log" \/ (gpc[c] = "put" /\ j < ki)}

\* Replaying the log, with what failing writes lost, yields v for k.
ReplaysTo(k, v) ==
  LET E == {e \in Issued : e.rec.key = k} IN
  IF E = {} THEN v = None
  ELSE \E e \in E : (\A f \in E : f.off <= e.off) /\ v = Value(e.rec)

\* The database is what the log and then the part of the batch ahead of it yield.
Replayed ==
  ~failed => \A k \in Keys :
    \/ (\A j \in Ahead : batch[j].key # k) /\ ReplaysTo(k, db[k])
    \/ \E j \in Ahead : /\ batch[j].key = k /\ db[k] = Value(batch[j])
                        /\ \A i \in Ahead : batch[i].key = k => i <= j

LEMMA LogInit == Init => Logged /\ Replayed
<1> SUFFICES ASSUME Init PROVE Logged /\ Replayed
  OBVIOUS
<1>1. Logged
  BY DEF Init, Logged, Issued, InLog
<1>2. Ahead = {} /\ \A k \in Keys : ReplaysTo(k, db[k])
  BY DEF Init, Ahead, ReplaysTo, Issued
<1>. QED BY <1>1, <1>2 DEF Replayed

\* Steps that do not write the log.
LEMMA LoggedKept ==
  ASSUME Logged, UNCHANGED <<log, lost, offset_>>,
         \A r \in acked' : r \in acked \/ InLog(r),
         \A c \in Clients : done'[c] /\ gpc'[c] = "wait" => InLog(req'[c].rec),
         \A c \in Clients : gpc'[c] = "finish" => \A j \in DOMAIN batch' : InLog(batch'[j])
  PROVE  Logged'
BY DEF Logged, InLog, Issued, Request

\* Steps that write neither the log nor the database nor the batch.
LEMMA ReplayedKept ==
  ASSUME Replayed, UNCHANGED <<log, lost, db, failed, batch, ki>>,
         \A d \in Clients : /\ gpc'[d] = "put" <=> gpc[d] = "put"
                            /\ gpc'[d] = "log" <=> gpc[d] = "log"
  PROVE  Replayed'
<1>1. Ahead' = Ahead
  BY DEF Ahead
<1>2. \A k \in Keys : ReplaysTo(k, db[k])' <=> ReplaysTo(k, db[k])
  BY DEF ReplaysTo, Issued
<1>. QED BY <1>1, <1>2 DEF Replayed

\* Requests, reads and closing.
LEMMA MailLogged ==
  ASSUME IInv, Logged, Replayed, NEW c \in Clients,
         ClientNext(c) \/ ClerkGet(c) \/ ClerkClose(c) \/ CloseHandshake(c)
  PROVE  Logged' /\ Replayed'
<1>1. UNCHANGED <<log, lost, offset_, db, failed, batch, ki, done, acked>>
  BY DEF ClientNext, SendWrite, SendDelete, SendLogged, SendGet, SendClose, Send, Return, ClerkGet, ClerkClose,
         CloseHandshake, clientVars, mailVars, groupVars, storeVars
<1>2. \A d \in Clients : \/ gpc'[d] = gpc[d]
                         \/ gpc[d] \in {"spin", "recv"} /\ gpc'[d] \in {"recv", "exit"}
  <2>1. CASE ClientNext(c) \/ ClerkGet(c)
    BY <2>1 DEF ClientNext, SendWrite, SendDelete, SendLogged, SendGet, SendClose, Send, Return, ClerkGet,
                groupVars
  <2>2. CASE ClerkClose(c) \/ CloseHandshake(c)
    BY <2>2 DEF ClerkClose, Receive, CloseHandshake, IInv, TypeOK
  <2>. QED BY <2>1, <2>2
<1>3. \A d \in Clients : gpc[d] = "wait" => req'[d] = req[d]
  <2>1. \A d \in Clients : gpc[d] = "wait" => cpc[d] # "idle"
    BY DEF IInv, Calling
  <2>2. UNCHANGED req \/ (cpc[c] = "idle" /\ \E r : req' = [req EXCEPT ![c] = r])
    BY DEF ClientNext, SendWrite, SendDelete, SendLogged, SendGet, SendClose, Send, Return, ClerkGet, ClerkClose,
           CloseHandshake, mailVars
  <2>. QED BY <2>1, <2>2 DEF IInv, TypeOK
<1>4. Logged'
  BY <1>1, <1>2, <1>3, LoggedKept DEF Logged, Request
<1>5. Replayed'
  BY <1>1, <1>2, ReplayedKept
<1>. QED BY <1>4, <1>5

LEMMA EnqueueLogged ==
  ASSUME IInv, Logged, Replayed, NEW c \in Clients, Enqueue(c)
  PROVE  Logged' /\ Replayed'
<1>1. UNCHANGED <<log, lost, offset_, db, failed, batch, ki, req, acked>>
  BY DEF Enqueue, clientVars, storeVars
<1>2. /\ gpc[c] = "spin" /\ gpc'[c] \in {"lead", "wait"} /\ ~done'[c]
      /\ \A d \in Clients : d # c => gpc'[d] = gpc[d] /\ done'[d] = done[d]
  BY DEF Enqueue, Receive, IInv, TypeOK
<1>3. Logged'
  BY <1>1, <1>2, LoggedKept DEF Logged, Request
<1>4. Replayed'
  BY <1>1, <1>2, ReplayedKept
<1>. QED BY <1>3, <1>4

\* A clerk that answers when it is done found its request logged.
LEMMA LeaveWaitLogged ==
  ASSUME IInv, Logged, Replayed, NEW c \in Clients, LeaveWait(c)
  PROVE  Logged' /\ Replayed'
<1>1. UNCHANGED <<log, lost, offset_, db, failed, batch, ki, req, done>>
  BY DEF LeaveWait, clientVars, storeVars
<1>2. /\ gpc[c] = "wait" /\ gpc'[c] \in {"spin", "lead", "wait"}
      /\ \A d \in Clients : d # c => gpc'[d] = gpc[d]
  BY DEF LeaveWait, IInv, TypeOK
<1>3. acked' = acked \/ (done[c] /\ acked' = acked \cup {Request(c)})
  BY DEF LeaveWait, Answered, Request
<1>4. \A r \in acked' : r \in acked \/ InLog(r)
  BY <1>2, <1>3 DEF Logged
<1>5. Logged'
  BY <1>1, <1>2, <1>4, LoggedKept DEF Logged, Request
<1>6. Replayed'
  BY <1>1, <1>2, ReplayedKept
<1>. QED BY <1>5, <1>6

LEMMA BuildLogged ==
  ASSUME IInv, Logged, Replayed, NEW c \in Clients, BuildBatchGroup(c)
  PROVE  Logged' /\ Replayed'
<1>1. UNCHANGED <<log, lost, offset_, db, failed, req, done, acked>>
  BY DEF BuildBatchGroup, clientVars, mailVars, storeVars
<1>2. gpc[c] = "lead" /\ gpc' = [gpc EXCEPT ![c] = "put"] /\ ki' = 1 /\ batch' \in Seq(Recs)
  BY BuiltIs
<1>3. /\ gpc'[c] = "put"
      /\ \A d \in Clients : d # c => gpc'[d] = gpc[d] /\ gpc[d] \notin Leading
  BY <1>2, OneLeader DEF IInv, TypeOK, Active, Leading
<1>4. Logged'
  BY <1>1, <1>2, <1>3, LoggedKept DEF Logged, Request, Leading
<1>5. Ahead = {} /\ Ahead' = {}
  <2>1. \A j \in DOMAIN batch' : ~(j < ki')
    BY <1>2
  <2>. QED BY <1>2, <1>3, <2>1 DEF Ahead, Leading
<1>6. \A k \in Keys : ReplaysTo(k, db[k])' <=> ReplaysTo(k, db[k])
  BY <1>1 DEF ReplaysTo, Issued
<1>7. Replayed'
  BY <1>1, <1>5, <1>6 DEF Replayed
<1>. QED BY <1>4, <1>7

\* PutBatch goes ahead of the log.
LEMMA PutLogged ==
  ASSUME IInv, Logged, Replayed, NEW c \in Clients, PutBatch(c)
  PROVE  Logged' /\ Replayed'
<1>1. UNCHANGED <<log, lost, offset_, req, done, acked, batch>> /\ gpc[c] = "put"
  BY DEF PutBatch, clientVars, mailVars
<1>2. /\ DOMAIN batch = 1 .. Len(batch) /\ Len(batch) \in Nat
      /\ ki \in 1 .. Len(batch) + 1 /\ (dbtype = "LevelDB" => ki = 1)
  BY <1>1, QueueClients DEF IInv, TypeOK, Batched, Leading
<1>3. /\ gpc'[c] \in {"put", "log"}
      /\ \A d \in Clients : d # c => gpc'[d] = gpc[d] /\ gpc[d] \notin Leading
  <2>1. \A d \in Clients : d # c => gpc[d] \notin Leading
    BY <1>1, OneLeader DEF Active, Leading
  <2>. QED BY <1>1, <2>1 DEF PutBatch, IInv, TypeOK
<1>4. Logged'
  BY <1>1, <1>3, LoggedKept DEF Logged, Request, Leading
<1>5. /\ Ahead = {j \in DOMAIN batch : j < ki}
      /\ Ahead' = {j \in DOMAIN batch : gpc'[c] = "log" \/ j < ki'}
  BY <1>1, <1>3 DEF Ahead, Leading
<1>6. \A k \in Keys : db'[k] = db[k] => (ReplaysTo(k, db[k])' <=> ReplaysTo(k, db[k]))
  BY <1>1 DEF ReplaysTo, Issued
<1>7. Replayed'
  <2> SUFFICES ASSUME ~failed', NEW k \in Keys
               PROVE  \/ (\A j \in Ahead' : batch[j].key # k) /\ ReplaysTo(k, db[k])'
                      \/ \E j \in Ahead' : /\ batch[j].key = k /\ db'[k] = Value(batch[j])
                                           /\ \A i \in Ahead' : batch[i].key = k => i <= j
    BY <1>1 DEF Replayed
  <2>1. ~failed
    BY DEF PutBatch, IInv, TypeOK
  <2>2. \/ (\A j \in Ahead : batch[j].key # k) /\ ReplaysTo(k, db[k])
        \/ \E j \in Ahead : /\ batch[j].key = k /\ db[k] = Value(batch[j])
                            /\ \A i \in Ahead : batch[i].key = k => i <= j
    BY <2>1 DEF Replayed
  <2> HIDE DEF Value, LastWith
  <2>3. CASE dbtype = "LevelDB"
    <3>1. /\ gpc'[c] = "log"
          /\ db' = [x \in Keys |-> IF \E j \in DOMAIN batch : batch[j].key = x
                                   THEN Value(batch[LastWith(x)]) ELSE db[x]]
      BY <2>3 DEF PutBatch, IInv, TypeOK
    <3>2. Ahead = {} /\ Ahead' = DOMAIN batch
      BY <1>2, <1>5, <2>3, <3>1
    <3>3. CASE \E j \in DOMAIN batch : batch[j].key = k
      <4>1. db'[k] = Value(batch[LastWith(k)])
        BY <3>1, <3>3
      <4>. QED BY <3>2, <3>3, <4>1, LastWithIs DEF IInv
    <3>4. CASE ~\E j \in DOMAIN batch : batch[j].key = k
      <4>1. db'[k] = db[k]
        BY <3>1, <3>4
      <4>. QED BY <1>6, <2>2, <3>2, <3>4, <4>1
    <3>. QED BY <3>3, <3>4
  <2>4. CASE dbtype = "CuckooDB" /\ ~Stored
    <3>1. /\ gpc'[c] = "put" /\ ki' = ki + 1
          /\ db' = [db EXCEPT ![batch[ki].key] = Value(batch[ki])]
      BY <1>1, <2>4 DEF PutBatch
    <3>2. ki \in DOMAIN batch /\ ki \in Nat
      BY <1>2, <2>4 DEF Stored
    <3>3. Ahead' = Ahead \cup {ki} /\ \A j \in Ahead : j < ki
      BY <1>2, <1>5, <3>1, <3>2
    <3>4. CASE batch[ki].key = k
      <4>1. db'[k] = Value(batch[ki])
        BY <3>1, <3>4 DEF IInv, TypeOK
      <4>2. \A i \in Ahead' : i <= ki
        BY <1>2, <1>5, <3>2, <3>3
      <4>. QED BY <3>3, <3>4, <4>1, <4>2
    <3>5. CASE batch[ki].key # k
      <4>1. db'[k] = db[k]
        BY <3>1, <3>5 DEF IInv, TypeOK
      <4>. QED BY <1>6, <2>2, <3>3, <3>5, <4>1
    <3>. QED BY <3>4, <3>5
  <2>5. CASE dbtype = "CuckooDB" /\ Stored
    <3>1. gpc'[c] = "log" /\ UNCHANGED <<db, ki>>
      BY <2>5 DEF PutBatch, IInv, TypeOK
    <3>2. Ahead' = Ahead
      BY <1>2, <1>5, <2>5, <3>1 DEF Stored
    <3>. QED BY <1>6, <2>2, <3>1, <3>2
  <2>. QED BY <2>3, <2>4, <2>5 DEF IInv, TypeOK
<1>. QED BY <1>4, <1>7

\* What a leader writes into the log: its batch, behind all that is there.
Entry(j) == [off |-> offset_ + BatchLength[j - 1], rec |-> batch[j]]

LEMMA LogIs ==
  ASSUME IInv, Logged, NEW c \in Clients, LogBatch(c), offset_ < PREALLOCATE_SIZE
  PROVE  /\ DOMAIN batch = 1 .. Len(batch)
         /\ Issued' = Issued \cup {Entry(j) : j \in DOMAIN batch}
         /\ offset_' \in Nat /\ offset_ <= offset_'
         /\ \A j \in DOMAIN batch : /\ Entry(j).off \in Nat /\ Entry(j).rec = batch[j]
                                    /\ offset_ <= Entry(j).off
                                    /\ Entry(j).off + batch[j].len <= offset_'
         /\ \A i, j \in DOMAIN batch : i <= j => Entry(i).off <= Entry(j).off
<1> DEFINE n == Len(batch)
           d == [i \in Nat |-> batch[i].len]
<1>1. gpc[c] = "log" /\ gpc[c] \in Leading
  BY DEF LogBatch, Leading
<1>2. DOMAIN batch = 1 .. n /\ n \in Nat /\ offset_ \in Nat
  BY DEF IInv, TypeOK, Logged
<1>3. \A i \in 1 .. n : d[i] \in Nat \ {0} /\ d[i] = batch[i].len
  BY <1>1, <1>2, BatchIs
<1>4. /\ \A i \in 0 .. n : BatchLength[i] \in Nat
      /\ \A i \in 1 .. n : BatchLength[i] = BatchLength[i - 1] + d[i]
      /\ \A i, j \in 0 .. n : i < j => BatchLength[i] < BatchLength[j]
      /\ BatchLength[0] = 0
  <2> HIDE DEF d, n
  <2>. QED BY <1>2, <1>3, BatchLengthIs, SumGrows DEF d
<1>5. /\ offset_' = NextPos(offset_, BatchLength[n])
      /\ gpc[c] = "log"
  BY DEF LogBatch, batch_length
<1>6. Issued' = Issued \cup {Entry(j) : j \in DOMAIN batch}
  <2> DEFINE entries == {Entry(j) : j \in DOMAIN batch}
             whole(m) == {e \in entries : e.off + e.rec.len <= offset_ + m}
             kept(m) == {e \in log : e.off + e.rec.len <= offset_ \/ offset_ + m <= e.off}
  <2>1. \E m \in 0 .. BatchLength[n] : /\ log' = kept(m) \cup whole(m)
                                       /\ lost' = lost \cup (entries \ whole(m))
    BY DEF LogBatch, batch_length, Entry
  <2>2. PICK m : log' = kept(m) \cup whole(m) /\ lost' = lost \cup (entries \ whole(m))
    BY <2>1
  <2>3. kept(m) = log
    BY DEF Logged, Issued
  <2>4. whole(m) \subseteq entries
    OBVIOUS
  <2> HIDE DEF entries, whole, kept
  <2>5. log' \cup lost' = (log \cup lost) \cup entries
    BY <2>2, <2>3, <2>4
  <2>. QED BY <2>5 DEF Issued, entries
<1>7. offset_' = offset_ + BatchLength[n] /\ n \in 0 .. n
  BY <1>2, <1>5 DEF NextPos
<1>8. ASSUME NEW j \in DOMAIN batch
      PROVE  /\ Entry(j).off = offset_ + BatchLength[j - 1] /\ Entry(j).rec = batch[j]
             /\ j - 1 \in 0 .. n /\ j \in 0 .. n /\ j \in 1 .. n
  BY <1>2 DEF Entry
<1>9. ASSUME NEW j \in DOMAIN batch
      PROVE  /\ Entry(j).off \in Nat /\ offset_ <= Entry(j).off
             /\ Entry(j).off + batch[j].len <= offset_'
  <2>1. BatchLength[j - 1] \in Nat /\ BatchLength[j] = BatchLength[j - 1] + batch[j].len
    BY <1>3, <1>4, <1>8
  <2>2. batch[j].len \in Nat /\ BatchLength[n] \in Nat /\ BatchLength[j] \in Nat
    BY <1>2, <1>3, <1>4, <1>7, <1>8
  <2>3. j < n => BatchLength[j] < BatchLength[n]
    BY <1>4, <1>7, <1>8
  <2>4. BatchLength[j] <= BatchLength[n]
    BY <1>2, <2>2, <2>3
  <2>5. Entry(j).off = offset_ + BatchLength[j - 1]
    BY <1>8
  <2> DEFINE b == BatchLength[j - 1]
             l == batch[j].len
             z == BatchLength[n]
  <2>6. b \in Nat /\ l \in Nat /\ z \in Nat /\ b + l <= z
    BY <2>1, <2>2, <2>4
  <2>7. offset_' = offset_ + z /\ Entry(j).off = offset_ + b
    BY <1>7, <2>5
  <2> HIDE DEF b, l, z
  <2>8. Entry(j).off \in Nat /\ offset_ <= Entry(j).off /\ Entry(j).off + l <= offset_'
    BY <1>2, <2>6, <2>7
  <2>. QED BY <2>8 DEF l
<1>10. ASSUME NEW i \in DOMAIN batch, NEW j \in DOMAIN batch, i <= j
       PROVE  Entry(i).off <= Entry(j).off
  <2>1. BatchLength[i - 1] <= BatchLength[j - 1] /\ BatchLength[i - 1] \in Nat /\ BatchLength[j - 1] \in Nat
    BY <1>2, <1>4, <1>8, <1>10
  <2>. QED BY <1>2, <1>8, <2>1
<1>11. offset_' \in Nat /\ offset_ <= offset_'
  BY <1>2, <1>4, <1>7
<1>. QED BY <1>2, <1>6, <1>8, <1>9, <1>10, <1>11

LEMMA LogLogged ==
  ASSUME IInv, Logged, Replayed, NEW c \in Clients, LogBatch(c), offset_ < PREALLOCATE_SIZE
  PROVE  Logged' /\ Replayed'
<1>1. /\ DOMAIN batch = 1 .. Len(batch)
      /\ Issued' = Issued \cup {Entry(j) : j \in DOMAIN batch}
      /\ offset_' \in Nat /\ offset_ <= offset_'
      /\ \A j \in DOMAIN batch : /\ Entry(j).off \in Nat /\ Entry(j).rec = batch[j]
                                 /\ offset_ <= Entry(j).off
                                 /\ Entry(j).off + batch[j].len <= offset_'
      /\ \A i, j \in DOMAIN batch : i <= j => Entry(i).off <= Entry(j).off
  BY LogIs
<1> HIDE DEF Entry
<1>2. UNCHANGED <<req, done, acked, batch, ki, db, failed>> /\ gpc[c] = "log"
  BY DEF LogBatch, clientVars, mailVars
<1>3. /\ gpc'[c] = "finish"
      /\ \A d \in Clients : d # c => gpc'[d] = gpc[d] /\ gpc[d] \notin Leading
  <2>1. \A d \in Clients : d # c => gpc[d] \notin Leading
    BY <1>2, OneLeader DEF Active, Leading
  <2>. QED BY <1>2, <2>1 DEF LogBatch, IInv, TypeOK
<1>4. /\ offset_ \in Nat
      /\ \A e \in Issued : e.off \in Nat /\ e.rec \in Recs /\ e.off + e.rec.len <= offset_ /\ e.rec.len \in Nat
  BY ConstantsOK DEF Logged, Recs
<1>5. \A j \in DOMAIN batch : batch[j] \in Recs
  BY DEF IInv, TypeOK
<1>6. Logged'
  <2>1. \A e \in Issued' : e.off \in Nat /\ e.rec \in Recs /\ e.off + e.rec.len <= offset_'
    <3> SUFFICES ASSUME NEW e \in Issued'
                 PROVE  e.off \in Nat /\ e.rec \in Recs /\ e.off + e.rec.len <= offset_'
      OBVIOUS
    <3>1. CASE e \in Issued
      BY <1>1, <1>4, <3>1
    <3>2. CASE e \notin Issued
      <4>1. PICK j \in DOMAIN batch : e = Entry(j)
        BY <1>1, <3>2
      <4>. QED BY <1>1, <1>5, <4>1
    <3>. QED BY <3>1, <3>2
  <2>2. \A r : InLog(r) => InLog(r)'
    BY <1>1 DEF InLog
  <2>3. \A j \in DOMAIN batch : InLog(batch[j])'
    <3> SUFFICES ASSUME NEW j \in DOMAIN batch PROVE \E e \in Issued' : e.rec = batch'[j]
      BY DEF InLog
    <3>. QED BY <1>1, <1>2
  <2>4. \A r \in acked' : InLog(r)'
    BY <1>2, <2>2 DEF Logged
  <2>5. \A d \in Clients : done'[d] /\ gpc'[d] = "wait" => InLog(Request(d))'
    <3> SUFFICES ASSUME NEW d \in Clients, done'[d], gpc'[d] = "wait"
                 PROVE  \E e \in Issued' : e.rec = req'[d].rec
      BY DEF InLog, Request
    <3>1. InLog(Request(d))
      BY <1>2, <1>3 DEF Logged
    <3>. QED BY <1>1, <1>2, <3>1 DEF InLog, Request
  <2>6. \A d \in Clients : gpc'[d] = "finish" => \A j \in DOMAIN batch' : InLog(batch[j])'
    BY <1>2, <2>3
  <2>. QED BY <1>1, <2>1, <2>4, <2>5, <2>6 DEF Logged
<1>7. Ahead = DOMAIN batch /\ Ahead' = {}
  BY <1>2, <1>3 DEF Ahead, Leading
<1>8. Replayed'
  <2> SUFFICES ASSUME ~failed, NEW k \in Keys PROVE ReplaysTo(k, db[k])'
    BY <1>2, <1>7 DEF Replayed
  <2>1. \/ (\A j \in DOMAIN batch : batch[j].key # k) /\ ReplaysTo(k, db[k])
        \/ \E j \in DOMAIN batch : /\ batch[j].key = k /\ db[k] = Value(batch[j])
                                   /\ \A i \in DOMAIN batch : batch[i].key = k => i <= j
    BY <1>7 DEF Replayed
  <2> HIDE DEF Value
  <2> DEFINE E == {e \in Issued : e.rec.key = k}
             F == {e \in Issued' : e.rec.key = k}
  <2>2. ReplaysTo(k, db[k])' <=> IF F = {} THEN db[k] = None
                                 ELSE \E e \in F : (\A f \in F : f.off <= e.off) /\ db[k] = Value(e.rec)
    BY <1>2, Zenon DEF ReplaysTo
  <2>3. CASE (\A j \in DOMAIN batch : batch[j].key # k) /\ ReplaysTo(k, db[k])
    <3>1. F = E
      BY <1>1, <2>3
    <3>2. IF E = {} THEN db[k] = None
          ELSE \E e \in E : (\A f \in E : f.off <= e.off) /\ db[k] = Value(e.rec)
      BY <2>3, Zenon DEF ReplaysTo
    <3> HIDE DEF E, F
    <3>. QED BY <2>2, <3>1, <3>2
  <2>4. CASE \E j \in DOMAIN batch : /\ batch[j].key = k /\ db[k] = Value(batch[j])
                                     /\ \A i \in DOMAIN batch : batch[i].key = k => i <= j
    <3>1. PICK j \in DOMAIN batch : /\ batch[j].key = k /\ db[k] = Value(batch[j])
                                    /\ \A i \in DOMAIN batch : batch[i].key = k => i <= j
      BY <2>4
    <3>2. Entry(j) \in F /\ db[k] = Value(Entry(j).rec)
      BY <1>1, <3>1
    <3>3. ASSUME NEW f \in F PROVE f.off <= Entry(j).off
      <4>1. CASE f \in Issued
        BY <1>1, <1>4, <4>1
      <4>2. CASE f \notin Issued
        <5>1. PICK i \in DOMAIN batch : f = Entry(i)
          BY <1>1, <4>2
        <5>2. batch[i].key = k
          BY <1>1, <5>1
        <5>. QED BY <1>1, <3>1, <5>1, <5>2
      <4>. QED BY <4>1, <4>2
    <3> HIDE DEF F
    <3>. QED BY <2>2, <3>2, <3>3
  <2>. QED BY <2>1, <2>3, <2>4
<1>. QED BY <1>6, <1>8

\* The clerks a leader marks done have their requests in its batch.
LEMMA FinishLogged ==
  ASSUME IInv, Logged, Replayed, NEW c \in Clients, Finish(c)
  PROVE  Logged' /\ Replayed'
<1> DEFINE m == Len(batch)
           q == writers_queue
<1>1. UNCHANGED <<log, lost, offset_, db, failed, batch, ki, req>>
  BY DEF Finish, clientVars, storeVars
<1>2. /\ gpc[c] = "finish" /\ q[1] = c /\ m \in 1 .. Len(q) /\ Len(q) \in Nat
      /\ \A d \in Clients : done'[d] <=> done[d] \/ \E j \in 2 .. m : d = q[j]
      /\ gpc' = [gpc EXCEPT ![c] = "spin"]
      /\ acked' = acked \cup {Request(c)}
  BY FinishIs
<1>3. /\ gpc'[c] = "spin"
      /\ \A d \in Clients : d # c => gpc'[d] = gpc[d] /\ gpc[d] # "finish"
  <2>1. \A d \in Clients : d # c => gpc[d] # "finish"
    BY <1>2, OneLeader DEF Active
  <2>. QED BY <1>2, <2>1 DEF IInv, TypeOK
<1>4. \A j \in 1 .. m : InLog(Request(q[j]))
  <2> SUFFICES ASSUME NEW j \in 1 .. m PROVE InLog(Request(q[j]))
    OBVIOUS
  <2>1. batch[j] = Request(q[j]) /\ j \in DOMAIN batch
    BY <1>2, BatchIs DEF Leading, IInv, TypeOK
  <2>. QED BY <1>2, <2>1 DEF Logged
<1>5. \A r \in acked' : r \in acked \/ InLog(r)
  <2>1. 1 \in 1 .. m
    BY <1>2
  <2>. QED BY <1>2, <1>4, <2>1
<1>6. ASSUME NEW d \in Clients, done'[d], gpc'[d] = "wait"
      PROVE  InLog(req'[d].rec)
  <2>1. gpc[d] = "wait" /\ (done[d] \/ \E j \in 2 .. m : d = q[j])
    BY <1>2, <1>3, <1>6
  <2>2. \A j \in 2 .. m : j \in 1 .. m
    BY <1>2
  <2>. QED BY <1>1, <1>4, <2>1, <2>2 DEF Logged, Request
<1>7. Logged'
  BY <1>1, <1>3, <1>5, <1>6, LoggedKept
<1>8. Replayed'
  BY <1>1, <1>2, <1>3, ReplayedKept
<1>. QED BY <1>7, <1>8

LEMMA LogInvariance == Spec /\ []LogHasRoom => [](Logged /\ Replayed)
<1>1. ASSUME IInv, Logged, Replayed, [Next]_vars, LogHasRoom
      PROVE  Logged' /\ Replayed'
  <2>1. CASE UNCHANGED vars
    <3>1. UNCHANGED <<log, lost, offset_, db, failed, batch, ki, req, gpc, done, acked>>
      BY <2>1 DEF vars, mailVars, groupVars, storeVars
    <3>. QED BY <1>1, <3>1, LoggedKept, ReplayedKept DEF Logged, Request
  <2>2. ASSUME NEW c \in Clients, LogBatch(c)
        PROVE  Logged' /\ Replayed'
    <3>1. offset_ < PREALLOCATE_SIZE
      BY <1>1, <2>2 DEF LogHasRoom, LogBatch
    <3>. QED BY <1>1, <2>2, <3>1, LogLogged
  <2>3. ASSUME NEW c \in Clients, ClientNext(c) \/ ClerkNext(c) \/ SpuriousWake(c)
        PROVE  Logged' /\ Replayed'
    BY <1>1, <2>2, <2>3, MailLogged, EnqueueLogged, LeaveWaitLogged, BuildLogged, PutLogged, FinishLogged
       DEF ClerkNext, Wake, SpuriousWake
  <2>. QED BY <1>1, <2>1, <2>3 DEF Next
<1>. QED BY <1>1, LogInit, Invariance, PTL DEF Spec

\* Every logged request that was answered is in the log or in a write of the log
\* that failed or fell short, for any number of clerks and any batches, as long as
\* the log area is not full.
THEOREM AckedLoggedCorrect == Spec /\ []LogHasRoom => []AckedLogged
<1>1. Logged => AckedLogged
  BY DEF Logged, AckedLogged
<1>. QED BY <1>1, LogInvariance, PTL

\* As long as the log area is not full and no write of the database fails, the
\* database holds for every key the record that was written to the log last, or
\* that the last failing write should have put there, whenever no batch is under
\* way: where no write of the log failed, replaying it yields the database.
THEOREM LogReplaysCorrect == Spec /\ []LogHasRoom => []LogReplays
<1>1. Replayed => LogReplays
  <2> SUFFICES ASSUME Replayed, ~failed, \A c \in Clients : gpc[c] \notin {"put", "log"}, NEW k \in Keys
               PROVE  ReplaysTo(k, db[k])
    BY Zenon DEF LogReplays, ReplaysTo
  <2>1. Ahead = {}
    BY DEF Ahead
  <2>. QED BY <2>1 DEF Replayed
<1>. QED BY <1>1, LogInvariance, PTL
=============================================================================
