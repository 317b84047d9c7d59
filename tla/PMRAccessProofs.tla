--------------------------- MODULE PMRAccessProofs ---------------------------
(***************************************************************************)
(* Proofs about PMRAccess, for any number of clients, chunks, keys and     *)
(* operations: one lemma per conjunct of the inductive invariant, with one *)
(* step per action.                                                        *)
(***************************************************************************)
EXTENDS PMRAccess, FiniteSetTheorems, TLAPS

\* What the memcpy of a value reads is a record or torn bytes.
LEMMA LoadType ==
  ASSUME NEW m \in SUBSET Entries, NEW off, NEW len
  PROVE  Load(m, off, len) \in Vals
  BY DEF Load, Entries, Vals

\* Record lengths are natural numbers.
LEMMA LenType == Lens \subseteq Nat
  BY ConstantsOK

\* The fields a request has, by its operation.
LEMMA RequestFields ==
  ASSUME NEW r \in Requests
  PROVE  /\ r.op \in {"ALLOC", "CLOSE", "GET", "DELETE", "PUT"}
         /\ r.op \in {"GET", "DELETE"} => r.key \in Keys
         /\ r.op = "PUT" => r.rec \in Recs
  BY DEF Requests

\* The requests the clients send are requests.
LEMMA RequestTypes ==
  /\ [op |-> "ALLOC"] \in Requests
  /\ [op |-> "CLOSE"] \in Requests
  /\ \A k \in Keys : [op |-> "GET", key |-> k] \in Requests /\ [op |-> "DELETE", key |-> k] \in Requests
  /\ \A r \in Recs : [op |-> "PUT", rec |-> r] \in Requests
  BY DEF Requests

\* A one-sided write leaves records in the chunk.
LEMMA StoreInChunk ==
  ASSUME NEW m \in SUBSET Entries, NEW off \in Nat, NEW r \in Recs
  PROVE  Store(m, off, r) \in SUBSET Entries
  BY DEF Store, Entries

(* What the common parts of the actions do to the types. *)

\* Sending a request keeps the types of the message buffers.
LEMMA CallTypes ==
  ASSUME MailTypes, NEW c \in Clients, NEW r \in Requests, Call(c, r)
  PROVE  MailTypes'
  BY DEF MailTypes, Call

\* Answering a request keeps the type of the replies.
LEMMA ReplyTypes ==
  ASSUME MailTypes, NEW c \in Clients, NEW s \in {"OK", "NOTFOUND"},
         NEW v \in Vals \cup {None}, NEW ch \in Chunks \cup {None}, Reply(c, s, v, ch)
  PROVE  rep' \in [Clients -> Replies \cup {None}]
<1>1. [status |-> s, res |-> v, chunk |-> ch] \in Replies
  BY DEF Replies
<1> QED
  BY <1>1 DEF MailTypes, Reply

\* The second half of SendWrite keeps the types of what it changes.
LEMMA WriteTypes ==
  ASSUME ClientTypes, MailTypes, StoreTypes, NEW c \in Clients, NEW r \in Recs,
         NEW cur \in Cursors, WriteRecord(c, r, cur)
  PROVE  /\ MailTypes'
         /\ ccur' \in [Clients -> Cursors]
         /\ pend' \in [Clients -> Recs \cup {None}]
         /\ mem' \in [Chunks -> SUBSET Entries]
<1>1. MailTypes'
  BY CallTypes, RequestTypes DEF WriteRecord
<1>2. cur.head \in Nat /\ r.len \in Nat
  BY LenType DEF Cursors, Recs
<1>3. ccur' \in [Clients -> Cursors]
  <2>1. [chunk |-> cur.chunk, head |-> cur.head + r.len] \in Cursors
    BY <1>2 DEF Cursors
  <2> QED
    BY <2>1 DEF WriteRecord, ClientTypes
<1>4. pend' \in [Clients -> Recs \cup {None}]
  BY DEF WriteRecord, ClientTypes
<1>5. mem' \in [Chunks -> SUBSET Entries]
  <2>1. \A ch \in Chunks : Store(mem[ch], cur.head, r) \in SUBSET Entries
    BY <1>2, StoreInChunk DEF StoreTypes
  <2>2. mem' = [ch \in Chunks |-> IF ch = cur.chunk THEN Store(mem[ch], cur.head, r) ELSE mem[ch]]
    BY DEF WriteRecord, StoreTypes
  <2> QED
    BY <2>1, <2>2 DEF StoreTypes
<1> QED
  BY <1>1, <1>3, <1>4, <1>5

\* A write of the ring stays one when its state changes.
LEMMA InStateType ==
  ASSUME NEW it \in Writes, NEW s \in {"prep", "flight", "done"}
  PROVE  InState(it, s) \in Writes
  BY DEF Writes, InState

\* Every step keeps the types.  Connections gives the requests their fields,
\* RingBounded keeps inflight_ above 0 where Seen decrements it.
LEMMA TypeStep ==
  ASSUME TypeOK, Connections, RingBounded, IsFiniteSet(ring), Next
  PROVE  TypeOK'
<1> USE ConstantsOK
<1> USE DEF clientVars, mailVars, clerkVars, uringVars, histVars
<1>0. ClientTypes /\ MailTypes /\ ClerkTypes /\ StoreTypes /\ UringTypes
  BY DEF TypeOK
<1>1. ASSUME NEW c \in Clients, Connect(c) PROVE TypeOK'
  <2>1. ClientTypes'
    BY <1>0, <1>1 DEF Connect, ClientTypes
  <2>2. MailTypes'
    BY <1>0, <1>1, CallTypes, RequestTypes DEF Connect
  <2>3. ClerkTypes' /\ StoreTypes' /\ UringTypes'
    BY <1>0, <1>1 DEF Connect, ClerkTypes, StoreTypes, UringTypes
  <2> QED
    BY <2>1, <2>2, <2>3 DEF TypeOK
<1>2. ASSUME NEW c \in Clients, NEW k \in WriteKeys[c], NEW n \in Lens, SendWrite(c, k, n) PROVE TypeOK'
  <2> DEFINE r == [key |-> k, by |-> c, seq |-> nops[c] + 1, len |-> n]
  <2>1. r \in Recs
    BY <1>0 DEF ClientTypes, Recs
  <2>2. ClientTypes' /\ MailTypes' /\ StoreTypes'
    <3>1. CASE NeedsAlloc(ccur[c], r)
      <4>1. ClientTypes'
        BY <1>0, <1>2, <2>1, <3>1 DEF SendWrite, ClientTypes
      <4>2. MailTypes'
        BY <1>0, <1>2, <3>1, CallTypes, RequestTypes DEF SendWrite
      <4>3. StoreTypes'
        BY <1>0, <1>2, <3>1 DEF SendWrite, StoreTypes
      <4> QED
        BY <4>1, <4>2, <4>3
    <3>2. CASE ~NeedsAlloc(ccur[c], r)
      <4>1. WriteRecord(c, r, ccur[c]) /\ ccur[c] \in Cursors
        BY <1>0, <1>2, <3>2 DEF SendWrite, ClientTypes
      <4>2. /\ MailTypes'
            /\ ccur' \in [Clients -> Cursors]
            /\ pend' \in [Clients -> Recs \cup {None}]
            /\ mem' \in [Chunks -> SUBSET Entries]
        BY <1>0, <2>1, <4>1, WriteTypes
      <4>3. cpc' = [cpc EXCEPT ![c] = "call"] /\ nops' = [nops EXCEPT ![c] = @ + 1]
        BY <1>2 DEF SendWrite
      <4>5. ClientTypes'
        BY <1>0, <4>2, <4>3 DEF ClientTypes
      <4>4. StoreTypes'
        BY <1>0, <1>2, <4>2 DEF SendWrite, StoreTypes
      <4> QED
        BY <4>2, <4>4, <4>5
    <3> QED
      BY <3>1, <3>2
  <2>3. ClerkTypes' /\ UringTypes'
    BY <1>0, <1>2 DEF SendWrite, ClerkTypes, UringTypes
  <2> QED
    BY <2>2, <2>3 DEF TypeOK
<1>3. ASSUME NEW c \in Clients, NEW k \in Keys, SendGet(c, k) PROVE TypeOK'
  <2>1. ClientTypes'
    BY <1>0, <1>3 DEF SendGet, ClientTypes
  <2>2. MailTypes'
    BY <1>0, <1>3, CallTypes, RequestTypes DEF SendGet
  <2>3. ClerkTypes' /\ StoreTypes' /\ UringTypes'
    BY <1>0, <1>3 DEF SendGet, ClerkTypes, StoreTypes, UringTypes
  <2> QED
    BY <2>1, <2>2, <2>3 DEF TypeOK
<1>4. ASSUME NEW c \in Clients, NEW k \in WriteKeys[c], SendDelete(c, k) PROVE TypeOK'
  <2>1. ClientTypes'
    BY <1>0, <1>4 DEF SendDelete, ClientTypes
  <2>2. MailTypes'
    BY <1>0, <1>4, CallTypes, RequestTypes DEF SendDelete
  <2>3. ClerkTypes' /\ StoreTypes' /\ UringTypes'
    BY <1>0, <1>4 DEF SendDelete, ClerkTypes, StoreTypes, UringTypes
  <2> QED
    BY <2>1, <2>2, <2>3 DEF TypeOK
<1>5. ASSUME NEW c \in Clients, SendClose(c) PROVE TypeOK'
  <2>1. ClientTypes'
    BY <1>0, <1>5 DEF SendClose, ClientTypes
  <2>2. MailTypes'
    BY <1>0, <1>5, CallTypes, RequestTypes DEF SendClose
  <2>3. ClerkTypes' /\ StoreTypes' /\ UringTypes'
    BY <1>0, <1>5 DEF SendClose, ClerkTypes, StoreTypes, UringTypes
  <2> QED
    BY <2>1, <2>2, <2>3 DEF TypeOK
<1>6. ASSUME NEW c \in Clients, ReturnAlloc(c) PROVE TypeOK'
  <2> DEFINE cur == [chunk |-> rep[c].chunk, head |-> 0]
  <2>1. cur \in Cursors
    BY <1>0, <1>6 DEF ReturnAlloc, MailTypes, Replies, Cursors
  <2>2. ClientTypes' /\ MailTypes' /\ StoreTypes'
    <3>1. CASE pend[c] # None
      <4>1. WriteRecord(c, pend[c], cur) /\ pend[c] \in Recs
        BY <1>0, <1>6, <3>1 DEF ReturnAlloc, ClientTypes
      <4>2. /\ MailTypes'
            /\ ccur' \in [Clients -> Cursors]
            /\ pend' \in [Clients -> Recs \cup {None}]
            /\ mem' \in [Chunks -> SUBSET Entries]
        BY <1>0, <2>1, <4>1, WriteTypes
      <4>3. ClientTypes'
        BY <1>0, <1>6, <3>1, <4>2 DEF ReturnAlloc, ClientTypes
      <4>4. StoreTypes'
        BY <1>0, <1>6, <4>2 DEF ReturnAlloc, StoreTypes
      <4> QED
        BY <4>2, <4>3, <4>4
    <3>2. CASE pend[c] = None
      <4>1. ClientTypes'
        BY <1>0, <1>6, <2>1, <3>2 DEF ReturnAlloc, ClientTypes
      <4>2. MailTypes' /\ StoreTypes'
        BY <1>0, <1>6, <3>2 DEF ReturnAlloc, MailTypes, StoreTypes
      <4> QED
        BY <4>1, <4>2
    <3> QED
      BY <3>1, <3>2
  <2>3. ClerkTypes' /\ UringTypes'
    BY <1>0, <1>6 DEF ReturnAlloc, ClerkTypes, UringTypes
  <2> QED
    BY <2>2, <2>3 DEF TypeOK
<1>7. ASSUME NEW c \in Clients, Return(c) PROVE TypeOK'
  <2>1. ClientTypes'
    BY <1>0, <1>7 DEF Return, ClientTypes
  <2>2. MailTypes'
    BY <1>0, <1>7 DEF Return, MailTypes
  <2>3. ClerkTypes' /\ StoreTypes' /\ UringTypes'
    BY <1>0, <1>7 DEF Return, ClerkTypes, StoreTypes, UringTypes
  <2> QED
    BY <2>1, <2>2, <2>3 DEF TypeOK
<1>8. ASSUME NEW c \in Clients, ClerkPut(c) PROVE TypeOK'
  <2> DEFINE r == req[c].rec
  <2>1. r.len \in Lens /\ r.len \in Nat /\ r.key \in Keys
    <3>1. req[c] \in Requests /\ req[c].op = "PUT"
      BY <1>0, <1>8 DEF ClerkPut, Receive, Taken, Connections, Connection, MailTypes, ClientTypes
    <3>2. r \in Recs
      BY <3>1, RequestFields
    <3> QED
      BY <3>2, LenType DEF Recs
  <2>2. kcur[c].chunk \in Chunks /\ kcur[c].head \in Nat
    BY <1>0, <1>8 DEF ClerkPut, Receive, Taken, Connections, Connection, ClerkTypes, Cursors
  <2>3. sent' \in [Clients -> BOOLEAN] /\ rep' \in [Clients -> Replies \cup {None}]
    BY <1>0, <1>8, ReplyTypes DEF ClerkPut, Receive, Taken, MailTypes
  <2>4. MailTypes'
    BY <1>0, <1>8, <2>3 DEF ClerkPut, MailTypes
  <2>5. ClerkTypes'
    <3>1. [key |-> r.key, off |-> kcur[c].head, len |-> r.len] \in Metas
      BY <2>1, <2>2 DEF Metas
    <3>2. batch' \in [Clients -> Seq(Metas)]
      BY <1>0, <1>8, <3>1 DEF ClerkPut, ClerkTypes
    <3>3. [chunk |-> kcur[c].chunk, head |-> kcur[c].head + Length(r)] \in Cursors
      BY <2>1, <2>2 DEF Cursors, Length
    <3>4. kcur' \in [Clients -> Cursors]
      BY <1>0, <1>8, <3>3 DEF ClerkPut, ClerkTypes
    <3> QED
      BY <1>0, <1>8, <3>2, <3>4 DEF ClerkPut, ClerkTypes
  <2>6. StoreTypes'
    <3>1. [chunk |-> kcur[c].chunk, off |-> kcur[c].head, len |-> r.len] \in Locs
      BY <2>1, <2>2 DEF Locs
    <3> QED
      BY <1>0, <1>8, <3>1 DEF ClerkPut, StoreTypes
  <2>7. ClientTypes' /\ UringTypes'
    BY <1>0, <1>8 DEF ClerkPut, ClientTypes, UringTypes
  <2> QED
    BY <2>3, <2>4, <2>5, <2>6, <2>7 DEF TypeOK
<1>9. ASSUME NEW c \in Clients, ClerkGet(c) PROVE TypeOK'
  <2>1. req[c].key \in Keys
    BY <1>0, <1>9, RequestFields DEF ClerkGet, Receive, Taken, Connections, Connection, MailTypes
  <2>2. ClerkTypes'
    BY <1>0, <1>9, <2>1 DEF ClerkGet, ClerkTypes, StoreTypes, Goto, Lookup
  <2>3. MailTypes'
    BY <1>0, <1>9 DEF ClerkGet, Receive, Taken, MailTypes
  <2>4. ClientTypes' /\ StoreTypes' /\ UringTypes'
    BY <1>0, <1>9 DEF ClerkGet, ClientTypes, StoreTypes, UringTypes
  <2> QED
    BY <2>2, <2>3, <2>4 DEF TypeOK
<1>10. ASSUME NEW c \in Clients, GetCopy(c) PROVE TypeOK'
  <2>1. Load(mem[kloc[c].chunk], kloc[c].off, kloc[c].len) \in Vals
    BY <1>0, <1>10, LoadType DEF GetCopy, Connections, Connection, ClerkTypes, StoreTypes, Locs
  <2>2. rep' \in [Clients -> Replies \cup {None}]
    BY <1>0, <1>10, <2>1, ReplyTypes DEF GetCopy
  <2>3. MailTypes'
    BY <1>0, <1>10, <2>2 DEF GetCopy, MailTypes
  <2>4. ClerkTypes'
    BY <1>0, <1>10 DEF GetCopy, ClerkTypes, Goto
  <2>5. ClientTypes' /\ StoreTypes' /\ UringTypes'
    BY <1>0, <1>10 DEF GetCopy, ClientTypes, StoreTypes, UringTypes
  <2> QED
    BY <2>2, <2>3, <2>4, <2>5 DEF TypeOK
<1>11. ASSUME NEW c \in Clients, GetDb(c) PROVE TypeOK'
  <2>1. req[c].key \in Keys
    BY <1>0, <1>11, RequestFields DEF GetDb, Connections, Connection, MailTypes, ClientTypes
  <2>2. rep' \in [Clients -> Replies \cup {None}]
    BY <1>0, <1>11, <2>1, ReplyTypes DEF GetDb, StoreTypes
  <2>3. MailTypes'
    BY <1>0, <1>11, <2>2 DEF GetDb, MailTypes
  <2>4. ClerkTypes'
    BY <1>0, <1>11 DEF GetDb, ClerkTypes, Goto
  <2>5. ClientTypes' /\ StoreTypes' /\ UringTypes'
    BY <1>0, <1>11 DEF GetDb, ClientTypes, StoreTypes, UringTypes
  <2> QED
    BY <2>2, <2>3, <2>4, <2>5 DEF TypeOK
<1>12. ASSUME NEW c \in Clients, ClerkDelete(c) PROVE TypeOK'
  <2>1. rep' \in [Clients -> Replies \cup {None}]
    BY <1>0, <1>12, ReplyTypes DEF ClerkDelete
  <2>2. MailTypes'
    BY <1>0, <1>12, <2>1 DEF ClerkDelete, Receive, Taken, MailTypes
  <2>3. StoreTypes'
    BY <1>0, <1>12 DEF ClerkDelete, StoreTypes
  <2>4. ClientTypes' /\ ClerkTypes' /\ UringTypes'
    BY <1>0, <1>12 DEF ClerkDelete, ClientTypes, ClerkTypes, UringTypes
  <2> QED
    BY <2>1, <2>2, <2>3, <2>4 DEF TypeOK
<1>13. ASSUME NEW c \in Clients, ClerkAlloc(c) PROVE TypeOK'
  <2>1. kcur[c].chunk # None => kcur[c].chunk \in Chunks
    BY <1>0 DEF ClerkTypes, Cursors
  <2>2. MailTypes'
    BY <1>0, <1>13 DEF ClerkAlloc, Receive, Taken, MailTypes
  <2>3. ClerkTypes'
    <3>1. kpc' \in [Clients -> {"spin", "copy", "dbget", "putbatch", "erase", "alloc", "recv", "exit"}]
      BY <1>0, <1>13 DEF ClerkAlloc, StartFlush, Goto, ClerkTypes
    <3>2. tmp' \in [Clients -> SUBSET Entries]
      <4>1. CASE UNCHANGED tmp
        BY <1>0, <4>1 DEF ClerkTypes
      <4>2. CASE kcur[c].chunk \in Chunks /\ tmp' = [tmp EXCEPT ![c] = mem[kcur[c].chunk]]
        <5>1. mem[kcur[c].chunk] \in SUBSET Entries
          BY <1>0, <4>2 DEF StoreTypes
        <5> QED
          BY <1>0, <4>2, <5>1 DEF ClerkTypes
      <4> QED
        BY <1>13, <2>1, <4>1, <4>2 DEF ClerkAlloc, StartFlush
    <3>3. ki' = ki \/ ki' = [ki EXCEPT ![c] = 1]
      BY <1>13 DEF ClerkAlloc, StartFlush
    <3>4. ki' \in [Clients -> Nat]
      <4>1. CASE ki' = ki
        BY <1>0, <4>1 DEF ClerkTypes
      <4>2. CASE ki' = [ki EXCEPT ![c] = 1]
        BY <1>0, <4>2 DEF ClerkTypes
      <4> QED
        BY <3>3, <4>1, <4>2
    <3> QED
      BY <1>0, <1>13, <3>1, <3>2, <3>4 DEF ClerkAlloc, ClerkTypes
  <2>4. ClientTypes' /\ StoreTypes' /\ UringTypes'
    BY <1>0, <1>13 DEF ClerkAlloc, ClientTypes, StoreTypes, UringTypes
  <2> QED
    BY <2>2, <2>3, <2>4 DEF TypeOK
<1>14. ASSUME NEW c \in Clients, ClerkClose(c) PROVE TypeOK'
  <2>1. NeedsFlush(kcur[c]) => kcur[c].chunk \in Chunks
    BY <1>0 DEF NeedsFlush, Connections, Connection, ClerkTypes, Cursors
  <2>2. MailTypes'
    BY <1>0, <1>14 DEF ClerkClose, Receive, Taken, MailTypes
  <2>3. ClerkTypes'
    <3>1. kpc' \in [Clients -> {"spin", "copy", "dbget", "putbatch", "erase", "alloc", "recv", "exit"}]
      BY <1>0, <1>14 DEF ClerkClose, StartFlush, Goto, ClerkTypes
    <3>2. tmp' \in [Clients -> SUBSET Entries]
      <4>1. CASE UNCHANGED tmp
        BY <1>0, <4>1 DEF ClerkTypes
      <4>2. CASE kcur[c].chunk \in Chunks /\ tmp' = [tmp EXCEPT ![c] = mem[kcur[c].chunk]]
        <5>1. mem[kcur[c].chunk] \in SUBSET Entries
          BY <1>0, <4>2 DEF StoreTypes
        <5> QED
          BY <1>0, <4>2, <5>1 DEF ClerkTypes
      <4> QED
        BY <1>14, <2>1, <4>1, <4>2 DEF ClerkClose, StartFlush
    <3>3. ki' = ki \/ ki' = [ki EXCEPT ![c] = 1]
      BY <1>14 DEF ClerkClose, StartFlush
    <3>4. ki' \in [Clients -> Nat]
      <4>1. CASE ki' = ki
        BY <1>0, <4>1 DEF ClerkTypes
      <4>2. CASE ki' = [ki EXCEPT ![c] = 1]
        BY <1>0, <4>2 DEF ClerkTypes
      <4> QED
        BY <3>3, <4>1, <4>2
    <3> QED
      BY <1>0, <1>14, <3>1, <3>2, <3>4 DEF ClerkClose, ClerkTypes
  <2>4. ClientTypes' /\ StoreTypes' /\ UringTypes'
    BY <1>0, <1>14 DEF ClerkClose, ClientTypes, StoreTypes, UringTypes
  <2> QED
    BY <2>2, <2>3, <2>4 DEF TypeOK
<1>15. ASSUME NEW c \in Clients, PutBatch(c) PROVE TypeOK'
  <2>1. \A i : BatchValue(c, i) \in Vals
    BY <1>0, LoadType DEF BatchValue, ClerkTypes
  <2>2. ClerkTypes'
    <3>1. kpc' \in [Clients -> {"spin", "copy", "dbget", "putbatch", "erase", "alloc", "recv", "exit"}]
      BY <1>0, <1>15 DEF PutBatch, Goto, ClerkTypes
    <3>2. ki' = ki \/ ki' = [ki EXCEPT ![c] = 1] \/ ki' = [ki EXCEPT ![c] = @ + 1]
      BY <1>15 DEF PutBatch
    <3>3. ki' \in [Clients -> Nat]
      <4>1. CASE ki' = ki
        BY <1>0, <4>1 DEF ClerkTypes
      <4>2. CASE ki' = [ki EXCEPT ![c] = 1]
        BY <1>0, <4>2 DEF ClerkTypes
      <4>3. CASE ki' = [ki EXCEPT ![c] = @ + 1]
        BY <1>0, <4>3 DEF ClerkTypes
      <4> QED
        BY <3>2, <4>1, <4>2, <4>3
    <3> QED
      BY <1>0, <1>15, <3>1, <3>3 DEF PutBatch, ClerkTypes
  <2>3. StoreTypes'
    <3>1. \/ db' = [k \in Keys |-> IF \E i \in DOMAIN batch[c] : batch[c][i].key = k
                               THEN BatchValue(c, LastWith(c, k)) ELSE db[k]]
          \/ db' = [db EXCEPT ![batch[c][ki[c]].key] = BatchValue(c, ki[c])]
          \/ db' = db
      BY <1>15 DEF PutBatch
    <3>2. db' \in [Keys -> Vals \cup {None}]
      <4>1. CASE db' = [k \in Keys |-> IF \E i \in DOMAIN batch[c] : batch[c][i].key = k
                                      THEN BatchValue(c, LastWith(c, k)) ELSE db[k]]
        BY <1>0, <2>1, <4>1 DEF StoreTypes
      <4>2. CASE db' = [db EXCEPT ![batch[c][ki[c]].key] = BatchValue(c, ki[c])]
        BY <1>0, <2>1, <4>2 DEF StoreTypes
      <4>3. CASE db' = db
        BY <1>0, <4>3 DEF StoreTypes
      <4> QED
        BY <3>1, <4>1, <4>2, <4>3
    <3> QED
      BY <1>0, <1>15, <3>2 DEF PutBatch, StoreTypes
  <2>4. ClientTypes' /\ MailTypes' /\ UringTypes'
    BY <1>0, <1>15 DEF PutBatch, ClientTypes, MailTypes, UringTypes
  <2> QED
    BY <2>2, <2>3, <2>4 DEF TypeOK
<1>16. ASSUME NEW c \in Clients, Erase(c) PROVE TypeOK'
  <2>1. ClerkTypes'
    BY <1>0, <1>16 DEF Erase, ClerkTypes
  <2>2. StoreTypes'
    BY <1>0, <1>16 DEF Erase, StoreTypes
  <2>3. ClientTypes' /\ MailTypes' /\ UringTypes'
    BY <1>0, <1>16 DEF Erase, ClientTypes, MailTypes, UringTypes
  <2> QED
    BY <2>1, <2>2, <2>3 DEF TypeOK
<1>17. ASSUME NEW c \in Clients, Enqueue(c) PROVE TypeOK'
  <2>1. [buf |-> tmp[c], len |-> kcur[c].head, chunk |-> kcur[c].chunk] \in Items
    BY <1>0, <1>17 DEF Enqueue, Connections, Connection, ClerkTypes, Cursors, Items
  <2>2. ClerkTypes'
    <3>1. kpc' \in [Clients -> {"spin", "copy", "dbget", "putbatch", "erase", "alloc", "recv", "exit"}]
      BY <1>0, <1>17 DEF Enqueue, Goto, ClerkTypes
    <3>2. << >> \in Seq(Metas)
      OBVIOUS
    <3>3. batch' \in [Clients -> Seq(Metas)]
      BY <1>0, <1>17, <3>2 DEF Enqueue, ClerkTypes
    <3>4. tmp' \in [Clients -> SUBSET Entries]
      BY <1>0, <1>17 DEF Enqueue, ClerkTypes
    <3> QED
      BY <1>0, <1>17, <3>1, <3>3, <3>4 DEF Enqueue, ClerkTypes
  <2>3. StoreTypes'
    BY <1>0, <1>17, <2>1 DEF Enqueue, StoreTypes
  <2>4. ClientTypes' /\ MailTypes' /\ UringTypes'
    BY <1>0, <1>17 DEF Enqueue, ClientTypes, MailTypes, UringTypes
  <2> QED
    BY <2>2, <2>3, <2>4 DEF TypeOK
<1>18. ASSUME NEW c \in Clients, AllocChunk(c) PROVE TypeOK'
  <2>1. PICK ch \in Chunks : /\ Reply(c, "OK", None, ch)
                              /\ bit' = [bit EXCEPT ![ch] = TRUE]
                              /\ kcur' = [kcur EXCEPT ![c] = [chunk |-> ch, head |-> 0]]
    BY <1>18 DEF AllocChunk
  <2>2. rep' \in [Clients -> Replies \cup {None}]
    BY <1>0, <2>1, ReplyTypes
  <2>3. MailTypes'
    BY <1>0, <1>18, <2>2 DEF AllocChunk, MailTypes
  <2>4. ClerkTypes'
    BY <1>0, <1>18, <2>1 DEF AllocChunk, Goto, ClerkTypes, Cursors
  <2>5. StoreTypes'
    BY <1>0, <1>18, <2>1 DEF AllocChunk, StoreTypes
  <2>6. ClientTypes' /\ UringTypes'
    BY <1>0, <1>18 DEF AllocChunk, ClientTypes, UringTypes
  <2> QED
    BY <2>2, <2>3, <2>4, <2>5, <2>6 DEF TypeOK
<1>19. ASSUME NEW c \in Clients, CloseHandshake(c) PROVE TypeOK'
  <2>1. ClientTypes'
    BY <1>0, <1>19 DEF CloseHandshake, ClientTypes
  <2>2. ClerkTypes'
    BY <1>0, <1>19 DEF CloseHandshake, Goto, ClerkTypes
  <2>3. MailTypes' /\ StoreTypes' /\ UringTypes'
    BY <1>0, <1>19 DEF CloseHandshake, MailTypes, StoreTypes, UringTypes
  <2> QED
    BY <2>1, <2>2, <2>3 DEF TypeOK
<1>20. ASSUME UringDequeue PROVE TypeOK'
  <2>1. PICK c \in Clients :
          /\ queue[c] # << >>
          /\ ring' = ring \cup {[buf |-> Head(queue[c]).buf, len |-> Head(queue[c]).len,
                                 chunk |-> Head(queue[c]).chunk, pos |-> offset, st |-> "prep"]}
          /\ queue' = [queue EXCEPT ![c] = Tail(@)]
          /\ offset' = offset + Head(queue[c]).len
    BY <1>20 DEF UringDequeue
  <2>2. Head(queue[c]) \in Items /\ Tail(queue[c]) \in Seq(Items)
    BY <1>0, <2>1 DEF StoreTypes
  <2>3. UringTypes'
    <3>1. [buf |-> Head(queue[c]).buf, len |-> Head(queue[c]).len,
           chunk |-> Head(queue[c]).chunk, pos |-> offset, st |-> "prep"] \in Writes
      BY <1>0, <2>2 DEF UringTypes, Writes, Items
    <3>2. offset' \in Nat
      BY <1>0, <2>1, <2>2 DEF UringTypes, Items
    <3> QED
      BY <1>0, <1>20, <2>1, <3>1, <3>2 DEF UringDequeue, UringTypes
  <2>4. StoreTypes'
    BY <1>0, <1>20, <2>1, <2>2 DEF UringDequeue, StoreTypes
  <2>5. ClientTypes' /\ MailTypes' /\ ClerkTypes'
    BY <1>0, <1>20 DEF UringDequeue, ClientTypes, MailTypes, ClerkTypes
  <2> QED
    BY <2>3, <2>4, <2>5 DEF TypeOK
<1>21. ASSUME UringSubmit PROVE TypeOK'
  <2>1. \A it \in ring : InState(it, IF it.st = "prep" THEN "flight" ELSE it.st) \in Writes
    BY <1>0, InStateType DEF UringTypes, Writes
  <2>2. UringTypes'
    BY <1>0, <1>21, <2>1 DEF UringSubmit, UringTypes
  <2>3. ClientTypes' /\ MailTypes' /\ ClerkTypes' /\ StoreTypes'
    BY <1>0, <1>21 DEF UringSubmit, ClientTypes, MailTypes, ClerkTypes, StoreTypes
  <2> QED
    BY <2>2, <2>3 DEF TypeOK
<1>22. ASSUME NEW it \in ring, WriteDone(it) PROVE TypeOK'
  <2>1. ring' \in SUBSET Writes
    BY <1>0, <1>22, InStateType DEF WriteDone, Complete, UringTypes
  <2>2. log' \in SUBSET Entries
    BY <1>0, <1>22 DEF WriteDone, UringTypes, Writes, Entries
  <2>3. UringTypes'
    BY <1>0, <1>22, <2>1, <2>2 DEF WriteDone, UringTypes
  <2>4. ClientTypes' /\ MailTypes' /\ ClerkTypes' /\ StoreTypes'
    BY <1>0, <1>22 DEF WriteDone, ClientTypes, MailTypes, ClerkTypes, StoreTypes
  <2> QED
    BY <2>1, <2>2, <2>3, <2>4 DEF TypeOK
<1>23. ASSUME NEW it \in ring, WriteFailed(it) PROVE TypeOK'
  <2>1. ring' \in SUBSET Writes
    BY <1>0, <1>23, InStateType DEF WriteFailed, Complete, UringTypes
  <2>2. UringTypes'
    BY <1>0, <1>23, <2>1 DEF WriteFailed, UringTypes
  <2>3. ClientTypes' /\ MailTypes' /\ ClerkTypes' /\ StoreTypes'
    BY <1>0, <1>23 DEF WriteFailed, ClientTypes, MailTypes, ClerkTypes, StoreTypes
  <2> QED
    BY <2>1, <2>2, <2>3 DEF TypeOK
<1>24. ASSUME UringFree PROVE TypeOK'
  <2>1. inflight - 1 \in Nat
    BY <1>0, <1>24, FS_EmptySet, FS_CardinalityType DEF UringFree, RingBounded
  <2>2. UringTypes'
    BY <1>0, <1>24, <2>1 DEF UringFree, Seen, UringTypes
  <2>3. StoreTypes'
    BY <1>0, <1>24 DEF UringFree, FreeChunk, StoreTypes
  <2>4. ClientTypes' /\ MailTypes' /\ ClerkTypes'
    BY <1>0, <1>24 DEF UringFree, ClientTypes, MailTypes, ClerkTypes
  <2> QED
    BY <2>2, <2>3, <2>4 DEF TypeOK
<1> QED
  BY <1>1, <1>2, <1>3, <1>4, <1>5, <1>6, <1>7, <1>8, <1>9, <1>10, <1>11, <1>12,
     <1>13, <1>14, <1>15, <1>16, <1>17, <1>18, <1>19, <1>20, <1>21, <1>22, <1>23, <1>24
  DEF Next, ClientNext, ClerkNext, UringNext, KernelNext

\* Every step keeps the protocol of the header words.
LEMMA ConnectionsStep ==
  ASSUME TypeOK, Connections, Next
  PROVE  Connections'
<1> USE ConstantsOK
<1> USE DEF clientVars, mailVars, clerkVars, uringVars, histVars
<1>0. Connections /\ ClientTypes /\ MailTypes /\ ClerkTypes
  BY DEF TypeOK
<1>1. ASSUME NEW c \in Clients, Connect(c) PROVE Connections'
  <2>1. ASSUME NEW d \in Clients, d # c PROVE Connection(d)'
    BY <1>0, <1>1, <2>1 DEF Connect, Call, Connections, Connection, ClientTypes, MailTypes, ClerkTypes
  <2>4. req'[c] # None
    BY <1>0, <1>1, RequestTypes DEF Connect, Call, Connections, Connection, MailTypes
  <2>2. Connection(c)'
    BY <1>0, <1>1, <2>4 DEF Connect, Call, Connections, Connection, ClientTypes, MailTypes, ClerkTypes
  <2> QED
    BY <2>1, <2>2 DEF Connections
<1>2. ASSUME NEW c \in Clients, NEW k \in WriteKeys[c], NEW n \in Lens, SendWrite(c, k, n) PROVE Connections'
  <2>1. ASSUME NEW d \in Clients, d # c PROVE Connection(d)'
    BY <1>0, <1>2, <2>1 DEF SendWrite, WriteRecord, Call, Connections, Connection, ClientTypes, MailTypes, ClerkTypes
  <2> DEFINE r == [key |-> k, by |-> c, seq |-> nops[c] + 1, len |-> n]
  <2>3. r \in Recs
    BY <1>0 DEF ClientTypes, Recs
  <2>4. req'[c] # None
    BY <1>0, <1>2, <2>3, RequestTypes DEF SendWrite, WriteRecord, Call, Connections, Connection, MailTypes
  <2>2. Connection(c)'
    BY <1>0, <1>2, <2>4 DEF SendWrite, WriteRecord, Call, Connections, Connection, ClientTypes, MailTypes, ClerkTypes
  <2> QED
    BY <2>1, <2>2 DEF Connections
<1>3. ASSUME NEW c \in Clients, NEW k \in Keys, SendGet(c, k) PROVE Connections'
  <2>1. ASSUME NEW d \in Clients, d # c PROVE Connection(d)'
    BY <1>0, <1>3, <2>1 DEF SendGet, Call, Connections, Connection, ClientTypes, MailTypes, ClerkTypes
  <2>4. req'[c] # None
    BY <1>0, <1>3, RequestTypes DEF SendGet, Call, Connections, Connection, MailTypes
  <2>2. Connection(c)'
    BY <1>0, <1>3, <2>4 DEF SendGet, Call, Connections, Connection, ClientTypes, MailTypes, ClerkTypes
  <2> QED
    BY <2>1, <2>2 DEF Connections
<1>4. ASSUME NEW c \in Clients, NEW k \in WriteKeys[c], SendDelete(c, k) PROVE Connections'
  <2>1. ASSUME NEW d \in Clients, d # c PROVE Connection(d)'
    BY <1>0, <1>4, <2>1 DEF SendDelete, Call, Connections, Connection, ClientTypes, MailTypes, ClerkTypes
  <2>3. k \in Keys
    OBVIOUS
  <2>4. req'[c] # None
    BY <1>0, <1>4, <2>3, RequestTypes DEF SendDelete, Call, Connections, Connection, MailTypes
  <2>2. Connection(c)'
    BY <1>0, <1>4, <2>4 DEF SendDelete, Call, Connections, Connection, ClientTypes, MailTypes, ClerkTypes
  <2> QED
    BY <2>1, <2>2 DEF Connections
<1>5. ASSUME NEW c \in Clients, SendClose(c) PROVE Connections'
  <2>1. ASSUME NEW d \in Clients, d # c PROVE Connection(d)'
    BY <1>0, <1>5, <2>1 DEF SendClose, Call, Connections, Connection, ClientTypes, MailTypes, ClerkTypes
  <2>4. req'[c] # None
    BY <1>0, <1>5, RequestTypes DEF SendClose, Call, Connections, Connection, MailTypes
  <2>2. Connection(c)'
    BY <1>0, <1>5, <2>4 DEF SendClose, Call, Connections, Connection, ClientTypes, MailTypes, ClerkTypes
  <2> QED
    BY <2>1, <2>2 DEF Connections
<1>6. ASSUME NEW c \in Clients, ReturnAlloc(c) PROVE Connections'
  <2>1. ASSUME NEW d \in Clients, d # c PROVE Connection(d)'
    BY <1>0, <1>6, <2>1 DEF ReturnAlloc, WriteRecord, Call, Connections, Connection, ClientTypes, MailTypes, ClerkTypes
  <2>3. pend[c] # None => pend[c] \in Recs
    BY <1>0 DEF ClientTypes
  <2>4. req'[c] # None
    BY <1>0, <1>6, <2>3, RequestTypes DEF ReturnAlloc, WriteRecord, Call, Connections, Connection, MailTypes
  <2>2. Connection(c)'
    BY <1>0, <1>6, <2>4 DEF ReturnAlloc, WriteRecord, Call, Connections, Connection, ClientTypes, MailTypes, ClerkTypes
  <2> QED
    BY <2>1, <2>2 DEF Connections
<1>7. ASSUME NEW c \in Clients, Return(c) PROVE Connections'
  <2>1. ASSUME NEW d \in Clients, d # c PROVE Connection(d)'
    BY <1>0, <1>7, <2>1 DEF Return, Connections, Connection, ClientTypes, MailTypes, ClerkTypes
  <2>2. Connection(c)'
    BY <1>0, <1>7 DEF Return, Connections, Connection, ClientTypes, MailTypes, ClerkTypes
  <2> QED
    BY <2>1, <2>2 DEF Connections
<1>8. ASSUME NEW c \in Clients, ClerkPut(c) PROVE Connections'
  <2>1. ASSUME NEW d \in Clients, d # c PROVE Connection(d)'
    BY <1>0, <1>8, <2>1 DEF ClerkPut, Receive, Taken, Reply, Length, Connections, Connection, ClientTypes, MailTypes, ClerkTypes
  <2>2. Connection(c)'
    BY <1>0, <1>8 DEF ClerkPut, Receive, Taken, Reply, Length, Connections, Connection, ClientTypes, MailTypes, ClerkTypes
  <2> QED
    BY <2>1, <2>2 DEF Connections
<1>9. ASSUME NEW c \in Clients, ClerkGet(c) PROVE Connections'
  <2>1. ASSUME NEW d \in Clients, d # c PROVE Connection(d)'
    BY <1>0, <1>9, <2>1 DEF ClerkGet, Receive, Taken, Goto, Connections, Connection, ClientTypes, MailTypes, ClerkTypes
  <2>2. Connection(c)'
    BY <1>0, <1>9 DEF ClerkGet, Receive, Taken, Goto, Connections, Connection, ClientTypes, MailTypes, ClerkTypes
  <2> QED
    BY <2>1, <2>2 DEF Connections
<1>10. ASSUME NEW c \in Clients, GetCopy(c) PROVE Connections'
  <2>1. ASSUME NEW d \in Clients, d # c PROVE Connection(d)'
    BY <1>0, <1>10, <2>1 DEF GetCopy, Reply, Goto, Connections, Connection, ClientTypes, MailTypes, ClerkTypes
  <2>2. Connection(c)'
    BY <1>0, <1>10 DEF GetCopy, Reply, Goto, Connections, Connection, ClientTypes, MailTypes, ClerkTypes
  <2> QED
    BY <2>1, <2>2 DEF Connections
<1>11. ASSUME NEW c \in Clients, GetDb(c) PROVE Connections'
  <2>1. ASSUME NEW d \in Clients, d # c PROVE Connection(d)'
    BY <1>0, <1>11, <2>1 DEF GetDb, Reply, Goto, Connections, Connection, ClientTypes, MailTypes, ClerkTypes
  <2>2. Connection(c)'
    BY <1>0, <1>11 DEF GetDb, Reply, Goto, Connections, Connection, ClientTypes, MailTypes, ClerkTypes
  <2> QED
    BY <2>1, <2>2 DEF Connections
<1>12. ASSUME NEW c \in Clients, ClerkDelete(c) PROVE Connections'
  <2>1. ASSUME NEW d \in Clients, d # c PROVE Connection(d)'
    BY <1>0, <1>12, <2>1 DEF ClerkDelete, Receive, Taken, Reply, Connections, Connection, ClientTypes, MailTypes, ClerkTypes
  <2>2. Connection(c)'
    BY <1>0, <1>12 DEF ClerkDelete, Receive, Taken, Reply, Connections, Connection, ClientTypes, MailTypes, ClerkTypes
  <2> QED
    BY <2>1, <2>2 DEF Connections
<1>13. ASSUME NEW c \in Clients, ClerkAlloc(c) PROVE Connections'
  <2>1. ASSUME NEW d \in Clients, d # c PROVE Connection(d)'
    BY <1>0, <1>13, <2>1 DEF ClerkAlloc, Receive, Taken, StartFlush, Goto, Connections, Connection, ClientTypes, MailTypes, ClerkTypes
  <2>2. Connection(c)'
    BY <1>0, <1>13 DEF ClerkAlloc, Receive, Taken, StartFlush, Goto, Connections, Connection, ClientTypes, MailTypes, ClerkTypes
  <2> QED
    BY <2>1, <2>2 DEF Connections
<1>14. ASSUME NEW c \in Clients, ClerkClose(c) PROVE Connections'
  <2>1. ASSUME NEW d \in Clients, d # c PROVE Connection(d)'
    BY <1>0, <1>14, <2>1 DEF ClerkClose, Receive, Taken, StartFlush, NeedsFlush, Goto, Cursors, Connections, Connection, ClientTypes, MailTypes, ClerkTypes
  <2>2. Connection(c)'
    BY <1>0, <1>14 DEF ClerkClose, Receive, Taken, StartFlush, NeedsFlush, Goto, Cursors, Connections, Connection, ClientTypes, MailTypes, ClerkTypes
  <2> QED
    BY <2>1, <2>2 DEF Connections
<1>15. ASSUME NEW c \in Clients, PutBatch(c) PROVE Connections'
  <2>1. ASSUME NEW d \in Clients, d # c PROVE Connection(d)'
    BY <1>0, <1>15, <2>1 DEF PutBatch, Goto, Connections, Connection, ClientTypes, MailTypes, ClerkTypes
  <2>2. Connection(c)'
    BY <1>0, <1>15 DEF PutBatch, Goto, Connections, Connection, ClientTypes, MailTypes, ClerkTypes
  <2> QED
    BY <2>1, <2>2 DEF Connections
<1>16. ASSUME NEW c \in Clients, Erase(c) PROVE Connections'
  <2>1. ASSUME NEW d \in Clients, d # c PROVE Connection(d)'
    BY <1>0, <1>16, <2>1 DEF Erase, Connections, Connection, ClientTypes, MailTypes, ClerkTypes
  <2>2. Connection(c)'
    BY <1>0, <1>16 DEF Erase, Connections, Connection, ClientTypes, MailTypes, ClerkTypes
  <2> QED
    BY <2>1, <2>2 DEF Connections
<1>17. ASSUME NEW c \in Clients, Enqueue(c) PROVE Connections'
  <2>1. ASSUME NEW d \in Clients, d # c PROVE Connection(d)'
    BY <1>0, <1>17, <2>1 DEF Enqueue, Goto, Connections, Connection, ClientTypes, MailTypes, ClerkTypes
  <2>2. Connection(c)'
    BY <1>0, <1>17 DEF Enqueue, Goto, Connections, Connection, ClientTypes, MailTypes, ClerkTypes
  <2> QED
    BY <2>1, <2>2 DEF Connections
<1>18. ASSUME NEW c \in Clients, AllocChunk(c) PROVE Connections'
  <2>1. ASSUME NEW d \in Clients, d # c PROVE Connection(d)'
    BY <1>0, <1>18, <2>1 DEF AllocChunk, Reply, Goto, Connections, Connection, ClientTypes, MailTypes, ClerkTypes
  <2>2. Connection(c)'
    BY <1>0, <1>18 DEF AllocChunk, Reply, Goto, Connections, Connection, ClientTypes, MailTypes, ClerkTypes
  <2> QED
    BY <2>1, <2>2 DEF Connections
<1>19. ASSUME NEW c \in Clients, CloseHandshake(c) PROVE Connections'
  <2>1. ASSUME NEW d \in Clients, d # c PROVE Connection(d)'
    BY <1>0, <1>19, <2>1 DEF CloseHandshake, Goto, Connections, Connection, ClientTypes, MailTypes, ClerkTypes
  <2>2. Connection(c)'
    BY <1>0, <1>19 DEF CloseHandshake, Goto, Connections, Connection, ClientTypes, MailTypes, ClerkTypes
  <2> QED
    BY <2>1, <2>2 DEF Connections
<1>20. ASSUME UringDequeue PROVE Connections'
  BY <1>0, <1>20 DEF UringDequeue, Connections, Connection
<1>21. ASSUME UringSubmit PROVE Connections'
  BY <1>0, <1>21 DEF UringSubmit, Connections, Connection
<1>22. ASSUME NEW it \in ring, WriteDone(it) PROVE Connections'
  BY <1>0, <1>22 DEF WriteDone, Connections, Connection
<1>23. ASSUME NEW it \in ring, WriteFailed(it) PROVE Connections'
  BY <1>0, <1>23 DEF WriteFailed, Connections, Connection
<1>24. ASSUME UringFree PROVE Connections'
  BY <1>0, <1>24 DEF UringFree, Connections, Connection
<1> QED
  BY <1>1, <1>2, <1>3, <1>4, <1>5, <1>6, <1>7, <1>8, <1>9, <1>10, <1>11, <1>12,
     <1>13, <1>14, <1>15, <1>16, <1>17, <1>18, <1>19, <1>20, <1>21, <1>22, <1>23, <1>24
  DEF Next, ClientNext, ClerkNext, UringNext, KernelNext

(* An action that leaves the queue, the ring and the bitmap alone and gives  *)
(* no clerk a chunk keeps the ownership.                                     *)
LEMMA OwnershipKept ==
  ASSUME ChunkOwnership, UNCHANGED <<bit, queue, ring>>,
         \A c \in Clients : Holds(c)' => Holds(c) /\ kcur'[c].chunk = kcur[c].chunk
  PROVE  ChunkOwnership'
<1>1. ClerkChunks'
  <2> SUFFICES ASSUME NEW c \in Clients, Holds(c)'
               PROVE  /\ bit'[kcur'[c].chunk]
                      /\ \A d \in Clients : Holds(d)' /\ kcur'[c].chunk = kcur'[d].chunk => c = d
                      /\ \A d \in Clients : \A i \in DOMAIN queue'[d] : queue'[d][i].chunk # kcur'[c].chunk
                      /\ \A it \in ring' : it.chunk # kcur'[c].chunk
    BY DEF ClerkChunks
  <2> QED
    BY DEF ChunkOwnership, ClerkChunks
<1>2. QueueChunks' /\ RingChunks'
  BY DEF ChunkOwnership, QueueChunks, RingChunks
<1> QED
  BY <1>1, <1>2 DEF ChunkOwnership

\* A queued item names a chunk.
LEMMA QueuedChunks ==
  ASSUME StoreTypes, NEW d \in Clients, NEW i \in DOMAIN queue[d]
  PROVE  queue[d][i].chunk \in Chunks
<1>1. queue[d] \in Seq(Items)
  BY DEF StoreTypes
<1>2. queue[d][i] \in Items
  BY <1>1
<1> QED
  BY <1>2 DEF Items

\* Every step keeps the ownership of the chunks: AllocChunk takes a clear bit,
\* Enqueue and UringDequeue pass a chunk on, UringFree clears the bit of a chunk
\* that has no other owner.
LEMMA OwnershipStep ==
  ASSUME TypeOK, Connections, ChunkOwnership, Next
  PROVE  ChunkOwnership'
<1> USE ConstantsOK
<1> USE DEF clientVars, mailVars, clerkVars, uringVars, histVars
<1>0. /\ Connections /\ ClerkTypes /\ StoreTypes /\ UringTypes
      /\ ClerkChunks /\ QueueChunks /\ RingChunks
  BY DEF TypeOK, ChunkOwnership
<1>1. ASSUME NEW c \in Clients, Connect(c) PROVE ChunkOwnership'
  <2>1. UNCHANGED <<bit, queue, ring>>
    BY <1>1 DEF Connect
  <2>2. ASSUME NEW d \in Clients, Holds(d)' PROVE Holds(d) /\ kcur'[d].chunk = kcur[d].chunk
    BY <1>1, <2>2 DEF Connect, Holds
  <2> QED
    BY <2>1, <2>2, OwnershipKept
<1>2. ASSUME NEW c \in Clients, NEW k \in WriteKeys[c], NEW n \in Lens, SendWrite(c, k, n) PROVE ChunkOwnership'
  <2>1. UNCHANGED <<bit, queue, ring>>
    BY <1>2 DEF SendWrite
  <2>2. ASSUME NEW d \in Clients, Holds(d)' PROVE Holds(d) /\ kcur'[d].chunk = kcur[d].chunk
    BY <1>2, <2>2 DEF SendWrite, Holds
  <2> QED
    BY <2>1, <2>2, OwnershipKept
<1>3. ASSUME NEW c \in Clients, NEW k \in Keys, SendGet(c, k) PROVE ChunkOwnership'
  <2>1. UNCHANGED <<bit, queue, ring>>
    BY <1>3 DEF SendGet
  <2>2. ASSUME NEW d \in Clients, Holds(d)' PROVE Holds(d) /\ kcur'[d].chunk = kcur[d].chunk
    BY <1>3, <2>2 DEF SendGet, Holds
  <2> QED
    BY <2>1, <2>2, OwnershipKept
<1>4. ASSUME NEW c \in Clients, NEW k \in WriteKeys[c], SendDelete(c, k) PROVE ChunkOwnership'
  <2>1. UNCHANGED <<bit, queue, ring>>
    BY <1>4 DEF SendDelete
  <2>2. ASSUME NEW d \in Clients, Holds(d)' PROVE Holds(d) /\ kcur'[d].chunk = kcur[d].chunk
    BY <1>4, <2>2 DEF SendDelete, Holds
  <2> QED
    BY <2>1, <2>2, OwnershipKept
<1>5. ASSUME NEW c \in Clients, SendClose(c) PROVE ChunkOwnership'
  <2>1. UNCHANGED <<bit, queue, ring>>
    BY <1>5 DEF SendClose
  <2>2. ASSUME NEW d \in Clients, Holds(d)' PROVE Holds(d) /\ kcur'[d].chunk = kcur[d].chunk
    BY <1>5, <2>2 DEF SendClose, Holds
  <2> QED
    BY <2>1, <2>2, OwnershipKept
<1>6. ASSUME NEW c \in Clients, ReturnAlloc(c) PROVE ChunkOwnership'
  <2>1. UNCHANGED <<bit, queue, ring>>
    BY <1>6 DEF ReturnAlloc
  <2>2. ASSUME NEW d \in Clients, Holds(d)' PROVE Holds(d) /\ kcur'[d].chunk = kcur[d].chunk
    BY <1>6, <2>2 DEF ReturnAlloc, Holds
  <2> QED
    BY <2>1, <2>2, OwnershipKept
<1>7. ASSUME NEW c \in Clients, Return(c) PROVE ChunkOwnership'
  <2>1. UNCHANGED <<bit, queue, ring>>
    BY <1>7 DEF Return
  <2>2. ASSUME NEW d \in Clients, Holds(d)' PROVE Holds(d) /\ kcur'[d].chunk = kcur[d].chunk
    BY <1>7, <2>2 DEF Return, Holds
  <2> QED
    BY <2>1, <2>2, OwnershipKept
<1>8. ASSUME NEW c \in Clients, ClerkPut(c) PROVE ChunkOwnership'
  <2>1. UNCHANGED <<bit, queue, ring>>
    BY <1>8 DEF ClerkPut
  <2>2. ASSUME NEW d \in Clients, Holds(d)' PROVE Holds(d) /\ kcur'[d].chunk = kcur[d].chunk
    BY <1>0, <1>8, <2>2 DEF ClerkPut, Receive, Length, Holds, ClerkTypes, Cursors
  <2> QED
    BY <2>1, <2>2, OwnershipKept
<1>9. ASSUME NEW c \in Clients, ClerkGet(c) PROVE ChunkOwnership'
  <2>1. UNCHANGED <<bit, queue, ring>>
    BY <1>9 DEF ClerkGet
  <2>2. ASSUME NEW d \in Clients, Holds(d)' PROVE Holds(d) /\ kcur'[d].chunk = kcur[d].chunk
    BY <1>0, <1>9, <2>2 DEF ClerkGet, Receive, Goto, Holds, ClerkTypes, Cursors
  <2> QED
    BY <2>1, <2>2, OwnershipKept
<1>10. ASSUME NEW c \in Clients, GetCopy(c) PROVE ChunkOwnership'
  <2>1. UNCHANGED <<bit, queue, ring>>
    BY <1>10 DEF GetCopy
  <2>2. ASSUME NEW d \in Clients, Holds(d)' PROVE Holds(d) /\ kcur'[d].chunk = kcur[d].chunk
    BY <1>0, <1>10, <2>2 DEF GetCopy, Goto, Holds, ClerkTypes, Cursors
  <2> QED
    BY <2>1, <2>2, OwnershipKept
<1>11. ASSUME NEW c \in Clients, GetDb(c) PROVE ChunkOwnership'
  <2>1. UNCHANGED <<bit, queue, ring>>
    BY <1>11 DEF GetDb
  <2>2. ASSUME NEW d \in Clients, Holds(d)' PROVE Holds(d) /\ kcur'[d].chunk = kcur[d].chunk
    BY <1>0, <1>11, <2>2 DEF GetDb, Goto, Holds, ClerkTypes, Cursors
  <2> QED
    BY <2>1, <2>2, OwnershipKept
<1>12. ASSUME NEW c \in Clients, ClerkDelete(c) PROVE ChunkOwnership'
  <2>1. UNCHANGED <<bit, queue, ring>>
    BY <1>12 DEF ClerkDelete
  <2>2. ASSUME NEW d \in Clients, Holds(d)' PROVE Holds(d) /\ kcur'[d].chunk = kcur[d].chunk
    BY <1>12, <2>2 DEF ClerkDelete, Holds
  <2> QED
    BY <2>1, <2>2, OwnershipKept
<1>13. ASSUME NEW c \in Clients, ClerkAlloc(c) PROVE ChunkOwnership'
  <2>1. UNCHANGED <<bit, queue, ring>>
    BY <1>13 DEF ClerkAlloc
  <2>2. ASSUME NEW d \in Clients, Holds(d)' PROVE Holds(d) /\ kcur'[d].chunk = kcur[d].chunk
    BY <1>0, <1>13, <2>2 DEF ClerkAlloc, Receive, StartFlush, Goto, Holds, ClerkTypes, Cursors
  <2> QED
    BY <2>1, <2>2, OwnershipKept
<1>14. ASSUME NEW c \in Clients, ClerkClose(c) PROVE ChunkOwnership'
  <2>1. UNCHANGED <<bit, queue, ring>>
    BY <1>14 DEF ClerkClose
  <2>2. ASSUME NEW d \in Clients, Holds(d)' PROVE Holds(d) /\ kcur'[d].chunk = kcur[d].chunk
    BY <1>0, <1>14, <2>2 DEF ClerkClose, Receive, StartFlush, NeedsFlush, Goto, Holds, ClerkTypes, Cursors
  <2> QED
    BY <2>1, <2>2, OwnershipKept
<1>15. ASSUME NEW c \in Clients, PutBatch(c) PROVE ChunkOwnership'
  <2>1. UNCHANGED <<bit, queue, ring>>
    BY <1>15 DEF PutBatch
  <2>2. ASSUME NEW d \in Clients, Holds(d)' PROVE Holds(d) /\ kcur'[d].chunk = kcur[d].chunk
    BY <1>0, <1>15, <2>2 DEF PutBatch, Goto, Holds, ClerkTypes, Cursors
  <2> QED
    BY <2>1, <2>2, OwnershipKept
<1>16. ASSUME NEW c \in Clients, Erase(c) PROVE ChunkOwnership'
  <2>1. UNCHANGED <<bit, queue, ring>>
    BY <1>16 DEF Erase
  <2>2. ASSUME NEW d \in Clients, Holds(d)' PROVE Holds(d) /\ kcur'[d].chunk = kcur[d].chunk
    BY <1>16, <2>2 DEF Erase, Holds
  <2> QED
    BY <2>1, <2>2, OwnershipKept
<1>17. ASSUME NEW c \in Clients, CloseHandshake(c) PROVE ChunkOwnership'
  <2>1. UNCHANGED <<bit, queue, ring>>
    BY <1>17 DEF CloseHandshake
  <2>2. ASSUME NEW d \in Clients, Holds(d)' PROVE Holds(d) /\ kcur'[d].chunk = kcur[d].chunk
    BY <1>0, <1>17, <2>2 DEF CloseHandshake, Goto, Holds, ClerkTypes, Cursors
  <2> QED
    BY <2>1, <2>2, OwnershipKept
<1>18. ASSUME NEW c \in Clients, Enqueue(c) PROVE ChunkOwnership'
  <2> DEFINE it == [buf |-> tmp[c], len |-> kcur[c].head, chunk |-> kcur[c].chunk]
  <2>1. Holds(c) /\ ~Holds(c)'
    BY <1>0, <1>18 DEF Enqueue, Goto, Holds, Connections, Connection, ClerkTypes, Cursors
  <2>2. \A d \in Clients : Holds(d)' => d # c /\ Holds(d)
    BY <1>0, <1>18, <2>1 DEF Enqueue, Goto, Holds, ClerkTypes
  <2>3. /\ kcur' = kcur /\ bit' = bit /\ ring' = ring
        /\ queue' = [queue EXCEPT ![c] = Append(@, it)]
    BY <1>18 DEF Enqueue
  <2>4. \A d \in Clients : \A i \in DOMAIN queue'[d] :
          \/ i \in DOMAIN queue[d] /\ queue'[d][i] = queue[d][i]
          \/ d = c /\ i = Len(queue[c]) + 1 /\ queue'[d][i] = it
    BY <1>0, <2>3 DEF StoreTypes
  <2>5. \A d \in Clients : \A i \in DOMAIN queue[d] : queue[d][i].chunk # it.chunk
    BY <1>0, <2>1 DEF ClerkChunks
  <2>6. bit[it.chunk] /\ \A x \in ring : x.chunk # it.chunk
    BY <1>0, <2>1 DEF ClerkChunks
  <2>7. ClerkChunks'
    <3> SUFFICES ASSUME NEW d \in Clients, Holds(d)'
                 PROVE  /\ bit'[kcur'[d].chunk]
                        /\ \A e \in Clients : Holds(e)' /\ kcur'[d].chunk = kcur'[e].chunk => d = e
                        /\ \A e \in Clients : \A i \in DOMAIN queue'[e] : queue'[e][i].chunk # kcur'[d].chunk
                        /\ \A x \in ring' : x.chunk # kcur'[d].chunk
      BY DEF ClerkChunks
    <3>1. d # c /\ Holds(d)
      BY <2>2
    <3>2. it.chunk # kcur[d].chunk
      BY <1>0, <2>1, <3>1 DEF ClerkChunks
    <3>3. \A e \in Clients : \A i \in DOMAIN queue'[e] : queue'[e][i].chunk # kcur'[d].chunk
      BY <1>0, <2>3, <2>4, <3>1, <3>2 DEF ClerkChunks
    <3> QED
      BY <1>0, <2>2, <2>3, <3>1, <3>3 DEF ClerkChunks
  <2>8. QueueChunks'
    <3> SUFFICES ASSUME NEW d \in Clients, NEW i \in DOMAIN queue'[d]
                 PROVE  /\ bit'[queue'[d][i].chunk]
                        /\ \A e \in Clients : \A j \in DOMAIN queue'[e] :
                             queue'[d][i].chunk = queue'[e][j].chunk => d = e /\ i = j
                        /\ \A x \in ring' : x.chunk # queue'[d][i].chunk
      BY DEF QueueChunks
    <3>1. CASE i \in DOMAIN queue[d] /\ queue'[d][i] = queue[d][i]
      BY <1>0, <2>3, <2>4, <2>5, <3>1 DEF QueueChunks
    <3>2. CASE d = c /\ i = Len(queue[c]) + 1 /\ queue'[d][i] = it
      BY <2>3, <2>4, <2>5, <2>6, <3>2
    <3> QED
      BY <2>4, <3>1, <3>2
  <2>9. RingChunks'
    BY <1>0, <2>3 DEF RingChunks
  <2> QED
    BY <2>7, <2>8, <2>9 DEF ChunkOwnership
<1>19. ASSUME NEW c \in Clients, AllocChunk(c) PROVE ChunkOwnership'
  <2>1. PICK ch \in Chunks : /\ ~bit[ch]
                              /\ bit' = [bit EXCEPT ![ch] = TRUE]
                              /\ kcur' = [kcur EXCEPT ![c] = [chunk |-> ch, head |-> 0]]
    BY <1>19 DEF AllocChunk, Takable
  <2>2. kpc' = [kpc EXCEPT ![c] = "spin"] /\ queue' = queue /\ ring' = ring
    BY <1>19 DEF AllocChunk, Goto
  <2>3. \A d \in Clients : d # c /\ Holds(d)' => Holds(d) /\ kcur'[d] = kcur[d]
    BY <1>0, <2>1, <2>2 DEF Holds, ClerkTypes
  <2>4. kcur'[c].chunk = ch /\ bit'[ch]
    BY <1>0, <2>1 DEF ClerkTypes, StoreTypes
  <2>5. \A d \in Clients : Holds(d) => kcur[d].chunk # ch /\ kcur[d].chunk \in Chunks
    BY <1>0, <2>1 DEF ClerkChunks, Holds, ClerkTypes, Cursors
  <2>6. \A d \in Clients : \A i \in DOMAIN queue[d] : queue[d][i].chunk # ch /\ queue[d][i].chunk \in Chunks
    BY <1>0, <2>1, QueuedChunks DEF QueueChunks
  <2>7. \A it \in ring : it.chunk # ch /\ it.chunk \in Chunks
    BY <1>0, <2>1 DEF RingChunks, UringTypes, Writes
  <2>8. \A x \in Chunks : x # ch => bit'[x] = bit[x]
    BY <1>0, <2>1 DEF StoreTypes
  <2>9. ClerkChunks'
    <3> SUFFICES ASSUME NEW d \in Clients, Holds(d)'
                 PROVE  /\ bit'[kcur'[d].chunk]
                        /\ \A e \in Clients : Holds(e)' /\ kcur'[d].chunk = kcur'[e].chunk => d = e
                        /\ \A e \in Clients : \A i \in DOMAIN queue'[e] : queue'[e][i].chunk # kcur'[d].chunk
                        /\ \A x \in ring' : x.chunk # kcur'[d].chunk
      BY DEF ClerkChunks
    <3>1. CASE d = c
      BY <2>2, <2>3, <2>4, <2>5, <2>6, <2>7, <3>1
    <3>2. CASE d # c
      <4>1. bit[kcur[d].chunk] /\ kcur'[d] = kcur[d] /\ Holds(d)
        BY <1>0, <2>3, <3>2 DEF ClerkChunks
      <4>2. \A e \in Clients : Holds(e)' /\ kcur'[d].chunk = kcur'[e].chunk => d = e
        BY <1>0, <2>3, <2>4, <2>5, <3>2, <4>1 DEF ClerkChunks
      <4> QED
        BY <1>0, <2>2, <2>5, <2>8, <4>1, <4>2 DEF ClerkChunks
    <3> QED
      BY <3>1, <3>2
  <2>10. QueueChunks'
    BY <1>0, <2>2, <2>6, <2>8 DEF QueueChunks
  <2>11. RingChunks'
    BY <1>0, <2>2, <2>7, <2>8 DEF RingChunks
  <2> QED
    BY <2>9, <2>10, <2>11 DEF ChunkOwnership
<1>20. ASSUME UringDequeue PROVE ChunkOwnership'
  <2>1. PICK c \in Clients :
          /\ queue[c] # << >>
          /\ ring' = ring \cup {[buf |-> Head(queue[c]).buf, len |-> Head(queue[c]).len,
                                 chunk |-> Head(queue[c]).chunk, pos |-> offset, st |-> "prep"]}
          /\ queue' = [queue EXCEPT ![c] = Tail(@)]
    BY <1>20 DEF UringDequeue
  <2> DEFINE ch == Head(queue[c]).chunk
  <2>2. kpc' = kpc /\ kcur' = kcur /\ bit' = bit
    BY <1>20 DEF UringDequeue
  <2>3. 1 \in DOMAIN queue[c] /\ ch = queue[c][1].chunk
    BY <1>0, <2>1 DEF StoreTypes
  <2>4. \A d \in Clients : \A i \in DOMAIN queue'[d] :
          LET j == IF d = c THEN i + 1 ELSE i
          IN  j \in DOMAIN queue[d] /\ queue'[d][i] = queue[d][j] /\ (d = c => j # 1) /\ i \in Nat
    BY <1>0, <2>1 DEF StoreTypes
  <2>5. \A x \in ring' : x \in ring \/ x.chunk = ch
    BY <2>1
  <2>6. \A x \in ring', y \in ring' : x \notin ring /\ y \notin ring => x = y
    BY <2>1
  <2>7. /\ bit[ch]
        /\ \A d \in Clients : Holds(d) => kcur[d].chunk # ch
        /\ \A x \in ring : x.chunk # ch
    BY <1>0, <2>1, <2>3 DEF QueueChunks, ClerkChunks
  <2>8. \A d \in Clients : \A i \in DOMAIN queue'[d] : queue'[d][i].chunk # ch
    BY <1>0, <2>3, <2>4 DEF QueueChunks
  <2>9. ClerkChunks'
    <3>1. \A d \in Clients : Holds(d)' = Holds(d)
      BY <2>2 DEF Holds
    <3> SUFFICES ASSUME NEW d \in Clients, Holds(d)
                 PROVE  /\ bit'[kcur'[d].chunk]
                        /\ \A e \in Clients : Holds(e)' /\ kcur'[d].chunk = kcur'[e].chunk => d = e
                        /\ \A e \in Clients : \A i \in DOMAIN queue'[e] : queue'[e][i].chunk # kcur'[d].chunk
                        /\ \A x \in ring' : x.chunk # kcur'[d].chunk
      BY <3>1 DEF ClerkChunks
    <3>2. \A e \in Clients : \A i \in DOMAIN queue'[e] : queue'[e][i].chunk # kcur[d].chunk
      BY <1>0, <2>4 DEF ClerkChunks
    <3>3. \A x \in ring' : x.chunk # kcur[d].chunk
      BY <1>0, <2>5, <2>7 DEF ClerkChunks
    <3> QED
      BY <1>0, <2>2, <3>1, <3>2, <3>3 DEF ClerkChunks
  <2>10. QueueChunks'
    <3> SUFFICES ASSUME NEW d \in Clients, NEW i \in DOMAIN queue'[d]
                 PROVE  /\ bit'[queue'[d][i].chunk]
                        /\ \A e \in Clients : \A j \in DOMAIN queue'[e] :
                             queue'[d][i].chunk = queue'[e][j].chunk => d = e /\ i = j
                        /\ \A x \in ring' : x.chunk # queue'[d][i].chunk
      BY DEF QueueChunks
    <3>1. bit'[queue'[d][i].chunk]
      BY <1>0, <2>2, <2>4 DEF QueueChunks
    <3>2. ASSUME NEW e \in Clients, NEW j \in DOMAIN queue'[e], queue'[d][i].chunk = queue'[e][j].chunk
          PROVE  d = e /\ i = j
      <4> DEFINE p == IF d = c THEN i + 1 ELSE i
                 q == IF e = c THEN j + 1 ELSE j
      <4>1. /\ p \in DOMAIN queue[d] /\ queue'[d][i] = queue[d][p] /\ i \in Nat
            /\ q \in DOMAIN queue[e] /\ queue'[e][j] = queue[e][q] /\ j \in Nat
        BY <2>4, <3>2
      <4>2. d = e /\ p = q
        <5> HIDE DEF p, q
        <5> QED
          BY <1>0, <3>2, <4>1 DEF QueueChunks
      <4> QED
        BY <4>1, <4>2
    <3>3. \A x \in ring : x.chunk # queue'[d][i].chunk
      <4>1. \E j \in DOMAIN queue[d] : queue'[d][i] = queue[d][j]
        BY <2>4
      <4> QED
        BY <1>0, <4>1 DEF QueueChunks
    <3>4. \A x \in ring' : x.chunk # queue'[d][i].chunk
      BY <2>5, <2>8, <3>3
    <3> QED
      BY <3>1, <3>2, <3>4
  <2>11. RingChunks'
    BY <1>0, <2>2, <2>5, <2>6, <2>7 DEF RingChunks
  <2> QED
    BY <2>9, <2>10, <2>11 DEF ChunkOwnership
<1>21. ASSUME bit' = bit, kpc' = kpc, kcur' = kcur, queue' = queue,
             \A x \in ring' : \E y \in ring : y.chunk = x.chunk,
             \A x \in ring', y \in ring' : x.chunk = y.chunk => x = y
      PROVE  ChunkOwnership'
  <2>1. \A d \in Clients : Holds(d)' = Holds(d)
    BY <1>21 DEF Holds
  <2>2. ClerkChunks'
    BY <1>0, <1>21, <2>1 DEF ClerkChunks
  <2>3. QueueChunks' /\ RingChunks'
    BY <1>0, <1>21 DEF QueueChunks, RingChunks
  <2> QED
    BY <2>2, <2>3 DEF ChunkOwnership
<1>22. ASSUME UringSubmit PROVE ChunkOwnership'
  <2>1. \A x \in ring' : \E y \in ring : x = InState(y, IF y.st = "prep" THEN "flight" ELSE y.st)
    BY <1>22 DEF UringSubmit
  <2>2. \A x \in ring', y \in ring' : x.chunk = y.chunk => x = y
    BY <1>0, <2>1 DEF RingChunks, InState
  <2>3. \A x \in ring' : \E y \in ring : y.chunk = x.chunk
    BY <2>1 DEF InState
  <2> QED
    BY <1>22, <1>21, <2>2, <2>3 DEF UringSubmit
<1>23. ASSUME NEW it \in ring, Complete(it), bit' = bit, kpc' = kpc, kcur' = kcur, queue' = queue
      PROVE  ChunkOwnership'
  <2>1. InState(it, "done").chunk = it.chunk
    BY DEF InState
  <2>2. \A x \in ring' : x \in ring \ {it} \/ x = InState(it, "done")
    BY <1>23 DEF Complete
  <2>3. \A x \in ring', y \in ring' : x.chunk = y.chunk => x = y
    BY <1>0, <2>1, <2>2 DEF RingChunks
  <2>4. \A x \in ring' : \E y \in ring : y.chunk = x.chunk
    BY <2>1, <2>2
  <2> QED
    BY <1>21, <1>23, <2>3, <2>4
<1>24. ASSUME NEW it \in ring, WriteDone(it) PROVE ChunkOwnership'
  BY <1>23, <1>24 DEF WriteDone
<1>25. ASSUME NEW it \in ring, WriteFailed(it) PROVE ChunkOwnership'
  BY <1>23, <1>25 DEF WriteFailed
<1>26. ASSUME UringFree PROVE ChunkOwnership'
  <2>1. PICK it \in ring : bit' = [bit EXCEPT ![it.chunk] = FALSE] /\ ring' = ring \ {it}
    BY <1>26 DEF UringFree, FreeChunk
  <2>2. kpc' = kpc /\ kcur' = kcur /\ queue' = queue
    BY <1>26 DEF UringFree
  <2>3. \A x \in Chunks : x # it.chunk => bit'[x] = bit[x]
    BY <1>0, <2>1 DEF StoreTypes
  <2>4. \A d \in Clients : Holds(d)' = Holds(d)
    BY <2>2 DEF Holds
  <2>5. \A d \in Clients : Holds(d) => kcur[d].chunk \in Chunks /\ kcur[d].chunk # it.chunk
    BY <1>0 DEF ClerkChunks, Holds, ClerkTypes, Cursors
  <2>6. ClerkChunks'
    BY <1>0, <2>1, <2>2, <2>3, <2>4, <2>5 DEF ClerkChunks
  <2>7. \A d \in Clients : \A i \in DOMAIN queue[d] : queue[d][i].chunk \in Chunks
    BY <1>0, QueuedChunks
  <2>8. QueueChunks'
    BY <1>0, <2>1, <2>2, <2>3, <2>7 DEF QueueChunks
  <2>9. \A x \in ring : x.chunk \in Chunks
    BY <1>0 DEF UringTypes, Writes
  <2>10. RingChunks'
    BY <1>0, <2>1, <2>3, <2>9 DEF RingChunks
  <2> QED
    BY <2>6, <2>8, <2>10 DEF ChunkOwnership
<1> QED
  BY <1>1, <1>2, <1>3, <1>4, <1>5, <1>6, <1>7, <1>8, <1>9, <1>10, <1>11, <1>12,
     <1>13, <1>14, <1>15, <1>16, <1>17, <1>18, <1>19, <1>20, <1>21, <1>22, <1>23, <1>24, <1>25, <1>26
  DEF Next, ClientNext, ClerkNext, UringNext, KernelNext

\* Every step keeps inflight_ equal to the number of writes in the ring.
LEMMA RingStep ==
  ASSUME TypeOK, ChunkOwnership, RingBounded, IsFiniteSet(ring), Next
  PROVE  RingBounded' /\ IsFiniteSet(ring)'
<1> USE ConstantsOK
<1> USE DEF clientVars, mailVars, clerkVars, uringVars, histVars
<1>0. /\ StoreTypes /\ UringTypes /\ ClerkChunks /\ QueueChunks /\ RingChunks
      /\ inflight = Cardinality(ring) /\ inflight <= QueueDepth /\ inflight \in Nat
  BY DEF TypeOK, ChunkOwnership, RingBounded, UringTypes
<1>1. CASE UNCHANGED <<ring, inflight>>
  BY <1>0, <1>1 DEF RingBounded
<1>2. ASSUME NEW c \in Clients, ClientNext(c) \/ ClerkNext(c) PROVE UNCHANGED <<ring, inflight>>
  BY <1>2 DEF ClientNext, ClerkNext, Connect, SendWrite, SendGet, SendDelete, SendClose,
    ReturnAlloc, Return, ClerkPut, ClerkGet, GetCopy, GetDb, ClerkDelete, ClerkAlloc, ClerkClose,
    PutBatch, Erase, Enqueue, AllocChunk, CloseHandshake
<1>3. ASSUME UringDequeue PROVE RingBounded' /\ IsFiniteSet(ring)'
  <2>1. PICK c \in Clients :
          /\ queue[c] # << >>
          /\ ring' = ring \cup {[buf |-> Head(queue[c]).buf, len |-> Head(queue[c]).len,
                                 chunk |-> Head(queue[c]).chunk, pos |-> offset, st |-> "prep"]}
    BY <1>3 DEF UringDequeue
  <2> DEFINE it == [buf |-> Head(queue[c]).buf, len |-> Head(queue[c]).len,
                    chunk |-> Head(queue[c]).chunk, pos |-> offset, st |-> "prep"]
  <2>2. 1 \in DOMAIN queue[c] /\ it.chunk = queue[c][1].chunk
    BY <1>0, <2>1 DEF StoreTypes
  <2>3. it \notin ring
    BY <1>0, <2>2 DEF QueueChunks
  <2>4. IsFiniteSet(ring') /\ Cardinality(ring') = Cardinality(ring) + 1
    BY <2>1, <2>3, FS_AddElement
  <2>5. inflight' = inflight + 1 /\ inflight < QueueDepth
    BY <1>0, <1>3 DEF UringDequeue, Full
  <2> QED
    BY <1>0, <2>4, <2>5 DEF RingBounded
<1>4. ASSUME UringSubmit PROVE RingBounded' /\ IsFiniteSet(ring)'
  <2> DEFINE f == [it \in ring |-> InState(it, IF it.st = "prep" THEN "flight" ELSE it.st)]
  <2>1. ring' = {InState(it, IF it.st = "prep" THEN "flight" ELSE it.st) : it \in ring}
    BY <1>4 DEF UringSubmit
  <2>2. f \in [ring -> ring']
    BY <2>1
  <2>3. \A x \in ring, y \in ring : f[x] = f[y] => x = y
    BY <1>0 DEF RingChunks, InState
  <2>4. \A z \in ring' : \E x \in ring : f[x] = z
    BY <2>1
  <2>5. f \in Bijection(ring, ring')
    BY <2>2, <2>3, <2>4 DEF Bijection, Injection, Surjection, IsInjective
  <2>6. IsFiniteSet(ring') /\ Cardinality(ring') = Cardinality(ring)
    BY <2>5, FS_Bijection DEF ExistsBijection
  <2> QED
    BY <1>0, <1>4, <2>6 DEF UringSubmit, RingBounded
<1>5. ASSUME NEW it \in ring, Complete(it), inflight' = inflight
      PROVE  RingBounded' /\ IsFiniteSet(ring)'
  <2>1. InState(it, "done") \notin ring \ {it}
    BY <1>0 DEF RingChunks, InState
  <2>2. IsFiniteSet(ring \ {it}) /\ Cardinality(ring \ {it}) = Cardinality(ring) - 1
    BY FS_RemoveElement
  <2>3. IsFiniteSet(ring') /\ Cardinality(ring') = Cardinality(ring \ {it}) + 1
    BY <1>5, <2>1, <2>2, FS_AddElement DEF Complete
  <2> QED
    BY <1>0, <1>5, <2>2, <2>3 DEF RingBounded
<1>6. ASSUME NEW it \in ring, WriteDone(it) \/ WriteFailed(it)
      PROVE  RingBounded' /\ IsFiniteSet(ring)'
  BY <1>5, <1>6 DEF WriteDone, WriteFailed
<1>7. ASSUME UringFree PROVE RingBounded' /\ IsFiniteSet(ring)'
  <2>1. PICK it \in ring : ring' = ring \ {it}
    BY <1>7 DEF UringFree
  <2>2. IsFiniteSet(ring') /\ Cardinality(ring') = Cardinality(ring) - 1
    BY <2>1, FS_RemoveElement
  <2> QED
    BY <1>0, <1>7, <2>2 DEF UringFree, Seen, RingBounded
<1> QED
  BY <1>1, <1>2, <1>3, <1>4, <1>6, <1>7 DEF Next, UringNext, KernelNext

\* The inductive invariant.  ChunkOwnership needs Connections, to know which
\* chunk a clerk still owns at each place of Run, and RingBounded needs the ring
\* to be finite for its cardinality to change by one.
IInv == TypeOK /\ Connections /\ ChunkOwnership /\ RingBounded /\ IsFiniteSet(ring)

\* The server and the clients start in the inductive invariant.
LEMMA IInvInit == Init => IInv
<1> SUFFICES ASSUME Init PROVE IInv
  OBVIOUS
<1> USE ConstantsOK
<1>1. ClientTypes /\ MailTypes
  BY DEF Init, ClientTypes, MailTypes, Cursors, NoCursor
<1>2. ClerkTypes
  <2>1. << >> \in Seq(Metas)
    OBVIOUS
  <2> QED
    BY <2>1 DEF Init, ClerkTypes, Cursors, NoCursor
<1>3. StoreTypes
  <2>1. << >> \in Seq(Items)
    OBVIOUS
  <2> QED
    BY <2>1 DEF Init, StoreTypes
<1>4. UringTypes
  BY DEF Init, UringTypes
<1>5. Connections
  BY DEF Init, Connections, Connection, NoCursor
<1>6. ChunkOwnership
  BY DEF Init, ChunkOwnership, ClerkChunks, QueueChunks, RingChunks, Holds, NoCursor
<1>7. RingBounded /\ IsFiniteSet(ring)
  BY FS_EmptySet DEF Init, RingBounded
<1> QED
  BY <1>1, <1>2, <1>3, <1>4, <1>5, <1>6, <1>7 DEF IInv, TypeOK

\* Every step of the system, and stuttering, keeps the inductive invariant.
LEMMA IInvStep == IInv /\ [Next]_vars => IInv'
<1> SUFFICES ASSUME IInv, [Next]_vars PROVE IInv'
  OBVIOUS
<1>1. CASE Next
  BY <1>1, TypeStep, ConnectionsStep, OwnershipStep, RingStep DEF IInv
<1>2. CASE UNCHANGED vars
  <2> USE <1>2 DEF vars, clientVars, mailVars, clerkVars, uringVars, histVars
  <2>1. TypeOK'
    BY DEF IInv, TypeOK, ClientTypes, MailTypes, ClerkTypes, StoreTypes, UringTypes
  <2>2. Connections' /\ RingBounded' /\ IsFiniteSet(ring)'
    BY DEF IInv, Connections, Connection, RingBounded
  <2>3. ChunkOwnership'
    BY DEF IInv, ChunkOwnership, ClerkChunks, QueueChunks, RingChunks, Holds
  <2> QED
    BY <2>1, <2>2, <2>3 DEF IInv
<1> QED
  BY <1>1, <1>2

\* The inductive invariant holds in every reachable state.
LEMMA Invariance == Spec => []IInv
  BY IInvInit, IInvStep, PTL DEF Spec

(* Every variable keeps its type; inflight_ of IOuring is never negative. *)
THEOREM TypeCorrect == Spec => []TypeOK
  BY Invariance, PTL DEF IInv

(* A client and its clerk keep to the protocol of the header words of *)
(* PMRClient and PMRClerk::Run, however their steps interleave.       *)
THEOREM ConnectionsCorrect == Spec => []Connections
  BY Invariance, PTL DEF IInv

(* A chunk of the messaging buffer has one owner, from AllocChunk to FreeChunk, *)
(* and its bit is set all that time: FreeChunk's assertion holds.               *)
THEOREM ChunkOwnershipCorrect == Spec => []ChunkOwnership
  BY Invariance, PTL DEF IInv

(* UringRun never has more writes in the ring than IOuring has entries. *)
THEOREM RingBoundedCorrect == Spec => []RingBounded
  BY Invariance, PTL DEF IInv

-----------------------------------------------------------------------------
(* What is stored: the records of a chunk are where its clerk looks for     *)
(* them, a write that was answered is not lost between the chunk and the    *)
(* log file, and a GET finds it.                                            *)

-----------------------------------------------------------------------------
(* The inductive invariant. *)

InAlloc(c) == cpc[c] = "call" /\ req[c].op = "ALLOC"
Writing(c) == sent[c] /\ req[c].op = "PUT"

\* The client and its clerk agree on the chunk and how far it is filled, but for
\* the record whose PUT the clerk has not seen and while a new chunk is fetched.
Synced(c) ==
  /\ pend[c] # None => InAlloc(c) /\ pend[c].by = c
  /\ InAlloc(c) /\ rep[c] # None => kcur[c].chunk = rep[c].chunk /\ kcur[c].head = 0
  /\ ~InAlloc(c) /\ cpc[c] # "new" /\ ~Writing(c) =>
       ccur[c].chunk = kcur[c].chunk /\ ccur[c].head = kcur[c].head
  /\ Writing(c) =>
       /\ ccur[c].chunk = kcur[c].chunk /\ ccur[c].head = kcur[c].head + req[c].rec.len
       /\ [off |-> kcur[c].head, rec |-> req[c].rec] \in mem[kcur[c].chunk]
       /\ req[c].rec.by = c
  /\ ccur[c].head <= MAX_ASYNC_SIZE /\ kcur[c].head <= MAX_ASYNC_SIZE
  /\ kcur[c].chunk = None \/ kpc[c] = "alloc" => batch[c] = << >>

\* no record begins below h and ends above it
Tidy(m, h) == \A e \in m : e.off < h => e.off + e.rec.len <= h

\* no two records overlap
Apart(m) == \A e, f \in m : e = f \/ e.off + e.rec.len <= f.off \/ f.off + f.rec.len <= e.off

\* m has the record of entry b of clerk c's batch
HasRecord(m, c, b) ==
  \E e \in m : e.off = b.off /\ e.rec.len = b.len /\ e.rec.key = b.key /\ e.rec.by = c

\* What the chunk a clerk owns holds.
Filled(c) == Holds(c) =>
  /\ \A i \in DOMAIN batch[c] :
       /\ batch[c][i].off + batch[c][i].len <= kcur[c].head
       /\ HasRecord(mem[kcur[c].chunk], c, batch[c][i])
  /\ Tidy(mem[kcur[c].chunk], kcur[c].head)
  /\ Writing(c) => Tidy(mem[kcur[c].chunk], kcur[c].head + req[c].rec.len)
  /\ kpc[c] \in {"putbatch", "erase"} => tmp[c] = mem[kcur[c].chunk]

\* An item of the queue or the ring is a copy of its chunk.
CopyOf(it) == it.buf = mem[it.chunk] /\ Tidy(it.buf, it.len)

Copies ==
  /\ \A c \in Clients : \A i \in DOMAIN queue[c] : CopyOf(queue[c][i])
  /\ \A it \in ring : CopyOf(it)

\* The writes of the ring go to places of the log file of their own.
LogPlaced ==
  /\ \A e \in log : e.off + e.rec.len <= offset
  /\ \A it \in ring : it.pos + it.len <= offset
  /\ \A it, jt \in ring : it = jt \/ it.pos + it.len <= jt.pos \/ jt.pos + jt.len <= it.pos
  /\ \A it \in ring : it.st # "done" =>
       \A e \in log : e.off + e.rec.len <= it.pos \/ it.pos + it.len <= e.off

HeldRec(c, r) == Holds(c) /\ \E e \in mem[kcur[c].chunk] : e.off < kcur[c].head /\ e.rec = r
ItemRec(it, r) == \E e \in it.buf : e.off < it.len /\ e.rec = r

\* Where a write that was answered is.
Kept(r) ==
  \/ InLog(r) \/ r \in lost
  \/ \E c \in Clients : HeldRec(c, r)
  \/ \E c \in Clients : \E i \in DOMAIN queue[c] : ItemRec(queue[c][i], r)
  \/ \E it \in ring : it.st # "done" /\ ItemRec(it, r)

DInv ==
  /\ \A c \in Clients : Synced(c)
  /\ \A ch \in Chunks : Apart(mem[ch])
  /\ \A c \in Clients : Filled(c)
  /\ Copies /\ LogPlaced
  /\ \A r \in acked : Kept(r)

LEMMA DInit == Init => DInv
<1> SUFFICES ASSUME Init PROVE DInv
  OBVIOUS
<1>1. ASSUME NEW c \in Clients PROVE Synced(c)
  BY ConstantsOK DEF Init, Synced, InAlloc, Writing, NoCursor
<1>2. ASSUME NEW ch \in Chunks PROVE Apart(mem[ch])
  BY DEF Init, Apart
<1>3. ASSUME NEW c \in Clients PROVE Filled(c)
  BY DEF Init, Filled, Holds, NoCursor
<1>4. Copies /\ LogPlaced /\ acked = {}
  BY DEF Init, Copies, LogPlaced
<1>. QED BY <1>1, <1>2, <1>3, <1>4 DEF DInv

-----------------------------------------------------------------------------
(* The operators of the model. *)

LEMMA LenIs == \A n \in Lens : n \in Nat /\ n > 0 /\ n < MAX_ASYNC_SIZE
<1>1. ASSUME NEW n \in Lens PROVE n \in 1 .. MAX_ASYNC_SIZE - 1
  BY ConstantsOK
<1>. QED BY <1>1, ConstantsOK

\* A record written behind what is there leaves that in place.
LEMMA StoreIs ==
  ASSUME NEW m \in SUBSET Entries, NEW h \in Nat, NEW r \in Recs, Apart(m), Tidy(m, h)
  PROVE  LET s == Store(m, h, r) IN
         /\ Apart(s) /\ Tidy(s, h) /\ Tidy(s, h + r.len)
         /\ [off |-> h, rec |-> r] \in s
         /\ \A e \in m : e.off < h => e \in s
<1> DEFINE s == Store(m, h, r)
           w == [off |-> h, rec |-> r]
<1>1. r.len \in Nat /\ r.len > 0
  BY LenIs DEF Recs
<1>2. \A e \in m : e.off \in Nat /\ e.rec.len \in Nat /\ e.rec.len > 0
  BY LenIs DEF Entries, Recs
<1>3. s = {e \in m : ~(e.off < h + r.len /\ h < e.off + e.rec.len)} \cup {w}
  BY DEF Store, Overlaps
<1>4. w.off = h /\ w.rec.len = r.len
  OBVIOUS
<1> HIDE DEF s, w
<1>5. w \in s
  BY <1>3
<1>6. \A e \in m : e.off < h => e \in s
  BY <1>1, <1>2, <1>3 DEF Tidy
<1>7. \A e \in s : e = w \/ (e \in m /\ (h + r.len <= e.off \/ e.off + e.rec.len <= h))
  BY <1>1, <1>2, <1>3
<1>8. Apart(s)
  <2> SUFFICES ASSUME NEW e \in s, NEW f \in s, e # f
               PROVE  e.off + e.rec.len <= f.off \/ f.off + f.rec.len <= e.off
    BY DEF Apart
  <2>1. CASE e = w
    BY <1>1, <1>2, <1>4, <1>7, <2>1
  <2>2. CASE f = w
    BY <1>1, <1>2, <1>4, <1>7, <2>2
  <2>3. CASE e # w /\ f # w
    BY <1>7, <2>3 DEF Apart
  <2>. QED BY <2>1, <2>2, <2>3
<1>9. Tidy(s, h) /\ Tidy(s, h + r.len)
  BY <1>1, <1>2, <1>4, <1>7 DEF Tidy
<1>. QED BY <1>5, <1>6, <1>8, <1>9 DEF s, w

\* What is read where one record lies is that record.
LEMMA LoadIs ==
  ASSUME NEW m \in SUBSET Entries, Apart(m), NEW e \in m
  PROVE  Load(m, e.off, e.rec.len) = e.rec
<1>1. \A x \in m : x.off \in Nat /\ x.rec.len \in Nat /\ x.rec.len > 0
  BY LenIs DEF Entries, Recs
<1>2. \A x \in m : x.off = e.off /\ x.rec.len = e.rec.len => x = e
  BY <1>1 DEF Apart
<1>. QED BY <1>2, Zenon DEF Load

-----------------------------------------------------------------------------
(* What the steps of a client and its clerk leave alone. *)

\* what belongs to client d and its clerk
Same(d) ==
  UNCHANGED <<cpc[d], nops[d], ccur[d], pend[d], req[d], sent[d], rep[d],
              kpc[d], kcur[d], batch[d], ki[d], kloc[d], tmp[d], queue[d]>>

LEMMA ClientSame ==
  ASSUME TypeOK, NEW c \in Clients, ClientNext(c), NEW d \in Clients, d # c
  PROVE  Same(d)
<1> USE DEF clientVars, mailVars, clerkVars, uringVars, histVars
<1>0. ClientTypes /\ MailTypes
  BY DEF TypeOK
<1>1. UNCHANGED <<kpc[d], kcur[d], batch[d], ki[d], kloc[d], tmp[d], queue[d]>>
  BY DEF ClientNext, Connect, SendWrite, SendGet, SendDelete, SendClose, ReturnAlloc, Return
<1>2. UNCHANGED <<cpc[d], nops[d]>>
  BY <1>0 DEF ClientNext, Connect, SendWrite, SendGet, SendDelete, SendClose, ReturnAlloc, Return, ClientTypes
<1>3. UNCHANGED <<ccur[d], pend[d]>>
  BY <1>0 DEF ClientNext, Connect, SendWrite, SendGet, SendDelete, SendClose, ReturnAlloc, Return, ClientTypes,
              WriteRecord
<1>4. UNCHANGED <<req[d], sent[d], rep[d]>>
  BY <1>0 DEF ClientNext, Connect, SendWrite, SendGet, SendDelete, SendClose, ReturnAlloc, Return, MailTypes,
              WriteRecord, Call
<1>. QED BY <1>1, <1>2, <1>3, <1>4 DEF Same

LEMMA ClerkSame ==
  ASSUME TypeOK, NEW c \in Clients, ClerkNext(c), NEW d \in Clients, d # c
  PROVE  Same(d)
<1> USE DEF clientVars, mailVars, clerkVars, uringVars, histVars
<1>0. ClientTypes /\ MailTypes /\ ClerkTypes /\ StoreTypes
  BY DEF TypeOK
<1>1. UNCHANGED <<nops[d], ccur[d], pend[d], req[d]>>
  BY DEF ClerkNext, ClerkPut, ClerkGet, GetCopy, GetDb, ClerkDelete, ClerkAlloc, ClerkClose, PutBatch, Erase,
         Enqueue, AllocChunk, CloseHandshake
<1>2. UNCHANGED <<cpc[d], sent[d], rep[d]>>
  BY <1>0 DEF ClerkNext, ClerkPut, ClerkGet, GetCopy, GetDb, ClerkDelete, ClerkAlloc, ClerkClose, PutBatch, Erase,
         Enqueue, AllocChunk, CloseHandshake, Receive, Taken, Reply, ClientTypes, MailTypes
<1>3. UNCHANGED <<kpc[d], kcur[d]>>
  BY <1>0 DEF ClerkNext, ClerkPut, ClerkGet, GetCopy, GetDb, ClerkDelete, ClerkAlloc, ClerkClose, PutBatch, Erase,
         Enqueue, AllocChunk, CloseHandshake, StartFlush, Goto, ClerkTypes
<1>4. UNCHANGED <<batch[d], ki[d]>>
  BY <1>0 DEF ClerkNext, ClerkPut, ClerkGet, GetCopy, GetDb, ClerkDelete, ClerkAlloc, ClerkClose, PutBatch, Erase,
         Enqueue, AllocChunk, CloseHandshake, StartFlush, ClerkTypes
<1>5. UNCHANGED <<kloc[d], tmp[d], queue[d]>>
  BY <1>0 DEF ClerkNext, ClerkPut, ClerkGet, GetCopy, GetDb, ClerkDelete, ClerkAlloc, ClerkClose, PutBatch, Erase,
         Enqueue, AllocChunk, CloseHandshake, StartFlush, ClerkTypes, StoreTypes
<1>. QED BY <1>1, <1>2, <1>3, <1>4, <1>5 DEF Same

\* Steps that write no chunk and hand none on.
LEMMA QuietStep ==
  ASSUME DInv, NEW c \in Clients, UNCHANGED <<mem, queue, ring, log, offset, lost>>,
         \A d \in Clients : d # c => Same(d),
         \A r \in acked' : r \in acked \/ HeldRec(c, r)',
         Synced(c)', Filled(c)', \A r : HeldRec(c, r) => HeldRec(c, r)'
  PROVE  DInv'
<1>1. ASSUME NEW d \in Clients, d # c
      PROVE  Synced(d)' /\ Filled(d)' /\ \A r : HeldRec(d, r) => HeldRec(d, r)'
  <2>1. Synced(d) /\ Filled(d) /\ Same(d)
    BY <1>1 DEF DInv
  <2>2. Synced(d)'
    BY <2>1 DEF Synced, InAlloc, Writing, Same
  <2>3. Filled(d)' /\ \A r : HeldRec(d, r) => HeldRec(d, r)'
    BY <2>1 DEF Filled, Holds, Writing, HeldRec, Same
  <2>. QED BY <2>2, <2>3
<1>2. (\A d \in Clients : Synced(d)') /\ (\A d \in Clients : Filled(d)')
  BY <1>1
<1>3. Copies' /\ LogPlaced' /\ \A ch \in Chunks : Apart(mem[ch])'
  BY DEF DInv, Copies, CopyOf, LogPlaced
<1>4. ASSUME NEW r \in acked' PROVE Kept(r)'
  <2>1. CASE HeldRec(c, r)'
    BY <2>1 DEF Kept
  <2>2. CASE r \in acked
    <3>1. Kept(r)
      BY <2>2 DEF DInv
    <3>2. \A d \in Clients : HeldRec(d, r) => HeldRec(d, r)'
      BY <1>1
    <3>. QED BY <3>1, <3>2 DEF Kept, InLog
  <2>. QED BY <1>4, <2>1, <2>2
<1>. QED BY <1>2, <1>3, <1>4 DEF DInv

-----------------------------------------------------------------------------
(* Steps of the clients. *)

\* A request that carries no record.
LEMMA ClientQuiet ==
  ASSUME DInv, NEW c \in Clients, \A d \in Clients : d # c => Same(d),
         UNCHANGED <<mem, queue, ring, log, offset, lost, acked, kcur, kpc, batch, tmp>>,
         Synced(c)', ~Writing(c)'
  PROVE  DInv'
<1>1. Filled(c)
  BY DEF DInv
<1>2. Filled(c)'
  BY <1>1 DEF Filled, Holds
<1>3. \A r : HeldRec(c, r) => HeldRec(c, r)'
  BY DEF HeldRec, Holds
<1>. QED BY <1>2, <1>3, QuietStep

\* A record goes to the chunk of the clerk, behind what the clerk knows of.
LEMMA WriteStep ==
  ASSUME IInv, DInv, NEW c \in Clients, NEW r \in Recs, NEW cur \in Cursors, WriteRecord(c, r, cur),
         r.by = c, kpc[c] = "spin", Holds(c), cur.chunk = kcur[c].chunk, cur.head = kcur[c].head,
         cur.head + r.len <= MAX_ASYNC_SIZE, cpc'[c] = "call",
         \A d \in Clients : d # c => Same(d),
         UNCHANGED <<queue, ring, log, offset, lost, acked, kcur, kpc, batch, tmp>>
  PROVE  DInv'
<1> DEFINE ch == kcur[c].chunk
           h == kcur[c].head
           s == Store(mem[ch], h, r)
<1>1. ClientTypes /\ MailTypes /\ ClerkTypes /\ StoreTypes /\ UringTypes
  BY DEF IInv, TypeOK
<1>2. ch \in Chunks /\ h \in Nat /\ mem[ch] \in SUBSET Entries /\ r.len \in Nat
  BY <1>1, LenIs DEF Holds, ClerkTypes, Cursors, StoreTypes, Recs
<1>3. Synced(c) /\ Filled(c) /\ Apart(mem[ch]) /\ Tidy(mem[ch], h)
  BY <1>2 DEF DInv, Filled
<1>4. /\ Apart(s) /\ Tidy(s, h) /\ Tidy(s, h + r.len)
      /\ [off |-> h, rec |-> r] \in s
      /\ \A e \in mem[ch] : e.off < h => e \in s
  BY <1>2, <1>3, StoreIs
<1>5. mem'[ch] = s /\ \A x \in Chunks : x # ch => mem'[x] = mem[x]
  BY <1>1, <1>2 DEF WriteRecord, StoreTypes
<1>6. /\ ccur'[c].chunk = ch /\ ccur'[c].head = h + r.len /\ pend'[c] = None
      /\ req'[c] = [op |-> "PUT", rec |-> r] /\ sent'[c] /\ rep'[c] = None
  BY <1>1 DEF WriteRecord, Call, ClientTypes, MailTypes
<1>7. req'[c].op = "PUT" /\ req'[c].rec = r
  BY <1>6
<1> HIDE DEF s, ch, h
<1>8. Synced(c)'
  <2>1. ~InAlloc(c)' /\ Writing(c)'
    BY <1>6, <1>7 DEF InAlloc, Writing
  <2>2. kcur'[c].chunk = ch /\ kcur'[c].head = h
    BY DEF ch, h
  <2>3. [off |-> kcur'[c].head, rec |-> req'[c].rec] \in mem'[kcur'[c].chunk]
    BY <1>4, <1>5, <1>7, <2>2
  <2>4. ccur'[c].head <= MAX_ASYNC_SIZE /\ kcur'[c].head <= MAX_ASYNC_SIZE
    BY <1>3, <1>6, <2>2 DEF Synced, h
  <2>5. kcur'[c].chunk = None \/ kpc'[c] = "alloc" => batch'[c] = << >>
    BY <1>3 DEF Synced
  <2>. QED BY <1>6, <1>7, <2>1, <2>2, <2>3, <2>4, <2>5 DEF Synced
<1>9. Filled(c)'
  <2>1. \A i \in DOMAIN batch[c] :
          batch[c][i].off + batch[c][i].len <= h /\ HasRecord(mem[ch], c, batch[c][i])
    BY <1>3 DEF Filled, ch, h
  <2>2. ASSUME NEW i \in DOMAIN batch[c] PROVE HasRecord(s, c, batch[c][i])
    <3>1. PICK e \in mem[ch] : /\ e.off = batch[c][i].off /\ e.rec.len = batch[c][i].len
                               /\ e.rec.key = batch[c][i].key /\ e.rec.by = c
      BY <2>1 DEF HasRecord
    <3>2. e.off \in Nat /\ e.rec.len \in Nat /\ e.rec.len > 0
      BY <1>2, LenIs DEF Entries, Recs
    <3>3. e.off < h
      BY <1>2, <2>1, <3>1, <3>2
    <3>. QED BY <1>4, <3>1, <3>3 DEF HasRecord
  <2>3. kcur'[c].chunk = ch /\ kcur'[c].head = h
    BY DEF ch, h
  <2>. QED BY <1>4, <1>5, <1>7, <2>1, <2>2, <2>3 DEF Filled
<1>10. ASSUME NEW d \in Clients, d # c
       PROVE  Synced(d)' /\ Filled(d)'
  <2>1. Synced(d) /\ Filled(d) /\ Same(d)
    BY <1>10 DEF DInv
  <2>2. Holds(d) => kcur[d].chunk # ch /\ kcur[d].chunk \in Chunks
    BY <1>1, <1>10 DEF IInv, ChunkOwnership, ClerkChunks, ch, Holds, ClerkTypes, Cursors
  <2>3. Holds(d) => mem'[kcur[d].chunk] = mem[kcur[d].chunk]
    BY <1>5, <2>2
  <2>4. Writing(d) => Holds(d)
    <3>1. Connection(d)
      BY DEF IInv, Connections
    <3>. QED BY <3>1 DEF Writing, Holds, Connection
  <2>5. Synced(d)'
    BY <2>1, <2>3, <2>4 DEF Synced, InAlloc, Writing, Same
  <2>6. Filled(d)'
    BY <2>1, <2>3 DEF Filled, Holds, Writing, Same
  <2>. QED BY <2>5, <2>6
<1>11. \A x \in Chunks : Apart(mem[x])'
  BY <1>4, <1>5 DEF DInv
<1>12. Copies'
  <2>1. \A d \in Clients : \A i \in DOMAIN queue[d] :
          /\ queue[d][i].chunk \in Chunks /\ queue[d][i].chunk # ch /\ CopyOf(queue[d][i])
    BY <1>1, QueuedChunks DEF IInv, ChunkOwnership, ClerkChunks, ch, DInv, Copies
  <2>2. \A it \in ring : it.chunk \in Chunks /\ it.chunk # ch /\ CopyOf(it)
    BY <1>1 DEF IInv, ChunkOwnership, ClerkChunks, ch, DInv, Copies, UringTypes, Writes
  <2>3. \A d \in Clients : \A i \in DOMAIN queue'[d] : CopyOf(queue[d][i])'
    BY <1>5, <2>1 DEF CopyOf
  <2>4. \A it \in ring' : CopyOf(it)'
    BY <1>5, <2>2 DEF CopyOf
  <2>. QED BY <2>3, <2>4 DEF Copies
<1>13. LogPlaced'
  BY DEF DInv, LogPlaced
<1>14. ASSUME NEW x \in acked' PROVE Kept(x)'
  <2>1. Kept(x)
    BY <1>14 DEF DInv
  <2>2. ASSUME NEW d \in Clients, HeldRec(d, x)
        PROVE  HeldRec(d, x)'
    <3>1. Holds(d)'
      BY <2>2 DEF HeldRec, Holds
    <3>2. CASE d = c
      BY <1>4, <1>5, <2>2, <3>1, <3>2 DEF HeldRec, ch, h
    <3>3. CASE d # c
      <4>1. mem'[kcur[d].chunk] = mem[kcur[d].chunk]
        BY <1>1, <1>5, <2>2, <3>3 DEF HeldRec, IInv, ChunkOwnership, ClerkChunks, ch, Holds, ClerkTypes, Cursors
      <4>. QED BY <2>2, <3>1, <4>1 DEF HeldRec
    <3>. QED BY <3>2, <3>3
  <2>. QED BY <2>1, <2>2 DEF Kept, InLog, ItemRec
<1>15. (\A d \in Clients : Synced(d)') /\ (\A d \in Clients : Filled(d)')
  BY <1>8, <1>9, <1>10
<1>. QED BY <1>11, <1>12, <1>13, <1>14, <1>15 DEF DInv

LEMMA ClientData ==
  ASSUME IInv, DInv, NEW c \in Clients, ClientNext(c)
  PROVE  DInv'
<1> USE DEF clientVars, mailVars, clerkVars, uringVars, histVars
<1>1. ClientTypes /\ MailTypes /\ ClerkTypes /\ StoreTypes
  BY DEF IInv, TypeOK
<1>2. Connection(c) /\ Synced(c)
  BY DEF IInv, Connections, DInv
<1>3. \A d \in Clients : d # c => Same(d)
  BY ClientSame DEF IInv
<1>4. UNCHANGED <<queue, ring, log, offset, lost, acked, kcur, kpc, batch, tmp>>
  BY DEF ClientNext, Connect, SendWrite, SendGet, SendDelete, SendClose, ReturnAlloc, Return
<1>5. CASE Connect(c)
  <2>1. UNCHANGED <<mem, ccur, pend>> /\ cpc[c] = "new"
    BY <1>5 DEF Connect
  <2>2. cpc'[c] = "call" /\ req'[c] = [op |-> "ALLOC"] /\ rep'[c] = None
    BY <1>1, <1>5 DEF Connect, Call, ClientTypes, MailTypes
  <2>3. InAlloc(c)' /\ ~Writing(c)'
    BY <2>2 DEF InAlloc, Writing
  <2>4. Synced(c)'
    BY <1>2, <1>4, <2>1, <2>2, <2>3 DEF Synced, InAlloc
  <2>. QED BY <1>3, <1>4, <2>1, <2>3, <2>4, ClientQuiet
<1>6. cpc[c] = "idle" => /\ ~InAlloc(c) /\ ~Writing(c) /\ kpc[c] = "spin" /\ Holds(c)
                         /\ ccur[c].chunk = kcur[c].chunk /\ ccur[c].head = kcur[c].head
  BY <1>1, <1>2 DEF Connection, InAlloc, Writing, Holds, ClerkTypes, Synced
<1>7. ASSUME NEW k \in Keys, NEW n \in Lens, SendWrite(c, k, n)
      PROVE  DInv'
  <2> DEFINE r == [key |-> k, by |-> c, seq |-> nops[c] + 1, len |-> n]
  <2>1. r \in Recs /\ r.by = c /\ r.len = n
    BY <1>1 DEF Recs, ClientTypes
  <2>2. cpc[c] = "idle" /\ cpc'[c] = "call"
    BY <1>1, <1>7 DEF SendWrite, ClientTypes
  <2>3. CASE NeedsAlloc(ccur[c], r)
    <3>1. UNCHANGED <<mem, ccur>> /\ pend' = [pend EXCEPT ![c] = r] /\ Call(c, [op |-> "ALLOC"])
      BY <1>7, <2>3 DEF SendWrite
    <3>2. pend'[c] = r /\ req'[c] = [op |-> "ALLOC"] /\ rep'[c] = None
      BY <1>1, <3>1 DEF Call, ClientTypes, MailTypes
    <3> HIDE DEF r
    <3>3. InAlloc(c)' /\ ~Writing(c)'
      BY <2>2, <3>2 DEF InAlloc, Writing
    <3>4. Synced(c)'
      BY <1>2, <1>4, <2>1, <3>1, <3>2, <3>3 DEF Synced
    <3>. QED BY <1>3, <1>4, <3>1, <3>3, <3>4, ClientQuiet
  <2>4. CASE ~NeedsAlloc(ccur[c], r)
    <3>1. WriteRecord(c, r, ccur[c])
      BY <1>7, <2>4 DEF SendWrite
    <3>2. ccur[c] \in Cursors /\ ccur[c].head \in Nat /\ n \in Nat
      BY <1>1, LenIs DEF ClientTypes, Cursors
    <3>3. ccur[c].head + r.len <= MAX_ASYNC_SIZE
      BY <2>1, <2>4, <3>2, ConstantsOK DEF NeedsAlloc
    <3> HIDE DEF r
    <3>. QED BY <1>3, <1>4, <1>6, <2>1, <2>2, <3>1, <3>2, <3>3, WriteStep
  <2>. QED BY <2>3, <2>4
<1>8. ASSUME NEW rq \in Requests, rq.op \in {"GET", "DELETE", "CLOSE"}, Call(c, rq), cpc[c] = "idle",
             cpc' \in {[cpc EXCEPT ![c] = "call"], [cpc EXCEPT ![c] = "closing"]}, UNCHANGED <<ccur, pend, mem>>
      PROVE  DInv'
  <2>1. req'[c] = rq /\ rep'[c] = None /\ cpc'[c] \in {"call", "closing"}
    BY <1>1, <1>8 DEF Call, ClientTypes, MailTypes
  <2>2. ~InAlloc(c)' /\ ~Writing(c)' /\ cpc'[c] # "new"
    BY <1>8, <2>1 DEF InAlloc, Writing
  <2>3. Synced(c)'
    BY <1>2, <1>4, <1>6, <1>8, <2>1, <2>2 DEF Synced
  <2>. QED BY <1>3, <1>4, <1>8, <2>2, <2>3, ClientQuiet
<1>9. ASSUME NEW k \in Keys, SendGet(c, k) PROVE DInv'
  BY <1>8, <1>9, RequestTypes DEF SendGet
<1>10. ASSUME NEW k \in Keys, SendDelete(c, k) PROVE DInv'
  BY <1>8, <1>10, RequestTypes DEF SendDelete
<1>11. CASE SendClose(c)
  BY <1>8, <1>11, RequestTypes DEF SendClose
<1>12. CASE ReturnAlloc(c)
  <2> DEFINE cur == [chunk |-> rep[c].chunk, head |-> 0]
  <2>1. InAlloc(c) /\ rep[c] # None /\ kcur[c].chunk = cur.chunk /\ kcur[c].head = cur.head
    BY <1>2, <1>12 DEF ReturnAlloc, InAlloc, Synced
  <2>2. kpc[c] = "spin" /\ ~sent[c] /\ Holds(c)
    BY <1>2, <2>1 DEF Connection, Holds
  <2>3. cur \in Cursors
    BY <1>1, <2>1 DEF MailTypes, Replies, Cursors
  <2>4. CASE pend[c] # None
    <3>1. WriteRecord(c, pend[c], cur) /\ UNCHANGED cpc
      BY <1>12, <2>4 DEF ReturnAlloc
    <3>2. pend[c] \in Recs /\ pend[c].by = c /\ cpc'[c] = "call"
      BY <1>1, <1>2, <2>1, <2>4, <3>1 DEF ClientTypes, Synced, InAlloc
    <3>3. cur.head + pend[c].len <= MAX_ASYNC_SIZE
      <4>1. pend[c].len \in Lens /\ cur.head = 0
        BY <3>2 DEF Recs
      <4>2. pend[c].len \in Nat /\ pend[c].len < MAX_ASYNC_SIZE
        BY <4>1, LenIs
      <4> HIDE DEF cur
      <4>. QED BY <4>1, <4>2, ConstantsOK
    <3> HIDE DEF cur
    <3>. QED BY <1>3, <1>4, <2>1, <2>2, <2>3, <3>1, <3>2, <3>3, WriteStep
  <2>5. CASE pend[c] = None
    <3>1. /\ UNCHANGED <<mem, pend, req, sent>>
          /\ ccur' = [ccur EXCEPT ![c] = cur] /\ cpc' = [cpc EXCEPT ![c] = "idle"]
      BY <1>12, <2>5 DEF ReturnAlloc
    <3>2. ccur'[c] = cur /\ cpc'[c] = "idle"
      BY <1>1, <3>1 DEF ClientTypes
    <3>3. ccur'[c].chunk = kcur[c].chunk /\ ccur'[c].head = 0 /\ kcur[c].head = 0
      BY <2>1, <3>2
    <3>4. ~InAlloc(c)' /\ ~Writing(c)'
      BY <2>2, <3>1, <3>2 DEF InAlloc, Writing
    <3>5. Synced(c)'
      BY <1>2, <1>4, <2>5, <3>1, <3>3, <3>4, ConstantsOK DEF Synced
    <3>. QED BY <1>3, <1>4, <3>1, <3>4, <3>5, ClientQuiet
  <2>. QED BY <2>4, <2>5
<1>13. CASE Return(c)
  <2>1. /\ UNCHANGED <<mem, pend, req, sent, ccur>> /\ cpc' = [cpc EXCEPT ![c] = "idle"]
        /\ cpc[c] = "call" /\ rep[c] # None /\ req[c].op # "ALLOC"
    BY <1>13, Zenon DEF Return
  <2>2. cpc'[c] = "idle"
    BY <1>1, <2>1 DEF ClientTypes
  <2>3. ~InAlloc(c) /\ ~Writing(c) /\ ~InAlloc(c)' /\ ~Writing(c)'
    BY <1>2, <2>1, <2>2 DEF Connection, InAlloc, Writing
  <2>4. Synced(c)'
    BY <1>2, <1>4, <2>1, <2>2, <2>3 DEF Synced
  <2>. QED BY <1>3, <1>4, <2>1, <2>3, <2>4, ClientQuiet
<1>. QED
  <2>1. \A k \in WriteKeys[c] : k \in Keys
    BY ConstantsOK
  <2>. QED BY <2>1, <1>5, <1>7, <1>9, <1>10, <1>11, <1>12, <1>13 DEF ClientNext

-----------------------------------------------------------------------------
(* Steps of the clerks. *)

\* Steps that leave the chunk and the cursor of the clerk alone.
LEMMA ClerkQuiet ==
  ASSUME DInv, NEW c \in Clients, \A d \in Clients : d # c => Same(d),
         UNCHANGED <<mem, queue, ring, log, offset, lost, acked, kcur, batch, ccur, pend, req>>,
         cpc'[c] = cpc[c] \/ (cpc[c] = "closing" /\ cpc'[c] = "closed"),
         ~Writing(c), ~Writing(c)', InAlloc(c) => rep'[c] = None,
         kpc'[c] = "alloc" => kcur[c].chunk = None,
         Holds(c)' <=> Holds(c),
         Holds(c) /\ kpc'[c] \in {"putbatch", "erase"} => tmp'[c] = mem[kcur[c].chunk]
  PROVE  DInv'
<1>1. Synced(c) /\ Filled(c)
  BY DEF DInv
<1>2. InAlloc(c)' <=> InAlloc(c)
  BY DEF InAlloc
<1>3. Synced(c)'
  BY <1>1, <1>2 DEF Synced, InAlloc
<1>4. Filled(c)'
  BY <1>1 DEF Filled
<1>5. \A r : HeldRec(c, r) => HeldRec(c, r)'
  BY DEF HeldRec
<1>. QED BY <1>3, <1>4, <1>5, QuietStep

LEMMA PutData ==
  ASSUME IInv, DInv, NEW c \in Clients, ClerkPut(c)
  PROVE  DInv'
<1> DEFINE r == req[c].rec
           b == [key |-> r.key, off |-> kcur[c].head, len |-> r.len]
<1>1. ClientTypes /\ MailTypes /\ ClerkTypes /\ StoreTypes
  BY DEF IInv, TypeOK
<1>2. Connection(c) /\ Synced(c) /\ Filled(c)
  BY DEF IInv, Connections, DInv
<1>3. \A d \in Clients : d # c => Same(d)
  BY ClerkSame DEF IInv, ClerkNext
<1>4. /\ UNCHANGED <<mem, queue, ring, log, offset, lost, ccur, pend, req, cpc, kpc, tmp>>
      /\ sent[c] /\ sent' = [sent EXCEPT ![c] = FALSE] /\ req[c].op = "PUT" /\ kpc[c] = "spin"
      /\ batch' = [batch EXCEPT ![c] = Append(@, b)]
      /\ kcur' = [kcur EXCEPT ![c] = [chunk |-> @.chunk, head |-> @.head + r.len]]
      /\ acked' = acked \cup {r}
  BY DEF ClerkPut, Receive, Taken, Length, clientVars, uringVars
<1>5. Writing(c) /\ ~InAlloc(c) /\ cpc[c] # "new"
  BY <1>2, <1>4 DEF Writing, InAlloc, Connection
<1>6. req[c] \in Requests /\ r \in Recs /\ r.len \in Nat /\ r.len > 0 /\ kcur[c].head \in Nat
  <2>1. req[c] \in Requests
    BY <1>1, <1>2, <1>5 DEF Connection, MailTypes
  <2>2. r \in Recs
    BY <1>4, <2>1, RequestFields
  <2>. QED BY <1>1, <2>1, <2>2, LenIs DEF Recs, ClerkTypes, Cursors
<1>7. /\ kcur'[c].chunk = kcur[c].chunk /\ kcur'[c].head = kcur[c].head + r.len
      /\ ~sent'[c] /\ batch'[c] = Append(batch[c], b) /\ batch[c] \in Seq(Metas)
  BY <1>1, <1>4 DEF MailTypes, ClerkTypes
<1>8. /\ ccur[c].chunk = kcur[c].chunk /\ ccur[c].head = kcur[c].head + r.len
      /\ [off |-> kcur[c].head, rec |-> r] \in mem[kcur[c].chunk]
      /\ r.by = c
  BY <1>2, <1>5 DEF Synced
<1>9. Holds(c) /\ Holds(c)'
  BY <1>2, <1>4, <1>5, <1>7 DEF Holds, Connection, InAlloc, Writing
<1>10. ~InAlloc(c)' /\ ~Writing(c)'
  BY <1>4, <1>5, <1>7 DEF InAlloc, Writing
<1>11. Synced(c)'
  <2>1. pend'[c] = None
    BY <1>2, <1>4, <1>5 DEF Synced
  <2>2. kcur'[c].head <= MAX_ASYNC_SIZE /\ ccur'[c].head <= MAX_ASYNC_SIZE
    BY <1>2, <1>4, <1>7, <1>8 DEF Synced
  <2>. QED BY <1>4, <1>7, <1>8, <1>9, <1>10, <2>1, <2>2 DEF Synced, Holds
<1>12. Filled(c)'
  <2> DEFINE m == mem[kcur[c].chunk]
             h == kcur[c].head
  <2>1. /\ \A i \in DOMAIN batch[c] : batch[c][i].off + batch[c][i].len <= h /\ HasRecord(m, c, batch[c][i])
        /\ Tidy(m, h + r.len)
    BY <1>2, <1>5, <1>9 DEF Filled
  <2>2. HasRecord(m, c, b) /\ b.off + b.len <= h + r.len
    <3>1. b.off = h /\ b.len = r.len /\ b.key = r.key
      OBVIOUS
    <3>2. h + r.len <= h + r.len
      BY <1>6
    <3> HIDE DEF b
    <3>. QED BY <1>8, <3>1, <3>2 DEF HasRecord
  <2>3. ASSUME NEW i \in DOMAIN batch'[c]
        PROVE  batch'[c][i].off + batch'[c][i].len <= h + r.len /\ HasRecord(m, c, batch'[c][i])
    <3>1. CASE i \in DOMAIN batch[c]
      <4>1. batch'[c][i] = batch[c][i] /\ batch[c][i] \in Metas
        BY <1>7, <3>1
      <4>2. batch[c][i].off \in Nat /\ batch[c][i].len \in Nat
        BY <4>1, LenIs DEF Metas
      <4>. QED BY <1>6, <2>1, <3>1, <4>1, <4>2
    <3>2. CASE i \notin DOMAIN batch[c]
      <4>1. batch'[c][i] = b
        <5> HIDE DEF b
        <5>. QED BY <1>7, <3>2
      <4>. QED BY <2>2, <4>1
    <3>. QED BY <3>1, <3>2
  <2> HIDE DEF b, r
  <2>. QED BY <1>4, <1>7, <1>10, <2>1, <2>3 DEF Filled
<1>13. \A x : HeldRec(c, x) => HeldRec(c, x)'
  <2> SUFFICES ASSUME NEW x, HeldRec(c, x) PROVE HeldRec(c, x)'
    OBVIOUS
  <2>1. PICK e \in mem[kcur[c].chunk] : e.off < kcur[c].head /\ e.rec = x
    BY DEF HeldRec
  <2>2. e.off \in Nat
    BY <1>1, <1>9 DEF StoreTypes, Holds, ClerkTypes, Cursors, Entries
  <2>3. e.off < kcur'[c].head
    BY <1>6, <1>7, <2>1, <2>2
  <2>. QED BY <1>4, <1>7, <1>9, <2>1, <2>3 DEF HeldRec
<1>14. HeldRec(c, r)'
  <2> DEFINE w == [off |-> kcur[c].head, rec |-> r]
  <2>1. w \in mem'[kcur'[c].chunk] /\ w.off < kcur'[c].head /\ w.rec = r
    BY <1>4, <1>6, <1>7, <1>8
  <2>2. \E e \in mem'[kcur'[c].chunk] : e.off < kcur'[c].head /\ e.rec = req'[c].rec
    BY <1>4, <2>1
  <2>. QED BY <1>9, <2>2 DEF HeldRec
<1>15. \A x \in acked' : x \in acked \/ HeldRec(c, x)'
  <2> SUFFICES ASSUME NEW x \in acked', x \notin acked PROVE HeldRec(c, x)'
    OBVIOUS
  <2>1. x = req'[c].rec
    BY <1>4
  <2>. QED BY <1>14, <2>1, <1>4 DEF HeldRec
<1>. QED BY <1>3, <1>4, <1>11, <1>12, <1>13, <1>15, QuietStep

LEMMA ServeData ==
  ASSUME IInv, DInv, NEW c \in Clients,
         \/ ClerkGet(c) \/ GetCopy(c) \/ GetDb(c) \/ ClerkDelete(c) \/ CloseHandshake(c)
         \/ PutBatch(c) \/ Erase(c) \/ ClerkAlloc(c) \/ ClerkClose(c)
  PROVE  DInv'
<1> USE DEF clientVars, mailVars, clerkVars, uringVars, histVars
<1>1. ClientTypes /\ MailTypes /\ ClerkTypes /\ StoreTypes
  BY DEF IInv, TypeOK
<1>2. Connection(c) /\ Synced(c) /\ Filled(c)
  BY DEF IInv, Connections, DInv
<1>3. \A d \in Clients : d # c => Same(d)
  BY ClerkSame DEF IInv, ClerkNext
<1>4. UNCHANGED <<mem, queue, ring, log, offset, lost, acked, kcur, batch, ccur, pend, req>>
  BY DEF ClerkGet, GetCopy, GetDb, ClerkDelete, CloseHandshake, PutBatch, Erase, ClerkAlloc, ClerkClose
<1>5. ASSUME NEW op \in {"GET", "DELETE", "ALLOC", "CLOSE"}, Receive(c, op)
      PROVE  kpc[c] = "spin" /\ sent[c] /\ ~sent'[c] /\ req[c].op = op /\ ~Writing(c) /\ ~Writing(c)'
             /\ rep[c] = None
  BY <1>1, <1>2, <1>5 DEF Receive, Taken, MailTypes, Writing, Connection
<1>6. CASE ClerkGet(c)
  <2>1. Receive(c, "GET") /\ UNCHANGED <<cpc, rep>> /\ kpc'[c] \in {"copy", "dbget"}
    BY <1>1, <1>6 DEF ClerkGet, Goto, ClerkTypes
  <2>2. kpc[c] = "spin" /\ ~Writing(c) /\ ~Writing(c)' /\ rep[c] = None
    BY <1>5, <2>1
  <2>3. Holds(c)' <=> Holds(c)
    BY <1>4, <2>1, <2>2 DEF Holds
  <2>. QED BY <1>3, <1>4, <2>1, <2>2, <2>3, ClerkQuiet
<1>7. CASE GetCopy(c) \/ GetDb(c)
  <2>1. UNCHANGED <<cpc, sent>> /\ kpc[c] \in {"copy", "dbget"} /\ kpc'[c] = "spin"
    BY <1>1, <1>7 DEF GetCopy, GetDb, Goto, ClerkTypes
  <2>2. ~Writing(c) /\ ~Writing(c)' /\ ~InAlloc(c)
    BY <1>2, <2>1 DEF Connection, Writing, InAlloc
  <2>3. Holds(c)' <=> Holds(c)
    BY <1>4, <2>1 DEF Holds
  <2>. QED BY <1>3, <1>4, <2>1, <2>2, <2>3, ClerkQuiet
<1>8. CASE ClerkDelete(c)
  <2>1. Receive(c, "DELETE") /\ UNCHANGED <<cpc, kpc>>
    BY <1>8 DEF ClerkDelete
  <2>2. kpc[c] = "spin" /\ ~Writing(c) /\ ~Writing(c)' /\ ~InAlloc(c)
    BY <1>5, <2>1 DEF InAlloc
  <2>3. Holds(c)' <=> Holds(c)
    BY <1>4, <2>1 DEF Holds
  <2>. QED BY <1>3, <1>4, <2>1, <2>2, <2>3, ClerkQuiet
<1>9. CASE CloseHandshake(c)
  <2>1. UNCHANGED sent /\ kpc[c] = "recv" /\ kpc'[c] = "exit" /\ cpc[c] = "closing" /\ cpc'[c] = "closed"
    BY <1>1, <1>9 DEF CloseHandshake, Goto, ClerkTypes, ClientTypes
  <2>2. ~Writing(c) /\ ~Writing(c)' /\ ~InAlloc(c)
    BY <1>2, <2>1 DEF Connection, Writing, InAlloc
  <2>3. Holds(c)' <=> Holds(c)
    BY <1>4, <2>1 DEF Holds
  <2>. QED BY <1>3, <1>4, <2>1, <2>2, <2>3, ClerkQuiet
<1>10. CASE PutBatch(c) \/ Erase(c)
  <2>1. /\ UNCHANGED <<cpc, sent, rep, tmp>>
        /\ kpc[c] \in {"putbatch", "erase"} /\ kpc'[c] \in {"putbatch", "erase"}
    BY <1>1, <1>10 DEF PutBatch, Erase, Goto, ClerkTypes
  <2>2. ~Writing(c) /\ ~Writing(c)' /\ rep[c] = None
    BY <1>2, <2>1 DEF Connection, Writing
  <2>3. Holds(c)' <=> Holds(c)
    BY <1>4, <2>1 DEF Holds
  <2>4. Holds(c) => tmp'[c] = mem[kcur[c].chunk]
    BY <1>2, <2>1 DEF Filled
  <2>. QED BY <1>3, <1>4, <2>1, <2>2, <2>3, <2>4, ClerkQuiet
<1>11. CASE ClerkAlloc(c) \/ ClerkClose(c)
  <2>1. /\ UNCHANGED <<cpc, rep>>
        /\ Receive(c, "ALLOC") \/ Receive(c, "CLOSE")
        /\ \/ kpc'[c] = "putbatch" /\ tmp'[c] = mem[kcur[c].chunk]
           \/ kpc'[c] = "alloc" /\ kcur[c].chunk = None
           \/ kpc'[c] = "recv" /\ ~(kcur[c].head > 0)
    BY <1>1, <1>11 DEF ClerkAlloc, ClerkClose, StartFlush, NeedsFlush, Goto, ClerkTypes
  <2>2. kpc[c] = "spin" /\ ~Writing(c) /\ ~Writing(c)' /\ rep[c] = None
    BY <1>5, <2>1
  <2>3. kcur[c].head \in Nat
    BY <1>1 DEF ClerkTypes, Cursors
  <2>4. Holds(c)' <=> Holds(c)
    BY <1>4, <2>1, <2>2, <2>3 DEF Holds
  <2>. QED BY <1>3, <1>4, <2>1, <2>2, <2>4, ClerkQuiet
<1>. QED BY <1>6, <1>7, <1>8, <1>9, <1>10, <1>11

LEMMA AllocData ==
  ASSUME IInv, DInv, NEW c \in Clients, AllocChunk(c)
  PROVE  DInv'
<1>1. ClientTypes /\ MailTypes /\ ClerkTypes /\ StoreTypes
  BY DEF IInv, TypeOK
<1>2. Connection(c) /\ Synced(c)
  BY DEF IInv, Connections, DInv
<1>3. \A d \in Clients : d # c => Same(d)
  BY ClerkSame DEF IInv, ClerkNext
<1>4. PICK ch \in Chunks : /\ kcur' = [kcur EXCEPT ![c] = [chunk |-> ch, head |-> 0]]
                           /\ rep' = [rep EXCEPT ![c] = [status |-> "OK", res |-> None, chunk |-> ch]]
  BY DEF AllocChunk, Reply
<1>5. /\ UNCHANGED <<mem, queue, ring, log, offset, lost, acked, ccur, pend, req, cpc, sent, batch>>
      /\ kpc[c] = "alloc" /\ kpc' = [kpc EXCEPT ![c] = "spin"]
  BY DEF AllocChunk, Goto, clientVars, uringVars, histVars
<1>6. /\ kcur'[c].chunk = ch /\ kcur'[c].head = 0 /\ rep'[c].chunk = ch /\ kpc'[c] = "spin"
  BY <1>1, <1>4, <1>5 DEF MailTypes, ClerkTypes
<1>7. InAlloc(c) /\ ~Writing(c) /\ batch[c] = << >> /\ ~Holds(c)
  BY <1>2, <1>5 DEF Connection, InAlloc, Writing, Synced, Holds
<1>8. InAlloc(c)' /\ ~Writing(c)'
  BY <1>5, <1>7 DEF InAlloc, Writing
<1>9. Synced(c)'
  BY <1>2, <1>5, <1>6, <1>7, <1>8, ConstantsOK DEF Synced
<1>10. Filled(c)'
  <2>1. mem[ch] \in SUBSET Entries
    BY <1>1 DEF StoreTypes
  <2>2. \A e \in mem'[kcur'[c].chunk] : e.off \in Nat
    BY <1>5, <1>6, <2>1 DEF Entries
  <2>3. Tidy(mem'[kcur'[c].chunk], kcur'[c].head)
    BY <1>6, <2>2 DEF Tidy
  <2>4. DOMAIN batch'[c] = {}
    BY <1>5, <1>7
  <2>. QED BY <1>6, <1>8, <2>3, <2>4 DEF Filled
<1>11. \A r : HeldRec(c, r) => HeldRec(c, r)'
  BY <1>7 DEF HeldRec
<1>. QED BY <1>3, <1>5, <1>9, <1>10, <1>11, QuietStep

\* The chunk passes from the clerk to the queue.
LEMMA EnqueueData ==
  ASSUME IInv, DInv, NEW c \in Clients, Enqueue(c)
  PROVE  DInv'
<1> DEFINE it == [buf |-> tmp[c], len |-> kcur[c].head, chunk |-> kcur[c].chunk]
<1>1. ClientTypes /\ MailTypes /\ ClerkTypes /\ StoreTypes
  BY DEF IInv, TypeOK
<1>2. Connection(c) /\ Synced(c) /\ Filled(c)
  BY DEF IInv, Connections, DInv
<1>3. \A d \in Clients : d # c => Same(d)
  BY ClerkSame DEF IInv, ClerkNext
<1>4. /\ UNCHANGED <<mem, ring, log, offset, lost, acked, ccur, pend, req, rep, cpc, sent, kcur>>
      /\ kpc[c] = "erase"
      /\ queue' = [queue EXCEPT ![c] = Append(@, it)]
  BY DEF Enqueue, clientVars, mailVars, uringVars, histVars
<1>5. \/ req[c].op = "ALLOC" /\ batch'[c] = << >> /\ kpc'[c] = "alloc"
      \/ req[c].op = "CLOSE" /\ batch'[c] = batch[c] /\ kpc'[c] = "recv"
  BY <1>1 DEF Enqueue, Goto, ClerkTypes
<1>6. Holds(c) /\ ~Writing(c) /\ rep[c] = None /\ ~Writing(c)'
  BY <1>2, <1>4 DEF Connection, Holds, Writing
<1>7. ~Holds(c)'
  BY <1>1, <1>2, <1>4, <1>5 DEF Holds, Connection, ClerkTypes, Cursors
<1>8. tmp[c] = mem[kcur[c].chunk] /\ Tidy(mem[kcur[c].chunk], kcur[c].head)
  BY <1>2, <1>4, <1>6 DEF Filled
<1>9. it.buf = mem[kcur[c].chunk] /\ it.len = kcur[c].head /\ it.chunk = kcur[c].chunk
  BY <1>8
<1> HIDE DEF it
<1>10. /\ queue[c] \in Seq(Items) /\ queue'[c] = Append(queue[c], it)
       /\ \A d \in Clients : d # c => queue'[d] = queue[d]
  BY <1>1, <1>4 DEF StoreTypes
<1>11. /\ \A i \in DOMAIN queue[c] : i \in DOMAIN queue'[c] /\ queue'[c][i] = queue[c][i]
       /\ \A i \in DOMAIN queue'[c] : i \in DOMAIN queue[c] \/ queue'[c][i] = it
       /\ \E i \in DOMAIN queue'[c] : queue'[c][i] = it
  <2>1. Len(queue[c]) + 1 \in DOMAIN queue'[c] /\ queue'[c][Len(queue[c]) + 1] = it
    BY <1>10
  <2>. QED BY <1>10, <2>1
<1>12. Synced(c)'
  <2>1. InAlloc(c)' <=> InAlloc(c)
    BY <1>4 DEF InAlloc
  <2>2. kcur'[c].chunk = None \/ kpc'[c] = "alloc" => batch'[c] = << >>
    BY <1>4, <1>5, <1>6 DEF Holds
  <2>. QED BY <1>2, <1>4, <1>6, <2>1, <2>2 DEF Synced
<1>13. Filled(c)'
  BY <1>7 DEF Filled
<1>14. ASSUME NEW d \in Clients, d # c
       PROVE  Synced(d)' /\ Filled(d)' /\ \A r : HeldRec(d, r) => HeldRec(d, r)'
  <2>1. Synced(d) /\ Filled(d) /\ Same(d)
    BY <1>3, <1>14 DEF DInv
  <2>2. Synced(d)'
    BY <1>4, <2>1 DEF Synced, InAlloc, Writing, Same
  <2>3. Filled(d)' /\ \A r : HeldRec(d, r) => HeldRec(d, r)'
    BY <1>4, <2>1 DEF Filled, Holds, Writing, HeldRec, Same
  <2>. QED BY <2>2, <2>3
<1>15. Copies'
  <2>1. it.buf = mem'[it.chunk] /\ Tidy(it.buf, it.len)
    BY <1>4, <1>8, <1>9
  <2>2. ASSUME NEW d \in Clients, NEW i \in DOMAIN queue'[d] PROVE CopyOf(queue[d][i])'
    <3>1. CASE i \in DOMAIN queue[d] /\ queue'[d][i] = queue[d][i]
      BY <1>4, <3>1 DEF DInv, Copies, CopyOf
    <3>2. CASE queue'[d][i] = it
      BY <2>1, <3>2 DEF CopyOf
    <3>. QED BY <1>10, <1>11, <3>1, <3>2
  <2>3. \A x \in ring' : CopyOf(x)'
    BY <1>4 DEF DInv, Copies, CopyOf
  <2>. QED BY <2>2, <2>3 DEF Copies
<1>16. LogPlaced' /\ \A ch \in Chunks : Apart(mem[ch])'
  BY <1>4 DEF DInv, LogPlaced
<1>17. ASSUME NEW r \in acked' PROVE Kept(r)'
  <2>1. Kept(r)
    BY <1>4, <1>17 DEF DInv
  <2>2. CASE InLog(r) \/ r \in lost \/ \E x \in ring : x.st # "done" /\ ItemRec(x, r)
    BY <1>4, <2>2 DEF Kept, InLog, ItemRec
  <2>3. CASE HeldRec(c, r)
    <3>1. ItemRec(it, r)
      BY <1>9, <2>3 DEF HeldRec, ItemRec
    <3>2. PICK i \in DOMAIN queue'[c] : queue'[c][i] = it
      BY <1>11
    <3>3. ItemRec(queue'[c][i], r)
      BY <3>1, <3>2
    <3>. QED BY <3>3 DEF Kept, ItemRec
  <2>4. ASSUME NEW d \in Clients, d # c, HeldRec(d, r) PROVE Kept(r)'
    BY <1>14, <2>4 DEF Kept
  <2>5. ASSUME NEW d \in Clients, NEW i \in DOMAIN queue[d], ItemRec(queue[d][i], r) PROVE Kept(r)'
    <3>1. i \in DOMAIN queue'[d] /\ queue'[d][i] = queue[d][i]
      BY <1>10, <1>11
    <3>. QED BY <2>5, <3>1 DEF Kept, ItemRec
  <2>. QED BY <2>1, <2>2, <2>3, <2>4, <2>5 DEF Kept
<1>18. (\A d \in Clients : Synced(d)') /\ (\A d \in Clients : Filled(d)')
  BY <1>12, <1>13, <1>14
<1>. QED BY <1>15, <1>16, <1>17, <1>18 DEF DInv

-----------------------------------------------------------------------------
(* Steps of the uring thread and the kernel. *)

\* They leave what the clients and the clerks have.
LEMMA UringQuiet ==
  ASSUME DInv, UNCHANGED <<clientVars, mailVars, clerkVars, mem, acked>>
  PROVE  /\ \A c \in Clients : Synced(c)'
         /\ \A ch \in Chunks : Apart(mem[ch])'
         /\ \A c \in Clients : Filled(c)'
         /\ \A r : \A c \in Clients : HeldRec(c, r) => HeldRec(c, r)'
<1> USE DEF clientVars, mailVars, clerkVars
<1>1. ASSUME NEW c \in Clients PROVE Synced(c)'
  BY DEF DInv, Synced, InAlloc, Writing
<1>2. ASSUME NEW c \in Clients PROVE Filled(c)'
  BY DEF DInv, Filled, Holds, Writing
<1>3. ASSUME NEW r, NEW c \in Clients, HeldRec(c, r) PROVE HeldRec(c, r)'
  BY <1>3 DEF HeldRec, Holds
<1>4. \A ch \in Chunks : Apart(mem[ch])'
  BY DEF DInv
<1>. QED BY <1>1, <1>2, <1>3, <1>4

\* What is left of a queue when its first item is taken.
LEMMA TailIs ==
  ASSUME NEW S, NEW s \in Seq(S), s # << >>
  PROVE  /\ \A i \in DOMAIN Tail(s) : i + 1 \in DOMAIN s /\ Tail(s)[i] = s[i + 1]
         /\ \A j \in DOMAIN s : j # 1 => j - 1 \in DOMAIN Tail(s) /\ Tail(s)[j - 1] = s[j]
<1>1. Len(s) \in Nat /\ Len(s) # 0 /\ Tail(s) \in Seq(S) /\ Len(Tail(s)) = Len(s) - 1
  OBVIOUS
<1>2. DOMAIN s = 1 .. Len(s) /\ DOMAIN Tail(s) = 1 .. Len(s) - 1
  BY <1>1
<1>3. \A i \in 1 .. Len(s) - 1 : Tail(s)[i] = s[i + 1]
  BY <1>1
<1>. QED BY <1>1, <1>2, <1>3

\* The next write goes behind all that came before it.
LEMMA DequeueData ==
  ASSUME IInv, DInv, UringDequeue
  PROVE  DInv'
<1>1. StoreTypes /\ UringTypes
  BY DEF IInv, TypeOK
<1>2. PICK c \in Clients :
        /\ queue[c] # << >>
        /\ ring' = ring \cup {[buf |-> Head(queue[c]).buf, len |-> Head(queue[c]).len,
                               chunk |-> Head(queue[c]).chunk, pos |-> offset, st |-> "prep"]}
        /\ queue' = [queue EXCEPT ![c] = Tail(@)]
        /\ offset' = offset + Head(queue[c]).len
  BY DEF UringDequeue
<1>3. UNCHANGED <<clientVars, mailVars, clerkVars, mem, acked, log, lost>>
  BY DEF UringDequeue, histVars
<1> DEFINE hd == Head(queue[c])
           it == [buf |-> hd.buf, len |-> hd.len, chunk |-> hd.chunk, pos |-> offset, st |-> "prep"]
<1>4. queue[c] \in Seq(Items) /\ 1 \in DOMAIN queue[c] /\ hd = queue[c][1] /\ hd \in Items
  BY <1>1, <1>2 DEF StoreTypes
<1>5. it.buf = hd.buf /\ it.len = hd.len /\ it.chunk = hd.chunk /\ it.pos = offset /\ it.st = "prep"
  OBVIOUS
<1>6. it.len \in Nat /\ offset \in Nat /\ offset' = offset + it.len
  BY <1>1, <1>2, <1>4, <1>5 DEF UringTypes, Items
<1>7. ring' = ring \cup {it}
  BY <1>2
<1>8. /\ \A d \in Clients : \A i \in DOMAIN queue'[d] : \E j \in DOMAIN queue[d] : queue'[d][i] = queue[d][j]
      /\ \A d \in Clients : \A j \in DOMAIN queue[d] :
           (\E i \in DOMAIN queue'[d] : queue'[d][i] = queue[d][j]) \/ queue[d][j] = hd
  <2>1. \A d \in Clients : d # c => queue'[d] = queue[d]
    BY <1>1, <1>2 DEF StoreTypes
  <2>2. queue'[c] = Tail(queue[c])
    BY <1>1, <1>2 DEF StoreTypes
  <2>3. ASSUME NEW i \in DOMAIN queue'[c] PROVE \E j \in DOMAIN queue[c] : queue'[c][i] = queue[c][j]
    <3> DEFINE q == queue[c]
    <3>1. q \in Seq(Items) /\ q # << >> /\ queue'[c] = Tail(q)
      BY <1>2, <1>4, <2>2
    <3>2. i \in DOMAIN Tail(q)
      BY <2>3, <3>1
    <3> HIDE DEF q
    <3>3. i + 1 \in DOMAIN q /\ Tail(q)[i] = q[i + 1]
      BY <3>1, <3>2, TailIs
    <3>4. \E j \in DOMAIN q : queue'[c][i] = q[j]
      BY <3>1, <3>3
    <3>. QED BY <3>4 DEF q
  <2>4. ASSUME NEW j \in DOMAIN queue[c], j # 1 PROVE \E i \in DOMAIN queue'[c] : queue'[c][i] = queue[c][j]
    <3>1. j - 1 \in DOMAIN queue'[c] /\ queue'[c][j - 1] = queue[c][j]
      BY <1>2, <1>4, <2>2, <2>4, TailIs
    <3>. QED BY <3>1
  <2>. QED BY <1>4, <2>1, <2>3, <2>4
<1> HIDE DEF it, hd
<1>9. Copies'
  <2>1. \A d \in Clients : \A i \in DOMAIN queue'[d] : CopyOf(queue[d][i])'
    BY <1>3, <1>8 DEF DInv, Copies, CopyOf
  <2>2. it.buf = mem'[it.chunk] /\ Tidy(it.buf, it.len)
    BY <1>3, <1>4, <1>5 DEF DInv, Copies, CopyOf
  <2>3. \A x \in ring' : CopyOf(x)'
    BY <1>3, <1>7, <2>2 DEF DInv, Copies, CopyOf
  <2>. QED BY <2>1, <2>3 DEF Copies
<1>10. LogPlaced'
  <2>1. \A e \in log : e.off \in Nat /\ e.rec.len \in Nat
    BY <1>1, LenIs DEF UringTypes, Entries, Recs
  <2>2. \A x \in ring : x.pos \in Nat /\ x.len \in Nat
    BY <1>1 DEF UringTypes, Writes
  <2>3. \A e \in log' : e.off + e.rec.len <= offset'
    BY <1>3, <1>6, <2>1 DEF DInv, LogPlaced
  <2>4. \A x \in ring' : x.pos + x.len <= offset'
    BY <1>5, <1>6, <1>7, <2>2 DEF DInv, LogPlaced
  <2>5. \A x, y \in ring' : x = y \/ x.pos + x.len <= y.pos \/ y.pos + y.len <= x.pos
    BY <1>5, <1>7 DEF DInv, LogPlaced
  <2>6. ASSUME NEW x \in ring', x.st # "done"
        PROVE  \A e \in log' : e.off + e.rec.len <= x.pos \/ x.pos + x.len <= e.off
    BY <1>3, <1>5, <1>7, <2>6 DEF DInv, LogPlaced
  <2>. QED BY <2>3, <2>4, <2>5, <2>6 DEF LogPlaced
<1>11. ASSUME NEW r \in acked' PROVE Kept(r)'
  <2>1. Kept(r)
    BY <1>3, <1>11 DEF DInv
  <2>2. CASE InLog(r) \/ r \in lost
    BY <1>3, <2>2 DEF Kept, InLog
  <2>3. ASSUME NEW d \in Clients, HeldRec(d, r) PROVE Kept(r)'
    BY <1>3, <2>3, UringQuiet DEF Kept
  <2>4. ASSUME NEW d \in Clients, NEW j \in DOMAIN queue[d], ItemRec(queue[d][j], r) PROVE Kept(r)'
    <3>1. CASE queue[d][j] = hd
      <4>1. it \in ring' /\ it.st # "done" /\ ItemRec(it, r)
        BY <1>5, <1>7, <2>4, <3>1 DEF ItemRec
      <4>. QED BY <4>1 DEF Kept, ItemRec
    <3>2. ASSUME NEW i \in DOMAIN queue'[d], queue'[d][i] = queue[d][j] PROVE Kept(r)'
      BY <2>4, <3>2 DEF Kept, ItemRec
    <3>. QED BY <1>8, <3>1, <3>2
  <2>5. ASSUME NEW x \in ring, x.st # "done", ItemRec(x, r) PROVE Kept(r)'
    BY <1>7, <2>5 DEF Kept, ItemRec
  <2>. QED BY <2>1, <2>2, <2>3, <2>4, <2>5 DEF Kept
<1>. QED BY <1>3, <1>9, <1>10, <1>11, UringQuiet DEF DInv

\* A write that changes its state keeps its place.
LEMMA StateIs ==
  ASSUME NEW it, NEW s
  PROVE  LET x == InState(it, s) IN
         x.buf = it.buf /\ x.len = it.len /\ x.chunk = it.chunk /\ x.pos = it.pos /\ x.st = s
  BY DEF InState

LEMMA SubmitData ==
  ASSUME IInv, DInv, UringSubmit
  PROVE  DInv'
<1> DEFINE S(it) == InState(it, IF it.st = "prep" THEN "flight" ELSE it.st)
<1>1. /\ UNCHANGED <<clientVars, mailVars, clerkVars, mem, acked, log, lost, offset, queue>>
      /\ ring' = {S(it) : it \in ring}
  BY DEF UringSubmit, histVars
<1>2. \A it \in ring : /\ S(it).buf = it.buf /\ S(it).len = it.len /\ S(it).chunk = it.chunk /\ S(it).pos = it.pos
                       /\ S(it).st = "done" <=> it.st = "done"
  BY StateIs
<1>3. /\ \A x \in ring' : \E it \in ring : x = S(it)
      /\ \A it \in ring : S(it) \in ring'
  BY <1>1
<1> HIDE DEF S
<1>4. Copies'
  <2>1. \A d \in Clients : \A i \in DOMAIN queue'[d] : CopyOf(queue[d][i])'
    BY <1>1 DEF DInv, Copies, CopyOf
  <2>2. ASSUME NEW x \in ring' PROVE x.buf = mem'[x.chunk] /\ Tidy(x.buf, x.len)
    BY <1>1, <1>2, <1>3 DEF DInv, Copies, CopyOf
  <2>. QED BY <2>1, <2>2 DEF Copies, CopyOf
<1>5. LogPlaced'
  <2>1. \A e \in log' : e.off + e.rec.len <= offset'
    BY <1>1 DEF DInv, LogPlaced
  <2>2. \A x \in ring' : x.pos + x.len <= offset'
    BY <1>1, <1>2, <1>3 DEF DInv, LogPlaced
  <2>3. \A x, y \in ring' : x = y \/ x.pos + x.len <= y.pos \/ y.pos + y.len <= x.pos
    BY <1>2, <1>3 DEF DInv, LogPlaced
  <2>4. \A x \in ring' : x.st # "done" =>
          \A e \in log' : e.off + e.rec.len <= x.pos \/ x.pos + x.len <= e.off
    BY <1>1, <1>2, <1>3 DEF DInv, LogPlaced
  <2>. QED BY <2>1, <2>2, <2>3, <2>4 DEF LogPlaced
<1>6. ASSUME NEW r \in acked' PROVE Kept(r)'
  <2>1. Kept(r)
    BY <1>1, <1>6 DEF DInv
  <2>2. ASSUME NEW x \in ring, x.st # "done", ItemRec(x, r) PROVE Kept(r)'
    <3>1. S(x) \in ring' /\ S(x).st # "done" /\ ItemRec(S(x), r)
      BY <1>2, <1>3, <2>2 DEF ItemRec
    <3>2. \E y \in ring' : y.st # "done" /\ ItemRec(y, r)
      BY <3>1
    <3>. QED BY <3>2 DEF Kept, ItemRec
  <2>3. \A d \in Clients : HeldRec(d, r) => HeldRec(d, r)'
    BY <1>1, UringQuiet
  <2>. QED BY <1>1, <2>1, <2>2, <2>3 DEF Kept, InLog, ItemRec
<1>. QED BY <1>1, <1>4, <1>5, <1>6, UringQuiet DEF DInv

\* The kernel ends a write: what it held is in the log file, or lost.
LEMMA CompleteData ==
  ASSUME IInv, DInv, NEW it \in ring, WriteDone(it) \/ WriteFailed(it)
  PROVE  DInv'
<1> DEFINE dn == InState(it, "done")
           own == {e \in it.buf : e.off < it.len}
           put == {[off |-> it.pos + e.off, rec |-> e.rec] : e \in own}
<1>1. /\ UNCHANGED <<clientVars, mailVars, clerkVars, mem, acked, offset, queue>>
      /\ it.st = "flight" /\ ring' = (ring \ {it}) \cup {dn}
  BY DEF WriteDone, WriteFailed, Complete, histVars
<1>2. /\ it \in Writes /\ it.pos \in Nat /\ it.len \in Nat /\ offset \in Nat
      /\ \A e \in it.buf : e.off \in Nat /\ e.rec.len \in Nat /\ e.rec.len > 0
      /\ \A e \in log : e.off \in Nat /\ e.rec.len \in Nat /\ e.rec.len > 0
  <2>1. UringTypes
    BY DEF IInv, TypeOK
  <2>2. it \in Writes
    BY <2>1 DEF UringTypes
  <2>3. it.buf \in SUBSET Entries /\ it.pos \in Nat /\ it.len \in Nat
    BY <2>2 DEF Writes
  <2>. QED BY <2>1, <2>2, <2>3, LenIs DEF UringTypes, Entries, Recs
<1>3. /\ dn.buf = it.buf /\ dn.len = it.len /\ dn.chunk = it.chunk /\ dn.pos = it.pos /\ dn.st = "done"
  BY StateIs
<1>4. \/ log' = log \cup put /\ UNCHANGED lost
      \/ log' = log /\ lost' = lost \cup {e.rec : e \in own}
  <2>1. CASE WriteDone(it)
    <3>1. \A e \in log : ~Overlaps(e, it.pos, it.len)
      BY <1>1, <1>2 DEF DInv, LogPlaced, Overlaps
    <3>2. {e \in log : ~Overlaps(e, it.pos, it.len)} = log
      BY <3>1
    <3>3. log' = {e \in log : ~Overlaps(e, it.pos, it.len)} \cup put /\ UNCHANGED lost
      BY <2>1 DEF WriteDone, histVars
    <3>. QED BY <3>2, <3>3
  <2>2. CASE WriteFailed(it)
    BY <2>2 DEF WriteFailed
  <2>. QED BY <2>1, <2>2
<1>5. \A p \in put : it.pos <= p.off /\ p.off + p.rec.len <= it.pos + it.len /\ p.off \in Nat /\ p.rec.len \in Nat
  <2> SUFFICES ASSUME NEW e \in own
               PROVE  /\ it.pos <= it.pos + e.off
                      /\ it.pos + e.off + e.rec.len <= it.pos + it.len
                      /\ it.pos + e.off \in Nat /\ e.rec.len \in Nat
    OBVIOUS
  <2>1. e.off + e.rec.len <= it.len
    BY DEF DInv, Copies, CopyOf, Tidy
  <2>. QED BY <1>2, <2>1
<1>6. \A e \in own : \E p \in put : p.rec = e.rec
  <2> SUFFICES ASSUME NEW e \in own PROVE \E p \in put : p.rec = e.rec
    OBVIOUS
  <2> DEFINE p == [off |-> it.pos + e.off, rec |-> e.rec]
  <2>1. p \in put
    BY Zenon
  <2>2. p.rec = e.rec
    OBVIOUS
  <2> HIDE DEF p, put, own
  <2>. QED BY <2>1, <2>2
<1>7. \A x \in ring' : x \in ring \ {it} \/ x = dn
  BY <1>1
<1> HIDE DEF dn, put
<1>8. Copies'
  <2>1. \A d \in Clients : \A i \in DOMAIN queue'[d] : CopyOf(queue[d][i])'
    BY <1>1 DEF DInv, Copies, CopyOf
  <2>2. ASSUME NEW x \in ring' PROVE x.buf = mem'[x.chunk] /\ Tidy(x.buf, x.len)
    BY <1>1, <1>3, <1>7 DEF DInv, Copies, CopyOf
  <2>. QED BY <2>1, <2>2 DEF Copies, CopyOf
<1>9. LogPlaced'
  <2>1. \A e \in log' : e.off + e.rec.len <= offset'
    <3>1. it.pos + it.len <= offset
      BY DEF DInv, LogPlaced
    <3>2. ASSUME NEW p \in put PROVE p.off + p.rec.len <= offset
      BY <1>2, <1>5, <3>1
    <3>. QED BY <1>1, <1>4, <3>2 DEF DInv, LogPlaced
  <2>2. \A x \in ring' : x.pos + x.len <= offset'
    BY <1>1, <1>3, <1>7 DEF DInv, LogPlaced
  <2>3. \A x, y \in ring' : x = y \/ x.pos + x.len <= y.pos \/ y.pos + y.len <= x.pos
    BY <1>3, <1>7 DEF DInv, LogPlaced
  <2>4. ASSUME NEW x \in ring', x.st # "done", NEW e \in log'
        PROVE  e.off + e.rec.len <= x.pos \/ x.pos + x.len <= e.off
    <3>1. x \in ring /\ x # it
      BY <1>3, <1>7, <2>4
    <3>2. x.pos \in Nat /\ x.len \in Nat
      BY <3>1 DEF IInv, TypeOK, UringTypes, Writes
    <3>3. CASE e \in log
      BY <2>4, <3>1, <3>3 DEF DInv, LogPlaced
    <3>4. CASE e \in put
      <4>1. x.pos + x.len <= it.pos \/ it.pos + it.len <= x.pos
        BY <3>1 DEF DInv, LogPlaced
      <4>. QED BY <1>2, <1>5, <3>2, <3>4, <4>1
    <3>. QED BY <1>4, <3>3, <3>4
  <2>. QED BY <2>1, <2>2, <2>3, <2>4 DEF LogPlaced
<1>10. ASSUME NEW r \in acked' PROVE Kept(r)'
  <2>1. Kept(r)
    BY <1>1, <1>10 DEF DInv
  <2>2. CASE InLog(r) \/ r \in lost
    BY <1>4, <2>2 DEF Kept, InLog
  <2>3. ASSUME NEW d \in Clients, HeldRec(d, r) PROVE Kept(r)'
    BY <1>1, <2>3, UringQuiet DEF Kept
  <2>4. ASSUME NEW d \in Clients, NEW i \in DOMAIN queue[d], ItemRec(queue[d][i], r) PROVE Kept(r)'
    BY <1>1, <2>4 DEF Kept, ItemRec
  <2>5. ASSUME NEW x \in ring, x.st # "done", ItemRec(x, r) PROVE Kept(r)'
    <3>1. CASE x # it
      BY <1>1, <2>5, <3>1 DEF Kept, ItemRec
    <3>2. CASE x = it
      <4>1. PICK e \in own : e.rec = r
        BY <2>5, <3>2 DEF ItemRec
      <4>2. InLog(r)' \/ r \in lost'
        BY <1>4, <1>6, <4>1 DEF InLog
      <4>. QED BY <4>2 DEF Kept
    <3>. QED BY <3>1, <3>2
  <2>. QED BY <2>1, <2>2, <2>3, <2>4, <2>5 DEF Kept
<1>. QED BY <1>1, <1>8, <1>9, <1>10, UringQuiet DEF DInv

\* What a completed write held is kept elsewhere.
LEMMA FreeData ==
  ASSUME DInv, UringFree
  PROVE  DInv'
<1>1. PICK it \in ring : it.st = "done" /\ ring' = ring \ {it}
  BY DEF UringFree, Finished
<1>2. UNCHANGED <<clientVars, mailVars, clerkVars, mem, acked, log, lost, offset, queue>>
  BY DEF UringFree, histVars
<1>3. Copies'
  BY <1>1, <1>2 DEF DInv, Copies, CopyOf
<1>4. LogPlaced'
  BY <1>1, <1>2 DEF DInv, LogPlaced
<1>5. ASSUME NEW r \in acked' PROVE Kept(r)'
  <2>1. Kept(r)
    BY <1>2, <1>5 DEF DInv
  <2>2. \A d \in Clients : HeldRec(d, r) => HeldRec(d, r)'
    BY <1>2, UringQuiet
  <2>3. \A x \in ring : x.st # "done" => x \in ring'
    BY <1>1
  <2>. QED BY <1>2, <2>1, <2>2, <2>3 DEF Kept, InLog, ItemRec
<1>. QED BY <1>2, <1>3, <1>4, <1>5, UringQuiet DEF DInv

-----------------------------------------------------------------------------
(* The theorems. *)

LEMMA DInvStep == IInv /\ DInv /\ [Next]_vars => DInv'
<1> SUFFICES ASSUME IInv, DInv, [Next]_vars PROVE DInv'
  OBVIOUS
<1>1. ASSUME NEW c \in Clients, ClientNext(c) PROVE DInv'
  BY <1>1, ClientData
<1>2. ASSUME NEW c \in Clients, ClerkNext(c) PROVE DInv'
  BY <1>2, PutData, ServeData, EnqueueData, AllocData DEF ClerkNext
<1>3. CASE UringNext
  BY <1>3, DequeueData, SubmitData, FreeData DEF UringNext
<1>4. CASE KernelNext
  BY <1>4, CompleteData DEF KernelNext
<1>5. CASE UNCHANGED vars
  <2>1. UNCHANGED <<clientVars, mailVars, clerkVars, mem, acked, log, lost, offset, queue, ring>>
    BY <1>5 DEF vars, uringVars, histVars
  <2>2. Copies'
    BY <2>1 DEF DInv, Copies, CopyOf
  <2>3. LogPlaced'
    BY <2>1 DEF DInv, LogPlaced
  <2>4. ASSUME NEW r \in acked' PROVE Kept(r)'
    <3>1. Kept(r) /\ \A d \in Clients : HeldRec(d, r) => HeldRec(d, r)'
      BY <2>1, <2>4, UringQuiet DEF DInv
    <3>. QED BY <2>1, <3>1 DEF Kept, InLog, ItemRec
  <2>. QED BY <2>1, <2>2, <2>3, <2>4, UringQuiet DEF DInv
<1>. QED BY <1>1, <1>2, <1>3, <1>4, <1>5 DEF Next

LEMMA DInvariance == Spec => []DInv
<1>1. Spec => []IInv
  BY Invariance
<1>. QED BY <1>1, DInit, DInvStep, PTL DEF Spec

LEMMA DInvIntact == IInv /\ DInv => BatchIntact
<1> SUFFICES ASSUME IInv, DInv, NEW c \in Clients, Holds(c), NEW i \in DOMAIN batch[c]
             PROVE  LET b == batch[c][i]
                        v == Load(mem[kcur[c].chunk], b.off, b.len)
                    IN  v # Torn /\ v.key = b.key /\ v.by = c /\ b.off + b.len <= MAX_ASYNC_SIZE
  BY Zenon DEF BatchIntact
<1> DEFINE b == batch[c][i]
           m == mem[kcur[c].chunk]
<1>1. ClerkTypes /\ StoreTypes
  BY DEF IInv, TypeOK
<1>2. kcur[c].chunk \in Chunks /\ kcur[c].head \in Nat
  BY <1>1 DEF ClerkTypes, Cursors, Holds
<1>3. m \in SUBSET Entries /\ Apart(m)
  BY <1>1, <1>2 DEF StoreTypes, DInv
<1>4. b.off + b.len <= kcur[c].head /\ HasRecord(m, c, b) /\ kcur[c].head <= MAX_ASYNC_SIZE
  BY DEF DInv, Filled, Synced
<1>5. b.off \in Nat /\ b.len \in Nat
  <2>1. batch[c] \in Seq(Metas)
    BY <1>1 DEF ClerkTypes
  <2>2. b \in Metas
    BY <2>1
  <2> HIDE DEF b
  <2>. QED BY <2>2, LenIs DEF Metas
<1>6. PICK e \in m : e.off = b.off /\ e.rec.len = b.len /\ e.rec.key = b.key /\ e.rec.by = c
  BY <1>4 DEF HasRecord
<1>7. Load(m, b.off, b.len) = e.rec
  BY <1>3, <1>6, LoadIs
<1>8. e.rec \in Recs
  BY <1>3 DEF Entries
<1>9. b.off + b.len <= MAX_ASYNC_SIZE
  BY <1>2, <1>4, <1>5, ConstantsOK
<1>. QED BY <1>6, <1>7, <1>8, <1>9, ConstantsOK

LEMMA DInvKept == IInv /\ DInv => AckedKept
<1> SUFFICES ASSUME IInv, DInv, NEW r \in acked, r \notin lost, ~InLog(r)
             PROVE  \E ch \in Chunks : bit[ch] /\ \E e \in mem[ch] : e.rec = r
  BY DEF AckedKept
<1>1. ClerkTypes /\ StoreTypes /\ UringTypes /\ ChunkOwnership
  BY DEF IInv, TypeOK
<1>2. Kept(r)
  BY DEF DInv
<1>3. CASE \E c \in Clients : HeldRec(c, r)
  BY <1>1, <1>3 DEF HeldRec, Holds, ClerkTypes, Cursors, ChunkOwnership, ClerkChunks
<1>4. ASSUME NEW c \in Clients, NEW i \in DOMAIN queue[c], ItemRec(queue[c][i], r)
      PROVE  \E ch \in Chunks : bit[ch] /\ \E e \in mem[ch] : e.rec = r
  BY <1>1, <1>4, QueuedChunks DEF ItemRec, ChunkOwnership, QueueChunks, DInv, Copies, CopyOf
<1>5. CASE \E it \in ring : it.st # "done" /\ ItemRec(it, r)
  BY <1>1, <1>5 DEF ItemRec, ChunkOwnership, RingChunks, DInv, Copies, CopyOf, UringTypes, Writes
<1>. QED BY <1>2, <1>3, <1>4, <1>5 DEF Kept

(* PutBatch finds at every place the metas of PMRClerk::Run name a record of  *)
(* that key by the clerk's own client, within the chunk: the cursors of the   *)
(* client and its clerk never drift apart, whichever requests come between.   *)
THEOREM BatchIntactCorrect == Spec => []BatchIntact
  BY Invariance, DInvariance, DInvIntact, PTL

(* A write that was answered is in a chunk of the persistent memory region    *)
(* that bitmap_ marks, or in the log file, through every step of Run,         *)
(* UringRun and the kernel; only the failure of its own write loses it.       *)
THEOREM AckedKeptCorrect == Spec => []AckedKept
  BY Invariance, DInvariance, DInvKept, PTL

-----------------------------------------------------------------------------
(* What a GET finds: the invariant that a record is in the index or in the   *)
(* database at any time.                                                     *)

Reads == [key : Keys, res : Vals \cup {None}, before : SUBSET Recs, dead : SUBSET Recs]

HistTypes == rd \in [Clients -> Reads \cup {None}] /\ acked \in SUBSET Recs /\ gone \in SUBSET Recs

Reading(c) == cpc[c] = "call" /\ req[c].op = "GET"

Deleted(k) == \E g \in gone : g.key = k
InDb(k) == db[k] # None \/ Deleted(k)
Answered(k) == \E r \in acked : r.key = k

\* what the GET of client c remembers while it is under way
Asked(c) ==
  /\ cpc[c] = "new" \/ (cpc[c] = "call" /\ req[c].op # "GET") => rd[c] = None
  /\ Reading(c) => /\ rd[c] \in Reads /\ rd[c].key = req[c].key
                   /\ \A r \in rd[c].before : r \in acked /\ r.key = req[c].key

\* PutBatch has stored what Erase takes out of the index
Flushed(c) ==
  /\ ki[c] >= 1 /\ (kpc[c] = "putbatch" /\ AtomicBatch => ki[c] = 1)
  /\ \A i \in DOMAIN batch[c] : Answered(batch[c][i].key)
  /\ kpc[c] = "putbatch" => \A i \in DOMAIN batch[c] : i < ki[c] => InDb(batch[c][i].key)
  /\ kpc[c] = "erase" => \A i \in DOMAIN batch[c] : InDb(batch[c][i].key)

Found(c) ==
  /\ kpc[c] = "dbget" => rd[c].before = {} \/ InDb(req[c].key)
  /\ Reading(c) /\ rep[c] # None /\ rep[c].res = None => rd[c].before = {} \/ Deleted(req[c].key)
  /\ Got(c) /\ rd[c].res = None => rd[c].before = {} \/ Deleted(rd[c].key)

FInv ==
  /\ HistTypes
  /\ \A c \in Clients : Asked(c) /\ Flushed(c) /\ Found(c)
  /\ \A r \in acked : map[r.key] # None \/ InDb(r.key)

-----------------------------------------------------------------------------
(* What the only writer of a key reads. *)

Sole(c, k) == \A d \in Clients \ {c} : k \notin WriteKeys[d]
Newest(k, r) == r \in acked /\ r.key = k /\ \A o \in acked : o.key = k => o.seq <= r.seq
LastOf(c, i) == \A j \in DOMAIN batch[c] : batch[c][j].key = batch[c][i].key => j <= i
EntryOf(c, i, r) == [off |-> batch[c][i].off, rec |-> r] \in mem[kcur[c].chunk] /\ batch[c][i].len = r.len

\* a record on its way from the client to its clerk is newer than what was answered
Fresh(c, r) ==
  /\ r.seq = nops[c] /\ r.key \in WriteKeys[c]
  /\ \A o \in acked : o.by = c => o.seq < nops[c]

Ordered(c) ==
  /\ \A r \in acked : r.by = c => r.seq <= nops[c] /\ r.key \in WriteKeys[c]
  /\ pend[c] # None => Fresh(c, pend[c])
  /\ Writing(c) => Fresh(c, req[c].rec)
  /\ sent[c] /\ req[c].op = "DELETE" => req[c].key \in WriteKeys[c]
  /\ \A i \in DOMAIN batch[c] : batch[c][i].key \in WriteKeys[c]

\* the last entry of a key in the batch is for the newest record of the key
BatchNewest(c) ==
  \A i \in DOMAIN batch[c] : LastOf(c, i) /\ Sole(c, batch[c][i].key) =>
    \A r \in acked : Newest(batch[c][i].key, r) =>
      /\ Holds(c) => EntryOf(c, i, r)
      /\ kpc[c] = "erase" \/ (kpc[c] = "putbatch" /\ i < ki[c]) => db[batch[c][i].key] = r

\* the index has the keys of the batch until Erase takes them out, and no other
Indexed(c) ==
  /\ Holds(c) /\ kpc[c] # "erase" =>
       \A i \in DOMAIN batch[c] : Sole(c, batch[c][i].key) => map[batch[c][i].key] # None
  /\ \A k \in Keys : Sole(c, k) /\ map[k] # None =>
       /\ Holds(c)
       /\ \E i \in DOMAIN batch[c] :
            /\ batch[c][i].key = k /\ LastOf(c, i) /\ (kpc[c] = "erase" => ki[c] <= i)
            /\ map[k].chunk = kcur[c].chunk /\ map[k].off = batch[c][i].off /\ map[k].len = batch[c][i].len
  /\ \A k \in Keys : Sole(c, k) /\ map[k] = None =>
       \A r \in acked : Newest(k, r) => r \in gone \/ db[k] = r

\* the GET of the only writer of the key
Current(c) ==
  /\ Reading(c) /\ Sole(c, req[c].key) =>
       /\ rd[c].before = {r \in acked : r.key = req[c].key} /\ rd[c].dead = {r \in gone : r.key = req[c].key}
       /\ kpc[c] = "copy" => kloc[c] = map[req[c].key]
       /\ kpc[c] = "dbget" => map[req[c].key] = None
       /\ rep[c] # None =>
            \A r \in rd[c].before \ rd[c].dead : (\A o \in rd[c].before : o.seq <= r.seq) => rep[c].res = r
  /\ Got(c) /\ Sole(c, rd[c].key) =>
       \A r \in rd[c].before \ rd[c].dead : (\A o \in rd[c].before : o.seq <= r.seq) => rd[c].res = r

WInv == \A c \in Clients : Ordered(c) /\ BatchNewest(c) /\ Indexed(c) /\ Current(c)

\* The client takes the answer of its GET.
LEMMA ReadEnds ==
  ASSUME NEW r \in Reads, NEW v \in Vals \cup {None}
  PROVE  LET w == [r EXCEPT !.res = v] IN
         w \in Reads /\ w.key = r.key /\ w.before = r.before /\ w.dead = r.dead /\ w.res = v
  BY Zenon DEF Reads

LEMMA FInit == Init => FInv
<1> SUFFICES ASSUME Init PROVE FInv
  OBVIOUS
<1>1. HistTypes
  BY DEF Init, HistTypes
<1>2. ASSUME NEW c \in Clients PROVE Asked(c) /\ Flushed(c) /\ Found(c)
  BY DEF Init, Asked, Flushed, Found, Reading, Got
<1>3. acked = {}
  BY DEF Init
<1>. QED BY <1>1, <1>2, <1>3 DEF FInv

\* A key that was written stays in the database or becomes a deleted one.
DbGrows ==
  /\ acked \subseteq acked' /\ gone \subseteq gone'
  /\ \A k : Answered(k) /\ InDb(k) => InDb(k)'

LEMMA QuietDb ==
  ASSUME UNCHANGED <<db, gone>>, acked \subseteq acked'
  PROVE  DbGrows
  BY DEF DbGrows, InDb, Deleted

\* What holds of a client and its clerk while others move.
LEMMA FindOther ==
  ASSUME NEW d \in Clients, Connection(d), Asked(d), Flushed(d), Found(d),
         Same(d), rd'[d] = rd[d], DbGrows
  PROVE  Asked(d)' /\ Flushed(d)' /\ Found(d)'
<1>1. \A k : Deleted(k) => Deleted(k)'
  BY DEF DbGrows, Deleted
<1>2. \A k : Answered(k) => Answered(k)'
  BY DEF DbGrows, Answered
<1>3. Asked(d)'
  BY DEF Asked, Reading, Same, DbGrows
<1>4. Flushed(d)'
  <2>1. \A i \in DOMAIN batch[d] : Answered(batch[d][i].key)' /\ (InDb(batch[d][i].key) => InDb(batch[d][i].key)')
    BY <1>2 DEF DbGrows, Flushed, Answered, InDb, Deleted, Same
  <2>. QED BY <2>1 DEF Flushed, Same, InDb, Answered, Deleted
<1>5. kpc[d] = "dbget" /\ rd[d].before # {} => InDb(req[d].key)'
  <2> SUFFICES ASSUME kpc[d] = "dbget", rd[d].before # {} PROVE InDb(req[d].key)'
    OBVIOUS
  <2>1. Reading(d)
    BY DEF Connection, Reading
  <2>2. Answered(req[d].key) /\ InDb(req[d].key)
    BY <2>1 DEF Asked, Found, Answered
  <2>3. req'[d] = req[d]
    BY DEF Same
  <2>. QED BY <2>2, <2>3 DEF DbGrows, InDb, Deleted
<1>6. Found(d)'
  <2>1. kpc'[d] = "dbget" => rd'[d].before = {} \/ InDb(req[d].key)'
    BY <1>5 DEF Same
  <2>2. Reading(d)' /\ rep'[d] # None /\ rep'[d].res = None => rd'[d].before = {} \/ Deleted(req[d].key)'
    BY <1>1 DEF Same, Reading, Found, Deleted, DbGrows
  <2>3. Got(d)' /\ rd'[d].res = None => rd'[d].before = {} \/ Deleted(rd[d].key)'
    BY <1>1 DEF Same, Got, Found, Deleted, DbGrows
  <2>. QED BY <2>1, <2>2, <2>3 DEF Found
<1>. QED BY <1>3, <1>4, <1>6

LEMMA ClientFinds ==
  ASSUME IInv, FInv, NEW c \in Clients, ClientNext(c)
  PROVE  FInv'
<1> USE DEF clientVars, mailVars, clerkVars, uringVars, histVars
<1>1. ClientTypes /\ MailTypes /\ HistTypes /\ Connection(c) /\ Asked(c) /\ Flushed(c) /\ Found(c)
  BY DEF IInv, TypeOK, Connections, FInv
<1>2. UNCHANGED <<kpc, batch, ki, map, db, acked, gone>>
  BY DEF ClientNext, Connect, SendWrite, SendGet, SendDelete, SendClose, ReturnAlloc, Return
<1>3. \A k \in WriteKeys[c] : k \in Keys
  BY ConstantsOK
<1>4. cpc[c] \in {"new", "idle"} \/ rep[c] # None => kpc[c] # "dbget"
  BY <1>1 DEF Connection
<1>5. cpc'[c] # "idle" /\ kpc[c] # "dbget" /\ ~Reading(c)' => Found(c)'
  BY <1>2 DEF Found, Got
<1>6. /\ HistTypes' /\ (\A d \in Clients : d # c => rd'[d] = rd[d])
      /\ Asked(c)' /\ Found(c)'
  <2>1. CASE Connect(c)
    <3>1. cpc'[c] = "call" /\ req'[c] = [op |-> "ALLOC"] /\ rd' = rd /\ cpc[c] = "new"
      BY <1>1, <2>1 DEF Connect, Call, ClientTypes, MailTypes
    <3>2. ~Reading(c)' /\ rd'[c] = None
      BY <1>1, <3>1 DEF Reading, Asked
    <3>3. Asked(c)' /\ Found(c)'
      BY <1>4, <1>5, <3>1, <3>2 DEF Asked
    <3>. QED BY <1>1, <1>2, <3>1, <3>3 DEF HistTypes
  <2>2. ASSUME NEW rq \in Requests, rq.op \in {"ALLOC", "PUT", "DELETE", "CLOSE"}, Call(c, rq),
               cpc[c] = "idle", rd' = [rd EXCEPT ![c] = None],
               cpc' = [cpc EXCEPT ![c] = "call"] \/ cpc' = [cpc EXCEPT ![c] = "closing"]
        PROVE  /\ HistTypes' /\ (\A d \in Clients : d # c => rd'[d] = rd[d])
               /\ Asked(c)' /\ Found(c)'
    <3>1. cpc'[c] \in {"call", "closing"} /\ req'[c] = rq /\ rd'[c] = None
      BY <1>1, <2>2 DEF Call, ClientTypes, MailTypes, HistTypes
    <3>2. ~Reading(c)'
      BY <2>2, <3>1 DEF Reading
    <3>3. Asked(c)' /\ Found(c)'
      BY <1>4, <1>5, <2>2, <3>1, <3>2 DEF Asked
    <3>. QED BY <1>1, <1>2, <2>2, <3>3 DEF HistTypes
  <2>3. ASSUME NEW k \in Keys, NEW n \in Lens, SendWrite(c, k, n)
        PROVE  /\ HistTypes' /\ (\A d \in Clients : d # c => rd'[d] = rd[d])
               /\ Asked(c)' /\ Found(c)'
    <3> DEFINE r == [key |-> k, by |-> c, seq |-> nops[c] + 1, len |-> n]
    <3>1. r \in Recs
      BY <1>1 DEF Recs, ClientTypes
    <3>2. /\ Call(c, [op |-> "ALLOC"]) \/ Call(c, [op |-> "PUT", rec |-> r])
          /\ cpc[c] = "idle" /\ rd' = [rd EXCEPT ![c] = None] /\ cpc' = [cpc EXCEPT ![c] = "call"]
      BY <2>3 DEF SendWrite, WriteRecord
    <3> HIDE DEF r
    <3>. QED BY <2>2, <3>1, <3>2, RequestTypes
  <2>4. ASSUME NEW k \in Keys, SendGet(c, k)
        PROVE  /\ HistTypes' /\ (\A d \in Clients : d # c => rd'[d] = rd[d])
               /\ Asked(c)' /\ Found(c)'
    <3> DEFINE w == [key |-> k, res |-> None, before |-> {r \in acked : r.key = k}, dead |-> {r \in gone : r.key = k}]
    <3>1. rd' = [rd EXCEPT ![c] = w] /\ Call(c, [op |-> "GET", key |-> k]) /\ cpc' = [cpc EXCEPT ![c] = "call"]
          /\ cpc[c] = "idle"
      BY <2>4 DEF SendGet
    <3>2. w \in Reads /\ w.key = k /\ w.before = {r \in acked : r.key = k}
      BY <1>1 DEF Reads, HistTypes
    <3> HIDE DEF w
    <3>3. rd'[c] = w /\ cpc'[c] = "call" /\ req'[c].key = k /\ req'[c].op = "GET" /\ rep'[c] = None
      BY <1>1, <3>1 DEF Call, ClientTypes, MailTypes, HistTypes
    <3>4. Asked(c)'
      BY <1>2, <3>2, <3>3 DEF Asked, Reading
    <3>5. Found(c)'
      BY <1>2, <1>4, <3>1, <3>3 DEF Found, Got
    <3>6. HistTypes' /\ \A d \in Clients : d # c => rd'[d] = rd[d]
      BY <1>1, <1>2, <3>1, <3>2 DEF HistTypes
    <3>. QED BY <3>4, <3>5, <3>6
  <2>5. ASSUME NEW k \in Keys, SendDelete(c, k)
        PROVE  /\ HistTypes' /\ (\A d \in Clients : d # c => rd'[d] = rd[d])
               /\ Asked(c)' /\ Found(c)'
    BY <2>2, <2>5, RequestTypes DEF SendDelete
  <2>6. CASE SendClose(c)
    BY <2>2, <2>6, RequestTypes DEF SendClose
  <2>7. CASE ReturnAlloc(c)
    <3>1. cpc[c] = "call" /\ rep[c] # None /\ req[c].op = "ALLOC" /\ rd' = rd
      BY <2>7 DEF ReturnAlloc
    <3>2. rd'[c] = None
      BY <1>1, <3>1 DEF Asked
    <3>3. \/ cpc'[c] = "idle"
          \/ cpc'[c] = "call" /\ req'[c] = [op |-> "PUT", rec |-> pend[c]]
      BY <1>1, <2>7, <3>1 DEF ReturnAlloc, WriteRecord, Call, ClientTypes, MailTypes
    <3>4. ~Reading(c)' /\ ~Got(c)'
      BY <3>2, <3>3 DEF Reading, Got
    <3>5. Asked(c)' /\ Found(c)'
      BY <1>2, <1>4, <3>1, <3>2, <3>4 DEF Asked, Found
    <3>. QED BY <1>1, <1>2, <3>1, <3>5 DEF HistTypes
  <2>8. CASE Return(c)
    <3>1. /\ cpc[c] = "call" /\ rep[c] # None /\ cpc' = [cpc EXCEPT ![c] = "idle"] /\ req' = req
          /\ rd' = IF req[c].op = "GET" THEN [rd EXCEPT ![c].res = rep[c].res] ELSE rd
      BY <2>8, Zenon DEF Return
    <3>2. cpc'[c] = "idle"
      BY <1>1, <3>1 DEF ClientTypes
    <3>3. Asked(c)' /\ ~Reading(c)' /\ kpc'[c] # "dbget"
      BY <1>2, <1>4, <3>1, <3>2 DEF Asked, Reading
    <3>4. CASE req[c].op = "GET"
      <4> DEFINE w == [rd[c] EXCEPT !.res = rep[c].res]
      <4>1. rd[c] \in Reads /\ rd[c].key = req[c].key
        BY <1>1, <3>1, <3>4 DEF Asked, Reading
      <4>2. rep[c].res \in Vals \cup {None}
        BY <1>1, <3>1 DEF MailTypes, Replies
      <4>3. w \in Reads /\ w.key = rd[c].key /\ w.before = rd[c].before /\ w.res = rep[c].res
        BY <4>1, <4>2, ReadEnds
      <4>4. rd' = [rd EXCEPT ![c] = w]
        BY <3>1, <3>4, Zenon
      <4> HIDE DEF w
      <4>5. rd'[c] = w /\ HistTypes' /\ \A d \in Clients : d # c => rd'[d] = rd[d]
        BY <1>1, <1>2, <4>3, <4>4 DEF HistTypes
      <4>6. rep[c].res = None => rd[c].before = {} \/ Deleted(rd[c].key)
        BY <1>1, <3>1, <3>4, <4>1 DEF Found, Reading
      <4>7. rd'[c].res = None => rd'[c].before = {} \/ Deleted(rd[c].key)'
        BY <1>2, <4>3, <4>5, <4>6 DEF Deleted
      <4>. QED BY <3>3, <4>5, <4>7 DEF Found
    <3>5. CASE req[c].op # "GET"
      <4>1. rd' = rd /\ rd[c] = None
        BY <1>1, <3>1, <3>5 DEF Asked
      <4>. QED BY <1>1, <1>2, <3>3, <4>1 DEF HistTypes, Found, Got
    <3>. QED BY <3>4, <3>5
  <2>. QED BY <1>3, <2>1, <2>3, <2>4, <2>5, <2>6, <2>7, <2>8 DEF ClientNext
<1>7. Flushed(c)' /\ DbGrows
  BY <1>1, <1>2, QuietDb DEF Flushed, Answered, InDb, Deleted
<1>8. ASSUME NEW d \in Clients, d # c PROVE Asked(d)' /\ Flushed(d)' /\ Found(d)'
  <2>1. Connection(d) /\ Asked(d) /\ Flushed(d) /\ Found(d)
    BY DEF IInv, Connections, FInv
  <2>2. Same(d) /\ rd'[d] = rd[d]
    BY <1>6, <1>8, ClientSame DEF IInv
  <2>. QED BY <1>7, <2>1, <2>2, FindOther
<1>9. \A r \in acked' : map'[r.key] # None \/ InDb(r.key)'
  BY <1>2 DEF FInv, InDb, Deleted
<1>10. \A d \in Clients : Asked(d)' /\ Flushed(d)' /\ Found(d)'
  BY <1>6, <1>7, <1>8
<1>. QED BY <1>6, <1>9, <1>10 DEF FInv

\* A step of clerk c, from what it does to the clerk's own state.
LEMMA ClerkFindsIf ==
  ASSUME IInv, FInv, NEW c \in Clients, ClerkNext(c), DbGrows, UNCHANGED rd,
         acked' \in SUBSET Recs, gone' \in SUBSET Recs,
         Asked(c)', Flushed(c)', Found(c)',
         \A r \in acked' : map'[r.key] # None \/ InDb(r.key)'
  PROVE  FInv'
<1>1. ASSUME NEW d \in Clients, d # c PROVE Asked(d)' /\ Flushed(d)' /\ Found(d)'
  <2>1. Connection(d) /\ Asked(d) /\ Flushed(d) /\ Found(d)
    BY DEF IInv, Connections, FInv
  <2>2. Same(d) /\ rd'[d] = rd[d]
    BY <1>1, ClerkSame DEF IInv
  <2>. QED BY <2>1, <2>2, FindOther
<1>2. HistTypes'
  BY DEF FInv, HistTypes
<1>3. \A d \in Clients : Asked(d)' /\ Flushed(d)' /\ Found(d)'
  BY <1>1
<1>. QED BY <1>2, <1>3 DEF FInv

LEMMA ClerkFinds ==
  ASSUME IInv, FInv, NEW c \in Clients, ClerkNext(c), ~DbFails
  PROVE  FInv'
<1> USE DEF clientVars, mailVars, clerkVars, uringVars, histVars
<1>1. /\ ClientTypes /\ MailTypes /\ ClerkTypes /\ StoreTypes /\ HistTypes
      /\ Connection(c) /\ Asked(c) /\ Flushed(c) /\ Found(c)
      /\ \A r \in acked : map[r.key] # None \/ InDb(r.key)
  BY DEF IInv, TypeOK, Connections, FInv
<1>2. ASSUME NEW op \in {"PUT", "GET", "DELETE", "ALLOC", "CLOSE"}, Receive(c, op)
      PROVE  /\ kpc[c] = "spin" /\ sent[c] /\ ~sent'[c] /\ req[c].op = op /\ rep[c] = None
             /\ cpc[c] \in {"call", "closing"} /\ req[c] \in Requests
             /\ op = "GET" => Reading(c)
  BY <1>1, <1>2 DEF Receive, Taken, MailTypes, Connection, Reading
<1>3. UNCHANGED <<rd, req>>
  BY DEF ClerkNext, ClerkPut, ClerkGet, GetCopy, GetDb, ClerkDelete, ClerkAlloc, ClerkClose, PutBatch, Erase,
         Enqueue, AllocChunk, CloseHandshake
<1>4. CASE ClerkPut(c)
  <2> DEFINE r == req[c].rec
             b == [key |-> r.key, off |-> kcur[c].head, len |-> r.len]
             loc == [chunk |-> kcur[c].chunk, off |-> kcur[c].head, len |-> r.len]
  <2>1. /\ Receive(c, "PUT") /\ batch' = [batch EXCEPT ![c] = Append(@, b)]
        /\ map' = [map EXCEPT ![r.key] = loc]
        /\ acked' = acked \cup {r} /\ UNCHANGED <<kpc, ki, db, gone, cpc>>
    BY <1>4 DEF ClerkPut
  <2>2. kpc[c] = "spin" /\ req[c].op = "PUT" /\ cpc[c] \in {"call", "closing"} /\ r \in Recs
    BY <1>2, <2>1, RequestFields
  <2>3. r.key \in Keys /\ loc \in Locs
    BY <1>1, <2>2 DEF Recs, Locs, ClerkTypes, Cursors, Connection
  <2>4. b.key = r.key
    OBVIOUS
  <2> HIDE DEF b, loc
  <2>5. batch'[c] = Append(batch[c], b) /\ batch[c] \in Seq(Metas)
    BY <1>1, <2>1 DEF ClerkTypes
  <2>6. ASSUME NEW i \in DOMAIN batch'[c] PROVE Answered(batch[c][i].key)'
    <3>1. CASE i \in DOMAIN batch[c]
      <4>1. batch'[c][i] = batch[c][i]
        BY <2>5, <3>1
      <4>. QED BY <1>1, <2>1, <3>1, <4>1 DEF Flushed, Answered
    <3>2. CASE i \notin DOMAIN batch[c]
      <4>1. batch'[c][i] = b
        BY <2>5, <3>2
      <4>. QED BY <2>1, <2>4, <4>1 DEF Answered
    <3>. QED BY <3>1, <3>2
  <2>7. Asked(c)' /\ Flushed(c)' /\ Found(c)'
    BY <1>1, <1>3, <2>1, <2>2, <2>6 DEF Asked, Flushed, Found, Reading, Got
  <2>8. DbGrows
    BY <2>1, QuietDb
  <2>9. loc # None /\ map'[r.key] = loc
    BY <1>1, <2>1, <2>3, ConstantsOK DEF StoreTypes
  <2>10. ASSUME NEW x \in acked' PROVE map'[x.key] # None \/ InDb(x.key)'
    <3>1. x \in Recs /\ x.key \in Keys
      BY <1>1, <2>1, <2>2 DEF HistTypes, Recs
    <3>2. CASE x.key = r.key
      BY <2>9, <3>2
    <3>3. CASE x.key # r.key
      <4>1. x \in acked /\ map'[x.key] = map[x.key]
        BY <1>1, <2>1, <2>3, <3>1, <3>3 DEF StoreTypes
      <4>. QED BY <1>1, <2>1, <4>1 DEF InDb, Deleted
    <3>. QED BY <3>2, <3>3
  <2>11. acked' \in SUBSET Recs /\ gone' \in SUBSET Recs
    BY <1>1, <2>1, <2>2 DEF HistTypes
  <2>. QED BY <1>3, <2>7, <2>8, <2>10, <2>11, ClerkFindsIf
<1>5. ASSUME UNCHANGED <<map, db, acked, gone>>, Asked(c)', Flushed(c)', Found(c)' PROVE FInv'
  <2>1. DbGrows /\ acked' \in SUBSET Recs /\ gone' \in SUBSET Recs
    BY <1>1, <1>5, QuietDb DEF HistTypes
  <2>2. \A r \in acked' : map'[r.key] # None \/ InDb(r.key)'
    BY <1>1, <1>5 DEF InDb, Deleted
  <2>. QED BY <1>3, <1>5, <2>1, <2>2, ClerkFindsIf
<1>6. CASE ClerkGet(c)
  <2>1. Receive(c, "GET") /\ UNCHANGED <<cpc, rep, batch, ki, map, db, acked, gone>>
    BY <1>6 DEF ClerkGet
  <2>2. kpc' = [kpc EXCEPT ![c] = IF map[req[c].key] # None THEN "copy" ELSE "dbget"]
    BY <1>6, Zenon DEF ClerkGet, Goto, Lookup
  <2>3. Reading(c) /\ rep[c] = None
    BY <1>2, <2>1
  <2>4. kpc'[c] = IF map[req[c].key] # None THEN "copy" ELSE "dbget"
    BY <1>1, <2>2 DEF ClerkTypes
  <2>5. kpc'[c] = "dbget" /\ rd[c].before # {} => InDb(req[c].key)
    BY <1>1, <2>3, <2>4 DEF Asked
  <2>6. Asked(c)' /\ Flushed(c)' /\ Found(c)'
    BY <1>1, <1>3, <2>1, <2>3, <2>4, <2>5 DEF Asked, Flushed, Found, Reading, Got, InDb, Deleted, Answered
  <2>. QED BY <1>5, <2>1, <2>6
<1>7. CASE GetCopy(c) \/ GetDb(c)
  <2>1. UNCHANGED <<cpc, batch, ki, map, db, acked, gone>> /\ kpc'[c] = "spin" /\ kpc[c] \in {"copy", "dbget"}
    BY <1>1, <1>7 DEF GetCopy, GetDb, Goto, ClerkTypes
  <2>2. Reading(c)
    BY <1>1, <2>1 DEF Connection, Reading
  <2>3. rep'[c].res = None => rd[c].before = {} \/ Deleted(req[c].key)
    <3>1. CASE GetCopy(c)
      <4>1. kloc[c] \in Locs
        BY <1>1, <3>1 DEF GetCopy, Connection, ClerkTypes
      <4>2. mem[kloc[c].chunk] \in SUBSET Entries
        BY <1>1, <4>1 DEF Locs, StoreTypes
      <4> DEFINE v == Load(mem[kloc[c].chunk], kloc[c].off, kloc[c].len)
      <4>3. v # None
        BY <4>2, LoadType, ConstantsOK
      <4>4. rep' = [rep EXCEPT ![c] = [status |-> "OK", res |-> v, chunk |-> None]]
        BY <3>1 DEF GetCopy, Reply
      <4> HIDE DEF v
      <4>. QED BY <1>1, <4>3, <4>4 DEF MailTypes
    <3>2. CASE GetDb(c)
      <4>1. rep'[c].res = db[req[c].key]
        BY <1>1, <3>2 DEF GetDb, Reply, MailTypes
      <4>. QED BY <1>1, <3>2, <4>1 DEF Found, InDb, GetDb
    <3>. QED BY <1>7, <3>1, <3>2
  <2>4. Asked(c)' /\ Flushed(c)'
    BY <1>1, <1>3, <2>1, <2>2 DEF Asked, Flushed, Reading, Answered
  <2>5. Found(c)'
    BY <1>3, <2>1, <2>2, <2>3 DEF Found, Reading, Got, Deleted
  <2>. QED BY <1>5, <2>1, <2>4, <2>5
<1>8. CASE ClerkDelete(c)
  <2>1. /\ Receive(c, "DELETE") /\ UNCHANGED <<cpc, kpc, batch, ki, map, acked>>
        /\ db' = [db EXCEPT ![req[c].key] = None]
        /\ gone' = gone \cup {r \in acked : r.key = req[c].key}
    BY <1>8 DEF ClerkDelete
  <2>2. kpc[c] = "spin" /\ req[c].op = "DELETE" /\ req[c].key \in Keys /\ cpc[c] \in {"call", "closing"}
    BY <1>2, <2>1, RequestFields
  <2>3. ASSUME NEW k, Answered(k), InDb(k) PROVE InDb(k)'
    <3>1. CASE k = req[c].key
      BY <2>1, <2>3, <3>1 DEF Answered, InDb, Deleted
    <3>2. CASE k # req[c].key
      <4>1. k \in Keys
        BY <1>1, <2>3 DEF Answered, HistTypes, Recs
      <4>2. db'[k] = db[k]
        BY <1>1, <2>1, <3>2, <4>1 DEF StoreTypes
      <4>. QED BY <2>1, <2>3, <4>2 DEF InDb, Deleted
    <3>. QED BY <3>1, <3>2
  <2>4. DbGrows
    BY <2>1, <2>3 DEF DbGrows
  <2>5. Asked(c)' /\ Flushed(c)' /\ Found(c)'
    BY <1>1, <1>3, <2>1, <2>2 DEF Asked, Flushed, Found, Reading, Got, Answered
  <2>6. \A r \in acked' : map'[r.key] # None \/ InDb(r.key)'
    BY <1>1, <2>1, <2>3 DEF Answered, InDb, Deleted
  <2>7. acked' \in SUBSET Recs /\ gone' \in SUBSET Recs
    BY <1>1, <2>1 DEF HistTypes
  <2>. QED BY <1>3, <2>4, <2>5, <2>6, <2>7, ClerkFindsIf
<1>9. CASE ClerkAlloc(c) \/ ClerkClose(c)
  <2>1. /\ UNCHANGED <<cpc, rep, batch, map, db, acked, gone>>
        /\ Receive(c, "ALLOC") \/ Receive(c, "CLOSE")
        /\ kpc'[c] \in {"alloc", "recv"} \/ (kpc'[c] = "putbatch" /\ ki'[c] = 1)
        /\ ki'[c] \in {1, ki[c]}
    BY <1>1, <1>9 DEF ClerkAlloc, ClerkClose, StartFlush, Goto, ClerkTypes
  <2>2. req[c].op \in {"ALLOC", "CLOSE"} /\ cpc[c] \in {"call", "closing"}
    BY <1>2, <2>1
  <2>3. \A i \in DOMAIN batch[c] : ~(i < 1)
    BY <1>1 DEF ClerkTypes
  <2>4. Asked(c)' /\ Found(c)'
    BY <1>1, <1>3, <2>1, <2>2 DEF Asked, Found, Reading, Got
  <2>5. Flushed(c)'
    <3>1. ki'[c] >= 1 /\ \A i \in DOMAIN batch[c] : Answered(batch[c][i].key)'
      BY <1>1, <2>1 DEF Flushed, Answered
    <3>2. kpc'[c] # "erase" /\ (kpc'[c] = "putbatch" => \A i \in DOMAIN batch[c] : ~(i < ki'[c]))
      BY <2>1, <2>3
    <3>. QED BY <2>1, <3>1, <3>2 DEF Flushed, Answered
  <2>. QED BY <1>5, <2>1, <2>4, <2>5
<1>10. CASE Enqueue(c)
  <2>1. /\ UNCHANGED <<cpc, rep, map, db, acked, gone, ki>> /\ kpc'[c] \in {"alloc", "recv"}
        /\ batch'[c] \in {batch[c], << >>} /\ kpc[c] = "erase"
    BY <1>1, <1>10 DEF Enqueue, Goto, ClerkTypes
  <2>2. cpc[c] \in {"call", "closing"} /\ rep[c] = None
    BY <1>1, <2>1 DEF Connection
  <2>3. \A i \in DOMAIN batch'[c] : i \in DOMAIN batch[c] /\ batch'[c][i] = batch[c][i]
    BY <2>1
  <2>4. Asked(c)' /\ Flushed(c)' /\ Found(c)'
    BY <1>1, <1>3, <2>1, <2>2, <2>3 DEF Asked, Flushed, Found, Reading, Got, Answered
  <2>. QED BY <1>5, <2>1, <2>4
<1>11. CASE AllocChunk(c) \/ CloseHandshake(c)
  <2>1. /\ UNCHANGED <<map, db, acked, gone, batch, ki>> /\ kpc'[c] \in {"spin", "exit"}
        /\ \/ kpc[c] = "alloc" /\ cpc' = cpc
           \/ kpc[c] = "recv" /\ cpc[c] = "closing" /\ cpc'[c] = "closed"
    BY <1>1, <1>11 DEF AllocChunk, CloseHandshake, Goto, ClerkTypes, ClientTypes
  <2>2. cpc[c] \in {"call", "closing"} /\ ~Reading(c) /\ ~Reading(c)'
    BY <1>1, <1>3, <2>1 DEF Connection, Reading
  <2>3. Asked(c)' /\ Flushed(c)' /\ Found(c)'
    BY <1>1, <1>3, <2>1, <2>2 DEF Asked, Flushed, Found, Got, Answered, Reading
  <2>. QED BY <1>5, <2>1, <2>3
<1>12. CASE Erase(c)
  <2> DEFINE k == batch[c][ki[c]].key
  <2>1. /\ UNCHANGED <<cpc, rep, kpc, batch, db, acked, gone>> /\ kpc[c] = "erase" /\ ki[c] <= Len(batch[c])
        /\ map' = [map EXCEPT ![k] = None] /\ ki' = [ki EXCEPT ![c] = @ + 1]
    BY <1>12 DEF Erase
  <2>2. cpc[c] \in {"call", "closing"} /\ rep[c] = None /\ ki'[c] >= 1
    BY <1>1, <2>1 DEF Connection, ClerkTypes
  <2>3. Asked(c)' /\ Flushed(c)' /\ Found(c)'
    BY <1>1, <1>3, <2>1, <2>2 DEF Asked, Flushed, Found, Got, Answered, Reading, InDb, Deleted
  <2>4. ASSUME NEW r \in acked PROVE map'[r.key] # None \/ InDb(r.key)'
    <3>1. CASE InDb(r.key)
      BY <2>1, <3>1 DEF InDb, Deleted
    <3>2. CASE ~InDb(r.key)
      <4>1. map[r.key] # None /\ r.key \in Keys
        BY <1>1, <3>2 DEF HistTypes, Recs
      <4>2. r.key # k
        <5>1. batch[c] \in Seq(Metas) /\ ki[c] \in Nat /\ ki[c] >= 1
          BY <1>1 DEF ClerkTypes, Flushed
        <5>2. ki[c] \in DOMAIN batch[c]
          BY <2>1, <5>1
        <5>3. InDb(k)
          BY <1>1, <2>1, <5>2 DEF Flushed
        <5> HIDE DEF k
        <5>. QED BY <3>2, <5>3
      <4> HIDE DEF k
      <4>. QED BY <1>1, <2>1, <4>1, <4>2 DEF StoreTypes
    <3>. QED BY <3>1, <3>2
  <2>5. DbGrows /\ acked' \in SUBSET Recs /\ gone' \in SUBSET Recs
    BY <1>1, <2>1, QuietDb DEF HistTypes
  <2>6. \A r \in acked' : map'[r.key] # None \/ InDb(r.key)'
    BY <2>1, <2>4
  <2>. QED BY <1>3, <2>3, <2>5, <2>6, ClerkFindsIf
<1>13. CASE PutBatch(c)
  <2>1. /\ UNCHANGED <<cpc, rep, batch, map, acked, gone, tmp>> /\ kpc[c] = "putbatch"
        /\ batch[c] \in Seq(Metas) /\ ki[c] \in Nat /\ ki[c] >= 1
    BY <1>1, <1>13 DEF PutBatch, ClerkTypes, Flushed
  <2>2. cpc[c] \in {"call", "closing"} /\ rep[c] = None
    BY <1>1, <2>1 DEF Connection
  <2>3. \A i \in DOMAIN batch[c] : batch[c][i].key \in Keys /\ i \in 1 .. Len(batch[c])
    <3>1. \A i \in DOMAIN batch[c] : batch[c][i] \in Metas /\ i \in 1 .. Len(batch[c])
      BY <2>1
    <3>. QED BY <3>1 DEF Metas
  <2>4. \A i : BatchValue(c, i) \in Vals /\ BatchValue(c, i) # None
    BY <1>1, LoadType, ConstantsOK DEF BatchValue, ClerkTypes
  <2>5. /\ \A k \in Keys : db[k] # None => db'[k] # None
        /\ ki'[c] >= 1
        /\ \/ kpc'[c] = "erase" /\ \A i \in DOMAIN batch[c] : db'[batch[c][i].key] # None \/ InDb(batch[c][i].key)
           \/ /\ kpc'[c] = "putbatch" /\ ~AtomicBatch
              /\ \A i \in DOMAIN batch[c] : i < ki'[c] => db'[batch[c][i].key] # None \/ InDb(batch[c][i].key)
    <3> HIDE DEF BatchValue
    <3>1. CASE AtomicBatch
      <4>1. /\ db' = [k \in Keys |-> IF \E i \in DOMAIN batch[c] : batch[c][i].key = k
                                     THEN BatchValue(c, LastWith(c, k)) ELSE db[k]]
            /\ kpc' = [kpc EXCEPT ![c] = "erase"] /\ ki' = ki
        BY <1>13, <3>1 DEF PutBatch, Goto
      <4> HIDE DEF LastWith
      <4>2. \A k \in Keys : db'[k] = IF \E i \in DOMAIN batch[c] : batch[c][i].key = k
                                     THEN BatchValue(c, LastWith(c, k)) ELSE db[k]
        BY <4>1, Zenon
      <4>3. \A k \in Keys : /\ (\E i \in DOMAIN batch[c] : batch[c][i].key = k) => db'[k] # None
                            /\ db[k] # None => db'[k] # None
        BY <2>4, <4>2
      <4>4. kpc'[c] = "erase"
        BY <1>1, <4>1 DEF ClerkTypes
      <4>. QED BY <2>1, <2>3, <4>1, <4>3, <4>4
    <3>2. CASE ~AtomicBatch /\ ~Stored(c)
      <4>1. /\ db' = [db EXCEPT ![batch[c][ki[c]].key] = BatchValue(c, ki[c])]
            /\ ki' = [ki EXCEPT ![c] = @ + 1] /\ kpc' = kpc
        BY <1>13, <3>2 DEF PutBatch
      <4>2. ki'[c] = ki[c] + 1 /\ ki[c] \in DOMAIN batch[c]
        BY <1>1, <2>1, <3>2, <4>1 DEF ClerkTypes, Stored
      <4> DEFINE b == batch[c][ki[c]].key
      <4>3. b \in Keys
        BY <2>3, <4>2
      <4>4. db'[b] # None /\ \A k \in Keys : k # b => db'[k] = db[k]
        <5>1. db' = [db EXCEPT ![b] = BatchValue(c, ki[c])]
          BY <4>1
        <5> HIDE DEF b
        <5>. QED BY <1>1, <2>4, <4>3, <5>1 DEF StoreTypes
      <4>5. ASSUME NEW i \in DOMAIN batch[c], i < ki'[c]
            PROVE  db'[batch[c][i].key] # None \/ InDb(batch[c][i].key)
        <5>1. i < ki[c] \/ i = ki[c]
          BY <2>1, <2>3, <4>2, <4>5
        <5>. QED BY <1>1, <2>1, <4>4, <5>1 DEF Flushed
      <4>6. \A k \in Keys : db[k] # None => db'[k] # None
        <5> HIDE DEF b
        <5>. QED BY <4>4
      <4>7. kpc'[c] = "putbatch" /\ ki'[c] >= 1
        BY <2>1, <4>1, <4>2
      <4>. QED BY <3>2, <4>5, <4>6, <4>7
    <3>3. CASE ~AtomicBatch /\ Stored(c)
      <4>1. ki'[c] = 1 /\ kpc'[c] = "erase" /\ db' = db
        BY <1>1, <1>13, <3>3 DEF PutBatch, Goto, ClerkTypes
      <4>2. \A i \in DOMAIN batch[c] : i < ki[c]
        BY <2>1, <2>3, <3>3 DEF Stored
      <4>. QED BY <1>1, <2>1, <4>1, <4>2 DEF Flushed
    <3>. QED BY <3>1, <3>2, <3>3
  <2>6. ASSUME NEW k \in Keys, db'[k] # None \/ InDb(k) PROVE InDb(k)'
    BY <2>1, <2>5, <2>6 DEF InDb, Deleted
  <2>7. Flushed(c)'
    <3>1. \A i \in DOMAIN batch[c] : Answered(batch[c][i].key)'
      BY <1>1, <2>1 DEF Flushed, Answered
    <3>2. \A i \in DOMAIN batch[c] :
            db'[batch[c][i].key] # None \/ InDb(batch[c][i].key) => db'[batch[c][i].key] # None \/ Deleted(batch[c][i].key)'
      BY <2>1, <2>3, <2>5 DEF InDb, Deleted
    <3>. QED BY <2>1, <2>5, <3>1, <3>2 DEF Flushed, InDb, Answered, Deleted
  <2>8. Asked(c)' /\ Found(c)'
    BY <1>1, <1>3, <2>1, <2>2, <2>5 DEF Asked, Found, Got, Reading
  <2>9. DbGrows /\ acked' \in SUBSET Recs /\ gone' \in SUBSET Recs
    <3>1. ASSUME NEW k, Answered(k), InDb(k) PROVE InDb(k)'
      <4>1. k \in Keys
        BY <1>1, <3>1 DEF Answered, HistTypes, Recs
      <4>. QED BY <2>6, <3>1, <4>1
    <3>. QED BY <1>1, <2>1, <3>1 DEF DbGrows, HistTypes
  <2>10. \A r \in acked' : map'[r.key] # None \/ InDb(r.key)'
    <3> SUFFICES ASSUME NEW r \in acked PROVE map'[r.key] # None \/ InDb(r.key)'
      BY <2>1
    <3>1. r.key \in Keys
      BY <1>1 DEF HistTypes, Recs
    <3>. QED BY <1>1, <2>1, <2>6, <3>1
  <2>. QED BY <1>3, <2>7, <2>8, <2>9, <2>10, ClerkFindsIf
<1>. QED
  BY <1>4, <1>6, <1>7, <1>8, <1>9, <1>10, <1>11, <1>12, <1>13 DEF ClerkNext

\* The uring thread and the kernel touch neither the index nor the database.
LEMMA UringFinds ==
  ASSUME FInv, UNCHANGED <<clientVars, mailVars, clerkVars, map, db, acked, gone>>
  PROVE  FInv'
<1> USE DEF clientVars, mailVars, clerkVars
<1>1. HistTypes'
  BY DEF FInv, HistTypes
<1>2. ASSUME NEW c \in Clients PROVE Asked(c)' /\ Flushed(c)' /\ Found(c)'
  <2>1. Asked(c) /\ Flushed(c) /\ Found(c)
    BY DEF FInv
  <2>. QED BY <2>1 DEF Asked, Flushed, Found, Reading, Got, InDb, Deleted, Answered
<1>3. \A r \in acked' : map'[r.key] # None \/ InDb(r.key)'
  BY DEF FInv, InDb, Deleted
<1>. QED BY <1>1, <1>2, <1>3 DEF FInv

LEMMA UringRest ==
  ASSUME UringNext \/ KernelNext \/ UNCHANGED vars
  PROVE  UNCHANGED <<clientVars, mailVars, clerkVars, mem, map, db, acked, gone>>
  BY DEF UringNext, KernelNext, UringDequeue, UringSubmit, UringFree, WriteDone, WriteFailed, histVars, vars

LEMMA FInvStep == ~DbFails /\ IInv /\ FInv /\ [Next]_vars => FInv'
<1> SUFFICES ASSUME ~DbFails, IInv, FInv, [Next]_vars PROVE FInv'
  OBVIOUS
<1>1. ASSUME NEW c \in Clients, ClientNext(c) \/ ClerkNext(c) PROVE FInv'
  BY <1>1, ClientFinds, ClerkFinds
<1>2. CASE UringNext \/ KernelNext \/ UNCHANGED vars
  BY <1>2, UringRest, UringFinds
<1>. QED BY <1>1, <1>2 DEF Next

(* With a database that does not fail, a GET that begins after a write of     *)
(* its key was answered comes back empty only if the key was deleted: Run     *)
(* stores the batch before it erases the index entries and looks in the       *)
(* index before the database, so that no interleaving of clerks hides a       *)
(* record.                                                                    *)
THEOREM GetFindsCorrect == ~DbFails /\ Spec => []GetFinds
<1>1. IInv /\ FInv => GetFinds
  BY DEF FInv, Found, GetFinds, Deleted
<1>2. ASSUME ~DbFails PROVE Spec => []FInv
  <2>1. FInv /\ IInv /\ [Next]_vars => FInv'
    BY <1>2, FInvStep
  <2>. QED BY <2>1, FInit, Invariance, PTL DEF Spec
<1>3. ASSUME ~DbFails PROVE Spec => []GetFinds
  BY <1>1, <1>2, <1>3, Invariance, PTL
<1>. QED BY <1>3

-----------------------------------------------------------------------------
(* The only writer of a key reads what it wrote last. *)

\* What client d alone writes is left alone.
Untouched(d) ==
  /\ \A k \in Keys : Sole(d, k) => map'[k] = map[k] /\ db'[k] = db[k]
  /\ \A r \in Recs : Sole(d, r.key) => (r \in acked' <=> r \in acked) /\ (r \in gone' <=> r \in gone)
  /\ \A r \in Recs : r.by = d => (r \in acked' <=> r \in acked)
  /\ Holds(d) => \A e \in mem[kcur[d].chunk] : e.off < kcur[d].head => e \in mem'[kcur[d].chunk]

LEMMA NewestSame ==
  ASSUME NEW d \in Clients, HistTypes, HistTypes', Untouched(d), NEW k, Sole(d, k)
  PROVE  /\ \A r : Newest(k, r)' <=> Newest(k, r)
         /\ {r \in acked' : r.key = k} = {r \in acked : r.key = k}
         /\ {r \in gone' : r.key = k} = {r \in gone : r.key = k}
<1>1. /\ \A r : r.key = k => (r \in acked' <=> r \in acked)
      /\ \A r : r.key = k => (r \in gone' <=> r \in gone)
  BY DEF HistTypes, Untouched
<1>. QED BY <1>1 DEF Newest

\* Steps that leave the batch alone and do not change its state.
LEMMA BatchOther ==
  ASSUME IInv, DInv, HistTypes, HistTypes', NEW d \in Clients, BatchNewest(d), Indexed(d), Untouched(d),
         UNCHANGED <<kcur[d], batch[d]>>, Holds(d)' <=> Holds(d),
         kpc'[d] = "erase" <=> kpc[d] = "erase", kpc[d] = "erase" => ki'[d] = ki[d],
         \A i \in DOMAIN batch[d] : kpc'[d] = "putbatch" /\ i < ki'[d] => kpc[d] = "putbatch" /\ i < ki[d]
  PROVE  BatchNewest(d)' /\ Indexed(d)'
<1>1. \A i \in DOMAIN batch[d] : batch[d][i].key \in Keys /\ batch[d][i].off \in Nat /\ batch[d][i].len \in Lens
  <2>1. batch[d] \in Seq(Metas)
    BY DEF IInv, TypeOK, ClerkTypes
  <2>2. \A i \in DOMAIN batch[d] : batch[d][i] \in Metas
    BY <2>1
  <2>. QED BY <2>2 DEF Metas
<1>2. BatchNewest(d)'
  <2> SUFFICES ASSUME NEW i \in DOMAIN batch[d], LastOf(d, i), Sole(d, batch[d][i].key),
                      NEW r \in acked', Newest(batch[d][i].key, r)'
               PROVE  /\ Holds(d)' => EntryOf(d, i, r)'
                      /\ kpc'[d] = "erase" \/ (kpc'[d] = "putbatch" /\ i < ki'[d]) => db'[batch[d][i].key] = r
    BY DEF BatchNewest, LastOf, Newest
  <2>1. Newest(batch[d][i].key, r) /\ r \in acked
    BY NewestSame DEF Newest
  <2>2. /\ Holds(d) => EntryOf(d, i, r)
        /\ kpc[d] = "erase" \/ (kpc[d] = "putbatch" /\ i < ki[d]) => db[batch[d][i].key] = r
    BY <2>1 DEF BatchNewest
  <2>3. db'[batch[d][i].key] = db[batch[d][i].key]
    BY <1>1 DEF Untouched
  <2>4. Holds(d) => EntryOf(d, i, r)'
    <3> SUFFICES ASSUME Holds(d) PROVE EntryOf(d, i, r)'
      OBVIOUS
    <3> DEFINE b == batch[d][i]
               e == [off |-> b.off, rec |-> r]
    <3>1. e \in mem[kcur[d].chunk] /\ b.len = r.len
      BY <2>2 DEF EntryOf
    <3>2. b.off + b.len <= kcur[d].head /\ b.off \in Nat /\ b.len \in Nat /\ b.len > 0 /\ kcur[d].head \in Nat
      BY <1>1, LenIs DEF DInv, Filled, IInv, TypeOK, ClerkTypes, Cursors
    <3>3. e.off < kcur[d].head
      <4>1. e.off = b.off
        OBVIOUS
      <4> HIDE DEF e, b
      <4>. QED BY <3>2, <4>1
    <3>4. e \in mem'[kcur[d].chunk]
      <4> HIDE DEF e
      <4>. QED BY <3>1, <3>3 DEF Untouched
    <3>. QED BY <3>1, <3>4 DEF EntryOf
  <2>. QED BY <2>2, <2>3, <2>4
<1>3. Indexed(d)'
  <2>1. Holds(d)' /\ kpc'[d] # "erase" =>
          \A i \in DOMAIN batch[d] : Sole(d, batch[d][i].key) => map'[batch[d][i].key] # None
    BY <1>1 DEF Indexed, Untouched
  <2>2. ASSUME NEW k \in Keys, Sole(d, k), map'[k] # None
        PROVE  /\ Holds(d)'
               /\ \E i \in DOMAIN batch'[d] :
                    /\ batch'[d][i].key = k /\ LastOf(d, i)' /\ (kpc'[d] = "erase" => ki'[d] <= i)
                    /\ map'[k].chunk = kcur'[d].chunk /\ map'[k].off = batch'[d][i].off
                    /\ map'[k].len = batch'[d][i].len
    <3>1. map'[k] = map[k]
      BY <2>2 DEF Untouched
    <3>2. PICK i \in DOMAIN batch[d] :
                    /\ batch[d][i].key = k /\ LastOf(d, i) /\ (kpc[d] = "erase" => ki[d] <= i)
                    /\ map[k].chunk = kcur[d].chunk /\ map[k].off = batch[d][i].off
                    /\ map[k].len = batch[d][i].len
      BY <2>2, <3>1 DEF Indexed
    <3>3. LastOf(d, i)' /\ Holds(d)
      BY <2>2, <3>1, <3>2 DEF LastOf, Indexed
    <3>. QED BY <3>1, <3>2, <3>3
  <2>3. ASSUME NEW k \in Keys, Sole(d, k), map'[k] = None, NEW r \in acked', Newest(k, r)'
        PROVE  r \in gone' \/ db'[k] = r
    <3>1. Newest(k, r) /\ r \in acked /\ map[k] = None /\ db'[k] = db[k]
      BY <2>3, NewestSame DEF Newest, Untouched
    <3>2. r \in gone \/ db[k] = r
      BY <2>3, <3>1 DEF Indexed
    <3>3. r \in gone => r \in gone'
      BY <2>3, <3>1 DEF Untouched, HistTypes, Newest
    <3>. QED BY <3>1, <3>2, <3>3
  <2>. QED BY <2>1, <2>2, <2>3 DEF Indexed
<1>. QED BY <1>2, <1>3

\* What holds of a client and its clerk while others move.
LEMMA ReadOther ==
  ASSUME IInv, DInv, HistTypes, HistTypes', NEW d \in Clients, Asked(d),
         Ordered(d), BatchNewest(d), Indexed(d), Current(d), Same(d), rd'[d] = rd[d], Untouched(d)
  PROVE  Ordered(d)' /\ BatchNewest(d)' /\ Indexed(d)' /\ Current(d)'
<1>1. BatchNewest(d)' /\ Indexed(d)'
  <2>1. Holds(d)' <=> Holds(d)
    BY DEF Same, Holds
  <2>. QED BY <2>1, BatchOther DEF Same
<1>2. Ordered(d)'
  <2>1. \A r \in acked' : r.by = d => r \in acked
    BY DEF HistTypes, Untouched
  <2>. QED BY <2>1 DEF Ordered, Fresh, Same, Writing
<1>3. Current(d)'
  <2>1. ASSUME Reading(d)', Sole(d, req'[d].key)
        PROVE  /\ rd'[d].before = {r \in acked' : r.key = req'[d].key}
               /\ rd'[d].dead = {r \in gone' : r.key = req'[d].key}
               /\ kpc'[d] = "copy" => kloc'[d] = map'[req'[d].key]
               /\ kpc'[d] = "dbget" => map'[req'[d].key] = None
               /\ rep'[d] # None =>
                    \A r \in rd'[d].before \ rd'[d].dead :
                      (\A o \in rd'[d].before : o.seq <= r.seq) => rep'[d].res = r
    <3>1. Reading(d) /\ Sole(d, req[d].key) /\ req'[d] = req[d] /\ req[d].key \in Keys
      <4>1. Reading(d) /\ req'[d] = req[d]
        BY <2>1 DEF Reading, Same
      <4>2. req[d].key \in Keys
        BY <4>1 DEF Asked, Reads
      <4>. QED BY <2>1, <4>1, <4>2
    <3>2. /\ {r \in acked' : r.key = req[d].key} = {r \in acked : r.key = req[d].key}
          /\ {r \in gone' : r.key = req[d].key} = {r \in gone : r.key = req[d].key}
          /\ map'[req[d].key] = map[req[d].key]
      BY <3>1, NewestSame DEF Untouched
    <3>. QED BY <3>1, <3>2 DEF Current, Same
  <2>2. Got(d)' /\ Sole(d, rd'[d].key) =>
          \A r \in rd'[d].before \ rd'[d].dead : (\A o \in rd'[d].before : o.seq <= r.seq) => rd'[d].res = r
    BY DEF Current, Got, Same
  <2>. QED BY <2>1, <2>2 DEF Current
<1>. QED BY <1>1, <1>2, <1>3

\* Between two requests the client and its clerk have the same cursor.
LEMMA IdleHolds ==
  ASSUME NEW c \in Clients, Connection(c), Synced(c), cpc[c] = "idle"
  PROVE  Holds(c) /\ ccur[c].chunk = kcur[c].chunk /\ ccur[c].head = kcur[c].head
<1>1. ~InAlloc(c) /\ ~Writing(c) /\ kpc[c] \in {"spin", "exit"}
  BY DEF InAlloc, Writing, Connection
<1>2. kpc[c] = "spin" /\ kcur[c].chunk # None
  BY <1>1 DEF Connection
<1>. QED BY <1>1, <1>2 DEF Synced, Holds

\* A client writes no place that a clerk knows of.
LEMMA ClientMem ==
  ASSUME IInv, DInv, NEW c \in Clients, ClientNext(c), NEW d \in Clients, Holds(d)
  PROVE  \A e \in mem[kcur[d].chunk] : e.off < kcur[d].head => e \in mem'[kcur[d].chunk]
<1>1. ClientTypes /\ MailTypes /\ ClerkTypes /\ StoreTypes /\ Connection(c) /\ Synced(c) /\ Filled(c)
  BY DEF IInv, TypeOK, Connections, DInv
<1>2. ASSUME NEW r \in Recs, NEW cur, Holds(c), cur.chunk = kcur[c].chunk, cur.head = kcur[c].head,
             mem' = [mem EXCEPT ![cur.chunk] = Store(@, cur.head, r)]
      PROVE  \A e \in mem[kcur[d].chunk] : e.off < kcur[d].head => e \in mem'[kcur[d].chunk]
  <2> DEFINE ch == kcur[c].chunk
             h == kcur[c].head
  <2>1. ch \in Chunks /\ h \in Nat /\ mem[ch] \in SUBSET Entries
    BY <1>1, <1>2 DEF Holds, ClerkTypes, Cursors, StoreTypes
  <2>2. Apart(mem[ch]) /\ Tidy(mem[ch], h)
    BY <1>1, <1>2, <2>1 DEF DInv, Filled
  <2>3. \A e \in mem[ch] : e.off < h => e \in Store(mem[ch], h, r)
    BY <2>1, <2>2, StoreIs
  <2>4. mem'[ch] = Store(mem[ch], h, r) /\ \A x \in Chunks : x # ch => mem'[x] = mem[x]
    <3>1. mem' = [mem EXCEPT ![ch] = Store(mem[ch], h, r)]
      BY <1>2
    <3> HIDE DEF ch, h
    <3>. QED BY <1>1, <2>1, <3>1 DEF StoreTypes
  <2>5. CASE d = c
    <3> HIDE DEF ch, h
    <3>1. kcur[d].chunk = ch /\ kcur[d].head = h
      BY <2>5 DEF ch, h
    <3>. QED BY <2>3, <2>4, <3>1
  <2>6. CASE d # c
    <3>1. kcur[d].chunk # ch /\ kcur[d].chunk \in Chunks
      BY <1>1, <1>2, <2>6 DEF IInv, ChunkOwnership, ClerkChunks, Holds, ClerkTypes, Cursors
    <3>. QED BY <2>4, <3>1
  <2>. QED BY <2>5, <2>6
<1>3. ASSUME NEW k \in WriteKeys[c], NEW n \in Lens, SendWrite(c, k, n)
      PROVE  \A e \in mem[kcur[d].chunk] : e.off < kcur[d].head => e \in mem'[kcur[d].chunk]
  <2> DEFINE r == [key |-> k, by |-> c, seq |-> nops[c] + 1, len |-> n]
  <2>1. r \in Recs /\ cpc[c] = "idle"
    <3>1. k \in Keys
      BY ConstantsOK
    <3>2. nops[c] + 1 \in Nat
      BY <1>1 DEF ClientTypes
    <3>3. cpc[c] = "idle"
      BY <1>3 DEF SendWrite
    <3>. QED BY <3>1, <3>2, <3>3 DEF Recs
  <2>2. Holds(c) /\ ccur[c].chunk = kcur[c].chunk /\ ccur[c].head = kcur[c].head
    BY <1>1, <2>1, IdleHolds
  <2>3. CASE mem' = mem
    BY <2>3
  <2>4. CASE WriteRecord(c, r, ccur[c])
    <3>1. mem' = [mem EXCEPT ![ccur[c].chunk] = Store(@, ccur[c].head, r)]
      BY <2>4 DEF WriteRecord
    <3> HIDE DEF r
    <3>. QED BY <1>2, <2>1, <2>2, <3>1
  <2>. QED BY <1>3, <2>3, <2>4 DEF SendWrite
<1>4. CASE ReturnAlloc(c)
  <2> DEFINE cur == [chunk |-> rep[c].chunk, head |-> 0]
  <2>1. cpc[c] = "call" /\ rep[c] # None /\ req[c].op = "ALLOC"
    BY <1>4 DEF ReturnAlloc
  <2>2. Holds(c) /\ cur.chunk = kcur[c].chunk /\ cur.head = kcur[c].head
    BY <1>1, <2>1 DEF Synced, InAlloc, Connection, Holds
  <2>3. CASE mem' = mem
    BY <2>3
  <2>4. CASE pend[c] # None /\ WriteRecord(c, pend[c], cur)
    <3>1. mem' = [mem EXCEPT ![cur.chunk] = Store(@, cur.head, pend[c])] /\ pend[c] \in Recs
      BY <1>1, <2>4 DEF WriteRecord, ClientTypes
    <3> HIDE DEF cur
    <3>. QED BY <1>2, <2>2, <3>1
  <2>. QED BY <1>4, <2>3, <2>4 DEF ReturnAlloc
<1>5. CASE mem' = mem
  BY <1>5
<1>. QED BY <1>3, <1>4, <1>5 DEF ClientNext, Connect, SendGet, SendDelete, SendClose, Return

LEMMA ClientReads ==
  ASSUME IInv, DInv, FInv, FInv', WInv, NEW c \in Clients, ClientNext(c)
  PROVE  WInv'
<1> USE DEF clientVars, mailVars, clerkVars, uringVars, histVars
<1>1. /\ ClientTypes /\ MailTypes /\ Connection(c) /\ Asked(c) /\ Synced(c)
      /\ Ordered(c) /\ BatchNewest(c) /\ Indexed(c) /\ Current(c)
  BY DEF IInv, TypeOK, Connections, FInv, WInv, DInv
<1>2. UNCHANGED <<kpc, batch, ki, kloc, kcur, map, db, acked, gone>>
  BY DEF ClientNext, Connect, SendWrite, SendGet, SendDelete, SendClose, ReturnAlloc, Return
<1>3. HistTypes /\ HistTypes'
  BY DEF FInv
<1>4. ASSUME NEW d \in Clients PROVE Untouched(d)
  BY <1>2, ClientMem DEF Untouched
<1>5. BatchNewest(c)' /\ Indexed(c)'
  <2>1. Holds(c)' <=> Holds(c)
    BY <1>2 DEF Holds
  <2>. QED BY <1>1, <1>2, <1>3, <1>4, <2>1, BatchOther
<1>6. cpc'[c] # "idle" /\ ~Reading(c)' => Current(c)'
  BY DEF Current, Got
<1>7. \A r \in acked : r.by = c => r.seq \in Nat /\ r.seq <= nops[c] /\ r.key \in WriteKeys[c] /\ nops[c] \in Nat
  BY <1>1, <1>3 DEF HistTypes, Recs, Ordered, ClientTypes
<1>8. /\ Ordered(c)' /\ Current(c)'
      /\ \A d \in Clients : d # c => rd'[d] = rd[d]
  <2>1. CASE Connect(c)
    <3>1. /\ cpc'[c] = "call" /\ req'[c] = [op |-> "ALLOC"] /\ UNCHANGED <<nops, pend, rd>>
      BY <1>1, <2>1 DEF Connect, Call, ClientTypes, MailTypes
    <3>2. ~Reading(c)' /\ ~Writing(c)' /\ req'[c].op # "DELETE"
      BY <3>1 DEF Reading, Writing
    <3>. QED BY <1>1, <1>2, <1>6, <3>1, <3>2 DEF Ordered, Fresh
  <2>2. ASSUME NEW k \in WriteKeys[c], NEW n \in Lens, SendWrite(c, k, n)
        PROVE  Ordered(c)' /\ Current(c)' /\ \A d \in Clients : d # c => rd'[d] = rd[d]
    <3> DEFINE r == [key |-> k, by |-> c, seq |-> nops[c] + 1, len |-> n]
    <3>1. r.key = k /\ r.seq = nops[c] + 1
      OBVIOUS
    <3>2. /\ cpc[c] = "idle" /\ cpc' = [cpc EXCEPT ![c] = "call"] /\ nops' = [nops EXCEPT ![c] = @ + 1]
          /\ rd' = [rd EXCEPT ![c] = None]
          /\ \/ pend' = [pend EXCEPT ![c] = r] /\ Call(c, [op |-> "ALLOC"])
             \/ pend' = [pend EXCEPT ![c] = None] /\ Call(c, [op |-> "PUT", rec |-> r])
      BY <2>2 DEF SendWrite, WriteRecord
    <3> HIDE DEF r
    <3>3. /\ cpc'[c] = "call" /\ nops'[c] = nops[c] + 1 /\ \A d \in Clients : d # c => rd'[d] = rd[d]
          /\ \/ pend'[c] = r /\ req'[c] = [op |-> "ALLOC"]
             \/ pend'[c] = None /\ req'[c] = [op |-> "PUT", rec |-> r]
      BY <1>1, <1>3, <3>2 DEF Call, ClientTypes, MailTypes, HistTypes
    <3>4. ~Reading(c)' /\ req'[c].op # "DELETE"
      BY <3>3 DEF Reading
    <3>5. r.seq = nops'[c] /\ r.key \in WriteKeys[c] /\ \A o \in acked' : o.by = c => o.seq < nops'[c]
      BY <1>2, <1>7, <3>1, <3>3
    <3>6. (pend'[c] # None => pend'[c] = r) /\ (Writing(c)' => req'[c].rec = r)
      BY <3>3 DEF Writing
    <3>7. \A o \in acked' : o.by = c => o.seq <= nops'[c] /\ o.key \in WriteKeys[c]
      BY <1>2, <1>7, <3>3
    <3>8. (pend'[c] # None => Fresh(c, pend[c])') /\ (Writing(c)' => Fresh(c, req[c].rec)')
      BY <3>5, <3>6 DEF Fresh
    <3>9. Ordered(c)'
      BY <1>1, <1>2, <3>4, <3>7, <3>8 DEF Ordered
    <3>. QED BY <1>6, <3>3, <3>4, <3>9
  <2>3. ASSUME NEW rq \in Requests, rq.op \in {"GET", "DELETE", "CLOSE"}, Call(c, rq), cpc[c] = "idle",
               rq.op = "DELETE" => rq.key \in WriteKeys[c],
               UNCHANGED pend, nops' = nops \/ nops' = [nops EXCEPT ![c] = @ + 1]
        PROVE  Ordered(c)'
    <3>1. /\ req'[c] = rq /\ nops'[c] \in {nops[c], nops[c] + 1} /\ pend'[c] = None
      BY <1>1, <2>3 DEF Call, ClientTypes, MailTypes, Synced, InAlloc
    <3>2. \A o \in acked' : o.by = c => o.seq <= nops'[c] /\ o.key \in WriteKeys[c]
      BY <1>2, <1>7, <3>1
    <3>3. ~Writing(c)'
      BY <2>3, <3>1 DEF Writing
    <3>. QED BY <1>1, <1>2, <2>3, <3>1, <3>2, <3>3 DEF Ordered
  <2>4. ASSUME NEW k \in Keys, SendGet(c, k)
        PROVE  Ordered(c)' /\ Current(c)' /\ \A d \in Clients : d # c => rd'[d] = rd[d]
    <3> DEFINE w == [key |-> k, res |-> None, before |-> {r \in acked : r.key = k}, dead |-> {r \in gone : r.key = k}]
    <3>1. /\ rd' = [rd EXCEPT ![c] = w] /\ Call(c, [op |-> "GET", key |-> k]) /\ cpc' = [cpc EXCEPT ![c] = "call"]
          /\ cpc[c] = "idle" /\ nops' = [nops EXCEPT ![c] = @ + 1] /\ UNCHANGED pend
      BY <2>4 DEF SendGet
    <3>2. w.before = {r \in acked : r.key = k} /\ w.dead = {r \in gone : r.key = k}
      OBVIOUS
    <3> HIDE DEF w
    <3>3. rd'[c] = w /\ cpc'[c] = "call" /\ req'[c].key = k /\ rep'[c] = None
      BY <1>1, <1>3, <3>1 DEF Call, ClientTypes, MailTypes, HistTypes
    <3>4. kpc[c] \notin {"copy", "dbget"}
      BY <1>1, <3>1 DEF Connection
    <3>5. Current(c)'
      BY <1>2, <3>2, <3>3, <3>4 DEF Current, Got
    <3>6. Ordered(c)'
      BY <2>3, <3>1, RequestTypes
    <3>7. \A d \in Clients : d # c => rd'[d] = rd[d]
      BY <1>3, <3>1 DEF HistTypes
    <3>. QED BY <3>5, <3>6, <3>7
  <2>5. ASSUME NEW k \in WriteKeys[c], SendDelete(c, k)
        PROVE  Ordered(c)' /\ Current(c)' /\ \A d \in Clients : d # c => rd'[d] = rd[d]
    <3>1. /\ Call(c, [op |-> "DELETE", key |-> k]) /\ cpc' = [cpc EXCEPT ![c] = "call"] /\ cpc[c] = "idle"
          /\ nops' = [nops EXCEPT ![c] = @ + 1] /\ UNCHANGED pend /\ rd' = [rd EXCEPT ![c] = None]
      BY <2>5 DEF SendDelete
    <3>2. k \in Keys
      BY ConstantsOK
    <3>3. Ordered(c)'
      BY <2>3, <3>1, <3>2, RequestTypes
    <3>4. cpc'[c] = "call" /\ ~Reading(c)' /\ \A d \in Clients : d # c => rd'[d] = rd[d]
      BY <1>1, <1>3, <3>1 DEF Call, ClientTypes, MailTypes, HistTypes, Reading
    <3>. QED BY <1>6, <3>3, <3>4
  <2>6. CASE SendClose(c)
    <3>1. /\ Call(c, [op |-> "CLOSE"]) /\ cpc' = [cpc EXCEPT ![c] = "closing"] /\ cpc[c] = "idle"
          /\ UNCHANGED <<nops, pend>> /\ rd' = [rd EXCEPT ![c] = None]
      BY <2>6 DEF SendClose
    <3>2. Ordered(c)'
      BY <2>3, <3>1, RequestTypes
    <3>3. cpc'[c] = "closing" /\ ~Reading(c)' /\ \A d \in Clients : d # c => rd'[d] = rd[d]
      BY <1>1, <1>3, <3>1 DEF Call, ClientTypes, MailTypes, HistTypes, Reading
    <3>. QED BY <1>6, <3>2, <3>3
  <2>7. CASE ReturnAlloc(c)
    <3>1. cpc[c] = "call" /\ rep[c] # None /\ req[c].op = "ALLOC" /\ rd' = rd /\ nops' = nops /\ rd[c] = None
      BY <1>1, <2>7 DEF ReturnAlloc, Asked
    <3>2. \/ /\ pend[c] = None /\ pend' = pend /\ req' = req
          \/ /\ pend[c] # None /\ pend'[c] = None /\ req'[c] = [op |-> "PUT", rec |-> pend[c]]
      BY <1>1, <2>7, <3>1 DEF ReturnAlloc, WriteRecord, Call, ClientTypes, MailTypes
    <3>3. ~Reading(c)' /\ ~Got(c)' /\ req'[c].op # "DELETE" /\ pend'[c] = None
      BY <3>1, <3>2 DEF Reading, Got
    <3>4. Writing(c)' => pend[c] # None /\ req'[c].rec = pend[c]
      BY <3>1, <3>2 DEF Writing
    <3>5. Writing(c)' => Fresh(c, req[c].rec)'
      BY <1>1, <1>2, <3>1, <3>4 DEF Ordered, Fresh
    <3>6. Ordered(c)'
      BY <1>1, <1>2, <3>1, <3>3, <3>5 DEF Ordered
    <3>. QED BY <3>1, <3>3, <3>6 DEF Current
  <2>8. CASE Return(c)
    <3>1. /\ cpc[c] = "call" /\ rep[c] # None /\ cpc' = [cpc EXCEPT ![c] = "idle"] /\ UNCHANGED <<nops, pend, req, sent>>
          /\ rd' = IF req[c].op = "GET" THEN [rd EXCEPT ![c].res = rep[c].res] ELSE rd
      BY <2>8, Zenon DEF Return
    <3>2. Ordered(c)'
      BY <1>1, <1>2, <3>1 DEF Ordered, Fresh, Writing
    <3>3. cpc'[c] = "idle" /\ ~Reading(c)'
      BY <1>1, <3>1 DEF ClientTypes, Reading
    <3>4. CASE req[c].op = "GET"
      <4> DEFINE w == [rd[c] EXCEPT !.res = rep[c].res]
      <4>1. rd[c] \in Reads /\ rd[c].key = req[c].key /\ Reading(c)
        BY <1>1, <3>1, <3>4 DEF Asked, Reading
      <4>2. rep[c].res \in Vals \cup {None}
        BY <1>1, <3>1 DEF MailTypes, Replies
      <4>3. w.key = rd[c].key /\ w.before = rd[c].before /\ w.dead = rd[c].dead /\ w.res = rep[c].res
        BY <4>1, <4>2, ReadEnds
      <4>4. rd' = [rd EXCEPT ![c] = w]
        BY <3>1, <3>4, Zenon
      <4> HIDE DEF w
      <4>5. rd'[c] = w /\ \A d \in Clients : d # c => rd'[d] = rd[d]
        BY <1>3, <4>4 DEF HistTypes
      <4>6. Sole(c, rd[c].key) => \A r \in rd[c].before \ rd[c].dead :
              (\A o \in rd[c].before : o.seq <= r.seq) => rep[c].res = r
        BY <1>1, <3>1, <4>1 DEF Current
      <4>. QED BY <3>2, <3>3, <4>3, <4>5, <4>6 DEF Current
    <3>5. CASE req[c].op # "GET"
      <4>1. rd' = rd /\ rd[c] = None
        BY <1>1, <3>1, <3>5 DEF Asked
      <4>. QED BY <3>2, <3>3, <4>1 DEF Current, Got
    <3>. QED BY <3>4, <3>5
  <2>. QED BY <2>1, <2>2, <2>4, <2>5, <2>6, <2>7, <2>8 DEF ClientNext
<1>9. ASSUME NEW d \in Clients, d # c PROVE Ordered(d)' /\ BatchNewest(d)' /\ Indexed(d)' /\ Current(d)'
  <2>1. Asked(d) /\ Ordered(d) /\ BatchNewest(d) /\ Indexed(d) /\ Current(d)
    BY DEF FInv, WInv
  <2>2. Same(d) /\ rd'[d] = rd[d]
    BY <1>8, <1>9, ClientSame DEF IInv
  <2>. QED BY <1>3, <1>4, <2>1, <2>2, ReadOther
<1>. QED BY <1>5, <1>8, <1>9 DEF WInv

\* A step of clerk c, from what it does to the clerk's own state.
LEMMA ClerkReadsIf ==
  ASSUME IInv, DInv, FInv, FInv', WInv, NEW c \in Clients, ClerkNext(c), UNCHANGED <<rd, mem>>,
         \A d \in Clients : d # c => Untouched(d),
         Ordered(c)', BatchNewest(c)', Indexed(c)', Current(c)'
  PROVE  WInv'
<1>1. ASSUME NEW d \in Clients, d # c PROVE Ordered(d)' /\ BatchNewest(d)' /\ Indexed(d)' /\ Current(d)'
  <2>1. Asked(d) /\ Ordered(d) /\ BatchNewest(d) /\ Indexed(d) /\ Current(d) /\ HistTypes /\ HistTypes'
    BY DEF FInv, WInv
  <2>2. Same(d) /\ rd'[d] = rd[d] /\ Untouched(d)
    BY <1>1, ClerkSame DEF IInv
  <2>. QED BY <2>1, <2>2, ReadOther
<1>. QED BY <1>1 DEF WInv

LEMMA QuietUntouched ==
  ASSUME UNCHANGED <<map, db, acked, gone, mem>>, NEW d \in Clients
  PROVE  Untouched(d)
  BY DEF Untouched

\* Steps that change neither the index nor the database.
LEMMA ServeReads ==
  ASSUME IInv, DInv, FInv, FInv', WInv, NEW c \in Clients,
         \/ ClerkGet(c) \/ GetCopy(c) \/ GetDb(c) \/ CloseHandshake(c) \/ ClerkAlloc(c) \/ ClerkClose(c)
         \/ Enqueue(c) \/ AllocChunk(c)
  PROVE  WInv'
<1> USE DEF clientVars, mailVars, clerkVars, uringVars, histVars
<1>1. /\ ClientTypes /\ MailTypes /\ ClerkTypes /\ StoreTypes /\ Connection(c) /\ Asked(c) /\ Synced(c) /\ Filled(c)
      /\ Ordered(c) /\ BatchNewest(c) /\ Indexed(c) /\ Current(c) /\ HistTypes /\ HistTypes'
  BY DEF IInv, TypeOK, Connections, FInv, WInv, DInv
<1>2. UNCHANGED <<map, db, acked, gone, mem, rd, req, pend, nops>>
  BY DEF ClerkGet, GetCopy, GetDb, CloseHandshake, ClerkAlloc, ClerkClose, Enqueue, AllocChunk
<1>3. \A d \in Clients : Untouched(d)
  BY <1>2, QuietUntouched
<1>4. (sent'[c] => sent[c]) /\ batch'[c] \in {batch[c], << >>}
  BY <1>1 DEF ClerkGet, GetCopy, GetDb, CloseHandshake, ClerkAlloc, ClerkClose, Enqueue, AllocChunk,
              Receive, Taken, MailTypes, ClerkTypes
<1>5. Ordered(c)'
  <2>1. \A i \in DOMAIN batch'[c] : i \in DOMAIN batch[c] /\ batch'[c][i] = batch[c][i]
    BY <1>4
  <2>. QED BY <1>1, <1>2, <1>4, <2>1 DEF Ordered, Fresh, Writing
<1>6. ASSUME NEW op \in {"PUT", "GET", "DELETE", "ALLOC", "CLOSE"}, Receive(c, op)
      PROVE  /\ kpc[c] = "spin" /\ req[c].op = op /\ rep[c] = None
             /\ cpc[c] \in {"call", "closing"} /\ (op = "GET" => Reading(c))
  BY <1>1, <1>6 DEF Receive, MailTypes, Connection, Reading
<1>7. ASSUME ~Reading(c)', cpc'[c] # "idle" PROVE Current(c)'
  BY <1>7 DEF Current, Got
<1>8. ClerkNext(c)
  BY DEF ClerkNext
<1>9. ASSUME UNCHANGED <<kcur, batch>>, Holds(c)' <=> Holds(c),
             kpc[c] \notin {"putbatch", "erase"}, kpc'[c] # "erase", kpc'[c] = "putbatch" => ki'[c] = 1, Current(c)'
      PROVE  WInv'
  <2>1. \A i \in DOMAIN batch[c] : kpc'[c] = "putbatch" => ~(i < ki'[c])
    BY <1>1, <1>9 DEF ClerkTypes
  <2>2. BatchNewest(c)' /\ Indexed(c)'
    BY <1>1, <1>3, <1>9, <2>1, BatchOther
  <2>. QED BY <1>2, <1>3, <1>5, <1>8, <1>9, <2>2, ClerkReadsIf
<1>10. CASE ClerkGet(c)
  <2>1. Receive(c, "GET") /\ UNCHANGED <<cpc, rep, batch, kcur>> /\ kloc' = [kloc EXCEPT ![c] = map[req[c].key]]
    BY <1>10 DEF ClerkGet, Lookup
  <2>2. kpc' = [kpc EXCEPT ![c] = IF map[req[c].key] # None THEN "copy" ELSE "dbget"]
    BY <1>10, Zenon DEF ClerkGet, Goto, Lookup
  <2>3. Reading(c) /\ rep[c] = None /\ kpc[c] = "spin"
    BY <1>6, <2>1
  <2>4. kpc'[c] = (IF map[req[c].key] # None THEN "copy" ELSE "dbget") /\ kloc'[c] = map[req[c].key]
    BY <1>1, <2>1, <2>2 DEF ClerkTypes
  <2>5. Holds(c)' <=> Holds(c)
    BY <2>1, <2>3, <2>4 DEF Holds
  <2>6. Current(c)'
    BY <1>1, <1>2, <2>1, <2>3, <2>4 DEF Current, Reading, Got
  <2>. QED BY <1>9, <2>1, <2>3, <2>4, <2>5, <2>6
<1>11. CASE GetCopy(c) \/ GetDb(c)
  <2>1. UNCHANGED <<cpc, batch, kcur>> /\ kpc'[c] = "spin" /\ kpc[c] \in {"copy", "dbget"}
    BY <1>1, <1>11 DEF GetCopy, GetDb, Goto, ClerkTypes
  <2> DEFINE k == req[c].key
  <2>2. Reading(c) /\ k \in Keys /\ (kpc[c] = "copy" => kloc[c] # None) /\ cpc[c] = "call"
    BY <1>1, <2>1 DEF Connection, Reading, Asked, Reads
  <2>3. ASSUME Sole(c, k), NEW r \in rd[c].before \ rd[c].dead, \A o \in rd[c].before : o.seq <= r.seq
        PROVE  rep'[c].res = r
    <3>1. Newest(k, r) /\ r \in acked /\ r \notin gone
      BY <1>1, <2>2, <2>3 DEF Current, Newest
    <3>2. CASE GetCopy(c)
      <4>1. kloc[c] = map[k] /\ map[k] # None
        BY <1>1, <2>2, <2>3, <3>2 DEF Current, GetCopy
      <4>2. Holds(c)
        BY <1>1, <2>2, <2>3, <4>1 DEF Indexed
      <4>3. PICK i \in DOMAIN batch[c] :
                    /\ batch[c][i].key = k /\ LastOf(c, i)
                    /\ map[k].chunk = kcur[c].chunk /\ map[k].off = batch[c][i].off
                    /\ map[k].len = batch[c][i].len
        BY <1>1, <2>2, <2>3, <4>1 DEF Indexed
      <4>4. EntryOf(c, i, r)
        BY <1>1, <2>3, <3>1, <4>2, <4>3 DEF BatchNewest
      <4> DEFINE m == mem[kcur[c].chunk]
                 e == [off |-> batch[c][i].off, rec |-> r]
      <4>5. e \in m /\ e.off = map[k].off /\ e.rec.len = map[k].len /\ e.rec = r
        BY <4>3, <4>4 DEF EntryOf
      <4>6. m \in SUBSET Entries /\ Apart(m)
        BY <1>1, <4>2 DEF Holds, ClerkTypes, Cursors, StoreTypes, DInv
      <4>7. Load(m, map[k].off, map[k].len) = r
        <5> HIDE DEF e, m
        <5>. QED BY <4>5, <4>6, LoadIs
      <4>8. Load(mem[kloc[c].chunk], kloc[c].off, kloc[c].len) = r
        BY <4>1, <4>3, <4>7
      <4>9. rep' = [rep EXCEPT ![c] = [status |-> "OK", res |-> r, chunk |-> None]]
        BY <3>2, <4>8 DEF GetCopy, Reply
      <4>. QED BY <1>1, <4>9 DEF MailTypes
    <3>3. CASE GetDb(c)
      <4>1. map[k] = None
        BY <1>1, <2>2, <2>3, <3>3 DEF Current, GetDb
      <4>2. db[k] = r
        BY <1>1, <2>2, <2>3, <3>1, <4>1 DEF Indexed
      <4>3. rep'[c].res = db[k]
        BY <1>1, <3>3 DEF GetDb, Reply, MailTypes
      <4>. QED BY <4>2, <4>3
    <3>. QED BY <1>11, <3>2, <3>3
  <2>4. Current(c)'
    BY <1>1, <1>2, <2>1, <2>2, <2>3 DEF Current, Reading, Got
  <2>5. Holds(c)' <=> Holds(c)
    BY <2>1 DEF Holds
  <2>. QED BY <1>9, <2>1, <2>4, <2>5
<1>12. CASE CloseHandshake(c)
  <2>1. UNCHANGED <<kcur, batch>> /\ kpc[c] = "recv" /\ kpc'[c] = "exit" /\ cpc'[c] = "closed"
    BY <1>1, <1>12 DEF CloseHandshake, Goto, ClerkTypes, ClientTypes
  <2>2. Current(c)' /\ (Holds(c)' <=> Holds(c))
    BY <1>7, <2>1 DEF Reading, Holds
  <2>. QED BY <1>9, <2>1, <2>2
<1>13. CASE ClerkAlloc(c) \/ ClerkClose(c)
  <2>1. /\ UNCHANGED <<cpc, kcur, batch>>
        /\ Receive(c, "ALLOC") \/ Receive(c, "CLOSE")
        /\ \/ kpc'[c] = "putbatch" /\ ki'[c] = 1
           \/ kpc'[c] = "alloc" /\ kcur[c].chunk = None
           \/ kpc'[c] = "recv" /\ ~(kcur[c].head > 0)
    BY <1>1, <1>13 DEF ClerkAlloc, ClerkClose, StartFlush, NeedsFlush, Goto, ClerkTypes
  <2>2. kpc[c] = "spin" /\ req[c].op \in {"ALLOC", "CLOSE"} /\ cpc[c] \in {"call", "closing"}
    BY <1>6, <2>1
  <2>3. kcur[c].head \in Nat
    BY <1>1 DEF ClerkTypes, Cursors
  <2>4. Holds(c)' <=> Holds(c)
    BY <2>1, <2>2, <2>3 DEF Holds
  <2>5. Current(c)'
    BY <1>2, <1>7, <2>1, <2>2 DEF Reading
  <2>. QED BY <1>9, <2>1, <2>2, <2>4, <2>5
<1>14. CASE Enqueue(c)
  <2>1. /\ UNCHANGED <<cpc, kcur>> /\ kpc[c] = "erase" /\ ki[c] > Len(batch[c])
        /\ \/ req[c].op = "ALLOC" /\ kpc'[c] = "alloc"
           \/ req[c].op = "CLOSE" /\ kpc'[c] = "recv"
    BY <1>1, <1>14 DEF Enqueue, Goto, ClerkTypes
  <2>2. ~Holds(c)'
    BY <1>1, <2>1 DEF Holds, Connection, ClerkTypes, Cursors
  <2>3. \A i \in DOMAIN batch[c] : ~(ki[c] <= i)
    BY <1>1, <2>1 DEF ClerkTypes
  <2>4. \A k \in Keys : Sole(c, k) => map[k] = None
    BY <1>1, <2>1, <2>3 DEF Indexed
  <2>5. BatchNewest(c)' /\ Indexed(c)'
    BY <1>1, <1>2, <2>1, <2>2, <2>4 DEF BatchNewest, Indexed, Newest
  <2>6. Current(c)'
    BY <1>1, <1>2, <1>7, <2>1 DEF Reading, Connection
  <2>. QED BY <1>2, <1>3, <1>5, <1>8, <2>5, <2>6, ClerkReadsIf
<1>15. CASE AllocChunk(c)
  <2>1. UNCHANGED <<cpc, batch>> /\ kpc[c] = "alloc" /\ kpc'[c] = "spin"
    BY <1>1, <1>15 DEF AllocChunk, Goto, ClerkTypes
  <2>2. ~Holds(c) /\ batch'[c] = << >>
    BY <1>1, <2>1 DEF Holds, Synced
  <2>3. \A k \in Keys : Sole(c, k) => map[k] = None
    BY <1>1, <2>2 DEF Indexed
  <2>4. BatchNewest(c)' /\ Indexed(c)'
    BY <1>1, <1>2, <2>1, <2>2, <2>3 DEF BatchNewest, Indexed, Newest
  <2>5. Current(c)'
    BY <1>1, <1>2, <1>7, <2>1 DEF Reading, Connection
  <2>. QED BY <1>2, <1>3, <1>5, <1>8, <2>4, <2>5, ClerkReadsIf
<1>. QED BY <1>10, <1>11, <1>12, <1>13, <1>14, <1>15

\* A key that client c writes is not one that another client alone writes.
LEMMA NotSole ==
  ASSUME NEW c \in Clients, NEW d \in Clients, d # c, NEW k \in WriteKeys[c]
  PROVE  ~Sole(d, k)
  BY DEF Sole

\* A record that was answered has its key among those its writer writes.
LEMMA SoleWriter ==
  ASSUME HistTypes, WInv, NEW c \in Clients, NEW r \in acked, Sole(c, r.key)
  PROVE  r.by = c
<1>1. r.by \in Clients
  BY DEF HistTypes, Recs
<1>2. r.key \in WriteKeys[r.by]
  BY <1>1 DEF WInv, Ordered
<1>. QED BY <1>1, <1>2 DEF Sole

LEMMA PutReads ==
  ASSUME IInv, DInv, FInv, FInv', WInv, NEW c \in Clients, ClerkPut(c)
  PROVE  WInv'
<1> USE DEF clientVars, mailVars, clerkVars, uringVars, histVars
<1>1. /\ ClientTypes /\ MailTypes /\ ClerkTypes /\ StoreTypes /\ Connection(c) /\ Synced(c)
      /\ Ordered(c) /\ BatchNewest(c) /\ Indexed(c) /\ HistTypes /\ HistTypes'
  BY DEF IInv, TypeOK, Connections, FInv, WInv, DInv
<1> DEFINE r == req[c].rec
           b == [key |-> r.key, off |-> kcur[c].head, len |-> r.len]
           loc == [chunk |-> kcur[c].chunk, off |-> kcur[c].head, len |-> r.len]
<1>2. /\ Receive(c, "PUT") /\ batch' = [batch EXCEPT ![c] = Append(@, b)]
      /\ map' = [map EXCEPT ![r.key] = loc]
      /\ kcur' = [kcur EXCEPT ![c] = [chunk |-> @.chunk, head |-> @.head + Length(r)]]
      /\ acked' = acked \cup {r}
      /\ UNCHANGED <<kpc, ki, db, gone, cpc, req, rd, mem, nops, pend>>
  BY DEF ClerkPut
<1>3. /\ kpc[c] = "spin" /\ Writing(c) /\ req[c].op = "PUT" /\ sent' = [sent EXCEPT ![c] = FALSE]
      /\ cpc[c] \in {"call", "closing"} /\ req[c] \in Requests
  BY <1>1, <1>2 DEF Receive, Taken, Writing, Connection, MailTypes
<1>4. r \in Recs /\ r.key \in WriteKeys[c] /\ r.key \in Keys /\ r.by = c
  BY <1>1, <1>3, RequestFields DEF Ordered, Fresh, Synced, Recs
<1>5. r.seq = nops[c] /\ r.seq \in Nat /\ \A o \in acked : o.by = c => o.seq \in Nat /\ o.seq < r.seq
  BY <1>1, <1>3, <1>4 DEF Ordered, Fresh, HistTypes, Recs
<1>6. [off |-> kcur[c].head, rec |-> r] \in mem[kcur[c].chunk]
  BY <1>1, <1>3 DEF Synced
<1>7. kcur'[c].chunk = kcur[c].chunk /\ ~sent'[c]
  BY <1>1, <1>2, <1>3 DEF ClerkTypes, MailTypes
<1>8. kcur[c].chunk \in Chunks /\ Holds(c) /\ Holds(c)'
  BY <1>1, <1>2, <1>3, <1>7 DEF Holds, Connection, ClerkTypes, Cursors, Writing
<1>9. loc \in Locs /\ loc # None
  BY <1>1, <1>4, <1>8, ConstantsOK DEF Locs, Recs, ClerkTypes, Cursors
<1>10. b.key = r.key /\ b.off = kcur[c].head /\ b.len = r.len
       /\ loc.chunk = kcur[c].chunk /\ loc.off = kcur[c].head /\ loc.len = r.len
  OBVIOUS
<1> HIDE DEF b, loc
<1>11. /\ batch'[c] = Append(batch[c], b) /\ batch[c] \in Seq(Metas)
       /\ map'[r.key] = loc /\ \A k \in Keys : k # r.key => map'[k] = map[k]
  BY <1>1, <1>2, <1>4 DEF ClerkTypes, StoreTypes
<1>12. PICK n \in Nat :
         /\ n \in DOMAIN batch'[c] /\ batch'[c][n] = b
         /\ \A i \in DOMAIN batch'[c] : i <= n /\ (i = n \/ (i \in DOMAIN batch[c] /\ batch'[c][i] = batch[c][i]))
         /\ \A i \in DOMAIN batch[c] : i \in DOMAIN batch'[c] /\ batch'[c][i] = batch[c][i] /\ i < n /\ i \in Nat
  <2> DEFINE m == Len(batch[c]) + 1
  <2>1. /\ m \in DOMAIN batch'[c] /\ batch'[c][m] = b /\ m \in Nat
        /\ \A i \in DOMAIN batch'[c] : i <= m /\ (i = m \/ (i \in DOMAIN batch[c] /\ batch'[c][i] = batch[c][i]))
        /\ \A i \in DOMAIN batch[c] : i \in DOMAIN batch'[c] /\ batch'[c][i] = batch[c][i] /\ i < m /\ i \in Nat
    BY <1>11
  <2> HIDE DEF m
  <2>. QED BY <2>1
<1>13. \A d \in Clients : d # c => Untouched(d)
  <2> SUFFICES ASSUME NEW d \in Clients, d # c PROVE Untouched(d)
    OBVIOUS
  <2>1. ~Sole(d, r.key)
    BY <1>4, NotSole
  <2>2. \A k \in Keys : Sole(d, k) => map'[k] = map[k] /\ db'[k] = db[k]
    BY <1>2, <1>11, <2>1
  <2>3. \A x : (Sole(d, x.key) \/ x.by = d) => (x \in acked' <=> x \in acked)
    BY <1>2, <1>4, <2>1
  <2>. QED BY <1>2, <2>2, <2>3 DEF Untouched
<1>14. Ordered(c)'
  <2>1. \A o \in acked' : o.by = c => o.seq <= nops'[c] /\ o.key \in WriteKeys[c]
    BY <1>1, <1>2, <1>4, <1>5 DEF Ordered
  <2>2. pend'[c] = None /\ ~Writing(c)'
    BY <1>1, <1>2, <1>3, <1>7 DEF Synced, InAlloc, Writing
  <2>3. \A i \in DOMAIN batch'[c] : batch'[c][i].key \in WriteKeys[c]
    BY <1>1, <1>4, <1>10, <1>12 DEF Ordered
  <2>. QED BY <1>7, <2>1, <2>2, <2>3 DEF Ordered
<1>15. ASSUME NEW x, Newest(r.key, x)', Sole(c, r.key) PROVE x = r
  <2>1. x \in acked' /\ x.key = r.key
    BY <1>2, <1>15 DEF Newest
  <2>2. r.seq <= x.seq
    BY <1>2, <1>15 DEF Newest
  <2>3. x \in acked => x.by = c
    BY <1>1, <1>15, <2>1, SoleWriter
  <2>. QED BY <1>2, <1>5, <2>1, <2>2, <2>3
<1>16. ASSUME NEW k, k # r.key, NEW x PROVE Newest(k, x)' <=> Newest(k, x)
  BY <1>2, <1>16 DEF Newest
<1>17. BatchNewest(c)'
  <2> SUFFICES ASSUME NEW i \in DOMAIN batch'[c], LastOf(c, i)', Sole(c, batch'[c][i].key),
                      NEW x \in acked', Newest(batch[c][i].key, x)'
               PROVE  EntryOf(c, i, x)'
    BY <1>2, <1>3 DEF BatchNewest
  <2>1. CASE i = n
    <3>1. batch'[c][i] = b
      BY <1>12, <2>1
    <3>2. x = r
      BY <1>2, <1>10, <1>15, <3>1 DEF Newest
    <3>3. [off |-> batch'[c][i].off, rec |-> x] \in mem'[kcur'[c].chunk] /\ batch'[c][i].len = x.len
      BY <1>2, <1>6, <1>7, <1>10, <3>1, <3>2
    <3>. QED BY <3>3 DEF EntryOf
  <2>2. CASE i # n
    <3>1. i \in DOMAIN batch[c] /\ batch'[c][i] = batch[c][i] /\ i < n /\ i \in Nat
      BY <1>12, <2>2
    <3>2. batch[c][i].key # r.key
      BY <1>10, <1>12, <3>1 DEF LastOf
    <3>3. LastOf(c, i)
      BY <1>12, <3>1 DEF LastOf
    <3>4. Newest(batch[c][i].key, x) /\ x \in acked
      <4>1. Newest(batch[c][i].key, x)
        BY <1>2, <3>1, <3>2 DEF Newest
      <4>. QED BY <4>1 DEF Newest
    <3>5. EntryOf(c, i, x)
      BY <1>1, <1>8, <3>1, <3>3, <3>4 DEF BatchNewest
    <3>. QED BY <1>2, <1>7, <3>1, <3>5 DEF EntryOf
  <2>. QED BY <2>1, <2>2
<1>18. Indexed(c)'
  <2>1. \A i \in DOMAIN batch'[c] : Sole(c, batch'[c][i].key) => map'[batch'[c][i].key] # None
    <3> SUFFICES ASSUME NEW i \in DOMAIN batch'[c], Sole(c, batch'[c][i].key)
                 PROVE  map'[batch'[c][i].key] # None
      OBVIOUS
    <3>1. CASE batch'[c][i].key = r.key
      BY <1>9, <1>11, <3>1
    <3>2. CASE batch'[c][i].key # r.key
      <4>1. i \in DOMAIN batch[c] /\ batch'[c][i] = batch[c][i]
        BY <1>10, <1>12, <3>2
      <4>2. batch[c][i].key \in Keys
        BY <1>1, <4>1, ConstantsOK DEF Ordered
      <4>3. map[batch[c][i].key] # None
        BY <1>1, <1>3, <1>8, <4>1 DEF Indexed
      <4>. QED BY <1>11, <3>2, <4>1, <4>2, <4>3
    <3>. QED BY <3>1, <3>2
  <2>2. ASSUME NEW k \in Keys, Sole(c, k), map'[k] # None
        PROVE  \E i \in DOMAIN batch'[c] :
                    /\ batch'[c][i].key = k /\ LastOf(c, i)' /\ (kpc'[c] = "erase" => ki'[c] <= i)
                    /\ map'[k].chunk = kcur'[c].chunk /\ map'[k].off = batch'[c][i].off
                    /\ map'[k].len = batch'[c][i].len
    <3>1. CASE k = r.key
      <4>1. LastOf(c, n)'
        BY <1>12 DEF LastOf
      <4>. QED BY <1>2, <1>3, <1>7, <1>10, <1>11, <1>12, <3>1, <4>1
    <3>2. CASE k # r.key
      <4>1. map'[k] = map[k]
        BY <1>11, <3>2
      <4>2. PICK i \in DOMAIN batch[c] :
                    /\ batch[c][i].key = k /\ LastOf(c, i)
                    /\ map[k].chunk = kcur[c].chunk /\ map[k].off = batch[c][i].off
                    /\ map[k].len = batch[c][i].len
        BY <1>1, <2>2, <4>1 DEF Indexed
      <4>3. i \in DOMAIN batch'[c] /\ batch'[c][i] = batch[c][i]
        BY <1>12
      <4>4. LastOf(c, i)'
        BY <1>10, <1>12, <3>2, <4>2, <4>3 DEF LastOf
      <4>. QED BY <1>2, <1>3, <1>7, <4>1, <4>2, <4>3, <4>4
    <3>. QED BY <3>1, <3>2
  <2>3. ASSUME NEW k \in Keys, Sole(c, k), map'[k] = None, NEW x \in acked', Newest(k, x)'
        PROVE  x \in gone' \/ db'[k] = x
    <3>1. k # r.key
      BY <1>9, <1>11, <2>3
    <3>2. Newest(k, x) /\ x \in acked /\ map[k] = None
      BY <1>11, <1>16, <2>3, <3>1 DEF Newest
    <3>. QED BY <1>1, <1>2, <2>3, <3>2 DEF Indexed
  <2>. QED BY <1>8, <2>1, <2>2, <2>3 DEF Indexed
<1>19. Current(c)'
  BY <1>2, <1>3 DEF Current, Reading, Got
<1>20. ClerkNext(c)
  BY DEF ClerkNext
<1>. QED BY <1>2, <1>13, <1>14, <1>17, <1>18, <1>19, <1>20, ClerkReadsIf

LEMMA DeleteReads ==
  ASSUME IInv, DInv, FInv, FInv', WInv, NEW c \in Clients, ClerkDelete(c), ~DbFails
  PROVE  WInv'
<1> USE DEF clientVars, mailVars, clerkVars, uringVars, histVars
<1>1. /\ ClientTypes /\ MailTypes /\ ClerkTypes /\ StoreTypes /\ Connection(c)
      /\ Ordered(c) /\ BatchNewest(c) /\ Indexed(c) /\ HistTypes /\ HistTypes'
  BY DEF IInv, TypeOK, Connections, FInv, WInv
<1> DEFINE k == req[c].key
<1>2. /\ Receive(c, "DELETE") /\ UNCHANGED <<cpc, kpc, batch, ki, kcur, map, acked, rd, mem, req, pend, nops>>
      /\ db' = [db EXCEPT ![k] = None]
      /\ gone' = gone \cup {r \in acked : r.key = k}
  BY DEF ClerkDelete
<1>3. /\ kpc[c] = "spin" /\ sent[c] /\ req[c].op = "DELETE" /\ cpc[c] \in {"call", "closing"} /\ req[c] \in Requests
      /\ k \in WriteKeys[c] /\ sent' = [sent EXCEPT ![c] = FALSE]
  BY <1>1, <1>2 DEF Receive, Taken, Connection, MailTypes, Ordered
<1>4. k \in Keys
  BY <1>3, RequestFields
<1> HIDE DEF k
<1>5. \A x \in Keys : x # k => db'[x] = db[x]
  BY <1>1, <1>2, <1>4 DEF StoreTypes
<1>6. \A d \in Clients : d # c => Untouched(d)
  <2> SUFFICES ASSUME NEW d \in Clients, d # c PROVE Untouched(d)
    OBVIOUS
  <2>1. ~Sole(d, k)
    BY <1>3, NotSole
  <2>. QED BY <1>2, <1>5, <2>1 DEF Untouched
<1>7. Ordered(c)'
  <2>1. ~sent'[c]
    BY <1>1, <1>3 DEF MailTypes
  <2>. QED BY <1>1, <1>2, <2>1 DEF Ordered, Fresh, Writing
<1>8. BatchNewest(c)'
  BY <1>1, <1>2, <1>3 DEF BatchNewest, LastOf, Newest, EntryOf, Holds
<1>9. Indexed(c)'
  <2>1. ASSUME NEW x \in Keys, Sole(c, x), map'[x] = None, NEW r \in acked', Newest(x, r)'
        PROVE  r \in gone' \/ db'[x] = r
    BY <1>1, <1>2, <1>5, <2>1 DEF Indexed, Newest
  <2>. QED BY <1>1, <1>2, <2>1 DEF Indexed, LastOf, Holds
<1>10. Current(c)'
  BY <1>2, <1>3 DEF Current, Reading, Got
<1>11. ClerkNext(c)
  BY DEF ClerkNext
<1>. QED BY <1>2, <1>6, <1>7, <1>8, <1>9, <1>10, <1>11, ClerkReadsIf

\* PutBatch reads from tmp_buf the newest record of a key at the key's last entry.
LEMMA BatchValueIs ==
  ASSUME IInv, DInv, NEW c \in Clients, kpc[c] \in {"putbatch", "erase"}, Holds(c),
         NEW i \in DOMAIN batch[c], NEW r, EntryOf(c, i, r)
  PROVE  BatchValue(c, i) = r
<1> DEFINE m == mem[kcur[c].chunk]
           e == [off |-> batch[c][i].off, rec |-> r]
<1>1. e \in m /\ e.off = batch[c][i].off /\ e.rec = r /\ r.len = batch[c][i].len
  BY DEF EntryOf
<1>2. m \in SUBSET Entries /\ Apart(m) /\ tmp[c] = m
  BY DEF Holds, IInv, TypeOK, ClerkTypes, Cursors, StoreTypes, DInv, Filled
<1> HIDE DEF e, m
<1>3. Load(m, e.off, e.rec.len) = e.rec
  BY <1>1, <1>2, LoadIs
<1>. QED BY <1>1, <1>2, <1>3 DEF BatchValue

LEMMA StoreReads ==
  ASSUME IInv, DInv, FInv, FInv', WInv, NEW c \in Clients, PutBatch(c), ~DbFails
  PROVE  WInv'
<1> USE DEF clientVars, mailVars, clerkVars, uringVars, histVars
<1>1. /\ ClientTypes /\ MailTypes /\ ClerkTypes /\ StoreTypes /\ Connection(c) /\ Flushed(c)
      /\ Ordered(c) /\ BatchNewest(c) /\ Indexed(c) /\ Current(c) /\ HistTypes /\ HistTypes'
  BY DEF IInv, TypeOK, Connections, FInv, WInv
<1>2. /\ UNCHANGED <<cpc, req, rep, sent, batch, kcur, map, acked, gone, mem, rd, pend, nops>> /\ kpc[c] = "putbatch"
      /\ batch[c] \in Seq(Metas) /\ ki[c] \in Nat /\ ki[c] >= 1
  BY <1>1 DEF PutBatch, ClerkTypes, Flushed
<1>3. Holds(c) /\ rep[c] = None /\ cpc[c] \in {"call", "closing"}
  BY <1>1, <1>2 DEF Connection, Holds
<1>4. \A i \in DOMAIN batch[c] : batch[c][i].key \in WriteKeys[c] /\ batch[c][i].key \in Keys /\ i \in Nat /\ i >= 1
  BY <1>1, <1>2, ConstantsOK DEF Ordered
<1>5. ASSUME NEW i \in DOMAIN batch[c], LastOf(c, i), Sole(c, batch[c][i].key), NEW r \in acked, Newest(batch[c][i].key, r)
      PROVE  EntryOf(c, i, r) /\ BatchValue(c, i) = r
  <2>1. EntryOf(c, i, r)
    BY <1>1, <1>3, <1>5 DEF BatchNewest
  <2>. QED BY <1>2, <1>3, <2>1, BatchValueIs
<1> HIDE DEF BatchValue
<1>6. /\ Holds(c)' /\ kpc'[c] \in {"putbatch", "erase"}
      /\ \A k \in Keys : (\A i \in DOMAIN batch[c] : batch[c][i].key # k) => db'[k] = db[k]
      /\ kpc'[c] = "erase" => ki'[c] = 1
      /\ \A i \in DOMAIN batch[c] : LastOf(c, i) /\ (kpc'[c] = "erase" \/ i < ki'[c]) =>
           \/ db'[batch[c][i].key] = BatchValue(c, i)
           \/ db'[batch[c][i].key] = db[batch[c][i].key] /\ i < ki[c]
  <2>1. CASE AtomicBatch
    <3>1. /\ db' = [k \in Keys |-> IF \E i \in DOMAIN batch[c] : batch[c][i].key = k
                                   THEN BatchValue(c, LastWith(c, k)) ELSE db[k]]
          /\ kpc' = [kpc EXCEPT ![c] = "erase"] /\ ki' = ki
      BY <2>1 DEF PutBatch, Goto
    <3>2. ASSUME NEW i \in DOMAIN batch[c], LastOf(c, i) PROVE LastWith(c, batch[c][i].key) = i
      <4> DEFINE P(j) == /\ batch[c][j].key = batch[c][i].key
                         /\ \A x \in DOMAIN batch[c] : batch[c][x].key = batch[c][i].key => x <= j
      <4>1. P(i)
        BY <3>2 DEF LastOf
      <4>2. \A j \in DOMAIN batch[c] : P(j) => j = i
        BY <1>4, <4>1
      <4> HIDE DEF P
      <4>3. (CHOOSE j \in DOMAIN batch[c] : P(j)) = i
        BY <4>1, <4>2, Zenon
      <4>. QED BY <4>3, Zenon DEF LastWith, P
    <3> HIDE DEF LastWith
    <3>3. \A k \in Keys : db'[k] = IF \E i \in DOMAIN batch[c] : batch[c][i].key = k
                                   THEN BatchValue(c, LastWith(c, k)) ELSE db[k]
      BY <3>1, Zenon
    <3>4. \A i \in DOMAIN batch[c] : LastOf(c, i) => db'[batch[c][i].key] = BatchValue(c, i)
      BY <1>4, <3>2, <3>3
    <3>5. \A k \in Keys : (\A i \in DOMAIN batch[c] : batch[c][i].key # k) => db'[k] = db[k]
      BY <3>3
    <3>6. kpc'[c] = "erase" /\ ki'[c] = 1
      BY <1>1, <1>2, <2>1, <3>1 DEF ClerkTypes, Flushed
    <3>7. Holds(c)'
      BY <1>2, <1>3, <3>6 DEF Holds
    <3>. QED BY <3>4, <3>5, <3>6, <3>7
  <2>2. CASE ~AtomicBatch /\ ~Stored(c)
    <3> DEFINE b == batch[c][ki[c]].key
    <3>1. /\ db' = [db EXCEPT ![b] = BatchValue(c, ki[c])]
          /\ ki' = [ki EXCEPT ![c] = @ + 1] /\ kpc' = kpc
      BY <2>2 DEF PutBatch
    <3>2. ki'[c] = ki[c] + 1 /\ ki[c] \in DOMAIN batch[c]
      BY <1>1, <1>2, <2>2, <3>1 DEF ClerkTypes, Stored
    <3>3. b \in Keys
      BY <1>4, <3>2
    <3>4. db'[b] = BatchValue(c, ki[c]) /\ \A k \in Keys : k # b => db'[k] = db[k]
      <4> HIDE DEF b
      <4>. QED BY <1>1, <3>1, <3>3 DEF StoreTypes
    <3>5. ASSUME NEW i \in DOMAIN batch[c], LastOf(c, i), i < ki'[c]
          PROVE  \/ db'[batch[c][i].key] = BatchValue(c, i)
                 \/ db'[batch[c][i].key] = db[batch[c][i].key] /\ i < ki[c]
      <4>1. CASE i = ki[c]
        BY <3>4, <4>1
      <4>2. CASE i # ki[c]
        <5>1. i < ki[c]
          BY <1>2, <1>4, <3>2, <3>5, <4>2
        <5>2. batch[c][i].key # b
          BY <1>2, <1>4, <3>2, <3>5, <5>1 DEF LastOf
        <5>. QED BY <1>4, <3>4, <5>1, <5>2
      <4>. QED BY <4>1, <4>2
    <3>6. \A k \in Keys : (\A i \in DOMAIN batch[c] : batch[c][i].key # k) => db'[k] = db[k]
      BY <3>2, <3>4
    <3>7. Holds(c)' /\ kpc'[c] = "putbatch"
      BY <1>2, <1>3, <3>1 DEF Holds
    <3>. QED BY <3>5, <3>6, <3>7
  <2>3. CASE ~AtomicBatch /\ Stored(c)
    <3>1. ki'[c] = 1 /\ kpc'[c] = "erase" /\ db' = db
      BY <1>1, <2>3 DEF PutBatch, Goto, ClerkTypes
    <3>2. \A i \in DOMAIN batch[c] : i < ki[c]
      BY <1>2, <2>3 DEF Stored
    <3>3. Holds(c)'
      BY <1>2, <1>3, <3>1 DEF Holds
    <3>. QED BY <3>1, <3>2, <3>3
  <2>. QED BY <2>1, <2>2, <2>3
<1>7. BatchNewest(c)'
  <2> SUFFICES ASSUME NEW i \in DOMAIN batch[c], LastOf(c, i), Sole(c, batch[c][i].key),
                      NEW r \in acked, Newest(batch[c][i].key, r)
               PROVE  /\ EntryOf(c, i, r)
                      /\ kpc'[c] = "erase" \/ (kpc'[c] = "putbatch" /\ i < ki'[c]) => db'[batch[c][i].key] = r
    BY <1>2 DEF BatchNewest, LastOf, Newest, EntryOf
  <2>1. EntryOf(c, i, r) /\ BatchValue(c, i) = r
    BY <1>5
  <2>2. i < ki[c] => db[batch[c][i].key] = r
    BY <1>1, <1>2 DEF BatchNewest
  <2>. QED BY <1>6, <2>1, <2>2
<1>8. Indexed(c)'
  <2>1. \A i \in DOMAIN batch[c] : Sole(c, batch[c][i].key) => map[batch[c][i].key] # None
    BY <1>1, <1>2, <1>3 DEF Indexed
  <2>2. ASSUME NEW k \in Keys, Sole(c, k), map[k] # None
        PROVE  \E i \in DOMAIN batch'[c] :
                    /\ batch'[c][i].key = k /\ LastOf(c, i)' /\ (kpc'[c] = "erase" => ki'[c] <= i)
                    /\ map'[k].chunk = kcur'[c].chunk /\ map'[k].off = batch'[c][i].off
                    /\ map'[k].len = batch'[c][i].len
    <3>1. PICK i \in DOMAIN batch[c] :
                    /\ batch[c][i].key = k /\ LastOf(c, i)
                    /\ map[k].chunk = kcur[c].chunk /\ map[k].off = batch[c][i].off
                    /\ map[k].len = batch[c][i].len
      BY <1>1, <2>2 DEF Indexed
    <3>2. kpc'[c] = "erase" => ki'[c] <= i
      BY <1>4, <1>6
    <3>3. LastOf(c, i)'
      BY <1>2, <3>1 DEF LastOf
    <3>. QED BY <1>2, <3>1, <3>2, <3>3
  <2>3. ASSUME NEW k \in Keys, Sole(c, k), map[k] = None, NEW r \in acked, Newest(k, r)
        PROVE  r \in gone' \/ db'[k] = r
    <3>1. db'[k] = db[k]
      BY <1>6, <2>1, <2>3
    <3>. QED BY <1>1, <1>2, <2>3, <3>1 DEF Indexed
  <2>. QED BY <1>2, <1>6, <2>1, <2>2, <2>3 DEF Indexed, Newest
<1>9. \A d \in Clients : d # c => Untouched(d)
  <2> SUFFICES ASSUME NEW d \in Clients, d # c PROVE Untouched(d)
    OBVIOUS
  <2>1. \A k \in Keys : Sole(d, k) => db'[k] = db[k]
    BY <1>4, <1>6, NotSole
  <2>. QED BY <1>2, <2>1 DEF Untouched
<1>10. Ordered(c)'
  BY <1>1, <1>2 DEF Ordered, Fresh, Writing
<1>11. Current(c)'
  BY <1>1, <1>2, <1>3, <1>6 DEF Current, Reading, Got
<1>12. ClerkNext(c)
  BY DEF ClerkNext
<1>. QED BY <1>2, <1>7, <1>8, <1>9, <1>10, <1>11, <1>12, ClerkReadsIf

LEMMA EraseReads ==
  ASSUME IInv, DInv, FInv, FInv', WInv, NEW c \in Clients, Erase(c)
  PROVE  WInv'
<1> USE DEF clientVars, mailVars, clerkVars, uringVars, histVars
<1>1. /\ ClientTypes /\ MailTypes /\ ClerkTypes /\ StoreTypes /\ Connection(c) /\ Flushed(c)
      /\ Ordered(c) /\ BatchNewest(c) /\ Indexed(c) /\ Current(c) /\ HistTypes /\ HistTypes'
  BY DEF IInv, TypeOK, Connections, FInv, WInv
<1> DEFINE b == batch[c][ki[c]].key
<1>2. /\ UNCHANGED <<cpc, kpc, req, rep, sent, batch, kcur, db, acked, gone, mem, rd, pend, nops>>
      /\ kpc[c] = "erase" /\ ki[c] <= Len(batch[c])
      /\ map' = [map EXCEPT ![b] = None] /\ ki' = [ki EXCEPT ![c] = @ + 1]
  BY DEF Erase
<1>3. batch[c] \in Seq(Metas) /\ ki[c] \in Nat /\ ki[c] >= 1 /\ ki'[c] = ki[c] + 1
  BY <1>1, <1>2 DEF ClerkTypes, Flushed
<1>4. ki[c] \in DOMAIN batch[c] /\ \A i \in DOMAIN batch[c] : i \in Nat
  BY <1>2, <1>3
<1>5. b \in WriteKeys[c] /\ b \in Keys
  BY <1>1, <1>4, ConstantsOK DEF Ordered
<1>6. ASSUME NEW i \in DOMAIN batch[c], batch[c][i].key # b PROVE i # ki[c]
  BY <1>6
<1> HIDE DEF b
<1>7. map'[b] = None /\ \A k \in Keys : k # b => map'[k] = map[k]
  BY <1>1, <1>2, <1>5 DEF StoreTypes
<1>8. Holds(c)' <=> Holds(c)
  BY <1>2 DEF Holds
<1>9. BatchNewest(c)'
  BY <1>1, <1>2, <1>8 DEF BatchNewest, LastOf, Newest, EntryOf
<1>10. Indexed(c)'
  <2>1. ASSUME NEW k \in Keys, Sole(c, k), map'[k] # None
        PROVE  /\ Holds(c)
               /\ \E i \in DOMAIN batch'[c] :
                    /\ batch'[c][i].key = k /\ LastOf(c, i)' /\ (kpc'[c] = "erase" => ki'[c] <= i)
                    /\ map'[k].chunk = kcur'[c].chunk /\ map'[k].off = batch'[c][i].off
                    /\ map'[k].len = batch'[c][i].len
    <3>1. k # b /\ map'[k] = map[k]
      BY <1>7, <2>1
    <3>2. PICK i \in DOMAIN batch[c] :
                    /\ batch[c][i].key = k /\ LastOf(c, i) /\ ki[c] <= i
                    /\ map[k].chunk = kcur[c].chunk /\ map[k].off = batch[c][i].off
                    /\ map[k].len = batch[c][i].len
      BY <1>1, <1>2, <2>1, <3>1 DEF Indexed
    <3>3. Holds(c)
      BY <1>1, <2>1, <3>1 DEF Indexed
    <3>4. ki'[c] <= i
      BY <1>3, <1>4, <1>6, <3>1, <3>2
    <3>5. LastOf(c, i)'
      BY <1>2, <3>2 DEF LastOf
    <3>. QED BY <1>2, <3>1, <3>2, <3>3, <3>4, <3>5
  <2>2. ASSUME NEW k \in Keys, Sole(c, k), map'[k] = None, NEW r \in acked, Newest(k, r)
        PROVE  r \in gone \/ db[k] = r
    <3>1. CASE map[k] = None
      BY <1>1, <2>2, <3>1 DEF Indexed
    <3>2. CASE map[k] # None
      <4>1. PICK i \in DOMAIN batch[c] : batch[c][i].key = k /\ LastOf(c, i)
        BY <1>1, <2>2, <3>2 DEF Indexed
      <4>. QED BY <1>1, <1>2, <2>2, <4>1 DEF BatchNewest
    <3>. QED BY <3>1, <3>2
  <2>. QED BY <1>2, <1>8, <2>1, <2>2 DEF Indexed, Newest
<1>11. \A d \in Clients : d # c => Untouched(d)
  <2> SUFFICES ASSUME NEW d \in Clients, d # c PROVE Untouched(d)
    OBVIOUS
  <2>1. ~Sole(d, b)
    BY <1>5, NotSole
  <2>. QED BY <1>2, <1>7, <2>1 DEF Untouched
<1>12. Ordered(c)'
  BY <1>1, <1>2 DEF Ordered, Fresh, Writing
<1>13. Current(c)'
  <2>1. cpc[c] \in {"call", "closing"} /\ rep[c] = None
    BY <1>1, <1>2 DEF Connection
  <2>. QED BY <1>1, <1>2, <2>1 DEF Current, Reading, Got
<1>14. ClerkNext(c)
  BY DEF ClerkNext
<1>. QED BY <1>2, <1>9, <1>10, <1>11, <1>12, <1>13, <1>14, ClerkReadsIf

LEMMA UringReads ==
  ASSUME IInv, DInv, FInv, FInv', WInv,
         UNCHANGED <<clientVars, mailVars, clerkVars, mem, map, db, acked, gone>>
  PROVE  WInv'
<1> SUFFICES ASSUME NEW d \in Clients PROVE Ordered(d)' /\ BatchNewest(d)' /\ Indexed(d)' /\ Current(d)'
  BY DEF WInv
<1> USE DEF clientVars, mailVars, clerkVars
<1>1. Ordered(d) /\ BatchNewest(d) /\ Indexed(d) /\ Current(d) /\ HistTypes /\ HistTypes' /\ Untouched(d)
  BY QuietUntouched DEF WInv, FInv
<1>2. Holds(d)' <=> Holds(d)
  BY DEF Holds
<1>3. BatchNewest(d)' /\ Indexed(d)'
  BY <1>1, <1>2, BatchOther
<1>4. Ordered(d)'
  BY <1>1 DEF Ordered, Fresh, Writing
<1>5. Current(d)'
  BY <1>1 DEF Current, Reading, Got
<1>. QED BY <1>3, <1>4, <1>5

LEMMA WInit == Init => WInv
<1> SUFFICES ASSUME Init, NEW c \in Clients PROVE Ordered(c) /\ BatchNewest(c) /\ Indexed(c) /\ Current(c)
  BY DEF WInv
<1>1. /\ acked = {} /\ pend[c] = None /\ ~sent[c] /\ DOMAIN batch[c] = {} /\ cpc[c] = "new"
      /\ \A k \in Keys : map[k] = None
  BY DEF Init
<1>. QED BY <1>1 DEF Ordered, BatchNewest, Indexed, Current, Writing, Reading, Got

LEMMA WInvStep == ~DbFails /\ IInv /\ DInv /\ FInv /\ FInv' /\ WInv /\ [Next]_vars => WInv'
<1> SUFFICES ASSUME ~DbFails, IInv, DInv, FInv, FInv', WInv, [Next]_vars PROVE WInv'
  OBVIOUS
<1>1. ASSUME NEW c \in Clients, ClientNext(c) PROVE WInv'
  BY <1>1, ClientReads
<1>2. ASSUME NEW c \in Clients, ClerkNext(c) PROVE WInv'
  BY <1>2, ServeReads, PutReads, DeleteReads, StoreReads, EraseReads DEF ClerkNext
<1>3. CASE UringNext \/ KernelNext \/ UNCHANGED vars
  BY <1>3, UringRest, UringReads
<1>. QED BY <1>1, <1>2, <1>3 DEF Next

(* With a database that does not fail, a client that is the only writer of a  *)
(* key gets from GET the record it wrote last, unless it deleted the key      *)
(* since: through every flush of its chunk to the database, while the records *)
(* are in the index, in both or only in the database, and whatever other      *)
(* clients, their clerks and the uring thread do meanwhile.                   *)
THEOREM ReadYourWritesCorrect == ~DbFails /\ Spec => []ReadYourWrites
<1>1. WInv => ReadYourWrites
  <2> SUFFICES ASSUME WInv, NEW c \in Clients, Got(c), \A d \in Clients \ {c} : rd[c].key \notin WriteKeys[d],
                      NEW r \in rd[c].before \ rd[c].dead, \A o \in rd[c].before : o.seq <= r.seq
               PROVE  rd[c].res = r
    BY DEF ReadYourWrites
  <2>1. Sole(c, rd[c].key)
    BY DEF Sole
  <2>. QED BY <2>1 DEF WInv, Current
<1>2. ASSUME ~DbFails PROVE Spec => []WInv
  <2>1. IInv /\ DInv /\ FInv /\ FInv' /\ WInv /\ [Next]_vars => WInv'
    BY <1>2, WInvStep
  <2>2. FInv /\ IInv /\ [Next]_vars => FInv'
    BY <1>2, FInvStep
  <2>. QED BY <2>1, <2>2, FInit, WInit, Invariance, DInvariance, PTL DEF Spec
<1>3. ASSUME ~DbFails PROVE Spec => []ReadYourWrites
  BY <1>1, <1>2, <1>3, PTL
<1>. QED BY <1>3
=============================================================================
