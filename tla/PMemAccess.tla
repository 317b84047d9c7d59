----------------------------- MODULE PMemAccess -----------------------------
(***************************************************************************)
(* The pmem front end (frontend/pmem): a client appends every record it    *)
(* writes to a ring of its own in the server's persistent memory, by       *)
(* one-sided writes, and sends the record to its clerk as well, which puts *)
(* it into the database before it answers.                                 *)
(*                                                                         *)
(* As in PMRAccess a request and its reply are one message each.  A record *)
(* is identified by its writer and the number of bytes written before it.  *)
(***************************************************************************)
EXTENDS Integers

CONSTANTS
  Clients,
  Keys,
  Lens,          \* lengths a record can have
  PMEM_BUFSIZE,  \* size of a client's ring
  MaxOps,        \* MaxOps[c], bound: operations client c issues before it closes
  DbFails,       \* whether writes of the database may fail
  FindsAll,      \* TRUE for CuckooDB, whose Get reports success for missing keys
  None

Recs == [key : Keys, by : Clients, at : Nat, len : Lens]
Requests == [op : {"CLOSE"}] \cup [op : {"GET", "DELETE"}, key : Keys] \cup [op : {"PUT"}, rec : Recs]
Replies == [status : {"OK", "NOTFOUND", "ERROR"}, res : Recs \cup {None}]

\* calls as the abstract store sees them
AbstractCalls == [op : {"READ"}, key : Keys] \cup [op : {"WRITE"}, key : Keys, val : Recs \cup {None}]

ASSUME ConstantsOK ==
  /\ PMEM_BUFSIZE \in Nat
  /\ Lens \subseteq 1 .. PMEM_BUFSIZE - 1
  /\ MaxOps \in [Clients -> Nat]
  /\ DbFails \in BOOLEAN /\ FindsAll \in BOOLEAN
  /\ None \notin Recs /\ None \notin Requests /\ None \notin Replies
  /\ None \notin AbstractCalls

VARIABLES
  cpc,       \* client: "idle", "call", "closing" or "closed"
  nops,      \* client: operations issued
  buf_head_, \* client: where the next record goes
  total,     \* client: bytes written so far (history)
  req,       \* the request in the clerk's buffer
  sent,      \* the clerk's header word is CLIENT_DONE
  rep,       \* the reply in the client's buffer, or None
  kpc,       \* clerk: "spin", "recv" or "exit"
  pmem,      \* contents of the rings: records and the offsets they start at
  db,        \* the database
  written    \* records sent (history)

clientVars == <<cpc, nops, buf_head_, total>>
mailVars == <<req, sent, rep>>
vars == <<clientVars, mailVars, kpc, pmem, db, written>>

Init ==
  /\ cpc = [c \in Clients |-> "idle"] /\ nops = [c \in Clients |-> 0]
  /\ buf_head_ = [c \in Clients |-> 0] /\ total = [c \in Clients |-> 0]
  /\ req = [c \in Clients |-> None] /\ rep = [c \in Clients |-> None]
  /\ sent = [c \in Clients |-> FALSE]
  /\ kpc = [c \in Clients |-> "spin"]
  /\ pmem = [c \in Clients |-> {}]
  /\ db = [k \in Keys |-> None]
  /\ written = {}

----------------------------------------------------------------------------
(* Client side. *)

Send(c, r, pc) ==
  /\ cpc[c] = "idle"
  /\ cpc' = [cpc EXCEPT ![c] = pc]
  /\ req' = [req EXCEPT ![c] = r]
  /\ sent' = [sent EXCEPT ![c] = TRUE]
  /\ UNCHANGED <<rep, kpc, db>>

Issue(c) == nops[c] < MaxOps[c] /\ nops' = [nops EXCEPT ![c] = @ + 1]

\* a record that would reach the end of the ring goes to its start
PlaceEarlyMutant(head, n) == IF head + 2 * n >= PMEM_BUFSIZE THEN 0 ELSE head
Place(head, n) == IF head + n >= PMEM_BUFSIZE THEN 0 ELSE head

\* SendPut and SendUpdate
SendWrite(c, k, n) ==
  LET r == [key |-> k, by |-> c, at |-> total[c], len |-> n]
      head == Place(buf_head_[c], n) IN
  /\ Issue(c)
  /\ Send(c, [op |-> "PUT", rec |-> r], "call")
  /\ pmem' = [pmem EXCEPT ![c] =
       {e \in @ : e.off + e.rec.len <= head \/ head + n <= e.off} \cup {[off |-> head, rec |-> r]}]
  /\ buf_head_' = [buf_head_ EXCEPT ![c] = head + n]
  /\ total' = [total EXCEPT ![c] = @ + n]
  /\ written' = written \cup {r}

SendKey(c, op, k) ==
  /\ Issue(c)
  /\ Send(c, [op |-> op, key |-> k], "call")
  /\ UNCHANGED <<buf_head_, total, pmem, written>>

SendGet(c, k) == SendKey(c, "GET", k)
SendDelete(c, k) == SendKey(c, "DELETE", k)

SendClose(c) ==
  /\ Send(c, [op |-> "CLOSE"], "closing")
  /\ UNCHANGED <<nops, buf_head_, total, pmem, written>>

Return(c) ==
  /\ cpc[c] = "call" /\ rep[c] # None
  /\ cpc' = [cpc EXCEPT ![c] = "idle"]
  /\ rep' = [rep EXCEPT ![c] = None]
  /\ UNCHANGED <<nops, buf_head_, total, req, sent, kpc, pmem, db, written>>

----------------------------------------------------------------------------
(* Clerk side: PMemClerk::Run. *)

Taken(c) == sent' = [sent EXCEPT ![c] = FALSE]

Receive(c, op) ==
  /\ kpc[c] = "spin" /\ sent[c] /\ req[c].op = op
  /\ Taken(c)

Reply(c, s, v) == rep' = [rep EXCEPT ![c] = [status |-> s, res |-> v]]

\* the record comes from the message, not from the ring
ClerkPut(c) ==
  LET r == req[c].rec IN
  /\ Receive(c, "PUT")
  /\ \/ db' = [db EXCEPT ![r.key] = r] /\ Reply(c, "OK", None)
     \/ DbFails /\ UNCHANGED db /\ Reply(c, "ERROR", None)
  /\ UNCHANGED <<clientVars, req, kpc, pmem, written>>

ClerkGet(c) ==
  LET v == db[req[c].key] IN
  /\ Receive(c, "GET")
  /\ Reply(c, IF v # None \/ FindsAll THEN "OK" ELSE "NOTFOUND", v)
  /\ UNCHANGED <<clientVars, req, kpc, pmem, db, written>>

\* both databases report success, whether or not they had the key
ErasedMutant(k) == db
Erased(k) == [db EXCEPT ![k] = None]

ClerkDelete(c) ==
  /\ Receive(c, "DELETE")
  /\ \/ db' = Erased(req[c].key) /\ Reply(c, "OK", None)
     \/ DbFails /\ UNCHANGED db /\ Reply(c, "NOTFOUND", None)
  /\ UNCHANGED <<clientVars, req, kpc, pmem, written>>

ClerkClose(c) ==
  /\ Receive(c, "CLOSE")
  /\ kpc' = [kpc EXCEPT ![c] = "recv"]
  /\ UNCHANGED <<clientVars, req, rep, pmem, db, written>>

\* post_recv meets the client's post_send
CloseHandshake(c) ==
  /\ kpc[c] = "recv" /\ cpc[c] = "closing"
  /\ kpc' = [kpc EXCEPT ![c] = "exit"]
  /\ cpc' = [cpc EXCEPT ![c] = "closed"]
  /\ UNCHANGED <<nops, buf_head_, total, mailVars, pmem, db, written>>

----------------------------------------------------------------------------

ClientNext(c) ==
  \/ \E k \in Keys, n \in Lens : SendWrite(c, k, n)
  \/ \E k \in Keys : SendGet(c, k) \/ SendDelete(c, k)
  \/ SendClose(c) \/ Return(c)

ClerkNext(c) ==
  ClerkPut(c) \/ ClerkGet(c) \/ ClerkDelete(c) \/ ClerkClose(c) \/ CloseHandshake(c)

Next == \E c \in Clients : ClientNext(c) \/ ClerkNext(c)

Spec == Init /\ [][Next]_vars

----------------------------------------------------------------------------
(* Properties. *)

\* the longest record
MaxLen == CHOOSE m \in Lens : \A n \in Lens : n <= m

\* The ring keeps what a client wrote last: a record is intact until the client
\* has written PMEM_BUFSIZE bytes, less the length of one record that a wrap may
\* leave unused, from its start on; and no record reaches past the end of its
\* ring, where the next client's ring begins.
RecentKept ==
  /\ \A r \in written :
       total[r.by] - r.at <= PMEM_BUFSIZE - MaxLen => \E e \in pmem[r.by] : e.rec = r
  /\ \A c \in Clients : \A e \in pmem[c] : e.off + e.rec.len <= PMEM_BUFSIZE

AbstractCall(r) ==
  CASE r.op = "GET" -> [op |-> "READ", key |-> r.key]
    [] r.op = "DELETE" -> [op |-> "WRITE", key |-> r.key, val |-> None]
    [] r.op = "PUT" -> [op |-> "WRITE", key |-> r.rec.key, val |-> r.rec]

\* what a reply tells the client; a write has an outcome only if it failed
Outcome(c) ==
  IF req[c].op # "GET" /\ rep[c].status # "OK" THEN [failed |-> TRUE] ELSE rep[c].res

Store == INSTANCE KVStore WITH
  Vals <- Recs \cup {None},
  store <- db,
  call <- [c \in Clients |-> IF cpc[c] = "call" THEN AbstractCall(req[c]) ELSE None],
  done <- {c \in Clients : rep[c] # None},
  got <- [c \in Clients |-> IF rep[c] # None THEN Outcome(c) ELSE None]

\* The pmem front end is linearizable: a call takes effect once, when its clerk
\* serves it, and a write whose reply does not say OK has no effect.
IsKVStore == Store!Spec
============================================================================
