-------------------------- MODULE PMemAccessProofs --------------------------
(***************************************************************************)
(* Proofs about PMemAccess, for any clients, keys, lengths and ring size:  *)
(* the ring keeps the last records, and the front end is a linearizable    *)
(* map.                                                                    *)
(***************************************************************************)
EXTENDS PMemAccess, NatLemmas

Entries == [off : Nat, rec : Recs]

TypeOK ==
  /\ cpc \in [Clients -> {"idle", "call", "closing", "closed"}]
  /\ nops \in [Clients -> Nat]
  /\ buf_head_ \in [Clients -> Nat]
  /\ total \in [Clients -> Nat]
  /\ req \in [Clients -> Requests \cup {None}]
  /\ sent \in [Clients -> BOOLEAN]
  /\ rep \in [Clients -> Replies \cup {None}]
  /\ kpc \in [Clients -> {"spin", "recv", "exit"}]
  /\ pmem \in [Clients -> SUBSET Entries]
  /\ db \in [Keys -> Recs \cup {None}]
  /\ written \subseteq Recs

\* A client that called has one request, with its clerk or answered; nobody
\* else has a request on the way or a reply.
Calling ==
  \A c \in Clients :
    /\ cpc[c] = "call" => req[c] \in Requests /\ req[c].op \in {"GET", "DELETE", "PUT"}
    /\ cpc[c] = "closing" => req[c] \in Requests /\ req[c].op = "CLOSE"
    /\ rep[c] # None => cpc[c] = "call" /\ ~sent[c]
    /\ sent[c] => cpc[c] \in {"call", "closing"}
    /\ kpc[c] # "spin" => ~sent[c] /\ cpc[c] \in {"closing", "closed"}

\* A record that is still recent is in its client's ring, and where: between
\* its start and the head lie the bytes written since, or, when the head went
\* round in between, at least as many less the bytes a wrap leaves unused.
Placed ==
  \A r \in written :
    LET c == r.by
        age == total[c] - r.at
    IN  /\ r.at + r.len <= total[c]
        /\ age <= PMEM_BUFSIZE - MaxLen =>
             \E e \in pmem[c] :
               /\ e.rec = r
               /\ \/ e.off + age = buf_head_[c]
                  \/ e.off + age >= buf_head_[c] + (PMEM_BUFSIZE - MaxLen)

InRing ==
  \A c \in Clients :
    /\ buf_head_[c] < PMEM_BUFSIZE \/ buf_head_[c] = 0
    /\ \A e \in pmem[c] : e.off + e.rec.len <= PMEM_BUFSIZE

IInv == TypeOK /\ Calling /\ Placed /\ InRing

-----------------------------------------------------------------------------
\* MaxLen is the length of the longest record.
LEMMA MaxLenIs ==
  ASSUME Lens # {}
  PROVE  MaxLen \in Lens /\ \A n \in Lens : n <= MaxLen
<1>1. Lens \in SUBSET Nat /\ PMEM_BUFSIZE \in Nat /\ \A n \in Lens : n <= PMEM_BUFSIZE
  BY ConstantsOK
<1>2. \E m \in Lens : \A n \in Lens : n <= m
  BY <1>1, GreatestElement
<1>. QED BY <1>2 DEF MaxLen

\* A record placed at the head of the ring does not reach its end.
LEMMA PlaceFits ==
  ASSUME NEW h \in Nat, NEW n \in Lens, h < PMEM_BUFSIZE \/ h = 0
  PROVE  /\ Place(h, n) \in Nat
         /\ Place(h, n) + n < PMEM_BUFSIZE
         /\ \/ Place(h, n) = h
            \/ Place(h, n) = 0 /\ h + n >= PMEM_BUFSIZE
BY ConstantsOK DEF Place

LEMMA InitInv == Init => IInv
BY ConstantsOK DEF Init, IInv, TypeOK, Calling, Placed, InRing

-----------------------------------------------------------------------------
LEMMA TypeStep ==
  ASSUME TypeOK, Calling, [Next]_vars
  PROVE  TypeOK'
<1> USE ConstantsOK DEF TypeOK
<1>1. ASSUME NEW c \in Clients, NEW k \in Keys, NEW n \in Lens, SendWrite(c, k, n)
      PROVE  TypeOK'
  <2> DEFINE r == [key |-> k, by |-> c, at |-> total[c], len |-> n]
             h == Place(buf_head_[c], n)
  <2>1. r \in Recs /\ [op |-> "PUT", rec |-> r] \in Requests
    BY DEF Recs, Requests
  <2>2. h \in Nat /\ n \in Nat
    BY DEF Place
  <2>3. [off |-> h, rec |-> r] \in Entries
    BY <2>1, <2>2 DEF Entries
  <2>4. pmem' = [pmem EXCEPT ![c] =
          {e \in @ : e.off + e.rec.len <= h \/ h + n <= e.off} \cup {[off |-> h, rec |-> r]}]
    BY <1>1 DEF SendWrite
  <2>5. pmem' \in [Clients -> SUBSET Entries]
    BY <2>3, <2>4
  <2>6. cpc' \in [Clients -> {"idle", "call", "closing", "closed"}] /\ sent' \in [Clients -> BOOLEAN]
        /\ UNCHANGED <<rep, kpc, db>>
    BY <1>1 DEF SendWrite, Send
  <2>7. req' \in [Clients -> Requests \cup {None}]
    BY <1>1, <2>1 DEF SendWrite, Send
  <2>8. nops' \in [Clients -> Nat] /\ buf_head_' \in [Clients -> Nat] /\ total' \in [Clients -> Nat]
    BY <1>1, <2>2 DEF SendWrite, Issue
  <2>9. written' \subseteq Recs
    BY <1>1, <2>1 DEF SendWrite
  <2>. QED BY <2>5, <2>6, <2>7, <2>8, <2>9
<1>2. ASSUME NEW c \in Clients, NEW k \in Keys, SendGet(c, k) \/ SendDelete(c, k)
      PROVE  TypeOK'
  <2>1. PICK op \in {"GET", "DELETE"} : SendKey(c, op, k)
    BY <1>2 DEF SendGet, SendDelete
  <2>2. [op |-> op, key |-> k] \in Requests
    BY <2>1 DEF Requests
  <2>. QED BY <2>1, <2>2 DEF SendKey, Send, Issue
<1>3. ASSUME NEW c \in Clients, SendClose(c)
      PROVE  TypeOK'
  BY <1>3 DEF SendClose, Send, Requests
<1>4. ASSUME NEW c \in Clients, Return(c)
      PROVE  TypeOK'
  BY <1>4 DEF Return
<1>5. ASSUME NEW c \in Clients, ClerkPut(c)
      PROVE  TypeOK'
  <2>1. req[c] \in Requests /\ req[c].op = "PUT"
    BY <1>5 DEF ClerkPut, Receive, Calling
  <2>2. req[c].rec \in Recs /\ req[c].rec.key \in Keys
    BY <2>1 DEF Requests, Recs
  <2>3. rep' \in [Clients -> Replies \cup {None}]
    BY <1>5 DEF ClerkPut, Reply, Replies
  <2>4. db' \in [Keys -> Recs \cup {None}]
    BY <1>5, <2>2 DEF ClerkPut
  <2>. QED BY <1>5, <2>3, <2>4 DEF ClerkPut, Receive, Taken, clientVars
<1>6. ASSUME NEW c \in Clients, ClerkGet(c)
      PROVE  TypeOK'
  <2>1. req[c] \in Requests /\ req[c].op = "GET"
    BY <1>6 DEF ClerkGet, Receive, Calling
  <2>2. req[c].key \in Keys
    BY <2>1 DEF Requests
  <2>3. rep' \in [Clients -> Replies \cup {None}]
    BY <1>6, <2>2 DEF ClerkGet, Reply, Replies
  <2>. QED BY <1>6, <2>3 DEF ClerkGet, Receive, Taken, clientVars
<1>7. ASSUME NEW c \in Clients, ClerkDelete(c)
      PROVE  TypeOK'
  <2>1. rep' \in [Clients -> Replies \cup {None}]
    BY <1>7 DEF ClerkDelete, Reply, Replies
  <2>2. db' \in [Keys -> Recs \cup {None}]
    BY <1>7 DEF ClerkDelete, Erased
  <2>. QED BY <1>7, <2>1, <2>2 DEF ClerkDelete, Receive, Taken, clientVars
<1>8. ASSUME NEW c \in Clients, ClerkClose(c)
      PROVE  TypeOK'
  BY <1>8 DEF ClerkClose, Receive, Taken, clientVars
<1>9. ASSUME NEW c \in Clients, CloseHandshake(c)
      PROVE  TypeOK'
  BY <1>9 DEF CloseHandshake, mailVars
<1>10. CASE UNCHANGED vars
  BY <1>10 DEF vars, clientVars, mailVars
<1>. QED BY <1>1, <1>2, <1>3, <1>4, <1>5, <1>6, <1>7, <1>8, <1>9, <1>10
         DEF Next, ClientNext, ClerkNext

LEMMA CallingStep ==
  ASSUME TypeOK, Calling, [Next]_vars
  PROVE  Calling'
<1> USE ConstantsOK DEF TypeOK, Calling
<1>1. ASSUME NEW c \in Clients, NEW r \in Requests, Send(c, r, "call"), r.op \in {"GET", "DELETE", "PUT"}
      PROVE  Calling'
  BY <1>1 DEF Send
<1>2. ASSUME NEW c \in Clients, NEW k \in Keys, NEW n \in Lens, SendWrite(c, k, n)
      PROVE  Calling'
  <2> DEFINE r == [key |-> k, by |-> c, at |-> total[c], len |-> n]
  <2>1. [op |-> "PUT", rec |-> r] \in Requests
    BY DEF Recs, Requests
  <2>2. Send(c, [op |-> "PUT", rec |-> r], "call")
    BY <1>2 DEF SendWrite
  <2>. QED BY <1>1, <2>1, <2>2
<1>3. ASSUME NEW c \in Clients, NEW k \in Keys, SendGet(c, k) \/ SendDelete(c, k)
      PROVE  Calling'
  <2>1. PICK op \in {"GET", "DELETE"} : SendKey(c, op, k)
    BY <1>3 DEF SendGet, SendDelete
  <2>2. [op |-> op, key |-> k] \in Requests
    BY <2>1 DEF Requests
  <2>. QED BY <1>1, <2>1, <2>2 DEF SendKey
<1>4. ASSUME NEW c \in Clients, SendClose(c)
      PROVE  Calling'
  BY <1>4 DEF SendClose, Send, Requests
<1>5. ASSUME NEW c \in Clients, Return(c)
      PROVE  Calling'
  BY <1>5 DEF Return
<1>6. ASSUME NEW c \in Clients, NEW s, NEW v, sent[c], req[c].op \in {"GET", "DELETE", "PUT"},
             Taken(c), Reply(c, s, v), UNCHANGED <<clientVars, req, kpc>>
      PROVE  Calling'
  BY <1>6 DEF Taken, Reply, clientVars
<1>7. ASSUME NEW c \in Clients, ClerkPut(c) \/ ClerkGet(c) \/ ClerkDelete(c)
      PROVE  Calling'
  BY <1>6, <1>7 DEF ClerkPut, ClerkGet, ClerkDelete, Receive
<1>8. ASSUME NEW c \in Clients, ClerkClose(c)
      PROVE  Calling'
  BY <1>8 DEF ClerkClose, Receive, Taken, clientVars
<1>9. ASSUME NEW c \in Clients, CloseHandshake(c)
      PROVE  Calling'
  BY <1>9 DEF CloseHandshake, mailVars
<1>10. CASE UNCHANGED vars
  BY <1>10 DEF vars, clientVars, mailVars
<1>. QED BY <1>2, <1>3, <1>4, <1>5, <1>7, <1>8, <1>9, <1>10 DEF Next, ClientNext, ClerkNext

\* A write moves the head past the new record and leaves every record that stays
\* recent where it is.
LEMMA RingStep ==
  ASSUME IInv, TypeOK', NEW c \in Clients, NEW k \in Keys, NEW n \in Lens, SendWrite(c, k, n)
  PROVE  Placed' /\ InRing'
<1> DEFINE r == [key |-> k, by |-> c, at |-> total[c], len |-> n]
           h == buf_head_[c]
           p == Place(h, n)
           kept == {e \in pmem[c] : e.off + e.rec.len <= p \/ p + n <= e.off}
           B == PMEM_BUFSIZE
           M == MaxLen
<1>0. M \in Lens /\ n <= M
  BY MaxLenIs
<1>1. /\ h \in Nat /\ n \in Nat /\ n > 0 /\ B \in Nat /\ total[c] \in Nat
      /\ M \in Nat /\ n <= M /\ M < B
  BY <1>0, ConstantsOK DEF IInv, TypeOK
<1>2. /\ p \in Nat /\ p + n < B
      /\ p = h \/ (p = 0 /\ h + n >= B)
  BY <1>1, PlaceFits DEF IInv, InRing
<1>3. /\ buf_head_' = [buf_head_ EXCEPT ![c] = p + n]
      /\ total' = [total EXCEPT ![c] = @ + n]
      /\ pmem' = [pmem EXCEPT ![c] = kept \cup {[off |-> p, rec |-> r]}]
      /\ written' = written \cup {r}
  BY DEF SendWrite
<1>4. /\ buf_head_'[c] = p + n /\ total'[c] = total[c] + n
      /\ pmem'[c] = kept \cup {[off |-> p, rec |-> r]}
      /\ \A d \in Clients : d # c =>
           buf_head_'[d] = buf_head_[d] /\ total'[d] = total[d] /\ pmem'[d] = pmem[d]
  BY <1>3 DEF IInv, TypeOK
<1> HIDE DEF p
<1>5. InRing'
  <2> SUFFICES ASSUME NEW d \in Clients
               PROVE  /\ buf_head_'[d] < B \/ buf_head_'[d] = 0
                      /\ \A e \in pmem'[d] : e.off + e.rec.len <= B
    BY DEF InRing
  <2>1. CASE d # c
    BY <2>1, <1>4 DEF IInv, InRing
  <2>2. CASE d = c
    BY <2>2, <1>1, <1>2, <1>4 DEF IInv, InRing
  <2>. QED BY <2>1, <2>2
<1>6. Placed'
  <2> SUFFICES ASSUME NEW q \in written'
               PROVE  /\ q.at + q.len <= total'[q.by]
                      /\ total'[q.by] - q.at <= B - M =>
                           \E e \in pmem'[q.by] :
                             /\ e.rec = q
                             /\ \/ e.off + (total'[q.by] - q.at) = buf_head_'[q.by]
                                \/ e.off + (total'[q.by] - q.at) >= buf_head_'[q.by] + (B - M)
    BY DEF Placed
  <2>0. q \in Recs /\ q.by \in Clients /\ q.at \in Nat /\ q.len \in Lens /\ q.len \in Nat /\ q.len > 0
    BY ConstantsOK DEF TypeOK, Recs
  <2>1. CASE q = r
    <3>1. [off |-> p, rec |-> r] \in pmem'[c]
      BY <1>4
    <3>2. q.by = c /\ q.at = total[c] /\ q.len = n
      BY <2>1
    <3>3. total'[c] - q.at = n
      BY <1>1, <1>4, <3>2
    <3>4. \E e \in pmem'[c] : e.rec = q /\ e.off + n = p + n
      BY <2>1, <3>1
    <3>. QED BY <1>1, <1>2, <1>4, <3>2, <3>3, <3>4
  <2>2. CASE q \in written /\ q.by # c
    BY <2>0, <2>2, <1>4 DEF IInv, Placed
  <2>3. CASE q \in written /\ q.by = c
    <3>1. q.at + q.len <= total[c]
      BY <2>3 DEF IInv, Placed
    <3> DEFINE age == total[c] - q.at
    <3>2. /\ age \in Nat /\ age >= q.len
          /\ total'[c] - q.at = age + n
      BY <1>1, <1>4, <2>0, <3>1
    <3>3. q.at + q.len <= total'[c]
      BY <1>1, <1>4, <2>0, <3>1
    <3>4. ASSUME age + n <= B - M
          PROVE  \E e \in pmem'[c] :
                    /\ e.rec = q
                    /\ \/ e.off + (age + n) = p + n
                       \/ e.off + (age + n) >= (p + n) + (B - M)
      <4>1. age <= B - M
        BY <3>4, <1>1, <3>2
      <4>2. PICK e \in pmem[c] : /\ e.rec = q
                                 /\ e.off + age = h \/ e.off + age >= h + (B - M)
        BY <2>3, <4>1 DEF IInv, Placed
      <4>3. e.off \in Nat /\ e.off + q.len <= B
        BY <4>2 DEF IInv, TypeOK, InRing, Entries
      <4> HIDE DEF age
      <4>4. e.off + q.len <= p \/ p + n <= e.off
        BY <1>1, <1>2, <2>0, <3>2, <3>4, <4>2, <4>3
      <4>5. e \in pmem'[c]
        BY <1>4, <4>2, <4>4
      <4>6. \/ e.off + (age + n) = p + n
            \/ e.off + (age + n) >= (p + n) + (B - M)
        BY <1>1, <1>2, <2>0, <3>2, <3>4, <4>2, <4>3
      <4>. QED BY <4>2, <4>5, <4>6
    <3>. QED BY <2>3, <3>2, <3>3, <3>4, <1>4
  <2>. QED BY <1>3, <2>1, <2>2, <2>3
<1>. QED BY <1>5, <1>6

LEMMA StepInv ==
  ASSUME IInv, [Next]_vars
  PROVE  IInv'
<1>1. TypeOK' /\ Calling'
  BY TypeStep, CallingStep DEF IInv
<1>2. ASSUME NEW c \in Clients, NEW k \in Keys, NEW n \in Lens, SendWrite(c, k, n)
      PROVE  Placed' /\ InRing'
  BY <1>1, <1>2, RingStep
<1>3. ASSUME UNCHANGED <<buf_head_, total, pmem, written>>
      PROVE  Placed' /\ InRing'
  BY <1>3 DEF IInv, Placed, InRing
<1>4. \/ \E c \in Clients, k \in Keys, n \in Lens : SendWrite(c, k, n)
      \/ UNCHANGED <<buf_head_, total, pmem, written>>
  BY DEF Next, ClientNext, ClerkNext, SendGet, SendDelete, SendKey, SendClose, Return, ClerkPut, ClerkGet,
         ClerkDelete, ClerkClose, CloseHandshake, clientVars, vars
<1>. QED BY <1>1, <1>2, <1>3, <1>4 DEF IInv

\* The inductive invariant holds in every reachable state.
LEMMA Invariance == Spec => []IInv
BY InitInv, StepInv, PTL DEF Spec

\* The ring of a client keeps the records it wrote last, however often the head
\* went round, and no record reaches into the next client's ring.
THEOREM RecentKeptCorrect == Spec => []RecentKept
<1>1. IInv => RecentKept
  BY DEF IInv, Placed, InRing, RecentKept
<1>. QED BY <1>1, Invariance, PTL

-----------------------------------------------------------------------------
(* Refinement of KVStore. *)

LEMMA AbstractCallIs ==
  ASSUME NEW r \in Requests, r.op \in {"GET", "DELETE", "PUT"}
  PROVE  /\ AbstractCall(r) \in Store!Calls /\ AbstractCall(r) # None
         /\ r.op = "GET" => AbstractCall(r).op = "READ" /\ AbstractCall(r).key = r.key /\ r.key \in Keys
         /\ r.op = "DELETE" => /\ AbstractCall(r).op = "WRITE" /\ AbstractCall(r).key = r.key
                              /\ AbstractCall(r).val = None /\ r.key \in Keys
         /\ r.op = "PUT" => /\ AbstractCall(r).op = "WRITE" /\ AbstractCall(r).key = r.rec.key
                           /\ AbstractCall(r).val = r.rec /\ r.rec.key \in Keys /\ r.rec \in Recs
<1>1. Store!Calls = AbstractCalls
  BY DEF Store!Calls, AbstractCalls
<1>2. CASE r.op = "GET"
  <2>1. r.key \in Keys
    BY <1>2 DEF Requests
  <2>2. AbstractCall(r) = [op |-> "READ", key |-> r.key]
    BY <1>2 DEF AbstractCall
  <2>. QED BY <1>1, <1>2, <2>1, <2>2, ConstantsOK DEF AbstractCalls
<1>3. CASE r.op = "DELETE"
  <2>1. r.key \in Keys
    BY <1>3 DEF Requests
  <2>2. AbstractCall(r) = [op |-> "WRITE", key |-> r.key, val |-> None]
    BY <1>3 DEF AbstractCall
  <2>. QED BY <1>1, <1>3, <2>1, <2>2, ConstantsOK DEF AbstractCalls
<1>4. CASE r.op = "PUT"
  <2>1. r.rec \in Recs /\ r.rec.key \in Keys
    BY <1>4 DEF Requests, Recs
  <2>2. AbstractCall(r) = [op |-> "WRITE", key |-> r.rec.key, val |-> r.rec]
    BY <1>4 DEF AbstractCall
  <2>. QED BY <1>1, <1>4, <2>1, <2>2, ConstantsOK DEF AbstractCalls
<1>. QED BY <1>2, <1>3, <1>4

CallOf == [c \in Clients |-> IF cpc[c] = "call" THEN AbstractCall(req[c]) ELSE None]
DoneOf == {c \in Clients : rep[c] # None}
GotOf == [c \in Clients |-> IF rep[c] # None THEN Outcome(c) ELSE None]

\* A request sent is a call invoked.
LEMMA SendInvokes ==
  ASSUME IInv, IInv', NEW c \in Clients, NEW r \in Requests, r.op \in {"GET", "DELETE", "PUT"},
         Send(c, r, "call")
  PROVE  Store!Invoke(c)
<1>1. CallOf[c] = None
  BY DEF Send, CallOf
<1>2. CallOf' = [CallOf EXCEPT ![c] = AbstractCall(r)]
  BY DEF Send, CallOf, IInv, TypeOK
<1>3. CallOf'[c] = AbstractCall(r)
  BY <1>2 DEF CallOf
<1>4. UNCHANGED <<db, DoneOf>>
  BY DEF Send, DoneOf
<1>5. UNCHANGED GotOf
  BY DEF Send, GotOf, Outcome, IInv, Calling, TypeOK
<1>. QED BY <1>1, <1>2, <1>3, <1>4, <1>5, AbstractCallIs
         DEF Store!Invoke, CallOf, DoneOf, GotOf

\* What a clerk that answers does to the abstract state.
LEMMA AnswerIs ==
  ASSUME IInv, NEW c \in Clients, NEW s \in {"OK", "NOTFOUND", "ERROR"}, NEW v \in Recs \cup {None},
         sent[c], Reply(c, s, v), UNCHANGED <<clientVars, req>>
  PROVE  /\ UNCHANGED CallOf
         /\ DoneOf' = DoneOf \cup {c} /\ c \notin DoneOf
         /\ GotOf' = [GotOf EXCEPT ![c] = IF req[c].op # "GET" /\ s # "OK" THEN [failed |-> TRUE] ELSE v]
<1>1. [status |-> s, res |-> v] # None
  BY ConstantsOK DEF Replies
<1>2. rep[c] = None
  BY DEF IInv, Calling
<1>3. UNCHANGED CallOf
  BY DEF clientVars, CallOf
<1>4. DoneOf' = DoneOf \cup {c} /\ c \notin DoneOf
  BY <1>1, <1>2 DEF Reply, DoneOf, IInv, TypeOK
<1>5. rep'[c] = [status |-> s, res |-> v] /\ \A d \in Clients : d # c => rep'[d] = rep[d]
  BY DEF Reply, IInv, TypeOK
<1>6. GotOf'[c] = IF req[c].op # "GET" /\ s # "OK" THEN [failed |-> TRUE] ELSE v
  BY <1>1, <1>5 DEF GotOf, Outcome
<1>7. \A d \in Clients : d # c => GotOf'[d] = GotOf[d]
  BY <1>5 DEF GotOf, Outcome
<1>8. GotOf' = [d \in Clients |-> GotOf'[d]]
  BY DEF GotOf
<1>9. GotOf = [d \in Clients |-> GotOf[d]]
  BY DEF GotOf
<1>10. GotOf' = [GotOf EXCEPT ![c] = IF req[c].op # "GET" /\ s # "OK" THEN [failed |-> TRUE] ELSE v]
  BY <1>6, <1>7, <1>8, <1>9
<1>. QED BY <1>3, <1>4, <1>10

LEMMA PutWrites ==
  ASSUME IInv, NEW c \in Clients, ClerkPut(c) \/ ClerkDelete(c)
  PROVE  Store!Write({c}) \/ Store!Fail(c)
<1>1. PICK s \in {"OK", "NOTFOUND", "ERROR"} :
        /\ Reply(c, s, None)
        /\ \/ s = "OK" /\ db' = [db EXCEPT ![AbstractCall(req[c]).key] = AbstractCall(req[c]).val]
           \/ s # "OK" /\ UNCHANGED db
  <2>1. CASE ClerkPut(c)
    BY <2>1, AbstractCallIs DEF ClerkPut, Receive, IInv, Calling
  <2>2. CASE ClerkDelete(c)
    BY <2>2, AbstractCallIs DEF ClerkDelete, Receive, Erased, IInv, Calling
  <2>. QED BY <2>1, <2>2
<1>2. /\ sent[c] /\ req[c].op \in {"PUT", "DELETE"} /\ UNCHANGED <<clientVars, req>>
      /\ cpc[c] = "call" /\ req[c] \in Requests
  BY DEF ClerkPut, ClerkDelete, Receive, IInv, Calling
<1>3. /\ UNCHANGED CallOf
      /\ DoneOf' = DoneOf \cup {c} /\ c \notin DoneOf
      /\ GotOf' = [GotOf EXCEPT ![c] = IF s # "OK" THEN [failed |-> TRUE] ELSE None]
  BY <1>1, <1>2, AnswerIs
<1>4. /\ CallOf[c] = AbstractCall(req[c]) /\ CallOf[c].op = "WRITE" /\ CallOf[c] # None
      /\ CallOf[c].key \in Keys
  BY <1>2, AbstractCallIs DEF CallOf
<1>5. c \in Store!Pending("WRITE")
  BY <1>3, <1>4 DEF Store!Pending, CallOf, DoneOf
<1>6. CASE s = "OK"
  <2>1. UNCHANGED GotOf
    <3>1. GotOf = [d \in Clients |-> GotOf[d]] /\ GotOf[c] = None
      BY <1>3 DEF GotOf, DoneOf
    <3>. QED BY <3>1, <1>3, <1>6
  <2>2. db' = [db EXCEPT ![CallOf[c].key] = CallOf[c].val]
    BY <1>1, <1>4, <1>6
  <2>3. \A k \in Keys : Store!Written({c}, k) = IF CallOf[c].key = k THEN {CallOf[c].val} ELSE {}
    BY DEF Store!Written, CallOf
  <2>4. /\ \A k \in Keys : IF Store!Written({c}, k) = {} THEN db'[k] = db[k]
                                                        ELSE db'[k] \in Store!Written({c}, k)
        /\ db' = [k \in Keys |-> db'[k]]
    BY <1>4, <2>2, <2>3 DEF IInv, TypeOK
  <2>5. {c} # {} /\ {c} \subseteq Store!Pending("WRITE")
    BY <1>5
  <2>6. Store!Write({c})
    BY <1>3, <2>1, <2>4, <2>5 DEF Store!Write, CallOf, DoneOf, GotOf
  <2>. QED BY <2>6
<1>7. CASE s # "OK"
  <2>1. GotOf' = [GotOf EXCEPT ![c] = Store!Failed] /\ UNCHANGED db
    BY <1>1, <1>3, <1>7 DEF Store!Failed
  <2>2. Store!Fail(c)
    BY <1>3, <1>5, <2>1 DEF Store!Fail, CallOf, DoneOf, GotOf
  <2>. QED BY <2>2
<1>. QED BY <1>6, <1>7

LEMMA GetReads ==
  ASSUME IInv, NEW c \in Clients, ClerkGet(c)
  PROVE  Store!Read(c)
<1>1. /\ sent[c] /\ req[c].op = "GET" /\ UNCHANGED <<clientVars, req, db>>
      /\ cpc[c] = "call" /\ req[c] \in Requests
  BY DEF ClerkGet, Receive, IInv, Calling
<1>2. /\ CallOf[c] = AbstractCall(req[c]) /\ CallOf[c].op = "READ" /\ CallOf[c] # None
      /\ CallOf[c].key = req[c].key /\ req[c].key \in Keys
  BY <1>1, AbstractCallIs DEF CallOf
<1>3. PICK s \in {"OK", "NOTFOUND", "ERROR"} : Reply(c, s, db[req[c].key])
  BY DEF ClerkGet
<1>4. db[req[c].key] \in Recs \cup {None}
  BY <1>2 DEF IInv, TypeOK
<1>5. /\ UNCHANGED CallOf
      /\ DoneOf' = DoneOf \cup {c} /\ c \notin DoneOf
      /\ GotOf' = [GotOf EXCEPT ![c] = db[CallOf[c].key]]
  BY <1>1, <1>2, <1>3, <1>4, AnswerIs
<1>6. c \in Store!Pending("READ")
  BY <1>2, <1>5 DEF Store!Pending, CallOf, DoneOf
<1>. QED BY <1>1, <1>5, <1>6 DEF Store!Read, CallOf, DoneOf, GotOf

LEMMA ReturnReturns ==
  ASSUME IInv, NEW c \in Clients, Return(c)
  PROVE  Store!Return(c)
<1>1. rep[c] # None /\ UNCHANGED <<req, db>>
  BY DEF Return
<1>2. CallOf' = [CallOf EXCEPT ![c] = None]
  BY DEF Return, CallOf, IInv, TypeOK
<1>3. DoneOf' = DoneOf \ {c} /\ c \in DoneOf
  BY DEF Return, DoneOf, IInv, TypeOK
<1>4. GotOf' = [GotOf EXCEPT ![c] = None]
  BY DEF Return, GotOf, Outcome, IInv, TypeOK
<1>. QED BY <1>1, <1>2, <1>3, <1>4 DEF Store!Return, CallOf, DoneOf, GotOf

\* The pmem front end is a linearizable map: every call takes effect once, in
\* the step of its clerk, and one that is answered without OK not at all.
THEOREM ImplementsKVStore == Spec => IsKVStore
<1>1. Init => Store!Init
  BY DEF Init, Store!Init
<1>2. ASSUME IInv, IInv', [Next]_vars
      PROVE  [Store!Next]_(Store!vars)
  <2>1. ASSUME NEW c \in Clients, NEW k \in Keys, NEW n \in Lens, SendWrite(c, k, n)
        PROVE  Store!Invoke(c)
    <3> DEFINE r == [key |-> k, by |-> c, at |-> total[c], len |-> n]
    <3>1. [op |-> "PUT", rec |-> r] \in Requests
      BY <1>2 DEF Recs, Requests, IInv, TypeOK
    <3>2. Send(c, [op |-> "PUT", rec |-> r], "call")
      BY <2>1 DEF SendWrite
    <3> HIDE DEF r
    <3>. QED BY <1>2, <3>1, <3>2, SendInvokes
  <2>2. ASSUME NEW c \in Clients, NEW k \in Keys, SendGet(c, k) \/ SendDelete(c, k)
        PROVE  Store!Invoke(c)
    <3>1. PICK op \in {"GET", "DELETE"} : SendKey(c, op, k)
      BY <2>2 DEF SendGet, SendDelete
    <3>2. [op |-> op, key |-> k] \in Requests
      BY <3>1 DEF Requests
    <3>. QED BY <1>2, <3>1, <3>2, SendInvokes DEF SendKey
  <2>3. ASSUME NEW c \in Clients, SendClose(c) \/ ClerkClose(c) \/ CloseHandshake(c)
        PROVE  UNCHANGED <<CallOf, DoneOf, GotOf, db>>
    <3>1. UNCHANGED <<rep, db>> /\ CallOf' = CallOf
      BY <1>2, <2>3 DEF SendClose, Send, ClerkClose, CloseHandshake, clientVars, mailVars, CallOf, IInv, TypeOK
    <3>2. \A d \in Clients : rep[d] # None => req'[d] = req[d]
      BY <1>2, <2>3 DEF SendClose, Send, ClerkClose, CloseHandshake, mailVars, IInv, TypeOK, Calling
    <3>. QED BY <3>1, <3>2 DEF DoneOf, GotOf, Outcome
  <2>4. ASSUME UNCHANGED vars
        PROVE  UNCHANGED <<CallOf, DoneOf, GotOf, db>>
    BY <2>4 DEF vars, clientVars, mailVars, CallOf, DoneOf, GotOf, Outcome
  <2>5. UNCHANGED <<CallOf, DoneOf, GotOf, db>> => UNCHANGED Store!vars
    BY DEF Store!vars, CallOf, DoneOf, GotOf
  <2>6. ASSUME NEW c \in Clients, ClientNext(c)
        PROVE  Store!Next \/ UNCHANGED Store!vars
    BY <1>2, <2>1, <2>2, <2>3, <2>5, <2>6, ReturnReturns DEF ClientNext, Store!Next
  <2>7. ASSUME NEW c \in Clients, ClerkNext(c)
        PROVE  Store!Next \/ UNCHANGED Store!vars
    <3>1. Store!Write({c}) => Store!Next
      <4>1. {c} \in SUBSET Clients
        OBVIOUS
      <4>. QED BY <4>1 DEF Store!Next
    <3>2. CASE ClerkPut(c) \/ ClerkDelete(c)
      <4>1. Store!Write({c}) \/ Store!Fail(c)
        BY <1>2, <3>2, PutWrites
      <4>. QED BY <3>1, <4>1 DEF Store!Next
    <3>3. CASE ClerkGet(c)
      BY <1>2, <3>3, GetReads DEF Store!Next
    <3>4. CASE ClerkClose(c) \/ CloseHandshake(c)
      BY <2>3, <2>5, <3>4
    <3>. QED BY <2>7, <3>2, <3>3, <3>4 DEF ClerkNext
  <2>. QED BY <1>2, <2>4, <2>5, <2>6, <2>7 DEF Next
<1>. QED BY <1>1, <1>2, Invariance, PTL DEF Spec, IsKVStore, Store!Spec
=============================================================================
