--------------------------- MODULE RDMALinkProofs ---------------------------
(***************************************************************************)
(* Proof that the header word of the other side is seen only after the     *)
(* message it announces, for every number of clients, requests and send    *)
(* queue entries, every front end and every combination of faults.         *)
(*                                                                         *)
(* The two sides of a connection pass one turn back and forth: at most one *)
(* of a request under way, a request that arrived, a reply under way and a *)
(* reply that arrived exists (Turn).  That the writes of a turn stay in    *)
(* order until they are all executed rests on a side never posting before  *)
(* it polled the completion of the last write it posted (InOrder).         *)
(***************************************************************************)
EXTENDS RDMALink, FiniteSetTheorems, TLAPS

\* The writes of a request and of a reply.
RequestHeader == [to |-> "header", val |-> "CLIENT_DONE", ok |-> TRUE, signal |-> TRUE]
ReplyHeader == [to |-> "header", val |-> "CLERK_DONE", ok |-> TRUE, signal |-> TRUE]

\* A side of a connection has all the fields of one.
Fields == {"pc", "qp", "wire", "sq", "cqe", "header", "buf", "recv", "n"}
IsSide(s) == DOMAIN s = Fields

\* A side polls only what it posted, and posts only when nothing it posted is
\* on its way.
InOrder(s) ==
    /\ s.cqe \in {0, 1}
    /\ s.cqe = 1 => s.pc \in {"poll", "closing"}
    /\ s.wire # <<>> => s.cqe = 0 /\ s.pc \in {"poll", "closing"}

\* Where the client is in its sequence of requests.
ClientPlace(s) ==
    /\ s.pc = "ready" => s.header = "CLIENT_DONE"
    /\ s.pc \in {"closing", "closed"} => ~(s.n < MaxRequests)

\* Where the clerk is: it waits for the last completion only after CLOSE.
ClerkPlace(s) ==
    /\ s.pc # "closing"
    /\ s.recv => s.pc = "recv"

\* Nothing the client posted is on its way but its disconnect.
Quiet(s) == s.wire = <<>> \/ (s.wire = <<PlainSend>> /\ s.pc = "closing")

\* The client's turn: nothing is between the sides.
Idle(s, r) ==
    /\ Quiet(s)
    /\ s.header # "CLERK_DONE"
    /\ r.header # "CLIENT_DONE"
    /\ r.wire = <<>>

\* The request is on its way, whole or but for its header word.
Requesting(s, r) ==
    /\ s.pc = "poll"
    /\ \/ s.wire = <<Message(s.n, TRUE), RequestHeader>>
       \/ s.wire = <<RequestHeader>> /\ r.buf = s.n
    /\ s.header # "CLERK_DONE"
    /\ r.header # "CLIENT_DONE"
    /\ r.wire = <<>>

\* The request is in the clerk's buffer.
Requested(s, r) ==
    /\ s.pc \in {"poll", "wait", "closing", "closed"}
    /\ Quiet(s)
    /\ s.header # "CLERK_DONE"
    /\ r.header = "CLIENT_DONE" /\ r.buf = s.n
    /\ r.wire = <<>>

\* The reply is on its way, whole or but for its header word.
Replying(s, r) ==
    /\ s.pc \in {"poll", "wait"}
    /\ s.n < MaxRequests
    /\ s.wire = <<>>
    /\ s.header # "CLERK_DONE"
    /\ r.header # "CLIENT_DONE"
    /\ \/ \E ok \in BOOLEAN : r.wire = <<Message(s.n, ok), ReplyHeader>>
       \/ r.wire = <<ReplyHeader>> /\ s.buf = s.n

\* The reply is in the client's buffer.
Replied(s, r) ==
    /\ s.pc \in {"poll", "wait"}
    /\ s.n < MaxRequests
    /\ s.wire = <<>>
    /\ s.header = "CLERK_DONE" /\ s.buf = s.n
    /\ r.header # "CLIENT_DONE"
    /\ r.wire = <<>>

Turn(s, r) ==
    \/ Idle(s, r) \/ Requesting(s, r) \/ Requested(s, r) \/ Replying(s, r) \/ Replied(s, r)

\* A connection: the client's side s and the clerk's side r.
Connection(s, r) ==
    /\ IsSide(s) /\ IsSide(r)
    /\ InOrder(s) /\ InOrder(r)
    /\ ClientPlace(s) /\ ClerkPlace(r)
    /\ Turn(s, r)

\* Listen sets up one connection at a time, whose clerk does not run yet.
Listening ==
    \/ listener.pc = "accept"
    \/ /\ listener.pc \in {"open", "write"}
       /\ listener.client \in Clients
       /\ sv[listener.client].pc = "accepted"
    \/ /\ listener.pc \in {"read", "modify", "clerk"}
       /\ listener.client \in Clients
       /\ sv[listener.client].pc = "exchanging"

LInv ==
    /\ DOMAIN cl = Clients /\ DOMAIN sv = Clients
    /\ DOMAIN listener = {"pc", "client"}
    /\ Listening
    /\ \A c \in Clients : Connection(cl[c], sv[c])

-----------------------------------------------------------------------------
(* The fields of a side after each of the operations on it.                 *)

\* All the fields that only a write of the other side changes are the same.
SameReceived(t, s) == t.header = s.header /\ t.buf = s.buf /\ t.recv = s.recv

LEMMA SideFields ==
  ASSUME NEW pc
  PROVE  /\ IsSide(Side(pc))
         /\ Side(pc).pc = pc /\ Side(pc).wire = <<>> /\ Side(pc).cqe = 0
         /\ Side(pc).header = "none" /\ Side(pc).recv = FALSE
BY DEF Side, IsSide, Fields

\* t is s after the writes ws were posted, or were not.
Posted(t, s, ws, pc) ==
    /\ IsSide(t) /\ t.pc = pc /\ t.n = s.n /\ SameReceived(t, s)
    /\ \/ t.wire = s.wire \o ws /\ t.cqe = s.cqe
       \/ t.wire = s.wire /\ t.cqe = s.cqe
       \/ t.wire = s.wire /\ t.cqe = s.cqe + 1

LEMMA PostAllFields ==
  ASSUME NEW s, IsSide(s), NEW ws, NEW pc, NEW t, t = PostAll(s, ws, pc)
  PROVE  Posted(t, s, ws, pc)
<1> USE DEF Posted
<1>1. CASE s.qp = "rts" /\ s.sq + Len(ws) <= QPDepth
  <2>1. t = [s EXCEPT !.wire = @ \o ws, !.sq = @ + Len(ws), !.pc = pc]
    BY <1>1, Zenon DEF PostAll
  <2>2. QED  BY <2>1, Zenon DEF IsSide, Fields, SameReceived
<1>2. CASE ~(s.qp = "rts" /\ s.sq + Len(ws) <= QPDepth) /\ s.qp = "error"
  <2>1. t = [s EXCEPT !.cqe = @ + 1, !.pc = pc]
    BY <1>2, Zenon DEF PostAll
  <2>2. QED  BY <2>1, Zenon DEF IsSide, Fields, SameReceived
<1>3. CASE ~(s.qp = "rts" /\ s.sq + Len(ws) <= QPDepth) /\ s.qp # "error"
  <2>1. t = [s EXCEPT !.pc = pc]
    BY <1>3, Zenon DEF PostAll
  <2>2. QED  BY <2>1, Zenon DEF IsSide, Fields, SameReceived
<1>4. QED  BY <1>1, <1>2, <1>3, Zenon

LEMMA PolledFields ==
  ASSUME NEW s, IsSide(s), NEW pc, NEW t, t = Polled(s, pc)
  PROVE  /\ IsSide(t) /\ t.pc = pc /\ t.n = s.n /\ SameReceived(t, s)
         /\ t.wire = s.wire /\ t.cqe = s.cqe - 1
BY Zenon DEF Polled, IsSide, Fields, SameReceived

LEMMA ExecutedFields ==
  ASSUME NEW s, IsSide(s), NEW t, t = Executed(s)
  PROVE  /\ IsSide(t) /\ t.pc = s.pc /\ t.n = s.n /\ SameReceived(t, s)
         /\ t.wire = Tail(s.wire)
         /\ t.cqe = IF Head(s.wire).signal THEN s.cqe + 1 ELSE s.cqe
BY Zenon DEF Executed, IsSide, Fields, SameReceived

LEMMA FailedFields ==
  ASSUME NEW s, IsSide(s), NEW t, t = Failed(s)
  PROVE  /\ IsSide(t) /\ t.pc = s.pc /\ t.n = s.n /\ SameReceived(t, s)
         /\ t.wire = <<>>
         /\ t.cqe = s.cqe + Cardinality({i \in DOMAIN s.wire : s.wire[i].signal})
BY Zenon DEF Failed, IsSide, Fields, SameReceived

\* t is r after it received m.
Taken(t, r, m) ==
    /\ IsSide(t) /\ t.n = r.n /\ t.wire = r.wire /\ t.cqe = r.cqe
    /\ t.header = IF m.to = "header" THEN m.val ELSE r.header
    /\ t.buf = IF m.to = "buf" THEN m.val ELSE r.buf
    /\ t.recv = IF m.to = "recv" THEN FALSE ELSE r.recv
    /\ t.pc = IF m.to = "recv" THEN "gone" ELSE r.pc

LEMMA ReceivedFields ==
  ASSUME NEW r, IsSide(r), NEW m, m.to \in {"buf", "header", "recv"}, NEW t, t = Received(r, m)
  PROVE  Taken(t, r, m)
<1> USE DEF Taken
<1>1. CASE m.to = "buf"
  <2>1. t = [r EXCEPT !.buf = m.val]  BY <1>1, SMT DEF Received
  <2>2. QED  BY <1>1, <2>1, Zenon DEF IsSide, Fields
<1>2. CASE m.to = "header"
  <2>1. t = [r EXCEPT !.header = m.val]  BY <1>2 DEF Received
  <2>2. QED  BY <1>2, <2>1, Zenon DEF IsSide, Fields
<1>3. CASE m.to = "recv"
  <2>1. t = [r EXCEPT !.recv = FALSE, !.pc = "gone", !.qp = "reset"]  BY <1>3 DEF Received
  <2>2. QED  BY <1>3, <2>1, Zenon DEF IsSide, Fields
<1>4. QED  BY <1>1, <1>2, <1>3, Zenon

-----------------------------------------------------------------------------
(* What each operation does to a connection.                                *)

\* Every wire that occurs has one signaled write, its last.
LEMMA OneSignal ==
  ASSUME NEW w, NEW n, NEW ok \in BOOLEAN,
         w \in {<<Message(n, ok), RequestHeader>>, <<RequestHeader>>, <<PlainSend>>,
                <<Message(n, ok), ReplyHeader>>, <<ReplyHeader>>}
  PROVE  Cardinality({i \in DOMAIN w : w[i].signal}) = 1
<1>1. CASE w \in {<<Message(n, ok), RequestHeader>>, <<Message(n, ok), ReplyHeader>>}
  <2>1. DOMAIN w = {1, 2} /\ ~w[1].signal /\ w[2].signal
    BY <1>1 DEF Message, RequestHeader, ReplyHeader
  <2>2. {i \in DOMAIN w : w[i].signal} = {2}
    BY <2>1
  <2>3. QED  BY <2>2, FS_Singleton
<1>2. CASE w \in {<<RequestHeader>>, <<PlainSend>>, <<ReplyHeader>>}
  <2>1. DOMAIN w = {1} /\ w[1].signal
    BY <1>2 DEF RequestHeader, ReplyHeader, PlainSend
  <2>2. {i \in DOMAIN w : w[i].signal} = {1}
    BY <2>1
  <2>3. QED  BY <2>2, FS_Singleton
<1>3. QED  BY <1>1, <1>2

\* What is posted on an empty wire is all there is on it.
LEMMA EmptyConcat ==
  ASSUME NEW a, NEW b
  PROVE  <<>> \o <<a, b>> = <<a, b>>
OBVIOUS

\* Connecting and setting up touch no turn; the client becomes ready with its
\* own header word.
LEMMA ClientSetup ==
  ASSUME NEW s, NEW r, Connection(s, r), NEW t, IsSide(t),
         s.pc \in {"start", "connected", "exchanging", "modify"},
         t.wire = s.wire, t.cqe = s.cqe, t.n = s.n,
         \/ t.pc \in {"connected", "never", "dead", "exchanging", "modify"} /\ t.header = s.header
         \/ t.pc = "ready" /\ t.header = "CLIENT_DONE"
  PROVE  Connection(t, r)
<1>1. Idle(s, r) /\ s.wire = <<>> /\ s.cqe = 0
  BY DEF Connection, InOrder, Turn, Idle, Quiet, Requesting, Requested, Replying, Replied
<1>2. InOrder(t) /\ ClientPlace(t)
  BY <1>1 DEF Connection, InOrder, ClientPlace
<1>3. Idle(t, r)
  BY <1>1 DEF Idle, Quiet
<1>4. QED  BY <1>2, <1>3 DEF Connection, Turn

\* Neither does setting up at the server, but that the constructor of PMRClerk
\* may overwrite a request that came too early.
LEMMA ServerSetup ==
  ASSUME NEW s, NEW r, Connection(s, r), NEW t, IsSide(t),
         r.pc \in {"none", "accepted", "exchanging"},
         t.pc \in {"accepted", "exchanging", "spin"},
         t.wire = r.wire, t.cqe = r.cqe, t.buf = r.buf, t.recv = r.recv,
         t.header \in {r.header, "CLERK_DONE"}
  PROVE  Connection(s, t)
<1>1. r.wire = <<>> /\ r.cqe = 0 /\ ~r.recv
  BY DEF Connection, InOrder, ClerkPlace
<1>2. InOrder(t) /\ ClerkPlace(t)
  BY <1>1 DEF InOrder, ClerkPlace
<1>3. Turn(s, t)
  BY <1>1 DEF Connection, Turn, Idle, Requesting, Requested, Replying, Replied
<1>4. QED  BY <1>2, <1>3 DEF Connection

LEMMA RequestPosted ==
  ASSUME NEW s, NEW r, Connection(s, r), s.pc = "ready", NEW u, IsSide(u),
         u.wire = s.wire, u.cqe = s.cqe, u.header = s.header,
         NEW t, t = PostAll(u, <<Message(u.n, TRUE), Header(u, TRUE)>>, "poll")
  PROVE  Connection(t, r)
<1>1. Idle(s, r) /\ s.wire = <<>> /\ s.cqe = 0 /\ s.header = "CLIENT_DONE"
  BY DEF Connection, InOrder, ClientPlace, Turn, Idle, Quiet, Requesting, Requested, Replying, Replied
<1>2. Header(u, TRUE) = RequestHeader
  BY <1>1 DEF Header, RequestHeader
<1> DEFINE ws == <<Message(u.n, TRUE), RequestHeader>>
<1>3. t = PostAll(u, ws, "poll") /\ u.wire \o ws = ws
  <2>1. t = PostAll(u, ws, "poll")  BY <1>2, Zenon
  <2>2. u.wire \o ws = ws  BY <1>1, EmptyConcat
  <2>3. QED  BY <2>1, <2>2
<1>4. /\ IsSide(t) /\ t.pc = "poll" /\ t.n = u.n /\ t.header = "CLIENT_DONE"
      /\ \/ t.wire = <<Message(t.n, TRUE), RequestHeader>> /\ t.cqe = 0
         \/ t.wire = <<>> /\ t.cqe \in {0, 1}
  <2> HIDE DEF ws
  <2>1. /\ IsSide(t) /\ t.pc = "poll" /\ t.n = u.n /\ t.header = "CLIENT_DONE"
        /\ \/ t.wire = ws /\ t.cqe = 0
           \/ t.wire = <<>> /\ t.cqe \in {0, 1}
    <3>1. Posted(t, u, ws, "poll")  BY <1>3, PostAllFields, Zenon
    <3>2. QED  BY <1>1, <1>3, <3>1 DEF Posted, SameReceived
  <2>2. QED  BY <2>1 DEF ws
<1>5. InOrder(t) /\ ClientPlace(t)
  BY <1>4 DEF InOrder, ClientPlace
<1>6. Idle(t, r) \/ Requesting(t, r)
  BY <1>1, <1>4 DEF Idle, Quiet, Requesting
<1>7. QED  BY <1>4, <1>5, <1>6 DEF Connection, Turn

LEMMA RequestPolled ==
  ASSUME NEW s, NEW r, Connection(s, r), s.pc = "poll", s.cqe > 0,
         NEW t, t = IF s.n < MaxRequests THEN Polled(s, "wait")
                    ELSE PostAll(Polled(s, "poll"), <<PlainSend>>, "closing")
  PROVE  Connection(t, r)
<1>1. s.cqe = 1 /\ s.wire = <<>>
  BY DEF Connection, InOrder
<1>2. IsSide(s)
  BY DEF Connection
<1>3. CASE s.n < MaxRequests
  <2>1. /\ IsSide(t) /\ t.pc = "wait" /\ t.n = s.n /\ t.header = s.header /\ t.buf = s.buf
        /\ t.wire = <<>> /\ t.cqe = 0
    BY <1>1, <1>2, <1>3, PolledFields DEF SameReceived
  <2>2. InOrder(t) /\ ClientPlace(t)
    BY <2>1 DEF InOrder, ClientPlace
  <2>3. Turn(t, r)
    BY <1>1, <2>1 DEF Connection, Turn, Idle, Quiet, Requesting, Requested, Replying, Replied
  <2>4. QED  BY <2>1, <2>2, <2>3 DEF Connection
<1>4. CASE ~(s.n < MaxRequests)
  <2> DEFINE u == Polled(s, "poll")
  <2>1. /\ IsSide(u) /\ u.n = s.n /\ u.header = s.header /\ u.wire = <<>> /\ u.cqe = 0
    BY <1>1, <1>2, PolledFields DEF SameReceived
  <2>2. t = PostAll(u, <<PlainSend>>, "closing")
    BY <1>4, Zenon
  <2> HIDE DEF u
  <2>3. u.wire \o <<PlainSend>> = <<PlainSend>>
    BY <2>1 DEF PlainSend
  <2>4. /\ IsSide(t) /\ t.pc = "closing" /\ t.n = s.n /\ t.header = s.header
        /\ \/ t.wire = <<PlainSend>> /\ t.cqe = 0
           \/ t.wire = <<>> /\ t.cqe \in {0, 1}
    BY <2>1, <2>2, <2>3, PostAllFields DEF Posted, SameReceived
  <2>5. InOrder(t) /\ ClientPlace(t)
    BY <1>4, <2>4 DEF InOrder, ClientPlace
  <2>6. Idle(s, r) \/ Requested(s, r)
    BY <1>1, <1>4 DEF Connection, Turn, Requesting, Replying, Replied
  <2>7. Turn(t, r)
    BY <2>4, <2>6 DEF Turn, Idle, Quiet, Requested
  <2>8. QED  BY <2>4, <2>5, <2>7 DEF Connection
<1>5. QED  BY <1>3, <1>4

LEMMA ReplySeen ==
  ASSUME NEW s, NEW r, Connection(s, r), s.pc = "wait", s.header = "CLERK_DONE",
         NEW t, IsSide(t), t.pc = "ready", t.header = "CLIENT_DONE", t.wire = s.wire, t.cqe = s.cqe
  PROVE  Connection(t, r)
<1>1. Replied(s, r) /\ s.cqe = 0
  BY DEF Connection, InOrder, Turn, Idle, Requesting, Requested, Replying
<1>2. InOrder(t) /\ ClientPlace(t) /\ Idle(t, r)
  BY <1>1 DEF InOrder, ClientPlace, Replied, Idle, Quiet
<1>3. QED  BY <1>2 DEF Connection, Turn

LEMMA ClosePolled ==
  ASSUME NEW s, NEW r, Connection(s, r), s.pc = "closing", s.cqe > 0, NEW t, t = Polled(s, "closed")
  PROVE  Connection(t, r)
<1>1. s.cqe = 1 /\ s.wire = <<>> /\ IsSide(s) /\ ~(s.n < MaxRequests)
  BY DEF Connection, InOrder, ClientPlace
<1>2. /\ IsSide(t) /\ t.pc = "closed" /\ t.n = s.n /\ t.header = s.header
      /\ t.wire = <<>> /\ t.cqe = 0
  BY <1>1, PolledFields DEF SameReceived
<1>3. InOrder(t) /\ ClientPlace(t)
  BY <1>1, <1>2 DEF InOrder, ClientPlace
<1>4. Turn(t, r)
  BY <1>2 DEF Connection, Turn, Idle, Quiet, Requesting, Requested, Replying, Replied
<1>5. QED  BY <1>2, <1>3, <1>4 DEF Connection

\* CLOSE: the clerk waits for the disconnect.
LEMMA CloseServed ==
  ASSUME NEW s, NEW r, Connection(s, r), r.pc = "spin", r.header = "CLIENT_DONE",
         NEW t, IsSide(t), t.pc = "recv", t.header = "CLERK_DONE", t.wire = r.wire, t.cqe = r.cqe
  PROVE  Connection(s, t)
<1>1. Requested(s, r) /\ r.cqe = 0
  BY DEF Connection, InOrder, Turn, Idle, Requesting, Replying, Replied
<1>2. InOrder(t) /\ ClerkPlace(t) /\ Idle(s, t)
  BY <1>1 DEF InOrder, ClerkPlace, Requested, Idle
<1>3. QED  BY <1>2 DEF Connection, Turn

LEMMA ReplyPosted ==
  ASSUME NEW s, NEW r, Connection(s, r), r.pc = "spin", r.header = "CLIENT_DONE",
         r.buf < MaxRequests, NEW ok \in BOOLEAN,
         NEW u, IsSide(u), u.header = "CLERK_DONE", u.wire = r.wire, u.cqe = r.cqe, u.recv = r.recv,
         NEW t, t = PostAll(u, <<Message(r.buf, ok), Header(u, TRUE)>>, "poll")
  PROVE  Connection(s, t)
<1>1. Requested(s, r) /\ r.cqe = 0 /\ ~r.recv
  BY DEF Connection, InOrder, ClerkPlace, Turn, Idle, Requesting, Replying, Replied
<1>2. s.n = r.buf /\ s.pc \in {"poll", "wait"} /\ s.wire = <<>> /\ s.header # "CLERK_DONE" /\ r.wire = <<>>
  BY <1>1 DEF Connection, ClientPlace, Requested, Quiet
<1> DEFINE ws == <<Message(s.n, ok), ReplyHeader>>
<1>3. t = PostAll(u, ws, "poll") /\ u.wire \o ws = ws
  <2>1. Header(u, TRUE) = ReplyHeader  BY DEF Header, ReplyHeader
  <2>2. t = PostAll(u, ws, "poll")  BY <1>2, <2>1, Zenon
  <2>3. u.wire \o ws = ws  BY <1>2, EmptyConcat
  <2>4. QED  BY <2>2, <2>3
<1>4. /\ IsSide(t) /\ t.pc = "poll" /\ t.header = "CLERK_DONE" /\ ~t.recv
      /\ \/ t.wire = ws /\ t.cqe = 0
         \/ t.wire = <<>> /\ t.cqe \in {0, 1}
  <2> HIDE DEF ws
  <2>1. Posted(t, u, ws, "poll")  BY <1>3, PostAllFields, Zenon
  <2>2. QED  BY <1>1, <1>2, <1>3, <2>1 DEF Posted, SameReceived
<1>5. InOrder(t) /\ ClerkPlace(t)
  BY <1>4 DEF InOrder, ClerkPlace
<1>6. Idle(s, t) \/ Replying(s, t)
  BY <1>2, <1>4 DEF Idle, Quiet, Replying
<1>7. QED  BY <1>4, <1>5, <1>6 DEF Connection, Turn

LEMMA ReplyPolled ==
  ASSUME NEW s, NEW r, Connection(s, r), r.pc = "poll", r.cqe > 0, NEW t, t = Polled(r, "spin")
  PROVE  Connection(s, t)
<1>1. r.cqe = 1 /\ r.wire = <<>> /\ IsSide(r) /\ ~r.recv
  BY DEF Connection, InOrder, ClerkPlace
<1>2. /\ IsSide(t) /\ t.pc = "spin" /\ SameReceived(t, r) /\ t.wire = <<>> /\ t.cqe = 0
  BY <1>1, PolledFields
<1>3. InOrder(t) /\ ClerkPlace(t)
  BY <1>1, <1>2 DEF InOrder, ClerkPlace, SameReceived
<1>4. Turn(s, t)
  BY <1>1, <1>2 DEF Connection, Turn, Idle, Requesting, Requested, Replying, Replied, SameReceived
<1>5. QED  BY <1>2, <1>3, <1>4 DEF Connection

\* The NIC executes a write of the client at the clerk.
LEMMA DeliveredToClerk ==
  ASSUME NEW s, NEW r, Connection(s, r), Deliverable(s, r),
         NEW t, t = Executed(s), NEW m, m = Head(s.wire),
         NEW u, u = Received(r, m)
  PROVE  Connection(t, u) /\ (u.pc = r.pc \/ r.pc = "recv")
<1>1. IsSide(s) /\ IsSide(r) /\ s.wire # <<>> /\ s.cqe = 0 /\ InOrder(r) /\ ClerkPlace(r) /\ ClientPlace(s)
  BY DEF Connection, Deliverable, InOrder
<1>2. /\ IsSide(t) /\ t.pc = s.pc /\ t.n = s.n /\ t.header = s.header
      /\ t.wire = Tail(s.wire)
      /\ t.cqe = IF m.signal THEN s.cqe + 1 ELSE s.cqe
  BY <1>1, ExecutedFields DEF SameReceived
<1>3. CASE s.wire = <<PlainSend>>
  <2>1. m.to = "recv" /\ m.signal /\ Tail(s.wire) = <<>>
    BY <1>3 DEF PlainSend
  <2>2. r.recv
    BY <2>1 DEF Deliverable
  <2>3. /\ IsSide(u) /\ u.wire = r.wire /\ u.cqe = r.cqe /\ u.header = r.header /\ u.buf = r.buf
        /\ ~u.recv /\ u.pc = "gone"
    <3>1. m.to \in {"buf", "header", "recv"}  BY <1>1, <2>1
    <3>2. Taken(u, r, m)  BY <1>1, <3>1, ReceivedFields
    <3>3. QED  BY <1>1, <2>1, <3>2 DEF Taken
  <2>4. (Idle(s, r) \/ Requested(s, r)) /\ s.pc = "closing" /\ r.pc = "recv"
    BY <1>1, <1>3, <2>2 DEF Connection, ClerkPlace, Turn, Requesting, Replying, Replied, Idle, Requested, Quiet,
       PlainSend, RequestHeader, Message
  <2>5. InOrder(t) /\ ClientPlace(t) /\ InOrder(u) /\ ClerkPlace(u)
    BY <1>1, <1>2, <2>1, <2>3, <2>4 DEF InOrder, ClientPlace, ClerkPlace
  <2>6. Turn(t, u)
    BY <1>2, <2>1, <2>3, <2>4 DEF Turn, Idle, Requested, Quiet
  <2>7. QED  BY <1>2, <2>3, <2>4, <2>5, <2>6 DEF Connection
<1>4. CASE s.wire # <<PlainSend>>
  <2>1. Requesting(s, r)
    BY <1>1, <1>4 DEF Connection, Turn, Idle, Requested, Quiet, Replying, Replied
  <2>2. CASE s.wire = <<Message(s.n, TRUE), RequestHeader>>
    <3>1. /\ m.to = "buf" /\ m.val = s.n /\ ~m.signal
          /\ Tail(s.wire) = <<RequestHeader>>
      BY <2>2 DEF Message
    <3>2. /\ IsSide(u) /\ u.wire = r.wire /\ u.cqe = r.cqe /\ u.header = r.header /\ u.buf = s.n
          /\ u.recv = r.recv /\ u.pc = r.pc
      <4>1. m.to \in {"buf", "header", "recv"}  BY <1>1, <3>1
      <4>2. Taken(u, r, m)  BY <1>1, <4>1, ReceivedFields
      <4>3. QED  BY <1>1, <3>1, <4>2 DEF Taken
    <3>3. InOrder(t) /\ ClientPlace(t) /\ InOrder(u) /\ ClerkPlace(u)
      BY <1>1, <1>2, <2>1, <3>1, <3>2 DEF InOrder, ClientPlace, ClerkPlace, Requesting
    <3>4. Requesting(t, u)
      BY <1>2, <2>1, <3>1, <3>2 DEF Requesting
    <3>5. QED  BY <1>2, <3>2, <3>3, <3>4 DEF Connection, Turn
  <2>3. CASE s.wire = <<RequestHeader>> /\ r.buf = s.n
    <3>1. /\ m.to = "header" /\ m.val = "CLIENT_DONE" /\ m.signal
          /\ Tail(s.wire) = <<>>
      BY <2>3 DEF RequestHeader
    <3>2. /\ IsSide(u) /\ u.wire = r.wire /\ u.cqe = r.cqe /\ u.header = "CLIENT_DONE" /\ u.buf = s.n
          /\ u.recv = r.recv /\ u.pc = r.pc
      <4>1. m.to \in {"buf", "header", "recv"}  BY <1>1, <2>3, <3>1
      <4>2. Taken(u, r, m)  BY <1>1, <4>1, ReceivedFields
      <4>3. QED  BY <1>1, <2>3, <3>1, <4>2 DEF Taken
    <3>3. InOrder(t) /\ ClientPlace(t) /\ InOrder(u) /\ ClerkPlace(u)
      BY <1>1, <1>2, <2>1, <3>1, <3>2 DEF InOrder, ClientPlace, ClerkPlace, Requesting
    <3>4. Requested(t, u)
      BY <1>2, <2>1, <3>1, <3>2 DEF Requesting, Requested, Quiet
    <3>5. QED  BY <1>2, <3>2, <3>3, <3>4 DEF Connection, Turn
  <2>4. QED  BY <2>1, <2>2, <2>3 DEF Requesting
<1>5. QED  BY <1>3, <1>4

\* The NIC executes a write of the clerk at the client.
LEMMA DeliveredToClient ==
  ASSUME NEW s, NEW r, Connection(s, r), Deliverable(r, s),
         NEW t, t = Executed(r), NEW m, m = Head(r.wire),
         NEW u, u = Received(s, m)
  PROVE  Connection(u, t) /\ t.pc = r.pc
<1>1. /\ IsSide(s) /\ IsSide(r) /\ r.wire # <<>> /\ r.cqe = 0 /\ r.pc \in {"poll", "closing"}
      /\ InOrder(s) /\ ClientPlace(s) /\ ClerkPlace(r)
  BY DEF Connection, Deliverable, InOrder
<1>2. /\ IsSide(t) /\ t.pc = r.pc /\ t.header = r.header /\ t.recv = r.recv
      /\ t.wire = Tail(r.wire)
      /\ t.cqe = IF m.signal THEN r.cqe + 1 ELSE r.cqe
  BY <1>1, ExecutedFields DEF SameReceived
<1>3. Replying(s, r)
  BY <1>1 DEF Connection, Turn, Idle, Requesting, Requested, Replied
<1>4. ASSUME NEW ok \in BOOLEAN, r.wire = <<Message(s.n, ok), ReplyHeader>>
      PROVE  Connection(u, t)
  <2>1. /\ m.to = "buf" /\ m.val = s.n /\ ~m.signal
        /\ Tail(r.wire) = <<ReplyHeader>>
    BY <1>4 DEF Message
  <2>2. /\ IsSide(u) /\ u.wire = s.wire /\ u.cqe = s.cqe /\ u.header = s.header /\ u.buf = s.n
        /\ u.pc = s.pc /\ u.n = s.n
    <3>1. m.to \in {"buf", "header", "recv"}  BY <1>1, <2>1
    <3>2. Taken(u, s, m)  BY <1>1, <3>1, ReceivedFields
    <3>3. QED  BY <1>1, <2>1, <3>2 DEF Taken
  <2>3. InOrder(t) /\ ClerkPlace(t) /\ InOrder(u) /\ ClientPlace(u)
    BY <1>1, <1>2, <2>1, <2>2 DEF InOrder, ClientPlace, ClerkPlace
  <2>4. Replying(u, t)
    BY <1>2, <1>3, <2>1, <2>2 DEF Replying
  <2>5. QED  BY <1>2, <2>2, <2>3, <2>4 DEF Connection, Turn
<1>5. CASE r.wire = <<ReplyHeader>> /\ s.buf = s.n
  <2>1. /\ m.to = "header" /\ m.val = "CLERK_DONE" /\ m.signal
        /\ Tail(r.wire) = <<>>
    BY <1>5 DEF ReplyHeader
  <2>2. /\ IsSide(u) /\ u.wire = s.wire /\ u.cqe = s.cqe /\ u.header = "CLERK_DONE" /\ u.buf = s.n
        /\ u.pc = s.pc /\ u.n = s.n
    <3>1. m.to \in {"buf", "header", "recv"}  BY <1>1, <1>5, <2>1
    <3>2. Taken(u, s, m)  BY <1>1, <3>1, ReceivedFields
    <3>3. QED  BY <1>1, <1>5, <2>1, <3>2 DEF Taken
  <2>3. InOrder(t) /\ ClerkPlace(t) /\ InOrder(u) /\ ClientPlace(u)
    BY <1>1, <1>2, <1>3, <2>1, <2>2 DEF InOrder, ClientPlace, ClerkPlace, Replying
  <2>4. Replied(u, t)
    BY <1>2, <1>3, <2>1, <2>2 DEF Replying, Replied
  <2>5. QED  BY <1>2, <2>2, <2>3, <2>4 DEF Connection, Turn
<1>6. QED  BY <1>2, <1>3, <1>4, <1>5 DEF Replying

\* A queue pair of the client fails: what it posted is lost.
LEMMA ClientFailed ==
  ASSUME NEW s, NEW r, Connection(s, r), s.wire # <<>>, NEW t, t = Failed(s)
  PROVE  Connection(t, r)
<1>1. IsSide(s) /\ s.cqe = 0 /\ s.pc \in {"poll", "closing"} /\ ClientPlace(s)
  BY DEF Connection, InOrder
<1>2. Idle(s, r) \/ Requesting(s, r) \/ Requested(s, r)
  BY DEF Connection, Turn, Replying, Replied
<1>3. s.wire \in {<<Message(s.n, TRUE), RequestHeader>>, <<RequestHeader>>, <<PlainSend>>}
  BY <1>2 DEF Idle, Requesting, Requested, Quiet
<1>4. Cardinality({i \in DOMAIN s.wire : s.wire[i].signal}) = 1
  BY <1>3, OneSignal
<1>5. /\ IsSide(t) /\ t.pc = s.pc /\ t.n = s.n /\ t.header = s.header /\ t.wire = <<>> /\ t.cqe = 1
  BY <1>1, <1>4, FailedFields DEF SameReceived
<1>6. InOrder(t) /\ ClientPlace(t)
  BY <1>1, <1>5 DEF InOrder, ClientPlace
<1>7. Idle(t, r) \/ Requested(t, r)
  BY <1>2, <1>5 DEF Idle, Requesting, Requested, Quiet
<1>8. QED  BY <1>5, <1>6, <1>7 DEF Connection, Turn

\* A reply whose data the key does not cover is lost with all that follows.
LEMMA ClerkFailed ==
  ASSUME NEW s, NEW r, Connection(s, r), r.wire # <<>>, NEW t, t = Failed(r)
  PROVE  Connection(s, t) /\ t.pc = r.pc
<1>1. IsSide(r) /\ r.cqe = 0 /\ r.pc \in {"poll", "closing"} /\ ClerkPlace(r)
  BY DEF Connection, InOrder
<1>2. Replying(s, r)
  BY DEF Connection, Turn, Idle, Requesting, Requested, Replied
<1>3. Cardinality({i \in DOMAIN r.wire : r.wire[i].signal}) = 1
  BY <1>2, OneSignal DEF Replying
<1>4. /\ IsSide(t) /\ t.pc = r.pc /\ t.header = r.header /\ t.recv = r.recv /\ t.wire = <<>> /\ t.cqe = 1
  BY <1>1, <1>3, FailedFields DEF SameReceived
<1>5. InOrder(t) /\ ClerkPlace(t)
  BY <1>1, <1>4 DEF InOrder, ClerkPlace
<1>6. Idle(s, t)
  BY <1>2, <1>4 DEF Idle, Replying, Quiet
<1>7. QED  BY <1>4, <1>5, <1>6 DEF Connection, Turn

-----------------------------------------------------------------------------
(* The invariant.                                                           *)

LEMMA LInvInit == Init => LInv
<1> SUFFICES ASSUME Init PROVE LInv  OBVIOUS
<1>1. /\ DOMAIN cl = Clients /\ DOMAIN sv = Clients
      /\ \A c \in Clients : cl[c] = Side("start") /\ sv[c] = Side("none")
  BY DEF Init
<1>2. DOMAIN listener = {"pc", "client"} /\ Listening
  BY DEF Init, Listening
<1>3. Connection(Side("start"), Side("none"))
  <2> DEFINE s == Side("start")
             r == Side("none")
  <2>1. /\ IsSide(s) /\ s.pc = "start" /\ s.wire = <<>> /\ s.cqe = 0 /\ s.header = "none"
        /\ IsSide(r) /\ r.pc = "none" /\ r.wire = <<>> /\ r.cqe = 0 /\ r.header = "none" /\ ~r.recv
    BY SideFields
  <2> HIDE DEF s, r
  <2>2. Connection(s, r)
    BY <2>1 DEF Connection, InOrder, ClientPlace, ClerkPlace, Turn, Idle, Quiet
  <2>3. QED  BY <2>2 DEF s, r
<1>4. QED  BY <1>1, <1>2, <1>3, Zenon DEF LInv

\* A step of one connection leaves the others alone, and what Listen is
\* setting up unless it is a step of Listen.
LEMMA OneConnection ==
  ASSUME LInv, NEW c \in Clients,
         DOMAIN cl' = Clients, DOMAIN sv' = Clients,
         \A d \in Clients : d # c => cl'[d] = cl[d] /\ sv'[d] = sv[d],
         Connection(cl'[c], sv'[c]),
         \/ listener' = listener /\ (sv'[c].pc = sv[c].pc \/ sv[c].pc \notin {"accepted", "exchanging"})
         \/ DOMAIN listener' = {"pc", "client"} /\ Listening'
  PROVE  LInv'
<1>1. \A d \in Clients : Connection(cl'[d], sv'[d])
  BY Zenon DEF LInv
<1>2. DOMAIN listener' = {"pc", "client"}
  BY DEF LInv
<1>3. Listening'
  BY DEF LInv, Listening
<1>4. QED  BY <1>1, <1>2, <1>3 DEF LInv

\* A step of the client's side alone.
LEMMA ClientOnly ==
  ASSUME LInv, NEW c \in Clients, UNCHANGED <<listener, sv>>, DOMAIN cl' = Clients,
         \A d \in Clients : d # c => cl'[d] = cl[d], Connection(cl'[c], sv[c])
  PROVE  LInv'
<1>1. DOMAIN sv' = Clients /\ sv'[c] = sv[c]
  BY DEF LInv
<1>2. QED  BY <1>1, OneConnection

\* A step of the clerk's side alone, once its thread runs.
LEMMA ClerkOnly ==
  ASSUME LInv, NEW c \in Clients, UNCHANGED <<listener, cl>>, DOMAIN sv' = Clients,
         \A d \in Clients : d # c => sv'[d] = sv[d], Connection(cl[c], sv'[c]),
         sv[c].pc \notin {"accepted", "exchanging"}
  PROVE  LInv'
<1>1. DOMAIN cl' = Clients /\ cl'[c] = cl[c]
  BY DEF LInv
<1>2. QED  BY <1>1, OneConnection

LEMMA ClientStepKeeps ==
  ASSUME LInv, NEW c \in Clients, ClientStep(c) \/ ClientDies(c)
  PROVE  LInv'
<1> DEFINE s == cl[c]
           r == sv[c]
<1>1. DOMAIN cl = Clients /\ IsSide(s) /\ Connection(s, r)
  BY DEF LInv, Connection
<1>2. ASSUME UNCHANGED <<listener, sv>>, NEW t, cl' = [cl EXCEPT ![c] = t], Connection(t, r)
      PROVE  LInv'
  <2>1. DOMAIN cl' = Clients /\ cl'[c] = t /\ \A d \in Clients : d # c => cl'[d] = cl[d]
    BY <1>1, <1>2
  <2>2. QED  BY <1>2, <2>1, ClientOnly
<1>3. ASSUME UNCHANGED <<listener, sv>>, NEW t, cl' = [cl EXCEPT ![c] = t], IsSide(t),
             s.pc \in {"start", "connected", "exchanging", "modify"},
             t.wire = s.wire, t.cqe = s.cqe, t.n = s.n,
             \/ t.pc \in {"connected", "never", "dead", "exchanging", "modify"} /\ t.header = s.header
             \/ t.pc = "ready" /\ t.header = "CLIENT_DONE"
      PROVE  LInv'
  <2>1. Connection(t, r)
    BY <1>1, <1>3, ClientSetup
  <2>2. QED  BY <1>2, <1>3, <2>1
\* A change of pc alone, which most of the steps of the set-up are.
<1>4. ASSUME UNCHANGED <<listener, sv>>, NEW pc \in {"connected", "never", "dead", "exchanging", "modify"},
             cl' = [cl EXCEPT ![c].pc = pc], s.pc \in {"start", "connected", "exchanging", "modify"}
      PROVE  LInv'
  <2> DEFINE t == [s EXCEPT !.pc = pc]
  <2>1. cl' = [cl EXCEPT ![c] = t]
    BY <1>1, <1>4, Zenon
  <2>2. IsSide(t) /\ t.wire = s.wire /\ t.cqe = s.cqe /\ t.n = s.n /\ t.pc = pc /\ t.header = s.header
    BY <1>1, Zenon DEF IsSide, Fields
  <2> HIDE DEF t
  <2>3. QED  BY <1>3, <1>4, <2>1, <2>2
<1>5. CASE Connect(c)
  BY <1>4, <1>5 DEF Connect
<1>6. CASE ClientDies(c)
  <2>1. PICK pc \in {"never", "dead"} : cl' = [cl EXCEPT ![c].pc = pc]
    <3>1. CASE s.pc = "start"
      <4>1. cl' = [cl EXCEPT ![c].pc = "never"]  BY <1>6, <3>1, Zenon DEF ClientDies
      <4>2. QED  BY <4>1, Zenon
    <3>2. CASE s.pc # "start"
      <4>1. cl' = [cl EXCEPT ![c].pc = "dead"]  BY <1>6, <3>2, Zenon DEF ClientDies
      <4>2. QED  BY <4>1, Zenon
    <3>3. QED  BY <3>1, <3>2
  <2>2. pc \in {"connected", "never", "dead", "exchanging", "modify"}
    OBVIOUS
  <2>3. UNCHANGED <<listener, sv>> /\ s.pc \in {"start", "connected", "exchanging", "modify"}
    BY <1>6 DEF ClientDies
  <2>4. QED  BY <1>4, <2>1, <2>2, <2>3, Zenon
<1>7. CASE WriteCertificate(c)
  BY <1>4, <1>7 DEF WriteCertificate
<1>8. CASE ReadCertificate(c)
  BY <1>4, <1>8 DEF ReadCertificate
<1>9. CASE ClientModify(c)
  <2>1. s.pc = "modify" /\ UNCHANGED <<listener, sv>>
    BY <1>9 DEF ClientModify
  <2>2. CASE cl' = [cl EXCEPT ![c].qp = "rtr"]
    <3> DEFINE t == [s EXCEPT !.qp = "rtr"]
    <3>1. cl' = [cl EXCEPT ![c] = t]  BY <1>1, <2>2, Zenon
    <3>2. IsSide(t) /\ t.wire = s.wire /\ t.cqe = s.cqe /\ t.n = s.n /\ t.pc = s.pc /\ t.header = s.header
      BY <1>1, Zenon DEF IsSide, Fields
    <3> HIDE DEF t
    <3>3. QED  BY <1>3, <2>1, <3>1, <3>2
  <2>3. CASE cl' = [cl EXCEPT ![c].qp = "rts", ![c].pc = "ready", ![c].header = "CLIENT_DONE"]
    <3> DEFINE t == [s EXCEPT !.qp = "rts", !.pc = "ready", !.header = "CLIENT_DONE"]
    <3>1. cl' = [cl EXCEPT ![c] = t]  BY <1>1, <2>3, Zenon
    <3>2. IsSide(t) /\ t.wire = s.wire /\ t.cqe = s.cqe /\ t.n = s.n /\ t.pc = "ready" /\ t.header = "CLIENT_DONE"
      BY <1>1, Zenon DEF IsSide, Fields
    <3> HIDE DEF t
    <3>3. QED  BY <1>3, <2>1, <3>1, <3>2
  <2>4. CASE cl' = [cl EXCEPT ![c].pc = "ready", ![c].header = "CLIENT_DONE"]
    <3> DEFINE t == [s EXCEPT !.pc = "ready", !.header = "CLIENT_DONE"]
    <3>1. cl' = [cl EXCEPT ![c] = t]  BY <1>1, <2>4, Zenon
    <3>2. IsSide(t) /\ t.wire = s.wire /\ t.cqe = s.cqe /\ t.n = s.n /\ t.pc = "ready" /\ t.header = "CLIENT_DONE"
      BY <1>1, Zenon DEF IsSide, Fields
    <3> HIDE DEF t
    <3>3. QED  BY <1>3, <2>1, <3>1, <3>2
  <2>5. QED  BY <1>9, <2>2, <2>3, <2>4, Zenon DEF ClientModify
<1>10. CASE SendRequest(c)
  <2> DEFINE u == [s EXCEPT !.n = s.n + 1, !.buf = 0]
             t == PostAll(u, <<Message(u.n, TRUE), Header(u, TRUE)>>, "poll")
  <2>1. u.n = s.n + 1 /\ IsSide(u) /\ u.wire = s.wire /\ u.cqe = s.cqe /\ u.header = s.header
    BY <1>1, Zenon DEF IsSide, Fields
  <2>2. cl' = [cl EXCEPT ![c] = PostAll(u, <<Message(s.n + 1, TRUE), Header(u, TRUE)>>, "poll")]
    BY <1>10, Zenon DEF SendRequest
  <2>3. cl' = [cl EXCEPT ![c] = t]
    BY <2>1, <2>2, Zenon
  <2>4. s.pc = "ready" /\ UNCHANGED <<listener, sv>>
    BY <1>10 DEF SendRequest
  <2> HIDE DEF u
  <2>5. Connection(t, r)
    BY <1>1, <2>1, <2>4, RequestPosted
  <2> HIDE DEF t
  <2>6. QED  BY <1>2, <2>3, <2>4, <2>5
<1>11. CASE ClientPolls(c)
  <2> DEFINE t == IF s.n < MaxRequests THEN Polled(s, "wait")
                  ELSE PostAll(Polled(s, "poll"), <<PlainSend>>, "closing")
  <2>1. s.pc = "poll" /\ s.cqe > 0 /\ UNCHANGED <<listener, sv>>
    BY <1>11 DEF ClientPolls
  <2>2. cl' = [cl EXCEPT ![c] = t]
    BY <1>11, Zenon DEF ClientPolls
  <2>3. Connection(t, r)
    BY <1>1, <2>1, RequestPolled
  <2> HIDE DEF t
  <2>4. QED  BY <1>2, <2>1, <2>2, <2>3
<1>12. CASE ClientSees(c)
  <2> DEFINE t == [s EXCEPT !.pc = "ready", !.header = "CLIENT_DONE"]
  <2>1. s.pc = "wait" /\ s.header = "CLERK_DONE" /\ UNCHANGED <<listener, sv>>
    BY <1>12 DEF ClientSees
  <2>2. cl' = [cl EXCEPT ![c] = t]
    BY <1>1, <1>12, Zenon DEF ClientSees
  <2>3. IsSide(t) /\ t.wire = s.wire /\ t.cqe = s.cqe /\ t.pc = "ready" /\ t.header = "CLIENT_DONE"
    BY <1>1, Zenon DEF IsSide, Fields
  <2> HIDE DEF t
  <2>4. Connection(t, r)
    BY <1>1, <2>1, <2>3, ReplySeen
  <2>5. QED  BY <1>2, <2>1, <2>2, <2>4
<1>13. CASE ClientCloses(c)
  <2> DEFINE t == Polled(s, "closed")
  <2>1. s.pc = "closing" /\ s.cqe > 0 /\ UNCHANGED <<listener, sv>> /\ cl' = [cl EXCEPT ![c] = t]
    BY <1>13, Zenon DEF ClientCloses
  <2> HIDE DEF t
  <2>2. Connection(t, r)
    BY <1>1, <2>1, ClosePolled DEF t
  <2>3. QED  BY <1>2, <2>1, <2>2
<1>14. QED
  BY <1>5, <1>6, <1>7, <1>8, <1>9, <1>10, <1>11, <1>12, <1>13, Zenon DEF ClientStep

LEMMA ClerkStepKeeps ==
  ASSUME LInv, NEW c \in Clients, ClerkStep(c)
  PROVE  LInv'
<1> DEFINE s == cl[c]
           r == sv[c]
<1>1. DOMAIN sv = Clients /\ IsSide(r) /\ Connection(s, r)
  BY DEF LInv, Connection
<1>2. ASSUME UNCHANGED <<listener, cl>>, NEW t, sv' = [sv EXCEPT ![c] = t], Connection(s, t),
             r.pc \in {"spin", "poll"}
      PROVE  LInv'
  <2>1. DOMAIN sv' = Clients /\ sv'[c] = t /\ \A d \in Clients : d # c => sv'[d] = sv[d]
    BY <1>1, <1>2
  <2>2. QED  BY <1>2, <2>1, ClerkOnly
<1>3. CASE ClerkServes(c)
  <2> DEFINE u == [r EXCEPT !.header = "CLERK_DONE"]
  <2>1. r.pc = "spin" /\ r.header = "CLIENT_DONE" /\ UNCHANGED <<listener, cl>>
    BY <1>3 DEF ClerkServes
  <2>2. /\ IsSide(u) /\ u.header = "CLERK_DONE" /\ u.wire = r.wire /\ u.cqe = r.cqe
        /\ u.recv = r.recv /\ u.buf = r.buf
    BY <1>1, Zenon DEF IsSide, Fields
  <2>3. CASE sv' = [sv EXCEPT ![c] = [u EXCEPT !.pc = "recv", !.recv = TRUE]]
    <3> DEFINE t == [u EXCEPT !.pc = "recv", !.recv = TRUE]
    <3>1. IsSide(t) /\ t.pc = "recv" /\ t.header = u.header /\ t.wire = u.wire /\ t.cqe = u.cqe
      BY <2>2, Zenon DEF IsSide, Fields
    <3>2. sv' = [sv EXCEPT ![c] = t]
      BY <2>3, Zenon
    <3> HIDE DEF t, u
    <3>3. Connection(s, t)
      BY <1>1, <2>1, <2>2, <3>1, CloseServed
    <3>4. QED  BY <1>2, <2>1, <3>2, <3>3
  <2>4. ASSUME NEW long \in BOOLEAN, u.buf < MaxRequests,
               sv' = [sv EXCEPT ![c] = PostAll(u, ReplyPosts(u, u.buf, long), "poll")]
        PROVE  LInv'
    <3> DEFINE ok == SendKeyOK(long)
               t == PostAll(u, <<Message(r.buf, ok), Header(u, TRUE)>>, "poll")
    <3>1. ok \in BOOLEAN
      BY DEF SendKeyOK
    <3>2. sv' = [sv EXCEPT ![c] = t]
      BY <2>2, <2>4, Zenon DEF ReplyPosts
    <3>3. r.buf < MaxRequests
      BY <2>2, <2>4, Zenon
    <3> HIDE DEF u, ok
    <3>4. Connection(s, t)
      BY <1>1, <2>1, <2>2, <3>1, <3>3, ReplyPosted
    <3> HIDE DEF t
    <3>5. QED  BY <1>2, <2>1, <3>2, <3>4
  <2>5. \/ sv' = [sv EXCEPT ![c] = [u EXCEPT !.pc = "recv", !.recv = TRUE]]
        \/ \E long \in BOOLEAN : /\ u.buf < MaxRequests
                                 /\ sv' = [sv EXCEPT ![c] = PostAll(u, ReplyPosts(u, u.buf, long), "poll")]
    BY <1>3, Zenon DEF ClerkServes
  <2>6. QED  BY <2>3, <2>4, <2>5, Zenon
<1>4. CASE ClerkPolls(c)
  <2> DEFINE t == Polled(r, "spin")
  <2>1. r.pc = "poll" /\ r.cqe > 0 /\ UNCHANGED <<listener, cl>> /\ sv' = [sv EXCEPT ![c] = t]
    BY <1>4, Zenon DEF ClerkPolls
  <2> HIDE DEF t
  <2>2. Connection(s, t)
    BY <1>1, <2>1, ReplyPolled DEF t
  <2>3. QED  BY <1>2, <2>1, <2>2
<1>5. QED  BY <1>3, <1>4 DEF ClerkStep

LEMMA NICStepKeeps ==
  ASSUME LInv, NEW c \in Clients, NICStep(c)
  PROVE  LInv'
<1> DEFINE s == cl[c]
           r == sv[c]
<1>1. DOMAIN cl = Clients /\ DOMAIN sv = Clients /\ Connection(s, r)
  BY DEF LInv
<1>2. ASSUME UNCHANGED listener, NEW t, NEW u,
             cl' = [cl EXCEPT ![c] = t], sv' = [sv EXCEPT ![c] = u],
             Connection(t, u), u.pc = r.pc \/ r.pc = "recv"
      PROVE  LInv'
  <2>1. /\ DOMAIN cl' = Clients /\ cl'[c] = t /\ DOMAIN sv' = Clients /\ sv'[c] = u
        /\ \A d \in Clients : d # c => cl'[d] = cl[d] /\ sv'[d] = sv[d]
    BY <1>1, <1>2
  <2>2. QED  BY <1>2, <2>1, OneConnection
<1>3. CASE ToClerk(c)
  <2> DEFINE t == Executed(s)
             m == Head(s.wire)
             u == Received(r, m)
  <2>1. /\ UNCHANGED listener /\ Deliverable(s, r)
        /\ cl' = [cl EXCEPT ![c] = t] /\ sv' = [sv EXCEPT ![c] = u]
    BY <1>3, Zenon DEF ToClerk
  <2>2. t = Executed(s) /\ m = Head(s.wire) /\ u = Received(r, m)
    OBVIOUS
  <2> HIDE DEF t, m, u
  <2>3. Connection(t, u) /\ (u.pc = r.pc \/ r.pc = "recv")
    BY <1>1, <2>1, <2>2, DeliveredToClerk
  <2>4. QED  BY <1>2, <2>1, <2>3
<1>4. CASE ToClient(c)
  <2> DEFINE t == Executed(r)
             m == Head(r.wire)
             u == Received(s, m)
  <2>1. /\ UNCHANGED listener /\ Deliverable(r, s)
        /\ cl' = [cl EXCEPT ![c] = u] /\ sv' = [sv EXCEPT ![c] = t]
    BY <1>4, Zenon DEF ToClient
  <2>2. t = Executed(r) /\ m = Head(r.wire) /\ u = Received(s, m)
    OBVIOUS
  <2> HIDE DEF t, m, u
  <2>3. Connection(u, t) /\ t.pc = r.pc
    BY <1>1, <2>1, <2>2, DeliveredToClient
  <2>4. QED  BY <1>2, <2>1, <2>3
<1>5. CASE Unreachable(c)
  <2> DEFINE t == Failed(s)
  <2>1. s.wire # <<>> /\ UNCHANGED <<listener, sv>> /\ cl' = [cl EXCEPT ![c] = t]
    BY <1>5, Zenon DEF Unreachable
  <2> HIDE DEF t
  <2>2. Connection(t, r)
    BY <1>1, <2>1, ClientFailed DEF t
  <2>3. DOMAIN cl' = Clients /\ cl'[c] = t /\ \A d \in Clients : d # c => cl'[d] = cl[d]
    BY <1>1, <2>1
  <2>4. QED  BY <2>1, <2>2, <2>3, ClientOnly
<1>6. CASE BadKey(c)
  <2> DEFINE t == Failed(r)
  <2>1. r.wire # <<>> /\ UNCHANGED <<listener, cl>> /\ sv' = [sv EXCEPT ![c] = t]
    BY <1>6, Zenon DEF BadKey
  <2> HIDE DEF t
  <2>2. Connection(s, t) /\ t.pc = r.pc
    BY <1>1, <2>1, ClerkFailed DEF t
  <2>3. /\ DOMAIN sv' = Clients /\ sv'[c] = t /\ DOMAIN cl' = Clients /\ cl'[c] = s
        /\ \A d \in Clients : d # c => cl'[d] = cl[d] /\ sv'[d] = sv[d]
    BY <1>1, <2>1
  <2>4. QED  BY <2>1, <2>2, <2>3, OneConnection
<1>7. QED  BY <1>3, <1>4, <1>5, <1>6 DEF NICStep

\* Listen changes the side of the connection it sets up, or only itself.
LEMMA ListenKeeps ==
  ASSUME LInv, Listen
  PROVE  LInv'
<1>1. DOMAIN cl = Clients /\ DOMAIN sv = Clients /\ DOMAIN listener = {"pc", "client"} /\ Listening
  BY DEF LInv
<1>2. ASSUME NEW c \in Clients, UNCHANGED cl, NEW t, sv' = [sv EXCEPT ![c] = t], IsSide(t),
             sv[c].pc \in {"none", "accepted", "exchanging"},
             t.pc \in {"accepted", "exchanging", "spin"},
             t.wire = sv[c].wire, t.cqe = sv[c].cqe, t.buf = sv[c].buf, t.recv = sv[c].recv,
             t.header \in {sv[c].header, "CLERK_DONE"},
             DOMAIN listener' = {"pc", "client"},
             \/ listener'.pc = "accept"
             \/ listener'.client = c /\ listener'.pc \in {"open", "write"} /\ t.pc = "accepted"
             \/ listener'.client = c /\ listener'.pc \in {"read", "modify", "clerk"} /\ t.pc = "exchanging"
      PROVE  LInv'
  <2>1. Connection(cl[c], t)
    BY <1>2, ServerSetup DEF LInv
  <2>2. /\ DOMAIN sv' = Clients /\ sv'[c] = t /\ DOMAIN cl' = Clients /\ cl'[c] = cl[c]
        /\ \A d \in Clients : d # c => cl'[d] = cl[d] /\ sv'[d] = sv[d]
    BY <1>1, <1>2
  <2>3. Listening'
    BY <1>2, <2>2 DEF Listening
  <2>4. QED  BY <1>2, <2>1, <2>2, <2>3, OneConnection
<1>3. ASSUME UNCHANGED <<cl, sv>>, DOMAIN listener' = {"pc", "client"}, Listening'
      PROVE  LInv'
  BY <1>3 DEF LInv
<1>4. ASSUME NEW pc
      PROVE  LET l == [listener EXCEPT !.pc = pc]
             IN  DOMAIN l = {"pc", "client"} /\ l.pc = pc /\ l.client = listener.client
  BY <1>1, Zenon
<1>5. ASSUME NEW c \in Clients, Accept(c)
      PROVE  LInv'
  <2> DEFINE t == [sv[c] EXCEPT !.pc = "accepted"]
  <2>1. IsSide(sv[c])
    BY DEF LInv, Connection
  <2>2. sv' = [sv EXCEPT ![c] = t]
    BY <1>1, <1>5, <2>1, Zenon DEF Accept
  <2>3. /\ IsSide(t) /\ t.wire = sv[c].wire /\ t.cqe = sv[c].cqe /\ t.buf = sv[c].buf
        /\ t.recv = sv[c].recv /\ t.header = sv[c].header /\ t.pc = "accepted"
    BY <2>1, Zenon DEF IsSide, Fields
  <2>4. /\ UNCHANGED cl /\ sv[c].pc = "none" /\ listener' = [pc |-> "open", client |-> c]
    BY <1>5 DEF Accept
  <2>5. DOMAIN listener' = {"pc", "client"} /\ listener'.pc = "open" /\ listener'.client = c
    BY <2>4
  <2> HIDE DEF t
  <2>6. QED  BY <1>2, <2>2, <2>3, <2>4, <2>5
<1>6. CASE Open
  <2>1. UNCHANGED <<cl, sv>> /\ listener.pc = "open"
    BY <1>6 DEF Open
  <2>2. CASE listener' = [listener EXCEPT !.pc = "write"]
    <3>1. DOMAIN listener' = {"pc", "client"} /\ listener'.pc = "write" /\ listener'.client = listener.client
      BY <1>4, <2>2, Zenon
    <3>2. Listening'
      BY <1>1, <2>1, <3>1 DEF Listening
    <3>3. QED  BY <1>3, <2>1, <3>1, <3>2
  <2>3. CASE listener' = listener
    <3>1. DOMAIN listener' = {"pc", "client"} /\ Listening'
      BY <1>1, <2>1, <2>3 DEF Listening
    <3>2. QED  BY <1>3, <2>1, <3>1
  <2>4. QED  BY <1>6, <2>2, <2>3, Zenon DEF Open
<1>7. CASE ServerWritesCertificate
  <2> DEFINE c == listener.client
             t == [sv[c] EXCEPT !.pc = "exchanging"]
  <2>1. c \in Clients /\ sv[c].pc = "accepted" /\ UNCHANGED cl
    BY <1>1, <1>7 DEF ServerWritesCertificate, Listening
  <2>2. IsSide(sv[c])
    BY <2>1 DEF LInv, Connection
  <2>3. sv' = [sv EXCEPT ![c] = t]
    BY <1>1, <1>7, <2>1, <2>2, Zenon DEF ServerWritesCertificate
  <2>4. /\ IsSide(t) /\ t.wire = sv[c].wire /\ t.cqe = sv[c].cqe /\ t.buf = sv[c].buf
        /\ t.recv = sv[c].recv /\ t.header = sv[c].header /\ t.pc = "exchanging"
    BY <2>2, Zenon DEF IsSide, Fields
  <2>5. DOMAIN listener' = {"pc", "client"} /\ listener'.pc = "read" /\ listener'.client = c
    BY <1>4, <1>7, Zenon DEF ServerWritesCertificate
  <2> HIDE DEF t
  <2>6. QED  BY <1>2, <2>1, <2>3, <2>4, <2>5
<1>8. CASE ServerReadsCertificate
  <2>1. UNCHANGED <<cl, sv>> /\ listener.pc = "read"
    BY <1>8 DEF ServerReadsCertificate
  <2>2. CASE listener' = [listener EXCEPT !.pc = "modify"]
    <3>1. DOMAIN listener' = {"pc", "client"} /\ listener'.pc = "modify" /\ listener'.client = listener.client
      BY <1>4, <2>2, Zenon
    <3>2. Listening'
      BY <1>1, <2>1, <3>1 DEF Listening
    <3>3. QED  BY <1>3, <2>1, <3>1, <3>2
  <2>3. CASE listener' = listener
    <3>1. DOMAIN listener' = {"pc", "client"} /\ Listening'
      BY <1>1, <2>1, <2>3 DEF Listening
    <3>2. QED  BY <1>3, <2>1, <3>1
  <2>4. QED  BY <1>8, <2>2, <2>3, Zenon DEF ServerReadsCertificate
<1>9. CASE ServerModify
  <2> DEFINE c == listener.client
  <2>1. c \in Clients /\ sv[c].pc = "exchanging" /\ UNCHANGED cl /\ listener.pc = "modify"
    BY <1>1, <1>9 DEF ServerModify, Listening
  <2>2. IsSide(sv[c])
    BY <2>1 DEF LInv, Connection
  <2>3. /\ \/ \E qp \in {"rtr", "rts"} : sv' = [sv EXCEPT ![c].qp = qp]
           \/ sv' = sv
        /\ \/ listener' = listener
           \/ listener' = [listener EXCEPT !.pc = "clerk"]
    BY <1>9, Zenon DEF ServerModify
  <2>4. DOMAIN listener' = {"pc", "client"} /\ listener'.pc \in {"modify", "clerk"} /\ listener'.client = c
    <3>1. CASE listener' = listener  BY <1>1, <2>1, <3>1
    <3>2. CASE listener' = [listener EXCEPT !.pc = "clerk"]
      <4>1. DOMAIN listener' = {"pc", "client"} /\ listener'.pc = "clerk" /\ listener'.client = c
        BY <1>4, <3>2, Zenon
      <4>2. QED  BY <4>1
    <3>3. QED  BY <2>3, <3>1, <3>2, Zenon
  <2>5. ASSUME NEW qp, sv' = [sv EXCEPT ![c].qp = qp]
        PROVE  LInv'
    <3> DEFINE t == [sv[c] EXCEPT !.qp = qp]
    <3>1. sv' = [sv EXCEPT ![c] = t]
      BY <1>1, <2>1, <2>2, <2>5, Zenon
    <3>2. /\ IsSide(t) /\ t.wire = sv[c].wire /\ t.cqe = sv[c].cqe /\ t.buf = sv[c].buf
          /\ t.recv = sv[c].recv /\ t.header = sv[c].header /\ t.pc = sv[c].pc
      BY <2>2, Zenon DEF IsSide, Fields
    <3> HIDE DEF t
    <3>3. QED  BY <1>2, <2>1, <2>4, <3>1, <3>2
  <2>6. CASE sv' = sv
    <3>1. Listening'
      BY <2>1, <2>4, <2>6 DEF Listening
    <3>2. QED  BY <1>3, <2>1, <2>4, <2>6, <3>1
  <2>7. QED  BY <2>3, <2>5, <2>6, Zenon
<1>10. CASE NewClerk
  <2> DEFINE c == listener.client
             h == IF frontend = "pmr" THEN "CLERK_DONE" ELSE sv[c].header
             t == [sv[c] EXCEPT !.pc = "spin", !.header = h]
  <2>1. c \in Clients /\ sv[c].pc = "exchanging" /\ UNCHANGED cl
    BY <1>1, <1>10 DEF NewClerk, Listening
  <2>2. IsSide(sv[c])
    BY <2>1 DEF LInv, Connection
  <2>3. sv' = [sv EXCEPT ![c] = t]
    BY <1>1, <1>10, <2>1, <2>2, Zenon DEF NewClerk
  <2>4. h \in {sv[c].header, "CLERK_DONE"}
    OBVIOUS
  <2> HIDE DEF h
  <2>5. /\ IsSide(t) /\ t.wire = sv[c].wire /\ t.cqe = sv[c].cqe /\ t.buf = sv[c].buf
        /\ t.recv = sv[c].recv /\ t.header = h /\ t.pc = "spin"
    BY <2>2, Zenon DEF IsSide, Fields
  <2>6. DOMAIN listener' = {"pc", "client"} /\ listener'.pc = "accept"
    BY <1>10 DEF NewClerk
  <2> HIDE DEF t
  <2>7. QED  BY <1>2, <2>1, <2>3, <2>4, <2>5, <2>6
<1>11. QED
  BY <1>5, <1>6, <1>7, <1>8, <1>9, <1>10, Zenon DEF Listen

LEMMA LInvStep == LInv /\ [Next]_linkVars => LInv'
<1> SUFFICES ASSUME LInv, [Next]_linkVars PROVE LInv'  OBVIOUS
<1>1. CASE Listen
  BY <1>1, ListenKeeps
<1>2. ASSUME NEW c \in Clients, ClientStep(c) \/ ClientDies(c) \/ ClerkStep(c) \/ NICStep(c)
      PROVE  LInv'
  BY <1>2, ClientStepKeeps, ClerkStepKeeps, NICStepKeeps
<1>3. CASE UNCHANGED linkVars
  BY <1>3 DEF linkVars, LInv, Listening
<1>4. QED  BY <1>1, <1>2, <1>3, Zenon DEF Next

\* One turn passes between the sides of every connection.
LEMMA LInvariance == Spec => []LInv
<1>1. QED  BY LInvInit, LInvStep, PTL DEF Spec

\* Whoever leaves its spin on the header word (the clerk in Run, the client in
\* Connect and Send) finds the whole message the word announces in its buffer:
\* for any number of clients and requests, on each front end, whatever fails
\* while a connection is set up or used.
THEOREM MessageBeforeHeaderCorrect == Spec => []MessageBeforeHeader
<1>1. LInv => MessageBeforeHeader
  <2> SUFFICES ASSUME LInv, NEW c \in Clients
      PROVE  /\ cl[c].pc = "wait" /\ cl[c].header = "CLERK_DONE" => cl[c].buf = cl[c].n
             /\ sv[c].pc = "spin" /\ sv[c].header = "CLIENT_DONE" => sv[c].buf = cl[c].n
    BY DEF MessageBeforeHeader
  <2>1. Turn(cl[c], sv[c])
    BY DEF LInv, Connection
  <2>2. QED  BY <2>1 DEF Turn, Idle, Requesting, Requested, Replying, Replied
<1>2. QED  BY <1>1, LInvariance, PTL
=============================================================================
