----------------------------- MODULE RDMALink ------------------------------
(***************************************************************************)
(* rdmautil and the connection code of the three front ends: the server    *)
(* accepts one client after the other, both sides open an RDMA context,    *)
(* exchange their certificates over the socket and bring their queue pairs *)
(* up; then requests and replies are RDMA writes of a buffer followed by   *)
(* an RDMA write of the header word the other side spins on.               *)
(*                                                                         *)
(* The NIC is external: a reliable connection delivers the writes of one   *)
(* side in order once the other side is ready to receive; a request it     *)
(* cannot execute takes the queue pair into the error state, in which      *)
(* everything posted completes and nothing is sent.                        *)
(***************************************************************************)
EXTENDS Naturals, Sequences, FiniteSets

CONSTANTS Clients,
          Frontends,     \* front ends the server may run: "pmr", "pmem", "group"
          LongReplies,   \* front ends whose replies may be longer than MAX_INLINE_SIZE
          Faults,        \* what may fail: "open", "modify", "client"
          QPDepth,       \* MAX_QP_DEPTH
          MaxRequests    \* bound: requests of a client

VARIABLES frontend,  \* the front end this server runs
          server,    \* "up", or "down": the process ended
          listener,  \* [pc, client]: where Listen is and whom it serves
          cl,        \* client -> its side of the connection
          sv         \* client -> the clerk's side

linkVars == <<frontend, server, listener, cl, sv>>

Nobody == "nobody"
Requests == 1 .. MaxRequests

\* A side of a connection: where its thread is, its queue pair, the writes it
\* posted that are on their way, the send queue entries in use, the
\* completions to poll, its header word and its message buffer.
Side(pc) == [pc |-> pc, qp |-> "reset", wire |-> <<>>, sq |-> 0, cqe |-> 0,
             header |-> "none", buf |-> 0, recv |-> FALSE, n |-> 0]

Init ==
    /\ frontend \in Frontends
    /\ server = "up"
    /\ listener = [pc |-> "accept", client |-> Nobody]
    /\ cl = [c \in Clients |-> Side("start")]
    /\ sv = [c \in Clients |-> Side("none")]

-----------------------------------------------------------------------------
(* Posting and polling.  None of the callers looks at what a post returns   *)
(* or at the status of a completion.                                        *)

\* The list ws of writes is posted by the side s, which then polls for the
\* completion of the last one, the only one that is signaled.
PostAll(s, ws, pc) ==
    IF s.qp = "rts" /\ s.sq + Len(ws) <= QPDepth
    THEN [s EXCEPT !.wire = @ \o ws, !.sq = @ + Len(ws), !.pc = pc]
    ELSE IF s.qp = "error" THEN [s EXCEPT !.cqe = @ + 1, !.pc = pc]
    ELSE [s EXCEPT !.pc = pc]

\* What is written: a message to the buffer, the value the header word has
\* when it is posted (it is short enough to be inlined), or a plain send.
Message(n, ok) == [to |-> "buf", val |-> n, ok |-> ok, signal |-> FALSE]
Header(s, signal) == [to |-> "header", val |-> s.header, ok |-> TRUE, signal |-> signal]
PlainSend == [to |-> "recv", val |-> 0, ok |-> TRUE, signal |-> TRUE]

\* Mutant: the entries of the writes that are not signaled stay in use.
PolledMutant(s, pc) == [s EXCEPT !.cqe = @ - 1, !.pc = pc]
\* poll_one_completion: the entries up to the signaled one are free again.
Polled(s, pc) == [s EXCEPT !.cqe = @ - 1, !.sq = Len(s.wire), !.pc = pc]

\* The data of a write that is not inlined is read with the key of write_mr.
\* post_write1 takes the data from send_buf, which that key does not cover.
UsesWrite1 == frontend \in {"pmr", "pmem"}
SendKeyOK(long) == ~long \/ ~UsesWrite1

-----------------------------------------------------------------------------
(* Setting up.                                                              *)

\* Socket::make_socket of the client; its queue pair and buffers exist.
Connect(c) ==
    /\ cl[c].pc = "start"
    /\ server = "up"
    /\ cl' = [cl EXCEPT ![c].pc = "connected"]
    /\ UNCHANGED <<frontend, server, listener, sv>>

\* open of the client fails: register_write_buf uses a null context.
ClientDies(c) ==
    /\ "client" \in Faults
    /\ cl[c].pc \in {"start", "connected"}
    /\ cl' = [cl EXCEPT ![c].pc = IF @ = "start" THEN "never" ELSE "dead"]
    /\ UNCHANGED <<frontend, server, listener, sv>>

\* exchange_certificate of the client: its certificate is written, and that of
\* the server read when there is one.
WriteCertificate(c) ==
    /\ cl[c].pc = "connected"
    /\ cl' = [cl EXCEPT ![c].pc = "exchanging"]
    /\ UNCHANGED <<frontend, server, listener, sv>>

ReadCertificate(c) ==
    /\ cl[c].pc = "exchanging"
    /\ \/ sv[c].pc \notin {"none", "accepted"} /\ cl' = [cl EXCEPT ![c].pc = "modify"]
       \/ /\ server = "down" /\ sv[c].pc \in {"none", "accepted"}
          /\ cl' = [cl EXCEPT ![c].pc = "dead"]
    /\ UNCHANGED <<frontend, server, listener, sv>>

\* default_connect returns the error of ibv_modify_qp, a positive number, and
\* its callers only look for -1: the connection is used as if it were up.
ModifyFails(side, c) == "modify" \in Faults /\ side[c].qp # "rts"

ClientModify(c) ==
    /\ cl[c].pc = "modify"
    /\ \/ /\ cl[c].qp = "reset"
          /\ cl' = [cl EXCEPT ![c].qp = "rtr"]
       \/ /\ cl[c].qp = "rtr"
          /\ cl' = [cl EXCEPT ![c].qp = "rts", ![c].pc = "ready", ![c].header = "CLIENT_DONE"]
       \/ /\ ModifyFails(cl, c)
          /\ cl' = [cl EXCEPT ![c].pc = "ready", ![c].header = "CLIENT_DONE"]
    /\ UNCHANGED <<frontend, server, listener, sv>>

Accept(c) ==
    /\ server = "up"
    /\ listener.pc = "accept"
    /\ cl[c].pc \notin {"start", "never"}
    /\ sv[c].pc = "none"
    /\ listener' = [pc |-> "open", client |-> c]
    /\ sv' = [sv EXCEPT ![c].pc = "accepted"]
    /\ UNCHANGED <<frontend, server, cl>>

\* RDMADevice::open, and what follows when it fails: the status is printed and
\* the null context used.
Open ==
    /\ server = "up"
    /\ listener.pc = "open"
    /\ \/ /\ listener' = [listener EXCEPT !.pc = "write"]
          /\ UNCHANGED server
       \/ /\ "open" \in Faults
          /\ server' = "down"
          /\ UNCHANGED listener
    /\ UNCHANGED <<frontend, cl, sv>>

ServerWritesCertificate ==
    /\ server = "up"
    /\ listener.pc = "write"
    /\ listener' = [listener EXCEPT !.pc = "read"]
    /\ sv' = [sv EXCEPT ![listener.client].pc = "exchanging"]
    /\ UNCHANGED <<frontend, server, cl>>

\* The read ends the server when the client is gone.
ServerReadsCertificate ==
    /\ server = "up"
    /\ listener.pc = "read"
    /\ \/ /\ cl[listener.client].pc \notin {"connected", "dead"}
          /\ listener' = [listener EXCEPT !.pc = "modify"]
          /\ UNCHANGED server
       \/ /\ cl[listener.client].pc = "dead"
          /\ server' = "down"
          /\ UNCHANGED listener
    /\ UNCHANGED <<frontend, cl, sv>>

ServerModify ==
    LET c == listener.client
    IN  /\ server = "up"
        /\ listener.pc = "modify"
        /\ \/ /\ sv[c].qp = "reset"
              /\ sv' = [sv EXCEPT ![c].qp = "rtr"]
              /\ UNCHANGED listener
           \/ /\ sv[c].qp = "rtr"
              /\ sv' = [sv EXCEPT ![c].qp = "rts"]
              /\ listener' = [listener EXCEPT !.pc = "clerk"]
           \/ /\ ModifyFails(sv, c)
              /\ listener' = [listener EXCEPT !.pc = "clerk"]
              /\ UNCHANGED sv
        /\ UNCHANGED <<frontend, server, cl>>

\* The constructor of the clerk (that of PMRClerk sets the header word, over the
\* CLIENT_DONE of a request that is there already), the start of its thread and
\* the next NewChannel.
NewClerk ==
    LET c == listener.client
    IN  /\ server = "up"
        /\ listener.pc = "clerk"
        /\ sv' = [sv EXCEPT ![c].pc = "spin",
                            ![c].header = IF frontend = "pmr" THEN "CLERK_DONE" ELSE @]
        /\ listener' = [pc |-> "accept", client |-> Nobody]
        /\ UNCHANGED <<frontend, server, cl>>

-----------------------------------------------------------------------------
(* Requests.  The n-th request is the number n, its reply too; the last one  *)
(* is CLOSE.                                                                 *)

\* The usleep(50) before the first request of PMRClient waits for nothing the
\* server does: the request may arrive before its clerk is made.
SendRequest(c) ==
    /\ cl[c].pc = "ready"
    /\ cl[c].n < MaxRequests
    /\ LET n == cl[c].n + 1
           s == [cl[c] EXCEPT !.n = n, !.buf = 0]
       IN  cl' = [cl EXCEPT ![c] = PostAll(s, <<Message(n, TRUE), Header(s, TRUE)>>, "poll")]
    /\ UNCHANGED <<frontend, server, listener, sv>>

ClientPolls(c) ==
    /\ cl[c].pc = "poll"
    /\ cl[c].cqe > 0
    /\ cl' = [cl EXCEPT ![c] =
                 IF @.n < MaxRequests THEN Polled(@, "wait")
                 ELSE LET s == Polled(@, "poll") IN PostAll(s, <<PlainSend>>, "closing")]
    /\ UNCHANGED <<frontend, server, listener, sv>>

ClientSees(c) ==
    /\ cl[c].pc = "wait"
    /\ cl[c].header = "CLERK_DONE"
    /\ cl' = [cl EXCEPT ![c].pc = "ready", ![c].header = "CLIENT_DONE"]
    /\ UNCHANGED <<frontend, server, listener, sv>>

ClientCloses(c) ==
    /\ cl[c].pc = "closing"
    /\ cl[c].cqe > 0
    /\ cl' = [cl EXCEPT ![c] = Polled(@, "closed")]
    /\ UNCHANGED <<frontend, server, listener, sv>>

\* The clerk takes the request in its buffer and writes the reply into the
\* buffer of the client, then the header word.
HeaderFirst(s, n, long) ==
    <<Header(s, FALSE), [Message(n, SendKeyOK(long)) EXCEPT !.signal = TRUE]>>
ReplyPosts(s, n, long) == <<Message(n, SendKeyOK(long)), Header(s, TRUE)>>

ClerkServes(c) ==
    /\ server = "up"
    /\ sv[c].pc = "spin"
    /\ sv[c].header = "CLIENT_DONE"
    /\ LET s == [sv[c] EXCEPT !.header = "CLERK_DONE"]
           n == s.buf
       IN  \/ /\ n = MaxRequests
              /\ sv' = [sv EXCEPT ![c] = [s EXCEPT !.pc = "recv", !.recv = TRUE]]
           \/ /\ n < MaxRequests
              /\ \E long \in IF frontend \in LongReplies THEN BOOLEAN ELSE {FALSE} :
                    sv' = [sv EXCEPT ![c] = PostAll(s, ReplyPosts(s, n, long), "poll")]
    /\ UNCHANGED <<frontend, server, listener, cl>>

ClerkPolls(c) ==
    /\ server = "up"
    /\ sv[c].pc = "poll"
    /\ sv[c].cqe > 0
    /\ sv' = [sv EXCEPT ![c] = Polled(@, "spin")]
    /\ UNCHANGED <<frontend, server, listener, cl>>

-----------------------------------------------------------------------------
(* The NIC.                                                                  *)

\* The side s after the head of its wire was executed, or could not be.
Executed(s) == [s EXCEPT !.wire = Tail(@), !.cqe = IF Head(s.wire).signal THEN @ + 1 ELSE @]
Failed(s) == [s EXCEPT !.wire = <<>>, !.qp = "error",
                       !.cqe = @ + Cardinality({i \in DOMAIN s.wire : s.wire[i].signal})]

\* The side r after it received m.
Received(r, m) ==
    CASE m.to = "buf" -> [r EXCEPT !.buf = m.val]
      [] m.to = "header" -> [r EXCEPT !.header = m.val]
      [] m.to = "recv" -> [r EXCEPT !.recv = FALSE, !.pc = "gone", !.qp = "reset"]

\* A receiver that is not ready is tried again (retry_cnt, rnr_retry).
Deliverable(s, r) ==
    /\ s.wire # <<>>
    /\ Head(s.wire).ok
    /\ r.qp \in {"rtr", "rts"}
    /\ Head(s.wire).to = "recv" => r.recv

ToClerk(c) ==
    /\ server = "up"
    /\ IF Deliverable(cl[c], sv[c]) THEN TRUE ELSE FALSE
    /\ cl' = [cl EXCEPT ![c] = Executed(@)]
    /\ sv' = [sv EXCEPT ![c] = Received(@, Head(cl[c].wire))]
    /\ UNCHANGED <<frontend, server, listener>>

ToClient(c) ==
    /\ server = "up"
    /\ IF Deliverable(sv[c], cl[c]) THEN TRUE ELSE FALSE
    /\ sv' = [sv EXCEPT ![c] = Executed(@)]
    /\ cl' = [cl EXCEPT ![c] = Received(@, Head(sv[c].wire))]
    /\ UNCHANGED <<frontend, server, listener>>

\* The retries are used up: there is no queue pair at the other end.
Unreachable(c) ==
    /\ server = "down" \/ sv[c].qp = "error"
    /\ cl[c].wire # <<>>
    /\ cl' = [cl EXCEPT ![c] = Failed(@)]
    /\ UNCHANGED <<frontend, server, listener, sv>>

\* The key does not cover the data: IBV_WC_LOC_PROT_ERR.
BadKey(c) ==
    /\ server = "up"
    /\ sv[c].wire # <<>>
    /\ ~Head(sv[c].wire).ok
    /\ sv' = [sv EXCEPT ![c] = Failed(@)]
    /\ UNCHANGED <<frontend, server, listener, cl>>

-----------------------------------------------------------------------------
ClientStep(c) ==
    \/ Connect(c) \/ WriteCertificate(c) \/ ReadCertificate(c) \/ ClientModify(c)
    \/ SendRequest(c) \/ ClientPolls(c) \/ ClientSees(c) \/ ClientCloses(c)
ClerkStep(c) == ClerkServes(c) \/ ClerkPolls(c)
NICStep(c) == ToClerk(c) \/ ToClient(c) \/ Unreachable(c) \/ BadKey(c)
Listen ==
    \/ \E c \in Clients : Accept(c)
    \/ Open \/ ServerWritesCertificate \/ ServerReadsCertificate \/ ServerModify \/ NewClerk

Next ==
    \/ Listen
    \/ \E c \in Clients : ClientStep(c) \/ ClientDies(c) \/ ClerkStep(c) \/ NICStep(c)

\* Every thread and both NICs go on; nothing makes a fault happen.
Fairness ==
    /\ WF_linkVars(Listen)
    /\ \A c \in Clients :
          /\ WF_linkVars(ClientStep(c))
          /\ WF_linkVars(ClerkStep(c))
          /\ WF_linkVars(ToClerk(c) \/ Unreachable(c))
          /\ WF_linkVars(ToClient(c) \/ BadKey(c))

Spec == Init /\ [][Next]_linkVars /\ Fairness

-----------------------------------------------------------------------------
\* Whoever sees the header word of the other side has the whole message: a
\* clerk that leaves its spin reads the request the client is waiting on, and
\* a client that leaves its spin reads the reply to that request (pmr.cc
\* writes the message and the word separately and relies on their order), also
\* when a queue pair failed or the server went down in between.
MessageBeforeHeader ==
    \A c \in Clients :
        /\ cl[c].pc = "wait" /\ cl[c].header = "CLERK_DONE" => cl[c].buf = cl[c].n
        /\ sv[c].pc = "spin" /\ sv[c].header = "CLIENT_DONE" => sv[c].buf = cl[c].n

\* The queue pair of a side that goes on after ibv_modify_qp failed.
NotConnected(s) ==
    s.pc \in {"ready", "poll", "wait", "closing", "spin"} /\ s.qp \in {"reset", "rtr"}

\* What a client waits for, and what ends its waiting.
Waiting(c) == cl[c].pc \in {"exchanging", "modify", "poll", "wait", "closing"}
Returned(c) == cl[c].pc \in {"ready", "closed", "dead"}

\* The first request to a PMRClerk came before the clerk was made, and the
\* constructor wrote over its header word: nobody will serve it.
FirstOverwritten(c) ==
    /\ frontend = "pmr" /\ cl[c].n = 1 /\ cl[c].pc \in {"poll", "wait"}
    /\ cl[c].header = "CLIENT_DONE" /\ cl[c].wire = <<>>
    /\ sv[c].pc = "spin" /\ sv[c].header = "CLERK_DONE" /\ sv[c].buf = 1 /\ sv[c].wire = <<>>

\* Connect and every request return: the certificates cross, a request that
\* was posted is answered, and the close is received, unless the server ended,
\* a queue pair was never brought up (which default_connect reports and nobody
\* looks at), the reply took it into the error state, or the request was the
\* first one of a PMR client and its clerk was made too late (ConnectReturns).
Served ==
    \A c \in Clients :
        Waiting(c) ~> \/ Returned(c)
                      \/ server = "down"
                      \/ NotConnected(cl[c]) \/ NotConnected(sv[c])
                      \/ sv[c].qp = "error"
                      \/ FirstOverwritten(c)

\* With nothing failing, the request that PMRClient::Connect sends after its
\* usleep is answered, as the comment on the usleep has it (pmr.cc).
ConnectReturns == \A c \in Clients : (Waiting(c) /\ cl[c].n <= 1) ~> Returned(c)

\* With nothing failing, a reply of any length from send_buf reaches the
\* client, as the comment on post_write1 has it (rdmautil.cc).
RepliesArrive == \A c \in Clients : Waiting(c) ~> Returned(c)
=============================================================================
