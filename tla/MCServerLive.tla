---------------------------- MODULE MCServerLive ----------------------------
(***************************************************************************)
(* What must eventually happen in the server: calls of the pmr front end   *)
(* return, blindset finds a clear bit, and the RDMA link serves whoever    *)
(* connects.  The three parts are explored each on its own in one run.     *)
(***************************************************************************)
EXTENDS AtomicBitset, RDMALink

CONSTANTS Keys, Chunks, MAX_ASYNC_SIZE, Lens, QueueDepth, MaxOps, WriteKeys, Deletes,
          AtomicBatch, WritesFail, DbFails, None, Torn,
          c1, c2

VARIABLES part,
          cpc, nops, ccur, pend, req, sent, rep, rd, kpc, kcur, batch, ki, kloc, tmp,
          bit, mem, map, db, queue, ring, inflight, offset, upc, log, acked, gone, lost

P == INSTANCE PMRAccess

-----------------------------------------------------------------------------
(* Constants *)

\* all clients write all keys
AllKeys == [c \in Clients |-> Keys]

\* numbers of operations of the two clients
Ops21 == [c \in Clients |-> IF c = c1 THEN 2 ELSE 1]

-----------------------------------------------------------------------------
pmrVars == <<cpc, nops, ccur, pend, req, sent, rep, rd, kpc, kcur, batch, ki, kloc, tmp,
             bit, mem, map, db, queue, ring, inflight, offset, upc, log, acked, gone, lost>>

LiveInit ==
    /\ part \in {"pmr", "bitset", "link"}
    /\ P!Init /\ BitsetInit /\ Init
    /\ part # "link" => frontend = "pmr"

LiveNext ==
    \/ part = "pmr" /\ P!Next /\ UNCHANGED <<part, bitsetVars, linkVars>>
    \/ part = "bitset" /\ BitsetNext /\ UNCHANGED <<part, pmrVars, linkVars>>
    \/ part = "link" /\ Next /\ UNCHANGED <<part, pmrVars, bitsetVars>>

\* Threads run, the kernel completes submitted writes, a client that waits for
\* CLERK_DONE sees it.  Nothing makes a client issue another request.
PmrFairness ==
    /\ \A c \in Clients :
          /\ WF_pmrVars(part = "pmr" /\ P!ReturnAlloc(c))
          /\ WF_pmrVars(part = "pmr" /\ P!Return(c))
          /\ WF_pmrVars(part = "pmr" /\ P!ClerkNext(c))
    /\ WF_pmrVars(part = "pmr" /\ P!UringNext)
    /\ WF_pmrVars(part = "pmr" /\ P!KernelNext)

\* A thread inside blindset keeps running.
BitsetFairness ==
    \A t \in Threads : WF_bitsetVars(part = "bitset" /\ (Get(t) \/ Set(t)))

\* Every thread and both NICs go on (Fairness of RDMALink).
LinkFairness ==
    /\ WF_linkVars(part = "link" /\ Listen)
    /\ \A c \in Clients :
          /\ WF_linkVars(part = "link" /\ ClientStep(c))
          /\ WF_linkVars(part = "link" /\ ClerkStep(c))
          /\ WF_linkVars(part = "link" /\ (ToClerk(c) \/ Unreachable(c)))
          /\ WF_linkVars(part = "link" /\ (ToClient(c) \/ BadKey(c)))

LiveSpec ==
    /\ LiveInit
    /\ [][LiveNext]_<<part, pmrVars, bitsetVars, linkVars>>
    /\ PmrFairness /\ BitsetFairness /\ LinkFairness

-----------------------------------------------------------------------------
\* Every call of a client of the pmr front end returns.
CallReturns == P!CallReturns

\* What a client wrote reaches the log file after it closed.
Drained == P!Drained
=============================================================================
