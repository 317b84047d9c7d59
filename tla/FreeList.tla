------------------------------ MODULE FreeList ------------------------------
(***************************************************************************)
(* The lock-free free list of moodycamel::ConcurrentQueue                  *)
(* (src/frontend/pmr/concurrentqueue.h), a stack of blocks.  Any thread    *)
(* takes a block (try_get) or gives one back (add).  A reference count per *)
(* block stands between a thread that read the head and the block being    *)
(* taken and given back behind its back; a block that cannot be put on the *)
(* list while others refer to it is marked, and the last of them does it.  *)
(* Every action is one access to shared memory.                            *)
(***************************************************************************)
EXTENDS Integers, FiniteSets

CONSTANTS Users,         \* threads
          FirstOwner     \* node -> the thread that has it at first

VARIABLES listHead,   \* freeListHead
          nextOf,     \* freeListNext of each node
          refs,       \* freeListRefs: node -> [count, should]
          user        \* thread -> [pc, owns, head, next, seen, node, then]
freeVars == <<listHead, nextOf, refs, user>>

Nodes == DOMAIN FirstOwner
NoNode == 0

\* There are finitely many threads and nodes, NoNode is no node, and every node
\* begins with a thread that allocated it.
FreeConstantsOK ==
    /\ IsFiniteSet(Users) /\ IsFiniteSet(Nodes) /\ NoNode \notin Nodes
    /\ \A n \in Nodes : FirstOwner[n] \in Users
ASSUME FreeConstants == FreeConstantsOK

Zero == [count |-> 0, should |-> FALSE]
IdleUser(owns) == [pc |-> "idle", owns |-> owns, head |-> NoNode, next |-> NoNode,
                   seen |-> Zero, node |-> NoNode, then |-> "idle"]
SetUser(u, rec) == user' = [user EXCEPT ![u] = rec]
Is(u, pc) == user[u].pc = pc

\* try_get with this head: another turn of the loop, or nothing.
Turn(rec, head) == IF head = NoNode THEN IdleUser(rec.owns)
                   ELSE [IdleUser(rec.owns) EXCEPT !.pc = "refs", !.head = head]

\* What a thread does after add_knowing_refcount_is_zero.
Back(rec) == IF rec.then = "idle" THEN IdleUser(rec.owns) ELSE Turn(rec, rec.head)

-----------------------------------------------------------------------------
(* try_get *)

LoadHead(u) ==
    /\ Is(u, "idle") \/ Is(u, "reload")
    /\ SetUser(u, Turn(user[u], listHead))
    /\ UNCHANGED <<listHead, nextOf, refs>>

\* Mutant: a count of zero is raised too.
LoadRefsAny(u) ==
    /\ Is(u, "refs")
    /\ SetUser(u, [user[u] EXCEPT !.seen = refs[user[u].head], !.pc = "raise"])
    /\ UNCHANGED <<listHead, nextOf, refs>>

\* A node nobody refers to is not on the list: start again.
LoadRefs(u) ==
    /\ Is(u, "refs")
    /\ LET seen == refs[user[u].head]
       IN  SetUser(u, IF seen.count = 0 THEN [IdleUser(user[u].owns) EXCEPT !.pc = "reload"]
                  ELSE [user[u] EXCEPT !.seen = seen, !.pc = "raise"])
    /\ UNCHANGED <<listHead, nextOf, refs>>

RaiseRefs(u) ==
    /\ Is(u, "raise")
    /\ LET n == user[u].head
       IN  IF refs[n] = user[u].seen
           THEN /\ refs' = [refs EXCEPT ![n] = [count |-> @.count + 1, should |-> @.should]]
                /\ SetUser(u, [user[u] EXCEPT !.pc = "next", !.seen = Zero])
           ELSE /\ SetUser(u, [IdleUser(user[u].owns) EXCEPT !.pc = "reload"])
                /\ UNCHANGED refs
    /\ UNCHANGED <<listHead, nextOf>>

LoadNext(u) ==
    /\ Is(u, "next")
    /\ SetUser(u, [user[u] EXCEPT !.pc = "pop", !.next = nextOf[user[u].head]])
    /\ UNCHANGED <<listHead, nextOf, refs>>

\* The exchange of the head: on failure the thread learns the new one.
Pop(u) ==
    /\ Is(u, "pop")
    /\ IF listHead = user[u].head
       THEN /\ listHead' = user[u].next
            /\ SetUser(u, [user[u] EXCEPT !.pc = "got", !.next = NoNode])
       ELSE /\ SetUser(u, [user[u] EXCEPT !.pc = "lower", !.node = user[u].head, !.head = listHead,
                                      !.next = NoNode])
            /\ UNCHANGED listHead
    /\ UNCHANGED <<nextOf, refs>>

Got(u) ==
    /\ Is(u, "got")
    /\ refs' = [refs EXCEPT ![user[u].head] = [count |-> @.count - 2, should |-> @.should]]
    /\ SetUser(u, IdleUser(user[u].owns \cup {user[u].head}))
    /\ UNCHANGED <<listHead, nextOf>>

\* The reference is given back; whoever gives the last one back for a marked
\* node puts it on the list.
LowerRefs(u) ==
    /\ Is(u, "lower")
    /\ LET n == user[u].node
           last == refs[n] = [count |-> 1, should |-> TRUE]
       IN  /\ refs' = [refs EXCEPT ![n] = [count |-> @.count - 1, should |-> @.should]]
           /\ SetUser(u, IF last THEN [user[u] EXCEPT !.pc = "peek", !.then = "turn"]
                     ELSE Turn(user[u], user[u].head))
    /\ UNCHANGED <<listHead, nextOf>>

-----------------------------------------------------------------------------
(* add *)

Add(u) ==
    /\ Is(u, "idle")
    /\ \E n \in user[u].owns :
          /\ refs' = [refs EXCEPT ![n] = [count |-> @.count, should |-> TRUE]]
          /\ SetUser(u, LET given == IdleUser(user[u].owns \ {n})
                    IN  IF refs[n].count = 0 THEN [given EXCEPT !.pc = "peek", !.node = n] ELSE given)
    /\ UNCHANGED <<listHead, nextOf>>

\* add_knowing_refcount_is_zero
Peek(u) ==
    /\ Is(u, "peek")
    /\ SetUser(u, [user[u] EXCEPT !.pc = "link", !.next = listHead])
    /\ UNCHANGED <<listHead, nextOf, refs>>
LinkNode(u) ==
    /\ Is(u, "link")
    /\ nextOf' = [nextOf EXCEPT ![user[u].node] = user[u].next]
    /\ SetUser(u, [user[u] EXCEPT !.pc = "one"])
    /\ UNCHANGED <<listHead, refs>>
StoreOne(u) ==
    /\ Is(u, "one")
    /\ refs' = [refs EXCEPT ![user[u].node] = [count |-> 1, should |-> FALSE]]
    /\ SetUser(u, [user[u] EXCEPT !.pc = "push"])
    /\ UNCHANGED <<listHead, nextOf>>
Push(u) ==
    /\ Is(u, "push")
    /\ IF listHead = user[u].next
       THEN listHead' = user[u].node /\ SetUser(u, Back(user[u]))
       ELSE SetUser(u, [user[u] EXCEPT !.pc = "mark", !.next = listHead]) /\ UNCHANGED listHead
    /\ UNCHANGED <<nextOf, refs>>
Mark(u) ==
    /\ Is(u, "mark")
    /\ LET n == user[u].node
       IN  /\ refs' = [refs EXCEPT ![n] = [count |-> @.count - 1, should |-> TRUE]]
           /\ SetUser(u, IF refs[n] = [count |-> 1, should |-> FALSE]
                     THEN [user[u] EXCEPT !.pc = "link"] ELSE Back(user[u]))
    /\ UNCHANGED <<listHead, nextOf>>

-----------------------------------------------------------------------------
FreeInit ==
    /\ listHead = NoNode /\ nextOf = [n \in Nodes |-> NoNode]
    /\ refs = [n \in Nodes |-> Zero]
    /\ user = [u \in Users |-> IdleUser({n \in Nodes : FirstOwner[n] = u})]

FreeNext ==
    \E u \in Users :
        \/ LoadHead(u) \/ LoadRefs(u) \/ RaiseRefs(u) \/ LoadNext(u) \/ Pop(u) \/ Got(u)
        \/ LowerRefs(u) \/ Add(u) \/ Peek(u) \/ LinkNode(u) \/ StoreOne(u) \/ Push(u) \/ Mark(u)

FreeSpec == FreeInit /\ [][FreeNext]_freeVars

OnList ==
    LET from[i \in 0 .. Cardinality(Nodes)] ==
            IF i = 0 THEN listHead
            ELSE LET n == from[i - 1] IN IF n = NoNode THEN NoNode ELSE nextOf[n]
    IN  {from[i] : i \in DOMAIN from} \ {NoNode}
Owned(n) == {u \in Users : n \in user[u].owns \/ (Is(u, "got") /\ user[u].head = n)}

\* No block is given to two threads or given while it is on the list, the
\* list has no cycle, the mark is clear on a block just taken; and when no
\* thread is in an operation every block is with its thread or on the list,
\* with the count that says so, so that none is lost.
FreeListIntact ==
    /\ \A n \in Nodes : Cardinality(Owned(n)) <= 1 /\ (n \in OnList => Owned(n) = {})
    /\ listHead # NoNode => \E n \in OnList : nextOf[n] = NoNode
    /\ \A u \in Users : Is(u, "got") => ~refs[user[u].head].should
    /\ (\A u \in Users : Is(u, "idle")) =>
          \A n \in Nodes : /\ n \in OnList \/ Owned(n) # {}
                           /\ refs[n] = [count |-> IF n \in OnList THEN 1 ELSE 0, should |-> FALSE]
=============================================================================
