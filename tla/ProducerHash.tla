---------------------------- MODULE ProducerHash ----------------------------
(***************************************************************************)
(* How moodycamel::ConcurrentQueue (src/frontend/pmr/concurrentqueue.h)    *)
(* finds the producer of a thread: get_or_add_implicit_producer on a       *)
(* lock-free hash table that grows by chaining a larger one in front of    *)
(* it, and implicit_producer_thread_exited, which marks the thread's slots *)
(* reusable and leaves the producer to the next thread.  A clerk thread    *)
(* registers with its first enqueue and exits with its connection; thread  *)
(* identifiers come back.  Every action is one access to shared memory,    *)
(* except that all the exchanges on one slot are one step.                 *)
(***************************************************************************)
EXTENDS Integers, Sequences, FiniteSets

CONSTANTS Ids,           \* thread identifiers, positive naturals
          IdHash,        \* hash_thread_id
          FirstSize,     \* INITIAL_IMPLICIT_PRODUCER_HASH_SIZE
          MaxLives       \* bound: threads started

VARIABLES tables,     \* the hash tables, the last is implicitProducerHash
          used,       \* implicitProducerHashCount
          resizing,   \* implicitProducerHashResizeInProgress
          producers,  \* producer list: sequence of "active" or "inactive"
          lives,      \* threads started
          worker      \* identifier -> state of the thread that has it
hashVars == <<tables, used, resizing, producers, lives, worker>>

Empty == 0        \* invalid_thread_id
Reusable == -1    \* invalid_thread_id2

Table(size) == [i \in 0 .. size - 1 |-> [key |-> Empty, value |-> 0]]
Size(m) == Cardinality(DOMAIN tables[m])
Slot(t, m, i) == (IdHash[t] + i) % Size(m)

\* mine: history, the producer of this thread; prod: of the call under way.
Dead == [pc |-> "dead", main |-> 0, table |-> 0, probe |-> 0, count |-> 0, prod |-> 0, mine |-> 0]
Idle(mine) == [Dead EXCEPT !.pc = "idle", !.mine = mine]
Set(t, rec) == worker' = [worker EXCEPT ![t] = rec]
Is(t, pc) == worker[t].pc = pc
Return(t, prod) == Set(t, [Idle(worker[t].mine) EXCEPT !.pc = "got", !.prod = prod])

-----------------------------------------------------------------------------
(* get_or_add_implicit_producer *)

Start(t) ==
    /\ Is(t, "dead") /\ lives < MaxLives
    /\ lives' = lives + 1
    /\ Set(t, Idle(0))
    /\ UNCHANGED <<tables, used, resizing, producers>>

LoadMain(t) ==
    /\ Is(t, "idle")
    /\ Set(t, [worker[t] EXCEPT !.pc = "probe", !.main = Len(tables), !.table = Len(tables)])
    /\ UNCHANGED <<tables, used, resizing, producers, lives>>

\* One slot.  Found: done, or put into the main table as well.  Empty: the
\* thread is not in this table; then the older ones, then it is new.
Probe(t) ==
    /\ Is(t, "probe")
    /\ LET w == worker[t]
           s == tables[w.table][Slot(t, w.table, w.probe)]
       IN  IF s.key = t
           THEN IF w.table = w.main THEN Return(t, s.value)
                ELSE Set(t, [w EXCEPT !.pc = "copy", !.prod = s.value, !.table = 0, !.probe = 0])
           ELSE Set(t, IF s.key # Empty THEN [w EXCEPT !.probe = @ + 1]
                       ELSE IF w.table > 1 THEN [w EXCEPT !.table = @ - 1, !.probe = 0]
                       ELSE [w EXCEPT !.pc = "add", !.table = 0, !.probe = 0])
    /\ UNCHANGED <<tables, used, resizing, producers, lives>>

\* Is a slot free for the taking?
Open(s) == s.key \in {Empty, Reusable}
Taken(t, m, i, prod) ==
    tables' = [tables EXCEPT ![m][Slot(t, m, i)] = [key |-> t, value |-> prod]]

CopyToMain(t) ==
    /\ Is(t, "copy")
    /\ LET w == worker[t]
       IN  IF Open(tables[w.main][Slot(t, w.main, w.probe)])
           THEN Taken(t, w.main, w.probe, w.prod) /\ Return(t, w.prod)
           ELSE Set(t, [w EXCEPT !.probe = @ + 1]) /\ UNCHANGED tables
    /\ UNCHANGED <<used, resizing, producers, lives>>

CountUp(t) ==
    /\ Is(t, "add")
    /\ used' = used + 1
    /\ Set(t, [worker[t] EXCEPT !.pc = "full", !.count = used + 1])
    /\ UNCHANGED <<tables, resizing, producers, lives>>

\* Half full: whoever gets the flag makes a new table; the others go on in
\* the old one while it is less than three quarters full.
TestFull(t) ==
    /\ Is(t, "full")
    /\ LET w == worker[t]
       IN  IF w.count >= Size(w.main) \div 2 /\ ~resizing
           THEN resizing' = TRUE /\ Set(t, [w EXCEPT !.pc = "resize"])
           ELSE Set(t, [w EXCEPT !.pc = "room"]) /\ UNCHANGED resizing
    /\ UNCHANGED <<tables, used, producers, lives>>

\* Under the flag: the current table may be large enough by now.
Resize(t) ==
    /\ Is(t, "resize")
    /\ LET m == Len(tables)
           n == worker[t].count
           size == CHOOSE s \in {Size(m) * 2 ^ i : i \in 1 .. MaxLives} :
                       n < s \div 2 /\ (s = Size(m) * 2 \/ n >= s \div 4)
       IN  IF n >= Size(m) \div 2
           THEN /\ tables' = Append(tables, Table(size))
                /\ Set(t, [worker[t] EXCEPT !.pc = "unlock", !.main = m + 1])
           ELSE /\ Set(t, [worker[t] EXCEPT !.pc = "unlock", !.main = m])
                /\ UNCHANGED tables
    /\ UNCHANGED <<used, resizing, producers, lives>>
Unlock(t) ==
    /\ Is(t, "unlock")
    /\ resizing' = FALSE
    /\ Set(t, [worker[t] EXCEPT !.pc = "room"])
    /\ UNCHANGED <<tables, used, producers, lives>>

\* Room: recycle_or_create_producer gives an inactive producer or a new one
\* (it may miss one that becomes inactive while it looks).  No room: wait
\* for the new table.
TestRoom(t) ==
    /\ Is(t, "room")
    /\ LET w == worker[t]
           size == Size(w.main)
       IN  IF w.count < size \div 2 + size \div 4
           THEN \/ \E p \in DOMAIN producers :
                      /\ producers[p] = "inactive"
                      /\ producers' = [producers EXCEPT ![p] = "active"]
                      /\ Set(t, [w EXCEPT !.pc = "insert", !.count = 0, !.prod = p])
                \/ /\ producers' = Append(producers, "active")
                   /\ Set(t, [w EXCEPT !.pc = "insert", !.count = 0, !.prod = Len(producers) + 1])
           ELSE /\ Set(t, [w EXCEPT !.pc = "full", !.main = Len(tables)])
                /\ UNCHANGED producers
    /\ UNCHANGED <<tables, used, resizing, lives>>

\* A reusable slot has been counted before.
Insert(t) ==
    /\ Is(t, "insert")
    /\ LET w == worker[t]
           s == tables[w.main][Slot(t, w.main, w.probe)]
       IN  IF Open(s)
           THEN /\ Taken(t, w.main, w.probe, w.prod)
                /\ used' = IF s.key = Reusable THEN used - 1 ELSE used
                /\ Return(t, w.prod)
           ELSE Set(t, [w EXCEPT !.probe = @ + 1]) /\ UNCHANGED <<tables, used>>
    /\ UNCHANGED <<resizing, producers, lives>>

\* The caller has its producer and enqueues.
Enqueue(t) ==
    /\ Is(t, "got")
    /\ Set(t, Idle(worker[t].prod))
    /\ UNCHANGED <<tables, used, resizing, producers, lives>>

-----------------------------------------------------------------------------
(* implicit_producer_thread_exited *)

Exit(t) ==
    /\ Is(t, "idle")
    /\ IF worker[t].mine = 0 THEN Set(t, Dead)
       ELSE Set(t, [worker[t] EXCEPT !.pc = "exit", !.table = Len(tables)])
    /\ UNCHANGED <<tables, used, resizing, producers, lives>>

\* Mutant: only the newest table is cleared.
ClearedFirst(t) == worker[t].table = Len(tables)

\* Every table is searched, not just the newest.
ClearedAll(t) == worker[t].table > 0

\* One slot: its own becomes reusable; that, or an empty one, ends the table.
ClearSlot(t) ==
    /\ Is(t, "exit") /\ ClearedAll(t)
    /\ LET w == worker[t]
           i == Slot(t, w.table, w.probe)
           k == tables[w.table][i].key
       IN  /\ tables' = IF k = t THEN [tables EXCEPT ![w.table][i].key = Reusable] ELSE tables
           /\ Set(t, IF k \in {t, Empty} THEN [w EXCEPT !.table = @ - 1, !.probe = 0]
                     ELSE [w EXCEPT !.probe = @ + 1])
    /\ UNCHANGED <<used, resizing, producers, lives>>
Deactivate(t) ==
    /\ Is(t, "exit") /\ ~ClearedAll(t)
    /\ producers' = [producers EXCEPT ![worker[t].mine] = "inactive"]
    /\ Set(t, Dead)
    /\ UNCHANGED <<tables, used, resizing, lives>>

-----------------------------------------------------------------------------
HashInit ==
    /\ tables = <<Table(FirstSize)>> /\ used = 0 /\ resizing = FALSE
    /\ producers = <<>> /\ lives = 0
    /\ worker = [t \in Ids |-> Dead]

HashNext ==
    \E t \in Ids :
        \/ Start(t) \/ LoadMain(t) \/ Probe(t) \/ CopyToMain(t) \/ CountUp(t) \/ TestFull(t)
        \/ Resize(t) \/ Unlock(t) \/ TestRoom(t) \/ Insert(t) \/ Enqueue(t)
        \/ Exit(t) \/ ClearSlot(t) \/ Deactivate(t)

HashSpec == HashInit /\ [][HashNext]_hashVars

\* A thread always gets the producer it got first, and no two threads get
\* the same one, whatever tables are being added and whoever had the
\* identifier before; and every table keeps an empty slot, without which a
\* search that misses would not end.
ProducersOwned ==
    /\ \A t \in Ids :
          /\ Is(t, "got") /\ worker[t].mine # 0 => worker[t].prod = worker[t].mine
          /\ Is(t, "got") => producers[worker[t].prod] = "active"
          /\ \A o \in Ids \ {t} :
                /\ Is(t, "got") => worker[o].mine # worker[t].prod
                /\ Is(t, "got") /\ Is(o, "got") => worker[o].prod # worker[t].prod
    /\ \A m \in DOMAIN tables : \E i \in DOMAIN tables[m] : tables[m][i].key = Empty
=============================================================================
