------------------------------ MODULE KVStore ------------------------------
(***************************************************************************)
(* What a front end promises to its clients: a linearizable map.  A call   *)
(* takes effect in one step between its invocation and its return.  Writes *)
(* may take effect together; then each key has the value of one of them.   *)
(* A DELETE is a write of whatever the front end stores for it.  A write   *)
(* may also fail; then the caller is told so.                              *)
(***************************************************************************)
CONSTANTS Clients, Keys, Vals, None

VARIABLES
  store,  \* the map
  call,   \* the call of a client, or None
  done,   \* clients whose call took effect
  got     \* what their reads found

vars == <<store, call, done, got>>

Calls == [op : {"READ"}, key : Keys] \cup [op : {"WRITE"}, key : Keys, val : Vals]

Init ==
  /\ store = [k \in Keys |-> None]
  /\ call = [c \in Clients |-> None]
  /\ done = {}
  /\ got = [c \in Clients |-> None]

Invoke(c) ==
  /\ call[c] = None
  /\ call'[c] \in Calls
  /\ call' = [call EXCEPT ![c] = call'[c]]
  /\ UNCHANGED <<store, done, got>>

Pending(op) == {c \in Clients \ done : call[c] # None /\ call[c].op = op}

Written(S, k) == {call[c].val : c \in {d \in S : call[d].key = k}}

Write(S) ==
  /\ S # {} /\ S \subseteq Pending("WRITE")
  /\ \A k \in Keys : IF Written(S, k) = {} THEN store'[k] = store[k]
                                           ELSE store'[k] \in Written(S, k)
  /\ store' = [k \in Keys |-> store'[k]]
  /\ done' = done \cup S
  /\ UNCHANGED <<call, got>>

Read(c) ==
  /\ c \in Pending("READ")
  /\ got' = [got EXCEPT ![c] = store[call[c].key]]
  /\ done' = done \cup {c}
  /\ UNCHANGED <<store, call>>

\* the outcome of a write that failed
Failed == [failed |-> TRUE]

Fail(c) ==
  /\ c \in Pending("WRITE")
  /\ got' = [got EXCEPT ![c] = Failed]
  /\ done' = done \cup {c}
  /\ UNCHANGED <<store, call>>

Return(c) ==
  /\ c \in done
  /\ call' = [call EXCEPT ![c] = None]
  /\ done' = done \ {c}
  /\ got' = [got EXCEPT ![c] = None]
  /\ UNCHANGED store

Next ==
  \/ \E c \in Clients : Invoke(c) \/ Read(c) \/ Fail(c) \/ Return(c)
  \/ \E S \in SUBSET Clients : Write(S)

Spec == Init /\ [][Next]_vars
============================================================================
