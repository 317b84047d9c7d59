--------------------------- MODULE MCGroupCommit ---------------------------
(* An instance of GroupCommit for TLC. *)
EXTENDS GroupCommit, TLC

CONSTANTS c1, c2, c3

\* numbers of operations of the clients
Ops211 == [c \in Clients |-> IF c = c1 THEN 2 ELSE 1]
Ops3 == [c \in Clients |-> 3]

\* what the clients send
OneEach == (c1 :> {"PUT", "GET"}) @@ (c2 :> {"PUT"}) @@ (c3 :> {"DELETE"})
All == [c \in Clients |-> {"PUT", "GET", "DELETE"}]
============================================================================
