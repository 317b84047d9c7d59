---------------------------- MODULE MCPMRAccess ----------------------------
(* Instances of PMRAccess for TLC. *)
EXTENDS PMRAccess, TLC

CONSTANTS c1, c2, k1, k2

\* one client writes both keys, the other one of them
SharedKey == [c \in Clients |-> IF c = c1 THEN Keys ELSE {k2}]

\* all clients write all keys
AllKeys == [c \in Clients |-> Keys]

\* numbers of operations of the two clients
Ops31 == [c \in Clients |-> IF c = c1 THEN 3 ELSE 1]
Ops22 == [c \in Clients |-> 2]

\* chunks are interchangeable
ChunkSymmetry == Permutations(Chunks)
============================================================================
