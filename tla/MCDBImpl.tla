------------------------------ MODULE MCDBImpl ------------------------------
(* Small instances of DBImpl for TLC. *)
EXTENDS DBImpl, TLC

CONSTANTS c1, c2, r1

MCKeys == {1, 2}

\* One client writes two keys at a time and syncs; the other deletes
\* one of them and does not.
MCRequests ==
    (c1 :> {[batch |-> <<[key |-> 1, del |-> FALSE], [key |-> 2, del |-> FALSE]>>,
             sync |-> TRUE]}) @@
    (c2 :> {[batch |-> <<[key |-> 1, del |-> TRUE]>>, sync |-> FALSE]})
=============================================================================
