----------------------------- MODULE ChunkPool -----------------------------
(***************************************************************************)
(* What AtomicBitset promises to the allocator of chunks: a thread that    *)
(* asks for a bit gets one that nobody owns, in one step; an owned bit can *)
(* be given back.                                                          *)
(***************************************************************************)
CONSTANTS Threads, Bits

VARIABLES
  waiting,  \* threads inside blindset
  owned     \* bits handed out and not yet cleared

Init == waiting = {} /\ owned = {}

Ask(t) == t \notin waiting /\ waiting' = waiting \cup {t} /\ UNCHANGED owned

Grant(t, b) ==
  /\ t \in waiting /\ b \notin owned
  /\ waiting' = waiting \ {t}
  /\ owned' = owned \cup {b}

Free(b) == b \in owned /\ owned' = owned \ {b} /\ UNCHANGED waiting

Next ==
  \/ \E t \in Threads : Ask(t) \/ \E b \in Bits : Grant(t, b)
  \/ \E b \in Bits : Free(b)

Spec == Init /\ [][Next]_<<waiting, owned>>
============================================================================
