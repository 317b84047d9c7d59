------------------------------- MODULE Arena --------------------------------
(***************************************************************************)
(* Arena (src/database/leveldb/util/arena.cc), from which the memtable     *)
(* takes its entries (Allocate, any length) and the skip list its nodes    *)
(* (AllocateAligned).  A block that new returns is aligned; addresses are  *)
(* [block, offset].                                                        *)
(***************************************************************************)
EXTENDS Integers, Sequences

CONSTANTS ArenaBlock,    \* kBlockSize
          Align,         \* align
          Sizes,         \* lengths asked for
          MaxAllocs      \* bound: allocations

VARIABLES blocks,     \* blocks_: sequence of sizes
          ptr,        \* alloc_ptr_: [block, off]
          remaining,  \* alloc_bytes_remaining_
          allocs      \* history: [block, off, size, aligned]
arenaVars == <<blocks, ptr, remaining, allocs>>

Give(block, off, size, aligned) ==
    allocs' = Append(allocs, [block |-> block, off |-> off, size |-> size, aligned |-> aligned])

\* AllocateFallback: a large object gets a block of its own and the current
\* block stays; otherwise what is left of the current block is lost.
AllocateFallback(bytes, aligned) ==
    LET new == Len(blocks) + 1
        large == bytes > ArenaBlock \div 4
    IN  /\ blocks' = Append(blocks, IF large THEN bytes ELSE ArenaBlock)
        /\ ptr' = IF large THEN ptr ELSE [block |-> new, off |-> bytes]
        /\ remaining' = IF large THEN remaining ELSE ArenaBlock - bytes
        /\ Give(new, 0, bytes, aligned)

Allocate(bytes) ==
    /\ Len(allocs) < MaxAllocs
    /\ IF bytes <= remaining
       THEN /\ Give(ptr.block, ptr.off, bytes, FALSE)
            /\ ptr' = [ptr EXCEPT !.off = @ + bytes]
            /\ remaining' = remaining - bytes
            /\ UNCHANGED blocks
       ELSE AllocateFallback(bytes, FALSE)

AllocateAligned(bytes) ==
    LET slop == (Align - (ptr.off % Align)) % Align
        needed == bytes + slop
    IN  /\ Len(allocs) < MaxAllocs
        /\ IF needed <= remaining
           THEN /\ Give(ptr.block, ptr.off + slop, bytes, TRUE)
                /\ ptr' = [ptr EXCEPT !.off = @ + needed]
                /\ remaining' = remaining - needed
                /\ UNCHANGED blocks
           ELSE AllocateFallback(bytes, TRUE)

ArenaInit == blocks = <<>> /\ ptr = [block |-> 0, off |-> 0] /\ remaining = 0 /\ allocs = <<>>
ArenaNext == \E n \in Sizes : Allocate(n) \/ AllocateAligned(n)

ArenaSpec == ArenaInit /\ [][ArenaNext]_arenaVars

\* Every allocation lies inside its block, apart from every other, and is
\* aligned if that was asked for.
ArenaDisjoint ==
    \A i \in DOMAIN allocs :
        LET a == allocs[i]
        IN  /\ a.off + a.size <= blocks[a.block]
            /\ a.aligned => a.off % Align = 0
            /\ \A j \in 1 .. i - 1 :
                  allocs[j].block = a.block =>
                      \/ allocs[j].off + allocs[j].size <= a.off
                      \/ a.off + a.size <= allocs[j].off
=============================================================================
