------------------------------- MODULE MmAlloc -------------------------------
(***************************************************************************)
(* The allocator of operating-system/hw3: one list of blocks in the order  *)
(* of their addresses, a header of BLOCK_SIZE before the data of each.  A  *)
(* block is [ptr, size, is_free], ptr being the address of its data; the   *)
(* position in the sequence stands for the links prev and next.            *)
(***************************************************************************)
EXTENDS Integers, Sequences, FiniteSets, SequencesExt, FiniteSetsExt

CONSTANTS
    BLOCK_SIZE,
    MmSize,       \* sizes asked for
    MaxBrk        \* where sbrk fails

ASSUME MmAssumption == BLOCK_SIZE \in Nat \ {0} /\ MmSize \subseteq Nat /\ MaxBrk \in Nat

VARIABLES
    mm_block,     \* the list from first on
    mm_brk,       \* sbrk (0), counted from the start of the heap
    mm_held       \* what the program holds: <<ptr, size asked for>>

mmVars == <<mm_block, mm_brk, mm_held>>
Block(ptr, size, is_free) == [ptr |-> ptr, size |-> size, is_free |-> is_free]
BlockEnd(b) == b.ptr + b.size
\* find_head: the header before an address the program holds.
find_head(ptr) == CHOOSE i \in DOMAIN mm_block : mm_block[i].ptr = ptr
-----------------------------------------------------------------------------
\* The first free block that is large enough, cut in two when a header fits into
\* what is left over; a shorter rest is lost to the block until a neighbour is freed.
take(i, size) ==
    LET b == mm_block[i]
        used == Block(b.ptr, size, FALSE)
    IN  ReplaceSubSeqAt(i,
            IF b.size - size >= BLOCK_SIZE
            THEN <<used, Block(b.ptr + size + BLOCK_SIZE, b.size - size - BLOCK_SIZE, TRUE)>>
            ELSE <<used>>, <<b>>, mm_block)
\* The heap grows by what is missing between its end and the end of the last block.
append(size) ==
    LET end == IF mm_block = <<>> THEN 0 ELSE BlockEnd(Last(mm_block))
    IN  [block |-> Append(mm_block, Block(end + BLOCK_SIZE, size, FALSE)),
         brk |-> Max({mm_brk, end + size + BLOCK_SIZE}),
         ptr |-> end + BLOCK_SIZE]

\* The heap after a request: [block, brk, ptr], ptr -1 when it fails.
mm_malloc_result(size) ==
    LET fits == {i \in DOMAIN mm_block : mm_block[i].is_free /\ mm_block[i].size >= size}
        a == append(size)
    IN  IF size = 0 THEN [block |-> mm_block, brk |-> mm_brk, ptr |-> -1]
        ELSE IF fits # {} THEN [block |-> take(Min(fits), size), brk |-> mm_brk, ptr |-> mm_block[Min(fits)].ptr]
        ELSE IF a.brk > MaxBrk THEN [block |-> mm_block, brk |-> mm_brk, ptr |-> -1]
        ELSE a

mm_malloc(size) ==
    LET r == mm_malloc_result(size)
    IN  /\ mm_block' = r.block /\ mm_brk' = r.brk
        /\ mm_held' = IF r.ptr = -1 THEN mm_held ELSE mm_held \cup {<<r.ptr, size>>}

\* A freed block is joined with the free ones before and after it.
freed(block, i) ==
    LET lo == IF i > 1 /\ block[i - 1].is_free THEN i - 1 ELSE i
        hi == IF i < Len(block) /\ block[i + 1].is_free THEN i + 1 ELSE i
    IN  SubSeq(block, 1, lo - 1)
        \o <<Block(block[lo].ptr, BlockEnd(block[hi]) - block[lo].ptr, TRUE)>>
        \o SubSeq(block, hi + 1, Len(block))

mm_free(h) ==
    /\ mm_block' = freed(mm_block, find_head(h[1]))
    /\ mm_held' = mm_held \ {h}
    /\ UNCHANGED mm_brk

\* The new block first, then the copy, then the old block is freed; a failure
\* leaves the old block as it was.
mm_realloc(h, size) ==
    LET r == mm_malloc_result(size)
        i == CHOOSE k \in DOMAIN r.block : r.block[k].ptr = h[1]
    IN  IF size = 0 THEN mm_free(h)
        ELSE /\ mm_brk' = r.brk
             /\ IF r.ptr = -1 THEN UNCHANGED <<mm_block, mm_held>>
                ELSE mm_block' = freed(r.block, i) /\ mm_held' = (mm_held \ {h}) \cup {<<r.ptr, size>>}
-----------------------------------------------------------------------------
MmInit == mm_block = <<>> /\ mm_brk = 0 /\ mm_held = {}
MmNext ==
    \/ \E size \in MmSize : mm_malloc(size)
    \/ \E h \in mm_held : mm_free(h) \/ \E size \in MmSize : mm_realloc(h, size)
MmSpec == MmInit /\ [][MmNext]_mmVars
-----------------------------------------------------------------------------
(***************************************************************************)
(* Properties.                                                             *)
(***************************************************************************)

MmTypeOK ==
    /\ \A b \in ToSet(mm_block) : b.ptr \in Nat /\ b.size \in Nat /\ b.is_free \in BOOLEAN
    /\ mm_brk \in 0..MaxBrk /\ mm_held \subseteq (0..MaxBrk) \X MmSize

\* Headers and data of the blocks follow each other without overlap up to the end
\* of the heap, and no two free blocks are neighbours; what the program holds are
\* the blocks that are not free, each with the room that was asked for (take and
\* freed, over any sequence of calls).
MmSound ==
    /\ MmTypeOK
    /\ \A i \in DOMAIN mm_block :
          /\ (IF i = 1 THEN 0 ELSE BlockEnd(mm_block[i - 1])) + BLOCK_SIZE <= mm_block[i].ptr
          /\ BlockEnd(mm_block[i]) <= mm_brk
    /\ \A i \in 2..Len(mm_block) : ~(mm_block[i - 1].is_free /\ mm_block[i].is_free)
    /\ mm_held = {<<b.ptr, b.size>> : b \in {b \in ToSet(mm_block) : ~b.is_free}}
=============================================================================
