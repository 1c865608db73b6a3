--------------------------------- MODULE Heap --------------------------------
(***************************************************************************)
(* The page allocator and malloc of the kernel (threads/palloc.c,          *)
(* threads/malloc.c, lib/kernel/bitmap.c), used by several threads.        *)
(*                                                                         *)
(* A step ends where another thread can get in between: at a lock, or      *)
(* between the scan of the bitmap and the setting of its bits.  The pages  *)
(* are those of the kernel pool.  A block is <<page, index>>; the content  *)
(* of blocks is left out.                                                  *)
(***************************************************************************)
EXTENDS Integers, Sequences, FiniteSets, SequencesExt, FiniteSetsExt, Lists

CONSTANTS
    HeapThread,
    PoolPages,      \* pages of the kernel pool
    PGSIZE, ArenaSize,
    MinBlock,       \* 16: block size of the first descriptor
    HeapSize,       \* sizes asked for
    NoThread

ASSUME HeapAssumption ==
    /\ {PoolPages, PGSIZE, ArenaSize, MinBlock} \subseteq Nat \ {0} /\ HeapSize \subseteq Nat
    /\ ArenaSize <= PGSIZE \div 2 /\ NoThread \notin HeapThread

VARIABLES
    hp_map,     \* used_map of the pool, without the pages of the bitmap itself
    hp_pool,    \* holder of the lock of the pool
    hp_desc,    \* [free_list, lock] of each descriptor
    hp_arena,   \* header at the start of a page: [desc, free_cnt], desc 0 of a big block
    hp_held,    \* blocks the threads hold
    hp_pc       \* [at, desc, cnt, idx, old]: what each thread is doing

heapVars == <<hp_map, hp_pool, hp_desc, hp_arena, hp_held, hp_pc>>
HeapIdle == [at |-> "idle", desc |-> 0, cnt |-> 0, idx |-> 0, old |-> <<>>]
DivRoundUp(x, step) == (x + step - 1) \div step
-----------------------------------------------------------------------------
(***************************************************************************)
(* Bitmaps as functions from bit numbers to booleans.                      *)
(***************************************************************************)

bitmap_contains(b, start, cnt, value) == \E i \in start..start + cnt - 1 : b[i] = value
bitmap_all(b, start, cnt) == ~bitmap_contains(b, start, cnt, FALSE)
\* The first group of cnt bits with this value, -1 if there is none.
bitmap_scan(b, start, cnt, value) ==
    LET groups == {i \in start..Cardinality(DOMAIN b) - cnt : ~bitmap_contains(b, i, cnt, ~value)}
    IN  IF groups = {} THEN -1 ELSE Min(groups)
bitmap_set_multiple(b, start, cnt, value) ==
    [i \in DOMAIN b |-> IF i \in start..start + cnt - 1 THEN value ELSE b[i]]
-----------------------------------------------------------------------------
(***************************************************************************)
(* malloc_init: block sizes that double up to half a page.                 *)
(***************************************************************************)

block_size == [d \in 1..10 |-> MinBlock * 2^(d - 1)]
Desc == {d \in 1..10 : block_size[d] < PGSIZE \div 2}
blocks_per_arena(d) == (PGSIZE - ArenaSize) \div block_size[d]
\* The descriptor for a size, 0 for a big block.
find_desc(size) ==
    LET fit == {d \in Desc : block_size[d] >= size} IN IF fit = {} THEN 0 ELSE Min(fit)
Blocks(page) == {<<page, i>> : i \in 0..blocks_per_arena(hp_arena[page].desc) - 1}

\* malloc and realloc; a size of 0 is answered at once.
malloc(t, size, old) ==
    /\ hp_pc[t].at = "idle" /\ size > 0
    /\ hp_pc' = [hp_pc EXCEPT ![t] =
          IF find_desc(size) = 0
          THEN [at |-> "scan", desc |-> 0, cnt |-> DivRoundUp(size + ArenaSize, PGSIZE), idx |-> 0, old |-> old]
          ELSE [at |-> "desc", desc |-> find_desc(size), cnt |-> 1, idx |-> 0, old |-> old]]
    /\ UNCHANGED <<hp_map, hp_pool, hp_desc, hp_arena, hp_held>>

\* What a thread does next when malloc returns a block: realloc frees the old one.
returns(t, ok) ==
    LET old == hp_pc[t].old
    IN  hp_pc' = [hp_pc EXCEPT ![t] = IF ok /\ old # <<>> THEN [HeapIdle EXCEPT !.at = "free", !.old = old] ELSE HeapIdle]
gives(t, b) == hp_held' = hp_held \cup {<<t, b>>}

\* lock_acquire of the descriptor; a block from its list, or a new arena.
malloc_desc(t) ==
    LET d == hp_pc[t].desc
        list == hp_desc[d].free_list
    IN  /\ hp_pc[t].at = "desc" /\ hp_desc[d].lock = NoThread
        /\ IF list = <<>>
           THEN /\ hp_desc' = [hp_desc EXCEPT ![d].lock = t]
                /\ hp_pc' = [hp_pc EXCEPT ![t].at = "scan"]
                /\ UNCHANGED <<hp_arena, hp_held>>
           ELSE /\ hp_desc' = [hp_desc EXCEPT ![d].free_list = Tail(@)]
                /\ hp_arena' = [hp_arena EXCEPT ![Head(list)[1]].free_cnt = @ - 1]
                /\ gives(t, Head(list))
                /\ returns(t, TRUE)
        /\ UNCHANGED <<hp_map, hp_pool>>

\* Faulty: the lock of the pool is not taken.
pool_free_always(t) == TRUE
pool_free(t) == hp_pool = NoThread

\* palloc_get_multiple: lock_acquire and bitmap_scan ...
palloc_scan(t) ==
    LET idx == bitmap_scan(hp_map, 0, hp_pc[t].cnt, FALSE)
        d == hp_pc[t].desc
    IN  /\ hp_pc[t].at = "scan" /\ pool_free(t)
        /\ IF idx = -1
           THEN /\ returns(t, FALSE)
                /\ hp_desc' = IF d = 0 THEN hp_desc ELSE [hp_desc EXCEPT ![d].lock = NoThread]
                /\ UNCHANGED hp_pool
           ELSE /\ hp_pool' = t
                /\ hp_pc' = [hp_pc EXCEPT ![t].at = "flip", ![t].idx = idx]
                /\ UNCHANGED hp_desc
        /\ UNCHANGED <<hp_map, hp_arena, hp_held>>
\* ... bitmap_set_multiple and lock_release, after which malloc makes the header:
\* of a big block, or of an arena whose first block it returns.
palloc_flip(t) ==
    LET idx == hp_pc[t].idx
        d == hp_pc[t].desc
        n == IF d = 0 THEN 0 ELSE blocks_per_arena(d)
    IN  /\ hp_pc[t].at = "flip"
        /\ hp_map' = bitmap_set_multiple(hp_map, idx, hp_pc[t].cnt, TRUE)
        /\ hp_pool' = NoThread
        /\ hp_arena' = [hp_arena EXCEPT ![idx] =
              [desc |-> d, free_cnt |-> IF d = 0 THEN hp_pc[t].cnt ELSE n - 1]]
        /\ hp_desc' = IF d = 0 THEN hp_desc
                      ELSE [hp_desc EXCEPT ![d] = [lock |-> NoThread,
                              free_list |-> @.free_list \o [i \in 1..n - 1 |-> <<idx, i>>]]]
        /\ gives(t, <<idx, 0>>)
        /\ returns(t, TRUE)

\* free: block_to_arena finds the header.
free(t, b) ==
    /\ hp_pc[t].at = "idle"
    /\ hp_pc' = [hp_pc EXCEPT ![t] = [HeapIdle EXCEPT !.at = "free", !.old = b]]
    /\ UNCHANGED <<hp_map, hp_pool, hp_desc, hp_arena, hp_held>>

drop_blocks(list, page) == Chosen(list, {i \in DOMAIN list : list[i][1] # page})

\* The block goes to the front of the list of its descriptor; when its arena is
\* unused now, its blocks leave the list and the page is given back, the lock
\* of the descriptor being held and that of the pool not.
free_block(t) ==
    LET b == hp_pc[t].old
        a == hp_arena[b[1]]
        d == a.desc
        list == <<b>> \o hp_desc[d].free_list
        empty == a.free_cnt + 1 >= blocks_per_arena(d)
    IN  /\ hp_pc[t].at = "free" /\ d # 0 /\ hp_desc[d].lock = NoThread
        /\ hp_desc' = [hp_desc EXCEPT ![d].free_list = IF empty THEN drop_blocks(list, b[1]) ELSE list,
                                      ![d].lock = IF empty THEN t ELSE @]
        /\ hp_arena' = [hp_arena EXCEPT ![b[1]].free_cnt = @ + 1]
        /\ hp_held' = hp_held \ {<<t, b>>}
        /\ hp_pc' = [hp_pc EXCEPT ![t] = IF empty
                       THEN [at |-> "give", desc |-> d, cnt |-> 1, idx |-> b[1], old |-> <<>>] ELSE HeapIdle]
        /\ UNCHANGED <<hp_map, hp_pool>>
free_big(t) ==
    LET page == hp_pc[t].old[1]
    IN  /\ hp_pc[t].at = "free" /\ hp_arena[page].desc = 0
        /\ hp_held' = hp_held \ {<<t, <<page, 0>>>>}
        /\ hp_pc' = [hp_pc EXCEPT ![t] = [at |-> "give", desc |-> 0, cnt |-> hp_arena[page].free_cnt,
                                          idx |-> page, old |-> <<>>]]
        /\ UNCHANGED <<hp_map, hp_pool, hp_desc, hp_arena>>
\* The pages are overwritten, the header with them, and their bits are cleared.
palloc_free_multiple(t) ==
    LET p == hp_pc[t]
    IN  /\ p.at = "give"
        /\ hp_map' = bitmap_set_multiple(hp_map, p.idx, p.cnt, FALSE)
        /\ hp_desc' = IF p.desc = 0 THEN hp_desc ELSE [hp_desc EXCEPT ![p.desc].lock = NoThread]
        /\ hp_arena' = [hp_arena EXCEPT ![p.idx] = [desc |-> 0, free_cnt |-> 0]]
        /\ hp_pc' = [hp_pc EXCEPT ![t] = HeapIdle]
        /\ UNCHANGED <<hp_pool, hp_held>>
-----------------------------------------------------------------------------
\* palloc_init and malloc_init.
HeapInit ==
    /\ hp_map = [i \in 0..PoolPages - 1 |-> FALSE] /\ hp_pool = NoThread
    /\ hp_desc = [d \in Desc |-> [free_list |-> <<>>, lock |-> NoThread]]
    /\ hp_arena = [i \in 0..PoolPages - 1 |-> [desc |-> 0, free_cnt |-> 0]]
    /\ hp_held = {} /\ hp_pc = [t \in HeapThread |-> HeapIdle]
\* A block is freed or reallocated by the thread that holds it.
HeapNext ==
    \E t \in HeapThread :
      \/ \E size \in HeapSize : malloc(t, size, <<>>)
      \/ \E h \in hp_held : h[1] = t /\ (free(t, h[2]) \/ \E size \in HeapSize : malloc(t, size, h[2]))
      \/ malloc_desc(t) \/ palloc_scan(t) \/ palloc_flip(t)
      \/ free_block(t) \/ free_big(t) \/ palloc_free_multiple(t)
HeapSpec == HeapInit /\ [][HeapNext]_heapVars
-----------------------------------------------------------------------------
(***************************************************************************)
(* Properties.                                                             *)
(***************************************************************************)

HeapTypeOK ==
    /\ hp_map \in [0..PoolPages - 1 -> BOOLEAN] /\ hp_pool \in HeapThread \cup {NoThread}
    /\ \A d \in Desc : hp_desc[d].lock \in HeapThread \cup {NoThread}
    /\ \A h \in hp_held : h[1] \in HeapThread /\ h[2][1] \in DOMAIN hp_map
    /\ \A t \in HeapThread : hp_pc[t].at \in {"idle", "desc", "scan", "flip", "free", "give"}

\* The pages each holder has: of a big block, of an arena, or being given back.
Extent(page) == IF hp_arena[page].desc = 0 THEN page..page + hp_arena[page].free_cnt - 1 ELSE {page}
Listed == UNION {ToSet(hp_desc[d].free_list) : d \in Desc}
\* No block is held twice or both held and on a list; the blocks of an arena are
\* all accounted for by its count; and the pages of all blocks are in use and
\* belong to one block or arena only, although palloc_free_multiple does not take
\* the lock under which palloc_get_multiple scans and sets the bits.
HeapSound ==
    LET blocks == {h[2] : h \in hp_held}
        heads == {b[1] : b \in blocks \cup Listed}
    IN  /\ HeapTypeOK
        /\ Cardinality(blocks) = Cardinality(hp_held) /\ blocks \cap Listed = {}
        /\ \A d \in Desc : IsInjective(hp_desc[d].free_list)
        /\ \A p, q \in heads : p # q => Extent(p) \cap Extent(q) = {}
        /\ \A p \in heads : \A i \in Extent(p) : hp_map[i]
        /\ \A p \in heads : hp_arena[p].desc # 0 =>
              /\ Blocks(p) \subseteq blocks \cup Listed
              /\ hp_arena[p].free_cnt = Cardinality(Blocks(p) \cap Listed)
=============================================================================
