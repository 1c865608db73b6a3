---------------------------- MODULE MemoryProofs ----------------------------
(***************************************************************************)
(* Proofs about memory: the page allocator and the heap of the kernel, for *)
(* any number of threads and pages and any sizes of blocks; the address    *)
(* spaces of processes, for any executables, pools and page size; mm_alloc *)
(* of hw3, for every size of its heap.                                     *)
(***************************************************************************)
EXTENDS Memory, ListFacts, TLAPS
-----------------------------------------------------------------------------
(*****************************************************************************)
(* The heap of the kernel.                                                   *)
(*****************************************************************************)

Page == 0 .. PoolPages - 1
BlockSet == Page \X Nat
Pc == [at : {"idle", "desc", "scan", "flip", "free", "give"}, desc : Desc \cup {0}, cnt : Nat, idx : Nat,
       old : BlockSet \cup {<<>>}]
Owned(b) == \E t \in HeapThread : <<t, b>> \in hp_held
InList(b) == \E d \in Desc : OnList(b, hp_desc[d].free_list)
\* Page p is the first of a big block, or an arena.
Home(p) == \E b \in BlockSet : b[1] = p /\ (Owned(b) \/ InList(b))
Span(t) == hp_pc[t].idx .. hp_pc[t].idx + hp_pc[t].cnt - 1

HeapTypes ==
    /\ hp_map \in [Page -> BOOLEAN] /\ hp_pool \in HeapThread \cup {NoThread}
    /\ hp_desc \in [Desc -> [free_list : Seq(BlockSet), lock : HeapThread \cup {NoThread}]]
    /\ hp_arena \in [Page -> [desc : Desc \cup {0}, free_cnt : Int]]
    /\ hp_held \subseteq HeapThread \X BlockSet /\ IsFiniteSet(hp_held)
    /\ hp_pc \in [HeapThread -> Pc]

\* A block has one holder or is on a list.
OwnInv ==
    /\ \A t, u \in HeapThread, b \in BlockSet : <<t, b>> \in hp_held /\ <<u, b>> \in hp_held => t = u
    /\ \A b \in BlockSet : Owned(b) =>
          /\ ~ InList(b)
          /\ hp_arena[b[1]].desc = 0 => b[2] = 0 /\ hp_arena[b[1]].free_cnt >= 1
          /\ hp_arena[b[1]].desc # 0 => b[2] < blocks_per_arena(hp_arena[b[1]].desc)
\* The list of a descriptor has blocks of its size, each once.
ListInv ==
    \A d \in Desc :
       /\ NoDup(hp_desc[d].free_list)
       /\ \A b \in BlockSet :
             OnList(b, hp_desc[d].free_list) => hp_arena[b[1]].desc = d /\ b[2] < blocks_per_arena(d)
\* The blocks of an arena are all there, and its count is that of those on a list.
FreeIn(p) == {b \in Blocks(p) : InList(b)}
ArenaInv ==
    \A p \in Page : Home(p) /\ hp_arena[p].desc # 0 =>
       /\ \A b \in Blocks(p) : Owned(b) \/ InList(b)
       /\ hp_arena[p].free_cnt = Cardinality(FreeIn(p))
\* Pages that belong to somebody are marked, and belong to nobody else.
PageInv ==
    /\ \A p, q \in Page : Home(p) /\ Home(q) /\ p # q => Extent(p) \cap Extent(q) = {}
    /\ \A p \in Page : Home(p) => \A i \in Extent(p) : i \in Page /\ hp_map[i]
Shape == OwnInv /\ ListInv /\ ArenaInv /\ PageInv

\* A thread that has the lock of a descriptor works for it.
Mine(t) == hp_pc[t].desc # 0 => hp_pc[t].cnt = 1 /\ hp_desc[hp_pc[t].desc].lock = t
Asking(t) ==
    /\ hp_pc[t].cnt >= 1 /\ Mine(t)
    /\ hp_pc[t].desc # 0 => hp_desc[hp_pc[t].desc].free_list = <<>>
\* Pages found free stay free as the lock of the pool is held; pages on their way
\* back belong to nobody else.
Found(t) == hp_pool = t /\ \A i \in Span(t) : i \in Page /\ ~ hp_map[i]
Giving(t) ==
    /\ hp_pc[t].cnt >= 1 /\ Mine(t) /\ hp_pc[t].old = <<>>
    /\ \A i \in Span(t) : i \in Page /\ hp_map[i]
    /\ \A p \in Page : Home(p) => Extent(p) \cap Span(t) = {}
ThreadInv(t) ==
    /\ hp_pc[t].old # <<>> => <<t, hp_pc[t].old>> \in hp_held
    /\ hp_pc[t].at = "desc" => hp_pc[t].desc # 0 /\ hp_pc[t].cnt = 1
    /\ hp_pc[t].at \in {"scan", "flip"} => Asking(t)
    /\ hp_pc[t].at = "flip" => Found(t)
    /\ hp_pc[t].at = "free" => hp_pc[t].old # <<>>
    /\ hp_pc[t].at = "give" => Giving(t)
GiveInv ==
    \A t, u \in HeapThread : hp_pc[t].at = "give" /\ hp_pc[u].at = "give" /\ t # u => Span(t) \cap Span(u) = {}
HeapInv == HeapTypes /\ Shape /\ GiveInv /\ \A t \in HeapThread : ThreadInv(t)

LEMMA PowersOfTwo == \A d \in 1 .. 10 : 2^(d - 1) \in Nat \ {0}
<1>1. /\ 2^0 \in Nat \ {0} /\ 2^1 \in Nat \ {0} /\ 2^2 \in Nat \ {0} /\ 2^3 \in Nat \ {0} /\ 2^4 \in Nat \ {0}
      /\ 2^5 \in Nat \ {0} /\ 2^6 \in Nat \ {0} /\ 2^7 \in Nat \ {0} /\ 2^8 \in Nat \ {0} /\ 2^9 \in Nat \ {0}
  OBVIOUS
<1>2. \A d \in 1 .. 10 : d - 1 \in {0, 1, 2, 3, 4, 5, 6, 7, 8, 9}
  OBVIOUS
<1>3. \A k \in {0, 1, 2, 3, 4, 5, 6, 7, 8, 9} : 2^k \in Nat \ {0}
  BY <1>1
<1> QED
  BY ONLY <1>2, <1>3

LEMMA ArenaBlocks == \A d \in Desc : d \in 1 .. 10 /\ d # 0 /\ blocks_per_arena(d) \in Nat \ {0}
<1> SUFFICES ASSUME NEW d \in Desc PROVE d \in 1 .. 10 /\ d # 0 /\ blocks_per_arena(d) \in Nat \ {0}
  OBVIOUS
<1>1. d \in 1 .. 10 /\ block_size[d] < PGSIZE \div 2
  BY DEF Desc
<1>2. block_size[d] = MinBlock * 2^(d - 1)
  BY <1>1 DEF block_size
<1>3. PICK x : x = block_size[d]
  OBVIOUS
<1>4. PICK y : y = 2^(d - 1)
  OBVIOUS
<1>5. y \in Nat \ {0} /\ x = MinBlock * y
  BY ONLY <1>1, <1>2, <1>3, <1>4, PowersOfTwo
<1>6. MinBlock \in Nat \ {0} /\ PGSIZE \in Nat \ {0} /\ ArenaSize \in Nat \ {0} /\ ArenaSize <= PGSIZE \div 2
  BY HeapAssumption
<1>7. x \in Nat \ {0}
  BY ONLY <1>5, <1>6
<1>8. (PGSIZE - ArenaSize) \div x \in Nat \ {0}
  BY ONLY <1>1, <1>3, <1>6, <1>7
<1> QED
  BY <1>1, <1>3, <1>8 DEF blocks_per_arena

LEMMA Asked ==
    ASSUME NEW size \in HeapSize, size > 0
    PROVE  find_desc(size) \in Desc \cup {0} /\ DivRoundUp(size + ArenaSize, PGSIZE) \in Nat \ {0}
<1>1. PICK fit : fit = {d \in Desc : block_size[d] >= size}
  OBVIOUS
<1>2. find_desc(size) \in Desc \cup {0}
  <2>1. CASE fit = {}
    BY <1>1, <2>1 DEF find_desc
  <2>2. CASE fit # {}
    <3>1. fit \subseteq Nat
      BY <1>1, ArenaBlocks
    <3>2. \E m \in fit : \A n \in fit : m <= n
      BY ONLY <2>2, <3>1, LeastNumber
    <3>3. Min(fit) \in fit
      BY <3>2 DEF Min
    <3> QED
      BY <1>1, <2>2, <3>3 DEF find_desc
  <2> QED
    BY <2>1, <2>2
<1>3. PICK x : x = size + ArenaSize
  OBVIOUS
<1>4. x \in Nat \ {0} /\ PGSIZE \in Nat \ {0}
  BY <1>3, HeapAssumption
<1>5. (x + PGSIZE - 1) \div PGSIZE \in Nat \ {0}
  BY ONLY <1>4
<1> QED
  BY <1>2, <1>3, <1>5 DEF DivRoundUp

\* bitmap_scan ().
LEMMA ScanFinds ==
    ASSUME HeapTypes, NEW cnt \in Nat, NEW idx, idx = bitmap_scan(hp_map, 0, cnt, FALSE), idx # -1
    PROVE  idx \in Nat /\ \A i \in idx .. idx + cnt - 1 : i \in Page /\ ~ hp_map[i]
<1>1. PICK N : N = Cardinality(DOMAIN hp_map)
  OBVIOUS
<1>2. N = PoolPages
  <2>1. DOMAIN hp_map = 0 .. PoolPages - 1 /\ PoolPages \in Nat \ {0}
    BY HeapAssumption DEF HeapTypes, Page
  <2>2. Cardinality(0 .. PoolPages - 1) = IF 0 > PoolPages - 1 THEN 0 ELSE (PoolPages - 1) - 0 + 1
    BY <2>1, FS_Interval
  <2> QED
    BY <1>1, <2>1, <2>2
<1>3. PICK groups : groups = {i \in 0 .. N - cnt : ~ bitmap_contains(hp_map, i, cnt, TRUE)}
  OBVIOUS
<1>4. idx = IF groups = {} THEN -1 ELSE Min(groups)
  BY <1>1, <1>3 DEF bitmap_scan
<1>5. groups \subseteq Nat /\ groups # {}
  <2>1. N - cnt \in Int
    BY <1>2, HeapAssumption
  <2>2. groups # {}
    BY <1>4
  <2>3. groups \subseteq 0 .. N - cnt
    BY <1>3
  <2> QED
    BY ONLY <2>1, <2>2, <2>3
<1>6. \E m \in groups : \A n \in groups : m <= n
  BY ONLY <1>5, LeastNumber
<1>7. idx \in groups
  BY <1>4, <1>5, <1>6 DEF Min
<1>8. idx \in 0 .. N - cnt /\ \A i \in idx .. idx + cnt - 1 : hp_map[i] # TRUE
  BY <1>3, <1>7 DEF bitmap_contains
<1>9. PoolPages \in Nat
  BY HeapAssumption
<1>10. ASSUME NEW i \in idx .. idx + cnt - 1 PROVE i \in Page /\ ~ hp_map[i]
  <2>1. i \in Page
    BY ONLY <1>2, <1>8, <1>9, cnt \in Nat, i \in idx .. idx + cnt - 1 DEF Page
  <2>2. hp_map[i] \in BOOLEAN
    BY <2>1 DEF HeapTypes
  <2>3. hp_map[i] # TRUE
    BY <1>8
  <2>4. ~ hp_map[i]
    BY ONLY <2>2, <2>3
  <2> QED
    BY <2>1, <2>4
<1>11. idx \in Nat
  BY <1>5, <1>7
<1> QED
  BY <1>10, <1>11

LEMMA PcAt ==
    ASSUME HeapTypes, NEW t \in HeapThread
    PROVE  /\ hp_pc[t] \in Pc /\ hp_pc[t].cnt \in Nat /\ hp_pc[t].idx \in Nat /\ hp_pc[t].desc \in Desc \cup {0}
           /\ hp_pc[t].old \in BlockSet \cup {<<>>} /\ DOMAIN hp_pc = HeapThread
<1>1. hp_pc[t] \in Pc /\ DOMAIN hp_pc = HeapThread
  BY DEF HeapTypes
<1> QED
  BY <1>1 DEF Pc

LEMMA DescAt ==
    ASSUME HeapTypes, NEW d \in Desc
    PROVE  /\ hp_desc[d].free_list \in Seq(BlockSet) /\ hp_desc[d].lock \in HeapThread \cup {NoThread}
           /\ hp_desc[d] \in [free_list : Seq(BlockSet), lock : HeapThread \cup {NoThread}] /\ DOMAIN hp_desc = Desc
BY DEF HeapTypes

LEMMA ArenaAt ==
    ASSUME HeapTypes, NEW p \in Page
    PROVE  /\ hp_arena[p].desc \in Desc \cup {0} /\ hp_arena[p].free_cnt \in Int /\ p \in Nat
           /\ hp_arena[p] \in [desc : Desc \cup {0}, free_cnt : Int] /\ DOMAIN hp_arena = Page
BY DEF HeapTypes, Page

\* What the invariant of a thread needs of the steps of others.
LEMMA OthersKeep ==
    ASSUME HeapTypes, NEW u \in HeapThread, ThreadInv(u), hp_pc'[u] = hp_pc[u],
           \A b : <<u, b>> \in hp_held => <<u, b>> \in hp_held',
           \A d \in Desc : hp_desc[d].lock = u => hp_desc'[d] = hp_desc[d],
           hp_pool = u => hp_pool' = u /\ \A i \in Page : ~ hp_map[i] => ~ hp_map'[i],
           hp_pc[u].at = "give" =>
              /\ \A i \in Span(u) : hp_map[i] => hp_map'[i]
              /\ \A p \in Page : Home(p)' => \/ Home(p) /\ Extent(p)' = Extent(p)
                                            \/ Extent(p)' \cap Span(u) = {}
    PROVE  ThreadInv(u)'
<1>1. Span(u)' = Span(u)
  BY DEF Span
<1>2. hp_pc[u].desc \in Desc \cup {0}
  BY PcAt
<1>3. Mine(u) => Mine(u)'
  BY <1>2 DEF Mine
<1>4. Asking(u) => Asking(u)'
  BY <1>2, <1>3 DEF Asking, Mine
<1>5. Found(u) => Found(u)'
  BY <1>1 DEF Found
<1>6. hp_pc[u].at = "give" /\ Giving(u) => Giving(u)'
  <2>1. SUFFICES ASSUME hp_pc[u].at = "give", Giving(u) PROVE Giving(u)'
    OBVIOUS
  <2>2. \A p \in Page : Home(p)' => Extent(p)' \cap Span(u)' = {}
    BY <1>1, <2>1 DEF Giving
  <2>3. \A i \in Span(u)' : i \in Page /\ hp_map'[i]
    BY <1>1, <2>1 DEF Giving
  <2> QED
    BY <1>3, <2>1, <2>2, <2>3 DEF Giving
<1> QED
  BY <1>4, <1>5, <1>6 DEF ThreadInv

\* Locks do not matter to the blocks.
LEMMA SameShape ==
    ASSUME HeapTypes, Shape, hp_held' = hp_held, hp_arena' = hp_arena, hp_map' = hp_map,
           \A d \in Desc : hp_desc'[d].free_list = hp_desc[d].free_list
    PROVE  /\ Shape' /\ \A p : Home(p)' <=> Home(p)
           /\ \A p : Extent(p)' = Extent(p)
<1>1. \A b : Owned(b)' <=> Owned(b)
  BY DEF Owned
<1>2. \A b : InList(b)' <=> InList(b)
  BY DEF InList
<1>3. \A p : Home(p)' <=> Home(p)
  BY <1>1, <1>2 DEF Home
<1>4. \A p : Extent(p)' = Extent(p)
  BY DEF Extent
<1>5. \A p : Blocks(p)' = Blocks(p)
  BY DEF Blocks
<1>6. \A p : FreeIn(p)' = FreeIn(p)
  BY <1>2, <1>5 DEF FreeIn
<1>7. OwnInv'
  BY <1>1, <1>2 DEF Shape, OwnInv
<1>8. ListInv'
  BY DEF Shape, ListInv
<1>9. ArenaInv'
  BY <1>1, <1>2, <1>3, <1>5, <1>6 DEF Shape, ArenaInv
<1>10. PageInv'
  BY <1>3, <1>4 DEF Shape, PageInv
<1> QED
  BY <1>3, <1>4, <1>7, <1>8, <1>9, <1>10 DEF Shape

LEMMA IdleKeeps ==
    ASSUME HeapTypes, NEW t \in HeapThread, hp_pc'[t] = HeapIdle
    PROVE  ThreadInv(t)' /\ hp_pc'[t] \in Pc
BY DEF HeapIdle, ThreadInv, Pc

\* malloc () up to its first step.
LEMMA MallocKeeps ==
    ASSUME HeapInv, NEW t \in HeapThread, NEW size \in HeapSize, NEW old, malloc(t, size, old),
           old # <<>> => <<t, old>> \in hp_held
    PROVE  HeapInv'
<1>1. HeapTypes /\ Shape /\ GiveInv /\ \A u \in HeapThread : ThreadInv(u)
  BY DEF HeapInv
<1>2. /\ UNCHANGED <<hp_map, hp_pool, hp_desc, hp_arena, hp_held>> /\ size > 0
      /\ \A u \in HeapThread : u # t => hp_pc'[u] = hp_pc[u]
      /\ DOMAIN hp_pc = HeapThread
      /\ hp_pc' = [hp_pc EXCEPT ![t] = hp_pc'[t]]
      /\ hp_pc'[t] = IF find_desc(size) = 0
          THEN [at |-> "scan", desc |-> 0, cnt |-> DivRoundUp(size + ArenaSize, PGSIZE), idx |-> 0, old |-> old]
          ELSE [at |-> "desc", desc |-> find_desc(size), cnt |-> 1, idx |-> 0, old |-> old]
  BY <1>1, PcAt DEF malloc
<1>3. old \in BlockSet \cup {<<>>}
  BY <1>1 DEF HeapTypes
<1>4. find_desc(size) \in Desc \cup {0} /\ DivRoundUp(size + ArenaSize, PGSIZE) \in Nat \ {0}
  BY <1>2, Asked
<1>5. hp_pc'[t] \in Pc
  BY <1>2, <1>3, <1>4 DEF Pc
<1>6. HeapTypes'
  BY <1>1, <1>2, <1>5 DEF HeapTypes
<1>7. Shape' /\ (\A p : Home(p)' <=> Home(p)) /\ (\A p : Extent(p)' = Extent(p))
  BY <1>1, <1>2, SameShape
<1>8. ASSUME NEW u \in HeapThread, u # t PROVE ThreadInv(u)'
  BY <1>1, <1>2, <1>7, <1>8, OthersKeep
<1>9. ThreadInv(t)'
  BY <1>2, <1>4 DEF ThreadInv, Asking, Mine
<1>10. GiveInv'
  <2>1. hp_pc'[t].at # "give"
    BY <1>2
  <2>2. \A u \in HeapThread : u # t => Span(u)' = Span(u)
    BY <1>2 DEF Span
  <2>3. \A u \in HeapThread : hp_pc'[u].at = "give" => hp_pc[u].at = "give" /\ Span(u)' = Span(u)
    BY <1>2, <2>1, <2>2
  <2> QED
    BY ONLY <1>1, <2>3 DEF GiveInv
<1> QED
  BY <1>6, <1>7, <1>8, <1>9, <1>10 DEF HeapInv

\* free () up to its first step.
LEMMA FreeKeeps ==
    ASSUME HeapInv, NEW t \in HeapThread, NEW b, free(t, b), <<t, b>> \in hp_held
    PROVE  HeapInv'
<1>1. HeapTypes /\ Shape /\ GiveInv /\ \A u \in HeapThread : ThreadInv(u)
  BY DEF HeapInv
<1>2. /\ UNCHANGED <<hp_map, hp_pool, hp_desc, hp_arena, hp_held>>
      /\ \A u \in HeapThread : u # t => hp_pc'[u] = hp_pc[u]
      /\ DOMAIN hp_pc = HeapThread
      /\ hp_pc' = [hp_pc EXCEPT ![t] = hp_pc'[t]]
      /\ hp_pc'[t] = [HeapIdle EXCEPT !.at = "free", !.old = b]
  BY <1>1, PcAt DEF free
<1>3. b \in BlockSet
  BY <1>1 DEF HeapTypes
<1>4. hp_pc'[t] = [at |-> "free", desc |-> 0, cnt |-> 0, idx |-> 0, old |-> b]
  BY <1>2 DEF HeapIdle
<1>5. hp_pc'[t] \in Pc
  BY <1>3, <1>4 DEF Pc
<1>6. HeapTypes'
  BY <1>1, <1>2, <1>5 DEF HeapTypes
<1>7. Shape' /\ (\A p : Home(p)' <=> Home(p)) /\ (\A p : Extent(p)' = Extent(p))
  BY <1>1, <1>2, SameShape
<1>8. ASSUME NEW u \in HeapThread, u # t PROVE ThreadInv(u)'
  BY <1>1, <1>2, <1>7, <1>8, OthersKeep
<1>9. ThreadInv(t)'
  <2>1. b # <<>>
    BY <1>3 DEF BlockSet
  <2> QED
    BY <1>2, <1>4, <2>1 DEF ThreadInv
<1>10. GiveInv'
  <2>1. hp_pc'[t].at # "give"
    BY <1>4
  <2>2. \A u \in HeapThread : u # t => Span(u)' = Span(u)
    BY <1>2 DEF Span
  <2>3. \A u \in HeapThread : hp_pc'[u].at = "give" => hp_pc[u].at = "give" /\ Span(u)' = Span(u)
    BY <1>2, <2>1, <2>2
  <2> QED
    BY ONLY <1>1, <2>3 DEF GiveInv
<1> QED
  BY <1>6, <1>7, <1>8, <1>9, <1>10 DEF HeapInv

\* A step of t after which t gives nothing back.
LEMMA StepKeeps ==
    ASSUME HeapInv, HeapTypes', Shape', NEW t \in HeapThread, hp_pc'[t].at # "give", ThreadInv(t)',
           \A u \in HeapThread : u # t => hp_pc'[u] = hp_pc[u],
           \A u \in HeapThread : u # t => \A b : <<u, b>> \in hp_held => <<u, b>> \in hp_held',
           \A u \in HeapThread : u # t => \A d \in Desc : hp_desc[d].lock = u => hp_desc'[d] = hp_desc[d],
           \A u \in HeapThread : u # t /\ hp_pool = u =>
              hp_pool' = u /\ \A i \in Page : ~ hp_map[i] => ~ hp_map'[i],
           \A u \in HeapThread : u # t /\ hp_pc[u].at = "give" =>
              /\ \A i \in Span(u) : hp_map[i] => hp_map'[i]
              /\ \A p \in Page : Home(p)' => \/ Home(p) /\ Extent(p)' = Extent(p)
                                            \/ Extent(p)' \cap Span(u) = {}
    PROVE  HeapInv'
<1>1. HeapTypes /\ Shape /\ GiveInv /\ \A u \in HeapThread : ThreadInv(u)
  BY DEF HeapInv
<1>2. ASSUME NEW u \in HeapThread, u # t PROVE ThreadInv(u)'
  BY <1>1, <1>2, OthersKeep
<1>3. GiveInv'
  <2>1. \A u \in HeapThread : u # t => Span(u)' = Span(u)
    BY DEF Span
  <2>2. \A u \in HeapThread : hp_pc'[u].at = "give" => hp_pc[u].at = "give" /\ Span(u)' = Span(u)
    BY <2>1
  <2> QED
    BY ONLY <1>1, <2>2 DEF GiveInv
<1> QED
  BY <1>2, <1>3 DEF HeapInv

\* A block is returned; realloc goes on to free the old one.
LEMMA ReturnKeeps ==
    ASSUME HeapInv, NEW t \in HeapThread, NEW ok \in BOOLEAN, returns(t, ok),
           \A b : <<t, b>> \in hp_held => <<t, b>> \in hp_held'
    PROVE  /\ ThreadInv(t)' /\ hp_pc' \in [HeapThread -> Pc] /\ hp_pc'[t].at # "give"
           /\ \A u \in HeapThread : u # t => hp_pc'[u] = hp_pc[u]
<1>1. HeapTypes /\ ThreadInv(t) /\ hp_pc \in [HeapThread -> Pc]
  BY DEF HeapInv, HeapTypes
<1>2. PICK old : old = hp_pc[t].old
  OBVIOUS
<1>3. PICK x : x = IF ok /\ old # <<>> THEN [HeapIdle EXCEPT !.at = "free", !.old = old] ELSE HeapIdle
  OBVIOUS
<1>4. hp_pc' = [hp_pc EXCEPT ![t] = x]
  BY <1>2, <1>3 DEF returns
<1>5. HeapIdle = [at |-> "idle", desc |-> 0, cnt |-> 0, idx |-> 0, old |-> <<>>] /\ HeapIdle \in Pc
  BY DEF HeapIdle, Pc
<1>6. old \in BlockSet \cup {<<>>} /\ (old # <<>> => <<t, old>> \in hp_held')
  BY <1>1, <1>2, PcAt DEF ThreadInv
<1>7. /\ x \in Pc /\ x.at \in {"idle", "free"} /\ (x.old # <<>> => <<t, x.old>> \in hp_held')
      /\ x.at = "free" => x.old # <<>>
  <2>1. CASE ok /\ old # <<>>
    <3>1. x = [HeapIdle EXCEPT !.at = "free", !.old = old]
      BY <1>3, <2>1
    <3>2. x.at = "free" /\ x.old = old /\ x \in Pc
      BY <1>5, <1>6, <3>1 DEF Pc
    <3> QED
      BY <1>6, <2>1, <3>2
  <2>2. CASE ~ (ok /\ old # <<>>)
    BY <1>3, <1>5, <2>2
  <2> QED
    BY <2>1, <2>2
<1>8. hp_pc'[t] = x
  BY <1>1, <1>4
<1>9. ThreadInv(t)'
  BY <1>7, <1>8 DEF ThreadInv
<1> QED
  BY <1>1, <1>4, <1>7, <1>8, <1>9

\* palloc_get_multiple () up to bitmap_scan ().
LEMMA ScanKeeps ==
    ASSUME HeapInv, NEW t \in HeapThread, palloc_scan(t)
    PROVE  HeapInv'
<1>1. HeapTypes /\ Shape /\ GiveInv /\ ThreadInv(t)
  BY DEF HeapInv
<1>2. PICK idx : idx = bitmap_scan(hp_map, 0, hp_pc[t].cnt, FALSE)
  OBVIOUS
<1>3. PICK d : d = hp_pc[t].desc
  OBVIOUS
<1>4. /\ hp_pc[t].at = "scan" /\ hp_pool = NoThread /\ hp_map' = hp_map /\ hp_arena' = hp_arena
      /\ hp_held' = hp_held /\ Asking(t) /\ d \in Desc \cup {0} /\ hp_pc[t].cnt \in Nat
      /\ DOMAIN hp_desc = Desc /\ DOMAIN hp_pc = HeapThread /\ hp_pc[t] \in Pc
  BY <1>1, <1>3, PcAt DEF palloc_scan, pool_free, ThreadInv, HeapTypes
<1>5. CASE idx = -1
  <2>1. /\ returns(t, FALSE) /\ hp_pool' = hp_pool
        /\ hp_desc' = IF d = 0 THEN hp_desc ELSE [hp_desc EXCEPT ![d].lock = NoThread]
    BY <1>2, <1>3, <1>5 DEF palloc_scan
  <2>2. /\ ThreadInv(t)' /\ hp_pc' \in [HeapThread -> Pc] /\ hp_pc'[t].at # "give"
        /\ \A u \in HeapThread : u # t => hp_pc'[u] = hp_pc[u]
    BY <1>4, <2>1, ReturnKeeps
  <2>3. \A e \in Desc : /\ hp_desc'[e].free_list = hp_desc[e].free_list
                        /\ e # d => hp_desc'[e] = hp_desc[e]
    BY <1>1, <1>4, <2>1 DEF HeapTypes
  <2>4. HeapTypes'
    <3>1. hp_desc' \in [Desc -> [free_list : Seq(BlockSet), lock : HeapThread \cup {NoThread}]]
      BY <1>1, <1>4, <2>1 DEF HeapTypes
    <3> QED
      BY <1>1, <1>4, <2>1, <2>2, <3>1 DEF HeapTypes
  <2>5. Shape' /\ (\A p : Home(p)' <=> Home(p)) /\ (\A p : Extent(p)' = Extent(p))
    BY <1>1, <1>4, <2>3, SameShape
  <2>6. ASSUME NEW u \in HeapThread, u # t, NEW e \in Desc, hp_desc[e].lock = u PROVE hp_desc'[e] = hp_desc[e]
    <3>1. e = d => hp_desc[e].lock = t
      BY <1>3, <1>4, ArenaBlocks DEF Asking, Mine
    <3> QED
      BY <2>3, <2>6, <3>1
  <2> QED
    BY <1>4, <2>1, <2>2, <2>4, <2>5, <2>6, StepKeeps
<1>6. CASE idx # -1
  <2>1. hp_pool' = t /\ hp_pc' = [hp_pc EXCEPT ![t].at = "flip", ![t].idx = idx] /\ hp_desc' = hp_desc
    BY <1>2, <1>3, <1>6 DEF palloc_scan
  <2>2. idx \in Nat /\ \A i \in idx .. idx + hp_pc[t].cnt - 1 : i \in Page /\ ~ hp_map[i]
    BY <1>1, <1>2, <1>4, <1>6, ScanFinds
  <2>3. /\ hp_pc'[t] = [at |-> "flip", desc |-> d, cnt |-> hp_pc[t].cnt, idx |-> idx, old |-> hp_pc[t].old]
        /\ \A u \in HeapThread : u # t => hp_pc'[u] = hp_pc[u]
    BY <1>3, <1>4, <2>1 DEF Pc
  <2>4. hp_pc'[t] \in Pc
    BY <1>4, <2>2, <2>3, <1>1, PcAt DEF Pc
  <2>5. hp_pc' \in [HeapThread -> Pc]
    BY <1>1, <1>4, <2>1, <2>4 DEF HeapTypes
  <2>6. HeapTypes'
    BY <1>1, <1>4, <2>1, <2>5 DEF HeapTypes
  <2>7. Shape' /\ (\A p : Home(p)' <=> Home(p)) /\ (\A p : Extent(p)' = Extent(p))
    BY <1>1, <1>4, <2>1, SameShape
  <2>8. Asking(t)'
    BY <1>3, <1>4, <2>1, <2>3 DEF Asking, Mine
  <2>9. Found(t)'
    BY <1>4, <2>1, <2>2, <2>3 DEF Found, Span
  <2>10. ThreadInv(t)'
    BY <1>1, <1>4, <2>3, <2>8, <2>9 DEF ThreadInv
  <2>11. hp_pc'[t].at # "give"
    BY <2>3
  <2>12. \A u \in HeapThread : hp_pool # u
    BY <1>4, HeapAssumption
  <2> QED
    BY <1>4, <2>1, <2>3, <2>6, <2>7, <2>10, <2>11, <2>12, StepKeeps
<1> QED
  BY <1>5, <1>6

\* malloc () with an empty list: the lock is kept.
LEMMA LockKeeps ==
    ASSUME HeapInv, NEW t \in HeapThread, malloc_desc(t), hp_desc[hp_pc[t].desc].free_list = <<>>
    PROVE  HeapInv'
<1>1. HeapTypes /\ Shape /\ GiveInv /\ ThreadInv(t)
  BY DEF HeapInv
<1>2. PICK d : d = hp_pc[t].desc
  OBVIOUS
<1>3. /\ hp_pc[t].at = "desc" /\ hp_desc[d].lock = NoThread /\ hp_desc[d].free_list = <<>>
      /\ hp_desc' = [hp_desc EXCEPT ![d].lock = t] /\ hp_pc' = [hp_pc EXCEPT ![t].at = "scan"]
      /\ UNCHANGED <<hp_arena, hp_held, hp_map, hp_pool>>
  BY <1>2 DEF malloc_desc
<1>4. /\ d \in Desc /\ d # 0 /\ hp_pc[t].cnt = 1 /\ hp_pc[t] \in Pc
      /\ DOMAIN hp_desc = Desc /\ DOMAIN hp_pc = HeapThread /\ hp_desc[d].lock \notin HeapThread
  BY <1>1, <1>2, <1>3, PcAt, HeapAssumption DEF ThreadInv, HeapTypes
<1>5. /\ hp_pc'[t] = [at |-> "scan", desc |-> d, cnt |-> 1, idx |-> hp_pc[t].idx, old |-> hp_pc[t].old]
      /\ \A u \in HeapThread : u # t => hp_pc'[u] = hp_pc[u]
  BY <1>2, <1>3, <1>4 DEF Pc
<1>6. hp_pc'[t] \in Pc
  BY <1>1, <1>2, <1>4, <1>5, PcAt DEF Pc
<1>7. hp_pc' \in [HeapThread -> Pc]
  BY <1>1, <1>3, <1>4, <1>6 DEF HeapTypes
<1>8. \A e \in Desc : /\ hp_desc'[e].free_list = hp_desc[e].free_list
                      /\ e # d => hp_desc'[e] = hp_desc[e]
  BY <1>1, <1>3, <1>4 DEF HeapTypes
<1>9. hp_desc'[d].lock = t /\ hp_desc'[d].free_list = <<>>
  BY <1>1, <1>3, <1>4 DEF HeapTypes
<1>10. HeapTypes'
  <2>1. hp_desc' \in [Desc -> [free_list : Seq(BlockSet), lock : HeapThread \cup {NoThread}]]
    BY <1>1, <1>3, <1>4 DEF HeapTypes
  <2> QED
    BY <1>1, <1>3, <1>7, <2>1 DEF HeapTypes
<1>11. Shape' /\ (\A p : Home(p)' <=> Home(p)) /\ (\A p : Extent(p)' = Extent(p))
  BY <1>1, <1>3, <1>8, SameShape
<1>12. ThreadInv(t)'
  BY <1>1, <1>3, <1>5, <1>9 DEF ThreadInv, Asking, Mine
<1>13. hp_pc'[t].at # "give"
  BY <1>5
<1>14. \A u \in HeapThread : \A e \in Desc : hp_desc[e].lock = u => hp_desc'[e] = hp_desc[e]
  BY <1>4, <1>8
<1> QED
  BY <1>3, <1>5, <1>10, <1>11, <1>12, <1>13, <1>14, StepKeeps

LEMMA BlockRange ==
    ASSUME NEW p \in Page, NEW n \in Nat \ {0}, NEW S, S = {<<p, i>> : i \in 0 .. n - 1}
    PROVE  /\ \A b : b \in S <=> b \in BlockSet /\ b[1] = p /\ b[2] < n
           /\ IsFiniteSet(S) /\ Cardinality(S) = n
<1>1. ASSUME NEW b PROVE b \in S <=> b \in BlockSet /\ b[1] = p /\ b[2] < n
  BY DEF BlockSet
<1>2. IsFiniteSet(0 .. n - 1) /\ Cardinality(0 .. n - 1) = n
  <2>1. Cardinality(0 .. n - 1) = IF 0 > n - 1 THEN 0 ELSE (n - 1) - 0 + 1
    BY FS_Interval
  <2> QED
    BY <2>1, FS_Interval
<1>3. IsFiniteSet(S) /\ Cardinality(S) = n
  <2>1. PICK f : f = [i \in 0 .. n - 1 |-> <<p, i>>]
    OBVIOUS
  <2>2. f \in Bijection(0 .. n - 1, S)
    <3>1. f \in [0 .. n - 1 -> S]
      BY <2>1
    <3>2. \A i, j \in 0 .. n - 1 : f[i] = f[j] => i = j
      BY <2>1
    <3>3. \A b \in S : \E i \in 0 .. n - 1 : f[i] = b
      BY <2>1
    <3> QED
      BY <3>1, <3>2, <3>3 DEF Bijection, Injection, Surjection, IsInjective
  <2>3. ExistsBijection(0 .. n - 1, S)
    BY <2>2 DEF ExistsBijection
  <2> QED
    BY <1>2, <2>3, FS_Bijection
<1> QED
  BY <1>1, <1>3

LEMMA BlocksAt ==
    ASSUME HeapTypes, NEW p \in Page, hp_arena[p].desc # 0
    PROVE  /\ \A b : b \in Blocks(p) <=> b \in BlockSet /\ b[1] = p /\ b[2] < blocks_per_arena(hp_arena[p].desc)
           /\ IsFiniteSet(Blocks(p)) /\ Cardinality(Blocks(p)) = blocks_per_arena(hp_arena[p].desc)
           /\ IsFiniteSet(FreeIn(p)) /\ Cardinality(FreeIn(p)) \in Nat
<1>1. PICK n : n = blocks_per_arena(hp_arena[p].desc)
  OBVIOUS
<1>2. n \in Nat \ {0}
  BY <1>1, ArenaAt, ArenaBlocks
<1>3. Blocks(p) = {<<p, i>> : i \in 0 .. n - 1}
  BY <1>1 DEF Blocks
<1>4. /\ \A b : b \in Blocks(p) <=> b \in BlockSet /\ b[1] = p /\ b[2] < n
      /\ IsFiniteSet(Blocks(p)) /\ Cardinality(Blocks(p)) = n
  BY <1>2, <1>3, BlockRange
<1>5. FreeIn(p) \subseteq Blocks(p)
  BY DEF FreeIn
<1>6. IsFiniteSet(FreeIn(p)) /\ Cardinality(FreeIn(p)) \in Nat
  <2>1. IsFiniteSet(FreeIn(p))
    BY <1>4, <1>5, FS_Subset
  <2> QED
    BY <2>1, FS_CardinalityType
<1> QED
  BY <1>1, <1>4, <1>6

\* Blocks that are owned or listed.
LEMMA BlockKinds ==
    ASSUME HeapTypes, NEW b
    PROVE  /\ Owned(b) => b \in BlockSet
           /\ InList(b) => b \in BlockSet
           /\ b \in BlockSet => b = <<b[1], b[2]>> /\ b[1] \in Page /\ b[2] \in Nat
<1>1. Owned(b) => b \in BlockSet
  BY DEF Owned, HeapTypes
<1>2. InList(b) => b \in BlockSet
  <2>1. SUFFICES ASSUME NEW d \in Desc, OnList(b, hp_desc[d].free_list) PROVE b \in BlockSet
    BY DEF InList
  <2>2. hp_desc[d].free_list \in Seq(BlockSet)
    BY DescAt
  <2> QED
    BY <2>1, <2>2 DEF OnList
<1>3. b \in BlockSet => b = <<b[1], b[2]>> /\ b[1] \in Page /\ b[2] \in Nat
  BY DEF BlockSet
<1> QED
  BY <1>1, <1>2, <1>3

\* malloc () takes the first block of a list.
LEMMA TakeKeeps ==
    ASSUME HeapInv, NEW t \in HeapThread, malloc_desc(t), hp_desc[hp_pc[t].desc].free_list # <<>>
    PROVE  HeapInv'
<1>1. HeapTypes /\ Shape /\ GiveInv /\ ThreadInv(t)
  BY DEF HeapInv
<1>2. PICK d : d = hp_pc[t].desc
  OBVIOUS
<1>3. PICK list : list = hp_desc[d].free_list
  OBVIOUS
<1>4. PICK b : b = Head(list)
  OBVIOUS
<1>5. PICK p : p = b[1]
  OBVIOUS
<1>6. /\ hp_pc[t].at = "desc" /\ hp_desc[d].lock = NoThread /\ list # <<>>
      /\ hp_desc' = [hp_desc EXCEPT ![d].free_list = Tail(@)]
      /\ hp_arena' = [hp_arena EXCEPT ![p].free_cnt = @ - 1]
      /\ hp_held' = hp_held \cup {<<t, b>>} /\ returns(t, TRUE)
      /\ UNCHANGED <<hp_map, hp_pool>>
  BY <1>2, <1>3, <1>4, <1>5 DEF malloc_desc, gives
<1>7. /\ d \in Desc /\ d # 0 /\ DOMAIN hp_desc = Desc /\ hp_desc[d].lock \notin HeapThread
      /\ list \in Seq(BlockSet) /\ NoDup(list)
  BY <1>1, <1>2, <1>3, <1>6, PcAt, DescAt, HeapAssumption DEF ThreadInv, Shape, ListInv
<1>8. /\ NoDup(Tail(list)) /\ b \in BlockSet /\ OnList(b, list)
      /\ \A x : OnList(x, Tail(list)) <=> OnList(x, list) /\ x # b
  BY <1>4, <1>6, <1>7, ListTail
<1>9. Tail(list) \in Seq(BlockSet)
  BY <1>6, <1>7
<1>10. /\ p \in Page /\ hp_arena[p].desc = d /\ b[2] < blocks_per_arena(d) /\ InList(b)
       /\ ~ Owned(b) /\ Home(p)
  <2>1. InList(b)
    BY <1>3, <1>7, <1>8 DEF InList
  <2>2. hp_arena[p].desc = d /\ b[2] < blocks_per_arena(d)
    BY <1>1, <1>3, <1>5, <1>7, <1>8 DEF Shape, ListInv
  <2>3. ~ Owned(b)
    BY <1>1, <1>8, <2>1 DEF Shape, OwnInv
  <2>4. p \in Page
    BY <1>5, <1>8 DEF BlockSet
  <2> QED
    BY <1>5, <1>8, <2>1, <2>2, <2>3, <2>4 DEF Home
<1>11. /\ hp_desc'[d].free_list = Tail(list) /\ hp_desc'[d].lock = hp_desc[d].lock
       /\ \A e \in Desc : e # d => hp_desc'[e] = hp_desc[e]
  <2>1. hp_desc[d] \in [free_list : Seq(BlockSet), lock : HeapThread \cup {NoThread}]
    BY <1>1, <1>7, DescAt
  <2> QED
    BY <1>3, <1>6, <1>7, <2>1
<1>12. /\ \A q \in Page : hp_arena'[q].desc = hp_arena[q].desc
       /\ \A q \in Page : q # p => hp_arena'[q] = hp_arena[q]
       /\ hp_arena'[p].free_cnt = hp_arena[p].free_cnt - 1
  <2>1. \A q \in Page : hp_arena[q] \in [desc : Desc \cup {0}, free_cnt : Int] /\ DOMAIN hp_arena = Page
    BY <1>1, ArenaAt
  <2> QED
    BY <1>6, <1>10, <2>1
<1>13. /\ \A x : InList(x)' <=> InList(x) /\ x # b
       /\ \A x : Owned(x)' <=> Owned(x) \/ x = b
       /\ \A q : Home(q)' <=> Home(q)
  <2>1. ASSUME NEW x PROVE InList(x)' <=> InList(x) /\ x # b
    <3>1. \A e \in Desc : e # d => ~ OnList(b, hp_desc[e].free_list)
      BY <1>1, <1>8, <1>5, <1>10 DEF Shape, ListInv
    <3>2. OnList(x, hp_desc'[d].free_list) <=> OnList(x, hp_desc[d].free_list) /\ x # b
      BY <1>3, <1>8, <1>11
    <3>3. \A e \in Desc : e # d => (OnList(x, hp_desc'[e].free_list) <=> OnList(x, hp_desc[e].free_list))
      BY <1>11
    <3> QED
      BY <1>7, <3>1, <3>2, <3>3 DEF InList
  <2>2. \A x : Owned(x)' <=> Owned(x) \/ x = b
    BY <1>6 DEF Owned
  <2>3. \A q : Home(q)' <=> Home(q)
    BY <1>10, <2>1, <2>2 DEF Home
  <2> QED
    BY <2>1, <2>2, <2>3
<1>14. /\ ThreadInv(t)' /\ hp_pc' \in [HeapThread -> Pc] /\ hp_pc'[t].at # "give"
       /\ \A u \in HeapThread : u # t => hp_pc'[u] = hp_pc[u]
  <2>1. \A c : <<t, c>> \in hp_held => <<t, c>> \in hp_held'
    BY <1>6
  <2> QED
    BY <1>6, <2>1, ReturnKeeps
<1>15. HeapTypes'
  <2>1. hp_desc' \in [Desc -> [free_list : Seq(BlockSet), lock : HeapThread \cup {NoThread}]]
    <3>1. hp_desc' = [hp_desc EXCEPT ![d].free_list = Tail(list)]
      BY <1>3, <1>6
    <3> QED
      BY <1>1, <1>7, <1>9, <3>1 DEF HeapTypes
  <2>2. hp_arena' \in [Page -> [desc : Desc \cup {0}, free_cnt : Int]]
    <3>1. hp_arena[p].free_cnt - 1 \in Int
      BY <1>1, <1>10, ArenaAt
    <3> QED
      BY <1>1, <1>6, <1>10, <3>1 DEF HeapTypes
  <2>3. hp_held' \subseteq HeapThread \X BlockSet /\ IsFiniteSet(hp_held')
    <3>1. IsFiniteSet(hp_held')
      BY <1>1, <1>6, FS_AddElement DEF HeapTypes
    <3> QED
      BY <1>1, <1>6, <1>8, <3>1 DEF HeapTypes
  <2> QED
    <3>1. /\ hp_map' \in [Page -> BOOLEAN] /\ hp_pool' \in HeapThread \cup {NoThread}
          /\ hp_pc' \in [HeapThread -> Pc]
      BY <1>1, <1>6, <1>14 DEF HeapTypes
    <3> QED
      BY ONLY <2>1, <2>2, <2>3, <3>1 DEF HeapTypes
<1>16. \A q \in Page : Extent(q)' = Extent(q)
  <2>1. ASSUME NEW q \in Page PROVE Extent(q)' = Extent(q)
    <3>1. CASE q = p
      BY <1>7, <1>10, <1>12, <3>1 DEF Extent
    <3>2. CASE q # p
      BY <1>12, <3>2 DEF Extent
    <3> QED
      BY <3>1, <3>2
  <2> QED
    BY <2>1
<1>17. OwnInv'
  <2>1. ASSUME NEW u \in HeapThread, NEW v \in HeapThread, NEW c \in BlockSet,
               <<u, c>> \in hp_held', <<v, c>> \in hp_held'
        PROVE  u = v
    <3>1. CASE c = b
      BY <1>6, <1>10, <2>1, <3>1 DEF Owned
    <3>2. CASE c # b
      BY <1>1, <1>6, <2>1, <3>2 DEF Shape, OwnInv
    <3> QED
      BY <3>1, <3>2
  <2>2. ASSUME NEW c \in BlockSet, Owned(c)'
        PROVE  /\ ~ InList(c)'
               /\ hp_arena'[c[1]].desc = 0 => c[2] = 0 /\ hp_arena'[c[1]].free_cnt >= 1
               /\ hp_arena'[c[1]].desc # 0 => c[2] < blocks_per_arena(hp_arena'[c[1]].desc)
    <3>1. c[1] \in Page /\ hp_arena'[c[1]].desc = hp_arena[c[1]].desc
      BY <1>12 DEF BlockSet
    <3>2. CASE c = b
      BY <1>5, <1>7, <1>10, <1>13, <3>1, <3>2
    <3>3. CASE c # b
      <4>1. Owned(c)
        BY <1>13, <2>2, <3>3
      <4>2. c[1] = p => hp_arena[c[1]].desc # 0
        BY <1>7, <1>10
      <4>3. c[1] # p => hp_arena'[c[1]] = hp_arena[c[1]]
        BY <1>12, <3>1
      <4> QED
        BY <1>1, <1>13, <3>1, <4>1, <4>2, <4>3 DEF Shape, OwnInv
    <3> QED
      BY <3>2, <3>3
  <2> QED
    BY <2>1, <2>2 DEF OwnInv
<1>18. ListInv'
  <2>1. ASSUME NEW e \in Desc
        PROVE  /\ NoDup(hp_desc'[e].free_list)
               /\ \A c \in BlockSet :
                     OnList(c, hp_desc'[e].free_list) => hp_arena'[c[1]].desc = e /\ c[2] < blocks_per_arena(e)
    <3>1. NoDup(hp_desc'[e].free_list)
      BY <1>1, <1>8, <1>11 DEF Shape, ListInv
    <3>2. \A c : OnList(c, hp_desc'[e].free_list) => OnList(c, hp_desc[e].free_list)
      BY <1>3, <1>8, <1>11
    <3>3. \A c \in BlockSet : c[1] \in Page
      BY DEF BlockSet
    <3> QED
      BY <1>1, <1>12, <3>1, <3>2, <3>3 DEF Shape, ListInv
  <2> QED
    BY <2>1 DEF ListInv
<1>19. ArenaInv'
  <2>1. ASSUME NEW q \in Page, Home(q)', hp_arena'[q].desc # 0
        PROVE  /\ \A c \in Blocks(q)' : Owned(c)' \/ InList(c)'
               /\ hp_arena'[q].free_cnt = Cardinality(FreeIn(q)')
    <3>1. Home(q) /\ hp_arena[q].desc # 0 /\ Blocks(q)' = Blocks(q)
      BY <1>12, <1>13, <2>1 DEF Blocks
    <3>2. (\A c \in Blocks(q) : Owned(c) \/ InList(c)) /\ hp_arena[q].free_cnt = Cardinality(FreeIn(q))
      BY <1>1, <3>1 DEF Shape, ArenaInv
    <3>3. FreeIn(q)' = FreeIn(q) \ {b}
      BY <1>13, <3>1 DEF FreeIn
    <3>4. CASE q = p
      <4>1. b \in FreeIn(q)
        BY <1>1, <1>5, <1>8, <1>10, <3>1, <3>4, BlocksAt DEF FreeIn
      <4>2. IsFiniteSet(FreeIn(q))
        BY <1>1, <3>1, BlocksAt
      <4>3. Cardinality(FreeIn(q) \ {b}) = Cardinality(FreeIn(q)) - 1
        BY <4>1, <4>2, FS_RemoveElement
      <4> QED
        BY <1>12, <1>13, <3>1, <3>2, <3>3, <3>4, <4>3
    <3>5. CASE q # p
      <4>1. b \notin FreeIn(q)
        BY <1>1, <1>5, <3>1, <3>5, BlocksAt DEF FreeIn
      <4>2. FreeIn(q)' = FreeIn(q) /\ hp_arena'[q] = hp_arena[q]
        BY <1>12, <3>3, <3>5, <4>1
      <4> QED
        BY <1>13, <3>1, <3>2, <4>2
    <3> QED
      BY <3>4, <3>5
  <2> QED
    BY <2>1 DEF ArenaInv
<1>20. PageInv'
  BY <1>1, <1>6, <1>13, <1>16 DEF Shape, PageInv
<1>21. Shape'
  BY <1>17, <1>18, <1>19, <1>20 DEF Shape
<1>22. \A u \in HeapThread : \A e \in Desc : hp_desc[e].lock = u => hp_desc'[e] = hp_desc[e]
  BY <1>7, <1>11
<1> QED
  BY <1>6, <1>13, <1>14, <1>15, <1>16, <1>21, <1>22, StepKeeps

LEMMA HomeAt ==
    ASSUME HeapTypes, Shape, NEW p \in Page, Home(p)
    PROVE  /\ p \in Extent(p) /\ \A i \in Extent(p) : i \in Page /\ hp_map[i]
           /\ hp_arena[p].desc = 0 => hp_arena[p].free_cnt >= 1 /\ Owned(<<p, 0>>)
<1>1. PICK b \in BlockSet : b[1] = p /\ (Owned(b) \/ InList(b))
  BY DEF Home
<1>2. b = <<p, b[2]>>
  BY <1>1 DEF BlockSet
<1>3. CASE hp_arena[p].desc = 0
  <2>1. ~ InList(b)
    <3>1. \A d \in Desc : ~ OnList(b, hp_desc[d].free_list)
      BY <1>1, <1>3, ArenaBlocks DEF Shape, ListInv
    <3> QED
      BY <3>1 DEF InList
  <2>2. Owned(b)
    BY <1>1, <2>1
  <2>3. b[2] = 0 /\ hp_arena[p].free_cnt >= 1
    BY <1>1, <1>3, <2>2 DEF Shape, OwnInv
  <2>4. p \in p .. p + hp_arena[p].free_cnt - 1
    BY <2>3, ArenaAt
  <2>5. p \in Extent(p)
    BY <1>3, <2>4 DEF Extent
  <2>6. Owned(<<p, 0>>)
    BY <1>2, <2>2, <2>3
  <2> QED
    BY <2>3, <2>5, <2>6 DEF Shape, PageInv
<1>4. CASE hp_arena[p].desc # 0
  BY <1>4 DEF Extent, Shape, PageInv
<1> QED
  BY <1>3, <1>4

LEMMA HomeOf ==
    ASSUME HeapTypes, NEW b, Owned(b) \/ InList(b)
    PROVE  b \in BlockSet /\ b[1] \in Page /\ Home(b[1])
<1>1. b \in BlockSet /\ b[1] \in Page
  BY BlockKinds
<1> QED
  BY <1>1 DEF Home

\* The blocks of an arena after its first.
BlocksFrom(q, p, n) ==
    /\ q \in Seq(BlockSet) /\ NoDup(q)
    /\ \A x : OnList(x, q) <=> x \in BlockSet /\ x[1] = p /\ x[2] # 0 /\ x[2] < n

LEMMA NewBlocks ==
    ASSUME NEW p \in Page, NEW n \in Nat \ {0}, NEW q, q = [i \in 1 .. n - 1 |-> <<p, i>>]
    PROVE  BlocksFrom(q, p, n)
<1>1. n - 1 \in Nat /\ \A i \in 1 .. n - 1 : <<p, i>> \in BlockSet
  BY DEF BlockSet
<1>2. q \in Seq(BlockSet) /\ Len(q) = n - 1
  BY <1>1
<1>3. NoDup(q)
  BY <1>2 DEF NoDup
<1>4. ASSUME NEW x PROVE OnList(x, q) <=> x \in BlockSet /\ x[1] = p /\ x[2] # 0 /\ x[2] < n
  <2>1. OnList(x, q) <=> \E i \in 1 .. n - 1 : x = <<p, i>>
    BY <1>2 DEF OnList
  <2>2. ASSUME NEW i \in 1 .. n - 1, x = <<p, i>> PROVE x \in BlockSet /\ x[1] = p /\ x[2] # 0 /\ x[2] < n
    BY <1>1, <2>2
  <2>3. ASSUME x \in BlockSet, x[1] = p, x[2] # 0, x[2] < n PROVE \E i \in 1 .. n - 1 : x = <<p, i>>
    <3>1. x = <<p, x[2]>> /\ x[2] \in Nat
      BY <2>3 DEF BlockSet
    <3>2. x[2] \in 1 .. n - 1
      BY <2>3, <3>1
    <3> QED
      BY <3>1, <3>2
  <2> QED
    BY <2>1, <2>2, <2>3
<1> QED
  BY <1>2, <1>3, <1>4 DEF BlocksFrom

\* palloc_get_multiple () marks the pages; a big block or a new arena.
LEMMA FlipKeeps ==
    ASSUME HeapInv, NEW t \in HeapThread, palloc_flip(t)
    PROVE  HeapInv'
<1>1. HeapTypes /\ Shape /\ GiveInv /\ ThreadInv(t)
  BY DEF HeapInv
<1>2. PICK d : d = hp_pc[t].desc
  OBVIOUS
<1>3. PICK idx : idx = hp_pc[t].idx
  OBVIOUS
<1>4. PICK cnt : cnt = hp_pc[t].cnt
  OBVIOUS
<1>5. PICK n : n = IF d = 0 THEN 1 ELSE blocks_per_arena(d)
  OBVIOUS
<1>6. PICK new : new = [i \in 1 .. n - 1 |-> <<idx, i>>]
  OBVIOUS
<1>7. /\ d \in Desc \cup {0} /\ idx \in Nat /\ cnt \in Nat /\ cnt >= 1 /\ n \in Nat \ {0}
      /\ hp_pc[t].at = "flip" /\ Asking(t) /\ Found(t) /\ 0 \notin Desc
  BY <1>1, <1>2, <1>3, <1>4, <1>5, PcAt, ArenaBlocks DEF ThreadInv, palloc_flip, Asking
<1>8. /\ hp_pool = t /\ Span(t) = idx .. idx + cnt - 1 /\ idx \in Span(t)
      /\ \A i \in Span(t) : i \in Page /\ ~ hp_map[i]
  BY <1>3, <1>4, <1>7 DEF Found, Span
<1>9. idx \in Page
  BY <1>8
<1>10. d # 0 => cnt = 1 /\ hp_desc[d].lock = t /\ hp_desc[d].free_list = <<>>
  BY <1>2, <1>4, <1>7 DEF Asking, Mine
<1>11. /\ hp_map' = bitmap_set_multiple(hp_map, idx, cnt, TRUE) /\ hp_pool' = NoThread
       /\ hp_arena' = [hp_arena EXCEPT ![idx] = [desc |-> d, free_cnt |-> IF d = 0 THEN cnt ELSE n - 1]]
       /\ hp_held' = hp_held \cup {<<t, <<idx, 0>>>>} /\ returns(t, TRUE)
  BY <1>2, <1>3, <1>4, <1>5 DEF palloc_flip, gives
<1>12. hp_desc' = IF d = 0 THEN hp_desc ELSE [hp_desc EXCEPT ![d] = [lock |-> NoThread, free_list |-> new]]
  <2>0. n \in Nat \ {0}
    BY <1>7
  <2>1. new \in Seq(BlockSet)
    <3>1. BlocksFrom(new, idx, n)
      BY ONLY <1>6, <1>9, <2>0, NewBlocks
    <3> QED
      BY <3>1 DEF BlocksFrom
  <2>2. <<>> \o new = new
    BY <2>1
  <2>3. CASE d = 0
    BY <1>2, <2>3 DEF palloc_flip
  <2>4. CASE d # 0
    BY <1>2, <1>3, <1>5, <1>6, <1>10, <2>2, <2>4 DEF palloc_flip
  <2> QED
    BY <2>3, <2>4
<1>13. /\ new \in Seq(BlockSet) /\ NoDup(new)
       /\ \A x : OnList(x, new) <=> x \in BlockSet /\ x[1] = idx /\ x[2] # 0 /\ x[2] < n
  <2>1. n \in Nat \ {0}
    BY <1>7
  <2>2. BlocksFrom(new, idx, n)
    BY ONLY <1>6, <1>9, <2>1, NewBlocks
  <2> QED
    BY <2>2 DEF BlocksFrom
<1>14. /\ d # 0 => hp_desc'[d] = [lock |-> NoThread, free_list |-> new]
       /\ \A e \in Desc : e # d => hp_desc'[e] = hp_desc[e]
  BY <1>1, <1>7, <1>12 DEF HeapTypes
<1>15. /\ hp_arena'[idx].desc = d /\ hp_arena'[idx].free_cnt = IF d = 0 THEN cnt ELSE n - 1
       /\ \A p \in Page : p # idx => hp_arena'[p] = hp_arena[p]
  BY <1>1, <1>9, <1>11 DEF HeapTypes
<1>16. \A i \in Page : hp_map'[i] = (IF i \in Span(t) THEN TRUE ELSE hp_map[i])
  BY <1>1, <1>8, <1>11 DEF HeapTypes, bitmap_set_multiple
<1>17. ~ Home(idx)
  BY <1>1, <1>8, <1>9, HomeAt
<1>18. \A x : InList(x)' <=> InList(x) \/ (d # 0 /\ OnList(x, new))
  <2>1. ASSUME NEW x PROVE InList(x)' <=> InList(x) \/ (d # 0 /\ OnList(x, new))
    <3>1. \A e \in Desc : e # d => (OnList(x, hp_desc'[e].free_list) <=> OnList(x, hp_desc[e].free_list))
      BY <1>14
    <3>2. d # 0 => ~ OnList(x, hp_desc[d].free_list)
      BY <1>10, ListEmpty
    <3>3. d # 0 => (OnList(x, hp_desc'[d].free_list) <=> OnList(x, new))
      BY <1>14
    <3>4. CASE d = 0
      <4>1. \A e \in Desc : e # d
        BY <1>7, <3>4
      <4> QED
        BY <3>1, <3>4, <4>1 DEF InList
    <3>5. CASE d # 0
      <4>1. d \in Desc
        BY <1>7, <3>5
      <4> QED
        BY <3>1, <3>2, <3>3, <3>5, <4>1 DEF InList
    <3> QED
      BY <3>4, <3>5
  <2> QED
    BY <2>1
<1>19. \A x : Owned(x)' <=> Owned(x) \/ x = <<idx, 0>>
  BY <1>11 DEF Owned
<1>20. \A p : Home(p)' <=> Home(p) \/ p = idx
  <2>1. <<idx, 0>> \in BlockSet
    BY <1>9 DEF BlockSet
  <2>2. ASSUME NEW p, Home(p) PROVE Home(p)'
    <3>1. PICK b \in BlockSet : b[1] = p /\ (Owned(b) \/ InList(b))
      BY <2>2 DEF Home
    <3>2. Owned(b)' \/ InList(b)'
      BY <1>18, <1>19, <3>1
    <3> QED
      BY <3>1, <3>2 DEF Home
  <2>3. Home(idx)'
    BY <1>19, <2>1 DEF Home
  <2>4. ASSUME NEW p, Home(p)', p # idx PROVE Home(p)
    <3>1. PICK b \in BlockSet : b[1] = p /\ (Owned(b)' \/ InList(b)')
      BY <2>4 DEF Home
    <3>2. b # <<idx, 0>> /\ ~ OnList(b, new)
      BY <1>13, <2>4, <3>1
    <3> QED
      BY <1>18, <1>19, <3>1, <3>2 DEF Home
  <2> QED
    BY <2>2, <2>3, <2>4
<1>21. /\ \A p \in Page : p # idx => Extent(p)' = Extent(p)
       /\ Extent(idx)' = Span(t)
  <2>1. \A p \in Page : p # idx => Extent(p)' = Extent(p)
    BY <1>15 DEF Extent
  <2>2. CASE d = 0
    BY <1>8, <1>15, <2>1, <2>2 DEF Extent
  <2>3. CASE d # 0
    <3>1. Span(t) = {idx}
      BY <1>7, <1>8, <1>10, <2>3
    <3> QED
      BY <1>15, <2>1, <2>3, <3>1 DEF Extent
  <2> QED
    BY <2>2, <2>3
<1>22. \A x : Owned(x) \/ InList(x) => x \in BlockSet /\ x[1] \in Page /\ x[1] # idx /\ Home(x[1])
  BY <1>1, <1>17, HomeOf
<1>23. /\ ThreadInv(t)' /\ hp_pc' \in [HeapThread -> Pc] /\ hp_pc'[t].at # "give"
       /\ \A u \in HeapThread : u # t => hp_pc'[u] = hp_pc[u]
  <2>1. \A c : <<t, c>> \in hp_held => <<t, c>> \in hp_held'
    BY <1>11
  <2> QED
    BY <1>11, <2>1, ReturnKeeps
<1>24. HeapTypes'
  <2>1. hp_desc' \in [Desc -> [free_list : Seq(BlockSet), lock : HeapThread \cup {NoThread}]]
    <3>1. CASE d = 0
      BY <1>1, <1>12, <3>1 DEF HeapTypes
    <3>2. CASE d # 0
      <4>1. hp_desc' = [hp_desc EXCEPT ![d] = [lock |-> NoThread, free_list |-> new]]
        BY <1>12, <3>2
      <4>2. [lock |-> NoThread, free_list |-> new] \in [free_list : Seq(BlockSet), lock : HeapThread \cup {NoThread}]
        BY <1>13
      <4> QED
        BY <1>1, <1>7, <4>1, <4>2 DEF HeapTypes
    <3> QED
      BY <3>1, <3>2
  <2>2. hp_arena' \in [Page -> [desc : Desc \cup {0}, free_cnt : Int]]
    <3>1. [desc |-> d, free_cnt |-> IF d = 0 THEN cnt ELSE n - 1] \in [desc : Desc \cup {0}, free_cnt : Int]
      BY <1>7
    <3> QED
      BY <1>1, <1>9, <1>11, <3>1 DEF HeapTypes
  <2>3. hp_held' \subseteq HeapThread \X BlockSet /\ IsFiniteSet(hp_held')
    <3>1. IsFiniteSet(hp_held')
      BY <1>1, <1>11, FS_AddElement DEF HeapTypes
    <3>2. <<t, <<idx, 0>>>> \in HeapThread \X BlockSet
      BY <1>9 DEF BlockSet
    <3>3. hp_held \subseteq HeapThread \X BlockSet
      BY <1>1 DEF HeapTypes
    <3> QED
      BY ONLY <1>11, <3>1, <3>2, <3>3
  <2>4. hp_map' \in [Page -> BOOLEAN]
    BY <1>1, <1>11 DEF HeapTypes, bitmap_set_multiple
  <2> QED
    BY ONLY <1>11, <1>23, <2>1, <2>2, <2>3, <2>4 DEF HeapTypes
<1>25. OwnInv'
  <2>1. ASSUME NEW u \in HeapThread, NEW v \in HeapThread, NEW c \in BlockSet,
               <<u, c>> \in hp_held', <<v, c>> \in hp_held'
        PROVE  u = v
    <3>1. CASE c = <<idx, 0>>
      <4>1. ~ Owned(c)
        BY <1>22, <3>1
      <4> QED
        BY <1>11, <2>1, <4>1 DEF Owned
    <3>2. CASE c # <<idx, 0>>
      BY <1>1, <1>11, <2>1, <3>2 DEF Shape, OwnInv
    <3> QED
      BY <3>1, <3>2
  <2>2. ASSUME NEW c \in BlockSet, Owned(c)'
        PROVE  /\ ~ InList(c)'
               /\ hp_arena'[c[1]].desc = 0 => c[2] = 0 /\ hp_arena'[c[1]].free_cnt >= 1
               /\ hp_arena'[c[1]].desc # 0 => c[2] < blocks_per_arena(hp_arena'[c[1]].desc)
    <3>1. CASE c = <<idx, 0>>
      <4>1. ~ InList(c) /\ ~ OnList(c, new) /\ c[1] = idx /\ c[2] = 0
        BY <1>13, <1>22, <3>1
      <4>2. ~ InList(c)'
        BY <1>18, <4>1
      <4> QED
        BY <1>5, <1>7, <1>15, <4>1, <4>2
    <3>2. CASE c # <<idx, 0>>
      <4>1. Owned(c) /\ c[1] # idx /\ c[1] \in Page
        BY <1>19, <1>22, <2>2, <3>2
      <4>2. ~ InList(c)'
        BY <1>1, <1>13, <1>18, <4>1 DEF Shape, OwnInv
      <4> QED
        BY <1>1, <1>15, <4>1, <4>2 DEF Shape, OwnInv
    <3> QED
      BY <3>1, <3>2
  <2> QED
    BY <2>1, <2>2 DEF OwnInv
<1>26. ListInv'
  <2>1. ASSUME NEW e \in Desc
        PROVE  /\ NoDup(hp_desc'[e].free_list)
               /\ \A c \in BlockSet :
                     OnList(c, hp_desc'[e].free_list) => hp_arena'[c[1]].desc = e /\ c[2] < blocks_per_arena(e)
    <3>1. CASE e = d
      <4>1. hp_desc'[e].free_list = new /\ d # 0
        BY <1>7, <1>14, <3>1
      <4> QED
        BY <1>5, <1>13, <1>15, <3>1, <4>1
    <3>2. CASE e # d
      <4>1. hp_desc'[e].free_list = hp_desc[e].free_list
        BY <1>14, <3>2
      <4>2. ASSUME NEW c \in BlockSet, OnList(c, hp_desc[e].free_list)
            PROVE  hp_arena'[c[1]].desc = e /\ c[2] < blocks_per_arena(e)
        <5>1. c[1] # idx /\ c[1] \in Page
          BY <1>22, <4>2 DEF InList
        <5> QED
          BY <1>1, <1>15, <4>2, <5>1 DEF Shape, ListInv
      <4>3. NoDup(hp_desc[e].free_list)
        BY <1>1 DEF Shape, ListInv
      <4> QED
        BY <4>1, <4>2, <4>3
    <3> QED
      BY <3>1, <3>2
  <2> QED
    BY <2>1 DEF ListInv
<1>27. ArenaInv'
  <2>1. ASSUME NEW q \in Page, Home(q)', hp_arena'[q].desc # 0
        PROVE  /\ \A c \in Blocks(q)' : Owned(c)' \/ InList(c)'
               /\ hp_arena'[q].free_cnt = Cardinality(FreeIn(q)')
    <3>1. CASE q = idx
      <4>1. d # 0 /\ d \in Desc
        BY <1>7, <1>15, <2>1, <3>1
      <4>2. /\ \A b : b \in Blocks(q)' <=> b \in BlockSet /\ b[1] = q /\ b[2] < n
            /\ IsFiniteSet(Blocks(q)') /\ Cardinality(Blocks(q)') = n
        <5>1. hp_arena'[q].desc = d /\ n = blocks_per_arena(d)
          BY <1>5, <1>15, <3>1, <4>1
        <5>2. Blocks(q)' = {<<q, i>> : i \in 0 .. n - 1}
          BY <5>1 DEF Blocks
        <5> QED
          BY <1>7, <5>2, BlockRange
      <4>3. FreeIn(q)' = Blocks(q)' \ {<<idx, 0>>}
        <5>1. ASSUME NEW c \in Blocks(q)' PROVE InList(c)' <=> c # <<idx, 0>>
          <6>1. c \in BlockSet /\ c[1] = idx /\ c[2] < n /\ c = <<c[1], c[2]>> /\ c[2] \in Nat
            BY <3>1, <4>2, <5>1 DEF BlockSet
          <6>2. ~ InList(c)
            BY <1>22, <6>1
          <6>3. OnList(c, new) <=> c[2] # 0
            BY <1>13, <6>1
          <6>4. c[2] # 0 <=> c # <<idx, 0>>
            BY <6>1
          <6> QED
            BY <1>18, <4>1, <6>2, <6>3, <6>4
        <5> QED
          BY <5>1 DEF FreeIn
      <4>4. <<idx, 0>> \in Blocks(q)'
        BY <1>7, <1>9, <3>1, <4>2 DEF BlockSet
      <4>5. Cardinality(FreeIn(q)') = n - 1
        <5>1. Cardinality(Blocks(q)' \ {<<idx, 0>>}) = Cardinality(Blocks(q)') - 1
          BY <4>2, <4>4, FS_RemoveElement
        <5> QED
          BY <4>2, <4>3, <5>1
      <4>6. \A c \in Blocks(q)' : Owned(c)' \/ InList(c)'
        <5>1. ASSUME NEW c \in Blocks(q)' PROVE Owned(c)' \/ InList(c)'
          <6>1. CASE c = <<idx, 0>>
            BY <1>19, <6>1
          <6>2. CASE c # <<idx, 0>>
            BY <4>3, <5>1, <6>2 DEF FreeIn
          <6> QED
            BY <6>1, <6>2
        <5> QED
          BY <5>1
      <4> QED
        BY <1>15, <3>1, <4>1, <4>5, <4>6
    <3>2. CASE q # idx
      <4>1. Home(q) /\ hp_arena'[q] = hp_arena[q]
        BY <1>15, <1>20, <2>1, <3>2
      <4>2. Blocks(q)' = Blocks(q) /\ hp_arena[q].desc # 0
        BY <2>1, <4>1 DEF Blocks
      <4>3. \A c \in Blocks(q) : c[1] = q
        BY DEF Blocks
      <4>4. ASSUME NEW c \in Blocks(q) PROVE InList(c)' <=> InList(c)
        <5>1. ~ OnList(c, new)
          BY <1>13, <3>2, <4>3
        <5> QED
          BY <1>18, <5>1
      <4>5. FreeIn(q)' = FreeIn(q)
        BY <4>2, <4>4 DEF FreeIn
      <4>6. (\A c \in Blocks(q) : Owned(c) \/ InList(c)) /\ hp_arena[q].free_cnt = Cardinality(FreeIn(q))
        BY <1>1, <4>1, <4>2 DEF Shape, ArenaInv
      <4>7. \A c \in Blocks(q)' : Owned(c)' \/ InList(c)'
        BY <1>18, <1>19, <4>2, <4>6
      <4> QED
        BY <4>1, <4>5, <4>6, <4>7
    <3> QED
      BY <3>1, <3>2
  <2> QED
    BY <2>1 DEF ArenaInv
<1>28. PageInv'
  <2>1. ASSUME NEW p \in Page, Home(p), p # idx PROVE Extent(p)' = Extent(p) /\ Extent(p) \cap Span(t) = {}
    BY <1>1, <1>8, <1>21, <2>1, HomeAt
  <2>2. ASSUME NEW p \in Page, NEW q \in Page, Home(p)', Home(q)', p # q PROVE Extent(p)' \cap Extent(q)' = {}
    <3>1. CASE p = idx
      BY <1>20, <1>21, <2>1, <2>2, <3>1
    <3>2. CASE q = idx
      BY <1>20, <1>21, <2>1, <2>2, <3>2
    <3>3. CASE p # idx /\ q # idx
      BY <1>1, <1>20, <2>1, <2>2, <3>3 DEF Shape, PageInv
    <3> QED
      BY <3>1, <3>2, <3>3
  <2>3. ASSUME NEW p \in Page, Home(p)', NEW i \in Extent(p)' PROVE i \in Page /\ hp_map'[i]
    <3>1. CASE p = idx
      BY <1>8, <1>16, <1>21, <2>3, <3>1
    <3>2. CASE p # idx
      <4>1. i \in Page /\ hp_map[i]
        BY <1>1, <1>20, <1>21, <2>3, <3>2, HomeAt
      <4> QED
        BY <1>16, <4>1
    <3> QED
      BY <3>1, <3>2
  <2> QED
    BY <2>2, <2>3 DEF PageInv
<1>29. Shape'
  BY <1>25, <1>26, <1>27, <1>28 DEF Shape
<1>30. ASSUME NEW u \in HeapThread, u # t
       PROVE  /\ \A b : <<u, b>> \in hp_held => <<u, b>> \in hp_held'
              /\ \A e \in Desc : hp_desc[e].lock = u => hp_desc'[e] = hp_desc[e]
              /\ hp_pool # u
  BY <1>7, <1>8, <1>10, <1>11, <1>14, <1>30
<1>31. ASSUME NEW u \in HeapThread, u # t, hp_pc[u].at = "give"
       PROVE  /\ \A i \in Span(u) : hp_map[i] => hp_map'[i]
              /\ \A p \in Page : Home(p)' => \/ Home(p) /\ Extent(p)' = Extent(p)
                                            \/ Extent(p)' \cap Span(u) = {}
  <2>1. \A i \in Span(u) : i \in Page /\ hp_map[i]
    BY <1>31 DEF HeapInv, ThreadInv, Giving
  <2>2. \A i \in Span(u) : hp_map'[i]
    BY <1>16, <2>1
  <2>3. Span(t) \cap Span(u) = {}
    BY <1>8, <2>1
  <2> QED
    BY <1>20, <1>21, <2>2, <2>3
<1> QED
  BY <1>23, <1>24, <1>29, <1>30, <1>31, StepKeeps

\* The block that a thread frees.
LEMMA FreedBlock ==
    ASSUME HeapTypes, Shape, NEW t \in HeapThread, NEW b, <<t, b>> \in hp_held
    PROVE  /\ b \in BlockSet /\ b[1] \in Page /\ Owned(b) /\ ~ InList(b) /\ Home(b[1])
           /\ \A u \in HeapThread : <<u, b>> \in hp_held => u = t
<1>1. Owned(b)
  BY DEF Owned
<1>2. b \in BlockSet /\ b[1] \in Page /\ Home(b[1])
  BY <1>1, HomeOf
<1> QED
  BY <1>1, <1>2 DEF Shape, OwnInv

\* A page is on its way back once nobody owns a block of it and none is on a list.
LEMMA LeaveKeeps ==
    ASSUME HeapInv, HeapTypes', NEW t \in HeapThread, NEW p \in Page, Home(p),
           NEW d \in Desc \cup {0}, NEW cnt \in Nat \ {0}, Extent(p) = p .. p + cnt - 1,
           d # 0 => cnt = 1 /\ hp_desc'[d].lock = t,
           hp_map' = hp_map, hp_pool' = hp_pool,
           hp_pc[t].at = "free",
           hp_pc'[t] = [at |-> "give", desc |-> d, cnt |-> cnt, idx |-> p, old |-> <<>>],
           \A u \in HeapThread : u # t => hp_pc'[u] = hp_pc[u],
           hp_held' \subseteq hp_held,
           \A u \in HeapThread : u # t => \A b : <<u, b>> \in hp_held => <<u, b>> \in hp_held',
           \A u \in HeapThread : u # t => \A e \in Desc : hp_desc[e].lock = u => hp_desc'[e] = hp_desc[e],
           \A q \in Page : q # p => hp_arena'[q] = hp_arena[q],
           \A x : Owned(x)' <=> Owned(x) /\ x[1] # p,
           \A x : InList(x)' <=> InList(x) /\ x[1] # p,
           \A e \in Desc : /\ NoDup(hp_desc'[e].free_list)
                           /\ \A x : OnList(x, hp_desc'[e].free_list) => OnList(x, hp_desc[e].free_list)
    PROVE  HeapInv'
<1>1. HeapTypes /\ Shape /\ GiveInv /\ \A u \in HeapThread : ThreadInv(u)
  BY DEF HeapInv
<1>2. /\ ~ Home(p)' /\ \A q \in Page : Home(q)' => Home(q) /\ q # p
  <2>1. ASSUME NEW q, Home(q)' PROVE Home(q) /\ q # p
    <3>1. PICK b \in BlockSet : b[1] = q /\ (Owned(b)' \/ InList(b)')
      BY <2>1 DEF Home
    <3> QED
      BY <3>1 DEF Home
  <2> QED
    BY <2>1
<1>3. \A q \in Page : q # p => Extent(q)' = Extent(q)
  BY DEF Extent
<1>4. OwnInv'
  <2>1. ASSUME NEW u \in HeapThread, NEW v \in HeapThread, NEW c \in BlockSet,
               <<u, c>> \in hp_held', <<v, c>> \in hp_held'
        PROVE  u = v
    BY <1>1, <2>1 DEF Shape, OwnInv
  <2>2. ASSUME NEW c \in BlockSet, Owned(c)'
        PROVE  /\ ~ InList(c)'
               /\ hp_arena'[c[1]].desc = 0 => c[2] = 0 /\ hp_arena'[c[1]].free_cnt >= 1
               /\ hp_arena'[c[1]].desc # 0 => c[2] < blocks_per_arena(hp_arena'[c[1]].desc)
    <3>1. c[1] \in Page /\ c[1] # p /\ Owned(c)
      BY <2>2 DEF BlockSet
    <3> QED
      BY <1>1, <3>1 DEF Shape, OwnInv
  <2> QED
    BY <2>1, <2>2 DEF OwnInv
<1>5. ListInv'
  <2>1. ASSUME NEW e \in Desc, NEW c \in BlockSet, OnList(c, hp_desc'[e].free_list)
        PROVE  hp_arena'[c[1]].desc = e /\ c[2] < blocks_per_arena(e)
    <3>1. InList(c)'
      BY <2>1 DEF InList
    <3>2. c[1] \in Page /\ c[1] # p
      BY <3>1 DEF BlockSet
    <3>3. OnList(c, hp_desc[e].free_list)
      BY <2>1
    <3>4. hp_arena[c[1]].desc = e /\ c[2] < blocks_per_arena(e)
      BY <1>1, <3>3 DEF Shape, ListInv
    <3> QED
      BY <3>2, <3>4
  <2> QED
    BY <2>1 DEF ListInv
<1>6. ArenaInv'
  <2>1. ASSUME NEW q \in Page, Home(q)', hp_arena'[q].desc # 0
        PROVE  /\ \A c \in Blocks(q)' : Owned(c)' \/ InList(c)'
               /\ hp_arena'[q].free_cnt = Cardinality(FreeIn(q)')
    <3>1. Home(q) /\ q # p /\ hp_arena'[q] = hp_arena[q]
      BY <1>2, <2>1
    <3>2. Blocks(q)' = Blocks(q) /\ \A c \in Blocks(q) : c[1] = q
      BY <3>1 DEF Blocks
    <3>3. FreeIn(q)' = FreeIn(q)
      BY <3>1, <3>2 DEF FreeIn
    <3>4. (\A c \in Blocks(q) : Owned(c) \/ InList(c)) /\ hp_arena[q].free_cnt = Cardinality(FreeIn(q))
      BY <1>1, <2>1, <3>1 DEF Shape, ArenaInv
    <3>5. \A c \in Blocks(q)' : Owned(c)' \/ InList(c)'
      BY <3>1, <3>2, <3>4
    <3> QED
      BY <3>1, <3>3, <3>4, <3>5
  <2> QED
    BY <2>1 DEF ArenaInv
<1>7. PageInv'
  BY <1>1, <1>2, <1>3 DEF Shape, PageInv
<1>8. Span(t)' = Extent(p)
  BY DEF Span
<1>9. ASSUME NEW u \in HeapThread, u # t PROVE ThreadInv(u)'
  BY <1>1, <1>2, <1>3, <1>9, OthersKeep
<1>10. ThreadInv(t)'
  <2>1. \A i \in Span(t)' : i \in Page /\ hp_map'[i]
    BY <1>1, <1>8, HomeAt
  <2>2. \A q \in Page : Home(q)' => Extent(q)' \cap Span(t)' = {}
    BY <1>1, <1>2, <1>3, <1>8 DEF Shape, PageInv
  <2>3. Giving(t)'
    BY <2>1, <2>2 DEF Giving, Mine
  <2> QED
    BY <2>3 DEF ThreadInv
<1>11. GiveInv'
  <2>1. \A u \in HeapThread : u # t => Span(u)' = Span(u)
    BY DEF Span
  <2>2. \A u \in HeapThread : u # t /\ hp_pc[u].at = "give" => Extent(p) \cap Span(u) = {}
    BY <1>1 DEF ThreadInv, Giving
  <2>3. ASSUME NEW u \in HeapThread, NEW v \in HeapThread, hp_pc'[u].at = "give", hp_pc'[v].at = "give", u # v
        PROVE  Span(u)' \cap Span(v)' = {}
    <3>1. CASE u = t
      BY <1>8, <2>1, <2>2, <2>3, <3>1
    <3>2. CASE v = t
      BY <1>8, <2>1, <2>2, <2>3, <3>2
    <3>3. CASE u # t /\ v # t
      BY <1>1, <2>1, <2>3, <3>3 DEF GiveInv
    <3> QED
      BY <3>1, <3>2, <3>3
  <2> QED
    BY <2>3 DEF GiveInv
<1>12. Shape'
  BY <1>4, <1>5, <1>6, <1>7 DEF Shape
<1> QED
  BY <1>9, <1>10, <1>11, <1>12 DEF HeapInv

\* free () of a big block.
LEMMA BigKeeps ==
    ASSUME HeapInv, NEW t \in HeapThread, free_big(t)
    PROVE  HeapInv'
<1>1. HeapTypes /\ Shape /\ ThreadInv(t)
  BY DEF HeapInv
<1>2. PICK b : b = hp_pc[t].old
  OBVIOUS
<1>3. PICK p : p = b[1]
  OBVIOUS
<1>4. PICK cnt : cnt = hp_arena[p].free_cnt
  OBVIOUS
<1>5. /\ hp_pc[t].at = "free" /\ hp_arena[p].desc = 0 /\ hp_held' = hp_held \ {<<t, <<p, 0>>>>}
      /\ hp_pc' = [hp_pc EXCEPT ![t] = [at |-> "give", desc |-> 0, cnt |-> cnt, idx |-> p, old |-> <<>>]]
      /\ UNCHANGED <<hp_map, hp_pool, hp_desc, hp_arena>>
  BY <1>2, <1>3, <1>4 DEF free_big
<1>6. <<t, b>> \in hp_held
  BY <1>1, <1>2, <1>5 DEF ThreadInv
<1>7. /\ b \in BlockSet /\ p \in Page /\ Owned(b) /\ Home(p)
      /\ \A u \in HeapThread : <<u, b>> \in hp_held => u = t
  BY <1>1, <1>3, <1>6, FreedBlock
<1>8. b[2] = 0 /\ cnt >= 1 /\ b = <<p, 0>> /\ p \in Nat
  <2>1. b[2] = 0 /\ cnt >= 1
    BY <1>1, <1>3, <1>4, <1>5, <1>7 DEF Shape, OwnInv
  <2> QED
    BY <1>1, <1>3, <1>7, <2>1, ArenaAt DEF BlockSet
<1>9. cnt \in Nat \ {0}
  BY <1>1, <1>4, <1>7, <1>8, ArenaAt
<1>10. Extent(p) = p .. p + cnt - 1
  BY <1>4, <1>5 DEF Extent
<1>11. \A x : Owned(x)' <=> Owned(x) /\ x[1] # p
  <2>1. ASSUME NEW x, Owned(x), x # b PROVE x[1] # p
    <3>1. x \in BlockSet /\ x[1] \in Page
      BY <1>1, <2>1, BlockKinds
    <3>2. x[1] = p => x[2] = 0
      BY <1>1, <1>5, <2>1, <3>1 DEF Shape, OwnInv
    <3> QED
      BY <1>8, <2>1, <3>1, <3>2 DEF BlockSet
  <2>2. \A x : Owned(x)' <=> Owned(x) /\ x # b
    BY <1>5, <1>7, <1>8 DEF Owned
  <2> QED
    BY <1>3, <2>1, <2>2
<1>12. \A x : InList(x)' <=> InList(x) /\ x[1] # p
  <2>1. \A x : InList(x)' <=> InList(x)
    BY <1>5 DEF InList
  <2>2. ASSUME NEW x, InList(x) PROVE x[1] # p
    <3>1. x \in BlockSet
      BY <1>1, <2>2, BlockKinds
    <3>2. hp_arena[x[1]].desc \in Desc
      BY <1>1, <2>2, <3>1 DEF InList, Shape, ListInv
    <3> QED
      BY <1>5, <3>2, ArenaBlocks
  <2> QED
    BY <2>1, <2>2
<1>13. /\ hp_pc'[t] = [at |-> "give", desc |-> 0, cnt |-> cnt, idx |-> p, old |-> <<>>]
       /\ \A u \in HeapThread : u # t => hp_pc'[u] = hp_pc[u]
  BY <1>1, <1>5, PcAt
<1>14. HeapTypes'
  <2>1. [at |-> "give", desc |-> 0, cnt |-> cnt, idx |-> p, old |-> <<>>] \in Pc
    BY <1>8, <1>9 DEF Pc
  <2>2. hp_pc' \in [HeapThread -> Pc]
    BY <1>1, <1>5, <2>1 DEF HeapTypes
  <2>3. hp_held' \subseteq HeapThread \X BlockSet /\ IsFiniteSet(hp_held')
    BY <1>1, <1>5, FS_RemoveElement DEF HeapTypes
  <2> QED
    BY <1>1, <1>5, <2>2, <2>3 DEF HeapTypes
<1>15. \A e \in Desc : NoDup(hp_desc[e].free_list)
  BY <1>1 DEF Shape, ListInv
<1>16. \A u \in HeapThread : u # t => \A c : <<u, c>> \in hp_held => <<u, c>> \in hp_held'
  BY <1>5
<1> QED
  BY <1>5, <1>7, <1>9, <1>10, <1>11, <1>12, <1>13, <1>14, <1>15, <1>16, LeaveKeeps

\* palloc_free_multiple ().
LEMMA ReleaseKeeps ==
    ASSUME HeapInv, NEW t \in HeapThread, palloc_free_multiple(t)
    PROVE  HeapInv'
<1>1. HeapTypes /\ Shape /\ GiveInv /\ ThreadInv(t)
  BY DEF HeapInv
<1>2. PICK d : d = hp_pc[t].desc
  OBVIOUS
<1>3. PICK idx : idx = hp_pc[t].idx
  OBVIOUS
<1>4. PICK cnt : cnt = hp_pc[t].cnt
  OBVIOUS
<1>5. /\ hp_pc[t].at = "give"
      /\ hp_map' = bitmap_set_multiple(hp_map, idx, cnt, FALSE)
      /\ hp_desc' = IF d = 0 THEN hp_desc ELSE [hp_desc EXCEPT ![d].lock = NoThread]
      /\ hp_arena' = [hp_arena EXCEPT ![idx] = [desc |-> 0, free_cnt |-> 0]]
      /\ hp_pc' = [hp_pc EXCEPT ![t] = HeapIdle]
      /\ UNCHANGED <<hp_pool, hp_held>>
  BY <1>2, <1>3, <1>4 DEF palloc_free_multiple
<1>6. /\ d \in Desc \cup {0} /\ idx \in Nat /\ cnt \in Nat /\ cnt >= 1 /\ Giving(t)
      /\ (d # 0 => hp_desc[d].lock = t)
  BY <1>1, <1>2, <1>3, <1>4, <1>5, PcAt DEF ThreadInv, Giving, Mine
<1>7. /\ Span(t) = idx .. idx + cnt - 1 /\ idx \in Span(t)
      /\ \A i \in Span(t) : i \in Page
      /\ \A p \in Page : Home(p) => Extent(p) \cap Span(t) = {}
  BY <1>3, <1>4, <1>6 DEF Giving, Span
<1>8. idx \in Page /\ ~ Home(idx)
  BY <1>1, <1>7, HomeAt
<1>9. /\ \A e \in Desc : hp_desc'[e].free_list = hp_desc[e].free_list
      /\ \A e \in Desc : e # d => hp_desc'[e] = hp_desc[e]
      /\ hp_desc' \in [Desc -> [free_list : Seq(BlockSet), lock : HeapThread \cup {NoThread}]]
  <2>1. CASE d = 0
    BY <1>1, <1>5, <2>1 DEF HeapTypes
  <2>2. CASE d # 0
    BY <1>1, <1>5, <1>6, <2>2 DEF HeapTypes
  <2> QED
    BY <2>1, <2>2
<1>10. \A i \in Page : hp_map'[i] = (IF i \in Span(t) THEN FALSE ELSE hp_map[i])
  BY <1>1, <1>5, <1>7 DEF HeapTypes, bitmap_set_multiple
<1>11. \A q \in Page : q # idx => hp_arena'[q] = hp_arena[q]
  BY <1>1, <1>5, <1>8 DEF HeapTypes
<1>12. /\ hp_pc'[t] = HeapIdle /\ \A u \in HeapThread : u # t => hp_pc'[u] = hp_pc[u]
  BY <1>1, <1>5, PcAt
<1>13. ThreadInv(t)' /\ hp_pc'[t] \in Pc /\ hp_pc'[t].at # "give"
  BY <1>1, <1>12, IdleKeeps DEF HeapIdle
<1>14. HeapTypes'
  <2>1. hp_pc' \in [HeapThread -> Pc]
    <3>1. HeapIdle \in Pc
      BY <1>12, <1>13
    <3> QED
      BY <1>1, <1>5, <3>1 DEF HeapTypes
  <2>2. hp_map' \in [Page -> BOOLEAN]
    BY <1>1, <1>5 DEF HeapTypes, bitmap_set_multiple
  <2>3. hp_arena' \in [Page -> [desc : Desc \cup {0}, free_cnt : Int]]
    <3>1. [desc |-> 0, free_cnt |-> 0] \in [desc : Desc \cup {0}, free_cnt : Int]
      OBVIOUS
    <3> QED
      BY <1>1, <1>5, <1>8, <3>1 DEF HeapTypes
  <2> QED
    BY <1>1, <1>5, <1>9, <2>1, <2>2, <2>3 DEF HeapTypes
<1>15. (\A x : Owned(x)' <=> Owned(x)) /\ (\A x : InList(x)' <=> InList(x))
  BY <1>5, <1>9 DEF Owned, InList
<1>16. \A q : Home(q)' <=> Home(q)
  BY <1>15 DEF Home
<1>17. \A x : Owned(x) \/ InList(x) => x[1] \in Page /\ x[1] # idx
  BY <1>1, <1>8, HomeOf
<1>18. \A q \in Page : Home(q) => Extent(q)' = Extent(q)
  BY <1>8, <1>11 DEF Extent
<1>19. OwnInv'
  <2>1. ASSUME NEW c \in BlockSet, Owned(c)'
        PROVE  /\ ~ InList(c)'
               /\ hp_arena'[c[1]].desc = 0 => c[2] = 0 /\ hp_arena'[c[1]].free_cnt >= 1
               /\ hp_arena'[c[1]].desc # 0 => c[2] < blocks_per_arena(hp_arena'[c[1]].desc)
    <3>1. Owned(c) /\ c[1] \in Page /\ c[1] # idx
      BY <1>15, <1>17, <2>1
    <3> QED
      BY <1>1, <1>11, <1>15, <3>1 DEF Shape, OwnInv
  <2>2. \A u, v \in HeapThread, c \in BlockSet : <<u, c>> \in hp_held' /\ <<v, c>> \in hp_held' => u = v
    BY <1>1, <1>5 DEF Shape, OwnInv
  <2> QED
    BY <2>1, <2>2 DEF OwnInv
<1>20. ListInv'
  <2>1. ASSUME NEW e \in Desc, NEW c \in BlockSet, OnList(c, hp_desc'[e].free_list)
        PROVE  hp_arena'[c[1]].desc = e /\ c[2] < blocks_per_arena(e)
    <3>1. OnList(c, hp_desc[e].free_list)
      BY <1>9, <2>1
    <3>2. c[1] \in Page /\ c[1] # idx
      BY <1>17, <3>1 DEF InList
    <3>3. hp_arena[c[1]].desc = e /\ c[2] < blocks_per_arena(e)
      BY <1>1, <3>1 DEF Shape, ListInv
    <3> QED
      BY <1>11, <3>2, <3>3
  <2>2. \A e \in Desc : NoDup(hp_desc'[e].free_list)
    BY <1>1, <1>9 DEF Shape, ListInv
  <2> QED
    BY <2>1, <2>2 DEF ListInv
<1>21. ArenaInv'
  <2>1. ASSUME NEW q \in Page, Home(q)', hp_arena'[q].desc # 0
        PROVE  /\ \A c \in Blocks(q)' : Owned(c)' \/ InList(c)'
               /\ hp_arena'[q].free_cnt = Cardinality(FreeIn(q)')
    <3>1. Home(q) /\ q # idx /\ hp_arena'[q] = hp_arena[q]
      BY <1>8, <1>11, <1>16, <2>1
    <3>2. Blocks(q)' = Blocks(q)
      BY <3>1 DEF Blocks
    <3>3. FreeIn(q)' = FreeIn(q)
      BY <1>15, <3>2 DEF FreeIn
    <3>4. (\A c \in Blocks(q) : Owned(c) \/ InList(c)) /\ hp_arena[q].free_cnt = Cardinality(FreeIn(q))
      BY <1>1, <2>1, <3>1 DEF Shape, ArenaInv
    <3>5. \A c \in Blocks(q)' : Owned(c)' \/ InList(c)'
      BY <1>15, <3>2, <3>4
    <3> QED
      BY <3>1, <3>3, <3>4, <3>5
  <2> QED
    BY <2>1 DEF ArenaInv
<1>22. PageInv'
  <2>1. \A p, q \in Page : Home(p)' /\ Home(q)' /\ p # q => Extent(p)' \cap Extent(q)' = {}
    BY <1>1, <1>16, <1>18 DEF Shape, PageInv
  <2>2. ASSUME NEW p \in Page, Home(p)', NEW i \in Extent(p)' PROVE i \in Page /\ hp_map'[i]
    <3>1. Home(p) /\ i \in Extent(p)
      BY <1>16, <1>18, <2>2
    <3>2. i \in Page /\ hp_map[i] /\ i \notin Span(t)
      BY <1>1, <1>7, <3>1 DEF Shape, PageInv
    <3> QED
      BY <1>10, <3>2
  <2> QED
    BY <2>1, <2>2 DEF PageInv
<1>23. Shape'
  BY <1>19, <1>20, <1>21, <1>22 DEF Shape
<1>24. ASSUME NEW u \in HeapThread, u # t
       PROVE  /\ \A b : <<u, b>> \in hp_held => <<u, b>> \in hp_held'
              /\ \A e \in Desc : hp_desc[e].lock = u => hp_desc'[e] = hp_desc[e]
              /\ hp_pool = u => hp_pool' = u /\ \A i \in Page : ~ hp_map[i] => ~ hp_map'[i]
  <2>1. \A e \in Desc : hp_desc[e].lock = u => hp_desc'[e] = hp_desc[e]
    <3>1. \A e \in Desc : hp_desc[e].lock = u => e # d
      BY <1>6, <1>24, ArenaBlocks
    <3> QED
      BY <1>9, <3>1
  <2>2. \A i \in Page : ~ hp_map[i] => ~ hp_map'[i]
    BY <1>10
  <2> QED
    BY <1>5, <2>1, <2>2
<1>25. ASSUME NEW u \in HeapThread, u # t, hp_pc[u].at = "give"
       PROVE  /\ \A i \in Span(u) : hp_map[i] => hp_map'[i]
              /\ \A p \in Page : Home(p)' => \/ Home(p) /\ Extent(p)' = Extent(p)
                                            \/ Extent(p)' \cap Span(u) = {}
  <2>1. \A i \in Span(u) : i \in Page
    BY <1>25 DEF HeapInv, ThreadInv, Giving
  <2>2. Span(t) \cap Span(u) = {}
    BY <1>1, <1>5, <1>25 DEF GiveInv
  <2>3. \A i \in Span(u) : hp_map[i] => hp_map'[i]
    BY <1>10, <2>1, <2>2
  <2> QED
    BY <1>16, <1>18, <2>3
<1> QED
  BY <1>12, <1>13, <1>14, <1>23, <1>24, <1>25, StepKeeps

\* A block at the front of a list.
LEMMA ListPush ==
    ASSUME NEW S, NEW b \in S, NEW list \in Seq(S), NoDup(list), ~ OnList(b, list)
    PROVE  /\ <<b>> \o list \in Seq(S) /\ NoDup(<<b>> \o list)
           /\ \A x : OnList(x, <<b>> \o list) <=> OnList(x, list) \/ x = b
<1>1. /\ <<b>> \in Seq(S) /\ NoDup(<<b>>)
      /\ \A x : OnList(x, <<b>>) <=> x = b
  BY DEF NoDup, OnList
<1>2. /\ NoDup(<<b>> \o list)
      /\ \A x \in S : OnList(x, <<b>> \o list) <=> OnList(x, <<b>>) \/ OnList(x, list)
  <2>1. PICK q : q = <<b>>
    OBVIOUS
  <2>2. q \in Seq(S) /\ NoDup(q) /\ \A x \in S : ~ (OnList(x, q) /\ OnList(x, list))
    BY <1>1, <2>1
  <2>3. NoDup(q \o list) /\ \A x \in S : OnList(x, q \o list) <=> OnList(x, q) \/ OnList(x, list)
    BY ONLY <2>2, list \in Seq(S), NoDup(list), ListConcat
  <2> QED
    BY <2>1, <2>3
<1>3. <<b>> \o list \in Seq(S)
  BY <1>1
<1>4. ASSUME NEW x, OnList(x, list) \/ OnList(x, <<b>> \o list) PROVE x \in S
  BY <1>3, <1>4 DEF OnList
<1>5. \A x : OnList(x, <<b>> \o list) <=> OnList(x, list) \/ x = b
  BY <1>1, <1>2, <1>4
<1> QED
  BY <1>2, <1>3, <1>5

\* The blocks of a page leave a list.
LEMMA BlocksDropped ==
    ASSUME NEW list \in Seq(BlockSet), NoDup(list), NEW p
    PROVE  /\ drop_blocks(list, p) \in Seq(BlockSet) /\ NoDup(drop_blocks(list, p))
           /\ \A x : OnList(x, drop_blocks(list, p)) <=> OnList(x, list) /\ x[1] # p
<1>1. PICK I : I = {i \in DOMAIN list : list[i][1] # p}
  OBVIOUS
<1>2. I \subseteq 1 .. Len(list)
  BY <1>1
<1>3. \A i, j \in I : list[i] = list[j] => i = j
  BY <1>2 DEF NoDup
<1>4. /\ NoDup(Chosen(list, I)) /\ Chosen(list, I) \in Seq(BlockSet)
      /\ \A x : OnList(x, Chosen(list, I)) <=> \E i \in I : list[i] = x
  BY <1>2, <1>3, ListChosen, ChosenFrom
<1>5. \A x : (\E i \in I : list[i] = x) <=> OnList(x, list) /\ x[1] # p
  BY <1>1 DEF OnList
<1>6. drop_blocks(list, p) = Chosen(list, I)
  BY <1>1 DEF drop_blocks
<1> QED
  BY <1>4, <1>5, <1>6

LEMMA TwoFields ==
    ASSUME NEW S, NEW U, NEW r \in [free_list : S, lock : U], NEW f, NEW l
    PROVE  [[r EXCEPT !.free_list = f] EXCEPT !.lock = l] = [free_list |-> f, lock |-> l]
<1>1. PICK g \in S, h \in U : r = [free_list |-> g, lock |-> h]
  OBVIOUS
<1>2. [r EXCEPT !.free_list = f] = [free_list |-> f, lock |-> h]
  BY ONLY <1>1
<1>3. PICK q : q = [free_list |-> f, lock |-> h]
  OBVIOUS
<1>4. [q EXCEPT !.lock = l] = [free_list |-> f, lock |-> l]
  BY ONLY <1>3
<1> QED
  BY <1>2, <1>3, <1>4

\* A block as free_block finds it.
LEMMA FreedAt ==
    ASSUME HeapInv, NEW t \in HeapThread, free_block(t),
           NEW b, b = hp_pc[t].old, NEW p, p = b[1], NEW d, d = hp_arena[p].desc,
           NEW list, list = hp_desc[d].free_list, NEW n, n = blocks_per_arena(d)
    PROVE  /\ <<t, b>> \in hp_held /\ b \in BlockSet /\ p \in Page /\ Owned(b) /\ ~ InList(b) /\ Home(p)
           /\ \A u \in HeapThread : <<u, b>> \in hp_held => u = t
           /\ d \in Desc /\ d # 0 /\ hp_desc[d].lock \notin HeapThread /\ hp_pc[t].at = "free"
           /\ list \in Seq(BlockSet) /\ NoDup(list) /\ ~ OnList(b, list)
           /\ n \in Nat \ {0} /\ b \in Blocks(p) /\ b \notin FreeIn(p)
           /\ hp_arena[p].free_cnt = Cardinality(FreeIn(p))
<1>1. HeapTypes /\ Shape /\ ThreadInv(t)
  BY DEF HeapInv
<1>2. hp_pc[t].at = "free" /\ d # 0 /\ hp_desc[d].lock = NoThread
  BY DEF free_block
<1>3. <<t, b>> \in hp_held
  BY <1>1, <1>2 DEF ThreadInv
<1>4. /\ b \in BlockSet /\ p \in Page /\ Owned(b) /\ ~ InList(b) /\ Home(p)
      /\ \A u \in HeapThread : <<u, b>> \in hp_held => u = t
  BY <1>1, <1>3, FreedBlock
<1>5. d \in Desc /\ hp_desc[d].lock \notin HeapThread
  BY <1>1, <1>2, <1>4, ArenaAt, HeapAssumption
<1>6. list \in Seq(BlockSet) /\ NoDup(list) /\ ~ OnList(b, list)
  BY <1>1, <1>4, <1>5, DescAt DEF Shape, ListInv, InList
<1>7. b[2] < n
  BY <1>1, <1>2, <1>4 DEF Shape, OwnInv
<1>8. b \in Blocks(p) /\ b \notin FreeIn(p)
  BY <1>1, <1>2, <1>4, <1>7, BlocksAt DEF FreeIn
<1>9. hp_arena[p].free_cnt = Cardinality(FreeIn(p))
  BY <1>1, <1>2, <1>4 DEF Shape, ArenaInv
<1>10. n \in Nat \ {0}
  BY <1>5, ArenaBlocks
<1> QED
  BY <1>2, <1>3, <1>4, <1>5, <1>6, <1>8, <1>9, <1>10

\* free () of a block of an arena with other blocks in use.
LEMMA PushKeeps ==
    ASSUME HeapInv, NEW t \in HeapThread, free_block(t),
           LET a == hp_arena[hp_pc[t].old[1]] IN ~ (a.free_cnt + 1 >= blocks_per_arena(a.desc))
    PROVE  HeapInv'
<1>1. HeapTypes /\ Shape /\ ThreadInv(t)
  BY DEF HeapInv
<1>2. PICK b : b = hp_pc[t].old
  OBVIOUS
<1>3. PICK p : p = b[1]
  OBVIOUS
<1>4. PICK d : d = hp_arena[p].desc
  OBVIOUS
<1>5. PICK list : list = hp_desc[d].free_list
  OBVIOUS
<1>6. PICK n : n = blocks_per_arena(d)
  OBVIOUS
<1>7. /\ <<t, b>> \in hp_held /\ b \in BlockSet /\ p \in Page /\ Owned(b) /\ ~ InList(b) /\ Home(p)
      /\ \A u \in HeapThread : <<u, b>> \in hp_held => u = t
      /\ d \in Desc /\ d # 0 /\ hp_desc[d].lock \notin HeapThread /\ hp_pc[t].at = "free"
      /\ list \in Seq(BlockSet) /\ NoDup(list) /\ ~ OnList(b, list)
      /\ n \in Nat \ {0} /\ b \in Blocks(p) /\ b \notin FreeIn(p)
      /\ hp_arena[p].free_cnt = Cardinality(FreeIn(p))
  BY ONLY HeapInv, t \in HeapThread, free_block(t), <1>2, <1>3, <1>4, <1>5, <1>6, FreedAt
<1>8. PICK list2 : list2 = <<b>> \o list
  OBVIOUS
<1>9. /\ hp_desc' = [hp_desc EXCEPT ![d].free_list = list2, ![d].lock = @]
      /\ hp_arena' = [hp_arena EXCEPT ![p].free_cnt = @ + 1]
      /\ hp_held' = hp_held \ {<<t, b>>}
      /\ hp_pc' = [hp_pc EXCEPT ![t] = HeapIdle]
      /\ UNCHANGED <<hp_map, hp_pool>>
  BY <1>2, <1>3, <1>4, <1>5, <1>8 DEF free_block
<1>10. /\ list2 \in Seq(BlockSet) /\ NoDup(list2)
       /\ \A x : OnList(x, list2) <=> OnList(x, list) \/ x = b
  BY <1>7, <1>8, ListPush
<1>11. /\ hp_desc'[d].free_list = list2 /\ hp_desc'[d].lock = hp_desc[d].lock
       /\ \A e \in Desc : e # d => hp_desc'[e] = hp_desc[e]
       /\ hp_desc' \in [Desc -> [free_list : Seq(BlockSet), lock : HeapThread \cup {NoThread}]]
  <2>1. hp_desc[d] \in [free_list : Seq(BlockSet), lock : HeapThread \cup {NoThread}] /\ DOMAIN hp_desc = Desc
    BY <1>1, <1>7, DescAt
  <2>2. hp_desc' = [hp_desc EXCEPT ![d] = [free_list |-> list2, lock |-> hp_desc[d].lock]]
    <3>1. PICK r : r = hp_desc[d]
      OBVIOUS
    <3>2. [[r EXCEPT !.free_list = list2] EXCEPT !.lock = hp_desc[d].lock] = [free_list |-> list2, lock |-> hp_desc[d].lock]
      BY <2>1, <3>1, TwoFields
    <3>3. hp_desc' = [hp_desc EXCEPT ![d] = [[r EXCEPT !.free_list = list2] EXCEPT !.lock = hp_desc[d].lock]]
      BY <1>7, <1>9, <2>1, <3>1
    <3> QED
      BY <3>2, <3>3
  <2>3. [free_list |-> list2, lock |-> hp_desc[d].lock] \in [free_list : Seq(BlockSet), lock : HeapThread \cup {NoThread}]
    BY <1>10, <2>1
  <2> QED
    BY <1>1, <1>7, <2>1, <2>2, <2>3 DEF HeapTypes
<1>12. /\ \A q \in Page : hp_arena'[q].desc = hp_arena[q].desc
       /\ \A q \in Page : q # p => hp_arena'[q] = hp_arena[q]
       /\ hp_arena'[p].free_cnt = hp_arena[p].free_cnt + 1
       /\ hp_arena' \in [Page -> [desc : Desc \cup {0}, free_cnt : Int]]
  <2>1. \A q \in Page : hp_arena[q] \in [desc : Desc \cup {0}, free_cnt : Int] /\ DOMAIN hp_arena = Page
    BY <1>1, ArenaAt
  <2>2. hp_arena[p].free_cnt + 1 \in Int
    BY <1>7, <2>1
  <2>3. hp_arena' \in [Page -> [desc : Desc \cup {0}, free_cnt : Int]]
    BY <1>1, <1>7, <1>9, <2>2 DEF HeapTypes
  <2> QED
    BY <1>7, <1>9, <2>1, <2>3
<1>13. /\ \A x : InList(x)' <=> InList(x) \/ x = b
       /\ \A x : Owned(x)' <=> Owned(x) /\ x # b
  <2>1. ASSUME NEW x PROVE InList(x)' <=> InList(x) \/ x = b
    <3>1. OnList(x, hp_desc'[d].free_list) <=> OnList(x, hp_desc[d].free_list) \/ x = b
      BY <1>5, <1>10, <1>11
    <3>2. \A e \in Desc : e # d => (OnList(x, hp_desc'[e].free_list) <=> OnList(x, hp_desc[e].free_list))
      BY <1>11
    <3> QED
      BY <1>7, <3>1, <3>2 DEF InList
  <2>2. \A x : Owned(x)' <=> Owned(x) /\ x # b
    BY <1>7, <1>9 DEF Owned
  <2> QED
    BY <2>1, <2>2
<1>14. \A q : Home(q)' <=> Home(q)
  BY <1>7, <1>13 DEF Home
<1>15. /\ hp_pc'[t] = HeapIdle /\ \A u \in HeapThread : u # t => hp_pc'[u] = hp_pc[u]
  BY <1>1, <1>9, PcAt
<1>16. ThreadInv(t)' /\ hp_pc'[t] \in Pc /\ hp_pc'[t].at # "give"
  BY <1>1, <1>15, IdleKeeps DEF HeapIdle
<1>17. HeapTypes'
  <2>1. hp_pc' \in [HeapThread -> Pc]
    <3>1. HeapIdle \in Pc
      BY <1>15, <1>16
    <3> QED
      BY <1>1, <1>9, <3>1 DEF HeapTypes
  <2>2. hp_held' \subseteq HeapThread \X BlockSet /\ IsFiniteSet(hp_held')
    BY <1>1, <1>9, FS_RemoveElement DEF HeapTypes
  <2> QED
    BY <1>1, <1>9, <1>11, <1>12, <2>1, <2>2 DEF HeapTypes
<1>18. \A q \in Page : Extent(q)' = Extent(q)
  <2>1. ASSUME NEW q \in Page PROVE Extent(q)' = Extent(q)
    <3>1. CASE q = p
      BY <1>4, <1>7, <1>12, <3>1 DEF Extent
    <3>2. CASE q # p
      BY <1>12, <3>2 DEF Extent
    <3> QED
      BY <3>1, <3>2
  <2> QED
    BY <2>1
<1>19. OwnInv'
  <2>1. \A u, v \in HeapThread, c \in BlockSet : <<u, c>> \in hp_held' /\ <<v, c>> \in hp_held' => u = v
    BY <1>1, <1>9 DEF Shape, OwnInv
  <2>2. ASSUME NEW c \in BlockSet, Owned(c)'
        PROVE  /\ ~ InList(c)'
               /\ hp_arena'[c[1]].desc = 0 => c[2] = 0 /\ hp_arena'[c[1]].free_cnt >= 1
               /\ hp_arena'[c[1]].desc # 0 => c[2] < blocks_per_arena(hp_arena'[c[1]].desc)
    <3>1. c[1] \in Page /\ hp_arena'[c[1]].desc = hp_arena[c[1]].desc /\ Owned(c) /\ c # b
      BY <1>12, <1>13, <2>2 DEF BlockSet
    <3>2. c[1] = p => hp_arena[c[1]].desc # 0
      BY <1>4, <1>7
    <3>3. c[1] # p => hp_arena'[c[1]] = hp_arena[c[1]]
      BY <1>12, <3>1
    <3> QED
      BY <1>1, <1>13, <3>1, <3>2, <3>3 DEF Shape, OwnInv
  <2> QED
    BY <2>1, <2>2 DEF OwnInv
<1>20. ListInv'
  <2>1. ASSUME NEW e \in Desc, NEW c \in BlockSet, OnList(c, hp_desc'[e].free_list)
        PROVE  hp_arena'[c[1]].desc = e /\ c[2] < blocks_per_arena(e)
    <3>1. c[1] \in Page /\ hp_arena'[c[1]].desc = hp_arena[c[1]].desc
      BY <1>12 DEF BlockSet
    <3>2. CASE e = d /\ c = b
      <4>1. c[2] < n
        BY <1>1, <1>3, <1>4, <1>6, <1>7, <3>2, BlocksAt
      <4> QED
        BY <1>3, <1>4, <1>6, <3>1, <3>2, <4>1
    <3>3. CASE ~ (e = d /\ c = b)
      <4>1. OnList(c, hp_desc[e].free_list)
        BY <1>5, <1>10, <1>11, <2>1, <3>3
      <4>2. hp_arena[c[1]].desc = e /\ c[2] < blocks_per_arena(e)
        BY <1>1, <4>1 DEF Shape, ListInv
      <4> QED
        BY <3>1, <4>2
    <3> QED
      BY <3>2, <3>3
  <2>2. \A e \in Desc : NoDup(hp_desc'[e].free_list)
    BY <1>1, <1>10, <1>11 DEF Shape, ListInv
  <2> QED
    BY <2>1, <2>2 DEF ListInv
<1>21. ArenaInv'
  <2>1. ASSUME NEW q \in Page, Home(q)', hp_arena'[q].desc # 0
        PROVE  /\ \A c \in Blocks(q)' : Owned(c)' \/ InList(c)'
               /\ hp_arena'[q].free_cnt = Cardinality(FreeIn(q)')
    <3>1. Home(q) /\ hp_arena[q].desc # 0 /\ Blocks(q)' = Blocks(q)
      BY <1>12, <1>14, <2>1 DEF Blocks
    <3>2. (\A c \in Blocks(q) : Owned(c) \/ InList(c)) /\ hp_arena[q].free_cnt = Cardinality(FreeIn(q))
      BY <1>1, <3>1 DEF Shape, ArenaInv
    <3>3. \A c \in Blocks(q)' : Owned(c)' \/ InList(c)'
      BY <1>13, <3>1, <3>2
    <3>4. CASE q = p
      <4>1. FreeIn(q)' = FreeIn(q) \cup {b}
        BY <1>7, <1>13, <3>1, <3>4 DEF FreeIn
      <4>2. IsFiniteSet(FreeIn(q))
        BY <1>1, <3>1, BlocksAt
      <4>3. Cardinality(FreeIn(q) \cup {b}) = Cardinality(FreeIn(q)) + 1
        BY <1>7, <3>4, <4>2, FS_AddElement
      <4> QED
        BY <1>12, <3>2, <3>3, <3>4, <4>1, <4>3
    <3>5. CASE q # p
      <4>1. b \notin Blocks(q)
        BY <1>1, <1>3, <3>1, <3>5, BlocksAt
      <4>2. FreeIn(q)' = FreeIn(q) /\ hp_arena'[q] = hp_arena[q]
        BY <1>12, <1>13, <3>1, <3>5, <4>1 DEF FreeIn
      <4> QED
        BY <3>2, <3>3, <4>2
    <3> QED
      BY <3>4, <3>5
  <2> QED
    BY <2>1 DEF ArenaInv
<1>22. PageInv'
  BY <1>1, <1>9, <1>14, <1>18 DEF Shape, PageInv
<1>23. Shape'
  BY <1>19, <1>20, <1>21, <1>22 DEF Shape
<1>24. \A u \in HeapThread : \A e \in Desc : hp_desc[e].lock = u => hp_desc'[e] = hp_desc[e]
  BY <1>7, <1>11
<1>25. \A u \in HeapThread : u # t => \A c : <<u, c>> \in hp_held => <<u, c>> \in hp_held'
  BY <1>9
<1> QED
  BY <1>9, <1>14, <1>15, <1>16, <1>17, <1>18, <1>23, <1>24, <1>25, StepKeeps

\* free () of the last block in use of an arena.
LEMMA EmptyKeeps ==
    ASSUME HeapInv, NEW t \in HeapThread, free_block(t),
           LET a == hp_arena[hp_pc[t].old[1]] IN a.free_cnt + 1 >= blocks_per_arena(a.desc)
    PROVE  HeapInv'
<1>1. HeapTypes /\ Shape /\ ThreadInv(t)
  BY DEF HeapInv
<1>2. PICK b : b = hp_pc[t].old
  OBVIOUS
<1>3. PICK p : p = b[1]
  OBVIOUS
<1>4. PICK d : d = hp_arena[p].desc
  OBVIOUS
<1>5. PICK list : list = hp_desc[d].free_list
  OBVIOUS
<1>6. PICK n : n = blocks_per_arena(d)
  OBVIOUS
<1>7. /\ <<t, b>> \in hp_held /\ b \in BlockSet /\ p \in Page /\ Owned(b) /\ ~ InList(b) /\ Home(p)
      /\ \A u \in HeapThread : <<u, b>> \in hp_held => u = t
      /\ d \in Desc /\ d # 0 /\ hp_desc[d].lock \notin HeapThread /\ hp_pc[t].at = "free"
      /\ list \in Seq(BlockSet) /\ NoDup(list) /\ ~ OnList(b, list)
      /\ n \in Nat \ {0} /\ b \in Blocks(p) /\ b \notin FreeIn(p)
      /\ hp_arena[p].free_cnt = Cardinality(FreeIn(p))
  BY ONLY HeapInv, t \in HeapThread, free_block(t), <1>2, <1>3, <1>4, <1>5, <1>6, FreedAt
<1>8. PICK list2 : list2 = drop_blocks(<<b>> \o list, p)
  OBVIOUS
<1>9. /\ hp_desc' = [hp_desc EXCEPT ![d].free_list = list2, ![d].lock = t]
      /\ hp_arena' = [hp_arena EXCEPT ![p].free_cnt = @ + 1]
      /\ hp_held' = hp_held \ {<<t, b>>}
      /\ hp_pc' = [hp_pc EXCEPT ![t] = [at |-> "give", desc |-> d, cnt |-> 1, idx |-> p, old |-> <<>>]]
      /\ UNCHANGED <<hp_map, hp_pool>>
  BY <1>2, <1>3, <1>4, <1>5, <1>8 DEF free_block
<1>10. /\ list2 \in Seq(BlockSet) /\ NoDup(list2)
       /\ \A x : OnList(x, list2) <=> OnList(x, list) /\ x[1] # p
  <2>1. /\ <<b>> \o list \in Seq(BlockSet) /\ NoDup(<<b>> \o list)
        /\ \A x : OnList(x, <<b>> \o list) <=> OnList(x, list) \/ x = b
    BY <1>7, ListPush
  <2>2. /\ list2 \in Seq(BlockSet) /\ NoDup(list2)
        /\ \A x : OnList(x, list2) <=> OnList(x, <<b>> \o list) /\ x[1] # p
    BY <1>8, <2>1, BlocksDropped
  <2> QED
    BY <1>3, <2>1, <2>2
<1>11. /\ hp_desc'[d].free_list = list2 /\ hp_desc'[d].lock = t
       /\ \A e \in Desc : e # d => hp_desc'[e] = hp_desc[e]
       /\ hp_desc' \in [Desc -> [free_list : Seq(BlockSet), lock : HeapThread \cup {NoThread}]]
  <2>1. hp_desc[d] \in [free_list : Seq(BlockSet), lock : HeapThread \cup {NoThread}] /\ DOMAIN hp_desc = Desc
    BY <1>1, <1>7, DescAt
  <2>2. hp_desc' = [hp_desc EXCEPT ![d] = [free_list |-> list2, lock |-> t]]
    <3>1. PICK r : r = hp_desc[d]
      OBVIOUS
    <3>2. [[r EXCEPT !.free_list = list2] EXCEPT !.lock = t] = [free_list |-> list2, lock |-> t]
      BY <2>1, <3>1, TwoFields
    <3>3. hp_desc' = [hp_desc EXCEPT ![d] = [[r EXCEPT !.free_list = list2] EXCEPT !.lock = t]]
      BY <1>7, <1>9, <2>1, <3>1
    <3> QED
      BY <3>2, <3>3
  <2>3. [free_list |-> list2, lock |-> t] \in [free_list : Seq(BlockSet), lock : HeapThread \cup {NoThread}]
    BY <1>10
  <2> QED
    BY <1>1, <1>7, <2>1, <2>2, <2>3 DEF HeapTypes
\* All other blocks of the page are on the list.
<1>12. \A x \in Blocks(p) : x # b => InList(x)
  <2>1. /\ IsFiniteSet(Blocks(p)) /\ Cardinality(Blocks(p)) = n /\ IsFiniteSet(FreeIn(p))
        /\ Cardinality(FreeIn(p)) \in Nat
    BY <1>1, <1>4, <1>6, <1>7, BlocksAt
  <2>2. IsFiniteSet(Blocks(p) \ {b}) /\ Cardinality(Blocks(p) \ {b}) = n - 1
    BY <1>7, <2>1, FS_RemoveElement
  <2>3. FreeIn(p) \in SUBSET (Blocks(p) \ {b})
    BY <1>7 DEF FreeIn
  <2>4. Cardinality(FreeIn(p)) + 1 >= n
    BY <1>2, <1>3, <1>4, <1>6, <1>7
  <2>5. Cardinality(FreeIn(p)) <= Cardinality(Blocks(p) \ {b})
    BY ONLY <2>2, <2>3, FS_Subset
  <2>6. Cardinality(FreeIn(p)) = Cardinality(Blocks(p) \ {b})
    BY ONLY <1>7, <2>1, <2>2, <2>4, <2>5
  <2>7. FreeIn(p) = Blocks(p) \ {b}
    BY ONLY <2>2, <2>3, <2>6, FS_Subset
  <2> QED
    BY <2>7 DEF FreeIn
<1>13. \A x : Owned(x)' <=> Owned(x) /\ x[1] # p
  <2>1. \A x : Owned(x)' <=> Owned(x) /\ x # b
    BY <1>7, <1>9 DEF Owned
  <2>2. ASSUME NEW x, Owned(x), x # b PROVE x[1] # p
    <3>1. x \in BlockSet /\ ~ InList(x)
      BY <1>1, <2>2, BlockKinds DEF Shape, OwnInv
    <3>2. x[1] = p => x[2] < n
      BY <1>1, <1>4, <1>6, <1>7, <2>2, <3>1 DEF Shape, OwnInv
    <3>3. x[1] = p => x \in Blocks(p)
      BY <1>1, <1>4, <1>6, <1>7, <3>1, <3>2, BlocksAt
    <3> QED
      BY <1>12, <2>2, <3>1, <3>3
  <2> QED
    BY <1>3, <2>1, <2>2
<1>14. \A x : InList(x)' <=> InList(x) /\ x[1] # p
  <2>1. ASSUME NEW x PROVE InList(x)' <=> InList(x) /\ x[1] # p
    <3>1. OnList(x, hp_desc'[d].free_list) <=> OnList(x, hp_desc[d].free_list) /\ x[1] # p
      BY <1>5, <1>10, <1>11
    <3>2. \A e \in Desc : e # d => (OnList(x, hp_desc'[e].free_list) <=> OnList(x, hp_desc[e].free_list))
      BY <1>11
    <3>3. ASSUME NEW e \in Desc, OnList(x, hp_desc[e].free_list), x[1] = p PROVE e = d
      <4>1. x \in BlockSet
        BY <1>1, <3>3, BlockKinds DEF InList
      <4> QED
        BY <1>1, <1>4, <3>3, <4>1 DEF Shape, ListInv
    <3> QED
      BY <1>7, <3>1, <3>2, <3>3 DEF InList
  <2> QED
    BY <2>1
<1>15. /\ hp_pc'[t] = [at |-> "give", desc |-> d, cnt |-> 1, idx |-> p, old |-> <<>>]
       /\ \A u \in HeapThread : u # t => hp_pc'[u] = hp_pc[u]
  BY <1>1, <1>9, PcAt
<1>16. /\ \A q \in Page : q # p => hp_arena'[q] = hp_arena[q]
       /\ hp_arena' \in [Page -> [desc : Desc \cup {0}, free_cnt : Int]]
  <2>1. \A q \in Page : hp_arena[q] \in [desc : Desc \cup {0}, free_cnt : Int] /\ DOMAIN hp_arena = Page
    BY <1>1, ArenaAt
  <2>2. hp_arena[p].free_cnt + 1 \in Int
    BY <1>7, <2>1
  <2> QED
    BY <1>1, <1>7, <1>9, <2>1, <2>2 DEF HeapTypes
<1>17. p \in Nat
  BY <1>1, <1>7, ArenaAt
<1>18. HeapTypes'
  <2>1. [at |-> "give", desc |-> d, cnt |-> 1, idx |-> p, old |-> <<>>] \in Pc
    BY <1>7, <1>17 DEF Pc
  <2>2. hp_pc' \in [HeapThread -> Pc]
    BY <1>1, <1>9, <2>1 DEF HeapTypes
  <2>3. hp_held' \subseteq HeapThread \X BlockSet /\ IsFiniteSet(hp_held')
    BY <1>1, <1>9, FS_RemoveElement DEF HeapTypes
  <2> QED
    BY <1>1, <1>9, <1>11, <1>16, <2>2, <2>3 DEF HeapTypes
<1>19. Extent(p) = p .. p + 1 - 1
  BY <1>4, <1>7, <1>17 DEF Extent
<1>20. ASSUME NEW e \in Desc
       PROVE  /\ NoDup(hp_desc'[e].free_list)
              /\ \A x : OnList(x, hp_desc'[e].free_list) => OnList(x, hp_desc[e].free_list)
  BY <1>1, <1>5, <1>10, <1>11 DEF Shape, ListInv
<1>21. \A u \in HeapThread : \A e \in Desc : hp_desc[e].lock = u => hp_desc'[e] = hp_desc[e]
  BY <1>7, <1>11
<1>22. \A u \in HeapThread : u # t => \A c : <<u, c>> \in hp_held => <<u, c>> \in hp_held'
  BY <1>9
<1>23. hp_held' \subseteq hp_held
  BY <1>9
<1> QED
  BY <1>7, <1>9, <1>11, <1>13, <1>14, <1>15, <1>16, <1>18, <1>19, <1>20, <1>21, <1>22, <1>23, LeaveKeeps

LEMMA HeapStarts == HeapInit => HeapInv
<1> SUFFICES ASSUME HeapInit PROVE HeapInv
  OBVIOUS
<1>1. /\ hp_map = [i \in Page |-> FALSE] /\ hp_pool = NoThread
      /\ hp_desc = [d \in Desc |-> [free_list |-> <<>>, lock |-> NoThread]]
      /\ hp_arena = [i \in Page |-> [desc |-> 0, free_cnt |-> 0]]
      /\ hp_held = {} /\ hp_pc = [t \in HeapThread |-> HeapIdle]
  BY DEF HeapInit, Page
<1>2. HeapTypes
  <2>1. HeapIdle \in Pc
    BY DEF HeapIdle, Pc
  <2>2. hp_pc \in [HeapThread -> Pc]
    BY <1>1, <2>1
  <2>3. IsFiniteSet(hp_held)
    BY <1>1, FS_EmptySet
  <2>4. hp_desc \in [Desc -> [free_list : Seq(BlockSet), lock : HeapThread \cup {NoThread}]]
    BY <1>1
  <2> QED
    BY <1>1, <2>2, <2>3, <2>4 DEF HeapTypes
<1>3. \A d \in Desc : hp_desc[d].free_list = <<>>
  BY <1>1
<1>4. (\A x : ~ Owned(x)) /\ (\A x : ~ InList(x))
  BY <1>1, <1>3, ListEmpty DEF Owned, InList
<1>5. \A p : ~ Home(p)
  BY <1>4 DEF Home
<1>6. OwnInv
  BY <1>1, <1>4 DEF OwnInv
<1>7. ListInv
  BY <1>3, ListEmpty DEF ListInv, NoDup
<1>8. ArenaInv /\ PageInv
  BY <1>5 DEF ArenaInv, PageInv
<1>9. \A t \in HeapThread : hp_pc[t].at = "idle" /\ hp_pc[t].old = <<>>
  BY <1>1 DEF HeapIdle
<1>10. GiveInv /\ \A t \in HeapThread : ThreadInv(t)
  BY <1>9 DEF GiveInv, ThreadInv
<1> QED
  BY <1>2, <1>6, <1>7, <1>8, <1>10 DEF HeapInv, Shape

LEMMA HeapKeeps == HeapInv /\ [HeapNext]_heapVars => HeapInv'
<1> SUFFICES ASSUME HeapInv, [HeapNext]_heapVars PROVE HeapInv'
  OBVIOUS
<1>1. ASSUME NEW t \in HeapThread, NEW size \in HeapSize, malloc(t, size, <<>>) PROVE HeapInv'
  <2>1. PICK old : old = <<>>
    OBVIOUS
  <2>2. malloc(t, size, old)
    BY <1>1, <2>1
  <2> QED
    BY ONLY HeapInv, <1>1, <2>1, <2>2, MallocKeeps
<1>2. ASSUME NEW t \in HeapThread, NEW h \in hp_held, h[1] = t, NEW size \in HeapSize, malloc(t, size, h[2])
      PROVE  HeapInv'
  <2>1. PICK old : old = h[2]
    OBVIOUS
  <2>2. <<t, old>> \in hp_held
    <3>1. h \in HeapThread \X BlockSet
      BY DEF HeapInv, HeapTypes
    <3> QED
      BY <1>2, <2>1, <3>1
  <2>3. malloc(t, size, old)
    BY <1>2, <2>1
  <2> QED
    BY ONLY HeapInv, <1>2, <2>2, <2>3, MallocKeeps
<1>3. ASSUME NEW t \in HeapThread, NEW h \in hp_held, h[1] = t, free(t, h[2]) PROVE HeapInv'
  <2>1. PICK b : b = h[2]
    OBVIOUS
  <2>2. <<t, b>> \in hp_held
    <3>1. h \in HeapThread \X BlockSet
      BY DEF HeapInv, HeapTypes
    <3> QED
      BY <1>3, <2>1, <3>1
  <2>3. free(t, b)
    BY <1>3, <2>1
  <2> QED
    BY ONLY HeapInv, <1>3, <2>2, <2>3, FreeKeeps
<1>4. ASSUME NEW t \in HeapThread, malloc_desc(t) PROVE HeapInv'
  BY <1>4, LockKeeps, TakeKeeps
<1>5. ASSUME NEW t \in HeapThread, palloc_scan(t) PROVE HeapInv'
  BY <1>5, ScanKeeps
<1>6. ASSUME NEW t \in HeapThread, palloc_flip(t) PROVE HeapInv'
  BY <1>6, FlipKeeps
<1>7. ASSUME NEW t \in HeapThread, free_block(t) PROVE HeapInv'
  BY <1>7, PushKeeps, EmptyKeeps
<1>8. ASSUME NEW t \in HeapThread, free_big(t) PROVE HeapInv'
  BY <1>8, BigKeeps
<1>9. ASSUME NEW t \in HeapThread, palloc_free_multiple(t) PROVE HeapInv'
  BY <1>9, ReleaseKeeps
<1>10. CASE UNCHANGED heapVars
  <2>1. /\ hp_map' = hp_map /\ hp_pool' = hp_pool /\ hp_desc' = hp_desc /\ hp_arena' = hp_arena
        /\ hp_held' = hp_held /\ hp_pc' = hp_pc
    BY <1>10 DEF heapVars
  <2>2. HeapTypes /\ Shape /\ GiveInv /\ \A u \in HeapThread : ThreadInv(u)
    BY DEF HeapInv
  <2>3. Shape' /\ (\A p : Home(p)' <=> Home(p)) /\ (\A p : Extent(p)' = Extent(p))
    BY <2>1, <2>2, SameShape
  <2>4. HeapTypes'
    BY <2>1, <2>2 DEF HeapTypes
  <2>5. ASSUME NEW u \in HeapThread PROVE ThreadInv(u)'
    BY <2>1, <2>2, <2>3, OthersKeep
  <2>6. GiveInv'
    BY <2>1, <2>2 DEF GiveInv, Span
  <2> QED
    BY <2>3, <2>4, <2>5, <2>6 DEF HeapInv
<1>11. CASE HeapNext
  <2>1. PICK t \in HeapThread :
          \/ \E size \in HeapSize : malloc(t, size, <<>>)
          \/ \E h \in hp_held : h[1] = t /\ (free(t, h[2]) \/ \E size \in HeapSize : malloc(t, size, h[2]))
          \/ malloc_desc(t) \/ palloc_scan(t) \/ palloc_flip(t)
          \/ free_block(t) \/ free_big(t) \/ palloc_free_multiple(t)
    BY <1>11 DEF HeapNext
  <2> QED
    BY <1>1, <1>2, <1>3, <1>4, <1>5, <1>6, <1>7, <1>8, <1>9, <2>1
<1> QED
  BY <1>10, <1>11

LEMMA HeapInvMeans == HeapInv => HeapSound
<1> SUFFICES ASSUME HeapInv PROVE HeapSound
  OBVIOUS
<1>1. HeapTypes /\ Shape
  BY DEF HeapInv
<1>2. PICK blocks : blocks = {h[2] : h \in hp_held}
  OBVIOUS
<1>3. PICK heads : heads = {b[1] : b \in blocks \cup Listed}
  OBVIOUS
<1>4. hp_held \subseteq HeapThread \X BlockSet /\ IsFiniteSet(hp_held)
  BY <1>1 DEF HeapTypes
<1>5. \A x : x \in blocks <=> Owned(x)
  <2>1. ASSUME NEW x, x \in blocks PROVE Owned(x)
    <3>1. PICK h \in hp_held : x = h[2]
      BY <1>2, <2>1
    <3>2. h = <<h[1], x>> /\ h[1] \in HeapThread
      BY <1>4, <3>1
    <3> QED
      BY <3>2 DEF Owned
  <2>2. ASSUME NEW x, Owned(x) PROVE x \in blocks
    <3>1. PICK t \in HeapThread : <<t, x>> \in hp_held
      BY <2>2 DEF Owned
    <3>2. <<t, x>>[2] = x
      OBVIOUS
    <3> QED
      BY <1>2, <3>1, <3>2
  <2> QED
    BY <2>1, <2>2
<1>6. \A x : x \in Listed <=> InList(x)
  <2>1. ASSUME NEW x, NEW d \in Desc PROVE x \in ToSet(hp_desc[d].free_list) <=> OnList(x, hp_desc[d].free_list)
    <3>1. DOMAIN hp_desc[d].free_list = 1 .. Len(hp_desc[d].free_list)
      BY <1>1, DescAt
    <3> QED
      BY <3>1 DEF ToSet, OnList
  <2> QED
    BY <2>1 DEF Listed, InList
<1>7. \A p : p \in heads <=> p \in Page /\ Home(p)
  <2>1. ASSUME NEW p, p \in heads PROVE p \in Page /\ Home(p)
    <3>1. PICK b : b \in blocks \cup Listed /\ b[1] = p
      BY <1>3, <2>1
    <3> QED
      BY <1>1, <1>5, <1>6, <3>1, HomeOf
  <2>2. ASSUME NEW p, Home(p) PROVE p \in heads
    <3>1. PICK b \in BlockSet : b[1] = p /\ (Owned(b) \/ InList(b))
      BY <2>2 DEF Home
    <3> QED
      BY <1>3, <1>5, <1>6, <3>1
  <2> QED
    BY <2>1, <2>2
<1>8. HeapTypeOK
  <2>1. DOMAIN hp_map = Page /\ Page = 0 .. PoolPages - 1
    BY <1>1 DEF HeapTypes, Page
  <2>2. \A h \in hp_held : h[1] \in HeapThread /\ h[2][1] \in DOMAIN hp_map
    BY <1>4, <2>1 DEF BlockSet
  <2>3. \A d \in Desc : hp_desc[d].lock \in HeapThread \cup {NoThread}
    BY <1>1, DescAt
  <2>4. \A t \in HeapThread : hp_pc[t].at \in {"idle", "desc", "scan", "flip", "free", "give"}
    <3>1. \A t \in HeapThread : hp_pc[t] \in Pc
      BY <1>1, PcAt
    <3> QED
      BY <3>1 DEF Pc
  <2> QED
    BY <1>1, <2>1, <2>2, <2>3, <2>4 DEF HeapTypeOK, HeapTypes
<1>9. Cardinality(blocks) = Cardinality(hp_held)
  <2>1. PICK f : f = [h \in hp_held |-> h[2]]
    OBVIOUS
  <2>2. f \in [hp_held -> blocks]
    BY <1>2, <2>1
  <2>3. \A b \in blocks : \E h \in hp_held : f[h] = b
    BY <1>2, <2>1
  <2>4. ASSUME NEW h \in hp_held, NEW g \in hp_held, f[h] = f[g] PROVE h = g
    <3>1. h = <<h[1], h[2]>> /\ g = <<g[1], g[2]>> /\ h[1] \in HeapThread /\ g[1] \in HeapThread /\ h[2] \in BlockSet
      BY <1>4
    <3>2. h[2] = g[2]
      BY <2>1, <2>4
    <3>3. h[1] = g[1]
      BY <1>1, <3>1, <3>2 DEF Shape, OwnInv
    <3> QED
      BY <3>1, <3>2, <3>3
  <2>5. f \in Bijection(hp_held, blocks)
    BY <2>2, <2>3, <2>4 DEF Bijection, Injection, Surjection, IsInjective
  <2>6. ExistsBijection(hp_held, blocks)
    BY <2>5 DEF ExistsBijection
  <2> QED
    BY <1>4, <2>6, FS_Bijection
<1>10. blocks \cap Listed = {}
  <2>1. \A b : Owned(b) => b \in BlockSet
    BY <1>1, BlockKinds
  <2>2. \A b : ~ (Owned(b) /\ InList(b))
    BY <1>1, <2>1 DEF Shape, OwnInv
  <2> QED
    BY <1>5, <1>6, <2>2
<1>11. \A d \in Desc : IsInjective(hp_desc[d].free_list)
  <2>1. ASSUME NEW d \in Desc PROVE IsInjective(hp_desc[d].free_list)
    <3>1. DOMAIN hp_desc[d].free_list = 1 .. Len(hp_desc[d].free_list)
      BY <1>1, DescAt
    <3>2. NoDup(hp_desc[d].free_list)
      BY <1>1 DEF Shape, ListInv
    <3> QED
      BY <3>1, <3>2 DEF IsInjective, NoDup
  <2> QED
    BY <2>1
<1>12. \A p, q \in heads : p # q => Extent(p) \cap Extent(q) = {}
  BY <1>1, <1>7 DEF Shape, PageInv
<1>13. \A p \in heads : \A i \in Extent(p) : hp_map[i]
  BY <1>1, <1>7 DEF Shape, PageInv
<1>14. ASSUME NEW p \in heads, hp_arena[p].desc # 0
       PROVE  /\ Blocks(p) \subseteq blocks \cup Listed
              /\ hp_arena[p].free_cnt = Cardinality(Blocks(p) \cap Listed)
  <2>1. p \in Page /\ Home(p)
    BY <1>7
  <2>2. (\A b \in Blocks(p) : Owned(b) \/ InList(b)) /\ hp_arena[p].free_cnt = Cardinality(FreeIn(p))
    BY <1>1, <1>14, <2>1 DEF Shape, ArenaInv
  <2>3. Blocks(p) \cap Listed = FreeIn(p)
    BY <1>6 DEF FreeIn
  <2> QED
    BY <1>5, <1>6, <2>2, <2>3
<1> QED
  BY <1>2, <1>3, <1>8, <1>9, <1>10, <1>11, <1>12, <1>13, <1>14 DEF HeapSound

\* Pages and blocks of the kernel heap have one owner at all times.
THEOREM HeapAlwaysSound == HeapSpec => []HeapSound
<1>1. HeapInit => HeapInv
  BY HeapStarts
<1>2. HeapInv /\ [HeapNext]_heapVars => HeapInv'
  BY HeapKeeps
<1>3. HeapInv => HeapSound
  BY HeapInvMeans
<1> QED
  BY <1>1, <1>2, <1>3, PTL DEF HeapSpec
-----------------------------------------------------------------------------
(*****************************************************************************)
(* Address spaces.                                                           *)
(*****************************************************************************)

PageSet == UserPool \cup KernelPool
VPage == 0 .. PHYS_BASE
FunTo(S) == UNION {[D -> S] : D \in SUBSET VPage}
Dir == [page : KernelPool \cup {NoPage}, tables : FunTo(KernelPool), map : FunTo([page : UserPool, w : BOOLEAN])]
Stage == {"new", "load", "user", "exit", "leave", "destroy", "gone", "dead"}
VmTypes ==
    /\ vm_free \subseteq PageSet
    /\ vm_mem \in [UserPool -> [0 .. VmPageSize - 1 -> Int]]
    /\ vm_pd \in [VmProc -> Dir] /\ vm_old \in [VmProc -> Dir]
    /\ vm_proc \in [VmProc -> [at : Stage, exe : VmExe \cup {NoExe}, seg : Nat \ {0}, done : Nat]]
    /\ vm_cpu \in VmProc \cup {NoPage} /\ vm_cr3 \in KernelPool \cup {NoPage}

\* The places a page can be in, and the page in each.
Place == VmProc \X {1, 2} \X {"dir", "table", "map"} \X VPage
At(d, c, v) ==
    IF c = "dir" THEN (IF v = 0 THEN d.page ELSE NoPage)
    ELSE IF c = "table" THEN (IF v \in DOMAIN d.tables THEN d.tables[v] ELSE NoPage)
    ELSE IF v \in DOMAIN d.map THEN d.map[v].page ELSE NoPage
DirOf(p, i) == IF i = 1 THEN vm_pd[p] ELSE vm_old[p]
PageAt == [x \in Place |-> At(DirOf(x[1], x[2]), x[3], x[4])]
\* Each page is free or in one place.
OnePlace(F, avail) ==
    /\ \A x, y \in Place : F[x] = F[y] /\ F[x] # NoPage => x = y
    /\ \A x \in Place : F[x] \notin avail
    /\ \A k \in PageSet : k \in avail \/ \E x \in Place : F[x] = k

\* A process without a directory has no pages; a page has a page table.
DirInv(d) ==
    /\ d.page = NoPage => d = NoDir
    /\ 0 \notin DOMAIN d.map
    /\ \A v \in DOMAIN d.map : pd_no(v) \in DOMAIN d.tables
\* What a process has in each of its stages.
StageInv(p) ==
    /\ DirInv(vm_pd[p]) /\ DirInv(vm_old[p])
    /\ vm_proc[p].at \in {"new", "leave", "destroy", "gone", "dead"} => vm_pd[p] = NoDir
    /\ vm_proc[p].at \in {"new", "load", "user", "exit", "gone", "dead"} => vm_old[p] = NoDir
    /\ vm_proc[p].at \in {"load", "user"} => vm_pd[p].page # NoPage
    /\ vm_proc[p].at \in {"leave", "destroy"} => vm_old[p].page # NoPage
\* The active directory is that of the process that runs.
CpuInv ==
    /\ vm_cpu = NoPage => vm_cr3 = NoPage
    /\ \A p \in VmProc : vm_cpu = p =>
          vm_cr3 = vm_pd[p].page \/ (vm_proc[p].at = "leave" /\ vm_cr3 = vm_old[p].page)

\* The first n pages of a segment are where they should be.
PageLoaded(p, s, j) ==
    LET v == s.vaddr \div VmPageSize + j
    IN  v \in DOMAIN vm_pd[p].map /\ vm_pd[p].map[v].w = s.w /\ vm_mem[vm_pd[p].map[v].page] = page_content(s, j)
Loaded(p, s, n) ==
    /\ n > 0 => validate_segment(s, vm_proc[p].exe)
    /\ \A j \in 0 .. n - 1 : PageLoaded(p, s, j)
Valid(p, s) == segment_pages(s) \in Nat \ {0} /\ Loaded(p, s, segment_pages(s))
LoadInv(p) ==
    LET segs == vm_proc[p].exe.segs
        seg == vm_proc[p].seg
        done == vm_proc[p].done
    IN  /\ vm_proc[p].at = "load" =>
              /\ seg <= Len(segs) + 1
              /\ \A i \in 1 .. Len(segs) : i < seg => Valid(p, segs[i])
              /\ seg <= Len(segs) =>
                    Loaded(p, segs[seg], done) /\ (done > 0 => done < segment_pages(segs[seg]))
        /\ vm_proc[p].at = "user" =>
              /\ PHYS_BASE - 1 \in DOMAIN vm_pd[p].map
              /\ \A i \in 1 .. Len(segs) : Valid(p, segs[i])
PlaceInv == OnePlace(PageAt, vm_free)
VmInv ==
    /\ VmTypes /\ PlaceInv /\ CpuInv
    /\ \A p \in VmProc : StageInv(p) /\ LoadInv(p)

LEMMA FunToIs == \A S, f : f \in FunTo(S) <=> DOMAIN f \subseteq VPage /\ f \in [DOMAIN f -> S]
BY DEF FunTo

LEMMA EmptyFun == \A S : <<>> \in FunTo(S) /\ DOMAIN <<>> = {}
<1>1. DOMAIN <<>> = {}
  OBVIOUS
<1>2. \A S : <<>> \in [{} -> S]
  OBVIOUS
<1> QED
  BY <1>1, <1>2, FunToIs

LEMMA EntryAdded ==
    ASSUME NEW S, NEW f \in FunTo(S), NEW x \in VPage, NEW e \in S, NEW g, g = WithEntry(f, x, e)
    PROVE  /\ g \in FunTo(S) /\ DOMAIN g = DOMAIN f \cup {x} /\ g[x] = e
           /\ \A y \in DOMAIN f : y # x => g[y] = f[y]
<1>1. DOMAIN f \subseteq VPage /\ \A y \in DOMAIN f : f[y] \in S
  BY FunToIs
<1>2. g = [y \in DOMAIN f \cup {x} |-> IF y = x THEN e ELSE f[y]]
  BY DEF WithEntry
<1>3. /\ DOMAIN g = DOMAIN f \cup {x} /\ g[x] = e
      /\ \A y \in DOMAIN f : y # x => g[y] = f[y]
  BY <1>2
<1>4. g \in [DOMAIN f \cup {x} -> S]
  BY <1>1, <1>2
<1> QED
  BY <1>1, <1>3, <1>4, FunToIs

LEMMA NoDirIs ==
    /\ NoDir \in Dir /\ NoDir.page = NoPage /\ DOMAIN NoDir.tables = {} /\ DOMAIN NoDir.map = {}
    /\ DirInv(NoDir) /\ \A c, v : At(NoDir, c, v) = NoPage
<1>1. /\ NoDir \in Dir /\ NoDir.page = NoPage /\ NoDir.tables = <<>> /\ NoDir.map = <<>>
  BY EmptyFun DEF NoDir, Dir
<1>2. DOMAIN NoDir.tables = {} /\ DOMAIN NoDir.map = {}
  BY <1>1, EmptyFun
<1>3. DirInv(NoDir)
  BY <1>2 DEF DirInv
<1>4. \A c, v : At(NoDir, c, v) = NoPage
  BY <1>1, <1>2 DEF At
<1> QED
  BY <1>1, <1>2, <1>3, <1>4

LEMMA DirAt ==
    ASSUME NEW d \in Dir
    PROVE  /\ d = [page |-> d.page, tables |-> d.tables, map |-> d.map]
           /\ d.page \in KernelPool \cup {NoPage}
           /\ d.tables \in FunTo(KernelPool) /\ DOMAIN d.tables \subseteq VPage
           /\ \A v \in DOMAIN d.tables : d.tables[v] \in KernelPool
           /\ d.map \in FunTo([page : UserPool, w : BOOLEAN]) /\ DOMAIN d.map \subseteq VPage
           /\ \A v \in DOMAIN d.map : d.map[v].page \in UserPool /\ d.map[v].w \in BOOLEAN
<1>1. /\ d = [page |-> d.page, tables |-> d.tables, map |-> d.map]
      /\ d.page \in KernelPool \cup {NoPage}
      /\ d.tables \in FunTo(KernelPool) /\ d.map \in FunTo([page : UserPool, w : BOOLEAN])
  BY DEF Dir
<1>2. DOMAIN d.tables \subseteq VPage /\ \A v \in DOMAIN d.tables : d.tables[v] \in KernelPool
  BY <1>1, FunToIs
<1>3. DOMAIN d.map \subseteq VPage /\ \A v \in DOMAIN d.map : d.map[v] \in [page : UserPool, w : BOOLEAN]
  BY <1>1, FunToIs
<1> QED
  BY <1>1, <1>2, <1>3

\* A page is taken, pages are given back, and pages change their places.
LEMMA PageTaken ==
    ASSUME NEW F, NEW G, NEW avail, NEW free2, OnePlace(F, avail), NEW k \in avail, k # NoPage,
           NEW x \in Place, F[x] = NoPage, G[x] = k, \A y \in Place : y # x => G[y] = F[y], free2 = avail \ {k}
    PROVE  OnePlace(G, free2)
<1>1. \A y, z \in Place : G[y] = G[z] /\ G[y] # NoPage => y = z
  BY DEF OnePlace
<1>2. \A y \in Place : G[y] \notin free2
  BY DEF OnePlace
<1>3. ASSUME NEW q \in PageSet PROVE q \in free2 \/ \E y \in Place : G[y] = q
  <2>1. CASE q = k
    BY <2>1
  <2>2. CASE q # k
    <3>1. q \in avail \/ \E y \in Place : F[y] = q
      BY DEF OnePlace
    <3>2. CASE q \in avail
      BY <2>2, <3>2
    <3>3. CASE \E y \in Place : F[y] = q
      <4>1. PICK y \in Place : F[y] = q
        BY <3>3
      <4>2. CASE y = x
        <5>1. q = NoPage
          BY <4>1, <4>2
        <5> QED
          BY <5>1, AddressSpaceAssumption DEF PageSet
      <4>3. CASE y # x
        BY <4>1, <4>3
      <4> QED
        BY <4>2, <4>3
    <3> QED
      BY <3>1, <3>2, <3>3
  <2> QED
    BY <2>1, <2>2
<1> QED
  BY <1>1, <1>2, <1>3 DEF OnePlace

LEMMA PagesGiven ==
    ASSUME NEW F, NEW G, NEW avail, NEW free2, OnePlace(F, avail), NoPage \notin avail,
           \A y \in Place : G[y] = F[y] \/ G[y] = NoPage,
           free2 = avail \cup {F[y] : y \in {z \in Place : G[z] # F[z]}}
    PROVE  OnePlace(G, free2)
<1>1. \A y, z \in Place : G[y] = G[z] /\ G[y] # NoPage => y = z
  BY DEF OnePlace
<1>2. ASSUME NEW y \in Place, G[y] \in free2 PROVE FALSE
  <2>1. NoPage \notin {F[z] : z \in {u \in Place : G[u] # F[u]}}
    OBVIOUS
  <2>2. G[y] # NoPage
    BY <1>2, <2>1
  <2>3. G[y] = F[y] /\ G[y] \notin avail
    BY <2>2 DEF OnePlace
  <2>4. PICK z \in Place : G[z] # F[z] /\ G[y] = F[z]
    BY <1>2, <2>3
  <2>5. y = z
    BY <2>2, <2>3, <2>4 DEF OnePlace
  <2> QED
    BY <2>3, <2>4, <2>5
<1>3. ASSUME NEW q \in PageSet PROVE q \in free2 \/ \E y \in Place : G[y] = q
  <2>1. q \in avail \/ \E y \in Place : F[y] = q
    BY DEF OnePlace
  <2> QED
    BY <2>1
<1> QED
  BY <1>1, <1>2, <1>3 DEF OnePlace

LEMMA PagesMoved ==
    ASSUME NEW F, NEW G, NEW avail, OnePlace(F, avail), NEW h \in [Place -> Place],
           \A y \in Place : h[h[y]] = y /\ G[y] = F[h[y]]
    PROVE  OnePlace(G, avail)
<1>1. ASSUME NEW y \in Place, NEW z \in Place, G[y] = G[z], G[y] # NoPage PROVE y = z
  <2>1. h[y] \in Place /\ h[z] \in Place /\ F[h[y]] = F[h[z]] /\ F[h[y]] # NoPage
    BY <1>1
  <2>2. h[y] = h[z]
    BY <2>1 DEF OnePlace
  <2> QED
    BY <2>2
<1>2. \A y \in Place : G[y] \notin avail
  BY DEF OnePlace
<1>3. ASSUME NEW q \in PageSet, NEW y \in Place, F[y] = q PROVE \E z \in Place : G[z] = q
  <2>1. h[y] \in Place /\ G[h[y]] = q
    BY <1>3
  <2> QED
    BY <2>1
<1> QED
  BY <1>1, <1>2, <1>3 DEF OnePlace

LEMMA GotPage ==
    ASSUME VmTypes, NEW pool, pool \subseteq PageSet, NEW k, k = palloc_get_page(pool)
    PROVE  k # NoPage => k \in vm_free /\ k \in pool
<1>1. PICK S : S = vm_free \cap pool
  OBVIOUS
<1>2. CASE S = {}
  BY <1>1, <1>2 DEF palloc_get_page
<1>3. CASE S # {}
  <2>1. S \subseteq Nat
    BY <1>1, AddressSpaceAssumption DEF PageSet
  <2>2. \E m \in S : \A n \in S : m <= n
    BY ONLY <1>3, <2>1, LeastNumber
  <2>3. Min(S) \in S
    BY <2>2 DEF Min
  <2> QED
    BY <1>1, <1>3, <2>3 DEF palloc_get_page
<1> QED
  BY <1>2, <1>3

LEMMA PlaceAt ==
    /\ \A x \in Place : PageAt[x] = At(IF x[2] = 1 THEN vm_pd[x[1]] ELSE vm_old[x[1]], x[3], x[4])
    /\ \A x \in Place : PageAt'[x] = At(IF x[2] = 1 THEN vm_pd'[x[1]] ELSE vm_old'[x[1]], x[3], x[4])
    /\ OnePlace(PageAt', vm_free') => PlaceInv'
    /\ PlaceInv => OnePlace(PageAt, vm_free)
BY DEF PageAt, DirOf, PlaceInv

\* What a step means to a process whose pages it leaves alone.
LEMMA OtherKeeps ==
    ASSUME NEW p, StageInv(p), LoadInv(p),
           vm_proc'[p] = vm_proc[p], vm_pd'[p] = vm_pd[p], vm_old'[p] = vm_old[p],
           \A v \in DOMAIN vm_pd[p].map : vm_mem'[vm_pd[p].map[v].page] = vm_mem[vm_pd[p].map[v].page]
    PROVE  StageInv(p)' /\ LoadInv(p)'
<1>1. StageInv(p)'
  BY DEF StageInv
<1>2. \A s, j : PageLoaded(p, s, j) => PageLoaded(p, s, j)'
  BY DEF PageLoaded
<1>3. \A s, n : Loaded(p, s, n) => Loaded(p, s, n)'
  BY <1>2 DEF Loaded
<1>4. \A s : Valid(p, s) => Valid(p, s)'
  BY <1>3 DEF Valid
<1>5. LoadInv(p)'
  BY <1>3, <1>4 DEF LoadInv
<1> QED
  BY <1>1, <1>5

LEMMA ProcAt ==
    ASSUME VmTypes, NEW p \in VmProc
    PROVE  /\ vm_proc[p] \in [at : Stage, exe : VmExe \cup {NoExe}, seg : Nat \ {0}, done : Nat]
           /\ vm_proc[p].at \in Stage /\ vm_proc[p].exe \in VmExe \cup {NoExe}
           /\ vm_proc[p].seg \in Nat \ {0} /\ vm_proc[p].done \in Nat /\ DOMAIN vm_proc = VmProc
           /\ vm_proc[p].exe.segs \in Seq(VmSegment)
           /\ vm_pd[p] \in Dir /\ vm_old[p] \in Dir /\ DOMAIN vm_pd = VmProc /\ DOMAIN vm_old = VmProc
<1>1. /\ vm_proc[p] \in [at : Stage, exe : VmExe \cup {NoExe}, seg : Nat \ {0}, done : Nat]
      /\ vm_pd[p] \in Dir /\ vm_old[p] \in Dir
      /\ DOMAIN vm_proc = VmProc /\ DOMAIN vm_pd = VmProc /\ DOMAIN vm_old = VmProc
  BY DEF VmTypes
<1>2. \A exe \in VmExe \cup {NoExe} : exe.segs \in Seq(VmSegment)
  <2>1. NoExe.segs \in Seq(VmSegment)
    BY DEF NoExe
  <2> QED
    BY <2>1, AddressSpaceAssumption
<1> QED
  BY <1>1, <1>2

\* A process goes to another stage.
LEMMA StageChanged ==
    ASSUME VmTypes, NEW p \in VmProc, NEW at \in Stage, Goes1(p, at)
    PROVE  /\ vm_proc' \in [VmProc -> [at : Stage, exe : VmExe \cup {NoExe}, seg : Nat \ {0}, done : Nat]]
           /\ vm_proc'[p].at = at /\ vm_proc'[p].exe = vm_proc[p].exe /\ vm_proc'[p].seg = vm_proc[p].seg
           /\ vm_proc'[p].done = vm_proc[p].done
           /\ \A q \in VmProc : q # p => vm_proc'[q] = vm_proc[q]
<1>1. vm_proc' = [vm_proc EXCEPT ![p].at = at]
  BY DEF Goes1
<1>2. /\ vm_proc[p] \in [at : Stage, exe : VmExe \cup {NoExe}, seg : Nat \ {0}, done : Nat]
      /\ DOMAIN vm_proc = VmProc
  BY ProcAt
<1>3. vm_proc' \in [VmProc -> [at : Stage, exe : VmExe \cup {NoExe}, seg : Nat \ {0}, done : Nat]]
  BY <1>1, <1>2 DEF VmTypes
<1> QED
  BY <1>1, <1>2, <1>3

\* The directories stay as they are.
LEMMA SamePlaces ==
    ASSUME PlaceInv, vm_free' = vm_free, vm_pd' = vm_pd, vm_old' = vm_old
    PROVE  PlaceInv'
<1>1. PageAt' = PageAt
  BY DEF PageAt, DirOf
<1> QED
  BY <1>1, PlaceAt

LEMMA VmInvAt ==
    ASSUME VmInv
    PROVE  VmTypes /\ PlaceInv /\ CpuInv /\ \A p \in VmProc : StageInv(p) /\ LoadInv(p)
BY DEF VmInv

LEMMA ActivateKeeps ==
    ASSUME VmInv, NEW p \in VmProc, process_activate(p)
    PROVE  VmInv'
<1>1. /\ vm_cpu' = p /\ vm_cr3' = vm_pd[p].page
      /\ UNCHANGED <<vm_free, vm_mem, vm_pd, vm_old, vm_proc>>
  BY DEF process_activate
<1>2. VmTypes'
  <2>1. vm_pd[p].page \in KernelPool \cup {NoPage}
    BY VmInvAt, ProcAt, DirAt
  <2> QED
    BY <1>1, <2>1, VmInvAt DEF VmTypes
<1>3. PlaceInv'
  BY <1>1, VmInvAt, SamePlaces
<1>4. CpuInv'
  <2>1. p # NoPage
    BY AddressSpaceAssumption
  <2> QED
    BY <1>1, <2>1 DEF CpuInv
<1>5. ASSUME NEW q \in VmProc PROVE StageInv(q)' /\ LoadInv(q)'
  BY <1>1, VmInvAt, OtherKeeps
<1> QED
  BY <1>2, <1>3, <1>4, <1>5 DEF VmInv

\* A process that loads or runs goes to its end.
LEMMA EndKeeps ==
    ASSUME VmInv, NEW p \in VmProc, vm_proc[p].at \in {"load", "user"}, Goes1(p, "exit"),
           UNCHANGED <<vm_free, vm_mem, vm_pd, vm_old, vm_cpu, vm_cr3>>
    PROVE  VmInv'
<1>1. /\ vm_proc' \in [VmProc -> [at : Stage, exe : VmExe \cup {NoExe}, seg : Nat \ {0}, done : Nat]]
      /\ vm_proc'[p].at = "exit" /\ \A q \in VmProc : q # p => vm_proc'[q] = vm_proc[q]
  <2>1. "exit" \in Stage
    BY DEF Stage
  <2> QED
    BY <2>1, VmInvAt, StageChanged
<1>2. VmTypes'
  BY <1>1, VmInvAt DEF VmTypes
<1>3. PlaceInv'
  BY VmInvAt, SamePlaces
<1>4. CpuInv'
  BY <1>1, VmInvAt DEF CpuInv
<1>5. ASSUME NEW q \in VmProc PROVE StageInv(q)' /\ LoadInv(q)'
  <2>1. CASE q = p
    <3>1. StageInv(p)
      BY VmInvAt
    <3>2. StageInv(p)'
      BY <1>1, <3>1 DEF StageInv
    <3>3. LoadInv(p)'
      BY <1>1 DEF LoadInv
    <3> QED
      BY <2>1, <3>2, <3>3
  <2>2. CASE q # p
    BY <1>1, <2>2, VmInvAt, OtherKeeps
  <2> QED
    BY <2>1, <2>2
<1> QED
  BY <1>2, <1>3, <1>4, <1>5 DEF VmInv

\* pagedir_activate (NULL), and the end of a thread.
LEMMA LeaveKeepsVm ==
    ASSUME VmInv, NEW p \in VmProc, pagedir_activate_base(p) \/ thread_ends(p)
    PROVE  VmInv'
<1>1. PICK at \in {"destroy", "dead"} :
         /\ vm_cpu = p /\ Goes1(p, at) /\ vm_cr3' = NoPage /\ vm_cpu' \in {p, NoPage}
         /\ UNCHANGED <<vm_free, vm_mem, vm_pd, vm_old>>
         /\ IF at = "destroy" THEN vm_proc[p].at = "leave" ELSE vm_proc[p].at = "gone"
  BY DEF pagedir_activate_base, thread_ends, Runs1, base
<1>2. /\ vm_proc' \in [VmProc -> [at : Stage, exe : VmExe \cup {NoExe}, seg : Nat \ {0}, done : Nat]]
      /\ vm_proc'[p].at = at /\ \A q \in VmProc : q # p => vm_proc'[q] = vm_proc[q]
  <2>1. at \in Stage
    BY <1>1 DEF Stage
  <2> QED
    BY <1>1, <2>1, VmInvAt, StageChanged
<1>3. StageInv(p)
  BY VmInvAt
<1>4. VmTypes'
  BY <1>1, <1>2, VmInvAt DEF VmTypes
<1>5. PlaceInv'
  BY <1>1, VmInvAt, SamePlaces
<1>6. CpuInv'
  <2>1. vm_pd[p].page = NoPage
    BY <1>1, <1>3, NoDirIs DEF StageInv
  <2> QED
    BY <1>1, <1>2, <2>1, AddressSpaceAssumption DEF CpuInv
<1>7. ASSUME NEW q \in VmProc PROVE StageInv(q)' /\ LoadInv(q)'
  <2>1. CASE q = p
    <3>1. StageInv(p)'
      BY <1>1, <1>2, <1>3 DEF StageInv
    <3>2. LoadInv(p)'
      BY <1>1, <1>2 DEF LoadInv
    <3> QED
      BY <2>1, <3>1, <3>2
  <2>2. CASE q # p
    BY <1>1, <1>2, <2>2, VmInvAt, OtherKeeps
  <2> QED
    BY <2>1, <2>2
<1> QED
  BY <1>4, <1>5, <1>6, <1>7 DEF VmInv

\* pagedir_create ().
LEMMA LoadKeeps ==
    ASSUME VmInv, NEW p \in VmProc, NEW exe \in VmExe, load(p, exe)
    PROVE  VmInv'
<1>1. PICK page : page = palloc_get_page(KernelPool)
  OBVIOUS
<1>2. PICK at : at = IF page = NoPage THEN "exit" ELSE "load"
  OBVIOUS
<1>3. /\ vm_cpu = p /\ vm_proc[p].at = "new"
      /\ vm_proc' = [vm_proc EXCEPT ![p] = [at |-> at, exe |-> exe, seg |-> 1, done |-> 0]]
      /\ vm_free' = vm_free \ {page}
      /\ vm_pd' = IF page = NoPage THEN vm_pd ELSE [vm_pd EXCEPT ![p].page = page]
      /\ vm_cr3' = page
      /\ UNCHANGED <<vm_mem, vm_old, vm_cpu>>
  BY <1>1, <1>2 DEF load, Runs1
<1>4. at \in Stage
  BY <1>2 DEF Stage
<1>5. VmTypes /\ PlaceInv /\ CpuInv /\ StageInv(p)
  BY VmInvAt
<1>6. page # NoPage => page \in vm_free /\ page \in KernelPool
  <2>1. KernelPool \subseteq PageSet
    BY DEF PageSet
  <2> QED
    BY <1>1, <1>5, <2>1, GotPage
<1>7. vm_pd[p] = NoDir /\ vm_old[p] = NoDir
  BY <1>3, <1>5 DEF StageInv
<1>8. PICK d : d = [page |-> page, tables |-> <<>>, map |-> <<>>]
  OBVIOUS
<1>9. vm_pd'[p] = d /\ \A q \in VmProc : q # p => vm_pd'[q] = vm_pd[q]
  <2>1. DOMAIN vm_pd = VmProc
    BY <1>5, ProcAt
  <2>2. CASE page = NoPage
    BY <1>3, <1>7, <1>8, <2>2 DEF NoDir
  <2>3. CASE page # NoPage
    <3>1. [NoDir EXCEPT !.page = page] = d
      BY <1>8 DEF NoDir
    <3> QED
      BY <1>3, <1>7, <2>1, <2>3, <3>1
  <2> QED
    BY <2>2, <2>3
<1>10. d \in Dir /\ d.page = page /\ DOMAIN d.tables = {} /\ DOMAIN d.map = {}
  <2>1. d.tables = <<>> /\ d.map = <<>> /\ d.page = page
    BY <1>8
  <2>2. d \in Dir
    BY <1>6, <1>8, EmptyFun DEF Dir
  <2> QED
    BY <2>1, <2>2, EmptyFun
<1>11. /\ vm_proc'[p] = [at |-> at, exe |-> exe, seg |-> 1, done |-> 0]
       /\ \A q \in VmProc : q # p => vm_proc'[q] = vm_proc[q]
  BY <1>3, <1>5, ProcAt
<1>12. VmTypes'
  <2>1. vm_pd' \in [VmProc -> Dir]
    <3>1. CASE page = NoPage
      BY <1>3, <1>5, <3>1 DEF VmTypes
    <3>2. CASE page # NoPage
      <4>1. [vm_pd[p] EXCEPT !.page = page] = d
        BY <1>7, <1>8 DEF NoDir
      <4>2. vm_pd' = [vm_pd EXCEPT ![p] = d]
        BY <1>3, <3>2, <4>1
      <4> QED
        BY <1>5, <1>10, <4>2 DEF VmTypes
    <3> QED
      BY <3>1, <3>2
  <2>2. vm_proc' \in [VmProc -> [at : Stage, exe : VmExe \cup {NoExe}, seg : Nat \ {0}, done : Nat]]
    <3>1. [at |-> at, exe |-> exe, seg |-> 1, done |-> 0]
             \in [at : Stage, exe : VmExe \cup {NoExe}, seg : Nat \ {0}, done : Nat]
      BY <1>4
    <3> QED
      BY <1>3, <1>5, <3>1 DEF VmTypes
  <2> QED
    BY <1>3, <1>5, <1>6, <2>1, <2>2 DEF VmTypes
<1>13. PlaceInv'
  <2>1. CASE page = NoPage
    <3>1. vm_free' = vm_free /\ vm_pd' = vm_pd
      BY <1>3, <1>5, <2>1, AddressSpaceAssumption DEF VmTypes, PageSet
    <3> QED
      BY <1>3, <1>5, <3>1, SamePlaces
  <2>2. CASE page # NoPage
    <3>1. PICK x : x = <<p, 1, "dir", 0>>
      OBVIOUS
    <3>2. x \in Place
      BY <3>1, AddressSpaceAssumption DEF Place, VPage
    <3>3. PageAt[x] = NoPage
      BY <1>7, <3>1, <3>2, PlaceAt, NoDirIs
    <3>4. PageAt'[x] = page
      BY <1>9, <1>10, <3>1, <3>2, PlaceAt DEF At
    <3>5. ASSUME NEW y \in Place, y # x PROVE PageAt'[y] = PageAt[y]
      <4>1. y = <<y[1], y[2], y[3], y[4]>> /\ y[1] \in VmProc
        BY DEF Place
      <4>2. CASE y[1] = p /\ y[2] = 1
        <5>1. ~ (y[3] = "dir" /\ y[4] = 0)
          BY <3>1, <3>5, <4>1, <4>2
        <5>2. At(d, y[3], y[4]) = NoPage
          BY <1>10, <5>1 DEF At
        <5> QED
          BY <1>7, <1>9, <4>2, <5>2, PlaceAt, NoDirIs
      <4>3. CASE ~ (y[1] = p /\ y[2] = 1)
        <5>1. (IF y[2] = 1 THEN vm_pd'[y[1]] ELSE vm_old'[y[1]]) = (IF y[2] = 1 THEN vm_pd[y[1]] ELSE vm_old[y[1]])
          BY <1>3, <1>9, <4>1, <4>3
        <5> QED
          BY <5>1, PlaceAt
      <4> QED
        BY <4>2, <4>3
    <3>6. OnePlace(PageAt', vm_free')
      BY <1>3, <1>5, <1>6, <2>2, <3>2, <3>3, <3>4, <3>5, PlaceAt, PageTaken
    <3> QED
      BY <3>6, PlaceAt
  <2> QED
    BY <2>1, <2>2
<1>14. CpuInv'
  BY <1>3, <1>9, <1>10, AddressSpaceAssumption DEF CpuInv
<1>15. ASSUME NEW q \in VmProc PROVE StageInv(q)' /\ LoadInv(q)'
  <2>1. CASE q = p
    <3>1. DirInv(d)
      BY <1>8, <1>10 DEF DirInv, NoDir
    <3>2. StageInv(p)'
      BY <1>2, <1>3, <1>5, <1>7, <1>9, <1>10, <1>11, <3>1, NoDirIs DEF StageInv
    <3>3. LoadInv(p)'
      <4>1. /\ vm_proc'[p].at \in {"exit", "load"} /\ vm_proc'[p].seg = 1 /\ vm_proc'[p].done = 0
            /\ vm_proc'[p].exe.segs \in Seq(VmSegment)
        BY <1>2, <1>11, AddressSpaceAssumption
      <4>2. \A s : Loaded(p, s, 0)'
        BY DEF Loaded
      <4> QED
        BY <4>1, <4>2 DEF LoadInv
    <3> QED
      BY <2>1, <3>2, <3>3
  <2>2. CASE q # p
    BY <1>3, <1>9, <1>11, <2>2, VmInvAt, OtherKeeps
  <2> QED
    BY <2>1, <2>2
<1> QED
  BY <1>12, <1>13, <1>14, <1>15 DEF VmInv

LEMMA TableOf == \A v \in VPage : pd_no(v) \in VPage
<1> SUFFICES ASSUME NEW v \in VPage PROVE pd_no(v) \in VPage
  OBVIOUS
<1>1. v \in Nat /\ v <= PHYS_BASE /\ PHYS_BASE \in Nat /\ PtPages \in Nat \ {0}
  BY AddressSpaceAssumption DEF VPage
<1>2. v \div PtPages \in Int /\ v \div PtPages >= 0 /\ v \div PtPages <= v
  BY ONLY <1>1, Z3
<1> QED
  BY <1>1, <1>2 DEF pd_no, VPage

\* install_page () where it succeeds.
LEMMA Installed ==
    ASSUME VmTypes, NEW d \in Dir, NEW v \in 1 .. PHYS_BASE - 1, NEW page \in UserPool, NEW w \in BOOLEAN,
           NEW r, r = install_page(d, v, page, w), r.ok
    PROVE  /\ v \notin DOMAIN d.map /\ r.dir \in Dir /\ r.dir.page = d.page
           /\ DOMAIN r.dir.map = DOMAIN d.map \cup {v} /\ r.dir.map[v] = [page |-> page, w |-> w]
           /\ \A u \in DOMAIN d.map : r.dir.map[u] = d.map[u]
           /\ \/ pd_no(v) \in DOMAIN d.tables /\ r.pt = NoPage /\ r.dir.tables = d.tables
              \/ /\ pd_no(v) \notin DOMAIN d.tables /\ r.pt \in vm_free /\ r.pt \in KernelPool
                 /\ DOMAIN r.dir.tables = DOMAIN d.tables \cup {pd_no(v)} /\ r.dir.tables[pd_no(v)] = r.pt
                 /\ \A u \in DOMAIN d.tables : r.dir.tables[u] = d.tables[u]
<1>1. v \in VPage /\ pd_no(v) \in VPage
  <2>1. v \in VPage
    BY AddressSpaceAssumption DEF VPage
  <2> QED
    BY <2>1, TableOf
<1>2. /\ d = [page |-> d.page, tables |-> d.tables, map |-> d.map] /\ d.page \in KernelPool \cup {NoPage}
      /\ d.map \in FunTo([page : UserPool, w : BOOLEAN]) /\ d.tables \in FunTo(KernelPool)
      /\ \A u \in DOMAIN d.map : d.map[u].page \in UserPool
  BY DirAt
<1>3. pagedir_get_page(d, v) = NoPage /\ r = pagedir_set_page(d, v, page, w)
  <2>1. CASE pagedir_get_page(d, v) # NoPage
    <3>1. r = [dir |-> d, pt |-> NoPage, ok |-> FALSE]
      BY <2>1 DEF install_page
    <3> QED
      BY <3>1
  <2>2. CASE pagedir_get_page(d, v) = NoPage
    BY <2>2 DEF install_page
  <2> QED
    BY <2>1, <2>2
<1>4. v \notin DOMAIN d.map
  BY <1>2, <1>3, AddressSpaceAssumption DEF pagedir_get_page
<1>5. PICK e : e = [page |-> page, w |-> w]
  OBVIOUS
<1>6. e \in [page : UserPool, w : BOOLEAN]
  BY <1>5
<1>7. PICK m : m = WithEntry(d.map, v, e)
  OBVIOUS
<1>8. /\ m \in FunTo([page : UserPool, w : BOOLEAN]) /\ DOMAIN m = DOMAIN d.map \cup {v} /\ m[v] = e
      /\ \A y \in DOMAIN d.map : m[y] = d.map[y]
  <2>1. PICK f, S : f = d.map /\ S = [page : UserPool, w : BOOLEAN]
    OBVIOUS
  <2>2. f \in FunTo(S) /\ v \in VPage /\ e \in S /\ m = WithEntry(f, v, e)
    BY <1>1, <1>2, <1>6, <1>7, <2>1
  <2>3. /\ m \in FunTo(S) /\ DOMAIN m = DOMAIN f \cup {v} /\ m[v] = e
        /\ \A y \in DOMAIN f : y # v => m[y] = f[y]
    BY ONLY <2>2, EntryAdded
  <2> QED
    BY <1>4, <2>1, <2>3
<1>9. PICK to : to = [d EXCEPT !.map = WithEntry(@, v, [page |-> page, w |-> w])]
  OBVIOUS
<1>10. to = [page |-> d.page, tables |-> d.tables, map |-> m]
  BY <1>2, <1>5, <1>7, <1>9
<1>11. PICK pt : pt = Min(vm_free \cap KernelPool)
  OBVIOUS
<1>12. CASE pd_no(v) \in DOMAIN d.tables
  <2>1. r = [dir |-> to, pt |-> NoPage, ok |-> TRUE]
    BY <1>3, <1>9, <1>12 DEF pagedir_set_page
  <2>2. r.dir = to /\ r.pt = NoPage
    BY <2>1
  <2>3. to \in Dir /\ to.page = d.page /\ to.tables = d.tables /\ to.map = m
    BY <1>2, <1>8, <1>10 DEF Dir
  <2> QED
    BY <1>4, <1>5, <1>8, <1>12, <2>2, <2>3
<1>13. CASE pd_no(v) \notin DOMAIN d.tables
  <2>1. CASE vm_free \cap KernelPool = {}
    <3>1. r = [dir |-> d, pt |-> NoPage, ok |-> FALSE]
      BY <1>3, <1>13, <2>1 DEF pagedir_set_page
    <3> QED
      BY <3>1
  <2>2. CASE vm_free \cap KernelPool # {}
    <3>1. PICK given : given = WithEntry(d.tables, pd_no(v), pt)
      OBVIOUS
    <3>2. r = [dir |-> [to EXCEPT !.tables = WithEntry(@, pd_no(v), pt)], pt |-> pt, ok |-> TRUE]
      BY <1>3, <1>9, <1>11, <1>13, <2>2 DEF pagedir_set_page
    <3>3. [to EXCEPT !.tables = WithEntry(@, pd_no(v), pt)] = [page |-> d.page, tables |-> given, map |-> m]
      BY <1>10, <3>1
    <3>4. r.dir = [page |-> d.page, tables |-> given, map |-> m] /\ r.pt = pt
      BY <3>2, <3>3
    <3>5. pt \in vm_free /\ pt \in KernelPool
      <4>1. vm_free \cap KernelPool \subseteq Nat
        BY AddressSpaceAssumption
      <4>2. PICK S : S = vm_free \cap KernelPool
        OBVIOUS
      <4>3. \E i \in S : \A n \in S : i <= n
        BY ONLY <2>2, <4>1, <4>2, LeastNumber
      <4>4. Min(S) \in S
        BY <4>3 DEF Min
      <4> QED
        BY <1>11, <4>2, <4>4
    <3>6. /\ given \in FunTo(KernelPool) /\ DOMAIN given = DOMAIN d.tables \cup {pd_no(v)}
          /\ given[pd_no(v)] = pt /\ \A y \in DOMAIN d.tables : y # pd_no(v) => given[y] = d.tables[y]
      <4>1. PICK f, n : f = d.tables /\ n = pd_no(v)
        OBVIOUS
      <4>2. DOMAIN f \subseteq VPage /\ n \in VPage /\ \A y \in DOMAIN f : f[y] \in KernelPool
        BY <1>1, <4>1, DirAt
      <4>3. given = [y \in DOMAIN f \cup {n} |-> IF y = n THEN pt ELSE f[y]]
        BY <3>1, <4>1 DEF WithEntry
      <4>4. /\ DOMAIN given = DOMAIN f \cup {n} /\ given[n] = pt
            /\ \A y \in DOMAIN f : y # n => given[y] = f[y]
        BY <4>3
      <4>5. given \in [DOMAIN f \cup {n} -> KernelPool]
        BY <3>5, <4>2, <4>3
      <4>6. given \in FunTo(KernelPool)
        BY <4>2, <4>4, <4>5, FunToIs
      <4> QED
        BY <4>1, <4>4, <4>6
    <3>7. r.dir \in Dir /\ r.dir.page = d.page /\ r.dir.tables = given /\ r.dir.map = m
      BY <1>2, <1>8, <3>4, <3>6 DEF Dir
    <3> QED
      BY <1>4, <1>5, <1>8, <1>13, <3>4, <3>5, <3>6, <3>7
  <2> QED
    BY <2>1, <2>2
<1> QED
  BY <1>12, <1>13

\* Page v of process p has become a page with this content.
Mapped(p, v, w, content) ==
    /\ vm_free' \subseteq PageSet /\ vm_mem' \in [UserPool -> [0 .. VmPageSize - 1 -> Int]]
    /\ vm_pd' \in [VmProc -> Dir] /\ PlaceInv' /\ DirInv(vm_pd'[p]) /\ vm_pd'[p].page = vm_pd[p].page
    /\ v \notin DOMAIN vm_pd[p].map /\ DOMAIN vm_pd'[p].map = DOMAIN vm_pd[p].map \cup {v}
    /\ vm_pd'[p].map[v].w = w /\ vm_mem'[vm_pd'[p].map[v].page] = content
    /\ \A u \in DOMAIN vm_pd[p].map : vm_pd'[p].map[u] = vm_pd[p].map[u]
    /\ \A q \in VmProc : q # p => vm_pd'[q] = vm_pd[q]
    /\ \A q \in VmProc : \A u \in DOMAIN vm_pd[q].map :
          vm_mem'[vm_pd[q].map[u].page] = vm_mem[vm_pd[q].map[u].page]

\* A process that loads gets a page.
LEMMA PageMapped ==
    ASSUME VmInv, NEW p \in VmProc, vm_proc[p].at = "load",
           NEW kpage, kpage = palloc_get_page(UserPool), kpage # NoPage,
           NEW v \in 1 .. PHYS_BASE - 1, NEW w \in BOOLEAN, NEW r, r = install_page(vm_pd[p], v, kpage, w), r.ok,
           NEW content \in [0 .. VmPageSize - 1 -> Int],
           vm_free' = vm_free \ {kpage, r.pt}, vm_mem' = [vm_mem EXCEPT ![kpage] = content],
           vm_pd' = [vm_pd EXCEPT ![p] = r.dir], vm_old' = vm_old
    PROVE  Mapped(p, v, w, content)
<1>1. VmTypes /\ PlaceInv /\ StageInv(p)
  BY VmInvAt
<1>2. kpage \in vm_free /\ kpage \in UserPool
  <2>1. UserPool \subseteq PageSet
    BY DEF PageSet
  <2> QED
    BY <1>1, <2>1, GotPage
<1>3. PICK d : d = vm_pd[p]
  OBVIOUS
<1>4. PICK e : e = r.dir
  OBVIOUS
<1>5. PICK n : n = pd_no(v)
  OBVIOUS
<1>6. d \in Dir /\ DirInv(d) /\ DOMAIN vm_pd = VmProc
  BY <1>1, <1>3, ProcAt DEF StageInv
<1>7. /\ v \notin DOMAIN d.map /\ e \in Dir /\ e.page = d.page
      /\ DOMAIN e.map = DOMAIN d.map \cup {v} /\ e.map[v] = [page |-> kpage, w |-> w]
      /\ \A u \in DOMAIN d.map : e.map[u] = d.map[u]
      /\ \/ n \in DOMAIN d.tables /\ r.pt = NoPage /\ e.tables = d.tables
         \/ /\ n \notin DOMAIN d.tables /\ r.pt \in vm_free /\ r.pt \in KernelPool
            /\ DOMAIN e.tables = DOMAIN d.tables \cup {n} /\ e.tables[n] = r.pt
            /\ \A u \in DOMAIN d.tables : e.tables[u] = d.tables[u]
  BY <1>1, <1>2, <1>3, <1>4, <1>5, <1>6, Installed
<1>8. vm_pd'[p] = e /\ \A q \in VmProc : q # p => vm_pd'[q] = vm_pd[q]
  BY <1>4, <1>6
<1>9. vm_pd' \in [VmProc -> Dir]
  BY <1>1, <1>4, <1>7 DEF VmTypes
<1>10. vm_mem' \in [UserPool -> [0 .. VmPageSize - 1 -> Int]] /\ vm_mem'[kpage] = content
  BY <1>1, <1>2 DEF VmTypes
<1>11. DirInv(e)
  <2>1. e.page = NoPage => e = NoDir
    <3>1. d.page # NoPage
      BY <1>1, <1>3 DEF StageInv
    <3> QED
      BY <1>7, <3>1
  <2>2. 0 \notin DOMAIN e.map
    BY <1>6, <1>7 DEF DirInv
  <2>3. \A u \in DOMAIN e.map : pd_no(u) \in DOMAIN e.tables
    BY <1>5, <1>6, <1>7 DEF DirInv
  <2> QED
    BY <2>1, <2>2, <2>3 DEF DirInv
<1>12. v \in VPage /\ n \in VPage
  <2>1. v \in VPage
    BY AddressSpaceAssumption DEF VPage
  <2> QED
    BY <1>5, <2>1, TableOf
<1>13. PICK x : x = <<p, 1, "map", v>>
  OBVIOUS
<1>14. PICK z : z = <<p, 1, "table", n>>
  OBVIOUS
<1>15. x \in Place /\ z \in Place /\ x # z
  BY <1>12, <1>13, <1>14 DEF Place
<1>16. PageAt[x] = NoPage /\ PageAt'[x] = kpage
  <2>1. At(d, "map", v) = NoPage /\ At(e, "map", v) = kpage
    BY <1>7 DEF At
  <2> QED
    BY <1>3, <1>8, <1>13, <1>15, <2>1, PlaceAt
<1>17. ASSUME NEW y \in Place, y # x, y # z PROVE PageAt'[y] = PageAt[y]
  <2>1. y = <<y[1], y[2], y[3], y[4]>> /\ y[1] \in VmProc /\ y[3] \in {"dir", "table", "map"}
    BY DEF Place
  <2>2. CASE y[1] = p /\ y[2] = 1
    <3>1. ~ (y[3] = "map" /\ y[4] = v) /\ ~ (y[3] = "table" /\ y[4] = n)
      BY <1>13, <1>14, <1>17, <2>1, <2>2
    <3>2. CASE y[3] = "dir"
      BY <1>3, <1>7, <1>8, <2>2, <3>2, PlaceAt DEF At
    <3>3. CASE y[3] = "map"
      <4>1. At(e, "map", y[4]) = At(d, "map", y[4])
        BY <1>7, <3>1, <3>3 DEF At
      <4> QED
        BY <1>3, <1>8, <2>2, <3>3, <4>1, PlaceAt
    <3>4. CASE y[3] = "table"
      <4>1. At(e, "table", y[4]) = At(d, "table", y[4])
        BY <1>7, <3>1, <3>4 DEF At
      <4> QED
        BY <1>3, <1>8, <2>2, <3>4, <4>1, PlaceAt
    <3> QED
      BY <2>1, <3>2, <3>3, <3>4
  <2>3. CASE ~ (y[1] = p /\ y[2] = 1)
    <3>1. (IF y[2] = 1 THEN vm_pd'[y[1]] ELSE vm_old'[y[1]]) = (IF y[2] = 1 THEN vm_pd[y[1]] ELSE vm_old[y[1]])
      BY <1>8, <2>1, <2>3
    <3> QED
      BY <3>1, PlaceAt
  <2> QED
    BY <2>2, <2>3
<1>18. PICK F : F = [y \in Place |-> IF y = x THEN kpage ELSE PageAt[y]]
  OBVIOUS
<1>19. PICK avail : avail = vm_free \ {kpage}
  OBVIOUS
<1>20. OnePlace(F, avail)
  <2>1. OnePlace(PageAt, vm_free)
    BY <1>1, PlaceAt
  <2>2. F[x] = kpage /\ \A y \in Place : y # x => F[y] = PageAt[y]
    BY <1>15, <1>18
  <2> QED
    BY ONLY <1>2, kpage # NoPage, <1>15, <1>16, <1>19, <2>1, <2>2, PageTaken
<1>21. OnePlace(PageAt', vm_free')
  <2>1. CASE n \in DOMAIN d.tables
    <3>1. r.pt = NoPage /\ e.tables = d.tables
      BY <1>7, <2>1
    <3>2. vm_free' = avail
      <4>1. NoPage \notin vm_free
        BY <1>1, AddressSpaceAssumption DEF VmTypes, PageSet
      <4> QED
        BY <1>19, <3>1, <4>1
    <3>3. PageAt'[z] = PageAt[z]
      <4>1. At(e, "table", n) = At(d, "table", n)
        BY <3>1 DEF At
      <4> QED
        BY <1>3, <1>8, <1>14, <1>15, <4>1, PlaceAt
    <3>4. \A y \in Place : PageAt'[y] = F[y]
      BY <1>16, <1>17, <1>18, <3>3
    <3> QED
      BY ONLY <1>20, <3>2, <3>4 DEF OnePlace
  <2>2. CASE n \notin DOMAIN d.tables
    <3>1. PICK pt : pt = r.pt
      OBVIOUS
    <3>2. pt \in vm_free /\ pt \in KernelPool /\ e.tables[n] = pt /\ n \in DOMAIN e.tables
      BY <1>7, <2>2, <3>1
    <3>3. pt \in avail /\ pt # NoPage
      BY <1>2, <1>19, <3>2, AddressSpaceAssumption
    <3>4. vm_free' = avail \ {pt}
      BY <1>19, <3>1
    <3>5. F[z] = NoPage
      <4>1. At(d, "table", n) = NoPage
        BY <2>2 DEF At
      <4> QED
        BY <1>3, <1>14, <1>15, <1>18, <4>1, PlaceAt
    <3>6. PageAt'[z] = pt
      <4>1. At(e, "table", n) = pt
        BY <3>2 DEF At
      <4> QED
        BY <1>8, <1>14, <1>15, <4>1, PlaceAt
    <3>7. \A y \in Place : y # z => PageAt'[y] = F[y]
      BY <1>16, <1>17, <1>18
    <3> QED
      BY ONLY <1>15, <1>20, <3>3, <3>4, <3>5, <3>6, <3>7, PageTaken
  <2> QED
    BY <2>1, <2>2
<1>22. PlaceInv'
  BY <1>21, PlaceAt
<1>23. ASSUME NEW q \in VmProc, NEW u \in DOMAIN vm_pd[q].map
       PROVE  vm_mem'[vm_pd[q].map[u].page] = vm_mem[vm_pd[q].map[u].page]
  <2>1. vm_pd[q] \in Dir
    BY <1>1, ProcAt
  <2>2. u \in VPage /\ vm_pd[q].map[u].page \in UserPool
    BY <2>1, DirAt
  <2>3. PICK y : y = <<q, 1, "map", u>>
    OBVIOUS
  <2>4. y \in Place
    BY <2>2, <2>3 DEF Place
  <2>5. PageAt[y] = vm_pd[q].map[u].page
    BY <2>3, <2>4, PlaceAt DEF At
  <2>6. PageAt[y] # kpage
    BY <1>1, <1>2, <2>4 DEF PlaceInv, OnePlace
  <2> QED
    BY <1>1, <2>2, <2>5, <2>6 DEF VmTypes
<1>24. vm_free' \subseteq PageSet
  BY <1>1 DEF VmTypes
<1> QED
  BY <1>3, <1>7, <1>8, <1>9, <1>10, <1>11, <1>22, <1>23, <1>24 DEF Mapped

-----------------------------------------------------------------------------
(***************************************************************************)
(* Addresses and pages.                                                    *)
(***************************************************************************)

LEMMA Divided ==
    ASSUME NEW x \in Nat, NEW p \in Nat \ {0}
    PROVE  /\ x \div p \in Nat /\ x % p \in 0 .. p - 1 /\ p * (x \div p) \in Nat
           /\ x = p * (x \div p) + (x % p)
  OBVIOUS

LEMMA Multiple ==
    ASSUME NEW n \in Nat, NEW p \in Nat \ {0}
    PROVE  (n * p) \div p = n
  OBVIOUS

LEMMA QuotientAbove ==
    ASSUME NEW x \in Nat, NEW p \in Nat \ {0}, x >= p
    PROVE  x \div p >= 1
  OBVIOUS

LEMMA QuotientSum ==
    ASSUME NEW x \in Nat, NEW p \in Nat \ {0}, NEW d \in Nat
    PROVE  /\ (x + d) \div p = (x \div p) + (((x % p) + d) \div p)
           /\ (x + d) % p = ((x % p) + d) % p
  OBVIOUS

LEMMA PagesSpanned ==
    ASSUME NEW x \in Nat, NEW m \in Nat \ {0}, NEW p \in Nat \ {0}, NEW n, n = ((x % p) + m + p - 1) \div p
    PROVE  /\ n \in Nat \ {0}
           /\ \A b \in Nat : x + m <= b * p => (x \div p) + n <= b
  OBVIOUS

LEMMA PageInSpan ==
    ASSUME NEW x \in Nat, NEW m \in Nat \ {0}, NEW p \in Nat \ {0}, NEW n, n = ((x % p) + m + p - 1) \div p,
           NEW k \in 0 .. m - 1
    PROVE  ((x % p) + k) \div p \in 0 .. n - 1
  OBVIOUS

LEMMA NotWrapped ==
    ASSUME NEW x \in Nat, NEW m \in Nat \ {0}, NEW a \in Nat \ {0}, x < a, m < a, (x + m) % a >= x
    PROVE  (x + m) % a = x + m
  OBVIOUS

\* A valid segment takes pages of user memory, none of them page 0.
LEMMA SegmentPages ==
    ASSUME NEW s \in VmSegment, NEW exe, validate_segment(s, exe)
    PROVE  /\ segment_pages(s) \in Nat \ {0} /\ s.vaddr \div VmPageSize \in Nat
           /\ \A j \in 0 .. segment_pages(s) - 1 : s.vaddr \div VmPageSize + j \in 1 .. PHYS_BASE - 1
           /\ segment_pages(s) = ((s.vaddr % VmPageSize) + s.memsz + VmPageSize - 1) \div VmPageSize
<1>1. PICK x \in 0 .. AddrWidth - 1, m \in 0 .. AddrWidth - 1 : x = s.vaddr /\ m = s.memsz
  BY DEF VmSegment
<1>2. PICK V \in Nat \ {0}, B \in Nat \ {0}, A \in Nat \ {0} : V = VmPageSize /\ B = PHYS_BASE /\ A = AddrWidth
  BY AddressSpaceAssumption
<1>3. /\ m # 0 /\ (x + m) % A < B * V /\ (x + m) % A >= x /\ x >= V
  BY <1>1, <1>2 DEF validate_segment
<1>4. x \in Nat /\ m \in Nat \ {0} /\ x < A /\ m < A
  BY <1>1, <1>2, <1>3
<1>5. x + m < B * V
  <2>1. (x + m) % A = x + m
    BY ONLY <1>3, <1>4, A \in Nat \ {0}, NotWrapped
  <2> QED
    BY <1>3, <2>1
<1>6. PICK n : n = ((x % V) + m + V - 1) \div V
  OBVIOUS
<1>7. /\ n \in Nat \ {0} /\ \A b \in Nat : x + m <= b * V => (x \div V) + n <= b
  BY ONLY <1>4, <1>6, V \in Nat \ {0}, PagesSpanned
<1>8. (x \div V) + n <= B
  <2>1. x + m <= B * V
    BY <1>5, <1>4
  <2> QED
    BY <1>7, <2>1
<1>9. x \div V \in Nat /\ x \div V >= 1 /\ x % V \in 0 .. V - 1
  BY ONLY <1>3, <1>4, V \in Nat \ {0}, Divided, QuotientAbove
<1>10. segment_pages(s) = n
  <2>1. read_bytes(s) \in Int
    <3>1. s.filesz \in Nat
      BY DEF VmSegment
    <3> QED
      BY <1>1, <1>2, <1>9, <3>1 DEF read_bytes
  <2>2. zero_bytes(s) = n * V - read_bytes(s)
    BY <1>1, <1>2, <1>6 DEF zero_bytes, ROUND_UP
  <2>3. n * V \in Nat
    BY <1>7
  <2>4. read_bytes(s) + zero_bytes(s) = n * V
    BY ONLY <2>1, <2>2, <2>3
  <2> QED
    BY <1>2, <1>7, <2>4, Multiple DEF segment_pages
<1>11. \A j \in 0 .. n - 1 : x \div V + j \in 1 .. B - 1
  BY ONLY <1>7, <1>8, <1>9, B \in Nat \ {0}
<1> QED
  BY <1>1, <1>2, <1>6, <1>7, <1>9, <1>10, <1>11

LEMMA ContentType ==
    ASSUME NEW s \in VmSegment, NEW i \in Nat
    PROVE  page_content(s, i) \in [0 .. VmPageSize - 1 -> Int]
<1>1. PICK V \in Nat \ {0} : V = VmPageSize
  BY AddressSpaceAssumption
<1>2. PICK f : f = file_page(s)
  OBVIOUS
<1>3. f \in Int
  <2>1. s.offset \in Nat
    BY AddressSpaceAssumption DEF VmSegment
  <2> QED
    BY <1>1, <1>2, <2>1, Divided DEF file_page
<1>4. i * V \in Int
  BY <1>1
<1>5. \A b \in 0 .. V - 1 : f + i * V + b + 1 \in Int
  BY <1>3, <1>4
<1> QED
  BY <1>1, <1>2, <1>5 DEF page_content
-----------------------------------------------------------------------------
(***************************************************************************)
(* Steps that put pages into an address space.                             *)
(***************************************************************************)

\* What is loaded stays loaded when another page is mapped.
LEMMA LoadedStays ==
    ASSUME NEW p, vm_proc'[p].exe = vm_proc[p].exe,
           DOMAIN vm_pd[p].map \subseteq DOMAIN vm_pd'[p].map,
           \A u \in DOMAIN vm_pd[p].map : vm_pd'[p].map[u] = vm_pd[p].map[u],
           \A u \in DOMAIN vm_pd[p].map : vm_mem'[vm_pd[p].map[u].page] = vm_mem[vm_pd[p].map[u].page]
    PROVE  /\ \A s, j : PageLoaded(p, s, j) => PageLoaded(p, s, j)'
           /\ \A s, n : Loaded(p, s, n) => Loaded(p, s, n)'
           /\ \A s : Valid(p, s) => Valid(p, s)'
<1>1. \A s, j : PageLoaded(p, s, j) => PageLoaded(p, s, j)'
  BY DEF PageLoaded
<1>2. \A s, n : Loaded(p, s, n) => Loaded(p, s, n)'
  BY <1>1 DEF Loaded
<1>3. \A s : Valid(p, s) => Valid(p, s)'
  BY <1>2 DEF Valid
<1> QED
  BY <1>1, <1>2, <1>3

\* What a process that maps one page keeps, whatever becomes of its own stage.
LEMMA MappedKeeps ==
    ASSUME VmInv, NEW p \in VmProc, vm_proc[p].at = "load",
           NEW v, NEW w, NEW content, Mapped(p, v, w, content), UNCHANGED <<vm_old, vm_cpu, vm_cr3>>,
           vm_proc' \in [VmProc -> [at : Stage, exe : VmExe \cup {NoExe}, seg : Nat \ {0}, done : Nat]],
           vm_proc'[p].at \in {"load", "user"}, \A q \in VmProc : q # p => vm_proc'[q] = vm_proc[q],
           LoadInv(p)'
    PROVE  VmInv'
<1>1. VmTypes /\ PlaceInv /\ CpuInv /\ StageInv(p)
  BY VmInvAt
<1>2. /\ vm_free' \subseteq PageSet /\ vm_mem' \in [UserPool -> [0 .. VmPageSize - 1 -> Int]]
      /\ vm_pd' \in [VmProc -> Dir] /\ PlaceInv' /\ DirInv(vm_pd'[p]) /\ vm_pd'[p].page = vm_pd[p].page
      /\ \A q \in VmProc : q # p => vm_pd'[q] = vm_pd[q]
      /\ \A q \in VmProc : \A u \in DOMAIN vm_pd[q].map :
            vm_mem'[vm_pd[q].map[u].page] = vm_mem[vm_pd[q].map[u].page]
  BY DEF Mapped
<1>3. VmTypes'
  BY <1>1, <1>2 DEF VmTypes
<1>4. CpuInv'
  BY <1>1, <1>2 DEF CpuInv
<1>5. ASSUME NEW q \in VmProc PROVE StageInv(q)' /\ LoadInv(q)'
  <2>1. CASE q = p
    <3>1. StageInv(p)'
      BY <1>1, <1>2 DEF StageInv
    <3> QED
      BY <2>1, <3>1
  <2>2. CASE q # p
    BY <1>2, <2>2, VmInvAt, OtherKeeps
  <2> QED
    BY <2>1, <2>2
<1> QED
  BY <1>2, <1>3, <1>4, <1>5 DEF VmInv

\* load_segment ().
LEMMA SegmentKeeps ==
    ASSUME VmInv, NEW p \in VmProc, load_segment(p)
    PROVE  VmInv'
<1>1. PICK pr : pr = vm_proc[p]
  OBVIOUS
<1>2. PICK s : s = pr.exe.segs[pr.seg]
  OBVIOUS
<1>3. PICK kpage : kpage = palloc_get_page(UserPool)
  OBVIOUS
<1>4. PICK v : v = s.vaddr \div VmPageSize + pr.done
  OBVIOUS
<1>5. PICK r : r = install_page(vm_pd[p], v, kpage, s.w)
  OBVIOUS
<1>6. PICK ok : ok = (/\ validate_segment(s, pr.exe) /\ kpage # NoPage
                      /\ page_is_in_file(s, pr.done, pr.exe) /\ r.ok)
  OBVIOUS
<1>7. PICK content : content = page_content(s, pr.done)
  OBVIOUS
<1>8. PICK sg, dn : /\ sg = (IF pr.done + 1 = segment_pages(s) THEN pr.seg + 1 ELSE pr.seg)
                    /\ dn = (IF pr.done + 1 = segment_pages(s) THEN 0 ELSE pr.done + 1)
  OBVIOUS
<1>9. VmTypes /\ PlaceInv /\ StageInv(p) /\ LoadInv(p)
  BY VmInvAt
<1>10. /\ pr \in [at : Stage, exe : VmExe \cup {NoExe}, seg : Nat \ {0}, done : Nat]
       /\ pr.exe.segs \in Seq(VmSegment) /\ DOMAIN vm_proc = VmProc /\ DOMAIN vm_pd = VmProc
  BY <1>1, <1>9, ProcAt
<1>11. /\ vm_cpu = p /\ pr.at = "load" /\ pr.seg <= Len(pr.exe.segs)
       /\ UNCHANGED <<vm_old, vm_cpu, vm_cr3>>
  BY <1>1 DEF load_segment, Runs1
<1>12. CASE ~ ok
  <2>1. Goes1(p, "exit") /\ UNCHANGED <<vm_free, vm_mem, vm_pd>>
    BY <1>1, <1>2, <1>3, <1>4, <1>5, <1>6, <1>12 DEF load_segment
  <2> QED
    BY <1>1, <1>11, <2>1, EndKeeps
<1>13. CASE ok
  <2>1. validate_segment(s, pr.exe) /\ kpage # NoPage /\ r.ok
    BY <1>6, <1>13
  <2>2. /\ vm_free' = vm_free \ {kpage, r.pt} /\ vm_mem' = [vm_mem EXCEPT ![kpage] = content]
        /\ vm_pd' = [vm_pd EXCEPT ![p] = r.dir]
        /\ vm_proc' = [vm_proc EXCEPT ![p].seg = IF pr.done + 1 = segment_pages(s) THEN @ + 1 ELSE @,
                                      ![p].done = IF pr.done + 1 = segment_pages(s) THEN 0 ELSE @ + 1]
    BY <1>1, <1>2, <1>3, <1>4, <1>5, <1>6, <1>7, <1>13 DEF load_segment
  <2>3. s \in VmSegment /\ pr.seg \in 1 .. Len(pr.exe.segs) /\ pr.done \in Nat
    BY <1>2, <1>10, <1>11
  <2>4. PICK n \in Nat \ {0} : n = segment_pages(s)
    BY <2>1, <2>3, SegmentPages
  <2>5. Loaded(p, s, pr.done) /\ (pr.done > 0 => pr.done < n)
    BY <1>1, <1>2, <1>9, <1>11, <2>4 DEF LoadInv
  <2>6. pr.done \in 0 .. n - 1
    BY <2>3, <2>4, <2>5
  <2>7. v \in 1 .. PHYS_BASE - 1
    BY <1>4, <2>1, <2>3, <2>4, <2>6, SegmentPages
  <2>8. s.w \in BOOLEAN
    BY <2>3 DEF VmSegment
  <2>9. content \in [0 .. VmPageSize - 1 -> Int]
    BY <1>7, <2>3, ContentType
  <2>10. PICK to : to = [at |-> "load", exe |-> pr.exe, seg |-> sg, done |-> dn]
    OBVIOUS
  <2>11. /\ vm_proc'[p] = to /\ \A q \in VmProc : q # p => vm_proc'[q] = vm_proc[q]
         /\ vm_proc' = [vm_proc EXCEPT ![p] = to]
    <3>1. [[pr EXCEPT !.seg = sg] EXCEPT !.done = dn] = to
      <4>1. PICK ex, se, du : pr = [at |-> "load", exe |-> ex, seg |-> se, done |-> du]
        BY <1>10, <1>11
      <4>2. [pr EXCEPT !.seg = sg] = [at |-> "load", exe |-> ex, seg |-> sg, done |-> du]
        BY ONLY <4>1
      <4>3. PICK q : q = [at |-> "load", exe |-> ex, seg |-> sg, done |-> du]
        OBVIOUS
      <4>4. [q EXCEPT !.done = dn] = [at |-> "load", exe |-> ex, seg |-> sg, done |-> dn]
        BY ONLY <4>3
      <4> QED
        BY <2>10, <4>1, <4>2, <4>3, <4>4
    <3>2. vm_proc' = [vm_proc EXCEPT ![p] = [[pr EXCEPT !.seg = sg] EXCEPT !.done = dn]]
      BY <1>1, <1>8, <1>10, <2>2
    <3> QED
      BY <1>10, <3>1, <3>2
  <2>12. sg \in Nat \ {0} /\ dn \in Nat
    BY <1>8, <1>10
  <2>13. vm_proc' \in [VmProc -> [at : Stage, exe : VmExe \cup {NoExe}, seg : Nat \ {0}, done : Nat]]
    <3>1. to \in [at : Stage, exe : VmExe \cup {NoExe}, seg : Nat \ {0}, done : Nat]
      BY <1>10, <2>10, <2>12 DEF Stage
    <3> QED
      BY <1>9, <2>11, <3>1 DEF VmTypes
  <2>14. Mapped(p, v, s.w, content)
    <3>1. PICK w \in BOOLEAN : w = s.w
      BY <2>8
    <3>2. r = install_page(vm_pd[p], v, kpage, w)
      BY <1>5, <3>1
    <3>3. vm_proc[p].at = "load" /\ vm_old' = vm_old
      BY <1>1, <1>11
    <3>4. /\ vm_free' = vm_free \ {kpage, r.pt} /\ vm_mem' = [vm_mem EXCEPT ![kpage] = content]
          /\ vm_pd' = [vm_pd EXCEPT ![p] = r.dir]
      BY <2>2
    <3>5. Mapped(p, v, w, content)
      BY ONLY VmInv, p \in VmProc, <1>3, <2>1, <2>7, <2>9, w \in BOOLEAN, <3>2, <3>3, <3>4, PageMapped
    <3> QED
      BY <3>1, <3>5
  <2>15. vm_proc'[p].exe = pr.exe /\ vm_proc'[p].at = "load" /\ vm_proc'[p].seg = sg /\ vm_proc'[p].done = dn
    BY <2>10, <2>11
  <2>16. /\ \A t, j : PageLoaded(p, t, j) => PageLoaded(p, t, j)'
         /\ \A t, j : Loaded(p, t, j) => Loaded(p, t, j)'
         /\ \A t : Valid(p, t) => Valid(p, t)'
    <3>1. /\ DOMAIN vm_pd[p].map \subseteq DOMAIN vm_pd'[p].map
          /\ \A u \in DOMAIN vm_pd[p].map : vm_pd'[p].map[u] = vm_pd[p].map[u]
          /\ \A u \in DOMAIN vm_pd[p].map : vm_mem'[vm_pd[p].map[u].page] = vm_mem[vm_pd[p].map[u].page]
      BY <2>14 DEF Mapped
    <3>2. vm_proc'[p].exe = vm_proc[p].exe
      BY <1>1, <2>15
    <3> QED
      BY ONLY <3>1, <3>2, LoadedStays
  <2>17. Loaded(p, s, pr.done + 1)'
    <3>1. PageLoaded(p, s, pr.done)'
      BY <1>4, <1>7, <2>14 DEF PageLoaded, Mapped
    <3>2. \A j \in 0 .. pr.done - 1 : PageLoaded(p, s, j)'
      BY <2>5, <2>16 DEF Loaded
    <3>3. \A j \in 0 .. (pr.done + 1) - 1 : j \in 0 .. pr.done - 1 \/ j = pr.done
      BY <2>3
    <3>4. validate_segment(s, vm_proc'[p].exe)
      BY <2>1, <2>15
    <3> QED
      BY <3>1, <3>2, <3>3, <3>4 DEF Loaded
  <2>18. LoadInv(p)'
    <3>1. PICK segs : segs = pr.exe.segs
      OBVIOUS
    <3>2. \A i \in 1 .. Len(segs) : i < pr.seg => Valid(p, segs[i])'
      <4>1. \A i \in 1 .. Len(segs) : i < pr.seg => Valid(p, segs[i])
        BY <1>1, <1>9, <1>11, <3>1 DEF LoadInv
      <4> QED
        BY <2>16, <4>1
    <3>3. segs \in Seq(VmSegment) /\ s = segs[pr.seg] /\ pr.seg \in 1 .. Len(segs)
      BY <1>2, <1>10, <2>3, <3>1
    <3>4. CASE pr.done + 1 = n
      <4>1. sg = pr.seg + 1 /\ dn = 0
        BY <1>8, <2>4, <3>4
      <4>2. Valid(p, s)'
        BY <2>4, <2>17, <3>4 DEF Valid
      <4>3. \A i \in 1 .. Len(segs) : i < sg => i < pr.seg \/ i = pr.seg
        BY <3>3, <4>1
      <4>4. \A t : Loaded(p, t, 0)'
        BY DEF Loaded
      <4>5. \A i \in 1 .. Len(segs) : i < sg => Valid(p, segs[i])'
        BY <3>2, <3>3, <4>2, <4>3
      <4>6. sg <= Len(segs) + 1
        BY <3>3, <4>1
      <4> QED
        BY <2>15, <3>1, <4>1, <4>4, <4>5, <4>6 DEF LoadInv
    <3>5. CASE pr.done + 1 # n
      <4>1. sg = pr.seg /\ dn = pr.done + 1
        BY <1>8, <2>4, <3>5
      <4>2. dn < n /\ sg <= Len(segs) + 1
        BY <2>4, <2>6, <3>3, <3>5, <4>1
      <4> QED
        BY <2>4, <2>15, <2>17, <3>1, <3>2, <3>3, <4>1, <4>2 DEF LoadInv
    <3> QED
      BY <3>4, <3>5
  <2> QED
    BY <1>1, <1>11, <2>11, <2>13, <2>14, <2>15, <2>18, MappedKeeps
<1>14. ok \in BOOLEAN
  BY <1>6
<1> QED
  BY <1>12, <1>13

\* setup_stack ().
LEMMA StackKeeps ==
    ASSUME VmInv, NEW p \in VmProc, setup_stack(p)
    PROVE  VmInv'
<1>1. PICK kpage : kpage = palloc_get_page(UserPool)
  OBVIOUS
<1>2. PICK v : v = PHYS_BASE - 1
  OBVIOUS
<1>3. PICK r : r = install_page(vm_pd[p], v, kpage, TRUE)
  OBVIOUS
<1>4. PICK ok : ok = (kpage # NoPage /\ r.ok)
  OBVIOUS
<1>5. PICK content : content = [b \in 0 .. VmPageSize - 1 |-> 0]
  OBVIOUS
<1>6. VmTypes /\ StageInv(p) /\ LoadInv(p)
  BY VmInvAt
<1>7. /\ vm_cpu = p /\ vm_proc[p].at = "load" /\ vm_proc[p].seg > Len(vm_proc[p].exe.segs)
      /\ Goes1(p, IF ok THEN "user" ELSE "exit")
      /\ vm_free' = IF ok THEN vm_free \ {kpage, r.pt} ELSE vm_free
      /\ vm_mem' = IF ok THEN [vm_mem EXCEPT ![kpage] = content] ELSE vm_mem
      /\ vm_pd' = IF ok THEN [vm_pd EXCEPT ![p] = r.dir] ELSE vm_pd
      /\ UNCHANGED <<vm_old, vm_cpu, vm_cr3>>
  BY <1>1, <1>2, <1>3, <1>4, <1>5 DEF setup_stack, Runs1
<1>8. ok \in BOOLEAN
  BY <1>4
<1>9. CASE ~ ok
  BY <1>7, <1>9, EndKeeps
<1>10. CASE ok
  <2>1. kpage # NoPage /\ r.ok
    BY <1>4, <1>10
  <2>2. /\ vm_free' = vm_free \ {kpage, r.pt} /\ vm_mem' = [vm_mem EXCEPT ![kpage] = content]
        /\ vm_pd' = [vm_pd EXCEPT ![p] = r.dir] /\ vm_old' = vm_old /\ Goes1(p, "user")
    BY <1>7, <1>10
  <2>3. v \in 1 .. PHYS_BASE - 1
    BY <1>2, AddressSpaceAssumption
  <2>4. content \in [0 .. VmPageSize - 1 -> Int]
    BY <1>5
  <2>5. Mapped(p, v, TRUE, content)
    <3>1. PICK w \in BOOLEAN : w = TRUE
      OBVIOUS
    <3>2. r = install_page(vm_pd[p], v, kpage, w) /\ vm_proc[p].at = "load"
      BY <1>3, <1>7, <3>1
    <3>3. Mapped(p, v, w, content)
      BY ONLY VmInv, p \in VmProc, w \in BOOLEAN, <1>1, <2>1, <2>2, <2>3, <2>4, <3>2, PageMapped
    <3> QED
      BY <3>1, <3>3
  <2>6. /\ vm_proc' \in [VmProc -> [at : Stage, exe : VmExe \cup {NoExe}, seg : Nat \ {0}, done : Nat]]
        /\ vm_proc'[p].at = "user" /\ vm_proc'[p].exe = vm_proc[p].exe
        /\ \A q \in VmProc : q # p => vm_proc'[q] = vm_proc[q]
    <3>1. "user" \in Stage
      BY DEF Stage
    <3> QED
      BY <1>6, <2>2, <3>1, StageChanged
  <2>7. \A t : Valid(p, t) => Valid(p, t)'
    <3>1. /\ DOMAIN vm_pd[p].map \subseteq DOMAIN vm_pd'[p].map
          /\ \A u \in DOMAIN vm_pd[p].map : vm_pd'[p].map[u] = vm_pd[p].map[u]
          /\ \A u \in DOMAIN vm_pd[p].map : vm_mem'[vm_pd[p].map[u].page] = vm_mem[vm_pd[p].map[u].page]
      BY <2>5 DEF Mapped
    <3> QED
      BY ONLY <2>6, <3>1, LoadedStays
  <2>8. LoadInv(p)'
    <3>1. PICK segs : segs = vm_proc[p].exe.segs
      OBVIOUS
    <3>2. \A i \in 1 .. Len(segs) : i < vm_proc[p].seg => Valid(p, segs[i])
      BY <1>6, <1>7, <3>1 DEF LoadInv
    <3>3. segs \in Seq(VmSegment) /\ vm_proc[p].seg \in Nat /\ vm_proc[p].seg > Len(segs)
      BY <1>6, <1>7, <3>1, ProcAt
    <3>4. \A i \in 1 .. Len(segs) : i < vm_proc[p].seg
      BY ONLY <3>3
    <3>5. \A i \in 1 .. Len(segs) : Valid(p, segs[i])'
      BY <2>7, <3>2, <3>4
    <3>6. PHYS_BASE - 1 \in DOMAIN vm_pd'[p].map
      BY <1>2, <2>5 DEF Mapped
    <3> QED
      BY <2>6, <3>1, <3>5, <3>6 DEF LoadInv
  <2> QED
    BY <1>7, <2>5, <2>6, <2>8, MappedKeeps
<1> QED
  BY <1>8, <1>9, <1>10
-----------------------------------------------------------------------------
(***************************************************************************)
(* Steps that take an address space apart.                                 *)
(***************************************************************************)

\* The end of process_exit ().
LEMMA ExitKeepsVm ==
    ASSUME VmInv, NEW p \in VmProc, process_exit(p)
    PROVE  VmInv'
<1>1. PICK at : at = IF vm_pd[p].page = NoPage THEN "gone" ELSE "leave"
  OBVIOUS
<1>2. /\ vm_cpu = p /\ vm_proc[p].at = "exit"
      /\ vm_old' = [vm_old EXCEPT ![p] = vm_pd[p]] /\ vm_pd' = [vm_pd EXCEPT ![p] = NoDir]
      /\ Goes1(p, at) /\ UNCHANGED <<vm_free, vm_mem, vm_cpu, vm_cr3>>
  BY <1>1 DEF process_exit, Runs1
<1>3. VmTypes /\ PlaceInv /\ CpuInv /\ StageInv(p)
  BY VmInvAt
<1>4. /\ vm_pd[p] \in Dir /\ vm_old[p] = NoDir /\ DirInv(vm_pd[p])
      /\ DOMAIN vm_pd = VmProc /\ DOMAIN vm_old = VmProc
  BY <1>2, <1>3, ProcAt DEF StageInv
<1>5. /\ vm_pd'[p] = NoDir /\ vm_old'[p] = vm_pd[p]
      /\ \A q \in VmProc : q # p => vm_pd'[q] = vm_pd[q] /\ vm_old'[q] = vm_old[q]
  BY <1>2, <1>4
<1>6. /\ vm_proc' \in [VmProc -> [at : Stage, exe : VmExe \cup {NoExe}, seg : Nat \ {0}, done : Nat]]
      /\ vm_proc'[p].at = at /\ \A q \in VmProc : q # p => vm_proc'[q] = vm_proc[q]
  <2>1. at \in Stage
    BY <1>1 DEF Stage
  <2> QED
    BY <1>2, <1>3, <2>1, StageChanged
<1>7. VmTypes'
  BY <1>2, <1>3, <1>4, <1>6, NoDirIs DEF VmTypes
<1>8. PlaceInv'
  <2>1. PICK h : h = [x \in Place |-> IF x[1] = p THEN <<x[1], 3 - x[2], x[3], x[4]>> ELSE x]
    OBVIOUS
  <2>2. \A x \in Place : x = <<x[1], x[2], x[3], x[4]>> /\ x[1] \in VmProc /\ x[2] \in {1, 2}
    BY DEF Place
  <2>3. ASSUME NEW x \in Place
        PROVE  h[x] \in Place /\ h[h[x]] = x /\ PageAt'[x] = PageAt[h[x]]
    <3>1. CASE x[1] = p
      <4>1. PICK y : y = <<x[1], 3 - x[2], x[3], x[4]>>
        OBVIOUS
      <4>2. y \in Place /\ y[1] = x[1] /\ y[2] = 3 - x[2] /\ y[3] = x[3] /\ y[4] = x[4]
        BY <4>1 DEF Place
      <4>3. h[x] = y
        BY <2>1, <3>1, <4>1
      <4>4. 3 - y[2] = x[2]
        BY <2>2, <4>2
      <4>5. h[y] = x
        BY <2>1, <2>2, <3>1, <4>2, <4>4
      <4>6. PageAt'[x] = PageAt[y]
        <5>1. CASE x[2] = 1
          BY <1>4, <1>5, <3>1, <4>2, <5>1, PlaceAt
        <5>2. CASE x[2] = 2
          BY <1>5, <3>1, <4>2, <5>2, PlaceAt
        <5> QED
          BY <2>2, <5>1, <5>2
      <4> QED
        BY <4>2, <4>3, <4>5, <4>6
    <3>2. CASE x[1] # p
      <4>1. h[x] = x
        BY <2>1, <3>2
      <4>2. PageAt'[x] = PageAt[x]
        BY <1>5, <2>2, <3>2, PlaceAt
      <4> QED
        BY <4>1, <4>2
    <3> QED
      BY <3>1, <3>2
  <2>4. h \in [Place -> Place]
    BY <2>1, <2>3
  <2>5. OnePlace(PageAt, vm_free)
    BY <1>3, PlaceAt
  <2>6. \A y \in Place : h[h[y]] = y /\ PageAt'[y] = PageAt[h[y]]
    BY <2>3
  <2>7. OnePlace(PageAt', vm_free)
    BY ONLY <2>4, <2>5, <2>6, PagesMoved
  <2> QED
    BY <1>2, <2>7, PlaceAt
<1>9. CpuInv'
  <2>1. vm_cr3 = vm_pd[p].page
    BY <1>2, <1>3 DEF CpuInv
  <2>2. p # NoPage /\ NoDir.page = NoPage
    BY AddressSpaceAssumption, NoDirIs
  <2> QED
    BY <1>1, <1>2, <1>5, <1>6, <2>1, <2>2 DEF CpuInv
<1>10. ASSUME NEW q \in VmProc PROVE StageInv(q)' /\ LoadInv(q)'
  <2>1. CASE q = p
    <3>1. StageInv(p)'
      BY <1>1, <1>4, <1>5, <1>6, NoDirIs DEF StageInv, DirInv
    <3>2. LoadInv(p)'
      BY <1>1, <1>6 DEF LoadInv
    <3> QED
      BY <2>1, <3>1, <3>2
  <2>2. CASE q # p
    BY <1>2, <1>5, <1>6, <2>2, VmInvAt, OtherKeeps
  <2> QED
    BY <2>1, <2>2
<1> QED
  BY <1>7, <1>8, <1>9, <1>10 DEF VmInv

\* What is left of a directory without a page table and the pages it maps.
LeftOf(d, e, first, mine) ==
    /\ e \in Dir /\ DirInv(e) /\ e.page = d.page
    /\ \A c, v : IF (c = "table" /\ v = first) \/ (c \notin {"dir", "table"} /\ v \in mine)
                 THEN At(e, c, v) = NoPage ELSE At(e, c, v) = At(d, c, v)

\* A page table, and the pages it maps, go back.
LEMMA TableGone ==
    ASSUME NEW d \in Dir, DirInv(d), d.page # NoPage, NEW first, first \in DOMAIN d.tables,
           NEW mine, mine = {v \in DOMAIN d.map : pd_no(v) = first},
           NEW e, e = [page |-> d.page, tables |-> Restrict(d.tables, DOMAIN d.tables \ {first}),
                       map |-> Restrict(d.map, DOMAIN d.map \ mine)]
    PROVE  LeftOf(d, e, first, mine)
<1>1. e.page = d.page
  OBVIOUS
<1>2. PICK S, f, g : S = [page : UserPool, w : BOOLEAN] /\ f = e.map /\ g = e.tables
  OBVIOUS
<1>3. d.map \in FunTo(S) /\ f = Restrict(d.map, DOMAIN d.map \ mine)
  BY <1>2, DirAt
<1>4. f \in FunTo(S) /\ DOMAIN f = DOMAIN d.map \ mine /\ \A y \in DOMAIN f : f[y] = d.map[y]
  <2>1. PICK h, D : h = d.map /\ D = DOMAIN d.map \ mine
    OBVIOUS
  <2>2. DOMAIN h \subseteq VPage /\ \A y \in DOMAIN h : h[y] \in S
    BY <1>3, <2>1, FunToIs
  <2>3. f = [y \in D |-> h[y]] /\ D \subseteq DOMAIN h
    BY <1>3, <2>1 DEF Restrict
  <2>4. DOMAIN f = D /\ (\A y \in D : f[y] = h[y]) /\ f \in [D -> S]
    BY <2>2, <2>3
  <2>5. f \in FunTo(S)
    BY <2>2, <2>3, <2>4, FunToIs
  <2> QED
    BY <2>1, <2>4, <2>5
<1>5. d.tables \in FunTo(KernelPool) /\ g = Restrict(d.tables, DOMAIN d.tables \ {first})
  BY <1>2, DirAt
<1>6. /\ g \in FunTo(KernelPool) /\ DOMAIN g = DOMAIN d.tables \ {first}
      /\ \A y \in DOMAIN g : g[y] = d.tables[y]
  <2>1. PICK h, D : h = d.tables /\ D = DOMAIN d.tables \ {first}
    OBVIOUS
  <2>2. DOMAIN h \subseteq VPage /\ \A y \in DOMAIN h : h[y] \in KernelPool
    BY <1>5, <2>1, FunToIs
  <2>3. g = [y \in D |-> h[y]] /\ D \subseteq DOMAIN h
    BY <1>5, <2>1 DEF Restrict
  <2>4. DOMAIN g = D /\ (\A y \in D : g[y] = h[y]) /\ g \in [D -> KernelPool]
    BY <2>2, <2>3
  <2>5. g \in FunTo(KernelPool)
    BY <2>2, <2>3, <2>4, FunToIs
  <2> QED
    BY <2>1, <2>4, <2>5
<1>7. e \in Dir
  <2>1. e = [page |-> d.page, tables |-> g, map |-> f]
    BY <1>2
  <2>2. d.page \in KernelPool \cup {NoPage}
    BY DirAt
  <2> QED
    BY <1>2, <1>4, <1>6, <2>1, <2>2 DEF Dir
<1>8. DirInv(e)
  <2>1. 0 \notin DOMAIN f
    BY <1>4 DEF DirInv
  <2>2. \A v \in DOMAIN f : pd_no(v) \in DOMAIN g
    BY <1>4, <1>6 DEF DirInv
  <2> QED
    BY <1>1, <1>2, <2>1, <2>2 DEF DirInv
<1>9. ASSUME NEW c, NEW v
      PROVE  IF (c = "table" /\ v = first) \/ (c \notin {"dir", "table"} /\ v \in mine)
             THEN At(e, c, v) = NoPage ELSE At(e, c, v) = At(d, c, v)
  <2>1. CASE c = "dir"
    BY <1>1, <2>1 DEF At
  <2>2. CASE c = "table"
    BY <1>2, <1>6, <2>2 DEF At
  <2>3. CASE c \notin {"dir", "table"}
    BY <1>2, <1>4, <2>3 DEF At
  <2> QED
    BY <2>1, <2>2, <2>3
<1> QED
  BY <1>1, <1>7, <1>8, <1>9 DEF LeftOf

\* pagedir_destroy ().
LEMMA DestroyKeeps ==
    ASSUME VmInv, NEW p \in VmProc, pagedir_destroy(p)
    PROVE  VmInv'
<1>1. PICK d : d = vm_old[p]
  OBVIOUS
<1>2. PICK first : first = Min(DOMAIN d.tables)
  OBVIOUS
<1>3. PICK mine : mine = {v \in DOMAIN d.map : pd_no(v) = first}
  OBVIOUS
<1>4. VmTypes /\ PlaceInv /\ CpuInv /\ StageInv(p)
  BY VmInvAt
<1>5. vm_cpu = p /\ vm_proc[p].at = "destroy" /\ UNCHANGED <<vm_mem, vm_pd, vm_cpu, vm_cr3>>
  BY DEF pagedir_destroy, Runs1
<1>6. /\ d \in Dir /\ DirInv(d) /\ d.page # NoPage /\ vm_pd[p] = NoDir /\ DOMAIN vm_old = VmProc
      /\ OnePlace(PageAt, vm_free)
  BY <1>1, <1>4, <1>5, ProcAt, PlaceAt DEF StageInv
<1>7. /\ DOMAIN d.tables \subseteq VPage /\ \A v \in DOMAIN d.tables : d.tables[v] \in KernelPool
      /\ DOMAIN d.map \subseteq VPage /\ \A v \in DOMAIN d.map : d.map[v].page \in UserPool
      /\ d.page \in KernelPool
  BY <1>6, DirAt
<1>8. NoPage \notin vm_free /\ NoPage \notin UserPool /\ NoPage \notin KernelPool
  BY <1>4, AddressSpaceAssumption DEF VmTypes, PageSet
<1>9. vm_cr3 = NoPage
  BY <1>4, <1>5, <1>6, NoDirIs DEF CpuInv
<1>10. CASE DOMAIN d.tables # {}
  <2>1. PICK e : e = [page |-> d.page, tables |-> Restrict(d.tables, DOMAIN d.tables \ {first}),
                      map |-> Restrict(d.map, DOMAIN d.map \ mine)]
    OBVIOUS
  <2>2. /\ vm_free' = vm_free \cup {d.map[v].page : v \in mine} \cup {d.tables[first]}
        /\ vm_old' = [vm_old EXCEPT ![p].map = Restrict(@, DOMAIN @ \ mine),
                                    ![p].tables = Restrict(@, DOMAIN @ \ {first})]
        /\ vm_proc' = vm_proc
    BY <1>1, <1>2, <1>3, <1>10 DEF pagedir_destroy
  <2>3. vm_old' = [vm_old EXCEPT ![p] = e]
    <3>1. PICK f, g : f = Restrict(d.map, DOMAIN d.map \ mine) /\ g = Restrict(d.tables, DOMAIN d.tables \ {first})
      OBVIOUS
    <3>2. d = [page |-> d.page, tables |-> d.tables, map |-> d.map]
      BY <1>6, DirAt
    <3>3. PICK c : c = [d EXCEPT !.map = f]
      OBVIOUS
    <3>4. c = [page |-> d.page, tables |-> d.tables, map |-> f]
      BY ONLY <3>2, <3>3
    <3>5. [c EXCEPT !.tables = g] = e
      BY <2>1, <3>1, <3>4
    <3>6. c.tables = d.tables
      BY <3>4
    <3>7. vm_old' = [vm_old EXCEPT ![p] = [[d EXCEPT !.map = f] EXCEPT !.tables = g]]
      BY <1>1, <1>6, <2>2, <3>1, <3>3, <3>6
    <3> QED
      BY <3>3, <3>5, <3>7
  <2>4. first \in DOMAIN d.tables
    <3>1. PICK S : S = DOMAIN d.tables
      OBVIOUS
    <3>2. S # {} /\ S \subseteq Nat
      BY <1>7, <1>10, <3>1, AddressSpaceAssumption DEF VPage
    <3>3. \E i \in S : \A n \in S : i <= n
      BY ONLY <3>2, LeastNumber
    <3>4. Min(S) \in S
      BY <3>3 DEF Min
    <3> QED
      BY <1>2, <3>1, <3>4
  <2>5. /\ e \in Dir /\ DirInv(e) /\ e.page = d.page
        /\ \A c, v : IF (c = "table" /\ v = first) \/ (c \notin {"dir", "table"} /\ v \in mine)
                     THEN At(e, c, v) = NoPage ELSE At(e, c, v) = At(d, c, v)
    <3>1. LeftOf(d, e, first, mine)
      BY ONLY <1>3, <1>6, <2>1, <2>4, TableGone
    <3> QED
      BY <3>1 DEF LeftOf
  <2>6. vm_old'[p] = e /\ \A q \in VmProc : q # p => vm_old'[q] = vm_old[q]
    BY <1>6, <2>3
  <2>7. \A x \in Place : IF x[1] = p /\ x[2] = 2 /\ ((x[3] = "table" /\ x[4] = first) \/ (x[3] = "map" /\ x[4] \in mine))
                         THEN PageAt'[x] = NoPage ELSE PageAt'[x] = PageAt[x]
    <3> SUFFICES ASSUME NEW x \in Place
                 PROVE  IF x[1] = p /\ x[2] = 2 /\ ((x[3] = "table" /\ x[4] = first) \/ (x[3] = "map" /\ x[4] \in mine))
                        THEN PageAt'[x] = NoPage ELSE PageAt'[x] = PageAt[x]
      OBVIOUS
    <3>1. x[1] \in VmProc /\ x[2] \in {1, 2} /\ x[3] \in {"dir", "table", "map"}
      BY DEF Place
    <3>2. CASE x[1] = p /\ x[2] = 2
      <4>1. PageAt'[x] = At(e, x[3], x[4]) /\ PageAt[x] = At(d, x[3], x[4])
        BY <1>1, <2>6, <3>2, PlaceAt
      <4> QED
        BY <2>5, <3>1, <3>2, <4>1
    <3>3. CASE ~ (x[1] = p /\ x[2] = 2)
      <4>1. PageAt'[x] = PageAt[x]
        BY <1>5, <2>6, <3>1, <3>3, PlaceAt
      <4> QED
        BY <3>3, <4>1
    <3> QED
      BY <3>2, <3>3
  <2>8. vm_free' = vm_free \cup {PageAt[y] : y \in {z \in Place : PageAt'[z] # PageAt[z]}}
    <3>1. \A v \in VPage : \A c \in {"dir", "table", "map"} :
             <<p, 2, c, v>> \in Place /\ PageAt[<<p, 2, c, v>>] = At(d, c, v)
      <4> SUFFICES ASSUME NEW v \in VPage, NEW c \in {"dir", "table", "map"}
                   PROVE  <<p, 2, c, v>> \in Place /\ PageAt[<<p, 2, c, v>>] = At(d, c, v)
        OBVIOUS
      <4>1. PICK y : y = <<p, 2, c, v>>
        OBVIOUS
      <4>2. y \in Place /\ y[1] = p /\ y[2] = 2 /\ y[3] = c /\ y[4] = v
        BY <4>1 DEF Place
      <4> QED
        BY <1>1, <4>1, <4>2, PlaceAt
    <3>2. \A v \in mine : v \in VPage /\ v \in DOMAIN d.map /\ At(d, "map", v) = d.map[v].page /\ d.map[v].page # NoPage
      BY <1>3, <1>7, <1>8 DEF At
    <3>3. first \in VPage /\ At(d, "table", first) = d.tables[first] /\ d.tables[first] # NoPage
      BY <1>7, <1>8, <2>4 DEF At
    <3>4. ASSUME NEW k, k = d.tables[first] \/ \E v \in mine : k = d.map[v].page
          PROVE  \E y \in Place : PageAt'[y] # PageAt[y] /\ k = PageAt[y]
      <4>1. CASE k = d.tables[first]
        <5>1. PICK y : y = <<p, 2, "table", first>>
          OBVIOUS
        <5>2. y \in Place /\ PageAt[y] = k /\ k # NoPage
          BY <3>1, <3>3, <4>1, <5>1
        <5>3. PageAt'[y] = NoPage
          BY <2>7, <5>1, <5>2
        <5> QED
          BY <5>2, <5>3
      <4>2. CASE \E v \in mine : k = d.map[v].page
        <5>0. PICK v \in mine : k = d.map[v].page
          BY <4>2
        <5>1. PICK y : y = <<p, 2, "map", v>>
          OBVIOUS
        <5>2. y \in Place /\ PageAt[y] = k /\ k # NoPage
          BY <3>1, <3>2, <5>0, <5>1
        <5>3. PageAt'[y] = NoPage
          BY <2>7, <5>1, <5>2
        <5> QED
          BY <5>2, <5>3
      <4> QED
        BY <3>4, <4>1, <4>2
    <3>5. ASSUME NEW y \in Place, PageAt'[y] # PageAt[y]
          PROVE  PageAt[y] = d.tables[first] \/ \E v \in mine : PageAt[y] = d.map[v].page
      <4>1. y[1] = p /\ y[2] = 2 /\ ((y[3] = "table" /\ y[4] = first) \/ (y[3] = "map" /\ y[4] \in mine))
        BY <2>7, <3>5
      <4>2. PageAt[y] = At(d, y[3], y[4])
        BY <1>1, <4>1, PlaceAt
      <4> QED
        BY <3>2, <3>3, <4>1, <4>2
    <3>6. PICK T : T = {PageAt[y] : y \in {z \in Place : PageAt'[z] # PageAt[z]}}
      OBVIOUS
    <3>7. PICK U : U = {d.map[v].page : v \in mine} \cup {d.tables[first]}
      OBVIOUS
    <3>8. \A k : k \in U <=> k = d.tables[first] \/ \E v \in mine : k = d.map[v].page
      BY <3>7
    <3>9. \A k : k \in T <=> \E y \in Place : PageAt'[y] # PageAt[y] /\ k = PageAt[y]
      BY <3>6
    <3>10. U \subseteq T
      BY <3>4, <3>8, <3>9
    <3>11. T \subseteq U
      BY <3>5, <3>8, <3>9
    <3>12. vm_free' = vm_free \cup U
      BY <2>2, <3>7
    <3> QED
      BY <3>6, <3>10, <3>11, <3>12
  <2>9. PlaceInv'
    <3>1. \A y \in Place : PageAt'[y] = PageAt[y] \/ PageAt'[y] = NoPage
      BY <2>7
    <3>2. OnePlace(PageAt', vm_free')
      BY ONLY <1>6, <1>8, <2>8, <3>1, PagesGiven
    <3> QED
      BY <3>2, PlaceAt
  <2>10. VmTypes'
    <3>1. vm_free' \subseteq PageSet
      BY <1>3, <1>4, <1>7, <2>2, <2>4 DEF VmTypes, PageSet
    <3> QED
      BY <1>4, <1>5, <2>2, <2>3, <2>5, <3>1 DEF VmTypes
  <2>11. CpuInv'
    BY <1>4, <1>5, <1>6, <1>9, <2>2, AddressSpaceAssumption, NoDirIs DEF CpuInv
  <2>12. ASSUME NEW q \in VmProc PROVE StageInv(q)' /\ LoadInv(q)'
    <3>1. CASE q = p
      <4>1. StageInv(p)'
        BY <1>4, <1>5, <1>6, <2>2, <2>5, <2>6 DEF StageInv
      <4>2. LoadInv(p)'
        BY <1>5, <2>2 DEF LoadInv
      <4> QED
        BY <3>1, <4>1, <4>2
    <3>2. CASE q # p
      BY <1>5, <2>2, <2>6, <3>2, VmInvAt, OtherKeeps
    <3> QED
      BY <3>1, <3>2
  <2> QED
    BY <2>9, <2>10, <2>11, <2>12 DEF VmInv
<1>11. CASE DOMAIN d.tables = {}
  <2>1. /\ vm_free' = vm_free \cup {d.page} /\ vm_old' = [vm_old EXCEPT ![p] = NoDir] /\ Goes1(p, "gone")
    BY <1>1, <1>11 DEF pagedir_destroy
  <2>2. vm_old'[p] = NoDir /\ \A q \in VmProc : q # p => vm_old'[q] = vm_old[q]
    BY <1>6, <2>1
  <2>3. DOMAIN d.map = {}
    BY <1>6, <1>11 DEF DirInv
  <2>4. PICK x : x = <<p, 2, "dir", 0>>
    OBVIOUS
  <2>5. x \in Place /\ PageAt[x] = d.page
    <3>1. x \in Place
      BY <2>4, AddressSpaceAssumption DEF Place, VPage
    <3>2. At(d, "dir", 0) = d.page
      BY DEF At
    <3> QED
      BY <1>1, <2>4, <3>1, <3>2, PlaceAt
  <2>6. PageAt'[x] = NoPage
    BY <2>2, <2>4, <2>5, PlaceAt, NoDirIs
  <2>7. ASSUME NEW y \in Place, y # x PROVE PageAt'[y] = PageAt[y]
    <3>1. y = <<y[1], y[2], y[3], y[4]>> /\ y[1] \in VmProc /\ y[2] \in {1, 2}
      BY DEF Place
    <3>2. CASE y[1] = p /\ y[2] = 2
      <4>1. ~ (y[3] = "dir" /\ y[4] = 0)
        BY <2>4, <2>7, <3>1, <3>2
      <4>2. At(d, y[3], y[4]) = NoPage
        BY <1>11, <2>3, <4>1 DEF At
      <4> QED
        BY <1>1, <2>2, <3>2, <4>2, PlaceAt, NoDirIs
    <3>3. CASE ~ (y[1] = p /\ y[2] = 2)
      BY <1>5, <2>2, <3>1, <3>3, PlaceAt
    <3> QED
      BY <3>2, <3>3
  <2>8. PlaceInv'
    <3>1. \A y \in Place : PageAt'[y] = PageAt[y] \/ PageAt'[y] = NoPage
      BY <2>6, <2>7
    <3>2. {y \in Place : PageAt'[y] # PageAt[y]} = {x}
      BY <1>6, <2>5, <2>6, <2>7
    <3>3. vm_free' = vm_free \cup {PageAt[y] : y \in {z \in Place : PageAt'[z] # PageAt[z]}}
      BY <2>1, <2>5, <3>2
    <3>4. OnePlace(PageAt', vm_free')
      BY ONLY <1>6, <1>8, <3>1, <3>3, PagesGiven
    <3> QED
      BY <3>4, PlaceAt
  <2>9. /\ vm_proc' \in [VmProc -> [at : Stage, exe : VmExe \cup {NoExe}, seg : Nat \ {0}, done : Nat]]
        /\ vm_proc'[p].at = "gone" /\ \A q \in VmProc : q # p => vm_proc'[q] = vm_proc[q]
    <3>1. "gone" \in Stage
      BY DEF Stage
    <3> QED
      BY <1>4, <2>1, <3>1, StageChanged
  <2>10. VmTypes'
    <3>1. vm_free' \subseteq PageSet
      BY <1>4, <1>7, <2>1 DEF VmTypes, PageSet
    <3> QED
      BY <1>4, <1>5, <2>1, <2>9, <3>1, NoDirIs DEF VmTypes
  <2>11. CpuInv'
    BY <1>4, <1>5, <1>6, <1>9, AddressSpaceAssumption, NoDirIs DEF CpuInv
  <2>12. ASSUME NEW q \in VmProc PROVE StageInv(q)' /\ LoadInv(q)'
    <3>1. CASE q = p
      <4>1. StageInv(p)'
        BY <1>4, <1>5, <1>6, <2>2, <2>9, NoDirIs DEF StageInv
      <4>2. LoadInv(p)'
        BY <2>9 DEF LoadInv
      <4> QED
        BY <3>1, <4>1, <4>2
    <3>2. CASE q # p
      BY <1>5, <2>2, <2>9, <3>2, VmInvAt, OtherKeeps
    <3> QED
      BY <3>1, <3>2
  <2> QED
    BY <2>8, <2>10, <2>11, <2>12 DEF VmInv
<1> QED
  BY <1>10, <1>11
-----------------------------------------------------------------------------
(***************************************************************************)
(* What the invariant means.                                               *)
(***************************************************************************)

\* Holdings are the places that hold something, each with its page.
LEMMA HoldingPlaces ==
    ASSUME VmInv, NEW k, k # NoPage
    PROVE  /\ \A h \in Holdings : h[1] = k => \E x \in Place : h = <<k, x>> /\ PageAt[x] = k
           /\ \A x \in Place : PageAt[x] = k => <<k, x>> \in Holdings
<1>1. \A p \in VmProc, i \in {1, 2} : Held(p)[i] = (IF i = 1 THEN vm_pd[p] ELSE vm_old[p])
  BY DEF Held
<1>2. \A p \in VmProc, i \in {1, 2} : DOMAIN Held(p)[i].tables \subseteq VPage /\ DOMAIN Held(p)[i].map \subseteq VPage
  <2> SUFFICES ASSUME NEW p \in VmProc, NEW i \in {1, 2}
               PROVE  DOMAIN Held(p)[i].tables \subseteq VPage /\ DOMAIN Held(p)[i].map \subseteq VPage
    OBVIOUS
  <2>1. vm_pd[p] \in Dir /\ vm_old[p] \in Dir
    BY DEF VmInv, VmTypes
  <2>2. Held(p)[i] \in Dir
    BY <2>1 DEF Held
  <2>3. Held(p)[i].tables \in FunTo(KernelPool) /\ Held(p)[i].map \in FunTo([page : UserPool, w : BOOLEAN])
    BY <2>2 DEF Dir
  <2> QED
    BY <2>3, FunToIs
<1>3. \A p \in VmProc, i \in {1, 2}, c \in {"dir", "table", "map"}, v \in VPage :
         <<p, i, c, v>> \in Place /\ PageAt[<<p, i, c, v>>] = At(Held(p)[i], c, v)
  <2> SUFFICES ASSUME NEW p \in VmProc, NEW i \in {1, 2}, NEW c \in {"dir", "table", "map"}, NEW v \in VPage
               PROVE  <<p, i, c, v>> \in Place /\ PageAt[<<p, i, c, v>>] = At(Held(p)[i], c, v)
    OBVIOUS
  <2>1. PICK y : y = <<p, i, c, v>>
    OBVIOUS
  <2>2. y \in Place /\ y[1] = p /\ y[2] = i /\ y[3] = c /\ y[4] = v
    BY <2>1 DEF Place
  <2> QED
    BY <1>1, <2>1, <2>2, PlaceAt
<1>4. 0 \in VPage
  BY AddressSpaceAssumption DEF VPage
<1> DEFINE From(p, i, h) ==
         \/ h = <<Held(p)[i].page, <<p, i, "dir", 0>>>>
         \/ \E v \in DOMAIN Held(p)[i].tables : h = <<Held(p)[i].tables[v], <<p, i, "table", v>>>>
         \/ \E v \in DOMAIN Held(p)[i].map : h = <<Held(p)[i].map[v].page, <<p, i, "map", v>>>>
<1>5. \A h : h \in Holdings <=> \E y \in VmProc \X (1 .. 2) : From(y[1], y[2], h)
  BY DEF Holdings
<1>6. \A h : h \in Holdings <=> \E p \in VmProc, i \in {1, 2} : From(p, i, h)
  <2> HIDE DEF From
  <2>1. \A y \in VmProc \X (1 .. 2) : y[1] \in VmProc /\ y[2] \in {1, 2}
    OBVIOUS
  <2>2. ASSUME NEW h, NEW p \in VmProc, NEW i \in {1, 2}, From(p, i, h)
        PROVE  h \in Holdings
    <3>1. PICK y : y = <<p, i>>
      OBVIOUS
    <3>2. y \in VmProc \X (1 .. 2) /\ y[1] = p /\ y[2] = i
      BY <3>1
    <3> QED
      BY <1>5, <2>2, <3>2
  <2> QED
    BY <1>5, <2>1, <2>2
<1>7. ASSUME NEW h \in Holdings, h[1] = k
      PROVE  \E x \in Place : h = <<k, x>> /\ PageAt[x] = k
  <2>1. PICK p \in VmProc, i \in {1, 2} : From(p, i, h)
    BY <1>6, <1>7
  <2>2. CASE h = <<Held(p)[i].page, <<p, i, "dir", 0>>>>
    <3>1. At(Held(p)[i], "dir", 0) = k /\ h = <<k, <<p, i, "dir", 0>>>>
      BY <1>7, <2>2 DEF At
    <3> QED
      BY <1>3, <1>4, <3>1
  <2>3. ASSUME NEW v \in DOMAIN Held(p)[i].tables, h = <<Held(p)[i].tables[v], <<p, i, "table", v>>>>
        PROVE  \E x \in Place : h = <<k, x>> /\ PageAt[x] = k
    <3>1. At(Held(p)[i], "table", v) = k /\ h = <<k, <<p, i, "table", v>>>>
      BY <1>7, <2>3 DEF At
    <3> QED
      BY <1>2, <1>3, <3>1
  <2>4. ASSUME NEW v \in DOMAIN Held(p)[i].map, h = <<Held(p)[i].map[v].page, <<p, i, "map", v>>>>
        PROVE  \E x \in Place : h = <<k, x>> /\ PageAt[x] = k
    <3>1. At(Held(p)[i], "map", v) = k /\ h = <<k, <<p, i, "map", v>>>>
      BY <1>7, <2>4 DEF At
    <3> QED
      BY <1>2, <1>3, <3>1
  <2> QED
    BY <2>1, <2>2, <2>3, <2>4
<1>8. ASSUME NEW x \in Place, PageAt[x] = k
      PROVE  <<k, x>> \in Holdings
  <2>1. PICK p \in VmProc, i \in {1, 2}, c \in {"dir", "table", "map"}, v \in VPage : x = <<p, i, c, v>>
    BY DEF Place
  <2>2. At(Held(p)[i], c, v) = k
    BY <1>3, <1>8, <2>1
  <2>3. CASE c = "dir"
    <3>1. v = 0 /\ Held(p)[i].page = k
      BY <2>2, <2>3 DEF At
    <3> QED
      BY <1>6, <2>1, <2>3, <3>1
  <2>4. CASE c = "table"
    <3>1. v \in DOMAIN Held(p)[i].tables /\ Held(p)[i].tables[v] = k
      BY <2>2, <2>4 DEF At
    <3> QED
      BY <1>6, <2>1, <2>4, <3>1
  <2>5. CASE c = "map"
    <3>1. v \in DOMAIN Held(p)[i].map /\ Held(p)[i].map[v].page = k
      BY <2>2, <2>5 DEF At
    <3> QED
      BY <1>6, <2>1, <2>5, <3>1
  <2> QED
    BY <2>3, <2>4, <2>5
<1> QED
  BY <1>7, <1>8

LEMMA HeldOnce ==
    ASSUME VmInv, NEW k \in PageSet
    PROVE  Cardinality({h \in Holdings : h[1] = k}) = IF k \in vm_free THEN 0 ELSE 1
<1>1. PICK S : S = {h \in Holdings : h[1] = k}
  OBVIOUS
<1>2. OnePlace(PageAt, vm_free) /\ k # NoPage
  BY VmInvAt, PlaceAt, AddressSpaceAssumption DEF PageSet
<1>3. \A h \in S : \E x \in Place : h = <<k, x>> /\ PageAt[x] = k
  BY <1>1, <1>2, HoldingPlaces
<1>4. \A x \in Place : PageAt[x] = k => <<k, x>> \in S
  BY <1>1, <1>2, HoldingPlaces
<1>5. CASE k \in vm_free
  <2>1. S = {}
    BY <1>2, <1>3, <1>5 DEF OnePlace
  <2> QED
    BY <1>1, <1>5, <2>1, FS_EmptySet
<1>6. CASE k \notin vm_free
  <2>1. PICK x \in Place : PageAt[x] = k
    BY <1>2, <1>6 DEF OnePlace
  <2>2. \A y \in Place : PageAt[y] = k => y = x
    BY <1>2, <2>1 DEF OnePlace
  <2>3. S = {<<k, x>>}
    BY <1>3, <1>4, <2>1, <2>2
  <2>4. Cardinality(S) = 1
    BY <2>3, FS_Singleton
  <2> QED
    BY <1>1, <1>6, <2>4
<1> QED
  BY <1>5, <1>6

\* A byte of a segment is in the page that has its part of the file.
LEMMA ContentAt ==
    ASSUME NEW s \in VmSegment, s.offset % VmPageSize = s.vaddr % VmPageSize, NEW k \in Nat,
           NEW j, j = ((s.vaddr % VmPageSize) + k) \div VmPageSize,
           NEW b, b = ((s.vaddr % VmPageSize) + k) % VmPageSize
    PROVE  page_content(s, j)[b] = IF k < s.filesz THEN s.offset + k + 1 ELSE 0
<1>1. PICK V \in Nat \ {0} : V = VmPageSize
  BY AddressSpaceAssumption
<1>2. PICK x \in Nat, o \in Nat, f \in Nat : x = s.vaddr /\ o = s.offset /\ f = s.filesz
  BY AddressSpaceAssumption DEF VmSegment
<1>3. PICK y : y = x % V
  OBVIOUS
<1>4. y \in 0 .. V - 1
  BY <1>3
<1>5. y + k \in Nat
  BY <1>4
<1>6. j = (y + k) \div V /\ b = (y + k) % V /\ o % V = y
  BY <1>1, <1>2, <1>3
<1>7. j \in Nat /\ b \in 0 .. V - 1 /\ V * j \in Nat /\ y + k = V * j + b
  BY ONLY <1>5, <1>6, V \in Nat \ {0}, Divided
<1>8. o \div V \in Nat /\ V * (o \div V) \in Nat /\ o = V * (o \div V) + y
  BY ONLY <1>6, o \in Nat, V \in Nat \ {0}, Divided
<1>9. PICK t \in Nat : t = j * V
  <2>1. j * V = V * j
    BY ONLY <1>7, V \in Nat \ {0}
  <2> QED
    BY <1>7, <2>1
<1>10. PICK u \in Nat : u = (o \div V) * V
  <2>1. (o \div V) * V = V * (o \div V)
    BY ONLY <1>8, V \in Nat \ {0}
  <2> QED
    BY <1>8, <2>1
<1>11. y + k = t + b /\ o = u + y
  <2>1. j * V = V * j /\ (o \div V) * V = V * (o \div V)
    BY ONLY <1>7, <1>8, V \in Nat \ {0}
  <2> QED
    BY <1>7, <1>8, <1>9, <1>10, <2>1
<1>12. file_page(s) = u
  BY <1>1, <1>2, <1>10 DEF file_page
<1>13. PICK g : g = read_bytes(s)
  OBVIOUS
<1>14. g = IF f > 0 THEN y + f ELSE 0
  BY <1>1, <1>2, <1>3, <1>13 DEF read_bytes
<1>15. PICK l : l = page_read_bytes(s, j)
  OBVIOUS
<1>16. l = IF g - t < 0 THEN 0 ELSE IF g - t < V THEN g - t ELSE V
  BY <1>1, <1>9, <1>13, <1>15 DEF page_read_bytes
<1>17. b < l <=> k < f
  BY ONLY <1>4, <1>7, <1>11, <1>14, <1>16, f \in Nat, k \in Nat, t \in Nat, V \in Nat \ {0}
<1>18. page_content(s, j)[b] = IF b < l THEN u + t + b + 1 ELSE 0
  BY <1>1, <1>7, <1>9, <1>12, <1>15 DEF page_content
<1>19. u + t + b + 1 = o + k + 1
  BY ONLY <1>4, <1>7, <1>11, u \in Nat, t \in Nat, k \in Nat, V \in Nat \ {0}
<1> QED
  BY <1>2, <1>17, <1>18, <1>19

\* A process that runs finds its segments in memory.
LEMMA SegmentsThere ==
    ASSUME VmInv, NEW p \in VmProc, vm_proc[p].at = "user", NEW i \in DOMAIN vm_proc[p].exe.segs,
           NEW s, s = vm_proc[p].exe.segs[i], NEW k \in 0 .. s.memsz - 1
    PROVE  /\ Byte(p, s.vaddr + k) = IF k < s.filesz THEN s.offset + k + 1 ELSE 0
           /\ vm_pd[p].map[(s.vaddr + k) \div VmPageSize].w = s.w
<1>1. VmTypes /\ LoadInv(p)
  BY VmInvAt
<1>2. PICK segs \in Seq(VmSegment) : segs = vm_proc[p].exe.segs
  BY <1>1, ProcAt
<1>3. s \in VmSegment /\ i \in 1 .. Len(segs)
  BY <1>2
<1>4. Valid(p, s)
  BY <1>1, <1>2, <1>3 DEF LoadInv
<1>5. validate_segment(s, vm_proc[p].exe)
  BY <1>4 DEF Valid, Loaded
<1>6. PICK V \in Nat \ {0} : V = VmPageSize
  BY AddressSpaceAssumption
<1>7. PICK x \in Nat, m \in Nat \ {0} : x = s.vaddr /\ m = s.memsz
  <2>1. s.vaddr \in 0 .. AddrWidth - 1 /\ s.memsz \in 0 .. AddrWidth - 1
    BY <1>3 DEF VmSegment
  <2>2. s.memsz # 0
    BY <1>5 DEF validate_segment
  <2> QED
    BY <2>1, <2>2
<1>8. PICK n : n = segment_pages(s)
  OBVIOUS
<1>9. n = ((x % V) + m + V - 1) \div V
  BY <1>3, <1>5, <1>6, <1>7, <1>8, SegmentPages
<1>10. PICK j, b : j = ((x % V) + k) \div V /\ b = ((x % V) + k) % V
  OBVIOUS
<1>11. k \in 0 .. m - 1 /\ k \in Nat
  BY <1>7
<1>12. j \in 0 .. n - 1
  <2>1. ((x % V) + k) \div V \in 0 .. n - 1
    BY ONLY <1>9, <1>11, x \in Nat, m \in Nat \ {0}, V \in Nat \ {0}, PageInSpan
  <2> QED
    BY <1>10, <2>1
<1>13. (x + k) \div V = (x \div V) + j /\ (x + k) % V = b
  BY ONLY <1>10, <1>11, x \in Nat, V \in Nat \ {0}, QuotientSum
<1>14. PageLoaded(p, s, j)
  BY <1>4, <1>8, <1>12 DEF Valid, Loaded
<1>15. /\ vm_pd[p].map[(x + k) \div V].w = s.w
       /\ vm_mem[vm_pd[p].map[(x + k) \div V].page] = page_content(s, j)
  BY <1>6, <1>7, <1>13, <1>14 DEF PageLoaded
<1>16. Byte(p, x + k) = page_content(s, j)[b]
  BY <1>6, <1>13, <1>15 DEF Byte
<1>17. s.offset % V = x % V
  BY <1>5, <1>6, <1>7 DEF validate_segment
<1>18. page_content(s, j)[b] = IF k < s.filesz THEN s.offset + k + 1 ELSE 0
  <2>1. /\ s.offset % VmPageSize = s.vaddr % VmPageSize
        /\ j = ((s.vaddr % VmPageSize) + k) \div VmPageSize /\ b = ((s.vaddr % VmPageSize) + k) % VmPageSize
    BY <1>6, <1>7, <1>10, <1>17
  <2> QED
    BY ONLY <1>3, <1>11, <2>1, ContentAt
<1> QED
  BY <1>6, <1>7, <1>15, <1>16, <1>18

LEMMA VmInvMeans == VmInv => VmSound
<1> SUFFICES ASSUME VmInv PROVE VmSound
  OBVIOUS
<1>1. VmTypes /\ PlaceInv /\ CpuInv /\ \A p \in VmProc : StageInv(p) /\ LoadInv(p)
  BY VmInvAt
<1>2. VmTypeOK
  <2>1. \A p \in VmProc : vm_proc[p].at \in Stage
    BY <1>1, ProcAt
  <2> QED
    BY <1>1, <2>1 DEF VmTypeOK, VmTypes, PageSet, Stage
<1>3. vm_cr3 # NoPage => \E p \in VmProc : vm_cr3 \in {vm_pd[p].page, vm_old[p].page} /\ vm_cpu = p
  BY <1>1 DEF VmTypes, CpuInv
<1>4. vm_cr3 \notin vm_free
  <2>1. CASE vm_cr3 = NoPage
    BY <1>1, <2>1, AddressSpaceAssumption DEF VmTypes, PageSet
  <2>2. CASE vm_cr3 # NoPage
    <3>1. PICK p \in VmProc : vm_cr3 \in {vm_pd[p].page, vm_old[p].page}
      BY <1>3, <2>2
    <3>2. PICK i \in {1, 2} : vm_cr3 = (IF i = 1 THEN vm_pd[p] ELSE vm_old[p]).page
      BY <3>1
    <3>3. PICK x : x = <<p, i, "dir", 0>>
      OBVIOUS
    <3>4. x \in Place
      BY <3>3, AddressSpaceAssumption DEF Place, VPage
    <3>5. PageAt[x] = vm_cr3
      BY <3>2, <3>3, <3>4, PlaceAt DEF At
    <3> QED
      BY <1>1, <3>4, <3>5, PlaceAt DEF OnePlace
  <2> QED
    BY <2>1, <2>2
<1>5. \A k \in UserPool \cup KernelPool :
         Cardinality({h \in Holdings : h[1] = k}) = IF k \in vm_free THEN 0 ELSE 1
  BY HeldOnce DEF PageSet
<1>6. ASSUME NEW p \in VmProc, vm_proc[p].at = "user"
      PROVE  0 \notin DOMAIN vm_pd[p].map /\ PHYS_BASE - 1 \in DOMAIN vm_pd[p].map
  BY <1>1, <1>6 DEF StageInv, DirInv, LoadInv
<1> QED
  BY <1>2, <1>3, <1>4, <1>5, <1>6, SegmentsThere DEF VmSound

LEMMA VmStarts == VmInit => VmInv
<1> SUFFICES ASSUME VmInit PROVE VmInv
  OBVIOUS
<1>1. /\ vm_free = PageSet /\ vm_mem = [k \in UserPool |-> [b \in 0 .. VmPageSize - 1 |-> 0]]
      /\ vm_pd = [p \in VmProc |-> NoDir] /\ vm_old = [p \in VmProc |-> NoDir]
      /\ vm_proc = [p \in VmProc |-> [at |-> "new", exe |-> NoExe, seg |-> 1, done |-> 0]]
      /\ vm_cpu = NoPage /\ vm_cr3 = NoPage
  BY DEF VmInit, PageSet
<1>2. VmTypes
  <2>1. [b \in 0 .. VmPageSize - 1 |-> 0] \in [0 .. VmPageSize - 1 -> Int]
    OBVIOUS
  <2>2. [at |-> "new", exe |-> NoExe, seg |-> 1, done |-> 0]
           \in [at : Stage, exe : VmExe \cup {NoExe}, seg : Nat \ {0}, done : Nat]
    BY DEF Stage
  <2> QED
    BY <1>1, <2>1, <2>2, NoDirIs DEF VmTypes
<1>3. \A x \in Place : PageAt[x] = NoPage
  <2>1. \A x \in Place : x[1] \in VmProc
    BY DEF Place
  <2> QED
    BY <1>1, <2>1, PlaceAt, NoDirIs
<1>4. PlaceInv
  BY <1>1, <1>3, AddressSpaceAssumption DEF PlaceInv, OnePlace, PageSet
<1>5. CpuInv
  BY <1>1, AddressSpaceAssumption DEF CpuInv
<1>6. ASSUME NEW p \in VmProc PROVE StageInv(p) /\ LoadInv(p)
  <2>1. vm_pd[p] = NoDir /\ vm_old[p] = NoDir /\ vm_proc[p].at = "new"
    BY <1>1
  <2> QED
    BY <2>1, NoDirIs DEF StageInv, LoadInv
<1> QED
  BY <1>2, <1>4, <1>5, <1>6 DEF VmInv

LEMMA VmKeeps == VmInv /\ [VmNext]_vmVars => VmInv'
<1> SUFFICES ASSUME VmInv, [VmNext]_vmVars PROVE VmInv'
  OBVIOUS
<1>1. CASE VmNext
  <2>1. PICK p \in VmProc :
           \/ \E exe \in VmExe : load(p, exe)
           \/ load_segment(p) \/ setup_stack(p) \/ process_activate(p) \/ page_fault(p)
           \/ process_exit(p) \/ pagedir_activate_base(p) \/ pagedir_destroy(p) \/ thread_ends(p)
    BY <1>1 DEF VmNext
  <2>2. CASE \E exe \in VmExe : load(p, exe)
    BY <2>2, LoadKeeps
  <2>3. CASE load_segment(p)
    BY <2>3, SegmentKeeps
  <2>4. CASE setup_stack(p)
    BY <2>4, StackKeeps
  <2>5. CASE process_activate(p)
    BY <2>5, ActivateKeeps
  <2>6. CASE page_fault(p)
    <3>1. /\ vm_proc[p].at \in {"load", "user"} /\ Goes1(p, "exit")
          /\ UNCHANGED <<vm_free, vm_mem, vm_pd, vm_old, vm_cpu, vm_cr3>>
      BY <2>6 DEF page_fault, Runs1
    <3> QED
      BY <3>1, EndKeeps
  <2>7. CASE process_exit(p)
    BY <2>7, ExitKeepsVm
  <2>8. CASE pagedir_activate_base(p) \/ thread_ends(p)
    BY <2>8, LeaveKeepsVm
  <2>9. CASE pagedir_destroy(p)
    BY <2>9, DestroyKeeps
  <2> QED
    BY <2>1, <2>2, <2>3, <2>4, <2>5, <2>6, <2>7, <2>8, <2>9
<1>2. CASE UNCHANGED vmVars
  <2>1. /\ UNCHANGED <<vm_free, vm_mem, vm_pd, vm_old, vm_proc, vm_cpu, vm_cr3>>
    BY <1>2 DEF vmVars
  <2>2. VmTypes'
    BY <2>1, VmInvAt DEF VmTypes
  <2>3. PlaceInv'
    BY <2>1, VmInvAt, SamePlaces
  <2>4. CpuInv'
    BY <2>1, VmInvAt DEF CpuInv
  <2>5. ASSUME NEW q \in VmProc PROVE StageInv(q)' /\ LoadInv(q)'
    BY <2>1, VmInvAt, OtherKeeps
  <2> QED
    BY <2>2, <2>3, <2>4, <2>5 DEF VmInv
<1> QED
  BY <1>1, <1>2

\* The active page directory is never one that was given back, a page is free or in
\* one place of one process, and a process that runs finds its executable in memory
\* (load, process_exit, pagedir_destroy and install_page), for any executables,
\* pools and page size.
THEOREM VmAlwaysSound == VmSpec => []VmSound
<1>1. VmInit => VmInv
  BY VmStarts
<1>2. VmInv /\ [VmNext]_vmVars => VmInv'
  BY VmKeeps
<1>3. VmInv => VmSound
  BY VmInvMeans
<1> QED
  BY <1>1, <1>2, <1>3, PTL DEF VmSpec
-----------------------------------------------------------------------------
(*****************************************************************************)
(* mm_alloc.                                                                 *)
(*****************************************************************************)

MmBlock == [ptr : Nat, size : Nat, is_free : BOOLEAN]
\* A header and the data of each block, one after the other.
Apart(B) == \A i, j \in 1 .. Len(B) : i < j => BlockEnd(B[i]) + BLOCK_SIZE <= B[j].ptr
InHeap(B, brk) == \A i \in 1 .. Len(B) : BLOCK_SIZE <= B[i].ptr /\ BlockEnd(B[i]) <= brk
Coalesced(B) == \A i \in 1 .. Len(B) : i + 1 <= Len(B) => ~ (B[i].is_free /\ B[i + 1].is_free)
Shaped(B, brk) == B \in Seq(MmBlock) /\ Apart(B) /\ InHeap(B, brk) /\ Coalesced(B)
Lent(B, i, h) == ~ B[i].is_free /\ h = <<B[i].ptr, B[i].size>>
Holding(B, H) == \A h : h \in H <=> \E i \in 1 .. Len(B) : Lent(B, i, h)
MmGood(B, brk, H) ==
    Shaped(B, brk) /\ brk \in 0 .. MaxBrk /\ H \subseteq (0 .. MaxBrk) \X MmSize /\ Holding(B, H)

\* R is B with M in the place of the blocks from lo to hi.
Replaces(R, B, M, lo, hi) ==
    /\ R \in Seq(MmBlock) /\ Len(R) = lo - 1 + Len(M) + Len(B) - hi
    /\ \A k \in 1 .. lo - 1 : R[k] = B[k]
    /\ \A k \in 1 .. Len(M) : R[lo - 1 + k] = M[k]
    /\ \A k \in hi + 1 .. Len(B) : R[lo - 1 + Len(M) + k - hi] = B[k]

LEMMA TwoLists ==
    ASSUME NEW a \in Seq(MmBlock), NEW c \in Seq(MmBlock)
    PROVE  /\ a \o c \in Seq(MmBlock) /\ Len(a \o c) = Len(a) + Len(c)
           /\ \A k \in 1 .. Len(a) : (a \o c)[k] = a[k]
           /\ \A k \in 1 .. Len(c) : (a \o c)[Len(a) + k] = c[k]
OBVIOUS

LEMMA ReplacedList ==
    ASSUME NEW B \in Seq(MmBlock), NEW M \in Seq(MmBlock), NEW lo \in 1 .. Len(B), NEW hi \in lo .. Len(B)
    PROVE  Replaces(SubSeq(B, 1, lo - 1) \o M \o SubSeq(B, hi + 1, Len(B)), B, M, lo, hi)
<1>1. PICK a : a = SubSeq(B, 1, lo - 1)
  OBVIOUS
<1>2. PICK c : c = SubSeq(B, hi + 1, Len(B))
  OBVIOUS
<1>3. a \in Seq(MmBlock) /\ Len(a) = lo - 1 /\ \A k \in 1 .. lo - 1 : a[k] = B[k]
  BY <1>1
<1>4. c \in Seq(MmBlock) /\ Len(c) = Len(B) - hi /\ \A k \in 1 .. Len(B) - hi : c[k] = B[hi + k]
  BY <1>2
<1>5. PICK e : e = a \o M
  OBVIOUS
<1>6. PICK R : R = e \o c
  OBVIOUS
<1>7. Len(M) \in Nat /\ Len(B) \in Nat /\ lo \in Nat /\ hi \in Nat /\ 1 <= lo /\ lo <= hi /\ hi <= Len(B)
  OBVIOUS
<1>8. /\ e \in Seq(MmBlock) /\ Len(e) = lo - 1 + Len(M)
      /\ \A k \in 1 .. lo - 1 : e[k] = B[k]
      /\ \A k \in 1 .. Len(M) : e[lo - 1 + k] = M[k]
  <2>1. /\ e \in Seq(MmBlock) /\ Len(e) = Len(a) + Len(M)
        /\ \A k \in 1 .. Len(a) : e[k] = a[k]
        /\ \A k \in 1 .. Len(M) : e[Len(a) + k] = M[k]
    BY <1>3, <1>5, TwoLists
  <2> QED
    BY ONLY <1>3, <2>1
<1>9. /\ R \in Seq(MmBlock) /\ Len(R) = Len(e) + Len(c)
      /\ \A k \in 1 .. Len(e) : R[k] = e[k]
      /\ \A k \in 1 .. Len(c) : R[Len(e) + k] = c[k]
  BY <1>4, <1>6, <1>8, TwoLists
<1>10. ASSUME NEW k \in hi + 1 .. Len(B) PROVE R[lo - 1 + Len(M) + k - hi] = B[k]
  <2>1. k - hi \in 1 .. Len(c) /\ Len(e) + (k - hi) = lo - 1 + Len(M) + k - hi /\ hi + (k - hi) = k
        /\ k - hi \in 1 .. Len(B) - hi
    BY <1>4, <1>7, <1>8
  <2> QED
    BY <1>4, <1>9, <2>1
<1>11. \A k \in 1 .. lo - 1 : R[k] = B[k]
  BY <1>7, <1>8, <1>9
<1>12. \A k \in 1 .. Len(M) : R[lo - 1 + k] = M[k]
  BY <1>7, <1>8, <1>9
<1>13. Len(R) = lo - 1 + Len(M) + Len(B) - hi
  BY <1>4, <1>7, <1>8, <1>9
<1>14. Replaces(R, B, M, lo, hi)
  BY ONLY <1>9, <1>10, <1>11, <1>12, <1>13 DEF Replaces
<1> QED
  BY <1>1, <1>2, <1>5, <1>6, <1>14

\* M fits where the blocks from lo to hi are.
Fits(M, B, lo, hi) ==
    /\ M \in Seq(MmBlock) /\ Len(M) > 0 /\ Apart(M) /\ Coalesced(M)
    /\ \A k \in 1 .. Len(M) : B[lo].ptr <= M[k].ptr /\ BlockEnd(M[k]) <= BlockEnd(B[hi])
    /\ lo > 1 /\ M[1].is_free => ~ B[lo - 1].is_free
    /\ hi < Len(B) /\ M[Len(M)].is_free => ~ B[hi + 1].is_free

\* Where a block of R comes from.
LEMMA ReplacedFrom ==
    ASSUME NEW B \in Seq(MmBlock), NEW M \in Seq(MmBlock), NEW lo \in 1 .. Len(B), NEW hi \in lo .. Len(B),
           NEW R, Replaces(R, B, M, lo, hi), NEW i \in 1 .. Len(R)
    PROVE  \/ i < lo /\ i \in 1 .. Len(B) /\ R[i] = B[i]
           \/ i >= lo /\ i <= lo - 1 + Len(M) /\ i - lo + 1 \in 1 .. Len(M) /\ R[i] = M[i - lo + 1]
           \/ i > lo - 1 + Len(M) /\ i - lo + 1 - Len(M) + hi \in hi + 1 .. Len(B)
              /\ R[i] = B[i - lo + 1 - Len(M) + hi]
<1>1. CASE i < lo
  BY <1>1 DEF Replaces
<1>2. CASE i >= lo /\ i <= lo - 1 + Len(M)
  <2>1. i - lo + 1 \in 1 .. Len(M) /\ lo - 1 + (i - lo + 1) = i
    BY <1>2
  <2> QED
    BY <1>2, <2>1 DEF Replaces
<1>3. CASE i > lo - 1 + Len(M)
  <2>1. PICK k : k = i - lo + 1 - Len(M) + hi
    OBVIOUS
  <2>2. k \in hi + 1 .. Len(B) /\ lo - 1 + Len(M) + k - hi = i
    <3>1. Len(M) \in Nat /\ Len(B) \in Nat /\ lo \in Nat /\ hi \in Nat /\ i \in Nat
      OBVIOUS
    <3>2. i <= lo - 1 + Len(M) + Len(B) - hi
      BY DEF Replaces
    <3> QED
      BY ONLY <1>3, <2>1, <3>1, <3>2
  <2> QED
    BY <1>3, <2>1, <2>2 DEF Replaces
<1> QED
  BY <1>1, <1>2, <1>3 DEF Replaces

LEMMA BlockAt ==
    ASSUME NEW B \in Seq(MmBlock), NEW i \in 1 .. Len(B)
    PROVE  /\ B[i] \in MmBlock /\ B[i].ptr \in Nat /\ B[i].size \in Nat /\ B[i].is_free \in BOOLEAN
           /\ BlockEnd(B[i]) \in Nat /\ B[i].ptr <= BlockEnd(B[i]) /\ BlockEnd(B[i]) = B[i].ptr + B[i].size
<1>1. B[i] \in MmBlock
  OBVIOUS
<1> QED
  BY <1>1 DEF MmBlock, BlockEnd

LEMMA PtrsDiffer ==
    ASSUME NEW B, NEW brk, Shaped(B, brk), NEW i \in 1 .. Len(B), NEW k \in 1 .. Len(B), k # i
    PROVE  B[k].ptr # B[i].ptr
<1>1. B \in Seq(MmBlock) /\ BLOCK_SIZE \in Nat \ {0}
  BY MmAssumption DEF Shaped
<1>2. B[i].ptr \in Nat /\ B[k].ptr \in Nat /\ BlockEnd(B[i]) \in Nat /\ BlockEnd(B[k]) \in Nat
      /\ B[i].ptr <= BlockEnd(B[i]) /\ B[k].ptr <= BlockEnd(B[k])
  BY <1>1, BlockAt
<1>3. CASE i < k
  BY <1>1, <1>2, <1>3 DEF Shaped, Apart
<1>4. CASE k < i
  BY <1>1, <1>2, <1>4 DEF Shaped, Apart
<1> QED
  BY <1>1, <1>3, <1>4

LEMMA RoomChain ==
    /\ \A a, b, c, d \in Nat : a + d <= b /\ b <= c => a + d <= c
    /\ \A a, b, c, d \in Nat : a <= b /\ b + d <= c => a + d <= c
OBVIOUS

LEMMA ReplacedShaped ==
    ASSUME NEW B, NEW brk \in Nat, Shaped(B, brk), NEW lo \in 1 .. Len(B), NEW hi \in lo .. Len(B), NEW M,
           Fits(M, B, lo, hi), NEW R, Replaces(R, B, M, lo, hi)
    PROVE  Shaped(R, brk)
<1>1. B \in Seq(MmBlock) /\ M \in Seq(MmBlock) /\ R \in Seq(MmBlock) /\ BLOCK_SIZE \in Nat
  BY MmAssumption DEF Shaped, Fits, Replaces
<1>2. PICK m : m = Len(M)
  OBVIOUS
<1>3. m \in Nat /\ m > 0
  BY <1>1, <1>2 DEF Fits
\* Any block of R against the blocks of B that stay.
<1>4. ASSUME NEW k \in 1 .. m
      PROVE  /\ BLOCK_SIZE <= M[k].ptr /\ BlockEnd(M[k]) <= brk
             /\ \A i \in 1 .. lo - 1 : BlockEnd(B[i]) + BLOCK_SIZE <= M[k].ptr
             /\ \A j \in hi + 1 .. Len(B) : BlockEnd(M[k]) + BLOCK_SIZE <= B[j].ptr
  <2>1. B[lo].ptr <= M[k].ptr /\ BlockEnd(M[k]) <= BlockEnd(B[hi])
    BY <1>2 DEF Fits
  <2>2. /\ M[k].ptr \in Nat /\ BlockEnd(M[k]) \in Nat /\ B[lo].ptr \in Nat /\ BlockEnd(B[hi]) \in Nat
    BY <1>1, <1>2, BlockAt
  <2>3. BLOCK_SIZE <= B[lo].ptr /\ BlockEnd(B[hi]) <= brk
    BY DEF Shaped, InHeap
  <2>4. ASSUME NEW i \in 1 .. lo - 1 PROVE BlockEnd(B[i]) + BLOCK_SIZE <= M[k].ptr
    <3>1. BlockEnd(B[i]) + BLOCK_SIZE <= B[lo].ptr
      BY DEF Shaped, Apart
    <3>2. BlockEnd(B[i]) \in Nat
      <4>1. i \in 1 .. Len(B)
        BY <1>1
      <4> QED
        BY ONLY <1>1, <4>1, BlockAt
    <3> QED
      BY ONLY <1>1, <2>1, <2>2, <3>1, <3>2, RoomChain
  <2>5. ASSUME NEW j \in hi + 1 .. Len(B) PROVE BlockEnd(M[k]) + BLOCK_SIZE <= B[j].ptr
    <3>1. BlockEnd(B[hi]) + BLOCK_SIZE <= B[j].ptr
      BY DEF Shaped, Apart
    <3>2. B[j].ptr \in Nat
      BY <1>1, BlockAt
    <3> QED
      BY ONLY <1>1, <2>1, <2>2, <3>1, <3>2, RoomChain
  <2> QED
    BY <1>1, <2>1, <2>2, <2>3, <2>4, <2>5
<1>5. InHeap(R, brk)
  <2>1. ASSUME NEW i \in 1 .. Len(R) PROVE BLOCK_SIZE <= R[i].ptr /\ BlockEnd(R[i]) <= brk
    <3>0. hi + 1 .. Len(B) \subseteq 1 .. Len(B)
      BY <1>1
    <3>1. \/ \E k \in 1 .. Len(B) : R[i] = B[k]
          \/ \E k \in 1 .. m : R[i] = M[k]
      <4>1. \/ i < lo /\ i \in 1 .. Len(B) /\ R[i] = B[i]
            \/ i >= lo /\ i <= lo - 1 + m /\ i - lo + 1 \in 1 .. m /\ R[i] = M[i - lo + 1]
            \/ i > lo - 1 + m /\ i - lo + 1 - m + hi \in hi + 1 .. Len(B)
                /\ R[i] = B[i - lo + 1 - m + hi]
        BY <1>1, <1>2, ReplacedFrom
      <4> QED
        BY ONLY <3>0, <4>1
    <3> QED
      BY <1>4, <3>1 DEF Shaped, InHeap
  <2> QED
    BY <2>1 DEF InHeap
<1>6. Apart(R)
  <2>1. ASSUME NEW i \in 1 .. Len(R), NEW j \in 1 .. Len(R), i < j
        PROVE  BlockEnd(R[i]) + BLOCK_SIZE <= R[j].ptr
    <3>1. i \in Nat /\ j \in Nat /\ lo \in Nat /\ hi \in Nat
      BY <1>1
    <3>2. \/ i < lo /\ i \in 1 .. Len(B) /\ R[i] = B[i]
          \/ i >= lo /\ i <= lo - 1 + m /\ i - lo + 1 \in 1 .. m /\ R[i] = M[i - lo + 1]
          \/ i > lo - 1 + m /\ i - lo + 1 - m + hi \in hi + 1 .. Len(B)
              /\ R[i] = B[i - lo + 1 - m + hi]
      BY <1>1, <1>2, ReplacedFrom
    <3>3. \/ j < lo /\ j \in 1 .. Len(B) /\ R[j] = B[j]
          \/ j >= lo /\ j <= lo - 1 + m /\ j - lo + 1 \in 1 .. m /\ R[j] = M[j - lo + 1]
          \/ j > lo - 1 + m /\ j - lo + 1 - m + hi \in hi + 1 .. Len(B)
              /\ R[j] = B[j - lo + 1 - m + hi]
      BY <1>1, <1>2, ReplacedFrom
    <3>4. CASE j < lo
      BY <1>3, <2>1, <3>1, <3>2, <3>3, <3>4 DEF Shaped, Apart
    <3>5. CASE i < lo /\ j >= lo /\ j <= lo - 1 + m
      BY <1>3, <1>4, <3>1, <3>2, <3>3, <3>5
    <3>6. CASE i < lo /\ j > lo - 1 + m
      <4>1. PICK k : k = j - lo + 1 - m + hi
        OBVIOUS
      <4>2. k \in 1 .. Len(B) /\ i \in 1 .. Len(B) /\ i < k /\ R[i] = B[i] /\ R[j] = B[k]
        <5>1. i \in 1 .. Len(B) /\ R[i] = B[i]
          BY ONLY <1>3, <3>1, <3>2, <3>6
        <5>2. k \in hi + 1 .. Len(B) /\ R[j] = B[k]
          BY ONLY <1>3, <3>1, <3>3, <3>6, <4>1
        <5>3. i < k /\ k \in 1 .. Len(B)
          BY <1>1, <3>1, <3>6, <5>1, <5>2
        <5> QED
          BY <5>1, <5>2, <5>3
      <4> QED
        BY <4>2 DEF Shaped, Apart
    <3>7. CASE i >= lo /\ j <= lo - 1 + m
      <4>1. PICK k : k = i - lo + 1
        OBVIOUS
      <4>2. PICK l : l = j - lo + 1
        OBVIOUS
      <4>3. k \in 1 .. m /\ l \in 1 .. m /\ k < l /\ R[i] = M[k] /\ R[j] = M[l]
        BY <1>3, <2>1, <3>1, <3>2, <3>3, <3>7, <4>1, <4>2
      <4> QED
        BY <1>2, <4>3 DEF Fits, Apart
    <3>8. CASE i >= lo /\ i <= lo - 1 + m /\ j > lo - 1 + m
      BY <1>3, <1>4, <3>1, <3>2, <3>3, <3>8
    <3>9. CASE i > lo - 1 + m
      <4>1. PICK k : k = i - lo + 1 - m + hi
        OBVIOUS
      <4>2. PICK l : l = j - lo + 1 - m + hi
        OBVIOUS
      <4>3. k \in 1 .. Len(B) /\ l \in 1 .. Len(B) /\ k < l /\ R[i] = B[k] /\ R[j] = B[l]
        BY <1>3, <2>1, <3>1, <3>2, <3>3, <3>9, <4>1, <4>2
      <4> QED
        BY <4>3 DEF Shaped, Apart
    <3> QED
      BY <1>3, <2>1, <3>1, <3>4, <3>5, <3>6, <3>7, <3>8, <3>9
  <2> QED
    BY <2>1 DEF Apart
<1>7. Coalesced(R)
  <2>1. ASSUME NEW i \in 1 .. Len(R), i + 1 <= Len(R) PROVE ~ (R[i].is_free /\ R[i + 1].is_free)
    <3>0. i + 1 \in 1 .. Len(R)
      BY <1>1, <2>1
    <3>1. i \in Nat /\ lo \in Nat /\ hi \in Nat
      BY <1>1
    <3>2. \/ i < lo /\ i \in 1 .. Len(B) /\ R[i] = B[i]
          \/ i >= lo /\ i <= lo - 1 + m /\ i - lo + 1 \in 1 .. m /\ R[i] = M[i - lo + 1]
          \/ i > lo - 1 + m /\ i - lo + 1 - m + hi \in hi + 1 .. Len(B)
              /\ R[i] = B[i - lo + 1 - m + hi]
      BY <1>1, <1>2, ReplacedFrom
    <3>3. \/ i + 1 < lo /\ i + 1 \in 1 .. Len(B) /\ R[i + 1] = B[i + 1]
          \/ i + 1 >= lo /\ i + 1 <= lo - 1 + m /\ i - lo + 2 \in 1 .. m /\ R[i + 1] = M[i - lo + 2]
          \/ i + 1 > lo - 1 + m /\ i - lo + 2 - m + hi \in hi + 1 .. Len(B)
              /\ R[i + 1] = B[i - lo + 2 - m + hi]
      <4>1. PICK j : j = i + 1
        OBVIOUS
      <4>2. j \in 1 .. Len(R)
        BY <3>0, <4>1
      <4>3. \/ j < lo /\ j \in 1 .. Len(B) /\ R[j] = B[j]
            \/ j >= lo /\ j <= lo - 1 + m /\ j - lo + 1 \in 1 .. m /\ R[j] = M[j - lo + 1]
            \/ j > lo - 1 + m /\ j - lo + 1 - m + hi \in hi + 1 .. Len(B)
                /\ R[j] = B[j - lo + 1 - m + hi]
        BY <1>1, <1>2, <4>2, ReplacedFrom
      <4>4. j - lo + 1 = i - lo + 2 /\ j = i + 1 /\ j - lo + 1 - m + hi = i - lo + 2 - m + hi
        BY <1>3, <3>1, <4>1
      <4> QED
        BY ONLY <4>3, <4>4
    <3>4. CASE i + 1 < lo
      BY <1>3, <3>1, <3>2, <3>3, <3>4 DEF Shaped, Coalesced
    <3>5. CASE i + 1 = lo
      <4>1. R[i] = B[lo - 1] /\ R[i + 1] = M[1] /\ lo > 1
        BY <1>3, <3>1, <3>2, <3>3, <3>5
      <4> QED
        BY <4>1 DEF Fits
    <3>6. CASE i >= lo /\ i + 1 <= lo - 1 + m
      <4>1. PICK k : k = i - lo + 1
        OBVIOUS
      <4>2. k \in 1 .. m /\ k + 1 <= m /\ R[i] = M[k] /\ R[i + 1] = M[k + 1]
        BY <1>3, <3>1, <3>2, <3>3, <3>6, <4>1
      <4> QED
        BY <1>2, <4>2 DEF Fits, Coalesced
    <3>7. CASE i = lo - 1 + m
      <4>1. i - lo + 1 = m /\ i - lo + 2 - m + hi = hi + 1
        BY <1>3, <3>1, <3>7
      <4>2. R[i] = M[m]
        BY <1>3, <3>1, <3>2, <3>7, <4>1
      <4>3. R[i + 1] = B[hi + 1] /\ hi + 1 \in hi + 1 .. Len(B)
        <5>1. ~ (i + 1 < lo) /\ ~ (i + 1 <= lo - 1 + m)
          BY <1>3, <3>1, <3>7
        <5> QED
          BY ONLY <3>3, <4>1, <5>1
      <4>4. hi < Len(B)
        BY <3>1, <4>3
      <4> QED
        BY <1>2, <4>2, <4>3, <4>4 DEF Fits
    <3>8. CASE i > lo - 1 + m
      <4>1. PICK k : k = i - lo + 1 - m + hi
        OBVIOUS
      <4>2. k \in 1 .. Len(B) /\ k + 1 <= Len(B) /\ R[i] = B[k] /\ R[i + 1] = B[k + 1]
        BY <1>3, <3>1, <3>2, <3>3, <3>8, <4>1
      <4> QED
        BY <4>2 DEF Shaped, Coalesced
    <3> QED
      BY <1>3, <3>1, <3>4, <3>5, <3>6, <3>7, <3>8
  <2> QED
    BY <2>1 DEF Coalesced
<1> QED
  BY <1>1, <1>5, <1>6, <1>7 DEF Shaped

\* The blocks in use of R: those of B that stay, and those of M.
LEMMA ReplacedHeld ==
    ASSUME NEW B \in Seq(MmBlock), NEW M \in Seq(MmBlock), NEW lo \in 1 .. Len(B), NEW hi \in lo .. Len(B),
           NEW R, Replaces(R, B, M, lo, hi), NEW h
    PROVE  (\E i \in 1 .. Len(R) : Lent(R, i, h)) <=>
              \/ \E i \in 1 .. Len(B) : (i < lo \/ i > hi) /\ Lent(B, i, h)
              \/ \E k \in 1 .. Len(M) : Lent(M, k, h)
<1>1. PICK m : m = Len(M)
  OBVIOUS
<1>2. m \in Nat /\ Len(B) \in Nat /\ lo \in Nat /\ hi \in Nat /\ 1 <= lo /\ lo <= hi /\ hi <= Len(B)
  BY <1>1
<1>3. ASSUME NEW i \in 1 .. Len(R), Lent(R, i, h)
      PROVE  \/ \E k \in 1 .. Len(B) : (k < lo \/ k > hi) /\ Lent(B, k, h)
             \/ \E k \in 1 .. Len(M) : Lent(M, k, h)
  <2>1. \/ i < lo /\ i \in 1 .. Len(B) /\ R[i] = B[i]
        \/ i >= lo /\ i <= lo - 1 + m /\ i - lo + 1 \in 1 .. m /\ R[i] = M[i - lo + 1]
        \/ i > lo - 1 + m /\ i - lo + 1 - m + hi \in hi + 1 .. Len(B)
              /\ R[i] = B[i - lo + 1 - m + hi]
    BY <1>1, ReplacedFrom
  <2>2. \A k \in hi + 1 .. Len(B) : k \in 1 .. Len(B) /\ k > hi
    BY <1>2
  <2> QED
    BY ONLY <1>1, <1>3, <2>1, <2>2 DEF Lent
<1>4. ASSUME NEW i \in 1 .. Len(B), i < lo \/ i > hi, Lent(B, i, h)
      PROVE  \E k \in 1 .. Len(R) : Lent(R, k, h)
  <2>1. Len(R) = lo - 1 + m + Len(B) - hi /\ i \in Nat /\ i >= 1 /\ i <= Len(B)
    BY <1>1 DEF Replaces
  <2>2. CASE i < lo
    <3>1. R[i] = B[i] /\ i \in 1 .. Len(R)
      BY <1>2, <2>1, <2>2 DEF Replaces
    <3> QED
      BY <1>4, <3>1 DEF Lent
  <2>3. CASE i > hi
    <3>1. i \in hi + 1 .. Len(B)
      BY <1>2, <2>1, <2>3
    <3>2. PICK k : k = lo - 1 + m + i - hi
      OBVIOUS
    <3>3. R[k] = B[i]
      BY <1>1, <3>1, <3>2 DEF Replaces
    <3>4. k \in 1 .. Len(R)
      BY ONLY <1>2, <2>1, <2>3, <3>2
    <3> QED
      BY <1>4, <3>3, <3>4 DEF Lent
  <2> QED
    BY <1>4, <2>2, <2>3
<1>5. ASSUME NEW i \in 1 .. Len(M), Lent(M, i, h)
      PROVE  \E k \in 1 .. Len(R) : Lent(R, k, h)
  <2>1. R[lo - 1 + i] = M[i] /\ Len(R) = lo - 1 + m + Len(B) - hi
    BY <1>1 DEF Replaces
  <2>2. lo - 1 + i \in 1 .. Len(R)
    BY <1>1, <1>2, <2>1
  <2> QED
    BY <1>5, <2>1, <2>2 DEF Lent
<1> QED
  BY <1>3, <1>4, <1>5

\* take ().
LEMMA TakeGood ==
    ASSUME NEW brk \in 0 .. MaxBrk, MmGood(mm_block, brk, mm_held), NEW i \in 1 .. Len(mm_block),
           NEW size \in MmSize, mm_block[i].is_free, mm_block[i].size >= size
    PROVE  /\ MmGood(take(i, size), brk, mm_held \cup {<<mm_block[i].ptr, size>>})
           /\ \A h \in mm_held : h[1] # mm_block[i].ptr
<1>1. PICK B : B = mm_block
  OBVIOUS
<1>2. Shaped(B, brk) /\ B \in Seq(MmBlock) /\ i \in 1 .. Len(B) /\ Holding(B, mm_held)
  BY <1>1 DEF MmGood, Shaped
<1>3. PICK b : b = B[i]
  OBVIOUS
<1>4. b \in MmBlock /\ b.ptr \in Nat /\ b.size \in Nat /\ b.is_free /\ b.size >= size /\ size \in Nat
      /\ BlockEnd(b) = b.ptr + b.size /\ BLOCK_SIZE \in Nat \ {0} /\ BlockEnd(b) <= brk
  BY <1>1, <1>2, <1>3, BlockAt, MmAssumption DEF Shaped, InHeap
<1>5. PICK used : used = Block(b.ptr, size, FALSE)
  OBVIOUS
<1>6. PICK rest : rest = Block(b.ptr + size + BLOCK_SIZE, b.size - size - BLOCK_SIZE, TRUE)
  OBVIOUS
<1>7. used \in MmBlock /\ used.ptr = b.ptr /\ used.size = size /\ ~ used.is_free /\ BlockEnd(used) = b.ptr + size
  BY <1>4, <1>5 DEF Block, MmBlock, BlockEnd
<1>8. PICK M : M = IF b.size - size >= BLOCK_SIZE THEN <<used, rest>> ELSE <<used>>
  OBVIOUS
<1>9. take(i, size) = SubSeq(B, 1, i - 1) \o M \o SubSeq(B, i + 1, Len(B))
  <2>1. take(i, size) = ReplaceSubSeqAt(i, M, <<b>>, B)
    BY <1>1, <1>3, <1>5, <1>6, <1>8 DEF take
  <2>2. Len(<<b>>) = 1
    OBVIOUS
  <2> QED
    BY <2>1, <2>2 DEF ReplaceSubSeqAt
<1>10. /\ M \in Seq(MmBlock) /\ Len(M) > 0 /\ Apart(M) /\ Coalesced(M)
       /\ \A k \in 1 .. Len(M) : b.ptr <= M[k].ptr /\ BlockEnd(M[k]) <= BlockEnd(b)
       /\ ~ M[1].is_free
       /\ \A h : (\E k \in 1 .. Len(M) : Lent(M, k, h)) <=> h = <<b.ptr, size>>
  <2>1. CASE b.size - size >= BLOCK_SIZE
    <3>1. M = <<used, rest>>
      BY <1>8, <2>1
    <3>2. rest \in MmBlock /\ rest.ptr = b.ptr + size + BLOCK_SIZE /\ rest.is_free /\ BlockEnd(rest) = BlockEnd(b)
      BY <1>4, <1>6, <2>1 DEF Block, MmBlock, BlockEnd
    <3>3. M \in Seq(MmBlock) /\ Len(M) = 2 /\ M[1] = used /\ M[2] = rest /\ 1 .. Len(M) = {1, 2}
      BY <1>7, <3>1, <3>2
    <3>4. Apart(M)
      BY <1>4, <1>7, <3>2, <3>3 DEF Apart
    <3>5. Coalesced(M)
      BY <1>4, <1>7, <3>2, <3>3 DEF Coalesced
    <3>6. \A k \in 1 .. Len(M) : b.ptr <= M[k].ptr /\ BlockEnd(M[k]) <= BlockEnd(b)
      BY <1>4, <1>7, <3>2, <3>3
    <3>7. \A h : (\E k \in 1 .. Len(M) : Lent(M, k, h)) <=> h = <<b.ptr, size>>
      BY <1>7, <3>2, <3>3 DEF Lent
    <3> QED
      BY <1>7, <3>3, <3>4, <3>5, <3>6, <3>7
  <2>2. CASE ~ (b.size - size >= BLOCK_SIZE)
    <3>1. M = <<used>>
      BY <1>8, <2>2
    <3>3. M \in Seq(MmBlock) /\ Len(M) = 1 /\ M[1] = used /\ 1 .. Len(M) = {1}
      BY <1>7, <3>1
    <3>4. Apart(M) /\ Coalesced(M)
      BY <3>3 DEF Apart, Coalesced
    <3>6. \A k \in 1 .. Len(M) : b.ptr <= M[k].ptr /\ BlockEnd(M[k]) <= BlockEnd(b)
      BY <1>4, <1>7, <3>3
    <3>7. \A h : (\E k \in 1 .. Len(M) : Lent(M, k, h)) <=> h = <<b.ptr, size>>
      BY <1>7, <3>3 DEF Lent
    <3> QED
      BY <1>7, <3>3, <3>4, <3>6, <3>7
  <2> QED
    BY <2>1, <2>2
<1>11. i \in i .. Len(B)
  BY <1>2
<1>12. i < Len(B) => ~ B[i + 1].is_free
  BY <1>2, <1>3, <1>4 DEF Shaped, Coalesced
<1>13. Fits(M, B, i, i)
  BY <1>3, <1>10, <1>12 DEF Fits
<1>14. Replaces(take(i, size), B, M, i, i)
  BY <1>2, <1>9, <1>10, <1>11, ReplacedList
<1>15. Shaped(take(i, size), brk)
  BY <1>2, <1>11, <1>13, <1>14, ReplacedShaped
<1>16. Holding(take(i, size), mm_held \cup {<<b.ptr, size>>})
  <2>1. ASSUME NEW h
        PROVE  h \in mm_held \cup {<<b.ptr, size>>} <=> \E k \in 1 .. Len(take(i, size)) : Lent(take(i, size), k, h)
    <3>1. (\E k \in 1 .. Len(take(i, size)) : Lent(take(i, size), k, h)) <=>
              \/ \E k \in 1 .. Len(B) : (k < i \/ k > i) /\ Lent(B, k, h)
              \/ \E k \in 1 .. Len(M) : Lent(M, k, h)
      BY <1>2, <1>10, <1>11, <1>14, ReplacedHeld
    <3>2. ~ Lent(B, i, h)
      BY <1>3, <1>4 DEF Lent
    <3>3. \A k \in 1 .. Len(B) : (k < i \/ k > i) <=> k # i
      BY <1>2
    <3>4. h \in mm_held <=> \E k \in 1 .. Len(B) : Lent(B, k, h)
      BY <1>2 DEF Holding
    <3> QED
      BY <1>10, <3>1, <3>2, <3>3, <3>4
  <2> QED
    BY <2>1 DEF Holding
<1>17. <<b.ptr, size>> \in (0 .. MaxBrk) \X MmSize
  BY <1>4, MmAssumption
<1>18. \A h \in mm_held : h[1] # b.ptr
  <2>1. ASSUME NEW h \in mm_held PROVE h[1] # b.ptr
    <3>1. PICK k \in 1 .. Len(B) : Lent(B, k, h)
      BY <1>2 DEF Holding
    <3>2. k # i /\ h[1] = B[k].ptr
      BY <1>3, <1>4, <3>1 DEF Lent
    <3> QED
      BY <1>2, <1>3, <3>2, PtrsDiffer
  <2> QED
    BY <2>1
<1> QED
  BY <1>1, <1>3, <1>15, <1>16, <1>17, <1>18 DEF MmGood

\* append ().
LEMMA AppendGood ==
    ASSUME MmGood(mm_block, mm_brk, mm_held), NEW size \in MmSize, append(size).brk <= MaxBrk
    PROVE  /\ MmGood(append(size).block, append(size).brk, mm_held \cup {<<append(size).ptr, size>>})
           /\ append(size).ptr \in Nat /\ \A h \in mm_held : h[1] # append(size).ptr
<1>1. PICK B : B = mm_block
  OBVIOUS
<1>2. /\ Shaped(B, mm_brk) /\ B \in Seq(MmBlock) /\ Holding(B, mm_held) /\ mm_brk \in Nat /\ BLOCK_SIZE \in Nat \ {0}
      /\ size \in Nat /\ MaxBrk \in Nat
  BY <1>1, MmAssumption DEF MmGood, Shaped
<1>3. PICK end : end = IF mm_block = <<>> THEN 0 ELSE BlockEnd(Last(mm_block))
  OBVIOUS
<1>4. end \in Nat /\ \A i \in 1 .. Len(B) : BlockEnd(B[i]) <= end /\ BlockEnd(B[i]) \in Nat
  <2>1. CASE B = <<>>
    BY <1>1, <1>3, <2>1
  <2>2. CASE B # <<>>
    <3>1. end = BlockEnd(B[Len(B)]) /\ Len(B) \in 1 .. Len(B)
      BY <1>1, <1>2, <1>3, <2>2 DEF Last
    <3>2. end \in Nat
      BY <1>2, <3>1, BlockAt
    <3>3. ASSUME NEW i \in 1 .. Len(B) PROVE BlockEnd(B[i]) <= end /\ BlockEnd(B[i]) \in Nat
      <4>1. BlockEnd(B[i]) \in Nat
        BY <1>2, BlockAt
      <4>2. CASE i = Len(B)
        BY <3>1, <3>2, <4>1, <4>2
      <4>3. CASE i < Len(B)
        <5>1. BlockEnd(B[i]) + BLOCK_SIZE <= B[Len(B)].ptr
          BY <1>2, <3>1, <4>3 DEF Shaped, Apart
        <5>2. B[Len(B)].ptr <= end /\ B[Len(B)].ptr \in Nat
          BY <1>2, <3>1, BlockAt
        <5> QED
          BY ONLY <1>2, <3>2, <4>1, <5>1, <5>2
      <4> QED
        BY <4>2, <4>3
    <3> QED
      BY <3>2, <3>3
  <2> QED
    BY <2>1, <2>2
<1>5. PICK brk : brk = Max({mm_brk, end + size + BLOCK_SIZE})
  OBVIOUS
<1>6. PICK x : x = Block(end + BLOCK_SIZE, size, FALSE)
  OBVIOUS
<1>7. append(size) = [block |-> Append(B, x), brk |-> brk, ptr |-> end + BLOCK_SIZE]
  BY <1>1, <1>3, <1>5, <1>6 DEF append
<1>8. brk \in Nat /\ mm_brk <= brk /\ end + size + BLOCK_SIZE <= brk /\ brk <= MaxBrk
  <2>1. \E m \in {mm_brk, end + size + BLOCK_SIZE} : \A y \in {mm_brk, end + size + BLOCK_SIZE} : m >= y
    BY <1>2, <1>4
  <2>2. brk \in {mm_brk, end + size + BLOCK_SIZE} /\ \A y \in {mm_brk, end + size + BLOCK_SIZE} : brk >= y
    BY <1>5, <2>1 DEF Max
  <2>3. brk \in Nat
    BY <1>2, <1>4, <2>2
  <2>4. brk <= MaxBrk
    BY <1>7
  <2> QED
    BY ONLY <2>2, <2>3, <2>4, <1>2, <1>4
<1>9. x \in MmBlock /\ x.ptr = end + BLOCK_SIZE /\ x.size = size /\ ~ x.is_free
      /\ BlockEnd(x) = end + BLOCK_SIZE + size
  BY <1>2, <1>4, <1>6 DEF Block, MmBlock, BlockEnd
<1>10. PICK R : R = Append(B, x)
  OBVIOUS
<1>11. PICK n : n = Len(B)
  OBVIOUS
<1>12. /\ R \in Seq(MmBlock) /\ Len(R) = n + 1 /\ n \in Nat /\ R[n + 1] = x
       /\ \A i \in 1 .. n : R[i] = B[i]
  BY <1>2, <1>9, <1>10, <1>11
<1>13. Apart(R)
  <2>1. ASSUME NEW i \in 1 .. Len(R), NEW j \in 1 .. Len(R), i < j
        PROVE  BlockEnd(R[i]) + BLOCK_SIZE <= R[j].ptr
    <3>1. i \in 1 .. n /\ R[i] = B[i]
      BY <1>12, <2>1
    <3>2. CASE j = n + 1
      BY <1>2, <1>4, <1>9, <1>11, <1>12, <3>1, <3>2
    <3>3. CASE j # n + 1
      <4>1. j \in 1 .. n /\ R[j] = B[j]
        BY <1>12, <3>3
      <4> QED
        BY <1>2, <1>11, <2>1, <3>1, <4>1 DEF Shaped, Apart
    <3> QED
      BY <3>2, <3>3
  <2> QED
    BY <2>1 DEF Apart
<1>14. InHeap(R, brk)
  <2>1. ASSUME NEW i \in 1 .. Len(R) PROVE BLOCK_SIZE <= R[i].ptr /\ BlockEnd(R[i]) <= brk
    <3>1. CASE i = n + 1
      BY <1>2, <1>4, <1>8, <1>9, <1>12, <3>1
    <3>2. CASE i # n + 1
      <4>1. i \in 1 .. Len(B) /\ R[i] = B[i]
        BY <1>11, <1>12, <3>2
      <4>2. BLOCK_SIZE <= B[i].ptr /\ BlockEnd(B[i]) <= mm_brk /\ BlockEnd(B[i]) \in Nat
        BY <1>2, <1>4, <4>1 DEF Shaped, InHeap
      <4> QED
        BY ONLY <1>2, <1>8, <4>1, <4>2
    <3> QED
      BY <3>1, <3>2
  <2> QED
    BY <2>1 DEF InHeap
<1>15. Coalesced(R)
  <2>1. ASSUME NEW i \in 1 .. Len(R), i + 1 <= Len(R) PROVE ~ (R[i].is_free /\ R[i + 1].is_free)
    <3>1. CASE i = n
      BY <1>9, <1>12, <3>1
    <3>2. CASE i # n
      <4>1. i \in 1 .. Len(B) /\ i + 1 <= Len(B) /\ i + 1 \in 1 .. n /\ i \in 1 .. n
        BY <1>11, <1>12, <2>1, <3>2
      <4>2. R[i] = B[i] /\ R[i + 1] = B[i + 1]
        BY <1>12, <4>1
      <4> QED
        BY <1>2, <4>1, <4>2 DEF Shaped, Coalesced
    <3> QED
      BY <3>1, <3>2
  <2> QED
    BY <2>1 DEF Coalesced
<1>16. Holding(R, mm_held \cup {<<end + BLOCK_SIZE, size>>})
  <2>1. ASSUME NEW h
        PROVE  h \in mm_held \cup {<<end + BLOCK_SIZE, size>>} <=> \E k \in 1 .. Len(R) : Lent(R, k, h)
    <3>1. Lent(R, n + 1, h) <=> h = <<end + BLOCK_SIZE, size>>
      BY <1>9, <1>12 DEF Lent
    <3>2. \A k \in 1 .. n : Lent(R, k, h) <=> Lent(B, k, h)
      BY <1>12 DEF Lent
    <3>3. h \in mm_held <=> \E k \in 1 .. n : Lent(B, k, h)
      BY <1>2, <1>11 DEF Holding
    <3>4. \A k : k \in 1 .. Len(R) <=> k \in 1 .. n \/ k = n + 1
      BY <1>12
    <3> QED
      BY ONLY <3>1, <3>2, <3>3, <3>4
  <2> QED
    BY <2>1 DEF Holding
<1>17. <<end + BLOCK_SIZE, size>> \in (0 .. MaxBrk) \X MmSize
  <2>1. end + BLOCK_SIZE \in 0 .. MaxBrk
    BY <1>2, <1>4, <1>8
  <2> QED
    BY <2>1
<1>18. \A h \in mm_held : h[1] # end + BLOCK_SIZE
  <2>1. ASSUME NEW h \in mm_held PROVE h[1] # end + BLOCK_SIZE
    <3>1. PICK k \in 1 .. Len(B) : Lent(B, k, h)
      BY <1>2 DEF Holding
    <3>2. h[1] = B[k].ptr
      BY <3>1 DEF Lent
    <3>3. B[k].ptr <= BlockEnd(B[k]) /\ B[k].ptr \in Nat /\ BlockEnd(B[k]) <= end /\ BlockEnd(B[k]) \in Nat
      BY <1>2, <1>4, BlockAt
    <3> QED
      BY <1>2, <1>4, <3>2, <3>3
  <2> QED
    BY <2>1
<1>19. MmGood(R, brk, mm_held \cup {<<end + BLOCK_SIZE, size>>})
  <2>1. mm_held \subseteq (0 .. MaxBrk) \X MmSize
    BY DEF MmGood
  <2>2. brk \in 0 .. MaxBrk
    BY <1>2, <1>8
  <2>3. Shaped(R, brk)
    BY <1>12, <1>13, <1>14, <1>15 DEF Shaped
  <2> QED
    BY <1>16, <1>17, <2>1, <2>2, <2>3 DEF MmGood
<1>20. end + BLOCK_SIZE \in Nat
  BY <1>2, <1>4
<1> QED
  BY <1>7, <1>10, <1>18, <1>19, <1>20

\* mm_malloc ().
LEMMA MallocGood ==
    ASSUME MmGood(mm_block, mm_brk, mm_held), NEW size \in MmSize, NEW r, r = mm_malloc_result(size)
    PROVE  /\ r.ptr = -1 => r.block = mm_block /\ r.brk = mm_brk
           /\ r.ptr # -1 => /\ MmGood(r.block, r.brk, mm_held \cup {<<r.ptr, size>>})
                            /\ \A h \in mm_held : h[1] # r.ptr
<1>1. PICK fits : fits = {i \in DOMAIN mm_block : mm_block[i].is_free /\ mm_block[i].size >= size}
  OBVIOUS
<1>2. mm_block \in Seq(MmBlock)
  BY DEF MmGood, Shaped
<1>3. CASE size = 0
  BY <1>3 DEF mm_malloc_result
<1>4. CASE size # 0 /\ fits # {}
  <2>1. fits \subseteq 1 .. Len(mm_block)
    BY <1>1, <1>2
  <2>2. \E m \in fits : \A n \in fits : m <= n
    <3>1. fits \subseteq Nat /\ fits # {}
      BY <1>4, <2>1
    <3> QED
      BY ONLY <3>1, LeastNumber
  <2>3. PICK m : m = Min(fits)
    OBVIOUS
  <2>4. m \in fits
    BY <2>2, <2>3 DEF Min
  <2>5. m \in 1 .. Len(mm_block) /\ mm_block[m].is_free /\ mm_block[m].size >= size
    BY <1>1, <2>1, <2>4
  <2>6. r = [block |-> take(m, size), brk |-> mm_brk, ptr |-> mm_block[m].ptr]
    BY <1>1, <1>4, <2>3 DEF mm_malloc_result
  <2>7. mm_brk \in 0 .. MaxBrk
    BY DEF MmGood
  <2>8. /\ MmGood(take(m, size), mm_brk, mm_held \cup {<<mm_block[m].ptr, size>>})
        /\ \A h \in mm_held : h[1] # mm_block[m].ptr
    BY <2>5, <2>7, TakeGood
  <2>9. mm_block[m].ptr # -1
    BY <1>2, <2>5, BlockAt
  <2> QED
    BY <2>6, <2>8, <2>9
<1>5. CASE size # 0 /\ fits = {} /\ append(size).brk > MaxBrk
  BY <1>1, <1>5 DEF mm_malloc_result
<1>6. CASE size # 0 /\ fits = {} /\ ~ (append(size).brk > MaxBrk)
  <2>1. r = append(size)
    BY <1>1, <1>6 DEF mm_malloc_result
  <2>2. append(size).brk \in Int /\ MaxBrk \in Nat
    <3>1. PICK end : end = IF mm_block = <<>> THEN 0 ELSE BlockEnd(Last(mm_block))
      OBVIOUS
    <3>2. end \in Nat
      <4>1. CASE mm_block # <<>>
        <5>1. end = BlockEnd(mm_block[Len(mm_block)]) /\ Len(mm_block) \in 1 .. Len(mm_block)
          BY <1>2, <3>1, <4>1 DEF Last
        <5> QED
          BY <1>2, <5>1, BlockAt
      <4> QED
        BY <3>1, <4>1
    <3>3. mm_brk \in Nat /\ size \in Nat /\ BLOCK_SIZE \in Nat
      BY MmAssumption DEF MmGood
    <3>4. append(size).brk = Max({mm_brk, end + size + BLOCK_SIZE})
      BY <3>1 DEF append
    <3>5. \E m \in {mm_brk, end + size + BLOCK_SIZE} : \A y \in {mm_brk, end + size + BLOCK_SIZE} : m >= y
      BY <3>2, <3>3
    <3>6. append(size).brk \in {mm_brk, end + size + BLOCK_SIZE}
      BY <3>4, <3>5 DEF Max
    <3> QED
      BY <3>2, <3>3, <3>6, MmAssumption
  <2>3. append(size).brk <= MaxBrk
    BY <1>6, <2>2
  <2> QED
    BY <2>1, <2>3, AppendGood
<1> QED
  BY <1>3, <1>4, <1>5, <1>6

\* mm_free (): the block is joined with the free ones beside it.
LEMMA FreedGood ==
    ASSUME NEW B, NEW brk, NEW H, MmGood(B, brk, H), NEW i \in 1 .. Len(B), NEW h \in H, B[i].ptr = h[1]
    PROVE  MmGood(freed(B, i), brk, H \ {h})
<1>1. /\ Shaped(B, brk) /\ B \in Seq(MmBlock) /\ Holding(B, H) /\ brk \in Nat /\ BLOCK_SIZE \in Nat \ {0}
      /\ Len(B) \in Nat
  BY MmAssumption DEF MmGood, Shaped
<1>2. PICK lo : lo = IF i > 1 /\ B[i - 1].is_free THEN i - 1 ELSE i
  OBVIOUS
<1>3. PICK hi : hi = IF i < Len(B) /\ B[i + 1].is_free THEN i + 1 ELSE i
  OBVIOUS
<1>4. Lent(B, i, h) /\ \A k \in 1 .. Len(B) : Lent(B, k, h) => k = i
  <2>1. \A k \in 1 .. Len(B) : Lent(B, k, h) => k = i
    <3>1. ASSUME NEW k \in 1 .. Len(B), Lent(B, k, h) PROVE k = i
      <4>1. B[k].ptr = B[i].ptr
        BY <3>1 DEF Lent
      <4> QED
        BY <1>1, <4>1, PtrsDiffer
    <3> QED
      BY <3>1
  <2>2. \E k \in 1 .. Len(B) : Lent(B, k, h)
    BY <1>1 DEF Holding
  <2> QED
    BY <2>1, <2>2
<1>5. /\ lo \in 1 .. Len(B) /\ hi \in lo .. Len(B) /\ lo <= i /\ i <= hi /\ i \in Nat
      /\ \A k \in lo .. hi : k # i => B[k].is_free
  BY <1>1, <1>2, <1>3
<1>6. lo > 1 => ~ B[lo - 1].is_free
  <2>1. CASE i > 1 /\ B[i - 1].is_free
    <3>1. lo = i - 1
      BY <1>2, <2>1
    <3>2. ASSUME lo > 1 PROVE ~ B[lo - 1].is_free
      <4>1. lo - 1 \in 1 .. Len(B) /\ (lo - 1) + 1 <= Len(B) /\ (lo - 1) + 1 = i - 1
        BY <1>5, <3>1, <3>2
      <4> QED
        BY <1>1, <2>1, <4>1 DEF Shaped, Coalesced
    <3> QED
      BY <3>2
  <2>2. CASE ~ (i > 1 /\ B[i - 1].is_free)
    BY <1>2, <2>2
  <2> QED
    BY <2>1, <2>2
<1>7. hi < Len(B) => ~ B[hi + 1].is_free
  <2>1. CASE i < Len(B) /\ B[i + 1].is_free
    <3>1. hi = i + 1
      BY <1>3, <2>1
    <3> QED
      BY <1>1, <1>5, <2>1, <3>1 DEF Shaped, Coalesced
  <2>2. CASE ~ (i < Len(B) /\ B[i + 1].is_free)
    BY <1>3, <2>2
  <2> QED
    BY <2>1, <2>2
<1>8. PICK x : x = Block(B[lo].ptr, BlockEnd(B[hi]) - B[lo].ptr, TRUE)
  OBVIOUS
<1>9. /\ B[lo].ptr \in Nat /\ BlockEnd(B[lo]) \in Nat /\ B[lo].ptr <= BlockEnd(B[lo])
      /\ B[hi].ptr \in Nat /\ BlockEnd(B[hi]) \in Nat /\ B[hi].ptr <= BlockEnd(B[hi])
  BY <1>1, <1>5, BlockAt
<1>10. B[lo].ptr <= BlockEnd(B[hi])
  <2>1. CASE lo = hi
    BY <1>9, <2>1
  <2>2. CASE lo # hi
    <3>1. lo < hi /\ hi \in 1 .. Len(B)
      BY <1>1, <1>5, <2>2
    <3>2. BlockEnd(B[lo]) + BLOCK_SIZE <= B[hi].ptr
      BY <1>1, <1>5, <3>1 DEF Shaped, Apart
    <3> QED
      BY ONLY <1>1, <1>9, <3>2
  <2> QED
    BY <2>1, <2>2
<1>11. x \in MmBlock /\ x.ptr = B[lo].ptr /\ BlockEnd(x) = BlockEnd(B[hi]) /\ x.is_free
  <2>1. BlockEnd(B[hi]) - B[lo].ptr \in Nat /\ B[lo].ptr + (BlockEnd(B[hi]) - B[lo].ptr) = BlockEnd(B[hi])
    BY ONLY <1>9, <1>10
  <2>2. x = [ptr |-> B[lo].ptr, size |-> BlockEnd(B[hi]) - B[lo].ptr, is_free |-> TRUE]
    BY <1>8 DEF Block
  <2>3. x.ptr = B[lo].ptr /\ x.size = BlockEnd(B[hi]) - B[lo].ptr /\ x.is_free
    BY <2>2
  <2>4. x.ptr + x.size = BlockEnd(B[hi])
    BY <2>1, <2>3
  <2>5. BlockEnd(x) = BlockEnd(B[hi])
    BY <2>4 DEF BlockEnd
  <2>6. x \in MmBlock
    BY <1>9, <2>1, <2>2 DEF MmBlock
  <2> QED
    BY <2>3, <2>5, <2>6
<1>12. PICK M : M = <<x>>
  OBVIOUS
<1>13. M \in Seq(MmBlock) /\ Len(M) = 1 /\ M[1] = x /\ 1 .. Len(M) = {1}
  BY <1>11, <1>12
<1>14. Apart(M) /\ Coalesced(M)
  BY <1>13 DEF Apart, Coalesced
<1>15. Fits(M, B, lo, hi)
  <2>1. \A k \in 1 .. Len(M) : B[lo].ptr <= M[k].ptr /\ BlockEnd(M[k]) <= BlockEnd(B[hi])
    BY <1>9, <1>11, <1>13
  <2> QED
    BY <1>6, <1>7, <1>13, <1>14, <2>1 DEF Fits
<1>16. PICK R : R = freed(B, i)
  OBVIOUS
<1>17. R = SubSeq(B, 1, lo - 1) \o M \o SubSeq(B, hi + 1, Len(B))
  BY <1>2, <1>3, <1>8, <1>12, <1>16 DEF freed
<1>18. Replaces(R, B, M, lo, hi)
  BY <1>1, <1>5, <1>13, <1>17, ReplacedList
<1>19. Shaped(R, brk)
  BY <1>1, <1>5, <1>15, <1>18, ReplacedShaped
<1>20. Holding(R, H \ {h})
  <2>1. ASSUME NEW g PROVE g \in H \ {h} <=> \E k \in 1 .. Len(R) : Lent(R, k, g)
    <3>1. (\E k \in 1 .. Len(R) : Lent(R, k, g)) <=>
              \/ \E k \in 1 .. Len(B) : (k < lo \/ k > hi) /\ Lent(B, k, g)
              \/ \E k \in 1 .. Len(M) : Lent(M, k, g)
      <4>1. B \in Seq(MmBlock) /\ M \in Seq(MmBlock) /\ lo \in 1 .. Len(B) /\ hi \in lo .. Len(B)
        BY <1>1, <1>5, <1>13
      <4> QED
        BY ONLY <4>1, <1>18, ReplacedHeld
    <3>2. ~ \E k \in 1 .. Len(M) : Lent(M, k, g)
      BY <1>11, <1>13 DEF Lent
    <3>3. \A k \in 1 .. Len(B) : (k < lo \/ k > hi) => k # i
      BY <1>5
    <3>4. \A k \in 1 .. Len(B) : k # i /\ Lent(B, k, g) => k < lo \/ k > hi
      <4>1. ASSUME NEW k \in 1 .. Len(B), k # i, ~ (k < lo), ~ (k > hi) PROVE ~ Lent(B, k, g)
        <5>1. k \in lo .. hi
          BY <1>5, <4>1
        <5> QED
          BY <1>5, <4>1, <5>1 DEF Lent
      <4> QED
        BY <4>1
    <3>5. g \in H <=> \E k \in 1 .. Len(B) : Lent(B, k, g)
      BY <1>1 DEF Holding
    <3>6. Lent(B, i, g) => g = h
      BY <1>4 DEF Lent
    <3> QED
      BY <1>4, <3>1, <3>2, <3>3, <3>4, <3>5, <3>6
  <2> QED
    BY <2>1 DEF Holding
<1> QED
  BY <1>16, <1>19, <1>20 DEF MmGood

MmInv == MmGood(mm_block, mm_brk, mm_held)

LEMMA MmInitGood == MmInit => MmInv
<1> SUFFICES ASSUME MmInit PROVE MmInv
  OBVIOUS
<1>1. mm_block = <<>> /\ mm_brk = 0 /\ mm_held = {} /\ MaxBrk \in Nat
  BY MmAssumption DEF MmInit
<1>2. mm_block \in Seq(MmBlock) /\ 1 .. Len(mm_block) = {}
  BY <1>1
<1>3. Shaped(mm_block, mm_brk)
  BY <1>2 DEF Shaped, Apart, InHeap, Coalesced
<1>4. Holding(mm_block, mm_held)
  BY <1>1, <1>2 DEF Holding
<1> QED
  BY <1>1, <1>3, <1>4 DEF MmInv, MmGood

LEMMA MmFreeKeeps == ASSUME MmInv, NEW h \in mm_held, mm_free(h) PROVE MmInv'
<1>1. PICK i : i = find_head(h[1])
  OBVIOUS
<1>2. mm_block \in Seq(MmBlock) /\ Holding(mm_block, mm_held)
  BY DEF MmInv, MmGood, Shaped
<1>3. \E k \in DOMAIN mm_block : mm_block[k].ptr = h[1]
  BY <1>2 DEF Holding, Lent
<1>4. i \in 1 .. Len(mm_block) /\ mm_block[i].ptr = h[1]
  BY <1>1, <1>2, <1>3 DEF find_head
<1>5. MmGood(freed(mm_block, i), mm_brk, mm_held \ {h})
  BY <1>4, FreedGood DEF MmInv
<1> QED
  BY <1>1, <1>5 DEF MmInv, mm_free

LEMMA ReallocKeeps == ASSUME MmInv, NEW h \in mm_held, NEW size \in MmSize, mm_realloc(h, size) PROVE MmInv'
<1>1. CASE size = 0
  BY <1>1, MmFreeKeeps DEF mm_realloc
<1>2. CASE size # 0
  <2>1. PICK r : r = mm_malloc_result(size)
    OBVIOUS
  <2>2. CASE r.ptr = -1
    <3>1. mm_brk' = mm_brk /\ mm_block' = mm_block /\ mm_held' = mm_held
      BY <1>2, <2>1, <2>2, MallocGood DEF mm_realloc, MmInv
    <3> QED
      BY <3>1 DEF MmInv
  <2>3. CASE r.ptr # -1
    <3>1. PICK i : i = CHOOSE k \in DOMAIN r.block : r.block[k].ptr = h[1]
      OBVIOUS
    <3>2. PICK H : H = mm_held \cup {<<r.ptr, size>>}
      OBVIOUS
    <3>3. MmGood(r.block, r.brk, H) /\ h \in H /\ h[1] # r.ptr
      BY <2>1, <2>3, <3>2, MallocGood DEF MmInv
    <3>4. r.block \in Seq(MmBlock) /\ Holding(r.block, H)
      BY <3>3 DEF MmGood, Shaped
    <3>5. \E k \in DOMAIN r.block : r.block[k].ptr = h[1]
      BY <3>3, <3>4 DEF Holding, Lent
    <3>6. i \in 1 .. Len(r.block) /\ r.block[i].ptr = h[1]
      BY <3>1, <3>4, <3>5
    <3>7. MmGood(freed(r.block, i), r.brk, H \ {h})
      BY <3>3, <3>6, FreedGood
    <3>8. /\ mm_brk' = r.brk /\ mm_block' = freed(r.block, i)
          /\ mm_held' = (mm_held \ {h}) \cup {<<r.ptr, size>>}
      BY <1>2, <2>1, <2>3, <3>1 DEF mm_realloc
    <3>9. h # <<r.ptr, size>>
      BY <3>3
    <3>10. mm_held' = H \ {h}
      BY <3>2, <3>8, <3>9
    <3> QED
      BY <3>7, <3>8, <3>10 DEF MmInv
  <2> QED
    BY <2>2, <2>3
<1> QED
  BY <1>1, <1>2

LEMMA MmKeeps == MmInv /\ [MmNext]_mmVars => MmInv'
<1> SUFFICES ASSUME MmInv, [MmNext]_mmVars PROVE MmInv'
  OBVIOUS
<1>1. ASSUME NEW size \in MmSize, mm_malloc(size) PROVE MmInv'
  <2>1. PICK r : r = mm_malloc_result(size)
    OBVIOUS
  <2>2. /\ mm_block' = r.block /\ mm_brk' = r.brk
        /\ mm_held' = IF r.ptr = -1 THEN mm_held ELSE mm_held \cup {<<r.ptr, size>>}
    BY <1>1, <2>1 DEF mm_malloc
  <2> QED
    BY <2>1, <2>2, MallocGood DEF MmInv
<1>2. CASE UNCHANGED mmVars
  BY <1>2 DEF MmInv, mmVars
<1> QED
  BY <1>1, <1>2, MmFreeKeeps, ReallocKeeps DEF MmNext

LEMMA MmImplies == MmInv => MmSound
<1> SUFFICES ASSUME MmInv PROVE MmSound
  OBVIOUS
<1>1. PICK B : B = mm_block
  OBVIOUS
<1>2. /\ Shaped(B, mm_brk) /\ B \in Seq(MmBlock) /\ Holding(B, mm_held) /\ mm_brk \in 0 .. MaxBrk
      /\ mm_held \subseteq (0 .. MaxBrk) \X MmSize /\ BLOCK_SIZE \in Nat \ {0} /\ DOMAIN B = 1 .. Len(B)
  BY <1>1, MmAssumption DEF MmInv, MmGood, Shaped
<1>3. ToSet(B) = {B[i] : i \in 1 .. Len(B)}
  BY <1>2 DEF ToSet
<1>4. MmTypeOK
  BY <1>1, <1>2, <1>3, BlockAt DEF MmTypeOK
<1>5. ASSUME NEW i \in DOMAIN B
      PROVE  /\ (IF i = 1 THEN 0 ELSE BlockEnd(B[i - 1])) + BLOCK_SIZE <= B[i].ptr
             /\ BlockEnd(B[i]) <= mm_brk
  <2>1. CASE i = 1
    BY <1>2, <2>1 DEF Shaped, InHeap
  <2>2. CASE i # 1
    <3>1. i - 1 \in 1 .. Len(B) /\ i \in 1 .. Len(B) /\ i - 1 < i
      BY <1>2, <2>2
    <3> QED
      BY <1>2, <2>2, <3>1 DEF Shaped, InHeap, Apart
  <2> QED
    BY <2>1, <2>2
<1>6. ASSUME NEW i \in 2 .. Len(B) PROVE ~ (B[i - 1].is_free /\ B[i].is_free)
  <2>1. i - 1 \in 1 .. Len(B) /\ (i - 1) + 1 <= Len(B) /\ (i - 1) + 1 = i
    BY <1>2
  <2> QED
    BY <1>2, <2>1 DEF Shaped, Coalesced
<1>7. mm_held = {<<b.ptr, b.size>> : b \in {b \in ToSet(B) : ~ b.is_free}}
  <2>1. \A h : h \in mm_held <=> \E i \in 1 .. Len(B) : ~ B[i].is_free /\ h = <<B[i].ptr, B[i].size>>
    BY <1>2 DEF Holding, Lent
  <2>2. \A h : h \in {<<b.ptr, b.size>> : b \in {c \in ToSet(B) : ~ c.is_free}} <=>
                 \E i \in 1 .. Len(B) : ~ B[i].is_free /\ h = <<B[i].ptr, B[i].size>>
    BY <1>3
  <2> QED
    BY <2>1, <2>2
<1> QED
  BY <1>1, <1>4, <1>5, <1>6, <1>7 DEF MmSound

\* The list of mm_alloc.c stays in order: blocks and headers do not overlap and
\* lie in the heap, neighbours are never both free, and the program holds the
\* blocks in use, each of the size it asked for (mm_malloc, mm_free, mm_realloc).
THEOREM MmAllocSound == MmSpec => []MmSound
<1> QED
  BY MmInitGood, MmKeeps, MmImplies, PTL DEF MmSpec
-----------------------------------------------------------------------------
(*****************************************************************************)
(* Together.                                                                 *)
(*****************************************************************************)

\* Memory is handed out once and gets back whole: the pages and blocks of palloc.c and
\* malloc.c, the pages of process.c and pagedir.c, the blocks of mm_alloc.c.
THEOREM MemoryAlwaysSound == HeapSpec /\ VmSpec /\ MmSpec => []MemorySound
<1>1. HeapSpec => []HeapSound
  BY HeapAlwaysSound
<1>2. VmSpec => []VmSound
  BY VmAlwaysSound
<1>3. MmSpec => []MmSound
  BY MmAllocSound
<1>4. HeapSound /\ VmSound /\ MmSound => MemorySound
  BY DEF MemorySound
<1> QED
  BY <1>1, <1>2, <1>3, <1>4, PTL
=============================================================================
