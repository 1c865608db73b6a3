------------------------- MODULE BufferCacheProofs -------------------------
(***************************************************************************)
(* Proofs about BufferCache for every number of cells, processes and       *)
(* sectors.  The cells keep their types, with num_using never negative,    *)
(* and no sector is cached twice although cache_reset flushes without the  *)
(* file system lock.  While one process at a time is in the cache, as the  *)
(* lock sees to for file calls, the cache implements Store and a flush     *)
(* saves everything.                                                       *)
(***************************************************************************)
EXTENDS BufferCache, TLAPS

\* Where i is the cell a client works on, and where it is in a file call.
AtCell == {"pin", "evict", "write_back", "written", "assign", "fill", "filled", "copy",
           "done", "flushing", "flushed"}
InCall == {"search", "pin", "evict", "write_back", "written", "assign", "fill", "filled",
           "copy", "done"}

CellInv == \A u \in Client : pc[u] \in AtCell => i[u] \in Cell

\* Only the holder of global_filesys_lock is in a file call.
CallInv == \A u \in Client : pc[u] \in InCall => fs_lock = u

\* A cell is in use from the time it is fetched to the end of the access.
PinInv ==
    \A u \in Client :
        pc[u] \in {"fill", "filled", "copy", "done"} => cache[i[u]].num_using > 0

\* No cell that cache_search has passed, and none at all after a miss, holds the
\* sector: others may empty cells in the meantime, but none can fill one.
MissInv ==
    \A u \in Client : \A c \in Cell :
        \/ pc[u] = "search" /\ c < i[u]
        \/ pc[u] \in {"evict", "write_back", "written", "assign"}
        => ~ holds(c, op[u].sector)

\* The inductive invariant.
CacheInv == TypeOK /\ CellInv /\ CallInv /\ PinInv /\ MissInv /\ UniqueCell
-----------------------------------------------------------------------------
\* Assigning a value of its type to a field of a cell keeps it one.
LEMMA CellUpdate ==
    ASSUME NEW r \in CacheCell
    PROVE  /\ \A v \in Block : [r EXCEPT !.block_data = v] \in CacheCell
           /\ \A v \in BOOLEAN : /\ [r EXCEPT !.dirty = v] \in CacheCell
                                 /\ [r EXCEPT !.valid = v] \in CacheCell
                                 /\ [r EXCEPT !.recently_accessed = v] \in CacheCell
           /\ \A v \in Nat : [r EXCEPT !.num_using = v] \in CacheCell
<1>1. \A v \in Block : [r EXCEPT !.block_data = v] \in CacheCell
  BY DEF CacheCell
<1>2. \A v \in BOOLEAN : [r EXCEPT !.dirty = v] \in CacheCell
  BY DEF CacheCell
<1>3. \A v \in BOOLEAN : [r EXCEPT !.valid = v] \in CacheCell
  BY DEF CacheCell
<1>4. \A v \in BOOLEAN : [r EXCEPT !.recently_accessed = v] \in CacheCell
  BY DEF CacheCell
<1>5. \A v \in Nat : [r EXCEPT !.num_using = v] \in CacheCell
  BY DEF CacheCell
<1> QED
  BY <1>1, <1>2, <1>3, <1>4, <1>5

\* The data and the access mark do not say what a cell holds or who uses it.
LEMMA FieldFrame ==
    ASSUME cache \in [Cell -> CacheCell], NEW k, NEW v,
           \/ cache' = cache
           \/ cache' = [cache EXCEPT ![k].block_data = v]
           \/ cache' = [cache EXCEPT ![k].recently_accessed = v]
    PROVE  \A c \in Cell : /\ cache'[c].sector_idx = cache[c].sector_idx
                          /\ cache'[c].valid = cache[c].valid
                          /\ cache'[c].num_using = cache[c].num_using
<1> SUFFICES ASSUME NEW c \in Cell
             PROVE  /\ cache'[c].sector_idx = cache[c].sector_idx
                    /\ cache'[c].valid = cache[c].valid
                    /\ cache'[c].num_using = cache[c].num_using
  OBVIOUS
<1>1. CASE cache' = cache
  BY <1>1
<1>2. CASE cache' = [cache EXCEPT ![k].block_data = v]
  <2>1. CASE k = c
    BY <1>2, <2>1 DEF CacheCell
  <2>2. CASE k # c
    BY <1>2, <2>2
  <2> QED
    BY <2>1, <2>2
<1>3. CASE cache' = [cache EXCEPT ![k].recently_accessed = v]
  <2>1. CASE k = c
    BY <1>3, <2>1 DEF CacheCell
  <2>2. CASE k # c
    BY <1>3, <2>2
  <2> QED
    BY <2>1, <2>2
<1> QED
  BY <1>1, <1>2, <1>3

\* Every step keeps the types; the last user of a cell brings num_using to 0, not below.
LEMMA TypePreserved == TypeOK /\ CellInv /\ PinInv /\ [Next]_vars => TypeOK'
<1> SUFFICES ASSUME TypeOK, CellInv, PinInv, [Next]_vars PROVE TypeOK'
  OBVIOUS
<1> USE CacheAssumption DEF Cell
<1>1. ASSUME NEW u \in Client, NEW a \in Access, Begin(u, a) PROVE TypeOK'
  BY <1>1 DEF Begin, Goto, Loop, TypeOK, CellInv, AtCell, CacheCell, Block, Access
<1>2. ASSUME NEW u \in Client, Search(u) PROVE TypeOK'
  <2>1. i' = [i EXCEPT ![u] = clock_idx] \/ i' = i
        \/ (i[u] < CACHE_SIZE /\ i' = [i EXCEPT ![u] = i[u] + 1])
    BY <1>2 DEF Search, search_end, Loop, TypeOK
  <2>2. i' \in [Client -> 0 .. CACHE_SIZE]
    BY <2>1 DEF TypeOK
  <2>3. pc' = pc \/ pc' = [pc EXCEPT ![u] = "evict"] \/ pc' = [pc EXCEPT ![u] = "pin"]
    BY <1>2 DEF Search, Goto
  <2> QED
    BY <1>2, <2>2, <2>3 DEF Search, TypeOK
<1>3. ASSUME NEW u \in Client, Pin(u) PROVE TypeOK'
  <2>1. i[u] \in Cell
    BY <1>3 DEF Pin, CellInv, AtCell
  <2> DEFINE r1 == [cache[i[u]] EXCEPT !.recently_accessed = TRUE]
             r2 == [r1 EXCEPT !.num_using = cache[i[u]].num_using + 1]
  <2>2. cache' = [cache EXCEPT ![i[u]] = r2]
    BY <1>3, <2>1 DEF Pin, TypeOK, CacheCell
  <2>3. cache[i[u]].num_using + 1 \in Nat
    BY <2>1 DEF TypeOK, CacheCell
  <2>4. r1 \in CacheCell
    BY <2>1, CellUpdate DEF TypeOK
  <2>5. r2 \in CacheCell
    <3> HIDE DEF r1
    <3> QED
      BY <2>4, <2>3, CellUpdate
  <2>6. cache' \in [Cell -> CacheCell]
    <3> HIDE DEF r2
    <3> QED
      BY <2>1, <2>2, <2>5 DEF TypeOK
  <2> QED
    BY <1>3, <2>6 DEF Pin, Goto, TypeOK
<1>4. ASSUME NEW u \in Client, Evict(u) PROVE TypeOK'
  <2>1. i[u] \in Cell
    BY <1>4 DEF Evict, CellInv, AtCell
  <2>2. cache' \in [Cell -> CacheCell]
    <3> DEFINE r == [cache[i[u]] EXCEPT !.recently_accessed = spared(cache[i[u]])]
    <3>1. cache' = cache \/ cache' = [cache EXCEPT ![i[u]] = r]
      BY <1>4 DEF Evict
    <3>2. spared(cache[i[u]]) \in BOOLEAN
      BY <2>1 DEF spared, TypeOK, CacheCell
    <3>3. r \in CacheCell
      BY <2>1, <3>2, CellUpdate DEF TypeOK
    <3> HIDE DEF r
    <3> QED
      BY <2>1, <3>1, <3>3 DEF TypeOK
  <2>3. (i[u] + 1) % CACHE_SIZE \in Cell
    BY <2>1
  <2>4. i' \in [Client -> 0 .. CACHE_SIZE]
    <3>1. i' = i \/ i' = [i EXCEPT ![u] = (i[u] + 1) % CACHE_SIZE]
      BY <1>4 DEF Evict, Loop
    <3>2. (i[u] + 1) % CACHE_SIZE \in 0 .. CACHE_SIZE
      BY <2>3
    <3>3. i \in [Client -> 0 .. CACHE_SIZE]
      BY DEF TypeOK
    <3> QED
      BY <3>1, <3>2, <3>3
  <2>5. \/ pc' = pc \/ pc' = [pc EXCEPT ![u] = "write_back"]
        \/ pc' = [pc EXCEPT ![u] = "assign"]
    BY <1>4 DEF Evict, Goto
  <2> QED
    BY <1>4, <2>1, <2>2, <2>4, <2>5 DEF Evict, TypeOK
<1>5. ASSUME NEW u \in Client, WriteBack(u) PROVE TypeOK'
  BY <1>5 DEF WriteBack, block_write, Goto, Acquire, TypeOK, CellInv, AtCell, CacheCell,
     Block, Access
<1>6. ASSUME NEW u \in Client, Written(u) PROVE TypeOK'
  BY <1>6 DEF Written, Goto, Release, TypeOK, CellInv, AtCell, CacheCell, Block, Access
<1>7. ASSUME NEW u \in Client, Assign(u) PROVE TypeOK'
  BY <1>7 DEF Assign, Goto, TypeOK, CellInv, AtCell, CacheCell, Block, Access
<1>8. ASSUME NEW u \in Client, Fill(u) PROVE TypeOK'
  BY <1>8 DEF Fill, Goto, Acquire, TypeOK, CellInv, AtCell, CacheCell, Block, Access
<1>9. ASSUME NEW u \in Client, Filled(u) PROVE TypeOK'
  <2>1. i[u] \in Cell /\ op[u].sector \in Sector
    BY <1>9 DEF Filled, CellInv, AtCell, TypeOK, Access
  <2>2. [cache[i[u]] EXCEPT !.block_data = disk[op[u].sector]] \in CacheCell
    BY <2>1, CellUpdate DEF TypeOK
  <2>3. cache' = [cache EXCEPT ![i[u]].block_data = disk[op[u].sector]]
    BY <1>9 DEF Filled, fetched
  <2>4. cache' \in [Cell -> CacheCell]
    BY <2>1, <2>2, <2>3 DEF TypeOK
  <2> QED
    BY <1>9, <2>4 DEF Filled, Goto, Release, TypeOK
<1>10. ASSUME NEW u \in Client, Copy(u) PROVE TypeOK'
  <2>1. /\ i[u] \in Cell /\ op[u].part \in Part /\ op[u].data \in Data
        /\ cache[i[u]].block_data \in Block
    BY <1>10 DEF Copy, CellInv, AtCell, TypeOK, Access, CacheCell
  <2>2. cache' \in [Cell -> CacheCell]
    <3> DEFINE b == [cache[i[u]].block_data EXCEPT ![op[u].part] = op[u].data]
    <3>1. b \in Block
      BY <2>1 DEF Block
    <3>2. cache' = cache \/ cache' = [cache EXCEPT ![i[u]].block_data = b]
      BY <1>10 DEF Copy
    <3> HIDE DEF b
    <3>3. [cache[i[u]] EXCEPT !.block_data = b] \in CacheCell
      BY <2>1, <3>1, CellUpdate DEF TypeOK
    <3>4. CASE cache' = cache
      BY <3>4 DEF TypeOK
    <3>5. CASE cache' = [cache EXCEPT ![i[u]].block_data = b]
      BY <2>1, <3>3, <3>5 DEF TypeOK
    <3> QED
      BY <3>2, <3>4, <3>5
  <2>3. out' \in [Client -> Data]
    BY <1>10, <2>1 DEF Copy, TypeOK, Block
  <2> QED
    BY <1>10, <2>2, <2>3 DEF Copy, Goto, TypeOK
<1>11. ASSUME NEW u \in Client, Done(u) PROVE TypeOK'
  <2>1. i[u] \in Cell /\ cache[i[u]] \in CacheCell /\ cache[i[u]].num_using > 0
    BY <1>11 DEF Done, CellInv, AtCell, PinInv, TypeOK
  <2> DEFINE d == cache[i[u]].dirty \/ op[u].kind = "write"
             r1 == [cache[i[u]] EXCEPT !.dirty = d]
             r2 == [r1 EXCEPT !.num_using = cache[i[u]].num_using - 1]
             r3 == [r2 EXCEPT !.recently_accessed = TRUE]
  <2>2. cache' = [cache EXCEPT ![i[u]] = r3]
    BY <1>11, <2>1 DEF Done, unpin, TypeOK, CacheCell
  <2>3. r1 \in CacheCell
    <3>1. d \in BOOLEAN
      BY <2>1 DEF CacheCell
    <3> HIDE DEF d
    <3> QED
      BY <2>1, <3>1, CellUpdate
  <2>4. r2 \in CacheCell
    <3>1. cache[i[u]].num_using - 1 \in Nat
      BY <2>1 DEF CacheCell
    <3> HIDE DEF r1
    <3> QED
      BY <2>3, <3>1, CellUpdate
  <2>5. r3 \in CacheCell
    <3> HIDE DEF r2
    <3> QED
      BY <2>4, CellUpdate
  <2>6. cache' \in [Cell -> CacheCell]
    <3> HIDE DEF r3
    <3> QED
      BY <2>1, <2>2, <2>5 DEF TypeOK
  <2>7. op' \in [Client -> Access]
    <3>1. NoAccess \in Access
      BY DEF NoAccess, Access
    <3> QED
      BY <1>11, <3>1 DEF Done, TypeOK
  <2> QED
    BY <1>11, <2>6, <2>7 DEF Done, Goto, Loop, TypeOK
<1>12. ASSUME NEW u \in Client, Reset(u) PROVE TypeOK'
  BY <1>12 DEF Reset, Goto, Loop, TypeOK, CellInv, AtCell, CacheCell, Block, Access
<1>13. ASSUME NEW u \in Client, Flush(u) PROVE TypeOK'
  <2>1. \/ pc' = [pc EXCEPT ![u] = "idle"] /\ i' = [i EXCEPT ![u] = 0]
        \/ i[u] < CACHE_SIZE /\ pc' = [pc EXCEPT ![u] = "flushing"] /\ i' = i
        \/ i[u] < CACHE_SIZE /\ pc' = pc /\ i' = [i EXCEPT ![u] = i[u] + 1]
    BY <1>13 DEF Flush, flush_end, Goto, Loop, TypeOK
  <2>2. i' \in [Client -> 0 .. CACHE_SIZE]
    BY <2>1 DEF TypeOK
  <2>3. pc' = pc \/ pc' = [pc EXCEPT ![u] = "idle"] \/ pc' = [pc EXCEPT ![u] = "flushing"]
    BY <2>1
  <2> QED
    BY <1>13, <2>2, <2>3 DEF Flush, TypeOK
<1>14. ASSUME NEW u \in Client, Flushing(u) PROVE TypeOK'
  BY <1>14 DEF Flushing, block_write, Goto, Acquire, TypeOK, CellInv, AtCell, CacheCell,
     Block, Access
<1>15. ASSUME NEW u \in Client, Flushed(u) PROVE TypeOK'
  <2>1. i[u] \in Cell
    BY <1>15 DEF Flushed, CellInv, AtCell
  <2> DEFINE r1 == [cache[i[u]] EXCEPT !.dirty = FALSE]
             r2 == [r1 EXCEPT !.valid = FALSE]
  <2>2. cache' = [cache EXCEPT ![i[u]] = r2]
    BY <1>15, <2>1 DEF Flushed, TypeOK, CacheCell
  <2>3. r1 \in CacheCell
    BY <2>1, CellUpdate DEF TypeOK
  <2>4. r2 \in CacheCell
    <3> HIDE DEF r1
    <3> QED
      BY <2>3, CellUpdate
  <2>5. cache' \in [Cell -> CacheCell]
    <3> HIDE DEF r2
    <3> QED
      BY <2>1, <2>2, <2>4 DEF TypeOK
  <2>6. i' \in [Client -> 0 .. CACHE_SIZE]
    BY <1>15, <2>1 DEF Flushed, Loop, TypeOK
  <2> QED
    BY <1>15, <2>5, <2>6 DEF Flushed, Goto, Release, TypeOK
<1>16. CASE UNCHANGED vars
  BY <1>16 DEF vars, TypeOK, CellInv, AtCell, CacheCell, Block, Access
<1> QED
  BY <1>1, <1>2, <1>3, <1>4, <1>5, <1>6, <1>7, <1>8, <1>9, <1>10, <1>11, <1>12, <1>13,
     <1>14, <1>15, <1>16 DEF Next, Step

\* The loops stay inside the array.
LEMMA CellPreserved == TypeOK /\ CellInv /\ [Next]_vars => CellInv'
<1> SUFFICES ASSUME TypeOK, CellInv, [Next]_vars PROVE CellInv'
  OBVIOUS
<1> USE CacheAssumption DEF Cell
<1>1. ASSUME NEW u \in Client, NEW a \in Access, Begin(u, a) PROVE CellInv'
  BY <1>1 DEF Begin, Goto, Loop, TypeOK, CellInv, AtCell
<1>2. ASSUME NEW u \in Client, Search(u) PROVE CellInv'
  BY <1>2 DEF Search, search_end, holds, Goto, Loop, TypeOK, CellInv, AtCell
<1>3. ASSUME NEW u \in Client, Pin(u) PROVE CellInv'
  BY <1>3 DEF Pin, Goto, TypeOK, CellInv, AtCell
<1>4. ASSUME NEW u \in Client, Evict(u) PROVE CellInv'
  BY <1>4 DEF Evict, spared, Goto, Loop, TypeOK, CellInv, AtCell
<1>5. ASSUME NEW u \in Client, WriteBack(u) PROVE CellInv'
  BY <1>5 DEF WriteBack, block_write, Goto, Acquire, TypeOK, CellInv, AtCell
<1>6. ASSUME NEW u \in Client, Written(u) PROVE CellInv'
  BY <1>6 DEF Written, Goto, Release, TypeOK, CellInv, AtCell
<1>7. ASSUME NEW u \in Client, Assign(u) PROVE CellInv'
  BY <1>7 DEF Assign, Goto, TypeOK, CellInv, AtCell
<1>8. ASSUME NEW u \in Client, Fill(u) PROVE CellInv'
  BY <1>8 DEF Fill, Goto, Acquire, TypeOK, CellInv, AtCell
<1>9. ASSUME NEW u \in Client, Filled(u) PROVE CellInv'
  BY <1>9 DEF Filled, fetched, Goto, Release, TypeOK, CellInv, AtCell
<1>10. ASSUME NEW u \in Client, Copy(u) PROVE CellInv'
  BY <1>10 DEF Copy, Goto, TypeOK, CellInv, AtCell
<1>11. ASSUME NEW u \in Client, Done(u) PROVE CellInv'
  BY <1>11 DEF Done, unpin, NoAccess, Goto, Loop, TypeOK, CellInv, AtCell
<1>12. ASSUME NEW u \in Client, Reset(u) PROVE CellInv'
  BY <1>12 DEF Reset, Goto, Loop, TypeOK, CellInv, AtCell
<1>13. ASSUME NEW u \in Client, Flush(u) PROVE CellInv'
  <2>1. \/ pc' = [pc EXCEPT ![u] = "idle"] /\ i' = [i EXCEPT ![u] = 0]
        \/ i[u] < CACHE_SIZE /\ pc' = [pc EXCEPT ![u] = "flushing"] /\ i' = i
        \/ i[u] < CACHE_SIZE /\ pc' = pc /\ i' = [i EXCEPT ![u] = i[u] + 1]
    BY <1>13 DEF Flush, flush_end, Goto, Loop, TypeOK
  <2>2. pc[u] = "flush"
    BY <1>13 DEF Flush
  <2> QED
    BY <2>1, <2>2 DEF TypeOK, CellInv, AtCell
<1>14. ASSUME NEW u \in Client, Flushing(u) PROVE CellInv'
  BY <1>14 DEF Flushing, block_write, Goto, Acquire, TypeOK, CellInv, AtCell
<1>15. ASSUME NEW u \in Client, Flushed(u) PROVE CellInv'
  BY <1>15 DEF Flushed, Goto, Loop, Release, TypeOK, CellInv, AtCell
<1>16. CASE UNCHANGED vars
  BY <1>16 DEF vars, TypeOK, CellInv, AtCell
<1> QED
  BY <1>1, <1>2, <1>3, <1>4, <1>5, <1>6, <1>7, <1>8, <1>9, <1>10, <1>11, <1>12, <1>13,
     <1>14, <1>15, <1>16 DEF Next, Step

\* File calls exclude each other.
LEMMA CallPreserved == TypeOK /\ CallInv /\ [Next]_vars => CallInv'
<1> SUFFICES ASSUME TypeOK, CallInv, [Next]_vars PROVE CallInv'
  OBVIOUS
<1> USE CacheAssumption DEF Cell
<1>1. ASSUME NEW u \in Client, NEW a \in Access, Begin(u, a) PROVE CallInv'
  BY <1>1 DEF Begin, Goto, Loop, TypeOK, CallInv, InCall
<1>2. ASSUME NEW u \in Client, Search(u) PROVE CallInv'
  BY <1>2 DEF Search, search_end, holds, Goto, Loop, TypeOK, CallInv, InCall
<1>3. ASSUME NEW u \in Client, Pin(u) PROVE CallInv'
  BY <1>3 DEF Pin, Goto, TypeOK, CallInv, InCall
<1>4. ASSUME NEW u \in Client, Evict(u) PROVE CallInv'
  BY <1>4 DEF Evict, spared, Goto, Loop, TypeOK, CallInv, InCall
<1>5. ASSUME NEW u \in Client, WriteBack(u) PROVE CallInv'
  BY <1>5 DEF WriteBack, block_write, Goto, Acquire, TypeOK, CallInv, InCall
<1>6. ASSUME NEW u \in Client, Written(u) PROVE CallInv'
  BY <1>6 DEF Written, Goto, Release, TypeOK, CallInv, InCall
<1>7. ASSUME NEW u \in Client, Assign(u) PROVE CallInv'
  BY <1>7 DEF Assign, Goto, TypeOK, CallInv, InCall
<1>8. ASSUME NEW u \in Client, Fill(u) PROVE CallInv'
  BY <1>8 DEF Fill, Goto, Acquire, TypeOK, CallInv, InCall
<1>9. ASSUME NEW u \in Client, Filled(u) PROVE CallInv'
  BY <1>9 DEF Filled, fetched, Goto, Release, TypeOK, CallInv, InCall
<1>10. ASSUME NEW u \in Client, Copy(u) PROVE CallInv'
  BY <1>10 DEF Copy, Goto, TypeOK, CallInv, InCall
<1>11. ASSUME NEW u \in Client, Done(u) PROVE CallInv'
  BY <1>11 DEF Done, unpin, NoAccess, Goto, Loop, TypeOK, CallInv, InCall
<1>12. ASSUME NEW u \in Client, Reset(u) PROVE CallInv'
  BY <1>12 DEF Reset, Goto, Loop, TypeOK, CallInv, InCall
<1>13. ASSUME NEW u \in Client, Flush(u) PROVE CallInv'
  BY <1>13 DEF Flush, flush_end, Goto, Loop, TypeOK, CallInv, InCall
<1>14. ASSUME NEW u \in Client, Flushing(u) PROVE CallInv'
  BY <1>14 DEF Flushing, block_write, Goto, Acquire, TypeOK, CallInv, InCall
<1>15. ASSUME NEW u \in Client, Flushed(u) PROVE CallInv'
  BY <1>15 DEF Flushed, Goto, Loop, Release, TypeOK, CallInv, InCall
<1>16. CASE UNCHANGED vars
  BY <1>16 DEF vars, TypeOK, CallInv, InCall
<1> QED
  BY <1>1, <1>2, <1>3, <1>4, <1>5, <1>6, <1>7, <1>8, <1>9, <1>10, <1>11, <1>12, <1>13,
     <1>14, <1>15, <1>16 DEF Next, Step

\* Nobody else gives up a cell that is in use.
LEMMA PinPreserved == TypeOK /\ CellInv /\ CallInv /\ PinInv /\ [Next]_vars => PinInv'
<1> SUFFICES ASSUME TypeOK, CellInv, CallInv, PinInv, [Next]_vars PROVE PinInv'
  OBVIOUS
<1> USE CacheAssumption DEF Cell
<1>1. ASSUME NEW u \in Client, NEW a \in Access, Begin(u, a) PROVE PinInv'
  BY <1>1 DEF Begin, Goto, Loop, TypeOK, CellInv, AtCell, CallInv, InCall, PinInv,
     CacheCell
<1>2. ASSUME NEW u \in Client, Search(u) PROVE PinInv'
  BY <1>2 DEF Search, search_end, holds, Goto, Loop, TypeOK, CellInv, AtCell, CallInv,
     InCall, PinInv, CacheCell
<1>3. ASSUME NEW u \in Client, Pin(u) PROVE PinInv'
  BY <1>3 DEF Pin, Goto, TypeOK, CellInv, AtCell, CallInv, InCall, PinInv, CacheCell
<1>4. ASSUME NEW u \in Client, Evict(u) PROVE PinInv'
  BY <1>4 DEF Evict, spared, Goto, Loop, TypeOK, CellInv, AtCell, CallInv, InCall, PinInv,
     CacheCell
<1>5. ASSUME NEW u \in Client, WriteBack(u) PROVE PinInv'
  BY <1>5 DEF WriteBack, block_write, Goto, Acquire, TypeOK, CellInv, AtCell, CallInv,
     InCall, PinInv, CacheCell
<1>6. ASSUME NEW u \in Client, Written(u) PROVE PinInv'
  BY <1>6 DEF Written, Goto, Release, TypeOK, CellInv, AtCell, CallInv, InCall, PinInv,
     CacheCell
<1>7. ASSUME NEW u \in Client, Assign(u) PROVE PinInv'
  BY <1>7 DEF Assign, Goto, TypeOK, CellInv, AtCell, CallInv, InCall, PinInv, CacheCell
<1>8. ASSUME NEW u \in Client, Fill(u) PROVE PinInv'
  BY <1>8 DEF Fill, Goto, Acquire, TypeOK, CellInv, AtCell, CallInv, InCall, PinInv,
     CacheCell
<1>9. ASSUME NEW u \in Client, Filled(u) PROVE PinInv'
  BY <1>9 DEF Filled, fetched, Goto, Release, TypeOK, CellInv, AtCell, CallInv, InCall,
     PinInv, CacheCell
<1>10. ASSUME NEW u \in Client, Copy(u) PROVE PinInv'
  <2>1. PICK b : cache' = cache \/ cache' = [cache EXCEPT ![i[u]].block_data = b]
    BY <1>10 DEF Copy
  <2>2. \A c \in Cell : cache'[c].num_using = cache[c].num_using
    BY <2>1, FieldFrame DEF TypeOK
  <2>3. /\ pc[u] = "copy" /\ pc' = [pc EXCEPT ![u] = "done"] /\ i' = i
    BY <1>10 DEF Copy, Goto
  <2> QED
    BY <2>2, <2>3 DEF TypeOK, CellInv, AtCell, PinInv
<1>11. ASSUME NEW u \in Client, Done(u) PROVE PinInv'
  BY <1>11 DEF Done, unpin, NoAccess, Goto, Loop, TypeOK, CellInv, AtCell, CallInv,
     InCall, PinInv, CacheCell
<1>12. ASSUME NEW u \in Client, Reset(u) PROVE PinInv'
  BY <1>12 DEF Reset, Goto, Loop, TypeOK, CellInv, AtCell, CallInv, InCall, PinInv,
     CacheCell
<1>13. ASSUME NEW u \in Client, Flush(u) PROVE PinInv'
  BY <1>13 DEF Flush, flush_end, Goto, Loop, TypeOK, CellInv, AtCell, CallInv, InCall,
     PinInv, CacheCell
<1>14. ASSUME NEW u \in Client, Flushing(u) PROVE PinInv'
  BY <1>14 DEF Flushing, block_write, Goto, Acquire, TypeOK, CellInv, AtCell, CallInv,
     InCall, PinInv, CacheCell
<1>15. ASSUME NEW u \in Client, Flushed(u) PROVE PinInv'
  BY <1>15 DEF Flushed, Goto, Loop, Release, TypeOK, CellInv, AtCell, CallInv, InCall,
     PinInv, CacheCell
<1>16. CASE UNCHANGED vars
  BY <1>16 DEF vars, TypeOK, CellInv, AtCell, CallInv, InCall, PinInv, CacheCell
<1> QED
  BY <1>1, <1>2, <1>3, <1>4, <1>5, <1>6, <1>7, <1>8, <1>9, <1>10, <1>11, <1>12, <1>13,
     <1>14, <1>15, <1>16 DEF Next, Step

\* A miss stays a miss until the sector is fetched.
LEMMA MissPreserved == TypeOK /\ CellInv /\ CallInv /\ MissInv /\ [Next]_vars => MissInv'
<1> SUFFICES ASSUME TypeOK, CellInv, CallInv, MissInv, [Next]_vars PROVE MissInv'
  OBVIOUS
<1> USE CacheAssumption DEF Cell
<1>1. ASSUME NEW u \in Client, NEW a \in Access, Begin(u, a) PROVE MissInv'
  BY <1>1 DEF Begin, Goto, Loop, TypeOK, CellInv, AtCell, CallInv, InCall, MissInv,
     CacheCell, holds
<1>2. ASSUME NEW u \in Client, Search(u) PROVE MissInv'
  BY <1>2 DEF Search, search_end, holds, Goto, Loop, TypeOK, CellInv, AtCell, CallInv,
     InCall, MissInv, CacheCell, holds
<1>3. ASSUME NEW u \in Client, Pin(u) PROVE MissInv'
  BY <1>3 DEF Pin, Goto, TypeOK, CellInv, AtCell, CallInv, InCall, MissInv, CacheCell,
     holds
<1>4. ASSUME NEW u \in Client, Evict(u) PROVE MissInv'
  <2>1. PICK b : cache' = cache \/ cache' = [cache EXCEPT ![i[u]].recently_accessed = b]
    BY <1>4 DEF Evict
  <2>2. \A c \in Cell :
           cache'[c].sector_idx = cache[c].sector_idx /\ cache'[c].valid = cache[c].valid
    BY <2>1, FieldFrame DEF TypeOK
  <2>3. /\ pc[u] = "evict" /\ op' = op
        /\ \A w \in Client \ {u} : pc'[w] = pc[w] /\ i'[w] = i[w]
        /\ pc'[u] # "search"
    BY <1>4 DEF Evict, Goto, Loop, TypeOK
  <2> QED
    BY <2>2, <2>3 DEF MissInv, holds
<1>5. ASSUME NEW u \in Client, WriteBack(u) PROVE MissInv'
  BY <1>5 DEF WriteBack, block_write, Goto, Acquire, TypeOK, CellInv, AtCell, CallInv,
     InCall, MissInv, CacheCell, holds
<1>6. ASSUME NEW u \in Client, Written(u) PROVE MissInv'
  BY <1>6 DEF Written, Goto, Release, TypeOK, CellInv, AtCell, CallInv, InCall, MissInv,
     CacheCell, holds
<1>7. ASSUME NEW u \in Client, Assign(u) PROVE MissInv'
  BY <1>7 DEF Assign, Goto, TypeOK, CellInv, AtCell, CallInv, InCall, MissInv, CacheCell,
     holds
<1>8. ASSUME NEW u \in Client, Fill(u) PROVE MissInv'
  BY <1>8 DEF Fill, Goto, Acquire, TypeOK, CellInv, AtCell, CallInv, InCall, MissInv,
     CacheCell, holds
<1>9. ASSUME NEW u \in Client, Filled(u) PROVE MissInv'
  BY <1>9 DEF Filled, fetched, Goto, Release, TypeOK, CellInv, AtCell, CallInv, InCall,
     MissInv, CacheCell, holds
<1>10. ASSUME NEW u \in Client, Copy(u) PROVE MissInv'
  BY <1>10 DEF Copy, Goto, TypeOK, CellInv, AtCell, CallInv, InCall, MissInv, CacheCell,
     holds
<1>11. ASSUME NEW u \in Client, Done(u) PROVE MissInv'
  BY <1>11 DEF Done, unpin, NoAccess, Goto, Loop, TypeOK, CellInv, AtCell, CallInv,
     InCall, MissInv, CacheCell, holds
<1>12. ASSUME NEW u \in Client, Reset(u) PROVE MissInv'
  BY <1>12 DEF Reset, Goto, Loop, TypeOK, CellInv, AtCell, CallInv, InCall, MissInv,
     CacheCell, holds
<1>13. ASSUME NEW u \in Client, Flush(u) PROVE MissInv'
  BY <1>13, SMTT(60) DEF Flush, flush_end, Goto, Loop, TypeOK, CellInv, AtCell, CallInv, InCall,
     MissInv, CacheCell, holds
<1>14. ASSUME NEW u \in Client, Flushing(u) PROVE MissInv'
  BY <1>14 DEF Flushing, block_write, Goto, Acquire, TypeOK, CellInv, AtCell, CallInv,
     InCall, MissInv, CacheCell, holds
<1>15. ASSUME NEW u \in Client, Flushed(u) PROVE MissInv'
  BY <1>15 DEF Flushed, Goto, Loop, Release, TypeOK, CellInv, AtCell, CallInv, InCall,
     MissInv, CacheCell, holds
<1>16. CASE UNCHANGED vars
  BY <1>16 DEF vars, TypeOK, CellInv, AtCell, CallInv, InCall, MissInv, CacheCell, holds
<1> QED
  BY <1>1, <1>2, <1>3, <1>4, <1>5, <1>6, <1>7, <1>8, <1>9, <1>10, <1>11, <1>12, <1>13,
     <1>14, <1>15, <1>16 DEF Next, Step

\* A sector is given a cell only after a miss.
LEMMA UniquePreserved == TypeOK /\ CellInv /\ MissInv /\ UniqueCell /\ [Next]_vars => UniqueCell'
<1> SUFFICES ASSUME TypeOK, CellInv, MissInv, UniqueCell, [Next]_vars PROVE UniqueCell'
  OBVIOUS
<1> USE CacheAssumption DEF Cell
<1>1. ASSUME NEW u \in Client, NEW a \in Access, Begin(u, a) PROVE UniqueCell'
  BY <1>1 DEF Begin, Goto, Loop, TypeOK, CellInv, AtCell, MissInv, UniqueCell, CacheCell,
     holds
<1>2. ASSUME NEW u \in Client, Search(u) PROVE UniqueCell'
  BY <1>2 DEF Search, search_end, holds, Goto, Loop, TypeOK, CellInv, AtCell, MissInv,
     UniqueCell, CacheCell, holds
<1>3. ASSUME NEW u \in Client, Pin(u) PROVE UniqueCell'
  BY <1>3 DEF Pin, Goto, TypeOK, CellInv, AtCell, MissInv, UniqueCell, CacheCell, holds
<1>4. ASSUME NEW u \in Client, Evict(u) PROVE UniqueCell'
  <2>1. PICK b : cache' = cache \/ cache' = [cache EXCEPT ![i[u]].recently_accessed = b]
    BY <1>4 DEF Evict
  <2>2. \A c \in Cell :
           cache'[c].sector_idx = cache[c].sector_idx /\ cache'[c].valid = cache[c].valid
    BY <2>1, FieldFrame DEF TypeOK
  <2> QED
    BY <2>2 DEF UniqueCell, holds
<1>5. ASSUME NEW u \in Client, WriteBack(u) PROVE UniqueCell'
  BY <1>5 DEF WriteBack, block_write, Goto, Acquire, TypeOK, CellInv, AtCell, MissInv,
     UniqueCell, CacheCell, holds
<1>6. ASSUME NEW u \in Client, Written(u) PROVE UniqueCell'
  BY <1>6 DEF Written, Goto, Release, TypeOK, CellInv, AtCell, MissInv, UniqueCell,
     CacheCell, holds
<1>7. ASSUME NEW u \in Client, Assign(u) PROVE UniqueCell'
  BY <1>7 DEF Assign, Goto, TypeOK, CellInv, AtCell, MissInv, UniqueCell, CacheCell, holds
<1>8. ASSUME NEW u \in Client, Fill(u) PROVE UniqueCell'
  BY <1>8 DEF Fill, Goto, Acquire, TypeOK, CellInv, AtCell, MissInv, UniqueCell,
     CacheCell, holds
<1>9. ASSUME NEW u \in Client, Filled(u) PROVE UniqueCell'
  BY <1>9 DEF Filled, fetched, Goto, Release, TypeOK, CellInv, AtCell, MissInv,
     UniqueCell, CacheCell, holds
<1>10. ASSUME NEW u \in Client, Copy(u) PROVE UniqueCell'
  <2>1. PICK b : cache' = cache \/ cache' = [cache EXCEPT ![i[u]].block_data = b]
    BY <1>10 DEF Copy
  <2>2. \A c \in Cell :
           cache'[c].sector_idx = cache[c].sector_idx /\ cache'[c].valid = cache[c].valid
    BY <2>1, FieldFrame DEF TypeOK
  <2> QED
    BY <2>2 DEF UniqueCell, holds
<1>11. ASSUME NEW u \in Client, Done(u) PROVE UniqueCell'
  BY <1>11 DEF Done, unpin, NoAccess, Goto, Loop, TypeOK, CellInv, AtCell, MissInv,
     UniqueCell, CacheCell, holds
<1>12. ASSUME NEW u \in Client, Reset(u) PROVE UniqueCell'
  BY <1>12 DEF Reset, Goto, Loop, TypeOK, CellInv, AtCell, MissInv, UniqueCell, CacheCell,
     holds
<1>13. ASSUME NEW u \in Client, Flush(u) PROVE UniqueCell'
  BY <1>13 DEF Flush, flush_end, Goto, Loop, TypeOK, CellInv, AtCell, MissInv, UniqueCell,
     CacheCell, holds
<1>14. ASSUME NEW u \in Client, Flushing(u) PROVE UniqueCell'
  BY <1>14 DEF Flushing, block_write, Goto, Acquire, TypeOK, CellInv, AtCell, MissInv,
     UniqueCell, CacheCell, holds
<1>15. ASSUME NEW u \in Client, Flushed(u) PROVE UniqueCell'
  BY <1>15 DEF Flushed, Goto, Loop, Release, TypeOK, CellInv, AtCell, MissInv, UniqueCell,
     CacheCell, holds
<1>16. CASE UNCHANGED vars
  BY <1>16 DEF vars, TypeOK, CellInv, AtCell, MissInv, UniqueCell, CacheCell, holds
<1> QED
  BY <1>1, <1>2, <1>3, <1>4, <1>5, <1>6, <1>7, <1>8, <1>9, <1>10, <1>11, <1>12, <1>13,
     <1>14, <1>15, <1>16 DEF Next, Step

-----------------------------------------------------------------------------
LEMMA CacheInvariant == Spec => []CacheInv
<1>1. Init => CacheInv
  <2> SUFFICES ASSUME Init PROVE CacheInv
    OBVIOUS
  <2> USE CacheAssumption DEF Init, Cell
  <2>1. TypeOK
    BY DEF TypeOK, CacheCell, Block, Access, NoAccess
  <2>2. CellInv /\ CallInv /\ PinInv /\ MissInv
    BY DEF CellInv, AtCell, CallInv, InCall, PinInv, MissInv
  <2>3. UniqueCell
    BY DEF UniqueCell, holds
  <2> QED
    BY <2>1, <2>2, <2>3 DEF CacheInv
<1>2. CacheInv /\ [Next]_vars => CacheInv'
  BY TypePreserved, CellPreserved, CallPreserved, PinPreserved, MissPreserved,
     UniquePreserved DEF CacheInv
<1> QED
  BY <1>1, <1>2, PTL DEF Spec

\* cache_fetch, cache_evict and cache_flush keep the cells well formed: indices
\* stay below CACHE_SIZE and num_using is never negative.
THEOREM CacheTyped == Spec => []TypeOK
<1>1. CacheInv => TypeOK
  BY DEF CacheInv
<1> QED
  BY <1>1, CacheInvariant, PTL

\* cache_search may stop at the first hit: no interleaving of file calls and
\* flushes gives a sector two cells.
THEOREM NoSectorTwice == Spec => []UniqueCell
<1>1. CacheInv => UniqueCell
  BY DEF CacheInv
<1> QED
  BY <1>1, CacheInvariant, PTL

-----------------------------------------------------------------------------
(***************************************************************************)
(* What the cache promises to the file system, Store, as long as one       *)
(* process at a time is in the cache.  global_filesys_lock sees to that    *)
(* for file calls; cache_reset, which does not take it, is what breaks it. *)
(***************************************************************************)
Alone == \A u, w \in Client : pc[u] # "idle" /\ pc[w] # "idle" => u = w

\* The disk has what cell c has.
Saved(c) == disk[cache[c].sector_idx] = cache[c].block_data

\* Client u is about to give cell c its data, or to mark it dirty.
Pending(u, c) ==
    /\ i[u] = c
    /\ pc[u] \in {"fill", "filled"} \/ (pc[u] = "done" /\ op[u].kind = "write")

DirtyInv == \A c \in Cell : cache[c].dirty => cache[c].valid

\* A clean cell has what the disk has.
CleanInv ==
    \A c \in Cell : cache[c].valid /\ ~ cache[c].dirty /\ (\A u \in Client : ~ Pending(u, c))
                    => Saved(c)

\* An access uses the cell that holds its sector; a cell is taken from a sector,
\* or emptied, when the disk has its data; cache_flush leaves no dirty cell behind.
WorkInv ==
    \A u \in Client :
        /\ pc[u] \in {"pin", "fill", "filled", "copy", "done"} => holds(i[u], op[u].sector)
        /\ pc[u] = "write_back" => cache[i[u]].dirty
        /\ pc[u] \in {"written", "assign"} => ~ cache[i[u]].valid \/ Saved(i[u])
        /\ pc[u] \in {"flushing", "flushed"} => cache[i[u]].dirty
        /\ pc[u] = "flushed" => Saved(i[u])
        /\ pc[u] \in {"flush", "flushing", "flushed"} => \A c \in Cell : c < i[u] => ~ cache[c].dirty

DataInv == DirtyInv /\ CleanInv /\ WorkInv

\* The same for a client u that is alone in the cache.
DataAt(u) ==
    /\ \A c \in Cell : cache[c].dirty => cache[c].valid
    /\ \A c \in Cell : cache[c].valid /\ ~ cache[c].dirty /\ ~ Pending(u, c) => Saved(c)
    /\ pc[u] \in {"pin", "fill", "filled", "copy", "done"} => holds(i[u], op[u].sector)
    /\ pc[u] = "write_back" => cache[i[u]].dirty
    /\ pc[u] \in {"written", "assign"} => ~ cache[i[u]].valid \/ Saved(i[u])
    /\ pc[u] \in {"flushing", "flushed"} => cache[i[u]].dirty
    /\ pc[u] = "flushed" => Saved(i[u])
    /\ pc[u] \in {"flush", "flushing", "flushed"} => \A c \in Cell : c < i[u] => ~ cache[c].dirty

\* While u moves, nobody else is in the cache.
LEMMA OthersIdle ==
    ASSUME TypeOK, Alone, Alone', NEW u \in Client, NEW l,
           pc' = [pc EXCEPT ![u] = l], pc[u] # "idle" \/ l # "idle"
    PROVE  pc'[u] = l /\ \A w \in Client \ {u} : pc[w] = "idle" /\ pc'[w] = "idle"
<1>1. pc'[u] = l /\ \A w \in Client \ {u} : pc'[w] = pc[w]
  BY DEF TypeOK
<1>2. ASSUME NEW w \in Client \ {u} PROVE pc[w] = "idle" /\ pc'[w] = "idle"
  <2>1. CASE pc[u] # "idle"
    BY <1>1, <2>1 DEF Alone
  <2>2. CASE l # "idle"
    BY <1>1, <2>2 DEF Alone
  <2> QED
    BY <2>1, <2>2
<1> QED
  BY <1>1, <1>2

LEMMA DataSolo ==
    ASSUME NEW u \in Client, \A w \in Client \ {u} : pc[w] = "idle"
    PROVE  DataInv <=> DataAt(u)
<1>1. \A c \in Cell : (\A w \in Client : ~ Pending(w, c)) <=> ~ Pending(u, c)
  BY DEF Pending
<1>2. DataInv => DataAt(u)
  BY <1>1 DEF DataInv, DirtyInv, CleanInv, WorkInv, DataAt
<1>3. DataAt(u) => DirtyInv
  BY DEF DirtyInv, DataAt
<1>4. DataAt(u) => CleanInv
  BY <1>1 DEF CleanInv, DataAt
<1>5. DataAt(u) => WorkInv
  BY DEF WorkInv, DataAt
<1> QED
  BY <1>2, <1>3, <1>4, <1>5 DEF DataInv

LEMMA DataSoloNext ==
    ASSUME NEW u \in Client, \A w \in Client \ {u} : pc'[w] = "idle", DataAt(u)'
    PROVE  DataInv'
<1>1. \A c \in Cell : (\A w \in Client : ~ Pending(w, c)') <=> ~ Pending(u, c)'
  BY DEF Pending
<1>2. DirtyInv'
  BY DEF DirtyInv, DataAt
<1>3. CleanInv'
  BY <1>1 DEF CleanInv, DataAt
<1>4. WorkInv'
  BY DEF WorkInv, DataAt
<1> QED
  BY <1>2, <1>3, <1>4 DEF DataInv

\* The file system sees v in sector s.
Shows(s, v) ==
    \/ \E c \in Cell \ Filling : holds(c, s) /\ cache[c].block_data = v
    \/ (\A c \in Cell \ Filling : ~ holds(c, s)) /\ disk[s] = v

LEMMA ViewShows ==
    ASSUME UniqueCell, NEW s \in Sector
    PROVE  \A v : Shows(s, v) <=> View[s] = v
<1> DEFINE C == Cell \ Filling
           d == CHOOSE c \in C : holds(c, s)
<1>1. View[s] = IF \E c \in C : holds(c, s) THEN cache[d].block_data ELSE disk[s]
  BY DEF View
<1> HIDE DEF C, d
<1>2. CASE \E c \in C : holds(c, s)
  <2>1. d \in C /\ holds(d, s)
    BY <1>2 DEF d
  <2>2. \A c \in C : holds(c, s) => c = d
    BY <2>1 DEF UniqueCell, C
  <2> QED
    BY <1>1, <1>2, <2>1, <2>2 DEF Shows, C
<1>3. CASE ~ \E c \in C : holds(c, s)
  BY <1>1, <1>3 DEF Shows, C
<1> QED
  BY <1>2, <1>3

LEMMA ViewShowsNext ==
    ASSUME UniqueCell', NEW s \in Sector
    PROVE  \A v : Shows(s, v)' <=> View'[s] = v
<1> DEFINE C == Cell \ Filling'
           d == CHOOSE c \in C : cache'[c].sector_idx = s /\ cache'[c].valid
<1>1. View'[s] = IF \E c \in C : cache'[c].sector_idx = s /\ cache'[c].valid
                  THEN cache'[d].block_data ELSE disk'[s]
  BY DEF View, holds
<1> HIDE DEF C, d
<1>2. CASE \E c \in C : cache'[c].sector_idx = s /\ cache'[c].valid
  <2>1. d \in C /\ cache'[d].sector_idx = s /\ cache'[d].valid
    BY <1>2 DEF d
  <2>2. \A c \in C : (cache'[c].sector_idx = s /\ cache'[c].valid) => c = d
    BY <2>1 DEF UniqueCell, holds, C
  <2> QED
    BY <1>1, <1>2, <2>1, <2>2 DEF Shows, holds, C
<1>3. CASE ~ \E c \in C : cache'[c].sector_idx = s /\ cache'[c].valid
  BY <1>1, <1>3 DEF Shows, holds, C
<1> QED
  BY <1>2, <1>3

\* A step that leaves what each sector shows leaves the view.
LEMMA ViewSame ==
    ASSUME UniqueCell, UniqueCell', \A s \in Sector : \A v : Shows(s, v) => Shows(s, v)'
    PROVE  View' = View
<1>1. ASSUME NEW s \in Sector PROVE View'[s] = View[s]
  BY ViewShows, ViewShowsNext
<1>2. View = [s \in Sector |-> View[s]] /\ View' = [s \in Sector |-> View'[s]]
  BY DEF View
<1> QED
  BY <1>1, <1>2, Zenon

\* While u is alone, only the cell it fills is being filled.
LEMMA SoloFilling ==
    ASSUME NEW u \in Client, \A w \in Client \ {u} : pc[w] = "idle"
    PROVE  \A c \in Cell : c \in Filling <=> pc[u] \in {"fill", "filled"} /\ i[u] = c
BY DEF Filling

LEMMA SoloFillingNext ==
    ASSUME NEW u \in Client, \A w \in Client \ {u} : pc'[w] = "idle"
    PROVE  \A c \in Cell : c \in Filling' <=> pc'[u] \in {"fill", "filled"} /\ i'[u] = c
BY DEF Filling

\* The phase of u's access moves with pc.
LEMMA PhaseMove ==
    ASSUME TypeOK, NEW u \in Client, NEW l, pc' = [pc EXCEPT ![u] = l]
    PROVE  /\ l \in {"idle", "flush", "flushing", "flushed"} => Phase' = [Phase EXCEPT ![u] = "idle"]
           /\ l = "done" => Phase' = [Phase EXCEPT ![u] = "done"]
           /\ l \in InCall \ {"done"} => Phase' = [Phase EXCEPT ![u] = "called"]
<1>1. pc'[u] = l /\ \A w \in Client \ {u} : pc'[w] = pc[w]
  BY DEF TypeOK
<1>2. \A w \in Client \ {u} : Phase'[w] = Phase[w]
  BY <1>1 DEF Phase
<1>3. /\ l \in {"idle", "flush", "flushing", "flushed"} => Phase'[u] = "idle"
      /\ l = "done" => Phase'[u] = "done"
      /\ l \in InCall \ {"done"} => Phase'[u] = "called"
  BY <1>1 DEF Phase, InCall
<1>4. Phase = [w \in Client |-> Phase[w]] /\ Phase' = [w \in Client |-> Phase'[w]]
  BY DEF Phase
<1>5. Phase' = [Phase EXCEPT ![u] = Phase'[u]]
  BY <1>2, <1>4
<1> QED
  BY <1>3, <1>5

LEMMA PhaseNow ==
    ASSUME NEW u \in Client
    PROVE  /\ Phase = [Phase EXCEPT ![u] = Phase[u]]
           /\ pc[u] \in {"idle", "flush", "flushing", "flushed"} => Phase[u] = "idle"
           /\ pc[u] = "done" => Phase[u] = "done"
           /\ pc[u] \in InCall \ {"done"} => Phase[u] = "called"
<1>1. Phase = [w \in Client |-> Phase[w]]
  BY DEF Phase
<1>2. Phase = [Phase EXCEPT ![u] = Phase[u]]
  BY <1>1
<1> QED
  BY <1>2 DEF Phase, InCall

\* A step of u, which is alone in the cache.
LEMMA SoloStep ==
    ASSUME TypeOK, DataInv, Alone, Alone', NEW u \in Client, NEW l,
           pc' = [pc EXCEPT ![u] = l], pc[u] # "idle" \/ l # "idle"
    PROVE  /\ pc'[u] = l
           /\ DataAt(u)
           /\ DataAt(u)' => DataInv'
           /\ \A c \in Cell : c \in Filling <=> pc[u] \in {"fill", "filled"} /\ i[u] = c
           /\ \A c \in Cell : c \in Filling' <=> l \in {"fill", "filled"} /\ i'[u] = c
<1>1. pc'[u] = l /\ \A w \in Client \ {u} : pc[w] = "idle" /\ pc'[w] = "idle"
  BY OthersIdle
<1>2. DataAt(u)
  BY <1>1, DataSolo
<1>3. DataAt(u)' => DataInv'
  BY <1>1, DataSoloNext
<1>4. \A c \in Cell : c \in Filling <=> pc[u] \in {"fill", "filled"} /\ i[u] = c
  BY <1>1, SoloFilling
<1>5. \A c \in Cell : c \in Filling' <=> l \in {"fill", "filled"} /\ i'[u] = c
  BY <1>1, SoloFillingNext
<1> QED
  BY <1>1, <1>2, <1>3, <1>4, <1>5

\* The fields of cell c that say what it holds.
SameCell(c) ==
    /\ cache'[c].sector_idx = cache[c].sector_idx
    /\ cache'[c].valid = cache[c].valid
    /\ cache'[c].dirty = cache[c].dirty
    /\ cache'[c].block_data = cache[c].block_data

\* A step that changes no cell but its marks leaves the view.
LEMMA MarksView ==
    ASSUME UniqueCell, UniqueCell', disk' = disk, \A c \in Cell : SameCell(c),
           \A c \in Cell : c \in Filling <=> c \in Filling'
    PROVE  View' = View
<1>1. ASSUME NEW s \in Sector, NEW v, Shows(s, v) PROVE Shows(s, v)'
  BY <1>1 DEF Shows, SameCell, holds
<1> QED
  BY <1>1, ViewSame

LEMMA BeginData ==
    ASSUME CacheInv, UniqueCell', DataInv, Alone, Alone', NEW u \in Client, NEW a \in Access,
           Begin(u, a)
    PROVE  DataInv' /\ View' = View
<1>1. /\ pc[u] = "idle" /\ pc' = [pc EXCEPT ![u] = "search"]
      /\ disk' = disk /\ cache' = cache
  BY DEF Begin, Goto
<1> DEFINE l == "search"
<1>2. /\ pc'[u] = l
      /\ DataAt(u)
      /\ DataAt(u)' => DataInv'
      /\ \A c \in Cell : c \in Filling <=> pc[u] \in {"fill", "filled"} /\ i[u] = c
      /\ \A c \in Cell : c \in Filling' <=> l \in {"fill", "filled"} /\ i'[u] = c
  BY <1>1, SoloStep DEF CacheInv
<1>3. \A c \in Cell : SameCell(c)
  BY <1>1 DEF SameCell
<1>4. DataAt(u)'
  BY <1>1, <1>2 DEF DataAt, Saved, Pending, holds
<1>5. View' = View
  BY <1>1, <1>2, <1>3, MarksView DEF CacheInv
<1> QED
  BY <1>2, <1>4, <1>5

LEMMA SearchData ==
    ASSUME CacheInv, UniqueCell', DataInv, Alone, Alone', NEW u \in Client, Search(u)
    PROVE  DataInv' /\ View' = View
<1>0. i[u] \in 0 .. CACHE_SIZE /\ CACHE_SIZE \in Nat /\ pc = [pc EXCEPT ![u] = pc[u]]
  BY CacheAssumption DEF CacheInv, TypeOK
<1>1. PICK l \in {"search", "evict", "pin"} :
          /\ pc[u] = "search" /\ pc' = [pc EXCEPT ![u] = l]
          /\ l = "pin" => i'[u] = i[u] /\ i[u] \in Cell /\ holds(i[u], op[u].sector)
          /\ disk' = disk /\ cache' = cache /\ op' = op
  <2>1. CASE search_end(i[u]) /\ Goto(u, "evict")
    BY <2>1 DEF Search, Goto
  <2>2. CASE ~ search_end(i[u]) /\ holds(i[u], op[u].sector) /\ Goto(u, "pin") /\ UNCHANGED i
    BY <1>0, <2>2 DEF Search, Goto, search_end, Cell
  <2>3. CASE UNCHANGED pc
    BY <1>0, <2>3 DEF Search
  <2> QED
    BY <2>1, <2>2, <2>3 DEF Search
<1>2. /\ pc'[u] = l
      /\ DataAt(u)
      /\ DataAt(u)' => DataInv'
      /\ \A c \in Cell : c \in Filling <=> pc[u] \in {"fill", "filled"} /\ i[u] = c
      /\ \A c \in Cell : c \in Filling' <=> l \in {"fill", "filled"} /\ i'[u] = c
  BY <1>1, SoloStep DEF CacheInv
<1>3. \A c \in Cell : SameCell(c)
  BY <1>1 DEF SameCell
<1>4. DataAt(u)'
  BY <1>1, <1>2 DEF DataAt, Saved, Pending, holds
<1>5. View' = View
  BY <1>1, <1>2, <1>3, MarksView DEF CacheInv
<1> QED
  BY <1>2, <1>4, <1>5

LEMMA PinData ==
    ASSUME CacheInv, UniqueCell', DataInv, Alone, Alone', NEW u \in Client, Pin(u)
    PROVE  DataInv' /\ View' = View
<1>0. i[u] \in Cell /\ cache \in [Cell -> CacheCell]
  BY DEF CacheInv, CellInv, AtCell, TypeOK, Pin
<1> DEFINE l == "copy"
<1>1. /\ pc[u] = "pin" /\ pc' = [pc EXCEPT ![u] = l]
      /\ disk' = disk /\ op' = op /\ i' = i
      /\ cache' = [cache EXCEPT ![i[u]].recently_accessed = TRUE, ![i[u]].num_using = @ + 1]
  BY DEF Pin, Goto
<1>2. /\ pc'[u] = l
      /\ DataAt(u)
      /\ DataAt(u)' => DataInv'
      /\ \A c \in Cell : c \in Filling <=> pc[u] \in {"fill", "filled"} /\ i[u] = c
      /\ \A c \in Cell : c \in Filling' <=> l \in {"fill", "filled"} /\ i'[u] = c
  BY <1>1, SoloStep DEF CacheInv
<1>3. \A c \in Cell : SameCell(c)
  BY <1>0, <1>1 DEF SameCell, CacheCell
<1>4. DataAt(u)'
  <2>1. disk' = disk /\ op' = op /\ i' = i /\ pc[u] = "pin" /\ pc'[u] = "copy"
    BY <1>1, <1>2
  <2>2. \A c \in Cell : Saved(c)' <=> Saved(c)
    BY ONLY <1>3, <2>1 DEF Saved, SameCell
  <2>3. holds(i[u], op[u].sector)
    BY <1>2, <2>1 DEF DataAt
  <2>4. holds(i[u], op[u].sector)'
    BY ONLY <1>0, <1>3, <2>1, <2>3 DEF holds, SameCell
  <2>5. \A c \in Cell : /\ cache'[c].dirty => cache'[c].valid
                        /\ cache'[c].valid /\ ~ cache'[c].dirty => Saved(c)'
    <3>1. \A c \in Cell : ~ Pending(u, c)
      BY ONLY <2>1 DEF Pending
    <3> QED
      BY ONLY <1>2, <1>3, <2>2, <3>1 DEF DataAt, SameCell
  <2> QED
    BY <2>1, <2>4, <2>5 DEF DataAt
<1>5. View' = View
  BY <1>1, <1>2, <1>3, MarksView DEF CacheInv
<1> QED
  BY <1>2, <1>4, <1>5

LEMMA EvictData ==
    ASSUME CacheInv, UniqueCell', DataInv, Alone, Alone', NEW u \in Client, Evict(u)
    PROVE  DataInv' /\ View' = View
<1>0. i[u] \in Cell /\ cache \in [Cell -> CacheCell] /\ pc = [pc EXCEPT ![u] = pc[u]]
  BY DEF CacheInv, CellInv, AtCell, TypeOK, Evict
<1>1. PICK l \in {"evict", "write_back", "assign"} :
          /\ pc[u] = "evict" /\ pc' = [pc EXCEPT ![u] = l]
          /\ l = "write_back" => i' = i /\ cache[i[u]].dirty
          /\ l = "assign" => i' = i /\ ~ cache[i[u]].dirty
          /\ disk' = disk /\ op' = op
          /\ \A c \in Cell : SameCell(c)
  <2>1. CASE UNCHANGED cache
    <3>1. \A c \in Cell : SameCell(c)
      BY <2>1 DEF SameCell
    <3>2. pc[u] = "evict" /\ disk' = disk /\ op' = op
      BY DEF Evict
    <3>3. CASE UNCHANGED i /\ cache[i[u]].dirty /\ Goto(u, "write_back")
      BY <3>1, <3>2, <3>3 DEF Goto
    <3>4. CASE UNCHANGED i /\ ~ cache[i[u]].dirty /\ Goto(u, "assign")
      BY <3>1, <3>2, <3>4 DEF Goto
    <3>5. CASE UNCHANGED pc
      BY <1>0, <3>1, <3>2, <3>5
    <3> QED
      BY <3>3, <3>4, <3>5 DEF Evict
  <2>2. CASE /\ cache' = [cache EXCEPT ![i[u]].recently_accessed = spared(cache[i[u]])]
             /\ UNCHANGED pc
    <3>1. \A c \in Cell : SameCell(c)
      BY <1>0, <2>2 DEF SameCell, CacheCell
    <3> QED
      BY <1>0, <2>2, <3>1 DEF Evict
  <2> QED
    BY <2>1, <2>2 DEF Evict
<1>2. /\ pc'[u] = l
      /\ DataAt(u)
      /\ DataAt(u)' => DataInv'
      /\ \A c \in Cell : c \in Filling <=> pc[u] \in {"fill", "filled"} /\ i[u] = c
      /\ \A c \in Cell : c \in Filling' <=> l \in {"fill", "filled"} /\ i'[u] = c
  BY <1>1, SoloStep DEF CacheInv
<1>4. DataAt(u)'
  BY <1>0, <1>1, <1>2 DEF DataAt, Saved, Pending, holds, SameCell
<1>5. View' = View
  BY <1>1, <1>2, MarksView DEF CacheInv
<1> QED
  BY <1>2, <1>4, <1>5

LEMMA WriteBackData ==
    ASSUME CacheInv, UniqueCell', DataInv, Alone, Alone', NEW u \in Client, WriteBack(u)
    PROVE  DataInv' /\ View' = View
<1>0. i[u] \in Cell /\ cache \in [Cell -> CacheCell] /\ disk \in [Sector -> Block]
  BY DEF CacheInv, CellInv, AtCell, TypeOK, WriteBack
<1> DEFINE l == "written"
           k == i[u]
           n == cache[k].sector_idx
<1>1. /\ pc[u] = "write_back" /\ pc' = [pc EXCEPT ![u] = l]
      /\ op' = op /\ i' = i /\ cache' = cache
      /\ disk' = [disk EXCEPT ![n] = cache[k].block_data]
  BY DEF WriteBack, Goto, block_write
<1>2. /\ pc'[u] = l
      /\ DataAt(u)
      /\ DataAt(u)' => DataInv'
      /\ \A c \in Cell : c \in Filling <=> pc[u] \in {"fill", "filled"} /\ i[u] = c
      /\ \A c \in Cell : c \in Filling' <=> l \in {"fill", "filled"} /\ i'[u] = c
  BY <1>1, SoloStep DEF CacheInv
<1>3. /\ n \in Sector /\ cache[k].dirty /\ cache[k].valid /\ Saved(k)'
      /\ \A s \in Sector \ {n} : disk'[s] = disk[s]
  BY <1>0, <1>1, <1>2 DEF DataAt, CacheCell, Saved
<1>4. DataAt(u)'
  <2>1. ASSUME NEW c \in Cell, cache[c].valid, Saved(c) PROVE Saved(c)'
    <3>1. CASE cache[c].sector_idx = n
      <4>1. c = k
        BY <1>0, <1>3, <2>1, <3>1 DEF CacheInv, UniqueCell, holds
      <4> QED
        BY <1>1, <1>3, <4>1 DEF Saved
    <3>2. CASE cache[c].sector_idx # n
      BY <1>0, <1>1, <1>3, <2>1, <3>2 DEF Saved, CacheCell
    <3> QED
      BY <3>1, <3>2
  <2> QED
    BY <1>0, <1>1, <1>2, <1>3, <2>1 DEF DataAt, Pending, holds
<1>5. View' = View
  <2>1. ASSUME NEW s \in Sector, NEW v, Shows(s, v) PROVE Shows(s, v)'
    <3>1. CASE s = n
      <4>1. k \in Cell \ Filling /\ holds(k, s)
        BY <1>0, <1>1, <1>2, <1>3, <3>1 DEF holds
      <4>2. PICK c \in Cell \ Filling : holds(c, s) /\ cache[c].block_data = v
        BY <2>1, <4>1 DEF Shows
      <4>3. c \in Cell \ Filling'
        BY <1>1, <1>2, <4>2
      <4> QED
        BY <1>1, <4>2, <4>3 DEF Shows, holds
    <3>2. CASE s # n
      BY <1>0, <1>1, <1>2, <1>3, <2>1, <3>2 DEF Shows, holds
    <3> QED
      BY <3>1, <3>2
  <2> QED
    BY <2>1, ViewSame DEF CacheInv
<1> QED
  BY <1>2, <1>4, <1>5

LEMMA FlushingData ==
    ASSUME CacheInv, UniqueCell', DataInv, Alone, Alone', NEW u \in Client, Flushing(u)
    PROVE  DataInv' /\ View' = View
<1>0. i[u] \in Cell /\ cache \in [Cell -> CacheCell] /\ disk \in [Sector -> Block]
  BY DEF CacheInv, CellInv, AtCell, TypeOK, Flushing
<1> DEFINE l == "flushed"
           k == i[u]
           n == cache[k].sector_idx
<1>1. /\ pc[u] = "flushing" /\ pc' = [pc EXCEPT ![u] = l]
      /\ op' = op /\ i' = i /\ cache' = cache
      /\ disk' = [disk EXCEPT ![n] = cache[k].block_data]
  BY DEF Flushing, Goto, block_write
<1>2. /\ pc'[u] = l
      /\ DataAt(u)
      /\ DataAt(u)' => DataInv'
      /\ \A c \in Cell : c \in Filling <=> pc[u] \in {"fill", "filled"} /\ i[u] = c
      /\ \A c \in Cell : c \in Filling' <=> l \in {"fill", "filled"} /\ i'[u] = c
  BY <1>1, SoloStep DEF CacheInv
<1>3. /\ n \in Sector /\ cache[k].dirty /\ cache[k].valid /\ Saved(k)'
      /\ \A s \in Sector \ {n} : disk'[s] = disk[s]
  BY <1>0, <1>1, <1>2 DEF DataAt, CacheCell, Saved
<1>4. DataAt(u)'
  <2>1. ASSUME NEW c \in Cell, cache[c].valid, Saved(c) PROVE Saved(c)'
    <3>1. CASE cache[c].sector_idx = n
      <4>1. c = k
        BY <1>0, <1>3, <2>1, <3>1 DEF CacheInv, UniqueCell, holds
      <4> QED
        BY <1>1, <1>3, <4>1 DEF Saved
    <3>2. CASE cache[c].sector_idx # n
      BY <1>0, <1>1, <1>3, <2>1, <3>2 DEF Saved, CacheCell
    <3> QED
      BY <3>1, <3>2
  <2> QED
    BY <1>0, <1>1, <1>2, <1>3, <2>1 DEF DataAt, Pending, holds
<1>5. View' = View
  <2>1. ASSUME NEW s \in Sector, NEW v, Shows(s, v) PROVE Shows(s, v)'
    <3>1. CASE s = n
      <4>1. k \in Cell \ Filling /\ holds(k, s)
        BY <1>0, <1>1, <1>2, <1>3, <3>1 DEF holds
      <4>2. PICK c \in Cell \ Filling : holds(c, s) /\ cache[c].block_data = v
        BY <2>1, <4>1 DEF Shows
      <4>3. c \in Cell \ Filling'
        BY <1>1, <1>2, <4>2
      <4> QED
        BY <1>1, <4>2, <4>3 DEF Shows, holds
    <3>2. CASE s # n
      BY <1>0, <1>1, <1>2, <1>3, <2>1, <3>2 DEF Shows, holds
    <3> QED
      BY <3>1, <3>2
  <2> QED
    BY <2>1, ViewSame DEF CacheInv
<1> QED
  BY <1>2, <1>4, <1>5

LEMMA WrittenData ==
    ASSUME CacheInv, UniqueCell', DataInv, Alone, Alone', NEW u \in Client, Written(u)
    PROVE  DataInv' /\ View' = View
<1>0. i[u] \in Cell /\ cache \in [Cell -> CacheCell] /\ disk \in [Sector -> Block]
  BY DEF CacheInv, CellInv, AtCell, TypeOK, Written
<1> DEFINE l == "assign"
<1>1. /\ pc[u] = "written" /\ pc' = [pc EXCEPT ![u] = l]
      /\ disk' = disk /\ op' = op /\ i' = i /\ cache' = cache
  BY DEF Written, Goto
<1>2. /\ pc'[u] = l
      /\ DataAt(u)
      /\ DataAt(u)' => DataInv'
      /\ \A c \in Cell : c \in Filling <=> pc[u] \in {"fill", "filled"} /\ i[u] = c
      /\ \A c \in Cell : c \in Filling' <=> l \in {"fill", "filled"} /\ i'[u] = c
  BY <1>1, SoloStep DEF CacheInv
<1>3. \A c \in Cell : SameCell(c)
  BY <1>1 DEF SameCell
<1>4. DataAt(u)'
  BY <1>0, <1>1, <1>2 DEF DataAt, Saved, Pending, holds
<1>5. View' = View
  BY <1>1, <1>2, <1>3, MarksView DEF CacheInv
<1> QED
  BY <1>2, <1>4, <1>5

LEMMA FillData ==
    ASSUME CacheInv, UniqueCell', DataInv, Alone, Alone', NEW u \in Client, Fill(u)
    PROVE  DataInv' /\ View' = View
<1>0. i[u] \in Cell /\ cache \in [Cell -> CacheCell] /\ disk \in [Sector -> Block]
  BY DEF CacheInv, CellInv, AtCell, TypeOK, Fill
<1> DEFINE l == "filled"
<1>1. /\ pc[u] = "fill" /\ pc' = [pc EXCEPT ![u] = l]
      /\ disk' = disk /\ op' = op /\ i' = i /\ cache' = cache
  BY DEF Fill, Goto
<1>2. /\ pc'[u] = l
      /\ DataAt(u)
      /\ DataAt(u)' => DataInv'
      /\ \A c \in Cell : c \in Filling <=> pc[u] \in {"fill", "filled"} /\ i[u] = c
      /\ \A c \in Cell : c \in Filling' <=> l \in {"fill", "filled"} /\ i'[u] = c
  BY <1>1, SoloStep DEF CacheInv
<1>3. \A c \in Cell : SameCell(c)
  BY <1>1 DEF SameCell
<1>4. DataAt(u)'
  BY <1>0, <1>1, <1>2 DEF DataAt, Saved, Pending, holds
<1>5. View' = View
  BY <1>1, <1>2, <1>3, MarksView DEF CacheInv
<1> QED
  BY <1>2, <1>4, <1>5

LEMMA ResetData ==
    ASSUME CacheInv, UniqueCell', DataInv, Alone, Alone', NEW u \in Client, Reset(u)
    PROVE  DataInv' /\ View' = View
<1> DEFINE l == "flush"
<1>0. \A c \in Cell : c \in Nat
  BY CacheAssumption DEF Cell
<1>1. /\ pc[u] = "idle" /\ pc' = [pc EXCEPT ![u] = l]
      /\ disk' = disk /\ op' = op /\ i'[u] = 0 /\ cache' = cache
  BY DEF Reset, Goto, Loop, CacheInv, TypeOK
<1>2. /\ pc'[u] = l
      /\ DataAt(u)
      /\ DataAt(u)' => DataInv'
      /\ \A c \in Cell : c \in Filling <=> pc[u] \in {"fill", "filled"} /\ i[u] = c
      /\ \A c \in Cell : c \in Filling' <=> l \in {"fill", "filled"} /\ i'[u] = c
  BY <1>1, SoloStep DEF CacheInv
<1>3. \A c \in Cell : SameCell(c)
  BY <1>1 DEF SameCell
<1>4. DataAt(u)'
  BY <1>0, <1>1, <1>2 DEF DataAt, Saved, Pending, holds
<1>5. View' = View
  BY <1>1, <1>2, <1>3, MarksView DEF CacheInv
<1> QED
  BY <1>2, <1>4, <1>5

LEMMA FlushData ==
    ASSUME CacheInv, UniqueCell', DataInv, Alone, Alone', NEW u \in Client, Flush(u)
    PROVE  DataInv' /\ View' = View
<1>0. i[u] \in 0 .. CACHE_SIZE /\ CACHE_SIZE \in Nat /\ pc = [pc EXCEPT ![u] = pc[u]]
  BY CacheAssumption DEF CacheInv, TypeOK
<1>1. PICK l \in {"flush", "idle", "flushing"} :
          /\ pc[u] = "flush" /\ pc' = [pc EXCEPT ![u] = l]
          /\ disk' = disk /\ op' = op /\ cache' = cache
          /\ l = "flushing" => i' = i /\ cache[i[u]].dirty /\ cache[i[u]].valid /\ i[u] \in Cell
          /\ l = "flush" => /\ i[u] \in Cell /\ i'[u] = i[u] + 1
                           /\ ~ (cache[i[u]].valid /\ cache[i[u]].dirty)
  <2>0. pc[u] = "flush" /\ disk' = disk /\ op' = op /\ cache' = cache
    BY DEF Flush
  <2>1. CASE Goto(u, "idle")
    BY <2>0, <2>1 DEF Goto
  <2>2. CASE /\ ~ flush_end(i[u]) /\ cache[i[u]].valid /\ cache[i[u]].dirty
             /\ Goto(u, "flushing") /\ UNCHANGED i
    BY <1>0, <2>0, <2>2 DEF Goto, flush_end, Cell
  <2>3. CASE /\ ~ flush_end(i[u]) /\ ~ (cache[i[u]].valid /\ cache[i[u]].dirty)
             /\ Loop(u, i[u] + 1) /\ UNCHANGED pc
    <3>1. i'[u] = i[u] + 1
      BY <2>3 DEF Loop, CacheInv, TypeOK
    <3> QED
      BY <1>0, <2>0, <2>3, <3>1 DEF flush_end, Cell
  <2> QED
    BY <2>1, <2>2, <2>3 DEF Flush
<1>2. /\ pc'[u] = l
      /\ DataAt(u)
      /\ DataAt(u)' => DataInv'
      /\ \A c \in Cell : c \in Filling <=> pc[u] \in {"fill", "filled"} /\ i[u] = c
      /\ \A c \in Cell : c \in Filling' <=> l \in {"fill", "filled"} /\ i'[u] = c
  BY <1>1, SoloStep DEF CacheInv
<1>3. \A c \in Cell : SameCell(c)
  BY <1>1 DEF SameCell
<1>4. DataAt(u)'
  <2>1. l = "flush" => \A c \in Cell : c < i'[u] => c < i[u] \/ c = i[u]
    BY <1>0, <1>1 DEF Cell
  <2>2. l \in {"flush", "flushing"} => \A c \in Cell : c < i'[u] => ~ cache[c].dirty
    BY <1>1, <1>2, <2>1 DEF DataAt
  <2> QED
    BY <1>1, <1>2, <2>2 DEF DataAt, Saved, Pending, holds
<1>5. View' = View
  BY <1>1, <1>2, <1>3, MarksView DEF CacheInv
<1> QED
  BY <1>2, <1>4, <1>5

LEMMA AssignData ==
    ASSUME CacheInv, UniqueCell', DataInv, Alone, Alone', NEW u \in Client, Assign(u)
    PROVE  DataInv' /\ View' = View
<1>0. /\ i[u] \in Cell /\ cache \in [Cell -> CacheCell] /\ disk \in [Sector -> Block]
      /\ op[u] \in Access /\ op[u].sector \in Sector
  BY CacheAssumption DEF CacheInv, CellInv, AtCell, TypeOK, Access, Assign
<1> DEFINE l == "fill"
           k == i[u]
<1>1. /\ pc[u] = "assign" /\ pc' = [pc EXCEPT ![u] = l]
      /\ disk' = disk /\ op' = op /\ i' = i
      /\ cache'[k].sector_idx = op[u].sector /\ cache'[k].valid /\ ~ cache'[k].dirty
      /\ \A c \in Cell \ {k} : cache'[c] = cache[c]
  BY <1>0 DEF Assign, Goto
<1>2. /\ pc'[u] = l
      /\ DataAt(u)
      /\ DataAt(u)' => DataInv'
      /\ \A c \in Cell : c \in Filling <=> pc[u] \in {"fill", "filled"} /\ i[u] = c
      /\ \A c \in Cell : c \in Filling' <=> l \in {"fill", "filled"} /\ i'[u] = c
  BY <1>1, SoloStep DEF CacheInv
<1>3. ~ cache[k].valid \/ disk[cache[k].sector_idx] = cache[k].block_data
  BY <1>1, <1>2 DEF DataAt, Saved
<1>4. DataAt(u)'
  <2>1. ASSUME NEW c \in Cell \ {k}, cache'[c].valid, ~ cache'[c].dirty PROVE Saved(c)'
    BY <1>1, <1>2, <2>1 DEF DataAt, Saved, Pending
  <2> QED
    BY <1>0, <1>1, <1>2, <2>1 DEF DataAt, Pending, holds
<1>5. View' = View
  <2>1. ASSUME NEW s \in Sector, NEW v, Shows(s, v) PROVE Shows(s, v)'
    <3>1. CASE cache[k].valid /\ cache[k].sector_idx = s
      <4>1. \A c \in Cell \ {k} : ~ (cache[c].sector_idx = s /\ cache[c].valid)
        BY <1>0, <3>1 DEF CacheInv, UniqueCell, holds
      <4>2. disk'[s] = v
        BY <1>0, <1>1, <1>2, <1>3, <2>1, <3>1, <4>1 DEF Shows, holds
      <4> QED
        BY <1>0, <1>1, <1>2, <4>1, <4>2 DEF Shows, holds
    <3>2. CASE ~ (cache[k].valid /\ cache[k].sector_idx = s)
      BY <1>0, <1>1, <1>2, <2>1, <3>2 DEF Shows, holds
    <3> QED
      BY <3>1, <3>2
  <2> QED
    BY <2>1, ViewSame DEF CacheInv
<1> QED
  BY <1>2, <1>4, <1>5

LEMMA FilledData ==
    ASSUME CacheInv, UniqueCell', DataInv, Alone, Alone', NEW u \in Client, Filled(u)
    PROVE  DataInv' /\ View' = View
<1>0. /\ i[u] \in Cell /\ cache \in [Cell -> CacheCell] /\ disk \in [Sector -> Block]
      /\ op[u] \in Access /\ op[u].sector \in Sector
  BY CacheAssumption DEF CacheInv, CellInv, AtCell, TypeOK, Access, Filled
<1> DEFINE l == "copy"
           k == i[u]
<1>1. /\ pc[u] = "filled" /\ pc' = [pc EXCEPT ![u] = l]
      /\ disk' = disk /\ op' = op /\ i' = i
      /\ cache' = [cache EXCEPT ![k].block_data = disk[op[u].sector]]
  BY DEF Filled, Goto, fetched
<1>6. /\ cache'[k].sector_idx = cache[k].sector_idx /\ cache'[k].valid = cache[k].valid
      /\ cache'[k].dirty = cache[k].dirty /\ cache'[k].block_data = disk[op[u].sector]
      /\ \A c \in Cell \ {k} : cache'[c] = cache[c]
  BY <1>0, <1>1 DEF CacheCell
<1>2. /\ pc'[u] = l
      /\ DataAt(u)
      /\ DataAt(u)' => DataInv'
      /\ \A c \in Cell : c \in Filling <=> pc[u] \in {"fill", "filled"} /\ i[u] = c
      /\ \A c \in Cell : c \in Filling' <=> l \in {"fill", "filled"} /\ i'[u] = c
  BY <1>1, SoloStep DEF CacheInv
<1>3. cache[k].sector_idx = op[u].sector /\ cache[k].valid
  BY <1>1, <1>2 DEF DataAt, holds
<1>4. DataAt(u)'
  <2>1. ASSUME NEW c \in Cell \ {k}, cache'[c].valid, ~ cache'[c].dirty PROVE Saved(c)'
    BY <1>1, <1>2, <1>6, <2>1 DEF DataAt, Saved, Pending
  <2>2. Saved(k)'
    BY <1>1, <1>3, <1>6 DEF Saved
  <2> QED
    BY <1>0, <1>1, <1>2, <1>3, <1>6, <2>1, <2>2 DEF DataAt, Pending, holds
<1>5. View' = View
  <2>1. ASSUME NEW s \in Sector, NEW v, Shows(s, v) PROVE Shows(s, v)'
    <3>1. CASE op[u].sector = s
      <4>1. k \in Cell \ Filling' /\ cache'[k].sector_idx = s /\ cache'[k].valid
        BY <1>0, <1>1, <1>2, <1>3, <1>6, <3>1
      <4>2. \A c \in Cell \ {k} : ~ (cache[c].sector_idx = s /\ cache[c].valid)
        BY <1>0, <1>3, <3>1 DEF CacheInv, UniqueCell, holds
      <4>3. disk[s] = v
        BY <1>1, <1>2, <2>1, <4>2 DEF Shows, holds
      <4> QED
        BY <1>6, <3>1, <4>1, <4>3 DEF Shows, holds
    <3>2. CASE op[u].sector # s
      BY <1>0, <1>1, <1>2, <1>3, <1>6, <2>1, <3>2 DEF Shows, holds
    <3> QED
      BY <3>1, <3>2
  <2> QED
    BY <2>1, ViewSame DEF CacheInv
<1> QED
  BY <1>2, <1>4, <1>5

LEMMA DoneData ==
    ASSUME CacheInv, UniqueCell', DataInv, Alone, Alone', NEW u \in Client, Done(u)
    PROVE  DataInv' /\ View' = View
<1>0. /\ i[u] \in Cell /\ cache \in [Cell -> CacheCell] /\ disk \in [Sector -> Block]
      /\ op[u] \in Access /\ op[u].sector \in Sector
  BY CacheAssumption DEF CacheInv, CellInv, AtCell, TypeOK, Access, Done
<1> DEFINE l == "idle"
           k == i[u]
<1>1. /\ pc[u] = "done" /\ pc' = [pc EXCEPT ![u] = l] /\ disk' = disk
      /\ cache' = [cache EXCEPT ![i[u]].dirty = @ \/ op[u].kind = "write",
                               ![i[u]].num_using = unpin(@),
                               ![i[u]].recently_accessed = TRUE]
  BY DEF Done, Goto
<1>6. /\ cache'[k].sector_idx = cache[k].sector_idx /\ cache'[k].valid = cache[k].valid
      /\ cache'[k].dirty = (cache[k].dirty \/ op[u].kind = "write")
      /\ cache'[k].block_data = cache[k].block_data
      /\ \A c \in Cell \ {k} : cache'[c] = cache[c]
  BY <1>0, <1>1 DEF CacheCell
<1>2. /\ pc'[u] = l
      /\ DataAt(u)
      /\ DataAt(u)' => DataInv'
      /\ \A c \in Cell : c \in Filling <=> pc[u] \in {"fill", "filled"} /\ i[u] = c
      /\ \A c \in Cell : c \in Filling' <=> l \in {"fill", "filled"} /\ i'[u] = c
  BY <1>1, SoloStep DEF CacheInv
<1>3. cache[k].sector_idx = op[u].sector /\ cache[k].valid
  BY <1>1, <1>2 DEF DataAt, holds
<1>4. DataAt(u)'
  <2>1. ASSUME NEW c \in Cell, cache'[c].valid, ~ cache'[c].dirty PROVE Saved(c)'
    <3>1. CASE c = k
      BY <1>1, <1>2, <1>6, <2>1, <3>1 DEF DataAt, Saved, Pending
    <3>2. CASE c # k
      BY <1>1, <1>2, <1>6, <2>1, <3>2 DEF DataAt, Saved, Pending
    <3> QED
      BY <3>1, <3>2
  <2>2. ASSUME NEW c \in Cell, cache'[c].dirty PROVE cache'[c].valid
    BY <1>2, <1>3, <1>6, <2>2 DEF DataAt
  <2> QED
    BY <1>2, <2>1, <2>2 DEF DataAt
<1>5. View' = View
  <2>1. ASSUME NEW s \in Sector, NEW v, Shows(s, v) PROVE Shows(s, v)'
    <3>1. \A c \in Cell : /\ c \notin Filling /\ c \notin Filling'
                         /\ cache'[c].sector_idx = cache[c].sector_idx
                         /\ cache'[c].valid = cache[c].valid
                         /\ cache'[c].block_data = cache[c].block_data
      BY <1>0, <1>1, <1>2, <1>6
    <3> QED
      BY <1>1, <2>1, <3>1 DEF Shows, holds
  <2> QED
    BY <2>1, ViewSame DEF CacheInv
<1> QED
  BY <1>2, <1>4, <1>5

LEMMA FlushedData ==
    ASSUME CacheInv, UniqueCell', DataInv, Alone, Alone', NEW u \in Client, Flushed(u)
    PROVE  DataInv' /\ View' = View
<1>0. /\ i[u] \in Cell /\ cache \in [Cell -> CacheCell] /\ disk \in [Sector -> Block]
      /\ op[u] \in Access /\ op[u].sector \in Sector
  BY CacheAssumption DEF CacheInv, CellInv, AtCell, TypeOK, Access, Flushed
<1> DEFINE l == "flush"
           k == i[u]
<1>1. /\ pc[u] = "flushed" /\ pc' = [pc EXCEPT ![u] = l] /\ disk' = disk
      /\ i' = [i EXCEPT ![u] = i[u] + 1]
      /\ cache' = [cache EXCEPT ![i[u]].dirty = FALSE, ![i[u]].valid = FALSE]
  BY DEF Flushed, Goto, Loop
<1>6. /\ ~ cache'[k].valid /\ ~ cache'[k].dirty
      /\ \A c \in Cell \ {k} : cache'[c] = cache[c]
  BY <1>0, <1>1 DEF CacheCell
<1>2. /\ pc'[u] = l
      /\ DataAt(u)
      /\ DataAt(u)' => DataInv'
      /\ \A c \in Cell : c \in Filling <=> pc[u] \in {"fill", "filled"} /\ i[u] = c
      /\ \A c \in Cell : c \in Filling' <=> l \in {"fill", "filled"} /\ i'[u] = c
  BY <1>1, SoloStep DEF CacheInv
<1>3. /\ i'[u] = i[u] + 1
      /\ \A c \in Cell : c < i'[u] => c < i[u] \/ c = k
      /\ disk[cache[k].sector_idx] = cache[k].block_data
  <2>1. i'[u] = i[u] + 1
    BY <1>1 DEF CacheInv, TypeOK
  <2>2. \A c \in Cell : c < i'[u] => c < i[u] \/ c = k
    BY <1>0, <2>1 DEF Cell
  <2> QED
    BY <1>1, <1>2, <2>1, <2>2 DEF DataAt, Saved
<1>4. DataAt(u)'
  <2>1. ASSUME NEW c \in Cell, cache'[c].valid, ~ cache'[c].dirty PROVE Saved(c)'
    <3>1. c # k /\ cache'[c] = cache[c] /\ disk' = disk
      BY <1>1, <1>6, <2>1
    <3>2. ~ Pending(u, c)
      BY <1>1, <3>1 DEF Pending
    <3> QED
      BY <1>2, <2>1, <3>1, <3>2 DEF DataAt, Saved
  <2>2. ASSUME NEW c \in Cell, c < i'[u] PROVE ~ cache'[c].dirty
    BY <1>1, <1>2, <1>3, <1>6, <2>2 DEF DataAt
  <2>3. ASSUME NEW c \in Cell, cache'[c].dirty PROVE cache'[c].valid
    BY <1>2, <1>6, <2>3 DEF DataAt
  <2> QED
    BY <1>2, <2>1, <2>2, <2>3 DEF DataAt
<1>5. View' = View
  <2>1. ASSUME NEW s \in Sector, NEW v, Shows(s, v) PROVE Shows(s, v)'
    <3>1. CASE cache[k].valid /\ cache[k].sector_idx = s
      <4>1. \A c \in Cell \ {k} : ~ (cache[c].sector_idx = s /\ cache[c].valid)
        BY <1>0, <3>1 DEF CacheInv, UniqueCell, holds
      <4>2. disk'[s] = v
        BY <1>0, <1>1, <1>2, <1>3, <2>1, <3>1, <4>1 DEF Shows, holds
      <4> QED
        BY <1>0, <1>1, <1>2, <1>6, <4>1, <4>2 DEF Shows, holds
    <3>2. CASE ~ (cache[k].valid /\ cache[k].sector_idx = s)
      BY <1>0, <1>1, <1>2, <1>6, <2>1, <3>2 DEF Shows, holds
    <3> QED
      BY <3>1, <3>2
  <2> QED
    BY <2>1, ViewSame DEF CacheInv
<1> QED
  BY <1>2, <1>4, <1>5

\* The memcpy delivers what the file system sees, or changes one part of it.
LEMMA CopyData ==
    ASSUME CacheInv, UniqueCell', DataInv, Alone, Alone', NEW u \in Client, Copy(u)
    PROVE  /\ DataInv'
           /\ \/ /\ op[u].kind = "read" /\ View' = View
                 /\ out' = [out EXCEPT ![u] = View[op[u].sector][op[u].part]]
              \/ /\ op[u].kind = "write" /\ out' = out
                 /\ View' = [View EXCEPT ![op[u].sector] = [@ EXCEPT ![op[u].part] = op[u].data]]
<1>0. /\ i[u] \in Cell /\ cache \in [Cell -> CacheCell] /\ disk \in [Sector -> Block]
      /\ op[u] \in Access /\ op[u].sector \in Sector
  BY CacheAssumption DEF CacheInv, CellInv, AtCell, TypeOK, Access, Copy
<1> DEFINE l == "done"
           k == i[u]
           n == op[u].sector
<1>1. pc[u] = "copy" /\ pc' = [pc EXCEPT ![u] = l] /\ disk' = disk /\ op' = op /\ i' = i
  BY DEF Copy, Goto
<1>2. /\ pc'[u] = l
      /\ DataAt(u)
      /\ DataAt(u)' => DataInv'
      /\ \A c \in Cell : c \in Filling <=> pc[u] \in {"fill", "filled"} /\ i[u] = c
      /\ \A c \in Cell : c \in Filling' <=> l \in {"fill", "filled"} /\ i'[u] = c
  BY <1>1, SoloStep DEF CacheInv
<1>3. cache[k].sector_idx = n /\ cache[k].valid
  BY <1>1, <1>2 DEF DataAt, holds
<1>4. View[n] = cache[k].block_data
  <2>1. Shows(n, cache[k].block_data)
    BY <1>0, <1>1, <1>2, <1>3 DEF Shows, holds
  <2> QED
    BY <1>0, <2>1, ViewShows DEF CacheInv
<1>5. CASE op[u].kind = "read"
  <2>1. cache' = cache /\ out' = [out EXCEPT ![u] = cache[k].block_data[op[u].part]]
    BY <1>5 DEF Copy
  <2>2. DataAt(u)'
    BY <1>0, <1>1, <1>2, <1>5, <2>1 DEF DataAt, Saved, Pending, holds
  <2>3. \A c \in Cell : SameCell(c)
    BY <2>1 DEF SameCell
  <2>4. View' = View
    BY <1>1, <1>2, <2>3, MarksView DEF CacheInv
  <2> QED
    BY <1>2, <1>4, <1>5, <2>1, <2>2, <2>4
<1>6. CASE op[u].kind = "write"
  <2> DEFINE b == [cache[k].block_data EXCEPT ![op[u].part] = op[u].data]
  <2>1. cache' = [cache EXCEPT ![k].block_data = b] /\ out' = out
    BY <1>0, <1>6 DEF Copy, CacheCell
  <2> HIDE DEF b
  <2>2. /\ cache'[k].sector_idx = cache[k].sector_idx /\ cache'[k].valid = cache[k].valid
        /\ cache'[k].dirty = cache[k].dirty /\ cache'[k].block_data = b
        /\ \A c \in Cell \ {k} : cache'[c] = cache[c]
    BY <1>0, <2>1 DEF CacheCell
  <2>3. DataAt(u)'
    <3>1. ASSUME NEW c \in Cell \ {k}, cache'[c].valid, ~ cache'[c].dirty PROVE Saved(c)'
      BY <1>1, <1>2, <2>2, <3>1 DEF DataAt, Saved, Pending
    <3> QED
      BY <1>0, <1>1, <1>2, <1>3, <1>6, <2>2, <3>1 DEF DataAt, Pending, holds
  <2>4. View'[n] = b
    <3>1. k \in Cell \ Filling' /\ cache'[k].sector_idx = n /\ cache'[k].valid
      BY <1>0, <1>1, <1>2, <1>3, <2>2
    <3>2. ASSUME NEW s \in Sector, s = n, NEW v, v = b PROVE View'[s] = v
      <4>1. Shows(s, v)'
        BY <2>2, <3>1, <3>2 DEF Shows, holds
      <4> QED
        BY <4>1, ViewShowsNext
    <3> QED
      BY <1>0, <3>2
  <2>5. ASSUME NEW s \in Sector \ {n} PROVE View'[s] = View[s]
    <3>1. ASSUME NEW v, v = View[s] PROVE View'[s] = v
      <4>1. Shows(s, v)
        BY <3>1, ViewShows DEF CacheInv
      <4>2. Shows(s, v)'
        BY <1>0, <1>1, <1>2, <1>3, <2>2, <4>1 DEF Shows, holds
      <4> QED
        BY <4>2, ViewShowsNext
    <3> QED
      BY <3>1
  <2>6. View = [s \in Sector |-> View[s]] /\ View' = [s \in Sector |-> View'[s]]
    BY DEF View
  <2>7. View' = [View EXCEPT ![n] = b]
    BY <1>0, <2>4, <2>5, <2>6
  <2> QED
    BY <1>2, <1>4, <1>6, <2>1, <2>3, <2>7 DEF b
<1> QED
  BY <1>5, <1>6 DEF Copy
-----------------------------------------------------------------------------
\* A step of the cache is a step of the store or none that it can see.
LEMMA Simulation ==
    CacheInv /\ CacheInv' /\ DataInv /\ Alone /\ Alone' /\ [Next]_vars
        => DataInv' /\ [S!Next]_S!vars
<1> SUFFICES ASSUME CacheInv, CacheInv', DataInv, Alone, Alone', [Next]_vars
             PROVE  DataInv' /\ [S!Next]_S!vars
  OBVIOUS
<1>0. UniqueCell' /\ TypeOK
  BY DEF CacheInv
<1>1. ASSUME NEW u \in Client, NEW l, pc' = [pc EXCEPT ![u] = l],
             View' = View, op' = op, out' = out,
             \/ /\ pc[u] \in {"idle", "flush", "flushing", "flushed"}
                /\ l \in {"idle", "flush", "flushing", "flushed"}
             \/ pc[u] \in InCall \ {"done"} /\ l \in InCall \ {"done"}
      PROVE  UNCHANGED S!vars
  <2>1. Phase' = Phase
    <3>1. Phase = [Phase EXCEPT ![u] = Phase[u]]
      BY PhaseNow
    <3>2. CASE /\ pc[u] \in {"idle", "flush", "flushing", "flushed"}
               /\ l \in {"idle", "flush", "flushing", "flushed"}
      <4>1. Phase[u] = "idle" /\ Phase' = [Phase EXCEPT ![u] = "idle"]
        BY <1>0, <1>1, <3>2, PhaseMove, PhaseNow
      <4> QED
        BY <3>1, <4>1
    <3>3. CASE pc[u] \in InCall \ {"done"} /\ l \in InCall \ {"done"}
      <4>1. Phase[u] = "called" /\ Phase' = [Phase EXCEPT ![u] = "called"]
        BY <1>0, <1>1, <3>3, PhaseMove, PhaseNow
      <4> QED
        BY <3>1, <4>1
    <3> QED
      BY <1>1, <3>2, <3>3
  <2> QED
    BY <1>1, <2>1 DEF S!vars
<1>2. ASSUME NEW u \in Client, NEW a \in Access, Begin(u, a)
      PROVE  DataInv' /\ [S!Next]_S!vars
  <2>1. DataInv' /\ View' = View
    BY <1>0, <1>2, BeginData
  <2>2. pc[u] = "idle" /\ pc' = [pc EXCEPT ![u] = "search"] /\ op' = [op EXCEPT ![u] = a] /\ out' = out
    BY <1>2 DEF Begin, Goto
  <2>3. Phase[u] = "idle" /\ Phase' = [Phase EXCEPT ![u] = "called"]
    <3>1. "search" \in InCall \ {"done"} /\ "idle" \in {"idle", "flush", "flushing", "flushed"}
      BY DEF InCall
    <3>2. Phase' = [Phase EXCEPT ![u] = "called"]
      BY <1>0, <2>2, <3>1, PhaseMove
    <3>3. Phase[u] = "idle"
      BY <2>2, <3>1, PhaseNow
    <3> QED
      BY <3>2, <3>3
  <2>4. S!Begin(u, a)
    BY <2>1, <2>2, <2>3 DEF S!Begin
  <2> QED
    BY <2>1, <2>4 DEF S!Next
<1>3. ASSUME NEW u \in Client, Copy(u)
      PROVE  DataInv' /\ [S!Next]_S!vars
  <2>1. /\ DataInv'
        /\ \/ /\ op[u].kind = "read" /\ View' = View
              /\ out' = [out EXCEPT ![u] = View[op[u].sector][op[u].part]]
           \/ /\ op[u].kind = "write" /\ out' = out
              /\ View' = [View EXCEPT ![op[u].sector] = [@ EXCEPT ![op[u].part] = op[u].data]]
    BY <1>0, <1>3, CopyData
  <2>2. pc[u] = "copy" /\ pc' = [pc EXCEPT ![u] = "done"] /\ op' = op
    BY <1>3 DEF Copy, Goto
  <2>3. Phase[u] = "called" /\ Phase' = [Phase EXCEPT ![u] = "done"]
    <3>1. "done" \in {"done"} /\ "copy" \in InCall \ {"done"}
      BY DEF InCall
    <3>2. Phase' = [Phase EXCEPT ![u] = "done"]
      BY <1>0, <2>2, <3>1, PhaseMove
    <3>3. Phase[u] = "called"
      BY <2>2, <3>1, PhaseNow
    <3> QED
      BY <3>2, <3>3
  <2>4. S!Read(u) \/ S!Write(u)
    BY <2>1, <2>2, <2>3 DEF S!Read, S!Write
  <2> QED
    BY <2>1, <2>4 DEF S!Next
<1>4. ASSUME NEW u \in Client, Done(u)
      PROVE  DataInv' /\ [S!Next]_S!vars
  <2>1. DataInv' /\ View' = View
    BY <1>0, <1>4, DoneData
  <2>2. /\ pc[u] = "done" /\ pc' = [pc EXCEPT ![u] = "idle"]
        /\ op' = [op EXCEPT ![u] = NoAccess] /\ out' = out
    BY <1>4 DEF Done, Goto
  <2>3. Phase[u] = "done" /\ Phase' = [Phase EXCEPT ![u] = "idle"]
    <3>1. "idle" \in {"idle", "flush", "flushing", "flushed"} /\ "done" \in {"done"}
      BY DEF InCall
    <3>2. Phase' = [Phase EXCEPT ![u] = "idle"]
      BY <1>0, <2>2, <3>1, PhaseMove
    <3>3. Phase[u] = "done"
      BY <2>2, <3>1, PhaseNow
    <3> QED
      BY <3>2, <3>3
  <2>4. S!End(u)
    BY <2>1, <2>2, <2>3 DEF S!End
  <2> QED
    BY <2>1, <2>4 DEF S!Next
<1>5. ASSUME NEW u \in Client, Search(u)
      PROVE  DataInv' /\ UNCHANGED S!vars
  <2>1. DataInv' /\ View' = View
    BY <1>0, <1>5, SearchData
  <2>2. pc[u] = "search" /\ op' = op /\ out' = out
    BY <1>5 DEF Search
  <2>3. CASE UNCHANGED pc
    <3>1. Phase' = Phase
      BY <2>3 DEF Phase
    <3> QED
      BY <2>1, <2>2, <3>1 DEF S!vars
  <2>4. CASE \E l \in {"evict", "pin"} : pc' = [pc EXCEPT ![u] = l]
    BY <1>1, <2>1, <2>2, <2>4 DEF InCall
  <2> QED
    BY <1>5, <2>3, <2>4 DEF Search, Goto
<1>6. ASSUME NEW u \in Client, Pin(u)
      PROVE  DataInv' /\ UNCHANGED S!vars
  <2>1. DataInv' /\ View' = View
    BY <1>0, <1>6, PinData
  <2>2. pc[u] = "pin" /\ op' = op /\ out' = out /\ pc' = [pc EXCEPT ![u] = "copy"]
    BY <1>6 DEF Pin, Goto
  <2> QED
    BY <1>1, <2>1, <2>2 DEF InCall
<1>7. ASSUME NEW u \in Client, Evict(u)
      PROVE  DataInv' /\ UNCHANGED S!vars
  <2>1. DataInv' /\ View' = View
    BY <1>0, <1>7, EvictData
  <2>2. pc[u] = "evict" /\ op' = op /\ out' = out
    BY <1>7 DEF Evict
  <2>3. CASE UNCHANGED pc
    <3>1. Phase' = Phase
      BY <2>3 DEF Phase
    <3> QED
      BY <2>1, <2>2, <3>1 DEF S!vars
  <2>4. CASE \E l \in {"write_back", "assign"} : pc' = [pc EXCEPT ![u] = l]
    BY <1>1, <2>1, <2>2, <2>4 DEF InCall
  <2> QED
    BY <1>7, <2>3, <2>4 DEF Evict, Goto
<1>8. ASSUME NEW u \in Client, WriteBack(u)
      PROVE  DataInv' /\ UNCHANGED S!vars
  <2>1. DataInv' /\ View' = View
    BY <1>0, <1>8, WriteBackData
  <2>2. pc[u] = "write_back" /\ op' = op /\ out' = out /\ pc' = [pc EXCEPT ![u] = "written"]
    BY <1>8 DEF WriteBack, Goto
  <2> QED
    BY <1>1, <2>1, <2>2 DEF InCall
<1>9. ASSUME NEW u \in Client, Written(u)
      PROVE  DataInv' /\ UNCHANGED S!vars
  <2>1. DataInv' /\ View' = View
    BY <1>0, <1>9, WrittenData
  <2>2. pc[u] = "written" /\ op' = op /\ out' = out /\ pc' = [pc EXCEPT ![u] = "assign"]
    BY <1>9 DEF Written, Goto
  <2> QED
    BY <1>1, <2>1, <2>2 DEF InCall
<1>10. ASSUME NEW u \in Client, Assign(u)
      PROVE  DataInv' /\ UNCHANGED S!vars
  <2>1. DataInv' /\ View' = View
    BY <1>0, <1>10, AssignData
  <2>2. pc[u] = "assign" /\ op' = op /\ out' = out /\ pc' = [pc EXCEPT ![u] = "fill"]
    BY <1>10 DEF Assign, Goto
  <2> QED
    BY <1>1, <2>1, <2>2 DEF InCall
<1>11. ASSUME NEW u \in Client, Fill(u)
      PROVE  DataInv' /\ UNCHANGED S!vars
  <2>1. DataInv' /\ View' = View
    BY <1>0, <1>11, FillData
  <2>2. pc[u] = "fill" /\ op' = op /\ out' = out /\ pc' = [pc EXCEPT ![u] = "filled"]
    BY <1>11 DEF Fill, Goto
  <2> QED
    BY <1>1, <2>1, <2>2 DEF InCall
<1>12. ASSUME NEW u \in Client, Filled(u)
      PROVE  DataInv' /\ UNCHANGED S!vars
  <2>1. DataInv' /\ View' = View
    BY <1>0, <1>12, FilledData
  <2>2. pc[u] = "filled" /\ op' = op /\ out' = out /\ pc' = [pc EXCEPT ![u] = "copy"]
    BY <1>12 DEF Filled, Goto
  <2> QED
    BY <1>1, <2>1, <2>2 DEF InCall
<1>13. ASSUME NEW u \in Client, Reset(u)
      PROVE  DataInv' /\ UNCHANGED S!vars
  <2>1. DataInv' /\ View' = View
    BY <1>0, <1>13, ResetData
  <2>2. pc[u] = "idle" /\ op' = op /\ out' = out /\ pc' = [pc EXCEPT ![u] = "flush"]
    BY <1>13 DEF Reset, Goto
  <2> QED
    BY <1>1, <2>1, <2>2 DEF InCall
<1>14. ASSUME NEW u \in Client, Flushing(u)
      PROVE  DataInv' /\ UNCHANGED S!vars
  <2>1. DataInv' /\ View' = View
    BY <1>0, <1>14, FlushingData
  <2>2. pc[u] = "flushing" /\ op' = op /\ out' = out /\ pc' = [pc EXCEPT ![u] = "flushed"]
    BY <1>14 DEF Flushing, Goto
  <2> QED
    BY <1>1, <2>1, <2>2 DEF InCall
<1>15. ASSUME NEW u \in Client, Flushed(u)
      PROVE  DataInv' /\ UNCHANGED S!vars
  <2>1. DataInv' /\ View' = View
    BY <1>0, <1>15, FlushedData
  <2>2. pc[u] = "flushed" /\ op' = op /\ out' = out /\ pc' = [pc EXCEPT ![u] = "flush"]
    BY <1>15 DEF Flushed, Goto
  <2> QED
    BY <1>1, <2>1, <2>2 DEF InCall
<1>16. ASSUME NEW u \in Client, Flush(u)
      PROVE  DataInv' /\ UNCHANGED S!vars
  <2>1. DataInv' /\ View' = View
    BY <1>0, <1>16, FlushData
  <2>2. pc[u] = "flush" /\ op' = op /\ out' = out
    BY <1>16 DEF Flush
  <2>3. CASE UNCHANGED pc
    <3>1. Phase' = Phase
      BY <2>3 DEF Phase
    <3> QED
      BY <2>1, <2>2, <3>1 DEF S!vars
  <2>4. CASE \E l \in {"idle", "flushing"} : pc' = [pc EXCEPT ![u] = l]
    BY <1>1, <2>1, <2>2, <2>4
  <2> QED
    BY <1>16, <2>3, <2>4 DEF Flush, Goto
<1>17. CASE UNCHANGED vars
  <2>1. View' = View /\ Phase' = Phase /\ op' = op /\ out' = out
    BY <1>17 DEF vars, View, Phase, Filling, holds
  <2>2. DataInv'
    BY <1>17 DEF vars, DataInv, DirtyInv, CleanInv, WorkInv, Pending, Saved, holds
  <2> QED
    BY <2>1, <2>2 DEF S!vars
<1> QED
  BY <1>2, <1>3, <1>4, <1>5, <1>6, <1>7, <1>8, <1>9, <1>10,
     <1>11, <1>12, <1>13, <1>14, <1>15, <1>16, <1>17 DEF Next, Step

\* Before the first access nothing is cached and the store is empty.
LEMMA StoreInit == Init => DataInv /\ S!Init
<1> SUFFICES ASSUME Init PROVE DataInv /\ S!Init
  OBVIOUS
<1>1. DataInv
  BY DEF Init, DataInv, DirtyInv, CleanInv, WorkInv, Pending
<1>2. View \in [Sector -> Block]
  <2>1. \A s \in Sector : View[s] = disk[s]
    BY DEF Init, View, holds
  <2>2. disk \in [Sector -> Block]
    BY CacheAssumption DEF Init, Block
  <2>3. View = [s \in Sector |-> View[s]]
    BY DEF View
  <2> QED
    BY <2>1, <2>2, <2>3
<1>3. Phase = [u \in Client |-> "idle"]
  <2>1. \A u \in Client : Phase[u] = "idle"
    BY PhaseNow DEF Init
  <2>2. Phase = [u \in Client |-> Phase[u]]
    BY DEF Phase
  <2> QED
    BY <2>1, <2>2, Zenon
<1>4. op = [u \in Client |-> NoAccess] /\ out \in [Client -> Data]
  BY CacheAssumption DEF Init
<1> QED
  BY <1>1, <1>2, <1>3, <1>4 DEF S!Init

LEMMA DataInvariant == Spec /\ []Alone => []DataInv
<1>1. Init => DataInv
  BY StoreInit
<1>2. CacheInv /\ CacheInv' /\ DataInv /\ Alone /\ Alone' /\ [Next]_vars => DataInv'
  BY Simulation
<1> QED
  BY <1>1, <1>2, CacheInvariant, PTL DEF Spec

\* Refinement: as long as one process at a time is in the cache, cache_read and
\* cache_write give the file system an array of sectors, however often cells are
\* evicted, written back, filled and flushed in between.
THEOREM CacheIsAStore == Spec /\ []Alone => StoreSpec
<1>1. Init => S!Init
  BY StoreInit
<1>2. CacheInv /\ CacheInv' /\ DataInv /\ Alone /\ Alone' /\ [Next]_vars => [S!Next]_S!vars
  BY Simulation
<1> QED
  BY <1>1, <1>2, CacheInvariant, DataInvariant, PTL DEF Spec, StoreSpec, S!Spec

\* The values of pc.
Label == InCall \cup {"idle", "flush", "flushing", "flushed"}

\* cache_flush ends after the last cell.
LEMMA FlushEnd ==
    ASSUME TypeOK, [Next]_vars, NEW u \in Client, pc[u] = "flush", pc'[u] = "idle"
    PROVE  flush_end(i[u])
<1>0. pc \in [Client -> Label]
  BY DEF TypeOK, Label, InCall
<1>1. pc'[u] # pc[u]
  OBVIOUS
<1>2. ASSUME NEW w \in Client, NEW l, pc' = [pc EXCEPT ![w] = l] PROVE w = u
  BY <1>0, <1>1, <1>2
<1>3. PICK w \in Client : Step(w) \/ Reset(w) \/ \E a \in Access : Begin(w, a)
  BY <1>1 DEF Next, vars
<1>4. w = u
  <2>1. pc' = pc \/ \E l \in Label : pc' = [pc EXCEPT ![w] = l]
    <3>1. CASE Reset(w) \/ \E a \in Access : Begin(w, a)
      BY <3>1 DEF Reset, Begin, Goto, Label, InCall
    <3>2. CASE Search(w) \/ Pin(w) \/ Evict(w) \/ WriteBack(w) \/ Written(w)
      BY <3>2 DEF Search, Pin, Evict, WriteBack, Written, Goto, Label, InCall
    <3>3. CASE Assign(w) \/ Fill(w) \/ Filled(w) \/ Copy(w) \/ Done(w)
      BY <3>3 DEF Assign, Fill, Filled, Copy, Done, Goto, Label, InCall
    <3>4. CASE Flush(w) \/ Flushing(w) \/ Flushed(w)
      BY <3>4 DEF Flush, Flushing, Flushed, Goto, Label, InCall
    <3> QED
      BY <1>3, <3>1, <3>2, <3>3, <3>4 DEF Step
  <2> QED
    BY <1>1, <1>2, <2>1
<1>5. Flush(u)
  BY <1>3, <1>4 DEF Step, Search, Pin, Evict, WriteBack, Written, Assign, Fill, Filled, Copy,
                    Done, Flushing, Flushed, Reset, Begin
<1> QED
  BY <1>0, <1>1, <1>5 DEF Flush, Goto

LEMMA FlushedAll ==
    CacheInv /\ DataInv /\ Alone /\ [Next]_vars
        => \A u \in Client : pc[u] = "flush" /\ pc'[u] = "idle" => disk = View
<1> SUFFICES ASSUME CacheInv, DataInv, Alone, [Next]_vars, NEW u \in Client,
                    pc[u] = "flush", pc'[u] = "idle"
             PROVE  disk = View
  OBVIOUS
<1>1. flush_end(i[u])
  BY FlushEnd DEF CacheInv
<1>2. \A c \in Cell : c < i[u]
  BY <1>1, CacheAssumption DEF flush_end, Cell, CacheInv, TypeOK
<1>3. \A c \in Cell : ~ cache[c].dirty
  BY <1>2 DEF DataInv, WorkInv
<1>4. \A w \in Client \ {u} : pc[w] = "idle"
  BY DEF Alone
<1>5. \A c \in Cell : cache[c].valid => Saved(c)
  BY <1>3, <1>4 DEF DataInv, CleanInv, Pending
<1>6. ASSUME NEW s \in Sector PROVE View[s] = disk[s]
  <2>1. Shows(s, disk[s])
    BY <1>5 DEF Shows, Saved, holds
  <2> QED
    BY <2>1, ViewShows DEF CacheInv
<1>7. View = [s \in Sector |-> View[s]] /\ disk = [s \in Sector |-> disk[s]]
  BY DEF View, CacheInv, TypeOK
<1> QED
  BY <1>6, <1>7, Zenon

\* As long as one process at a time is in the cache, a cache_flush that is over has
\* put everything that was written on the disk.
THEOREM FlushIsComplete == Spec /\ []Alone => FlushPersists
<1>1. CacheInv /\ DataInv /\ Alone /\ [Next]_vars
          => [\A u \in Client : pc[u] = "flush" /\ pc'[u] = "idle" => disk = View]_vars
  BY FlushedAll
<1> QED
  BY <1>1, CacheInvariant, DataInvariant, PTL DEF Spec, FlushPersists

\* One process: it sees an array of sectors, and its cache_reset saves everything.
THEOREM OneProcessCache ==
    ASSUME \A u, w \in Client : u = w
    PROVE  Spec => StoreSpec /\ FlushPersists
<1>1. Alone
  BY DEF Alone
<1> QED
  BY <1>1, CacheIsAStore, FlushIsComplete, PTL

\* Without cache_reset, everybody in the cache holds global_filesys_lock.
CallsOnly == \A u \in Client : pc[u] \in InCall \cup {"idle"}

LEMMA CallsOnlyPreserved ==
    TypeOK /\ CallsOnly /\ [Next]_vars /\ [\A u \in Client : ~ Reset(u)]_vars => CallsOnly'
<1> SUFFICES ASSUME TypeOK, CallsOnly, [Next]_vars, [\A u \in Client : ~ Reset(u)]_vars
             PROVE  CallsOnly'
  OBVIOUS
<1>0. pc \in [Client -> Label]
  BY DEF TypeOK, Label, InCall
<1>1. CASE UNCHANGED vars
  BY <1>1 DEF vars, CallsOnly
<1>2. CASE ~ UNCHANGED vars
  <2>1. PICK u \in Client : Step(u) \/ \E a \in Access : Begin(u, a)
    BY <1>2 DEF Next
  <2>2. pc[u] \in InCall \cup {"idle"}
    BY DEF CallsOnly
  <2>3. pc' = pc \/ \E l \in InCall \cup {"idle"} : pc' = [pc EXCEPT ![u] = l]
    <3>1. CASE \E a \in Access : Begin(u, a)
      BY <3>1 DEF Begin, Goto, InCall
    <3>2. CASE Search(u) \/ Pin(u) \/ Evict(u) \/ WriteBack(u) \/ Written(u)
      BY <3>2 DEF Search, Pin, Evict, WriteBack, Written, Goto, InCall
    <3>3. CASE Assign(u) \/ Fill(u) \/ Filled(u) \/ Copy(u) \/ Done(u)
      BY <3>3 DEF Assign, Fill, Filled, Copy, Done, Goto, InCall
    <3>4. CASE Flush(u) \/ Flushing(u) \/ Flushed(u)
      BY <2>2, <3>4 DEF Flush, Flushing, Flushed, InCall
    <3> QED
      BY <2>1, <3>1, <3>2, <3>3, <3>4 DEF Step
  <2> QED
    BY <1>0, <2>3 DEF CallsOnly
<1> QED
  BY <1>1, <1>2

\* Any number of processes that make file calls only see an array of sectors:
\* global_filesys_lock is enough, and it is cache_reset, which flushes without it,
\* that can lose a write.
THEOREM FileCallsSeeAStore ==
    Spec /\ [][\A u \in Client : ~ Reset(u)]_vars => StoreSpec
<1>1. Init => CallsOnly
  BY DEF Init, CallsOnly
<1>2. TypeOK /\ CallsOnly /\ [Next]_vars /\ [\A u \in Client : ~ Reset(u)]_vars => CallsOnly'
  BY CallsOnlyPreserved
<1>3. CacheInv => TypeOK
  BY DEF CacheInv
<1>4. CacheInv /\ CallsOnly => Alone
  BY DEF CacheInv, CallInv, CallsOnly, Alone
<1>5. Spec /\ [][\A u \in Client : ~ Reset(u)]_vars => []CallsOnly
  BY <1>1, <1>2, <1>3, CacheInvariant, PTL DEF Spec
<1>6. Spec /\ [][\A u \in Client : ~ Reset(u)]_vars => []Alone
  BY <1>4, <1>5, CacheInvariant, PTL
<1> QED
  BY <1>6, CacheIsAStore, PTL
=============================================================================
