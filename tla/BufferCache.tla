---------------------------- MODULE BufferCache ----------------------------
(***************************************************************************)
(* The write-back buffer cache of the PintOS file system                   *)
(* (filesys/buffer-cache.c): a fixed array of cells, clock eviction, and a *)
(* lock in each cell that is held around disk transfers only.              *)
(*                                                                         *)
(* File calls reach the cache under global_filesys_lock; the cache_reset   *)
(* system call flushes it without that lock (userprog/syscall.c).  A disk  *)
(* write takes the data when the command is issued and the thread sleeps   *)
(* until the disk is done (devices/ide.c), so a transfer has two steps.    *)
(***************************************************************************)
EXTENDS Integers

CONSTANTS
    Client,      \* processes
    Sector, Part, Data,
    Writable,    \* the sectors the processes of an instance write
    CACHE_SIZE,
    None

Cell == 0 .. CACHE_SIZE - 1
Block == [Part -> Data]

ASSUME CacheAssumption ==
    /\ CACHE_SIZE \in Nat \ {0}
    /\ None \notin Client
    /\ Writable \subseteq Sector
    /\ 0 \in Sector /\ 0 \in Part /\ 0 \in Data

VARIABLES
    disk,
    cache,         \* the cells
    cache_lock,    \* holder of each cell's lock
    clock_idx,
    fs_lock,       \* holder of global_filesys_lock
    pc, op,        \* where a client is, and the access it makes
    i,             \* the loop variable of cache_search, cache_evict, cache_flush
    out            \* what the last read of a client delivered

vars == <<disk, cache, cache_lock, clock_idx, fs_lock, pc, op, i, out>>

CacheCell == [block_data : Block, sector_idx : Sector, dirty : BOOLEAN,
              recently_accessed : BOOLEAN, valid : BOOLEAN, num_using : Nat]
Access == [kind : {"read"}, sector : Sector, part : Part, data : {0}]
             \cup [kind : {"write"}, sector : Writable, part : Part, data : Data]
NoAccess == [kind |-> "read", sector |-> 0, part |-> 0, data |-> 0]

TypeOK ==
    /\ disk \in [Sector -> Block]
    /\ cache \in [Cell -> CacheCell]
    /\ cache_lock \in [Cell -> Client \cup {None}]
    /\ clock_idx \in Cell
    /\ fs_lock \in Client \cup {None}
    /\ pc \in [Client -> {"idle", "search", "pin", "evict", "write_back", "written", "assign",
                          "fill", "filled", "copy", "done", "flush", "flushing", "flushed"}]
    /\ op \in [Client -> Access]
    /\ i \in [Client -> 0 .. CACHE_SIZE]
    /\ out \in [Client -> Data]
-----------------------------------------------------------------------------
Goto(u, l) == pc' = [pc EXCEPT ![u] = l]
Loop(u, n) == i' = [i EXCEPT ![u] = n]
Acquire(u, c) == cache_lock[c] = None /\ cache_lock' = [cache_lock EXCEPT ![c] = u]
Release(c) == cache_lock' = [cache_lock EXCEPT ![c] = None]

\* A file call starts an access, under global_filesys_lock.
Begin(u, a) ==
    /\ pc[u] = "idle" /\ fs_lock = None
    /\ fs_lock' = u
    /\ op' = [op EXCEPT ![u] = a]
    /\ Goto(u, "search") /\ Loop(u, 0)
    /\ UNCHANGED <<disk, cache, cache_lock, clock_idx, out>>

\* Cell c holds sector s.
holds(c, s) == cache[c].sector_idx = s /\ cache[c].valid

\* Faulty: the last cell is left out.
search_end_short(n) == n >= CACHE_SIZE - 1

\* cache_search has been through all cells.
search_end(n) == n >= CACHE_SIZE

\* cache_search looks at the next cell, whose lock must be free; after the last
\* one the access has missed.
Search(u) ==
    /\ pc[u] = "search"
    /\ \/ search_end(i[u]) /\ Goto(u, "evict") /\ Loop(u, clock_idx)
       \/ /\ ~ search_end(i[u]) /\ cache_lock[i[u]] = None
          /\ \/ holds(i[u], op[u].sector) /\ Goto(u, "pin") /\ UNCHANGED i
             \/ ~ holds(i[u], op[u].sector) /\ Loop(u, i[u] + 1) /\ UNCHANGED pc
    /\ UNCHANGED <<disk, cache, cache_lock, clock_idx, fs_lock, op, out>>

\* cache_fetch after a hit, when the cell's lock has been released.
Pin(u) ==
    /\ pc[u] = "pin"
    /\ cache' = [cache EXCEPT ![i[u]].recently_accessed = TRUE, ![i[u]].num_using = @ + 1]
    /\ Goto(u, "copy")
    /\ UNCHANGED <<disk, cache_lock, clock_idx, fs_lock, op, i, out>>

\* Faulty: the hand passes a cell and leaves its mark.
spared_marked(c) == c.recently_accessed

\* recently_accessed of a cell that the hand has spared: an unused cell loses it.
spared(c) == c.recently_accessed /\ c.num_using > 0

\* One turn of cache_evict: an invalid cell, or an unused one that was not
\* accessed since the hand last passed, is the victim.
Evict(u) ==
    LET c == cache[i[u]]
        victim == ~ c.valid \/ (c.num_using <= 0 /\ ~ c.recently_accessed) IN
    /\ pc[u] = "evict"
    /\ clock_idx' = i[u]
    /\ \/ victim /\ Goto(u, IF c.dirty THEN "write_back" ELSE "assign") /\ UNCHANGED <<i, cache>>
       \/ /\ ~ victim
          /\ Loop(u, (i[u] + 1) % CACHE_SIZE)
          /\ cache' = [cache EXCEPT ![i[u]].recently_accessed = spared(c)]
          /\ UNCHANGED pc
    /\ UNCHANGED <<disk, cache_lock, fs_lock, op, out>>

\* Faulty: the data does not reach the disk.
block_write_lost(c) == UNCHANGED disk

\* block_write of cell c.
block_write(c) == disk' = [disk EXCEPT ![cache[c].sector_idx] = cache[c].block_data]

\* cache_fetch writes a dirty victim back: the transfer starts ...
WriteBack(u) ==
    /\ pc[u] = "write_back"
    /\ Acquire(u, i[u])
    /\ block_write(i[u])
    /\ Goto(u, "written")
    /\ UNCHANGED <<cache, clock_idx, fs_lock, op, i, out>>

\* ... and is over.
Written(u) ==
    /\ pc[u] = "written"
    /\ Release(i[u])
    /\ Goto(u, "assign")
    /\ UNCHANGED <<disk, cache, clock_idx, fs_lock, op, i, out>>

\* cache_fetch gives the cell to the new sector, before it has its data.
Assign(u) ==
    /\ pc[u] = "assign"
    /\ cache' = [cache EXCEPT ![i[u]] = [block_data |-> @.block_data, sector_idx |-> op[u].sector,
                                        dirty |-> FALSE, recently_accessed |-> TRUE,
                                        valid |-> TRUE, num_using |-> 1]]
    /\ Goto(u, "fill")
    /\ UNCHANGED <<disk, cache_lock, clock_idx, fs_lock, op, i, out>>

\* cache_fetch reads the sector under the cell's lock ...
Fill(u) ==
    /\ pc[u] = "fill"
    /\ Acquire(u, i[u])
    /\ Goto(u, "filled")
    /\ UNCHANGED <<disk, cache, clock_idx, fs_lock, op, i, out>>

\* Faulty: a write does not read the rest of the sector first.
fetched_partly(u) ==
    IF op[u].kind = "write" THEN cache[i[u]].block_data ELSE disk[op[u].sector]

\* What block_read delivers.
fetched(u) == disk[op[u].sector]

\* ... and has it.
Filled(u) ==
    /\ pc[u] = "filled"
    /\ cache' = [cache EXCEPT ![i[u]].block_data = fetched(u)]
    /\ Release(i[u])
    /\ Goto(u, "copy")
    /\ UNCHANGED <<disk, clock_idx, fs_lock, op, i, out>>

\* The memcpy of cache_read or cache_write, without the cell's lock.
Copy(u) ==
    /\ pc[u] = "copy"
    /\ \/ /\ op[u].kind = "read"
          /\ out' = [out EXCEPT ![u] = cache[i[u]].block_data[op[u].part]]
          /\ UNCHANGED cache
       \/ /\ op[u].kind = "write"
          /\ cache' = [cache EXCEPT ![i[u]].block_data[op[u].part] = op[u].data]
          /\ UNCHANGED out
    /\ Goto(u, "done")
    /\ UNCHANGED <<disk, cache_lock, clock_idx, fs_lock, op, i>>

\* Faulty: the cell is given up twice.
unpin_twice(n) == n - 2

\* The access no longer uses a cell with num_using = n.
unpin(n) == n - 1

\* The end of cache_read or cache_write, and of the file call.
Done(u) ==
    /\ pc[u] = "done"
    /\ cache' = [cache EXCEPT ![i[u]].dirty = @ \/ op[u].kind = "write",
                             ![i[u]].num_using = unpin(@),
                             ![i[u]].recently_accessed = TRUE]
    /\ fs_lock' = None
    /\ op' = [op EXCEPT ![u] = NoAccess]
    /\ Goto(u, "idle") /\ Loop(u, 0)
    /\ UNCHANGED <<disk, cache_lock, clock_idx, out>>

\* The cache_reset system call starts to flush the cache.
Reset(u) ==
    /\ pc[u] = "idle"
    /\ Goto(u, "flush") /\ Loop(u, 0)
    /\ UNCHANGED <<disk, cache, cache_lock, clock_idx, fs_lock, op, out>>

\* Faulty: the last cell is left out.
flush_end_short(n) == n >= CACHE_SIZE - 1

\* cache_flush has been through all cells.
flush_end(n) == n >= CACHE_SIZE

\* cache_flush tests the next cell, before it takes the lock.
Flush(u) ==
    LET pick == cache[i[u]].valid /\ cache[i[u]].dirty IN
    /\ pc[u] = "flush"
    /\ \/ flush_end(i[u]) /\ Goto(u, "idle") /\ Loop(u, 0)
       \/ ~ flush_end(i[u]) /\ pick /\ Goto(u, "flushing") /\ UNCHANGED i
       \/ ~ flush_end(i[u]) /\ ~ pick /\ Loop(u, i[u] + 1) /\ UNCHANGED pc
    /\ UNCHANGED <<disk, cache, cache_lock, clock_idx, fs_lock, op, out>>

\* cache_flush takes the lock and starts to write the cell ...
Flushing(u) ==
    /\ pc[u] = "flushing"
    /\ Acquire(u, i[u])
    /\ block_write(i[u])
    /\ Goto(u, "flushed")
    /\ UNCHANGED <<cache, clock_idx, fs_lock, op, i, out>>

\* ... and empties it when the disk is done.
Flushed(u) ==
    /\ pc[u] = "flushed"
    /\ cache' = [cache EXCEPT ![i[u]].dirty = FALSE, ![i[u]].valid = FALSE]
    /\ Release(i[u])
    /\ Goto(u, "flush") /\ Loop(u, i[u] + 1)
    /\ UNCHANGED <<disk, clock_idx, fs_lock, op, out>>
-----------------------------------------------------------------------------
\* cache_init () over zeroed memory and an empty disk.
Init ==
    /\ disk = [s \in Sector |-> [h \in Part |-> 0]]
    /\ cache = [c \in Cell |-> [block_data |-> [h \in Part |-> 0], sector_idx |-> 0,
                                dirty |-> FALSE, recently_accessed |-> FALSE,
                                valid |-> FALSE, num_using |-> 0]]
    /\ cache_lock = [c \in Cell |-> None]
    /\ clock_idx = 0
    /\ fs_lock = None
    /\ pc = [u \in Client |-> "idle"]
    /\ op = [u \in Client |-> NoAccess]
    /\ i = [u \in Client |-> 0]
    /\ out = [u \in Client |-> 0]

Step(u) ==
    \/ Search(u) \/ Pin(u) \/ Evict(u) \/ WriteBack(u) \/ Written(u) \/ Assign(u)
    \/ Fill(u) \/ Filled(u) \/ Copy(u) \/ Done(u)
    \/ Flush(u) \/ Flushing(u) \/ Flushed(u)

Next == \E u \in Client : Step(u) \/ Reset(u) \/ \E a \in Access : Begin(u, a)

Spec == Init /\ [][Next]_vars

\* Threads are scheduled, the disk answers, and locks go to their first waiter.
FairSpec == Spec /\ \A u \in Client : SF_vars(Step(u))
-----------------------------------------------------------------------------
(***************************************************************************)
(* Properties.                                                             *)
(***************************************************************************)

\* Cells that were given to a sector whose data they do not have yet.
Filling == {c \in Cell : \E u \in Client : pc[u] \in {"fill", "filled"} /\ i[u] = c}

\* The sectors as the file system sees them: in the cache, else on the disk.
View ==
    [s \in Sector |->
        IF \E c \in Cell \ Filling : holds(c, s)
        THEN cache[CHOOSE c \in Cell \ Filling : holds(c, s)].block_data
        ELSE disk[s]]

\* How far the access of a client is: the memcpy is its effect.
Phase ==
    [u \in Client |-> CASE pc[u] \in {"idle", "flush", "flushing", "flushed"} -> "idle"
                        [] pc[u] = "done" -> "done"
                        [] OTHER -> "called"]

\* Searching, eviction, write-back, filling and flushing never change what the
\* file system sees; a write changes one part and a read delivers the last write.
S == INSTANCE Store WITH content <- View, phase <- Phase, access <- op,
                         Contents <- [Sector -> Block], Values <- Data
StoreSpec == S!Spec

\* cache_search may stop at the first hit: no sector is in two cells.
UniqueCell ==
    \A c, d \in Cell : \A s \in Sector : holds(c, s) /\ holds(d, s) => c = d

\* When cache_reset returns, the disk has everything that was written.
FlushPersists ==
    [][\A u \in Client : pc[u] = "flush" /\ pc'[u] = "idle" => disk = View]_vars

\* Every access and every flush ends: the clock finds a victim.
AccessEnds == \A u \in Client : pc[u] # "idle" ~> pc[u] = "idle"
=============================================================================
