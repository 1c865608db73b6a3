------------------------------- MODULE FileSys -------------------------------
(***************************************************************************)
(* The file system of PintOS above the buffer cache: free map, inodes with *)
(* direct and indirect pointers, the root directory, open files and the    *)
(* descriptors of a process (filesys/free-map.c, inode.c, directory.c,     *)
(* file.c, filesys.c and the file calls of userprog/syscall.c).            *)
(*                                                                         *)
(* A file call holds global_filesys_lock from its first to its last        *)
(* access, so it is one action; the state it works on is the record `fs',  *)
(* which the operators named after the C functions take and return.        *)
(* File data goes through the cache, inodes, pointer blocks and the zeros  *)
(* of a new sector go to the disk directly.  fs.cached are the free sectors *)
(* the cache still has a cell for; for a sector in use it makes no         *)
(* difference here whether its data is in the cache or on the disk.        *)
(*                                                                         *)
(* fs.fault names the first step after which the disk is wrong:            *)
(*   "full"    the result of free_map_allocate is not looked at;           *)
(*   "stale"   a sector is handed out while the cache has its old contents;*)
(*   "lost"    the pointers of a double indirect block are not stored;     *)
(*   "unsaved" the machine stops while a grown file is open;               *)
(*   "panic"   a sector that is not allocated is released.                 *)
(* Behaviours end there, and the other properties are about every          *)
(* behaviour up to such a point.                                           *)
(***************************************************************************)
EXTENDS Integers, Sequences, FiniteSets, SequencesExt, FiniteSetsExt

CONSTANTS
    NSectors,      \* sectors of the device
    UNIT,          \* units of data in a sector; a directory entry is one unit
    DIRECT,        \* DIRECT_BLOCKS
    INDIRECT,      \* INDIRECT_BLOCKS
    PTRS,          \* INDIRECT_BLOCK_PTRS
    DirSlots,      \* entries the root directory is created with
    Name, Value,   \* file names, and data that programs write
    CreateSize,    \* initial sizes passed to create
    WriteSize,     \* sizes passed to write
    SeekPos,       \* positions passed to seek
    MaxPos,        \* largest position written to
    MaxFd,         \* descriptors a process opens at most
    None

Sector == 0..NSectors - 1
FREE_MAP_SECTOR == 0
ROOT_DIR_SECTOR == 1
Index == 0..DIRECT + INDIRECT

ASSUME FileSysAssumption ==
    /\ {NSectors, UNIT, DIRECT, INDIRECT, PTRS, DirSlots} \subseteq Nat \ {0}
    /\ {MaxPos, MaxFd} \subseteq Nat /\ CreateSize \cup WriteSize \cup SeekPos \subseteq Nat
    /\ NSectors > 4 /\ DirSlots <= UNIT /\ None \notin Sector

VARIABLES
    fs,          \* the file system
    open_files,  \* thread.open_files: [fd, inode, pos] in the order of opening
    next_fd,     \* thread.next_fd
    thread_file  \* the inode of the running executable, or None

vars == <<fs, open_files, next_fd, thread_file>>

Zero == [v |-> 0]
Node == [length : Nat, direct_blk_idx : Nat, indirect_blk_idx : Nat, ptrs : [Index -> Sector]]
Inode == [open_cnt : Nat, removed : BOOLEAN, deny_write_cnt : Nat, read_length : Nat, node : Node]
Entry == [name : Name, sector : Sector, in_use : BOOLEAN]
Unit == {Zero} \cup [v : Value] \cup Entry
Fault == {"none", "full", "stale", "lost", "unsaved", "panic"}

TypeOK ==
    /\ fs.free_map \subseteq Sector /\ fs.cached \subseteq Sector
    /\ \A s \in Sector :
          /\ fs.disk[s] \in Node /\ fs.inode[s] \in Inode
          /\ fs.block[s] \in [0..PTRS - 1 -> Sector]
          /\ fs.data[s] \in [0..UNIT - 1 -> Unit]
    /\ fs.fault \in Fault
    /\ \A i \in 1..Len(open_files) : open_files[i] \in [fd : Nat, inode : Sector, pos : Nat]
    /\ next_fd \in 2..MaxFd + 2 /\ thread_file \in Sector \cup {None}
-----------------------------------------------------------------------------
(***************************************************************************)
(* The free map and the disk below it.                                     *)
(***************************************************************************)

NoNode == [length |-> 0, direct_blk_idx |-> 0, indirect_blk_idx |-> 0,
           ptrs |-> [i \in Index |-> 0]]
Closed == [open_cnt |-> 0, removed |-> FALSE, deny_write_cnt |-> 0, read_length |-> 0,
           node |-> NoNode]

NoBlock == [i \in 0..PTRS - 1 |-> 0]
ZeroData == [i \in 0..UNIT - 1 |-> Zero]

Fails(f, what) == IF f.fault = "none" THEN [f EXCEPT !.fault = what] ELSE f

\* The lowest free sector, or none.
free_map_scan(f) == LET free == Sector \ f.free_map IN IF free = {} THEN None ELSE Min(free)

\* Faulty: the sector is not marked.
free_map_allocate_unmarked(f) ==
    LET s == free_map_scan(f)
    IN  IF s = None THEN [f |-> f, s |-> 0] ELSE [f |-> f, s |-> s]

\* One sector; without a free one the callers in inode.c go on with the pointer
\* they had.  The free map's own file has its full size and takes the write.
free_map_allocate(f) ==
    LET s == free_map_scan(f)
    IN  IF s = None THEN [f |-> Fails(f, "full"), s |-> 0]
        ELSE [f |-> [f EXCEPT !.free_map = @ \cup {s}], s |-> s]

\* What a free sector holds is not kept: whoever gets it overwrites it or is at fault.
free_map_release(f, S) ==
    LET Without(g, blank) == [s \in Sector |-> IF s \in S THEN blank ELSE g[s]]
    IN  IF S \subseteq f.free_map
        THEN [f EXCEPT !.free_map = @ \ S, !.disk = Without(@, NoNode),
                       !.block = Without(@, NoBlock), !.data = Without(@, ZeroData)]
        ELSE Fails(f, "panic")

\* block_write of a sector that has just been allocated: the cache is not told.
block_write(f, s) == IF s \in f.cached THEN Fails(f, "stale") ELSE f

write_zeros(f, s) == block_write([f EXCEPT !.data[s] = ZeroData], s)
-----------------------------------------------------------------------------
(***************************************************************************)
(* inode.c.  Growth works on a pair of the file system f and a node n.     *)
(***************************************************************************)

bytes_to_sectors(size) == (size + UNIT - 1) \div UNIT

\* map_alloc: one more direct sector.
map_alloc(g) ==
    LET a == free_map_allocate(g.f)
    IN  [f |-> write_zeros(a.f, a.s),
         n |-> [g.n EXCEPT !.ptrs[g.n.direct_blk_idx] = a.s, !.direct_blk_idx = @ + 1]]

\* The pointer block has no room for another pointer.
block_full(n) == n.indirect_blk_idx = PTRS

\* inode_grow_indirect_block: one more sector behind a pointer block, which is
\* allocated with its first pointer.
inode_grow_indirect_block(g) ==
    LET d == g.n.direct_blk_idx
        k == g.n.indirect_blk_idx
        b == IF k = 0 THEN free_map_allocate(g.f) ELSE [f |-> g.f, s |-> g.n.ptrs[d]]
        a == free_map_allocate(b.f)
        n == [g.n EXCEPT !.ptrs[d] = b.s, !.indirect_blk_idx = @ + 1]
    IN  [f |-> block_write([write_zeros(a.f, a.s) EXCEPT !.block[b.s][k] = a.s], b.s),
         n |-> IF block_full(n) THEN [n EXCEPT !.indirect_blk_idx = 0, !.direct_blk_idx = @ + 1]
               ELSE n]

\* inode_grow_double_indirect_block: map_alloc_indirect allocates into a copy of
\* the pointer block and the copy is dropped.
inode_grow_double_indirect_block(g) == [g EXCEPT !.f = Fails(g.f, "lost")]

grow_sector(g) ==
    IF g.f.fault # "none" THEN g
    ELSE IF g.n.direct_blk_idx < DIRECT THEN map_alloc(g)
    ELSE IF g.n.direct_blk_idx < DIRECT + INDIRECT THEN inode_grow_indirect_block(g)
    ELSE inode_grow_double_indirect_block(g)

inode_grow(f, n, new_length) ==
    LET new_sectors == bytes_to_sectors(new_length) - bytes_to_sectors(n.length)
        grown[k \in 0..new_sectors] ==
            IF k = 0 THEN [f |-> f, n |-> n] ELSE grow_sector(grown[k - 1])
    IN  [grown[new_sectors] EXCEPT !.n.length = new_length]

\* inode_create with inode_allocate.
inode_create(f, s, length) ==
    LET g == inode_grow(f, NoNode, length)
    IN  block_write([g.f EXCEPT !.disk[s] = g.n], s)

inode_open(f, s) ==
    LET i == f.inode[s]
    IN  [f EXCEPT !.inode[s] =
            IF i.open_cnt > 0 THEN [i EXCEPT !.open_cnt = @ + 1]
            ELSE [open_cnt |-> 1, removed |-> FALSE, deny_write_cnt |-> 0,
                  read_length |-> f.disk[s].length, node |-> f.disk[s]]]

\* The sectors the nodes of inode_deallocate are about: data, and pointer blocks.
data_sector(f, n, i) ==
    IF i < DIRECT THEN n.ptrs[i]
    ELSE f.block[n.ptrs[DIRECT + (i - DIRECT) \div PTRS]][(i - DIRECT) % PTRS]
indirect_sectors(n) ==
    IF n.length <= UNIT * DIRECT THEN 0
    ELSE (n.length - UNIT * DIRECT + UNIT * PTRS - 1) \div (UNIT * PTRS)
data_sectors(f, n) == {data_sector(f, n, i) : i \in 0..bytes_to_sectors(n.length) - 1}
node_sectors(f, n) ==
    data_sectors(f, n) \cup {n.ptrs[DIRECT + i] : i \in 0..indirect_sectors(n) - 1}

\* The cells of the data sectors that were written stay in the cache until they
\* are evicted.
inode_deallocate(f, n) ==
    LET written == {s \in data_sectors(f, n) : f.data[s] # ZeroData}
    IN  [free_map_release(f, node_sectors(f, n)) EXCEPT !.cached = @ \cup written]

\* Faulty: the blocks are given back although others have the file open.
last_opener_any(i) == i.open_cnt = 1 \/ i.removed
\* inode_close finds that this was the last opener.
last_opener(i) == i.open_cnt = 1

inode_close(f, s) ==
    LET i == f.inode[s]
    IN  IF ~ last_opener(i) THEN [f EXCEPT !.inode[s].open_cnt = @ - 1]
        ELSE IF i.removed
        THEN inode_deallocate(free_map_release([f EXCEPT !.inode[s] = Closed], {s}), i.node)
        ELSE [f EXCEPT !.inode[s] = Closed, !.disk[s] = i.node]

inode_remove(f, s) == [f EXCEPT !.inode[s].removed = TRUE]

\* byte_to_sector (pos is below the length).
byte_to_sector(f, n, pos) == data_sector(f, n, pos \div UNIT)

\* The units of s from offset on, at most size of them and none past the end.
inode_read_at(f, s, size, offset) ==
    LET n == f.inode[s].node
        left == f.inode[s].read_length - offset
    IN  [k \in 1..(IF left < 0 THEN 0 ELSE IF size < left THEN size ELSE left) |->
            f.data[byte_to_sector(f, n, offset + k - 1)][(offset + k - 1) % UNIT]]

\* inode_write_at returns 0.
denied(i) == i.deny_write_cnt > 0

\* The data after buf was written at offset of node n, which reaches that far.
Hits(f, n, buf, offset, t, u) ==
    {k \in offset..offset + Len(buf) - 1 : byte_to_sector(f, n, k) = t /\ k % UNIT = u}
Placed(f, n, buf, offset) ==
    [t \in Sector |-> [u \in 0..UNIT - 1 |->
        LET K == Hits(f, n, buf, offset, t, u)
        IN  IF K = {} THEN f.data[t][u] ELSE buf[Max(K) - offset + 1]]]

\* Writes buf at offset through the cache, growing the file first.
inode_write_at(f, s, buf, offset) ==
    LET i == f.inode[s]
        end == offset + Len(buf)
        g == IF end > i.node.length THEN inode_grow(f, i.node, end) ELSE [f |-> f, n |-> i.node]
    IN  IF denied(i) THEN f
        ELSE IF g.f.fault # "none" THEN g.f
        ELSE [g.f EXCEPT !.inode[s].node = g.n, !.inode[s].read_length = g.n.length,
                         !.data = Placed(g.f, g.n, buf, offset)]
-----------------------------------------------------------------------------
(***************************************************************************)
(* directory.c and filesys.c.  The root directory is a file of entries; it *)
(* is opened for each operation and closed after it.                       *)
(***************************************************************************)

in_use(e) == "in_use" \in DOMAIN e /\ e.in_use
root_entries(f) == inode_read_at(f, ROOT_DIR_SECTOR, f.inode[ROOT_DIR_SECTOR].read_length, 0)

\* The slot of a name, or 0.
lookup(f, name) ==
    LET es == root_entries(f)
        hits == {k \in 1..Len(es) : in_use(es[k]) /\ es[k].name = name}
    IN  IF hits = {} THEN 0 ELSE Min(hits)
sector_of(f, name) == root_entries(f)[lookup(f, name)].sector

write_entry(f, slot, name, sector, used) ==
    inode_write_at(f, ROOT_DIR_SECTOR, <<[name |-> name, sector |-> sector, in_use |-> used]>>,
                   slot - 1)

\* dir_add of a name that is not there: the first slot not in use, or a new one.
dir_add(f, name, sector) ==
    LET es == root_entries(f)
        unused == {k \in 1..Len(es) : ~ in_use(es[k])}
    IN  write_entry(f, IF unused = {} THEN Len(es) + 1 ELSE Min(unused), name, sector, TRUE)

\* dir_remove of a name that is there.
dir_remove(f, name) ==
    LET s == sector_of(f, name)
        erased == write_entry(inode_open(f, s), lookup(f, name), name, s, FALSE)
    IN  inode_close(inode_remove(erased, s), s)

dir_open_root(f) == inode_open(f, ROOT_DIR_SECTOR)
dir_close(f) == inode_close(f, ROOT_DIR_SECTOR)

\* When dir_add fails only the sector of the inode is given back.
filesys_create(f0, name, size) ==
    LET f == dir_open_root(f0)
        s == free_map_scan(f)
        made == inode_create(free_map_allocate(f).f, s, size)
    IN  dir_close(IF s = None THEN f
                  ELSE IF lookup(made, name) # 0 THEN free_map_release(made, {s})
                  ELSE dir_add(made, name, s))

\* do_format after free_map_init, and free_map_open.
do_format ==
    LET blank == [free_map |-> {FREE_MAP_SECTOR, ROOT_DIR_SECTOR}, cached |-> {},
                  disk |-> [s \in Sector |-> NoNode], inode |-> [s \in Sector |-> Closed],
                  block |-> [s \in Sector |-> NoBlock],
                  data |-> [s \in Sector |-> ZeroData], fault |-> "none"]
    IN  inode_open(inode_create(inode_create(blank, FREE_MAP_SECTOR, 1),
                                ROOT_DIR_SECTOR, DirSlots), FREE_MAP_SECTOR)
-----------------------------------------------------------------------------
(***************************************************************************)
(* File calls of the running process.                                      *)
(***************************************************************************)

Running == fs.fault = "none"
SameFiles == UNCHANGED <<open_files, next_fd, thread_file>>
Known(name) == lookup(dir_open_root(fs), name) # 0
Target(name) == sector_of(dir_open_root(fs), name)

\* file.c: file_deny_write, file_close of a file that denies writes, and the move
\* of the position by file_read and file_write.
file_deny_write(f, s) == [f EXCEPT !.inode[s].deny_write_cnt = @ + 1]
file_allow_write(f, s) == [f EXCEPT !.inode[s].deny_write_cnt = @ - 1]
file_close(f, s) == inode_close(file_allow_write(f, s), s)
advanced(i, n) == [open_files EXCEPT ![i].pos = @ + n]
file_seek(i, pos) == [open_files EXCEPT ![i].pos = pos]

\* add_file_to_current_thread.
add_file(s) ==
    /\ open_files' = Append(open_files, [fd |-> next_fd, inode |-> s, pos |-> 0])
    /\ next_fd' = next_fd + 1

create(name, size) == Running /\ fs' = filesys_create(fs, name, size) /\ SameFiles

\* remove () of a name that exists; otherwise nothing changes.
remove(name) ==
    /\ Running /\ Known(name)
    /\ fs' = dir_close(dir_remove(dir_open_root(fs), name))
    /\ SameFiles

\* open () with filesys_open, file_open and add_file_to_current_thread.
open(name) ==
    /\ Running /\ Known(name) /\ next_fd < MaxFd + 2
    /\ fs' = inode_open(fs, Target(name))
    /\ add_file(Target(name))
    /\ UNCHANGED thread_file

\* get_file_from_current_thread: the descriptor is one of the open ones.
\* read () moves the position.
read(i, size) ==
    LET file == open_files[i]
        got == Len(inode_read_at(fs, file.inode, size, file.pos))
    IN  /\ Running
        /\ open_files' = advanced(i, got)
        /\ UNCHANGED <<fs, next_fd, thread_file>>

\* write (), of size units of one value.
write(i, size, value) ==
    LET file == open_files[i]
        buf == [k \in 1..size |-> [v |-> value]]
        written == IF denied(fs.inode[file.inode]) THEN 0 ELSE size
    IN  /\ Running /\ file.pos + size <= MaxPos
        /\ fs' = inode_write_at(fs, file.inode, buf, file.pos)
        /\ open_files' = advanced(i, written)
        /\ UNCHANGED <<next_fd, thread_file>>

seek(i, position) ==
    /\ Running
    /\ open_files' = file_seek(i, position)
    /\ UNCHANGED <<fs, next_fd, thread_file>>

close(i) ==
    /\ Running
    /\ fs' = inode_close(fs, open_files[i].inode)
    /\ open_files' = RemoveAt(open_files, i)
    /\ UNCHANGED <<next_fd, thread_file>>

\* load () opens the executable and denies writes to it.
load_open(name) ==
    /\ Running /\ Known(name) /\ thread_file = None
    /\ fs' = file_deny_write(inode_open(fs, Target(name)), Target(name))
    /\ thread_file' = Target(name)
    /\ UNCHANGED <<open_files, next_fd>>

\* The end of the process, one file after the other: close_all_files_of_current_
\* thread, then file_close of the executable; the next process starts anew.
exit_close ==
    /\ Running /\ open_files = <<>> /\ (thread_file # None \/ next_fd > 2)
    /\ fs' = IF thread_file = None THEN fs
             ELSE file_close(fs, thread_file)
    /\ thread_file' = None /\ next_fd' = 2
    /\ UNCHANGED open_files

\* The cell of a free sector is not in the cache any more: it was reused, or
\* cache_reset emptied it.
Evict(s) == Running /\ s \in fs.cached /\ fs' = [fs EXCEPT !.cached = @ \ {s}] /\ SameFiles

\* halt () or the end of the last task: filesys_done, and the next start with
\* free_map_open.  Inodes that are open are not written.
Unsaved == \E s \in Sector :
    fs.inode[s].open_cnt > 0 /\ ~ fs.inode[s].removed /\ fs.inode[s].node # fs.disk[s]
Halt ==
    /\ Running
    /\ open_files' = <<>> /\ thread_file' = None /\ next_fd' = 2
    /\ fs' = IF Unsaved THEN Fails(fs, "unsaved")
             ELSE inode_open([fs EXCEPT !.inode = [s \in Sector |-> Closed], !.cached = {}],
                             FREE_MAP_SECTOR)

Init ==
    /\ fs = do_format
    /\ open_files = <<>> /\ next_fd = 2 /\ thread_file = None

Next ==
    \/ \E name \in Name : remove(name) \/ open(name) \/ load_open(name)
                          \/ \E size \in CreateSize : create(name, size)
    \/ \E i \in 1..Len(open_files) :
          \/ close(i) \/ \E position \in SeekPos : seek(i, position)
          \/ \E size \in WriteSize : read(i, size) \/ \E v \in Value : write(i, size, v)
    \/ exit_close \/ Halt
    \/ \E s \in Sector : Evict(s)

Spec == Init /\ [][Next]_vars
-----------------------------------------------------------------------------
(***************************************************************************)
(* Properties.                                                             *)
(***************************************************************************)

\* The entries in use, and the files: the inodes that a name or an opener refers to.
Entries == LET es == root_entries(dir_open_root(fs)) IN {e \in {es[k] : k \in 1..Len(es)} : in_use(e)}
Opened == {s \in Sector : fs.inode[s].open_cnt > 0}
NodeOf(s) == IF fs.inode[s].open_cnt > 0 THEN fs.inode[s].node ELSE fs.disk[s]
Owned(s) == {s} \cup node_sectors(fs, NodeOf(s))

\* No sector belongs to two files, every sector of a file is marked in the free
\* map, and a file has as many sectors as its length needs: growth, removal and
\* reuse in inode.c and free-map.c never hand out a sector that is in use.
SectorsDisjoint ==
    /\ TypeOK
    /\ Running => LET Live == {e.sector : e \in Entries} \cup Opened \cup {FREE_MAP_SECTOR, ROOT_DIR_SECTOR} IN
        /\ \A s \in Live : Owned(s) \subseteq fs.free_map
        /\ \A s \in Live : Cardinality(Owned(s)) =
              1 + bytes_to_sectors(NodeOf(s).length) + indirect_sectors(NodeOf(s))
        /\ \A s, t \in Live : s # t => Owned(s) \cap Owned(t) = {}

\* The references of descriptors and the executable to file s.
Refs(s) == Cardinality({i \in 1..Len(open_files) : open_files[i].inode = s})
           + (IF thread_file = s THEN 1 ELSE 0)

Gone == <<None>>
Content(s) == inode_read_at(inode_open(fs, s), s, NodeOf(s).length, 0)

\* The store the file system stands for.
View ==
    LET named == Entries
    IN  [names |-> [n \in Name |-> IF \E e \in named : e.name = n
                                  THEN (CHOOSE e \in named : e.name = n).sector ELSE None],
         content |-> [s \in Sector |-> IF Refs(s) > 0 \/ \E e \in named : e.sector = s
                                      THEN Content(s) ELSE Gone],
         held |-> [s \in Sector |-> Refs(s)],
         exec |-> thread_file,
         broken |-> ~ Running]
Store == INSTANCE FileStore WITH
    Id <- Sector, Pos <- 0..MaxPos,
    Buffer <- {[k \in 1..n |-> [v |-> x]] : n \in WriteSize, x \in Value},
    store <- View

\* The file system implements FileStore: a call changes the file it is about and
\* no other, growth and reuse of sectors leave no trace in other files, and a
\* removed file keeps its contents until its last opener closes it, and nobody
\* writes to the executable that runs (file_deny_write in load).  This is
\* Store!StoreSpec, told apart by vars: View does not change when they do not.
FilesSpec == Store!StoreInit /\ [][vars' # vars => Store!StoreNext]_vars

\* A sector is not handed out while the cache still holds its old contents.
NoStaleSector == fs.fault # "stale"
=============================================================================
