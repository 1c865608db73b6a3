---------------------------- MODULE FileSysProofs ----------------------------
(***************************************************************************)
(* Proofs about FileSys: no sector belongs to two files, every sector of a *)
(* file is marked in the free map, and a file has as many sectors as its   *)
(* length needs, for every device, every set of names and every size.      *)
(*                                                                         *)
(* The argument follows the calls.  A node with m data sectors owns the    *)
(* sectors Own(f, n, m); growth adds sectors that were free (GrownTo), one *)
(* at a time, whether it takes a direct pointer, a pointer in a block, or  *)
(* a new block.  The files that a name or an opener refers to are kept     *)
(* apart (FilesKept), and each call changes the sectors of one file        *)
(* (Untouched says what holds of the others).  The invariant IInv adds why *)
(* a file is given back only once nobody refers to it: an inode is open as *)
(* often as descriptors and the executable refer to it, and the name of a  *)
(* removed file is gone.                                                   *)
(***************************************************************************)
EXTENDS FileSys, ListFacts, TLAPS

(***************************************************************************)
(* Numbers divided by one that is not 0.                                   *)
(***************************************************************************)

LEMMA QuotientType ==
    ASSUME NEW x \in Nat, NEW p \in Nat \ {0}
    PROVE  x \div p \in Nat /\ x % p \in 0 .. p - 1
<1>1. x % p \in 0 .. p - 1
  OBVIOUS
<1>2. x \div p \in Int /\ x \div p >= 0
  OBVIOUS
<1> QED
  BY <1>1, <1>2

LEMMA NextQuotient ==
    ASSUME NEW x \in Nat, NEW p \in Nat \ {0}
    PROVE  IF x % p = p - 1 THEN (x + 1) \div p = (x \div p) + 1 /\ (x + 1) % p = 0
           ELSE (x + 1) \div p = x \div p /\ (x + 1) % p = (x % p) + 1
  OBVIOUS

LEMMA QuotientOrder ==
    ASSUME NEW x \in Nat, NEW y \in Nat, NEW p \in Nat \ {0}, x < y
    PROVE  x \div p < y \div p \/ (x \div p = y \div p /\ x % p < y % p)
  OBVIOUS

LEMMA SamePlace ==
    ASSUME NEW x \in Nat, NEW y \in Nat, NEW p \in Nat \ {0}, x \div p = y \div p, x % p = y % p
    PROVE  x = y
<1>1. x < y => x \div p < y \div p \/ x % p < y % p
  BY QuotientOrder
<1>2. y < x => y \div p < x \div p \/ y % p < x % p
  BY QuotientOrder
<1>3. x \div p \in Nat /\ x % p \in 0 .. p - 1
  BY QuotientType
<1>4. ~ (x < y)
  BY ONLY <1>1, <1>3, x \div p = y \div p, x % p = y % p
<1>5. ~ (y < x)
  BY ONLY <1>2, <1>3, x \div p = y \div p, x % p = y % p
<1> QED
  BY ONLY <1>4, <1>5, x \in Nat, y \in Nat

LEMMA RoundedUp ==
    ASSUME NEW x \in Nat \ {0}, NEW p \in Nat \ {0}
    PROVE  (x + p - 1) \div p = ((x - 1) \div p) + 1
  OBVIOUS

LEMMA QuotientTwice ==
    ASSUME NEW x \in Nat, NEW p \in Nat \ {0}, NEW q \in Nat \ {0}
    PROVE  (x \div p) \div q = x \div (p * q) /\ p * q \in Nat \ {0}
  OBVIOUS
-----------------------------------------------------------------------------
(***************************************************************************)
(* Typed values, and the pointers of a node that holds m data sectors.     *)
(***************************************************************************)

PointerBlock == [0 .. PTRS - 1 -> Sector]
FileSystem == [free_map : SUBSET Sector, cached : SUBSET Sector, disk : [Sector -> Node],
               inode : [Sector -> Inode], block : [Sector -> PointerBlock],
               data : [Sector -> [0 .. UNIT - 1 -> Unit]], fault : Fault]

\* The pointer block of data sector i, which is behind one, and the pointer in it.
Behind(i) == DIRECT + (i - DIRECT) \div PTRS
Offset(i) == (i - DIRECT) % PTRS

Filled(n, m) ==
    /\ IF m < DIRECT THEN n.direct_blk_idx = m /\ n.indirect_blk_idx = 0
       ELSE n.direct_blk_idx = Behind(m) /\ n.indirect_blk_idx = Offset(m)
    /\ \A i \in DIRECT .. m - 1 : Behind(i) < DIRECT + INDIRECT

\* Sectors of the first m data sectors and of the pointer blocks before them.
Own(f, n, m) == {data_sector(f, n, i) : i \in 0 .. m - 1} \cup {n.ptrs[Behind(i)] : i \in DIRECT .. m - 1}
Apart(f, n, m) ==
    /\ \A i, j \in 0 .. m - 1 : data_sector(f, n, i) = data_sector(f, n, j) => i = j
    /\ \A i, j \in DIRECT .. m - 1 : n.ptrs[Behind(i)] = n.ptrs[Behind(j)] => Behind(i) = Behind(j)
    /\ \A i \in 0 .. m - 1, j \in DIRECT .. m - 1 : data_sector(f, n, i) # n.ptrs[Behind(j)]

LEMMA Constants ==
    /\ NSectors \in Nat /\ NSectors > 4 /\ UNIT \in Nat \ {0} /\ DIRECT \in Nat \ {0}
    /\ INDIRECT \in Nat \ {0} /\ PTRS \in Nat \ {0} /\ DirSlots \in Nat \ {0} /\ DirSlots <= UNIT
    /\ None \notin Sector /\ 0 \in Sector /\ 1 \in Sector /\ MaxPos \in Nat /\ MaxFd \in Nat
  BY FileSysAssumption DEF Sector

LEMMA Places ==
    ASSUME NEW i \in Nat, i >= DIRECT
    PROVE  /\ Behind(i) \in Nat /\ Behind(i) >= DIRECT /\ Offset(i) \in 0 .. PTRS - 1
           /\ IF Offset(i) = PTRS - 1 THEN Behind(i + 1) = Behind(i) + 1 /\ Offset(i + 1) = 0
              ELSE Behind(i + 1) = Behind(i) /\ Offset(i + 1) = Offset(i) + 1
           /\ \A j \in Nat : j >= DIRECT /\ j < i =>
                 Behind(j) < Behind(i) \/ (Behind(j) = Behind(i) /\ Offset(j) < Offset(i))
<1>0. PTRS \in Nat \ {0} /\ DIRECT \in Nat
  BY Constants
<1>1. i - DIRECT \in Nat /\ (i + 1) - DIRECT = (i - DIRECT) + 1
  BY <1>0
<1>2. (i - DIRECT) \div PTRS \in Nat /\ (i - DIRECT) % PTRS \in 0 .. PTRS - 1
  BY ONLY <1>0, <1>1, QuotientType
<1>3. IF (i - DIRECT) % PTRS = PTRS - 1
      THEN ((i - DIRECT) + 1) \div PTRS = ((i - DIRECT) \div PTRS) + 1 /\ ((i - DIRECT) + 1) % PTRS = 0
      ELSE /\ ((i - DIRECT) + 1) \div PTRS = (i - DIRECT) \div PTRS
           /\ ((i - DIRECT) + 1) % PTRS = ((i - DIRECT) % PTRS) + 1
  BY ONLY <1>0, <1>1, NextQuotient
<1>4. /\ Behind(i) \in Nat /\ Behind(i) >= DIRECT /\ Offset(i) \in 0 .. PTRS - 1
      /\ IF Offset(i) = PTRS - 1 THEN Behind(i + 1) = Behind(i) + 1 /\ Offset(i + 1) = 0
         ELSE Behind(i + 1) = Behind(i) /\ Offset(i + 1) = Offset(i) + 1
  BY ONLY <1>0, <1>1, <1>2, <1>3 DEF Behind, Offset
<1>5. ASSUME NEW j \in Nat, j >= DIRECT, j < i
      PROVE  Behind(j) < Behind(i) \/ (Behind(j) = Behind(i) /\ Offset(j) < Offset(i))
  <2>1. j - DIRECT \in Nat /\ j - DIRECT < i - DIRECT
    BY <1>0, <1>5
  <2>2. \/ (j - DIRECT) \div PTRS < (i - DIRECT) \div PTRS
        \/ /\ (j - DIRECT) \div PTRS = (i - DIRECT) \div PTRS
           /\ (j - DIRECT) % PTRS < (i - DIRECT) % PTRS
    BY ONLY <1>0, <1>1, <2>1, QuotientOrder
  <2>3. (j - DIRECT) \div PTRS \in Nat
    BY ONLY <1>0, <2>1, QuotientType
  <2> QED
    BY ONLY <1>0, <1>2, <2>2, <2>3 DEF Behind, Offset
<1> QED
  BY <1>4, <1>5

\* Where growth goes on.
LEMMA FirstPlace == Behind(DIRECT) = DIRECT /\ Offset(DIRECT) = 0
<1>1. DIRECT - DIRECT = 0 /\ PTRS \in Nat \ {0} /\ DIRECT \in Nat
  BY Constants
<1>2. 0 \div PTRS = 0 /\ 0 % PTRS = 0
  BY ONLY <1>1
<1> QED
  BY <1>1, <1>2 DEF Behind, Offset

\* The node of a typed file system, and its sectors.
LEMMA DataSector ==
    ASSUME NEW f \in FileSystem, NEW n \in Node, NEW i \in Nat
    PROVE  /\ i < DIRECT => data_sector(f, n, i) = n.ptrs[i] /\ n.ptrs[i] \in Sector
           /\ i >= DIRECT => data_sector(f, n, i) = f.block[n.ptrs[Behind(i)]][Offset(i)]
           /\ i >= DIRECT /\ Behind(i) < DIRECT + INDIRECT =>
                 n.ptrs[Behind(i)] \in Sector /\ data_sector(f, n, i) \in Sector
<1>1. DIRECT \in Nat /\ INDIRECT \in Nat
  BY Constants
<1>2. ASSUME i < DIRECT PROVE data_sector(f, n, i) = n.ptrs[i] /\ n.ptrs[i] \in Sector
  BY <1>1, <1>2 DEF data_sector, Node, Index
<1>3. ASSUME i >= DIRECT PROVE data_sector(f, n, i) = f.block[n.ptrs[Behind(i)]][Offset(i)]
  BY <1>1, <1>3 DEF data_sector, Behind, Offset
<1>4. ASSUME i >= DIRECT, Behind(i) < DIRECT + INDIRECT
      PROVE  n.ptrs[Behind(i)] \in Sector /\ data_sector(f, n, i) \in Sector
  <2>1. Behind(i) \in Index /\ Offset(i) \in 0 .. PTRS - 1
    BY <1>1, <1>4, Places DEF Index
  <2>2. n.ptrs[Behind(i)] \in Sector
    BY <2>1 DEF Node
  <2>3. f.block[n.ptrs[Behind(i)]] \in PointerBlock
    BY <2>2 DEF FileSystem
  <2> QED
    BY <1>3, <1>4, <2>1, <2>2, <2>3 DEF PointerBlock
<1> QED
  BY <1>2, <1>3, <1>4

\* Every sector of a node in use is a sector.
LEMMA OwnSectors ==
    ASSUME NEW f \in FileSystem, NEW n \in Node, NEW m \in Nat, Filled(n, m)
    PROVE  /\ Own(f, n, m) \subseteq Sector
           /\ \A i \in 0 .. m - 1 : data_sector(f, n, i) \in Own(f, n, m)
           /\ \A i \in DIRECT .. m - 1 : n.ptrs[Behind(i)] \in Own(f, n, m)
<1>1. DIRECT \in Nat
  BY Constants
<1>2. \A i \in DIRECT .. m - 1 : i \in Nat /\ Behind(i) < DIRECT + INDIRECT
  BY <1>1 DEF Filled
<1>3. \A i \in DIRECT .. m - 1 : n.ptrs[Behind(i)] \in Sector
  BY <1>1, <1>2, DataSector
<1>4. \A i \in 0 .. m - 1 : data_sector(f, n, i) \in Sector
  BY <1>1, <1>2, DataSector
<1> QED
  BY <1>3, <1>4 DEF Own
-----------------------------------------------------------------------------
(***************************************************************************)
(* Allocation.                                                             *)
(***************************************************************************)

\* f and h are the same but for free map, pointer blocks, data and fault.
SameNodes(f, h) == h.disk = f.disk /\ h.inode = f.inode /\ h.cached = f.cached

LEMMA FailsTyped ==
    ASSUME NEW f \in FileSystem, NEW what \in Fault
    PROVE  /\ Fails(f, what) \in FileSystem /\ Fails(f, what).inode = f.inode
           /\ Fails(f, what).fault = "none" => Fails(f, what) = f
  BY DEF Fails, FileSystem

LEMMA Scanned ==
    ASSUME NEW f \in FileSystem
    PROVE  free_map_scan(f) \in (Sector \ f.free_map) \cup {None}
<1>1. CASE Sector \ f.free_map = {}
  BY <1>1 DEF free_map_scan
<1>2. CASE Sector \ f.free_map # {}
  <2>1. Sector \ f.free_map \subseteq Nat
    BY Constants DEF Sector
  <2>2. \E s \in Sector \ f.free_map : \A t \in Sector \ f.free_map : s <= t
    BY <1>2, <2>1, LeastNumber
  <2>3. Min(Sector \ f.free_map) \in Sector \ f.free_map
    BY <2>2 DEF Min
  <2> QED
    BY <1>2, <2>3 DEF free_map_scan
<1> QED
  BY <1>1, <1>2

LEMMA Allocated ==
    ASSUME NEW f \in FileSystem, NEW a, a = free_map_allocate(f)
    PROVE  /\ a.f \in FileSystem /\ a.s \in Sector /\ a.f.inode = f.inode
           /\ f.fault # "none" => a.f.fault # "none"
           /\ a.f.fault = "none" =>
                 /\ f.fault = "none" /\ a.s = free_map_scan(f) /\ a.s \in Sector \ f.free_map
                 /\ a.f.free_map = f.free_map \cup {a.s}
                 /\ SameNodes(f, a.f) /\ a.f.block = f.block /\ a.f.data = f.data
<1>1. CASE free_map_scan(f) = None
  <2>1. a.f = Fails(f, "full") /\ a.s = 0
    BY <1>1 DEF free_map_allocate
  <2>2. "full" \in Fault /\ "full" # "none"
    BY DEF Fault
  <2>3. a.f.fault # "none"
    BY <2>1, <2>2 DEF Fails, FileSystem
  <2> QED
    BY <2>1, <2>2, <2>3, Constants, FailsTyped
<1>2. CASE free_map_scan(f) # None
  <2>1. /\ a.f = [f EXCEPT !.free_map = @ \cup {free_map_scan(f)}] /\ a.s = free_map_scan(f)
        /\ a.s \in Sector \ f.free_map
    BY <1>2, Scanned DEF free_map_allocate
  <2>2. a.f \in FileSystem /\ a.f.fault = f.fault /\ a.f.free_map = f.free_map \cup {a.s}
    BY <2>1 DEF FileSystem
  <2>3. SameNodes(f, a.f) /\ a.f.block = f.block /\ a.f.data = f.data
    BY <2>1 DEF FileSystem, SameNodes
  <2> QED
    BY <2>1, <2>2, <2>3 DEF SameNodes
<1> QED
  BY <1>1, <1>2

LEMMA BlockWritten ==
    ASSUME NEW f \in FileSystem, NEW s
    PROVE  /\ block_write(f, s) \in FileSystem /\ block_write(f, s).inode = f.inode
           /\ f.fault # "none" => block_write(f, s).fault # "none"
           /\ block_write(f, s).fault = "none" => block_write(f, s) = f
<1>1. "stale" \in Fault
  BY DEF Fault
<1>2. f.fault # "none" => Fails(f, "stale").fault # "none"
  BY DEF Fails
<1> QED
  BY <1>1, <1>2, FailsTyped DEF block_write

LEMMA ZeroTyped == ZeroData \in [0 .. UNIT - 1 -> Unit] /\ NoBlock \in PointerBlock /\ NoNode \in Node
                   /\ Closed \in Inode
<1>1. 0 \in Sector /\ DIRECT \in Nat
  BY Constants
<1>2. NoNode \in Node
  BY <1>1 DEF NoNode, Node
<1> QED
  BY <1>1, <1>2 DEF ZeroData, Unit, NoBlock, PointerBlock, Closed, Inode

LEMMA ZerosWritten ==
    ASSUME NEW f \in FileSystem, NEW s \in Sector
    PROVE  /\ write_zeros(f, s) \in FileSystem /\ write_zeros(f, s).inode = f.inode
           /\ f.fault # "none" => write_zeros(f, s).fault # "none"
           /\ write_zeros(f, s).fault = "none" =>
                 /\ SameNodes(f, write_zeros(f, s)) /\ write_zeros(f, s).free_map = f.free_map
                 /\ write_zeros(f, s).block = f.block /\ write_zeros(f, s).data = [f.data EXCEPT ![s] = ZeroData]
<1>1. PICK h : h = [f EXCEPT !.data[s] = ZeroData]
  OBVIOUS
<1>2. h \in FileSystem
  BY <1>1, ZeroTyped DEF FileSystem
<1>3. h.fault = f.fault /\ SameNodes(f, h) /\ h.free_map = f.free_map /\ h.block = f.block
      /\ h.data = [f.data EXCEPT ![s] = ZeroData]
  BY <1>1 DEF FileSystem, SameNodes
<1>4. write_zeros(f, s) = block_write(h, s)
  BY <1>1 DEF write_zeros
<1> QED
  BY <1>2, <1>3, <1>4, BlockWritten DEF SameNodes
-----------------------------------------------------------------------------
(***************************************************************************)
(* Growth.                                                                 *)
(***************************************************************************)

\* From m data sectors of node n of f to k data sectors of node p of h: what was
\* there is where it was, what is new was free and is blank.
GrownTo(f, n, m, h, p, k) ==
    /\ Filled(p, k) /\ Apart(h, p, k)
    /\ f.free_map \subseteq h.free_map /\ SameNodes(f, h)
    /\ Own(h, p, k) = Own(f, n, m) \cup (h.free_map \ f.free_map)
    /\ \A t \in f.free_map : h.data[t] = f.data[t] /\ (t \notin Own(f, n, m) => h.block[t] = f.block[t])
    /\ \A i \in 0 .. m - 1 : data_sector(h, p, i) = data_sector(f, n, i)
    /\ \A i \in m .. k - 1 : data_sector(h, p, i) \notin f.free_map /\ h.data[data_sector(h, p, i)] = ZeroData

\* A node with m data sectors that owns them.
Holds(f, n, m) == Filled(n, m) /\ Apart(f, n, m) /\ Own(f, n, m) \subseteq f.free_map

LEMMA DirectGrows ==
    ASSUME NEW f \in FileSystem, NEW n \in Node, NEW m \in Nat, Holds(f, n, m), m < DIRECT,
           NEW g, g = map_alloc([f |-> f, n |-> n])
    PROVE  /\ g.f \in FileSystem /\ g.n \in Node /\ g.f.inode = f.inode
           /\ g.f.fault = "none" => f.fault = "none" /\ GrownTo(f, n, m, g.f, g.n, m + 1)
<1>1. PICK a : a = free_map_allocate(f)
  OBVIOUS
<1>2. /\ n.direct_blk_idx = m /\ n.indirect_blk_idx = 0 /\ DIRECT \in Nat /\ INDIRECT \in Nat
      /\ m \in Index /\ n.ptrs \in [Index -> Sector]
  BY Constants DEF Holds, Filled, Node, Index
<1>3. PICK p : p = [n EXCEPT !.ptrs[m] = a.s, !.direct_blk_idx = m + 1]
  OBVIOUS
<1>4. g.f = write_zeros(a.f, a.s) /\ g.n = p
  BY <1>1, <1>2, <1>3 DEF map_alloc
<1>5. /\ p \in Node /\ p.ptrs = [n.ptrs EXCEPT ![m] = a.s] /\ p.direct_blk_idx = m + 1
      /\ p.indirect_blk_idx = 0 /\ p.length = n.length
  <2>1. a.s \in Sector
    BY <1>1, Allocated
  <2>2. /\ p.ptrs = [n.ptrs EXCEPT ![m] = a.s] /\ p.direct_blk_idx = m + 1
        /\ p.indirect_blk_idx = 0 /\ p.length = n.length
    BY ONLY n \in Node, <1>2, <1>3 DEF Node
  <2>3. p.ptrs \in [Index -> Sector]
    BY ONLY <1>2, <2>1, <2>2
  <2>4. p \in Node
    <3>1. p = [length |-> n.length, direct_blk_idx |-> m + 1, indirect_blk_idx |-> n.indirect_blk_idx,
               ptrs |-> p.ptrs]
      BY ONLY n \in Node, <1>3 DEF Node
    <3> QED
      BY ONLY n \in Node, m \in Nat, <2>3, <3>1 DEF Node
  <2> QED
    BY <2>2, <2>4
<1>6. a.f \in FileSystem /\ a.s \in Sector /\ g.f \in FileSystem /\ g.f.inode = f.inode
  <2>1. a.f \in FileSystem /\ a.s \in Sector /\ a.f.inode = f.inode
    BY <1>1, Allocated
  <2>2. PICK x \in FileSystem, t \in Sector : x = a.f /\ t = a.s
    BY <2>1
  <2>3. write_zeros(x, t) \in FileSystem /\ write_zeros(x, t).inode = x.inode
    BY ONLY x \in FileSystem, t \in Sector, ZerosWritten
  <2> QED
    BY <1>4, <2>1, <2>2, <2>3
<1>7. ASSUME g.f.fault = "none" PROVE f.fault = "none" /\ GrownTo(f, n, m, g.f, p, m + 1)
  <2>1. a.f.fault = "none"
    <3>1. PICK x \in FileSystem, t \in Sector : x = a.f /\ t = a.s /\ g.f = write_zeros(x, t)
      BY <1>4, <1>6
    <3>2. x.fault # "none" => write_zeros(x, t).fault # "none"
      BY ONLY x \in FileSystem, t \in Sector, ZerosWritten
    <3> QED
      BY ONLY <1>7, <3>1, <3>2
  <2>2. /\ f.fault = "none" /\ a.s \notin f.free_map /\ a.f.free_map = f.free_map \cup {a.s}
        /\ SameNodes(f, a.f) /\ a.f.block = f.block /\ a.f.data = f.data
    BY <1>1, <2>1, Allocated
  <2>3. PICK h \in FileSystem : h = g.f
    BY <1>6
  <2>4. /\ h.free_map = f.free_map \cup {a.s} /\ SameNodes(f, h) /\ h.block = f.block
        /\ h.data = [f.data EXCEPT ![a.s] = ZeroData]
    <3>1. PICK x \in FileSystem, t \in Sector : x = a.f /\ t = a.s /\ h = write_zeros(x, t)
      BY <1>4, <1>6, <2>3
    <3>2. h.fault = "none"
      BY <1>7, <2>3
    <3>3. /\ SameNodes(x, h) /\ h.free_map = x.free_map
          /\ h.block = x.block /\ h.data = [x.data EXCEPT ![t] = ZeroData]
      BY ONLY x \in FileSystem, t \in Sector, <3>1, <3>2, ZerosWritten
    <3> QED
      BY ONLY <2>2, <3>1, <3>3 DEF SameNodes
  <2>5. Filled(p, m + 1)
    <3>1. CASE m + 1 < DIRECT
      BY <1>2, <1>5, <3>1 DEF Filled
    <3>2. CASE m + 1 = DIRECT
      BY <1>2, <1>5, <3>2, FirstPlace DEF Filled
    <3> QED
      BY <1>2, <3>1, <3>2
  <2>6. \A i \in 0 .. m : i < DIRECT /\ data_sector(h, p, i) = p.ptrs[i] /\ data_sector(f, n, i) = n.ptrs[i]
    <3>1. SUFFICES ASSUME NEW i \in 0 .. m
                   PROVE  /\ i < DIRECT /\ data_sector(h, p, i) = p.ptrs[i]
                          /\ data_sector(f, n, i) = n.ptrs[i]
      OBVIOUS
    <3>2. i \in Nat /\ i < DIRECT
      BY <1>2
    <3>3. data_sector(h, p, i) = p.ptrs[i]
      <4>1. p \in Node
        BY <1>5
      <4> QED
        BY ONLY h \in FileSystem, <3>2, <4>1, DataSector
    <3>4. data_sector(f, n, i) = n.ptrs[i]
      BY ONLY f \in FileSystem, n \in Node, <3>2, DataSector
    <3> QED
      BY <3>2, <3>3, <3>4
  <2>7. /\ \A i \in 0 .. m - 1 : data_sector(h, p, i) = data_sector(f, n, i)
        /\ data_sector(h, p, m) = a.s
    <3>1. \A i \in 0 .. m : i \in Index
      BY <1>2 DEF Index
    <3>2. p.ptrs[m] = a.s /\ \A i \in 0 .. m - 1 : p.ptrs[i] = n.ptrs[i]
      BY ONLY <1>2, <1>5, <3>1
    <3>3. m \in 0 .. m /\ \A i \in 0 .. m - 1 : i \in 0 .. m
      OBVIOUS
    <3> QED
      BY ONLY <2>6, <3>2, <3>3
  <2>8. DIRECT .. m = {} /\ DIRECT .. m - 1 = {} /\ (m + 1) - 1 = m
    BY <1>2
  <2>9. Own(h, p, m + 1) = Own(f, n, m) \cup {a.s}
    <3>1. Own(h, p, m + 1) = {data_sector(h, p, i) : i \in 0 .. m}
      BY <2>8 DEF Own
    <3>2. Own(f, n, m) = {data_sector(f, n, i) : i \in 0 .. m - 1}
      BY <2>8 DEF Own
    <3>3. 0 .. m = (0 .. m - 1) \cup {m}
      OBVIOUS
    <3> QED
      BY <2>7, <3>1, <3>2, <3>3
  <2>10. \A i \in 0 .. m - 1 : data_sector(f, n, i) # a.s
    BY <2>2 DEF Holds, Own
  <2>11. Apart(h, p, m + 1)
    <3>1. \A i, j \in 0 .. m : data_sector(h, p, i) = data_sector(h, p, j) => i = j
      <4>1. \A i, j \in 0 .. m - 1 : data_sector(f, n, i) = data_sector(f, n, j) => i = j
        BY DEF Holds, Apart
      <4>2. 0 .. m = (0 .. m - 1) \cup {m}
        OBVIOUS
      <4> QED
        BY <2>7, <2>10, <4>1, <4>2
    <3> QED
      BY <2>8, <3>1 DEF Apart
  <2>12. \A t \in f.free_map : h.data[t] = f.data[t] /\ h.block[t] = f.block[t]
    BY <2>2, <2>4 DEF FileSystem
  <2>13. h.data[a.s] = ZeroData
    BY <1>6, <2>4 DEF FileSystem
  <2>14. \A i \in m .. (m + 1) - 1 :
            data_sector(h, p, i) \notin f.free_map /\ h.data[data_sector(h, p, i)] = ZeroData
    BY <2>2, <2>7, <2>13
  <2> QED
    BY <1>5, <2>2, <2>3, <2>4, <2>5, <2>7, <2>9, <2>11, <2>12, <2>14 DEF GrownTo
<1> QED
  BY <1>4, <1>5, <1>6, <1>7

\* The pointer block that growth of a node with m data sectors goes on in.
LEMMA LastBlock ==
    ASSUME NEW m \in Nat, m >= DIRECT
    PROVE  /\ \A i \in DIRECT .. m - 1 :
                 i \in Nat /\ (Behind(i) < Behind(m) \/ (Behind(i) = Behind(m) /\ Offset(i) < Offset(m)))
           /\ Offset(m) # 0 => m - 1 \in DIRECT .. m - 1 /\ Behind(m - 1) = Behind(m)
           /\ Behind(m) \in Nat /\ Behind(m) >= DIRECT /\ Offset(m) \in 0 .. PTRS - 1
<1>1. DIRECT \in Nat /\ PTRS \in Nat \ {0}
  BY Constants
<1>2. Behind(m) \in Nat /\ Behind(m) >= DIRECT /\ Offset(m) \in 0 .. PTRS - 1
  BY Places
<1>3. ASSUME NEW i \in DIRECT .. m - 1
      PROVE  i \in Nat /\ (Behind(i) < Behind(m) \/ (Behind(i) = Behind(m) /\ Offset(i) < Offset(m)))
  <2>1. i \in Nat /\ i >= DIRECT /\ i < m
    BY <1>1
  <2> QED
    BY <2>1, Places
<1>4. ASSUME Offset(m) # 0 PROVE m - 1 \in DIRECT .. m - 1 /\ Behind(m - 1) = Behind(m)
  <2>1. m # DIRECT
    BY <1>4, FirstPlace
  <2>2. PICK l \in Nat : l = m - 1 /\ l >= DIRECT /\ l + 1 = m
    BY <1>1, <2>1
  <2>3. Behind(l + 1) = Behind(l) \/ Offset(l + 1) = 0
    BY <2>2, Places
  <2>4. Behind(l) = Behind(m)
    BY <1>4, <2>2, <2>3
  <2> QED
    BY <1>1, <2>2, <2>4
<1> QED
  BY <1>2, <1>3, <1>4

\* A pointer block bs, whose k-th pointer becomes s, and the block growth uses.
PointerPut(z, bs, k, s) == [z EXCEPT !.block[bs][k] = s]
GrowthBlock(f, n) ==
    IF n.indirect_blk_idx = 0 THEN free_map_allocate(f) ELSE [f |-> f, s |-> n.ptrs[n.direct_blk_idx]]

PointerIs(z, y, bs, k, s) ==
    /\ y \in FileSystem /\ y.fault = z.fault /\ SameNodes(z, y) /\ y.free_map = z.free_map
    /\ y.data = z.data /\ y.block[bs][k] = s
    /\ \A i \in 0 .. PTRS - 1 : i # k => y.block[bs][i] = z.block[bs][i]
    /\ \A t \in Sector : t # bs => y.block[t] = z.block[t]

LEMMA PointerSet ==
    ASSUME NEW z \in FileSystem, NEW bs \in Sector, NEW k \in 0 .. PTRS - 1, NEW s \in Sector,
           NEW y, y = PointerPut(z, bs, k, s)
    PROVE  PointerIs(z, y, bs, k, s)
<1>1. z.block \in [Sector -> PointerBlock] /\ z.block[bs] \in PointerBlock
  BY DEF FileSystem
<1>2. PICK c : c = [z.block[bs] EXCEPT ![k] = s]
  OBVIOUS
<1>3. c \in PointerBlock /\ c[k] = s /\ \A i \in 0 .. PTRS - 1 : i # k => c[i] = z.block[bs][i]
  BY <1>1, <1>2 DEF PointerBlock
<1>4. PICK bl : bl = [z.block EXCEPT ![bs] = c]
  OBVIOUS
<1>5. bl \in [Sector -> PointerBlock] /\ bl[bs] = c /\ \A t \in Sector : t # bs => bl[t] = z.block[t]
  BY <1>1, <1>3, <1>4
<1>6. y = [z EXCEPT !.block = bl]
  BY <1>2, <1>4 DEF PointerPut
<1>7. /\ y \in FileSystem /\ y.fault = z.fault /\ SameNodes(z, y) /\ y.free_map = z.free_map
      /\ y.data = z.data /\ y.block = bl
  BY ONLY z \in FileSystem, <1>5, <1>6 DEF FileSystem, SameNodes
<1> QED
  BY <1>3, <1>5, <1>7 DEF PointerIs

LEMMA IndirectTyped ==
    ASSUME NEW f \in FileSystem, NEW n \in Node, n.direct_blk_idx \in Index, n.indirect_blk_idx < PTRS,
           NEW b, b = GrowthBlock(f, n),
           NEW a, a = free_map_allocate(b.f), NEW z, z = write_zeros(a.f, a.s),
           NEW y, y = PointerPut(z, b.s, n.indirect_blk_idx, a.s),
           NEW g, g = inode_grow_indirect_block([f |-> f, n |-> n])
    PROVE  /\ b.f \in FileSystem /\ b.s \in Sector /\ a.f \in FileSystem /\ a.s \in Sector
           /\ z \in FileSystem /\ y \in FileSystem /\ g.f \in FileSystem /\ g.n \in Node
           /\ g.f.inode = f.inode
           /\ g.f = block_write(y, b.s) /\ g.n.length = n.length
           /\ g.n.ptrs = [n.ptrs EXCEPT ![n.direct_blk_idx] = b.s]
           /\ IF n.indirect_blk_idx + 1 = PTRS
              THEN g.n.indirect_blk_idx = 0 /\ g.n.direct_blk_idx = n.direct_blk_idx + 1
              ELSE g.n.indirect_blk_idx = n.indirect_blk_idx + 1 /\ g.n.direct_blk_idx = n.direct_blk_idx
<1>0. PTRS \in Nat \ {0}
  BY Constants
<1>1. /\ n.direct_blk_idx \in Nat /\ n.indirect_blk_idx \in Nat /\ n.ptrs \in [Index -> Sector] /\ n.length \in Nat
      /\ n.indirect_blk_idx \in 0 .. PTRS - 1
  BY <1>0 DEF Node
<1>2. b.f \in FileSystem /\ b.s \in Sector /\ b.f.inode = f.inode
  <2>1. CASE n.indirect_blk_idx = 0
    BY <2>1, Allocated DEF GrowthBlock
  <2>2. CASE n.indirect_blk_idx # 0
    BY <1>1, <2>2 DEF GrowthBlock
  <2> QED
    BY <2>1, <2>2
<1>3. a.f \in FileSystem /\ a.s \in Sector /\ a.f.inode = f.inode
  BY <1>2, Allocated
<1>4. z \in FileSystem /\ z.inode = f.inode
  BY <1>3, ZerosWritten
<1>5. y \in FileSystem /\ y.inode = f.inode
  <2>1. PICK k \in 0 .. PTRS - 1 : k = n.indirect_blk_idx
    BY <1>1
  <2>2. PICK s \in Sector : s = a.s
    BY <1>3
  <2>3. PICK bs \in Sector : bs = b.s
    BY <1>2
  <2>4. y = PointerPut(z, bs, k, s)
    BY <2>1, <2>2, <2>3
  <2> QED
    BY ONLY <1>4, <2>4, PointerSet, k \in 0 .. PTRS - 1, s \in Sector, bs \in Sector DEF SameNodes, PointerIs
<1>6. PICK q : q = [n EXCEPT !.ptrs[n.direct_blk_idx] = b.s, !.indirect_blk_idx = @ + 1]
  OBVIOUS
<1>7. PICK pt : pt = [n.ptrs EXCEPT ![n.direct_blk_idx] = b.s]
  OBVIOUS
<1>8. pt \in [Index -> Sector]
  BY <1>1, <1>2, <1>7
<1>9. q = [length |-> n.length, direct_blk_idx |-> n.direct_blk_idx,
           indirect_blk_idx |-> n.indirect_blk_idx + 1, ptrs |-> pt]
  BY ONLY n \in Node, <1>6, <1>7 DEF Node
<1>10. /\ g.f = block_write(y, b.s)
       /\ g.n = IF block_full(q) THEN [q EXCEPT !.indirect_blk_idx = 0, !.direct_blk_idx = @ + 1] ELSE q
  BY <1>6 DEF inode_grow_indirect_block, GrowthBlock, PointerPut
<1>11. g.f \in FileSystem /\ g.f.inode = f.inode
  <2>1. \A x : block_write(y, x) \in FileSystem /\ block_write(y, x).inode = y.inode
    BY ONLY <1>5, BlockWritten
  <2> QED
    BY ONLY <1>5, <1>10, <2>1
<1>12. /\ g.n \in Node /\ g.n.length = n.length /\ g.n.ptrs = pt
       /\ IF n.indirect_blk_idx + 1 = PTRS
          THEN g.n.indirect_blk_idx = 0 /\ g.n.direct_blk_idx = n.direct_blk_idx + 1
          ELSE g.n.indirect_blk_idx = n.indirect_blk_idx + 1 /\ g.n.direct_blk_idx = n.direct_blk_idx
  <2>1. CASE n.indirect_blk_idx + 1 = PTRS
    <3>1. g.n = [length |-> n.length, direct_blk_idx |-> n.direct_blk_idx + 1,
                 indirect_blk_idx |-> 0, ptrs |-> pt]
      BY ONLY <1>9, <1>10, <2>1 DEF block_full
    <3> QED
      BY ONLY <1>1, <1>8, <2>1, <3>1 DEF Node
  <2>2. CASE n.indirect_blk_idx + 1 # PTRS
    <3>1. g.n = q
      BY ONLY <1>9, <1>10, <2>2 DEF block_full
    <3> QED
      BY ONLY <1>1, <1>8, <1>9, <2>2, <3>1 DEF Node
  <2> QED
    BY <2>1, <2>2
<1> QED
  BY <1>2, <1>3, <1>4, <1>5, <1>7, <1>10, <1>11, <1>12

LEMMA IndirectGrows ==
    ASSUME NEW f \in FileSystem, NEW n \in Node, NEW m \in Nat, Holds(f, n, m), m >= DIRECT,
           Behind(m) < DIRECT + INDIRECT,
           NEW g, g = inode_grow_indirect_block([f |-> f, n |-> n])
    PROVE  /\ g.f \in FileSystem /\ g.n \in Node /\ g.f.inode = f.inode
           /\ g.f.fault = "none" => f.fault = "none" /\ GrownTo(f, n, m, g.f, g.n, m + 1)
<1>1. PICK d : d = Behind(m)
  OBVIOUS
<1>2. PICK k : k = Offset(m)
  OBVIOUS
<1>3. /\ DIRECT \in Nat /\ INDIRECT \in Nat /\ PTRS \in Nat \ {0}
      /\ d \in Nat /\ d >= DIRECT /\ d < DIRECT + INDIRECT /\ d \in Index /\ k \in 0 .. PTRS - 1
      /\ n.direct_blk_idx = d /\ n.indirect_blk_idx = k /\ n.ptrs \in [Index -> Sector]
  <2>1. /\ DIRECT \in Nat /\ INDIRECT \in Nat /\ PTRS \in Nat \ {0}
        /\ n.direct_blk_idx = d /\ n.indirect_blk_idx = k /\ n.ptrs \in [Index -> Sector]
    BY <1>1, <1>2, Constants DEF Holds, Filled, Node
  <2>2. d \in Nat /\ d >= DIRECT /\ d < DIRECT + INDIRECT /\ k \in 0 .. PTRS - 1
    BY <1>1, <1>2, LastBlock
  <2> QED
    BY <2>1, <2>2 DEF Index
<1>4. \A i \in DIRECT .. m - 1 : i \in Nat /\ Behind(i) \in Index /\ (Behind(i) < d \/ (Behind(i) = d /\ Offset(i) < k))
                                 /\ Offset(i) \in 0 .. PTRS - 1
  <2>1. SUFFICES ASSUME NEW i \in DIRECT .. m - 1
                 PROVE  i \in Nat /\ Behind(i) \in Index /\ (Behind(i) < d \/ (Behind(i) = d /\ Offset(i) < k))
                        /\ Offset(i) \in 0 .. PTRS - 1
    OBVIOUS
  <2>2. i \in Nat /\ i >= DIRECT
    BY <1>3
  <2>3. Behind(i) < d \/ (Behind(i) = d /\ Offset(i) < k)
    BY <1>1, <1>2, LastBlock
  <2>4. Behind(i) \in Nat /\ Offset(i) \in 0 .. PTRS - 1
    BY <2>2, Places
  <2> QED
    BY <1>3, <2>2, <2>3, <2>4 DEF Index
<1>5. k # 0 => m - 1 \in DIRECT .. m - 1 /\ Behind(m - 1) = d
  BY <1>1, <1>2, LastBlock
<1>6. PICK b : b = IF k = 0 THEN free_map_allocate(f) ELSE [f |-> f, s |-> n.ptrs[d]]
  OBVIOUS
<1>7. PICK a : a = free_map_allocate(b.f)
  OBVIOUS
<1>8. PICK z : z = write_zeros(a.f, a.s)
  OBVIOUS
<1>9. PICK y : y = PointerPut(z, b.s, k, a.s)
  OBVIOUS
<1>10. PICK h : h = g.f
  OBVIOUS
<1>11. PICK p : p = g.n
  OBVIOUS
<1>12. /\ b.f \in FileSystem /\ b.s \in Sector /\ a.f \in FileSystem /\ a.s \in Sector
       /\ z \in FileSystem /\ y \in FileSystem /\ h \in FileSystem /\ p \in Node /\ h.inode = f.inode
       /\ h = block_write(y, b.s) /\ p.length = n.length
       /\ p.ptrs = [n.ptrs EXCEPT ![d] = b.s]
       /\ IF k + 1 = PTRS
          THEN p.indirect_blk_idx = 0 /\ p.direct_blk_idx = d + 1
          ELSE p.indirect_blk_idx = k + 1 /\ p.direct_blk_idx = d
  <2>1. n.direct_blk_idx \in Index /\ n.indirect_blk_idx < PTRS
    BY <1>3
  <2>2. b = GrowthBlock(f, n)
    BY <1>3, <1>6 DEF GrowthBlock
  <2>3. y = PointerPut(z, b.s, n.indirect_blk_idx, a.s)
    BY <1>3, <1>9
  <2>4. /\ b.f \in FileSystem /\ b.s \in Sector /\ a.f \in FileSystem /\ a.s \in Sector
        /\ z \in FileSystem /\ y \in FileSystem /\ g.f \in FileSystem /\ g.n \in Node
        /\ g.f.inode = f.inode
        /\ g.f = block_write(y, b.s) /\ g.n.length = n.length
        /\ g.n.ptrs = [n.ptrs EXCEPT ![n.direct_blk_idx] = b.s]
        /\ IF n.indirect_blk_idx + 1 = PTRS
           THEN g.n.indirect_blk_idx = 0 /\ g.n.direct_blk_idx = n.direct_blk_idx + 1
           ELSE g.n.indirect_blk_idx = n.indirect_blk_idx + 1 /\ g.n.direct_blk_idx = n.direct_blk_idx
    BY ONLY f \in FileSystem, n \in Node, <1>7, <1>8, <2>1, <2>2, <2>3, IndirectTyped,
            g = inode_grow_indirect_block([f |-> f, n |-> n])
  <2> QED
    BY ONLY <1>3, <1>10, <1>11, <2>4
<1>13. ASSUME h.fault = "none" PROVE f.fault = "none" /\ GrownTo(f, n, m, h, p, m + 1)
  <2>1. PICK bs \in Sector : bs = b.s
    BY <1>12
  <2>2. PICK s \in Sector : s = a.s
    BY <1>12
  <2>3. h = y /\ y.fault = "none"
    BY <1>12, <1>13, BlockWritten
  <2>4. /\ y.fault = z.fault /\ SameNodes(z, y) /\ y.free_map = z.free_map
        /\ y.data = z.data /\ y.block[bs][k] = s
        /\ \A i \in 0 .. PTRS - 1 : i # k => y.block[bs][i] = z.block[bs][i]
        /\ \A t \in Sector : t # bs => y.block[t] = z.block[t]
    <3>1. y = PointerPut(z, bs, k, s)
      BY <1>9, <2>1, <2>2
    <3>2. z \in FileSystem
      BY <1>12
    <3>3. k \in 0 .. PTRS - 1
      BY <1>3
    <3>4. PointerIs(z, y, bs, k, s)
      BY ONLY <3>1, <3>2, <3>3, PointerSet, bs \in Sector, s \in Sector
    <3> QED
      BY ONLY <3>4 DEF PointerIs
  <2>5. /\ a.f.fault = "none" /\ SameNodes(a.f, z) /\ z.free_map = a.f.free_map
        /\ z.block = a.f.block /\ z.data = [a.f.data EXCEPT ![s] = ZeroData]
    <3>1. PICK x \in FileSystem : x = a.f
      BY <1>12
    <3>2. z = write_zeros(x, s) /\ z.fault = "none"
      BY <1>8, <2>2, <2>3, <2>4, <3>1
    <3>3. x.fault = "none" /\ SameNodes(x, z) /\ z.free_map = x.free_map
          /\ z.block = x.block /\ z.data = [x.data EXCEPT ![s] = ZeroData]
      BY ONLY <3>2, ZerosWritten, x \in FileSystem, s \in Sector
    <3> QED
      BY ONLY <3>1, <3>3
  <2>6. /\ b.f.fault = "none" /\ s \notin b.f.free_map
        /\ a.f.free_map = b.f.free_map \cup {s}
        /\ SameNodes(b.f, a.f) /\ a.f.block = b.f.block /\ a.f.data = b.f.data
    <3>1. PICK x \in FileSystem : x = b.f
      BY <1>12
    <3> QED
      BY <1>7, <2>2, <2>5, <3>1, Allocated
  <2>7. /\ f.fault = "none" /\ SameNodes(f, b.f) /\ b.f.block = f.block /\ b.f.data = f.data
        /\ b.f.free_map = f.free_map \cup {bs}
        /\ IF k = 0 THEN bs \notin f.free_map ELSE bs = n.ptrs[d] /\ bs \in Own(f, n, m)
    <3>1. CASE k = 0
      <4>1. b = free_map_allocate(f)
        BY <1>6, <3>1
      <4>2. /\ f.fault = "none" /\ b.s \in Sector \ f.free_map /\ b.f.free_map = f.free_map \cup {b.s}
            /\ SameNodes(f, b.f) /\ b.f.block = f.block /\ b.f.data = f.data
        BY ONLY <2>6, <4>1, f \in FileSystem, Allocated
      <4> QED
        BY <2>1, <3>1, <4>2
    <3>2. CASE k # 0
      <4>1. b.f = f /\ bs = n.ptrs[d]
        BY <1>6, <2>1, <3>2
      <4>2. bs \in Own(f, n, m)
        BY <1>5, <3>2, <4>1 DEF Own
      <4>3. bs \in f.free_map
        BY <4>2 DEF Holds
      <4> QED
        BY <2>6, <3>2, <4>1, <4>2, <4>3 DEF SameNodes
    <3> QED
      BY <3>1, <3>2
  <2>8. /\ h.free_map = f.free_map \cup {bs, s} /\ SameNodes(f, h) /\ s # bs /\ s \notin f.free_map
        /\ h.data = [f.data EXCEPT ![s] = ZeroData] /\ h.block[bs][k] = s
        /\ \A i \in 0 .. PTRS - 1 : i # k => h.block[bs][i] = f.block[bs][i]
        /\ \A t \in Sector : t # bs => h.block[t] = f.block[t]
    BY ONLY <2>3, <2>4, <2>5, <2>6, <2>7 DEF SameNodes
  <2>9. /\ p.ptrs[d] = bs /\ \A i \in Index : i # d => p.ptrs[i] = n.ptrs[i]
        /\ \A i \in DIRECT .. m - 1 : p.ptrs[Behind(i)] = n.ptrs[Behind(i)]
    <3>1. p.ptrs[d] = bs /\ \A i \in Index : i # d => p.ptrs[i] = n.ptrs[i]
      BY <1>3, <1>12, <2>1
    <3>2. ASSUME NEW i \in DIRECT .. m - 1 PROVE p.ptrs[Behind(i)] = n.ptrs[Behind(i)]
      <4>1. Behind(i) = d => k # 0
        BY <1>4, <1>3
      <4> QED
        BY <1>4, <2>7, <3>1, <4>1
    <3> QED
      BY <3>1, <3>2
  <2>10. \A i \in DIRECT .. m - 1 : n.ptrs[Behind(i)] = bs => Behind(i) = d
    <3>1. SUFFICES ASSUME NEW i \in DIRECT .. m - 1, n.ptrs[Behind(i)] = bs PROVE Behind(i) = d
      OBVIOUS
    <3>2. bs \in f.free_map
      <4>1. n.ptrs[Behind(i)] \in Own(f, n, m)
        BY DEF Own
      <4> QED
        BY <3>1, <4>1 DEF Holds
    <3>3. k # 0
      BY <2>7, <3>2
    <3> QED
      BY <1>5, <2>7, <3>1, <3>3 DEF Holds, Apart
  <2>11. \A i \in 0 .. m - 1 : data_sector(h, p, i) = data_sector(f, n, i)
    <3>1. SUFFICES ASSUME NEW i \in 0 .. m - 1 PROVE data_sector(h, p, i) = data_sector(f, n, i)
      OBVIOUS
    <3>2. p \in Node /\ h \in FileSystem /\ i \in Nat
      BY <1>12
    <3>3. CASE i < DIRECT
      <4>1. data_sector(h, p, i) = p.ptrs[i] /\ data_sector(f, n, i) = n.ptrs[i]
        BY ONLY <3>2, <3>3, f \in FileSystem, n \in Node, DataSector
      <4>2. i \in Index /\ i # d
        BY <1>3, <3>3 DEF Index
      <4> QED
        BY <2>9, <4>1, <4>2
    <3>4. CASE i >= DIRECT
      <4>1. /\ data_sector(h, p, i) = h.block[p.ptrs[Behind(i)]][Offset(i)]
            /\ data_sector(f, n, i) = f.block[n.ptrs[Behind(i)]][Offset(i)]
        BY ONLY <3>2, <3>4, f \in FileSystem, n \in Node, DataSector
      <4>2. i \in DIRECT .. m - 1
        BY <1>3, <3>4
      <4>3. p.ptrs[Behind(i)] = n.ptrs[Behind(i)] /\ n.ptrs[Behind(i)] \in Sector
        BY <1>3, <1>4, <2>9, <4>2
      <4>4. h.block[n.ptrs[Behind(i)]][Offset(i)] = f.block[n.ptrs[Behind(i)]][Offset(i)]
        <5>1. CASE n.ptrs[Behind(i)] = bs
          <6>1. Offset(i) \in 0 .. PTRS - 1 /\ Offset(i) # k
            BY <1>3, <1>4, <2>10, <4>2, <5>1
          <6> QED
            BY <2>8, <5>1, <6>1
        <5>2. CASE n.ptrs[Behind(i)] # bs
          BY <2>8, <4>3, <5>2
        <5> QED
          BY <5>1, <5>2
      <4> QED
        BY <4>1, <4>3, <4>4
    <3> QED
      BY <1>3, <3>2, <3>3, <3>4
  <2>12. data_sector(h, p, m) = s
    <3>1. p \in Node /\ h \in FileSystem /\ m \in Nat
      BY <1>12
    <3>2. data_sector(h, p, m) = h.block[p.ptrs[Behind(m)]][Offset(m)]
      BY ONLY <3>1, m >= DIRECT, DataSector
    <3> QED
      BY <1>1, <1>2, <2>8, <2>9, <3>2
  <2>13. (m + 1) - 1 = m /\ 0 .. m = (0 .. m - 1) \cup {m} /\ DIRECT .. m = (DIRECT .. m - 1) \cup {m}
         /\ m \notin 0 .. m - 1 /\ m \notin DIRECT .. m - 1
    BY <1>3
  <2>14. Own(h, p, m + 1) = Own(f, n, m) \cup {s, bs}
    <3>1. {data_sector(h, p, i) : i \in 0 .. m} = {data_sector(f, n, i) : i \in 0 .. m - 1} \cup {s}
      BY ONLY <2>11, <2>12, <2>13
    <3>2. {p.ptrs[Behind(i)] : i \in DIRECT .. m} = {n.ptrs[Behind(i)] : i \in DIRECT .. m - 1} \cup {bs}
      BY ONLY <1>1, <2>9, <2>13
    <3> QED
      BY ONLY <2>13, <3>1, <3>2 DEF Own
  <2>15. Own(h, p, m + 1) = Own(f, n, m) \cup (h.free_map \ f.free_map)
    <3>1. Own(f, n, m) \subseteq f.free_map
      BY DEF Holds
    <3> QED
      BY ONLY <2>7, <2>8, <2>14, <3>1
  <2>16. /\ \A i \in 0 .. m - 1 : data_sector(f, n, i) \in f.free_map /\ data_sector(f, n, i) # bs
         /\ \A i \in DIRECT .. m - 1 : n.ptrs[Behind(i)] \in f.free_map
    <3>1. /\ \A i \in 0 .. m - 1 : data_sector(f, n, i) \in f.free_map
          /\ \A i \in DIRECT .. m - 1 : n.ptrs[Behind(i)] \in f.free_map
      BY DEF Holds, Own
    <3>2. ASSUME NEW i \in 0 .. m - 1 PROVE data_sector(f, n, i) # bs
      <4>1. CASE k = 0
        BY <2>7, <3>1, <4>1
      <4>2. CASE k # 0
        BY <1>5, <2>7, <4>2 DEF Holds, Apart
      <4> QED
        BY <4>1, <4>2
    <3> QED
      BY <3>1, <3>2
  <2>17. Apart(h, p, m + 1)
    <3>1. ASSUME NEW i \in 0 .. m, NEW j \in 0 .. m, data_sector(h, p, i) = data_sector(h, p, j)
          PROVE  i = j
      <4>1. \A u, v \in 0 .. m - 1 : data_sector(f, n, u) = data_sector(f, n, v) => u = v
        BY DEF Holds, Apart
      <4> QED
        BY ONLY i \in 0 .. m, j \in 0 .. m, <2>8, <2>11, <2>12, <2>13, <2>16, <3>1, <4>1
    <3>2. ASSUME NEW i \in DIRECT .. m, NEW j \in DIRECT .. m, p.ptrs[Behind(i)] = p.ptrs[Behind(j)]
          PROVE  Behind(i) = Behind(j)
      <4>1. \A u, v \in DIRECT .. m - 1 : n.ptrs[Behind(u)] = n.ptrs[Behind(v)] => Behind(u) = Behind(v)
        BY DEF Holds, Apart
      <4> QED
        BY ONLY i \in DIRECT .. m, j \in DIRECT .. m, <1>1, <2>9, <2>10, <2>13, <3>2, <4>1
    <3>3. ASSUME NEW i \in 0 .. m, NEW j \in DIRECT .. m PROVE data_sector(h, p, i) # p.ptrs[Behind(j)]
      <4>1. \A u \in 0 .. m - 1, v \in DIRECT .. m - 1 : data_sector(f, n, u) # n.ptrs[Behind(v)]
        BY DEF Holds, Apart
      <4> QED
        BY ONLY i \in 0 .. m, j \in DIRECT .. m, <1>1, <2>8, <2>9, <2>11, <2>12, <2>13, <2>16, <4>1
    <3> QED
      BY ONLY <2>13, <3>1, <3>2, <3>3 DEF Apart
  <2>18. Filled(p, m + 1)
    <3>1. m + 1 >= DIRECT
      BY <1>3
    <3>2. IF k = PTRS - 1 THEN Behind(m + 1) = d + 1 /\ Offset(m + 1) = 0
          ELSE Behind(m + 1) = d /\ Offset(m + 1) = k + 1
      BY <1>1, <1>2, Places
    <3>3. p.direct_blk_idx = Behind(m + 1) /\ p.indirect_blk_idx = Offset(m + 1)
      BY ONLY <1>3, <1>12, <3>2
    <3>4. \A i \in DIRECT .. m : Behind(i) < DIRECT + INDIRECT
      BY <2>13 DEF Holds, Filled
    <3> QED
      BY ONLY <1>3, <2>13, <3>1, <3>3, <3>4, m \in Nat DEF Filled
  <2>19. /\ \A t \in f.free_map : h.data[t] = f.data[t] /\ (t \notin Own(f, n, m) => h.block[t] = f.block[t])
         /\ h.data[s] = ZeroData
    <3>1. f.data \in [Sector -> [0 .. UNIT - 1 -> Unit]] /\ f.free_map \subseteq Sector
      BY DEF FileSystem
    <3> QED
      BY ONLY <2>7, <2>8, <3>1, s \in Sector
  <2>20. \A i \in m .. (m + 1) - 1 :
            data_sector(h, p, i) \notin f.free_map /\ h.data[data_sector(h, p, i)] = ZeroData
    <3>1. m .. (m + 1) - 1 = {m}
      OBVIOUS
    <3> QED
      BY ONLY <2>8, <2>12, <2>19, <3>1
  <2> QED
    BY ONLY <1>12, <2>7, <2>8, <2>11, <2>15, <2>17, <2>18, <2>19, <2>20 DEF GrownTo
<1> QED
  BY <1>10, <1>11, <1>12, <1>13

\* What growth works on.
Growing == [f : FileSystem, n : Node]

LEMMA SectorGrown ==
    ASSUME NEW r \in Growing, NEW m \in Nat, r.f.fault = "none" => Holds(r.f, r.n, m),
           NEW g, g = grow_sector(r)
    PROVE  /\ g \in Growing /\ g.f.inode = r.f.inode
           /\ g.f.fault = "none" => r.f.fault = "none" /\ GrownTo(r.f, r.n, m, g.f, g.n, m + 1)
<1>1. PICK f \in FileSystem, n \in Node : f = r.f /\ n = r.n /\ r = [f |-> f, n |-> n]
  BY DEF Growing
<1>2. DIRECT \in Nat /\ INDIRECT \in Nat
  BY Constants
<1>3. CASE f.fault # "none"
  BY <1>1, <1>3 DEF grow_sector, Growing
<1>4. CASE f.fault = "none"
  <2>1. Holds(f, n, m)
    BY <1>1, <1>4
  <2>2. /\ m < DIRECT => n.direct_blk_idx = m
        /\ m >= DIRECT => n.direct_blk_idx = Behind(m) /\ Behind(m) \in Nat /\ Behind(m) >= DIRECT
    BY <1>2, <2>1, LastBlock DEF Holds, Filled
  <2>3. CASE m < DIRECT
    <3>1. g = map_alloc([f |-> f, n |-> n])
      BY <1>1, <1>4, <2>2, <2>3 DEF grow_sector
    <3>2. g = [f |-> g.f, n |-> g.n]
      BY <3>1 DEF map_alloc
    <3>3. /\ g.f \in FileSystem /\ g.n \in Node /\ g.f.inode = f.inode
          /\ g.f.fault = "none" => f.fault = "none" /\ GrownTo(f, n, m, g.f, g.n, m + 1)
      BY ONLY f \in FileSystem, n \in Node, m \in Nat, <2>1, <2>3, <3>1, DirectGrows
    <3> QED
      BY <1>1, <3>2, <3>3 DEF Growing
  <2>4. CASE m >= DIRECT /\ Behind(m) < DIRECT + INDIRECT
    <3>1. g = inode_grow_indirect_block([f |-> f, n |-> n])
      BY <1>1, <1>2, <1>4, <2>2, <2>4 DEF grow_sector
    <3>2. g = [f |-> g.f, n |-> g.n]
      BY <3>1 DEF inode_grow_indirect_block
    <3>3. /\ g.f \in FileSystem /\ g.n \in Node /\ g.f.inode = f.inode
          /\ g.f.fault = "none" => f.fault = "none" /\ GrownTo(f, n, m, g.f, g.n, m + 1)
      BY ONLY f \in FileSystem, n \in Node, m \in Nat, <2>1, <2>4, <3>1, IndirectGrows
    <3> QED
      BY <1>1, <3>2, <3>3 DEF Growing
  <2>5. CASE m >= DIRECT /\ Behind(m) >= DIRECT + INDIRECT
    <3>1. g = inode_grow_double_indirect_block(r)
      BY <1>1, <1>2, <1>4, <2>2, <2>5 DEF grow_sector
    <3>2. g = [f |-> Fails(f, "lost"), n |-> n]
      BY ONLY <1>1, <3>1 DEF inode_grow_double_indirect_block
    <3>3. Fails(f, "lost").fault = "lost"
      BY <1>4 DEF Fails, FileSystem
    <3>4. Fails(f, "lost") \in FileSystem /\ Fails(f, "lost").inode = f.inode
      BY FailsTyped DEF Fault
    <3> QED
      BY ONLY <1>1, <3>2, <3>3, <3>4 DEF Growing
  <2> QED
    BY <1>2, <2>2, <2>3, <2>4, <2>5
<1> QED
  BY <1>3, <1>4

LEMMA GrownHolds ==
    ASSUME NEW f, NEW n, NEW m, NEW h, NEW p, NEW k, Holds(f, n, m), GrownTo(f, n, m, h, p, k)
    PROVE  Holds(h, p, k)
  BY DEF Holds, GrownTo

LEMMA GrownSame ==
    ASSUME NEW f, NEW n, NEW m \in Nat, Holds(f, n, m)
    PROVE  GrownTo(f, n, m, f, n, m)
<1>1. m .. m - 1 = {}
  OBVIOUS
<1> QED
  BY <1>1 DEF Holds, GrownTo, SameNodes

LEMMA GrownOn ==
    ASSUME NEW f, NEW n, NEW m \in Nat, NEW h, NEW p, NEW k \in Nat, NEW e, NEW q, NEW l \in Nat,
           m <= k, k <= l, Holds(f, n, m), GrownTo(f, n, m, h, p, k), GrownTo(h, p, k, e, q, l)
    PROVE  GrownTo(f, n, m, e, q, l)
<1>1. Own(h, p, k) \subseteq h.free_map /\ f.free_map \subseteq h.free_map /\ h.free_map \subseteq e.free_map
      /\ Own(f, n, m) \subseteq f.free_map
  BY DEF Holds, GrownTo
<1>2. Own(e, q, l) = Own(f, n, m) \cup (e.free_map \ f.free_map)
  BY <1>1 DEF GrownTo
<1>3. \A t \in f.free_map : e.data[t] = f.data[t] /\ (t \notin Own(f, n, m) => e.block[t] = f.block[t])
  BY <1>1 DEF GrownTo
<1>4. \A i \in 0 .. m - 1 : data_sector(e, q, i) = data_sector(f, n, i)
  <2>1. \A i \in 0 .. m - 1 : i \in 0 .. k - 1
    OBVIOUS
  <2> QED
    BY <2>1 DEF GrownTo
<1>5. ASSUME NEW i \in m .. l - 1
      PROVE  data_sector(e, q, i) \notin f.free_map /\ e.data[data_sector(e, q, i)] = ZeroData
  <2>1. CASE i \in k .. l - 1
    BY <1>1, <2>1 DEF GrownTo
  <2>2. CASE i \in m .. k - 1
    <3>1. i \in 0 .. k - 1
      BY <2>2
    <3>2. data_sector(e, q, i) = data_sector(h, p, i)
      BY <3>1 DEF GrownTo
    <3>3. data_sector(h, p, i) \in h.free_map
      BY <1>1, <3>1 DEF Own
    <3>4. e.data[data_sector(h, p, i)] = h.data[data_sector(h, p, i)]
      BY <3>3 DEF GrownTo
    <3> QED
      BY <2>2, <3>2, <3>4 DEF GrownTo
  <2> QED
    BY <2>1, <2>2
<1>6. Filled(q, l) /\ Apart(e, q, l) /\ SameNodes(f, e)
  BY DEF GrownTo, SameNodes
<1> QED
  BY <1>1, <1>2, <1>3, <1>4, <1>5, <1>6 DEF GrownTo

\* The length of a node does not say where its sectors are.
LEMMA LengthSet ==
    ASSUME NEW p \in Node, NEW L \in Nat, NEW q, q = [p EXCEPT !.length = L]
    PROVE  /\ q \in Node /\ q.length = L
           /\ \A f, n, m, h, k : GrownTo(f, n, m, h, p, k) => GrownTo(f, n, m, h, q, k)
<1>1. q = [length |-> L, direct_blk_idx |-> p.direct_blk_idx, indirect_blk_idx |-> p.indirect_blk_idx,
           ptrs |-> p.ptrs]
  BY ONLY p \in Node, q = [p EXCEPT !.length = L] DEF Node
<1>2. /\ q \in Node /\ q.length = L /\ q.direct_blk_idx = p.direct_blk_idx
      /\ q.indirect_blk_idx = p.indirect_blk_idx /\ q.ptrs = p.ptrs
  BY ONLY p \in Node, L \in Nat, <1>1 DEF Node
<1>3. \A h, i : data_sector(h, q, i) = data_sector(h, p, i)
  BY <1>2 DEF data_sector
<1>4. \A k : Filled(p, k) => Filled(q, k)
  BY <1>2 DEF Filled
<1>5. \A h, k : Own(h, q, k) = Own(h, p, k) /\ (Apart(h, p, k) => Apart(h, q, k))
  BY ONLY <1>2, <1>3 DEF Own, Apart
<1>6. ASSUME NEW f, NEW n, NEW m, NEW h, NEW k, GrownTo(f, n, m, h, p, k) PROVE GrownTo(f, n, m, h, q, k)
  BY <1>3, <1>4, <1>5, <1>6 DEF GrownTo
<1> QED
  BY <1>2, <1>6

LEMMA SectorsOf ==
    ASSUME NEW x \in Nat, NEW y \in Nat, x <= y
    PROVE  bytes_to_sectors(x) \in Nat /\ bytes_to_sectors(x) <= bytes_to_sectors(y)
<1>1. UNIT \in Nat \ {0}
  BY Constants
<1>2. x + UNIT - 1 \in Nat /\ y + UNIT - 1 \in Nat /\ x + UNIT - 1 <= y + UNIT - 1
  BY <1>1
<1>3. (x + UNIT - 1) \div UNIT \in Nat
  BY ONLY <1>1, <1>2, QuotientType
<1>4. (x + UNIT - 1) \div UNIT <= (y + UNIT - 1) \div UNIT
  <2>1. CASE x = y
    BY <1>3, <2>1
  <2>2. CASE x < y
    <3>1. x + UNIT - 1 < y + UNIT - 1
      BY <1>1, <2>2
    <3>2. (y + UNIT - 1) \div UNIT \in Nat
      BY ONLY <1>1, <1>2, QuotientType
    <3> QED
      BY ONLY <1>1, <1>2, <1>3, <3>1, <3>2, QuotientOrder
  <2> QED
    BY <2>1, <2>2
<1> QED
  BY <1>3, <1>4 DEF bytes_to_sectors

\* The first N sectors that inode_grow adds.
GrownUpTo(g, f, n, N) == g = [k \in 0 .. N |-> IF k = 0 THEN [f |-> f, n |-> n] ELSE grow_sector(g[k - 1])]

LEMMA GrownDefined ==
    ASSUME NEW f, NEW n, NEW L, NEW N \in Nat, N = bytes_to_sectors(L) - bytes_to_sectors(n.length)
    PROVE  \E g : GrownUpTo(g, f, n, N) /\ inode_grow(f, n, L) = [g[N] EXCEPT !.n.length = L]
<1> DEFINE D == {j \in Nat : \E g : GrownUpTo(g, f, n, j)}
<1>1. 0 \in D
  <2>1. GrownUpTo([k \in 0 .. 0 |-> [f |-> f, n |-> n]], f, n, 0)
    BY DEF GrownUpTo
  <2> QED
    BY <2>1
<1>2. ASSUME NEW j \in Nat, j \in D PROVE j + 1 \in D
  <2>1. PICK g : GrownUpTo(g, f, n, j)
    BY <1>2
  <2> DEFINE h == [k \in 0 .. j + 1 |-> IF k <= j THEN g[k] ELSE grow_sector(g[j])]
  <2>2. \A k \in 0 .. j : g[k] = IF k = 0 THEN [f |-> f, n |-> n] ELSE grow_sector(g[k - 1])
    BY <2>1 DEF GrownUpTo
  <2>3. \A k \in 0 .. j + 1 : h[k] = IF k = 0 THEN [f |-> f, n |-> n] ELSE grow_sector(h[k - 1])
    BY <2>2
  <2>4. h = [k \in 0 .. j + 1 |-> h[k]]
    OBVIOUS
  <2> HIDE DEF h
  <2>5. GrownUpTo(h, f, n, j + 1)
    BY <2>3, <2>4 DEF GrownUpTo
  <2> QED
    BY <2>5
<1> HIDE DEF D
<1>3. N \in D
  BY <1>1, <1>2, Induction
<1> DEFINE S == bytes_to_sectors(L) - bytes_to_sectors(n.length)
           grown[k \in 0 .. S] == IF k = 0 THEN [f |-> f, n |-> n] ELSE grow_sector(grown[k - 1])
<1>4. inode_grow(f, n, L) = [grown[S] EXCEPT !.n.length = L]
  BY DEF inode_grow
<1>5. GrownUpTo(grown, f, n, S)
  BY <1>3 DEF D, GrownUpTo
<1> QED
  BY <1>4, <1>5

\* inode_grow: the file gets the sectors its new length needs, and they were free.
LEMMA InodeGrown ==
    ASSUME NEW f \in FileSystem, NEW n \in Node, NEW m, m = bytes_to_sectors(n.length),
           f.fault = "none" => Holds(f, n, m), NEW L \in Nat, n.length <= L,
           NEW g, g = inode_grow(f, n, L)
    PROVE  /\ g \in Growing /\ g.f.inode = f.inode /\ g.n.length = L /\ m \in Nat
           /\ m <= bytes_to_sectors(L) /\ bytes_to_sectors(L) \in Nat
           /\ g.f.fault = "none" => f.fault = "none" /\ GrownTo(f, n, m, g.f, g.n, bytes_to_sectors(L))
<1>1. n.length \in Nat
  BY DEF Node
<1>2. PICK k : k = bytes_to_sectors(L)
  OBVIOUS
<1>3. m \in Nat /\ k \in Nat /\ m <= k
  BY <1>1, <1>2, SectorsOf
<1>4. PICK N \in Nat : N = k - m /\ m + N = k
  BY <1>3
<1>5. PICK w : GrownUpTo(w, f, n, N) /\ g = [w[N] EXCEPT !.n.length = L]
  BY <1>2, <1>4, GrownDefined
<1>6. \A j \in 0 .. N : w[j] = IF j = 0 THEN [f |-> f, n |-> n] ELSE grow_sector(w[j - 1])
  BY <1>5 DEF GrownUpTo
<1> DEFINE Right(j) == /\ w[j] \in Growing /\ w[j].f.inode = f.inode
                       /\ w[j].f.fault = "none" => /\ f.fault = "none"
                                                   /\ GrownTo(f, n, m, w[j].f, w[j].n, m + j)
           D == {j \in Nat : j <= N => Right(j)}
<1>7. 0 \in D
  <2>1. w[0] = [f |-> f, n |-> n] /\ m + 0 = m
    BY <1>3, <1>6
  <2>2. f.fault = "none" => GrownTo(f, n, m, f, n, m)
    BY <1>3, GrownSame
  <2> QED
    BY <2>1, <2>2 DEF Growing
<1>8. ASSUME NEW j \in Nat, j \in D PROVE j + 1 \in D
  <2> SUFFICES ASSUME j + 1 <= N PROVE Right(j + 1)
    OBVIOUS
  <2>1. Right(j) /\ w[j + 1] = grow_sector(w[j]) /\ m + j \in Nat /\ m + (j + 1) = (m + j) + 1
    BY <1>3, <1>6, <1>8
  <2> HIDE DEF Right
  <2>2. PICK r : r = w[j]
    OBVIOUS
  <2>3. PICK e : e = w[j + 1]
    OBVIOUS
  <2>4. PICK l \in Nat : l = m + j /\ m <= l /\ l <= l + 1
    BY <1>3, <2>1
  <2>5. /\ r \in Growing /\ r.f.inode = f.inode
        /\ r.f.fault = "none" => f.fault = "none" /\ GrownTo(f, n, m, r.f, r.n, l)
    BY <2>1, <2>2, <2>4 DEF Right
  <2>6. r.f.fault = "none" => Holds(r.f, r.n, l) /\ Holds(f, n, m)
    BY <2>5, GrownHolds
  <2>7. e = grow_sector(r)
    BY <2>1, <2>2, <2>3
  <2>8. /\ e \in Growing /\ e.f.inode = r.f.inode
        /\ e.f.fault = "none" => r.f.fault = "none" /\ GrownTo(r.f, r.n, l, e.f, e.n, l + 1)
    BY ONLY <2>5, <2>6, <2>7, SectorGrown, l \in Nat
  <2>9. e.f.fault = "none" => f.fault = "none" /\ GrownTo(f, n, m, e.f, e.n, l + 1)
    <3>1. l + 1 \in Nat
      OBVIOUS
    <3> QED
      BY ONLY <1>3, <2>4, <2>5, <2>6, <2>8, <3>1, GrownOn, l \in Nat
  <2> QED
    BY <2>1, <2>3, <2>4, <2>5, <2>8, <2>9 DEF Right
<1> HIDE DEF D
<1>9. N \in D
  BY <1>7, <1>8, Induction
<1>10. PICK r : r = w[N]
  OBVIOUS
<1>11. /\ r \in Growing /\ r.f.inode = f.inode
       /\ r.f.fault = "none" => f.fault = "none" /\ GrownTo(f, n, m, r.f, r.n, k)
  BY <1>4, <1>9, <1>10 DEF D
<1>12. PICK p \in Node : p = r.n
  BY <1>11 DEF Growing
<1>13. PICK q : q = [p EXCEPT !.length = L]
  OBVIOUS
<1>14. q \in Node /\ q.length = L
       /\ (GrownTo(f, n, m, r.f, p, k) => GrownTo(f, n, m, r.f, q, k))
  BY <1>13, LengthSet
<1>15. g = [f |-> r.f, n |-> q]
  BY ONLY <1>5, <1>10, <1>11, <1>12, <1>13 DEF Growing
<1> QED
  BY <1>2, <1>3, <1>11, <1>12, <1>14, <1>15 DEF Growing
-----------------------------------------------------------------------------
(***************************************************************************)
(* The sectors of a node of a length.                                      *)
(***************************************************************************)

LEMMA Numbered ==
    ASSUME NEW N \in Nat, NEW T, NEW F \in [0 .. N - 1 -> T], \A t \in T : \E i \in 0 .. N - 1 : F[i] = t,
           \A i, j \in 0 .. N - 1 : F[i] = F[j] => i = j
    PROVE  IsFiniteSet(T) /\ Cardinality(T) = N
<1>1. IsFiniteSet(0 .. N - 1) /\ Cardinality(0 .. N - 1) = N
  <2>1. N - 1 \in Int /\ 0 \in Int
    OBVIOUS
  <2>2. IsFiniteSet(0 .. N - 1) /\ Cardinality(0 .. N - 1) = IF 0 > N - 1 THEN 0 ELSE (N - 1) - 0 + 1
    BY ONLY <2>1, FS_Interval
  <2> QED
    BY <2>2
<1>3. F \in Bijection(0 .. N - 1, T)
  BY DEF Bijection, Injection, Surjection, IsInjective
<1>4. ExistsBijection(0 .. N - 1, T)
  BY <1>3 DEF ExistsBijection
<1> QED
  BY ONLY <1>1, <1>4, FS_Bijection

LEMMA QuotientShift ==
    ASSUME NEW x \in Nat, NEW u \in Nat \ {0}, NEW d \in Nat
    PROVE  (x + u * d) \div u = (x \div u) + d
  OBVIOUS

LEMMA RoundedUpOrder ==
    ASSUME NEW x \in Nat, NEW u \in Nat \ {0}, NEW d \in Nat
    PROVE  (x + u - 1) \div u <= d <=> x <= u * d
  OBVIOUS

LEMMA QuotientSpan ==
    ASSUME NEW x \in Nat, NEW p \in Nat \ {0}, NEW j \in Nat, j <= x \div p
    PROVE  p * j \in Nat /\ p * j <= x /\ (p * j) \div p = j
  OBVIOUS

\* The pointer blocks that a node of its length has.
LEMMA BlocksOf ==
    ASSUME NEW n \in Node, NEW m, m = bytes_to_sectors(n.length)
    PROVE  /\ m \in Nat
           /\ indirect_sectors(n) = IF m <= DIRECT THEN 0 ELSE ((m - DIRECT - 1) \div PTRS) + 1
<1>1. UNIT \in Nat \ {0} /\ DIRECT \in Nat /\ PTRS \in Nat \ {0}
  BY Constants
<1>2. PICK l \in Nat : l = n.length
  BY DEF Node
<1>3. PICK u \in Nat \ {0} : u = UNIT
  BY <1>1
<1>4. PICK p \in Nat \ {0} : p = PTRS
  BY <1>1
<1>5. PICK d \in Nat : d = DIRECT
  BY <1>1
<1>6. m \in Nat
  <2>1. l <= l
    OBVIOUS
  <2> QED
    BY <1>2, <2>1, SectorsOf
<1>7. m = (l + u - 1) \div u
  BY <1>2, <1>3 DEF bytes_to_sectors
<1>8. m <= d <=> l <= u * d
  <2>1. (l + u - 1) \div u <= d <=> l <= u * d
    BY ONLY RoundedUpOrder, l \in Nat, u \in Nat \ {0}, d \in Nat
  <2> QED
    BY ONLY <1>7, <2>1
<1>9. CASE m <= d
  <2>1. n.length <= UNIT * DIRECT
    BY ONLY <1>2, <1>3, <1>5, <1>8, <1>9
  <2>2. indirect_sectors(n) = 0
    BY ONLY <2>1 DEF indirect_sectors
  <2> QED
    BY ONLY <1>5, <1>6, <1>9, <2>2
<1>10. CASE m > d
  <2>1. PICK e \in Nat : e = u * d
    OBVIOUS
  <2>2. l > e /\ l - e \in Nat \ {0} /\ l \in Nat \ {0}
    BY <1>6, <1>8, <1>10, <2>1
  <2>3. PICK x \in Nat : x = (l - e) - 1 /\ l - 1 = x + e /\ l = x + e + 1
    BY <2>2
  <2>4. PICK up \in Nat \ {0} : up = u * p
    BY ONLY QuotientTwice, u \in Nat \ {0}, p \in Nat \ {0}, x \in Nat
  <2>5. indirect_sectors(n) = (l - e + up - 1) \div up
    BY <1>2, <1>3, <1>4, <1>5, <1>8, <1>10, <1>6, <2>1, <2>4 DEF indirect_sectors
  <2>6. indirect_sectors(n) = (x \div up) + 1
    <3>1. PICK y \in Nat \ {0} : y = l - e
      BY <2>2
    <3>2. (y + up - 1) \div up = ((y - 1) \div up) + 1
      BY ONLY RoundedUp, y \in Nat \ {0}, up \in Nat \ {0}
    <3> QED
      BY ONLY <2>3, <2>5, <3>1, <3>2
  <2>7. m = ((l - 1) \div u) + 1
    <3>1. l \in Nat \ {0}
      BY <2>2
    <3>2. (l + u - 1) \div u = ((l - 1) \div u) + 1
      BY ONLY <3>1, RoundedUp, u \in Nat \ {0}
    <3> QED
      BY ONLY <1>7, <3>2
  <2>8. (l - 1) \div u = (x \div u) + d
    <3>1. (x + u * d) \div u = (x \div u) + d
      BY ONLY QuotientShift, x \in Nat, u \in Nat \ {0}, d \in Nat
    <3> QED
      BY ONLY <2>1, <2>3, <3>1
  <2>9. x \div u \in Nat
    BY ONLY QuotientType, x \in Nat, u \in Nat \ {0}
  <2>10. m - d - 1 = x \div u
    BY ONLY <2>7, <2>8, <2>9, d \in Nat
  <2>11. (x \div u) \div p = x \div up
    <3>1. (x \div u) \div p = x \div (u * p)
      BY ONLY x \in Nat, u \in Nat \ {0}, p \in Nat \ {0}
    <3> QED
      BY ONLY <2>4, <3>1
  <2> QED
    BY ONLY <1>4, <1>5, <1>6, <1>10, <2>6, <2>10, <2>11, d \in Nat
<1> QED
  BY <1>5, <1>6, <1>9, <1>10

\* node_sectors are the sectors that growth gave the node, and as many as its length needs.
LEMMA NodeSectors ==
    ASSUME NEW f \in FileSystem, NEW n \in Node, NEW m, m = bytes_to_sectors(n.length), Filled(n, m)
    PROVE  /\ node_sectors(f, n) = Own(f, n, m) /\ data_sectors(f, n) \subseteq Own(f, n, m)
           /\ Apart(f, n, m) => /\ IsFiniteSet(Own(f, n, m))
                                /\ Cardinality(Own(f, n, m)) = m + indirect_sectors(n)
<1>1. PTRS \in Nat \ {0} /\ DIRECT \in Nat
  BY Constants
<1>2. m \in Nat /\ indirect_sectors(n) = IF m <= DIRECT THEN 0 ELSE ((m - DIRECT - 1) \div PTRS) + 1
  BY BlocksOf
<1>3. PICK q : q = indirect_sectors(n)
  OBVIOUS
<1>4. /\ q \in Nat
      /\ \A i \in DIRECT .. m - 1 : \E j \in 0 .. q - 1 : Behind(i) = DIRECT + j
      /\ \A j \in 0 .. q - 1 : \E i \in DIRECT .. m - 1 : Behind(i) = DIRECT + j
  <2>1. CASE m <= DIRECT
    BY <1>1, <1>2, <1>3, <2>1
  <2>2. CASE m > DIRECT
    <3>1. PICK x \in Nat : x = m - DIRECT - 1 /\ m - 1 = DIRECT + x
      BY <1>1, <1>2, <2>2
    <3>2. PICK p \in Nat \ {0} : p = PTRS
      BY <1>1
    <3>3. q = (x \div p) + 1 /\ x \div p \in Nat
      <4>1. x \div p \in Nat
        BY ONLY QuotientType, x \in Nat, p \in Nat \ {0}
      <4>2. ~ (m <= DIRECT)
        BY <1>1, <1>2, <2>2
      <4> QED
        BY ONLY <1>2, <1>3, <3>1, <3>2, <4>1, <4>2
    <3>4. ASSUME NEW i \in DIRECT .. m - 1 PROVE \E j \in 0 .. q - 1 : Behind(i) = DIRECT + j
      <4>1. PICK y \in Nat : y = i - DIRECT /\ y <= x
        BY <1>1, <3>1
      <4>2. y \div p \in Nat
        BY ONLY QuotientType, y \in Nat, p \in Nat \ {0}
      <4>3. y \div p <= x \div p
        <5>1. y = x \/ y < x
          BY <4>1
        <5> QED
          BY ONLY <5>1, <4>2, <3>3, QuotientOrder, y \in Nat, x \in Nat, p \in Nat \ {0}
      <4>4. y \div p \in 0 .. q - 1
        BY <3>3, <4>2, <4>3
      <4>5. Behind(i) = DIRECT + (y \div p)
        BY <3>2, <4>1 DEF Behind
      <4> QED
        BY <4>4, <4>5
    <3>5. ASSUME NEW j \in 0 .. q - 1 PROVE \E i \in DIRECT .. m - 1 : Behind(i) = DIRECT + j
      <4>1. j \in Nat /\ j <= x \div p
        BY <3>3
      <4>2. p * j \in Nat /\ p * j <= x /\ (p * j) \div p = j
        BY ONLY <4>1, QuotientSpan, x \in Nat, p \in Nat \ {0}
      <4>3. PICK y \in Nat : y = p * j
        BY <4>2
      <4>4. DIRECT + y \in DIRECT .. m - 1 /\ (DIRECT + y) - DIRECT = y
        BY <1>1, <1>2, <3>1, <4>2, <4>3
      <4>5. Behind(DIRECT + y) = DIRECT + j
        BY ONLY <3>2, <4>2, <4>3, <4>4 DEF Behind
      <4> QED
        BY <4>4, <4>5
    <3> QED
      BY <3>3, <3>4, <3>5
  <2> QED
    BY <1>1, <1>2, <2>1, <2>2
<1>5. data_sectors(f, n) = {data_sector(f, n, i) : i \in 0 .. m - 1}
  BY DEF data_sectors
<1>6. {n.ptrs[DIRECT + i] : i \in 0 .. q - 1} = {n.ptrs[Behind(i)] : i \in DIRECT .. m - 1}
  BY ONLY <1>4
<1>7. node_sectors(f, n) = Own(f, n, m)
  BY ONLY <1>3, <1>5, <1>6 DEF node_sectors, Own
<1>8. ASSUME Apart(f, n, m)
      PROVE  IsFiniteSet(Own(f, n, m)) /\ Cardinality(Own(f, n, m)) = m + q
  <2>1. PICK A : A = {data_sector(f, n, i) : i \in 0 .. m - 1}
    OBVIOUS
  <2>2. PICK B : B = {n.ptrs[DIRECT + i] : i \in 0 .. q - 1}
    OBVIOUS
  <2>3. PICK F : F = [i \in 0 .. m - 1 |-> data_sector(f, n, i)]
    OBVIOUS
  <2>4. PICK G : G = [i \in 0 .. q - 1 |-> n.ptrs[DIRECT + i]]
    OBVIOUS
  <2>5. IsFiniteSet(A) /\ Cardinality(A) = m
    <3>1. F \in [0 .. m - 1 -> A] /\ \A t \in A : \E i \in 0 .. m - 1 : F[i] = t
      BY <2>1, <2>3
    <3>2. \A i, j \in 0 .. m - 1 : F[i] = F[j] => i = j
      BY <1>8, <2>3 DEF Apart
    <3> QED
      BY ONLY <1>2, <3>1, <3>2, Numbered
  <2>6. IsFiniteSet(B) /\ Cardinality(B) = q
    <3>1. G \in [0 .. q - 1 -> B] /\ \A t \in B : \E i \in 0 .. q - 1 : G[i] = t
      BY <2>2, <2>4
    <3>2. ASSUME NEW i \in 0 .. q - 1, NEW j \in 0 .. q - 1, G[i] = G[j] PROVE i = j
      <4>1. PICK u \in DIRECT .. m - 1 : Behind(u) = DIRECT + i
        BY <1>4
      <4>2. PICK v \in DIRECT .. m - 1 : Behind(v) = DIRECT + j
        BY <1>4
      <4>3. n.ptrs[Behind(u)] = n.ptrs[Behind(v)]
        BY <2>4, <3>2, <4>1, <4>2
      <4>4. Behind(u) = Behind(v)
        BY <1>8, <4>3 DEF Apart
      <4> QED
        BY <1>1, <4>1, <4>2, <4>4
    <3> QED
      BY ONLY <1>4, <3>1, <3>2, Numbered
  <2>7. A \cap B = {}
    BY <1>6, <1>8, <2>1, <2>2 DEF Apart
  <2>8. Own(f, n, m) = A \cup B
    BY <1>6, <2>1, <2>2 DEF Own
  <2>9. IsFiniteSet(A \cup B) /\ Cardinality(A \cup B) = Cardinality(A) + Cardinality(B) - Cardinality(A \cap B)
    BY <2>5, <2>6, FS_Union
  <2>10. Cardinality(A \cap B) = 0
    BY ONLY <2>7, FS_EmptySet
  <2> QED
    BY ONLY <1>2, <1>4, <2>5, <2>6, <2>8, <2>9, <2>10
<1>9. data_sectors(f, n) \subseteq Own(f, n, m)
  BY <1>5 DEF Own
<1> QED
  BY <1>3, <1>7, <1>8, <1>9
-----------------------------------------------------------------------------
(***************************************************************************)
(* The files of a set D, each with sectors of its own.                     *)
(***************************************************************************)

NodeIn(f, s) == IF f.inode[s].open_cnt > 0 THEN f.inode[s].node ELSE f.disk[s]
SizeIn(f, s) == bytes_to_sectors(NodeIn(f, s).length)
OwnIn(f, s) == Own(f, NodeIn(f, s), SizeIn(f, s))
Mine(f, s) == {s} \cup OwnIn(f, s)
Kept(f, s) ==
    Holds(f, NodeIn(f, s), SizeIn(f, s)) /\ s \in f.free_map /\ s \notin OwnIn(f, s)
FilesKept(f, D) ==
    /\ D \subseteq Sector /\ \A s \in D : Kept(f, s)
    /\ \A s, t \in D : s # t => Mine(f, s) \cap Mine(f, t) = {}

\* A step from f to h leaves file t alone.
Untouched(f, h, t) ==
    /\ NodeIn(h, t) = NodeIn(f, t)
    /\ \A u \in Mine(f, t) : u \in h.free_map /\ h.block[u] = f.block[u] /\ h.data[u] = f.data[u]

\* A step from f to h that is about openers only.
Alike(f, h) ==
    /\ h.free_map = f.free_map /\ h.block = f.block /\ h.data = f.data /\ h.fault = f.fault
    /\ \A t \in Sector : NodeIn(h, t) = NodeIn(f, t)

LEMMA NodeInType ==
    ASSUME NEW f \in FileSystem, NEW s \in Sector
    PROVE  NodeIn(f, s) \in Node /\ SizeIn(f, s) \in Nat /\ f.inode[s] \in Inode /\ f.disk[s] \in Node
<1>1. f.inode[s] \in Inode /\ f.disk[s] \in Node
  BY DEF FileSystem
<1>2. NodeIn(f, s) \in Node
  BY <1>1 DEF NodeIn, Inode
<1>3. NodeIn(f, s).length \in Nat
  BY <1>2 DEF Node
<1> QED
  BY <1>1, <1>2, <1>3, SectorsOf DEF SizeIn

\* What a node reaches depends on the pointer blocks it owns.
LEMMA SameBlocks ==
    ASSUME NEW f \in FileSystem, NEW h \in FileSystem, NEW n \in Node, NEW m \in Nat, Filled(n, m),
           \A i \in DIRECT .. m - 1 : h.block[n.ptrs[Behind(i)]] = f.block[n.ptrs[Behind(i)]]
    PROVE  /\ \A i \in 0 .. m - 1 : data_sector(h, n, i) = data_sector(f, n, i)
           /\ Own(h, n, m) = Own(f, n, m) /\ (Apart(f, n, m) => Apart(h, n, m))
<1>1. DIRECT \in Nat
  BY Constants
<1>2. ASSUME NEW i \in 0 .. m - 1 PROVE data_sector(h, n, i) = data_sector(f, n, i)
  <2>1. CASE i < DIRECT
    BY <2>1 DEF data_sector
  <2>2. CASE i >= DIRECT
    <3>1. /\ data_sector(h, n, i) = h.block[n.ptrs[Behind(i)]][Offset(i)]
          /\ data_sector(f, n, i) = f.block[n.ptrs[Behind(i)]][Offset(i)]
      BY <2>2, DataSector
    <3>2. i \in DIRECT .. m - 1
      BY <1>1, <2>2
    <3> QED
      BY <3>1, <3>2
  <2> QED
    BY <1>1, <2>1, <2>2
<1>3. Own(h, n, m) = Own(f, n, m)
  BY <1>2 DEF Own
<1>4. Apart(f, n, m) => Apart(h, n, m)
  BY <1>2 DEF Apart
<1> QED
  BY <1>2, <1>3, <1>4

LEMMA Undisturbed ==
    ASSUME NEW f \in FileSystem, NEW h \in FileSystem, NEW t \in Sector, Kept(f, t), Untouched(f, h, t)
    PROVE  /\ Kept(h, t) /\ Mine(h, t) = Mine(f, t) /\ NodeIn(h, t) = NodeIn(f, t) /\ SizeIn(h, t) = SizeIn(f, t)
           /\ \A i \in 0 .. SizeIn(f, t) - 1 :
                 data_sector(h, NodeIn(h, t), i) = data_sector(f, NodeIn(f, t), i)
<1>1. PICK n \in Node : n = NodeIn(f, t)
  BY NodeInType
<1>2. PICK m \in Nat : m = SizeIn(f, t)
  BY NodeInType
<1>3. NodeIn(h, t) = n /\ SizeIn(h, t) = m
  BY <1>1, <1>2 DEF Untouched, SizeIn
<1>4. Filled(n, m) /\ Apart(f, n, m) /\ Own(f, n, m) \subseteq f.free_map /\ t \in f.free_map /\ t \notin Own(f, n, m)
  BY <1>1, <1>2 DEF Kept, Holds, OwnIn
<1>5. \A u \in {t} \cup Own(f, n, m) : u \in h.free_map /\ h.block[u] = f.block[u]
  BY <1>1, <1>2 DEF Untouched, Mine, OwnIn
<1>6. \A i \in DIRECT .. m - 1 : h.block[n.ptrs[Behind(i)]] = f.block[n.ptrs[Behind(i)]]
  BY <1>5 DEF Own
<1>7. /\ \A i \in 0 .. m - 1 : data_sector(h, n, i) = data_sector(f, n, i)
      /\ Own(h, n, m) = Own(f, n, m) /\ Apart(h, n, m)
  BY ONLY <1>4, <1>6, SameBlocks, f \in FileSystem, h \in FileSystem, n \in Node, m \in Nat
<1>8. Holds(h, n, m) /\ t \in h.free_map /\ t \notin Own(h, n, m)
  BY ONLY <1>4, <1>5, <1>7 DEF Holds
<1>9. Kept(h, t) /\ Mine(h, t) = Mine(f, t)
  BY ONLY <1>1, <1>2, <1>3, <1>7, <1>8 DEF Kept, Mine, OwnIn
<1> QED
  BY <1>1, <1>2, <1>3, <1>7, <1>9

LEMMA FilesStay ==
    ASSUME NEW f \in FileSystem, NEW h \in FileSystem, NEW D, FilesKept(f, D), NEW E, E \subseteq D,
           \A t \in E : Untouched(f, h, t)
    PROVE  FilesKept(h, E) /\ \A t \in E : Mine(h, t) = Mine(f, t)
<1>1. ASSUME NEW t \in E PROVE Kept(h, t) /\ Mine(h, t) = Mine(f, t) /\ t \in Sector /\ t \in D
  <2>1. t \in Sector /\ Kept(f, t) /\ Untouched(f, h, t)
    BY DEF FilesKept
  <2> QED
    BY <2>1, Undisturbed
<1> QED
  BY <1>1 DEF FilesKept

LEMMA FileAdded ==
    ASSUME NEW h, NEW E, FilesKept(h, E), NEW s \in Sector, Kept(h, s),
           \A t \in E : t # s => Mine(h, t) \cap Mine(h, s) = {}
    PROVE  FilesKept(h, E \cup {s})
  BY DEF FilesKept

LEMMA AlikeStays ==
    ASSUME NEW f \in FileSystem, NEW h \in FileSystem, Alike(f, h), NEW D, FilesKept(f, D)
    PROVE  FilesKept(h, D) /\ \A t \in D : Untouched(f, h, t) /\ Mine(h, t) = Mine(f, t)
<1>1. ASSUME NEW t \in D PROVE Untouched(f, h, t)
  <2>1. t \in Sector /\ t \in f.free_map /\ OwnIn(f, t) \subseteq f.free_map
    BY DEF FilesKept, Kept, Holds, OwnIn
  <2> QED
    BY <2>1 DEF Alike, Untouched, Mine
<1> QED
  BY <1>1, FilesStay

LEMMA OpenedFile ==
    ASSUME NEW f \in FileSystem, NEW s \in Sector, NEW h, h = inode_open(f, s)
    PROVE  /\ h \in FileSystem /\ Alike(f, h) /\ h.cached = f.cached /\ h.disk = f.disk
           /\ \A t \in Sector : t # s => h.inode[t] = f.inode[t]
           /\ h.inode[s].open_cnt = f.inode[s].open_cnt + 1 /\ h.inode[s].node = NodeIn(f, s)
           /\ f.inode[s].open_cnt > 0 => /\ h.inode[s].removed = f.inode[s].removed
                                         /\ h.inode[s].deny_write_cnt = f.inode[s].deny_write_cnt
                                         /\ h.inode[s].read_length = f.inode[s].read_length
           /\ ~ (f.inode[s].open_cnt > 0) => /\ ~ h.inode[s].removed /\ h.inode[s].deny_write_cnt = 0
                                             /\ h.inode[s].read_length = NodeIn(f, s).length
<1>1. PICK i \in Inode : i = f.inode[s]
  BY NodeInType
<1>2. PICK d \in Node : d = f.disk[s]
  BY NodeInType
<1>3. PICK j : j = IF i.open_cnt > 0 THEN [i EXCEPT !.open_cnt = @ + 1]
                   ELSE [open_cnt |-> 1, removed |-> FALSE, deny_write_cnt |-> 0, read_length |-> d.length, node |-> d]
  OBVIOUS
<1>4. PICK ino : ino = [f.inode EXCEPT ![s] = j]
  OBVIOUS
<1>5. h = [f EXCEPT !.inode = ino]
  <2>1. PICK e : e = IF f.inode[s].open_cnt > 0 THEN [f.inode[s] EXCEPT !.open_cnt = @ + 1]
                     ELSE [open_cnt |-> 1, removed |-> FALSE, deny_write_cnt |-> 0,
                           read_length |-> f.disk[s].length, node |-> f.disk[s]]
    OBVIOUS
  <2>2. e = j
    BY ONLY <1>1, <1>2, <1>3, <2>1
  <2>3. h = [f EXCEPT !.inode[s] = e]
    <3>1. h = [f EXCEPT !.inode[s] = IF f.inode[s].open_cnt > 0 THEN [f.inode[s] EXCEPT !.open_cnt = @ + 1]
                                     ELSE [open_cnt |-> 1, removed |-> FALSE, deny_write_cnt |-> 0,
                                           read_length |-> f.disk[s].length, node |-> f.disk[s]]]
      BY h = inode_open(f, s) DEF inode_open
    <3> QED
      BY ONLY <2>1, <3>1
  <2> QED
    BY ONLY <1>4, <2>2, <2>3, f \in FileSystem DEF FileSystem
<1>6. /\ j \in Inode /\ j.open_cnt = i.open_cnt + 1 /\ j.open_cnt > 0
      /\ IF i.open_cnt > 0
         THEN /\ j.removed = i.removed /\ j.deny_write_cnt = i.deny_write_cnt
              /\ j.read_length = i.read_length /\ j.node = i.node
         ELSE /\ j.removed = FALSE /\ j.deny_write_cnt = 0
              /\ j.read_length = d.length /\ j.node = d
  <2>1. CASE i.open_cnt > 0
    <3>1. j = [open_cnt |-> i.open_cnt + 1, removed |-> i.removed, deny_write_cnt |-> i.deny_write_cnt,
               read_length |-> i.read_length, node |-> i.node]
      BY ONLY <1>3, <2>1, i \in Inode DEF Inode
    <3> QED
      BY ONLY <2>1, <3>1, i \in Inode DEF Inode
  <2>2. CASE ~ (i.open_cnt > 0)
    <3>1. i.open_cnt \in Nat /\ d.length \in Nat
      BY ONLY i \in Inode, d \in Node DEF Inode, Node
    <3>2. j = [open_cnt |-> 1, removed |-> FALSE, deny_write_cnt |-> 0, read_length |-> d.length, node |-> d]
      BY ONLY <1>3, <2>2
    <3> QED
      BY ONLY <2>2, <3>1, <3>2, d \in Node DEF Inode
  <2> QED
    BY <2>1, <2>2
<1>7. f.inode \in [Sector -> Inode]
  BY DEF FileSystem
<1>8. ino \in [Sector -> Inode] /\ ino[s] = j /\ \A t \in Sector : t # s => ino[t] = f.inode[t]
  BY ONLY <1>4, <1>6, <1>7, s \in Sector
<1>9. /\ h \in FileSystem /\ h.free_map = f.free_map /\ h.block = f.block /\ h.data = f.data
      /\ h.fault = f.fault /\ h.cached = f.cached /\ h.disk = f.disk /\ h.inode = ino
  BY ONLY <1>5, <1>8, f \in FileSystem DEF FileSystem
<1>10. \A t \in Sector : NodeIn(h, t) = NodeIn(f, t)
  BY ONLY <1>1, <1>2, <1>6, <1>8, <1>9 DEF NodeIn
<1>11. h.inode[s].node = NodeIn(f, s)
  BY ONLY <1>1, <1>2, <1>6, <1>8, <1>9 DEF NodeIn
<1>12. Alike(f, h)
  BY ONLY <1>9, <1>10 DEF Alike
<1>13. i.open_cnt <= 0 => d = NodeIn(f, s)
  <2>1. i.open_cnt <= 0 => ~ (i.open_cnt > 0)
    BY DEF Inode
  <2> QED
    BY ONLY <1>1, <1>2, <2>1 DEF NodeIn
<1>14. i.open_cnt \in Nat
  BY DEF Inode
<1> QED
  BY ONLY <1>1, <1>6, <1>8, <1>9, <1>11, <1>12, <1>13, <1>14

LEMMA Released ==
    ASSUME NEW f \in FileSystem, NEW S, S \subseteq f.free_map, NEW h, h = free_map_release(f, S)
    PROVE  /\ h \in FileSystem /\ h.fault = f.fault /\ h.free_map = f.free_map \ S /\ h.inode = f.inode
           /\ h.cached = f.cached
           /\ \A t \in Sector \ S : h.disk[t] = f.disk[t] /\ h.block[t] = f.block[t] /\ h.data[t] = f.data[t]
<1>1. PICK dk : dk = [s \in Sector |-> IF s \in S THEN NoNode ELSE f.disk[s]]
  OBVIOUS
<1>2. PICK bl : bl = [s \in Sector |-> IF s \in S THEN NoBlock ELSE f.block[s]]
  OBVIOUS
<1>3. PICK da : da = [s \in Sector |-> IF s \in S THEN ZeroData ELSE f.data[s]]
  OBVIOUS
<1>4. h = [f EXCEPT !.free_map = @ \ S, !.disk = dk, !.block = bl, !.data = da]
  BY <1>1, <1>2, <1>3 DEF free_map_release
<1>5. /\ dk \in [Sector -> Node] /\ bl \in [Sector -> PointerBlock]
      /\ da \in [Sector -> [0 .. UNIT - 1 -> Unit]]
  <2>1. dk \in [Sector -> Node]
    BY <1>1, ZeroTyped DEF FileSystem
  <2>2. bl \in [Sector -> PointerBlock]
    BY <1>2, ZeroTyped DEF FileSystem
  <2>3. da \in [Sector -> [0 .. UNIT - 1 -> Unit]]
    BY <1>3, ZeroTyped DEF FileSystem
  <2> QED
    BY <2>1, <2>2, <2>3
<1>6. /\ h \in FileSystem /\ h.fault = f.fault /\ h.free_map = f.free_map \ S /\ h.inode = f.inode
      /\ h.cached = f.cached /\ h.disk = dk /\ h.block = bl /\ h.data = da
  BY ONLY <1>4, <1>5, f \in FileSystem DEF FileSystem
<1> QED
  BY ONLY <1>1, <1>2, <1>3, <1>6

\* inode_close that leaves the file.
LEMMA ShutFile ==
    ASSUME NEW f \in FileSystem, NEW s \in Sector, f.inode[s].open_cnt > 0,
           f.inode[s].open_cnt = 1 => ~ f.inode[s].removed, NEW h, h = inode_close(f, s)
    PROVE  /\ h \in FileSystem /\ Alike(f, h) /\ h.cached = f.cached
           /\ \A t \in Sector : t # s => h.inode[t] = f.inode[t]
           /\ h.inode[s].open_cnt = f.inode[s].open_cnt - 1
           /\ h.inode[s].open_cnt > 0 => /\ h.inode[s].removed = f.inode[s].removed
                                         /\ h.inode[s].deny_write_cnt = f.inode[s].deny_write_cnt
                                         /\ h.inode[s].read_length = f.inode[s].read_length
                                         /\ h.inode[s].node = f.inode[s].node
<1>1. PICK i \in Inode : i = f.inode[s]
  BY NodeInType
<1>2. i.open_cnt \in Nat /\ i.open_cnt > 0 /\ i.node \in Node
  BY <1>1 DEF Inode
<1>3. PICK j : j = IF i.open_cnt = 1 THEN Closed ELSE [i EXCEPT !.open_cnt = @ - 1]
  OBVIOUS
<1>4. PICK ino : ino = [f.inode EXCEPT ![s] = j]
  OBVIOUS
<1>5. PICK dk : dk = IF i.open_cnt = 1 THEN [f.disk EXCEPT ![s] = i.node] ELSE f.disk
  OBVIOUS
<1>6. h = [f EXCEPT !.inode = ino, !.disk = dk]
  <2>1. CASE i.open_cnt = 1
    <3>1. ~ f.inode[s].removed /\ f.inode[s].open_cnt = 1
      BY <1>1, <2>1
    <3> QED
      BY <1>1, <1>3, <1>4, <1>5, <2>1, <3>1 DEF inode_close, last_opener
  <2>2. CASE i.open_cnt # 1
    <3>1. h = [f EXCEPT !.inode[s].open_cnt = @ - 1]
      BY <1>1, <2>2 DEF inode_close, last_opener
    <3>2. h = [f EXCEPT !.inode = ino]
      BY <1>1, <1>3, <1>4, <2>2, <3>1 DEF FileSystem
    <3> QED
      BY ONLY <1>5, <2>2, <3>2, f \in FileSystem DEF FileSystem
  <2> QED
    BY <2>1, <2>2
<1>7. /\ j \in Inode /\ j.open_cnt = i.open_cnt - 1
      /\ i.open_cnt # 1 => /\ j.removed = i.removed /\ j.deny_write_cnt = i.deny_write_cnt
                           /\ j.read_length = i.read_length /\ j.node = i.node
  <2>1. CASE i.open_cnt = 1
    BY <1>3, <2>1, ZeroTyped DEF Closed
  <2>2. CASE i.open_cnt # 1
    <3>1. j = [open_cnt |-> i.open_cnt - 1, removed |-> i.removed, deny_write_cnt |-> i.deny_write_cnt,
               read_length |-> i.read_length, node |-> i.node]
      BY ONLY <1>3, <2>2, i \in Inode DEF Inode
    <3> QED
      BY ONLY <1>2, <2>2, <3>1, i \in Inode DEF Inode
  <2> QED
    BY <2>1, <2>2
<1>8. f.inode \in [Sector -> Inode] /\ f.disk \in [Sector -> Node]
  BY DEF FileSystem
<1>9. ino \in [Sector -> Inode] /\ ino[s] = j /\ \A t \in Sector : t # s => ino[t] = f.inode[t]
  BY ONLY <1>4, <1>7, <1>8, s \in Sector
<1>10. /\ dk \in [Sector -> Node] /\ \A t \in Sector : t # s => dk[t] = f.disk[t]
       /\ i.open_cnt = 1 => dk[s] = i.node
  BY ONLY <1>2, <1>5, <1>8, s \in Sector
<1>11. /\ h \in FileSystem /\ h.free_map = f.free_map /\ h.block = f.block /\ h.data = f.data
       /\ h.fault = f.fault /\ h.cached = f.cached /\ h.disk = dk /\ h.inode = ino
  BY ONLY <1>6, <1>9, <1>10, f \in FileSystem DEF FileSystem
<1>12. \A t \in Sector : NodeIn(h, t) = NodeIn(f, t)
  BY ONLY <1>1, <1>2, <1>7, <1>9, <1>10, <1>11 DEF NodeIn
<1>13. Alike(f, h)
  BY ONLY <1>11, <1>12 DEF Alike
<1> QED
  BY ONLY <1>1, <1>2, <1>7, <1>9, <1>11, <1>13

\* inode_close of the last opener of a removed file.
LEMMA FreedFile ==
    ASSUME NEW f \in FileSystem, NEW D, FilesKept(f, D), NEW s \in D, f.inode[s].open_cnt = 1,
           f.inode[s].removed, NEW h, h = inode_close(f, s)
    PROVE  /\ h \in FileSystem /\ h.fault = f.fault /\ FilesKept(h, D \ {s})
           /\ \A t \in D \ {s} : Untouched(f, h, t) /\ Mine(h, t) = Mine(f, t)
           /\ \A t \in Sector : t # s => h.inode[t] = f.inode[t]
           /\ h.inode[s].open_cnt = 0
<1>1. s \in Sector /\ Kept(f, s)
  BY DEF FilesKept
<1>2. PICK n \in Node : n = f.inode[s].node /\ n = NodeIn(f, s)
  BY <1>1, NodeInType DEF NodeIn
<1>3. PICK m \in Nat : m = SizeIn(f, s) /\ m = bytes_to_sectors(n.length)
  BY <1>1, <1>2, NodeInType DEF SizeIn
<1>4. Filled(n, m) /\ Apart(f, n, m) /\ Own(f, n, m) \subseteq f.free_map /\ s \in f.free_map /\ s \notin Own(f, n, m)
  BY <1>1, <1>2, <1>3 DEF Kept, Holds, OwnIn
<1>5. PICK ino : ino = [f.inode EXCEPT ![s] = Closed]
  OBVIOUS
<1>6. PICK f0 : f0 = [f EXCEPT !.inode = ino]
  OBVIOUS
<1>7. ino \in [Sector -> Inode] /\ ino[s] = Closed /\ \A t \in Sector : t # s => ino[t] = f.inode[t]
  <2>1. f.inode \in [Sector -> Inode]
    BY DEF FileSystem
  <2> QED
    BY ONLY <1>1, <1>5, <2>1, ZeroTyped
<1>8. /\ f0 \in FileSystem /\ f0.free_map = f.free_map /\ f0.block = f.block /\ f0.data = f.data
      /\ f0.fault = f.fault /\ f0.disk = f.disk /\ f0.inode = ino
  BY ONLY <1>6, <1>7, f \in FileSystem DEF FileSystem
<1>9. PICK f1 : f1 = free_map_release(f0, {s})
  OBVIOUS
<1>10. /\ f1 \in FileSystem /\ f1.fault = f0.fault /\ f1.free_map = f0.free_map \ {s} /\ f1.inode = f0.inode
       /\ \A t \in Sector \ {s} : f1.disk[t] = f0.disk[t] /\ f1.block[t] = f0.block[t] /\ f1.data[t] = f0.data[t]
  <2>1. {s} \subseteq f0.free_map
    BY <1>4, <1>8
  <2> QED
    BY ONLY <1>8, <1>9, <2>1, Released
<1>11. Own(f1, n, m) = Own(f, n, m)
  <2>1. \A i \in DIRECT .. m - 1 : n.ptrs[Behind(i)] \in Own(f, n, m)
    BY DEF Own
  <2>2. Own(f, n, m) \subseteq Sector
    BY <1>4, OwnSectors
  <2>3. \A i \in DIRECT .. m - 1 : f1.block[n.ptrs[Behind(i)]] = f.block[n.ptrs[Behind(i)]]
    BY <1>4, <1>8, <1>10, <2>1, <2>2
  <2> QED
    BY ONLY <1>4, <1>10, <2>3, SameBlocks, f \in FileSystem, n \in Node, m \in Nat
<1>12. node_sectors(f1, n) = Own(f, n, m) /\ data_sectors(f1, n) \subseteq Own(f, n, m)
  BY ONLY <1>3, <1>4, <1>10, <1>11, NodeSectors, n \in Node
<1>13. PICK f2 : f2 = free_map_release(f1, Own(f, n, m))
  OBVIOUS
<1>14. /\ f2 \in FileSystem /\ f2.fault = f1.fault /\ f2.free_map = f1.free_map \ Own(f, n, m) /\ f2.inode = f1.inode
       /\ \A t \in Sector \ Own(f, n, m) :
             f2.disk[t] = f1.disk[t] /\ f2.block[t] = f1.block[t] /\ f2.data[t] = f1.data[t]
  <2>1. Own(f, n, m) \subseteq f1.free_map
    BY <1>4, <1>8, <1>10
  <2> QED
    BY ONLY <1>10, <1>13, <2>1, Released
<1>15. PICK ca : ca = f2.cached \cup {t \in data_sectors(f1, n) : f1.data[t] # ZeroData}
  OBVIOUS
<1>16. h = [f2 EXCEPT !.cached = ca]
  <2>1. h = inode_deallocate(f1, n)
    BY <1>2, <1>5, <1>6, <1>9 DEF inode_close, last_opener
  <2> QED
    BY <1>12, <1>13, <1>15, <2>1 DEF inode_deallocate
<1>17. /\ h \in FileSystem /\ h.fault = f2.fault /\ h.free_map = f2.free_map /\ h.inode = f2.inode
       /\ h.disk = f2.disk /\ h.block = f2.block /\ h.data = f2.data
  <2>1. ca \subseteq Sector
    <3>1. f.free_map \subseteq Sector /\ f2.cached \subseteq Sector
      BY <1>14 DEF FileSystem
    <3> QED
      BY <1>4, <1>12, <1>15, <3>1
  <2>2. f2 \in FileSystem
    BY <1>14
  <2> QED
    BY ONLY <1>16, <2>1, <2>2 DEF FileSystem
<1>18. PICK M : M = {s} \cup Own(f, n, m)
  OBVIOUS
<1>19. M = Mine(f, s)
  BY <1>2, <1>3, <1>18 DEF Mine, OwnIn
<1>20. /\ h.fault = f.fault /\ h.free_map = f.free_map \ M /\ h.inode = ino
       /\ \A t \in Sector \ M : h.disk[t] = f.disk[t] /\ h.block[t] = f.block[t] /\ h.data[t] = f.data[t]
  BY ONLY <1>8, <1>10, <1>14, <1>17, <1>18
<1>21. ASSUME NEW t \in D \ {s} PROVE Untouched(f, h, t)
  <2>1. t \in Sector /\ Mine(f, t) \cap M = {} /\ t \in Mine(f, t) /\ Kept(f, t)
    BY <1>19 DEF FilesKept, Mine
  <2>2. Mine(f, t) \subseteq f.free_map /\ f.free_map \subseteq Sector
    BY <2>1 DEF Kept, Mine, OwnIn, Holds, FileSystem
  <2>3. NodeIn(h, t) = NodeIn(f, t)
    BY <1>7, <1>20, <2>1 DEF NodeIn
  <2>4. \A u \in Mine(f, t) : u \in h.free_map /\ h.block[u] = f.block[u] /\ h.data[u] = f.data[u]
    BY ONLY <1>20, <2>1, <2>2
  <2> QED
    BY <2>3, <2>4 DEF Untouched
<1>22. FilesKept(h, D \ {s}) /\ \A t \in D \ {s} : Mine(h, t) = Mine(f, t)
  BY <1>17, <1>21, FilesStay
<1> QED
  BY ONLY <1>7, <1>17, <1>20, <1>21, <1>22 DEF Closed
-----------------------------------------------------------------------------
(***************************************************************************)
(* Writing.                                                                *)
(***************************************************************************)

LEMMA MaxIn ==
    ASSUME NEW a \in Nat, NEW b \in Nat, NEW K, K \subseteq a .. b - 1, K # {}
    PROVE  Max(K) \in K
<1>1. PICK N : N = {j \in 0 .. b : b - j \in K}
  OBVIOUS
<1>2. N \subseteq Nat /\ N # {}
  <2>1. PICK k \in K : TRUE
    OBVIOUS
  <2>2. b - k \in 0 .. b /\ b - (b - k) = k
    BY <2>1
  <2>3. b - k \in N
    BY ONLY <1>1, <2>1, <2>2
  <2>4. N \subseteq Nat
    BY ONLY <1>1, b \in Nat
  <2> QED
    BY ONLY <2>3, <2>4
<1>3. PICK j \in N : \A y \in N : j <= y
  BY ONLY <1>2, LeastNumber
<1>4. b - j \in K /\ j \in Nat
  BY <1>1
<1>5. ASSUME NEW y \in K PROVE b - j >= y
  <2>1. b - y \in 0 .. b /\ b - (b - y) = y
    OBVIOUS
  <2>2. b - y \in N
    BY ONLY <1>1, <2>1, <1>5
  <2> QED
    BY <1>3, <1>4, <2>1, <2>2
<1>6. \E x \in K : \A y \in K : x >= y
  BY <1>4, <1>5
<1> QED
  BY <1>6 DEF Max

LEMMA PlacedType ==
    ASSUME NEW f \in FileSystem, NEW n \in Node, NEW buf \in Seq(Unit), NEW offset \in Nat
    PROVE  /\ Placed(f, n, buf, offset) \in [Sector -> [0 .. UNIT - 1 -> Unit]]
           /\ \A t \in Sector :
                 (\A k \in offset .. offset + Len(buf) - 1 : byte_to_sector(f, n, k) # t) =>
                    Placed(f, n, buf, offset)[t] = f.data[t]
<1>1. PICK d : d = Placed(f, n, buf, offset)
  OBVIOUS
<1>2. f.data \in [Sector -> [0 .. UNIT - 1 -> Unit]]
  BY DEF FileSystem
<1>3. Len(buf) \in Nat /\ \A j \in 1 .. Len(buf) : buf[j] \in Unit
  BY LenProperties, ElementOfSeq
<1>4. \A t \in Sector : d[t] = [u \in 0 .. UNIT - 1 |->
          IF Hits(f, n, buf, offset, t, u) = {} THEN f.data[t][u]
          ELSE buf[Max(Hits(f, n, buf, offset, t, u)) - offset + 1]]
  BY <1>1 DEF Placed
<1>5. ASSUME NEW t \in Sector, NEW u \in 0 .. UNIT - 1
      PROVE  /\ d[t][u] = IF Hits(f, n, buf, offset, t, u) = {} THEN f.data[t][u]
                          ELSE buf[Max(Hits(f, n, buf, offset, t, u)) - offset + 1]
             /\ d[t][u] \in Unit
  <2>1. d[t][u] = IF Hits(f, n, buf, offset, t, u) = {} THEN f.data[t][u]
                  ELSE buf[Max(Hits(f, n, buf, offset, t, u)) - offset + 1]
    <3>1. d[t] = [v \in 0 .. UNIT - 1 |->
                     IF Hits(f, n, buf, offset, t, v) = {} THEN f.data[t][v]
                     ELSE buf[Max(Hits(f, n, buf, offset, t, v)) - offset + 1]]
      BY <1>4
    <3> QED
      BY ONLY <3>1, u \in 0 .. UNIT - 1
  <2>2. f.data[t][u] \in Unit
    BY <1>2
  <2>3. PICK K : K = Hits(f, n, buf, offset, t, u)
    OBVIOUS
  <2>4. ASSUME K # {} PROVE buf[Max(K) - offset + 1] \in Unit
    <3>1. PICK b \in Nat : b = offset + Len(buf)
      BY <1>3
    <3>2. K \subseteq offset .. b - 1
      BY <2>3, <3>1 DEF Hits
    <3>3. Max(K) \in K
      BY ONLY <2>4, <3>2, MaxIn, offset \in Nat, b \in Nat
    <3>4. PICK x \in K : x = Max(K)
      BY <3>3
    <3>5. x \in offset .. b - 1
      BY <3>2
    <3>6. x - offset + 1 \in 1 .. Len(buf)
      BY ONLY <1>3, <3>1, <3>5, offset \in Nat, b \in Nat
    <3> QED
      BY ONLY <1>3, <3>4, <3>6
  <2> QED
    BY <2>1, <2>2, <2>3, <2>4
<1>6. \A t \in Sector : d[t] \in [0 .. UNIT - 1 -> Unit]
  BY <1>4, <1>5
<1>7. d \in [Sector -> [0 .. UNIT - 1 -> Unit]]
  <2>1. DOMAIN d = Sector /\ d = [t \in Sector |-> d[t]]
    BY <1>1 DEF Placed
  <2> QED
    BY <1>6, <2>1
<1>8. ASSUME NEW t \in Sector, \A k \in offset .. offset + Len(buf) - 1 : byte_to_sector(f, n, k) # t
      PROVE  d[t] = f.data[t]
  <2>1. \A u \in 0 .. UNIT - 1 : d[t][u] = f.data[t][u]
    BY <1>5, <1>8 DEF Hits
  <2>2. d[t] \in [0 .. UNIT - 1 -> Unit]
    BY <1>6
  <2>3. f.data[t] \in [0 .. UNIT - 1 -> Unit]
    BY <1>2
  <2>4. d[t] = [u \in 0 .. UNIT - 1 |-> d[t][u]]
    BY ONLY <2>2
  <2>5. f.data[t] = [u \in 0 .. UNIT - 1 |-> f.data[t][u]]
    BY ONLY <2>3
  <2> QED
    BY ONLY <2>1, <2>4, <2>5
<1> QED
  BY <1>1, <1>7, <1>8

\* What inode_write_at makes of f: the file is grown to e and p first.
Rewritten(f, n, m, h, s, k, L, buf, offset, e, p) ==
    /\ GrownTo(f, n, m, e, p, k) /\ p.length = L
    /\ h.free_map = e.free_map /\ h.block = e.block /\ h.disk = f.disk /\ h.cached = f.cached
    /\ h.data = Placed(e, p, buf, offset)
    /\ h.inode[s].node = p /\ h.inode[s].read_length = L

LEMMA WriteShape ==
    ASSUME NEW f \in FileSystem, NEW s \in Sector, f.inode[s].open_cnt > 0,
           NEW buf \in Seq(Unit), NEW offset \in Nat,
           NEW n, n = f.inode[s].node, NEW m, m = bytes_to_sectors(n.length),
           f.fault = "none" => Holds(f, n, m),
           NEW L, L = IF offset + Len(buf) > n.length THEN offset + Len(buf) ELSE n.length,
           NEW k, k = bytes_to_sectors(L),
           NEW h, h = inode_write_at(f, s, buf, offset)
    PROVE  /\ h \in FileSystem /\ n \in Node /\ m \in Nat /\ L \in Nat /\ k \in Nat /\ n.length <= L /\ m <= k
           /\ \A t \in Sector : t # s => h.inode[t] = f.inode[t]
           /\ h.inode[s].open_cnt = f.inode[s].open_cnt /\ h.inode[s].removed = f.inode[s].removed
           /\ h.inode[s].deny_write_cnt = f.inode[s].deny_write_cnt
           /\ denied(f.inode[s]) => h = f
           /\ offset + Len(buf) <= n.length => h.fault = f.fault
           /\ ~ denied(f.inode[s]) /\ h.fault = "none" =>
                 /\ f.fault = "none"
                 /\ \E e \in FileSystem, p \in Node : Rewritten(f, n, m, h, s, k, L, buf, offset, e, p)
<1>1. PICK i \in Inode : i = f.inode[s]
  BY NodeInType
<1>2. n \in Node /\ n.length \in Nat /\ n = i.node
  BY <1>1 DEF Inode, Node
<1>3. Len(buf) \in Nat
  BY LenProperties
<1>4. L \in Nat /\ n.length <= L
  BY <1>2, <1>3
<1>5. m \in Nat /\ k \in Nat /\ m <= k
  <2>1. n.length \in Nat
    BY <1>2
  <2>2. m \in Nat /\ m <= k
    BY ONLY <1>4, <2>1, SectorsOf, m = bytes_to_sectors(n.length), k = bytes_to_sectors(L)
  <2>3. L <= L
    BY <1>4
  <2>4. k \in Nat
    BY ONLY <1>4, <2>3, SectorsOf, k = bytes_to_sectors(L)
  <2> QED
    BY <2>2, <2>4
<1>6. PICK g : g = IF offset + Len(buf) > n.length THEN inode_grow(f, n, offset + Len(buf)) ELSE [f |-> f, n |-> n]
  OBVIOUS
<1>7. /\ g \in Growing /\ g.f.inode = f.inode /\ g.n.length = L
      /\ g.f.fault = "none" => f.fault = "none" /\ GrownTo(f, n, m, g.f, g.n, k)
      /\ offset + Len(buf) <= n.length => g.f.fault = f.fault
  <2>1. CASE offset + Len(buf) > n.length
    <3>1. g = inode_grow(f, n, L)
      BY <1>6, <2>1
    <3>2. ~ (offset + Len(buf) <= n.length)
      BY <1>2, <1>3, <2>1
    <3>3. /\ g \in Growing /\ g.f.inode = f.inode /\ g.n.length = L
          /\ g.f.fault = "none" => f.fault = "none" /\ GrownTo(f, n, m, g.f, g.n, k)
      BY ONLY <1>2, <1>4, <3>1, InodeGrown, f \in FileSystem, m = bytes_to_sectors(n.length),
              k = bytes_to_sectors(L), f.fault = "none" => Holds(f, n, m)
    <3> QED
      BY ONLY <3>2, <3>3
  <2>2. CASE ~ (offset + Len(buf) > n.length)
    <3>1. g = [f |-> f, n |-> n] /\ L = n.length /\ k = m
      BY <1>6, <2>2
    <3>2. f.fault = "none" => GrownTo(f, n, m, f, n, m)
      BY <1>5, GrownSame
    <3> QED
      BY <1>2, <3>1, <3>2 DEF Growing
  <2> QED
    BY <2>1, <2>2
<1>8. PICK e \in FileSystem, p \in Node : e = g.f /\ p = g.n /\ p.length = L
  BY <1>7 DEF Growing
<1>9. CASE denied(i)
  <2>1. h = f
    BY <1>1, <1>9 DEF inode_write_at
  <2> QED
    BY <1>1, <1>2, <1>4, <1>5, <1>9, <2>1
<1>10. CASE ~ denied(i) /\ e.fault # "none"
  <2>1. h = e
    BY <1>1, <1>2, <1>6, <1>8, <1>10 DEF inode_write_at
  <2>2. h.inode = f.inode
    BY <1>7, <1>8, <2>1
  <2> QED
    BY <1>1, <1>2, <1>4, <1>5, <1>7, <1>8, <1>10, <2>1, <2>2
<1>11. CASE ~ denied(i) /\ e.fault = "none"
  <2>1. PICK d : d = Placed(e, p, buf, offset)
    OBVIOUS
  <2>2. PICK j : j = [open_cnt |-> i.open_cnt, removed |-> i.removed, deny_write_cnt |-> i.deny_write_cnt,
                      read_length |-> L, node |-> p]
    OBVIOUS
  <2>3. PICK ino : ino = [f.inode EXCEPT ![s] = j]
    OBVIOUS
  <2>4. h = [e EXCEPT !.inode[s].node = p, !.inode[s].read_length = p.length, !.data = d]
    <3>1. h = [g.f EXCEPT !.inode[s].node = g.n, !.inode[s].read_length = g.n.length,
                          !.data = Placed(g.f, g.n, buf, offset)]
      <4>1. g = IF offset + Len(buf) > i.node.length THEN inode_grow(f, i.node, offset + Len(buf))
                ELSE [f |-> f, n |-> i.node]
        BY ONLY <1>2, <1>6
      <4> QED
        BY ONLY <1>1, <1>8, <1>11, <4>1, h = inode_write_at(f, s, buf, offset) DEF inode_write_at
    <3> QED
      BY ONLY <1>8, <2>1, <3>1
  <2>5. e.inode = f.inode /\ f.inode \in [Sector -> Inode]
    BY <1>7, <1>8 DEF FileSystem
  <2>6. h = [e EXCEPT !.inode = ino, !.data = d]
    <3>1. [i EXCEPT !.node = p, !.read_length = L] = j
      <4>1. PICK i1 : i1 = [i EXCEPT !.node = p]
        OBVIOUS
      <4>2. i1 = [open_cnt |-> i.open_cnt, removed |-> i.removed, deny_write_cnt |-> i.deny_write_cnt,
                  read_length |-> i.read_length, node |-> p]
        BY ONLY <4>1, i \in Inode DEF Inode
      <4>3. [i1 EXCEPT !.read_length = L] = j
        BY ONLY <2>2, <4>2
      <4> QED
        BY ONLY <4>1, <4>3
    <3>2. PICK c : c = [e.inode EXCEPT ![s].node = p, ![s].read_length = L]
      OBVIOUS
    <3>3. c = [e.inode EXCEPT ![s] = [e.inode[s] EXCEPT !.node = p, !.read_length = L]]
      BY ONLY <3>2, <2>5, s \in Sector
    <3>4. c = ino
      BY ONLY <1>1, <2>3, <2>5, <3>1, <3>3
    <3>5. h = [e EXCEPT !.inode = c, !.data = d]
      BY ONLY <1>8, <2>4, <3>2, e \in FileSystem DEF FileSystem
    <3> QED
      BY ONLY <3>4, <3>5
  <2>7. j \in Inode
    BY ONLY <1>4, <2>2, i \in Inode, p \in Node DEF Inode
  <2>8. ino \in [Sector -> Inode] /\ ino[s] = j /\ \A t \in Sector : t # s => ino[t] = f.inode[t]
    BY ONLY <2>3, <2>5, <2>7, s \in Sector
  <2>9. d \in [Sector -> [0 .. UNIT - 1 -> Unit]]
    BY <2>1, PlacedType
  <2>10. /\ h \in FileSystem /\ h.free_map = e.free_map /\ h.block = e.block /\ h.data = d
         /\ h.fault = e.fault /\ h.cached = e.cached /\ h.disk = e.disk /\ h.inode = ino
    BY ONLY <2>6, <2>8, <2>9, e \in FileSystem DEF FileSystem
  <2>11. f.fault = "none" /\ GrownTo(f, n, m, e, p, k)
    BY <1>7, <1>8, <1>11
  <2>12. e.disk = f.disk /\ e.cached = f.cached
    BY <2>11 DEF GrownTo, SameNodes
  <2>13. h.inode[s].node = p /\ h.inode[s].read_length = L
    BY ONLY <2>2, <2>8, <2>10
  <2>14. Rewritten(f, n, m, h, s, k, L, buf, offset, e, p)
    BY ONLY <1>8, <2>1, <2>10, <2>11, <2>12, <2>13 DEF Rewritten
  <2>15. /\ h.inode[s].open_cnt = i.open_cnt /\ h.inode[s].removed = i.removed
         /\ h.inode[s].deny_write_cnt = i.deny_write_cnt
    BY ONLY <2>2, <2>8, <2>10
  <2> QED
    BY ONLY <1>1, <1>2, <1>4, <1>5, <1>7, <1>8, <1>11, <2>8, <2>10, <2>11, <2>14, <2>15, e \in FileSystem, p \in Node
<1> QED
  BY <1>9, <1>10, <1>11

\* A unit of a file is in one of its sectors.
LEMMA Reaches ==
    ASSUME NEW q \in Nat, NEW L \in Nat, q < L
    PROVE  q \div UNIT \in 0 .. bytes_to_sectors(L) - 1 /\ q % UNIT \in 0 .. UNIT - 1
<1>1. PICK u \in Nat \ {0} : u = UNIT
  BY Constants
<1>2. PICK x \in Nat : x = L - 1 /\ L \in Nat \ {0} /\ q <= x
  OBVIOUS
<1>3. (L + u - 1) \div u = ((L - 1) \div u) + 1
  BY ONLY <1>2, RoundedUp, u \in Nat \ {0}
<1>4. q \div u \in Nat /\ q % u \in 0 .. u - 1 /\ x \div u \in Nat
  BY ONLY QuotientType, q \in Nat, x \in Nat, u \in Nat \ {0}
<1>5. q \div u <= x \div u
  <2>1. q = x \/ q < x
    BY <1>2
  <2>2. q < x => q \div u < x \div u \/ (q \div u = x \div u /\ q % u < x % u)
    BY ONLY QuotientOrder, q \in Nat, x \in Nat, u \in Nat \ {0}
  <2>3. PICK y \in Nat : y = q \div u
    BY <1>4
  <2>4. PICK z \in Nat : z = x \div u
    BY <1>4
  <2>5. q < x => y < z \/ y = z
    BY ONLY <2>2, <2>3, <2>4
  <2>6. q = x => y = z
    BY ONLY <2>3, <2>4
  <2>7. y <= z
    BY ONLY <2>1, <2>5, <2>6, y \in Nat, z \in Nat
  <2> QED
    BY ONLY <2>3, <2>4, <2>7
<1>6. bytes_to_sectors(L) = (x \div u) + 1
  BY ONLY <1>1, <1>2, <1>3 DEF bytes_to_sectors
<1>7. q \div u \in 0 .. bytes_to_sectors(L) - 1
  BY ONLY <1>4, <1>5, <1>6
<1> QED
  BY ONLY <1>1, <1>4, <1>7

\* Writing to a file keeps its sectors its own and leaves the others alone.
LEMMA Rewrote ==
    ASSUME NEW f \in FileSystem, NEW h \in FileSystem, NEW D, FilesKept(f, D), NEW s \in D,
           h.inode[s].open_cnt > 0, \A t \in Sector : t # s => h.inode[t] = f.inode[t],
           NEW m, m = SizeIn(f, s), NEW L \in Nat, NEW k, k = bytes_to_sectors(L),
           NEW buf \in Seq(Unit), NEW offset \in Nat, offset + Len(buf) <= L,
           NEW e \in FileSystem, NEW p \in Node, Rewritten(f, NodeIn(f, s), m, h, s, k, L, buf, offset, e, p)
    PROVE  /\ FilesKept(h, D) /\ NodeIn(h, s) = p /\ SizeIn(h, s) = k
           /\ \A t \in D : t # s => Untouched(f, h, t) /\ Mine(h, t) = Mine(f, t)
<1>1. PICK n \in Node : n = NodeIn(f, s)
  BY NodeInType DEF FilesKept
<1>2. m \in Nat /\ k \in Nat /\ s \in Sector /\ Len(buf) \in Nat
  <2>1. s \in Sector
    BY DEF FilesKept
  <2>2. m \in Nat
    BY <2>1, NodeInType
  <2>3. L <= L
    OBVIOUS
  <2>4. k \in Nat
    BY ONLY <2>3, SectorsOf, L \in Nat, k = bytes_to_sectors(L)
  <2> QED
    BY <2>1, <2>2, <2>4, LenProperties
<1>3. /\ GrownTo(f, n, m, e, p, k) /\ p.length = L
      /\ h.free_map = e.free_map /\ h.block = e.block /\ h.disk = f.disk
      /\ h.data = Placed(e, p, buf, offset) /\ h.inode[s].node = p
  BY <1>1 DEF Rewritten
<1>4. Holds(f, n, m) /\ s \in f.free_map /\ s \notin Own(f, n, m)
  BY <1>1 DEF FilesKept, Kept, OwnIn
<1>5. Holds(e, p, k)
  BY ONLY <1>3, <1>4, GrownHolds
<1>6. Filled(p, k) /\ Apart(e, p, k) /\ Own(e, p, k) \subseteq e.free_map
  BY <1>5 DEF Holds
<1>7. Own(h, p, k) = Own(e, p, k) /\ Apart(h, p, k)
  BY ONLY <1>2, <1>3, <1>6, SameBlocks, e \in FileSystem, h \in FileSystem, p \in Node
<1>8. NodeIn(h, s) = p /\ SizeIn(h, s) = k
  BY <1>3 DEF NodeIn, SizeIn
<1>9. Own(h, p, k) = Own(f, n, m) \cup (h.free_map \ f.free_map) /\ f.free_map \subseteq h.free_map
  BY <1>3, <1>7 DEF GrownTo
<1>10. Kept(h, s)
  <2>1. s \notin Own(h, p, k) /\ s \in h.free_map
    BY <1>4, <1>9
  <2>2. Holds(h, p, k)
    BY <1>3, <1>6, <1>7 DEF Holds
  <2> QED
    BY <1>8, <2>1, <2>2 DEF Kept, OwnIn
<1>11. \A q \in offset .. offset + Len(buf) - 1 : byte_to_sector(e, p, q) \in Own(e, p, k)
  <2>1. SUFFICES ASSUME NEW q \in offset .. offset + Len(buf) - 1
                 PROVE  byte_to_sector(e, p, q) \in Own(e, p, k)
    OBVIOUS
  <2>2. q \in Nat /\ q < L
    BY <1>2
  <2>3. q \div UNIT \in 0 .. k - 1
    BY ONLY <2>2, Reaches, L \in Nat, k = bytes_to_sectors(L)
  <2> QED
    BY <2>3 DEF byte_to_sector, Own
<1>12. ASSUME NEW t \in D, t # s PROVE Untouched(f, h, t)
  <2>1. Mine(f, t) \subseteq f.free_map /\ f.free_map \subseteq Sector
    BY DEF FilesKept, Kept, Holds, OwnIn, Mine, FileSystem
  <2>2. Mine(f, t) \cap Own(f, n, m) = {}
    BY <1>1, <1>12 DEF FilesKept, Mine, OwnIn
  <2>3. NodeIn(h, t) = NodeIn(f, t)
    BY <1>3, <1>12 DEF NodeIn, FilesKept
  <2>4. ASSUME NEW u \in Mine(f, t) PROVE u \in h.free_map /\ h.block[u] = f.block[u] /\ h.data[u] = f.data[u]
    <3>1. u \in f.free_map /\ u \notin Own(f, n, m) /\ u \in Sector
      BY <2>1, <2>2
    <3>2. u \notin Own(e, p, k)
      BY ONLY <1>3, <3>1 DEF GrownTo
    <3>3. h.data[u] = e.data[u]
      <4>1. \A q \in offset .. offset + Len(buf) - 1 : byte_to_sector(e, p, q) # u
        BY ONLY <1>11, <3>2
      <4> QED
        BY ONLY <1>3, <3>1, <4>1, PlacedType, e \in FileSystem, p \in Node, buf \in Seq(Unit), offset \in Nat
    <3>4. e.data[u] = f.data[u] /\ e.block[u] = f.block[u] /\ u \in e.free_map
      BY ONLY <1>3, <3>1 DEF GrownTo
    <3> QED
      BY ONLY <1>3, <3>3, <3>4
  <2> QED
    BY <2>3, <2>4 DEF Untouched
<1>13. /\ FilesKept(h, D \ {s})
       /\ \A t \in D \ {s} : Mine(h, t) = Mine(f, t)
  <2>1. D \ {s} \subseteq D /\ \A t \in D \ {s} : Untouched(f, h, t)
    BY <1>12
  <2> QED
    BY ONLY <2>1, FilesStay, FilesKept(f, D), f \in FileSystem, h \in FileSystem
<1>14. Mine(h, s) = {s} \cup Own(f, n, m) \cup (h.free_map \ f.free_map)
  BY ONLY <1>8, <1>9 DEF Mine, OwnIn
<1>15. ASSUME NEW t \in D \ {s} PROVE Mine(h, t) \cap Mine(h, s) = {}
  <2>1. Mine(h, t) = Mine(f, t)
    BY <1>13
  <2>2. Mine(f, t) \subseteq f.free_map
    BY DEF FilesKept, Kept, Holds, OwnIn, Mine
  <2>3. Mine(f, t) \cap ({s} \cup Own(f, n, m)) = {}
    BY <1>1 DEF FilesKept, Mine, OwnIn
  <2> QED
    BY ONLY <1>14, <2>1, <2>2, <2>3
<1>16. FilesKept(h, D)
  <2>1. (D \ {s}) \cup {s} = D
    OBVIOUS
  <2>2. FilesKept(h, (D \ {s}) \cup {s})
    BY ONLY <1>2, <1>10, <1>13, <1>15, FileAdded
  <2> QED
    BY <2>1, <2>2
<1> QED
  BY <1>8, <1>12, <1>13, <1>16

\* Unit q of file s.
UnitAt(f, s, q) == f.data[data_sector(f, NodeIn(f, s), q \div UNIT)][q % UNIT]

\* A file that is left alone has the contents it had.
LEMMA SameUnits ==
    ASSUME NEW f \in FileSystem, NEW h \in FileSystem, NEW t \in Sector, Kept(f, t), Untouched(f, h, t),
           NEW q \in Nat, q < NodeIn(f, t).length
    PROVE  UnitAt(h, t, q) = UnitAt(f, t, q)
<1>1. PICK n \in Node : n = NodeIn(f, t) /\ n.length \in Nat
  BY NodeInType DEF Node
<1>2. PICK x : x = q \div UNIT
  OBVIOUS
<1>3. x \in 0 .. SizeIn(f, t) - 1
  BY <1>1, <1>2, Reaches DEF SizeIn
<1>4. data_sector(h, NodeIn(h, t), x) = data_sector(f, n, x) /\ NodeIn(h, t) = n
  BY <1>1, <1>3, Undisturbed
<1>5. data_sector(f, n, x) \in Mine(f, t)
  BY <1>1, <1>3 DEF Mine, OwnIn, Own
<1>6. h.data[data_sector(f, n, x)] = f.data[data_sector(f, n, x)]
  BY <1>5 DEF Untouched
<1> QED
  BY <1>1, <1>2, <1>4, <1>6 DEF UnitAt

-----------------------------------------------------------------------------
(***************************************************************************)
(* Contents.  To the reader a file is its length and a unit at every       *)
(* position: the one in its sector, or a zero where it has no sector.      *)
(***************************************************************************)

PaddedAt(f, s, q) == IF q \div UNIT < SizeIn(f, s) THEN UnitAt(f, s, q) ELSE Zero

\* Nothing is left in the last sector of a file past its end.
Blank(f, s) == \A q \in Nat : q >= NodeIn(f, s).length => PaddedAt(f, s, q) = Zero

\* File t of h is as long as it was in f, and says the same.
SameFile(f, h, t) ==
    /\ NodeIn(h, t).length = NodeIn(f, t).length
    /\ \A q \in Nat : PaddedAt(h, t, q) = PaddedAt(f, t, q)

LEMMA UnitPlace ==
    ASSUME NEW q \in Nat
    PROVE  q \div UNIT \in Nat /\ q % UNIT \in 0 .. UNIT - 1
BY Constants, QuotientType

LEMMA PaddedInside ==
    ASSUME NEW f \in FileSystem, NEW s \in Sector, NEW q \in Nat, q < NodeIn(f, s).length
    PROVE  PaddedAt(f, s, q) = UnitAt(f, s, q)
<1>1. PICK l \in Nat : l = NodeIn(f, s).length
  BY NodeInType DEF Node
<1>2. q \div UNIT \in 0 .. bytes_to_sectors(l) - 1
  BY <1>1, Reaches
<1>3. SizeIn(f, s) = bytes_to_sectors(l) /\ SizeIn(f, s) \in Nat
  BY <1>1, NodeInType DEF SizeIn
<1> QED
  BY <1>2, <1>3 DEF PaddedAt

\* A file that a step leaves alone says what it said.
LEMMA UntouchedSame ==
    ASSUME NEW f \in FileSystem, NEW h \in FileSystem, NEW t \in Sector, Kept(f, t), Untouched(f, h, t)
    PROVE  SameFile(f, h, t)
<1>1. PICK n \in Node : n = NodeIn(f, t)
  BY NodeInType
<1>2. PICK m \in Nat : m = SizeIn(f, t)
  BY NodeInType
<1>3. /\ NodeIn(h, t) = n /\ SizeIn(h, t) = m
      /\ \A i \in 0 .. m - 1 : data_sector(h, n, i) = data_sector(f, n, i)
  BY <1>1, <1>2, Undisturbed
<1>4. ASSUME NEW q \in Nat PROVE PaddedAt(h, t, q) = PaddedAt(f, t, q)
  <2>1. PICK x \in Nat : x = q \div UNIT
    BY UnitPlace
  <2>2. CASE x < m
    <3>1. x \in 0 .. m - 1
      BY <2>2
    <3>2. data_sector(h, n, x) = data_sector(f, n, x) /\ data_sector(f, n, x) \in Mine(f, t)
      BY <1>1, <1>2, <1>3, <3>1 DEF Mine, OwnIn, Own
    <3>3. h.data[data_sector(f, n, x)] = f.data[data_sector(f, n, x)]
      BY <3>2 DEF Untouched
    <3>4. UnitAt(h, t, q) = UnitAt(f, t, q)
      BY ONLY <1>1, <1>3, <2>1, <3>2, <3>3 DEF UnitAt
    <3> QED
      BY ONLY <1>2, <1>3, <3>4 DEF PaddedAt
  <2>3. CASE ~ (x < m)
    BY ONLY <1>2, <1>3, <2>1, <2>3 DEF PaddedAt
  <2> QED
    BY <2>2, <2>3
<1> QED
  BY <1>1, <1>3, <1>4 DEF SameFile

LEMMA SameAgain ==
    ASSUME NEW f, NEW g, NEW h, NEW t, SameFile(f, g, t), SameFile(g, h, t)
    PROVE  SameFile(f, h, t)
BY DEF SameFile

LEMMA SameBlank ==
    ASSUME NEW f, NEW h, NEW t, SameFile(f, h, t), Blank(f, t)
    PROVE  Blank(h, t)
BY DEF SameFile, Blank

\* Growth does not change what a file says.
LEMMA UnitsGrown ==
    ASSUME NEW f \in FileSystem, NEW n, NEW m \in Nat, NEW e \in FileSystem, NEW p, NEW k \in Nat,
           Holds(f, n, m), GrownTo(f, n, m, e, p, k), NEW x \in 0 .. k - 1, NEW r \in 0 .. UNIT - 1
    PROVE  e.data[data_sector(e, p, x)][r] = IF x < m THEN f.data[data_sector(f, n, x)][r] ELSE Zero
<1>1. CASE x < m
  <2>1. x \in 0 .. m - 1
    BY <1>1
  <2>2. data_sector(e, p, x) = data_sector(f, n, x)
    BY ONLY <2>1, GrownTo(f, n, m, e, p, k) DEF GrownTo
  <2>3. data_sector(f, n, x) \in f.free_map
    BY ONLY <2>1, Holds(f, n, m) DEF Holds, Own
  <2>4. e.data[data_sector(f, n, x)] = f.data[data_sector(f, n, x)]
    BY ONLY <2>3, GrownTo(f, n, m, e, p, k) DEF GrownTo
  <2> QED
    BY ONLY <1>1, <2>2, <2>4
<1>2. CASE ~ (x < m)
  <2>1. x \in m .. k - 1
    BY <1>2
  <2>2. e.data[data_sector(e, p, x)] = ZeroData
    BY ONLY <2>1, GrownTo(f, n, m, e, p, k) DEF GrownTo
  <2> QED
    BY ONLY <1>2, <2>2, r \in 0 .. UNIT - 1 DEF ZeroData
<1> QED
  BY <1>1, <1>2

\* Writing changes what the file says where the buffer goes.
LEMMA UnitsWritten ==
    ASSUME NEW f \in FileSystem, NEW h \in FileSystem, NEW s \in Sector, Kept(f, s), h.inode[s].open_cnt > 0,
           NEW m, m = SizeIn(f, s), NEW L \in Nat, NEW k \in Nat, k = bytes_to_sectors(L), m <= k,
           NEW buf \in Seq(Unit), NEW offset \in Nat, offset + Len(buf) <= L,
           NEW e \in FileSystem, NEW p \in Node, SizeIn(h, s) = k,
           Rewritten(f, NodeIn(f, s), m, h, s, k, L, buf, offset, e, p)
    PROVE  \A q \in Nat : PaddedAt(h, s, q) = IF q \in offset .. offset + Len(buf) - 1 THEN buf[q - offset + 1]
                                              ELSE PaddedAt(f, s, q)
<1>1. PICK n \in Node : n = NodeIn(f, s)
  BY NodeInType
<1>2. m \in Nat /\ Holds(f, n, m) /\ Len(buf) \in Nat
  <2>1. m \in Nat
    BY NodeInType
  <2> QED
    BY <1>1, <2>1, LenProperties DEF Kept
<1>3. /\ GrownTo(f, n, m, e, p, k) /\ h.block = e.block
      /\ h.data = Placed(e, p, buf, offset) /\ NodeIn(h, s) = p
  BY <1>1 DEF Rewritten, NodeIn
<1>4. \A i : data_sector(h, p, i) = data_sector(e, p, i)
  BY <1>3 DEF data_sector
<1>5. Filled(p, k) /\ Apart(e, p, k)
  BY <1>3 DEF GrownTo
<1>6. SUFFICES ASSUME NEW q \in Nat
               PROVE  PaddedAt(h, s, q) = IF q \in offset .. offset + Len(buf) - 1 THEN buf[q - offset + 1]
                                          ELSE PaddedAt(f, s, q)
  OBVIOUS
<1>7. PICK x \in Nat : x = q \div UNIT
  BY UnitPlace
<1>8. PICK r \in 0 .. UNIT - 1 : r = q % UNIT
  BY UnitPlace
<1>9. CASE ~ (x < k)
  <2>1. ~ (q < L)
    <3>1. q < L => x \in 0 .. k - 1
      BY ONLY <1>7, Reaches, q \in Nat, L \in Nat, k = bytes_to_sectors(L)
    <3> QED
      BY <1>9, <3>1
  <2>2. q \notin offset .. offset + Len(buf) - 1
    BY <1>2, <2>1
  <2>3. PaddedAt(h, s, q) = Zero
    BY ONLY <1>7, <1>9, SizeIn(h, s) = k DEF PaddedAt
  <2>4. ~ (x < m)
    BY <1>2, <1>9
  <2>5. PaddedAt(f, s, q) = Zero
    BY ONLY <1>7, <2>4, m = SizeIn(f, s) DEF PaddedAt
  <2> QED
    BY ONLY <2>2, <2>3, <2>5
<1>10. CASE x < k
  <2>1. x \in 0 .. k - 1
    BY <1>10
  <2>2. PICK t \in Sector : t = data_sector(e, p, x)
    BY <1>5, <2>1, OwnSectors
  <2>3. PaddedAt(h, s, q) = h.data[t][r]
    BY ONLY <1>3, <1>4, <1>7, <1>8, <1>10, <2>2, SizeIn(h, s) = k DEF PaddedAt, UnitAt
  <2>4. PaddedAt(f, s, q) = e.data[t][r]
    <3>1. e.data[t][r] = IF x < m THEN f.data[data_sector(f, n, x)][r] ELSE Zero
      BY <1>2, <1>3, <2>1, <2>2, UnitsGrown
    <3> QED
      BY ONLY <1>1, <1>7, <1>8, <3>1, m = SizeIn(f, s) DEF PaddedAt, UnitAt
  <2>5. PICK K : K = Hits(e, p, buf, offset, t, r)
    OBVIOUS
  <2>6. h.data[t][r] = IF K = {} THEN e.data[t][r] ELSE buf[Max(K) - offset + 1]
    BY <1>3, <2>5 DEF Placed
  <2>7. ASSUME NEW j \in offset .. offset + Len(buf) - 1
        PROVE  j \in K <=> j = q
    <3>1. j \in Nat /\ j < L
      BY <1>2
    <3>2. PICK y : y = j \div UNIT
      OBVIOUS
    <3>3. y \in 0 .. k - 1
      BY ONLY <3>1, <3>2, Reaches, L \in Nat, k = bytes_to_sectors(L)
    <3>4. j \in K <=> data_sector(e, p, y) = t /\ j % UNIT = r
      BY ONLY <2>5, <2>7, <3>2 DEF Hits, byte_to_sector
    <3>5. data_sector(e, p, y) = t <=> y = x
      BY ONLY <1>5, <2>1, <2>2, <3>3 DEF Apart
    <3>6. y = x /\ j % UNIT = r => j = q
      <4>1. UNIT \in Nat \ {0}
        BY Constants
      <4> QED
        BY ONLY <1>7, <1>8, <3>1, <3>2, <4>1, SamePlace, q \in Nat
    <3>7. j = q => y = x /\ j % UNIT = r
      BY ONLY <1>7, <1>8, <3>2
    <3> QED
      BY ONLY <3>4, <3>5, <3>6, <3>7
  <2>8. K \subseteq offset .. offset + Len(buf) - 1
    BY ONLY <2>5 DEF Hits
  <2>9. CASE q \in offset .. offset + Len(buf) - 1
    <3>1. K = {q}
      BY ONLY <2>7, <2>8, <2>9
    <3>2. Max(K) = q
      BY ONLY <3>1, q \in Nat DEF Max
    <3> QED
      BY ONLY <2>3, <2>6, <2>9, <3>1, <3>2
  <2>10. CASE q \notin offset .. offset + Len(buf) - 1
    <3>1. K = {}
      BY ONLY <2>7, <2>8, <2>10
    <3> QED
      BY ONLY <2>3, <2>4, <2>6, <2>10, <3>1
  <2> QED
    BY <2>9, <2>10
<1> QED
  BY <1>9, <1>10

-----------------------------------------------------------------------------
(***************************************************************************)
(* The root directory: the units of it that are entries in use.            *)
(***************************************************************************)

Used(f) == {q \in 0 .. NodeIn(f, ROOT_DIR_SECTOR).length - 1 : in_use(UnitAt(f, ROOT_DIR_SECTOR, q))}
SectorAt(f, q) == UnitAt(f, ROOT_DIR_SECTOR, q).sector
NameAt(f, q) == UnitAt(f, ROOT_DIR_SECTOR, q).name
Named(f) == {SectorAt(f, q) : q \in Used(f)}
Bound(f) == {<<NameAt(f, q), SectorAt(f, q)>> : q \in Used(f)}
DirSound(f) ==
    /\ \A q \in Used(f) : SectorAt(f, q) \in Sector \ {FREE_MAP_SECTOR, ROOT_DIR_SECTOR}
    /\ \A p, q \in Used(f) : SectorAt(f, p) = SectorAt(f, q) => p = q

\* The root directory is open, and was read as long as it is.
RootOpen(f) ==
    LET i == f.inode[ROOT_DIR_SECTOR]
    IN  i.open_cnt > 0 /\ i.read_length = i.node.length

LEMMA MinIn ==
    ASSUME NEW K, K \subseteq Nat, K # {}
    PROVE  Min(K) \in K
<1>1. \E s \in K : \A t \in K : s <= t
  BY LeastNumber
<1> QED
  BY <1>1 DEF Min

LEMMA RootSector == ROOT_DIR_SECTOR \in Sector /\ FREE_MAP_SECTOR \in Sector
                    /\ ROOT_DIR_SECTOR = 1 /\ FREE_MAP_SECTOR = 0
  BY Constants DEF ROOT_DIR_SECTOR, FREE_MAP_SECTOR

\* An entry in use is an entry, and a new sector has none.
LEMMA EntryUnit ==
    /\ \A u \in Unit : in_use(u) => u \in Entry
    /\ ~ in_use(Zero)
    /\ \A u \in Entry : u \in Unit /\ u.sector \in Sector /\ (in_use(u) <=> u.in_use)
<1>1. \A u \in [v : Value] : ~ in_use(u)
  <2>1. \A u \in [v : Value] : DOMAIN u = {"v"}
    OBVIOUS
  <2> QED
    BY <2>1 DEF in_use
<1>2. ~ in_use(Zero)
  <2>1. DOMAIN Zero = {"v"}
    BY DEF Zero
  <2> QED
    BY <2>1 DEF in_use
<1>3. \A u \in Entry : u \in Unit /\ u.sector \in Sector /\ (in_use(u) <=> u.in_use)
  <2>1. \A u \in Entry : DOMAIN u = {"name", "sector", "in_use"} /\ u.sector \in Sector
    BY DEF Entry
  <2> QED
    BY <2>1 DEF in_use, Unit
<1> QED
  BY <1>1, <1>2, <1>3 DEF Unit

LEMMA UnitType ==
    ASSUME NEW f \in FileSystem, NEW s \in Sector, Kept(f, s), NEW q \in 0 .. NodeIn(f, s).length - 1
    PROVE  UnitAt(f, s, q) \in Unit
<1>1. PICK n \in Node : n = NodeIn(f, s) /\ n.length \in Nat
  BY NodeInType DEF Node
<1>2. PICK m \in Nat : m = bytes_to_sectors(n.length) /\ m = SizeIn(f, s)
  BY <1>1, NodeInType DEF SizeIn
<1>3. Filled(n, m)
  BY <1>1, <1>2 DEF Kept, Holds
<1>4. PICK x : x = q \div UNIT
  OBVIOUS
<1>5. x \in 0 .. m - 1 /\ q % UNIT \in 0 .. UNIT - 1
  <2>1. PICK L \in Nat : L = n.length /\ q \in Nat /\ q < L
    BY <1>1
  <2>2. q \div UNIT \in 0 .. bytes_to_sectors(L) - 1 /\ q % UNIT \in 0 .. UNIT - 1
    BY ONLY <2>1, Reaches
  <2> QED
    BY ONLY <1>2, <1>4, <2>1, <2>2
<1>6. data_sector(f, n, x) \in Sector
  BY ONLY <1>3, <1>5, OwnSectors, f \in FileSystem, n \in Node, m \in Nat
<1>7. f.data[data_sector(f, n, x)] \in [0 .. UNIT - 1 -> Unit]
  BY <1>6 DEF FileSystem
<1> QED
  BY <1>1, <1>4, <1>5, <1>7 DEF UnitAt

LEMMA RootEntries ==
    ASSUME NEW f \in FileSystem, RootOpen(f), NEW es, es = root_entries(f),
           NEW l, l = NodeIn(f, ROOT_DIR_SECTOR).length
    PROVE  l \in Nat /\ Len(es) = l /\ \A k \in 1 .. l : es[k] = UnitAt(f, ROOT_DIR_SECTOR, k - 1)
<1>1. PICK n \in Node : n = NodeIn(f, ROOT_DIR_SECTOR) /\ n.length \in Nat
  BY RootSector, NodeInType DEF Node
<1>2. f.inode[ROOT_DIR_SECTOR].node = n /\ f.inode[ROOT_DIR_SECTOR].read_length = l /\ l \in Nat
  BY <1>1 DEF RootOpen, NodeIn
<1>3. es = [k \in 1 .. l |-> f.data[byte_to_sector(f, n, 0 + k - 1)][(0 + k - 1) % UNIT]]
  <2>1. l - 0 = l /\ ~ (l < 0) /\ ~ (l < l)
    BY <1>2
  <2>2. es = inode_read_at(f, ROOT_DIR_SECTOR, l, 0)
    BY <1>2 DEF root_entries
  <2> QED
    BY <1>2, <2>1, <2>2 DEF inode_read_at
<1>4. Len(es) = l
  BY <1>2, <1>3
<1>5. \A k \in 1 .. l : es[k] = UnitAt(f, ROOT_DIR_SECTOR, k - 1)
  <2>1. \A k \in 1 .. l : 0 + k - 1 = k - 1
    BY <1>2
  <2> QED
    BY <1>1, <1>3, <2>1 DEF UnitAt, byte_to_sector
<1> QED
  BY <1>2, <1>4, <1>5

\* The slot of a name holds an entry in use, and a slot for a new one does not.
LEMMA Looked ==
    ASSUME NEW f \in FileSystem, RootOpen(f), NEW name, NEW k, k = lookup(f, name), k # 0
    PROVE  k - 1 \in Used(f) /\ k \in Nat /\ sector_of(f, name) = SectorAt(f, k - 1) /\ NameAt(f, k - 1) = name
<1>1. PICK es : es = root_entries(f)
  OBVIOUS
<1>2. PICK l : l = NodeIn(f, ROOT_DIR_SECTOR).length
  OBVIOUS
<1>3. l \in Nat /\ Len(es) = l /\ \A j \in 1 .. l : es[j] = UnitAt(f, ROOT_DIR_SECTOR, j - 1)
  BY <1>1, <1>2, RootEntries
<1>4. PICK hits : hits = {j \in 1 .. Len(es) : in_use(es[j]) /\ es[j].name = name}
  OBVIOUS
<1>5. k = IF hits = {} THEN 0 ELSE Min(hits)
  BY <1>1, <1>4 DEF lookup
<1>6. hits # {} /\ hits \subseteq Nat
  BY <1>3, <1>4, <1>5
<1>7. k \in hits
  BY <1>5, <1>6, MinIn
<1>8. k \in 1 .. l /\ in_use(es[k]) /\ es[k].name = name
  BY <1>3, <1>4, <1>7
<1>9. k - 1 \in 0 .. l - 1 /\ es[k] = UnitAt(f, ROOT_DIR_SECTOR, k - 1)
  BY <1>3, <1>8
<1>10. sector_of(f, name) = es[k].sector
  BY <1>1 DEF sector_of
<1> QED
  BY <1>2, <1>8, <1>9, <1>10 DEF Used, SectorAt, NameAt

\* A name that is not found is not bound.
LEMMA NotLooked ==
    ASSUME NEW f \in FileSystem, RootOpen(f), NEW name, lookup(f, name) = 0
    PROVE  \A q \in Used(f) : NameAt(f, q) # name
<1>1. PICK es : es = root_entries(f)
  OBVIOUS
<1>2. PICK l : l = NodeIn(f, ROOT_DIR_SECTOR).length
  OBVIOUS
<1>3. l \in Nat /\ Len(es) = l /\ \A j \in 1 .. l : es[j] = UnitAt(f, ROOT_DIR_SECTOR, j - 1)
  BY <1>1, <1>2, RootEntries
<1>4. PICK hits : hits = {j \in 1 .. Len(es) : in_use(es[j]) /\ es[j].name = name}
  OBVIOUS
<1>5. hits = {}
  <2>1. lookup(f, name) = IF hits = {} THEN 0 ELSE Min(hits)
    BY <1>1, <1>4 DEF lookup
  <2>2. hits # {} => Min(hits) \in hits
    <3>1. hits \subseteq Nat
      BY <1>3, <1>4
    <3> QED
      BY <3>1, MinIn
  <2>3. 0 \notin hits
    BY <1>3, <1>4
  <2> QED
    BY <2>1, <2>2, <2>3
<1>6. ASSUME NEW q \in Used(f), NameAt(f, q) = name PROVE FALSE
  <2>1. q \in 0 .. l - 1 /\ in_use(UnitAt(f, ROOT_DIR_SECTOR, q)) /\ UnitAt(f, ROOT_DIR_SECTOR, q).name = name
    BY <1>2, <1>6 DEF Used, NameAt
  <2>2. q + 1 \in 1 .. l /\ (q + 1) - 1 = q
    BY <1>3, <2>1
  <2>3. es[q + 1] = UnitAt(f, ROOT_DIR_SECTOR, q)
    BY <1>3, <2>2
  <2> QED
    BY <1>3, <1>4, <1>5, <2>1, <2>2, <2>3
<1> QED
  BY <1>6

LEMMA SlotFree ==
    ASSUME NEW f \in FileSystem, RootOpen(f), NEW es, es = root_entries(f),
           NEW unused, unused = {k \in 1 .. Len(es) : ~ in_use(es[k])},
           NEW k, k = IF unused = {} THEN Len(es) + 1 ELSE Min(unused)
    PROVE  k - 1 \in Nat /\ k - 1 <= NodeIn(f, ROOT_DIR_SECTOR).length /\ k - 1 \notin Used(f)
<1>1. PICK l : l = NodeIn(f, ROOT_DIR_SECTOR).length
  OBVIOUS
<1>2. l \in Nat /\ Len(es) = l /\ \A j \in 1 .. l : es[j] = UnitAt(f, ROOT_DIR_SECTOR, j - 1)
  BY <1>1, RootEntries
<1>3. CASE unused = {}
  BY <1>1, <1>2, <1>3 DEF Used
<1>4. CASE unused # {}
  <2>1. unused \subseteq Nat
    BY <1>2
  <2>2. k \in unused
    BY <1>4, <2>1, MinIn
  <2>3. k \in 1 .. l /\ ~ in_use(UnitAt(f, ROOT_DIR_SECTOR, k - 1))
    BY <1>2, <2>2
  <2>4. k - 1 \in Nat /\ k - 1 <= l
    BY ONLY <1>2, <2>3
  <2>5. k - 1 \notin Used(f)
    BY ONLY <2>3 DEF Used
  <2> QED
    BY ONLY <1>1, <2>4, <2>5
<1> QED
  BY <1>3, <1>4

\* The directory is what it was when its file is left alone.
LEMMA SameDirectory ==
    ASSUME NEW f \in FileSystem, NEW h \in FileSystem, Kept(f, ROOT_DIR_SECTOR), Untouched(f, h, ROOT_DIR_SECTOR)
    PROVE  /\ Used(h) = Used(f) /\ Named(h) = Named(f) /\ (DirSound(f) => DirSound(h))
           /\ Bound(h) = Bound(f)
           /\ \A q \in Used(f) : SectorAt(h, q) = SectorAt(f, q)
<1>1. PICK n \in Node : n = NodeIn(f, ROOT_DIR_SECTOR) /\ n.length \in Nat
  BY RootSector, NodeInType DEF Node
<1>2. NodeIn(h, ROOT_DIR_SECTOR) = n
  BY <1>1 DEF Untouched
<1>3. ASSUME NEW q \in 0 .. n.length - 1
      PROVE  UnitAt(h, ROOT_DIR_SECTOR, q) = UnitAt(f, ROOT_DIR_SECTOR, q)
  <2>1. q \in Nat /\ q < NodeIn(f, ROOT_DIR_SECTOR).length
    BY <1>1
  <2> QED
    BY <2>1, RootSector, SameUnits
<1>4. Used(h) = Used(f) /\ \A q \in Used(f) : SectorAt(h, q) = SectorAt(f, q) /\ NameAt(h, q) = NameAt(f, q)
  BY <1>1, <1>2, <1>3 DEF Used, SectorAt, NameAt
<1>5. Bound(h) = Bound(f)
  BY <1>4 DEF Bound
<1> QED
  BY <1>4, <1>5 DEF Named, DirSound
-----------------------------------------------------------------------------
(***************************************************************************)
(* The descriptors of the process, and the inodes they refer to.           *)
(***************************************************************************)

OpenFile == [fd : Nat, inode : Sector, pos : Nat]
Openers(q, s) == {i \in 1 .. Len(q) : q[i].inode = s}
One(b) == IF b THEN 1 ELSE 0

LEMMA OpenersType ==
    ASSUME NEW q \in Seq(OpenFile), NEW s
    PROVE  /\ Len(q) \in Nat /\ \A i \in 1 .. Len(q) : q[i] \in OpenFile
           /\ IsFiniteSet(Openers(q, s)) /\ Cardinality(Openers(q, s)) \in Nat
<1>1. Len(q) \in Nat
  BY LenProperties
<1>2. \A i \in 1 .. Len(q) : q[i] \in OpenFile
  BY ElementOfSeq
<1>3. IsFiniteSet(1 .. Len(q))
  BY <1>1, FS_Interval
<1>4. Openers(q, s) \in SUBSET (1 .. Len(q))
  BY DEF Openers
<1>5. IsFiniteSet(Openers(q, s))
  BY <1>3, <1>4, FS_Subset
<1> QED
  BY <1>1, <1>2, <1>5, FS_CardinalityType

LEMMA OpenersNone ==
    ASSUME NEW q \in Seq(OpenFile), NEW s, \A i \in 1 .. Len(q) : q[i].inode # s
    PROVE  Cardinality(Openers(q, s)) = 0
<1>1. Openers(q, s) = {}
  BY DEF Openers
<1> QED
  BY <1>1, FS_EmptySet

\* r are the descriptors q and the descriptor x.
Gains(q, x, r) ==
    /\ \A s : Cardinality(Openers(r, s)) = Cardinality(Openers(q, s)) + One(x.inode = s)
    /\ \A i \in 1 .. Len(r) : r[i] = x \/ \E j \in 1 .. Len(q) : r[i] = q[j]

LEMMA OpenersAppend ==
    ASSUME NEW q \in Seq(OpenFile), NEW x \in OpenFile, NEW r, r = Append(q, x)
    PROVE  r \in Seq(OpenFile) /\ Gains(q, x, r)
<1>1. /\ r \in Seq(OpenFile) /\ Len(r) = Len(q) + 1 /\ r[Len(q) + 1] = x
      /\ \A i \in 1 .. Len(q) : r[i] = q[i]
  BY AppendProperties
<1>2. Len(q) \in Nat
  BY LenProperties
<1>3. ASSUME NEW s PROVE Cardinality(Openers(r, s)) = Cardinality(Openers(q, s)) + One(x.inode = s)
  <2>1. IsFiniteSet(Openers(q, s)) /\ Cardinality(Openers(q, s)) \in Nat
    BY OpenersType
  <2>2. CASE x.inode = s
    <3>1. Openers(r, s) = Openers(q, s) \cup {Len(q) + 1} /\ Len(q) + 1 \notin Openers(q, s)
      BY <1>1, <1>2, <2>2 DEF Openers
    <3>2. Cardinality(Openers(q, s) \cup {Len(q) + 1}) = Cardinality(Openers(q, s)) + 1
      BY ONLY <2>1, <3>1, FS_AddElement
    <3> QED
      BY ONLY <2>2, <3>1, <3>2 DEF One
  <2>3. CASE x.inode # s
    <3>1. Openers(r, s) = Openers(q, s)
      BY <1>1, <1>2, <2>3 DEF Openers
    <3> QED
      BY ONLY <2>1, <2>3, <3>1 DEF One
  <2> QED
    BY <2>2, <2>3
<1>4. ASSUME NEW i \in 1 .. Len(r) PROVE r[i] = x \/ \E j \in 1 .. Len(q) : r[i] = q[j]
  <2>1. i = Len(q) + 1 \/ i \in 1 .. Len(q)
    BY <1>1, <1>2
  <2> QED
    BY <1>1, <2>1
<1> QED
  BY <1>1, <1>3, <1>4 DEF Gains

\* r are the descriptors q after one was moved to another position.
Placing(q, i, x) == [q EXCEPT ![i].pos = x]
Moves(q, r) ==
    /\ \A s : Openers(r, s) = Openers(q, s)
    /\ Len(r) = Len(q) /\ \A j \in 1 .. Len(q) : r[j].inode = q[j].inode

LEMMA OpenersMoved ==
    ASSUME NEW q \in Seq(OpenFile), NEW i \in 1 .. Len(q), NEW x \in Nat, NEW r, r = Placing(q, i, x)
    PROVE  r \in Seq(OpenFile) /\ Moves(q, r)
<1>1. Len(q) \in Nat /\ \A j \in 1 .. Len(q) : q[j] \in OpenFile
  BY OpenersType
<1>2. PICK y : y = [q[i] EXCEPT !.pos = x]
  OBVIOUS
<1>3. y = [fd |-> q[i].fd, inode |-> q[i].inode, pos |-> x] /\ q[i] \in OpenFile
  BY <1>1, <1>2 DEF OpenFile
<1>4. y \in OpenFile /\ y.inode = q[i].inode
  BY <1>3 DEF OpenFile
<1>5. r = [q EXCEPT ![i] = y]
  BY <1>2 DEF Placing
<1>6. r \in Seq(OpenFile) /\ Len(r) = Len(q) /\ \A j \in 1 .. Len(q) : r[j] = IF j = i THEN y ELSE q[j]
  BY ONLY <1>4, <1>5, ExceptSeq, q \in Seq(OpenFile), i \in 1 .. Len(q)
<1>7. \A j \in 1 .. Len(q) : r[j].inode = q[j].inode
  BY <1>4, <1>6
<1> QED
  BY <1>6, <1>7 DEF Openers, Moves

\* r are the descriptors q without the i-th.
Loses(q, i, r) ==
    /\ \A s : Cardinality(Openers(r, s)) = Cardinality(Openers(q, s)) - One(q[i].inode = s)
    /\ \A j \in 1 .. Len(r) : \E k \in 1 .. Len(q) : r[j] = q[k]

LEMMA OpenersRemoved ==
    ASSUME NEW q \in Seq(OpenFile), NEW i \in 1 .. Len(q), NEW r, r = RemoveAt(q, i)
    PROVE  r \in Seq(OpenFile) /\ Loses(q, i, r)
<1>1. Len(q) \in Nat /\ \A j \in 1 .. Len(q) : q[j] \in OpenFile
  BY OpenersType
<1>2. PICK a : a = SubSeq(q, 1, i - 1)
  OBVIOUS
<1>3. PICK b : b = SubSeq(q, i + 1, Len(q))
  OBVIOUS
<1>4. r = a \o b
  BY <1>2, <1>3 DEF RemoveAt
<1>5. a \in Seq(OpenFile) /\ Len(a) = i - 1 /\ \A j \in 1 .. i - 1 : a[j] = q[j]
  <2>1. \A j \in 1 .. i - 1 : q[j] \in OpenFile
    BY <1>1
  <2>2. 1 \in Int /\ i - 1 \in Int
    OBVIOUS
  <2> QED
    BY <1>1, <1>2, <2>1, <2>2, SubSeqProperties
<1>6. b \in Seq(OpenFile) /\ Len(b) = Len(q) - i /\ \A j \in 1 .. Len(q) - i : b[j] = q[j + i]
  <2>1. \A j \in i + 1 .. Len(q) : q[j] \in OpenFile
    BY <1>1
  <2>2. i + 1 \in Int /\ Len(q) \in Int
    BY <1>1
  <2> QED
    BY <1>1, <1>3, <2>1, <2>2, SubSeqProperties
<1>7. /\ r \in Seq(OpenFile) /\ Len(r) = Len(q) - 1
      /\ \A j \in 1 .. Len(q) - 1 : r[j] = IF j < i THEN q[j] ELSE q[j + 1]
  <2>1. /\ r \in Seq(OpenFile) /\ Len(r) = Len(a) + Len(b)
        /\ \A j \in 1 .. Len(r) : r[j] = IF j <= Len(a) THEN a[j] ELSE b[j - Len(a)]
    <3>1. a \in Seq(OpenFile) /\ b \in Seq(OpenFile)
      BY <1>5, <1>6
    <3>2. /\ a \o b \in Seq(OpenFile) /\ Len(a \o b) = Len(a) + Len(b)
          /\ \A j \in 1 .. Len(a) + Len(b) : (a \o b)[j] = IF j <= Len(a) THEN a[j] ELSE b[j - Len(a)]
      BY ONLY <3>1, ConcatProperties
    <3> QED
      BY ONLY <1>4, <3>2
  <2>2. Len(r) = Len(q) - 1
    BY <1>1, <1>5, <1>6, <2>1
  <2>3. ASSUME NEW j \in 1 .. Len(q) - 1 PROVE r[j] = IF j < i THEN q[j] ELSE q[j + 1]
    <3>1. CASE j < i
      BY <1>1, <1>5, <2>1, <2>2, <3>1
    <3>2. CASE ~ (j < i)
      <4>1. ~ (j <= Len(a)) /\ j - Len(a) \in 1 .. Len(q) - i /\ (j - Len(a)) + i = j + 1
        BY <1>1, <1>5, <3>2
      <4>2. r[j] = b[j - Len(a)]
        BY <2>1, <2>2, <4>1
      <4> QED
        BY <1>6, <3>2, <4>1, <4>2
    <3> QED
      BY <3>1, <3>2
  <2> QED
    BY <2>1, <2>2, <2>3
<1>8. ASSUME NEW s PROVE Cardinality(Openers(r, s)) = Cardinality(Openers(q, s)) - One(q[i].inode = s)
  <2>1. IsFiniteSet(Openers(q, s)) /\ Cardinality(Openers(q, s)) \in Nat
    BY OpenersType
  <2>2. IsFiniteSet(Openers(r, s)) /\ Cardinality(Openers(r, s)) \in Nat
    BY <1>7, OpenersType
  <2>3. PICK P : P = Openers(r, s)
    OBVIOUS
  <2>4. PICK Q : Q = Openers(q, s) \ {i}
    OBVIOUS
  <2>5. PICK F : F = [j \in P |-> IF j < i THEN j ELSE j + 1]
    OBVIOUS
  <2>6. P = {j \in 1 .. Len(q) - 1 : r[j].inode = s} /\ Q = {j \in 1 .. Len(q) : j # i /\ q[j].inode = s}
    BY <1>7, <2>3, <2>4 DEF Openers
  <2>7. F \in Bijection(P, Q)
    <3>1. F \in [P -> Q]
      <4>1. ASSUME NEW j \in P PROVE (IF j < i THEN j ELSE j + 1) \in Q
        BY <1>1, <1>7, <2>6
      <4> QED
        BY <2>5, <4>1
    <3>2. \A x, y \in P : F[x] = F[y] => x = y
      BY <2>5, <2>6
    <3>3. ASSUME NEW y \in Q PROVE \E x \in P : F[x] = y
      <4>1. CASE y < i
        <5>1. y \in P
          BY <1>1, <1>7, <2>6, <4>1
        <5> QED
          BY <2>5, <4>1, <5>1
      <4>2. CASE ~ (y < i)
        <5>1. y - 1 \in 1 .. Len(q) - 1 /\ ~ (y - 1 < i) /\ (y - 1) + 1 = y
          BY <1>1, <2>6, <4>2
        <5>2. r[y - 1] = q[y]
          BY <1>7, <5>1
        <5>3. y - 1 \in P
          BY <2>6, <5>1, <5>2
        <5> QED
          BY <2>5, <5>1, <5>3
      <4> QED
        BY <4>1, <4>2
    <3> QED
      BY <3>1, <3>2, <3>3 DEF Bijection, Injection, Surjection, IsInjective
  <2>8. Cardinality(Q) = Cardinality(P)
    <3>1. ExistsBijection(P, Q)
      BY <2>7 DEF ExistsBijection
    <3> QED
      BY ONLY <2>2, <2>3, <3>1, FS_Bijection
  <2>9. Cardinality(Q) = Cardinality(Openers(q, s)) - One(i \in Openers(q, s))
    <3>1. Cardinality(Openers(q, s) \ {i}) =
             IF i \in Openers(q, s) THEN Cardinality(Openers(q, s)) - 1 ELSE Cardinality(Openers(q, s))
      BY ONLY <2>1, FS_RemoveElement
    <3>2. CASE i \in Openers(q, s)
      BY ONLY <2>1, <2>4, <3>1, <3>2 DEF One
    <3>3. CASE i \notin Openers(q, s)
      BY ONLY <2>1, <2>4, <3>1, <3>3 DEF One
    <3> QED
      BY ONLY <3>2, <3>3
  <2>10. i \in Openers(q, s) <=> q[i].inode = s
    BY DEF Openers
  <2> QED
    BY <2>3, <2>8, <2>9, <2>10 DEF One
<1>9. ASSUME NEW j \in 1 .. Len(r) PROVE \E k \in 1 .. Len(q) : r[j] = q[k]
  <2>1. j \in 1 .. Len(q) - 1 /\ j \in 1 .. Len(q) /\ j + 1 \in 1 .. Len(q)
    BY <1>1, <1>7
  <2> QED
    BY <1>7, <2>1
<1> QED
  BY <1>7, <1>8, <1>9 DEF Loses
-----------------------------------------------------------------------------
(***************************************************************************)
(* The inductive invariant.                                                *)
(***************************************************************************)

Reserved == {FREE_MAP_SECTOR, ROOT_DIR_SECTOR}
OpenIn(f) == {s \in Sector : f.inode[s].open_cnt > 0}
LiveIn(f) == Reserved \cup Named(f) \cup OpenIn(f)

\* The references of the descriptors q and of the executable x to file s.
RefsTo(q, x, s) == Cardinality(Openers(q, s)) + One(x = s)

\* An inode is open as often as it is referred to, it denies writes to the
\* executable, and its name is gone once it was removed.
InodeSound(f, q, x, s) ==
    /\ f.inode[s].open_cnt = RefsTo(q, x, s) + One(s = FREE_MAP_SECTOR)
    /\ f.inode[s].open_cnt > 0 =>
          /\ f.inode[s].read_length = f.inode[s].node.length
          /\ f.inode[s].deny_write_cnt = One(x = s)
          /\ f.inode[s].removed => s \notin Named(f) \cup Reserved
RefsSound(q, x) == x \notin Reserved /\ \A i \in 1 .. Len(q) : q[i].inode \notin Reserved

Sound(f, q, x) ==
    /\ FilesKept(f, LiveIn(f)) /\ DirSound(f)
    /\ \A s \in Sector : InodeSound(f, q, x, s)
    /\ RefsSound(q, x)

IInv ==
    /\ fs \in FileSystem /\ open_files \in Seq(OpenFile) /\ next_fd \in 2 .. MaxFd + 2
    /\ thread_file \in Sector \cup {None}
    /\ fs.fault = "none" => Sound(fs, open_files, thread_file)
-----------------------------------------------------------------------------
(***************************************************************************)
(* Files that come and go.                                                 *)
(***************************************************************************)

\* From f to h names keep their files, and the files D say what they said.
Quiet(f, h, D) == Bound(h) = Bound(f) /\ \A t \in D : SameFile(f, h, t)

\* From f to h comes a blank file s of the size, with the name.
Bore(f, h, name, s, size) ==
    /\ (\A t : <<name, t>> \notin Bound(f)) /\ Bound(h) = Bound(f) \cup {<<name, s>>}
    /\ LiveIn(h) \subseteq LiveIn(f) \cup {s}
    /\ \A t \in LiveIn(h) \ {s, ROOT_DIR_SECTOR} : SameFile(f, h, t)
    /\ NodeIn(h, s).length = size /\ \A q \in Nat : PaddedAt(h, s, q) = Zero

CreateDone(f, h, name, size) ==
    \/ LiveIn(h) \subseteq LiveIn(f) /\ Quiet(f, h, LiveIn(h))
    \/ \E s \in Sector \ LiveIn(f) : Bore(f, h, name, s, size)

\* From f to h goes a name.
RemoveDone(f, h, name) ==
    /\ \E s \in Sector : <<name, s>> \in Bound(f) /\ Bound(h) = Bound(f) \ {<<name, s>>}
    /\ LiveIn(h) \subseteq LiveIn(f) /\ \A t \in LiveIn(h) \ {ROOT_DIR_SECTOR} : SameFile(f, h, t)

\* From f to h the buffer goes to its place in file s.
WriteDone(f, h, s, buf, offset) ==
    \/ denied(f.inode[s]) /\ h = f
    \/ /\ ~ denied(f.inode[s]) /\ Bound(h) = Bound(f) /\ LiveIn(h) = LiveIn(f)
       /\ \A t \in LiveIn(f) \ {s} : SameFile(f, h, t)
       /\ NodeIn(h, s).length = IF offset + Len(buf) > NodeIn(f, s).length THEN offset + Len(buf)
                                ELSE NodeIn(f, s).length
       /\ \A q \in Nat : PaddedAt(h, s, q) = IF q \in offset .. offset + Len(buf) - 1 THEN buf[q - offset + 1]
                                             ELSE PaddedAt(f, s, q)

\* The files and the directory are in order.
Files(f) == FilesKept(f, LiveIn(f)) /\ DirSound(f)

LEMMA LiveType ==
    ASSUME NEW f \in FileSystem, Files(f)
    PROVE  /\ LiveIn(f) \subseteq Sector /\ LiveIn(f) \subseteq f.free_map /\ \A t \in LiveIn(f) : Kept(f, t)
           /\ Kept(f, ROOT_DIR_SECTOR) /\ Reserved \subseteq LiveIn(f) /\ Named(f) \subseteq LiveIn(f)
           /\ Named(f) \cap Reserved = {}
<1>1. LiveIn(f) \subseteq Sector /\ \A t \in LiveIn(f) : Kept(f, t)
  BY DEF Files, FilesKept
<1>2. LiveIn(f) \subseteq f.free_map
  BY <1>1 DEF Kept
<1>3. Reserved \subseteq LiveIn(f) /\ Named(f) \subseteq LiveIn(f) /\ ROOT_DIR_SECTOR \in LiveIn(f)
  BY DEF LiveIn, Reserved
<1>4. Named(f) \cap Reserved = {}
  BY DEF Files, DirSound, Named, Reserved
<1> QED
  BY <1>1, <1>2, <1>3, <1>4

LEMMA FewerFiles ==
    ASSUME NEW f, NEW D, FilesKept(f, D), NEW E, E \subseteq D
    PROVE  FilesKept(f, E)
BY DEF FilesKept

\* A step that is about openers only, and opens files that are there.
LEMMA AlikeFiles ==
    ASSUME NEW f \in FileSystem, NEW h \in FileSystem, Files(f), Alike(f, h), OpenIn(h) \subseteq LiveIn(f)
    PROVE  Files(h) /\ Named(h) = Named(f) /\ LiveIn(h) \subseteq LiveIn(f)
<1>1. FilesKept(f, LiveIn(f)) /\ DirSound(f) /\ Kept(f, ROOT_DIR_SECTOR) /\ ROOT_DIR_SECTOR \in LiveIn(f)
  BY LiveType DEF Files, LiveIn, Reserved
<1>2. FilesKept(h, LiveIn(f)) /\ Untouched(f, h, ROOT_DIR_SECTOR)
  BY <1>1, AlikeStays
<1>3. Named(h) = Named(f) /\ DirSound(h)
  BY <1>1, <1>2, SameDirectory
<1>4. LiveIn(h) \subseteq LiveIn(f)
  BY <1>3 DEF LiveIn
<1>5. FilesKept(h, LiveIn(h))
  BY <1>2, <1>4, FewerFiles
<1> QED
  BY <1>3, <1>4, <1>5 DEF Files

LEMMA LeftQuiet ==
    ASSUME NEW f \in FileSystem, NEW h \in FileSystem, NEW D, FilesKept(f, D), ROOT_DIR_SECTOR \in D,
           \A t \in D : Untouched(f, h, t)
    PROVE  Quiet(f, h, D)
<1>1. D \subseteq Sector /\ \A t \in D : Kept(f, t)
  BY DEF FilesKept
<1>2. Bound(h) = Bound(f)
  <2>1. Kept(f, ROOT_DIR_SECTOR) /\ Untouched(f, h, ROOT_DIR_SECTOR)
    BY <1>1
  <2> QED
    BY ONLY <2>1, SameDirectory, f \in FileSystem, h \in FileSystem
<1>3. \A t \in D : SameFile(f, h, t)
  BY <1>1, UntouchedSame
<1> QED
  BY <1>2, <1>3 DEF Quiet

LEMMA AlikeQuiet ==
    ASSUME NEW f \in FileSystem, NEW h \in FileSystem, Files(f), Alike(f, h)
    PROVE  Quiet(f, h, LiveIn(f))
<1>1. FilesKept(f, LiveIn(f)) /\ ROOT_DIR_SECTOR \in LiveIn(f)
  BY DEF Files, LiveIn, Reserved
<1>2. \A t \in LiveIn(f) : Untouched(f, h, t)
  BY <1>1, AlikeStays
<1> QED
  BY <1>1, <1>2, LeftQuiet

LEMMA QuietShrinks ==
    ASSUME NEW f, NEW g, NEW h, NEW D, NEW E, Quiet(f, g, D), Quiet(g, h, E), E \subseteq D
    PROVE  Quiet(f, h, E)
BY SameAgain DEF Quiet

LEMMA OpenStep ==
    ASSUME NEW f \in FileSystem, Files(f), NEW s \in LiveIn(f), NEW h, h = inode_open(f, s)
    PROVE  h \in FileSystem /\ h.fault = f.fault /\ Files(h) /\ Named(h) = Named(f) /\ LiveIn(h) = LiveIn(f)
<1>0. s \in Sector
  BY LiveType
<1>1. /\ s \in Sector /\ h \in FileSystem /\ Alike(f, h)
      /\ \A t \in Sector : t # s => h.inode[t] = f.inode[t]
      /\ h.inode[s].open_cnt = f.inode[s].open_cnt + 1
  BY ONLY <1>0, f \in FileSystem, h = inode_open(f, s), OpenedFile
<1>2. OpenIn(h) \subseteq LiveIn(f)
  BY <1>1 DEF OpenIn, LiveIn
<1>3. Files(h) /\ Named(h) = Named(f) /\ LiveIn(h) \subseteq LiveIn(f)
  BY <1>1, <1>2, AlikeFiles
<1>4. OpenIn(f) \subseteq OpenIn(h)
  <2>1. ASSUME NEW t \in OpenIn(f) PROVE t \in OpenIn(h)
    <3>1. CASE t = s
      <4>0. f.inode[s] \in Inode
        BY <1>0, NodeInType
      <4>1. h.inode[s].open_cnt = f.inode[s].open_cnt + 1 /\ f.inode[s].open_cnt \in Nat
        BY <1>1, <4>0 DEF Inode
      <4> QED
        BY <1>1, <3>1, <4>1 DEF OpenIn
    <3>2. CASE t # s
      BY <1>1, <3>2 DEF OpenIn
    <3> QED
      BY <3>1, <3>2
  <2> QED
    BY <2>1
<1>5. LiveIn(h) = LiveIn(f)
  BY <1>3, <1>4 DEF LiveIn
<1> QED
  BY <1>1, <1>3, <1>5 DEF Alike

LEMMA CloseStep ==
    ASSUME NEW f \in FileSystem, Files(f), NEW s \in Sector, f.inode[s].open_cnt > 0,
           f.inode[s].removed => s \notin Named(f) \cup Reserved, NEW h, h = inode_close(f, s)
    PROVE  /\ h \in FileSystem /\ h.fault = f.fault /\ Files(h) /\ Named(h) = Named(f)
           /\ \A t \in Sector : t # s => h.inode[t] = f.inode[t]
           /\ h.inode[s].open_cnt = f.inode[s].open_cnt - 1
           /\ h.inode[s].open_cnt > 0 => /\ h.inode[s].removed = f.inode[s].removed
                                         /\ h.inode[s].deny_write_cnt = f.inode[s].deny_write_cnt
                                         /\ h.inode[s].read_length = f.inode[s].read_length
                                         /\ h.inode[s].node = f.inode[s].node
<1>1. CASE f.inode[s].open_cnt = 1 /\ f.inode[s].removed
  <2>1. s \in LiveIn(f) /\ FilesKept(f, LiveIn(f)) /\ DirSound(f) /\ s \notin Named(f) \cup Reserved
    BY <1>1 DEF Files, LiveIn, OpenIn
  <2>2. /\ h \in FileSystem /\ h.fault = f.fault /\ FilesKept(h, LiveIn(f) \ {s})
        /\ \A t \in LiveIn(f) \ {s} : Untouched(f, h, t) /\ Mine(h, t) = Mine(f, t)
        /\ \A t \in Sector : t # s => h.inode[t] = f.inode[t]
        /\ h.inode[s].open_cnt = 0
    BY <1>1, <2>1, FreedFile
  <2>3. Kept(f, ROOT_DIR_SECTOR) /\ Untouched(f, h, ROOT_DIR_SECTOR)
    BY <2>1, <2>2, LiveType DEF Reserved
  <2>4. Named(h) = Named(f) /\ DirSound(h)
    BY <2>1, <2>2, <2>3, SameDirectory
  <2>5. LiveIn(h) \subseteq LiveIn(f) \ {s}
    BY <2>1, <2>2, <2>4 DEF LiveIn, OpenIn
  <2>6. FilesKept(h, LiveIn(h))
    BY <2>2, <2>5, FewerFiles
  <2> QED
    BY <1>1, <2>2, <2>4, <2>6 DEF Files
<1>2. CASE ~ (f.inode[s].open_cnt = 1 /\ f.inode[s].removed)
  <2>1. f.inode[s].open_cnt = 1 => ~ f.inode[s].removed
    BY <1>2
  <2>2. /\ h \in FileSystem /\ Alike(f, h) /\ \A t \in Sector : t # s => h.inode[t] = f.inode[t]
        /\ h.inode[s].open_cnt = f.inode[s].open_cnt - 1
        /\ h.inode[s].open_cnt > 0 => /\ h.inode[s].removed = f.inode[s].removed
                                      /\ h.inode[s].deny_write_cnt = f.inode[s].deny_write_cnt
                                      /\ h.inode[s].read_length = f.inode[s].read_length
                                      /\ h.inode[s].node = f.inode[s].node
    BY <2>1, ShutFile
  <2>3. OpenIn(h) \subseteq LiveIn(f)
    BY <2>2 DEF OpenIn, LiveIn
  <2> QED
    BY <2>2, <2>3, AlikeFiles DEF Alike
<1> QED
  BY <1>1, <1>2

\* Opening and closing an inode is not seen in names and contents.
LEMMA OpenQuiet ==
    ASSUME NEW f \in FileSystem, Files(f), NEW s \in LiveIn(f), NEW h, h = inode_open(f, s)
    PROVE  Quiet(f, h, LiveIn(f))
<1>1. s \in Sector
  BY LiveType
<1>2. h \in FileSystem /\ Alike(f, h)
  BY <1>1, OpenedFile
<1> QED
  BY <1>2, AlikeQuiet

LEMMA CloseQuiet ==
    ASSUME NEW f \in FileSystem, Files(f), NEW s \in Sector, f.inode[s].open_cnt > 0,
           f.inode[s].removed => s \notin Named(f) \cup Reserved, NEW h, h = inode_close(f, s)
    PROVE  LiveIn(h) \subseteq LiveIn(f) /\ Quiet(f, h, LiveIn(h))
<1>1. /\ h \in FileSystem /\ Files(h) /\ Named(h) = Named(f)
      /\ \A t \in Sector : t # s => h.inode[t] = f.inode[t]
  BY CloseStep
<1>2. LiveIn(h) \subseteq LiveIn(f)
  BY <1>1 DEF LiveIn, OpenIn
<1>3. CASE f.inode[s].open_cnt = 1 /\ f.inode[s].removed
  <2>1. s \in LiveIn(f) /\ FilesKept(f, LiveIn(f)) /\ s \notin Named(f) \cup Reserved
    BY <1>3 DEF Files, LiveIn, OpenIn
  <2>2. /\ h \in FileSystem /\ h.fault = f.fault /\ FilesKept(h, LiveIn(f) \ {s})
        /\ \A t \in LiveIn(f) \ {s} : Untouched(f, h, t) /\ Mine(h, t) = Mine(f, t)
        /\ \A t \in Sector : t # s => h.inode[t] = f.inode[t]
        /\ h.inode[s].open_cnt = 0
    <3>1. PICK D : D = LiveIn(f)
      OBVIOUS
    <3> QED
      BY ONLY <1>3, <2>1, <3>1, FreedFile, f \in FileSystem, h = inode_close(f, s)
  <2>3. LiveIn(h) \subseteq LiveIn(f) \ {s}
    BY <1>1, <1>2, <2>1, <2>2 DEF LiveIn, OpenIn
  <2>4. FilesKept(f, LiveIn(f) \ {s}) /\ ROOT_DIR_SECTOR \in LiveIn(f) \ {s}
    BY <2>1, FewerFiles DEF LiveIn, Reserved
  <2>5. Quiet(f, h, LiveIn(f) \ {s})
    BY <1>1, <2>2, <2>4, LeftQuiet
  <2> QED
    BY <1>2, <2>3, <2>5 DEF Quiet
<1>4. CASE ~ (f.inode[s].open_cnt = 1 /\ f.inode[s].removed)
  <2>1. f.inode[s].open_cnt = 1 => ~ f.inode[s].removed
    BY <1>4
  <2>2. Alike(f, h)
    BY <2>1, ShutFile
  <2>3. Quiet(f, h, LiveIn(f))
    BY <1>1, <2>2, AlikeQuiet
  <2> QED
    BY <1>2, <2>3 DEF Quiet
<1> QED
  BY <1>3, <1>4

LEMMA NothingHeld ==
    ASSUME NEW a
    PROVE  Holds(a, NoNode, 0) /\ Own(a, NoNode, 0) = {} /\ bytes_to_sectors(NoNode.length) = 0
<1>1. DIRECT \in Nat \ {0} /\ UNIT \in Nat \ {0}
  BY Constants
<1>2. 0 .. 0 - 1 = {} /\ DIRECT .. 0 - 1 = {}
  BY <1>1
<1>3. Own(a, NoNode, 0) = {}
  BY <1>2 DEF Own
<1>4. Filled(NoNode, 0) /\ Apart(a, NoNode, 0)
  BY <1>1, <1>2 DEF Filled, Apart, NoNode
<1>5. bytes_to_sectors(NoNode.length) = 0
  <2>1. bytes_to_sectors(NoNode.length) = (UNIT - 1) \div UNIT
    BY <1>1 DEF bytes_to_sectors, NoNode
  <2>2. (UNIT - 1) \div UNIT = 0
    BY ONLY <1>1
  <2> QED
    BY <2>1, <2>2
<1> QED
  BY <1>3, <1>4, <1>5 DEF Holds

\* A new inode on the disk.
NodePut(z, s, n) == [z EXCEPT !.disk[s] = n]

LEMMA NodeIsPut ==
    ASSUME NEW z \in FileSystem, NEW s \in Sector, NEW n \in Node, NEW d, d = NodePut(z, s, n)
    PROVE  /\ d \in FileSystem /\ d.free_map = z.free_map /\ d.cached = z.cached /\ d.inode = z.inode
           /\ d.block = z.block /\ d.data = z.data /\ d.fault = z.fault /\ d.disk[s] = n
           /\ \A t \in Sector : t # s => d.disk[t] = z.disk[t]
<1>1. PICK y : y = [z.disk EXCEPT ![s] = n]
  OBVIOUS
<1>2. /\ z.disk \in [Sector -> Node] /\ z.free_map \in SUBSET Sector /\ z.cached \in SUBSET Sector
      /\ z.inode \in [Sector -> Inode] /\ z.block \in [Sector -> PointerBlock]
      /\ z.data \in [Sector -> [0 .. UNIT - 1 -> Unit]] /\ z.fault \in Fault
  BY DEF FileSystem
<1>3. y \in [Sector -> Node] /\ y[s] = n /\ \A t \in Sector : t # s => y[t] = z.disk[t]
  BY <1>1, <1>2
<1>4. d = [free_map |-> z.free_map, cached |-> z.cached, disk |-> y, inode |-> z.inode, block |-> z.block,
           data |-> z.data, fault |-> z.fault]
  BY ONLY z \in FileSystem, d = NodePut(z, s, n), <1>1 DEF FileSystem, NodePut
<1> QED
  BY ONLY <1>2, <1>3, <1>4 DEF FileSystem

\* To the files D of a comes a blank file s of the size.
Made(a, D, s, size, h) ==
    /\ FilesKept(h, D \cup {s}) /\ s \in h.free_map /\ a.free_map \subseteq h.free_map
    /\ \A t \in D : Untouched(a, h, t) /\ Mine(h, t) = Mine(a, t)
    /\ Mine(h, s) \cap a.free_map = {s} /\ NodeIn(h, s).length = size
    /\ \A q \in Nat : PaddedAt(h, s, q) = Zero

\* inode_create: the sector holds a blank file of the size.
LEMMA MadeFile ==
    ASSUME NEW a \in FileSystem, NEW s \in Sector, NEW size \in Nat, a.inode[s].open_cnt = 0,
           NEW h, h = inode_create(a, s, size)
    PROVE  /\ h \in FileSystem /\ h.inode = a.inode /\ (a.fault # "none" => h.fault # "none")
           /\ h.fault = "none" => \A D :
                 FilesKept(a, D) /\ s \in a.free_map /\ (\A t \in D : s \notin Mine(a, t)) =>
                    Made(a, D, s, size, h)
<1>1. PICK g : g = inode_grow(a, NoNode, size)
  OBVIOUS
<1>2. PICK k : k = bytes_to_sectors(size)
  OBVIOUS
<1>3. /\ g \in Growing /\ g.f.inode = a.inode /\ g.n.length = size /\ k \in Nat
      /\ g.f.fault = "none" => a.fault = "none" /\ GrownTo(a, NoNode, 0, g.f, g.n, k)
  <2>1. NoNode \in Node /\ NoNode.length <= size
    BY ZeroTyped DEF NoNode
  <2>2. 0 = bytes_to_sectors(NoNode.length) /\ (a.fault = "none" => Holds(a, NoNode, 0))
    BY NothingHeld
  <2> QED
    BY ONLY <1>1, <1>2, <2>1, <2>2, InodeGrown, a \in FileSystem, size \in Nat
<1>4. PICK z : z = g.f
  OBVIOUS
<1>5. PICK n : n = g.n
  OBVIOUS
<1>6. /\ z \in FileSystem /\ n \in Node /\ z.inode = a.inode /\ n.length = size
      /\ z.fault = "none" => a.fault = "none" /\ GrownTo(a, NoNode, 0, z, n, k)
  BY <1>3, <1>4, <1>5 DEF Growing
<1>7. PICK d : d = NodePut(z, s, n)
  OBVIOUS
<1>8. /\ d \in FileSystem /\ d.free_map = z.free_map /\ d.cached = z.cached /\ d.inode = z.inode
      /\ d.block = z.block /\ d.data = z.data /\ d.fault = z.fault /\ d.disk[s] = n
      /\ \A t \in Sector : t # s => d.disk[t] = z.disk[t]
  BY <1>6, <1>7, NodeIsPut
<1>9. h = block_write(d, s)
  BY <1>1, <1>4, <1>5, <1>7 DEF inode_create, NodePut
<1>10. /\ h \in FileSystem /\ h.inode = d.inode /\ (d.fault # "none" => h.fault # "none")
       /\ h.fault = "none" => h = d
  BY <1>8, <1>9, BlockWritten
<1>11. h \in FileSystem /\ h.inode = a.inode /\ (a.fault # "none" => h.fault # "none")
  BY <1>6, <1>8, <1>10
<1>12. ASSUME h.fault = "none", NEW D, FilesKept(a, D), s \in a.free_map, \A t \in D : s \notin Mine(a, t)
       PROVE  Made(a, D, s, size, h)
  <2>1. h = d /\ z.fault = "none" /\ GrownTo(a, NoNode, 0, z, n, k)
    BY <1>6, <1>8, <1>10, <1>12
  <2>2. /\ h.free_map = z.free_map /\ h.inode = a.inode /\ h.block = z.block /\ h.data = z.data
        /\ h.disk[s] = n /\ \A t \in Sector : t # s => h.disk[t] = a.disk[t]
    BY <1>6, <1>8, <2>1 DEF GrownTo, SameNodes
  <2>3. NodeIn(h, s) = n /\ SizeIn(h, s) = k
    BY <1>2, <1>6, <1>11, <2>2 DEF NodeIn, SizeIn
  <2>4. Filled(n, k) /\ Apart(z, n, k) /\ a.free_map \subseteq z.free_map /\ Own(a, NoNode, 0) = {}
        /\ Own(z, n, k) = Own(a, NoNode, 0) \cup (z.free_map \ a.free_map)
    BY <2>1, NothingHeld DEF GrownTo
  <2>5. /\ \A i \in 0 .. k - 1 : data_sector(h, n, i) = data_sector(z, n, i)
        /\ Own(h, n, k) = Own(z, n, k) /\ Apart(h, n, k)
    BY <1>3, <1>6, <1>11, <2>2, <2>4, SameBlocks
  <2>6. Own(h, n, k) = z.free_map \ a.free_map
    BY <2>4, <2>5
  <2>7. OwnIn(h, s) = z.free_map \ a.free_map
    BY <2>3, <2>6 DEF OwnIn
  <2>8. Kept(h, s)
    BY <1>12, <2>2, <2>3, <2>4, <2>5, <2>6, <2>7 DEF Kept, Holds
  <2>9. Mine(h, s) = {s} \cup (z.free_map \ a.free_map) /\ Mine(h, s) \cap a.free_map = {s}
    BY <1>12, <2>7 DEF Mine
  <2>10. ASSUME NEW t \in D PROVE Untouched(a, h, t) /\ t # s /\ Mine(a, t) \subseteq a.free_map
    <3>1. t \in Sector /\ t # s /\ Mine(a, t) \subseteq a.free_map
      BY <1>12, <2>10 DEF FilesKept, Kept, Holds, Mine, OwnIn
    <3>2. NodeIn(h, t) = NodeIn(a, t)
      BY <2>2, <3>1 DEF NodeIn
    <3>3. ASSUME NEW u \in Mine(a, t) PROVE u \in h.free_map /\ h.block[u] = a.block[u] /\ h.data[u] = a.data[u]
      <4>1. u \in a.free_map /\ u \notin Own(a, NoNode, 0)
        BY <2>4, <3>1, <3>3
      <4> QED
        BY <2>1, <2>2, <2>4, <4>1 DEF GrownTo
    <3> QED
      BY <3>1, <3>2, <3>3 DEF Untouched
  <2>11. FilesKept(h, D) /\ \A t \in D : Mine(h, t) = Mine(a, t)
    BY <1>11, <1>12, <2>10, FilesStay
  <2>12. FilesKept(h, D \cup {s})
    <3>1. ASSUME NEW t \in D, t # s PROVE Mine(h, t) \cap Mine(h, s) = {}
      BY <1>12, <2>9, <2>10, <2>11, <3>1
    <3> QED
      BY <2>8, <2>11, <3>1, FileAdded
  <2>13. ASSUME NEW q \in Nat PROVE PaddedAt(h, s, q) = Zero
    <3>1. PICK x \in Nat : x = q \div UNIT
      BY UnitPlace
    <3>2. CASE x < k
      <4>1. x \in 0 .. k - 1 /\ q % UNIT \in 0 .. UNIT - 1
        BY <1>3, <3>2, UnitPlace
      <4>2. h.data[data_sector(h, n, x)] = ZeroData
        BY <2>1, <2>2, <2>5, <4>1 DEF GrownTo
      <4> QED
        BY <2>3, <3>1, <4>1, <4>2 DEF PaddedAt, UnitAt, ZeroData
    <3>3. CASE ~ (x < k)
      BY <2>3, <3>1, <3>3 DEF PaddedAt
    <3> QED
      BY <3>2, <3>3
  <2> QED
    BY <1>6, <1>12, <2>2, <2>3, <2>4, <2>9, <2>10, <2>11, <2>12, <2>13 DEF Made
<1> QED
  BY <1>11, <1>12
-----------------------------------------------------------------------------
(***************************************************************************)
(* Descriptors and the inodes they have open.                              *)
(***************************************************************************)

LEMMA OpenersSome ==
    ASSUME NEW q \in Seq(OpenFile), NEW i \in 1 .. Len(q)
    PROVE  q[i].inode \in Sector /\ q[i].pos \in Nat /\ Cardinality(Openers(q, q[i].inode)) \in Nat \ {0}
<1>1. PICK s : s = q[i].inode
  OBVIOUS
<1>2. IsFiniteSet(Openers(q, s)) /\ Cardinality(Openers(q, s)) \in Nat /\ q[i] \in OpenFile
  BY OpenersType
<1>3. Openers(q, s) # {}
  BY <1>1 DEF Openers
<1>4. Cardinality(Openers(q, s)) # 0
  BY <1>2, <1>3, FS_EmptySet
<1> QED
  BY <1>1, <1>2, <1>4 DEF OpenFile

LEMMA RefsType ==
    ASSUME NEW q \in Seq(OpenFile), NEW x, NEW s
    PROVE  /\ RefsTo(q, x, s) \in Nat /\ Cardinality(Openers(q, s)) \in Nat /\ One(x = s) \in {0, 1}
           /\ RefsTo(q, x, s) = Cardinality(Openers(q, s)) + One(x = s)
           /\ x = s => One(x = s) = 1
           /\ x # s => One(x = s) = 0
<1>1. Cardinality(Openers(q, s)) \in Nat
  BY OpenersType
<1>2. One(x = s) \in {0, 1} /\ (x = s => One(x = s) = 1) /\ (x # s => One(x = s) = 0)
  BY DEF One
<1> QED
  BY <1>1, <1>2 DEF RefsTo

\* Nobody has a reserved file open but the free map.
LEMMA SoundRoot ==
    ASSUME NEW f, NEW q \in Seq(OpenFile), NEW x, Sound(f, q, x)
    PROVE  /\ Files(f) /\ RefsSound(q, x) /\ \A s \in Sector : InodeSound(f, q, x, s)
           /\ f.inode[ROOT_DIR_SECTOR].open_cnt = 0 /\ f.inode[FREE_MAP_SECTOR].open_cnt = 1
<1>1. ASSUME NEW s \in Reserved PROVE RefsTo(q, x, s) = 0
  <2>1. Cardinality(Openers(q, s)) = 0
    BY <1>1, OpenersNone DEF Sound, RefsSound
  <2>2. x # s
    BY <1>1 DEF Sound, RefsSound
  <2> QED
    BY <2>1, <2>2, RefsType
<1>2. RefsTo(q, x, ROOT_DIR_SECTOR) = 0 /\ RefsTo(q, x, FREE_MAP_SECTOR) = 0
  BY <1>1 DEF Reserved
<1>3. One(ROOT_DIR_SECTOR = FREE_MAP_SECTOR) = 0 /\ One(FREE_MAP_SECTOR = FREE_MAP_SECTOR) = 1
  BY RootSector DEF One
<1>4. InodeSound(f, q, x, ROOT_DIR_SECTOR) /\ InodeSound(f, q, x, FREE_MAP_SECTOR)
  BY RootSector DEF Sound
<1>5. f.inode[ROOT_DIR_SECTOR].open_cnt = 0 + 0 /\ f.inode[FREE_MAP_SECTOR].open_cnt = 0 + 1
  BY <1>2, <1>3, <1>4 DEF InodeSound
<1> QED
  BY <1>5 DEF Sound, Files

\* A file call opens the root directory first and closes it last.
RootFresh(f) ==
    /\ f.inode[ROOT_DIR_SECTOR].open_cnt = 1 /\ ~ f.inode[ROOT_DIR_SECTOR].removed
    /\ f.inode[ROOT_DIR_SECTOR].deny_write_cnt = 0

LEMMA RootOpened ==
    ASSUME NEW f \in FileSystem, Files(f), f.inode[ROOT_DIR_SECTOR].open_cnt = 0, NEW h, h = dir_open_root(f)
    PROVE  /\ h \in FileSystem /\ h.fault = f.fault /\ Files(h) /\ Named(h) = Named(f) /\ LiveIn(h) = LiveIn(f)
           /\ RootOpen(h) /\ RootFresh(h)
           /\ \A t \in Sector : t # ROOT_DIR_SECTOR => h.inode[t] = f.inode[t]
<1>1. h = inode_open(f, ROOT_DIR_SECTOR)
  BY DEF dir_open_root
<1>2. ROOT_DIR_SECTOR \in Sector /\ ROOT_DIR_SECTOR \in LiveIn(f)
  BY RootSector DEF LiveIn, Reserved
<1>3. h \in FileSystem /\ h.fault = f.fault /\ Files(h) /\ Named(h) = Named(f) /\ LiveIn(h) = LiveIn(f)
  BY <1>1, <1>2, OpenStep
<1>4. /\ \A t \in Sector : t # ROOT_DIR_SECTOR => h.inode[t] = f.inode[t]
      /\ h.inode[ROOT_DIR_SECTOR].open_cnt = f.inode[ROOT_DIR_SECTOR].open_cnt + 1
      /\ h.inode[ROOT_DIR_SECTOR].node = NodeIn(f, ROOT_DIR_SECTOR)
      /\ ~ (f.inode[ROOT_DIR_SECTOR].open_cnt > 0) =>
            /\ ~ h.inode[ROOT_DIR_SECTOR].removed /\ h.inode[ROOT_DIR_SECTOR].deny_write_cnt = 0
            /\ h.inode[ROOT_DIR_SECTOR].read_length = NodeIn(f, ROOT_DIR_SECTOR).length
  BY <1>1, <1>2, OpenedFile
<1>5. RootFresh(h) /\ RootOpen(h)
  BY <1>4 DEF RootFresh, RootOpen
<1> QED
  BY <1>3, <1>4, <1>5

LEMMA RootOpenedQuiet ==
    ASSUME NEW f \in FileSystem, Files(f), NEW h, h = dir_open_root(f)
    PROVE  Quiet(f, h, LiveIn(f))
<1>1. h = inode_open(f, ROOT_DIR_SECTOR) /\ ROOT_DIR_SECTOR \in LiveIn(f)
  BY DEF dir_open_root, LiveIn, Reserved
<1> QED
  BY <1>1, OpenQuiet

LEMMA RootShutTyped ==
    ASSUME NEW f \in FileSystem, RootFresh(f), NEW h, h = dir_close(f)
    PROVE  h \in FileSystem /\ h.fault = f.fault
<1>1. h = inode_close(f, ROOT_DIR_SECTOR)
  BY DEF dir_close
<1>2. /\ f.inode[ROOT_DIR_SECTOR].open_cnt > 0 /\ ROOT_DIR_SECTOR \in Sector
      /\ f.inode[ROOT_DIR_SECTOR].open_cnt = 1 => ~ f.inode[ROOT_DIR_SECTOR].removed
  BY RootSector DEF RootFresh
<1>3. h \in FileSystem /\ Alike(f, h)
  BY <1>1, <1>2, ShutFile
<1> QED
  BY <1>3 DEF Alike

LEMMA RootShut ==
    ASSUME NEW f \in FileSystem, Files(f), RootFresh(f), NEW q \in Seq(OpenFile), NEW x, RefsSound(q, x),
           \A t \in Sector : t # ROOT_DIR_SECTOR => InodeSound(f, q, x, t),
           NEW h, h = dir_close(f)
    PROVE  h \in FileSystem /\ h.fault = f.fault /\ Sound(h, q, x)
<1>1. h = inode_close(f, ROOT_DIR_SECTOR)
  BY DEF dir_close
<1>2. /\ f.inode[ROOT_DIR_SECTOR].open_cnt > 0 /\ ROOT_DIR_SECTOR \in Sector
      /\ f.inode[ROOT_DIR_SECTOR].removed => ROOT_DIR_SECTOR \notin Named(f) \cup Reserved
  BY RootSector DEF RootFresh
<1>3. /\ h \in FileSystem /\ h.fault = f.fault /\ Files(h) /\ Named(h) = Named(f)
      /\ \A t \in Sector : t # ROOT_DIR_SECTOR => h.inode[t] = f.inode[t]
      /\ h.inode[ROOT_DIR_SECTOR].open_cnt = f.inode[ROOT_DIR_SECTOR].open_cnt - 1
  BY <1>1, <1>2, CloseStep
<1>4. h.inode[ROOT_DIR_SECTOR].open_cnt = 0
  BY <1>3 DEF RootFresh
<1>5. ASSUME NEW t \in Sector, t # ROOT_DIR_SECTOR PROVE InodeSound(h, q, x, t)
  <2>1. h.inode[t] = f.inode[t] /\ InodeSound(f, q, x, t)
    BY <1>3, <1>5
  <2> QED
    BY <1>3, <2>1 DEF InodeSound
<1>6. InodeSound(h, q, x, ROOT_DIR_SECTOR)
  <2>1. Cardinality(Openers(q, ROOT_DIR_SECTOR)) = 0
    BY OpenersNone DEF RefsSound, Reserved
  <2>2. x # ROOT_DIR_SECTOR
    BY DEF RefsSound, Reserved
  <2>3. RefsTo(q, x, ROOT_DIR_SECTOR) = 0
    BY <2>1, <2>2, RefsType
  <2>4. One(ROOT_DIR_SECTOR = FREE_MAP_SECTOR) = 0
    BY RootSector DEF One
  <2> QED
    BY <1>4, <2>3, <2>4 DEF InodeSound
<1>7. \A s \in Sector : InodeSound(h, q, x, s)
  BY <1>5, <1>6
<1> QED
  BY <1>3, <1>7 DEF Sound, Files

LEMMA RootShutQuiet ==
    ASSUME NEW f \in FileSystem, Files(f), RootFresh(f), NEW h, h = dir_close(f)
    PROVE  LiveIn(h) \subseteq LiveIn(f) /\ Named(h) = Named(f) /\ Quiet(f, h, LiveIn(h))
<1>1. h = inode_close(f, ROOT_DIR_SECTOR)
  BY DEF dir_close
<1>2. /\ f.inode[ROOT_DIR_SECTOR].open_cnt > 0 /\ ROOT_DIR_SECTOR \in Sector
      /\ f.inode[ROOT_DIR_SECTOR].removed => ROOT_DIR_SECTOR \notin Named(f) \cup Reserved
  BY RootSector DEF RootFresh
<1>3. Named(h) = Named(f)
  BY <1>1, <1>2, CloseStep
<1> QED
  BY <1>1, <1>2, <1>3, CloseQuiet

\* A name stands for a file that is neither the free map nor the directory.
LEMMA TargetNamed ==
    ASSUME NEW f \in FileSystem, NEW q \in Seq(OpenFile), NEW x, Sound(f, q, x), NEW name,
           NEW h, h = dir_open_root(f), lookup(h, name) # 0
    PROVE  /\ sector_of(h, name) \in Named(f) /\ sector_of(h, name) \in Sector
           /\ sector_of(h, name) \notin Reserved /\ sector_of(h, name) \in LiveIn(f)
<1>1. Files(f) /\ f.inode[ROOT_DIR_SECTOR].open_cnt = 0
  BY SoundRoot
<1>2. h \in FileSystem /\ RootOpen(h) /\ Named(h) = Named(f)
  BY <1>1, RootOpened
<1>3. PICK k : k = lookup(h, name)
  OBVIOUS
<1>4. k - 1 \in Used(h) /\ sector_of(h, name) = SectorAt(h, k - 1)
  BY <1>2, <1>3, Looked
<1>5. sector_of(h, name) \in Named(f)
  BY <1>2, <1>4 DEF Named
<1> QED
  BY <1>1, <1>5, LiveType
-----------------------------------------------------------------------------
(***************************************************************************)
(* Fields of an open inode.                                                *)
(***************************************************************************)

InodePut(f, s, j) == [f EXCEPT !.inode[s] = j]

LEMMA InodeIsPut ==
    ASSUME NEW f \in FileSystem, NEW s \in Sector, NEW j \in Inode, j.open_cnt = f.inode[s].open_cnt,
           j.node = f.inode[s].node, NEW h, h = InodePut(f, s, j)
    PROVE  /\ h \in FileSystem /\ Alike(f, h) /\ h.inode[s] = j /\ OpenIn(h) = OpenIn(f)
           /\ \A t \in Sector : t # s => h.inode[t] = f.inode[t]
<1>1. /\ f.disk \in [Sector -> Node] /\ f.free_map \in SUBSET Sector /\ f.cached \in SUBSET Sector
      /\ f.inode \in [Sector -> Inode] /\ f.block \in [Sector -> PointerBlock]
      /\ f.data \in [Sector -> [0 .. UNIT - 1 -> Unit]] /\ f.fault \in Fault
  BY DEF FileSystem
<1>2. PICK y : y = [f.inode EXCEPT ![s] = j]
  OBVIOUS
<1>3. y \in [Sector -> Inode] /\ y[s] = j /\ \A t \in Sector : t # s => y[t] = f.inode[t]
  BY <1>1, <1>2
<1>4. h = [free_map |-> f.free_map, cached |-> f.cached, disk |-> f.disk, inode |-> y, block |-> f.block,
           data |-> f.data, fault |-> f.fault]
  BY ONLY f \in FileSystem, h = InodePut(f, s, j), <1>2 DEF FileSystem, InodePut
<1>5. /\ h.free_map = f.free_map /\ h.disk = f.disk /\ h.inode = y /\ h.block = f.block /\ h.data = f.data
      /\ h.fault = f.fault
  BY ONLY <1>4
<1>6. h \in FileSystem
  BY ONLY <1>1, <1>3, <1>4 DEF FileSystem
<1>7. \A t \in Sector : h.inode[t].open_cnt = f.inode[t].open_cnt /\ h.inode[t].node = f.inode[t].node
  BY <1>3, <1>5
<1>8. \A t \in Sector : NodeIn(h, t) = NodeIn(f, t)
  BY <1>5, <1>7 DEF NodeIn
<1> QED
  BY <1>3, <1>5, <1>6, <1>7, <1>8 DEF Alike, OpenIn

DenyPut(f, s, v) == [f EXCEPT !.inode[s].deny_write_cnt = v]
SameBut(f, s, h) == \A t \in Sector : t # s => h.inode[t] = f.inode[t]

LEMMA DenySet ==
    ASSUME NEW f \in FileSystem, NEW s \in Sector, NEW v \in Nat, NEW h, h = DenyPut(f, s, v)
    PROVE  /\ h \in FileSystem /\ Alike(f, h) /\ OpenIn(h) = OpenIn(f)
           /\ SameBut(f, s, h)
           /\ h.inode[s].open_cnt = f.inode[s].open_cnt /\ h.inode[s].removed = f.inode[s].removed
           /\ h.inode[s].read_length = f.inode[s].read_length /\ h.inode[s].node = f.inode[s].node
           /\ h.inode[s].deny_write_cnt = v
<1>1. PICK i \in Inode : i = f.inode[s]
  BY NodeInType
<1>2. PICK j : j = [i EXCEPT !.deny_write_cnt = v]
  OBVIOUS
<1>3. j = [open_cnt |-> i.open_cnt, removed |-> i.removed, deny_write_cnt |-> v,
           read_length |-> i.read_length, node |-> i.node]
  BY ONLY <1>2, i \in Inode DEF Inode
<1>4. /\ j \in Inode /\ j.open_cnt = i.open_cnt /\ j.removed = i.removed /\ j.read_length = i.read_length
      /\ j.node = i.node /\ j.deny_write_cnt = v
  BY ONLY <1>3, i \in Inode, v \in Nat DEF Inode
<1>5. h = InodePut(f, s, j)
  BY ONLY <1>1, <1>2, h = DenyPut(f, s, v) DEF InodePut, DenyPut
<1>6. /\ h \in FileSystem /\ Alike(f, h) /\ h.inode[s] = j /\ OpenIn(h) = OpenIn(f)
      /\ \A t \in Sector : t # s => h.inode[t] = f.inode[t]
  <2>1. j \in Inode /\ j.open_cnt = f.inode[s].open_cnt /\ j.node = f.inode[s].node
    BY ONLY <1>1, <1>4
  <2> QED
    BY ONLY <1>5, <2>1, InodeIsPut, f \in FileSystem, s \in Sector
<1> QED
  BY ONLY <1>1, <1>4, <1>6 DEF SameBut

LEMMA RemovedSet ==
    ASSUME NEW f \in FileSystem, NEW s \in Sector, NEW h, h = inode_remove(f, s)
    PROVE  /\ h \in FileSystem /\ Alike(f, h) /\ OpenIn(h) = OpenIn(f)
           /\ \A t \in Sector : t # s => h.inode[t] = f.inode[t]
           /\ h.inode[s].open_cnt = f.inode[s].open_cnt /\ h.inode[s].deny_write_cnt = f.inode[s].deny_write_cnt
           /\ h.inode[s].read_length = f.inode[s].read_length /\ h.inode[s].node = f.inode[s].node
           /\ h.inode[s].removed
<1>1. PICK i \in Inode : i = f.inode[s]
  BY NodeInType
<1>2. PICK j : j = [i EXCEPT !.removed = TRUE]
  OBVIOUS
<1>3. j = [open_cnt |-> i.open_cnt, removed |-> TRUE, deny_write_cnt |-> i.deny_write_cnt,
           read_length |-> i.read_length, node |-> i.node]
  BY ONLY <1>2, i \in Inode DEF Inode
<1>4. /\ j \in Inode /\ j.open_cnt = i.open_cnt /\ j.removed /\ j.read_length = i.read_length
      /\ j.node = i.node /\ j.deny_write_cnt = i.deny_write_cnt
  BY ONLY <1>3, i \in Inode DEF Inode
<1>5. h = InodePut(f, s, j)
  BY ONLY <1>1, <1>2, h = inode_remove(f, s) DEF InodePut, inode_remove
<1>6. /\ h \in FileSystem /\ Alike(f, h) /\ h.inode[s] = j /\ OpenIn(h) = OpenIn(f)
      /\ \A t \in Sector : t # s => h.inode[t] = f.inode[t]
  <2>1. j \in Inode /\ j.open_cnt = f.inode[s].open_cnt /\ j.node = f.inode[s].node
    BY ONLY <1>1, <1>4
  <2> QED
    BY ONLY <1>5, <2>1, InodeIsPut, f \in FileSystem, s \in Sector
<1> QED
  BY ONLY <1>1, <1>4, <1>6
-----------------------------------------------------------------------------
(***************************************************************************)
(* Opening and closing by a process.                                       *)
(***************************************************************************)

LEMMA OpenCounts ==
    ASSUME NEW f \in FileSystem, NEW q \in Seq(OpenFile), NEW x, Sound(f, q, x),
           NEW s \in LiveIn(f), s \notin Reserved, NEW h, h = inode_open(f, s)
    PROVE  /\ h \in FileSystem /\ h.fault = f.fault /\ Files(h) /\ s \in Sector
           /\ \A t \in Sector :
                 /\ h.inode[t].open_cnt = RefsTo(q, x, t) + One(s = t) + One(t = FREE_MAP_SECTOR)
                 /\ h.inode[t].open_cnt > 0 =>
                       /\ h.inode[t].read_length = h.inode[t].node.length
                       /\ h.inode[t].deny_write_cnt = One(x = t)
                       /\ h.inode[t].removed => t \notin Named(h) \cup Reserved
<1>1. Files(f) /\ \A t \in Sector : InodeSound(f, q, x, t)
  BY SoundRoot
<1>2. s \in Sector
  BY <1>1, LiveType
<1>3. h \in FileSystem /\ h.fault = f.fault /\ Files(h) /\ Named(h) = Named(f)
  BY <1>1, OpenStep
<1>4. /\ \A t \in Sector : t # s => h.inode[t] = f.inode[t]
      /\ h.inode[s].open_cnt = f.inode[s].open_cnt + 1 /\ h.inode[s].node = NodeIn(f, s)
      /\ f.inode[s].open_cnt > 0 => /\ h.inode[s].removed = f.inode[s].removed
                                    /\ h.inode[s].deny_write_cnt = f.inode[s].deny_write_cnt
                                    /\ h.inode[s].read_length = f.inode[s].read_length
      /\ ~ (f.inode[s].open_cnt > 0) => /\ ~ h.inode[s].removed /\ h.inode[s].deny_write_cnt = 0
                                        /\ h.inode[s].read_length = NodeIn(f, s).length
  BY <1>2, OpenedFile
<1>5. ASSUME NEW t \in Sector
      PROVE  /\ h.inode[t].open_cnt = RefsTo(q, x, t) + One(s = t) + One(t = FREE_MAP_SECTOR)
             /\ h.inode[t].open_cnt > 0 =>
                   /\ h.inode[t].read_length = h.inode[t].node.length
                   /\ h.inode[t].deny_write_cnt = One(x = t)
                   /\ h.inode[t].removed => t \notin Named(h) \cup Reserved
  <2>1. /\ f.inode[t].open_cnt = RefsTo(q, x, t) + One(t = FREE_MAP_SECTOR)
        /\ f.inode[t].open_cnt > 0 =>
              /\ f.inode[t].read_length = f.inode[t].node.length
              /\ f.inode[t].deny_write_cnt = One(x = t)
              /\ f.inode[t].removed => t \notin Named(f) \cup Reserved
    BY <1>1 DEF InodeSound
  <2>2. RefsTo(q, x, t) \in Nat /\ One(t = FREE_MAP_SECTOR) \in {0, 1}
    BY RefsType DEF One
  <2>3. CASE t # s
    <3>1. h.inode[t] = f.inode[t] /\ One(s = t) = 0
      BY <1>4, <2>3 DEF One
    <3> QED
      BY <1>3, <2>1, <2>2, <3>1
  <2>4. CASE t = s
    <3>1. h.inode[t].open_cnt = f.inode[t].open_cnt + 1 /\ One(s = t) = 1
      BY <1>4, <2>4 DEF One
    <3>2. h.inode[t].open_cnt = RefsTo(q, x, t) + One(s = t) + One(t = FREE_MAP_SECTOR)
      BY <2>1, <2>2, <3>1
    <3>3. CASE f.inode[t].open_cnt > 0
      <4>1. NodeIn(f, t) = f.inode[t].node
        BY <3>3 DEF NodeIn
      <4> QED
        BY <1>3, <1>4, <2>1, <2>4, <3>2, <3>3, <4>1
    <3>4. CASE ~ (f.inode[t].open_cnt > 0)
      <4>1. RefsTo(q, x, t) = 0
        BY <2>1, <2>2, <3>4
      <4>2. One(x = t) = 0
        BY <4>1, RefsType
      <4> QED
        BY <1>4, <2>4, <3>2, <3>4, <4>2
    <3> QED
      BY <3>3, <3>4
  <2> QED
    BY <2>3, <2>4
<1> QED
  BY <1>2, <1>3, <1>5

\* open ().
LEMMA OpenSound ==
    ASSUME NEW f \in FileSystem, NEW q \in Seq(OpenFile), NEW x, Sound(f, q, x),
           NEW s \in LiveIn(f), s \notin Reserved, NEW h, h = inode_open(f, s),
           NEW o \in OpenFile, o.inode = s, NEW r, r = Append(q, o)
    PROVE  h \in FileSystem /\ r \in Seq(OpenFile) /\ Sound(h, r, x)
<1>1. /\ h \in FileSystem /\ Files(h)
      /\ \A t \in Sector :
            /\ h.inode[t].open_cnt = RefsTo(q, x, t) + One(s = t) + One(t = FREE_MAP_SECTOR)
            /\ h.inode[t].open_cnt > 0 =>
                  /\ h.inode[t].read_length = h.inode[t].node.length
                  /\ h.inode[t].deny_write_cnt = One(x = t)
                  /\ h.inode[t].removed => t \notin Named(h) \cup Reserved
  BY OpenCounts
<1>2. r \in Seq(OpenFile) /\ Gains(q, o, r)
  BY OpenersAppend
<1>3. ASSUME NEW t \in Sector PROVE InodeSound(h, r, x, t)
  <2>1. RefsTo(r, x, t) = RefsTo(q, x, t) + One(s = t)
    <3>1. Cardinality(Openers(q, t)) \in Nat /\ One(x = t) \in {0, 1} /\ One(s = t) \in {0, 1}
      BY RefsType DEF One
    <3>2. Cardinality(Openers(r, t)) = Cardinality(Openers(q, t)) + One(s = t)
      BY <1>2 DEF Gains
    <3> QED
      BY <3>1, <3>2 DEF RefsTo
  <2> QED
    BY <1>1, <2>1 DEF InodeSound
<1>4. RefsSound(r, x)
  BY <1>2 DEF Sound, RefsSound, Gains
<1> QED
  BY <1>1, <1>2, <1>3, <1>4 DEF Sound, Files

\* load (): the executable.
LEMMA LoadSound ==
    ASSUME NEW f \in FileSystem, NEW q \in Seq(OpenFile), Sound(f, q, None),
           NEW s \in LiveIn(f), s \notin Reserved, NEW h, h = file_deny_write(inode_open(f, s), s)
    PROVE  h \in FileSystem /\ Sound(h, q, s)
<1>1. PICK e : e = inode_open(f, s)
  OBVIOUS
<1>2. /\ e \in FileSystem /\ Files(e) /\ s \in Sector
      /\ \A t \in Sector :
            /\ e.inode[t].open_cnt = RefsTo(q, None, t) + One(s = t) + One(t = FREE_MAP_SECTOR)
            /\ e.inode[t].open_cnt > 0 =>
                  /\ e.inode[t].read_length = e.inode[t].node.length
                  /\ e.inode[t].deny_write_cnt = One(None = t)
                  /\ e.inode[t].removed => t \notin Named(e) \cup Reserved
  BY <1>1, OpenCounts
<1>3. PICK v : v = e.inode[s].deny_write_cnt + 1
  OBVIOUS
<1>4. h = DenyPut(e, s, v)
  BY <1>1, <1>3 DEF file_deny_write, DenyPut
<1>5. v \in Nat
  BY <1>2, <1>3, NodeInType DEF Inode
<1>6. /\ h \in FileSystem /\ Alike(e, h) /\ OpenIn(h) = OpenIn(e)
      /\ \A t \in Sector : t # s => h.inode[t] = e.inode[t]
      /\ h.inode[s].open_cnt = e.inode[s].open_cnt /\ h.inode[s].removed = e.inode[s].removed
      /\ h.inode[s].read_length = e.inode[s].read_length /\ h.inode[s].node = e.inode[s].node
      /\ h.inode[s].deny_write_cnt = v
  <2>1. e \in FileSystem /\ s \in Sector
    BY <1>2
  <2>2. h \in FileSystem /\ Alike(e, h) /\ OpenIn(h) = OpenIn(e)
    BY ONLY <1>4, <1>5, <2>1, DenySet
  <2>5. SameBut(e, s, h)
    BY ONLY <1>4, <1>5, <2>1, DenySet
  <2>3. /\ h.inode[s].open_cnt = e.inode[s].open_cnt /\ h.inode[s].removed = e.inode[s].removed
        /\ h.inode[s].deny_write_cnt = v
    BY ONLY <1>4, <1>5, <2>1, DenySet
  <2>4. h.inode[s].read_length = e.inode[s].read_length /\ h.inode[s].node = e.inode[s].node
    BY ONLY <1>4, <1>5, <2>1, DenySet
  <2> QED
    BY ONLY <2>2, <2>3, <2>4, <2>5 DEF SameBut
<1>7. Files(h) /\ Named(h) = Named(e)
  BY <1>2, <1>6, AlikeFiles DEF LiveIn
<1>8. ASSUME NEW t \in Sector PROVE InodeSound(h, q, s, t)
  <2>1. None # t
    BY Constants
  <2>2. One(None = t) = 0 /\ Cardinality(Openers(q, t)) \in Nat /\ One(s = t) \in {0, 1}
    BY <2>1, RefsType DEF One
  <2>3. RefsTo(q, s, t) = RefsTo(q, None, t) + One(s = t)
    BY <2>2 DEF RefsTo
  <2>4. CASE t = s
    <3>1. One(s = t) = 1
      BY <2>4 DEF One
    <3> QED
      BY <1>2, <1>3, <1>6, <1>7, <2>2, <2>3, <2>4, <3>1 DEF InodeSound
  <2>5. CASE t # s
    <3>1. One(s = t) = 0
      BY <2>5 DEF One
    <3> QED
      BY <1>2, <1>6, <1>7, <2>2, <2>3, <2>5, <3>1 DEF InodeSound
  <2> QED
    BY <2>4, <2>5
<1>9. RefsSound(q, s)
  BY DEF Sound, RefsSound
<1> QED
  BY <1>6, <1>7, <1>8, <1>9 DEF Sound, Files

\* Moving a descriptor does not change the files.
LEMMA MovedSound ==
    ASSUME NEW f, NEW q \in Seq(OpenFile), NEW x, Sound(f, q, x),
           NEW i \in 1 .. Len(q), NEW p \in Nat, NEW r, r = Placing(q, i, p)
    PROVE  r \in Seq(OpenFile) /\ Sound(f, r, x)
<1>1. r \in Seq(OpenFile) /\ Moves(q, r)
  BY OpenersMoved
<1>2. ASSUME NEW s \in Sector PROVE InodeSound(f, r, x, s)
  <2>1. RefsTo(r, x, s) = RefsTo(q, x, s)
    BY <1>1 DEF RefsTo, Moves
  <2>2. InodeSound(f, q, x, s)
    BY DEF Sound
  <2> QED
    BY <2>1, <2>2 DEF InodeSound
<1>3. RefsSound(r, x)
  BY <1>1 DEF Sound, RefsSound, Moves
<1> QED
  BY <1>1, <1>2, <1>3 DEF Sound

\* close ().
LEMMA CloseSound ==
    ASSUME NEW f \in FileSystem, NEW q \in Seq(OpenFile), NEW x, Sound(f, q, x),
           NEW i \in 1 .. Len(q), NEW h, h = inode_close(f, q[i].inode), NEW r, r = RemoveAt(q, i)
    PROVE  h \in FileSystem /\ r \in Seq(OpenFile) /\ Sound(h, r, x)
<1>1. PICK s : s = q[i].inode
  OBVIOUS
<1>2. /\ Files(f) /\ RefsSound(q, x)
      /\ \A t \in Sector :
            /\ f.inode[t].open_cnt = RefsTo(q, x, t) + One(t = FREE_MAP_SECTOR)
            /\ f.inode[t].open_cnt > 0 =>
                  /\ f.inode[t].read_length = f.inode[t].node.length
                  /\ f.inode[t].deny_write_cnt = One(x = t)
                  /\ f.inode[t].removed => t \notin Named(f) \cup Reserved
  BY SoundRoot DEF InodeSound
<1>3. s \in Sector /\ Cardinality(Openers(q, s)) \in Nat \ {0}
  BY <1>1, OpenersSome
<1>4. f.inode[s].open_cnt > 0
  <2>1. One(x = s) \in {0, 1} /\ One(s = FREE_MAP_SECTOR) \in {0, 1}
    BY DEF One
  <2> QED
    BY <1>2, <1>3, <2>1 DEF RefsTo
<1>5. f.inode[s].removed => s \notin Named(f) \cup Reserved
  BY <1>2, <1>3, <1>4
<1>6. h = inode_close(f, s)
  BY <1>1
<1>7. /\ h \in FileSystem /\ Files(h) /\ Named(h) = Named(f)
      /\ \A t \in Sector : t # s => h.inode[t] = f.inode[t]
      /\ h.inode[s].open_cnt = f.inode[s].open_cnt - 1
      /\ h.inode[s].open_cnt > 0 => /\ h.inode[s].removed = f.inode[s].removed
                                    /\ h.inode[s].deny_write_cnt = f.inode[s].deny_write_cnt
                                    /\ h.inode[s].read_length = f.inode[s].read_length
                                    /\ h.inode[s].node = f.inode[s].node
  BY <1>2, <1>3, <1>4, <1>5, <1>6, CloseStep
<1>8. r \in Seq(OpenFile) /\ Loses(q, i, r)
  BY OpenersRemoved
<1>9. ASSUME NEW t \in Sector PROVE InodeSound(h, r, x, t)
  <2>1. Cardinality(Openers(r, t)) = Cardinality(Openers(q, t)) - One(s = t)
    BY <1>1, <1>8 DEF Loses
  <2>2. Cardinality(Openers(q, t)) \in Nat /\ One(x = t) \in {0, 1} /\ One(t = FREE_MAP_SECTOR) \in {0, 1}
    BY RefsType DEF One
  <2>3. CASE t # s
    <3>1. h.inode[t] = f.inode[t] /\ One(s = t) = 0
      BY <1>7, <2>3 DEF One
    <3>2. RefsTo(r, x, t) = RefsTo(q, x, t)
      BY <2>1, <2>2, <3>1 DEF RefsTo
    <3> QED
      BY <1>2, <1>7, <3>1, <3>2 DEF InodeSound
  <2>4. CASE t = s
    <3>1. One(s = t) = 1
      BY <2>4 DEF One
    <3>2. RefsTo(r, x, t) = RefsTo(q, x, t) - 1 /\ RefsTo(q, x, t) \in Nat
      BY <2>1, <2>2, <3>1 DEF RefsTo
    <3>3. h.inode[t].open_cnt = RefsTo(r, x, t) + One(t = FREE_MAP_SECTOR)
      BY <1>2, <1>7, <2>2, <2>4, <3>2
    <3>4. ASSUME h.inode[t].open_cnt > 0
          PROVE  /\ h.inode[t].read_length = h.inode[t].node.length /\ h.inode[t].deny_write_cnt = One(x = t)
                 /\ h.inode[t].removed => t \notin Named(h) \cup Reserved
      BY <1>2, <1>4, <1>7, <2>4, <3>4
    <3> QED
      BY <3>3, <3>4 DEF InodeSound
  <2> QED
    BY <2>3, <2>4
<1>10. RefsSound(r, x)
  BY <1>2, <1>8 DEF RefsSound, Loses
<1> QED
  BY <1>7, <1>8, <1>9, <1>10 DEF Sound, Files

\* The end of the process that runs executable s.
LEMMA ExitSound ==
    ASSUME NEW f \in FileSystem, NEW q \in Seq(OpenFile), NEW s \in Sector, Sound(f, q, s),
           NEW h, h = file_close(f, s)
    PROVE  h \in FileSystem /\ Sound(h, q, None)
<1>1. /\ Files(f) /\ RefsSound(q, s)
      /\ \A t \in Sector :
            /\ f.inode[t].open_cnt = RefsTo(q, s, t) + One(t = FREE_MAP_SECTOR)
            /\ f.inode[t].open_cnt > 0 =>
                  /\ f.inode[t].read_length = f.inode[t].node.length
                  /\ f.inode[t].deny_write_cnt = One(s = t)
                  /\ f.inode[t].removed => t \notin Named(f) \cup Reserved
  BY SoundRoot DEF InodeSound
<1>2. f.inode[s].open_cnt > 0 /\ f.inode[s].deny_write_cnt = 1
  <2>1. /\ Cardinality(Openers(q, s)) \in Nat /\ One(s = s) = 1 /\ One(s = FREE_MAP_SECTOR) \in {0, 1}
        /\ RefsTo(q, s, s) = Cardinality(Openers(q, s)) + One(s = s)
    BY RefsType DEF One
  <2> QED
    BY <1>1, <2>1
<1>3. PICK e : e = file_allow_write(f, s)
  OBVIOUS
<1>4. e = DenyPut(f, s, 0)
  <2>1. f.inode[s].deny_write_cnt - 1 = 0
    BY <1>2
  <2>2. e = [f EXCEPT !.inode[s].deny_write_cnt = f.inode[s].deny_write_cnt - 1]
    BY <1>3 DEF file_allow_write
  <2> QED
    BY <2>1, <2>2 DEF DenyPut
<1>5. e \in FileSystem /\ Alike(f, e) /\ OpenIn(e) = OpenIn(f) /\ \A t \in Sector : t # s => e.inode[t] = f.inode[t]
  BY <1>4, DenySet DEF SameBut
<1>6. e.inode[s].open_cnt = f.inode[s].open_cnt /\ e.inode[s].removed = f.inode[s].removed
      /\ e.inode[s].deny_write_cnt = 0
  BY <1>4, DenySet
<1>7. e.inode[s].read_length = f.inode[s].read_length /\ e.inode[s].node = f.inode[s].node
  BY <1>4, DenySet
<1>8. Files(e) /\ Named(e) = Named(f)
  BY <1>1, <1>5, AlikeFiles DEF LiveIn
<1>9. h = inode_close(e, s)
  BY <1>3 DEF file_close
<1>10. e.inode[s].open_cnt > 0 /\ (e.inode[s].removed => s \notin Named(e) \cup Reserved)
  BY <1>1, <1>2, <1>6, <1>8
<1>11. /\ h \in FileSystem /\ Files(h) /\ Named(h) = Named(e)
       /\ \A t \in Sector : t # s => h.inode[t] = e.inode[t]
       /\ h.inode[s].open_cnt = e.inode[s].open_cnt - 1
       /\ h.inode[s].open_cnt > 0 => /\ h.inode[s].removed = e.inode[s].removed
                                     /\ h.inode[s].deny_write_cnt = e.inode[s].deny_write_cnt
                                     /\ h.inode[s].read_length = e.inode[s].read_length
                                     /\ h.inode[s].node = e.inode[s].node
  BY <1>5, <1>8, <1>9, <1>10, CloseStep
<1>12. ASSUME NEW t \in Sector PROVE InodeSound(h, q, None, t)
  <2>1. None # t
    BY Constants
  <2>2. One(None = t) = 0 /\ Cardinality(Openers(q, t)) \in Nat /\ One(s = t) \in {0, 1}
        /\ One(t = FREE_MAP_SECTOR) \in {0, 1}
    BY <2>1, RefsType DEF One
  <2>3. RefsTo(q, s, t) = RefsTo(q, None, t) + One(s = t) /\ RefsTo(q, None, t) \in Nat
    BY <2>2 DEF RefsTo
  <2>4. CASE t = s
    <3>1. One(s = t) = 1
      BY <2>4 DEF One
    <3>2. h.inode[t].open_cnt = RefsTo(q, None, t) + One(t = FREE_MAP_SECTOR)
      BY <1>1, <1>6, <1>11, <2>2, <2>3, <2>4, <3>1
    <3>3. ASSUME h.inode[t].open_cnt > 0
          PROVE  /\ h.inode[t].read_length = h.inode[t].node.length /\ h.inode[t].deny_write_cnt = One(None = t)
                 /\ h.inode[t].removed => t \notin Named(h) \cup Reserved
      BY <1>1, <1>2, <1>6, <1>7, <1>8, <1>11, <2>2, <2>4, <3>3
    <3> QED
      BY <3>2, <3>3 DEF InodeSound
  <2>5. CASE t # s
    <3>1. One(s = t) = 0 /\ h.inode[t] = f.inode[t] /\ Named(h) = Named(f)
      BY <1>5, <1>8, <1>11, <2>5 DEF One
    <3> QED
      BY <1>1, <2>2, <2>3, <3>1 DEF InodeSound
  <2> QED
    BY <2>4, <2>5
<1>13. RefsSound(q, None)
  BY <1>1, Constants, RootSector DEF RefsSound, Reserved
<1> QED
  BY <1>11, <1>12, <1>13 DEF Sound, Files
-----------------------------------------------------------------------------
(***************************************************************************)
(* Writing to a file, and to the directory.                                *)
(***************************************************************************)

\* inode_write_at, as far as inodes go.
WriteTyped(f, s, buf, offset, h) ==
    /\ h \in FileSystem /\ \A t \in Sector : t # s => h.inode[t] = f.inode[t]
    /\ h.inode[s].open_cnt = f.inode[s].open_cnt /\ h.inode[s].removed = f.inode[s].removed
    /\ h.inode[s].deny_write_cnt = f.inode[s].deny_write_cnt
    /\ denied(f.inode[s]) => h = f
    /\ offset + Len(buf) <= f.inode[s].node.length => h.fault = f.fault
    /\ h.fault = "none" => f.fault = "none"

\* It keeps the files D apart, and writes the buffer where it is meant to be.
Wrote(f, D, s, buf, offset, h) ==
    /\ FilesKept(h, D) /\ h.inode[s].read_length = h.inode[s].node.length
    /\ \A t \in D : t # s => Untouched(f, h, t) /\ Mine(h, t) = Mine(f, t)
    /\ NodeIn(h, s).length = IF offset + Len(buf) > NodeIn(f, s).length THEN offset + Len(buf)
                             ELSE NodeIn(f, s).length
    /\ \A q \in Nat : PaddedAt(h, s, q) = IF q \in offset .. offset + Len(buf) - 1 THEN buf[q - offset + 1]
                                          ELSE PaddedAt(f, s, q)

LEMMA Writing ==
    ASSUME NEW f \in FileSystem, NEW D, f.fault = "none" => FilesKept(f, D), NEW s \in D, s \in Sector,
           f.inode[s].open_cnt > 0, NEW buf \in Seq(Unit), NEW offset \in Nat,
           NEW h, h = inode_write_at(f, s, buf, offset)
    PROVE  /\ WriteTyped(f, s, buf, offset, h)
           /\ ~ denied(f.inode[s]) /\ h.fault = "none" => Wrote(f, D, s, buf, offset, h)
<1>1. PICK n : n = f.inode[s].node
  OBVIOUS
<1>2. PICK m : m = bytes_to_sectors(n.length)
  OBVIOUS
<1>3. PICK L : L = IF offset + Len(buf) > n.length THEN offset + Len(buf) ELSE n.length
  OBVIOUS
<1>4. PICK k : k = bytes_to_sectors(L)
  OBVIOUS
<1>5. n = NodeIn(f, s) /\ m = SizeIn(f, s)
  BY <1>1, <1>2 DEF NodeIn, SizeIn
<1>6. f.fault = "none" => Kept(f, s) /\ Holds(f, n, m)
  BY <1>5 DEF FilesKept, Kept
<1>7. f.fault = "none" => Holds(f, n, m)
  BY <1>6
<1>8. /\ h \in FileSystem /\ n \in Node /\ m \in Nat /\ L \in Nat /\ k \in Nat /\ n.length <= L /\ m <= k
      /\ \A t \in Sector : t # s => h.inode[t] = f.inode[t]
      /\ h.inode[s].open_cnt = f.inode[s].open_cnt /\ h.inode[s].removed = f.inode[s].removed
      /\ h.inode[s].deny_write_cnt = f.inode[s].deny_write_cnt
      /\ denied(f.inode[s]) => h = f
      /\ offset + Len(buf) <= n.length => h.fault = f.fault
      /\ ~ denied(f.inode[s]) /\ h.fault = "none" =>
            /\ f.fault = "none"
            /\ \E e \in FileSystem, p \in Node : Rewritten(f, n, m, h, s, k, L, buf, offset, e, p)
  BY <1>1, <1>2, <1>3, <1>4, <1>7, WriteShape
<1>9. WriteTyped(f, s, buf, offset, h)
  BY <1>1, <1>8 DEF WriteTyped
<1>10. ASSUME ~ denied(f.inode[s]), h.fault = "none"
       PROVE  Wrote(f, D, s, buf, offset, h)
  <2>1. f.fault = "none" /\ FilesKept(f, D) /\ Kept(f, s)
    BY <1>6, <1>8, <1>10
  <2>2. PICK e \in FileSystem, p \in Node : Rewritten(f, n, m, h, s, k, L, buf, offset, e, p)
    BY <1>8, <1>10
  <2>3. Rewritten(f, NodeIn(f, s), m, h, s, k, L, buf, offset, e, p)
    BY ONLY <1>5, <2>2
  <2>4. h.inode[s].open_cnt > 0
    BY <1>8
  <2>5. offset + Len(buf) <= L
    <3>1. Len(buf) \in Nat /\ n.length \in Nat
      BY <1>8, LenProperties DEF Node
    <3> QED
      BY ONLY <1>3, <3>1, offset \in Nat
  <2>6. /\ FilesKept(h, D) /\ NodeIn(h, s) = p /\ SizeIn(h, s) = k
        /\ \A t \in D : t # s => Untouched(f, h, t) /\ Mine(h, t) = Mine(f, t)
    BY <1>4, <1>5, <1>8, <2>1, <2>3, <2>4, <2>5, Rewrote
  <2>7. h.inode[s].read_length = h.inode[s].node.length /\ p.length = L
    BY <2>2 DEF Rewritten
  <2>8. \A q \in Nat : PaddedAt(h, s, q) = IF q \in offset .. offset + Len(buf) - 1 THEN buf[q - offset + 1]
                                           ELSE PaddedAt(f, s, q)
    <3>1. h \in FileSystem /\ m \in Nat /\ L \in Nat /\ k \in Nat /\ m <= k
      BY ONLY <1>8
    <3>2. SizeIn(h, s) = k /\ m = SizeIn(f, s)
      BY ONLY <1>5, <2>6
    <3> QED
      BY ONLY <1>4, <2>1, <2>3, <2>4, <2>5, <3>1, <3>2, UnitsWritten, f \in FileSystem, s \in Sector,
              buf \in Seq(Unit), offset \in Nat
  <2>9. NodeIn(h, s).length = IF offset + Len(buf) > NodeIn(f, s).length THEN offset + Len(buf)
                              ELSE NodeIn(f, s).length
    BY ONLY <1>3, <1>5, <2>6, <2>7
  <2> QED
    BY <2>6, <2>7, <2>8, <2>9 DEF Wrote
<1> QED
  BY <1>9, <1>10

\* write () to a file that is not the directory.
LEMMA WriteSound ==
    ASSUME NEW f \in FileSystem, f.fault = "none", NEW q \in Seq(OpenFile), NEW x, Sound(f, q, x),
           NEW s \in Sector, s \notin Reserved, f.inode[s].open_cnt > 0,
           NEW buf \in Seq(Unit), NEW offset \in Nat, NEW h, h = inode_write_at(f, s, buf, offset)
    PROVE  h \in FileSystem /\ (h.fault = "none" => Sound(h, q, x) /\ WriteDone(f, h, s, buf, offset))
<1>1. /\ Files(f) /\ RefsSound(q, x)
      /\ \A t \in Sector : InodeSound(f, q, x, t)
  BY SoundRoot
<1>2. s \in LiveIn(f) /\ FilesKept(f, LiveIn(f)) /\ DirSound(f)
  BY <1>1 DEF Files, LiveIn, OpenIn
<1>3. /\ WriteTyped(f, s, buf, offset, h)
      /\ ~ denied(f.inode[s]) /\ h.fault = "none" => Wrote(f, LiveIn(f), s, buf, offset, h)
  BY <1>2, Writing
<1>4. CASE denied(f.inode[s])
  BY <1>3, <1>4 DEF WriteTyped, WriteDone
<1>5. CASE ~ denied(f.inode[s])
  <2>1. h \in FileSystem
    BY <1>3 DEF WriteTyped
  <2>2. ASSUME h.fault = "none" PROVE Sound(h, q, x) /\ WriteDone(f, h, s, buf, offset)
    <3>1. /\ FilesKept(h, LiveIn(f)) /\ h.inode[s].read_length = h.inode[s].node.length
          /\ \A t \in LiveIn(f) : t # s => Untouched(f, h, t)
      BY <1>3, <1>5, <2>2 DEF Wrote
    <3>2. Kept(f, ROOT_DIR_SECTOR) /\ Untouched(f, h, ROOT_DIR_SECTOR)
      BY <1>1, <3>1, LiveType DEF Reserved
    <3>3. Named(h) = Named(f) /\ DirSound(h)
      BY <1>2, <2>1, <3>2, SameDirectory
    <3>4. /\ \A t \in Sector : t # s => h.inode[t] = f.inode[t]
          /\ h.inode[s].open_cnt = f.inode[s].open_cnt /\ h.inode[s].removed = f.inode[s].removed
          /\ h.inode[s].deny_write_cnt = f.inode[s].deny_write_cnt
      BY <1>3 DEF WriteTyped
    <3>5. LiveIn(h) = LiveIn(f)
      <4>1. \A t \in Sector : h.inode[t].open_cnt = f.inode[t].open_cnt
        BY <3>4
      <4> QED
        BY <3>3, <4>1 DEF LiveIn, OpenIn
    <3>6. ASSUME NEW t \in Sector PROVE InodeSound(h, q, x, t)
      <4>1. InodeSound(f, q, x, t)
        BY <1>1
      <4>2. CASE t = s
        BY <3>1, <3>3, <3>4, <4>1, <4>2 DEF InodeSound
      <4>3. CASE t # s
        BY <3>3, <3>4, <4>1, <4>3 DEF InodeSound
      <4> QED
        BY <4>2, <4>3
    <3>7. Bound(h) = Bound(f)
      BY <1>2, <2>1, <3>2, SameDirectory
    <3>8. ASSUME NEW t \in LiveIn(f) \ {s} PROVE SameFile(f, h, t)
      <4>1. t \in Sector /\ Kept(f, t) /\ Untouched(f, h, t)
        BY <1>1, <3>1, LiveType
      <4> QED
        BY <2>1, <4>1, UntouchedSame
    <3>9. WriteDone(f, h, s, buf, offset)
      BY <1>3, <1>5, <2>2, <3>5, <3>7, <3>8 DEF WriteDone, Wrote
    <3> QED
      BY <1>1, <3>1, <3>3, <3>5, <3>6, <3>9 DEF Sound
  <2> QED
    BY <2>1, <2>2
<1> QED
  BY <1>4, <1>5

\* The k-th entry of the directory names s, or is not in use any more.
EntryPut(f, k, name, s, used, h) ==
    /\ Used(h) = (Used(f) \ {k - 1}) \cup (IF used THEN {k - 1} ELSE {})
    /\ \A q \in Used(f) \ {k - 1} : SectorAt(h, q) = SectorAt(f, q) /\ NameAt(h, q) = NameAt(f, q)
    /\ used => SectorAt(h, k - 1) = s /\ NameAt(h, k - 1) = name

\* write_entry puts an entry at its place in the directory.
LEMMA EntryWritten ==
    ASSUME NEW f \in FileSystem, NEW D, f.fault = "none" => FilesKept(f, D), ROOT_DIR_SECTOR \in D,
           RootFresh(f), NEW name \in Name, NEW s \in Sector, NEW used \in BOOLEAN,
           NEW k \in Nat \ {0}, k - 1 <= NodeIn(f, ROOT_DIR_SECTOR).length,
           NEW h, h = write_entry(f, k, name, s, used)
    PROVE  /\ h \in FileSystem /\ RootFresh(h) /\ \A t \in Sector : t # ROOT_DIR_SECTOR => h.inode[t] = f.inode[t]
           /\ h.fault = "none" => f.fault = "none"
           /\ k <= NodeIn(f, ROOT_DIR_SECTOR).length => h.fault = f.fault
           /\ h.fault = "none" =>
                 /\ FilesKept(h, D) /\ RootOpen(h)
                 /\ \A t \in D : t # ROOT_DIR_SECTOR => Untouched(f, h, t) /\ Mine(h, t) = Mine(f, t)
                 /\ EntryPut(f, k, name, s, used, h)
<1>1. PICK b : b = [name |-> name, sector |-> s, in_use |-> used]
  OBVIOUS
<1>2. b \in Entry /\ b.in_use = used /\ b.sector = s /\ b.name = name
  BY <1>1 DEF Entry
<1>3. b \in Unit /\ (in_use(b) <=> used)
  BY <1>2, EntryUnit
<1>4. PICK buf : buf = <<b>>
  OBVIOUS
<1>5. buf \in Seq(Unit) /\ Len(buf) = 1
  BY ONLY <1>3, <1>4
<1>6. PICK o \in Nat : o = k - 1
  OBVIOUS
<1>7. h = inode_write_at(f, ROOT_DIR_SECTOR, buf, o)
  BY <1>1, <1>4, <1>6 DEF write_entry
<1>8. /\ ROOT_DIR_SECTOR \in Sector /\ f.inode[ROOT_DIR_SECTOR].open_cnt > 0 /\ ~ denied(f.inode[ROOT_DIR_SECTOR])
      /\ f.inode[ROOT_DIR_SECTOR].node = NodeIn(f, ROOT_DIR_SECTOR)
  BY RootSector DEF RootFresh, denied, NodeIn
<1>9. /\ WriteTyped(f, ROOT_DIR_SECTOR, buf, o, h)
      /\ ~ denied(f.inode[ROOT_DIR_SECTOR]) /\ h.fault = "none" => Wrote(f, D, ROOT_DIR_SECTOR, buf, o, h)
  BY <1>5, <1>7, <1>8, Writing
<1>10. h \in FileSystem /\ RootFresh(h) /\ (h.fault = "none" => f.fault = "none")
       /\ \A t \in Sector : t # ROOT_DIR_SECTOR => h.inode[t] = f.inode[t]
  BY <1>9 DEF WriteTyped, RootFresh
<1>11. k <= NodeIn(f, ROOT_DIR_SECTOR).length => h.fault = f.fault
  <2>1. o + Len(buf) = k
    BY ONLY <1>5, <1>6, k \in Nat \ {0}
  <2> QED
    BY <1>8, <1>9, <2>1 DEF WriteTyped
<1>12. ASSUME h.fault = "none"
       PROVE  /\ FilesKept(h, D) /\ RootOpen(h)
              /\ \A t \in D : t # ROOT_DIR_SECTOR => Untouched(f, h, t) /\ Mine(h, t) = Mine(f, t)
              /\ EntryPut(f, k, name, s, used, h)
  <2>1. /\ FilesKept(h, D) /\ RootOpen(h)
        /\ \A t \in D : t # ROOT_DIR_SECTOR => Untouched(f, h, t) /\ Mine(h, t) = Mine(f, t)
    BY <1>8, <1>9, <1>10, <1>12 DEF RootOpen, RootFresh, Wrote
  <2>2. PICK l \in Nat : l = NodeIn(f, ROOT_DIR_SECTOR).length
    BY <1>8, NodeInType DEF Node
  <2>3. PICK e : e = NodeIn(h, ROOT_DIR_SECTOR).length
    OBVIOUS
  <2>4. /\ e = (IF o + 1 > l THEN o + 1 ELSE l) /\ o <= l
        /\ \A q \in 0 .. e - 1 :
              UnitAt(h, ROOT_DIR_SECTOR, q) = IF q = o THEN b ELSE UnitAt(f, ROOT_DIR_SECTOR, q)
    <3>1. o <= l
      BY <1>6, <2>2
    <3>2. /\ e = IF o + Len(buf) > l THEN o + Len(buf) ELSE l
          /\ \A q \in Nat : PaddedAt(h, ROOT_DIR_SECTOR, q) =
                IF q \in o .. o + Len(buf) - 1 THEN buf[q - o + 1] ELSE PaddedAt(f, ROOT_DIR_SECTOR, q)
      BY <1>8, <1>9, <1>12, <2>2, <2>3 DEF Wrote
    <3>3. e = (IF o + 1 > l THEN o + 1 ELSE l) /\ e \in Nat
      BY ONLY <1>5, <2>2, <3>2, o \in Nat
    <3>4. ASSUME NEW q \in 0 .. e - 1
          PROVE  UnitAt(h, ROOT_DIR_SECTOR, q) = IF q = o THEN b ELSE UnitAt(f, ROOT_DIR_SECTOR, q)
      <4>1. q \in Nat /\ q < e
        BY ONLY <3>3, <3>4
      <4>2. UnitAt(h, ROOT_DIR_SECTOR, q) = PaddedAt(h, ROOT_DIR_SECTOR, q)
        BY <1>8, <1>10, <2>3, <4>1, PaddedInside
      <4>3. CASE q = o
        <5>1. q \in o .. o + Len(buf) - 1 /\ buf[q - o + 1] = b
          BY ONLY <1>4, <1>5, <4>1, <4>3
        <5> QED
          BY ONLY <3>2, <4>1, <4>2, <4>3, <5>1
      <4>4. CASE q # o
        <5>1. q \notin o .. o + Len(buf) - 1 /\ q < l
          BY ONLY <1>5, <2>2, <3>1, <3>3, <4>1, <4>4, o \in Nat
        <5>2. UnitAt(f, ROOT_DIR_SECTOR, q) = PaddedAt(f, ROOT_DIR_SECTOR, q)
          BY <1>8, <2>2, <4>1, <5>1, PaddedInside
        <5> QED
          BY ONLY <3>2, <4>1, <4>2, <4>4, <5>1, <5>2
      <4> QED
        BY <4>3, <4>4
    <3> QED
      BY ONLY <3>1, <3>3, <3>4
  <2>5. Used(h) = {q \in 0 .. e - 1 : in_use(UnitAt(h, ROOT_DIR_SECTOR, q))}
    BY <2>3 DEF Used
  <2>6. Used(f) = {q \in 0 .. l - 1 : in_use(UnitAt(f, ROOT_DIR_SECTOR, q))}
    BY <2>2 DEF Used
  <2>7. o \in 0 .. e - 1 /\ \A q : q # o => (q \in 0 .. e - 1 <=> q \in 0 .. l - 1)
    BY ONLY <2>4, o \in Nat, l \in Nat
  <2>8. o \in Used(h) <=> used
    BY <1>3, <2>4, <2>5, <2>7
  <2>9. ASSUME NEW q, q # o PROVE q \in Used(h) <=> q \in Used(f)
    BY <2>4, <2>5, <2>6, <2>7, <2>9
  <2>10. Used(h) = (Used(f) \ {o}) \cup (IF used THEN {o} ELSE {})
    BY ONLY <2>8, <2>9
  <2>11. ASSUME NEW q \in Used(f) \ {o} PROVE SectorAt(h, q) = SectorAt(f, q) /\ NameAt(h, q) = NameAt(f, q)
    <3>1. q \in 0 .. e - 1 /\ q # o
      BY <2>6, <2>7, <2>11
    <3>2. UnitAt(h, ROOT_DIR_SECTOR, q) = UnitAt(f, ROOT_DIR_SECTOR, q)
      BY <2>4, <3>1
    <3> QED
      BY <3>2 DEF SectorAt, NameAt
  <2>12. SectorAt(h, o) = s /\ NameAt(h, o) = name
    BY <1>2, <2>4, <2>7 DEF SectorAt, NameAt
  <2> QED
    BY ONLY <1>6, <2>1, <2>10, <2>11, <2>12 DEF EntryPut
<1> QED
  BY <1>10, <1>11, <1>12
-----------------------------------------------------------------------------
(***************************************************************************)
(* Creating a file.                                                        *)
(***************************************************************************)

LEMMA ReleasedTyped ==
    ASSUME NEW f \in FileSystem, NEW S, NEW h, h = free_map_release(f, S)
    PROVE  h \in FileSystem /\ h.inode = f.inode /\ (h.fault = "none" => f.fault = "none" /\ S \subseteq f.free_map)
<1>1. CASE S \subseteq f.free_map
  BY <1>1, Released
<1>2. CASE ~ (S \subseteq f.free_map)
  <2>1. h = Fails(f, "panic")
    BY <1>2 DEF free_map_release
  <2>2. h.fault # "none"
    BY <2>1 DEF Fails, FileSystem
  <2>3. "panic" \in Fault
    BY DEF Fault
  <2> QED
    BY <2>1, <2>2, <2>3, FailsTyped
<1> QED
  BY <1>1, <1>2

\* dir_add: the directory names the new file s and what it named.
LEMMA Added ==
    ASSUME NEW f \in FileSystem, NEW D, f.fault = "none" => FilesKept(f, D) /\ DirSound(f), ROOT_DIR_SECTOR \in D,
           RootFresh(f), RootOpen(f), NEW name \in Name, NEW s \in Sector, NEW h, h = dir_add(f, name, s)
    PROVE  /\ h \in FileSystem /\ RootFresh(h) /\ \A t \in Sector : t # ROOT_DIR_SECTOR => h.inode[t] = f.inode[t]
           /\ h.fault = "none" => f.fault = "none"
           /\ h.fault = "none" =>
                 /\ FilesKept(h, D) /\ Named(h) = Named(f) \cup {s}
                 /\ s \notin Named(f) \cup Reserved => DirSound(h)
                 /\ Bound(h) = Bound(f) \cup {<<name, s>>}
                 /\ \A t \in D : t # ROOT_DIR_SECTOR => Untouched(f, h, t)
<1>1. PICK es : es = root_entries(f)
  OBVIOUS
<1>2. PICK unused : unused = {k \in 1 .. Len(es) : ~ in_use(es[k])}
  OBVIOUS
<1>3. PICK k : k = IF unused = {} THEN Len(es) + 1 ELSE Min(unused)
  OBVIOUS
<1>4. k - 1 \in Nat /\ k - 1 <= NodeIn(f, ROOT_DIR_SECTOR).length /\ k - 1 \notin Used(f)
  BY <1>1, <1>2, <1>3, SlotFree
<1>5. k \in Nat \ {0}
  <2>1. unused \subseteq Nat /\ Len(es) \in Nat
    <3>1. NodeIn(f, ROOT_DIR_SECTOR).length \in Nat /\ Len(es) = NodeIn(f, ROOT_DIR_SECTOR).length
      BY <1>1, RootEntries
    <3> QED
      BY <1>2, <3>1
  <2>2. k \in Nat
    <3>1. unused # {} => Min(unused) \in Nat
      BY <2>1, MinIn
    <3> QED
      BY ONLY <1>3, <2>1, <3>1
  <2> QED
    BY <1>4, <2>2
<1>0. PICK u \in BOOLEAN : u = TRUE
  OBVIOUS
<1>6. h = write_entry(f, k, name, s, u)
  <2>1. h = write_entry(f, k, name, s, TRUE)
    BY <1>1, <1>2, <1>3 DEF dir_add
  <2> QED
    BY ONLY <1>0, <2>1
<1>7. /\ h \in FileSystem /\ RootFresh(h) /\ \A t \in Sector : t # ROOT_DIR_SECTOR => h.inode[t] = f.inode[t]
      /\ h.fault = "none" => f.fault = "none"
      /\ h.fault = "none" => FilesKept(h, D) /\ EntryPut(f, k, name, s, u, h)
      /\ h.fault = "none" => \A t \in D : t # ROOT_DIR_SECTOR => Untouched(f, h, t)
  BY <1>4, <1>5, <1>6, EntryWritten
<1>8. ASSUME h.fault = "none"
      PROVE  /\ FilesKept(h, D) /\ Named(h) = Named(f) \cup {s}
             /\ s \notin Named(f) \cup Reserved => DirSound(h)
             /\ Bound(h) = Bound(f) \cup {<<name, s>>}
             /\ \A t \in D : t # ROOT_DIR_SECTOR => Untouched(f, h, t)
  <2>1. PICK o : o = k - 1
    OBVIOUS
  <2>2. /\ FilesKept(h, D) /\ Used(h) = Used(f) \cup {o} /\ o \notin Used(f) /\ SectorAt(h, o) = s
        /\ NameAt(h, o) = name
        /\ \A p \in Used(f) : SectorAt(h, p) = SectorAt(f, p) /\ NameAt(h, p) = NameAt(f, p)
    BY <1>0, <1>4, <1>7, <1>8, <2>1 DEF EntryPut
  <2>3. Named(h) = Named(f) \cup {s}
    BY ONLY <2>2 DEF Named
  <2>4. ASSUME s \notin Named(f) \cup Reserved PROVE DirSound(h)
    <3>1. DirSound(f)
      BY <1>7, <1>8
    <3>2. \A p \in Used(h) : SectorAt(h, p) \in Sector \ {FREE_MAP_SECTOR, ROOT_DIR_SECTOR}
      BY <2>2, <2>4, <3>1 DEF DirSound, Reserved
    <3>3. ASSUME NEW p \in Used(h), NEW r \in Used(h), SectorAt(h, p) = SectorAt(h, r) PROVE p = r
      <4>1. CASE p \in Used(f) /\ r \in Used(f)
        BY <2>2, <3>1, <3>3, <4>1 DEF DirSound
      <4>2. CASE p \in Used(f) /\ r = o
        <5>1. SectorAt(f, p) = s /\ SectorAt(f, p) \in Named(f)
          BY <2>2, <3>3, <4>2 DEF Named
        <5> QED
          BY <2>4, <5>1
      <4>3. CASE p = o /\ r \in Used(f)
        <5>1. SectorAt(f, r) = s /\ SectorAt(f, r) \in Named(f)
          BY <2>2, <3>3, <4>3 DEF Named
        <5> QED
          BY <2>4, <5>1
      <4> QED
        BY <2>2, <4>1, <4>2, <4>3
    <3> QED
      BY <3>2, <3>3 DEF DirSound
  <2>5. Bound(h) = Bound(f) \cup {<<name, s>>}
    BY ONLY <2>2 DEF Bound
  <2> QED
    BY <1>7, <1>8, <2>2, <2>3, <2>4, <2>5
<1> QED
  BY <1>7, <1>8

\* create ().
LEMMA CreateSound ==
    ASSUME NEW f0 \in FileSystem, f0.fault = "none", NEW q \in Seq(OpenFile), NEW x, Sound(f0, q, x),
           NEW name \in Name, NEW size \in Nat, NEW h, h = filesys_create(f0, name, size)
    PROVE  h \in FileSystem /\ (h.fault = "none" => Sound(h, q, x) /\ CreateDone(f0, h, name, size))
<1>1. /\ Files(f0) /\ RefsSound(q, x) /\ \A t \in Sector : InodeSound(f0, q, x, t)
      /\ f0.inode[ROOT_DIR_SECTOR].open_cnt = 0
  BY SoundRoot
<1>2. PICK f : f = dir_open_root(f0)
  OBVIOUS
<1>3. /\ f \in FileSystem /\ f.fault = "none" /\ Files(f) /\ Named(f) = Named(f0)
      /\ RootOpen(f) /\ RootFresh(f)
      /\ \A t \in Sector : t # ROOT_DIR_SECTOR => f.inode[t] = f0.inode[t]
  BY <1>1, <1>2, RootOpened
<1>4. ASSUME NEW t \in Sector, t # ROOT_DIR_SECTOR PROVE InodeSound(f, q, x, t)
  <2>1. InodeSound(f0, q, x, t) /\ f.inode[t] = f0.inode[t]
    BY <1>1, <1>3, <1>4
  <2> QED
    BY <1>3, <2>1 DEF InodeSound
<1>0. Quiet(f0, f, LiveIn(f)) /\ LiveIn(f) = LiveIn(f0)
  BY RootOpened, <1>1, <1>2, <1>3, RootOpenedQuiet
<1>5. PICK s : s = free_map_scan(f)
  OBVIOUS
<1>6. CASE s = None
  <2>1. h = dir_close(f)
    BY <1>2, <1>5, <1>6 DEF filesys_create
  <2>2. LiveIn(h) \subseteq LiveIn(f) /\ Quiet(f, h, LiveIn(h))
    BY <1>3, <2>1, RootShutQuiet
  <2>3. CreateDone(f0, h, name, size)
    BY <1>0, <1>3, <2>2, QuietShrinks DEF CreateDone
  <2> QED
    BY <1>1, <1>3, <1>4, <2>1, <2>3, RootShut
<1>7. CASE s # None
  <2>1. s \in Sector \ f.free_map
    BY <1>3, <1>5, <1>7, Scanned
  <2>2. PICK b : b = free_map_allocate(f)
    OBVIOUS
  <2>3. PICK a : a = b.f
    OBVIOUS
  <2>4. /\ a \in FileSystem /\ a.inode = f.inode
        /\ a.fault = "none" =>
              a.free_map = f.free_map \cup {s} /\ SameNodes(f, a) /\ a.block = f.block /\ a.data = f.data
    <3>1. /\ b.f \in FileSystem /\ b.f.inode = f.inode
          /\ b.f.fault = "none" =>
                /\ b.s = free_map_scan(f) /\ b.f.free_map = f.free_map \cup {b.s}
                /\ SameNodes(f, b.f) /\ b.f.block = f.block /\ b.f.data = f.data
      BY <1>3, <2>2, Allocated
    <3> QED
      BY ONLY <1>5, <2>3, <3>1
  <2>5. PICK made : made = inode_create(a, s, size)
    OBVIOUS
  <2>6. h = dir_close(IF lookup(made, name) # 0 THEN free_map_release(made, {s}) ELSE dir_add(made, name, s))
    BY <1>2, <1>5, <1>7, <2>2, <2>3, <2>5 DEF filesys_create
  <2>7. LiveIn(f) \subseteq f.free_map /\ LiveIn(f) \subseteq Sector /\ s \notin LiveIn(f) /\ Reserved \subseteq LiveIn(f)
    BY <1>3, <2>1, LiveType
  <2>8. a.inode[s].open_cnt = 0
    <3>1. f.inode[s] \in Inode /\ ~ (f.inode[s].open_cnt > 0)
      BY <1>3, <2>1, <2>7, NodeInType DEF LiveIn, OpenIn
    <3> QED
      BY <2>4, <3>1 DEF Inode
  <2>9. /\ made \in FileSystem /\ made.inode = a.inode /\ (a.fault # "none" => made.fault # "none")
        /\ made.fault = "none" => \A D :
              FilesKept(a, D) /\ s \in a.free_map /\ (\A t \in D : s \notin Mine(a, t)) =>
                 Made(a, D, s, size, made)
    <3>1. s \in Sector
      BY <2>1
    <3> QED
      BY <2>4, <2>5, <2>8, <3>1, MadeFile
  <2>10. made.inode = f.inode /\ RootFresh(made) /\ RootOpen(made)
    BY <1>3, <2>4, <2>9 DEF RootFresh, RootOpen
  <2>11. ASSUME made.fault = "none"
         PROVE  /\ FilesKept(made, LiveIn(f) \cup {s}) /\ s \in made.free_map
                /\ DirSound(made) /\ Named(made) = Named(f) /\ Quiet(f0, made, LiveIn(f))
                /\ NodeIn(made, s).length = size /\ \A r \in Nat : PaddedAt(made, s, r) = Zero
    <3>1. /\ a.free_map = f.free_map \cup {s} /\ SameNodes(f, a) /\ a.block = f.block /\ a.data = f.data
      BY <2>4, <2>9, <2>11
    <3>2. ASSUME NEW t \in LiveIn(f) PROVE Untouched(f, a, t) /\ s \notin Mine(f, t)
      <4>1. Kept(f, t) /\ NodeIn(a, t) = NodeIn(f, t)
        BY <1>3, <2>4, <3>1, <3>2, LiveType DEF NodeIn, SameNodes
      <4>2. Mine(f, t) \subseteq f.free_map
        BY <4>1 DEF Kept, Holds, Mine, OwnIn
      <4> QED
        BY <2>1, <3>1, <4>1, <4>2 DEF Untouched
    <3>3. FilesKept(f, LiveIn(f)) /\ DirSound(f)
      BY <1>3 DEF Files
    <3>4. FilesKept(a, LiveIn(f)) /\ \A t \in LiveIn(f) : Mine(a, t) = Mine(f, t)
      BY <1>3, <2>4, <3>2, <3>3, FilesStay
    <3>5. s \in a.free_map /\ \A t \in LiveIn(f) : s \notin Mine(a, t)
      BY <3>1, <3>2, <3>4
    <3>6. /\ FilesKept(made, LiveIn(f) \cup {s}) /\ s \in made.free_map
          /\ \A t \in LiveIn(f) : Untouched(a, made, t)
          /\ NodeIn(made, s).length = size /\ \A r \in Nat : PaddedAt(made, s, r) = Zero
      BY <2>9, <2>11, <3>4, <3>5 DEF Made
    <3>7. ROOT_DIR_SECTOR \in LiveIn(f)
      BY <2>7 DEF Reserved
    <3>8. Kept(f, ROOT_DIR_SECTOR) /\ Untouched(f, a, ROOT_DIR_SECTOR) /\ Untouched(a, made, ROOT_DIR_SECTOR)
          /\ Kept(a, ROOT_DIR_SECTOR)
      BY <1>3, <3>2, <3>4, <3>6, <3>7, LiveType DEF FilesKept
    <3>9. Named(a) = Named(f) /\ DirSound(a)
      BY <1>3, <2>4, <3>3, <3>8, SameDirectory
    <3>10. Named(made) = Named(a) /\ DirSound(made)
      BY <2>4, <2>9, <3>8, <3>9, SameDirectory
    <3>11. Quiet(f, a, LiveIn(f)) /\ Quiet(a, made, LiveIn(f))
      BY <1>3, <2>4, <2>9, <3>2, <3>3, <3>4, <3>6, <3>7, LeftQuiet
    <3>12. Quiet(f0, made, LiveIn(f))
      BY <1>0, <3>11, QuietShrinks
    <3> QED
      BY <3>6, <3>9, <3>10, <3>12
  <2>12. CASE lookup(made, name) # 0
    <3>1. PICK e : e = free_map_release(made, {s})
      OBVIOUS
    <3>2. h = dir_close(e)
      BY <2>6, <2>12, <3>1
    <3>3. e \in FileSystem /\ e.inode = f.inode /\ (e.fault = "none" => made.fault = "none" /\ {s} \subseteq made.free_map)
      BY <2>9, <2>10, <3>1, ReleasedTyped
    <3>4. RootFresh(e)
      BY <2>10, <3>3 DEF RootFresh
    <3>5. h \in FileSystem /\ h.fault = e.fault
      BY <3>2, <3>3, <3>4, RootShutTyped
    <3>6. ASSUME h.fault = "none" PROVE Sound(h, q, x) /\ CreateDone(f0, h, name, size)
      <4>1. /\ FilesKept(made, LiveIn(f) \cup {s}) /\ {s} \subseteq made.free_map
            /\ DirSound(made) /\ Named(made) = Named(f) /\ Quiet(f0, made, LiveIn(f))
        BY <2>11, <3>3, <3>5, <3>6
      <4>2. /\ e.free_map = made.free_map \ {s}
            /\ \A t \in Sector \ {s} : e.disk[t] = made.disk[t] /\ e.block[t] = made.block[t] /\ e.data[t] = made.data[t]
        BY <2>9, <3>1, <4>1, Released
      <4>3. ASSUME NEW t \in LiveIn(f) PROVE Untouched(made, e, t)
        <5>1. t \in Sector \ {s}
          BY <2>7
        <5>2. NodeIn(e, t) = NodeIn(made, t)
          BY <2>10, <3>3, <4>2, <5>1 DEF NodeIn
        <5>3. Mine(made, t) \cap Mine(made, s) = {} /\ s \in Mine(made, s) /\ Kept(made, t)
          BY <4>1, <5>1 DEF FilesKept, Mine
        <5>4. Mine(made, t) \subseteq made.free_map /\ made.free_map \subseteq Sector
          BY <2>9, <5>3 DEF Kept, Holds, Mine, OwnIn, FileSystem
        <5>5. ASSUME NEW u \in Mine(made, t)
              PROVE  u \in e.free_map /\ e.block[u] = made.block[u] /\ e.data[u] = made.data[u]
          <6>1. u \in made.free_map /\ u \in Sector \ {s}
            BY <5>3, <5>4, <5>5
          <6> QED
            BY <4>2, <6>1
        <5> QED
          BY <5>2, <5>5 DEF Untouched
      <4>4. FilesKept(made, LiveIn(f))
        BY <4>1, FewerFiles
      <4>5. FilesKept(e, LiveIn(f))
        BY <2>9, <3>3, <4>3, <4>4, FilesStay
      <4>6. Kept(made, ROOT_DIR_SECTOR) /\ Untouched(made, e, ROOT_DIR_SECTOR)
        BY <2>7, <4>3, <4>4 DEF FilesKept, Reserved
      <4>7. Named(e) = Named(f) /\ DirSound(e)
        BY <2>9, <3>3, <4>1, <4>6, SameDirectory
      <4>8. LiveIn(e) = LiveIn(f)
        BY <3>3, <4>7 DEF LiveIn, OpenIn
      <4>9. \A t \in Sector : t # ROOT_DIR_SECTOR => InodeSound(e, q, x, t)
        BY <1>4, <3>3, <4>7 DEF InodeSound
      <4>10. Files(e)
        BY <4>5, <4>7, <4>8 DEF Files
      <4>11. Sound(h, q, x)
        BY <1>1, <3>2, <3>3, <3>4, <4>9, <4>10, RootShut
      <4>12. Quiet(f0, e, LiveIn(f))
        <5>1. Quiet(made, e, LiveIn(f))
          BY <2>7, <2>9, <3>3, <4>3, <4>4, LeftQuiet DEF Reserved
        <5> QED
          BY <4>1, <5>1, QuietShrinks
      <4>13. LiveIn(h) \subseteq LiveIn(f) /\ Quiet(e, h, LiveIn(h))
        BY <3>2, <3>3, <3>4, <4>8, <4>10, RootShutQuiet
      <4> QED
        BY <1>0, <4>11, <4>12, <4>13, QuietShrinks DEF CreateDone
    <3> QED
      BY <3>5, <3>6
  <2>13. CASE lookup(made, name) = 0
    <3>1. PICK e : e = dir_add(made, name, s)
      OBVIOUS
    <3>2. h = dir_close(e)
      BY <2>6, <2>13, <3>1
    <3>3. made.fault = "none" => FilesKept(made, LiveIn(f) \cup {s}) /\ DirSound(made)
      BY <2>11
    <3>4. s \in Sector /\ ROOT_DIR_SECTOR \in LiveIn(f) \cup {s}
      BY <2>1, <2>7 DEF Reserved
    <3>5. /\ e \in FileSystem /\ RootFresh(e) /\ \A t \in Sector : t # ROOT_DIR_SECTOR => e.inode[t] = made.inode[t]
          /\ e.fault = "none" => made.fault = "none"
          /\ e.fault = "none" =>
                /\ FilesKept(e, LiveIn(f) \cup {s}) /\ Named(e) = Named(made) \cup {s}
                /\ s \notin Named(made) \cup Reserved => DirSound(e)
                /\ Bound(e) = Bound(made) \cup {<<name, s>>}
                /\ \A t \in LiveIn(f) \cup {s} : t # ROOT_DIR_SECTOR => Untouched(made, e, t)
      BY <2>9, <2>10, <3>1, <3>3, <3>4, Added
    <3>6. h \in FileSystem /\ h.fault = e.fault
      BY <3>2, <3>5, RootShutTyped
    <3>7. ASSUME h.fault = "none" PROVE Sound(h, q, x) /\ CreateDone(f0, h, name, size)
      <4>1. Named(made) = Named(f) /\ Named(e) = Named(f) \cup {s} /\ FilesKept(e, LiveIn(f) \cup {s})
        BY <2>11, <3>5, <3>6, <3>7
      <4>2. s \notin Named(made) \cup Reserved
        BY <2>7, <4>1 DEF LiveIn
      <4>3. DirSound(e)
        BY <3>5, <3>6, <3>7, <4>2
      <4>4. OpenIn(e) \subseteq LiveIn(f)
        <5>1. \A t \in Sector : t # ROOT_DIR_SECTOR => e.inode[t] = f.inode[t]
          BY <2>10, <3>5
        <5>2. ROOT_DIR_SECTOR \in LiveIn(f)
          BY <2>7 DEF Reserved
        <5> QED
          BY <5>1, <5>2 DEF LiveIn, OpenIn
      <4>5. LiveIn(e) \subseteq LiveIn(f) \cup {s}
        BY <4>1, <4>4 DEF LiveIn
      <4>6. Files(e)
        BY <4>1, <4>3, <4>5, FewerFiles DEF Files
      <4>7. ASSUME NEW t \in Sector, t # ROOT_DIR_SECTOR PROVE InodeSound(e, q, x, t)
        <5>1. InodeSound(f, q, x, t) /\ e.inode[t] = f.inode[t]
          BY <1>4, <2>10, <3>5, <4>7
        <5>2. f.inode[t].open_cnt > 0 => t # s
          BY <2>7 DEF LiveIn, OpenIn
        <5> QED
          BY <4>1, <5>1, <5>2 DEF InodeSound
      <4>8. Sound(h, q, x)
        BY <1>1, <3>2, <3>5, <4>6, <4>7, RootShut
      <4>9. /\ LiveIn(h) \subseteq LiveIn(e) /\ Named(h) = Named(e) /\ Quiet(e, h, LiveIn(h))
            /\ LiveIn(h) \subseteq LiveIn(f) \cup {s} /\ s \in LiveIn(h)
        <5>1. LiveIn(h) \subseteq LiveIn(e) /\ Named(h) = Named(e) /\ Quiet(e, h, LiveIn(h))
          BY <3>2, <3>5, <4>6, RootShutQuiet
        <5> QED
          BY <4>1, <4>5, <5>1 DEF LiveIn
      <4>10. /\ FilesKept(made, LiveIn(f) \cup {s}) /\ Quiet(f0, made, LiveIn(f))
             /\ NodeIn(made, s).length = size /\ \A r \in Nat : PaddedAt(made, s, r) = Zero
             /\ Bound(e) = Bound(made) \cup {<<name, s>>}
             /\ \A t \in LiveIn(f) \cup {s} : t # ROOT_DIR_SECTOR => Untouched(made, e, t)
        BY <2>11, <3>5, <3>6, <3>7
      <4>11. ASSUME NEW t \in LiveIn(h) \ {ROOT_DIR_SECTOR} PROVE SameFile(made, h, t)
        <5>1. t \in Sector /\ Kept(made, t) /\ Untouched(made, e, t) /\ SameFile(e, h, t)
          BY <4>9, <4>10 DEF FilesKept, Quiet
        <5>2. SameFile(made, e, t)
          BY <2>9, <3>5, <5>1, UntouchedSame
        <5> QED
          BY <5>1, <5>2, SameAgain
      <4>12. \A t \in LiveIn(h) \ {s, ROOT_DIR_SECTOR} : SameFile(f0, h, t)
        BY <4>9, <4>10, <4>11, SameAgain DEF Quiet
      <4>13. NodeIn(h, s).length = size /\ \A r \in Nat : PaddedAt(h, s, r) = Zero
        <5>1. SameFile(made, h, s)
          BY <2>7, <4>9, <4>11 DEF Reserved
        <5> QED
          BY <4>10, <5>1 DEF SameFile
      <4>14. Bound(h) = Bound(f0) \cup {<<name, s>>}
        BY <4>9, <4>10 DEF Quiet
      <4>15. \A t : <<name, t>> \notin Bound(f0)
        <5>1. \A r \in Used(made) : NameAt(made, r) # name
          BY <2>9, <2>10, <2>13, NotLooked
        <5>2. \A t : <<name, t>> \notin Bound(made)
          BY <5>1 DEF Bound
        <5> QED
          BY <4>10, <5>2 DEF Quiet
      <4> QED
        BY <1>0, <2>1, <2>7, <4>8, <4>9, <4>12, <4>13, <4>14, <4>15 DEF CreateDone, Bore
    <3> QED
      BY <3>6, <3>7
  <2> QED
    BY <2>12, <2>13
<1> QED
  BY <1>6, <1>7
-----------------------------------------------------------------------------
(***************************************************************************)
(* Removing a file.                                                        *)
(***************************************************************************)

\* The entry of file s is erased, and nothing else.
EntryErased(f, name, s, h) ==
    /\ h \in FileSystem /\ h.fault = "none" /\ RootFresh(h)
    /\ \A t \in Sector : t # ROOT_DIR_SECTOR => h.inode[t] = f.inode[t]
    /\ FilesKept(h, LiveIn(f)) /\ Named(h) = Named(f) \ {s} /\ DirSound(h)
    /\ <<name, s>> \in Bound(f) /\ Bound(h) = Bound(f) \ {<<name, s>>}
    /\ \A t \in LiveIn(f) : t # ROOT_DIR_SECTOR => Untouched(f, h, t)

LEMMA Erased ==
    ASSUME NEW f \in FileSystem, f.fault = "none", Files(f), RootFresh(f), RootOpen(f), NEW name \in Name,
           NEW k, k = lookup(f, name), k # 0, NEW s \in Sector, s = SectorAt(f, k - 1),
           NEW u \in BOOLEAN, ~ u, NEW h, h = write_entry(f, k, name, s, u)
    PROVE  EntryErased(f, name, s, h)
<1>1. k - 1 \in Used(f) /\ k \in Nat /\ NameAt(f, k - 1) = name
  BY Looked
<1>2. NodeIn(f, ROOT_DIR_SECTOR).length \in Nat
  BY RootSector, NodeInType DEF Node
<1>3. k \in Nat \ {0} /\ k - 1 <= NodeIn(f, ROOT_DIR_SECTOR).length /\ k <= NodeIn(f, ROOT_DIR_SECTOR).length
  BY <1>1, <1>2 DEF Used
<1>6. FilesKept(f, LiveIn(f)) /\ DirSound(f) /\ ROOT_DIR_SECTOR \in LiveIn(f)
  BY LiveType DEF Files, Reserved
<1>7. /\ h \in FileSystem /\ RootFresh(h) /\ \A t \in Sector : t # ROOT_DIR_SECTOR => h.inode[t] = f.inode[t]
      /\ k <= NodeIn(f, ROOT_DIR_SECTOR).length => h.fault = f.fault
      /\ h.fault = "none" => FilesKept(h, LiveIn(f)) /\ EntryPut(f, k, name, s, u, h)
      /\ h.fault = "none" => \A t \in LiveIn(f) : t # ROOT_DIR_SECTOR => Untouched(f, h, t)
  <2>1. f.fault = "none" => FilesKept(f, LiveIn(f))
    BY <1>6
  <2> QED
    BY ONLY <1>3, <1>6, <2>1, EntryWritten, f \in FileSystem, RootFresh(f), name \in Name, s \in Sector,
            u \in BOOLEAN, h = write_entry(f, k, name, s, u)
<1>8. h.fault = "none"
  BY <1>3, <1>7
<1>9. PICK o : o = k - 1
  OBVIOUS
<1>10. /\ Used(h) = Used(f) \ {o} /\ o \in Used(f) /\ SectorAt(f, o) = s /\ NameAt(f, o) = name
       /\ \A p \in Used(f) \ {o} : SectorAt(h, p) = SectorAt(f, p) /\ NameAt(h, p) = NameAt(f, p)
  BY <1>1, <1>7, <1>8, <1>9 DEF EntryPut
<1>11. Named(h) = Named(f) \ {s}
  <2>1. ASSUME NEW v \in Named(h) PROVE v \in Named(f) \ {s}
    <3>1. PICK p \in Used(h) : v = SectorAt(h, p)
      BY <2>1 DEF Named
    <3>2. p \in Used(f) /\ p # o /\ v = SectorAt(f, p)
      BY <1>10, <3>1
    <3>3. v # s
      BY <1>6, <1>10, <3>2 DEF DirSound
    <3> QED
      BY <3>2, <3>3 DEF Named
  <2>2. ASSUME NEW v \in Named(f) \ {s} PROVE v \in Named(h)
    <3>1. PICK p \in Used(f) : v = SectorAt(f, p)
      BY <2>2 DEF Named
    <3>2. p \in Used(h) /\ v = SectorAt(h, p)
      BY <1>10, <2>2, <3>1
    <3> QED
      BY <3>2 DEF Named
  <2> QED
    BY <2>1, <2>2
<1>12. DirSound(h)
  <2>1. \A p \in Used(h) : p \in Used(f) /\ SectorAt(h, p) = SectorAt(f, p)
    BY <1>10
  <2>2. \A p \in Used(h) : SectorAt(h, p) \in Sector \ {FREE_MAP_SECTOR, ROOT_DIR_SECTOR}
    BY <1>6, <2>1 DEF DirSound
  <2>3. ASSUME NEW p \in Used(h), NEW r \in Used(h), SectorAt(h, p) = SectorAt(h, r) PROVE p = r
    <3>1. SectorAt(f, p) = SectorAt(f, r) /\ p \in Used(f) /\ r \in Used(f)
      BY <2>1, <2>3
    <3> QED
      BY <1>6, <3>1 DEF DirSound
  <2> QED
    BY <2>2, <2>3 DEF DirSound
<1>13. \A p \in Used(f) \ {o} : <<NameAt(f, p), SectorAt(f, p)>> # <<name, s>>
  BY <1>6, <1>10 DEF DirSound
<1>14. <<name, s>> \in Bound(f) /\ Bound(h) = Bound(f) \ {<<name, s>>}
  BY ONLY <1>10, <1>13 DEF Bound
<1> QED
  BY <1>7, <1>8, <1>11, <1>12, <1>14 DEF EntryErased

\* remove ().
LEMMA RemoveSound ==
    ASSUME NEW f0 \in FileSystem, f0.fault = "none", NEW q \in Seq(OpenFile), NEW x, Sound(f0, q, x),
           NEW name \in Name, NEW f, f = dir_open_root(f0), lookup(f, name) # 0,
           NEW h, h = dir_close(dir_remove(f, name))
    PROVE  h \in FileSystem /\ h.fault = "none" /\ Sound(h, q, x) /\ RemoveDone(f0, h, name)
<1>1. /\ Files(f0) /\ RefsSound(q, x) /\ f0.inode[ROOT_DIR_SECTOR].open_cnt = 0
      /\ \A t \in Sector :
            /\ f0.inode[t].open_cnt = RefsTo(q, x, t) + One(t = FREE_MAP_SECTOR)
            /\ f0.inode[t].open_cnt > 0 =>
                  /\ f0.inode[t].read_length = f0.inode[t].node.length
                  /\ f0.inode[t].deny_write_cnt = One(x = t)
                  /\ f0.inode[t].removed => t \notin Named(f0) \cup Reserved
  BY SoundRoot DEF InodeSound
<1>2. /\ f \in FileSystem /\ f.fault = "none" /\ Files(f) /\ Named(f) = Named(f0)
      /\ RootOpen(f) /\ RootFresh(f)
      /\ \A t \in Sector : t # ROOT_DIR_SECTOR => f.inode[t] = f0.inode[t]
  BY <1>1, RootOpened
<1>3. PICK k : k = lookup(f, name)
  OBVIOUS
<1>4. PICK s : s = sector_of(f, name)
  OBVIOUS
<1>5. /\ s \in Named(f) /\ s \in Sector /\ s \notin Reserved /\ s \in LiveIn(f) /\ s = SectorAt(f, k - 1)
      /\ k # 0 /\ k - 1 \in Used(f)
  <2>1. k - 1 \in Used(f) /\ s = SectorAt(f, k - 1)
    BY <1>2, <1>3, <1>4, Looked
  <2>2. s \in Named(f)
    BY <2>1 DEF Named
  <2> QED
    BY <1>2, <1>3, <2>1, <2>2, LiveType
<1>6. PICK g : g = inode_open(f, s)
  OBVIOUS
<1>7. g \in FileSystem /\ g.fault = "none" /\ Files(g) /\ Named(g) = Named(f) /\ LiveIn(g) = LiveIn(f)
  BY <1>2, <1>5, <1>6, OpenStep
<1>8. /\ Alike(f, g) /\ \A t \in Sector : t # s => g.inode[t] = f.inode[t]
      /\ g.inode[s].open_cnt = f.inode[s].open_cnt + 1 /\ g.inode[s].node = NodeIn(f, s)
      /\ f.inode[s].open_cnt > 0 => /\ g.inode[s].removed = f.inode[s].removed
                                    /\ g.inode[s].deny_write_cnt = f.inode[s].deny_write_cnt
                                    /\ g.inode[s].read_length = f.inode[s].read_length
  BY <1>2, <1>5, <1>6, OpenedFile
<1>9. RootFresh(g) /\ RootOpen(g)
  BY <1>2, <1>5, <1>8, RootSector DEF RootFresh, RootOpen, Reserved
<1>10. lookup(g, name) = k
  <2>1. PICK l : l = NodeIn(f, ROOT_DIR_SECTOR).length
    OBVIOUS
  <2>2. PICK es : es = root_entries(f)
    OBVIOUS
  <2>3. PICK gs : gs = root_entries(g)
    OBVIOUS
  <2>4. f.inode[ROOT_DIR_SECTOR] = g.inode[ROOT_DIR_SECTOR] /\ g.data = f.data /\ g.block = f.block
    BY <1>5, <1>8, RootSector DEF Alike, Reserved
  <2>5. \A n, i : data_sector(g, n, i) = data_sector(f, n, i)
    BY <2>4 DEF data_sector
  <2>6. root_entries(g) = root_entries(f)
    BY ONLY <2>4, <2>5 DEF root_entries, inode_read_at, byte_to_sector
  <2> QED
    BY ONLY <1>3, <2>6 DEF lookup
<1>11. SectorAt(g, k - 1) = s
  <2>1. k - 1 \in Used(g) /\ sector_of(g, name) = SectorAt(g, k - 1)
    BY <1>5, <1>7, <1>9, <1>10, Looked
  <2>2. Kept(f, ROOT_DIR_SECTOR) /\ Untouched(f, g, ROOT_DIR_SECTOR)
    <3>1. FilesKept(f, LiveIn(f)) /\ ROOT_DIR_SECTOR \in LiveIn(f) /\ Kept(f, ROOT_DIR_SECTOR)
      BY <1>2, LiveType DEF Files, Reserved
    <3> QED
      BY <1>2, <1>7, <1>8, <3>1, AlikeStays
  <2> QED
    BY <1>2, <1>5, <1>7, <2>2, SameDirectory
<1>0. PICK u \in BOOLEAN : u = FALSE
  OBVIOUS
<1>12. PICK w : w = write_entry(g, k, name, s, u)
  OBVIOUS
<1>13. /\ w \in FileSystem /\ w.fault = "none" /\ RootFresh(w)
       /\ \A t \in Sector : t # ROOT_DIR_SECTOR => w.inode[t] = g.inode[t]
       /\ FilesKept(w, LiveIn(g)) /\ Named(w) = Named(g) \ {s} /\ DirSound(w)
       /\ <<name, s>> \in Bound(g) /\ Bound(w) = Bound(g) \ {<<name, s>>}
       /\ \A t \in LiveIn(g) : t # ROOT_DIR_SECTOR => Untouched(g, w, t)
  <2>1. k = lookup(g, name) /\ k # 0 /\ s \in Sector /\ s = SectorAt(g, k - 1)
    BY <1>5, <1>10, <1>11
  <2> QED
    <3>1. ~ u /\ u \in BOOLEAN
      BY <1>0
    <3>2. g \in FileSystem /\ g.fault = "none" /\ Files(g) /\ RootFresh(g) /\ RootOpen(g) /\ name \in Name
      BY <1>7, <1>9
    <3>3. EntryErased(g, name, s, w)
      BY ONLY <1>12, <2>1, <3>1, <3>2, Erased
    <3> QED
      BY ONLY <3>3 DEF EntryErased
<1>14. LiveIn(w) \subseteq LiveIn(g)
  <2>1. OpenIn(w) \subseteq LiveIn(g)
    BY <1>13 DEF OpenIn, LiveIn, Reserved
  <2> QED
    BY <1>13, <2>1 DEF LiveIn
<1>15. Files(w)
  BY <1>13, <1>14, FewerFiles DEF Files
<1>16. PICK e : e = inode_remove(w, s)
  OBVIOUS
<1>17. /\ e \in FileSystem /\ Alike(w, e) /\ OpenIn(e) = OpenIn(w)
       /\ \A t \in Sector : t # s => e.inode[t] = w.inode[t]
  BY <1>5, <1>13, <1>16, RemovedSet
<1>18. /\ e.inode[s].open_cnt = w.inode[s].open_cnt /\ e.inode[s].deny_write_cnt = w.inode[s].deny_write_cnt
       /\ e.inode[s].read_length = w.inode[s].read_length /\ e.inode[s].node = w.inode[s].node
       /\ e.inode[s].removed
  BY <1>5, <1>13, <1>16, RemovedSet
<1>19. Files(e) /\ Named(e) = Named(w) /\ e.fault = "none"
  BY <1>13, <1>15, <1>17, AlikeFiles DEF LiveIn, Alike
<1>20. s # ROOT_DIR_SECTOR
  BY <1>5 DEF Reserved
<1>21. PICK c : c = inode_close(e, s)
  OBVIOUS
<1>22. h = dir_close(c)
  <2>1. w = write_entry(g, k, name, s, FALSE)
    BY ONLY <1>0, <1>12
  <2> QED
    BY <1>3, <1>4, <1>6, <1>10, <1>16, <1>21, <2>1 DEF dir_remove
<1>23. f.inode[s] \in Inode /\ w.inode[s] = g.inode[s]
  BY <1>2, <1>5, <1>13, <1>20, NodeInType
<1>24. e.inode[s].open_cnt = f.inode[s].open_cnt + 1 /\ f.inode[s].open_cnt \in Nat
  BY <1>8, <1>18, <1>23 DEF Inode
<1>25. e.inode[s].open_cnt > 0 /\ s \notin Named(e) \cup Reserved
  BY <1>5, <1>13, <1>19, <1>24
<1>26. /\ c \in FileSystem /\ c.fault = e.fault /\ Files(c) /\ Named(c) = Named(e)
       /\ \A t \in Sector : t # s => c.inode[t] = e.inode[t]
       /\ c.inode[s].open_cnt = e.inode[s].open_cnt - 1
       /\ c.inode[s].open_cnt > 0 => /\ c.inode[s].removed = e.inode[s].removed
                                     /\ c.inode[s].deny_write_cnt = e.inode[s].deny_write_cnt
                                     /\ c.inode[s].read_length = e.inode[s].read_length
                                     /\ c.inode[s].node = e.inode[s].node
  BY <1>5, <1>17, <1>19, <1>21, <1>25, CloseStep
<1>27. RootFresh(c)
  BY <1>13, <1>17, <1>20, <1>26, RootSector DEF RootFresh
<1>28. Named(c) = Named(f0) \ {s}
  BY <1>2, <1>7, <1>13, <1>19, <1>26
<1>29. ASSUME NEW t \in Sector, t # ROOT_DIR_SECTOR PROVE InodeSound(c, q, x, t)
  <2>1. /\ f0.inode[t].open_cnt = RefsTo(q, x, t) + One(t = FREE_MAP_SECTOR)
        /\ f0.inode[t].open_cnt > 0 =>
              /\ f0.inode[t].read_length = f0.inode[t].node.length
              /\ f0.inode[t].deny_write_cnt = One(x = t)
              /\ f0.inode[t].removed => t \notin Named(f0) \cup Reserved
        /\ f.inode[t] = f0.inode[t]
    BY <1>1, <1>2, <1>29
  <2>2. CASE t # s
    <3>1. c.inode[t] = f0.inode[t]
      BY <1>8, <1>13, <1>17, <1>26, <1>29, <2>1, <2>2
    <3> QED
      BY <1>28, <2>1, <3>1 DEF InodeSound
  <2>3. CASE t = s
    <3>1. c.inode[s].open_cnt = f0.inode[s].open_cnt
      BY <1>24, <1>26, <2>1, <2>3
    <3>2. ASSUME c.inode[s].open_cnt > 0
          PROVE  /\ c.inode[s].read_length = c.inode[s].node.length /\ c.inode[s].deny_write_cnt = One(x = s)
                 /\ s \notin Named(c) \cup Reserved
      <4>1. f0.inode[s].open_cnt > 0 /\ f.inode[s] = f0.inode[s]
        BY <2>1, <2>3, <3>1, <3>2
      <4>2. NodeIn(f, s) = f.inode[s].node
        BY <4>1 DEF NodeIn
      <4>3. /\ c.inode[s].deny_write_cnt = f.inode[s].deny_write_cnt /\ c.inode[s].read_length = f.inode[s].read_length
            /\ c.inode[s].node = f.inode[s].node
        <5>1. /\ g.inode[s].node = NodeIn(f, s) /\ g.inode[s].deny_write_cnt = f.inode[s].deny_write_cnt
              /\ g.inode[s].read_length = f.inode[s].read_length
          BY <1>8, <4>1
        <5>2. /\ c.inode[s].deny_write_cnt = e.inode[s].deny_write_cnt
              /\ c.inode[s].read_length = e.inode[s].read_length /\ c.inode[s].node = e.inode[s].node
          BY <1>26, <3>2
        <5> QED
          BY ONLY <1>18, <1>23, <4>2, <5>1, <5>2
      <4> QED
        BY <1>5, <1>28, <2>1, <2>3, <4>1, <4>3
    <3> QED
      BY <2>1, <2>3, <3>1, <3>2 DEF InodeSound
  <2> QED
    BY <2>2, <2>3
<1>30. h \in FileSystem /\ h.fault = c.fault /\ Sound(h, q, x)
  BY <1>1, <1>22, <1>26, <1>27, <1>29, RootShut
<1>31. Quiet(f0, g, LiveIn(f0)) /\ LiveIn(g) = LiveIn(f0)
  <2>1. Quiet(f0, f, LiveIn(f0)) /\ LiveIn(f) = LiveIn(f0)
    BY <1>1, RootOpened, RootOpenedQuiet
  <2>2. Quiet(f, g, LiveIn(f))
    BY <1>2, <1>7, <1>8, AlikeQuiet
  <2> QED
    BY <1>7, <2>1, <2>2, QuietShrinks
<1>32. Quiet(w, h, LiveIn(h)) /\ LiveIn(h) \subseteq LiveIn(f0)
  <2>1. Quiet(w, e, LiveIn(w)) /\ LiveIn(e) = LiveIn(w)
    BY <1>13, <1>15, <1>17, <1>19, AlikeQuiet DEF LiveIn
  <2>2. LiveIn(c) \subseteq LiveIn(e) /\ Quiet(e, c, LiveIn(c))
    BY <1>5, <1>17, <1>19, <1>21, <1>25, CloseQuiet
  <2>3. LiveIn(h) \subseteq LiveIn(c) /\ Quiet(c, h, LiveIn(h))
    BY <1>22, <1>26, <1>27, RootShutQuiet
  <2>4. Quiet(w, c, LiveIn(c))
    BY <2>1, <2>2, QuietShrinks
  <2> QED
    BY <1>14, <1>31, <2>1, <2>2, <2>3, <2>4, QuietShrinks
<1>33. ASSUME NEW t \in LiveIn(h) \ {ROOT_DIR_SECTOR} PROVE SameFile(f0, h, t)
  <2>1. t \in LiveIn(g) /\ SameFile(f0, g, t) /\ SameFile(w, h, t)
    BY <1>31, <1>32 DEF Quiet
  <2>2. t \in Sector /\ Kept(g, t) /\ Untouched(g, w, t)
    BY <1>7, <1>13, <1>33, <2>1, LiveType
  <2>3. SameFile(g, w, t)
    BY <1>7, <1>13, <2>2, UntouchedSame
  <2> QED
    BY <2>1, <2>3, SameAgain
<1>34. RemoveDone(f0, h, name)
  BY <1>5, <1>13, <1>31, <1>32, <1>33 DEF RemoveDone, Quiet
<1> QED
  BY <1>19, <1>26, <1>30, <1>34
-----------------------------------------------------------------------------
(***************************************************************************)
(* Formatting, eviction, and the end of a run of the machine.              *)
(***************************************************************************)

\* The cache forgets a free sector.
Forgotten(f, s) == [f EXCEPT !.cached = @ \ {s}]

LEMMA Evicted ==
    ASSUME NEW f \in FileSystem, NEW q, NEW x, f.fault = "none" => Sound(f, q, x), NEW s,
           NEW h, h = Forgotten(f, s)
    PROVE  h \in FileSystem /\ (h.fault = "none" => Sound(h, q, x))
<1>1. PICK c : c = f.cached \ {s}
  OBVIOUS
<1>2. /\ f.disk \in [Sector -> Node] /\ f.free_map \in SUBSET Sector /\ f.cached \in SUBSET Sector
      /\ f.inode \in [Sector -> Inode] /\ f.block \in [Sector -> PointerBlock]
      /\ f.data \in [Sector -> [0 .. UNIT - 1 -> Unit]] /\ f.fault \in Fault
  BY DEF FileSystem
<1>3. h = [free_map |-> f.free_map, cached |-> c, disk |-> f.disk, inode |-> f.inode, block |-> f.block,
           data |-> f.data, fault |-> f.fault]
  BY ONLY f \in FileSystem, h = Forgotten(f, s), <1>1 DEF FileSystem, Forgotten
<1>4. c \in SUBSET Sector
  BY <1>1, <1>2
<1>5. h \in FileSystem
  BY ONLY <1>2, <1>3, <1>4 DEF FileSystem
<1>6. /\ h.free_map = f.free_map /\ h.disk = f.disk /\ h.inode = f.inode /\ h.block = f.block /\ h.data = f.data
      /\ h.fault = f.fault
  BY ONLY <1>3
<1>7. Alike(f, h) /\ OpenIn(h) = OpenIn(f)
  BY <1>6 DEF Alike, NodeIn, OpenIn
<1>8. ASSUME f.fault = "none" PROVE Sound(h, q, x)
  <2>1. Files(f) /\ RefsSound(q, x) /\ \A t \in Sector : InodeSound(f, q, x, t)
    BY <1>8 DEF Sound, Files
  <2>2. Files(h) /\ Named(h) = Named(f)
    BY <1>5, <1>7, <2>1, AlikeFiles DEF LiveIn
  <2>3. \A t \in Sector : InodeSound(h, q, x, t)
    BY <1>6, <2>1, <2>2 DEF InodeSound
  <2> QED
    BY <2>1, <2>2, <2>3 DEF Sound, Files
<1> QED
  BY <1>5, <1>6, <1>8

\* No process, and the free map open.
LEMMA Started ==
    ASSUME NEW f \in FileSystem, Files(f), \A s \in Sector : f.inode[s].open_cnt = 0,
           NEW h, h = inode_open(f, FREE_MAP_SECTOR)
    PROVE  h \in FileSystem /\ h.fault = f.fault /\ Sound(h, <<>>, None)
<1>1. FREE_MAP_SECTOR \in LiveIn(f) /\ FREE_MAP_SECTOR \in Sector
  BY RootSector DEF LiveIn, Reserved
<1>2. h \in FileSystem /\ h.fault = f.fault /\ Files(h) /\ Named(h) = Named(f)
  BY <1>1, OpenStep
<1>3. /\ \A t \in Sector : t # FREE_MAP_SECTOR => h.inode[t] = f.inode[t]
      /\ h.inode[FREE_MAP_SECTOR].open_cnt = f.inode[FREE_MAP_SECTOR].open_cnt + 1
      /\ h.inode[FREE_MAP_SECTOR].node = NodeIn(f, FREE_MAP_SECTOR)
      /\ ~ (f.inode[FREE_MAP_SECTOR].open_cnt > 0) =>
            /\ ~ h.inode[FREE_MAP_SECTOR].removed /\ h.inode[FREE_MAP_SECTOR].deny_write_cnt = 0
            /\ h.inode[FREE_MAP_SECTOR].read_length = NodeIn(f, FREE_MAP_SECTOR).length
  BY <1>1, OpenedFile
<1>4. ASSUME NEW t \in Sector PROVE InodeSound(h, <<>>, None, t)
  <2>1. RefsTo(<<>>, None, t) = 0 /\ One(None = t) = 0
    <3>1. None # t
      BY Constants
    <3>2. Openers(<<>>, t) = {}
      BY DEF Openers
    <3>3. Cardinality(Openers(<<>>, t)) = 0
      BY <3>2, FS_EmptySet
    <3> QED
      BY <3>1, <3>3 DEF RefsTo, One
  <2>2. CASE t = FREE_MAP_SECTOR
    <3>1. One(t = FREE_MAP_SECTOR) = 1
      BY <2>2 DEF One
    <3> QED
      BY <1>3, <2>1, <2>2, <3>1 DEF InodeSound
  <2>3. CASE t # FREE_MAP_SECTOR
    <3>1. One(t = FREE_MAP_SECTOR) = 0
      BY <2>3 DEF One
    <3> QED
      BY <1>3, <2>1, <2>3, <3>1 DEF InodeSound
  <2> QED
    BY <2>2, <2>3
<1>5. RefsSound(<<>>, None)
  BY Constants, RootSector DEF RefsSound, Reserved
<1> QED
  BY <1>2, <1>4, <1>5 DEF Sound, Files

\* The machine stops, with the open files written, and starts again.
Stopped(f) == [f EXCEPT !.inode = [s \in Sector |-> Closed], !.cached = {}]

LEMMA StopFiles ==
    ASSUME NEW f \in FileSystem, NEW q \in Seq(OpenFile), NEW x, Sound(f, q, x),
           \A s \in Sector : f.inode[s].open_cnt > 0 /\ ~ f.inode[s].removed => f.inode[s].node = f.disk[s],
           NEW h, h = Stopped(f)
    PROVE  /\ h \in FileSystem /\ h.fault = f.fault /\ Files(h) /\ (\A s \in Sector : h.inode[s].open_cnt = 0)
           /\ LiveIn(h) \subseteq LiveIn(f) /\ Quiet(f, h, LiveIn(h))
<1>1. PICK c : c = [s \in Sector |-> Closed]
  OBVIOUS
<1>2. /\ f.disk \in [Sector -> Node] /\ f.free_map \in SUBSET Sector /\ f.cached \in SUBSET Sector
      /\ f.inode \in [Sector -> Inode] /\ f.block \in [Sector -> PointerBlock]
      /\ f.data \in [Sector -> [0 .. UNIT - 1 -> Unit]] /\ f.fault \in Fault
  BY DEF FileSystem
<1>3. c \in [Sector -> Inode] /\ \A s \in Sector : c[s] = Closed
  BY <1>1, ZeroTyped
<1>4. h = [free_map |-> f.free_map, cached |-> {}, disk |-> f.disk, inode |-> c, block |-> f.block,
           data |-> f.data, fault |-> f.fault]
  BY ONLY f \in FileSystem, h = Stopped(f), <1>1 DEF FileSystem, Stopped
<1>5. {} \in SUBSET Sector
  OBVIOUS
<1>6. h \in FileSystem
  BY ONLY <1>2, <1>3, <1>4, <1>5 DEF FileSystem
<1>7. /\ h.free_map = f.free_map /\ h.disk = f.disk /\ h.inode = c /\ h.block = f.block /\ h.data = f.data
      /\ h.fault = f.fault
  BY ONLY <1>4
<1>8. \A s \in Sector : h.inode[s].open_cnt = 0
  BY <1>3, <1>7 DEF Closed
<1>9. PICK E : E = Reserved \cup Named(f)
  OBVIOUS
<1>10. /\ FilesKept(f, LiveIn(f)) /\ DirSound(f) /\ E \subseteq LiveIn(f) /\ E \subseteq Sector
       /\ ROOT_DIR_SECTOR \in E /\ Kept(f, ROOT_DIR_SECTOR)
  BY <1>9, SoundRoot, LiveType DEF Files, Reserved
<1>11. ASSUME NEW t \in E PROVE Untouched(f, h, t)
  <2>1. t \in Sector /\ InodeSound(f, q, x, t)
    BY <1>10, <1>11 DEF Sound
  <2>2. NodeIn(h, t) = f.disk[t]
    BY <1>7, <1>8, <2>1 DEF NodeIn
  <2>3. NodeIn(f, t) = f.disk[t]
    <3>1. f.inode[t].open_cnt > 0 => ~ f.inode[t].removed
      BY <1>9, <1>11, <2>1 DEF InodeSound
    <3> QED
      BY <2>1, <3>1 DEF NodeIn
  <2>4. Mine(f, t) \subseteq f.free_map
    <3>1. Kept(f, t)
      BY <1>10, <1>11 DEF FilesKept
    <3> QED
      BY <3>1 DEF Kept, Holds, Mine, OwnIn
  <2> QED
    BY <1>7, <2>2, <2>3, <2>4 DEF Untouched
<1>12. FilesKept(h, E)
  BY <1>6, <1>10, <1>11, FilesStay
<1>13. Named(h) = Named(f) /\ DirSound(h)
  BY <1>6, <1>10, <1>11, SameDirectory
<1>14. LiveIn(h) = E
  <2>1. OpenIn(h) = {}
    BY <1>8 DEF OpenIn
  <2> QED
    BY <1>9, <1>13, <2>1 DEF LiveIn
<1>15. Quiet(f, h, LiveIn(h))
  <2>1. FilesKept(f, E)
    BY <1>10 DEF FilesKept
  <2> QED
    BY <1>6, <1>10, <1>11, <1>14, <2>1, LeftQuiet
<1> QED
  BY <1>6, <1>7, <1>8, <1>10, <1>12, <1>13, <1>14, <1>15 DEF Files

\* inode_create of a file of one sector, while there is a free one.
LEMMA OneSector ==
    ASSUME NEW f \in FileSystem, f.fault = "none", f.cached = {}, Sector \ f.free_map # {},
           NEW s \in Sector, NEW size \in Nat, bytes_to_sectors(size) = 1, NEW h, h = inode_create(f, s, size)
    PROVE  h.fault = "none" /\ h.cached = {} /\ h.free_map = f.free_map \cup {free_map_scan(f)}
<1>1. PICK u : u = free_map_scan(f)
  OBVIOUS
<1>2. u \in Sector /\ u # None
  <2>1. \E t \in Sector \ f.free_map : \A r \in Sector \ f.free_map : t <= r
    <3>1. Sector \ f.free_map \subseteq Nat
      BY Constants DEF Sector
    <3> QED
      BY <3>1, LeastNumber
  <2>2. u \in Sector
    BY <1>1, <2>1 DEF free_map_scan, Min
  <2> QED
    BY <2>2, Constants
<1>3. PICK a : a = [f EXCEPT !.free_map = @ \cup {u}]
  OBVIOUS
<1>4. free_map_allocate(f) = [f |-> a, s |-> u]
  BY <1>1, <1>2, <1>3 DEF free_map_allocate
<1>5. PICK z : z = [a EXCEPT !.data[u] = ZeroData]
  OBVIOUS
<1>6. a.cached = {} /\ z.cached = {} /\ z.fault = "none" /\ z.free_map = f.free_map \cup {u}
  BY ONLY <1>3, <1>5, f \in FileSystem, f.cached = {}, f.fault = "none" DEF FileSystem
<1>7. write_zeros(a, u) = z
  BY <1>5, <1>6 DEF write_zeros, block_write
<1>8. PICK r : r = [f |-> f, n |-> NoNode]
  OBVIOUS
<1>9. grow_sector(r).f = z
  <2>1. r.f = f /\ r.n.direct_blk_idx = 0 /\ 0 < DIRECT
    BY <1>8, Constants DEF NoNode
  <2>2. grow_sector(r) = map_alloc(r)
    BY <2>1 DEF grow_sector
  <2>3. map_alloc(r).f = z
    BY <1>4, <1>7, <2>1 DEF map_alloc
  <2> QED
    BY <2>2, <2>3
<1>10. PICK g : g = inode_grow(f, NoNode, size)
  OBVIOUS
<1>11. g.f = z
  <2>1. bytes_to_sectors(NoNode.length) = 0
    BY NothingHeld
  <2>2. PICK w : GrownUpTo(w, f, NoNode, 1) /\ g = [w[1] EXCEPT !.n.length = size]
    <3>1. 1 = bytes_to_sectors(size) - bytes_to_sectors(NoNode.length)
      BY <2>1
    <3> QED
      BY <1>10, <3>1, GrownDefined
  <2>3. w[0] = r /\ w[1] = grow_sector(w[0])
    BY <1>8, <2>2 DEF GrownUpTo
  <2>4. grow_sector(r) = map_alloc(r)
    BY <1>8, Constants DEF grow_sector, NoNode
  <2>5. g.f = map_alloc(r).f
    BY <2>2, <2>3, <2>4 DEF map_alloc
  <2> QED
    BY <1>9, <2>4, <2>5
<1>12. PICK d : d = [z EXCEPT !.disk[s] = g.n]
  OBVIOUS
<1>13. d.cached = {} /\ d.fault = "none" /\ d.free_map = f.free_map \cup {u}
  BY ONLY <1>3, <1>5, <1>6, <1>12, f \in FileSystem DEF FileSystem
<1>14. h = d
  BY <1>10, <1>11, <1>12, <1>13 DEF inode_create, block_write
<1> QED
  BY <1>1, <1>13, <1>14

LEMMA OneEnough ==
    bytes_to_sectors(1) = 1 /\ bytes_to_sectors(DirSlots) = 1
<1>1. UNIT \in Nat \ {0} /\ DirSlots \in Nat \ {0} /\ DirSlots <= UNIT
  BY Constants
<1>2. ASSUME NEW n \in Nat \ {0}, n <= UNIT PROVE (n + UNIT - 1) \div UNIT = 1
  <2>1. UNIT <= n + UNIT - 1 /\ n + UNIT - 1 < UNIT + UNIT
    BY <1>1, <1>2
  <2> QED
    BY ONLY <1>1, <2>1, <1>2
<1>3. 1 <= UNIT
  BY <1>1
<1> QED
  BY <1>1, <1>2, <1>3 DEF bytes_to_sectors

LEMMA SectorLeft ==
    ASSUME NEW u, NEW v
    PROVE  Sector \ (Reserved \cup {u} \cup {v}) # {}
<1>1. 2 \in Sector /\ 3 \in Sector /\ 4 \in Sector
  BY Constants DEF Sector
<1> QED
  BY <1>1, RootSector DEF Reserved

\* do_format.
LEMMA Formatted ==
    ASSUME NEW h, h = do_format
    PROVE  h \in FileSystem /\ h.fault = "none" /\ Sound(h, <<>>, None) /\ Bound(h) = {} /\ LiveIn(h) = Reserved
<1>1. PICK b : b = [free_map |-> {FREE_MAP_SECTOR, ROOT_DIR_SECTOR}, cached |-> {},
                    disk |-> [s \in Sector |-> NoNode], inode |-> [s \in Sector |-> Closed],
                    block |-> [s \in Sector |-> NoBlock],
                    data |-> [s \in Sector |-> ZeroData], fault |-> "none"]
  OBVIOUS
<1>2. PICK d : d = inode_create(b, FREE_MAP_SECTOR, 1)
  OBVIOUS
<1>3. PICK e : e = inode_create(d, ROOT_DIR_SECTOR, DirSlots)
  OBVIOUS
<1>4. h = inode_open(e, FREE_MAP_SECTOR)
  BY <1>1, <1>2, <1>3 DEF do_format
<1>5. /\ FREE_MAP_SECTOR \in Sector /\ ROOT_DIR_SECTOR \in Sector /\ FREE_MAP_SECTOR # ROOT_DIR_SECTOR
      /\ DirSlots \in Nat
  BY RootSector, Constants
<1>6. b \in FileSystem /\ \A s \in Sector : b.inode[s].open_cnt = 0
  <2>1. {FREE_MAP_SECTOR, ROOT_DIR_SECTOR} \in SUBSET Sector /\ {} \in SUBSET Sector /\ "none" \in Fault
    BY <1>5 DEF Fault
  <2>2. [s \in Sector |-> NoNode] \in [Sector -> Node] /\ [s \in Sector |-> Closed] \in [Sector -> Inode]
    BY ZeroTyped
  <2>3. /\ [s \in Sector |-> NoBlock] \in [Sector -> PointerBlock]
        /\ [s \in Sector |-> ZeroData] \in [Sector -> [0 .. UNIT - 1 -> Unit]]
    BY ZeroTyped
  <2>4. b \in FileSystem
    BY ONLY <1>1, <2>1, <2>2, <2>3 DEF FileSystem
  <2>5. b.inode = [s \in Sector |-> Closed]
    BY ONLY <1>1
  <2>6. ASSUME NEW s \in Sector PROVE b.inode[s].open_cnt = 0
    BY <2>5 DEF Closed
  <2> QED
    BY <2>4, <2>6
<1>7. b.free_map = Reserved
  BY ONLY <1>1 DEF Reserved
<1>8. /\ d \in FileSystem /\ d.inode = b.inode
      /\ d.fault = "none" => \A D :
            FilesKept(b, D) /\ FREE_MAP_SECTOR \in b.free_map /\ (\A t \in D : FREE_MAP_SECTOR \notin Mine(b, t)) =>
               Made(b, D, FREE_MAP_SECTOR, 1, d)
  BY <1>2, <1>5, <1>6, MadeFile
<1>9. /\ e \in FileSystem /\ e.inode = d.inode /\ (d.fault # "none" => e.fault # "none")
      /\ e.fault = "none" => \A D :
            FilesKept(d, D) /\ ROOT_DIR_SECTOR \in d.free_map /\ (\A t \in D : ROOT_DIR_SECTOR \notin Mine(d, t)) =>
               Made(d, D, ROOT_DIR_SECTOR, DirSlots, e)
  <2>1. d.inode[ROOT_DIR_SECTOR].open_cnt = 0
    BY <1>5, <1>6, <1>8
  <2> QED
    BY <1>3, <1>5, <1>8, <2>1, MadeFile
<1>10. \A s \in Sector : e.inode[s].open_cnt = 0
  BY <1>6, <1>8, <1>9
<1>11. h \in FileSystem /\ h.fault = e.fault
  BY <1>4, <1>5, <1>9, OpenedFile DEF Alike
<1>0. e.fault = "none"
  <2>1. b.fault = "none" /\ b.cached = {} /\ Sector \ b.free_map # {}
    BY <1>1, <1>7, SectorLeft
  <2>2. d.fault = "none" /\ d.cached = {} /\ d.free_map = b.free_map \cup {free_map_scan(b)}
    <3>1. PICK l \in Nat : l = 1
      OBVIOUS
    <3>2. b \in FileSystem /\ FREE_MAP_SECTOR \in Sector /\ bytes_to_sectors(l) = 1
      BY <1>5, <1>6, <3>1, OneEnough
    <3>3. d = inode_create(b, FREE_MAP_SECTOR, l)
      BY <1>2, <3>1
    <3> QED
      BY ONLY <2>1, <3>2, <3>3, OneSector, l \in Nat
  <2>3. Sector \ d.free_map # {}
    BY <1>7, <2>2, SectorLeft
  <2> QED
    BY <1>3, <1>5, <1>8, <2>2, <2>3, OneEnough, OneSector
<1>12. Files(e) /\ Bound(e) = {} /\ LiveIn(e) = Reserved
  <2>1. FilesKept(b, {})
    BY DEF FilesKept
  <2>2. Made(b, {}, FREE_MAP_SECTOR, 1, d)
    BY <1>0, <1>7, <1>8, <1>9, <2>1 DEF Reserved
  <2>3. FilesKept(d, {FREE_MAP_SECTOR}) /\ Mine(d, FREE_MAP_SECTOR) \cap Reserved = {FREE_MAP_SECTOR}
    BY <1>7, <2>2 DEF Made
  <2>4. ROOT_DIR_SECTOR \in d.free_map /\ ROOT_DIR_SECTOR \notin Mine(d, FREE_MAP_SECTOR)
    <3>1. ROOT_DIR_SECTOR \notin Mine(d, FREE_MAP_SECTOR)
      BY <1>5, <2>3 DEF Reserved
    <3>2. ROOT_DIR_SECTOR \in d.free_map
      BY <1>7, <2>2 DEF Made, Reserved
    <3> QED
      BY <3>1, <3>2
  <2>5. Made(d, {FREE_MAP_SECTOR}, ROOT_DIR_SECTOR, DirSlots, e)
    BY <1>0, <1>9, <2>3, <2>4
  <2>6. /\ FilesKept(e, Reserved) /\ NodeIn(e, ROOT_DIR_SECTOR).length = DirSlots
        /\ \A q \in 0 .. DirSlots - 1 : UnitAt(e, ROOT_DIR_SECTOR, q) = Zero
    <3>1. /\ FilesKept(e, Reserved) /\ NodeIn(e, ROOT_DIR_SECTOR).length = DirSlots
          /\ \A q \in Nat : PaddedAt(e, ROOT_DIR_SECTOR, q) = Zero
      BY <2>5 DEF Made, Reserved
    <3>2. ASSUME NEW q \in 0 .. DirSlots - 1 PROVE UnitAt(e, ROOT_DIR_SECTOR, q) = Zero
      <4>1. q \in Nat /\ q < NodeIn(e, ROOT_DIR_SECTOR).length
        BY <1>5, <3>1
      <4> QED
        BY <1>5, <1>9, <3>1, <4>1, PaddedInside
    <3> QED
      BY <3>1, <3>2
  <2>7. Used(e) = {}
    BY <2>6, EntryUnit DEF Used
  <2>8. Named(e) = {} /\ DirSound(e) /\ OpenIn(e) = {}
    BY <1>10, <2>7 DEF Named, DirSound, OpenIn
  <2>9. Bound(e) = {}
    BY <2>7 DEF Bound
  <2> QED
    BY <2>6, <2>8, <2>9 DEF Files, LiveIn
<1>13. Sound(h, <<>>, None)
  BY <1>4, <1>9, <1>10, <1>12, Started
<1>14. Bound(h) = {} /\ LiveIn(h) = Reserved
  <2>1. FREE_MAP_SECTOR \in LiveIn(e)
    BY DEF LiveIn, Reserved
  <2>2. LiveIn(h) = LiveIn(e) /\ Quiet(e, h, LiveIn(e))
    BY <1>4, <1>9, <1>12, <2>1, OpenStep, OpenQuiet
  <2> QED
    BY <1>12, <2>2 DEF Quiet
<1> QED
  BY <1>0, <1>11, <1>13, <1>14
-----------------------------------------------------------------------------
(***************************************************************************)
(* Every step keeps the invariant.                                         *)
(***************************************************************************)

LEMMA Sizes ==
    CreateSize \subseteq Nat /\ WriteSize \subseteq Nat /\ SeekPos \subseteq Nat
BY FileSysAssumption

LEMMA InitKeeps == Init => IInv
<1> SUFFICES ASSUME Init PROVE IInv
  OBVIOUS
<1>1. fs \in FileSystem /\ (fs.fault = "none" => Sound(fs, <<>>, None))
  BY Formatted DEF Init
<1>2. <<>> \in Seq(OpenFile) /\ 2 \in 2 .. MaxFd + 2
  BY Constants
<1> QED
  BY <1>1, <1>2 DEF Init, IInv

\* The length that a read of a file returns.
LEMMA ReadLength ==
    ASSUME NEW f \in FileSystem, NEW s \in Sector, NEW size \in Nat, NEW offset \in Nat
    PROVE  Len(inode_read_at(f, s, size, offset)) \in Nat
<1>1. PICK left \in Int : left = f.inode[s].read_length - offset
  <2>1. f.inode[s].read_length \in Nat
    BY NodeInType DEF Inode
  <2> QED
    BY <2>1
<1>2. PICK l \in Nat : l = IF left < 0 THEN 0 ELSE IF size < left THEN size ELSE left
  OBVIOUS
<1>3. PICK r : r = inode_read_at(f, s, size, offset)
  OBVIOUS
<1>4. r = [k \in 1 .. l |-> f.data[byte_to_sector(f, f.inode[s].node, offset + k - 1)][(offset + k - 1) % UNIT]]
  BY <1>1, <1>2, <1>3 DEF inode_read_at
<1>5. Len(r) = l
  BY <1>4
<1> QED
  BY <1>3, <1>5

LEMMA Stays ==
    ASSUME IInv, UNCHANGED vars
    PROVE  IInv'
BY DEF IInv, vars, Sound, RefsSound

LEMMA RemoveKeeps ==
    ASSUME IInv, NEW name \in Name, remove(name)
    PROVE  IInv'
<1>1. /\ fs \in FileSystem /\ fs.fault = "none" /\ Sound(fs, open_files, thread_file)
      /\ open_files \in Seq(OpenFile)
  BY DEF IInv, remove, Running
<1>2. PICK f : f = dir_open_root(fs)
  OBVIOUS
<1>3. lookup(f, name) # 0 /\ fs' = dir_close(dir_remove(f, name))
  BY <1>2 DEF remove, Known
<1>4. fs' \in FileSystem /\ Sound(fs', open_files, thread_file)
  BY <1>1, <1>2, <1>3, RemoveSound
<1> QED
  BY <1>4 DEF IInv, remove, SameFiles

LEMMA CreateKeeps ==
    ASSUME IInv, NEW name \in Name, NEW size \in CreateSize, create(name, size)
    PROVE  IInv'
<1>1. /\ fs \in FileSystem /\ fs.fault = "none" /\ Sound(fs, open_files, thread_file)
      /\ open_files \in Seq(OpenFile) /\ size \in Nat /\ fs' = filesys_create(fs, name, size)
  BY Sizes DEF IInv, create, Running
<1>2. fs' \in FileSystem /\ (fs'.fault = "none" => Sound(fs', open_files, thread_file))
  BY <1>1, CreateSound
<1> QED
  BY <1>2 DEF IInv, create, SameFiles

LEMMA OpenKeeps ==
    ASSUME IInv, NEW name \in Name, open(name)
    PROVE  IInv'
<1>1. /\ fs \in FileSystem /\ fs.fault = "none" /\ Sound(fs, open_files, thread_file)
      /\ open_files \in Seq(OpenFile) /\ next_fd \in 2 .. MaxFd + 2 /\ next_fd < MaxFd + 2
  BY DEF IInv, open, Running
<1>2. PICK f : f = dir_open_root(fs)
  OBVIOUS
<1>3. PICK s : s = sector_of(f, name)
  OBVIOUS
<1>4. lookup(f, name) # 0 /\ fs' = inode_open(fs, s)
  BY <1>2, <1>3 DEF open, Known, Target
<1>5. s \in Sector /\ s \in LiveIn(fs) /\ s \notin Reserved
  BY <1>1, <1>2, <1>3, <1>4, TargetNamed
<1>6. PICK o : o = [fd |-> next_fd, inode |-> s, pos |-> 0]
  OBVIOUS
<1>7. MaxFd \in Nat
  BY Constants
<1>8. o \in OpenFile /\ o.inode = s
  BY <1>1, <1>5, <1>6, <1>7 DEF OpenFile
<1>9. open_files' = Append(open_files, o) /\ next_fd' = next_fd + 1 /\ thread_file' = thread_file
  BY <1>2, <1>3, <1>6 DEF open, add_file, Target
<1>10. fs' \in FileSystem /\ open_files' \in Seq(OpenFile) /\ Sound(fs', open_files', thread_file)
  <2>1. PICK h : h = fs'
    OBVIOUS
  <2>2. PICK r : r = open_files'
    OBVIOUS
  <2>3. h \in FileSystem /\ r \in Seq(OpenFile) /\ Sound(h, r, thread_file)
    <3>1. h = inode_open(fs, s) /\ r = Append(open_files, o)
      BY ONLY <1>4, <1>9, <2>1, <2>2
    <3>2. fs \in FileSystem /\ Sound(fs, open_files, thread_file) /\ open_files \in Seq(OpenFile)
      BY <1>1
    <3>3. h \in FileSystem /\ r \in Seq(OpenFile)
      BY ONLY <1>5, <1>8, <3>1, <3>2, OpenSound
    <3>4. Sound(h, r, thread_file)
      BY ONLY <1>5, <1>8, <3>1, <3>2, OpenSound
    <3> QED
      BY ONLY <3>3, <3>4
  <2> QED
    BY <2>1, <2>2, <2>3
<1>11. next_fd' \in 2 .. MaxFd + 2
  BY ONLY <1>1, <1>7, <1>9
<1> QED
  BY <1>9, <1>10, <1>11 DEF IInv

LEMMA LoadKeeps ==
    ASSUME IInv, NEW name \in Name, load_open(name)
    PROVE  IInv'
<1>1. /\ fs \in FileSystem /\ fs.fault = "none" /\ Sound(fs, open_files, None)
      /\ open_files \in Seq(OpenFile) /\ next_fd \in 2 .. MaxFd + 2
  BY DEF IInv, load_open, Running
<1>2. PICK f : f = dir_open_root(fs)
  OBVIOUS
<1>3. PICK s : s = sector_of(f, name)
  OBVIOUS
<1>4. /\ lookup(f, name) # 0 /\ fs' = file_deny_write(inode_open(fs, s), s) /\ thread_file' = s
      /\ open_files' = open_files /\ next_fd' = next_fd
  BY <1>2, <1>3 DEF load_open, Known, Target
<1>5. s \in Sector /\ s \in LiveIn(fs) /\ s \notin Reserved
  BY <1>1, <1>2, <1>3, <1>4, TargetNamed
<1>6. fs' \in FileSystem /\ Sound(fs', open_files, s)
  BY <1>1, <1>4, <1>5, LoadSound
<1> QED
  BY <1>1, <1>4, <1>5, <1>6 DEF IInv

LEMMA MoveKeeps ==
    ASSUME IInv, NEW i \in 1 .. Len(open_files), NEW p \in Nat, open_files' = Placing(open_files, i, p),
           UNCHANGED <<fs, next_fd, thread_file>>
    PROVE  IInv'
<1>1. open_files \in Seq(OpenFile)
  BY DEF IInv
<1>2. open_files' \in Seq(OpenFile)
  BY <1>1, OpenersMoved
<1>3. fs.fault = "none" => Sound(fs, open_files', thread_file)
  BY <1>1, MovedSound DEF IInv
<1> QED
  BY <1>2, <1>3 DEF IInv

LEMMA ReadKeeps ==
    ASSUME IInv, NEW i \in 1 .. Len(open_files), NEW size \in WriteSize, read(i, size)
    PROVE  IInv'
<1>1. open_files \in Seq(OpenFile) /\ fs \in FileSystem /\ size \in Nat
  BY Sizes DEF IInv
<1>2. open_files[i].inode \in Sector /\ open_files[i].pos \in Nat
  BY <1>1, OpenersSome
<1>3. PICK n \in Nat : n = Len(inode_read_at(fs, open_files[i].inode, size, open_files[i].pos))
  BY <1>1, <1>2, ReadLength
<1>4. PICK p \in Nat : p = open_files[i].pos + n
  BY <1>2
<1>5. open_files' = Placing(open_files, i, p) /\ UNCHANGED <<fs, next_fd, thread_file>>
  BY <1>3, <1>4 DEF read, advanced, Placing
<1> QED
  BY <1>5, MoveKeeps

LEMMA SeekKeeps ==
    ASSUME IInv, NEW i \in 1 .. Len(open_files), NEW position \in SeekPos, seek(i, position)
    PROVE  IInv'
<1>1. position \in Nat /\ open_files' = Placing(open_files, i, position) /\ UNCHANGED <<fs, next_fd, thread_file>>
  BY Sizes DEF seek, file_seek, Placing
<1> QED
  BY <1>1, MoveKeeps

LEMMA WriteKeeps ==
    ASSUME IInv, NEW i \in 1 .. Len(open_files), NEW size \in WriteSize, NEW value \in Value, write(i, size, value)
    PROVE  IInv'
<1>1. /\ fs \in FileSystem /\ fs.fault = "none" /\ Sound(fs, open_files, thread_file)
      /\ open_files \in Seq(OpenFile) /\ size \in Nat
  BY Sizes DEF IInv, write, Running
<1>2. PICK s : s = open_files[i].inode
  OBVIOUS
<1>3. PICK o : o = open_files[i].pos
  OBVIOUS
<1>4. s \in Sector /\ o \in Nat /\ Cardinality(Openers(open_files, s)) \in Nat \ {0}
  BY <1>1, <1>2, <1>3, OpenersSome
<1>5. s \notin Reserved /\ fs.inode[s].open_cnt > 0
  <2>1. InodeSound(fs, open_files, thread_file, s) /\ RefsSound(open_files, thread_file)
    BY <1>1, <1>4 DEF Sound
  <2>2. s \notin Reserved
    BY <1>2, <2>1 DEF RefsSound
  <2>3. One(thread_file = s) \in {0, 1} /\ One(s = FREE_MAP_SECTOR) \in {0, 1}
    BY DEF One
  <2>4. fs.inode[s].open_cnt = Cardinality(Openers(open_files, s)) + One(thread_file = s) + One(s = FREE_MAP_SECTOR)
    BY <2>1 DEF InodeSound, RefsTo
  <2> QED
    BY ONLY <1>4, <2>2, <2>3, <2>4
<1>6. PICK b : b = [v |-> value]
  OBVIOUS
<1>7. b \in Unit
  BY <1>6 DEF Unit
<1>8. PICK buf : buf = [k \in 1 .. size |-> b]
  OBVIOUS
<1>9. buf \in Seq(Unit)
  BY ONLY <1>1, <1>7, <1>8
<1>10. fs' = inode_write_at(fs, s, buf, o)
  BY <1>2, <1>3, <1>6, <1>8 DEF write
<1>11. fs' \in FileSystem /\ (fs'.fault = "none" => Sound(fs', open_files, thread_file))
  BY <1>1, <1>4, <1>5, <1>9, <1>10, WriteSound
<1>12. PICK n \in Nat : n = IF denied(fs.inode[s]) THEN 0 ELSE size
  BY <1>1
<1>13. PICK p \in Nat : p = o + n
  BY <1>4
<1>14. open_files' = Placing(open_files, i, p) /\ next_fd' = next_fd /\ thread_file' = thread_file
  BY <1>2, <1>3, <1>12, <1>13 DEF write, advanced, Placing
<1>15. open_files' \in Seq(OpenFile)
  BY <1>1, <1>14, OpenersMoved
<1>16. fs'.fault = "none" => Sound(fs', open_files', thread_file)
  BY <1>1, <1>11, <1>14, MovedSound
<1> QED
  BY <1>11, <1>14, <1>15, <1>16 DEF IInv

LEMMA CloseKeeps ==
    ASSUME IInv, NEW i \in 1 .. Len(open_files), close(i)
    PROVE  IInv'
<1>1. /\ fs \in FileSystem /\ fs.fault = "none" /\ Sound(fs, open_files, thread_file)
      /\ open_files \in Seq(OpenFile)
      /\ fs' = inode_close(fs, open_files[i].inode) /\ open_files' = RemoveAt(open_files, i)
  BY DEF IInv, close, Running
<1>2. fs' \in FileSystem /\ open_files' \in Seq(OpenFile) /\ Sound(fs', open_files', thread_file)
  <2>1. PICK h : h = fs'
    OBVIOUS
  <2>2. PICK r : r = open_files'
    OBVIOUS
  <2>3. h \in FileSystem /\ r \in Seq(OpenFile) /\ Sound(h, r, thread_file)
    BY <1>1, <2>1, <2>2, CloseSound
  <2> QED
    BY <2>1, <2>2, <2>3
<1> QED
  BY <1>2 DEF IInv, close

LEMMA ExitKeeps ==
    ASSUME IInv, exit_close
    PROVE  IInv'
<1>1. /\ fs \in FileSystem /\ fs.fault = "none" /\ Sound(fs, open_files, thread_file)
      /\ open_files \in Seq(OpenFile) /\ thread_file \in Sector \cup {None}
  BY DEF IInv, exit_close, Running
<1>2. thread_file' = None /\ next_fd' = 2 /\ open_files' = open_files /\ 2 \in 2 .. MaxFd + 2
  BY Constants DEF exit_close
<1>3. fs' \in FileSystem /\ Sound(fs', open_files, None)
  <2>1. CASE thread_file = None
    BY <1>1, <2>1 DEF exit_close
  <2>2. CASE thread_file # None
    <3>1. thread_file \in Sector /\ fs' = file_close(fs, thread_file)
      BY <1>1, <2>2 DEF exit_close
    <3> QED
      BY <1>1, <3>1, ExitSound
  <2> QED
    BY <2>1, <2>2
<1> QED
  BY <1>1, <1>2, <1>3 DEF IInv

LEMMA HaltKeeps ==
    ASSUME IInv, Halt
    PROVE  IInv'
<1>1. /\ fs \in FileSystem /\ fs.fault = "none" /\ Sound(fs, open_files, thread_file)
      /\ open_files \in Seq(OpenFile)
  BY DEF IInv, Halt, Running
<1>2. /\ thread_file' = None /\ next_fd' = 2 /\ open_files' = <<>> /\ 2 \in 2 .. MaxFd + 2
      /\ <<>> \in Seq(OpenFile)
  BY Constants DEF Halt
<1>3. fs' \in FileSystem /\ (fs'.fault = "none" => Sound(fs', <<>>, None))
  <2>1. CASE Unsaved
    <3>1. fs' = Fails(fs, "unsaved") /\ "unsaved" \in Fault
      BY <2>1 DEF Halt, Fault
    <3>2. fs'.fault # "none"
      BY <1>1, <3>1 DEF Fails, FileSystem
    <3> QED
      BY <1>1, <3>1, <3>2, FailsTyped
  <2>2. CASE ~ Unsaved
    <3>1. PICK h : h = Stopped(fs)
      OBVIOUS
    <3>2. fs' = inode_open(h, FREE_MAP_SECTOR)
      BY <2>2, <3>1 DEF Halt, Stopped
    <3>3. \A s \in Sector : fs.inode[s].open_cnt > 0 /\ ~ fs.inode[s].removed => fs.inode[s].node = fs.disk[s]
      BY <2>2 DEF Unsaved
    <3>4. h \in FileSystem /\ Files(h) /\ \A s \in Sector : h.inode[s].open_cnt = 0
      BY <1>1, <3>1, <3>3, StopFiles
    <3> QED
      BY <3>2, <3>4, Started
  <2> QED
    BY <2>1, <2>2
<1> QED
  BY <1>2, <1>3 DEF IInv

LEMMA EvictKeeps ==
    ASSUME IInv, NEW s \in Sector, Evict(s)
    PROVE  IInv'
<1>1. fs' = Forgotten(fs, s)
  BY DEF Evict, Forgotten
<1>2. fs' \in FileSystem /\ (fs'.fault = "none" => Sound(fs', open_files, thread_file))
  BY <1>1, Evicted DEF IInv
<1> QED
  BY <1>2 DEF IInv, Evict, SameFiles

LEMMA NextKeeps ==
    ASSUME IInv, [Next]_vars
    PROVE  IInv'
<1>1. ASSUME NEW name \in Name, remove(name) PROVE IInv'
  BY <1>1, RemoveKeeps
<1>2. ASSUME NEW name \in Name, open(name) PROVE IInv'
  BY <1>2, OpenKeeps
<1>3. ASSUME NEW name \in Name, load_open(name) PROVE IInv'
  BY <1>3, LoadKeeps
<1>4. ASSUME NEW name \in Name, NEW size \in CreateSize, create(name, size) PROVE IInv'
  BY <1>4, CreateKeeps
<1>5. ASSUME NEW i \in 1 .. Len(open_files), close(i) PROVE IInv'
  BY <1>5, CloseKeeps
<1>6. ASSUME NEW i \in 1 .. Len(open_files), NEW position \in SeekPos, seek(i, position) PROVE IInv'
  BY <1>6, SeekKeeps
<1>7. ASSUME NEW i \in 1 .. Len(open_files), NEW size \in WriteSize, read(i, size) PROVE IInv'
  BY <1>7, ReadKeeps
<1>8. ASSUME NEW i \in 1 .. Len(open_files), NEW size \in WriteSize, NEW v \in Value, write(i, size, v) PROVE IInv'
  BY <1>8, WriteKeeps
<1>9. ASSUME exit_close PROVE IInv'
  BY <1>9, ExitKeeps
<1>10. ASSUME Halt PROVE IInv'
  BY <1>10, HaltKeeps
<1>11. ASSUME NEW s \in Sector, Evict(s) PROVE IInv'
  BY <1>11, EvictKeeps
<1>12. ASSUME UNCHANGED vars PROVE IInv'
  BY <1>12, Stays
<1>13. CASE Next
  BY <1>1, <1>2, <1>3, <1>4, <1>5, <1>6, <1>7, <1>8, <1>9, <1>10, <1>11, <1>13 DEF Next
<1> QED
  BY <1>12, <1>13
-----------------------------------------------------------------------------
(***************************************************************************)
(* What the invariant says about the sectors.                              *)
(***************************************************************************)

LEMMA EntriesNamed ==
    ASSUME NEW f \in FileSystem, Files(f), f.inode[ROOT_DIR_SECTOR].open_cnt = 0,
           NEW h, h = dir_open_root(f), NEW es, es = root_entries(h)
    PROVE  {e.sector : e \in {e \in {es[k] : k \in 1 .. Len(es)} : in_use(e)}} \subseteq Named(f)
<1>1. h \in FileSystem /\ RootOpen(h) /\ Named(h) = Named(f)
  BY RootOpened
<1>2. PICK l : l = NodeIn(h, ROOT_DIR_SECTOR).length
  OBVIOUS
<1>3. l \in Nat /\ Len(es) = l /\ \A k \in 1 .. l : es[k] = UnitAt(h, ROOT_DIR_SECTOR, k - 1)
  BY <1>1, <1>2, RootEntries
<1>4. ASSUME NEW k \in 1 .. Len(es), in_use(es[k]) PROVE es[k].sector \in Named(f)
  <2>1. k - 1 \in 0 .. l - 1 /\ es[k] = UnitAt(h, ROOT_DIR_SECTOR, k - 1)
    BY <1>3, <1>4
  <2>2. k - 1 \in Used(h) /\ es[k].sector = SectorAt(h, k - 1)
    BY <1>2, <1>4, <2>1 DEF Used, SectorAt
  <2> QED
    BY <1>1, <2>2 DEF Named
<1> QED
  BY <1>4

LEMMA SectorsApart ==
    ASSUME NEW f \in FileSystem, NEW D, FilesKept(f, D)
    PROVE  /\ \A s \in D : /\ {s} \cup node_sectors(f, NodeIn(f, s)) \subseteq f.free_map
                           /\ Cardinality({s} \cup node_sectors(f, NodeIn(f, s))) =
                                 1 + bytes_to_sectors(NodeIn(f, s).length) + indirect_sectors(NodeIn(f, s))
           /\ \A s, t \in D : s # t =>
                 ({s} \cup node_sectors(f, NodeIn(f, s))) \cap ({t} \cup node_sectors(f, NodeIn(f, t))) = {}
<1>1. ASSUME NEW s \in D
      PROVE  /\ {s} \cup node_sectors(f, NodeIn(f, s)) = Mine(f, s) /\ Mine(f, s) \subseteq f.free_map
             /\ Cardinality(Mine(f, s)) = 1 + bytes_to_sectors(NodeIn(f, s).length) + indirect_sectors(NodeIn(f, s))
  <2>1. s \in Sector /\ Kept(f, s)
    BY <1>1 DEF FilesKept
  <2>2. PICK n \in Node : n = NodeIn(f, s)
    BY <2>1, NodeInType
  <2>3. PICK m : m = bytes_to_sectors(n.length)
    OBVIOUS
  <2>4. /\ Filled(n, m) /\ Apart(f, n, m) /\ Own(f, n, m) \subseteq f.free_map /\ s \in f.free_map
        /\ s \notin Own(f, n, m) /\ Mine(f, s) = {s} \cup Own(f, n, m)
    BY <2>1, <2>2, <2>3 DEF Kept, Holds, SizeIn, OwnIn, Mine
  <2>5. /\ node_sectors(f, n) = Own(f, n, m)
        /\ IsFiniteSet(Own(f, n, m)) /\ Cardinality(Own(f, n, m)) = m + indirect_sectors(n)
    BY <2>3, <2>4, NodeSectors
  <2>6. m \in Nat /\ indirect_sectors(n) \in Nat
    <3>1. m \in Nat /\ indirect_sectors(n) = IF m <= DIRECT THEN 0 ELSE ((m - DIRECT - 1) \div PTRS) + 1
      BY <2>3, BlocksOf
    <3>2. DIRECT \in Nat \ {0} /\ PTRS \in Nat \ {0}
      BY Constants
    <3>3. m > DIRECT => (m - DIRECT - 1) \div PTRS \in Nat
      BY ONLY <3>1, <3>2, QuotientType
    <3> QED
      BY ONLY <3>1, <3>2, <3>3
  <2>7. Cardinality({s} \cup Own(f, n, m)) = Cardinality(Own(f, n, m)) + 1
    <3>1. Cardinality(Own(f, n, m) \cup {s}) = Cardinality(Own(f, n, m)) + 1
      BY ONLY <2>4, <2>5, FS_AddElement
    <3>2. {s} \cup Own(f, n, m) = Own(f, n, m) \cup {s}
      OBVIOUS
    <3> QED
      BY <3>1, <3>2
  <2>8. Cardinality({s} \cup Own(f, n, m)) = 1 + m + indirect_sectors(n)
    BY ONLY <2>5, <2>6, <2>7
  <2> QED
    BY ONLY <2>2, <2>3, <2>4, <2>5, <2>8
<1>2. \A s, t \in D : s # t => Mine(f, s) \cap Mine(f, t) = {}
  BY DEF FilesKept
<1> QED
  BY <1>1, <1>2

LEMMA InvariantDisjoint == IInv => SectorsDisjoint
<1> SUFFICES ASSUME IInv PROVE SectorsDisjoint
  OBVIOUS
<1>1. TypeOK
  <2>1. /\ fs.free_map \subseteq Sector /\ fs.cached \subseteq Sector /\ fs.fault \in Fault
        /\ \A s \in Sector :
              /\ fs.disk[s] \in Node /\ fs.inode[s] \in Inode
              /\ fs.block[s] \in [0 .. PTRS - 1 -> Sector]
              /\ fs.data[s] \in [0 .. UNIT - 1 -> Unit]
    BY DEF IInv, FileSystem, PointerBlock
  <2>2. \A i \in 1 .. Len(open_files) : open_files[i] \in [fd : Nat, inode : Sector, pos : Nat]
    BY OpenersType DEF IInv, OpenFile
  <2> QED
    BY <2>1, <2>2 DEF IInv, TypeOK
<1>2. ASSUME fs.fault = "none"
      PROVE  LET Live == {e.sector : e \in Entries} \cup Opened \cup {FREE_MAP_SECTOR, ROOT_DIR_SECTOR} IN
             /\ \A s \in Live : Owned(s) \subseteq fs.free_map
             /\ \A s \in Live : Cardinality(Owned(s)) =
                   1 + bytes_to_sectors(NodeOf(s).length) + indirect_sectors(NodeOf(s))
             /\ \A s, t \in Live : s # t => Owned(s) \cap Owned(t) = {}
  <2>1. fs \in FileSystem /\ Files(fs) /\ fs.inode[ROOT_DIR_SECTOR].open_cnt = 0
    BY <1>2, SoundRoot DEF IInv
  <2>2. PICK h : h = dir_open_root(fs)
    OBVIOUS
  <2>3. PICK es : es = root_entries(h)
    OBVIOUS
  <2>4. {e.sector : e \in {e \in {es[k] : k \in 1 .. Len(es)} : in_use(e)}} \subseteq Named(fs)
    BY <2>1, <2>2, <2>3, EntriesNamed
  <2>5. Entries = {e \in {es[k] : k \in 1 .. Len(es)} : in_use(e)}
    BY <2>2, <2>3 DEF Entries
  <2>6. PICK L : L = {e.sector : e \in Entries} \cup Opened \cup {FREE_MAP_SECTOR, ROOT_DIR_SECTOR}
    OBVIOUS
  <2>7. L \subseteq LiveIn(fs)
    <3>1. {e.sector : e \in Entries} \subseteq Named(fs)
      BY ONLY <2>4, <2>5
    <3> QED
      BY <2>6, <3>1 DEF LiveIn, OpenIn, Opened, Reserved
  <2>8. \A s : Owned(s) = {s} \cup node_sectors(fs, NodeIn(fs, s)) /\ NodeOf(s) = NodeIn(fs, s)
    BY DEF Owned, NodeOf, NodeIn
  <2>9. FilesKept(fs, LiveIn(fs))
    BY <2>1 DEF Files
  <2>10. /\ \A s \in LiveIn(fs) : Owned(s) \subseteq fs.free_map
         /\ \A s \in LiveIn(fs) : Cardinality(Owned(s)) =
               1 + bytes_to_sectors(NodeOf(s).length) + indirect_sectors(NodeOf(s))
         /\ \A s, t \in LiveIn(fs) : s # t => Owned(s) \cap Owned(t) = {}
    BY <2>1, <2>8, <2>9, SectorsApart
  <2> QED
    BY ONLY <2>6, <2>7, <2>10
<1> QED
  BY <1>1, <1>2 DEF SectorsDisjoint, Running

\* No sector belongs to two files, every sector of a file is marked in the free
\* map, and a file has as many sectors as its length needs, whatever files are
\* created, written, removed and kept open, and however the device is laid out
\* (inode.c, free-map.c, directory.c).
THEOREM SectorsStayDisjoint == Spec => []SectorsDisjoint
<1>1. Init => IInv
  BY InitKeeps
<1>2. IInv /\ [Next]_vars => IInv'
  BY NextKeeps
<1>3. IInv => SectorsDisjoint
  BY InvariantDisjoint
<1> QED
  BY <1>1, <1>2, <1>3, PTL DEF Spec
-----------------------------------------------------------------------------
(***************************************************************************)
(* What the callers of the file system see.                                *)
(***************************************************************************)

NamesApart(f) == \A n, s, t : <<n, s>> \in Bound(f) /\ <<n, t>> \in Bound(f) => s = t
Tidy(f) == NamesApart(f) /\ \A t \in LiveIn(f) \ Reserved : Blank(f, t)

\* The file system f with the descriptors q and the executable x, as a store.
TextIn(f, s) == [k \in 1 .. NodeIn(f, s).length |-> PaddedAt(f, s, k - 1)]
Alive(f, q, x) == {s \in Sector : RefsTo(q, x, s) > 0 \/ s \in Named(f)}
Where(f, n) == IF \E s : <<n, s>> \in Bound(f) THEN CHOOSE s : <<n, s>> \in Bound(f) ELSE None
NamesIn(f) == [n \in Name |-> Where(f, n)]
TextsIn(f, q, x) == [s \in Sector |-> IF s \in Alive(f, q, x) THEN TextIn(f, s) ELSE Gone]
HeldIn(q, x) == [s \in Sector |-> RefsTo(q, x, s)]
StoreOf(f, q, x) ==
    [names |-> NamesIn(f), content |-> TextsIn(f, q, x), held |-> HeldIn(q, x), exec |-> x,
     broken |-> f.fault # "none"]

LEMMA Binding ==
    ASSUME NEW f \in FileSystem, Files(f), NEW n, NEW s, <<n, s>> \in Bound(f)
    PROVE  n \in Name /\ s \in Named(f) /\ s \in Sector /\ s \notin Reserved
<1>1. PICK q \in Used(f) : n = NameAt(f, q) /\ s = SectorAt(f, q)
  BY DEF Bound
<1>2. s \in Named(f) /\ s \in Sector /\ s \notin Reserved
  BY <1>1 DEF Named, Files, DirSound, Reserved
<1>3. UnitAt(f, ROOT_DIR_SECTOR, q) \in Unit /\ in_use(UnitAt(f, ROOT_DIR_SECTOR, q))
  <2>1. Kept(f, ROOT_DIR_SECTOR)
    BY LiveType
  <2>2. q \in 0 .. NodeIn(f, ROOT_DIR_SECTOR).length - 1 /\ in_use(UnitAt(f, ROOT_DIR_SECTOR, q))
    BY <1>1 DEF Used
  <2> QED
    BY <2>1, <2>2, RootSector, UnitType
<1>4. UnitAt(f, ROOT_DIR_SECTOR, q) \in Entry
  BY <1>3, EntryUnit
<1> QED
  BY <1>1, <1>2, <1>4 DEF NameAt, Entry

LEMMA WhereIs ==
    ASSUME NEW f, NamesApart(f), NEW n
    PROVE  /\ \A s : <<n, s>> \in Bound(f) => Where(f, n) = s
           /\ (\A s : <<n, s>> \notin Bound(f)) => Where(f, n) = None
BY DEF Where, NamesApart

LEMMA WhereNamed ==
    ASSUME NEW f \in FileSystem, Files(f), NamesApart(f)
    PROVE  \A s \in Sector : s \in Named(f) <=> \E n \in Name : Where(f, n) = s
<1>1. ASSUME NEW s \in Named(f) PROVE \E n \in Name : Where(f, n) = s
  <2>1. PICK q \in Used(f) : s = SectorAt(f, q)
    BY DEF Named
  <2>2. PICK n : n = NameAt(f, q)
    OBVIOUS
  <2>3. <<n, s>> \in Bound(f)
    BY <2>1, <2>2 DEF Bound
  <2> QED
    BY <2>3, Binding, WhereIs
<1>2. ASSUME NEW s \in Sector, NEW n \in Name, Where(f, n) = s PROVE s \in Named(f)
  <2>1. s # None
    BY Constants
  <2>2. PICK t : <<n, t>> \in Bound(f)
    BY <1>2, <2>1, WhereIs
  <2>3. <<n, s>> \in Bound(f)
    BY <1>2, <2>2, WhereIs
  <2> QED
    BY <2>3, Binding
<1> QED
  BY <1>1, <1>2

\* A file with openers is one of those that are kept.
LEMMA HeldLive ==
    ASSUME NEW f \in FileSystem, NEW q \in Seq(OpenFile), NEW x, Sound(f, q, x), NEW s \in Sector,
           s \in Alive(f, q, x)
    PROVE  s \in LiveIn(f) \ Reserved
<1>1. Files(f) /\ RefsSound(q, x) /\ InodeSound(f, q, x, s)
  BY SoundRoot
<1>2. CASE s \in Named(f)
  BY <1>1, <1>2, LiveType
<1>3. CASE RefsTo(q, x, s) > 0
  <2>1. RefsTo(q, x, s) \in Nat /\ One(s = FREE_MAP_SECTOR) \in {0, 1}
    BY RefsType DEF One
  <2>2. f.inode[s].open_cnt > 0
    BY ONLY <1>1, <1>3, <2>1 DEF InodeSound
  <2>3. s \notin Reserved
    <3>1. ASSUME s \in Reserved PROVE RefsTo(q, x, s) = 0
      <4>1. Cardinality(Openers(q, s)) = 0
        BY <1>1, <3>1, OpenersNone DEF RefsSound
      <4>2. x # s
        BY <1>1, <3>1 DEF RefsSound
      <4> QED
        BY <4>1, <4>2, RefsType
    <3> QED
      BY <1>3, <3>1
  <2> QED
    BY <2>2, <2>3 DEF LiveIn, OpenIn
<1> QED
  BY <1>2, <1>3 DEF Alive

LEMMA TextSame ==
    ASSUME NEW f, NEW h, NEW t, SameFile(f, h, t), NodeIn(f, t).length \in Nat
    PROVE  TextIn(h, t) = TextIn(f, t)
<1>1. \A k \in 1 .. NodeIn(f, t).length : k - 1 \in Nat
  OBVIOUS
<1> QED
  BY <1>1 DEF TextIn, SameFile

\* What the store says is referred to.
LEMMA ReferredIs ==
    ASSUME NEW f \in FileSystem, Files(f), NamesApart(f), NEW q, NEW x, NEW s \in Sector
    PROVE  Store!Referred(StoreOf(f, q, x), s) <=> s \in Alive(f, q, x)
<1>1. StoreOf(f, q, x).held[s] = RefsTo(q, x, s) /\ \A n \in Name : StoreOf(f, q, x).names[n] = Where(f, n)
  BY DEF StoreOf, HeldIn, NamesIn
<1>2. s \in Named(f) <=> \E n \in Name : Where(f, n) = s
  BY WhereNamed
<1> QED
  BY <1>1, <1>2 DEF Store!Referred, Alive

\* Files that nothing refers to any more are gone, the others are as they were.
LEMMA CollectedIs ==
    ASSUME NEW f \in FileSystem, Files(f), NamesApart(f), NEW q, NEW x,
           NEW h \in FileSystem, Files(h), NamesApart(h), NEW r, NEW y,
           Alive(h, r, y) \subseteq Alive(f, q, x),
           \A s \in Alive(h, r, y) : TextIn(h, s) = TextIn(f, s)
    PROVE  Store!Collected(StoreOf(f, q, x), StoreOf(h, r, y)) = TextsIn(h, r, y)
<1>1. \A s \in Sector : Store!Referred(StoreOf(h, r, y), s) <=> s \in Alive(h, r, y)
  BY ReferredIs
<1>2. \A s \in Sector : s \in Alive(h, r, y) => StoreOf(f, q, x).content[s] = TextIn(h, s)
  BY DEF StoreOf, TextsIn
<1> QED
  BY <1>1, <1>2 DEF Store!Collected, TextsIn

-----------------------------------------------------------------------------
(***************************************************************************)
(* What the operations of FileStore do.                                    *)
(***************************************************************************)

\* A step from f, q, x to h, r, y in which names keep their files, and files their texts.
Still(f, q, x, h, r, y) ==
    /\ f \in FileSystem /\ q \in Seq(OpenFile) /\ Sound(f, q, x) /\ f.fault = "none" /\ Tidy(f)
    /\ h \in FileSystem /\ r \in Seq(OpenFile) /\ Sound(h, r, y) /\ h.fault = "none"
    /\ LiveIn(h) \subseteq LiveIn(f) /\ Quiet(f, h, LiveIn(h))

LEMMA BoundNamed ==
    ASSUME NEW f, NEW s
    PROVE  s \in Named(f) <=> \E n : <<n, s>> \in Bound(f)
<1>1. ASSUME NEW n, <<n, s>> \in Bound(f) PROVE s \in Named(f)
  BY <1>1 DEF Named, Bound
<1>2. ASSUME s \in Named(f) PROVE \E n : <<n, s>> \in Bound(f)
  <2>1. PICK q \in Used(f) : s = SectorAt(f, q)
    BY <1>2 DEF Named
  <2>2. <<NameAt(f, q), s>> \in Bound(f)
    BY <2>1 DEF Bound
  <2> QED
    BY <2>2
<1> QED
  BY <1>1, <1>2

\* A store by its parts.
Parts(N, C, H, x) == [names |-> N, content |-> C, held |-> H, exec |-> x, broken |-> FALSE]

More(H, s) == [H EXCEPT ![s] = @ + 1]
Less(H, s) == [H EXCEPT ![s] = @ - 1]
Put(g, s, v) == [g EXCEPT ![s] = v]
OneMore(q, x, r, y, s) ==
    \A t \in Sector : RefsTo(r, y, t) = IF t = s THEN RefsTo(q, x, t) + 1 ELSE RefsTo(q, x, t)
OneLess(q, x, r, y, s) ==
    \A t \in Sector : RefsTo(r, y, t) = IF t = s THEN RefsTo(q, x, t) - 1 ELSE RefsTo(q, x, t)

LEMMA HeldMore ==
    ASSUME NEW q, NEW x, NEW r, NEW y, NEW s \in Sector, OneMore(q, x, r, y, s)
    PROVE  HeldIn(r, y) = More(HeldIn(q, x), s)
BY ONLY s \in Sector, OneMore(q, x, r, y, s) DEF HeldIn, OneMore, More

LEMMA HeldLess ==
    ASSUME NEW q, NEW x, NEW r, NEW y, NEW s \in Sector, OneLess(q, x, r, y, s)
    PROVE  HeldIn(r, y) = Less(HeldIn(q, x), s)
BY ONLY s \in Sector, OneLess(q, x, r, y, s) DEF HeldIn, OneLess, Less

LEMMA StillTidy ==
    ASSUME NEW f, NEW q, NEW x, NEW h, NEW r, NEW y, Still(f, q, x, h, r, y)
    PROVE  /\ Tidy(h) /\ Files(f) /\ Files(h) /\ NamesIn(h) = NamesIn(f) /\ Named(h) = Named(f)
           /\ \A s \in Alive(h, r, y) : TextIn(h, s) = TextIn(f, s)
<1>1. /\ f \in FileSystem /\ h \in FileSystem /\ r \in Seq(OpenFile) /\ Sound(h, r, y) /\ Tidy(f)
      /\ LiveIn(h) \subseteq LiveIn(f) /\ Bound(h) = Bound(f) /\ \A t \in LiveIn(h) : SameFile(f, h, t)
  BY DEF Still, Quiet
<1>2. Files(f) /\ Files(h)
  BY SoundRoot DEF Still
<1>3. Tidy(h)
  <2>1. NamesApart(h)
    BY <1>1 DEF Tidy, NamesApart
  <2>2. \A t \in LiveIn(h) \ Reserved : Blank(h, t)
    BY <1>1, SameBlank DEF Tidy
  <2> QED
    BY <2>1, <2>2 DEF Tidy
<1>4. NamesIn(h) = NamesIn(f)
  BY <1>1 DEF NamesIn, Where
<1>5. Named(h) = Named(f)
  <2>1. \A v : v \in Named(h) <=> v \in Named(f)
    BY <1>1, BoundNamed
  <2> QED
    BY <2>1
<1>6. ASSUME NEW s \in Alive(h, r, y) PROVE TextIn(h, s) = TextIn(f, s)
  <2>1. s \in Sector /\ s \in LiveIn(h)
    BY <1>1, HeldLive DEF Alive
  <2>2. NodeIn(f, s).length \in Nat
    BY <1>1, <2>1, NodeInType DEF Node
  <2> QED
    BY <1>1, <2>1, <2>2, TextSame
<1> QED
  BY <1>2, <1>3, <1>4, <1>5, <1>6

LEMMA StillCollected ==
    ASSUME NEW f, NEW q, NEW x, NEW h, NEW r, NEW y, Still(f, q, x, h, r, y),
           Alive(h, r, y) \subseteq Alive(f, q, x)
    PROVE  /\ TextsIn(h, r, y) = Store!Collected(StoreOf(f, q, x), StoreOf(h, r, y))
           /\ Alive(h, r, y) = Alive(f, q, x) => TextsIn(h, r, y) = TextsIn(f, q, x)
<1>1. /\ Tidy(h) /\ Files(f) /\ Files(h) /\ Tidy(f) /\ f \in FileSystem /\ h \in FileSystem
      /\ \A s \in Alive(h, r, y) : TextIn(h, s) = TextIn(f, s)
  BY StillTidy DEF Still
<1>2. NamesApart(f) /\ NamesApart(h)
  BY <1>1 DEF Tidy
<1>3. TextsIn(h, r, y) = Store!Collected(StoreOf(f, q, x), StoreOf(h, r, y))
  BY <1>1, <1>2, CollectedIs
<1>4. Alive(h, r, y) = Alive(f, q, x) => TextsIn(h, r, y) = TextsIn(f, q, x)
  BY <1>1 DEF TextsIn
<1> QED
  BY <1>3, <1>4

\* The parts of a store whose files are not at fault.
LEMMA StoreIs ==
    ASSUME NEW f, NEW q, NEW x, f.fault = "none"
    PROVE  StoreOf(f, q, x) = Parts(NamesIn(f), TextsIn(f, q, x), HeldIn(q, x), x)
BY DEF StoreOf, Parts

\* read (), seek () and the cache are not seen by the callers.
LEMMA SameStore ==
    ASSUME NEW f, NEW q, NEW x, NEW h, NEW r, Still(f, q, x, h, r, x),
           \A t \in Sector : RefsTo(r, x, t) = RefsTo(q, x, t)
    PROVE  StoreOf(h, r, x) = StoreOf(f, q, x)
<1>1. Named(h) = Named(f) /\ NamesIn(h) = NamesIn(f)
  BY StillTidy
<1>2. Alive(h, r, x) = Alive(f, q, x) /\ HeldIn(r, x) = HeldIn(q, x)
  BY <1>1 DEF Alive, HeldIn
<1>3. TextsIn(h, r, x) = TextsIn(f, q, x)
  BY <1>2, StillCollected
<1> QED
  BY <1>1, <1>2, <1>3 DEF Still, StoreOf

\* What the operations of FileStore make of a store.
WithOpen(a, s) == [a EXCEPT !.held[s] = @ + 1]
WithStart(a, s, y) == [a EXCEPT !.held[s] = @ + 1, !.exec = y]
WithClose(a, s, D) == [a EXCEPT !.held[s] = @ - 1, !.content = D]
WithFinish(a, s, y, D) == [a EXCEPT !.held[s] = @ - 1, !.exec = y, !.content = D]
WithHalt(a, G, y, D) == [a EXCEPT !.held = G, !.exec = y, !.content = D]
WithCreate(a, n, s, Z) == [a EXCEPT !.names[n] = s, !.content[s] = Z]
WithRemove(a, n, s, D) == [a EXCEPT !.names[n] = s, !.content = D]
WithWrite(a, s, Z) == [a EXCEPT !.content[s] = Z]

LEMMA PutOpen ==
    ASSUME NEW N, NEW C, NEW H, NEW x, NEW s
    PROVE  WithOpen(Parts(N, C, H, x), s) = Parts(N, C, More(H, s), x)
<1>1. PICK a0 : a0 = Parts(N, C, H, x)
  OBVIOUS
<1>2. PICK a1 : a1 = [a0 EXCEPT !.held[s] = @ + 1]
  OBVIOUS
<1>3. a1 = Parts(N, C, More(H, s), x)
  BY ONLY <1>1, <1>2 DEF Parts, More, Less, Put
<1>4. WithOpen(a0, s) = a1
  BY ONLY <1>2 DEF WithOpen
<1> QED
  BY <1>1, <1>3, <1>4

LEMMA PutStart ==
    ASSUME NEW N, NEW C, NEW H, NEW x, NEW s, NEW y
    PROVE  WithStart(Parts(N, C, H, x), s, y) = Parts(N, C, More(H, s), y)
<1>1. PICK a0 : a0 = Parts(N, C, H, x)
  OBVIOUS
<1>2. PICK a1 : a1 = [a0 EXCEPT !.held[s] = @ + 1]
  OBVIOUS
<1>3. a1 = Parts(N, C, More(H, s), x)
  BY ONLY <1>1, <1>2 DEF Parts, More, Less, Put
<1>4. PICK a2 : a2 = [a1 EXCEPT !.exec = y]
  OBVIOUS
<1>5. a2 = Parts(N, C, More(H, s), y)
  BY ONLY <1>3, <1>4 DEF Parts, More, Less, Put
<1>6. WithStart(a0, s, y) = a2
  BY ONLY <1>2, <1>4 DEF WithStart
<1> QED
  BY <1>1, <1>5, <1>6

LEMMA PutClose ==
    ASSUME NEW N, NEW C, NEW H, NEW x, NEW s, NEW D
    PROVE  WithClose(Parts(N, C, H, x), s, D) = Parts(N, D, Less(H, s), x)
<1>1. PICK a0 : a0 = Parts(N, C, H, x)
  OBVIOUS
<1>2. PICK a1 : a1 = [a0 EXCEPT !.held[s] = @ - 1]
  OBVIOUS
<1>3. a1 = Parts(N, C, Less(H, s), x)
  BY ONLY <1>1, <1>2 DEF Parts, More, Less, Put
<1>4. PICK a2 : a2 = [a1 EXCEPT !.content = D]
  OBVIOUS
<1>5. a2 = Parts(N, D, Less(H, s), x)
  BY ONLY <1>3, <1>4 DEF Parts, More, Less, Put
<1>6. WithClose(a0, s, D) = a2
  BY ONLY <1>2, <1>4 DEF WithClose
<1> QED
  BY <1>1, <1>5, <1>6

LEMMA PutFinish ==
    ASSUME NEW N, NEW C, NEW H, NEW x, NEW s, NEW y, NEW D
    PROVE  WithFinish(Parts(N, C, H, x), s, y, D) = Parts(N, D, Less(H, s), y)
<1>1. PICK a0 : a0 = Parts(N, C, H, x)
  OBVIOUS
<1>2. PICK a1 : a1 = [a0 EXCEPT !.held[s] = @ - 1]
  OBVIOUS
<1>3. a1 = Parts(N, C, Less(H, s), x)
  BY ONLY <1>1, <1>2 DEF Parts, More, Less, Put
<1>4. PICK a2 : a2 = [a1 EXCEPT !.exec = y]
  OBVIOUS
<1>5. a2 = Parts(N, C, Less(H, s), y)
  BY ONLY <1>3, <1>4 DEF Parts, More, Less, Put
<1>6. PICK a3 : a3 = [a2 EXCEPT !.content = D]
  OBVIOUS
<1>7. a3 = Parts(N, D, Less(H, s), y)
  BY ONLY <1>5, <1>6 DEF Parts, More, Less, Put
<1>8. WithFinish(a0, s, y, D) = a3
  BY ONLY <1>2, <1>4, <1>6 DEF WithFinish
<1> QED
  BY <1>1, <1>7, <1>8

LEMMA PutHalt ==
    ASSUME NEW N, NEW C, NEW H, NEW x, NEW G, NEW y, NEW D
    PROVE  WithHalt(Parts(N, C, H, x), G, y, D) = Parts(N, D, G, y)
<1>1. PICK a0 : a0 = Parts(N, C, H, x)
  OBVIOUS
<1>2. PICK a1 : a1 = [a0 EXCEPT !.held = G]
  OBVIOUS
<1>3. a1 = Parts(N, C, G, x)
  BY ONLY <1>1, <1>2 DEF Parts, More, Less, Put
<1>4. PICK a2 : a2 = [a1 EXCEPT !.exec = y]
  OBVIOUS
<1>5. a2 = Parts(N, C, G, y)
  BY ONLY <1>3, <1>4 DEF Parts, More, Less, Put
<1>6. PICK a3 : a3 = [a2 EXCEPT !.content = D]
  OBVIOUS
<1>7. a3 = Parts(N, D, G, y)
  BY ONLY <1>5, <1>6 DEF Parts, More, Less, Put
<1>8. WithHalt(a0, G, y, D) = a3
  BY ONLY <1>2, <1>4, <1>6 DEF WithHalt
<1> QED
  BY <1>1, <1>7, <1>8

LEMMA PutCreate ==
    ASSUME NEW N, NEW C, NEW H, NEW x, NEW n, NEW s, NEW Z
    PROVE  WithCreate(Parts(N, C, H, x), n, s, Z) = Parts(Put(N, n, s), Put(C, s, Z), H, x)
<1>1. PICK a0 : a0 = Parts(N, C, H, x)
  OBVIOUS
<1>2. PICK a1 : a1 = [a0 EXCEPT !.names[n] = s]
  OBVIOUS
<1>3. a1 = Parts(Put(N, n, s), C, H, x)
  BY ONLY <1>1, <1>2 DEF Parts, More, Less, Put
<1>4. PICK a2 : a2 = [a1 EXCEPT !.content[s] = Z]
  OBVIOUS
<1>5. a2 = Parts(Put(N, n, s), Put(C, s, Z), H, x)
  BY ONLY <1>3, <1>4 DEF Parts, More, Less, Put
<1>6. WithCreate(a0, n, s, Z) = a2
  BY ONLY <1>2, <1>4 DEF WithCreate
<1> QED
  BY <1>1, <1>5, <1>6

LEMMA PutRemove ==
    ASSUME NEW N, NEW C, NEW H, NEW x, NEW n, NEW s, NEW D
    PROVE  WithRemove(Parts(N, C, H, x), n, s, D) = Parts(Put(N, n, s), D, H, x)
<1>1. PICK a0 : a0 = Parts(N, C, H, x)
  OBVIOUS
<1>2. PICK a1 : a1 = [a0 EXCEPT !.names[n] = s]
  OBVIOUS
<1>3. a1 = Parts(Put(N, n, s), C, H, x)
  BY ONLY <1>1, <1>2 DEF Parts, More, Less, Put
<1>4. PICK a2 : a2 = [a1 EXCEPT !.content = D]
  OBVIOUS
<1>5. a2 = Parts(Put(N, n, s), D, H, x)
  BY ONLY <1>3, <1>4 DEF Parts, More, Less, Put
<1>6. WithRemove(a0, n, s, D) = a2
  BY ONLY <1>2, <1>4 DEF WithRemove
<1> QED
  BY <1>1, <1>5, <1>6

LEMMA PutWrite ==
    ASSUME NEW N, NEW C, NEW H, NEW x, NEW s, NEW Z
    PROVE  WithWrite(Parts(N, C, H, x), s, Z) = Parts(N, Put(C, s, Z), H, x)
<1>1. PICK a0 : a0 = Parts(N, C, H, x)
  OBVIOUS
<1>2. PICK a1 : a1 = [a0 EXCEPT !.content[s] = Z]
  OBVIOUS
<1>3. a1 = Parts(N, Put(C, s, Z), H, x)
  BY ONLY <1>1, <1>2 DEF Parts, More, Less, Put
<1>4. WithWrite(a0, s, Z) = a1
  BY ONLY <1>2 DEF WithWrite
<1> QED
  BY <1>1, <1>3, <1>4

\* open ().
LEMMA OpenStore ==
    ASSUME NEW f, NEW q, NEW x, NEW h, NEW r, Still(f, q, x, h, r, x),
           NEW n, NEW s, <<n, s>> \in Bound(f),
           \A t \in Sector : RefsTo(r, x, t) = RefsTo(q, x, t) + One(s = t)
    PROVE  n \in Name /\ Store!Open(StoreOf(f, q, x), StoreOf(h, r, x), n)
<1>1. Named(h) = Named(f) /\ NamesIn(h) = NamesIn(f) /\ Files(f) /\ f \in FileSystem /\ NamesApart(f)
      /\ f.fault = "none" /\ h.fault = "none" /\ q \in Seq(OpenFile)
  BY StillTidy DEF Still, Tidy
<1>2. n \in Name /\ s \in Named(f) /\ s \in Sector /\ Where(f, n) = s /\ s # None
  BY <1>1, Binding, WhereIs, Constants
<1>3. \A t \in Sector : /\ RefsTo(q, x, t) \in Nat
                        /\ RefsTo(r, x, t) = IF t = s THEN RefsTo(q, x, t) + 1 ELSE RefsTo(q, x, t)
  BY <1>1, RefsType DEF One
<1>4. Alive(h, r, x) = Alive(f, q, x)
  BY <1>1, <1>2, <1>3 DEF Alive
<1>5. TextsIn(h, r, x) = TextsIn(f, q, x)
  BY <1>4, StillCollected
<1>6. HeldIn(r, x) = More(HeldIn(q, x), s)
  BY <1>2, <1>3, HeldMore DEF OneMore
<1>8. PICK N, C, H : N = NamesIn(f) /\ C = TextsIn(f, q, x) /\ H = HeldIn(q, x)
  OBVIOUS
<1>9. PICK a : a = Parts(N, C, H, x)
  OBVIOUS
<1>10. StoreOf(f, q, x) = a /\ StoreOf(h, r, x) = Parts(N, C, More(H, s), x)
  BY <1>1, <1>5, <1>6, <1>8, <1>9, StoreIs
<1>11. a.names[n] = s
  BY <1>2, <1>8, <1>9 DEF NamesIn, Parts
<1>12. StoreOf(h, r, x) = WithOpen(a, s)
  BY <1>9, <1>10, PutOpen
<1> QED
  BY ONLY <1>2, <1>10, <1>11, <1>12 DEF Store!Open, WithOpen

\* load (): a program is started.
LEMMA StartStore ==
    ASSUME NEW f, NEW q, NEW h, NEW n, NEW s, Still(f, q, None, h, q, s), <<n, s>> \in Bound(f)
    PROVE  n \in Name /\ Store!Start(StoreOf(f, q, None), StoreOf(h, q, s), n)
<1>1. Named(h) = Named(f) /\ NamesIn(h) = NamesIn(f) /\ Files(f) /\ f \in FileSystem /\ NamesApart(f)
      /\ f.fault = "none" /\ h.fault = "none" /\ q \in Seq(OpenFile)
  BY StillTidy DEF Still, Tidy
<1>2. n \in Name /\ s \in Named(f) /\ s \in Sector /\ Where(f, n) = s /\ s # None
  BY <1>1, Binding, WhereIs, Constants
<1>3. \A t \in Sector : /\ RefsTo(q, None, t) \in Nat
                        /\ RefsTo(q, s, t) = IF t = s THEN RefsTo(q, None, t) + 1 ELSE RefsTo(q, None, t)
  <2>1. ASSUME NEW t \in Sector
        PROVE  /\ RefsTo(q, None, t) \in Nat
               /\ RefsTo(q, s, t) = IF t = s THEN RefsTo(q, None, t) + 1 ELSE RefsTo(q, None, t)
    <3>1. None # t
      BY Constants
    <3>2. /\ Cardinality(Openers(q, t)) \in Nat /\ RefsTo(q, None, t) = Cardinality(Openers(q, t)) + 0
          /\ RefsTo(q, s, t) = Cardinality(Openers(q, t)) + One(s = t)
      BY <1>1, <3>1, RefsType
    <3> QED
      BY <3>2 DEF One
  <2> QED
    BY <2>1
<1>4. Alive(h, q, s) = Alive(f, q, None)
  BY <1>1, <1>2, <1>3 DEF Alive
<1>5. TextsIn(h, q, s) = TextsIn(f, q, None)
  BY <1>4, StillCollected
<1>6. HeldIn(q, s) = More(HeldIn(q, None), s)
  BY <1>2, <1>3, HeldMore DEF OneMore
<1>8. PICK N, C, H : N = NamesIn(f) /\ C = TextsIn(f, q, None) /\ H = HeldIn(q, None)
  OBVIOUS
<1>9. PICK a : a = Parts(N, C, H, None)
  OBVIOUS
<1>10. StoreOf(f, q, None) = a /\ StoreOf(h, q, s) = Parts(N, C, More(H, s), s)
  BY <1>1, <1>5, <1>6, <1>8, <1>9, StoreIs
<1>11. a.names[n] = s /\ a.exec = None
  BY <1>2, <1>8, <1>9 DEF NamesIn, Parts
<1>12. StoreOf(h, q, s) = WithStart(a, s, s)
  BY <1>9, <1>10, PutStart
<1> QED
  BY ONLY <1>2, <1>10, <1>11, <1>12 DEF Store!Start, WithStart

\* close ().
LEMMA CloseStore ==
    ASSUME NEW f, NEW q, NEW x, NEW h, NEW r, Still(f, q, x, h, r, x),
           NEW s \in Sector, RefsTo(q, x, s) > 0, OneLess(q, x, r, x, s)
    PROVE  Store!Close(StoreOf(f, q, x), StoreOf(h, r, x), s)
<1>1. Named(h) = Named(f) /\ NamesIn(h) = NamesIn(f) /\ f.fault = "none" /\ h.fault = "none" /\ q \in Seq(OpenFile)
  BY StillTidy DEF Still
<1>2. Alive(h, r, x) \subseteq Alive(f, q, x)
  BY <1>1 DEF Alive, OneLess
<1>3. PICK a : a = StoreOf(f, q, x)
  OBVIOUS
<1>4. PICK b : b = StoreOf(h, r, x)
  OBVIOUS
<1>5. TextsIn(h, r, x) = Store!Collected(a, b)
  BY ONLY <1>2, <1>3, <1>4, StillCollected, Still(f, q, x, h, r, x)
<1>6. HeldIn(r, x) = Less(HeldIn(q, x), s)
  BY HeldLess
<1>7. PICK N, C, H, D : N = NamesIn(f) /\ C = TextsIn(f, q, x) /\ H = HeldIn(q, x) /\ D = TextsIn(h, r, x)
  OBVIOUS
<1>8. a = Parts(N, C, H, x) /\ b = Parts(N, D, Less(H, s), x)
  BY <1>1, <1>3, <1>4, <1>6, <1>7, StoreIs
<1>9. a.held[s] > 0
  BY <1>7, <1>8 DEF HeldIn, Parts
<1>10. b = WithClose(a, s, D)
  BY ONLY <1>8, PutClose
<1>11. D = Store!Collected(a, b)
  BY ONLY <1>5, <1>7
<1>12. Store!Close(a, b, s)
  BY ONLY <1>9, <1>10, <1>11 DEF Store!Close, WithClose
<1> QED
  BY ONLY <1>3, <1>4, <1>12

\* The executable is closed.
LEMMA FinishStore ==
    ASSUME NEW f, NEW q, NEW h, NEW s \in Sector, Still(f, q, s, h, q, None)
    PROVE  Store!Finish(StoreOf(f, q, s), StoreOf(h, q, None))
<1>1. Named(h) = Named(f) /\ NamesIn(h) = NamesIn(f) /\ f.fault = "none" /\ h.fault = "none" /\ q \in Seq(OpenFile)
  BY StillTidy DEF Still
<1>2. \A t \in Sector : /\ RefsTo(q, None, t) \in Nat /\ RefsTo(q, s, t) \in Nat
                        /\ RefsTo(q, None, t) = IF t = s THEN RefsTo(q, s, t) - 1 ELSE RefsTo(q, s, t)
  <2>1. ASSUME NEW t \in Sector
        PROVE  /\ RefsTo(q, None, t) \in Nat /\ RefsTo(q, s, t) \in Nat
               /\ RefsTo(q, None, t) = IF t = s THEN RefsTo(q, s, t) - 1 ELSE RefsTo(q, s, t)
    <3>1. None # t
      BY Constants
    <3>2. /\ Cardinality(Openers(q, t)) \in Nat /\ RefsTo(q, None, t) = Cardinality(Openers(q, t)) + 0
          /\ RefsTo(q, s, t) = Cardinality(Openers(q, t)) + One(s = t)
      BY <1>1, <3>1, RefsType
    <3> QED
      BY <3>2 DEF One
  <2> QED
    BY <2>1
<1>3. OneLess(q, s, q, None, s)
  BY <1>2 DEF OneLess
<1>4. Alive(h, q, None) \subseteq Alive(f, q, s)
  BY <1>1, <1>2 DEF Alive
<1>5. PICK a : a = StoreOf(f, q, s)
  OBVIOUS
<1>6. PICK b : b = StoreOf(h, q, None)
  OBVIOUS
<1>7. TextsIn(h, q, None) = Store!Collected(a, b)
  BY ONLY <1>4, <1>5, <1>6, StillCollected, Still(f, q, s, h, q, None)
<1>8. HeldIn(q, None) = Less(HeldIn(q, s), s)
  BY <1>3, HeldLess
<1>9. PICK N, C, H, D : N = NamesIn(f) /\ C = TextsIn(f, q, s) /\ H = HeldIn(q, s) /\ D = TextsIn(h, q, None)
  OBVIOUS
<1>10. a = Parts(N, C, H, s) /\ b = Parts(N, D, Less(H, s), None)
  BY <1>1, <1>5, <1>6, <1>8, <1>9, StoreIs
<1>11. s # None
  BY Constants
<1>12. a.exec = s
  BY ONLY <1>10 DEF Parts
<1>13. b = WithFinish(a, s, None, D)
  BY ONLY <1>10, PutFinish
<1>14. D = Store!Collected(a, b)
  BY ONLY <1>7, <1>9
<1>15. Store!Finish(a, b)
  BY ONLY <1>11, <1>12, <1>13, <1>14 DEF Store!Finish, WithFinish
<1> QED
  BY ONLY <1>5, <1>6, <1>15

\* The machine is switched off.
LEMMA HaltStore ==
    ASSUME NEW f, NEW q, NEW x, NEW h, NEW r, r = <<>>, Still(f, q, x, h, r, None)
    PROVE  Store!Halt(StoreOf(f, q, x), StoreOf(h, r, None))
<1>1. Named(h) = Named(f) /\ NamesIn(h) = NamesIn(f) /\ f.fault = "none" /\ h.fault = "none" /\ r \in Seq(OpenFile)
  BY StillTidy DEF Still
<1>2. \A t \in Sector : RefsTo(r, None, t) = 0
  <2>1. ASSUME NEW t \in Sector PROVE RefsTo(r, None, t) = 0
    <3>1. None # t
      BY Constants
    <3>2. Cardinality(Openers(r, t)) = 0
      <4>1. Len(r) = 0
        OBVIOUS
      <4>2. \A i \in 1 .. Len(r) : r[i].inode # t
        BY ONLY <4>1
      <4> QED
        BY <1>1, <4>2, OpenersNone
    <3>3. RefsTo(r, None, t) = Cardinality(Openers(r, t)) + One(None = t)
      BY DEF RefsTo
    <3>4. One(None = t) = 0
      BY <3>1 DEF One
    <3> QED
      BY <3>2, <3>3, <3>4
  <2> QED
    BY <2>1
<1>3. Alive(h, r, None) \subseteq Alive(f, q, x)
  BY <1>1, <1>2 DEF Alive
<1>4. PICK a : a = StoreOf(f, q, x)
  OBVIOUS
<1>5. PICK b : b = StoreOf(h, r, None)
  OBVIOUS
<1>6. TextsIn(h, r, None) = Store!Collected(a, b)
  BY ONLY <1>3, <1>4, <1>5, StillCollected, Still(f, q, x, h, r, None)
<1>7. PICK G : G = [i \in Sector |-> 0]
  OBVIOUS
<1>8. HeldIn(r, None) = G
  BY <1>2, <1>7 DEF HeldIn
<1>9. PICK N, C, H, D : N = NamesIn(f) /\ C = TextsIn(f, q, x) /\ H = HeldIn(q, x) /\ D = TextsIn(h, r, None)
  OBVIOUS
<1>10. a = Parts(N, C, H, x) /\ b = Parts(N, D, G, None)
  BY <1>1, <1>4, <1>5, <1>8, <1>9, StoreIs
<1>11. b = WithHalt(a, G, None, D)
  BY ONLY <1>10, PutHalt
<1>12. D = Store!Collected(a, b)
  BY ONLY <1>6, <1>9
<1>13. Store!Halt(a, b)
  BY ONLY <1>7, <1>11, <1>12 DEF Store!Halt, WithHalt
<1> QED
  BY ONLY <1>4, <1>5, <1>13

\* The store f with q and x, in the middle of a run.
Steady(f, q, x) ==
    f \in FileSystem /\ q \in Seq(OpenFile) /\ Sound(f, q, x) /\ f.fault = "none"

\* Where the other names lead, and where this one does.
LEMMA NamesPut ==
    ASSUME NEW f, NEW h, NEW n \in Name, NEW s, NamesApart(f), NamesApart(h),
           \A m, t : m # n => (<<m, t>> \in Bound(h) <=> <<m, t>> \in Bound(f)),
           Where(h, n) = s
    PROVE  NamesIn(h) = Put(NamesIn(f), n, s)
<1>1. ASSUME NEW m \in Name, m # n PROVE Where(h, m) = Where(f, m)
  <2>1. CASE \E t : <<m, t>> \in Bound(f)
    <3>1. PICK t : <<m, t>> \in Bound(f)
      BY <2>1
    <3>2. <<m, t>> \in Bound(h)
      BY <1>1, <3>1
    <3> QED
      BY <3>1, <3>2, WhereIs
  <2>2. CASE \A t : <<m, t>> \notin Bound(f)
    <3>1. \A t : <<m, t>> \notin Bound(h)
      BY <1>1, <2>2
    <3> QED
      BY <2>2, <3>1, WhereIs
  <2> QED
    BY <2>1, <2>2
<1> QED
  BY ONLY <1>1, n \in Name, Where(h, n) = s DEF NamesIn, Put

\* remove ().
LEMMA RemoveStore ==
    ASSUME NEW f, NEW q, NEW x, Steady(f, q, x), Tidy(f), NEW h, Steady(h, q, x),
           NEW n \in Name, RemoveDone(f, h, n)
    PROVE  Tidy(h) /\ Store!Remove(StoreOf(f, q, x), StoreOf(h, q, x), n)
<1>1. PICK s \in Sector : <<n, s>> \in Bound(f) /\ Bound(h) = Bound(f) \ {<<n, s>>}
  BY DEF RemoveDone
<1>2. /\ f \in FileSystem /\ h \in FileSystem /\ Files(f) /\ Files(h) /\ NamesApart(f)
      /\ f.fault = "none" /\ h.fault = "none" /\ Sound(h, q, x) /\ q \in Seq(OpenFile)
  BY SoundRoot DEF Steady, Tidy
<1>3. \A t \in LiveIn(h) \ Reserved : t \in LiveIn(f) \ Reserved /\ SameFile(f, h, t)
  BY DEF RemoveDone, Reserved
<1>4. NamesApart(h)
  BY <1>1, <1>2 DEF NamesApart
<1>5. Tidy(h)
  <2>1. \A t \in LiveIn(h) \ Reserved : Blank(h, t)
    BY <1>3, SameBlank DEF Tidy
  <2> QED
    BY <1>4, <2>1 DEF Tidy
<1>6. Where(f, n) = s /\ s # None
  BY <1>1, <1>2, WhereIs, Constants
<1>7. NamesIn(h) = Put(NamesIn(f), n, None)
  <2>1. Where(h, n) = None
    <3>1. \A t : <<n, t>> \notin Bound(h)
      BY <1>1, <1>2 DEF NamesApart
    <3> QED
      BY <1>4, <3>1, WhereIs
  <2>2. \A m, t : m # n => (<<m, t>> \in Bound(h) <=> <<m, t>> \in Bound(f))
    BY <1>1
  <2> QED
    BY <1>2, <1>4, <2>1, <2>2, NamesPut
<1>8. Alive(h, q, x) \subseteq Alive(f, q, x)
  <2>1. \A t : t \in Named(h) => t \in Named(f)
    <3>1. ASSUME NEW t, t \in Named(h) PROVE t \in Named(f)
      <4>1. PICK m : <<m, t>> \in Bound(h)
        BY <3>1, BoundNamed
      <4>2. <<m, t>> \in Bound(f)
        BY <1>1, <4>1
      <4> QED
        BY <4>2, BoundNamed
    <3> QED
      BY <3>1
  <2> QED
    BY <2>1 DEF Alive
<1>9. ASSUME NEW t \in Alive(h, q, x) PROVE TextIn(h, t) = TextIn(f, t)
  <2>1. t \in Sector /\ t \in LiveIn(h) \ Reserved
    BY <1>2, HeldLive DEF Alive
  <2>2. NodeIn(f, t).length \in Nat
    BY <1>2, <2>1, NodeInType DEF Node
  <2> QED
    BY <1>3, <2>1, <2>2, TextSame
<1>10. PICK a : a = StoreOf(f, q, x)
  OBVIOUS
<1>11. PICK b : b = StoreOf(h, q, x)
  OBVIOUS
<1>12. TextsIn(h, q, x) = Store!Collected(a, b)
  BY <1>2, <1>4, <1>8, <1>9, <1>10, <1>11, CollectedIs
<1>13. PICK N, C, H, D : N = NamesIn(f) /\ C = TextsIn(f, q, x) /\ H = HeldIn(q, x) /\ D = TextsIn(h, q, x)
  OBVIOUS
<1>14. a = Parts(N, C, H, x) /\ b = Parts(Put(N, n, None), D, H, x)
  BY <1>2, <1>7, <1>10, <1>11, <1>13, StoreIs
<1>15. a.names[n] # None
  BY <1>6, <1>13, <1>14 DEF NamesIn, Parts
<1>16. b = WithRemove(a, n, None, D)
  BY ONLY <1>14, PutRemove
<1>17. D = Store!Collected(a, b)
  BY ONLY <1>12, <1>13
<1>18. Store!Remove(a, b, n)
  BY ONLY <1>15, <1>16, <1>17 DEF Store!Remove, WithRemove
<1> QED
  BY ONLY <1>5, <1>10, <1>11, <1>18

\* create ().
LEMMA CreateStore ==
    ASSUME NEW f, NEW q, NEW x, Steady(f, q, x), Tidy(f), NEW h, Steady(h, q, x),
           NEW n \in Name, NEW s \in Sector, s \notin LiveIn(f), NEW size \in Nat, Bore(f, h, n, s, size)
    PROVE  /\ Tidy(h) /\ StoreOf(h, q, x).names[n] # None
           /\ Store!Create(StoreOf(f, q, x), StoreOf(h, q, x), n, StoreOf(h, q, x).names[n])
<1>1. /\ \A t : <<n, t>> \notin Bound(f)
      /\ Bound(h) = Bound(f) \cup {<<n, s>>}
      /\ \A t \in LiveIn(h) \ {s, ROOT_DIR_SECTOR} : SameFile(f, h, t)
      /\ LiveIn(h) \subseteq LiveIn(f) \cup {s}
      /\ NodeIn(h, s).length = size /\ \A k \in Nat : PaddedAt(h, s, k) = Zero
  BY DEF Bore
<1>2. /\ f \in FileSystem /\ h \in FileSystem /\ Files(f) /\ Files(h) /\ NamesApart(f)
      /\ f.fault = "none" /\ h.fault = "none" /\ q \in Seq(OpenFile) /\ Sound(f, q, x) /\ Sound(h, q, x)
  BY SoundRoot DEF Steady, Tidy
<1>3. NamesApart(h)
  BY <1>1, <1>2 DEF NamesApart
<1>4. Tidy(h)
  <2>1. ASSUME NEW t \in LiveIn(h) \ Reserved PROVE Blank(h, t)
    <3>1. CASE t = s
      BY <1>1, <3>1 DEF Blank
    <3>2. CASE t # s
      <4>1. SameFile(f, h, t) /\ t \in LiveIn(f) \ Reserved
        BY <1>1, <3>2 DEF Reserved
      <4> QED
        BY <4>1, SameBlank DEF Tidy
    <3> QED
      BY <3>1, <3>2
  <2> QED
    BY <1>3, <2>1 DEF Tidy
<1>5. Where(f, n) = None /\ Where(h, n) = s /\ s # None
  BY <1>1, <1>2, <1>3, WhereIs, Constants
<1>6. NamesIn(h) = Put(NamesIn(f), n, s)
  <2>1. \A m, t : m # n => (<<m, t>> \in Bound(h) <=> <<m, t>> \in Bound(f))
    BY <1>1
  <2> QED
    BY <1>2, <1>3, <1>5, <2>1, NamesPut
<1>7. Alive(h, q, x) = Alive(f, q, x) \cup {s}
  <2>1. \A t : t \in Named(h) <=> t \in Named(f) \/ t = s
    <3>1. \A t : (\E m : <<m, t>> \in Bound(h)) <=> (\E m : <<m, t>> \in Bound(f)) \/ t = s
      BY <1>1
    <3> QED
      BY <3>1, BoundNamed
  <2> QED
    BY <2>1 DEF Alive
<1>8. s \notin Alive(f, q, x)
  BY <1>2, HeldLive
<1>9. ASSUME NEW t \in Alive(f, q, x) PROVE TextIn(h, t) = TextIn(f, t)
  <2>1. t \in Sector /\ t \in LiveIn(h) \ Reserved /\ t # s
    BY <1>2, <1>7, <1>8, HeldLive DEF Alive
  <2>2. NodeIn(f, t).length \in Nat
    BY <1>2, <2>1, NodeInType DEF Node
  <2>3. SameFile(f, h, t)
    BY <1>1, <2>1 DEF Reserved
  <2> QED
    BY <2>2, <2>3, TextSame
<1>10. TextIn(h, s) = Store!Zeros(size)
  BY <1>1 DEF TextIn, Store!Zeros
<1>11. TextsIn(h, q, x) = Put(TextsIn(f, q, x), s, Store!Zeros(size))
  BY <1>7, <1>8, <1>9, <1>10 DEF TextsIn, Put
<1>12. PICK a : a = StoreOf(f, q, x)
  OBVIOUS
<1>13. PICK b : b = StoreOf(h, q, x)
  OBVIOUS
<1>14. PICK N, C, H, Z : N = NamesIn(f) /\ C = TextsIn(f, q, x) /\ H = HeldIn(q, x) /\ Z = Store!Zeros(size)
  OBVIOUS
<1>15. a = Parts(N, C, H, x) /\ b = Parts(Put(N, n, s), Put(C, s, Z), H, x)
  BY <1>2, <1>6, <1>11, <1>12, <1>13, <1>14, StoreIs
<1>16. a.names[n] = None /\ b.names[n] = s
  BY <1>5, <1>14, <1>15 DEF NamesIn, Parts, Put
<1>17. a.content[s] = Gone /\ b.content[s] = Z
  BY <1>8, <1>14, <1>15 DEF TextsIn, Parts, Put
<1>18. Len(Z) = size
  BY <1>14 DEF Store!Zeros
<1>19. b = WithCreate(a, n, s, Z)
  BY ONLY <1>15, PutCreate
<1>20. Z = Store!Zeros(Len(b.content[s]))
  BY ONLY <1>14, <1>17, <1>18
<1>21. Store!Create(a, b, n, s)
  BY ONLY <1>16, <1>17, <1>19, <1>20 DEF Store!Create, WithCreate
<1> QED
  BY ONLY <1>4, <1>5, <1>12, <1>13, <1>16, <1>21

\* What programs write.
Written == {[k \in 1 .. n |-> [v |-> y]] : n \in WriteSize, y \in Value}

\* write () is seen by its callers as one write over the old contents.
WriteSeen(a, b) ==
    \/ a = b
    \/ \E i \in {j \in Sector : a.content[j] # b.content[j]}, p \in 0 .. MaxPos, c \in Written : Store!Write(a, b, i, p, c)

LEMMA TextOverlaid ==
    ASSUME NEW f, NEW h, NEW s, NEW buf, NEW offset \in Nat, Len(buf) \in Nat, NodeIn(f, s).length \in Nat,
           Blank(f, s),
           NodeIn(h, s).length = IF offset + Len(buf) > NodeIn(f, s).length THEN offset + Len(buf)
                                 ELSE NodeIn(f, s).length,
           \A q \in Nat : PaddedAt(h, s, q) = IF q \in offset .. offset + Len(buf) - 1 THEN buf[q - offset + 1]
                                              ELSE PaddedAt(f, s, q)
    PROVE  TextIn(h, s) = Store!Overlay(TextIn(f, s), offset, buf) /\ Blank(h, s)
<1>1. PICK l \in Nat : l = NodeIn(f, s).length
  OBVIOUS
<1>2. PICK m \in Nat : m = Len(buf)
  OBVIOUS
<1>3. PICK e \in Nat : e = IF offset + m > l THEN offset + m ELSE l
  OBVIOUS
<1>4. NodeIn(h, s).length = e
  BY <1>1, <1>2, <1>3
<1>5. \A q \in Nat : PaddedAt(h, s, q) = IF q >= offset /\ q < offset + m THEN buf[q - offset + 1]
                                         ELSE IF q < l THEN PaddedAt(f, s, q) ELSE Zero
  <2>1. ASSUME NEW q \in Nat
        PROVE  PaddedAt(h, s, q) = IF q >= offset /\ q < offset + m THEN buf[q - offset + 1]
                                   ELSE IF q < l THEN PaddedAt(f, s, q) ELSE Zero
    <3>1. q \in offset .. offset + m - 1 <=> q >= offset /\ q < offset + m
      BY ONLY q \in Nat, offset \in Nat, <1>2
    <3>2. q < l \/ PaddedAt(f, s, q) = Zero
      BY <1>1 DEF Blank
    <3> QED
      BY <1>2, <3>1, <3>2
  <2> QED
    BY <2>1
<1>6. PICK c : c = TextIn(f, s)
  OBVIOUS
<1>7. c = [k \in 1 .. l |-> PaddedAt(f, s, k - 1)] /\ Len(c) = l
  BY <1>1, <1>6 DEF TextIn
<1>8. Store!Overlay(c, offset, buf) =
        [k \in 1 .. e |-> IF k > offset /\ k <= offset + m THEN buf[k - offset] ELSE IF k <= l THEN c[k] ELSE Zero]
  <2>1. (IF l > offset + m THEN l ELSE offset + m) = e
    BY <1>3
  <2> QED
    BY <1>2, <1>7, <2>1 DEF Store!Overlay
<1>9. TextIn(h, s) = [k \in 1 .. e |-> PaddedAt(h, s, k - 1)]
  BY <1>4 DEF TextIn
<1>10. ASSUME NEW k \in 1 .. e
       PROVE  PaddedAt(h, s, k - 1) =
                IF k > offset /\ k <= offset + m THEN buf[k - offset] ELSE IF k <= l THEN c[k] ELSE Zero
  <2>1. PICK q \in Nat : q = k - 1
    BY <1>3
  <2>2. PaddedAt(h, s, q) = IF q >= offset /\ q < offset + m THEN buf[q - offset + 1]
                            ELSE IF q < l THEN PaddedAt(f, s, q) ELSE Zero
    BY <1>5
  <2>3. /\ (q >= offset /\ q < offset + m) <=> (k > offset /\ k <= offset + m)
        /\ q - offset + 1 = k - offset /\ (q < l <=> k <= l)
    BY ONLY <1>1, <1>2, <1>3, <2>1, offset \in Nat
  <2>4. k <= l => c[k] = PaddedAt(f, s, q)
    BY ONLY <1>1, <1>3, <1>7, <2>1
  <2> QED
    BY ONLY <2>1, <2>2, <2>3, <2>4
<1>11. TextIn(h, s) = Store!Overlay(TextIn(f, s), offset, buf)
  BY ONLY <1>6, <1>8, <1>9, <1>10
<1>12. Blank(h, s)
  <2>1. ASSUME NEW q \in Nat, q >= e PROVE PaddedAt(h, s, q) = Zero
    <3>1. ~ (q >= offset /\ q < offset + m) /\ ~ (q < l)
      BY ONLY <1>1, <1>2, <1>3, <2>1, offset \in Nat
    <3> QED
      BY <1>5, <3>1
  <2> QED
    BY <1>4, <2>1 DEF Blank
<1> QED
  BY <1>11, <1>12

LEMMA WriteStore ==
    ASSUME NEW f, NEW q, NEW x, Steady(f, q, x), Tidy(f), NEW h, Steady(h, q, x),
           NEW s \in Sector, RefsTo(q, x, s) > 0, NEW o \in 0 .. MaxPos, NEW buf \in Written,
           WriteDone(f, h, s, buf, o)
    PROVE  Tidy(h) /\ WriteSeen(StoreOf(f, q, x), StoreOf(h, q, x))
<1>1. CASE h = f
  BY <1>1 DEF WriteSeen
<1>2. CASE h # f
  <2>1. /\ ~ denied(f.inode[s]) /\ Bound(h) = Bound(f) /\ LiveIn(h) = LiveIn(f)
        /\ \A t \in LiveIn(f) \ {s} : SameFile(f, h, t)
        /\ NodeIn(h, s).length = IF o + Len(buf) > NodeIn(f, s).length THEN o + Len(buf)
                                 ELSE NodeIn(f, s).length
        /\ \A k \in Nat : PaddedAt(h, s, k) = IF k \in o .. o + Len(buf) - 1 THEN buf[k - o + 1]
                                              ELSE PaddedAt(f, s, k)
    BY <1>2 DEF WriteDone
  <2>2. /\ f \in FileSystem /\ h \in FileSystem /\ Files(f) /\ Files(h) /\ NamesApart(f)
        /\ f.fault = "none" /\ h.fault = "none" /\ q \in Seq(OpenFile) /\ Sound(f, q, x) /\ Sound(h, q, x)
    BY SoundRoot DEF Steady, Tidy
  <2>3. s \in Alive(f, q, x) /\ s \in LiveIn(f) \ Reserved
    <3>1. s \in Alive(f, q, x)
      BY DEF Alive
    <3> QED
      BY <2>2, <3>1, HeldLive
  <2>4. x # s
    <3>1. f.inode[s].open_cnt = RefsTo(q, x, s) + One(s = FREE_MAP_SECTOR)
          /\ (f.inode[s].open_cnt > 0 => f.inode[s].deny_write_cnt = One(x = s))
      BY <2>2 DEF Sound, InodeSound
    <3>2. One(s = FREE_MAP_SECTOR) \in {0, 1} /\ RefsTo(q, x, s) \in Nat
      BY <2>2, RefsType DEF One
    <3>3. f.inode[s].deny_write_cnt = One(x = s)
      BY ONLY <3>1, <3>2, RefsTo(q, x, s) > 0
    <3> QED
      BY <2>1, <3>3 DEF denied, One
  <2>5. Len(buf) \in Nat /\ o \in Nat
    <3>1. PICK n \in WriteSize, y \in Value : buf = [k \in 1 .. n |-> [v |-> y]]
      BY DEF Written
    <3>2. n \in Nat /\ MaxPos \in Nat
      BY Sizes, Constants
    <3> QED
      BY <3>1, <3>2
  <2>6. NodeIn(f, s).length \in Nat /\ Blank(f, s)
    BY <2>2, <2>3, NodeInType DEF Node, Tidy
  <2>7. TextIn(h, s) = Store!Overlay(TextIn(f, s), o, buf) /\ Blank(h, s)
    BY ONLY <2>1, <2>5, <2>6, TextOverlaid
  <2>8. Tidy(h)
    <3>1. NamesApart(h)
      BY <2>1, <2>2 DEF NamesApart
    <3>2. ASSUME NEW t \in LiveIn(h) \ Reserved PROVE Blank(h, t)
      <4>1. t # s => SameFile(f, h, t) /\ Blank(f, t)
        BY <2>1 DEF Tidy
      <4> QED
        BY <2>7, <4>1, SameBlank
    <3> QED
      BY <3>1, <3>2 DEF Tidy
  <2>9. NamesIn(h) = NamesIn(f) /\ Alive(h, q, x) = Alive(f, q, x)
    <3>1. \A t : t \in Named(h) <=> t \in Named(f)
      BY <2>1, BoundNamed
    <3> QED
      BY <2>1, <3>1 DEF NamesIn, Where, Alive
  <2>10. ASSUME NEW t \in Alive(f, q, x), t # s PROVE TextIn(h, t) = TextIn(f, t)
    <3>1. t \in Sector /\ t \in LiveIn(f)
      BY <2>2, HeldLive DEF Alive
    <3>2. SameFile(f, h, t) /\ NodeIn(f, t).length \in Nat
      BY <2>1, <2>2, <2>10, <3>1, NodeInType DEF Node
    <3> QED
      BY <3>2, TextSame
  <2>11. PICK C, Z : C = TextsIn(f, q, x) /\ Z = Store!Overlay(C[s], o, buf)
    OBVIOUS
  <2>12. TextsIn(h, q, x) = Put(C, s, Z)
    <3>1. C[s] = TextIn(f, s)
      BY <2>3, <2>11 DEF TextsIn
    <3>2. TextIn(h, s) = Z
      BY <2>7, <2>11, <3>1
    <3> QED
      BY <2>3, <2>9, <2>10, <2>11, <3>2 DEF TextsIn, Put
  <2>13. PICK a : a = StoreOf(f, q, x)
    OBVIOUS
  <2>14. PICK b : b = StoreOf(h, q, x)
    OBVIOUS
  <2>15. PICK N, H : N = NamesIn(f) /\ H = HeldIn(q, x)
    OBVIOUS
  <2>16. a = Parts(N, C, H, x) /\ b = Parts(N, Put(C, s, Z), H, x)
    BY <2>2, <2>9, <2>11, <2>12, <2>13, <2>14, <2>15, StoreIs
  <2>17. a.held[s] > 0 /\ a.exec = x /\ a.content = C /\ b.content = Put(C, s, Z)
    BY <2>15, <2>16 DEF Parts, HeldIn
  <2>18. Store!Write(a, b, s, o, buf)
    <3>1. b = WithWrite(a, s, Z) /\ Z = Store!Overlay(a.content[s], o, buf)
      BY ONLY <2>11, <2>16, <2>17, PutWrite
    <3> QED
      BY ONLY <2>4, <2>17, <3>1 DEF Store!Write, WithWrite
  <2>19. CASE a.content[s] = b.content[s]
    <3>1. C = [t \in Sector |-> C[t]]
      BY <2>11 DEF TextsIn
    <3>2. Put(C, s, Z)[s] = Z
      BY ONLY <3>1, s \in Sector DEF Put
    <3>3. Put(C, s, Z) = C
      BY ONLY <2>17, <2>19, <3>1, <3>2 DEF Put
    <3> QED
      BY <2>8, <2>13, <2>14, <2>16, <3>3 DEF WriteSeen
  <2>20. CASE a.content[s] # b.content[s]
    <3>1. WriteSeen(a, b)
      BY <2>18, <2>20 DEF WriteSeen
    <3> QED
      BY <2>8, <2>13, <2>14, <3>1
  <2> QED
    BY <2>19, <2>20
<1> QED
  BY <1>1, <1>2

-----------------------------------------------------------------------------
(***************************************************************************)
(* Steps that leave the files as they are.                                 *)
(***************************************************************************)

\* A step to a file system in order, whose files are those of f and not changed.
LEMMA StillIs ==
    ASSUME NEW f, NEW q, NEW x, Steady(f, q, x), Tidy(f), NEW h, NEW r, NEW y, Steady(h, r, y),
           LiveIn(h) \subseteq LiveIn(f), Quiet(f, h, LiveIn(h))
    PROVE  Still(f, q, x, h, r, y)
BY DEF Still, Steady

LEMMA AlikeLive ==
    ASSUME NEW f \in FileSystem, NEW h \in FileSystem, Files(f), Alike(f, h), OpenIn(h) = OpenIn(f)
    PROVE  Named(h) = Named(f) /\ LiveIn(h) = LiveIn(f) /\ Quiet(f, h, LiveIn(h))
<1>1. Quiet(f, h, LiveIn(f))
  BY AlikeQuiet
<1>2. Named(h) = Named(f)
  <2>1. \A t : t \in Named(h) <=> t \in Named(f)
    BY <1>1, BoundNamed DEF Quiet
  <2> QED
    BY <2>1
<1> QED
  BY <1>1, <1>2 DEF LiveIn

LEMMA OpenStill ==
    ASSUME NEW f, NEW q, NEW x, Steady(f, q, x), Tidy(f), NEW s \in LiveIn(f), s \notin Reserved,
           NEW h, h = inode_open(f, s), NEW o \in OpenFile, o.inode = s, NEW r, r = Append(q, o)
    PROVE  /\ Still(f, q, x, h, r, x) /\ Steady(h, r, x)
           /\ \A t \in Sector : RefsTo(r, x, t) = RefsTo(q, x, t) + One(s = t)
<1>1. f \in FileSystem /\ q \in Seq(OpenFile) /\ Sound(f, q, x) /\ f.fault = "none" /\ Files(f)
  BY SoundRoot DEF Steady
<1>0. r \in Seq(OpenFile) /\ Gains(q, o, r)
  BY <1>1, OpenersAppend
<1>2. h \in FileSystem /\ r \in Seq(OpenFile) /\ Sound(h, r, x)
  <2>1. h \in FileSystem /\ r \in Seq(OpenFile)
    BY ONLY <1>1, s \in LiveIn(f), s \notin Reserved, h = inode_open(f, s), o \in OpenFile, o.inode = s,
       r = Append(q, o), OpenSound
  <2>2. Sound(h, r, x)
    BY ONLY <1>1, s \in LiveIn(f), s \notin Reserved, h = inode_open(f, s), o \in OpenFile, o.inode = s,
       r = Append(q, o), OpenSound
  <2> QED
    BY ONLY <2>1, <2>2
<1>3. h.fault = "none" /\ LiveIn(h) = LiveIn(f)
  BY <1>1, OpenStep
<1>4. Quiet(f, h, LiveIn(f))
  BY <1>1, OpenQuiet
<1>5. Steady(h, r, x)
  BY <1>2, <1>3 DEF Steady
<1>6. ASSUME NEW t \in Sector PROVE RefsTo(r, x, t) = RefsTo(q, x, t) + One(s = t)
  <2>1. Cardinality(Openers(r, t)) = Cardinality(Openers(q, t)) + One(s = t)
    BY ONLY <1>0, o.inode = s DEF Gains
  <2>2. Cardinality(Openers(q, t)) \in Nat /\ One(x = t) \in {0, 1} /\ One(s = t) \in {0, 1}
    BY <1>1, OpenersType DEF One
  <2>3. RefsTo(r, x, t) = Cardinality(Openers(r, t)) + One(x = t)
        /\ RefsTo(q, x, t) = Cardinality(Openers(q, t)) + One(x = t)
    BY DEF RefsTo
  <2> QED
    BY ONLY <2>1, <2>2, <2>3
<1> QED
  BY <1>3, <1>4, <1>5, <1>6, StillIs

LEMMA LoadStill ==
    ASSUME NEW f, NEW q, Steady(f, q, None), Tidy(f), NEW s \in LiveIn(f), s \notin Reserved,
           NEW h, h = file_deny_write(inode_open(f, s), s)
    PROVE  Still(f, q, None, h, q, s) /\ Steady(h, q, s)
<1>1. f \in FileSystem /\ q \in Seq(OpenFile) /\ Sound(f, q, None) /\ f.fault = "none" /\ Files(f)
  BY SoundRoot DEF Steady
<1>2. h \in FileSystem /\ Sound(h, q, s)
  BY <1>1, LoadSound
<1>3. PICK e : e = inode_open(f, s)
  OBVIOUS
<1>4. /\ e \in FileSystem /\ e.fault = "none" /\ Files(e) /\ LiveIn(e) = LiveIn(f) /\ s \in Sector
      /\ Quiet(f, e, LiveIn(f))
  BY <1>1, <1>3, OpenStep, OpenQuiet, LiveType
<1>5. PICK v : v = e.inode[s].deny_write_cnt + 1
  OBVIOUS
<1>6. v \in Nat
  <2>1. e.inode[s] \in Inode
    BY <1>4, NodeInType
  <2> QED
    BY <1>5, <2>1 DEF Inode
<1>7. h = DenyPut(e, s, v)
  BY <1>3, <1>5 DEF file_deny_write, DenyPut
<1>8. Alike(e, h) /\ OpenIn(h) = OpenIn(e)
  BY <1>4, <1>6, <1>7, DenySet
<1>9. LiveIn(h) = LiveIn(e) /\ Quiet(e, h, LiveIn(h))
  BY <1>2, <1>4, <1>8, AlikeLive
<1>10. h.fault = "none"
  BY <1>4, <1>8 DEF Alike
<1>11. Quiet(f, h, LiveIn(h))
  BY <1>4, <1>9, QuietShrinks
<1>12. Steady(h, q, s)
  BY <1>1, <1>2, <1>10 DEF Steady
<1> QED
  BY <1>4, <1>9, <1>11, <1>12, StillIs

LEMMA CloseStill ==
    ASSUME NEW f, NEW q, NEW x, Steady(f, q, x), Tidy(f), NEW i \in 1 .. Len(q), NEW s, s = q[i].inode,
           NEW h, h = inode_close(f, s), NEW r, r = RemoveAt(q, i)
    PROVE  /\ Still(f, q, x, h, r, x) /\ Steady(h, r, x) /\ s \in Sector
           /\ RefsTo(q, x, s) > 0 /\ OneLess(q, x, r, x, s)
<1>1. f \in FileSystem /\ q \in Seq(OpenFile) /\ Sound(f, q, x) /\ f.fault = "none" /\ Files(f)
      /\ \A t \in Sector : InodeSound(f, q, x, t)
  BY SoundRoot DEF Steady
<1>2. h \in FileSystem /\ r \in Seq(OpenFile) /\ Sound(h, r, x)
  BY <1>1, CloseSound
<1>3. s \in Sector /\ Cardinality(Openers(q, s)) \in Nat \ {0}
  BY <1>1, OpenersSome
<1>4. RefsTo(q, x, s) > 0
  <2>1. One(x = s) \in {0, 1}
    BY DEF One
  <2> QED
    BY <1>3, <2>1 DEF RefsTo
<1>5. f.inode[s].open_cnt > 0 /\ (f.inode[s].removed => s \notin Named(f) \cup Reserved)
  <2>1. InodeSound(f, q, x, s)
    BY <1>1, <1>3
  <2>2. One(s = FREE_MAP_SECTOR) \in {0, 1} /\ RefsTo(q, x, s) \in Nat
    BY <1>1, RefsType DEF One
  <2> QED
    BY <1>4, <2>1, <2>2 DEF InodeSound
<1>6. h.fault = "none"
  BY <1>1, <1>3, <1>5, CloseStep
<1>7. LiveIn(h) \subseteq LiveIn(f) /\ Quiet(f, h, LiveIn(h))
  BY <1>1, <1>3, <1>5, CloseQuiet
<1>8. Steady(h, r, x)
  BY <1>2, <1>6 DEF Steady
<1>9. ASSUME NEW t \in Sector
      PROVE  RefsTo(r, x, t) = IF t = s THEN RefsTo(q, x, t) - 1 ELSE RefsTo(q, x, t)
  <2>0. Loses(q, i, r)
    BY <1>1, OpenersRemoved
  <2>1. Cardinality(Openers(r, t)) = Cardinality(Openers(q, t)) - One(s = t)
    BY ONLY <2>0, s = q[i].inode DEF Loses
  <2>2. Cardinality(Openers(q, t)) \in Nat /\ One(x = t) \in {0, 1}
    BY <1>1, OpenersType DEF One
  <2>3. RefsTo(r, x, t) = Cardinality(Openers(r, t)) + One(x = t)
        /\ RefsTo(q, x, t) = Cardinality(Openers(q, t)) + One(x = t)
    BY DEF RefsTo
  <2>4. One(s = t) = IF t = s THEN 1 ELSE 0
    BY DEF One
  <2> QED
    BY ONLY <2>1, <2>2, <2>3, <2>4
<1>10. OneLess(q, x, r, x, s)
  BY <1>9 DEF OneLess
<1> QED
  BY <1>3, <1>4, <1>7, <1>8, <1>10, StillIs

LEMMA ExitStill ==
    ASSUME NEW f, NEW q, NEW s \in Sector, Steady(f, q, s), Tidy(f), NEW h, h = file_close(f, s)
    PROVE  Still(f, q, s, h, q, None) /\ Steady(h, q, None)
<1>1. f \in FileSystem /\ q \in Seq(OpenFile) /\ Sound(f, q, s) /\ f.fault = "none" /\ Files(f)
      /\ InodeSound(f, q, s, s)
  BY SoundRoot DEF Steady
<1>2. h \in FileSystem /\ Sound(h, q, None)
  BY <1>1, ExitSound
<1>3. f.inode[s].open_cnt > 0 /\ f.inode[s].deny_write_cnt = 1
      /\ (f.inode[s].removed => s \notin Named(f) \cup Reserved)
  <2>1. /\ Cardinality(Openers(q, s)) \in Nat /\ One(s = s) = 1 /\ One(s = FREE_MAP_SECTOR) \in {0, 1}
        /\ RefsTo(q, s, s) = Cardinality(Openers(q, s)) + One(s = s)
    BY <1>1, RefsType DEF One
  <2> QED
    BY <1>1, <2>1 DEF InodeSound
<1>4. PICK e : e = file_allow_write(f, s)
  OBVIOUS
<1>5. e = DenyPut(f, s, 0)
  <2>1. f.inode[s].deny_write_cnt - 1 = 0
    BY <1>3
  <2>2. e = [f EXCEPT !.inode[s].deny_write_cnt = f.inode[s].deny_write_cnt - 1]
    BY <1>4 DEF file_allow_write
  <2> QED
    BY <2>1, <2>2 DEF DenyPut
<1>6. e \in FileSystem /\ Alike(f, e) /\ OpenIn(e) = OpenIn(f)
      /\ e.inode[s].open_cnt = f.inode[s].open_cnt /\ e.inode[s].removed = f.inode[s].removed
  BY <1>1, <1>5, DenySet
<1>7. Files(e) /\ Named(e) = Named(f) /\ LiveIn(e) = LiveIn(f) /\ Quiet(f, e, LiveIn(e)) /\ e.fault = "none"
  BY <1>1, <1>6, AlikeFiles, AlikeLive DEF Alike, LiveIn
<1>8. h = inode_close(e, s)
  BY <1>4 DEF file_close
<1>9. e.inode[s].open_cnt > 0 /\ (e.inode[s].removed => s \notin Named(e) \cup Reserved)
  BY <1>3, <1>6, <1>7
<1>10. LiveIn(h) \subseteq LiveIn(e) /\ Quiet(e, h, LiveIn(h)) /\ h.fault = "none"
  BY <1>6, <1>7, <1>8, <1>9, CloseQuiet, CloseStep
<1>11. Quiet(f, h, LiveIn(h))
  BY <1>7, <1>10, QuietShrinks
<1>12. Steady(h, q, None)
  BY <1>1, <1>2, <1>10 DEF Steady
<1> QED
  BY <1>7, <1>10, <1>11, <1>12, StillIs

LEMMA HaltStill ==
    ASSUME NEW f, NEW q, NEW x, Steady(f, q, x), Tidy(f),
           \A s \in Sector : f.inode[s].open_cnt > 0 /\ ~ f.inode[s].removed => f.inode[s].node = f.disk[s],
           NEW h, h = inode_open(Stopped(f), FREE_MAP_SECTOR), NEW r, r = <<>>
    PROVE  Still(f, q, x, h, r, None) /\ Steady(h, r, None)
<1>1. f \in FileSystem /\ q \in Seq(OpenFile) /\ Sound(f, q, x) /\ f.fault = "none" /\ Files(f)
  BY SoundRoot DEF Steady
<1>2. PICK e : e = Stopped(f)
  OBVIOUS
<1>3. e \in FileSystem /\ e.fault = "none" /\ Files(e) /\ (\A s \in Sector : e.inode[s].open_cnt = 0)
      /\ LiveIn(e) \subseteq LiveIn(f) /\ Quiet(f, e, LiveIn(e))
  BY <1>1, <1>2, StopFiles
<1>4. h = inode_open(e, FREE_MAP_SECTOR) /\ FREE_MAP_SECTOR \in LiveIn(e)
  BY <1>2 DEF LiveIn, Reserved
<1>5. h \in FileSystem /\ h.fault = "none" /\ Sound(h, r, None)
  BY <1>3, <1>4, Started
<1>6. LiveIn(h) = LiveIn(e) /\ Quiet(e, h, LiveIn(e))
  BY <1>3, <1>4, OpenStep, OpenQuiet
<1>7. Quiet(f, h, LiveIn(h))
  BY <1>3, <1>6, QuietShrinks
<1>8. Steady(h, r, None)
  <2>1. r \in Seq(OpenFile)
    OBVIOUS
  <2> QED
    BY <1>5, <2>1 DEF Steady
<1> QED
  BY <1>3, <1>6, <1>7, <1>8, StillIs

LEMMA EvictStill ==
    ASSUME NEW f, NEW q, NEW x, Steady(f, q, x), Tidy(f), NEW s, NEW h, h = Forgotten(f, s)
    PROVE  Still(f, q, x, h, q, x) /\ Steady(h, q, x)
<1>1. f \in FileSystem /\ q \in Seq(OpenFile) /\ Sound(f, q, x) /\ f.fault = "none" /\ Files(f)
  BY SoundRoot DEF Steady
<1>2. PICK c : c = f.cached \ {s}
  OBVIOUS
<1>3. h = [free_map |-> f.free_map, cached |-> c, disk |-> f.disk, inode |-> f.inode, block |-> f.block,
           data |-> f.data, fault |-> f.fault]
  BY ONLY <1>1, h = Forgotten(f, s), <1>2 DEF FileSystem, Forgotten
<1>4. /\ h.free_map = f.free_map /\ h.disk = f.disk /\ h.inode = f.inode /\ h.block = f.block /\ h.data = f.data
      /\ h.fault = f.fault
  BY ONLY <1>3
<1>5. Alike(f, h) /\ OpenIn(h) = OpenIn(f)
  BY <1>4 DEF Alike, NodeIn, OpenIn
<1>6. h \in FileSystem /\ h.fault = "none" /\ Sound(h, q, x)
  BY <1>1, <1>4, Evicted
<1>7. LiveIn(h) = LiveIn(f) /\ Quiet(f, h, LiveIn(h))
  BY <1>1, <1>5, <1>6, AlikeLive
<1>8. Steady(h, q, x)
  BY <1>1, <1>6 DEF Steady
<1> QED
  BY <1>7, <1>8, StillIs

\* Moving positions is not seen.
LEMMA MovedStill ==
    ASSUME NEW f, NEW q, NEW x, Steady(f, q, x), NEW i \in 1 .. Len(q), NEW p \in Nat, NEW r, r = Placing(q, i, p)
    PROVE  Steady(f, r, x) /\ StoreOf(f, r, x) = StoreOf(f, q, x)
<1>1. f \in FileSystem /\ q \in Seq(OpenFile) /\ Sound(f, q, x) /\ f.fault = "none"
  BY DEF Steady
<1>2. Steady(f, r, x)
  BY <1>1, MovedSound DEF Steady
<1>3. \A t : RefsTo(r, x, t) = RefsTo(q, x, t)
  BY <1>1, OpenersMoved DEF Moves, RefsTo
<1>4. HeldIn(r, x) = HeldIn(q, x) /\ Alive(f, r, x) = Alive(f, q, x)
  BY <1>3 DEF HeldIn, Alive
<1>5. TextsIn(f, r, x) = TextsIn(f, q, x)
  BY <1>4 DEF TextsIn
<1> QED
  BY <1>2, <1>4, <1>5 DEF StoreOf

-----------------------------------------------------------------------------
(***************************************************************************)
(* The view and the invariant.                                             *)
(***************************************************************************)

\* What the callers of the file system see.
Seen == StoreOf(fs, open_files, thread_file)

\* The entries E say where the names of f lead.
Lists(E, f) == \A n, s : <<n, s>> \in Bound(f) <=> \E e \in E : e.name = n /\ e.sector = s

\* The entries of the directory are what names are bound to.
LEMMA EntriesBound ==
    ASSUME NEW f \in FileSystem, Files(f), f.inode[ROOT_DIR_SECTOR].open_cnt = 0,
           NEW h, h = dir_open_root(f), NEW es, es = root_entries(h),
           NEW E, E = {e \in {es[k] : k \in 1 .. Len(es)} : in_use(e)}
    PROVE  Lists(E, f)
<1>1. h \in FileSystem /\ RootOpen(h)
  BY RootOpened
<1>2. Bound(h) = Bound(f)
  BY RootOpenedQuiet DEF Quiet
<1>3. PICK l : l = NodeIn(h, ROOT_DIR_SECTOR).length
  OBVIOUS
<1>4. l \in Nat /\ Len(es) = l /\ \A k \in 1 .. l : es[k] = UnitAt(h, ROOT_DIR_SECTOR, k - 1)
  BY <1>1, <1>3, RootEntries
<1>5. ASSUME NEW n, NEW s, <<n, s>> \in Bound(f) PROVE \E e \in E : e.name = n /\ e.sector = s
  <2>0. <<n, s>> \in Bound(h)
    BY <1>2, <1>5
  <2>1. PICK q \in Used(h) : n = NameAt(h, q) /\ s = SectorAt(h, q)
    BY ONLY <2>0 DEF Bound
  <2>2. q \in 0 .. l - 1 /\ in_use(UnitAt(h, ROOT_DIR_SECTOR, q))
    BY <1>3, <2>1 DEF Used
  <2>3. PICK k \in 1 .. l : k = q + 1 /\ k - 1 = q
    BY <1>4, <2>2
  <2>4. es[k] = UnitAt(h, ROOT_DIR_SECTOR, q)
    BY <1>4, <2>3
  <2>5. es[k] \in E
    BY <1>4, <2>2, <2>4
  <2> QED
    BY <2>1, <2>4, <2>5 DEF NameAt, SectorAt
<1>6. ASSUME NEW e \in E PROVE <<e.name, e.sector>> \in Bound(f)
  <2>1. PICK k \in 1 .. l : e = es[k] /\ in_use(es[k])
    BY <1>4
  <2>2. PICK q \in 0 .. l - 1 : q = k - 1
    BY <1>4
  <2>3. e = UnitAt(h, ROOT_DIR_SECTOR, q) /\ q \in Used(h)
    BY <1>3, <1>4, <2>1, <2>2 DEF Used
  <2>4. <<NameAt(h, q), SectorAt(h, q)>> \in Bound(h)
    BY <2>3 DEF Bound
  <2> QED
    BY <1>2, <2>3, <2>4 DEF NameAt, SectorAt
<1>7. ASSUME NEW n, NEW s, \E e \in E : e.name = n /\ e.sector = s PROVE <<n, s>> \in Bound(f)
  <2>1. PICK e \in E : e.name = n /\ e.sector = s
    BY <1>7
  <2>2. <<e.name, e.sector>> \in Bound(f)
    BY <1>6
  <2> QED
    BY <2>1, <2>2
<1> QED
  BY ONLY <1>5, <1>7 DEF Lists

\* Reading a file from its start to its end gives its contents.
LEMMA ReadWhole ==
    ASSUME NEW f, NEW q, NEW x, Steady(f, q, x), NEW s \in Sector, s \in Alive(f, q, x),
           NEW l, l = NodeIn(f, s).length
    PROVE  inode_read_at(inode_open(f, s), s, l, 0) = TextIn(f, s)
<1>1. f \in FileSystem /\ q \in Seq(OpenFile) /\ Sound(f, q, x) /\ Files(f) /\ InodeSound(f, q, x, s)
  BY SoundRoot DEF Steady
<1>2. s \in LiveIn(f) /\ Kept(f, s)
  BY <1>1, HeldLive, LiveType
<1>3. PICK h : h = inode_open(f, s)
  OBVIOUS
<1>4. h \in FileSystem /\ Alike(f, h) /\ h.inode[s].open_cnt = f.inode[s].open_cnt + 1
      /\ h.inode[s].node = NodeIn(f, s)
      /\ (f.inode[s].open_cnt > 0 => h.inode[s].read_length = f.inode[s].read_length)
      /\ (~ (f.inode[s].open_cnt > 0) => h.inode[s].read_length = NodeIn(f, s).length)
  BY <1>1, <1>3, OpenedFile
<1>5. NodeIn(f, s) \in Node /\ l \in Nat /\ NodeIn(h, s) = NodeIn(f, s)
  BY <1>1, <1>4, NodeInType DEF Node, Alike
<1>6. h.inode[s].read_length = l
  <2>1. f.inode[s].open_cnt > 0 => f.inode[s].read_length = NodeIn(f, s).length
    BY <1>1 DEF InodeSound, NodeIn
  <2> QED
    BY <1>4, <2>1
<1>7. Kept(h, s) /\ SameFile(f, h, s)
  <2>1. Quiet(f, h, LiveIn(f)) /\ Files(h) /\ LiveIn(h) = LiveIn(f)
    BY <1>1, <1>2, <1>3, OpenQuiet, OpenStep
  <2> QED
    BY <1>2, <1>4, <2>1, LiveType DEF Quiet
<1>8. inode_read_at(h, s, l, 0) = [k \in 1 .. l |-> h.data[byte_to_sector(h, NodeIn(h, s), 0 + k - 1)][(0 + k - 1) % UNIT]]
  <2>1. l - 0 = l /\ ~ (l < 0) /\ ~ (l < l)
    BY <1>5
  <2> QED
    BY <1>4, <1>5, <1>6, <2>1 DEF inode_read_at
<1>9. ASSUME NEW k \in 1 .. l
      PROVE  h.data[byte_to_sector(h, NodeIn(h, s), 0 + k - 1)][(0 + k - 1) % UNIT] = PaddedAt(f, s, k - 1)
  <2>1. PICK j \in Nat : j = k - 1 /\ 0 + k - 1 = j /\ j < l
    BY <1>5
  <2>2. PaddedAt(h, s, j) = UnitAt(h, s, j)
    BY <1>4, <1>5, <2>1, PaddedInside
  <2>3. PaddedAt(h, s, j) = PaddedAt(f, s, j)
    BY <1>7, <2>1 DEF SameFile
  <2>4. h.data[byte_to_sector(h, NodeIn(h, s), j)][j % UNIT] = UnitAt(h, s, j)
    BY DEF UnitAt, byte_to_sector
  <2> QED
    BY <2>1, <2>2, <2>3, <2>4
<1> QED
  BY ONLY <1>3, <1>8, <1>9, l = NodeIn(f, s).length DEF TextIn

\* The invariant with the files that are in order for their callers.
JInv == IInv /\ (fs.fault = "none" => Tidy(fs))
ViewOk == /\ fs.fault = "none" => View = Seen
          /\ fs.fault # "none" => View.broken

LEMMA ViewSeen == JInv => ViewOk
<1> SUFFICES ASSUME JInv PROVE ViewOk
  OBVIOUS
<1>1. fs.fault # "none" => View.broken
  BY DEF View, Running
<1>2. ASSUME fs.fault = "none" PROVE View = Seen
  <2>1. Steady(fs, open_files, thread_file) /\ NamesApart(fs) /\ fs \in FileSystem /\ Files(fs)
        /\ fs.inode[ROOT_DIR_SECTOR].open_cnt = 0
    BY <1>2, SoundRoot DEF JInv, IInv, Steady, Tidy
  <2>2. PICK h : h = dir_open_root(fs)
    OBVIOUS
  <2>3. PICK es : es = root_entries(h)
    OBVIOUS
  <2>4. PICK E : E = Entries
    OBVIOUS
  <2>5. E = {e \in {es[k] : k \in 1 .. Len(es)} : in_use(e)}
    BY <2>2, <2>3, <2>4 DEF Entries
  <2>6. \A n, s : <<n, s>> \in Bound(fs) <=> \E e \in E : e.name = n /\ e.sector = s
    <3>1. Lists(E, fs)
      BY ONLY <2>1, <2>2, <2>3, <2>5, EntriesBound
    <3> QED
      BY ONLY <3>1 DEF Lists
  <2>7. ASSUME NEW n
        PROVE  (IF \E e \in E : e.name = n THEN (CHOOSE e \in E : e.name = n).sector ELSE None) = Where(fs, n)
    <3>1. CASE \E e \in E : e.name = n
      <4>1. PICK k : k = CHOOSE e \in E : e.name = n
        OBVIOUS
      <4>2. k \in E /\ k.name = n
        BY <3>1, <4>1
      <4>3. <<n, k.sector>> \in Bound(fs)
        BY <2>6, <4>2
      <4>4. Where(fs, n) = k.sector
        BY <2>1, <4>3, WhereIs
      <4> QED
        BY <3>1, <4>1, <4>4
    <3>2. CASE ~ \E e \in E : e.name = n
      <4>1. \A s : <<n, s>> \notin Bound(fs)
        BY <2>6, <3>2
      <4>2. Where(fs, n) = None
        BY <2>1, <4>1, WhereIs
      <4> QED
        BY <3>2, <4>2
    <3> QED
      BY <3>1, <3>2
  <2>8. \A s : s \in Named(fs) <=> \E e \in E : e.sector = s
    BY <2>6, BoundNamed
  <2>9. \A s : Refs(s) = RefsTo(open_files, thread_file, s)
    BY DEF Refs, RefsTo, Openers, One
  <2>10. ASSUME NEW s \in Sector, s \in Alive(fs, open_files, thread_file) PROVE Content(s) = TextIn(fs, s)
    <3>1. NodeOf(s) = NodeIn(fs, s)
      BY DEF NodeOf, NodeIn
    <3> QED
      BY <2>1, <2>10, <3>1, ReadWhole DEF Content
  <2>11. [n \in Name |-> IF \E e \in E : e.name = n THEN (CHOOSE e \in E : e.name = n).sector ELSE None]
         = NamesIn(fs)
    BY <2>7 DEF NamesIn
  <2>12. [s \in Sector |-> IF Refs(s) > 0 \/ \E e \in E : e.sector = s THEN Content(s) ELSE Gone]
         = TextsIn(fs, open_files, thread_file)
    <3>1. \A s \in Sector : (Refs(s) > 0 \/ \E e \in E : e.sector = s) <=> s \in Alive(fs, open_files, thread_file)
      BY <2>8, <2>9 DEF Alive
    <3> QED
      BY <2>10, <3>1 DEF TextsIn
  <2>13. [s \in Sector |-> Refs(s)] = HeldIn(open_files, thread_file)
    BY <2>9 DEF HeldIn
  <2>14. View = [names |-> NamesIn(fs), content |-> TextsIn(fs, open_files, thread_file),
                 held |-> HeldIn(open_files, thread_file), exec |-> thread_file, broken |-> ~ Running]
    BY ONLY <2>4, <2>11, <2>12, <2>13 DEF View
  <2>15. (~ Running) = FALSE
    BY <1>2 DEF Running
  <2> QED
    BY ONLY <1>2, <2>14, <2>15 DEF Seen, StoreOf
<1> QED
  BY <1>1, <1>2 DEF ViewOk

-----------------------------------------------------------------------------
(***************************************************************************)
(* Every step is a step of FileStore.                                      *)
(***************************************************************************)

\* A name that is found is bound to the sector that is found.
LEMMA TargetBound ==
    ASSUME NEW f, NEW q, NEW x, Steady(f, q, x), NEW name, NEW h, h = dir_open_root(f), lookup(h, name) # 0,
           NEW s, s = sector_of(h, name)
    PROVE  <<name, s>> \in Bound(f) /\ s \in LiveIn(f) /\ s \notin Reserved /\ s \in Sector
<1>1. f \in FileSystem /\ q \in Seq(OpenFile) /\ Sound(f, q, x) /\ Files(f) /\ f.inode[ROOT_DIR_SECTOR].open_cnt = 0
  BY SoundRoot DEF Steady
<1>2. s \in LiveIn(f) /\ s \notin Reserved /\ s \in Sector
  BY <1>1, TargetNamed
<1>3. h \in FileSystem /\ RootOpen(h)
  BY <1>1, RootOpened
<1>4. Bound(h) = Bound(f)
  BY <1>1, RootOpenedQuiet DEF Quiet
<1>5. PICK k : k = lookup(h, name)
  OBVIOUS
<1>6. k - 1 \in Used(h) /\ s = SectorAt(h, k - 1) /\ NameAt(h, k - 1) = name
  BY <1>3, <1>5, Looked
<1>7. <<name, s>> \in Bound(h)
  BY ONLY <1>6 DEF Bound
<1> QED
  BY <1>2, <1>4, <1>7

\* What a step without a fault has to do.
Follows(a, f, q, x) == Steady(f, q, x) /\ Tidy(f) /\ Store!Step(a, StoreOf(f, q, x))
Going == JInv /\ fs.fault = "none"

LEMMA GoingSteady ==
    ASSUME Going
    PROVE  Steady(fs, open_files, thread_file) /\ Tidy(fs) /\ fs \in FileSystem /\ open_files \in Seq(OpenFile)
           /\ Sound(fs, open_files, thread_file) /\ fs.fault = "none"
BY DEF Going, JInv, IInv, Steady

\* The steps of FileStore.
LEMMA StepKinds ==
    ASSUME NEW a, NEW b
    PROVE  /\ a = b => Store!Step(a, b)
           /\ Store!Halt(a, b) => Store!Step(a, b)
           /\ Store!Finish(a, b) => Store!Step(a, b)
           /\ \A n \in Name : Store!Open(a, b, n) => Store!Step(a, b)
           /\ \A n \in Name : Store!Start(a, b, n) => Store!Step(a, b)
           /\ \A n \in Name : Store!Remove(a, b, n) => Store!Step(a, b)
           /\ \A n \in Name : b.names[n] # None /\ Store!Create(a, b, n, b.names[n]) => Store!Step(a, b)
           /\ \A s \in Sector : Store!Close(a, b, s) => Store!Step(a, b)
           /\ WriteSeen(a, b) => Store!Step(a, b)
<1>1. a = b => Store!Step(a, b)
  BY DEF Store!Step
<1>2. Store!Halt(a, b) => Store!Step(a, b)
  BY DEF Store!Step
<1>3. Store!Finish(a, b) => Store!Step(a, b)
  BY DEF Store!Step
<1>4. \A n \in Name : Store!Open(a, b, n) => Store!Step(a, b)
  BY DEF Store!Step
<1>5. \A n \in Name : Store!Start(a, b, n) => Store!Step(a, b)
  BY DEF Store!Step
<1>6. \A n \in Name : Store!Remove(a, b, n) => Store!Step(a, b)
  BY DEF Store!Step
<1>7. \A n \in Name : b.names[n] # None /\ Store!Create(a, b, n, b.names[n]) => Store!Step(a, b)
  BY DEF Store!Step
<1>8. \A s \in Sector : Store!Close(a, b, s) => Store!Step(a, b)
  BY DEF Store!Step
<1>9. WriteSeen(a, b) => Store!Step(a, b)
  BY DEF Store!Step, WriteSeen, Written
<1> QED
  BY <1>1, <1>2, <1>3, <1>4, <1>5, <1>6, <1>7, <1>8, <1>9

\* open ().
LEMMA OpenFollows ==
    ASSUME Going, NEW name \in Name, open(name)
    PROVE  Follows(Seen, fs', open_files', thread_file')
<1>1. /\ Steady(fs, open_files, thread_file) /\ Tidy(fs) /\ next_fd \in 2 .. MaxFd + 2
  BY GoingSteady DEF Going, JInv, IInv
<1>2. PICK f : f = dir_open_root(fs)
  OBVIOUS
<1>3. PICK s : s = sector_of(f, name)
  OBVIOUS
<1>4. lookup(f, name) # 0 /\ fs' = inode_open(fs, s)
  BY <1>2, <1>3 DEF open, Known, Target
<1>5. <<name, s>> \in Bound(fs) /\ s \in LiveIn(fs) /\ s \notin Reserved /\ s \in Sector
  BY <1>1, <1>2, <1>3, <1>4, TargetBound
<1>6. PICK o : o = [fd |-> next_fd, inode |-> s, pos |-> 0]
  OBVIOUS
<1>7. o \in OpenFile /\ o.inode = s
  BY <1>1, <1>5, <1>6, Constants DEF OpenFile
<1>8. open_files' = Append(open_files, o) /\ thread_file' = thread_file
  BY <1>2, <1>3, <1>6 DEF open, add_file, Target
<1>9. PICK h : h = fs'
  OBVIOUS
<1>10. PICK r : r = open_files'
  OBVIOUS
<1>11. PICK q : q = open_files
  OBVIOUS
<1>12. PICK x : x = thread_file
  OBVIOUS
<1>13. PICK g : g = fs
  OBVIOUS
<1>14. /\ Steady(g, q, x) /\ Tidy(g) /\ s \in LiveIn(g) /\ h = inode_open(g, s) /\ r = Append(q, o)
       /\ <<name, s>> \in Bound(g)
  BY ONLY <1>1, <1>4, <1>5, <1>8, <1>9, <1>10, <1>11, <1>12, <1>13
<1>15. Still(g, q, x, h, r, x) /\ Steady(h, r, x) /\ \A t \in Sector : RefsTo(r, x, t) = RefsTo(q, x, t) + One(s = t)
  <2>1. Still(g, q, x, h, r, x)
    BY ONLY <1>5, <1>7, <1>14, OpenStill
  <2>2. Steady(h, r, x)
    BY ONLY <1>5, <1>7, <1>14, OpenStill
  <2>3. q \in Seq(OpenFile)
    BY ONLY <1>14 DEF Steady
  <2>4. Gains(q, o, r)
    BY ONLY <2>3, <1>7, <1>14, OpenersAppend
  <2>5. ASSUME NEW t \in Sector PROVE RefsTo(r, x, t) = RefsTo(q, x, t) + One(s = t)
    <3>1. Cardinality(Openers(r, t)) = Cardinality(Openers(q, t)) + One(s = t)
      BY ONLY <2>4, <1>7 DEF Gains
    <3>2. Cardinality(Openers(q, t)) \in Nat
      BY ONLY <2>3, OpenersType
    <3>3. One(x = t) \in {0, 1} /\ One(s = t) \in {0, 1}
      BY ONLY DEF One
    <3>4. /\ RefsTo(r, x, t) = Cardinality(Openers(r, t)) + One(x = t)
          /\ RefsTo(q, x, t) = Cardinality(Openers(q, t)) + One(x = t)
      BY ONLY DEF RefsTo
    <3> QED
      BY ONLY <3>1, <3>2, <3>3, <3>4
  <2> QED
    BY ONLY <2>1, <2>2, <2>5
<1>16. Tidy(h)
  BY ONLY <1>15, StillTidy
<1>17. Store!Open(StoreOf(g, q, x), StoreOf(h, r, x), name)
  BY ONLY <1>14, <1>15, OpenStore
<1>18. Store!Step(StoreOf(g, q, x), StoreOf(h, r, x))
  BY ONLY <1>17, StepKinds, name \in Name
<1>19. Follows(StoreOf(g, q, x), h, r, x)
  BY ONLY <1>15, <1>16, <1>18 DEF Follows
<1> QED
  BY ONLY <1>8, <1>9, <1>10, <1>11, <1>12, <1>13, <1>19 DEF Seen

\* load ().
LEMMA LoadFollows ==
    ASSUME Going, NEW name \in Name, load_open(name)
    PROVE  Follows(Seen, fs', open_files', thread_file')
<1>1. Steady(fs, open_files, thread_file) /\ Tidy(fs) /\ thread_file = None
  BY GoingSteady DEF load_open
<1>2. PICK f : f = dir_open_root(fs)
  OBVIOUS
<1>3. PICK s : s = sector_of(f, name)
  OBVIOUS
<1>4. /\ lookup(f, name) # 0 /\ fs' = file_deny_write(inode_open(fs, s), s) /\ thread_file' = s
      /\ open_files' = open_files
  BY <1>2, <1>3 DEF load_open, Known, Target
<1>5. <<name, s>> \in Bound(fs) /\ s \in LiveIn(fs) /\ s \notin Reserved /\ s \in Sector
  BY <1>1, <1>2, <1>3, <1>4, TargetBound
<1>6. PICK h : h = fs'
  OBVIOUS
<1>7. Still(fs, open_files, None, h, open_files, s) /\ Steady(h, open_files, s)
  BY <1>1, <1>4, <1>5, <1>6, LoadStill
<1>8. Tidy(h)
  BY ONLY <1>7, StillTidy
<1>9. Store!Start(StoreOf(fs, open_files, None), StoreOf(h, open_files, s), name)
  BY ONLY <1>5, <1>7, StartStore
<1>10. Store!Step(StoreOf(fs, open_files, None), StoreOf(h, open_files, s))
  BY ONLY <1>9, StepKinds, name \in Name
<1>11. Follows(StoreOf(fs, open_files, None), h, open_files, s)
  BY ONLY <1>7, <1>8, <1>10 DEF Follows
<1> QED
  BY ONLY <1>1, <1>4, <1>6, <1>11 DEF Seen

\* close ().
LEMMA CloseFollows ==
    ASSUME Going, NEW i \in 1 .. Len(open_files), close(i)
    PROVE  Follows(Seen, fs', open_files', thread_file')
<1>1. Steady(fs, open_files, thread_file) /\ Tidy(fs)
  BY GoingSteady
<1>2. /\ fs' = inode_close(fs, open_files[i].inode) /\ open_files' = RemoveAt(open_files, i)
      /\ thread_file' = thread_file
  BY DEF close
<1>3. PICK h : h = fs'
  OBVIOUS
<1>4. PICK r : r = open_files'
  OBVIOUS
<1>5. PICK s : s = open_files[i].inode
  OBVIOUS
<1>6. h = inode_close(fs, s) /\ r = RemoveAt(open_files, i)
  BY ONLY <1>2, <1>3, <1>4, <1>5
<1>7. /\ Still(fs, open_files, thread_file, h, r, thread_file) /\ Steady(h, r, thread_file)
      /\ s \in Sector /\ RefsTo(open_files, thread_file, s) > 0 /\ OneLess(open_files, thread_file, r, thread_file, s)
  BY ONLY <1>1, <1>5, <1>6, CloseStill, i \in 1 .. Len(open_files)
<1>8. Tidy(h)
  BY ONLY <1>7, StillTidy
<1>9. Store!Close(StoreOf(fs, open_files, thread_file), StoreOf(h, r, thread_file), s)
  BY ONLY <1>7, CloseStore
<1>10. Store!Step(StoreOf(fs, open_files, thread_file), StoreOf(h, r, thread_file))
  BY ONLY <1>7, <1>9, StepKinds
<1>11. Follows(StoreOf(fs, open_files, thread_file), h, r, thread_file)
  BY ONLY <1>7, <1>8, <1>10 DEF Follows
<1> QED
  BY ONLY <1>2, <1>3, <1>4, <1>11 DEF Seen

\* The end of a process.
LEMMA ExitFollows ==
    ASSUME Going, exit_close
    PROVE  Follows(Seen, fs', open_files', thread_file')
<1>1. Steady(fs, open_files, thread_file) /\ Tidy(fs) /\ thread_file \in Sector \cup {None}
  BY GoingSteady DEF Going, JInv, IInv
<1>2. /\ fs' = (IF thread_file = None THEN fs ELSE file_close(fs, thread_file))
      /\ thread_file' = None /\ open_files' = open_files
  BY DEF exit_close
<1>3. CASE thread_file = None
  <2>1. Store!Step(Seen, Seen)
    BY ONLY StepKinds
  <2>2. Follows(Seen, fs, open_files, thread_file)
    BY ONLY <1>1, <2>1 DEF Follows, Seen
  <2> QED
    BY ONLY <1>2, <1>3, <2>2
<1>4. CASE thread_file # None
  <2>1. PICK h : h = fs'
    OBVIOUS
  <2>2. h = file_close(fs, thread_file) /\ thread_file \in Sector
    BY <1>1, <1>2, <1>4, <2>1
  <2>3. Still(fs, open_files, thread_file, h, open_files, None) /\ Steady(h, open_files, None)
    BY ONLY <1>1, <2>2, ExitStill
  <2>4. Tidy(h)
    BY ONLY <2>3, StillTidy
  <2>5. Store!Finish(StoreOf(fs, open_files, thread_file), StoreOf(h, open_files, None))
    BY ONLY <2>2, <2>3, FinishStore
  <2>6. Store!Step(StoreOf(fs, open_files, thread_file), StoreOf(h, open_files, None))
    BY ONLY <2>5, StepKinds
  <2>7. Follows(StoreOf(fs, open_files, thread_file), h, open_files, None)
    BY ONLY <2>3, <2>4, <2>6 DEF Follows
  <2> QED
    BY ONLY <1>2, <2>1, <2>7 DEF Seen
<1> QED
  BY <1>3, <1>4

\* The machine stops and starts again.
LEMMA HaltFollows ==
    ASSUME Going, Halt, fs'.fault = "none"
    PROVE  Follows(Seen, fs', open_files', thread_file')
<1>1. Steady(fs, open_files, thread_file) /\ Tidy(fs) /\ fs.fault = "none" /\ fs \in FileSystem
  BY GoingSteady
<1>2. thread_file' = None /\ open_files' = <<>>
  BY DEF Halt
<1>3. ~ Unsaved
  <2>1. ASSUME Unsaved PROVE FALSE
    <3>1. fs' = Fails(fs, "unsaved")
      BY <2>1 DEF Halt
    <3>2. fs'.fault # "none"
      BY <1>1, <3>1 DEF Fails, FileSystem
    <3> QED
      BY <3>2
  <2> QED
    BY <2>1
<1>4. PICK h : h = fs'
  OBVIOUS
<1>5. PICK r : r = open_files'
  OBVIOUS
<1>6. h = inode_open(Stopped(fs), FREE_MAP_SECTOR) /\ r = <<>>
  BY <1>2, <1>3, <1>4, <1>5 DEF Halt, Stopped
<1>7. \A s \in Sector : fs.inode[s].open_cnt > 0 /\ ~ fs.inode[s].removed => fs.inode[s].node = fs.disk[s]
  BY <1>3 DEF Unsaved
<1>8. Still(fs, open_files, thread_file, h, r, None) /\ Steady(h, r, None)
  BY ONLY <1>1, <1>6, <1>7, HaltStill
<1>9. Tidy(h)
  BY ONLY <1>8, StillTidy
<1>10. Store!Halt(StoreOf(fs, open_files, thread_file), StoreOf(h, r, None))
  BY ONLY <1>6, <1>8, HaltStore
<1>11. Store!Step(StoreOf(fs, open_files, thread_file), StoreOf(h, r, None))
  BY ONLY <1>10, StepKinds
<1>12. Follows(StoreOf(fs, open_files, thread_file), h, r, None)
  BY ONLY <1>8, <1>9, <1>11 DEF Follows
<1> QED
  BY ONLY <1>2, <1>4, <1>5, <1>12 DEF Seen

\* A cell of the cache goes.
LEMMA EvictFollows ==
    ASSUME Going, NEW s \in Sector, Evict(s)
    PROVE  Follows(Seen, fs', open_files', thread_file')
<1>1. Steady(fs, open_files, thread_file) /\ Tidy(fs)
  BY GoingSteady
<1>2. fs' = Forgotten(fs, s) /\ thread_file' = thread_file /\ open_files' = open_files
  BY DEF Evict, Forgotten, SameFiles
<1>3. PICK h : h = fs'
  OBVIOUS
<1>4. Still(fs, open_files, thread_file, h, open_files, thread_file) /\ Steady(h, open_files, thread_file)
  BY ONLY <1>1, <1>2, <1>3, EvictStill
<1>5. Tidy(h)
  BY ONLY <1>4, StillTidy
<1>6. StoreOf(h, open_files, thread_file) = StoreOf(fs, open_files, thread_file)
  BY ONLY <1>4, SameStore
<1>7. Store!Step(StoreOf(fs, open_files, thread_file), StoreOf(h, open_files, thread_file))
  BY ONLY <1>6, StepKinds
<1>8. Follows(StoreOf(fs, open_files, thread_file), h, open_files, thread_file)
  BY ONLY <1>4, <1>5, <1>7 DEF Follows
<1> QED
  BY ONLY <1>2, <1>3, <1>8 DEF Seen

\* remove ().
LEMMA RemoveFollows ==
    ASSUME Going, NEW name \in Name, remove(name)
    PROVE  Follows(Seen, fs', open_files', thread_file')
<1>1. /\ Steady(fs, open_files, thread_file) /\ Tidy(fs) /\ fs \in FileSystem /\ open_files \in Seq(OpenFile)
      /\ Sound(fs, open_files, thread_file) /\ fs.fault = "none"
  BY GoingSteady
<1>2. PICK f : f = dir_open_root(fs)
  OBVIOUS
<1>3. lookup(f, name) # 0 /\ fs' = dir_close(dir_remove(f, name))
  BY <1>2 DEF remove, Known
<1>4. thread_file' = thread_file /\ open_files' = open_files
  BY DEF remove, SameFiles
<1>5. PICK h : h = fs'
  OBVIOUS
<1>6. h = dir_close(dir_remove(f, name))
  BY ONLY <1>3, <1>5
<1>7. h \in FileSystem /\ h.fault = "none" /\ Sound(h, open_files, thread_file) /\ RemoveDone(fs, h, name)
  BY ONLY <1>1, <1>2, <1>3, <1>6, RemoveSound, name \in Name
<1>8. Steady(h, open_files, thread_file)
  BY ONLY <1>1, <1>7 DEF Steady
<1>9. Tidy(h) /\ Store!Remove(StoreOf(fs, open_files, thread_file), StoreOf(h, open_files, thread_file), name)
  BY ONLY <1>1, <1>7, <1>8, RemoveStore, name \in Name
<1>10. Store!Step(StoreOf(fs, open_files, thread_file), StoreOf(h, open_files, thread_file))
  BY ONLY <1>9, StepKinds, name \in Name
<1>11. Follows(StoreOf(fs, open_files, thread_file), h, open_files, thread_file)
  BY ONLY <1>8, <1>9, <1>10 DEF Follows
<1> QED
  BY ONLY <1>4, <1>5, <1>11 DEF Seen

\* create ().
LEMMA CreateFollows ==
    ASSUME Going, NEW name \in Name, NEW size \in CreateSize, create(name, size), fs'.fault = "none"
    PROVE  Follows(Seen, fs', open_files', thread_file')
<1>1. /\ Steady(fs, open_files, thread_file) /\ Tidy(fs) /\ fs \in FileSystem /\ open_files \in Seq(OpenFile)
      /\ Sound(fs, open_files, thread_file) /\ fs.fault = "none"
  BY GoingSteady
<1>2. size \in Nat /\ fs' = filesys_create(fs, name, size) /\ thread_file' = thread_file /\ open_files' = open_files
  BY Sizes DEF create, SameFiles
<1>3. PICK h : h = fs'
  OBVIOUS
<1>4. h = filesys_create(fs, name, size) /\ h.fault = "none"
  BY <1>2, <1>3
<1>5. h \in FileSystem /\ Sound(h, open_files, thread_file) /\ CreateDone(fs, h, name, size)
  BY ONLY <1>1, <1>2, <1>4, CreateSound, name \in Name
<1>6. Steady(h, open_files, thread_file)
  BY ONLY <1>1, <1>4, <1>5 DEF Steady
<1>7. Tidy(h) /\ Store!Step(StoreOf(fs, open_files, thread_file), StoreOf(h, open_files, thread_file))
  <2>1. CASE LiveIn(h) \subseteq LiveIn(fs) /\ Quiet(fs, h, LiveIn(h))
    <3>1. Still(fs, open_files, thread_file, h, open_files, thread_file)
      BY ONLY <1>1, <1>6, <2>1, StillIs
    <3>2. Tidy(h)
      BY ONLY <3>1, StillTidy
    <3>3. StoreOf(h, open_files, thread_file) = StoreOf(fs, open_files, thread_file)
      BY ONLY <3>1, SameStore
    <3> QED
      BY ONLY <3>2, <3>3, StepKinds
  <2>2. CASE \E s \in Sector \ LiveIn(fs) : Bore(fs, h, name, s, size)
    <3>1. PICK s \in Sector \ LiveIn(fs) : Bore(fs, h, name, s, size)
      BY <2>2
    <3>2. PICK b : b = StoreOf(h, open_files, thread_file)
      OBVIOUS
    <3>3. Tidy(h) /\ b.names[name] # None
          /\ Store!Create(StoreOf(fs, open_files, thread_file), b, name, b.names[name])
      BY ONLY <1>1, <1>2, <1>6, <3>1, <3>2, CreateStore, name \in Name
    <3>4. Store!Step(StoreOf(fs, open_files, thread_file), b)
      BY ONLY <3>3, StepKinds, name \in Name
    <3> QED
      BY ONLY <3>2, <3>3, <3>4
  <2> QED
    BY ONLY <1>5, <2>1, <2>2 DEF CreateDone
<1>8. Follows(StoreOf(fs, open_files, thread_file), h, open_files, thread_file)
  BY ONLY <1>6, <1>7 DEF Follows
<1> QED
  BY ONLY <1>2, <1>3, <1>8 DEF Seen

\* write ().
LEMMA WriteFollows ==
    ASSUME Going, NEW i \in 1 .. Len(open_files), NEW size \in WriteSize, NEW value \in Value,
           write(i, size, value), fs'.fault = "none"
    PROVE  Follows(Seen, fs', open_files', thread_file')
<1>1. /\ Steady(fs, open_files, thread_file) /\ Tidy(fs) /\ fs \in FileSystem /\ open_files \in Seq(OpenFile)
      /\ Sound(fs, open_files, thread_file) /\ fs.fault = "none" /\ size \in Nat
  BY GoingSteady, Sizes
<1>2. PICK s : s = open_files[i].inode
  OBVIOUS
<1>3. PICK o : o = open_files[i].pos
  OBVIOUS
<1>4. s \in Sector /\ o \in Nat /\ Cardinality(Openers(open_files, s)) \in Nat \ {0}
  BY <1>1, <1>2, <1>3, OpenersSome
<1>5. s \notin Reserved /\ fs.inode[s].open_cnt > 0 /\ RefsTo(open_files, thread_file, s) > 0
  <2>1. InodeSound(fs, open_files, thread_file, s) /\ RefsSound(open_files, thread_file)
    BY <1>1, <1>4 DEF Sound
  <2>2. s \notin Reserved
    BY <1>2, <2>1 DEF RefsSound
  <2>3. One(thread_file = s) \in {0, 1} /\ One(s = FREE_MAP_SECTOR) \in {0, 1}
    BY DEF One
  <2>4. fs.inode[s].open_cnt = RefsTo(open_files, thread_file, s) + One(s = FREE_MAP_SECTOR)
        /\ RefsTo(open_files, thread_file, s) = Cardinality(Openers(open_files, s)) + One(thread_file = s)
    BY <2>1 DEF InodeSound, RefsTo
  <2> QED
    BY ONLY <1>4, <2>2, <2>3, <2>4
<1>6. PICK b : b = [v |-> value]
  OBVIOUS
<1>7. b \in Unit
  BY <1>6 DEF Unit
<1>8. PICK buf : buf = [k \in 1 .. size |-> b]
  OBVIOUS
<1>9. buf \in Seq(Unit) /\ buf \in Written
  <2>1. buf \in Seq(Unit)
    BY ONLY <1>1, <1>7, <1>8
  <2>2. buf \in Written
    BY <1>6, <1>8 DEF Written
  <2> QED
    BY <2>1, <2>2
<1>10. fs' = inode_write_at(fs, s, buf, o) /\ o + size <= MaxPos
  BY <1>2, <1>3, <1>6, <1>8 DEF write
<1>11. o \in 0 .. MaxPos
  BY <1>1, <1>4, <1>10, Constants
<1>12. PICK h : h = fs'
  OBVIOUS
<1>13. h = inode_write_at(fs, s, buf, o) /\ h.fault = "none"
  BY <1>10, <1>12
<1>14. h \in FileSystem /\ Sound(h, open_files, thread_file) /\ WriteDone(fs, h, s, buf, o)
  BY ONLY <1>1, <1>4, <1>5, <1>9, <1>13, WriteSound
<1>15. Steady(h, open_files, thread_file)
  BY ONLY <1>1, <1>13, <1>14 DEF Steady
<1>16. Tidy(h) /\ WriteSeen(StoreOf(fs, open_files, thread_file), StoreOf(h, open_files, thread_file))
  BY ONLY <1>1, <1>4, <1>5, <1>9, <1>11, <1>14, <1>15, WriteStore
<1>17. PICK n \in Nat : n = IF denied(fs.inode[s]) THEN 0 ELSE size
  BY <1>1
<1>18. PICK p \in Nat : p = o + n
  BY <1>4
<1>19. open_files' = Placing(open_files, i, p) /\ thread_file' = thread_file
  BY <1>2, <1>3, <1>17, <1>18 DEF write, advanced, Placing
<1>20. PICK r : r = open_files'
  OBVIOUS
<1>21. r = Placing(open_files, i, p)
  BY ONLY <1>19, <1>20
<1>22. Steady(h, r, thread_file) /\ StoreOf(h, r, thread_file) = StoreOf(h, open_files, thread_file)
  BY ONLY <1>15, <1>18, <1>21, MovedStill, i \in 1 .. Len(open_files)
<1>23. Store!Step(StoreOf(fs, open_files, thread_file), StoreOf(h, r, thread_file))
  BY ONLY <1>16, <1>22, StepKinds
<1>24. Follows(StoreOf(fs, open_files, thread_file), h, r, thread_file)
  BY ONLY <1>16, <1>22, <1>23 DEF Follows
<1> QED
  BY ONLY <1>12, <1>19, <1>20, <1>24 DEF Seen

\* read () and seek ().
LEMMA MoveFollows ==
    ASSUME Going, NEW i \in 1 .. Len(open_files), NEW p \in Nat, open_files' = Placing(open_files, i, p),
           UNCHANGED <<fs, next_fd, thread_file>>
    PROVE  Follows(Seen, fs', open_files', thread_file')
<1>1. Steady(fs, open_files, thread_file) /\ Tidy(fs)
  BY GoingSteady
<1>2. PICK r : r = open_files'
  OBVIOUS
<1>3. r = Placing(open_files, i, p)
  BY ONLY <1>2, open_files' = Placing(open_files, i, p)
<1>4. Steady(fs, r, thread_file) /\ StoreOf(fs, r, thread_file) = StoreOf(fs, open_files, thread_file)
  BY ONLY <1>1, <1>3, MovedStill, i \in 1 .. Len(open_files), p \in Nat
<1>5. Store!Step(StoreOf(fs, open_files, thread_file), StoreOf(fs, r, thread_file))
  BY ONLY <1>4, StepKinds
<1>6. Follows(StoreOf(fs, open_files, thread_file), fs, r, thread_file)
  BY ONLY <1>1, <1>4, <1>5 DEF Follows
<1> QED
  BY ONLY <1>2, <1>6, UNCHANGED <<fs, next_fd, thread_file>> DEF Seen

LEMMA ReadFollows ==
    ASSUME Going, NEW i \in 1 .. Len(open_files), NEW size \in WriteSize, read(i, size)
    PROVE  Follows(Seen, fs', open_files', thread_file')
<1>1. open_files \in Seq(OpenFile) /\ fs \in FileSystem /\ size \in Nat
  BY Sizes, GoingSteady
<1>2. open_files[i].inode \in Sector /\ open_files[i].pos \in Nat
  BY <1>1, OpenersSome
<1>3. PICK n \in Nat : n = Len(inode_read_at(fs, open_files[i].inode, size, open_files[i].pos))
  BY <1>1, <1>2, ReadLength
<1>4. PICK p \in Nat : p = open_files[i].pos + n
  BY <1>2
<1>5. open_files' = Placing(open_files, i, p) /\ UNCHANGED <<fs, next_fd, thread_file>>
  BY <1>3, <1>4 DEF read, advanced, Placing
<1> QED
  BY <1>5, MoveFollows

LEMMA SeekFollows ==
    ASSUME Going, NEW i \in 1 .. Len(open_files), NEW position \in SeekPos, seek(i, position)
    PROVE  Follows(Seen, fs', open_files', thread_file')
<1>1. position \in Nat /\ open_files' = Placing(open_files, i, position) /\ UNCHANGED <<fs, next_fd, thread_file>>
  BY Sizes DEF seek, file_seek, Placing
<1> QED
  BY <1>1, MoveFollows

LEMMA NextFollows ==
    ASSUME Going, Next, fs'.fault = "none"
    PROVE  Follows(Seen, fs', open_files', thread_file')
<1>1. ASSUME NEW name \in Name, remove(name) PROVE Follows(Seen, fs', open_files', thread_file')
  BY <1>1, RemoveFollows
<1>2. ASSUME NEW name \in Name, open(name) PROVE Follows(Seen, fs', open_files', thread_file')
  BY <1>2, OpenFollows
<1>3. ASSUME NEW name \in Name, load_open(name) PROVE Follows(Seen, fs', open_files', thread_file')
  BY <1>3, LoadFollows
<1>4. ASSUME NEW name \in Name, NEW size \in CreateSize, create(name, size)
      PROVE  Follows(Seen, fs', open_files', thread_file')
  BY <1>4, CreateFollows
<1>5. ASSUME NEW i \in 1 .. Len(open_files), close(i) PROVE Follows(Seen, fs', open_files', thread_file')
  BY <1>5, CloseFollows
<1>6. ASSUME NEW i \in 1 .. Len(open_files), NEW position \in SeekPos, seek(i, position)
      PROVE  Follows(Seen, fs', open_files', thread_file')
  BY <1>6, SeekFollows
<1>7. ASSUME NEW i \in 1 .. Len(open_files), NEW size \in WriteSize, read(i, size)
      PROVE  Follows(Seen, fs', open_files', thread_file')
  BY <1>7, ReadFollows
<1>8. ASSUME NEW i \in 1 .. Len(open_files), NEW size \in WriteSize, NEW v \in Value, write(i, size, v)
      PROVE  Follows(Seen, fs', open_files', thread_file')
  BY <1>8, WriteFollows
<1>9. ASSUME exit_close PROVE Follows(Seen, fs', open_files', thread_file')
  BY <1>9, ExitFollows
<1>10. ASSUME Halt PROVE Follows(Seen, fs', open_files', thread_file')
  BY <1>10, HaltFollows
<1>11. ASSUME NEW s \in Sector, Evict(s) PROVE Follows(Seen, fs', open_files', thread_file')
  BY <1>11, EvictFollows
<1> QED
  BY <1>1, <1>2, <1>3, <1>4, <1>5, <1>6, <1>7, <1>8, <1>9, <1>10, <1>11 DEF Next

LEMMA NextRuns == Next => fs.fault = "none"
BY DEF Next, remove, open, load_open, create, close, seek, read, write, exit_close, Halt, Evict, Running

LEMMA JInit == Init => JInv
<1> SUFFICES ASSUME Init PROVE JInv
  OBVIOUS
<1>1. IInv
  BY InitKeeps
<1>2. Bound(fs) = {} /\ LiveIn(fs) = Reserved
  BY Formatted DEF Init
<1>3. Tidy(fs)
  BY <1>2 DEF Tidy, NamesApart
<1> QED
  BY <1>1, <1>3 DEF JInv

LEMMA JKeeps == JInv /\ [Next]_vars => JInv'
<1> SUFFICES ASSUME JInv, [Next]_vars PROVE JInv'
  OBVIOUS
<1>1. IInv'
  BY NextKeeps DEF JInv
<1>2. ASSUME fs'.fault = "none", Next PROVE Tidy(fs')
  <2>1. Going
    BY <1>2, NextRuns DEF Going
  <2> QED
    BY <1>2, <2>1, NextFollows DEF Follows
<1>3. ASSUME UNCHANGED vars, fs'.fault = "none" PROVE Tidy(fs')
  BY <1>3 DEF JInv, vars
<1> QED
  BY <1>1, <1>2, <1>3 DEF JInv

\* The store at the start.
LEMMA StoreStarts == Init /\ JInv => Store!StoreInit
<1> SUFFICES ASSUME Init, JInv PROVE Store!StoreInit
  OBVIOUS
<1>1. fs.fault = "none" /\ Bound(fs) = {} /\ open_files = <<>> /\ thread_file = None
  BY Formatted DEF Init
<1>2. View = StoreOf(fs, <<>>, None)
  BY <1>1, ViewSeen DEF ViewOk, Seen
<1>3. \A t \in Sector : RefsTo(<<>>, None, t) = 0
  <2>1. ASSUME NEW t \in Sector PROVE RefsTo(<<>>, None, t) = 0
    <3>1. None # t
      BY Constants
    <3>2. Openers(<<>>, t) = {}
      BY DEF Openers
    <3>3. Cardinality(Openers(<<>>, t)) = 0
      BY <3>2, FS_EmptySet
    <3> QED
      BY <3>1, <3>3 DEF RefsTo, One
  <2> QED
    BY <2>1
<1>4. Named(fs) = {}
  <2>1. \A t : t \notin Named(fs)
    BY <1>1, BoundNamed
  <2> QED
    BY <2>1
<1>5. Alive(fs, <<>>, None) = {}
  BY <1>3, <1>4 DEF Alive
<1>6. TextsIn(fs, <<>>, None) = [i \in Sector |-> Gone]
  BY <1>5 DEF TextsIn
<1>7. HeldIn(<<>>, None) = [i \in Sector |-> 0]
  BY <1>3 DEF HeldIn
<1>8. NamesIn(fs) = [n \in Name |-> None]
  BY <1>1 DEF NamesIn, Where
<1>9. StoreOf(fs, <<>>, None) = Parts(NamesIn(fs), TextsIn(fs, <<>>, None), HeldIn(<<>>, None), None)
  BY <1>1, StoreIs
<1> QED
  BY ONLY <1>2, <1>6, <1>7, <1>8, <1>9 DEF Store!StoreInit, Parts

LEMMA StoreSteps == JInv /\ ViewOk /\ ViewOk' /\ [Next]_vars => [vars' # vars => Store!StoreNext]_vars
<1> SUFFICES ASSUME JInv, ViewOk, ViewOk', Next PROVE Store!StoreNext
  OBVIOUS
<1>1. fs.fault = "none" /\ Going
  BY NextRuns DEF Going
<1>2. View = Seen
  BY <1>1 DEF ViewOk
<1>3. CASE fs'.fault = "none"
  <2>1. View' = Seen'
    BY <1>3 DEF ViewOk
  <2>2. Store!Step(Seen, Seen')
    BY <1>1, <1>3, NextFollows DEF Follows, Seen
  <2> QED
    BY ONLY <1>2, <2>1, <2>2 DEF Store!StoreNext
<1>4. CASE fs'.fault # "none"
  <2>1. View'.broken
    BY <1>4 DEF ViewOk
  <2>2. ~ View.broken
    BY <1>1, <1>2 DEF Seen, StoreOf
  <2>3. Store!Step(View, View')
    BY ONLY <2>1, <2>2 DEF Store!Step
  <2> QED
    BY ONLY <2>3 DEF Store!StoreNext
<1> QED
  BY <1>3, <1>4

\* The file system implements FileStore: a call changes the file it is about and
\* no other, growth and reuse of sectors leave no trace in other files, a removed
\* file keeps its contents until its last opener closes it, and nobody writes to
\* the executable that runs (filesys.c, directory.c, inode.c, file.c, load ()).
THEOREM FilesAreStore == Spec => FilesSpec
<1>1. Init => JInv
  BY JInit
<1>2. JInv /\ [Next]_vars => JInv'
  BY JKeeps
<1>3. JInv => ViewOk
  BY ViewSeen
<1>4. Init /\ JInv => Store!StoreInit
  BY StoreStarts
<1>5. JInv /\ ViewOk /\ ViewOk' /\ [Next]_vars => [vars' # vars => Store!StoreNext]_vars
  BY StoreSteps
<1> QED
  BY <1>1, <1>2, <1>3, <1>4, <1>5, PTL DEF Spec, FilesSpec
=============================================================================
