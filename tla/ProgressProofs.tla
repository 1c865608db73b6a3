-------------------------- MODULE ProgressProofs ----------------------------
(***************************************************************************)
(* Proofs about parts whose threads and machines wait for each other: the  *)
(* IDE driver and its partition tables, for every set of threads, every    *)
(* size of disk and every partition table that does not nest for ever; the *)
(* console and the serial port, for every set of printers, every length of *)
(* a message and every size of the queues; the client framework of the     *)
(* network assignments, for any number of frames; the web server and       *)
(* proxy, for any set of connections and threads; the NATs, the rendezvous *)
(* server and its clients, for any of them and any commands typed at them. *)
(***************************************************************************)
EXTENDS Disk, Console, Partov, Http, Nat, ListFacts, TLAPS
-----------------------------------------------------------------------------
(***************************************************************************)
(* The IDE driver.                                                         *)
(***************************************************************************)

Kind == {"raw", "kernel", "filesys", "scratch", "swap", "foreign"}
Block == [start : Nat, size : Nat, type : Kind]
OnDisk == {b \in Block : b.start + b.size <= DiskSize}
Entry == [type : 0..255, offset : 0..SectorWidth - 1, size : 0..SectorWidth - 1]

\* A partition is registered only if it lies on the disk.
LEMMA FoundOnDisk ==
    ASSUME NEW e \in Entry, NEW start \in 0 .. SectorWidth - 1
    PROVE  found_partition(e, start) \in Seq(OnDisk)
<1>1. DiskSize \in Nat /\ SectorWidth \in Nat \ {0} /\ DiskSize < SectorWidth
  BY DiskAssumption
<1>0. e.size \in 0 .. SectorWidth - 1
  BY DEF Entry
<1>2. CASE inside(start, e.size)
  <2>1. start + e.size \in Int /\ 0 <= start + e.size /\ start + e.size < 2 * SectorWidth /\ -SectorWidth <= start + e.size
    BY <1>0, <1>1
  <2>2. (start + e.size) % SectorWidth =
            IF start + e.size < SectorWidth THEN start + e.size ELSE start + e.size - SectorWidth
    BY ONLY <1>0, <1>1, start \in 0 .. SectorWidth - 1, SumAround
  <2>3. start + e.size <= DiskSize
    BY <1>0, <1>1, <1>2, <2>2 DEF inside
  <2>4. block_register(start, e.size, role(e.type)) \in OnDisk
    BY <1>1, <2>3 DEF block_register, role, OnDisk, Block, Kind, Entry
  <2> QED
    BY <1>2, <2>4 DEF found_partition
<1>3. CASE ~inside(start, e.size)
  BY <1>3 DEF found_partition
<1> QED
  BY <1>2, <1>3

LEMMA TableOnDisk ==
    ASSUME NEW sector \in 0 .. SectorWidth - 1, NEW nested,
           \A i \in DOMAIN PartTable : nested[i] \in Seq(OnDisk)
    PROVE  table(sector, nested) \in Seq(OnDisk)
<1> DEFINE found == [i \in DOMAIN PartTable |->
                        LET e == PartTable[i]
                        IN  IF ~used(e) THEN <<>> ELSE IF extended(e.type) THEN nested[i]
                            ELSE found_partition(e, (e.offset + sector) % SectorWidth)]
<1>1. DiskSize \in Nat /\ SectorWidth \in Nat \ {0} /\ PartTable \in Seq(Entry)
  BY DiskAssumption DEF Entry
<1>2. ASSUME NEW i \in DOMAIN PartTable PROVE found[i] \in Seq(OnDisk)
  <2> DEFINE e == PartTable[i]
  <2>1. e \in Entry
    BY <1>1, ElementOfSeq
  <2> HIDE DEF e
  <2>2. (e.offset + sector) % SectorWidth \in 0 .. SectorWidth - 1
    BY <1>1, <2>1 DEF Entry
  <2>3. found_partition(e, (e.offset + sector) % SectorWidth) \in Seq(OnDisk)
    BY <2>1, <2>2, FoundOnDisk
  <2>4. found[i] = IF ~used(e) THEN <<>> ELSE IF extended(e.type) THEN nested[i]
                   ELSE found_partition(e, (e.offset + sector) % SectorWidth)
    BY DEF e
  <2>5. nested[i] \in Seq(OnDisk) /\ <<>> \in Seq(OnDisk)
    OBVIOUS
  <2> HIDE DEF found
  <2> QED
    BY ONLY <2>3, <2>4, <2>5
<1>3. table(sector, nested) = IF sector >= DiskSize THEN <<>> ELSE Joined(found)
  BY DEF table
<1>4. found \in Seq(Seq(OnDisk))
  <2>1. found = [i \in 1 .. Len(PartTable) |-> found[i]] /\ DOMAIN PartTable = 1 .. Len(PartTable)
    BY <1>1
  <2> HIDE DEF found
  <2>2. found \in [1 .. Len(PartTable) -> Seq(OnDisk)] /\ Len(PartTable) \in Nat
    BY <1>1, <1>2, <2>1
  <2> QED
    BY <2>2, SeqDef
<1> HIDE DEF found
<1>5. Joined(found) \in Seq(OnDisk)
  BY <1>4, JoinedType
<1> QED
  BY <1>3, <1>5

LEMMA BlocksOnDisk ==
    <<block_register(0, DiskSize, "raw")>> \o read_partition_table \in Seq(OnDisk)
<1> DEFINE nested == [i \in DOMAIN PartTable |-> table(PartTable[i].offset, [j \in DOMAIN PartTable |-> <<>>])]
<1>1. DiskSize \in Nat /\ SectorWidth \in Nat \ {0} /\ PartTable \in Seq(Entry) /\ DiskSize < SectorWidth
  BY DiskAssumption DEF Entry
<1>2. ASSUME NEW i \in DOMAIN PartTable PROVE nested[i] \in Seq(OnDisk)
  <2>1. PartTable[i] \in Entry
    BY <1>1, ElementOfSeq
  <2>2. PartTable[i].offset \in 0 .. SectorWidth - 1
    BY <2>1 DEF Entry
  <2> DEFINE none == [j \in DOMAIN PartTable |-> <<>>]
  <2>3. \A j \in DOMAIN PartTable : none[j] \in Seq(OnDisk)
    OBVIOUS
  <2>4. nested[i] = table(PartTable[i].offset, none)
    OBVIOUS
  <2> HIDE DEF none, nested
  <2> QED
    BY <2>2, <2>3, <2>4, TableOnDisk
<1>3. read_partition_table = table(0, nested)
  BY DEF read_partition_table
<1> HIDE DEF nested
<1>4. read_partition_table \in Seq(OnDisk)
  BY <1>1, <1>2, <1>3, TableOnDisk
<1>5. block_register(0, DiskSize, "raw") \in OnDisk
  BY <1>1 DEF block_register, OnDisk, Block, Kind
<1> QED
  BY <1>4, <1>5
-----------------------------------------------------------------------------
Stage == {"idle", "lock", "sema", "busy", "got"}
Request == [at : Stage, op : {"-", "read", "write"}, block : Nat, sector : Nat, buf : DiskValue \cup {0}]
Hardware == [state : {"idle", "read", "read_drq", "write", "write_drq", "store"}, sector : Nat,
             data : DiskValue \cup {0}, irq : BOOLEAN]
Sector == 0 .. DiskSize - 1

DiskTyped ==
    /\ dk_blocks \in Seq(OnDisk) /\ Len(dk_blocks) > 0
    /\ dk_lock \in DiskThread \cup {NoReader} /\ dk_expect \in BOOLEAN /\ dk_sema \in {0, 1}
    /\ dk_thread \in [DiskThread -> Request] /\ dk_hw \in Hardware
    /\ dk_media \in [Sector -> DiskValue \cup {0}]

\* A request that was accepted is for a sector of its partition, and so of the disk.
Accepted(r) ==
    /\ r.block \in DOMAIN dk_blocks
    /\ r.at # "idle" => r.op \in {"read", "write"} /\ Target(r) \in Sector

\* How far the command of a thread with request r is.
Phase(r) ==
    \/ /\ r.at = "sema" /\ r.op = "read"
       /\ \/ dk_hw.state = "read" /\ ~dk_hw.irq /\ dk_sema = 0
          \/ /\ dk_hw.state = "read_drq" /\ dk_hw.data = dk_media[Target(r)]
             /\ dk_hw.irq <=> dk_sema = 0
    \/ /\ r.at = "busy" /\ r.op = "read" /\ dk_sema = 0 /\ ~dk_hw.irq
       /\ dk_hw.state = "read_drq" /\ dk_hw.data = dk_media[Target(r)]
    \/ /\ r.at = "got" /\ dk_sema = 0 /\ ~dk_hw.irq
       /\ dk_hw.state = "idle" /\ r.buf = dk_media[Target(r)]
    \/ /\ r.at = "busy" /\ r.op = "write" /\ dk_sema = 0 /\ ~dk_hw.irq
       /\ dk_hw.state \in {"write", "write_drq"}
    \/ /\ r.at = "sema" /\ r.op = "write"
       /\ \/ dk_hw.state = "store" /\ ~dk_hw.irq /\ dk_sema = 0 /\ dk_hw.data = r.buf
          \/ /\ dk_hw.state = "idle" /\ dk_media[Target(r)] = r.buf
             /\ dk_hw.irq <=> dk_sema = 0

\* The channel belongs to the thread that uses it, and otherwise rests.
Channel ==
    /\ \A t \in DiskThread : dk_thread[t].at \in {"sema", "busy", "got"} <=> dk_lock = t
    /\ \A t \in DiskThread : dk_lock = t =>
          dk_expect /\ dk_hw.sector = Target(dk_thread[t]) /\ Phase(dk_thread[t])
    /\ dk_lock = NoReader => dk_hw.state = "idle" /\ dk_sema = 0 /\ (dk_expect => ~dk_hw.irq)

DiskInv == DiskTyped /\ (\A t \in DiskThread : Accepted(dk_thread[t])) /\ Channel

Uses(r) == r.at \in {"sema", "busy", "got"}

\* What it takes for a step of the disk or of one thread, whose request is r
\* afterwards, to keep the invariant.
LEMMA DiskKeeps ==
    ASSUME DiskInv, NEW t \in DiskThread, NEW r \in Request,
           dk_thread' = [dk_thread EXCEPT ![t] = r], Accepted(r), UNCHANGED dk_blocks,
           dk_lock' \in DiskThread \cup {NoReader}, dk_expect' \in BOOLEAN, dk_sema' \in {0, 1},
           dk_hw' \in Hardware, dk_media' \in [Sector -> DiskValue \cup {0}],
           \/ ~Uses(r) /\ ~Uses(dk_thread[t])
              /\ UNCHANGED <<dk_lock, dk_expect, dk_sema, dk_hw, dk_media>>
           \/ dk_lock \in {t, NoReader} /\ dk_lock' = t /\ Uses(r)
              /\ dk_expect' /\ dk_hw'.sector = Target(r) /\ Phase(r)'
           \/ dk_lock = t /\ dk_lock' = NoReader /\ ~Uses(r)
              /\ dk_hw'.state = "idle" /\ dk_sema' = 0 /\ ~dk_hw'.irq
    PROVE  DiskInv'
<1>1. /\ dk_thread' \in [DiskThread -> Request] /\ dk_thread'[t] = r
      /\ \A u \in DiskThread \ {t} : dk_thread'[u] = dk_thread[u]
  BY DEF DiskInv, DiskTyped
<1>2. DiskTyped'
  BY <1>1 DEF DiskInv, DiskTyped
<1>3. \A x : (Accepted(x))' <=> Accepted(x)
  BY DEF Accepted, Target
<1>4. ASSUME NEW u \in DiskThread PROVE Accepted(dk_thread[u])'
  BY <1>1, <1>3 DEF DiskInv, Accepted, Target
<1>5. NoReader \notin DiskThread
  BY DiskAssumption
<1>6. \A x : (Target(x))' = Target(x)
  BY DEF Target
<1>7. ASSUME NEW u \in DiskThread PROVE dk_thread'[u].at \in {"sema", "busy", "got"} <=> dk_lock' = u
  BY <1>1, <1>5 DEF DiskInv, Channel, Uses
<1>8. ASSUME NEW u \in DiskThread, dk_lock' = u
      PROVE  dk_expect' /\ dk_hw'.sector = Target(dk_thread[u])' /\ Phase(dk_thread[u])'
  <2>1. CASE UNCHANGED <<dk_lock, dk_expect, dk_sema, dk_hw, dk_media>> /\ u # t
    <3>1. dk_expect /\ dk_hw.sector = Target(dk_thread[u]) /\ Phase(dk_thread[u])
      BY <1>8, <2>1 DEF DiskInv, Channel
    <3> QED
      BY <1>1, <2>1, <3>1 DEF Phase, Target
  <2>2. CASE u = t /\ dk_lock' = t /\ Uses(r) /\ dk_expect' /\ dk_hw'.sector = Target(r) /\ Phase(r)'
    BY <1>1, <2>2 DEF Phase, Target
  <2> QED
    BY <1>1, <1>5, <1>7, <1>8, <2>1, <2>2 DEF Uses
<1>9. dk_lock' = NoReader => dk_hw'.state = "idle" /\ dk_sema' = 0 /\ (dk_expect' => ~dk_hw'.irq)
  BY <1>5 DEF DiskInv, Channel
<1> QED
  BY <1>2, <1>4, <1>7, <1>8, <1>9 DEF DiskInv, Channel

\* A thread, its request and what the channel is doing for it.
LEMMA ThreadFacts ==
    ASSUME DiskInv, NEW t \in DiskThread
    PROVE  /\ dk_thread[t] \in Request /\ Accepted(dk_thread[t])
           /\ dk_lock \in DiskThread \cup {NoReader} /\ dk_expect \in BOOLEAN /\ dk_sema \in {0, 1}
           /\ dk_hw \in Hardware /\ dk_media \in [Sector -> DiskValue \cup {0}]
           /\ dk_thread \in [DiskThread -> Request]
           /\ Uses(dk_thread[t]) => /\ dk_lock = t /\ dk_expect /\ dk_hw.sector = Target(dk_thread[t])
                                    /\ Target(dk_thread[t]) \in Sector /\ Phase(dk_thread[t])
           /\ ~Uses(dk_thread[t]) => dk_lock # t
  BY DEF DiskInv, DiskTyped, Channel, Uses, Accepted

LEMMA CallStep ==
    ASSUME DiskInv, NEW t \in DiskThread, NEW op \in {"read", "write"}, NEW b \in 2 .. Len(dk_blocks),
           NEW s \in 0 .. DiskSize - 1, NEW v \in DiskValue \cup {0}, block_call(t, op, b, s, v)
    PROVE  DiskInv'
<1> DEFINE r == [at |-> "lock", op |-> op, block |-> b, sector |-> s, buf |-> v]
<1>1. DiskSize \in Nat /\ b \in DOMAIN dk_blocks /\ dk_blocks[b] \in OnDisk /\ s \in Nat /\ b \in Nat
  <2>1. dk_blocks \in Seq(OnDisk) /\ b \in 1 .. Len(dk_blocks)
    BY DEF DiskInv, DiskTyped
  <2> QED
    BY <2>1, ElementOfSeq, DiskAssumption
<1>2. s < dk_blocks[b].size /\ dk_thread[t].at = "idle" /\ dk_thread' = [dk_thread EXCEPT ![t] = r]
  BY DEF block_call
<1>3. dk_blocks[b].start + s \in Sector
  BY <1>1, <1>2 DEF OnDisk, Block, Sector
<1>4. r \in Request
  BY <1>1 DEF Request, Stage
<1>5. Accepted(r) /\ ~Uses(r) /\ ~Uses(dk_thread[t])
  BY <1>1, <1>2, <1>3 DEF Accepted, Target, Uses
<1> HIDE DEF r
<1> QED
  BY <1>2, <1>4, <1>5, ThreadFacts, DiskKeeps DEF block_call

LEMMA StartStep ==
    ASSUME DiskInv, NEW t \in DiskThread, ide_start(t)
    PROVE  DiskInv'
<1>0. PICK r : r = [dk_thread[t] EXCEPT !.at = IF dk_thread[t].op = "read" THEN "sema" ELSE "busy"]
  OBVIOUS
<1>1. dk_thread[t] \in Request /\ Accepted(dk_thread[t]) /\ dk_thread[t].at = "lock"
  BY ThreadFacts DEF ide_start
<1>2. /\ r \in Request /\ r.op = dk_thread[t].op /\ r.block = dk_thread[t].block
      /\ r.sector = dk_thread[t].sector /\ r.op \in {"read", "write"}
      /\ r.at = IF r.op = "read" THEN "sema" ELSE "busy"
  BY <1>0, <1>1 DEF Request, Stage, Accepted
<1>3. dk_thread' = [dk_thread EXCEPT ![t] = r]
  BY <1>0, <1>1 DEF ide_start, Goes, Request
<1>4. Target(r) = Target(dk_thread[t]) /\ Target(r) \in Sector /\ Accepted(r) /\ Uses(r)
  BY <1>1, <1>2 DEF Accepted, Target, Uses
<1>5. dk_lock = NoReader /\ dk_sema = 0 /\ dk_expect' = TRUE /\ dk_lock' = t /\ dk_sema' = 0
  BY DEF ide_start, channel_free, DiskInv, Channel
<1>6. /\ dk_hw' \in Hardware /\ dk_hw'.sector = Target(r) /\ dk_hw'.state = r.op /\ ~dk_hw'.irq
  <2>1. dk_hw \in Hardware /\ Target(r) \in Nat
    BY <1>4, ThreadFacts DEF Sector
  <2>2. dk_hw' = [dk_hw EXCEPT !.state = r.op, !.sector = Target(r), !.irq = FALSE]
    BY <1>2, <1>4 DEF ide_start
  <2> QED
    BY <1>2, <2>1, <2>2 DEF Hardware
<1>7. Phase(r)'
  BY <1>2, <1>5, <1>6 DEF Phase
<1>8. UNCHANGED <<dk_blocks, dk_media>>
  BY DEF ide_start
<1> QED
  BY <1>2, <1>3, <1>4, <1>5, <1>6, <1>7, <1>8, ThreadFacts, DiskKeeps

LEMMA ReadWaitStep ==
    ASSUME DiskInv, NEW t \in DiskThread, ide_read_wait(t)
    PROVE  DiskInv'
<1>0. PICK r : r = [dk_thread[t] EXCEPT !.at = "busy"]
  OBVIOUS
<1>1. /\ dk_thread[t] \in Request /\ Accepted(dk_thread[t]) /\ Uses(dk_thread[t])
      /\ dk_thread[t].at = "sema" /\ dk_thread[t].op = "read" /\ dk_sema = 1
  BY ThreadFacts DEF ide_read_wait, Uses
<1>2. /\ r \in Request /\ r.op = "read" /\ r.block = dk_thread[t].block
      /\ r.sector = dk_thread[t].sector /\ r.at = "busy"
  BY <1>0, <1>1 DEF Request, Stage
<1>3. Target(r) = Target(dk_thread[t]) /\ Target(r) \in Sector /\ Accepted(r) /\ Uses(r)
  BY <1>1, <1>2 DEF Accepted, Target, Uses
<1>4. /\ dk_thread' = [dk_thread EXCEPT ![t] = r] /\ dk_sema' = 0
      /\ UNCHANGED <<dk_blocks, dk_lock, dk_expect, dk_hw, dk_media>>
  BY <1>0, <1>1 DEF ide_read_wait, Goes, Request
<1>5. /\ dk_hw \in Hardware /\ dk_hw.sector = Target(r) /\ dk_hw.state = "read_drq"
      /\ ~dk_hw.irq /\ dk_hw.data = dk_media[Target(r)] /\ dk_lock = t /\ dk_expect
  BY <1>1, <1>3, ThreadFacts DEF Phase
<1>6. Phase(r)'
  BY <1>2, <1>4, <1>5 DEF Phase, Target
<1> QED
  BY <1>2, <1>3, <1>4, <1>5, <1>6, ThreadFacts, DiskKeeps

LEMMA InputStep ==
    ASSUME DiskInv, NEW t \in DiskThread, input_sector(t)
    PROVE  DiskInv'
<1>0. PICK r : r = [dk_thread[t] EXCEPT !.at = "got", !.buf = dk_hw.data]
  OBVIOUS
<1>1. /\ dk_thread[t] \in Request /\ Accepted(dk_thread[t]) /\ Uses(dk_thread[t])
      /\ dk_thread[t].at = "busy" /\ dk_thread[t].op = "read" /\ dk_hw \in Hardware
  BY ThreadFacts DEF input_sector, Uses
<1>2. /\ r \in Request /\ r.op = "read" /\ r.block = dk_thread[t].block
      /\ r.sector = dk_thread[t].sector /\ r.at = "got" /\ r.buf = dk_hw.data
  BY <1>0, <1>1 DEF Request, Stage, Hardware
<1>3. Target(r) = Target(dk_thread[t]) /\ Target(r) \in Sector /\ Accepted(r) /\ Uses(r)
  BY <1>1, <1>2 DEF Accepted, Target, Uses
<1>4. /\ dk_thread' = [dk_thread EXCEPT ![t] = r] /\ dk_hw' = [dk_hw EXCEPT !.state = "idle"]
      /\ UNCHANGED <<dk_blocks, dk_lock, dk_expect, dk_sema, dk_media>>
  BY <1>0, <1>1 DEF input_sector, Request
<1>5. /\ dk_hw.sector = Target(r) /\ dk_hw.data = dk_media[Target(r)]
      /\ ~dk_hw.irq /\ dk_sema = 0 /\ dk_lock = t /\ dk_expect
  BY <1>1, <1>3, ThreadFacts DEF Phase
<1>6. dk_hw' \in Hardware /\ dk_hw'.sector = Target(r) /\ dk_hw'.state = "idle" /\ ~dk_hw'.irq
  BY <1>1, <1>4, <1>5 DEF Hardware
<1>7. Phase(r)'
  BY <1>2, <1>4, <1>5, <1>6 DEF Phase, Target
<1> QED
  BY <1>2, <1>3, <1>4, <1>5, <1>6, <1>7, ThreadFacts, DiskKeeps

LEMMA IdleRequest ==
    ASSUME DiskInv
    PROVE  DiskIdle \in Request /\ Accepted(DiskIdle) /\ ~Uses(DiskIdle)
  BY DEF DiskInv, DiskTyped, DiskIdle, Request, Stage, Accepted, Uses

LEMMA ReadEndStep ==
    ASSUME DiskInv, NEW t \in DiskThread, ide_read_end(t)
    PROVE  DiskInv'
<1>1. dk_thread[t].at = "got" /\ Uses(dk_thread[t])
  BY DEF ide_read_end, Uses
<1>2. dk_lock = t /\ dk_hw.state = "idle" /\ dk_sema = 0 /\ ~dk_hw.irq
  BY <1>1, ThreadFacts DEF Phase
<1>3. /\ dk_thread' = [dk_thread EXCEPT ![t] = DiskIdle] /\ dk_lock' = NoReader
      /\ UNCHANGED <<dk_blocks, dk_expect, dk_sema, dk_hw, dk_media>>
  BY DEF ide_read_end
<1> QED
  BY <1>2, <1>3, IdleRequest, ThreadFacts, DiskKeeps

LEMMA OutputStep ==
    ASSUME DiskInv, NEW t \in DiskThread, output_sector(t)
    PROVE  DiskInv'
<1>0. PICK r : r = [dk_thread[t] EXCEPT !.at = "sema"]
  OBVIOUS
<1>1. /\ dk_thread[t] \in Request /\ Accepted(dk_thread[t]) /\ Uses(dk_thread[t])
      /\ dk_thread[t].at = "busy" /\ dk_thread[t].op = "write" /\ dk_hw \in Hardware
  BY ThreadFacts DEF output_sector, Uses
<1>2. /\ r \in Request /\ r.op = "write" /\ r.block = dk_thread[t].block
      /\ r.sector = dk_thread[t].sector /\ r.at = "sema" /\ r.buf = dk_thread[t].buf
  BY <1>0, <1>1 DEF Request, Stage
<1>3. Target(r) = Target(dk_thread[t]) /\ Target(r) \in Sector /\ Accepted(r) /\ Uses(r)
  BY <1>1, <1>2 DEF Accepted, Target, Uses
<1>4. /\ dk_thread' = [dk_thread EXCEPT ![t] = r]
      /\ dk_hw' = [dk_hw EXCEPT !.state = "store", !.data = r.buf]
      /\ UNCHANGED <<dk_blocks, dk_lock, dk_expect, dk_sema, dk_media>>
  BY <1>0, <1>1, <1>2 DEF output_sector, Goes, Request
<1>5. dk_hw.sector = Target(r) /\ ~dk_hw.irq /\ dk_sema = 0 /\ dk_lock = t /\ dk_expect
  BY <1>1, <1>3, ThreadFacts DEF Phase
<1>6. /\ dk_hw' \in Hardware /\ dk_hw'.sector = Target(r) /\ dk_hw'.state = "store"
      /\ ~dk_hw'.irq /\ dk_hw'.data = r.buf
  BY <1>1, <1>2, <1>4, <1>5 DEF Hardware, Request
<1>7. Phase(r)'
  BY <1>2, <1>4, <1>5, <1>6 DEF Phase, Target
<1> QED
  BY <1>2, <1>3, <1>4, <1>5, <1>6, <1>7, ThreadFacts, DiskKeeps

LEMMA WriteEndStep ==
    ASSUME DiskInv, NEW t \in DiskThread, ide_write_end(t)
    PROVE  DiskInv'
<1>1. /\ dk_thread[t].at = "sema" /\ dk_thread[t].op = "write" /\ Uses(dk_thread[t]) /\ dk_sema = 1
  BY ThreadFacts DEF ide_write_end, Uses
<1>2. dk_lock = t /\ dk_hw.state = "idle" /\ ~dk_hw.irq
  BY <1>1, ThreadFacts DEF Phase
<1>3. /\ dk_thread' = [dk_thread EXCEPT ![t] = DiskIdle] /\ dk_lock' = NoReader /\ dk_sema' = 0
      /\ UNCHANGED <<dk_blocks, dk_expect, dk_hw, dk_media>>
  BY <1>1 DEF ide_write_end
<1> QED
  BY <1>2, <1>3, IdleRequest, ThreadFacts, DiskKeeps

\* A step of the disk or the handler while no thread has the channel.
LEMMA RestKeeps ==
    ASSUME DiskInv, dk_lock = NoReader, UNCHANGED <<dk_blocks, dk_lock, dk_expect, dk_sema, dk_thread, dk_media>>,
           dk_hw' \in Hardware, dk_hw'.state = dk_hw.state, dk_expect => ~dk_hw'.irq
    PROVE  DiskInv'
<1>1. NoReader \notin DiskThread
  BY DiskAssumption
<1> QED
  BY <1>1 DEF DiskInv, DiskTyped, Channel, Accepted, Target

LEMMA HardwareStep ==
    ASSUME DiskInv, hw_step
    PROVE  DiskInv'
<1>1. PICK t \in DiskThread : dk_lock = t
  BY DEF DiskInv, DiskTyped, Channel, hw_step
<1>2. PICK r : r = dk_thread[t]
  OBVIOUS
<1>3. r \in Request /\ Accepted(r) /\ Uses(r) /\ dk_thread' = [dk_thread EXCEPT ![t] = r]
      /\ Target(r) \in Sector
  BY <1>1, <1>2, ThreadFacts DEF hw_step
<1>4. /\ dk_hw \in Hardware /\ dk_hw.sector = Target(r) /\ dk_expect /\ Phase(r)
      /\ UNCHANGED <<dk_blocks, dk_lock, dk_expect, dk_sema>>
  BY <1>1, <1>2, <1>3, ThreadFacts DEF hw_step
<1>5. CASE /\ dk_hw.state = "read" /\ UNCHANGED dk_media
           /\ dk_hw' = [dk_hw EXCEPT !.state = "read_drq", !.data = dk_media[dk_hw.sector], !.irq = TRUE]
  <2>1. /\ dk_hw' \in Hardware /\ dk_hw'.sector = Target(r) /\ dk_hw'.state = "read_drq"
        /\ dk_hw'.irq /\ dk_hw'.data = dk_media[Target(r)]
    BY <1>3, <1>4, <1>5, ThreadFacts DEF Hardware
  <2>2. r.at = "sema" /\ r.op = "read" /\ dk_sema = 0
    BY <1>4, <1>5 DEF Phase, Request
  <2>3. Phase(r)'
    BY <1>4, <1>5, <2>1, <2>2 DEF Phase, Target
  <2> QED
    BY <1>1, <1>3, <1>4, <1>5, <2>1, <2>3, ThreadFacts, DiskKeeps
<1>6. CASE dk_hw.state = "write" /\ dk_hw' = [dk_hw EXCEPT !.state = "write_drq"] /\ UNCHANGED dk_media
  <2>1. /\ dk_hw' \in Hardware /\ dk_hw'.sector = Target(r) /\ dk_hw'.state = "write_drq"
        /\ dk_hw'.irq = dk_hw.irq
    BY <1>3, <1>4, <1>6 DEF Hardware
  <2>2. r.at = "busy" /\ r.op = "write" /\ dk_sema = 0 /\ ~dk_hw.irq
    BY <1>4, <1>6 DEF Phase, Request
  <2>3. Phase(r)'
    BY <1>4, <1>6, <2>1, <2>2 DEF Phase, Target
  <2> QED
    BY <1>1, <1>3, <1>4, <1>6, <2>1, <2>3, ThreadFacts, DiskKeeps
<1>7. CASE /\ dk_hw.state = "store" /\ dk_media' = [dk_media EXCEPT ![dk_hw.sector] = dk_hw.data]
           /\ dk_hw' = [dk_hw EXCEPT !.state = "idle", !.irq = TRUE]
  <2>1. r.at = "sema" /\ r.op = "write" /\ dk_sema = 0 /\ dk_hw.data = r.buf
    BY <1>4, <1>7 DEF Phase, Request
  <2>2. dk_hw' \in Hardware /\ dk_hw'.sector = Target(r) /\ dk_hw'.state = "idle" /\ dk_hw'.irq
    BY <1>4, <1>7 DEF Hardware
  <2>3. dk_media' \in [Sector -> DiskValue \cup {0}] /\ dk_media'[Target(r)] = r.buf
    BY <1>3, <1>4, <1>7, <2>1, ThreadFacts DEF Request
  <2>4. Phase(r)'
    BY <1>4, <2>1, <2>2, <2>3 DEF Phase, Target
  <2> QED
    BY <1>1, <1>3, <1>4, <2>2, <2>3, <2>4, ThreadFacts, DiskKeeps
<1> QED
  BY <1>5, <1>6, <1>7 DEF hw_step

LEMMA InterruptStep ==
    ASSUME DiskInv, ide_interrupt
    PROVE  DiskInv'
<1>0. /\ dk_hw \in Hardware /\ dk_hw' = [dk_hw EXCEPT !.irq = FALSE] /\ dk_hw.irq
      /\ dk_hw' \in Hardware /\ dk_hw'.state = dk_hw.state /\ dk_hw'.sector = dk_hw.sector
      /\ dk_hw'.data = dk_hw.data /\ ~dk_hw'.irq
      /\ UNCHANGED <<dk_blocks, dk_lock, dk_expect, dk_thread, dk_media>>
  BY DEF ide_interrupt, DiskInv, DiskTyped, Hardware
<1>1. CASE dk_lock = NoReader
  <2>1. ~dk_expect /\ UNCHANGED dk_sema
    BY <1>0, <1>1 DEF DiskInv, Channel, ide_interrupt
  <2> QED
    BY <1>0, <1>1, <2>1, RestKeeps
<1>2. CASE dk_lock # NoReader
  <2>1. PICK t \in DiskThread : dk_lock = t
    BY <1>2 DEF DiskInv, DiskTyped
  <2>2. PICK r : r = dk_thread[t]
    OBVIOUS
  <2>3. r \in Request /\ Accepted(r) /\ Uses(r) /\ dk_thread' = [dk_thread EXCEPT ![t] = r]
    BY <1>0, <2>1, <2>2, ThreadFacts
  <2>4. dk_hw.sector = Target(r) /\ dk_expect /\ Phase(r)
    BY <2>1, <2>2, <2>3, ThreadFacts
  <2>5. dk_sema = 0 /\ r.at = "sema" /\ dk_sema' = 1
    BY <1>0, <2>1, <2>4, ThreadFacts DEF Phase, ide_interrupt
  <2>6. Phase(r)'
    BY <1>0, <2>4, <2>5 DEF Phase, Target
  <2> QED
    BY <1>0, <2>1, <2>3, <2>4, <2>5, <2>6, ThreadFacts, DiskKeeps
<1> QED
  BY <1>1, <1>2

LEMMA SpuriousStep ==
    ASSUME DiskInv, hw_spurious
    PROVE  DiskInv'
<1>1. dk_hw \in Hardware /\ dk_hw' \in Hardware /\ dk_hw'.state = dk_hw.state /\ ~dk_expect
  BY DEF hw_spurious, DiskInv, DiskTyped, Hardware
<1>2. dk_lock = NoReader
  BY <1>1 DEF DiskInv, DiskTyped, Channel
<1> QED
  BY <1>1, <1>2, RestKeeps DEF hw_spurious

LEMMA DiskStarts == DiskInit => DiskInv
<1> SUFFICES ASSUME DiskInit PROVE DiskInv
  OBVIOUS
<1>1. dk_blocks \in Seq(OnDisk) /\ Len(dk_blocks) > 0
  <2>1. dk_blocks = <<block_register(0, DiskSize, "raw")>> \o read_partition_table
    BY DEF DiskInit
  <2>2. dk_blocks \in Seq(OnDisk)
    BY <2>1, BlocksOnDisk
  <2>3. dk_blocks # <<>>
    BY <2>1
  <2> QED
    BY <2>2, <2>3
<1>2. NoReader \notin DiskThread /\ DiskSize \in Nat
  BY DiskAssumption
<1>3. DiskIdle \in Request /\ ~Uses(DiskIdle) /\ DiskIdle.at = "idle" /\ DiskIdle.block = 1
  BY DEF DiskIdle, Request, Stage, Uses
<1>4. DiskTyped
  BY <1>1, <1>2, <1>3 DEF DiskTyped, DiskInit, Hardware, Sector
<1>5. \A t \in DiskThread : dk_thread[t] = DiskIdle
  BY DEF DiskInit
<1>6. \A t \in DiskThread : Accepted(dk_thread[t])
  BY <1>1, <1>3, <1>5 DEF Accepted
<1>7. Channel
  BY <1>2, <1>3, <1>5 DEF Channel, DiskInit, Uses
<1> QED
  BY <1>4, <1>6, <1>7 DEF DiskInv

LEMMA DiskSteps == DiskInv /\ [DiskNext]_diskVars => DiskInv'
<1> SUFFICES ASSUME DiskInv, [DiskNext]_diskVars PROVE DiskInv'
  OBVIOUS
<1>1. CASE UNCHANGED diskVars
  BY <1>1 DEF diskVars, DiskInv, DiskTyped, Accepted, Channel, Phase, Target
<1>2. ASSUME NEW t \in DiskThread, DiskThreadStep(t) PROVE DiskInv'
  BY <1>2, StartStep, ReadWaitStep, InputStep, ReadEndStep, OutputStep, WriteEndStep DEF DiskThreadStep
<1>3. ASSUME NEW t \in DiskThread, NEW b \in 2 .. Len(dk_blocks), NEW s \in 0 .. DiskSize - 1,
             block_call(t, "read", b, s, 0) \/ \E v \in DiskValue : block_call(t, "write", b, s, v)
      PROVE  DiskInv'
  <2>1. CASE block_call(t, "read", b, s, 0)
    BY <2>1, CallStep
  <2>2. ASSUME NEW v \in DiskValue, block_call(t, "write", b, s, v) PROVE DiskInv'
    BY <2>2, CallStep
  <2> QED
    BY <1>3, <2>1, <2>2
<1> QED
  BY <1>1, <1>2, <1>3, HardwareStep, InterruptStep, SpuriousStep DEF DiskNext

LEMMA DiskSafe == DiskInv => DiskSound
<1> SUFFICES ASSUME DiskInv PROVE DiskSound
  OBVIOUS
<1>1. DiskTypeOK
  BY DEF DiskInv, DiskTyped, DiskTypeOK, Request, Stage, Hardware, Sector
<1>2. ASSUME NEW b \in DOMAIN dk_blocks PROVE dk_blocks[b].start + dk_blocks[b].size <= DiskSize
  <2>1. dk_blocks[b] \in OnDisk
    BY ElementOfSeq DEF DiskInv, DiskTyped
  <2> QED
    BY <2>1 DEF OnDisk
<1>3. ASSUME NEW t \in DiskThread
      PROVE  /\ dk_thread[t].at \in {"sema", "busy", "got"} => dk_lock = t /\ dk_hw.sector = Target(dk_thread[t])
             /\ dk_thread[t].at = "sema" /\ dk_sema > 0 =>
                    IF dk_thread[t].op = "read" THEN dk_hw.state = "read_drq"
                    ELSE dk_media[Target(dk_thread[t])] = dk_thread[t].buf
             /\ dk_thread[t].at = "got" => dk_thread[t].buf = dk_media[Target(dk_thread[t])]
  BY ThreadFacts DEF Uses, Phase
<1> QED
  BY <1>1, <1>2, <1>3 DEF DiskSound, DiskInv, Channel

\* Blocks lie on the disk, one thread at a time uses the channel, and a completion
\* is that of its command: reads return the sector asked for and writes return
\* when the disk has them, with interrupts nobody asked for and any number of
\* threads and sectors (ide.c, block.c, partition.c).
THEOREM DiskTransfersSound == DiskSpec => []DiskSound
<1>1. DiskInit => DiskInv
  BY DiskStarts
<1>2. DiskInv /\ [DiskNext]_diskVars => DiskInv'
  BY DiskSteps
<1>3. DiskInv => DiskSound
  BY DiskSafe
<1> QED
  BY <1>1, <1>2, <1>3, PTL DEF DiskSpec
-----------------------------------------------------------------------------
(***************************************************************************)
(* The console and the serial port.                                        *)
(***************************************************************************)

BufPlace == 0 .. INTQ_BUFSIZE - 1
Byte == (Printer \cup {"key", Nil}) \X Int
ConsoleThread == Printer \cup {Reader}
Queue == [buf : [BufPlace -> Byte], head : BufPlace, tail : BufPlace,
          lock : ConsoleThread \cup {Nil}, waiter : ConsoleThread \cup {Nil}]
CnAt == {"idle", "acquire", "putc", "qlock", "blocked", "woken", "getc"}

ConsoleTyped ==
    /\ cn_lock \in [holder : Printer \cup {Nil}, depth : {0, 1}]
    /\ cn_txq \in Queue /\ cn_in \in Queue
    /\ cn_mode \in {"UNINIT", "POLL", "QUEUE"} /\ cn_ier \in [xmit : BOOLEAN, recv : BOOLEAN]
    /\ cn_port \in [thre : BOOLEAN, rbr : Byte] /\ cn_count \in [prints : Nat, keys : Nat, urgent : Nat]
    /\ cn_thread \in [ConsoleThread -> [at : CnAt, n : Int]]
    /\ cn_out \in Seq(Byte)

Printing(r) == r.at \in {"putc", "blocked", "woken"}
Waiting(r) == r.at \in {"blocked", "woken"}

\* The console lock is held while its thread prints, the lock of the transmit queue
\* while it waits for room; no thread waits for that lock.
Turns ==
    /\ \A t \in Printer :
          /\ cn_thread[t].at \notin {"qlock", "getc"}
          /\ Printing(cn_thread[t]) <=> cn_lock.holder = t
          /\ Waiting(cn_thread[t]) <=> cn_txq.lock = t
          /\ cn_txq.waiter = t => cn_thread[t].at = "blocked"
          /\ cn_lock.holder = t => cn_thread[t].n \in 0 .. MsgLen
    /\ cn_thread[Reader].at \in {"idle", "blocked", "woken", "getc"}
    /\ cn_txq.lock \in Printer \cup {Nil} /\ cn_txq.waiter \in Printer \cup {Nil}
    /\ cn_in.waiter \in {Nil, Reader}
    /\ cn_lock.holder = Nil => cn_lock.depth = 0
    /\ cn_mode # "QUEUE" => cn_txq.head = cn_txq.tail
    /\ ~cn_failed

\* The characters of stream w that belong to messages.
Messages(w) == Chosen(w, {i \in DOMAIN w : w[i][1] # Nil})
Flow(out, q) == out \o Contents(q)
Whole(w) ==
    \A i \in 1 .. Len(w) - 1 :
        IF w[i][2] = MsgLen THEN w[i + 1][2] = 1 ELSE w[i + 1] = <<w[i][1], w[i][2] + 1>>
\* Characters w end with the first n of a message of t.
EndsWith(w, t, n) ==
    IF t # Nil /\ n > 0 THEN Len(w) > 0 /\ w[Len(w)] = <<t, n>>
    ELSE Len(w) > 0 => w[Len(w)][2] = MsgLen
Spell(w, t, n) == Whole(Messages(w)) /\ EndsWith(Messages(w), t, n)
Spelled ==
    Spell(Flow(cn_out, cn_txq), cn_lock.holder,
          IF cn_lock.holder = Nil THEN 0 ELSE cn_thread[cn_lock.holder].n)

ConsoleInv == ConsoleTyped /\ Turns /\ Spelled

\* The place of the i-th byte after place t, and how many bytes a queue holds.
Slot(t, i) == IF t + i - 1 < INTQ_BUFSIZE THEN t + i - 1 ELSE t + i - 1 - INTQ_BUFSIZE
Count(q) == IF q.head >= q.tail THEN q.head - q.tail ELSE q.head - q.tail + INTQ_BUFSIZE

LEMMA NextPlace ==
    ASSUME NEW p \in BufPlace
    PROVE  next(p) = (IF p = INTQ_BUFSIZE - 1 THEN 0 ELSE p + 1) /\ next(p) \in BufPlace
<1>1. INTQ_BUFSIZE \in Nat \ {0} /\ INTQ_BUFSIZE > 1
  BY ConsoleAssumption
<1>2. p \in 0 .. INTQ_BUFSIZE - 1 /\ 1 \in 0 .. INTQ_BUFSIZE - 1
  BY <1>1 DEF BufPlace
<1>3. (p + 1) % INTQ_BUFSIZE = IF p + 1 < INTQ_BUFSIZE THEN p + 1 ELSE p + 1 - INTQ_BUFSIZE
  BY ONLY <1>1, <1>2, SumAround
<1>4. next(p) = IF p + 1 < INTQ_BUFSIZE THEN p + 1 ELSE p + 1 - INTQ_BUFSIZE
  BY <1>3 DEF next
<1> QED
  BY ONLY <1>1, <1>2, <1>4 DEF BufPlace

\* What is in a queue, without the arithmetic of the ring.
LEMMA Held ==
    ASSUME NEW q \in Queue
    PROVE  /\ Count(q) \in 0 .. INTQ_BUFSIZE - 1
           /\ Contents(q) = [i \in 1 .. Count(q) |-> q.buf[Slot(q.tail, i)]]
           /\ Contents(q) \in Seq(Byte) /\ Len(Contents(q)) = Count(q)
           /\ \A i \in 1 .. INTQ_BUFSIZE : Slot(q.tail, i) \in BufPlace
           /\ intq_empty(q) <=> Count(q) = 0
           /\ intq_full(q) <=> Count(q) = INTQ_BUFSIZE - 1
<1>1. INTQ_BUFSIZE \in Nat \ {0} /\ INTQ_BUFSIZE > 1 /\ q.head \in BufPlace /\ q.tail \in BufPlace
  BY ConsoleAssumption DEF Queue
<1>2. Count(q) \in 0 .. INTQ_BUFSIZE - 1
  BY <1>1 DEF Count, BufPlace
<1>3. (q.head - q.tail) % INTQ_BUFSIZE = Count(q)
  BY <1>1, DifferenceAround DEF Count, BufPlace
<1>4. \A i \in 1 .. INTQ_BUFSIZE : Slot(q.tail, i) \in BufPlace
  BY <1>1 DEF Slot, BufPlace
<1>5. ASSUME NEW i \in 1 .. Count(q) PROVE (q.tail + i - 1) % INTQ_BUFSIZE = Slot(q.tail, i)
  <2>1. i - 1 \in 0 .. INTQ_BUFSIZE - 1
    BY <1>1, <1>2
  <2>2. (q.tail + (i - 1)) % INTQ_BUFSIZE =
            IF q.tail + (i - 1) < INTQ_BUFSIZE THEN q.tail + (i - 1) ELSE q.tail + (i - 1) - INTQ_BUFSIZE
    BY <1>1, <2>1, SumAround DEF BufPlace
  <2>3. q.tail + (i - 1) = q.tail + i - 1
    BY <1>1, <1>2 DEF BufPlace
  <2> QED
    BY <2>2, <2>3 DEF Slot
<1>6. Contents(q) = [i \in 1 .. Count(q) |-> q.buf[Slot(q.tail, i)]]
  BY <1>3, <1>5 DEF Contents
<1>7. \A i \in 1 .. Count(q) : q.buf[Slot(q.tail, i)] \in Byte
  BY <1>1, <1>2, <1>4 DEF Queue
<1>8. Contents(q) \in [1 .. Count(q) -> Byte] /\ Count(q) \in Nat
  BY <1>2, <1>6, <1>7
<1>9. Contents(q) \in Seq(Byte) /\ Len(Contents(q)) = Count(q)
  BY <1>6, <1>8, SeqDef
<1>10. intq_empty(q) <=> Count(q) = 0
  BY <1>1 DEF intq_empty, Count, BufPlace
<1>11. intq_full(q) <=> Count(q) = INTQ_BUFSIZE - 1
  BY <1>1, NextPlace DEF intq_full, Count, BufPlace
<1> QED
  BY <1>2, <1>4, <1>6, <1>9, <1>10, <1>11

\* A byte that goes into a queue with room is the last one in it.
LEMMA PutLast ==
    ASSUME NEW q \in Queue, ~intq_full(q), NEW c \in Byte
    PROVE  /\ intq_putc(q, c) \in Queue /\ Contents(intq_putc(q, c)) = Append(Contents(q), c)
           /\ intq_putc(q, c).lock = q.lock /\ intq_putc(q, c).waiter = Nil
<1>0. PICK p : p = intq_putc(q, c)
  OBVIOUS
<1>1. INTQ_BUFSIZE \in Nat \ {0} /\ INTQ_BUFSIZE > 1 /\ q.head \in BufPlace /\ q.tail \in BufPlace
  BY ConsoleAssumption DEF Queue
<1>2. /\ p.buf = [q.buf EXCEPT ![q.head] = c] /\ p.head = next(q.head) /\ p.tail = q.tail
      /\ p.lock = q.lock /\ p.waiter = Nil /\ p \in Queue
  BY <1>0, <1>1, NextPlace DEF intq_putc, Queue
<1>3. p.buf[q.head] = c /\ \A k \in BufPlace : k # q.head => p.buf[k] = q.buf[k]
  BY <1>1, <1>2 DEF Queue
<1>4. Count(q) < INTQ_BUFSIZE - 1 /\ Count(q) \in Nat
  BY <1>1, Held
<1>5. Count(p) = Count(q) + 1
  BY <1>1, <1>2, <1>4, NextPlace DEF Count, BufPlace
<1>6. Slot(q.tail, Count(q) + 1) = q.head
  BY <1>1 DEF Count, Slot, BufPlace
<1>7. \A i \in 1 .. Count(q) : Slot(q.tail, i) # q.head
  BY <1>1, <1>4 DEF Count, Slot, BufPlace
<1>8. /\ Contents(p) \in Seq(Byte) /\ Len(Contents(p)) = Count(q) + 1
      /\ \A i \in 1 .. Count(q) + 1 : Contents(p)[i] = p.buf[Slot(q.tail, i)]
  <2>1. /\ Contents(p) \in Seq(Byte) /\ Len(Contents(p)) = Count(p)
        /\ Contents(p) = [i \in 1 .. Count(p) |-> p.buf[Slot(p.tail, i)]]
    BY <1>2, Held
  <2> QED
    BY ONLY <1>2, <1>4, <1>5, <2>1
<1>9. /\ Contents(q) \in Seq(Byte) /\ Len(Contents(q)) = Count(q)
      /\ \A i \in 1 .. Count(q) : Contents(q)[i] = q.buf[Slot(q.tail, i)] /\ Slot(q.tail, i) \in BufPlace
  BY <1>1, <1>4, Held
<1>10. PICK a : a = Append(Contents(q), c)
  OBVIOUS
<1>11. /\ a \in Seq(Byte) /\ Len(a) = Count(q) + 1 /\ a[Count(q) + 1] = c
       /\ \A i \in 1 .. Count(q) : a[i] = Contents(q)[i]
  BY <1>9, <1>10, AppendProperties
<1>12. ASSUME NEW i \in 1 .. Count(q) + 1 PROVE Contents(p)[i] = a[i]
  <2>1. CASE i = Count(q) + 1
    BY <1>3, <1>6, <1>8, <1>11, <2>1
  <2>2. CASE i \in 1 .. Count(q)
    BY <1>3, <1>7, <1>8, <1>9, <1>11, <2>2
  <2> QED
    BY <1>4, <2>1, <2>2
<1>13. Contents(p) = a
  BY <1>8, <1>11, <1>12, SeqEqual
<1> QED
  BY <1>0, <1>2, <1>10, <1>13

\* A byte that is taken out of a queue was the first one in it.
LEMMA GetFirst ==
    ASSUME NEW q \in Queue, ~intq_empty(q)
    PROVE  /\ intq_getc(q) \in Queue /\ intq_first(q) \in Byte /\ ~intq_full(intq_getc(q))
           /\ Contents(q) = <<intq_first(q)>> \o Contents(intq_getc(q))
           /\ intq_getc(q).lock = q.lock /\ intq_getc(q).waiter = Nil
<1>0. PICK p : p = intq_getc(q)
  OBVIOUS
<1>1. INTQ_BUFSIZE \in Nat \ {0} /\ INTQ_BUFSIZE > 1 /\ q.head \in BufPlace /\ q.tail \in BufPlace
  BY ConsoleAssumption DEF Queue
<1>2. NoByte \in Byte
  BY DEF NoByte, Byte
<1>3. /\ p.buf = [q.buf EXCEPT ![q.tail] = NoByte] /\ p.tail = next(q.tail) /\ p.head = q.head
      /\ p.lock = q.lock /\ p.waiter = Nil /\ p \in Queue /\ intq_first(q) = q.buf[q.tail]
      /\ intq_first(q) \in Byte
  BY <1>0, <1>1, <1>2, NextPlace DEF intq_getc, intq_first, Queue
<1>4. \A k \in BufPlace : k # q.tail => p.buf[k] = q.buf[k]
  BY <1>1, <1>3 DEF Queue
<1>5. Count(q) > 0 /\ Count(q) \in Nat /\ Count(q) <= INTQ_BUFSIZE - 1
  BY <1>1, Held
<1>6. Count(p) = Count(q) - 1
  BY <1>1, <1>3, <1>5, NextPlace DEF Count, BufPlace
<1>7. \A i \in 1 .. Count(p) : Slot(p.tail, i) = Slot(q.tail, i + 1) /\ Slot(p.tail, i) # q.tail
  BY <1>1, <1>3, <1>5, <1>6, NextPlace DEF Slot, BufPlace
<1>8. Slot(q.tail, 1) = q.tail
  BY <1>1 DEF Slot, BufPlace
<1>9. /\ Contents(p) \in Seq(Byte) /\ Len(Contents(p)) = Count(q) - 1
      /\ \A i \in 1 .. Count(p) : Contents(p)[i] = p.buf[Slot(p.tail, i)] /\ Slot(p.tail, i) \in BufPlace
  <2>1. /\ Contents(p) \in Seq(Byte) /\ Len(Contents(p)) = Count(p) /\ Count(p) \in 0 .. INTQ_BUFSIZE - 1
        /\ Contents(p) = [i \in 1 .. Count(p) |-> p.buf[Slot(p.tail, i)]]
        /\ \A i \in 1 .. INTQ_BUFSIZE : Slot(p.tail, i) \in BufPlace
    BY <1>3, Held
  <2> QED
    BY ONLY <1>1, <1>5, <1>6, <2>1
<1>10. /\ Contents(q) \in Seq(Byte) /\ Len(Contents(q)) = Count(q)
       /\ \A i \in 1 .. Count(q) : Contents(q)[i] = q.buf[Slot(q.tail, i)]
  BY Held
<1>11. PICK a : a = <<intq_first(q)>> \o Contents(p)
  OBVIOUS
<1>12. /\ a \in Seq(Byte) /\ Len(a) = Count(q) /\ a[1] = intq_first(q)
       /\ \A i \in 2 .. Count(q) : a[i] = Contents(p)[i - 1]
  <2>1. <<intq_first(q)>> \in Seq(Byte) /\ Len(<<intq_first(q)>>) = 1 /\ <<intq_first(q)>>[1] = intq_first(q)
    BY <1>3
  <2>2. /\ a \in Seq(Byte) /\ Len(a) = 1 + Len(Contents(p))
        /\ \A i \in 1 .. 1 + Len(Contents(p)) :
              a[i] = IF i <= 1 THEN <<intq_first(q)>>[i] ELSE Contents(p)[i - 1]
    BY <1>9, <1>11, <2>1, ConcatProperties
  <2> QED
    BY <1>5, <1>9, <2>1, <2>2
<1>13. ASSUME NEW i \in 1 .. Count(q) PROVE Contents(q)[i] = a[i]
  <2>1. CASE i = 1
    BY <1>3, <1>5, <1>8, <1>10, <1>12, <2>1
  <2>2. CASE i \in 2 .. Count(q)
    <3>1. i - 1 \in 1 .. Count(p) /\ (i - 1) + 1 = i
      BY <1>5, <1>6, <2>2
    <3>2. Contents(p)[i - 1] = p.buf[Slot(p.tail, i - 1)] /\ Slot(p.tail, i - 1) \in BufPlace
          /\ Slot(p.tail, i - 1) = Slot(q.tail, i) /\ Slot(p.tail, i - 1) # q.tail
      BY <1>7, <1>9, <3>1
    <3> QED
      BY <1>4, <1>10, <1>12, <2>2, <3>2
  <2> QED
    BY <1>5, <2>1, <2>2
<1>14. Contents(q) = a
  BY <1>10, <1>12, <1>13, SeqEqual
<1>15. ~intq_full(p)
  BY <1>1, <1>3, <1>5, <1>6, Held
<1> QED
  BY <1>0, <1>3, <1>11, <1>14, <1>15

LEMMA FlowType ==
    ASSUME NEW out \in Seq(Byte), NEW q \in Queue
    PROVE  Flow(out, q) \in Seq(Byte)
<1>1. Contents(q) \in Seq(Byte)
  BY Held
<1> QED
  BY <1>1 DEF Flow

LEMMA FlowPut ==
    ASSUME NEW out \in Seq(Byte), NEW q \in Queue, ~intq_full(q), NEW c \in Byte
    PROVE  Flow(out, intq_putc(q, c)) = Append(Flow(out, q), c)
<1>1. PICK w \in Seq(Byte) : w = Contents(q)
  BY Held
<1>2. Contents(intq_putc(q, c)) = Append(w, c)
  BY <1>1, PutLast
<1>3. out \o Append(w, c) = Append(out \o w, c)
  BY <1>1
<1> QED
  BY <1>1, <1>2, <1>3 DEF Flow

LEMMA FlowGet ==
    ASSUME NEW out \in Seq(Byte), NEW q \in Queue, ~intq_empty(q)
    PROVE  Flow(Append(out, intq_first(q)), intq_getc(q)) = Flow(out, q)
<1>1. PICK w \in Seq(Byte) : w = Contents(intq_getc(q))
  BY GetFirst, Held
<1>2. PICK c \in Byte : c = intq_first(q)
  BY GetFirst
<1>3. Contents(q) = <<c>> \o w
  BY <1>1, <1>2, GetFirst
<1>4. <<c>> \in Seq(Byte)
  BY <1>2
<1>5. Append(out, c) = out \o <<c>>
  BY <1>2
<1>6. (out \o <<c>>) \o w = out \o (<<c>> \o w)
  BY <1>1, <1>4, ConcatAssociative
<1> QED
  BY <1>1, <1>2, <1>3, <1>5, <1>6 DEF Flow

LEMMA FlowSent ==
    ASSUME NEW out \in Seq(Byte), NEW q \in Queue, intq_empty(q), NEW c \in Byte
    PROVE  Flow(Append(out, c), q) = Append(Flow(out, q), c)
<1>1. Contents(q) \in Seq(Byte) /\ Len(Contents(q)) = 0
  BY Held
<1>2. Contents(q) = <<>>
  BY <1>1
<1>3. Append(out, c) \in Seq(Byte) /\ Append(out, c) \o <<>> = Append(out, c) /\ out \o <<>> = out
  OBVIOUS
<1> QED
  BY <1>2, <1>3 DEF Flow

\* Who waits at a queue makes no difference to what is in it.
LEMMA FlowSame ==
    ASSUME NEW out, NEW q, NEW p, q.buf = p.buf, q.head = p.head, q.tail = p.tail
    PROVE  Flow(out, q) = Flow(out, p)
  BY DEF Flow, Contents

LEMMA MessagesType ==
    ASSUME NEW w \in Seq(Byte)
    PROVE  Messages(w) \in Seq(Byte)
  BY ChosenFrom DEF Messages

\* One more byte, of a message or printed with interrupts off.
LEMMA MessagesAppend ==
    ASSUME NEW w \in Seq(Byte), NEW c \in Byte
    PROVE  Messages(Append(w, c)) = IF c[1] # Nil THEN Append(Messages(w), c) ELSE Messages(w)
<1>1. PICK v : v = Append(w, c)
  OBVIOUS
<1>2. /\ DOMAIN v = 1 .. Len(w) + 1 /\ DOMAIN w = 1 .. Len(w) /\ v[Len(w) + 1] = c
      /\ \A i \in 1 .. Len(w) : v[i] = w[i]
  BY <1>1
<1> DEFINE I == {i \in DOMAIN w : w[i][1] # Nil}
           J == {i \in DOMAIN v : v[i][1] # Nil}
<1>3. /\ \A i \in 1 .. Len(w) : i \in I <=> i \in J
      /\ Len(w) + 1 \in J <=> c[1] # Nil
  BY <1>2
<1>4. Messages(v) = Chosen(v, J) /\ Messages(w) = Chosen(w, I)
  BY DEF Messages
<1> HIDE DEF I, J
<1>5. Chosen(Append(w, c), J) = IF Len(w) + 1 \in J THEN Append(Chosen(w, I), c) ELSE Chosen(w, I)
  BY <1>3, ChosenAppend
<1> QED
  BY <1>1, <1>3, <1>4, <1>5

LEMMA SpellNext ==
    ASSUME NEW w \in Seq(Byte), NEW t \in Printer, NEW n \in Nat, n < MsgLen, Spell(w, t, n)
    PROVE  Spell(Append(w, <<t, n + 1>>), t, n + 1)
<1>1. Nil \notin Printer /\ MsgLen \in Nat
  BY ConsoleAssumption
<1>2. PICK c \in Byte : c = <<t, n + 1>>
  <2>1. t \in Printer \cup {"key", Nil} /\ n + 1 \in Int
    OBVIOUS
  <2>2. <<t, n + 1>> \in Byte
    BY <2>1 DEF Byte
  <2> QED
    BY <2>2
<1>3. PICK m \in Seq(Byte) : m = Messages(w)
  BY MessagesType
<1>4. PICK a : a = Append(m, c)
  OBVIOUS
<1>5. Messages(Append(w, c)) = a
  BY <1>1, <1>2, <1>3, <1>4, MessagesAppend
<1>6. /\ Len(a) = Len(m) + 1 /\ a[Len(m) + 1] = c /\ Len(m) \in Nat
      /\ \A i \in 1 .. Len(m) : a[i] = m[i]
  BY <1>4, AppendProperties
<1>7. t # Nil
  BY <1>1
<1>8. Whole(m) /\ EndsWith(m, t, n)
  BY <1>3 DEF Spell
<1>9. ASSUME NEW i \in 1 .. Len(a) - 1
      PROVE  IF a[i][2] = MsgLen THEN a[i + 1][2] = 1 ELSE a[i + 1] = <<a[i][1], a[i][2] + 1>>
  <2>1. CASE i = Len(m)
    <3>1. a[i] = m[Len(m)] /\ a[i + 1] = c /\ Len(m) > 0
      BY <1>6, <2>1
    <3>2. CASE n > 0
      <4>1. m[Len(m)] = <<t, n>>
        BY <1>7, <1>8, <3>2 DEF EndsWith
      <4> QED
        BY <1>1, <1>2, <3>1, <4>1
    <3>3. CASE n = 0
      <4>1. m[Len(m)][2] = MsgLen
        BY <1>8, <3>1, <3>3 DEF EndsWith
      <4> QED
        BY <1>2, <3>1, <3>3, <4>1
    <3> QED
      BY <3>2, <3>3
  <2>2. CASE i \in 1 .. Len(m) - 1
    <3>1. a[i] = m[i] /\ a[i + 1] = m[i + 1]
      BY <1>6, <2>2
    <3> QED
      BY <1>8, <2>2, <3>1 DEF Whole
  <2> QED
    BY <1>6, <2>1, <2>2
<1>10. Whole(a)
  BY <1>9 DEF Whole
<1>11. EndsWith(a, t, n + 1)
  BY <1>2, <1>6, <1>7 DEF EndsWith
<1> QED
  BY <1>2, <1>5, <1>10, <1>11 DEF Spell

LEMMA SpellUrgent ==
    ASSUME NEW w \in Seq(Byte), NEW t, NEW n, Spell(w, t, n)
    PROVE  Spell(Append(w, <<Nil, 0>>), t, n)
<1>1. <<Nil, 0>> \in Byte /\ <<Nil, 0>>[1] = Nil
  BY DEF Byte
<1>2. Messages(Append(w, <<Nil, 0>>)) = Messages(w)
  BY <1>1, MessagesAppend
<1> QED
  BY <1>2 DEF Spell

LEMMA SpellTurns ==
    ASSUME NEW w, NEW t
    PROVE  /\ Spell(w, t, MsgLen) => Spell(w, Nil, 0)
           /\ Spell(w, Nil, 0) => Spell(w, t, 0)
  BY DEF Spell, EndsWith

SetThread(t, r) == cn_thread' = [cn_thread EXCEPT ![t] = r]
Thread == [at : CnAt, n : Int]

LEMMA ConsoleFacts ==
    ASSUME ConsoleInv
    PROVE  /\ Nil \notin ConsoleThread /\ Reader \notin Printer /\ MsgLen \in Nat /\ Printer \subseteq ConsoleThread
           /\ cn_txq \in Queue /\ cn_in \in Queue /\ cn_out \in Seq(Byte)
           /\ cn_thread \in [ConsoleThread -> Thread]
           /\ Flow(cn_out, cn_txq) \in Seq(Byte)
           /\ \A t \in Printer : /\ cn_lock.holder = t => Spell(Flow(cn_out, cn_txq), t, cn_thread[t].n)
                                 /\ cn_thread[t] \in Thread
           /\ cn_lock.holder = Nil => Spell(Flow(cn_out, cn_txq), Nil, 0)
<1>1. Nil \notin ConsoleThread /\ Reader \notin Printer /\ MsgLen \in Nat
  BY ConsoleAssumption DEF ConsoleThread
<1>2. /\ cn_txq \in Queue /\ cn_in \in Queue /\ cn_out \in Seq(Byte) /\ cn_thread \in [ConsoleThread -> Thread]
      /\ Printer \subseteq ConsoleThread
  BY DEF ConsoleInv, ConsoleTyped, ConsoleThread, Thread
<1>3. Flow(cn_out, cn_txq) \in Seq(Byte)
  BY <1>2, FlowType
<1>4. \A t \in Printer : cn_thread[t] \in Thread
  BY <1>2
<1>5. ASSUME NEW t \in Printer, cn_lock.holder = t PROVE Spell(Flow(cn_out, cn_txq), t, cn_thread[t].n)
  BY <1>1, <1>2, <1>5 DEF ConsoleInv, Spelled
<1>6. cn_lock.holder = Nil => Spell(Flow(cn_out, cn_txq), Nil, 0)
  BY DEF ConsoleInv, Spelled
<1> QED
  BY <1>1, <1>2, <1>3, <1>4, <1>5, <1>6

\* What it takes for a step of printer t, which is r afterwards, to keep the
\* invariant.
LEMMA PrinterKeeps ==
    ASSUME ConsoleInv, NEW t \in Printer, NEW r \in Thread, SetThread(t, r), ConsoleTyped', UNCHANGED cn_in,
           r.at \notin {"qlock", "getc"},
           \/ cn_lock.holder \in {t, Nil} /\ cn_lock'.holder \in {t, Nil}
           \/ UNCHANGED cn_lock,
           Printing(r) <=> cn_lock'.holder = t, cn_lock'.holder = t => r.n \in 0 .. MsgLen,
           \/ cn_txq.lock \in {t, Nil} /\ cn_txq'.lock \in {t, Nil}
           \/ cn_txq'.lock = cn_txq.lock,
           Waiting(r) <=> cn_txq'.lock = t, cn_txq'.waiter = t => r.at = "blocked",
           cn_txq'.waiter \in {Nil, t, cn_txq.waiter},
           cn_lock'.holder = Nil => cn_lock'.depth = 0,
           cn_mode' # "QUEUE" => cn_txq'.head = cn_txq'.tail, ~cn_failed',
           cn_lock'.holder = t => Spell(Flow(cn_out', cn_txq'), t, r.n),
           \/ cn_lock'.holder = t
           \/ cn_lock'.holder = Nil /\ Spell(Flow(cn_out', cn_txq'), Nil, 0)
           \/ cn_lock.holder # t /\ UNCHANGED <<cn_out, cn_txq>>
    PROVE  ConsoleInv'
<1>1. /\ cn_thread'[t] = r /\ \A u \in ConsoleThread \ {t} : cn_thread'[u] = cn_thread[u]
      /\ Nil \notin ConsoleThread /\ Reader \notin Printer
  BY ConsoleFacts DEF SetThread
<1>2. \A u \in Printer : u # t => cn_thread'[u] = cn_thread[u]
  BY <1>1 DEF ConsoleThread
<1>3. Nil \notin Printer
  BY <1>1 DEF ConsoleThread
<1>4. ASSUME NEW u \in Printer
      PROVE  /\ cn_thread'[u].at \notin {"qlock", "getc"}
             /\ Printing(cn_thread'[u]) <=> cn_lock'.holder = u
             /\ Waiting(cn_thread'[u]) <=> cn_txq'.lock = u
             /\ cn_txq'.waiter = u => cn_thread'[u].at = "blocked"
             /\ cn_lock'.holder = u => cn_thread'[u].n \in 0 .. MsgLen
  <2>1. CASE u = t
    BY <1>1, <2>1
  <2>2. CASE u # t
    <3>1. /\ cn_thread[u].at \notin {"qlock", "getc"}
          /\ Printing(cn_thread[u]) <=> cn_lock.holder = u
          /\ Waiting(cn_thread[u]) <=> cn_txq.lock = u
          /\ cn_txq.waiter = u => cn_thread[u].at = "blocked"
          /\ cn_lock.holder = u => cn_thread[u].n \in 0 .. MsgLen
      BY DEF ConsoleInv, Turns
    <3>2. cn_thread'[u] = cn_thread[u] /\ u # Nil
      BY <1>2, <1>3, <2>2
    <3>3. cn_lock'.holder = u <=> cn_lock.holder = u
      BY <1>3, <2>2, <3>2
    <3>4. (cn_txq'.lock = u <=> cn_txq.lock = u) /\ (cn_txq'.waiter = u => cn_txq.waiter = u)
      BY <1>3, <2>2, <3>2
    <3> QED
      BY <3>1, <3>2, <3>3, <3>4
  <2> QED
    BY <2>1, <2>2
<1>5. cn_thread'[Reader] = cn_thread[Reader]
  BY <1>1 DEF ConsoleThread
<1>6. Turns'
  <2>1. cn_txq'.lock \in Printer \cup {Nil} /\ cn_txq'.waiter \in Printer \cup {Nil}
    BY DEF ConsoleInv, Turns
  <2>2. cn_thread[Reader].at \in {"idle", "blocked", "woken", "getc"} /\ cn_in.waiter \in {Nil, Reader}
    BY DEF ConsoleInv, Turns
  <2> QED
    BY <1>4, <1>5, <2>1, <2>2 DEF Turns, Printing, Waiting
<1>7. Spelled'
  <2>1. CASE cn_lock'.holder = t
    BY <1>1, <1>3, <2>1 DEF Spelled
  <2>2. CASE cn_lock'.holder = Nil /\ Spell(Flow(cn_out', cn_txq'), Nil, 0)
    BY <2>2 DEF Spelled
  <2>3. CASE cn_lock.holder # t /\ UNCHANGED <<cn_out, cn_txq>> /\ cn_lock'.holder # t
    <3>1. cn_lock'.holder = cn_lock.holder
      BY <2>3
    <3>2. CASE cn_lock.holder = Nil
      BY <2>3, <3>1, <3>2 DEF Spelled, ConsoleInv
    <3>3. CASE cn_lock.holder \in Printer
      BY <1>2, <1>3, <2>3, <3>1, <3>3 DEF Spelled, ConsoleInv
    <3> QED
      BY <3>2, <3>3 DEF ConsoleInv, ConsoleTyped
  <2> QED
    BY <1>3, <2>1, <2>2, <2>3
<1> QED
  BY <1>6, <1>7 DEF ConsoleInv

\* The values the variables of the console keep.
LEMMA TypedStep ==
    ASSUME ConsoleInv, NEW t \in ConsoleThread, NEW r \in Thread, SetThread(t, r),
           cn_lock' \in [holder : Printer \cup {Nil}, depth : {0, 1}], cn_txq' \in Queue, cn_in' \in Queue,
           cn_mode' \in {"UNINIT", "POLL", "QUEUE"}, cn_ier' \in [xmit : BOOLEAN, recv : BOOLEAN],
           cn_port' \in [thre : BOOLEAN, rbr : Byte], cn_out' \in Seq(Byte),
           cn_count' \in [prints : Nat, keys : Nat, urgent : Nat]
    PROVE  ConsoleTyped'
  BY DEF ConsoleInv, ConsoleTyped, SetThread, Thread

LEMMA Registers ==
    ASSUME NEW txq, NEW in
    PROVE  write_ier(txq, in) \in [xmit : BOOLEAN, recv : BOOLEAN]
  BY DEF write_ier

LEMMA PrintStep ==
    ASSUME ConsoleInv, NEW t \in Printer, print(t)
    PROVE  ConsoleInv'
<1>0. PICK r : r = [cn_thread[t] EXCEPT !.at = "acquire"]
  OBVIOUS
<1>1. /\ cn_thread[t] \in Thread /\ t \in ConsoleThread /\ cn_thread[t].at = "idle"
      /\ ConsoleTyped /\ cn_count.prints \in Nat
  BY ConsoleFacts DEF print, ConsoleInv, ConsoleTyped
<1>2. r \in Thread /\ r.at = "acquire" /\ SetThread(t, r)
  BY <1>0, <1>1 DEF Thread, CnAt, SetThread, print
<1>3. /\ UNCHANGED <<cn_lock, cn_txq, cn_in, cn_mode, cn_ier, cn_port, cn_out, cn_failed>>
      /\ cn_count' \in [prints : Nat, keys : Nat, urgent : Nat]
  BY <1>1 DEF print, ConsoleTyped
<1>4. ConsoleTyped'
  BY <1>1, <1>2, <1>3, TypedStep DEF ConsoleTyped
<1>5. /\ cn_lock.holder # t /\ cn_txq.lock # t /\ cn_txq.waiter # t /\ ~cn_failed
      /\ cn_lock.holder = Nil => cn_lock.depth = 0
      /\ cn_mode # "QUEUE" => cn_txq.head = cn_txq.tail
  BY <1>1 DEF ConsoleInv, Turns, Printing, Waiting
<1> QED
  BY <1>2, <1>3, <1>4, <1>5, PrinterKeeps DEF Printing, Waiting

LEMMA AcquireStep ==
    ASSUME ConsoleInv, NEW t \in Printer, acquire_console(t)
    PROVE  ConsoleInv'
<1>0. PICK r : r = [at |-> "putc", n |-> 0]
  OBVIOUS
<1>1. t \in ConsoleThread /\ cn_thread[t].at = "acquire" /\ ConsoleTyped /\ cn_lock.holder = Nil
      /\ MsgLen \in Nat /\ Nil \notin Printer
  BY ConsoleFacts, ConsoleAssumption DEF acquire_console, console_free, ConsoleInv
<1>2. r \in Thread /\ r.at = "putc" /\ r.n = 0 /\ SetThread(t, r)
  BY <1>0 DEF Thread, CnAt, SetThread, acquire_console
<1>3. /\ UNCHANGED <<cn_txq, cn_in, cn_mode, cn_ier, cn_port, cn_out, cn_count, cn_failed>>
      /\ cn_lock' = [cn_lock EXCEPT !.holder = t] /\ cn_lock'.holder = t
      /\ cn_lock' \in [holder : Printer \cup {Nil}, depth : {0, 1}]
  BY <1>1 DEF acquire_console, ConsoleTyped
<1>4. ConsoleTyped'
  BY <1>1, <1>2, <1>3, TypedStep DEF ConsoleTyped
<1>5. /\ cn_txq.lock # t /\ cn_txq.waiter # t /\ ~cn_failed
      /\ cn_mode # "QUEUE" => cn_txq.head = cn_txq.tail
  BY <1>1 DEF ConsoleInv, Turns, Printing, Waiting
<1>6. Spell(Flow(cn_out', cn_txq'), t, r.n)
  BY <1>1, <1>2, <1>3, ConsoleFacts, SpellTurns
<1> QED
  BY <1>1, <1>2, <1>3, <1>4, <1>5, <1>6, PrinterKeeps DEF Printing, Waiting

\* A printer that is not waiting: what it holds and what is free.
LEMMA PuttingFacts ==
    ASSUME ConsoleInv, NEW t \in Printer, cn_thread[t].at = "putc"
    PROVE  /\ cn_lock.holder = t /\ cn_txq.lock = Nil /\ cn_txq.waiter = Nil /\ ~cn_failed
           /\ cn_thread[t].n \in 0 .. MsgLen /\ Spell(Flow(cn_out, cn_txq), t, cn_thread[t].n)
           /\ cn_mode # "QUEUE" => cn_txq.head = cn_txq.tail
           /\ cn_thread[t] \in Thread /\ t \in ConsoleThread /\ t # Nil /\ ConsoleTyped
<1>1. Printing(cn_thread[t]) /\ ~Waiting(cn_thread[t])
  BY DEF Printing, Waiting
<1>2. cn_lock.holder = t /\ cn_txq.lock # t /\ cn_txq.waiter # t
  BY <1>1 DEF ConsoleInv, Turns
<1>3. \A u \in Printer : cn_txq.lock = u \/ cn_txq.waiter = u => u = t
  BY <1>2 DEF ConsoleInv, Turns, Printing, Waiting
<1>4. cn_txq.lock = Nil /\ cn_txq.waiter = Nil
  BY <1>2, <1>3 DEF ConsoleInv, Turns
<1> QED
  BY <1>2, <1>4, ConsoleFacts DEF ConsoleInv, Turns

LEMMA AgainStep ==
    ASSUME ConsoleInv, NEW t \in Printer, acquire_again(t)
    PROVE  ConsoleInv'
<1>0. PICK r : r = cn_thread[t]
  OBVIOUS
<1>1. /\ cn_thread[t].at = "putc" /\ cn_lock' = [cn_lock EXCEPT !.depth = @ + 1] /\ cn_lock.depth = 0
      /\ UNCHANGED <<cn_txq, cn_in, cn_mode, cn_ier, cn_port, cn_thread, cn_out, cn_count, cn_failed>>
  BY DEF acquire_again
<1>2. r \in Thread /\ r.at = "putc" /\ SetThread(t, r)
  BY <1>0, <1>1, PuttingFacts, ConsoleFacts DEF SetThread
<1>3. cn_lock'.holder = t /\ cn_lock' \in [holder : Printer \cup {Nil}, depth : {0, 1}]
  BY <1>1, PuttingFacts DEF ConsoleTyped
<1>4. ConsoleTyped'
  BY <1>1, <1>2, <1>3, PuttingFacts, TypedStep DEF ConsoleTyped
<1> QED
  BY <1>0, <1>1, <1>2, <1>3, <1>4, PuttingFacts, PrinterKeeps DEF Printing, Waiting

LEMMA ReleaseStep ==
    ASSUME ConsoleInv, NEW t \in Printer, release_console(t)
    PROVE  ConsoleInv'
<1>1. /\ cn_thread[t].at = "putc"
      /\ UNCHANGED <<cn_txq, cn_in, cn_mode, cn_ier, cn_port, cn_out, cn_count, cn_failed>>
  BY DEF release_console
<1>2. CASE cn_lock.depth > 0
  <2>0. PICK r : r = cn_thread[t]
    OBVIOUS
  <2>1. cn_lock' = [cn_lock EXCEPT !.depth = @ - 1] /\ UNCHANGED cn_thread
    BY <1>2 DEF release_console
  <2>2. r \in Thread /\ r.at = "putc" /\ SetThread(t, r)
    BY <1>1, <2>0, <2>1, PuttingFacts, ConsoleFacts DEF SetThread
  <2>3. cn_lock'.holder = t /\ cn_lock' \in [holder : Printer \cup {Nil}, depth : {0, 1}]
    <3>1. cn_lock \in [holder : Printer \cup {Nil}, depth : {0, 1}] /\ cn_lock.holder = t
      BY <1>1, PuttingFacts DEF ConsoleTyped
    <3>2. cn_lock.depth = 1
      BY <1>2, <3>1
    <3> QED
      BY <2>1, <3>1, <3>2
  <2>4. ConsoleTyped'
    BY <1>1, <2>2, <2>3, PuttingFacts, TypedStep DEF ConsoleTyped
  <2> QED
    BY <1>1, <2>0, <2>2, <2>3, <2>4, PuttingFacts, PrinterKeeps DEF Printing, Waiting
<1>3. CASE ~ (cn_lock.depth > 0)
  <2>0. PICK r : r = [at |-> "idle", n |-> 0]
    OBVIOUS
  <2>1. /\ cn_thread[t].n = MsgLen /\ cn_lock' = [cn_lock EXCEPT !.holder = Nil] /\ SetThread(t, r)
    BY <1>3, <2>0 DEF release_console, SetThread
  <2>2. r \in Thread /\ r.at = "idle"
    BY <2>0 DEF Thread, CnAt
  <2>3. /\ cn_lock'.holder = Nil /\ cn_lock'.depth = 0
        /\ cn_lock' \in [holder : Printer \cup {Nil}, depth : {0, 1}]
    BY <1>1, <1>3, <2>1, PuttingFacts DEF ConsoleTyped
  <2>4. ConsoleTyped'
    BY <1>1, <2>1, <2>2, <2>3, PuttingFacts, TypedStep DEF ConsoleTyped
  <2>5. Spell(Flow(cn_out', cn_txq'), Nil, 0)
    BY <1>1, <2>1, PuttingFacts, SpellTurns
  <2>6. /\ cn_lock.holder = t /\ cn_lock'.holder # t
        /\ Printing(r) <=> cn_lock'.holder = t
        /\ Waiting(r) <=> cn_txq'.lock = t
        /\ cn_lock.holder = t /\ cn_lock'.holder \in {t, Nil}
        /\ r.at \notin {"qlock", "getc"}
    BY <1>1, <2>1, <2>2, <2>3, PuttingFacts DEF Printing, Waiting
  <2>7. /\ cn_txq'.lock = Nil /\ cn_txq'.waiter = Nil /\ ~cn_failed'
        /\ cn_txq'.lock = cn_txq.lock
        /\ cn_mode' # "QUEUE" => cn_txq'.head = cn_txq'.tail
    BY <1>1, PuttingFacts
  <2> QED
    BY <1>1, <2>1, <2>2, <2>3, <2>4, <2>5, <2>6, <2>7, PrinterKeeps
<1> QED
  BY <1>2, <1>3

LEMMA PollStep ==
    ASSUME ConsoleInv, NEW t \in Printer, serial_putc(t), cn_mode # "QUEUE"
    PROVE  ConsoleInv'
<1>0. PICK r : r = [cn_thread[t] EXCEPT !.n = @ + 1]
  OBVIOUS
<1>1. PICK n \in Nat : n = cn_thread[t].n /\ n < MsgLen
  BY ConsoleFacts, PuttingFacts DEF serial_putc
<1>2. /\ cn_thread[t].at = "putc" /\ cn_port' = [cn_port EXCEPT !.thre = FALSE]
      /\ cn_out' = Append(cn_out, <<t, n + 1>>) /\ cn_mode' = "POLL" /\ SetThread(t, r)
      /\ UNCHANGED <<cn_txq, cn_ier, cn_lock, cn_in, cn_count, cn_failed>>
  BY <1>0, <1>1 DEF serial_putc, SetThread
<1>3. r \in Thread /\ r.at = "putc" /\ r.n = n + 1 /\ r.n \in 0 .. MsgLen
  BY <1>0, <1>1, <1>2, ConsoleFacts, PuttingFacts DEF Thread
<1>4. <<t, n + 1>> \in Byte
  <2>1. t \in Printer \cup {"key", Nil} /\ n + 1 \in Int
    OBVIOUS
  <2> QED
    BY <2>1 DEF Byte
<1>5. cn_port' \in [thre : BOOLEAN, rbr : Byte] /\ cn_out' \in Seq(Byte)
  BY <1>2, <1>4, PuttingFacts, AppendProperties DEF ConsoleTyped
<1>6. ConsoleTyped'
  BY <1>2, <1>3, <1>5, PuttingFacts, TypedStep DEF ConsoleTyped
<1>7. intq_empty(cn_txq)
  BY <1>2, PuttingFacts DEF intq_empty
<1>8. Flow(cn_out', cn_txq') = Append(Flow(cn_out, cn_txq), <<t, n + 1>>)
  BY <1>2, <1>4, <1>7, ConsoleFacts, FlowSent
<1>9. Spell(Flow(cn_out', cn_txq'), t, r.n)
  BY <1>1, <1>2, <1>3, <1>8, ConsoleFacts, PuttingFacts, SpellNext
<1> QED
  BY <1>2, <1>3, <1>6, <1>7, <1>9, PuttingFacts, PrinterKeeps DEF Printing, Waiting, intq_empty

LEMMA QueueStep ==
    ASSUME ConsoleInv, NEW t \in Printer, serial_putc(t), cn_mode = "QUEUE"
    PROVE  ConsoleInv'
<1>1. PICK n \in Nat : n = cn_thread[t].n /\ n < MsgLen
  BY ConsoleFacts, PuttingFacts DEF serial_putc
<1>2. /\ cn_thread[t].at = "putc"
      /\ UNCHANGED <<cn_port, cn_out, cn_mode, cn_lock, cn_in, cn_count, cn_failed>>
  BY DEF serial_putc
<1>3. <<t, n + 1>> \in Byte
  <2>1. t \in Printer \cup {"key", Nil} /\ n + 1 \in Int
    OBVIOUS
  <2> QED
    BY <2>1 DEF Byte
<1>4. CASE ~intq_full(cn_txq)
  <2>0. PICK r : r = [cn_thread[t] EXCEPT !.n = @ + 1]
    OBVIOUS
  <2>1. /\ cn_txq' = intq_putc(cn_txq, <<t, n + 1>>) /\ SetThread(t, r)
        /\ cn_ier' = write_ier(cn_txq', cn_in)
    BY <1>1, <1>4, <2>0 DEF serial_putc, SetThread
  <2>2. r \in Thread /\ r.at = "putc" /\ r.n = n + 1 /\ r.n \in 0 .. MsgLen
    BY <1>1, <1>2, <2>0, ConsoleFacts DEF Thread
  <2>3. cn_txq' \in Queue /\ cn_txq'.lock = Nil /\ cn_txq'.waiter = Nil
    BY <1>2, <1>3, <1>4, <2>1, ConsoleFacts, PuttingFacts, PutLast
  <2>4. ConsoleTyped'
    BY <1>2, <2>1, <2>2, <2>3, PuttingFacts, TypedStep, Registers DEF ConsoleTyped
  <2>5. Flow(cn_out', cn_txq') = Append(Flow(cn_out, cn_txq), <<t, n + 1>>)
    BY <1>2, <1>3, <1>4, <2>1, ConsoleFacts, FlowPut
  <2>6. Spell(Flow(cn_out', cn_txq'), t, r.n)
    BY <1>1, <1>2, <2>2, <2>5, ConsoleFacts, PuttingFacts, SpellNext
  <2> QED
    BY <1>2, <2>1, <2>2, <2>3, <2>4, <2>6, PuttingFacts, PrinterKeeps DEF Printing, Waiting
<1>5. CASE intq_full(cn_txq)
  <2>0. PICK r : r = [cn_thread[t] EXCEPT !.at = "blocked"]
    OBVIOUS
  <2>1. /\ cn_txq' = [cn_txq EXCEPT !.lock = t, !.waiter = t] /\ SetThread(t, r) /\ UNCHANGED cn_ier
    BY <1>2, <1>5, <2>0, PuttingFacts DEF serial_putc, SetThread
  <2>2. r \in Thread /\ r.at = "blocked" /\ r.n = n
    BY <1>1, <2>0, ConsoleFacts DEF Thread, CnAt
  <2>3. /\ cn_txq' \in Queue /\ cn_txq'.lock = t /\ cn_txq'.waiter = t
        /\ cn_txq'.buf = cn_txq.buf /\ cn_txq'.head = cn_txq.head /\ cn_txq'.tail = cn_txq.tail
    BY <1>2, <2>1, ConsoleFacts, PuttingFacts DEF Queue
  <2>4. ConsoleTyped'
    BY <1>2, <2>1, <2>2, <2>3, PuttingFacts, TypedStep DEF ConsoleTyped
  <2>5. Flow(cn_out', cn_txq') = Flow(cn_out, cn_txq)
    BY <1>2, <2>3, FlowSame
  <2> QED
    BY <1>1, <1>2, <2>1, <2>2, <2>3, <2>4, <2>5, PuttingFacts, PrinterKeeps DEF Printing, Waiting
<1> QED
  BY <1>4, <1>5

LEMMA PutcStep ==
    ASSUME ConsoleInv, NEW t \in Printer, serial_putc(t)
    PROVE  ConsoleInv'
  BY PollStep, QueueStep

LEMMA WokenPrinter ==
    ASSUME ConsoleInv, NEW t \in Printer, intq_woken(t)
    PROVE  ConsoleInv'
<1>0. PICK r : r = [cn_thread[t] EXCEPT !.at = "putc"]
  OBVIOUS
<1>1. /\ cn_thread[t].at = "woken" /\ t # Reader /\ cn_thread[t] \in Thread /\ ConsoleTyped /\ t # Nil
      /\ cn_lock.holder = t /\ cn_txq.lock = t /\ cn_thread[t].n \in 0 .. MsgLen
      /\ Spell(Flow(cn_out, cn_txq), t, cn_thread[t].n) /\ t \in ConsoleThread
  <2>1. cn_thread[t].at = "woken" /\ Printing(cn_thread[t]) /\ Waiting(cn_thread[t])
    BY DEF intq_woken, Printing, Waiting
  <2>2. cn_lock.holder = t /\ cn_txq.lock = t /\ cn_thread[t].n \in 0 .. MsgLen
    BY <2>1 DEF ConsoleInv, Turns
  <2> QED
    BY <2>1, <2>2, ConsoleFacts DEF ConsoleInv
<1>2. /\ r \in Thread /\ r.at = "putc" /\ r.n = cn_thread[t].n /\ SetThread(t, r)
      /\ cn_txq' = [cn_txq EXCEPT !.lock = Nil]
      /\ UNCHANGED <<cn_in, cn_lock, cn_mode, cn_ier, cn_port, cn_out, cn_count, cn_failed>>
  BY <1>0, <1>1 DEF intq_woken, Thread, CnAt, SetThread
<1>3. /\ cn_txq' \in Queue /\ cn_txq'.lock = Nil /\ cn_txq'.waiter = cn_txq.waiter
      /\ cn_txq'.buf = cn_txq.buf /\ cn_txq'.head = cn_txq.head /\ cn_txq'.tail = cn_txq.tail
  BY <1>2, ConsoleFacts DEF Queue
<1>4. ConsoleTyped'
  BY <1>1, <1>2, <1>3, TypedStep DEF ConsoleTyped
<1>5. Flow(cn_out', cn_txq') = Flow(cn_out, cn_txq)
  BY <1>2, <1>3, FlowSame
<1>6. cn_txq.waiter # t
  BY <1>1 DEF ConsoleInv, Turns
<1>7. /\ r \in Thread /\ r.at = "putc" /\ r.n \in 0 .. MsgLen /\ SetThread(t, r) /\ UNCHANGED <<cn_lock, cn_in>>
      /\ ~cn_failed' /\ cn_lock'.holder = t /\ Spell(Flow(cn_out', cn_txq'), t, r.n)
      /\ cn_mode' # "QUEUE" => cn_txq'.head = cn_txq'.tail
  BY <1>1, <1>2, <1>3, <1>5 DEF ConsoleInv, Turns
<1> QED
  BY <1>1, <1>3, <1>4, <1>6, <1>7, PrinterKeeps DEF Printing, Waiting

\* What it takes for a step of the port, of a handler or of the reader to keep the
\* invariant.
LEMMA PortKeeps ==
    ASSUME ConsoleInv, ConsoleTyped', UNCHANGED cn_lock,
           \A t \in Printer : /\ cn_thread'[t].n = cn_thread[t].n
                              /\ \/ cn_thread'[t].at = cn_thread[t].at
                                 \/ Waiting(cn_thread[t]) /\ cn_thread'[t].at = "woken" /\ cn_txq'.waiter = Nil,
           cn_thread'[Reader].at \in {"idle", "blocked", "woken", "getc"},
           cn_txq'.lock = cn_txq.lock, cn_txq'.waiter \in {Nil, cn_txq.waiter},
           cn_in'.waiter \in {Nil, Reader}, cn_mode' # "QUEUE" => cn_txq'.head = cn_txq'.tail, ~cn_failed',
           \/ Flow(cn_out', cn_txq') = Flow(cn_out, cn_txq)
           \/ Flow(cn_out', cn_txq') = Append(Flow(cn_out, cn_txq), <<Nil, 0>>)
    PROVE  ConsoleInv'
<1>1. Nil \notin Printer
  BY ConsoleAssumption
<1>2. ASSUME NEW t \in Printer
      PROVE  /\ cn_thread'[t].at \notin {"qlock", "getc"}
             /\ Printing(cn_thread'[t]) <=> cn_lock'.holder = t
             /\ Waiting(cn_thread'[t]) <=> cn_txq'.lock = t
             /\ cn_txq'.waiter = t => cn_thread'[t].at = "blocked"
             /\ cn_lock'.holder = t => cn_thread'[t].n \in 0 .. MsgLen
  <2>1. /\ cn_thread[t].at \notin {"qlock", "getc"}
        /\ Printing(cn_thread[t]) <=> cn_lock.holder = t
        /\ Waiting(cn_thread[t]) <=> cn_txq.lock = t
        /\ cn_txq.waiter = t => cn_thread[t].at = "blocked"
        /\ cn_lock.holder = t => cn_thread[t].n \in 0 .. MsgLen
    BY DEF ConsoleInv, Turns
  <2>2. CASE cn_thread'[t].at = cn_thread[t].at
    BY <1>1, <2>1, <2>2 DEF Printing, Waiting
  <2>3. CASE Waiting(cn_thread[t]) /\ cn_thread'[t].at = "woken" /\ cn_txq'.waiter = Nil
    BY <1>1, <2>1, <2>3 DEF Printing, Waiting
  <2> QED
    BY <2>2, <2>3
<1>3. Turns'
  <2>1. /\ cn_txq'.lock \in Printer \cup {Nil} /\ cn_txq'.waiter \in Printer \cup {Nil}
        /\ cn_lock'.holder = Nil => cn_lock'.depth = 0
    BY DEF ConsoleInv, Turns
  <2> QED
    BY <1>2, <2>1 DEF Turns, Printing, Waiting
<1>4. Spelled'
  <2>1. PICK n : n = IF cn_lock.holder = Nil THEN 0 ELSE cn_thread[cn_lock.holder].n
    OBVIOUS
  <2>2. Spell(Flow(cn_out, cn_txq), cn_lock.holder, n)
    BY <2>1 DEF ConsoleInv, Spelled
  <2>3. n = IF cn_lock'.holder = Nil THEN 0 ELSE cn_thread'[cn_lock'.holder].n
    <3>1. cn_lock.holder \in Printer \cup {Nil} /\ cn_lock' = cn_lock
      BY DEF ConsoleInv, ConsoleTyped
    <3>2. CASE cn_lock.holder = Nil
      BY <2>1, <3>1, <3>2
    <3>3. CASE cn_lock.holder \in Printer
      <4>1. PICK h \in Printer : h = cn_lock.holder
        BY <3>3
      <4>2. cn_thread'[h].n = cn_thread[h].n
        OBVIOUS
      <4>3. cn_lock'.holder = h /\ h # Nil
        BY <1>1, <3>1, <4>1
      <4> QED
        BY <2>1, <4>1, <4>2, <4>3
    <3> QED
      BY <3>1, <3>2, <3>3
  <2>4. Spell(Flow(cn_out', cn_txq'), cn_lock'.holder, n)
    <3>1. PICK w \in Seq(Byte) : w = Flow(cn_out, cn_txq)
      BY ConsoleFacts
    <3>2. PICK v : v = Flow(cn_out', cn_txq')
      OBVIOUS
    <3>3. PICK h : h = cn_lock.holder
      OBVIOUS
    <3>4. Spell(w, h, n) /\ cn_lock'.holder = h /\ (v = w \/ v = Append(w, <<Nil, 0>>))
      BY <2>2, <3>1, <3>2, <3>3
    <3>5. Spell(v, h, n)
      BY ONLY <3>1, <3>4, SpellUrgent
    <3> QED
      BY <3>2, <3>4, <3>5
  <2> QED
    BY <2>3, <2>4 DEF Spelled
<1> QED
  BY <1>3, <1>4 DEF ConsoleInv

LEMMA WokenFacts ==
    ASSUME NEW q \in Queue, NEW ths \in [ConsoleThread -> Thread]
    PROVE  /\ Woken(q, ths) \in [ConsoleThread -> Thread]
           /\ \A t \in ConsoleThread :
                 /\ Woken(q, ths)[t].n = ths[t].n
                 /\ t # q.waiter => Woken(q, ths)[t] = ths[t]
                 /\ t = q.waiter => Woken(q, ths)[t].at = "woken"
<1>1. ASSUME NEW t \in ConsoleThread
      PROVE  /\ Woken(q, ths)[t] \in Thread /\ Woken(q, ths)[t].n = ths[t].n
             /\ t # q.waiter => Woken(q, ths)[t] = ths[t]
             /\ t = q.waiter => Woken(q, ths)[t].at = "woken"
  <2>1. ths[t] \in Thread /\ DOMAIN ths = ConsoleThread
    OBVIOUS
  <2>2. Woken(q, ths)[t] = IF t = q.waiter THEN [ths[t] EXCEPT !.at = "woken"] ELSE ths[t]
    BY <2>1 DEF Woken
  <2> QED
    BY <2>1, <2>2 DEF Thread, CnAt
<1> QED
  BY <1>1 DEF Woken

\* Waking the waiter of the transmit queue, or the reader.
LEMMA WokenPrinters ==
    ASSUME ConsoleInv
    PROVE  /\ cn_txq.waiter \in {Nil, cn_txq.lock}
           /\ \A t \in Printer : t = cn_txq.waiter => Waiting(cn_thread[t])
           /\ cn_in.waiter \notin Printer /\ cn_txq.waiter # Reader /\ Reader \in ConsoleThread
           /\ cn_thread[Reader].at \in {"idle", "blocked", "woken", "getc"}
           /\ cn_in.waiter \in {Nil, Reader} /\ ~cn_failed /\ ConsoleTyped
           /\ cn_mode # "QUEUE" => cn_txq.head = cn_txq.tail
<1>1. Nil \notin Printer /\ Reader \notin Printer /\ Nil # Reader /\ Reader \in ConsoleThread
  BY ConsoleAssumption DEF ConsoleThread
<1>2. \A t \in Printer : t = cn_txq.waiter => Waiting(cn_thread[t]) /\ cn_txq.lock = t
  BY DEF ConsoleInv, Turns, Waiting
<1> QED
  BY <1>1, <1>2 DEF ConsoleInv, Turns

LEMMA SerialStep ==
    ASSUME ConsoleInv, serial_interrupt
    PROVE  ConsoleInv'
<1> DEFINE takes == ~intq_full(cn_in) /\ cn_port.rbr # NoByte
           sends == ~intq_empty(cn_txq) /\ cn_port.thre
           in == IF takes THEN intq_putc(cn_in, cn_port.rbr) ELSE cn_in
           txq == IF sends THEN intq_getc(cn_txq) ELSE cn_txq
           woken == IF sends THEN Woken(cn_txq, cn_thread) ELSE cn_thread
<1>1. /\ cn_mode = "QUEUE" /\ cn_in' = in /\ cn_txq' = txq
      /\ cn_out' = IF sends THEN Append(cn_out, intq_first(cn_txq)) ELSE cn_out
      /\ cn_port' = [thre |-> cn_port.thre /\ ~sends, rbr |-> IF takes THEN NoByte ELSE cn_port.rbr]
      /\ cn_thread' = IF takes THEN Woken(cn_in, woken) ELSE woken
      /\ cn_ier' = write_ier(txq, in)
      /\ UNCHANGED <<cn_lock, cn_mode, cn_count, cn_failed>>
  BY DEF serial_interrupt
<1>2. /\ cn_in \in Queue /\ cn_txq \in Queue /\ cn_out \in Seq(Byte) /\ cn_thread \in [ConsoleThread -> Thread]
      /\ cn_port \in [thre : BOOLEAN, rbr : Byte] /\ Printer \subseteq ConsoleThread /\ Nil # Reader
  BY ConsoleFacts DEF ConsoleInv, ConsoleTyped, ConsoleThread
<1>3. cn_in' \in Queue /\ cn_in'.waiter \in {Nil, Reader}
  <2>1. CASE takes
    BY <1>1, <1>2, <2>1, PutLast
  <2>2. CASE ~takes
    BY <1>1, <1>2, <2>2, WokenPrinters
  <2> QED
    BY <2>1, <2>2
<1>4. /\ cn_txq' \in Queue /\ cn_txq'.lock = cn_txq.lock /\ cn_txq'.waiter \in {Nil, cn_txq.waiter}
      /\ sends => cn_txq'.waiter = Nil
      /\ cn_out' \in Seq(Byte) /\ Flow(cn_out', cn_txq') = Flow(cn_out, cn_txq)
  <2>1. CASE sends
    <3>1. intq_first(cn_txq) \in Byte /\ intq_getc(cn_txq) \in Queue
      BY <1>2, <2>1, GetFirst
    <3>2. cn_out' = Append(cn_out, intq_first(cn_txq)) /\ cn_txq' = intq_getc(cn_txq)
      BY <1>1, <2>1
    <3>3. Flow(cn_out', cn_txq') = Flow(cn_out, cn_txq)
      BY <1>2, <2>1, <3>2, FlowGet
    <3> QED
      BY <1>2, <2>1, <3>1, <3>2, <3>3, GetFirst, AppendProperties
  <2>2. CASE ~sends
    BY <1>1, <1>2, <2>2
  <2> QED
    BY <2>1, <2>2
<1>5. /\ woken \in [ConsoleThread -> Thread]
      /\ \A t \in ConsoleThread : /\ woken[t].n = cn_thread[t].n
                                  /\ woken[t] = cn_thread[t] \/ (sends /\ t = cn_txq.waiter /\ woken[t].at = "woken")
  <2>1. CASE sends
    BY <1>2, <2>1, WokenFacts
  <2>2. CASE ~sends
    BY <1>2, <2>2
  <2> QED
    BY <2>1, <2>2
<1> HIDE DEF sends, in, txq, woken
<1>6. /\ cn_thread' \in [ConsoleThread -> Thread]
      /\ \A t \in ConsoleThread : /\ cn_thread'[t].n = woken[t].n
                                  /\ cn_thread'[t] = woken[t] \/ (t = cn_in.waiter /\ cn_thread'[t].at = "woken")
  <2>1. CASE takes
    BY <1>1, <1>2, <1>5, <2>1, WokenFacts
  <2>2. CASE ~takes
    BY <1>1, <1>5, <2>2
  <2> QED
    BY <2>1, <2>2
<1>7. ASSUME NEW t \in Printer
      PROVE  /\ cn_thread'[t].n = cn_thread[t].n
             /\ \/ cn_thread'[t].at = cn_thread[t].at
                \/ Waiting(cn_thread[t]) /\ cn_thread'[t].at = "woken" /\ cn_txq'.waiter = Nil
  BY <1>2, <1>4, <1>5, <1>6, WokenPrinters
<1>8. cn_thread'[Reader].at \in {"idle", "blocked", "woken", "getc"}
  BY <1>5, <1>6, WokenPrinters
<1>9. cn_port' \in [thre : BOOLEAN, rbr : Byte]
  BY <1>1, <1>2 DEF NoByte, Byte
<1>10. ConsoleTyped'
  BY <1>1, <1>3, <1>4, <1>6, <1>9, Registers DEF ConsoleInv, ConsoleTyped, Thread
<1> QED
  BY <1>1, <1>3, <1>4, <1>7, <1>8, <1>10, WokenPrinters, PortKeeps

LEMMA InitQueueStep ==
    ASSUME ConsoleInv, serial_init_queue
    PROVE  ConsoleInv'
<1>1. /\ cn_mode' = "QUEUE" /\ cn_ier' = write_ier(cn_txq, cn_in)
      /\ UNCHANGED <<cn_lock, cn_txq, cn_in, cn_port, cn_thread, cn_out, cn_count, cn_failed>>
  BY DEF serial_init_queue
<1>2. ConsoleTyped'
  BY <1>1, Registers DEF ConsoleInv, ConsoleTyped
<1> QED
  BY <1>1, <1>2, WokenPrinters, PortKeeps

LEMMA PortStep ==
    ASSUME ConsoleInv, port_sent \/ port_received
    PROVE  ConsoleInv'
<1>1. UNCHANGED <<cn_lock, cn_txq, cn_in, cn_mode, cn_ier, cn_thread, cn_out, cn_failed>>
  BY DEF port_sent, port_received
<1>2. ConsoleTyped'
  <2>1. CASE port_sent
    BY <1>1, <2>1 DEF port_sent, ConsoleInv, ConsoleTyped
  <2>2. CASE port_received
    <3>1. cn_count \in [prints : Nat, keys : Nat, urgent : Nat] /\ cn_port \in [thre : BOOLEAN, rbr : Byte]
      BY DEF ConsoleInv, ConsoleTyped
    <3>2. <<"key", cn_count.keys + 1>> \in Byte
      <4>1. "key" \in Printer \cup {"key", Nil} /\ cn_count.keys + 1 \in Int
        BY <3>1
      <4> QED
        BY <4>1 DEF Byte
    <3>3. cn_count' \in [prints : Nat, keys : Nat, urgent : Nat] /\ cn_port' \in [thre : BOOLEAN, rbr : Byte]
      BY <2>2, <3>1, <3>2 DEF port_received
    <3> QED
      BY <1>1, <3>3 DEF ConsoleInv, ConsoleTyped
  <2> QED
    BY <2>1, <2>2
<1> QED
  BY <1>1, <1>2, WokenPrinters, PortKeeps

\* A character printed with interrupts off finds room: it makes some when there is none.
LEMMA UrgentStep ==
    ASSUME ConsoleInv, urgent_putc
    PROVE  ConsoleInv'
<1>0. PICK q : q = IF intq_full(cn_txq) THEN intq_getc(cn_txq) ELSE cn_txq
  OBVIOUS
<1>1. /\ cn_mode = "QUEUE" /\ cn_count' = [cn_count EXCEPT !.urgent = @ + 1]
      /\ cn_port' = [cn_port EXCEPT !.thre = @ /\ ~intq_full(cn_txq)]
      /\ cn_out' = IF intq_full(cn_txq) THEN Append(cn_out, intq_first(cn_txq)) ELSE cn_out
      /\ cn_thread' = IF intq_full(cn_txq) THEN Woken(cn_txq, cn_thread) ELSE cn_thread
      /\ cn_txq' = intq_putc(q, <<Nil, 0>>) /\ cn_ier' = write_ier(cn_txq', cn_in)
      /\ UNCHANGED <<cn_lock, cn_in, cn_mode, cn_failed>>
  BY <1>0 DEF urgent_putc
<1>2. /\ cn_txq \in Queue /\ cn_out \in Seq(Byte) /\ cn_thread \in [ConsoleThread -> Thread]
      /\ cn_port \in [thre : BOOLEAN, rbr : Byte] /\ cn_count \in [prints : Nat, keys : Nat, urgent : Nat]
      /\ Printer \subseteq ConsoleThread
  BY ConsoleFacts DEF ConsoleInv, ConsoleTyped
<1>3. <<Nil, 0>> \in Byte
  BY DEF Byte
<1>4. /\ q \in Queue /\ ~intq_full(q) /\ q.lock = cn_txq.lock
      /\ cn_out' \in Seq(Byte) /\ Flow(cn_out', q) = Flow(cn_out, cn_txq)
  <2>1. CASE intq_full(cn_txq)
    <3>1. ~intq_empty(cn_txq)
      <4>1. INTQ_BUFSIZE \in Nat \ {0, 1}
        BY ConsoleAssumption
      <4> QED
        BY <1>2, <2>1, <4>1, Held
    <3>2. q = intq_getc(cn_txq) /\ cn_out' = Append(cn_out, intq_first(cn_txq))
      BY <1>0, <1>1, <2>1
    <3>3. q \in Queue /\ ~intq_full(q) /\ q.lock = cn_txq.lock /\ intq_first(cn_txq) \in Byte
      BY <1>2, <3>1, <3>2, GetFirst
    <3>4. Flow(cn_out', q) = Flow(cn_out, cn_txq)
      BY <1>2, <3>1, <3>2, FlowGet
    <3> QED
      BY <1>2, <3>2, <3>3, <3>4, AppendProperties
  <2>2. CASE ~intq_full(cn_txq)
    BY <1>0, <1>1, <1>2, <2>2
  <2> QED
    BY <2>1, <2>2
<1>5. /\ cn_txq' \in Queue /\ cn_txq'.lock = cn_txq.lock /\ cn_txq'.waiter = Nil
      /\ Flow(cn_out', cn_txq') = Append(Flow(cn_out, cn_txq), <<Nil, 0>>)
  <2>1. Flow(cn_out', intq_putc(q, <<Nil, 0>>)) = Append(Flow(cn_out', q), <<Nil, 0>>)
    BY <1>3, <1>4, FlowPut
  <2>2. /\ intq_putc(q, <<Nil, 0>>) \in Queue /\ intq_putc(q, <<Nil, 0>>).waiter = Nil
        /\ intq_putc(q, <<Nil, 0>>).lock = q.lock
    BY <1>3, <1>4, PutLast
  <2> QED
    BY <1>1, <1>4, <2>1, <2>2
<1>6. /\ cn_thread' \in [ConsoleThread -> Thread]
      /\ \A t \in ConsoleThread : /\ cn_thread'[t].n = cn_thread[t].n
                                  /\ \/ cn_thread'[t] = cn_thread[t]
                                     \/ t = cn_txq.waiter /\ cn_thread'[t].at = "woken"
  <2>1. CASE intq_full(cn_txq)
    BY <1>1, <1>2, <2>1, WokenFacts
  <2>2. CASE ~intq_full(cn_txq)
    BY <1>1, <1>2, <2>2
  <2> QED
    BY <2>1, <2>2
<1>7. ASSUME NEW t \in Printer
      PROVE  /\ cn_thread'[t].n = cn_thread[t].n
             /\ \/ cn_thread'[t].at = cn_thread[t].at
                \/ Waiting(cn_thread[t]) /\ cn_thread'[t].at = "woken" /\ cn_txq'.waiter = Nil
  BY <1>2, <1>5, <1>6, WokenPrinters
<1>8. cn_thread'[Reader].at \in {"idle", "blocked", "woken", "getc"}
  BY <1>6, WokenPrinters
<1>9. cn_port' \in [thre : BOOLEAN, rbr : Byte] /\ cn_count' \in [prints : Nat, keys : Nat, urgent : Nat]
  <2>1. cn_port' \in [thre : BOOLEAN, rbr : Byte]
    <3>1. cn_port' = [cn_port EXCEPT !.thre = @ /\ ~intq_full(cn_txq)] /\ cn_port \in [thre : BOOLEAN, rbr : Byte]
      BY <1>1, <1>2
    <3> QED
      BY ONLY <3>1
  <2>2. cn_count' \in [prints : Nat, keys : Nat, urgent : Nat]
    <3>1. /\ cn_count' = [cn_count EXCEPT !.urgent = @ + 1]
          /\ cn_count \in [prints : Nat, keys : Nat, urgent : Nat]
      BY <1>1, <1>2
    <3> QED
      BY ONLY <3>1
  <2> QED
    BY <2>1, <2>2
<1>10. ConsoleTyped'
  BY <1>1, <1>4, <1>5, <1>6, <1>9, Registers DEF ConsoleInv, ConsoleTyped, Thread
<1> QED
  BY <1>1, <1>5, <1>7, <1>8, <1>10, WokenPrinters, PortKeeps

\* The reader touches its own thread and the input buffer.
LEMMA ReaderKeeps ==
    ASSUME ConsoleInv, NEW r \in Thread, SetThread(Reader, r), r.at \in {"idle", "blocked", "getc"},
           cn_in' \in Queue, cn_in'.waiter \in {Nil, Reader}, cn_ier' \in [xmit : BOOLEAN, recv : BOOLEAN],
           UNCHANGED <<cn_lock, cn_txq, cn_mode, cn_port, cn_out, cn_count, cn_failed>>
    PROVE  ConsoleInv'
<1>1. /\ Reader \in ConsoleThread /\ Reader \notin Printer /\ Printer \subseteq ConsoleThread
      /\ cn_thread \in [ConsoleThread -> Thread]
  BY ConsoleFacts, WokenPrinters
<1>2. ConsoleTyped'
  BY <1>1, TypedStep DEF ConsoleInv, ConsoleTyped
<1>3. cn_thread'[Reader] = r /\ \A t \in Printer : cn_thread'[t] = cn_thread[t]
  BY <1>1 DEF SetThread
<1> QED
  BY <1>2, <1>3, WokenPrinters, PortKeeps

LEMMA GetcStep ==
    ASSUME ConsoleInv, input_getc
    PROVE  ConsoleInv'
<1>1. /\ cn_in \in Queue /\ Reader \in ConsoleThread /\ cn_thread[Reader] \in Thread
      /\ cn_thread \in [ConsoleThread -> Thread] /\ cn_ier \in [xmit : BOOLEAN, recv : BOOLEAN]
      /\ UNCHANGED <<cn_lock, cn_txq, cn_mode, cn_port, cn_out, cn_count, cn_failed>>
  BY ConsoleFacts, WokenPrinters DEF input_getc, ConsoleInv, ConsoleTyped
<1>2. CASE intq_empty(cn_in)
  <2>0. PICK r : r = [cn_thread[Reader] EXCEPT !.at = "blocked"]
    OBVIOUS
  <2>1. /\ cn_in' = [cn_in EXCEPT !.lock = Reader, !.waiter = Reader] /\ SetThread(Reader, r)
        /\ UNCHANGED cn_ier
    BY <1>2, <2>0 DEF input_getc, SetThread
  <2>2. r \in Thread /\ r.at = "blocked"
    BY <1>1, <2>0 DEF Thread, CnAt
  <2>3. cn_in' \in Queue /\ cn_in'.waiter = Reader
    BY <1>1, <2>1 DEF Queue
  <2> QED
    BY <1>1, <2>1, <2>2, <2>3, ReaderKeeps
<1>3. CASE ~intq_empty(cn_in)
  <2>0. PICK r : r = [at |-> "idle", n |-> intq_first(cn_in)[2]]
    OBVIOUS
  <2>1. /\ cn_in' = intq_getc(cn_in) /\ SetThread(Reader, r) /\ cn_ier' = serial_notify(cn_txq, cn_in')
    BY <1>3, <2>0 DEF input_getc, SetThread
  <2>2. r \in Thread /\ r.at = "idle"
    <3>1. intq_first(cn_in) \in Byte
      BY <1>1, <1>3, GetFirst
    <3>2. intq_first(cn_in)[2] \in Int
      BY <3>1 DEF Byte
    <3> QED
      BY <2>0, <3>2 DEF Thread, CnAt
  <2>3. cn_in' \in Queue /\ cn_in'.waiter = Nil
    BY <1>1, <1>3, <2>1, GetFirst
  <2>4. cn_ier' \in [xmit : BOOLEAN, recv : BOOLEAN]
    BY <1>1, <2>1, Registers DEF serial_notify
  <2> QED
    BY <1>1, <2>1, <2>2, <2>3, <2>4, ReaderKeeps
<1> QED
  BY <1>2, <1>3

LEMMA WokenReader ==
    ASSUME ConsoleInv, intq_woken(Reader)
    PROVE  ConsoleInv'
<1>0. PICK r : r = [cn_thread[Reader] EXCEPT !.at = "getc"]
  OBVIOUS
<1>1. /\ cn_in \in Queue /\ cn_thread[Reader] \in Thread /\ cn_ier \in [xmit : BOOLEAN, recv : BOOLEAN]
      /\ cn_in.waiter \in {Nil, Reader}
  BY ConsoleFacts, WokenPrinters DEF ConsoleInv, ConsoleTyped
<1>2. /\ cn_in' = [cn_in EXCEPT !.lock = Nil] /\ SetThread(Reader, r)
      /\ UNCHANGED <<cn_txq, cn_lock, cn_mode, cn_ier, cn_port, cn_out, cn_count, cn_failed>>
  BY <1>0 DEF intq_woken, SetThread
<1>3. r \in Thread /\ r.at = "getc"
  BY <1>0, <1>1 DEF Thread, CnAt
<1>4. cn_in' \in Queue /\ cn_in'.waiter = cn_in.waiter
  BY <1>1, <1>2 DEF Queue
<1> QED
  BY <1>1, <1>2, <1>3, <1>4, ReaderKeeps
-----------------------------------------------------------------------------
LEMMA ConsoleSteps ==
    ASSUME ConsoleInv, [ConsoleNext]_consoleVars
    PROVE  ConsoleInv'
<1>1. ASSUME NEW t \in Printer, PrinterStep(t) PROVE ConsoleInv'
  <2>1. ~intq_wait(t)
    BY DEF intq_wait, ConsoleInv, Turns
  <2> QED
    BY <1>1, <2>1, AcquireStep, ReleaseStep, PutcStep, WokenPrinter DEF PrinterStep
<1>2. ASSUME NEW t \in Printer, print(t) \/ acquire_again(t) PROVE ConsoleInv'
  BY <1>2, PrintStep, AgainStep
<1>3. CASE ConsoleProgress
  BY <1>1, <1>3, SerialStep, PortStep, InitQueueStep, GetcStep, WokenReader DEF ConsoleProgress
<1>4. CASE UNCHANGED consoleVars
  BY <1>4 DEF consoleVars, ConsoleInv, ConsoleTyped, Turns, Spelled
<1> QED
  BY <1>2, <1>3, <1>4, PortStep, UrgentStep DEF ConsoleNext

LEMMA ConsoleStarts ==
    ASSUME ConsoleInit
    PROVE  ConsoleInv
<1>1. /\ INTQ_BUFSIZE \in Nat \ {0, 1} /\ Nil \notin ConsoleThread /\ 0 \in BufPlace /\ NoByte \in Byte
      /\ Reader \notin Printer /\ Reader \in ConsoleThread /\ Printer \subseteq ConsoleThread
  BY ConsoleAssumption DEF ConsoleThread, BufPlace, NoByte, Byte
<1>2. /\ cn_lock = [holder |-> Nil, depth |-> 0]
      /\ cn_txq = intq_init /\ cn_in = intq_init /\ cn_mode = "UNINIT"
      /\ cn_ier = [xmit |-> FALSE, recv |-> FALSE] /\ cn_port = [thre |-> TRUE, rbr |-> NoByte]
      /\ cn_thread = [t \in ConsoleThread |-> [at |-> "idle", n |-> 0]]
      /\ cn_out = <<>> /\ cn_count = [prints |-> 0, keys |-> 0, urgent |-> 0] /\ cn_failed = FALSE
  BY DEF ConsoleInit, ConsoleThread
<1>3. intq_init \in Queue
  BY <1>1 DEF intq_init, Queue, BufPlace
<1>4. cn_thread \in [ConsoleThread -> Thread]
  BY <1>2 DEF Thread, CnAt
<1>5. ConsoleTyped
  BY <1>1, <1>2, <1>3, <1>4 DEF ConsoleTyped, Thread
<1>6. Turns
  <2>1. /\ \A t \in ConsoleThread : cn_thread[t].at = "idle"
        /\ cn_txq.lock = Nil /\ cn_txq.waiter = Nil /\ cn_in.waiter = Nil /\ cn_txq.head = cn_txq.tail
        /\ cn_lock.holder = Nil /\ cn_lock.depth = 0 /\ cn_failed = FALSE
    BY <1>2 DEF intq_init
  <2> QED
    BY <1>1, <2>1 DEF Turns, Printing, Waiting, ConsoleThread
<1>7. Spelled
  <2>1. Flow(cn_out, cn_txq) = <<>>
    <3>1. Contents(intq_init) \in Seq(Byte) /\ Len(Contents(intq_init)) = 0
      <4>1. intq_empty(intq_init)
        BY DEF intq_empty, intq_init
      <4> QED
        BY <1>3, <4>1, Held
    <3>2. Contents(cn_txq) = <<>>
      BY <1>2, <3>1
    <3> QED
      BY <1>2, <3>2 DEF Flow
  <2>2. Messages(<<>>) = <<>>
    <3>1. PICK w \in Seq(Byte) : w = <<>>
      <4>1. <<>> \in Seq(Byte)
        OBVIOUS
      <4> QED
        BY <4>1
    <3>2. PICK m \in Seq(Byte) : m = Messages(w)
      BY <3>1, MessagesType
    <3>3. \A i \in 1 .. Len(m) : \E j \in 1 .. Len(w) : m[i] = w[j]
      <4>1. \A I : \A i \in 1 .. Len(Chosen(w, I)) : \E j \in 1 .. Len(w) : Chosen(w, I)[i] = w[j]
        BY ChosenFrom
      <4> QED
        BY <3>2, <4>1 DEF Messages
    <3>4. Len(m) = 0
      <4>1. Len(w) = 0 /\ Len(m) \in Nat
        BY <3>1
      <4> QED
        BY <3>3, <4>1
    <3> QED
      BY <3>1, <3>2, <3>4
  <2>3. Spell(<<>>, Nil, 0)
    BY <2>2 DEF Spell, Whole, EndsWith
  <2> QED
    BY <1>2, <2>1, <2>3 DEF Spelled
<1> QED
  BY <1>5, <1>6, <1>7 DEF ConsoleInv

LEMMA ConsoleSafe ==
    ASSUME ConsoleInv
    PROVE  ConsoleSound
<1>1. ConsoleTypeOK
  BY DEF ConsoleInv, ConsoleTyped, ConsoleTypeOK, Queue, BufPlace, CnAt, ConsoleThread
<1>2. Whole(Messages(Flow(cn_out, cn_txq))) /\ ~cn_failed
  BY DEF ConsoleInv, Spelled, Spell, Turns
<1> QED
  BY <1>1, <1>2 DEF ConsoleSound, Whole, Messages, Flow

\* Whatever the threads and the port do, what was sent and what waits in the
\* transmit queue are whole messages one after the other (characters printed with
\* interrupts off aside), and no ASSERT of intq.c fails: the console lock lets one
\* thread print, so none comes back from the lock of the queue to find room.
THEOREM ConsoleKeepsMessagesWhole == ConsoleSpec => []ConsoleSound
<1>1. ConsoleInit => ConsoleInv
  BY ConsoleStarts
<1>2. ConsoleInv /\ [ConsoleNext]_consoleVars => ConsoleInv'
  BY ConsoleSteps
<1>3. ConsoleInv => ConsoleSound
  BY ConsoleSafe
<1> QED
  BY <1>1, <1>2, <1>3, PTL DEF ConsoleSpec
-----------------------------------------------------------------------------
(***************************************************************************)
(* The client framework.                                                   *)
(***************************************************************************)

Piece == [by : PtThread, what : Negotiation \cup {"head", "body", "command"}]

\* What the server must be able to read, of the pieces w.
Framed(w) ==
    \A k \in DOMAIN w :
        /\ w[k].what = "body" => k > 1 /\ w[k - 1] = [w[k] EXCEPT !.what = "head"]
        /\ w[k].what = "head" /\ k < Len(w) => w[k + 1] = [w[k] EXCEPT !.what = "body"]
        /\ w[k].what \in {"head", "command"} => \E j \in 1 .. k - 1 : w[j].what = "start"

Started(w) == \E j \in 1 .. Len(w) : w[j].what = "start"
EndsInHead(w) == Len(w) > 0 /\ w[Len(w)].what = "head"

\* One more piece.
LEMMA FramedAppend ==
    ASSUME NEW w \in Seq(Piece), Framed(w), NEW p \in Piece,
           p.what = "body" => Len(w) > 0 /\ w[Len(w)] = [p EXCEPT !.what = "head"],
           EndsInHead(w) => p = [w[Len(w)] EXCEPT !.what = "body"],
           p.what \in {"head", "command"} => Started(w)
    PROVE  Framed(Append(w, p))
<1> DEFINE n == Len(w)
           a == Append(w, p)
<1>1. /\ n \in Nat /\ Len(a) = n + 1 /\ DOMAIN a = 1 .. n + 1 /\ DOMAIN w = 1 .. n
      /\ a[n + 1] = p /\ \A k \in 1 .. n : a[k] = w[k]
  OBVIOUS
<1> HIDE DEF a
<1> SUFFICES ASSUME NEW k \in 1 .. n + 1
             PROVE  /\ a[k].what = "body" => k > 1 /\ a[k - 1] = [a[k] EXCEPT !.what = "head"]
                    /\ a[k].what = "head" /\ k < Len(a) => a[k + 1] = [a[k] EXCEPT !.what = "body"]
                    /\ a[k].what \in {"head", "command"} => \E j \in 1 .. k - 1 : a[j].what = "start"
  BY <1>1 DEF Framed, a
<1>2. CASE k = n + 1
  <2>1. a[k] = p /\ ~ (k < Len(a)) /\ k - 1 = n
    BY <1>1, <1>2
  <2>2. p.what = "body" => k > 1 /\ a[k - 1] = [p EXCEPT !.what = "head"]
    BY <1>1, <1>2
  <2>3. p.what \in {"head", "command"} => \E j \in 1 .. k - 1 : a[j].what = "start"
    BY <1>1, <1>2, <2>1 DEF Started
  <2> QED
    BY <2>1, <2>2, <2>3
<1>3. CASE k \in 1 .. n
  <2>1. /\ w[k].what = "body" => k > 1 /\ w[k - 1] = [w[k] EXCEPT !.what = "head"]
        /\ w[k].what = "head" /\ k < Len(w) => w[k + 1] = [w[k] EXCEPT !.what = "body"]
        /\ w[k].what \in {"head", "command"} => \E j \in 1 .. k - 1 : w[j].what = "start"
    BY <1>1, <1>3 DEF Framed
  <2>2. a[k] = w[k] /\ \A j \in 1 .. k - 1 : a[j] = w[j]
    BY <1>1, <1>3
  <2>3. a[k].what = "body" => k > 1 /\ a[k - 1] = [a[k] EXCEPT !.what = "head"]
    BY <1>3, <2>1, <2>2
  <2>4. a[k].what = "head" => a[k + 1] = [a[k] EXCEPT !.what = "body"]
    <3>1. CASE k < n
      BY <1>1, <1>3, <2>1, <2>2, <3>1
    <3>2. CASE k = n
      BY <1>1, <1>3, <2>2, <3>2 DEF EndsInHead
    <3> QED
      BY <1>1, <1>3, <3>1, <3>2
  <2> QED
    BY <2>1, <2>2, <2>3, <2>4
<1> QED
  BY <1>1, <1>2, <1>3

LEMMA StartedAppend ==
    ASSUME NEW w \in Seq(Piece), NEW p \in Piece
    PROVE  /\ Started(w) => Started(Append(w, p))
           /\ p.what = "start" => Started(Append(w, p))
           /\ Append(w, p) \in Seq(Piece) /\ Len(Append(w, p)) = Len(w) + 1
           /\ Len(Append(w, p)) > 0 /\ Append(w, p)[Len(Append(w, p))] = p
<1> DEFINE a == Append(w, p)
<1>1. /\ Len(w) \in Nat /\ a \in Seq(Piece) /\ Len(a) = Len(w) + 1 /\ a[Len(w) + 1] = p
      /\ \A k \in 1 .. Len(w) : a[k] = w[k]
  OBVIOUS
<1> HIDE DEF a
<1>2. Started(w) => Started(a)
  BY <1>1 DEF Started
<1>3. p.what = "start" => Started(a)
  BY <1>1 DEF Started
<1>4. Len(a) > 0 /\ a[Len(a)] = p
  BY <1>1
<1> QED
  BY <1>1, <1>2, <1>3, <1>4 DEF a

Live == pt_main \notin {"givenup", "exit"}
Recovering == {"reconnect", "retalk", "resumed", "failed"}
Starting == {"args", "connect", "talk", "started"}

\* Who sends holds the mutex, and so does the main thread while it recovers.
SenderInv ==
    /\ \A t \in PtThread : pt_sending[t] # "idle" => pt_mutex = t
    /\ pt_sending["main"] # "idle" => pt_main = "frame"
    /\ pt_main \in Recovering => pt_mutex = "main"
    /\ pt_main \in Starting => pt_sim = "none" /\ pt_sending["sim"] = "idle"

\* Negotiations end with the start of the simulation.
StepsInv ==
    pt_main \in {"talk", "retalk"} =>
        pt_steps \in Seq(Negotiation) /\ Len(pt_steps) > 0 /\ pt_steps[Len(pt_steps)] = "start"

\* The last piece is a header exactly while its sender is about to send the data,
\* unless the connection is lost.
HalfInv ==
    /\ \A t \in PtThread : pt_sending[t] = "half" =>
          Len(pt_wire) > 0 /\ pt_wire[Len(pt_wire)] = [by |-> t, what |-> "head"]
    /\ pt_up /\ EndsInHead(pt_wire) => pt_sending[pt_wire[Len(pt_wire)].by] = "half"

StartInv ==
    pt_main \in {"started", "wait", "asleep", "loop", "frame", "broken", "resumed"} => Started(pt_wire)

PartovInv ==
    /\ PartovTypeOK /\ pt_wire \in Seq(Piece)
    /\ Live => SenderInv /\ StepsInv /\ HalfInv /\ StartInv /\ Framed(pt_wire)

\* A step of the main thread that sends nothing and starts no recovery.
LEMMA MainMove ==
    ASSUME PartovInv, Live, UNCHANGED <<pt_sending, pt_up, pt_wire, pt_connects>>,
           PartovTypeOK', pt_main' \in {"exit", "connect", "wait", "asleep", "loop", "frame", "broken"},
           UNCHANGED pt_mutex, pt_sending["main"] = "idle" \/ pt_main' = "exit",
           pt_main' \notin {"exit", "connect"} =>
               pt_main \in {"started", "wait", "asleep", "loop", "frame", "broken", "resumed"},
           pt_main' = "connect" => pt_main = "args" /\ pt_sim' = pt_sim
    PROVE  PartovInv'
<1>1. CASE pt_main' = "exit"
  BY <1>1 DEF PartovInv, Live
<1>2. CASE pt_main' # "exit"
  <2>1. SenderInv'
    BY <1>2 DEF PartovInv, SenderInv, Recovering, Starting
  <2>2. StepsInv' /\ HalfInv' /\ StartInv'
    BY <1>2 DEF PartovInv, StepsInv, HalfInv, StartInv
  <2> QED
    BY <2>1, <2>2 DEF PartovInv
<1> QED
  BY <1>1, <1>2

\* The types, for a step that leaves the wire or puts one piece on it.
LEMMA WireTyped ==
    ASSUME pt_wire' \in Seq(Piece)
    PROVE  \A k \in DOMAIN pt_wire' :
               pt_wire'[k] \in [by : PtThread, what : Negotiation \cup {"head", "body", "command"}]
<1>1. \A k \in DOMAIN pt_wire' : pt_wire'[k] \in Piece
  OBVIOUS
<1> QED
  BY <1>1 DEF Piece

LEMMA LastPiece ==
    ASSUME NEW w \in Seq(Piece), Len(w) > 0
    PROVE  w[Len(w)] \in Piece /\ w[Len(w)].by \in PtThread
<1>1. w[Len(w)] \in Piece
  OBVIOUS
<1> QED
  BY <1>1 DEF Piece

LEMMA ConnectStep ==
    ASSUME PartovInv, NEW ok \in BOOLEAN, connectToServer(ok)
    PROVE  PartovInv'
<1>1. /\ pt_main \in {"connect", "reconnect"} /\ pt_connects < MaxConnects
      /\ pt_up' = ok /\ pt_wire' = <<>> /\ pt_connects' = pt_connects + 1
      /\ pt_steps' = (IF pt_main = "connect" THEN First ELSE Recovery)
      /\ pt_main' \in {"talk", "retalk", "exit", "failed"}
      /\ pt_main' \in {"talk", "exit"} <=> pt_main = "connect"
      /\ UNCHANGED <<pt_sim, pt_sending, pt_mutex, pt_initialized, pt_needNewMap>>
  BY DEF connectToServer, threads
<1>2. pt_wire' \in Seq(Piece) /\ Len(pt_wire') = 0
  BY <1>1
<1>3. PartovTypeOK'
  <2>1. pt_connects' \in 0 .. MaxConnects
    BY <1>1, PartovAssumption DEF PartovInv, PartovTypeOK
  <2> QED
    BY <1>1, <1>2, <2>1, WireTyped DEF PartovInv, PartovTypeOK
<1>4. Live /\ SenderInv
  BY <1>1 DEF PartovInv, Live
<1>5. SenderInv'
  BY <1>1, <1>4 DEF SenderInv, Recovering, Starting
<1>6. StepsInv'
  <2>1. /\ First \in Seq(Negotiation) /\ Len(First) > 0 /\ First[Len(First)] = "start"
        /\ Recovery \in Seq(Negotiation) /\ Len(Recovery) > 0 /\ Recovery[Len(Recovery)] = "start"
    BY DEF First, Recovery, Negotiation
  <2>2. /\ pt_steps' \in Seq(Negotiation) /\ Len(pt_steps') > 0
        /\ pt_steps'[Len(pt_steps')] = "start"
    <3>1. CASE pt_steps' = First
      BY <2>1, <3>1
    <3>2. CASE pt_steps' = Recovery
      BY <2>1, <3>2
    <3> QED
      BY <1>1, <3>1, <3>2
  <2> QED
    BY <2>2 DEF StepsInv
<1>7. \A t \in PtThread : pt_sending[t] = "idle"
  BY <1>1, <1>4 DEF SenderInv, Recovering, Starting, PtThread
<1>8. HalfInv' /\ Framed(pt_wire')
  BY <1>1, <1>2, <1>7 DEF HalfInv, EndsInHead, Framed
<1>9. StartInv'
  BY <1>1 DEF StartInv
<1> QED
  BY <1>2, <1>3, <1>5, <1>6, <1>8, <1>9 DEF PartovInv

LEMMA NegotiateStep ==
    ASSUME PartovInv, NEW reply, negotiate(reply)
    PROVE  PartovInv'
<1> DEFINE p == [by |-> "main", what |-> Head(pt_steps)]
           n == Len(pt_steps)
<1>1. /\ pt_main \in {"talk", "retalk"} /\ pt_steps' = Tail(pt_steps)
      /\ UNCHANGED <<pt_sim, pt_sending, pt_mutex, pt_initialized, pt_up, pt_connects, pt_needNewMap>>
  BY DEF negotiate, threads
<1>2. Live /\ SenderInv /\ StepsInv /\ HalfInv /\ Framed(pt_wire) /\ pt_wire \in Seq(Piece)
  BY <1>1 DEF PartovInv, Live
<1>3. pt_steps \in Seq(Negotiation) /\ n \in Nat /\ n > 0 /\ pt_steps[n] = "start"
  BY <1>1, <1>2 DEF StepsInv
<1>4. p \in Piece /\ p.by = "main" /\ p.what \in Negotiation /\ p.what = pt_steps[1]
  BY <1>3 DEF Piece, PtThread
<1> HIDE DEF p
<1>5. /\ pt_main' \in {"exit", pt_main, "started", "resumed", "failed"}
      /\ pt_main' = "started" => pt_main = "talk"
      /\ pt_main' = "failed" => pt_main = "retalk"
      /\ pt_main' = "resumed" => pt_main = "retalk"
      /\ pt_main' = pt_main => n > 1
      /\ pt_main' \in {"started", "resumed"} => reply = "done" /\ ~ (n > 1)
  <2>1. CASE reply \in {"closed", "no node"}
    BY <1>1, <2>1 DEF negotiate
  <2>2. CASE reply = "done" /\ n > 1
    <3>1. pt_main' = pt_main
      BY <1>3, <2>2 DEF negotiate
    <3> QED
      BY <1>1, <2>2, <3>1
  <2>3. CASE reply = "done" /\ ~ (n > 1)
    <3>1. pt_main' = IF pt_main = "talk" THEN "started" ELSE "resumed"
      BY <2>3 DEF negotiate
    <3> QED
      BY <1>1, <2>3, <3>1
  <2>4. CASE reply \notin {"closed", "no node", "done"}
    <3>1. pt_main' = IF pt_main = "talk" THEN "exit" ELSE "failed"
      BY <2>4 DEF negotiate
    <3> QED
      BY <1>1, <3>1
  <2> QED
    BY <2>1, <2>2, <2>3, <2>4
<1>6. \/ pt_wire' = pt_wire /\ reply # "done"
      \/ pt_up /\ pt_wire' = Append(pt_wire, p)
  <2>1. CASE reply \in Unsent \cup sendOrReceive
    BY <2>1 DEF negotiate, Unsent, sendOrReceive
  <2>2. CASE reply \notin Unsent \cup sendOrReceive
    BY <2>2 DEF negotiate, Put, p
  <2> QED
    BY <2>1, <2>2
<1>7. \A t \in PtThread : pt_sending[t] = "idle"
  BY <1>1, <1>2 DEF SenderInv, Recovering, Starting, PtThread
<1>8. /\ pt_wire' \in Seq(Piece) /\ Framed(pt_wire') /\ ~ (pt_up /\ EndsInHead(pt_wire'))
      /\ pt_main' \in {"started", "resumed"} => Started(pt_wire')
  <2>1. CASE pt_wire' = pt_wire /\ reply # "done"
    <3>1. ~ (pt_up /\ EndsInHead(pt_wire))
      <4>1. EndsInHead(pt_wire) => pt_wire[Len(pt_wire)].by \in PtThread
        BY <1>2, LastPiece DEF EndsInHead
      <4> QED
        BY <1>2, <1>7, <4>1 DEF HalfInv
    <3> QED
      BY <1>2, <1>5, <2>1, <3>1
  <2>2. CASE pt_up /\ pt_wire' = Append(pt_wire, p)
    <3>1. ~ EndsInHead(pt_wire)
      <4>1. EndsInHead(pt_wire) => pt_wire[Len(pt_wire)].by \in PtThread
        BY <1>2, LastPiece DEF EndsInHead
      <4> QED
        BY <1>2, <1>7, <2>2, <4>1 DEF HalfInv
    <3>2. p.what \notin {"head", "body", "command"}
      BY <1>4 DEF Negotiation
    <3>3. Framed(pt_wire')
      BY <1>2, <1>4, <2>2, <3>1, <3>2, FramedAppend
    <3>4. pt_main' \in {"started", "resumed"} => p.what = "start"
      BY <1>3, <1>4, <1>5
    <3> QED
      BY <1>2, <1>4, <2>2, <3>2, <3>3, <3>4, StartedAppend DEF EndsInHead
  <2> QED
    BY <1>6, <2>1, <2>2
<1>9. PartovTypeOK'
  BY <1>1, <1>5, <1>8, WireTyped DEF PartovInv, PartovTypeOK
<1>10. SenderInv'
  BY <1>1, <1>2, <1>5, <1>7 DEF SenderInv, Recovering, Starting
<1>11. StepsInv'
  <2>1. CASE pt_main' = pt_main
    BY <1>1, <1>3, <1>5, <2>1 DEF StepsInv
  <2>2. CASE pt_main' # pt_main
    BY <1>1, <1>5, <2>2 DEF StepsInv
  <2> QED
    BY <2>1, <2>2
<1>12. HalfInv' /\ StartInv'
  BY <1>1, <1>5, <1>7, <1>8 DEF HalfInv, StartInv
<1> QED
  BY <1>8, <1>9, <1>10, <1>11, <1>12 DEF PartovInv

LEMMA RecoveryStep ==
    ASSUME PartovInv, recoverSimulation \/ recovered
    PROVE  PartovInv'
<1>1. CASE recoverSimulation
  <2>1. /\ pt_main = "broken" /\ pt_mutex = "none" /\ pt_mutex' = "main" /\ pt_main' = "reconnect"
        /\ pt_needNewMap' = 0 /\ pt_up' = FALSE
        /\ UNCHANGED <<pt_steps, pt_sim, pt_sending, pt_initialized, pt_wire, pt_connects>>
    BY <1>1 DEF recoverSimulation
  <2>2. PartovTypeOK'
    <3>1. pt_mutex' \in PtThread \cup {"none"} /\ pt_needNewMap' \in -1 .. 1
      BY <2>1 DEF PtThread
    <3>2. pt_up' \in BOOLEAN
      BY <2>1
    <3> QED
      BY <2>1, <3>1, <3>2 DEF PartovInv, PartovTypeOK
  <2>3. Live /\ SenderInv /\ HalfInv
    BY <2>1 DEF PartovInv, Live
  <2>4. SenderInv' /\ StepsInv' /\ HalfInv' /\ StartInv'
    BY <2>1, <2>3 DEF SenderInv, StepsInv, HalfInv, StartInv, Recovering, Starting, PtThread
  <2> QED
    BY <2>1, <2>2, <2>3, <2>4 DEF PartovInv
<1>2. CASE recovered
  <2>1. /\ pt_main \in {"resumed", "failed"} /\ pt_mutex' = "none"
        /\ pt_main' = (IF pt_main = "resumed" THEN "loop" ELSE "givenup")
        /\ UNCHANGED <<pt_steps, pt_sim, pt_sending, pt_initialized, pt_needNewMap>>
        /\ UNCHANGED <<pt_up, pt_wire, pt_connects>>
    BY <1>2 DEF recovered, line
  <2>2. PartovTypeOK'
    BY <2>1 DEF PartovInv, PartovTypeOK, PtThread
  <2>3. Live /\ SenderInv /\ HalfInv /\ StartInv
    BY <2>1 DEF PartovInv, Live
  <2>4. CASE pt_main' = "loop"
    <3>1. SenderInv'
      BY <2>1, <2>3, <2>4 DEF SenderInv, Recovering, Starting, PtThread
    <3>2. StepsInv' /\ HalfInv' /\ StartInv'
      BY <2>1, <2>3, <2>4 DEF StepsInv, HalfInv, StartInv
    <3> QED
      BY <2>1, <2>2, <2>3, <3>1, <3>2 DEF PartovInv
  <2>5. CASE pt_main' = "givenup"
    BY <2>1, <2>2, <2>5 DEF PartovInv, Live
  <2> QED
    BY <2>1, <2>4, <2>5
<1> QED
  BY <1>1, <1>2

LEMMA OtherMainStep ==
    ASSUME PartovInv,
           \/ \E mark \in Marks, new \in -1 .. 1 : parseArguments(mark, new)
           \/ \E ok \in BOOLEAN : simulateMachine(ok)
           \/ await \/ processed \/ systemInterrupt
           \/ \E what \in {"frame", "warning", "closed", "error"} : receive(what)
    PROVE  PartovInv'
<1> DEFINE Left == UNCHANGED <<pt_sending, pt_mutex, pt_initialized, pt_up, pt_wire, pt_connects>>
<1>1. PartovTypeOK /\ (Live => SenderInv)
  BY DEF PartovInv
<1>2. ASSUME NEW mark \in Marks, NEW new \in -1 .. 1, parseArguments(mark, new)
      PROVE  PartovInv'
  <2>1. /\ pt_main = "args" /\ pt_main' \in {"connect", "exit"} /\ UNCHANGED pt_sim /\ Left
        /\ pt_needNewMap' \in {new, pt_needNewMap}
    BY <1>2 DEF parseArguments, threads, line
  <2>2. PartovTypeOK'
    <3>1. pt_needNewMap' \in -1 .. 1
      BY <1>1, <2>1 DEF PartovTypeOK
    <3> QED
      BY <1>1, <2>1, <3>1 DEF PartovTypeOK
  <2>3. Live /\ pt_sending["main"] = "idle"
    BY <1>1, <2>1 DEF Live, SenderInv
  <2> QED
    BY <2>1, <2>2, <2>3, MainMove
<1>3. ASSUME NEW ok \in BOOLEAN, simulateMachine(ok)
      PROVE  PartovInv'
  <2>1. /\ pt_main = "started" /\ pt_main' \in {"wait", "exit"} /\ pt_sim' \in {pt_sim, "initialize"}
        /\ Left /\ pt_needNewMap' = pt_needNewMap
    BY <1>3 DEF simulateMachine, line
  <2>2. PartovTypeOK'
    BY <1>1, <2>1 DEF PartovTypeOK
  <2>3. Live /\ pt_sending["main"] = "idle"
    BY <1>1, <2>1 DEF Live, SenderInv
  <2> QED
    BY <2>1, <2>2, <2>3, MainMove
<1>4. CASE await \/ processed \/ systemInterrupt
  <2>1. /\ pt_main \in {"wait", "asleep", "loop", "frame", "givenup"}
        /\ pt_main' \in {"loop", "asleep", "exit"}
        /\ pt_main' # "exit" => pt_main \in {"wait", "frame"}
        /\ pt_main' # "exit" /\ pt_main = "frame" => pt_sending["main"] = "idle"
        /\ UNCHANGED <<pt_sim, pt_needNewMap>> /\ Left
    BY <1>4 DEF await, processed, systemInterrupt, threads, line
  <2>2. PartovTypeOK'
    BY <1>1, <2>1 DEF PartovTypeOK
  <2>3. CASE Live
    <3>1. pt_sending["main"] = "idle" \/ pt_main' = "exit"
      BY <1>1, <2>1, <2>3 DEF SenderInv
    <3> QED
      BY <2>1, <2>2, <2>3, <3>1, MainMove
  <2>4. CASE ~ Live
    <3>1. pt_main' = "exit"
      BY <2>1, <2>4 DEF Live
    <3> QED
      BY <2>1, <2>2, <3>1 DEF PartovInv, Live
  <2> QED
    BY <2>3, <2>4
<1>5. ASSUME NEW what \in {"frame", "warning", "closed", "error"}, receive(what)
      PROVE  PartovInv'
  <2>1. /\ pt_main = "loop" /\ pt_sending["main"] = "idle"
        /\ UNCHANGED <<pt_sim, pt_needNewMap>> /\ Left
    BY <1>5 DEF receive, threads, line
  <2>2. pt_main' \in {"frame", "loop", "exit", "broken"}
    BY <1>5 DEF receive
  <2>3. PartovTypeOK'
    BY <1>1, <2>1, <2>2 DEF PartovTypeOK
  <2>4. Live
    BY <2>1 DEF Live
  <2> QED
    BY <2>1, <2>2, <2>3, <2>4, MainMove
<1> QED
  BY <1>2, <1>3, <1>4, <1>5

LEMMA SimulatorStep ==
    ASSUME PartovInv, SimStep
    PROVE  PartovInv'
<1>1. /\ pt_sim' \in {"signal", "run"} /\ pt_sim # "none"
      /\ pt_main' \in {pt_main, "wait"}
      /\ pt_main' # pt_main => pt_main = "asleep"
      /\ pt_initialized' \in {TRUE, pt_initialized}
      /\ UNCHANGED <<pt_steps, pt_sending, pt_mutex, pt_up, pt_wire, pt_connects, pt_needNewMap>>
  <2>1. CASE st_run_initialized
    BY <2>1 DEF st_run_initialized, line
  <2>2. CASE st_run_signal
    BY <2>2 DEF st_run_signal, line
  <2> QED
    BY <2>1, <2>2 DEF SimStep
<1>2. PartovTypeOK'
  <2>1. pt_initialized' \in BOOLEAN
    BY <1>1 DEF PartovInv, PartovTypeOK
  <2> QED
    BY <1>1, <2>1 DEF PartovInv, PartovTypeOK
<1>3. CASE Live
  <2>1. SenderInv /\ StepsInv /\ HalfInv /\ StartInv /\ Framed(pt_wire)
    BY <1>3 DEF PartovInv
  <2>2. SenderInv'
    <3>1. pt_main \notin Starting /\ pt_main' \notin Starting
      BY <1>1, <2>1 DEF SenderInv, Starting
    <3>2. pt_main' \in Recovering => pt_main \in Recovering
      BY <1>1 DEF Recovering
    <3>3. pt_main = "frame" => pt_main' = "frame"
      BY <1>1
    <3> QED
      BY <1>1, <2>1, <3>1, <3>2, <3>3 DEF SenderInv
  <2>3. StepsInv' /\ HalfInv' /\ StartInv'
    BY <1>1, <2>1 DEF StepsInv, HalfInv, StartInv
  <2> QED
    BY <1>1, <1>2, <2>1, <2>2, <2>3 DEF PartovInv
<1>4. CASE ~ Live
  BY <1>1, <1>2, <1>4 DEF PartovInv, Live
<1> QED
  BY <1>3, <1>4

\* Sending: the sender holds the mutex, so nobody else sends, and the main thread
\* neither negotiates nor recovers.
LEMMA SenderFacts ==
    ASSUME PartovInv, NEW t \in PtThread, MaySend(t), Live, pt_sending[t] # "idle"
    PROVE  /\ \A u \in PtThread : u # t => pt_sending[u] = "idle"
           /\ pt_mutex = t /\ pt_main \notin Recovering \cup Starting /\ Started(pt_wire)
           /\ pt_up /\ EndsInHead(pt_wire) =>
                 pt_sending[t] = "half" /\ pt_wire[Len(pt_wire)] = [by |-> t, what |-> "head"]
<1>1. PartovTypeOK /\ pt_wire \in Seq(Piece) /\ SenderInv /\ HalfInv /\ StartInv
  BY DEF PartovInv
<1>2. pt_mutex = t /\ \A u \in PtThread : u # t => pt_sending[u] = "idle"
  BY <1>1 DEF SenderInv
<1>3. pt_main \notin Recovering \cup Starting
  <2>1. CASE t = "main"
    BY <2>1 DEF MaySend, Recovering, Starting
  <2>2. CASE t = "sim"
    BY <1>1, <1>2, <2>2 DEF MaySend, SenderInv
  <2> QED
    BY <2>1, <2>2 DEF PtThread
<1>4. Started(pt_wire)
  <2>1. pt_main \in {"wait", "asleep", "loop", "frame", "broken"}
    BY <1>1, <1>3 DEF PartovTypeOK, Live, Recovering, Starting
  <2> QED
    BY <1>1, <2>1 DEF StartInv
<1>5. ASSUME pt_up, EndsInHead(pt_wire)
      PROVE  pt_sending[t] = "half" /\ pt_wire[Len(pt_wire)] = [by |-> t, what |-> "head"]
  <2>1. pt_sending[pt_wire[Len(pt_wire)].by] = "half"
    BY <1>1, <1>5 DEF HalfInv
  <2>2. pt_wire[Len(pt_wire)].by \in PtThread
    BY <1>1, <1>5, LastPiece DEF EndsInHead
  <2>3. pt_wire[Len(pt_wire)].by = t
    BY <1>2, <2>1, <2>2
  <2> QED
    BY <1>1, <2>1, <2>3 DEF HalfInv
<1> QED
  BY <1>2, <1>3, <1>4, <1>5

\* What is left of the invariant when only the sender's progress, the mutex, the
\* line and the wire change.
LEMMA SendKeeps ==
    ASSUME PartovInv, PartovTypeOK', NEW t \in PtThread,
           UNCHANGED <<pt_main, pt_steps, pt_sim>>,
           pt_wire' \in Seq(Piece), Live => HalfInv' /\ Framed(pt_wire'),
           Live /\ Started(pt_wire) => Started(pt_wire'),
           Live => /\ \A u \in PtThread : u # t => pt_sending[u] = "idle" /\ pt_sending'[u] = "idle"
                   /\ pt_main \notin Recovering \cup Starting
                   /\ t = "main" => pt_main = "frame"
                   /\ pt_sending'[t] # "idle" => pt_mutex' = t
    PROVE  PartovInv'
<1>1. CASE Live
  <2>1. SenderInv /\ StepsInv /\ StartInv
    BY <1>1 DEF PartovInv
  <2>2. SenderInv'
    BY <1>1, <2>1 DEF SenderInv, PtThread
  <2>3. StepsInv' /\ StartInv'
    BY <1>1, <2>1 DEF StepsInv, StartInv
  <2> QED
    BY <1>1, <2>2, <2>3 DEF PartovInv
<1>2. CASE ~ Live
  BY <1>2 DEF PartovInv, Live
<1> QED
  BY <1>1, <1>2

LEMMA BeginSend ==
    ASSUME PartovInv, NEW t \in PtThread, begin_send(t)
    PROVE  PartovInv'
<1>1. PartovTypeOK /\ pt_wire \in Seq(Piece)
  BY DEF PartovInv
<1>2. /\ MaySend(t) /\ pt_sending[t] = "idle" /\ pt_mutex = "none" /\ pt_mutex' = t
      /\ UNCHANGED <<pt_main, pt_steps, pt_sim, pt_initialized, pt_up, pt_wire, pt_connects,
                     pt_needNewMap>>
  BY DEF begin_send, locks, line
<1>3. /\ pt_sending' \in [PtThread -> {"idle", "locked", "half"}] /\ pt_sending'[t] = "locked"
      /\ \A u \in PtThread : u # t => pt_sending'[u] = pt_sending[u]
  BY <1>1 DEF begin_send, PartovTypeOK
<1>4. PartovTypeOK'
  BY <1>1, <1>2, <1>3 DEF PartovTypeOK
<1>5. ASSUME Live
      PROVE  /\ \A u \in PtThread : pt_sending[u] = "idle"
             /\ pt_main \notin Recovering \cup Starting /\ (t = "main" => pt_main = "frame")
             /\ HalfInv' /\ Framed(pt_wire')
  <2>1. SenderInv /\ HalfInv /\ Framed(pt_wire)
    BY <1>5 DEF PartovInv
  <2>2. \A u \in PtThread : pt_sending[u] = "idle"
    BY <1>2, <2>1 DEF SenderInv, PtThread
  <2>3. pt_main \notin Recovering
    BY <1>2, <2>1 DEF SenderInv
  <2>4. pt_main \notin Starting /\ (t = "main" => pt_main = "frame")
    <3>1. CASE t = "main"
      BY <1>2, <3>1 DEF MaySend, Starting
    <3>2. CASE t = "sim"
      BY <1>2, <2>1, <3>2 DEF MaySend, SenderInv
    <3> QED
      BY <3>1, <3>2 DEF PtThread
  <2>5. ~ (pt_up /\ EndsInHead(pt_wire))
    <3>1. EndsInHead(pt_wire) => pt_wire[Len(pt_wire)].by \in PtThread
      BY <1>1, LastPiece DEF EndsInHead
    <3> QED
      BY <2>1, <2>2, <3>1 DEF HalfInv
  <2>6. \A u \in PtThread : pt_sending'[u] # "half"
    BY <1>3, <2>2
  <2>7. HalfInv'
    BY <1>2, <2>5, <2>6 DEF HalfInv
  <2> QED
    BY <1>2, <2>1, <2>2, <2>3, <2>4, <2>7
<1> QED
  BY <1>1, <1>2, <1>3, <1>4, <1>5, SendKeeps

\* A sender gives up its turn: the mutex is free again and it is idle.
LEMMA EndsSend ==
    ASSUME PartovTypeOK, NEW t \in PtThread, ends_send(t)
    PROVE  /\ pt_sending' \in [PtThread -> {"idle", "locked", "half"}] /\ pt_sending'[t] = "idle"
           /\ \A u \in PtThread : u # t => pt_sending'[u] = pt_sending[u]
           /\ pt_mutex' \in PtThread \cup {"none"}
  BY DEF ends_send, unlocks, PartovTypeOK

\* One piece sent by the holder of the mutex, or a failure on a lost connection.
LEMMA PieceSent ==
    ASSUME PartovInv, NEW t \in PtThread, realSendFrame(t, TRUE) \/ real_command(t)
    PROVE  PartovInv'
<1>1. PartovTypeOK /\ pt_wire \in Seq(Piece)
  BY DEF PartovInv
<1>2. /\ MaySend(t) /\ pt_sending[t] \in {"locked", "half"} /\ pt_up
      /\ UNCHANGED <<pt_main, pt_steps, pt_sim, pt_initialized, pt_up, pt_connects, pt_needNewMap>>
  BY DEF realSendFrame, real_command
<1>3. PICK p \in Piece :
          /\ pt_wire' = Append(pt_wire, p) /\ p.by = t
          /\ \/ p.what = "command" /\ pt_sending[t] = "locked" /\ ends_send(t)
             \/ /\ p.what = "head" /\ pt_sending[t] = "locked"
                /\ pt_sending' = [pt_sending EXCEPT ![t] = "half"] /\ UNCHANGED pt_mutex
             \/ p.what = "body" /\ pt_sending[t] = "half" /\ ends_send(t)
  <2>1. \A x \in {"head", "body", "command"} :
            [by |-> t, what |-> x] \in Piece /\ [by |-> t, what |-> x].by = t
               /\ [by |-> t, what |-> x].what = x
    BY DEF Piece
  <2>2. CASE real_command(t)
    <3>1. pt_wire' = Append(pt_wire, [by |-> t, what |-> "command"]) /\ pt_sending[t] = "locked"
             /\ ends_send(t)
      BY <2>2 DEF real_command, Put
    <3> QED
      BY <2>1, <3>1
  <2>3. CASE realSendFrame(t, TRUE) /\ pt_sending[t] = "locked"
    <3>1. /\ pt_wire' = Append(pt_wire, [by |-> t, what |-> "head"])
          /\ pt_sending' = [pt_sending EXCEPT ![t] = "half"] /\ UNCHANGED pt_mutex
      BY <2>3 DEF realSendFrame, Put
    <3> QED
      BY <2>1, <2>3, <3>1
  <2>4. CASE realSendFrame(t, TRUE) /\ pt_sending[t] = "half"
    <3>1. /\ pt_wire' = Append(pt_wire, [by |-> t, what |-> "body"]) /\ ends_send(t)
      BY <2>4 DEF realSendFrame, Put
    <3> QED
      BY <2>1, <2>4, <3>1
  <2> QED
    BY <1>2, <2>2, <2>3, <2>4
<1>4. /\ pt_sending' \in [PtThread -> {"idle", "locked", "half"}]
      /\ \A u \in PtThread : u # t => pt_sending'[u] = pt_sending[u]
      /\ pt_mutex' \in PtThread \cup {"none"}
      /\ \/ pt_sending'[t] = "idle" /\ p.what # "head"
         \/ pt_sending'[t] = "half" /\ p.what = "head" /\ pt_mutex' = pt_mutex
  <2>1. CASE ends_send(t)
    BY <1>1, <1>3, <2>1, EndsSend
  <2>2. CASE pt_sending' = [pt_sending EXCEPT ![t] = "half"] /\ UNCHANGED pt_mutex /\ p.what = "head"
    BY <1>1, <2>2 DEF PartovTypeOK
  <2> QED
    BY <1>3, <2>1, <2>2
<1>5. /\ pt_wire' \in Seq(Piece) /\ Len(pt_wire') > 0 /\ pt_wire'[Len(pt_wire')] = p
      /\ Started(pt_wire) => Started(pt_wire')
  BY <1>1, <1>3, StartedAppend
<1>6. PartovTypeOK'
  BY <1>1, <1>2, <1>4, <1>5, WireTyped DEF PartovTypeOK
<1>7. ASSUME Live
      PROVE  /\ \A u \in PtThread : u # t => pt_sending[u] = "idle"
             /\ pt_main \notin Recovering \cup Starting /\ (t = "main" => pt_main = "frame")
             /\ pt_mutex = t /\ HalfInv' /\ Framed(pt_wire')
  <2>1. /\ \A u \in PtThread : u # t => pt_sending[u] = "idle"
        /\ pt_mutex = t /\ pt_main \notin Recovering \cup Starting /\ Started(pt_wire)
        /\ EndsInHead(pt_wire) =>
              pt_sending[t] = "half" /\ pt_wire[Len(pt_wire)] = [by |-> t, what |-> "head"]
    BY <1>2, <1>7, SenderFacts
  <2>2. HalfInv /\ Framed(pt_wire)
    BY <1>7 DEF PartovInv
  <2>3. p = [by |-> t, what |-> p.what]
    BY <1>3 DEF Piece
  <2>4. Framed(pt_wire')
    <3>1. p.what = "body" => Len(pt_wire) > 0 /\ pt_wire[Len(pt_wire)] = [p EXCEPT !.what = "head"]
      <4>1. pt_sending[t] = "half" =>
               Len(pt_wire) > 0 /\ pt_wire[Len(pt_wire)] = [by |-> t, what |-> "head"]
        BY <2>2 DEF HalfInv
      <4>2. [p EXCEPT !.what = "head"] = [by |-> t, what |-> "head"]
        BY <2>3
      <4> QED
        BY <1>3, <4>1, <4>2
    <3>2. EndsInHead(pt_wire) => p = [pt_wire[Len(pt_wire)] EXCEPT !.what = "body"]
      <4>1. pt_sending[t] = "half" => p = [by |-> t, what |-> "body"]
        BY <1>3, <2>3
      <4> QED
        BY <2>1, <4>1
    <3> QED
      BY <1>1, <1>3, <2>1, <2>2, <3>1, <3>2, FramedAppend
  <2>5. HalfInv'
    <3>1. \A u \in PtThread : pt_sending'[u] = "half" => u = t /\ p.what = "head"
      BY <1>4, <2>1
    <3>2. EndsInHead(pt_wire') => p.what = "head" /\ pt_wire'[Len(pt_wire')].by = t
      BY <1>3, <1>5 DEF EndsInHead
    <3>3. p.what = "head" => pt_sending'[t] = "half"
      BY <1>4
    <3> QED
      BY <1>5, <2>3, <3>1, <3>2, <3>3 DEF HalfInv
  <2> QED
    BY <1>2, <2>1, <2>4, <2>5 DEF MaySend
<1> QED
  BY <1>2, <1>4, <1>5, <1>6, <1>7, SendKeeps

LEMMA SendFails ==
    ASSUME PartovInv, NEW t \in PtThread, realSendFrame(t, FALSE)
    PROVE  PartovInv'
<1>1. PartovTypeOK /\ pt_wire \in Seq(Piece)
  BY DEF PartovInv
<1>2. /\ MaySend(t) /\ pt_sending[t] \in {"locked", "half"} /\ ~ pt_up /\ ends_send(t)
      /\ UNCHANGED <<pt_main, pt_steps, pt_sim, pt_initialized, pt_up, pt_wire, pt_connects,
                     pt_needNewMap>>
  BY DEF realSendFrame
<1>3. /\ pt_sending' \in [PtThread -> {"idle", "locked", "half"}] /\ pt_sending'[t] = "idle"
      /\ \A u \in PtThread : u # t => pt_sending'[u] = pt_sending[u]
      /\ pt_mutex' \in PtThread \cup {"none"}
  BY <1>1, <1>2, EndsSend
<1>4. PartovTypeOK'
  BY <1>1, <1>2, <1>3 DEF PartovTypeOK
<1>5. ASSUME Live
      PROVE  /\ \A u \in PtThread : u # t => pt_sending[u] = "idle"
             /\ pt_main \notin Recovering \cup Starting /\ (t = "main" => pt_main = "frame")
             /\ HalfInv' /\ Framed(pt_wire')
  <2>1. /\ \A u \in PtThread : u # t => pt_sending[u] = "idle"
        /\ pt_main \notin Recovering \cup Starting
    BY <1>2, <1>5, SenderFacts
  <2>2. Framed(pt_wire) /\ HalfInv
    BY <1>5 DEF PartovInv
  <2>3. HalfInv'
    BY <1>2, <1>3, <2>1 DEF HalfInv
  <2> QED
    BY <1>2, <2>1, <2>2, <2>3 DEF MaySend
<1> QED
  BY <1>1, <1>2, <1>3, <1>4, <1>5, SendKeeps

LEMMA BreaksStep ==
    ASSUME PartovInv, Breaks
    PROVE  PartovInv'
<1>1. /\ pt_up' = FALSE /\ UNCHANGED <<pt_main, pt_steps, pt_sim, pt_sending, pt_mutex, pt_initialized>>
      /\ UNCHANGED <<pt_wire, pt_connects, pt_needNewMap>>
  BY DEF Breaks, threads
<1>2. pt_up' \in BOOLEAN
  BY <1>1
<1>3. PartovTypeOK'
  BY <1>1, <1>2 DEF PartovInv, PartovTypeOK
<1>4. CASE Live
  <2>1. SenderInv' /\ StepsInv' /\ HalfInv' /\ StartInv'
    BY <1>1, <1>4 DEF PartovInv, SenderInv, StepsInv, HalfInv, StartInv
  <2> QED
    BY <1>1, <1>3, <1>4, <2>1 DEF PartovInv
<1>5. CASE ~ Live
  BY <1>1, <1>3, <1>5 DEF PartovInv, Live
<1> QED
  BY <1>4, <1>5

LEMMA PartovStep ==
    ASSUME PartovInv, [PartovNext]_partovVars
    PROVE  PartovInv'
<1>1. CASE MainStep
  <2>1. ASSUME NEW ok \in BOOLEAN, connectToServer(ok)
        PROVE  PartovInv'
    BY <2>1, ConnectStep
  <2>2. ASSUME NEW reply, negotiate(reply)
        PROVE  PartovInv'
    BY <2>2, NegotiateStep
  <2> QED
    BY <1>1, <2>1, <2>2, RecoveryStep, OtherMainStep DEF MainStep
<1>2. CASE SimStep
  BY <1>2, SimulatorStep
<1>3. CASE Breaks
  BY <1>3, BreaksStep
<1>4. ASSUME NEW t \in PtThread, SendStep(t)
      PROVE  PartovInv'
  <2>1. ASSUME NEW ok \in BOOLEAN, realSendFrame(t, ok)
        PROVE  PartovInv'
    <3>1. CASE ok = TRUE
      BY <2>1, <3>1, PieceSent
    <3>2. CASE ok = FALSE
      BY <2>1, <3>2, SendFails
    <3> QED
      BY <3>1, <3>2
  <2> QED
    BY <1>4, <2>1, BeginSend, PieceSent DEF SendStep
<1>5. CASE UNCHANGED partovVars
  <2>1. PartovTypeOK'
    BY <1>5 DEF PartovInv, PartovTypeOK, partovVars
  <2>2. UNCHANGED <<pt_main, pt_steps, pt_sim, pt_sending, pt_mutex, pt_up, pt_wire>>
    BY <1>5 DEF partovVars
  <2>3. CASE Live
    <3>1. SenderInv' /\ StepsInv' /\ HalfInv' /\ StartInv'
      BY <2>2, <2>3 DEF PartovInv, SenderInv, StepsInv, HalfInv, StartInv
    <3> QED
      BY <2>1, <2>2, <2>3, <3>1 DEF PartovInv
  <2>4. CASE ~ Live
    BY <2>1, <2>2, <2>4 DEF PartovInv, Live
  <2> QED
    BY <2>3, <2>4
<1> QED
  BY <1>1, <1>2, <1>3, <1>4, <1>5 DEF PartovNext

LEMMA PartovBegins ==
    ASSUME PartovInit
    PROVE  PartovInv
<1>1. PartovTypeOK
  <2>1. pt_initialized \in BOOLEAN /\ pt_up \in BOOLEAN
    BY DEF PartovInit
  <2>2. pt_connects \in 0 .. MaxConnects /\ pt_needNewMap \in -1 .. 1
    BY PartovAssumption DEF PartovInit
  <2> QED
    BY <2>1, <2>2 DEF PartovInit, PartovTypeOK
<1>2. SenderInv /\ StepsInv /\ StartInv
  BY DEF PartovInit, SenderInv, StepsInv, StartInv, Recovering, Starting, PtThread
<1>3. pt_wire \in Seq(Piece) /\ Len(pt_wire) = 0 /\ DOMAIN pt_wire = {}
  BY DEF PartovInit
<1>4. HalfInv
  BY <1>3 DEF PartovInit, HalfInv, EndsInHead
<1>5. Framed(pt_wire)
  BY <1>3 DEF Framed
<1> QED
  BY <1>1, <1>2, <1>3, <1>4, <1>5 DEF PartovInv

LEMMA PartovFrames ==
    ASSUME PartovInv
    PROVE  WireFramed
  BY DEF PartovInv, WireFramed, Framed, Live

\* cf.cpp, realSendFrame, recoverSimulation and the event loop: on every connection
\* the server reads the negotiation and then whole frames, header and data of one
\* thread together, for any number of connections, breaks and frames.
THEOREM FramesStayWhole == PartovSpec => []WireFramed
<1>1. PartovInit => PartovInv
  BY PartovBegins
<1>2. PartovInv /\ [PartovNext]_partovVars => PartovInv'
  BY PartovStep
<1>3. PartovInv => WireFramed
  BY PartovFrames
<1> QED
  BY <1>1, <1>2, <1>3, PTL DEF PartovSpec
-----------------------------------------------------------------------------
(***************************************************************************)
(* The web server: who holds a connection, the descriptors, and who sleeps *)
(* on the work queue.                                                      *)
(***************************************************************************)

HttpAll == HttpThread \cup {Main}
ConnState == {"none", "backlog", "accepted", "queued", "served", "closed"}
Answer == {"none", "404", "file", "list", "502", "relayed"}
PoolPc == {"none", "pop", "is_not_empty", "handle", "close", "relay"}
MainPc == {"accept", "push", "is_not_full", "handle", "close", "relay"}
Holding == {"push", "is_not_full", "handle", "close", "relay"}

HttpTyped ==
    /\ ht_conf \in HttpConfig
    /\ ht_conn \in [HttpConn -> [state : ConnState, answer : Answer]]
    /\ ht_queue \in Seq(HttpConn) /\ Len(ht_queue) <= Cardinality(ht_conf.threads)
    /\ ht_pc \in [HttpAll -> PoolPc \cup MainPc]
    /\ ht_pc[Main] \in MainPc /\ \A t \in HttpThread : ht_pc[t] \in PoolPc
    /\ \A t \in HttpThread \ ht_conf.threads : ht_pc[t] = "none"
    /\ ht_has \in [HttpAll -> HttpConn \cup {NoConn}]
    /\ ht_leaked \in Nat
    /\ \A h \in ht_helper : h.conn \in HttpConn

\* A thread holds a connection while it is busy with one, nobody else holds that
\* one, and it is not in the queue; the queue holds a connection once.
HoldInv ==
    /\ \A t \in HttpAll : ht_has[t] # NoConn <=> ht_pc[t] \in Holding
    /\ \A t \in HttpAll : ht_has[t] # NoConn => ht_conn[ht_has[t]].state \in {"accepted", "served"}
    /\ \A t, u \in HttpAll : ht_has[t] # NoConn /\ ht_has[t] = ht_has[u] => t = u
    /\ \A i \in 1 .. Len(ht_queue) : ht_conn[ht_queue[i]].state = "queued"
    /\ \A i, j \in 1 .. Len(ht_queue) : ht_queue[i] = ht_queue[j] => i = j
    /\ \A c \in HttpConn : ht_conn[c].state = "queued" => \E i \in 1 .. Len(ht_queue) : ht_queue[i] = c
    /\ \A c \in HttpConn : ht_conn[c].state \in {"accepted", "served"} => \E t \in HttpAll : ht_has[t] = c

Open == {c \in HttpConn : ht_conn[c].state \in {"accepted", "queued", "served"}}
Relays == {t \in HttpAll : ht_pc[t] = "relay"}
Asleep == {t \in ht_conf.threads : ht_pc[t] = "is_not_empty"}
Awake == {t \in ht_conf.threads : ht_pc[t] = "pop"}

FdInv == Used <= MaxFds
WakeInv == Asleep # {} => Len(ht_queue) <= Cardinality(Awake)
HttpInv == HttpTyped /\ HoldInv /\ FdInv /\ WakeInv

LEMMA SubsetCount ==
    ASSUME NEW S, IsFiniteSet(S), NEW T, T \subseteq S
    PROVE  /\ IsFiniteSet(T) /\ Cardinality(T) \in Nat /\ Cardinality(S) \in Nat
           /\ Cardinality(T) <= Cardinality(S)
  BY FS_Subset, FS_CardinalityType

LEMMA OneMoreCount ==
    ASSUME NEW S, IsFiniteSet(S), NEW T, NEW x, T \subseteq S \cup {x}
    PROVE  /\ IsFiniteSet(T) /\ Cardinality(T) \in Nat /\ Cardinality(S) \in Nat
           /\ Cardinality(T) <= Cardinality(S) + 1
<1> DEFINE U == S \cup {x}
<1>1. Cardinality(S) \in Nat
  BY FS_CardinalityType
<1>2. IsFiniteSet(U) /\ Cardinality(U) = IF x \in S THEN Cardinality(S) ELSE Cardinality(S) + 1
  BY FS_AddElement
<1>3. T \subseteq U
  OBVIOUS
<1> HIDE DEF U
<1>4. /\ IsFiniteSet(T) /\ Cardinality(T) \in Nat /\ Cardinality(U) \in Nat
      /\ Cardinality(T) <= Cardinality(U)
  BY <1>2, <1>3, SubsetCount
<1> QED
  BY <1>1, <1>2, <1>4

LEMMA HttpFinite ==
    ASSUME HttpInv
    PROVE  /\ IsFiniteSet(Open) /\ IsFiniteSet(Relays) /\ IsFiniteSet(Asleep) /\ IsFiniteSet(Awake)
           /\ Cardinality(Open) \in Nat /\ Cardinality(Relays) \in Nat /\ Cardinality(Awake) \in Nat
           /\ Used = ht_leaked + Cardinality(Open) + Cardinality(Relays)
           /\ ht_leaked \in Nat /\ Used \in Nat /\ Used <= MaxFds /\ MaxFds \in Nat
           /\ ht_conf.threads \subseteq HttpThread /\ IsFiniteSet(ht_conf.threads)
           /\ Cardinality(ht_conf.threads) \in Nat
<1>1. ht_conf.threads \subseteq HttpThread
  BY HttpAssumption DEF HttpInv, HttpTyped
<1>2. IsFiniteSet(HttpAll)
  BY HttpAssumption, FS_AddElement DEF HttpAll
<1>3. Open \subseteq HttpConn /\ Relays \subseteq HttpAll
  BY DEF Open, Relays
<1>4. Asleep \subseteq HttpThread /\ Awake \subseteq HttpThread
  BY <1>1 DEF Asleep, Awake
<1>5. /\ IsFiniteSet(Open) /\ IsFiniteSet(Relays) /\ IsFiniteSet(Asleep) /\ IsFiniteSet(Awake)
      /\ IsFiniteSet(ht_conf.threads)
  BY <1>1, <1>2, <1>3, <1>4, HttpAssumption, SubsetCount
<1>6. /\ Cardinality(Open) \in Nat /\ Cardinality(Relays) \in Nat /\ Cardinality(Awake) \in Nat
      /\ Cardinality(ht_conf.threads) \in Nat
  BY <1>5, FS_CardinalityType
<1>7. Used = ht_leaked + Cardinality(Open) + Cardinality(Relays)
  BY DEF Used, Open, Relays, HttpAll
<1>8. ht_leaked \in Nat /\ Used <= MaxFds /\ MaxFds \in Nat
  BY HttpAssumption DEF HttpInv, HttpTyped, FdInv
<1> QED
  BY <1>1, <1>5, <1>6, <1>7, <1>8

\* The descriptors, after a step that opens none, a connection, a socket or files.
LEMMA FdStep ==
    ASSUME HttpInv, ht_leaked' \in Nat,
           \/ Open' \subseteq Open /\ Relays' \subseteq Relays /\ ht_leaked' <= ht_leaked + (MaxFds - Used)
           \/ /\ Used < MaxFds /\ ht_leaked' = ht_leaked /\ Relays' \subseteq Relays
              /\ \E c \in HttpConn : Open' \subseteq Open \cup {c}
           \/ /\ Used < MaxFds /\ ht_leaked' = ht_leaked /\ Open' \subseteq Open
              /\ \E t \in HttpAll : Relays' \subseteq Relays \cup {t}
    PROVE  FdInv'
<1>1. Used' = ht_leaked' + Cardinality(Open') + Cardinality(Relays')
  BY DEF Used, Open, Relays, HttpAll
<1>2. /\ IsFiniteSet(Open) /\ IsFiniteSet(Relays)
      /\ Cardinality(Open) \in Nat /\ Cardinality(Relays) \in Nat
      /\ Used = ht_leaked + Cardinality(Open) + Cardinality(Relays)
      /\ ht_leaked \in Nat /\ Used \in Nat /\ Used <= MaxFds /\ MaxFds \in Nat
  BY HttpFinite
<1>3. ASSUME Open' \subseteq Open
      PROVE  Cardinality(Open') \in Nat /\ Cardinality(Open') <= Cardinality(Open)
  BY <1>2, <1>3, SubsetCount
<1>4. ASSUME Relays' \subseteq Relays
      PROVE  Cardinality(Relays') \in Nat /\ Cardinality(Relays') <= Cardinality(Relays)
  BY <1>2, <1>4, SubsetCount
<1>5. CASE Open' \subseteq Open /\ Relays' \subseteq Relays /\ ht_leaked' <= ht_leaked + (MaxFds - Used)
  BY <1>1, <1>2, <1>3, <1>4, <1>5 DEF FdInv
<1>6. CASE /\ Used < MaxFds /\ ht_leaked' = ht_leaked /\ Relays' \subseteq Relays
           /\ \E c \in HttpConn : Open' \subseteq Open \cup {c}
  <2>1. Cardinality(Open') \in Nat /\ Cardinality(Open') <= Cardinality(Open) + 1
    BY <1>2, <1>6, OneMoreCount
  <2> QED
    BY <1>1, <1>2, <1>4, <1>6, <2>1 DEF FdInv
<1>7. CASE /\ Used < MaxFds /\ ht_leaked' = ht_leaked /\ Open' \subseteq Open
           /\ \E t \in HttpAll : Relays' \subseteq Relays \cup {t}
  <2>1. Cardinality(Relays') \in Nat /\ Cardinality(Relays') <= Cardinality(Relays) + 1
    BY <1>2, <1>7, OneMoreCount
  <2> QED
    BY <1>1, <1>2, <1>3, <1>7, <2>1 DEF FdInv
<1> QED
  BY <1>5, <1>6, <1>7

\* No wake-up is lost by a step that puts nothing into the queue and nobody to sleep.
LEMMA WakeKeeps ==
    ASSUME HttpInv, Len(ht_queue') <= Len(ht_queue), Len(ht_queue') \in Nat, Asleep' \subseteq Asleep,
           Awake \subseteq Awake', Awake' \subseteq HttpThread
    PROVE  WakeInv'
<1>1. IsFiniteSet(Awake')
  BY HttpAssumption, SubsetCount
<1>2. /\ Cardinality(Awake) \in Nat /\ Cardinality(Awake') \in Nat
      /\ Cardinality(Awake) <= Cardinality(Awake')
  BY <1>1, SubsetCount
<1>3. Len(ht_queue) \in Nat
  BY DEF HttpInv, HttpTyped
<1> QED
  BY <1>2, <1>3 DEF HttpInv, WakeInv

\* Nobody takes or gives away a connection.
LEMMA HoldKeeps ==
    ASSUME HttpInv, ht_has' = ht_has, ht_queue' = ht_queue,
           \A c \in HttpConn :
               \/ ht_conn'[c].state = ht_conn[c].state
               \/ {ht_conn'[c].state, ht_conn[c].state} \subseteq {"none", "backlog", "closed"},
           \A t \in HttpAll : ht_pc'[t] \in Holding <=> ht_pc[t] \in Holding
    PROVE  HoldInv'
<1>1. /\ ht_queue \in Seq(HttpConn) /\ ht_has \in [HttpAll -> HttpConn \cup {NoConn}] /\ HoldInv
  BY DEF HttpInv, HttpTyped
<1>2. \A c \in HttpConn :
          /\ ht_conn'[c].state = "queued" <=> ht_conn[c].state = "queued"
          /\ ht_conn'[c].state \in {"accepted", "served"} <=> ht_conn[c].state \in {"accepted", "served"}
  OBVIOUS
<1>3. \A i \in 1 .. Len(ht_queue) : ht_queue[i] \in HttpConn
  BY <1>1
<1>4. \A t \in HttpAll : ht_has[t] # NoConn => ht_has[t] \in HttpConn
  BY <1>1
<1> QED
  BY <1>1, <1>2, <1>3, <1>4 DEF HoldInv

\* Signal wakes one of those that sleep, if there are any.
LEMMA SignalFacts ==
    ASSUME NEW pcs \in [HttpAll -> PoolPc \cup MainPc], NEW from, NEW to \in PoolPc \cup MainPc,
           NEW q \in Signal(pcs, from, to)
    PROVE  /\ q \in [HttpAll -> PoolPc \cup MainPc]
           /\ \/ q = pcs /\ \A t \in HttpAll : pcs[t] # from
              \/ \E u \in HttpAll : /\ pcs[u] = from /\ q[u] = to
                                    /\ \A t \in HttpAll : t # u => q[t] = pcs[t]
<1>1. CASE \E t \in DOMAIN pcs : pcs[t] = from
  <2>1. PICK u \in HttpAll : pcs[u] = from /\ q = [pcs EXCEPT ![u] = to]
    BY <1>1 DEF Signal
  <2>2. q \in [HttpAll -> PoolPc \cup MainPc] /\ q[u] = to /\ \A t \in HttpAll : t # u => q[t] = pcs[t]
    BY <2>1
  <2> QED
    BY <2>1, <2>2
<1>2. CASE ~ \E t \in DOMAIN pcs : pcs[t] = from
  BY <1>2 DEF Signal
<1> QED
  BY <1>1, <1>2

\* A step that only moves on: the connection of nobody changes hands.
LEMMA MovesOn ==
    ASSUME HttpInv, HttpTyped', ht_conf' = ht_conf, ht_has' = ht_has, ht_queue' = ht_queue,
           \A c \in HttpConn :
               \/ ht_conn'[c].state = ht_conn[c].state
               \/ {ht_conn'[c].state, ht_conn[c].state} \subseteq {"none", "backlog", "closed"},
           \A t \in HttpAll :
               \/ ht_pc'[t] = ht_pc[t]
               \/ ht_pc[t] \in Holding /\ ht_pc'[t] \in Holding \ {"relay"}
               \/ /\ ht_pc[t] \in Holding /\ ht_pc'[t] = "relay" /\ Used < MaxFds
                  /\ ht_leaked' = ht_leaked /\ \A u \in HttpAll : u # t => ht_pc'[u] = ht_pc[u],
           ht_leaked' <= ht_leaked + (MaxFds - Used)
    PROVE  HttpInv'
<1>1. HoldInv'
  <2>1. \A t \in HttpAll : ht_pc'[t] \in Holding <=> ht_pc[t] \in Holding
    BY DEF Holding
  <2> QED
    BY <2>1, HoldKeeps
<1>2. Open' \subseteq Open /\ ht_leaked' \in Nat
  BY DEF Open, HttpTyped
<1>3. ht_conf.threads \subseteq HttpThread
  BY HttpFinite
<1>4. WakeInv'
  <2>1. Asleep' \subseteq Asleep /\ Awake \subseteq Awake' /\ Awake' \subseteq HttpThread
    BY <1>3 DEF Asleep, Awake, HttpAll, Holding
  <2>2. Len(ht_queue') <= Len(ht_queue) /\ Len(ht_queue') \in Nat
    BY DEF HttpTyped
  <2> QED
    BY <2>1, <2>2, WakeKeeps
<1>5. FdInv'
  <2>1. CASE \E t \in HttpAll : ht_pc'[t] = "relay" /\ ht_pc[t] # "relay"
    <3>1. PICK t \in HttpAll : ht_pc'[t] = "relay" /\ ht_pc[t] # "relay"
      BY <2>1
    <3>2. Used < MaxFds /\ ht_leaked' = ht_leaked /\ \A u \in HttpAll : u # t => ht_pc'[u] = ht_pc[u]
      BY <3>1
    <3>3. Relays' \subseteq Relays \cup {t}
      BY <3>2 DEF Relays
    <3> QED
      BY <1>2, <3>2, <3>3, FdStep
  <2>2. CASE ~ \E t \in HttpAll : ht_pc'[t] = "relay" /\ ht_pc[t] # "relay"
    <3>1. Relays' \subseteq Relays
      BY <2>2 DEF Relays
    <3> QED
      BY <1>2, <3>1, FdStep
  <2> QED
    BY <2>1, <2>2
<1> QED
  BY <1>1, <1>4, <1>5 DEF HttpInv

LEMMA ClientConnects ==
    ASSUME HttpInv, NEW c \in HttpConn, http_connect(c)
    PROVE  HttpInv'
<1>1. HttpTyped
  BY DEF HttpInv
<1>2. /\ ht_conn[c].state = "none" /\ ht_conn' = [ht_conn EXCEPT ![c].state = "backlog"]
      /\ UNCHANGED <<ht_conf, ht_queue, ht_pc, ht_has, ht_leaked, ht_helper>>
  BY DEF http_connect
<1>3. /\ ht_conn' \in [HttpConn -> [state : ConnState, answer : Answer]]
      /\ ht_conn'[c].state = "backlog" /\ \A d \in HttpConn : d # c => ht_conn'[d] = ht_conn[d]
  BY <1>1, <1>2 DEF HttpTyped, ConnState
<1>4. HttpTyped'
  BY <1>1, <1>2, <1>3 DEF HttpTyped
<1>5. ht_leaked' <= ht_leaked + (MaxFds - Used)
  BY <1>2, HttpFinite
<1>6. \A d \in HttpConn :
          \/ ht_conn'[d].state = ht_conn[d].state
          \/ {ht_conn'[d].state, ht_conn[d].state} \subseteq {"none", "backlog", "closed"}
  BY <1>2, <1>3
<1> QED
  BY <1>2, <1>4, <1>5, <1>6, MovesOn

\* What a handler answers needs no more descriptors than there are.
LEMMA AnswerFits ==
    ASSUME NEW kind \in RequestKind, NEW free \in Nat
    PROVE  /\ files_answer(kind, free).answer \in Answer
           /\ files_answer(kind, free).leak \in 0 .. free
<1>1. kind \in HttpKinds
  BY HttpAssumption
<1>2. CASE kind \in {"bad", "missing", "device"}
  BY <1>2 DEF files_answer, Answer
<1>3. CASE kind = "file"
  <2>1. files_answer(kind, free) = http_send_file(free)
    BY <1>3 DEF files_answer
  <2> QED
    BY <2>1 DEF http_send_file, Answer
<1>4. CASE kind = "directory"
  <2>1. files_answer(kind, free) = http_send_dir
    BY <1>4 DEF files_answer
  <2> QED
    BY <2>1 DEF http_send_dir, Answer
<1>5. CASE kind = "index"
  <2>1. CASE free = 0
    <3>1. files_answer(kind, free) = http_send_dir
      BY <1>5, <2>1 DEF files_answer
    <3> QED
      BY <3>1 DEF http_send_dir, Answer
  <2>2. CASE free # 0
    <3>1. files_answer(kind, free) = [http_send_file(free - 1) EXCEPT !.leak = @ + 1]
      BY <1>5, <2>2 DEF files_answer
    <3>2. CASE free - 1 > 0
      BY <3>1, <3>2 DEF http_send_file, Answer
    <3>3. CASE ~ (free - 1 > 0)
      BY <2>2, <3>1, <3>3 DEF http_send_file, Answer
    <3> QED
      BY <3>2, <3>3
  <2> QED
    BY <2>1, <2>2
<1> QED
  BY <1>1, <1>2, <1>3, <1>4, <1>5 DEF HttpKinds

\* A new answer for a connection leaves its state.
LEMMA Answered ==
    ASSUME ht_conn \in [HttpConn -> [state : ConnState, answer : Answer]],
           NEW c \in HttpConn, NEW a \in Answer, ht_conn' = [ht_conn EXCEPT ![c].answer = a]
    PROVE  /\ ht_conn' \in [HttpConn -> [state : ConnState, answer : Answer]]
           /\ \A d \in HttpConn : ht_conn'[d].state = ht_conn[d].state
<1>1. ht_conn' = [ht_conn EXCEPT ![c] = [ht_conn[c] EXCEPT !.answer = a]]
  OBVIOUS
<1>2. [ht_conn[c] EXCEPT !.answer = a] \in [state : ConnState, answer : Answer]
  OBVIOUS
<1> QED
  BY <1>1, <1>2

\* A thread that is not the only one goes from one busy place to another.
LEMMA BusyGoes ==
    ASSUME HttpTyped, NEW t \in HttpAll, ht_pc[t] \in {"handle", "relay"},
           NEW p \in {"close", "relay"}, Go(t, p), ht_conf' = ht_conf
    PROVE  /\ ht_pc' \in [HttpAll -> PoolPc \cup MainPc]
           /\ ht_pc'[Main] \in MainPc /\ \A u \in HttpThread : ht_pc'[u] \in PoolPc
           /\ \A u \in HttpThread \ ht_conf.threads : ht_pc'[u] = "none"
           /\ ht_pc'[t] = p /\ \A u \in HttpAll : u # t => ht_pc'[u] = ht_pc[u]
<1>1. p \in PoolPc /\ p \in MainPc
  BY DEF PoolPc, MainPc
<1>2. /\ ht_pc' \in [HttpAll -> PoolPc \cup MainPc]
      /\ ht_pc'[t] = p /\ \A u \in HttpAll : u # t => ht_pc'[u] = ht_pc[u]
  BY <1>1 DEF HttpTyped, Go
<1>3. t \notin HttpThread \ ht_conf.threads
  BY DEF HttpTyped
<1> QED
  BY <1>1, <1>2, <1>3 DEF HttpTyped, HttpAll

LEMMA FilesStep ==
    ASSUME HttpInv, NEW t \in Threads, NEW kind \in RequestKind, handle_files_request(t, kind)
    PROVE  HttpInv'
<1> DEFINE a == files_answer(kind, MaxFds - Used)
<1>1. HttpTyped /\ HoldInv
  BY DEF HttpInv
<1>2. t \in HttpAll
  BY HttpFinite DEF Threads, HttpAll
<1>3. a.answer \in Answer /\ a.leak \in 0 .. (MaxFds - Used)
  <2>1. MaxFds - Used \in Nat
    BY HttpFinite
  <2> QED
    BY <2>1, AnswerFits
<1> HIDE DEF a
<1>4. /\ ht_pc[t] = "handle" /\ Go(t, "close")
      /\ ht_conn' = [ht_conn EXCEPT ![ht_has[t]].answer = a.answer] /\ ht_leaked' = ht_leaked + a.leak
      /\ UNCHANGED <<ht_conf, ht_queue, ht_has, ht_helper>>
  BY DEF handle_files_request, a
<1>5. ht_has[t] \in HttpConn
  BY <1>1, <1>2, <1>4 DEF HttpTyped, HoldInv, Holding
<1>6. /\ ht_conn' \in [HttpConn -> [state : ConnState, answer : Answer]]
      /\ \A d \in HttpConn : ht_conn'[d].state = ht_conn[d].state
  BY <1>1, <1>3, <1>4, <1>5, Answered DEF HttpTyped
<1>7. /\ ht_pc' \in [HttpAll -> PoolPc \cup MainPc]
      /\ ht_pc'[Main] \in MainPc /\ \A u \in HttpThread : ht_pc'[u] \in PoolPc
      /\ \A u \in HttpThread \ ht_conf.threads : ht_pc'[u] = "none"
      /\ ht_pc'[t] = "close" /\ \A u \in HttpAll : u # t => ht_pc'[u] = ht_pc[u]
  BY <1>1, <1>2, <1>4, BusyGoes
<1>8. ht_leaked' \in Nat /\ ht_leaked' <= ht_leaked + (MaxFds - Used)
  BY <1>3, <1>4, HttpFinite
<1>9. HttpTyped'
  BY <1>1, <1>4, <1>6, <1>7, <1>8 DEF HttpTyped
<1>10. \A u \in HttpAll :
           ht_pc'[u] = ht_pc[u] \/ (ht_pc[u] \in Holding /\ ht_pc'[u] \in Holding \ {"relay"})
  BY <1>4, <1>7 DEF Holding
<1> QED
  BY <1>4, <1>6, <1>8, <1>9, <1>10, MovesOn

LEMMA ProxyConnectStep ==
    ASSUME HttpInv, NEW t \in Threads, proxy_connect(t)
    PROVE  HttpInv'
<1>1. HttpTyped /\ HoldInv
  BY DEF HttpInv
<1>2. t \in HttpAll
  BY HttpFinite DEF Threads, HttpAll
<1>3. ht_pc[t] = "handle" /\ UNCHANGED <<ht_conf, ht_queue, ht_has>>
  BY DEF proxy_connect
<1>4. ht_has[t] \in HttpConn
  BY <1>1, <1>2, <1>3 DEF HttpTyped, HoldInv, Holding
<1>5. CASE UNCHANGED <<ht_conn, ht_pc, ht_leaked, ht_lights, ht_helper>>
  <2>1. HttpTyped'
    BY <1>1, <1>3, <1>5 DEF HttpTyped
  <2>2. ht_leaked' <= ht_leaked + (MaxFds - Used)
    BY <1>5, HttpFinite
  <2> QED
    BY <1>3, <1>5, <2>1, <2>2, MovesOn
<1>6. CASE /\ Used < MaxFds /\ ht_conn' = [ht_conn EXCEPT ![ht_has[t]].answer = "502"]
           /\ ht_leaked' = ht_leaked + 1 /\ Go(t, "close") /\ UNCHANGED ht_helper
  <2>1. "502" \in Answer
    BY DEF Answer
  <2>2. /\ ht_conn' \in [HttpConn -> [state : ConnState, answer : Answer]]
        /\ \A d \in HttpConn : ht_conn'[d].state = ht_conn[d].state
    BY <1>1, <1>4, <1>6, <2>1, Answered DEF HttpTyped
  <2>3. /\ ht_pc' \in [HttpAll -> PoolPc \cup MainPc]
        /\ ht_pc'[Main] \in MainPc /\ \A u \in HttpThread : ht_pc'[u] \in PoolPc
        /\ \A u \in HttpThread \ ht_conf.threads : ht_pc'[u] = "none"
        /\ ht_pc'[t] = "close" /\ \A u \in HttpAll : u # t => ht_pc'[u] = ht_pc[u]
    BY <1>1, <1>2, <1>3, <1>6, BusyGoes
  <2>4. ht_leaked' \in Nat /\ ht_leaked' <= ht_leaked + (MaxFds - Used)
    BY <1>6, HttpFinite
  <2>5. HttpTyped'
    BY <1>1, <1>3, <1>6, <2>2, <2>3, <2>4 DEF HttpTyped
  <2>6. \A u \in HttpAll :
            ht_pc'[u] = ht_pc[u] \/ (ht_pc[u] \in Holding /\ ht_pc'[u] \in Holding \ {"relay"})
    BY <1>3, <2>3 DEF Holding
  <2> QED
    BY <1>3, <2>2, <2>4, <2>5, <2>6, MovesOn
<1>7. CASE /\ Used < MaxFds /\ Go(t, "relay") /\ UNCHANGED <<ht_conn, ht_leaked>>
           /\ ht_helper' = ht_helper \cup
                 {[id |-> t, conn |-> ht_has[t], way |-> w, pc |-> "read"] : w \in {"Tx", "Rx"}}
  <2>1. \A h \in ht_helper' : h.conn \in HttpConn
    BY <1>1, <1>4, <1>7 DEF HttpTyped
  <2>2. /\ ht_pc' \in [HttpAll -> PoolPc \cup MainPc]
        /\ ht_pc'[Main] \in MainPc /\ \A u \in HttpThread : ht_pc'[u] \in PoolPc
        /\ \A u \in HttpThread \ ht_conf.threads : ht_pc'[u] = "none"
        /\ ht_pc'[t] = "relay" /\ \A u \in HttpAll : u # t => ht_pc'[u] = ht_pc[u]
    BY <1>1, <1>2, <1>3, <1>7, BusyGoes
  <2>3. HttpTyped'
    BY <1>1, <1>3, <1>7, <2>1, <2>2 DEF HttpTyped
  <2>4. ht_leaked' <= ht_leaked + (MaxFds - Used)
    BY <1>7, HttpFinite
  <2>5. ht_pc[t] \in Holding
    BY <1>3 DEF Holding
  <2>6. \A u \in HttpAll :
            \/ ht_pc'[u] = ht_pc[u]
            \/ /\ ht_pc[u] \in Holding /\ ht_pc'[u] = "relay" /\ Used < MaxFds
               /\ ht_leaked' = ht_leaked /\ \A v \in HttpAll : v # u => ht_pc'[v] = ht_pc[v]
    BY <1>7, <2>2, <2>5
  <2> QED
    BY <1>3, <1>7, <2>3, <2>4, <2>6, MovesOn
<1> QED
  BY <1>5, <1>6, <1>7 DEF proxy_connect

LEMMA HelperStep ==
    ASSUME HttpInv, NEW h \in ht_helper, do_proxy_read(h) \/ do_proxy_light(h)
    PROVE  HttpInv'
<1>1. HttpTyped /\ h.conn \in HttpConn
  BY DEF HttpInv, HttpTyped
<1>2. UNCHANGED <<ht_conf, ht_queue, ht_pc, ht_has, ht_leaked>>
  BY DEF do_proxy_read, do_proxy_light
<1>3. \A g \in ht_helper' : g.conn \in HttpConn
  <2>1. ASSUME NEW g \in ht_helper'
        PROVE  g.conn \in HttpConn
    <3>1. g \in ht_helper \/ g = [h EXCEPT !.pc = "eof"]
      BY DEF do_proxy_read, do_proxy_light
    <3>2. [h EXCEPT !.pc = "eof"].conn = h.conn
      OBVIOUS
    <3> QED
      BY <1>1, <3>1, <3>2 DEF HttpTyped
  <2> QED
    BY <2>1
<1>4. /\ ht_conn' \in [HttpConn -> [state : ConnState, answer : Answer]]
      /\ \A d \in HttpConn : ht_conn'[d].state = ht_conn[d].state
  <2>1. CASE do_proxy_read(h)
    <3>1. "relayed" \in Answer /\ ht_conn' = [ht_conn EXCEPT ![h.conn].answer = "relayed"]
      BY <2>1 DEF do_proxy_read, Answer
    <3> QED
      BY <1>1, <3>1, Answered DEF HttpTyped
  <2>2. CASE do_proxy_light(h)
    BY <1>1, <2>2 DEF do_proxy_light, HttpTyped
  <2> QED
    BY <2>1, <2>2
<1>5. HttpTyped'
  BY <1>1, <1>2, <1>3, <1>4 DEF HttpTyped
<1>6. ht_leaked' <= ht_leaked + (MaxFds - Used)
  BY <1>2, HttpFinite
<1> QED
  BY <1>2, <1>4, <1>5, <1>6, MovesOn

LEMMA ProxyEndStep ==
    ASSUME HttpInv, NEW t \in Threads, proxy_end(t)
    PROVE  HttpInv'
<1>1. HttpTyped
  BY DEF HttpInv
<1>2. t \in HttpAll
  BY HttpFinite DEF Threads, HttpAll
<1>3. /\ ht_pc[t] = "relay" /\ Go(t, "close") /\ ht_helper' \subseteq ht_helper
      /\ UNCHANGED <<ht_conf, ht_conn, ht_queue, ht_has, ht_leaked>>
  BY DEF proxy_end
<1>4. /\ ht_pc' \in [HttpAll -> PoolPc \cup MainPc]
      /\ ht_pc'[Main] \in MainPc /\ \A u \in HttpThread : ht_pc'[u] \in PoolPc
      /\ \A u \in HttpThread \ ht_conf.threads : ht_pc'[u] = "none"
      /\ ht_pc'[t] = "close" /\ \A u \in HttpAll : u # t => ht_pc'[u] = ht_pc[u]
  BY <1>1, <1>2, <1>3, BusyGoes
<1>5. HttpTyped'
  BY <1>1, <1>3, <1>4 DEF HttpTyped
<1>6. ht_leaked' <= ht_leaked + (MaxFds - Used)
  BY <1>3, HttpFinite
<1>7. \A u \in HttpAll :
          ht_pc'[u] = ht_pc[u] \/ (ht_pc[u] \in Holding /\ ht_pc'[u] \in Holding \ {"relay"})
  BY <1>3, <1>4 DEF Holding
<1> QED
  BY <1>3, <1>5, <1>6, <1>7, MovesOn

\* A connection's state is set.
LEMMA StateSet ==
    ASSUME ht_conn \in [HttpConn -> [state : ConnState, answer : Answer]],
           NEW c \in HttpConn, NEW s \in ConnState, ht_conn' = [ht_conn EXCEPT ![c].state = s]
    PROVE  /\ ht_conn' \in [HttpConn -> [state : ConnState, answer : Answer]]
           /\ ht_conn'[c].state = s /\ \A d \in HttpConn : d # c => ht_conn'[d] = ht_conn[d]
<1>1. ht_conn' = [ht_conn EXCEPT ![c] = [ht_conn[c] EXCEPT !.state = s]]
  OBVIOUS
<1>2. /\ [ht_conn[c] EXCEPT !.state = s] \in [state : ConnState, answer : Answer]
      /\ [ht_conn[c] EXCEPT !.state = s].state = s
  OBVIOUS
<1> QED
  BY <1>1, <1>2

LEMMA AcceptStep ==
    ASSUME HttpInv, NEW c \in HttpConn, serve_forever(c)
    PROVE  HttpInv'
<1>1. HttpTyped /\ HoldInv
  BY DEF HttpInv
<1>2. /\ ht_pc[Main] = "accept" /\ ht_conn[c].state = "backlog" /\ Used < MaxFds
      /\ ht_conn' = [ht_conn EXCEPT ![c].state = "accepted"]
      /\ ht_has' = [ht_has EXCEPT ![Main] = c]
      /\ UNCHANGED <<ht_conf, ht_queue, ht_leaked, ht_helper>>
  BY DEF serve_forever
<1>3. PICK p \in {"handle", "push"} : ht_pc' = [ht_pc EXCEPT ![Main] = p]
  BY DEF serve_forever, Go
<1>4. Main \in HttpAll /\ "accepted" \in ConnState /\ p \in MainPc /\ p \in Holding /\ "accept" \notin Holding
  BY DEF HttpAll, ConnState, MainPc, Holding
<1>5. /\ ht_conn' \in [HttpConn -> [state : ConnState, answer : Answer]]
      /\ ht_conn'[c].state = "accepted" /\ \A d \in HttpConn : d # c => ht_conn'[d] = ht_conn[d]
  BY <1>1, <1>2, <1>4, StateSet DEF HttpTyped
<1>6. /\ ht_pc' \in [HttpAll -> PoolPc \cup MainPc] /\ ht_pc'[Main] = p
      /\ \A u \in HttpThread : ht_pc'[u] = ht_pc[u]
      /\ \A u \in HttpAll : u # Main => ht_pc'[u] = ht_pc[u]
  BY <1>1, <1>3, <1>4, HttpAssumption DEF HttpTyped, HttpAll
<1>7. /\ ht_has' \in [HttpAll -> HttpConn \cup {NoConn}] /\ ht_has'[Main] = c
      /\ \A u \in HttpAll : u # Main => ht_has'[u] = ht_has[u]
  BY <1>1, <1>2, <1>4 DEF HttpTyped
<1>8. HttpTyped'
  BY <1>1, <1>2, <1>4, <1>5, <1>6, <1>7 DEF HttpTyped
<1>9. HoldInv'
  <2>1. \A u \in HttpAll : ht_has[u] # c
    BY <1>1, <1>2, HttpAssumption DEF HoldInv
  <2>2. /\ \A i \in 1 .. Len(ht_queue) : ht_queue[i] \in HttpConn /\ ht_queue[i] # c
        /\ ht_has[Main] = NoConn
    BY <1>1, <1>2, <1>4 DEF HoldInv, HttpTyped
  <2>3. \A u \in HttpAll : ht_has[u] # NoConn => ht_has[u] \in HttpConn
    BY <1>1 DEF HttpTyped
  <2>4. \A u \in HttpAll : ht_has'[u] # NoConn <=> ht_pc'[u] \in Holding
    BY <1>1, <1>4, <1>6, <1>7, HttpAssumption DEF HoldInv
  <2>5. /\ \A u \in HttpAll : ht_has'[u] # NoConn => ht_conn'[ht_has'[u]].state \in {"accepted", "served"}
        /\ \A u, v \in HttpAll : ht_has'[u] # NoConn /\ ht_has'[u] = ht_has'[v] => u = v
    BY <1>1, <1>5, <1>7, <2>1, <2>3 DEF HoldInv
  <2>6. /\ \A i \in 1 .. Len(ht_queue) : ht_conn'[ht_queue[i]].state = "queued"
        /\ \A d \in HttpConn :
              ht_conn'[d].state = "queued" => \E i \in 1 .. Len(ht_queue) : ht_queue[i] = d
    BY <1>1, <1>5, <2>2 DEF HoldInv
  <2>7. ASSUME NEW d \in HttpConn, ht_conn'[d].state \in {"accepted", "served"}
        PROVE  \E u \in HttpAll : ht_has'[u] = d
    <3>1. CASE d = c
      BY <1>4, <1>7, <3>1
    <3>2. CASE d # c
      <4>1. PICK u \in HttpAll : ht_has[u] = d
        BY <1>1, <1>5, <2>7, <3>2 DEF HoldInv
      <4>2. u # Main
        BY <2>2, <4>1, HttpAssumption
      <4> QED
        BY <1>7, <4>1, <4>2
    <3> QED
      BY <3>1, <3>2
  <2> QED
    BY <1>1, <1>2, <2>4, <2>5, <2>6, <2>7 DEF HoldInv
<1>10. FdInv'
  <2>1. Open' \subseteq Open \cup {c} /\ Relays' \subseteq Relays
    BY <1>5, <1>6 DEF Open, Relays
  <2>2. ht_leaked' \in Nat
    BY <1>8 DEF HttpTyped
  <2> QED
    BY <1>2, <2>1, <2>2, FdStep
<1>11. WakeInv'
  <2>1. ht_conf.threads \subseteq HttpThread
    BY HttpFinite
  <2>2. Asleep' = Asleep /\ Awake' = Awake /\ Awake' \subseteq HttpThread
    BY <1>2, <1>6, <2>1 DEF Asleep, Awake
  <2>3. Len(ht_queue') <= Len(ht_queue) /\ Len(ht_queue') \in Nat
    BY <1>1, <1>2 DEF HttpTyped
  <2> QED
    BY <2>2, <2>3, WakeKeeps
<1> QED
  BY <1>8, <1>9, <1>10, <1>11 DEF HttpInv

LEMMA CloseStep ==
    ASSUME HttpInv, NEW t \in Threads, garcon_forever(t)
    PROVE  HttpInv'
<1> DEFINE c == ht_has[t]
<1>1. HttpTyped /\ HoldInv
  BY DEF HttpInv
<1>2. t \in HttpAll /\ ht_conf.threads \subseteq HttpThread /\ (t # Main => t \in ht_conf.threads)
  BY HttpFinite DEF Threads, HttpAll
<1>3. /\ ht_pc[t] = "close" /\ ht_conn' = [ht_conn EXCEPT ![c].state = "closed"]
      /\ ht_has' = [ht_has EXCEPT ![t] = NoConn]
      /\ ht_pc' = [ht_pc EXCEPT ![t] = IF t = Main THEN "accept" ELSE "pop"]
      /\ UNCHANGED <<ht_conf, ht_queue, ht_leaked, ht_helper>>
  BY DEF garcon_forever, Go
<1>4. "close" \in Holding /\ "closed" \in ConnState
  BY DEF Holding, ConnState
<1>5. c \in HttpConn /\ c # NoConn /\ ht_conn[c].state \in {"accepted", "served"}
  BY <1>1, <1>2, <1>3, <1>4 DEF HttpTyped, HoldInv
<1>6. /\ ht_conn' \in [HttpConn -> [state : ConnState, answer : Answer]]
      /\ ht_conn'[c].state = "closed" /\ \A d \in HttpConn : d # c => ht_conn'[d] = ht_conn[d]
  BY <1>1, <1>3, <1>4, <1>5, StateSet DEF HttpTyped
<1>7. /\ ht_pc' \in [HttpAll -> PoolPc \cup MainPc]
      /\ ht_pc'[t] = (IF t = Main THEN "accept" ELSE "pop")
      /\ \A u \in HttpAll : u # t => ht_pc'[u] = ht_pc[u]
  BY <1>1, <1>2, <1>3 DEF HttpTyped, PoolPc, MainPc
<1>8. /\ ht_has' \in [HttpAll -> HttpConn \cup {NoConn}] /\ ht_has'[t] = NoConn
      /\ \A u \in HttpAll : u # t => ht_has'[u] = ht_has[u]
  BY <1>1, <1>2, <1>3 DEF HttpTyped
<1>9. HttpTyped'
  <2>1. ht_pc'[Main] \in MainPc /\ \A u \in HttpThread : ht_pc'[u] \in PoolPc
    BY <1>1, <1>2, <1>7, HttpAssumption DEF HttpTyped, HttpAll, MainPc, PoolPc
  <2>2. \A u \in HttpThread \ ht_conf.threads : ht_pc'[u] = "none"
    BY <1>1, <1>2, <1>7, HttpAssumption DEF HttpTyped, HttpAll
  <2> QED
    BY <1>1, <1>3, <1>6, <1>7, <1>8, <2>1, <2>2 DEF HttpTyped
<1>10. HoldInv'
  <2>1. \A u \in HttpAll : u # t => ht_has[u] # c
    BY <1>1, <1>2, <1>5 DEF HoldInv
  <2>2. \A i \in 1 .. Len(ht_queue) : ht_queue[i] \in HttpConn /\ ht_queue[i] # c
    BY <1>1, <1>5 DEF HoldInv, HttpTyped
  <2>3. \A u \in HttpAll : ht_has[u] # NoConn => ht_has[u] \in HttpConn
    BY <1>1 DEF HttpTyped
  <2> HIDE DEF c
  <2>4. \A u \in HttpAll : ht_has'[u] # NoConn <=> ht_pc'[u] \in Holding
    BY <1>1, <1>7, <1>8 DEF HoldInv, Holding
  <2>5. /\ \A u \in HttpAll : ht_has'[u] # NoConn => ht_conn'[ht_has'[u]].state \in {"accepted", "served"}
        /\ \A u, v \in HttpAll : ht_has'[u] # NoConn /\ ht_has'[u] = ht_has'[v] => u = v
    BY <1>1, <1>6, <1>8, <2>1, <2>3 DEF HoldInv
  <2>6. /\ \A i \in 1 .. Len(ht_queue) : ht_conn'[ht_queue[i]].state = "queued"
        /\ \A d \in HttpConn :
              ht_conn'[d].state = "queued" => \E i \in 1 .. Len(ht_queue) : ht_queue[i] = d
    BY <1>1, <1>6, <2>2 DEF HoldInv
  <2>7. ASSUME NEW d \in HttpConn, ht_conn'[d].state \in {"accepted", "served"}
        PROVE  \E u \in HttpAll : ht_has'[u] = d
    <3>1. d # c
      BY <1>6, <2>7
    <3>2. PICK u \in HttpAll : ht_has[u] = d
      BY <1>1, <1>6, <2>7, <3>1 DEF HoldInv
    <3>3. u # t
      BY <3>1, <3>2 DEF c
    <3> QED
      BY <1>8, <3>2, <3>3
  <2> QED
    BY <1>1, <1>3, <2>4, <2>5, <2>6, <2>7 DEF HoldInv
<1>11. FdInv'
  <2>1. Open' \subseteq Open /\ Relays' \subseteq Relays
    BY <1>6, <1>7 DEF Open, Relays
  <2>2. ht_leaked' \in Nat /\ ht_leaked' <= ht_leaked + (MaxFds - Used)
    BY <1>3, HttpFinite
  <2> QED
    BY <2>1, <2>2, FdStep
<1>12. WakeInv'
  <2>1. Asleep' \subseteq Asleep /\ Awake \subseteq Awake' /\ Awake' \subseteq HttpThread
    BY <1>2, <1>3, <1>7 DEF Asleep, Awake, HttpAll
  <2>2. Len(ht_queue') <= Len(ht_queue) /\ Len(ht_queue') \in Nat
    BY <1>1, <1>3 DEF HttpTyped
  <2> QED
    BY <2>1, <2>2, WakeKeeps
<1> QED
  BY <1>9, <1>10, <1>11, <1>12 DEF HttpInv

\* Someone who sleeps on the empty queue is woken for the connection.
LEMMA PushStep ==
    ASSUME HttpInv, wq_push
    PROVE  HttpInv'
<1> DEFINE c == ht_has[Main]
           n == Len(ht_queue)
           pcs == [ht_pc EXCEPT ![Main] = "accept"]
<1>1. HttpTyped /\ HoldInv /\ ht_conf.threads \subseteq HttpThread
  BY HttpFinite DEF HttpInv
<1>2. ht_pc[Main] = "push" /\ UNCHANGED <<ht_conf, ht_leaked, ht_helper>> /\ Main \in HttpAll
  BY DEF wq_push, HttpAll
<1>3. CASE n = Cardinality(ht_conf.threads)
  <2>1. ht_pc' = [ht_pc EXCEPT ![Main] = "is_not_full"] /\ UNCHANGED <<ht_queue, ht_conn, ht_has>>
    BY <1>3 DEF wq_push, Go
  <2>2. /\ ht_pc' \in [HttpAll -> PoolPc \cup MainPc] /\ ht_pc'[Main] = "is_not_full"
        /\ \A u \in HttpAll : u # Main => ht_pc'[u] = ht_pc[u]
    BY <1>1, <1>2, <2>1 DEF HttpTyped, MainPc
  <2>3. ht_pc'[Main] \in MainPc /\ \A u \in HttpThread : ht_pc'[u] = ht_pc[u]
    BY <2>2, HttpAssumption DEF HttpAll, MainPc
  <2>4. HttpTyped'
    BY <1>1, <1>2, <2>1, <2>2, <2>3 DEF HttpTyped
  <2>5. \A u \in HttpAll :
            ht_pc'[u] = ht_pc[u] \/ (ht_pc[u] \in Holding /\ ht_pc'[u] \in Holding \ {"relay"})
    BY <1>2, <2>2 DEF Holding
  <2>6. ht_leaked' <= ht_leaked + (MaxFds - Used)
    BY <1>2, HttpFinite
  <2> QED
    BY <1>2, <2>1, <2>4, <2>5, <2>6, MovesOn
<1>4. CASE n # Cardinality(ht_conf.threads)
  <2>1. /\ ht_queue' = Append(ht_queue, c) /\ ht_conn' = [ht_conn EXCEPT ![c].state = "queued"]
        /\ ht_has' = [ht_has EXCEPT ![Main] = NoConn] /\ ht_pc' \in Signal(pcs, "is_not_empty", "pop")
    BY <1>4 DEF wq_push, tell_not_empty
  <2>2. "push" \in Holding /\ "accept" \notin Holding /\ "pop" \notin Holding
           /\ "is_not_empty" \notin Holding /\ "queued" \in ConnState
    BY DEF Holding, ConnState
  <2>3. c \in HttpConn /\ c # NoConn /\ ht_conn[c].state \in {"accepted", "served"}
    BY <1>1, <1>2, <2>2 DEF HttpTyped, HoldInv
  <2>4. /\ ht_conn' \in [HttpConn -> [state : ConnState, answer : Answer]]
        /\ ht_conn'[c].state = "queued" /\ \A d \in HttpConn : d # c => ht_conn'[d] = ht_conn[d]
    BY <1>1, <2>1, <2>2, <2>3, StateSet DEF HttpTyped
  <2>5. /\ ht_has' \in [HttpAll -> HttpConn \cup {NoConn}] /\ ht_has'[Main] = NoConn
        /\ \A u \in HttpAll : u # Main => ht_has'[u] = ht_has[u]
    BY <1>1, <1>2, <2>1 DEF HttpTyped
  <2>6. /\ n \in Nat /\ n < Cardinality(ht_conf.threads) /\ ht_queue' \in Seq(HttpConn)
        /\ Len(ht_queue') = n + 1 /\ ht_queue'[n + 1] = c /\ \A i \in 1 .. n : ht_queue'[i] = ht_queue[i]
    <3>1. n \in Nat /\ n <= Cardinality(ht_conf.threads) /\ ht_queue \in Seq(HttpConn)
      BY <1>1 DEF HttpTyped
    <3>2. Cardinality(ht_conf.threads) \in Nat
      BY HttpFinite
    <3> HIDE DEF c
    <3> QED
      BY <1>4, <2>1, <2>3, <3>1, <3>2
  <2>7. /\ pcs \in [HttpAll -> PoolPc \cup MainPc] /\ pcs[Main] = "accept"
        /\ "pop" \in PoolPc \cup MainPc /\ \A u \in HttpAll : u # Main => pcs[u] = ht_pc[u]
    <3>1. "accept" \in PoolPc \cup MainPc /\ "pop" \in PoolPc \cup MainPc
      BY DEF PoolPc, MainPc
    <3>2. ht_pc \in [HttpAll -> PoolPc \cup MainPc]
      BY <1>1 DEF HttpTyped
    <3> QED
      BY <1>2, <3>1, <3>2
  <2> HIDE DEF pcs
  <2>8. /\ ht_pc' \in [HttpAll -> PoolPc \cup MainPc]
        /\ \/ ht_pc' = pcs /\ \A u \in HttpAll : pcs[u] # "is_not_empty"
           \/ \E u \in HttpAll : /\ pcs[u] = "is_not_empty" /\ ht_pc'[u] = "pop"
                                 /\ \A v \in HttpAll : v # u => ht_pc'[v] = pcs[v]
    BY <2>1, <2>7, SignalFacts
  <2>9. /\ ht_pc'[Main] = "accept"
        /\ \A u \in HttpThread : \/ ht_pc'[u] = ht_pc[u]
                                 \/ ht_pc[u] = "is_not_empty" /\ ht_pc'[u] = "pop"
        /\ \A u \in HttpAll : u # Main => u \in HttpThread
    BY <1>2, <2>7, <2>8, HttpAssumption DEF HttpAll
  <2>10. HttpTyped'
    <3>1. ht_pc'[Main] \in MainPc /\ \A u \in HttpThread : ht_pc'[u] \in PoolPc
      BY <1>1, <2>9 DEF HttpTyped, MainPc, PoolPc
    <3>2. \A u \in HttpThread \ ht_conf.threads : ht_pc'[u] = "none"
      BY <1>1, <2>9 DEF HttpTyped
    <3>3. Len(ht_queue') <= Cardinality(ht_conf.threads)
      BY <2>6, HttpFinite
    <3> QED
      BY <1>1, <1>2, <2>4, <2>5, <2>6, <2>8, <3>1, <3>2, <3>3 DEF HttpTyped
  <2>11. HoldInv'
    <3>1. \A u \in HttpAll : u # Main => ht_has[u] # c
      BY <1>1, <1>2, <2>3 DEF HoldInv
    <3>2. \A i \in 1 .. n : ht_queue[i] \in HttpConn /\ ht_queue[i] # c
      BY <1>1, <2>3, <2>6 DEF HoldInv, HttpTyped
    <3>3. \A u \in HttpAll : ht_has[u] # NoConn => ht_has[u] \in HttpConn
      BY <1>1 DEF HttpTyped
    <3> HIDE DEF c, n
    <3>4. \A u \in HttpAll : ht_has'[u] # NoConn <=> ht_pc'[u] \in Holding
      BY <1>1, <2>2, <2>5, <2>9 DEF HoldInv
    <3>5. /\ \A u \in HttpAll :
                ht_has'[u] # NoConn => ht_conn'[ht_has'[u]].state \in {"accepted", "served"}
          /\ \A u, v \in HttpAll : ht_has'[u] # NoConn /\ ht_has'[u] = ht_has'[v] => u = v
      BY <1>1, <2>4, <2>5, <3>1, <3>3 DEF HoldInv
    <3>6. \A i \in 1 .. n : ht_conn[ht_queue[i]].state = "queued"
      BY <1>1 DEF HoldInv, n
    <3>7. \A i, j \in 1 .. n : ht_queue[i] = ht_queue[j] => i = j
      BY <1>1 DEF HoldInv, n
    <3>8. \A i \in 1 .. n + 1 : ht_conn'[ht_queue'[i]].state = "queued"
      BY <2>4, <2>6, <3>2, <3>6
    <3>9. \A i, j \in 1 .. n + 1 : ht_queue'[i] = ht_queue'[j] => i = j
      BY <2>6, <3>2, <3>7
    <3>10. ASSUME NEW d \in HttpConn, ht_conn'[d].state = "queued"
           PROVE  \E i \in 1 .. n + 1 : ht_queue'[i] = d
      <4>1. CASE d = c
        BY <2>6, <4>1
      <4>2. CASE d # c
        <5>1. PICK i \in 1 .. n : ht_queue[i] = d
          BY <1>1, <2>4, <3>10, <4>2 DEF HoldInv, n
        <5> QED
          BY <2>6, <5>1
      <4> QED
        BY <4>1, <4>2
    <3>11. ASSUME NEW d \in HttpConn, ht_conn'[d].state \in {"accepted", "served"}
           PROVE  \E u \in HttpAll : ht_has'[u] = d
      <4>1. d # c
        BY <2>4, <3>11
      <4>2. PICK u \in HttpAll : ht_has[u] = d
        BY <1>1, <2>4, <3>11, <4>1 DEF HoldInv
      <4>3. u # Main
        BY <4>1, <4>2 DEF c
      <4> QED
        BY <2>5, <4>2, <4>3
    <3> QED
      BY <2>6, <3>4, <3>5, <3>8, <3>9, <3>10, <3>11 DEF HoldInv
  <2>12. FdInv'
    <3>1. Open' \subseteq Open
      BY <2>3, <2>4 DEF Open
    <3>2. Relays' \subseteq Relays
      BY <1>2, <2>9 DEF Relays, HttpAll
    <3>3. ht_leaked' \in Nat /\ ht_leaked' <= ht_leaked + (MaxFds - Used)
      BY <1>2, HttpFinite
    <3> QED
      BY <3>1, <3>2, <3>3, FdStep
  <2>13. WakeInv'
    <3>1. CASE Asleep = {}
      <4>1. Asleep' = {}
        BY <1>1, <1>2, <2>9, <3>1 DEF Asleep
      <4> QED
        BY <4>1 DEF WakeInv
    <3>2. CASE Asleep # {}
      <4>1. PICK s \in HttpThread : ht_pc[s] = "is_not_empty"
        BY <1>1, <3>2 DEF Asleep
      <4>2. pcs[s] = "is_not_empty" /\ s \in HttpAll
        BY <2>7, <4>1, HttpAssumption DEF HttpAll
      <4>3. PICK u \in HttpAll : /\ pcs[u] = "is_not_empty" /\ ht_pc'[u] = "pop"
                                 /\ \A v \in HttpAll : v # u => ht_pc'[v] = pcs[v]
        BY <2>8, <4>2
      <4>4. u # Main /\ u \in HttpThread /\ ht_pc[u] = "is_not_empty"
        BY <2>7, <2>9, <4>3
      <4>5. u \in ht_conf.threads /\ u \notin Awake
        BY <1>1, <4>4 DEF HttpTyped, Awake
      <4>6. Awake' = Awake \cup {u}
        BY <1>1, <1>2, <2>9, <4>3, <4>4, <4>5, <2>7 DEF Awake, HttpAll
      <4>7. IsFiniteSet(Awake) /\ Cardinality(Awake) \in Nat
        BY HttpFinite
      <4>8. Cardinality(Awake \cup {u}) = Cardinality(Awake) + 1
        BY <4>5, <4>7, FS_AddElement
      <4>9. n <= Cardinality(Awake)
        BY <3>2 DEF HttpInv, WakeInv
      <4>10. Cardinality(Awake') = Cardinality(Awake) + 1
        BY <4>6, <4>8
      <4> QED
        BY <2>6, <4>7, <4>9, <4>10 DEF WakeInv
    <3> QED
      BY <3>1, <3>2
  <2> QED
    BY <2>10, <2>11, <2>12, <2>13 DEF HttpInv
<1> QED
  BY <1>3, <1>4

\* The first connection of the queue gets into the hands of a thread of the pool.
LEMMA PopStep ==
    ASSUME HttpInv, NEW t \in Threads, wq_pop(t)
    PROVE  HttpInv'
<1> DEFINE c == Head(ht_queue)
           n == Len(ht_queue)
           pcs == [ht_pc EXCEPT ![t] = "handle"]
<1>1. HttpTyped /\ HoldInv /\ ht_conf.threads \subseteq HttpThread
  BY HttpFinite DEF HttpInv
<1>2. ht_pc[t] = "pop" /\ UNCHANGED <<ht_conf, ht_leaked, ht_helper>>
  BY DEF wq_pop
<1>3. t \in ht_conf.threads /\ t \in HttpThread /\ t \in HttpAll /\ t # Main
  BY <1>1, <1>2, HttpAssumption DEF Threads, HttpAll, HttpTyped, MainPc
<1>4. ht_queue \in Seq(HttpConn) /\ n \in Nat /\ n <= Cardinality(ht_conf.threads)
  BY <1>1 DEF HttpTyped
<1>5. /\ IsFiniteSet(Awake) /\ Cardinality(Awake) \in Nat /\ t \in Awake
      /\ Cardinality(Awake \ {t}) = Cardinality(Awake) - 1
  BY <1>2, <1>3, HttpFinite, FS_RemoveElement DEF Awake
<1>6. ht_leaked' \in Nat /\ ht_leaked' <= ht_leaked + (MaxFds - Used)
  BY <1>2, HttpFinite
<1>7. CASE ht_queue = <<>>
  <2>1. ht_pc' = [ht_pc EXCEPT ![t] = "is_not_empty"] /\ UNCHANGED <<ht_queue, ht_conn, ht_has>>
    BY <1>7 DEF wq_pop, Go
  <2>2. "is_not_empty" \in PoolPc
    BY DEF PoolPc
  <2>3. /\ ht_pc' \in [HttpAll -> PoolPc \cup MainPc] /\ ht_pc'[t] = "is_not_empty"
        /\ \A u \in HttpAll : u # t => ht_pc'[u] = ht_pc[u]
    BY <1>1, <1>3, <2>1, <2>2 DEF HttpTyped
  <2>4. HttpTyped'
    <3>1. ht_pc'[Main] \in MainPc /\ \A u \in HttpThread : ht_pc'[u] \in PoolPc
      BY <1>1, <1>3, <2>2, <2>3 DEF HttpTyped, HttpAll
    <3>2. \A u \in HttpThread \ ht_conf.threads : ht_pc'[u] = "none"
      BY <1>1, <1>3, <2>3 DEF HttpTyped, HttpAll
    <3> QED
      BY <1>1, <1>2, <2>1, <2>3, <3>1, <3>2 DEF HttpTyped
  <2>5. HoldInv'
    <3>1. \A u \in HttpAll : ht_pc'[u] \in Holding <=> ht_pc[u] \in Holding
      BY <1>2, <2>3 DEF Holding
    <3> QED
      BY <2>1, <3>1, HoldKeeps
  <2>6. FdInv'
    <3>1. Open' \subseteq Open /\ Relays' \subseteq Relays
      BY <2>1, <2>3 DEF Open, Relays
    <3> QED
      BY <1>6, <3>1, FdStep
  <2>7. WakeInv'
    <3>1. Awake' \subseteq Awake
      BY <1>1, <1>2, <2>3 DEF Awake, HttpAll
    <3>2. Cardinality(Awake') \in Nat
      BY <1>5, <3>1, SubsetCount
    <3>3. Len(ht_queue') = 0
      BY <1>7, <2>1
    <3> QED
      BY <3>2, <3>3 DEF WakeInv
  <2> QED
    BY <2>4, <2>5, <2>6, <2>7 DEF HttpInv
<1>8. CASE ht_queue # <<>>
  <2>1. /\ ht_queue' = Tail(ht_queue) /\ ht_conn' = [ht_conn EXCEPT ![c].state = "served"]
        /\ ht_has' = [ht_has EXCEPT ![t] = c] /\ ht_pc' \in Signal(pcs, "is_not_full", "push")
    BY <1>8 DEF wq_pop, tell_not_full
  <2>2. /\ "handle" \in Holding /\ "pop" \notin Holding /\ "push" \in Holding /\ "is_not_full" \in Holding
        /\ "served" \in ConnState
    BY DEF Holding, ConnState
  <2>3. /\ n > 0 /\ c = ht_queue[1] /\ c \in HttpConn /\ c # NoConn
        /\ ht_queue' \in Seq(HttpConn) /\ Len(ht_queue') = n - 1
        /\ \A i \in 1 .. n - 1 : ht_queue'[i] = ht_queue[i + 1]
    BY <1>4, <1>8, <2>1, HttpAssumption
  <2>4. ht_conn[c].state = "queued"
    BY <1>1, <1>4, <2>3 DEF HoldInv
  <2> HIDE DEF c, n
  <2>5. /\ ht_conn' \in [HttpConn -> [state : ConnState, answer : Answer]]
        /\ ht_conn'[c].state = "served" /\ \A d \in HttpConn : d # c => ht_conn'[d] = ht_conn[d]
    BY <1>1, <2>1, <2>2, <2>3, StateSet DEF HttpTyped
  <2>6. /\ ht_has' \in [HttpAll -> HttpConn \cup {NoConn}] /\ ht_has'[t] = c
        /\ \A u \in HttpAll : u # t => ht_has'[u] = ht_has[u]
    BY <1>1, <1>3, <2>1, <2>3 DEF HttpTyped
  <2>7. /\ pcs \in [HttpAll -> PoolPc \cup MainPc] /\ pcs[t] = "handle"
        /\ "push" \in PoolPc \cup MainPc /\ \A u \in HttpAll : u # t => pcs[u] = ht_pc[u]
    <3>1. "handle" \in PoolPc \cup MainPc /\ "push" \in PoolPc \cup MainPc
      BY DEF PoolPc, MainPc
    <3>2. ht_pc \in [HttpAll -> PoolPc \cup MainPc]
      BY <1>1 DEF HttpTyped
    <3> QED
      BY <1>3, <3>1, <3>2
  <2> HIDE DEF pcs
  <2>8. /\ ht_pc' \in [HttpAll -> PoolPc \cup MainPc]
        /\ \/ ht_pc' = pcs /\ \A u \in HttpAll : pcs[u] # "is_not_full"
           \/ \E u \in HttpAll : /\ pcs[u] = "is_not_full" /\ ht_pc'[u] = "push"
                                 /\ \A v \in HttpAll : v # u => ht_pc'[v] = pcs[v]
    BY <2>1, <2>7, SignalFacts
  <2>9. /\ ht_pc'[t] = "handle"
        /\ \A u \in HttpThread : u # t => ht_pc'[u] = ht_pc[u]
        /\ ht_pc'[Main] = ht_pc[Main] \/ (ht_pc[Main] = "is_not_full" /\ ht_pc'[Main] = "push")
    <3>1. \A u \in HttpThread : ht_pc[u] # "is_not_full"
      BY <1>1 DEF HttpTyped, PoolPc
    <3> QED
      BY <1>3, <2>7, <2>8, <3>1 DEF HttpAll
  <2>10. HttpTyped'
    <3>1. ht_pc'[Main] \in MainPc /\ \A u \in HttpThread : ht_pc'[u] \in PoolPc
      BY <1>1, <2>9 DEF HttpTyped, MainPc, PoolPc
    <3>2. \A u \in HttpThread \ ht_conf.threads : ht_pc'[u] = "none"
      BY <1>1, <1>3, <2>9 DEF HttpTyped
    <3>3. Len(ht_queue') <= Cardinality(ht_conf.threads)
      BY <1>4, <2>3, HttpFinite
    <3> QED
      BY <1>1, <1>2, <2>3, <2>5, <2>6, <2>8, <3>1, <3>2, <3>3 DEF HttpTyped
  <2>11. HoldInv'
    <3>1. /\ \A i \in 1 .. n : ht_conn[ht_queue[i]].state = "queued" /\ ht_queue[i] \in HttpConn
          /\ \A i, j \in 1 .. n : ht_queue[i] = ht_queue[j] => i = j
      BY <1>1, <1>4, SMTT(20) DEF HoldInv, n
    <3>2. \A i \in 1 .. n - 1 : ht_queue'[i] \in HttpConn /\ ht_queue'[i] # c
      BY <1>4, <2>3, <3>1
    <3>3. \A u \in HttpAll : ht_has[u] # NoConn => ht_has[u] \in HttpConn /\ ht_has[u] # c
      BY <1>1, <2>4 DEF HttpTyped, HoldInv
    <3>4. \A u \in HttpAll : ht_has'[u] # NoConn <=> ht_pc'[u] \in Holding
      BY <1>1, <1>3, <2>2, <2>3, <2>6, <2>9 DEF HoldInv, HttpAll
    <3>5. /\ \A u \in HttpAll :
                ht_has'[u] # NoConn => ht_conn'[ht_has'[u]].state \in {"accepted", "served"}
          /\ \A u, v \in HttpAll : ht_has'[u] # NoConn /\ ht_has'[u] = ht_has'[v] => u = v
      BY <1>1, <2>5, <2>6, <3>3 DEF HoldInv
    <3>6. \A i \in 1 .. n - 1 : ht_conn'[ht_queue'[i]].state = "queued"
      BY <1>4, <2>3, <2>5, <3>1, <3>2
    <3>7. \A i, j \in 1 .. n - 1 : ht_queue'[i] = ht_queue'[j] => i = j
      <4>1. ASSUME NEW i \in 1 .. n - 1, NEW j \in 1 .. n - 1, ht_queue'[i] = ht_queue'[j]
            PROVE  i = j
        <5>1. i + 1 \in 1 .. n /\ j + 1 \in 1 .. n /\ ht_queue[i + 1] = ht_queue[j + 1]
          BY <1>4, <2>3, <4>1
        <5>2. i + 1 = j + 1
          BY <3>1, <5>1
        <5> QED
          BY <5>2
      <4> QED
        BY <4>1
    <3>8. ASSUME NEW d \in HttpConn, ht_conn'[d].state = "queued"
          PROVE  \E i \in 1 .. n - 1 : ht_queue'[i] = d
      <4>1. d # c
        BY <2>5, <3>8
      <4>2. PICK i \in 1 .. n : ht_queue[i] = d
        BY <1>1, <2>5, <3>8, <4>1 DEF HoldInv, n
      <4>3. i # 1 /\ i - 1 \in 1 .. n - 1 /\ ht_queue'[i - 1] = ht_queue[(i - 1) + 1] /\ (i - 1) + 1 = i
        BY <1>4, <2>3, <4>1, <4>2
      <4> QED
        BY <4>2, <4>3
    <3>9. ASSUME NEW d \in HttpConn, ht_conn'[d].state \in {"accepted", "served"}
          PROVE  \E u \in HttpAll : ht_has'[u] = d
      <4>1. CASE d = c
        BY <1>3, <2>6, <4>1
      <4>2. CASE d # c
        <5>1. PICK u \in HttpAll : ht_has[u] = d
          BY <1>1, <2>5, <3>9, <4>2 DEF HoldInv
        <5>2. ht_has[t] = NoConn
          BY <1>1, <1>2, <1>3, <2>2 DEF HoldInv
        <5>3. u # t
          BY <5>1, <5>2, HttpAssumption
        <5> QED
          BY <2>6, <5>1, <5>3
      <4> QED
        BY <4>1, <4>2
    <3> QED
      BY <2>3, <3>4, <3>5, <3>6, <3>7, <3>8, <3>9 DEF HoldInv
  <2>12. FdInv'
    <3>1. Open' \subseteq Open
      BY <2>4, <2>5 DEF Open
    <3>2. Relays' \subseteq Relays
      BY <2>9 DEF Relays, HttpAll
    <3> QED
      BY <1>6, <3>1, <3>2, FdStep
  <2>13. WakeInv'
    <3>1. Awake' = Awake \ {t} /\ Asleep' = Asleep
      BY <1>1, <1>2, <1>3, <2>9 DEF Awake, Asleep
    <3>2. Cardinality(Awake') = Cardinality(Awake) - 1
      BY <1>5, <3>1
    <3>3. Asleep # {} => n <= Cardinality(Awake)
      BY DEF HttpInv, WakeInv, n
    <3> QED
      BY <1>4, <1>5, <2>3, <3>1, <3>2, <3>3 DEF WakeInv
  <2> QED
    BY <2>10, <2>11, <2>12, <2>13 DEF HttpInv
<1> QED
  BY <1>7, <1>8

LEMMA HttpBegins ==
    ASSUME HttpInit
    PROVE  HttpInv
<1>1. PICK conf \in HttpConfig : http_init(conf)
  BY DEF HttpInit
<1>2. conf.threads \subseteq HttpThread
  BY HttpAssumption
<1>3. /\ ht_conf = conf /\ ht_queue = <<>> /\ ht_leaked = 0 /\ ht_helper = {}
      /\ ht_conn = [c \in HttpConn |-> [state |-> "none", answer |-> "none"]]
      /\ ht_has = [t \in HttpAll |-> NoConn]
      /\ ht_pc = [t \in HttpAll |->
                     IF t = Main THEN "accept" ELSE IF t \in conf.threads THEN "pop" ELSE "none"]
  BY <1>1 DEF http_init, HttpAll
<1>4. HttpTyped
  <2>1. ht_conn \in [HttpConn -> [state : ConnState, answer : Answer]]
    BY <1>3 DEF ConnState, Answer
  <2>2. IsFiniteSet(conf.threads) /\ Cardinality(conf.threads) \in Nat
    BY <1>2, HttpAssumption, FS_Subset, FS_CardinalityType
  <2>3. ht_queue \in Seq(HttpConn) /\ Len(ht_queue) <= Cardinality(ht_conf.threads)
    BY <1>3, <2>2
  <2>4. /\ ht_pc \in [HttpAll -> PoolPc \cup MainPc] /\ ht_pc[Main] \in MainPc
        /\ \A t \in HttpThread : ht_pc[t] \in PoolPc
        /\ \A t \in HttpThread \ ht_conf.threads : ht_pc[t] = "none"
    BY <1>3, HttpAssumption DEF HttpAll, PoolPc, MainPc
  <2> QED
    BY <1>3, <2>1, <2>3, <2>4 DEF HttpTyped
<1>5. HoldInv
  BY <1>3 DEF HoldInv, Holding
<1>6. FdInv
  <2>1. Open = {} /\ Relays = {}
    BY <1>3 DEF Open, Relays
  <2>2. Used = ht_leaked + Cardinality(Open) + Cardinality(Relays)
    BY DEF Used, Open, Relays, HttpAll
  <2> QED
    BY <1>3, <2>1, <2>2, FS_EmptySet, HttpAssumption DEF FdInv
<1>7. WakeInv
  <2>1. Asleep = {}
    BY <1>2, <1>3 DEF Asleep, HttpAll
  <2> QED
    BY <2>1 DEF WakeInv
<1> QED
  BY <1>4, <1>5, <1>6, <1>7 DEF HttpInv

LEMMA HttpStep ==
    ASSUME HttpInv, [HttpNext]_httpVars
    PROVE  HttpInv'
<1>1. ASSUME NEW t \in Threads, HttpThreadStep(t)
      PROVE  HttpInv'
  BY <1>1, PopStep, CloseStep, ProxyConnectStep, ProxyEndStep, FilesStep DEF HttpThreadStep
<1>2. CASE HttpServerStep
  BY <1>1, <1>2, PushStep, HelperStep DEF HttpServerStep
<1>3. ASSUME NEW c \in HttpConn, serve_forever(c) \/ http_connect(c)
      PROVE  HttpInv'
  BY <1>3, AcceptStep, ClientConnects
<1>4. CASE UNCHANGED httpVars
  <2>1. UNCHANGED <<ht_conf, ht_conn, ht_queue, ht_pc, ht_has, ht_leaked, ht_helper>>
    BY <1>4 DEF httpVars
  <2>2. HttpTyped'
    BY <2>1 DEF HttpInv, HttpTyped
  <2>3. ht_leaked' <= ht_leaked + (MaxFds - Used)
    BY <2>1, HttpFinite
  <2> QED
    BY <2>1, <2>2, <2>3, MovesOn
<1> QED
  BY <1>2, <1>3, <1>4 DEF HttpNext

\* The places of a connection, counted.
LEMMA OnePlace ==
    ASSUME HttpInv, NEW c \in HttpConn
    PROVE  Cardinality({i \in DOMAIN ht_queue : ht_queue[i] = c})
             + Cardinality({t \in DOMAIN ht_has : ht_has[t] = c})
             = IF ht_conn[c].state \in {"accepted", "queued", "served"} THEN 1 ELSE 0
<1> DEFINE Q == {i \in DOMAIN ht_queue : ht_queue[i] = c}
           H == {t \in DOMAIN ht_has : ht_has[t] = c}
<1>1. /\ HoldInv /\ c # NoConn /\ DOMAIN ht_queue = 1 .. Len(ht_queue) /\ DOMAIN ht_has = HttpAll
  BY HttpAssumption DEF HttpInv, HttpTyped
<1>2. CASE ht_conn[c].state = "queued"
  <2>1. PICK i \in 1 .. Len(ht_queue) : ht_queue[i] = c
    BY <1>1, <1>2 DEF HoldInv
  <2>2. Q = {i}
    BY <1>1, <2>1 DEF HoldInv
  <2>3. H = {}
    BY <1>1, <1>2 DEF HoldInv
  <2>4. Cardinality(Q) = 1 /\ Cardinality(H) = 0
    BY <2>2, <2>3, FS_EmptySet, FS_Singleton
  <2> HIDE DEF Q, H
  <2>5. Cardinality(Q) + Cardinality(H) = 1
    BY <2>4
  <2> QED
    BY <1>2, <2>5 DEF Q, H
<1>3. CASE ht_conn[c].state \in {"accepted", "served"}
  <2>1. PICK t \in HttpAll : ht_has[t] = c
    BY <1>1, <1>3 DEF HoldInv
  <2>2. H = {t}
    BY <1>1, <2>1 DEF HoldInv
  <2>3. Q = {}
    BY <1>1, <1>3 DEF HoldInv
  <2>4. Cardinality(Q) = 0 /\ Cardinality(H) = 1
    BY <2>2, <2>3, FS_EmptySet, FS_Singleton
  <2> HIDE DEF Q, H
  <2>5. Cardinality(Q) + Cardinality(H) = 1
    BY <2>4
  <2> QED
    BY <1>3, <2>5 DEF Q, H
<1>4. CASE ht_conn[c].state \notin {"accepted", "queued", "served"}
  <2>1. Q = {} /\ H = {}
    BY <1>1, <1>4 DEF HoldInv
  <2>2. Cardinality(Q) = 0 /\ Cardinality(H) = 0
    BY <2>1, FS_EmptySet
  <2> HIDE DEF Q, H
  <2>3. Cardinality(Q) + Cardinality(H) = 0
    BY <2>2
  <2> QED
    BY <1>4, <2>3 DEF Q, H
<1> QED
  BY <1>2, <1>3, <1>4

LEMMA HttpOwned ==
    ASSUME HttpInv
    PROVE  ConnectionsOwned
<1>1. ht_leaked \in 0 .. MaxFds
  BY HttpFinite
<1>2. HttpTypeOK
  BY <1>1 DEF HttpInv, HttpTyped, HttpTypeOK, ConnState
<1> QED
  BY <1>2, OnePlace DEF HttpInv, WakeInv, Asleep, Awake, ConnectionsOwned

\* httpserver.c and wq.c: for any number of connections and threads, and whatever the
\* limit of descriptors, an accepted connection is in one place, the queue or the hands
\* of one thread, nobody uses a closed one, the descriptors stay within their limit,
\* and no thread sleeps on the queue while connections are left over.
THEOREM ConnectionsHaveOneOwner == HttpSpec => []ConnectionsOwned
<1>1. HttpInit => HttpInv
  BY HttpBegins
<1>2. HttpInv /\ [HttpNext]_httpVars => HttpInv'
  BY HttpStep
<1>3. HttpInv => ConnectionsOwned
  BY HttpOwned
<1> QED
  BY <1>1, <1>2, <1>3, PTL DEF HttpSpec
-----------------------------------------------------------------------------
(***************************************************************************)
(* NAT, rendezvous server and clients.  An answer of the server travels by *)
(* the public address of the client it is for, so the proof is about what  *)
(* the frames on their way, the NATs' tables and the server's information  *)
(* say of one address.                                                     *)
(***************************************************************************)

Site == NatClient \cup NatBox \cup {Rendezvous, Nobody}
Address == [ip : Site \X Nat, port : Int]
Body == [local : Address, public : Address]
Place == Site \cup {CHOOSE n \in NatBox : TRUE}
Frame == [at : Place, side : {"in", "out"}, src : Address, dst : Address, code : Nat, id : Nat,
          body : Body]
Session == [local : Address, outer : Address]
Bases == PortBase \cup {2000}
BoxState == [table : Seq(Body), sessions : SUBSET Session, blocked_range : SUBSET BlockedRange,
             base_port : Bases, counter : Nat]
ClientState == [my_ID : Nat, my_port : 0 .. MaxPort, peer_ID : Nat, peer_info : Body,
                connected : BOOLEAN, peer_session_kind : {"none", "local", "public"}]
OwnIps == {OwnIp(c) : c \in NatClient}
ServerIp == ServerAddr.ip

\* The k-th address that box b gives out while its base port is p.
Given(b, k, p) == Addr(<<b, k \div 3 + 1>>, (p + (k % 3) * 100) % PortWidth)

\* A table has clients' addresses on one side and addresses that are given out on the
\* other, none of which the box gives out again before a reset.
TableOK(b, n) ==
    /\ \A i \in DOMAIN n.table :
          /\ n.table[i].local.ip \in OwnIps /\ n.table[i].public.ip[1] = b
          /\ \A k \in Nat : k >= n.counter => n.table[i].public # Given(b, k, n.base_port)
    /\ \A i, j \in DOMAIN n.table :
          i # j => n.table[i].public # n.table[j].public /\ n.table[i].local # n.table[j].local

\* No box gives out the address a any more, whatever it is reset to.
Old(box, a) ==
    \A b \in NatBox : \A k \in Nat, p \in Bases : k >= box[b].counter => a # Given(b, k, p)

\* Whoever has the public address a may be answered by the server.
Answerable(box, a) ==
    \A b \in NatBox : \A i \in DOMAIN box[b].table :
        box[b].table[i].public = a => [local |-> a, outer |-> ServerAddr] \in box[b].sessions

\* The address a is, or leads to, that of the client with the address ip, if to any.
Leads(box, a, ip) ==
    /\ Old(box, a) /\ (a.ip \in OwnIps => a.ip = ip)
    /\ \A b \in NatBox : \A i \in DOMAIN box[b].table :
          box[b].table[i].public = a => box[b].table[i].local.ip = ip

\* What a frame on its way says, of the information of the server.
Honest(box, info, f) ==
    /\ f.src.ip = ServerIp =>
          f.src = ServerAddr /\ f.dst.ip # ServerIp /\ Old(box, f.dst) /\ Answerable(box, f.dst)
    /\ f.code = 0 /\ f.id # 0 => Leads(box, f.dst, info[f.id].local.ip)
    /\ f.code = 0 /\ f.dst.ip = ServerIp =>
          f.body.local.ip \in OwnIps /\ Leads(box, f.src, f.body.local.ip)
    /\ f.code \in {0, 1} /\ f.dst.ip = ServerIp =>
          f.dst = ServerAddr /\ Old(box, f.src) /\ Answerable(box, f.src)
    /\ f.code = 5 =>
          /\ f.body.local.ip \in OwnIps
          /\ f.id # 0 => f.id <= Len(info) /\ info[f.id].local.ip = f.body.local.ip
    /\ f.code = 6 => f.body.local.ip \in OwnIps

FrameOK(box, info, f) ==
    /\ f \in Frame
    /\ f.at \in NatBox /\ f.side = "in" => f.src.ip \in OwnIps
    /\ f.code = 0 => f.id <= Len(info)
    /\ PortsApart => Honest(box, info, f)
BoxesOK(box) ==
    /\ box \in [NatBox -> BoxState] /\ \A b \in NatBox : TableOK(b, box[b])
    /\ PortsApart => \A b \in NatBox : \A i \in DOMAIN box[b].table : Old(box, box[b].table[i].public)
InfoOK(info) ==
    /\ info \in Seq(Body) /\ Len(info) <= LastId
    /\ PortsApart => \A i \in 1 .. Len(info) : info[i].local.ip \in OwnIps
ClientOK(info, c, s) ==
    /\ s.my_ID <= Len(info)
    /\ PortsApart /\ s.my_ID > 0 => info[s.my_ID].local.ip = OwnIp(c)

NatInv ==
    /\ BoxesOK(nat_box) /\ InfoOK(nat_info) /\ nat_typed \in 0 .. MaxNatCommands
    /\ nat_client \in [NatClient -> ClientState]
    /\ \A c \in NatClient : ClientOK(nat_info, c, nat_client[c])
    /\ \A f \in nat_net : FrameOK(nat_box, nat_info, f)

LEMMA BasePorts ==
    ASSUME NEW p \in Bases
    PROVE  p \in Nat /\ p < PortWidth
<1>1. PortWidth \in Nat /\ 2000 < PortWidth
  BY DEF PortWidth
<1>2. p = 2000 \/ p \in PortBase
  BY DEF Bases
<1>3. PortBase \subseteq 0 .. PortWidth - 1
  BY NatAssumption, Zenon
<1>4. CASE p \in PortBase
  <2>1. p \in 0 .. PortWidth - 1
    BY <1>3, <1>4, Zenon
  <2> QED
    BY <1>1, <2>1
<1>5. CASE p = 2000
  BY <1>1, <1>5
<1> QED
  BY <1>2, <1>4, <1>5

\* Two base ports of which neither is 100 or 200 above the other.
LEMMA PortsDiffer ==
    ASSUME NEW p \in Nat, NEW q \in Nat, p < 65536, q < 65536,
           NEW r \in {0, 1, 2}, NEW s \in {0, 1, 2},
           (p + r * 100) % 65536 = (q + s * 100) % 65536,
           \/ p = q
           \/ /\ (p - q) % 65536 # 100 /\ (p - q) % 65536 # 200
              /\ (q - p) % 65536 # 100 /\ (q - p) % 65536 # 200
    PROVE  r = s
<1>1. ASSUME NEW x \in Nat, x < 65536 + 200
      PROVE  x % 65536 = IF x < 65536 THEN x ELSE x - 65536
  BY <1>1
<1>2. ASSUME NEW x \in Int, -65536 < x, x < 65536
      PROVE  x % 65536 = IF x < 0 THEN x + 65536 ELSE x
  BY <1>2
<1>3. r * 100 \in {0, 100, 200} /\ s * 100 \in {0, 100, 200}
  OBVIOUS
<1> DEFINE a == p + r * 100
           b == q + s * 100
<1>4. a \in Nat /\ b \in Nat /\ a < 65536 + 200 /\ b < 65536 + 200
  BY <1>3
<1>5. /\ a % 65536 = IF a < 65536 THEN a ELSE a - 65536
      /\ b % 65536 = IF b < 65536 THEN b ELSE b - 65536
  BY <1>1, <1>4
<1>6. /\ (p - q) % 65536 = IF p - q < 0 THEN p - q + 65536 ELSE p - q
      /\ (q - p) % 65536 = IF q - p < 0 THEN q - p + 65536 ELSE q - p
  BY <1>2
<1> QED
  BY <1>3, <1>5, <1>6

\* An address is given out once, as long as the base port stays or moves far enough.
LEMMA GivenOnce ==
    ASSUME NEW b, NEW k \in Nat, NEW m \in Nat, NEW p \in Bases, NEW q \in Bases,
           p = q \/ PortsApart, Given(b, k, p) = Given(b, m, q)
    PROVE  k = m
<1>1. k \div 3 = m \div 3 /\ (p + (k % 3) * 100) % PortWidth = (q + (m % 3) * 100) % PortWidth
  <2>1. <<b, k \div 3 + 1>> = <<b, m \div 3 + 1>>
    BY DEF Given, Addr
  <2>2. k \div 3 + 1 = m \div 3 + 1 /\ k \div 3 \in Int /\ m \div 3 \in Int
    BY <2>1
  <2>3. (p + (k % 3) * 100) % PortWidth = (q + (m % 3) * 100) % PortWidth
    BY DEF Given, Addr
  <2> QED
    BY <2>2, <2>3
<1>2. p \in Nat /\ p < PortWidth /\ q \in Nat /\ q < PortWidth
  BY BasePorts
<1>3. k % 3 \in {0, 1, 2} /\ m % 3 \in {0, 1, 2}
  OBVIOUS
<1>4. p = q \/ ((p - q) % PortWidth \notin {100, 200} /\ (q - p) % PortWidth \notin {100, 200})
  BY DEF PortsApart, Bases
<1>5. k % 3 = m % 3
  <2>1. /\ p \in Nat /\ p < 65536 /\ q \in Nat /\ q < 65536
        /\ \/ p = q
           \/ /\ (p - q) % 65536 # 100 /\ (p - q) % 65536 # 200
              /\ (q - p) % 65536 # 100 /\ (q - p) % 65536 # 200
    BY <1>2, <1>4 DEF PortWidth
  <2>2. (p + (k % 3) * 100) % 65536 = (q + (m % 3) * 100) % 65536
    BY <1>1 DEF PortWidth
  <2>3. PICK r \in {0, 1, 2}, v \in {0, 1, 2} : r = k % 3 /\ v = m % 3
    BY <1>3
  <2>4. (p + r * 100) % 65536 = (q + v * 100) % 65536
    BY <2>2, <2>3
  <2>5. r = v
    BY <2>1, <2>4, PortsDiffer
  <2> QED
    BY <2>3, <2>5
<1>6. k = 3 * (k \div 3) + (k % 3) /\ m = 3 * (m \div 3) + (m % 3)
  OBVIOUS
<1> QED
  BY <1>1, <1>5, <1>6

\* How the boxes may change: a table forgets everything, or loses nothing and gains
\* an address that is given out now.
Grows(x, y) ==
    \A b \in NatBox :
        /\ y[b].counter >= x[b].counter
        /\ \/ DOMAIN y[b].table = {}
           \/ /\ x[b].sessions \subseteq y[b].sessions
              /\ \A i \in DOMAIN y[b].table :
                    \/ \E j \in DOMAIN x[b].table : y[b].table[i] = x[b].table[j]
                    \/ \E p \in Bases : y[b].table[i].public = Given(b, x[b].counter, p)

LEMMA OldStays ==
    ASSUME NEW x \in [NatBox -> BoxState], NEW y \in [NatBox -> BoxState], Grows(x, y),
           NEW a, Old(x, a)
    PROVE  Old(y, a)
<1>1. \A b \in NatBox : x[b].counter \in Nat /\ y[b].counter \in Nat /\ y[b].counter >= x[b].counter
  BY DEF Grows, BoxState
<1> QED
  BY <1>1 DEF Old

LEMMA EntryStays ==
    ASSUME NEW x \in [NatBox -> BoxState], NEW y \in [NatBox -> BoxState], Grows(x, y),
           NEW a, Old(x, a), NEW b \in NatBox, NEW i \in DOMAIN y[b].table, y[b].table[i].public = a
    PROVE  /\ x[b].sessions \subseteq y[b].sessions
           /\ \E j \in DOMAIN x[b].table : y[b].table[i] = x[b].table[j]
<1>1. x[b].counter \in Nat
  BY DEF BoxState
<1>2. \A p \in Bases : a # Given(b, x[b].counter, p)
  BY <1>1 DEF Old
<1> QED
  BY <1>2 DEF Grows

LEMMA AnswerableStays ==
    ASSUME NEW x \in [NatBox -> BoxState], NEW y \in [NatBox -> BoxState], Grows(x, y),
           NEW a, Old(x, a), Answerable(x, a)
    PROVE  Answerable(y, a)
<1> SUFFICES ASSUME NEW b \in NatBox, NEW i \in DOMAIN y[b].table, y[b].table[i].public = a
             PROVE  [local |-> a, outer |-> ServerAddr] \in y[b].sessions
  BY DEF Answerable
<1>1. /\ x[b].sessions \subseteq y[b].sessions
      /\ \E j \in DOMAIN x[b].table : y[b].table[i] = x[b].table[j]
  BY EntryStays
<1> QED
  BY <1>1 DEF Answerable

LEMMA LeadsStays ==
    ASSUME NEW x \in [NatBox -> BoxState], NEW y \in [NatBox -> BoxState], Grows(x, y),
           NEW a, NEW ip, Leads(x, a, ip)
    PROVE  Leads(y, a, ip)
<1>1. Old(x, a) /\ Old(y, a) /\ (a.ip \in OwnIps => a.ip = ip)
  BY OldStays DEF Leads
<1>2. ASSUME NEW b \in NatBox, NEW i \in DOMAIN y[b].table, y[b].table[i].public = a
      PROVE  y[b].table[i].local.ip = ip
  <2>1. \E j \in DOMAIN x[b].table : y[b].table[i] = x[b].table[j]
    BY <1>1, <1>2, EntryStays
  <2> QED
    BY <1>2, <2>1 DEF Leads
<1> QED
  BY <1>1, <1>2 DEF Leads

\* How the server's information may change.
Knows(info, more) ==
    /\ Len(info) <= Len(more)
    /\ PortsApart => \A i \in 1 .. Len(info) : more[i].local.ip = info[i].local.ip

LEMMA FrameStays ==
    ASSUME NEW x \in [NatBox -> BoxState], NEW y \in [NatBox -> BoxState], Grows(x, y),
           NEW info \in Seq(Body), NEW more \in Seq(Body), Knows(info, more),
           NEW f, FrameOK(x, info, f)
    PROVE  FrameOK(y, more, f)
<1>1. /\ f \in Frame /\ (f.at \in NatBox /\ f.side = "in" => f.src.ip \in OwnIps)
      /\ f.code = 0 => f.id <= Len(info)
  BY DEF FrameOK
<1>2. f.id \in Nat /\ Len(info) \in Nat /\ Len(more) \in Nat /\ Len(info) <= Len(more)
  BY <1>1 DEF Frame, Knows
<1>3. f.code = 0 => f.id <= Len(more)
  BY <1>1, <1>2
<1>4. ASSUME PortsApart
      PROVE  Honest(y, more, f)
  <2>1. Honest(x, info, f)
    BY <1>4 DEF FrameOK
  <2>2. f.src.ip = ServerIp =>
           f.src = ServerAddr /\ f.dst.ip # ServerIp /\ Old(y, f.dst) /\ Answerable(y, f.dst)
    BY <2>1, OldStays, AnswerableStays DEF Honest
  <2>3. f.code = 0 /\ f.id # 0 => Leads(y, f.dst, more[f.id].local.ip)
    <3>1. ASSUME f.code = 0, f.id # 0
          PROVE  Leads(y, f.dst, more[f.id].local.ip)
      <4>1. more[f.id].local.ip = info[f.id].local.ip
        BY <1>1, <1>2, <1>4, <3>1 DEF Knows
      <4>2. Leads(x, f.dst, info[f.id].local.ip)
        BY <2>1, <3>1 DEF Honest
      <4> QED
        BY <4>1, <4>2, LeadsStays
    <3> QED
      BY <3>1
  <2>4. f.code = 0 /\ f.dst.ip = ServerIp =>
           f.body.local.ip \in OwnIps /\ Leads(y, f.src, f.body.local.ip)
    BY <2>1, LeadsStays DEF Honest
  <2>5. f.code \in {0, 1} /\ f.dst.ip = ServerIp =>
           f.dst = ServerAddr /\ Old(y, f.src) /\ Answerable(y, f.src)
    BY <2>1, OldStays, AnswerableStays DEF Honest
  <2>6. f.code = 5 =>
           /\ f.body.local.ip \in OwnIps
           /\ f.id # 0 => f.id <= Len(more) /\ more[f.id].local.ip = f.body.local.ip
    BY <1>2, <1>4, <2>1 DEF Honest, Knows
  <2>7. f.code = 6 => f.body.local.ip \in OwnIps
    BY <2>1 DEF Honest
  <2> QED
    BY <2>2, <2>3, <2>4, <2>5, <2>6, <2>7 DEF Honest
<1> QED
  BY <1>1, <1>3, <1>4 DEF FrameOK

LEMMA Sites ==
    /\ \A c \in NatClient : /\ c \notin NatBox /\ c # Rendezvous /\ c # Nobody
                            /\ Behind[c] \in NatBox \cup {Rendezvous}
    /\ Rendezvous \notin NatBox /\ Nobody \notin NatBox /\ Rendezvous # Nobody
    /\ LastId \in Nat /\ MaxPort \in Nat /\ MaxNatCommands \in Nat
<1>1. NatClient \cap NatBox = {} /\ {Rendezvous, Nobody} \cap (NatClient \cup NatBox) = {}
  BY NatAssumption, Zenon
<1>2. Behind \in [NatClient -> NatBox \cup {Rendezvous}] /\ Rendezvous # Nobody
  BY NatAssumption, Zenon
<1>3. {LastId, MaxPort, MaxNatCommands} \subseteq Nat
  BY NatAssumption, Zenon
<1>4. \A c \in NatClient : /\ c \notin NatBox /\ c # Rendezvous /\ c # Nobody
                           /\ Behind[c] \in NatBox \cup {Rendezvous}
  BY <1>1, <1>2
<1>5. Rendezvous \notin NatBox /\ Nobody \notin NatBox
  BY <1>1
<1>6. LastId \in Nat /\ MaxPort \in Nat /\ MaxNatCommands \in Nat
  BY <1>3
<1> QED
  BY <1>2, <1>4, <1>5, <1>6

LEMMA OwnFacts ==
    ASSUME NEW c \in NatClient
    PROVE  /\ OwnIp(c) \in Site \X Nat /\ OwnIp(c) \in OwnIps /\ OwnIp(c) # ServerIp /\ OwnIp(c)[1] = c
           /\ \A d \in NatClient : OwnIp(d) = OwnIp(c) => d = c
           /\ \A port \in Int : /\ Addr(OwnIp(c), port) \in Address
                                /\ Addr(OwnIp(c), port).ip = OwnIp(c)
                                /\ Addr(OwnIp(c), port).port = port
  BY Sites DEF OwnIp, OwnIps, ServerIp, ServerAddr, Addr, Site, Address

LEMMA ServerFacts ==
    /\ ServerAddr \in Address /\ ServerIp \notin OwnIps /\ ServerIp[1] = Rendezvous
    /\ NoPeer \in Body /\ NoBody \in Body /\ Ping \in Body /\ Pong \in Body
<1>1. ServerAddr \in Address /\ ServerIp[1] = Rendezvous
  BY DEF ServerIp, ServerAddr, Addr, Address, Site
<1>2. ServerIp \notin OwnIps
  BY OwnFacts DEF OwnIps
<1>3. Addr(<<Nobody, 0>>, 0) \in Address
  BY DEF Addr, Address, Site
<1>4. NoPeer \in Body /\ NoBody \in Body
  BY <1>3 DEF NoPeer, NoBody, Body
<1>5. ASSUME NEW n \in Int
      PROVE  [NoBody EXCEPT !.local.port = n] \in Body
  <2>1. [NoBody EXCEPT !.local.port = n] =
           [local |-> [ip |-> <<Nobody, 0>>, port |-> n], public |-> Addr(<<Nobody, 0>>, 0)]
    BY DEF NoBody, NoPeer, Addr
  <2>2. [ip |-> <<Nobody, 0>>, port |-> n] \in Address
    BY DEF Address, Site
  <2> QED
    BY <1>3, <2>1, <2>2 DEF Body
<1>6. Ping \in Body /\ Pong \in Body
  BY <1>5 DEF Ping, Pong
<1> QED
  BY <1>1, <1>2, <1>4, <1>6

\* The tables say nothing of an address of a client's own.
LEMMA OwnAddress ==
    ASSUME NEW box, BoxesOK(box), NEW a, a.ip \in OwnIps
    PROVE  Old(box, a) /\ Answerable(box, a) /\ Leads(box, a, a.ip)
<1>1. PICK c \in NatClient : a.ip = OwnIp(c)
  BY DEF OwnIps
<1>2. a.ip[1] = c /\ c \notin NatBox
  BY <1>1, OwnFacts, Sites
<1>3. \A b \in NatBox, k \in Nat, p \in Bases : a # Given(b, k, p)
  BY <1>2 DEF Given, Addr
<1>4. \A b \in NatBox : \A i \in DOMAIN box[b].table : box[b].table[i].public # a
  BY <1>2 DEF BoxesOK, TableOK
<1>5. Old(box, a)
  BY <1>3 DEF Old
<1> QED
  BY <1>4, <1>5 DEF Answerable, Leads

LEMMA BoxFacts ==
    ASSUME NEW box, BoxesOK(box), NEW b \in NatBox
    PROVE  /\ box[b] \in BoxState /\ TableOK(b, box[b])
           /\ box[b].table \in Seq(Body) /\ Len(box[b].table) \in Nat
           /\ DOMAIN box[b].table = 1 .. Len(box[b].table)
           /\ \A i \in DOMAIN box[b].table : /\ box[b].table[i] \in Body
                                             /\ box[b].table[i].local \in Address
                                             /\ box[b].table[i].public \in Address
           /\ box[b].counter \in Nat /\ box[b].base_port \in Bases
           /\ box[b].sessions \subseteq Session /\ box[b].blocked_range \subseteq BlockedRange
<1>1. box[b] \in BoxState /\ TableOK(b, box[b])
  BY DEF BoxesOK
<1>2. /\ box[b].table \in Seq(Body) /\ box[b].counter \in Nat /\ box[b].base_port \in Bases
      /\ box[b].sessions \subseteq Session /\ box[b].blocked_range \subseteq BlockedRange
  BY <1>1 DEF BoxState
<1>3. \A i \in DOMAIN box[b].table : box[b].table[i] \in Body
  BY <1>2
<1> QED
  BY <1>1, <1>2, <1>3 DEF Body

\* A frame that a client sends.
LEMMA SentFrame ==
    ASSUME NEW box, BoxesOK(box), NEW info, InfoOK(info), NEW c \in NatClient, NEW dst \in Address,
           NEW code \in Nat, NEW id \in Nat, NEW body \in Body, NEW port \in Int,
           code = 0 => id = 0 /\ dst = ServerAddr /\ body.local.ip = OwnIp(c),
           code = 1 => dst = ServerAddr \/ dst.ip # ServerIp,
           code = 5 => /\ body.local.ip = OwnIp(c)
                       /\ PortsApart /\ id # 0 => id <= Len(info) /\ info[id].local.ip = OwnIp(c),
           code = 6 => body.local.ip = OwnIp(c),
           NEW f \in Send(c, dst, code, id, body, port)
    PROVE  FrameOK(box, info, f)
<1> DEFINE src == Addr(OwnIp(c), port)
<1>1. src \in Address /\ src.ip = OwnIp(c) /\ OwnIp(c) \in OwnIps /\ OwnIp(c) # ServerIp
  BY OwnFacts
<1> HIDE DEF src
<1>2. /\ f.at = Behind[c] /\ f.side = "in" /\ f.src = src /\ f.dst = dst /\ f.code = code
      /\ f.id = id /\ f.body = body
      /\ f = [at |-> Behind[c], side |-> "in", src |-> src, dst |-> dst, code |-> code, id |-> id,
              body |-> body]
  BY DEF Send, Packet, src
<1>3. Behind[c] \in Place
  BY Sites DEF Place, Site
<1>4. f \in Frame
  BY <1>1, <1>2, <1>3 DEF Frame
<1>5. Old(box, src) /\ Answerable(box, src) /\ Leads(box, src, OwnIp(c))
  BY <1>1, OwnAddress
<1>6. f.code = 0 => f.id <= Len(info)
  BY <1>2 DEF InfoOK
<1>7. PortsApart => Honest(box, info, f)
  BY <1>1, <1>2, <1>5 DEF Honest
<1> QED
  BY <1>1, <1>2, <1>4, <1>6, <1>7 DEF FrameOK

\* What a step must do to keep the invariant.
LEMMA NatKeeps ==
    ASSUME NatInv, BoxesOK(nat_box'), Grows(nat_box, nat_box'), InfoOK(nat_info'),
           Knows(nat_info, nat_info'), nat_typed' \in 0 .. MaxNatCommands,
           nat_client' \in [NatClient -> ClientState],
           \A c \in NatClient :
               nat_client'[c].my_ID = nat_client[c].my_ID \/ ClientOK(nat_info', c, nat_client'[c]),
           \A f \in nat_net' : f \in nat_net \/ FrameOK(nat_box', nat_info', f)
    PROVE  NatInv'
<1>1. /\ nat_box \in [NatBox -> BoxState] /\ nat_box' \in [NatBox -> BoxState]
      /\ nat_info \in Seq(Body) /\ nat_info' \in Seq(Body)
  BY DEF NatInv, BoxesOK, InfoOK
<1>2. ASSUME NEW f \in nat_net'
      PROVE  FrameOK(nat_box', nat_info', f)
  BY <1>1, <1>2, FrameStays DEF NatInv
<1>3. ASSUME NEW c \in NatClient
      PROVE  ClientOK(nat_info', c, nat_client'[c])
  <2>1. CASE nat_client'[c].my_ID = nat_client[c].my_ID
    <3>1. nat_client[c].my_ID \in Nat /\ ClientOK(nat_info, c, nat_client[c])
      BY DEF NatInv, ClientState
    <3>2. /\ Len(nat_info) \in Nat /\ Len(nat_info') \in Nat /\ Len(nat_info) <= Len(nat_info')
          /\ PortsApart => \A i \in 1 .. Len(nat_info) : nat_info'[i].local.ip = nat_info[i].local.ip
      BY <1>1 DEF Knows
    <3> QED
      BY <2>1, <3>1, <3>2 DEF ClientOK
  <2> QED
    BY <1>3, <2>1
<1> QED
  BY <1>2, <1>3 DEF NatInv

LEMMA Stays ==
    /\ \A x : BoxesOK(x) => Grows(x, x)
    /\ \A info : InfoOK(info) => Knows(info, info)
<1>1. ASSUME NEW x, BoxesOK(x)
      PROVE  Grows(x, x)
  <2>1. \A b \in NatBox : x[b].counter \in Nat
    BY <1>1, BoxFacts
  <2> QED
    BY <2>1 DEF Grows
<1>2. ASSUME NEW info, InfoOK(info)
      PROVE  Knows(info, info)
  BY <1>2 DEF InfoOK, Knows
<1> QED
  BY <1>1, <1>2

\* A step that changes no table, nothing the server knows and no client.
LEMMA FramesMove ==
    ASSUME NatInv, UNCHANGED <<nat_box, nat_info, nat_client, nat_typed>>,
           \A f \in nat_net' : f \in nat_net \/ FrameOK(nat_box, nat_info, f)
    PROVE  NatInv'
  BY NatKeeps, Stays DEF NatInv

LEMMA OutsideStep ==
    ASSUME NatInv, NEW f \in nat_net, f.at \in NatBox, from_outside(f.at, f),
           UNCHANGED <<nat_info, nat_client, nat_typed>>
    PROVE  NatInv'
<1> DEFINE b == f.at
           n == nat_box[b]
           hits == find_in_outer_table(n, f.dst)
           i == CHOOSE k \in hits : TRUE
           in == [f EXCEPT !.at = n.table[i].local.ip[1], !.dst = n.table[i].local]
           drop == Packet(Rendezvous, "in", Addr(<<b, 0>>, 4321), f.src, 0, 0, NoBody)
<1>1. /\ BoxesOK(nat_box) /\ InfoOK(nat_info) /\ FrameOK(nat_box, nat_info, f)
  BY DEF NatInv
<1>2. f \in Frame /\ f.src \in Address /\ f.dst \in Address
  BY <1>1 DEF FrameOK, Frame
<1>3. /\ n.table \in Seq(Body) /\ DOMAIN n.table = 1 .. Len(n.table)
      /\ TableOK(b, n) /\ \A k \in DOMAIN n.table : n.table[k].local \in Address
  BY <1>1, BoxFacts
<1>4. hits # {} => i \in DOMAIN n.table /\ n.table[i].public = f.dst
  BY DEF find_in_outer_table
<1>5. /\ UNCHANGED nat_box
      /\ nat_net' = (nat_net \ {f}) \cup
             (IF hits = {} THEN {}
              ELSE IF [local |-> f.dst, outer |-> f.src] \in n.sessions THEN {in} ELSE {drop})
  BY DEF from_outside
<1> HIDE DEF i, hits, n
<1>6. ASSUME hits # {}
      PROVE  FrameOK(nat_box, nat_info, in)
  <2>1. PICK c \in NatClient : n.table[i].local.ip = OwnIp(c)
    BY <1>3, <1>4, <1>6 DEF TableOK, OwnIps
  <2>2. /\ n.table[i].local \in Address /\ n.table[i].local.ip = OwnIp(c)
        /\ n.table[i].local.ip[1] = c /\ OwnIp(c) \in OwnIps /\ OwnIp(c) # ServerIp
    BY <1>3, <1>4, <1>6, <2>1, OwnFacts
  <2>3. /\ in \in Frame /\ in.at = c /\ in.dst = n.table[i].local /\ in.src = f.src
        /\ in.side = f.side /\ in.code = f.code /\ in.id = f.id /\ in.body = f.body
    BY <1>2, <2>2 DEF Frame, Place, Site
  <2> HIDE DEF in
  <2>4. /\ Old(nat_box, in.dst) /\ Answerable(nat_box, in.dst)
        /\ Leads(nat_box, in.dst, OwnIp(c))
    BY <1>1, <2>2, <2>3, OwnAddress
  <2>5. ASSUME PortsApart
        PROVE  Honest(nat_box, nat_info, in)
    <3>1. Honest(nat_box, nat_info, f)
      BY <1>1, <2>5 DEF FrameOK
    <3>2. in.code = 0 /\ in.id # 0 => Leads(nat_box, in.dst, nat_info[in.id].local.ip)
      <4>1. ASSUME f.code = 0, f.id # 0
            PROVE  nat_info[f.id].local.ip = OwnIp(c)
        <5>1. Leads(nat_box, f.dst, nat_info[f.id].local.ip)
          BY <3>1, <4>1 DEF Honest
        <5> QED
          BY <1>4, <1>6, <2>1, <5>1 DEF Leads, n
      <4> QED
        BY <2>3, <2>4, <4>1
    <3> QED
      BY <2>2, <2>3, <2>4, <3>1, <3>2 DEF Honest
  <2>6. in.at \notin NatBox
    BY <2>3, Sites
  <2> QED
    BY <1>1, <2>3, <2>5, <2>6 DEF FrameOK
<1>7. ASSUME hits # {}, [local |-> f.dst, outer |-> f.src] \notin n.sessions
      PROVE  FrameOK(nat_box, nat_info, drop)
  <2>1. Addr(<<b, 0>>, 4321) \in Address /\ Addr(<<b, 0>>, 4321).ip = <<b, 0>>
    BY DEF Addr, Address, Site
  <2>2. /\ drop = [at |-> Rendezvous, side |-> "in", src |-> Addr(<<b, 0>>, 4321), dst |-> f.src,
                   code |-> 0, id |-> 0, body |-> NoBody]
    BY DEF Packet
  <2>3. /\ drop \in Frame /\ drop.at = Rendezvous /\ drop.src.ip = <<b, 0>> /\ drop.dst = f.src
        /\ drop.code = 0 /\ drop.id = 0
    BY <1>2, <2>1, <2>2, ServerFacts DEF Frame, Place, Site
  <2> HIDE DEF drop
  <2>4. drop.src.ip # ServerIp /\ drop.at \notin NatBox
    BY <2>3, Sites DEF ServerIp, ServerAddr, Addr
  <2>5. PortsApart => drop.dst.ip # ServerIp
    <3>1. ASSUME PortsApart, f.src.ip = ServerIp
          PROVE  FALSE
      <4>1. f.src = ServerAddr /\ Answerable(nat_box, f.dst)
        BY <1>1, <3>1 DEF FrameOK, Honest
      <4>2. [local |-> f.dst, outer |-> ServerAddr] \in n.sessions
        BY <1>4, <1>7, <4>1 DEF Answerable, n
      <4> QED
        BY <1>7, <4>1, <4>2
    <3> QED
      BY <2>3, <3>1
  <2>6. PortsApart => Honest(nat_box, nat_info, drop)
    BY <2>3, <2>4, <2>5 DEF Honest
  <2>7. drop.code = 0 => drop.id <= Len(nat_info)
    BY <1>1, <2>3 DEF InfoOK
  <2> QED
    BY <2>3, <2>4, <2>6, <2>7 DEF FrameOK
<1> HIDE DEF in, drop
<1> QED
  BY <1>5, <1>6, <1>7, FramesMove

LEMMA BlockStep ==
    ASSUME NatInv, NEW b \in NatBox, NEW r \in BlockedRange, block_range(b, r),
           nat_typed' \in 0 .. MaxNatCommands
    PROVE  NatInv'
<1>1. BoxesOK(nat_box) /\ InfoOK(nat_info)
  BY DEF NatInv
<1>2. /\ nat_box' = [nat_box EXCEPT ![b] = [nat_box[b] EXCEPT !.blocked_range = @ \cup {r}]]
      /\ UNCHANGED <<nat_info, nat_client, nat_net>>
  BY DEF block_range
<1> DEFINE n == nat_box[b]
           m == [n EXCEPT !.blocked_range = @ \cup {r}]
<1>3. /\ m \in BoxState /\ m.table = n.table /\ m.sessions = n.sessions /\ m.counter = n.counter
      /\ m.base_port = n.base_port
  <2>1. n \in BoxState
    BY <1>1, BoxFacts
  <2> QED
    BY <2>1 DEF BoxState
<1> HIDE DEF m
<1>4. /\ nat_box' \in [NatBox -> BoxState] /\ nat_box'[b] = m
      /\ \A d \in NatBox : d # b => nat_box'[d] = nat_box[d]
  BY <1>1, <1>2, <1>3 DEF BoxesOK, m
<1>5. \A d \in NatBox : /\ nat_box'[d].table = nat_box[d].table
                        /\ nat_box'[d].sessions = nat_box[d].sessions
                        /\ nat_box'[d].counter = nat_box[d].counter
                        /\ nat_box'[d].base_port = nat_box[d].base_port
  BY <1>3, <1>4
<1>6. BoxesOK(nat_box')
  <2>1. \A d \in NatBox : TableOK(d, nat_box'[d])
    BY <1>1, <1>5 DEF BoxesOK, TableOK
  <2>2. PortsApart =>
           \A d \in NatBox : \A i \in DOMAIN nat_box'[d].table : Old(nat_box', nat_box'[d].table[i].public)
    BY <1>1, <1>5 DEF BoxesOK, Old
  <2> QED
    BY <1>4, <2>1, <2>2 DEF BoxesOK
<1>7. Grows(nat_box, nat_box')
  <2>1. \A d \in NatBox : nat_box[d].counter \in Nat
    BY <1>1, BoxFacts
  <2> QED
    BY <1>5, <2>1 DEF Grows
<1> QED
  BY <1>1, <1>2, <1>6, <1>7, NatKeeps, Stays DEF NatInv

LEMMA ResetStep ==
    ASSUME NatInv, NEW b \in NatBox, NEW port \in PortBase, reset_setting(b, port),
           nat_typed' \in 0 .. MaxNatCommands
    PROVE  NatInv'
<1>1. BoxesOK(nat_box) /\ InfoOK(nat_info)
  BY DEF NatInv
<1> DEFINE n == nat_box[b]
           m == [n EXCEPT !.table = <<>>, !.sessions = {}, !.blocked_range = {}, !.base_port = port]
<1>2. nat_box' = [nat_box EXCEPT ![b] = m] /\ UNCHANGED <<nat_info, nat_client, nat_net>>
  BY DEF reset_setting
<1>3. m \in BoxState /\ m.table = <<>> /\ m.counter = n.counter
  <2>1. n \in BoxState /\ port \in Bases
    BY <1>1, BoxFacts DEF Bases
  <2>2. <<>> \in Seq(Body)
    OBVIOUS
  <2> HIDE DEF n
  <2> QED
    BY <2>1, <2>2 DEF BoxState
<1> HIDE DEF m
<1>4. /\ nat_box' \in [NatBox -> BoxState] /\ nat_box'[b] = m
      /\ \A d \in NatBox : d # b => nat_box'[d] = nat_box[d]
  BY <1>1, <1>2, <1>3 DEF BoxesOK
<1>5. /\ \A d \in NatBox : nat_box'[d].counter = nat_box[d].counter
      /\ DOMAIN nat_box'[b].table = {}
  BY <1>3, <1>4
<1>6. BoxesOK(nat_box')
  <2>1. \A d \in NatBox : TableOK(d, nat_box'[d])
    BY <1>1, <1>4, <1>5 DEF BoxesOK, TableOK
  <2>2. PortsApart =>
           \A d \in NatBox : \A i \in DOMAIN nat_box'[d].table : Old(nat_box', nat_box'[d].table[i].public)
    BY <1>1, <1>4, <1>5 DEF BoxesOK, Old
  <2> QED
    BY <1>4, <2>1, <2>2 DEF BoxesOK
<1>7. Grows(nat_box, nat_box')
  <2>1. \A d \in NatBox : nat_box[d].counter \in Nat
    BY <1>1, BoxFacts
  <2> QED
    BY <1>4, <1>5, <2>1 DEF Grows
<1> QED
  BY <1>1, <1>2, <1>6, <1>7, NatKeeps, Stays DEF NatInv

LEMMA TableAppend ==
    ASSUME NEW t \in Seq(Body), NEW x \in Body
    PROVE  /\ DOMAIN Append(t, x) = 1 .. Len(t) + 1 /\ Append(t, x)[Len(t) + 1] = x
           /\ \A i \in 1 .. Len(t) : Append(t, x)[i] = t[i]
<1> DEFINE u == Append(t, x)
<1>1. /\ Len(u) = Len(t) + 1 /\ u \in Seq(Body) /\ u[Len(t) + 1] = x
      /\ \A i \in 1 .. Len(t) : u[i] = t[i]
  OBVIOUS
<1> HIDE DEF u
<1> SUFFICES /\ DOMAIN u = 1 .. Len(t) + 1 /\ u[Len(t) + 1] = x
             /\ \A i \in 1 .. Len(t) : u[i] = t[i]
  BY DEF u
<1> QED
  BY <1>1

LEMMA SetBox ==
    ASSUME NEW box, BoxesOK(box), NEW b \in NatBox, NEW m \in BoxState
    PROVE  /\ [box EXCEPT ![b] = m] \in [NatBox -> BoxState] /\ [box EXCEPT ![b] = m][b] = m
           /\ \A d \in NatBox : d # b => [box EXCEPT ![b] = m][d] = box[d]
           /\ DOMAIN box = NatBox
  BY DEF BoxesOK

\* Two boxes give out different addresses.
LEMMA GivenByOne ==
    ASSUME NEW b, NEW d, NEW k, NEW m, NEW p, NEW q, Given(b, k, p) = Given(d, m, q)
    PROVE  b = d
<1>1. <<b, k \div 3 + 1>> = <<d, m \div 3 + 1>>
  BY DEF Given, Addr
<1> QED
  BY <1>1

LEMMA GivenAddress ==
    ASSUME NEW b \in NatBox, NEW k \in Nat, NEW p \in Bases
    PROVE  Given(b, k, p) \in Address /\ Given(b, k, p).ip[1] = b
<1>1. p \in Nat /\ k \div 3 + 1 \in Nat /\ (k % 3) * 100 \in Nat /\ PortWidth \in Nat \ {0}
  BY BasePorts DEF PortWidth
<1>2. (p + (k % 3) * 100) % PortWidth \in Int
  BY <1>1
<1>3. <<b, k \div 3 + 1>> \in Site \X Nat
  BY <1>1 DEF Site
<1> QED
  BY <1>2, <1>3 DEF Given, Addr, Address

\* What a box holds after the first frame of a client through it.
LEMMA NewEntry ==
    ASSUME NEW box, BoxesOK(box), NEW b \in NatBox, NEW src \in Address, src.ip \in OwnIps,
           find_in_local_table(box[b], src) = {}, NEW m \in BoxState,
           NEW a, a = Given(b, box[b].counter, box[b].base_port),
           m.table = Append(box[b].table, [local |-> src, public |-> a]),
           m.counter = box[b].counter + 1, m.base_port = box[b].base_port,
           box[b].sessions \subseteq m.sessions
    PROVE  /\ BoxesOK([box EXCEPT ![b] = m]) /\ Grows(box, [box EXCEPT ![b] = m])
           /\ PortsApart => /\ Old([box EXCEPT ![b] = m], a)
                            /\ Leads([box EXCEPT ![b] = m], a, src.ip)
<1> DEFINE n == box[b]
           y == [box EXCEPT ![b] = m]
           e == [local |-> src, public |-> a]
<1>1. /\ y \in [NatBox -> BoxState] /\ y[b] = m /\ DOMAIN box = NatBox
      /\ \A d \in NatBox : d # b => y[d] = box[d]
  BY SetBox
<1>2. /\ n.table \in Seq(Body) /\ Len(n.table) \in Nat /\ DOMAIN n.table = 1 .. Len(n.table)
      /\ n.counter \in Nat /\ n.base_port \in Bases /\ TableOK(b, n)
  BY BoxFacts
<1>3. a \in Address /\ a.ip[1] = b
  BY <1>2, GivenAddress
<1>4. m.table = Append(n.table, e) /\ m.counter = n.counter + 1 /\ m.base_port = n.base_port
      /\ n.sessions \subseteq m.sessions
  OBVIOUS
<1>5. ASSUME NEW k \in Nat, NEW p \in Bases, k >= m.counter, p = n.base_port \/ PortsApart
      PROVE  a # Given(b, k, p)
  BY <1>2, <1>4, <1>5, GivenOnce
<1>6. \A i \in DOMAIN n.table : n.table[i].local # src
  BY DEF find_in_local_table
<1> HIDE DEF y
<1>7. /\ DOMAIN m.table = 1 .. Len(n.table) + 1 /\ m.table[Len(n.table) + 1] = e
      /\ \A i \in DOMAIN n.table : m.table[i] = n.table[i]
      /\ \A i \in DOMAIN m.table : i \in DOMAIN n.table \/ m.table[i] = e
      /\ \A i \in DOMAIN m.table : i \in DOMAIN n.table \/ i = Len(n.table) + 1
  <2>1. e \in Body
    BY <1>3 DEF Body
  <2> HIDE DEF e, n
  <2>3. n.table \in Seq(Body) /\ m.table = Append(n.table, e)
    BY <1>2, <1>4
  <2> DEFINE u == Append(n.table, e)
  <2>6. /\ DOMAIN u = 1 .. Len(n.table) + 1 /\ u[Len(n.table) + 1] = e
        /\ \A i \in 1 .. Len(n.table) : u[i] = n.table[i]
    BY <2>1, <2>3, TableAppend
  <2>7. m.table = u
    BY <2>3
  <2> HIDE DEF u
  <2>4. /\ DOMAIN m.table = 1 .. Len(n.table) + 1 /\ m.table[Len(n.table) + 1] = e
        /\ \A i \in 1 .. Len(n.table) : m.table[i] = n.table[i]
    BY <2>6, <2>7
  <2>5. \A i \in 1 .. Len(n.table) + 1 : i \in 1 .. Len(n.table) \/ i = Len(n.table) + 1
    BY <1>2
  <2> QED
    BY <1>2, <2>4, <2>5
<1>8. e.local = src /\ e.public = a
  OBVIOUS
<1> HIDE DEF e
<1>9. TableOK(b, m)
  <2>1. ASSUME NEW i \in DOMAIN m.table
        PROVE  /\ m.table[i].local.ip \in OwnIps /\ m.table[i].public.ip[1] = b
               /\ \A k \in Nat : k >= m.counter => m.table[i].public # Given(b, k, m.base_port)
    <3>1. CASE i \in DOMAIN n.table
      <4>1. /\ n.table[i].local.ip \in OwnIps /\ n.table[i].public.ip[1] = b
            /\ \A k \in Nat : k >= n.counter => n.table[i].public # Given(b, k, n.base_port)
        BY <1>2, <3>1 DEF TableOK
      <4>2. \A k \in Nat : k >= m.counter => k >= n.counter
        BY <1>2, <1>4
      <4> QED
        BY <1>4, <1>7, <3>1, <4>1, <4>2
    <3>2. CASE m.table[i] = e
      BY <1>2, <1>3, <1>4, <1>5, <1>8, <3>2
    <3> QED
      BY <1>7, <2>1, <3>1, <3>2
  <2>2. \A i \in DOMAIN n.table : n.table[i].public # a
    <3>1. \A i \in DOMAIN n.table : \A k \in Nat :
              k >= n.counter => n.table[i].public # Given(b, k, n.base_port)
      BY <1>2 DEF TableOK
    <3>2. n.counter >= n.counter
      BY <1>2
    <3> QED
      BY <1>2, <3>1, <3>2
  <2>3. ASSUME NEW i \in DOMAIN m.table, NEW j \in DOMAIN m.table, i # j
        PROVE  m.table[i].public # m.table[j].public /\ m.table[i].local # m.table[j].local
    <3>1. CASE i \in DOMAIN n.table /\ j \in DOMAIN n.table
      BY <1>2, <1>7, <2>3, <3>1, SMTT(20) DEF TableOK
    <3>2. CASE i \in DOMAIN n.table /\ j = Len(n.table) + 1
      BY <1>6, <1>7, <1>8, <2>2, <3>2
    <3>3. CASE j \in DOMAIN n.table /\ i = Len(n.table) + 1
      BY <1>6, <1>7, <1>8, <2>2, <3>3
    <3> QED
      BY <1>7, <2>3, <3>1, <3>2, <3>3
  <2> QED
    BY <2>1, <2>3 DEF TableOK
<1>10. Grows(box, y)
  <2>1. ASSUME NEW d \in NatBox
        PROVE  /\ y[d].counter >= box[d].counter
               /\ box[d].sessions \subseteq y[d].sessions
               /\ \A i \in DOMAIN y[d].table :
                     \/ \E j \in DOMAIN box[d].table : y[d].table[i] = box[d].table[j]
                     \/ \E p \in Bases : y[d].table[i].public = Given(d, box[d].counter, p)
    <3>1. CASE d # b
      <4>1. box[d].counter \in Nat
        BY BoxFacts
      <4> QED
        BY <1>1, <3>1, <4>1
    <3>2. CASE d = b
      <4>1. y[d] = m /\ box[d] = n /\ m.counter >= n.counter /\ n.sessions \subseteq m.sessions
        BY <1>1, <1>2, <1>4, <3>2
      <4>2. ASSUME NEW i \in DOMAIN m.table
            PROVE  \/ \E j \in DOMAIN n.table : m.table[i] = n.table[j]
                   \/ \E p \in Bases : m.table[i].public = Given(d, n.counter, p)
        <5>1. CASE i \in DOMAIN n.table
          BY <1>7, <5>1
        <5>2. CASE m.table[i] = e
          BY <1>2, <1>8, <3>2, <5>2
        <5> QED
          BY <1>7, <5>1, <5>2
      <4> HIDE DEF n
      <4> QED
        BY <4>1, <4>2
    <3> QED
      BY <3>1, <3>2
  <2> QED
    BY <2>1 DEF Grows
<1>11. ASSUME PortsApart
       PROVE  Old(y, a)
  <2>1. ASSUME NEW d \in NatBox, NEW k \in Nat, NEW p \in Bases, k >= y[d].counter
        PROVE  a # Given(d, k, p)
    <3>1. CASE d = b
      BY <1>1, <1>5, <1>11, <2>1, <3>1
    <3>2. CASE d # b
      BY <3>2, GivenByOne
    <3> QED
      BY <3>1, <3>2
  <2> QED
    BY <2>1 DEF Old
<1>12. BoxesOK(y)
  <2>1. \A d \in NatBox : TableOK(d, y[d])
    BY <1>1, <1>9 DEF BoxesOK
  <2>2. ASSUME PortsApart, NEW d \in NatBox, NEW i \in DOMAIN y[d].table
        PROVE  Old(y, y[d].table[i].public)
    <3>1. CASE d # b \/ i \in DOMAIN n.table
      <4>1. PICK j \in DOMAIN box[d].table : y[d].table[i] = box[d].table[j]
        BY <1>1, <1>7, <2>2, <3>1
      <4>2. Old(box, box[d].table[j].public)
        BY <2>2 DEF BoxesOK
      <4> QED
        BY <1>1, <1>10, <4>1, <4>2, OldStays DEF BoxesOK
    <3>2. CASE d = b /\ i \notin DOMAIN n.table
      BY <1>1, <1>7, <1>8, <1>11, <2>2, <3>2
    <3> QED
      BY <3>1, <3>2
  <2> QED
    BY <1>1, <2>1, <2>2 DEF BoxesOK
<1>13. ASSUME PortsApart
       PROVE  Leads(y, a, src.ip)
  <2>1. a.ip \notin OwnIps
    BY <1>3, OwnFacts, Sites DEF OwnIps
  <2>2. ASSUME NEW d \in NatBox, NEW i \in DOMAIN y[d].table, y[d].table[i].public = a
        PROVE  y[d].table[i].local.ip = src.ip
    <3>1. TableOK(d, y[d])
      BY <1>12 DEF BoxesOK
    <3>2. d = b
      BY <1>3, <2>2, <3>1 DEF TableOK
    <3>3. Len(n.table) + 1 \in DOMAIN m.table
      BY <1>2, <1>7
    <3>4. i = Len(n.table) + 1
      BY <1>1, <1>7, <1>8, <2>2, <3>1, <3>2, <3>3 DEF TableOK
    <3> QED
      BY <1>1, <1>7, <1>8, <3>2, <3>4
  <2> QED
    BY <1>11, <1>13, <2>1, <2>2 DEF Leads
<1> QED
  BY <1>10, <1>11, <1>12, <1>13 DEF y

\* What a box holds after a further frame of a client through it.
LEMMA KnownEntry ==
    ASSUME NEW box, BoxesOK(box), NEW b \in NatBox, NEW m \in BoxState,
           m.table = box[b].table, m.counter = box[b].counter, m.base_port = box[b].base_port,
           box[b].sessions \subseteq m.sessions
    PROVE  BoxesOK([box EXCEPT ![b] = m]) /\ Grows(box, [box EXCEPT ![b] = m])
<1> DEFINE y == [box EXCEPT ![b] = m]
<1>1. /\ y \in [NatBox -> BoxState] /\ y[b] = m /\ DOMAIN box = NatBox
      /\ \A d \in NatBox : d # b => y[d] = box[d]
  BY SetBox
<1> HIDE DEF y
<1>2. \A d \in NatBox : /\ y[d].table = box[d].table /\ y[d].counter = box[d].counter
                        /\ y[d].base_port = box[d].base_port
                        /\ box[d].sessions \subseteq y[d].sessions /\ box[d].counter \in Nat
  BY <1>1, BoxFacts
<1>3. \A d \in NatBox : TableOK(d, y[d])
  BY <1>2 DEF BoxesOK, TableOK
<1>4. PortsApart => \A d \in NatBox : \A i \in DOMAIN y[d].table : Old(y, y[d].table[i].public)
  BY <1>2 DEF BoxesOK, Old
<1>5. Grows(box, y)
  BY <1>2 DEF Grows
<1> QED
  BY <1>1, <1>3, <1>4, <1>5 DEF BoxesOK, y

LEMMA AnswerableHere ==
    ASSUME NEW y, BoxesOK(y), NEW b \in NatBox, NEW a, a.ip[1] = b,
           [local |-> a, outer |-> ServerAddr] \in y[b].sessions
    PROVE  Answerable(y, a)
<1> SUFFICES ASSUME NEW d \in NatBox, NEW i \in DOMAIN y[d].table, y[d].table[i].public = a
             PROVE  [local |-> a, outer |-> ServerAddr] \in y[d].sessions
  BY DEF Answerable
<1>1. d = b
  BY DEF BoxesOK, TableOK
<1> QED
  BY <1>1

\* A public address that is in the table leads to its client.
LEMMA EntryLeads ==
    ASSUME NEW y, BoxesOK(y), PortsApart, NEW b \in NatBox, NEW i \in DOMAIN y[b].table
    PROVE  /\ Old(y, y[b].table[i].public)
           /\ Leads(y, y[b].table[i].public, y[b].table[i].local.ip)
<1> DEFINE a == y[b].table[i].public
<1>1. Old(y, a) /\ a.ip[1] = b
  BY DEF BoxesOK, TableOK
<1>2. a.ip \notin OwnIps
  BY <1>1, OwnFacts, Sites DEF OwnIps
<1>3. ASSUME NEW d \in NatBox, NEW j \in DOMAIN y[d].table, y[d].table[j].public = a
      PROVE  y[d].table[j].local.ip = y[b].table[i].local.ip
  <2>1. d = b
    BY <1>1, <1>3 DEF BoxesOK, TableOK
  <2>2. j = i
    BY <1>3, <2>1 DEF BoxesOK, TableOK
  <2> QED
    BY <2>1, <2>2
<1> HIDE DEF a
<1>4. Leads(y, a, y[b].table[i].local.ip)
  BY <1>1, <1>2, <1>3 DEF Leads
<1> QED
  BY <1>1, <1>4 DEF a

\* What from_inside makes of a box and a frame that its blocked ranges let pass.
InsideKept(box, y, b, src, dst, public) ==
    /\ BoxesOK(y) /\ Grows(box, y) /\ public \in Address /\ public.ip[1] = b
    /\ PortsApart => Old(y, public) /\ Leads(y, public, src.ip)
    /\ dst = ServerAddr => Answerable(y, public)

LEMMA InsideNew ==
    ASSUME NEW box, BoxesOK(box), NEW b \in NatBox, NEW src \in Address, src.ip \in OwnIps,
           NEW dst \in Address, find_in_local_table(box[b], src) = {},
           NEW a, a = calculate_new_address(b, box[b]),
           NEW m, m = [box[b] EXCEPT !.table = Append(@, [local |-> src, public |-> a]),
                          !.counter = @ + 1,
                          !.sessions = @ \cup {[local |-> a, outer |-> dst]}]
    PROVE  InsideKept(box, [box EXCEPT ![b] = m], b, src, dst, a)
<1> DEFINE n == box[b]
           y == [box EXCEPT ![b] = m]
           x == [local |-> a, outer |-> dst]
           e == [local |-> src, public |-> a]
<1>1. /\ n \in BoxState /\ n.table \in Seq(Body) /\ n.counter \in Nat
      /\ n.base_port \in Bases /\ n.sessions \subseteq Session
  BY BoxFacts
<1>2. a = Given(b, n.counter, n.base_port)
  BY DEF calculate_new_address, Given
<1>3. a \in Address /\ a.ip[1] = b
  BY <1>1, <1>2, GivenAddress
<1>4. x \in Session /\ e \in Body
  BY <1>3 DEF Session, Body
<1> HIDE DEF n, x, e
<1>5. m = [n EXCEPT !.table = Append(n.table, e), !.counter = n.counter + 1,
                    !.sessions = n.sessions \cup {x}]
  BY DEF n, x, e
<1>6. /\ Append(n.table, e) \in Seq(Body) /\ n.counter + 1 \in Nat
      /\ n.sessions \cup {x} \in SUBSET Session
  BY <1>1, <1>4
<1>7. /\ m \in BoxState /\ m.table = Append(n.table, e) /\ m.counter = n.counter + 1
      /\ m.base_port = n.base_port /\ m.sessions = n.sessions \cup {x}
  BY <1>1, <1>5, <1>6 DEF BoxState
<1>8. n.sessions \subseteq m.sessions /\ x \in m.sessions
  BY <1>7
<1>9. /\ BoxesOK(y) /\ Grows(box, y)
      /\ PortsApart => Old(y, a) /\ Leads(y, a, src.ip)
  BY <1>2, <1>7, <1>8, NewEntry DEF n, e
<1>10. y[b] = m
  <2>1. m \in BoxState
    BY <1>7
  <2> QED
    BY ONLY <2>1, SetBox, BoxesOK(box), b \in NatBox DEF y
<1> HIDE DEF y
<1>11. ASSUME dst = ServerAddr
       PROVE  Answerable(y, a)
  <2>1. [local |-> a, outer |-> ServerAddr] \in y[b].sessions
    BY <1>8, <1>10, <1>11 DEF x
  <2> QED
    BY <1>3, <1>9, <2>1, AnswerableHere
<1> QED
  BY <1>3, <1>9, <1>11 DEF InsideKept, y

LEMMA InsideKnown ==
    ASSUME NEW box, BoxesOK(box), NEW b \in NatBox, NEW src \in Address,
           NEW dst \in Address, NEW k \in DOMAIN box[b].table, box[b].table[k].local = src,
           NEW a, a = box[b].table[k].public,
           NEW m, m = [box[b] EXCEPT !.sessions = @ \cup {[local |-> a, outer |-> dst]}]
    PROVE  InsideKept(box, [box EXCEPT ![b] = m], b, src, dst, a)
<1> DEFINE n == box[b]
           y == [box EXCEPT ![b] = m]
           x == [local |-> a, outer |-> dst]
<1>1. /\ n \in BoxState /\ n.sessions \subseteq Session /\ a \in Address /\ a.ip[1] = b
  BY BoxFacts DEF TableOK
<1>2. x \in Session
  BY <1>1 DEF Session
<1> HIDE DEF n, x
<1>3. m = [n EXCEPT !.sessions = n.sessions \cup {x}]
  BY DEF n, x
<1>4. n.sessions \cup {x} \in SUBSET Session
  BY <1>1, <1>2
<1>5. /\ m \in BoxState /\ m.table = n.table /\ m.counter = n.counter
      /\ m.base_port = n.base_port /\ m.sessions = n.sessions \cup {x}
  BY <1>1, <1>3, <1>4 DEF BoxState
<1>6. n.sessions \subseteq m.sessions /\ x \in m.sessions
  BY <1>5
<1>7. BoxesOK(y) /\ Grows(box, y)
  BY <1>5, <1>6, KnownEntry DEF n
<1>8. y[b] = m /\ y[b].table = box[b].table
  BY <1>5, SetBox DEF n
<1> HIDE DEF y
<1>9. ASSUME dst = ServerAddr
      PROVE  Answerable(y, a)
  <2>1. [local |-> a, outer |-> ServerAddr] \in y[b].sessions
    BY <1>6, <1>8, <1>9 DEF x
  <2> QED
    BY <1>1, <1>7, <2>1, AnswerableHere
<1>10. PortsApart => Old(y, a) /\ Leads(y, a, src.ip)
  BY <1>7, <1>8, EntryLeads
<1> QED
  BY <1>1, <1>7, <1>9, <1>10 DEF InsideKept, y

\* A frame with its sender's public address.
LEMMA InsideFrame ==
    ASSUME NEW box, BoxesOK(box), NEW info, InfoOK(info), NEW f, FrameOK(box, info, f),
           NEW b \in NatBox, f.src.ip \in OwnIps, NEW y, NEW public,
           InsideKept(box, y, b, f.src, f.dst, public), NEW hop \in NatClient \cup {Rendezvous}
    PROVE  FrameOK(y, info, [f EXCEPT !.at = hop, !.src = public])
<1> DEFINE g == [f EXCEPT !.at = hop, !.src = public]
<1>1. /\ f \in Frame /\ BoxesOK(y) /\ Grows(box, y) /\ public \in Address /\ public.ip[1] = b
      /\ f.code = 0 => f.id <= Len(info)
  BY DEF FrameOK, InsideKept
<1>2. hop \in Place /\ hop \notin NatBox
  BY Sites DEF Place, Site
<1>3. /\ g \in Frame /\ g.at = hop /\ g.src = public /\ g.dst = f.dst /\ g.code = f.code
      /\ g.id = f.id /\ g.body = f.body
  BY <1>1, <1>2 DEF Frame
<1> HIDE DEF g
<1>4. public.ip # ServerIp
  BY <1>1, Sites, ServerFacts
<1>5. box \in [NatBox -> BoxState] /\ y \in [NatBox -> BoxState]
  BY <1>1 DEF BoxesOK
<1>6. ASSUME PortsApart
      PROVE  Honest(y, info, g)
  <2>1. Honest(box, info, f)
    BY <1>6 DEF FrameOK
  <2>2. Old(y, public) /\ Leads(y, public, f.src.ip) /\ (f.dst = ServerAddr => Answerable(y, public))
    BY <1>6 DEF InsideKept
  <2>3. f.code = 0 /\ f.id # 0 => Leads(y, f.dst, info[f.id].local.ip)
    BY <1>1, <1>5, <2>1, LeadsStays DEF Honest
  <2>4. f.code = 0 /\ f.dst.ip = ServerIp => f.body.local.ip = f.src.ip
    BY <2>1 DEF Honest, Leads
  <2>5. /\ f.code = 0 /\ f.dst.ip = ServerIp => f.body.local.ip \in OwnIps
        /\ f.code \in {0, 1} /\ f.dst.ip = ServerIp => f.dst = ServerAddr
        /\ f.code = 5 => /\ f.body.local.ip \in OwnIps
                         /\ f.id # 0 => f.id <= Len(info) /\ info[f.id].local.ip = f.body.local.ip
        /\ f.code = 6 => f.body.local.ip \in OwnIps
    BY <2>1 DEF Honest
  <2> QED
    BY <1>3, <1>4, <2>2, <2>3, <2>4, <2>5 DEF Honest
<1> QED
  BY <1>1, <1>2, <1>3, <1>6 DEF FrameOK, g

LEMMA InsideStep ==
    ASSUME NatInv, NEW f \in nat_net, NEW b \in NatBox, f.at = b, f.side = "in", from_inside(b, f),
           UNCHANGED <<nat_info, nat_client, nat_typed>>
    PROVE  NatInv'
<1> DEFINE n == nat_box[b]
           hits == find_in_local_table(n, f.src)
           k == CHOOSE i \in hits : TRUE
           a == calculate_new_address(b, n)
           public == IF hits = {} THEN a ELSE n.table[k].public
           t == IF hits = {} THEN Append(n.table, [local |-> f.src, public |-> a]) ELSE n.table
           count == IF hits = {} THEN advance(n.counter) ELSE n.counter
           s == n.sessions \cup {[local |-> public, outer |-> f.dst]}
           m == [n EXCEPT !.table = t, !.counter = count, !.sessions = s]
           hop == IF \E c \in NatClient : OwnIp(c) = f.dst.ip /\ Behind[c] = b
                   THEN f.dst.ip[1] ELSE Rendezvous
           drop == Packet(f.src.ip[1], "in", Addr(<<b, 0>>, 1234), f.src, 0, 0, NoBody)
           g == [f EXCEPT !.at = hop, !.src = public]
<1>1. /\ BoxesOK(nat_box) /\ InfoOK(nat_info) /\ FrameOK(nat_box, nat_info, f)
      /\ nat_typed \in 0 .. MaxNatCommands /\ nat_client \in [NatClient -> ClientState]
  BY DEF NatInv
<1>2. f \in Frame /\ f.src \in Address /\ f.dst \in Address /\ f.src.ip \in OwnIps
  BY <1>1 DEF FrameOK, Frame
<1>3. hop \in NatClient \cup {Rendezvous}
  BY OwnFacts
<1>4. Grows(nat_box, nat_box) /\ Knows(nat_info, nat_info)
  BY <1>1, Stays
<1>5. k \in hits <=> hits # {}
  OBVIOUS
<1>6. valid_in_range(n, f.src.port) =>
         nat_box' = [nat_box EXCEPT ![b] = m] /\ nat_net' = (nat_net \ {f}) \cup {g}
  BY DEF from_inside
<1>7. ~valid_in_range(n, f.src.port) => UNCHANGED nat_box /\ nat_net' = (nat_net \ {f}) \cup {drop}
  BY DEF from_inside
<1> HIDE DEF k, hop
<1>8. CASE ~valid_in_range(n, f.src.port)
  <2>1. PICK c \in NatClient : f.src.ip = OwnIp(c)
    BY <1>2 DEF OwnIps
  <2>2. f.src.ip[1] = c /\ c \notin NatBox /\ f.src.ip # ServerIp
    BY <2>1, OwnFacts, Sites
  <2>3. UNCHANGED nat_box /\ nat_net' = (nat_net \ {f}) \cup {drop}
    BY <1>7, <1>8
  <2>4. Addr(<<b, 0>>, 1234) \in Address /\ Addr(<<b, 0>>, 1234).ip = <<b, 0>>
    BY DEF Addr, Address, Site
  <2>5. drop = [at |-> c, side |-> "in", src |-> Addr(<<b, 0>>, 1234), dst |-> f.src,
                code |-> 0, id |-> 0, body |-> NoBody]
    BY <2>2 DEF Packet
  <2>6. /\ drop \in Frame /\ drop.at = c /\ drop.src.ip = <<b, 0>> /\ drop.dst = f.src
        /\ drop.code = 0 /\ drop.id = 0
    BY <1>2, <2>4, <2>5, ServerFacts DEF Frame, Place, Site
  <2> HIDE DEF drop
  <2>7. drop.src.ip # ServerIp
    BY <2>6, Sites DEF ServerIp, ServerAddr, Addr
  <2>8. Honest(nat_box, nat_info, drop)
    BY <2>2, <2>6, <2>7 DEF Honest
  <2>9. FrameOK(nat_box, nat_info, drop)
    BY <1>1, <2>2, <2>6, <2>8 DEF FrameOK, InfoOK
  <2> QED
    BY <2>3, <2>9, FramesMove
<1>9. ASSUME valid_in_range(n, f.src.port)
      PROVE  InsideKept(nat_box, [nat_box EXCEPT ![b] = m], b, f.src, f.dst, public)
  <2>1. n \in BoxState
    BY <1>1, BoxFacts
  <2>2. CASE hits = {}
    <3>1. /\ public = a /\ t = Append(n.table, [local |-> f.src, public |-> a])
          /\ count = n.counter + 1
      BY <2>2 DEF advance
    <3>2. s = n.sessions \cup {[local |-> a, outer |-> f.dst]}
      BY <3>1
    <3> HIDE DEF public, t, count, s, a
    <3>3. m = [n EXCEPT !.table = Append(@, [local |-> f.src, public |-> a]), !.counter = @ + 1,
                        !.sessions = @ \cup {[local |-> a, outer |-> f.dst]}]
      BY <3>1, <3>2
    <3> HIDE DEF m
    <3> QED
      BY <1>1, <1>2, <2>2, <3>1, <3>3, InsideNew DEF a
  <2>3. CASE hits # {}
    <3>1. public = n.table[k].public /\ t = n.table /\ count = n.counter
      BY <2>3
    <3>2. k \in DOMAIN n.table /\ n.table[k].local = f.src
      BY <1>5, <2>3 DEF find_in_local_table
    <3> HIDE DEF public, t, count, hits
    <3>3. m = [n EXCEPT !.sessions = s]
      BY <2>1, <3>1 DEF BoxState
    <3>4. m = [n EXCEPT !.sessions = @ \cup {[local |-> public, outer |-> f.dst]}]
      BY <3>3
    <3> HIDE DEF m
    <3> QED
      BY <1>1, <1>2, <3>1, <3>2, <3>4, InsideKnown
  <2> QED
    BY <2>2, <2>3
<1> HIDE DEF public, m, drop, t, count, s, a, hits
<1>10. CASE valid_in_range(n, f.src.port)
  <2>1. InsideKept(nat_box, nat_box', b, f.src, f.dst, public)
    BY <1>6, <1>9, <1>10
  <2>2. FrameOK(nat_box', nat_info, g)
    BY <1>1, <1>2, <1>3, <2>1, InsideFrame
  <2> HIDE DEF g
  <2>3. BoxesOK(nat_box') /\ Grows(nat_box, nat_box')
    BY <2>1 DEF InsideKept
  <2> QED
    BY <1>1, <1>4, <1>6, <1>10, <2>2, <2>3, NatKeeps
<1> QED
  BY <1>8, <1>10

\* A frame that the server sends, to another machine.
LEMMA ServerFrame ==
    ASSUME NEW box, BoxesOK(box), NEW info, InfoOK(info), NEW ip, NEW dst \in Address,
           NEW code \in Nat \ {5, 6}, NEW id \in Nat, NEW body \in Body, code = 0 => id <= Len(info),
           PortsApart => /\ Old(box, dst) /\ Answerable(box, dst) /\ dst.ip # ServerIp
                         /\ code = 0 /\ id # 0 => Leads(box, dst, info[id].local.ip)
    PROVE  FrameOK(box, info, Packet(Gateway(ip), "out", ServerAddr, dst, code, id, body))
<1> DEFINE g == Packet(Gateway(ip), "out", ServerAddr, dst, code, id, body)
<1>1. g = [at |-> Gateway(ip), side |-> "out", src |-> ServerAddr, dst |-> dst, code |-> code,
           id |-> id, body |-> body]
  BY DEF Packet
<1>2. Gateway(ip) \in Place
  BY DEF Gateway, Place, Site
<1>3. /\ g \in Frame /\ g.side = "out" /\ g.src = ServerAddr /\ g.dst = dst /\ g.code = code
      /\ g.id = id /\ g.body = body
  BY <1>1, <1>2, ServerFacts DEF Frame
<1> HIDE DEF g
<1>4. PortsApart => Honest(box, info, g)
  BY <1>3 DEF Honest
<1> QED
  BY <1>3, <1>4 DEF FrameOK, g

LEMMA RequestIdStep ==
    ASSUME NatInv, NEW f \in nat_net, f.code = 0, f.dst.ip = ServerIp, rec_request_id(f),
           UNCHANGED <<nat_box, nat_client, nat_typed>>
    PROVE  NatInv'
<1>1. /\ BoxesOK(nat_box) /\ InfoOK(nat_info) /\ FrameOK(nat_box, nat_info, f)
      /\ nat_typed \in 0 .. MaxNatCommands /\ nat_client \in [NatClient -> ClientState]
      /\ Grows(nat_box, nat_box)
  BY Stays DEF NatInv
<1>2. /\ f \in Frame /\ f.src \in Address /\ f.body \in Body
      /\ nat_info \in Seq(Body) /\ Len(nat_info) \in Nat
  BY <1>1 DEF FrameOK, Frame, InfoOK
<1>3. PortsApart => /\ f.src.ip # ServerIp /\ Old(nat_box, f.src) /\ Answerable(nat_box, f.src)
                    /\ f.body.local.ip \in OwnIps /\ Leads(nat_box, f.src, f.body.local.ip)
  BY <1>1 DEF FrameOK, Honest
<1> DEFINE e == [f.body EXCEPT !.public = f.src]
           n == Len(nat_info) + 1
           g == Packet(Gateway(f.src.ip), "out", ServerAddr, f.src, 0, n, NoBody)
<1>4. CASE n > LastId
  <2>1. UNCHANGED nat_info /\ nat_net' = nat_net \ {f}
    BY <1>2, <1>4, Sites DEF rec_request_id
  <2> QED
    BY <2>1, FramesMove
<1>5. CASE n <= LastId
  <2>1. nat_info' = Append(nat_info, e) /\ nat_net' = (nat_net \ {f}) \cup {g}
    BY <1>5 DEF rec_request_id
  <2>2. e \in Body /\ e.local = f.body.local
    BY <1>2 DEF Body
  <2> HIDE DEF e
  <2>3. /\ nat_info' \in Seq(Body) /\ Len(nat_info') = n /\ nat_info'[n] = e
        /\ \A i \in 1 .. Len(nat_info) : nat_info'[i] = nat_info[i]
    BY <1>2, <2>1, <2>2
  <2>4. \A i \in 1 .. n : i \in 1 .. Len(nat_info) \/ i = n
    BY <1>2
  <2>5. InfoOK(nat_info')
    <3>1. PortsApart => \A i \in 1 .. Len(nat_info') : nat_info'[i].local.ip \in OwnIps
      BY <1>1, <1>3, <2>2, <2>3, <2>4 DEF InfoOK
    <3> QED
      BY <1>5, <2>3, <3>1 DEF InfoOK
  <2>6. Knows(nat_info, nat_info')
    BY <1>2, <2>3 DEF Knows
  <2>7. PortsApart => Leads(nat_box, f.src, nat_info'[n].local.ip)
    BY <1>3, <2>2, <2>3
  <2>8. n \in Nat /\ n <= Len(nat_info')
    BY <1>2, <2>3
  <2> HIDE DEF n
  <2>9. FrameOK(nat_box, nat_info', g)
    BY <1>1, <1>2, <1>3, <2>5, <2>7, <2>8, ServerFrame, ServerFacts
  <2> HIDE DEF g
  <2> QED
    BY <1>1, <2>1, <2>5, <2>6, <2>9, NatKeeps
<1> QED
  BY <1>2, <1>4, <1>5, Sites

LEMMA IpRequestStep ==
    ASSUME NatInv, NEW f \in nat_net, f.code = 1, f.dst.ip = ServerIp, rec_ip_request(f),
           UNCHANGED <<nat_box, nat_client, nat_typed>>
    PROVE  NatInv'
<1>1. BoxesOK(nat_box) /\ InfoOK(nat_info) /\ FrameOK(nat_box, nat_info, f)
  BY DEF NatInv
<1>2. f \in Frame /\ f.src \in Address /\ f.id \in Nat /\ nat_info \in Seq(Body)
  BY <1>1 DEF FrameOK, Frame, InfoOK
<1>3. PortsApart => /\ f.src.ip # ServerIp /\ Old(nat_box, f.src) /\ Answerable(nat_box, f.src)
  BY <1>1 DEF FrameOK, Honest
<1> DEFINE g == Packet(Gateway(f.src.ip), "out", ServerAddr, f.src, 1, f.id, nat_info[f.id])
<1>4. f.id \in DOMAIN nat_info => FrameOK(nat_box, nat_info, g)
  <2>1. ASSUME f.id \in DOMAIN nat_info
        PROVE  FrameOK(nat_box, nat_info, g)
    <3> DEFINE e == nat_info[f.id]
    <3>1. e \in Body
      BY <1>2, <2>1
    <3> HIDE DEF e
    <3>2. 1 \in Nat \ {5, 6} /\ 1 # 0
      OBVIOUS
    <3> QED
      BY <1>1, <1>2, <1>3, <3>1, <3>2, ServerFrame DEF e
  <2> QED
    BY <2>1
<1>5. /\ UNCHANGED nat_info
      /\ nat_net' = nat_net \ {f} \/ (f.id \in DOMAIN nat_info /\ nat_net' = (nat_net \ {f}) \cup {g})
  BY DEF rec_ip_request
<1> HIDE DEF g
<1> QED
  BY <1>4, <1>5, FramesMove

LEMMA UpdateStep ==
    ASSUME NatInv, NEW f \in nat_net, f.code = 5, rec_update_request(f),
           UNCHANGED <<nat_box, nat_client, nat_typed>>
    PROVE  NatInv'
<1>1. /\ BoxesOK(nat_box) /\ InfoOK(nat_info) /\ FrameOK(nat_box, nat_info, f)
      /\ nat_typed \in 0 .. MaxNatCommands /\ nat_client \in [NatClient -> ClientState]
      /\ Grows(nat_box, nat_box)
  BY Stays DEF NatInv
<1>2. /\ f \in Frame /\ f.body \in Body /\ f.body.local \in Address /\ f.id \in Nat
      /\ nat_info \in Seq(Body) /\ Len(nat_info) \in Nat /\ DOMAIN nat_info = 1 .. Len(nat_info)
  BY <1>1 DEF FrameOK, Frame, InfoOK, Body
<1>3. CASE f.id \notin DOMAIN nat_info
  BY <1>3, FramesMove DEF rec_update_request
<1>4. CASE f.id \in DOMAIN nat_info
  <2> DEFINE e == [nat_info[f.id] EXCEPT !.local = f.body.local]
  <2>1. nat_info' = [nat_info EXCEPT ![f.id] = e] /\ nat_net' = nat_net \ {f}
    BY <1>4 DEF rec_update_request
  <2>2. e \in Body /\ e.local = f.body.local
    <3>1. nat_info[f.id] \in Body
      BY <1>2, <1>4
    <3> QED
      BY <1>2, <3>1 DEF Body
  <2> HIDE DEF e
  <2>3. /\ nat_info' \in Seq(Body) /\ Len(nat_info') = Len(nat_info) /\ nat_info'[f.id] = e
        /\ \A i \in 1 .. Len(nat_info) : i # f.id => nat_info'[i] = nat_info[i]
    BY <1>2, <1>4, <2>1, <2>2
  <2>4. PortsApart => /\ f.body.local.ip \in OwnIps
                      /\ nat_info[f.id].local.ip = f.body.local.ip
    BY <1>1, <1>2, <1>4 DEF FrameOK, Honest
  <2>5. PortsApart => \A i \in 1 .. Len(nat_info) : nat_info'[i].local.ip = nat_info[i].local.ip
    BY <2>2, <2>3, <2>4
  <2>6. Knows(nat_info, nat_info')
    BY <1>2, <2>3, <2>5 DEF Knows
  <2>7. InfoOK(nat_info')
    BY <1>1, <2>3, <2>5 DEF InfoOK
  <2> QED
    BY <1>1, <2>1, <2>6, <2>7, NatKeeps
<1> QED
  BY <1>3, <1>4

LEMMA StatusStep ==
    ASSUME NatInv, NEW f \in nat_net, f.code = 6, receive_status(f),
           UNCHANGED <<nat_box, nat_client, nat_typed>>
    PROVE  NatInv'
<1>1. BoxesOK(nat_box) /\ InfoOK(nat_info) /\ FrameOK(nat_box, nat_info, f)
  BY DEF NatInv
<1>2. f.body.local \in Address
  BY <1>1 DEF FrameOK, Frame, Body
<1> DEFINE d == f.body.local
           id == IF d = f.src THEN 1 ELSE 0
           g == Packet(Gateway(f.src.ip), "out", ServerAddr, d, 7, id, NoBody)
<1>3. UNCHANGED nat_info /\ nat_net' = (nat_net \ {f}) \cup {g}
  BY DEF receive_status
<1>4. id \in Nat
  OBVIOUS
<1> HIDE DEF id
<1>5. PortsApart => d.ip \in OwnIps
  BY <1>1 DEF FrameOK, Honest
<1>6. PortsApart => Old(nat_box, d) /\ Answerable(nat_box, d) /\ d.ip # ServerIp
  BY <1>1, <1>5, OwnAddress, ServerFacts
<1>7. FrameOK(nat_box, nat_info, g)
  <2> HIDE DEF d
  <2>1. d \in Address
    BY <1>2 DEF d
  <2>2. 7 \in Nat \ {5, 6} /\ 7 # 0
    OBVIOUS
  <2> QED
    BY <1>1, <1>4, <1>6, <2>1, <2>2, ServerFrame, ServerFacts
<1> HIDE DEF g
<1> QED
  BY <1>3, <1>7, FramesMove

LEMMA ForwardStep ==
    ASSUME NatInv, NEW f \in nat_net, forward(f), UNCHANGED <<nat_box, nat_client, nat_typed>>
    PROVE  NatInv'
<1> DEFINE g == [f EXCEPT !.at = Gateway(f.dst.ip), !.side = "out"]
<1>1. FrameOK(nat_box, nat_info, f)
  BY DEF NatInv
<1>2. f \in Frame /\ Gateway(f.dst.ip) \in Place
  BY <1>1 DEF FrameOK, Gateway, Place, Site
<1>3. /\ g \in Frame /\ g.side = "out" /\ g.src = f.src /\ g.dst = f.dst /\ g.code = f.code
      /\ g.id = f.id /\ g.body = f.body
  BY <1>2 DEF Frame
<1>4. UNCHANGED nat_info /\ nat_net' = (nat_net \ {f}) \cup {g}
  BY DEF forward
<1> HIDE DEF g
<1>5. PortsApart => Honest(nat_box, nat_info, g)
  BY <1>1, <1>3 DEF FrameOK, Honest
<1>6. FrameOK(nat_box, nat_info, g)
  BY <1>1, <1>3, <1>5 DEF FrameOK
<1> QED
  BY <1>4, <1>6, FramesMove

LEMMA ServerStep ==
    ASSUME NatInv, NEW f \in nat_net, server_machine_processFrame(f)
    PROVE  NatInv'
<1>1. UNCHANGED <<nat_box, nat_client, nat_typed>>
  BY DEF server_machine_processFrame
<1>2. CASE f.dst.ip # ServerIp
  <2>1. forward(f)
    BY <1>2 DEF server_machine_processFrame, ServerIp
  <2> QED
    BY <1>1, <2>1, ForwardStep
<1>3. CASE f.dst.ip = ServerIp
  <2>1. /\ f.code = 0 => rec_request_id(f)
        /\ f.code = 1 => rec_ip_request(f)
        /\ f.code = 5 => rec_update_request(f)
        /\ f.code = 6 => receive_status(f)
        /\ f.code \notin {0, 1, 5, 6} => UNCHANGED nat_info /\ nat_net' = nat_net \ {f}
    BY <1>3 DEF server_machine_processFrame, ServerIp
  <2>2. CASE f.code \notin {0, 1, 5, 6}
    BY <1>1, <2>1, <2>2, FramesMove
  <2> QED
    BY <1>1, <1>3, <2>1, <2>2, RequestIdStep, IpRequestStep, UpdateStep, StatusStep
<1> QED
  BY <1>2, <1>3

LEMMA BoxStep ==
    ASSUME NatInv, NEW f \in nat_net, nat_processFrame(f)
    PROVE  NatInv'
<1>1. f.at \in NatBox /\ UNCHANGED <<nat_info, nat_client, nat_typed>>
  BY DEF nat_processFrame
<1>2. f.side \in {"in", "out"}
  BY DEF NatInv, FrameOK, Frame
<1>3. CASE f.side = "out"
  <2>1. from_outside(f.at, f)
    BY <1>3 DEF nat_processFrame
  <2> QED
    BY <1>1, <2>1, OutsideStep
<1>4. CASE f.side = "in"
  <2>1. from_inside(f.at, f)
    BY <1>4 DEF nat_processFrame
  <2> QED
    BY <1>1, <1>4, <2>1, InsideStep
<1> QED
  BY <1>2, <1>3, <1>4

\* What a client's handler or command makes of it.
LEMMA ClientMoves ==
    ASSUME NatInv, UNCHANGED <<nat_box, nat_info>>, nat_typed' \in 0 .. MaxNatCommands,
           NEW c \in NatClient, NEW t \in ClientState,
           t.my_ID = nat_client[c].my_ID \/ ClientOK(nat_info, c, t),
           nat_client' = [nat_client EXCEPT ![c] = t],
           NEW out, \A g \in out : FrameOK(nat_box, nat_info, g),
           \A g \in nat_net' : g \in nat_net \/ g \in out
    PROVE  NatInv'
<1>1. /\ BoxesOK(nat_box) /\ InfoOK(nat_info) /\ nat_client \in [NatClient -> ClientState]
      /\ Grows(nat_box, nat_box) /\ Knows(nat_info, nat_info)
  BY Stays DEF NatInv
<1>2. /\ nat_client' \in [NatClient -> ClientState] /\ nat_client'[c] = t
      /\ \A d \in NatClient : d # c => nat_client'[d] = nat_client[d]
  BY <1>1
<1>3. \A d \in NatClient :
          nat_client'[d].my_ID = nat_client[d].my_ID \/ ClientOK(nat_info', d, nat_client'[d])
  BY <1>2
<1>4. \A g \in nat_net' : g \in nat_net \/ FrameOK(nat_box', nat_info', g)
  OBVIOUS
<1> QED
  BY <1>1, <1>2, <1>3, <1>4, NatKeeps

LEMMA ClientFacts ==
    ASSUME NatInv, NEW c \in NatClient
    PROVE  /\ nat_client[c] \in ClientState /\ ClientOK(nat_info, c, nat_client[c])
           /\ nat_client[c].my_ID \in Nat /\ nat_client[c].my_port \in 0 .. MaxPort
           /\ nat_client[c].my_port \in Nat /\ nat_client[c].peer_ID \in Nat
           /\ nat_client[c].peer_info \in Body
           /\ nat_client[c].peer_info.local \in Address /\ nat_client[c].peer_info.public \in Address
           /\ BoxesOK(nat_box) /\ InfoOK(nat_info) /\ Len(nat_info) \in Nat
<1>1. /\ nat_client[c] \in ClientState /\ ClientOK(nat_info, c, nat_client[c])
      /\ BoxesOK(nat_box) /\ InfoOK(nat_info)
  BY DEF NatInv
<1>2. /\ nat_client[c].my_ID \in Nat /\ nat_client[c].my_port \in 0 .. MaxPort
      /\ nat_client[c].peer_ID \in Nat /\ nat_client[c].peer_info \in Body
  BY <1>1 DEF ClientState
<1>3. Len(nat_info) \in Nat /\ nat_client[c].my_port \in Nat
  BY <1>1, <1>2, Sites DEF InfoOK
<1> QED
  BY <1>1, <1>2, <1>3 DEF Body

LEMMA OwnInfo ==
    ASSUME NEW c \in NatClient, NEW port \in Int
    PROVE  Info(c, port) \in Body /\ Info(c, port).local.ip = OwnIp(c)
<1>1. Info(c, port) = [local |-> Addr(OwnIp(c), port), public |-> Addr(<<Nobody, 0>>, 0)]
  BY DEF Info, NoBody, NoPeer
<1>2. Addr(OwnIp(c), port) \in Address /\ Addr(OwnIp(c), port).ip = OwnIp(c)
  BY OwnFacts
<1>3. Addr(<<Nobody, 0>>, 0) \in Address
  BY DEF Addr, Address, Site
<1> QED
  BY <1>1, <1>2, <1>3 DEF Body

\* A client that (re)registers on a port.
LEMMA Connects ==
    ASSUME NatInv, NEW c \in NatClient, NEW s \in ClientState, s.my_ID = nat_client[c].my_ID,
           NEW port \in 0 .. MaxPort, NEW r, r = make_connection(c, s, port)
    PROVE  /\ r.s \in ClientState /\ r.s.my_ID = nat_client[c].my_ID
           /\ \A g \in r.out : FrameOK(nat_box, nat_info, g)
<1>1. port \in Int /\ port \in Nat
  BY Sites
<1>2. CASE s.my_ID > 0
  BY <1>2 DEF make_connection
<1>3. CASE ~(s.my_ID > 0)
  <2> DEFINE t == [s EXCEPT !.my_port = port]
             out == Send(c, ServerAddr, 0, 0, Info(c, port), port)
  <2>1. r = [s |-> t, out |-> out]
    BY <1>3 DEF make_connection
  <2>2. t \in ClientState /\ t.my_ID = s.my_ID
    BY DEF ClientState
  <2>3. Info(c, port) \in Body /\ Info(c, port).local.ip = OwnIp(c)
    BY <1>1, OwnInfo
  <2>4. ASSUME NEW g \in out
        PROVE  FrameOK(nat_box, nat_info, g)
    <3>1. 0 \in Nat /\ 0 # 1 /\ 0 # 5 /\ 0 # 6
      OBVIOUS
    <3>2. BoxesOK(nat_box) /\ InfoOK(nat_info) /\ ServerAddr \in Address
      BY ServerFacts DEF NatInv
    <3> QED
      BY <1>1, <2>3, <3>1, <3>2, SentFrame
  <2> HIDE DEF t, out
  <2> QED
    BY <2>1, <2>2, <2>4
<1> QED
  BY <1>2, <1>3

\* Frames of which the server learns nothing, or that ask it for a client.
LEMMA PlainFrames ==
    ASSUME NatInv, NEW c \in NatClient, NEW dst \in Address, NEW code \in {1, 2, 3},
           code = 1 => dst = ServerAddr, NEW id \in Nat, NEW body \in Body, NEW port \in Int,
           NEW g \in Send(c, dst, code, id, body, port)
    PROVE  FrameOK(nat_box, nat_info, g)
<1>1. BoxesOK(nat_box) /\ InfoOK(nat_info)
  BY DEF NatInv
<1>2. code \in Nat /\ code # 0 /\ code # 5 /\ code # 6
  OBVIOUS
<1> QED
  BY <1>1, <1>2, SentFrame

\* Frames that tell the server a client's own address again, or ask it to compare it.
LEMMA OwnFrames ==
    ASSUME NatInv, NEW c \in NatClient, NEW code \in {5, 6}, NEW id \in Nat,
           code = 5 => id = nat_client[c].my_ID, NEW port \in Int,
           NEW g \in Send(c, ServerAddr, code, id, Info(c, port), port)
    PROVE  FrameOK(nat_box, nat_info, g)
<1>1. BoxesOK(nat_box) /\ InfoOK(nat_info) /\ ServerAddr \in Address
  BY ServerFacts DEF NatInv
<1>2. code \in Nat /\ code # 0 /\ code # 1
  OBVIOUS
<1>3. Info(c, port) \in Body /\ Info(c, port).local.ip = OwnIp(c)
  BY OwnInfo
<1>4. code = 5 /\ PortsApart /\ id # 0 => id <= Len(nat_info) /\ nat_info[id].local.ip = OwnIp(c)
  <2>1. ClientOK(nat_info, c, nat_client[c]) /\ nat_client[c].my_ID \in Nat
    BY ClientFacts
  <2> QED
    BY <2>1 DEF ClientOK
<1> QED
  BY <1>1, <1>2, <1>3, <1>4, SentFrame

LEMMA DropStep ==
    ASSUME NatInv, NEW f, NEW c \in NatClient, NEW r, r = receive_drop_packet(c, nat_client[c], f)
    PROVE  /\ r.s \in ClientState /\ r.s.my_ID = nat_client[c].my_ID
           /\ \A g \in r.out : FrameOK(nat_box, nat_info, g)
<1> DEFINE s == nat_client[c]
           port == next_port(s.my_port)
           t == [s EXCEPT !.my_port = port]
<1>1. s \in ClientState /\ s.my_port \in Nat
  BY ClientFacts
<1>2. CASE f.src.port = 1234 /\ port <= MaxPort
  <2>1. port \in 0 .. MaxPort
    BY <1>1, <1>2, Sites DEF next_port
  <2>2. r = make_connection(c, t, port)
    BY <1>2 DEF receive_drop_packet
  <2> HIDE DEF port, s
  <2>3. t \in ClientState /\ t.my_ID = s.my_ID
    BY <1>1, <2>1 DEF ClientState
  <2> QED
    BY <2>1, <2>2, <2>3, Connects DEF s
<1>3. CASE ~(f.src.port = 1234 /\ port <= MaxPort)
  <2>1. r = [s |-> s, out |-> {}]
    BY <1>3 DEF receive_drop_packet
  <2> QED
    BY <1>1, <2>1
<1> QED
  BY <1>2, <1>3

LEMMA PingStep ==
    ASSUME NatInv, NEW f \in Frame, NEW c \in NatClient,
           NEW r, r = request_session(c, nat_client[c], f)
    PROVE  /\ r.s \in ClientState /\ r.s.my_ID = nat_client[c].my_ID
           /\ \A g \in r.out : FrameOK(nat_box, nat_info, g)
<1> DEFINE s == nat_client[c]
           info == [local |-> f.src, public |-> f.src]
           t == [s EXCEPT !.peer_ID = f.id, !.connected = TRUE, !.peer_session_kind = "local",
                          !.peer_info = info]
           out == Send(c, f.src, 2, s.my_ID, Pong, f.dst.port)
<1>1. s \in ClientState /\ s.my_ID \in Nat
  BY ClientFacts
<1>2. f.src \in Address /\ f.dst \in Address /\ f.id \in Nat /\ f.dst.port \in Int
  BY DEF Frame, Address
<1>3. info \in Body
  BY <1>2 DEF Body
<1>4. CASE check_connection(s, f.id)
  BY <1>1, <1>4 DEF request_session
<1>5. CASE ~check_connection(s, f.id)
  <2>1. r = [s |-> t, out |-> out]
    BY <1>5 DEF request_session
  <2>2. \A g \in out : FrameOK(nat_box, nat_info, g)
    BY <1>1, <1>2, PlainFrames, ServerFacts
  <2> HIDE DEF info, s, out
  <2>3. t \in ClientState /\ t.my_ID = s.my_ID
    BY <1>1, <1>2, <1>3 DEF ClientState
  <2> HIDE DEF t
  <2> QED
    BY <2>1, <2>2, <2>3 DEF s
<1> QED
  BY <1>4, <1>5

LEMMA ClientFrameStep ==
    ASSUME NatInv, NEW f \in nat_net, client_machine_processFrame(f)
    PROVE  NatInv'
<1> DEFINE c == f.at
           s == nat_client[c]
           Only(t) == [s |-> t, out |-> {}]
<1>1. /\ c \in NatClient /\ f.dst.ip = OwnIp(c) /\ UNCHANGED <<nat_box, nat_info, nat_typed>>
  BY DEF client_machine_processFrame
<1>2. PICK r : /\ nat_client' = [nat_client EXCEPT ![c] = r.s]
               /\ nat_net' = (nat_net \ {f}) \cup r.out
               /\ r = CASE f.code = 0 /\ f.id = 0 -> receive_drop_packet(c, s, f)
                        [] f.code = 0 /\ f.id # 0 -> Only(response_id(s, f))
                        [] f.code = 1 -> Only(response_ip(s, f))
                        [] f.code = 2 /\ f.body = Ping -> request_session(c, s, f)
                        [] f.code = 2 /\ f.body = Pong -> Only(response_session(s, f))
                        [] f.code = 4 -> [s |-> s, out |-> receive_NAT_updated_packet(c, s)]
                        [] OTHER -> Only(s)
  BY Zenon DEF client_machine_processFrame
<1>3. /\ FrameOK(nat_box, nat_info, f) /\ f \in Frame /\ f.id \in Nat /\ f.body \in Body
      /\ f.dst \in Address /\ nat_typed \in 0 .. MaxNatCommands
  BY DEF NatInv, FrameOK, Frame
<1>4. s \in ClientState /\ s.my_ID \in Nat /\ s.my_port \in Nat
  BY <1>1, ClientFacts
<1>5. ASSUME r.s \in ClientState, r.s.my_ID = s.my_ID \/ ClientOK(nat_info, c, r.s),
             \A g \in r.out : FrameOK(nat_box, nat_info, g)
      PROVE  NatInv'
  BY <1>1, <1>2, <1>3, <1>5, ClientMoves
<1>6. CASE r = receive_drop_packet(c, s, f)
  BY <1>1, <1>5, <1>6, DropStep
<1>7. CASE f.code = 0 /\ f.id # 0 /\ r = Only(response_id(s, f))
  <2>1. r.s = [s EXCEPT !.my_ID = f.id] /\ r.out = {}
    BY <1>7 DEF response_id
  <2>2. r.s \in ClientState /\ r.s.my_ID = f.id
    BY <1>3, <1>4, <2>1 DEF ClientState
  <2>3. f.id <= Len(nat_info)
    BY <1>3, <1>7 DEF FrameOK
  <2>4. PortsApart => nat_info[f.id].local.ip = OwnIp(c)
    <3>1. ASSUME PortsApart
          PROVE  nat_info[f.id].local.ip = OwnIp(c)
      <4>1. Leads(nat_box, f.dst, nat_info[f.id].local.ip)
        BY <1>3, <1>7, <3>1 DEF FrameOK, Honest
      <4> QED
        BY <1>1, <4>1, OwnFacts DEF Leads
    <3> QED
      BY <3>1
  <2>5. ClientOK(nat_info, c, r.s)
    BY <2>2, <2>3, <2>4 DEF ClientOK
  <2> QED
    BY <1>5, <2>1, <2>2, <2>5
<1>8. CASE r = Only(response_ip(s, f))
  <2>1. r.s = [s EXCEPT !.peer_info = f.body, !.peer_ID = f.id, !.connected = FALSE] /\ r.out = {}
    BY <1>8 DEF response_ip
  <2>2. r.s \in ClientState /\ r.s.my_ID = s.my_ID
    BY <1>3, <1>4, <2>1 DEF ClientState
  <2> QED
    BY <1>5, <2>1, <2>2
<1>9. CASE r = request_session(c, s, f)
  BY <1>1, <1>3, <1>5, <1>9, PingStep
<1>10. CASE r = Only(response_session(s, f))
  <2>1. (r.s = s \/ r.s = [s EXCEPT !.connected = TRUE]) /\ r.out = {}
    BY <1>10 DEF response_session
  <2>2. r.s \in ClientState /\ r.s.my_ID = s.my_ID
    BY <1>4, <2>1 DEF ClientState
  <2> QED
    BY <1>5, <2>1, <2>2
<1>11. CASE r = [s |-> s, out |-> receive_NAT_updated_packet(c, s)]
  <2>1. r.s = s /\ r.out = Send(c, ServerAddr, 5, s.my_ID, Info(c, s.my_port), s.my_port)
    BY <1>11 DEF receive_NAT_updated_packet
  <2>2. \A g \in r.out : FrameOK(nat_box, nat_info, g)
    BY <1>1, <1>4, <2>1, OwnFrames
  <2> QED
    BY <1>4, <1>5, <2>1, <2>2
<1>12. CASE r = Only(s)
  <2>1. r.s = s /\ r.out = {}
    BY <1>12
  <2> QED
    BY <1>4, <1>5, <2>1
<1>13. \/ r = receive_drop_packet(c, s, f)
       \/ f.code = 0 /\ f.id # 0 /\ r = Only(response_id(s, f))
       \/ r = Only(response_ip(s, f)) \/ r = request_session(c, s, f)
       \/ r = Only(response_session(s, f))
       \/ r = [s |-> s, out |-> receive_NAT_updated_packet(c, s)] \/ r = Only(s)
  <2> DEFINE r1 == receive_drop_packet(c, s, f)
             r2 == Only(response_id(s, f))
             r3 == Only(response_ip(s, f))
             r4 == request_session(c, s, f)
             r5 == Only(response_session(s, f))
             r6 == [s |-> s, out |-> receive_NAT_updated_packet(c, s)]
             r7 == Only(s)
  <2>1. r = CASE f.code = 0 /\ f.id = 0 -> r1
             [] f.code = 0 /\ f.id # 0 -> r2
             [] f.code = 1 -> r3
             [] f.code = 2 /\ f.body = Ping -> r4
             [] f.code = 2 /\ f.body = Pong -> r5
             [] f.code = 4 -> r6
             [] OTHER -> r7
    BY <1>2
  <2> HIDE DEF r1, r2, r3, r4, r5, r6, r7
  <2>2. \/ r = r1 \/ (f.code = 0 /\ f.id # 0 /\ r = r2) \/ r = r3 \/ r = r4 \/ r = r5 \/ r = r6 \/ r = r7
    BY <2>1
  <2> QED
    BY <2>2 DEF r1, r2, r3, r4, r5, r6, r7
<1> HIDE DEF c, s, Only
<1> QED
  BY <1>6, <1>7, <1>8, <1>9, <1>10, <1>11, <1>12, <1>13

LEMMA ConnectCommandStep ==
    ASSUME NatInv, NEW c \in NatClient, NEW port \in ClientPort, connect_command(c, port),
           UNCHANGED <<nat_box, nat_info>>, nat_typed' \in 0 .. MaxNatCommands
    PROVE  NatInv'
<1> DEFINE r == make_connection(c, nat_client[c], port)
<1>1. port \in 0 .. MaxPort
  BY NatAssumption, Zenon
<1>2. nat_client[c] \in ClientState
  BY ClientFacts
<1>3. /\ r.s \in ClientState /\ r.s.my_ID = nat_client[c].my_ID
      /\ \A g \in r.out : FrameOK(nat_box, nat_info, g)
  BY <1>1, <1>2, Connects
<1>4. nat_client' = [nat_client EXCEPT ![c] = r.s] /\ nat_net' = nat_net \cup r.out
  BY DEF connect_command
<1> HIDE DEF r
<1> QED
  BY <1>3, <1>4, ClientMoves

LEMMA SessionCommandStep ==
    ASSUME NatInv, NEW c \in NatClient, NEW kind \in {"local", "public"}, make_session(c, kind),
           UNCHANGED <<nat_box, nat_info>>, nat_typed' \in 0 .. MaxNatCommands
    PROVE  NatInv'
<1> DEFINE s == nat_client[c]
           t == [s EXCEPT !.peer_session_kind = kind]
           dst == PeerAddr(s, kind)
           out == Send(c, dst, 2, s.my_ID, Ping, s.my_port)
<1>1. /\ s \in ClientState /\ s.my_ID \in Nat /\ s.my_port \in Nat
      /\ s.peer_info.local \in Address /\ s.peer_info.public \in Address
      /\ nat_client \in [NatClient -> ClientState]
  BY ClientFacts DEF NatInv
<1>2. dst \in Address
  BY <1>1 DEF PeerAddr
<1>3. nat_client' = [nat_client EXCEPT ![c] = t] /\ nat_net' = nat_net \cup out
  BY <1>1 DEF make_session
<1> HIDE DEF dst
<1>4. \A g \in out : FrameOK(nat_box, nat_info, g)
  BY <1>1, <1>2, PlainFrames, ServerFacts
<1> HIDE DEF out
<1>5. t \in ClientState /\ t.my_ID = s.my_ID
  <2> HIDE DEF s
  <2> QED
    BY <1>1 DEF ClientState
<1> HIDE DEF t
<1> QED
  BY <1>3, <1>4, <1>5, ClientMoves

LEMMA SendCommandStep ==
    ASSUME NatInv, NEW c \in NatClient, NEW f,
           f \in commands(c, nat_client[c]) \/
               f = Packet(c, "in", ServerAddr, Addr(OwnIp(c), 0), 4, 0, NoBody),
           nat_net' = nat_net \cup {f},
           UNCHANGED <<nat_box, nat_info, nat_client>>, nat_typed' \in 0 .. MaxNatCommands
    PROVE  NatInv'
<1> DEFINE s == nat_client[c]
<1>1. /\ s \in ClientState /\ s.my_ID \in Nat /\ s.my_port \in Nat /\ BoxesOK(nat_box)
      /\ s.peer_info.local \in Address /\ s.peer_info.public \in Address /\ Len(nat_info) \in Nat
  BY ClientFacts
<1>2. ASSUME f \in get_id_info(c, s)
      PROVE  FrameOK(nat_box, nat_info, f)
  <2>1. PICK id \in 1 .. Len(nat_info) : f \in Send(c, ServerAddr, 1, id, NoBody, s.my_port)
    BY <1>2 DEF get_id_info
  <2>2. id \in Nat /\ ServerAddr \in Address /\ NoBody \in Body
    BY <1>1, ServerFacts
  <2> QED
    BY <1>1, <2>1, <2>2, PlainFrames
<1>3. ASSUME f \in ask_status(c, s)
      PROVE  FrameOK(nat_box, nat_info, f)
  <2>1. f \in Send(c, ServerAddr, 6, 0, Info(c, s.my_port), s.my_port)
    BY <1>3 DEF ask_status
  <2> QED
    BY <1>1, <2>1, OwnFrames
<1>4. ASSUME f \in send_message(c, s)
      PROVE  FrameOK(nat_box, nat_info, f)
  <2> DEFINE dst == PeerAddr(s, s.peer_session_kind)
  <2>1. f \in Send(c, dst, 3, s.my_ID, NoBody, s.my_port)
    BY <1>4 DEF send_message
  <2>2. dst \in Address /\ NoBody \in Body
    BY <1>1, ServerFacts DEF PeerAddr
  <2> HIDE DEF dst
  <2> QED
    BY <1>1, <2>1, <2>2, PlainFrames
<1>5. ASSUME f = Packet(c, "in", ServerAddr, Addr(OwnIp(c), 0), 4, 0, NoBody)
      PROVE  FrameOK(nat_box, nat_info, f)
  <2> DEFINE d == Addr(OwnIp(c), 0)
  <2>1. d \in Address /\ d.ip \in OwnIps /\ d.ip # ServerIp
    BY OwnFacts
  <2>2. Old(nat_box, d) /\ Answerable(nat_box, d)
    BY <1>1, <2>1, OwnAddress
  <2>3. c \in Place /\ c \notin NatBox /\ ServerAddr \in Address /\ NoBody \in Body
    BY Sites, ServerFacts DEF Place, Site
  <2>4. f = [at |-> c, side |-> "in", src |-> ServerAddr, dst |-> d, code |-> 4, id |-> 0,
             body |-> NoBody]
    BY <1>5 DEF Packet
  <2> HIDE DEF d
  <2>5. /\ f \in Frame /\ f.at = c /\ f.src = ServerAddr /\ f.dst = d /\ f.code = 4
    BY <2>1, <2>3, <2>4 DEF Frame
  <2>6. Honest(nat_box, nat_info, f)
    BY <2>1, <2>2, <2>5 DEF Honest
  <2> QED
    BY <2>3, <2>5, <2>6 DEF FrameOK
<1>6. FrameOK(nat_box, nat_info, f)
  BY <1>2, <1>3, <1>4, <1>5 DEF commands
<1>7. InfoOK(nat_info) /\ nat_client \in [NatClient -> ClientState]
  BY DEF NatInv
<1> QED
  BY <1>1, <1>6, <1>7, NatKeeps, Stays

LEMMA CommandStep ==
    ASSUME NatInv, NatCommand
    PROVE  NatInv'
<1>1. nat_typed' \in 0 .. MaxNatCommands
  BY Sites DEF NatInv, NatCommand
<1>2. ASSUME NEW c \in NatClient, client_machine_run(c)
      PROVE  NatInv'
  <2>1. UNCHANGED <<nat_box, nat_info>>
    BY <1>2 DEF client_machine_run
  <2>2. CASE \E port \in ClientPort : connect_command(c, port)
    BY <1>1, <2>1, <2>2, ConnectCommandStep
  <2>3. CASE \E kind \in {"local", "public"} : make_session(c, kind)
    BY <1>1, <2>1, <2>3, SessionCommandStep
  <2>4. CASE /\ UNCHANGED nat_client
             /\ \E f \in commands(c, nat_client[c]) \cup
                    {Packet(c, "in", ServerAddr, Addr(OwnIp(c), 0), 4, 0, NoBody)} :
                   nat_net' = nat_net \cup {f}
    BY <1>1, <2>1, <2>4, SendCommandStep
  <2> QED
    BY <1>2, <2>2, <2>3, <2>4 DEF client_machine_run
<1>3. ASSUME NEW b \in NatBox, nat_run(b)
      PROVE  NatInv'
  BY <1>1, <1>3, BlockStep, ResetStep DEF nat_run
<1> QED
  BY <1>2, <1>3 DEF NatCommand

LEMMA NatStep ==
    ASSUME NatInv, [NatNext]_natVars
    PROVE  NatInv'
<1>1. CASE NatCommand
  BY <1>1, CommandStep
<1>2. CASE NatDelivery
  <2>1. PICK f \in nat_net : \/ nat_processFrame(f) \/ server_machine_processFrame(f)
                             \/ client_machine_processFrame(f)
    BY <1>2 DEF NatDelivery
  <2> QED
    BY <2>1, BoxStep, ServerStep, ClientFrameStep
<1>3. CASE UNCHANGED natVars
  BY <1>3, FramesMove DEF natVars
<1> QED
  BY <1>1, <1>2, <1>3 DEF NatNext

LEMMA NatStart ==
    ASSUME NatInit
    PROVE  NatInv
<1>1. /\ nat_info = <<>> /\ nat_net = {} /\ nat_typed = 0
      /\ nat_box = [b \in NatBox |-> [table |-> <<>>, sessions |-> {}, blocked_range |-> {},
                                      base_port |-> 2000, counter |-> 0]]
      /\ nat_client = [c \in NatClient |-> [my_ID |-> 0, my_port |-> 0, peer_ID |-> 0,
                          peer_info |-> NoPeer, connected |-> FALSE, peer_session_kind |-> "none"]]
  BY DEF NatInit
<1>2. InfoOK(nat_info)
  BY <1>1, Sites DEF InfoOK
<1>3. BoxesOK(nat_box)
  <2>1. [table |-> <<>>, sessions |-> {}, blocked_range |-> {}, base_port |-> 2000, counter |-> 0]
           \in BoxState
    <3>1. <<>> \in Seq(Body) /\ 2000 \in Bases
      BY DEF Bases
    <3> QED
      BY <3>1 DEF BoxState
  <2>2. nat_box \in [NatBox -> BoxState] /\ \A b \in NatBox : DOMAIN nat_box[b].table = {}
    BY <1>1, <2>1
  <2> QED
    BY <2>2 DEF BoxesOK, TableOK
<1>4. nat_client \in [NatClient -> ClientState]
  <2>1. 0 \in 0 .. MaxPort /\ NoPeer \in Body
    BY Sites, ServerFacts
  <2>2. [my_ID |-> 0, my_port |-> 0, peer_ID |-> 0, peer_info |-> NoPeer, connected |-> FALSE,
         peer_session_kind |-> "none"] \in ClientState
    BY <2>1 DEF ClientState
  <2> QED
    BY <1>1, <2>2
<1>5. \A c \in NatClient : ClientOK(nat_info, c, nat_client[c])
  BY <1>1 DEF ClientOK
<1>6. nat_typed \in 0 .. MaxNatCommands /\ nat_net = {}
  BY <1>1, Sites
<1> QED
  BY <1>2, <1>3, <1>4, <1>5, <1>6 DEF NatInv

LEMMA NatSafe ==
    ASSUME NatInv
    PROVE  NatSound
<1>1. NatTypeOK
  <2>1. ASSUME NEW c \in NatClient
        PROVE  nat_client[c].my_ID \in 0 .. LastId /\ nat_client[c].my_port \in 0 .. MaxPort
    <3>1. /\ nat_client[c].my_ID \in Nat /\ nat_client[c].my_port \in 0 .. MaxPort
          /\ ClientOK(nat_info, c, nat_client[c]) /\ InfoOK(nat_info) /\ Len(nat_info) \in Nat
      BY ClientFacts
    <3>2. nat_client[c].my_ID <= Len(nat_info) /\ Len(nat_info) <= LastId
      BY <3>1 DEF ClientOK, InfoOK
    <3> QED
      BY <3>1, <3>2, Sites
  <2> QED
    BY <2>1 DEF NatTypeOK, NatInv
<1>2. \A b \in NatBox : \A i, j \in DOMAIN nat_box[b].table :
          i # j => /\ nat_box[b].table[i].public # nat_box[b].table[j].public
                   /\ nat_box[b].table[i].local # nat_box[b].table[j].local
  BY DEF NatInv, BoxesOK, TableOK
<1>3. \A c \in NatClient : nat_client[c].my_ID <= Len(nat_info)
  BY DEF NatInv, ClientOK
<1>4. ASSUME PortsApart
      PROVE  /\ \A i \in DOMAIN nat_info : nat_info[i].local.ip \in {OwnIp(c) : c \in NatClient}
             /\ \A c \in NatClient :
                   nat_client[c].my_ID > 0 => nat_info[nat_client[c].my_ID].local.ip = OwnIp(c)
  BY <1>4 DEF NatInv, InfoOK, ClientOK, OwnIps
<1> QED
  BY <1>1, <1>2, <1>3, <1>4 DEF NatSound

\* The ids that clients use are their own, and a NAT's table is one to one, for any
\* clients, NATs and commands: the counter of calculate_new_address is never set back,
\* so that whatever is still on its way for a forgotten public address reaches nobody
\* else, as long as resets keep the ports apart (calculate_new_address, reset_setting,
\* rec_request_id, response_id).
THEOREM IdsStayTrue == NatSpec => []NatSound
<1>1. NatInit => NatInv
  BY NatStart
<1>2. NatInv /\ [NatNext]_natVars => NatInv'
  BY NatStep
<1>3. NatInv => NatSound
  BY NatSafe
<1> QED
  BY <1>1, <1>2, <1>3, PTL DEF NatSpec
=============================================================================
