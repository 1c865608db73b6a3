--------------------------------- MODULE Disk --------------------------------
(***************************************************************************)
(* Block devices, partitions and the IDE driver of the kernel              *)
(* (devices/block.c, devices/partition.c, devices/ide.c): threads read and *)
(* write sectors of partitions; the disk answers with interrupts.  The     *)
(* disk itself is external and answers every command in the end.  The      *)
(* counts of reads and writes, which are only printed, are left out.       *)
(***************************************************************************)
EXTENDS Integers, Sequences, FiniteSets, Lists

CONSTANTS
    DiskThread, DiskValue,
    DiskSize,       \* capacity in sectors
    PartTable,      \* entries of the table in sector 0: [type, offset, size]
    SectorWidth,    \* values of block_sector_t: 2^32
    MaxSpurious,    \* interrupts nobody asked for
    NoReader

ASSUME DiskAssumption ==
    /\ {DiskSize, SectorWidth, MaxSpurious} \subseteq Nat /\ DiskSize < SectorWidth /\ NoReader \notin DiskThread
    /\ PartTable \in Seq([type : 0..255, offset : 0..SectorWidth - 1, size : 0..SectorWidth - 1])

VARIABLES
    dk_blocks,    \* all_blocks: the disk itself, then its partitions [start, size, type]
    dk_lock,      \* lock of the channel
    dk_expect,    \* expecting_interrupt
    dk_sema,      \* completion_wait
    dk_thread,    \* [at, op, block, sector, buf] of each thread
    dk_hw,        \* the disk: [state, sector, data, irq]
    dk_media,     \* its sectors
    dk_spurious   \* interrupts nobody asked for, so far

diskVars == <<dk_blocks, dk_lock, dk_expect, dk_sema, dk_thread, dk_hw, dk_media, dk_spurious>>
DiskIdle == [at |-> "idle", op |-> "-", block |-> 1, sector |-> 0, buf |-> 0]
-----------------------------------------------------------------------------
(***************************************************************************)
(* partition_scan.                                                         *)
(***************************************************************************)

extended(type) == type \in {5, 15, 133, 197}
role(type) == CASE type = 32 -> "kernel" [] type = 33 -> "filesys" [] type = 34 -> "scratch"
                [] type = 35 -> "swap" [] OTHER -> "foreign"
block_register(start, size, type) == [start |-> start, size |-> size, type |-> type]

inside(start, size) ==
    LET end == (start + size) % SectorWidth
    IN  start < DiskSize /\ end >= start /\ end <= DiskSize
found_partition(e, start) ==
    IF inside(start, e.size) THEN <<block_register(start, e.size, role(e.type))>> ELSE <<>>

\* Whatever sector it is called for, the table it reads is the one in sector 0: an
\* extended entry leads to the same table again, and there to further ones.  The
\* code comes back from that only if those begin past the end of the disk.
used(e) == e.size # 0 /\ e.type # 0
ASSUME NestingEnds ==
    \A i, j \in DOMAIN PartTable :
        LET e == PartTable[i]
            f == PartTable[j]
        IN  used(e) /\ extended(e.type) /\ used(f) /\ extended(f.type) /\ e.offset < DiskSize
            => (e.offset + f.offset) % SectorWidth >= DiskSize

\* The table as that of a sector, with what its extended entries lead to.
table(sector, nested) ==
    IF sector >= DiskSize THEN <<>>
    ELSE Joined([i \in DOMAIN PartTable |->
            LET e == PartTable[i]
            IN  IF ~used(e) THEN <<>> ELSE IF extended(e.type) THEN nested[i]
                ELSE found_partition(e, (e.offset + sector) % SectorWidth)])
read_partition_table ==
    table(0, [i \in DOMAIN PartTable |-> table(PartTable[i].offset, [j \in DOMAIN PartTable |-> <<>>])])
-----------------------------------------------------------------------------
(***************************************************************************)
(* block_read, block_write and the driver below them.                      *)
(***************************************************************************)

Goes(t, at) == dk_thread' = [dk_thread EXCEPT ![t].at = at]
\* The sector of the disk a request is for: partition_read adds the start.
Target(r) == dk_blocks[r.block].start + r.sector

\* check_sector; a partition nobody knows the type of is not written.
block_call(t, op, b, s, v) ==
    /\ dk_thread[t].at = "idle" /\ b \in DOMAIN dk_blocks
    /\ s < dk_blocks[b].size /\ (op = "write" => dk_blocks[b].type # "foreign")
    /\ dk_thread' = [dk_thread EXCEPT ![t] = [at |-> "lock", op |-> op, block |-> b, sector |-> s, buf |-> v]]
    /\ UNCHANGED <<dk_blocks, dk_lock, dk_expect, dk_sema, dk_hw, dk_media, dk_spurious>>

\* Faulty: the channel is used without its lock.
channel_free_always(t) == TRUE
channel_free(t) == dk_lock = NoReader

\* lock_acquire, select_sector (which waits for the disk to be idle, reading its
\* status register and so clearing an interrupt that is pending) and
\* issue_pio_command.
ide_start(t) ==
    /\ dk_thread[t].at = "lock" /\ channel_free(t) /\ dk_hw.state = "idle"
    /\ dk_lock' = t
    /\ dk_expect' = TRUE
    /\ dk_hw' = [dk_hw EXCEPT !.state = dk_thread[t].op, !.sector = Target(dk_thread[t]), !.irq = FALSE]
    /\ Goes(t, IF dk_thread[t].op = "read" THEN "sema" ELSE "busy")
    /\ UNCHANGED <<dk_blocks, dk_sema, dk_media, dk_spurious>>

\* sema_down of a read; wait_while_busy and input_sector; lock_release.
ide_read_wait(t) ==
    /\ dk_thread[t].at = "sema" /\ dk_thread[t].op = "read" /\ dk_sema > 0
    /\ dk_sema' = dk_sema - 1
    /\ Goes(t, "busy")
    /\ UNCHANGED <<dk_blocks, dk_lock, dk_expect, dk_hw, dk_media, dk_spurious>>
input_sector(t) ==
    /\ dk_thread[t].at = "busy" /\ dk_thread[t].op = "read" /\ dk_hw.state = "read_drq"
    /\ dk_thread' = [dk_thread EXCEPT ![t].at = "got", ![t].buf = dk_hw.data]
    /\ dk_hw' = [dk_hw EXCEPT !.state = "idle"]
    /\ UNCHANGED <<dk_blocks, dk_lock, dk_expect, dk_sema, dk_media, dk_spurious>>
ide_read_end(t) ==
    /\ dk_thread[t].at = "got"
    /\ dk_lock' = NoReader
    /\ dk_thread' = [dk_thread EXCEPT ![t] = DiskIdle]
    /\ UNCHANGED <<dk_blocks, dk_expect, dk_sema, dk_hw, dk_media, dk_spurious>>

\* wait_while_busy and output_sector of a write; sema_down and lock_release.
output_sector(t) ==
    /\ dk_thread[t].at = "busy" /\ dk_thread[t].op = "write" /\ dk_hw.state = "write_drq"
    /\ dk_hw' = [dk_hw EXCEPT !.state = "store", !.data = dk_thread[t].buf]
    /\ Goes(t, "sema")
    /\ UNCHANGED <<dk_blocks, dk_lock, dk_expect, dk_sema, dk_media, dk_spurious>>
ide_write_end(t) ==
    /\ dk_thread[t].at = "sema" /\ dk_thread[t].op = "write" /\ dk_sema > 0
    /\ dk_sema' = dk_sema - 1
    /\ dk_lock' = NoReader
    /\ dk_thread' = [dk_thread EXCEPT ![t] = DiskIdle]
    /\ UNCHANGED <<dk_blocks, dk_expect, dk_hw, dk_media, dk_spurious>>

\* interrupt_handler.
ide_interrupt ==
    /\ dk_hw.irq
    /\ dk_hw' = [dk_hw EXCEPT !.irq = FALSE]
    /\ dk_sema' = IF dk_expect THEN dk_sema + 1 ELSE dk_sema
    /\ UNCHANGED <<dk_blocks, dk_lock, dk_expect, dk_thread, dk_media, dk_spurious>>
-----------------------------------------------------------------------------
(***************************************************************************)
(* The disk.                                                               *)
(***************************************************************************)

hw_step ==
    /\ \/ /\ dk_hw.state = "read"
          /\ dk_hw' = [dk_hw EXCEPT !.state = "read_drq", !.data = dk_media[dk_hw.sector], !.irq = TRUE]
          /\ UNCHANGED dk_media
       \/ /\ dk_hw.state = "write"
          /\ dk_hw' = [dk_hw EXCEPT !.state = "write_drq"]
          /\ UNCHANGED dk_media
       \/ /\ dk_hw.state = "store"
          /\ dk_media' = [dk_media EXCEPT ![dk_hw.sector] = dk_hw.data]
          /\ dk_hw' = [dk_hw EXCEPT !.state = "idle", !.irq = TRUE]
    /\ UNCHANGED <<dk_blocks, dk_lock, dk_expect, dk_sema, dk_thread, dk_spurious>>
\* Before the first command.
hw_spurious ==
    /\ dk_spurious < MaxSpurious /\ ~dk_expect /\ ~dk_hw.irq
    /\ dk_spurious' = dk_spurious + 1
    /\ dk_hw' = [dk_hw EXCEPT !.irq = TRUE]
    /\ UNCHANGED <<dk_blocks, dk_lock, dk_expect, dk_sema, dk_thread, dk_media>>
-----------------------------------------------------------------------------
\* ide_init: the channel, the disk and its partitions.
DiskInit ==
    /\ dk_blocks = <<block_register(0, DiskSize, "raw")>> \o read_partition_table
    /\ dk_lock = NoReader /\ dk_expect = FALSE /\ dk_sema = 0
    /\ dk_thread = [t \in DiskThread |-> DiskIdle]
    /\ dk_hw = [state |-> "idle", sector |-> 0, data |-> 0, irq |-> FALSE]
    /\ dk_media = [s \in 0..DiskSize - 1 |-> 0] /\ dk_spurious = 0
DiskThreadStep(t) ==
    \/ ide_start(t) \/ ide_read_wait(t) \/ input_sector(t) \/ ide_read_end(t)
    \/ output_sector(t) \/ ide_write_end(t)
\* The partitions are read and written, not the disk behind them.
DiskNext ==
    \/ hw_step \/ ide_interrupt \/ hw_spurious
    \/ \E t \in DiskThread : DiskThreadStep(t)
    \/ \E t \in DiskThread, b \in 2..Len(dk_blocks), s \in 0..DiskSize - 1 :
          block_call(t, "read", b, s, 0) \/ \E v \in DiskValue : block_call(t, "write", b, s, v)
\* The disk answers, the threads run, and the lock comes to everyone in the end.
DiskFairness ==
    /\ WF_diskVars(hw_step) /\ WF_diskVars(ide_interrupt)
    /\ \A t \in DiskThread : SF_diskVars(DiskThreadStep(t))
DiskSpec == DiskInit /\ [][DiskNext]_diskVars /\ DiskFairness
-----------------------------------------------------------------------------
(***************************************************************************)
(* Properties.                                                             *)
(***************************************************************************)

DiskTypeOK ==
    /\ dk_lock \in DiskThread \cup {NoReader} /\ dk_sema \in 0..1 /\ dk_expect \in BOOLEAN
    /\ \A t \in DiskThread : dk_thread[t].at \in {"idle", "lock", "sema", "busy", "got"}
    /\ dk_hw.state \in {"idle", "read", "read_drq", "write", "write_drq", "store"}
    /\ \A s \in DOMAIN dk_media : dk_media[s] \in DiskValue \cup {0}

\* Every registered block lies on the disk.  One thread at a time is between the
\* lock and its release, and the command in progress is its own.  A completion is
\* that of this command: the data of a read is there, a write is on the disk
\* ("Returns after the disk has acknowledged receiving the data"), and none is left
\* over for the next command.  What a read returns is the sector asked for.
DiskSound ==
    /\ DiskTypeOK
    /\ \A b \in DOMAIN dk_blocks : dk_blocks[b].start + dk_blocks[b].size <= DiskSize
    /\ \A t \in DiskThread :
          LET r == dk_thread[t]
          IN  /\ r.at \in {"sema", "busy", "got"} => dk_lock = t /\ dk_hw.sector = Target(r)
              /\ r.at = "sema" /\ dk_sema > 0 =>
                    IF r.op = "read" THEN dk_hw.state = "read_drq" ELSE dk_media[Target(r)] = r.buf
              /\ r.at = "got" => r.buf = dk_media[Target(r)]
    /\ dk_lock = NoReader => dk_hw.state = "idle" /\ dk_sema = 0 /\ (dk_expect => ~dk_hw.irq)

\* Every request ends: no interrupt is lost.
DiskAnswers == \A t \in DiskThread : (dk_thread[t].at = "lock") ~> (dk_thread[t].at = "idle")
=============================================================================
