---------------------------- MODULE AddressSpace -----------------------------
(***************************************************************************)
(* Address spaces of user processes (load and its helpers and the end of   *)
(* process_exit in userprog/process.c, userprog/pagedir.c,                 *)
(* userprog/exception.c): a process gets a page directory, its executable  *)
(* is put into pages, it runs until it exits or faults, and its pages go   *)
(* back, while the processor switches between processes at any step.       *)
(***************************************************************************)
EXTENDS Integers, Sequences, FiniteSets, SequencesExt, FiniteSetsExt

CONSTANTS
    VmProc,        \* processes
    VmPageSize,        \* bytes of a page
    PHYS_BASE,     \* pages of user memory
    PtPages,       \* pages a page table maps
    UserPool, KernelPool,   \* pages of the two pools
    VmExe,         \* executables: [segs, length]; a segment is [offset, vaddr, filesz, memsz, w]
    AddrWidth,     \* number of addresses: 2^32
    NoPage

\* What a program header says, in numbers of the width of an address.
VmSegment == [offset : 0..AddrWidth - 1, vaddr : 0..AddrWidth - 1, filesz : 0..AddrWidth - 1,
              memsz : 0..AddrWidth - 1, w : BOOLEAN]

ASSUME AddressSpaceAssumption ==
    /\ {VmPageSize, PHYS_BASE, PtPages, AddrWidth} \subseteq Nat \ {0} /\ PHYS_BASE > 1
    /\ UserPool \cup KernelPool \subseteq Nat /\ UserPool \cap KernelPool = {}
    /\ NoPage \notin UserPool \cup KernelPool \cup VmProc
    /\ (PHYS_BASE + 1) * VmPageSize <= AddrWidth
    /\ VmExe \subseteq [segs : Seq(VmSegment), length : Nat]

VARIABLES
    vm_free,     \* pages that are free
    vm_mem,      \* what user pages hold: per byte the offset in the file it came from, or 0
    vm_pd,       \* page directory of each process: [page, tables, map], from vpage to [page, w]
    vm_old,      \* the one that is being destroyed
    vm_proc,     \* [at, exe, page, seg, done]: where each process is
    vm_cpu,      \* who runs
    vm_cr3       \* the active page directory; NoPage is the one of the kernel

vmVars == <<vm_free, vm_mem, vm_pd, vm_old, vm_proc, vm_cpu, vm_cr3>>

NoDir == [page |-> NoPage, tables |-> <<>>, map |-> <<>>]
NoExe == [segs |-> <<>>, length |-> 0]
-----------------------------------------------------------------------------
(***************************************************************************)
(* Pages and page tables.                                                  *)
(***************************************************************************)

\* A page of a pool, or NoPage.
palloc_get_page(pool) == IF vm_free \cap pool = {} THEN NoPage ELSE Min(vm_free \cap pool)
pd_no(v) == v \div PtPages
WithEntry(f, x, e) == [y \in DOMAIN f \cup {x} |-> IF y = x THEN e ELSE f[y]]
pagedir_get_page(d, v) == IF v \in DOMAIN d.map THEN d.map[v].page ELSE NoPage

\* lookup_page (with CREATE) and pagedir_set_page: the directory and the page table
\* taken for it (NoPage if there is one), or failed.
pagedir_set_page(d, v, page, w) ==
    LET pt == Min(vm_free \cap KernelPool)
        has == pd_no(v) \in DOMAIN d.tables
        to == [d EXCEPT !.map = WithEntry(@, v, [page |-> page, w |-> w])]
    IN  IF has THEN [dir |-> to, pt |-> NoPage, ok |-> TRUE]
        ELSE IF vm_free \cap KernelPool = {} THEN [dir |-> d, pt |-> NoPage, ok |-> FALSE]
        ELSE [dir |-> [to EXCEPT !.tables = WithEntry(@, pd_no(v), pt)], pt |-> pt, ok |-> TRUE]
install_page(d, v, page, w) ==
    IF pagedir_get_page(d, v) # NoPage THEN [dir |-> d, pt |-> NoPage, ok |-> FALSE]
    ELSE pagedir_set_page(d, v, page, w)
-----------------------------------------------------------------------------
(***************************************************************************)
(* Segments.                                                               *)
(***************************************************************************)

ROUND_UP(x) == ((x + VmPageSize - 1) \div VmPageSize) * VmPageSize
validate_segment(s, exe) ==
    LET end == (s.vaddr + s.memsz) % AddrWidth
    IN  /\ s.offset % VmPageSize = s.vaddr % VmPageSize /\ s.offset <= exe.length
        /\ s.memsz >= s.filesz /\ s.memsz # 0
        /\ s.vaddr < PHYS_BASE * VmPageSize /\ end < PHYS_BASE * VmPageSize /\ end >= s.vaddr
        /\ s.vaddr >= VmPageSize
read_bytes(s) == IF s.filesz > 0 THEN (s.vaddr % VmPageSize) + s.filesz ELSE 0
zero_bytes(s) == ROUND_UP((s.vaddr % VmPageSize) + s.memsz) - read_bytes(s)
segment_pages(s) == (read_bytes(s) + zero_bytes(s)) \div VmPageSize

\* Page i of the segment, counting from 0: how many bytes are read, and what it
\* holds; the bytes of a file are the numbers from 1.
page_read_bytes(s, i) ==
    LET left == read_bytes(s) - i * VmPageSize IN IF left < 0 THEN 0 ELSE IF left < VmPageSize THEN left ELSE VmPageSize
file_page(s) == (s.offset \div VmPageSize) * VmPageSize
page_content(s, i) ==
    [b \in 0..VmPageSize - 1 |-> IF b < page_read_bytes(s, i) THEN file_page(s) + i * VmPageSize + b + 1 ELSE 0]
\* file_read returns what it was asked for.
page_is_in_file(s, i, exe) ==
    page_read_bytes(s, i) = 0 \/ file_page(s) + i * VmPageSize + page_read_bytes(s, i) <= exe.length
-----------------------------------------------------------------------------
(***************************************************************************)
(* load, by the process that runs.                                         *)
(***************************************************************************)

Runs1(p, at) == vm_cpu = p /\ vm_proc[p].at = at
Goes1(p, at) == vm_proc' = [vm_proc EXCEPT ![p].at = at]

\* pagedir_create and process_activate.  A file that cannot be opened, or whose
\* header is wrong, ends like one whose first segment is not valid.
load(p, exe) ==
    LET page == palloc_get_page(KernelPool)
    IN  /\ Runs1(p, "new")
        /\ vm_proc' = [vm_proc EXCEPT ![p] = [at |-> IF page = NoPage THEN "exit" ELSE "load",
                                              exe |-> exe, seg |-> 1, done |-> 0]]
        /\ vm_free' = vm_free \ {page}
        /\ vm_pd' = IF page = NoPage THEN vm_pd ELSE [vm_pd EXCEPT ![p].page = page]
        /\ vm_cr3' = page
        /\ UNCHANGED <<vm_mem, vm_old, vm_cpu>>

\* The next page of load_segment; a page that cannot be used goes back.
load_segment(p) ==
    LET pr == vm_proc[p]
        s == pr.exe.segs[pr.seg]
        kpage == palloc_get_page(UserPool)
        v == s.vaddr \div VmPageSize + pr.done
        r == install_page(vm_pd[p], v, kpage, s.w)
        ok == /\ validate_segment(s, pr.exe) /\ kpage # NoPage
              /\ page_is_in_file(s, pr.done, pr.exe) /\ r.ok
        last == pr.done + 1 = segment_pages(s)
    IN  /\ Runs1(p, "load") /\ pr.seg <= Len(pr.exe.segs)
        /\ IF ok
           THEN /\ vm_free' = vm_free \ {kpage, r.pt}
                /\ vm_mem' = [vm_mem EXCEPT ![kpage] = page_content(s, pr.done)]
                /\ vm_pd' = [vm_pd EXCEPT ![p] = r.dir]
                /\ vm_proc' = [vm_proc EXCEPT ![p].seg = IF last THEN @ + 1 ELSE @,
                                              ![p].done = IF last THEN 0 ELSE @ + 1]
           ELSE Goes1(p, "exit") /\ UNCHANGED <<vm_free, vm_mem, vm_pd>>
        /\ UNCHANGED <<vm_old, vm_cpu, vm_cr3>>

setup_stack(p) ==
    LET kpage == palloc_get_page(UserPool)
        r == install_page(vm_pd[p], PHYS_BASE - 1, kpage, TRUE)
        ok == kpage # NoPage /\ r.ok
    IN  /\ Runs1(p, "load") /\ vm_proc[p].seg > Len(vm_proc[p].exe.segs)
        /\ Goes1(p, IF ok THEN "user" ELSE "exit")
        /\ vm_free' = IF ok THEN vm_free \ {kpage, r.pt} ELSE vm_free
        /\ vm_mem' = IF ok THEN [vm_mem EXCEPT ![kpage] = [b \in 0..VmPageSize - 1 |-> 0]] ELSE vm_mem
        /\ vm_pd' = IF ok THEN [vm_pd EXCEPT ![p] = r.dir] ELSE vm_pd
        /\ UNCHANGED <<vm_old, vm_cpu, vm_cr3>>
-----------------------------------------------------------------------------
(***************************************************************************)
(* The processor.                                                          *)
(***************************************************************************)

\* thread_schedule_tail calls process_activate.
process_activate(p) ==
    /\ p # vm_cpu /\ vm_proc[p].at # "dead"
    /\ vm_cpu' = p
    /\ vm_cr3' = vm_pd[p].page
    /\ UNCHANGED <<vm_free, vm_mem, vm_pd, vm_old, vm_proc>>
\* page_fault or kill of the user process that runs: an access its pages do not
\* allow, or another exception.
page_fault(p) ==
    /\ Runs1(p, "user")
    /\ \E v \in 0..PHYS_BASE : v \in DOMAIN vm_pd[p].map => ~vm_pd[p].map[v].w
    /\ Goes1(p, "exit")
    /\ UNCHANGED <<vm_free, vm_mem, vm_pd, vm_old, vm_cpu, vm_cr3>>

\* The end of process_exit: pagedir is cleared, the directory of the kernel made
\* active, then the pages go back, table by table.
process_exit(p) ==
    /\ Runs1(p, "exit")
    /\ vm_old' = [vm_old EXCEPT ![p] = vm_pd[p]]
    /\ vm_pd' = [vm_pd EXCEPT ![p] = NoDir]
    /\ Goes1(p, IF vm_pd[p].page = NoPage THEN "gone" ELSE "leave")
    /\ UNCHANGED <<vm_free, vm_mem, vm_cpu, vm_cr3>>
base == NoPage
pagedir_activate_base(p) ==
    /\ Runs1(p, "leave")
    /\ vm_cr3' = base
    /\ Goes1(p, "destroy")
    /\ UNCHANGED <<vm_free, vm_mem, vm_pd, vm_old, vm_cpu>>
pagedir_destroy(p) ==
    LET d == vm_old[p]
        first == Min(DOMAIN d.tables)
        mine == {v \in DOMAIN d.map : pd_no(v) = first}
    IN  /\ Runs1(p, "destroy")
        /\ IF DOMAIN d.tables # {}
           THEN /\ vm_free' = vm_free \cup {d.map[v].page : v \in mine} \cup {d.tables[first]}
                /\ vm_old' = [vm_old EXCEPT ![p].map = Restrict(@, DOMAIN @ \ mine),
                                            ![p].tables = Restrict(@, DOMAIN @ \ {first})]
                /\ UNCHANGED vm_proc
           ELSE /\ vm_free' = vm_free \cup {d.page}
                /\ vm_old' = [vm_old EXCEPT ![p] = NoDir]
                /\ Goes1(p, "gone")
        /\ UNCHANGED <<vm_mem, vm_pd, vm_cpu, vm_cr3>>
\* Its thread is done; another one runs.
thread_ends(p) ==
    /\ Runs1(p, "gone")
    /\ Goes1(p, "dead")
    /\ vm_cpu' = NoPage /\ vm_cr3' = NoPage
    /\ UNCHANGED <<vm_free, vm_mem, vm_pd, vm_old>>
-----------------------------------------------------------------------------
VmInit ==
    /\ vm_free = UserPool \cup KernelPool
    /\ vm_mem = [k \in UserPool |-> [b \in 0..VmPageSize - 1 |-> 0]]
    /\ vm_pd = [p \in VmProc |-> NoDir] /\ vm_old = [p \in VmProc |-> NoDir]
    /\ vm_proc = [p \in VmProc |-> [at |-> "new", exe |-> NoExe, seg |-> 1, done |-> 0]]
    /\ vm_cpu = NoPage /\ vm_cr3 = NoPage
VmNext ==
    \E p \in VmProc :
       \/ \E exe \in VmExe : load(p, exe)
       \/ load_segment(p) \/ setup_stack(p) \/ process_activate(p) \/ page_fault(p)
       \/ process_exit(p) \/ pagedir_activate_base(p) \/ pagedir_destroy(p) \/ thread_ends(p)
VmSpec == VmInit /\ [][VmNext]_vmVars
-----------------------------------------------------------------------------
(***************************************************************************)
(* Properties.                                                             *)
(***************************************************************************)

VmTypeOK ==
    /\ vm_free \subseteq UserPool \cup KernelPool /\ vm_cr3 \in KernelPool \cup {NoPage}
    /\ vm_cpu \in VmProc \cup {NoPage}
    /\ \A p \in VmProc : vm_proc[p].at \in {"new", "load", "user", "exit", "leave", "destroy", "gone", "dead"}

\* The kernel pages and the user pages of all directories, each with its place.
Held(p) == <<vm_pd[p], vm_old[p]>>
Holdings ==
    UNION { LET d == Held(x[1])[x[2]]
            IN  {<<d.page, <<x[1], x[2], "dir", 0>>>>}
                \cup {<<d.tables[v], <<x[1], x[2], "table", v>>>> : v \in DOMAIN d.tables}
                \cup {<<d.map[v].page, <<x[1], x[2], "map", v>>>> : v \in DOMAIN d.map}
            : x \in VmProc \X (1..2) }
\* The byte of a process at an address.
Byte(p, a) == vm_mem[vm_pd[p].map[a \div VmPageSize].page][a % VmPageSize]

\* The active page directory is never one that was given back (the comment in
\* process_exit: "our active page directory will be one that's been freed").  A page
\* is free or in one place of one process: none is lost when a load fails half way
\* or when two processes are torn down at once.  A process that runs finds each byte
\* of each segment where its header says, the rest of the segment zero, nothing
\* writable that should not be, and no page 0.
VmSound ==
    /\ VmTypeOK
    /\ vm_cr3 \notin vm_free
    /\ vm_cr3 # NoPage => \E p \in VmProc : vm_cr3 \in {vm_pd[p].page, vm_old[p].page} /\ vm_cpu = p
    /\ LET held == Holdings
       IN  \A k \in UserPool \cup KernelPool :
              Cardinality({h \in held : h[1] = k}) = IF k \in vm_free THEN 0 ELSE 1
    /\ \A p \in VmProc : vm_proc[p].at = "user" =>
          /\ 0 \notin DOMAIN vm_pd[p].map /\ PHYS_BASE - 1 \in DOMAIN vm_pd[p].map
          /\ \A i \in DOMAIN vm_proc[p].exe.segs :
                LET s == vm_proc[p].exe.segs[i]
                IN  \A k \in 0..s.memsz - 1 :
                       /\ Byte(p, s.vaddr + k) = IF k < s.filesz THEN s.offset + k + 1 ELSE 0
                       /\ vm_pd[p].map[(s.vaddr + k) \div VmPageSize].w = s.w
=============================================================================
