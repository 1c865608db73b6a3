------------------------------- MODULE Memory -------------------------------
(***************************************************************************)
(* Memory as a whole: the page allocator and the heap of the kernel, the   *)
(* address spaces of processes, and mm_alloc, which share no state.        *)
(***************************************************************************)
EXTENDS Heap, AddressSpace, MmAlloc

\* Memory is handed out once and gets back whole: pages and blocks of the kernel
\* (palloc.c, malloc.c), pages of processes (process.c, pagedir.c), and the blocks of
\* mm_alloc.c.
MemorySound == HeapSound /\ VmSound /\ MmSound
=============================================================================
