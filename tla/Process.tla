------------------------------ MODULE Process ------------------------------
(***************************************************************************)
(* User processes of PintOS: process_execute, start_process, process_wait  *)
(* and process_exit (userprog/process.c), and the exec, wait and exit      *)
(* system calls with global_filesys_lock (userprog/syscall.c).             *)
(*                                                                         *)
(* A parent and its child share one heap block, the child's                *)
(* struct thread_additional_info (`info'): the child writes it while it    *)
(* starts and exits, the parent waits on its two semaphores, and whoever   *)
(* is last is meant to free it.  Steps of different processes interleave,  *)
(* as they do under the preempting scheduler of module Kernel, which also  *)
(* provides the semaphores and the lock used here.                         *)
(*                                                                         *)
(* The heap fills a freed block with 0xcc (malloc.c, free), so a semaphore *)
(* in a freed or a not yet initialized block leads the kernel into a wild  *)
(* pointer: the model records the place in `fault' and the behaviour ends. *)
(***************************************************************************)
EXTENDS Integers, Sequences, FiniteSets

CONSTANTS
    Proc,     \* the processes that may be created
    Main,     \* the initial kernel thread, which has no info block
    None,     \* the null pointer
    Code      \* the statuses programs pass to exit

TID_ERROR == -1
All == Proc \cup {Main}

ASSUME ProcessAssumption ==
    /\ Main \notin Proc /\ None \notin All
    /\ Code \subseteq Int
    /\ \A p \in All : p # TID_ERROR

VARIABLES
    pc,           \* where a process is
    parent,       \* the process that created it
    children,     \* thread.children: the children whose info is listed
    arg,          \* the child process_execute or process_wait is about
    it,           \* process_exit's position in children
    args,         \* processes whose exec_command and command pages exist
    success,      \* start_process's success
    info,         \* the info blocks
    fs_lock,      \* holder of global_filesys_lock
    open_files,   \* processes with entries in thread.open_files
    fault,        \* the first access to a block that is not valid
    reported,     \* ghost: what exec has told the parent about a process
    waited,       \* ghost: what wait has told the parent about a process
    code          \* ghost: the status a process exited with

caller == <<children, arg, it>>
child  == <<parent, args, success>>
files  == <<fs_lock, open_files>>
ghosts == <<reported, waited, code>>
vars   == <<pc, caller, child, info, files, fault, ghosts>>

PC == {"none", "user", "init", "start_down", "load", "set_tid", "start_up",
       "wait_down", "wait_get", "file", "exit_test", "exit_orphan", "exit_next",
       "set_exited", "exit_up", "exit_free", "close", "dead"}
Fault == {"none", "null", "uninitialized", "freed", "freed_in_loop", "freed_twice"}

\* struct thread_additional_info, and what the heap knows of the block: "raw"
\* until wait_exit_sema and the flags are initialized.
Info == [block : {"none", "raw", "live", "freed"},
         tid : Proc \cup {TID_ERROR}, exited : BOOLEAN, orphan : BOOLEAN,
         exit_status : Int, start_sema : Nat, wait_exit_sema : Nat]

TypeOK ==
    /\ pc \in [All -> PC]
    /\ parent \in [Proc -> All \cup {None}]
    /\ children \in [All -> Seq(Proc)]
    /\ arg \in [All -> Proc \cup {None}]
    /\ it \in [All -> Nat \ {0}]
    /\ args \subseteq Proc
    /\ success \in [Proc -> BOOLEAN]
    /\ info \in [Proc -> Info]
    /\ fs_lock \in Proc \cup {None}
    /\ open_files \subseteq Proc
    /\ fault \in Fault
    /\ reported \in [Proc -> {"pending", "tid", "error"}]
    /\ waited \in [Proc -> Int \cup {None}] /\ code \in [Proc -> Int]
-----------------------------------------------------------------------------
Goto(p, l) == pc' = [pc EXCEPT ![p] = l]
At(p, l) == fault = "none" /\ pc[p] = l

\* A kernel that runs into an invalid block stops there.
Faults(f) == fault' = f /\ UNCHANGED <<pc, caller, child, info, files, ghosts>>

\* Process p returns from a call.
Return(p) == Goto(p, "user") /\ arg' = [arg EXCEPT ![p] = None]

\* Heap blocks are given back.
free(c) == info' = [info EXCEPT ![c].block = "freed"]
-----------------------------------------------------------------------------
(***************************************************************************)
(* process_execute (), in the parent.                                      *)
(***************************************************************************)

\* Faulty: exec () does not take the lock.
exec_lock_none(p) == UNCHANGED fs_lock

\* exec () takes global_filesys_lock before process_execute (); the initial
\* thread calls process_execute () without it.
exec_lock(p) ==
    IF p = Main THEN UNCHANGED fs_lock ELSE fs_lock = None /\ fs_lock' = p

\* exec () releases the lock when process_execute () returns.
exec_unlock(p) == fs_lock' = IF fs_lock = p THEN None ELSE fs_lock

\* The initial thread runs one task at a time: it waits for the one it started.
MayExec(p) == At(p, "user") /\ (p = Main => children[Main] = <<>>)

\* Up to thread_create (); without a page for the command or the new thread it
\* returns TID_ERROR and changes nothing.  The info block has its start
\* semaphore and tid -1, the rest of it is as malloc left it, and the child is
\* on the run queue.
Exec(p, c) ==
    /\ MayExec(p) /\ pc[c] = "none"
    /\ exec_lock(p)
    /\ pc' = [pc EXCEPT ![p] = "init", ![c] = "load"]
    /\ parent' = [parent EXCEPT ![c] = p]
    /\ arg' = [arg EXCEPT ![p] = c]
    /\ args' = args \cup {c}
    /\ info' = [info EXCEPT ![c].block = "raw", ![c].tid = TID_ERROR, ![c].start_sema = 0]
    /\ UNCHANGED <<children, it, success, open_files, fault, ghosts>>

\* malloc () has no memory for the info block; its result is not tested.
ExecNoInfo(p) ==
    /\ MayExec(p) /\ (p # Main => fs_lock = None)
    /\ Faults("null")

\* The parent initializes the rest of the block after thread_create ().
InitInfo(p) ==
    /\ At(p, "init")
    /\ Goto(p, "start_down")
    /\ info' = [info EXCEPT ![arg[p]].block = "live", ![arg[p]].exited = FALSE,
                           ![arg[p]].orphan = FALSE, ![arg[p]].exit_status = -1,
                           ![arg[p]].wait_exit_sema = 0]
    /\ UNCHANGED <<caller, child, files, fault, ghosts>>

\* Faulty: the parent does not wait for the child to load.
start_loaded_unwaited(c) == TRUE

\* sema_down (&info->start_sema) goes through.
start_loaded(c) == info[c].start_sema > 0

\* The parent has downed start_sema: it lists the child, or frees the info of
\* one that could not load; it frees the command and returns.
StartDown(p) ==
    LET c  == arg[p]
        ok == info[c].tid # TID_ERROR IN
    /\ At(p, "start_down")
    /\ start_loaded(c)
    /\ info' = [info EXCEPT ![c].start_sema = @ - 1, ![c].block = IF ok THEN @ ELSE "freed"]
    /\ children' = [children EXCEPT ![p] = IF ok THEN Append(@, c) ELSE @]
    /\ reported' = [reported EXCEPT ![c] = IF ok THEN "tid" ELSE "error"]
    /\ args' = args \ {c}
    /\ exec_unlock(p)
    /\ Return(p)
    /\ UNCHANGED <<parent, it, success, open_files, fault, waited, code>>
-----------------------------------------------------------------------------
(***************************************************************************)
(* start_process (), in the child.                                         *)
(***************************************************************************)

\* load () cannot allocate a page directory and fails before it reads the disk.
LoadNoMemory(c) ==
    /\ At(c, "load")
    /\ Goto(c, "set_tid")
    /\ success' = [success EXCEPT ![c] = FALSE]
    /\ UNCHANGED <<parent, caller, args, info, files, fault, ghosts>>

\* load () opens the executable, which blocks the child on the disk.  A parent
\* that was preempted before it initialized the block is on the run queue by
\* then, ahead of the child, and has a whole time slice.
Load(c, ok) ==
    /\ At(c, "load")
    /\ ~ (pc[parent[c]] = "init" /\ arg[parent[c]] = c)
    /\ Goto(c, "set_tid")
    /\ success' = [success EXCEPT ![c] = ok]
    /\ UNCHANGED <<parent, caller, args, info, files, fault, ghosts>>

\* Faulty: success is not looked at.
loaded_tid_always(c) == c

\* The info's tid once load () has returned.
loaded_tid(c) == IF success[c] THEN c ELSE info[c].tid

\* A child that could load makes its tid known.
SetTid(c) ==
    /\ At(c, "set_tid")
    /\ info' = [info EXCEPT ![c].tid = loaded_tid(c)]
    /\ Goto(c, "start_up")
    /\ UNCHANGED <<caller, child, files, fault, ghosts>>

\* The value sema_up gives start_sema.
start_up(c) == info[c].start_sema + 1

\* sema_up (&info->start_sema), then run the program or exit.
StartUp(c) ==
    /\ At(c, "start_up")
    /\ info' = [info EXCEPT ![c].start_sema = start_up(c)]
    /\ Goto(c, IF success[c] THEN "user" ELSE "exit_test")
    /\ UNCHANGED <<caller, child, files, fault, ghosts>>
-----------------------------------------------------------------------------
(***************************************************************************)
(* File system calls, as far as the lock goes.                             *)
(***************************************************************************)

\* create, remove, open, filesize, read, write, seek, tell and close.
FileCall(c) ==
    /\ At(c, "user")
    /\ fs_lock = None
    /\ fs_lock' = c
    /\ Goto(c, "file")
    /\ UNCHANGED <<caller, child, info, open_files, fault, ghosts>>

\* The call returns; open and close change the table of open files.
FileReturn(c) ==
    /\ At(c, "file")
    /\ fs_lock' = None
    /\ open_files' \in {open_files \cup {c}, open_files \ {c}}
    /\ Goto(c, "user")
    /\ UNCHANGED <<caller, child, info, fault, ghosts>>
-----------------------------------------------------------------------------
(***************************************************************************)
(* process_wait ().                                                        *)
(***************************************************************************)

Listed(p, c) == \E n \in DOMAIN children[p] : children[p][n] = c

\* Faulty: the child is not waited for.
wait_next_get(c) == "wait_get"

\* process_wait () sleeps unless the child has exited.
wait_next(c) == IF info[c].exited THEN "wait_get" ELSE "wait_down"

\* wait () finds the child in the list and looks whether it has exited; for
\* anything else it returns -1 and changes nothing.
Wait(p, c) ==
    /\ At(p, "user")
    /\ Listed(p, c)
    /\ arg' = [arg EXCEPT ![p] = c]
    /\ Goto(p, wait_next(c))
    /\ UNCHANGED <<children, it, child, info, files, fault, ghosts>>

\* Faulty: the semaphore is not tested.
wait_over_untested(c) == TRUE

\* sema_down goes through.
wait_over(c) == info[c].wait_exit_sema > 0

\* sema_down (&child->wait_exit_sema).
WaitDown(p) ==
    /\ At(p, "wait_down")
    /\ wait_over(arg[p])
    /\ info' = [info EXCEPT ![arg[p]].wait_exit_sema = @ - 1]
    /\ Goto(p, "wait_get")
    /\ UNCHANGED <<caller, child, files, fault, ghosts>>

\* Faulty: the freed block stays on the list.
unlisted_kept(p, c) == children[p]

\* list_remove: the children of p without the element for c.
unlisted(p, c) ==
    LET q == children[p]
        n == CHOOSE k \in 1..Len(q) : q[k] = c
    IN  SubSeq(q, 1, n - 1) \o SubSeq(q, n + 1, Len(q))

\* process_wait () collects the status and frees the block, or returns -1 when
\* it does not find the child exited.
WaitGet(p) ==
    LET c == arg[p] IN
    /\ At(p, "wait_get")
    /\ IF info[c].exited
       THEN /\ waited' = [waited EXCEPT ![c] = info[c].exit_status]
            /\ children' = [children EXCEPT ![p] = unlisted(p, c)]
            /\ free(c)
       ELSE waited' = [waited EXCEPT ![c] = -1] /\ UNCHANGED <<children, info>>
    /\ Return(p)
    /\ UNCHANGED <<it, child, files, fault, reported, code>>
-----------------------------------------------------------------------------
(***************************************************************************)
(* Exiting.                                                                *)
(***************************************************************************)

\* exit (s) by a program, or by the kernel for it with s = -1.
Exit(c, s) ==
    /\ At(c, "user")
    /\ info' = [info EXCEPT ![c].exit_status = s]
    /\ code' = [code EXCEPT ![c] = s]
    /\ Goto(c, "exit_test")
    /\ UNCHANGED <<caller, child, files, fault, reported, waited>>

\* An exception other than a page fault: kill () calls thread_exit ().
Kill(c) ==
    /\ At(c, "user")
    /\ code' = [code EXCEPT ![c] = -1]
    /\ Goto(c, "exit_test")
    /\ UNCHANGED <<caller, child, info, files, fault, reported, waited>>

\* The head of the loop over the children: an exited child's block is freed,
\* and list_next () then follows the pointer in the freed block.
ExitTest(p) ==
    /\ At(p, "exit_test")
    /\ \/ it[p] > Len(children[p]) /\ Goto(p, "set_exited") /\ UNCHANGED <<info, fault>>
       \/ /\ it[p] <= Len(children[p])
          /\ LET c == children[p][it[p]] IN
             IF info[c].exited
             THEN free(c) /\ fault' = "freed_in_loop" /\ UNCHANGED pc
             ELSE Goto(p, "exit_orphan") /\ UNCHANGED <<info, fault>>
    /\ UNCHANGED <<caller, child, files, ghosts>>

\* A child that was found running becomes an orphan.
ExitOrphan(p) ==
    /\ At(p, "exit_orphan")
    /\ info' = [info EXCEPT ![children[p][it[p]]].orphan = TRUE]
    /\ Goto(p, "exit_next")
    /\ UNCHANGED <<caller, child, files, fault, ghosts>>

\* list_next (): the orphan may have freed its block by now.
ExitNext(p) ==
    /\ At(p, "exit_next")
    /\ \/ info[children[p][it[p]]].block = "freed" /\ Faults("freed_in_loop")
       \/ /\ info[children[p][it[p]]].block # "freed"
          /\ it' = [it EXCEPT ![p] = @ + 1]
          /\ Goto(p, "exit_test")
          /\ UNCHANGED <<children, arg, child, info, files, fault, ghosts>>

\* cur->info->exited = true.
SetExited(c) ==
    /\ At(c, "set_exited")
    /\ \/ info[c].block = "freed" /\ Faults("freed")
       \/ /\ info[c].block # "freed"
          /\ info' = [info EXCEPT ![c].exited = TRUE]
          /\ Goto(c, "exit_up")
          /\ UNCHANGED <<caller, child, files, fault, ghosts>>

\* Faulty: the waiting parent is not woken.
exit_up_silent(c) == UNCHANGED info

\* sema_up (&cur->info->wait_exit_sema).
exit_up(c) == info' = [info EXCEPT ![c].wait_exit_sema = @ + 1]

\* A child wakes its parent: the semaphore must be there.
ExitUp(c) ==
    /\ At(c, "exit_up")
    /\ \/ info[c].block = "raw"   /\ Faults("uninitialized")
       \/ info[c].block = "freed" /\ Faults("freed")
       \/ /\ info[c].block = "live"
          /\ exit_up(c)
          /\ Goto(c, "exit_free")
          /\ UNCHANGED <<caller, child, files, fault, ghosts>>

\* An orphan frees its own block.  In a freed block `orphan' is a byte of the
\* heap's free list: either value may be read.
ExitFree(c) ==
    /\ At(c, "exit_free")
    /\ \/ info[c].block = "freed" /\ Faults("freed_twice")
       \/ /\ IF info[c].block = "live" /\ info[c].orphan THEN free(c) ELSE UNCHANGED info
          /\ Goto(c, "close")
          /\ UNCHANGED <<caller, child, files, fault, ghosts>>

\* Close the open files, under the lock, and the executable, without it; then
\* the struct thread is gone.
CloseFiles(c) ==
    /\ At(c, "close")
    /\ c \in open_files => fs_lock = None
    /\ open_files' = open_files \ {c}
    /\ Goto(c, "dead")
    /\ children' = [children EXCEPT ![c] = <<>>]
    /\ it' = [it EXCEPT ![c] = 1]
    /\ UNCHANGED <<arg, child, info, fs_lock, fault, ghosts>>
-----------------------------------------------------------------------------
Init ==
    /\ pc = [p \in All |-> IF p = Main THEN "user" ELSE "none"]
    /\ parent = [c \in Proc |-> None]
    /\ children = [p \in All |-> <<>>]
    /\ arg = [p \in All |-> None]
    /\ it = [p \in All |-> 1]
    /\ args = {}
    /\ success = [c \in Proc |-> FALSE]
    /\ info = [c \in Proc |-> [block |-> "none", tid |-> TID_ERROR, exited |-> FALSE,
                               orphan |-> FALSE, exit_status |-> -1,
                               start_sema |-> 0, wait_exit_sema |-> 0]]
    /\ fs_lock = None
    /\ open_files = {}
    /\ fault = "none"
    /\ reported = [c \in Proc |-> "pending"]
    /\ waited = [c \in Proc |-> None] /\ code = [c \in Proc |-> -1]

\* What a program, or the initial thread, asks for of its own accord.
Call(p) == ExecNoInfo(p) \/ \E c \in Proc : Exec(p, c) \/ Wait(p, c)

\* What only a program does.
Act(c) == FileCall(c) \/ Kill(c) \/ \E s \in Code : Exit(c, s)

\* The next step of process_execute () or process_wait ().
Continue(p) == InitInfo(p) \/ StartDown(p) \/ WaitDown(p) \/ WaitGet(p)

\* The next step of start_process (), a file call or process_exit ().
ChildStep(c) ==
    \/ LoadNoMemory(c) \/ (\E ok \in BOOLEAN : Load(c, ok)) \/ SetTid(c) \/ StartUp(c)
    \/ FileReturn(c)
    \/ ExitTest(c) \/ ExitOrphan(c) \/ ExitNext(c)
    \/ SetExited(c) \/ ExitUp(c) \/ ExitFree(c) \/ CloseFiles(c)

Next == (\E p \in All : Call(p) \/ Continue(p)) \/ (\E c \in Proc : Act(c) \/ ChildStep(c))

Spec == Init /\ [][Next]_vars

\* The scheduler gives every ready thread the CPU (Kernel, ReadyRuns), and a
\* lock that is released again and again goes to its first waiter.
FairSpec ==
    /\ Spec
    /\ \A p \in All : SF_vars(Continue(p))
    /\ \A c \in Proc : SF_vars(ChildStep(c))
-----------------------------------------------------------------------------
(***************************************************************************)
(* Properties.                                                             *)
(***************************************************************************)

\* exec reports what became of the load: it says error only for a process that
\* never runs its program, and a tid only for one that loaded.
ExecTruthful ==
    \A c \in Proc : /\ reported[c] = "error" => pc[c] # "user" /\ ~ success[c]
                    /\ reported[c] = "tid" => success[c]

\* The parent keeps the command pages and the exec_command while the child
\* loads from them.
ArgsAlive == \A c \in Proc : pc[c] = "load" => c \in args

\* wait returns the status the child exited with, and only once it has exited.
WaitTruthful ==
    \A c \in Proc : waited[c] # None =>
        /\ waited[c] = code[c]
        /\ pc[c] \in {"exit_up", "exit_free", "close", "dead"}

\* A list of children holds each child once, only while its block is valid, and
\* no child is on two lists: no status is delivered twice.
ChildrenValid ==
    \A p \in All : pc[p] \notin {"exit_test", "exit_orphan", "exit_next", "set_exited",
                                "exit_up", "exit_free", "close", "dead"} =>
        \A i \in DOMAIN children[p] :
            /\ info[children[p][i]].block = "live"
            /\ \A j \in DOMAIN children[p] : children[p][i] = children[p][j] => i = j
            /\ parent[children[p][i]] = p

\* The processes in file system code: in a file call, or loading on behalf of a
\* process that called exec.
InFilesys == {c \in Proc : pc[c] = "file" \/ (pc[c] = "load" /\ parent[c] # Main)}

\* One process at a time is in file system code, although load takes no lock:
\* the parent holds it until the child has loaded.
FilesysExclusive == \A c, d \in InFilesys : c = d

\* exec returns: the child wakes its parent whether it could load or not.
ExecReturns == \A p \in All : pc[p] = "start_down" ~> (pc[p] = "user" \/ fault # "none")

\* wait for a child that exits returns.
WaitReturns ==
    \A p \in All : \A c \in Proc :
        (pc[p] = "wait_down" /\ arg[p] = c /\ pc[c] = "dead")
            ~> (pc[p] = "user" \/ fault # "none")

\* Every call into the process code returns: exec whether the child could load
\* or not, and wait for a child that exits.
CallsReturn == ExecReturns /\ WaitReturns

\* The info block that a parent and its child share is usable whenever one of
\* them uses it: the child does not touch it before process_execute () has
\* initialized it, and nobody touches it after it has been freed, neither the
\* child that exits while its parent collects its status, nor a parent that
\* walks its list.
InfoUsable == fault \notin {"uninitialized", "freed", "freed_twice", "freed_in_loop"}
=============================================================================
