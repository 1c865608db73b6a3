------------------------------- MODULE Kernel -------------------------------
(***************************************************************************)
(* The PintOS kernel core: threads and the round-robin scheduler           *)
(* (threads/thread.c), semaphores, locks and condition variables           *)
(* (threads/synch.c), timer sleep (devices/timer.c) and the return path of *)
(* external interrupts (threads/interrupt.c).                              *)
(*                                                                         *)
(* There is one CPU.  A stretch of code that runs with interrupts off is   *)
(* one step; between two steps of the running thread the timer or a device *)
(* may interrupt it.  The bodies of the kernel threads are arbitrary: a    *)
(* thread at pc "run" calls any operation whose assertions it satisfies.   *)
(***************************************************************************)
EXTENDS Integers, Sequences, FiniteSets

CONSTANTS
    Thread,       \* pages thread_create can obtain for a struct thread
    Main, Idle,   \* the initial thread and the idle thread
    Sema,         \* semaphores used directly, IdleStarted among them
    IdleStarted,  \* the semaphore thread_start waits on
    Lock,         \* locks, TidLock among them
    TidLock,      \* tid_lock of thread.c
    Cond,         \* condition variables
    CondLock,     \* the one lock each condition variable is used with
    None,         \* the null pointer
    TIME_SLICE,   \* ticks a thread runs before it is preempted
    SleepTicks,   \* arguments threads pass to timer_sleep
    MaxTicks,     \* horizon of the clock
    MaxValue,     \* bound on the value of a semaphore
    MaxTid,       \* bound on the tids handed out
    Ops           \* the kinds of operation the threads of an instance call

AllThread == Thread \cup {Main, Idle}
\* A thread in cond_wait has a semaphore on its stack; it is named after the
\* thread.  A lock's semaphore is named after the lock.
AllSema == Sema \cup Lock \cup AllThread

ASSUME KernelAssumption ==
    /\ Main \notin Thread /\ Idle \notin Thread /\ Main # Idle
    /\ IdleStarted \in Sema /\ TidLock \in Lock
    /\ CondLock \in [Cond -> Lock \ {TidLock}]
    /\ Sema \cap Lock = {} /\ Sema \cap AllThread = {} /\ Lock \cap AllThread = {}
    /\ None \notin AllThread \cup Sema \cup Lock \cup Cond
    /\ IsFiniteSet(Thread)
    /\ TIME_SLICE \in Nat \ {0} /\ MaxTicks \in Nat /\ MaxTid \in Nat
    /\ MaxValue \in Nat /\ SleepTicks \subseteq Int

VARIABLES
    status,        \* thread.status, "FREE" for a page that holds no thread
    current,       \* running_thread ()
    idle_thread,   \* thread.c's idle_thread
    ready_list, sleep_list,
    wake,          \* thread.ticks, the tick a sleeper is due at
    ticks, thread_ticks,
    value, waiters,  \* struct semaphore
    holder,          \* struct lock
    cond_waiters,    \* struct condition
    tid, next_tid,
    pc,            \* where a thread is in the kernel
    obj,           \* the semaphore (or waiter) of the call in progress
    ret,           \* where the lock operation in progress returns to
    cnd,           \* the condition variable of the call in progress
    child,         \* the thread thread_create is building
    tmp            \* allocate_tid's tid

sched  == <<status, current, ready_list, thread_ticks>>
timer  == <<sleep_list, wake, ticks>>
synch  == <<value, waiters, holder, cond_waiters>>
tids   == <<tid, next_tid, child, tmp>>
locals == <<pc, obj, ret, cnd>>
vars   == <<sched, timer, synch, tids, locals, idle_thread>>

Status == {"RUNNING", "READY", "BLOCKED", "DYING", "FREE"}
PC == {"new", "run", "down", "set_holder", "up", "cw_release", "signal", "broadcast",
       "tid_read", "tid_write", "create", "idle_start", "idle_up", "idle_loop",
       "idle_hlt"}

TypeOK ==
    /\ status \in [AllThread -> Status]
    /\ current \in AllThread
    /\ idle_thread \in {None, Idle}
    /\ ready_list \in Seq(AllThread) /\ sleep_list \in Seq(AllThread)
    /\ wake \in [AllThread -> Int]
    /\ ticks \in 0..MaxTicks /\ thread_ticks \in Nat
    /\ value \in [AllSema -> Nat] /\ waiters \in [AllSema -> Seq(AllThread)]
    /\ holder \in [Lock -> AllThread \cup {None}]
    /\ cond_waiters \in [Cond -> Seq(AllThread)]
    /\ tid \in [AllThread -> Nat] /\ next_tid \in Nat /\ tmp \in [AllThread -> Nat]
    /\ child \in [AllThread -> AllThread \cup {None}]
    /\ pc \in [AllThread -> PC]
    /\ obj \in [AllThread -> AllSema \cup {None}]
    /\ ret \in [AllThread -> {"run", "down", "tid_read", "create", "broadcast"}]
    /\ cnd \in [AllThread -> Cond \cup {None}]
-----------------------------------------------------------------------------
(***************************************************************************)
(* The scheduler.                                                          *)
(***************************************************************************)

\* Faulty: a run queue of one thread counts as empty.
next_thread_to_run_short(rl) == IF Len(rl) <= 1 THEN idle_thread ELSE Head(rl)

\* The thread schedule () switches to when the run queue is rl.
next_thread_to_run(rl) == IF rl = <<>> THEN idle_thread ELSE Head(rl)

\* schedule () and thread_schedule_tail (): leave the current thread with the
\* statuses st and the run queue rl, and start a time slice of the next one.
schedule(st, rl) ==
    LET next == next_thread_to_run(rl) IN
    /\ current' = next
    /\ ready_list' = IF rl = <<>> THEN rl ELSE Tail(rl)
    /\ status' = [st EXCEPT ![next] = "RUNNING"]
    /\ thread_ticks' = 0

\* Faulty: blocks the current thread as if it yielded.
thread_block_ready ==
    schedule([status EXCEPT ![current] = "READY"], Append(ready_list, current))

\* thread_block () by the current thread.
thread_block == schedule([status EXCEPT ![current] = "BLOCKED"], ready_list)

\* Faulty: the yielding thread is not queued.
yield_drop(st, rl) == schedule([st EXCEPT ![current] = "READY"], rl)

\* Faulty: the yielding thread goes to the front of the run queue.
yield_front(st, rl) ==
    schedule([st EXCEPT ![current] = "READY"],
             IF current # idle_thread THEN <<current>> \o rl ELSE rl)

\* thread_yield () by the current thread, once the run queue is rl and the
\* other threads have the statuses st.
yield(st, rl) ==
    schedule([st EXCEPT ![current] = "READY"],
             IF current # idle_thread THEN Append(rl, current) ELSE rl)

\* thread_unblock (t).
thread_unblock(t) ==
    /\ ready_list' = Append(ready_list, t)
    /\ status' = [status EXCEPT ![t] = "READY"]
    /\ UNCHANGED <<current, thread_ticks>>

\* The current thread moves to position p with its locals otherwise as before.
Goto(t, p) == pc' = [pc EXCEPT ![t] = p]

\* The current thread t is about to execute at position p.
At(t, p) == current = t /\ pc[t] = p

\* A thread that runs its own code and calls an operation of this kind.
Calls(t, op) == At(t, "run") /\ op \in Ops

\* thread_yield () called by a thread.
ThreadYield(t) ==
    /\ Calls(t, "yield")
    /\ yield(status, ready_list)
    /\ UNCHANGED <<timer, synch, tids, locals, idle_thread>>

\* thread_exit (): the page of a dying thread is freed by the thread that runs
\* next, before interrupts are on again; the initial thread's is not.  A
\* thread that exits holds no lock.
ThreadExit(t) ==
    /\ Calls(t, "exit")
    /\ \A l \in Lock : holder[l] # t
    /\ schedule([status EXCEPT ![t] = IF t = Main THEN "DYING" ELSE "FREE"],
                ready_list)
    /\ UNCHANGED <<timer, synch, tids, locals, idle_thread>>
-----------------------------------------------------------------------------
(***************************************************************************)
(* Timer sleep and the timer interrupt.                                    *)
(***************************************************************************)

\* list_insert_ordered with cmp_ticks: t goes in front of the first element
\* that is due later than the tick w.
insert_ordered(t, w) ==
    \E n \in 0..Len(sleep_list) :
        /\ \A i \in 1..n : wake[sleep_list[i]] <= w
        /\ n < Len(sleep_list) => w < wake[sleep_list[n + 1]]
        /\ sleep_list' = SubSeq(sleep_list, 1, n) \o <<t>>
                            \o SubSeq(sleep_list, n + 1, Len(sleep_list))

\* timer_sleep (n) with n > 0; n <= 0 returns at once.
TimerSleep(t, n) ==
    /\ Calls(t, "sleep")
    /\ n > 0 /\ ticks + n <= MaxTicks
    /\ wake' = [wake EXCEPT ![t] = ticks + n]
    /\ insert_ordered(t, ticks + n)
    /\ thread_block
    /\ UNCHANGED <<ticks, synch, tids, locals, idle_thread>>

\* Faulty: the idle thread halts again after an interrupt.
WakeIdle_halt == UNCHANGED pc

\* An interrupt ends the idle thread's hlt.
WakeIdle == pc' = [pc EXCEPT ![Idle] = IF At(Idle, "idle_hlt") THEN "idle_loop" ELSE @]

\* Faulty: a sleeper is woken one tick early.
DuePrefix_early(n, now) ==
    /\ \A i \in 1..n : now + 1 >= wake[sleep_list[i]]
    /\ n < Len(sleep_list) => now + 1 < wake[sleep_list[n + 1]]

\* The first n sleepers are the ones timer_interrupt finds due at tick now:
\* it stops at the first one that is not.
DuePrefix(n, now) ==
    /\ \A i \in 1..n : now >= wake[sleep_list[i]]
    /\ n < Len(sleep_list) => now < wake[sleep_list[n + 1]]

\* thread_tick (): the tick completes the current thread's time slice.
SliceOver == thread_ticks + 1 >= TIME_SLICE

\* timer_interrupt (), thread_tick () and the yield on return of intr_handler.
\* The clock stops at MaxTicks, the tick interrupts do not.
TimerInterrupt ==
    LET now == IF ticks < MaxTicks THEN ticks + 1 ELSE ticks IN
    /\ ticks' = now
    /\ \E n \in 0..Len(sleep_list) :
        /\ DuePrefix(n, now)
        /\ sleep_list' = SubSeq(sleep_list, n + 1, Len(sleep_list))
        /\ LET due == SubSeq(sleep_list, 1, n)
               rl  == ready_list \o due
               st  == [t \in AllThread |->
                          IF \E i \in 1..n : sleep_list[i] = t THEN "READY"
                                                               ELSE status[t]]
           IN IF SliceOver
              THEN yield(st, rl)
              ELSE /\ thread_ticks' = thread_ticks + 1
                   /\ ready_list' = rl
                   /\ status' = st
                   /\ UNCHANGED current
    /\ WakeIdle
    /\ UNCHANGED <<wake, synch, tids, obj, ret, cnd, idle_thread>>
-----------------------------------------------------------------------------
(***************************************************************************)
(* Semaphores.                                                             *)
(***************************************************************************)

\* Faulty: wakes a waiter only when the value leaves 0.
sema_up_edge(s) ==
    /\ value' = [value EXCEPT ![s] = @ + 1]
    /\ IF waiters[s] # <<>> /\ value[s] = 0
       THEN /\ thread_unblock(Head(waiters[s]))
            /\ waiters' = [waiters EXCEPT ![s] = Tail(@)]
       ELSE UNCHANGED <<sched, waiters>>

\* sema_up (s): the first waiter becomes ready, the value grows either way.
sema_up(s) ==
    /\ value' = [value EXCEPT ![s] = @ + 1]
    /\ IF waiters[s] # <<>>
       THEN /\ thread_unblock(Head(waiters[s]))
            /\ waiters' = [waiters EXCEPT ![s] = Tail(@)]
       ELSE UNCHANGED <<sched, waiters>>

\* Where a thread goes on once sema_down (s) has taken the semaphore: into
\* lock_acquire, or back into cond_wait, which acquires the lock again.
AfterDown(t, s) ==
    /\ pc' = [pc EXCEPT ![t] = CASE s \in Lock -> "set_holder"
                                 [] s = t      -> "down"
                                 [] OTHER      -> "run"]
    /\ obj' = [obj EXCEPT ![t] = IF s = t THEN CondLock[cnd[t]] ELSE s]
    /\ ret' = [ret EXCEPT ![t] = IF s = t THEN "run" ELSE @]
    /\ UNCHANGED cnd

\* Faulty: the value is not tested.
SemaDown_untested(t) ==
    LET s == obj[t] IN
    /\ At(t, "down")
    /\ value' = [value EXCEPT ![s] = IF @ > 0 THEN @ - 1 ELSE 0]
    /\ AfterDown(t, s)
    /\ UNCHANGED <<sched, waiters, timer, holder, cond_waiters, tids, idle_thread>>

\* One turn of the loop of sema_down: take the semaphore, or wait and test the
\* value again when scheduled next.
SemaDown(t) ==
    LET s == obj[t] IN
    /\ At(t, "down")
    /\ \/ /\ value[s] > 0
          /\ value' = [value EXCEPT ![s] = @ - 1]
          /\ AfterDown(t, s)
          /\ UNCHANGED <<sched, waiters>>
       \/ /\ value[s] = 0
          /\ waiters' = [waiters EXCEPT ![s] = Append(@, t)]
          /\ thread_block
          /\ UNCHANGED <<value, locals>>
    /\ UNCHANGED <<timer, holder, cond_waiters, tids, idle_thread>>

\* A thread calls sema_down (s).
CallSemaDown(t, s) ==
    /\ Calls(t, "sema")
    /\ Goto(t, "down")
    /\ obj' = [obj EXCEPT ![t] = s]
    /\ UNCHANGED <<sched, timer, synch, tids, ret, cnd, idle_thread>>

\* A thread calls sema_up (s).
CallSemaUp(t, s) ==
    /\ Calls(t, "sema")
    /\ value[s] < MaxValue
    /\ sema_up(s)
    /\ UNCHANGED <<timer, holder, cond_waiters, tids, locals, idle_thread>>

\* sema_try_down (s) that succeeds; one that fails changes nothing.
SemaTryDown(t, s) ==
    /\ Calls(t, "sema")
    /\ value[s] > 0
    /\ value' = [value EXCEPT ![s] = @ - 1]
    /\ UNCHANGED <<sched, timer, waiters, holder, cond_waiters, tids, locals, idle_thread>>

\* A device's interrupt handler ups the semaphore a thread waits on for it.
DeviceInterrupt(s) ==
    /\ "device" \in Ops
    /\ value[s] < MaxValue
    /\ sema_up(s)
    /\ WakeIdle
    /\ UNCHANGED <<timer, holder, cond_waiters, tids, obj, ret, cnd, idle_thread>>
-----------------------------------------------------------------------------
(***************************************************************************)
(* Locks.                                                                  *)
(***************************************************************************)

\* lock_acquire (l) up to its sema_down; afterwards the thread is at p.
lock_acquire(t, l, p) ==
    /\ holder[l] # t
    /\ Goto(t, "down")
    /\ obj' = [obj EXCEPT ![t] = l]
    /\ ret' = [ret EXCEPT ![t] = p]

\* lock_release (l) up to its sema_up; afterwards the thread is at p.
lock_release(t, l, p) ==
    /\ holder[l] = t
    /\ holder' = [holder EXCEPT ![l] = None]
    /\ Goto(t, "up")
    /\ obj' = [obj EXCEPT ![t] = l]
    /\ ret' = [ret EXCEPT ![t] = p]

\* A thread calls lock_acquire (l).
CallLockAcquire(t, l) ==
    /\ Calls(t, "lock")
    /\ lock_acquire(t, l, "run")
    /\ UNCHANGED <<sched, timer, synch, tids, cnd, idle_thread>>

\* lock_try_acquire (l) that succeeds; one that fails changes nothing.
LockTryAcquire(t, l) ==
    /\ Calls(t, "lock")
    /\ holder[l] # t
    /\ value[l] > 0
    /\ value' = [value EXCEPT ![l] = @ - 1]
    /\ Goto(t, "set_holder")
    /\ obj' = [obj EXCEPT ![t] = l]
    /\ ret' = [ret EXCEPT ![t] = "run"]
    /\ UNCHANGED <<sched, timer, waiters, holder, cond_waiters, tids, cnd, idle_thread>>

\* lock_acquire and lock_try_acquire record the holder with interrupts on.
SetHolder(t) ==
    /\ At(t, "set_holder")
    /\ holder' = [holder EXCEPT ![obj[t]] = t]
    /\ Goto(t, ret[t])
    /\ UNCHANGED <<sched, timer, value, waiters, cond_waiters, tids, obj, ret, cnd, idle_thread>>

\* A thread calls lock_release (l).
CallLockRelease(t, l) ==
    /\ Calls(t, "lock")
    /\ lock_release(t, l, "run")
    /\ UNCHANGED <<sched, timer, value, waiters, cond_waiters, tids, cnd, idle_thread>>

\* The sema_up that ends lock_release; cond_wait goes on to its own semaphore.
LockUp(t) ==
    /\ At(t, "up")
    /\ sema_up(obj[t])
    /\ Goto(t, ret[t])
    /\ obj' = [obj EXCEPT ![t] = IF ret[t] = "down" THEN t ELSE @]
    /\ UNCHANGED <<timer, holder, cond_waiters, tids, ret, cnd, idle_thread>>
-----------------------------------------------------------------------------
(***************************************************************************)
(* Condition variables.                                                    *)
(***************************************************************************)

\* cond_wait (c): put a fresh semaphore on the condition's list.
CondWait(t, c) ==
    /\ Calls(t, "cond")
    /\ holder[CondLock[c]] = t
    /\ value' = [value EXCEPT ![t] = 0]
    /\ waiters' = [waiters EXCEPT ![t] = <<>>]
    /\ cond_waiters' = [cond_waiters EXCEPT ![c] = Append(@, t)]
    /\ cnd' = [cnd EXCEPT ![t] = c]
    /\ Goto(t, "cw_release")
    /\ UNCHANGED <<sched, timer, holder, tids, obj, ret, idle_thread>>

\* cond_wait releases the lock, then downs its semaphore.
CondWaitRelease(t) ==
    /\ At(t, "cw_release")
    /\ lock_release(t, CondLock[cnd[t]], "down")
    /\ UNCHANGED <<sched, timer, value, waiters, cond_waiters, tids, cnd, idle_thread>>

\* Faulty: the waiter stays on the condition's list.
pop_waiter_keep(t, c, p) ==
    /\ holder[CondLock[c]] = t
    /\ cond_waiters[c] # <<>>
    /\ Goto(t, "signal")
    /\ obj' = [obj EXCEPT ![t] = Head(cond_waiters[c])]
    /\ ret' = [ret EXCEPT ![t] = p]
    /\ UNCHANGED cond_waiters

\* cond_signal pops the first waiter of c, and then ups its semaphore.
pop_waiter(t, c, p) ==
    /\ holder[CondLock[c]] = t
    /\ cond_waiters[c] # <<>>
    /\ cond_waiters' = [cond_waiters EXCEPT ![c] = Tail(@)]
    /\ Goto(t, "signal")
    /\ obj' = [obj EXCEPT ![t] = Head(cond_waiters[c])]
    /\ ret' = [ret EXCEPT ![t] = p]

\* A thread calls cond_signal (c); with no waiter it changes nothing.
CondSignal(t, c) ==
    /\ Calls(t, "cond")
    /\ pop_waiter(t, c, "run")
    /\ UNCHANGED <<sched, timer, value, waiters, holder, tids, cnd, idle_thread>>

\* A thread calls cond_broadcast (c).
CondBroadcast(t, c) ==
    /\ Calls(t, "cond")
    /\ holder[CondLock[c]] = t
    /\ cnd' = [cnd EXCEPT ![t] = c]
    /\ Goto(t, "broadcast")
    /\ UNCHANGED <<sched, timer, synch, tids, obj, ret, idle_thread>>

\* One turn of the loop of cond_broadcast.
BroadcastStep(t) ==
    /\ At(t, "broadcast")
    /\ \/ /\ pop_waiter(t, cnd[t], "broadcast")
          /\ UNCHANGED <<value, waiters, holder, cnd>>
       \/ /\ cond_waiters[cnd[t]] = <<>>
          /\ Goto(t, "run")
          /\ UNCHANGED <<synch, obj, ret, cnd>>
    /\ UNCHANGED <<sched, timer, tids, idle_thread>>

\* The sema_up of cond_signal on the waiter it popped.
SignalUp(t) ==
    /\ At(t, "signal")
    /\ sema_up(obj[t])
    /\ Goto(t, ret[t])
    /\ UNCHANGED <<timer, holder, cond_waiters, tids, obj, ret, cnd, idle_thread>>
-----------------------------------------------------------------------------
(***************************************************************************)
(* Creating threads.                                                       *)
(***************************************************************************)

\* thread_create obtains a page, init_thread makes it a blocked thread, and
\* allocate_tid asks for tid_lock.  Without a free page it returns TID_ERROR
\* and changes nothing.
ThreadCreate(t, u) ==
    /\ Calls(t, "create")
    /\ status[u] = "FREE" /\ next_tid < MaxTid
    /\ status' = [status EXCEPT ![u] = "BLOCKED"]
    /\ child' = [child EXCEPT ![t] = u]
    /\ tid' = [tid EXCEPT ![u] = 0]
    /\ pc' = [pc EXCEPT ![u] = "new", ![t] = "down"]
    /\ holder[TidLock] # t
    /\ obj' = [obj EXCEPT ![t] = TidLock]
    /\ ret' = [ret EXCEPT ![t] = "tid_read"]
    /\ UNCHANGED <<current, ready_list, thread_ticks, timer, synch, next_tid, tmp,
                   cnd, idle_thread>>

\* allocate_tid: tid = next_tid++ is a load and a store.
TidRead(t) ==
    /\ At(t, "tid_read")
    /\ tmp' = [tmp EXCEPT ![t] = next_tid]
    /\ Goto(t, "tid_write")
    /\ UNCHANGED <<sched, timer, synch, tid, next_tid, child, obj, ret, cnd, idle_thread>>

\* Faulty: next_tid is not incremented.
TidWrite_same(t) ==
    /\ At(t, "tid_write")
    /\ tid' = [tid EXCEPT ![child[t]] = tmp[t]]
    /\ lock_release(t, TidLock, "create")
    /\ UNCHANGED <<sched, timer, value, waiters, cond_waiters, next_tid, child, tmp, cnd,
                   idle_thread>>

\* allocate_tid stores next_tid and releases tid_lock, the child has its tid.
TidWrite(t) ==
    /\ At(t, "tid_write")
    /\ next_tid' = tmp[t] + 1
    /\ tid' = [tid EXCEPT ![child[t]] = tmp[t]]
    /\ lock_release(t, TidLock, "create")
    /\ UNCHANGED <<sched, timer, value, waiters, cond_waiters, child, tmp, cnd, idle_thread>>

\* thread_create puts the new thread on the run queue and returns.
CreateUnblock(t) ==
    /\ At(t, "create")
    /\ thread_unblock(child[t])
    /\ child' = [child EXCEPT ![t] = None]
    /\ pc' = [pc EXCEPT ![child[t]] = "run", ![t] = "run"]
    /\ UNCHANGED <<timer, synch, tid, next_tid, tmp, obj, ret, cnd, idle_thread>>
-----------------------------------------------------------------------------
(***************************************************************************)
(* The idle thread.                                                        *)
(***************************************************************************)

\* idle () makes itself known as idle_thread.
IdleStart ==
    /\ At(Idle, "idle_start")
    /\ idle_thread' = Idle
    /\ Goto(Idle, "idle_up")
    /\ UNCHANGED <<sched, timer, synch, tids, obj, ret, cnd>>

\* idle () lets thread_start () return.
IdleUp ==
    /\ At(Idle, "idle_up")
    /\ sema_up(IdleStarted)
    /\ Goto(Idle, "idle_loop")
    /\ UNCHANGED <<timer, holder, cond_waiters, tids, obj, ret, cnd, idle_thread>>

\* The idle loop blocks; scheduled again, it halts until an interrupt.
IdleLoop ==
    /\ At(Idle, "idle_loop")
    /\ thread_block
    /\ Goto(Idle, "idle_hlt")
    /\ UNCHANGED <<timer, synch, tids, obj, ret, cnd, idle_thread>>
-----------------------------------------------------------------------------
\* thread_init () and thread_start () have run up to sema_down: the initial
\* thread runs, the idle thread is ready, interrupts are on.
Init ==
    /\ status = [t \in AllThread |-> CASE t = Main -> "RUNNING"
                                       [] t = Idle -> "READY"
                                       [] OTHER    -> "FREE"]
    /\ current = Main
    /\ idle_thread = None
    /\ ready_list = <<Idle>> /\ sleep_list = <<>>
    /\ wake = [t \in AllThread |-> 0]
    /\ ticks = 0 /\ thread_ticks = 0
    /\ value = [s \in AllSema |-> IF s \in Lock THEN 1 ELSE 0]
    /\ waiters = [s \in AllSema |-> <<>>]
    /\ holder = [l \in Lock |-> None]
    /\ cond_waiters = [c \in Cond |-> <<>>]
    /\ tid = [t \in AllThread |-> CASE t = Main -> 1 [] t = Idle -> 2 [] OTHER -> 0]
    /\ next_tid = 3
    /\ tmp = [t \in AllThread |-> 0]
    /\ child = [t \in AllThread |-> None]
    /\ pc = [t \in AllThread |-> CASE t = Main -> "down"
                                   [] t = Idle -> "idle_start"
                                   [] OTHER    -> "run"]
    /\ obj = [t \in AllThread |-> IF t = Main THEN IdleStarted ELSE None]
    /\ ret = [t \in AllThread |-> "run"]
    /\ cnd = [t \in AllThread |-> None]

\* What a thread that runs its own code may call.
Call(t) ==
    \/ ThreadYield(t)
    \/ ThreadExit(t)
    \/ \E n \in SleepTicks : TimerSleep(t, n)
    \/ \E s \in Sema \ {IdleStarted} :
           CallSemaDown(t, s) \/ CallSemaUp(t, s) \/ SemaTryDown(t, s)
    \/ \E l \in Lock \ {TidLock} :
           CallLockAcquire(t, l) \/ LockTryAcquire(t, l) \/ CallLockRelease(t, l)
    \/ \E c \in Cond : CondWait(t, c) \/ CondSignal(t, c) \/ CondBroadcast(t, c)
    \/ \E u \in Thread : ThreadCreate(t, u)

\* The next step of a call in progress.
Continue(t) ==
    \/ SemaDown(t) \/ SetHolder(t) \/ LockUp(t)
    \/ CondWaitRelease(t) \/ BroadcastStep(t) \/ SignalUp(t)
    \/ TidRead(t) \/ TidWrite(t) \/ CreateUnblock(t)

IdleStep == IdleStart \/ IdleUp \/ IdleLoop

Interrupt ==
    \/ TimerInterrupt
    \/ \E s \in Sema \ {IdleStarted} : DeviceInterrupt(s)

Next ==
    \/ \E t \in AllThread : Call(t) \/ Continue(t)
    \/ IdleStep
    \/ Interrupt

Spec == Init /\ [][Next]_vars

\* The timer keeps ticking, and a thread that is given the CPU again and again
\* gets on with its call.  Nothing makes a thread call anything.
FairSpec ==
    /\ Spec
    /\ \A t \in AllThread : SF_vars(Continue(t))
    /\ SF_vars(IdleStep)
    /\ WF_vars(TimerInterrupt)
-----------------------------------------------------------------------------
(***************************************************************************)
(* Properties.                                                             *)
(***************************************************************************)

\* The places of a thread's `elem': positions in the run queue, the sleep list
\* and the waiters of semaphores.
QueuedAt(t) == {i \in DOMAIN ready_list : ready_list[i] = t}
AsleepAt(t) == {i \in DOMAIN sleep_list : sleep_list[i] = t}
WaitsAt(t)  == UNION {{<<s, i>> : i \in {j \in DOMAIN waiters[s] : waiters[s][j] = t}}
                         : s \in AllSema}

\* thread.h has one `elem' per thread for the run queue, the wait lists and the
\* sleep list, because a thread is never on two of them: it is on at most one
\* list, once, and its status says which kind.
ElemOnOneList ==
    \A t \in AllThread :
        /\ \A i, j \in QueuedAt(t) : i = j
        /\ \A i, j \in AsleepAt(t) : i = j
        /\ \A p, q \in WaitsAt(t) : p = q
        /\ AsleepAt(t) = {} \/ WaitsAt(t) = {}
        /\ QueuedAt(t) # {} => status[t] = "READY"
        /\ AsleepAt(t) \cup WaitsAt(t) # {} => status[t] = "BLOCKED"

\* No thread is forgotten: a ready thread is on the run queue, a blocked one is
\* on a list, is being created, or is the idle thread; the idle thread is never
\* queued once it is known; exactly the current thread is running.
NoThreadForgotten ==
    /\ \A t \in AllThread :
        /\ status[t] = "RUNNING" <=> t = current
        /\ status[t] = "READY" => QueuedAt(t) # {} \/ t = idle_thread
        /\ status[t] = "BLOCKED" =>
              \/ AsleepAt(t) \cup WaitsAt(t) # {}
              \/ t = idle_thread
              \/ \E u \in AllThread : child[u] = t
    /\ idle_thread # None => QueuedAt(idle_thread) = {}

\* Every thread is accounted for: thread_block, thread_unblock, thread_yield,
\* timer_sleep and sema_up move a thread between the lists so that it is on
\* exactly the one its status stands for, and none falls between two of them.
ThreadsAccounted == ElemOnOneList /\ NoThreadForgotten

\* The idle thread halts the CPU only with an empty run queue: whatever an
\* interrupt makes ready is scheduled before the next hlt.
HaltsOnlyWhenIdle == At(Idle, "idle_hlt") => ready_list = <<>>

\* A sleeper leaves the sleep list in the very tick it asked for, not earlier and
\* not later: timer_interrupt may stop at the first sleeper that is not due,
\* because timer_sleep keeps the list sorted.
WokenWhenDue ==
    [][\A t \in AllThread : AsleepAt(t) # {} =>
          ((AsleepAt(t)' = {}) <=> ticks' >= wake[t])]_vars

\* Threads that are in possession of lock l: between its sema_down and the
\* sema_up of lock_release, although the holder is set and cleared in between.
Owners(l) == {t \in AllThread : \/ holder[l] = t
                                \/ pc[t] \in {"set_holder", "up"} /\ obj[t] = l}

\* A lock has at most one owner, and its semaphore is 1 exactly when it has none.
LockExclusion ==
    \A l \in Lock : /\ \A t, u \in Owners(l) : t = u
                    /\ value[l] = IF Owners(l) = {} THEN 1 ELSE 0

\* Threads that were woken for, or are about to test, semaphore s.
AboutToTest(s) == {t \in AllThread : /\ pc[t] = "down" /\ obj[t] = s
                                    /\ status[t] \in {"READY", "RUNNING"}}

\* sema_up wakes one waiter per unit: while threads wait, every unit of the
\* value has a thread on its way to take it.
NoLostWakeup ==
    \A s \in AllSema : waiters[s] # <<>> => value[s] <= Cardinality(AboutToTest(s))

\* Thread w is in cond_wait and has not got past its own semaphore, which is on
\* its stack.
InCondWait(w) == \/ pc[w] = "cw_release"
                 \/ pc[w] = "up" /\ ret[w] = "down"
                 \/ pc[w] = "down" /\ obj[w] = w

\* cond_signal never touches the stack of a thread that left cond_wait: every
\* waiter listed, or popped and about to be upped, is still in cond_wait, its
\* semaphore not upped yet, and no waiter is signalled twice.
WaiterAlive ==
    LET listed == UNION {{<<c, i>> : i \in DOMAIN cond_waiters[c]} : c \in Cond}
        popped == {t \in AllThread : pc[t] = "signal"}
        live(w) == InCondWait(w) /\ value[w] = 0
    IN  /\ \A p \in listed : live(cond_waiters[p[1]][p[2]])
        /\ \A t \in popped : live(obj[t])
        /\ \A p, q \in listed :
              p # q => cond_waiters[p[1]][p[2]] # cond_waiters[q[1]][q[2]]
        /\ \A t \in popped, p \in listed : obj[t] # cond_waiters[p[1]][p[2]]

\* allocate_tid never gives two living threads the same tid.
UniqueTids ==
    \A t, u \in AllThread :
        /\ status[t] \notin {"FREE", "DYING"} /\ status[u] \notin {"FREE", "DYING"}
        /\ tid[t] = tid[u] /\ tid[t] # 0
        => t = u

\* Round robin starves nobody: a thread on the run queue gets the CPU.
ReadyRuns == \A t \in AllThread \ {Idle} : status[t] = "READY" ~> status[t] = "RUNNING"

\* Every sleeper runs again.
SleeperRuns == \A t \in AllThread : AsleepAt(t) # {} ~> status[t] = "RUNNING"
=============================================================================
