---------------------------- MODULE KernelProofs ----------------------------
(***************************************************************************)
(* Proofs about Kernel: types, mutual exclusion of locks, uniqueness of    *)
(* tids and the life of the semaphores that cond_wait puts on the stack;   *)
(* then the lists the threads are on, sleep, the idle thread and sema_up;  *)
(* for every set of threads, semaphores, locks and condition variables and *)
(* for every bound.                                                        *)
(***************************************************************************)
EXTENDS Kernel, ListFacts, TLAPS

\* Until the idle thread has made itself known, it is running or on the run
\* queue, so that schedule () never has to return a null idle_thread.
BootInv ==
    /\ idle_thread = None =>
          /\ pc[Idle] = "idle_start"
          /\ current = Idle \/ \E i \in 1..Len(ready_list) : ready_list[i] = Idle
    /\ \A t \in AllThread :
          (t = Idle) <=> pc[t] \in {"idle_start", "idle_up", "idle_loop", "idle_hlt"}

\* What the locals of a thread are at each point of a call.
LocalsInv ==
    \A t \in AllThread :
        /\ pc[t] = "down" =>
              /\ obj[t] \in Sema \cup Lock \cup {t}
              /\ obj[t] = t => cnd[t] \in Cond
        /\ pc[t] = "set_holder" => obj[t] \in Lock /\ ret[t] \in {"run", "tid_read"}
        /\ pc[t] = "up" =>
              /\ obj[t] \in Lock /\ ret[t] \in {"run", "down", "create"}
              /\ ret[t] = "down" => cnd[t] \in Cond
        /\ pc[t] = "signal" =>
              /\ obj[t] \in AllThread /\ ret[t] \in {"run", "broadcast"}
              /\ ret[t] = "broadcast" => cnd[t] \in Cond
        /\ pc[t] \in {"cw_release", "broadcast"} => cnd[t] \in Cond
        /\ pc[t] = "down" /\ obj[t] \in Lock => ret[t] \in {"run", "tid_read"}
        /\ \/ ret[t] = "tid_read" \/ pc[t] \in {"tid_read", "tid_write", "create"}
           \/ pc[t] = "up" /\ ret[t] = "create"
           => child[t] \in Thread
        /\ pc[t] = "create" => ret[t] = "create"

\* The inductive invariant behind type correctness.
ControlInv == TypeOK /\ BootInv /\ LocalsInv
-----------------------------------------------------------------------------
LEMMA ScheduleType ==
    ASSUME NEW st \in [AllThread -> Status], NEW rl \in Seq(AllThread),
           idle_thread \in {None, Idle}, rl = <<>> => idle_thread = Idle,
           schedule(st, rl)
    PROVE  /\ current' \in AllThread /\ ready_list' \in Seq(AllThread)
           /\ status' \in [AllThread -> Status] /\ thread_ticks' \in Nat
<1>1. next_thread_to_run(rl) \in AllThread
  BY DEF next_thread_to_run, AllThread
<1> QED
  BY <1>1 DEF schedule, Status

LEMMA YieldType ==
    ASSUME TypeOK, NEW st \in [AllThread -> Status], NEW rl \in Seq(AllThread),
           yield(st, rl)
    PROVE  /\ current' \in AllThread /\ ready_list' \in Seq(AllThread)
           /\ status' \in [AllThread -> Status] /\ thread_ticks' \in Nat
<1> DEFINE rl2 == IF current # idle_thread THEN Append(rl, current) ELSE rl
           st2 == [st EXCEPT ![current] = "READY"]
<1>1. current \in AllThread /\ idle_thread \in {None, Idle}
  BY DEF TypeOK
<1>2. st2 \in [AllThread -> Status] /\ rl2 \in Seq(AllThread)
  BY <1>1 DEF Status
<1>3. rl2 = <<>> => idle_thread = Idle
  <2>1. CASE current # idle_thread
    <3>1. Append(rl, current) # <<>>
      BY <1>1, AppendProperties, EmptySeq
    <3> QED
      BY <2>1, <3>1
  <2>2. CASE current = idle_thread
    BY <1>1, <2>2, KernelAssumption
  <2> QED
    BY <2>1, <2>2
<1>4. schedule(st2, rl2)
  BY DEF yield
<1> HIDE DEF rl2, st2
<1> QED
  BY <1>1, <1>2, <1>3, <1>4, ScheduleType

LEMMA UnblockType ==
    ASSUME TypeOK, NEW t \in AllThread, thread_unblock(t)
    PROVE  /\ current' \in AllThread /\ ready_list' \in Seq(AllThread)
           /\ status' \in [AllThread -> Status] /\ thread_ticks' \in Nat
BY DEF thread_unblock, TypeOK, Status

LEMMA SemaUpType ==
    ASSUME TypeOK, NEW s \in AllSema, sema_up(s)
    PROVE  /\ current' \in AllThread /\ ready_list' \in Seq(AllThread)
           /\ status' \in [AllThread -> Status] /\ thread_ticks' \in Nat
           /\ value' \in [AllSema -> Nat] /\ waiters' \in [AllSema -> Seq(AllThread)]
<1>1. CASE waiters[s] = <<>>
  BY <1>1 DEF sema_up, sched, TypeOK
<1>2. CASE waiters[s] # <<>>
  <2>1. Head(waiters[s]) \in AllThread /\ Tail(waiters[s]) \in Seq(AllThread)
    BY <1>2 DEF TypeOK
  <2> QED
    <3>1. thread_unblock(Head(waiters[s])) /\ waiters' = [waiters EXCEPT ![s] = Tail(waiters[s])]
          /\ value' = [value EXCEPT ![s] = value[s] + 1]
      BY <1>2 DEF sema_up
    <3>2. value' \in [AllSema -> Nat]
      <4>1. value \in [AllSema -> Nat]
        BY DEF TypeOK
      <4>2. value[s] + 1 \in Nat
        BY <4>1
      <4> QED
        BY <3>1, <4>1, <4>2
    <3>3. waiters' \in [AllSema -> Seq(AllThread)]
      BY <2>1, <3>1 DEF TypeOK
    <3> QED
      BY <2>1, <3>1, <3>2, <3>3, UnblockType
<1> QED
  BY <1>1, <1>2

LEMMA PopWaiterType ==
    ASSUME TypeOK, NEW t \in AllThread, NEW c \in Cond,
           NEW p \in {"run", "broadcast"}, pop_waiter(t, c, p)
    PROVE  /\ cond_waiters' \in [Cond -> Seq(AllThread)] /\ pc' \in [AllThread -> PC]
           /\ obj' \in [AllThread -> AllSema \cup {None}]
           /\ ret' \in [AllThread -> {"run", "down", "tid_read", "create", "broadcast"}]
<1>1. Head(cond_waiters[c]) \in AllThread /\ Tail(cond_waiters[c]) \in Seq(AllThread)
  BY DEF pop_waiter, TypeOK
<1> QED
  BY <1>1 DEF pop_waiter, TypeOK, Goto, PC, AllSema

LEMMA TypePreserved ==
    ASSUME ControlInv, [Next]_vars
    PROVE  TypeOK'
<1> USE KernelAssumption DEF ControlInv
<1>1. ASSUME NEW t \in AllThread, ThreadYield(t)
      PROVE  TypeOK'
  <2>1. yield(status, ready_list)
    BY <1>1 DEF ThreadYield
  <2>2. status \in [AllThread -> Status] /\ ready_list \in Seq(AllThread)
    BY DEF TypeOK
  <2> QED
    BY <1>1, <2>1, <2>2, YieldType DEF ThreadYield, TypeOK, timer, synch, tids, locals
<1>2. ASSUME NEW t \in AllThread, ThreadExit(t)
      PROVE  TypeOK'
  <2>1. ready_list = <<>> => idle_thread = Idle
    BY <1>2 DEF ThreadExit, Calls, At, TypeOK, BootInv
  <2>2. [status EXCEPT ![t] = IF t = Main THEN "DYING" ELSE "FREE"] \in [AllThread -> Status]
    BY <1>2 DEF TypeOK, Status
  <2> QED
    BY <1>2, <2>1, <2>2, ScheduleType DEF ThreadExit, TypeOK, timer, synch, tids, locals
<1>3. ASSUME NEW t \in AllThread, NEW n \in SleepTicks, TimerSleep(t, n)
      PROVE  TypeOK'
  <2>1. ready_list = <<>> => idle_thread = Idle
    BY <1>3 DEF TimerSleep, Calls, At, TypeOK, BootInv
  <2>2. [status EXCEPT ![current] = "BLOCKED"] \in [AllThread -> Status]
    BY DEF TypeOK, Status
  <2>3. sleep_list' \in Seq(AllThread)
    <3>1. PICK k \in 0..Len(sleep_list) :
              sleep_list' = SubSeq(sleep_list, 1, k) \o <<t>>
                               \o SubSeq(sleep_list, k + 1, Len(sleep_list))
      BY <1>3 DEF TimerSleep, insert_ordered
    <3>2. sleep_list \in Seq(AllThread) /\ <<t>> \in Seq(AllThread)
      BY DEF TypeOK
    <3>3. /\ SubSeq(sleep_list, 1, k) \in Seq(AllThread)
          /\ SubSeq(sleep_list, k + 1, Len(sleep_list)) \in Seq(AllThread)
      BY <3>2, SplitType
    <3>4. SubSeq(sleep_list, 1, k) \o <<t>> \in Seq(AllThread)
      BY <3>2, <3>3, ConcatProperties
    <3> QED
      BY <3>1, <3>3, <3>4, ConcatProperties
  <2>4. wake' \in [AllThread -> Int]
    BY <1>3 DEF TimerSleep, TypeOK
  <2> QED
    BY <1>3, <2>1, <2>2, <2>3, <2>4, ScheduleType
       DEF TimerSleep, thread_block, TypeOK, synch, tids, locals
<1>4. ASSUME NEW t \in AllThread, NEW s \in Sema, CallSemaDown(t, s)
      PROVE  TypeOK'
  BY <1>4 DEF CallSemaDown, TypeOK, Calls, At, Goto, AllSema, PC, sched, timer, synch, tids, locals
<1>5. ASSUME NEW t \in AllThread, NEW s \in Sema, CallSemaUp(t, s)
      PROVE  TypeOK'
  BY <1>5, SemaUpType DEF CallSemaUp, TypeOK, Calls, At, Goto, AllSema, PC, sched, timer, synch, tids, locals
<1>6. ASSUME NEW t \in AllThread, NEW s \in Sema, SemaTryDown(t, s)
      PROVE  TypeOK'
  <2>1. value' \in [AllSema -> Nat]
    <3>1. value[s] \in Nat \ {0} /\ s \in AllSema
      BY <1>6 DEF SemaTryDown, TypeOK, AllSema
    <3>2. value' = [value EXCEPT ![s] = value[s] - 1]
      BY <1>6 DEF SemaTryDown
    <3> QED
      BY <3>1, <3>2 DEF TypeOK
  <2> QED
    BY <1>6, <2>1 DEF SemaTryDown, TypeOK, sched, timer, tids, locals
<1>7. ASSUME NEW t \in AllThread, NEW l \in Lock, CallLockAcquire(t, l)
      PROVE  TypeOK'
  BY <1>7 DEF CallLockAcquire, lock_acquire, TypeOK, Calls, At, Goto, AllSema, PC, sched, timer, synch, tids, locals
<1>8. ASSUME NEW t \in AllThread, NEW l \in Lock, LockTryAcquire(t, l)
      PROVE  TypeOK'
  <2>1. value' \in [AllSema -> Nat]
    <3>1. value[l] \in Nat \ {0} /\ l \in AllSema
      BY <1>8 DEF LockTryAcquire, TypeOK, AllSema
    <3>2. value' = [value EXCEPT ![l] = value[l] - 1]
      BY <1>8 DEF LockTryAcquire
    <3> QED
      BY <3>1, <3>2 DEF TypeOK
  <2>2. /\ pc' \in [AllThread -> PC] /\ obj' \in [AllThread -> AllSema \cup {None}]
        /\ ret' \in [AllThread -> {"run", "down", "tid_read", "create", "broadcast"}]
    BY <1>8 DEF LockTryAcquire, Goto, TypeOK, PC, AllSema
  <2> QED
    BY <1>8, <2>1, <2>2 DEF LockTryAcquire, TypeOK, sched, timer, tids
<1>9. ASSUME NEW t \in AllThread, NEW l \in Lock, CallLockRelease(t, l)
      PROVE  TypeOK'
  BY <1>9 DEF CallLockRelease, lock_release, TypeOK, Calls, At, Goto, AllSema, PC, sched, timer, synch, tids, locals
<1>10. ASSUME NEW t \in AllThread, NEW c \in Cond, CondWait(t, c)
      PROVE  TypeOK'
  <2>1. /\ value' \in [AllSema -> Nat] /\ waiters' \in [AllSema -> Seq(AllThread)]
    <3>1. <<>> \in Seq(AllThread)
      OBVIOUS
    <3> QED
      BY <1>10, <3>1 DEF CondWait, TypeOK
  <2>2. cond_waiters' \in [Cond -> Seq(AllThread)]
    <3>1. cond_waiters[c] \in Seq(AllThread)
      BY DEF TypeOK
    <3>2. Append(cond_waiters[c], t) \in Seq(AllThread)
      BY <3>1
    <3> QED
      BY <1>10, <3>2 DEF CondWait, TypeOK
  <2>3. pc' \in [AllThread -> PC] /\ cnd' \in [AllThread -> Cond \cup {None}]
    BY <1>10 DEF CondWait, Goto, TypeOK, PC
  <2> QED
    BY <1>10, <2>1, <2>2, <2>3 DEF CondWait, TypeOK, sched, timer, tids
<1>11. ASSUME NEW t \in AllThread, NEW c \in Cond, CondSignal(t, c)
      PROVE  TypeOK'
  <2>1. pop_waiter(t, c, "run")
    BY <1>11 DEF CondSignal
  <2> QED
    BY <1>11, <2>1, PopWaiterType DEF CondSignal, TypeOK, sched, timer, tids
<1>12. ASSUME NEW t \in AllThread, NEW c \in Cond, CondBroadcast(t, c)
      PROVE  TypeOK'
  BY <1>12 DEF CondBroadcast, TypeOK, Calls, At, Goto, AllSema, PC, sched, timer, synch, tids, locals
<1>13. ASSUME NEW t \in AllThread, NEW u \in Thread, ThreadCreate(t, u)
      PROVE  TypeOK'
  BY <1>13 DEF ThreadCreate, Status, AllThread, TypeOK, Calls, At, Goto, AllSema, PC, sched, timer, synch, tids, locals
<1>14. ASSUME NEW t \in AllThread, SemaDown(t)
      PROVE  TypeOK'
  <2> DEFINE s == obj[t]
  <2>1. s \in AllSema /\ pc[t] = "down" /\ current = t
    BY <1>14 DEF SemaDown, At, LocalsInv, AllSema, TypeOK
  <2>2. CASE value[s] > 0
    <3>1. AfterDown(t, s) /\ value' = [value EXCEPT ![s] = @ - 1] /\ UNCHANGED <<sched, waiters>>
      BY <1>14, <2>1, <2>2 DEF SemaDown, TypeOK
    <3>2. s = t => CondLock[cnd[t]] \in Lock
      BY <2>1 DEF LocalsInv
    <3>3. pc' \in [AllThread -> PC] /\ obj' \in [AllThread -> AllSema \cup {None}]
          /\ ret' \in [AllThread -> {"run", "down", "tid_read", "create", "broadcast"}]
          /\ cnd' = cnd
      BY <2>1, <3>1, <3>2 DEF AfterDown, TypeOK, PC, AllSema
    <3>4. value' \in [AllSema -> Nat]
      BY <2>1, <2>2, <3>1 DEF TypeOK
    <3> QED
      BY <1>14, <3>1, <3>3, <3>4 DEF SemaDown, TypeOK, sched, timer, tids
  <2>3. CASE value[s] = 0
    <3>1. waiters' = [waiters EXCEPT ![s] = Append(@, t)] /\ thread_block
          /\ UNCHANGED <<value, locals>>
      BY <1>14, <2>3 DEF SemaDown
    <3>2. ready_list = <<>> => idle_thread = Idle
      BY <2>1 DEF TypeOK, BootInv
    <3>3. [status EXCEPT ![current] = "BLOCKED"] \in [AllThread -> Status]
      BY DEF TypeOK, Status
    <3>4. waiters' \in [AllSema -> Seq(AllThread)]
      BY <2>1, <3>1 DEF TypeOK
    <3> QED
      BY <1>14, <3>1, <3>2, <3>3, <3>4, ScheduleType
         DEF SemaDown, thread_block, TypeOK, timer, tids, locals
  <2> QED
    <3>1. value[s] \in Nat
      BY <2>1 DEF TypeOK
    <3> QED
      BY <2>2, <2>3, <3>1
<1>15. ASSUME NEW t \in AllThread, SetHolder(t)
      PROVE  TypeOK'
  BY <1>15 DEF SetHolder, LocalsInv, TypeOK, Calls, At, Goto, AllSema, PC, sched, timer, synch, tids, locals
<1>16. ASSUME NEW t \in AllThread, LockUp(t)
      PROVE  TypeOK'
  <2>1. obj[t] \in Lock /\ ret[t] \in {"run", "down", "create"}
    BY <1>16 DEF LockUp, At, LocalsInv
  <2> QED
    BY <1>16, <2>1, SemaUpType DEF LockUp, TypeOK, Calls, At, Goto, AllSema, PC, sched, timer, synch, tids, locals
<1>17. ASSUME NEW t \in AllThread, CondWaitRelease(t)
      PROVE  TypeOK'
  BY <1>17 DEF CondWaitRelease, lock_release, LocalsInv, TypeOK, Calls, At, Goto, AllSema, PC, sched, timer, synch, tids, locals
<1>18. ASSUME NEW t \in AllThread, BroadcastStep(t)
      PROVE  TypeOK'
  <2>1. cnd[t] \in Cond /\ At(t, "broadcast")
    BY <1>18 DEF BroadcastStep, At, LocalsInv
  <2>2. CASE pop_waiter(t, cnd[t], "broadcast") /\ UNCHANGED <<value, waiters, holder, cnd>>
    BY <1>18, <2>1, <2>2, PopWaiterType DEF BroadcastStep, TypeOK, sched, timer, tids
  <2>3. CASE Goto(t, "run") /\ UNCHANGED <<synch, obj, ret, cnd>>
    BY <1>18, <2>3 DEF BroadcastStep, Goto, TypeOK, PC, sched, timer, synch, tids
  <2> QED
    BY <1>18, <2>2, <2>3 DEF BroadcastStep
<1>19. ASSUME NEW t \in AllThread, SignalUp(t)
      PROVE  TypeOK'
  <2>1. obj[t] \in AllThread /\ ret[t] \in {"run", "broadcast"}
    BY <1>19 DEF SignalUp, At, LocalsInv
  <2> QED
    BY <1>19, <2>1, SemaUpType DEF SignalUp, TypeOK, Calls, At, Goto, AllSema, PC, sched, timer, synch, tids, locals
<1>20. ASSUME NEW t \in AllThread, TidRead(t)
      PROVE  TypeOK'
  BY <1>20 DEF TidRead, TypeOK, Calls, At, Goto, AllSema, PC, sched, timer, synch, tids, locals
<1>21. ASSUME NEW t \in AllThread, TidWrite(t)
      PROVE  TypeOK'
  <2>1. child[t] \in AllThread
    BY <1>21 DEF TidWrite, At, LocalsInv, AllThread
  <2> QED
    <3>1. tmp[t] \in Nat
      BY DEF TypeOK
    <3>2. next_tid' \in Nat /\ tid' \in [AllThread -> Nat]
      BY <1>21, <2>1, <3>1 DEF TidWrite, TypeOK
    <3>3. /\ holder' \in [Lock -> AllThread \cup {None}] /\ pc' \in [AllThread -> PC]
          /\ obj' \in [AllThread -> AllSema \cup {None}]
          /\ ret' \in [AllThread -> {"run", "down", "tid_read", "create", "broadcast"}]
      BY <1>21 DEF TidWrite, lock_release, Goto, TypeOK, PC, AllSema
    <3> QED
      BY <1>21, <3>2, <3>3 DEF TidWrite, TypeOK, sched, timer
<1>22. ASSUME NEW t \in AllThread, CreateUnblock(t)
      PROVE  TypeOK'
  <2>1. child[t] \in AllThread
    BY <1>22 DEF CreateUnblock, At, LocalsInv, AllThread
  <2> QED
    BY <1>22, <2>1, UnblockType DEF CreateUnblock, TypeOK, Calls, At, Goto, AllSema, PC, sched, timer, synch, tids, locals
<1>23. ASSUME IdleStart
      PROVE  TypeOK'
  BY <1>23 DEF IdleStart, AllThread, TypeOK, Calls, At, Goto, AllSema, PC, sched, timer, synch, tids, locals
<1>24. ASSUME IdleUp
      PROVE  TypeOK'
  BY <1>24, SemaUpType DEF IdleUp, AllThread, TypeOK, Calls, At, Goto, AllSema, PC, sched, timer, synch, tids, locals
<1>25. ASSUME IdleLoop
      PROVE  TypeOK'
  <2>1. idle_thread = Idle
    BY <1>25 DEF IdleLoop, At, TypeOK, BootInv
  <2>2. [status EXCEPT ![current] = "BLOCKED"] \in [AllThread -> Status]
    BY DEF TypeOK, Status
  <2> QED
    BY <1>25, <2>1, <2>2, ScheduleType DEF IdleLoop, thread_block, AllThread, TypeOK, Calls, At, Goto, AllSema, PC, sched, timer, synch, tids, locals
<1>26. ASSUME TimerInterrupt
      PROVE  TypeOK'
  <2>1. PICK n \in 0..Len(sleep_list) :
            /\ sleep_list' = SubSeq(sleep_list, n + 1, Len(sleep_list))
            /\ LET due == SubSeq(sleep_list, 1, n)
                   rl  == ready_list \o due
                   st  == [t \in AllThread |->
                              IF \E i \in 1..n : sleep_list[i] = t THEN "READY"
                                                                   ELSE status[t]]
               IN IF SliceOver
                  THEN yield(st, rl)
                  ELSE /\ thread_ticks' = thread_ticks + 1
                       /\ ready_list' = rl
                       /\ status' = st
                       /\ UNCHANGED current
    BY <1>26 DEF TimerInterrupt
  <2> DEFINE due == SubSeq(sleep_list, 1, n)
             rl  == ready_list \o due
             st  == [t \in AllThread |->
                        IF \E i \in 1..n : sleep_list[i] = t THEN "READY" ELSE status[t]]
  <2>2. st \in [AllThread -> Status]
    BY DEF TypeOK, Status
  <2>3. rl \in Seq(AllThread) /\ sleep_list' \in Seq(AllThread)
    <3>1. sleep_list \in Seq(AllThread) /\ ready_list \in Seq(AllThread)
      BY DEF TypeOK
    <3> QED
      BY <2>1, <3>1, SplitType, ConcatProperties
  <2>4. /\ current' \in AllThread /\ ready_list' \in Seq(AllThread)
        /\ status' \in [AllThread -> Status] /\ thread_ticks' \in Nat
    <3>1. CASE ~SliceOver
      <4>1. /\ thread_ticks' = thread_ticks + 1 /\ ready_list' = rl
            /\ status' = st /\ current' = current
        BY <2>1, <3>1
      <4>2. thread_ticks \in Nat /\ current \in AllThread
        BY DEF TypeOK
      <4> QED
        BY <2>2, <2>3, <4>1, <4>2
    <3>2. CASE SliceOver
      <4>1. yield(st, rl)
        BY <2>1, <3>2
      <4> HIDE DEF rl, st
      <4> QED
        BY <2>2, <2>3, <4>1, YieldType
    <3> QED
      BY <3>1, <3>2
  <2>5. pc' \in [AllThread -> PC] /\ ticks' \in 0..MaxTicks
    <3>1. WakeIdle /\ ticks' = IF ticks < MaxTicks THEN ticks + 1 ELSE ticks
      BY <1>26 DEF TimerInterrupt
    <3>2. ticks \in 0..MaxTicks /\ pc \in [AllThread -> PC]
      BY DEF TypeOK
    <3>3. pc' \in [AllThread -> PC]
      BY <3>1, <3>2 DEF WakeIdle, PC
    <3>4. ticks' \in 0..MaxTicks
      BY <3>1, <3>2
    <3> QED
      BY <3>3, <3>4
  <2> QED
    BY <1>26, <2>3, <2>4, <2>5 DEF TimerInterrupt, TypeOK, synch, tids
<1>27. ASSUME NEW s \in Sema, DeviceInterrupt(s)
      PROVE  TypeOK'
  BY <1>27, SemaUpType DEF DeviceInterrupt, WakeIdle, TypeOK, Calls, At, Goto, AllSema, PC, sched, timer, synch, tids, locals
<1>28. CASE UNCHANGED vars
  BY <1>28 DEF TypeOK, vars, sched, timer, synch, tids, locals
<1> QED
  BY <1>1, <1>2, <1>3, <1>4, <1>5, <1>6, <1>7, <1>8, <1>9, <1>10, <1>11, <1>12, <1>13, <1>14,
     <1>15, <1>16, <1>17, <1>18, <1>19, <1>20, <1>21, <1>22, <1>23, <1>24, <1>25, <1>26, <1>27, <1>28
     DEF Next, Call, Continue, IdleStep, Interrupt

LEMMA LocalsPreserved ==
    ASSUME ControlInv, [Next]_vars
    PROVE  LocalsInv'
<1> USE KernelAssumption DEF ControlInv
<1>1. ASSUME NEW t \in AllThread, ThreadYield(t)
      PROVE  LocalsInv'
  BY <1>1 DEF ThreadYield, TypeOK, LocalsInv, Calls, At, Goto, AllThread, PC, sched, timer, synch, tids, locals
<1>2. ASSUME NEW t \in AllThread, ThreadExit(t)
      PROVE  LocalsInv'
  BY <1>2 DEF ThreadExit, TypeOK, LocalsInv, Calls, At, Goto, AllThread, PC, sched, timer, synch, tids, locals
<1>3. ASSUME NEW t \in AllThread, NEW n \in SleepTicks, TimerSleep(t, n)
      PROVE  LocalsInv'
  BY <1>3 DEF TimerSleep, insert_ordered, thread_block, TypeOK, LocalsInv, Calls, At, Goto, AllThread, PC, sched, timer, synch, tids, locals
<1>4. ASSUME NEW t \in AllThread, NEW s \in Sema, CallSemaDown(t, s)
      PROVE  LocalsInv'
  BY <1>4 DEF CallSemaDown, TypeOK, LocalsInv, Calls, At, Goto, AllThread, PC, sched, timer, synch, tids, locals
<1>5. ASSUME NEW t \in AllThread, NEW s \in Sema, CallSemaUp(t, s)
      PROVE  LocalsInv'
  BY <1>5 DEF CallSemaUp, TypeOK, LocalsInv, Calls, At, Goto, AllThread, PC, sched, timer, synch, tids, locals
<1>6. ASSUME NEW t \in AllThread, NEW s \in Sema, SemaTryDown(t, s)
      PROVE  LocalsInv'
  BY <1>6 DEF SemaTryDown, TypeOK, LocalsInv, Calls, At, Goto, AllThread, PC, sched, timer, synch, tids, locals
<1>7. ASSUME NEW t \in AllThread, NEW l \in Lock, CallLockAcquire(t, l)
      PROVE  LocalsInv'
  BY <1>7 DEF CallLockAcquire, lock_acquire, TypeOK, LocalsInv, Calls, At, Goto, AllThread, PC, sched, timer, synch, tids, locals
<1>8. ASSUME NEW t \in AllThread, NEW l \in Lock, LockTryAcquire(t, l)
      PROVE  LocalsInv'
  BY <1>8 DEF LockTryAcquire, TypeOK, LocalsInv, Calls, At, Goto, AllThread, PC, sched, timer, synch, tids, locals
<1>9. ASSUME NEW t \in AllThread, NEW l \in Lock, CallLockRelease(t, l)
      PROVE  LocalsInv'
  BY <1>9 DEF CallLockRelease, lock_release, TypeOK, LocalsInv, Calls, At, Goto, AllThread, PC, sched, timer, synch, tids, locals
<1>10. ASSUME NEW t \in AllThread, NEW c \in Cond, CondWait(t, c)
      PROVE  LocalsInv'
  BY <1>10, SMTT(60) DEF CondWait, TypeOK, LocalsInv, Calls, At, Goto, AllThread, PC, sched, timer, synch, tids, locals
<1>11. ASSUME NEW t \in AllThread, NEW c \in Cond, CondSignal(t, c)
      PROVE  LocalsInv'
  BY <1>11 DEF CondSignal, pop_waiter, TypeOK, LocalsInv, Calls, At, Goto, AllThread, PC, sched, timer, synch, tids, locals
<1>12. ASSUME NEW t \in AllThread, NEW c \in Cond, CondBroadcast(t, c)
      PROVE  LocalsInv'
  BY <1>12, SMTT(60) DEF CondBroadcast, TypeOK, LocalsInv, Calls, At, Goto, AllThread, PC, sched, timer, synch, tids, locals
<1>13. ASSUME NEW t \in AllThread, NEW u \in Thread, ThreadCreate(t, u)
      PROVE  LocalsInv'
  <2>1. /\ pc' = [pc EXCEPT ![u] = "new", ![t] = "down"]
        /\ obj' = [obj EXCEPT ![t] = TidLock] /\ ret' = [ret EXCEPT ![t] = "tid_read"]
        /\ child' = [child EXCEPT ![t] = u] /\ cnd' = cnd
    BY <1>13 DEF ThreadCreate
  <2>2. TidLock # t /\ u \in AllThread
    BY DEF AllThread
  <2> QED
    BY <2>1, <2>2, SMTT(20) DEF LocalsInv, TypeOK
<1>14. ASSUME NEW t \in AllThread, SemaDown(t)
      PROVE  LocalsInv'
  <2> DEFINE s == obj[t]
  <2>1. s \in Sema \cup Lock \cup {t} /\ (s = t => CondLock[cnd[t]] \in Lock) /\ s \in AllSema
    BY <1>14 DEF SemaDown, At, LocalsInv, AllSema
  <2>2. CASE AfterDown(t, s)
    <3>1. /\ pc' = [pc EXCEPT ![t] = CASE s \in Lock -> "set_holder"
                                       [] s = t      -> "down"
                                       [] OTHER      -> "run"]
          /\ obj' = [obj EXCEPT ![t] = IF s = t THEN CondLock[cnd[t]] ELSE s]
          /\ ret' = [ret EXCEPT ![t] = IF s = t THEN "run" ELSE ret[t]]
          /\ cnd' = cnd /\ child' = child
      BY <1>14, <2>2 DEF AfterDown, SemaDown, tids
    <3>2. pc[t] = "down" /\ t \notin Lock /\ t \notin Sema
      BY <1>14 DEF SemaDown, At
    <3>3. CASE s \in Lock
      <4>1. pc' = [pc EXCEPT ![t] = "set_holder"] /\ ret' = ret /\ obj' = obj
        BY <2>1, <3>1, <3>2, <3>3 DEF TypeOK
      <4>2. ret[t] \in {"run", "tid_read"}
        BY <3>2, <3>3 DEF LocalsInv
      <4> QED
        BY <3>1, <3>2, <3>3, <4>1, <4>2, SMTT(60) DEF LocalsInv, TypeOK
    <3>4. CASE s = t
      <4>1. PICK l \in Lock : obj' = [obj EXCEPT ![t] = l]
        BY <2>1, <3>1, <3>4
      <4>2. pc' = [pc EXCEPT ![t] = "down"] /\ ret' = [ret EXCEPT ![t] = "run"]
        BY <3>1, <3>2, <3>4
      <4>3. cnd' = cnd /\ child' = child
        BY <3>1
      <4> QED
        BY <3>2, <4>1, <4>2, <4>3 DEF LocalsInv, TypeOK
    <3>5. CASE s \in Sema
      <4>1. pc' = [pc EXCEPT ![t] = "run"] /\ ret' = ret /\ obj' = obj
        BY <2>1, <3>1, <3>2, <3>5 DEF TypeOK
      <4> QED
        BY <3>1, <3>2, <4>1, SMTT(60) DEF LocalsInv, TypeOK
    <3> QED
      BY <2>1, <3>3, <3>4, <3>5
  <2>3. CASE UNCHANGED locals
    BY <1>14, <2>3 DEF SemaDown, LocalsInv, locals, tids
  <2> QED
    BY <1>14, <2>2, <2>3 DEF SemaDown
<1>15. ASSUME NEW t \in AllThread, SetHolder(t)
      PROVE  LocalsInv'
  BY <1>15, SMTT(60) DEF SetHolder, TypeOK, LocalsInv, Calls, At, Goto, AllThread, PC, sched, timer, synch, tids, locals
<1>16. ASSUME NEW t \in AllThread, LockUp(t)
      PROVE  LocalsInv'
  BY <1>16, SMTT(60) DEF LockUp, TypeOK, LocalsInv, Calls, At, Goto, AllThread, PC, sched, timer, synch, tids, locals
<1>17. ASSUME NEW t \in AllThread, CondWaitRelease(t)
      PROVE  LocalsInv'
  BY <1>17 DEF CondWaitRelease, lock_release, TypeOK, LocalsInv, Calls, At, Goto, AllThread, PC, sched, timer, synch, tids, locals
<1>18. ASSUME NEW t \in AllThread, BroadcastStep(t)
      PROVE  LocalsInv'
  <2>1. cnd[t] \in Cond /\ At(t, "broadcast")
    BY <1>18 DEF BroadcastStep, At, LocalsInv
  <2>2. CASE pop_waiter(t, cnd[t], "broadcast") /\ UNCHANGED cnd
    <3>1. Head(cond_waiters[cnd[t]]) \in AllThread
      BY <2>1, <2>2 DEF pop_waiter, TypeOK
    <3> QED
      BY <1>18, <2>1, <2>2, <3>1, SMTT(60) DEF BroadcastStep, pop_waiter, Goto, At, LocalsInv, TypeOK, tids
  <2>3. CASE Goto(t, "run") /\ UNCHANGED <<obj, ret, cnd>>
    BY <1>18, <2>3, SMTT(60) DEF BroadcastStep, Goto, At, LocalsInv, TypeOK, tids
  <2> QED
    BY <1>18, <2>2, <2>3 DEF BroadcastStep
<1>19. ASSUME NEW t \in AllThread, SignalUp(t)
      PROVE  LocalsInv'
  BY <1>19, SMTT(60) DEF SignalUp, TypeOK, LocalsInv, Calls, At, Goto, AllThread, PC, sched, timer, synch, tids, locals
<1>20. ASSUME NEW t \in AllThread, TidRead(t)
      PROVE  LocalsInv'
  BY <1>20 DEF TidRead, TypeOK, LocalsInv, Calls, At, Goto, AllThread, PC, sched, timer, synch, tids, locals
<1>21. ASSUME NEW t \in AllThread, TidWrite(t)
      PROVE  LocalsInv'
  BY <1>21, SMTT(60) DEF TidWrite, lock_release, TypeOK, LocalsInv, Calls, At, Goto, AllThread, PC, sched, timer, synch, tids, locals
<1>22. ASSUME NEW t \in AllThread, CreateUnblock(t)
      PROVE  LocalsInv'
  BY <1>22, SMTT(60) DEF CreateUnblock, TypeOK, LocalsInv, Calls, At, Goto, AllThread, PC, sched, timer, synch, tids, locals
<1>23. ASSUME IdleStart
      PROVE  LocalsInv'
  BY <1>23 DEF IdleStart, TypeOK, LocalsInv, Calls, At, Goto, AllThread, PC, sched, timer, synch, tids, locals
<1>24. ASSUME IdleUp
      PROVE  LocalsInv'
  BY <1>24 DEF IdleUp, TypeOK, LocalsInv, Calls, At, Goto, AllThread, PC, sched, timer, synch, tids, locals
<1>25. ASSUME IdleLoop
      PROVE  LocalsInv'
  BY <1>25 DEF IdleLoop, TypeOK, LocalsInv, Calls, At, Goto, AllThread, PC, sched, timer, synch, tids, locals
<1>26. ASSUME TimerInterrupt
      PROVE  LocalsInv'
  BY <1>26, SMTT(60) DEF TimerInterrupt, WakeIdle, TypeOK, LocalsInv, Calls, At, Goto, AllThread, PC, sched, timer, synch, tids, locals
<1>27. ASSUME NEW s \in Sema, DeviceInterrupt(s)
      PROVE  LocalsInv'
  BY <1>27 DEF DeviceInterrupt, WakeIdle, TypeOK, LocalsInv, Calls, At, Goto, AllThread, PC, sched, timer, synch, tids, locals
<1>28. CASE UNCHANGED vars
  BY <1>28 DEF LocalsInv, vars, sched, timer, synch, tids, locals
<1> QED
  BY <1>1, <1>2, <1>3, <1>4, <1>5, <1>6, <1>7, <1>8, <1>9, <1>10, <1>11, <1>12, <1>13, <1>14,
     <1>15, <1>16, <1>17, <1>18, <1>19, <1>20, <1>21, <1>22, <1>23, <1>24, <1>25, <1>26, <1>27, <1>28
     DEF Next, Call, Continue, IdleStep, Interrupt

LEMMA ScheduleBoot ==
    ASSUME NEW st, NEW rl \in Seq(AllThread), schedule(st, rl),
           \E i \in 1..Len(rl) : rl[i] = Idle
    PROVE  \/ current' = Idle
           \/ \E i \in 1..Len(ready_list') : ready_list'[i] = Idle
<1>1. PICK i \in 1..Len(rl) : rl[i] = Idle
  OBVIOUS
<1>2. rl # <<>>
  BY <1>1
<1>3. current' = Head(rl) /\ ready_list' = Tail(rl)
  BY <1>2 DEF schedule, next_thread_to_run
<1>4. CASE i = 1
  BY <1>1, <1>3, <1>4
<1>5. CASE i # 1
  <2>1. i - 1 \in 1..Len(Tail(rl)) /\ Tail(rl)[i - 1] = rl[i]
    BY <1>1, <1>2, <1>5, HeadTailProperties
  <2> QED
    BY <1>1, <1>3, <2>1
<1> QED
  BY <1>4, <1>5

LEMMA YieldBoot ==
    ASSUME NEW st, NEW rl \in Seq(AllThread), yield(st, rl), current \in AllThread,
           idle_thread = None,
           current = Idle \/ \E i \in 1..Len(rl) : rl[i] = Idle
    PROVE  \/ current' = Idle
           \/ \E i \in 1..Len(ready_list') : ready_list'[i] = Idle
<1> DEFINE rl2 == Append(rl, current)
<1>1. current # idle_thread
  BY KernelAssumption
<1>2. schedule([st EXCEPT ![current] = "READY"], rl2)
  BY <1>1 DEF yield
<1>3. rl2 \in Seq(AllThread) /\ \E i \in 1..Len(rl2) : rl2[i] = Idle
  <2>1. /\ rl2 \in Seq(AllThread) /\ Len(rl2) = Len(rl) + 1 /\ Len(rl) \in Nat
        /\ rl2[Len(rl) + 1] = current
        /\ \A i \in 1..Len(rl) : rl2[i] = rl[i]
    BY AppendProperties, LenProperties
  <2> HIDE DEF rl2
  <2>2. CASE current = Idle
    BY <2>1, <2>2
  <2>3. CASE \E i \in 1..Len(rl) : rl[i] = Idle
    BY <2>1, <2>3
  <2> QED
    BY <2>1, <2>2, <2>3
<1> HIDE DEF rl2
<1> QED
  BY <1>2, <1>3, ScheduleBoot

LEMMA UnblockBoot ==
    ASSUME TypeOK, BootInv, NEW t \in AllThread, thread_unblock(t)
    PROVE  idle_thread = None => \/ current' = Idle
                                 \/ \E i \in 1..Len(ready_list') : ready_list'[i] = Idle
<1>1. ready_list \in Seq(AllThread) /\ ready_list' = Append(ready_list, t) /\ current' = current
  BY DEF TypeOK, thread_unblock
<1>2. /\ Len(ready_list') = Len(ready_list) + 1 /\ Len(ready_list) \in Nat
      /\ \A i \in 1..Len(ready_list) : ready_list'[i] = ready_list[i]
  BY <1>1, AppendProperties, LenProperties
<1>3. \A i \in 1..Len(ready_list) : i \in 1..Len(ready_list')
  BY <1>2
<1> QED
  BY <1>1, <1>2, <1>3 DEF BootInv

LEMMA SemaUpBoot ==
    ASSUME TypeOK, BootInv, NEW s \in AllSema, sema_up(s)
    PROVE  idle_thread = None => \/ current' = Idle
                                 \/ \E i \in 1..Len(ready_list') : ready_list'[i] = Idle
<1>1. CASE waiters[s] = <<>>
  BY <1>1 DEF sema_up, sched, BootInv
<1>2. CASE waiters[s] # <<>>
  <2>1. Head(waiters[s]) \in AllThread
    BY <1>2 DEF TypeOK
  <2> QED
    BY <1>2, <2>1, UnblockBoot DEF sema_up
<1> QED
  BY <1>1, <1>2

LEMMA BootPreserved ==
    ASSUME ControlInv, [Next]_vars
    PROVE  BootInv'
<1> USE KernelAssumption DEF ControlInv
<1>1. ASSUME NEW t \in AllThread, ThreadYield(t)
      PROVE  BootInv'
  <2>1. yield(status, ready_list) /\ UNCHANGED locals /\ idle_thread' = idle_thread
    BY <1>1 DEF ThreadYield
  <2>2. ready_list \in Seq(AllThread) /\ current \in AllThread
    BY DEF TypeOK
  <2>3. idle_thread = None => current = Idle \/ \E i \in 1..Len(ready_list) : ready_list[i] = Idle
    BY DEF BootInv
  <2>4. idle_thread = None => \/ current' = Idle
                              \/ \E i \in 1..Len(ready_list') : ready_list'[i] = Idle
    BY <2>1, <2>2, <2>3, YieldBoot
  <2> QED
    BY <2>1, <2>4 DEF BootInv, locals
<1>2. ASSUME NEW t \in AllThread, ThreadExit(t)
      PROVE  BootInv'
  <2>1. idle_thread = None => \E i \in 1..Len(ready_list) : ready_list[i] = Idle
    BY <1>2 DEF ThreadExit, Calls, At, BootInv
  <2>2. idle_thread = None => \/ current' = Idle
                              \/ \E i \in 1..Len(ready_list') : ready_list'[i] = Idle
    BY <1>2, <2>1, ScheduleBoot DEF ThreadExit, TypeOK
  <2> QED
    BY <1>2, <2>2 DEF ThreadExit, BootInv, locals
<1>3. ASSUME NEW t \in AllThread, NEW n \in SleepTicks, TimerSleep(t, n)
      PROVE  BootInv'
  <2>1. idle_thread = None => \E i \in 1..Len(ready_list) : ready_list[i] = Idle
    BY <1>3 DEF TimerSleep, Calls, At, BootInv
  <2>2. idle_thread = None => \/ current' = Idle
                              \/ \E i \in 1..Len(ready_list') : ready_list'[i] = Idle
    BY <1>3, <2>1, ScheduleBoot DEF TimerSleep, thread_block, TypeOK
  <2> QED
    BY <1>3, <2>2 DEF TimerSleep, BootInv, locals
<1>4. ASSUME NEW t \in AllThread, NEW s \in Sema, CallSemaDown(t, s)
      PROVE  BootInv'
  BY <1>4 DEF CallSemaDown, TypeOK, BootInv, LocalsInv, Calls, At, Goto, AllThread, sched, timer, synch, tids, locals
<1>5. ASSUME NEW t \in AllThread, NEW s \in Sema, CallSemaUp(t, s)
      PROVE  BootInv'
  <2>1. /\ idle_thread' = idle_thread /\ UNCHANGED locals
        /\ s \in AllSema /\ sema_up(s)
    BY <1>5 DEF CallSemaUp, AllSema
  <2> QED
    BY <2>1, SemaUpBoot DEF BootInv, locals
<1>6. ASSUME NEW t \in AllThread, NEW s \in Sema, SemaTryDown(t, s)
      PROVE  BootInv'
  BY <1>6 DEF SemaTryDown, TypeOK, BootInv, LocalsInv, Calls, At, Goto, AllThread, sched, timer, synch, tids, locals
<1>7. ASSUME NEW t \in AllThread, NEW l \in Lock, CallLockAcquire(t, l)
      PROVE  BootInv'
  BY <1>7 DEF CallLockAcquire, lock_acquire, TypeOK, BootInv, LocalsInv, Calls, At, Goto, AllThread, sched, timer, synch, tids, locals
<1>8. ASSUME NEW t \in AllThread, NEW l \in Lock, LockTryAcquire(t, l)
      PROVE  BootInv'
  BY <1>8 DEF LockTryAcquire, TypeOK, BootInv, LocalsInv, Calls, At, Goto, AllThread, sched, timer, synch, tids, locals
<1>9. ASSUME NEW t \in AllThread, NEW l \in Lock, CallLockRelease(t, l)
      PROVE  BootInv'
  BY <1>9 DEF CallLockRelease, lock_release, TypeOK, BootInv, LocalsInv, Calls, At, Goto, AllThread, sched, timer, synch, tids, locals
<1>10. ASSUME NEW t \in AllThread, NEW c \in Cond, CondWait(t, c)
      PROVE  BootInv'
  BY <1>10 DEF CondWait, TypeOK, BootInv, LocalsInv, Calls, At, Goto, AllThread, sched, timer, synch, tids, locals
<1>11. ASSUME NEW t \in AllThread, NEW c \in Cond, CondSignal(t, c)
      PROVE  BootInv'
  BY <1>11 DEF CondSignal, pop_waiter, TypeOK, BootInv, LocalsInv, Calls, At, Goto, AllThread, sched, timer, synch, tids, locals
<1>12. ASSUME NEW t \in AllThread, NEW c \in Cond, CondBroadcast(t, c)
      PROVE  BootInv'
  BY <1>12 DEF CondBroadcast, TypeOK, BootInv, LocalsInv, Calls, At, Goto, AllThread, sched, timer, synch, tids, locals
<1>13. ASSUME NEW t \in AllThread, NEW u \in Thread, ThreadCreate(t, u)
      PROVE  BootInv'
  <2>1. /\ pc[t] = "run" /\ pc' = [pc EXCEPT ![u] = "new", ![t] = "down"]
        /\ current' = current /\ ready_list' = ready_list /\ idle_thread' = idle_thread
    BY <1>13 DEF ThreadCreate, Calls, At
  <2>2. t # Idle /\ u # Idle /\ u \in AllThread
    BY <2>1, KernelAssumption DEF BootInv, AllThread
  <2>3. Idle \in AllThread
    BY DEF AllThread
  <2>4. \A x \in AllThread : pc'[x] = pc[x] \/ (x # Idle /\ pc'[x] \in {"new", "down"})
    BY <2>1, <2>2 DEF TypeOK
  <2> QED
    BY <2>1, <2>3, <2>4 DEF BootInv
<1>14. ASSUME NEW t \in AllThread, SemaDown(t)
      PROVE  BootInv'
  <2>1. At(t, "down") /\ t # Idle /\ idle_thread' = idle_thread
    BY <1>14 DEF SemaDown, At, BootInv
  <2>2. CASE AfterDown(t, obj[t]) /\ UNCHANGED sched
    <3>1. PICK p \in {"set_holder", "down", "run"} : pc' = [pc EXCEPT ![t] = p]
      BY <2>2 DEF AfterDown
    <3> QED
      BY <2>1, <2>2, <3>1, SMTT(20) DEF BootInv, TypeOK, sched
  <2>3. CASE thread_block /\ UNCHANGED locals
    <3>1. idle_thread = None => \E i \in 1..Len(ready_list) : ready_list[i] = Idle
      BY <2>1 DEF At, BootInv
    <3>2. idle_thread = None => \/ current' = Idle
                                \/ \E i \in 1..Len(ready_list') : ready_list'[i] = Idle
      BY <2>3, <3>1, ScheduleBoot DEF thread_block, TypeOK
    <3> QED
      BY <2>1, <2>3, <3>2 DEF BootInv, locals
  <2> QED
    BY <1>14, <2>2, <2>3 DEF SemaDown
<1>15. ASSUME NEW t \in AllThread, SetHolder(t)
      PROVE  BootInv'
  BY <1>15 DEF SetHolder, TypeOK, BootInv, LocalsInv, Calls, At, Goto, AllThread, sched, timer, synch, tids, locals
<1>16. ASSUME NEW t \in AllThread, LockUp(t)
      PROVE  BootInv'
  <2>1. /\ obj[t] \in AllSema /\ sema_up(obj[t]) /\ idle_thread' = idle_thread
        /\ pc' = [pc EXCEPT ![t] = ret[t]] /\ t # Idle
        /\ ret[t] \in {"run", "down", "create", "broadcast"}
    BY <1>16 DEF LockUp, Goto, At, LocalsInv, BootInv, AllSema
  <2>2. idle_thread = None => \/ current' = Idle
                              \/ \E i \in 1..Len(ready_list') : ready_list'[i] = Idle
    BY <2>1, SemaUpBoot
  <2> QED
    BY <2>1, <2>2, SMTT(60) DEF BootInv, TypeOK
<1>17. ASSUME NEW t \in AllThread, CondWaitRelease(t)
      PROVE  BootInv'
  BY <1>17 DEF CondWaitRelease, lock_release, TypeOK, BootInv, LocalsInv, Calls, At, Goto, AllThread, sched, timer, synch, tids, locals
<1>18. ASSUME NEW t \in AllThread, BroadcastStep(t)
      PROVE  BootInv'
  BY <1>18, SMTT(60) DEF BroadcastStep, pop_waiter, TypeOK, BootInv, LocalsInv, Calls, At, Goto, AllThread, sched, timer, synch, tids, locals
<1>19. ASSUME NEW t \in AllThread, SignalUp(t)
      PROVE  BootInv'
  <2>1. /\ obj[t] \in AllSema /\ sema_up(obj[t]) /\ idle_thread' = idle_thread
        /\ pc' = [pc EXCEPT ![t] = ret[t]] /\ t # Idle
        /\ ret[t] \in {"run", "down", "create", "broadcast"}
    BY <1>19 DEF SignalUp, Goto, At, LocalsInv, BootInv, AllSema
  <2>2. idle_thread = None => \/ current' = Idle
                              \/ \E i \in 1..Len(ready_list') : ready_list'[i] = Idle
    BY <2>1, SemaUpBoot
  <2> QED
    BY <2>1, <2>2, SMTT(60) DEF BootInv, TypeOK
<1>20. ASSUME NEW t \in AllThread, TidRead(t)
      PROVE  BootInv'
  BY <1>20 DEF TidRead, TypeOK, BootInv, LocalsInv, Calls, At, Goto, AllThread, sched, timer, synch, tids, locals
<1>21. ASSUME NEW t \in AllThread, TidWrite(t)
      PROVE  BootInv'
  BY <1>21 DEF TidWrite, lock_release, TypeOK, BootInv, LocalsInv, Calls, At, Goto, AllThread, sched, timer, synch, tids, locals
<1>22. ASSUME NEW t \in AllThread, CreateUnblock(t)
      PROVE  BootInv'
  <2>1. child[t] \in Thread /\ child[t] \in AllThread /\ t # Idle /\ child[t] # Idle
    BY <1>22 DEF CreateUnblock, At, LocalsInv, BootInv, AllThread
  <2>2. /\ thread_unblock(child[t]) /\ idle_thread' = idle_thread
        /\ pc' = [pc EXCEPT ![child[t]] = "run", ![t] = "run"]
    BY <1>22 DEF CreateUnblock
  <2>3. pc \in [AllThread -> PC] /\ Idle \in AllThread
    BY DEF TypeOK, AllThread
  <2>4. \A x \in AllThread : pc'[x] = pc[x] \/ (x # Idle /\ pc'[x] = "run")
    BY <2>1, <2>2, <2>3
  <2>5. idle_thread = None => \/ current' = Idle
                             \/ \E i \in 1..Len(ready_list') : ready_list'[i] = Idle
    BY <2>1, <2>2, UnblockBoot
  <2> QED
    BY <2>2, <2>3, <2>4, <2>5 DEF BootInv
<1>23. ASSUME IdleStart
      PROVE  BootInv'
  BY <1>23 DEF IdleStart, TypeOK, BootInv, LocalsInv, Calls, At, Goto, AllThread, sched, timer, synch, tids, locals
<1>24. ASSUME IdleUp
      PROVE  BootInv'
  <2>1. /\ IdleStarted \in AllSema /\ sema_up(IdleStarted) /\ idle_thread' = idle_thread
        /\ pc' = [pc EXCEPT ![Idle] = "idle_loop"] /\ idle_thread # None
    BY <1>24 DEF IdleUp, Goto, At, BootInv, AllSema
  <2>2. idle_thread = None => \/ current' = Idle
                              \/ \E i \in 1..Len(ready_list') : ready_list'[i] = Idle
    BY <2>1, SemaUpBoot
  <2> QED
    BY <2>1, <2>2 DEF BootInv, TypeOK
<1>25. ASSUME IdleLoop
      PROVE  BootInv'
  <2>1. idle_thread # None /\ idle_thread' = idle_thread /\ pc' = [pc EXCEPT ![Idle] = "idle_hlt"]
    BY <1>25 DEF IdleLoop, At, Goto, BootInv
  <2> QED
    BY <2>1 DEF BootInv, TypeOK
<1>26. ASSUME TimerInterrupt
      PROVE  BootInv'
  <2>1. PICK n \in 0..Len(sleep_list) :
            LET due == SubSeq(sleep_list, 1, n)
                rl  == ready_list \o due
                st  == [t \in AllThread |->
                           IF \E i \in 1..n : sleep_list[i] = t THEN "READY" ELSE status[t]]
            IN IF SliceOver
               THEN yield(st, rl)
               ELSE /\ thread_ticks' = thread_ticks + 1
                    /\ ready_list' = rl
                    /\ status' = st
                    /\ UNCHANGED current
    BY <1>26 DEF TimerInterrupt
  <2> DEFINE rl == ready_list \o SubSeq(sleep_list, 1, n)
             st == [t \in AllThread |->
                       IF \E i \in 1..n : sleep_list[i] = t THEN "READY" ELSE status[t]]
  <2>2. /\ rl \in Seq(AllThread) /\ ready_list \in Seq(AllThread) /\ Len(ready_list) <= Len(rl)
        /\ \A i \in 1..Len(ready_list) : i \in 1..Len(rl) /\ rl[i] = ready_list[i]
    <3>1. sleep_list \in Seq(AllThread) /\ ready_list \in Seq(AllThread)
      BY DEF TypeOK
    <3>2. SubSeq(sleep_list, 1, n) \in Seq(AllThread)
      BY <3>1, SplitType
    <3> QED
      BY <3>1, <3>2, ConcatProperties, LenProperties
  <2>3. WakeIdle /\ idle_thread' = idle_thread
    BY <1>26 DEF TimerInterrupt
  <2>4. idle_thread = None =>
            current = Idle \/ \E i \in 1..Len(rl) : rl[i] = Idle
    <3> HIDE DEF rl
    <3> QED
      BY <2>2 DEF BootInv
  <2>5. idle_thread = None =>
            current' = Idle \/ \E i \in 1..Len(ready_list') : ready_list'[i] = Idle
    <3>1. CASE SliceOver
      <4>1. yield(st, rl)
        BY <2>1, <3>1
      <4> HIDE DEF rl, st
      <4> QED
        BY <2>2, <2>4, <4>1, YieldBoot DEF TypeOK
    <3>2. CASE ~SliceOver
      <4>1. ready_list' = rl /\ current' = current
        BY <2>1, <3>2
      <4> HIDE DEF rl, st
      <4> QED
        BY <2>4, <4>1
    <3> QED
      BY <3>1, <3>2
  <2> QED
    BY <2>3, <2>5, SMTT(20) DEF BootInv, WakeIdle, At, TypeOK
<1>27. ASSUME NEW s \in Sema, DeviceInterrupt(s)
      PROVE  BootInv'
  <2>1. /\ s \in AllSema /\ sema_up(s) /\ idle_thread' = idle_thread /\ WakeIdle
    BY <1>27 DEF DeviceInterrupt, AllSema
  <2>2. idle_thread = None => \/ current' = Idle
                              \/ \E i \in 1..Len(ready_list') : ready_list'[i] = Idle
    BY <2>1, SemaUpBoot
  <2> QED
    BY <2>1, <2>2, SMTT(60) DEF BootInv, WakeIdle, At, TypeOK
<1>28. CASE UNCHANGED vars
  BY <1>28 DEF BootInv, vars, sched, timer, synch, tids, locals
<1> QED
  BY <1>1, <1>2, <1>3, <1>4, <1>5, <1>6, <1>7, <1>8, <1>9, <1>10, <1>11, <1>12, <1>13, <1>14,
     <1>15, <1>16, <1>17, <1>18, <1>19, <1>20, <1>21, <1>22, <1>23, <1>24, <1>25, <1>26, <1>27, <1>28
     DEF Next, Call, Continue, IdleStep, Interrupt

LEMMA ControlInvariant == Spec => []ControlInv
<1>1. Init => ControlInv
  <2> SUFFICES ASSUME Init PROVE ControlInv
    OBVIOUS
  <2> USE KernelAssumption
  <2>1. TypeOK
    BY DEF Init, TypeOK, AllThread, AllSema, Status, PC
  <2>2. BootInv
    BY DEF Init, BootInv, AllThread
  <2>3. LocalsInv
    BY DEF Init, LocalsInv, AllThread
  <2> QED
    BY <2>1, <2>2, <2>3 DEF ControlInv
<1>2. ControlInv /\ [Next]_vars => ControlInv'
  BY TypePreserved, BootPreserved, LocalsPreserved DEF ControlInv
<1> QED
  BY <1>1, <1>2, PTL DEF Spec

\* thread.c, synch.c and timer.c keep every field in its type, whatever the
\* threads call and whenever interrupts arrive; in particular schedule ()
\* always finds a thread to run.
THEOREM TypeCorrect == Spec => []TypeOK
<1>1. ControlInv => TypeOK
  BY DEF ControlInv
<1> QED
  BY <1>1, ControlInvariant, PTL
-----------------------------------------------------------------------------
(***************************************************************************)
(* Locks, tids and condition variables.                                    *)
(***************************************************************************)

\* The pages of threads: a free page is where thread_exit left it, a thread
\* being created does not run, and thread_create builds it for one caller.
PageInv ==
    /\ status[current] # "FREE"
    /\ \A t \in AllThread : status[t] = "FREE" => pc[t] = "run"
    /\ \A t \in AllThread : child[t] # None => pc[child[t]] = "new"
    /\ \A t, u \in AllThread : child[t] = child[u] /\ child[t] # None => t = u

\* thread_create is in progress exactly while there is a child, and it asks for
\* tid_lock and no other lock.
CreateInv ==
    \A t \in AllThread :
        /\ child[t] # None => \/ ret[t] = "tid_read"
                              \/ pc[t] \in {"tid_read", "tid_write", "create"}
                              \/ pc[t] = "up" /\ ret[t] = "create"
        /\ ret[t] = "tid_read" => \/ pc[t] \in {"down", "set_holder"} /\ obj[t] = TidLock
                                  \/ pc[t] \in {"tid_read", "tid_write"}

\* A thread that has the semaphore of a lock but is not, or no longer, recorded
\* as its holder.
Between(t) == pc[t] \in {"set_holder", "up"}

\* The owner of a lock is in one of three places: between sema_down and the
\* assignment to holder, recorded as holder, or between the reset of holder and
\* sema_up.
HolderInv == \A t \in AllThread : Between(t) => holder[obj[t]] # t

\* next_tid++ is a critical section: the tid a thread has read is still next_tid
\* when it stores, and every tid handed out is smaller.
TidInv ==
    /\ \A t \in AllThread : tid[t] < next_tid
    /\ \A t, u \in AllThread : tid[t] = tid[u] /\ tid[t] # 0 => t = u
    /\ \A t \in AllThread : pc[t] \in {"tid_read", "tid_write"} => holder[TidLock] = t
    /\ \A t \in AllThread : pc[t] = "tid_write" => tmp[t] = next_tid

\* No waiter has been popped by two signallers.
PopInv ==
    \A t, u \in AllThread : pc[t] = "signal" /\ pc[u] = "signal" /\ obj[t] = obj[u] => t = u
-----------------------------------------------------------------------------
\* schedule () frees no page.
LEMMA ScheduleFree ==
    ASSUME NEW st \in [AllThread -> Status], NEW rl, schedule(st, rl)
    PROVE  /\ \A x \in AllThread : status'[x] = "FREE" => st[x] = "FREE"
           /\ current' \in AllThread => status'[current'] = "RUNNING"
BY DEF schedule

\* sema_up () frees no page.
LEMMA SemaUpFree ==
    ASSUME TypeOK, NEW s, sema_up(s)
    PROVE  /\ \A x \in AllThread : status'[x] = "FREE" => status[x] = "FREE"
           /\ current' = current
BY DEF sema_up, thread_unblock, TypeOK, sched

\* thread_block () frees no page.
LEMMA BlockFree ==
    ASSUME TypeOK, thread_block
    PROVE  /\ \A x \in AllThread : status'[x] = "FREE" => status[x] = "FREE"
           /\ current' \in AllThread => status'[current'] = "RUNNING"
<1>1. [status EXCEPT ![current] = "BLOCKED"] \in [AllThread -> Status]
  BY DEF TypeOK, Status
<1> QED
  BY <1>1, ScheduleFree DEF thread_block, TypeOK

\* A page becomes free in thread_exit () only, called by the thread itself.
LEMMA OnlyExitFrees ==
    ASSUME ControlInv, TypeOK', [Next]_vars
    PROVE  /\ status[current] # "FREE" => status'[current'] # "FREE"
           /\ \A x \in AllThread : status'[x] = "FREE" =>
                 status[x] = "FREE" \/ (pc[x] = "run" /\ pc' = pc)
<1> USE KernelAssumption DEF ControlInv, TypeOK
<1>1. ASSUME NEW t \in AllThread, ThreadYield(t)
      PROVE  /\ status[current] # "FREE" => status'[current'] # "FREE"
           /\ \A x \in AllThread : status'[x] = "FREE" =>
                 status[x] = "FREE" \/ (pc[x] = "run" /\ pc' = pc)
  <2>1. [status EXCEPT ![current] = "READY"] \in [AllThread -> Status]
    BY DEF TypeOK, Status
  <2>2. PICK rl : schedule([status EXCEPT ![current] = "READY"], rl)
    BY <1>1 DEF ThreadYield, yield
  <2> QED
    BY <2>1, <2>2, ScheduleFree DEF TypeOK
<1>2. ASSUME NEW t \in AllThread, ThreadExit(t)
      PROVE  /\ status[current] # "FREE" => status'[current'] # "FREE"
           /\ \A x \in AllThread : status'[x] = "FREE" =>
                 status[x] = "FREE" \/ (pc[x] = "run" /\ pc' = pc)
  <2> DEFINE st == [status EXCEPT ![t] = IF t = Main THEN "DYING" ELSE "FREE"]
  <2>1. st \in [AllThread -> Status]
    BY DEF TypeOK, Status
  <2>2. schedule(st, ready_list) /\ pc' = pc /\ pc[t] = "run"
    BY <1>2 DEF ThreadExit, locals, Calls, At
  <2>3. \A x \in AllThread : st[x] = "FREE" => status[x] = "FREE" \/ x = t
    BY DEF TypeOK
  <2> HIDE DEF st
  <2> QED
    BY <2>1, <2>2, <2>3, ScheduleFree
<1>3. ASSUME NEW t \in AllThread, NEW n \in SleepTicks, TimerSleep(t, n)
      PROVE  /\ status[current] # "FREE" => status'[current'] # "FREE"
           /\ \A x \in AllThread : status'[x] = "FREE" =>
                 status[x] = "FREE" \/ (pc[x] = "run" /\ pc' = pc)
  BY <1>3, BlockFree DEF TimerSleep
<1>4. ASSUME NEW t \in AllThread, NEW s \in Sema \ {IdleStarted}, CallSemaDown(t, s)
      PROVE  /\ status[current] # "FREE" => status'[current'] # "FREE"
           /\ \A x \in AllThread : status'[x] = "FREE" =>
                 status[x] = "FREE" \/ (pc[x] = "run" /\ pc' = pc)
  BY <1>4 DEF CallSemaDown, sched
<1>5. ASSUME NEW t \in AllThread, NEW s \in Sema \ {IdleStarted}, CallSemaUp(t, s)
      PROVE  /\ status[current] # "FREE" => status'[current'] # "FREE"
           /\ \A x \in AllThread : status'[x] = "FREE" =>
                 status[x] = "FREE" \/ (pc[x] = "run" /\ pc' = pc)
  BY <1>5, SemaUpFree DEF CallSemaUp, AllSema
<1>6. ASSUME NEW t \in AllThread, NEW s \in Sema \ {IdleStarted}, SemaTryDown(t, s)
      PROVE  /\ status[current] # "FREE" => status'[current'] # "FREE"
           /\ \A x \in AllThread : status'[x] = "FREE" =>
                 status[x] = "FREE" \/ (pc[x] = "run" /\ pc' = pc)
  BY <1>6 DEF SemaTryDown, sched
<1>7. ASSUME NEW t \in AllThread, NEW l \in Lock \ {TidLock}, CallLockAcquire(t, l)
      PROVE  /\ status[current] # "FREE" => status'[current'] # "FREE"
           /\ \A x \in AllThread : status'[x] = "FREE" =>
                 status[x] = "FREE" \/ (pc[x] = "run" /\ pc' = pc)
  BY <1>7 DEF CallLockAcquire, lock_acquire, sched
<1>8. ASSUME NEW t \in AllThread, NEW l \in Lock \ {TidLock}, LockTryAcquire(t, l)
      PROVE  /\ status[current] # "FREE" => status'[current'] # "FREE"
           /\ \A x \in AllThread : status'[x] = "FREE" =>
                 status[x] = "FREE" \/ (pc[x] = "run" /\ pc' = pc)
  BY <1>8 DEF LockTryAcquire, sched
<1>9. ASSUME NEW t \in AllThread, NEW l \in Lock \ {TidLock}, CallLockRelease(t, l)
      PROVE  /\ status[current] # "FREE" => status'[current'] # "FREE"
           /\ \A x \in AllThread : status'[x] = "FREE" =>
                 status[x] = "FREE" \/ (pc[x] = "run" /\ pc' = pc)
  BY <1>9 DEF CallLockRelease, lock_release, sched
<1>10. ASSUME NEW t \in AllThread, NEW c \in Cond, CondWait(t, c)
      PROVE  /\ status[current] # "FREE" => status'[current'] # "FREE"
           /\ \A x \in AllThread : status'[x] = "FREE" =>
                 status[x] = "FREE" \/ (pc[x] = "run" /\ pc' = pc)
  BY <1>10 DEF CondWait, sched
<1>11. ASSUME NEW t \in AllThread, NEW c \in Cond, CondSignal(t, c)
      PROVE  /\ status[current] # "FREE" => status'[current'] # "FREE"
           /\ \A x \in AllThread : status'[x] = "FREE" =>
                 status[x] = "FREE" \/ (pc[x] = "run" /\ pc' = pc)
  BY <1>11 DEF CondSignal, pop_waiter, sched
<1>12. ASSUME NEW t \in AllThread, NEW c \in Cond, CondBroadcast(t, c)
      PROVE  /\ status[current] # "FREE" => status'[current'] # "FREE"
           /\ \A x \in AllThread : status'[x] = "FREE" =>
                 status[x] = "FREE" \/ (pc[x] = "run" /\ pc' = pc)
  BY <1>12 DEF CondBroadcast, sched
<1>13. ASSUME NEW t \in AllThread, NEW u \in Thread, ThreadCreate(t, u)
      PROVE  /\ status[current] # "FREE" => status'[current'] # "FREE"
           /\ \A x \in AllThread : status'[x] = "FREE" =>
                 status[x] = "FREE" \/ (pc[x] = "run" /\ pc' = pc)
  BY <1>13 DEF ThreadCreate, sched
<1>14. ASSUME NEW t \in AllThread, SemaDown(t)
      PROVE  /\ status[current] # "FREE" => status'[current'] # "FREE"
           /\ \A x \in AllThread : status'[x] = "FREE" =>
                 status[x] = "FREE" \/ (pc[x] = "run" /\ pc' = pc)
  BY <1>14, BlockFree DEF SemaDown, sched
<1>15. ASSUME NEW t \in AllThread, SetHolder(t)
      PROVE  /\ status[current] # "FREE" => status'[current'] # "FREE"
           /\ \A x \in AllThread : status'[x] = "FREE" =>
                 status[x] = "FREE" \/ (pc[x] = "run" /\ pc' = pc)
  BY <1>15 DEF SetHolder, sched
<1>16. ASSUME NEW t \in AllThread, LockUp(t)
      PROVE  /\ status[current] # "FREE" => status'[current'] # "FREE"
           /\ \A x \in AllThread : status'[x] = "FREE" =>
                 status[x] = "FREE" \/ (pc[x] = "run" /\ pc' = pc)
  BY <1>16, SemaUpFree DEF LockUp, AllSema
<1>17. ASSUME NEW t \in AllThread, CondWaitRelease(t)
      PROVE  /\ status[current] # "FREE" => status'[current'] # "FREE"
           /\ \A x \in AllThread : status'[x] = "FREE" =>
                 status[x] = "FREE" \/ (pc[x] = "run" /\ pc' = pc)
  BY <1>17 DEF CondWaitRelease, lock_release, sched
<1>18. ASSUME NEW t \in AllThread, BroadcastStep(t)
      PROVE  /\ status[current] # "FREE" => status'[current'] # "FREE"
           /\ \A x \in AllThread : status'[x] = "FREE" =>
                 status[x] = "FREE" \/ (pc[x] = "run" /\ pc' = pc)
  BY <1>18 DEF BroadcastStep, pop_waiter, sched
<1>19. ASSUME NEW t \in AllThread, SignalUp(t)
      PROVE  /\ status[current] # "FREE" => status'[current'] # "FREE"
           /\ \A x \in AllThread : status'[x] = "FREE" =>
                 status[x] = "FREE" \/ (pc[x] = "run" /\ pc' = pc)
  BY <1>19, SemaUpFree DEF SignalUp, AllSema
<1>20. ASSUME NEW t \in AllThread, TidRead(t)
      PROVE  /\ status[current] # "FREE" => status'[current'] # "FREE"
           /\ \A x \in AllThread : status'[x] = "FREE" =>
                 status[x] = "FREE" \/ (pc[x] = "run" /\ pc' = pc)
  BY <1>20 DEF TidRead, sched
<1>21. ASSUME NEW t \in AllThread, TidWrite(t)
      PROVE  /\ status[current] # "FREE" => status'[current'] # "FREE"
           /\ \A x \in AllThread : status'[x] = "FREE" =>
                 status[x] = "FREE" \/ (pc[x] = "run" /\ pc' = pc)
  BY <1>21 DEF TidWrite, lock_release, sched
<1>22. ASSUME NEW t \in AllThread, CreateUnblock(t)
      PROVE  /\ status[current] # "FREE" => status'[current'] # "FREE"
           /\ \A x \in AllThread : status'[x] = "FREE" =>
                 status[x] = "FREE" \/ (pc[x] = "run" /\ pc' = pc)
  BY <1>22 DEF CreateUnblock, thread_unblock, TypeOK
<1>23. ASSUME IdleStart
      PROVE  /\ status[current] # "FREE" => status'[current'] # "FREE"
           /\ \A x \in AllThread : status'[x] = "FREE" =>
                 status[x] = "FREE" \/ (pc[x] = "run" /\ pc' = pc)
  BY <1>23 DEF IdleStart, sched
<1>24. ASSUME IdleUp
      PROVE  /\ status[current] # "FREE" => status'[current'] # "FREE"
           /\ \A x \in AllThread : status'[x] = "FREE" =>
                 status[x] = "FREE" \/ (pc[x] = "run" /\ pc' = pc)
  BY <1>24, SemaUpFree DEF IdleUp, AllSema
<1>25. ASSUME IdleLoop
      PROVE  /\ status[current] # "FREE" => status'[current'] # "FREE"
           /\ \A x \in AllThread : status'[x] = "FREE" =>
                 status[x] = "FREE" \/ (pc[x] = "run" /\ pc' = pc)
  BY <1>25, BlockFree DEF IdleLoop
<1>26. ASSUME TimerInterrupt
      PROVE  /\ status[current] # "FREE" => status'[current'] # "FREE"
           /\ \A x \in AllThread : status'[x] = "FREE" =>
                 status[x] = "FREE" \/ (pc[x] = "run" /\ pc' = pc)
  <2>1. PICK n \in 0..Len(sleep_list) :
            LET rl  == ready_list \o SubSeq(sleep_list, 1, n)
                st  == [t \in AllThread |->
                           IF \E i \in 1..n : sleep_list[i] = t THEN "READY" ELSE status[t]]
            IN IF SliceOver THEN yield(st, rl) ELSE status' = st /\ current' = current
    BY <1>26 DEF TimerInterrupt
  <2> DEFINE rl == ready_list \o SubSeq(sleep_list, 1, n)
             st == [t \in AllThread |->
                       IF \E i \in 1..n : sleep_list[i] = t THEN "READY" ELSE status[t]]
             st2 == [st EXCEPT ![current] = "READY"]
  <2>2. /\ st \in [AllThread -> Status]
        /\ \A x \in AllThread : st[x] = "FREE" => status[x] = "FREE"
    BY DEF TypeOK, Status
  <2>3. st2 \in [AllThread -> Status] /\ \A x \in AllThread : st2[x] = "FREE" => st[x] = "FREE"
    <3> HIDE DEF st
    <3> QED
      BY <2>2 DEF Status
  <2>4. CASE SliceOver
    <3>1. PICK q : schedule(st2, q)
      BY <2>1, <2>4 DEF yield
    <3> HIDE DEF st2, st
    <3> QED
      BY <2>2, <2>3, <3>1, ScheduleFree
  <2>5. CASE ~SliceOver
    <3>1. status' = st /\ current' = current
      BY <2>1, <2>5
    <3> HIDE DEF st
    <3> QED
      BY <2>2, <3>1 DEF TypeOK
  <2> QED
    BY <2>4, <2>5
<1>27. ASSUME NEW s \in Sema \ {IdleStarted}, DeviceInterrupt(s)
      PROVE  /\ status[current] # "FREE" => status'[current'] # "FREE"
           /\ \A x \in AllThread : status'[x] = "FREE" =>
                 status[x] = "FREE" \/ (pc[x] = "run" /\ pc' = pc)
  BY <1>27, SemaUpFree DEF DeviceInterrupt, AllSema
<1>28. CASE UNCHANGED vars
  BY <1>28 DEF vars, sched, timer, synch, tids, locals
<1> QED
  BY <1>1, <1>2, <1>3, <1>4, <1>5, <1>6, <1>7, <1>8, <1>9, <1>10, <1>11, <1>12, <1>13, <1>14,
     <1>15, <1>16, <1>17, <1>18, <1>19, <1>20, <1>21, <1>22, <1>23, <1>24, <1>25, <1>26,
     <1>27, <1>28
     DEF Next, Call, Continue, IdleStep, Interrupt

\* A step of thread_create that writes the locals of the thread it makes ..
CreatesThread ==
    \E t \in AllThread : CreateUnblock(t) \/ \E u \in Thread : ThreadCreate(t, u)

\* ... and the locals every other step leaves alone.
OthersStay ==
    /\ child' = child
    /\ pc[current] # "new" \/ pc' = pc
    /\ \A x \in AllThread \ {current} :
          pc'[x] = pc[x] /\ obj'[x] = obj[x] /\ ret'[x] = ret[x] /\ cnd'[x] = cnd[x]

\* Apart from thread_create, which also writes the new thread's page, a step
\* touches the locals of the current thread only.
LEMMA OnlyCurrentMoves ==
    ASSUME ControlInv, [Next]_vars
    PROVE  CreatesThread \/ OthersStay
<1> USE KernelAssumption DEF ControlInv
<1>1. ASSUME NEW t \in AllThread, ThreadYield(t)
      PROVE  CreatesThread \/ OthersStay
  BY <1>1 DEF OthersStay, ThreadYield, TypeOK, Calls, At, Goto, synch, tids, locals
<1>2. ASSUME NEW t \in AllThread, ThreadExit(t)
      PROVE  CreatesThread \/ OthersStay
  BY <1>2 DEF OthersStay, ThreadExit, TypeOK, Calls, At, Goto, synch, tids, locals
<1>3. ASSUME NEW t \in AllThread, NEW n \in SleepTicks, TimerSleep(t, n)
      PROVE  CreatesThread \/ OthersStay
  BY <1>3 DEF OthersStay, TimerSleep, TypeOK, Calls, At, Goto, synch, tids, locals
<1>4. ASSUME NEW t \in AllThread, NEW s \in Sema \ {IdleStarted}, CallSemaDown(t, s)
      PROVE  CreatesThread \/ OthersStay
  BY <1>4 DEF OthersStay, CallSemaDown, TypeOK, Calls, At, Goto, synch, tids, locals
<1>5. ASSUME NEW t \in AllThread, NEW s \in Sema \ {IdleStarted}, CallSemaUp(t, s)
      PROVE  CreatesThread \/ OthersStay
  BY <1>5 DEF OthersStay, CallSemaUp, TypeOK, Calls, At, Goto, synch, tids, locals
<1>6. ASSUME NEW t \in AllThread, NEW s \in Sema \ {IdleStarted}, SemaTryDown(t, s)
      PROVE  CreatesThread \/ OthersStay
  BY <1>6 DEF OthersStay, SemaTryDown, TypeOK, Calls, At, Goto, synch, tids, locals
<1>7. ASSUME NEW t \in AllThread, NEW l \in Lock \ {TidLock}, CallLockAcquire(t, l)
      PROVE  CreatesThread \/ OthersStay
  BY <1>7 DEF OthersStay, CallLockAcquire, lock_acquire, TypeOK, Calls, At, Goto, synch, tids, locals
<1>8. ASSUME NEW t \in AllThread, NEW l \in Lock \ {TidLock}, LockTryAcquire(t, l)
      PROVE  CreatesThread \/ OthersStay
  BY <1>8 DEF OthersStay, LockTryAcquire, TypeOK, Calls, At, Goto, synch, tids, locals
<1>9. ASSUME NEW t \in AllThread, NEW l \in Lock \ {TidLock}, CallLockRelease(t, l)
      PROVE  CreatesThread \/ OthersStay
  BY <1>9 DEF OthersStay, CallLockRelease, lock_release, TypeOK, Calls, At, Goto, synch, tids, locals
<1>10. ASSUME NEW t \in AllThread, NEW c \in Cond, CondWait(t, c)
      PROVE  CreatesThread \/ OthersStay
  BY <1>10 DEF OthersStay, CondWait, TypeOK, Calls, At, Goto, synch, tids, locals
<1>11. ASSUME NEW t \in AllThread, NEW c \in Cond, CondSignal(t, c)
      PROVE  CreatesThread \/ OthersStay
  BY <1>11 DEF OthersStay, CondSignal, pop_waiter, TypeOK, Calls, At, Goto, synch, tids, locals
<1>12. ASSUME NEW t \in AllThread, NEW c \in Cond, CondBroadcast(t, c)
      PROVE  CreatesThread \/ OthersStay
  BY <1>12 DEF OthersStay, CondBroadcast, TypeOK, Calls, At, Goto, synch, tids, locals
<1>13. ASSUME NEW t \in AllThread, NEW u \in Thread, ThreadCreate(t, u)
      PROVE  CreatesThread \/ OthersStay
  BY <1>13 DEF CreatesThread
<1>14. ASSUME NEW t \in AllThread, SemaDown(t)
      PROVE  CreatesThread \/ OthersStay
  BY <1>14 DEF OthersStay, SemaDown, AfterDown, TypeOK, Calls, At, Goto, synch, tids, locals
<1>15. ASSUME NEW t \in AllThread, SetHolder(t)
      PROVE  CreatesThread \/ OthersStay
  BY <1>15 DEF OthersStay, SetHolder, TypeOK, Calls, At, Goto, synch, tids, locals
<1>16. ASSUME NEW t \in AllThread, LockUp(t)
      PROVE  CreatesThread \/ OthersStay
  BY <1>16 DEF OthersStay, LockUp, TypeOK, Calls, At, Goto, synch, tids, locals
<1>17. ASSUME NEW t \in AllThread, CondWaitRelease(t)
      PROVE  CreatesThread \/ OthersStay
  BY <1>17 DEF OthersStay, CondWaitRelease, lock_release, TypeOK, Calls, At, Goto, synch, tids, locals
<1>18. ASSUME NEW t \in AllThread, BroadcastStep(t)
      PROVE  CreatesThread \/ OthersStay
  BY <1>18 DEF OthersStay, BroadcastStep, pop_waiter, TypeOK, Calls, At, Goto, synch, tids, locals
<1>19. ASSUME NEW t \in AllThread, SignalUp(t)
      PROVE  CreatesThread \/ OthersStay
  BY <1>19 DEF OthersStay, SignalUp, TypeOK, Calls, At, Goto, synch, tids, locals
<1>20. ASSUME NEW t \in AllThread, TidRead(t)
      PROVE  CreatesThread \/ OthersStay
  BY <1>20 DEF OthersStay, TidRead, TypeOK, Calls, At, Goto, synch, tids, locals
<1>21. ASSUME NEW t \in AllThread, TidWrite(t)
      PROVE  CreatesThread \/ OthersStay
  BY <1>21 DEF OthersStay, TidWrite, lock_release, TypeOK, Calls, At, Goto, synch, tids, locals
<1>22. ASSUME NEW t \in AllThread, CreateUnblock(t)
      PROVE  CreatesThread \/ OthersStay
  BY <1>22 DEF CreatesThread
<1>23. ASSUME IdleStart
      PROVE  CreatesThread \/ OthersStay
  BY <1>23 DEF OthersStay, IdleStart, TypeOK, Calls, At, Goto, synch, tids, locals
<1>24. ASSUME IdleUp
      PROVE  CreatesThread \/ OthersStay
  BY <1>24 DEF OthersStay, IdleUp, TypeOK, Calls, At, Goto, synch, tids, locals
<1>25. ASSUME IdleLoop
      PROVE  CreatesThread \/ OthersStay
  BY <1>25 DEF OthersStay, IdleLoop, TypeOK, Calls, At, Goto, synch, tids, locals
<1>26. ASSUME TimerInterrupt
      PROVE  CreatesThread \/ OthersStay
  BY <1>26 DEF OthersStay, TimerInterrupt, WakeIdle, TypeOK, Calls, At, Goto, synch, tids, locals
<1>27. ASSUME NEW s \in Sema \ {IdleStarted}, DeviceInterrupt(s)
      PROVE  CreatesThread \/ OthersStay
  BY <1>27 DEF OthersStay, DeviceInterrupt, WakeIdle, TypeOK, Calls, At, Goto, synch, tids, locals
<1>28. CASE UNCHANGED vars
  BY <1>28 DEF OthersStay, vars, sched, timer, synch, tids, locals
<1> QED
  BY <1>1, <1>2, <1>3, <1>4, <1>5, <1>6, <1>7, <1>8, <1>9, <1>10, <1>11, <1>12, <1>13, <1>14,
     <1>15, <1>16, <1>17, <1>18, <1>19, <1>20, <1>21, <1>22, <1>23, <1>24, <1>25, <1>26,
     <1>27, <1>28
     DEF Next, Call, Continue, IdleStep, Interrupt

\* A step that touches the locals of the current thread only keeps the pages
\* apart.
LEMMA PageFrame ==
    ASSUME ControlInv, TypeOK', PageInv, [Next]_vars, child' = child,
           pc[current] # "new" \/ pc' = pc,
           \A x \in AllThread \ {current} : pc'[x] = pc[x]
    PROVE  PageInv'
<1>1. /\ status'[current'] # "FREE"
      /\ \A x \in AllThread : status'[x] = "FREE" => status[x] = "FREE" \/ (pc[x] = "run" /\ pc' = pc)
  BY OnlyExitFrees DEF PageInv
<1>2. \A x \in AllThread : status'[x] = "FREE" => pc'[x] = "run"
  BY <1>1 DEF PageInv
<1>3. ASSUME NEW x \in AllThread, child[x] # None
      PROVE  pc'[child[x]] = "new"
  <2>1. child[x] \in AllThread /\ pc[child[x]] = "new"
    BY <1>3 DEF PageInv, ControlInv, TypeOK
  <2>2. CASE child[x] = current
    BY <2>1, <2>2
  <2>3. CASE child[x] # current
    BY <2>1, <2>3
  <2> QED
    BY <2>2, <2>3
<1> QED
  BY <1>1, <1>2, <1>3 DEF PageInv

\* init_thread, thread_create and thread_exit keep the pages apart.
LEMMA PagePreserved ==
    ASSUME ControlInv, PageInv, [Next]_vars
    PROVE  PageInv'
<1> USE KernelAssumption
<1>1. TypeOK /\ TypeOK' /\ LocalsInv
  BY TypePreserved DEF ControlInv
<1>2. /\ status'[current'] # "FREE"
      /\ \A x \in AllThread : status'[x] = "FREE" => status[x] = "FREE" \/ (pc[x] = "run" /\ pc' = pc)
  BY <1>1, OnlyExitFrees DEF PageInv
<1>3. ASSUME NEW t \in AllThread, NEW u \in Thread, ThreadCreate(t, u)
      PROVE  PageInv'
  <2>1. u \in AllThread /\ pc[u] = "run" /\ pc[t] = "run" /\ status[u] = "FREE" /\ t # u
    BY <1>3 DEF ThreadCreate, Calls, At, PageInv, AllThread
  <2>2. /\ pc' = [pc EXCEPT ![u] = "new", ![t] = "down"] /\ child' = [child EXCEPT ![t] = u]
        /\ status' = [status EXCEPT ![u] = "BLOCKED"] /\ current' = current /\ current = t
    BY <1>3 DEF ThreadCreate, Calls, At
  <2>3. pc'[u] = "new" /\ pc'[t] = "down" /\ \A x \in AllThread \ {t, u} : pc'[x] = pc[x]
    BY <1>1, <2>1, <2>2 DEF TypeOK
  <2>4. \A x \in AllThread : child'[x] = IF x = t THEN u ELSE child[x]
    BY <1>1, <2>2 DEF TypeOK
  <2>5. \A x \in AllThread : status'[x] = "FREE" => pc'[x] = "run"
    BY <1>1, <2>1, <2>2, <2>3 DEF PageInv, TypeOK
  <2>6. ASSUME NEW x \in AllThread, child[x] # None
        PROVE  child[x] \in AllThread \ {t, u} /\ pc'[child[x]] = "new"
    <3>1. child[x] \in AllThread /\ pc[child[x]] = "new"
      BY <1>1, <2>6 DEF PageInv, TypeOK
    <3> QED
      BY <2>1, <2>3, <3>1
  <2> QED
    BY <1>2, <2>1, <2>3, <2>4, <2>5, <2>6 DEF PageInv
<1>4. ASSUME NEW t \in AllThread, CreateUnblock(t)
      PROVE  PageInv'
  <2>1. /\ pc' = [pc EXCEPT ![child[t]] = "run", ![t] = "run"] /\ pc[t] = "create"
        /\ child' = [child EXCEPT ![t] = None] /\ current = t
    BY <1>4 DEF CreateUnblock, At
  <2>2. child[t] \in AllThread /\ child[t] # None /\ pc[child[t]] = "new"
    BY <1>1, <2>1 DEF LocalsInv, PageInv, AllThread
  <2>3. \A x \in AllThread : child'[x] = IF x = t THEN None ELSE child[x]
    BY <1>1, <2>1 DEF TypeOK
  <2>4. \A x \in AllThread : pc'[x] = IF x \in {t, child[t]} THEN "run" ELSE pc[x]
    BY <1>1, <2>1, <2>2 DEF TypeOK
  <2>5. \A x \in AllThread : status'[x] = "FREE" => pc'[x] = "run"
    BY <1>2, <2>4 DEF PageInv
  <2>6. ASSUME NEW x \in AllThread, child'[x] # None
        PROVE  pc'[child'[x]] = "new"
    <3>1. x # t /\ child'[x] = child[x] /\ child[x] # None
      BY <2>3, <2>6
    <3>2. child[x] \in AllThread /\ pc[child[x]] = "new" /\ child[x] # child[t]
      BY <1>1, <2>2, <3>1 DEF PageInv, TypeOK
    <3> QED
      BY <2>1, <2>4, <3>1, <3>2
  <2> QED
    BY <1>2, <2>3, <2>5, <2>6 DEF PageInv
<1> QED
  BY <1>1, <1>3, <1>4, OnlyCurrentMoves, PageFrame DEF CreatesThread, OthersStay

\* thread_create keeps its place in the code and its child together.
LEMMA CreatePreserved ==
    ASSUME ControlInv, PageInv, CreateInv, [Next]_vars
    PROVE  CreateInv'
<1> USE KernelAssumption DEF ControlInv
<1>1. ASSUME NEW t \in AllThread, ThreadYield(t)
      PROVE  CreateInv'
  BY <1>1 DEF ThreadYield, TypeOK, CreateInv, LocalsInv, Calls, At, Goto, tids, locals
<1>2. ASSUME NEW t \in AllThread, ThreadExit(t)
      PROVE  CreateInv'
  BY <1>2 DEF ThreadExit, TypeOK, CreateInv, LocalsInv, Calls, At, Goto, tids, locals
<1>3. ASSUME NEW t \in AllThread, NEW n \in SleepTicks, TimerSleep(t, n)
      PROVE  CreateInv'
  BY <1>3 DEF TimerSleep, TypeOK, CreateInv, LocalsInv, Calls, At, Goto, tids, locals
<1>4. ASSUME NEW t \in AllThread, NEW s \in Sema \ {IdleStarted}, CallSemaDown(t, s)
      PROVE  CreateInv'
  BY <1>4 DEF CallSemaDown, TypeOK, CreateInv, LocalsInv, Calls, At, Goto, tids, locals
<1>5. ASSUME NEW t \in AllThread, NEW s \in Sema \ {IdleStarted}, CallSemaUp(t, s)
      PROVE  CreateInv'
  BY <1>5 DEF CallSemaUp, TypeOK, CreateInv, LocalsInv, Calls, At, Goto, tids, locals
<1>6. ASSUME NEW t \in AllThread, NEW s \in Sema \ {IdleStarted}, SemaTryDown(t, s)
      PROVE  CreateInv'
  BY <1>6 DEF SemaTryDown, TypeOK, CreateInv, LocalsInv, Calls, At, Goto, tids, locals
<1>7. ASSUME NEW t \in AllThread, NEW l \in Lock \ {TidLock}, CallLockAcquire(t, l)
      PROVE  CreateInv'
  BY <1>7 DEF CallLockAcquire, lock_acquire, TypeOK, CreateInv, LocalsInv, Calls, At, Goto,
     tids, locals
<1>8. ASSUME NEW t \in AllThread, NEW l \in Lock \ {TidLock}, LockTryAcquire(t, l)
      PROVE  CreateInv'
  BY <1>8 DEF LockTryAcquire, TypeOK, CreateInv, LocalsInv, Calls, At, Goto, tids, locals
<1>9. ASSUME NEW t \in AllThread, NEW l \in Lock \ {TidLock}, CallLockRelease(t, l)
      PROVE  CreateInv'
  BY <1>9 DEF CallLockRelease, lock_release, TypeOK, CreateInv, LocalsInv, Calls, At, Goto,
     tids, locals
<1>10. ASSUME NEW t \in AllThread, NEW c \in Cond, CondWait(t, c)
      PROVE  CreateInv'
  BY <1>10 DEF CondWait, TypeOK, CreateInv, LocalsInv, Calls, At, Goto, tids, locals
<1>11. ASSUME NEW t \in AllThread, NEW c \in Cond, CondSignal(t, c)
      PROVE  CreateInv'
  <2>1. /\ pc[t] = "run" /\ child' = child
        /\ pc' = [pc EXCEPT ![t] = "signal"] /\ ret' = [ret EXCEPT ![t] = "run"]
        /\ \A x \in AllThread \ {t} : obj'[x] = obj[x]
    BY <1>11 DEF CondSignal, pop_waiter, Calls, At, Goto, tids, TypeOK
  <2>2. child[t] = None
    BY <2>1 DEF CreateInv
  <2> QED
    BY <2>1, <2>2 DEF CreateInv, TypeOK
<1>12. ASSUME NEW t \in AllThread, NEW c \in Cond, CondBroadcast(t, c)
      PROVE  CreateInv'
  BY <1>12 DEF CondBroadcast, TypeOK, CreateInv, LocalsInv, Calls, At, Goto, tids, locals
<1>13. ASSUME NEW t \in AllThread, NEW u \in Thread, ThreadCreate(t, u)
      PROVE  CreateInv'
  <2>1. u \in AllThread /\ pc[u] = "run" /\ t # u /\ pc[t] = "run"
    BY <1>13 DEF ThreadCreate, Calls, At, PageInv, AllThread
  <2>2. child[u] = None /\ ret[u] # "tid_read"
    BY <2>1 DEF CreateInv
  <2>3. /\ pc' = [pc EXCEPT ![u] = "new", ![t] = "down"] /\ child' = [child EXCEPT ![t] = u]
        /\ obj' = [obj EXCEPT ![t] = TidLock] /\ ret' = [ret EXCEPT ![t] = "tid_read"]
    BY <1>13 DEF ThreadCreate
  <2>4. /\ pc'[u] = "new" /\ child'[u] = None /\ ret'[u] # "tid_read"
        /\ pc'[t] = "down" /\ obj'[t] = TidLock /\ ret'[t] = "tid_read"
    BY <2>1, <2>2, <2>3 DEF TypeOK
  <2>5. \A x \in AllThread \ {t, u} : /\ pc'[x] = pc[x] /\ child'[x] = child[x]
                                      /\ obj'[x] = obj[x] /\ ret'[x] = ret[x]
    BY <2>1, <2>3 DEF TypeOK
  <2> QED
    BY <2>4, <2>5 DEF CreateInv
<1>14. ASSUME NEW t \in AllThread, SemaDown(t)
      PROVE  CreateInv'
  <2>1. CASE UNCHANGED locals
    BY <1>14, <2>1 DEF SemaDown, tids, locals, CreateInv
  <2>2. CASE AfterDown(t, obj[t])
    <3>1. pc[t] = "down" /\ child' = child /\ obj[t] \in Sema \cup Lock \cup {t}
      BY <1>14 DEF SemaDown, tids, At, LocalsInv
    <3>2. child[t] # None \/ ret[t] = "tid_read" => obj[t] = TidLock /\ ret[t] = "tid_read"
      BY <3>1 DEF CreateInv
    <3>3. \A x \in AllThread \ {t} : pc'[x] = pc[x] /\ obj'[x] = obj[x] /\ ret'[x] = ret[x]
      BY <2>2 DEF AfterDown, TypeOK
    <3>4. CASE obj[t] = TidLock
      <4>1. pc'[t] = "set_holder" /\ obj'[t] = TidLock /\ ret'[t] = ret[t]
        BY <2>2, <3>4 DEF AfterDown, TypeOK
      <4> QED
        BY <3>1, <3>2, <3>3, <4>1 DEF CreateInv
    <3>5. CASE obj[t] # TidLock
      <4>1. ret'[t] # "tid_read" /\ child'[t] = None
        BY <2>2, <3>1, <3>2, <3>5 DEF AfterDown, TypeOK
      <4> QED
        BY <3>1, <3>3, <4>1 DEF CreateInv
    <3> QED
      BY <3>4, <3>5
  <2> QED
    BY <1>14, <2>1, <2>2 DEF SemaDown
<1>15. ASSUME NEW t \in AllThread, SetHolder(t)
      PROVE  CreateInv'
  BY <1>15 DEF SetHolder, TypeOK, CreateInv, LocalsInv, Calls, At, Goto, tids, locals
<1>16. ASSUME NEW t \in AllThread, LockUp(t)
      PROVE  CreateInv'
  BY <1>16 DEF LockUp, TypeOK, CreateInv, LocalsInv, Calls, At, Goto, tids, locals
<1>17. ASSUME NEW t \in AllThread, CondWaitRelease(t)
      PROVE  CreateInv'
  BY <1>17 DEF CondWaitRelease, lock_release, TypeOK, CreateInv, LocalsInv, Calls, At, Goto,
     tids, locals
<1>18. ASSUME NEW t \in AllThread, BroadcastStep(t)
      PROVE  CreateInv'
  <2>1. pc[t] = "broadcast" /\ child' = child
    BY <1>18 DEF BroadcastStep, At, tids
  <2>2. child[t] = None /\ ret[t] # "tid_read"
    BY <2>1 DEF CreateInv
  <2>3. CASE pop_waiter(t, cnd[t], "broadcast")
    BY <2>1, <2>2, <2>3 DEF pop_waiter, Goto, CreateInv, TypeOK
  <2>4. CASE Goto(t, "run") /\ UNCHANGED <<obj, ret>>
    BY <2>1, <2>2, <2>4 DEF Goto, CreateInv, TypeOK
  <2> QED
    BY <1>18, <2>3, <2>4 DEF BroadcastStep
<1>19. ASSUME NEW t \in AllThread, SignalUp(t)
      PROVE  CreateInv'
  BY <1>19 DEF SignalUp, TypeOK, CreateInv, LocalsInv, Calls, At, Goto, tids, locals
<1>20. ASSUME NEW t \in AllThread, TidRead(t)
      PROVE  CreateInv'
  BY <1>20 DEF TidRead, TypeOK, CreateInv, LocalsInv, Calls, At, Goto, tids, locals
<1>21. ASSUME NEW t \in AllThread, TidWrite(t)
      PROVE  CreateInv'
  BY <1>21 DEF TidWrite, lock_release, TypeOK, CreateInv, LocalsInv, Calls, At, Goto, tids,
     locals
<1>22. ASSUME NEW t \in AllThread, CreateUnblock(t)
      PROVE  CreateInv'
  <2>1. /\ child[t] \in AllThread /\ child[t] # t /\ pc[child[t]] = "new"
        /\ child[child[t]] = None /\ ret[child[t]] # "tid_read"
    <3>1. pc[t] = "create" /\ child[t] \in AllThread /\ child[t] # None
      BY <1>22 DEF CreateUnblock, At, LocalsInv, AllThread
    <3>2. pc[child[t]] = "new"
      BY <3>1 DEF PageInv
    <3> QED
      BY <3>1, <3>2 DEF CreateInv
  <2>2. /\ child' = [child EXCEPT ![t] = None] /\ pc' = [pc EXCEPT ![child[t]] = "run", ![t] = "run"]
        /\ obj' = obj /\ ret' = ret /\ ret[t] = "create"
    BY <1>22 DEF CreateUnblock, At, LocalsInv
  <2>3. \A x \in AllThread : x \in {t, child[t]} \/ (pc'[x] = pc[x] /\ child'[x] = child[x])
    BY <2>1, <2>2 DEF TypeOK
  <2>4. child'[t] = None /\ child'[child[t]] = None
    BY <2>1, <2>2 DEF TypeOK
  <2> QED
    BY <2>1, <2>2, <2>3, <2>4 DEF CreateInv
<1>23. ASSUME IdleStart
      PROVE  CreateInv'
  BY <1>23 DEF IdleStart, TypeOK, CreateInv, LocalsInv, Calls, At, Goto, tids, locals
<1>24. ASSUME IdleUp
      PROVE  CreateInv'
  BY <1>24 DEF IdleUp, TypeOK, CreateInv, LocalsInv, Calls, At, Goto, tids, locals
<1>25. ASSUME IdleLoop
      PROVE  CreateInv'
  BY <1>25 DEF IdleLoop, TypeOK, CreateInv, LocalsInv, Calls, At, Goto, tids, locals
<1>26. ASSUME TimerInterrupt
      PROVE  CreateInv'
  <2>1. /\ pc' = [pc EXCEPT ![Idle] = IF At(Idle, "idle_hlt") THEN "idle_loop" ELSE @]
        /\ child' = child /\ ret' = ret /\ obj' = obj
    BY <1>26 DEF TimerInterrupt, WakeIdle, tids
  <2> QED
    BY <2>1 DEF CreateInv, TypeOK, At
<1>27. ASSUME NEW s \in Sema \ {IdleStarted}, DeviceInterrupt(s)
      PROVE  CreateInv'
  <2>1. /\ pc' = [pc EXCEPT ![Idle] = IF At(Idle, "idle_hlt") THEN "idle_loop" ELSE @]
        /\ child' = child /\ ret' = ret /\ obj' = obj
    BY <1>27 DEF DeviceInterrupt, WakeIdle, tids
  <2> QED
    BY <2>1 DEF CreateInv, TypeOK, At
<1>28. CASE UNCHANGED vars
  BY <1>28 DEF CreateInv, vars, sched, timer, synch, tids, locals
<1> QED
  BY <1>1, <1>2, <1>3, <1>4, <1>5, <1>6, <1>7, <1>8, <1>9, <1>10, <1>11, <1>12, <1>13, <1>14,
     <1>15, <1>16, <1>17, <1>18, <1>19, <1>20, <1>21, <1>22, <1>23, <1>24, <1>25, <1>26,
     <1>27, <1>28
     DEF Next, Call, Continue, IdleStep, Interrupt

\* Thread t is in possession of lock l.
Owns(t, l) == holder[l] = t \/ (Between(t) /\ obj[t] = l)

\* LockExclusion by owner instead of by set of owners, with HolderInv.
OwnerInv ==
    /\ \A l \in Lock : /\ \A t, u \in AllThread : Owns(t, l) /\ Owns(u, l) => t = u
                       /\ value[l] \in {0, 1}
                       /\ value[l] = 0 <=> \E t \in AllThread : Owns(t, l)
    /\ HolderInv

\* A step that keeps the owners and the values of the locks.
LEMMA OwnersKept ==
    ASSUME OwnerInv, HolderInv',
           \A l \in Lock : value'[l] = value[l],
           \A l \in Lock, x \in AllThread : Owns(x, l)' <=> Owns(x, l)
    PROVE  OwnerInv'
BY DEF OwnerInv

\* A step that leaves locks alone.
LEMMA OwnersFrame ==
    ASSUME OwnerInv, holder' = holder,
           \A l \in Lock : value'[l] = value[l],
           \A x \in AllThread : Between(x)' <=> Between(x),
           \A x \in AllThread : Between(x) => obj'[x] = obj[x]
    PROVE  OwnerInv'
<1>1. \A l \in Lock, x \in AllThread : Owns(x, l)' <=> Owns(x, l)
  BY DEF Owns
<1>2. HolderInv'
  BY DEF OwnerInv, HolderInv
<1> QED
  BY <1>1, <1>2, OwnersKept

\* sema_down takes the semaphore of a lock nobody owns.
LEMMA OwnerTakes ==
    ASSUME TypeOK, OwnerInv, NEW l \in Lock, NEW t \in AllThread, value[l] > 0,
           holder' = holder, value' = [value EXCEPT ![l] = @ - 1],
           Between(t)', obj'[t] = l, ~Between(t),
           \A x \in AllThread \ {t} : (Between(x)' <=> Between(x)) /\ obj'[x] = obj[x]
    PROVE  OwnerInv'
<1> USE KernelAssumption
<1>1. value[l] = 1 /\ \A x \in AllThread : ~Owns(x, l)
  BY DEF OwnerInv
<1>2. \A k \in Lock, x \in AllThread : Owns(x, k)' <=> Owns(x, k) \/ (x = t /\ k = l)
  BY <1>1 DEF Owns
<1>3. \A k \in Lock : value'[k] = IF k = l THEN 0 ELSE value[k]
  BY <1>1 DEF TypeOK, AllSema
<1>4. HolderInv'
  BY <1>1 DEF OwnerInv, HolderInv, Owns
<1> QED
  BY <1>1, <1>2, <1>3, <1>4 DEF OwnerInv

\* sema_up gives back the semaphore of a lock whose holder has been reset.
LEMMA OwnerGives ==
    ASSUME TypeOK, OwnerInv, NEW l \in Lock, NEW t \in AllThread, Between(t), obj[t] = l,
           holder' = holder, value' = [value EXCEPT ![l] = @ + 1],
           ~Between(t)',
           \A x \in AllThread \ {t} : (Between(x)' <=> Between(x)) /\ obj'[x] = obj[x]
    PROVE  OwnerInv'
<1> USE KernelAssumption
<1>1. /\ value[l] = 0 /\ Owns(t, l) /\ holder[l] # t
      /\ \A x \in AllThread : Owns(x, l) => x = t
  BY DEF OwnerInv, HolderInv, Owns
<1>2. \A k \in Lock, x \in AllThread : Owns(x, k)' <=> Owns(x, k) /\ ~(x = t /\ k = l)
  BY <1>1 DEF Owns
<1>3. \A k \in Lock : value'[k] = IF k = l THEN 1 ELSE value[k]
  BY <1>1 DEF TypeOK, AllSema
<1>4. HolderInv'
  BY <1>1 DEF OwnerInv, HolderInv, Owns
<1>5. ASSUME NEW k \in Lock, k # l
      PROVE  (\E x \in AllThread : Owns(x, k)') <=> (\E x \in AllThread : Owns(x, k))
  BY <1>2, <1>5
<1>6. \A x \in AllThread : ~Owns(x, l)'
  BY <1>1, <1>2
<1> QED
  BY <1>2, <1>3, <1>4, <1>5, <1>6 DEF OwnerInv

\* lock_release resets the holder of a lock the thread still owns.
LEMMA OwnerReleases ==
    ASSUME TypeOK, LocalsInv, OwnerInv, NEW l \in Lock, NEW t \in AllThread, NEW p,
           lock_release(t, l, p), ~Between(t), value' = value
    PROVE  OwnerInv'
<1> USE KernelAssumption
<1>1. /\ holder[l] = t /\ holder' = [holder EXCEPT ![l] = None]
      /\ pc' = [pc EXCEPT ![t] = "up"] /\ obj' = [obj EXCEPT ![t] = l]
  BY DEF lock_release, Goto
<1>2. Between(t)' /\ obj'[t] = l
  BY <1>1 DEF Between, TypeOK
<1>3. \A x \in AllThread \ {t} : (Between(x)' <=> Between(x)) /\ obj'[x] = obj[x]
  BY <1>1 DEF Between, TypeOK
<1>4. \A k \in Lock : holder'[k] = IF k = l THEN None ELSE holder[k]
  BY <1>1 DEF TypeOK
<1>5. t # None /\ \A x \in AllThread : x # None
  OBVIOUS
<1>6. ASSUME NEW x \in AllThread \ {t} PROVE ~Owns(x, l)
  BY <1>1 DEF OwnerInv, Owns
<1>7. \A k \in Lock, x \in AllThread : Owns(x, k)' <=> Owns(x, k)
  BY <1>1, <1>2, <1>3, <1>4, <1>5, <1>6 DEF Owns
<1>8. HolderInv'
  <2>1. \A x \in AllThread : Between(x) => obj[x] \in Lock
    BY DEF LocalsInv, Between
  <2> QED
    BY <1>2, <1>3, <1>4, <1>5, <2>1 DEF OwnerInv, HolderInv
<1> QED
  BY <1>7, <1>8, OwnersKept

\* sema_up on a semaphore that is not a lock's.
LEMMA SemaUpNoLock ==
    ASSUME TypeOK, NEW s, s \notin Lock, sema_up(s)
    PROVE  \A l \in Lock : value'[l] = value[l]
BY DEF sema_up, TypeOK, AllSema

\* Every step keeps the owners of the locks apart.
LEMMA OwnersPreserved ==
    ASSUME ControlInv, PageInv, OwnerInv, [Next]_vars
    PROVE  OwnerInv'
<1> USE KernelAssumption DEF ControlInv
<1>1. ASSUME NEW t \in AllThread, ThreadYield(t)
      PROVE  OwnerInv'
  <2>1. holder' = holder /\ \A l \in Lock : value'[l] = value[l]
    BY <1>1 DEF ThreadYield, synch
  <2>2. \A x \in AllThread : (Between(x)' <=> Between(x)) /\ (Between(x) => obj'[x] = obj[x])
    BY <1>1 DEF ThreadYield, Between, TypeOK, Calls, At, Goto, locals
  <2> QED
    BY <2>1, <2>2, OwnersFrame
<1>2. ASSUME NEW t \in AllThread, ThreadExit(t)
      PROVE  OwnerInv'
  <2>1. holder' = holder /\ \A l \in Lock : value'[l] = value[l]
    BY <1>2 DEF ThreadExit, synch
  <2>2. \A x \in AllThread : (Between(x)' <=> Between(x)) /\ (Between(x) => obj'[x] = obj[x])
    BY <1>2 DEF ThreadExit, Between, TypeOK, Calls, At, Goto, locals
  <2> QED
    BY <2>1, <2>2, OwnersFrame
<1>3. ASSUME NEW t \in AllThread, NEW n \in SleepTicks, TimerSleep(t, n)
      PROVE  OwnerInv'
  <2>1. holder' = holder /\ \A l \in Lock : value'[l] = value[l]
    BY <1>3 DEF TimerSleep, synch
  <2>2. \A x \in AllThread : (Between(x)' <=> Between(x)) /\ (Between(x) => obj'[x] = obj[x])
    BY <1>3 DEF TimerSleep, Between, TypeOK, Calls, At, Goto, locals
  <2> QED
    BY <2>1, <2>2, OwnersFrame
<1>4. ASSUME NEW t \in AllThread, NEW s \in Sema \ {IdleStarted}, CallSemaDown(t, s)
      PROVE  OwnerInv'
  <2>1. holder' = holder /\ \A l \in Lock : value'[l] = value[l]
    BY <1>4 DEF CallSemaDown, synch
  <2>2. \A x \in AllThread : (Between(x)' <=> Between(x)) /\ (Between(x) => obj'[x] = obj[x])
    BY <1>4 DEF CallSemaDown, Between, TypeOK, Calls, At, Goto, locals
  <2> QED
    BY <2>1, <2>2, OwnersFrame
<1>5. ASSUME NEW t \in AllThread, NEW s \in Sema \ {IdleStarted}, CallSemaUp(t, s)
      PROVE  OwnerInv'
  <2>1. /\ s \notin Lock /\ sema_up(s) /\ holder' = holder
    BY <1>5 DEF CallSemaUp, At, LocalsInv, AllThread
  <2>2. \A x \in AllThread : Between(x)' <=> Between(x)
    BY <1>5 DEF CallSemaUp, LocalsInv, Between, TypeOK, At, Goto, WakeIdle, locals
  <2>3. obj' = obj
    BY <1>5 DEF CallSemaUp, locals
  <2> QED
    BY <2>1, <2>2, <2>3, SemaUpNoLock, OwnersFrame
<1>6. ASSUME NEW t \in AllThread, NEW s \in Sema \ {IdleStarted}, SemaTryDown(t, s)
      PROVE  OwnerInv'
  <2>1. holder' = holder /\ \A l \in Lock : value'[l] = value[l]
    BY <1>6 DEF SemaTryDown, TypeOK, AllSema
  <2>2. \A x \in AllThread : (Between(x)' <=> Between(x)) /\ (Between(x) => obj'[x] = obj[x])
    BY <1>6 DEF SemaTryDown, Between, TypeOK, Calls, At, Goto, locals
  <2> QED
    BY <2>1, <2>2, OwnersFrame
<1>7. ASSUME NEW t \in AllThread, NEW l \in Lock \ {TidLock}, CallLockAcquire(t, l)
      PROVE  OwnerInv'
  <2>1. holder' = holder /\ \A k \in Lock : value'[k] = value[k]
    BY <1>7 DEF CallLockAcquire, synch
  <2>2. \A x \in AllThread : (Between(x)' <=> Between(x)) /\ (Between(x) => obj'[x] = obj[x])
    BY <1>7 DEF CallLockAcquire, lock_acquire, Between, TypeOK, Calls, At, Goto, locals
  <2> QED
    BY <2>1, <2>2, OwnersFrame
<1>8. ASSUME NEW t \in AllThread, NEW l \in Lock \ {TidLock}, LockTryAcquire(t, l)
      PROVE  OwnerInv'
  <2>1. /\ value[l] > 0 /\ value' = [value EXCEPT ![l] = @ - 1] /\ holder' = holder
        /\ pc[t] = "run" /\ pc' = [pc EXCEPT ![t] = "set_holder"] /\ obj' = [obj EXCEPT ![t] = l]
    BY <1>8 DEF LockTryAcquire, Calls, At, Goto
  <2>2. Between(t)' /\ obj'[t] = l /\ ~Between(t)
    BY <2>1 DEF Between, TypeOK
  <2>3. \A x \in AllThread \ {t} : (Between(x)' <=> Between(x)) /\ obj'[x] = obj[x]
    BY <2>1 DEF Between, TypeOK
  <2> QED
    BY <2>1, <2>2, <2>3, OwnerTakes
<1>9. ASSUME NEW t \in AllThread, NEW l \in Lock \ {TidLock}, CallLockRelease(t, l)
      PROVE  OwnerInv'
  <2>1. lock_release(t, l, "run") /\ value' = value /\ pc[t] = "run"
    BY <1>9 DEF CallLockRelease, Calls, At
  <2>2. ~Between(t)
    BY <2>1 DEF Between
  <2> QED
    BY <2>1, <2>2, OwnerReleases
<1>10. ASSUME NEW t \in AllThread, NEW c \in Cond, CondWait(t, c)
      PROVE  OwnerInv'
  <2>1. holder' = holder /\ \A l \in Lock : value'[l] = value[l]
    BY <1>10 DEF CondWait, TypeOK, AllSema
  <2>2. \A x \in AllThread : (Between(x)' <=> Between(x)) /\ (Between(x) => obj'[x] = obj[x])
    BY <1>10 DEF CondWait, Between, TypeOK, Calls, At, Goto, locals
  <2> QED
    BY <2>1, <2>2, OwnersFrame
<1>11. ASSUME NEW t \in AllThread, NEW c \in Cond, CondSignal(t, c)
      PROVE  OwnerInv'
  <2>1. holder' = holder /\ \A l \in Lock : value'[l] = value[l]
    BY <1>11 DEF CondSignal, synch
  <2>2. \A x \in AllThread : (Between(x)' <=> Between(x)) /\ (Between(x) => obj'[x] = obj[x])
    BY <1>11 DEF CondSignal, pop_waiter, Between, TypeOK, Calls, At, Goto, locals
  <2> QED
    BY <2>1, <2>2, OwnersFrame
<1>12. ASSUME NEW t \in AllThread, NEW c \in Cond, CondBroadcast(t, c)
      PROVE  OwnerInv'
  <2>1. holder' = holder /\ \A l \in Lock : value'[l] = value[l]
    BY <1>12 DEF CondBroadcast, synch
  <2>2. \A x \in AllThread : (Between(x)' <=> Between(x)) /\ (Between(x) => obj'[x] = obj[x])
    BY <1>12 DEF CondBroadcast, Between, TypeOK, Calls, At, Goto, locals
  <2> QED
    BY <2>1, <2>2, OwnersFrame
<1>13. ASSUME NEW t \in AllThread, NEW u \in Thread, ThreadCreate(t, u)
      PROVE  OwnerInv'
  <2>1. u \in AllThread /\ pc[u] = "run" /\ t # u /\ pc[t] = "run"
    BY <1>13 DEF ThreadCreate, Calls, At, PageInv, AllThread
  <2>2. /\ pc' = [pc EXCEPT ![u] = "new", ![t] = "down"] /\ value' = value
        /\ obj' = [obj EXCEPT ![t] = TidLock] /\ holder' = holder
    BY <1>13 DEF ThreadCreate, synch
  <2>3. pc'[u] = "new" /\ pc'[t] = "down" /\ \A x \in AllThread \ {t, u} : pc'[x] = pc[x]
    BY <2>1, <2>2 DEF TypeOK
  <2>4. \A x \in AllThread : Between(x)' <=> Between(x)
    BY <2>1, <2>3 DEF Between
  <2>5. \A x \in AllThread : Between(x) => obj'[x] = obj[x]
    BY <2>1, <2>2 DEF Between, TypeOK
  <2> QED
    BY <2>2, <2>4, <2>5, OwnersFrame
<1>14. ASSUME NEW t \in AllThread, SemaDown(t)
      PROVE  OwnerInv'
  <2>1. pc[t] = "down" /\ holder' = holder /\ ~Between(t)
    BY <1>14 DEF SemaDown, At, Between
  <2>2. CASE UNCHANGED <<value, locals>>
    BY <2>1, <2>2, OwnersFrame DEF locals, Between
  <2>3. CASE /\ value[obj[t]] > 0 /\ AfterDown(t, obj[t])
             /\ value' = [value EXCEPT ![obj[t]] = @ - 1]
    <3>1. \A x \in AllThread \ {t} : (Between(x)' <=> Between(x)) /\ obj'[x] = obj[x]
      BY <2>3 DEF AfterDown, Between, TypeOK
    <3>2. CASE obj[t] \in Lock
      <4>1. pc'[t] = "set_holder" /\ obj'[t] = obj[t]
        BY <2>3, <3>2 DEF AfterDown, TypeOK
      <4> QED
        BY <2>1, <2>3, <3>1, <3>2, <4>1, OwnerTakes DEF Between
    <3>3. CASE obj[t] \notin Lock
      <4>1. pc'[t] \in {"down", "run"}
        BY <2>3, <3>3 DEF AfterDown, TypeOK
      <4>2. \A l \in Lock : value'[l] = value[l]
        BY <2>3, <3>3 DEF TypeOK, AllSema
      <4>3. ~Between(t)'
        BY <4>1 DEF Between
      <4> QED
        BY <2>1, <3>1, <4>2, <4>3, OwnersFrame
    <3> QED
      BY <3>2, <3>3
  <2> QED
    BY <1>14, <2>2, <2>3 DEF SemaDown
<1>15. ASSUME NEW t \in AllThread, SetHolder(t)
      PROVE  OwnerInv'
  <2> DEFINE l == obj[t]
  <2>1. /\ l \in Lock /\ Between(t) /\ ret[t] \in {"run", "tid_read"}
        /\ holder' = [holder EXCEPT ![l] = t] /\ pc' = [pc EXCEPT ![t] = ret[t]]
        /\ obj' = obj /\ value' = value
    BY <1>15 DEF SetHolder, At, LocalsInv, Between, Goto
  <2>2. Owns(t, l) /\ \A x \in AllThread \ {t} : ~Owns(x, l)
    BY <2>1 DEF OwnerInv, Owns
  <2>3. ~Between(t)' /\ \A x \in AllThread \ {t} : Between(x)' <=> Between(x)
    BY <2>1 DEF Between, TypeOK
  <2>4. \A k \in Lock : holder'[k] = IF k = l THEN t ELSE holder[k]
    BY <2>1 DEF TypeOK
  <2> HIDE DEF l
  <2>5. obj[t] = l
    BY DEF l
  <2>6. \A k \in Lock, x \in AllThread : Owns(x, k)' <=> Owns(x, k)
    BY <2>1, <2>2, <2>3, <2>4, <2>5 DEF Owns
  <2>7. HolderInv'
    <3>1. ASSUME NEW x \in AllThread, Between(x)'
          PROVE  holder'[obj'[x]] # x
      <4>1. x # t /\ Between(x) /\ obj'[x] = obj[x] /\ obj[x] \in Lock
        BY <2>1, <2>3, <3>1 DEF LocalsInv, Between
      <4>2. obj[x] # l
        BY <2>2, <4>1 DEF Owns
      <4> QED
        BY <2>4, <4>1, <4>2 DEF OwnerInv, HolderInv
    <3> QED
      BY <3>1 DEF HolderInv
  <2> QED
    BY <2>1, <2>6, <2>7, OwnersKept
<1>16. ASSUME NEW t \in AllThread, LockUp(t)
      PROVE  OwnerInv'
  <2>1. /\ obj[t] \in Lock /\ pc[t] = "up" /\ ret[t] \in {"run", "down", "create"}
        /\ pc' = [pc EXCEPT ![t] = ret[t]] /\ value' = [value EXCEPT ![obj[t]] = @ + 1]
        /\ holder' = holder
    BY <1>16 DEF LockUp, At, Goto, LocalsInv, sema_up
  <2>2. \A x \in AllThread \ {t} : obj'[x] = obj[x]
    BY <1>16 DEF LockUp, TypeOK
  <2>3. Between(t) /\ ~Between(t)' /\ \A x \in AllThread \ {t} : Between(x)' <=> Between(x)
    BY <2>1 DEF Between, TypeOK
  <2> QED
    BY <2>1, <2>2, <2>3, OwnerGives
<1>17. ASSUME NEW t \in AllThread, CondWaitRelease(t)
      PROVE  OwnerInv'
  <2>1. lock_release(t, CondLock[cnd[t]], "down") /\ value' = value /\ pc[t] = "cw_release"
    BY <1>17 DEF CondWaitRelease, Calls, At
  <2>2. ~Between(t)
    BY <2>1 DEF Between
  <2> QED
    BY <2>1, <2>2, OwnerReleases DEF LocalsInv
<1>18. ASSUME NEW t \in AllThread, BroadcastStep(t)
      PROVE  OwnerInv'
  <2>1. holder' = holder /\ \A l \in Lock : value'[l] = value[l]
    BY <1>18 DEF BroadcastStep, synch
  <2>2. \A x \in AllThread : (Between(x)' <=> Between(x)) /\ (Between(x) => obj'[x] = obj[x])
    BY <1>18 DEF BroadcastStep, pop_waiter, Between, TypeOK, Calls, At, Goto, locals
  <2> QED
    BY <2>1, <2>2, OwnersFrame
<1>19. ASSUME NEW t \in AllThread, SignalUp(t)
      PROVE  OwnerInv'
  <2>1. /\ obj[t] \notin Lock /\ sema_up(obj[t]) /\ holder' = holder
    BY <1>19 DEF SignalUp, At, LocalsInv, AllThread
  <2>2. \A x \in AllThread : Between(x)' <=> Between(x)
    <3>1. pc[t] = "signal" /\ ret[t] \in {"run", "broadcast"} /\ pc' = [pc EXCEPT ![t] = ret[t]]
      BY <1>19 DEF SignalUp, LocalsInv, At, Goto
    <3> QED
      BY <3>1 DEF Between, TypeOK
  <2>3. obj' = obj
    BY <1>19 DEF SignalUp, locals
  <2> QED
    BY <2>1, <2>2, <2>3, SemaUpNoLock, OwnersFrame
<1>20. ASSUME NEW t \in AllThread, TidRead(t)
      PROVE  OwnerInv'
  <2>1. holder' = holder /\ \A l \in Lock : value'[l] = value[l]
    BY <1>20 DEF TidRead, synch
  <2>2. \A x \in AllThread : (Between(x)' <=> Between(x)) /\ (Between(x) => obj'[x] = obj[x])
    BY <1>20 DEF TidRead, Between, TypeOK, Calls, At, Goto, locals
  <2> QED
    BY <2>1, <2>2, OwnersFrame
<1>21. ASSUME NEW t \in AllThread, TidWrite(t)
      PROVE  OwnerInv'
  <2>1. lock_release(t, TidLock, "create") /\ value' = value /\ pc[t] = "tid_write"
    BY <1>21 DEF TidWrite, Calls, At
  <2>2. ~Between(t)
    BY <2>1 DEF Between
  <2> QED
    BY <2>1, <2>2, OwnerReleases
<1>22. ASSUME NEW t \in AllThread, CreateUnblock(t)
      PROVE  OwnerInv'
  <2>1. pc[t] = "create" /\ child[t] \in AllThread /\ child[t] # None
    BY <1>22 DEF CreateUnblock, At, LocalsInv, AllThread
  <2>2. pc[child[t]] = "new"
    BY <2>1 DEF PageInv
  <2>3. /\ pc' = [pc EXCEPT ![child[t]] = "run", ![t] = "run"] /\ value' = value
        /\ obj' = obj /\ holder' = holder
    BY <1>22 DEF CreateUnblock, synch
  <2>4. \A x \in AllThread : Between(x)' <=> Between(x)
    BY <2>1, <2>2, <2>3 DEF Between, TypeOK
  <2> QED
    BY <2>3, <2>4, OwnersFrame
<1>23. ASSUME IdleStart
      PROVE  OwnerInv'
  <2>1. holder' = holder /\ \A l \in Lock : value'[l] = value[l]
    BY <1>23 DEF IdleStart, synch
  <2>2. \A x \in AllThread : (Between(x)' <=> Between(x)) /\ (Between(x) => obj'[x] = obj[x])
    BY <1>23 DEF IdleStart, Between, TypeOK, Calls, At, Goto, locals
  <2> QED
    BY <2>1, <2>2, OwnersFrame
<1>24. ASSUME IdleUp
      PROVE  OwnerInv'
  <2>1. /\ IdleStarted \notin Lock /\ sema_up(IdleStarted) /\ holder' = holder
    BY <1>24 DEF IdleUp, At, LocalsInv, AllThread
  <2>2. \A x \in AllThread : Between(x)' <=> Between(x)
    BY <1>24 DEF IdleUp, LocalsInv, Between, TypeOK, At, Goto, WakeIdle, locals
  <2>3. obj' = obj
    BY <1>24 DEF IdleUp, locals
  <2> QED
    BY <2>1, <2>2, <2>3, SemaUpNoLock, OwnersFrame
<1>25. ASSUME IdleLoop
      PROVE  OwnerInv'
  <2>1. holder' = holder /\ \A l \in Lock : value'[l] = value[l]
    BY <1>25 DEF IdleLoop, synch
  <2>2. \A x \in AllThread : (Between(x)' <=> Between(x)) /\ (Between(x) => obj'[x] = obj[x])
    BY <1>25 DEF IdleLoop, Between, TypeOK, Calls, At, Goto, locals
  <2> QED
    BY <2>1, <2>2, OwnersFrame
<1>26. ASSUME TimerInterrupt
      PROVE  OwnerInv'
  <2>1. holder' = holder /\ \A l \in Lock : value'[l] = value[l]
    BY <1>26 DEF TimerInterrupt, synch
  <2>2. \A x \in AllThread : (Between(x)' <=> Between(x)) /\ (Between(x) => obj'[x] = obj[x])
    BY <1>26 DEF TimerInterrupt, WakeIdle, Between, TypeOK, Calls, At, Goto, locals
  <2> QED
    BY <2>1, <2>2, OwnersFrame
<1>27. ASSUME NEW s \in Sema \ {IdleStarted}, DeviceInterrupt(s)
      PROVE  OwnerInv'
  <2>1. /\ s \notin Lock /\ sema_up(s) /\ holder' = holder
    BY <1>27 DEF DeviceInterrupt, At, LocalsInv, AllThread
  <2>2. \A x \in AllThread : Between(x)' <=> Between(x)
    BY <1>27 DEF DeviceInterrupt, LocalsInv, Between, TypeOK, At, Goto, WakeIdle, locals
  <2>3. obj' = obj
    BY <1>27 DEF DeviceInterrupt, locals
  <2> QED
    BY <2>1, <2>2, <2>3, SemaUpNoLock, OwnersFrame
<1>28. CASE UNCHANGED vars
  BY <1>28 DEF OwnerInv, HolderInv, Owns, Between, vars, sched, timer, synch, tids, locals
<1> QED
  BY <1>1, <1>2, <1>3, <1>4, <1>5, <1>6, <1>7, <1>8, <1>9, <1>10, <1>11, <1>12, <1>13, <1>14,
     <1>15, <1>16, <1>17, <1>18, <1>19, <1>20, <1>21, <1>22, <1>23, <1>24, <1>25, <1>26,
     <1>27, <1>28
     DEF Next, Call, Continue, IdleStep, Interrupt


\* The inductive invariant behind mutual exclusion.
LockInv == ControlInv /\ PageInv /\ CreateInv /\ OwnerInv

LEMMA LockInvariant == Spec => []LockInv
<1>1. Init => PageInv /\ CreateInv /\ OwnerInv
  <2> SUFFICES ASSUME Init PROVE PageInv /\ CreateInv /\ OwnerInv
    OBVIOUS
  <2> USE KernelAssumption
  <2>1. PageInv
    BY DEF Init, PageInv, AllThread
  <2>2. CreateInv
    BY DEF Init, CreateInv, AllThread
  <2>3. \A x \in AllThread : ~Between(x) /\ \A l \in Lock : ~Owns(x, l)
    BY DEF Init, Between, Owns, AllThread
  <2>4. OwnerInv
    BY <2>3 DEF Init, OwnerInv, HolderInv, AllSema
  <2> QED
    BY <2>1, <2>2, <2>4
<1>2. LockInv /\ [Next]_vars => (PageInv /\ CreateInv /\ OwnerInv)'
  BY PagePreserved, CreatePreserved, OwnersPreserved DEF LockInv
<1> QED
  BY <1>1, <1>2, ControlInvariant, PTL DEF Spec, LockInv

\* synch.c's locks exclude: between the sema_down of lock_acquire and the sema_up
\* of lock_release one thread at a time is in possession of a lock, although
\* holder is set and reset with interrupts on, and the semaphore is 1 exactly
\* while nobody is.
THEOREM LocksExclude == Spec => []LockExclusion
<1>1. LockInv => LockExclusion
  <2> SUFFICES ASSUME LockInv, NEW l \in Lock
               PROVE  /\ \A t, u \in Owners(l) : t = u
                      /\ value[l] = IF Owners(l) = {} THEN 1 ELSE 0
    BY DEF LockExclusion
  <2>1. \A t \in AllThread : t \in Owners(l) <=> Owns(t, l)
    BY DEF Owners, Owns, Between
  <2>2. Owners(l) \subseteq AllThread
    BY DEF Owners
  <2>3. /\ \A t, u \in AllThread : Owns(t, l) /\ Owns(u, l) => t = u
        /\ value[l] \in {0, 1}
        /\ value[l] = 0 <=> \E t \in AllThread : Owns(t, l)
    BY DEF LockInv, OwnerInv
  <2> QED
    BY <2>1, <2>2, <2>3
<1> QED
  BY <1>1, LockInvariant, PTL

\* A step that hands out no tid and moves nobody into allocate_tid.
LEMMA TidFrame ==
    ASSUME TidInv, tid' = tid, next_tid' = next_tid, tmp' = tmp,
           \A x \in AllThread : /\ pc'[x] = "tid_read" => pc[x] = "tid_read"
                                /\ pc'[x] = "tid_write" => pc[x] = "tid_write",
           \A x \in AllThread :
               pc'[x] \in {"tid_read", "tid_write"} => holder'[TidLock] = holder[TidLock]
    PROVE  TidInv'
BY DEF TidInv

\* allocate_tid reads and stores next_tid while it owns tid_lock.
LEMMA TidsPreserved ==
    ASSUME ControlInv, PageInv, CreateInv, OwnerInv, TidInv, [Next]_vars
    PROVE  TidInv'
<1> USE KernelAssumption DEF ControlInv
<1>1. ASSUME NEW t \in AllThread, ThreadYield(t)
      PROVE  TidInv'
  <2>1. /\ tid' = tid /\ next_tid' = next_tid /\ tmp' = tmp /\ holder'[TidLock] = holder[TidLock]
    BY <1>1 DEF ThreadYield, synch, tids
  <2>2. \A x \in AllThread : /\ pc'[x] = "tid_read" => pc[x] = "tid_read"
                             /\ pc'[x] = "tid_write" => pc[x] = "tid_write"
    BY <1>1 DEF ThreadYield, TypeOK, Calls, At, Goto, locals, synch, tids
  <2> QED
    BY <2>1, <2>2, TidFrame
<1>2. ASSUME NEW t \in AllThread, ThreadExit(t)
      PROVE  TidInv'
  <2>1. /\ tid' = tid /\ next_tid' = next_tid /\ tmp' = tmp /\ holder'[TidLock] = holder[TidLock]
    BY <1>2 DEF ThreadExit, synch, tids
  <2>2. \A x \in AllThread : /\ pc'[x] = "tid_read" => pc[x] = "tid_read"
                             /\ pc'[x] = "tid_write" => pc[x] = "tid_write"
    BY <1>2 DEF ThreadExit, TypeOK, Calls, At, Goto, locals, synch, tids
  <2> QED
    BY <2>1, <2>2, TidFrame
<1>3. ASSUME NEW t \in AllThread, NEW n \in SleepTicks, TimerSleep(t, n)
      PROVE  TidInv'
  <2>1. /\ tid' = tid /\ next_tid' = next_tid /\ tmp' = tmp /\ holder'[TidLock] = holder[TidLock]
    BY <1>3 DEF TimerSleep, synch, tids
  <2>2. \A x \in AllThread : /\ pc'[x] = "tid_read" => pc[x] = "tid_read"
                             /\ pc'[x] = "tid_write" => pc[x] = "tid_write"
    BY <1>3 DEF TimerSleep, TypeOK, Calls, At, Goto, locals, synch, tids
  <2> QED
    BY <2>1, <2>2, TidFrame
<1>4. ASSUME NEW t \in AllThread, NEW s \in Sema \ {IdleStarted}, CallSemaDown(t, s)
      PROVE  TidInv'
  <2>1. /\ tid' = tid /\ next_tid' = next_tid /\ tmp' = tmp /\ holder'[TidLock] = holder[TidLock]
    BY <1>4 DEF CallSemaDown, synch, tids
  <2>2. \A x \in AllThread : /\ pc'[x] = "tid_read" => pc[x] = "tid_read"
                             /\ pc'[x] = "tid_write" => pc[x] = "tid_write"
    BY <1>4 DEF CallSemaDown, TypeOK, Calls, At, Goto, locals, synch, tids
  <2> QED
    BY <2>1, <2>2, TidFrame
<1>5. ASSUME NEW t \in AllThread, NEW s \in Sema \ {IdleStarted}, CallSemaUp(t, s)
      PROVE  TidInv'
  <2>1. /\ tid' = tid /\ next_tid' = next_tid /\ tmp' = tmp /\ holder'[TidLock] = holder[TidLock]
    BY <1>5 DEF CallSemaUp, synch, tids
  <2>2. \A x \in AllThread : /\ pc'[x] = "tid_read" => pc[x] = "tid_read"
                             /\ pc'[x] = "tid_write" => pc[x] = "tid_write"
    BY <1>5 DEF CallSemaUp, TypeOK, Calls, At, Goto, locals, synch, tids
  <2> QED
    BY <2>1, <2>2, TidFrame
<1>6. ASSUME NEW t \in AllThread, NEW s \in Sema \ {IdleStarted}, SemaTryDown(t, s)
      PROVE  TidInv'
  <2>1. /\ tid' = tid /\ next_tid' = next_tid /\ tmp' = tmp /\ holder'[TidLock] = holder[TidLock]
    BY <1>6 DEF SemaTryDown, synch, tids
  <2>2. \A x \in AllThread : /\ pc'[x] = "tid_read" => pc[x] = "tid_read"
                             /\ pc'[x] = "tid_write" => pc[x] = "tid_write"
    BY <1>6 DEF SemaTryDown, TypeOK, Calls, At, Goto, locals, synch, tids
  <2> QED
    BY <2>1, <2>2, TidFrame
<1>7. ASSUME NEW t \in AllThread, NEW l \in Lock \ {TidLock}, CallLockAcquire(t, l)
      PROVE  TidInv'
  <2>1. /\ tid' = tid /\ next_tid' = next_tid /\ tmp' = tmp /\ holder'[TidLock] = holder[TidLock]
    BY <1>7 DEF CallLockAcquire, lock_acquire, synch, tids
  <2>2. \A x \in AllThread : /\ pc'[x] = "tid_read" => pc[x] = "tid_read"
                             /\ pc'[x] = "tid_write" => pc[x] = "tid_write"
    BY <1>7 DEF CallLockAcquire, lock_acquire, TypeOK, Calls, At, Goto, locals, synch, tids
  <2> QED
    BY <2>1, <2>2, TidFrame
<1>8. ASSUME NEW t \in AllThread, NEW l \in Lock \ {TidLock}, LockTryAcquire(t, l)
      PROVE  TidInv'
  <2>1. /\ tid' = tid /\ next_tid' = next_tid /\ tmp' = tmp /\ holder'[TidLock] = holder[TidLock]
    BY <1>8 DEF LockTryAcquire, synch, tids
  <2>2. \A x \in AllThread : /\ pc'[x] = "tid_read" => pc[x] = "tid_read"
                             /\ pc'[x] = "tid_write" => pc[x] = "tid_write"
    BY <1>8 DEF LockTryAcquire, TypeOK, Calls, At, Goto, locals, synch, tids
  <2> QED
    BY <2>1, <2>2, TidFrame
<1>9. ASSUME NEW t \in AllThread, NEW l \in Lock \ {TidLock}, CallLockRelease(t, l)
      PROVE  TidInv'
  <2>1. /\ tid' = tid /\ next_tid' = next_tid /\ tmp' = tmp /\ holder'[TidLock] = holder[TidLock]
    BY <1>9 DEF CallLockRelease, lock_release, synch, tids, TypeOK, LocalsInv, At
  <2>2. \A x \in AllThread : /\ pc'[x] = "tid_read" => pc[x] = "tid_read"
                             /\ pc'[x] = "tid_write" => pc[x] = "tid_write"
    BY <1>9 DEF CallLockRelease, lock_release, TypeOK, Calls, At, Goto, locals, synch, tids
  <2> QED
    BY <2>1, <2>2, TidFrame
<1>10. ASSUME NEW t \in AllThread, NEW c \in Cond, CondWait(t, c)
      PROVE  TidInv'
  <2>1. /\ tid' = tid /\ next_tid' = next_tid /\ tmp' = tmp /\ holder'[TidLock] = holder[TidLock]
    BY <1>10 DEF CondWait, synch, tids
  <2>2. \A x \in AllThread : /\ pc'[x] = "tid_read" => pc[x] = "tid_read"
                             /\ pc'[x] = "tid_write" => pc[x] = "tid_write"
    BY <1>10 DEF CondWait, TypeOK, Calls, At, Goto, locals, synch, tids
  <2> QED
    BY <2>1, <2>2, TidFrame
<1>11. ASSUME NEW t \in AllThread, NEW c \in Cond, CondSignal(t, c)
      PROVE  TidInv'
  <2>1. /\ tid' = tid /\ next_tid' = next_tid /\ tmp' = tmp /\ holder'[TidLock] = holder[TidLock]
    BY <1>11 DEF CondSignal, pop_waiter, synch, tids
  <2>2. \A x \in AllThread : /\ pc'[x] = "tid_read" => pc[x] = "tid_read"
                             /\ pc'[x] = "tid_write" => pc[x] = "tid_write"
    BY <1>11 DEF CondSignal, pop_waiter, TypeOK, Calls, At, Goto, locals, synch, tids
  <2> QED
    BY <2>1, <2>2, TidFrame
<1>12. ASSUME NEW t \in AllThread, NEW c \in Cond, CondBroadcast(t, c)
      PROVE  TidInv'
  <2>1. /\ tid' = tid /\ next_tid' = next_tid /\ tmp' = tmp /\ holder'[TidLock] = holder[TidLock]
    BY <1>12 DEF CondBroadcast, synch, tids
  <2>2. \A x \in AllThread : /\ pc'[x] = "tid_read" => pc[x] = "tid_read"
                             /\ pc'[x] = "tid_write" => pc[x] = "tid_write"
    BY <1>12 DEF CondBroadcast, TypeOK, Calls, At, Goto, locals, synch, tids
  <2> QED
    BY <2>1, <2>2, TidFrame
<1>13. ASSUME NEW t \in AllThread, NEW u \in Thread, ThreadCreate(t, u)
      PROVE  TidInv'
  <2>1. u \in AllThread /\ pc[u] = "run" /\ t # u /\ pc[t] = "run"
    BY <1>13 DEF ThreadCreate, Calls, At, PageInv, AllThread
  <2>2. /\ pc' = [pc EXCEPT ![u] = "new", ![t] = "down"] /\ holder' = holder
        /\ tid' = [tid EXCEPT ![u] = 0] /\ next_tid' = next_tid /\ tmp' = tmp
    BY <1>13 DEF ThreadCreate, synch
  <2>3. pc'[u] = "new" /\ pc'[t] = "down" /\ \A x \in AllThread \ {t, u} : pc'[x] = pc[x]
    BY <2>1, <2>2 DEF TypeOK
  <2>4. \A x \in AllThread : tid'[x] = IF x = u THEN 0 ELSE tid[x]
    BY <2>1, <2>2 DEF TypeOK
  <2>5. \A x \in AllThread : tid'[x] < next_tid'
    <3>1. tid[u] < next_tid /\ tid[u] \in Nat /\ next_tid \in Nat
      BY <2>1 DEF TidInv, TypeOK
    <3> QED
      BY <2>2, <2>4, <3>1 DEF TidInv
  <2>6. \A x, y \in AllThread : tid'[x] = tid'[y] /\ tid'[x] # 0 => x = y
    BY <2>4 DEF TidInv
  <2> QED
    BY <2>2, <2>3, <2>5, <2>6 DEF TidInv
<1>14. ASSUME NEW t \in AllThread, SemaDown(t)
      PROVE  TidInv'
  <2>1. /\ tid' = tid /\ next_tid' = next_tid /\ tmp' = tmp /\ holder'[TidLock] = holder[TidLock]
    BY <1>14 DEF SemaDown, AfterDown, synch, tids
  <2>2. \A x \in AllThread : /\ pc'[x] = "tid_read" => pc[x] = "tid_read"
                             /\ pc'[x] = "tid_write" => pc[x] = "tid_write"
    <3>1. CASE pc' = pc
      BY <3>1
    <3>2. CASE AfterDown(t, obj[t])
      <4>1. PICK l \in {"down", "set_holder", "run"} : pc' = [pc EXCEPT ![t] = l]
        BY <3>2 DEF AfterDown
      <4> QED
        BY <4>1 DEF TypeOK
    <3> QED
      BY <1>14, <3>1, <3>2 DEF SemaDown, locals
  <2> QED
    BY <2>1, <2>2, TidFrame
<1>15. ASSUME NEW t \in AllThread, SetHolder(t)
      PROVE  TidInv'
  <2>1. /\ obj[t] \in Lock /\ pc[t] = "set_holder" /\ ret[t] \in {"run", "tid_read"}
        /\ ret[t] = "tid_read" => obj[t] = TidLock
        /\ holder' = [holder EXCEPT ![obj[t]] = t] /\ pc' = [pc EXCEPT ![t] = ret[t]]
        /\ tid' = tid /\ next_tid' = next_tid /\ tmp' = tmp
    BY <1>15 DEF SetHolder, At, LocalsInv, CreateInv, Goto, tids
  <2>2. \A x \in AllThread \ {t} : pc'[x] = pc[x]
    BY <2>1 DEF TypeOK
  <2>3. pc'[t] = ret[t] /\ pc'[t] # "tid_write" /\ (pc'[t] = "tid_read" => holder'[TidLock] = t)
    BY <2>1 DEF TypeOK
  <2>4. ASSUME NEW x \in AllThread \ {t}, pc[x] \in {"tid_read", "tid_write"}
        PROVE  holder'[TidLock] = x
    <3>1. holder[TidLock] = x
      BY <2>4 DEF TidInv
    <3>2. obj[t] # TidLock
      BY <2>1, <2>4, <3>1 DEF OwnerInv, Owns, Between
    <3> QED
      BY <2>1, <3>1, <3>2 DEF TypeOK
  <2>5. /\ \A x \in AllThread : pc'[x] \in {"tid_read", "tid_write"} => holder'[TidLock] = x
        /\ \A x \in AllThread : pc'[x] = "tid_write" => tmp'[x] = next_tid'
    BY <2>1, <2>2, <2>3, <2>4 DEF TidInv
  <2> QED
    BY <2>1, <2>5 DEF TidInv
<1>16. ASSUME NEW t \in AllThread, LockUp(t)
      PROVE  TidInv'
  <2>1. /\ tid' = tid /\ next_tid' = next_tid /\ tmp' = tmp /\ holder'[TidLock] = holder[TidLock]
    BY <1>16 DEF LockUp, synch, tids
  <2>2. \A x \in AllThread : /\ pc'[x] = "tid_read" => pc[x] = "tid_read"
                             /\ pc'[x] = "tid_write" => pc[x] = "tid_write"
    BY <1>16 DEF LockUp, TypeOK, Calls, At, Goto, locals, synch, tids, LocalsInv
  <2> QED
    BY <2>1, <2>2, TidFrame
<1>17. ASSUME NEW t \in AllThread, CondWaitRelease(t)
      PROVE  TidInv'
  <2>1. /\ tid' = tid /\ next_tid' = next_tid /\ tmp' = tmp /\ holder'[TidLock] = holder[TidLock]
    BY <1>17 DEF CondWaitRelease, lock_release, synch, tids, TypeOK, LocalsInv, At
  <2>2. \A x \in AllThread : /\ pc'[x] = "tid_read" => pc[x] = "tid_read"
                             /\ pc'[x] = "tid_write" => pc[x] = "tid_write"
    BY <1>17 DEF CondWaitRelease, lock_release, TypeOK, Calls, At, Goto, locals, synch, tids,
       LocalsInv
  <2> QED
    BY <2>1, <2>2, TidFrame
<1>18. ASSUME NEW t \in AllThread, BroadcastStep(t)
      PROVE  TidInv'
  <2>1. /\ tid' = tid /\ next_tid' = next_tid /\ tmp' = tmp /\ holder'[TidLock] = holder[TidLock]
    BY <1>18 DEF BroadcastStep, pop_waiter, synch, tids
  <2>2. \A x \in AllThread : /\ pc'[x] = "tid_read" => pc[x] = "tid_read"
                             /\ pc'[x] = "tid_write" => pc[x] = "tid_write"
    BY <1>18 DEF BroadcastStep, pop_waiter, TypeOK, Calls, At, Goto, locals, synch, tids,
       LocalsInv
  <2> QED
    BY <2>1, <2>2, TidFrame
<1>19. ASSUME NEW t \in AllThread, SignalUp(t)
      PROVE  TidInv'
  <2>1. /\ tid' = tid /\ next_tid' = next_tid /\ tmp' = tmp /\ holder'[TidLock] = holder[TidLock]
    BY <1>19 DEF SignalUp, synch, tids
  <2>2. \A x \in AllThread : /\ pc'[x] = "tid_read" => pc[x] = "tid_read"
                             /\ pc'[x] = "tid_write" => pc[x] = "tid_write"
    <3>1. ret[t] \in {"run", "broadcast"} /\ pc' = [pc EXCEPT ![t] = ret[t]]
      BY <1>19 DEF SignalUp, LocalsInv, At, Goto
    <3> QED
      BY <3>1 DEF TypeOK
  <2> QED
    BY <2>1, <2>2, TidFrame
<1>20. ASSUME NEW t \in AllThread, TidRead(t)
      PROVE  TidInv'
  <2>1. /\ pc[t] = "tid_read" /\ pc' = [pc EXCEPT ![t] = "tid_write"] /\ holder' = holder
        /\ tmp' = [tmp EXCEPT ![t] = next_tid] /\ tid' = tid /\ next_tid' = next_tid
    BY <1>20 DEF TidRead, At, Goto, synch
  <2>2. pc'[t] = "tid_write" /\ tmp'[t] = next_tid
    BY <2>1 DEF TypeOK
  <2>3. \A x \in AllThread \ {t} : pc'[x] = pc[x] /\ tmp'[x] = tmp[x]
    BY <2>1 DEF TypeOK
  <2> QED
    BY <2>1, <2>2, <2>3 DEF TidInv
<1>21. ASSUME NEW t \in AllThread, TidWrite(t)
      PROVE  TidInv'
  <2>1. /\ pc[t] = "tid_write" /\ pc' = [pc EXCEPT ![t] = "up"] /\ tmp' = tmp
        /\ next_tid' = tmp[t] + 1 /\ tid' = [tid EXCEPT ![child[t]] = tmp[t]]
    BY <1>21 DEF TidWrite, At, Goto, lock_release
  <2>2. /\ child[t] \in AllThread /\ tmp[t] = next_tid /\ holder[TidLock] = t
        /\ next_tid \in Nat
    BY <2>1 DEF LocalsInv, TidInv, AllThread, TypeOK
  <2>3. \A x \in AllThread : tid'[x] = IF x = child[t] THEN next_tid ELSE tid[x]
    BY <2>1, <2>2 DEF TypeOK
  <2>4. \A x \in AllThread : tid[x] \in Nat /\ tid[x] < next_tid
    BY DEF TidInv, TypeOK
  <2>5. \A x \in AllThread : tid'[x] < next_tid'
    BY <2>1, <2>2, <2>3, <2>4
  <2>6. \A x, y \in AllThread : tid'[x] = tid'[y] /\ tid'[x] # 0 => x = y
    BY <2>2, <2>3, <2>4 DEF TidInv
  <2>7. \A x \in AllThread : pc'[x] \notin {"tid_read", "tid_write"}
    <3>1. \A x \in AllThread \ {t} : pc[x] \notin {"tid_read", "tid_write"}
      BY <2>2 DEF TidInv
    <3>2. pc'[t] = "up" /\ \A x \in AllThread \ {t} : pc'[x] = pc[x]
      BY <2>1 DEF TypeOK
    <3> QED
      BY <3>1, <3>2
  <2> QED
    BY <2>5, <2>6, <2>7 DEF TidInv
<1>22. ASSUME NEW t \in AllThread, CreateUnblock(t)
      PROVE  TidInv'
  <2>1. child[t] \in AllThread /\ holder' = holder /\ tid' = tid /\ next_tid' = next_tid /\ tmp' = tmp
    BY <1>22 DEF CreateUnblock, At, LocalsInv, AllThread, synch
  <2>2. \A x \in AllThread : pc'[x] = pc[x] \/ pc'[x] = "run"
    BY <1>22, <2>1 DEF CreateUnblock, TypeOK
  <2> QED
    BY <2>1, <2>2, TidFrame
<1>23. ASSUME IdleStart
      PROVE  TidInv'
  <2>1. /\ tid' = tid /\ next_tid' = next_tid /\ tmp' = tmp /\ holder'[TidLock] = holder[TidLock]
    BY <1>23 DEF IdleStart, synch, tids
  <2>2. \A x \in AllThread : /\ pc'[x] = "tid_read" => pc[x] = "tid_read"
                             /\ pc'[x] = "tid_write" => pc[x] = "tid_write"
    BY <1>23 DEF IdleStart, TypeOK, Calls, At, Goto, locals, synch, tids
  <2> QED
    BY <2>1, <2>2, TidFrame
<1>24. ASSUME IdleUp
      PROVE  TidInv'
  <2>1. /\ tid' = tid /\ next_tid' = next_tid /\ tmp' = tmp /\ holder'[TidLock] = holder[TidLock]
    BY <1>24 DEF IdleUp, synch, tids
  <2>2. \A x \in AllThread : /\ pc'[x] = "tid_read" => pc[x] = "tid_read"
                             /\ pc'[x] = "tid_write" => pc[x] = "tid_write"
    BY <1>24 DEF IdleUp, TypeOK, Calls, At, Goto, locals, synch, tids
  <2> QED
    BY <2>1, <2>2, TidFrame
<1>25. ASSUME IdleLoop
      PROVE  TidInv'
  <2>1. /\ tid' = tid /\ next_tid' = next_tid /\ tmp' = tmp /\ holder'[TidLock] = holder[TidLock]
    BY <1>25 DEF IdleLoop, synch, tids
  <2>2. \A x \in AllThread : /\ pc'[x] = "tid_read" => pc[x] = "tid_read"
                             /\ pc'[x] = "tid_write" => pc[x] = "tid_write"
    BY <1>25 DEF IdleLoop, TypeOK, Calls, At, Goto, locals, synch, tids
  <2> QED
    BY <2>1, <2>2, TidFrame
<1>26. ASSUME TimerInterrupt
      PROVE  TidInv'
  <2>1. /\ tid' = tid /\ next_tid' = next_tid /\ tmp' = tmp /\ holder'[TidLock] = holder[TidLock]
    BY <1>26 DEF TimerInterrupt, WakeIdle, synch, tids
  <2>2. \A x \in AllThread : /\ pc'[x] = "tid_read" => pc[x] = "tid_read"
                             /\ pc'[x] = "tid_write" => pc[x] = "tid_write"
    BY <1>26 DEF TimerInterrupt, WakeIdle, TypeOK, Calls, At, Goto, locals, synch, tids
  <2> QED
    BY <2>1, <2>2, TidFrame
<1>27. ASSUME NEW s \in Sema \ {IdleStarted}, DeviceInterrupt(s)
      PROVE  TidInv'
  <2>1. /\ tid' = tid /\ next_tid' = next_tid /\ tmp' = tmp /\ holder'[TidLock] = holder[TidLock]
    BY <1>27 DEF DeviceInterrupt, WakeIdle, synch, tids
  <2>2. \A x \in AllThread : /\ pc'[x] = "tid_read" => pc[x] = "tid_read"
                             /\ pc'[x] = "tid_write" => pc[x] = "tid_write"
    BY <1>27 DEF DeviceInterrupt, WakeIdle, TypeOK, Calls, At, Goto, locals, synch, tids
  <2> QED
    BY <2>1, <2>2, TidFrame
<1>28. CASE UNCHANGED vars
  BY <1>28 DEF TidInv, vars, sched, timer, synch, tids, locals
<1> QED
  BY <1>1, <1>2, <1>3, <1>4, <1>5, <1>6, <1>7, <1>8, <1>9, <1>10, <1>11, <1>12, <1>13, <1>14,
     <1>15, <1>16, <1>17, <1>18, <1>19, <1>20, <1>21, <1>22, <1>23, <1>24, <1>25, <1>26,
     <1>27, <1>28
     DEF Next, Call, Continue, IdleStep, Interrupt

\* allocate_tid () hands out each tid once, although next_tid++ is two steps that
\* interrupts can separate: no two living threads have the same tid.
THEOREM TidsUnique == Spec => []UniqueTids
<1>1. Init => TidInv
  BY KernelAssumption DEF Init, TidInv, AllThread
<1>2. LockInv /\ TidInv /\ [Next]_vars => TidInv'
  BY TidsPreserved DEF LockInv
<1>3. TidInv => UniqueTids
  BY DEF TidInv, UniqueTids
<1> QED
  BY <1>1, <1>2, <1>3, LockInvariant, PTL DEF Spec

\* A waiter that is still in cond_wait and has not been signalled.
Unsignalled(w) == InCondWait(w) /\ value[w] = 0

\* Waiter w is at place i of the list of condition variable c.
WaiterAt(c, i, w) == i \in 1..Len(cond_waiters[c]) /\ cond_waiters[c][i] = w

\* Every waiter that cond_signal can reach is unsignalled, and can be reached in
\* one way only: from one place of one list, or by the one thread that popped it.
WaiterInv ==
    /\ \A c \in Cond, i \in Nat, w \in AllThread : WaiterAt(c, i, w) => Unsignalled(w)
    /\ \A t \in AllThread : pc[t] = "signal" => Unsignalled(obj[t])
    /\ \A c, d \in Cond, i, j \in Nat, w \in AllThread :
          WaiterAt(c, i, w) /\ WaiterAt(d, j, w) => c = d /\ i = j
    /\ \A t \in AllThread, c \in Cond, i \in Nat : pc[t] = "signal" => ~WaiterAt(c, i, obj[t])
    /\ PopInv

\* A step that signals nobody.
LEMMA WaiterFrame ==
    ASSUME TypeOK, LocalsInv, WaiterInv, cond_waiters' = cond_waiters,
           \A w \in AllThread : Unsignalled(w) => Unsignalled(w)',
           \A x \in AllThread : pc'[x] = "signal" => pc[x] = "signal" /\ obj'[x] = obj[x]
    PROVE  WaiterInv'
<1>1. \A c, i, w : WaiterAt(c, i, w)' <=> WaiterAt(c, i, w)
  BY DEF WaiterAt
<1>2. \A t \in AllThread : pc'[t] = "signal" => Unsignalled(obj[t])'
  <2> SUFFICES ASSUME NEW t \in AllThread, pc'[t] = "signal"
               PROVE  Unsignalled(obj[t])'
    OBVIOUS
  <2>1. PICK w \in AllThread : w = obj[t] /\ w = obj'[t] /\ pc[t] = "signal"
    BY DEF LocalsInv
  <2>2. Unsignalled(w)'
    BY <2>1 DEF WaiterInv
  <2> QED
    BY <2>1, <2>2 DEF Unsignalled, InCondWait
<1>3. PopInv'
  BY DEF WaiterInv, PopInv
<1>4. \A t \in AllThread, c \in Cond, i \in Nat : pc'[t] = "signal" => ~WaiterAt(c, i, obj[t])'
  BY DEF WaiterInv, WaiterAt
<1> QED
  BY <1>1, <1>2, <1>3, <1>4 DEF WaiterInv

\* cond_signal and cond_broadcast pop the first waiter.
LEMMA PopKeepsWaiters ==
    ASSUME TypeOK, LocalsInv, WaiterInv, NEW t \in AllThread, NEW c \in Cond, NEW p,
           pop_waiter(t, c, p), value' = value, pc[t] \in {"run", "broadcast"}
    PROVE  WaiterInv'
<1> USE KernelAssumption
<1> DEFINE q == cond_waiters[c]
<1>0. PICK h \in AllThread : h = Head(q)
  <2>1. q \in Seq(AllThread) /\ q # <<>>
    BY DEF pop_waiter, TypeOK
  <2> QED
    BY <2>1
<1>1. /\ q # <<>> /\ q \in Seq(AllThread) /\ cond_waiters' = [cond_waiters EXCEPT ![c] = Tail(q)]
      /\ pc' = [pc EXCEPT ![t] = "signal"] /\ obj' = [obj EXCEPT ![t] = h]
      /\ ret' = [ret EXCEPT ![t] = p]
  BY <1>0, SMTT(20) DEF pop_waiter, Goto, TypeOK
<1>2. /\ h \in AllThread /\ Tail(q) \in Seq(AllThread) /\ Len(Tail(q)) = Len(q) - 1 /\ Len(q) \in Nat
      /\ h = q[1] /\ 1 \in 1..Len(q)
      /\ \A i \in 1..Len(Tail(q)) : Tail(q)[i] = q[i + 1] /\ i + 1 \in 1..Len(q)
  BY <1>0, <1>1, HeadTailProperties, LenProperties, EmptySeq
<1>3. WaiterAt(c, 1, h)
  BY <1>2 DEF WaiterAt
<1>4. cond_waiters'[c] = Tail(q) /\ \A d \in Cond \ {c} : cond_waiters'[d] = cond_waiters[d]
  BY <1>1 DEF TypeOK
<1> HIDE DEF q
<1>5. ASSUME NEW d \in Cond, NEW i \in Nat, NEW w \in AllThread, WaiterAt(d, i, w)'
      PROVE  /\ WaiterAt(d, IF d = c THEN i + 1 ELSE i, w)
             /\ w # h
  <2>1. CASE d = c
    <3>1. i \in 1..Len(Tail(q)) /\ Tail(q)[i] = w
      BY <1>4, <1>5, <2>1 DEF WaiterAt
    <3>2. WaiterAt(c, i + 1, w)
      BY <1>2, <3>1 DEF WaiterAt, q
    <3>3. i + 1 # 1 /\ i + 1 \in Nat
      BY <3>1
    <3>4. w # h
      BY <1>3, <3>2, <3>3 DEF WaiterInv
    <3> QED
      BY <2>1, <3>2, <3>4
  <2>2. CASE d # c
    <3>1. WaiterAt(d, i, w)
      BY <1>4, <1>5, <2>2 DEF WaiterAt
    <3> QED
      BY <1>3, <2>2, <3>1 DEF WaiterInv
  <2> QED
    BY <2>1, <2>2
<1>6. ASSUME NEW w \in AllThread, Unsignalled(w)
      PROVE  Unsignalled(w)'
  <2>1. w # t
    BY <1>6 DEF Unsignalled, InCondWait
  <2>2. pc'[w] = pc[w] /\ obj'[w] = obj[w] /\ ret'[w] = ret[w]
    BY <1>1, <2>1 DEF TypeOK
  <2> QED
    BY <1>6, <2>2 DEF Unsignalled, InCondWait
<1>7. /\ pc'[t] = "signal" /\ obj'[t] = h
      /\ \A x \in AllThread \ {t} : pc'[x] = pc[x] /\ obj'[x] = obj[x]
  BY <1>1, <1>2 DEF TypeOK
<1>8. ASSUME NEW x \in AllThread, x # t, pc'[x] = "signal"
      PROVE  /\ pc[x] = "signal" /\ obj'[x] = obj[x] /\ obj[x] \in AllThread /\ obj[x] # h
             /\ Unsignalled(obj[x])
  <2>1. pc[x] = "signal" /\ obj'[x] = obj[x] /\ obj[x] \in AllThread
    BY <1>7, <1>8 DEF LocalsInv
  <2> QED
    BY <1>3, <2>1 DEF WaiterInv
<1>9. \A d \in Cond, i \in Nat, w \in AllThread : WaiterAt(d, i, w)' => Unsignalled(w)'
  <2> SUFFICES ASSUME NEW d \in Cond, NEW i \in Nat, NEW w \in AllThread, WaiterAt(d, i, w)'
               PROVE  Unsignalled(w)'
    OBVIOUS
  <2>1. WaiterAt(d, IF d = c THEN i + 1 ELSE i, w)
    BY <1>5
  <2>2. (IF d = c THEN i + 1 ELSE i) \in Nat
    OBVIOUS
  <2> QED
    BY <1>6, <2>1, <2>2 DEF WaiterInv
<1>10. \A x \in AllThread : pc'[x] = "signal" => Unsignalled(obj[x])'
  <2>1. Unsignalled(h)
    BY <1>2, <1>3 DEF WaiterInv
  <2>2. Unsignalled(h)'
    BY <1>2, <1>6, <2>1
  <2> SUFFICES ASSUME NEW x \in AllThread, pc'[x] = "signal" PROVE Unsignalled(obj[x])'
    OBVIOUS
  <2>3. CASE x = t
    <3>1. obj'[x] = h
      BY <1>7, <2>3
    <3> QED
      BY <2>2, <3>1 DEF Unsignalled, InCondWait
  <2>4. CASE x # t
    <3>1. PICK w \in AllThread : w = obj'[x] /\ w = obj[x] /\ Unsignalled(w)
      BY <1>8, <2>4
    <3>2. Unsignalled(w)'
      BY <1>6, <3>1
    <3> QED
      BY <3>1, <3>2 DEF Unsignalled, InCondWait
  <2> QED
    BY <2>3, <2>4
<1>11. \A d, e \in Cond, i, j \in Nat, w \in AllThread :
          WaiterAt(d, i, w)' /\ WaiterAt(e, j, w)' => d = e /\ i = j
  <2> SUFFICES ASSUME NEW d \in Cond, NEW e \in Cond, NEW i \in Nat, NEW j \in Nat,
                      NEW w \in AllThread, WaiterAt(d, i, w)', WaiterAt(e, j, w)'
               PROVE  d = e /\ i = j
    OBVIOUS
  <2>1. /\ WaiterAt(d, IF d = c THEN i + 1 ELSE i, w)
        /\ WaiterAt(e, IF e = c THEN j + 1 ELSE j, w)
    BY <1>5
  <2>2. (IF d = c THEN i + 1 ELSE i) \in Nat /\ (IF e = c THEN j + 1 ELSE j) \in Nat
    OBVIOUS
  <2>3. d = e /\ (IF d = c THEN i + 1 ELSE i) = (IF e = c THEN j + 1 ELSE j)
    BY <2>1, <2>2 DEF WaiterInv
  <2> QED
    BY <2>3
<1>12. \A x \in AllThread, d \in Cond, i \in Nat : pc'[x] = "signal" => ~WaiterAt(d, i, obj[x])'
  <2> SUFFICES ASSUME NEW x \in AllThread, NEW d \in Cond, NEW i \in Nat, pc'[x] = "signal",
                      WaiterAt(d, i, obj[x])'
               PROVE  FALSE
    OBVIOUS
  <2>1. PICK w \in AllThread : w = obj'[x]
    BY <1>7, <1>8
  <2>2. WaiterAt(d, i, w)'
    BY <2>1 DEF WaiterAt
  <2>3. WaiterAt(d, IF d = c THEN i + 1 ELSE i, w) /\ w # h
    BY <1>5, <2>2
  <2>4. obj[x] = w /\ pc[x] = "signal"
    BY <1>7, <1>8, <2>1, <2>3
  <2>5. (IF d = c THEN i + 1 ELSE i) \in Nat
    OBVIOUS
  <2> QED
    BY <2>3, <2>4, <2>5 DEF WaiterInv
<1>13. PopInv'
  BY <1>7, <1>8 DEF WaiterInv, PopInv
<1> QED
  BY <1>9, <1>10, <1>11, <1>12, <1>13 DEF WaiterInv

\* A waiter stays in cond_wait until it is signalled, and is signalled once.
LEMMA WaitersPreserved ==
    ASSUME ControlInv, PageInv, WaiterInv, [Next]_vars
    PROVE  WaiterInv'
<1> USE KernelAssumption DEF ControlInv
<1>1. ASSUME NEW t \in AllThread, ThreadYield(t)
      PROVE  WaiterInv'
  <2>1. cond_waiters' = cond_waiters /\ \A w \in AllThread : value'[w] = value[w]
    BY <1>1 DEF ThreadYield, synch
  <2>2. \A w \in AllThread : InCondWait(w) => InCondWait(w)'
    BY <1>1 DEF ThreadYield, TypeOK, Calls, At, Goto, locals, LocalsInv, InCondWait
  <2>3. \A x \in AllThread : pc'[x] = "signal" => pc[x] = "signal" /\ obj'[x] = obj[x]
    BY <1>1 DEF ThreadYield, TypeOK, Calls, At, Goto, locals, LocalsInv
  <2> QED
    BY <2>1, <2>2, <2>3, WaiterFrame DEF Unsignalled
<1>2. ASSUME NEW t \in AllThread, ThreadExit(t)
      PROVE  WaiterInv'
  <2>1. cond_waiters' = cond_waiters /\ \A w \in AllThread : value'[w] = value[w]
    BY <1>2 DEF ThreadExit, synch
  <2>2. \A w \in AllThread : InCondWait(w) => InCondWait(w)'
    BY <1>2 DEF ThreadExit, TypeOK, Calls, At, Goto, locals, LocalsInv, InCondWait
  <2>3. \A x \in AllThread : pc'[x] = "signal" => pc[x] = "signal" /\ obj'[x] = obj[x]
    BY <1>2 DEF ThreadExit, TypeOK, Calls, At, Goto, locals, LocalsInv
  <2> QED
    BY <2>1, <2>2, <2>3, WaiterFrame DEF Unsignalled
<1>3. ASSUME NEW t \in AllThread, NEW n \in SleepTicks, TimerSleep(t, n)
      PROVE  WaiterInv'
  <2>1. cond_waiters' = cond_waiters /\ \A w \in AllThread : value'[w] = value[w]
    BY <1>3 DEF TimerSleep, synch
  <2>2. \A w \in AllThread : InCondWait(w) => InCondWait(w)'
    BY <1>3 DEF TimerSleep, TypeOK, Calls, At, Goto, locals, LocalsInv, InCondWait
  <2>3. \A x \in AllThread : pc'[x] = "signal" => pc[x] = "signal" /\ obj'[x] = obj[x]
    BY <1>3 DEF TimerSleep, TypeOK, Calls, At, Goto, locals, LocalsInv
  <2> QED
    BY <2>1, <2>2, <2>3, WaiterFrame DEF Unsignalled
<1>4. ASSUME NEW t \in AllThread, NEW s \in Sema \ {IdleStarted}, CallSemaDown(t, s)
      PROVE  WaiterInv'
  <2>1. cond_waiters' = cond_waiters /\ \A w \in AllThread : value'[w] = value[w]
    BY <1>4 DEF CallSemaDown, synch
  <2>2. \A w \in AllThread : InCondWait(w) => InCondWait(w)'
    BY <1>4 DEF CallSemaDown, TypeOK, Calls, At, Goto, locals, LocalsInv, InCondWait
  <2>3. \A x \in AllThread : pc'[x] = "signal" => pc[x] = "signal" /\ obj'[x] = obj[x]
    BY <1>4 DEF CallSemaDown, TypeOK, Calls, At, Goto, locals, LocalsInv
  <2> QED
    BY <2>1, <2>2, <2>3, WaiterFrame DEF Unsignalled
<1>5. ASSUME NEW t \in AllThread, NEW s \in Sema \ {IdleStarted}, CallSemaUp(t, s)
      PROVE  WaiterInv'
  <2>1. cond_waiters' = cond_waiters /\ \A w \in AllThread : value'[w] = value[w]
    BY <1>5 DEF CallSemaUp, synch, sema_up, TypeOK, AllSema, At, LocalsInv
  <2>2. \A w \in AllThread : InCondWait(w) => InCondWait(w)'
    BY <1>5 DEF CallSemaUp, TypeOK, Calls, At, Goto, locals, LocalsInv, InCondWait
  <2>3. \A x \in AllThread : pc'[x] = "signal" => pc[x] = "signal" /\ obj'[x] = obj[x]
    BY <1>5 DEF CallSemaUp, TypeOK, Calls, At, Goto, locals, LocalsInv
  <2> QED
    BY <2>1, <2>2, <2>3, WaiterFrame DEF Unsignalled
<1>6. ASSUME NEW t \in AllThread, NEW s \in Sema \ {IdleStarted}, SemaTryDown(t, s)
      PROVE  WaiterInv'
  <2>1. cond_waiters' = cond_waiters /\ \A w \in AllThread : value'[w] = value[w]
    BY <1>6 DEF SemaTryDown, synch, TypeOK, AllSema
  <2>2. \A w \in AllThread : InCondWait(w) => InCondWait(w)'
    BY <1>6 DEF SemaTryDown, TypeOK, Calls, At, Goto, locals, LocalsInv, InCondWait
  <2>3. \A x \in AllThread : pc'[x] = "signal" => pc[x] = "signal" /\ obj'[x] = obj[x]
    BY <1>6 DEF SemaTryDown, TypeOK, Calls, At, Goto, locals, LocalsInv
  <2> QED
    BY <2>1, <2>2, <2>3, WaiterFrame DEF Unsignalled
<1>7. ASSUME NEW t \in AllThread, NEW l \in Lock \ {TidLock}, CallLockAcquire(t, l)
      PROVE  WaiterInv'
  <2>1. cond_waiters' = cond_waiters /\ \A w \in AllThread : value'[w] = value[w]
    BY <1>7 DEF CallLockAcquire, lock_acquire, synch
  <2>2. \A w \in AllThread : InCondWait(w) => InCondWait(w)'
    BY <1>7 DEF CallLockAcquire, lock_acquire, TypeOK, Calls, At, Goto, locals, LocalsInv,
       InCondWait
  <2>3. \A x \in AllThread : pc'[x] = "signal" => pc[x] = "signal" /\ obj'[x] = obj[x]
    BY <1>7 DEF CallLockAcquire, lock_acquire, TypeOK, Calls, At, Goto, locals, LocalsInv
  <2> QED
    BY <2>1, <2>2, <2>3, WaiterFrame DEF Unsignalled
<1>8. ASSUME NEW t \in AllThread, NEW l \in Lock \ {TidLock}, LockTryAcquire(t, l)
      PROVE  WaiterInv'
  <2>1. cond_waiters' = cond_waiters /\ \A w \in AllThread : value'[w] = value[w]
    BY <1>8 DEF LockTryAcquire, synch, TypeOK, AllSema
  <2>2. \A w \in AllThread : InCondWait(w) => InCondWait(w)'
    BY <1>8 DEF LockTryAcquire, TypeOK, Calls, At, Goto, locals, LocalsInv, InCondWait
  <2>3. \A x \in AllThread : pc'[x] = "signal" => pc[x] = "signal" /\ obj'[x] = obj[x]
    BY <1>8 DEF LockTryAcquire, TypeOK, Calls, At, Goto, locals, LocalsInv
  <2> QED
    BY <2>1, <2>2, <2>3, WaiterFrame DEF Unsignalled
<1>9. ASSUME NEW t \in AllThread, NEW l \in Lock \ {TidLock}, CallLockRelease(t, l)
      PROVE  WaiterInv'
  <2>1. cond_waiters' = cond_waiters /\ \A w \in AllThread : value'[w] = value[w]
    BY <1>9 DEF CallLockRelease, lock_release, synch
  <2>2. \A w \in AllThread : InCondWait(w) => InCondWait(w)'
    BY <1>9 DEF CallLockRelease, lock_release, TypeOK, Calls, At, Goto, locals, LocalsInv,
       InCondWait
  <2>3. \A x \in AllThread : pc'[x] = "signal" => pc[x] = "signal" /\ obj'[x] = obj[x]
    BY <1>9 DEF CallLockRelease, lock_release, TypeOK, Calls, At, Goto, locals, LocalsInv
  <2> QED
    BY <2>1, <2>2, <2>3, WaiterFrame DEF Unsignalled
<1>10. ASSUME NEW t \in AllThread, NEW c \in Cond, CondWait(t, c)
      PROVE  WaiterInv'
  <2> DEFINE q == cond_waiters[c]
  <2>1. /\ pc[t] = "run" /\ pc' = [pc EXCEPT ![t] = "cw_release"]
        /\ value' = [value EXCEPT ![t] = 0] /\ UNCHANGED <<obj, ret>>
        /\ cond_waiters' = [cond_waiters EXCEPT ![c] = Append(q, t)] /\ q \in Seq(AllThread)
    BY <1>10 DEF CondWait, Calls, At, Goto, TypeOK
  <2>2. /\ pc'[t] = "cw_release" /\ value'[t] = 0
        /\ \A x \in AllThread \ {t} : pc'[x] = pc[x] /\ value'[x] = value[x]
    BY <2>1 DEF TypeOK, AllSema
  <2>3. ~Unsignalled(t) /\ Unsignalled(t)'
    BY <2>1, <2>2 DEF Unsignalled, InCondWait
  <2>4. \A w \in AllThread : Unsignalled(w) => Unsignalled(w)'
    BY <2>1, <2>2, <2>3 DEF Unsignalled, InCondWait
  <2>5. /\ Len(Append(q, t)) = Len(q) + 1 /\ Len(q) \in Nat /\ Append(q, t)[Len(q) + 1] = t
        /\ \A i \in 1..Len(q) : Append(q, t)[i] = q[i]
    BY <2>1, AppendProperties, LenProperties
  <2>6. cond_waiters'[c] = Append(q, t) /\ \A d \in Cond \ {c} : cond_waiters'[d] = cond_waiters[d]
    BY <2>1 DEF TypeOK
  <2>7. ASSUME NEW d \in Cond, NEW i \in Nat, NEW w \in AllThread, WaiterAt(d, i, w)'
        PROVE  WaiterAt(d, i, w) \/ (d = c /\ i = Len(q) + 1 /\ w = t)
    <3>1. CASE d = c
      <4>1. i \in 1..Len(Append(q, t)) /\ Append(q, t)[i] = w
        BY <2>6, <2>7, <3>1 DEF WaiterAt
      <4> HIDE DEF q
      <4>2. CASE i = Len(q) + 1
        BY <2>5, <3>1, <4>1, <4>2
      <4>3. CASE i # Len(q) + 1
        <5>1. i \in 1..Len(q) /\ q[i] = w
          BY <2>5, <4>1, <4>3
        <5> QED
          BY <3>1, <5>1 DEF WaiterAt, q
      <4> QED
        BY <4>2, <4>3
    <3>2. CASE d # c
      BY <2>6, <2>7, <3>2 DEF WaiterAt
    <3> QED
      BY <3>1, <3>2
  <2> HIDE DEF q
  <2>8. \A d \in Cond, i \in Nat : ~WaiterAt(d, i, t)
    BY <2>3 DEF WaiterInv
  <2>9. \A d \in Cond, i \in Nat, w \in AllThread : WaiterAt(d, i, w)' => Unsignalled(w)'
    BY <2>3, <2>4, <2>7 DEF WaiterInv
  <2>10. ASSUME NEW x \in AllThread, pc'[x] = "signal"
         PROVE  /\ pc[x] = "signal" /\ obj'[x] = obj[x] /\ obj[x] \in AllThread /\ obj[x] # t
                /\ Unsignalled(obj[x])'
    <3>1. PICK w \in AllThread : w = obj[x] /\ w = obj'[x] /\ pc[x] = "signal"
      BY <2>1, <2>2, <2>10 DEF LocalsInv
    <3>2. Unsignalled(w) /\ w # t
      BY <2>3, <3>1 DEF WaiterInv
    <3>3. Unsignalled(w)'
      BY <2>4, <3>2
    <3> QED
      BY <3>1, <3>2, <3>3 DEF Unsignalled, InCondWait
  <2>11. \A d, e \in Cond, i, j \in Nat, w \in AllThread :
            WaiterAt(d, i, w)' /\ WaiterAt(e, j, w)' => d = e /\ i = j
    BY <2>7, <2>8 DEF WaiterInv
  <2>12. \A x \in AllThread, d \in Cond, i \in Nat : pc'[x] = "signal" => ~WaiterAt(d, i, obj[x])'
    <3> SUFFICES ASSUME NEW x \in AllThread, NEW d \in Cond, NEW i \in Nat, pc'[x] = "signal",
                        WaiterAt(d, i, obj[x])'
                 PROVE  FALSE
      OBVIOUS
    <3>1. PICK w \in AllThread : w = obj[x] /\ w = obj'[x] /\ pc[x] = "signal" /\ w # t
      BY <2>10
    <3>2. WaiterAt(d, i, w)'
      BY <3>1 DEF WaiterAt
    <3>3. WaiterAt(d, i, w)
      BY <2>7, <3>1, <3>2
    <3>4. \A y \in AllThread, e \in Cond, j \in Nat : pc[y] = "signal" => ~WaiterAt(e, j, obj[y])
      BY DEF WaiterInv
    <3> QED
      BY <3>1, <3>3, <3>4 DEF WaiterAt
  <2>13. PopInv'
    BY <2>10 DEF WaiterInv, PopInv
  <2> QED
    BY <2>9, <2>10, <2>11, <2>12, <2>13 DEF WaiterInv
<1>11. ASSUME NEW t \in AllThread, NEW c \in Cond, CondSignal(t, c)
      PROVE  WaiterInv'
  BY <1>11, PopKeepsWaiters DEF CondSignal, Calls, At
<1>12. ASSUME NEW t \in AllThread, NEW c \in Cond, CondBroadcast(t, c)
      PROVE  WaiterInv'
  <2>1. cond_waiters' = cond_waiters /\ \A w \in AllThread : value'[w] = value[w]
    BY <1>12 DEF CondBroadcast, synch
  <2>2. \A w \in AllThread : InCondWait(w) => InCondWait(w)'
    BY <1>12 DEF CondBroadcast, TypeOK, Calls, At, Goto, locals, LocalsInv, InCondWait
  <2>3. \A x \in AllThread : pc'[x] = "signal" => pc[x] = "signal" /\ obj'[x] = obj[x]
    BY <1>12 DEF CondBroadcast, TypeOK, Calls, At, Goto, locals, LocalsInv
  <2> QED
    BY <2>1, <2>2, <2>3, WaiterFrame DEF Unsignalled
<1>13. ASSUME NEW t \in AllThread, NEW u \in Thread, ThreadCreate(t, u)
      PROVE  WaiterInv'
  <2>1. u \in AllThread /\ pc[u] = "run" /\ t # u /\ pc[t] = "run"
    BY <1>13 DEF ThreadCreate, Calls, At, PageInv, AllThread
  <2>2. /\ pc' = [pc EXCEPT ![u] = "new", ![t] = "down"] /\ value' = value
        /\ obj' = [obj EXCEPT ![t] = TidLock] /\ ret' = [ret EXCEPT ![t] = "tid_read"]
        /\ cond_waiters' = cond_waiters
    BY <1>13 DEF ThreadCreate, synch
  <2>3. pc'[u] = "new" /\ pc'[t] = "down"
    BY <2>1, <2>2 DEF TypeOK
  <2>4. \A x \in AllThread \ {t, u} : pc'[x] = pc[x] /\ obj'[x] = obj[x] /\ ret'[x] = ret[x]
    BY <2>1, <2>2 DEF TypeOK
  <2>5. \A w \in AllThread : Unsignalled(w) => Unsignalled(w)'
    BY <2>1, <2>2, <2>4 DEF Unsignalled, InCondWait
  <2> QED
    BY <2>2, <2>3, <2>4, <2>5, WaiterFrame
<1>14. ASSUME NEW t \in AllThread, SemaDown(t)
      PROVE  WaiterInv'
  <2>1. pc[t] = "down" /\ cond_waiters' = cond_waiters
    BY <1>14 DEF SemaDown, At
  <2>2. CASE UNCHANGED <<value, locals>>
    BY <2>1, <2>2, WaiterFrame DEF locals, Unsignalled, InCondWait
  <2>3. CASE /\ value[obj[t]] > 0 /\ AfterDown(t, obj[t])
             /\ value' = [value EXCEPT ![obj[t]] = @ - 1]
    <3>1. \A x \in AllThread \ {t} : pc'[x] = pc[x] /\ obj'[x] = obj[x] /\ ret'[x] = ret[x]
      BY <2>3 DEF AfterDown, TypeOK
    <3>2. pc'[t] # "signal"
      BY <2>3 DEF AfterDown, TypeOK
    <3>3. ~Unsignalled(t)
      BY <2>1, <2>3 DEF Unsignalled, InCondWait
    <3>4. \A w \in AllThread \ {t} : value'[w] = value[w]
      BY <2>1, <2>3 DEF TypeOK, LocalsInv, AllSema
    <3>5. \A w \in AllThread : Unsignalled(w) => Unsignalled(w)'
      BY <3>1, <3>3, <3>4 DEF Unsignalled, InCondWait
    <3> QED
      BY <2>1, <3>1, <3>2, <3>5, WaiterFrame
  <2> QED
    BY <1>14, <2>2, <2>3 DEF SemaDown
<1>15. ASSUME NEW t \in AllThread, SetHolder(t)
      PROVE  WaiterInv'
  <2>1. cond_waiters' = cond_waiters /\ \A w \in AllThread : value'[w] = value[w]
    BY <1>15 DEF SetHolder, synch
  <2>2. \A w \in AllThread : InCondWait(w) => InCondWait(w)'
    BY <1>15 DEF SetHolder, TypeOK, Calls, At, Goto, locals, LocalsInv, InCondWait
  <2>3. \A x \in AllThread : pc'[x] = "signal" => pc[x] = "signal" /\ obj'[x] = obj[x]
    <3>1. /\ ret[t] \in {"run", "tid_read"} /\ pc' = [pc EXCEPT ![t] = ret[t]]
          /\ obj' = obj
      BY <1>15 DEF SetHolder, LocalsInv, At, Goto
    <3> QED
      BY <3>1 DEF TypeOK
  <2> QED
    BY <2>1, <2>2, <2>3, WaiterFrame DEF Unsignalled
<1>16. ASSUME NEW t \in AllThread, LockUp(t)
      PROVE  WaiterInv'
  <2>1. cond_waiters' = cond_waiters /\ \A w \in AllThread : value'[w] = value[w]
    BY <1>16 DEF LockUp, synch, sema_up, TypeOK, AllSema, At, LocalsInv
  <2>2. \A w \in AllThread : InCondWait(w) => InCondWait(w)'
    BY <1>16 DEF LockUp, TypeOK, Calls, At, Goto, locals, LocalsInv, InCondWait
  <2>3. \A x \in AllThread : pc'[x] = "signal" => pc[x] = "signal" /\ obj'[x] = obj[x]
    BY <1>16 DEF LockUp, TypeOK, Calls, At, Goto, locals, LocalsInv
  <2> QED
    BY <2>1, <2>2, <2>3, WaiterFrame DEF Unsignalled
<1>17. ASSUME NEW t \in AllThread, CondWaitRelease(t)
      PROVE  WaiterInv'
  <2>1. cond_waiters' = cond_waiters /\ \A w \in AllThread : value'[w] = value[w]
    BY <1>17 DEF CondWaitRelease, lock_release, synch
  <2>2. \A w \in AllThread : InCondWait(w) => InCondWait(w)'
    BY <1>17 DEF CondWaitRelease, lock_release, TypeOK, Calls, At, Goto, locals, LocalsInv,
       InCondWait
  <2>3. \A x \in AllThread : pc'[x] = "signal" => pc[x] = "signal" /\ obj'[x] = obj[x]
    BY <1>17 DEF CondWaitRelease, lock_release, TypeOK, Calls, At, Goto, locals, LocalsInv
  <2> QED
    BY <2>1, <2>2, <2>3, WaiterFrame DEF Unsignalled
<1>18. ASSUME NEW t \in AllThread, BroadcastStep(t)
      PROVE  WaiterInv'
  <2>1. pc[t] = "broadcast" /\ cnd[t] \in Cond
    BY <1>18 DEF BroadcastStep, At, LocalsInv
  <2>2. CASE pop_waiter(t, cnd[t], "broadcast") /\ value' = value
    BY <2>1, <2>2, PopKeepsWaiters
  <2>3. CASE Goto(t, "run") /\ UNCHANGED <<synch, obj, ret>>
    <3>1. \A w \in AllThread : Unsignalled(w) => Unsignalled(w)'
      BY <2>1, <2>3 DEF Unsignalled, InCondWait, Goto, TypeOK, synch
    <3>2. \A x \in AllThread : pc'[x] = "signal" => pc[x] = "signal" /\ obj'[x] = obj[x]
      BY <2>3 DEF Goto, TypeOK
    <3> QED
      BY <2>3, <3>1, <3>2, WaiterFrame DEF synch
  <2> QED
    BY <1>18, <2>2, <2>3 DEF BroadcastStep
<1>19. ASSUME NEW t \in AllThread, SignalUp(t)
      PROVE  WaiterInv'
  <2> DEFINE v == obj[t]
  <2>1. /\ pc[t] = "signal" /\ v \in AllThread /\ ret[t] \in {"run", "broadcast"}
        /\ pc' = [pc EXCEPT ![t] = ret[t]] /\ value' = [value EXCEPT ![v] = @ + 1]
        /\ UNCHANGED <<cond_waiters, obj, ret>>
    BY <1>19 DEF SignalUp, At, Goto, LocalsInv, sema_up
  <2>2. pc'[t] # "signal" /\ \A x \in AllThread \ {t} : pc'[x] = pc[x]
    BY <2>1 DEF TypeOK
  <2>3. ~InCondWait(t)
    BY <2>1 DEF InCondWait
  <2>4. \A w \in AllThread \ {v} : value'[w] = value[w]
    BY <2>1 DEF TypeOK, AllSema
  <2>5. obj[t] = v
    OBVIOUS
  <2> HIDE DEF v
  <2>6. \A w \in AllThread \ {v} : Unsignalled(w) => Unsignalled(w)'
    BY <2>1, <2>2, <2>3, <2>4 DEF Unsignalled, InCondWait
  <2>7. \A c, i, w : WaiterAt(c, i, w)' <=> WaiterAt(c, i, w)
    BY <2>1 DEF WaiterAt
  <2>8. \A c \in Cond, i \in Nat : ~WaiterAt(c, i, v)
    BY <2>1, <2>5 DEF WaiterInv
  <2>9. ASSUME NEW x \in AllThread, pc'[x] = "signal"
        PROVE  pc[x] = "signal" /\ obj[x] \in AllThread \ {v} /\ obj'[x] = obj[x]
    <3>1. x # t /\ pc[x] = "signal"
      BY <2>2, <2>9
    <3> QED
      BY <2>1, <2>5, <3>1 DEF LocalsInv, WaiterInv, PopInv
  <2>10. \A x \in AllThread : pc'[x] = "signal" => Unsignalled(obj[x])'
    <3> SUFFICES ASSUME NEW x \in AllThread, pc'[x] = "signal" PROVE Unsignalled(obj[x])'
      OBVIOUS
    <3>1. PICK w \in AllThread \ {v} : pc[x] = "signal" /\ w = obj[x] /\ w = obj'[x]
      BY <2>9
    <3>2. Unsignalled(w)'
      BY <2>6, <3>1 DEF WaiterInv
    <3> QED
      BY <3>1, <3>2 DEF Unsignalled, InCondWait
  <2>11. PopInv'
    BY <2>1, <2>9 DEF WaiterInv, PopInv
  <2>12. \A c \in Cond, i \in Nat, w \in AllThread : WaiterAt(c, i, w)' => Unsignalled(w)'
    BY <2>6, <2>7, <2>8 DEF WaiterInv
  <2>13. \A x \in AllThread, c \in Cond, i \in Nat : pc'[x] = "signal" => ~WaiterAt(c, i, obj[x])'
    BY <2>1, <2>9 DEF WaiterInv, WaiterAt
  <2> QED
    BY <2>7, <2>10, <2>11, <2>12, <2>13 DEF WaiterInv
<1>20. ASSUME NEW t \in AllThread, TidRead(t)
      PROVE  WaiterInv'
  <2>1. cond_waiters' = cond_waiters /\ \A w \in AllThread : value'[w] = value[w]
    BY <1>20 DEF TidRead, synch
  <2>2. \A w \in AllThread : InCondWait(w) => InCondWait(w)'
    BY <1>20 DEF TidRead, TypeOK, Calls, At, Goto, locals, LocalsInv, InCondWait
  <2>3. \A x \in AllThread : pc'[x] = "signal" => pc[x] = "signal" /\ obj'[x] = obj[x]
    BY <1>20 DEF TidRead, TypeOK, Calls, At, Goto, locals, LocalsInv
  <2> QED
    BY <2>1, <2>2, <2>3, WaiterFrame DEF Unsignalled
<1>21. ASSUME NEW t \in AllThread, TidWrite(t)
      PROVE  WaiterInv'
  <2>1. cond_waiters' = cond_waiters /\ \A w \in AllThread : value'[w] = value[w]
    BY <1>21 DEF TidWrite, lock_release, synch
  <2>2. \A w \in AllThread : InCondWait(w) => InCondWait(w)'
    BY <1>21 DEF TidWrite, lock_release, TypeOK, Calls, At, Goto, locals, LocalsInv, InCondWait
  <2>3. \A x \in AllThread : pc'[x] = "signal" => pc[x] = "signal" /\ obj'[x] = obj[x]
    BY <1>21 DEF TidWrite, lock_release, TypeOK, Calls, At, Goto, locals, LocalsInv
  <2> QED
    BY <2>1, <2>2, <2>3, WaiterFrame DEF Unsignalled
<1>22. ASSUME NEW t \in AllThread, CreateUnblock(t)
      PROVE  WaiterInv'
  <2>1. /\ pc[t] = "create" /\ child[t] \in AllThread /\ child[t] # None
        /\ pc' = [pc EXCEPT ![child[t]] = "run", ![t] = "run"]
        /\ UNCHANGED <<value, cond_waiters, obj, ret>>
    BY <1>22 DEF CreateUnblock, At, LocalsInv, AllThread, synch
  <2>2. pc[child[t]] = "new"
    BY <2>1 DEF PageInv
  <2>3. \A x \in AllThread : pc'[x] = IF x \in {t, child[t]} THEN "run" ELSE pc[x]
    BY <2>1 DEF TypeOK
  <2>4. \A w \in AllThread : Unsignalled(w) => Unsignalled(w)'
    BY <2>1, <2>2, <2>3 DEF Unsignalled, InCondWait
  <2> QED
    <3>1. \A x \in AllThread : pc'[x] = "signal" => pc[x] = "signal" /\ obj'[x] = obj[x]
      BY <2>1, <2>3
    <3> QED
      BY <2>1, <2>4, <3>1, WaiterFrame
<1>23. ASSUME IdleStart
      PROVE  WaiterInv'
  <2>1. cond_waiters' = cond_waiters /\ \A w \in AllThread : value'[w] = value[w]
    BY <1>23 DEF IdleStart, synch
  <2>2. \A w \in AllThread : InCondWait(w) => InCondWait(w)'
    BY <1>23 DEF IdleStart, TypeOK, Calls, At, Goto, locals, LocalsInv, InCondWait
  <2>3. \A x \in AllThread : pc'[x] = "signal" => pc[x] = "signal" /\ obj'[x] = obj[x]
    BY <1>23 DEF IdleStart, TypeOK, Calls, At, Goto, locals, LocalsInv
  <2> QED
    BY <2>1, <2>2, <2>3, WaiterFrame DEF Unsignalled
<1>24. ASSUME IdleUp
      PROVE  WaiterInv'
  <2>1. cond_waiters' = cond_waiters /\ \A w \in AllThread : value'[w] = value[w]
    BY <1>24 DEF IdleUp, synch, sema_up, TypeOK, AllSema, At, LocalsInv
  <2>2. \A w \in AllThread : InCondWait(w) => InCondWait(w)'
    BY <1>24 DEF IdleUp, TypeOK, Calls, At, Goto, locals, LocalsInv, InCondWait
  <2>3. \A x \in AllThread : pc'[x] = "signal" => pc[x] = "signal" /\ obj'[x] = obj[x]
    BY <1>24 DEF IdleUp, TypeOK, Calls, At, Goto, locals, LocalsInv
  <2> QED
    BY <2>1, <2>2, <2>3, WaiterFrame DEF Unsignalled
<1>25. ASSUME IdleLoop
      PROVE  WaiterInv'
  <2>1. cond_waiters' = cond_waiters /\ \A w \in AllThread : value'[w] = value[w]
    BY <1>25 DEF IdleLoop, synch
  <2>2. \A w \in AllThread : InCondWait(w) => InCondWait(w)'
    BY <1>25 DEF IdleLoop, TypeOK, Calls, At, Goto, locals, LocalsInv, InCondWait
  <2>3. \A x \in AllThread : pc'[x] = "signal" => pc[x] = "signal" /\ obj'[x] = obj[x]
    BY <1>25 DEF IdleLoop, TypeOK, Calls, At, Goto, locals, LocalsInv
  <2> QED
    BY <2>1, <2>2, <2>3, WaiterFrame DEF Unsignalled
<1>26. ASSUME TimerInterrupt
      PROVE  WaiterInv'
  <2>1. cond_waiters' = cond_waiters /\ \A w \in AllThread : value'[w] = value[w]
    BY <1>26 DEF TimerInterrupt, WakeIdle, synch
  <2>2. \A w \in AllThread : InCondWait(w) => InCondWait(w)'
    BY <1>26 DEF TimerInterrupt, WakeIdle, TypeOK, Calls, At, Goto, locals, LocalsInv,
       InCondWait
  <2>3. \A x \in AllThread : pc'[x] = "signal" => pc[x] = "signal" /\ obj'[x] = obj[x]
    BY <1>26 DEF TimerInterrupt, WakeIdle, TypeOK, Calls, At, Goto, locals, LocalsInv
  <2> QED
    BY <2>1, <2>2, <2>3, WaiterFrame DEF Unsignalled
<1>27. ASSUME NEW s \in Sema \ {IdleStarted}, DeviceInterrupt(s)
      PROVE  WaiterInv'
  <2>1. cond_waiters' = cond_waiters /\ \A w \in AllThread : value'[w] = value[w]
    BY <1>27 DEF DeviceInterrupt, WakeIdle, synch, sema_up, TypeOK, AllSema, At, LocalsInv
  <2>2. \A w \in AllThread : InCondWait(w) => InCondWait(w)'
    BY <1>27 DEF DeviceInterrupt, WakeIdle, TypeOK, Calls, At, Goto, locals, LocalsInv,
       InCondWait
  <2>3. \A x \in AllThread : pc'[x] = "signal" => pc[x] = "signal" /\ obj'[x] = obj[x]
    BY <1>27 DEF DeviceInterrupt, WakeIdle, TypeOK, Calls, At, Goto, locals, LocalsInv
  <2> QED
    BY <2>1, <2>2, <2>3, WaiterFrame DEF Unsignalled
<1>28. CASE UNCHANGED vars
  BY <1>28 DEF WaiterInv, WaiterAt, Unsignalled, InCondWait, PopInv, vars, sched, timer,
     synch, tids, locals
<1> QED
  BY <1>1, <1>2, <1>3, <1>4, <1>5, <1>6, <1>7, <1>8, <1>9, <1>10, <1>11, <1>12, <1>13, <1>14,
     <1>15, <1>16, <1>17, <1>18, <1>19, <1>20, <1>21, <1>22, <1>23, <1>24, <1>25, <1>26,
     <1>27, <1>28
     DEF Next, Call, Continue, IdleStep, Interrupt

\* cond_signal () and cond_broadcast () never up a semaphore on the stack of a
\* thread that has left cond_wait (), nor the same one twice, although the waiter
\* is popped and upped in two steps.
THEOREM WaitersAlive == Spec => []WaiterAlive
<1>1. Init => WaiterInv
  BY KernelAssumption DEF Init, WaiterInv, WaiterAt, PopInv, AllThread
<1>2. LockInv /\ WaiterInv /\ [Next]_vars => WaiterInv'
  BY WaitersPreserved DEF LockInv
<1>3. LockInv /\ WaiterInv => WaiterAlive
  <2> SUFFICES ASSUME LockInv, WaiterInv PROVE WaiterAlive
    OBVIOUS
  <2> DEFINE listed == UNION {{<<c, i>> : i \in DOMAIN cond_waiters[c]} : c \in Cond}
             popped == {t \in AllThread : pc[t] = "signal"}
             live(w) == InCondWait(w) /\ value[w] = 0
  <2>1. ASSUME NEW p \in listed
        PROVE  /\ p = <<p[1], p[2]>> /\ p[1] \in Cond /\ p[2] \in Nat
               /\ cond_waiters[p[1]][p[2]] \in AllThread
               /\ WaiterAt(p[1], p[2], cond_waiters[p[1]][p[2]])
    <3>1. PICK c \in Cond : \E i \in DOMAIN cond_waiters[c] : p = <<c, i>>
      OBVIOUS
    <3>2. PICK i \in DOMAIN cond_waiters[c] : p = <<c, i>>
      BY <3>1
    <3>3. cond_waiters[c] \in Seq(AllThread)
      BY DEF LockInv, ControlInv, TypeOK
    <3>4. i \in 1..Len(cond_waiters[c]) /\ i \in Nat /\ cond_waiters[c][i] \in AllThread
      BY <3>3, LenProperties, ElementOfSeq
    <3> QED
      BY <3>2, <3>4 DEF WaiterAt
  <2>2. \A p \in listed : live(cond_waiters[p[1]][p[2]])
    BY <2>1 DEF WaiterInv, Unsignalled
  <2>3. \A t \in popped : live(obj[t])
    BY DEF WaiterInv, Unsignalled
  <2>4. \A p, q \in listed : p # q => cond_waiters[p[1]][p[2]] # cond_waiters[q[1]][q[2]]
    <3> SUFFICES ASSUME NEW p \in listed, NEW q \in listed,
                        cond_waiters[p[1]][p[2]] = cond_waiters[q[1]][q[2]]
                 PROVE  p = q
      OBVIOUS
    <3>1. p[1] = q[1] /\ p[2] = q[2]
      BY <2>1 DEF WaiterInv
    <3> QED
      BY <2>1, <3>1
  <2>5. \A t \in popped, p \in listed : obj[t] # cond_waiters[p[1]][p[2]]
    BY <2>1 DEF WaiterInv
  <2> QED
    BY <2>2, <2>3, <2>4, <2>5 DEF WaiterAlive
<1> QED
  BY <1>1, <1>2, <1>3, LockInvariant, PTL DEF Spec
-----------------------------------------------------------------------------
(***************************************************************************)
(* The run queue, the sleep list and the waiters of the semaphores account *)
(* for every thread, sleepers wake when they are due, the CPU halts only   *)
(* with nothing to run and sema_up loses nobody.                           *)
(***************************************************************************)
\* The run queue holds the ready threads other than the idle thread, once each,
\* and the current thread is the one that runs.
QueueInv ==
    /\ NoDup(ready_list)
    /\ \A t \in AllThread :
          /\ OnList(t, ready_list) <=> status[t] = "READY" /\ t # idle_thread
          /\ status[t] = "RUNNING" <=> t = current

\* A thread on the sleep list is in timer_sleep, one on the waiters of a
\* semaphore is in its sema_down; both are blocked, and a blocked thread is on
\* one of these lists, is the idle thread, or is being created.
BlockedInv ==
    /\ NoDup(sleep_list) /\ \A s \in AllSema : NoDup(waiters[s])
    /\ \A t \in AllThread : OnList(t, sleep_list) => status[t] = "BLOCKED" /\ pc[t] = "run"
    /\ \A t \in AllThread, s \in AllSema : OnList(t, waiters[s]) =>
          status[t] = "BLOCKED" /\ pc[t] = "down" /\ obj[t] = s
    /\ \A t \in AllThread : status[t] = "BLOCKED" =>
          \/ OnList(t, sleep_list)
          \/ pc[t] = "down" /\ obj[t] \in AllSema /\ OnList(t, waiters[obj[t]])
          \/ t = idle_thread
          \/ \E u \in AllThread : child[u] = t
    /\ \A t \in AllThread : child[t] # None => status[child[t]] = "BLOCKED"
-----------------------------------------------------------------------------
\* schedule () takes the thread it runs off the queue, or runs the idle thread
\* when the queue is empty; it blocks and wakes nobody else.
LEMMA ScheduleQueue ==
    ASSUME NEW st \in [AllThread -> Status], NEW rl \in Seq(AllThread), schedule(st, rl),
           idle_thread \in {None, Idle}, rl = <<>> => idle_thread = Idle,
           idle_thread' = idle_thread, NoDup(rl),
           \A x \in AllThread : OnList(x, rl) <=> st[x] = "READY" /\ x # idle_thread,
           \A x \in AllThread : st[x] # "RUNNING"
    PROVE  /\ QueueInv'
           /\ \A x \in AllThread : status'[x] = "BLOCKED" => st[x] = "BLOCKED"
           /\ \A x \in AllThread : st[x] = "BLOCKED" /\ x # idle_thread => status'[x] = "BLOCKED"
           /\ idle_thread # None /\ current' = idle_thread => ready_list' = <<>>
<1> USE KernelAssumption
<1>1. CASE rl = <<>>
  <2>1. /\ current' = Idle /\ ready_list' = <<>> /\ status' = [st EXCEPT ![Idle] = "RUNNING"]
        /\ Idle \in AllThread /\ idle_thread = Idle
    BY <1>1 DEF schedule, next_thread_to_run, AllThread
  <2>2. \A x \in AllThread : ~(st[x] = "READY" /\ x # idle_thread)
    BY <1>1, ListEmpty
  <2>3. \A x \in AllThread : status'[x] = IF x = Idle THEN "RUNNING" ELSE st[x]
    BY <2>1
  <2>4. NoDup(ready_list') /\ \A x : ~OnList(x, ready_list')
    BY <2>1, ListEmpty DEF NoDup
  <2>5. \A x \in AllThread : OnList(x, ready_list') <=> status'[x] = "READY" /\ x # idle_thread'
    BY <2>2, <2>3, <2>4
  <2>6. \A x \in AllThread : status'[x] = "RUNNING" <=> x = current'
    BY <2>1, <2>3
  <2>7. QueueInv'
    BY <2>4, <2>5, <2>6 DEF QueueInv, NoDup, OnList
  <2> QED
    BY <2>1, <2>3, <2>7
<1>2. CASE rl # <<>>
  <2> DEFINE h == Head(rl)
  <2>1. /\ NoDup(Tail(rl)) /\ h \in AllThread /\ OnList(h, rl)
        /\ \A x : OnList(x, Tail(rl)) <=> OnList(x, rl) /\ x # h
    BY <1>2, ListTail
  <2>2. /\ current' = h /\ ready_list' = Tail(rl) /\ status' = [st EXCEPT ![h] = "RUNNING"]
    BY <1>2 DEF schedule, next_thread_to_run
  <2>3. st[h] = "READY" /\ h # idle_thread
    BY <2>1
  <2> HIDE DEF h
  <2>4. \A x \in AllThread : status'[x] = IF x = h THEN "RUNNING" ELSE st[x]
    BY <2>2
  <2>5. \A x \in AllThread : OnList(x, ready_list') <=> status'[x] = "READY" /\ x # idle_thread'
    BY <2>1, <2>2, <2>4
  <2>6. \A x \in AllThread : status'[x] = "RUNNING" <=> x = current'
    BY <2>2, <2>4
  <2>7. QueueInv'
    BY <2>1, <2>2, <2>5, <2>6 DEF QueueInv, NoDup, OnList
  <2> QED
    BY <2>2, <2>3, <2>4, <2>7
<1> QED
  BY <1>1, <1>2

\* thread_yield () queues the current thread unless it is the idle thread.
LEMMA YieldQueue ==
    ASSUME NEW st \in [AllThread -> Status], NEW rl \in Seq(AllThread), yield(st, rl),
           current \in AllThread, idle_thread \in {None, Idle}, idle_thread' = idle_thread, NoDup(rl),
           \A x \in AllThread : OnList(x, rl) <=> st[x] = "READY" /\ x # idle_thread,
           \A x \in AllThread : st[x] = "RUNNING" <=> x = current
    PROVE  /\ QueueInv'
           /\ \A x \in AllThread : status'[x] = "BLOCKED" => st[x] = "BLOCKED"
           /\ \A x \in AllThread : st[x] = "BLOCKED" /\ x # idle_thread => status'[x] = "BLOCKED"
           /\ idle_thread # None /\ current' = idle_thread => ready_list' = <<>>
<1> USE KernelAssumption
<1> DEFINE st2 == [st EXCEPT ![current] = "READY"]
           rl2 == IF current # idle_thread THEN Append(rl, current) ELSE rl
<1>1. schedule(st2, rl2)
  BY DEF yield
<1>2. /\ st2 \in [AllThread -> Status]
      /\ \A x \in AllThread : st2[x] = IF x = current THEN "READY" ELSE st[x]
  BY DEF Status
<1>3. ~OnList(current, rl)
  BY DEF Status
<1>4. /\ rl2 \in Seq(AllThread) /\ NoDup(rl2)
      /\ \A x \in AllThread : OnList(x, rl2) <=> OnList(x, rl) \/ (x = current /\ current # idle_thread)
  <2>1. CASE current # idle_thread
    <3>1. Append(rl, current) \in Seq(AllThread)
      OBVIOUS
    <3> QED
      BY <1>3, <2>1, <3>1, ListAppend
  <2>2. CASE current = idle_thread
    BY <2>2
  <2> QED
    BY <2>1, <2>2
<1>5. rl2 = <<>> => idle_thread = Idle
  <2>1. Append(rl, current) # <<>>
    BY AppendProperties, EmptySeq
  <2> QED
    BY <2>1
<1> HIDE DEF st2, rl2
<1>6. \A x \in AllThread : OnList(x, rl2) <=> st2[x] = "READY" /\ x # idle_thread
  BY <1>2, <1>4
<1>7. \A x \in AllThread : st2[x] # "RUNNING"
  BY <1>2
<1>8. /\ QueueInv'
      /\ \A x \in AllThread : status'[x] = "BLOCKED" => st2[x] = "BLOCKED"
      /\ \A x \in AllThread : st2[x] = "BLOCKED" /\ x # idle_thread => status'[x] = "BLOCKED"
      /\ idle_thread # None /\ current' = idle_thread => ready_list' = <<>>
  BY <1>1, <1>2, <1>4, <1>5, <1>6, <1>7, ScheduleQueue
<1>9. \A x \in AllThread : st2[x] = "BLOCKED" <=> st[x] = "BLOCKED"
  BY <1>2
<1> QED
  BY <1>8, <1>9

\* thread_unblock () of a blocked thread.
LEMMA UnblockQueue ==
    ASSUME TypeOK, QueueInv, NEW h \in AllThread, thread_unblock(h), status[h] = "BLOCKED",
           h # idle_thread, idle_thread' = idle_thread
    PROVE  /\ QueueInv'
           /\ \A x \in AllThread : status'[x] = IF x = h THEN "READY" ELSE status[x]
<1>1. /\ ready_list' = Append(ready_list, h) /\ status' = [status EXCEPT ![h] = "READY"]
      /\ current' = current /\ ready_list \in Seq(AllThread)
  BY DEF thread_unblock, TypeOK
<1>2. \A x \in AllThread : status'[x] = IF x = h THEN "READY" ELSE status[x]
  BY <1>1 DEF TypeOK
<1>3. ~OnList(h, ready_list)
  BY DEF QueueInv
<1>4. /\ NoDup(ready_list')
      /\ \A x \in AllThread : OnList(x, ready_list') <=> OnList(x, ready_list) \/ x = h
  BY <1>1, <1>3, ListAppend DEF QueueInv
<1>5. \A x \in AllThread : /\ OnList(x, ready_list') <=> status'[x] = "READY" /\ x # idle_thread'
                           /\ status'[x] = "RUNNING" <=> x = current'
  BY <1>1, <1>2, <1>4 DEF QueueInv
<1> QED
  BY <1>2, <1>4, <1>5 DEF QueueInv, NoDup, OnList

\* A step in which nobody but the idle thread is blocked or woken keeps the lists of the blocked.
LEMMA BlockedFrame ==
    ASSUME ControlInv, PageInv, QueueInv, BlockedInv,
           sleep_list' = sleep_list, waiters' = waiters, child' = child,
           idle_thread' = idle_thread \/ idle_thread = None,
           \A x \in AllThread : status'[x] = "BLOCKED" => status[x] = "BLOCKED" \/ x = idle_thread,
           \A x \in AllThread : status[x] = "BLOCKED" /\ x # idle_thread => status'[x] = "BLOCKED",
           \A x \in AllThread \ {current} : pc'[x] = pc[x] /\ obj'[x] = obj[x]
    PROVE  BlockedInv'
<1> USE KernelAssumption
<1>1. \A x \in AllThread : status[x] = "BLOCKED" => x # current /\ x # None
  BY DEF QueueInv
<1>2. \A x \in AllThread : pc[x] \in {"run", "down", "new"} => x # idle_thread
  <2>1. idle_thread \in {None, Idle} /\ Idle \in AllThread
    BY DEF ControlInv, TypeOK, AllThread
  <2>2. pc[Idle] \in {"idle_start", "idle_up", "idle_loop", "idle_hlt"}
    BY <2>1 DEF ControlInv, BootInv
  <2> QED
    BY <2>1, <2>2
<1>3. \A x \in AllThread : OnList(x, sleep_list') => status'[x] = "BLOCKED" /\ pc'[x] = "run"
  BY <1>1, <1>2 DEF BlockedInv
<1>4. \A x \in AllThread, s \in AllSema : OnList(x, waiters'[s]) =>
          status'[x] = "BLOCKED" /\ pc'[x] = "down" /\ obj'[x] = s
  BY <1>1, <1>2 DEF BlockedInv
<1>5. ASSUME NEW x \in AllThread, status'[x] = "BLOCKED"
      PROVE  \/ OnList(x, sleep_list')
             \/ pc'[x] = "down" /\ obj'[x] \in AllSema /\ OnList(x, waiters'[obj'[x]])
             \/ x = idle_thread'
             \/ \E u \in AllThread : child'[u] = x
  BY <1>1, <1>5 DEF BlockedInv
<1>6. ASSUME NEW x \in AllThread, child'[x] # None
      PROVE  status'[child'[x]] = "BLOCKED"
  <2>1. child[x] \in AllThread /\ pc[child[x]] = "new" /\ status[child[x]] = "BLOCKED"
    BY <1>6 DEF BlockedInv, PageInv, ControlInv, TypeOK
  <2> QED
    BY <1>2, <2>1
<1> QED
  BY <1>3, <1>4, <1>5, <1>6 DEF BlockedInv, NoDup, OnList

\* sema_up () moves the first waiter to the run queue.
LEMMA SemaUpLists ==
    ASSUME ControlInv, PageInv, QueueInv, BlockedInv, NEW s \in AllSema, sema_up(s),
           sleep_list' = sleep_list, child' = child, idle_thread' = idle_thread,
           \A x \in AllThread \ {current} : pc'[x] = pc[x] /\ obj'[x] = obj[x]
    PROVE  QueueInv' /\ BlockedInv'
<1> USE KernelAssumption
<1>1. CASE waiters[s] = <<>>
  <2>1. UNCHANGED <<sched, waiters>>
    BY <1>1 DEF sema_up
  <2>2. QueueInv'
    BY <2>1 DEF QueueInv, sched, NoDup, OnList
  <2> QED
    BY <2>1, <2>2, BlockedFrame DEF sched
<1>2. CASE waiters[s] # <<>>
  <2> DEFINE q == waiters[s]
             h == Head(q)
  <2>1. /\ thread_unblock(h) /\ waiters' = [waiters EXCEPT ![s] = Tail(q)]
        /\ q \in Seq(AllThread) /\ NoDup(q)
    BY <1>2 DEF sema_up, ControlInv, TypeOK, BlockedInv
  <2>2. /\ NoDup(Tail(q)) /\ h \in AllThread /\ OnList(h, q)
        /\ \A x : OnList(x, Tail(q)) <=> OnList(x, q) /\ x # h
    BY <1>2, <2>1, ListTail
  <2>3. status[h] = "BLOCKED" /\ pc[h] = "down" /\ obj[h] = s
    BY <2>2 DEF BlockedInv
  <2>4. h # idle_thread
    <3>1. /\ idle_thread = None \/ idle_thread = Idle
          /\ pc[Idle] # "down"
      BY DEF ControlInv, BootInv, TypeOK, AllThread
    <3> QED
      BY <2>2, <2>3, <3>1, KernelAssumption
  <2>5. waiters'[s] = Tail(q) /\ \A r \in AllSema \ {s} : waiters'[r] = waiters[r]
    BY <2>1 DEF ControlInv, TypeOK
  <2>6. q = waiters[s]
    OBVIOUS
  <2> HIDE DEF q, h
  <2>7. /\ QueueInv'
        /\ \A x \in AllThread : status'[x] = IF x = h THEN "READY" ELSE status[x]
    BY <2>1, <2>2, <2>3, <2>4, UnblockQueue DEF ControlInv
  <2>8. \A x \in AllThread : status[x] = "BLOCKED" => x # current /\ x # None
    BY DEF QueueInv
  <2>9. \A x \in AllThread, r \in AllSema : OnList(x, waiters'[r]) <=> OnList(x, waiters[r]) /\ x # h
    <3> SUFFICES ASSUME NEW x \in AllThread, NEW r \in AllSema
                 PROVE  OnList(x, waiters'[r]) <=> OnList(x, waiters[r]) /\ x # h
      OBVIOUS
    <3>1. CASE r = s
      BY <2>2, <2>5, <2>6, <3>1
    <3>2. CASE r # s
      BY <2>2, <2>3, <2>5, <3>2 DEF BlockedInv
    <3> QED
      BY <3>1, <3>2
  <2>10. \A r \in AllSema : NoDup(waiters'[r])
    <3>1. \A r \in AllSema : NoDup(waiters[r])
      BY DEF BlockedInv
    <3> SUFFICES ASSUME NEW r \in AllSema PROVE NoDup(waiters'[r])
      OBVIOUS
    <3>2. CASE r = s
      BY <2>2, <2>5, <3>2
    <3>3. CASE r # s
      BY <2>5, <3>1, <3>3
    <3> QED
      BY <3>2, <3>3
  <2>11. \A x \in AllThread : OnList(x, sleep_list') => status'[x] = "BLOCKED" /\ pc'[x] = "run"
    BY <2>3, <2>7, <2>8 DEF BlockedInv
  <2>12. \A x \in AllThread, r \in AllSema : OnList(x, waiters'[r]) =>
            status'[x] = "BLOCKED" /\ pc'[x] = "down" /\ obj'[x] = r
    BY <2>7, <2>8, <2>9 DEF BlockedInv
  <2>13. ASSUME NEW x \in AllThread, status'[x] = "BLOCKED"
         PROVE  \/ OnList(x, sleep_list')
                \/ pc'[x] = "down" /\ obj'[x] \in AllSema /\ OnList(x, waiters'[obj'[x]])
                \/ x = idle_thread'
                \/ \E u \in AllThread : child'[u] = x
    <3>1. x # h /\ status[x] = "BLOCKED" /\ pc'[x] = pc[x] /\ obj'[x] = obj[x]
      BY <2>7, <2>8, <2>13
    <3> QED
      BY <2>9, <3>1 DEF BlockedInv
  <2>14. ASSUME NEW x \in AllThread, child'[x] # None
         PROVE  status'[child'[x]] = "BLOCKED"
    <3>1. child[x] \in AllThread /\ pc[child[x]] = "new" /\ status[child[x]] = "BLOCKED"
      BY <2>14 DEF BlockedInv, PageInv, ControlInv, TypeOK
    <3> QED
      BY <2>3, <2>7, <3>1
  <2>15. BlockedInv'
    BY <2>10, <2>11, <2>12, <2>13, <2>14 DEF BlockedInv, NoDup, OnList
  <2> QED
    BY <2>7, <2>15
<1> QED
  BY <1>1, <1>2

\* thread_block () by the current thread.
LEMMA BlockQueue ==
    ASSUME TypeOK, QueueInv, thread_block, idle_thread' = idle_thread,
           ready_list = <<>> => idle_thread = Idle
    PROVE  /\ QueueInv'
           /\ \A x \in AllThread : status'[x] = "BLOCKED" => status[x] = "BLOCKED" \/ x = current
           /\ \A x \in AllThread : (status[x] = "BLOCKED" \/ x = current) /\ x # idle_thread
                                      => status'[x] = "BLOCKED"
           /\ idle_thread # None /\ current' = idle_thread => ready_list' = <<>>
<1> DEFINE st == [status EXCEPT ![current] = "BLOCKED"]
<1>1. /\ st \in [AllThread -> Status] /\ ready_list \in Seq(AllThread)
      /\ idle_thread \in {None, Idle} /\ current \in AllThread
      /\ \A x \in AllThread : st[x] = IF x = current THEN "BLOCKED" ELSE status[x]
  BY DEF TypeOK, Status
<1>2. schedule(st, ready_list)
  BY DEF thread_block
<1> HIDE DEF st
<1>3. /\ NoDup(ready_list) /\ status[current] = "RUNNING"
      /\ \A x \in AllThread : OnList(x, ready_list) <=> st[x] = "READY" /\ x # idle_thread
      /\ \A x \in AllThread : st[x] # "RUNNING"
  BY <1>1 DEF QueueInv
<1>4. /\ QueueInv'
      /\ \A x \in AllThread : status'[x] = "BLOCKED" => st[x] = "BLOCKED"
      /\ \A x \in AllThread : st[x] = "BLOCKED" /\ x # idle_thread => status'[x] = "BLOCKED"
      /\ idle_thread # None /\ current' = idle_thread => ready_list' = <<>>
  BY <1>1, <1>2, <1>3, ScheduleQueue
<1> QED
  BY <1>1, <1>4

\* timer_sleep () and sema_down () block the current thread on one more list.
LEMMA BlockLists ==
    ASSUME ControlInv, PageInv, QueueInv, BlockedInv, thread_block,
           pc[current] \in {"run", "down"}, pc' = pc, obj' = obj, child' = child,
           idle_thread' = idle_thread,
           NoDup(sleep_list'), \A s \in AllSema : NoDup(waiters'[s]),
           \A x \in AllThread : OnList(x, sleep_list')
               <=> OnList(x, sleep_list) \/ (x = current /\ pc[current] = "run"),
           \A x \in AllThread, s \in AllSema : OnList(x, waiters'[s])
               <=> OnList(x, waiters[s]) \/ (x = current /\ pc[current] = "down" /\ s = obj[current])
    PROVE  QueueInv' /\ BlockedInv'
<1> USE KernelAssumption
<1>1. TypeOK /\ current \in AllThread /\ current # Idle /\ current # idle_thread /\ Idle \in AllThread
  <2>1. TypeOK /\ current \in AllThread /\ Idle \in AllThread /\ idle_thread \in {None, Idle}
    BY DEF ControlInv, TypeOK, AllThread
  <2>2. current # Idle
    BY <2>1 DEF ControlInv, BootInv
  <2> QED
    BY <2>1, <2>2
<1>2. ready_list = <<>> => idle_thread = Idle
  BY <1>1 DEF ControlInv, TypeOK, BootInv
<1>3. /\ QueueInv'
      /\ \A x \in AllThread : status'[x] = "BLOCKED" => status[x] = "BLOCKED" \/ x = current
      /\ \A x \in AllThread : (status[x] = "BLOCKED" \/ x = current) /\ x # idle_thread
                                 => status'[x] = "BLOCKED"
  BY <1>1, <1>2, BlockQueue
<1>4. \A x \in AllThread : pc[x] \in {"run", "down", "new"} => x # idle_thread
  BY <1>1 DEF ControlInv, BootInv, TypeOK
<1>5. \A x \in AllThread : OnList(x, sleep_list') => status'[x] = "BLOCKED" /\ pc'[x] = "run"
  BY <1>1, <1>3, <1>4 DEF BlockedInv
<1>6. \A x \in AllThread, s \in AllSema : OnList(x, waiters'[s]) =>
          status'[x] = "BLOCKED" /\ pc'[x] = "down" /\ obj'[x] = s
  BY <1>1, <1>3, <1>4 DEF BlockedInv
<1>7. ASSUME NEW x \in AllThread, status'[x] = "BLOCKED"
      PROVE  \/ OnList(x, sleep_list')
             \/ pc'[x] = "down" /\ obj'[x] \in AllSema /\ OnList(x, waiters'[obj'[x]])
             \/ x = idle_thread'
             \/ \E u \in AllThread : child'[u] = x
  <2>1. CASE x = current
    <3>1. pc[x] = "down" => obj[x] \in AllSema
      BY <2>1 DEF ControlInv, LocalsInv, AllSema
    <3> QED
      BY <2>1, <3>1
  <2>2. CASE x # current
    <3>1. status[x] = "BLOCKED"
      BY <1>3, <1>7, <2>2
    <3> QED
      BY <3>1 DEF BlockedInv
  <2> QED
    BY <2>1, <2>2
<1>8. ASSUME NEW x \in AllThread, child'[x] # None
      PROVE  status'[child'[x]] = "BLOCKED"
  <2>1. child[x] \in AllThread /\ pc[child[x]] = "new" /\ status[child[x]] = "BLOCKED"
    BY <1>8 DEF BlockedInv, PageInv, ControlInv, TypeOK
  <2> QED
    BY <1>3, <1>4, <2>1
<1>9. BlockedInv'
  BY <1>5, <1>6, <1>7, <1>8 DEF BlockedInv, NoDup, OnList
<1> QED
  BY <1>3, <1>9


\* A step that leaves the scheduler and the lists alone.
LEMMA StillLists ==
    ASSUME ControlInv, PageInv, QueueInv, BlockedInv, UNCHANGED <<sched, waiters, idle_thread>>,
           sleep_list' = sleep_list, child' = child,
           \A x \in AllThread \ {current} : pc'[x] = pc[x] /\ obj'[x] = obj[x]
    PROVE  QueueInv' /\ BlockedInv'
<1>1. QueueInv'
  BY DEF QueueInv, sched, NoDup, OnList
<1> QED
  BY <1>1, BlockedFrame DEF sched

\* Every step keeps every thread on the list its status stands for.
LEMMA ListsPreserved ==
    ASSUME ControlInv, PageInv, CreateInv, QueueInv, BlockedInv, [Next]_vars
    PROVE  QueueInv' /\ BlockedInv'
<1> USE KernelAssumption DEF ControlInv
<1>1. ASSUME NEW t \in AllThread, ThreadYield(t)
      PROVE  QueueInv' /\ BlockedInv'
  <2>1. /\ yield(status, ready_list) /\ idle_thread' = idle_thread /\ child' = child
        /\ UNCHANGED <<sleep_list, waiters, pc, obj>>
    BY <1>1 DEF ThreadYield, timer, synch, tids, locals
  <2>2. /\ status \in [AllThread -> Status] /\ ready_list \in Seq(AllThread)
        /\ current \in AllThread /\ idle_thread \in {None, Idle}
    BY DEF TypeOK
  <2>3. /\ QueueInv'
        /\ \A x \in AllThread : status'[x] = "BLOCKED" => status[x] = "BLOCKED"
        /\ \A x \in AllThread : status[x] = "BLOCKED" /\ x # idle_thread => status'[x] = "BLOCKED"
    BY <2>1, <2>2, YieldQueue DEF QueueInv
  <2> QED
    BY <2>1, <2>3, BlockedFrame DEF ControlInv
<1>2. ASSUME NEW t \in AllThread, ThreadExit(t)
      PROVE  QueueInv' /\ BlockedInv'
  <2> DEFINE st == [status EXCEPT ![t] = IF t = Main THEN "DYING" ELSE "FREE"]
  <2>1. /\ schedule(st, ready_list) /\ idle_thread' = idle_thread /\ child' = child
        /\ UNCHANGED <<sleep_list, waiters, pc, obj>> /\ current = t /\ pc[t] = "run"
    BY <1>2 DEF ThreadExit, Calls, At, timer, synch, tids, locals
  <2>2. /\ st \in [AllThread -> Status] /\ ready_list \in Seq(AllThread)
        /\ idle_thread \in {None, Idle}
        /\ \A x \in AllThread : IF x = t THEN st[x] \in {"DYING", "FREE"} ELSE st[x] = status[x]
    BY DEF TypeOK, Status
  <2>3. ready_list = <<>> => idle_thread = Idle
    BY <2>1 DEF TypeOK, BootInv
  <2>4. status[t] = "RUNNING"
    BY <2>1 DEF QueueInv
  <2> HIDE DEF st
  <2>5. /\ \A x \in AllThread : OnList(x, ready_list) <=> st[x] = "READY" /\ x # idle_thread
        /\ \A x \in AllThread : st[x] # "RUNNING"
    BY <2>1, <2>2, <2>4 DEF QueueInv
  <2>6. NoDup(ready_list)
    BY DEF QueueInv
  <2>7. /\ QueueInv'
        /\ \A x \in AllThread : status'[x] = "BLOCKED" => st[x] = "BLOCKED"
        /\ \A x \in AllThread : st[x] = "BLOCKED" /\ x # idle_thread => status'[x] = "BLOCKED"
    BY <2>1, <2>2, <2>3, <2>5, <2>6, ScheduleQueue
  <2>8. /\ \A x \in AllThread : status'[x] = "BLOCKED" => status[x] = "BLOCKED"
        /\ \A x \in AllThread : status[x] = "BLOCKED" /\ x # idle_thread => status'[x] = "BLOCKED"
    BY <2>2, <2>4, <2>7
  <2> QED
    BY <2>1, <2>7, <2>8, BlockedFrame DEF ControlInv
<1>3. ASSUME NEW t \in AllThread, NEW n \in SleepTicks, TimerSleep(t, n)
      PROVE  QueueInv' /\ BlockedInv'
  <2>1. /\ thread_block /\ idle_thread' = idle_thread /\ child' = child
        /\ UNCHANGED <<waiters, pc, obj>> /\ current = t /\ pc[t] = "run"
    BY <1>3 DEF TimerSleep, Calls, At, synch, tids, locals
  <2>2. PICK k \in 0..Len(sleep_list) :
            sleep_list' = SubSeq(sleep_list, 1, k) \o <<t>>
                             \o SubSeq(sleep_list, k + 1, Len(sleep_list))
    BY <1>3 DEF TimerSleep, insert_ordered
  <2>3. sleep_list \in Seq(AllThread) /\ NoDup(sleep_list) /\ ~OnList(t, sleep_list)
    BY <2>1 DEF TypeOK, BlockedInv, QueueInv
  <2>4. /\ NoDup(sleep_list')
        /\ \A x \in AllThread : OnList(x, sleep_list') <=> OnList(x, sleep_list) \/ x = t
    BY <2>2, <2>3, ListInsert
  <2>5. \A s \in AllSema : NoDup(waiters'[s])
    BY <2>1 DEF BlockedInv
  <2> QED
    BY <2>1, <2>4, <2>5, BlockLists DEF ControlInv
<1>4. ASSUME NEW t \in AllThread, NEW s \in Sema \ {IdleStarted}, CallSemaDown(t, s)
      PROVE  QueueInv' /\ BlockedInv'
  <2>1. /\ UNCHANGED <<sched, waiters, idle_thread>> /\ sleep_list' = sleep_list /\ child' = child
    BY <1>4 DEF CallSemaDown, timer, synch, tids
  <2>2. \A x \in AllThread \ {current} : pc'[x] = pc[x] /\ obj'[x] = obj[x]
    BY <1>4 DEF CallSemaDown, At, Calls, Goto, TypeOK
  <2> QED
    BY <2>1, <2>2, StillLists DEF ControlInv
<1>5. ASSUME NEW t \in AllThread, NEW s \in Sema \ {IdleStarted}, CallSemaUp(t, s)
      PROVE  QueueInv' /\ BlockedInv'
  <2>1. s \in AllSema /\ sema_up(s)
    BY <1>5 DEF CallSemaUp, At, LocalsInv, AllSema
  <2>2. sleep_list' = sleep_list /\ child' = child /\ idle_thread' = idle_thread
    BY <1>5 DEF CallSemaUp, timer, tids
  <2>3. \A x \in AllThread \ {current} : pc'[x] = pc[x] /\ obj'[x] = obj[x]
    BY <1>5 DEF CallSemaUp, At, Calls, Goto, WakeIdle, TypeOK, locals
  <2> QED
    BY <2>1, <2>2, <2>3, SemaUpLists DEF ControlInv
<1>6. ASSUME NEW t \in AllThread, NEW s \in Sema \ {IdleStarted}, SemaTryDown(t, s)
      PROVE  QueueInv' /\ BlockedInv'
  <2>1. /\ UNCHANGED <<sched, waiters, idle_thread>> /\ sleep_list' = sleep_list /\ child' = child
    BY <1>6 DEF SemaTryDown, timer, synch, tids
  <2>2. \A x \in AllThread \ {current} : pc'[x] = pc[x] /\ obj'[x] = obj[x]
    BY <1>6 DEF SemaTryDown, At, Calls, Goto, TypeOK, locals
  <2> QED
    BY <2>1, <2>2, StillLists DEF ControlInv
<1>7. ASSUME NEW t \in AllThread, NEW l \in Lock \ {TidLock}, CallLockAcquire(t, l)
      PROVE  QueueInv' /\ BlockedInv'
  <2>1. /\ UNCHANGED <<sched, waiters, idle_thread>> /\ sleep_list' = sleep_list /\ child' = child
    BY <1>7 DEF CallLockAcquire, lock_acquire, timer, synch, tids
  <2>2. \A x \in AllThread \ {current} : pc'[x] = pc[x] /\ obj'[x] = obj[x]
    BY <1>7 DEF CallLockAcquire, lock_acquire, At, Calls, Goto, TypeOK
  <2> QED
    BY <2>1, <2>2, StillLists DEF ControlInv
<1>8. ASSUME NEW t \in AllThread, NEW l \in Lock \ {TidLock}, LockTryAcquire(t, l)
      PROVE  QueueInv' /\ BlockedInv'
  <2>1. /\ UNCHANGED <<sched, waiters, idle_thread>> /\ sleep_list' = sleep_list /\ child' = child
    BY <1>8 DEF LockTryAcquire, timer, synch, tids
  <2>2. \A x \in AllThread \ {current} : pc'[x] = pc[x] /\ obj'[x] = obj[x]
    BY <1>8 DEF LockTryAcquire, At, Calls, Goto, TypeOK
  <2> QED
    BY <2>1, <2>2, StillLists DEF ControlInv
<1>9. ASSUME NEW t \in AllThread, NEW l \in Lock \ {TidLock}, CallLockRelease(t, l)
      PROVE  QueueInv' /\ BlockedInv'
  <2>1. /\ UNCHANGED <<sched, waiters, idle_thread>> /\ sleep_list' = sleep_list /\ child' = child
    BY <1>9 DEF CallLockRelease, lock_release, timer, synch, tids
  <2>2. \A x \in AllThread \ {current} : pc'[x] = pc[x] /\ obj'[x] = obj[x]
    BY <1>9 DEF CallLockRelease, lock_release, At, Calls, Goto, TypeOK
  <2> QED
    BY <2>1, <2>2, StillLists DEF ControlInv
<1>10. ASSUME NEW t \in AllThread, NEW c \in Cond, CondWait(t, c)
      PROVE  QueueInv' /\ BlockedInv'
  <2>1. /\ UNCHANGED <<sched, idle_thread>> /\ sleep_list' = sleep_list /\ child' = child
        /\ waiters' = [waiters EXCEPT ![t] = <<>>] /\ pc[t] = "run" /\ current = t
    BY <1>10 DEF CondWait, timer, tids, Calls, At
  <2>2. \A x \in AllThread \ {current} : pc'[x] = pc[x] /\ obj'[x] = obj[x]
    BY <1>10 DEF CondWait, Calls, At, Goto, TypeOK
  <2>3. t \in AllSema /\ waiters[t] \in Seq(AllThread)
    BY DEF TypeOK, AllSema
  <2>4. \A x \in AllThread : ~OnList(x, waiters[t])
    <3> SUFFICES ASSUME NEW x \in AllThread, OnList(x, waiters[t]) PROVE FALSE
      OBVIOUS
    <3>1. pc[x] = "down" /\ obj[x] = t
      BY <2>3 DEF BlockedInv
    <3>2. x = t
      BY <3>1 DEF LocalsInv
    <3> QED
      BY <2>1, <3>1, <3>2
  <2>5. waiters[t] = <<>>
    <3>1. Len(waiters[t]) \in Nat /\ \A i \in 1..Len(waiters[t]) : waiters[t][i] \in AllThread
      BY <2>3, LenProperties, ElementOfSeq
    <3>2. Len(waiters[t]) = 0
      BY <2>4, <3>1 DEF OnList
    <3> QED
      BY <2>3, <3>2, EmptySeq
  <2>6. waiters' = waiters
    BY <2>1, <2>3, <2>5 DEF TypeOK
  <2> QED
    BY <2>1, <2>2, <2>6, StillLists DEF ControlInv
<1>11. ASSUME NEW t \in AllThread, NEW c \in Cond, CondSignal(t, c)
      PROVE  QueueInv' /\ BlockedInv'
  <2>1. /\ UNCHANGED <<sched, waiters, idle_thread>> /\ sleep_list' = sleep_list /\ child' = child
    BY <1>11 DEF CondSignal, pop_waiter, timer, synch, tids
  <2>2. \A x \in AllThread \ {current} : pc'[x] = pc[x] /\ obj'[x] = obj[x]
    BY <1>11 DEF CondSignal, pop_waiter, At, Calls, Goto, TypeOK
  <2> QED
    BY <2>1, <2>2, StillLists DEF ControlInv
<1>12. ASSUME NEW t \in AllThread, NEW c \in Cond, CondBroadcast(t, c)
      PROVE  QueueInv' /\ BlockedInv'
  <2>1. /\ UNCHANGED <<sched, waiters, idle_thread>> /\ sleep_list' = sleep_list /\ child' = child
    BY <1>12 DEF CondBroadcast, timer, synch, tids
  <2>2. \A x \in AllThread \ {current} : pc'[x] = pc[x] /\ obj'[x] = obj[x]
    BY <1>12 DEF CondBroadcast, At, Calls, Goto, TypeOK
  <2> QED
    BY <2>1, <2>2, StillLists DEF ControlInv
<1>13. ASSUME NEW t \in AllThread, NEW u \in Thread, ThreadCreate(t, u)
      PROVE  QueueInv' /\ BlockedInv'
  <2>1. /\ u \in AllThread /\ pc[u] = "run" /\ pc[t] = "run" /\ current = t /\ status[u] = "FREE"
        /\ t # u
    BY <1>13 DEF ThreadCreate, Calls, At, PageInv, AllThread
  <2>2. /\ status' = [status EXCEPT ![u] = "BLOCKED"] /\ child' = [child EXCEPT ![t] = u]
        /\ pc' = [pc EXCEPT ![u] = "new", ![t] = "down"] /\ obj' = [obj EXCEPT ![t] = TidLock]
        /\ UNCHANGED <<current, ready_list, sleep_list, waiters, idle_thread>>
    BY <1>13 DEF ThreadCreate, timer, synch
  <2>3. \A x \in AllThread : status'[x] = IF x = u THEN "BLOCKED" ELSE status[x]
    BY <2>1, <2>2 DEF TypeOK
  <2>4. \A x \in AllThread \ {t, u} : pc'[x] = pc[x] /\ obj'[x] = obj[x]
    BY <2>2 DEF TypeOK
  <2>5. child[t] = None /\ \A x \in AllThread : child'[x] = IF x = t THEN u ELSE child[x]
    <3>1. ret[t] # "tid_read"
      BY <2>1 DEF CreateInv
    <3>2. child[t] = None
      BY <2>1, <3>1 DEF CreateInv
    <3> QED
      BY <2>2, <3>2 DEF TypeOK
  <2>6. status[t] = "RUNNING" /\ \A x \in AllThread : x # None
    BY <2>1 DEF QueueInv
  <2>7. QueueInv'
    BY <2>1, <2>2, <2>3, <2>6 DEF QueueInv, NoDup, OnList
  <2>8. ASSUME NEW x \in AllThread, OnList(x, sleep_list')
        PROVE  status'[x] = "BLOCKED" /\ pc'[x] = "run"
    <3>1. status[x] = "BLOCKED" /\ pc[x] = "run"
      BY <2>2, <2>8 DEF BlockedInv
    <3> QED
      BY <2>1, <2>3, <2>4, <2>6, <3>1
  <2>9. ASSUME NEW x \in AllThread, NEW s \in AllSema, OnList(x, waiters'[s])
        PROVE  status'[x] = "BLOCKED" /\ pc'[x] = "down" /\ obj'[x] = s
    <3>1. status[x] = "BLOCKED" /\ pc[x] = "down" /\ obj[x] = s
      BY <2>2, <2>9 DEF BlockedInv
    <3> QED
      BY <2>1, <2>3, <2>4, <2>6, <3>1
  <2>10. ASSUME NEW x \in AllThread, status'[x] = "BLOCKED"
         PROVE  \/ OnList(x, sleep_list')
                \/ pc'[x] = "down" /\ obj'[x] \in AllSema /\ OnList(x, waiters'[obj'[x]])
                \/ x = idle_thread'
                \/ \E y \in AllThread : child'[y] = x
    <3>1. CASE x = u
      BY <2>5, <3>1
    <3>2. CASE x # u
      <4>1. status[x] = "BLOCKED" /\ x # t /\ pc'[x] = pc[x] /\ obj'[x] = obj[x]
        BY <2>3, <2>4, <2>6, <2>10, <3>2
      <4>2. (\E y \in AllThread : child[y] = x) => \E y \in AllThread : child'[y] = x
        BY <2>5, <2>6
      <4> QED
        BY <2>2, <4>1, <4>2 DEF BlockedInv
    <3> QED
      BY <3>1, <3>2
  <2>11. ASSUME NEW x \in AllThread, child'[x] # None
         PROVE  status'[child'[x]] = "BLOCKED"
    <3>1. child'[x] \in AllThread /\ (child'[x] = u \/ status[child'[x]] = "BLOCKED")
      BY <2>1, <2>5, <2>11 DEF BlockedInv, TypeOK
    <3> QED
      BY <2>3, <3>1
  <2>12. NoDup(sleep_list') /\ \A s \in AllSema : NoDup(waiters'[s])
    BY <2>2 DEF BlockedInv
  <2>13. BlockedInv'
    BY <2>8, <2>9, <2>10, <2>11, <2>12 DEF BlockedInv, NoDup, OnList
  <2> QED
    BY <2>7, <2>13
<1>14. ASSUME NEW t \in AllThread, SemaDown(t)
      PROVE  QueueInv' /\ BlockedInv'
  <2> DEFINE s == obj[t]
  <2>1. /\ current = t /\ pc[t] = "down" /\ s \in AllSema
        /\ idle_thread' = idle_thread /\ child' = child /\ sleep_list' = sleep_list
    BY <1>14 DEF SemaDown, At, LocalsInv, AllSema, timer, tids
  <2>2. CASE AfterDown(t, s) /\ UNCHANGED <<sched, waiters>>
    <3>1. \A x \in AllThread \ {current} : pc'[x] = pc[x] /\ obj'[x] = obj[x]
      BY <2>1, <2>2 DEF AfterDown, TypeOK
    <3> QED
      BY <2>1, <2>2, <3>1, StillLists DEF ControlInv
  <2>3. CASE /\ waiters' = [waiters EXCEPT ![s] = Append(@, t)] /\ thread_block
             /\ UNCHANGED <<value, locals>>
    <3>1. /\ waiters[s] \in Seq(AllThread) /\ NoDup(waiters[s]) /\ ~OnList(t, waiters[s])
          /\ \A r \in AllSema : NoDup(waiters[r])
      BY <2>1 DEF TypeOK, BlockedInv, QueueInv
    <3>2. waiters'[s] = Append(waiters[s], t) /\ \A r \in AllSema \ {s} : waiters'[r] = waiters[r]
      BY <2>1, <2>3 DEF TypeOK
    <3>3. /\ NoDup(Append(waiters[s], t))
          /\ \A x : OnList(x, Append(waiters[s], t)) <=> OnList(x, waiters[s]) \/ x = t
      BY <3>1, ListAppend
    <3>4. NoDup(sleep_list') /\ pc' = pc /\ obj' = obj
      BY <2>1, <2>3 DEF BlockedInv, locals
    <3>5. s = obj[t]
      OBVIOUS
    <3> HIDE DEF s
    <3>6. ASSUME NEW r \in AllSema
          PROVE  /\ NoDup(waiters'[r])
                 /\ \A x \in AllThread : OnList(x, waiters'[r]) <=> OnList(x, waiters[r]) \/ (x = t /\ r = s)
      <4>1. CASE r = s
        BY <3>2, <3>3, <4>1
      <4>2. CASE r # s
        BY <3>1, <3>2, <4>2
      <4> QED
        BY <4>1, <4>2
    <3> QED
      BY <2>1, <2>3, <3>4, <3>5, <3>6, BlockLists DEF ControlInv
  <2> QED
    BY <1>14, <2>2, <2>3 DEF SemaDown
<1>15. ASSUME NEW t \in AllThread, SetHolder(t)
      PROVE  QueueInv' /\ BlockedInv'
  <2>1. /\ UNCHANGED <<sched, waiters, idle_thread>> /\ sleep_list' = sleep_list /\ child' = child
    BY <1>15 DEF SetHolder, timer, synch, tids
  <2>2. \A x \in AllThread \ {current} : pc'[x] = pc[x] /\ obj'[x] = obj[x]
    BY <1>15 DEF SetHolder, At, Calls, Goto, TypeOK
  <2> QED
    BY <2>1, <2>2, StillLists DEF ControlInv
<1>16. ASSUME NEW t \in AllThread, LockUp(t)
      PROVE  QueueInv' /\ BlockedInv'
  <2>1. obj[t] \in AllSema /\ sema_up(obj[t])
    BY <1>16 DEF LockUp, At, LocalsInv, AllSema
  <2>2. sleep_list' = sleep_list /\ child' = child /\ idle_thread' = idle_thread
    BY <1>16 DEF LockUp, timer, tids
  <2>3. \A x \in AllThread \ {current} : pc'[x] = pc[x] /\ obj'[x] = obj[x]
    BY <1>16 DEF LockUp, At, Calls, Goto, WakeIdle, TypeOK, locals
  <2> QED
    BY <2>1, <2>2, <2>3, SemaUpLists DEF ControlInv
<1>17. ASSUME NEW t \in AllThread, CondWaitRelease(t)
      PROVE  QueueInv' /\ BlockedInv'
  <2>1. /\ UNCHANGED <<sched, waiters, idle_thread>> /\ sleep_list' = sleep_list /\ child' = child
    BY <1>17 DEF CondWaitRelease, lock_release, timer, synch, tids
  <2>2. \A x \in AllThread \ {current} : pc'[x] = pc[x] /\ obj'[x] = obj[x]
    BY <1>17 DEF CondWaitRelease, lock_release, At, Calls, Goto, TypeOK
  <2> QED
    BY <2>1, <2>2, StillLists DEF ControlInv
<1>18. ASSUME NEW t \in AllThread, BroadcastStep(t)
      PROVE  QueueInv' /\ BlockedInv'
  <2>1. /\ UNCHANGED <<sched, waiters, idle_thread>> /\ sleep_list' = sleep_list /\ child' = child
    BY <1>18 DEF BroadcastStep, pop_waiter, timer, synch, tids
  <2>2. \A x \in AllThread \ {current} : pc'[x] = pc[x] /\ obj'[x] = obj[x]
    BY <1>18 DEF BroadcastStep, pop_waiter, At, Calls, Goto, TypeOK
  <2> QED
    BY <2>1, <2>2, StillLists DEF ControlInv
<1>19. ASSUME NEW t \in AllThread, SignalUp(t)
      PROVE  QueueInv' /\ BlockedInv'
  <2>1. obj[t] \in AllSema /\ sema_up(obj[t])
    BY <1>19 DEF SignalUp, At, LocalsInv, AllSema
  <2>2. sleep_list' = sleep_list /\ child' = child /\ idle_thread' = idle_thread
    BY <1>19 DEF SignalUp, timer, tids
  <2>3. \A x \in AllThread \ {current} : pc'[x] = pc[x] /\ obj'[x] = obj[x]
    BY <1>19 DEF SignalUp, At, Calls, Goto, WakeIdle, TypeOK, locals
  <2> QED
    BY <2>1, <2>2, <2>3, SemaUpLists DEF ControlInv
<1>20. ASSUME NEW t \in AllThread, TidRead(t)
      PROVE  QueueInv' /\ BlockedInv'
  <2>1. /\ UNCHANGED <<sched, waiters, idle_thread>> /\ sleep_list' = sleep_list /\ child' = child
    BY <1>20 DEF TidRead, timer, synch, tids
  <2>2. \A x \in AllThread \ {current} : pc'[x] = pc[x] /\ obj'[x] = obj[x]
    BY <1>20 DEF TidRead, At, Calls, Goto, TypeOK
  <2> QED
    BY <2>1, <2>2, StillLists DEF ControlInv
<1>21. ASSUME NEW t \in AllThread, TidWrite(t)
      PROVE  QueueInv' /\ BlockedInv'
  <2>1. /\ UNCHANGED <<sched, waiters, idle_thread>> /\ sleep_list' = sleep_list /\ child' = child
    BY <1>21 DEF TidWrite, lock_release, timer, synch, tids
  <2>2. \A x \in AllThread \ {current} : pc'[x] = pc[x] /\ obj'[x] = obj[x]
    BY <1>21 DEF TidWrite, lock_release, At, Calls, Goto, TypeOK
  <2> QED
    BY <2>1, <2>2, StillLists DEF ControlInv
<1>22. ASSUME NEW t \in AllThread, CreateUnblock(t)
      PROVE  QueueInv' /\ BlockedInv'
  <2> DEFINE u == child[t]
  <2>1. /\ u \in AllThread /\ u # None /\ pc[t] = "create" /\ current = t /\ thread_unblock(u)
        /\ child' = [child EXCEPT ![t] = None] /\ pc' = [pc EXCEPT ![u] = "run", ![t] = "run"]
        /\ UNCHANGED <<obj, sleep_list, waiters, idle_thread>>
    BY <1>22 DEF CreateUnblock, At, LocalsInv, AllThread, timer, synch
  <2>2. pc[u] = "new" /\ status[u] = "BLOCKED"
    BY <2>1 DEF PageInv, BlockedInv
  <2>3. u # idle_thread /\ u # t
    BY <2>1, <2>2 DEF TypeOK, BootInv
  <2>4. \A x \in AllThread : child'[x] = IF x = t THEN None ELSE child[x]
    BY <2>1 DEF TypeOK
  <2>5. \A x \in AllThread \ {t} : child[x] # u
    BY <2>1 DEF PageInv
  <2> HIDE DEF u
  <2>6. /\ QueueInv'
        /\ \A x \in AllThread : status'[x] = IF x = u THEN "READY" ELSE status[x]
    BY <2>1, <2>2, <2>3, UnblockQueue
  <2>7. status[t] = "RUNNING"
    BY <2>1 DEF QueueInv
  <2>8. \A x \in AllThread \ {t, u} : pc'[x] = pc[x] /\ obj'[x] = obj[x]
    BY <2>1 DEF TypeOK
  <2>9. ASSUME NEW x \in AllThread, OnList(x, sleep_list')
        PROVE  status'[x] = "BLOCKED" /\ pc'[x] = "run"
    <3>1. status[x] = "BLOCKED" /\ pc[x] = "run"
      BY <2>1, <2>9 DEF BlockedInv
    <3> QED
      BY <2>2, <2>6, <2>7, <2>8, <3>1
  <2>10. ASSUME NEW x \in AllThread, NEW s \in AllSema, OnList(x, waiters'[s])
         PROVE  status'[x] = "BLOCKED" /\ pc'[x] = "down" /\ obj'[x] = s
    <3>1. status[x] = "BLOCKED" /\ pc[x] = "down" /\ obj[x] = s
      BY <2>1, <2>10 DEF BlockedInv
    <3> QED
      BY <2>2, <2>6, <2>7, <2>8, <3>1
  <2>11. ASSUME NEW x \in AllThread, status'[x] = "BLOCKED"
         PROVE  \/ OnList(x, sleep_list')
                \/ pc'[x] = "down" /\ obj'[x] \in AllSema /\ OnList(x, waiters'[obj'[x]])
                \/ x = idle_thread'
                \/ \E y \in AllThread : child'[y] = x
    <3>1. status[x] = "BLOCKED" /\ x # t /\ x # u /\ pc'[x] = pc[x] /\ obj'[x] = obj[x]
      BY <2>6, <2>7, <2>8, <2>11
    <3>2. (\E y \in AllThread : child[y] = x) => \E y \in AllThread : child'[y] = x
      <4>1. child[t] = u
        BY DEF u
      <4> QED
        BY <2>4, <3>1, <4>1
    <3> QED
      BY <2>1, <3>1, <3>2 DEF BlockedInv
  <2>12. ASSUME NEW x \in AllThread, child'[x] # None
         PROVE  status'[child'[x]] = "BLOCKED"
    <3>1. x # t /\ child'[x] = child[x] /\ child[x] # u /\ child[x] \in AllThread
      BY <2>4, <2>5, <2>12 DEF TypeOK
    <3> QED
      BY <2>6, <2>12, <3>1 DEF BlockedInv
  <2>13. NoDup(sleep_list') /\ \A s \in AllSema : NoDup(waiters'[s])
    BY <2>1 DEF BlockedInv
  <2>14. BlockedInv'
    BY <2>9, <2>10, <2>11, <2>12, <2>13 DEF BlockedInv, NoDup, OnList
  <2> QED
    BY <2>6, <2>14
<1>23. ASSUME IdleStart
      PROVE  QueueInv' /\ BlockedInv'
  <2>1. /\ UNCHANGED sched /\ sleep_list' = sleep_list /\ waiters' = waiters /\ child' = child
        /\ idle_thread' = Idle /\ current = Idle /\ pc' = [pc EXCEPT ![Idle] = "idle_up"] /\ obj' = obj
    BY <1>23 DEF IdleStart, At, Goto, timer, synch, tids
  <2>2. status[Idle] = "RUNNING" /\ idle_thread \in {None, Idle} /\ Idle \in AllThread
    BY <2>1 DEF QueueInv, TypeOK, AllThread
  <2>3. \A x \in AllThread : status[x] = "READY" => x # None /\ x # Idle
    BY <2>2
  <2>4. QueueInv'
    BY <2>1, <2>2, <2>3 DEF QueueInv, sched, NoDup, OnList
  <2>5. \A x \in AllThread \ {current} : pc'[x] = pc[x] /\ obj'[x] = obj[x]
    BY <2>1 DEF TypeOK
  <2> QED
    BY <2>1, <2>2, <2>4, <2>5, BlockedFrame DEF sched, ControlInv
<1>24. ASSUME IdleUp
      PROVE  QueueInv' /\ BlockedInv'
  <2>1. IdleStarted \in AllSema /\ sema_up(IdleStarted)
    BY <1>24 DEF IdleUp, At, LocalsInv, AllSema
  <2>2. sleep_list' = sleep_list /\ child' = child /\ idle_thread' = idle_thread
    BY <1>24 DEF IdleUp, timer, tids
  <2>3. \A x \in AllThread \ {current} : pc'[x] = pc[x] /\ obj'[x] = obj[x]
    BY <1>24 DEF IdleUp, At, Calls, Goto, WakeIdle, TypeOK, locals
  <2> QED
    BY <2>1, <2>2, <2>3, SemaUpLists DEF ControlInv
<1>25. ASSUME IdleLoop
      PROVE  QueueInv' /\ BlockedInv'
  <2>1. /\ thread_block /\ idle_thread' = idle_thread /\ child' = child /\ current = Idle
        /\ UNCHANGED <<sleep_list, waiters, obj>> /\ pc' = [pc EXCEPT ![Idle] = "idle_hlt"]
        /\ idle_thread = Idle
    BY <1>25 DEF IdleLoop, At, Goto, timer, synch, tids, TypeOK, BootInv
  <2>2. /\ QueueInv'
        /\ \A x \in AllThread : status'[x] = "BLOCKED" => status[x] = "BLOCKED" \/ x = current
        /\ \A x \in AllThread : (status[x] = "BLOCKED" \/ x = current) /\ x # idle_thread
                                   => status'[x] = "BLOCKED"
    BY <2>1, BlockQueue
  <2>3. \A x \in AllThread \ {current} : pc'[x] = pc[x] /\ obj'[x] = obj[x]
    BY <2>1 DEF TypeOK
  <2> QED
    BY <2>1, <2>2, <2>3, BlockedFrame DEF ControlInv
<1>26. ASSUME TimerInterrupt
      PROVE  QueueInv' /\ BlockedInv'
  <2>1. PICK n \in 0..Len(sleep_list) :
            /\ sleep_list' = SubSeq(sleep_list, n + 1, Len(sleep_list))
            /\ LET rl  == ready_list \o SubSeq(sleep_list, 1, n)
                   st  == [t \in AllThread |->
                              IF \E i \in 1..n : sleep_list[i] = t THEN "READY" ELSE status[t]]
               IN IF SliceOver
                  THEN yield(st, rl)
                  ELSE ready_list' = rl /\ status' = st /\ current' = current
    BY <1>26 DEF TimerInterrupt
  <2> DEFINE due == SubSeq(sleep_list, 1, n)
             rl  == ready_list \o due
             st  == [t \in AllThread |->
                        IF \E i \in 1..n : sleep_list[i] = t THEN "READY" ELSE status[t]]
  <2>2. /\ sleep_list \in Seq(AllThread) /\ NoDup(sleep_list)
        /\ ready_list \in Seq(AllThread) /\ NoDup(ready_list)
        /\ current \in AllThread /\ idle_thread \in {None, Idle} /\ Idle \in AllThread
    BY DEF TypeOK, BlockedInv, QueueInv, AllThread
  <2>3. /\ due \in Seq(AllThread) /\ NoDup(due) /\ NoDup(sleep_list')
        /\ \A x : OnList(x, due) <=> \E i \in 1..n : sleep_list[i] = x
        /\ \A x : OnList(x, sleep_list') <=> OnList(x, sleep_list) /\ ~OnList(x, due)
    BY <2>1, <2>2, ListSplit
  <2>4. \A x : OnList(x, due) => OnList(x, sleep_list)
    <3>1. \A i \in 1..n : i \in 1..Len(sleep_list)
      BY <2>2, LenProperties
    <3> HIDE DEF due
    <3> QED
      BY <2>3, <3>1 DEF OnList
  <2>5. /\ st \in [AllThread -> Status]
        /\ \A x \in AllThread : st[x] = IF OnList(x, due) THEN "READY" ELSE status[x]
    <3> HIDE DEF due
    <3> QED
      BY <2>3 DEF TypeOK, Status
  <2> HIDE DEF due, st
  <2>6. \A x \in AllThread : OnList(x, sleep_list) =>
            status[x] = "BLOCKED" /\ pc[x] = "run" /\ x # current /\ x # idle_thread
    BY <2>2 DEF BlockedInv, QueueInv, BootInv
  <2>7. \A x \in AllThread : ~(OnList(x, ready_list) /\ OnList(x, due))
    BY <2>4, <2>6 DEF QueueInv
  <2>8. /\ NoDup(rl) /\ rl \in Seq(AllThread)
        /\ \A x \in AllThread : OnList(x, rl) <=> OnList(x, ready_list) \/ OnList(x, due)
    BY <2>2, <2>3, <2>7, ListConcat, ConcatProperties
  <2>9. IF SliceOver THEN yield(st, rl)
        ELSE ready_list' = rl /\ status' = st /\ current' = current
    BY <2>1 DEF due, st
  <2> HIDE DEF rl
  <2>10. /\ \A x \in AllThread : OnList(x, rl) <=> st[x] = "READY" /\ x # idle_thread
         /\ \A x \in AllThread : st[x] = "RUNNING" <=> x = current
    BY <2>4, <2>5, <2>6, <2>8 DEF QueueInv
  <2>11. /\ idle_thread' = idle_thread /\ waiters' = waiters /\ child' = child /\ obj' = obj /\ WakeIdle
    BY <1>26 DEF TimerInterrupt, synch, tids
  <2>12. /\ QueueInv'
         /\ \A x \in AllThread : status'[x] = "BLOCKED" => st[x] = "BLOCKED"
         /\ \A x \in AllThread : st[x] = "BLOCKED" /\ x # idle_thread => status'[x] = "BLOCKED"
    <3>1. CASE SliceOver
      BY <2>2, <2>5, <2>8, <2>9, <2>10, <2>11, <3>1, YieldQueue
    <3>2. CASE ~SliceOver
      BY <2>8, <2>9, <2>10, <2>11, <3>2 DEF QueueInv, NoDup, OnList
    <3> QED
      BY <3>1, <3>2
  <2>13. \A x \in AllThread \ {current} : pc'[x] = pc[x]
    BY <2>11 DEF WakeIdle, At, TypeOK
  <2>14. \A x \in AllThread : status[x] = "BLOCKED" => x # current
    BY DEF QueueInv
  <2>15. \A x \in AllThread : OnList(x, sleep_list') => status'[x] = "BLOCKED" /\ pc'[x] = "run"
    BY <2>3, <2>5, <2>6, <2>12, <2>13
  <2>16. ASSUME NEW x \in AllThread, NEW s \in AllSema, OnList(x, waiters'[s])
         PROVE  status'[x] = "BLOCKED" /\ pc'[x] = "down" /\ obj'[x] = s
    <3>1. status[x] = "BLOCKED" /\ pc[x] = "down" /\ obj[x] = s
      BY <2>11, <2>16 DEF BlockedInv
    <3>2. x # idle_thread /\ ~OnList(x, due)
      BY <2>2, <2>4, <2>6, <3>1 DEF BootInv
    <3> QED
      BY <2>5, <2>11, <2>12, <2>13, <2>14, <3>1, <3>2
  <2>17. ASSUME NEW x \in AllThread, status'[x] = "BLOCKED"
         PROVE  \/ OnList(x, sleep_list')
                \/ pc'[x] = "down" /\ obj'[x] \in AllSema /\ OnList(x, waiters'[obj'[x]])
                \/ x = idle_thread'
                \/ \E u \in AllThread : child'[u] = x
    <3>1. status[x] = "BLOCKED" /\ ~OnList(x, due)
      BY <2>5, <2>12, <2>17
    <3>2. pc'[x] = pc[x]
      BY <2>13, <2>14, <3>1
    <3> QED
      BY <2>3, <2>11, <3>1, <3>2 DEF BlockedInv
  <2>18. ASSUME NEW x \in AllThread, child'[x] # None
         PROVE  status'[child'[x]] = "BLOCKED"
    <3>1. /\ child[x] \in AllThread /\ pc[child[x]] = "new" /\ status[child[x]] = "BLOCKED"
          /\ child'[x] = child[x]
      BY <2>11, <2>18 DEF BlockedInv, PageInv, TypeOK
    <3>2. child[x] # idle_thread /\ ~OnList(child[x], due)
      BY <2>2, <2>4, <2>6, <3>1 DEF BootInv
    <3> QED
      BY <2>5, <2>12, <3>1, <3>2
  <2>19. \A s \in AllSema : NoDup(waiters'[s])
    BY <2>11 DEF BlockedInv
  <2>20. BlockedInv'
    BY <2>3, <2>15, <2>16, <2>17, <2>18, <2>19 DEF BlockedInv, NoDup, OnList
  <2> QED
    BY <2>12, <2>20
<1>27. ASSUME NEW s \in Sema \ {IdleStarted}, DeviceInterrupt(s)
      PROVE  QueueInv' /\ BlockedInv'
  <2>1. s \in AllSema /\ sema_up(s)
    BY <1>27 DEF DeviceInterrupt, At, LocalsInv, AllSema
  <2>2. sleep_list' = sleep_list /\ child' = child /\ idle_thread' = idle_thread
    BY <1>27 DEF DeviceInterrupt, timer, tids
  <2>3. \A x \in AllThread \ {current} : pc'[x] = pc[x] /\ obj'[x] = obj[x]
    BY <1>27 DEF DeviceInterrupt, At, Calls, Goto, WakeIdle, TypeOK, locals
  <2> QED
    BY <2>1, <2>2, <2>3, SemaUpLists DEF ControlInv
<1>28. CASE UNCHANGED vars
  BY <1>28 DEF QueueInv, BlockedInv, NoDup, OnList, vars, sched, timer, synch, tids, locals
<1> QED
  BY <1>1, <1>2, <1>3, <1>4, <1>5, <1>6, <1>7, <1>8, <1>9, <1>10, <1>11, <1>12, <1>13, <1>14,
     <1>15, <1>16, <1>17, <1>18, <1>19, <1>20, <1>21, <1>22, <1>23, <1>24, <1>25, <1>26,
     <1>27, <1>28
     DEF Next, Call, Continue, IdleStep, Interrupt


\* The inductive invariant behind the accounting of threads.
ListInv == LockInv /\ QueueInv /\ BlockedInv

LEMMA ListInvariant == Spec => []ListInv
<1>1. Init => QueueInv /\ BlockedInv
  <2> SUFFICES ASSUME Init PROVE QueueInv /\ BlockedInv
    OBVIOUS
  <2> USE KernelAssumption
  <2>1. \A t : OnList(t, <<Idle>>) <=> t = Idle
    BY DEF OnList
  <2>2. NoDup(<<Idle>>) /\ NoDup(<<>>)
    BY DEF NoDup
  <2>3. QueueInv
    BY <2>1, <2>2 DEF Init, QueueInv, AllThread
  <2>4. \A s \in AllSema : waiters[s] = <<>>
    BY DEF Init
  <2>5. /\ sleep_list = <<>> /\ \A t \in AllThread : child[t] = None
        /\ \A t \in AllThread : status[t] # "BLOCKED"
    BY DEF Init, AllThread
  <2>6. BlockedInv
    BY <2>2, <2>4, <2>5, ListEmpty DEF BlockedInv
  <2> QED
    BY <2>3, <2>6
<1>2. LockInv /\ QueueInv /\ BlockedInv /\ [Next]_vars => QueueInv' /\ BlockedInv'
  BY ListsPreserved DEF LockInv
<1> QED
  BY <1>1, <1>2, LockInvariant, PTL DEF Spec, ListInv

\* thread.h's promise that one `elem' serves the run queue, the sleep list and
\* the wait lists, and thread.c's that nobody is lost between them: a thread is
\* on exactly the list its status stands for.
THEOREM ThreadsOnTheirLists == Spec => []ThreadsAccounted
<1>1. ListInv => ThreadsAccounted
  <2> SUFFICES ASSUME ListInv PROVE ThreadsAccounted
    OBVIOUS
  <2> USE KernelAssumption
  <2>1. /\ TypeOK /\ QueueInv /\ BlockedInv /\ ready_list \in Seq(AllThread)
        /\ sleep_list \in Seq(AllThread) /\ \A s \in AllSema : waiters[s] \in Seq(AllThread)
        /\ idle_thread \in {None, Idle} /\ Idle \in AllThread
    BY DEF ListInv, LockInv, ControlInv, TypeOK, AllThread
  <2>2. /\ DOMAIN ready_list = 1..Len(ready_list) /\ DOMAIN sleep_list = 1..Len(sleep_list)
        /\ \A s \in AllSema : DOMAIN waiters[s] = 1..Len(waiters[s])
    BY <2>1
  <2>3. ASSUME NEW t \in AllThread
        PROVE  /\ \A i \in QueuedAt(t) : i \in 1..Len(ready_list) /\ ready_list[i] = t
               /\ \A i \in AsleepAt(t) : i \in 1..Len(sleep_list) /\ sleep_list[i] = t
               /\ QueuedAt(t) # {} <=> OnList(t, ready_list)
               /\ AsleepAt(t) # {} <=> OnList(t, sleep_list)
    BY <2>2 DEF QueuedAt, AsleepAt, OnList
  <2>4. ASSUME NEW t \in AllThread, NEW p \in WaitsAt(t)
        PROVE  \E s \in AllSema : \E i \in 1..Len(waiters[s]) : p = <<s, i>> /\ waiters[s][i] = t
    BY <2>2, <2>4 DEF WaitsAt
  <2>5. ASSUME NEW t \in AllThread, NEW s \in AllSema, OnList(t, waiters[s])
        PROVE  WaitsAt(t) # {}
    <3>1. PICK i \in 1..Len(waiters[s]) : waiters[s][i] = t
      BY <2>5 DEF OnList
    <3>2. <<s, i>> \in WaitsAt(t)
      BY <2>2, <3>1 DEF WaitsAt
    <3> QED
      BY <3>2
  <2>6. ASSUME NEW t \in AllThread, NEW p \in WaitsAt(t)
        PROVE  status[t] = "BLOCKED" /\ pc[t] = "down"
    <3>1. PICK s \in AllSema : \E i \in 1..Len(waiters[s]) : p = <<s, i>> /\ waiters[s][i] = t
      BY <2>4, <2>6
    <3>2. OnList(t, waiters[s])
      BY <3>1 DEF OnList
    <3> QED
      BY <2>1, <3>2 DEF BlockedInv
  <2>7. ASSUME NEW t \in AllThread, NEW p \in WaitsAt(t), NEW q \in WaitsAt(t)
        PROVE  p = q
    <3>1. PICK r \in AllSema : \E i \in 1..Len(waiters[r]) : p = <<r, i>> /\ waiters[r][i] = t
      BY <2>4, <2>7
    <3>2. PICK i \in 1..Len(waiters[r]) : p = <<r, i>> /\ waiters[r][i] = t
      BY <3>1
    <3>3. PICK s \in AllSema : \E j \in 1..Len(waiters[s]) : q = <<s, j>> /\ waiters[s][j] = t
      BY <2>4, <2>7
    <3>4. PICK j \in 1..Len(waiters[s]) : q = <<s, j>> /\ waiters[s][j] = t
      BY <3>3
    <3>5. OnList(t, waiters[r]) /\ OnList(t, waiters[s])
      BY ONLY <3>2, <3>4 DEF OnList
    <3>6. r = s
      BY <2>1, <3>5 DEF BlockedInv
    <3>7. i = j
      <4>1. NoDup(waiters[r])
        BY <2>1 DEF BlockedInv
      <4> QED
        BY ONLY <3>2, <3>4, <3>6, <4>1 DEF NoDup
    <3> QED
      BY <3>2, <3>4, <3>6, <3>7
  <2>8. ElemOnOneList
    <3> SUFFICES ASSUME NEW t \in AllThread
                 PROVE  /\ \A i, j \in QueuedAt(t) : i = j
                        /\ \A i, j \in AsleepAt(t) : i = j
                        /\ \A p, q \in WaitsAt(t) : p = q
                        /\ AsleepAt(t) = {} \/ WaitsAt(t) = {}
                        /\ QueuedAt(t) # {} => status[t] = "READY"
                        /\ AsleepAt(t) \cup WaitsAt(t) # {} => status[t] = "BLOCKED"
      BY DEF ElemOnOneList
    <3>1. \A i, j \in QueuedAt(t) : i = j
      BY <2>1, <2>3 DEF QueueInv, NoDup
    <3>2. \A i, j \in AsleepAt(t) : i = j
      BY <2>1, <2>3 DEF BlockedInv, NoDup
    <3>3. \A p, q \in WaitsAt(t) : p = q
      BY <2>7
    <3>4. AsleepAt(t) # {} => status[t] = "BLOCKED" /\ pc[t] = "run"
      BY <2>1, <2>3 DEF BlockedInv
    <3>5. WaitsAt(t) # {} => status[t] = "BLOCKED" /\ pc[t] = "down"
      BY <2>6
    <3>6. QueuedAt(t) # {} => status[t] = "READY"
      BY <2>1, <2>3 DEF QueueInv
    <3> QED
      BY <3>1, <3>2, <3>3, <3>4, <3>5, <3>6
  <2>9. NoThreadForgotten
    <3>1. ASSUME NEW t \in AllThread
          PROVE  /\ status[t] = "RUNNING" <=> t = current
                 /\ status[t] = "READY" => QueuedAt(t) # {} \/ t = idle_thread
                 /\ status[t] = "BLOCKED" =>
                       \/ AsleepAt(t) \cup WaitsAt(t) # {}
                       \/ t = idle_thread
                       \/ \E u \in AllThread : child[u] = t
      <4>1. /\ status[t] = "RUNNING" <=> t = current
            /\ status[t] = "READY" => QueuedAt(t) # {} \/ t = idle_thread
        BY <2>1, <2>3 DEF QueueInv
      <4>2. ASSUME status[t] = "BLOCKED", t # idle_thread, ~\E u \in AllThread : child[u] = t
            PROVE  OnList(t, sleep_list) \/ \E s \in AllSema : OnList(t, waiters[s])
        BY <2>1, <4>2 DEF BlockedInv
      <4> QED
        BY <2>3, <2>5, <4>1, <4>2
    <3>2. idle_thread # None => QueuedAt(idle_thread) = {}
      BY <2>1, <2>3 DEF QueueInv
    <3> QED
      BY <3>1, <3>2 DEF NoThreadForgotten
  <2> QED
    BY <2>8, <2>9 DEF ThreadsAccounted
<1> QED
  BY <1>1, ListInvariant, PTL
-----------------------------------------------------------------------------


\* schedule () runs the idle thread only when the run queue is empty.
LEMMA ScheduleHalt ==
    ASSUME NEW st, NEW rl \in Seq(AllThread), schedule(st, rl), ~OnList(idle_thread, rl)
    PROVE  current' = idle_thread => ready_list' = <<>>
<1>1. CASE rl = <<>>
  BY <1>1 DEF schedule
<1>2. CASE rl # <<>>
  <2>1. Len(rl) \in Nat /\ Len(rl) >= 1 /\ Head(rl) = rl[1]
    BY <1>2, HeadTailProperties, LenProperties, EmptySeq
  <2>2. current' = Head(rl)
    BY <1>2 DEF schedule, next_thread_to_run
  <2>3. 1 \in 1..Len(rl)
    BY <2>1
  <2> QED
    BY <2>1, <2>2, <2>3 DEF OnList
<1> QED
  BY <1>1, <1>2

LEMMA YieldHalt ==
    ASSUME NEW st, NEW rl \in Seq(AllThread), yield(st, rl), current \in AllThread,
           ~OnList(idle_thread, rl)
    PROVE  current' = idle_thread => ready_list' = <<>>
<1>1. CASE current = idle_thread
  <2>1. schedule([st EXCEPT ![current] = "READY"], rl)
    BY <1>1 DEF yield
  <2> QED
    BY <2>1, ScheduleHalt
<1>2. CASE current # idle_thread
  <2>1. schedule([st EXCEPT ![current] = "READY"], Append(rl, current))
    BY <1>2 DEF yield
  <2>2. Append(rl, current) \in Seq(AllThread) /\ ~OnList(idle_thread, Append(rl, current))
    <3> DEFINE r == Append(rl, current)
    <3>1. /\ r \in Seq(AllThread) /\ Len(r) = Len(rl) + 1 /\ r[Len(rl) + 1] = current
          /\ Len(rl) \in Nat /\ \A i \in 1..Len(rl) : r[i] = rl[i]
      BY AppendProperties, LenProperties
    <3> HIDE DEF r
    <3>2. \A i \in 1..Len(r) : i \in 1..Len(rl) \/ i = Len(rl) + 1
      BY <3>1
    <3>3. r \in Seq(AllThread) /\ ~OnList(idle_thread, r)
      BY <1>2, <3>1, <3>2 DEF OnList
    <3> QED
      BY <3>3 DEF r
  <2> QED
    BY <2>1, <2>2, ScheduleHalt
<1> QED
  BY <1>1, <1>2

\* Whatever makes a thread ready while the CPU is halted also ends the halt.
LEMMA HaltPreserved ==
    ASSUME ListInv, HaltsOnlyWhenIdle, [Next]_vars
    PROVE  HaltsOnlyWhenIdle'
<1> USE KernelAssumption
<1>a. /\ ready_list \in Seq(AllThread) /\ sleep_list \in Seq(AllThread) /\ NoDup(sleep_list)
      /\ current \in AllThread /\ Idle \in AllThread /\ pc \in [AllThread -> PC]
      /\ ~OnList(idle_thread, ready_list) /\ ~OnList(idle_thread, sleep_list)
  <2>1. TypeOK /\ BootInv /\ QueueInv /\ BlockedInv /\ Idle \in AllThread
    BY DEF ListInv, LockInv, ControlInv, AllThread
  <2>2. /\ ready_list \in Seq(AllThread) /\ sleep_list \in Seq(AllThread) /\ NoDup(sleep_list)
        /\ current \in AllThread /\ pc \in [AllThread -> PC] /\ idle_thread \in {None, Idle}
    BY <2>1 DEF TypeOK, BlockedInv
  <2>3. CASE idle_thread = None
    <3>1. /\ \A i \in 1..Len(ready_list) : ready_list[i] \in AllThread
          /\ \A i \in 1..Len(sleep_list) : sleep_list[i] \in AllThread
      BY <2>2, ElementOfSeq
    <3> QED
      BY <2>1, <2>2, <2>3, <3>1 DEF OnList
  <2>4. CASE idle_thread = Idle
    <3>1. ~OnList(Idle, ready_list)
      BY <2>1, <2>4 DEF QueueInv
    <3>2. ~OnList(Idle, sleep_list)
      BY <2>1, <2>4 DEF BlockedInv, BootInv
    <3> QED
      BY <2>1, <2>2, <2>4, <3>1, <3>2
  <2> QED
    BY <2>2, <2>3, <2>4
<1>b. pc[Idle] # "idle_start" => idle_thread = Idle
  BY DEF ListInv, LockInv, ControlInv, TypeOK, BootInv
<1>c. \A x \in AllThread : (x = Idle) <=> pc[x] \in {"idle_start", "idle_up", "idle_loop", "idle_hlt"}
  BY DEF ListInv, LockInv, ControlInv, BootInv
<1>1. ASSUME NEW t \in AllThread, ThreadYield(t)
      PROVE  HaltsOnlyWhenIdle'
  <2>1. yield(status, ready_list) /\ pc' = pc /\ idle_thread' = idle_thread
    BY <1>1 DEF ThreadYield, locals
  <2>2. current' = idle_thread => ready_list' = <<>>
    BY <1>a, <2>1, YieldHalt
  <2> QED
    BY <1>b, <2>1, <2>2 DEF HaltsOnlyWhenIdle, At
<1>2. ASSUME NEW t \in AllThread, ThreadExit(t)
      PROVE  HaltsOnlyWhenIdle'
  <2>1. /\ schedule([status EXCEPT ![t] = IF t = Main THEN "DYING" ELSE "FREE"], ready_list)
        /\ pc' = pc /\ idle_thread' = idle_thread
    BY <1>2 DEF ThreadExit, locals
  <2>2. current' = idle_thread => ready_list' = <<>>
    BY <1>a, <2>1, ScheduleHalt
  <2> QED
    BY <1>b, <2>1, <2>2 DEF HaltsOnlyWhenIdle, At
<1>3. ASSUME NEW t \in AllThread, NEW n \in SleepTicks, TimerSleep(t, n)
      PROVE  HaltsOnlyWhenIdle'
  <2>1. thread_block /\ pc' = pc /\ idle_thread' = idle_thread
    BY <1>3 DEF TimerSleep, locals
  <2>2. current' = idle_thread => ready_list' = <<>>
    BY <1>a, <2>1, ScheduleHalt DEF thread_block
  <2> QED
    BY <1>b, <2>1, <2>2 DEF HaltsOnlyWhenIdle, At
<1>4. ASSUME NEW t \in AllThread, NEW s \in Sema \ {IdleStarted}, CallSemaDown(t, s)
      PROVE  HaltsOnlyWhenIdle'
  <2>1. current = t /\ current' = t /\ pc[t] \notin {"idle_start", "idle_up", "idle_loop", "idle_hlt"}
    BY <1>4 DEF CallSemaDown, Calls, At, sched
  <2> QED
    BY <1>c, <2>1 DEF HaltsOnlyWhenIdle, At
<1>5. ASSUME NEW t \in AllThread, NEW s \in Sema \ {IdleStarted}, CallSemaUp(t, s)
      PROVE  HaltsOnlyWhenIdle'
  <2>1. current = t /\ current' = t /\ pc[t] \notin {"idle_start", "idle_up", "idle_loop", "idle_hlt"}
    BY <1>5 DEF CallSemaUp, Calls, At, sched, sema_up, thread_unblock
  <2> QED
    BY <1>c, <2>1 DEF HaltsOnlyWhenIdle, At
<1>6. ASSUME NEW t \in AllThread, NEW s \in Sema \ {IdleStarted}, SemaTryDown(t, s)
      PROVE  HaltsOnlyWhenIdle'
  <2>1. current = t /\ current' = t /\ pc[t] \notin {"idle_start", "idle_up", "idle_loop", "idle_hlt"}
    BY <1>6 DEF SemaTryDown, Calls, At, sched
  <2> QED
    BY <1>c, <2>1 DEF HaltsOnlyWhenIdle, At
<1>7. ASSUME NEW t \in AllThread, NEW l \in Lock \ {TidLock}, CallLockAcquire(t, l)
      PROVE  HaltsOnlyWhenIdle'
  <2>1. current = t /\ current' = t /\ pc[t] \notin {"idle_start", "idle_up", "idle_loop", "idle_hlt"}
    BY <1>7 DEF CallLockAcquire, Calls, At, sched
  <2> QED
    BY <1>c, <2>1 DEF HaltsOnlyWhenIdle, At
<1>8. ASSUME NEW t \in AllThread, NEW l \in Lock \ {TidLock}, LockTryAcquire(t, l)
      PROVE  HaltsOnlyWhenIdle'
  <2>1. current = t /\ current' = t /\ pc[t] \notin {"idle_start", "idle_up", "idle_loop", "idle_hlt"}
    BY <1>8 DEF LockTryAcquire, Calls, At, sched
  <2> QED
    BY <1>c, <2>1 DEF HaltsOnlyWhenIdle, At
<1>9. ASSUME NEW t \in AllThread, NEW l \in Lock \ {TidLock}, CallLockRelease(t, l)
      PROVE  HaltsOnlyWhenIdle'
  <2>1. current = t /\ current' = t /\ pc[t] \notin {"idle_start", "idle_up", "idle_loop", "idle_hlt"}
    BY <1>9 DEF CallLockRelease, Calls, At, sched
  <2> QED
    BY <1>c, <2>1 DEF HaltsOnlyWhenIdle, At
<1>10. ASSUME NEW t \in AllThread, NEW c \in Cond, CondWait(t, c)
      PROVE  HaltsOnlyWhenIdle'
  <2>1. current = t /\ current' = t /\ pc[t] \notin {"idle_start", "idle_up", "idle_loop", "idle_hlt"}
    BY <1>10 DEF CondWait, Calls, At, sched
  <2> QED
    BY <1>c, <2>1 DEF HaltsOnlyWhenIdle, At
<1>11. ASSUME NEW t \in AllThread, NEW c \in Cond, CondSignal(t, c)
      PROVE  HaltsOnlyWhenIdle'
  <2>1. current = t /\ current' = t /\ pc[t] \notin {"idle_start", "idle_up", "idle_loop", "idle_hlt"}
    BY <1>11 DEF CondSignal, Calls, At, sched
  <2> QED
    BY <1>c, <2>1 DEF HaltsOnlyWhenIdle, At
<1>12. ASSUME NEW t \in AllThread, NEW c \in Cond, CondBroadcast(t, c)
      PROVE  HaltsOnlyWhenIdle'
  <2>1. current = t /\ current' = t /\ pc[t] \notin {"idle_start", "idle_up", "idle_loop", "idle_hlt"}
    BY <1>12 DEF CondBroadcast, Calls, At, sched
  <2> QED
    BY <1>c, <2>1 DEF HaltsOnlyWhenIdle, At
<1>13. ASSUME NEW t \in AllThread, NEW u \in Thread, ThreadCreate(t, u)
      PROVE  HaltsOnlyWhenIdle'
  <2>1. current = t /\ current' = t /\ pc[t] \notin {"idle_start", "idle_up", "idle_loop", "idle_hlt"}
    BY <1>13 DEF ThreadCreate, Calls, At, sched
  <2> QED
    BY <1>c, <2>1 DEF HaltsOnlyWhenIdle, At
<1>14. ASSUME NEW t \in AllThread, SemaDown(t)
      PROVE  HaltsOnlyWhenIdle'
  <2>1. current = t /\ pc[t] = "down" /\ idle_thread' = idle_thread
    BY <1>14 DEF SemaDown, At
  <2>2. CASE thread_block /\ pc' = pc
    <3>1. current' = idle_thread => ready_list' = <<>>
      BY <1>a, <2>2, ScheduleHalt DEF thread_block
    <3> QED
      BY <1>b, <2>1, <2>2, <3>1 DEF HaltsOnlyWhenIdle, At
  <2>3. CASE current' = current
    BY <1>c, <2>1, <2>3 DEF HaltsOnlyWhenIdle, At
  <2> QED
    BY <1>14, <2>2, <2>3 DEF SemaDown, sched, locals
<1>15. ASSUME NEW t \in AllThread, SetHolder(t)
      PROVE  HaltsOnlyWhenIdle'
  <2>1. current = t /\ current' = t /\ pc[t] \notin {"idle_start", "idle_up", "idle_loop", "idle_hlt"}
    BY <1>15 DEF SetHolder, Calls, At, sched
  <2> QED
    BY <1>c, <2>1 DEF HaltsOnlyWhenIdle, At
<1>16. ASSUME NEW t \in AllThread, LockUp(t)
      PROVE  HaltsOnlyWhenIdle'
  <2>1. current = t /\ current' = t /\ pc[t] \notin {"idle_start", "idle_up", "idle_loop", "idle_hlt"}
    BY <1>16 DEF LockUp, At, sched, sema_up, thread_unblock
  <2> QED
    BY <1>c, <2>1 DEF HaltsOnlyWhenIdle, At
<1>17. ASSUME NEW t \in AllThread, CondWaitRelease(t)
      PROVE  HaltsOnlyWhenIdle'
  <2>1. current = t /\ current' = t /\ pc[t] \notin {"idle_start", "idle_up", "idle_loop", "idle_hlt"}
    BY <1>17 DEF CondWaitRelease, At, sched
  <2> QED
    BY <1>c, <2>1 DEF HaltsOnlyWhenIdle, At
<1>18. ASSUME NEW t \in AllThread, BroadcastStep(t)
      PROVE  HaltsOnlyWhenIdle'
  <2>1. current = t /\ current' = t /\ pc[t] \notin {"idle_start", "idle_up", "idle_loop", "idle_hlt"}
    BY <1>18 DEF BroadcastStep, At, sched
  <2> QED
    BY <1>c, <2>1 DEF HaltsOnlyWhenIdle, At
<1>19. ASSUME NEW t \in AllThread, SignalUp(t)
      PROVE  HaltsOnlyWhenIdle'
  <2>1. current = t /\ current' = t /\ pc[t] \notin {"idle_start", "idle_up", "idle_loop", "idle_hlt"}
    BY <1>19 DEF SignalUp, At, sched, sema_up, thread_unblock
  <2> QED
    BY <1>c, <2>1 DEF HaltsOnlyWhenIdle, At
<1>20. ASSUME NEW t \in AllThread, TidRead(t)
      PROVE  HaltsOnlyWhenIdle'
  <2>1. current = t /\ current' = t /\ pc[t] \notin {"idle_start", "idle_up", "idle_loop", "idle_hlt"}
    BY <1>20 DEF TidRead, At, sched
  <2> QED
    BY <1>c, <2>1 DEF HaltsOnlyWhenIdle, At
<1>21. ASSUME NEW t \in AllThread, TidWrite(t)
      PROVE  HaltsOnlyWhenIdle'
  <2>1. current = t /\ current' = t /\ pc[t] \notin {"idle_start", "idle_up", "idle_loop", "idle_hlt"}
    BY <1>21 DEF TidWrite, At, sched
  <2> QED
    BY <1>c, <2>1 DEF HaltsOnlyWhenIdle, At
<1>22. ASSUME NEW t \in AllThread, CreateUnblock(t)
      PROVE  HaltsOnlyWhenIdle'
  <2>1. current = t /\ current' = t /\ pc[t] \notin {"idle_start", "idle_up", "idle_loop", "idle_hlt"}
    BY <1>22 DEF CreateUnblock, At, sched, sema_up, thread_unblock
  <2> QED
    BY <1>c, <2>1 DEF HaltsOnlyWhenIdle, At
<1>23. ASSUME IdleStart
      PROVE  HaltsOnlyWhenIdle'
  BY <1>23, <1>a DEF IdleStart, Goto, HaltsOnlyWhenIdle, At
<1>24. ASSUME IdleUp
      PROVE  HaltsOnlyWhenIdle'
  BY <1>24, <1>a DEF IdleUp, Goto, HaltsOnlyWhenIdle, At
<1>25. ASSUME IdleLoop
      PROVE  HaltsOnlyWhenIdle'
  <2>1. thread_block /\ pc[Idle] = "idle_loop" /\ idle_thread' = idle_thread
    BY <1>25 DEF IdleLoop, At
  <2>2. current' = idle_thread => ready_list' = <<>>
    BY <1>a, <2>1, ScheduleHalt DEF thread_block
  <2> QED
    BY <1>b, <2>1, <2>2 DEF HaltsOnlyWhenIdle, At
<1>26. ASSUME TimerInterrupt
      PROVE  HaltsOnlyWhenIdle'
  <2>1. PICK n \in 0..Len(sleep_list) :
            IF SliceOver
            THEN yield([t \in AllThread |->
                           IF \E i \in 1..n : sleep_list[i] = t THEN "READY" ELSE status[t]],
                       ready_list \o SubSeq(sleep_list, 1, n))
            ELSE current' = current
    BY <1>26 DEF TimerInterrupt
  <2>2. WakeIdle /\ idle_thread' = idle_thread
    BY <1>26 DEF TimerInterrupt
  <2>3. CASE SliceOver
    <3> DEFINE due == SubSeq(sleep_list, 1, n)
               rl == ready_list \o due
    <3>1. /\ due \in Seq(AllThread) /\ \A x : OnList(x, due) <=> \E i \in 1..n : sleep_list[i] = x
      BY <1>a, ListSplit
    <3>2. \A i \in 1..n : i \in 1..Len(sleep_list)
      BY <1>a, LenProperties
    <3>3. ~OnList(idle_thread, due)
      <4> HIDE DEF due
      <4>1. OnList(idle_thread, due) => OnList(idle_thread, sleep_list)
        BY <3>1, <3>2 DEF OnList
      <4> QED
        BY <1>a, <4>1
    <3>4. rl \in Seq(AllThread) /\ ~OnList(idle_thread, rl)
      <4> HIDE DEF due
      <4>1. /\ rl \in Seq(AllThread) /\ Len(ready_list) \in Nat /\ Len(due) \in Nat
            /\ Len(rl) = Len(ready_list) + Len(due)
            /\ \A i \in 1..Len(rl) : rl[i] = IF i <= Len(ready_list) THEN ready_list[i]
                                            ELSE due[i - Len(ready_list)]
        BY <1>a, <3>1, ConcatProperties, LenProperties
      <4> HIDE DEF rl
      <4>2. \A i \in 1..Len(rl) : IF i <= Len(ready_list) THEN i \in 1..Len(ready_list)
                                 ELSE i - Len(ready_list) \in 1..Len(due)
        BY <4>1
      <4> QED
        BY <1>a, <3>3, <4>1, <4>2 DEF OnList
    <3> HIDE DEF rl
    <3>5. current' = idle_thread => ready_list' = <<>>
      <4>1. yield([t \in AllThread |->
                      IF \E i \in 1..n : sleep_list[i] = t THEN "READY" ELSE status[t]], rl)
        BY <2>1, <2>3 DEF rl
      <4> QED
        BY <1>a, <3>4, <4>1, YieldHalt
    <3>6. pc'[Idle] = "idle_hlt" => pc[Idle] = "idle_hlt"
      BY <1>a, <2>2 DEF WakeIdle
    <3> QED
      BY <1>b, <2>2, <3>5, <3>6 DEF HaltsOnlyWhenIdle, At
  <2>4. CASE ~SliceOver
    BY <1>a, <2>1, <2>2, <2>4 DEF HaltsOnlyWhenIdle, At, WakeIdle
  <2> QED
    BY <2>3, <2>4
<1>27. ASSUME NEW s \in Sema \ {IdleStarted}, DeviceInterrupt(s)
      PROVE  HaltsOnlyWhenIdle'
  <2>1. WakeIdle /\ current' = current
    BY <1>27 DEF DeviceInterrupt, sema_up, thread_unblock, sched
  <2> QED
    BY <1>a, <2>1 DEF HaltsOnlyWhenIdle, At, WakeIdle
<1>28. CASE UNCHANGED vars
  BY <1>28 DEF HaltsOnlyWhenIdle, At, vars, sched, timer, synch, tids, locals
<1> QED
  BY <1>1, <1>2, <1>3, <1>4, <1>5, <1>6, <1>7, <1>8, <1>9, <1>10, <1>11, <1>12, <1>13, <1>14,
     <1>15, <1>16, <1>17, <1>18, <1>19, <1>20, <1>21, <1>22, <1>23, <1>24, <1>25, <1>26,
     <1>27, <1>28
     DEF Next, Call, Continue, IdleStep, Interrupt

\* idle () halts the CPU only when no thread is ready: an interrupt that makes a
\* thread ready ends the hlt, and the idle thread blocks before the next one.
THEOREM HaltsWithNothingToRun == Spec => []HaltsOnlyWhenIdle
<1>1. Init => HaltsOnlyWhenIdle
  BY KernelAssumption DEF Init, HaltsOnlyWhenIdle, At
<1>2. ListInv /\ HaltsOnlyWhenIdle /\ [Next]_vars => HaltsOnlyWhenIdle'
  BY HaltPreserved
<1> QED
  BY <1>1, <1>2, ListInvariant, PTL DEF Spec
-----------------------------------------------------------------------------


\* timer.c keeps the sleep list sorted by the tick the threads are due at, and
\* nobody on it is overdue.
SleepInv ==
    /\ \A i, j \in 1..Len(sleep_list) : i <= j => wake[sleep_list[i]] <= wake[sleep_list[j]]
    /\ \A i \in 1..Len(sleep_list) :
          ticks < wake[sleep_list[i]] /\ wake[sleep_list[i]] <= MaxTicks

\* Only timer_sleep and the timer interrupt touch the sleep list and the clock.
LEMMA OnlyTimerWakes ==
    ASSUME [Next]_vars
    PROVE  TimerInterrupt \/ (\E x \in AllThread, k \in SleepTicks : TimerSleep(x, k)) \/ UNCHANGED timer
<1> USE KernelAssumption
<1>1. ASSUME NEW t \in AllThread, ThreadYield(t)
      PROVE  TimerInterrupt \/ (\E x \in AllThread, k \in SleepTicks : TimerSleep(x, k)) \/ UNCHANGED timer
  BY <1>1 DEF ThreadYield
<1>2. ASSUME NEW t \in AllThread, ThreadExit(t)
      PROVE  TimerInterrupt \/ (\E x \in AllThread, k \in SleepTicks : TimerSleep(x, k)) \/ UNCHANGED timer
  BY <1>2 DEF ThreadExit
<1>3. ASSUME NEW t \in AllThread, NEW n \in SleepTicks, TimerSleep(t, n)
      PROVE  TimerInterrupt \/ (\E x \in AllThread, k \in SleepTicks : TimerSleep(x, k)) \/ UNCHANGED timer
  BY <1>3
<1>4. ASSUME NEW t \in AllThread, NEW s \in Sema \ {IdleStarted}, CallSemaDown(t, s)
      PROVE  TimerInterrupt \/ (\E x \in AllThread, k \in SleepTicks : TimerSleep(x, k)) \/ UNCHANGED timer
  BY <1>4 DEF CallSemaDown
<1>5. ASSUME NEW t \in AllThread, NEW s \in Sema \ {IdleStarted}, CallSemaUp(t, s)
      PROVE  TimerInterrupt \/ (\E x \in AllThread, k \in SleepTicks : TimerSleep(x, k)) \/ UNCHANGED timer
  BY <1>5 DEF CallSemaUp
<1>6. ASSUME NEW t \in AllThread, NEW s \in Sema \ {IdleStarted}, SemaTryDown(t, s)
      PROVE  TimerInterrupt \/ (\E x \in AllThread, k \in SleepTicks : TimerSleep(x, k)) \/ UNCHANGED timer
  BY <1>6 DEF SemaTryDown
<1>7. ASSUME NEW t \in AllThread, NEW l \in Lock \ {TidLock}, CallLockAcquire(t, l)
      PROVE  TimerInterrupt \/ (\E x \in AllThread, k \in SleepTicks : TimerSleep(x, k)) \/ UNCHANGED timer
  BY <1>7 DEF CallLockAcquire, lock_acquire
<1>8. ASSUME NEW t \in AllThread, NEW l \in Lock \ {TidLock}, LockTryAcquire(t, l)
      PROVE  TimerInterrupt \/ (\E x \in AllThread, k \in SleepTicks : TimerSleep(x, k)) \/ UNCHANGED timer
  BY <1>8 DEF LockTryAcquire
<1>9. ASSUME NEW t \in AllThread, NEW l \in Lock \ {TidLock}, CallLockRelease(t, l)
      PROVE  TimerInterrupt \/ (\E x \in AllThread, k \in SleepTicks : TimerSleep(x, k)) \/ UNCHANGED timer
  BY <1>9 DEF CallLockRelease, lock_release
<1>10. ASSUME NEW t \in AllThread, NEW c \in Cond, CondWait(t, c)
      PROVE  TimerInterrupt \/ (\E x \in AllThread, k \in SleepTicks : TimerSleep(x, k)) \/ UNCHANGED timer
  BY <1>10 DEF CondWait
<1>11. ASSUME NEW t \in AllThread, NEW c \in Cond, CondSignal(t, c)
      PROVE  TimerInterrupt \/ (\E x \in AllThread, k \in SleepTicks : TimerSleep(x, k)) \/ UNCHANGED timer
  BY <1>11 DEF CondSignal, pop_waiter
<1>12. ASSUME NEW t \in AllThread, NEW c \in Cond, CondBroadcast(t, c)
      PROVE  TimerInterrupt \/ (\E x \in AllThread, k \in SleepTicks : TimerSleep(x, k)) \/ UNCHANGED timer
  BY <1>12 DEF CondBroadcast
<1>13. ASSUME NEW t \in AllThread, NEW u \in Thread, ThreadCreate(t, u)
      PROVE  TimerInterrupt \/ (\E x \in AllThread, k \in SleepTicks : TimerSleep(x, k)) \/ UNCHANGED timer
  BY <1>13 DEF ThreadCreate
<1>14. ASSUME NEW t \in AllThread, SemaDown(t)
      PROVE  TimerInterrupt \/ (\E x \in AllThread, k \in SleepTicks : TimerSleep(x, k)) \/ UNCHANGED timer
  BY <1>14 DEF SemaDown, AfterDown
<1>15. ASSUME NEW t \in AllThread, SetHolder(t)
      PROVE  TimerInterrupt \/ (\E x \in AllThread, k \in SleepTicks : TimerSleep(x, k)) \/ UNCHANGED timer
  BY <1>15 DEF SetHolder
<1>16. ASSUME NEW t \in AllThread, LockUp(t)
      PROVE  TimerInterrupt \/ (\E x \in AllThread, k \in SleepTicks : TimerSleep(x, k)) \/ UNCHANGED timer
  BY <1>16 DEF LockUp
<1>17. ASSUME NEW t \in AllThread, CondWaitRelease(t)
      PROVE  TimerInterrupt \/ (\E x \in AllThread, k \in SleepTicks : TimerSleep(x, k)) \/ UNCHANGED timer
  BY <1>17 DEF CondWaitRelease, lock_release
<1>18. ASSUME NEW t \in AllThread, BroadcastStep(t)
      PROVE  TimerInterrupt \/ (\E x \in AllThread, k \in SleepTicks : TimerSleep(x, k)) \/ UNCHANGED timer
  BY <1>18 DEF BroadcastStep, pop_waiter
<1>19. ASSUME NEW t \in AllThread, SignalUp(t)
      PROVE  TimerInterrupt \/ (\E x \in AllThread, k \in SleepTicks : TimerSleep(x, k)) \/ UNCHANGED timer
  BY <1>19 DEF SignalUp
<1>20. ASSUME NEW t \in AllThread, TidRead(t)
      PROVE  TimerInterrupt \/ (\E x \in AllThread, k \in SleepTicks : TimerSleep(x, k)) \/ UNCHANGED timer
  BY <1>20 DEF TidRead
<1>21. ASSUME NEW t \in AllThread, TidWrite(t)
      PROVE  TimerInterrupt \/ (\E x \in AllThread, k \in SleepTicks : TimerSleep(x, k)) \/ UNCHANGED timer
  BY <1>21 DEF TidWrite, lock_release
<1>22. ASSUME NEW t \in AllThread, CreateUnblock(t)
      PROVE  TimerInterrupt \/ (\E x \in AllThread, k \in SleepTicks : TimerSleep(x, k)) \/ UNCHANGED timer
  BY <1>22 DEF CreateUnblock
<1>23. ASSUME IdleStart
      PROVE  TimerInterrupt \/ (\E x \in AllThread, k \in SleepTicks : TimerSleep(x, k)) \/ UNCHANGED timer
  BY <1>23 DEF IdleStart
<1>24. ASSUME IdleUp
      PROVE  TimerInterrupt \/ (\E x \in AllThread, k \in SleepTicks : TimerSleep(x, k)) \/ UNCHANGED timer
  BY <1>24 DEF IdleUp
<1>25. ASSUME IdleLoop
      PROVE  TimerInterrupt \/ (\E x \in AllThread, k \in SleepTicks : TimerSleep(x, k)) \/ UNCHANGED timer
  BY <1>25 DEF IdleLoop
<1>26. ASSUME TimerInterrupt
      PROVE  TimerInterrupt \/ (\E x \in AllThread, k \in SleepTicks : TimerSleep(x, k)) \/ UNCHANGED timer
  BY <1>26
<1>27. ASSUME NEW s \in Sema \ {IdleStarted}, DeviceInterrupt(s)
      PROVE  TimerInterrupt \/ (\E x \in AllThread, k \in SleepTicks : TimerSleep(x, k)) \/ UNCHANGED timer
  BY <1>27 DEF DeviceInterrupt, WakeIdle
<1>28. CASE UNCHANGED vars
  BY <1>28 DEF vars, sched, timer, synch, tids, locals
<1> QED
  BY <1>1, <1>2, <1>3, <1>4, <1>5, <1>6, <1>7, <1>8, <1>9, <1>10, <1>11, <1>12, <1>13, <1>14,
     <1>15, <1>16, <1>17, <1>18, <1>19, <1>20, <1>21, <1>22, <1>23, <1>24, <1>25, <1>26,
     <1>27, <1>28
     DEF Next, Call, Continue, IdleStep, Interrupt

\* timer_sleep () inserts the thread where it belongs, and timer_interrupt ()
\* takes off exactly the threads that are due.
LEMMA SleepersSorted ==
    ASSUME ListInv, SleepInv, [Next]_vars
    PROVE  SleepInv' /\ \A x \in AllThread : OnList(x, sleep_list) =>
                           (~OnList(x, sleep_list') <=> ticks' >= wake[x])
<1> USE KernelAssumption
<1>a. /\ sleep_list \in Seq(AllThread) /\ NoDup(sleep_list) /\ wake \in [AllThread -> Int]
      /\ ticks \in Nat /\ Len(sleep_list) \in Nat
      /\ \A i \in 1..Len(sleep_list) : sleep_list[i] \in AllThread
  <2>1. /\ sleep_list \in Seq(AllThread) /\ NoDup(sleep_list) /\ wake \in [AllThread -> Int]
        /\ ticks \in Nat
    BY DEF ListInv, LockInv, ControlInv, TypeOK, BlockedInv
  <2> QED
    BY <2>1, LenProperties, ElementOfSeq
<1>b. \A i \in 1..Len(sleep_list) : wake[sleep_list[i]] \in Int
  BY <1>a
<1>1. ASSUME NEW t \in AllThread, NEW n \in SleepTicks, TimerSleep(t, n)
      PROVE  SleepInv' /\ \A x \in AllThread : OnList(x, sleep_list) =>
                             (~OnList(x, sleep_list') <=> ticks' >= wake[x])
  <2> DEFINE w == ticks + n
  <2>1. /\ w \in Int /\ ticks < w /\ w <= MaxTicks /\ ticks' = ticks /\ insert_ordered(t, w)
        /\ wake' = [wake EXCEPT ![t] = w]
    BY <1>1, <1>a DEF TimerSleep
  <2>2. status[t] = "RUNNING" /\ ~OnList(t, sleep_list)
    BY <1>1 DEF TimerSleep, Calls, At, ListInv, QueueInv, BlockedInv
  <2> HIDE DEF w
  <2>3. PICK k \in 0..Len(sleep_list) :
            /\ \A i \in 1..k : wake[sleep_list[i]] <= w
            /\ k < Len(sleep_list) => w < wake[sleep_list[k + 1]]
            /\ sleep_list' = SubSeq(sleep_list, 1, k) \o <<t>>
                                \o SubSeq(sleep_list, k + 1, Len(sleep_list))
    BY <2>1 DEF insert_ordered
  <2>4. /\ Len(sleep_list') = Len(sleep_list) + 1
        /\ \A i \in 1..Len(sleep_list') :
              sleep_list'[i] = IF i <= k THEN sleep_list[i]
                               ELSE IF i = k + 1 THEN t ELSE sleep_list[i - 1]
    <3>1. sleep_list \in Seq(AllThread) /\ k \in 0..Len(sleep_list)
      BY <1>a
    <3>2. Inserted(SubSeq(sleep_list, 1, k) \o <<t>> \o SubSeq(sleep_list, k + 1, Len(sleep_list)),
                   sleep_list, k, t)
      BY <3>1, InsertPlace
    <3>3. Inserted(sleep_list', sleep_list, k, t)
      BY <2>3, <3>2
    <3> QED
      BY <3>3 DEF Inserted
  <2>5. \A x \in AllThread : OnList(x, sleep_list') <=> OnList(x, sleep_list) \/ x = t
    BY <1>a, <2>2, <2>3, ListInsert
  <2>6. \A i \in 1..Len(sleep_list) : wake'[sleep_list[i]] = wake[sleep_list[i]]
    BY <1>a, <2>1, <2>2 DEF OnList
  <2>7. \A i \in 1..Len(sleep_list) : i <= k => wake[sleep_list[i]] <= w
    BY <1>a, <2>3
  <2>8. \A i \in 1..Len(sleep_list) : i > k => w < wake[sleep_list[i]]
    <3> SUFFICES ASSUME NEW i \in 1..Len(sleep_list), i > k PROVE w < wake[sleep_list[i]]
      OBVIOUS
    <3>1. k + 1 \in 1..Len(sleep_list) /\ k + 1 <= i /\ k < Len(sleep_list)
      BY <1>a
    <3>2. wake[sleep_list[k + 1]] <= wake[sleep_list[i]] /\ w < wake[sleep_list[k + 1]]
      BY <2>3, <3>1 DEF SleepInv
    <3> QED
      BY <1>b, <2>1, <3>1, <3>2
  <2> DEFINE v(i) == wake'[sleep_list'[i]]
  <2>9. ASSUME NEW i \in 1..Len(sleep_list')
        PROVE  \/ /\ i <= k /\ i \in 1..Len(sleep_list) /\ v(i) = wake[sleep_list[i]] /\ v(i) <= w
               \/ i = k + 1 /\ v(i) = w
               \/ /\ i > k + 1 /\ i - 1 \in 1..Len(sleep_list) /\ i - 1 > k
                  /\ v(i) = wake[sleep_list[i - 1]] /\ w < v(i)
    <3>1. CASE i <= k
      <4>1. i \in 1..Len(sleep_list) /\ sleep_list'[i] = sleep_list[i]
        BY <1>a, <2>4, <3>1
      <4> QED
        BY <2>6, <2>7, <3>1, <4>1
    <3>2. CASE i = k + 1
      <4>1. sleep_list'[i] = t
        BY <2>4, <3>2
      <4> QED
        BY <1>a, <2>1, <3>2, <4>1
    <3>3. CASE i > k + 1
      <4>1. i - 1 \in 1..Len(sleep_list) /\ i - 1 > k /\ sleep_list'[i] = sleep_list[i - 1]
        BY <1>a, <2>4, <3>3
      <4> QED
        BY <2>6, <2>8, <3>3, <4>1
    <3> QED
      BY <3>1, <3>2, <3>3
  <2>10. ASSUME NEW i \in 1..Len(sleep_list'), NEW j \in 1..Len(sleep_list'), i <= j
         PROVE  v(i) <= v(j)
    <3> HIDE DEF v
    <3>1. CASE i <= k /\ j <= k
      <4>1. /\ i \in 1..Len(sleep_list) /\ v(i) = wake[sleep_list[i]]
            /\ j \in 1..Len(sleep_list) /\ v(j) = wake[sleep_list[j]]
        BY <2>9, <3>1
      <4> QED
        BY <2>10, <4>1 DEF SleepInv
    <3>2. CASE i > k + 1 /\ j > k + 1
      <4>1. /\ i - 1 \in 1..Len(sleep_list) /\ v(i) = wake[sleep_list[i - 1]]
            /\ j - 1 \in 1..Len(sleep_list) /\ v(j) = wake[sleep_list[j - 1]]
        BY <2>9, <3>2
      <4>2. i - 1 <= j - 1
        BY <2>10
      <4> QED
        BY <4>1, <4>2 DEF SleepInv
    <3>3. CASE i <= k + 1 /\ j > k
      <4>1. v(i) <= w /\ w <= v(j) /\ v(i) \in Int /\ v(j) \in Int
        <5>1. v(i) \in Int /\ v(i) <= w
          <6>1. \/ i \in 1..Len(sleep_list) /\ v(i) = wake[sleep_list[i]] /\ v(i) <= w
                \/ v(i) = w
            BY <1>a, <2>9, <3>3
          <6> QED
            BY <1>b, <2>1, <6>1
        <5>2. v(j) \in Int /\ w <= v(j)
          <6>1. \/ j - 1 \in 1..Len(sleep_list) /\ v(j) = wake[sleep_list[j - 1]] /\ w < v(j)
                \/ v(j) = w
            BY <1>a, <2>9, <3>3
          <6> QED
            BY <1>b, <2>1, <6>1
        <5> QED
          BY <5>1, <5>2
      <4> QED
        BY <2>1, <4>1
    <3> QED
      BY <2>10, <3>1, <3>2, <3>3
  <2>11. ASSUME NEW i \in 1..Len(sleep_list') PROVE ticks < v(i) /\ v(i) <= MaxTicks
    <3> HIDE DEF v
    <3>1. \A m \in 1..Len(sleep_list) : ticks < wake[sleep_list[m]] /\ wake[sleep_list[m]] <= MaxTicks
      BY DEF SleepInv
    <3> QED
      BY <2>1, <2>9, <3>1
  <2>12. SleepInv'
    BY <2>1, <2>10, <2>11 DEF SleepInv
  <2>13. ASSUME NEW x \in AllThread, OnList(x, sleep_list)
         PROVE  OnList(x, sleep_list') /\ ~(ticks' >= wake[x])
    <3>1. ticks < wake[x]
      BY <2>13 DEF OnList, SleepInv
    <3> QED
      BY <1>a, <2>1, <2>5, <2>13, <3>1
  <2> QED
    BY <2>12, <2>13
<1>2. ASSUME TimerInterrupt
      PROVE  SleepInv' /\ \A x \in AllThread : OnList(x, sleep_list) =>
                             (~OnList(x, sleep_list') <=> ticks' >= wake[x])
  <2> DEFINE now == IF ticks < MaxTicks THEN ticks + 1 ELSE ticks
  <2>1. PICK n \in 0..Len(sleep_list) :
            /\ DuePrefix(n, now)
            /\ sleep_list' = SubSeq(sleep_list, n + 1, Len(sleep_list))
    BY <1>2 DEF TimerInterrupt
  <2>2. ticks' = now /\ wake' = wake /\ now \in Nat
    <3>1. now \in Nat
      BY <1>a
    <3>2. ticks' = now
      BY <1>2 DEF TimerInterrupt
    <3>3. wake' = wake
      BY <1>2 DEF TimerInterrupt
    <3> QED
      BY <3>1, <3>2, <3>3
  <2> HIDE DEF now
  <2>3. \A i \in 1..Len(sleep_list) : i <= n => now >= wake[sleep_list[i]]
    <3>1. \A i \in 1..n : now >= wake[sleep_list[i]]
      BY <2>1 DEF DuePrefix
    <3>2. \A i \in 1..Len(sleep_list) : i <= n => i \in 1..n
      BY <1>a
    <3> QED
      BY <3>1, <3>2
  <2>4. \A i \in 1..Len(sleep_list) : i > n => now < wake[sleep_list[i]]
    <3> SUFFICES ASSUME NEW i \in 1..Len(sleep_list), i > n PROVE now < wake[sleep_list[i]]
      OBVIOUS
    <3>1. n + 1 \in 1..Len(sleep_list) /\ n + 1 <= i /\ n < Len(sleep_list)
      BY <1>a
    <3>2. wake[sleep_list[n + 1]] <= wake[sleep_list[i]] /\ now < wake[sleep_list[n + 1]]
      BY <2>1, <3>1 DEF SleepInv, DuePrefix
    <3> QED
      BY <1>b, <2>2, <3>1, <3>2
  <2>5. /\ Len(sleep_list') = Len(sleep_list) - n
        /\ \A i \in 1..Len(sleep_list') : sleep_list'[i] = sleep_list[n + i]
    BY <1>a, <2>1, SuffixAt
  <2>6. \A i \in 1..Len(sleep_list') : n + i \in 1..Len(sleep_list) /\ n + i > n
    BY <1>a, <2>5
  <2>7. ASSUME NEW i \in 1..Len(sleep_list'), NEW j \in 1..Len(sleep_list'), i <= j
        PROVE  wake[sleep_list'[i]] <= wake[sleep_list'[j]]
    <3>1. n + i <= n + j
      BY <1>a, <2>7
    <3> QED
      BY <2>5, <2>6, <3>1 DEF SleepInv
  <2>8. \A i \in 1..Len(sleep_list') : now < wake[sleep_list'[i]] /\ wake[sleep_list'[i]] <= MaxTicks
    BY <2>4, <2>5, <2>6 DEF SleepInv
  <2>9. SleepInv'
    BY <2>2, <2>7, <2>8 DEF SleepInv
  <2>10. ASSUME NEW x \in AllThread, OnList(x, sleep_list)
         PROVE  ~OnList(x, sleep_list') <=> now >= wake[x]
    <3>1. PICK i \in 1..Len(sleep_list) : sleep_list[i] = x
      BY <2>10 DEF OnList
    <3>2. OnList(x, sleep_list') <=> ~(i <= n)
      <4>1. OnList(x, sleep_list') => ~(i <= n)
        <5> SUFFICES ASSUME OnList(x, sleep_list') PROVE ~(i <= n)
          OBVIOUS
        <5>1. PICK j \in 1..Len(sleep_list') : sleep_list'[j] = x
          BY DEF OnList
        <5>2. sleep_list[n + j] = x /\ n + j \in 1..Len(sleep_list) /\ n + j > n
          BY <2>5, <2>6, <5>1
        <5>3. i = n + j
          BY <1>a, <3>1, <5>2 DEF NoDup
        <5> QED
          BY <1>a, <5>2, <5>3
      <4>2. ASSUME ~(i <= n) PROVE OnList(x, sleep_list')
        <5>1. i - n \in 1..Len(sleep_list') /\ n + (i - n) = i
          BY <1>a, <2>5, <4>2
        <5> QED
          BY <2>5, <3>1, <5>1 DEF OnList
      <4> QED
        BY <4>1, <4>2
    <3>3. i <= n => now >= wake[x]
      BY <2>3, <3>1
    <3>4. i > n => now < wake[x]
      BY <2>4, <3>1
    <3> QED
      BY <1>b, <2>2, <3>1, <3>2, <3>3, <3>4
  <2> QED
    BY <2>2, <2>9, <2>10
<1>3. ASSUME UNCHANGED timer
      PROVE  SleepInv' /\ \A x \in AllThread : OnList(x, sleep_list) =>
                             (~OnList(x, sleep_list') <=> ticks' >= wake[x])
  <2>1. sleep_list' = sleep_list /\ ticks' = ticks /\ wake' = wake
    BY <1>3 DEF timer
  <2>2. ASSUME NEW x \in AllThread, OnList(x, sleep_list) PROVE ~(ticks >= wake[x])
    <3>1. ticks < wake[x]
      BY <2>2 DEF OnList, SleepInv
    <3> QED
      BY <1>a, <3>1
  <2>3. SleepInv'
    BY <2>1 DEF SleepInv
  <2> QED
    BY <2>1, <2>2, <2>3
<1> QED
  BY <1>1, <1>2, <1>3, OnlyTimerWakes

\* timer.c wakes a sleeper in the very tick it asked for: timer_interrupt may stop
\* at the first sleeper that is not due, because timer_sleep keeps the list
\* sorted and no overdue sleeper is ever left on it.
THEOREM SleepersWakeWhenDue == Spec => WokenWhenDue
<1>1. Init => SleepInv
  BY DEF Init, SleepInv
<1>2. ListInv /\ SleepInv /\ [Next]_vars => SleepInv'
  BY SleepersSorted
<1>3. ASSUME ListInv, SleepInv, ListInv', [Next]_vars
      PROVE  \A t \in AllThread : AsleepAt(t) # {} =>
                 ((AsleepAt(t)' = {}) <=> ticks' >= wake[t])
  <2>1. sleep_list \in Seq(AllThread) /\ sleep_list' \in Seq(AllThread)
    BY <1>3 DEF ListInv, LockInv, ControlInv, TypeOK
  <2>2. DOMAIN sleep_list = 1..Len(sleep_list) /\ DOMAIN sleep_list' = 1..Len(sleep_list')
    BY <2>1
  <2>3. ASSUME NEW t \in AllThread
        PROVE  /\ AsleepAt(t) # {} <=> OnList(t, sleep_list)
               /\ AsleepAt(t)' # {} <=> OnList(t, sleep_list')
    BY <2>2 DEF AsleepAt, OnList
  <2>4. \A x \in AllThread : OnList(x, sleep_list) =>
            (~OnList(x, sleep_list') <=> ticks' >= wake[x])
    BY <1>3, SleepersSorted
  <2> QED
    BY <2>3, <2>4
<1>4. ListInv /\ SleepInv /\ ListInv' /\ [Next]_vars =>
          [\A t \in AllThread : AsleepAt(t) # {} =>
              ((AsleepAt(t)' = {}) <=> ticks' >= wake[t])]_vars
  BY <1>3
<1> QED
  BY <1>1, <1>2, <1>4, ListInvariant, PTL DEF Spec, WokenWhenDue
-----------------------------------------------------------------------------


\* x can run.
Live(x) == status[x] \in {"READY", "RUNNING"}

LEMMA FiniteThreads == \A S : S \subseteq AllThread => IsFiniteSet(S)
<1>1. IsFiniteSet(Thread)
  BY KernelAssumption
<1>2. IsFiniteSet(Thread \cup {Main})
  BY <1>1, FS_AddElement
<1>3. IsFiniteSet((Thread \cup {Main}) \cup {Idle})
  BY <1>2, FS_AddElement
<1>4. (Thread \cup {Main}) \cup {Idle} = AllThread
  BY DEF AllThread
<1> QED
  BY <1>3, <1>4, FS_Subset

LEMMA MoreThreads ==
    ASSUME NEW S, NEW T, S \subseteq T, T \subseteq AllThread
    PROVE  Cardinality(S) \in Nat /\ Cardinality(T) \in Nat /\ Cardinality(S) <= Cardinality(T)
<1>1. IsFiniteSet(S) /\ IsFiniteSet(T)
  BY FiniteThreads
<1> QED
  BY <1>1, FS_Subset, FS_CardinalityType

LEMMA OneMoreThread ==
    ASSUME NEW S, NEW T, NEW x, S \subseteq T, x \in T, x \notin S, T \subseteq AllThread
    PROVE  Cardinality(S) \in Nat /\ Cardinality(T) \in Nat /\ Cardinality(S) + 1 <= Cardinality(T)
<1>1. IsFiniteSet(S) /\ S \cup {x} \subseteq T
  BY FiniteThreads
<1>2. Cardinality(S) \in Nat /\ Cardinality(S \cup {x}) = Cardinality(S) + 1
  BY <1>1, FS_AddElement, FS_CardinalityType
<1>3. Cardinality(S \cup {x}) <= Cardinality(T) /\ Cardinality(T) \in Nat
  BY <1>1, MoreThreads
<1> QED
  BY <1>2, <1>3

\* Who can run before schedule () can run after it.
LEMMA ScheduleLive ==
    ASSUME NEW st \in [AllThread -> Status], NEW rl, schedule(st, rl)
    PROVE  \A x \in AllThread : st[x] \in {"READY", "RUNNING"} => Live(x)'
BY DEF schedule, Live

LEMMA YieldLive ==
    ASSUME NEW st \in [AllThread -> Status], NEW rl, yield(st, rl)
    PROVE  \A x \in AllThread : st[x] \in {"READY", "RUNNING"} => Live(x)'
<1>1. PICK q : schedule([st EXCEPT ![current] = "READY"], q)
  BY DEF yield
<1>2. [st EXCEPT ![current] = "READY"] \in [AllThread -> Status]
  BY DEF Status
<1>3. \A x \in AllThread : [st EXCEPT ![current] = "READY"][x] \in {"READY", "RUNNING"} => Live(x)'
  BY <1>1, <1>2, ScheduleLive
<1> QED
  BY <1>3

LEMMA BlockLive ==
    ASSUME TypeOK, thread_block
    PROVE  \A x \in AllThread \ {current} : Live(x) => Live(x)'
<1> DEFINE st == [status EXCEPT ![current] = "BLOCKED"]
<1>1. st \in [AllThread -> Status] /\ \A x \in AllThread \ {current} : st[x] = status[x]
  BY DEF TypeOK, Status
<1>2. schedule(st, ready_list)
  BY DEF thread_block
<1> HIDE DEF st
<1> QED
  BY <1>1, <1>2, ScheduleLive DEF Live

\* A step after which no semaphore is worth more, nobody waits where nobody did,
\* and whoever was on the way to test a semaphore still is.
LEMMA WakeKept ==
    ASSUME TypeOK, TypeOK', NoLostWakeup,
           \A s \in AllSema : value'[s] <= value[s] /\ (waiters'[s] # <<>> => waiters[s] # <<>>),
           \A x \in AllThread : pc[x] = "down" /\ Live(x) =>
               pc'[x] = "down" /\ obj'[x] = obj[x] /\ Live(x)'
    PROVE  NoLostWakeup'
<1> SUFFICES ASSUME NEW s \in AllSema, waiters'[s] # <<>>
             PROVE  value'[s] <= Cardinality(AboutToTest(s)')
  BY DEF NoLostWakeup, AboutToTest
<1>1. AboutToTest(s) \subseteq AboutToTest(s)' /\ AboutToTest(s)' \subseteq AllThread
  BY DEF AboutToTest, Live
<1>2. value[s] <= Cardinality(AboutToTest(s))
  BY DEF NoLostWakeup
<1>3. value[s] \in Nat /\ value'[s] \in Nat
  BY DEF TypeOK
<1>4. /\ Cardinality(AboutToTest(s)) \in Nat /\ Cardinality(AboutToTest(s)') \in Nat
      /\ Cardinality(AboutToTest(s)) <= Cardinality(AboutToTest(s)')
  BY <1>1, MoreThreads
<1>5. value'[s] <= value[s]
  OBVIOUS
<1> QED
  BY <1>2, <1>3, <1>4, <1>5

\* sema_up () pays for the unit it adds with the thread it wakes.
LEMMA WakeUp ==
    ASSUME ListInv, TypeOK', NoLostWakeup, NEW s \in AllSema, sema_up(s),
           \A x \in AllThread : pc[x] = "down" => pc'[x] = "down" /\ obj'[x] = obj[x]
    PROVE  NoLostWakeup'
<1>1. TypeOK /\ QueueInv /\ BlockedInv
  BY DEF ListInv, LockInv, ControlInv
<1>2. /\ \A r \in AllSema : value[r] \in Nat /\ value'[r] \in Nat
      /\ \A r \in AllSema : waiters[r] \in Seq(AllThread)
      /\ value'[s] = value[s] + 1 /\ \A r \in AllSema \ {s} : value'[r] = value[r]
  BY <1>1 DEF TypeOK, sema_up
<1>3. \A r \in AllSema \ {s} : waiters'[r] = waiters[r]
  BY <1>1 DEF sema_up, TypeOK
<1>4. \A x \in AllThread : Live(x) => Live(x)'
  BY <1>1 DEF sema_up, thread_unblock, sched, Live, TypeOK
<1>5. \A r \in AllSema : AboutToTest(r) \subseteq AboutToTest(r)' /\ AboutToTest(r)' \subseteq AllThread
  BY <1>4 DEF AboutToTest, Live
<1>6. ASSUME NEW r \in AllSema \ {s}, waiters'[r] # <<>>
      PROVE  value'[r] <= Cardinality(AboutToTest(r)')
  <2>1. value[r] <= Cardinality(AboutToTest(r))
    BY <1>3, <1>6 DEF NoLostWakeup
  <2>2. /\ Cardinality(AboutToTest(r)) \in Nat /\ Cardinality(AboutToTest(r)') \in Nat
        /\ Cardinality(AboutToTest(r)) <= Cardinality(AboutToTest(r)')
    BY <1>5, MoreThreads
  <2> QED
    BY <1>2, <2>1, <2>2
<1>7. ASSUME waiters'[s] # <<>>
      PROVE  value'[s] <= Cardinality(AboutToTest(s)')
  <2>1. waiters[s] # <<>>
    BY <1>7 DEF sema_up
  <2>2. PICK h : h = Head(waiters[s])
    OBVIOUS
  <2>3. h \in AllThread /\ OnList(h, waiters[s])
    BY <1>1, <1>2, <2>1, <2>2, ListTail DEF BlockedInv
  <2>4. status[h] = "BLOCKED" /\ pc[h] = "down" /\ obj[h] = s
    BY <1>1, <2>3 DEF BlockedInv
  <2>5. status'[h] = "READY"
    BY <1>1, <2>1, <2>2, <2>3 DEF sema_up, thread_unblock, TypeOK
  <2>6. h \in AboutToTest(s)' /\ h \notin AboutToTest(s)
    BY <2>3, <2>4, <2>5 DEF AboutToTest
  <2>7. value[s] <= Cardinality(AboutToTest(s))
    BY <2>1 DEF NoLostWakeup
  <2>8. /\ Cardinality(AboutToTest(s)) \in Nat /\ Cardinality(AboutToTest(s)') \in Nat
        /\ Cardinality(AboutToTest(s)) + 1 <= Cardinality(AboutToTest(s)')
    BY <1>5, <2>6, OneMoreThread
  <2> QED
    BY <1>2, <2>7, <2>8
<1>8. \A r \in AllSema : waiters'[r] # <<>> => value'[r] <= Cardinality(AboutToTest(r)')
  BY <1>6, <1>7
<1> QED
  BY <1>8 DEF NoLostWakeup, AboutToTest

\* Every step leaves each unit of a semaphore somebody waits for with a thread on
\* its way to take it.
LEMMA WakeupsPreserved ==
    ASSUME ListInv, ListInv', NoLostWakeup, [Next]_vars
    PROVE  NoLostWakeup'
<1> USE KernelAssumption
<1>a. TypeOK /\ TypeOK' /\ LocalsInv /\ BootInv /\ PageInv /\ QueueInv /\ ListInv
  BY DEF ListInv, LockInv, ControlInv
<1>b. \A s \in AllSema : value[s] \in Nat /\ value'[s] \in Nat
  BY <1>a DEF TypeOK
<1>1. ASSUME NEW t \in AllThread, ThreadYield(t)
      PROVE  NoLostWakeup'
  <2>1. /\ yield(status, ready_list) /\ UNCHANGED <<value, waiters, pc, obj>>
    BY <1>1 DEF ThreadYield, synch, locals
  <2>2. \A x \in AllThread : Live(x) => Live(x)'
    BY <1>a, <2>1, YieldLive DEF TypeOK, Live
  <2>3. \A s \in AllSema : value'[s] <= value[s]
    BY <1>b, <2>1
  <2> QED
    BY <1>a, <2>1, <2>2, <2>3, WakeKept
<1>2. ASSUME NEW t \in AllThread, ThreadExit(t)
      PROVE  NoLostWakeup'
  <2>1. /\ schedule([status EXCEPT ![t] = IF t = Main THEN "DYING" ELSE "FREE"], ready_list)
        /\ UNCHANGED <<value, waiters, pc, obj>> /\ pc[t] = "run"
    BY <1>2 DEF ThreadExit, Calls, At, synch, locals
  <2>2. \A x \in AllThread : pc[x] = "down" /\ Live(x) => Live(x)'
    <3> DEFINE st == [status EXCEPT ![t] = IF t = Main THEN "DYING" ELSE "FREE"]
    <3>1. st \in [AllThread -> Status] /\ \A x \in AllThread \ {t} : st[x] = status[x]
      BY <1>a DEF TypeOK, Status
    <3> HIDE DEF st
    <3>2. \A x \in AllThread : st[x] \in {"READY", "RUNNING"} => Live(x)'
      BY <2>1, <3>1, ScheduleLive DEF st
    <3> QED
      BY <2>1, <3>1, <3>2 DEF Live
  <2>3. \A s \in AllSema : value'[s] <= value[s]
    BY <1>b, <2>1
  <2> QED
    BY <1>a, <2>1, <2>2, <2>3, WakeKept
<1>3. ASSUME NEW t \in AllThread, NEW n \in SleepTicks, TimerSleep(t, n)
      PROVE  NoLostWakeup'
  <2>1. thread_block /\ UNCHANGED <<value, waiters, pc, obj>> /\ current = t /\ pc[t] = "run"
    BY <1>3 DEF TimerSleep, Calls, At, synch, locals
  <2>2. \A x \in AllThread : pc[x] = "down" /\ Live(x) => Live(x)'
    BY <1>a, <2>1, BlockLive
  <2>3. \A s \in AllSema : value'[s] <= value[s]
    BY <1>b, <2>1
  <2> QED
    BY <1>a, <2>1, <2>2, <2>3, WakeKept
<1>4. ASSUME NEW t \in AllThread, NEW s \in Sema \ {IdleStarted}, CallSemaDown(t, s)
      PROVE  NoLostWakeup'
  <2>1. UNCHANGED <<value, waiters, status>>
    BY <1>4 DEF CallSemaDown, sched, synch
  <2>2. \A x \in AllThread : pc[x] = "down" => pc'[x] = "down" /\ obj'[x] = obj[x]
    BY <1>4, <1>a DEF CallSemaDown, At, Goto, Calls, TypeOK
  <2>3. \A r \in AllSema : value'[r] <= value[r]
    BY <1>b, <2>1
  <2> QED
    BY <1>a, <2>1, <2>2, <2>3, WakeKept DEF Live
<1>5. ASSUME NEW t \in AllThread, NEW s \in Sema \ {IdleStarted}, CallSemaUp(t, s)
      PROVE  NoLostWakeup'
  <2>1. PICK r \in AllSema : r = s
    BY <1>5, <1>a DEF CallSemaUp, At, AllSema
  <2>2. sema_up(r)
    BY <1>5, <2>1 DEF CallSemaUp
  <2>3. \A x \in AllThread : pc[x] = "down" => pc'[x] = "down" /\ obj'[x] = obj[x]
    BY <1>5, <1>a DEF CallSemaUp, At, Goto, TypeOK, Calls, locals
  <2> QED
    BY <1>a, <2>1, <2>2, <2>3, WakeUp
<1>6. ASSUME NEW t \in AllThread, NEW s \in Sema \ {IdleStarted}, SemaTryDown(t, s)
      PROVE  NoLostWakeup'
  <2>1. /\ s \in AllSema /\ value[s] > 0 /\ value' = [value EXCEPT ![s] = @ - 1]
        /\ waiters' = waiters /\ status' = status
    BY <1>6 DEF SemaTryDown, AllSema, sched
  <2>2. \A r \in AllSema : value'[r] <= value[r]
    <3>1. \A r \in AllSema \ {s} : value'[r] = value[r]
      BY <1>a, <2>1 DEF TypeOK
    <3>2. value'[s] = value[s] - 1
      BY <1>a, <2>1 DEF TypeOK
    <3> QED
      BY <1>b, <2>1, <3>1, <3>2
  <2>3. \A x \in AllThread : pc[x] = "down" => pc'[x] = "down" /\ obj'[x] = obj[x]
    BY <1>6, <1>a DEF SemaTryDown, Calls, At, Goto, TypeOK, locals
  <2> QED
    BY <1>a, <2>1, <2>2, <2>3, WakeKept DEF Live
<1>7. ASSUME NEW t \in AllThread, NEW l \in Lock \ {TidLock}, CallLockAcquire(t, l)
      PROVE  NoLostWakeup'
  <2>1. UNCHANGED <<value, waiters, status>>
    BY <1>7 DEF CallLockAcquire, lock_acquire, sched, synch
  <2>2. \A x \in AllThread : pc[x] = "down" => pc'[x] = "down" /\ obj'[x] = obj[x]
    BY <1>7, <1>a DEF CallLockAcquire, lock_acquire, At, Goto, Calls, TypeOK
  <2>3. \A s \in AllSema : value'[s] <= value[s]
    BY <1>b, <2>1
  <2> QED
    BY <1>a, <2>1, <2>2, <2>3, WakeKept DEF Live
<1>8. ASSUME NEW t \in AllThread, NEW l \in Lock \ {TidLock}, LockTryAcquire(t, l)
      PROVE  NoLostWakeup'
  <2>1. /\ l \in AllSema /\ value[l] > 0 /\ value' = [value EXCEPT ![l] = @ - 1]
        /\ waiters' = waiters /\ status' = status
    BY <1>8 DEF LockTryAcquire, AllSema, sched
  <2>2. \A r \in AllSema : value'[r] <= value[r]
    <3>1. \A r \in AllSema \ {l} : value'[r] = value[r]
      BY <1>a, <2>1 DEF TypeOK
    <3>2. value'[l] = value[l] - 1
      BY <1>a, <2>1 DEF TypeOK
    <3> QED
      BY <1>b, <2>1, <3>1, <3>2
  <2>3. \A x \in AllThread : pc[x] = "down" => pc'[x] = "down" /\ obj'[x] = obj[x]
    BY <1>8, <1>a DEF LockTryAcquire, Calls, At, Goto, TypeOK, locals
  <2> QED
    BY <1>a, <2>1, <2>2, <2>3, WakeKept DEF Live
<1>9. ASSUME NEW t \in AllThread, NEW l \in Lock \ {TidLock}, CallLockRelease(t, l)
      PROVE  NoLostWakeup'
  <2>1. UNCHANGED <<value, waiters, status>>
    BY <1>9 DEF CallLockRelease, lock_release, sched, synch
  <2>2. \A x \in AllThread : pc[x] = "down" => pc'[x] = "down" /\ obj'[x] = obj[x]
    BY <1>9, <1>a DEF CallLockRelease, lock_release, At, Goto, Calls, TypeOK
  <2>3. \A s \in AllSema : value'[s] <= value[s]
    BY <1>b, <2>1
  <2> QED
    BY <1>a, <2>1, <2>2, <2>3, WakeKept DEF Live
<1>10. ASSUME NEW t \in AllThread, NEW c \in Cond, CondWait(t, c)
      PROVE  NoLostWakeup'
  <2>1. t \in AllSema /\ pc[t] = "run" /\ UNCHANGED <<status, obj>>
    BY <1>10 DEF CondWait, Calls, At, AllSema, sched
  <2>2. /\ value' = [value EXCEPT ![t] = 0] /\ waiters' = [waiters EXCEPT ![t] = <<>>]
        /\ pc' = [pc EXCEPT ![t] = "cw_release"]
    BY <1>10 DEF CondWait, Goto
  <2>3. \A s \in AllSema : value'[s] <= value[s]
    <3>1. value \in [AllSema -> Nat]
      BY <1>a DEF TypeOK
    <3>2. value'[t] = 0 /\ \A s \in AllSema \ {t} : value'[s] = value[s]
      BY <2>1, <2>2, <3>1
    <3> QED
      BY <1>b, <2>1, <3>2
  <2>4. \A s \in AllSema : waiters'[s] # <<>> => waiters[s] # <<>>
    BY <1>a, <2>1, <2>2 DEF TypeOK
  <2>5. \A x \in AllThread : pc[x] = "down" /\ Live(x) => pc'[x] = "down" /\ Live(x)'
    BY <1>a, <2>1, <2>2 DEF TypeOK, Live
  <2> QED
    BY <1>a, <2>1, <2>3, <2>4, <2>5, WakeKept
<1>11. ASSUME NEW t \in AllThread, NEW c \in Cond, CondSignal(t, c)
      PROVE  NoLostWakeup'
  <2>1. UNCHANGED <<value, waiters, status>>
    BY <1>11 DEF CondSignal, pop_waiter, sched, synch
  <2>2. \A x \in AllThread : pc[x] = "down" => pc'[x] = "down" /\ obj'[x] = obj[x]
    BY <1>11, <1>a DEF CondSignal, pop_waiter, At, Goto, Calls, TypeOK
  <2>3. \A s \in AllSema : value'[s] <= value[s]
    BY <1>b, <2>1
  <2> QED
    BY <1>a, <2>1, <2>2, <2>3, WakeKept DEF Live
<1>12. ASSUME NEW t \in AllThread, NEW c \in Cond, CondBroadcast(t, c)
      PROVE  NoLostWakeup'
  <2>1. UNCHANGED <<value, waiters, status>>
    BY <1>12 DEF CondBroadcast, sched, synch
  <2>2. \A x \in AllThread : pc[x] = "down" => pc'[x] = "down" /\ obj'[x] = obj[x]
    BY <1>12, <1>a DEF CondBroadcast, At, Goto, Calls, TypeOK
  <2>3. \A s \in AllSema : value'[s] <= value[s]
    BY <1>b, <2>1
  <2> QED
    BY <1>a, <2>1, <2>2, <2>3, WakeKept DEF Live
<1>13. ASSUME NEW t \in AllThread, NEW u \in Thread, ThreadCreate(t, u)
      PROVE  NoLostWakeup'
  <2>1. /\ u \in AllThread /\ status[u] = "FREE" /\ pc[u] = "run" /\ pc[t] = "run"
        /\ status' = [status EXCEPT ![u] = "BLOCKED"] /\ UNCHANGED <<value, waiters>>
        /\ pc' = [pc EXCEPT ![u] = "new", ![t] = "down"] /\ obj' = [obj EXCEPT ![t] = TidLock]
    BY <1>13, <1>a DEF ThreadCreate, Calls, At, PageInv, AllThread, synch
  <2>2. \A x \in AllThread : pc[x] = "down" /\ Live(x) =>
            pc'[x] = "down" /\ obj'[x] = obj[x] /\ Live(x)'
    BY <1>a, <2>1 DEF TypeOK, Live
  <2>3. \A s \in AllSema : value'[s] <= value[s]
    BY <1>b, <2>1
  <2> QED
    BY <1>a, <2>1, <2>2, <2>3, WakeKept
<1>14. ASSUME NEW t \in AllThread, SemaDown(t)
      PROVE  NoLostWakeup'
  <2>1. PICK s \in AllSema : s = obj[t]
    BY <1>14, <1>a DEF SemaDown, At, LocalsInv, AllSema
  <2>2. current = t /\ pc[t] = "down" /\ status[t] = "RUNNING"
    BY <1>14, <1>a DEF SemaDown, At, QueueInv
  <2>3. CASE value[s] = 0 /\ waiters' = [waiters EXCEPT ![s] = Append(@, t)]
              /\ thread_block /\ value' = value /\ pc' = pc /\ obj' = obj
    <3>1. \A x \in AllThread \ {t} : Live(x) => Live(x)'
      BY <1>a, <2>2, <2>3, BlockLive
    <3>2. ASSUME NEW r \in AllSema, waiters'[r] # <<>> PROVE value'[r] <= Cardinality(AboutToTest(r)')
      <4>1. CASE r = s
        <5>1. AboutToTest(r)' \subseteq AllThread
          BY DEF AboutToTest
        <5>2. Cardinality(AboutToTest(r)') \in Nat
          BY <5>1, MoreThreads
        <5> QED
          BY <2>3, <4>1, <5>2
      <4>2. CASE r # s
        <5>1. AboutToTest(r) \subseteq AboutToTest(r)' /\ AboutToTest(r)' \subseteq AllThread
          BY <2>1, <2>3, <3>1, <4>2 DEF AboutToTest, Live
        <5>2. waiters[r] # <<>>
          BY <1>a, <2>3, <3>2, <4>2 DEF TypeOK
        <5>3. value[r] <= Cardinality(AboutToTest(r))
          BY <5>2 DEF NoLostWakeup
        <5>4. /\ Cardinality(AboutToTest(r)) \in Nat /\ Cardinality(AboutToTest(r)') \in Nat
              /\ Cardinality(AboutToTest(r)) <= Cardinality(AboutToTest(r)')
          BY <5>1, MoreThreads
        <5> QED
          BY <1>b, <2>3, <5>3, <5>4
      <4> QED
        BY <4>1, <4>2
    <3> QED
      BY <3>2 DEF NoLostWakeup, AboutToTest
  <2>4. CASE value[s] > 0 /\ value' = [value EXCEPT ![s] = @ - 1] /\ waiters' = waiters
              /\ status' = status /\ AfterDown(t, s)
    <3>1. \A x \in AllThread \ {t} : pc'[x] = pc[x] /\ obj'[x] = obj[x] /\ status'[x] = status[x]
      BY <1>a, <2>4 DEF AfterDown, TypeOK
    <3>2. value'[s] = value[s] - 1 /\ \A r \in AllSema \ {s} : value'[r] = value[r]
      BY <1>a, <2>4 DEF TypeOK
    <3>3. ASSUME NEW r \in AllSema, waiters'[r] # <<>> PROVE value'[r] <= Cardinality(AboutToTest(r)')
      <4>1. value[r] <= Cardinality(AboutToTest(r)) /\ AboutToTest(r) \subseteq AllThread
        BY <2>4, <3>3 DEF NoLostWakeup, AboutToTest
      <4>2. /\ AboutToTest(r) \ {t} \subseteq AboutToTest(r)' /\ AboutToTest(r)' \subseteq AllThread
            /\ Cardinality(AboutToTest(r) \ {t}) \in Nat /\ Cardinality(AboutToTest(r)') \in Nat
            /\ Cardinality(AboutToTest(r) \ {t}) <= Cardinality(AboutToTest(r)')
        <5>1. AboutToTest(r) \ {t} \subseteq AboutToTest(r)' /\ AboutToTest(r)' \subseteq AllThread
          BY <3>1 DEF AboutToTest
        <5> QED
          BY <5>1, MoreThreads
      <4>3. CASE r = s
        <5>1. t \in AboutToTest(r)
          BY <2>1, <2>2, <4>3 DEF AboutToTest
        <5>2. IsFiniteSet(AboutToTest(r))
          BY <4>1, FiniteThreads
        <5>3. Cardinality(AboutToTest(r) \ {t}) = Cardinality(AboutToTest(r)) - 1
          BY <5>1, <5>2, FS_RemoveElement
        <5>4. Cardinality(AboutToTest(r)) \in Nat
          BY <5>2, FS_CardinalityType
        <5> QED
          BY <1>b, <3>2, <4>1, <4>2, <4>3, <5>3, <5>4
      <4>4. CASE r # s
        <5>1. t \notin AboutToTest(r)
          BY <2>1, <4>4 DEF AboutToTest
        <5>2. AboutToTest(r) \ {t} = AboutToTest(r)
          BY <5>1
        <5> QED
          <6>1. /\ Cardinality(AboutToTest(r)) \in Nat /\ Cardinality(AboutToTest(r)') \in Nat
                /\ Cardinality(AboutToTest(r)) <= Cardinality(AboutToTest(r)')
            BY <4>2, <5>2
          <6>2. value'[r] = value[r] /\ value[r] \in Nat
            BY <1>b, <3>2, <4>4
          <6> QED
            BY <4>1, <6>1, <6>2
      <4> QED
        BY <4>3, <4>4
    <3> QED
      BY <3>3 DEF NoLostWakeup, AboutToTest
  <2> QED
    BY <1>14, <2>1, <2>3, <2>4 DEF SemaDown, sched, locals
<1>15. ASSUME NEW t \in AllThread, SetHolder(t)
      PROVE  NoLostWakeup'
  <2>1. UNCHANGED <<value, waiters, status>>
    BY <1>15 DEF SetHolder, sched, synch
  <2>2. \A x \in AllThread : pc[x] = "down" => pc'[x] = "down" /\ obj'[x] = obj[x]
    BY <1>15, <1>a DEF SetHolder, At, Goto, TypeOK
  <2>3. \A s \in AllSema : value'[s] <= value[s]
    BY <1>b, <2>1
  <2> QED
    BY <1>a, <2>1, <2>2, <2>3, WakeKept DEF Live
<1>16. ASSUME NEW t \in AllThread, LockUp(t)
      PROVE  NoLostWakeup'
  <2>1. PICK r \in AllSema : r = obj[t]
    BY <1>16, <1>a DEF LockUp, At, AllSema, LocalsInv
  <2>2. sema_up(r)
    BY <1>16, <2>1 DEF LockUp
  <2>3. \A x \in AllThread : pc[x] = "down" => pc'[x] = "down" /\ obj'[x] = obj[x]
    BY <1>16, <1>a DEF LockUp, At, Goto, TypeOK
  <2> QED
    BY <1>a, <2>1, <2>2, <2>3, WakeUp
<1>17. ASSUME NEW t \in AllThread, CondWaitRelease(t)
      PROVE  NoLostWakeup'
  <2>1. UNCHANGED <<value, waiters, status>>
    BY <1>17 DEF CondWaitRelease, lock_release, sched, synch
  <2>2. \A x \in AllThread : pc[x] = "down" => pc'[x] = "down" /\ obj'[x] = obj[x]
    BY <1>17, <1>a DEF CondWaitRelease, lock_release, At, Goto, Calls, TypeOK
  <2>3. \A s \in AllSema : value'[s] <= value[s]
    BY <1>b, <2>1
  <2> QED
    BY <1>a, <2>1, <2>2, <2>3, WakeKept DEF Live
<1>18. ASSUME NEW t \in AllThread, BroadcastStep(t)
      PROVE  NoLostWakeup'
  <2>1. UNCHANGED <<value, waiters, status>>
    BY <1>18 DEF BroadcastStep, pop_waiter, sched, synch
  <2>2. \A x \in AllThread \ {t} : pc'[x] = pc[x] /\ obj'[x] = obj[x]
    BY <1>18, <1>a DEF BroadcastStep, pop_waiter, Goto, TypeOK
  <2>3. pc[t] = "broadcast"
    BY <1>18 DEF BroadcastStep, At
  <2>4. \A s \in AllSema : value'[s] <= value[s]
    BY <1>b, <2>1
  <2> QED
    BY <1>a, <2>1, <2>2, <2>3, <2>4, WakeKept DEF Live
<1>19. ASSUME NEW t \in AllThread, SignalUp(t)
      PROVE  NoLostWakeup'
  <2>1. PICK r \in AllSema : r = obj[t]
    BY <1>19, <1>a DEF SignalUp, At, AllSema, LocalsInv
  <2>2. sema_up(r)
    BY <1>19, <2>1 DEF SignalUp
  <2>3. \A x \in AllThread : pc[x] = "down" => pc'[x] = "down" /\ obj'[x] = obj[x]
    BY <1>19, <1>a DEF SignalUp, At, Goto, TypeOK
  <2> QED
    BY <1>a, <2>1, <2>2, <2>3, WakeUp
<1>20. ASSUME NEW t \in AllThread, TidRead(t)
      PROVE  NoLostWakeup'
  <2>1. UNCHANGED <<value, waiters, status>>
    BY <1>20 DEF TidRead, sched, synch
  <2>2. \A x \in AllThread : pc[x] = "down" => pc'[x] = "down" /\ obj'[x] = obj[x]
    BY <1>20, <1>a DEF TidRead, At, Goto, TypeOK
  <2>3. \A s \in AllSema : value'[s] <= value[s]
    BY <1>b, <2>1
  <2> QED
    BY <1>a, <2>1, <2>2, <2>3, WakeKept DEF Live
<1>21. ASSUME NEW t \in AllThread, TidWrite(t)
      PROVE  NoLostWakeup'
  <2>1. UNCHANGED <<value, waiters, status>>
    BY <1>21 DEF TidWrite, lock_release, sched, synch
  <2>2. \A x \in AllThread : pc[x] = "down" => pc'[x] = "down" /\ obj'[x] = obj[x]
    BY <1>21, <1>a DEF TidWrite, lock_release, At, Goto, TypeOK
  <2>3. \A s \in AllSema : value'[s] <= value[s]
    BY <1>b, <2>1
  <2> QED
    BY <1>a, <2>1, <2>2, <2>3, WakeKept DEF Live
<1>22. ASSUME NEW t \in AllThread, CreateUnblock(t)
      PROVE  NoLostWakeup'
  <2>1. /\ child[t] \in AllThread /\ child[t] # None /\ pc[t] = "create" /\ thread_unblock(child[t])
        /\ pc' = [pc EXCEPT ![child[t]] = "run", ![t] = "run"] /\ UNCHANGED <<value, waiters, obj>>
    BY <1>22, <1>a DEF CreateUnblock, At, LocalsInv, AllThread, synch
  <2>2. pc[child[t]] = "new"
    BY <1>a, <2>1 DEF PageInv
  <2>3. \A x \in AllThread : pc[x] = "down" /\ Live(x) => pc'[x] = "down" /\ Live(x)'
    BY <1>a, <2>1, <2>2 DEF TypeOK, Live, thread_unblock
  <2>4. \A s \in AllSema : value'[s] <= value[s]
    BY <1>b, <2>1
  <2> QED
    BY <1>a, <2>1, <2>3, <2>4, WakeKept
<1>23. ASSUME IdleStart
      PROVE  NoLostWakeup'
  <2>1. UNCHANGED <<value, waiters, status>>
    BY <1>23 DEF IdleStart, sched, synch
  <2>2. \A x \in AllThread : pc[x] = "down" => pc'[x] = "down" /\ obj'[x] = obj[x]
    BY <1>23, <1>a DEF IdleStart, At, Goto, TypeOK
  <2>3. \A s \in AllSema : value'[s] <= value[s]
    BY <1>b, <2>1
  <2> QED
    BY <1>a, <2>1, <2>2, <2>3, WakeKept DEF Live
<1>24. ASSUME IdleUp
      PROVE  NoLostWakeup'
  <2>1. PICK r \in AllSema : r = IdleStarted
    BY <1>24, <1>a DEF IdleUp, At, AllSema
  <2>2. sema_up(r)
    BY <1>24, <2>1 DEF IdleUp
  <2>3. \A x \in AllThread : pc[x] = "down" => pc'[x] = "down" /\ obj'[x] = obj[x]
    BY <1>24, <1>a DEF IdleUp, At, Goto, TypeOK
  <2> QED
    BY <1>a, <2>1, <2>2, <2>3, WakeUp
<1>25. ASSUME IdleLoop
      PROVE  NoLostWakeup'
  <2>1. /\ thread_block /\ UNCHANGED <<value, waiters, obj>> /\ current = Idle
        /\ pc' = [pc EXCEPT ![Idle] = "idle_hlt"] /\ pc[Idle] = "idle_loop"
    BY <1>25 DEF IdleLoop, At, Goto, synch
  <2>2. \A x \in AllThread : pc[x] = "down" /\ Live(x) => Live(x)' /\ pc'[x] = "down"
    BY <1>a, <2>1, BlockLive DEF TypeOK
  <2>3. \A s \in AllSema : value'[s] <= value[s]
    BY <1>b, <2>1
  <2> QED
    BY <1>a, <2>1, <2>2, <2>3, WakeKept
<1>26. ASSUME TimerInterrupt
      PROVE  NoLostWakeup'
  <2>1. PICK n \in 0..Len(sleep_list) :
            LET st == [t \in AllThread |->
                          IF \E i \in 1..n : sleep_list[i] = t THEN "READY" ELSE status[t]]
            IN IF SliceOver
               THEN yield(st, ready_list \o SubSeq(sleep_list, 1, n))
               ELSE status' = st
    BY <1>26 DEF TimerInterrupt
  <2> DEFINE st == [t \in AllThread |->
                       IF \E i \in 1..n : sleep_list[i] = t THEN "READY" ELSE status[t]]
  <2>2. /\ st \in [AllThread -> Status]
        /\ \A x \in AllThread : Live(x) => st[x] \in {"READY", "RUNNING"}
    BY <1>a DEF TypeOK, Status, Live
  <2> HIDE DEF st
  <2>3. \A x \in AllThread : Live(x) => Live(x)'
    <3>1. CASE SliceOver
      <4>1. yield(st, ready_list \o SubSeq(sleep_list, 1, n))
        BY <2>1, <3>1 DEF st
      <4> QED
        BY <2>2, <4>1, YieldLive
    <3>2. CASE ~SliceOver
      <4>1. status' = st
        BY <2>1, <3>2 DEF st
      <4> QED
        BY <2>2, <4>1 DEF Live
    <3> QED
      BY <3>1, <3>2
  <2>4. value' = value /\ waiters' = waiters /\ obj' = obj /\ WakeIdle
    BY <1>26 DEF TimerInterrupt, synch
  <2>5. \A x \in AllThread : pc[x] = "down" => pc'[x] = "down"
    BY <1>a, <2>4 DEF WakeIdle, At, TypeOK
  <2>6. \A s \in AllSema : value'[s] <= value[s]
    BY <1>b, <2>4
  <2> QED
    BY <1>a, <2>3, <2>4, <2>5, <2>6, WakeKept
<1>27. ASSUME NEW s \in Sema \ {IdleStarted}, DeviceInterrupt(s)
      PROVE  NoLostWakeup'
  <2>1. PICK r \in AllSema : r = s
    BY <1>27, <1>a DEF DeviceInterrupt, At, AllSema
  <2>2. sema_up(r)
    BY <1>27, <2>1 DEF DeviceInterrupt
  <2>3. \A x \in AllThread : pc[x] = "down" => pc'[x] = "down" /\ obj'[x] = obj[x]
    BY <1>27, <1>a DEF DeviceInterrupt, At, Goto, TypeOK, WakeIdle
  <2> QED
    BY <1>a, <2>1, <2>2, <2>3, WakeUp
<1>28. CASE UNCHANGED vars
  BY <1>28 DEF NoLostWakeup, AboutToTest, vars, sched, timer, synch, tids, locals
<1> QED
  BY <1>1, <1>2, <1>3, <1>4, <1>5, <1>6, <1>7, <1>8, <1>9, <1>10, <1>11, <1>12, <1>13, <1>14,
     <1>15, <1>16, <1>17, <1>18, <1>19, <1>20, <1>21, <1>22, <1>23, <1>24, <1>25, <1>26,
     <1>27, <1>28
     DEF Next, Call, Continue, IdleStep, Interrupt

\* synch.c loses no wakeup: sema_up wakes one waiter per unit, so that while
\* threads wait every unit of the value has a thread on its way to take it,
\* although sema_down tests the value again after it was woken and a thread
\* that never waited may have taken the unit.
THEOREM WakeupsNotLost == Spec => []NoLostWakeup
<1>1. Init => NoLostWakeup
  BY DEF Init, NoLostWakeup
<1>2. ListInv /\ ListInv' /\ NoLostWakeup /\ [Next]_vars => NoLostWakeup'
  BY WakeupsPreserved
<1> QED
  BY <1>1, <1>2, ListInvariant, PTL DEF Spec
=============================================================================
