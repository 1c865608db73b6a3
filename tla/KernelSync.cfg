SPECIFICATION Spec
CONSTANTS
    Thread = {t1, t2}
    Main = main
    Idle = idle
    Sema = {idle_started, s}
    IdleStarted = idle_started
    Lock = {tid_lock, lk}
    TidLock = tid_lock
    UserLock = lk
    Cond = {c}
    CondLock <- MCCondLock
    None = none
    TIME_SLICE = 1
    SleepTicks = {}
    MaxTicks = 0
    MaxValue = 2
    MaxTid = 5
    Ops = {"lock", "cond", "sema", "device", "create"}
SYMMETRY ThreadSymmetry
INVARIANTS
    LockExclusion
    NoLostWakeup
    WaiterAlive

