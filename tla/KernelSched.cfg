SPECIFICATION Spec
CONSTANTS
    Thread = {t1, t2}
    Main = main
    Idle = idle
    Sema = {idle_started}
    IdleStarted = idle_started
    Lock = {tid_lock, lk}
    TidLock = tid_lock
    UserLock = lk
    Cond = {}
    CondLock <- MCCondLock
    None = none
    TIME_SLICE = 2
    SleepTicks = {0, 1, 2}
    MaxTicks = 4
    MaxValue = 1
    MaxTid = 6
    Ops = {"sleep", "create", "yield", "exit"}
SYMMETRY ThreadSymmetry
INVARIANTS
    TypeOK
    ThreadsAccounted
    HaltsOnlyWhenIdle
    
PROPERTIES
    WokenWhenDue
