SPECIFICATION FairSpec
CONSTANTS
    Thread = {t1}
    Main = main
    Idle = idle
    Sema = {idle_started, s}
    IdleStarted = idle_started
    Lock = {tid_lock, lk}
    TidLock = tid_lock
    UserLock = lk
    Cond = {}
    CondLock <- MCCondLock
    None = none
    TIME_SLICE = 2
    SleepTicks = {1, 2}
    MaxTicks = 3
    MaxValue = 1
    MaxTid = 4
    Ops = {"sleep", "create", "sema", "device"}
PROPERTIES
    ReadyRuns
    SleeperRuns
