\* The parts that wait for interrupts, frames or threads, side by side.
SPECIFICATION ProgressSpec
CHECK_DEADLOCK FALSE
INVARIANTS
    
    ConsoleSound
    WireFramed
    
    ConnectionsOwned
PROPERTIES
    DevicesAnswer
    LoopReached
    Registered
    
    
CONSTANTS
    \* Disk
    DiskThread = {"t1", "t2"}
    DiskValue = {1, 2}
    DiskSize = 5
    PartTable <- Partitions
    SectorWidth = 16
    MaxSpurious = 1
    NoReader = "-"
    \* Console
    Printer = {"t1", "t2"}
    Reader = "r"
    MsgLen = 2
    INTQ_BUFSIZE = 2
    MaxPrints = 2
    MaxKeys = 1
    MaxUrgent = 1
    Nil = "-"
    \* Partov
    MaxWire = 10
    MaxConnects = 2
    \* Nat
    NatClient = {"c1", "c2"}
    NatBox = {"n1"}
    Behind <- OneBox
    Rendezvous = "s"
    ClientPort = {1000}
    BlockedRange <- Ranges
    PortBase = {2000}
    LastId = 3
    MaxPort = 1200
    MaxNatCommands = 3
    Nobody = "-"
    \* Bgp
    Topology <- Topologies
    MAX_RTO = 2
    MAX_CRT = 3
    MAX_HT = 4
    BgpPriority = {}
    \* Http
    HttpConn = {"k1", "k2", "k3"}
    HttpThread = {1, 2}
    HttpConfig <- Servers
    RequestKind = {"missing", "file", "index", "directory"}
    MaxFds = 3
    NoConn = "-"
