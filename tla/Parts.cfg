\* The parts that wait for nobody, side by side.
SPECIFICATION PartsSpec
SYMMETRY Symmetric
CHECK_DEADLOCK FALSE
INVARIANTS
    SectorsDisjoint
    
    
    TerminalSound
    
    RoutesSound
    PromptHasTerminal
PROPERTY
    FilesSpec
CONSTANTS
    \* FileSys: nine sectors of two units, files of up to three data sectors.
    NSectors = 9
    UNIT = 2
    DIRECT = 1
    INDIRECT = 1
    PTRS = 2
    DirSlots = 1
    Name = {a, b}
    Value = {v}
    CreateSize = {1}
    WriteSize = {3}
    SeekPos = {0, 4}
    MaxPos = 9
    MaxFd = 1
    None = None
    \* Heap
    HeapThread = {"h1", "h2"}
    PoolPages = 2
    PGSIZE = 8
    ArenaSize = 2
    MinBlock = 3
    HeapSize = {0, 2, 7}
    NoThread = "-"
    \* AddressSpace
    VmProc = {1, 2}
    VmPageSize = 2
    PHYS_BASE = 4
    PtPages = 2
    UserPool = {11, 12, 13, 14}
    KernelPool = {21, 22, 23, 24}
    VmExe <- Executables
    AddrWidth = 16
    NoPage = 0
    \* Terminal
    COL_CNT = 3
    ROW_CNT = 2
    TabStop = 2
    Keymap <- Keys
    ShiftKeys <- Shifts
    Printed = {97, 8, 9, 10, 12, 13, 7}
    MaxWritten = 3
    MaxKeyEvents = 3
    \* DList
    ListElem = {1, 2, 3}
    ListValue <- Values
    \* HashTable
    HashElem <- Elements
    MinBuckets = 1
    BEST_ELEMS_PER_BUCKET = 1
    \* Strings
    Char = {46, 47, 97}
    MaxString = 4
    SortKeys = {1, 2, 3}
    IntBits = 8
    NameBytes = 2
    \* Numbers
    HalfBits = 3
    FIX_Q = 3
    ELEM_BITS = 3
    RcSize = 4
    RefineBits = 5
    PIT_HZ = 1193180
    Frequencies = {1, 18, 19, 20, 100, 440, 1000, 20000}
    \* Dhcp
    DhcpServer = {"s1", "s2"}
    DhcpClient = {"c1", "c2"}
    DhcpLink <- Links
    DhcpBlock <- AddressBlocks
    LeaseTime = {2}
    PassTime = {2, 3}
    TimeWidth = 4
    MaxCommands = 4
    Buf = Buf
    NoIP = 0
    \* Bgp
    Topology <- Lines
    MAX_RTO = 2
    MAX_CRT = 3
    MAX_HT = 4
    BgpPriority = {95}
    \* MmAlloc
    BLOCK_SIZE = 3
    MmSize = {0, 1, 3, 5}
    MaxBrk = 24
    \* Shell
    ShellPid = {"p1", "p2"}
