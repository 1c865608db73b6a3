\* One process at a time on a device of nine sectors, two of them per pointer
\* block: files of up to three data sectors.
CONSTANTS
    NSectors = 9
    UNIT = 2
    DIRECT = 1
    INDIRECT = 1
    PTRS = 2
    DirSlots = 1
    Name = {a, b}
    Value = {v}
    CreateSize = {1}
    WriteSize = {3}
    SeekPos = {0, 4}
    MaxPos = 9
    MaxFd = 1
    None = None
SPECIFICATION Spec
INVARIANTS NoStaleSector
CHECK_DEADLOCK FALSE
SYMMETRY Symmetric
