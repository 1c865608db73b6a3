\* Two processes, one of which may flush while the other reads or writes; what
\* they write does not matter.
CONSTANTS
    u1 = u1
    u2 = u2
    Client = {u1, u2}
    Sector = {0, 1, 2}
    Part = {0}
    Data = {0}
    Writable = {0, 1, 2}
    CACHE_SIZE = 2
    None = None
SPECIFICATION FairSpec
PROPERTY AccessEnds
