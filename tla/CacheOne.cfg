\* One process, three sectors of two parts in two cells.
CONSTANTS
    u1 = u1
    u2 = u2
    Client = {u1}
    Sector = {0, 1, 2}
    Part = {0, 1}
    Data = {0, 1}
    Writable = {0, 1}
    CACHE_SIZE = 2
    None = None
SPECIFICATION Spec
INVARIANTS TypeOK UniqueCell
PROPERTIES StoreSpec FlushPersists
