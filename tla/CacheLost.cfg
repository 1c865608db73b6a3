\* A flush while another process writes.
CONSTANTS
    u1 = u1
    u2 = u2
    Client = {u1, u2}
    Sector = {0, 1}
    Part = {0}
    Data = {0, 1}
    Writable = {0, 1}
    CACHE_SIZE = 1
    None = None
SPECIFICATION Spec
PROPERTY StoreSpec
