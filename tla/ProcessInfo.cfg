\* A process and a child that may fail to load, exit or be waited for.
CONSTANTS
    p1 = p1
    p2 = p2
    p3 = p3
    Proc = {p1, p2}
    Main = Main
    None = None
    Code = {7}
SPECIFICATION Spec
INVARIANT InfoUsable
CHECK_DEADLOCK FALSE
