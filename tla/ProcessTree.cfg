\* Main starts a process tree of up to three processes.
CONSTANTS
    p1 = p1
    p2 = p2
    p3 = p3
    Proc = {p1, p2, p3}
    Main = Main
    None = None
    Code = {7}
SPECIFICATION Spec
SYMMETRY Symmetry
INVARIANTS ExecTruthful ArgsAlive WaitTruthful ChildrenValid  TypeOK
CHECK_DEADLOCK FALSE
