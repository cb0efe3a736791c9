CONSTANTS
    BUFFERS = 3
    Procs = {p1}
    Sizes = {1}
    Env = {}
SPECIFICATION Spec
INVARIANT RequestIsStarted
CHECK_DEADLOCK FALSE
