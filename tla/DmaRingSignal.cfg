CONSTANTS
    BUFFERS = 3
    Procs = {p1}
    Sizes = {1}
    Env = {"signal"}
SPECIFICATION Spec
INVARIANT NoOverwrite
CHECK_DEADLOCK FALSE
