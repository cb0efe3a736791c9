\* One caller, undisturbed.
CONSTANTS
    BUFFERS = 4
    Procs = {p1}
    Sizes = {0, 1, 2}
    Env = {}
SPECIFICATION Spec
INVARIANTS
    RingExact
    NoOverwrite
    OwnSlot
PROPERTIES
    ImplementsQueue
    AcceptedDrains
    SuspendedReturns
\* a ring that has stalled suspends its caller
CHECK_DEADLOCK FALSE
