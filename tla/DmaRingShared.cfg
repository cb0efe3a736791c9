\* Two callers and every disturbance.
CONSTANTS
    BUFFERS = 3
    Procs = {p1, p2}
    Sizes = {0, 1}
    Env = {"signal", "sharedirq", "fault"}
SPECIFICATION Spec
SYMMETRY Symmetry
INVARIANTS
    TypeOK
    NeverComesHere
    OneTransferAtATime
    CarriesOldest
PROPERTY
    CardUndisturbed
\* a ring that has stalled suspends every caller
CHECK_DEADLOCK FALSE
