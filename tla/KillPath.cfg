CONSTANTS
    Tasks <- MCTasks
    Caller = 5
    InitNr <- MCNr
    InitGroup <- MCGroup
    Session <- MCSession
    Pgrp <- MCPgrp
    CredsOf <- MCCreds
    NSIG = 2
    Sigs = {0, 1, 2, 3}
    Groups = {0, 2, 5}
    SIGCONT = 1
    SIGRTMIN = 2
    Garbage = {5}
    MaxCalls = 1
SPECIFICATION Spec
INVARIANTS KillExact OnlyPermitted
PROPERTY KillReturns
CHECK_DEADLOCK FALSE
