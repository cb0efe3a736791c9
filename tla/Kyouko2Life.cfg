\* Every driver, with the program that tests it and with programs that call
\* what they like.
CONSTANTS
    BUFFERS = 4
    Scenarios <- MCScenarios
    Faults = {"cdev_add", "pci_register", "no_device", "pci_enable", "ioremap"}
    MaxOpens = 3
    Rounds = 6
SPECIFICATION Spec
INVARIANTS
    NoStaleAccess
    
    NothingLeaks
    GivesBackOnce
    HandlerHooked
    CardReadsLive
    BindFindsIdle
\* a module that failed to load stays as it is
CHECK_DEADLOCK FALSE
