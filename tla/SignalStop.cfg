\* Job control in a group of two: stop, continue, kill and exit.
CONSTANTS
    NThreads = 2
    Signals = {9, 18, 20}
    Masks = {}
    Catchable = {}
    Handlers = {}
    Waits = {}
    Forced = {}
    CounterMod = 1
SPECIFICATION Spec
INVARIANTS
    StopCountExact
    NoWarning
    NobodyLeftStopped
    StoppedMeansStopped
PROPERTIES
    DeathIsFinal
    KillKills
    ContinueReported
    ReportNotLost
CHECK_DEADLOCK FALSE
