\* SIGKILL through smunch to a group of two that loses a thread.
CONSTANTS
    NThreads = 2
    Signals = {9, 10}
    Masks = {}
    Catchable = {10}
    Handlers = {"fn"}
    Waits = {}
    Forced = {}
    CounterMod = 1
    Callers = {c1}
    Patterns = {{9}, {10}}
    Reaps = FALSE
SPECIFICATION SmunchSpec
PROPERTIES
    ZombieGoes
    DeepSleepEnds
CHECK_DEADLOCK FALSE
