\* SIGKILL through smunch to a live process.
CONSTANTS
    NThreads = 1
    Signals = {9}
    Masks = {}
    Catchable = {}
    Handlers = {}
    Waits = {}
    Forced = {}
    CounterMod = 1
    Callers = {c1}
    Patterns = {{9}}
    Reaps = TRUE
SPECIFICATION SmunchSpec
PROPERTY SmunchKills
CHECK_DEADLOCK FALSE
