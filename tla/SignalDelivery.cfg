\* SIGSTOP, and SIGCONT, which is ignored by default but queued while it is
\* blocked; threads block it and wait for it.
CONSTANTS
    NThreads = 2
    Signals = {18, 19}
    Masks = {{18}}
    Catchable = {}
    Handlers = {}
    Waits = {{18}}
    Forced = {}
    CounterMod = 1
SPECIFICATION Spec
INVARIANTS
    TypeOK
    NoMissedSignal
    StopOrContinue
CHECK_DEADLOCK FALSE
