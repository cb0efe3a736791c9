\* Two callers send what is not SIGKILL, while the parent waits and the target
\* faults, blocks, catches, ignores or waits for the signals.
CONSTANTS
    NThreads = 1
    Signals = {11, 17}
    Masks = {{}, {11, 17}}
    Catchable = {11}
    Handlers = {"oneshot", "SIG_IGN"}
    Waits = {{11, 17}}
    Forced = {11}
    CounterMod = 1
    Callers = {c1, c2}
    Patterns = {{11}, {11, 17}}
    Reaps = TRUE
SPECIFICATION SmunchSpec
INVARIANT NoMissedSignal
CHECK_DEADLOCK FALSE
