\* Two processes of one user and a timer, at a limit of two entries that legacy
\* signals may exceed by one.
CONSTANTS
    Procs = {p1, p2}
    Senders = {s1, s2}
    Timers = {t1}
    Sigs = {10, 40}
    Infos = {"FORCED", "SI_USER", "SI_QUEUE"}
    Ignorable = {40}
    TimerSig = 40
    Entries = {e1, e2, e3}
    Limit = 2
    MaxSends = 3
    MaxOverrun = 1
SYMMETRY Alike
SPECIFICATION Spec
INVARIANTS
    EntryOwned
    QueuedIsPending
    FirstInFirstOut
    AtLeastOne
PROPERTY
    WithinLimit
\* all sends are done and every process has exited
CHECK_DEADLOCK FALSE
