SPECIFICATION Spec
CONSTANTS
    t1 = t1
    t2 = t2
    c1 = c1
    c2 = c2
    None = None
    Task = {t1, t2}
    LockOrder <- Pair
    Caller = {c1, c2}
    MAX_RT_PRIO = 3
    MaxNice = 1
    Calls <- DonorCalls
    RLIMIT_NICE = 1
    RLIMIT_RTPRIO = 1
SYMMETRY Symmetry
INVARIANT
    QueuedAtPrio
