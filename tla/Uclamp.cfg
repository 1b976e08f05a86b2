SPECIFICATION MCSpec
CONSTANTS
    t1 = t1
    t2 = t2
    w1 = w1
    w2 = w2
    Waker = {w1, w2}
    Task = {t1, t2}
    SCHED_CAPACITY_SCALE = 3
    UCLAMP_BUCKETS = 2
    Values = {1, 3}
    Attrs <- MaxClamp
    Classes = {"fair", "dl"}
SYMMETRY MCSymmetry
INVARIANTS
    RefcountExact
    UpToDate
    ListIntact
    RefExact
PROPERTY
    WakeupsOwed
