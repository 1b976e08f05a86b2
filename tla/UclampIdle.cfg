SPECIFICATION Spec
CONSTANTS
    t1 = t1
    t2 = t2
    Task = {t1, t2}
    SCHED_CAPACITY_SCALE = 3
    UCLAMP_BUCKETS = 2
    Values = {1, 3}
    Attrs <- NoClamps
    Classes = {"fair"}
SYMMETRY Symmetry
INVARIANTS
    ClampCovers
