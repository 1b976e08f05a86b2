SPECIFICATION MCSpec
CONSTANTS
    c1 = c1
    c2 = c2
    t1 = t1
    k1 = k1
    k2 = k2
    Caller = {k1, k2}
    Task = {t1}
    Cpu = {c1, c2}
    CPU = {c1, c2}
    Live = {t1}
    Sleepers = {t1}
    Exiters = {}
    Meters = {t1}
    SleepStates = {"INT"}
    WakeKinds = {"signal"}
    NewMasks = {}
    IoSleep = FALSE
    Execs = TRUE
    LoadBalance = TRUE
    TTWU_QUEUE = TRUE
    sd_llc_id <- OneCache
    UIntMod = 2
    CswMod = 4
    LoadMod = 1
    Watched = t1
    MatchStates = {"none", "INT"}
    LONG_MIN = 2
    Written <- TheWritten
    PTRS = 2
    PAGE_SIZE = 2
    NX = 128
    Frames = {3, 40}
    Mapped = 2
INVARIANTS
    MeterExact
    RemainedUnscheduled
    FilesRoundTrip
    PhysAddrRight
    WithinCpuset
PROPERTIES
    BoundStays
    CallsReturn
