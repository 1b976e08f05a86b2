SPECIFICATION FairSpec
CONSTANTS
    c1 = c1
    c2 = c2
    t1 = t1
    t2 = t2
    Task = {t1, t2}
    Cpu = {c1, c2}
    Live = {t1, t2}
    Sleepers = {t1}
    Exiters = {}
    Meters = {}
    SleepStates = {"INT"}
    WakeKinds = {"signal"}
    NewMasks = {{c1}}
    IoSleep = FALSE
    Execs = TRUE
    LoadBalance = FALSE
    TTWU_QUEUE = FALSE
    sd_llc_id <- OneCache
    UIntMod = 1
    CswMod = 1
    LoadMod = 1
INVARIANTS
    SingleExecution
    AffinityHonoured
    CpuNumberRight
PROPERTIES
    WakeupCompletes
    MigrationCompletes
