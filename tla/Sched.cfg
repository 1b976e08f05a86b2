SPECIFICATION Spec
CONSTANTS
    c1 = c1
    c2 = c2
    t1 = t1
    t2 = t2
    Task = {t1, t2}
    Cpu = {c1, c2}
    Live = {t1}
    Sleepers = {t1, t2}
    Exiters = {t1, t2}
    Meters = {t1, t2}
    SleepStates = {"UNINT", "IDLE"}
    WakeKinds = {"cond"}
    NewMasks = {}
    IoSleep = TRUE
    Execs = FALSE
    LoadBalance = TRUE
    TTWU_QUEUE = TRUE
    sd_llc_id <- OwnCaches
    UIntMod = 1
    CswMod = 1
    LoadMod = 2
SYMMETRY CpuSymmetry
INVARIANTS
    RunqueueConsistent
    NoLostWakeup
    WakelistSane
    IowaitExact
    LoadExact
    ResumedAwake
    ReferenceHeld
PROPERTIES
    WakingOwned
