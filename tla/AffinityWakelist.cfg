SPECIFICATION Spec
CONSTANTS
    c1 = c1
    c2 = c2
    t1 = t1
    t2 = t2
    Task = {t1, t2}
    Cpu = {c1, c2}
    Live = {t1, t2}
    Sleepers = {t1, t2}
    Exiters = {}
    Meters = {}
    SleepStates = {"UNINT"}
    WakeKinds = {"cond"}
    NewMasks <- SingleMasks
    IoSleep = FALSE
    Execs = FALSE
    LoadBalance = FALSE
    TTWU_QUEUE = TRUE
    sd_llc_id <- OneCache
    UIntMod = 1
    CswMod = 1
    LoadMod = 1
SYMMETRY Symmetry
INVARIANTS
    AffinityHonoured
