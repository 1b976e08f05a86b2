SPECIFICATION FairSpec
CONSTANTS
    s1 = s1
    s2 = s2
    Sender = {s1, s2}
    Calls = {"resched", "idle", "call", "if_idle"}
INVARIANTS
    NoSleepOnRequest
PROPERTIES
    ReschedHonoured
    CallsServed
