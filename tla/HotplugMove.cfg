SPECIFICATION MCSpec
CONSTANTS
    Files <- TheFiles
    root = root
    ga = ga
    gb = gb
    c1 = c1
    c2 = c2
    w1 = w1
    w2 = w2
    Group = {root, ga, gb}
    Root = root
    parent <- TheParent
    Above <- TheAbove
    Walk <- TheWalk
    CPU = {c1, c2}
    Writer = {w1, w2}
    Throttles <- TheThrottles
    QuotaUs <- TheQuotas
    PeriodUs = {1, 2, 5, 66}
    Pluggable = {c2}
    WORD = 64
    BW_UNIT = 4
    NSEC_PER_USEC = 3
    min_cfs_quota_period = 6
    max_cfs_quota_period = 12
    default_period = 12
    max_cfs_runtime = 45
    Housekeeping = {c1}
    member = gb
    Node <- TheNode
    Cpuset = {c2}
    Masks = {{c1}, {c2}}
INVARIANTS
    MovedAway
