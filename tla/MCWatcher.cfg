SPECIFICATION FairSpec
CONSTANTS
    k1 = k1
    k2 = k2
    e1 = e1
    e2 = e2
    Absent = Absent
    Keys <- TwoKeys
    Endpoints <- TwoEndpoints
    MaxChanges = 2
    MaxStarts = 2
    IntWrap = 4
    SizeWrap = 64
CHECK_DEADLOCK FALSE
INVARIANT TypeOK
INVARIANT CacheLagsByEvents
INVARIANT RoundRobin
PROPERTY CacheConverges
