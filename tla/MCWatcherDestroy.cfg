SPECIFICATION Spec
CONSTANTS
    k1 = k1
    k2 = k2
    e1 = e1
    e2 = e2
    Absent = Absent
    Keys <- TwoKeys
    Endpoints <- OneEndpoint
    MaxChanges = 1
    MaxStarts = 1
    IntWrap = 2
    SizeWrap = 64

CHECK_DEADLOCK FALSE
INVARIANT NoDanglingCallback
