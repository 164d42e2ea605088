SPECIFICATION FairSpec
CONSTANTS
    m1 = m1
    m2 = m2
    m3 = m3
    NoContext = NoContext
    Messages <- ThreeMessages
    Prefetch = 2
    Modes = {TRUE, FALSE}
    Behaviours = {"ack", "reject", "keep"}
    MaxCalls = 2
    MaxSessions = 2
CHECK_DEADLOCK FALSE
INVARIANT TypeOK
INVARIANT SettledAfterHandling
INVARIANT SettledOnce
PROPERTY DuplicateIsMarked
PROPERTY EveryMessageSettled
