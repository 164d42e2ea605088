SPECIFICATION CallsSpec
CONSTANTS
    t1 = t1  t2 = t2  bytes = bytes
    Threads = {t1, t2}
    Contents = {bytes, Empty}
    Empty = Empty
    Old = Old
    Spoilt = Spoilt
    Nobody = Nobody
    MaxFiles = 2
    MaxCalls = 5
    Operations <- AllOperations
    a1 = a1  a2 = a2  a3 = a3  a4 = a4
    Services = {"video"}
    Addrs = {a1, a2, a3, a4}
    Malformed = {a4}
    NoAddr = NoAddr
    Wrap = 8
    Keys = {1}
    Values = {5, 6}
    Ttls <- TtlValues
    Absent = Absent
    Yes = Yes
    No = No
    PoolSize = 1
    MaxCommands = 3
    Addresses = {"a", "b"}
    Lengths = {0, 3}
    MaxBuffer = 2
    MaxSends = 2
    Streams = {1, 2}
    MaxPackets = 3
    MaxRuns = 2
SYMMETRY Symmetry
CHECK_DEADLOCK FALSE
INVARIANT TypesOK
INVARIANT GuardedUse
INVARIANT NothingHeld
INVARIANT DoneIsDone
INVARIANT RoundRobin
INVARIANT YesIsTrue
INVARIANT MailedOnce
 
PROPERTY LinearizableRegistry
