SPECIFICATION FairSpec
CONSTANTS
    MaxLeases = 4
    MaxRegisters = 2
    Absent = Absent
    Modes = {TRUE, FALSE}
CHECK_DEADLOCK FALSE
INVARIANT TypeOK
INVARIANT NoEternalKey
INVARIANT HeartbeatFollowsKey
PROPERTY GoesOffline
PROPERTY Recovers
