SPECIFICATION Spec
CONSTANTS
    m1 = m1
    m2 = m2
    m3 = m3
    NoContext = NoContext
    Messages <- TwoMessages
    Prefetch = 2
    Modes = {FALSE}
    Behaviours = {"ack", "reject"}
    MaxCalls = 2
    MaxSessions = 1
CHECK_DEADLOCK FALSE
INVARIANT RejectedIsNotAcked
