SPECIFICATION Spec
CONSTANTS
    u1 = u1
    u2 = u2
    u3 = u3
    Users <- Single
    Setting <- SingleDelayed
    NoKey = "nokey"
    None = None
    Attempts <- SingleAttempt
CHECK_DEADLOCK FALSE
INVARIANT DelayedIsAccepted
