SPECIFICATION Spec
CONSTANTS
    u1 = u1
    u2 = u2
    u3 = u3
    Users <- Trio
    Setting <- TrioSettings
    Attempts <- TrioAttempts
    NoKey = "nokey"
    None = None
CHECK_DEADLOCK FALSE
INVARIANT TypeOK
INVARIANT DeclaredExists
INVARIANT PublishedIsRouted
