SPECIFICATION FairSpec
CONSTANTS
    t1 = t1
    t2 = t2
    c1 = c1
    c2 = c2
    c3 = c3
    c4 = c4
    Callback = Callback
    NoCall = NoCall
    Callers <- TwoCallers
    Calls <- ThreeCalls
    Kinds <- LifecycleKinds

CHECK_DEADLOCK FALSE
PROPERTY StopReturns
