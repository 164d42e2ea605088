SPECIFICATION Spec
CONSTANTS
    t1 = t1
    t2 = t2
    c1 = c1
    c2 = c2
    c3 = c3
    c4 = c4
    Callback = Callback
    NoCall = NoCall
    Callers <- TwoCallers
    Calls <- FourCalls
    Kinds <- AllKinds
SYMMETRY Symmetry
CHECK_DEADLOCK FALSE
INVARIANT TypeOK
INVARIANT NoLostWakeup
INVARIANT PromiseOnce
INVARIANT TrueMeansConfirmed
INVARIANT PublishedIsPosted
PROPERTY Mailbox
