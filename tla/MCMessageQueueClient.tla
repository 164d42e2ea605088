------------------------ MODULE MCMessageQueueClient ------------------------
(* Instances of MessageQueueClient for TLC.                                *)
EXTENDS MessageQueueClient, TLC

CONSTANTS t1, t2, c1, c2, c3, c4

TwoCallers == {t1, t2}
ThreeCalls == {c1, c2, c3}
FourCalls  == {c1, c2, c3, c4}

\* Used by the runs that check no liveness property.
Symmetry == Permutations(TwoCallers) \cup Permutations(FourCalls)

LifecycleKinds == {"start", "stop", "wait", "destroy", "publish"}
FlowKinds      == {"start", "publish", "consume"}
=============================================================================
