---------------------------- MODULE MCAmqpTopology ----------------------------
(* Instances of AmqpTopology for TLC.                                      *)
EXTENDS AmqpTopology

CONSTANTS u1, u2, u3

Direct  == [exchange |-> "x", type |-> "direct", queue |-> "q", key |-> "k"]
Keyless == [exchange |-> "x", type |-> "fanout", queue |-> "q", key |-> NoKey]
Delayed == [exchange |-> "x", type |-> "delayed", queue |-> "q", key |-> "k"]

\* Two users declare one exchange with two types, and share a queue; the third has a
\* setting that the broker refuses.
Trio         == {u1, u2, u3}
TrioSettings == [u \in Trio |-> CASE u = u1 -> Direct [] u = u2 -> Keyless [] u = u3 -> Delayed]
\* Two of them try again, whatever became of their first attempt.
TrioAttempts == [u \in Trio |-> IF u = u3 THEN 1 ELSE 2]

Single        == {u3}
SingleDelayed == [u \in Single |-> Delayed]
SingleAttempt == [u \in Single |-> 1]
=============================================================================
