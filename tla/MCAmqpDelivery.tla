---------------------------- MODULE MCAmqpDelivery ----------------------------
(* Instances of AmqpDelivery for TLC.                                      *)
EXTENDS AmqpDelivery

CONSTANTS m1, m2, m3

TwoMessages   == {m1, m2}
ThreeMessages == {m1, m2, m3}
=============================================================================
