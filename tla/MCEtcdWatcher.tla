---------------------------- MODULE MCEtcdWatcher ----------------------------
(* Instances of EtcdWatcher for TLC.                                       *)
EXTENDS EtcdWatcher

CONSTANTS k1, k2, e1, e2

TwoKeys      == {k1, k2}
OneEndpoint  == {e1}
TwoEndpoints == {e1, e2}
=============================================================================
