---------------------------- MODULE MCEtcdProvider ----------------------------
(* Instances of EtcdProvider for TLC.                                      *)
EXTENDS EtcdProvider
=============================================================================
