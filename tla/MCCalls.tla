-------------------------------- MODULE MCCalls --------------------------------
(***************************************************************************)
(* ServiceCalls, for TLC.                                                  *)
(***************************************************************************)
EXTENDS ServiceCalls, TLC

CONSTANTS t1, t2, bytes, a1, a2, a3, a4

AllOperations == Transfers \cup {"Initialize", "Destory"}
Symmetry      == Permutations({t1, t2}) \cup Permutations({a1, a2, a3})

\* A time to live that is negative, none, and positive.
TtlValues == {-1, 0, 1}
=============================================================================
