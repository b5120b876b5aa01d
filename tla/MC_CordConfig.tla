---------------------------- MODULE MC_CordConfig ----------------------------
(* Instances of CordConfig for TLC: calls are interchangeable, and levels  *)
(* lie below, within and above what the loggers know.                      *)
EXTENDS CordConfig, TLC

MCLevel == {-1, 2, 9}
CallSymmetry == Permutations(Connection) \cup Permutations(Disconnection)
==============================================================================
