---------------------------- MODULE MC_DidResolver ----------------------------
(* Instances of DidResolver for TLC: callers are interchangeable.          *)
EXTENDS DidResolver, TLC

CallerSymmetry == Permutations(Caller)
==============================================================================
