--------------------------- MODULE MC_DidAuthorize ---------------------------
(* Instances of DidAuthorize for TLC: the tasks are interchangeable.       *)
EXTENDS DidAuthorize, TLC

TaskSymmetry == Permutations(Task)
==============================================================================
