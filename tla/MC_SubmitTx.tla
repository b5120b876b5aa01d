----------------------------- MODULE MC_SubmitTx -----------------------------
(* Instances of SubmitTx for TLC: the calls are interchangeable.           *)
EXTENDS SubmitTx, TLC

CallSymmetry == Permutations(Call)
==============================================================================
