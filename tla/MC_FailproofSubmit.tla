-------------------------- MODULE MC_FailproofSubmit --------------------------
(* One job of FailproofSubmit for TLC: two attempts on one account.        *)
EXTENDS FailproofSubmit

MCJob == {"credits"}
MCCall == MCJob \X {1, 2}
==============================================================================
