----------------------------- MODULE Components -----------------------------
(***************************************************************************)
(* The setup of EnsureStored and the functions of PureFunctions.           *)
(*                                                                         *)
(* Instead of a step of the setup, a client may call one of the pure       *)
(* functions; the laws are invariants of what it passed.                   *)
(***************************************************************************)
EXTENDS EnsureStored, PureFunctions, TLC

vars == <<setupVars, called>>

Init == SetupInit /\ PureFunctionsInit

\* Nothing of the setup is done.
Idle == called = NoCall /\ setupVars = <<{}, {}, {}, [s \in Service |-> Start("check", 0)], 0>>

Next ==
    \/ called = NoCall /\ SetupNext /\ UNCHANGED called
    \/ Idle /\ UNCHANGED setupVars /\ PureFunctionsNext

Spec == Init /\ [][Next]_vars
=============================================================================
