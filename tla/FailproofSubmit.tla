--------------------------- MODULE FailproofSubmit ---------------------------
(***************************************************************************)
(* failproofSubmit of demo/src/utils/createAuthorities.ts over SubmitTx:   *)
(* a job submits one unsigned extrinsic with signAndSubmitTx and, whatever *)
(* made that throw, waits, signs the same extrinsic anew with the account  *)
(* nonce of that moment and submits it a second time.  A call of SubmitTx  *)
(* is an attempt <<job, 1>> or <<job, 2>>.                                 *)
(***************************************************************************)
EXTENDS SubmitTx

CONSTANT Job        \* calls of failproofSubmit; Call is Job \X {1, 2}

\* The catch block runs once the first attempt has thrown.
MayStep(c) == c[2] = 1 \/ pc[<<c[1], 1>>] = "threw"

failproofSubmit(c) == MayStep(c) /\ SdkStep(c)

FailproofNext ==
    \/ \E c \in Call : failproofSubmit(c) \/ NodeStep(c)
    \/ CordDisconnect \/ Disconnect \/ Reconnect

FailproofSpec == Init /\ [][FailproofNext]_vars

\* A job "sends a transaction to the chain to transfer the specified amount of
\* credits": one of its two attempts at most becomes final and succeeds.
TransfersOnce ==
    \A j \in Job : ~(chain[<<j, 1>>] = "finalOk" /\ chain[<<j, 2>>] = "finalOk")
==============================================================================
