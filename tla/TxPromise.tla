------------------------------ MODULE TxPromise ------------------------------
(***************************************************************************)
(* What network/src/chain/Chain.ts promises to the caller of               *)
(* submitSignedTx with the default resolution criterion (IS_FINALIZED):    *)
(* the returned promise settles at most once, it resolves only for an      *)
(* extrinsic that is final and succeeded, and it may reject at any time.   *)
(* A rejection says nothing about the ledger: the extrinsic of a rejected  *)
(* call may still become final, and succeed.                               *)
(***************************************************************************)
CONSTANT Call               \* submissions, one extrinsic each

VARIABLES
    ledger,                 \* ledger[c]: the final fate of c's extrinsic
    outcome                 \* outcome[c]: the promise held by c's caller

vars == <<ledger, outcome>>

TypeOK ==
    /\ ledger \in [Call -> {"open", "ok", "bad"}]
    /\ outcome \in [Call -> {"pending", "resolved", "rejected"}]

Init ==
    /\ ledger = [c \in Call |-> "open"]
    /\ outcome = [c \in Call |-> "pending"]

Finalize(c) ==
    /\ ledger[c] = "open"
    /\ \E fate \in {"ok", "bad"} : ledger' = [ledger EXCEPT ![c] = fate]
    /\ UNCHANGED outcome

Resolve(c) ==
    /\ outcome[c] = "pending"
    /\ ledger[c] = "ok"
    /\ outcome' = [outcome EXCEPT ![c] = "resolved"]
    /\ UNCHANGED ledger

Reject(c) ==
    /\ outcome[c] = "pending"
    /\ outcome' = [outcome EXCEPT ![c] = "rejected"]
    /\ UNCHANGED ledger

Next == \E c \in Call : Finalize(c) \/ Resolve(c) \/ Reject(c)

Spec == Init /\ [][Next]_vars
==============================================================================
