------------------------------ MODULE SubmitTx ------------------------------
(***************************************************************************)
(* signAndSubmitTx / submitSignedTx of network/src/chain/Chain.ts, with    *)
(* the promise that makeSubscriptionPromise builds, for several extrinsics *)
(* that one account submits concurrently over one web socket.              *)
(*                                                                         *)
(* A call runs in steps cut at its awaits: signing (the account nonce is   *)
(* read there), tx.send, the promise.  Between two of them anything else   *)
(* may happen: status updates, the timer, a dropped connection, the other  *)
(* calls, Cord.disconnect.                                                 *)
(*                                                                         *)
(* The node, its pool and the web socket are external: they are modelled   *)
(* from how Chain.ts uses them.  A dropped connection loses the status     *)
(* streams (a reconnect does not restore them) and the requests in flight; *)
(* a node that got a request may have acted on it although the answer is   *)
(* lost.  Blocks may be retracted until they are final.                    *)
(***************************************************************************)
EXTENDS Integers, Sequences, FiniteSets

CONSTANTS
    Call,           \* calls of signAndSubmitTx, one extrinsic each
    ResolveOn,      \* the resolution criterion, an evaluator of Chain.ts
    Timeouts,       \* the choices of a call: is its timeout option greater than 0?
    MaxDrops,       \* bound: how often the connection drops
    MaxRetracts     \* bound: how often a block is retracted

Evaluators == {"IS_READY", "IS_IN_BLOCK", "EXTRINSIC_EXECUTED", "IS_FINALIZED"}

ASSUME CallAssumption == IsFiniteSet(Call)
ASSUME OptionsAssumption == ResolveOn \in Evaluators /\ Timeouts \subseteq BOOLEAN
ASSUME BoundsAssumption == MaxDrops \in Nat /\ MaxRetracts \in Nat

VARIABLES
    \* the connection and the configuration
    online,             \* is the web socket connected?
    apiSet,             \* does the ConfigService hold the api?
    hasSubscriptions,   \* is the api's provider a web socket?
    drops, retracts,    \* what MaxDrops and MaxRetracts bound
    \* the node, per extrinsic
    chain,              \* where the extrinsic is
    nonce,              \* the account nonce it is signed with
    wire,               \* the state of tx.send's request
    subscribed,         \* is the node streaming its status?
    mail,               \* status updates sent and not yet delivered
    \* the SDK, per call
    pc,                 \* where the call is
    promise,            \* the subscription promise: state and settled value
    timer,              \* the timeout of the promise
    latest,             \* latestResult
    listening           \* is handleDisconnect registered?

envVars  == <<online, apiSet, hasSubscriptions, drops, retracts>>
nodeVars == <<chain, nonce, wire, subscribed, mail>>
callVars == <<pc, promise, timer, latest, listening>>
vars == <<envVars, nodeVars, callVars>>

-----------------------------------------------------------------------------
(* Submission results and the evaluators over them.                        *)

\* ISubmittableResult: "error" stands for dropped, invalid, usurped and
\* finalityTimeout; events holds ExtrinsicSuccess, ExtrinsicFailed or neither.
Result == [status : {"future", "ready", "inBlock", "retracted", "finalized", "error"},
           events : {"none", "success", "failed"},
           internalError : BOOLEAN]

Status(s) == [status |-> s, events |-> "none", internalError |-> FALSE]
Executed(s, ok) == [status |-> s,
                    events |-> IF ok THEN "success" ELSE "failed",
                    internalError |-> FALSE]

NoResult == Status("none")
TimeoutError == Status("TimeoutError")

extrinsicFailed(r) == r.events = "failed"
extrinsicSuccessful(r) == r.events = "success"
\* Mutant: isError without internalError.
IS_ERROR_status(r) == r.status = "error"

IS_ERROR(r) == r.status = "error" \/ r.internalError

\* Mutant: a block counts as final.
resolveOn_block(r) ==
    \/ ResolveOn = "IS_READY" /\ r.status = "ready"
    \/ ResolveOn = "EXTRINSIC_EXECUTED" /\ extrinsicSuccessful(r)
    \/ ResolveOn \in {"IS_IN_BLOCK", "IS_FINALIZED"} /\ r.status \in {"inBlock", "finalized"}

resolveOn(r) ==
    \/ ResolveOn = "IS_READY" /\ r.status = "ready"
    \/ ResolveOn = "IS_IN_BLOCK" /\ r.status = "inBlock"
    \/ ResolveOn = "EXTRINSIC_EXECUTED" /\ extrinsicSuccessful(r)
    \/ ResolveOn = "IS_FINALIZED" /\ r.status = "finalized"

\* Mutant: dispatch errors are not looked at.
rejectOn_status(r) == IS_ERROR(r)

rejectOn(r) == extrinsicFailed(r) \/ IS_ERROR(r)

\* Mutant: resolve comes before reject.
Subscription_resolveFirst(p, r) ==
    IF p.state # "pending" THEN p
    ELSE IF resolveOn(r) THEN [state |-> "resolved", value |-> r]
    ELSE IF rejectOn(r) THEN [state |-> "rejected", value |-> r]
    ELSE p

\* The promise after subscription(r): the first call of reject or resolve
\* settles it, and reject comes first.
Subscription(p, r) ==
    IF p.state # "pending" THEN p
    ELSE IF rejectOn(r) THEN [state |-> "rejected", value |-> r]
    ELSE IF resolveOn(r) THEN [state |-> "resolved", value |-> r]
    ELSE p

\* Mutant: a lost connection is pushed as a failed extrinsic.
ConnectionError_failed(last) ==
    [status |-> IF last = NoResult THEN "future" ELSE last.status,
     events |-> "failed", internalError |-> TRUE]

\* What handleDisconnect pushes: the latest result marked as failed.
ConnectionError(last) ==
    [status |-> IF last = NoResult THEN "future" ELSE last.status,
     events |-> last.events,
     internalError |-> TRUE]

Settled(c) == promise[c].state \in {"resolved", "rejected"}
Done(c) == pc[c] \in {"returned", "threw"}

-----------------------------------------------------------------------------
(* The account nonce as the node sees it.                                  *)

InBlock == {"inBlockOk", "inBlockBad"}
Final == {"finalOk", "finalBad"}

AccountNonce == Cardinality({c \in Call : chain[c] \in InBlock \cup Final})
PoolNonces == {nonce[c] : c \in {d \in Call : chain[d] = "ready"}}

\* n is what nonce: -1 asks for: the first nonce neither used nor in the pool.
NextIndex(n) ==
    /\ n >= AccountNonce
    /\ n \notin PoolNonces
    /\ \A m \in AccountNonce .. n - 1 : m \in PoolNonces

-----------------------------------------------------------------------------
TypeOK ==
    /\ online \in BOOLEAN /\ apiSet \in BOOLEAN /\ hasSubscriptions \in BOOLEAN
    /\ drops \in Nat /\ retracts \in Nat
    /\ chain \in [Call -> {"absent", "future", "ready", "evicted"} \cup InBlock \cup Final]
    /\ nonce \in [Call -> Nat]
    /\ wire \in [Call -> {"none", "request", "accepted", "refused", "lost"}]
    /\ subscribed \in [Call -> BOOLEAN]
    /\ mail \in [Call -> Seq(Result)]
    /\ pc \in [Call -> {"idle", "signed", "sending", "watching", "returned", "threw"}]
    /\ promise \in [Call -> [state : {"none", "pending", "resolved", "rejected"},
                             value : Result \cup {NoResult, TimeoutError}]]
    /\ timer \in [Call -> {"off", "armed", "fired"}]
    /\ latest \in [Call -> Result \cup {NoResult}]
    /\ listening \in [Call -> BOOLEAN]

Init ==
    /\ online = TRUE /\ apiSet = TRUE /\ hasSubscriptions \in BOOLEAN
    /\ drops = 0 /\ retracts = 0
    /\ chain = [c \in Call |-> "absent"]
    /\ nonce = [c \in Call |-> 0]
    /\ wire = [c \in Call |-> "none"]
    /\ subscribed = [c \in Call |-> FALSE]
    /\ mail = [c \in Call |-> <<>>]
    /\ pc = [c \in Call |-> "idle"]
    /\ promise = [c \in Call |-> [state |-> "none", value |-> NoResult]]
    /\ timer = [c \in Call |-> "off"]
    /\ latest = [c \in Call |-> NoResult]
    /\ listening = [c \in Call |-> FALSE]

-----------------------------------------------------------------------------
(* The SDK: one action per step of a call.                                 *)

\* tx.signAsync(signer, {tip, nonce: -1}): the next index is read here and
\* used later.
Sign(c) ==
    /\ pc[c] = "idle"
    /\ online
    /\ \E n \in 0 .. Cardinality(Call) :
          NextIndex(n) /\ nonce' = [nonce EXCEPT ![c] = n]
    /\ pc' = [pc EXCEPT ![c] = "signed"]
    /\ UNCHANGED <<envVars, chain, wire, subscribed, mail, promise, timer, latest, listening>>

SignThrows(c) ==
    /\ pc[c] = "idle"
    /\ ~online
    /\ pc' = [pc EXCEPT ![c] = "threw"]
    /\ UNCHANGED <<envVars, nodeVars, promise, timer, latest, listening>>

\* submitSignedTx without an api, or over a provider without subscriptions.
SubmitThrows(c) ==
    /\ pc[c] = "signed"
    /\ ~apiSet \/ ~hasSubscriptions
    /\ pc' = [pc EXCEPT ![c] = "threw"]
    /\ UNCHANGED <<envVars, nodeVars, promise, timer, latest, listening>>

\* submitSignedTx up to `await tx.send`: promise and timer are set up.
Submit(c) ==
    /\ pc[c] = "signed"
    /\ apiSet /\ hasSubscriptions
    /\ promise' = [promise EXCEPT ![c] = [state |-> "pending", value |-> NoResult]]
    /\ \E set \in Timeouts : timer' = [timer EXCEPT ![c] = IF set THEN "armed" ELSE "off"]
    /\ wire' = [wire EXCEPT ![c] = IF online THEN "request" ELSE "lost"]
    /\ pc' = [pc EXCEPT ![c] = "sending"]
    /\ UNCHANGED <<envVars, chain, nonce, subscribed, mail, latest, listening>>

\* Mutant: handleDisconnect is not registered.
SendResolves_deaf(c) ==
    /\ pc[c] = "sending"
    /\ wire[c] = "accepted"
    /\ pc' = [pc EXCEPT ![c] = "watching"]
    /\ UNCHANGED <<envVars, nodeVars, promise, timer, latest, listening>>

\* tx.send answers: only now is handleDisconnect registered.
SendResolves(c) ==
    /\ pc[c] = "sending"
    /\ wire[c] = "accepted"
    /\ listening' = [listening EXCEPT ![c] = TRUE]
    /\ pc' = [pc EXCEPT ![c] = "watching"]
    /\ UNCHANGED <<envVars, nodeVars, promise, timer, latest>>

\* tx.send throws: outside the try block, so nothing is cleaned up.
SendThrows(c) ==
    /\ pc[c] = "sending"
    /\ wire[c] \in {"refused", "lost"}
    /\ pc' = [pc EXCEPT ![c] = "threw"]
    /\ UNCHANGED <<envVars, nodeVars, promise, timer, latest, listening>>

\* The callback given to tx.send: latestResult = result; subscription(result).
Deliver(c) ==
    /\ pc[c] \in {"sending", "watching"}
    /\ mail[c] # <<>>
    /\ latest' = [latest EXCEPT ![c] = Head(mail[c])]
    /\ promise' = [promise EXCEPT ![c] = Subscription(@, Head(mail[c]))]
    /\ mail' = [mail EXCEPT ![c] = Tail(@)]
    /\ UNCHANGED <<envVars, chain, nonce, wire, subscribed, pc, timer, listening>>

\* Mutant: the timer does not reject.
TimerFires_silent(c) ==
    /\ timer[c] = "armed"
    /\ timer' = [timer EXCEPT ![c] = "fired"]
    /\ UNCHANGED <<envVars, nodeVars, pc, promise, latest, listening>>

\* The timeout is never cancelled; on a settled promise it does nothing.
TimerFires(c) ==
    /\ timer[c] = "armed"
    /\ timer' = [timer EXCEPT ![c] = "fired"]
    /\ promise' = [promise EXCEPT ![c] =
          IF @.state = "pending" THEN [state |-> "rejected", value |-> TimeoutError] ELSE @]
    /\ UNCHANGED <<envVars, nodeVars, pc, latest, listening>>

\* Mutant: the finally block does not call api.off.
Finish_leak(c) ==
    /\ pc[c] = "watching"
    /\ Settled(c)
    /\ pc' = [pc EXCEPT ![c] = IF promise[c].state = "resolved" THEN "returned" ELSE "threw"]
    /\ subscribed' = [subscribed EXCEPT ![c] = FALSE]
    /\ mail' = [mail EXCEPT ![c] = <<>>]
    /\ UNCHANGED <<envVars, chain, nonce, wire, promise, timer, latest, listening>>

\* `await promise` continues: return or throw, then the finally block.
Finish(c) ==
    /\ pc[c] = "watching"
    /\ Settled(c)
    /\ pc' = [pc EXCEPT ![c] = IF promise[c].state = "resolved" THEN "returned" ELSE "threw"]
    /\ subscribed' = [subscribed EXCEPT ![c] = FALSE]
    /\ mail' = [mail EXCEPT ![c] = <<>>]
    /\ listening' = [listening EXCEPT ![c] = FALSE]
    /\ UNCHANGED <<envVars, chain, nonce, wire, promise, timer, latest>>

-----------------------------------------------------------------------------
(* The connection.                                                         *)

\* Cord.disconnect: the api leaves the configuration, the calls under way
\* keep the one they captured.
CordDisconnect ==
    /\ apiSet
    /\ apiSet' = FALSE
    /\ UNCHANGED <<online, hasSubscriptions, drops, retracts, nodeVars, callVars>>

\* The socket closes.  Requests in flight fail, answers in flight may be lost,
\* the streams end, and api.once runs handleDisconnect of every listener.
Disconnect ==
    /\ online
    /\ drops < MaxDrops
    /\ online' = FALSE
    /\ drops' = drops + 1
    /\ \E lost \in SUBSET {c \in Call : pc[c] = "sending" /\ wire[c] = "accepted"} :
          wire' = [c \in Call |->
                     IF wire[c] = "request" \/ c \in lost THEN "lost" ELSE wire[c]]
    /\ subscribed' = [c \in Call |-> FALSE]
    /\ mail' = [c \in Call |-> <<>>]
    /\ promise' = [c \in Call |->
                     IF listening[c]
                     THEN Subscription(promise[c], ConnectionError(latest[c]))
                     ELSE promise[c]]
    /\ listening' = [c \in Call |-> FALSE]
    /\ UNCHANGED <<apiSet, hasSubscriptions, retracts, chain, nonce, pc, timer, latest>>

Reconnect ==
    /\ ~online /\ apiSet
    /\ online' = TRUE
    /\ UNCHANGED <<apiSet, hasSubscriptions, drops, retracts, nodeVars, callVars>>

-----------------------------------------------------------------------------
(* The node.                                                               *)

Emit(c, r) ==
    mail' = [mail EXCEPT ![c] = IF subscribed[c] THEN Append(@, r) ELSE @]

Move(c, place) == chain' = [chain EXCEPT ![c] = place]

\* An extrinsic may enter the pool: ready, or waiting for an earlier nonce.
Enters(c) == nonce[c] >= AccountNonce /\ nonce[c] \notin PoolNonces
Place(c) == IF NextIndex(nonce[c]) THEN "ready" ELSE "future"

NodeAccept(c) ==
    /\ wire[c] = "request"
    /\ Enters(c)
    /\ Move(c, Place(c))
    /\ mail' = [mail EXCEPT ![c] = <<Status(Place(c))>>]
    /\ wire' = [wire EXCEPT ![c] = "accepted"]
    /\ subscribed' = [subscribed EXCEPT ![c] = TRUE]
    /\ UNCHANGED <<envVars, nonce, callVars>>

\* TxOutdated and TxPriority: the nonce is used, or taken in the pool.
NodeRefuse(c) ==
    /\ wire[c] = "request" /\ ~Enters(c)
    /\ wire' = [wire EXCEPT ![c] = "refused"]
    /\ UNCHANGED <<envVars, chain, nonce, subscribed, mail, callVars>>

NodePromote(c) ==
    /\ chain[c] = "future" /\ NextIndex(nonce[c])
    /\ Move(c, "ready")
    /\ Emit(c, Status("ready"))
    /\ UNCHANGED <<envVars, nonce, wire, subscribed, callVars>>

Include(c) ==
    /\ chain[c] = "ready" /\ nonce[c] = AccountNonce
    /\ \E ok \in BOOLEAN :
          /\ Move(c, IF ok THEN "inBlockOk" ELSE "inBlockBad")
          /\ Emit(c, Executed("inBlock", ok))
    /\ UNCHANGED <<envVars, nonce, wire, subscribed, callVars>>

Retract(c) ==
    /\ chain[c] \in InBlock /\ nonce[c] = AccountNonce - 1
    /\ retracts < MaxRetracts
    /\ retracts' = retracts + 1
    /\ Move(c, "ready")
    /\ Emit(c, Status("retracted"))
    /\ UNCHANGED <<online, apiSet, hasSubscriptions, drops, nonce, wire, subscribed, callVars>>

Finalize(c) ==
    /\ chain[c] \in InBlock
    /\ \A d \in Call : chain[d] \in InBlock => nonce[d] >= nonce[c]
    /\ Move(c, IF chain[c] = "inBlockOk" THEN "finalOk" ELSE "finalBad")
    /\ Emit(c, Executed("finalized", chain[c] = "inBlockOk"))
    /\ UNCHANGED <<envVars, nonce, wire, subscribed, callVars>>

\* Dropped or invalid while in the pool, which ends the stream.
Evict(c) ==
    /\ chain[c] \in {"future", "ready"}
    /\ Move(c, "evicted")
    /\ Emit(c, Status("error"))
    /\ subscribed' = [subscribed EXCEPT ![c] = FALSE]
    /\ UNCHANGED <<envVars, nonce, wire, callVars>>

\* Other nodes may still hold a dropped extrinsic and send it back.
Readmit(c) ==
    /\ chain[c] = "evicted" /\ Enters(c)
    /\ Move(c, Place(c))
    /\ UNCHANGED <<envVars, nonce, wire, subscribed, mail, callVars>>

\* The node gives up watching a block that is not final yet.
FinalityTimeout(c) ==
    /\ chain[c] \in InBlock /\ subscribed[c]
    /\ Emit(c, Status("error"))
    /\ subscribed' = [subscribed EXCEPT ![c] = FALSE]
    /\ UNCHANGED <<envVars, chain, nonce, wire, callVars>>

-----------------------------------------------------------------------------
SdkStep(c) ==
    \/ Sign(c) \/ SignThrows(c) \/ SubmitThrows(c) \/ Submit(c)
    \/ SendResolves(c) \/ SendThrows(c)
    \/ Deliver(c) \/ TimerFires(c) \/ Finish(c)

NodeStep(c) ==
    \/ NodeAccept(c) \/ NodeRefuse(c) \/ NodePromote(c)
    \/ Include(c) \/ Retract(c) \/ Finalize(c)
    \/ Evict(c) \/ Readmit(c) \/ FinalityTimeout(c)

Next ==
    \/ \E c \in Call : SdkStep(c) \/ NodeStep(c)
    \/ CordDisconnect \/ Disconnect \/ Reconnect

Spec == Init /\ [][Next]_vars

\* What the runtime guarantees: received updates are delivered, timers fire,
\* settled promises continue.  The node and the socket owe nothing.
Fairness ==
    \A c \in Call : /\ WF_vars(Deliver(c)) /\ WF_vars(TimerFires(c))
                    /\ WF_vars(Finish(c)) /\ WF_vars(SendThrows(c))

FairSpec == Spec /\ Fairness

-----------------------------------------------------------------------------
(* Properties.                                                             *)

\* A call that returns under IS_FINALIZED returns only for an extrinsic that
\* is final and executed successfully, whatever was retracted, dropped or
\* timed out before (default of submitSignedTx).
ResolvedIsFinal ==
    \A c \in Call : ResolveOn = "IS_FINALIZED" /\ pc[c] = "returned" => chain[c] = "finalOk"

\* "Rejection takes precedent": under every criterion a call never returns a
\* result that says the extrinsic failed, was dropped or lost its connection.
RejectionTakesPrecedent ==
    \A c \in Call : pc[c] = "returned" => ~rejectOn(promise[c].value)

\* While a call waits for a promise that is still pending it hears the next
\* disconnect: the once-listener is never used up without settling it.
WaitHearsDisconnect ==
    \A c \in Call :
        pc[c] = "watching" /\ promise[c].state = "pending" => listening[c]

\* However a call ends, returned, rejected, refused or disconnected at any step,
\* no listener stays on the api and no status stream stays open (finally block,
\* which a throw of tx.send never reaches).
NothingLeaks ==
    \A c \in Call : Done(c) => ~listening[c] /\ ~subscribed[c] /\ mail[c] = <<>>

\* A call reports a dispatch error only of an extrinsic that did fail: unless a
\* block was retracted it does not succeed later, so that a retry is safe.
Reported(c) == promise[c].state = "rejected" /\ extrinsicFailed(promise[c].value)
FailureIsReal ==
    \A c \in Call : retracts = 0 /\ Reported(c) => chain[c] \notin {"inBlockOk", "finalOk"}

\* With a timeout, a call that got its answer from tx.send ends, even if the
\* node, the socket and every other call stay silent (setTimeout).
TimeoutBoundsWait ==
    \A c \in Call : timer[c] # "off" /\ pc[c] = "watching" ~> Done(c)

\* Without a timeout, a call whose status stream lives until its extrinsic is
\* final ends, even if the connection drops before the update arrives.
FinalityEndsWait ==
    \A c \in Call : pc[c] = "watching" /\ subscribed[c] /\ chain[c] \in Final ~> Done(c)

\* Under IS_FINALIZED the calls implement the abstract promise: ledger is what
\* finality decided, outcome what the caller has been told.
ledgerOf == [c \in Call |-> CASE chain[c] = "finalOk" -> "ok"
                              [] chain[c] = "finalBad" -> "bad"
                              [] OTHER -> "open"]
outcomeOf == [c \in Call |-> CASE pc[c] = "returned" -> "resolved"
                               [] pc[c] = "threw" -> "rejected"
                               [] OTHER -> "pending"]

Abstract == INSTANCE TxPromise WITH ledger <- ledgerOf, outcome <- outcomeOf

ImplementsTxPromise == Abstract!Spec
==============================================================================
