--------------------------- MODULE SubmitTx_proofs ---------------------------
(***************************************************************************)
(* Proofs about SubmitTx, for every finite set of calls, every resolution  *)
(* criterion, with and without a timeout, and for every bound.             *)
(***************************************************************************)
EXTENDS SubmitTx, TLAPS

-----------------------------------------------------------------------------
(* Type correctness.                                                       *)

\* What the node sends and handleDisconnect makes up are results.
LEMMA ResultTypes ==
    /\ \A s \in {"future", "ready", "retracted", "error"} : Status(s) \in Result
    /\ \A s \in {"inBlock", "finalized"} : \A ok \in BOOLEAN : Executed(s, ok) \in Result
    /\ \A last \in Result \cup {NoResult} : ConnectionError(last) \in Result
  BY DEF Status, Executed, ConnectionError, NoResult, Result

Promise == [state : {"none", "pending", "resolved", "rejected"},
            value : Result \cup {NoResult, TimeoutError}]

LEMMA SubscriptionType ==
    ASSUME NEW p \in Promise, NEW r \in Result
    PROVE  Subscription(p, r) \in Promise
  BY DEF Subscription, Promise

\* The queue of updates keeps its type whatever is emitted.
LEMMA EmitType ==
    ASSUME NEW c \in Call, NEW r \in Result, TypeOK, Emit(c, r)
    PROVE  mail' \in [Call -> Seq(Result)]
  BY DEF TypeOK, Emit

LEMMA InitTypeOK == Init => TypeOK
  BY DEF Init, TypeOK, NoResult, Status

LEMMA NextTypeOK == TypeOK /\ [Next]_vars => TypeOK'
<1> SUFFICES ASSUME TypeOK, [Next]_vars PROVE TypeOK'
    OBVIOUS
<1> USE DEF TypeOK, envVars, nodeVars, callVars
<1>1. ASSUME NEW c \in Call, SdkStep(c) PROVE TypeOK'
  <2>1. CASE Sign(c)
    <3>1. nonce' \in [Call -> Nat]
        BY <2>1 DEF Sign
    <3>2. QED
        BY <2>1, <3>1 DEF Sign
  <2>2. CASE SignThrows(c) \/ SubmitThrows(c) \/ SendResolves(c) \/ SendThrows(c)
      BY <2>2 DEF SignThrows, SubmitThrows, SendResolves, SendThrows
  <2>3. CASE Submit(c)
      BY <2>3 DEF Submit
  <2>4. CASE Deliver(c)
    <3>1. Head(mail[c]) \in Result /\ Tail(mail[c]) \in Seq(Result)
        BY <2>4 DEF Deliver
    <3>2. Subscription(promise[c], Head(mail[c])) \in Promise
        BY <3>1, SubscriptionType DEF Promise
    <3>3. promise' \in [Call -> Promise]
        BY <2>4, <3>2 DEF Deliver, Promise
    <3>4. latest' \in [Call -> Result \cup {NoResult}] /\ mail' \in [Call -> Seq(Result)]
        BY <2>4, <3>1 DEF Deliver
    <3>5. QED
        BY <2>4, <3>3, <3>4 DEF Deliver, Promise
  <2>5. CASE TimerFires(c)
      BY <2>5 DEF TimerFires
  <2>6. CASE Finish(c)
      BY <2>6 DEF Finish
  <2>7. QED
      BY <1>1, <2>1, <2>2, <2>3, <2>4, <2>5, <2>6 DEF SdkStep
<1>2. ASSUME NEW c \in Call, NodeStep(c) PROVE TypeOK'
  <2> USE ResultTypes DEF Move, InBlock, Final, Place
  <2>1. CASE NodeAccept(c)
    <3>1. mail' \in [Call -> Seq(Result)]
        BY <2>1 DEF NodeAccept
    <3>2. QED
        BY <2>1, <3>1 DEF NodeAccept
  <2>2. CASE NodeRefuse(c)
      BY <2>2 DEF NodeRefuse
  <2>3. CASE NodePromote(c)
      BY <2>3, EmitType DEF NodePromote
  <2>4. CASE Include(c)
      BY <2>4, EmitType DEF Include
  <2>5. CASE Retract(c)
    <3>1. retracts \in Nat /\ retracts' = retracts + 1
        BY <2>5 DEF Retract
    <3>2. retracts' \in Nat
        BY <3>1
    <3>3. mail' \in [Call -> Seq(Result)]
        BY <2>5, EmitType DEF Retract
    <3>4. QED
        BY <2>5, <3>2, <3>3 DEF Retract
  <2>6. CASE Finalize(c)
    <3>1. Executed("finalized", chain[c] = "inBlockOk") \in Result
        OBVIOUS
    <3>2. mail' \in [Call -> Seq(Result)]
        BY <2>6, <3>1, EmitType DEF Finalize
    <3>3. QED
        BY <2>6, <3>2 DEF Finalize
  <2>7. CASE Evict(c) \/ FinalityTimeout(c)
      BY <2>7, EmitType DEF Evict, FinalityTimeout
  <2>8. CASE Readmit(c)
      BY <2>8 DEF Readmit
  <2>9. QED
      BY <1>2, <2>1, <2>2, <2>3, <2>4, <2>5, <2>6, <2>7, <2>8 DEF NodeStep
<1>3. CASE CordDisconnect \/ Reconnect
    BY <1>3 DEF CordDisconnect, Reconnect
<1>4. CASE Disconnect
  <2>1. promise' \in [Call -> Promise]
      BY <1>4, ResultTypes, SubscriptionType DEF Disconnect, Promise
  <2>2. mail' \in [Call -> Seq(Result)]
      BY <1>4 DEF Disconnect
  <2>3. wire' \in [Call -> {"none", "request", "accepted", "refused", "lost"}]
      BY <1>4 DEF Disconnect
  <2>4. drops' \in Nat /\ online' \in BOOLEAN
    <3>1. drops \in Nat /\ drops' = drops + 1
        BY <1>4 DEF Disconnect
    <3>2. drops' \in Nat
        BY <3>1
    <3>3. online' \in BOOLEAN
        BY <1>4 DEF Disconnect
    <3>4. QED
        BY <3>2, <3>3
  <2>5. /\ subscribed' \in [Call -> BOOLEAN] /\ listening' \in [Call -> BOOLEAN]
        /\ UNCHANGED <<apiSet, hasSubscriptions, retracts, chain, nonce, pc, timer, latest>>
      BY <1>4 DEF Disconnect
  <2>6. QED
      BY <2>1, <2>2, <2>3, <2>4, <2>5 DEF Promise
<1>5. CASE UNCHANGED vars
    BY <1>5 DEF vars
<1>6. QED
    BY <1>1, <1>2, <1>3, <1>4, <1>5 DEF Next

\* Every variable keeps its type, through every interleaving.
THEOREM TypeCorrect == Spec => []TypeOK
<1>1. QED
    BY InitTypeOK, NextTypeOK, PTL DEF Spec

-----------------------------------------------------------------------------
(* No wait is deaf to a disconnect and nothing leaks.                      *)

\* How the steps of one call, its request and its stream belong together.
Flow(c) ==
    /\ pc[c] \in {"idle", "signed"} => wire[c] = "none"
    /\ wire[c] = "request" => pc[c] = "sending"
    /\ wire[c] \in {"none", "request"} => chain[c] = "absent"
    /\ subscribed[c] \/ mail[c] # <<>> => wire[c] = "accepted" /\ pc[c] \in {"sending", "watching"}
    /\ listening[c] => pc[c] = "watching"
    /\ pc[c] = "watching" /\ promise[c].state = "pending" => listening[c]

FlowInv == TypeOK /\ \A c \in Call : Flow(c)

\* A pushed connection error settles a pending promise: IS_ERROR holds of it.
LEMMA ConnectionErrorSettles ==
    ASSUME NEW p \in Promise, NEW last \in Result \cup {NoResult}
    PROVE  Subscription(p, ConnectionError(last)).state # "pending"
  BY DEF Subscription, ConnectionError, rejectOn, IS_ERROR

\* Pushing a result never makes a promise pending again.
LEMMA SubscriptionSettles ==
    ASSUME NEW p \in Promise, NEW r, Subscription(p, r).state = "pending"
    PROVE  p.state = "pending"
  BY DEF Subscription

LEMMA InitFlowInv == Init => FlowInv
  BY InitTypeOK DEF Init, FlowInv, Flow

LEMMA NextFlowInv == FlowInv /\ [Next]_vars => FlowInv'
<1> SUFFICES ASSUME FlowInv, [Next]_vars PROVE FlowInv'
    OBVIOUS
<1>1. TypeOK /\ TypeOK' /\ \A c \in Call : Flow(c)
    BY NextTypeOK DEF FlowInv
<1>2. SUFFICES ASSUME NEW d \in Call PROVE Flow(d)'
    BY <1>1 DEF FlowInv
<1> USE <1>1 DEF envVars, nodeVars, callVars, Flow, TypeOK
<1>3. ASSUME NEW c \in Call, SdkStep(c) PROVE Flow(d)'
  <2>1. CASE Sign(c) \/ SignThrows(c) \/ SubmitThrows(c)
      BY <2>1 DEF Sign, SignThrows, SubmitThrows
  <2>2. CASE Submit(c)
      BY <2>2 DEF Submit
  <2>3. CASE SendResolves(c)
      BY <2>3 DEF SendResolves
  <2>4. CASE SendThrows(c)
      BY <2>4 DEF SendThrows
  <2>5. CASE Deliver(c)
    <3>1. promise'[d].state = "pending" => promise[d].state = "pending"
        BY <2>5, SubscriptionSettles DEF Deliver, Promise
    <3>2. mail'[d] # <<>> => mail[d] # <<>>
        BY <2>5 DEF Deliver
    <3>3. UNCHANGED <<chain, wire, subscribed, pc, listening>>
        BY <2>5 DEF Deliver
    <3>4. QED
        BY <3>1, <3>2, <3>3
  <2>6. CASE TimerFires(c)
    <3>1. promise'[d].state = "pending" => promise[d].state = "pending"
        BY <2>6 DEF TimerFires
    <3>2. UNCHANGED <<chain, wire, subscribed, mail, pc, listening>>
        BY <2>6 DEF TimerFires
    <3>3. QED
        BY <3>1, <3>2
  <2>7. CASE Finish(c)
      BY <2>7 DEF Finish
  <2>8. QED
      BY <1>3, <2>1, <2>2, <2>3, <2>4, <2>5, <2>6, <2>7 DEF SdkStep
<1>4. ASSUME NEW c \in Call, NodeStep(c) PROVE Flow(d)'
  <2>1. CASE NodeAccept(c)
      BY <2>1 DEF NodeAccept, Move
  <2>2. CASE NodeRefuse(c)
      BY <2>2 DEF NodeRefuse
  <2>3. ASSUME UNCHANGED <<wire, pc, promise, listening>>,
               subscribed'[d] => subscribed[d],
               mail'[d] = mail[d] \/ subscribed[d],
               chain'[d] = chain[d] \/ chain[d] # "absent"
        PROVE  Flow(d)'
      BY <2>3
  <2>4. ASSUME NEW r, Emit(c, r) PROVE mail'[d] = mail[d] \/ subscribed[d]
      BY <2>4 DEF Emit
  <2>5. ASSUME NEW place, Move(c, place), chain[c] # "absent"
        PROVE  chain'[d] = chain[d] \/ chain[d] # "absent"
      BY <2>5 DEF Move
  <2>6. CASE NodePromote(c) \/ Include(c) \/ Retract(c) \/ Finalize(c)
    <3>1. chain[c] # "absent" /\ UNCHANGED <<wire, subscribed, pc, promise, listening>>
        BY <2>6 DEF NodePromote, Include, Retract, Finalize, InBlock
    <3>2. \E r, place : Emit(c, r) /\ Move(c, place)
        BY <2>6 DEF NodePromote, Include, Retract, Finalize
    <3>3. QED
        BY <2>3, <2>4, <2>5, <3>1, <3>2
  <2>7. CASE FinalityTimeout(c)
    <3>1. /\ UNCHANGED <<chain, wire, pc, promise, listening>>
          /\ subscribed' = [subscribed EXCEPT ![c] = FALSE]
          /\ Emit(c, Status("error"))
        BY <2>7 DEF FinalityTimeout
    <3>2. QED
        BY <2>3, <2>4, <3>1
  <2>8. CASE Evict(c)
    <3>1. /\ chain[c] # "absent" /\ UNCHANGED <<wire, pc, promise, listening>>
          /\ subscribed' = [subscribed EXCEPT ![c] = FALSE]
          /\ Emit(c, Status("error")) /\ Move(c, "evicted")
        BY <2>8 DEF Evict
    <3>2. QED
        BY <2>3, <2>4, <2>5, <3>1
  <2>9. CASE Readmit(c)
    <3>1. /\ chain[c] # "absent" /\ UNCHANGED <<wire, subscribed, mail, pc, promise, listening>>
          /\ Move(c, Place(c))
        BY <2>9 DEF Readmit
    <3>2. QED
        BY <2>3, <2>5, <3>1
  <2>10. QED
      BY <1>4, <2>1, <2>2, <2>6, <2>7, <2>8, <2>9 DEF NodeStep
<1>5. CASE CordDisconnect \/ Reconnect
    BY <1>5 DEF CordDisconnect, Reconnect
<1>6. CASE Disconnect
  <2>1. /\ UNCHANGED <<chain, pc>>
        /\ subscribed'[d] = FALSE /\ mail'[d] = <<>> /\ listening'[d] = FALSE
      BY <1>6 DEF Disconnect
  <2>2. \/ wire'[d] = wire[d]
        \/ wire'[d] = "lost" /\ wire[d] \in {"request", "accepted"} /\ pc[d] = "sending"
    <3>1. PICK lost \in SUBSET {c \in Call : pc[c] = "sending" /\ wire[c] = "accepted"} :
             wire' = [c \in Call |-> IF wire[c] = "request" \/ c \in lost THEN "lost" ELSE wire[c]]
        BY <1>6 DEF Disconnect
    <3>2. wire'[d] = IF wire[d] = "request" \/ d \in lost THEN "lost" ELSE wire[d]
        BY <3>1
    <3>3. QED
        BY <3>1, <3>2
  <2>3. pc[d] = "watching" => promise'[d].state # "pending"
    <3>1. promise'[d] = IF listening[d] THEN Subscription(promise[d], ConnectionError(latest[d]))
                                        ELSE promise[d]
        BY <1>6 DEF Disconnect
    <3>2. QED
        BY <3>1, ConnectionErrorSettles DEF Promise
  <2>4. QED
      BY <2>1, <2>2, <2>3
<1>7. CASE UNCHANGED vars
    BY <1>7 DEF vars
<1>8. QED
    BY <1>3, <1>4, <1>5, <1>6, <1>7 DEF Next

\* Whatever drops, times out or arrives first, a call that waits on a pending
\* promise is registered for the next disconnect.
THEOREM WaitHearsDisconnectHolds == Spec => []WaitHearsDisconnect
<1>1. FlowInv => WaitHearsDisconnect
    BY DEF FlowInv, Flow, WaitHearsDisconnect
<1>2. QED
    BY <1>1, InitFlowInv, NextFlowInv, PTL DEF Spec

\* A call that has ended, by any path, left no listener, stream or update behind.
THEOREM NothingLeaksHolds == Spec => []NothingLeaks
<1>1. FlowInv => NothingLeaks
    BY DEF FlowInv, Flow, NothingLeaks, Done, TypeOK
<1>2. QED
    BY <1>1, InitFlowInv, NextFlowInv, PTL DEF Spec

-----------------------------------------------------------------------------
(* A call that returns under IS_FINALIZED returns for a final, successful  *)
(* extrinsic.                                                              *)

\* r does not claim more than the chain has decided: a finalized result
\* without a failure is about an extrinsic that is final and succeeded.
Honest(c, r) ==
    r.status = "finalized" /\ ~rejectOn(r) => chain[c] = "finalOk"

\* ResolvedIsFinal is not inductive: the updates still on their way and the
\* value of a promise not yet awaited must be honest too.
FinalInv ==
    /\ TypeOK
    /\ \A c \in Call : \A i \in DOMAIN mail[c] : Honest(c, mail[c][i])
    /\ \A c \in Call : promise[c].state = "resolved" =>
          /\ resolveOn(promise[c].value) /\ ~rejectOn(promise[c].value)
          /\ Honest(c, promise[c].value)
    /\ \A c \in Call : pc[c] = "returned" => promise[c].state = "resolved"

\* The updates of c stay honest when an honest one is emitted.
LEMMA EmitHonest ==
    ASSUME NEW c \in Call, NEW r \in Result, TypeOK, Emit(c, r),
           \A d \in Call : chain[d] = "finalOk" => chain'[d] = "finalOk",
           \A d \in Call : \A i \in DOMAIN mail[d] : Honest(d, mail[d][i]),
           r.status = "finalized" /\ ~rejectOn(r) => chain'[c] = "finalOk"
    PROVE  \A d \in Call : \A i \in DOMAIN mail'[d] :
              mail'[d][i].status = "finalized" /\ ~rejectOn(mail'[d][i]) => chain'[d] = "finalOk"
<1> SUFFICES ASSUME NEW d \in Call, NEW i \in DOMAIN mail'[d],
                    mail'[d][i].status = "finalized", ~rejectOn(mail'[d][i])
             PROVE  chain'[d] = "finalOk"
    OBVIOUS
<1>1. mail[d] \in Seq(Result)
    BY DEF TypeOK
<1>2. CASE mail'[d] = mail[d]
    BY <1>2 DEF Honest
<1>3. CASE d = c /\ mail'[d] = Append(mail[d], r)
  <2>1. CASE i \in DOMAIN mail[d]
    <3>1. mail'[d][i] = mail[d][i]
        BY <1>1, <1>3, <2>1
    <3>2. QED
        BY <2>1, <3>1 DEF Honest
  <2>2. CASE i \notin DOMAIN mail[d]
    <3>1. mail'[d][i] = r
        BY <1>1, <1>3, <2>2
    <3>2. QED
        BY <1>3, <3>1
  <2>3. QED
      BY <2>1, <2>2
<1>4. QED
    BY <1>1, <1>2, <1>3 DEF Emit, TypeOK

\* The promise keeps its part of the invariant when a result is pushed.
LEMMA SubscriptionResolves ==
    ASSUME NEW p \in Promise, NEW r \in Result,
           Subscription(p, r).state = "resolved"
    PROVE  \/ Subscription(p, r) = p
           \/ Subscription(p, r).value = r /\ resolveOn(r) /\ ~rejectOn(r)
  BY DEF Subscription, Promise

LEMMA InitFinalInv == Init => FinalInv
<1> SUFFICES ASSUME Init PROVE FinalInv
    OBVIOUS
<1>1. \A c \in Call : mail[c] = <<>> /\ promise[c].state = "none" /\ pc[c] = "idle"
    BY DEF Init
<1>2. QED
    BY <1>1, InitTypeOK DEF FinalInv

LEMMA NextFinalInv == FinalInv /\ FlowInv /\ [Next]_vars => FinalInv'
<1> SUFFICES ASSUME FinalInv, FlowInv, [Next]_vars PROVE FinalInv'
    OBVIOUS
<1>1. TypeOK /\ TypeOK'
    BY NextTypeOK DEF FinalInv
<1> USE <1>1 DEF envVars, nodeVars, callVars
<1>2. ASSUME UNCHANGED <<chain, mail, promise, pc>> PROVE FinalInv'
    BY <1>2 DEF FinalInv, Honest
<1>3. ASSUME NEW c \in Call, SdkStep(c) PROVE FinalInv'
  <2>1. ASSUME UNCHANGED <<chain, mail, promise>>, pc' = [pc EXCEPT ![c] = pc'[c]],
               pc'[c] # "returned"
        PROVE  FinalInv'
      BY <2>1 DEF FinalInv, Honest, TypeOK
  <2>2. CASE Sign(c) \/ SignThrows(c) \/ SubmitThrows(c) \/ SendResolves(c) \/ SendThrows(c)
      BY <2>1, <2>2 DEF Sign, SignThrows, SubmitThrows, SendResolves, SendThrows, TypeOK
  <2>3. CASE Submit(c)
    <3>1. /\ UNCHANGED <<chain, mail>>
          /\ promise' = [promise EXCEPT ![c] = [state |-> "pending", value |-> NoResult]]
          /\ pc[c] = "signed" /\ pc' = [pc EXCEPT ![c] = "sending"]
        BY <2>3 DEF Submit
    <3>2. \A d \in Call : d # c => promise'[d] = promise[d] /\ pc'[d] = pc[d]
        BY <3>1 DEF TypeOK
    <3>3. promise'[c].state = "pending" /\ pc'[c] = "sending"
        BY <3>1 DEF TypeOK
    <3>4. QED
        BY <3>1, <3>2, <3>3 DEF FinalInv, Honest
  <2>4. CASE Deliver(c)
    <3> DEFINE r == Head(mail[c])
    <3>1. /\ pc' = pc /\ chain' = chain /\ mail[c] # <<>>
          /\ promise' = [promise EXCEPT ![c] = Subscription(promise[c], r)]
          /\ mail' = [mail EXCEPT ![c] = Tail(mail[c])]
        BY <2>4 DEF Deliver
    <3>2. mail[c] \in Seq(Result) /\ promise[c] \in Promise
        BY DEF TypeOK, Promise
    <3>3. r \in Result /\ r = mail[c][1] /\ 1 \in DOMAIN mail[c]
        BY <3>1, <3>2
    <3>4. Honest(c, r)
        BY <3>3 DEF FinalInv
    <3>5. \A d \in Call : \A i \in DOMAIN mail'[d] : Honest(d, mail'[d][i])
      <4>1. SUFFICES ASSUME NEW i \in DOMAIN Tail(mail[c]) PROVE Honest(c, Tail(mail[c])[i])
          BY <3>1 DEF FinalInv, TypeOK
      <4>2. Tail(mail[c])[i] = mail[c][i + 1] /\ i + 1 \in DOMAIN mail[c]
          BY <3>1, <3>2
      <4>3. QED
          BY <4>2 DEF FinalInv
    <3>6. ASSUME NEW d \in Call, promise'[d].state = "resolved"
          PROVE  /\ resolveOn(promise'[d].value) /\ ~rejectOn(promise'[d].value)
                 /\ Honest(d, promise'[d].value)
      <4>1. promise'[d] = IF d = c THEN Subscription(promise[c], r) ELSE promise[d]
          BY <3>1 DEF TypeOK
      <4>2. CASE promise'[d] = promise[d]
          BY <3>6, <4>2 DEF FinalInv
      <4>3. CASE d = c /\ promise'[d].value = r /\ resolveOn(r) /\ ~rejectOn(r)
          BY <3>4, <4>3
      <4>4. QED
          BY <3>2, <3>3, <3>6, <4>1, <4>2, <4>3, SubscriptionResolves
    <3>7. ASSUME NEW d \in Call, pc'[d] = "returned" PROVE promise'[d].state = "resolved"
      <4>1. promise[d].state = "resolved"
          BY <3>1, <3>7 DEF FinalInv
      <4>2. promise'[d] = promise[d]
          BY <3>1, <4>1 DEF Subscription, TypeOK
      <4>3. QED
          BY <4>1, <4>2
    <3>8. QED
        BY <3>1, <3>5, <3>6, <3>7 DEF FinalInv, Honest
  <2>5. CASE TimerFires(c)
    <3>1. \A d \in Call : \/ promise'[d] = promise[d]
                          \/ promise[d].state = "pending" /\ promise'[d].state = "rejected"
        BY <2>5 DEF TimerFires, TypeOK
    <3>2. UNCHANGED <<chain, mail, pc>>
        BY <2>5 DEF TimerFires
    <3>3. QED
        BY <3>1, <3>2 DEF FinalInv, Honest
  <2>6. CASE Finish(c)
    <3>1. UNCHANGED <<chain, promise>> /\ mail' = [mail EXCEPT ![c] = <<>>]
        BY <2>6 DEF Finish
    <3>2. \A d \in Call : pc'[d] = "returned" => promise[d].state = "resolved"
        BY <2>6 DEF Finish, FinalInv, TypeOK
    <3>3. \A d \in Call : mail'[d] = mail[d] \/ mail'[d] = <<>>
        BY <3>1 DEF TypeOK
    <3>4. QED
        BY <3>1, <3>2, <3>3 DEF FinalInv, Honest
  <2>7. QED
      BY <1>3, <2>2, <2>3, <2>4, <2>5, <2>6 DEF SdkStep
<1>4. ASSUME NEW c \in Call, NodeStep(c) PROVE FinalInv'
  <2>1. ASSUME UNCHANGED <<promise, pc>>,
               \A d \in Call : chain[d] = "finalOk" => chain'[d] = "finalOk",
               \A d \in Call : \A i \in DOMAIN mail'[d] :
                  mail'[d][i].status = "finalized" /\ ~rejectOn(mail'[d][i]) => chain'[d] = "finalOk"
        PROVE  FinalInv'
      BY <2>1 DEF FinalInv, Honest
  <2>2. ASSUME NEW r \in Result, Emit(c, r), UNCHANGED <<promise, pc>>,
               \A d \in Call : chain[d] = "finalOk" => chain'[d] = "finalOk",
               r.status = "finalized" /\ ~rejectOn(r) => chain'[c] = "finalOk"
        PROVE  FinalInv'
    <3>1. \A d \in Call : \A i \in DOMAIN mail[d] : Honest(d, mail[d][i])
        BY DEF FinalInv
    <3>2. QED
        BY <2>1, <2>2, <3>1, EmitHonest
  <2>3. CASE NodeAccept(c)
    <3>1. PICK place \in {"ready", "future"} :
             Move(c, place) /\ mail' = [mail EXCEPT ![c] = <<Status(place)>>]
        BY <2>3 DEF NodeAccept, Place
    <3>2. UNCHANGED <<promise, pc>> /\ chain[c] = "absent"
        BY <2>3 DEF NodeAccept, FlowInv, Flow
    <3>3. \A e \in Call : chain[e] = "finalOk" => chain'[e] = "finalOk"
        BY <3>1, <3>2 DEF Move, TypeOK
    <3>4. ASSUME NEW e \in Call, NEW i \in DOMAIN mail'[e],
                 mail'[e][i].status = "finalized", ~rejectOn(mail'[e][i])
          PROVE  chain'[e] = "finalOk"
      <4>1. CASE e = c
        <5>1. mail'[c] = <<Status(place)>> /\ i = 1
            BY <3>1, <3>4, <4>1 DEF TypeOK
        <5>2. QED
            BY <3>1, <3>4, <4>1, <5>1 DEF Status
      <4>2. CASE e # c
        <5>1. mail'[e] = mail[e]
            BY <3>1, <4>2 DEF TypeOK
        <5>2. QED
            BY <3>3, <3>4, <5>1 DEF FinalInv, Honest
      <4>3. QED
          BY <4>1, <4>2
    <3>5. QED
        BY <2>1, <3>2, <3>3, <3>4
  <2>4. CASE NodeRefuse(c)
      BY <1>2, <2>4 DEF NodeRefuse
  <2>5. CASE NodePromote(c) \/ Retract(c) \/ Evict(c) \/ FinalityTimeout(c)
    <3>1. \E status \in {"ready", "retracted", "error"} : Emit(c, Status(status))
        BY <2>5 DEF NodePromote, Retract, Evict, FinalityTimeout
    <3>2. UNCHANGED <<promise, pc>>
        BY <2>5 DEF NodePromote, Retract, Evict, FinalityTimeout
    <3>3. \A d \in Call : chain[d] = "finalOk" => chain'[d] = "finalOk"
        BY <2>5 DEF NodePromote, Retract, Evict, FinalityTimeout, Move, TypeOK, InBlock
    <3>4. \A status \in {"ready", "retracted", "error"} :
             Status(status) \in Result /\ Status(status).status # "finalized"
        BY ResultTypes DEF Status
    <3>5. QED
        BY <2>2, <3>1, <3>2, <3>3, <3>4
  <2>6. CASE Include(c)
    <3>1. PICK ok \in BOOLEAN : Emit(c, Executed("inBlock", ok))
        BY <2>6 DEF Include
    <3>2. Executed("inBlock", ok) \in Result /\ Executed("inBlock", ok).status # "finalized"
        BY ResultTypes DEF Executed
    <3>3. \A d \in Call : chain[d] = "finalOk" => chain'[d] = "finalOk"
        BY <2>6 DEF Include, Move, TypeOK
    <3>4. UNCHANGED <<promise, pc>>
        BY <2>6 DEF Include
    <3>5. QED
        BY <2>2, <3>1, <3>2, <3>3, <3>4
  <2>7. CASE Finalize(c)
    <3> DEFINE r == Executed("finalized", chain[c] = "inBlockOk")
    <3>1. r \in Result
        BY ResultTypes
    <3>2. Emit(c, r) /\ UNCHANGED <<promise, pc>>
        BY <2>7 DEF Finalize
    <3>3. chain' = [chain EXCEPT ![c] = IF chain[c] = "inBlockOk" THEN "finalOk" ELSE "finalBad"]
        BY <2>7 DEF Finalize, Move
    <3>4. \A d \in Call : chain[d] = "finalOk" => chain'[d] = "finalOk"
        BY <2>7, <3>3 DEF Finalize, InBlock, TypeOK
    <3>5. ~rejectOn(r) => chain'[c] = "finalOk"
        BY <3>3 DEF rejectOn, extrinsicFailed, Executed, TypeOK
    <3>6. QED
        BY <2>2, <3>1, <3>2, <3>4, <3>5
  <2>8. CASE Readmit(c)
    <3>1. \A d \in Call : chain[d] = "finalOk" => chain'[d] = "finalOk"
        BY <2>8 DEF Readmit, Move, TypeOK
    <3>2. UNCHANGED <<promise, pc, mail>>
        BY <2>8 DEF Readmit
    <3>3. QED
        BY <2>1, <3>1, <3>2 DEF FinalInv, Honest
  <2>9. QED
      BY <1>4, <2>3, <2>4, <2>5, <2>6, <2>7, <2>8 DEF NodeStep
<1>5. CASE CordDisconnect \/ Reconnect
    BY <1>2, <1>5 DEF CordDisconnect, Reconnect
<1>6. CASE Disconnect
  <2>1. UNCHANGED <<chain, pc>> /\ \A d \in Call : mail'[d] = <<>>
      BY <1>6 DEF Disconnect
  <2>2. ASSUME NEW d \in Call
        PROVE  \/ promise'[d] = promise[d]
               \/ promise'[d].state = "rejected" /\ promise[d].state = "pending"
    <3>1. promise'[d] = IF listening[d] THEN Subscription(promise[d], ConnectionError(latest[d]))
                                        ELSE promise[d]
        BY <1>6 DEF Disconnect
    <3>2. rejectOn(ConnectionError(latest[d]))
        BY DEF rejectOn, IS_ERROR, ConnectionError
    <3>3. CASE listening[d] /\ promise[d].state = "pending"
        BY <3>1, <3>2, <3>3 DEF Subscription
    <3>4. CASE ~(listening[d] /\ promise[d].state = "pending")
        BY <3>1, <3>4 DEF Subscription
    <3>5. QED
        BY <3>3, <3>4
  <2>3. QED
      BY <2>1, <2>2 DEF FinalInv, Honest
<1>7. CASE UNCHANGED vars
    BY <1>2, <1>7 DEF vars
<1>8. QED
    BY <1>3, <1>4, <1>5, <1>6, <1>7 DEF Next

LEMMA FinalInvariant == Spec => [](FinalInv /\ FlowInv)
<1>1. Init => FinalInv /\ FlowInv
    BY InitFinalInv, InitFlowInv
<1>2. FinalInv /\ FlowInv /\ [Next]_vars => (FinalInv /\ FlowInv)'
    BY NextFinalInv, NextFlowInv
<1>3. QED
    BY <1>1, <1>2, PTL DEF Spec

\* "Resolves upon finalization": with the default criterion a caller that gets a
\* result has a final, successful extrinsic, whatever happened on the way.
THEOREM ResolvedIsFinalHolds == Spec => []ResolvedIsFinal
<1>1. FinalInv => ResolvedIsFinal
    BY DEF FinalInv, Honest, ResolvedIsFinal, resolveOn
<1>2. QED
    BY <1>1, FinalInvariant, PTL

\* "Rejection takes precedent" under every resolution criterion.
THEOREM RejectionTakesPrecedentHolds == Spec => []RejectionTakesPrecedent
<1>1. FinalInv => RejectionTakesPrecedent
    BY DEF FinalInv, RejectionTakesPrecedent
<1>2. QED
    BY <1>1, FinalInvariant, PTL

-----------------------------------------------------------------------------
(* A reported dispatch error is real unless a block was retracted.         *)

Bad == {"inBlockBad", "finalBad"}

\* A result that says that c failed is told only while c sits failed in a block.
Truthful(c, r) == extrinsicFailed(r) => chain[c] \in Bad

TruthInv ==
    retracts = 0 =>
      \A c \in Call : /\ Truthful(c, latest[c])
                      /\ Truthful(c, promise[c].value)
                      /\ \A i \in DOMAIN mail[c] : Truthful(c, mail[c][i])

LEMMA InitTruthInv == Init => TruthInv
  BY DEF Init, TruthInv, Truthful, extrinsicFailed, NoResult, Status

\* What a push leaves in the promise is what was there or what was pushed.
LEMMA SubscriptionValue ==
    ASSUME NEW p, NEW r
    PROVE  Subscription(p, r) = p \/ Subscription(p, r).value = r
  BY DEF Subscription

LEMMA NextTruthInv == TruthInv /\ FlowInv /\ [Next]_vars => TruthInv'
<1> SUFFICES ASSUME TruthInv, FlowInv, [Next]_vars, retracts' = 0, NEW d \in Call
             PROVE  /\ Truthful(d, latest[d])'
                    /\ Truthful(d, promise[d].value)'
                    /\ \A i \in DOMAIN mail'[d] : Truthful(d, mail[d][i])'
    BY DEF TruthInv
<1> USE DEF envVars, nodeVars, callVars
<1>1. TypeOK /\ Flow(d)
    BY DEF FlowInv
<1>2. retracts = 0
    <2>1. retracts \in Nat /\ (retracts' = retracts \/ retracts' = retracts + 1)
        BY <1>1 DEF TypeOK, Next, SdkStep, NodeStep, CordDisconnect, Disconnect, Reconnect,
                    Sign, SignThrows, SubmitThrows, Submit, SendResolves, SendThrows, Deliver,
                    TimerFires, Finish, NodeAccept, NodeRefuse, NodePromote, Include, Retract,
                    Finalize, Evict, Readmit, FinalityTimeout, vars
    <2>2. QED
        BY <2>1
<1>3. /\ Truthful(d, latest[d]) /\ Truthful(d, promise[d].value)
      /\ \A i \in DOMAIN mail[d] : Truthful(d, mail[d][i])
    BY <1>2 DEF TruthInv
<1>4. ASSUME chain[d] \in Bad => chain'[d] \in Bad,
             \/ latest'[d] = latest[d]
             \/ ~extrinsicFailed(latest'[d]) \/ Truthful(d, latest'[d]),
             \/ promise'[d].value = promise[d].value
             \/ ~extrinsicFailed(promise'[d].value) \/ Truthful(d, promise'[d].value),
             \/ mail'[d] = mail[d]
             \/ \A i \in DOMAIN mail'[d] :
                   \/ ~extrinsicFailed(mail'[d][i]) \/ chain'[d] \in Bad
                   \/ Truthful(d, mail'[d][i])
      PROVE  /\ Truthful(d, latest[d])'
             /\ Truthful(d, promise[d].value)'
             /\ \A i \in DOMAIN mail'[d] : Truthful(d, mail[d][i])'
    BY <1>3, <1>4 DEF Truthful, extrinsicFailed
<1>5. ASSUME NEW c \in Call, SdkStep(c)
      PROVE  /\ Truthful(d, latest[d])'
             /\ Truthful(d, promise[d].value)'
             /\ \A i \in DOMAIN mail'[d] : Truthful(d, mail[d][i])'
  <2>1. chain' = chain
      BY <1>5 DEF SdkStep, Sign, SignThrows, SubmitThrows, Submit, SendResolves, SendThrows,
                  Deliver, TimerFires, Finish
  <2>2. CASE Sign(c) \/ SignThrows(c) \/ SubmitThrows(c) \/ SendResolves(c) \/ SendThrows(c)
      BY <1>4, <2>1, <2>2 DEF Sign, SignThrows, SubmitThrows, SendResolves, SendThrows
  <2>3. CASE Submit(c)
    <3>1. promise'[d] = promise[d] \/ promise'[d].value = NoResult
        BY <1>1, <2>3 DEF Submit, TypeOK
    <3>2. ~extrinsicFailed(NoResult)
        BY DEF extrinsicFailed, NoResult, Status
    <3>3. QED
        BY <1>4, <2>1, <2>3, <3>1, <3>2 DEF Submit
  <2>4. CASE Deliver(c)
    <3>1. CASE c # d
      <4>1. latest'[d] = latest[d] /\ promise'[d] = promise[d] /\ mail'[d] = mail[d]
          BY <1>1, <2>4, <3>1 DEF Deliver, TypeOK
      <4>2. QED
          BY <1>4, <2>1, <4>1
    <3>2. CASE c = d
      <4> DEFINE r == Head(mail[d])
      <4>1. mail[d] \in Seq(Result) /\ mail[d] # <<>>
          BY <1>1, <2>4, <3>2 DEF Deliver, TypeOK
      <4>2. r = mail[d][1] /\ 1 \in DOMAIN mail[d]
          BY <4>1
      <4>3. Truthful(d, r)
          BY <1>3, <4>2
      <4>4. latest'[d] = r /\ promise'[d] = Subscription(promise[d], r) /\ mail'[d] = Tail(mail[d])
          BY <1>1, <2>4, <3>2 DEF Deliver, TypeOK
      <4>5. ASSUME NEW i \in DOMAIN Tail(mail[d]) PROVE Truthful(d, Tail(mail[d])[i])
        <5>1. Tail(mail[d])[i] = mail[d][i + 1] /\ i + 1 \in DOMAIN mail[d]
            BY <4>1
        <5>2. QED
            BY <1>3, <5>1
      <4>6. promise'[d] = promise[d] \/ promise'[d].value = r
          BY <4>4, SubscriptionValue
      <4>7. QED
          BY <1>4, <2>1, <4>3, <4>4, <4>5, <4>6
    <3>3. QED
        BY <3>1, <3>2
  <2>5. CASE TimerFires(c)
    <3>1. promise'[d] = promise[d] \/ promise'[d].value = TimeoutError
        BY <1>1, <2>5 DEF TimerFires, TypeOK
    <3>2. ~extrinsicFailed(TimeoutError)
        BY DEF extrinsicFailed, TimeoutError, Status
    <3>3. QED
        BY <1>4, <2>1, <2>5, <3>1, <3>2 DEF TimerFires
  <2>6. CASE Finish(c)
    <3>1. mail'[d] = mail[d] \/ mail'[d] = <<>>
        BY <1>1, <2>6 DEF Finish, TypeOK
    <3>2. UNCHANGED <<latest, promise>>
        BY <2>6 DEF Finish
    <3>3. QED
        BY <1>4, <2>1, <3>1, <3>2
  <2>7. QED
      BY <1>5, <2>2, <2>3, <2>4, <2>5, <2>6 DEF SdkStep
<1>6. ASSUME NEW c \in Call, NodeStep(c)
      PROVE  /\ Truthful(d, latest[d])'
             /\ Truthful(d, promise[d].value)'
             /\ \A i \in DOMAIN mail'[d] : Truthful(d, mail[d][i])'
  <2>1. UNCHANGED <<latest, promise>>
      BY <1>6 DEF NodeStep, NodeAccept, NodeRefuse, NodePromote, Include, Retract, Finalize,
                  Evict, Readmit, FinalityTimeout
  <2>2. ASSUME NEW r \in Result, Emit(c, r), chain[d] \in Bad => chain'[d] \in Bad,
               c = d /\ extrinsicFailed(r) => chain'[d] \in Bad
        PROVE  /\ Truthful(d, latest[d])'
               /\ Truthful(d, promise[d].value)'
               /\ \A i \in DOMAIN mail'[d] : Truthful(d, mail[d][i])'
    <3>1. mail[d] \in Seq(Result)
        BY <1>1 DEF TypeOK
    <3>2. mail'[d] = mail[d] \/ (c = d /\ mail'[d] = Append(mail[d], r))
        BY <1>1, <2>2 DEF Emit, TypeOK
    <3>3. CASE mail'[d] = mail[d]
        BY <1>4, <2>1, <2>2, <3>3
    <3>4. CASE c = d /\ mail'[d] = Append(mail[d], r)
      <4>1. ASSUME NEW i \in DOMAIN mail'[d]
            PROVE  \/ ~extrinsicFailed(mail'[d][i]) \/ chain'[d] \in Bad
                   \/ Truthful(d, mail'[d][i])
        <5>1. mail'[d][i] = r \/ (i \in DOMAIN mail[d] /\ mail'[d][i] = mail[d][i])
            BY <3>1, <3>4, <4>1
        <5>2. QED
            BY <1>3, <2>2, <3>4, <5>1
      <4>2. QED
          BY <1>4, <2>1, <2>2, <4>1
    <3>5. QED
        BY <3>2, <3>3, <3>4
  <2>3. CASE NodeAccept(c)
    <3>1. PICK place \in {"ready", "future"} :
             Move(c, place) /\ mail' = [mail EXCEPT ![c] = <<Status(place)>>]
        BY <2>3 DEF NodeAccept, Place
    <3>2. c = d => chain[d] = "absent"
        BY <1>1, <2>3 DEF NodeAccept, Flow
    <3>3. chain[d] \in Bad => chain'[d] \in Bad
        BY <1>1, <3>1, <3>2 DEF Move, TypeOK, Bad
    <3>4. CASE c # d
      <4>1. mail'[d] = mail[d]
          BY <1>1, <3>1, <3>4 DEF TypeOK
      <4>2. QED
          BY <1>4, <2>1, <3>3, <4>1
    <3>5. CASE c = d
      <4>1. mail'[d] = <<Status(place)>>
          BY <1>1, <3>1, <3>5 DEF TypeOK
      <4>2. \A i \in DOMAIN mail'[d] : mail'[d][i] = Status(place)
          BY <4>1
      <4>3. ~extrinsicFailed(Status(place))
          BY DEF extrinsicFailed, Status
      <4>4. QED
          BY <1>4, <2>1, <3>3, <4>2, <4>3
    <3>6. QED
        BY <3>4, <3>5
  <2>4. CASE NodeRefuse(c) \/ Readmit(c)
    <3>1. mail' = mail /\ (chain[d] \in Bad => chain'[d] \in Bad)
        BY <1>1, <2>4 DEF NodeRefuse, Readmit, Move, TypeOK, Bad
    <3>2. QED
        BY <1>4, <2>1, <3>1
  <2>5. CASE NodePromote(c) \/ Evict(c) \/ FinalityTimeout(c)
    <3>1. \E status \in {"ready", "error"} : Emit(c, Status(status))
        BY <2>5 DEF NodePromote, Evict, FinalityTimeout
    <3>2. chain[d] \in Bad => chain'[d] \in Bad
        BY <1>1, <2>5 DEF NodePromote, Evict, FinalityTimeout, Move, TypeOK, Bad
    <3>3. \A status \in {"ready", "error"} :
             Status(status) \in Result /\ ~extrinsicFailed(Status(status))
        BY ResultTypes DEF Status, extrinsicFailed
    <3>4. QED
        BY <2>2, <3>1, <3>2, <3>3
  <2>6. CASE Include(c)
    <3>1. PICK ok \in BOOLEAN : /\ Move(c, IF ok THEN "inBlockOk" ELSE "inBlockBad")
                                /\ Emit(c, Executed("inBlock", ok))
        BY <2>6 DEF Include
    <3>2. chain[c] = "ready" /\ Executed("inBlock", ok) \in Result
        BY <2>6, ResultTypes DEF Include
    <3>3. chain[d] \in Bad => chain'[d] \in Bad
        BY <1>1, <3>1, <3>2 DEF Move, TypeOK, Bad
    <3>4. c = d /\ extrinsicFailed(Executed("inBlock", ok)) => chain'[d] \in Bad
        BY <1>1, <3>1 DEF Move, TypeOK, Bad, extrinsicFailed, Executed
    <3>5. QED
        BY <2>2, <3>1, <3>2, <3>3, <3>4
  <2>7. CASE Retract(c)
      BY <1>2, <2>7 DEF Retract
  <2>8. CASE Finalize(c)
    <3> DEFINE r == Executed("finalized", chain[c] = "inBlockOk")
    <3>1. r \in Result /\ Emit(c, r) /\ chain[c] \in {"inBlockOk", "inBlockBad"}
        BY <2>8, ResultTypes DEF Finalize, InBlock
    <3>2. chain' = [chain EXCEPT ![c] = IF chain[c] = "inBlockOk" THEN "finalOk" ELSE "finalBad"]
        BY <2>8 DEF Finalize, Move
    <3>3. chain[d] \in Bad => chain'[d] \in Bad
        BY <1>1, <3>1, <3>2 DEF TypeOK, Bad
    <3>4. c = d /\ extrinsicFailed(r) => chain'[d] \in Bad
        BY <1>1, <3>1, <3>2 DEF TypeOK, Bad, extrinsicFailed, Executed
    <3>5. QED
        BY <2>2, <3>1, <3>3, <3>4
  <2>9. QED
      BY <1>6, <2>3, <2>4, <2>5, <2>6, <2>7, <2>8 DEF NodeStep
<1>7. CASE CordDisconnect \/ Reconnect \/ UNCHANGED vars
    BY <1>4, <1>7 DEF CordDisconnect, Reconnect, vars
<1>8. CASE Disconnect
  <2>1. UNCHANGED <<chain, latest>> /\ mail'[d] = <<>>
      BY <1>8 DEF Disconnect
  <2>2. \/ promise'[d] = promise[d]
        \/ promise'[d].value = ConnectionError(latest[d])
      BY <1>8, SubscriptionValue DEF Disconnect
  <2>3. extrinsicFailed(ConnectionError(latest[d])) => extrinsicFailed(latest[d])
      BY DEF extrinsicFailed, ConnectionError
  <2>4. Truthful(d, ConnectionError(latest[d]))
      BY <1>3, <2>3 DEF Truthful
  <2>5. QED
      BY <1>4, <2>1, <2>2, <2>4
<1>9. QED
    BY <1>5, <1>6, <1>7, <1>8 DEF Next

\* A reported dispatch error is real: unless a block was retracted, the
\* extrinsic of a call that was told so does not succeed.
THEOREM FailureIsRealHolds == Spec => []FailureIsReal
<1>1. Init => TruthInv /\ FlowInv
    BY InitTruthInv, InitFlowInv
<1>2. TruthInv /\ FlowInv /\ [Next]_vars => (TruthInv /\ FlowInv)'
    BY NextTruthInv, NextFlowInv
<1>3. TruthInv => FailureIsReal
    BY DEF TruthInv, Truthful, Bad, FailureIsReal, Reported
<1>4. QED
    BY <1>1, <1>2, <1>3, PTL DEF Spec

-----------------------------------------------------------------------------
(* The calls implement the abstract promise.                               *)

LEMMA InitRefines == Init => Abstract!Init
  BY DEF Init, Abstract!Init, ledgerOf, outcomeOf

\* A step that changes neither pc's outcome nor finality is a stutter.
LEMMA Stutters ==
    ASSUME \A d \in Call : chain'[d] = chain[d] \/ {chain[d], chain'[d]} \cap Final = {},
           \A d \in Call : pc'[d] = pc[d] \/ {pc[d], pc'[d]} \cap {"returned", "threw"} = {}
    PROVE  UNCHANGED Abstract!vars
<1>1. ASSUME NEW d \in Call PROVE ledgerOf'[d] = ledgerOf[d] /\ outcomeOf'[d] = outcomeOf[d]
    BY <1>1 DEF ledgerOf, outcomeOf, Final
<1>2. ledgerOf' = ledgerOf /\ outcomeOf' = outcomeOf
    BY <1>1 DEF ledgerOf, outcomeOf
<1>3. QED
    BY <1>2 DEF Abstract!vars

LEMMA NextRefines ==
    ASSUME ResolveOn = "IS_FINALIZED"
    PROVE  FinalInv /\ FlowInv /\ [Next]_vars => [Abstract!Next]_(Abstract!vars)
<1> SUFFICES ASSUME FinalInv, FlowInv, [Next]_vars PROVE [Abstract!Next]_(Abstract!vars)
    OBVIOUS
<1> USE DEF envVars, nodeVars, callVars
<1>1. TypeOK /\ TypeOK'
    BY NextTypeOK DEF FinalInv
<1>2. ASSUME NEW c \in Call, pc' = [pc EXCEPT ![c] = "threw"], chain' = chain,
             pc[c] \notin {"returned", "threw"}
      PROVE  Abstract!Reject(c)
  <2>1. outcomeOf[c] = "pending"
      BY <1>2 DEF outcomeOf
  <2>2. outcomeOf' = [outcomeOf EXCEPT ![c] = "rejected"]
      BY <1>1, <1>2 DEF outcomeOf, TypeOK
  <2>3. QED
      BY <1>2, <2>1, <2>2 DEF Abstract!Reject, ledgerOf
<1>3. ASSUME NEW c \in Call, SdkStep(c) PROVE [Abstract!Next]_(Abstract!vars)
  <2>1. CASE Sign(c) \/ Submit(c) \/ SendResolves(c) \/ Deliver(c) \/ TimerFires(c)
      BY <1>1, <2>1, Stutters DEF Sign, Submit, SendResolves, Deliver, TimerFires, TypeOK
  <2>2. CASE SignThrows(c) \/ SubmitThrows(c) \/ SendThrows(c)
      BY <1>2, <2>2 DEF SignThrows, SubmitThrows, SendThrows, Abstract!Next
  <2>3. CASE Finish(c) /\ promise[c].state = "resolved"
    <3>1. pc' = [pc EXCEPT ![c] = "returned"] /\ chain' = chain /\ pc[c] = "watching"
        BY <2>3 DEF Finish
    <3>2. chain[c] = "finalOk"
        BY <2>3 DEF FinalInv, Honest, resolveOn
    <3>3. ledgerOf[c] = "ok" /\ outcomeOf[c] = "pending"
        BY <3>1, <3>2 DEF ledgerOf, outcomeOf
    <3>4. outcomeOf' = [outcomeOf EXCEPT ![c] = "resolved"]
        BY <1>1, <3>1 DEF outcomeOf, TypeOK
    <3>5. Abstract!Resolve(c)
        BY <3>1, <3>3, <3>4 DEF Abstract!Resolve, ledgerOf
    <3>6. QED
        BY <3>5 DEF Abstract!Next
  <2>4. CASE Finish(c) /\ promise[c].state # "resolved"
      BY <1>2, <2>4 DEF Finish, Abstract!Next
  <2>5. QED
      BY <1>3, <2>1, <2>2, <2>3, <2>4 DEF SdkStep
<1>4. ASSUME NEW c \in Call, NodeStep(c) PROVE [Abstract!Next]_(Abstract!vars)
  <2>1. ASSUME NEW place \in {"ready", "future", "evicted", "inBlockOk", "inBlockBad"},
               Move(c, place), chain[c] \notin Final, pc' = pc
        PROVE  UNCHANGED Abstract!vars
    <3>1. \A d \in Call : chain'[d] = chain[d] \/ {chain[d], chain'[d]} \cap Final = {}
        BY <1>1, <2>1 DEF Move, TypeOK, Final
    <3>2. QED
        BY <2>1, <3>1, Stutters
  <2>2. CASE NodeAccept(c) \/ Readmit(c)
    <3>1. chain[c] \notin Final
        BY <2>2 DEF NodeAccept, Readmit, FlowInv, Flow, Final
    <3>2. QED
        BY <2>1, <2>2, <3>1 DEF NodeAccept, Readmit, Place
  <2>3. CASE NodeRefuse(c) \/ FinalityTimeout(c)
      BY <2>3, Stutters DEF NodeRefuse, FinalityTimeout
  <2>4. CASE NodePromote(c) \/ Include(c) \/ Retract(c) \/ Evict(c)
      BY <2>1, <2>4 DEF NodePromote, Include, Retract, Evict, InBlock, Final
  <2>5. CASE Finalize(c)
    <3> DEFINE place == IF chain[c] = "inBlockOk" THEN "finalOk" ELSE "finalBad"
               fate == IF chain[c] = "inBlockOk" THEN "ok" ELSE "bad"
    <3>1. /\ chain[c] \in InBlock /\ pc' = pc
          /\ chain' = [chain EXCEPT ![c] = place]
        BY <2>5 DEF Finalize, Move
    <3>2. ledgerOf[c] = "open" /\ outcomeOf' = outcomeOf
        BY <3>1 DEF ledgerOf, outcomeOf, InBlock
    <3>3. ledgerOf' = [ledgerOf EXCEPT ![c] = fate]
        BY <1>1, <3>1 DEF ledgerOf, InBlock, TypeOK
    <3>4. Abstract!Finalize(c)
        BY <3>2, <3>3 DEF Abstract!Finalize
    <3>5. QED
        BY <3>4 DEF Abstract!Next
  <2>6. QED
      BY <1>4, <2>2, <2>3, <2>4, <2>5 DEF NodeStep
<1>5. CASE CordDisconnect \/ Reconnect \/ Disconnect
    BY <1>5, Stutters DEF CordDisconnect, Reconnect, Disconnect
<1>6. CASE UNCHANGED vars
    BY <1>6, Stutters DEF vars
<1>7. QED
    BY <1>3, <1>4, <1>5, <1>6 DEF Next

\* Under the default criterion submitSignedTx implements TxPromise: the promise
\* settles at most once and resolves only for a final, successful extrinsic.
THEOREM Refinement ==
    ASSUME ResolveOn = "IS_FINALIZED"
    PROVE  Spec => ImplementsTxPromise
<1>1. FinalInv /\ FlowInv /\ [Next]_vars => [Abstract!Next]_(Abstract!vars)
    BY NextRefines
<1>2. QED
    BY <1>1, InitRefines, FinalInvariant, PTL DEF Spec, ImplementsTxPromise, Abstract!Spec
==============================================================================
