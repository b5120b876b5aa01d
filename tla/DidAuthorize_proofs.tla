------------------------- MODULE DidAuthorize_proofs -------------------------
(***************************************************************************)
(* Proofs about DidAuthorize, for every set of tasks, every u64 maximum,   *)
(* number of groups, batch functions, validity period and bound.           *)
(***************************************************************************)
EXTENDS DidAuthorize, FiniteSetTheorems, TLAPS

-----------------------------------------------------------------------------
(* Type correctness.                                                       *)

\* The next nonce is a u64 again: the counter never leaves its range.
LEMMA NextNonceInRange ==
    ASSUME NEW n \in Nonce
    PROVE  increaseNonce(n, 1) \in Nonce
  BY NonceAssumption DEF increaseNonce, Nonce

LEMMA GroupsAreCounted ==
    ASSUME TypeOK, NEW t \in Task
    PROVE  request[t].groups \in Nat
<1>1. request[t] \in Request
    BY DEF TypeOK
<1>2. request[t].groups \in 0 .. MaxGroups
    BY <1>1 DEF Request
<1>3. QED
    BY <1>2, BoundsAssumption

LEMMA InitTypeOK == Init => TypeOK
<1> SUFFICES ASSUME Init PROVE TypeOK
    OBVIOUS
<1>1. counter \in Nonce
    BY NonceAssumption DEF Init, Nonce
<1>2. request \in [Task -> Request]
    BY NonceAssumption DEF Init, Request, Nonce
<1>3. op \in [Task -> [Group -> Operation]]
    BY BoundsAssumption DEF Init, Unsigned, Operation
<1>4. overtaken \in SUBSET Task /\ executed \in [Task -> SUBSET Group]
    BY DEF Init
<1>5. saved \in Snapshot
    BY <1>1, <1>4 DEF Init, Snapshot
<1>6. QED
    BY <1>1, <1>2, <1>3, <1>4, <1>5, BoundsAssumption DEF Init, TypeOK

LEMMA NextTypeOK == TypeOK /\ [Next]_vars => TypeOK'
<1> SUFFICES ASSUME TypeOK, [Next]_vars PROVE TypeOK'
    OBVIOUS
<1> USE DEF TypeOK
<1>1. ASSUME NEW t \in Task, Refuse(t) PROVE TypeOK'
    BY <1>1 DEF Refuse, chainVars, execVars, history
<1>2. ASSUME NEW t \in Task, ReadNonce(t) PROVE TypeOK'
  <2> DEFINE current == IF did = "present" THEN counter ELSE 0
  <2>0. current \in Nonce
      BY NonceAssumption DEF Nonce
  <2>1. getNextNonce \in Nonce
      BY <2>0, NextNonceInRange DEF getNextNonce
  <2>2. request[t].nonce \in Nonce \cup {None}
      BY DEF Request
  <2>3. first' \in [Task -> Nonce \cup {None}]
      BY <1>2, <2>1, <2>2 DEF ReadNonce
  <2>4. QED
      BY <1>2, <2>3 DEF ReadNonce, chainVars, execVars
<1>3. ASSUME NEW t \in Task, NEW g \in Group, SignGroup(t, g) PROVE TypeOK'
  <2> DEFINE signed == [nonce |-> txCounter(t, g), block |-> height]
  <2>1. signed \in Operation \/ txCounter(t, g) \notin Nonce
      BY DEF Operation
  <2>2. op' \in [Task -> [Group -> Operation]]
    <3>1. CASE txCounter(t, g) \notin Nonce
        BY <1>3, <3>1 DEF SignGroup
    <3>2. CASE txCounter(t, g) \in Nonce
      <4>1. op' = [op EXCEPT ![t] = [op[t] EXCEPT ![g] = signed]]
          BY <1>3, <3>2 DEF SignGroup
      <4>2. [op[t] EXCEPT ![g] = signed] \in [Group -> Operation]
          BY <2>1, <3>2
      <4>3. QED
          BY <4>1, <4>2
    <3>3. QED
        BY <3>1, <3>2
  <2>3. pc' \in [Task -> {"idle", "signing", "threw"}]
      BY <1>3 DEF SignGroup
  <2>4. QED
      BY <1>3, <2>2, <2>3 DEF SignGroup, chainVars, execVars, history
<1>4. ASSUME NEW t \in Task, Submit(t) PROVE TypeOK'
    BY <1>4 DEF Submit, chainVars, history
<1>5. ASSUME NewBlock PROVE TypeOK'
    BY <1>5, BoundsAssumption DEF NewBlock, sdkVars, execVars, history
<1>6. ASSUME CreateDid \/ DeleteDid PROVE TypeOK'
    BY <1>6 DEF CreateDid, DeleteDid, sdkVars, execVars, history
<1>7. ASSUME NEW t \in Task, Begin(t) PROVE TypeOK'
  <2>1. saved' \in Snapshot
      BY <1>7 DEF Begin, Snapshot
  <2>2. pool' \in [Task -> Nat]
      BY <1>7 DEF Begin
  <2>3. QED
      BY <1>7, <2>1, <2>2 DEF Begin, sdkVars, chainVars, history
<1>8. ASSUME NEW t \in Task, Dispatch(t) PROVE TypeOK'
  <2>1. at \in Group
      BY <1>8, BoundsAssumption DEF Dispatch, Groups, Group, Request
  <2>2. op[t][at].nonce \in Nonce
      BY <1>8, NextNonceInRange DEF Dispatch, Accepts
  <2>3. counter' \in Nonce /\ executed' \in [Task -> SUBSET Group]
      BY <1>8, <2>1, <2>2 DEF Dispatch
  <2>4. at' \in Nat
      BY <1>8 DEF Dispatch
  <2>5. QED
      BY <1>8, <2>3, <2>4 DEF Dispatch, sdkVars
<1>9. ASSUME NEW t \in Task, FailInBatch(t) PROVE TypeOK'
    BY <1>9 DEF FailInBatch, Request, sdkVars, chainVars, history
<1>10. ASSUME NEW t \in Task, FailExtrinsic(t) PROVE TypeOK'
    BY <1>10 DEF FailExtrinsic, Snapshot, sdkVars
<1>11. ASSUME NEW t \in Task, Complete(t) PROVE TypeOK'
    BY <1>11 DEF Complete, sdkVars, chainVars
<1>12. CASE UNCHANGED vars
    BY <1>12 DEF vars, sdkVars, chainVars, execVars, history
<1>13. QED
    BY <1>1, <1>2, <1>3, <1>4, <1>5, <1>6, <1>7, <1>8, <1>9, <1>10, <1>11, <1>12
    DEF Next, TaskStep, ExecStep

\* Every variable keeps its type, in particular the DID's counter stays a u64
\* although increaseNonce may go beyond it for the groups of a batch.
THEOREM TypeCorrect == Spec => []TypeOK
<1>1. QED
    BY InitTypeOK, NextTypeOK, PTL DEF Spec

-----------------------------------------------------------------------------
(* Groups of a batch take effect in order.                                 *)

\* While a batch or batchAll executes, every group before the next one has been
\* dispatched, by this submission or an earlier one, unless batch has been
\* interrupted and stands behind its last group.  A rollback restores no gap.
OrderInv ==
    /\ TypeOK
    /\ ExecutesInOrder
    /\ running \in Task /\ request[running].function # "forceBatch" =>
          /\ at \in Groups(running) => 1 .. at - 1 \subseteq executed[running]
          /\ \A g \in saved.executed : 1 .. g \subseteq saved.executed

LEMMA InitOrderInv == Init => OrderInv
  BY InitTypeOK, TaskAssumption DEF Init, OrderInv, ExecutesInOrder

LEMMA NextOrderInv == OrderInv /\ [Next]_vars => OrderInv'
<1> SUFFICES ASSUME OrderInv, [Next]_vars PROVE OrderInv'
    OBVIOUS
<1>1. TypeOK /\ TypeOK'
    BY NextTypeOK DEF OrderInv
<1> USE <1>1 DEF OrderInv, ExecutesInOrder, Groups
<1>2. ASSUME UNCHANGED <<executed, running, at, saved, request>> PROVE OrderInv'
    BY <1>2
<1>3. ASSUME NEW t \in Task, Begin(t) PROVE OrderInv'
    BY <1>3 DEF Begin, chainVars, history, sdkVars
<1>4. ASSUME NEW t \in Task, Dispatch(t) PROVE OrderInv'
  <2>1. /\ running = t /\ running' = t /\ at' = at + 1 /\ at \in Groups(t)
        /\ request' = request /\ saved' = saved
        /\ executed' = [executed EXCEPT ![t] = @ \cup {at}]
      BY <1>4 DEF Dispatch, sdkVars
  <2>2. at \in Nat /\ executed \in [Task -> SUBSET Group]
      BY DEF TypeOK
  <2>3. executed'[t] = executed[t] \cup {at}
      BY <2>1, <2>2
  <2>4. request[t].function # "forceBatch" => 1 .. at \subseteq executed'[t]
      BY <2>1, <2>2, <2>3
  <2>5. ExecutesInOrder'
      BY <2>1, <2>2, <2>3, <2>4
  <2>6. QED
      BY <2>1, <2>2, <2>4, <2>5
<1>5. ASSUME NEW t \in Task, FailInBatch(t) PROVE OrderInv'
  <2>1. /\ running = t /\ at \in Nat /\ request[t].groups \in Nat
        /\ request[t].function # "forceBatch" => at' = request[t].groups + 1
    <3>1. running = t /\ at \in Nat /\ request[t].groups \in Nat
        BY <1>5, GroupsAreCounted DEF FailInBatch, TypeOK
    <3>2. request[t].function \in {"batch", "batchAll", "forceBatch"}
        BY BatchAssumption DEF TypeOK, Request
    <3>3. QED
        BY <1>5, <3>1, <3>2 DEF FailInBatch
  <2>2. /\ request' = request /\ running' = t
        /\ executed' = executed /\ saved' = saved
      BY <1>5 DEF FailInBatch, sdkVars, history
  <2>3. QED
      BY <2>1, <2>2
<1>6. ASSUME NEW t \in Task, FailExtrinsic(t) PROVE OrderInv'
    BY <1>6, TaskAssumption DEF FailExtrinsic, TypeOK, sdkVars
<1>7. ASSUME NEW t \in Task, Complete(t) PROVE OrderInv'
    BY <1>7, TaskAssumption DEF Complete, history, sdkVars
<1>8. QED
  <2>1. CASE UNCHANGED vars
      BY <1>2, <2>1 DEF vars, sdkVars, execVars, history
  <2>2. CASE NewBlock \/ CreateDid \/ DeleteDid
      BY <1>2, <2>2 DEF NewBlock, CreateDid, DeleteDid, sdkVars, execVars, history
  <2>3. ASSUME NEW t \in Task, TaskStep(t) PROVE OrderInv'
      BY <1>2, <2>3 DEF TaskStep, Refuse, ReadNonce, SignGroup, Submit, execVars, history
  <2>4. ASSUME NEW t \in Task, ExecStep(t) PROVE OrderInv'
      BY <1>3, <1>4, <1>5, <1>6, <1>7, <2>4 DEF ExecStep
  <2>5. QED
      BY <2>1, <2>2, <2>3, <2>4 DEF Next

\* A batch or batchAll is never dispatched out of order or with a gap, whatever
\* other tasks do with the DID's nonces in between.
THEOREM ExecutesInOrderHolds == Spec => []ExecutesInOrder
<1>1. OrderInv => ExecutesInOrder
    BY DEF OrderInv
<1>2. QED
    BY <1>1, InitOrderInv, NextOrderInv, PTL DEF Spec

-----------------------------------------------------------------------------
(* batchAll is all or nothing.                                             *)

\* While an extrinsic of batchAll executes, its task's groups are those of the
\* snapshot and those before the next one, so that both ends are all or nothing.
AtomicInv ==
    /\ TypeOK
    /\ BatchAllAtomic
    /\ running \in Task /\ request[running].function = "batchAll" =>
          /\ saved.executed \in {{}, Groups(running)}
          /\ executed[running] = saved.executed \cup (1 .. at - 1)
          /\ at \in 1 .. request[running].groups + 1

LEMMA InitAtomicInv == Init => AtomicInv
  BY InitTypeOK, TaskAssumption DEF Init, AtomicInv, BatchAllAtomic

LEMMA NextAtomicInv == AtomicInv /\ [Next]_vars => AtomicInv'
<1> SUFFICES ASSUME AtomicInv, [Next]_vars PROVE AtomicInv'
    OBVIOUS
<1>1. TypeOK /\ TypeOK'
    BY NextTypeOK DEF AtomicInv
<1> USE <1>1 DEF AtomicInv, BatchAllAtomic, Groups
<1>2. ASSUME UNCHANGED <<executed, running, at, saved, request>> PROVE AtomicInv'
    BY <1>2
<1>3. ASSUME NEW t \in Task, Begin(t) PROVE AtomicInv'
  <2>1. /\ running = NoTask /\ running' = t /\ at' = 1 /\ request' = request
        /\ saved'.executed = executed[t] /\ executed' = executed
      BY <1>3 DEF Begin, history, sdkVars
  <2>2. request[t].function = "batchAll" => executed[t] \in {{}, Groups(t)}
      BY <2>1, TaskAssumption
  <2>3. request[t].groups \in Nat
      BY GroupsAreCounted
  <2>4. at' \in 1 .. request'[t].groups + 1 /\ 1 .. at' - 1 = {}
      BY <2>1, <2>3
  <2>5. QED
      BY <2>1, <2>2, <2>4, TaskAssumption
<1>4. ASSUME NEW t \in Task, Dispatch(t) PROVE AtomicInv'
  <2>1. /\ running = t /\ running' = t /\ at' = at + 1 /\ at \in Groups(t)
        /\ request' = request /\ saved' = saved
        /\ executed' = [executed EXCEPT ![t] = @ \cup {at}]
      BY <1>4 DEF Dispatch, sdkVars
  <2>2. request[t].groups \in Nat /\ executed \in [Task -> SUBSET Group] /\ at \in Nat
      BY GroupsAreCounted DEF TypeOK
  <2>3. 1 .. at' - 1 = (1 .. at - 1) \cup {at}
      BY <2>1, <2>2
  <2>4. request[t].function = "batchAll" =>
            executed'[t] = saved'.executed \cup (1 .. at' - 1)
      BY <2>1, <2>2, <2>3
  <2>5. BatchAllAtomic'
      BY <2>1, <2>2
  <2>6. at' \in 1 .. request'[t].groups + 1
      BY <2>1, <2>2
  <2>7. QED
      BY <2>1, <2>4, <2>5, <2>6
<1>5. ASSUME NEW t \in Task, FailExtrinsic(t) PROVE AtomicInv'
    BY <1>5, TaskAssumption, ZenonT(40) DEF FailExtrinsic, TypeOK, sdkVars
<1>6. ASSUME NEW t \in Task, Complete(t) PROVE AtomicInv'
  <2>1. /\ running = t /\ at \notin Groups(t) /\ running' = NoTask
        /\ executed' = executed /\ request' = request
      BY <1>6 DEF Complete, history, sdkVars
  <2>2. request[t].groups \in Nat
      BY GroupsAreCounted
  <2>3. request[t].function = "batchAll" => at - 1 = request[t].groups
      BY <2>1, <2>2
  <2>4. request[t].function = "batchAll" => executed[t] = Groups(t)
      BY <2>1, <2>3
  <2>5. QED
      BY <2>1, <2>4, TaskAssumption
<1>7. ASSUME NEW t \in Task, FailInBatch(t) PROVE AtomicInv'
    BY <1>7 DEF FailInBatch, sdkVars, history
<1>8. QED
  <2>1. CASE UNCHANGED vars
      BY <1>2, <2>1 DEF vars, sdkVars, execVars, history
  <2>2. CASE NewBlock \/ CreateDid \/ DeleteDid
      BY <1>2, <2>2 DEF NewBlock, CreateDid, DeleteDid, sdkVars, execVars, history
  <2>3. ASSUME NEW t \in Task, TaskStep(t) PROVE AtomicInv'
      BY <1>2, <2>3 DEF TaskStep, Refuse, ReadNonce, SignGroup, Submit, execVars, history
  <2>4. ASSUME NEW t \in Task, ExecStep(t) PROVE AtomicInv'
      BY <1>3, <1>4, <1>5, <1>6, <1>7, <2>4 DEF ExecStep
  <2>5. QED
      BY <2>1, <2>2, <2>3, <2>4 DEF Next

\* Under batchAll the groups of an authorized batch, which carry a nonce each,
\* are dispatched all or not at all, over any number of submissions.
THEOREM BatchAllAtomicHolds == Spec => []BatchAllAtomic
<1>1. AtomicInv => BatchAllAtomic
    BY DEF AtomicInv
<1>2. QED
    BY <1>1, InitAtomicInv, NextAtomicInv, PTL DEF Spec

-----------------------------------------------------------------------------
(* A success means that everything was executed, where it is one call.     *)

\* The extrinsic fails as a whole if one of its groups does.
OneCall(t) == request[t].groups = 1 \/ request[t].function = "batchAll"

\* No group runs that was not asked for; while such an extrinsic executes, every
\* group before the next one has been dispatched; and what a rollback restores is
\* all of the groups, if an earlier submission succeeded.
SuccessInv ==
    /\ TypeOK
    /\ AtomicSuccessMeansExecuted
    /\ \A t \in Task : executed[t] \subseteq Groups(t)
    /\ running \in Task =>
          /\ saved.executed \subseteq Groups(running)
          /\ OneCall(running) =>
                /\ at \in 1 .. request[running].groups + 1
                /\ 1 .. at - 1 \subseteq executed[running]
                /\ "success" \in report[running] => saved.executed = Groups(running)

LEMMA InitSuccessInv == Init => SuccessInv
  BY InitTypeOK, TaskAssumption DEF Init, SuccessInv, AtomicSuccessMeansExecuted

LEMMA NextSuccessInv == SuccessInv /\ [Next]_vars => SuccessInv'
<1> SUFFICES ASSUME SuccessInv, [Next]_vars PROVE SuccessInv'
    OBVIOUS
<1>1. TypeOK /\ TypeOK'
    BY NextTypeOK DEF SuccessInv
<1> USE <1>1 DEF SuccessInv, AtomicSuccessMeansExecuted, Groups, OneCall
<1>2. ASSUME UNCHANGED <<executed, running, at, saved, request, report>> PROVE SuccessInv'
    BY <1>2
<1>3. ASSUME NEW t \in Task, Begin(t) PROVE SuccessInv'
  <2>1. /\ running' = t /\ at' = 1 /\ saved'.executed = executed[t]
        /\ UNCHANGED <<request, executed, report>>
      BY <1>3 DEF Begin, history, sdkVars
  <2>2. request[t].groups \in Nat
      BY GroupsAreCounted
  <2>3. at' \in 1 .. request'[t].groups + 1 /\ 1 .. at' - 1 = {}
      BY <2>1, <2>2
  <2>4. QED
      BY <2>1, <2>3
<1>4. ASSUME NEW t \in Task, Dispatch(t) PROVE SuccessInv'
  <2>1. /\ running = t /\ running' = t /\ at' = at + 1 /\ at \in Groups(t)
        /\ UNCHANGED <<request, saved, report>>
        /\ executed' = [executed EXCEPT ![t] = @ \cup {at}]
      BY <1>4 DEF Dispatch, sdkVars
  <2>2. request[t].groups \in Nat /\ executed \in [Task -> SUBSET Group] /\ at \in Nat
      BY GroupsAreCounted DEF TypeOK
  <2>3. 1 .. at' - 1 = (1 .. at - 1) \cup {at} /\ at' \in 1 .. request[t].groups + 1
      BY <2>1, <2>2
  <2>4. executed'[t] = executed[t] \cup {at} /\ \A u \in Task \ {t} : executed'[u] = executed[u]
      BY <2>1, <2>2
  <2>5. AtomicSuccessMeansExecuted'
      BY <2>1, <2>4, ZenonT(40)
  <2>6. QED
      BY <2>1, <2>3, <2>4, <2>5, ZenonT(40)
<1>5. ASSUME NEW t \in Task, FailInBatch(t) PROVE SuccessInv'
    BY <1>5 DEF FailInBatch, sdkVars, history
<1>6. ASSUME NEW t \in Task, FailExtrinsic(t) PROVE SuccessInv'
  <2>1. /\ running = t /\ running' = NoTask /\ request' = request
        /\ executed' = [executed EXCEPT ![t] = saved.executed]
        /\ report' = [report EXCEPT ![t] = @ \cup {"failed"}]
        /\ OneCall(t)
      BY <1>6 DEF FailExtrinsic, sdkVars
  <2>2. /\ executed'[t] = saved.executed /\ \A u \in Task \ {t} : executed'[u] = executed[u]
        /\ \A u \in Task : "success" \in report'[u] => "success" \in report[u]
      BY <2>1 DEF TypeOK
  <2>3. QED
      BY <2>1, <2>2, TaskAssumption
<1>7. ASSUME NEW t \in Task, Complete(t) PROVE SuccessInv'
  <2>1. /\ running = t /\ at \notin Groups(t) /\ running' = NoTask
        /\ UNCHANGED <<executed, request>>
        /\ report' = [report EXCEPT ![t] = @ \cup {"success"}]
      BY <1>7 DEF Complete, history, sdkVars
  <2>2. request[t].groups \in Nat
      BY GroupsAreCounted
  <2>3. OneCall(t) => executed[t] = Groups(t)
    <3> SUFFICES ASSUME OneCall(t) PROVE executed[t] = Groups(t)
        OBVIOUS
    <3>1. at \in 1 .. request[t].groups + 1 /\ 1 .. at - 1 \subseteq executed[t]
        BY <2>1
    <3>2. at - 1 = request[t].groups
        BY <2>1, <2>2, <3>1
    <3>3. Groups(t) \subseteq executed[t]
        BY <3>1, <3>2
    <3>4. QED
        BY <3>3
  <2>4. \A u \in Task \ {t} : report'[u] = report[u]
      BY <2>1 DEF TypeOK
  <2>5. QED
      BY <2>1, <2>3, <2>4, TaskAssumption
<1>8. QED
  <2>1. CASE UNCHANGED vars
      BY <1>2, <2>1 DEF vars, sdkVars, execVars, history
  <2>2. CASE NewBlock \/ CreateDid \/ DeleteDid
      BY <1>2, <2>2 DEF NewBlock, CreateDid, DeleteDid, sdkVars, execVars, history
  <2>3. ASSUME NEW t \in Task, TaskStep(t) PROVE SuccessInv'
      BY <1>2, <2>3 DEF TaskStep, Refuse, ReadNonce, SignGroup, Submit, execVars, history
  <2>4. ASSUME NEW t \in Task, ExecStep(t) PROVE SuccessInv'
      BY <1>3, <1>4, <1>5, <1>6, <1>7, <2>4 DEF ExecStep
  <2>5. QED
      BY <2>1, <2>2, <2>3, <2>4 DEF Next

\* A success of a single group or of batchAll means that all of its groups were
\* dispatched, and no later submission of the same extrinsic takes that back.
THEOREM AtomicSuccessMeansExecutedHolds == Spec => []AtomicSuccessMeansExecuted
<1>1. SuccessInv => AtomicSuccessMeansExecuted
    BY DEF SuccessInv
<1>2. QED
    BY <1>1, InitSuccessInv, NextSuccessInv, PTL DEF Spec

-----------------------------------------------------------------------------
(* The nonces of a batch follow each other.                                *)

\* The nonces of t's batch stay below the maximum, or end with it.
BelowMaximum(t) ==
    request[t].batch => first[t] < MaxNonce /\ first[t] + request[t].groups - 1 <= MaxNonce

\* What is signed carries the nonce that was computed from the first one, and
\* nothing is sent that is not signed.
SignedRight(t) ==
    /\ ~request[t].batch => request[t].groups <= 1
    /\ \A g \in Groups(t) : op[t][g] # Unsigned =>
          pc[t] # "idle" /\ op[t][g].nonce = txCounter(t, g)
    /\ pool[t] > 0 \/ running = t => \A g \in Groups(t) : op[t][g] # Unsigned

\* An uninterrupted batch has taken the counter from the snapshot to the nonce
\* before the next one.
CounterFollows(t) ==
    /\ at \in Groups(t) /\ request[t].function # "forceBatch"
    /\ first[t] = increaseNonce(saved.counter, 1) /\ BelowMaximum(t)
    => counter = IF at = 1 THEN saved.counter ELSE first[t] + at - 2

NoncesInv ==
    /\ TypeOK
    /\ \A t \in Task : SignedRight(t)
    /\ running \in Task => CounterFollows(running)

LEMMA InitNoncesInv == Init => NoncesInv
<1> SUFFICES ASSUME Init PROVE NoncesInv
    OBVIOUS
<1>1. ASSUME NEW t \in Task PROVE SignedRight(t)
  <2>1. /\ \A g \in Group : op[t][g] = Unsigned
        /\ ~request[t].batch => request[t].groups <= 1
        /\ request[t].groups \in 0 .. MaxGroups
        /\ pool[t] = 0 /\ running # t
      BY TaskAssumption DEF Init, Request
  <2>2. Groups(t) \subseteq Group
      BY <2>1, BoundsAssumption DEF Groups, Group
  <2>3. QED
      BY <2>1, <2>2 DEF SignedRight
<1>2. running \notin Task
    BY TaskAssumption DEF Init
<1>3. QED
    BY <1>1, <1>2, InitTypeOK DEF NoncesInv

LEMMA NextNoncesInv == NoncesInv /\ [Next]_vars => NoncesInv'
<1> SUFFICES ASSUME NoncesInv, [Next]_vars PROVE NoncesInv'
    OBVIOUS
<1>1. TypeOK /\ TypeOK'
    BY NextTypeOK DEF NoncesInv
<1> USE <1>1 DEF NoncesInv
<1>2. ASSUME UNCHANGED <<request, first, op, pc, pool, running, at, saved, counter>>
      PROVE  NoncesInv'
    BY <1>2 DEF SignedRight, CounterFollows, BelowMaximum, Groups, txCounter
\* No step but its signing touches what a task has signed.
<1>3. ASSUME NEW t \in Task, UNCHANGED <<request, first, op, pc>>,
             pool'[t] > 0 \/ running' = t => \A g \in Groups(t) : op[t][g] # Unsigned
      PROVE  SignedRight(t)'
    BY <1>3 DEF SignedRight, Groups, txCounter
\* Nor does the SDK touch an extrinsic that executes, or its own part of it.
<1>4. ASSUME UNCHANGED <<request, first, running, at, saved, counter>>
      PROVE  running' \in Task => CounterFollows(running)'
    BY <1>4 DEF CounterFollows, BelowMaximum, Groups
<1>5. ASSUME NEW t \in Task, Refuse(t) PROVE NoncesInv'
  <2>1. /\ UNCHANGED <<request, first, op, pool, running, at, saved, counter>>
        /\ pc' = [pc EXCEPT ![t] = "threw"]
      BY <1>5 DEF Refuse, chainVars, execVars
  <2>2. \A u \in Task : pc[u] # "idle" => pc'[u] # "idle"
      BY <2>1 DEF TypeOK
  <2>3. \A u \in Task : SignedRight(u)'
      BY <2>1, <2>2 DEF SignedRight, Groups, txCounter
  <2>4. QED
      BY <2>1, <2>3, <1>4
<1>6. ASSUME NEW t \in Task, ReadNonce(t) PROVE NoncesInv'
  <2>1. /\ UNCHANGED <<request, op, pool, running, at, saved, counter>>
        /\ pc[t] = "idle" /\ pc' = [pc EXCEPT ![t] = "signing"]
        /\ running = NoTask /\ \A u \in Task \ {t} : first'[u] = first[u]
      BY <1>6 DEF ReadNonce, chainVars, execVars, TypeOK
  <2>2. \A u \in Task : pc[u] # "idle" => pc'[u] # "idle"
      BY <2>1 DEF TypeOK
  <2>3. ASSUME NEW u \in Task PROVE SignedRight(u)'
    <3>1. CASE u = t
        BY <2>1, <3>1 DEF SignedRight, Groups
    <3>2. CASE u # t
        BY <2>1, <2>2, <3>2 DEF SignedRight, Groups, txCounter
    <3>3. QED
        BY <3>1, <3>2
  <2>4. QED
      BY <2>1, <2>3, TaskAssumption
<1>7. ASSUME NEW t \in Task, NEW g \in Group, SignGroup(t, g) PROVE NoncesInv'
  <2>1. /\ UNCHANGED <<request, first, pool, running, at, saved, counter>>
        /\ pc[t] = "signing" /\ g \in Groups(t) /\ op[t][g] = Unsigned /\ running = NoTask
      BY <1>7 DEF SignGroup, chainVars, execVars
  <2>2. ASSUME NEW u \in Task PROVE SignedRight(u)'
    <3>1. CASE txCounter(t, g) \in Nonce
      <4>1. /\ op' = [op EXCEPT ![t] = [op[t] EXCEPT ![g] = [nonce |-> txCounter(t, g), block |-> height]]]
            /\ pc' = pc
          BY <1>7, <3>1 DEF SignGroup
      <4>2. \A h \in Group : op'[t][h] = IF h = g THEN [nonce |-> txCounter(t, g), block |-> height]
                                         ELSE op[t][h]
          BY <4>1 DEF TypeOK
      <4>3. u # t => op'[u] = op[u]
          BY <4>1 DEF TypeOK
      <4>4. \A h \in Groups(t) : h \in Group
        <5>1. request[t] \in Request
            BY DEF TypeOK
        <5>2. request[t].groups \in 0 .. MaxGroups
            BY <5>1 DEF Request
        <5>3. QED
            BY <5>2, BoundsAssumption DEF Groups, Group
      <4>5. CASE u # t
          BY <2>1, <4>1, <4>3, <4>5 DEF SignedRight, Groups, txCounter
      <4>6. CASE u = t
        <5>1. pool[t] > 0 \/ running = t => FALSE
            BY <2>1 DEF SignedRight
        <5>2. ASSUME NEW h \in Groups(t), op'[t][h] # Unsigned
              PROVE  op'[t][h].nonce = txCounter(t, h)
            BY <4>2, <4>4, <5>2 DEF SignedRight
        <5>3. QED
            BY <2>1, <4>1, <4>6, <5>1, <5>2 DEF SignedRight, Groups, txCounter
      <4>7. QED
          BY <4>5, <4>6
    <3>2. CASE txCounter(t, g) \notin Nonce
      <4>1. op' = op /\ pc' = [pc EXCEPT ![t] = "threw"]
          BY <1>7, <3>2 DEF SignGroup
      <4>2. pc[u] # "idle" => pc'[u] # "idle"
          BY <4>1 DEF TypeOK
      <4>3. QED
          BY <2>1, <4>1, <4>2 DEF SignedRight, Groups, txCounter
    <3>3. QED
        BY <3>1, <3>2
  <2>3. QED
      BY <2>1, <2>2, TaskAssumption
<1>8. ASSUME NEW t \in Task, Submit(t) PROVE NoncesInv'
  <2>1. /\ UNCHANGED <<request, first, op, pc, running, at, saved, counter>>
        /\ \A g \in Groups(t) : op[t][g] # Unsigned
        /\ \A u \in Task \ {t} : pool'[u] = pool[u]
      BY <1>8 DEF Submit, Signed, chainVars, TypeOK
  <2>2. ASSUME NEW u \in Task PROVE SignedRight(u)'
      BY <1>3, <2>1 DEF SignedRight
  <2>3. QED
      BY <1>4, <2>1, <2>2
<1>9. ASSUME NEW t \in Task, Begin(t) PROVE NoncesInv'
  <2>1. /\ UNCHANGED <<request, first, op, pc, counter>>
        /\ pool[t] > 0 /\ running' = t /\ at' = 1 /\ saved'.counter = counter
        /\ \A u \in Task : pool'[u] > 0 => pool[u] > 0
      BY <1>9 DEF Begin, sdkVars, chainVars, TypeOK
  <2>2. ASSUME NEW u \in Task PROVE SignedRight(u)'
      BY <1>3, <2>1 DEF SignedRight
  <2>3. QED
      BY <2>1, <2>2 DEF CounterFollows
<1>10. ASSUME NEW t \in Task, Dispatch(t) PROVE NoncesInv'
  <2>1. /\ UNCHANGED <<request, first, op, pc, pool, running, saved>>
        /\ running = t /\ at \in Groups(t) /\ at' = at + 1
        /\ counter' = op[t][at].nonce
      BY <1>10 DEF Dispatch, sdkVars
  <2>2. ASSUME NEW u \in Task PROVE SignedRight(u)'
      BY <1>3, <2>1 DEF SignedRight
  <2>3. /\ counter' = txCounter(t, at) /\ request[t].groups \in Nat /\ at \in Nat \ {0}
        /\ ~request[t].batch => request[t].groups <= 1
      BY <2>1, GroupsAreCounted DEF SignedRight, Groups
  <2>4. ASSUME at + 1 \in Groups(t), BelowMaximum(t)
        PROVE  counter' = first[t] + at - 1
    <3>1. request[t].batch
        BY <2>3, <2>4 DEF Groups
    <3>2. first[t] < MaxNonce /\ first[t] \in Int /\ MaxNonce \in Int
        BY <2>4, <3>1, NonceAssumption DEF BelowMaximum, TypeOK, Nonce, None
    <3>3. QED
        BY <2>3, <3>1, <3>2 DEF txCounter, increaseNonce
  <2>5. first[t] \in Int
      BY DEF TypeOK, Nonce, None
  <2>6. CounterFollows(t)'
      BY <2>1, <2>3, <2>4, <2>5 DEF CounterFollows, Groups, BelowMaximum
  <2>7. QED
      BY <2>1, <2>2, <2>6
<1>11. ASSUME NEW t \in Task, FailInBatch(t) PROVE NoncesInv'
  <2>1. /\ UNCHANGED <<request, first, op, pc, pool, running, saved, counter>> /\ running = t
        /\ at' = IF request[t].function = "batch" THEN request[t].groups + 1 ELSE at + 1
        /\ request[t].function # "batchAll"
      BY <1>11 DEF FailInBatch, sdkVars, chainVars
  <2>2. ASSUME NEW u \in Task PROVE SignedRight(u)'
      BY <1>3, <2>1 DEF SignedRight
  <2>3. request[t].function \in {"batch", "batchAll", "forceBatch"} /\ request[t].groups \in Nat
      BY BatchAssumption, GroupsAreCounted DEF TypeOK, Request
  <2>4. CounterFollows(t)'
      BY <2>1, <2>3 DEF CounterFollows, Groups
  <2>5. QED
      BY <2>1, <2>2, <2>4
<1>12. ASSUME NEW t \in Task, FailExtrinsic(t) \/ Complete(t) PROVE NoncesInv'
  <2>1. UNCHANGED <<request, first, op, pc, pool>> /\ running' = NoTask
      BY <1>12 DEF FailExtrinsic, Complete, sdkVars
  <2>2. ASSUME NEW u \in Task PROVE SignedRight(u)'
      BY <1>3, <2>1, TaskAssumption DEF SignedRight
  <2>3. QED
      BY <2>1, <2>2, TaskAssumption
<1>13. QED
  <2>1. CASE UNCHANGED vars
      BY <1>2, <2>1 DEF vars, sdkVars, chainVars, execVars
  <2>2. CASE NewBlock \/ CreateDid \/ DeleteDid
      BY <1>2, <2>2 DEF NewBlock, CreateDid, DeleteDid, sdkVars, execVars
  <2>3. ASSUME NEW t \in Task, TaskStep(t) PROVE NoncesInv'
      BY <1>5, <1>6, <1>7, <1>8, <2>3 DEF TaskStep
  <2>4. ASSUME NEW t \in Task, ExecStep(t) PROVE NoncesInv'
      BY <1>9, <1>10, <1>11, <1>12, <2>4 DEF ExecStep
  <2>5. QED
      BY <2>1, <2>2, <2>3, <2>4 DEF Next

\* Below the maximum the signed nonces are those the chain expects.
LEMMA NoncesFollow == NoncesInv => ((\A t \in Task : BelowMaximum(t)) => BatchNoncesFollow)
<1> SUFFICES ASSUME NoncesInv, NEW t \in Task, BelowMaximum(t),
                    running = t, at \in Groups(t), request[t].function # "forceBatch",
                    first[t] = increaseNonce(saved.counter, 1)
             PROVE  op[t][at].nonce = increaseNonce(counter, 1)
    BY DEF BatchNoncesFollow
<1>1. counter = IF at = 1 THEN saved.counter ELSE first[t] + at - 2
    BY DEF NoncesInv, CounterFollows
<1>2. op[t][at].nonce = txCounter(t, at) /\ (~request[t].batch => request[t].groups <= 1)
    BY DEF NoncesInv, SignedRight
<1>3. /\ request[t].groups \in Nat /\ first[t] \in Int /\ MaxNonce \in Nat /\ at \in Nat \ {0}
      /\ at <= request[t].groups
    BY GroupsAreCounted, NonceAssumption DEF NoncesInv, TypeOK, Nonce, None, Groups
<1>4. CASE at = 1
  <2>1. txCounter(t, at) = first[t]
      BY <1>3, <1>4 DEF txCounter, increaseNonce, BelowMaximum
  <2>2. QED
      BY <1>1, <1>2, <1>4, <2>1
<1>5. CASE at # 1
  <2>1. request[t].batch
      BY <1>2, <1>3, <1>5
  <2>2. first[t] < MaxNonce /\ first[t] + at - 1 <= MaxNonce
      BY <1>3, <2>1 DEF BelowMaximum
  <2>3. txCounter(t, at) = first[t] + at - 1
      BY <1>3, <2>1, <2>2 DEF txCounter, increaseNonce
  <2>4. increaseNonce(counter, 1) = first[t] + at - 1
      BY <1>1, <1>3, <1>5, <2>2 DEF increaseNonce
  <2>5. QED
      BY <1>2, <2>3, <2>4
<1>6. QED
    BY <1>4, <1>5

\* As long as no batch starts at the maximum nonce or reaches beyond it, the nonces
\* signed for its groups are those the chain expects, however many groups it has and
\* whatever happened between signing and execution.  Beyond it they are not.
THEOREM BatchNoncesFollowBelowMaximum ==
    Spec => []((\A t \in Task : BelowMaximum(t)) => BatchNoncesFollow)
<1>1. QED
    BY NoncesFollow, InitNoncesInv, NextNoncesInv, PTL DEF Spec

-----------------------------------------------------------------------------
(* A nonce that was read is stale only after a race.                       *)

\* The counter as those see it who read the chain.
Standing == IF running = NoTask THEN counter ELSE saved.counter

\* A task that read its nonce and was not overtaken has the next one still.  A DID
\* that is not on chain yet has dispatched nothing.
FreshInv ==
    /\ NoncesInv
    /\ did = "absent" => counter = 0 /\ saved.counter = 0
    /\ \A t \in Task : request[t].groups > 0 /\ pc[t] # "idle" /\ request[t].nonce = None =>
          /\ first[t] \in Nonce
          /\ t \in overtaken \/ did = "deleted" \/ first[t] = increaseNonce(Standing, 1)

LEMMA InitFreshInv == Init => FreshInv
  BY InitNoncesInv DEF Init, FreshInv

LEMMA NextFreshInv == FreshInv /\ [Next]_vars => FreshInv'
<1> SUFFICES ASSUME FreshInv, [Next]_vars PROVE FreshInv'
    OBVIOUS
<1>1. TypeOK /\ TypeOK' /\ NoncesInv'
    BY NextNoncesInv DEF FreshInv, NoncesInv
<1>2. did = "absent" => counter = 0 /\ saved.counter = 0
    BY DEF FreshInv
\* What a task knows, put apart.
<1> DEFINE Asks(t) == request[t].groups > 0 /\ pc[t] # "idle" /\ request[t].nonce = None
           Knows(t) == /\ first[t] \in Nonce
                       /\ t \in overtaken \/ did = "deleted" \/ first[t] = increaseNonce(Standing, 1)
<1>3. ASSUME NEW t \in Task, Asks(t) PROVE Knows(t)
    BY <1>3 DEF FreshInv
<1>4. ASSUME did' = "absent" => counter' = 0 /\ saved'.counter = 0,
             NEW t \in Task, \A u \in Task \ {t} : Asks(u)' => Knows(u)',
             Asks(t)' => Knows(t)'
      PROVE  FreshInv'
    BY <1>1, <1>4 DEF FreshInv
\* A step that changes nothing of it.
<1>5. ASSUME NEW u \in Task, Asks(u)' => Asks(u), first'[u] = first[u],
             u \in overtaken => u \in overtaken', did = "deleted" => did' = "deleted",
             Standing' = Standing
      PROVE  Asks(u)' => Knows(u)'
    BY <1>3, <1>5 DEF increaseNonce
<1>6. ASSUME UNCHANGED <<request, pc, first, overtaken, did, counter, running, saved>> PROVE FreshInv'
    BY <1>1, <1>6 DEF FreshInv, Standing, increaseNonce
<1>7. ASSUME NEW t \in Task, TaskStep(t) PROVE FreshInv'
  <2>1. /\ UNCHANGED <<request, did, counter, running, saved>>
        /\ Standing' = Standing
      BY <1>7 DEF TaskStep, Refuse, ReadNonce, SignGroup, Submit, chainVars, execVars, Standing
  <2>2. ASSUME NEW u \in Task \ {t} PROVE Asks(u)' => Knows(u)'
    <3>1. /\ pc'[u] = pc[u] /\ first'[u] = first[u]
          /\ u \in overtaken => u \in overtaken'
        BY <1>1, <1>7 DEF TaskStep, Refuse, ReadNonce, SignGroup, Submit, TypeOK, history
    <3>2. QED
        BY <1>5, <2>1, <3>1
  <2>3. Asks(t)' => Knows(t)'
    <3>1. CASE Refuse(t)
        BY <2>1, <3>1 DEF Refuse
    <3>2. CASE ReadNonce(t)
      <4>1. running = NoTask /\ overtaken' = overtaken \ {t}
          BY <3>2 DEF ReadNonce
      <4>2. ASSUME request[t].nonce = None
            PROVE  first'[t] = increaseNonce(IF did = "present" THEN counter ELSE 0, 1)
          BY <1>1, <3>2, <4>2 DEF ReadNonce, TypeOK, getNextNonce
      <4>3. (IF did = "present" THEN counter ELSE 0) \in Nonce
          BY <1>1, NonceAssumption DEF TypeOK, Nonce
      <4>4. did # "deleted" => (IF did = "present" THEN counter ELSE 0) = counter
          BY <1>1, <1>2 DEF TypeOK
      <4>5. Standing' = counter
          BY <2>1, <4>1 DEF Standing
      <4>6. QED
          BY <2>1, <4>2, <4>3, <4>4, <4>5, NextNonceInRange
    <3>3. CASE Submit(t) \/ \E g \in Group : SignGroup(t, g)
      <4>1. pc[t] = "signing" /\ first' = first /\ overtaken' = overtaken
          BY <3>3 DEF Submit, Signed, SignGroup, history
      <4>2. QED
          BY <1>5, <2>1, <4>1
    <3>4. QED
        BY <1>7, <3>1, <3>2, <3>3 DEF TaskStep
  <2>4. QED
      BY <1>2, <1>4, <2>1, <2>2, <2>3
<1>8. ASSUME NEW t \in Task, ExecStep(t) PROVE FreshInv'
  <2>1. UNCHANGED <<request, pc, first, did>>
      BY <1>8 DEF ExecStep, Begin, Dispatch, FailInBatch, FailExtrinsic, Complete, sdkVars, chainVars
  <2>2. (overtaken' = overtaken /\ Standing' = Standing) \/ overtaken' = Task
    <3>1. CASE Begin(t)
        BY <3>1, TaskAssumption DEF Begin, chainVars, history, Standing
    <3>2. CASE Dispatch(t) \/ FailInBatch(t)
        BY <3>2, TaskAssumption DEF Dispatch, FailInBatch, history, Standing
    <3>3. CASE FailExtrinsic(t)
        BY <3>3, TaskAssumption DEF FailExtrinsic, Standing
    <3>4. CASE Complete(t)
        BY <3>4, TaskAssumption DEF Complete, chainVars, Standing
    <3>5. QED
        BY <1>8, <3>1, <3>2, <3>3, <3>4 DEF ExecStep
  <2>3. did' = "absent" => counter' = 0 /\ saved'.counter = 0
    <3>1. CASE Dispatch(t)
        BY <2>1, <3>1 DEF Dispatch, Accepts
    <3>2. CASE Begin(t)
        BY <1>2, <2>1, <3>2 DEF Begin, chainVars
    <3>3. CASE FailInBatch(t) \/ FailExtrinsic(t) \/ Complete(t)
        BY <1>2, <2>1, <3>3 DEF FailInBatch, FailExtrinsic, Complete, chainVars
    <3>4. QED
        BY <1>8, <3>1, <3>2, <3>3 DEF ExecStep
  <2>4. ASSUME NEW u \in Task PROVE Asks(u)' => Knows(u)'
    <3>1. CASE overtaken' = overtaken /\ Standing' = Standing
        BY <1>5, <2>1, <3>1
    <3>2. CASE overtaken' = Task
        BY <1>3, <2>1, <3>2
    <3>3. QED
        BY <2>2, <3>1, <3>2
  <2>5. QED
      BY <1>4, <2>3, <2>4
<1>9. CASE NewBlock \/ CreateDid \/ DeleteDid
  <2>1. UNCHANGED <<request, pc, first, overtaken, counter, running, saved>>
      BY <1>9 DEF NewBlock, CreateDid, DeleteDid, sdkVars, execVars, history
  <2>2. /\ did' # did => did' # "absent"
        /\ did = "deleted" => did' = "deleted"
      BY <1>9 DEF NewBlock, CreateDid, DeleteDid
  <2>3. ASSUME NEW u \in Task PROVE Asks(u)' => Knows(u)'
      BY <1>5, <2>1, <2>2 DEF Standing
  <2>4. QED
      BY <1>1, <1>2, <2>1, <2>2, <2>3 DEF FreshInv
<1>10. CASE UNCHANGED vars
    BY <1>6, <1>10 DEF vars, sdkVars, chainVars, execVars, history
<1>11. QED
    BY <1>7, <1>8, <1>9, <1>10 DEF Next

\* The nonces that authorizeTx and authorizeBatch derive from the counter they read
\* are refused only after a race, for any number of tasks, groups and submissions, as
\* long as no batch starts at the maximum nonce or reaches beyond it.
THEOREM StaleNonceForCauseBelowMaximum ==
    Spec => []((\A t \in Task : BelowMaximum(t)) => StaleNonceForCause)
<1>1. FreshInv => ((\A t \in Task : BelowMaximum(t)) => StaleNonceForCause)
  <2> SUFFICES ASSUME FreshInv, \A t \in Task : BelowMaximum(t),
                      NEW t \in Task, running = t, at \in Groups(t), did = "present",
                      request[t].nonce = None, request[t].function # "forceBatch", t \notin overtaken
               PROVE  op[t][at].nonce = increaseNonce(counter, 1)
      BY DEF StaleNonceForCause
  <2>1. NoncesInv /\ TypeOK
      BY DEF FreshInv, NoncesInv
  <2>2. op[t][at] # Unsigned
      BY <2>1 DEF NoncesInv, SignedRight
  <2>3. pc[t] # "idle" /\ request[t].groups > 0
      BY <2>1, <2>2, GroupsAreCounted DEF NoncesInv, SignedRight, Groups
  <2>4. first[t] = increaseNonce(saved.counter, 1)
      BY <2>3, TaskAssumption DEF FreshInv, Standing
  <2>5. BatchNoncesFollow
      BY <2>1, NoncesFollow
  <2>6. QED
      BY <2>4, <2>5 DEF BatchNoncesFollow
<1>2. QED
    BY <1>1, InitFreshInv, NextFreshInv, PTL DEF Spec
==============================================================================
