---------------------------- MODULE DidAuthorize ----------------------------
(***************************************************************************)
(* DID-authorized extrinsics: authorizeTx and authorizeBatch of            *)
(* did/src/DidDetails/FullDidDetails.ts, generateDidAuthenticatedTx of     *)
(* did/src/Did.chain.ts, and the DID pallet that checks what they sign.    *)
(*                                                                         *)
(* Several tasks (tabs, servers, queues) of one DID authorize extrinsics   *)
(* at the same time.  Each reads the nonce of the DID from the chain, or   *)
(* is given one, and signs one operation per key-relationship group; the   *)
(* groups of a batch read the block number independently.  The extrinsic   *)
(* may then be submitted more than once (a retry after an ambiguous        *)
(* failure submits the same signed operations again).                      *)
(*                                                                         *)
(* External: the pallets did and utility, modelled from the interfaces in  *)
(* augment-api.  An extrinsic executes atomically; it is cut here into one *)
(* step per operation, and nothing reads the chain while one is running.   *)
(* u64 arithmetic is arithmetic up to MaxNonce.                            *)
(***************************************************************************)
EXTENDS Integers, FiniteSets

CONSTANTS
    Task,           \* callers of authorizeTx and authorizeBatch
    MaxNonce,       \* maxNonceValue, 2^64 - 1 in the code
    StartCounters,  \* tx counters the DID may have when the model starts
    GivenNonces,    \* nonces a caller may pass, besides none
    MaxGroups,      \* bound: key-relationship groups in a batch
    BatchFunctions, \* those of batch, batchAll, forceBatch that callers pass
    TxValidity,     \* maxBlocksTxValidity
    MaxHeight,      \* bound: blocks
    MaxSubmissions, \* bound: submissions of one extrinsic
    NoTask          \* not a task

ASSUME TaskAssumption == NoTask \notin Task
ASSUME NonceAssumption ==
    /\ MaxNonce \in Nat \ {0}
    /\ StartCounters \subseteq 0 .. MaxNonce /\ GivenNonces \subseteq 0 .. MaxNonce
ASSUME BatchAssumption == BatchFunctions \subseteq {"batch", "batchAll", "forceBatch"}
ASSUME BoundsAssumption ==
    /\ MaxGroups \in Nat /\ TxValidity \in Nat
    /\ MaxHeight \in Nat /\ MaxSubmissions \in Nat

Group == 1 .. MaxGroups
Nonce == 0 .. MaxNonce
None == -1          \* no nonce given; not signed

VARIABLES
    \* the chain
    did,            \* is the DID absent, present or deleted?
    counter,        \* lastTxCounter
    height,         \* the current block number
    \* the SDK, per task
    request,        \* what the caller asks for
    pc,             \* where the call is
    first,          \* the nonce of the first operation
    op,             \* op[t][g]: the nonce and block signed for group g
    sent,           \* how often the extrinsic was submitted
    \* the execution of extrinsics
    pool,           \* submissions of each task's extrinsic not yet executed
    running,        \* the task whose extrinsic executes, or NoTask
    at,             \* the group it executes next
    saved,          \* what a rollback restores
    report,         \* results the chain gave for the task's extrinsic
    \* history
    executed,       \* groups dispatched, per task
    overtaken       \* tasks that read a nonce, and the counter has moved since

sdkVars   == <<request, pc, first, op, sent>>
chainVars == <<did, counter, height>>
execVars  == <<pool, running, at, saved, report>>
history   == <<executed, overtaken>>
vars == <<sdkVars, chainVars, execVars, history>>

Request == [batch : BOOLEAN,            \* authorizeBatch of two or more?
            groups : 0 .. MaxGroups,    \* 0: refused, nothing to authorize
            nonce : Nonce \cup {None},  \* the optional nonce
            function : BatchFunctions]  \* batchFunction
Operation == [nonce : Nonce \cup {None}, block : 0 .. MaxHeight]
Unsigned == [nonce |-> None, block |-> 0]

\* The state an extrinsic may change, for the rollback of a failed one.
Snapshot == [counter : Nonce, executed : SUBSET Group]

-----------------------------------------------------------------------------
\* Mutant: no wrap around.
increaseNonce_plain(current, increment) == current + increment

\* increaseNonce: wraps only when the current nonce is the maximum itself.
increaseNonce(current, increment) ==
    IF current = MaxNonce THEN increment ELSE current + increment

\* Mutant: the nonce on chain is taken as it is.
getNextNonce_current == IF did = "present" THEN counter ELSE 0

\* getNextNonce: a DID that is not on chain counts as 0.
getNextNonce == increaseNonce(IF did = "present" THEN counter ELSE 0, 1)

\* Mutant: the nonces of a batch start one too high.
txCounter_offByOne(t, g) ==
    IF request[t].batch THEN increaseNonce(first[t], g) ELSE first[t]

\* The nonce of group g: authorizeTx takes the first, authorizeBatch increases it.
txCounter(t, g) ==
    IF request[t].batch THEN increaseNonce(first[t], g - 1) ELSE first[t]

Groups(t) == 1 .. request[t].groups
Signed(t) == pc[t] = "signing" /\ \A g \in Groups(t) : op[t][g] # Unsigned

TypeOK ==
    /\ did \in {"absent", "present", "deleted"}
    /\ counter \in Nonce
    /\ height \in 0 .. MaxHeight
    /\ request \in [Task -> Request]
    /\ pc \in [Task -> {"idle", "signing", "threw"}]
    /\ first \in [Task -> Nonce \cup {None}]
    /\ op \in [Task -> [Group -> Operation]]
    /\ sent \in [Task -> Nat]
    /\ pool \in [Task -> Nat]
    /\ running \in Task \cup {NoTask}
    /\ at \in Nat
    /\ saved \in Snapshot
    /\ report \in [Task -> SUBSET {"success", "failed"}]
    /\ executed \in [Task -> SUBSET Group]
    /\ overtaken \in SUBSET Task

Init ==
    /\ did \in {"absent", "present"}
    /\ counter \in IF did = "absent" THEN {0} ELSE StartCounters
    /\ height = 0
    /\ request \in [Task -> {r \in Request : /\ r.nonce \in GivenNonces \cup {None}
                                             /\ r.batch \/ r.groups <= 1}]
    /\ pc = [t \in Task |-> "idle"]
    /\ first = [t \in Task |-> None]
    /\ op = [t \in Task |-> [g \in Group |-> Unsigned]]
    /\ sent = [t \in Task |-> 0]
    /\ pool = [t \in Task |-> 0]
    /\ running = NoTask
    /\ at = 1
    /\ executed = [t \in Task |-> {}]
    /\ overtaken = {}
    /\ saved = [counter |-> counter, executed |-> {}]
    /\ report = [t \in Task |-> {}]

-----------------------------------------------------------------------------
(* The SDK.                                                                *)

\* No extrinsic, or one without a key relationship: the call throws.
Refuse(t) ==
    /\ pc[t] = "idle" /\ request[t].groups = 0
    /\ pc' = [pc EXCEPT ![t] = "threw"]
    /\ UNCHANGED <<request, first, op, sent, chainVars, execVars, history>>

\* txCounter || await getNextNonce(did), nonce || await getNextNonce(did)
ReadNonce(t) ==
    /\ pc[t] = "idle" /\ request[t].groups > 0
    /\ running = NoTask
    /\ first' = [first EXCEPT ![t] =
          IF request[t].nonce # None THEN request[t].nonce ELSE getNextNonce]
    /\ pc' = [pc EXCEPT ![t] = "signing"]
    /\ overtaken' = overtaken \ {t}
    /\ UNCHANGED <<request, op, sent, chainVars, execVars, executed>>

\* generateDidAuthenticatedTx for one group; a nonce beyond u64 cannot be
\* encoded and the whole authorization throws.
SignGroup(t, g) ==
    /\ pc[t] = "signing" /\ g \in Groups(t) /\ op[t][g] = Unsigned
    /\ running = NoTask
    /\ IF txCounter(t, g) \in Nonce
       THEN /\ op' = [op EXCEPT ![t][g] = [nonce |-> txCounter(t, g), block |-> height]]
            /\ UNCHANGED pc
       ELSE /\ pc' = [pc EXCEPT ![t] = "threw"]
            /\ UNCHANGED op
    /\ UNCHANGED <<request, first, sent, chainVars, execVars, history>>

\* The authorized extrinsic is submitted, or submitted again.
Submit(t) ==
    /\ Signed(t) /\ sent[t] < MaxSubmissions
    /\ sent' = [sent EXCEPT ![t] = @ + 1]
    /\ pool' = [pool EXCEPT ![t] = @ + 1]
    /\ UNCHANGED <<request, pc, first, op, chainVars, running, at, saved, report, history>>

-----------------------------------------------------------------------------
(* The chain.                                                              *)

NewBlock ==
    /\ running = NoTask /\ height < MaxHeight
    /\ height' = height + 1
    /\ UNCHANGED <<did, counter, sdkVars, execVars, history>>

CreateDid ==
    /\ running = NoTask /\ did = "absent"
    /\ did' = "present"
    /\ UNCHANGED <<counter, height, sdkVars, execVars, history>>

DeleteDid ==
    /\ running = NoTask /\ did = "present"
    /\ did' = "deleted"
    /\ UNCHANGED <<counter, height, sdkVars, execVars, history>>

\* A submission reaches a block and starts to execute.
Begin(t) ==
    /\ running = NoTask /\ pool[t] > 0
    /\ pool' = [pool EXCEPT ![t] = @ - 1]
    /\ running' = t
    /\ at' = 1
    /\ saved' = [counter |-> counter, executed |-> executed[t]]
    /\ UNCHANGED <<report, sdkVars, chainVars, history>>

\* submitDidCall accepts the operation: the DID is present, the nonce is the
\* next one, and the block is recent.
Accepts(o) ==
    /\ did = "present"
    /\ o.nonce = increaseNonce(counter, 1)
    /\ height - o.block <= TxValidity

\* The operation is accepted and its call dispatched successfully.
Dispatch(t) ==
    /\ running = t /\ at \in Groups(t)
    /\ Accepts(op[t][at])
    /\ counter' = op[t][at].nonce
    /\ executed' = [executed EXCEPT ![t] = @ \cup {at}]
    /\ at' = at + 1
    /\ UNCHANGED <<did, height, sdkVars, pool, running, saved, report, overtaken>>

\* Mutants: a batch goes on after a failure; the batch function passed is not
\* the one used, and batchAll behaves like batch.
FailInBatch_goOn(t) ==
    /\ running = t /\ at \in Groups(t)
    /\ request[t].groups > 1 /\ request[t].function # "batchAll"
    /\ at' = at + 1
    /\ UNCHANGED <<sdkVars, chainVars, pool, running, saved, report, history>>
FailInBatch_anyFunction(t) ==
    /\ running = t /\ at \in Groups(t)
    /\ request[t].groups > 1
    /\ at' = IF request[t].function # "forceBatch" THEN request[t].groups + 1 ELSE at + 1
    /\ UNCHANGED <<sdkVars, chainVars, pool, running, saved, report, history>>

\* An operation fails, because it is not accepted or its call fails, inside
\* utility.batch (the rest is skipped) or utility.forceBatch (it goes on).
FailInBatch(t) ==
    /\ running = t /\ at \in Groups(t)
    /\ request[t].groups > 1 /\ request[t].function # "batchAll"
    /\ at' = IF request[t].function = "batch" THEN request[t].groups + 1 ELSE at + 1
    /\ UNCHANGED <<sdkVars, chainVars, pool, running, saved, report, history>>

\* An operation fails alone or inside utility.batchAll: the extrinsic fails
\* and what it did is rolled back.
FailExtrinsic(t) ==
    /\ running = t /\ at \in Groups(t)
    /\ request[t].groups = 1 \/ request[t].function = "batchAll"
    /\ counter' = saved.counter
    /\ executed' = [executed EXCEPT ![t] = saved.executed]
    /\ running' = NoTask
    /\ report' = [report EXCEPT ![t] = @ \cup {"failed"}]
    /\ UNCHANGED <<did, height, sdkVars, pool, at, saved, overtaken>>

\* ExtrinsicSuccess: the end is reached, skipped and failed groups included.
Complete(t) ==
    /\ running = t /\ at \notin Groups(t)
    /\ running' = NoTask
    /\ report' = [report EXCEPT ![t] = @ \cup {"success"}]
    /\ overtaken' = IF counter = saved.counter THEN overtaken ELSE Task
    /\ UNCHANGED <<sdkVars, chainVars, pool, at, saved, executed>>

-----------------------------------------------------------------------------
TaskStep(t) ==
    \/ Refuse(t) \/ ReadNonce(t) \/ Submit(t)
    \/ \E g \in Group : SignGroup(t, g)

ExecStep(t) ==
    \/ Begin(t) \/ Dispatch(t) \/ FailInBatch(t) \/ FailExtrinsic(t) \/ Complete(t)

Next ==
    \/ \E t \in Task : TaskStep(t) \/ ExecStep(t)
    \/ NewBlock \/ CreateDid \/ DeleteDid

Spec == Init /\ [][Next]_vars

-----------------------------------------------------------------------------
(* Properties.                                                             *)

\* The groups of a batch or batchAll take effect in order, without gaps, even
\* when another task takes a nonce in the middle or the batch is retried.
ExecutesInOrder ==
    \A t \in Task :
        request[t].function # "forceBatch" =>
            \A g \in executed[t] : 1 .. g \subseteq executed[t]

\* batchAll over several key relationships is all or nothing.
BatchAllAtomic ==
    \A t \in Task :
        request[t].function = "batchAll" /\ running # t => executed[t] \in {{}, Groups(t)}

\* submitSignedTx "rejects if any errors occur during submission or execution
\* of extrinsics": a success means that every group was dispatched.
SuccessMeansExecuted ==
    \A t \in Task : "success" \in report[t] => executed[t] = Groups(t)

\* It does so for a single operation and for batchAll.
AtomicSuccessMeansExecuted ==
    \A t \in Task :
        "success" \in report[t] /\ (request[t].groups = 1 \/ request[t].function = "batchAll") =>
            executed[t] = Groups(t)

\* The nonces signed for the groups of a batch are those the chain expects, one
\* after the other: a batch that starts with the next nonce is never refused
\* because of the nonce of a later group.  ("Next batches will use incremented
\* value"; "wrap around the max u64 value when reached".)
BatchNoncesFollow ==
    \A t \in Task :
        /\ running = t /\ at \in Groups(t)
        /\ request[t].function # "forceBatch"
        /\ first[t] = increaseNonce(saved.counter, 1)
        => op[t][at].nonce = increaseNonce(counter, 1)

\* Operations that are signed with the nonce read from the chain ("the next valid
\* nonce") are refused for their nonce only after a race: another extrinsic of the
\* DID, or a copy of this one, took effect between the read and the execution.
StaleNonceForCause ==
    \A t \in Task :
        /\ running = t /\ at \in Groups(t) /\ did = "present"
        /\ request[t].nonce = None /\ request[t].function # "forceBatch"
        /\ op[t][at].nonce # increaseNonce(counter, 1)
        => t \in overtaken
==============================================================================
