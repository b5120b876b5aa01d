---------------------------- MODULE EnsureStored ----------------------------
(***************************************************************************)
(* The setup of an issuer in the demo: ensureStoredSchema,                 *)
(* ensureStoredRegistry and addRegistryAdminDelegate, one after the other  *)
(* (src/demo/src/utils/generateSchema.ts, generateRegistry.ts, main of     *)
(* demo.ts).  Each checks whether its item is on chain and creates it if   *)
(* not; a check that fails counts as "not there".  addRegistryDelegate is  *)
(* the same for another delegate and left out.                             *)
(*                                                                         *)
(* Several services run the setup for one DID.  A service whose call threw *)
(* is started again.  A call may throw while its extrinsic is on its way   *)
(* (a timeout, a lost connection), so extrinsics outlive their calls.  And *)
(* the demo resolves at IS_IN_BLOCK (demo.ts): a call returns although its *)
(* block may still be retracted, and then its extrinsic is on its way      *)
(* again.                                                                  *)
(*                                                                         *)
(* External: the chain, which takes the next nonce of the DID only, and an *)
(* item only once.  It is not assumed to check that the schema of a        *)
(* registry, or the registry of an authorization, exists.  That a block    *)
(* becomes final only rules its retraction out, and is left out.           *)
(***************************************************************************)
EXTENDS Integers, FiniteSets

CONSTANTS
    Service,        \* the processes that run the setup
    Title,          \* titles ensureStoredRegistry may draw
    MaxFaults,      \* bound: failed queries, calls that give up, retractions
    MaxRestarts     \* bound: restarts of one service

ASSUME SetupAssumption ==
    /\ MaxFaults \in Nat /\ MaxRestarts \in Nat
    /\ IsFiniteSet(Title) /\ "none" \notin Title

VARIABLES
    executed,       \* the extrinsics in the blocks of the best chain
    lost,           \* history: items of retracted blocks, until they are created again
    flight,         \* extrinsics that are sent and not in a block
    setup,          \* the setup each service runs
    faults          \* faults so far

setupVars == <<executed, lost, flight, setup, faults>>

\* An item is named by its kind, and by the title of its registry.
Item == {<<"schema", "none">>} \cup {<<"registry", t>> : t \in Title}
            \cup {<<"authorization", t>> : t \in Title}

\* What an item refers to.
Base(item) ==
    CASE item[1] = "schema"        -> {}
      [] item[1] = "registry"      -> {<<"schema", "none">>}
      [] item[1] = "authorization" -> {<<"registry", item[2]>>}

MaxNonce == Cardinality(Item) + 1

Extrinsic == [item : Item, nonce : 1 .. MaxNonce, by : Service, attempt : 0 .. MaxRestarts]

\* The items on chain, and lastTxCounter of the DID.
stored == {x.item : x \in executed}
counter == Cardinality(executed)

SetupTypeOK ==
    /\ executed \in SUBSET Extrinsic /\ flight \in SUBSET Extrinsic
    /\ counter <= Cardinality(Item)
    /\ lost \in SUBSET Item
    /\ setup \in [Service ->
          [pc : {"check", "authorize", "submit", "wait", "done", "threw"},
           attempt : 0 .. MaxRestarts,  \* how often it was started again
           item : Item,                 \* the item it ensures now
           nonce : 0 .. MaxNonce,       \* txCounter of its extrinsic
           returned : SUBSET Item,      \* the calls that returned
           inBlock : BOOLEAN,           \* the update that its extrinsic is in a block is sent
           blind : BOOLEAN,             \* history: the check failed
           overtaken : BOOLEAN,         \* history: since the check another extrinsic was executed, or one retracted
           refused : BOOLEAN]]          \* history: the chain refused the extrinsic
    /\ faults \in 0 .. MaxFaults

\* An attempt that has done nothing, or has ended.
Start(pc, attempt) ==
    [pc |-> pc, attempt |-> attempt, item |-> <<"schema", "none">>, nonce |-> 0,
     returned |-> {}, inBlock |-> FALSE, blind |-> FALSE, overtaken |-> FALSE, refused |-> FALSE]

SetupInit ==
    /\ executed = {} /\ lost = {} /\ flight = {}
    /\ setup = [s \in Service |-> Start("check", 0)]
    /\ faults = 0

Fault == faults < MaxFaults /\ faults' = faults + 1

-----------------------------------------------------------------------------
\* The call returned its item, and main goes on to the next one; a registry gets
\* a title with a random part.
GoesOn(s, pc, item) ==
    setup' = [setup EXCEPT ![s] =
        [pc |-> pc, attempt |-> setup[s].attempt, item |-> item, nonce |-> 0,
         returned |-> setup[s].returned \cup {setup[s].item},
         inBlock |-> FALSE, blind |-> FALSE, overtaken |-> FALSE, refused |-> setup[s].refused]]

Returned(s) ==
    \/ setup[s].item[1] = "schema" /\ \E t \in Title : GoesOn(s, "check", <<"registry", t>>)
    \/ setup[s].item[1] = "registry" /\ GoesOn(s, "check", <<"authorization", setup[s].item[2]>>)
    \/ setup[s].item[1] = "authorization" /\ GoesOn(s, "done", setup[s].item)

\* verifyStored, verifyAuthorization: stored items are returned, others created.
Check(s) ==
    /\ setup[s].pc = "check"
    /\ IF setup[s].item \in stored THEN Returned(s)
       ELSE setup' = [setup EXCEPT ![s].pc = "authorize"]
    /\ UNCHANGED <<executed, lost, flight, faults>>

\* The query fails, and the catch block creates the item all the same.
CheckFails(s) ==
    /\ setup[s].pc = "check" /\ Fault
    /\ setup' = [setup EXCEPT ![s].pc = "authorize", ![s].blind = TRUE]
    /\ UNCHANGED <<executed, lost, flight>>

\* Mutant: the nonce is the one on chain, not the next.
Authorize_current(s) ==
    /\ setup[s].pc = "authorize"
    /\ setup' = [setup EXCEPT ![s].pc = "submit", ![s].nonce = counter]
    /\ UNCHANGED <<executed, lost, flight, faults>>

\* authorizeTx: reads the next nonce.
Authorize(s) ==
    /\ setup[s].pc = "authorize"
    /\ setup' = [setup EXCEPT ![s].pc = "submit", ![s].nonce = counter + 1]
    /\ UNCHANGED <<executed, lost, flight, faults>>

Send(s, nonce) ==
    flight' = flight \cup {[item |-> setup[s].item, nonce |-> nonce,
                            by |-> s, attempt |-> setup[s].attempt]}

\* Mutants: the promise of signAndSubmitTx is not awaited; the nonce is increased
\* once more.
Submit_notAwaited(s) ==
    /\ setup[s].pc = "submit"
    /\ Send(s, setup[s].nonce) /\ Returned(s)
    /\ UNCHANGED <<executed, lost, faults>>
Submit_late(s) ==
    /\ setup[s].pc = "submit"
    /\ Send(s, setup[s].nonce + 1)
    /\ setup' = [setup EXCEPT ![s].pc = "wait"]
    /\ UNCHANGED <<executed, lost, faults>>

\* signAndSubmitTx: the extrinsic is sent and awaited.
Submit(s) ==
    /\ setup[s].pc = "submit"
    /\ Send(s, setup[s].nonce)
    /\ setup' = [setup EXCEPT ![s].pc = "wait"]
    /\ UNCHANGED <<executed, lost, faults>>

\* A query or the call of signAndSubmitTx throws, and main ends; what was sent stays
\* sent.
GiveUp(s) ==
    /\ setup[s].pc \in {"authorize", "submit", "wait"} /\ Fault
    /\ setup' = [setup EXCEPT ![s] = Start("threw", @.attempt)]
    /\ UNCHANGED <<executed, lost, flight>>

\* The process is started again; it remembers nothing.
Restart(s) ==
    /\ setup[s].pc = "threw" /\ setup[s].attempt < MaxRestarts
    /\ setup' = [setup EXCEPT ![s] = Start("check", @.attempt + 1)]
    /\ UNCHANGED <<executed, lost, flight, faults>>

SetupStep(s) ==
    Check(s) \/ CheckFails(s) \/ Authorize(s) \/ Submit(s) \/ GiveUp(s) \/ Restart(s)

-----------------------------------------------------------------------------
(* The chain.                                                              *)

\* Between its check and the end of its call.
Creating(s) == setup[s].pc \in {"authorize", "submit", "wait"}

\* Does the service still wait in the call that sent this extrinsic?
Awaits(s, x) ==
    /\ setup[s].pc = "wait"
    /\ x.by = s /\ x.attempt = setup[s].attempt /\ x.item = setup[s].item

Accepts(x) == x.nonce = counter + 1 /\ x.item \notin stored

\* The extrinsic is executed, and the call that awaits it is told.
Include(x) ==
    /\ Accepts(x)
    /\ executed' = executed \cup {x} /\ flight' = flight \ {x}
    /\ lost' = lost \ {x.item}
    /\ setup' = [s \in Service |->
          [setup[s] EXCEPT !.inBlock = @ \/ Awaits(s, x),
                           !.overtaken = @ \/ (Creating(s) /\ ~Awaits(s, x))]]
    /\ UNCHANGED faults

\* The block of the last extrinsic is retracted, and the extrinsic on its way again.
Retract(x) ==
    /\ x.nonce = counter /\ Fault
    /\ executed' = executed \ {x} /\ flight' = flight \cup {x}
    /\ lost' = lost \cup {x.item}
    /\ setup' = [s \in Service |-> [setup[s] EXCEPT !.overtaken = @ \/ Creating(s)]]

\* The update arrives: the call resolves at IS_IN_BLOCK, whatever happened since.
Resolves(s) ==
    /\ setup[s].pc = "wait" /\ setup[s].inBlock
    /\ Returned(s)
    /\ UNCHANGED <<executed, lost, flight, faults>>

\* The extrinsic is refused, in the pool or in a block: the call that awaits it
\* throws, unless it was told before that the extrinsic is in a block.
RefuseExtrinsic(x) ==
    /\ ~Accepts(x)
    /\ flight' = flight \ {x}
    /\ setup' = [s \in Service |->
          IF Awaits(s, x) /\ ~setup[s].inBlock
          THEN [setup[s] EXCEPT !.pc = "threw", !.refused = TRUE] ELSE setup[s]]
    /\ UNCHANGED <<executed, lost, faults>>

SetupNext ==
    \/ \E s \in Service : SetupStep(s) \/ Resolves(s)
    \/ \E x \in flight : Include(x) \/ RefuseExtrinsic(x)
    \/ \E x \in executed : Retract(x)

SetupSpec == SetupInit /\ [][SetupNext]_setupVars

-----------------------------------------------------------------------------
(* What the setup promises.                                                *)

knownOf == [s \in Service |-> setup[s].returned]

Promise == INSTANCE Provisioning WITH
    Needs <- [item \in Item |-> Base(item)], known <- knownOf

-----------------------------------------------------------------------------
(* Properties.                                                             *)

\* Whatever services fail, race and start again, and whatever blocks are retracted:
\* no item comes on chain twice, or before what it refers to was there; and each
\* service is told in order of items that are there.  Only what a retraction took
\* away may be missing.
ProvisionsInOrder == Promise!Spec

\* A creation is refused only if the check before it failed, or if since then
\* another extrinsic of the DID was executed (of another service, or of an earlier
\* call of this one that gave up) or a block was retracted.
RefusedForCause ==
    \A s \in Service : setup[s].refused => setup[s].blind \/ setup[s].overtaken
=============================================================================
