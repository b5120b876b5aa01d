----------------------------- MODULE DidResolver -----------------------------
(***************************************************************************)
(* did/src/DidResolver/DidResolver.ts: resolve, resolveCompliant,          *)
(* resolveKey and resolveService of one DID, while its owner creates it,   *)
(* changes its keys and deletes it.                                        *)
(*                                                                         *)
(* resolve reads the chain twice, first the document, then (if there was   *)
(* none) the blacklist; the DID may change between the two reads.  A       *)
(* failure of the first read is swallowed, one of the second is thrown.    *)
(*                                                                         *)
(* A document is abstracted to the resources it contains (keys and         *)
(* services) and to those listed under the verification relationship that  *)
(* a caller may ask for.  The chain is external.                           *)
(***************************************************************************)
EXTENDS Integers, FiniteSets

CONSTANTS
    Caller,         \* calls of the resolver
    Resource,       \* ids of keys and services
    MaxChanges      \* bound: changes of the DID

ASSUME DidResolverAssumption == MaxChanges \in Nat

Kind == {"resolve", "resolveCompliant", "resolveKey", "resolveService"}

\* A document, and the state of a DID on chain.
Document == {d \in [has : SUBSET Resource, listed : SUBSET Resource] : d.listed \subseteq d.has}
NoDocument == [has |-> {}, listed |-> {}]
Present(d) == [status |-> "present", document |-> d]
Absent  == [status |-> "absent", document |-> NoDocument]
Deleted == [status |-> "deleted", document |-> NoDocument]
State == {Absent, Deleted} \cup {Present(d) : d \in Document}

\* What a caller is told, a result or the error thrown or reported: in all, and
\* by each entry point.
Outcome == {"none", "document", "deactivated", "unregistered", "resource",
            "invalidDid", "DidError", "DidNotFoundError", "DidDeactivatedError",
            "BlockchainApiMissingError", "UnsupportedVersion", "TypeError", "RpcError"}
Told(kind) ==
    {"none", "BlockchainApiMissingError", "UnsupportedVersion", "TypeError", "RpcError"} \cup
    (IF kind \in {"resolveKey", "resolveService"}
     THEN {"resource", "DidError", "DidNotFoundError", "DidDeactivatedError"}
     ELSE {"document", "deactivated", "unregistered",
           IF kind = "resolve" THEN "DidError" ELSE "invalidDid"})
Answer == [outcome : Outcome, document : Document]
NoAnswer == [outcome |-> "none", document |-> NoDocument]
Tell(outcome) == [outcome |-> outcome, document |-> NoDocument]

VARIABLES
    chain,          \* the DID on chain
    changes,        \* what MaxChanges bounds
    api,            \* the api that is set, and the runtime API did.query behind it
    want,           \* what each caller asks for
    pc,             \* where each call is
    answer,         \* what each caller was told
    during,         \* history: states of the DID during the call
    after,          \* history: calls answered before this one started
    failed          \* history: calls whose first query failed

callVars == <<want, pc, answer>>
vars == <<chain, changes, api, callVars, during, after, failed>>

Want == [kind : Kind, valid : BOOLEAN, id : Resource, expected : BOOLEAN]

Api == {"missing", "noQuery", "supported", "newer"}

TypeOK ==
    /\ chain \in State
    /\ changes \in Nat
    /\ api \in Api
    /\ want \in [Caller -> Want]
    /\ pc \in [Caller -> {"idle", "document", "blacklist", "done"}]
    /\ answer \in [Caller -> Answer]
    /\ \A r \in Caller : answer[r].outcome \in Told(want[r].kind)
    /\ during \in [Caller -> SUBSET State]
    /\ after \in [Caller -> SUBSET Caller]
    /\ failed \in SUBSET Caller

Init ==
    /\ chain \in State
    /\ changes = 0
    /\ api \in Api
    /\ want \in [Caller -> Want]
    /\ pc = [r \in Caller |-> "idle"]
    /\ answer = [r \in Caller |-> NoAnswer]
    /\ during = [r \in Caller |-> {}]
    /\ after = [r \in Caller |-> {}]
    /\ failed = {}

-----------------------------------------------------------------------------
(* What each entry point makes of the result of resolve.                   *)

\* Mutant: the expected relationship is not checked.
FromDocument_anyKey(w, d) ==
    IF w.kind \in {"resolve", "resolveCompliant"} THEN [outcome |-> "document", document |-> d]
    ELSE IF w.id \notin d.has THEN Tell("DidNotFoundError")
    ELSE [outcome |-> "resource", document |-> d]

\* resolve returned document d: resolveKey and resolveService look into it.
FromDocument(w, d) ==
    IF w.kind \in {"resolve", "resolveCompliant"} THEN [outcome |-> "document", document |-> d]
    ELSE IF w.id \notin d.has THEN Tell("DidNotFoundError")
    ELSE IF w.kind = "resolveKey" /\ w.expected /\ w.id \notin d.listed THEN Tell("DidError")
    ELSE [outcome |-> "resource", document |-> d]

\* resolve returned no document: its metadata tell only who calls it directly.
WithoutDocument(w, deactivated) ==
    IF w.kind \in {"resolve", "resolveCompliant"}
    THEN Tell(IF deactivated THEN "deactivated" ELSE "unregistered")
    ELSE Tell("DidDeactivatedError")

\* An id that is not a DID, or not a resource of one; resolve notices only when
\* it builds the query, after the version check.
Malformed(w) ==
    Tell(IF w.kind = "resolveCompliant" THEN "invalidDid" ELSE "DidError")

Finish(r, a) ==
    /\ pc' = [pc EXCEPT ![r] = "done"]
    /\ answer' = [answer EXCEPT ![r] = a]

-----------------------------------------------------------------------------
(* The callers.                                                            *)

\* Up to the first query; a runtime without it is noticed only when it is called.
Start(r) ==
    /\ pc[r] = "idle"
    /\ IF ~want[r].valid /\ want[r].kind # "resolve" THEN Finish(r, Malformed(want[r]))
       ELSE IF api = "missing" THEN Finish(r, Tell("BlockchainApiMissingError"))
       ELSE IF api = "newer" THEN Finish(r, Tell("UnsupportedVersion"))
       ELSE IF ~want[r].valid THEN Finish(r, Malformed(want[r]))
       ELSE IF api = "noQuery" THEN Finish(r, Tell("TypeError"))
       ELSE pc' = [pc EXCEPT ![r] = "document"] /\ UNCHANGED answer
    /\ during' = [during EXCEPT ![r] = {chain}]
    /\ after' = [after EXCEPT ![r] = {q \in Caller : pc[q] = "done"}]
    /\ UNCHANGED <<chain, changes, api, want, failed>>

\* await queryFunction(...).then(linkedInfoFromChain)
ReadDocument(r) ==
    /\ pc[r] = "document"
    /\ IF chain.status = "present"
       THEN Finish(r, FromDocument(want[r], chain.document))
       ELSE pc' = [pc EXCEPT ![r] = "blacklist"] /\ UNCHANGED answer
    /\ UNCHANGED <<chain, changes, api, want, during, after, failed>>

\* .catch(() => ({document: undefined, didName: undefined}))
ReadDocumentFails(r) ==
    /\ pc[r] = "document"
    /\ pc' = [pc EXCEPT ![r] = "blacklist"]
    /\ failed' = failed \cup {r}
    /\ UNCHANGED <<chain, changes, api, want, answer, during, after>>

\* Mutant: the blacklist is not asked.
ReadBlacklist_skipped(r) ==
    /\ pc[r] = "blacklist"
    /\ Finish(r, WithoutDocument(want[r], FALSE))
    /\ UNCHANGED <<chain, changes, api, want, during, after, failed>>

\* (await api.query.did.didBlacklist(...)).isSome
ReadBlacklist(r) ==
    /\ pc[r] = "blacklist"
    /\ Finish(r, WithoutDocument(want[r], chain.status = "deleted"))
    /\ UNCHANGED <<chain, changes, api, want, during, after, failed>>

\* Mutant: this failure is swallowed like that of the first read.
ReadBlacklistFails_swallowed(r) ==
    /\ pc[r] = "blacklist"
    /\ Finish(r, WithoutDocument(want[r], FALSE))
    /\ UNCHANGED <<chain, changes, api, want, during, after, failed>>

ReadBlacklistFails(r) ==
    /\ pc[r] = "blacklist"
    /\ Finish(r, Tell("RpcError"))
    /\ UNCHANGED <<chain, changes, api, want, during, after, failed>>

-----------------------------------------------------------------------------
(* The DID on chain: a deleted one can never be created again.             *)

Change(next) ==
    /\ changes < MaxChanges
    /\ changes' = changes + 1
    /\ chain' = next
    /\ during' = [r \in Caller |-> IF pc[r] \in {"document", "blacklist"}
                                   THEN during[r] \cup {next} ELSE during[r]]
    /\ UNCHANGED <<api, callVars, after, failed>>

Create == chain = Absent /\ \E d \in Document : Change(Present(d))

Update ==
    /\ chain.status = "present"
    /\ \E d \in Document \ {chain.document} : Change(Present(d))

Delete == chain.status = "present" /\ Change(Deleted)

Next ==
    \/ \E r \in Caller : \/ Start(r)
                         \/ ReadDocument(r) \/ ReadDocumentFails(r)
                         \/ ReadBlacklist(r) \/ ReadBlacklistFails(r)
    \/ Create \/ Update \/ Delete

Spec == Init /\ [][Next]_vars

-----------------------------------------------------------------------------
(* Properties.                                                             *)

\* What a caller is told about an existing DID was true at one moment of its
\* call: the document, the resource under the expected relationship, or the
\* deletion in the metadata of resolve.  Failed queries and changes between the
\* reads never mix states.
PositiveAnswersWereTrue ==
    \A r \in Caller :
        /\ answer[r].outcome = "document" => Present(answer[r].document) \in during[r]
        /\ answer[r].outcome = "deactivated" => Deleted \in during[r]
        /\ answer[r].outcome = "resource" =>
              \E d \in Document :
                  /\ Present(d) \in during[r]
                  /\ want[r].id \in d.has
                  /\ want[r].kind = "resolveKey" /\ want[r].expected => want[r].id \in d.listed

\* If its first query does not fail, a DID said to be unregistered did not exist at
\* one moment of the call, and one for which resolveKey or resolveService throws
\* DidDeactivatedError did not exist, or was deleted: the two reads together never
\* miss a DID that is there, or was deleted in between.
UnregisteredWasAbsent ==
    \A r \in Caller : r \notin failed =>
        /\ answer[r].outcome = "unregistered" => Absent \in during[r]
        /\ answer[r].outcome = "DidDeactivatedError" => {Absent, Deleted} \cap during[r] # {}

\* Once a caller was told that the DID is deactivated, no call that starts
\* later gets a document or a resource, or is told that it was never registered.
DeactivationIsFinal ==
    \A q, r \in Caller :
        q \in after[r] /\ answer[q].outcome = "deactivated" =>
            answer[r].outcome \notin {"document", "resource", "unregistered"}

\* "If a DID is invalid or has not been registered, this is indicated by the
\* error property": while a DID is not registered, and no query fails,
\* resolveCompliant does not answer without the error.
UnregisteredIsReported ==
    \A r \in Caller :
        want[r].kind = "resolveCompliant" /\ during[r] = {Absent} /\ r \notin failed =>
            answer[r].outcome # "unregistered"
==============================================================================
