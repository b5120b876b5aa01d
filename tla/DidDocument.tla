---------------------------- MODULE DidDocument ----------------------------
(***************************************************************************)
(* DID documents on their way to the chain and back: getStoreTx and        *)
(* documentFromChain of did/src/Did.chain.ts (documentFromChain of         *)
(* did/src/Did.rpc.ts is the same), and the export of                      *)
(* did/src/DidDocumentExporter/DidDocumentExporter.ts.                     *)
(*                                                                         *)
(* A key is its id, which is the hash of its type and material.  A missing *)
(* relationship is an empty list.  Services are counted by getStoreTx and  *)
(* left out of the rest: they are read by a query of their own.            *)
(*                                                                         *)
(* External: the pallet did, which stores the keys of a creation, those of *)
(* keyAgreement as a set.                                                  *)
(***************************************************************************)
EXTENDS Naturals, FiniteSets, Sequences, SequencesExt

CONSTANTS
    maxNewKeyAgreementKeys,     \* api.consts.did
    maxNumberOfServicesPerDid

Throws == [throws |-> TRUE]
Missing == 0        \* no key: the ids of keys are positive

\* A set of numbers as an increasing list.
InOrder(set) ==
    [n \in 1 .. Cardinality(set) |->
        CHOOSE k \in set : Cardinality({j \in set : j <= k}) = n]

-----------------------------------------------------------------------------
(* To the chain.                                                           *)

\* More keys than the chain can store.
TooManyKeys(input) ==
    \/ Len(input.assertionMethod) > 1
    \/ Len(input.capabilityDelegation) > 1
    \/ Len(input.keyAgreement) > maxNewKeyAgreementKeys

Option(keys) == IF keys = <<>> THEN {} ELSE {Head(keys)}

\* getStoreTx, up to the signature: what the creation contains.
getStoreTx(input) ==
    IF \/ input.authentication = <<>>
       \/ TooManyKeys(input)
       \/ Len(input.service) > maxNumberOfServicesPerDid
    THEN Throws
    ELSE [authenticationKey |-> Head(input.authentication),
          newAssertionKey |-> Option(input.assertionMethod),
          newDelegationKey |-> Option(input.capabilityDelegation),
          newKeyAgreementKeys |-> input.keyAgreement,
          newServiceDetails |-> input.service]

\* pallet did: create, and how the stored DID is read.
create(creation) ==
    LET agreement == ToSet(creation.newKeyAgreementKeys) IN
    [publicKeys |-> {creation.authenticationKey} \cup creation.newAssertionKey
                        \cup creation.newDelegationKey \cup agreement,
     authenticationKey |-> creation.authenticationKey,
     assertionKey |-> creation.newAssertionKey,
     delegationKey |-> creation.newDelegationKey,
     keyAgreementKeys |-> InOrder(agreement)]

-----------------------------------------------------------------------------
(* From the chain, and the export.                                         *)

\* Mutant: the delegation key is read where the assertion key is.
documentFromChain_delegation(encoded) ==
    [authentication |-> <<encoded.authenticationKey>>,
     assertionMethod |-> SetToSeq(encoded.delegationKey),
     capabilityDelegation |-> SetToSeq(encoded.delegationKey),
     keyAgreement |-> encoded.keyAgreementKeys]

\* Each relationship, with the keys found under their ids among the public keys.
documentFromChain(encoded) ==
    LET Found(id) == IF id \in encoded.publicKeys THEN id ELSE Missing
        keys(ids) == [i \in DOMAIN ids |-> Found(ids[i])] IN
    [authentication |-> keys(<<encoded.authenticationKey>>),
     assertionMethod |-> keys(SetToSeq(encoded.assertionKey)),
     capabilityDelegation |-> keys(SetToSeq(encoded.delegationKey)),
     keyAgreement |-> keys(encoded.keyAgreementKeys)]

\* getKeys of DidDetails.ts.
getKeys(did) ==
    did.authentication \o did.assertionMethod \o did.capabilityDelegation \o did.keyAgreement

\* The filter that removes duplicates: the first of each id stays.
Distinct(ids) ==
    LET first == {i \in DOMAIN ids : \A j \in 1 .. i - 1 : ids[j] # ids[i]}
    IN  [n \in 1 .. Cardinality(first) |-> ids[InOrder(first)[n]]]

First(keys) == IF keys = <<>> THEN {} ELSE {Head(keys)}

\* exportToJsonDidDocument: a relationship lists its first key only.
exportToJsonDidDocument(did) ==
    [verificationMethod |-> Distinct(getKeys(did)),
     authentication |-> First(did.authentication),
     assertionMethod |-> First(did.assertionMethod),
     capabilityDelegation |-> First(did.capabilityDelegation),
     keyAgreement |-> First(did.keyAgreement)]
=============================================================================
