------------------------------- MODULE DidKeys -------------------------------
(***************************************************************************)
(* The keys of DIDs as other components see them: resolveKey of            *)
(* did/src/DidResolver/DidResolver.ts answers from the DID's present       *)
(* document, and the owners change that document at any time.              *)
(*                                                                         *)
(* External: the pallet did, which lets an owner replace the one           *)
(* authentication key, add and remove key agreement keys, and delete the   *)
(* DID for good (augment-api/src/interfaces/augment-api-tx.ts).  A key     *)
(* that was replaced or removed can be set or added again.  That resolve   *)
(* answers truly, in two reads, is the subject of DidResolver.             *)
(***************************************************************************)
EXTENDS Integers, FiniteSets

CONSTANTS
    Did,            \* the DIDs
    MaxKeyChanges   \* bound: changes of keys

ASSUME KeysAssumption == MaxKeyChanges \in Nat

VARIABLES
    authentication, \* the number of each DID's authentication key
    agreement,      \* the numbers of its keyAgreement keys
    changes,        \* how often it has added or removed one
    deactivated,    \* the DIDs deleted from the chain
    keyChanges      \* changes so far

keyVars == <<authentication, agreement, changes, deactivated, keyChanges>>

KeyNumber == 0 .. MaxKeyChanges
NoKey == -1         \* the id of a key that a document does not have
Key == [did : Did, number : KeyNumber \cup {NoKey}]
KeyOf(d, n) == [did |-> d, number |-> n]

KeysTypeOK ==
    /\ authentication \in [Did -> KeyNumber]
    /\ agreement \in [Did -> SUBSET KeyNumber]
    /\ changes \in [Did -> KeyNumber]
    /\ deactivated \in SUBSET Did
    /\ keyChanges \in KeyNumber
    /\ \A d \in Did : changes[d] <= keyChanges /\ \A n \in agreement[d] : n <= changes[d]

KeysInit ==
    /\ authentication = [d \in Did |-> 0]
    /\ agreement = [d \in Did |-> {0}]
    /\ changes = [d \in Did |-> 0]
    /\ deactivated = {}
    /\ keyChanges = 0

\* resolveKey with an expected relationship: the DID is not deleted, and its
\* document has the key under that relationship now.
resolveKey(key, relationship) ==
    /\ key.did \notin deactivated
    /\ CASE relationship = "authentication" -> key.number = authentication[key.did]
         [] relationship = "keyAgreement" -> key.number \in agreement[key.did]

ChangesKeys(d) ==
    /\ d \notin deactivated
    /\ keyChanges < MaxKeyChanges
    /\ keyChanges' = keyChanges + 1

\* pallet did: set_authentication_key, to a new key or to one it had before.
SetAuthenticationKey(d, n) ==
    /\ ChangesKeys(d)
    /\ n # authentication[d]
    /\ authentication' = [authentication EXCEPT ![d] = n]
    /\ UNCHANGED <<agreement, changes, deactivated>>

ChangesAgreement(d, numbers) ==
    /\ ChangesKeys(d)
    /\ agreement' = [agreement EXCEPT ![d] = numbers]
    /\ changes' = [changes EXCEPT ![d] = @ + 1]
    /\ UNCHANGED <<authentication, deactivated>>

\* The agreement keys that the owner of a DID may have made so far.
KeyPairs(d) == 0 .. changes[d]

\* pallet did: add_key_agreement_key, a new key or one that was removed.
AddKeyAgreementKey(d) ==
    \E n \in (KeyPairs(d) \cup {changes[d] + 1}) \ agreement[d] :
        ChangesAgreement(d, agreement[d] \cup {n})

\* pallet did: remove_key_agreement_key.
RemoveKeyAgreementKey(d) ==
    \E n \in agreement[d] : ChangesAgreement(d, agreement[d] \ {n})

\* pallet did: delete.
Delete(d) ==
    /\ ChangesKeys(d)
    /\ deactivated' = deactivated \cup {d}
    /\ UNCHANGED <<authentication, agreement, changes>>

=============================================================================
