------------------------------ MODULE Messaging ------------------------------
(***************************************************************************)
(* Encrypted messages between DIDs: encrypt and decrypt of                 *)
(* messaging/src/Message.ts, and encryptMessage of the demo, which chooses *)
(* the keys.                                                               *)
(*                                                                         *)
(* Both sides resolve keys from the chain at moments of their own, while   *)
(* the owners add and remove key agreement keys.  A message that was sent  *)
(* stays in the network: it may be lost (never read), read twice, or read  *)
(* late.  The box of nacl opens with the public key it was sealed with and *)
(* the secret key it was sealed for, and with no others.                   *)
(***************************************************************************)
EXTENDS DidKeys

CONSTANTS
    Letter,         \* calls of encryptMessage
    Reader,         \* those who read messages, one after the other
    Body            \* message bodies

VARIABLES
    letter,         \* the calls of encryptMessage
    network,        \* the messages sent
    reading         \* the call of decrypt each reader is in

messagingVars == <<letter, network, reading>>

Message == [body : Body, sender : Did, receiver : Did]
Sealed == [message : Message,
           sealedBy : Key,          \* the key pair it was sealed with
           senderKey : Key,         \* senderKeyUri
           receiverKey :            \* receiverKeyUri, the key it was sealed for
               [did : Did, number : KeyNumber]]

Idle == [pc |-> "idle"]

MessagingTypeOK ==
    /\ \A l \in Letter :
          \/ letter[l] = Idle
          \/ letter[l] \in [pc : {"senderDocument", "receiverDocument", "encrypt", "sent", "failed"},
                            message : Message, keypair : Key, senderKey : Key, receiverKey : Key]
    /\ network \in SUBSET Sealed
    /\ \A r \in Reader :
          \/ reading[r] = Idle
          \/ reading[r] \in [pc : {"resolving", "read", "unreadable", "threw", "rejected"},
                             sealed : Sealed, keypair : Key]

MessagingInit ==
    /\ letter = [l \in Letter |-> Idle]
    /\ network = {}
    /\ reading = [r \in Reader |-> Idle]

-----------------------------------------------------------------------------
(* encryptMessage of the demo, and encrypt.                                *)

\* The application builds the message and calls encryptMessage with two DIDs,
\* which need not be those of the message, and a key pair of the first one's owner.
Compose(l, message, senderUri, receiverUri) ==
    /\ letter[l] = Idle
    /\ \E n \in KeyPairs(senderUri) :
          letter' = [letter EXCEPT ![l] =
              [pc |-> "senderDocument", message |-> message, keypair |-> KeyOf(senderUri, n),
               senderKey |-> KeyOf(senderUri, NoKey), receiverKey |-> KeyOf(receiverUri, NoKey)]]
    /\ UNCHANGED <<network, reading>>

\* keyAgreement?.[0].id of a resolved document, in whatever order the chain lists
\* the keys; a deleted DID has no document.
FirstKey(d, n) ==
    /\ d \notin deactivated
    /\ IF agreement[d] = {} THEN n = NoKey ELSE n \in agreement[d]

\* await Did.resolve(senderUri).
ResolveSender(l) ==
    /\ letter[l].pc = "senderDocument"
    /\ \E n \in KeyNumber \cup {NoKey} :
          /\ FirstKey(letter[l].senderKey.did, n)
          /\ letter' = [letter EXCEPT ![l].pc = "receiverDocument", ![l].senderKey.number = n]
    /\ UNCHANGED <<network, reading>>

\* await Did.resolve(receiverUri).
ResolveReceiver(l) ==
    /\ letter[l].pc = "receiverDocument"
    /\ \E n \in KeyNumber \cup {NoKey} :
          /\ FirstKey(letter[l].receiverKey.did, n)
          /\ letter' = [letter EXCEPT ![l].pc = "encrypt", ![l].receiverKey.number = n]
    /\ UNCHANGED <<network, reading>>

\* Mutant: the key found in the receiver's document is taken as it is.
MayEncrypt_unresolved(l) == letter[l].message.receiver = letter[l].receiverKey.did

\* The key found in the receiver's document is resolved again, and must be the
\* receiver's.
MayEncrypt(l) ==
    /\ resolveKey(letter[l].receiverKey, "keyAgreement")
    /\ letter[l].message.receiver = letter[l].receiverKey.did

\* encrypt: the callback seals with the caller's key pair, and names the key that
\* was found in the sender's document.
encrypt(l) ==
    /\ letter[l].pc = "encrypt"
    /\ MayEncrypt(l)
    /\ network' = network \cup {[message |-> letter[l].message,
                                 sealedBy |-> letter[l].keypair,
                                 senderKey |-> letter[l].senderKey,
                                 receiverKey |-> letter[l].receiverKey]}
    /\ letter' = [letter EXCEPT ![l].pc = "sent"]
    /\ UNCHANGED reading

\* A check or a query fails, or a document is missing.
EncryptThrows(l) ==
    /\ letter[l].pc \in {"senderDocument", "receiverDocument", "encrypt"}
    /\ letter' = [letter EXCEPT ![l].pc = "failed"]
    /\ UNCHANGED <<network, reading>>

-----------------------------------------------------------------------------
(* decrypt.                                                                *)

\* The application of DID d calls Message.decrypt, with one of its owner's key pairs.
Read(r, d, sealed) ==
    /\ reading[r].pc \in {"idle", "unreadable", "threw", "rejected"}
    /\ \E n \in KeyPairs(d) :
          reading' = [reading EXCEPT ![r] =
              [pc |-> "resolving", sealed |-> sealed, keypair |-> KeyOf(d, n)]]
    /\ UNCHANGED <<letter, network>>

\* The box opens: the key that senderKeyUri resolves to is the one it was sealed
\* with, and the reader has the key it was sealed for.
Opens(sealed, keypair) ==
    /\ resolveKey(sealed.senderKey, "keyAgreement")
    /\ sealed.senderKey = sealed.sealedBy
    /\ keypair = sealed.receiverKey

\* Mutant: the sender is not compared with the controller of the key.
Deciphers_anySender(sealed, keypair) == Opens(sealed, keypair)

\* Mutant: the sender is compared with the controller of the receiver's key.
Deciphers_receiver(sealed, keypair) ==
    Opens(sealed, keypair) /\ sealed.message.sender = sealed.receiverKey.did

\* decrypt returns the message: its sender controls the key.
Deciphers(sealed, keypair) ==
    /\ Opens(sealed, keypair)
    /\ sealed.message.sender = sealed.senderKey.did

\* After `await resolveKey(senderKeyUri, 'keyAgreement')`.
decrypt(r) ==
    /\ reading[r].pc = "resolving"
    /\ reading' = [reading EXCEPT ![r].pc =
          IF Deciphers(reading[r].sealed, reading[r].keypair) THEN "read" ELSE "unreadable"]
    /\ UNCHANGED <<letter, network>>

\* The query fails.
DecryptThrows(r) ==
    /\ reading[r].pc = "resolving"
    /\ reading' = [reading EXCEPT ![r].pc = "threw"]
    /\ UNCHANGED <<letter, network>>
==============================================================================
