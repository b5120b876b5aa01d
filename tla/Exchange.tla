------------------------------ MODULE Exchange ------------------------------
(***************************************************************************)
(* The exchange the demo runs: a document is issued and anchored, its      *)
(* holder presents it to a verifier in an encrypted message, and the       *)
(* verifier decrypts the message, checks its owner and verifies the        *)
(* presentation.  Composes Credential and Messaging over one set of keys:  *)
(* the bodies of messages are presentations, the readers are the           *)
(* verification sessions (verify and ensureOwnerIsSender of                *)
(* messaging/src/Message.ts, src/demo/src/demo.ts).                        *)
(***************************************************************************)
EXTENDS Credential, Messaging

CONSTANTS
    Verifier,   \* the DID of the verifier
    Addressing, \* who a message is from, and which DIDs encryptMessage is given
    Requests,   \* what a verifier asks for: a challenge?, which trusted issuers
    SigningKey  \* the authentication keys that issuers and holders sign with

ASSUME VerifierAssumption == Verifier \in Did
ASSUME InputsAssumption ==
    /\ Addressing \subseteq [sender : Did, senderUri : Did, receiverUri : Did]
    /\ Requests \subseteq [asks : BOOLEAN, trusted : SUBSET Issuer]
    /\ SigningKey \subseteq [did : Did, number : KeyNumber]
ASSUME CompositionAssumption == Body = Presentation /\ Reader = Session

vars == <<keyVars, credentialVars, messagingVars>>

TypeOK == KeysTypeOK /\ CredentialTypeOK /\ MessagingTypeOK

Init == KeysInit /\ CredentialInit /\ MessagingInit

-----------------------------------------------------------------------------
(* Where the two components meet.                                          *)

\* fromBody and encryptMessage: the message is addressed to the verifier, and is
\* the holder's or somebody else's who has the presentation.
Send(l, p, address) ==
    /\ presentation[p].made
    /\ Compose(l, [body |-> p, sender |-> address.sender, receiver |-> Verifier],
               address.senderUri, address.receiverUri)
    /\ UNCHANGED <<keyVars, credentialVars>>

\* A verifier in an open session reads a message from the network.
Receive(s, sealed) ==
    /\ session[s].pc = "open"
    /\ Read(s, Verifier, sealed)
    /\ UNCHANGED <<keyVars, credentialVars>>

\* Mutant: the sender is not compared with the holder.
OwnerIsSender_any(message) == TRUE

\* ensureOwnerIsSender, for a message that submits a presentation.
OwnerIsSender(message) == presentation[message.body].data.content.holder = message.sender

\* verify of a message that decrypt returned, then the presentation in it.
VerifyMessage(s) ==
    LET message == reading[s].sealed.message IN
    /\ reading[s].pc = "read"
    /\ OwnerIsSender(message)
    /\ Verify(s, message.body)
    /\ UNCHANGED <<keyVars, messagingVars>>

RejectMessage(s) ==
    /\ reading[s].pc = "read" /\ session[s].pc = "open"
    /\ ~OwnerIsSender(reading[s].sealed.message)
    /\ reading' = [reading EXCEPT ![s].pc = "rejected"]
    /\ UNCHANGED <<keyVars, credentialVars, letter, network>>

-----------------------------------------------------------------------------
IssuerNext ==
    \E d \in Document :
        \/ \E i \in Issuer, c \in Contents, evidence \in Attachments, n \in KeyNumber :
              KeyOf(i, n) \in SigningKey /\ FromContent(d, i, c, evidence, n)
        \/ CreateStream(d)
        \/ \E shouldRemove \in BOOLEAN : RevokeCredential(d, shouldRemove)
        \/ RestoreStream(d)

\* The holder answers the challenge of a session that asks for one, or none.
Asked == {s \in Session : session[s].pc = "open" /\ session[s].asks} \cup {NoChallenge}

HolderNext ==
    \E p \in Presentation, challenge \in Asked, n \in {k \in KeyNumber : KeyOf(Holder, k) \in SigningKey} :
        \/ \E d \in Document : document[d].made /\
              \E selected \in SUBSET AttributesOf(d) : PresentDocument(p, d, selected, challenge, n)
        \/ \E q \in Presentation : presentation[q].made /\
              \E selected \in SUBSET AttributesOf(presentation[q].of) :
                  PresentAgain(p, q, selected, challenge, n)

VerifierNext ==
    \E s \in Session :
        \/ \E request \in Requests : OpenSession(s, request.asks, request.trusted)
        \/ CheckHolder(s) \/ CheckIssuer(s) \/ CheckStream(s) \/ QueryFails(s)

LetterNext ==
    \E l \in Letter : ResolveSender(l) \/ ResolveReceiver(l) \/ encrypt(l) \/ EncryptThrows(l)

ReadNext == \E s \in Session : decrypt(s) \/ DecryptThrows(s)

Next ==
    \/ \E d \in Did : ChangeKeys(d) /\ UNCHANGED messagingVars
    \/ IssuerNext /\ UNCHANGED <<keyVars, messagingVars>>
    \/ HolderNext /\ UNCHANGED <<keyVars, messagingVars>>
    \/ VerifierNext /\ UNCHANGED <<keyVars, messagingVars>>
    \/ LetterNext /\ UNCHANGED <<keyVars, credentialVars>>
    \/ ReadNext /\ UNCHANGED <<keyVars, credentialVars>>
    \/ \E l \in Letter, p \in Presentation, address \in Addressing : Send(l, p, address)
    \/ \E s \in Session, sealed \in network : Receive(s, sealed)
    \/ \E s \in Session : VerifyMessage(s) \/ RejectMessage(s)

Spec == Init /\ [][Next]_vars

-----------------------------------------------------------------------------
(* The exchange implements a verification at one moment.                   *)

Made == {p \in Presentation : presentation[p].made}

claimOf ==
    [p \in Presentation |->
        IF p \notin Made THEN "unmade"
        ELSE IF /\ HolderSigned(p) /\ IssuerSigned(p)
                /\ stream[presentation[p].of] \notin {"revoked", "removed"}
             THEN "holds" ELSE "void"]

\* The presentations that the network holds as messages of the holder.
shownOf ==
    {p \in Presentation :
        \E m \in network : /\ m.message.body = p /\ m.message.sender = Holder
                           /\ m.sealedBy.did = Holder /\ m.receiverKey.did = Verifier}

answersOf ==
    {a \in Session \X Made :
        /\ session[a[1]].pc # "idle"
        /\ session[a[1]].asks => presentation[a[2]].challenge = a[1]
        /\ document[presentation[a[2]].of].issuer \in session[a[1]].trusted}

VerdictOf(v) ==
    CASE v.pc \in {"idle", "open"} -> "none"
      [] v.pc = "holderKey" -> "checking"
      [] v.pc \in {"issuerKey", "stream"} -> IF v.wasValid THEN "found" ELSE "checking"
      [] v.pc = "accepted" -> "accepted"
      [] v.pc = "refused" -> IF v.cause THEN "refused" ELSE "unknown"

verdictOf == [s \in Session |-> VerdictOf(session[s])]
aboutOf == [s \in Session |-> session[s].checks]
doubtOf == {s \in Session : session[s].restored}

Atomic == INSTANCE AtomicVerification WITH
    Claim <- Presentation, NoClaim <- NoChallenge,
    claim <- claimOf, shown <- shownOf, answers <- answersOf,
    verdict <- verdictOf, about <- aboutOf, doubt <- doubtOf

-----------------------------------------------------------------------------
(* Properties.                                                             *)

\* The verdict of a verification, reached over three awaits while keys change and
\* streams are withdrawn, is one that a check at a single moment could have given,
\* and is about a presentation that the holder sent to the verifier.
VerifiesAsAtOneMoment == Atomic!Spec

\* Every presentation, also one made from a presentation, keeps its integrity.
PresentationsVerify ==
    \A p \in Presentation : presentation[p].made => verifyDataIntegrity(presentation[p].data)

\* A presentation holds nothing about an attribute that was not selected at every
\* stage: neither its value nor its nonce, without which the hash tells nothing.
DisclosesOnlySelected ==
    \A p \in Presentation : presentation[p].made =>
        LET data == presentation[p].data IN
        /\ DOMAIN data.content.contents = presentation[p].shown
        /\ \A s \in DOMAIN data.contentNonceMap :
              s.schema # NoSchema => s.key \in presentation[p].shown

\* A verification reads three things one after the other.  What it accepts was
\* valid at one moment of the verification: the holder's and the issuer's
\* signatures verified, and the stream was not withdrawn; unless meanwhile a stream
\* was restored or the key of a signature set again.
AcceptedWasValid ==
    \A s \in Session : session[s].pc = "accepted" /\ ~session[s].restored => session[s].wasValid

\* A presentation that a check refused is in fact not good, and stays so until a stream
\* is restored or a key set again: somebody changed or deleted a key, or signed with
\* one that is not the DID's; the stream was withdrawn; or the verifier asked for
\* something else.
RefusedForCause ==
    \A s \in Session : session[s].pc = "refused" /\ session[s].cause =>
        LET p == session[s].checks IN
        \/ ~HolderSigned(p) \/ ~IssuerSigned(p)
        \/ stream[presentation[p].of] \in {"revoked", "removed"} \/ session[s].restored
        \/ session[s].asks /\ presentation[p].challenge # s
        \/ document[presentation[p].of].issuer \notin session[s].trusted

\* A presentation that was accepted came from its holder: the message was sealed
\* for the verifier with a key of the holder, and answers the session's challenge.
AcceptedCameFromHolder ==
    \A s \in Session : session[s].pc = "accepted" =>
        LET sealed == reading[s].sealed  p == session[s].checks IN
        /\ sealed.message.body = p
        /\ sealed.sealedBy.did = Holder /\ presentation[p].holderSignature.key.did = Holder
        /\ session[s].asks => presentation[p].holderSignature.over[2] = s

\* A message that its reader cannot decrypt has a cause: keys of one side were
\* added, removed or deleted, or the message was sent in another DID's name.
UnreadableForCause ==
    \A s \in Session : reading[s].pc = "unreadable" =>
        LET sealed == reading[s].sealed IN
        \/ sealed.message.sender # sealed.senderKey.did
        \/ \E d \in {sealed.senderKey.did, sealed.receiverKey.did} :
              changes[d] > 0 \/ d \in deactivated
==============================================================================
