----------------------------- MODULE Credential -----------------------------
(***************************************************************************)
(* The life of a document: issued by fromContent, anchored as a stream,    *)
(* presented by createPresentation, verified by verifyPresentation of the  *)
(* demo (which calls Document.verifyPresentation), revoked, restored or    *)
(* removed (modules/src/document/Document.ts, did/src/Did.signature.ts and *)
(* src/demo/src/utils).                                                    *)
(*                                                                         *)
(* A verification is cut at its awaits: the key of the holder, the key of  *)
(* the issuer, the stream.  Keys change and streams are revoked between    *)
(* any two steps.  Signing callbacks are the application's and sign with   *)
(* any key of their DID, old or yet to be set.  Submission of the          *)
(* extrinsics is the subject of SubmitTx and one step here.                *)
(***************************************************************************)
EXTENDS DidKeys, Content

CONSTANTS
    Holder, Issuer,     \* the DID of the holder, the DIDs that issue
    Document,           \* calls of fromContent
    Presentation,       \* calls of createPresentation
    Session,            \* calls of verifyPresentation
    Contents,           \* functions from attributes to values
    Schema,             \* the schema of the documents
    Attachments,        \* the sets of documents issued before, given as evidence
    NoChallenge         \* no challenge is asked for or signed

ASSUME RolesAssumption == Holder \in Did /\ Issuer \subseteq Did
ASSUME AttachmentsAssumption ==
    \A evidence \in Attachments : \A e \in evidence : verifyOwnData(e)
ASSUME ChallengeAssumption == NoChallenge \notin Session

VARIABLES
    document,           \* the documents issued
    stream,             \* their streams on chain
    presentation,       \* the presentations made
    session             \* the verifications

credentialVars == <<document, stream, presentation, session>>

None == [made |-> FALSE]
Challenges == Session \cup {NoChallenge}

\* A signature names its key and what was signed.
Signature(key, over) == [key |-> key, over |-> over]

IsSignature(s) == s.key \in [did : Did, number : KeyNumber]

CredentialTypeOK ==
    /\ \A d \in Document : document[d].made =>
          document[d].issuer \in Issuer /\ IsSignature(document[d].signature)
    /\ stream \in [Document -> {"none", "anchored", "revoked", "removed"}]
    /\ \A p \in Presentation : presentation[p].made =>
          /\ presentation[p].of \in Document
          /\ document[presentation[p].of].made
          /\ presentation[p].challenge \in Challenges
          /\ IsSignature(presentation[p].holderSignature)
    /\ session \in
         [Session -> [pc : {"idle", "open", "holderKey", "issuerKey", "stream",
                            "accepted", "refused"},
                      asks : BOOLEAN, trusted : SUBSET Issuer,
                      checks : Presentation \cup {NoChallenge},
                      wasValid : BOOLEAN, restored : BOOLEAN, cause : BOOLEAN]]

CredentialInit ==
    /\ document = [d \in Document |-> None]
    /\ stream = [d \in Document |-> "none"]
    /\ presentation = [p \in Presentation |-> None]
    /\ session = [s \in Session |->
                    [pc |-> "idle", asks |-> FALSE, trusted |-> {},
                     checks |-> NoChallenge, wasValid |-> FALSE,
                     restored |-> FALSE, cause |-> FALSE]]

-----------------------------------------------------------------------------
(* Issuing, anchoring and revoking.                                        *)

\* fromContent: hashes and nonces, then `await signCallback`.
FromContent(d, issuer, contents, evidence, n) ==
    LET content == [schemaId |-> Schema, contents |-> contents,
                    holder |-> Holder, issuer |-> issuer]
        nonces == [s \in makeStatementsJsonLD(content) |-> d]
        data == fromContent(d, content, nonces, evidence, "created", "Infinity")
    IN  /\ ~document[d].made
        /\ document' = [document EXCEPT ![d] =
              [made |-> TRUE, issuer |-> issuer, data |-> data,
               signature |-> Signature(KeyOf(issuer, n), data.documentHash)]]
        /\ UNCHANGED <<stream, presentation, session>>

\* createStream of the demo.
CreateStream(d) ==
    /\ document[d].made /\ stream[d] = "none"
    /\ stream' = [stream EXCEPT ![d] = "anchored"]
    /\ UNCHANGED <<document, presentation, session>>

\* revokeCredential of the demo.
RevokeCredential(d, shouldRemove) ==
    /\ stream[d] = "anchored"
    /\ stream' = [stream EXCEPT ![d] = IF shouldRemove THEN "removed" ELSE "revoked"]
    /\ UNCHANGED <<document, presentation, session>>

\* `restored` is history: during the session, something that a claim lacked came back.
SomethingIsBack == session' = [s \in Session |-> [session[s] EXCEPT !.restored = TRUE]]

\* pallet stream: restore.
RestoreStream(d) ==
    /\ stream[d] = "revoked"
    /\ stream' = [stream EXCEPT ![d] = "anchored"]
    /\ SomethingIsBack
    /\ UNCHANGED <<document, presentation>>

\* The keys of the signatures in presentations.
SigningKeys ==
    UNION {{presentation[p].holderSignature.key, presentation[p].issuerSignature.key} :
              p \in {q \in Presentation : presentation[q].made}}

\* The owner of a DID changes its keys.  Signatures verify again when their key is set
\* again.
ChangeKeys(d) ==
    /\ \/ \E n \in KeyNumber :
              /\ SetAuthenticationKey(d, n)
              /\ IF KeyOf(d, n) \in SigningKeys THEN SomethingIsBack ELSE UNCHANGED session
       \/ (AddKeyAgreementKey(d) \/ RemoveKeyAgreementKey(d) \/ Delete(d)) /\ UNCHANGED session
    /\ UNCHANGED <<document, stream, presentation>>

-----------------------------------------------------------------------------
(* createPresentation.                                                     *)

\* What verifiers and holders sign and check: the document hash and the challenge.
SigningData(data, challenge) == <<data.documentHash, challenge>>

\* From a document, or from a presentation made earlier, which is a document too.
\* `shown` is history: the attributes selected so far.
Present(p, d, data, issuerSignature, shown, selected, challenge, n) ==
    LET presented == removeContentProperties(data, Excluded(data, selected))
    IN  /\ ~presentation[p].made
        /\ presentation' = [presentation EXCEPT ![p] =
              [made |-> TRUE, of |-> d, data |-> presented,
               issuerSignature |-> issuerSignature, challenge |-> challenge,
               holderSignature |-> Signature(KeyOf(Holder, n),
                                             SigningData(presented, challenge)),
               shown |-> shown \cap selected]]
        /\ UNCHANGED <<document, stream, session>>

AttributesOf(d) == DOMAIN document[d].data.content.contents

PresentDocument(p, d, selected, challenge, n) ==
    /\ document[d].made
    /\ Present(p, d, document[d].data, document[d].signature,
               AttributesOf(d), selected, challenge, n)

PresentAgain(p, q, selected, challenge, n) ==
    /\ presentation[q].made
    /\ Present(p, presentation[q].of, presentation[q].data,
               presentation[q].issuerSignature, presentation[q].shown,
               selected, challenge, n)

-----------------------------------------------------------------------------
(* verifyPresentation of the demo: Document.verifyPresentation, then the   *)
(* stream.                                                                 *)

\* The verifier decides what to ask for; its challenge is the session itself.
OpenSession(s, asks, trusted) ==
    /\ session[s].pc = "idle"
    /\ session' = [session EXCEPT ![s].pc = "open", ![s].asks = asks,
                                  ![s].trusted = trusted]
    /\ UNCHANGED <<document, stream, presentation>>

\* The signature is the expected signer's, over the expected data, with a key that
\* is the signer's authentication key now (verifyDidSignature).
SignedBy(signature, signer, over) ==
    /\ signature.key.did = signer
    /\ signature.over = over
    /\ resolveKey(signature.key, "authentication")

HolderSigned(p) ==
    SignedBy(presentation[p].holderSignature, presentation[p].data.content.holder,
             SigningData(presentation[p].data, presentation[p].challenge))

IssuerSigned(p) ==
    SignedBy(presentation[p].issuerSignature, presentation[p].data.content.issuer,
             presentation[p].data.documentHash)

\* Mutant: the challenge is compared even if none is asked for.
ChecksData_always(s, p) ==
    verifyDataIntegrity(presentation[p].data) /\ presentation[p].challenge = s

\* What is checked before the first await.
ChecksData(s, p) ==
    /\ verifyDataIntegrity(presentation[p].data)
    /\ session[s].asks => presentation[p].challenge = s

\* The caller's outcome; `cause` is history: was the answer a check's?
Refused(s, cause) == [session[s] EXCEPT !.pc = "refused", !.cause = cause]

Verify(s, p) ==
    /\ session[s].pc = "open"
    /\ session' = [session EXCEPT ![s] =
          IF ChecksData(s, p) THEN [@ EXCEPT !.pc = "holderKey", !.checks = p, !.restored = FALSE]
          ELSE [Refused(s, TRUE) EXCEPT !.checks = p]]
    /\ UNCHANGED <<document, stream, presentation>>

\* The holder's key is resolved.  `wasValid` is history: was the issuer's
\* signature good too at this moment, and the stream not withdrawn?
CheckHolder(s) ==
    LET p == session[s].checks IN
    /\ session[s].pc = "holderKey"
    /\ session' = [session EXCEPT ![s] =
          IF HolderSigned(p)
          THEN [@ EXCEPT !.pc = "issuerKey",
                         !.wasValid = /\ IssuerSigned(p)
                                      /\ stream[presentation[p].of] \notin {"revoked", "removed"}]
          ELSE Refused(s, TRUE)]
    /\ UNCHANGED <<document, stream, presentation>>

\* Mutant: the issuer's key is not resolved.
CheckIssuer_noKey(s) ==
    /\ session[s].pc = "issuerKey"
    /\ session' = [session EXCEPT ![s].pc = "stream"]
    /\ UNCHANGED <<document, stream, presentation>>

CheckIssuer(s) ==
    LET p == session[s].checks IN
    /\ session[s].pc = "issuerKey"
    /\ session' = [session EXCEPT ![s] =
          IF IssuerSigned(p) THEN [@ EXCEPT !.pc = "stream"] ELSE Refused(s, TRUE)]
    /\ UNCHANGED <<document, stream, presentation>>

\* The stream exists, is not revoked, and a trusted DID created it.
StreamGood(s, d) ==
    stream[d] = "anchored" /\ document[d].issuer \in session[s].trusted

CheckStream(s) ==
    /\ session[s].pc = "stream"
    /\ session' = [session EXCEPT ![s] =
          IF StreamGood(s, presentation[@.checks].of) THEN [@ EXCEPT !.pc = "accepted"]
          ELSE Refused(s, stream[presentation[@.checks].of] # "none")]
    /\ UNCHANGED <<document, stream, presentation>>

\* A query fails: the catch block answers false.
QueryFails(s) ==
    /\ session[s].pc \in {"holderKey", "issuerKey", "stream"}
    /\ session' = [session EXCEPT ![s] = Refused(s, FALSE)]
    /\ UNCHANGED <<document, stream, presentation>>
==============================================================================
