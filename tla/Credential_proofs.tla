-------------------------- MODULE Credential_proofs --------------------------
(***************************************************************************)
(* Documents, presentations and verifications: the invariants of           *)
(* Credential and what each of its steps does to them.  Unless a stream is *)
(* restored or a key set again, what a check found bad stays bad: that is  *)
(* what carries a verification over its awaits.                            *)
(* First what removing attributes from a document keeps                    *)
(* (removeContentProperties of Document.ts), for every document, every     *)
(* schema and every choice of attributes.                                  *)
(***************************************************************************)
EXTENDS Credential, TLAPS

\* The fields of contents and of documents, whatever they hold.
IsContent(c) ==
    c = [schemaId |-> c.schemaId, contents |-> c.contents,
         holder |-> c.holder, issuer |-> c.issuer]

IsDocument(d) ==
    /\ IsContent(d.content)
    /\ d = [identifier |-> d.identifier, content |-> d.content,
            contentHashes |-> d.contentHashes, contentNonceMap |-> d.contentNonceMap,
            evidenceIds |-> d.evidenceIds, createdAt |-> d.createdAt,
            validUntil |-> d.validUntil, documentHash |-> d.documentHash]

LEMMA WithoutFields ==
    ASSUME NEW c, NEW properties, IsContent(c)
    PROVE  /\ IsContent(Without(c, properties))
           /\ Without(c, properties).schemaId = c.schemaId
           /\ Without(c, properties).holder = c.holder
           /\ Without(c, properties).issuer = c.issuer
           /\ Without(c, properties).contents
                = [k \in DOMAIN c.contents \ properties |-> c.contents[k]]
<1> DEFINE f == [k \in DOMAIN c.contents \ properties |-> c.contents[k]]
<1>1. Without(c, properties)
        = [schemaId |-> c.schemaId, contents |-> f, holder |-> c.holder, issuer |-> c.issuer]
    BY DEF Without, IsContent
<1> HIDE DEF f
<1>2. QED
    BY <1>1 DEF IsContent, f

LEMMA RemovedFields ==
    ASSUME NEW d, NEW properties, IsDocument(d)
    PROVE  LET r == removeContentProperties(d, properties)
               c == Without(d.content, properties)
           IN  /\ IsDocument(r)
               /\ r.content = c /\ r.contentNonceMap = NonceMap(c, d.contentNonceMap)
               /\ r.contentHashes = d.contentHashes /\ r.evidenceIds = d.evidenceIds
               /\ r.createdAt = d.createdAt /\ r.validUntil = d.validUntil
               /\ r.documentHash = d.documentHash
<1> DEFINE c == Without(d.content, properties)
           n == NonceMap(c, d.contentNonceMap)
<1>1. IsContent(c)
    BY WithoutFields DEF IsDocument
<1>2. removeContentProperties(d, properties)
        = [identifier |-> d.identifier, content |-> c,
           contentHashes |-> d.contentHashes, contentNonceMap |-> n,
           evidenceIds |-> d.evidenceIds, createdAt |-> d.createdAt,
           validUntil |-> d.validUntil, documentHash |-> d.documentHash]
    <2> DEFINE m == d.contentNonceMap
    <2>1. [d EXCEPT !.content = c]
            = [identifier |-> d.identifier, content |-> c,
               contentHashes |-> d.contentHashes, contentNonceMap |-> d.contentNonceMap,
               evidenceIds |-> d.evidenceIds, createdAt |-> d.createdAt,
               validUntil |-> d.validUntil, documentHash |-> d.documentHash]
        <3> HIDE DEF c
        <3> QED BY DEF IsDocument
    <2>2. removeContentProperties(d, properties) = [[d EXCEPT !.content = c] EXCEPT !.contentNonceMap = n]
        BY Zenon DEF removeContentProperties
    <2> HIDE DEF c, n
    <2> QED
        BY <2>1, <2>2
<1> HIDE DEF c, n
<1>3. QED
    BY <1>1, <1>2 DEF IsDocument, c, n

-----------------------------------------------------------------------------
(* Statements.                                                             *)

\* What remains makes no statement that was not made before.
LEMMA FewerStatements ==
    ASSUME NEW c, NEW properties, IsContent(c)
    PROVE  makeStatementsJsonLD(Without(c, properties)) \subseteq makeStatementsJsonLD(c)
<1> DEFINE w == Without(c, properties)
<1>a. w.schemaId = c.schemaId /\ w.holder = c.holder /\ w.issuer = c.issuer
      /\ w.contents = [k \in DOMAIN c.contents \ properties |-> c.contents[k]]
    BY WithoutFields, Zenon
<1> HIDE DEF w
<1>1. w.schemaId = c.schemaId /\ w.holder = c.holder /\ w.issuer = c.issuer
      /\ DOMAIN w.contents = DOMAIN c.contents \ properties
      /\ \A k \in DOMAIN w.contents : w.contents[k] = c.contents[k]
    BY <1>a
<1>2. {Statement(w.schemaId, k, w.contents[k]) : k \in DOMAIN w.contents}
        \subseteq {Statement(c.schemaId, k, c.contents[k]) : k \in DOMAIN c.contents}
    BY <1>1
<1> QED
    BY <1>1, <1>2 DEF makeStatementsJsonLD, w

\* A statement about an attribute names an attribute of the content.
LEMMA StatementOfAttribute ==
    ASSUME NEW c, NEW s \in makeStatementsJsonLD(c), s.schema # NoSchema
    PROVE  s.key \in DOMAIN c.contents
BY DEF makeStatementsJsonLD, Statement

-----------------------------------------------------------------------------
(* A document whose nonces are those of its statements.                    *)

NoncesFit(d) == DOMAIN d.contentNonceMap = makeStatementsJsonLD(d.content)

\* fromContent makes a document that passes every check, whatever the nonces, if the
\* evidence does.
LEMMA CreatedVerifies ==
    ASSUME NEW identifier, NEW c, NEW nonces, NEW createdAt, NEW validUntil, IsContent(c),
           NEW evidence, \A e \in evidence : verifyOwnData(e),
           NEW d, d = fromContent(identifier, c, nonces, evidence, createdAt, validUntil)
    PROVE  IsDocument(d) /\ NoncesFit(d) /\ verifyDataIntegrity(d) /\ d.content = c
<1> DEFINE hashes == Hashes(c, nonces)
           n == NonceMap(c, nonces)
           unsigned == [contentHashes |-> hashes, evidenceIds |-> evidence,
                        createdAt |-> createdAt, validUntil |-> validUntil]
           h == calculateDocumentHash(unsigned)
<1>1. d = [identifier |-> identifier, content |-> c, contentHashes |-> hashes,
           contentNonceMap |-> n, evidenceIds |-> evidence, createdAt |-> createdAt,
           validUntil |-> validUntil, documentHash |-> h]
    BY Zenon DEF fromContent
<1>2. h = [contents |-> hashes, evidence |-> {e.identifier : e \in evidence},
           createdAt |-> createdAt, validUntil |-> validUntil]
    BY DEF calculateDocumentHash
<1> HIDE DEF h
<1>3. /\ d.content = c /\ d.contentHashes = hashes /\ d.contentNonceMap = n
      /\ d.evidenceIds = evidence /\ d.createdAt = createdAt /\ d.validUntil = validUntil
      /\ d.documentHash = h
    BY <1>1
<1>4. IsDocument(d)
    BY <1>1, <1>3 DEF IsDocument
<1>5. DOMAIN n = makeStatementsJsonLD(c)
      /\ \A s \in makeStatementsJsonLD(c) : SaltedHash(s, n[s]) \in hashes
    BY DEF NonceMap, Hashes
<1>6. verifyDocumentHash(d)
    BY <1>2, <1>3 DEF verifyDocumentHash, calculateDocumentHash
<1>7. verifyDisclosedAttributes(d.content, d.contentNonceMap, d.contentHashes)
    BY <1>3, <1>5 DEF verifyDisclosedAttributes
<1>8. verifyDataIntegrity(d)
    BY <1>3, <1>6, <1>7 DEF verifyDataIntegrity, verifyOwnData
<1> QED
    BY <1>3, <1>4, <1>5, <1>8 DEF NoncesFit

\* Removing attributes keeps the integrity, and no nonce of a removed attribute.
LEMMA RemovalKeepsIntegrity ==
    ASSUME NEW d, NEW properties, IsDocument(d), NoncesFit(d), verifyDataIntegrity(d)
    PROVE  LET r == removeContentProperties(d, properties)
           IN  NoncesFit(r) /\ verifyDataIntegrity(r)
<1> DEFINE r == removeContentProperties(d, properties)
           c == Without(d.content, properties)
           n == NonceMap(c, d.contentNonceMap)
<1>1. /\ r.content = c /\ r.contentNonceMap = n
      /\ r.contentHashes = d.contentHashes /\ r.evidenceIds = d.evidenceIds
      /\ r.createdAt = d.createdAt /\ r.validUntil = d.validUntil
      /\ r.documentHash = d.documentHash
    BY RemovedFields, Zenon
<1>2. makeStatementsJsonLD(c) \subseteq makeStatementsJsonLD(d.content)
    BY FewerStatements DEF IsDocument
<1>3. DOMAIN n = makeStatementsJsonLD(c)
      /\ \A s \in makeStatementsJsonLD(c) : n[s] = d.contentNonceMap[s]
    BY DEF NonceMap
<1> HIDE DEF r, c, n
<1>4. verifyDocumentHash(r)
    BY <1>1 DEF verifyDocumentHash, calculateDocumentHash, verifyDataIntegrity, verifyOwnData
<1>5. \A s \in makeStatementsJsonLD(d.content) :
          SaltedHash(s, d.contentNonceMap[s]) \in d.contentHashes
    BY DEF verifyDataIntegrity, verifyOwnData, verifyDisclosedAttributes
<1>6. verifyDisclosedAttributes(r.content, r.contentNonceMap, r.contentHashes)
    BY <1>1, <1>2, <1>3, <1>5 DEF verifyDisclosedAttributes
<1>7. \A e \in r.evidenceIds : verifyOwnData(e)
    BY <1>1 DEF verifyDataIntegrity
<1> QED
    BY <1>1, <1>3, <1>4, <1>6, <1>7 DEF NoncesFit, verifyDataIntegrity, verifyOwnData, r

-----------------------------------------------------------------------------
(* The invariants.                                                         *)

\* Functions and their ranges, without bounds.
Tables ==
    /\ authentication \in [Did -> Nat]
    /\ document = [d \in Document |-> document[d]]
    /\ presentation = [p \in Presentation |-> presentation[p]]
    /\ stream \in [Document -> {"none", "anchored", "revoked", "removed"}]

\* A signature by a key of the DID, whenever it may be valid.
SignedByKeyOf(signature, did) == \E n \in KeyNumber : signature.key = KeyOf(did, n)

GoodData(data, issuer) ==
    /\ IsDocument(data) /\ NoncesFit(data) /\ verifyDataIntegrity(data)
    /\ data.content.holder = Holder /\ data.content.issuer = issuer

GoodDocument(d) ==
    /\ document[d].issuer \in Issuer
    /\ GoodData(document[d].data, document[d].issuer)
    /\ SignedByKeyOf(document[d].signature, document[d].issuer)
    /\ document[d].signature.over = document[d].data.documentHash

GoodPresentation(p) ==
    LET x == presentation[p] IN
    /\ x.of \in Document /\ document[x.of].made
    /\ GoodData(x.data, document[x.of].issuer)
    /\ x.data.documentHash = document[x.of].data.documentHash
    /\ x.issuerSignature = document[x.of].signature
    /\ SignedByKeyOf(x.holderSignature, Holder)
    /\ x.holderSignature.over = SigningData(x.data, x.challenge)
    /\ DOMAIN x.data.content.contents = x.shown

PapersInv ==
    /\ Tables
    /\ \A d \in Document : document[d].made => GoodDocument(d)
    /\ \A p \in Presentation : presentation[p].made => GoodPresentation(p)

\* What no step undoes.
Later ==
    /\ deactivated \subseteq deactivated'
    /\ \A d \in Document : document[d].made => document'[d] = document[d]
    /\ \A p \in Presentation : presentation[p].made => presentation'[p] = presentation[p]

-----------------------------------------------------------------------------
(* Papers that are made stay good.                                         *)

LEMMA GoodDocumentStays ==
    ASSUME PapersInv, Later, NEW d \in Document, document[d].made
    PROVE  document'[d].made /\ GoodDocument(d)'
<1>1. document'[d] = document[d] /\ GoodDocument(d)
    BY DEF PapersInv, Later
<1> QED
    BY <1>1 DEF GoodDocument, SignedByKeyOf, GoodData

LEMMA GoodPresentationStays ==
    ASSUME PapersInv, Later, NEW p \in Presentation, presentation[p].made
    PROVE  presentation'[p].made /\ GoodPresentation(p)'
<1>1. presentation'[p] = presentation[p] /\ GoodPresentation(p)
    BY DEF PapersInv, Later
<1>2. document'[presentation[p].of] = document[presentation[p].of]
    BY <1>1 DEF GoodPresentation, Later
<1>4. SignedByKeyOf(presentation[p].holderSignature, Holder)'
    BY <1>1 DEF GoodPresentation, SignedByKeyOf
<1> QED
    BY <1>1, <1>2, <1>4 DEF GoodPresentation

\* Signatures that do not verify do not begin to, unless their key is set.
LEMMA BadStaysBad ==
    ASSUME PapersInv, Later, NEW p \in Presentation, presentation[p].made,
           \A d \in Did : \/ authentication'[d] = authentication[d]
                          \/ KeyOf(d, authentication'[d]) \notin SigningKeys
    PROVE  /\ ~HolderSigned(p) => ~HolderSigned(p)'
           /\ ~IssuerSigned(p) => ~IssuerSigned(p)'
<1> DEFINE x == presentation[p]
<1>1. GoodPresentation(p) /\ GoodDocument(x.of) /\ x.of \in Document /\ presentation'[p] = x
    BY DEF PapersInv, Later, GoodPresentation
<1>2. x.data.content.holder = Holder /\ x.data.content.issuer = document[x.of].issuer
      /\ document[x.of].issuer \in Did /\ Holder \in Did
    BY <1>1, RolesAssumption DEF GoodPresentation, GoodDocument, GoodData
<1>3. SignedByKeyOf(x.holderSignature, Holder)
      /\ x.holderSignature.over = SigningData(x.data, x.challenge)
    BY <1>1 DEF GoodPresentation
<1>4. SignedByKeyOf(x.issuerSignature, document[x.of].issuer)
      /\ x.issuerSignature.over = x.data.documentHash
    BY <1>1 DEF GoodPresentation, GoodDocument
<1>5. x.holderSignature.key \in SigningKeys /\ x.issuerSignature.key \in SigningKeys
    BY DEF SigningKeys
<1>6. ASSUME NEW signature, NEW did \in Did, SignedByKeyOf(signature, did),
             signature.key \in SigningKeys, resolveKey(signature.key, "authentication")'
      PROVE  resolveKey(signature.key, "authentication")
    <2>1. PICK n \in KeyNumber : signature.key = KeyOf(did, n)
        BY <1>6 DEF SignedByKeyOf
    <2>2. signature.key.did = did /\ signature.key.number = n
        BY <2>1 DEF KeyOf
    <2>3. n = authentication'[did] /\ did \notin deactivated'
        BY <1>6, <2>2 DEF resolveKey
    <2>4. n = authentication[did]
        BY <1>6, <2>1, <2>3
    <2> QED
        BY <2>2, <2>3, <2>4 DEF resolveKey, Later
<1>7. HolderSigned(p)' => HolderSigned(p)
    BY <1>1, <1>2, <1>3, <1>5, <1>6 DEF HolderSigned, SignedBy
<1>8. IssuerSigned(p)' => IssuerSigned(p)
    BY <1>1, <1>2, <1>4, <1>5, <1>6 DEF IssuerSigned, SignedBy
<1> QED
    BY <1>7, <1>8

-----------------------------------------------------------------------------
(* Every step keeps the papers good.                                       *)

\* It is enough to look at the papers that a step makes.
LEMMA PapersStep ==
    ASSUME PapersInv, Later, Tables',
           \A d \in Document : ~document[d].made /\ document'[d].made => GoodDocument(d)',
           \A p \in Presentation :
               ~presentation[p].made /\ presentation'[p].made => GoodPresentation(p)'
    PROVE  PapersInv'
BY GoodDocumentStays, GoodPresentationStays DEF PapersInv

LEMMA KeysKeepPapers ==
    ASSUME PapersInv, NEW d \in Did, ChangeKeys(d)
    PROVE  PapersInv' /\ Later
<1>1. UNCHANGED <<document, presentation, stream>>
    BY DEF ChangeKeys
<1>2. authentication' \in [Did -> Nat] /\ deactivated \subseteq deactivated'
    <2>1. CASE \E n \in KeyNumber : SetAuthenticationKey(d, n)
        BY <2>1, KeysAssumption DEF SetAuthenticationKey, KeyNumber, PapersInv, Tables
    <2>2. CASE AddKeyAgreementKey(d) \/ RemoveKeyAgreementKey(d) \/ Delete(d)
        BY <2>2 DEF AddKeyAgreementKey, RemoveKeyAgreementKey, ChangesAgreement, Delete,
                    PapersInv, Tables
    <2> QED
        BY <2>1, <2>2 DEF ChangeKeys
<1>3. Later
    BY <1>1, <1>2 DEF Later
<1>4. Tables'
    BY <1>1, <1>2 DEF PapersInv, Tables
<1> QED
    BY <1>1, <1>3, <1>4, PapersStep

\* Steps that make no papers.
LEMMA OthersKeepPapers ==
    ASSUME PapersInv, UNCHANGED <<keyVars, document, presentation>>,
           stream' \in [Document -> {"none", "anchored", "revoked", "removed"}]
    PROVE  PapersInv' /\ Later
<1>1. Later
    BY DEF Later, keyVars, PapersInv, Tables
<1>2. Tables'
    BY DEF PapersInv, Tables, keyVars
<1> QED
    BY <1>1, <1>2, PapersStep

LEMMA FromContentKeepsPapers ==
    ASSUME PapersInv, NEW d \in Document, NEW i \in Issuer, NEW c \in Contents,
           NEW evidence \in Attachments, NEW n \in KeyNumber, FromContent(d, i, c, evidence, n),
           UNCHANGED keyVars
    PROVE  PapersInv' /\ Later
<1> DEFINE content == [schemaId |-> Schema, contents |-> c, holder |-> Holder, issuer |-> i]
           nonces == [s \in makeStatementsJsonLD(content) |-> d]
           data == fromContent(d, content, nonces, evidence, "created", "Infinity")
           signature == Signature(KeyOf(i, n), data.documentHash)
<1>1. IsContent(content) /\ content.holder = Holder /\ content.issuer = i
    BY DEF IsContent
<1>2. GoodData(data, i)
    <2> HIDE DEF content, nonces
    <2>2. data = fromContent(d, content, nonces, evidence, "created", "Infinity")
        OBVIOUS
    <2> HIDE DEF data
    <2>1. IsDocument(data) /\ NoncesFit(data) /\ verifyDataIntegrity(data) /\ data.content = content
        BY <1>1, <2>2, CreatedVerifies, AttachmentsAssumption
    <2> QED
        BY <1>1, <2>1 DEF GoodData
<1>3. ~document[d].made
      /\ document' = [document EXCEPT ![d] = [made |-> TRUE, issuer |-> i, data |-> data,
                                              signature |-> signature]]
      /\ UNCHANGED <<stream, presentation>>
    BY Zenon DEF FromContent
<1>4. signature.key = KeyOf(i, n) /\ signature.over = data.documentHash
    BY DEF Signature
<1> HIDE DEF content, nonces, data, signature
<1>6. /\ document'[d].made /\ document'[d].issuer = i /\ document'[d].data = data
      /\ document'[d].signature = signature
      /\ \A e \in Document : e # d => document'[e] = document[e]
      /\ document' = [e \in Document |-> document'[e]]
    BY <1>3 DEF PapersInv, Tables
<1>7. Later
    BY <1>3, <1>6 DEF Later, keyVars, PapersInv, Tables
<1>8. Tables'
    BY <1>3, <1>6 DEF PapersInv, Tables, keyVars
<1>9. GoodDocument(d)'
    BY <1>2, <1>4, <1>6 DEF GoodDocument, GoodData, SignedByKeyOf
<1> QED
    BY <1>3, <1>6, <1>7, <1>8, <1>9, PapersStep

\* A presentation of good data is good, whatever was selected.
LEMMA PresentKeepsPapers ==
    ASSUME PapersInv, NEW p \in Presentation, NEW d \in Document, document[d].made,
           NEW data, GoodData(data, document[d].issuer),
           data.documentHash = document[d].data.documentHash,
           NEW shown, DOMAIN data.content.contents = shown,
           NEW selected, NEW challenge, NEW n \in KeyNumber,
           Present(p, d, data, document[d].signature, shown, selected, challenge, n),
           UNCHANGED keyVars
    PROVE  PapersInv' /\ Later
<1> DEFINE presented == removeContentProperties(data, Excluded(data, selected))
           signature == Signature(KeyOf(Holder, n), SigningData(presented, challenge))
<1>1. ~presentation[p].made
      /\ presentation' = [presentation EXCEPT ![p] =
            [made |-> TRUE, of |-> d, data |-> presented,
             issuerSignature |-> document[d].signature, challenge |-> challenge,
             holderSignature |-> signature, shown |-> shown \cap selected]]
      /\ UNCHANGED <<document, stream>>
    BY Zenon DEF Present
<1>2. IsDocument(data) /\ IsContent(data.content)
    BY DEF GoodData, IsDocument
<1>3. IsDocument(presented) /\ presented.documentHash = data.documentHash
      /\ presented.content = Without(data.content, Excluded(data, selected))
    BY <1>2, RemovedFields, Zenon
<1>4. NoncesFit(presented) /\ verifyDataIntegrity(presented)
    BY RemovalKeepsIntegrity, Zenon DEF GoodData
<1>5. presented.content.holder = data.content.holder
      /\ presented.content.issuer = data.content.issuer
      /\ presented.content.contents
            = [k \in DOMAIN data.content.contents \ Excluded(data, selected)
                 |-> data.content.contents[k]]
    <2> DEFINE w == Without(data.content, Excluded(data, selected))
    <2>1. w.holder = data.content.holder /\ w.issuer = data.content.issuer
          /\ w.contents = [k \in DOMAIN data.content.contents \ Excluded(data, selected)
                             |-> data.content.contents[k]]
        BY <1>2, WithoutFields, Zenon
    <2> HIDE DEF w, presented
    <2>2. presented.content = w
        BY <1>3 DEF w
    <2> QED
        BY <2>1, <2>2
<1>6. signature.key = KeyOf(Holder, n) /\ signature.over = SigningData(presented, challenge)
    BY DEF Signature
<1> HIDE DEF presented, signature
<1>8. GoodData(presented, document[d].issuer)
    BY <1>3, <1>4, <1>5 DEF GoodData
<1>9. DOMAIN presented.content.contents = shown \cap selected
    BY <1>5 DEF Excluded
<1>10. /\ presentation'[p].made /\ presentation'[p].of = d /\ presentation'[p].data = presented
       /\ presentation'[p].issuerSignature = document[d].signature
       /\ presentation'[p].challenge = challenge /\ presentation'[p].holderSignature = signature
       /\ presentation'[p].shown = shown \cap selected
       /\ \A q \in Presentation : q # p => presentation'[q] = presentation[q]
       /\ presentation' = [q \in Presentation |-> presentation'[q]]
    BY <1>1 DEF PapersInv, Tables
<1>11. Later
    BY <1>1, <1>10 DEF Later, keyVars, PapersInv, Tables
<1>12. Tables'
    BY <1>1, <1>10 DEF PapersInv, Tables, keyVars
<1>13. SignedByKeyOf(presentation[p].holderSignature, Holder)'
    BY <1>6, <1>10 DEF SignedByKeyOf
<1>14. GoodPresentation(p)'
    BY <1>1, <1>3, <1>6, <1>8, <1>9, <1>10, <1>13 DEF GoodPresentation, GoodData
<1> QED
    BY <1>1, <1>10, <1>11, <1>12, <1>14, PapersStep

LEMMA HolderKeepsPapers ==
    ASSUME PapersInv, NEW p \in Presentation, NEW selected, NEW challenge,
           NEW n \in KeyNumber, UNCHANGED keyVars,
           \/ \E d \in Document : PresentDocument(p, d, selected, challenge, n)
           \/ \E q \in Presentation : PresentAgain(p, q, selected, challenge, n)
    PROVE  PapersInv' /\ Later
<1>1. CASE \E d \in Document : PresentDocument(p, d, selected, challenge, n)
    <2>1. PICK d \in Document : PresentDocument(p, d, selected, challenge, n)
        BY <1>1
    <2>2. document[d].made /\ GoodData(document[d].data, document[d].issuer)
        BY <2>1 DEF PresentDocument, PapersInv, GoodDocument
    <2> QED
        BY <2>1, <2>2, PresentKeepsPapers DEF PresentDocument, AttributesOf
<1>2. CASE \E q \in Presentation : PresentAgain(p, q, selected, challenge, n)
    <2>1. PICK q \in Presentation : PresentAgain(p, q, selected, challenge, n)
        BY <1>2
    <2>2. GoodPresentation(q)
        BY <2>1 DEF PresentAgain, PapersInv
    <2> QED
        BY <2>1, <2>2, PresentKeepsPapers DEF PresentAgain, GoodPresentation
<1> QED
    BY <1>1, <1>2

-----------------------------------------------------------------------------
(* Verifications.                                                          *)

SessionRecord ==
    [pc : {"idle", "open", "holderKey", "issuerKey", "stream", "accepted", "refused"},
     asks : BOOLEAN, trusted : SUBSET Issuer, checks : Presentation \cup {NoChallenge},
     wasValid : BOOLEAN, restored : BOOLEAN, cause : BOOLEAN]

Withdrawn(d) == stream[d] \in {"revoked", "removed"}

\* Why a session's presentation is refused.
Cause(s) ==
    LET p == session[s].checks IN
    \/ ~HolderSigned(p) \/ ~IssuerSigned(p)
    \/ Withdrawn(presentation[p].of) \/ session[s].restored
    \/ session[s].asks /\ presentation[p].challenge # s
    \/ document[presentation[p].of].issuer \notin session[s].trusted

\* What a session has found, at each of its awaits.
GoodSession(s) ==
    LET v == session[s]  p == session[s].checks IN
    /\ v.pc \notin {"idle", "open"} => p \in Presentation /\ presentation[p].made
    /\ v.pc \in {"holderKey", "issuerKey", "stream", "accepted"} =>
          (v.asks => presentation[p].challenge = s)
    /\ v.pc = "issuerKey" =>
          v.wasValid \/ v.restored \/ ~IssuerSigned(p) \/ Withdrawn(presentation[p].of)
    /\ v.pc = "stream" => v.wasValid \/ v.restored \/ Withdrawn(presentation[p].of)
    /\ v.pc = "accepted" => v.wasValid \/ v.restored
    /\ v.pc = "refused" /\ v.cause => Cause(s)

SessionsInv ==
    /\ session \in [Session -> SessionRecord]
    /\ \A s \in Session : GoodSession(s)

\* Nothing that a claim lacked comes back.
Fading ==
    /\ \A d \in Document : Withdrawn(d) => Withdrawn(d)'
    /\ \A p \in Presentation : presentation[p].made =>
          /\ ~HolderSigned(p) => ~HolderSigned(p)'
          /\ ~IssuerSigned(p) => ~IssuerSigned(p)'

\* A session that takes no step keeps what it found, although keys and streams
\* change meanwhile.
LEMMA SessionStays ==
    ASSUME PapersInv, SessionsInv, Later, NEW s \in Session,
           session'[s].pc = session[s].pc /\ session'[s].checks = session[s].checks,
           session'[s].asks = session[s].asks /\ session'[s].trusted = session[s].trusted,
           session'[s].wasValid = session[s].wasValid /\ session'[s].cause = session[s].cause,
           session[s].restored => session'[s].restored,
           Fading \/ session'[s].restored
    PROVE  GoodSession(s)'
<1> DEFINE v == session[s]
           p == session[s].checks
<1>1. GoodSession(s)
    BY DEF SessionsInv
<1>2. CASE v.pc \in {"idle", "open"}
    BY <1>2 DEF GoodSession
<1>3. CASE v.pc \notin {"idle", "open"}
    <2>1. p \in Presentation /\ presentation[p].made
        BY <1>1, <1>3 DEF GoodSession
    <2>2. presentation'[p] = presentation[p] /\ presentation[p].of \in Document
          /\ document'[presentation[p].of] = document[presentation[p].of]
        BY <2>1 DEF Later, PapersInv, GoodPresentation
    <2>3. Withdrawn(presentation[p].of) => Withdrawn(presentation[p].of)' \/ session'[s].restored
        BY <2>2 DEF Fading
    <2>4. \/ (~HolderSigned(p) => ~HolderSigned(p)') /\ (~IssuerSigned(p) => ~IssuerSigned(p)')
          \/ session'[s].restored
        BY <2>1 DEF Fading
    <2>5. Cause(s) => Cause(s)'
        BY <2>2, <2>3, <2>4 DEF Cause, Withdrawn
    <2> QED
        BY <1>1, <1>3, <2>1, <2>2, <2>3, <2>4, <2>5 DEF GoodSession, Withdrawn
<1> QED
    BY <1>2, <1>3

\* Without a change of authentication keys, only a stream can come back.
LEMMA OnlyStreamsCome ==
    ASSUME PapersInv, Later, UNCHANGED authentication,
           \A d \in Document : Withdrawn(d) => Withdrawn(d)'
    PROVE  Fading
BY BadStaysBad DEF Fading

\* Steps of the other components: no session changes, and no stream.
LEMMA OthersKeepSessions ==
    ASSUME PapersInv, SessionsInv, Later, UNCHANGED <<authentication, session, stream>>
    PROVE  SessionsInv'
<1>1. Fading
    BY OnlyStreamsCome DEF Withdrawn
<1> QED
    BY <1>1, SessionStays DEF SessionsInv

\* When something comes back, every session has it in its history.
LEMMA BackKeepsSessions ==
    ASSUME PapersInv, SessionsInv, Later, SomethingIsBack
    PROVE  /\ SessionsInv'
           /\ \A s \in Session :
                 session'[s].pc = session[s].pc /\ session'[s].checks = session[s].checks
<1>1. \A s \in Session :
          /\ session'[s] \in SessionRecord
          /\ session'[s].pc = session[s].pc /\ session'[s].checks = session[s].checks
          /\ session'[s].asks = session[s].asks /\ session'[s].trusted = session[s].trusted
          /\ session'[s].wasValid = session[s].wasValid /\ session'[s].cause = session[s].cause
          /\ session'[s].restored
    BY DEF SomethingIsBack, SessionsInv, SessionRecord
<1>2. session' = [s \in Session |-> session'[s]]
    BY DEF SomethingIsBack
<1>3. \A s \in Session : GoodSession(s)'
    BY <1>1, SessionStays
<1> QED
    BY <1>1, <1>2, <1>3 DEF SessionsInv

\* A key that is set makes no signature verify but those in SigningKeys.
LEMMA KeysKeepSessions ==
    ASSUME PapersInv, SessionsInv, NEW d \in Did, ChangeKeys(d)
    PROVE  /\ SessionsInv'
           /\ Fading \/ SomethingIsBack
           /\ \A s \in Session :
                 session'[s].pc = session[s].pc /\ session'[s].checks = session[s].checks
<1>1. Later /\ \A e \in Document : Withdrawn(e) => Withdrawn(e)'
    BY KeysKeepPapers DEF ChangeKeys, Withdrawn
<1>2. CASE SomethingIsBack
    BY <1>1, <1>2, BackKeepsSessions
<1>3. CASE ~SomethingIsBack
    <2>1. UNCHANGED session
        BY <1>3 DEF ChangeKeys
    <2>2. \A e \in Did : \/ authentication'[e] = authentication[e]
                         \/ KeyOf(e, authentication'[e]) \notin SigningKeys
        <3>1. CASE \E n \in KeyNumber : SetAuthenticationKey(d, n) /\ KeyOf(d, n) \notin SigningKeys
            BY <3>1 DEF SetAuthenticationKey, PapersInv, Tables
        <3>2. CASE AddKeyAgreementKey(d) \/ RemoveKeyAgreementKey(d) \/ Delete(d)
            BY <3>2 DEF AddKeyAgreementKey, RemoveKeyAgreementKey, ChangesAgreement, Delete
        <3> QED
            BY <1>3, <3>1, <3>2 DEF ChangeKeys
    <2>3. Fading
        BY <1>1, <2>2, BadStaysBad DEF Fading
    <2> QED
        BY <1>1, <2>1, <2>3, SessionStays DEF SessionsInv
<1> QED
    BY <1>2, <1>3

\* Streams stay withdrawn, unless one is restored.
LEMMA StreamsKeepSessions ==
    ASSUME PapersInv, SessionsInv, NEW d \in Document, UNCHANGED keyVars,
           \/ CreateStream(d) \/ RestoreStream(d)
           \/ \E shouldRemove \in BOOLEAN : RevokeCredential(d, shouldRemove)
    PROVE  /\ PapersInv' /\ SessionsInv' /\ Later
           /\ \A s \in Session :
                 session'[s].pc = session[s].pc /\ session'[s].checks = session[s].checks
<1>1. stream \in [Document -> {"none", "anchored", "revoked", "removed"}]
    BY DEF PapersInv, Tables
<1>2. UNCHANGED <<document, presentation>>
      /\ stream' \in [Document -> {"none", "anchored", "revoked", "removed"}]
    BY <1>1 DEF CreateStream, RestoreStream, RevokeCredential
<1>3. PapersInv' /\ Later
    BY <1>2, OthersKeepPapers
<1>4. CASE CreateStream(d) \/ \E shouldRemove \in BOOLEAN : RevokeCredential(d, shouldRemove)
    <2>1. \A e \in Document : Withdrawn(e) => Withdrawn(e)'
        BY <1>1, <1>4 DEF Withdrawn, CreateStream, RevokeCredential
    <2>2. Fading
        BY <1>3, <2>1, OnlyStreamsCome DEF keyVars
    <2>3. session' = session
        BY <1>4 DEF CreateStream, RevokeCredential
    <2> QED
        BY <1>3, <2>2, <2>3, SessionStays DEF SessionsInv
<1>5. CASE RestoreStream(d)
    BY <1>3, <1>5, BackKeepsSessions DEF RestoreStream
<1> QED
    BY <1>4, <1>5

\* A step of one session: the others stay as they are.
LEMMA OneSession ==
    ASSUME PapersInv, SessionsInv, NEW s \in Session, NEW r \in SessionRecord,
           session' = [session EXCEPT ![s] = r],
           UNCHANGED <<keyVars, document, stream, presentation>>,
           GoodSession(s)'
    PROVE  PapersInv' /\ SessionsInv'
<1>1. PapersInv' /\ Later
    BY OthersKeepPapers DEF PapersInv, Tables
<1>2. session' \in [Session -> SessionRecord]
    BY DEF SessionsInv
<1>3. Fading
    BY <1>1, OnlyStreamsCome DEF Withdrawn, keyVars
<1>4. ASSUME NEW t \in Session, t # s PROVE GoodSession(t)'
    <2>1. session'[t] = session[t]
        BY <1>4 DEF SessionsInv
    <2> QED
        BY <1>1, <1>3, <2>1, SessionStays
<1> QED
    BY <1>1, <1>2, <1>4 DEF SessionsInv

\* Such a step changes no signature, paper or stream.
LEMMA SameChecks ==
    ASSUME UNCHANGED <<keyVars, document, stream, presentation>>, NEW p
    PROVE  /\ HolderSigned(p)' = HolderSigned(p) /\ IssuerSigned(p)' = IssuerSigned(p)
           /\ Withdrawn(presentation[p].of)' = Withdrawn(presentation[p].of)
BY DEF HolderSigned, IssuerSigned, SignedBy, SigningData, resolveKey, keyVars, Withdrawn

LEMMA OpenSessionKeeps ==
    ASSUME PapersInv, SessionsInv, NEW s \in Session, NEW asks \in BOOLEAN,
           NEW trusted \in SUBSET Issuer, OpenSession(s, asks, trusted), UNCHANGED keyVars
    PROVE  /\ PapersInv' /\ SessionsInv' /\ session'[s].pc = "open"
           /\ \A t \in Session : t # s => session'[t] = session[t]
<1> DEFINE r == [[[session[s] EXCEPT !.pc = "open"] EXCEPT !.asks = asks] EXCEPT !.trusted = trusted]
<1>1. session[s] \in SessionRecord
    BY DEF SessionsInv
<1>2. r \in SessionRecord /\ r.pc = "open"
    BY <1>1 DEF SessionRecord
<1>3. session' = [session EXCEPT ![s] = r] /\ session'[s] = r
    BY DEF OpenSession, SessionsInv
<1> HIDE DEF r
<1>4. GoodSession(s)'
    BY <1>2, <1>3 DEF GoodSession
<1>5. \A t \in Session : t # s => session'[t] = session[t]
    BY <1>3 DEF SessionsInv
<1> QED
    BY <1>2, <1>3, <1>4, <1>5, OneSession DEF OpenSession

\* A presentation has its integrity, so that only a challenge is refused here.
LEMMA VerifyKeeps ==
    ASSUME PapersInv, SessionsInv, NEW s \in Session, NEW p \in Presentation,
           presentation[p].made, Verify(s, p), UNCHANGED keyVars
    PROVE  /\ PapersInv' /\ SessionsInv'
           /\ session'[s].checks = p /\ session'[s].asks = session[s].asks
           /\ session'[s].pc \in {"holderKey", "refused"}
           /\ \A t \in Session : t # s => session'[t] = session[t]
<1> USE DEF Verify
<1>1. session[s] \in SessionRecord /\ session \in [Session -> SessionRecord]
    BY DEF SessionsInv
<1>2. CASE ChecksData(s, p)
    <2> DEFINE r == [session[s] EXCEPT !.pc = "holderKey", !.checks = p, !.restored = FALSE]
    <2>1. r \in SessionRecord /\ r.pc = "holderKey" /\ r.checks = p /\ r.asks = session[s].asks
        BY <1>1 DEF SessionRecord
    <2>2. session' = [session EXCEPT ![s] = r] /\ session'[s] = r
        BY <1>1, <1>2
    <2> HIDE DEF r
    <2>3. GoodSession(s)'
        BY <1>2, <2>1, <2>2 DEF GoodSession, ChecksData
    <2> QED
        BY <1>1, <2>1, <2>2, <2>3, OneSession
<1>3. CASE ~ChecksData(s, p)
    <2> DEFINE r == [[session[s] EXCEPT !.pc = "refused", !.cause = TRUE] EXCEPT !.checks = p]
    <2>1. r \in SessionRecord /\ r.pc = "refused" /\ r.checks = p /\ r.asks = session[s].asks
        BY <1>1 DEF SessionRecord
    <2>2. session' = [session EXCEPT ![s] = r] /\ session'[s] = r
        BY <1>1, <1>3 DEF Refused
    <2> HIDE DEF r
    <2>3. session[s].asks /\ presentation[p].challenge # s
        BY <1>3 DEF ChecksData, PapersInv, GoodPresentation, GoodData
    <2>4. GoodSession(s)'
        BY <2>1, <2>2, <2>3 DEF GoodSession, Cause
    <2> QED
        BY <1>1, <2>1, <2>2, <2>4, OneSession
<1> QED
    BY <1>2, <1>3

\* A step of a verification that is waiting: what it checks and asks for stays.
Checking(s) ==
    /\ session'[s].checks = session[s].checks /\ session'[s].asks = session[s].asks
    /\ session[s].pc \in {"holderKey", "issuerKey", "stream"}
    /\ session'[s].pc \notin {"idle", "open", "holderKey"}
    /\ \A t \in Session : t # s => session'[t] = session[t]

\* A check that fails refuses for its cause.
LEMMA RefusedKeeps ==
    ASSUME PapersInv, SessionsInv, NEW s \in Session, NEW cause \in BOOLEAN,
           session[s].pc \in {"holderKey", "issuerKey", "stream"},
           session' = [session EXCEPT ![s] = Refused(s, cause)],
           UNCHANGED <<keyVars, document, stream, presentation>>,
           cause => Cause(s)
    PROVE  PapersInv' /\ SessionsInv' /\ Checking(s)
<1> DEFINE r == Refused(s, cause)
<1>1. session[s] \in SessionRecord /\ session \in [Session -> SessionRecord]
    BY DEF SessionsInv
<1>2. /\ r \in SessionRecord /\ r.pc = "refused" /\ r.cause = cause
      /\ r.checks = session[s].checks /\ r.asks = session[s].asks
      /\ r.trusted = session[s].trusted /\ r.restored = session[s].restored
    BY <1>1 DEF Refused, SessionRecord
<1> HIDE DEF r
<1>3. session'[s] = r
    BY <1>1 DEF r
<1>4. Cause(s) => Cause(s)'
    BY <1>2, <1>3, SameChecks DEF Cause
<1>5. session[s].checks \in Presentation /\ presentation[session[s].checks].made
    BY DEF SessionsInv, GoodSession
<1>6. GoodSession(s)'
    BY <1>2, <1>3, <1>4, <1>5 DEF GoodSession
<1>7. PapersInv' /\ SessionsInv'
    BY <1>2, <1>6, OneSession DEF r
<1> QED
    BY <1>1, <1>2, <1>3, <1>7 DEF Checking

\* A check that succeeds goes on with what it found.
LEMMA FoundKeeps ==
    ASSUME PapersInv, SessionsInv, NEW s \in Session, NEW r \in SessionRecord,
           session[s].pc \in {"holderKey", "issuerKey", "stream"},
           r.pc \in {"issuerKey", "stream", "accepted"},
           r.checks = session[s].checks, r.asks = session[s].asks,
           session' = [session EXCEPT ![s] = r],
           UNCHANGED <<keyVars, document, stream, presentation>>,
           r.pc = "issuerKey" => \/ r.wasValid \/ r.restored
                                 \/ ~IssuerSigned(r.checks)
                                 \/ Withdrawn(presentation[r.checks].of),
           r.pc = "stream" => r.wasValid \/ r.restored \/ Withdrawn(presentation[r.checks].of),
           r.pc = "accepted" => r.wasValid \/ r.restored
    PROVE  PapersInv' /\ SessionsInv' /\ Checking(s)
<1>1. session'[s] = r
    BY DEF SessionsInv
<1>2. GoodSession(s)
    BY DEF SessionsInv
<1>3. GoodSession(s)'
    BY <1>1, <1>2, SameChecks DEF GoodSession
<1>4. PapersInv' /\ SessionsInv'
    BY <1>3, OneSession
<1> QED
    BY <1>1, <1>4 DEF Checking, SessionsInv

LEMMA CheckHolderKeeps ==
    ASSUME PapersInv, SessionsInv, NEW s \in Session, CheckHolder(s), UNCHANGED keyVars
    PROVE  PapersInv' /\ SessionsInv' /\ Checking(s)
<1> DEFINE p == session[s].checks
           valid == /\ IssuerSigned(p)
                    /\ stream[presentation[p].of] \notin {"revoked", "removed"}
<1> USE DEF CheckHolder
<1>1. session[s] \in SessionRecord
    BY DEF SessionsInv
<1>2. CASE HolderSigned(p)
    <2> DEFINE r == [session[s] EXCEPT !.pc = "issuerKey", !.wasValid = valid]
    <2>1. session' = [session EXCEPT ![s] = r]
        BY <1>2
    <2> HIDE DEF valid
    <2>2. valid \in BOOLEAN
        BY DEF valid
    <2>3. r \in SessionRecord /\ r.pc = "issuerKey" /\ r.checks = p
          /\ r.asks = session[s].asks /\ r.wasValid = valid
        BY <1>1, <2>2 DEF SessionRecord
    <2> HIDE DEF r
    <2>4. r.wasValid \/ ~IssuerSigned(p) \/ Withdrawn(presentation[p].of)
        BY <2>3 DEF valid, Withdrawn
    <2> QED
        BY <2>1, <2>3, <2>4, FoundKeeps
<1>3. CASE ~HolderSigned(p)
    BY <1>3, RefusedKeeps DEF Cause
<1> QED
    BY <1>2, <1>3

LEMMA CheckIssuerKeeps ==
    ASSUME PapersInv, SessionsInv, NEW s \in Session, CheckIssuer(s), UNCHANGED keyVars
    PROVE  PapersInv' /\ SessionsInv' /\ Checking(s)
<1> DEFINE p == session[s].checks
<1> USE DEF CheckIssuer
<1>1. session[s] \in SessionRecord /\ GoodSession(s)
    BY DEF SessionsInv
<1>2. CASE IssuerSigned(p)
    <2> DEFINE r == [session[s] EXCEPT !.pc = "stream"]
    <2>1. session' = [session EXCEPT ![s] = r]
        BY <1>2
    <2>2. r \in SessionRecord /\ r.pc = "stream" /\ r.checks = p /\ r.asks = session[s].asks
          /\ r.wasValid = session[s].wasValid /\ r.restored = session[s].restored
        BY <1>1 DEF SessionRecord
    <2> HIDE DEF r
    <2>3. r.wasValid \/ r.restored \/ Withdrawn(presentation[p].of)
        BY <1>1, <1>2, <2>2 DEF GoodSession
    <2> QED
        BY <2>1, <2>2, <2>3, FoundKeeps
<1>3. CASE ~IssuerSigned(p)
    BY <1>3, RefusedKeeps DEF Cause
<1> QED
    BY <1>2, <1>3

LEMMA CheckStreamKeeps ==
    ASSUME PapersInv, SessionsInv, NEW s \in Session, CheckStream(s), UNCHANGED keyVars
    PROVE  PapersInv' /\ SessionsInv' /\ Checking(s)
<1> DEFINE p == session[s].checks
           d == presentation[p].of
<1> USE DEF CheckStream
<1>1. session[s] \in SessionRecord /\ GoodSession(s)
    BY DEF SessionsInv
<1>2. d \in Document
    BY <1>1 DEF GoodSession, PapersInv, GoodPresentation
<1>3. CASE StreamGood(s, d)
    <2> DEFINE r == [session[s] EXCEPT !.pc = "accepted"]
    <2>1. session' = [session EXCEPT ![s] = r]
        BY <1>3
    <2>2. r \in SessionRecord /\ r.pc = "accepted" /\ r.checks = p /\ r.asks = session[s].asks
          /\ r.wasValid = session[s].wasValid /\ r.restored = session[s].restored
        BY <1>1 DEF SessionRecord
    <2> HIDE DEF r
    <2>3. r.wasValid \/ r.restored
        BY <1>1, <1>3, <2>2 DEF GoodSession, StreamGood, Withdrawn
    <2> QED
        BY <2>1, <2>2, <2>3, FoundKeeps
<1>4. CASE ~StreamGood(s, d)
    <2>1. session' = [session EXCEPT ![s] = Refused(s, stream[d] # "none")]
        BY <1>4
    <2>2. stream[d] # "none" => Cause(s)
        BY <1>2, <1>4 DEF StreamGood, Cause, Withdrawn, PapersInv, Tables
    <2> QED
        BY <2>1, <2>2, RefusedKeeps
<1> QED
    BY <1>3, <1>4

LEMMA QueryFailsKeeps ==
    ASSUME PapersInv, SessionsInv, NEW s \in Session, QueryFails(s), UNCHANGED keyVars
    PROVE  PapersInv' /\ SessionsInv' /\ Checking(s)
BY RefusedKeeps DEF QueryFails

LEMMA PapersAtStart == KeysInit /\ CredentialInit => PapersInv /\ SessionsInv
<1> SUFFICES ASSUME KeysInit, CredentialInit PROVE PapersInv /\ SessionsInv
    OBVIOUS
<1>1. PapersInv
    BY DEF KeysInit, CredentialInit, PapersInv, Tables, None
<1>2. SessionsInv
    BY DEF CredentialInit, SessionsInv, SessionRecord, GoodSession
<1> QED
    BY <1>1, <1>2
=============================================================================
