------------------------------- MODULE Content -------------------------------
(***************************************************************************)
(* Contents and documents as data: statements, salted hashes, the document *)
(* hash, selective disclosure and the checks that need no chain            *)
(* (modules/src/content/Content.ts, modules/src/document/Document.ts, and  *)
(* hashStatements of utils/src/Crypto.ts).                                 *)
(*                                                                         *)
(* A hash is the value it hashes, in a record of its own: equal if and     *)
(* only if the inputs are.  A statement is one key of a content with its   *)
(* value; contentHashes is an ordered list in the code and a set here,     *)
(* because hashContents sorts it.  Evidence is one level deep.             *)
(***************************************************************************)

\* The string of one statement: {"<schemaId>#<key>": value}, or {"@holder": did}
\* and {"@issuer": did}, which carry no schema.
Statement(schemaId, key, value) == [schema |-> schemaId, key |-> key, value |-> value]

NoSchema == "none"

makeStatementsJsonLD(content) ==
    {Statement(content.schemaId, k, content.contents[k]) : k \in DOMAIN content.contents}
        \cup {Statement(NoSchema, "@holder", content.holder),
              Statement(NoSchema, "@issuer", content.issuer)}

\* hashStatements: the salted hash is computed over the digest and the nonce.
SaltedHash(statement, nonce) == [digest |-> statement, nonce |-> nonce]

\* hashContents: the salted hashes, and the nonces of the statements that are there.
Hashes(content, nonces) ==
    {SaltedHash(s, nonces[s]) : s \in makeStatementsJsonLD(content)}

NonceMap(content, nonces) == [s \in makeStatementsJsonLD(content) |-> nonces[s]]

\* getHashLeaves and getHashRoot: what the document hash commits to.
calculateDocumentHash(document) ==
    [contents |-> document.contentHashes,
     evidence |-> {e.identifier : e \in document.evidenceIds},
     createdAt |-> document.createdAt,
     validUntil |-> document.validUntil]

\* fromContent, without the signature: nonces are fresh, one for each statement.
fromContent(identifier, content, nonces, evidence, createdAt, validUntil) ==
    LET hashes == Hashes(content, nonces)
        unsigned == [contentHashes |-> hashes, evidenceIds |-> evidence,
                     createdAt |-> createdAt, validUntil |-> validUntil]
    IN  [identifier |-> identifier, content |-> content,
         contentHashes |-> hashes, contentNonceMap |-> NonceMap(content, nonces),
         evidenceIds |-> evidence, createdAt |-> createdAt, validUntil |-> validUntil,
         documentHash |-> calculateDocumentHash(unsigned)]

-----------------------------------------------------------------------------
(* Selective disclosure.                                                   *)

Without(content, properties) ==
    [content EXCEPT !.contents = [k \in DOMAIN @ \ properties |-> @[k]]]

\* Mutant: the nonces of the removed properties stay.
removeContentProperties_keepNonces(document, properties) ==
    [document EXCEPT !.content = Without(@, properties)]

\* Mutant: the hashes are those of the contents that remain.
removeContentProperties_rehash(document, properties) ==
    LET content == Without(document.content, properties)
    IN  [document EXCEPT !.content = content,
                         !.contentHashes = Hashes(content, document.contentNonceMap),
                         !.contentNonceMap = NonceMap(content, @)]

\* The hashes stay, the contents and the nonces of the removed properties go.
removeContentProperties(document, properties) ==
    LET content == Without(document.content, properties)
    IN  [document EXCEPT !.content = content,
                         !.contentNonceMap = NonceMap(content, @)]

\* createPresentation: every attribute that was not selected is removed.
Excluded(document, selected) == DOMAIN document.content.contents \ selected

-----------------------------------------------------------------------------
(* Verification.                                                           *)

verifyDocumentHash(document) == document.documentHash = calculateDocumentHash(document)

\* Every statement has a nonce, and its salted hash is among the hashes.
verifyDisclosedAttributes(content, nonces, hashes) ==
    \A s \in makeStatementsJsonLD(content) :
        s \in DOMAIN nonces /\ SaltedHash(s, nonces[s]) \in hashes

verifyOwnData(document) ==
    /\ verifyDocumentHash(document)
    /\ verifyDisclosedAttributes(document.content, document.contentNonceMap,
                                 document.contentHashes)

verifyDataIntegrity(document) ==
    verifyOwnData(document) /\ \A e \in document.evidenceIds : verifyOwnData(e)
==============================================================================
