--------------------------- MODULE Exchange_proofs ---------------------------
(***************************************************************************)
(* Theorems about the exchange of credentials, for every set of DIDs,      *)
(* documents, presentations, letters and sessions, and every number of key *)
(* changes.  The papers and the verifications are the subject of           *)
(* Credential_proofs; here are the messages, and what joins the two.       *)
(***************************************************************************)
EXTENDS Exchange, Credential_proofs

-----------------------------------------------------------------------------
(* The invariants of keys and messages.                                    *)

\* The DID exists, and has added and removed no agreement key.
Quiet(d) == changes[d] = 0 /\ d \notin deactivated /\ agreement[d] = {0}

KeysInv ==
    /\ changes \in [Did -> Nat] /\ agreement \in [Did -> SUBSET Nat]
    /\ \A d \in Did : changes[d] = 0 => agreement[d] = {0}

SomeKey == [did : Did, number : Int]
SealedRecord == [message : Message, sealedBy : SomeKey, senderKey : SomeKey, receiverKey : SomeKey]
LetterRecord ==
    [pc : {"senderDocument", "receiverDocument", "encrypt", "sent", "failed"},
     message : Message, keypair : SomeKey, senderKey : SomeKey, receiverKey : SomeKey]
ReadingRecord ==
    [pc : {"resolving", "read", "unreadable", "threw", "rejected"},
     sealed : SealedRecord, keypair : SomeKey]

\* The key of a quiet DID is the one it began with.
FirstIfQuiet(key) == Quiet(key.did) => key.number = 0

\* A message of the exchange: somebody's presentation, for the verifier.
ForVerifier(message) == message.receiver = Verifier /\ presentation[message.body].made

GoodLetter(l) ==
    LET v == letter[l] IN
    v # Idle =>
        /\ v \in LetterRecord /\ ForVerifier(v.message)
        /\ v.keypair.did = v.senderKey.did /\ FirstIfQuiet(v.keypair)
        /\ v.pc \in {"receiverDocument", "encrypt"} => FirstIfQuiet(v.senderKey)
        /\ v.pc = "encrypt" => FirstIfQuiet(v.receiverKey)

GoodSealed(m) ==
    /\ m \in SealedRecord /\ ForVerifier(m.message)
    /\ m.receiverKey.did = m.message.receiver /\ m.sealedBy.did = m.senderKey.did
    /\ FirstIfQuiet(m.sealedBy) /\ FirstIfQuiet(m.senderKey) /\ FirstIfQuiet(m.receiverKey)

GoodReading(r) ==
    LET v == reading[r] IN
    v # Idle =>
        /\ v \in ReadingRecord /\ GoodSealed(v.sealed)
        /\ v.keypair.did = Verifier /\ FirstIfQuiet(v.keypair)
        /\ v.pc = "read" => /\ v.sealed.senderKey = v.sealed.sealedBy
                            /\ v.sealed.message.sender = v.sealed.senderKey.did
        /\ v.pc = "unreadable" => \/ v.sealed.message.sender # v.sealed.senderKey.did
                                  \/ ~Quiet(v.sealed.senderKey.did)
                                  \/ ~Quiet(v.sealed.receiverKey.did)

MessagesInv ==
    /\ letter = [l \in Letter |-> letter[l]] /\ reading = [s \in Session |-> reading[s]]
    /\ \A l \in Letter : GoodLetter(l)
    /\ \A m \in network : GoodSealed(m)
    /\ \A s \in Session : GoodReading(s)

\* A session verifies the presentation in the message it has read.
GoodMeeting(s) ==
    session[s].pc \notin {"idle", "open"} =>
        /\ reading[s] # Idle /\ reading[s].pc = "read"
        /\ reading[s].sealed.message.body = session[s].checks
        /\ reading[s].sealed.message.sender = Holder

Inv == PapersInv /\ SessionsInv /\ KeysInv /\ MessagesInv /\ \A s \in Session : GoodMeeting(s)

\* What no step undoes, of the papers and of the keys.
Onward == Later /\ \A d \in Did : Quiet(d)' => Quiet(d)

-----------------------------------------------------------------------------
(* Messages that exist stay good.                                          *)

LEMMA KeyStays ==
    ASSUME Onward, NEW key \in SomeKey, FirstIfQuiet(key)
    PROVE  FirstIfQuiet(key)'
<1>1. key.did \in Did
    BY DEF SomeKey
<1> QED
    BY <1>1 DEF Onward, FirstIfQuiet

LEMMA AddressStays ==
    ASSUME Onward, NEW message \in Message, ForVerifier(message)
    PROVE  ForVerifier(message)'
<1>1. message.body \in Presentation
    BY CompositionAssumption DEF Message
<1> QED
    BY <1>1 DEF Onward, Later, ForVerifier

LEMMA SealedStays ==
    ASSUME Onward, NEW m, GoodSealed(m) PROVE GoodSealed(m)'
<1>1. m.message \in Message /\ m.sealedBy \in SomeKey /\ m.senderKey \in SomeKey
      /\ m.receiverKey \in SomeKey
    BY DEF GoodSealed, SealedRecord
<1>2. ForVerifier(m.message)'
    BY <1>1, AddressStays DEF GoodSealed
<1>3. FirstIfQuiet(m.sealedBy)' /\ FirstIfQuiet(m.senderKey)' /\ FirstIfQuiet(m.receiverKey)'
    BY <1>1, KeyStays DEF GoodSealed
<1> QED
    BY <1>2, <1>3 DEF GoodSealed

LEMMA LetterStays ==
    ASSUME Onward, NEW l \in Letter, GoodLetter(l), letter'[l] = letter[l]
    PROVE  GoodLetter(l)'
<1> DEFINE v == letter[l]
<1>1. CASE v = Idle
    BY <1>1 DEF GoodLetter
<1>2. CASE v # Idle
    <2>1. v.message \in Message /\ v.keypair \in SomeKey /\ v.senderKey \in SomeKey
          /\ v.receiverKey \in SomeKey
        BY <1>2 DEF GoodLetter, LetterRecord
    <2>2. ForVerifier(letter[l].message)'
        <3>1. ForVerifier(v.message)
            BY <1>2 DEF GoodLetter
        <3> QED
            BY <2>1, <3>1, AddressStays DEF ForVerifier
    <2>3. /\ FirstIfQuiet(v.keypair) => FirstIfQuiet(letter[l].keypair)'
          /\ FirstIfQuiet(v.senderKey) => FirstIfQuiet(letter[l].senderKey)'
          /\ FirstIfQuiet(v.receiverKey) => FirstIfQuiet(letter[l].receiverKey)'
        BY <2>1, KeyStays DEF FirstIfQuiet
    <2> QED
        BY <1>2, <2>2, <2>3 DEF GoodLetter
<1> QED
    BY <1>1, <1>2

LEMMA ReadingStays ==
    ASSUME Onward, NEW s \in Session, GoodReading(s), reading'[s] = reading[s]
    PROVE  GoodReading(s)'
<1> DEFINE v == reading[s]
<1>1. CASE v = Idle
    BY <1>1 DEF GoodReading
<1>2. CASE v # Idle
    <2>1. v.sealed \in SealedRecord /\ v.keypair \in SomeKey /\ GoodSealed(v.sealed)
        BY <1>2 DEF GoodReading, ReadingRecord
    <2>2. v.sealed.senderKey.did \in Did /\ v.sealed.receiverKey.did \in Did
        BY <2>1 DEF SealedRecord, SomeKey
    <2>3. GoodSealed(reading[s].sealed)'
        <3>1. ASSUME NEW m, GoodSealed(m)', m = reading'[s].sealed PROVE GoodSealed(reading[s].sealed)'
            BY <3>1 DEF GoodSealed, ForVerifier, FirstIfQuiet, Quiet
        <3> QED
            BY <2>1, <3>1, SealedStays
    <2>4. FirstIfQuiet(v.keypair) => FirstIfQuiet(reading[s].keypair)'
        BY <2>1, KeyStays DEF FirstIfQuiet
    <2>5. /\ ~Quiet(v.sealed.senderKey.did) => ~Quiet(reading[s].sealed.senderKey.did)'
          /\ ~Quiet(v.sealed.receiverKey.did) => ~Quiet(reading[s].sealed.receiverKey.did)'
        BY <2>2 DEF Onward, Quiet
    <2> QED
        BY <1>2, <2>3, <2>4, <2>5 DEF GoodReading
<1> QED
    BY <1>1, <1>2

LEMMA MeetingStays ==
    ASSUME Inv, NEW s \in Session, reading'[s] = reading[s],
           session'[s].checks = session[s].checks,
           session[s].pc \in {"idle", "open"} => session'[s].pc \in {"idle", "open"}
    PROVE  GoodMeeting(s)'
BY DEF Inv, GoodMeeting

-----------------------------------------------------------------------------
(* Steps that send and read nothing.                                       *)

LEMMA MessagesStay ==
    ASSUME Inv, Onward, UNCHANGED messagingVars
    PROVE  MessagesInv'
BY LetterStays, SealedStays, ReadingStays DEF Inv, MessagesInv, messagingVars

LEMMA SameKeys ==
    ASSUME Inv, Later, UNCHANGED keyVars
    PROVE  Onward /\ KeysInv'
BY DEF Inv, Onward, Quiet, KeysInv, keyVars

\* Changes are counted, and a DID that was deleted never comes back.
LEMMA KeysGrow ==
    ASSUME KeysInv, NEW d \in Did, ChangeKeys(d)
    PROVE  KeysInv' /\ \A e \in Did : Quiet(e)' => Quiet(e)
<1> USE DEF KeysInv
<1>1. CASE (\E n \in KeyNumber : SetAuthenticationKey(d, n)) \/ Delete(d)
    <2>1. UNCHANGED <<agreement, changes>> /\ deactivated \subseteq deactivated'
        BY <1>1 DEF SetAuthenticationKey, Delete
    <2> QED
        BY <2>1 DEF Quiet
<1>2. CASE AddKeyAgreementKey(d) \/ RemoveKeyAgreementKey(d)
    <2>1. PICK numbers \in SUBSET Nat : ChangesAgreement(d, numbers)
        <3>1. CASE AddKeyAgreementKey(d)
            <4>1. PICK n \in KeyPairs(d) \cup {changes[d] + 1} :
                    ChangesAgreement(d, agreement[d] \cup {n})
                BY <3>1 DEF AddKeyAgreementKey
            <4>2. n \in Nat /\ agreement[d] \cup {n} \in SUBSET Nat
                BY <4>1 DEF KeyPairs
            <4> QED
                BY <4>1, <4>2
        <3>2. CASE RemoveKeyAgreementKey(d)
            BY <3>2 DEF RemoveKeyAgreementKey
        <3> QED
            BY <1>2, <3>1, <3>2
    <2>2. agreement' = [agreement EXCEPT ![d] = numbers] /\ deactivated' = deactivated
          /\ changes' = [changes EXCEPT ![d] = @ + 1]
        BY <2>1 DEF ChangesAgreement
    <2>3. changes'[d] \in Nat /\ changes'[d] # 0
        BY <2>2
    <2> QED
        BY <2>2, <2>3 DEF Quiet
<1> QED
    BY <1>1, <1>2 DEF ChangeKeys

LEMMA KeysKeep ==
    ASSUME Inv, NEW d \in Did, ChangeKeys(d), UNCHANGED messagingVars
    PROVE  Inv'
<1>1. PapersInv' /\ Later
    BY KeysKeepPapers DEF Inv
<1>2. KeysInv' /\ Onward
    BY <1>1, KeysGrow DEF Inv, Onward
<1>3. SessionsInv' /\ \A s \in Session :
          session'[s].pc = session[s].pc /\ session'[s].checks = session[s].checks
    BY KeysKeepSessions DEF Inv
<1>4. MessagesInv'
    BY <1>2, MessagesStay
<1>5. \A s \in Session : GoodMeeting(s)'
    BY <1>3, MeetingStays DEF messagingVars
<1> QED
    BY <1>1, <1>2, <1>3, <1>4, <1>5 DEF Inv

\* Steps of issuers and holders, which make papers.
LEMMA PapersKeep ==
    ASSUME Inv, PapersInv', Later, UNCHANGED <<keyVars, messagingVars, session, stream>>
    PROVE  Inv'
<1>1. KeysInv' /\ Onward
    BY SameKeys
<1>2. SessionsInv'
    BY OthersKeepSessions DEF Inv, keyVars
<1>3. MessagesInv'
    BY <1>1, MessagesStay
<1>4. \A s \in Session : GoodMeeting(s)'
    BY MeetingStays DEF messagingVars
<1> QED
    BY <1>1, <1>2, <1>3, <1>4 DEF Inv

LEMMA IssuerKeeps ==
    ASSUME Inv, IssuerNext, UNCHANGED <<keyVars, messagingVars>>
    PROVE  Inv'
<1>1. PICK d \in Document :
        \/ \E i \in Issuer, c \in Contents, evidence \in Attachments, n \in KeyNumber :
              FromContent(d, i, c, evidence, n)
        \/ CreateStream(d)
        \/ \E shouldRemove \in BOOLEAN : RevokeCredential(d, shouldRemove)
        \/ RestoreStream(d)
    BY DEF IssuerNext
<1>2. CASE \E i \in Issuer, c \in Contents, evidence \in Attachments, n \in KeyNumber :
              FromContent(d, i, c, evidence, n)
    <2>1. PapersInv' /\ Later
        BY <1>2, FromContentKeepsPapers DEF Inv
    <2>2. UNCHANGED <<session, stream>>
        BY <1>2 DEF FromContent
    <2> QED
        BY <2>1, <2>2, PapersKeep
<1>3. CASE \/ CreateStream(d) \/ RestoreStream(d)
           \/ \E shouldRemove \in BOOLEAN : RevokeCredential(d, shouldRemove)
    <2>1. /\ PapersInv' /\ SessionsInv' /\ Later
          /\ \A s \in Session :
                session'[s].pc = session[s].pc /\ session'[s].checks = session[s].checks
        BY <1>3, StreamsKeepSessions DEF Inv
    <2>2. KeysInv' /\ Onward
        BY <2>1, SameKeys
    <2>3. MessagesInv'
        BY <2>2, MessagesStay
    <2>4. \A s \in Session : GoodMeeting(s)'
        BY <2>1, MeetingStays DEF messagingVars
    <2> QED
        BY <2>1, <2>2, <2>3, <2>4 DEF Inv
<1> QED
    BY <1>1, <1>2, <1>3

LEMMA HolderKeeps ==
    ASSUME Inv, HolderNext, UNCHANGED <<keyVars, messagingVars>>
    PROVE  Inv'
<1>1. PICK p \in Presentation, challenge \in Asked, n \in KeyNumber :
        \/ \E d \in Document : document[d].made /\
              \E selected \in SUBSET AttributesOf(d) : PresentDocument(p, d, selected, challenge, n)
        \/ \E q \in Presentation : presentation[q].made /\
              \E selected \in SUBSET AttributesOf(presentation[q].of) :
                  PresentAgain(p, q, selected, challenge, n)
    BY DEF HolderNext
<1>2. PICK selected : \/ \E d \in Document : PresentDocument(p, d, selected, challenge, n)
                      \/ \E q \in Presentation : PresentAgain(p, q, selected, challenge, n)
    BY <1>1
<1>3. PapersInv' /\ Later
    BY <1>2, HolderKeepsPapers DEF Inv
<1>4. UNCHANGED <<session, stream>>
    BY <1>2 DEF PresentDocument, PresentAgain, Present
<1> QED
    BY <1>3, <1>4, PapersKeep

\* Steps of a session that check nothing new about its message.
LEMMA VerifierKeeps ==
    ASSUME Inv, VerifierNext, UNCHANGED <<keyVars, messagingVars>>
    PROVE  Inv'
<1>1. PICK s \in Session :
        \/ \E request \in Requests : OpenSession(s, request.asks, request.trusted)
        \/ CheckHolder(s) \/ CheckIssuer(s) \/ CheckStream(s) \/ QueryFails(s)
    BY DEF VerifierNext
<1>2. UNCHANGED <<document, presentation, stream>>
    BY <1>1 DEF OpenSession, CheckHolder, CheckIssuer, CheckStream, QueryFails
<1>3. Later
    BY <1>2, OthersKeepPapers DEF Inv, PapersInv, Tables
<1>4. KeysInv' /\ Onward
    BY <1>3, SameKeys
<1>5. MessagesInv'
    BY <1>4, MessagesStay
<1>6. CASE \E request \in Requests : OpenSession(s, request.asks, request.trusted)
    <2>1. PICK request \in Requests : OpenSession(s, request.asks, request.trusted)
        BY <1>6
    <2>2. request.asks \in BOOLEAN /\ request.trusted \in SUBSET Issuer
        BY InputsAssumption
    <2>3. /\ PapersInv' /\ SessionsInv' /\ session'[s].pc = "open"
          /\ \A t \in Session : t # s => session'[t] = session[t]
        BY <2>1, <2>2, OpenSessionKeeps DEF Inv
    <2>4. \A t \in Session : GoodMeeting(t)'
        BY <2>3, MeetingStays DEF messagingVars, GoodMeeting
    <2> QED
        BY <1>4, <1>5, <2>3, <2>4 DEF Inv
<1>7. CASE CheckHolder(s) \/ CheckIssuer(s) \/ CheckStream(s) \/ QueryFails(s)
    <2>1. PapersInv' /\ SessionsInv' /\ Checking(s)
        BY <1>7, CheckHolderKeeps, CheckIssuerKeeps, CheckStreamKeeps, QueryFailsKeeps DEF Inv
    <2>2. \A t \in Session : GoodMeeting(t)'
        BY <2>1, MeetingStays DEF messagingVars, Checking
    <2> QED
        BY <1>4, <1>5, <2>1, <2>2 DEF Inv
<1> QED
    BY <1>1, <1>6, <1>7

-----------------------------------------------------------------------------
(* Sending.                                                                *)

LEMMA PapersUntouched ==
    ASSUME Inv, UNCHANGED <<keyVars, credentialVars>>
    PROVE  PapersInv' /\ SessionsInv' /\ KeysInv' /\ Onward
<1>1. PapersInv' /\ Later
    BY OthersKeepPapers DEF Inv, credentialVars, PapersInv, Tables
<1>2. SessionsInv'
    BY <1>1, OthersKeepSessions DEF Inv, credentialVars, keyVars
<1> QED
    BY <1>1, <1>2, SameKeys

\* A step of one call of encryptMessage.
LEMMA OneLetter ==
    ASSUME Inv, UNCHANGED <<keyVars, credentialVars, reading>>,
           NEW l \in Letter, NEW r, letter' = [letter EXCEPT ![l] = r],
           letter'[l] = r => GoodLetter(l)',
           \A m \in network' : m \in network \/ GoodSealed(m)
    PROVE  Inv'
<1>1. PapersInv' /\ SessionsInv' /\ KeysInv' /\ Onward
    BY PapersUntouched
<1>2. letter' = [k \in Letter |-> letter'[k]] /\ letter'[l] = r
      /\ \A k \in Letter : k # l => letter'[k] = letter[k]
    BY DEF Inv, MessagesInv
<1>3. \A k \in Letter : GoodLetter(k)'
    BY <1>1, <1>2, LetterStays DEF Inv, MessagesInv
<1>4. \A m \in network' : GoodSealed(m)'
    BY <1>1, SealedStays DEF Inv, MessagesInv
<1>5. \A s \in Session : GoodReading(s)'
    BY <1>1, ReadingStays DEF Inv, MessagesInv
<1>6. MessagesInv'
    BY <1>2, <1>3, <1>4, <1>5 DEF MessagesInv, Inv
<1>7. \A s \in Session : GoodMeeting(s)'
    BY MeetingStays DEF credentialVars
<1> QED
    BY <1>1, <1>6, <1>7 DEF Inv

LEMMA SendKeeps ==
    ASSUME Inv, NEW l \in Letter, NEW p \in Presentation, NEW address \in Addressing,
           Send(l, p, address)
    PROVE  Inv'
<1> DEFINE message == [body |-> p, sender |-> address.sender, receiver |-> Verifier]
<1>1. address.sender \in Did /\ address.senderUri \in Did /\ address.receiverUri \in Did
      /\ Verifier \in Did
    BY InputsAssumption, VerifierAssumption
<1>2. message \in Message /\ message.receiver = Verifier /\ message.body = p
    BY <1>1, CompositionAssumption DEF Message
<1>3. presentation[p].made /\ UNCHANGED <<keyVars, credentialVars, network, reading>>
      /\ Compose(l, message, address.senderUri, address.receiverUri)
    BY Zenon DEF Send, Compose
<1> HIDE DEF message
<1>4. PICK n \in KeyPairs(address.senderUri) :
        letter' = [letter EXCEPT ![l] =
            [pc |-> "senderDocument", message |-> message,
             keypair |-> KeyOf(address.senderUri, n),
             senderKey |-> KeyOf(address.senderUri, NoKey),
             receiverKey |-> KeyOf(address.receiverUri, NoKey)]]
    BY <1>3 DEF Compose
<1> DEFINE r == [pc |-> "senderDocument", message |-> message,
                 keypair |-> KeyOf(address.senderUri, n),
                 senderKey |-> KeyOf(address.senderUri, NoKey),
                 receiverKey |-> KeyOf(address.receiverUri, NoKey)]
<1>5. n \in Int /\ (changes[address.senderUri] = 0 => n = 0)
    BY <1>1 DEF Inv, KeysInv, KeyPairs
<1>6. r \in LetterRecord /\ r.pc = "senderDocument" /\ r.message = message
      /\ r.keypair.did = r.senderKey.did /\ r.keypair.did = address.senderUri
      /\ r.keypair.number = n
    BY <1>1, <1>2, <1>5 DEF LetterRecord, SomeKey, KeyOf, NoKey
<1> HIDE DEF r
<1>7. ASSUME letter'[l] = r PROVE GoodLetter(l)'
    <2>1. FirstIfQuiet(letter[l].keypair)'
        BY <1>3, <1>5, <1>6, <1>7 DEF FirstIfQuiet, Quiet, keyVars
    <2>2. ForVerifier(letter[l].message)'
        BY <1>2, <1>3, <1>6, <1>7 DEF ForVerifier, credentialVars
    <2> QED
        BY <1>6, <1>7, <2>1, <2>2 DEF GoodLetter
<1>8. letter' = [letter EXCEPT ![l] = r]
    BY <1>4 DEF r
<1> QED
    BY <1>3, <1>7, <1>8, OneLetter

\* The first key of a quiet DID's document is the one it began with.
LEMMA FirstKeyOfQuiet ==
    ASSUME NEW d, NEW n, FirstKey(d, n), Quiet(d)
    PROVE  n = 0
BY DEF FirstKey, Quiet

LEMMA ResolveSenderKeeps ==
    ASSUME Inv, NEW l \in Letter, ResolveSender(l), UNCHANGED <<keyVars, credentialVars>>
    PROVE  Inv'
<1> DEFINE v == letter[l]
<1>1. v.pc = "senderDocument" /\ v # Idle /\ GoodLetter(l)
    BY DEF ResolveSender, Idle, Inv, MessagesInv
<1>2. v \in LetterRecord
    BY <1>1 DEF GoodLetter
<1>3. PICK n \in KeyNumber \cup {NoKey} :
        FirstKey(v.senderKey.did, n)
        /\ letter' = [letter EXCEPT ![l].pc = "receiverDocument", ![l].senderKey.number = n]
    BY DEF ResolveSender
<1>4. n \in Int
    BY KeysAssumption DEF KeyNumber, NoKey
<1> DEFINE k == [v.senderKey EXCEPT !.number = n]
           r == [v EXCEPT !.pc = "receiverDocument", !.senderKey = k]
<1>5. letter' = [letter EXCEPT ![l] = r]
    BY <1>3 DEF Inv, MessagesInv
<1>6. k \in SomeKey /\ k.did = v.senderKey.did /\ k.number = n
    BY <1>2, <1>4 DEF LetterRecord, SomeKey
<1> HIDE DEF k
<1>7. r \in LetterRecord /\ r.pc = "receiverDocument" /\ r.message = v.message
      /\ r.keypair = v.keypair /\ r.senderKey = k
    BY <1>2, <1>6 DEF LetterRecord
<1> HIDE DEF r
<1>8. ASSUME letter'[l] = r PROVE GoodLetter(l)'
    <2>1. FirstIfQuiet(letter[l].keypair)' /\ ForVerifier(letter[l].message)'
        BY <1>1, <1>7, <1>8 DEF GoodLetter, FirstIfQuiet, ForVerifier, Quiet, keyVars, credentialVars
    <2>2. FirstIfQuiet(letter[l].senderKey)'
        BY <1>3, <1>6, <1>7, <1>8, FirstKeyOfQuiet DEF FirstIfQuiet, Quiet, keyVars
    <2>3. r.keypair.did = r.senderKey.did
        BY <1>1, <1>6, <1>7 DEF GoodLetter
    <2> QED
        BY <1>7, <1>8, <2>1, <2>2, <2>3 DEF GoodLetter
<1> QED
    BY <1>5, <1>8, OneLetter DEF ResolveSender

LEMMA ResolveReceiverKeeps ==
    ASSUME Inv, NEW l \in Letter, ResolveReceiver(l), UNCHANGED <<keyVars, credentialVars>>
    PROVE  Inv'
<1> DEFINE v == letter[l]
<1>1. v.pc = "receiverDocument" /\ v # Idle /\ GoodLetter(l)
    BY DEF ResolveReceiver, Idle, Inv, MessagesInv
<1>2. v \in LetterRecord
    BY <1>1 DEF GoodLetter
<1>3. PICK n \in KeyNumber \cup {NoKey} :
        FirstKey(v.receiverKey.did, n)
        /\ letter' = [letter EXCEPT ![l].pc = "encrypt", ![l].receiverKey.number = n]
    BY DEF ResolveReceiver
<1>4. n \in Int
    BY KeysAssumption DEF KeyNumber, NoKey
<1> DEFINE k == [v.receiverKey EXCEPT !.number = n]
           r == [v EXCEPT !.pc = "encrypt", !.receiverKey = k]
<1>5. letter' = [letter EXCEPT ![l] = r]
    BY <1>3 DEF Inv, MessagesInv
<1>6. k \in SomeKey /\ k.did = v.receiverKey.did /\ k.number = n
    BY <1>2, <1>4 DEF LetterRecord, SomeKey
<1> HIDE DEF k
<1>7. r \in LetterRecord /\ r.pc = "encrypt" /\ r.message = v.message
      /\ r.keypair = v.keypair /\ r.senderKey = v.senderKey /\ r.receiverKey = k
    BY <1>2, <1>6 DEF LetterRecord
<1> HIDE DEF r
<1>8. ASSUME letter'[l] = r PROVE GoodLetter(l)'
    <2>1. /\ FirstIfQuiet(letter[l].keypair)' /\ FirstIfQuiet(letter[l].senderKey)'
          /\ ForVerifier(letter[l].message)'
        BY <1>1, <1>7, <1>8 DEF GoodLetter, FirstIfQuiet, ForVerifier, Quiet, keyVars, credentialVars
    <2>2. FirstIfQuiet(letter[l].receiverKey)'
        BY <1>3, <1>6, <1>7, <1>8, FirstKeyOfQuiet DEF FirstIfQuiet, Quiet, keyVars
    <2>3. r.keypair.did = r.senderKey.did
        BY <1>1, <1>7 DEF GoodLetter
    <2> QED
        BY <1>7, <1>8, <2>1, <2>2, <2>3 DEF GoodLetter
<1> QED
    BY <1>5, <1>8, OneLetter DEF ResolveReceiver

\* A call that ends, with a message in the network or without.
LEMMA LetterEnds ==
    ASSUME Inv, NEW l \in Letter, NEW pc \in {"sent", "failed"}, letter[l] # Idle,
           letter' = [letter EXCEPT ![l].pc = pc],
           UNCHANGED <<keyVars, credentialVars, reading>>,
           \A m \in network' : m \in network \/ GoodSealed(m)
    PROVE  Inv'
<1> DEFINE v == letter[l]
           r == [v EXCEPT !.pc = pc]
<1>1. GoodLetter(l) /\ v \in LetterRecord
    BY DEF GoodLetter, Inv, MessagesInv
<1>2. letter' = [letter EXCEPT ![l] = r]
    BY DEF Inv, MessagesInv
<1>3. r \in LetterRecord /\ r.pc = pc /\ r.message = v.message /\ r.keypair = v.keypair
      /\ r.senderKey = v.senderKey
    BY <1>1 DEF LetterRecord
<1> HIDE DEF r
<1>4. ASSUME letter'[l] = r PROVE GoodLetter(l)'
    <2>1. FirstIfQuiet(letter[l].keypair)' /\ ForVerifier(letter[l].message)'
        BY <1>1, <1>3, <1>4 DEF GoodLetter, FirstIfQuiet, ForVerifier, Quiet, keyVars, credentialVars
    <2>2. r.keypair.did = r.senderKey.did
        BY <1>1, <1>3 DEF GoodLetter
    <2> QED
        BY <1>3, <1>4, <2>1, <2>2 DEF GoodLetter
<1> QED
    BY <1>2, <1>4, OneLetter

LEMMA EncryptKeeps ==
    ASSUME Inv, NEW l \in Letter, encrypt(l) \/ EncryptThrows(l),
           UNCHANGED <<keyVars, credentialVars>>
    PROVE  Inv'
<1> DEFINE v == letter[l]
<1>1. v # Idle /\ GoodLetter(l)
    BY DEF encrypt, EncryptThrows, Idle, Inv, MessagesInv
<1>2. CASE encrypt(l)
    <2> DEFINE m == [message |-> v.message, sealedBy |-> v.keypair,
                     senderKey |-> v.senderKey, receiverKey |-> v.receiverKey]
    <2>1. v.pc = "encrypt" /\ MayEncrypt(l) /\ network' = network \cup {m}
          /\ letter' = [letter EXCEPT ![l].pc = "sent"] /\ reading' = reading
        BY <1>2 DEF encrypt
    <2>2. m \in SealedRecord /\ m.message = v.message /\ m.sealedBy = v.keypair
          /\ m.senderKey = v.senderKey /\ m.receiverKey = v.receiverKey
        BY <1>1 DEF GoodLetter, LetterRecord, SealedRecord
    <2> HIDE DEF m
    <2>3. GoodSealed(m)
        BY <1>1, <2>1, <2>2 DEF GoodLetter, GoodSealed, MayEncrypt
    <2> QED
        BY <1>1, <2>1, <2>3, LetterEnds
<1>3. CASE EncryptThrows(l)
    BY <1>1, <1>3, LetterEnds DEF EncryptThrows, Inv, MessagesInv
<1> QED
    BY <1>2, <1>3

-----------------------------------------------------------------------------
(* Reading.                                                                *)

\* A step of one reader, before its session has taken up a message.
LEMMA OneReader ==
    ASSUME Inv, UNCHANGED <<keyVars, credentialVars, letter, network>>,
           NEW s \in Session, NEW r, reading' = [reading EXCEPT ![s] = r],
           session[s].pc \in {"idle", "open"},
           reading'[s] = r => GoodReading(s)'
    PROVE  Inv'
<1>1. PapersInv' /\ SessionsInv' /\ KeysInv' /\ Onward
    BY PapersUntouched
<1>2. reading' = [t \in Session |-> reading'[t]] /\ reading'[s] = r
      /\ \A t \in Session : t # s => reading'[t] = reading[t]
    BY DEF Inv, MessagesInv
<1>3. \A t \in Session : GoodReading(t)'
    BY <1>1, <1>2, ReadingStays DEF Inv, MessagesInv
<1>4. MessagesInv'
    BY <1>1, <1>2, <1>3, LetterStays, SealedStays DEF Inv, MessagesInv
<1>5. \A t \in Session : GoodMeeting(t)'
    BY <1>2, MeetingStays DEF credentialVars, GoodMeeting
<1> QED
    BY <1>1, <1>4, <1>5 DEF Inv

\* A session that verifies has read its message.
LEMMA NotYetMet ==
    ASSUME Inv, NEW s \in Session, reading[s].pc # "read"
    PROVE  session[s].pc \in {"idle", "open"}
BY DEF Inv, GoodMeeting

LEMMA SameSealed ==
    ASSUME UNCHANGED <<keyVars, credentialVars>>, NEW m
    PROVE  GoodSealed(m) => GoodSealed(m)'
BY DEF GoodSealed, ForVerifier, FirstIfQuiet, Quiet, keyVars, credentialVars

LEMMA ReceiveKeeps ==
    ASSUME Inv, NEW s \in Session, NEW sealed \in network, Receive(s, sealed)
    PROVE  Inv'
<1>1. UNCHANGED <<keyVars, credentialVars, letter, network>> /\ session[s].pc = "open"
    BY DEF Receive, Read
<1>2. PICK n \in KeyPairs(Verifier) :
        reading' = [reading EXCEPT ![s] =
            [pc |-> "resolving", sealed |-> sealed, keypair |-> KeyOf(Verifier, n)]]
    BY DEF Receive, Read
<1>3. n \in Int /\ (changes[Verifier] = 0 => n = 0)
    BY VerifierAssumption DEF Inv, KeysInv, KeyPairs
<1>4. GoodSealed(sealed) /\ sealed \in SealedRecord
    BY DEF Inv, MessagesInv, GoodSealed
<1> DEFINE r == [pc |-> "resolving", sealed |-> sealed, keypair |-> KeyOf(Verifier, n)]
<1>5. r \in ReadingRecord /\ r.pc = "resolving" /\ r.sealed = sealed
      /\ r.keypair.did = Verifier /\ r.keypair.number = n
    BY <1>3, <1>4, VerifierAssumption DEF ReadingRecord, SomeKey, KeyOf
<1>6. reading' = [reading EXCEPT ![s] = r]
    BY <1>2
<1> HIDE DEF r
<1>7. ASSUME reading'[s] = r PROVE GoodReading(s)'
    <2>1. FirstIfQuiet(reading[s].keypair)'
        BY <1>1, <1>3, <1>5, <1>7 DEF FirstIfQuiet, Quiet, keyVars
    <2>2. GoodSealed(reading[s].sealed)'
        <3>1. GoodSealed(sealed)'
            BY <1>1, <1>4, SameSealed
        <3> QED
            BY <1>5, <1>7, <3>1 DEF GoodSealed, ForVerifier, FirstIfQuiet, Quiet
    <2> QED
        BY <1>5, <1>7, <2>1, <2>2 DEF GoodReading
<1> QED
    BY <1>1, <1>6, <1>7, OneReader

\* A reading that goes on to `pc` with the message it has.
LEMMA ReadingGoesOn ==
    ASSUME Inv, NEW s \in Session,
           NEW pc \in {"read", "unreadable", "threw", "rejected"},
           reading[s] # Idle, session[s].pc \in {"idle", "open"},
           reading' = [reading EXCEPT ![s].pc = pc],
           UNCHANGED <<keyVars, credentialVars, letter, network>>,
           LET m == reading[s].sealed IN
               /\ pc = "read" => m.senderKey = m.sealedBy /\ m.message.sender = m.senderKey.did
               /\ pc = "unreadable" => \/ m.message.sender # m.senderKey.did
                                       \/ ~Quiet(m.senderKey.did) \/ ~Quiet(m.receiverKey.did)
    PROVE  Inv'
<1> DEFINE v == reading[s]
           r == [v EXCEPT !.pc = pc]
<1>1. GoodReading(s) /\ v \in ReadingRecord
    BY DEF Inv, MessagesInv, GoodReading
<1>2. reading' = [reading EXCEPT ![s] = r]
    BY DEF Inv, MessagesInv
<1>3. r \in ReadingRecord /\ r.pc = pc /\ r.sealed = v.sealed /\ r.keypair = v.keypair
    BY <1>1 DEF ReadingRecord
<1> HIDE DEF r
<1>4. ASSUME reading'[s] = r PROVE GoodReading(s)'
    <2>1. FirstIfQuiet(reading[s].keypair)'
        BY <1>1, <1>3, <1>4 DEF GoodReading, FirstIfQuiet, Quiet, keyVars
    <2>2. GoodSealed(reading[s].sealed)'
        BY <1>1, <1>3, <1>4 DEF GoodReading, GoodSealed, ForVerifier, FirstIfQuiet, Quiet,
                                keyVars, credentialVars
    <2> QED
        BY <1>1, <1>3, <1>4, <2>1, <2>2 DEF GoodReading, Quiet, keyVars
<1> QED
    BY <1>2, <1>4, OneReader

LEMMA DecryptKeeps ==
    ASSUME Inv, NEW s \in Session, decrypt(s) \/ DecryptThrows(s),
           UNCHANGED <<keyVars, credentialVars>>
    PROVE  Inv'
<1> DEFINE v == reading[s]
           m == reading[s].sealed
<1>1. v.pc = "resolving" /\ v # Idle /\ UNCHANGED <<letter, network>>
    BY DEF decrypt, DecryptThrows, Idle
<1>2. session[s].pc \in {"idle", "open"}
    BY <1>1, NotYetMet
<1>3. GoodReading(s) /\ GoodSealed(m) /\ v.keypair.did = Verifier /\ FirstIfQuiet(v.keypair)
    BY <1>1 DEF Inv, MessagesInv, GoodReading
<1>4. CASE decrypt(s) /\ Deciphers(m, v.keypair)
    <2>1. reading' = [reading EXCEPT ![s].pc = "read"]
        BY <1>4 DEF decrypt
    <2> QED
        BY <1>1, <1>2, <1>4, <2>1, ReadingGoesOn DEF Deciphers, Opens
<1>5. CASE decrypt(s) /\ ~Deciphers(m, v.keypair)
    <2>1. reading' = [reading EXCEPT ![s].pc = "unreadable"]
        BY <1>5 DEF decrypt
    <2>2. ASSUME m.message.sender = m.senderKey.did, Quiet(m.senderKey.did),
                 Quiet(m.receiverKey.did)
          PROVE  FALSE
        <3>1. m.senderKey \in SomeKey /\ m.sealedBy \in SomeKey /\ m.receiverKey \in SomeKey
              /\ v.keypair \in SomeKey
            BY <1>1, <1>3 DEF GoodReading, ReadingRecord, GoodSealed, SealedRecord
        <3>2. m.senderKey = m.sealedBy
            BY <1>3, <2>2, <3>1 DEF GoodSealed, FirstIfQuiet, SomeKey
        <3>3. v.keypair = m.receiverKey
            BY <1>3, <2>2, <3>1 DEF GoodSealed, ForVerifier, FirstIfQuiet, SomeKey
        <3>4. resolveKey(m.senderKey, "keyAgreement")
            BY <1>3, <2>2 DEF GoodSealed, FirstIfQuiet, Quiet, resolveKey
        <3> QED
            BY <1>5, <2>2, <3>2, <3>3, <3>4 DEF Deciphers, Opens
    <2> QED
        BY <1>1, <1>2, <2>1, <2>2, ReadingGoesOn
<1>6. CASE DecryptThrows(s)
    BY <1>1, <1>2, <1>6, ReadingGoesOn DEF DecryptThrows
<1> QED
    BY <1>4, <1>5, <1>6 DEF decrypt

-----------------------------------------------------------------------------
(* Where the two meet.                                                     *)

LEMMA VerifyMessageKeeps ==
    ASSUME Inv, NEW s \in Session, VerifyMessage(s)
    PROVE  Inv'
<1> DEFINE message == reading[s].sealed.message
           p == message.body
<1>1. reading[s].pc = "read" /\ reading[s] # Idle /\ OwnerIsSender(message) /\ Verify(s, p)
      /\ UNCHANGED <<keyVars, messagingVars>>
    BY DEF VerifyMessage, Idle
<1>2. message \in Message /\ ForVerifier(message)
    BY <1>1 DEF Inv, MessagesInv, GoodReading, GoodSealed, SealedRecord
<1>3. p \in Presentation /\ presentation[p].made
    BY <1>2, CompositionAssumption DEF Message, ForVerifier
<1>4. message.sender = Holder
    BY <1>1, <1>3 DEF OwnerIsSender, Inv, PapersInv, GoodPresentation, GoodData
<1>5. /\ PapersInv' /\ SessionsInv'
      /\ session'[s].checks = p
      /\ \A t \in Session : t # s => session'[t] = session[t]
    BY <1>1, <1>3, VerifyKeeps DEF Inv
<1>6. UNCHANGED <<document, presentation, stream>>
    BY <1>1 DEF Verify
<1>7. Later
    BY <1>1, <1>6, OthersKeepPapers DEF Inv, PapersInv, Tables
<1>8. KeysInv' /\ MessagesInv'
    BY <1>1, <1>7, SameKeys, MessagesStay
<1>9. ASSUME NEW t \in Session PROVE GoodMeeting(t)'
    <2>1. CASE t = s
        BY <1>1, <1>4, <1>5, <2>1 DEF GoodMeeting, messagingVars
    <2>2. CASE t # s
        BY <1>1, <1>5, <2>2, MeetingStays DEF messagingVars
    <2> QED
        BY <2>1, <2>2
<1> QED
    BY <1>5, <1>8, <1>9 DEF Inv

LEMMA RejectMessageKeeps ==
    ASSUME Inv, NEW s \in Session, RejectMessage(s)
    PROVE  Inv'
<1>1. reading[s] # Idle
    BY DEF RejectMessage, Idle
<1> QED
    BY <1>1, ReadingGoesOn DEF RejectMessage

-----------------------------------------------------------------------------
(* The theorems.                                                           *)

LEMMA InitInv == Init => Inv
<1> SUFFICES ASSUME Init PROVE Inv
    OBVIOUS
<1>1. PapersInv /\ SessionsInv
    BY PapersAtStart DEF Init
<1>2. KeysInv
    BY DEF Init, KeysInit, KeysInv
<1>3. MessagesInv
    BY CompositionAssumption DEF Init, MessagingInit, MessagesInv, GoodLetter, GoodReading
<1>4. \A s \in Session : GoodMeeting(s)
    BY DEF Init, CredentialInit, GoodMeeting
<1> QED
    BY <1>1, <1>2, <1>3, <1>4 DEF Inv

LEMMA NextInv == Inv /\ [Next]_vars => Inv'
<1> SUFFICES ASSUME Inv, [Next]_vars PROVE Inv'
    OBVIOUS
<1>1. CASE UNCHANGED vars
    <2>1. PapersInv' /\ SessionsInv' /\ KeysInv' /\ Onward
        BY <1>1, PapersUntouched DEF vars
    <2>2. MessagesInv'
        BY <1>1, <2>1, MessagesStay DEF vars
    <2>3. \A s \in Session : GoodMeeting(s)'
        BY <1>1, MeetingStays DEF vars, credentialVars, messagingVars
    <2> QED
        BY <2>1, <2>2, <2>3 DEF Inv
<1>2. CASE \E d \in Did : ChangeKeys(d) /\ UNCHANGED messagingVars
    BY <1>2, KeysKeep
<1>3. CASE IssuerNext /\ UNCHANGED <<keyVars, messagingVars>>
    BY <1>3, IssuerKeeps
<1>4. CASE HolderNext /\ UNCHANGED <<keyVars, messagingVars>>
    BY <1>4, HolderKeeps
<1>5. CASE VerifierNext /\ UNCHANGED <<keyVars, messagingVars>>
    BY <1>5, VerifierKeeps
<1>6. CASE LetterNext /\ UNCHANGED <<keyVars, credentialVars>>
    BY <1>6, ResolveSenderKeeps, ResolveReceiverKeeps, EncryptKeeps DEF LetterNext
<1>7. CASE ReadNext /\ UNCHANGED <<keyVars, credentialVars>>
    BY <1>7, DecryptKeeps DEF ReadNext
<1>8. CASE \E l \in Letter, p \in Presentation, address \in Addressing : Send(l, p, address)
    BY <1>8, SendKeeps
<1>9. CASE \E s \in Session, sealed \in network : Receive(s, sealed)
    BY <1>9, ReceiveKeeps
<1>10. CASE \E s \in Session : VerifyMessage(s) \/ RejectMessage(s)
    BY <1>10, VerifyMessageKeeps, RejectMessageKeeps
<1> QED
    BY <1>1, <1>2, <1>3, <1>4, <1>5, <1>6, <1>7, <1>8, <1>9, <1>10 DEF Next

THEOREM Invariance == Spec => []Inv
BY InitInv, NextInv, PTL DEF Spec

\* Whatever a holder selects, and however often presentations are made from
\* presentations, each passes verifyDataIntegrity (createPresentation).
THEOREM PresentationsAlwaysVerify == Spec => []PresentationsVerify
<1>1. Inv => PresentationsVerify
    BY DEF Inv, PapersInv, GoodPresentation, GoodData, PresentationsVerify
<1> QED
    BY <1>1, Invariance, PTL

\* A presentation holds no value and no nonce of an attribute that was left out at
\* any stage (removeContentProperties).
THEOREM OnlySelectedIsDisclosed == Spec => []DisclosesOnlySelected
<1>1. Inv => DisclosesOnlySelected
    <2> SUFFICES ASSUME Inv, NEW p \in Presentation, presentation[p].made
                 PROVE  LET data == presentation[p].data IN
                        /\ DOMAIN data.content.contents = presentation[p].shown
                        /\ \A s \in DOMAIN data.contentNonceMap :
                              s.schema # NoSchema => s.key \in presentation[p].shown
        BY DEF DisclosesOnlySelected
    <2> DEFINE data == presentation[p].data
    <2>1. DOMAIN data.content.contents = presentation[p].shown
          /\ DOMAIN data.contentNonceMap = makeStatementsJsonLD(data.content)
        BY DEF Inv, PapersInv, GoodPresentation, GoodData, NoncesFit
    <2> QED
        BY <2>1, StatementOfAttribute
<1> QED
    BY <1>1, Invariance, PTL

\* However keys change and streams are withdrawn between the awaits of
\* verifyPresentation, what it accepts was valid at one moment of it.
THEOREM WhatIsAcceptedWasValid == Spec => []AcceptedWasValid
<1>1. Inv => AcceptedWasValid
    BY DEF Inv, SessionsInv, GoodSession, AcceptedWasValid
<1> QED
    BY <1>1, Invariance, PTL

\* What a check of verifyPresentation refused is not good, and stays so.
THEOREM WhatIsRefusedHasACause == Spec => []RefusedForCause
<1>1. Inv => RefusedForCause
    BY DEF Inv, SessionsInv, GoodSession, Cause, Withdrawn, RefusedForCause
<1> QED
    BY <1>1, Invariance, PTL

\* A presentation that was accepted came sealed by its holder, and the holder
\* signed the session's challenge (decrypt, ensureOwnerIsSender, verify).
THEOREM WhatIsAcceptedCameFromTheHolder == Spec => []AcceptedCameFromHolder
<1>1. Inv => AcceptedCameFromHolder
    <2> SUFFICES ASSUME Inv, NEW s \in Session, session[s].pc = "accepted"
                 PROVE  LET sealed == reading[s].sealed  p == session[s].checks IN
                        /\ sealed.message.body = p
                        /\ sealed.sealedBy.did = Holder
                        /\ presentation[p].holderSignature.key.did = Holder
                        /\ session[s].asks => presentation[p].holderSignature.over[2] = s
        BY DEF AcceptedCameFromHolder
    <2> DEFINE sealed == reading[s].sealed
               p == session[s].checks
    <2>1. reading[s] # Idle /\ reading[s].pc = "read"
          /\ sealed.message.body = p /\ sealed.message.sender = Holder
        BY DEF Inv, GoodMeeting
    <2>2. sealed.senderKey = sealed.sealedBy /\ sealed.message.sender = sealed.senderKey.did
        BY <2>1 DEF Inv, MessagesInv, GoodReading
    <2>3. p \in Presentation /\ presentation[p].made
          /\ (session[s].asks => presentation[p].challenge = s)
        BY DEF Inv, SessionsInv, GoodSession
    <2>4. presentation[p].holderSignature.key.did = Holder
          /\ presentation[p].holderSignature.over
                = <<presentation[p].data.documentHash, presentation[p].challenge>>
        <3>1. SignedByKeyOf(presentation[p].holderSignature, Holder)
              /\ presentation[p].holderSignature.over
                    = SigningData(presentation[p].data, presentation[p].challenge)
            BY <2>3 DEF Inv, PapersInv, GoodPresentation
        <3>2. PICK n \in KeyNumber : presentation[p].holderSignature.key = KeyOf(Holder, n)
            BY <3>1 DEF SignedByKeyOf
        <3> QED
            BY <3>1, <3>2 DEF KeyOf, SigningData
    <2>5. presentation[p].holderSignature.over[2] = presentation[p].challenge
        BY <2>4
    <2>6. sealed.sealedBy.did = Holder
        BY <2>1, <2>2
    <2> QED
        BY <2>1, <2>3, <2>4, <2>5, <2>6, Zenon
<1> QED
    BY <1>1, Invariance, PTL

\* decrypt fails on a message of the network only after the agreement keys of one
\* side changed, or for a sender in another DID's name.
THEOREM UnreadableHasACause == Spec => []UnreadableForCause
<1>1. Inv => UnreadableForCause
    <2> SUFFICES ASSUME Inv, NEW s \in Session, reading[s].pc = "unreadable"
                 PROVE  LET sealed == reading[s].sealed IN
                        \/ sealed.message.sender # sealed.senderKey.did
                        \/ \E d \in {sealed.senderKey.did, sealed.receiverKey.did} :
                              changes[d] > 0 \/ d \in deactivated
        BY DEF UnreadableForCause
    <2> DEFINE m == reading[s].sealed
    <2>1. reading[s] # Idle
        BY DEF Idle
    <2>2. /\ m \in SealedRecord
          /\ m.message.sender # m.senderKey.did \/ ~Quiet(m.senderKey.did)
                \/ ~Quiet(m.receiverKey.did)
        BY <2>1 DEF Inv, MessagesInv, GoodReading, ReadingRecord
    <2>3. m.senderKey.did \in Did /\ m.receiverKey.did \in Did
        BY <2>2 DEF SealedRecord, SomeKey
    <2>4. \A d \in Did : Quiet(d) \/ changes[d] > 0 \/ d \in deactivated
        BY DEF Inv, KeysInv, Quiet
    <2> QED
        BY <2>2, <2>3, <2>4
<1> QED
    BY <1>1, Invariance, PTL


-----------------------------------------------------------------------------
(* Types: every key that is named has a number that its DID can have had.  *)

LEMMA KeyTypes ==
    ASSUME KeysTypeOK, (\E d \in Did : ChangeKeys(d)) \/ UNCHANGED keyVars
    PROVE  KeysTypeOK'
<1> USE KeysAssumption DEF KeysTypeOK, KeyNumber
<1>1. CASE UNCHANGED keyVars
    BY <1>1 DEF keyVars
<1>2. CASE \E d \in Did : ChangeKeys(d)
    <2>1. PICK d \in Did : ChangeKeys(d)
        BY <1>2
    <2>2. keyChanges' = keyChanges + 1 /\ keyChanges' \in 0 .. MaxKeyChanges
        BY <2>1 DEF ChangeKeys, SetAuthenticationKey, AddKeyAgreementKey, RemoveKeyAgreementKey,
                    Delete, ChangesAgreement, ChangesKeys
    <2>3. CASE \E n \in KeyNumber : SetAuthenticationKey(d, n)
        BY <2>2, <2>3 DEF SetAuthenticationKey
    <2>4. CASE Delete(d)
        BY <2>2, <2>4 DEF Delete
    <2>5. ASSUME NEW numbers, numbers \in SUBSET (0 .. changes[d] + 1), ChangesAgreement(d, numbers)
          PROVE  KeysTypeOK'
        <3>1. changes[d] + 1 \in 0 .. MaxKeyChanges /\ changes[d] + 1 <= keyChanges'
            BY <2>2
        <3>2. /\ agreement' = [agreement EXCEPT ![d] = numbers]
              /\ changes' = [changes EXCEPT ![d] = changes[d] + 1]
              /\ UNCHANGED <<authentication, deactivated>>
            BY <2>5 DEF ChangesAgreement
        <3>3. numbers \in SUBSET (0 .. MaxKeyChanges)
            BY <2>5, <3>1
        <3>4. changes' \in [Did -> 0 .. MaxKeyChanges]
              /\ agreement' \in [Did -> SUBSET (0 .. MaxKeyChanges)]
            BY <3>1, <3>2, <3>3
        <3>5. \A e \in Did :
                  changes'[e] <= keyChanges' /\ \A n \in agreement'[e] : n <= changes'[e]
            BY <2>2, <2>5, <3>1, <3>2
        <3> QED
            BY <2>2, <3>2, <3>4, <3>5
    <2>6. CASE AddKeyAgreementKey(d)
        <3>1. PICK n \in KeyPairs(d) \cup {changes[d] + 1} :
                ChangesAgreement(d, agreement[d] \cup {n})
            BY <2>6 DEF AddKeyAgreementKey
        <3>2. agreement[d] \cup {n} \in SUBSET (0 .. changes[d] + 1)
            BY <3>1 DEF KeyPairs
        <3> QED
            BY <2>5, <3>1, <3>2
    <2>7. CASE RemoveKeyAgreementKey(d)
        <3>1. PICK n \in agreement[d] : ChangesAgreement(d, agreement[d] \ {n})
            BY <2>7 DEF RemoveKeyAgreementKey
        <3>2. agreement[d] \ {n} \in SUBSET (0 .. changes[d] + 1)
            OBVIOUS
        <3> QED
            BY <2>5, <3>1, <3>2
    <2> QED
        BY <2>1, <2>3, <2>4, <2>6, <2>7 DEF ChangeKeys
<1> QED
    BY <1>1, <1>2

\* What the invariants of the papers leave open: the form of the signatures.
SignaturesOK ==
    /\ \A d \in Document : document[d].made => IsSignature(document[d].signature)
    /\ \A p \in Presentation : presentation[p].made =>
          /\ presentation[p].challenge \in Challenges
          /\ IsSignature(presentation[p].holderSignature)

LEMMA SignatureIs ==
    ASSUME NEW d \in Did, NEW n \in KeyNumber, NEW over
    PROVE  IsSignature(Signature(KeyOf(d, n), over))
BY DEF IsSignature, Signature, KeyOf

LEMMA SignatureTypes ==
    ASSUME Inv, SignaturesOK, [Next]_vars
    PROVE  SignaturesOK'
<1>1. CASE UNCHANGED <<document, presentation>>
    BY <1>1 DEF SignaturesOK
<1>2. CASE \E d \in Document, i \in Issuer, c \in Contents, evidence \in Attachments,
              n \in KeyNumber : FromContent(d, i, c, evidence, n)
    <2>1. PICK d \in Document, i \in Issuer, c \in Contents, evidence \in Attachments,
              n \in KeyNumber : FromContent(d, i, c, evidence, n)
        BY <1>2
    <2>2. \E x, over :
              /\ document' = [document EXCEPT ![d] = x] /\ x.signature = Signature(KeyOf(i, n), over)
              /\ presentation' = presentation
        BY <2>1 DEF FromContent
    <2>3. PICK x, over :
              /\ document' = [document EXCEPT ![d] = x] /\ x.signature = Signature(KeyOf(i, n), over)
              /\ presentation' = presentation
        BY <2>2
    <2>4. IsSignature(x.signature)
        BY <2>3, SignatureIs, RolesAssumption
    <2>5. \A e \in Document : document'[e] = IF e = d THEN x ELSE document[e]
        BY <2>3 DEF Inv, PapersInv, Tables
    <2> QED
        BY <2>3, <2>4, <2>5 DEF SignaturesOK
<1>3. CASE HolderNext
    <2>1. PICK p \in Presentation, challenge \in Asked, n \in KeyNumber :
              \/ \E d \in Document : document[d].made /\
                    \E selected \in SUBSET AttributesOf(d) : PresentDocument(p, d, selected, challenge, n)
              \/ \E q \in Presentation : presentation[q].made /\
                    \E selected \in SUBSET AttributesOf(presentation[q].of) :
                        PresentAgain(p, q, selected, challenge, n)
        BY <1>3 DEF HolderNext
    <2>2. PICK d, data, signature, shown, selected :
              Present(p, d, data, signature, shown, selected, challenge, n)
        BY <2>1 DEF PresentDocument, PresentAgain
    <2> DEFINE presented == removeContentProperties(data, Excluded(data, selected))
               over == SigningData(presented, challenge)
               x == [made |-> TRUE, of |-> d, data |-> presented,
                     issuerSignature |-> signature, challenge |-> challenge,
                     holderSignature |-> Signature(KeyOf(Holder, n), over),
                     shown |-> shown \cap selected]
    <2>3. /\ presentation' = [presentation EXCEPT ![p] = x] /\ document' = document
          /\ x.challenge = challenge /\ x.holderSignature = Signature(KeyOf(Holder, n), over)
        BY <2>2 DEF Present
    <2> HIDE DEF x, over, presented
    <2>4. IsSignature(x.holderSignature) /\ x.challenge \in Challenges
        BY <2>3, SignatureIs, RolesAssumption DEF Asked, Challenges
    <2>5. \A q \in Presentation : presentation'[q] = IF q = p THEN x ELSE presentation[q]
        BY <2>3 DEF Inv, PapersInv, Tables
    <2> QED
        BY <2>3, <2>4, <2>5 DEF SignaturesOK
<1>4. CASE IssuerNext
    BY <1>1, <1>2, <1>4 DEF IssuerNext, CreateStream, RevokeCredential, RestoreStream
<1>5. CASE VerifierNext \/ \E s \in Session : VerifyMessage(s)
    BY <1>1, <1>5 DEF VerifierNext, OpenSession, CheckHolder, CheckIssuer, CheckStream, QueryFails,
                      VerifyMessage, Verify
<1>6. CASE UNCHANGED credentialVars \/ \E d \in Did : ChangeKeys(d)
    BY <1>1, <1>6 DEF credentialVars, ChangeKeys
<1> QED
    BY <1>3, <1>4, <1>5, <1>6 DEF Next, vars, Send, Receive, RejectMessage

LEMMA LetterTypes ==
    ASSUME Inv, KeysTypeOK, MessagingTypeOK, [Next]_vars
    PROVE  MessagingTypeOK'
<1> DEFINE LetterType ==
        [pc : {"senderDocument", "receiverDocument", "encrypt", "sent", "failed"},
         message : Message, keypair : Key, senderKey : Key, receiverKey : Key]
           ReadingType ==
        [pc : {"resolving", "read", "unreadable", "threw", "rejected"},
         sealed : Sealed, keypair : Key]
<1>1. /\ letter = [l \in Letter |-> letter[l]] /\ reading = [s \in Reader |-> reading[s]]
      /\ Reader = Session
    BY CompositionAssumption DEF Inv, MessagesInv
<1>2. ASSUME NEW l \in Letter, NEW v, letter' = [letter EXCEPT ![l] = v], v \in LetterType,
             reading' = reading, network' \in SUBSET Sealed
      PROVE  MessagingTypeOK'
    BY <1>1, <1>2 DEF MessagingTypeOK
<1>3. ASSUME NEW s \in Session, NEW v, reading' = [reading EXCEPT ![s] = v], v \in ReadingType,
             UNCHANGED <<letter, network>>
      PROVE  MessagingTypeOK'
    BY <1>1, <1>3 DEF MessagingTypeOK
<1>4. ASSUME NEW d \in Did, NEW n \in KeyPairs(d) PROVE KeyOf(d, n) \in Key
    BY KeysAssumption DEF KeysTypeOK, KeyNumber, KeyPairs, Key, KeyOf
<1>5. CASE LetterNext
    <2>1. PICK l \in Letter : ResolveSender(l) \/ ResolveReceiver(l) \/ encrypt(l) \/ EncryptThrows(l)
        BY <1>5 DEF LetterNext
    <2> DEFINE v == letter[l]
    <2>2. v \in LetterType /\ network \in SUBSET Sealed
        BY <2>1 DEF MessagingTypeOK, ResolveSender, ResolveReceiver, encrypt, EncryptThrows, Idle
    <2>3. CASE ResolveSender(l)
        <3>1. PICK n \in KeyNumber \cup {NoKey} :
                letter' = [letter EXCEPT ![l].pc = "receiverDocument", ![l].senderKey.number = n]
            BY <2>3 DEF ResolveSender
        <3> DEFINE k == [v.senderKey EXCEPT !.number = n]
                   r == [v EXCEPT !.pc = "receiverDocument", !.senderKey = k]
        <3>2. k \in Key
            BY <2>2 DEF Key
        <3>3. r \in LetterType
            <4> HIDE DEF k
            <4> QED
                BY <2>2, <3>2
        <3>4. letter' = [letter EXCEPT ![l] = r]
            BY <1>1, <3>1
        <3> QED
            BY <1>2, <2>2, <2>3, <3>3, <3>4 DEF ResolveSender
    <2>4. CASE ResolveReceiver(l)
        <3>1. PICK n \in KeyNumber \cup {NoKey} :
                letter' = [letter EXCEPT ![l].pc = "encrypt", ![l].receiverKey.number = n]
            BY <2>4 DEF ResolveReceiver
        <3> DEFINE k == [v.receiverKey EXCEPT !.number = n]
                   r == [v EXCEPT !.pc = "encrypt", !.receiverKey = k]
        <3>2. k \in Key
            BY <2>2 DEF Key
        <3>3. r \in LetterType
            <4> HIDE DEF k
            <4> QED
                BY <2>2, <3>2
        <3>4. letter' = [letter EXCEPT ![l] = r]
            BY <1>1, <3>1
        <3> QED
            BY <1>2, <2>2, <2>4, <3>3, <3>4 DEF ResolveReceiver
    <2>5. CASE encrypt(l)
        <3> DEFINE m == [message |-> v.message, sealedBy |-> v.keypair,
                         senderKey |-> v.senderKey, receiverKey |-> v.receiverKey]
                   r == [v EXCEPT !.pc = "sent"]
        <3>1. v.receiverKey.did \in Did /\ v.receiverKey.number \in agreement[v.receiverKey.did]
            BY <2>2, <2>5 DEF encrypt, MayEncrypt, resolveKey, Key
        <3>2. v.receiverKey \in [did : Did, number : KeyNumber]
            BY <2>2, <3>1 DEF KeysTypeOK, Key
        <3>3. m \in Sealed
            BY <2>2, <3>2 DEF Sealed
        <3>4. letter' = [letter EXCEPT ![l] = r] /\ network' = network \cup {m} /\ reading' = reading
            BY <1>1, <2>5 DEF encrypt
        <3>5. r \in LetterType
            BY <2>2
        <3> HIDE DEF m, r
        <3> QED
            BY <1>2, <2>2, <3>3, <3>4, <3>5
    <2>6. CASE EncryptThrows(l)
        <3> DEFINE r == [v EXCEPT !.pc = "failed"]
        <3>1. letter' = [letter EXCEPT ![l] = r] /\ UNCHANGED <<network, reading>>
            BY <1>1, <2>6 DEF EncryptThrows
        <3>2. r \in LetterType
            BY <2>2
        <3> QED
            BY <1>2, <2>2, <3>1, <3>2
    <2> QED
        BY <2>1, <2>3, <2>4, <2>5, <2>6
<1>6. CASE \E l \in Letter, p \in Presentation, address \in Addressing : Send(l, p, address)
    <2>1. PICK l \in Letter, p \in Presentation, address \in Addressing : Send(l, p, address)
        BY <1>6
    <2>2. address.sender \in Did /\ address.senderUri \in Did /\ address.receiverUri \in Did
        BY InputsAssumption
    <2> DEFINE message == [body |-> p, sender |-> address.sender, receiver |-> Verifier]
    <2>3. message \in Message
        BY <2>2, VerifierAssumption, CompositionAssumption DEF Message
    <2> HIDE DEF message
    <2>4. PICK n \in KeyPairs(address.senderUri) :
            letter' = [letter EXCEPT ![l] =
                [pc |-> "senderDocument", message |-> message,
                 keypair |-> KeyOf(address.senderUri, n),
                 senderKey |-> KeyOf(address.senderUri, NoKey),
                 receiverKey |-> KeyOf(address.receiverUri, NoKey)]]
        BY <2>1 DEF Send, Compose, message
    <2>5. KeyOf(address.senderUri, n) \in Key /\ KeyOf(address.senderUri, NoKey) \in Key
          /\ KeyOf(address.receiverUri, NoKey) \in Key
        <3>1. KeyOf(address.senderUri, n) \in Key
            BY <1>4, <2>2
        <3> QED
            BY <2>2, <3>1 DEF Key, KeyOf
    <2>6. UNCHANGED <<network, reading>> /\ network \in SUBSET Sealed
        BY <2>1 DEF Send, Compose, MessagingTypeOK
    <2> QED
        BY <1>2, <2>3, <2>4, <2>5, <2>6
<1>7. CASE \E s \in Session, sealed \in network : Receive(s, sealed)
    <2>1. PICK s \in Session, sealed \in network : Receive(s, sealed)
        BY <1>7
    <2>2. PICK n \in KeyPairs(Verifier) :
            reading' = [reading EXCEPT ![s] =
                [pc |-> "resolving", sealed |-> sealed, keypair |-> KeyOf(Verifier, n)]]
        BY <2>1 DEF Receive, Read
    <2>3. sealed \in Sealed /\ KeyOf(Verifier, n) \in Key
        BY <1>4, VerifierAssumption DEF MessagingTypeOK
    <2>4. UNCHANGED <<letter, network>>
        BY <2>1 DEF Receive, Read
    <2> QED
        BY <1>3, <2>2, <2>3, <2>4
<1>8. ASSUME NEW s \in Session, NEW pc \in {"read", "unreadable", "threw", "rejected"},
             reading' = [reading EXCEPT ![s].pc = pc], reading[s] # Idle,
             UNCHANGED <<letter, network>>
      PROVE  MessagingTypeOK'
    <2> DEFINE r == [reading[s] EXCEPT !.pc = pc]
    <2>1. reading[s] \in ReadingType
        BY <1>1, <1>8 DEF MessagingTypeOK
    <2>2. r \in ReadingType
        BY <2>1
    <2>3. reading' = [reading EXCEPT ![s] = r]
        BY <1>1, <1>8
    <2> HIDE DEF r
    <2> QED
        BY <1>3, <1>8, <2>2, <2>3
<1>9. CASE ReadNext \/ \E s \in Session : RejectMessage(s)
    BY <1>8, <1>9 DEF ReadNext, decrypt, DecryptThrows, RejectMessage, Idle
<1>10. CASE UNCHANGED messagingVars
    BY <1>10 DEF messagingVars, MessagingTypeOK
<1> QED
    BY <1>5, <1>6, <1>7, <1>9, <1>10 DEF Next, VerifyMessage, vars

\* Every record of the exchange has its type; in particular no key that a message or a
\* signature names has a number beyond those that the changes so far allow.
THEOREM TypeCorrect == Spec => []TypeOK
<1> DEFINE Types == KeysTypeOK /\ SignaturesOK /\ MessagingTypeOK
<1>1. Init => Types
    <2> SUFFICES ASSUME Init PROVE Types
        OBVIOUS
    <2>1. KeysTypeOK
        BY KeysAssumption DEF Init, KeysInit, KeysTypeOK, KeyNumber
    <2>2. SignaturesOK
        BY DEF Init, CredentialInit, None, SignaturesOK
    <2>3. MessagingTypeOK
        BY DEF Init, MessagingInit, MessagingTypeOK
    <2> QED
        BY <2>1, <2>2, <2>3
<1>2. Inv /\ Types /\ [Next]_vars => Types'
    <2> SUFFICES ASSUME Inv, Types, [Next]_vars PROVE Types'
        OBVIOUS
    <2>1. (\E d \in Did : ChangeKeys(d)) \/ UNCHANGED keyVars
        BY DEF Next, vars, Send, Receive, VerifyMessage, RejectMessage
    <2>2. KeysTypeOK'
        BY <2>1, KeyTypes
    <2>3. SignaturesOK' /\ MessagingTypeOK'
        BY SignatureTypes, LetterTypes
    <2> QED
        BY <2>2, <2>3
<1>3. Inv /\ Types => TypeOK
    BY DEF Inv, PapersInv, Tables, GoodDocument, GoodPresentation, SessionsInv, SessionRecord,
           SignaturesOK, CredentialTypeOK, TypeOK
<1> HIDE DEF Types
<1> QED
    BY <1>1, <1>2, <1>3, Invariance, PTL DEF Spec


-----------------------------------------------------------------------------
(* The exchange implements AtomicVerification.                             *)

\* What was read came over the network.
FromNetwork(s) == reading[s] # Idle => reading[s].sealed \in network

\* The claim of a presentation holds.
Holds(p) == HolderSigned(p) /\ IssuerSigned(p) /\ ~Withdrawn(presentation[p].of)

LEMMA ClaimIs ==
    /\ claimOf = [p \in Presentation |->
                    IF p \notin Made THEN "unmade" ELSE IF Holds(p) THEN "holds" ELSE "void"]
    /\ Atomic!Made = Made
<1>1. claimOf = [p \in Presentation |->
                    IF p \notin Made THEN "unmade" ELSE IF Holds(p) THEN "holds" ELSE "void"]
    BY DEF claimOf, Holds, Withdrawn
<1>2. Made \subseteq Presentation
    BY DEF Made
<1> QED
    BY <1>1, <1>2 DEF Atomic!Made

LEMMA NetworkKept ==
    ASSUME Inv, [Next]_vars, \A s \in Session : FromNetwork(s)
    PROVE  \A s \in Session : FromNetwork(s)'
<1> SUFFICES ASSUME NEW s \in Session PROVE FromNetwork(s)'
    OBVIOUS
<1>1. CASE reading'[s] = reading[s] /\ network \subseteq network'
    BY <1>1 DEF FromNetwork
<1>2. ASSUME NEW t \in Session, NEW pc, reading[t] # Idle,
             reading' = [reading EXCEPT ![t].pc = pc], network' = network
      PROVE  FromNetwork(s)'
    <2>1. reading[t] \in ReadingRecord
        BY <1>2 DEF Inv, MessagesInv, GoodReading
    <2>2. reading'[s] = IF s = t THEN [reading[t] EXCEPT !.pc = pc] ELSE reading[s]
        BY <1>2 DEF Inv, MessagesInv
    <2>3. [reading[t] EXCEPT !.pc = pc].sealed = reading[t].sealed
        BY <2>1 DEF ReadingRecord
    <2> QED
        BY <1>2, <2>2, <2>3 DEF FromNetwork
<1>3. CASE ReadNext \/ \E t \in Session : RejectMessage(t)
    BY <1>2, <1>3 DEF ReadNext, decrypt, DecryptThrows, RejectMessage, Idle
<1>4. CASE \E t \in Session, sealed \in network : Receive(t, sealed)
    <2>1. PICK t \in Session, sealed \in network : Receive(t, sealed)
        BY <1>4
    <2>2. PICK n : reading' = [reading EXCEPT ![t] =
                      [pc |-> "resolving", sealed |-> sealed, keypair |-> KeyOf(Verifier, n)]]
        BY <2>1 DEF Receive, Read
    <2>3. network' = network
        BY <2>1 DEF Receive, Read
    <2> QED
        BY <2>2, <2>3 DEF FromNetwork, Inv, MessagesInv
<1>5. CASE LetterNext
    BY <1>1, <1>5 DEF LetterNext, ResolveSender, ResolveReceiver, encrypt, EncryptThrows
<1>6. CASE \E l \in Letter, p \in Presentation, address \in Addressing : Send(l, p, address)
    BY <1>1, <1>6 DEF Send, Compose
<1>7. CASE UNCHANGED messagingVars
    BY <1>1, <1>7 DEF messagingVars
<1> QED
    BY <1>3, <1>4, <1>5, <1>6, <1>7 DEF Next, VerifyMessage, vars

-----------------------------------------------------------------------------
(* What a step leaves as it is.                                            *)

LEMMA SameClaims ==
    ASSUME UNCHANGED <<keyVars, document, presentation, stream>>
    PROVE  claimOf' = claimOf /\ Made' = Made
<1>1. Made' = Made /\ \A p \in Presentation : Holds(p)' = Holds(p)
    BY DEF Made, Holds, HolderSigned, IssuerSigned, SignedBy, SigningData, resolveKey, keyVars, Withdrawn
<1>2. claimOf' = [p \in Presentation |->
                    IF p \notin Made' THEN "unmade" ELSE IF Holds(p)' THEN "holds" ELSE "void"]
    BY DEF claimOf, Holds, Withdrawn
<1> QED
    BY <1>1, <1>2, ClaimIs

LEMMA SameShown == network' = network => shownOf' = shownOf
BY DEF shownOf

\* What a session asks for does not change, nor does what is made.
LEMMA SameAnswers ==
    ASSUME Inv, Later, Made' = Made,
           \A s \in Session : /\ session'[s].pc = "idle" <=> session[s].pc = "idle"
                              /\ session'[s].asks = session[s].asks
                              /\ session'[s].trusted = session[s].trusted
    PROVE  answersOf' = answersOf
<1>1. \A p \in Made : /\ presentation'[p] = presentation[p]
                      /\ document'[presentation[p].of] = document[presentation[p].of]
    BY DEF Made, Later, Inv, PapersInv, GoodPresentation
<1> QED
    BY <1>1 DEF answersOf

LEMMA SameVerdicts ==
    ASSUME \A s \in Session : /\ session'[s].pc = session[s].pc
                              /\ session'[s].checks = session[s].checks
                              /\ session'[s].wasValid = session[s].wasValid
                              /\ session'[s].cause = session[s].cause
    PROVE  verdictOf' = verdictOf /\ aboutOf' = aboutOf
<1>1. \A s \in Session : VerdictOf(session'[s]) = VerdictOf(session[s])
    BY DEF VerdictOf
<1> QED
    BY <1>1 DEF verdictOf, aboutOf

LEMMA SameMapped ==
    ASSUME UNCHANGED <<keyVars, credentialVars, network>>
    PROVE  UNCHANGED Atomic!vars
<1>1. UNCHANGED <<claimOf, shownOf>>
    BY SameClaims, SameShown DEF credentialVars
<1>2. UNCHANGED answersOf
    BY DEF answersOf, Made, credentialVars
<1>3. UNCHANGED <<verdictOf, aboutOf, doubtOf>>
    BY DEF verdictOf, aboutOf, doubtOf, credentialVars
<1> QED
    BY <1>1, <1>2, <1>3 DEF Atomic!vars

-----------------------------------------------------------------------------
(* Steps of keys, issuers and holders.                                     *)

\* A step that changes no presentation leaves claims made as they are, or turns them.
LEMMA ClaimsTurn ==
    ASSUME Made' = Made
    PROVE  claimOf' = [p \in Presentation |->
                          IF p \notin Made THEN "unmade" ELSE IF Holds(p)' THEN "holds" ELSE "void"]
BY DEF claimOf, Holds, Withdrawn

LEMMA Fades ==
    ASSUME Inv, Later, Made' = Made, Fading, UNCHANGED <<session, network>>
    PROVE  Atomic!Fade
<1> DEFINE gone == {p \in Made : ~Holds(p)'}
<1>1. ASSUME NEW p \in Made, Holds(p)' PROVE Holds(p)
    <2>1. p \in Presentation /\ presentation[p].made /\ presentation'[p] = presentation[p]
          /\ presentation[p].of \in Document
        BY DEF Made, Later, Inv, PapersInv, GoodPresentation
    <2>2. HolderSigned(p) /\ IssuerSigned(p)
        BY <1>1, <2>1 DEF Fading, Holds
    <2>3. ~Withdrawn(presentation[p].of)
        BY <1>1, <2>1 DEF Fading, Holds, Withdrawn
    <2> QED
        BY <2>2, <2>3 DEF Holds
<1>2. claimOf' = [p \in Presentation |-> IF p \in gone THEN "void" ELSE claimOf[p]]
    <2>1. ASSUME NEW p \in Presentation
          PROVE  claimOf'[p] = IF p \in gone THEN "void" ELSE claimOf[p]
        BY <1>1, ClaimsTurn, ClaimIs
    <2> QED
        BY <2>1, ClaimsTurn, Zenon
<1>3. UNCHANGED <<shownOf, answersOf, verdictOf, aboutOf, doubtOf>>
    BY SameShown, SameAnswers, SameVerdicts DEF doubtOf
<1>4. gone \in SUBSET Made
    OBVIOUS
<1> HIDE DEF gone
<1> QED
    BY <1>2, <1>3, <1>4, ClaimIs DEF Atomic!Fade

\* Something comes back: of the claims made, those hold that verify now.
LEMMA Restores ==
    ASSUME Inv, Later, Made' = Made, SomethingIsBack, UNCHANGED network
    PROVE  Atomic!Restore
<1> DEFINE hold == {p \in Made : Holds(p)'}
<1>1. session \in [Session -> SessionRecord]
      /\ session' = [s \in Session |-> [session[s] EXCEPT !.restored = TRUE]]
    BY DEF SomethingIsBack, Inv, SessionsInv
<1>2. ASSUME NEW s \in Session
      PROVE  /\ session'[s].pc = session[s].pc /\ session'[s].checks = session[s].checks
             /\ session'[s].asks = session[s].asks /\ session'[s].trusted = session[s].trusted
             /\ session'[s].wasValid = session[s].wasValid /\ session'[s].cause = session[s].cause
             /\ session'[s].restored
    BY <1>1 DEF SessionRecord
<1>3. claimOf' = [p \in Presentation |-> IF p \in hold THEN "holds"
                                         ELSE IF p \in Made THEN "void" ELSE "unmade"]
    <2>1. ASSUME NEW p \in Presentation
          PROVE  claimOf'[p] = IF p \in hold THEN "holds"
                               ELSE IF p \in Made THEN "void" ELSE "unmade"
        BY ClaimsTurn
    <2> QED
        BY <2>1, ClaimsTurn, Zenon
<1>4. UNCHANGED <<shownOf, answersOf, verdictOf, aboutOf>> /\ doubtOf' = Session
    BY <1>2, SameShown, SameAnswers, SameVerdicts DEF doubtOf
<1>5. hold \in SUBSET Made
    OBVIOUS
<1> HIDE DEF hold
<1> QED
    BY <1>3, <1>4, <1>5, ClaimIs DEF Atomic!Restore

LEMMA Makes ==
    ASSUME Inv, Later, NEW p \in Presentation, ~presentation[p].made,
           NEW x, x.made, presentation' = [presentation EXCEPT ![p] = x],
           UNCHANGED <<keyVars, document, stream, session, network>>
    PROVE  Atomic!Make(p)
<1> DEFINE askedBy == {s \in Session : <<s, p>> \in answersOf'}
           truth == IF Holds(p)' THEN "holds" ELSE "void"
<1>1. presentation'[p] = x /\ \A q \in Presentation : q # p => presentation'[q] = presentation[q]
    BY DEF Inv, PapersInv, Tables
<1>2. Made' = Made \cup {p} /\ p \notin Made
    BY <1>1 DEF Made
<1>3. \A q \in Presentation : q # p => Holds(q)' = Holds(q)
    BY <1>1 DEF Holds, HolderSigned, IssuerSigned, SignedBy, SigningData, resolveKey, keyVars, Withdrawn
<1>4. claimOf' = [q \in Presentation |->
                    IF q \notin Made' THEN "unmade" ELSE IF Holds(q)' THEN "holds" ELSE "void"]
    BY DEF claimOf, Holds, Withdrawn
<1>5. claimOf' = [claimOf EXCEPT ![p] = truth]
    <2>1. ASSUME NEW q \in Presentation
          PROVE  claimOf'[q] = [claimOf EXCEPT ![p] = truth][q]
        BY <1>2, <1>3, <1>4, ClaimIs
    <2>2. claimOf = [q \in Presentation |-> claimOf[q]]
        BY ClaimIs
    <2> QED
        BY <1>4, <2>1, <2>2
<1>6. answersOf' = answersOf \cup (askedBy \X {p})
    <2>1. \A s \in Session, q \in Made : <<s, q>> \in answersOf' <=> <<s, q>> \in answersOf
        BY <1>1, <1>2 DEF answersOf, Made
    <2>2. answersOf \subseteq Session \X Made /\ answersOf' \subseteq Session \X Made'
        BY DEF answersOf
    <2> QED
        BY <1>2, <2>1, <2>2
<1>7. UNCHANGED <<shownOf, verdictOf, aboutOf, doubtOf>>
    BY SameShown DEF verdictOf, aboutOf, doubtOf
<1>8. askedBy \in SUBSET Session /\ truth \in {"holds", "void"}
    OBVIOUS
<1> HIDE DEF askedBy, truth
<1> QED
    BY <1>2, <1>5, <1>6, <1>7, <1>8, ClaimIs DEF Atomic!Make

-----------------------------------------------------------------------------
(* Steps of verifiers.                                                     *)

\* The presentation in a message that was read and whose owner sent it.
LEMMA Meets ==
    ASSUME Inv, NEW s \in Session, FromNetwork(s), reading[s].pc = "read",
           OwnerIsSender(reading[s].sealed.message)
    PROVE  reading[s].sealed.message.body \in shownOf \cap Made
<1> DEFINE m == reading[s].sealed
           p == m.message.body
<1>1. reading[s] # Idle
    BY DEF Idle
<1>2. GoodReading(s) /\ GoodSealed(m) /\ m \in network /\ m.message \in Message
    BY <1>1 DEF FromNetwork, Inv, MessagesInv, GoodReading, GoodSealed, SealedRecord
<1>3. p \in Made
    BY <1>2, CompositionAssumption DEF GoodSealed, ForVerifier, Message, Made
<1>4. m.message.sender = Holder
    BY <1>3 DEF OwnerIsSender, Made, Inv, PapersInv, GoodPresentation, GoodData
<1>5. m.sealedBy.did = Holder /\ m.receiverKey.did = Verifier
    BY <1>1, <1>2, <1>4 DEF GoodReading, GoodSealed, ForVerifier
<1> QED
    BY <1>2, <1>3, <1>4, <1>5 DEF shownOf, Made

\* A step of one session that opened before.
LEMMA SessionStep ==
    ASSUME Inv, NEW s \in Session, session[s].pc # "idle",
           NEW r \in SessionRecord, session' = [session EXCEPT ![s] = r],
           r.pc # "idle", r.asks = session[s].asks, r.trusted = session[s].trusted,
           UNCHANGED <<keyVars, document, stream, presentation, network>>
    PROVE  /\ UNCHANGED <<claimOf, shownOf, answersOf>>
           /\ verdictOf' = [verdictOf EXCEPT ![s] = VerdictOf(r)]
           /\ aboutOf' = [aboutOf EXCEPT ![s] = r.checks]
           /\ doubtOf' = IF r.restored THEN doubtOf \cup {s} ELSE doubtOf \ {s}
<1>1. session'[s] = r /\ \A t \in Session : t # s => session'[t] = session[t]
    BY DEF Inv, SessionsInv
<1>2. UNCHANGED <<claimOf, shownOf>> /\ Made' = Made
    BY SameClaims, SameShown
<1>3. Later
    BY OthersKeepPapers DEF Inv, PapersInv, Tables
<1>4. UNCHANGED answersOf
    BY <1>1, <1>2, <1>3, SameAnswers
<1>5. verdictOf' = [verdictOf EXCEPT ![s] = VerdictOf(r)]
    <2>1. verdictOf = [t \in Session |-> verdictOf[t]] /\ verdictOf' = [t \in Session |-> verdictOf'[t]]
        BY DEF verdictOf
    <2>2. \A t \in Session : verdictOf'[t] = IF t = s THEN VerdictOf(r) ELSE verdictOf[t]
        BY <1>1 DEF verdictOf
    <2> QED
        BY <2>1, <2>2
<1>6. aboutOf' = [aboutOf EXCEPT ![s] = r.checks]
    <2>1. aboutOf = [t \in Session |-> aboutOf[t]] /\ aboutOf' = [t \in Session |-> aboutOf'[t]]
        BY DEF aboutOf
    <2>2. \A t \in Session : aboutOf'[t] = IF t = s THEN r.checks ELSE aboutOf[t]
        BY <1>1 DEF aboutOf
    <2> QED
        BY <2>1, <2>2
<1>7. doubtOf' = IF r.restored THEN doubtOf \cup {s} ELSE doubtOf \ {s}
    BY <1>1 DEF doubtOf
<1> QED
    BY <1>2, <1>4, <1>5, <1>6, <1>7

LEMMA Asks ==
    ASSUME Inv, NEW s \in Session, NEW asks \in BOOLEAN, NEW trusted \in SUBSET Issuer,
           OpenSession(s, asks, trusted), UNCHANGED <<keyVars, network>>
    PROVE  Atomic!Ask(s)
<1> DEFINE r == [[[session[s] EXCEPT !.pc = "open"] EXCEPT !.asks = asks] EXCEPT !.trusted = trusted]
           fit == {p \in Made : <<s, p>> \in answersOf'}
<1>1. session[s] \in SessionRecord /\ session[s].pc = "idle"
    BY DEF OpenSession, Inv, SessionsInv
<1>2. r.pc = "open" /\ r.checks = session[s].checks /\ r.restored = session[s].restored
    BY <1>1 DEF SessionRecord
<1>3. session' = [session EXCEPT ![s] = r] /\ UNCHANGED <<document, stream, presentation>>
    BY DEF OpenSession, Inv, SessionsInv
<1> HIDE DEF r
<1>4. session'[s] = r /\ \A t \in Session : t # s => session'[t] = session[t]
    BY <1>3 DEF Inv, SessionsInv
<1>5. UNCHANGED <<claimOf, shownOf>> /\ Made' = Made
    BY <1>3, SameClaims, SameShown
<1>6. answersOf' = answersOf \cup ({s} \X fit)
    <2>1. \A t \in Session, p \in Made :
            <<t, p>> \in answersOf' <=> <<t, p>> \in answersOf \/ (t = s /\ p \in fit)
        BY <1>1, <1>3, <1>4, <1>5 DEF answersOf
    <2>2. answersOf \subseteq Session \X Made /\ answersOf' \subseteq Session \X Made
        BY <1>5 DEF answersOf
    <2> HIDE DEF fit
    <2>3. fit \subseteq Made
        BY DEF fit
    <2> QED
        BY <2>1, <2>2, <2>3
<1>7. UNCHANGED <<verdictOf, aboutOf, doubtOf>> /\ verdictOf[s] = "none"
    <2>1. VerdictOf(r) = "none" /\ VerdictOf(session[s]) = "none"
        BY <1>1, <1>2 DEF VerdictOf
    <2> QED
        BY <1>2, <1>4, <2>1 DEF verdictOf, aboutOf, doubtOf
<1>8. fit \in SUBSET Made
    OBVIOUS
<1> HIDE DEF fit
<1> QED
    BY <1>5, <1>6, <1>7, <1>8, ClaimIs DEF Atomic!Ask

\* verify of a message and the checks before the first await.
LEMMA Begins ==
    ASSUME Inv, NEW s \in Session, FromNetwork(s), VerifyMessage(s)
    PROVE  \E p \in Presentation : Atomic!Begin(s, p) \/ Atomic!Refuse(s, p)
<1> DEFINE p == reading[s].sealed.message.body
           v == session[s]
           begun == [[[v EXCEPT !.pc = "holderKey"] EXCEPT !.checks = p] EXCEPT !.restored = FALSE]
           refused == [Refused(s, TRUE) EXCEPT !.checks = p]
<1>1. /\ reading[s].pc = "read" /\ OwnerIsSender(reading[s].sealed.message) /\ Verify(s, p)
      /\ UNCHANGED <<keyVars, document, stream, presentation, network>>
    BY DEF VerifyMessage, Verify, messagingVars
<1>2. p \in shownOf /\ p \in Made /\ p \in Presentation /\ presentation[p].made
    BY <1>1, Meets DEF Made
<1>3. v \in SessionRecord /\ v.pc = "open" /\ verdictOf[s] = "none"
    BY <1>1 DEF Verify, Inv, SessionsInv, verdictOf, VerdictOf
<1> HIDE DEF p
<1>4. CASE ChecksData(s, p)
    <2>1. session' = [session EXCEPT ![s] = begun]
        BY <1>1, <1>4 DEF Verify, Inv, SessionsInv
    <2>2. begun \in SessionRecord /\ begun.pc = "holderKey" /\ begun.checks = p
          /\ ~begun.restored /\ begun.asks = v.asks /\ begun.trusted = v.trusted
        BY <1>2, <1>3 DEF SessionRecord
    <2> HIDE DEF begun
    <2>3. /\ UNCHANGED <<claimOf, shownOf, answersOf>>
          /\ verdictOf' = [verdictOf EXCEPT ![s] = VerdictOf(begun)]
          /\ aboutOf' = [aboutOf EXCEPT ![s] = p] /\ doubtOf' = doubtOf \ {s}
        BY <1>1, <1>3, <2>1, <2>2, SessionStep
    <2>4. VerdictOf(begun) = "checking"
        BY <2>2 DEF VerdictOf
    <2> QED
        BY <1>2, <1>3, <2>3, <2>4 DEF Atomic!Begin
<1>5. CASE ~ChecksData(s, p)
    <2>1. session' = [session EXCEPT ![s] = refused]
        BY <1>1, <1>5 DEF Verify
    <2>2. refused \in SessionRecord /\ refused.pc = "refused" /\ refused.checks = p
          /\ refused.cause /\ refused.restored = v.restored
          /\ refused.asks = v.asks /\ refused.trusted = v.trusted
        BY <1>2, <1>3 DEF SessionRecord, Refused
    <2> HIDE DEF refused
    <2>3. /\ UNCHANGED <<claimOf, shownOf, answersOf, doubtOf>>
          /\ verdictOf' = [verdictOf EXCEPT ![s] = VerdictOf(refused)]
          /\ aboutOf' = [aboutOf EXCEPT ![s] = p]
        BY <1>1, <1>3, <2>1, <2>2, SessionStep DEF doubtOf
    <2>4. VerdictOf(refused) = "refused"
        BY <2>2 DEF VerdictOf
    <2>5. <<s, p>> \notin answersOf
        BY <1>2, <1>5 DEF ChecksData, answersOf, Inv, PapersInv, GoodPresentation, GoodData
    <2> QED
        BY <1>2, <1>3, <2>3, <2>4, <2>5 DEF Atomic!Refuse
<1> QED
    BY <1>4, <1>5

\* A check whose record keeps what is asked, checked and restored.
LEMMA CheckStep ==
    ASSUME Inv, NEW s \in Session, session[s].pc \in {"holderKey", "issuerKey", "stream"},
           NEW r \in SessionRecord, session' = [session EXCEPT ![s] = r],
           r.pc # "idle", r.asks = session[s].asks, r.trusted = session[s].trusted,
           r.checks = session[s].checks, r.restored = session[s].restored,
           UNCHANGED <<keyVars, document, stream, presentation, network>>
    PROVE  /\ UNCHANGED <<claimOf, shownOf, answersOf, aboutOf, doubtOf>>
           /\ verdictOf' = [verdictOf EXCEPT ![s] = VerdictOf(r)]
           /\ verdictOf[s] \in {"checking", "found"}
           /\ VerdictOf(r) = verdictOf[s] => UNCHANGED Atomic!vars
<1>1. /\ UNCHANGED <<claimOf, shownOf, answersOf>>
      /\ verdictOf' = [verdictOf EXCEPT ![s] = VerdictOf(r)]
      /\ aboutOf' = [aboutOf EXCEPT ![s] = session[s].checks]
      /\ doubtOf' = IF session[s].restored THEN doubtOf \cup {s} ELSE doubtOf \ {s}
    BY SessionStep
<1>2. aboutOf' = aboutOf /\ doubtOf' = doubtOf
    BY <1>1 DEF aboutOf, doubtOf
<1>3. verdictOf[s] \in {"checking", "found"}
    BY DEF verdictOf, VerdictOf
<1>4. VerdictOf(r) = verdictOf[s] => verdictOf' = verdictOf
    BY <1>1 DEF verdictOf
<1> QED
    BY <1>1, <1>2, <1>3, <1>4 DEF Atomic!vars

\* The presentation of a session that is under way.
LEMMA UnderWay ==
    ASSUME Inv, NEW s \in Session, session[s].pc \in {"holderKey", "issuerKey", "stream"}
    PROVE  LET p == session[s].checks IN
           /\ session[s] \in SessionRecord /\ session \in [Session -> SessionRecord]
           /\ p \in Presentation /\ p \in Made /\ aboutOf[s] = p
           /\ presentation[p].of \in Document
           /\ session[s].asks => presentation[p].challenge = s
           /\ claimOf[p] = IF Holds(p) THEN "holds" ELSE "void"
           /\ <<s, p>> \in answersOf
                 <=> document[presentation[p].of].issuer \in session[s].trusted
<1> DEFINE p == session[s].checks
<1>1. session[s] \in SessionRecord /\ session \in [Session -> SessionRecord] /\ aboutOf[s] = p
    BY DEF Inv, SessionsInv, aboutOf
<1>2. p \in Presentation /\ p \in Made /\ (session[s].asks => presentation[p].challenge = s)
    BY DEF Inv, SessionsInv, GoodSession, Made
<1>3. presentation[p].of \in Document
    BY <1>2 DEF Made, Inv, PapersInv, GoodPresentation
<1>4. <<s, p>> \in answersOf <=> document[presentation[p].of].issuer \in session[s].trusted
    BY <1>2 DEF answersOf
<1> QED
    BY <1>1, <1>2, <1>3, <1>4, ClaimIs

\* A check that ends with false.
LEMMA Refuses ==
    ASSUME Inv, NEW s \in Session, session[s].pc \in {"holderKey", "issuerKey", "stream"},
           NEW cause \in BOOLEAN, session' = [session EXCEPT ![s] = Refused(s, cause)],
           cause => LET p == session[s].checks IN
                    \/ ~Holds(p) \/ document[presentation[p].of].issuer \notin session[s].trusted,
           UNCHANGED <<keyVars, document, stream, presentation, network>>
    PROVE  Atomic!GiveUp(s) \/ Atomic!Refuse(s, session[s].checks)
<1> DEFINE p == session[s].checks
           r == Refused(s, cause)
<1>1. session[s] \in SessionRecord /\ aboutOf[s] = p
      /\ claimOf[p] = (IF Holds(p) THEN "holds" ELSE "void")
      /\ (<<s, p>> \in answersOf <=> document[presentation[p].of].issuer \in session[s].trusted)
    BY UnderWay
<1>2. r \in SessionRecord /\ r.pc = "refused" /\ r.cause = cause /\ r.asks = session[s].asks
      /\ r.trusted = session[s].trusted /\ r.checks = p /\ r.restored = session[s].restored
    BY <1>1 DEF Refused, SessionRecord
<1>3. VerdictOf(r) = IF cause THEN "refused" ELSE "unknown"
    BY <1>2 DEF VerdictOf
<1> HIDE DEF r
<1>4. session' = [session EXCEPT ![s] = r]
    BY DEF r
<1>5. /\ UNCHANGED <<claimOf, shownOf, answersOf, aboutOf, doubtOf>>
      /\ verdictOf' = [verdictOf EXCEPT ![s] = VerdictOf(r)]
      /\ verdictOf[s] \in {"checking", "found"}
    BY <1>2, <1>4, CheckStep
<1>6. aboutOf' = [aboutOf EXCEPT ![s] = p]
    BY <1>1, <1>5 DEF aboutOf
<1>7. CASE cause
    BY <1>1, <1>3, <1>5, <1>6, <1>7 DEF Atomic!Refuse
<1>8. CASE ~cause
    BY <1>3, <1>5, <1>8 DEF Atomic!GiveUp
<1> QED
    BY <1>7, <1>8

LEMMA HolderIsChecked ==
    ASSUME Inv, NEW s \in Session, CheckHolder(s), UNCHANGED <<keyVars, network>>
    PROVE  \/ UNCHANGED Atomic!vars \/ Atomic!Find(s) \/ Atomic!GiveUp(s)
           \/ Atomic!Refuse(s, session[s].checks)
<1> DEFINE p == session[s].checks
           valid == IssuerSigned(p) /\ stream[presentation[p].of] \notin {"revoked", "removed"}
           r == [[session[s] EXCEPT !.pc = "issuerKey"] EXCEPT !.wasValid = valid]
<1>1. session[s].pc = "holderKey" /\ UNCHANGED <<document, stream, presentation>>
    BY DEF CheckHolder
<1>2. session[s] \in SessionRecord /\ aboutOf[s] = p
      /\ claimOf[p] = (IF Holds(p) THEN "holds" ELSE "void")
    BY <1>1, UnderWay
<1>3. CASE HolderSigned(p)
    <2>1. session' = [session EXCEPT ![s] = r]
        BY <1>3 DEF CheckHolder, Inv, SessionsInv
    <2>2. valid \in BOOLEAN
        BY DEF IssuerSigned, SignedBy, resolveKey
    <2>3. valid <=> Holds(p)
        BY <1>3 DEF Holds, Withdrawn
    <2> HIDE DEF valid
    <2>4. r \in SessionRecord /\ r.pc = "issuerKey" /\ r.wasValid = valid
          /\ r.asks = session[s].asks /\ r.trusted = session[s].trusted
          /\ r.checks = p /\ r.restored = session[s].restored
        BY <1>2, <2>2 DEF SessionRecord
    <2> HIDE DEF r
    <2>5. VerdictOf(r) = IF valid THEN "found" ELSE "checking"
        BY <2>4 DEF VerdictOf
    <2>6. verdictOf[s] = "checking"
        BY <1>1 DEF verdictOf, VerdictOf
    <2>7. /\ UNCHANGED <<claimOf, shownOf, answersOf, aboutOf, doubtOf>>
          /\ verdictOf' = [verdictOf EXCEPT ![s] = VerdictOf(r)]
          /\ VerdictOf(r) = verdictOf[s] => UNCHANGED Atomic!vars
        BY <1>1, <2>1, <2>4, CheckStep
    <2>8. CASE ~valid
        BY <2>5, <2>6, <2>7, <2>8
    <2>9. CASE valid
        BY <1>2, <2>3, <2>5, <2>6, <2>7, <2>9 DEF Atomic!Find
    <2> QED
        BY <2>8, <2>9
<1>4. CASE ~HolderSigned(p)
    <2>1. session' = [session EXCEPT ![s] = Refused(s, TRUE)]
        BY <1>4 DEF CheckHolder
    <2> QED
        BY <1>1, <1>4, <2>1, Refuses DEF Holds
<1> QED
    BY <1>3, <1>4

LEMMA IssuerIsChecked ==
    ASSUME Inv, NEW s \in Session, CheckIssuer(s), UNCHANGED <<keyVars, network>>
    PROVE  \/ UNCHANGED Atomic!vars \/ Atomic!GiveUp(s) \/ Atomic!Refuse(s, session[s].checks)
<1> DEFINE p == session[s].checks
           r == [session[s] EXCEPT !.pc = "stream"]
<1>1. session[s].pc = "issuerKey" /\ UNCHANGED <<document, stream, presentation>>
    BY DEF CheckIssuer
<1>2. session[s] \in SessionRecord
    BY <1>1, UnderWay
<1>3. CASE IssuerSigned(p)
    <2>1. session' = [session EXCEPT ![s] = r]
        BY <1>3 DEF CheckIssuer, Inv, SessionsInv
    <2>2. r \in SessionRecord /\ r.pc = "stream" /\ r.wasValid = session[s].wasValid
          /\ r.asks = session[s].asks /\ r.trusted = session[s].trusted
          /\ r.checks = p /\ r.restored = session[s].restored
        BY <1>2 DEF SessionRecord
    <2> HIDE DEF r
    <2>3. VerdictOf(r) = verdictOf[s]
        BY <1>1, <2>2 DEF verdictOf, VerdictOf
    <2> QED
        BY <1>1, <2>1, <2>2, <2>3, CheckStep
<1>4. CASE ~IssuerSigned(p)
    <2>1. session' = [session EXCEPT ![s] = Refused(s, TRUE)]
        BY <1>4 DEF CheckIssuer
    <2> QED
        BY <1>1, <1>4, <2>1, Refuses DEF Holds
<1> QED
    BY <1>3, <1>4

LEMMA StreamIsChecked ==
    ASSUME Inv, NEW s \in Session, CheckStream(s), UNCHANGED <<keyVars, network>>
    PROVE  Atomic!Accept(s) \/ Atomic!GiveUp(s) \/ Atomic!Refuse(s, session[s].checks)
<1> DEFINE p == session[s].checks
           d == presentation[p].of
           r == [session[s] EXCEPT !.pc = "accepted"]
<1>1. session[s].pc = "stream" /\ UNCHANGED <<document, stream, presentation>>
    BY DEF CheckStream
<1>2. session[s] \in SessionRecord /\ aboutOf[s] = p /\ d \in Document
      /\ (<<s, p>> \in answersOf <=> document[d].issuer \in session[s].trusted)
    BY <1>1, UnderWay
<1>3. CASE StreamGood(s, d)
    <2>1. session' = [session EXCEPT ![s] = r]
        BY <1>3 DEF CheckStream, Inv, SessionsInv
    <2>2. r \in SessionRecord /\ r.pc = "accepted"
          /\ r.asks = session[s].asks /\ r.trusted = session[s].trusted
          /\ r.checks = p /\ r.restored = session[s].restored
        BY <1>2 DEF SessionRecord
    <2> HIDE DEF r
    <2>3. VerdictOf(r) = "accepted"
        BY <2>2 DEF VerdictOf
    <2>4. session[s].wasValid \/ session[s].restored
        BY <1>1, <1>3 DEF StreamGood, Inv, SessionsInv, GoodSession, Withdrawn
    <2>5. verdictOf[s] = "found" \/ (verdictOf[s] = "checking" /\ s \in doubtOf)
        BY <1>1, <2>4 DEF verdictOf, VerdictOf, doubtOf
    <2>6. <<s, aboutOf[s]>> \in answersOf
        BY <1>2, <1>3 DEF StreamGood
    <2>7. /\ UNCHANGED <<claimOf, shownOf, answersOf, aboutOf, doubtOf>>
          /\ verdictOf' = [verdictOf EXCEPT ![s] = VerdictOf(r)]
        BY <1>1, <2>1, <2>2, CheckStep
    <2> QED
        BY <2>3, <2>5, <2>6, <2>7 DEF Atomic!Accept
<1>4. CASE ~StreamGood(s, d)
    <2>1. session' = [session EXCEPT ![s] = Refused(s, stream[d] # "none")]
        BY <1>4 DEF CheckStream, Inv, SessionsInv
    <2>2. stream[d] # "none" => ~Holds(p) \/ document[d].issuer \notin session[s].trusted
        BY <1>2, <1>4 DEF StreamGood, Holds, Withdrawn, Inv, PapersInv, Tables
    <2> QED
        BY <1>1, <2>1, <2>2, Refuses
<1> QED
    BY <1>3, <1>4

-----------------------------------------------------------------------------
(* All steps.                                                              *)

LEMMA InitIsAtomicInit == Init => Atomic!Init
<1> SUFFICES ASSUME Init PROVE Atomic!Init
    OBVIOUS
<1>1. Made = {}
    BY DEF Made, Init, CredentialInit, None
<1>2. claimOf = [p \in Presentation |-> "unmade"]
    BY <1>1 DEF claimOf
<1>3. shownOf = {} /\ answersOf = {}
    BY <1>1 DEF shownOf, answersOf, Init, MessagingInit
<1>4. \A s \in Session : session[s].pc = "idle" /\ session[s].checks = NoChallenge
                             /\ ~session[s].restored
    BY DEF Init, CredentialInit
<1>5. verdictOf = [s \in Session |-> "none"]
    BY <1>4 DEF verdictOf, VerdictOf
<1>6. aboutOf = [s \in Session |-> NoChallenge] /\ doubtOf = {}
    BY <1>4 DEF aboutOf, doubtOf
<1> QED
    BY <1>2, <1>3, <1>5, <1>6 DEF Atomic!Init

LEMMA IssuerIsAtomic ==
    ASSUME Inv, IssuerNext, UNCHANGED <<keyVars, messagingVars>>
    PROVE  Atomic!Fade \/ Atomic!Restore
<1>1. PICK d \in Document :
        \/ \E i \in Issuer, c \in Contents, evidence \in Attachments, n \in KeyNumber :
              FromContent(d, i, c, evidence, n)
        \/ CreateStream(d)
        \/ \E shouldRemove \in BOOLEAN : RevokeCredential(d, shouldRemove)
        \/ RestoreStream(d)
    BY DEF IssuerNext
<1>2. network' = network
    BY DEF messagingVars
<1>3. CASE \E i \in Issuer, c \in Contents, evidence \in Attachments, n \in KeyNumber :
              FromContent(d, i, c, evidence, n)
    <2>1. Later
        BY <1>3, FromContentKeepsPapers DEF Inv
    <2>2. UNCHANGED <<stream, presentation, session>>
        BY <1>3 DEF FromContent
    <2> QED
        BY <1>2, <2>1, <2>2, OnlyStreamsCome, Fades DEF Made, Withdrawn, Inv, keyVars
<1>4. CASE CreateStream(d) \/ \E shouldRemove \in BOOLEAN : RevokeCredential(d, shouldRemove)
    <2>1. Later
        BY <1>4, StreamsKeepSessions DEF Inv
    <2>2. UNCHANGED <<presentation, session>>
        BY <1>4 DEF CreateStream, RevokeCredential
    <2>3. \A e \in Document : Withdrawn(e) => Withdrawn(e)'
        BY <1>4 DEF CreateStream, RevokeCredential, Withdrawn, Inv, PapersInv, Tables
    <2> QED
        BY <1>2, <2>1, <2>2, <2>3, OnlyStreamsCome, Fades DEF Made, Inv, keyVars
<1>5. CASE RestoreStream(d)
    <2>1. Later
        BY <1>5, StreamsKeepSessions DEF Inv
    <2> QED
        BY <1>2, <1>5, <2>1, Restores DEF RestoreStream, Made
<1> QED
    BY <1>1, <1>3, <1>4, <1>5

LEMMA HolderIsAtomic ==
    ASSUME Inv, HolderNext, UNCHANGED <<keyVars, messagingVars>>
    PROVE  \E p \in Presentation : Atomic!Make(p)
<1>1. PICK p \in Presentation, challenge \in Asked, n \in KeyNumber :
        \/ \E d \in Document : document[d].made /\
              \E selected \in SUBSET AttributesOf(d) : PresentDocument(p, d, selected, challenge, n)
        \/ \E q \in Presentation : presentation[q].made /\
              \E selected \in SUBSET AttributesOf(presentation[q].of) :
                  PresentAgain(p, q, selected, challenge, n)
    BY DEF HolderNext
<1>2. PICK selected : \/ \E d \in Document : PresentDocument(p, d, selected, challenge, n)
                      \/ \E q \in Presentation : PresentAgain(p, q, selected, challenge, n)
    BY <1>1
<1>3. Later
    BY <1>2, HolderKeepsPapers DEF Inv
<1>4. UNCHANGED <<document, stream, session, network>>
    BY <1>2 DEF PresentDocument, PresentAgain, Present, messagingVars
<1>5. ~presentation[p].made /\ \E x : x.made /\ presentation' = [presentation EXCEPT ![p] = x]
    <2>1. PICK d, data, signature, shown : Present(p, d, data, signature, shown, selected, challenge, n)
        BY <1>2 DEF PresentDocument, PresentAgain
    <2> QED
        BY <2>1 DEF Present
<1> QED
    BY <1>3, <1>4, <1>5, Makes

LEMMA VerifierIsAtomic ==
    ASSUME Inv, VerifierNext, UNCHANGED <<keyVars, messagingVars>>
    PROVE  [Atomic!Next]_(Atomic!vars)
<1>1. PICK s \in Session :
        \/ \E request \in Requests : OpenSession(s, request.asks, request.trusted)
        \/ CheckHolder(s) \/ CheckIssuer(s) \/ CheckStream(s) \/ QueryFails(s)
    BY DEF VerifierNext
<1>2. network' = network
    BY DEF messagingVars
<1>3. CASE \E request \in Requests : OpenSession(s, request.asks, request.trusted)
    <2>1. PICK request \in Requests : OpenSession(s, request.asks, request.trusted)
        BY <1>3
    <2>2. request.asks \in BOOLEAN /\ request.trusted \in SUBSET Issuer
        BY InputsAssumption
    <2> QED
        BY <1>2, <2>1, <2>2, Asks DEF Atomic!Next
<1>4. CASE CheckHolder(s) \/ CheckIssuer(s) \/ CheckStream(s) \/ QueryFails(s)
    <2>1. session[s].checks \in Presentation
        BY <1>4, UnderWay DEF CheckHolder, CheckIssuer, CheckStream, QueryFails
    <2>2. \/ UNCHANGED Atomic!vars \/ Atomic!Find(s) \/ Atomic!Accept(s) \/ Atomic!GiveUp(s)
          \/ Atomic!Refuse(s, session[s].checks)
        BY <1>2, <1>4, HolderIsChecked, IssuerIsChecked, StreamIsChecked, Refuses DEF QueryFails
    <2> QED
        BY <2>1, <2>2 DEF Atomic!Next
<1> QED
    BY <1>1, <1>3, <1>4

LEMMA LetterIsAtomic ==
    ASSUME Inv, LetterNext, UNCHANGED <<keyVars, credentialVars>>
    PROVE  [Atomic!Next]_(Atomic!vars)
<1>1. CASE network' = network
    BY <1>1, SameMapped
<1>2. CASE network' # network
    <2>1. PICK l \in Letter : encrypt(l)
        BY <1>2 DEF LetterNext, ResolveSender, ResolveReceiver, EncryptThrows
    <2> DEFINE m == [message |-> letter[l].message, sealedBy |-> letter[l].keypair,
                     senderKey |-> letter[l].senderKey, receiverKey |-> letter[l].receiverKey]
               p == letter[l].message.body
    <2>2. network' = network \cup {m} /\ letter[l] # Idle
        BY <2>1 DEF encrypt, Idle
    <2>3. m.message.body = p
        OBVIOUS
    <2>4. p \in Made /\ p \in Presentation
        BY <2>2, CompositionAssumption
           DEF Made, Inv, MessagesInv, GoodLetter, ForVerifier, LetterRecord, Message
    <2> HIDE DEF m
    <2>5. shownOf' = shownOf \/ shownOf' = shownOf \cup {p}
        BY <2>2, <2>3, <2>4 DEF shownOf
    <2>6. UNCHANGED claimOf
        BY SameClaims DEF credentialVars
    <2>7. UNCHANGED <<answersOf, verdictOf, aboutOf, doubtOf>>
        BY DEF answersOf, Made, verdictOf, aboutOf, doubtOf, credentialVars
    <2>8. CASE shownOf' = shownOf
        BY <2>6, <2>7, <2>8 DEF Atomic!vars
    <2>9. CASE shownOf' = shownOf \cup {p}
        BY <2>4, <2>6, <2>7, <2>9, ClaimIs DEF Atomic!Show, Atomic!Next
    <2> QED
        BY <2>5, <2>8, <2>9
<1> QED
    BY <1>1, <1>2

LEMMA NextIsAtomicNext ==
    ASSUME Inv, \A s \in Session : FromNetwork(s), [Next]_vars
    PROVE  [Atomic!Next]_(Atomic!vars)
<1>1. CASE \E d \in Did : ChangeKeys(d) /\ UNCHANGED messagingVars
    <2>1. PICK d \in Did : ChangeKeys(d) /\ UNCHANGED messagingVars
        BY <1>1
    <2>2. Made' = Made /\ UNCHANGED network
        BY <2>1 DEF ChangeKeys, Made, messagingVars
    <2>3. Later /\ (Fading \/ SomethingIsBack)
        BY <2>1, KeysKeepPapers, KeysKeepSessions DEF Inv
    <2>4. CASE SomethingIsBack
        BY <2>2, <2>3, <2>4, Restores DEF Atomic!Next
    <2>5. CASE ~SomethingIsBack
        <3>1. UNCHANGED session
            BY <2>1, <2>5 DEF ChangeKeys
        <3> QED
            BY <2>2, <2>3, <2>5, <3>1, Fades DEF Atomic!Next
    <2> QED
        BY <2>4, <2>5
<1>2. CASE IssuerNext /\ UNCHANGED <<keyVars, messagingVars>>
    BY <1>2, IssuerIsAtomic DEF Atomic!Next
<1>3. CASE HolderNext /\ UNCHANGED <<keyVars, messagingVars>>
    BY <1>3, HolderIsAtomic DEF Atomic!Next
<1>4. CASE VerifierNext /\ UNCHANGED <<keyVars, messagingVars>>
    BY <1>4, VerifierIsAtomic
<1>5. CASE LetterNext /\ UNCHANGED <<keyVars, credentialVars>>
    BY <1>5, LetterIsAtomic
<1>6. CASE ReadNext /\ UNCHANGED <<keyVars, credentialVars>>
    <2>1. network' = network
        BY <1>6 DEF ReadNext, decrypt, DecryptThrows
    <2> QED
        BY <1>6, <2>1, SameMapped
<1>7. CASE \E l \in Letter, p \in Presentation, address \in Addressing : Send(l, p, address)
    BY <1>7, SameMapped DEF Send, Compose
<1>8. CASE \E s \in Session, sealed \in network : Receive(s, sealed)
    BY <1>8, SameMapped DEF Receive, Read
<1>9. CASE \E s \in Session : VerifyMessage(s) \/ RejectMessage(s)
    <2>1. PICK s \in Session : VerifyMessage(s) \/ RejectMessage(s)
        BY <1>9
    <2>2. CASE VerifyMessage(s)
        BY <2>2, Begins DEF Atomic!Next
    <2>3. CASE RejectMessage(s)
        BY <2>3, SameMapped DEF RejectMessage
    <2> QED
        BY <2>1, <2>2, <2>3
<1>10. CASE UNCHANGED vars
    BY <1>10, SameMapped DEF vars, messagingVars
<1> QED
    BY <1>1, <1>2, <1>3, <1>4, <1>5, <1>6, <1>7, <1>8, <1>9, <1>10 DEF Next

LEMMA EverythingIsFromNetwork == Spec => [](\A s \in Session : FromNetwork(s))
<1>1. Init => \A s \in Session : FromNetwork(s)
    BY CompositionAssumption DEF Init, MessagingInit, FromNetwork
<1>2. Inv /\ (\A s \in Session : FromNetwork(s)) /\ [Next]_vars
          => (\A s \in Session : FromNetwork(s))'
    BY NetworkKept
<1> QED
    BY <1>1, <1>2, Invariance, PTL DEF Spec

\* A verification with its three awaits, between which keys change and streams are
\* withdrawn, implements one that looks at a single moment (verifyPresentation,
\* decrypt, ensureOwnerIsSender).
THEOREM VerificationIsAtomic == Spec => VerifiesAsAtOneMoment
<1>1. Inv /\ (\A s \in Session : FromNetwork(s)) /\ [Next]_vars => [Atomic!Next]_(Atomic!vars)
    BY NextIsAtomicNext
<1> QED
    BY <1>1, InitIsAtomicInit, Invariance, EverythingIsFromNetwork, PTL
       DEF Spec, VerifiesAsAtOneMoment, Atomic!Spec
=============================================================================
