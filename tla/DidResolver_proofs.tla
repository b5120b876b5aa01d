-------------------------- MODULE DidResolver_proofs --------------------------
(***************************************************************************)
(* Proofs about DidResolver, for every set of callers and resources, and   *)
(* any number of failing queries and of changes of the DID.                *)
(***************************************************************************)
EXTENDS DidResolver, TLAPS

-----------------------------------------------------------------------------
(* Type correctness.                                                       *)

LEMMA NoDocumentType == NoDocument \in Document
  BY DEF NoDocument, Document

\* An answer that may be told to who wants w.
AnswerTo(w) == {a \in Answer : a.outcome \in Told(w.kind)}

LEMMA TellTypes ==
    ASSUME NEW w \in Want, NEW o \in Told(w.kind)
    PROVE  Tell(o) \in AnswerTo(w)
<1>1. o \in Outcome
    BY DEF Told, Outcome
<1>2. QED
    BY <1>1, NoDocumentType DEF Tell, Answer, AnswerTo

\* Every answer the entry points build is one.
LEMMA AnswerTypes ==
    ASSUME NEW w \in Want, NEW d \in Document, NEW deactivated \in BOOLEAN
    PROVE  /\ FromDocument(w, d) \in AnswerTo(w)
           /\ WithoutDocument(w, deactivated) \in AnswerTo(w)
           /\ Malformed(w) \in AnswerTo(w)
           /\ \A o \in {"RpcError", "UnsupportedVersion", "BlockchainApiMissingError", "TypeError"} :
                 Tell(o) \in AnswerTo(w)
<1>1. w.kind \in Kind
    BY DEF Want
<1>2. FromDocument(w, d) \in AnswerTo(w)
  <2>1. CASE w.kind \in {"resolve", "resolveCompliant"}
      BY <2>1 DEF FromDocument, AnswerTo, Answer, Outcome, Told
  <2>2. CASE w.kind \in {"resolveKey", "resolveService"}
    <3>1. /\ Tell("DidNotFoundError") \in AnswerTo(w) /\ Tell("DidError") \in AnswerTo(w)
          /\ [outcome |-> "resource", document |-> d] \in AnswerTo(w)
        BY <2>2, TellTypes DEF Told, AnswerTo, Answer, Outcome
    <3>2. QED
        BY <2>2, <3>1 DEF FromDocument
  <2>3. QED
      BY <1>1, <2>1, <2>2 DEF Kind
<1>3. WithoutDocument(w, deactivated) \in AnswerTo(w)
    BY <1>1, TellTypes DEF WithoutDocument, Told, Kind
<1>4. Malformed(w) \in AnswerTo(w)
    BY <1>1, TellTypes DEF Malformed, Told, Kind
<1>5. \A o \in {"RpcError", "UnsupportedVersion", "BlockchainApiMissingError", "TypeError"} :
         Tell(o) \in AnswerTo(w)
    BY TellTypes DEF Told
<1>6. QED
    BY <1>2, <1>3, <1>4, <1>5

LEMMA InitTypeOK == Init => TypeOK
  BY NoDocumentType DEF Init, TypeOK, NoAnswer, Answer, Outcome, Told

LEMMA NextTypeOK == TypeOK /\ [Next]_vars => TypeOK'
<1> SUFFICES ASSUME TypeOK, [Next]_vars PROVE TypeOK'
    OBVIOUS
<1> USE DEF TypeOK, callVars
<1>1. chain \in State /\ (chain.status = "present" => chain.document \in Document)
    BY DEF State, Present, Absent, Deleted
<1>2. ASSUME NEW r \in Caller, NEW a \in AnswerTo(want[r]), Finish(r, a), want' = want
      PROVE  /\ pc' \in [Caller -> {"idle", "document", "blacklist", "done"}]
             /\ answer' \in [Caller -> Answer]
             /\ \A q \in Caller : answer'[q].outcome \in Told(want'[q].kind)
    BY <1>2 DEF Finish, AnswerTo
<1>3. ASSUME NEW r \in Caller, Start(r) PROVE TypeOK'
  <2>1. want[r] \in Want
      OBVIOUS
  <2>2. /\ pc' \in [Caller -> {"idle", "document", "blacklist", "done"}]
        /\ answer' \in [Caller -> Answer]
        /\ \A q \in Caller : answer'[q].outcome \in Told(want'[q].kind)
    <3>1. /\ Malformed(want[r]) \in AnswerTo(want[r])
          /\ Tell("UnsupportedVersion") \in AnswerTo(want[r])
          /\ Tell("BlockchainApiMissingError") \in AnswerTo(want[r])
          /\ Tell("TypeError") \in AnswerTo(want[r])
        BY <2>1, NoDocumentType, AnswerTypes
    <3>2. \/ \E a \in AnswerTo(want[r]) : Finish(r, a)
          \/ pc' = [pc EXCEPT ![r] = "document"] /\ answer' = answer
        BY <1>3, <3>1 DEF Start
    <3>3. want' = want
        BY <1>3 DEF Start
    <3>4. QED
        BY <1>2, <3>2, <3>3
  <2>3. during' \in [Caller -> SUBSET State] /\ after' \in [Caller -> SUBSET Caller]
      BY <1>1, <1>3 DEF Start
  <2>4. QED
      BY <1>3, <2>2, <2>3 DEF Start
<1>4. ASSUME NEW r \in Caller, ReadDocument(r) PROVE TypeOK'
  <2>1. CASE chain.status = "present"
    <3>1. FromDocument(want[r], chain.document) \in AnswerTo(want[r])
        BY <1>1, <2>1, AnswerTypes
    <3>2. QED
        BY <1>2, <1>4, <2>1, <3>1 DEF ReadDocument
  <2>2. CASE chain.status # "present"
      BY <1>4, <2>2 DEF ReadDocument
  <2>3. QED
      BY <2>1, <2>2
<1>5. ASSUME NEW r \in Caller, ReadDocumentFails(r) PROVE TypeOK'
    BY <1>5 DEF ReadDocumentFails
<1>6. ASSUME NEW r \in Caller, ReadBlacklist(r) PROVE TypeOK'
  <2>1. WithoutDocument(want[r], chain.status = "deleted") \in AnswerTo(want[r])
      BY NoDocumentType, AnswerTypes
  <2>2. QED
      BY <1>2, <1>6, <2>1 DEF ReadBlacklist
<1>7. ASSUME NEW r \in Caller, ReadBlacklistFails(r) PROVE TypeOK'
  <2>1. want[r] \in Want
      OBVIOUS
  <2>2. Tell("RpcError") \in AnswerTo(want[r])
      BY <2>1, TellTypes DEF Told
  <2>3. QED
      BY <1>2, <1>7, <2>2 DEF ReadBlacklistFails
<1>8. ASSUME NEW next \in State, Change(next) PROVE TypeOK'
  <2>1. during' \in [Caller -> SUBSET State]
      BY <1>8 DEF Change
  <2>2. QED
      BY <1>8, <2>1 DEF Change
<1>9. CASE Create \/ Update \/ Delete
    BY <1>8, <1>9 DEF Create, Update, Delete, State
<1>10. CASE UNCHANGED vars
    BY <1>10 DEF vars
<1>11. QED
    BY <1>3, <1>4, <1>5, <1>6, <1>7, <1>9, <1>10 DEF Next

\* Every variable keeps its type.
THEOREM TypeCorrect == Spec => []TypeOK
<1>1. QED
    BY InitTypeOK, NextTypeOK, PTL DEF Spec

-----------------------------------------------------------------------------
(* The invariant.  A call under way has seen the state the chain is in, a  *)
(* state once seen deleted stays so, and a call that starts after another  *)
(* was told of the deletion sees nothing else.                             *)

Reading == \A r \in Caller : pc[r] \in {"document", "blacklist"} => chain \in during[r]
Unanswered == \A r \in Caller : pc[r] # "done" => answer[r] = NoAnswer
Unstarted == \A r \in Caller : pc[r] = "idle" => during[r] = {} /\ after[r] = {}
Buried == \A r \in Caller : Deleted \in during[r] => chain = Deleted
Missing == \A r \in Caller : pc[r] = "blacklist" /\ r \notin failed =>
              Absent \in during[r] \/ Deleted \in during[r]
Earlier == \A r \in Caller : \A q \in after[r] : pc[q] = "done"
Posthumous == \A r \in Caller : \A q \in after[r] :
                 answer[q].outcome = "deactivated" => during[r] \subseteq {Deleted}
NotDeleted == \A r \in Caller : answer[r].outcome = "unregistered" =>
                 \E s \in during[r] : s # Deleted

IInv ==
    /\ TypeOK
    /\ Reading /\ Unanswered /\ Unstarted /\ Buried /\ Missing
    /\ Earlier /\ Posthumous /\ NotDeleted
    /\ PositiveAnswersWereTrue /\ UnregisteredWasAbsent

\* The states of a DID are told apart by their status.
LEMMA States ==
    /\ Deleted.status = "deleted" /\ Absent.status = "absent"
    /\ \A s \in State : s.status = "deleted" <=> s = Deleted
    /\ \A s \in State : s.status = "absent" <=> s = Absent
    /\ \A s \in State : s.status = "present" => s.document \in Document /\ s = Present(s.document)
    /\ \A d \in Document : Present(d) # Deleted
  BY DEF State, Present, Absent, Deleted

\* What is told of a document is true of it.
LEMMA FromDocumentIsTrue ==
    ASSUME NEW w \in Want, NEW d \in Document
    PROVE  LET a == FromDocument(w, d) IN
           /\ a.outcome \notin {"deactivated", "unregistered", "DidDeactivatedError"}
           /\ a.outcome = "document" => a.document = d
           /\ a.outcome = "resource" =>
                 /\ w.id \in d.has
                 /\ w.kind = "resolveKey" /\ w.expected => w.id \in d.listed
  BY DEF FromDocument, Tell, Want

LEMMA InitIInv == Init => IInv
<1> SUFFICES ASSUME Init PROVE IInv
    OBVIOUS
<1>1. TypeOK
    BY InitTypeOK
<1>2. QED
    BY <1>1 DEF Init, IInv, Reading, Unanswered, Unstarted, Buried, Missing, Earlier, Posthumous,
        NotDeleted, PositiveAnswersWereTrue, UnregisteredWasAbsent, NoAnswer

\* What an answer to r claims of the states seen during its call.
Truthful(r, a) ==
    /\ a.outcome = "document" => Present(a.document) \in during[r]
    /\ a.outcome = "deactivated" => Deleted \in during[r]
    /\ a.outcome = "resource" =>
          \E d \in Document :
              /\ Present(d) \in during[r]
              /\ want[r].id \in d.has
              /\ want[r].kind = "resolveKey" /\ want[r].expected => want[r].id \in d.listed
    /\ a.outcome = "unregistered" => \E s \in during[r] : s # Deleted
    /\ a.outcome = "unregistered" /\ r \notin failed => Absent \in during[r]
    /\ a.outcome = "DidDeactivatedError" /\ r \notin failed => {Absent, Deleted} \cap during[r] # {}

LEMMA TruthfulIsTrue ==
    (\A r \in Caller : Truthful(r, answer[r]))
        <=> NotDeleted /\ PositiveAnswersWereTrue /\ UnregisteredWasAbsent
  BY DEF Truthful, NotDeleted, PositiveAnswersWereTrue, UnregisteredWasAbsent

\* A call that is told the truth keeps the invariant.
LEMMA FinishIInv ==
    ASSUME IInv, TypeOK', NEW r \in Caller, NEW a, pc[r] \in {"document", "blacklist"},
           Finish(r, a), Truthful(r, a),
           UNCHANGED <<chain, changes, api, want, during, after, failed>>
    PROVE  IInv'
<1> USE DEF IInv
<1>1. /\ pc' = [pc EXCEPT ![r] = "done"] /\ pc \in [Caller -> {"idle", "document", "blacklist", "done"}]
      /\ answer' = [answer EXCEPT ![r] = a] /\ answer \in [Caller -> Answer]
    BY DEF Finish, TypeOK
<1>2. \A q \in Caller : pc[q] = "done" => q # r
    OBVIOUS
<1>3. (\A q \in Caller : Truthful(q, answer[q]))'
    BY <1>1, TruthfulIsTrue DEF Truthful
<1>4. (NotDeleted /\ PositiveAnswersWereTrue /\ UnregisteredWasAbsent)'
    BY <1>3 DEF Truthful, NotDeleted, PositiveAnswersWereTrue, UnregisteredWasAbsent
<1>5. (Reading /\ Unanswered /\ Unstarted /\ Buried /\ Missing)'
    BY <1>1 DEF Reading, Unanswered, Unstarted, Buried, Missing
<1>6. Earlier'
    BY <1>1 DEF Earlier, TypeOK
<1>7. Posthumous'
    BY <1>1, <1>2 DEF Earlier, Posthumous, TypeOK
<1>8. QED
    BY <1>4, <1>5, <1>6, <1>7

\* A call that starts, or throws at once, keeps the invariant: if another was
\* told of the deletion before, the DID is deleted, and that is all it will see.
LEMMA StartIInv ==
    ASSUME IInv, TypeOK', NEW r \in Caller, Start(r)
    PROVE  IInv'
<1> USE DEF IInv
<1>1. \E a : /\ a.outcome \notin {"document", "deactivated", "resource", "unregistered",
                                   "DidDeactivatedError"}
             /\ \/ pc' = [pc EXCEPT ![r] = "done"] /\ answer' = [answer EXCEPT ![r] = a]
                \/ pc' = [pc EXCEPT ![r] = "document"] /\ answer' = [answer EXCEPT ![r] = NoAnswer]
  <2>1. answer = [answer EXCEPT ![r] = NoAnswer]
      BY DEF Start, Unanswered, TypeOK
  <2>2. /\ Malformed(want[r]).outcome \in {"invalidDid", "DidError"}
        /\ Tell("UnsupportedVersion").outcome = "UnsupportedVersion"
        /\ Tell("BlockchainApiMissingError").outcome = "BlockchainApiMissingError"
        /\ Tell("TypeError").outcome = "TypeError"
      BY DEF Malformed, Tell
  <2>3. QED
      BY <2>1, <2>2 DEF Start, Finish
<1>2. PICK a : <1>1!(a)
    BY <1>1
<1>3. NoAnswer.outcome = "none"
    BY DEF NoAnswer
<1>4. /\ pc[r] = "idle" /\ UNCHANGED <<chain, changes, api, want, failed>>
      /\ during' = [during EXCEPT ![r] = {chain}]
      /\ after' = [after EXCEPT ![r] = {q \in Caller : pc[q] = "done"}]
    BY DEF Start
<1>5. /\ pc \in [Caller -> {"idle", "document", "blacklist", "done"}] /\ answer \in [Caller -> Answer]
      /\ during \in [Caller -> SUBSET State] /\ after \in [Caller -> SUBSET Caller]
    BY DEF TypeOK
<1>6. (\A q \in Caller : Truthful(q, answer[q]))'
    BY <1>2, <1>3, <1>4, <1>5, TruthfulIsTrue DEF Truthful
<1>7. (NotDeleted /\ PositiveAnswersWereTrue /\ UnregisteredWasAbsent)'
    BY <1>6 DEF Truthful, NotDeleted, PositiveAnswersWereTrue, UnregisteredWasAbsent
<1>8. (Reading /\ Unstarted /\ Buried /\ Missing)'
    BY <1>2, <1>4, <1>5 DEF Reading, Unstarted, Buried, Missing
<1>9. Unanswered'
    BY <1>2, <1>4, <1>5 DEF Unanswered
<1>10. Earlier'
    BY <1>2, <1>4, <1>5 DEF Earlier
<1>11. Posthumous'
  <2> SUFFICES ASSUME NEW p \in Caller, NEW q \in after'[p], answer'[q].outcome = "deactivated"
               PROVE  during'[p] \subseteq {Deleted}
      BY DEF Posthumous
  <2>1. pc[q] = "done" /\ q \in Caller /\ q # r /\ answer'[q] = answer[q]
      BY <1>2, <1>4, <1>5 DEF Earlier
  <2>2. Deleted \in during[q] /\ chain = Deleted
      BY <2>1 DEF PositiveAnswersWereTrue, Buried
  <2>3. QED
      BY <1>4, <1>5, <2>1, <2>2 DEF Posthumous
<1>12. QED
    BY <1>7, <1>8, <1>9, <1>10, <1>11

\* A change of a DID that is not deleted keeps the invariant.
LEMMA ChangeIInv ==
    ASSUME IInv, TypeOK', NEW next \in State, chain # Deleted, Change(next)
    PROVE  IInv'
<1> USE DEF IInv
<1>1. /\ chain' = next /\ UNCHANGED <<api, want, pc, answer, after, failed>>
      /\ \A r \in Caller : during'[r] = IF pc[r] \in {"document", "blacklist"}
                                      THEN during[r] \cup {next} ELSE during[r]
    BY DEF Change, callVars
<1>2. after \in [Caller -> SUBSET Caller]
    BY DEF TypeOK
<1>3. \A r \in Caller : during[r] \subseteq during'[r]
    BY <1>1
<1>4. (NotDeleted /\ PositiveAnswersWereTrue /\ UnregisteredWasAbsent)'
    BY <1>1, <1>3 DEF NotDeleted, PositiveAnswersWereTrue, UnregisteredWasAbsent
<1>5. (Reading /\ Unanswered /\ Unstarted /\ Missing /\ Earlier)'
    BY <1>1 DEF Reading, Unanswered, Unstarted, Missing, Earlier
<1>6. Buried'
    BY <1>1 DEF Buried
<1>7. Posthumous'
    BY <1>1, <1>2 DEF Posthumous, PositiveAnswersWereTrue, Buried
<1>8. QED
    BY <1>4, <1>5, <1>6, <1>7

LEMMA NextIInv == IInv /\ [Next]_vars => IInv'
<1> SUFFICES ASSUME IInv, [Next]_vars PROVE IInv'
    OBVIOUS
<1> USE DEF IInv
<1>1. TypeOK'
    BY NextTypeOK
<1>2. chain \in State
    BY DEF TypeOK
<1>3. ASSUME NEW r \in Caller, Start(r) PROVE IInv'
    BY <1>1, <1>3, StartIInv
<1>4. ASSUME NEW r \in Caller, ReadDocument(r) PROVE IInv'
  <2>1. CASE chain.status = "present"
    <3>1. chain.document \in Document /\ Present(chain.document) \in during[r]
        BY <1>2, <1>4, <2>1, States DEF ReadDocument, Reading
    <3>2. want[r] \in Want
        BY DEF TypeOK
    <3>3. Truthful(r, FromDocument(want[r], chain.document))
        BY <3>1, <3>2, FromDocumentIsTrue DEF Truthful
    <3>4. QED
        BY <1>1, <1>4, <2>1, <3>3, FinishIInv DEF ReadDocument
  <2>2. CASE chain.status # "present"
    <3>1. chain = Absent \/ chain = Deleted
        BY <1>2, <2>2 DEF State, Present
    <3>2. /\ pc[r] = "document" /\ pc' = [pc EXCEPT ![r] = "blacklist"]
          /\ UNCHANGED <<chain, changes, api, want, answer, during, after, failed>>
        BY <1>4, <2>2 DEF ReadDocument
    <3>3. pc \in [Caller -> {"idle", "document", "blacklist", "done"}]
          /\ after \in [Caller -> SUBSET Caller]
        BY DEF TypeOK
    <3>4. (Reading /\ Unanswered /\ Unstarted /\ Buried)'
        BY <3>2, <3>3 DEF Reading, Unanswered, Unstarted, Buried
    <3>5. Missing'
        BY <3>1, <3>2, <3>3 DEF Missing, Reading
    <3>6. (Earlier /\ Posthumous)'
        BY <3>2, <3>3 DEF Earlier, Posthumous
    <3>7. (NotDeleted /\ PositiveAnswersWereTrue /\ UnregisteredWasAbsent)'
        BY <3>2 DEF NotDeleted, PositiveAnswersWereTrue, UnregisteredWasAbsent
    <3>8. QED
        BY <1>1, <3>4, <3>5, <3>6, <3>7
  <2>3. QED
      BY <2>1, <2>2
<1>5. ASSUME NEW r \in Caller, ReadDocumentFails(r) PROVE IInv'
  <2>1. /\ pc[r] = "document" /\ pc' = [pc EXCEPT ![r] = "blacklist"]
        /\ failed' = failed \cup {r}
        /\ UNCHANGED <<chain, changes, api, want, answer, during, after>>
      BY <1>5 DEF ReadDocumentFails
  <2>2. pc \in [Caller -> {"idle", "document", "blacklist", "done"}]
        /\ after \in [Caller -> SUBSET Caller]
      BY DEF TypeOK
  <2>3. (Reading /\ Unanswered /\ Unstarted /\ Buried /\ Missing)'
      BY <2>1, <2>2 DEF Reading, Unanswered, Unstarted, Buried, Missing
  <2>4. (Earlier /\ Posthumous)'
      BY <2>1, <2>2 DEF Earlier, Posthumous
  <2>5. (NotDeleted /\ PositiveAnswersWereTrue /\ UnregisteredWasAbsent)'
      BY <2>1 DEF NotDeleted, PositiveAnswersWereTrue, UnregisteredWasAbsent
  <2>6. QED
      BY <1>1, <2>3, <2>4, <2>5
<1>6. ASSUME NEW r \in Caller, ReadBlacklist(r) PROVE IInv'
  <2>1. pc[r] = "blacklist" /\ chain \in during[r]
      BY <1>6 DEF ReadBlacklist, Reading
  <2>2. chain.status = "deleted" <=> chain = Deleted
      BY <1>2, States
  <2>3. /\ r \notin failed /\ chain # Deleted => Absent \in during[r]
        /\ r \notin failed => {Absent, Deleted} \cap during[r] # {}
      BY <2>1 DEF Missing, Buried
  <2>4. Truthful(r, WithoutDocument(want[r], chain.status = "deleted"))
    <3>1. CASE chain = Deleted
        BY <2>1, <2>2, <2>3, <3>1 DEF Truthful, WithoutDocument, Tell
    <3>2. CASE chain # Deleted
        BY <2>1, <2>2, <2>3, <3>2 DEF Truthful, WithoutDocument, Tell
    <3>3. QED
        BY <3>1, <3>2
  <2>5. QED
      BY <1>1, <1>6, <2>4, FinishIInv DEF ReadBlacklist
<1>7. ASSUME NEW r \in Caller, ReadBlacklistFails(r) PROVE IInv'
  <2>1. Truthful(r, Tell("RpcError"))
      BY DEF Truthful, Tell
  <2>2. QED
      BY <1>1, <1>7, <2>1, FinishIInv DEF ReadBlacklistFails
<1>8. CASE Create \/ Update \/ Delete
  <2>1. chain # Deleted
      BY <1>2, <1>8, States DEF Create, Update, Delete
  <2>2. \E next \in State : Change(next)
      BY <1>8 DEF Create, Update, Delete, State
  <2>3. QED
      BY <1>1, <2>1, <2>2, ChangeIInv
<1>9. CASE UNCHANGED vars
    BY <1>1, <1>9 DEF vars, callVars, Reading, Unanswered, Unstarted, Buried, Missing, Earlier,
        Posthumous, NotDeleted, PositiveAnswersWereTrue, UnregisteredWasAbsent
<1>10. QED
    BY <1>3, <1>4, <1>5, <1>6, <1>7, <1>8, <1>9 DEF Next

LEMMA Invariance == Spec => []IInv
<1>1. QED
    BY InitIInv, NextIInv, PTL DEF Spec

-----------------------------------------------------------------------------
(* The theorems.                                                           *)

\* Whatever fails and whatever changes between the two reads of resolve, what a
\* caller is told of an existing DID was true at one moment of its call.
THEOREM PositiveAnswersWereTrueHolds == Spec => []PositiveAnswersWereTrue
<1>1. IInv => PositiveAnswersWereTrue
    BY DEF IInv
<1>2. QED
    BY Invariance, <1>1, PTL

\* Unless its first query fails, resolve never misses a DID: one said to be
\* unregistered was not on chain at one moment of the call, and one that resolveKey
\* or resolveService calls deactivated was not there, or deleted.
THEOREM UnregisteredWasAbsentHolds == Spec => []UnregisteredWasAbsent
<1>1. IInv => UnregisteredWasAbsent
    BY DEF IInv
<1>2. QED
    BY Invariance, <1>1, PTL

\* No call that starts after a caller was told of the deletion gets anything of
\* the DID, or hears that it was never there, failing queries included.
THEOREM DeactivationIsFinalHolds == Spec => []DeactivationIsFinal
<1>1. IInv => DeactivationIsFinal
  <2> SUFFICES ASSUME IInv, NEW q \in Caller, NEW r \in Caller,
                      q \in after[r], answer[q].outcome = "deactivated"
               PROVE  answer[r].outcome \notin {"document", "resource", "unregistered"}
      BY DEF DeactivationIsFinal
  <2>1. \A s \in during[r] : s = Deleted
      BY DEF IInv, Posthumous
  <2>2. answer[r] \in Answer
      BY DEF IInv, TypeOK
  <2>3. answer[r].outcome # "document"
      BY <2>1, <2>2, States DEF IInv, PositiveAnswersWereTrue, Answer
  <2>4. answer[r].outcome # "resource"
      BY <2>1, States DEF IInv, PositiveAnswersWereTrue
  <2>5. answer[r].outcome # "unregistered"
      BY <2>1 DEF IInv, NotDeleted
  <2>6. QED
      BY <2>3, <2>4, <2>5
<1>2. QED
    BY Invariance, <1>1, PTL
==============================================================================
