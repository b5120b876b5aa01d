-------------------------- MODULE AtomicVerification --------------------------
(***************************************************************************)
(* What a verifier may conclude from the verdict of verifyPresentation: as *)
(* if the presentation had been checked at one moment.  A claim holds      *)
(* while its signatures verify and its stream is not withdrawn.  The       *)
(* verdict is reached in several steps, but one that accepts has found the *)
(* claim to hold at one instant in between, and one that refuses for cause *)
(* has met a claim that does not hold, or is not what was asked for.  The  *)
(* one exception are claims that come to hold again during the             *)
(* verification.                                                           *)
(***************************************************************************)
CONSTANTS Claim, Session, NoClaim

VARIABLES
    claim,      \* claim[p]: does it hold now?
    shown,      \* the claims that the holder sent to the verifier
    answers,    \* pairs of a session and a claim that is what the session asks for
    verdict,    \* verdict[s]: how far the session is
    about,      \* about[s]: the claim it is about
    doubt       \* the sessions during which a claim came to hold again

vars == <<claim, shown, answers, verdict, about, doubt>>

Made == {p \in Claim : claim[p] # "unmade"}

Init ==
    /\ claim = [p \in Claim |-> "unmade"]
    /\ shown = {} /\ answers = {} /\ doubt = {}
    /\ verdict = [s \in Session |-> "none"]
    /\ about = [s \in Session |-> NoClaim]

\* A new claim may be signed with a key that is no longer valid.
Make(p) ==
    /\ p \notin Made
    /\ \E truth \in {"holds", "void"} : claim' = [claim EXCEPT ![p] = truth]
    /\ \E askedBy \in SUBSET Session : answers' = answers \cup (askedBy \X {p})
    /\ UNCHANGED <<shown, verdict, about, doubt>>

\* Keys change or streams are withdrawn.
Fade ==
    /\ \E gone \in SUBSET Made :
          claim' = [p \in Claim |-> IF p \in gone THEN "void" ELSE claim[p]]
    /\ UNCHANGED <<shown, answers, verdict, about, doubt>>

\* A stream is restored, or a key set again: some claims hold again, others no longer.
Restore ==
    /\ doubt' = Session
    /\ \E hold \in SUBSET Made :
          claim' = [p \in Claim |-> IF p \in hold THEN "holds"
                                   ELSE IF p \in Made THEN "void" ELSE "unmade"]
    /\ UNCHANGED <<shown, answers, verdict, about>>

Show(p) ==
    /\ p \in Made
    /\ shown' = shown \cup {p}
    /\ UNCHANGED <<claim, answers, verdict, about, doubt>>

Ask(s) ==
    /\ verdict[s] = "none"
    /\ \E fit \in SUBSET Made : answers' = answers \cup ({s} \X fit)
    /\ UNCHANGED <<claim, shown, verdict, about, doubt>>

\* Of the claims it was shown, the verifier takes one up.
Begin(s, p) ==
    /\ verdict[s] = "none" /\ p \in shown
    /\ verdict' = [verdict EXCEPT ![s] = "checking"]
    /\ about' = [about EXCEPT ![s] = p]
    /\ doubt' = doubt \ {s}
    /\ UNCHANGED <<claim, shown, answers>>

\* The one moment.
Find(s) ==
    /\ verdict[s] = "checking" /\ claim[about[s]] = "holds"
    /\ verdict' = [verdict EXCEPT ![s] = "found"]
    /\ UNCHANGED <<claim, shown, answers, about, doubt>>

Accept(s) ==
    /\ verdict[s] = "found" \/ (verdict[s] = "checking" /\ s \in doubt)
    /\ <<s, about[s]>> \in answers
    /\ verdict' = [verdict EXCEPT ![s] = "accepted"]
    /\ UNCHANGED <<claim, shown, answers, about, doubt>>

\* At once, or at a later check.
Refuse(s, p) ==
    /\ \/ verdict[s] = "none" /\ p \in shown
       \/ verdict[s] \in {"checking", "found"} /\ p = about[s]
    /\ claim[p] = "void" \/ <<s, p>> \notin answers
    /\ verdict' = [verdict EXCEPT ![s] = "refused"]
    /\ about' = [about EXCEPT ![s] = p]
    /\ UNCHANGED <<claim, shown, answers, doubt>>

\* A query failed, or the claim's stream is not there yet: no verdict on the claim.
GiveUp(s) ==
    /\ verdict[s] \in {"checking", "found"}
    /\ verdict' = [verdict EXCEPT ![s] = "unknown"]
    /\ UNCHANGED <<claim, shown, answers, about, doubt>>

Next ==
    \/ Fade \/ Restore
    \/ \E p \in Claim : Make(p) \/ Show(p)
    \/ \E s \in Session : Ask(s) \/ Find(s) \/ Accept(s) \/ GiveUp(s)
    \/ \E s \in Session, p \in Claim : Begin(s, p) \/ Refuse(s, p)

Spec == Init /\ [][Next]_vars
===============================================================================
