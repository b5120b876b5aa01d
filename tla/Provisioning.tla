----------------------------- MODULE Provisioning -----------------------------
(***************************************************************************)
(* What the setup of an issuer promises: the items come on chain one by    *)
(* one, each once, after those it refers to; and each service is told of   *)
(* them in that order, only of those that are there, until it is started   *)
(* again and forgets.  An item may be lost again with its block: then it   *)
(* may be missing for a while, or for ever, where it was needed or told    *)
(* of.  Nothing is promised of progress: creations may be refused and      *)
(* queries fail.                                                           *)
(***************************************************************************)
CONSTANTS Service, Item,
          Needs         \* Needs[item]: the items that it refers to

VARIABLES
    stored,             \* the items on chain
    lost,               \* the items that were on chain and are not
    known               \* known[s]: the items that service s was told of

vars == <<stored, lost, known>>

Init ==
    /\ stored = {} /\ lost = {}
    /\ known = [s \in Service |-> {}]

Create(item) ==
    /\ item \notin stored /\ Needs[item] \subseteq stored \cup lost
    /\ stored' = stored \cup {item} /\ lost' = lost \ {item}
    /\ UNCHANGED known

Lose(item) ==
    /\ item \in stored
    /\ stored' = stored \ {item} /\ lost' = lost \cup {item}
    /\ UNCHANGED known

Tell(s, item) ==
    /\ item \in stored \cup lost /\ Needs[item] \subseteq known[s]
    /\ known' = [known EXCEPT ![s] = @ \cup {item}]
    /\ UNCHANGED <<stored, lost>>

Forget(s) ==
    /\ known' = [known EXCEPT ![s] = {}]
    /\ UNCHANGED <<stored, lost>>

Next ==
    \/ \E item \in Item : Create(item) \/ Lose(item)
    \/ \E s \in Service : Forget(s) \/ \E item \in Item : Tell(s, item)

Spec == Init /\ [][Next]_vars
===============================================================================
