---------------------------- MODULE ConnectionSlot ----------------------------
(***************************************************************************)
(* What the cached connection of the SDK is to its callers: one slot with  *)
(* two atomic operations.  connect puts a connection of its own into it,   *)
(* in place of the one that is there; disconnect takes out what is there   *)
(* and closes it, or finds nothing.                                        *)
(***************************************************************************)
CONSTANTS Connection, Disconnection, Nothing

VARIABLES
    slot,       \* the connection in the slot, or Nothing
    put,        \* the connections that have been in the slot
    displaced,  \* those of them that another one took the place of
    taken       \* taken[d]: what disconnect d took, or "waiting", or "nothing"

vars == <<slot, put, displaced, taken>>

Init ==
    /\ slot = Nothing /\ put = {} /\ displaced = {}
    /\ taken = [d \in Disconnection |-> "waiting"]

Put(c) ==
    /\ c \notin put
    /\ slot' = c /\ put' = put \cup {c}
    /\ displaced' = displaced \cup ({slot} \ {Nothing})
    /\ UNCHANGED taken

Take(d) ==
    /\ taken[d] = "waiting" /\ slot # Nothing
    /\ taken' = [taken EXCEPT ![d] = slot]
    /\ slot' = Nothing
    /\ UNCHANGED <<put, displaced>>

FindNothing(d) ==
    /\ taken[d] = "waiting" /\ slot = Nothing
    /\ taken' = [taken EXCEPT ![d] = "nothing"]
    /\ UNCHANGED <<slot, put, displaced>>

Next ==
    \/ \E c \in Connection : Put(c)
    \/ \E d \in Disconnection : Take(d) \/ FindNothing(d)

Spec == Init /\ [][Next]_vars
===============================================================================
