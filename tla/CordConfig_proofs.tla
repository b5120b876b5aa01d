-------------------------- MODULE CordConfig_proofs --------------------------
(***************************************************************************)
(* Proofs about CordConfig, for every set of overlapping calls of connect  *)
(* and disconnect and every set of log levels.                             *)
(***************************************************************************)
EXTENDS CordConfig, TLAPS

-----------------------------------------------------------------------------
(* Type correctness.                                                       *)

\* Whatever level is set, the loggers get one they know.
LEMMA LevelIsClamped ==
    ASSUME NEW level \in Levels \ {NoLevel}
    PROVE  modifyLogLevel(level) \in 0 .. 5
  BY LevelAssumption DEF Levels, modifyLogLevel

LEMMA SetType ==
    ASSUME TypeOK, NEW newApi \in Connection \cup {NoApi}, NEW newLevel \in Levels,
           set(newApi, newLevel)
    PROVE  /\ api' \in Connection \cup {NoApi} /\ logLevel' \in Levels
           /\ loggers' \in 0 .. 5 /\ deviates' \in BOOLEAN
<1>1. loggers' \in 0 .. 5
    BY LevelIsClamped DEF set, TypeOK
<1>2. QED
    BY <1>1 DEF set, TypeOK

LEMMA InitTypeOK == Init => TypeOK
<1> SUFFICES ASSUME Init PROVE TypeOK
    OBVIOUS
<1>1. logLevel \in Levels /\ loggers \in 0 .. 5
    BY LevelAssumption DEF Init, Levels
<1>2. QED
    BY <1>1 DEF Init, TypeOK

LEMMA NextTypeOK == TypeOK /\ [Next]_vars => TypeOK'
<1> SUFFICES ASSUME TypeOK, [Next]_vars PROVE TypeOK'
    OBVIOUS
<1> USE DEF TypeOK, configuration
<1>1. ASSUME NEW c \in Connection, ConnectStep(c) PROVE TypeOK'
  <2>1. CASE Created(c)
      BY <2>1, SetType DEF Created
  <2>2. CASE Connect(c) \/ ConnectThrows(c) \/ CreateThrows(c) \/ Return(c)
      BY <2>2 DEF Connect, ConnectThrows, CreateThrows, Return
  <2>3. QED
      BY <1>1, <2>1, <2>2 DEF ConnectStep
<1>2. ASSUME NEW d \in Disconnection, DisconnectStep(d) PROVE TypeOK'
  <2>1. CASE NothingCached(d) \/ Disconnected(d) \/ DisconnectThrows(d)
      BY <2>1 DEF NothingCached, Disconnected, DisconnectThrows
  <2>2. CASE Disconnect(d)
      BY <2>2 DEF Disconnect, Closes
  <2>3. QED
      BY <1>2, <2>1, <2>2 DEF DisconnectStep
<1>3. ASSUME NEW level \in Level \cup {NoLevel}, setLogLevel(level) PROVE TypeOK'
  <2>1. level \in Levels
      BY DEF Levels
  <2>2. QED
      BY <1>3, <2>1, SetType DEF setLogLevel
<1>4. CASE unsetLogLevel
    BY <1>4 DEF unsetLogLevel, Levels
<1>5. ASSUME NEW c \in Connection, Open(c) \/ Drop(c) PROVE TypeOK'
    BY <1>5 DEF Open, Drop
<1>6. CASE CloseDirectly
    BY <1>6 DEF CloseDirectly
<1>7. CASE UNCHANGED vars
    BY <1>7 DEF vars
<1>8. QED
    BY <1>1, <1>2, <1>3, <1>4, <1>5, <1>6, <1>7 DEF Next

\* Every variable keeps its type; in particular the loggers never get a level
\* outside 0 .. 5.
THEOREM TypeCorrect == Spec => []TypeOK
<1>1. QED
    BY InitTypeOK, NextTypeOK, PTL DEF Spec

-----------------------------------------------------------------------------
(* The cached connection.                                                  *)

\* A connection enters the cache only once its connect is through with
\* ApiPromise.create, and nobody can have closed it before.
Fresh ==
    \A c \in Connection :
        pc[c] \in {"idle", "creating", "threw"} => closers[c] = {} /\ api # c

CacheInv == TypeOK /\ Fresh /\ ClosedOnce /\ CachedIsNotClosed /\ NothingLost

LEMMA InitCacheInv == Init => CacheInv
  BY InitTypeOK, ApiAssumption
  DEF Init, CacheInv, Fresh, ClosedOnce, CachedIsNotClosed, NothingLost

LEMMA NextCacheInv == CacheInv /\ [Next]_vars => CacheInv'
<1> SUFFICES ASSUME CacheInv, [Next]_vars PROVE CacheInv'
    OBVIOUS
<1>1. TypeOK /\ TypeOK'
    BY NextTypeOK DEF CacheInv
<1> USE <1>1 DEF CacheInv, Fresh, ClosedOnce, CachedIsNotClosed, NothingLost, configuration
<1>2. ASSUME UNCHANGED <<api, pc, closers, replaced>> PROVE CacheInv'
    BY <1>2
<1>3. ASSUME NEW c \in Connection, Created(c) PROVE CacheInv'
  <2>1. /\ pc[c] = "creating" /\ pc' = [pc EXCEPT ![c] = "init"]
        /\ api' = c /\ closers' = closers
        /\ replaced' = replaced \cup ({api} \ {NoApi})
      BY <1>3 DEF Created, set
  <2>2. pc \in [Connection -> {"idle", "creating", "init", "returned", "threw"}]
      BY DEF TypeOK
  <2>3. closers[c] = {}
      BY <2>1
  <2>4. Fresh'
      BY <2>1, <2>2
  <2>5. NothingLost'
      BY <2>1, <2>2, ApiAssumption
  <2>6. QED
      BY <2>1, <2>3, <2>4, <2>5
<1>4. ASSUME NEW c \in Connection,
             Connect(c) \/ ConnectThrows(c) \/ CreateThrows(c) \/ Return(c)
      PROVE  CacheInv'
  <2>1. /\ UNCHANGED <<api, closers, replaced>>
        /\ \/ pc[c] = "idle" /\ pc' = [pc EXCEPT ![c] = "creating"]
           \/ pc[c] \in {"idle", "creating"} /\ pc' = [pc EXCEPT ![c] = "threw"]
           \/ pc[c] = "init" /\ pc' = [pc EXCEPT ![c] = "returned"]
      BY <1>4 DEF Connect, ConnectThrows, CreateThrows, Return
  <2>2. QED
      BY <2>1 DEF TypeOK
<1>5. ASSUME NEW d \in Disconnection, Disconnect(d) PROVE CacheInv'
  <2>1. /\ api \in Connection /\ api' = NoApi /\ UNCHANGED <<pc, replaced>>
        /\ closers' = [closers EXCEPT ![api] = closers[api] \cup {d}]
      BY <1>5 DEF Disconnect, Closes, TypeOK
  <2>2. closers[api] = {} /\ closers \in [Connection -> SUBSET Disconnection]
      BY <2>1, ApiAssumption DEF TypeOK
  <2>3. \A c \in Connection : closers'[c] = IF c = api THEN {d} ELSE closers[c]
      BY <2>1, <2>2
  <2>4. QED
      BY <2>1, <2>3, ApiAssumption
<1>6. QED
  <2>1. ASSUME NEW d \in Disconnection, DisconnectStep(d) PROVE CacheInv'
      BY <1>2, <1>5, <2>1 DEF DisconnectStep, NothingCached, Disconnected, DisconnectThrows
  <2>2. ASSUME NEW c \in Connection, ConnectStep(c) \/ Open(c) \/ Drop(c) PROVE CacheInv'
      BY <1>2, <1>3, <1>4, <2>2 DEF ConnectStep, Open, Drop
  <2>3. ASSUME NEW level, setLogLevel(level) PROVE CacheInv'
      BY <1>2, <2>3 DEF setLogLevel, set
  <2>4. CASE unsetLogLevel \/ CloseDirectly \/ UNCHANGED vars
      BY <1>2, <2>4 DEF unsetLogLevel, CloseDirectly, vars
  <2>5. QED
      BY <2>1, <2>2, <2>3, <2>4 DEF Next

LEMMA CacheInvariant == Spec => []CacheInv
<1>1. QED
    BY InitCacheInv, NextCacheInv, PTL DEF Spec

\* Of any number of overlapping disconnects, one closes a connection.
THEOREM ClosedOnceHolds == Spec => []ClosedOnce
<1>1. CacheInv => ClosedOnce
    BY DEF CacheInv
<1>2. QED
    BY CacheInvariant, <1>1, PTL

\* What ConfigService.get('api') gives was not closed by a disconnect.
THEOREM CachedIsNotClosedHolds == Spec => []CachedIsNotClosed
<1>1. CacheInv => CachedIsNotClosed
    BY DEF CacheInv
<1>2. QED
    BY CacheInvariant, <1>1, PTL

\* A connection leaves the cache only to be closed or for a newer one.
THEOREM NothingLostHolds == Spec => []NothingLost
<1>1. CacheInv => NothingLost
    BY DEF CacheInv
<1>2. QED
    BY CacheInvariant, <1>1, PTL

-----------------------------------------------------------------------------
(* The loggers.                                                            *)

\* The loggers follow the configured level, however connects, which set the api
\* only, and changes of the level interleave.
THEOREM LoggersFollowHolds == Spec => []LoggersFollow
<1>1. Init => LoggersFollow
    BY LevelAssumption DEF Init, LoggersFollow, modifyLogLevel
<1>2. LoggersFollow /\ [Next]_vars => LoggersFollow'
  <2> SUFFICES ASSUME LoggersFollow, [Next]_vars PROVE LoggersFollow'
      OBVIOUS
  <2> USE DEF LoggersFollow, configuration
  <2>1. ASSUME UNCHANGED <<logLevel, loggers, deviates>> PROVE LoggersFollow'
      BY <2>1
  <2>2. ASSUME NEW newApi, NEW newLevel, set(newApi, newLevel) PROVE LoggersFollow'
      BY <2>2 DEF set
  <2>3. ASSUME NEW c \in Connection, ConnectStep(c) \/ Open(c) \/ Drop(c) PROVE LoggersFollow'
      BY <2>1, <2>2, <2>3 
         DEF ConnectStep, Connect, ConnectThrows, Created, CreateThrows, Return, Open, Drop
  <2>4. ASSUME NEW d \in Disconnection, DisconnectStep(d) PROVE LoggersFollow'
      BY <2>1, <2>4 
         DEF DisconnectStep, NothingCached, Disconnect, Disconnected, DisconnectThrows
  <2>5. ASSUME NEW level, setLogLevel(level) PROVE LoggersFollow'
      BY <2>2, <2>5 DEF setLogLevel
  <2>6. CASE unsetLogLevel
      BY <2>6 DEF unsetLogLevel
  <2>7. CASE CloseDirectly \/ UNCHANGED vars
      BY <2>1, <2>7 DEF CloseDirectly, vars
  <2>8. QED
      BY <2>3, <2>4, <2>5, <2>6, <2>7 DEF Next
<1>3. QED
    BY <1>1, <1>2, PTL DEF Spec


-----------------------------------------------------------------------------
(* The cache is one slot.                                                  *)

LEMMA InitIsSlotInit == Init => Cache!Init
  BY DEF Init, Cache!Init, putOf, takenOf

LEMMA SlotUnchanged ==
    UNCHANGED <<api, pc, replaced, closing>> => UNCHANGED Cache!vars
  BY DEF Cache!vars, putOf, takenOf

\* A connect puts its own connection, and each connect does so once.
LEMMA CreatedPuts ==
    ASSUME TypeOK, NEW c \in Connection, Created(c)
    PROVE  Cache!Put(c)
<1>1. /\ pc[c] = "creating" /\ pc' = [pc EXCEPT ![c] = "init"] /\ api' = c
      /\ closing' = closing /\ replaced' = replaced \cup ({api} \ {NoApi})
    BY DEF Created, set
<1>2. c \notin putOf /\ putOf' = putOf \cup {c}
    BY <1>1 DEF putOf, TypeOK
<1>3. takenOf' = takenOf
    BY <1>1 DEF takenOf
<1>4. QED
    BY <1>1, <1>2, <1>3 DEF Cache!Put

\* The other steps of a connect do not reach the slot.
LEMMA ConnectStutters ==
    ASSUME TypeOK, NEW c \in Connection,
           Connect(c) \/ ConnectThrows(c) \/ CreateThrows(c) \/ Return(c)
    PROVE  UNCHANGED Cache!vars
<1>1. /\ UNCHANGED <<api, closing, replaced>>
      /\ \/ pc[c] = "idle" /\ pc' = [pc EXCEPT ![c] = "creating"]
         \/ pc[c] \in {"idle", "creating"} /\ pc' = [pc EXCEPT ![c] = "threw"]
         \/ pc[c] = "init" /\ pc' = [pc EXCEPT ![c] = "returned"]
    BY DEF Connect, ConnectThrows, CreateThrows, Return, configuration
<1>2. putOf' = putOf
    BY <1>1 DEF putOf, TypeOK
<1>3. QED
    BY <1>1, <1>2 DEF Cache!vars, takenOf

LEMMA DisconnectTakes ==
    ASSUME TypeOK, NEW d \in Disconnection, DisconnectStep(d)
    PROVE  [Cache!Take(d) \/ Cache!FindNothing(d)]_(Cache!vars)
<1> DEFINE v == closing[d]
<1>1. /\ closing \in [Disconnection -> [state : {"idle", "closing", "true", "false", "threw"},
                                        target : Connection \cup {NoApi}]]
      /\ pc' = pc /\ replaced' = replaced
    BY 
       DEF TypeOK, DisconnectStep, NothingCached, Disconnect, Disconnected, DisconnectThrows,
           configuration
<1>2. putOf' = putOf
    BY <1>1 DEF putOf
<1>3. ASSUME NEW r, closing' = [closing EXCEPT ![d] = r], NEW x,
             x = CASE r.state = "idle" -> "waiting" [] r.state = "false" -> "nothing"
                   [] OTHER -> r.target
      PROVE  takenOf' = [takenOf EXCEPT ![d] = x]
  <2>1. \A e \in Disconnection : closing'[e] = IF e = d THEN r ELSE closing[e]
      BY <1>1, <1>3
  <2>2. \A e \in Disconnection : takenOf'[e] = IF e = d THEN x ELSE takenOf[e]
      BY <1>3, <2>1 DEF takenOf
  <2>3. takenOf' = [e \in Disconnection |-> takenOf'[e]] /\ takenOf = [e \in Disconnection |-> takenOf[e]]
      BY DEF takenOf
  <2>4. QED
      BY <2>2, <2>3
<1>4. CASE Disconnect(d)
  <2> DEFINE r == [state |-> "closing", target |-> api]
  <2>1. v.state = "idle" /\ api # NoApi /\ api' = NoApi /\ closing' = [closing EXCEPT ![d] = r]
      BY <1>4 DEF Disconnect, Closes
  <2>2. takenOf' = [takenOf EXCEPT ![d] = api] /\ takenOf[d] = "waiting"
    <3>1. r.state = "closing" /\ r.target = api
        OBVIOUS
    <3> HIDE DEF r
    <3>2. QED
        BY <1>3, <2>1, <3>1 DEF takenOf
  <2>3. QED
      BY <1>1, <1>2, <2>1, <2>2 DEF Cache!Take
<1>5. CASE NothingCached(d)
  <2> DEFINE r == [v EXCEPT !.state = "false"]
  <2>1. v.state = "idle" /\ api = NoApi /\ api' = api /\ closing' = [closing EXCEPT ![d] = r]
      BY <1>1, <1>5 DEF NothingCached, configuration
  <2>2. r.state = "false"
      BY <1>1
  <2>3. takenOf' = [takenOf EXCEPT ![d] = "nothing"] /\ takenOf[d] = "waiting"
      BY <1>3, <2>1, <2>2 DEF takenOf
  <2>4. QED
      BY <1>1, <1>2, <2>1, <2>3 DEF Cache!FindNothing
<1>6. CASE Disconnected(d) \/ DisconnectThrows(d)
  <2>1. PICK s \in {"true", "threw"} :
            v.state = "closing" /\ api' = api /\ closing' = [closing EXCEPT ![d].state = s]
      BY <1>6 DEF Disconnected, DisconnectThrows, configuration
  <2> DEFINE r == [v EXCEPT !.state = s]
  <2>2. /\ r.state = s /\ r.target = v.target
        /\ closing' = [closing EXCEPT ![d] = r]
      BY <1>1, <2>1
  <2>3. takenOf' = [takenOf EXCEPT ![d] = v.target] /\ takenOf[d] = v.target
      BY <1>3, <2>1, <2>2 DEF takenOf
  <2>4. takenOf' = takenOf
      BY <2>3 DEF takenOf
  <2>5. QED
      BY <1>1, <1>2, <2>1, <2>4 DEF Cache!vars
<1>7. QED
    BY <1>4, <1>5, <1>6 DEF DisconnectStep

LEMMA NextIsSlotNext == TypeOK /\ [Next]_vars => [Cache!Next]_(Cache!vars)
<1> SUFFICES ASSUME TypeOK, [Next]_vars PROVE [Cache!Next]_(Cache!vars)
    OBVIOUS
<1>1. ASSUME NEW c \in Connection, ConnectStep(c) PROVE [Cache!Next]_(Cache!vars)
    BY <1>1, CreatedPuts, ConnectStutters DEF ConnectStep, Cache!Next
<1>2. ASSUME NEW d \in Disconnection, DisconnectStep(d) PROVE [Cache!Next]_(Cache!vars)
    BY <1>2, DisconnectTakes DEF Cache!Next
<1>3. ASSUME NEW c \in Connection, Open(c) \/ Drop(c) PROVE [Cache!Next]_(Cache!vars)
    BY <1>3, SlotUnchanged DEF Open, Drop, configuration
<1>4. ASSUME NEW level, setLogLevel(level) PROVE [Cache!Next]_(Cache!vars)
    BY <1>4, SlotUnchanged DEF setLogLevel, set
<1>5. CASE unsetLogLevel \/ CloseDirectly \/ UNCHANGED vars
    BY <1>5, SlotUnchanged DEF unsetLogLevel, CloseDirectly, vars, configuration
<1>6. QED
    BY <1>1, <1>2, <1>3, <1>4, <1>5 DEF Next

\* Overlapping calls of connect and disconnect, each cut at its awaits, implement
\* atomic operations of one slot, while levels change and sockets come and go.
THEOREM CacheIsOneSlot == Spec => ActsAsOneSlot
<1>1. QED
    BY InitIsSlotInit, NextIsSlotNext, TypeCorrect, PTL DEF Spec, ActsAsOneSlot, Cache!Spec
==============================================================================
