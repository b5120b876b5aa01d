----------------------------- MODULE CordConfig -----------------------------
(***************************************************************************)
(* The configuration of the SDK and its cached connection:                 *)
(* config/src/ConfigService.ts, and init, connect and disconnect of        *)
(* modules/src/cordconfig/CordConfig.ts.                                   *)
(*                                                                         *)
(* Calls of connect and disconnect overlap: each is cut at its awaits, and *)
(* ConfigService.set and unset run without one.  Every connect opens a     *)
(* connection of its own.  Meanwhile an application sets and unsets the    *)
(* log level, and may close the api it finds in the configuration without  *)
(* Cord.disconnect (as the demo's bench.ts does).  The web socket is       *)
(* external; it reconnects by itself until it is closed.                   *)
(***************************************************************************)
EXTENDS Integers

CONSTANTS
    Connection,     \* calls of connect, and the connection each one opens
    Disconnection,  \* calls of disconnect
    Level,          \* log levels that applications set
    DefaultLevel,   \* DEFAULT_DEBUG_LEVEL
    NoApi,          \* no api in the configuration
    NoLevel         \* log level undefined

ASSUME ApiAssumption == NoApi \notin Connection
ASSUME LevelAssumption ==
    /\ Level \subseteq Int /\ DefaultLevel \in 0 .. 5 /\ NoLevel \notin Int

VARIABLES
    \* the configuration
    api,            \* the cached connection, or NoApi
    logLevel,       \* the configured log level
    loggers,        \* the level of the existing loggers
    \* the calls
    pc,             \* where each connect is
    closing,        \* what each disconnect has to close: its state and target
    \* the connections
    socket,
    \* history
    closers,        \* the disconnects that closed a connection
    replaced,       \* connections that another one replaced in the cache
    deviates        \* was the level unset or undefined since it was last applied?

configuration == <<api, logLevel, loggers, deviates>>
vars == <<configuration, pc, closing, socket, closers, replaced>>

Levels == Level \cup {DefaultLevel, NoLevel}

TypeOK ==
    /\ api \in Connection \cup {NoApi}
    /\ logLevel \in Levels
    /\ loggers \in 0 .. 5
    /\ pc \in [Connection -> {"idle", "creating", "init", "returned", "threw"}]
    /\ closing \in [Disconnection -> [state : {"idle", "closing", "true", "false", "threw"},
                                      target : Connection \cup {NoApi}]]
    /\ socket \in [Connection -> {"none", "opening", "open", "closed"}]
    /\ closers \in [Connection -> SUBSET Disconnection]
    /\ replaced \in SUBSET Connection
    /\ deviates \in BOOLEAN

Init ==
    /\ api = NoApi
    /\ logLevel = DefaultLevel
    /\ loggers = DefaultLevel
    /\ pc = [c \in Connection |-> "idle"]
    /\ closing = [d \in Disconnection |-> [state |-> "idle", target |-> NoApi]]
    /\ socket = [c \in Connection |-> "none"]
    /\ closers = [c \in Connection |-> {}]
    /\ replaced = {}
    /\ deviates = FALSE

-----------------------------------------------------------------------------
(* ConfigService.                                                          *)

\* modifyLogLevel clamps what it is given to 0 .. 5.
modifyLogLevel(level) == IF level > 0 THEN (IF level > 5 THEN 5 ELSE level) ELSE 0

\* Mutant: only a level among the options set is applied.
set_optionsOnly(newApi, newLevel) ==
    /\ api' = newApi
    /\ logLevel' = newLevel
    /\ loggers' = IF newLevel \in {NoLevel, logLevel} THEN loggers ELSE modifyLogLevel(newLevel)
    /\ deviates' = (deviates /\ newLevel = NoLevel)

\* set merges the options and applies the level of the result, whichever option
\* was set.
set(newApi, newLevel) ==
    /\ api' = newApi
    /\ logLevel' = newLevel
    /\ loggers' = IF newLevel = NoLevel THEN loggers ELSE modifyLogLevel(newLevel)
    /\ deviates' = (deviates /\ newLevel = NoLevel)

setLogLevel(level) ==
    /\ set(api, level)
    /\ UNCHANGED <<pc, closing, socket, closers, replaced>>

\* unset('logLevel') restores the default, but not in the loggers.
unsetLogLevel ==
    /\ logLevel' = DefaultLevel
    /\ deviates' = TRUE
    /\ UNCHANGED <<api, loggers, pc, closing, socket, closers, replaced>>

-----------------------------------------------------------------------------
(* connect.                                                                *)

\* Up to `await ApiPromise.create`.
Connect(c) ==
    /\ pc[c] = "idle"
    /\ pc' = [pc EXCEPT ![c] = "creating"]
    /\ socket' = [socket EXCEPT ![c] = "opening"]
    /\ UNCHANGED <<configuration, closing, closers, replaced>>

\* The default of noInitWarn asks for a level that is not set.
ConnectThrows(c) ==
    /\ pc[c] = "idle" /\ logLevel = NoLevel
    /\ pc' = [pc EXCEPT ![c] = "threw"]
    /\ UNCHANGED <<configuration, closing, socket, closers, replaced>>

\* Mutant: a cached connection is kept.
Created_keep(c) ==
    /\ pc[c] = "creating" /\ socket[c] = "open"
    /\ set(IF api = NoApi THEN c ELSE api, logLevel)
    /\ pc' = [pc EXCEPT ![c] = "init"]
    /\ UNCHANGED <<closing, socket, closers, replaced>>

\* The api is ready: init({ api }) sets it, up to `await cryptoWaitReady`.
Created(c) ==
    /\ pc[c] = "creating" /\ socket[c] = "open"
    /\ set(c, logLevel)
    /\ replaced' = replaced \cup ({api} \ {NoApi})
    /\ pc' = [pc EXCEPT ![c] = "init"]
    /\ UNCHANGED <<closing, socket, closers>>

\* ApiPromise.create rejects; its provider goes on with its web socket.
CreateThrows(c) ==
    /\ pc[c] = "creating"
    /\ pc' = [pc EXCEPT ![c] = "threw"]
    /\ UNCHANGED <<configuration, closing, socket, closers, replaced>>

Return(c) ==
    /\ pc[c] = "init"
    /\ pc' = [pc EXCEPT ![c] = "returned"]
    /\ UNCHANGED <<configuration, closing, socket, closers, replaced>>

-----------------------------------------------------------------------------
(* disconnect.                                                             *)

NothingCached(d) ==
    /\ closing[d].state = "idle" /\ api = NoApi
    /\ closing' = [closing EXCEPT ![d].state = "false"]
    /\ UNCHANGED <<configuration, pc, socket, closers, replaced>>

Closes(d) ==
    /\ closing' = [closing EXCEPT ![d] = [state |-> "closing", target |-> api]]
    /\ closers' = [closers EXCEPT ![api] = @ \cup {d}]
    /\ socket' = [socket EXCEPT ![api] = "closed"]

\* Mutant: the cache is not cleared.
Disconnect_cached(d) ==
    /\ closing[d].state = "idle" /\ api # NoApi
    /\ Closes(d)
    /\ UNCHANGED <<api, logLevel, loggers, deviates, pc, replaced>>

\* The cache is cleared before `await api.disconnect()`, in one step.
Disconnect(d) ==
    /\ closing[d].state = "idle" /\ api # NoApi
    /\ Closes(d)
    /\ api' = NoApi
    /\ UNCHANGED <<logLevel, loggers, deviates, pc, replaced>>

Disconnected(d) ==
    /\ closing[d].state = "closing"
    /\ closing' = [closing EXCEPT ![d].state = "true"]
    /\ UNCHANGED <<configuration, pc, socket, closers, replaced>>

\* api.disconnect rejects, and the cache is cleared all the same.
DisconnectThrows(d) ==
    /\ closing[d].state = "closing"
    /\ closing' = [closing EXCEPT ![d].state = "threw"]
    /\ UNCHANGED <<configuration, pc, socket, closers, replaced>>

-----------------------------------------------------------------------------
(* The application and the web sockets.                                    *)

\* ConfigService.get('api').disconnect(): the cache is not told.
CloseDirectly ==
    /\ api # NoApi
    /\ socket' = [socket EXCEPT ![api] = "closed"]
    /\ UNCHANGED <<configuration, pc, closing, closers, replaced>>

Open(c) ==
    /\ socket[c] = "opening"
    /\ socket' = [socket EXCEPT ![c] = "open"]
    /\ UNCHANGED <<configuration, pc, closing, closers, replaced>>

Drop(c) ==
    /\ socket[c] = "open"
    /\ socket' = [socket EXCEPT ![c] = "opening"]
    /\ UNCHANGED <<configuration, pc, closing, closers, replaced>>

ConnectStep(c) ==
    Connect(c) \/ ConnectThrows(c) \/ Created(c) \/ CreateThrows(c) \/ Return(c)
DisconnectStep(d) ==
    NothingCached(d) \/ Disconnect(d) \/ Disconnected(d) \/ DisconnectThrows(d)

Next ==
    \/ \E c \in Connection : ConnectStep(c) \/ Open(c) \/ Drop(c)
    \/ \E d \in Disconnection : DisconnectStep(d)
    \/ \E level \in Level \cup {NoLevel} : setLogLevel(level)
    \/ unsetLogLevel \/ CloseDirectly

Spec == Init /\ [][Next]_vars

-----------------------------------------------------------------------------
(* The cache as one slot.                                                  *)

putOf == {c \in Connection : pc[c] \in {"init", "returned"}}

takenOf ==
    [d \in Disconnection |->
        CASE closing[d].state = "idle" -> "waiting"
          [] closing[d].state = "false" -> "nothing"
          [] OTHER -> closing[d].target]

Cache == INSTANCE ConnectionSlot WITH
    Nothing <- NoApi, slot <- api, put <- putOf, displaced <- replaced, taken <- takenOf

-----------------------------------------------------------------------------
(* Properties.                                                             *)

\* connect and disconnect, cut at their awaits, are atomic operations of one slot:
\* no connection is in the cache twice, leaves it unless replaced or closed, or is
\* closed by two calls; a disconnect answers false only if there was nothing then.
ActsAsOneSlot == Cache!Spec

\* However calls of connect and disconnect overlap, at most one disconnect
\* closes a connection: of two that run together only one returns true for it.
ClosedOnce == \A c \in Connection : \A d, e \in closers[c] : d = e

\* The cache never holds a connection that a disconnect has closed.
CachedIsNotClosed == api # NoApi => closers[api] = {}

\* No connection is lost: one that connect has put in the cache stays there
\* until it is closed or another connect replaces it.
NothingLost ==
    \A c \in Connection :
        pc[c] \in {"init", "returned"} => api = c \/ closers[c] # {} \/ c \in replaced

\* The loggers have the configured level, clamped, unless it was unset since a
\* level was last applied; setting any option, as connect does, applies it.
LoggersFollow ==
    ~deviates /\ logLevel # NoLevel => loggers = modifyLogLevel(logLevel)
==============================================================================
