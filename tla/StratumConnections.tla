------------------------- MODULE StratumConnections -------------------------
(***************************************************************************)
(* The connection side of the stratum server (sserver): the allocator of   *)
(* session ids, the set of connections, the reaping of dead connections    *)
(* and the graceful shutdown.                                              *)
(*                                                                         *)
(* Every action below runs on the libevent loop of StratumServer, so it is *)
(* atomic with respect to the others; stop() and stopGracefully() come     *)
(* from the signal handler.  A session id is the extranonce1 of the miner  *)
(* behind it: two connections with one id would mine the same space.       *)
(***************************************************************************)
EXTENDS Integers, FiniteSets

CONSTANTS
  Conns,          \* connection objects (the unique_ptr<StratumSession>s)
  NumIds,         \* kSessionIdMask + 1
  AllocInterval   \* allocInterval_: 0 by default, 256 for ETH and BEAM

ASSUME ConnsAssumption == IsFiniteSet(Conns)
ASSUME NumIdsAssumption == NumIds \in Nat \ {0}
ASSUME AllocIntervalAssumption == AllocInterval \in 0 .. NumIds

VARIABLES
  sessionIds,   \* sessionIds_, as the set of the indices whose bit is set
  count,        \* count_
  allocIdx,     \* allocIdx_
  rolledBack,   \* has the allocator passed its maximum? (a history variable)
  state,        \* state[c]: "none" outside connections_, else the session's
                \* state: "CONNECTED" stands for every state below
                \* AUTHENTICATED, which is all disconnectCallback tells apart
  sid,          \* sid[c]: the index bits of sessionId_
  dead,         \* dead[c]: isDead_
  shutdown,     \* "no", "timer" (disconnectTimer_ added) or "task" (stop()
                \* dispatched); the listener is disabled unless it is "no"
  stopped       \* the event loop has been told to exit

idVars == <<sessionIds, count, allocIdx, rolledBack>>
connVars == <<state, sid, dead>>
vars == <<idVars, connVars, shutdown, stopped>>

Ids == 0 .. NumIds - 1
SessionStates == {"none", "CONNECTED", "AUTHENTICATED"}

\* The mutant overlooks the connections that never authenticated.
DeadAuthenticated == {c \in Conns : state[c] = "AUTHENTICATED" /\ dead[c]}

connections == {c \in Conns : state[c] # "none"}
Dead == {c \in connections : dead[c]}

-----------------------------------------------------------------------------
(* SessionIDManagerT *)

\* n & kSessionIdMask, for the sums of two indices
Masked(n) == IF n < NumIds THEN n ELSE n - NumIds

\* How many steps of the scan lead from index i to index j.
ScanDistance(i, j) == IF i <= j THEN j - i ELSE j + NumIds - i

\* _ifFull(): count_ > kSessionIdMask
ifFull == count > NumIds - 1

\* The index at which the scan `while (sessionIds_.test(allocIdx_))' ends.
ScanEndsAt(idx) ==
  /\ idx \notin sessionIds
  /\ \A j \in Ids :
       ScanDistance(allocIdx, j) < ScanDistance(allocIdx, idx) => j \in sessionIds

\* The mutant takes the ids one after the other.
allocSessionIdNext(idx) ==
  /\ ~ifFull
  /\ ScanEndsAt(idx)
  /\ sessionIds' = sessionIds \union {idx}
  /\ count' = count + 1
  /\ allocIdx' = Masked(idx + 1)
  /\ rolledBack' = (rolledBack \/ NumIds <= idx + 1)

allocSessionId(idx) ==
  /\ ~ifFull
  /\ ScanEndsAt(idx)
  /\ sessionIds' = sessionIds \union {idx}
  /\ count' = count + 1
  /\ allocIdx' = Masked(idx + AllocInterval)
  /\ rolledBack' = (rolledBack \/ NumIds <= idx + AllocInterval)

\* The mutant frees nothing.
freeSessionIdNone(S) == UNCHANGED idVars

\* freeSessionId() for each connection of S: one bit and one count each.
freeSessionId(S) ==
  /\ sessionIds' = sessionIds \ {sid[c] : c \in S}
  /\ count' = count - Cardinality(S)
  /\ UNCHANGED <<allocIdx, rolledBack>>

-----------------------------------------------------------------------------
(* StratumServer *)

Init ==
  /\ sessionIds = {}
  /\ count = 0
  /\ allocIdx = 0
  /\ rolledBack = FALSE
  /\ state = [c \in Conns |-> "none"]
  /\ sid = [c \in Conns |-> 0]
  /\ dead = [c \in Conns |-> FALSE]
  /\ shutdown = "no"
  /\ stopped = FALSE

\* connections_.erase() for each connection of S: the sessions are destroyed.
Erase(S) ==
  /\ state' = [c \in Conns |-> IF c \in S THEN "none" ELSE state[c]]
  /\ sid' = [c \in Conns |-> IF c \in S THEN 0 ELSE sid[c]]
  /\ dead' = [c \in Conns |-> dead[c] /\ c \notin S]

\* listenerCallback(): a connection is accepted, takes a session id and
\* enters connections_.  With every id in use the socket is closed and
\* nothing changes.
listenerCallback(c) ==
  /\ ~stopped
  /\ shutdown = "no"
  /\ state[c] = "none"
  /\ \E idx \in Ids :
       /\ allocSessionId(idx)
       /\ sid' = [sid EXCEPT ![c] = idx]
  /\ state' = [state EXCEPT ![c] = "CONNECTED"]
  /\ dead' = [dead EXCEPT ![c] = FALSE]
  /\ UNCHANGED <<shutdown, stopped>>

\* listenerCallback() when SSL_new() or the creation of the bufferevent
\* fails: the id is taken, no connection is added, the server stops.
listenerCallbackFails ==
  /\ ~stopped
  /\ shutdown = "no"
  /\ \E idx \in Ids : allocSessionId(idx)
  /\ stopped' = TRUE
  /\ UNCHANGED <<connVars, shutdown>>

\* The session reaches AUTHENTICATED (checkUserAndPwd, AnonymousAuthorize).
\* A dead session still reads what is left in its buffer.
authorize(c) ==
  /\ ~stopped
  /\ state[c] = "CONNECTED"
  /\ state' = [state EXCEPT ![c] = "AUTHENTICATED"]
  /\ UNCHANGED <<idVars, sid, dead, shutdown, stopped>>

\* eventCallback() -> removeConnection() -> markAsDead(): the connection
\* stays in connections_ until the next mining notify.
eventCallback(c) ==
  /\ ~stopped
  /\ state[c] # "none"
  /\ dead' = [dead EXCEPT ![c] = TRUE]
  /\ UNCHANGED <<idVars, state, sid, shutdown, stopped>>

\* The mutant frees the id of a dead connection and leaves it in connections_.
sendMiningNotifyToAllKeeping ==
  /\ ~stopped
  /\ freeSessionId(Dead)
  /\ UNCHANGED <<connVars, shutdown, stopped>>

\* sendMiningNotifyToAll(): the only place where dead connections are
\* erased and their ids freed.
sendMiningNotifyToAll ==
  /\ ~stopped
  /\ freeSessionId(Dead)
  /\ Erase(Dead)
  /\ UNCHANGED <<shutdown, stopped>>

-----------------------------------------------------------------------------
(* Shutdown *)

\* stop(): from the signal handler (SIGINT), a dispatched task or the timer.
stop ==
  /\ ~stopped
  /\ stopped' = TRUE
  /\ UNCHANGED <<idVars, connVars, shutdown>>

\* stopGracefully(): from the signal handler (SIGTERM).
stopGracefully ==
  /\ ~stopped
  /\ shutdown # "task"
  /\ shutdown' = IF connections = {} THEN "task" ELSE "timer"
  /\ UNCHANGED <<idVars, connVars, stopped>>

stopTask ==
  /\ ~stopped
  /\ shutdown = "task"
  /\ stopped' = TRUE
  /\ UNCHANGED <<idVars, connVars, shutdown>>

\* The mutant erases only sessions that are not authenticated.
DisconnectedIdle(S) ==
  /\ S # {}
  /\ S \subseteq connections
  /\ \A c \in S : state[c] # "AUTHENTICATED"

\* Each tick of the timer erases connections from the front of connections_
\* up to and including the first authenticated one, or all of them.  The set
\* is ordered by address, so any of the connections may be in front.
Disconnected(S) ==
  /\ S # {}
  /\ S \subseteq connections
  /\ \/ \E a \in S : {c \in S : state[c] = "AUTHENTICATED"} = {a}
     \/ /\ S = connections
        /\ \A c \in S : state[c] # "AUTHENTICATED"

\* disconnectCallback(): stop() once nothing is connected.  The ids of the
\* erased connections are not freed: the listener is disabled by then.
disconnectCallback ==
  /\ ~stopped
  /\ shutdown = "timer"
  /\ IF connections = {}
     THEN /\ stopped' = TRUE
          /\ UNCHANGED connVars
     ELSE /\ \E S \in SUBSET connections :
               /\ Disconnected(S)
               /\ Erase(S)
          /\ UNCHANGED stopped
  /\ UNCHANGED <<idVars, shutdown>>

-----------------------------------------------------------------------------

Next ==
  \/ \E c \in Conns :
       \/ listenerCallback(c)
       \/ authorize(c)
       \/ eventCallback(c)
  \/ listenerCallbackFails
  \/ sendMiningNotifyToAll
  \/ stop
  \/ stopGracefully
  \/ stopTask
  \/ disconnectCallback

\* The consume thread of JobRepository dispatches checkAndSendMiningNotify()
\* after every poll, so that once there is a job a notify goes out at least
\* every kMiningNotifyInterval_; a dispatched task and a persistent timer of
\* the running event loop fire.
Fairness ==
  /\ WF_vars(sendMiningNotifyToAll)
  /\ WF_vars(stopTask)
  /\ WF_vars(disconnectCallback)

Spec == Init /\ [][Next]_vars /\ Fairness

-----------------------------------------------------------------------------
(* Properties *)

\* The variables have the types of the fields they stand for.
TypeOK ==
  /\ sessionIds \subseteq Ids
  /\ count \in 0 .. NumIds
  /\ allocIdx \in Ids
  /\ rolledBack \in BOOLEAN
  /\ state \in [Conns -> SessionStates]
  /\ sid \in [Conns -> Ids]
  /\ dead \in [Conns -> BOOLEAN]
  /\ shutdown \in {"no", "timer", "task"}
  /\ stopped \in BOOLEAN

\* No two connections, dead ones that are not yet reaped included, hold the
\* same session id, however ids are freed, reused and rolled over, and the bit
\* of every id a connection holds is set (allocSessionId, freeSessionId).
UniqueSessionIds ==
  /\ \A c \in connections : sid[c] \in sessionIds
  /\ \A c, d \in connections : sid[c] = sid[d] => c = d

\* count_, the only thing _ifFull() looks at, is the number of bits set.  So
\* an allocation that is not refused finds a free bit: the scan loop ends.
CountExact == count = Cardinality(sessionIds)

\* While the server accepts connections no id is lost: each id in use belongs
\* to a connection, so a server whose miners reconnect forever does not run
\* out of ids (listenerCallback, sendMiningNotifyToAll).
NoIdLeak ==
  shutdown = "no" /\ ~stopped => sessionIds = {sid[c] : c \in connections}

\* `Skipped ids are not assigned to other sessions unless the allocator
\* reaches the maximum and rolls back to the beginning': until then the ids in
\* use are AllocInterval apart, which is the space reserved for each miner.
IntervalReserved ==
  ~rolledBack => \A i, j \in sessionIds : i < j => i + AllocInterval <= j

\* A dead connection is reaped, or the server stops: it does not hold its id
\* and its socket forever (sendMiningNotifyToAll is the only reaper).
DeadReaped == \A c \in Conns : dead[c] ~> (~dead[c] \/ stopped)

\* A graceful shutdown ends whatever the sessions do meanwhile: every tick of
\* the timer disconnects someone, and nobody can connect (disconnectCallback).
GracefulStopEnds == shutdown # "no" ~> stopped
=============================================================================
