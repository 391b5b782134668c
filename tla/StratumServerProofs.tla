------------------------ MODULE StratumServerProofs ------------------------
(***************************************************************************)
(* Proofs about the stratum server's connections, which get their session  *)
(* ids from the allocator, and about the sessions on them, which send the  *)
(* events of their miners.                                                 *)
(***************************************************************************)
EXTENDS StratumConnections, Sessions, FiniteSetTheorems, TLAPS

\* The time that each prover has for a step that names none
USE SMTT(40), Z3T(60), ZenonT(60)

(***************************************************************************)
(* Proofs, for every number of connections and ids and every allocation    *)
(* interval, of the safety properties of StratumConnections.               *)
(***************************************************************************)

\* While the allocator has not rolled back, everything from allocIdx_ on is
\* free, and the ids in use end AllocInterval before it.
BelowAllocIdx ==
  ~rolledBack /\ 0 < AllocInterval =>
    \A i \in sessionIds : i + AllocInterval <= allocIdx

\* The inductive invariant.
IInv ==
  /\ TypeOK
  /\ UniqueSessionIds
  /\ CountExact
  /\ NoIdLeak
  /\ IntervalReserved
  /\ BelowAllocIdx

-----------------------------------------------------------------------------
(* Cardinalities *)

\* The ids are finitely many, and so are those in use.
LEMMA IdsFinite ==
  ASSUME TypeOK
  PROVE  /\ IsFiniteSet(Ids)
         /\ Cardinality(Ids) = NumIds
         /\ IsFiniteSet(sessionIds)
         /\ Cardinality(sessionIds) \in Nat
         /\ Cardinality(sessionIds) <= NumIds
<1>1. IsFiniteSet(Ids) /\ Cardinality(Ids) = NumIds
  BY FS_Interval, NumIdsAssumption DEF Ids
<1>2. IsFiniteSet(sessionIds) /\ Cardinality(sessionIds) <= Cardinality(Ids)
  BY <1>1, FS_Subset DEF TypeOK
<1> QED
  BY <1>1, <1>2, FS_CardinalityType

\* freeSessionId() for connections of distinct ids removes as many bits as it
\* counts.
LEMMA FreedCount ==
  ASSUME TypeOK, UniqueSessionIds, NEW S \in SUBSET connections
  PROVE  /\ Cardinality(S) \in Nat
         /\ Cardinality(S) <= Cardinality(sessionIds)
         /\ Cardinality(sessionIds \ {sid[c] : c \in S})
              = Cardinality(sessionIds) - Cardinality(S)
<1> DEFINE T == {sid[c] : c \in S}
           f == [c \in S |-> sid[c]]
<1>1. IsFiniteSet(S) /\ Cardinality(S) \in Nat
  BY ConnsAssumption, FS_Subset, FS_CardinalityType DEF connections
<1>2. T \subseteq sessionIds
  BY DEF UniqueSessionIds
<1>3. f \in Bijection(S, T)
  BY DEF UniqueSessionIds, Bijection, Injection, Surjection, IsInjective
<1>4. Cardinality(T) = Cardinality(S)
  BY <1>1, <1>3, FS_Bijection DEF ExistsBijection
<1>5. Cardinality(T) <= Cardinality(sessionIds)
  BY <1>2, IdsFinite, FS_Subset
<1>6. sessionIds \cap T = T
  BY <1>2
<1> HIDE DEF T
<1>7. Cardinality(sessionIds \ T) = Cardinality(sessionIds) - Cardinality(T)
  <2>1. IsFiniteSet(sessionIds)
    BY IdsFinite
  <2>2. Cardinality(sessionIds \ T)
          = Cardinality(sessionIds) - Cardinality(sessionIds \cap T)
    BY <2>1, FS_Difference, ZenonT(60)
  <2> QED
    BY <1>6, <2>2, ZenonT(60)
<1> QED
  BY <1>1, <1>4, <1>5, <1>7 DEF T

-----------------------------------------------------------------------------
(* The allocator *)

\* An index, and the sum of an index and the interval, stay within the mask.
LEMMA MaskedInIds ==
  ASSUME NEW i \in Ids
  PROVE  /\ Masked(i + AllocInterval) \in Ids
         /\ i + AllocInterval < NumIds => Masked(i + AllocInterval) = i + AllocInterval
BY NumIdsAssumption, AllocIntervalAssumption DEF Ids, Masked

\* If allocIdx_ is free the scan does not move.
LEMMA ScanStays ==
  ASSUME TypeOK, NEW idx \in Ids, ScanEndsAt(idx), allocIdx \notin sessionIds
  PROVE  idx = allocIdx
<1>1. allocIdx \in Ids
  BY DEF TypeOK
<1>2. ~(ScanDistance(allocIdx, allocIdx) < ScanDistance(allocIdx, idx))
  BY <1>1 DEF ScanEndsAt
<1> QED
  BY <1>1, <1>2, NumIdsAssumption DEF ScanDistance, Ids

\* allocSessionId() takes an id that was free, counts it, and keeps the ids of
\* an allocator that has not rolled back apart.
LEMMA AllocStep ==
  ASSUME IInv, NEW idx \in Ids, allocSessionId(idx)
  PROVE  /\ idx \notin sessionIds
         /\ sessionIds' = sessionIds \union {idx}
         /\ sessionIds' \subseteq Ids
         /\ count' \in 0 .. NumIds
         /\ allocIdx' \in Ids
         /\ rolledBack' \in BOOLEAN
         /\ CountExact'
         /\ IntervalReserved'
         /\ BelowAllocIdx'
<1> USE DEF IInv
<1>1. idx \notin sessionIds /\ sessionIds' = sessionIds \union {idx}
  BY DEF allocSessionId, ScanEndsAt
<1>2. sessionIds' \subseteq Ids
  BY <1>1 DEF TypeOK
<1>3. count' \in 0 .. NumIds
  BY NumIdsAssumption DEF allocSessionId, ifFull, TypeOK
<1>4. allocIdx' \in Ids
  BY MaskedInIds DEF allocSessionId
<1>5. rolledBack' \in BOOLEAN
  BY DEF allocSessionId
<1>6. CountExact'
  <2>1. Cardinality(sessionIds \union {idx}) = Cardinality(sessionIds) + 1
    BY <1>1, IdsFinite, FS_AddElement, ZenonT(60)
  <2> QED
    BY <1>1, <2>1 DEF allocSessionId, CountExact
<1>7. ASSUME ~rolledBack', 0 < AllocInterval
      PROVE  /\ idx = allocIdx
             /\ \A i \in sessionIds : i + AllocInterval <= idx
             /\ allocIdx' = idx + AllocInterval
  <2>1. ~rolledBack /\ idx + AllocInterval < NumIds
    <3>1. ~rolledBack /\ ~(NumIds <= idx + AllocInterval)
      BY <1>7, ZenonT(60) DEF allocSessionId
    <3> QED
      BY <3>1, NumIdsAssumption, AllocIntervalAssumption DEF Ids
  <2>2. \A i \in sessionIds : i + AllocInterval <= allocIdx
    BY <1>7, <2>1 DEF BelowAllocIdx
  <2>3. allocIdx \notin sessionIds
    BY <1>7, <2>2, AllocIntervalAssumption, NumIdsAssumption DEF TypeOK, Ids
  <2>4. idx = allocIdx
    BY <2>3, ScanStays DEF allocSessionId
  <2> QED
    BY <2>1, <2>2, <2>4, MaskedInIds DEF allocSessionId
<1>8. IntervalReserved'
  <2> SUFFICES ASSUME ~rolledBack', NEW i \in sessionIds', NEW j \in sessionIds', i < j
               PROVE  i + AllocInterval <= j
    BY DEF IntervalReserved
  <2>0. i \in Ids /\ j \in Ids
    BY <1>2
  <2>1. CASE AllocInterval = 0
    BY <2>0, <2>1 DEF Ids
  <2>2. CASE 0 < AllocInterval
    <3>1. ~rolledBack
      BY ZenonT(60) DEF allocSessionId
    <3>2. CASE i \in sessionIds /\ j \in sessionIds
      BY <3>1, <3>2 DEF IntervalReserved
    <3>3. CASE i \in sessionIds /\ j = idx
      BY <1>7, <2>2, <3>3
    <3>4. CASE i = idx /\ j \in sessionIds
      BY <1>7, <2>0, <2>2, <3>4, AllocIntervalAssumption DEF Ids
    <3>5. CASE i = idx /\ j = idx
      BY <2>0, <3>5 DEF Ids
    <3> QED
      BY <1>1, <3>2, <3>3, <3>4, <3>5
  <2> QED
    BY <2>1, <2>2, AllocIntervalAssumption
<1>9. BelowAllocIdx'
  <2> SUFFICES ASSUME ~rolledBack', 0 < AllocInterval, NEW i \in sessionIds'
               PROVE  i + AllocInterval <= allocIdx'
    BY DEF BelowAllocIdx
  <2>1. i \in Ids
    BY <1>2
  <2>2. CASE i = idx
    BY <1>7, <2>2, <2>1, AllocIntervalAssumption DEF Ids
  <2>3. CASE i \in sessionIds
    BY <1>7, <2>3, <2>1, AllocIntervalAssumption DEF Ids
  <2> QED
    BY <1>1, <2>2, <2>3
<1> QED
  BY <1>1, <1>2, <1>3, <1>4, <1>5, <1>6, <1>8, <1>9

-----------------------------------------------------------------------------
(* The steps *)

\* The initial state satisfies the invariant.
LEMMA InitInv ==
  ASSUME Init
  PROVE  IInv
<1>1. TypeOK
  <2>1. 0 \in Ids /\ count \in 0 .. NumIds
    BY NumIdsAssumption DEF Init, Ids
  <2> QED
    BY <2>1, ZenonT(60) DEF Init, TypeOK, SessionStates
<1>2. connections = {}
  BY DEF Init, connections
<1>3. UniqueSessionIds /\ NoIdLeak
  BY <1>2 DEF Init, UniqueSessionIds, NoIdLeak
<1>4. CountExact
  BY FS_EmptySet DEF Init, CountExact
<1>5. IntervalReserved /\ BelowAllocIdx
  BY DEF Init, IntervalReserved, BelowAllocIdx
<1> QED
  BY <1>1, <1>3, <1>4, <1>5 DEF IInv

\* A step that leaves the allocator alone, adds no connection, gives no
\* connection another id and does not reopen the listener keeps the invariant,
\* provided that it erases connections only after the listener is closed.
LEMMA ConnectionStep ==
  ASSUME IInv, UNCHANGED idVars,
         TypeOK',
         connections' \subseteq connections,
         \A c \in connections' : sid'[c] = sid[c],
         shutdown' = "no" /\ ~stopped' =>
           shutdown = "no" /\ ~stopped /\ connections' = connections
  PROVE  IInv'
<1> USE DEF IInv
<1>1. UniqueSessionIds'
  BY DEF UniqueSessionIds, idVars
<1>2. NoIdLeak'
  BY DEF NoIdLeak, idVars
<1>3. CountExact' /\ IntervalReserved' /\ BelowAllocIdx'
  BY DEF CountExact, IntervalReserved, BelowAllocIdx, idVars
<1> QED
  BY <1>1, <1>2, <1>3

\* Accepting a connection.
LEMMA ListenStep ==
  ASSUME IInv, NEW c \in Conns, listenerCallback(c)
  PROVE  IInv'
<1> USE DEF IInv
<1>1. PICK idx \in Ids : allocSessionId(idx) /\ sid' = [sid EXCEPT ![c] = idx]
  BY ZenonT(60) DEF listenerCallback
<1>2. /\ idx \notin sessionIds
      /\ sessionIds' = sessionIds \union {idx}
      /\ sessionIds' \subseteq Ids
      /\ count' \in 0 .. NumIds
      /\ allocIdx' \in Ids
      /\ rolledBack' \in BOOLEAN
      /\ CountExact'
      /\ IntervalReserved'
      /\ BelowAllocIdx'
  BY <1>1, AllocStep
<1>3. TypeOK'
  BY <1>1, <1>2 DEF listenerCallback, TypeOK, SessionStates
<1>4. connections' = connections \union {c} /\ c \notin connections
  BY DEF listenerCallback, connections, TypeOK
<1>5. \A d \in connections : sid'[d] = sid[d]
  BY <1>1, <1>4 DEF TypeOK, connections
<1>6. sid'[c] = idx
  BY <1>1 DEF TypeOK
<1>7. UniqueSessionIds'
  BY <1>2, <1>4, <1>5, <1>6 DEF UniqueSessionIds
<1>8. NoIdLeak'
  <2>1. sessionIds = {sid[d] : d \in connections}
    BY DEF listenerCallback, NoIdLeak
  <2> QED
    BY <1>2, <1>4, <1>5, <1>6, <2>1 DEF NoIdLeak
<1> QED
  BY <1>2, <1>3, <1>7, <1>8

\* Reaping the dead connections.
LEMMA ReapStep ==
  ASSUME IInv, sendMiningNotifyToAll
  PROVE  IInv'
<1> USE DEF IInv
<1>0. Dead \in SUBSET connections
  BY DEF Dead
<1>1. sessionIds' = sessionIds \ {sid[c] : c \in Dead}
  BY DEF sendMiningNotifyToAll, freeSessionId
<1>2. /\ Cardinality(Dead) \in Nat
      /\ Cardinality(Dead) <= Cardinality(sessionIds)
      /\ Cardinality(sessionIds') = Cardinality(sessionIds) - Cardinality(Dead)
  BY <1>0, <1>1, FreedCount
<1>3. CountExact'
  BY <1>2 DEF CountExact, sendMiningNotifyToAll, freeSessionId
<1>4. count' \in 0 .. NumIds
  BY <1>2, IdsFinite, NumIdsAssumption
     DEF CountExact, TypeOK, sendMiningNotifyToAll, freeSessionId
<1>5. TypeOK'
  <2>1. sessionIds' \subseteq Ids /\ allocIdx' \in Ids /\ rolledBack' \in BOOLEAN
    BY <1>1 DEF sendMiningNotifyToAll, freeSessionId, TypeOK
  <2>2. state' \in [Conns -> SessionStates] /\ dead' \in [Conns -> BOOLEAN]
    BY ZenonT(60) DEF sendMiningNotifyToAll, Erase, TypeOK, SessionStates
  <2>3. sid' \in [Conns -> Ids]
    BY NumIdsAssumption DEF sendMiningNotifyToAll, Erase, TypeOK, Ids
  <2> QED
    BY <1>4, <2>1, <2>2, <2>3 DEF sendMiningNotifyToAll, TypeOK
<1>6. connections' = connections \ Dead
  BY DEF sendMiningNotifyToAll, Erase, connections, TypeOK
<1>7. \A c \in connections' : sid'[c] = sid[c]
  BY <1>6 DEF sendMiningNotifyToAll, Erase, connections
<1>8. UniqueSessionIds'
  BY <1>0, <1>1, <1>6, <1>7 DEF UniqueSessionIds
<1>9. NoIdLeak'
  <2> SUFFICES ASSUME shutdown = "no", ~stopped
               PROVE  sessionIds' = {sid'[c] : c \in connections'}
    BY DEF NoIdLeak, sendMiningNotifyToAll
  <2>1. sessionIds = {sid[c] : c \in connections}
    BY DEF NoIdLeak
  <2> QED
    BY <1>0, <1>1, <1>6, <1>7, <2>1 DEF UniqueSessionIds
<1>10. IntervalReserved' /\ BelowAllocIdx'
  BY <1>1 DEF IntervalReserved, BelowAllocIdx, sendMiningNotifyToAll, freeSessionId
<1> QED
  BY <1>3, <1>5, <1>8, <1>9, <1>10

\* Erasing connections after the listener is closed.
LEMMA EraseStep ==
  ASSUME IInv, disconnectCallback
  PROVE  IInv'
<1> USE DEF IInv
<1>1. CASE connections = {}
  <2>1. UNCHANGED <<idVars, connVars, shutdown>> /\ stopped'
    BY <1>1 DEF disconnectCallback
  <2>2. TypeOK'
    BY <2>1 DEF TypeOK, idVars, connVars
  <2>3. connections' = connections /\ sid' = sid
    BY <2>1 DEF connections, connVars
  <2> QED
    BY <2>1, <2>2, <2>3, ConnectionStep
<1>2. CASE connections # {}
  <2>1. PICK S \in SUBSET connections : Erase(S)
    BY <1>2 DEF disconnectCallback
  <2>2. UNCHANGED <<idVars, shutdown, stopped>> /\ shutdown = "timer"
    BY <1>2 DEF disconnectCallback
  <2>3. TypeOK'
    <3>1. state' \in [Conns -> SessionStates] /\ dead' \in [Conns -> BOOLEAN]
      BY <2>1, ZenonT(60) DEF Erase, TypeOK, SessionStates
    <3>2. sid' \in [Conns -> Ids]
      BY <2>1, NumIdsAssumption DEF Erase, TypeOK, Ids
    <3> QED
      BY <2>2, <3>1, <3>2 DEF TypeOK, idVars
  <2>4. connections' = connections \ S
    BY <2>1 DEF Erase, connections, TypeOK
  <2>5. \A c \in connections' : sid'[c] = sid[c]
    BY <2>1, <2>4 DEF Erase, connections
  <2> QED
    BY <2>2, <2>3, <2>4, <2>5, ConnectionStep
<1> QED
  BY <1>1, <1>2

\* Every step keeps the invariant.
LEMMA NextInv ==
  ASSUME IInv, [Next]_vars
  PROVE  IInv'
<1> USE DEF IInv
<1>1. ASSUME NEW c \in Conns, listenerCallback(c)
      PROVE  IInv'
  BY <1>1, ListenStep
<1>2. ASSUME NEW c \in Conns, authorize(c)
      PROVE  IInv'
  <2>1. TypeOK' /\ connections' = connections /\ sid' = sid
    BY <1>2 DEF authorize, TypeOK, SessionStates, connections, idVars
  <2> QED
    BY <1>2, <2>1, ConnectionStep DEF authorize
<1>3. ASSUME NEW c \in Conns, eventCallback(c)
      PROVE  IInv'
  <2>1. TypeOK' /\ connections' = connections /\ sid' = sid
    BY <1>3 DEF eventCallback, TypeOK, connections, idVars
  <2> QED
    BY <1>3, <2>1, ConnectionStep DEF eventCallback
<1>4. CASE listenerCallbackFails
  <2>1. PICK idx \in Ids : allocSessionId(idx)
    BY <1>4 DEF listenerCallbackFails
  <2>2. /\ sessionIds' = sessionIds \union {idx}
        /\ sessionIds' \subseteq Ids
        /\ count' \in 0 .. NumIds
        /\ allocIdx' \in Ids
        /\ rolledBack' \in BOOLEAN
        /\ CountExact'
        /\ IntervalReserved'
        /\ BelowAllocIdx'
    BY <2>1, AllocStep
  <2>3. UNCHANGED <<state, sid, dead, shutdown>> /\ stopped' = TRUE
    BY <1>4 DEF listenerCallbackFails, connVars
  <2>4. TypeOK'
    BY <2>2, <2>3 DEF TypeOK
  <2>5. connections' = connections
    BY <2>3 DEF connections
  <2>6. UniqueSessionIds' /\ NoIdLeak'
    BY <2>2, <2>3, <2>5 DEF UniqueSessionIds, NoIdLeak
  <2> QED
    BY <2>2, <2>4, <2>6
<1>5. CASE sendMiningNotifyToAll
  BY <1>5, ReapStep
<1>6. CASE stop \/ stopTask
  <2>1. TypeOK' /\ connections' = connections /\ sid' = sid /\ stopped'
    BY <1>6, ZenonT(60) DEF stop, stopTask, TypeOK, connections, idVars, connVars
  <2> QED
    BY <1>6, <2>1, ConnectionStep DEF stop, stopTask
<1>7. CASE stopGracefully
  <2>1. UNCHANGED <<idVars, connVars, stopped>> /\ shutdown' \in {"task", "timer"}
    BY <1>7 DEF stopGracefully
  <2>2. TypeOK' /\ connections' = connections /\ sid' = sid
    BY <2>1 DEF TypeOK, connections, idVars, connVars
  <2> QED
    BY <2>1, <2>2, ConnectionStep
<1>8. CASE disconnectCallback
  BY <1>8, EraseStep
<1>9. CASE UNCHANGED vars
  <2>1. TypeOK' /\ connections' = connections /\ sid' = sid
    BY <1>9 DEF TypeOK, connections, vars, idVars, connVars
  <2> QED
    BY <1>9, <2>1, ConnectionStep DEF vars
<1> QED
  BY <1>1, <1>2, <1>3, <1>4, <1>5, <1>6, <1>7, <1>8, <1>9 DEF Next

-----------------------------------------------------------------------------
(* The theorems *)

\* The inductive invariant holds in every reachable state, for every set of
\* connections, every number of ids and every allocation interval.
THEOREM InvariantHolds == Spec => []IInv
<1>1. Init => IInv
  BY InitInv
<1>2. IInv /\ [Next]_vars => IInv'
  BY NextInv
<1> QED
  BY <1>1, <1>2, PTL DEF Spec

\* Every field keeps its type: in particular allocIdx_ stays a valid index of
\* sessionIds_ and count_ never leaves 0 .. kSessionIdMask + 1.
THEOREM TypeCorrect == Spec => []TypeOK
<1>1. IInv => TypeOK
  BY DEF IInv
<1> QED
  BY <1>1, InvariantHolds, PTL

\* No two connections share a session id, that is an extranonce1.
THEOREM SessionIdsUnique == Spec => []UniqueSessionIds
<1>1. IInv => UniqueSessionIds
  BY DEF IInv
<1> QED
  BY <1>1, InvariantHolds, PTL

\* count_ is the number of ids in use, so that ifFull() is exact.
THEOREM CountIsExact == Spec => []CountExact
<1>1. IInv => CountExact
  BY DEF IInv
<1> QED
  BY <1>1, InvariantHolds, PTL

\* No id is lost while the server accepts connections.
THEOREM NoIdLost == Spec => []NoIdLeak
<1>1. IInv => NoIdLeak
  BY DEF IInv
<1> QED
  BY <1>1, InvariantHolds, PTL

\* Until the allocator rolls back, ids in use are AllocInterval apart.
THEOREM IntervalsReserved == Spec => []IntervalReserved
<1>1. IInv => IntervalReserved
  BY DEF IInv
<1> QED
  BY <1>1, InvariantHolds, PTL

-----------------------------------------------------------------------------
(***************************************************************************)
(* That the events tell of a session what it is, proved for any number of  *)
(* sessions, chains and users. A session that is moved to another chain    *)
(* sends events of its own, of its user and of the miners behind it, and   *)
(* they come out right only if the session is what it said before: the     *)
(* invariant says that the user id of the session on its chain is that of  *)
(* its user, that nothing was told of a session before its login, and that *)
(* a session whose login is being looked up was not served already. The    *)
(* chain that a login or a switch ends up on must be one of the chains;    *)
(* it comes through the cache, the management and the tasks, and so the    *)
(* invariant says that these hold chains.                                  *)
(***************************************************************************)

IsSequence(q) == \E S : q \in Seq(S)

-----------------------------------------------------------------------------
(* The invariant *)

ManTypes(m) ==
  /\ {"auto", "singleAuto", "singleChain", "type", "step"} \subseteq DOMAIN m
  /\ m.auto \in Chains /\ m.singleChain \in Chains

CacheTypes(i) ==
  /\ {"ids", "chains", "pending"} \subseteq DOMAIN i
  /\ \A u \in DOMAIN i.chains :
       {"chain", "auto"} \subseteq DOMAIN i.chains[u] /\ i.chains[u].chain \in Chains
  /\ \A c \in Chains : c \in DOMAIN i.ids /\ i.ids[c] \subseteq Users

ListTypes(a) == \A c \in Chains : c \in DOMAIN a /\ a[c] \subseteq Users

CallTypes(f) ==
  /\ DOMAIN f = Threads
  /\ \A t \in Threads :
       /\ {"pc", "user", "from", "name", "to", "session"} \subseteq DOMAIN f[t]
       /\ f[t].to \in Chains

TaskTypes(q) ==
  /\ IsSequence(q)
  /\ \A n \in DOMAIN q : q[n].k \in {"switch", "auto"} => q[n].to \in Chains

InfoInv ==
  /\ UserConf(uconf)
  /\ ManTypes(man) /\ CacheTypes(info) /\ ListTypes(api)
  /\ CallTypes(call) /\ TaskTypes(tasks)

SessionTypes(r) ==
  /\ {"here", "state", "dead", "user", "chain", "ids", "saved", "agent", "miners", "proxy",
      "anonymous", "tries", "again", "moved", "shown"} \subseteq DOMAIN r
  /\ r.chain \in Chains
  /\ DOMAIN r.ids = Chains
  /\ r.miners \subseteq AgentIds \X AgentWorkers
  /\ r.moved => r.dead

\* What the events have to tell of a session.
Told(r) == WorkersBehind(r) \cup IF r.dead THEN {} ELSE {<<r.user, r.chain>>}

\* No two miners behind an agent have the same name.
WorkersApart(r) == \A m, n \in r.miners : m[2] = n[2] => m = n

NothingTold(r) == r.shown = {} /\ r.miners = {} /\ \A c \in Chains : r.ids[c] = NoUser

\* A session that is served has told of itself, one that was never served has not.
ToldTrue(r) ==
  ~r.again /\ ~r.anonymous /\ ~r.moved =>
    IF r.state = "authenticated"
    THEN /\ r.user \in Users /\ UserIdOf(r) = r.user
         /\ r.shown = Told(r) /\ WorkersApart(r)
    ELSE NothingTold(r)

\* The session whose login is looked up was not served, or has asked again.
LoginPending ==
  call["loop"] # Idle =>
    LET r == sess[call["loop"].session] IN r.state = "authenticated" => r.again

SessionsInv ==
  /\ \A s \in DOMAIN sess : SessionTypes(sess[s]) /\ ToldTrue(sess[s])
  /\ LoginPending

-----------------------------------------------------------------------------
(* The operators of UserInfo keep the types *)

\* There is a chain 0.
LEMMA FirstIsChain ==
  ASSUME UserConf(uconf)
  PROVE  0 \in Chains
BY DEF UserConf, Chains

\* What the caches are set to is a chain.
LEMMA CacheOperators ==
  ASSUME NEW i, CacheTypes(i), NEW c \in Chains, NEW u, NEW auto
  PROVE  /\ CacheTypes(SetChain(i, u, c, auto))
         /\ CacheTypes(Uncached(i, u))
         /\ CacheTypes(AutoSwitchCaches(i, c))
<1>1. CacheTypes(SetChain(i, u, c, auto))
  BY ZenonT(60) DEF CacheTypes, SetChain
<1>2. CacheTypes(Uncached(i, u))
  BY ZenonT(60) DEF CacheTypes, Uncached
<1>3. CacheTypes(AutoSwitchCaches(i, c))
  <2> DEFINE a == AutoSwitchCaches(i, c)
  <2>1. DOMAIN a = DOMAIN i /\ a.ids = i.ids /\ DOMAIN a.chains = DOMAIN i.chains
    BY ZenonT(60) DEF CacheTypes, AutoSwitchCaches
  <2>2. ASSUME NEW v \in DOMAIN i.chains
        PROVE  {"chain", "auto"} \subseteq DOMAIN a.chains[v] /\ a.chains[v].chain \in Chains
    <3>1. \/ a.chains[v] = [i.chains[v] EXCEPT !.chain = c]
          \/ a.chains[v] = i.chains[v]
      BY <2>2, ZenonT(60) DEF CacheTypes, AutoSwitchCaches
    <3> QED
      BY <3>1, <2>2, ZenonT(60) DEF CacheTypes
  <2> HIDE DEF a
  <2>3. CacheTypes(a)
    BY <2>1, <2>2, ZenonT(60) DEF CacheTypes
  <2> QED
    BY <2>3, ZenonT(60) DEF a
<1> QED
  BY <1>1, <1>2, <1>3, ZenonT(60)

\* The pending registrations are apart from the chains.
LEMMA PendingOnly ==
  ASSUME NEW i, CacheTypes(i), NEW p
  PROVE  CacheTypes([i EXCEPT !.pending = p])
BY ZenonT(60) DEF CacheTypes

\* The chain of the automatic users is a chain.
LEMMA CurrentIsChain ==
  ASSUME NEW m, ManTypes(m)
  PROVE  CurrentAutoChainIdOf(m) \in Chains
BY ZenonT(60) DEF ManTypes, CurrentAutoChainIdOf

\* So it is after an update.
LEMMA UpdatedManTypes ==
  ASSUME UserConf(uconf), ManTypes(man), NEW name
  PROVE  ManTypes(UpdatedMan(name))
BY FirstIsChain, ZenonT(60) DEF ManTypes, UpdatedMan

\* A lookup gives a chain, whichever list it reads.
LEMMA LookupIsChain ==
  ASSUME NEW u, NEW name
  PROVE  /\ Resolves(u, name) \subseteq Chains
         /\ LookupResult(u, name) \subseteq Chains
BY ZenonT(60) DEF Resolves, LookupResult, FirstChain

\* A task for the event loop names a chain.
LEMMA TaskAdded ==
  ASSUME NEW q, TaskTypes(q), NEW t, t.k \in {"switch", "auto"} => t.to \in Chains
  PROVE  TaskTypes(Append(q, t))
<1>1. PICK S : q \in Seq(S)
  BY ZenonT(60) DEF TaskTypes, IsSequence
<1>2. q \in Seq(S \cup {t}) /\ Append(q, t) \in Seq(S \cup {t})
  BY <1>1
<1>3. IsSequence(Append(q, t))
  BY <1>2, ZenonT(60) DEF IsSequence
<1>4. /\ Len(q) \in Nat /\ DOMAIN q = 1 .. Len(q)
      /\ DOMAIN Append(q, t) = 1 .. Len(q) + 1
      /\ Append(q, t)[Len(q) + 1] = t
      /\ \A n \in 1 .. Len(q) : Append(q, t)[n] = q[n]
  BY <1>2
<1> QED
  BY <1>3, <1>4 DEF TaskTypes

\* So do the ones left when the first is run.
LEMMA TaskDone ==
  ASSUME NEW q, TaskTypes(q), q # << >>
  PROVE  /\ TaskTypes(Tail(q))
         /\ Head(q).k \in {"switch", "auto"} => Head(q).to \in Chains
<1>1. PICK S : q \in Seq(S)
  BY ZenonT(60) DEF TaskTypes, IsSequence
<1>2. /\ Len(q) \in Nat /\ DOMAIN q = 1 .. Len(q) /\ Len(q) >= 1
      /\ Tail(q) \in Seq(S) /\ Head(q) = q[1]
      /\ DOMAIN Tail(q) = 1 .. Len(q) - 1
      /\ \A n \in 1 .. Len(q) - 1 : Tail(q)[n] = q[n + 1]
  BY <1>1
<1>3. IsSequence(Tail(q))
  BY <1>2, ZenonT(60) DEF IsSequence
<1> QED
  BY <1>2, <1>3 DEF TaskTypes

\* The chains are the same after every step, and so the invariant follows from what
\* the new values are.
LEMMA InfoStep ==
  ASSUME InfoInv, UserConf(uconf'), uconf'.chains = uconf.chains,
         ManTypes(man'), CacheTypes(info'), ListTypes(api'), CallTypes(call'),
         TaskTypes(tasks')
  PROVE  InfoInv' /\ Chains' = Chains
<1>1. Chains' = Chains
  BY ZenonT(60) DEF Chains
<1>2. UserConf(uconf)' /\ ManTypes(man)' /\ ListTypes(api)'
  BY <1>1, ZenonT(60) DEF UserConf, ManTypes, ListTypes
<1>3. CacheTypes(info)'
  BY <1>1, ZenonT(60) DEF CacheTypes
<1>4. CallTypes(call)' /\ TaskTypes(tasks)'
  BY <1>1, ZenonT(60) DEF CallTypes, TaskTypes
<1> QED
  BY <1>1, <1>2, <1>3, <1>4, ZenonT(60) DEF InfoInv

-----------------------------------------------------------------------------
(* The steps of UserInfo *)

\* A thread calls on with a chain.
LEMMA CallSet ==
  ASSUME CallTypes(call), NEW t \in Threads, NEW f,
         {"pc", "user", "from", "name", "to", "session"} \subseteq DOMAIN f,
         f.to \in Chains
  PROVE  CallTypes([call EXCEPT ![t] = f])
BY ZenonT(60) DEF CallTypes

\* A thread that is idle has the fields of a call.
LEMMA IdleTypes ==
  ASSUME UserConf(uconf)
  PROVE  /\ DOMAIN Idle = {"pc", "user", "from", "name", "to", "session"}
         /\ Idle.to \in Chains /\ Idle.pc = "idle"
BY FirstIsChain, ZenonT(60) DEF Idle

\* A call starts.
LEMMA StartSwitchTypes ==
  ASSUME UserConf(uconf), CallTypes(call), NEW t \in Threads, NEW u
  PROVE  CallTypes(StartSwitch(t, u))
<1>1. CallTypes([call EXCEPT ![t] = Idle])
  BY IdleTypes, CallSet, ZenonT(60)
<1>2. CallTypes([call EXCEPT ![t] = [Idle EXCEPT !.pc = "read", !.user = u,
                                                !.from = info.chains[u].chain]])
  <2> DEFINE f == [Idle EXCEPT !.pc = "read", !.user = u, !.from = info.chains[u].chain]
  <2>1. DOMAIN f = {"pc", "user", "from", "name", "to", "session"} /\ f.to \in Chains
    BY IdleTypes, ZenonT(60)
  <2> HIDE DEF f
  <2>2. CallTypes([call EXCEPT ![t] = f])
    BY <2>1, CallSet, ZenonT(60)
  <2> QED
    BY <2>2, ZenonT(60) DEF f
<1> QED
  BY <1>1, <1>2, ZenonT(60) DEF StartSwitch

\* A thread reads the chain of a user.
LEMMA ReadChainTypes ==
  ASSUME InfoInv, NEW t \in Threads, ReadChain(t)
  PROVE  InfoInv' /\ Chains' = Chains
<1>1. CallTypes(call')
  BY ZenonT(60) DEF InfoInv, CallTypes, ReadChain
<1> QED
  BY <1>1, InfoStep, ZenonT(60) DEF InfoInv, ReadChain

\* It caches the chain.
LEMMA CacheChainTypes ==
  ASSUME InfoInv, NEW t \in Threads, CacheChain(t)
  PROVE  InfoInv' /\ Chains' = Chains
<1>1. UNCHANGED <<uconf, zoo, api, man, chk, tasks>>
  BY ZenonT(60) DEF CacheChain
<1>2. CASE call' = [call EXCEPT ![t] = Idle] /\ UNCHANGED info
  <2>1. CallTypes(call')
    BY <1>2, IdleTypes, CallSet, ZenonT(60) DEF InfoInv
  <2> QED
    BY <1>1, <1>2, <2>1, InfoStep, ZenonT(60) DEF InfoInv
<1>3. CASE \E c \in Resolves(call[t].user, call[t].name) :
             /\ info' = CacheResolved(call[t].user, call[t].name, c)
             /\ call' = [call EXCEPT ![t].pc = "dispatch", ![t].to = c]
  <2>1. PICK c \in Chains :
          /\ info' = CacheResolved(call[t].user, call[t].name, c)
          /\ call' = [call EXCEPT ![t].pc = "dispatch", ![t].to = c]
    BY <1>3, LookupIsChain, ZenonT(60)
  <2>2. CallTypes(call')
    BY <2>1, ZenonT(60) DEF InfoInv, CallTypes
  <2>3. CacheTypes(info')
    BY <2>1, CacheOperators, ZenonT(60) DEF InfoInv, CacheResolved
  <2> QED
    BY <1>1, <2>2, <2>3, InfoStep, ZenonT(60) DEF InfoInv
<1> QED
  BY <1>2, <1>3, ZenonT(60) DEF CacheChain

\* It dispatches the switch.
LEMMA DispatchSwitchTypes ==
  ASSUME InfoInv, NEW t \in Threads, DispatchSwitch(t)
  PROVE  InfoInv' /\ Chains' = Chains
<1> DEFINE task == [k |-> "switch", user |-> call[t].user, to |-> call[t].to]
<1>1. UNCHANGED <<uconf, zoo, api, info, man, chk>> /\ call' = [call EXCEPT ![t] = Idle]
      /\ (tasks' = tasks \/ tasks' = Append(tasks, task))
  BY ZenonT(60) DEF DispatchSwitch
<1>2. CallTypes(call')
  BY <1>1, IdleTypes, CallSet, ZenonT(60) DEF InfoInv
<1>3. task.to \in Chains
  BY ZenonT(60) DEF InfoInv, CallTypes
<1> HIDE DEF task
<1>4. TaskTypes(tasks')
  BY <1>1, <1>3, TaskAdded, ZenonT(60) DEF InfoInv
<1> QED
  BY <1>1, <1>2, <1>4, InfoStep, ZenonT(60) DEF InfoInv

\* The callback for one user.
LEMMA UpdateSingleTypes ==
  ASSUME InfoInv, NEW z, UpdateSingleUserChain(z), UNCHANGED <<uconf, api, call>>
  PROVE  InfoInv' /\ Chains' = Chains
<1>1. PICK name \in {zoo.map[Reference]} :
        /\ man' = UpdatedMan(name)
        /\ \/ /\ info' = AutoSwitchCaches(info, CurrentAutoChainIdOf(man'))
              /\ tasks' = Append(tasks, AutoTask(CurrentAutoChainIdOf(man')))
           \/ UNCHANGED <<info, tasks>>
  BY ZenonT(60) DEF UpdateSingleUserChain
<1>2. ManTypes(man')
  BY <1>1, UpdatedManTypes, ZenonT(60) DEF InfoInv
<1> DEFINE c == CurrentAutoChainIdOf(man')
<1>3. c \in Chains
  BY <1>2, CurrentIsChain, ZenonT(60)
<1> HIDE DEF c
<1>4. CacheTypes(info')
  BY <1>1, <1>3, CacheOperators, ZenonT(60) DEF InfoInv, c
<1>5. AutoTask(c).to = c
  BY ZenonT(60) DEF AutoTask
<1>6. TaskTypes(tasks')
  BY <1>1, <1>3, <1>5, TaskAdded, ZenonT(60) DEF InfoInv, c
<1> QED
  BY <1>2, <1>4, <1>6, InfoStep, ZenonT(60) DEF InfoInv

\* The automatic users are switched.
LEMMA AutoSwitchTypes ==
  ASSUME InfoInv, AutoSwitchChain
  PROVE  InfoInv' /\ Chains' = Chains
<1> DEFINE c == CurrentAutoChainId
<1>1. c \in Chains
  BY CurrentIsChain, ZenonT(60) DEF InfoInv, CurrentAutoChainId
<1>2. ManTypes(man')
  BY ZenonT(60) DEF InfoInv, ManTypes, AutoSwitchChain
<1>3. AutoTask(c).to = c
  BY ZenonT(60) DEF AutoTask
<1> HIDE DEF c
<1>4. CacheTypes(info') /\ TaskTypes(tasks')
  BY <1>1, <1>3, CacheOperators, TaskAdded, ZenonT(60) DEF InfoInv, AutoSwitchChain, c
<1> QED
  BY <1>2, <1>4, InfoStep, ZenonT(60) DEF InfoInv, AutoSwitchChain

\* The ZooKeeper thread.
LEMMA ZkThreadTypes ==
  ASSUME InfoInv, ZkThread
  PROVE  InfoInv' /\ Chains' = Chains
<1>1. CASE SwitchEvent
  <2>1. CallTypes(call')
    BY <1>1, StartSwitchTypes, ZenonT(60) DEF InfoInv, SwitchEvent, Threads
  <2> QED
    BY <1>1, <2>1, InfoStep, ZenonT(60) DEF InfoInv, SwitchEvent
<1>2. CASE SingleUserEvent
  BY <1>2, UpdateSingleTypes, ZenonT(60) DEF SingleUserEvent
<1>3. CASE HandleAutoRegEvent
  <2> DEFINE task == [k |-> "reg", user |-> Head(zoo.queue).user]
  <2>1. task.k = "reg" /\ tasks' = Append(tasks, task)
    BY <1>3, ZenonT(60) DEF HandleAutoRegEvent
  <2> HIDE DEF task
  <2>2. TaskTypes(tasks')
    BY <2>1, TaskAdded, ZenonT(60) DEF InfoInv
  <2>3. CacheTypes(info')
    BY <1>3, ZenonT(60) DEF InfoInv, HandleAutoRegEvent, CacheTypes
  <2> QED
    BY <1>3, <2>2, <2>3, InfoStep, ZenonT(60) DEF InfoInv, HandleAutoRegEvent
<1>4. CASE ReconnectHandle
  <2> DEFINE task == [k |-> "check"]
  <2>1. task.k = "check" /\ (tasks' = tasks \/ tasks' = Append(tasks, task))
        /\ UNCHANGED <<uconf, api, info, man, call, chk>>
    BY <1>4, ZenonT(60) DEF ReconnectHandle
  <2> HIDE DEF task
  <2>2. TaskTypes(tasks')
    BY <2>1, TaskAdded, ZenonT(60) DEF InfoInv
  <2> QED
    BY <2>1, <2>2, InfoStep, ZenonT(60) DEF InfoInv
<1> QED
  BY <1>1, <1>2, <1>3, <1>4, ZenonT(60) DEF ZkThread

\* The thread that checks the caches.
LEMMA CheckThreadTypes ==
  ASSUME InfoInv, CheckThread
  PROVE  InfoInv' /\ Chains' = Chains
<1>1. CASE CheckCopies
  BY <1>1, InfoStep, ZenonT(60) DEF InfoInv, CheckCopies
<1>2. CASE CheckSingle
  <2>1. CASE UpdateSingleUserChain(zoo)
    BY <1>2, <2>1, UpdateSingleTypes, ZenonT(60) DEF CheckSingle
  <2>2. CASE UNCHANGED <<man, zoo, info, tasks>>
    BY <1>2, <2>2, InfoStep, ZenonT(60) DEF InfoInv, CheckSingle
  <2> QED
    BY <1>2, <2>1, <2>2, ZenonT(60) DEF CheckSingle, CheckSingleUserChain
<1>3. ASSUME NEW u \in Users, CheckUser(u) PROVE InfoInv' /\ Chains' = Chains
  <2>1. CallTypes(call')
    BY <1>3, StartSwitchTypes, ZenonT(60) DEF InfoInv, CheckUser, Threads
  <2> QED
    BY <1>3, <2>1, InfoStep, ZenonT(60) DEF InfoInv, CheckUser
<1> QED
  BY <1>1, <1>2, <1>3, ZenonT(60) DEF CheckThread

\* What the world outside changes.
LEMMA OutsideTypes ==
  ASSUME InfoInv, Outside
  PROVE  InfoInv' /\ Chains' = Chains
<1>1. UserConf(uconf') /\ uconf'.chains = uconf.chains
  BY ZenonT(60) DEF Outside, AutoSwitchCommand, EditNode, RecoverySession, InfoInv, UserConf
<1>2. ManTypes(man')
  BY ZenonT(60) DEF Outside, AutoSwitchCommand, EditNode, RecoverySession, InfoInv, ManTypes
<1>3. UNCHANGED <<api, info, call, tasks>>
  BY ZenonT(60) DEF Outside, AutoSwitchCommand, EditNode, RecoverySession
<1> QED
  BY <1>1, <1>2, <1>3, InfoStep, ZenonT(60) DEF InfoInv

\* The update of the user lists, and the registrar.
LEMMA ListsTypes ==
  ASSUME InfoInv, UpdateThread \/ \E u \in Users, cs \in SUBSET Chains : Registrar(u, cs)
  PROVE  InfoInv' /\ Chains' = Chains
<1>1. CASE UpdateThread
  <2>1. CacheTypes(info')
    BY <1>1 DEF UpdateThread, IncrementalUpdateUsers, InfoInv, CacheTypes, ListTypes
  <2> QED
    BY <1>1, <2>1, InfoStep, ZenonT(60) DEF UpdateThread, IncrementalUpdateUsers, InfoInv
<1>2. CASE \E u \in Users, cs \in SUBSET Chains : Registrar(u, cs)
  <2>1. ListTypes(api')
    BY <1>2, ZenonT(60) DEF Registrar, InfoInv, ListTypes
  <2> QED
    BY <1>2, <2>1, InfoStep, ZenonT(60) DEF Registrar, InfoInv
<1> QED
  BY <1>1, <1>2, ZenonT(60)

\* The other threads leave the calls of the event loop alone.
LEMMA OtherThreads ==
  ASSUME InfoInv,
         \/ HandlerStep \/ ZkThread \/ CheckThread \/ ManagementThread \/ UpdateThread
         \/ \E u \in Users, cs \in SUBSET Chains : Registrar(u, cs)
         \/ Outside
  PROVE  InfoInv' /\ Chains' = Chains /\ call'["loop"] = call["loop"]
<1>1. InfoInv' /\ Chains' = Chains
  <2>1. CASE HandlerStep
    BY <2>1, ReadChainTypes, CacheChainTypes, DispatchSwitchTypes, ZenonT(60) DEF HandlerStep, Threads
  <2>2. CASE ManagementThread
    BY <2>2, AutoSwitchTypes, ZenonT(60) DEF ManagementThread
  <2> QED
    BY <2>1, <2>2, ZkThreadTypes, CheckThreadTypes, ListsTypes, OutsideTypes, ZenonT(60)
<1>2. call'["loop"] = call["loop"]
  <2>1. CASE HandlerStep
    BY <2>1, ZenonT(60) DEF HandlerStep, ReadChain, CacheChain, DispatchSwitch, InfoInv, CallTypes, Threads
  <2>2. CASE ZkThread
    BY <2>2, ZenonT(60) DEF ZkThread, SwitchEvent, SingleUserEvent, HandleAutoRegEvent, ReconnectHandle,
                StartSwitch, InfoInv, CallTypes, Threads
  <2>3. CASE CheckThread
    BY <2>3, ZenonT(60) DEF CheckThread, CheckCopies, CheckSingle, CheckUser, StartSwitch,
                InfoInv, CallTypes, Threads
  <2>4. CASE ManagementThread \/ UpdateThread
    BY <2>4, ZenonT(60) DEF ManagementThread, AutoSwitchChain, UpdateThread, IncrementalUpdateUsers
  <2>5. CASE Outside \/ \E u \in Users, cs \in SUBSET Chains : Registrar(u, cs)
    BY <2>5, ZenonT(60) DEF Outside, AutoSwitchCommand, EditNode, RecoverySession, Registrar
  <2> QED
    BY <2>1, <2>2, <2>3, <2>4, <2>5, ZenonT(60)
<1> QED
  BY <1>1, <1>2, ZenonT(60)

-----------------------------------------------------------------------------
(* What a login and a switch tell *)

\* The fields that decide what is to be told.
SameFlags(q, r) ==
  /\ DOMAIN q = DOMAIN r
  /\ q.again = r.again /\ q.anonymous = r.anonymous /\ q.dead = r.dead

\* A switch of the chain changes the chain and the user's id on it.
LEMMA SwitchFields ==
  ASSUME NEW r, SessionTypes(r), NEW c \in Chains
  PROVE  LET q == SwitchChain(r, c) IN
         /\ SessionTypes(q) /\ SameFlags(q, r)
         /\ q.state = r.state /\ q.user = r.user /\ q.miners = r.miners
         /\ q.chain = c /\ q.ids = [r.ids EXCEPT ![c] = r.user] /\ q.moved = r.dead
<1> DEFINE one == [r EXCEPT !.shown = @ \ {<<UserIdOf(r), r.chain>>}]
           two == BeforeSwitchChain(one)
           Come(l) == [l EXCEPT !.chain = c, !.ids[c] = r.user, !.moved = r.dead,
                                !.shown = @ \cup {<<r.user, c>>}]
           Alike(l) == /\ DOMAIN l = DOMAIN r /\ SameFlags(l, r)
                       /\ l.state = r.state /\ l.user = r.user /\ l.miners = r.miners
           Fields(l) == Alike(l) /\ l.chain = r.chain /\ l.ids = r.ids
           Switched2(q) == /\ Alike(q) /\ q.chain = c /\ q.moved = r.dead
                           /\ q.ids = [r.ids EXCEPT ![c] = r.user]
<1>1. Fields(r) /\ Fields(one)
  BY ZenonT(60) DEF SessionTypes, SameFlags
<1>2. Fields(two)
  <2> HIDE DEF one
  <2> QED
    BY <1>1, ZenonT(60) DEF BeforeSwitchChain, SessionTypes, SameFlags
<1>3. ASSUME NEW l, Fields(l) PROVE Switched2(Come(l))
  BY <1>3, ZenonT(60) DEF SessionTypes, SameFlags
<1>4. ASSUME NEW q, Switched2(q) PROVE Switched2(AfterSwitchChain(q))
  BY <1>4, ZenonT(60) DEF AfterSwitchChain, SessionTypes, SameFlags
<1> HIDE DEF Fields, Alike, two
<1>5. SwitchChain(r, c) = Come(r) \/ SwitchChain(r, c) = AfterSwitchChain(Come(two))
  BY ZenonT(60) DEF SwitchChain, two
<1> HIDE DEF Come, Switched2
<1>6. Switched2(SwitchChain(r, c))
  BY <1>1, <1>2, <1>3, <1>4, <1>5, ZenonT(60)
<1>7. SessionTypes(SwitchChain(r, c))
  <2> DEFINE q == SwitchChain(r, c)
  <2> HIDE DEF q
  <2>1. Switched2(q)
    BY <1>6, ZenonT(60) DEF q
  <2>2. SessionTypes(q)
    BY <2>1, ZenonT(60) DEF Switched2, Alike, SessionTypes, SameFlags
  <2> QED
    BY <2>2, ZenonT(60) DEF q
<1> QED
  BY <1>6, <1>7, ZenonT(60) DEF Switched2, Alike

\* The first login on a chain: the user, and no miners yet.
LEMMA LoginTells ==
  ASSUME NEW r, SessionTypes(r), ToldTrue(r),
         r.state = "authenticated" => r.again, NEW c \in Chains, r.user \in Users
  PROVE  LET q == Authenticated(r, c) IN
         SessionTypes(q) /\ SameFlags(q, r) /\ ToldTrue(q)
<1> DEFINE p == SwitchChain(r, c)
           q == Authenticated(r, c)
<1>1. /\ SessionTypes(p) /\ SameFlags(p, r)
      /\ p.user = r.user /\ p.chain = c /\ p.ids = [r.ids EXCEPT ![c] = r.user]
      /\ p.moved = r.dead
  BY SwitchFields
<1>2. ASSUME ~r.again, ~r.anonymous, ~r.dead PROVE p.shown = {<<r.user, c>>}
  <2>1. NothingTold(r)
    BY <1>2, ZenonT(60) DEF ToldTrue, SessionTypes
  <2>2. UserIdOf(r) = NoUser
    BY <2>1, ZenonT(60) DEF NothingTold, UserIdOf, SessionTypes
  <2>3. p = [r EXCEPT !.chain = c, !.ids[c] = r.user, !.moved = r.dead,
                      !.shown = @ \cup {<<r.user, c>>}]
    BY <2>2, ZenonT(60) DEF SwitchChain
  <2> QED
    BY <2>1, <2>3 DEF NothingTold, SessionTypes
<1>3. q = [p EXCEPT !.state = "authenticated", !.miners = {}]
  BY ZenonT(60) DEF Authenticated
<1> HIDE DEF p, q
<1>4. /\ DOMAIN q = DOMAIN p /\ q.again = p.again /\ q.anonymous = p.anonymous
      /\ q.dead = p.dead /\ q.moved = p.moved
      /\ q.chain = p.chain /\ q.ids = p.ids /\ q.user = p.user
      /\ q.shown = p.shown /\ q.state = "authenticated" /\ q.miners = {}
  BY <1>1, <1>3, ZenonT(60) DEF SessionTypes
<1>5. SessionTypes(q) /\ SameFlags(q, r)
  BY <1>1, <1>4, ZenonT(60) DEF SessionTypes, SameFlags
<1>6. ASSUME ~q.again, ~q.anonymous, ~q.moved
      PROVE  /\ q.user \in Users /\ UserIdOf(q) = q.user
             /\ q.shown = Told(q) /\ WorkersApart(q)
  <2>1. q.shown = {<<r.user, c>>}
    BY <1>1, <1>2, <1>4, <1>6, ZenonT(60) DEF SameFlags
  <2>2. UserIdOf(q) = r.user
    BY <1>1, <1>4 DEF UserIdOf, SessionTypes
  <2> QED
    BY <2>1, <2>2, <1>1, <1>4, <1>6 DEF Told, WorkersBehind, WorkersApart, SameFlags
<1>7. ToldTrue(q)
  BY <1>4, <1>6, ZenonT(60) DEF ToldTrue
<1> QED
  BY <1>5, <1>7, ZenonT(60) DEF q

\* A switch of a session that is served: everybody leaves the old chain and comes to
\* the new one.
LEMMA SwitchTells ==
  ASSUME NEW r, SessionTypes(r), ToldTrue(r), r.state = "authenticated",
         NEW c \in Chains, r.chain # c
  PROVE  LET q == SwitchChain(r, c) IN
         SessionTypes(q) /\ SameFlags(q, r) /\ q.state = r.state /\ ToldTrue(q)
<1> DEFINE q == SwitchChain(r, c)
<1>1. /\ SessionTypes(q) /\ SameFlags(q, r)
      /\ q.state = r.state /\ q.user = r.user /\ q.miners = r.miners
      /\ q.chain = c /\ q.ids = [r.ids EXCEPT ![c] = r.user] /\ q.moved = r.dead
  BY SwitchFields, ZenonT(60)
<1>2. ASSUME ~r.again, ~r.anonymous, ~r.dead
      PROVE  /\ r.user \in Users /\ q.shown = Told(q)
             /\ UserIdOf(q) = q.user /\ WorkersApart(q)
  <2> DEFINE M(d) == {<<m[2], d>> : m \in r.miners}
             one == [r EXCEPT !.shown = @ \ {<<r.user, r.chain>>}]
             two == [one EXCEPT !.shown = @ \ M(r.chain)]
             come == [two EXCEPT !.chain = c, !.ids[c] = r.user, !.moved = r.dead,
                                 !.shown = @ \cup {<<r.user, c>>}]
  <2>1. /\ r.user \in Users /\ UserIdOf(r) = r.user /\ r.shown = Told(r)
        /\ WorkersApart(r) /\ r.user # NoUser
    BY <1>2, UsersAssumption, ZenonT(60) DEF ToldTrue, SessionTypes
  <2>2. one.state = "authenticated" /\ one.miners = r.miners /\ one.chain = r.chain
        /\ one.shown = r.shown \ {<<r.user, r.chain>>} /\ DOMAIN one = DOMAIN r
    BY ZenonT(60) DEF SessionTypes
  <2>3. BeforeSwitchChain(one) = two
    BY <2>2, ZenonT(60) DEF BeforeSwitchChain, WorkersBehind
  <2> HIDE DEF one
  <2>4. two.state = "authenticated" /\ two.miners = r.miners
        /\ two.shown = (r.shown \ {<<r.user, r.chain>>}) \ M(r.chain) /\ DOMAIN two = DOMAIN r
    BY <2>2, ZenonT(60) DEF SessionTypes
  <2>5. two.shown = {}
    BY <1>2, <2>1, <2>4, ZenonT(60) DEF Told, WorkersBehind
  <2>6. q = AfterSwitchChain(come)
    BY <2>1, <2>3, ZenonT(60) DEF SwitchChain, one
  <2> HIDE DEF two
  <2>7. come.state = "authenticated" /\ come.miners = r.miners /\ come.chain = c
        /\ come.shown = {<<r.user, c>>} /\ DOMAIN come = DOMAIN r
    BY <2>4, <2>5, ZenonT(60) DEF SessionTypes
  <2> HIDE DEF come, q
  <2>8. q.shown = {<<r.user, c>>} \cup M(c)
    BY <2>6, <2>7, ZenonT(60) DEF AfterSwitchChain, WorkersBehind, SessionTypes
  <2>9. UserIdOf(q) = q.user
    BY <1>1, ZenonT(60) DEF UserIdOf, SessionTypes
  <2> QED
    BY <1>2, <2>1, <2>8, <2>9, <1>1 DEF Told, WorkersBehind, WorkersApart, SameFlags
<1> HIDE DEF q
<1>3. ToldTrue(q)
  BY <1>1, <1>2, ZenonT(60) DEF ToldTrue, SameFlags
<1> QED
  BY <1>1, <1>3, ZenonT(60) DEF q

-----------------------------------------------------------------------------
(* The steps of the event loop: UserInfo *)

\* A session asks to be authorized.
LEMMA AuthorizeTypes ==
  ASSUME InfoInv, NEW s, NEW u, Authorize(s, u)
  PROVE  InfoInv' /\ Chains' = Chains
<1> DEFINE f == LookupCache(s, u)
<1>1. DOMAIN f = {"pc", "user", "from", "name", "to", "session"} /\ f.to \in Chains
  <2>1. Cached(u) => info.chains[u].chain \in Chains
    BY ZenonT(60) DEF InfoInv, CacheTypes, Cached
  <2> QED
    BY <2>1, IdleTypes, ZenonT(60) DEF LookupCache, InfoInv
<1> HIDE DEF f
<1>2. CallTypes(call')
  BY <1>1, CallSet, ZenonT(60) DEF InfoInv, Authorize, Threads, f
<1> QED
  BY <1>2, InfoStep, ZenonT(60) DEF InfoInv, Authorize

\* The lookup of its chain.
LEMMA LookupChainTypes ==
  ASSUME InfoInv, LookupChain
  PROVE  InfoInv' /\ Chains' = Chains
<1>1. UNCHANGED <<uconf, api, man, tasks>>
  BY ZenonT(60) DEF LookupChain
<1>2. CASE call' = [call EXCEPT !["loop"].pc = "notfound"] /\ UNCHANGED info
  <2>1. CallTypes(call')
    BY <1>2, ZenonT(60) DEF InfoInv, CallTypes
  <2> QED
    BY <1>1, <1>2, <2>1, InfoStep, ZenonT(60) DEF InfoInv
<1>3. ASSUME NEW u, NEW name, NEW c \in LookupResult(u, name),
             info' = IF Resolves(u, name) # {} THEN CacheResolved(u, name, c)
                                               ELSE SetChain(info, u, c, FALSE),
             call' = [call EXCEPT !["loop"].pc = "found", !["loop"].to = c]
      PROVE  InfoInv' /\ Chains' = Chains
  <2>1. c \in Chains
    BY LookupIsChain, ZenonT(60)
  <2>2. CacheTypes(info')
    BY <1>3, <2>1, CacheOperators, ZenonT(60) DEF InfoInv, CacheResolved
  <2>3. CallTypes(call')
    BY <1>3, <2>1, ZenonT(60) DEF InfoInv, CallTypes, Threads
  <2> QED
    BY <1>1, <2>2, <2>3, InfoStep, ZenonT(60) DEF InfoInv
<1> QED
  BY <1>2, <1>3, ZenonT(60) DEF LookupChain

\* Its answer.
LEMMA AuthorizedTypes ==
  ASSUME InfoInv, NEW gone, Authorized(gone)
  PROVE  InfoInv' /\ Chains' = Chains
<1>1. UNCHANGED <<uconf, api, man, tasks>> /\ call' = [call EXCEPT !["loop"] = Idle]
  BY ZenonT(60) DEF Authorized
<1>2. CallTypes(call')
  BY <1>1, IdleTypes, CallSet, ZenonT(60) DEF InfoInv, Threads
<1>3. UNCHANGED info \/ \E s : info' = TryAutoReg(sess[s].user, gone).info
  BY ZenonT(60) DEF Authorized
<1>4. ASSUME NEW u PROVE CacheTypes(TryAutoReg(u, gone).info)
  <2>1. \/ TryAutoReg(u, gone).info = info
        \/ TryAutoReg(u, gone).info = [info EXCEPT !.pending = info.pending \cup {u}]
    BY ZenonT(60) DEF TryAutoReg
  <2> QED
    BY <2>1, PendingOnly DEF InfoInv
<1> QED
  BY <1>1, <1>2, <1>3, <1>4, InfoStep, ZenonT(60) DEF InfoInv

\* The event loop runs a switch of a user,
LEMMA RunSwitchTypes ==
  ASSUME InfoInv, RunSwitch
  PROVE  InfoInv' /\ Chains' = Chains /\ Head(tasks).to \in Chains
<1>1. tasks # << >> /\ Head(tasks).k = "switch" /\ tasks' = Tail(tasks)
      /\ UNCHANGED <<uconf, api, man, call>>
      /\ (info' = info \/ info' = Uncached(info, Head(tasks).user))
  BY ZenonT(60) DEF RunSwitch, TaskReady
<1>2. TaskTypes(tasks') /\ Head(tasks).to \in Chains
  BY <1>1, TaskDone, ZenonT(60) DEF InfoInv
<1>3. CacheTypes(info')
  BY <1>1, <1>2, CacheOperators, ZenonT(60) DEF InfoInv
<1> QED
  BY <1>1, <1>2, <1>3, InfoStep, ZenonT(60) DEF InfoInv

\* a switch of the automatic users,
LEMMA RunAutoSwitchTypes ==
  ASSUME InfoInv, RunAutoSwitch
  PROVE  InfoInv' /\ Chains' = Chains /\ Head(tasks).to \in Chains
<1>1. tasks # << >> /\ Head(tasks).k = "auto" /\ tasks' = Tail(tasks)
      /\ UNCHANGED <<uconf, api, man, call>>
  BY ZenonT(60) DEF RunAutoSwitch, TaskReady
<1>2. TaskTypes(tasks') /\ Head(tasks).to \in Chains
  BY <1>1, TaskDone, ZenonT(60) DEF InfoInv
<1>3. CacheTypes(info')
  <2>1. info' = [info EXCEPT !.chains =
                   [u \in DOMAIN info.chains \cup AutoAsked |->
                      IF u \in DOMAIN info.chains THEN info.chains[u]
                      ELSE [chain |-> 0, auto |-> FALSE]]]
    BY ZenonT(60) DEF RunAutoSwitch
  <2>2. 0 \in Chains
    BY FirstIsChain, ZenonT(60) DEF InfoInv
  <2> QED
    BY <2>1, <2>2, ZenonT(60) DEF InfoInv, CacheTypes
<1> QED
  BY <1>1, <1>2, <1>3, InfoStep, ZenonT(60) DEF InfoInv

\* a registration, which looks the chain up again,
LEMMA RegLookupIsChain ==
  ASSUME InfoInv, NEW u
  PROVE  RegLookup(u) \subseteq Chains
<1>1. 0 \in Chains
  BY FirstIsChain, ZenonT(60) DEF InfoInv
<1>2. Cached(u) => info.chains[u].chain \in Chains
  BY ZenonT(60) DEF InfoInv, CacheTypes, Cached
<1> QED
  BY <1>1, <1>2, LookupIsChain, ZenonT(60) DEF RegLookup

\* and tells the sessions that wait for it,
LEMMA RunRegTypes ==
  ASSUME InfoInv, RunReg
  PROVE  InfoInv' /\ Chains' = Chains
<1>1. tasks # << >> /\ tasks' = Tail(tasks) /\ UNCHANGED <<uconf, api, man, call>>
  BY ZenonT(60) DEF RunReg, TaskReady
<1>2. TaskTypes(tasks')
  BY <1>1, TaskDone, ZenonT(60) DEF InfoInv
<1> DEFINE u == Head(tasks).user
           c == CHOOSE x \in RegLookup(u) : TRUE
<1>3. \/ UNCHANGED info
      \/ /\ uconf.chains > 1 /\ ~Cached(u)
         /\ \/ /\ Resolves(u, ZkGetChain(u)) # {}
               /\ info' = CacheResolved(u, ZkGetChain(u), c)
            \/ RegLookup(u) # {} /\ info' = SetChain(info, u, c, FALSE)
  BY ZenonT(60) DEF RunReg
<1>4. CacheTypes(info')
  <2>1. CASE RegLookup(u) # {}
    <3>1. c \in RegLookup(u)
      BY <2>1, ZenonT(60)
    <3>2. c \in Chains
      BY <3>1, RegLookupIsChain, ZenonT(60)
    <3> HIDE DEF c
    <3> QED
      BY <1>3, <3>2, CacheOperators, ZenonT(60) DEF InfoInv, CacheResolved
  <2>2. CASE RegLookup(u) = {} /\ uconf.chains > 1 /\ ~Cached(u)
    <3>1. LookupResult(u, ZkGetChain(u)) = {}
      BY <2>2, ZenonT(60) DEF RegLookup, InfoInv, UserConf
    <3>2. Resolves(u, ZkGetChain(u)) = {}
      BY <3>1, ZenonT(60) DEF LookupResult
    <3> QED
      BY <1>3, <2>2, <3>2, ZenonT(60) DEF InfoInv
  <2> QED
    BY <1>3, <2>1, <2>2, ZenonT(60) DEF InfoInv
<1> QED
  BY <1>1, <1>2, <1>4, InfoStep, ZenonT(60) DEF InfoInv

\* or the check of the caches.
LEMMA RunCheckTypes ==
  ASSUME InfoInv, RunCheck
  PROVE  InfoInv' /\ Chains' = Chains
<1>1. tasks # << >> /\ UNCHANGED <<uconf, api, call>>
  BY ZenonT(60) DEF RunCheck, TaskReady
<1>2. TaskTypes(Tail(tasks))
  BY <1>1, TaskDone, ZenonT(60) DEF InfoInv
<1>3. \/ UNCHANGED <<man, info>> /\ tasks' = Tail(tasks)
      \/ \E name : /\ man' = UpdatedMan(name)
                   /\ \/ /\ info' = AutoSwitchCaches(info, CurrentAutoChainIdOf(man'))
                         /\ tasks' = Append(Tail(tasks), AutoTask(CurrentAutoChainIdOf(man')))
                      \/ UNCHANGED info /\ tasks' = Tail(tasks)
  BY ZenonT(60) DEF RunCheck
<1>4. ManTypes(man')
  BY <1>3, UpdatedManTypes, ZenonT(60) DEF InfoInv
<1> DEFINE c == CurrentAutoChainIdOf(man')
<1>5. c \in Chains
  BY <1>4, CurrentIsChain, ZenonT(60)
<1>6. AutoTask(c).to = c
  BY ZenonT(60) DEF AutoTask
<1> HIDE DEF c
<1>7. CacheTypes(info')
  BY <1>3, <1>5, CacheOperators, ZenonT(60) DEF InfoInv, c
<1>8. TaskTypes(tasks')
  BY <1>2, <1>3, <1>5, <1>6, TaskAdded, ZenonT(60) DEF c
<1> QED
  BY <1>1, <1>4, <1>7, <1>8, InfoStep, ZenonT(60) DEF InfoInv

-----------------------------------------------------------------------------
(* The steps of the event loop: the sessions *)

\* What is left to show of a step that changes sessions.
LEMMA SessionStep ==
  ASSUME Chains' = Chains, DOMAIN sess' = DOMAIN sess, LoginPending',
         \A s \in DOMAIN sess : SessionTypes(sess'[s]) /\ ToldTrue(sess'[s])
  PROVE  SessionsInv'
<1>1. ASSUME NEW s \in DOMAIN sess PROVE SessionTypes(sess[s])' /\ ToldTrue(sess[s])'
  <2>1. SessionTypes(sess[s])'
    BY <1>1, ZenonT(60) DEF SessionTypes
  <2>2. ToldTrue(sess[s])'
    BY <1>1, ZenonT(60) DEF ToldTrue, NothingTold, Told, WorkersBehind, WorkersApart, UserIdOf
  <2> QED
    BY <2>1, <2>2, ZenonT(60)
<1> QED
  BY <1>1, ZenonT(60) DEF SessionsInv

\* Only one session changes, when no login is looked up.
LEMMA OneSession ==
  ASSUME SessionsInv, Chains' = Chains, UNCHANGED call, call["loop"] = Idle,
         NEW s \in DOMAIN sess, NEW q, sess' = [sess EXCEPT ![s] = q],
         SessionTypes(q), ToldTrue(q)
  PROVE  SessionsInv'
<1>1. LoginPending'
  BY ZenonT(60) DEF LoginPending, Idle
<1>2. DOMAIN sess' = DOMAIN sess
      /\ \A x \in DOMAIN sess : sess'[x] = IF x = s THEN q ELSE sess[x]
  BY ZenonT(60)
<1>3. \A x \in DOMAIN sess : SessionTypes(sess'[x]) /\ ToldTrue(sess'[x])
  BY <1>2, ZenonT(60) DEF SessionsInv
<1> QED
  BY <1>1, <1>2, <1>3, SessionStep, ZenonT(60)

\* A session whose fields for the events are as before.
SameTold(q, r) ==
  /\ SameFlags(q, r) /\ (q.state = "authenticated") = (r.state = "authenticated")
  /\ q.chain = r.chain /\ q.ids = r.ids /\ q.miners = r.miners /\ q.shown = r.shown
  /\ q.moved = r.moved

\* A session that is told nothing, and stays the same user's.
LEMMA SameToldTrue ==
  ASSUME NEW q, NEW r, SessionTypes(r), ToldTrue(r), SameTold(q, r),
         q.user = r.user \/ q.state # "authenticated" \/ q.again
  PROVE  SessionTypes(q) /\ ToldTrue(q)
<1>1. SessionTypes(q)
  BY ZenonT(60) DEF SessionTypes, SameTold, SameFlags
<1>2. ToldTrue(q)
  BY DEF ToldTrue, NothingTold, Told, WorkersBehind, WorkersApart, UserIdOf, SameTold,
             SameFlags
<1> QED
  BY <1>1, <1>2, ZenonT(60)

\* A session asks to be authorized: what it was told is about the login before.
LEMMA AuthorizeSessions ==
  ASSUME InfoInv, SessionsInv, NEW s \in DOMAIN sess, NEW u, Authorize(s, u)
  PROVE  SessionsInv'
<1> DEFINE r == sess[s]
<1>1. Chains' = Chains
  BY AuthorizeTypes, ZenonT(60)
<1>2. PICK now \in AuthorizeStates(r) :
        sess' = [sess EXCEPT ![s].user = u, ![s].state = now, ![s].tries = @ + 1,
                             ![s].again = @ \/ r.state = "authenticated"]
  BY ZenonT(60) DEF Authorize
<1>3. now = r.state \/ now = "subscribed"
  BY ZenonT(60) DEF AuthorizeStates, AuthorizeBitcoin, AuthorizeDecred, AuthorizeCkb, AuthorizeEth,
         AuthorizeBytom, AuthorizeGrin, AuthorizeBeam
<1> DEFINE q == sess'[s]
<1>4. SessionTypes(r) /\ ToldTrue(r)
  BY ZenonT(60) DEF SessionsInv
<1>5. /\ DOMAIN sess' = DOMAIN sess
      /\ \A x \in DOMAIN sess : x # s => sess'[x] = sess[x]
      /\ DOMAIN q = DOMAIN r /\ q.state = now /\ q.user = u
      /\ q.again = (r.again \/ r.state = "authenticated")
      /\ q.anonymous = r.anonymous /\ q.dead = r.dead /\ q.moved = r.moved
      /\ q.chain = r.chain
      /\ q.ids = r.ids /\ q.miners = r.miners /\ q.shown = r.shown
  BY <1>2, <1>4, ZenonT(60) DEF SessionTypes
<1>6. SessionTypes(q)
  BY <1>4, <1>5, ZenonT(60) DEF SessionTypes
<1> HIDE DEF q, r
<1>7. r.state = "authenticated" => q.again
  BY <1>5, ZenonT(60)
<1>8. ~q.again => ~r.again /\ r.state # "authenticated"
  BY <1>5, ZenonT(60)
<1>9. ToldTrue(q)
  <2>1. CASE q.again
    BY <2>1, ZenonT(60) DEF ToldTrue
  <2>2. CASE ~q.again /\ ~q.anonymous /\ ~q.moved
    <3>1. q.state # "authenticated" /\ NothingTold(r)
      BY <2>2, <1>3, <1>4, <1>5, <1>8, ZenonT(60) DEF ToldTrue
    <3> QED
      BY <3>1, <1>5, ZenonT(60) DEF ToldTrue, NothingTold
  <2>3. CASE q.anonymous \/ q.moved
    BY <2>3, ZenonT(60) DEF ToldTrue
  <2> QED
    BY <2>1, <2>2, <2>3, ZenonT(60)
<1>10. LoginPending'
  <2>1. call'["loop"].session = s
    BY IdleTypes, ZenonT(60) DEF Authorize, LookupCache, InfoInv, CallTypes, Threads
  <2>2. q.state = "authenticated" => q.again
    BY <1>3, <1>5, <1>7, ZenonT(60)
  <2> QED
    BY <2>1, <2>2, ZenonT(60) DEF LoginPending, q
<1> QED
  BY <1>1, <1>5, <1>6, <1>9, <1>10, SessionStep, ZenonT(60) DEF SessionsInv, q

\* The answer: the session is told its user and its chain.
LEMMA AuthorizedSessions ==
  ASSUME InfoInv, SessionsInv, NEW gone, Authorized(gone)
  PROVE  SessionsInv'
<1> DEFINE s == call["loop"].session
           r == sess[s]
           cs == IF call["loop"].pc = "found" THEN {call["loop"].to} ELSE {}
           q == CheckUser2(s, cs, info, gone).r
<1>1. Chains' = Chains
  BY AuthorizedTypes, ZenonT(60)
<1>2. sess' = [sess EXCEPT ![s] = q] /\ call' = [call EXCEPT !["loop"] = Idle]
  BY ZenonT(60) DEF Authorized
<1>3. call'["loop"] = Idle
  BY <1>2, ZenonT(60) DEF InfoInv, CallTypes, Threads
<1>4. LoginPending'
  BY <1>3, ZenonT(60) DEF LoginPending, Idle
<1>5. r.state = "authenticated" => r.again
  BY IdleTypes, ZenonT(60) DEF Authorized, SessionsInv, LoginPending, InfoInv
<1>6. cs \subseteq Chains
  BY ZenonT(60) DEF InfoInv, CallTypes, Threads
<1>7. \/ \E c \in cs : r.user \in info.ids[c] /\ q = Authenticated(r, c)
      \/ q = [r EXCEPT !.saved = r.user, !.state = "registing"]
      \/ q = [r EXCEPT !.saved = IF uconf.autoReg THEN NoUser ELSE @]
  <2> DEFINE known == {c \in cs : r.user \in info.ids[c]}
             d == CHOOSE c \in known : TRUE
  <2>1. CASE known # {}
    <3>1. d \in known
      BY <2>1, ZenonT(60)
    <3>2. q = Authenticated(r, d)
      BY <2>1, ZenonT(60) DEF CheckUser2
    <3> QED
      BY <3>1, <3>2, ZenonT(60)
  <2>2. CASE known = {}
    BY <2>2, ZenonT(60) DEF CheckUser2
  <2> QED
    BY <2>1, <2>2, ZenonT(60)
<1> HIDE DEF q
<1>8. ASSUME s \in DOMAIN sess PROVE SessionTypes(q) /\ ToldTrue(q)
  <2>1. SessionTypes(r) /\ ToldTrue(r)
    BY <1>8, ZenonT(60) DEF SessionsInv
  <2> HIDE DEF r, cs
  <2>2. CASE \E c \in cs : r.user \in info.ids[c] /\ q = Authenticated(r, c)
    <3>1. PICK c \in Chains : r.user \in info.ids[c] /\ q = Authenticated(r, c)
      BY <1>6, <2>2, ZenonT(60)
    <3>2. r.user \in Users
      BY <3>1, ZenonT(60) DEF InfoInv, CacheTypes
    <3> QED
      BY <3>1, <3>2, <2>1, <1>5, LoginTells, ZenonT(60)
  <2>3. CASE q = [r EXCEPT !.saved = r.user, !.state = "registing"]
    <3>1. /\ DOMAIN q = DOMAIN r /\ q.state = "registing" /\ q.again = r.again
          /\ q.anonymous = r.anonymous /\ q.dead = r.dead /\ q.moved = r.moved
          /\ q.chain = r.chain
          /\ q.ids = r.ids /\ q.miners = r.miners /\ q.shown = r.shown
      BY <2>1, <2>3, ZenonT(60) DEF SessionTypes
    <3>2. SessionTypes(q)
      BY <3>1, <2>1, ZenonT(60) DEF SessionTypes
    <3>3. ToldTrue(q)
      BY <3>1, <2>1, <1>5, ZenonT(60) DEF ToldTrue, NothingTold
    <3> QED
      BY <3>2, <3>3, ZenonT(60)
  <2>4. CASE q = [r EXCEPT !.saved = IF uconf.autoReg THEN NoUser ELSE @]
    <3>1. SameTold(q, r) /\ q.user = r.user
      BY <2>1, <2>4, ZenonT(60) DEF SameTold, SameFlags, SessionTypes
    <3> QED
      BY <3>1, <2>1, SameToldTrue, ZenonT(60)
  <2> QED
    BY <1>7, <2>2, <2>3, <2>4, ZenonT(60) DEF r, cs
<1>9. DOMAIN sess' = DOMAIN sess
      /\ \A x \in DOMAIN sess : sess'[x] = IF x = s THEN q ELSE sess[x]
  BY <1>2, ZenonT(60)
<1>10. \A x \in DOMAIN sess : SessionTypes(sess'[x]) /\ ToldTrue(sess'[x])
  BY <1>8, <1>9, ZenonT(60) DEF SessionsInv
<1> QED
  BY <1>1, <1>4, <1>9, <1>10, SessionStep, ZenonT(60)

\* Neither the sessions nor the calls of the event loop change.
LEMMA QuietSessions ==
  ASSUME SessionsInv, Chains' = Chains, UNCHANGED sess,
         \/ call'["loop"] = call["loop"]
         \/ call["loop"] # Idle /\ call'["loop"].session = call["loop"].session
  PROVE  SessionsInv'
<1>1. LoginPending'
  BY ZenonT(60) DEF SessionsInv, LoginPending, Idle
<1>2. \A s \in DOMAIN sess : SessionTypes(sess'[s]) /\ ToldTrue(sess'[s])
  BY ZenonT(60) DEF SessionsInv
<1> QED
  BY <1>1, <1>2, SessionStep, ZenonT(60)

\* A lookup changes no session.
LEMMA LookupSessions ==
  ASSUME InfoInv, SessionsInv, LookupChain \/ (ReadChain("loop") /\ UNCHANGED sess)
  PROVE  InfoInv' /\ SessionsInv'
<1>1. InfoInv' /\ Chains' = Chains
  BY LookupChainTypes, ReadChainTypes, ZenonT(60) DEF Threads
<1>2. UNCHANGED sess
  BY ZenonT(60) DEF LookupChain
<1>3. call["loop"] # Idle
  BY IdleTypes, ZenonT(60) DEF LookupChain, ReadChain, InfoInv
<1>4. call'["loop"].session = call["loop"].session
  <2>1. /\ "loop" \in DOMAIN call
        /\ {"pc", "name", "to", "session"} \subseteq DOMAIN call["loop"]
    BY ZenonT(60) DEF InfoInv, CallTypes, Threads
  <2>2. CASE ReadChain("loop")
    BY <2>1, <2>2, ZenonT(60) DEF ReadChain
  <2>3. CASE LookupChain
    <3>1. \/ call' = [call EXCEPT !["loop"].pc = "notfound"]
          \/ \E c : call' = [call EXCEPT !["loop"].pc = "found", !["loop"].to = c]
      BY <2>3, ZenonT(60) DEF LookupChain
    <3> QED
      BY <2>1, <3>1, ZenonT(60)
  <2> QED
    BY <2>2, <2>3, ZenonT(60)
<1> QED
  BY <1>1, <1>2, <1>3, <1>4, QuietSessions, ZenonT(60)

\* A task changes any number of sessions, when no login is looked up.
LEMMA TaskSessions ==
  ASSUME SessionsInv, Chains' = Chains, UNCHANGED call, call["loop"] = Idle,
         DOMAIN sess' = DOMAIN sess,
         \A s \in DOMAIN sess : SessionTypes(sess'[s]) /\ ToldTrue(sess'[s])
  PROVE  SessionsInv'
<1>1. LoginPending'
  BY ZenonT(60) DEF LoginPending, Idle
<1> QED
  BY <1>1, SessionStep, ZenonT(60)

\* A switch tells the session what it then does.
LEMMA TrySwitchTells ==
  ASSUME NEW r, SessionTypes(r), ToldTrue(r), r.state = "authenticated",
         NEW c \in Chains, r.chain # c
  PROVE  SessionTypes(TrySwitchChain(r, c)) /\ ToldTrue(TrySwitchChain(r, c))
BY SwitchTells, ZenonT(60) DEF TrySwitchChain

\* The tasks that switch sessions.
LEMMA SwitchTasks ==
  ASSUME InfoInv, SessionsInv, RunSwitch \/ RunAutoSwitch
  PROVE  InfoInv' /\ SessionsInv'
<1>1. InfoInv' /\ Chains' = Chains /\ Head(tasks).to \in Chains
  BY RunSwitchTypes, RunAutoSwitchTypes, ZenonT(60)
<1> DEFINE c == Head(tasks).to
<1>2. UNCHANGED call /\ call["loop"] = Idle /\ DOMAIN sess' = DOMAIN sess
  BY ZenonT(60) DEF RunSwitch, RunAutoSwitch, TaskReady
<1>3. ASSUME NEW s \in DOMAIN sess
      PROVE  \/ sess'[s] = sess[s]
             \/ /\ sess[s].state = "authenticated" /\ sess[s].chain # c
                /\ sess'[s] = TrySwitchChain(sess[s], c)
  <2>1. CASE RunSwitch
    BY <2>1, <1>3, ZenonT(60) DEF RunSwitch, Served
  <2>2. CASE RunAutoSwitch
    BY <2>2, <1>3, ZenonT(60) DEF RunAutoSwitch, Served
  <2> QED
    BY <2>1, <2>2, ZenonT(60)
<1> HIDE DEF c
<1>4. \A s \in DOMAIN sess : SessionTypes(sess'[s]) /\ ToldTrue(sess'[s])
  BY <1>1, <1>3, TrySwitchTells, ZenonT(60) DEF SessionsInv, c
<1> QED
  BY <1>1, <1>2, <1>4, TaskSessions, ZenonT(60)

\* A registration that is done tells the session that waits for it.
LEMMA AutoRegTells ==
  ASSUME InfoInv, NEW r, SessionTypes(r), ToldTrue(r), NEW u
  PROVE  SessionTypes(AutoRegCallback(u, r)) /\ ToldTrue(AutoRegCallback(u, r))
<1> DEFINE a == AutoRegCallback(u, r)
           q == [r EXCEPT !.saved = NoUser, !.user = u]
           known == {c \in RegLookup(u) : GetUserId(c, u)}
           d == CHOOSE c \in known : TRUE
<1>1. \/ a = r
      \/ a = [r EXCEPT !.saved = NoUser]
      \/ r.state = "registing" /\ a = q
      \/ r.state = "registing" /\ known # {} /\ a = Authenticated(q, d)
  BY ZenonT(60) DEF AutoRegCallback
<1>2. CASE a = r
  BY <1>2, ZenonT(60)
<1>3. CASE a = [r EXCEPT !.saved = NoUser]
  <2> HIDE DEF a
  <2>1. SameTold(a, r) /\ a.user = r.user
    BY <1>3, ZenonT(60) DEF SameTold, SameFlags, SessionTypes
  <2>2. SessionTypes(a) /\ ToldTrue(a)
    BY <2>1, SameToldTrue, ZenonT(60)
  <2> QED
    BY <2>2, ZenonT(60) DEF a
<1>4. ASSUME r.state = "registing"
      PROVE  SessionTypes(q) /\ ToldTrue(q) /\ q.user = u /\ q.state = "registing"
  <2>1. SameTold(q, r) /\ q.user = u /\ q.state = "registing"
    BY <1>4, ZenonT(60) DEF SameTold, SameFlags, SessionTypes
  <2> HIDE DEF q
  <2> QED
    BY <2>1, SameToldTrue, ZenonT(60)
<1>5. CASE r.state = "registing" /\ a = q
  BY <1>4, <1>5, ZenonT(60)
<1>6. CASE r.state = "registing" /\ known # {} /\ a = Authenticated(q, d)
  <2>1. d \in known
    BY <1>6, ZenonT(60)
  <2>2. d \in Chains /\ u \in Users
    BY <2>1, RegLookupIsChain, ZenonT(60) DEF GetUserId, InfoInv, CacheTypes
  <2> HIDE DEF q, d
  <2>3. SessionTypes(Authenticated(q, d)) /\ ToldTrue(Authenticated(q, d))
    BY <2>2, <1>4, <1>6, LoginTells, ZenonT(60)
  <2> QED
    BY <2>3, <1>6, ZenonT(60)
<1> QED
  BY <1>1, <1>2, <1>3, <1>5, <1>6, ZenonT(60)

\* The task that does so.
LEMMA RegTasks ==
  ASSUME InfoInv, SessionsInv, RunReg
  PROVE  InfoInv' /\ SessionsInv'
<1>1. InfoInv' /\ Chains' = Chains
  BY RunRegTypes, ZenonT(60)
<1>2. UNCHANGED call /\ call["loop"] = Idle /\ DOMAIN sess' = DOMAIN sess
      /\ \A s \in DOMAIN sess : sess'[s] = AutoRegCallback(Head(tasks).user, sess[s])
  BY ZenonT(60) DEF RunReg, TaskReady
<1>3. \A s \in DOMAIN sess : SessionTypes(sess'[s]) /\ ToldTrue(sess'[s])
  BY <1>2, AutoRegTells, ZenonT(60) DEF SessionsInv
<1> QED
  BY <1>1, <1>2, <1>3, TaskSessions, ZenonT(60)

-----------------------------------------------------------------------------
(* The requests of the miners *)

\* A request that tells nothing but the session's own state.
LEMMA QuietRequests ==
  ASSUME InfoInv, SessionsInv, NEW s \in DOMAIN sess,
         ListenerCallback(s) \/ \E agent \in BOOLEAN : Subscribe(s, agent)
  PROVE  SessionsInv'
<1> DEFINE r == sess[s]
<1>1. UNCHANGED <<uconf, call>> /\ call["loop"] = Idle
  BY ZenonT(60) DEF ListenerCallback, Subscribe, userVars
<1>2. Chains' = Chains
  BY <1>1, ZenonT(60) DEF Chains
<1>3. SessionTypes(r) /\ ToldTrue(r)
  BY ZenonT(60) DEF SessionsInv
<1>4. CASE ListenerCallback(s)
  <2> DEFINE q == [r EXCEPT !.here = TRUE]
  <2>1. sess' = [sess EXCEPT ![s] = q]
    BY <1>4, ZenonT(60) DEF ListenerCallback
  <2>2. SameTold(q, r) /\ q.user = r.user
    BY <1>3, ZenonT(60) DEF SameTold, SameFlags, SessionTypes
  <2> HIDE DEF q, r
  <2> QED
    BY <2>1, <2>2, <1>1, <1>2, <1>3, SameToldTrue, OneSession, ZenonT(60)
<1>5. ASSUME NEW agent, Subscribe(s, agent) PROVE SessionsInv'
  <2> DEFINE q == [r EXCEPT !.state = "subscribed", !.agent = agent, !.proxy = FALSE]
  <2>1. sess' = [sess EXCEPT ![s] = q]
    BY <1>5, ZenonT(60) DEF Subscribe
  <2>2. r.state = "connected"
    BY <1>5, ZenonT(60) DEF Subscribe, SubscribeStates, SubscribeBitcoin, SubscribeDecred,
                SubscribeCkb, SubscribeEth, SubscribeSia
  <2>3. SameTold(q, r) /\ q.user = r.user
    BY <2>2, <1>3, ZenonT(60) DEF SameTold, SameFlags, SessionTypes
  <2> HIDE DEF q, r
  <2> QED
    BY <2>1, <2>3, <1>1, <1>2, <1>3, SameToldTrue, OneSession, ZenonT(60)
<1> QED
  BY <1>4, <1>5, ZenonT(60)

\* The end of a session: its user is withdrawn first, the workers behind it when it
\* is erased.
LEMMA SessionEnds ==
  ASSUME InfoInv, SessionsInv, NEW s \in DOMAIN sess, MarkAsDead(s) \/ EraseDead(s)
  PROVE  SessionsInv'
<1> DEFINE r == sess[s]
<1>1. UNCHANGED <<uconf, call>> /\ call["loop"] = Idle
  BY ZenonT(60) DEF MarkAsDead, EraseDead, userVars
<1>2. Chains' = Chains
  BY <1>1, ZenonT(60) DEF Chains
<1>3. SessionTypes(r) /\ ToldTrue(r)
  BY ZenonT(60) DEF SessionsInv
<1>4. CASE MarkAsDead(s)
  <2> DEFINE q == [r EXCEPT !.dead = TRUE, !.shown = @ \ {<<UserIdOf(r), r.chain>>}]
  <2>1. sess' = [sess EXCEPT ![s] = q] /\ ~r.dead
    BY <1>4, ZenonT(60) DEF MarkAsDead
  <2>2. /\ DOMAIN q = DOMAIN r /\ q.dead /\ q.moved = r.moved /\ q.again = r.again
        /\ q.anonymous = r.anonymous /\ q.state = r.state /\ q.user = r.user
        /\ q.chain = r.chain /\ q.ids = r.ids /\ q.miners = r.miners
        /\ q.shown = r.shown \ {<<UserIdOf(r), r.chain>>}
    BY <1>3, ZenonT(60) DEF SessionTypes
  <2> HIDE DEF q, r
  <2>3. SessionTypes(q)
    BY <2>2, <1>3, ZenonT(60) DEF SessionTypes
  <2>4. ASSUME ~r.again, ~r.anonymous, ~r.moved, r.state = "authenticated"
        PROVE  q.shown = Told(q)
    <3>1. /\ r.user \in Users /\ UserIdOf(r) = r.user
          /\ r.shown = WorkersBehind(r) \cup {<<r.user, r.chain>>}
      BY <2>1, <2>4, <1>3, ZenonT(60) DEF ToldTrue, Told
    <3>2. <<r.user, r.chain>> \notin WorkersBehind(r)
      BY <3>1, <1>3, MinersAssumption DEF WorkersBehind, SessionTypes
    <3>3. q.shown = WorkersBehind(r)
      BY <3>1, <3>2, <2>2, ZenonT(60)
    <3> QED
      BY <3>3, <2>2, ZenonT(60) DEF Told, WorkersBehind
  <2>5. ToldTrue(q)
    <3>1. CASE r.state = "authenticated"
      BY <3>1, <2>2, <2>4, <1>3, ZenonT(60) DEF ToldTrue, WorkersApart, UserIdOf
    <3>2. CASE r.state # "authenticated"
      BY <3>2, <2>2, <1>3, ZenonT(60) DEF ToldTrue, NothingTold
    <3> QED
      BY <3>1, <3>2, ZenonT(60)
  <2> QED
    BY <2>1, <2>3, <2>5, <1>1, <1>2, OneSession, ZenonT(60)
<1>5. CASE EraseDead(s)
  <2> DEFINE p == BeforeSwitchChain(r)
             q == [p EXCEPT !.here = FALSE, !.miners = {}]
  <2>1. sess' = [sess EXCEPT ![s] = q] /\ r.dead
    BY <1>5, ZenonT(60) DEF EraseDead
  <2>2. /\ DOMAIN p = DOMAIN r /\ SameFlags(p, r) /\ p.moved = r.moved
        /\ p.state = r.state /\ p.user = r.user /\ p.chain = r.chain /\ p.ids = r.ids
        /\ p.shown = IF r.state = "authenticated" THEN r.shown \ WorkersBehind(r)
                                                  ELSE r.shown
    BY <1>3, ZenonT(60) DEF SessionTypes, BeforeSwitchChain, SameFlags
  <2> HIDE DEF p
  <2>3. /\ DOMAIN q = DOMAIN r /\ SameFlags(q, r) /\ q.moved = r.moved
        /\ q.state = r.state /\ q.user = r.user /\ q.chain = r.chain /\ q.ids = r.ids
        /\ q.miners = {} /\ q.shown = p.shown
    BY <2>2, <1>3, ZenonT(60) DEF SessionTypes, SameFlags
  <2> HIDE DEF q, r
  <2>4. SessionTypes(q)
    BY <2>3, <1>3, ZenonT(60) DEF SessionTypes, SameFlags
  <2>5. ToldTrue(q)
    <3>1. ASSUME ~r.again, ~r.anonymous, ~r.moved, r.state = "authenticated"
          PROVE  q.shown = Told(q)
      <4>1. r.shown = WorkersBehind(r)
        BY <3>1, <2>1, <1>3, ZenonT(60) DEF ToldTrue, Told
      <4>2. q.shown = {}
        BY <4>1, <3>1, <2>2, <2>3, ZenonT(60)
      <4>3. WorkersBehind(q) = {} /\ q.dead
        BY <2>1, <2>3, ZenonT(60) DEF WorkersBehind, SameFlags
      <4> QED
        BY <4>2, <4>3, ZenonT(60) DEF Told
    <3>2. CASE r.state = "authenticated"
      BY <3>1, <3>2, <2>3, <1>3, ZenonT(60) DEF ToldTrue, WorkersApart, UserIdOf, SameFlags
    <3>3. CASE r.state # "authenticated"
      BY <3>3, <2>2, <2>3, <1>3, ZenonT(60) DEF ToldTrue, NothingTold, SameFlags
    <3> QED
      BY <3>2, <3>3, ZenonT(60)
  <2> QED
    BY <2>1, <2>4, <2>5, <1>1, <1>2, OneSession, ZenonT(60)
<1> QED
  BY <1>4, <1>5, ZenonT(60)

\* A session that is anonymous needs no more than its types.
LEMMA AnonymousLogin ==
  ASSUME InfoInv, SessionsInv, NEW s \in DOMAIN sess, NEW u, AnonymousAuthorize(s, u)
  PROVE  SessionsInv'
<1> DEFINE r == sess[s]
           q == sess'[s]
<1>1. UNCHANGED <<uconf, call>> /\ call["loop"] = Idle
  BY ZenonT(60) DEF AnonymousAuthorize, userVars
<1>2. SessionTypes(r) /\ Chains' = Chains
  BY <1>1, ZenonT(60) DEF SessionsInv, Chains
<1>3. sess' = [sess EXCEPT ![s].user = u, ![s].chain = 0, ![s].ids[0] = u,
                           ![s].state = "authenticated", ![s].anonymous = TRUE]
  BY ZenonT(60) DEF AnonymousAuthorize
<1>4. 0 \in Chains
  BY FirstIsChain, ZenonT(60) DEF InfoInv
<1>5. /\ DOMAIN q = DOMAIN r /\ q.anonymous /\ q.moved = r.moved /\ q.dead = r.dead
      /\ q.chain = 0 /\ q.ids = [r.ids EXCEPT ![0] = u] /\ q.miners = r.miners
  BY <1>2, <1>3, ZenonT(60) DEF SessionTypes
<1>6. sess' = [sess EXCEPT ![s] = q]
  BY <1>3, ZenonT(60)
<1> HIDE DEF q
<1>7. SessionTypes(q) /\ ToldTrue(q)
  BY <1>2, <1>4, <1>5, ZenonT(60) DEF SessionTypes, ToldTrue
<1> QED
  BY <1>1, <1>2, <1>6, <1>7, OneSession, ZenonT(60)

\* A miner comes to an agent: its worker is told of at once.  Under an id and a name
\* that no other one has, it is one more miner with a name of its own.
LEMMA WorkerComes ==
  ASSUME InfoInv, SessionsInv, NEW s \in DOMAIN sess, NEW id \in AgentIds,
         NEW w \in AgentWorkers, RegisterWorker(s, id, w)
  PROVE  SessionsInv'
<1> DEFINE r == sess[s]
           new == IF id \in {m[1] : m \in r.miners} THEN {} ELSE {<<id, w>>}
           p == [r EXCEPT !.miners = @ \cup new, !.again = @ \/ InUse(r, id, w)]
           q == [p EXCEPT !.shown = @ \cup {<<w, p.chain>>}]
<1>1. UNCHANGED <<uconf, call>> /\ call["loop"] = Idle
  BY ZenonT(60) DEF RegisterWorker, userVars
<1>2. SessionTypes(r) /\ ToldTrue(r) /\ Chains' = Chains
  BY <1>1, ZenonT(60) DEF SessionsInv, Chains
<1>3. r.state = "authenticated" /\ ~r.dead /\ sess' = [sess EXCEPT ![s] = AddWorker(p, w)]
  BY ZenonT(60) DEF RegisterWorker
<1> HIDE DEF new
<1>4. /\ DOMAIN p = DOMAIN r /\ p.state = r.state /\ p.chain = r.chain /\ p.ids = r.ids
      /\ p.miners = r.miners \cup new /\ p.user = r.user /\ p.shown = r.shown
      /\ p.again = (r.again \/ InUse(r, id, w))
      /\ p.anonymous = r.anonymous /\ p.dead = r.dead /\ p.moved = r.moved
  BY <1>2, ZenonT(60) DEF SessionTypes
<1>5. sess' = [sess EXCEPT ![s] = q]
  BY <1>3, <1>4, ZenonT(60) DEF AddWorker
<1> HIDE DEF p
<1>6. /\ DOMAIN q = DOMAIN r /\ q.state = r.state /\ q.chain = r.chain /\ q.ids = r.ids
      /\ q.miners = r.miners \cup new /\ q.user = r.user
      /\ q.again = (r.again \/ InUse(r, id, w))
      /\ q.anonymous = r.anonymous /\ q.dead = r.dead /\ q.moved = r.moved
      /\ q.shown = r.shown \cup {<<w, r.chain>>}
  BY <1>2, <1>4, ZenonT(60) DEF SessionTypes
<1> HIDE DEF q, r
<1>7. SessionTypes(q)
  <2>1. new \subseteq AgentIds \X AgentWorkers
    BY DEF new
  <2> QED
    BY <2>1, <1>2, <1>6, ZenonT(60) DEF SessionTypes
<1>8. ASSUME ~q.again, ~q.anonymous, ~q.moved
      PROVE  q.shown = Told(q) /\ WorkersApart(q) /\ r.user \in Users /\ UserIdOf(r) = r.user
  <2>1. /\ r.user \in Users /\ UserIdOf(r) = r.user /\ ~InUse(r, id, w)
        /\ r.shown = WorkersBehind(r) \cup {<<r.user, r.chain>>} /\ WorkersApart(r)
    BY <1>2, <1>3, <1>6, <1>8, ZenonT(60) DEF ToldTrue, Told
  <2>2. q.miners = r.miners \cup {<<id, w>>}
    BY <2>1, <1>6, ZenonT(60) DEF InUse, new
  <2>3. WorkersBehind(q) = WorkersBehind(r) \cup {<<w, r.chain>>}
    <3> DEFINE n == <<id, w>>
    <3>1. n[2] = w /\ q.miners = r.miners \cup {n}
      BY <2>2
    <3> HIDE DEF n
    <3>2. q.miners = r.miners \cup {n} /\ q.chain = r.chain
      BY <3>1, <1>6
    <3>3. WorkersBehind(q) = WorkersBehind(r) \cup {<<n[2], r.chain>>}
      BY <3>2, ZenonT(60) DEF WorkersBehind
    <3> QED
      BY <3>1, <3>3, ZenonT(60)
  <2>4. WorkersApart(q)
    BY <2>1, <2>2 DEF WorkersApart, InUse
  <2> QED
    BY <2>1, <2>3, <2>4, <1>3, <1>6, ZenonT(60) DEF Told
<1>9. ToldTrue(q)
  BY <1>3, <1>6, <1>8, ZenonT(60) DEF ToldTrue, UserIdOf
<1> QED
  BY <1>1, <1>2, <1>5, <1>7, <1>9, OneSession, ZenonT(60)

\* A miner goes: its worker is withdrawn, which is no other one's and not the user.
LEMMA WorkerGoes ==
  ASSUME InfoInv, SessionsInv, NEW s \in DOMAIN sess, NEW m \in sess[s].miners,
         UnregisterWorker(s, m)
  PROVE  SessionsInv'
<1> DEFINE r == sess[s]
           p == RemoveWorker(r, m[2])
           q == [p EXCEPT !.miners = @ \ {m}]
<1>1. UNCHANGED <<uconf, call>> /\ call["loop"] = Idle
  BY ZenonT(60) DEF UnregisterWorker, userVars
<1>2. SessionTypes(r) /\ ToldTrue(r) /\ Chains' = Chains
  BY <1>1, ZenonT(60) DEF SessionsInv, Chains
<1>3. m \in r.miners /\ ~r.dead /\ sess' = [sess EXCEPT ![s] = q]
  BY ZenonT(60) DEF UnregisterWorker
<1>4. /\ DOMAIN p = DOMAIN r /\ p.state = r.state /\ p.chain = r.chain /\ p.ids = r.ids
      /\ p.miners = r.miners /\ p.user = r.user /\ SameFlags(p, r) /\ p.moved = r.moved
      /\ r.state = "authenticated" => p.shown = r.shown \ {<<m[2], r.chain>>}
  BY <1>2, ZenonT(60) DEF SessionTypes, RemoveWorker, SameFlags
<1> HIDE DEF p
<1>5. /\ SameFlags(q, r) /\ q.state = r.state /\ q.chain = r.chain /\ q.ids = r.ids
      /\ q.miners = r.miners \ {m} /\ q.user = r.user /\ q.moved = r.moved
      /\ r.state = "authenticated" => q.shown = r.shown \ {<<m[2], r.chain>>}
  BY <1>2, <1>4, ZenonT(60) DEF SessionTypes, SameFlags
<1> HIDE DEF q, r
<1>6. SessionTypes(q)
  BY <1>2, <1>5, ZenonT(60) DEF SessionTypes, SameFlags
<1>7. ASSUME ~r.again, ~r.anonymous, ~r.moved
      PROVE  /\ r.state = "authenticated" /\ r.user \in Users /\ UserIdOf(r) = r.user
             /\ q.shown = Told(q) /\ WorkersApart(q)
  <2>1. r.state = "authenticated"
    BY <1>2, <1>3, <1>7, ZenonT(60) DEF ToldTrue, NothingTold
  <2>2. /\ r.user \in Users /\ UserIdOf(r) = r.user
        /\ r.shown = WorkersBehind(r) \cup {<<r.user, r.chain>>} /\ WorkersApart(r)
    BY <2>1, <1>2, <1>3, <1>7, ZenonT(60) DEF ToldTrue, Told
  <2>3. m[2] # r.user
    BY <2>2, <1>2, <1>3, MinersAssumption DEF SessionTypes
  <2>4. WorkersBehind(q) = WorkersBehind(r) \ {<<m[2], r.chain>>}
    BY <2>2, <1>3, <1>5 DEF WorkersBehind, WorkersApart
  <2>5. q.shown = WorkersBehind(q) \cup {<<r.user, r.chain>>}
    BY <2>1, <2>2, <2>3, <2>4, <1>5
  <2>6. WorkersApart(q)
    BY <2>2, <1>5, ZenonT(60) DEF WorkersApart
  <2> QED
    BY <2>1, <2>2, <2>5, <2>6, <1>3, <1>5, ZenonT(60) DEF Told, SameFlags
<1>8. ToldTrue(q)
  BY <1>5, <1>7, ZenonT(60) DEF ToldTrue, UserIdOf, SameFlags
<1> QED
  BY <1>1, <1>2, <1>3, <1>6, <1>8, OneSession, ZenonT(60)

-----------------------------------------------------------------------------
(* The theorem *)

\* The invariants hold at first.
LEMMA UsersInitInv ==
  ASSUME UserConf(uconf), SessionInit(uconf)
  PROVE  InfoInv /\ SessionsInv
<1>1. 0 \in Chains
  BY FirstIsChain, ZenonT(60)
<1>2. ManTypes(man)
  BY <1>1, ZenonT(60) DEF SessionInit, UserInit, ManTypes, Chains
<1>3. CacheTypes(info)
  <2>1. info.chains = << >> /\ info.ids = uconf.known
        /\ DOMAIN info = {"ids", "chains", "pending"}
    BY ZenonT(60) DEF SessionInit, UserInit
  <2>2. DOMAIN info.chains = {}
    BY <2>1
  <2> QED
    BY <2>1, <2>2, ZenonT(60) DEF CacheTypes, UserConf, Chains
<1>4. ListTypes(api)
  BY ZenonT(60) DEF SessionInit, UserInit, ListTypes, UserConf, Chains
<1>5. CallTypes(call)
  BY IdleTypes, ZenonT(60) DEF SessionInit, UserInit, CallTypes, Threads
<1>6. TaskTypes(tasks)
  <2>1. tasks = << >> /\ tasks \in Seq({}) /\ DOMAIN tasks = {}
    BY DEF SessionInit, UserInit
  <2> QED
    BY <2>1, ZenonT(60) DEF TaskTypes, IsSequence
<1>7. SessionTypes(NewSession) /\ ToldTrue(NewSession)
  <2>1. SessionTypes(NewSession)
    BY <1>1, ZenonT(60) DEF NewSession, SessionTypes
  <2>2. NothingTold(NewSession) /\ NewSession.state = "connected"
    BY ZenonT(60) DEF NothingTold, NewSession
  <2> QED
    BY <2>1, <2>2, ZenonT(60) DEF ToldTrue
<1>8. \A s \in DOMAIN sess : sess[s] = NewSession
  BY ZenonT(60) DEF SessionInit
<1>9. call["loop"] = Idle
  BY ZenonT(60) DEF SessionInit, UserInit, Threads
<1>10. InfoInv
  BY <1>2, <1>3, <1>4, <1>5, <1>6, ZenonT(60) DEF InfoInv
<1>11. SessionsInv
  BY <1>7, <1>8, <1>9, ZenonT(60) DEF SessionsInv, LoginPending
<1> QED
  BY <1>10, <1>11, ZenonT(60)

\* Every step keeps them.
LEMMA UsersNextInv ==
  ASSUME InfoInv, SessionsInv, [UsersNext]_sessionVars
  PROVE  InfoInv' /\ SessionsInv'
<1>1. CASE LoopStep
  <2>1. ASSUME NEW gone, Authorized(gone) PROVE InfoInv' /\ SessionsInv'
    BY <2>1, AuthorizedTypes, AuthorizedSessions, ZenonT(60)
  <2>2. CASE RunCheck
    <3>1. UNCHANGED <<call, sess>>
      BY <2>2, ZenonT(60) DEF RunCheck
    <3> QED
      BY <2>2, <3>1, RunCheckTypes, QuietSessions, ZenonT(60)
  <2> QED
    BY <1>1, <2>1, <2>2, LookupSessions, SwitchTasks, RegTasks, ZenonT(60) DEF LoopStep
<1>2. CASE MinersStep
  <2>1. PICK s \in DOMAIN sess :
          \/ ListenerCallback(s)
          \/ \E agent \in BOOLEAN : Subscribe(s, agent)
          \/ \E u \in uconf.who : Authorize(s, u) \/ AnonymousAuthorize(s, u)
          \/ \E id \in AgentIds, w \in AgentWorkers : RegisterWorker(s, id, w)
          \/ \E m \in sess[s].miners : UnregisterWorker(s, m)
          \/ uconf.deaths /\ MarkAsDead(s)
          \/ EraseDead(s)
    BY <1>2, ZenonT(60) DEF MinersStep
  <2>2. SessionsInv'
    BY <2>1, QuietRequests, SessionEnds, AnonymousLogin, WorkerComes, WorkerGoes,
       AuthorizeSessions, ZenonT(60)
  <2>3. InfoInv'
    <3>1. CASE UNCHANGED userVars
      BY <3>1, InfoStep, ZenonT(60) DEF InfoInv, userVars
    <3> QED
      BY <2>1, <3>1, AuthorizeTypes, ZenonT(60)
         DEF ListenerCallback, Subscribe, AnonymousAuthorize, RegisterWorker,
             UnregisterWorker, MarkAsDead, EraseDead
  <2> QED
    BY <2>2, <2>3, ZenonT(60)
<1>3. CASE /\ \/ HandlerStep \/ ZkThread \/ CheckThread \/ ManagementThread \/ UpdateThread
              \/ \E u \in Users, cs \in SUBSET Chains : Registrar(u, cs)
              \/ Outside
           /\ UNCHANGED sess
  <2>1. InfoInv' /\ Chains' = Chains /\ call'["loop"] = call["loop"]
    BY <1>3, OtherThreads, ZenonT(60)
  <2> QED
    BY <1>3, <2>1, QuietSessions, ZenonT(60)
<1>4. CASE UNCHANGED sessionVars
  <2>1. UNCHANGED <<sess, uconf, man, info, api, call, tasks>>
    BY <1>4, ZenonT(60) DEF sessionVars, userVars
  <2>2. InfoInv' /\ Chains' = Chains
    BY <2>1, InfoStep, ZenonT(60) DEF InfoInv
  <2> QED
    BY <2>1, <2>2, QuietSessions, ZenonT(60)
<1> QED
  BY <1>1, <1>2, <1>3, <1>4, ZenonT(60) DEF UsersNext, Threaded

\* The events tell of a session that is served what it is, and where: for any
\* number of sessions, chains and users, whatever the threads of ZooKeeper, of the
\* checks and of the management do in between (addWorker(), removeWorker(),
\* beforeSwitchChain(), afterSwitchChain(), markAsDead()).
THEOREM EventsAreTrue == UsersSpec => []EventsFollowSessions
<1>1. SessionsInv => EventsFollowSessions
  BY ZenonT(60) DEF SessionsInv, EventsFollowSessions, ToldTrue, Told
<1>2. UserConf(uconf) /\ SessionInit(uconf) => InfoInv /\ SessionsInv
  BY UsersInitInv, ZenonT(60)
<1>3. InfoInv /\ SessionsInv /\ [UsersNext]_sessionVars => InfoInv' /\ SessionsInv'
  BY UsersNextInv, ZenonT(60)
<1> QED
  BY <1>1, <1>2, <1>3, PTL DEF UsersSpec

\* The cache, the management, the calls and the tasks always hold chains that the
\* server has, and the lists of users only users (UserInfo and Management, from all
\* the threads that write them).
THEOREM ChainsExist == UsersSpec => []InfoInv
<1>1. UserConf(uconf) /\ SessionInit(uconf) => InfoInv /\ SessionsInv
  BY UsersInitInv, ZenonT(60)
<1>2. InfoInv /\ SessionsInv /\ [UsersNext]_sessionVars => InfoInv' /\ SessionsInv'
  BY UsersNextInv, ZenonT(60)
<1> QED
  BY <1>1, <1>2, PTL DEF UsersSpec
=============================================================================
