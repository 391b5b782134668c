-------------------------- MODULE ZookeeperProofs --------------------------
(***************************************************************************)
(* Proofs about the two users of ZooKeeper's nodes in Zookeeper.cc: the    *)
(* ids of ZookeeperUniqId, for every number of processes and ids, and the  *)
(* mutual exclusion of ZookeeperLock, for any set of processes and any     *)
(* number of expiries, reconnections, crashes and starts.                  *)
(***************************************************************************)
EXTENDS ZookeeperUniqId, ZookeeperLock, TLAPS

\* The time that each prover has for a step that names none
USE SMTT(40), Z3T(60), ZenonT(60)

-----------------------------------------------------------------------------
(* The ids *)

\* A process that works with an id holds its node, unless its session expired
\* or was replaced behind its back.  Nodes have one holder, so that this is why
\* ids are unique.
HoldsNode ==
  \A p \in Procs :
    Uses(p) /\ session[p] = "live" /\ ~late[p] =>
      testedId[p] \in Ids /\ node[testedId[p]] = p

\* What a process was given stays a valid id, whatever happens to its session.
IdValid == \A p \in Procs : Uses(p) => testedId[p] \in Ids

\* Only a process in the middle of a recovery or of an assignment is late, and
\* only one that was assigned its id is recovering.
Stages ==
  \A p \in Procs :
    /\ late[p] => Uses(p)
    /\ session[p] = "recovering" => main[p] = "assigned" /\ ~late[p]

\* The inductive invariant.
IInv == TypeOK /\ IdValid /\ Stages /\ HoldsNode

-----------------------------------------------------------------------------
(* The steps *)

\* The initial state satisfies the invariant.
LEMMA InitInv ==
  ASSUME Init
  PROVE  IInv
BY MaxIdAssumption, MaxExpiryAssumption
DEF Init, IInv, TypeOK, IdValid, Stages, HoldsNode, Uses, Ids

\* The end of a session takes the nodes of its process and no others.
LEMMA WithoutNodes ==
  ASSUME TypeOK, NEW p \in Procs
  PROVE  /\ Without(p) \in [Ids -> Procs \union {None}]
         /\ \A q \in Procs \ {p} : \A i \in Ids : node[i] = q => Without(p)[i] = q
BY NoneAssumption DEF TypeOK, Without

\* The end of a process.
LEMMA DownStep ==
  ASSUME IInv, NEW p \in Procs, Down(p)
  PROVE  IInv'
<1> USE DEF IInv
<1>1. TypeOK'
  BY WithoutNodes, MaxIdAssumption DEF TypeOK, Down, Ids
<1>2. \A q \in Procs \ {p} :
        /\ main'[q] = main[q] /\ testedId'[q] = testedId[q]
        /\ session'[q] = session[q] /\ late'[q] = late[q]
  BY DEF Down, TypeOK
<1>3. main'[p] = "down" /\ late'[p] = FALSE /\ session'[p] = "live"
  BY DEF Down, TypeOK
<1>4. IdValid' /\ Stages'
  BY <1>2, <1>3 DEF IdValid, Stages, Uses
<1>5. HoldsNode'
  BY <1>2, <1>3, WithoutNodes DEF HoldsNode, Uses, Down
<1> QED
  BY <1>1, <1>4, <1>5

\* Reading the nodes, testing the ids and creating a node.
LEMMA AssignStep ==
  ASSUME IInv, NEW p \in Procs, list(p) \/ create(p) \/ skip(p) \/ register(p)
  PROVE  IInv'
<1> USE DEF IInv
<1>1. CASE list(p)
  <2>1. TypeOK'
    BY <1>1 DEF TypeOK, list
  <2> QED
    BY <1>1, <2>1 DEF TypeOK, list, IdValid, Stages, HoldsNode, Uses
<1>2. CASE create(p)
  <2>1. TypeOK'
    BY <1>2 DEF TypeOK, create
  <2>2. \A q \in Procs : \A i \in Ids : node[i] = q => node'[i] = q
    BY <1>2, NoneAssumption DEF TypeOK, create, Creates
  <2>3. testedId[p] \in Ids /\ node'[testedId[p]] = p /\ main'[p] = "created"
    BY <1>2 DEF TypeOK, create
  <2>4. main[p] = "testing" /\ \A q \in Procs \ {p} : main'[q] = main[q]
    BY <1>2 DEF TypeOK, create
  <2> QED
    BY <1>2, <2>1, <2>2, <2>3, <2>4 DEF create, IdValid, Stages, HoldsNode, Uses
<1>3. CASE skip(p)
  <2>0. testedId[p] + 1 \in 1 .. MaxId + 1
    BY <1>3, MaxIdAssumption DEF TypeOK, skip, Ids
  <2>1. TypeOK'
    BY <1>3, <2>0 DEF TypeOK, skip
  <2>2. \A q \in Procs : \A i \in Ids : node[i] = q => node'[i] = q
    BY <1>3, NoneAssumption DEF TypeOK, skip, Creates
  <2>3. ~Uses(p) /\ ~Uses(p)' /\ \A q \in Procs \ {p} : testedId'[q] = testedId[q]
    BY <1>3 DEF TypeOK, skip, Uses
  <2> QED
    BY <1>3, <2>1, <2>2, <2>3 DEF skip, IdValid, Stages, HoldsNode, Uses
<1>4. CASE register(p)
  <2>1. TypeOK'
    BY <1>4 DEF TypeOK, register
  <2> QED
    BY <1>4, <2>1 DEF TypeOK, register, IdValid, Stages, HoldsNode, Uses
<1> QED
  BY <1>1, <1>2, <1>3, <1>4

\* The end of a session and the recovery.
LEMMA SessionStep ==
  ASSUME IInv, NEW p \in Procs,
         expire(p) \/ recoverySession(p) \/ reconnect(p) \/ recoveryID(p)
  PROVE  IInv'
<1> USE DEF IInv
<1>1. CASE expire(p)
  <2>1. TypeOK'
    BY <1>1, WithoutNodes, MaxExpiryAssumption DEF TypeOK, expire
  <2>2. session'[p] = "expired" /\ \A q \in Procs \ {p} : session'[q] = session[q]
    BY <1>1 DEF TypeOK, expire
  <2> QED
    BY <1>1, <2>1, <2>2, WithoutNodes DEF expire, IdValid, Stages, HoldsNode, Uses
<1>2. CASE recoverySession(p)
  <2>1. TypeOK'
    BY <1>2 DEF TypeOK, recoverySession, AfterReconnect
  <2>2. /\ session'[p] = AfterReconnect(p)
        /\ \A q \in Procs \ {p} : session'[q] = session[q] /\ late'[q] = late[q]
    BY <1>2 DEF TypeOK, recoverySession
  <2>3. /\ main[p] = "assigned" => session'[p] = "recovering" /\ ~late'[p]
        /\ main[p] # "assigned" => session'[p] = "live"
        /\ main[p] = "created" => late'[p]
        /\ main[p] # "created" => ~late'[p]
    BY <1>2, <2>2, ZenonT(60) DEF TypeOK, recoverySession, AfterReconnect
  <2> QED
    BY <1>2, <2>1, <2>2, <2>3 DEF recoverySession, IdValid, Stages, HoldsNode, Uses
<1>3. CASE reconnect(p)
  <2>1. TypeOK'
    BY <1>3 DEF TypeOK, reconnect
  <2> QED
    BY <1>3, <2>1 DEF TypeOK, reconnect, IdValid, Stages, HoldsNode, Uses
<1>4. CASE recoveryID(p)
  <2>1. testedId[p] \in Ids
    BY <1>4 DEF recoveryID, IdValid, Stages, Uses
  <2>2. TypeOK'
    BY <1>4, <2>1 DEF TypeOK, recoveryID
  <2> QED
    BY <1>4, <2>1, <2>2, NoneAssumption
    DEF TypeOK, recoveryID, Creates, IdValid, Stages, HoldsNode, Uses
<1> QED
  BY <1>1, <1>2, <1>3, <1>4

\* Every step keeps the invariant.
LEMMA NextInv ==
  ASSUME IInv, [Next]_vars
  PROVE  IInv'
<1>1. CASE UNCHANGED vars
  BY <1>1 DEF vars, IInv, TypeOK, IdValid, Stages, HoldsNode, Uses
<1>2. CASE Next
  <2>1. PICK p \in Procs :
          \/ list(p) \/ create(p) \/ skip(p) \/ fail(p) \/ register(p)
          \/ expire(p) \/ recoverySession(p) \/ reconnect(p) \/ recoveryID(p)
          \/ recoveryFails(p) \/ connectFails(p) \/ crash(p)
    BY <1>2 DEF Next
  <2>2. CASE fail(p) \/ recoveryFails(p) \/ connectFails(p) \/ crash(p)
    BY <2>2, DownStep DEF fail, recoveryFails, GiveUp, connectFails, crash
  <2> QED
    BY <2>1, <2>2, AssignStep, SessionStep
<1> QED
  BY <1>1, <1>2

-----------------------------------------------------------------------------
(* The theorems *)

\* The inductive invariant holds in every reachable state.
THEOREM InvariantHolds == Spec => []IInv
<1>1. Init => IInv
  BY InitInv
<1>2. IInv /\ [Next]_vars => IInv'
  BY NextInv
<1> QED
  BY <1>1, <1>2, PTL DEF Spec

\* Every variable keeps its type.
THEOREM TypeCorrect == Spec => []TypeOK
<1>1. IInv => TypeOK
  BY DEF IInv
<1> QED
  BY <1>1, InvariantHolds, PTL

\* Two processes share an id only while the session of one of them is expired
\* or being recovered, or was replaced before its id was registered.
THEOREM IdsShared == Spec => []SharedOnlyWhileExpired
<1>1. IInv => SharedOnlyWhileExpired
  BY DEF IInv, SharedOnlyWhileExpired, Conflict, HoldsNode, TypeOK
<1> QED
  BY <1>1, InvariantHolds, PTL

-----------------------------------------------------------------------------
(* The lock *)

\* The nodes of ZooKeeper have numbers of their own, below the next one, and the
\* variables of the processes are functions.
Nodes ==
  /\ lseq \in Nat
  /\ lnodes \subseteq [seq : Nat, owner : LockProcs]
  /\ \A n \in lnodes : n.seq < lseq
  /\ \A m, n \in lnodes : m.seq = n.seq => m = n

Processes ==
  /\ lnode \in [LockProcs -> Nat]
  /\ locked \in [LockProcs -> BOOLEAN]
  /\ llost \in [LockProcs -> BOOLEAN]
  /\ lmain \in [LockProcs -> {"idle", "create", "list", "watch", "wait", "blocked", "locked",
                              "registered", "lost", "down"}]
  /\ lsession \in [LockProcs -> {"live", "expired", "check", "create", "list", "dying"}]

\* locked_ is set only after getLock() has ended, and is reset while recoveryLock()
\* looks for a new node, which it does only for a lock in locks_.
Holding(p) ==
  /\ locked[p] => lmain[p] \in {"locked", "registered"}
  /\ locked[p] => lsession[p] \notin {"create", "list"}
  /\ lsession[p] \in {"check", "create", "list"} => lmain[p] = "registered"

\* The inductive invariant: who believes to have the lock has the first node.
LockInv ==
  /\ Nodes /\ Processes
  /\ \A p \in LockProcs : Holding(p)
  /\ \A p \in LockProcs : Believes(p) => IsFirst(p)

-----------------------------------------------------------------------------

\* Only one process can have the first node (getSelfPosition()).
LEMMA FirstIsOne ==
  ASSUME Nodes, Processes, NEW p \in LockProcs, NEW q \in LockProcs, IsFirst(p), IsFirst(q)
  PROVE  p = q
<1>1. Own(p) \in lnodes /\ Own(q) \in lnodes
  BY DEF IsFirst
<1>2. lnode[p] <= lnode[q] /\ lnode[q] <= lnode[p]
  BY <1>1 DEF IsFirst, Own
<1>3. Own(p).seq = Own(q).seq
  BY <1>2 DEF Processes, Own
<1>4. Own(p) = Own(q)
  BY <1>1, <1>3 DEF Nodes
<1> QED
  BY <1>4 DEF Own

\* When nodes only go away, a first node that stays remains the first.
LEMMA NodesGo ==
  ASSUME Nodes, lnodes' \subseteq lnodes, lseq' = lseq
  PROVE  /\ Nodes'
         /\ \A q \in LockProcs :
              IsFirst(q) /\ lnode'[q] = lnode[q] /\ Own(q) \in lnodes' => IsFirst(q)'
<1>1. Nodes'
  BY DEF Nodes
<1>2. ASSUME NEW q \in LockProcs, IsFirst(q), lnode'[q] = lnode[q], Own(q) \in lnodes'
      PROVE  IsFirst(q)'
  BY <1>2 DEF IsFirst, Own
<1> QED
  BY <1>1, <1>2

\* A new node is the last: the first one of another process remains the first
\* (createLockNode()).
LEMMA NodeComes ==
  ASSUME Nodes, Processes, NEW p \in LockProcs, Created(p)
  PROVE  /\ Nodes'
         /\ lnode' \in [LockProcs -> Nat]
         /\ \A q \in LockProcs : q # p /\ IsFirst(q) => IsFirst(q)'
<1> DEFINE new == [seq |-> lseq, owner |-> p]
<1>1. lnodes' = lnodes \cup {new} /\ lseq' = lseq + 1
  BY DEF Created
<1>2. new \in [seq : Nat, owner : LockProcs] /\ new.seq = lseq
  BY DEF Nodes
<1>3. Nodes'
  <2>1. lseq' \in Nat /\ lnodes' \subseteq [seq : Nat, owner : LockProcs]
    BY <1>1, <1>2 DEF Nodes
  <2>2. \A n \in lnodes' : n.seq < lseq'
    BY <1>1, <1>2 DEF Nodes
  <2>3. \A m, n \in lnodes' : m.seq = n.seq => m = n
    BY <1>1, <1>2 DEF Nodes
  <2> QED
    BY <2>1, <2>2, <2>3 DEF Nodes
<1>4. lnode' \in [LockProcs -> Nat]
  BY DEF Created, Nodes, Processes
<1>5. ASSUME NEW q \in LockProcs, q # p, IsFirst(q)
      PROVE  IsFirst(q)'
  <2>1. lnode'[q] = lnode[q] /\ lnode[q] \in Nat
    BY <1>5 DEF Created, Processes
  <2>2. Own(q) \in lnodes /\ Own(q).seq = lnode[q]
    BY <1>5 DEF IsFirst, Own
  <2>3. lnode[q] < lseq
    BY <2>2 DEF Nodes
  <2>4. \A n \in lnodes' : lnode[q] <= n.seq
    BY <1>1, <1>2, <1>5, <2>1, <2>3 DEF IsFirst, Nodes
  <2> QED
    BY <1>1, <2>1, <2>2, <2>4 DEF IsFirst, Own
<1> QED
  BY <1>3, <1>4, <1>5

-----------------------------------------------------------------------------

\* The end of a process keeps the invariant (LOG(FATAL), assert(), a crash).
LEMMA EndKeepsInv ==
  ASSUME LockInv, NEW p \in LockProcs, EndProcess(p)
  PROVE  LockInv'
<1> USE DEF LockInv
<1>1. Processes'
  BY DEF Processes, EndProcess
<1>2. lnodes' \subseteq lnodes /\ lseq' = lseq /\ lnode' = lnode
  BY DEF EndProcess, WithoutOwn
<1>3. Nodes'
  BY <1>2, NodesGo
<1>4. ASSUME NEW q \in LockProcs PROVE Holding(q)'
  BY DEF EndProcess, Processes, Holding
<1>5. ASSUME NEW q \in LockProcs, Believes(q)' PROVE IsFirst(q)'
  <2>1. q # p /\ Believes(q)
    BY <1>5 DEF Believes, EndProcess, Processes
  <2>2. IsFirst(q)
    BY <2>1
  <2>3. Own(q) \in lnodes'
    BY <2>1, <2>2 DEF EndProcess, WithoutOwn, IsFirst, Own
  <2> QED
    BY <1>2, <2>2, <2>3, NodesGo
<1> QED
  BY <1>1, <1>3, <1>4, <1>5

\* So does a step that leaves the nodes and makes nobody believe.
LEMMA QuietKeepsInv ==
  ASSUME LockInv, Processes', lnodes' = lnodes, lseq' = lseq, lnode' = lnode,
         \A q \in LockProcs : Holding(q)',
         \A q \in LockProcs : Believes(q)' => Believes(q) \/ IsFirst(q)
  PROVE  LockInv'
<1>1. Nodes'
  BY NodesGo DEF LockInv
<1>2. \A q \in LockProcs : IsFirst(q) => IsFirst(q)'
  BY DEF IsFirst, Own
<1> QED
  BY <1>1, <1>2 DEF LockInv

\* Every step of every process keeps the invariant.
LEMMA StepKeepsInv ==
  ASSUME LockInv, NEW p \in LockProcs, LockStep(p)
  PROVE  LockInv'
<1> USE DEF LockInv
<1>1. CASE createLockNode(p)
  <2>1. Nodes' /\ lnode' \in [LockProcs -> Nat]
    BY <1>1, NodeComes DEF createLockNode
  <2>2. Processes'
    BY <1>1, <2>1, ZenonT(60) DEF createLockNode, Goes, Processes
  <2>3. \A q \in LockProcs : Holding(q)'
    BY <1>1 DEF createLockNode, Goes, Processes, Holding
  <2>4. ASSUME NEW q \in LockProcs, Believes(q)' PROVE IsFirst(q)'
    <3>1. q # p /\ Believes(q)
      BY <1>1, <2>4 DEF createLockNode, Processes, Believes, Holding
    <3> QED
      BY <1>1, <3>1, NodeComes DEF createLockNode
  <2> QED
    BY <2>1, <2>2, <2>3, <2>4
<1>2. CASE getLockNodes(p)
  <2>1. Processes' /\ lnodes' = lnodes /\ lseq' = lseq /\ lnode' = lnode
    BY <1>2, ZenonT(60) DEF getLockNodes, Goes, Processes
  <2>2. \A q \in LockProcs : Holding(q)'
    BY <1>2 DEF getLockNodes, Goes, Processes, Holding
  <2>3. \A q \in LockProcs : Believes(q)' => Believes(q) \/ IsFirst(q)
    BY <1>2 DEF getLockNodes, Goes, Processes, Believes
  <2> QED
    BY <2>1, <2>2, <2>3, QuietKeepsInv
<1>3. CASE watchPredecessor(p)
  <2>1. Processes' /\ lnodes' = lnodes /\ lseq' = lseq /\ lnode' = lnode
    BY <1>3 DEF watchPredecessor, Goes, Processes
  <2>2. \A q \in LockProcs : Holding(q)'
    BY <1>3 DEF watchPredecessor, Goes, Processes, Holding
  <2>3. \A q \in LockProcs : Believes(q)' => Believes(q) \/ IsFirst(q)
    BY <1>3 DEF watchPredecessor, Goes, Processes, Believes
  <2> QED
    BY <2>1, <2>2, <2>3, QuietKeepsInv
<1>4. CASE block(p)
  <2>1. Processes' /\ lnodes' = lnodes /\ lseq' = lseq /\ lnode' = lnode
    BY <1>4 DEF block, Goes, Processes
  <2>2. \A q \in LockProcs : Holding(q)'
    BY <1>4 DEF block, Goes, Processes, Holding
  <2>3. \A q \in LockProcs : Believes(q)' => Believes(q) \/ IsFirst(q)
    BY <1>4 DEF block, Goes, Processes, Believes
  <2> QED
    BY <2>1, <2>2, <2>3, QuietKeepsInv
<1>5. CASE getLockFails(p)
  BY <1>5, EndKeepsInv DEF getLockFails
<1>6. CASE registerLock(p)
  <2>1. Processes' /\ lnodes' = lnodes /\ lseq' = lseq /\ lnode' = lnode
    BY <1>6 DEF registerLock, Goes, Processes
  <2>2. \A q \in LockProcs : Holding(q)'
    BY <1>6 DEF registerLock, Goes, Processes, Holding
  <2>3. \A q \in LockProcs : Believes(q)' => Believes(q) \/ IsFirst(q)
    BY <1>6 DEF registerLock, Goes, Processes, Believes
  <2> QED
    BY <2>1, <2>2, <2>3, QuietKeepsInv
<1>7. CASE getLockWatcher(p)
  <2>1. Processes' /\ lnodes' = lnodes /\ lseq' = lseq /\ lnode' = lnode
    BY <1>7 DEF getLockWatcher, Goes, Processes, Awoken
  <2>2. \A q \in LockProcs : Holding(q)'
    BY <1>7 DEF getLockWatcher, Goes, Processes, Holding, Awoken
  <2>3. \A q \in LockProcs : Believes(q)' => Believes(q) \/ IsFirst(q)
    BY <1>7 DEF getLockWatcher, Goes, Processes, Believes, Awoken
  <2> QED
    BY <2>1, <2>2, <2>3, QuietKeepsInv
<1>8. CASE recoverySessionLock(p)
  <2>1. Processes' /\ lnodes' = lnodes /\ lseq' = lseq /\ lnode' = lnode
    BY <1>8 DEF recoverySessionLock, Goes, Processes, WokenBySession
  <2>2. \A q \in LockProcs : Holding(q)'
    BY <1>8 DEF recoverySessionLock, Goes, Processes, Holding, WokenBySession
  <2>3. \A q \in LockProcs : Believes(q)' => Believes(q) \/ IsFirst(q)
    BY <1>8 DEF recoverySessionLock, Goes, Processes, Believes, WokenBySession
  <2> QED
    BY <2>1, <2>2, <2>3, QuietKeepsInv
<1>9. CASE recoveryCheck(p)
  <2>1. Processes' /\ lnodes' = lnodes /\ lseq' = lseq /\ lnode' = lnode
    BY <1>9, ZenonT(60) DEF recoveryCheck, Goes, Processes
  <2>2. \A q \in LockProcs : Holding(q)'
    BY <1>9 DEF recoveryCheck, Goes, Processes, Holding
  <2>3. \A q \in LockProcs : Believes(q)' => Believes(q) \/ IsFirst(q)
    BY <1>9 DEF recoveryCheck, Goes, Processes, Believes
  <2> QED
    BY <2>1, <2>2, <2>3, QuietKeepsInv
<1>10. CASE recoveryCreate(p)
  <2>1. Nodes' /\ lnode' \in [LockProcs -> Nat]
    BY <1>10, NodeComes DEF recoveryCreate
  <2>2. Processes'
    BY <1>10, <2>1, ZenonT(60) DEF recoveryCreate, Goes, Processes
  <2>3. \A q \in LockProcs : Holding(q)'
    BY <1>10 DEF recoveryCreate, Goes, Processes, Holding
  <2>4. ASSUME NEW q \in LockProcs, Believes(q)' PROVE IsFirst(q)'
    <3>1. q # p /\ Believes(q)
      BY <1>10, <2>4 DEF recoveryCreate, Processes, Believes, Holding
    <3> QED
      BY <1>10, <3>1, NodeComes DEF recoveryCreate
  <2> QED
    BY <2>1, <2>2, <2>3, <2>4
<1>11. CASE recoveryList(p)
  <2>1. CASE IsFirst(p)
    <3>1. Processes' /\ lnodes' = lnodes /\ lseq' = lseq /\ lnode' = lnode
      BY <1>11, <2>1, ZenonT(60) DEF recoveryList, Processes
    <3>2. \A q \in LockProcs : Holding(q)'
      BY <1>11, <2>1 DEF recoveryList, Processes, Holding
    <3>3. \A q \in LockProcs : Believes(q)' => Believes(q) \/ IsFirst(q)
      BY <1>11, <2>1 DEF recoveryList, Processes, Believes
    <3> QED
      BY <3>1, <3>2, <3>3, QuietKeepsInv
  <2>2. CASE ~IsFirst(p) /\ ~EndProcess(p)
    <3>1. Processes' /\ lnodes' = lnodes \ {Own(p)} /\ lseq' = lseq /\ lnode' = lnode
      BY <1>11, <2>2 DEF recoveryList, Goes, Processes
    <3>2. \A q \in LockProcs : Holding(q)'
      BY <1>11, <2>2 DEF recoveryList, Goes, Processes, Holding
    <3>3. ASSUME NEW q \in LockProcs, Believes(q)' PROVE IsFirst(q)'
      <4>1. q # p /\ IsFirst(q)
        BY <1>11, <2>2, <3>3 DEF recoveryList, Processes, Believes, Holding
      <4>2. Own(q) \in lnodes'
        BY <3>1, <4>1 DEF IsFirst, Own
      <4> QED
        BY <3>1, <4>1, <4>2, NodesGo
    <3>4. Nodes'
      BY <3>1, NodesGo
    <3> QED
      BY <3>1, <3>2, <3>3, <3>4
  <2>3. CASE EndProcess(p)
    BY <2>3, EndKeepsInv
  <2> QED
    BY <2>1, <2>2, <2>3
<1>12. CASE recoveryLockFails(p)
  BY <1>12, EndKeepsInv DEF recoveryLockFails
<1>13. CASE expireSession(p)
  <2>1. Processes' /\ lnodes' \subseteq lnodes /\ lseq' = lseq /\ lnode' = lnode
    BY <1>13 DEF expireSession, WithoutOwn, Processes
  <2>2. \A q \in LockProcs : Holding(q)'
    BY <1>13 DEF expireSession, Processes, Holding
  <2>3. ASSUME NEW q \in LockProcs, Believes(q)' PROVE IsFirst(q)'
    <3>1. q # p /\ IsFirst(q)
      BY <1>13, <2>3 DEF expireSession, Processes, Believes
    <3>2. Own(q) \in lnodes'
      BY <1>13, <3>1 DEF expireSession, WithoutOwn, IsFirst, Own
    <3> QED
      BY <2>1, <3>1, <3>2, NodesGo
  <2>4. Nodes'
    BY <2>1, NodesGo
  <2> QED
    BY <2>1, <2>2, <2>3, <2>4
<1>14. CASE reconnectLock(p)
  <2>1. Processes' /\ lnodes' = lnodes /\ lseq' = lseq /\ lnode' = lnode
    BY <1>14 DEF reconnectLock, Goes, Processes, WokenBySession
  <2>2. \A q \in LockProcs : Holding(q)'
    BY <1>14 DEF reconnectLock, Goes, Processes, Holding, WokenBySession
  <2>3. \A q \in LockProcs : Believes(q)' => Believes(q) \/ IsFirst(q)
    BY <1>14 DEF reconnectLock, Goes, Processes, Believes, WokenBySession
  <2> QED
    BY <2>1, <2>2, <2>3, QuietKeepsInv
<1>15. CASE crashLocker(p)
  BY <1>15, EndKeepsInv DEF crashLocker
<1>16. CASE start(p)
  <2>1. Processes' /\ lnodes' = lnodes /\ lseq' = lseq /\ lnode' = lnode
    BY <1>16 DEF start, Goes, Processes
  <2>2. \A q \in LockProcs : Holding(q)'
    BY <1>16 DEF start, Goes, Processes, Holding
  <2>3. \A q \in LockProcs : Believes(q)' => Believes(q) \/ IsFirst(q)
    BY <1>16 DEF start, Goes, Processes, Believes
  <2> QED
    BY <2>1, <2>2, <2>3, QuietKeepsInv
<1> QED
  BY <1>1, <1>2, <1>3, <1>4, <1>5, <1>6, <1>7, <1>8, <1>9, <1>10, <1>11, <1>12, <1>13, <1>14, <1>15, <1>16
     DEF LockStep, GetLockStep, EventStep

-----------------------------------------------------------------------------

\* The inductive invariant holds.
THEOREM LockInvariant == LockSpec => []LockInv
<1>1. LockInit(lconf) => LockInv
  BY DEF LockInit, LockInv, Nodes, Processes, Holding, Believes
<1>2. LockInv /\ [LockNext]_lockVars => LockInv'
  <2>1. CASE UNCHANGED lockVars
    BY <2>1 DEF lockVars, procVars, LockInv, Nodes, Processes, Holding, Believes, IsFirst, Own
  <2>2. CASE LockNext
    BY <2>2, StepKeepsInv DEF LockNext
  <2> QED
    BY <2>1, <2>2
<1> QED
  BY <1>1, <1>2, PTL DEF LockSpec

\* For any set of processes, two of them believe that they have the lock only while
\* one has lost its session and has not seen to its lock since (getLock(),
\* recoveryLock()).
THEOREM LockIsExclusive == LockSpec => []LockExclusive
<1>1. LockInv => LockExclusive
  BY FirstIsOne DEF LockInv, LockExclusive
<1> QED
  BY <1>1, LockInvariant, PTL
=============================================================================
