---------------------------- MODULE ZookeeperLock ----------------------------
(***************************************************************************)
(* The distributed lock of Zookeeper.cc.  A process enters a node with the *)
(* next sequence number below the path of the lock, and has the lock when  *)
(* its node is the first; otherwise it waits for the node before its own   *)
(* to go away.  Nodes go with the session of their process.  A process     *)
(* that replaces its session looks after the lock that it had.             *)
(*                                                                         *)
(* main: "create" -> "list" -> "watch" -> "wait" -> "blocked" -> "list",   *)
(* or "list" -> "locked" (getLock() ends) -> "registered" (in locks_).     *)
(***************************************************************************)
EXTENDS Integers

CONSTANT LockProcs

VARIABLES
  lconf,     \* who starts, early, callback; bounds: expiries, reconnects, misses,
             \* deaths, starts
  lnodes,    \* of ZooKeeper: the nodes, with their sequence and owner
  lseq,      \* of ZooKeeper: the next sequence number
  lmain,     \* where the thread is that calls getLock()
  lnode,     \* nodePathWithSeq_
  locked,    \* locked_
  lwatch,    \* the node that is watched, 0 for none
  lsession,  \* "live", "expired" (unknown to the process), a step of recoveryLock()
             \* ("check", "create", "list"), or "dying" (expired during these)
  llost      \* the session has ended, and the process has not seen to its node

procVars == <<lmain, lnode, locked, lwatch, lsession, llost>>
lockVars == <<lconf, lnodes, lseq, procVars>>

Spends(what) == lconf[what] > 0 /\ lconf' = [lconf EXCEPT ![what] = @ - 1]

WithoutOwn(p) == {n \in lnodes : n.owner # p}
Own(p) == [seq |-> lnode[p], owner |-> p]

\* getSelfPosition() = 0 in the sorted list of nodes
IsFirst(p) == Own(p) \in lnodes /\ \A n \in lnodes : lnode[p] <= n.seq

\* A process ends with LOG(FATAL), a failed assert(), or a ZookeeperException that
\* its caller does not survive; its session and its nodes end with it.
EndProcess(p) ==
  /\ lnodes' = WithoutOwn(p)
  /\ lmain' = [lmain EXCEPT ![p] = "down"]
  /\ locked' = [locked EXCEPT ![p] = FALSE]
  /\ lwatch' = [lwatch EXCEPT ![p] = 0]
  /\ lsession' = [lsession EXCEPT ![p] = "live"]
  /\ llost' = [llost EXCEPT ![p] = FALSE]
  /\ UNCHANGED <<lseq, lnode>>

Goes(p, pc) == lmain' = [lmain EXCEPT ![p] = pc]
Live(p) == lsession[p] \notin {"expired", "dying"}

-----------------------------------------------------------------------------
(* getLock() *)

\* The node of p, in ZooKeeper and in the process
Created(p) ==
  /\ lnodes' = lnodes \cup {[seq |-> lseq, owner |-> p]}
  /\ lnode' = [lnode EXCEPT ![p] = lseq]
  /\ lseq' = lseq + 1

createLockNode(p) ==
  /\ lmain[p] = "create" /\ Live(p)
  /\ Created(p)
  /\ Goes(p, "list")
  /\ llost' = [llost EXCEPT ![p] = FALSE]
  /\ UNCHANGED <<lconf, locked, lwatch, lsession>>

\* The mutant waits for its own node.
PredecessorSelf(p) == lnode[p]

Predecessor(p) ==
  CHOOSE s \in {n.seq : n \in lnodes} :
    s < lnode[p] /\ \A n \in lnodes : n.seq < lnode[p] => n.seq <= s

\* getLockNodes(): the process has the lock, or finds whom to wait for.
getLockNodes(p) ==
  /\ lmain[p] = "list" /\ Live(p) /\ Own(p) \in lnodes
  /\ IF IsFirst(p)
     THEN Goes(p, "locked") /\ locked' = [locked EXCEPT ![p] = TRUE] /\ UNCHANGED lwatch
     ELSE Goes(p, "watch") /\ lwatch' = [lwatch EXCEPT ![p] = Predecessor(p)] /\ UNCHANGED locked
  /\ UNCHANGED <<lconf, lnodes, lseq, lnode, lsession, llost>>

Exists(s) == \E n \in lnodes : n.seq = s

\* watchNode() of a node that is gone is an exception, although it is its going
\* away that the process waits for.
watchPredecessor(p) ==
  /\ lmain[p] = "watch" /\ Live(p) /\ Exists(lwatch[p])
  /\ Goes(p, "wait")
  /\ UNCHANGED <<lconf, lnodes, lseq, lnode, locked, lwatch, lsession, llost>>

\* pthread_mutex_lock(), twice
block(p) ==
  /\ lmain[p] = "wait"
  /\ Goes(p, "blocked")
  /\ UNCHANGED <<lconf, lnodes, lseq, lnode, locked, lwatch, lsession, llost>>

\* A call fails: the session has ended, or the node that is looked for is not there.
getLockFails(p) ==
  /\ \/ lmain[p] \in {"create", "list", "watch"} /\ ~Live(p)
     \/ lmain[p] = "list" /\ Own(p) \notin lnodes
     \/ lmain[p] = "watch" /\ ~Exists(lwatch[p])
  /\ EndProcess(p)
  /\ UNCHANGED lconf

\* The mutant takes the lock when it wakes.
AwokenHolding(p) == Goes(p, "locked") /\ locked' = [locked EXCEPT ![p] = TRUE]

Awoken(p) == Goes(p, "list") /\ UNCHANGED locked

\* An unlock before the thread has locked is lost.
CanBeTold(p) == lmain[p] = "blocked" \/ (lconf.early /\ lmain[p] = "wait")

\* getLockWatcher(), when the node that was watched is gone
getLockWatcher(p) ==
  /\ CanBeTold(p) /\ Live(p) /\ lwatch[p] # 0 /\ ~Exists(lwatch[p])
  /\ lwatch' = [lwatch EXCEPT ![p] = 0]
  /\ IF lmain[p] = "blocked" THEN Awoken(p) ELSE UNCHANGED <<lmain, locked>>
  /\ UNCHANGED <<lconf, lnodes, lseq, lnode, lsession, llost>>

\* locks_.push_back(lock)
registerLock(p) ==
  /\ lmain[p] = "locked"
  /\ Goes(p, "registered")
  /\ UNCHANGED <<lconf, lnodes, lseq, lnode, locked, lwatch, lsession, llost>>

-----------------------------------------------------------------------------
(* Sessions *)

expireSession(p) ==
  /\ lmain[p] \notin {"idle", "down"} /\ Live(p)
  /\ Spends("expiries")
  /\ lnodes' = WithoutOwn(p)
  /\ lsession' = [lsession EXCEPT ![p] = IF @ = "live" THEN "expired" ELSE "dying"]
  /\ llost' = [llost EXCEPT ![p] = TRUE]
  /\ UNCHANGED <<lseq, lmain, lnode, locked, lwatch>>

\* Every watcher is also called with an event of the session.
ToldOfSession(p) == lmain[p] # "wait" \/ lconf.early
WokenBySession(p) == IF lmain[p] = "blocked" THEN Goes(p, "list") ELSE UNCHANGED lmain

recoverySessionLock(p) ==
  /\ lsession[p] = "expired" /\ ToldOfSession(p)
  /\ lsession' = [lsession EXCEPT ![p] = IF lmain[p] = "registered" THEN "check" ELSE "live"]
  /\ lwatch' = [lwatch EXCEPT ![p] = 0]
  /\ WokenBySession(p)
  /\ UNCHANGED <<lconf, lnodes, lseq, lnode, locked, llost>>

\* The connection is lost and comes back with the same session.
reconnectLock(p) ==
  /\ lmain[p] \notin {"idle", "down"} /\ lsession[p] = "live" /\ ToldOfSession(p)
  /\ Spends("reconnects")
  /\ lsession' = [lsession EXCEPT ![p] =
       IF lmain[p] = "registered" THEN "check" ELSE "live"]
  /\ WokenBySession(p)
  /\ UNCHANGED <<lnodes, lseq, lnode, locked, lwatch, llost>>

\* recoveryLock(): is it still there?  Any exception of getValue() is taken for a
\* no, also with the node in its place.  A lock that was not yet in locks_ when its
\* session was replaced is not looked after until the next time.
recoveryCheck(p) ==
  /\ lsession[p] = "check"
  /\ \/ /\ ~locked[p] \/ Own(p) \in lnodes
        /\ lsession' = [lsession EXCEPT ![p] = "live"]
        /\ UNCHANGED <<lconf, locked, llost>>
     \/ /\ locked[p]
        /\ IF Own(p) \in lnodes THEN Spends("misses") ELSE UNCHANGED lconf
        /\ lsession' = [lsession EXCEPT ![p] = "create"]
        /\ locked' = [locked EXCEPT ![p] = FALSE]
        /\ llost' = [llost EXCEPT ![p] = FALSE]
  /\ UNCHANGED <<lnodes, lseq, lmain, lnode, lwatch>>

recoveryCreate(p) ==
  /\ lsession[p] = "create"
  /\ Created(p)
  /\ lsession' = [lsession EXCEPT ![p] = "list"]
  /\ UNCHANGED <<lconf, lmain, locked, lwatch, llost>>

\* "The first client will get the lock."  Another node is before it, perhaps the old
\* one of the process itself: the new node is deleted, and the process is told, or
\* ends: removeLock() is given a second owner of the lock, which deletes it before
\* the callback is looked at.
recoveryList(p) ==
  /\ lsession[p] = "list" /\ Own(p) \in lnodes
  /\ UNCHANGED lconf
  /\ \/ /\ IsFirst(p)
        /\ locked' = [locked EXCEPT ![p] = TRUE]
        /\ lsession' = [lsession EXCEPT ![p] = "live"]
        /\ UNCHANGED <<lnodes, lseq, lmain, lnode, lwatch, llost>>
     \/ /\ ~IsFirst(p) /\ lconf.callback
        /\ lnodes' = lnodes \ {Own(p)}
        /\ Goes(p, "lost")
        /\ lsession' = [lsession EXCEPT ![p] = "live"]
        /\ UNCHANGED <<lseq, lnode, locked, lwatch, llost>>
     \/ /\ ~IsFirst(p)
        /\ EndProcess(p)

\* A call of recoveryLock() fails: LOG(FATAL) in globalWatcher()
recoveryLockFails(p) ==
  /\ lsession[p] = "dying"
  /\ EndProcess(p)
  /\ UNCHANGED lconf

\* Also a connect() that fails.
crashLocker(p) ==
  /\ lmain[p] \notin {"idle", "down"}
  /\ Spends("deaths")
  /\ EndProcess(p)

start(p) ==
  /\ p \in lconf.who /\ lmain[p] \in {"idle", "down"}
  /\ Spends("starts")
  /\ Goes(p, "create")
  /\ UNCHANGED <<lnodes, lseq, lnode, locked, lwatch, lsession, llost>>

-----------------------------------------------------------------------------

LockInit(conf) ==
  /\ lconf = conf
  /\ lnodes = {} /\ lseq = 1
  /\ lmain = [p \in LockProcs |-> "idle"]
  /\ lnode = [p \in LockProcs |-> 0]
  /\ locked = [p \in LockProcs |-> FALSE]
  /\ lwatch = [p \in LockProcs |-> 0]
  /\ lsession = [p \in LockProcs |-> "live"]
  /\ llost = [p \in LockProcs |-> FALSE]

GetLockStep(p) ==
  \/ createLockNode(p) \/ getLockNodes(p) \/ watchPredecessor(p) \/ block(p)
  \/ getLockFails(p) \/ registerLock(p)

EventStep(p) ==
  \/ getLockWatcher(p) \/ recoverySessionLock(p) \/ recoveryCheck(p) \/ recoveryCreate(p)
  \/ recoveryList(p) \/ recoveryLockFails(p)

LockStep(p) ==
  GetLockStep(p) \/ EventStep(p) \/ expireSession(p) \/ reconnectLock(p) \/ crashLocker(p) \/ start(p)

LockNext == \E p \in LockProcs : LockStep(p)

LockSpec == LockInit(lconf) /\ [][LockNext]_lockVars

-----------------------------------------------------------------------------
(* Properties *)

\* Two processes believe that they have the lock only while one of them has lost
\* its session and has not seen to its lock since (getLock(), recoveryLock()).
Believes(p) == locked[p] /\ ~llost[p]
LockExclusive == \A p, q \in LockProcs : Believes(p) /\ Believes(q) => p = q

Waits(p) == lmain[p] = "blocked"
\* A process that was told that its lock is lost still has its old node.
Abandoned(p) == lmain[p] = "lost" /\ \E n \in lnodes : n.owner = p
NoneWaitsInVain ==
  (\E p \in LockProcs : Waits(p)) => \E p \in LockProcs : locked[p] \/ Abandoned(p)
=============================================================================
