---------------------------- MODULE MCZookeeper ----------------------------
(***************************************************************************)
(* Instances for TLC of the three users of ZooKeeper's nodes.  A behaviour *)
(* is one of the part "ids" (ZookeeperUniqId), "pools" (SubPools) or       *)
(* "locks" (ZookeeperLock), the others being at rest.                      *)
(*                                                                         *)
(* Three processes over two ids: ids are contended for, the pool fills up  *)
(* and lists are out of date.                                              *)
(***************************************************************************)
EXTENDS ZookeeperUniqId, ZookeeperLock, SubPools

CONSTANTS L1, L2  \* two of LockProcs

VARIABLE part  \* "ids", "pools" or "locks"

mcVars == <<part, vars, poolVars, lockVars>>

-----------------------------------------------------------------------------
(* Sub-pools *)

Coinbase(text, address) == Value("ok", text, address)
SubPoolsOf(pools) ==
  [pools |-> pools, paths |-> {1}, maxLen |-> 2, edits |-> 2, faults |-> 0, expiries |-> 0,
   deaths |-> 0, values |-> {Coinbase(<<1>>, "a"), Coinbase(<<2, 2, 2>>, "a")}]

SubPoolConfs == {
  [SubPoolsOf(<<Coinbase(<<1>>, "a")>>) EXCEPT !.expiries = 1],
  [SubPoolsOf(<<Coinbase(<<1>>, "a"), Coinbase(<<1>>, "b")>>) EXCEPT !.faults = 1, !.edits = 1],
  [SubPoolsOf(<<Coinbase(<<1>>, "b")>>) EXCEPT !.deaths = 1,
     !.values = {NoValue("broken"), NoValue("invalid"), Coinbase(<<1>>, "a")}],
  [SubPoolsOf(<<Coinbase(<<1>>, "b"), Coinbase(<<1>>, "a")>>) EXCEPT !.paths = {1, 2},
     !.edits = 1]}

-----------------------------------------------------------------------------
(* Locks *)

Locks(procs) ==
  [who |-> procs, early |-> FALSE, callback |-> TRUE, expiries |-> 0, reconnects |-> 0,
   misses |-> 0, deaths |-> 0, starts |-> 3]

LockConfs == {
  [Locks(LockProcs) EXCEPT !.deaths = 1],
  [Locks({L1, L2}) EXCEPT !.expiries = 2, !.reconnects = 1, !.callback = FALSE],
  [Locks({L1, L2}) EXCEPT !.reconnects = 1, !.misses = 1, !.expiries = 1],
  [Locks({L1, L2}) EXCEPT !.expiries = 1, !.deaths = 1, !.early = TRUE]}

-----------------------------------------------------------------------------

Pools0 == SubPoolInit(SubPoolsOf(<<Coinbase(<<1>>, "a")>>))
Locks0 == LockInit(Locks({}))

MCInit ==
  /\ Init
  /\ \/ part = "ids" /\ Pools0 /\ Locks0
     \/ part = "pools" /\ Locks0 /\ \E c \in SubPoolConfs : SubPoolInit(c)
     \/ part = "locks" /\ Pools0 /\ \E c \in LockConfs : LockInit(c)

MCNext ==
  /\ UNCHANGED part
  /\ \/ part = "ids" /\ Next /\ UNCHANGED <<poolVars, lockVars>>
     \/ part = "pools" /\ SubPoolNext /\ UNCHANGED <<vars, lockVars>>
     \/ part = "locks" /\ LockNext /\ UNCHANGED <<vars, poolVars>>

\* Each thread of a part goes on.
MCSpec ==
  /\ MCInit /\ [][MCNext]_mcVars
  /\ Fairness
  /\ WF_poolVars(part = "pools" /\ EventThread)
  /\ WF_poolVars(part = "pools" /\ PollThread)
  /\ WF_poolVars(part = "pools" /\ MakeJob)
  /\ \A p \in LockProcs : WF_lockVars(part = "locks" /\ GetLockStep(p))
  /\ \A p \in LockProcs : WF_lockVars(part = "locks" /\ EventStep(p))

-----------------------------------------------------------------------------
(* Properties of the parts, in the behaviours of that part *)

\* What an operator has written last into the node of a sub-pool is, cut to the
\* greatest length, what the jobs of that sub-pool pay at last: although the node
\* may come into being late, calls fail, watches are lost with their session, the
\* job maker dies, and its two threads may write what they read in the wrong order
\* (updateSubPoolAddr(), checkSubPoolAddr()).
SubPoolsFollowZookeeper == part = "pools" => <>[]SubPoolsFollow

\* No process waits for a lock that nobody has, unless an unlock was lost because
\* the node that it waited for went away before it had blocked (getLock(),
\* getLockWatcher()), or as long as a process that took its lock for lost, because
\* it could not read its node, keeps that node (recoveryLock()).
LockPassesOn ==
  part = "locks" /\ ~lconf.early => []<>NoneWaitsInVain
=============================================================================
