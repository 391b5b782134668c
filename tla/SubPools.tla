------------------------------ MODULE SubPools ------------------------------
(***************************************************************************)
(* The sub-pools of a Bitcoin job maker: each has a coinbase text and a    *)
(* payout address of its own, which an operator changes in a node of       *)
(* ZooKeeper while the job maker runs.  Two threads take the node over:    *)
(* the one that ZooKeeper calls when a watched node changes ("event"), and *)
(* one that compares every 300 seconds what is there ("poll").  A third    *)
(* one makes the jobs.                                                     *)
(*                                                                         *)
(* The value of a node is of a kind: there is no node ("absent"), the node *)
(* is "empty", its JSON text does not parse ("broken"), it lacks a field   *)
(* or has no valid address ("invalid"), or it has ("ok") a coinbase text,  *)
(* a sequence, and an address.                                             *)
(***************************************************************************)
EXTENDS Integers, Sequences

VARIABLES
  spconf,   \* pools (as configured), paths (those with a node), values, maxLen; bounds
  spnodes,  \* of ZooKeeper: value, ack and watch of each node; events that were fired
  spools,   \* def()->subPool_
  spthread, \* the threads "event" and "poll"
  spjob     \* the coinbases of the sub-pools in the last job

poolVars == <<spconf, spnodes, spools, spthread, spjob>>

SubPoolIds == DOMAIN spconf.pools
Value(kind, text, address) == [kind |-> kind, info |-> text, payout |-> address]
NoValue(kind) == Value(kind, <<>>, "")
Readable(value) == value.kind = "ok"

\* "coinbase info truncated"
Truncated(v) ==
  [v EXCEPT !.info = SubSeq(@, 1, IF Len(@) > spconf.maxLen THEN spconf.maxLen ELSE Len(@))]

IdleThread == [pc |-> "idle", i |-> 0, old |-> NoValue("empty"),
               value |-> NoValue("empty"), seen |-> <<>>, init |-> FALSE]

\* A call of ZooKeeper that fails.
Fault == spconf.faults > 0 /\ spconf' = [spconf EXCEPT !.faults = @ - 1]

-----------------------------------------------------------------------------
(* ZooKeeper *)

\* A change of a node is told once to whom watches it.
Changed(nodes, i, value) ==
  [nodes EXCEPT !.value[i] = value, !.watch[i] = FALSE,
                !.fired = IF nodes.watch[i] THEN @ \cup {i} ELSE @]

\* The calls of Zookeeper that the job maker makes: each may also fail.
getValue(nodes, i) == nodes.value[i]
getValueW(nodes, i) == [nodes EXCEPT !.watch[i] = TRUE]   \* and its value
watchNode(nodes, i) == [nodes EXCEPT !.watch[i] = TRUE]   \* also one that does not exist
setAck(nodes, i, ack) == [nodes EXCEPT !.ack[i] = ack]
\* The node, and below it the one for the answers; of a sub-pool without a path it
\* is only the latter, "/ack".
createNode(nodes, i) ==
  IF i \in spconf.paths /\ nodes.value[i].kind = "absent"
  THEN Changed(nodes, i, NoValue("empty")) ELSE nodes
createNodesRecursively(nodes, i) == [createNode(nodes, i) EXCEPT !.ack[i].made = TRUE]

\* The operator sets the node of a sub-pool.
SetNode(i, value) ==
  /\ spconf.edits > 0
  /\ spconf' = [spconf EXCEPT !.edits = @ - 1]
  /\ spnodes' = Changed(spnodes, i, value)
  /\ UNCHANGED <<spools, spthread, spjob>>

\* The watches end with the session; no handler of the job maker sets them again.
ExpireSession ==
  /\ spconf.expiries > 0
  /\ spconf' = [spconf EXCEPT !.expiries = @ - 1]
  /\ spnodes' = [spnodes EXCEPT !.watch = [i \in SubPoolIds |-> FALSE], !.fired = {}]
  /\ UNCHANGED <<spools, spthread, spjob>>

-----------------------------------------------------------------------------
(* updateSubPoolAddr() *)

\* The next sub-pool of a round of the poll, or the end of the call
After(t, st) ==
  IF t = "event" \/ st.i = Len(spconf.pools) THEN IdleThread
  ELSE [st EXCEPT !.i = @ + 1, !.pc = IF st.init THEN "get" ELSE "check"]

Moves(t, st) == spthread' = [spthread EXCEPT ![t] = st]

\* The value is read with a watch, unless the call fails or there is no node; the
\* first round passes over a sub-pool that has no path.
ReadValue(t) ==
  LET st == spthread[t]
      value == getValue(spnodes, st.i)
  IN
  /\ st.pc = "get"
  /\ \/ /\ st.i \notin spconf.paths
        /\ Moves(t, After(t, st))
        /\ UNCHANGED <<spconf, spnodes>>
     \/ /\ st.i \in spconf.paths /\ value.kind # "absent"
        /\ Moves(t, [st EXCEPT !.pc = "apply", !.old = spools[st.i], !.value = value])
        /\ spnodes' = getValueW(spnodes, st.i)
        /\ UNCHANGED spconf
     \/ /\ st.i \in spconf.paths
        /\ IF value.kind = "absent" THEN UNCHANGED spconf ELSE Fault
        /\ Moves(t, [st EXCEPT !.pc = "watch"])
        /\ UNCHANGED spnodes
  /\ UNCHANGED <<spools, spjob>>

\* The value is examined, and replaces that of the sub-pool.
ApplyValue(t) ==
  LET st == spthread[t] IN
  /\ st.pc = "apply"
  /\ IF Readable(st.value)
     THEN /\ spools' = [spools EXCEPT ![st.i] = Truncated(st.value)]
          /\ Moves(t, [st EXCEPT !.pc = "ack"])
     ELSE /\ UNCHANGED spools
          /\ Moves(t, [st EXCEPT !.pc = IF st.value.kind = "broken" THEN "watch" ELSE "ack"])
  /\ UNCHANGED <<spconf, spnodes, spjob>>

\* sendResponse(), to a node of its own that only checkSubPool() creates; a failure
\* of the call makes the whole update a failure.
sendResponse(t) ==
  LET st == spthread[t]
      ok == Readable(st.value)
  IN /\ st.pc = "ack"
     /\ \/ /\ spnodes.ack[st.i].made
           /\ spnodes' = setAck(spnodes, st.i,
                [made |-> TRUE, success |-> ok, old |-> st.old, new |-> Truncated(st.value)])
           /\ Moves(t, IF ok THEN After(t, st) ELSE [st EXCEPT !.pc = "watch"])
           /\ UNCHANGED spconf
        \/ /\ IF spnodes.ack[st.i].made THEN Fault ELSE UNCHANGED spconf
           /\ Moves(t, [st EXCEPT !.pc = "watch"])
           /\ UNCHANGED spnodes
     /\ UNCHANGED <<spools, spjob>>

\* watchSubPoolAddr(), after an update that failed
watchSubPoolAddr(t) ==
  LET st == spthread[t] IN
  /\ st.pc = "watch"
  /\ \/ spnodes' = watchNode(spnodes, st.i) /\ UNCHANGED spconf
     \/ Fault /\ UNCHANGED spnodes
  /\ Moves(t, After(t, st))
  /\ UNCHANGED <<spools, spjob>>

\* handleSubPoolUpdateEvent()
handleSubPoolUpdateEvent ==
  /\ spthread["event"].pc = "idle"
  /\ \E i \in spnodes.fired :
       /\ spnodes' = [spnodes EXCEPT !.fired = @ \ {i}]
       /\ Moves("event", [IdleThread EXCEPT !.pc = "get", !.i = i])
  /\ UNCHANGED <<spconf, spools, spjob>>

-----------------------------------------------------------------------------
(* checkSubPoolAddr() *)

\* A round of the poll begins with a copy of the sub-pools.
PollWakes ==
  /\ spthread["poll"].pc = "idle"
  /\ Moves("poll", [IdleThread EXCEPT !.pc = "check", !.i = 1, !.seen = spools])
  /\ UNCHANGED <<spconf, spnodes, spools, spjob>>

\* The mutant compares the addresses only.
DiffersByAddress(v, pool) == v.payout # pool.payout

Differs(v, pool) == v.payout # pool.payout \/ v.info # pool.info

\* checkSubPool(): the nodes are created if there are none, which is told to whom
\* watches them.
checkSubPool ==
  LET st == spthread["poll"]
      created == createNodesRecursively(spnodes, st.i)
  IN /\ st.pc = "check"
     /\ \/ /\ spnodes' = created
           /\ Moves("poll", [st EXCEPT !.pc = "read"])
           /\ UNCHANGED spconf
        \/ /\ Fault
           /\ spnodes' \in {spnodes, createNode(spnodes, st.i), created}
           /\ Moves("poll", After("poll", st))
     /\ UNCHANGED <<spools, spjob>>

\* Its getValue(), which fails for an empty path.  A node with a bad value is left
\* alone, one without a value is to be watched.
checkValue ==
  LET st == spthread["poll"]
      value == getValue(spnodes, st.i)
  IN /\ st.pc = "read"
     /\ \/ /\ Moves("poll",
                IF value.kind = "empty" THEN [st EXCEPT !.pc = "rewatch"]
                ELSE IF Readable(value) /\ Differs(Truncated(value), st.seen[st.i])
                THEN [st EXCEPT !.pc = "get"] ELSE After("poll", st))
           /\ UNCHANGED spconf
        \/ Fault /\ Moves("poll", After("poll", st))
     /\ UNCHANGED <<spnodes, spools, spjob>>

\* Its watchNode(), whatever the node holds by then
watchEmpty ==
  LET st == spthread["poll"] IN
  /\ st.pc = "rewatch"
  /\ \/ spnodes' = watchNode(spnodes, st.i) /\ UNCHANGED spconf
     \/ Fault /\ UNCHANGED spnodes
  /\ Moves("poll", After("poll", st))
  /\ UNCHANGED <<spools, spjob>>

-----------------------------------------------------------------------------

\* makeStratumJob() holds subPoolLock_ while it reads all of the sub-pools.
MakeJob ==
  /\ spjob # spools
  /\ spjob' = spools
  /\ UNCHANGED <<spconf, spnodes, spools, spthread>>

\* The poll thread begins with an update of every sub-pool.
FirstRound ==
  [event |-> IdleThread,
   poll |-> [IdleThread EXCEPT !.pc = "get", !.i = 1, !.init = TRUE]]

RestartJobMaker ==
  /\ spconf.deaths > 0
  /\ spconf' = [spconf EXCEPT !.deaths = @ - 1]
  /\ spnodes' = [spnodes EXCEPT !.watch = [i \in SubPoolIds |-> FALSE], !.fired = {}]
  /\ spools' = spconf.pools
  /\ spthread' = FirstRound
  /\ UNCHANGED spjob

SubPoolInit(conf) ==
  /\ spconf = conf
  /\ spnodes = [value |-> [i \in DOMAIN conf.pools |-> NoValue("absent")],
                ack |-> [i \in DOMAIN conf.pools |-> [made |-> FALSE, success |-> FALSE,
                           old |-> NoValue("empty"), new |-> NoValue("empty")]],
                watch |-> [i \in DOMAIN conf.pools |-> FALSE], fired |-> {}]
  /\ spools = conf.pools
  /\ spthread = FirstRound
  /\ spjob = conf.pools

UpdateStep(t) == ReadValue(t) \/ ApplyValue(t) \/ sendResponse(t) \/ watchSubPoolAddr(t)
EventThread == handleSubPoolUpdateEvent \/ UpdateStep("event")
PollThread == PollWakes \/ checkSubPool \/ checkValue \/ watchEmpty \/ UpdateStep("poll")

SubPoolNext ==
  \/ EventThread \/ PollThread \/ MakeJob \/ ExpireSession \/ RestartJobMaker
  \/ \E i \in spconf.paths, value \in spconf.values : SetNode(i, value)

-----------------------------------------------------------------------------
\* The sub-pools in the jobs are those of ZooKeeper.
Pays(i) == Readable(spnodes.value[i]) => spjob[i] = Truncated(spnodes.value[i])
SubPoolsFollow == \A i \in spconf.paths : Pays(i)
=============================================================================
