------------------------------ MODULE UserInfo ------------------------------
(***************************************************************************)
(* sserver: on which chain a user mines.  The chain is the value of a node *)
(* of ZooKeeper ("auto" for the chain that the management messages give),  *)
(* cached per user.  The cache is read by the event loop, when a miner     *)
(* authorizes, and changed by the threads that notice that the node has    *)
(* another value: the thread of ZooKeeper's events, the thread that        *)
(* compares the whole cache with ZooKeeper from time to time and the       *)
(* thread of the management messages.  Those hand the switch of the        *)
(* sessions to the event loop as a task.                                   *)
(*                                                                         *)
(* A user's name stands for the names that are normalized to it, and for   *)
(* the id that the list of users of a chain gives it.                      *)
(***************************************************************************)
EXTENDS Integers, Sequences, FiniteSets, Functions

CONSTANTS
  Users,     \* the names of users
  NoUser,    \* the empty name, an id that is not positive
  Reference  \* singleUserName_: whose chain all users follow, if so configured

ASSUME UsersAssumption == NoUser \notin Users

VARIABLES
  uconf,  \* chains (how many), auto (management.auto_switch_chain), single
          \* (users.single_user_chain), autoReg (users.enable_auto_reg), maxPending,
          \* coin, anonymous, known, serial, and what may happen: names, tries, ...
  zoo,    \* ZooKeeper: map (the nodes of the chains), watch (those watched), regs
          \* and regWatch (the nodes of the registrations), queue (its events)
  api,    \* the users of every chain, as its web service lists them
  info,   \* UserInfo: ids (nameIds_), chains (nameChains_), pending
  man,    \* Management: auto (currentAutoChainId_), singleAuto, singleChain, type,
          \* step
  call,   \* per thread, the call of handleSwitchChainEvent or getChainId it is in
  chk,    \* checkNameChains: left (the copy of the cache), single
  tasks   \* what the event loop has to run, in the order it was dispatched

userVars == <<uconf, zoo, api, info, man, call, chk, tasks>>

\* The value of a node: a chain, "auto", a name that is no chain's, no node.
AutoName == -1
NoChain == -2
NoNode == -3
Chains == 0 .. (uconf.chains - 1)
Threads == {"loop", "zk", "check"}
Idle == [pc |-> "idle", user |-> NoUser, from |-> 0, name |-> NoNode, to |-> 0,
         session |-> 0]

-----------------------------------------------------------------------------
(* Management *)

\* The server may follow the chain of one user.
AutoSwitchChainEnabled == uconf.single \/ uconf.auto

CurrentAutoChainIdOf(m) ==
  IF uconf.single /\ ~m.singleAuto THEN m.singleChain ELSE m.auto

CurrentAutoChainId == CurrentAutoChainIdOf(man)

\* The watch is set by the read, unless the node is missing.
GetValueW(z, node) ==
  IF z.map[node] = NoNode THEN z ELSE [z EXCEPT !.watch = @ \cup {node}]

-----------------------------------------------------------------------------
(* The cache *)

Cached(u) == u \in DOMAIN info.chains

SetChain(i, u, c, auto) ==
  [i EXCEPT !.chains = [v \in DOMAIN @ \cup {u} |->
                          IF v = u THEN [chain |-> c, auto |-> auto] ELSE @[v]]]

Uncached(i, u) ==
  [i EXCEPT !.chains = [v \in DOMAIN @ \ {u} |-> @[v]]]

\* The name of the chain as handleSwitchChainEvent and getChainId read it.
ZkGetChainW(z, u) == IF uconf.single THEN z ELSE GetValueW(z, u)
ZkGetChain(u) == IF uconf.single THEN AutoName ELSE zoo.map[u]

\* The chain that the name read stands for: none if it is no chain's name, or
\* if the chain does not know the user.  "auto" does not ask for the user.
Resolves(u, name) ==
  {c \in Chains : IF AutoSwitchChainEnabled /\ name = AutoName
                  THEN c = CurrentAutoChainId
                  ELSE c = name /\ u \in info.ids[c]}

CacheResolved(u, name, c) ==
  SetChain(info, u, c, AutoSwitchChainEnabled /\ name = AutoName)

\* The first of the chains that know the user.
FirstChain(u) ==
  {c \in Chains : /\ u \in info.ids[c]
                  /\ \A d \in Chains : d < c => u \notin info.ids[d]}

GetUserId(c, u) == u \in info.ids[c]

-----------------------------------------------------------------------------
(* handleSwitchChainEvent, on the thread of ZooKeeper or of the checks *)

\* Whether the configuration lets a handler run beside another one.
Alone(t) ==
  uconf.serial => /\ \A x \in {"zk", "check"} \ {t} : call[x] = Idle
                  /\ man.step = "idle"

\* The lookup in the cache: a user who is not in it has no miners here.
StartSwitch(t, u) ==
  [call EXCEPT ![t] = IF Cached(u)
                      THEN [Idle EXCEPT !.pc = "read", !.user = u,
                                        !.from = info.chains[u].chain]
                      ELSE Idle]

ReadChain(t) ==
  /\ call[t].pc = "read"
  /\ zoo' = ZkGetChainW(zoo, call[t].user)
  /\ call' = [call EXCEPT ![t].pc = "cache", ![t].name = ZkGetChain(call[t].user)]
  /\ UNCHANGED <<uconf, api, info, man, chk, tasks>>

CacheChain(t) ==
  /\ call[t].pc = "cache"
  /\ \E r \in {Resolves(call[t].user, call[t].name)} :
       \/ /\ r = {}
          /\ call' = [call EXCEPT ![t] = Idle]
          /\ UNCHANGED info
       \/ \E c \in r :
            /\ info' = CacheResolved(call[t].user, call[t].name, c)
            /\ call' = [call EXCEPT ![t].pc = "dispatch", ![t].to = c]
  /\ UNCHANGED <<uconf, zoo, api, man, chk, tasks>>

\* A mutant: a switch is taken for an empty one by the chain that is cached now.
DispatchSwitchByCache(t) ==
  /\ call[t].pc = "dispatch"
  /\ tasks' = IF /\ call[t].to # info.chains[call[t].user].chain
                 /\ GetUserId(call[t].to, call[t].user)
              THEN Append(tasks, [k |-> "switch", user |-> call[t].user,
                                  to |-> call[t].to])
              ELSE tasks
  /\ call' = [call EXCEPT ![t] = Idle]
  /\ UNCHANGED <<uconf, zoo, api, info, man, chk>>

\* Nothing is dispatched if the chain is the one read before, or does not know
\* the user.
DispatchSwitch(t) ==
  /\ call[t].pc = "dispatch"
  /\ tasks' = IF /\ call[t].to # call[t].from
                 /\ GetUserId(call[t].to, call[t].user)
              THEN Append(tasks, [k |-> "switch", user |-> call[t].user,
                                  to |-> call[t].to])
              ELSE tasks
  /\ call' = [call EXCEPT ![t] = Idle]
  /\ UNCHANGED <<uconf, zoo, api, info, man, chk>>

-----------------------------------------------------------------------------
(* autoSwitchChain, and the user that all the others follow *)

\* The cache of the users on "auto"; the sessions follow in the event loop.
AutoSwitchCaches(i, c) ==
  [i EXCEPT !.chains = [u \in DOMAIN @ |->
                          IF @[u].auto THEN [@[u] EXCEPT !.chain = c] ELSE @[u]]]

AutoTask(c) == [k |-> "auto", to |-> c]

\* updateSingleUserChain: its state after the read of the node, in any thread.
UpdatedMan(name) ==
  IF name = NoNode THEN man
  ELSE IF uconf.auto /\ name = AutoName
       THEN [man EXCEPT !.type = name, !.singleAuto = TRUE, !.singleChain = 0]
       ELSE IF name \in Chains
            THEN [man EXCEPT !.type = name, !.singleAuto = FALSE, !.singleChain = name]
            ELSE [man EXCEPT !.type = name]

UpdateSingleUserChain(z) ==
  \E name \in {zoo.map[Reference]} :
    /\ man' = UpdatedMan(name)
    /\ zoo' = GetValueW(z, Reference)
    /\ IF name \in Chains \/ (uconf.auto /\ name = AutoName)
       THEN /\ info' = AutoSwitchCaches(info, CurrentAutoChainIdOf(man'))
            /\ tasks' = Append(tasks, AutoTask(CurrentAutoChainIdOf(man')))
       ELSE UNCHANGED <<info, tasks>>

\* checkSingleUserChain: whether the node has another value than the one in use.
SingleUserSwitched ==
  \E name \in {zoo.map[Reference]} :
    /\ uconf.single /\ uconf.chains > 1
    /\ name # NoNode
    /\ IF name = AutoName THEN ~man.singleAuto ELSE name # man.type

CheckSingleUserChain ==
  IF SingleUserSwitched THEN UpdateSingleUserChain(zoo)
                        ELSE UNCHANGED <<man, zoo, info, tasks>>

\* A management message asks for another chain: unknown chains and the current
\* one are ignored.  The caches follow in a step of their own.
AutoSwitchCommand(c) ==
  /\ man.step = "idle" /\ Alone("man")
  /\ uconf.commands > 0
  /\ c \in Chains /\ c # man.auto
  /\ man' = [man EXCEPT !.auto = c, !.step = "caches"]
  /\ uconf' = [uconf EXCEPT !.commands = @ - 1]
  /\ UNCHANGED <<zoo, api, info, call, chk, tasks>>

AutoSwitchChain ==
  /\ man.step = "caches"
  /\ man' = [man EXCEPT !.step = "idle"]
  /\ info' = AutoSwitchCaches(info, CurrentAutoChainId)
  /\ tasks' = Append(tasks, AutoTask(CurrentAutoChainId))
  /\ UNCHANGED <<uconf, zoo, api, call, chk>>

-----------------------------------------------------------------------------
(* The thread of ZooKeeper's events *)

ZkFree == call["zk"] = Idle /\ zoo.queue # << >>
Dequeued == [zoo EXCEPT !.queue = Tail(@)]

SwitchEvent ==
  /\ ZkFree /\ Alone("zk")
  /\ Head(zoo.queue).k = "switch"
  /\ zoo' = Dequeued
  /\ call' = StartSwitch("zk", Head(zoo.queue).user)
  /\ UNCHANGED <<uconf, api, info, man, chk, tasks>>

\* The node of the reference user has changed.
SingleUserEvent ==
  /\ ZkFree /\ Alone("zk")
  /\ Head(zoo.queue).k = "single"
  /\ UpdateSingleUserChain(Dequeued)
  /\ UNCHANGED <<uconf, api, call, chk>>

\* The node of a registration is gone: its sessions are asked to go on.
HandleAutoRegEvent ==
  /\ ZkFree
  /\ Head(zoo.queue).k = "reg"
  /\ zoo' = Dequeued
  /\ info' = [info EXCEPT !.pending = @ \ {Head(zoo.queue).user}]
  /\ tasks' = Append(tasks, [k |-> "reg", user |-> Head(zoo.queue).user])
  /\ UNCHANGED <<uconf, api, man, call, chk>>

\* After a new session: handleSwitchChainEvent for every user cached, one by one
\* on this thread in any order (nameChains_ is an unordered_map), and a task that
\* looks at the reference user.
ReconnectHandle ==
  /\ ZkFree
  /\ Head(zoo.queue).k = "reconnect"
  /\ \E order \in Bijection(1 .. Cardinality(DOMAIN info.chains), DOMAIN info.chains) :
       zoo' = [zoo EXCEPT !.queue =
                 [n \in DOMAIN order |-> [k |-> "switch", user |-> order[n]]] \o Tail(@)]
  /\ tasks' = IF uconf.single THEN Append(tasks, [k |-> "check"]) ELSE tasks
  /\ UNCHANGED <<uconf, api, info, man, call, chk>>

-----------------------------------------------------------------------------
(* The thread that checks the cache *)

\* Whether the copy of the cache differs from what ZooKeeper says now.  A node
\* that is missing throws, and is left alone.
Switched(u) ==
  /\ ZkGetChain(u) # NoNode
  /\ IF AutoSwitchChainEnabled /\ ZkGetChain(u) = AutoName
     THEN ~(chk.left[u].auto /\ chk.left[u].chain = CurrentAutoChainId)
     ELSE ZkGetChain(u) # chk.left[u].chain

CheckCopies ==
  /\ uconf.chains > 1
  /\ call["check"] = Idle /\ DOMAIN chk.left = {} /\ ~chk.single
  /\ IF DOMAIN info.chains = {} THEN chk' = [chk EXCEPT !.single = uconf.single]
                                ELSE chk' = [chk EXCEPT !.left = info.chains]
  /\ UNCHANGED <<uconf, zoo, api, info, man, call, tasks>>

CheckUser(u) ==
  /\ call["check"] = Idle /\ u \in DOMAIN chk.left /\ ~chk.single
  /\ Alone("check")
  /\ call' = IF Switched(u) THEN StartSwitch("check", u) ELSE call
  /\ chk' = [left |-> [v \in DOMAIN chk.left \ {u} |-> chk.left[v]],
             single |-> uconf.single]
  /\ UNCHANGED <<uconf, zoo, api, info, man, tasks>>

\* After each of the users.
CheckSingle ==
  /\ chk.single /\ call["check"] = Idle /\ Alone("check")
  /\ chk' = [chk EXCEPT !.single = FALSE]
  /\ CheckSingleUserChain
  /\ UNCHANGED <<uconf, api, call>>

-----------------------------------------------------------------------------
(* The thread that reads the list of users of a chain *)

\* The list is read from the largest id known on, and only adds.
IncrementalUpdateUsers(c) ==
  /\ c \in Chains /\ ~(api[c] \subseteq info.ids[c])
  /\ info' = [info EXCEPT !.ids[c] = @ \cup api[c]]
  /\ UNCHANGED <<uconf, zoo, api, man, call, chk, tasks>>

-----------------------------------------------------------------------------
(* The outside: who edits the nodes, who registers users, the session *)

Event(node) == IF node = Reference THEN [k |-> "single"]
                                   ELSE [k |-> "switch", user |-> node]

\* Somebody gives a node another value, or deletes it: a watch fires once.
EditNode(node, name) ==
  /\ uconf.edits > 0 /\ name # zoo.map[node]
  /\ zoo' = [zoo EXCEPT !.map[node] = name,
                        !.watch = @ \ {node},
                        !.queue = IF node \in zoo.watch
                                  THEN Append(@, Event(node)) ELSE @]
  /\ uconf' = [uconf EXCEPT !.edits = @ - 1]
  /\ UNCHANGED <<api, info, man, call, chk, tasks>>

NodeGone(z, u) ==
  [z EXCEPT !.regs = @ \ {u}, !.regWatch = @ \ {u},
            !.queue = IF u \in z.regWatch
                      THEN Append(@, [k |-> "reg", user |-> u]) ELSE @]

\* The service that registers users lists the user, or does not, and deletes
\* the node.
Registrar(u, cs) ==
  /\ u \in zoo.regs
  /\ api' = [c \in Chains |-> IF c \in cs THEN api[c] \cup {u} ELSE api[c]]
  /\ zoo' = NodeGone(zoo, u)
  /\ UNCHANGED <<uconf, info, man, call, chk, tasks>>

\* A session of ZooKeeper expires: its watches and the events on their way are
\* lost, and the new session begins with the reconnect handles.
RecoverySession ==
  /\ uconf.expiries > 0
  /\ uconf' = [uconf EXCEPT !.expiries = @ - 1]
  /\ zoo' = [zoo EXCEPT !.watch = {}, !.regWatch = {},
                        !.queue = IF uconf.chains > 1
                                  THEN <<[k |-> "reconnect"]>> ELSE << >>]
  /\ UNCHANGED <<api, info, man, call, chk, tasks>>

-----------------------------------------------------------------------------
UserInit(conf) ==
  /\ uconf = conf
  /\ zoo = [map |-> conf.names, watch |-> IF conf.single THEN {Reference} ELSE {},
            regs |-> {}, regWatch |-> {}, queue |-> << >>]
  /\ api = conf.users
  /\ info = [ids |-> conf.known, chains |-> << >>, pending |-> {}]
  /\ man = [auto |-> 0, singleAuto |-> conf.names[Reference] = AutoName,
            singleChain |-> IF conf.names[Reference] \in 0 .. (conf.chains - 1)
                            THEN conf.names[Reference] ELSE 0,
            type |-> conf.names[Reference], step |-> "idle"]
  /\ call = [t \in Threads |-> Idle]
  /\ chk = [left |-> << >>, single |-> FALSE]
  /\ tasks = << >>

HandlerStep ==
  \E t \in {"zk", "check"} : ReadChain(t) \/ CacheChain(t) \/ DispatchSwitch(t)

ZkThread == SwitchEvent \/ SingleUserEvent \/ HandleAutoRegEvent \/ ReconnectHandle
CheckThread == CheckCopies \/ CheckSingle \/ \E u \in Users : CheckUser(u)
ManagementThread == AutoSwitchChain
UpdateThread == \E c \in Chains : IncrementalUpdateUsers(c)

Outside ==
  \/ \E c \in Chains : AutoSwitchCommand(c)
  \/ \E node \in Users \cup {Reference}, name \in uconf.values : EditNode(node, name)
  \/ RecoverySession
==============================================================================
