------------------------------ MODULE Sessions ------------------------------
(***************************************************************************)
(* sserver: the sessions of the miners, from the connection to the end of  *)
(* it.  A session subscribes and authorizes in the way of its coin, is put *)
(* on the chain that UserInfo finds for its user, or waits until the user  *)
(* is registered, and is moved by the tasks that UserInfo dispatches.      *)
(* Every change is told to the other programs by the events miner_connect  *)
(* and miner_dead.                                                         *)
(***************************************************************************)
EXTENDS UserInfo

CONSTANTS
  AgentIds,     \* the session ids of the miners behind an agent
  AgentWorkers  \* the names of their workers

ASSUME MinersAssumption == AgentWorkers \cap Users = {}

VARIABLE sess  \* the sessions: here (in connections_), state, dead, user, chain,
               \* ids (userIds_ by chain), saved (savedAuthorizeInfo_), agent,
               \* miners (of an agent: session id and worker), proxy, anonymous,
               \* tries (requests to authorize), again (one of them came when it was
               \* served already, or a worker was registered under an id or a name
               \* in use), moved (to another chain after its death) and shown: who is
               \* connected, and where, to those who follow the events

sessionVars == <<sess, userVars>>

NewSession ==
  [here |-> FALSE, state |-> "connected", dead |-> FALSE, user |-> NoUser,
   chain |-> 0, ids |-> [c \in Chains |-> NoUser], saved |-> NoUser,
   agent |-> FALSE, miners |-> {}, proxy |-> TRUE, anonymous |-> FALSE,
   tries |-> 0, again |-> FALSE, moved |-> FALSE, shown |-> {}]

UserIdOf(r) == r.ids[r.chain]

-----------------------------------------------------------------------------
(* The events *)

AddWorker(r, w) ==
  IF r.state = "authenticated" THEN [r EXCEPT !.shown = @ \cup {<<w, r.chain>>}]
                               ELSE r

RemoveWorker(r, w) ==
  IF r.state = "authenticated" THEN [r EXCEPT !.shown = @ \ {<<w, r.chain>>}]
                               ELSE r

\* The miners of an agent leave the old chain and come to the new one.
WorkersBehind(r) == {<<m[2], r.chain>> : m \in r.miners}
BeforeSwitchChain(r) ==
  IF r.state = "authenticated" THEN [r EXCEPT !.shown = @ \ WorkersBehind(r)] ELSE r
AfterSwitchChain(r) ==
  IF r.state = "authenticated" THEN [r EXCEPT !.shown = @ \cup WorkersBehind(r)] ELSE r

\* A mutant: miner_connect is sent, and the old chain not told.
SwitchChainQuietly(r, c) ==
  [r EXCEPT !.chain = c, !.ids[c] = r.user, !.moved = r.dead,
            !.shown = @ \cup {<<r.user, c>>}]

\* switchChain for a user the chain knows.
SwitchChain(r, c) ==
  LET mining == r.chain # c /\ UserIdOf(r) # NoUser
      left == IF mining
              THEN BeforeSwitchChain(
                     [r EXCEPT !.shown = @ \ {<<UserIdOf(r), r.chain>>}])
              ELSE r
      come == [left EXCEPT !.chain = c, !.ids[c] = r.user, !.moved = r.dead,
                           !.shown = @ \cup {<<r.user, c>>}]
  IN IF mining THEN AfterSwitchChain(come) ELSE come

\* A session that is told to switch stays where it is if it cannot.
TrySwitchChain(r, c) == IF GetUserId(c, r.user) THEN SwitchChain(r, c) ELSE r

-----------------------------------------------------------------------------
(* The coins: the states in which a request to subscribe or to log in is     *)
(* served, and the state of the session when the names are looked at         *)

SubscribeBitcoin(r) == {r.state} \cap {"connected"}
SubscribeDecred(r) == {r.state} \cap {"connected"}
SubscribeCkb(r) == {r.state} \cap {"connected"}
SubscribeEth(r) == {r.state} \cap {"connected"}
SubscribeSia(r) == {r.state} \cap {"connected"}

AuthorizeBitcoin(r) == {r.state} \cap {"subscribed"}
AuthorizeDecred(r) == {r.state} \cap {"subscribed"}
AuthorizeCkb(r) == {r.state} \cap {"subscribed"}
\* A client that has not subscribed speaks the protocol of the proxy, whose login
\* is served at any time.
AuthorizeEth(r) == IF r.proxy THEN {"subscribed"} ELSE {r.state} \cap {"subscribed"}
AuthorizeBytom(r) == {"subscribed"}
\* No state is asked for, and none is set.
AuthorizeGrin(r) == {r.state}
AuthorizeBeam(r) == {r.state}

SubscribeStates(r) ==
  CASE uconf.coin = "bitcoin" -> SubscribeBitcoin(r)
    [] uconf.coin = "decred" -> SubscribeDecred(r)
    [] uconf.coin = "ckb" -> SubscribeCkb(r)
    [] uconf.coin = "eth" -> SubscribeEth(r)
    [] uconf.coin = "sia" -> SubscribeSia(r)
    [] OTHER -> {}

AuthorizeStates(r) ==
  CASE uconf.coin = "bitcoin" -> AuthorizeBitcoin(r)
    [] uconf.coin = "decred" -> AuthorizeDecred(r)
    [] uconf.coin = "ckb" -> AuthorizeCkb(r)
    [] uconf.coin = "eth" -> AuthorizeEth(r)
    [] uconf.coin = "bytom" -> AuthorizeBytom(r)
    [] uconf.coin = "grin" -> AuthorizeGrin(r)
    [] uconf.coin = "beam" -> AuthorizeBeam(r)
    [] OTHER -> {}

-----------------------------------------------------------------------------
(* checkUserAndPwd *)

\* tryAutoReg: the node is made once per user, by whichever server comes first,
\* and may be gone again before it is watched.
TryAutoReg(u, gone) ==
  IF u \in info.pending THEN [ok |-> TRUE, info |-> info, zoo |-> zoo]
  ELSE IF Cardinality(info.pending) >= uconf.maxPending \/ u \in zoo.regs \/ gone
       THEN [ok |-> FALSE, info |-> info, zoo |-> zoo]
       ELSE [ok |-> TRUE, info |-> [info EXCEPT !.pending = @ \cup {u}],
             zoo |-> [zoo EXCEPT !.regs = @ \cup {u}, !.regWatch = @ \cup {u}]]

\* The chain is found and knows the user: the session is served from now on.
\* createDispatcher makes a new one, and the miners of an agent are those of
\* the dispatcher.
Authenticated(r, c) ==
  [SwitchChain(r, c) EXCEPT !.state = "authenticated", !.miners = {}]

\* The rest of checkUserAndPwd once the chain is known (cs is empty if it is not):
\* i and z are UserInfo and ZooKeeper after the lookup.
CheckUser2(s, cs, i, gone) ==
  LET r == sess[s]
      known == {c \in cs : r.user \in i.ids[c]}
      reg == TryAutoReg(r.user, gone)
  IN IF known # {}
     THEN [r |-> Authenticated(r, CHOOSE c \in known : TRUE), reg |-> FALSE]
     ELSE IF uconf.autoReg /\ reg.ok
          THEN [r |-> [r EXCEPT !.saved = r.user, !.state = "registing"],
                reg |-> TRUE]
          ELSE [r |-> [r EXCEPT !.saved = IF uconf.autoReg THEN NoUser ELSE @],
                reg |-> uconf.autoReg]

\* The configuration keeps the loop's changes of the cache out of the handlers.
HandlersIdle == call["zk"] = Idle /\ call["check"] = Idle

\* getChainId up to the lookup in the cache.
LookupCache(s, u) ==
  IF uconf.chains = 1 THEN [Idle EXCEPT !.pc = "found", !.user = u, !.session = s]
  ELSE IF Cached(u) THEN [Idle EXCEPT !.pc = "found", !.user = u, !.session = s,
                                      !.to = info.chains[u].chain]
       ELSE [Idle EXCEPT !.pc = "read", !.user = u, !.session = s]

\* The request: the names are set before anything is looked up.
Authorize(s, u) ==
  /\ call["loop"] = Idle
  /\ sess[s].here /\ ~sess[s].dead
  /\ sess[s].tries < uconf.tries /\ ~uconf.anonymous
  /\ \E state \in AuthorizeStates(sess[s]) :
       sess' = [sess EXCEPT ![s].user = u, ![s].state = state, ![s].tries = @ + 1,
                            ![s].again = @ \/ sess[s].state = "authenticated"]
  /\ call' = [call EXCEPT !["loop"] = LookupCache(s, u)]
  /\ UNCHANGED <<uconf, zoo, api, info, man, chk, tasks>>

\* Whether the chain comes from ZooKeeper or is the first that knows the user.
LookupResult(u, name) == IF Resolves(u, name) # {} THEN Resolves(u, name)
                                                   ELSE FirstChain(u)

LookupChain ==
  /\ call["loop"].pc = "cache"
  /\ uconf.serial => HandlersIdle
  /\ \E u \in {call["loop"].user}, name \in {call["loop"].name} :
       \/ /\ LookupResult(u, name) = {}
          /\ call' = [call EXCEPT !["loop"].pc = "notfound"]
          /\ UNCHANGED info
       \/ \E c \in LookupResult(u, name) :
            /\ info' = IF Resolves(u, name) # {} THEN CacheResolved(u, name, c)
                                                 ELSE SetChain(info, u, c, FALSE)
            /\ call' = [call EXCEPT !["loop"].pc = "found", !["loop"].to = c]
  /\ UNCHANGED <<uconf, zoo, api, man, chk, tasks, sess>>

\* The answer to the request, or the wait for the registration.
Authorized(gone) ==
  /\ call["loop"].pc \in {"found", "notfound"}
  /\ \E s \in {call["loop"].session},
        cs \in {IF call["loop"].pc = "found" THEN {call["loop"].to} ELSE {}} :
       \E a \in {CheckUser2(s, cs, info, gone)} :
         /\ sess' = [sess EXCEPT ![s] = a.r]
         /\ IF a.reg
            THEN /\ info' = TryAutoReg(sess[s].user, gone).info
                 /\ zoo' = TryAutoReg(sess[s].user, gone).zoo
            ELSE UNCHANGED <<info, zoo>>
  /\ call' = [call EXCEPT !["loop"] = Idle]
  /\ UNCHANGED <<uconf, api, man, chk, tasks>>

\* CKB: a name that is an address needs no registration and sends no event.
AnonymousAuthorize(s, u) ==
  /\ call["loop"] = Idle
  /\ sess[s].here /\ ~sess[s].dead /\ uconf.anonymous
  /\ AuthorizeCkb(sess[s]) # {}
  /\ sess' = [sess EXCEPT ![s].user = u, ![s].chain = 0, ![s].ids[0] = u,
                          ![s].state = "authenticated", ![s].anonymous = TRUE]
  /\ UNCHANGED userVars

-----------------------------------------------------------------------------
(* The other requests, the miners of an agent, the end of a session *)

ListenerCallback(s) ==
  /\ call["loop"] = Idle
  /\ ~sess[s].here /\ ~sess[s].dead
  /\ sess' = [sess EXCEPT ![s].here = TRUE]
  /\ UNCHANGED userVars

Subscribe(s, agent) ==
  /\ call["loop"] = Idle
  /\ sess[s].here /\ ~sess[s].dead
  /\ SubscribeStates(sess[s]) # {}
  /\ agent => uconf.agents
  /\ sess' = [sess EXCEPT ![s].state = "subscribed", ![s].agent = agent,
                          ![s].proxy = FALSE]
  /\ UNCHANGED userVars

\* A second message for the same id keeps the first miner, but the event is sent.
InUse(r, id, w) == \E m \in r.miners : m # <<id, w>> /\ (m[1] = id \/ m[2] = w)
RegisterWorker(s, id, w) ==
  /\ call["loop"] = Idle
  /\ sess[s].here /\ ~sess[s].dead
  /\ sess[s].agent /\ sess[s].state = "authenticated"
  /\ LET r == sess[s]
         new == IF id \in {m[1] : m \in r.miners} THEN {} ELSE {<<id, w>>}
     IN sess' = [sess EXCEPT ![s] = AddWorker([r EXCEPT !.miners = @ \cup new,
                                                       !.again = @ \/ InUse(r, id, w)], w)]
  /\ UNCHANGED userVars

UnregisterWorker(s, m) ==
  /\ call["loop"] = Idle
  /\ sess[s].here /\ ~sess[s].dead
  /\ sess[s].agent /\ m \in sess[s].miners
  /\ sess' = [sess EXCEPT ![s] = [RemoveWorker(sess[s], m[2]) EXCEPT !.miners = @ \ {m}]]
  /\ UNCHANGED userVars

MarkAsDead(s) ==
  /\ call["loop"] = Idle
  /\ sess[s].here /\ ~sess[s].dead
  /\ sess' = [sess EXCEPT ![s].dead = TRUE,
                          ![s].shown = @ \ {<<UserIdOf(sess[s]), sess[s].chain>>}]
  /\ UNCHANGED userVars

\* The next job for the miners takes the dead sessions out; the destructor of
\* the dispatcher unregisters the miners of an agent.
EraseDead(s) ==
  /\ call["loop"] = Idle
  /\ sess[s].here /\ sess[s].dead
  /\ sess' = [sess EXCEPT ![s] = [BeforeSwitchChain(@) EXCEPT !.here = FALSE,
                                                              !.miners = {}]]
  /\ UNCHANGED userVars

-----------------------------------------------------------------------------
(* The tasks *)

TaskReady(k) ==
  /\ call["loop"] = Idle /\ tasks # << >> /\ Head(tasks).k = k
  /\ uconf.serial => HandlersIdle

Served(u) == {s \in DOMAIN sess : /\ sess[s].here
                                  /\ sess[s].state = "authenticated"
                                  /\ sess[s].user = u}

\* The sessions of the user, the dead ones too; a user with none is forgotten.
RunSwitch ==
  /\ TaskReady("switch")
  /\ \E t \in {Head(tasks)} :
       /\ sess' = [s \in DOMAIN sess |->
                     IF s \in Served(t.user) /\ sess[s].chain # t.to
                     THEN TrySwitchChain(sess[s], t.to) ELSE sess[s]]
       /\ info' = IF Served(t.user) = {} THEN Uncached(info, t.user) ELSE info
  /\ tasks' = Tail(tasks)
  /\ UNCHANGED <<uconf, zoo, api, man, call, chk>>

\* The users asked for who are not in the cache come into it, on chain 0.
AutoAsked == {sess[s].user : s \in {x \in DOMAIN sess :
                 sess[x].here /\ sess[x].state = "authenticated"}}
AutoEnabled(u) == Cached(u) /\ info.chains[u].auto

RunAutoSwitch ==
  /\ TaskReady("auto")
  /\ sess' = [s \in DOMAIN sess |->
                IF /\ \E u \in {sess[s].user} : s \in Served(u) /\ AutoEnabled(u)
                   /\ sess[s].chain # Head(tasks).to
                THEN TrySwitchChain(sess[s], Head(tasks).to) ELSE sess[s]]
  /\ info' = [info EXCEPT !.chains =
                [u \in DOMAIN @ \cup AutoAsked |->
                   IF u \in DOMAIN @ THEN @[u] ELSE [chain |-> 0, auto |-> FALSE]]]
  /\ tasks' = Tail(tasks)
  /\ UNCHANGED <<uconf, zoo, api, man, call, chk>>

\* autoRegCallback: the lookup of checkUserAndPwd, done here in one step.
RegLookup(u) ==
  IF uconf.chains = 1 THEN {0}
  ELSE IF Cached(u) THEN {info.chains[u].chain}
       ELSE LookupResult(u, ZkGetChain(u))

AutoRegCallback(u, r) ==
  IF r.saved # u \/ ~r.here THEN r
  ELSE IF r.dead \/ r.state # "registing" THEN [r EXCEPT !.saved = NoUser]
  ELSE LET q == [r EXCEPT !.saved = NoUser, !.user = u]
           known == {c \in RegLookup(u) : GetUserId(c, u)}
       IN IF known = {} THEN q ELSE Authenticated(q, CHOOSE c \in known : TRUE)

RunReg ==
  /\ TaskReady("reg")
  /\ \E u \in {Head(tasks).user} :
       \E asks \in {\E s \in DOMAIN sess : /\ sess[s].here /\ ~sess[s].dead
                                           /\ sess[s].saved = u
                                           /\ sess[s].state = "registing"} :
         /\ sess' = [s \in DOMAIN sess |-> AutoRegCallback(u, sess[s])]
         /\ IF asks /\ uconf.chains > 1 /\ ~Cached(u)
            THEN /\ zoo' = ZkGetChainW(zoo, u)
                 /\ info' = IF Resolves(u, ZkGetChain(u)) # {}
                            THEN CacheResolved(u, ZkGetChain(u),
                                               CHOOSE c \in RegLookup(u) : TRUE)
                            ELSE IF RegLookup(u) # {}
                                 THEN SetChain(info, u, CHOOSE c \in RegLookup(u) : TRUE,
                                               FALSE)
                                 ELSE info
            ELSE UNCHANGED <<zoo, info>>
  /\ tasks' = Tail(tasks)
  /\ UNCHANGED <<uconf, api, man, call, chk>>

RunCheck ==
  /\ TaskReady("check")
  /\ IF SingleUserSwitched
     THEN \E name \in {zoo.map[Reference]} :
            /\ man' = UpdatedMan(name)
            /\ zoo' = GetValueW(zoo, Reference)
            /\ IF name \in Chains \/ (uconf.auto /\ name = AutoName)
               THEN /\ info' = AutoSwitchCaches(info, CurrentAutoChainIdOf(man'))
                    /\ tasks' = Append(Tail(tasks),
                                       AutoTask(CurrentAutoChainIdOf(man')))
               ELSE tasks' = Tail(tasks) /\ UNCHANGED info
     ELSE tasks' = Tail(tasks) /\ UNCHANGED <<man, zoo, info>>
  /\ UNCHANGED <<uconf, api, call, chk, sess>>

-----------------------------------------------------------------------------
SessionInit(conf) ==
  /\ UserInit(conf)
  /\ sess = [s \in 1 .. conf.sessions |-> NewSession]

LoopStep ==
  \/ LookupChain \/ (ReadChain("loop") /\ UNCHANGED sess)
  \/ \E gone \in BOOLEAN : Authorized(gone)
  \/ RunSwitch \/ RunAutoSwitch \/ RunReg \/ RunCheck

MinersStep ==
  \E s \in DOMAIN sess :
    \/ ListenerCallback(s)
    \/ \E agent \in BOOLEAN : Subscribe(s, agent)
    \/ \E u \in uconf.who : Authorize(s, u) \/ AnonymousAuthorize(s, u)
    \/ \E id \in AgentIds, w \in AgentWorkers : RegisterWorker(s, id, w)
    \/ \E m \in sess[s].miners : UnregisterWorker(s, m)
    \/ uconf.deaths /\ MarkAsDead(s)
    \/ EraseDead(s)

\* The threads that go on by themselves.
Threaded ==
  \/ LoopStep
  \/ /\ HandlerStep \/ ZkThread \/ CheckThread \/ ManagementThread \/ UpdateThread
     /\ UNCHANGED sess
  \/ /\ \E u \in Users, cs \in SUBSET Chains : Registrar(u, cs)
     /\ UNCHANGED sess

UsersNext == Threaded \/ MinersStep \/ (Outside /\ UNCHANGED sess)

\* The users and their sessions by themselves, under any configuration.
UserConf(conf) ==
  /\ {"chains", "known", "users", "commands", "edits", "expiries"} \subseteq DOMAIN conf
  /\ conf.chains \in Nat \ {0}
  /\ \A c \in 0 .. (conf.chains - 1) :
       /\ c \in DOMAIN conf.known /\ conf.known[c] \subseteq Users
       /\ c \in DOMAIN conf.users /\ conf.users[c] \subseteq Users

UsersSpec ==
  /\ UserConf(uconf)
  /\ SessionInit(uconf)
  /\ [][UsersNext]_sessionVars

-----------------------------------------------------------------------------
(* Properties *)

\* The chain that ZooKeeper's node, and the lists of users, ask for.
Wanted(u) ==
  LET name == IF uconf.single THEN AutoName ELSE zoo.map[u]
  IN IF AutoSwitchChainEnabled /\ name = AutoName
     THEN {c \in {CurrentAutoChainId} : u \in info.ids[c]}
     ELSE {c \in Chains : c = name /\ u \in info.ids[c]}

Mining(r) == r.here /\ ~r.dead /\ r.state = "authenticated"

Follows(r) == Mining(r) /\ ~r.anonymous /\ Wanted(r.user) # {}
              => r.chain \in Wanted(r.user)

\* The events tell of a session exactly what it is: its user, and the workers
\* behind an agent, on the chain on which it mines now, until it asks to be
\* authorized once more; of a dead session the workers, until it is erased, and then
\* nothing (addWorker(), removeWorker(), beforeSwitchChain(), afterSwitchChain(),
\* markAsDead()).  Two cases are left out in which the code tells too much.  A dead
\* session that is not erased yet is moved like the others, since
\* StratumServer::switchChain() does not ask whether it is dead: it is announced on
\* the new chain, and its end is not told again.  And where an agent registers a
\* second worker under an id in use, that one is announced, but the first one is
\* kept and its end told (registerWorker()).
EventsFollowSessions ==
  \A s \in DOMAIN sess :
    LET r == sess[s] IN
    r.state = "authenticated" /\ ~r.again /\ ~r.anonymous /\ ~r.moved =>
      r.shown = WorkersBehind(r) \cup IF r.dead THEN {} ELSE {<<r.user, r.chain>>}
==============================================================================
