---------------------------- MODULE PoolWatcher ----------------------------
(***************************************************************************)
(* poolwatcher: one client per pool or node, all served by one event loop, *)
(* and a thread that reads solved shares (or, for Bitcoin, the pool's own  *)
(* jobs) from Kafka. The kinds of watcher are                              *)
(*   "bitcoin"  announces a new block of another pool as an empty template *)
(*   "proxy"    passes the jobs of another pool on, and its shares back    *)
(*   "beam", "grin"  the same with the stratum interface of a node.        *)
(*                                                                         *)
(* A client that breaks is replaced by a new one in the same place of      *)
(* clients_. The caches of jobs keep the place, not the client.            *)
(***************************************************************************)
EXTENDS Integers, Sequences, FiniteSets, Functions

CONSTANT Nothing  \* no previous hash yet, no pool job, a raw job that does not parse

VARIABLES
  wconf,    \* kind, pools (how many), what pools notify (news), own (the pool's
            \* jobs), grand, disable, log, interval, maxJobs, maxPows, tail, and the bounds
  clients,  \* by place: state, link, timer, prev, want; session and told (bounds)
  wm,       \* the container: its caches, the clock and IdGenerator
  wtopics,  \* Kafka's jobs and solved shares
  wout      \* what reached the pools, templates, rows of found_blocks, share log

watchVars == <<wconf, clients, wm, wtopics, wout>>

Pools == 1 .. wconf.pools

-----------------------------------------------------------------------------
(* The clients *)

\* A new PoolWatchClient whose connect() was launched, or was not.
NewClient(session, launched) ==
  [state |-> "INIT", link |-> IF launched THEN "connecting" ELSE "none", timer |-> FALSE,
   prev |-> Nothing, want |-> <<>>, session |-> session, told |-> 0]

Alive(c) == c.link \in {"connecting", "open"}

\* triggerReconnect(): sooner or later, but at least 10 seconds after upTime_
triggerReconnect(c) == [c EXCEPT !.timer = TRUE]

\* eventCallback() with BEV_EVENT_CONNECTED, and the onConnected() of the kind
onConnected(i) ==
  /\ clients[i].link = "connecting"
  /\ clients' = [clients EXCEPT
       ![i].link = "open",
       ![i].state = IF wconf.kind \in {"beam", "grin"} THEN "SUBSCRIBED" ELSE "CONNECTED"]
  /\ UNCHANGED <<wconf, wm, wtopics, wout>>

\* eventCallback() with an error, the end of the stream or a timeout. The state_
\* stays as it was until the client is replaced.
Broken(i) ==
  /\ Alive(clients[i])
  /\ clients[i].session <= wconf.breaks
  /\ clients' = [clients EXCEPT ![i] = triggerReconnect([@ EXCEPT !.link = "broken"])]
  /\ UNCHANGED <<wconf, wm, wtopics, wout>>

\* reconnectCallback() and removeAndCreateClient(), which ignores what connect()
\* returns: no event will come for a client whose connect() was not launched.
removeAndCreateClient(i, launched) ==
  /\ clients[i].timer
  /\ launched \/ wconf.fails
  /\ clients' = [clients EXCEPT ![i] = NewClient(@.session + 1, launched)]
  /\ UNCHANGED <<wconf, wm, wtopics, wout>>

\* The answer to mining.subscribe: long enough, too short for a grand pool, or an
\* error, which is only logged.
SubscribeAnswer(i, answer) ==
  /\ wconf.kind \in {"bitcoin", "proxy"}
  /\ clients[i].link = "open" /\ clients[i].state = "CONNECTED"
  /\ answer = "short" => clients[i].session <= wconf.breaks
  /\ clients' = [clients EXCEPT ![i] =
       CASE answer = "error" -> @
         [] answer = "short" /\ wconf.kind = "proxy" /\ wconf.grand ->
              triggerReconnect([@ EXCEPT !.state = "TODO_RECONNECT"])
         [] OTHER -> [@ EXCEPT !.state = "SUBSCRIBED"]]
  /\ UNCHANGED <<wconf, wm, wtopics, wout>>

\* The answer to mining.authorize. The proxy's wantSubmittedShares_ stay delayed.
AuthorizeAnswer(i, result) ==
  /\ wconf.kind \in {"bitcoin", "proxy"}
  /\ clients[i].link = "open" /\ clients[i].state = "SUBSCRIBED"
  /\ clients' = [clients EXCEPT ![i].state = IF result THEN "AUTHENTICATED" ELSE @]
  /\ UNCHANGED <<wconf, wm, wtopics, wout>>

-----------------------------------------------------------------------------
(* The Bitcoin watcher: a new block of another pool becomes an empty template *)

\* handleNewStratumJob(): the job of the pool itself, unless it is too late.
handleNewStratumJob(late) ==
  /\ wconf.kind = "bitcoin"
  /\ wm.own < Len(wconf.own)
  /\ wm' = [wm EXCEPT !.own = @ + 1,
                      !.poolJob = IF late THEN @ ELSE wconf.own[wm.own + 1]]
  /\ UNCHANGED <<wconf, clients, wtopics, wout>>

\* Whether a notified block follows the job of the pool.
FollowsPool(news) ==
  \/ wconf.disable
  \/ /\ wm.poolJob # Nothing
     /\ news.height = wm.poolJob.height + 1
     /\ news.bits = wm.poolJob.bits

\* mining.notify: lastPrevBlockHash_ moves on whether or not a template is sent.
NotifyBitcoin(i, news) ==
  /\ clients' = [clients EXCEPT ![i].prev = news.key, ![i].told = @ + 1]
  /\ wout' = [wout EXCEPT !.templates =
       IF clients[i].prev \notin {Nothing, news.key} /\ FollowsPool(news)
       THEN @ \cup {[key |-> news.key, height |-> news.height, bits |-> news.bits]}
       ELSE @]
  /\ UNCHANGED <<wconf, wm, wtopics>>

-----------------------------------------------------------------------------
(* Jobs of another pool or node *)

\* IdGenerator::next(): the seconds, and a number that starts again every second
GeneratedId(w) == IF w.now <= w.idTime THEN [sec |-> w.now, low |-> w.idLow + 1]
                                       ELSE [sec |-> w.now, low |-> 0]

\* generateJobId(), which also happens for jobs that are not passed on
generateJobId(w) ==
  [w EXCEPT !.idTime = IF w.now > @ THEN w.now ELSE @, !.idLow = GeneratedId(w).low]

\* The job that client i makes of what it was told.
StratumJob(i, news, upstream) ==
  [key |-> news.key, id |-> GeneratedId(wm), up |-> upstream, client |-> i,
   at |-> wm.now, run |-> wm.run]

\* A pool behind the one that gave the last job has to wait until that is silent.
LowPriorityAlways(w, i) == i > w.lastClient /\ w.now - w.lastTime > wconf.interval
LowPriority(w, i) == i > w.lastClient /\ w.now - w.lastTime < wconf.interval

\* A SeqMap is in the order of its keys' coming: a known key keeps its place.
SeqPut(map, entry) ==
  LET old == {j \in DOMAIN map : map[j].key = entry.key} IN
  IF old = {} THEN Append(map, entry)
  ELSE [j \in DOMAIN map |-> IF j \in old THEN entry ELSE map[j]]
Cleared(map, max) == SubSeq(map, IF Len(map) > max THEN 1 + Len(map) - max ELSE 1, Len(map))

\* ClientContainerBitcoinProxy::sendJobToKafka(); its map of jobs is in the order
\* of their ids, and jobGbtHashSet_ holds the keys of the jobs in the map.
CachedByProxy(w, job) ==
  [w EXCEPT !.jobs = Cleared(Append(@, job), wconf.maxJobs),
            !.lastClient = job.client, !.lastTime = job.at]

PassedByProxy(job) ==
  /\ job.key # Nothing
  /\ ~LowPriority(wm, job.client)
  /\ \A j \in DOMAIN wm.jobs : wm.jobs[j].key # job.key

\* ClientContainerBeam::sendJobToKafka(): the cache is a SeqMap by input, and so is
\* powHashMap_, by job of the node, which is cleared here only.
CachedByBeam(w, job) ==
  [w EXCEPT !.jobs = Cleared(SeqPut(@, job), wconf.maxJobs), !.pow = Cleared(@, wconf.maxPows)]

\* ClientContainerGrin::sendJobToKafka(): jobCacheQueue_ also holds the prePow of
\* a job that came again, and the map is cleared in the order of the queue.
CachedByGrin(w, job) ==
  LET queue == Append(w.queue, job.key)
      map == Append(SelectSeq(w.jobs, LAMBDA j : j.key # job.key), job)
      Rest(n) == SelectSeq(map, LAMBDA j : \A q \in 1 .. n : queue[q] # j.key)
      popped == CHOOSE n \in 0 .. Len(queue) :
                  /\ Len(Rest(n)) <= wconf.maxJobs
                  /\ \A k \in 0 .. n - 1 : Len(Rest(k)) > wconf.maxJobs IN
  [w EXCEPT !.jobs = Rest(popped), !.queue = SubSeq(queue, popped + 1, Len(queue))]

\* A job goes to Kafka, then into the cache. A Beam job that does not parse is
\* logged and passed on all the same.
sendJobToKafka(i, job) ==
  LET passed == CASE wconf.kind = "proxy" -> PassedByProxy(job)
                  [] wconf.kind = "grin" -> job.key # Nothing
                  [] OTHER -> TRUE
      numbered == IF job.key = Nothing /\ wconf.kind # "beam" THEN wm ELSE generateJobId(wm) IN
  /\ wm' = IF ~passed THEN numbered
           ELSE CASE wconf.kind = "proxy" -> CachedByProxy(numbered, job)
                  [] wconf.kind = "beam" -> CachedByBeam(numbered, job)
                  [] OTHER -> CachedByGrin(numbered, job)
  /\ wtopics' = IF passed THEN [wtopics EXCEPT !.jobs = Append(@, job)] ELSE wtopics

\* The first job tells a Beam client that its login succeeded: the solutions that
\* waited for it are sent.
BeamReadyOnly(c) ==
  IF c.state = "SUBSCRIBED" THEN [c EXCEPT !.state = "AUTHENTICATED"] ELSE c
BeamReady(c) ==
  IF c.state = "SUBSCRIBED" THEN [c EXCEPT !.state = "AUTHENTICATED", !.want = <<>>] ELSE c

NotifyJob(i, news) ==
  LET was == clients[i]
      told == [was EXCEPT !.told = @ + 1]
      next == IF wconf.kind = "beam" THEN BeamReady(told) ELSE told IN
  /\ clients' = [clients EXCEPT ![i] = next]
  /\ wout' = [wout EXCEPT !.sent =
       IF next.want = was.want THEN @ ELSE @ \cup Range(was.want)]
  /\ sendJobToKafka(i, StratumJob(i, news, <<i, was.session, was.told>>))
  /\ UNCHANGED wconf

\* handleStratumMessage() with a new job, in whatever state the client is.
Notify(i, news) ==
  /\ clients[i].link = "open"
  /\ clients[i].told < wconf.notices
  /\ IF wconf.kind = "bitcoin" THEN NotifyBitcoin(i, news) ELSE NotifyJob(i, news)

-----------------------------------------------------------------------------
(* Solved shares *)

\* A stratum server finds a solution of a job that it read.
SolvedShareFound(j) ==
  /\ wconf.kind # "bitcoin"
  /\ Len(wtopics.solved) < wconf.found
  /\ wtopics' = [wtopics EXCEPT !.solved = Append(@, wtopics.jobs[j])]
  /\ UNCHANGED <<wconf, clients, wm, wout>>

\* The cached jobs that a solved share is taken for. The proxy takes the newest
\* job with the same low 32 bits when the job itself is not cached any more.
JobsOfShare(job) ==
  LET J == DOMAIN wm.jobs
      same == {j \in J : IF wconf.kind = "proxy" THEN wm.jobs[j].id = job.id
                                                  ELSE wm.jobs[j].key = job.key}
      alike == {j \in J : wm.jobs[j].id.low = job.id.low} IN
  IF same # {} \/ wconf.kind # "proxy" THEN same
  ELSE {j \in alike : \A k \in alike : k <= j}

\* tryFlushSolvedShares()
FlushDue(o) == wm.now - o.flushed > wconf.flush
Flushed(o) == [o EXCEPT !.file = @ \o o.buffer, !.buffer = <<>>, !.flushed = wm.now]

\* submitShare(); Grin's solutions are written whatever the state of the client.
ReadyToSubmit(c) == wconf.kind = "grin" \/ c.state = "AUTHENTICATED"

\* The solution names the job as the pool or the node did.
Solution(share, job) == [share |-> share, up |-> job.up, client |-> job.client]

\* What a solution leaves: a row of found_blocks, or a share in the log of the
\* proxy, which is flushed when the last flush is long enough ago.
Submitted(i, solution) ==
  [wout EXCEPT
     !.sent = IF clients[i].link = "open" /\ ReadyToSubmit(clients[i])
              THEN @ \cup {solution} ELSE @,
     !.rows = IF wconf.kind = "beam" THEN @ \cup {[share |-> solution.share, hash |-> "pow"]} ELSE @,
     !.threads = IF wconf.kind = "grin" THEN @ \cup {solution.share} ELSE @,
     !.buffer = IF wconf.kind = "proxy" /\ wconf.log THEN Append(@, solution.share) ELSE @]

submitShare(i, solution) ==
  /\ clients' = [clients EXCEPT ![i].want =
       IF ReadyToSubmit(clients[i]) THEN @ ELSE Append(@, solution)]
  /\ \E o \in {Submitted(i, solution)} :
       wout' = IF wconf.kind = "proxy" /\ wconf.log /\ FlushDue(o) THEN Flushed(o) ELSE o

\* a second without a solved share
FlushWhenIdle ==
  /\ wconf.kind = "proxy" /\ wconf.log
  /\ wm.ready /\ wm.pos = Len(wtopics.solved)
  /\ FlushDue(wout)
  /\ wout' = Flushed(wout)
  /\ UNCHANGED <<wconf, clients, wm, wtopics>>

\* consumeSolution(). powHashMap_ has one share for each job of the node.
consumeSolution ==
  /\ wm.ready
  /\ wm.pos < Len(wtopics.solved)
  /\ LET share == wm.pos + 1
         found == JobsOfShare(wtopics.solved[share]) IN
     /\ wm' = [wm EXCEPT !.pos = share,
                 !.pow = IF wconf.kind = "beam" /\ found # {}
                         THEN SeqPut(@, [key |-> wm.jobs[CHOOSE j \in found : TRUE].up,
                                      share |-> share])
                         ELSE @]
     /\ IF found = {} THEN UNCHANGED <<clients, wout>>
        ELSE \E j \in found :
               submitShare(wm.jobs[j].client, Solution(share, wm.jobs[j]))
     /\ UNCHANGED <<wconf, wtopics>>

\* The consumer thread starts to read when a job is cached.
ConsumerReady ==
  /\ ~wm.ready
  /\ wm.jobs # <<>>
  /\ wconf.kind # "bitcoin"
  /\ wm' = [wm EXCEPT !.ready = TRUE]
  /\ UNCHANGED <<wconf, clients, wtopics, wout>>

\* updateBlockHash(): the node took a solution of a job and names the block.
updateBlockHash(i, solution) ==
  /\ wconf.kind = "beam"
  /\ clients[i].link = "open" /\ solution.client = i
  /\ \E p \in Range(wm.pow) : p.key = solution.up
  /\ wout' = [wout EXCEPT !.rows =
       {[r EXCEPT !.hash = IF r.hash = "pow" /\ \E p \in Range(wm.pow) :
                                p.key = solution.up /\ p.share = r.share
                           THEN "block" ELSE @] : r \in @}]
  /\ UNCHANGED <<wconf, clients, wm, wtopics>>

\* Grin's detached thread: it pings three times, then inserts once.
InsertFoundBlock(share, works) ==
  /\ works \/ wconf.fails
  /\ wout' = [wout EXCEPT !.threads = @ \ {share},
                          !.rows = IF works THEN @ \cup {[share |-> share, hash |-> "block"]}
                                   ELSE @]
  /\ UNCHANGED <<wconf, clients, wm, wtopics>>

-----------------------------------------------------------------------------
(* The process *)

NewContainer(now, pos, run) ==
  [jobs |-> <<>>, queue |-> <<>>, pow |-> <<>>, ready |-> FALSE, pos |-> pos, own |-> 0,
   poolJob |-> Nothing, lastClient |-> 1, lastTime |-> now - wconf.interval,
   idTime |-> 0, idLow |-> 0, now |-> now, run |-> run]

\* The process dies and starts again: the solved shares are read from the last
\* wconf.tail ones on.
RestartWatcher ==
  /\ wconf.kind # "bitcoin"
  /\ wm.run <= wconf.deaths
  /\ LET end == Len(wtopics.solved) IN
     wm' = NewContainer(wm.now + 1, IF end > wconf.tail THEN end - wconf.tail ELSE 0, wm.run + 1)
  /\ clients' = [i \in Pools |-> NewClient(clients[i].session + 1, TRUE)]
  /\ wout' = [wout EXCEPT !.threads = {}, !.buffer = <<>>,
                          !.flushed = wm.now - wconf.flush]
  /\ UNCHANGED <<wconf, wtopics>>

\* A Beam node refuses the login: bev_ is freed while it is still in use. If the
\* process survives that, no event will come for the client any more.
LoginRefused(i) ==
  /\ wconf.kind = "beam" /\ wconf.fails
  /\ clients[i].link = "open" /\ clients[i].state = "SUBSCRIBED"
  /\ \/ /\ clients' = [clients EXCEPT ![i].link = "freed"]
        /\ UNCHANGED <<wconf, wm, wtopics, wout>>
     \/ RestartWatcher

WatchTick ==
  /\ wm.now < wconf.ticks
  /\ wm' = [wm EXCEPT !.now = @ + 1]
  /\ UNCHANGED <<wconf, clients, wtopics, wout>>

WatchInit(conf) ==
  /\ wconf = conf
  /\ clients = [i \in 1 .. conf.pools |-> NewClient(1, TRUE)]
  /\ wm = [jobs |-> <<>>, queue |-> <<>>, pow |-> <<>>, ready |-> FALSE, pos |-> 0, own |-> 0,
           poolJob |-> Nothing, lastClient |-> 1, lastTime |-> 1 - conf.interval,
           idTime |-> 0, idLow |-> 0, now |-> 1, run |-> 1]
  /\ wtopics = [jobs |-> <<>>, solved |-> <<>>]
  /\ wout = [sent |-> {}, templates |-> {}, rows |-> {}, threads |-> {}, buffer |-> <<>>,
             file |-> <<>>, flushed |-> -conf.flush]

\* What the event loop does by itself, and what the other end of a link does.
Reconnects == \E i \in Pools : \E launched \in BOOLEAN : removeAndCreateClient(i, launched)
Connects == \E i \in Pools : onConnected(i)
FirstJobs == \E i \in Pools : \E news \in wconf.news :
               clients[i].state = "SUBSCRIBED" /\ Notify(i, news)
WatchNext ==
  \/ Reconnects
  \/ Connects
  \/ \E i \in Pools : Broken(i)
  \/ \E i \in Pools : \E answer \in {"fine", "short", "error"} : SubscribeAnswer(i, answer)
  \/ \E i \in Pools : \E result \in BOOLEAN : AuthorizeAnswer(i, result)
  \/ \E i \in Pools : LoginRefused(i)
  \/ \E i \in Pools : \E news \in wconf.news : Notify(i, news)
  \/ \E late \in BOOLEAN : handleNewStratumJob(late)
  \/ \E j \in DOMAIN wtopics.jobs : SolvedShareFound(j)
  \/ ConsumerReady
  \/ consumeSolution
  \/ FlushWhenIdle
  \/ \E i \in Pools : \E solution \in wout.sent : updateBlockHash(i, solution)
  \/ \E share \in wout.threads : \E works \in BOOLEAN : InsertFoundBlock(share, works)
  \/ RestartWatcher
  \/ WatchTick

\* The watcher by itself, under any configuration.
WatchSpec ==
  /\ wconf.pools \in Nat /\ wconf.interval \in Nat
  /\ WatchInit(wconf)
  /\ [][WatchNext]_watchVars

-----------------------------------------------------------------------------
(* Properties *)

\* The proxy takes a job of a pool only when every pool before it in the list has
\* not given a job for poolInactiveInterval, whatever was reconnected, skipped or
\* ignored as a duplicate in between (sendJobToKafka() of the proxy, which only
\* remembers the last job that it took).
LowPriorityWaits ==
  wconf.kind = "proxy" =>
    \A j, k \in DOMAIN wtopics.jobs :
      LET a == wtopics.jobs[j]
          b == wtopics.jobs[k] IN
      j < k /\ a.run = b.run /\ a.client < b.client => b.at - a.at >= wconf.interval

\* The solutions that wait for the login to a Beam node.
Delayed ==
  wconf.kind = "beam" /\ \E i \in Pools : Alive(clients[i]) /\ clients[i].want # <<>>

\* Solutions for a Beam node that is not logged in yet are sent once the node gives
\* its first job, unless the connection is lost before: "client is not ready,
\* submission will be delayed" (submitShare() and handleStratumMessage() of Beam,
\* on two threads).
DelayedSolutionsSent == Delayed ~> ~Delayed
=============================================================================
