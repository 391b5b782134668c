# TLA+ models of BTCPool

BTCPool is the backend of a mining pool: a set of processes that talk to each
other through Kafka, ZooKeeper and a database. This directory holds TLA+ models
of it, the TLC configurations that check them on small instances, and proofs
that TLAPS checks for all instances. `PROJECT.json` lists components, runs,
mutants, findings, hazards and theorems, and maps each definition to the lines of
code it models.

    tlc -workers 2 -config MCMiningPath.cfg MCMiningPath   # one run
    tlapm PoolProofs.tla                                   # one module of proofs

## The system

| process | what it does | modules |
|---|---|---|
| gbtmaker, gwmaker, nmcauxmaker | ask the nodes for templates and works, send them to Kafka | `JobMaker`, `CoinWorks` |
| poolwatcher | follows other pools (or the stratum interface of Beam's and Grin's nodes), passes their jobs on and solutions back | `PoolWatcher` |
| jobmaker | chooses the best template, adds merged mining and sub-pools, sends stratum jobs | `JobMaker`, `BitcoinJob`, `CoinWorks`, `SubPools` |
| sserver | the stratum server: connections, sessions, users, jobs, difficulty, shares | `StratumConnections`, `Sessions`, `UserInfo`, `JobRepository`, `DiffController`, `ShareFlow`, `CoinShares`, `EthashCalculator`, `WorkerPool`, `WorkQueue` |
| blkmaker | puts the block of a solved share together, gives it to nodes and database | `BlockMaker`, `BitcoinJob` |
| sharelogger, slparser | the shares of a day in a file; their sums in the tables of hours and days | `ShareLog`, `Shares`, `Statistics` |
| statshttpd | sliding windows of the last hour, to the database and to Redis | `StatsServer`, `Shares`, `Statistics` |
| (library) | unique ids and locks over ZooKeeper | `ZookeeperUniqId`, `ZookeeperLock` |

A job goes from a node through a maker and the job maker into the repository of
each stratum server, from there into the local jobs of the sessions. A share
comes back to the session, is verified, and leaves as a record of the share topic
and, if it solves a block, as a solved share for the block maker. The share topic
feeds the share log and the statistics. The ids of servers and job makers, on
which the uniqueness of the miners' search spaces and of job ids rests, come from
ZooKeeper, as do the chains of the users and the coinbases of sub-pools.

Where modules meet, what one promises is what the next assumes: `ShareFlow`
extends `JobRepository` and instantiates `WorkQueue`, which `WorkerPool`
implements; `Sessions` extends `UserInfo`; `CoinShares` extends
`EthashCalculator`; `BlockMaker` and `JobMaker` share `BitcoinJob`, the one
making the block of the job that the other has made; `StatsServer` extends
`ShareLog`.

## Modules

Operators have the names of the functions they model. A module's variables are
the fields of the classes and the program counters of its threads; a variable
commented "history" only serves a property.

**StratumConnections.** The event loop's view of connections. `sessionIds`,
`count` and `allocIdx` are the fields of `SessionIDManagerT`; the scan for a free
index is the relation `ScanEndsAt`. A session's state is reduced to whether it is
authenticated, which is all that the graceful stop looks at.

**JobRepository.** `exJobs_` as a set of jobs with unique ids, and the sets of
those marked stale and clean. The consumer thread appends closures to `tasks`;
the loop runs them in order. `broadcastStratumJob` covers the eight coins, which
fall into five kinds (`Coins`): they differ in what makes a job clean and worth
sending at once.

**WorkQueue, WorkerPool.** `WorkQueue` is the abstract promise: closures start in
the order they were accepted, run once, and all of them run unless the queue is
closed. `WorkerPool` is the code: one step per critical section, wait sets as
thread states, `notify_one` as a choice, spurious wakeups.

**ShareFlow.** The Bitcoin share path. A submission names only a short id; `n`
records which notification its miner really worked on, so that `RightJob` can
compare. What share workers dispatch to the loop is the sequence `returns`: first
the marking of jobs, then the result.

**CoinShares, LocalJobs, EthashCalculator.** The same path for Ethereum, Beam, Grin,
Decred, CKB and Bytom, whose local jobs, checks and topics differ; a hash is the
difficulty that it reaches. Ethereum's shares are verified by share workers, with
the light caches of `EthashCalculator`: detached threads build and rebuild lights
without the lock and put them into the map with it. A light is a number that is
never used again, so that leaks and deletions in use can be seen. The lights of
the file are loaded in whatever order, as the map that was saved is not ordered. A
restart is of the calculator, with its threads under way: it may end at a map
entry without a light, with some of the lights written.

**UserInfo, Sessions.** `info` holds the caches of ids and chains, `zoo` the nodes,
watches and undelivered events of ZooKeeper, `api` the lists of users, `man` the
chain of management messages. Three threads (of ZooKeeper's events, of the check
of the whole cache, of management messages) run through the steps of `call` and
hand `tasks` to the loop, on which `sess` is changed by the miners' requests.
`sess[s].shown` is what a follower of the events believes of a session. The
miners behind an agent register, also under an id in use, and unregister.

**DiffController.** The share window and the difficulty of one miner with a steady
rate. Share counts are doubles in the code; here they are multiples of 1/Scale.

**JobMaker, CoinWorks, BitcoinJob.** The nodes, the makers with a polling and a
notified thread per node, the topics, and the loop of the job maker with the
handler `hd` of its coin. Timestamps are ages. `CoinWorks` has the forms that a
work goes through for each coin (answer, raw message, work, job as written, job as
read); `BitcoinJob` has the coinbase, the merkle branch and the merged mining of
Bitcoin's job. A double SHA256 of two hashes is the pair of them, so that
equality of roots is equality of contents. The key of a template is its height,
its emptiness, its age and `HashSuffix`, the last bytes of its hash, which are a
constant of its node. A template may be refused when the job is made of it
(`config.refused`, the early returns of `initFromGbt()`), and a message may be
unreadable, which Decred, RSK and Vcash do not leave without an effect.

**SubPools.** A node of ZooKeeper per sub-pool, the event thread and the polling
thread, each between reading a value and writing it, and the thread that makes
jobs. The polling thread creates the nodes, reads and watches them in steps, each
of which may fail.

**BlockMaker.** Three consumer threads, a detached thread for every submission and
row, the bounded maps of templates and jobs, Bitcoin with its merged mined chains
and sub-pools, and the submissions of the other coins. A job comes into its maps
in three critical sections (`JobMapped`, `JobRsk`, `JobAux`), between which other
threads look. Only the thread of Bitcoin's solved shares waits for the job of its
share; those of Namecoin and RSK may be ahead of it, find nothing and send a proof
with a null hash, or, for Namecoin, end the process at a null pointer.

**PoolWatcher.** Clients by place, as in `clients_`: a broken one is replaced by a
new one. Four kinds of watcher (Bitcoin's announcer of blocks, the proxy, Beam,
Grin), the caches of jobs, of delayed solutions and of Beam's hashes of work, all
of which forget their oldest entries, and the consumer thread.

**Shares, Statistics, ShareLog, StatsServer.** `Shares` reads the messages of old
and new releases and says what a share is worth; `Statistics` has the ring of a
window and the sums of a day. `ShareLog` has sharelogger and slparser; a share in
a file has two pieces, so that a reader can see half of one. A stream that throws
while it is written stays cut off there, and nothing behind it in the file can be
read. `StatsServer` has the
consumer, the two flushes and the thread of names; each Redis thread goes through
its phases and cuts its own slice out of the sets of workers and users.
`eventJob.from` is where the last start began to read the events, and
`redisJob.workers` (history) the workers of which a flush has to tell.

**ZookeeperUniqId, ZookeeperLock.** Processes, ephemeral nodes, the main thread and
the client's thread of each process. ZooKeeper is external and modelled by what
its client relies on: creation is atomic, nodes end with their session, and a
process learns of an expiry later than the others. An error of the connection
leaves open whether a node was created, and any error of the look with which
`recoveryLock()` begins is taken for the loss of the node, which may still be there.

**MC modules** give the constants their values. `MCMiningPath`, `MCZookeeper` and
`MCShareLog` hold several instances of several parts: a behaviour is one instance of one part
(`part`, `config.part`), all other parts being at rest, so that one run asks the
question of each part in the setups that matter to it (a coin, an option, a fault,
a restart).

## Runs

| run | instances | shows |
|---|---|---|
| `connections` | 3 connections, 3 ids, interval 2 | session ids are unique, never lost, and an interval apart until the allocator rolls back; the dead are reaped; a graceful stop ends |
| `job_repository` | 5 jobs of three heights and forms, 5 kinds of coin, clock to 4, life time 2 | the latest job is live and kept, superseded jobs are stale, jobs keep being sent |
| `worker_pool` | 2 callers, 2 workers, queue of 2, 4 closures | the pool implements `WorkQueue`, fairness included; `dispatch()` and `stop()` return |
| `share_flow` | 1 session, 2 jobs, 2 local jobs, 2 shares | a share meets the right job and is never lost; a solved job is stale before the answer; the current job is kept while the job maker is not silent for too long |
| `zookeeper` | 3 processes with 2 ids and an expiry; 4 of sub-pools, 4 of locks | an id is shared only while one owner is unaware of its expiry, and not forever; sub-pools and lock, see below |
| `job_makers` | 11: Bitcoin with 2 nodes, a crash, a template that is refused, Namecoin, RSK or Vcash; 5 other coins | the best template is sent at once, the height falls only after two intervals, jobs are read as they were made, jobs keep coming |
| `share_log` | 12 of one day (coins, formats, options), 4 with a day's end, failures or restarts, 9 of statshttpd | sums in memory are those of the file, rows do not shrink, every share of a calm day comes to its row; windows are those of the messages, names the latest, hashes and indexes in Redis agree |
| `mining_path` | 12 of users, 8 miners, 9 of shares, 14 of blocks, 6 of watchers | see the list below |
| `current_job_erased`, `id_registered_late`, `decred_works_cleared`, `past_day_lost` | the case alone | violated, see below |

`mining_path` and `zookeeper` check, of

* users: a session ends on the chain that ZooKeeper, the management messages or
  the reference user ask for (`UsersFollowZookeeper`), and the events say what the
  session is (`EventsFollowSessions`);
* shares: a nonce is credited once (`CreditedOnce`; for Ethereum, Beam and Grin for
  the same work, for CKB, Decred and Bytom for the same local job), a solution is
  published once for a local job (`SolutionsSentOnce`), and no light is leaked or deleted in use
  (`LightsAccounted`);
* difficulty: it settles, with shares at the wanted rate or at a limit
  (`DifficultySettles`);
* blocks: header, transactions, branch, target, commitment and table of a block
  fit together (`BlocksTrue`), and every found block reaches the nodes and its row
  (`FoundBlocksReachNodes`);
* watchers: a job of a pool of lower priority is taken only after a silence of
  those before it (`LowPriorityWaits`), delayed solutions are sent
  (`DelayedSolutionsSent`);
* sub-pools: jobs pay at last to the address written last
  (`SubPoolsFollowZookeeper`);
* locks: one holder (`LockExclusive`), and the lock passes on (`LockPassesOn`),
  unless a recovery has left a node behind that it did not find (`Abandoned`), for as
  long as the session of that node lasts.

Each property of a passing run has a mutant, a plausible mistake in one mapped
definition, which makes TLC report that property.

### Bounds

The bounds are the smallest in which the cases happen: an allocator that skips,
rolls over, fills up and reuses; jobs that expire, arrive twice and out of order;
a queue that fills up while both callers wait; short ids that wrap around after
two jobs; maps of one or two templates and jobs that evict, also with merged mining
and a sub-pool; a pool of lower priority whose job is refused, or taken after an
interval of one tick; a ring of three slots that wraps; shares that come
up to a whole window late; a day of two hours that ends while a share is late; one
event more than a restart reads again; Redis threads with slices of different
size. Clocks, queues, polls, submissions, edits,
failures, expiries, restarts and deaths are bounded by constants or by fields of
the instance (`MaxTime`, `MaxQueue`, `edits`, `faults`, `deaths`, ...), all of them
guards. Deadlock is not checked: bounded clocks stop, and so does a program that
was stopped.

Premises that the instances or the properties make, each a limit of what is shown:

* `uconf.serial`: `UsersFollowZookeeper` takes the handlers of chain changes one at
  a time. Overlapping, two of them may dispatch in the opposite order of their
  updates. One instance without it is explored for the other properties.
* `EventsFollowSessions` leaves out three cases, in which the events do not say what
  the session is. A session that asks to be authorized again after it was served: a
  later login as another user never tells that the first has gone (Grin's instance
  has two requests to authorize in a row). A dead session that is moved before it is
  erased: `switchChain()` does not ask whether it is dead, so that it is announced on
  the new chain and its end not told again. And an agent that registers a second
  worker under an id in use: that one is announced, but the first is kept.
* `CreditedOnce`, for CKB, Decred and Bytom: a job with the same content under
  another id (CKB), or another notification of it (Decred, Bytom), is a local job of
  its own with its own set of seen shares, and the same nonce is credited once for
  each. The property says of these coins only that it is credited once for each.
* `ComesBackSoon`: `CreditedOnce` and `SolutionsSentOnce` take it that content does
  not come back after as many other contents as local jobs are kept. Otherwise it
  comes back to a session that has forgotten the shares it has seen for it, and
  a share is credited twice (one local job kept, contents a, b, a, b). Beam's second
  instance has content that comes back in time.
* `bconf.lead`: a job and its template are read before a solved share found with
  them; the block maker waits three seconds to that end. It is a premise of
  `FoundBlocksReachNodes` only, and one instance is without it. The threads of merged
  mining do not wait, and are not held back in the model either: `BlocksTrue` says
  of what they send for a job that they do not know (`known`) only what is true of it,
  that the coinbase is the block's.
* `FoundBlocksReachNodes` is about a block maker that dies no more at last, since a
  Namecoin share that overtakes its job ends it each time it is read again. The
  calls to a node fail less often than they are tried. Bytom and Sia call once, and
  run without failures: a failing call of theirs loses the block.
* `SolutionsSentOnce` says nothing of a solution that cannot be verified because its
  light is missing or broken: it is refused, and not published.
* `DelayedSolutionsSent` is about Beam, the only watcher that keeps solutions back.
* At a crash of the block maker at most two solved shares are unhandled, the
  number that it reads again.
* `lconf.early`: `LockPassesOn` leaves out the lock node that goes away before the
  waiting thread has first locked its mutex; nobody wakes that thread up.
* `RedisAgrees` is about flushes during which no worker comes or goes. Otherwise
  a worker may be left out until the next flush. It is about workers whose user
  is there: a late share of one worker sets the last share time of the user back,
  so that the user may expire while another worker stays.
* `NamesAreLatest` is about the events that the last start has read again or that
  came after it: of older ones a restart knows nothing (`TailEvents`, one in the
  instance, is the offset from which the consumer starts).
* `BestIsOut` compares the works of Ethereum with the greatest height received and
  not with the last job: when the highest work has expired, the next one waits for
  the timer.
* `RowsNeverShrink` leaves out CKB, whose slparser writes between two reads, and a
  read that throws before the end of what can be read, after which slparser writes
  what it has: in both, the sums of a part replace those of the whole.
* `EveryShareAccounted` is about days without failures. A statement that fails after
  the flags were reset leaves the row behind until the worker's next share.
* `WindowsTrue` leaves out two orders of arrival that the instances have: a share
  that comes after one exactly a window younger passes both checks of its age and is
  added to the newest slot (`Misplaced`), and a late share sets the time of the last
  share back, so that the worker is removed with its younger shares (`Forgotten`).
* `JobsKeepComing` has nothing to say while there is nothing to make a job of
  (`NothingToSend`): no work was received since the start, Decred has cleared all of
  its works, or the best template is one that is refused.
* The job maker's clock does not go back, and its restart takes a tick.
* `ShareFlow`: the loop keeps up with the clock (time passes when it is idle).

### Fairness

* `StratumConnections`: the notify of jobs, a dispatched stop and the persistent
  timer happen, because the consumer thread dispatches a check after every poll
  and libevent runs what is active. Nobody has to connect, authorize or die.
* `JobRepository`: the consumer thread polls with a timeout of at most a second;
  the loop runs its closures.
* `WorkerPool`: each thread goes on when it can get the mutex; a closure ends.
  Nothing is assumed of condition variables beyond their notifications.
* `ShareFlow`: share workers and loop go on until the server is stopped.
* `ZookeeperUniqId`, `ZookeeperLock`: the client's thread notices an expired
  session and delivers events, a recovery ends one way or the other, and a thread
  in `getLock()` goes on. Nobody has to release a lock.
* `JobMaker`: the loop runs, a process that is down is started again, time passes.
  Nothing is assumed of nodes, makers and Kafka.
* `ShareLog`: sharelogger goes on while it has something to do, slparser always
  (both are loops with timers); an interval that is looked at again and again has
  passed at some time. `StatsServer` has no liveness property.
* `MCMiningPath`: each thread of UserInfo and the loop go on; the miner mines and is
  sent jobs; some thread of the block maker that can go on does, and a block maker
  that died is restarted; a watcher reconnects, its link comes up, and a pool that
  a client has subscribed to sends a first job.
* `MCZookeeper`: as the modules, and the threads of sub-pools go on.

Where an action is enabled is written out as a state predicate (`LoopReady`,
`StartReady`) when TLC would take too long to find it out.

### Disagreements found

* `current_job_erased`: `tryCleanExpiredJobs()` keeps one job, the one of the
  greatest id, but the job that the miners were sent last is erased when it is
  expired and a newer job has been inserted that was not sent. Their shares are
  answered with JOB_NOT_FOUND until the next notify, although the code says of
  that case that the miner submitted a very outdated job.
* `id_registered_late`: an id is entered into `uniqIds_` after its node was
  created. If the session is replaced in between, nothing recovers the id, and
  another process gets it while both sessions are alive.
* `decred_works_cleared`: Decred's `clearTimeoutWorks()` asks for the number of
  works once, before its loop. When all works have expired and the message at hand
  is refused, none is left and jobs cease, although the comment promises to keep
  one.
* `past_day_lost`: a share that reaches the file of a day after slparser has gone
  to the next file is in no row. The comment of `flushToDB()` relies on
  `processUnchangedShareLog()`, which only an operator starts.

## Proofs

For every value of the constants, from the named assumptions of the modules. TLC
evaluates the assumptions on the instances of the runs.

**StratumServerProofs** (`StratumConnections`, `Sessions`).
`TypeOK`, `UniqueSessionIds`, `CountExact`, `NoIdLeak`, `IntervalReserved`, for any
number of connections and ids and any interval. The invariant adds
`BelowAllocIdx`: until the allocator rolls back, all ids in use end an interval
below `allocIdx`, which therefore is free, so that the scan does not move. That
`count` stays exact rests on the distinctness of the ids of dead connections
(`FreedCount`).
`EventsFollowSessions`, with the three cases left out, for any users, chains,
sessions, agents, orders of events and overlapping handlers. The invariant says that the user id of a session on its
chain is that of its user, that nothing was told of a session before its login,
and that a session whose login is being looked up was not served already; and
that caches, management and tasks only hold chains that exist, as the chain of a
session comes from there (`ChainsExist`). Assumed: a miner behind an agent is not
one of the users (`MinersAssumption`), the name for nobody is no user
(`UsersAssumption`), and a configuration has a chain and lists users (`UserConf`).

**ShareFlowProofs** (`JobRepository`, `ShareFlow`).
Of the repository `TypeOK`, `LatestLive`, `SupersededStale`, `StaleExplained` and
the action property `LatestKept`. The invariant adds that a repository with jobs
has a latest one (sets of jobs need not be finite) and that no job is above
`lastHeight`, except for Sia and after an upstream pool has switched. Ids grow with
the time of the jobs (`JobsAssumption`).
Of the whole server `RightJob`, `SolvedJobStale`, `CurrentJobKept`, and once more
the properties of the repository (`RepositoryInServer`), for any number of
sessions, jobs, nonces and submits. The invariant says that the local jobs of a
session are the last of those it was sent, with short ids by their number modulo
the window (`Numbered`), that the last one is not older than the last broadcast
(`SentSince`), that a job which left the repository has a later one there
(`JobsKnown`), and that the closure which makes a job stale is before the result
that comes back for it (`BlocksMarked`).

**CoinSharesProofs** (`CoinShares`): `CreditedOnce` and `SolutionsSentOnce`, for each
of the six coins and any number of jobs, shares and share workers. A share is
refused as a duplicate by what its local job has seen, and local jobs go away. The
invariant says of each share that was credited, sent or is being verified that it
is spent: its session is gone, or every local job of its work has seen it, or that
work will not be given again. Assumed is `ShareConf`, with `ComesBackSoon` for
coins whose local jobs are found by content.

**LightsProofs** (`EthashCalculator`): `LightsAccounted`, for any number of threads
that build, rebuild and use lights. The invariant says that the map holds exactly
the lights that were not deleted, none twice, and that the queue beside it has keys
of the map, each once. Nothing is assumed of what a thread saw before it took
the lock.

**JobMakerProofs** (`JobMaker`, `BitcoinJob`, `CoinWorks`): `BestIsOut`, the action
property `HeightFallsLate` and `JobsReadBack`, for any nodes, heights, ages and
messages that are late, lost or out of order. The invariant says of Bitcoin's
handler that its last job has the height and the emptiness that it remembers and
that no template it has is better; and of every height with transactions that was
heard of within the life time of a template, that the handler has a template of it
that is as new. As the key begins with height and emptiness, the template of the
greatest key is never of a lower height. Assumed (`TimesAssumption`): templates
with transactions live for two job intervals at least, and longer than empty ones,
as in the sample configurations (90, 20 and 15 seconds); nothing in the code
enforces it, and `HeightFallsLate` rests on it. Merged mining is for Bitcoin only
(`ConfigsAssumption`).

**StatsServerProofs** (`StatsServer`): `RedisAgrees`, `NamesAreLatest`, and
`CountersTrue`, the part of `WindowsTrue` that is about counters; for any number of
workers, users, events, restarts and Redis threads. The threads of a flush write
slices of the sets while shares are counted and names are set. The invariant says
of each thread what it has read and how far the hashes and indexes of its slice are
written; that stays so because slices are apart, the key of a user is no worker's,
and an event changes only a name. That every worker is in a slice rests on the
size that is rounded up. Of the names it says that the row of a key has the last
name of the events consumed, and that the one being handled writes its own
whatever a flush inserts in between. Assumed (`StatsAssumption`): shares have the
fields that are read, there is a Redis thread, and the coin is one of the eight.

**PoolProofs** (`WorkerPool`, `PoolWatcher`).
Every step of the worker pool is a step of `WorkQueue` or none
(`PoolImplementsQueue`, the safety part of `ImplementsQueue`), and the circular
buffer never overflows (`NeverOverwritten`). The invariant says that a closure is at
one place only (`Places`): not yet dispatched, in a call, in the queue, with a
worker, or done. Without it a closure that is popped could be one that another
worker is running, and the mapping of the running set would fail.
`LowPriorityWaits`, for any number of pools, any interval and any news. The
container remembers only the last job that it took; the invariant says that this is
the last of the run and that none of the run is younger.

**ZookeeperProofs** (`ZookeeperUniqId`, `ZookeeperLock`).
`TypeOK` and `SharedOnlyWhileExpired`: the invariant says that a process working
with an id holds its node unless its session has expired or was replaced; nodes
have one holder.
`LockExclusive`, for any number of processes, expiries, reconnections, recoveries
and crashes: the invariant (`LockInv`) says that who believes to have the lock owns
the node of the smallest number, that numbers are given out once, and that
`locked_` is false while a recovery looks for a new node; only one process can own
the smallest (`FirstIsOne`).

Model-checked only:

* all liveness properties (`JobsKeepComing`, `EveryShareAccounted`,
  `UsersFollowZookeeper`, `FoundBlocksReachNodes`, ...) and the fairness part of
  `ImplementsQueue`, as the prover handles neither fairness nor ENABLED;
* `MemoryIsFile`, `RowsNeverShrink` and the sums of `WindowsTrue`, which say what
  folds over all the shares of a file or a topic come to, and `BlocksTrue`, where the
  merkle root of a block is that of a branch of any length: all need induction over
  data, which the prover does not have;
* `DifficultySettles`, which is about what the difficulty comes to in the end.

## Not modelled

* The load simulator (`StratumClient*`, `simulator`): a test tool.
* The wrappers of Kafka, MySQL and Redis, HTTP, configuration, logging: I/O. Their
  callers see, in the models, messages that are lost, late or repeated and
  statements that fail.
* Texts and formats of messages, except where two programs must agree on them
  (jobs, shares); hash functions and proofs of work, which are outcomes.
* TLS and metrics, which read and do not change the state of the pool.
* Sia's share path: no session of Sia comes to the state in which it is sent a job.
* The light form of templates of Bitcoin Cash and Bitcoin SV in the gbtmaker (the
  block maker's side of it is modelled), and the switcher build, in which session
  ids come from elsewhere.
* The signal handlers, which stop a program from whatever thread they interrupt:
  here a program is stopped from a thread of its own.
* More than one lock or id in a process: `removeLock()` and `removeUniqId()` find
  only the first of a list, and no process has two. The lock itself has no caller
  in the repository; it is modelled for its own promise.
* The end of an automatic registration: its steps are modelled, but nothing in the
  code promises that the answer comes, so no property says so.
