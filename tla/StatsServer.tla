----------------------------- MODULE StatsServer -----------------------------
(***************************************************************************)
(* statshttpd: the shares of the last hour of every worker, user and of    *)
(* the pool, kept in sliding windows by the thread that consumes the share *)
(* topic, and written by threads of their own to table mining_workers and  *)
(* to Redis; a thread for the events of the miners' names; and what the    *)
(* HTTP requests read.                                                     *)
(*                                                                         *)
(* A tick of the clock is a slot of the windows.  The windows of accepted  *)
(* shares (slots of 10 seconds) and of the others (60 seconds) have slots  *)
(* of one length, and those of the reasons of a rejection are one window.  *)
(***************************************************************************)
EXTENDS ShareLog

CONSTANTS
  TailOffset,        \* kConsumeLatestN: the shares that a start reads again
  TailEvents,        \* kConsumeLatestN of the common events
  Minute,            \* how old the share is that ends the initialization
  RedisConcurrency,  \* redisConcurrency_
  Names              \* what miners call themselves

\* A share has its fields, and a configuration one of the coins.
ASSUME StatsAssumption ==
  /\ RedisConcurrency \in Nat \ {0} /\ {TailOffset, TailEvents} \subseteq Nat
  /\ \A c \in Configs :
       /\ c.coin \in {"bitcoin", "eth", "decred", "sia", "bytom", "beam", "grin", "ckb"}
       /\ \A m \in c.kinds :
            /\ "share" \in DOMAIN m
            /\ {"user", "worker", "ext", "status", "time", "height"} \subseteq DOMAIN m.share

VARIABLES
  sv,       \* the server: up, initializing (isInitializing_), from and pos (the
            \* messages consumed), workers (workerSet_), users (userSet_), pool
            \* (poolWorker_), userWorkerCount, totalWorkers, totalUsers,
            \* lastShareTime, dups, lastFlush (lastFlushTime_)
  dbJob,    \* the thread that flushes to the database: its step and values
  redisJob, \* the flush to Redis: the phase and the values of each thread that is
            \* left, and the workers of the users at the start (none if the sets of
            \* workers and users have changed)
  events,   \* the common events, all of them: the worker and its name
  eventJob, \* the events consumed, from which one on (from), and the row as the
            \* last one has found it
  mining,   \* table mining_workers: the sums, the name and the group of a key
  redis     \* the hashes of the keys (the name, the sums and the count of workers)
            \* and the indexes, by worker

statsVars == <<sv, dbJob, redisJob, events, eventJob, mining, redis>>
vars == <<logVars, statsVars>>

-----------------------------------------------------------------------------
(* WorkerShares *)

NewWorker == [accept |-> NewWindow, stale |-> NewWindow, reject |-> NewWindow,
              acceptCount |-> 0, lastShareTime |-> 0, lastAcceptDiff |-> 1]

TooOld(s) == now > s.time + WindowSize

\* WorkerShares::processShare()
processWorkerShare(ws, s) ==
  IF TooOld(s) THEN ws
  ELSE LET counted ==
             IF Counts(s, config.acceptStale)
             THEN [ws EXCEPT !.accept = insert(@, s.time, s.diff),
                             !.acceptCount = @ + 1,
                             !.lastAcceptDiff = IF s.diff > 0 THEN s.diff ELSE @]
             ELSE IF isAnyStale(s.status) THEN [ws EXCEPT !.stale = insert(@, s.time, s.diff)]
             ELSE [ws EXCEPT !.reject = insert(@, s.time, s.diff)]
       IN [counted EXCEPT !.lastShareTime = s.time]

\* getWorkerStatus(): the sums of the last slots and of the whole window.
StatusOfWindow(w, len) == sum(w, now, len)
getWorkerStatus(ws) ==
  [len \in 1 .. WindowSize |->
     [accept |-> StatusOfWindow(ws.accept, len), stale |-> StatusOfWindow(ws.stale, len),
      reject |-> StatusOfWindow(ws.reject, len)]]

isExpired(ws) == ws.lastShareTime + WindowSize < now

-----------------------------------------------------------------------------
(* The thread that consumes the shares *)

Empty == [k \in {} |-> None]
NoEvent == [from |-> 0, done |-> 0, phase |-> "select", found |-> FALSE, group |-> 0]
At(f, k, default) == IF k \in DOMAIN f THEN f[k] ELSE default

\* setupThreadConsume()
StartStats ==
  /\ config.part = "stats" /\ ~sv.up
  /\ LET from == Max({0, Len(topic) - TailOffset})
     IN sv' = [up |-> TRUE, initializing |-> TRUE, from |-> from, pos |-> from,
               workers |-> Empty, users |-> Empty, pool |-> NewWorker,
               userWorkerCount |-> Empty, totalWorkers |-> 0, totalUsers |-> 0,
               lastShareTime |-> 0, dups |-> NewChecker, lastFlush |-> sv.lastFlush]
  /\ LET from == Max({0, Len(events) - TailEvents})
     IN eventJob' = [NoEvent EXCEPT !.from = from, !.done = from]
  /\ UNCHANGED <<logVars, dbJob, redisJob, events, mining, redis>>

\* consumeShareLog(): the share, as the statistics are to count it, or None.
Consumed(m) ==
  LET u == UnserializeWithVersion(config.coin, m)
      s == IF u = None THEN None ELSE ofSingleUser(u)
  IN IF s = None \/ (s # None /\ ~isValid(config.coin, s)) THEN None ELSE s

\* _processShare(): the worker's statistics first, which may lower the difficulty
\* of the share, then the user's and the pool's.
Processed(v, s) ==
  LET wkey == <<s.user, s.worker>>
      worker == At(v.workers, wkey, NewWorker)
      n == IF TooOld(s) THEN s ELSE Normalised(worker, s, config.acceptStale)
      newWorker == wkey \notin DOMAIN v.workers
      newUser == s.user \notin DOMAIN v.users
  IN [v EXCEPT
       !.workers = Put(@, wkey, processWorkerShare(worker, n)),
       !.users = Put(@, s.user, processWorkerShare(At(@, s.user, NewWorker), n)),
       !.pool = processWorkerShare(@, n),
       !.totalWorkers = @ + IF newWorker THEN 1 ELSE 0,
       !.totalUsers = @ + IF newUser THEN 1 ELSE 0,
       !.userWorkerCount = IF newWorker THEN Put(@, s.user, At(@, s.user, 0) + 1) ELSE @]

processStatsShare(v, s) ==
  LET c == Checked(v.dups, s)
      seen == [v EXCEPT !.lastShareTime = s.time,
                        !.dups = IF config.dupCheck THEN addGShare(@, s.height, s.id) ELSE @]
  IN IF TooOld(c) \/ ~filterShare(config.coin, config.algorithm, c) THEN seen
     ELSE Processed(seen, c)

\* The sets of workers and users are changed under the write lock.
ReadLocked == dbJob.step = "users"
NeedsWriteLock(v) == DOMAIN v.workers # DOMAIN sv.workers \/ DOMAIN v.users # DOMAIN sv.users
SetChanged == redisJob' = IF NeedsWriteLock(sv') THEN [redisJob EXCEPT !.workers = {}]
                          ELSE redisJob

\* The initialization ends with a share of the last minute.
AfterMessage(v) ==
  IF v.initializing /\ v.lastShareTime + Minute >= now
  THEN [v EXCEPT !.initializing = FALSE] ELSE v

consumeStatsShare ==
  /\ sv.up /\ sv.pos < Len(topic)
  /\ LET s == Consumed(topic[sv.pos + 1])
         v == IF s = None THEN sv ELSE processStatsShare(sv, s)
     IN /\ ~(ReadLocked /\ NeedsWriteLock(v))
        /\ sv' = AfterMessage([v EXCEPT !.pos = @ + 1])
  /\ SetChanged
  /\ UNCHANGED <<logVars, dbJob, events, eventJob, mining, redis>>

\* No message in five minutes.
InitializationTimesOut ==
  /\ sv.up /\ sv.initializing /\ sv.pos = Len(topic)
  /\ sv' = [sv EXCEPT !.initializing = FALSE]
  /\ UNCHANGED <<logVars, dbJob, redisJob, events, eventJob, mining, redis>>

\* removeExpiredWorkers()
Unexpired(f) == {k \in DOMAIN f : ~isExpired(f[k])}
removeExpiredWorkers ==
  LET ws == Unexpired(sv.workers)
      us == Unexpired(sv.users)
      gone == (DOMAIN sv.workers) \ ws
      removed(u) == Cardinality({k \in gone : k[1] = u})
      counted == {u \in DOMAIN sv.userWorkerCount :
                    removed(u) > 0 => sv.userWorkerCount[u] > removed(u)}
  IN [sv EXCEPT
       !.workers = [k \in ws |-> sv.workers[k]],
       !.users = [u \in us |-> sv.users[u]],
       !.totalWorkers = @ - Cardinality(gone),
       !.totalUsers = @ - Cardinality((DOMAIN sv.users) \ us),
       !.userWorkerCount = [u \in counted |-> sv.userWorkerCount[u] - removed(u)]]
CleanExpired ==
  /\ sv.up /\ ~sv.initializing /\ ~ReadLocked
  /\ \E k \in DOMAIN sv.workers : isExpired(sv.workers[k])
  /\ sv' = removeExpiredWorkers
  /\ SetChanged
  /\ UNCHANGED <<logVars, dbJob, events, eventJob, mining, redis>>

\* getWorkerStatus() of a user without workers leaves a count of zero behind.
AskForUser ==
  /\ sv.up /\ ~sv.initializing
  /\ \E m \in config.kinds :
       /\ m.share.user \notin DOMAIN sv.userWorkerCount
       /\ sv' = [sv EXCEPT !.userWorkerCount = Put(@, m.share.user, 0)]
  /\ UNCHANGED <<logVars, dbJob, redisJob, events, eventJob, mining, redis>>

-----------------------------------------------------------------------------
(* The flush to the database: flushWorkersAndUsersToDB() and its thread *)

NoFlush == [step |-> "none", values |-> Empty]

\* One flush at a time (isInserting_).  The read lock is held from the first of
\* the workers to the last of the users: shares are counted, but no worker comes
\* or goes.
flushToMiningWorkers ==
  /\ sv.up /\ ~sv.initializing /\ config.mysql /\ dbJob.step = "none"
  /\ dbJob' = [step |-> "users",
               values |-> [k \in DOMAIN sv.workers |-> getWorkerStatus(sv.workers[k])]]
  /\ UNCHANGED <<logVars, sv, redisJob, events, eventJob, mining, redis>>

FlushUsers ==
  /\ dbJob.step = "users"
  /\ dbJob' = [step |-> "write",
               values |-> Over([k \in {<<u, 0>> : u \in DOMAIN sv.users} |->
                                  getWorkerStatus(sv.users[k[1]])], dbJob.values)]
  /\ UNCHANGED <<logVars, sv, redisJob, events, eventJob, mining, redis>>

\* The rows are inserted without a name, in the default group; where there is a
\* row, its sums only are updated.  The mutant replaces the row.
NoSums == [len \in 1 .. WindowSize |-> [accept |-> 0, stale |-> 0, reject |-> 0]]
NewRow(k) == [sums |-> NoSums, name |-> "", group |-> 0 - k[1]]
MergeWholeRows(values) ==
  Over([k \in DOMAIN values |-> [NewRow(k) EXCEPT !.sums = values[k]]], mining)
MergeRows(values) ==
  Over([k \in DOMAIN values |-> [At(mining, k, NewRow(k)) EXCEPT !.sums = values[k]]],
       mining)

MergeToMiningWorkers ==
  /\ dbJob.step = "write"
  /\ mining' = MergeRows(dbJob.values)
  /\ sv' = [sv EXCEPT !.lastFlush = IF dbJob.values = Empty THEN @ ELSE now]
  /\ dbJob' = NoFlush
  /\ UNCHANGED <<logVars, redisJob, events, eventJob, redis>>

\* A statement fails.  update() returns -1 when the last one fails, which is
\* taken for success: the time of the flush is set.
MergeFails ==
  /\ dbJob.step = "write" /\ dbJob.values # Empty
  /\ Fault
  /\ \E t \in {now, sv.lastFlush} : sv' = [sv EXCEPT !.lastFlush = t]
  /\ dbJob' = NoFlush
  /\ UNCHANGED <<topicVars, loggerVars, parserVars, crashes, redisJob, events, eventJob,
                 mining, redis>>

-----------------------------------------------------------------------------
(* The flush to Redis: each of its threads writes a slice of the workers, *)
(* their index and a slice of the users.                                  *)

NoRedisFlush == [steps |-> Empty, workers |-> {}]
NoHash == [name |-> "", status |-> None, count |-> 0]

\* The slice of a thread: the size is rounded up.  The mutant rounds it down.
StepSizeDown(n) == n \div RedisConcurrency
StepSize(n) == n \div RedisConcurrency + IF n % RedisConcurrency # 0 THEN 1 ELSE 0
Slice(f, step) ==
  LET n == Cardinality(DOMAIN f)
      keys == CHOOSE g \in Bijection(1 .. n, DOMAIN f) : TRUE
  IN {keys[i] : i \in {j \in 1 .. n : step * StepSize(n) < j /\ j <= (step + 1) * StepSize(n)}}

flushToRedis ==
  /\ sv.up /\ ~sv.initializing /\ config.redis /\ redisJob.steps = Empty
  /\ redisJob' = [steps |-> [step \in 0 .. RedisConcurrency - 1 |->
                              [phase |-> "check", values |-> Empty]],
                  workers |-> {k \in DOMAIN sv.workers : k[1] \in DOMAIN sv.users}]
  /\ UNCHANGED <<logVars, sv, dbJob, events, eventJob, mining, redis>>

\* What a thread does next, and with which values; and its end.
GoesOn(step, phase, values) ==
  redisJob' = [redisJob EXCEPT !.steps[step] = [phase |-> phase, values |-> values]]
Finishes(step) ==
  redisJob' = [redisJob EXCEPT !.steps = [s \in DOMAIN @ \ {step} |-> @[s]]]
ValuesOf(step) == redisJob.steps[step].values
InPhase(step, phase) == step \in DOMAIN redisJob.steps /\ redisJob.steps[step].phase = phase

\* flushWorkersToRedis(): the slice is read under the lock ...
ReadWorkers(step) ==
  /\ InPhase(step, "check")
  /\ GoesOn(step, "workers",
            [k \in Slice(sv.workers, step) |->
               [status |-> getWorkerStatus(sv.workers[k]), count |-> 0]])
  /\ UNCHANGED <<logVars, sv, dbJob, events, eventJob, mining, redis>>

\* ... and written without it.  A hash keeps the name that an event has set; an
\* empty slice has no index.
Hashes(values) ==
  [k \in DOMAIN values |->
     [At(redis.hash, k, NoHash) EXCEPT !.status = values[k].status, !.count = values[k].count]]
flushWorkersToRedis(step) ==
  /\ InPhase(step, "workers")
  /\ redis' = [redis EXCEPT !.hash = Over(Hashes(ValuesOf(step)), @)]
  /\ GoesOn(step, IF ValuesOf(step) = Empty THEN "users" ELSE "index", ValuesOf(step))
  /\ UNCHANGED <<logVars, sv, dbJob, events, eventJob, mining>>

\* addIndexToBuffer(): what a worker has in the indexes of its user.  Nothing
\* takes it out again.
addIndexToBuffer(values) == [k \in DOMAIN values |-> values[k].status]
flushIndexToRedis(step) ==
  /\ InPhase(step, "index")
  /\ redis' = [redis EXCEPT !.index = Over(addIndexToBuffer(ValuesOf(step)), @)]
  /\ GoesOn(step, "users", Empty)
  /\ UNCHANGED <<logVars, sv, dbJob, events, eventJob, mining>>

\* flushUsersToRedis(): the same for the users, with the number of their workers,
\* which is set to zero where there is none.
ReadUsers(step) ==
  /\ InPhase(step, "users")
  /\ LET us == Slice(sv.users, step)
     IN /\ GoesOn(step, "hash",
                  [k \in {<<u, 0>> : u \in us} |->
                     [status |-> getWorkerStatus(sv.users[k[1]]),
                      count |-> At(sv.userWorkerCount, k[1], 0)]])
        /\ sv' = [sv EXCEPT !.userWorkerCount = Over(@, [u \in us |-> 0])]
  /\ UNCHANGED <<logVars, dbJob, events, eventJob, mining, redis>>
flushUsersToRedis(step) ==
  /\ InPhase(step, "hash")
  /\ redis' = [redis EXCEPT !.hash = Over(Hashes(ValuesOf(step)), @)]
  /\ Finishes(step)
  /\ UNCHANGED <<logVars, sv, dbJob, events, eventJob, mining>>

\* The server does not answer the ping: checkRedis() ends the thread.
checkRedisFails(step) ==
  /\ InPhase(step, "check")
  /\ Fault
  /\ redisJob' = [steps |-> [s \in DOMAIN redisJob.steps \ {step} |-> redisJob.steps[s]],
                  workers |-> {}]
  /\ UNCHANGED <<topicVars, loggerVars, parserVars, crashes, sv, dbJob, events, eventJob,
                 mining, redis>>

\* A command fails, of a key or of the index of a user: that is logged, and the
\* thread goes on with the others.
CommandOf(step, k) ==
  IF InPhase(step, "index") THEN {j \in DOMAIN ValuesOf(step) : j[1] = k[1]} ELSE {k}
CommandsFail(step) ==
  /\ step \in DOMAIN redisJob.steps
  /\ Fault
  /\ \E k \in DOMAIN ValuesOf(step) :
       redisJob' = [steps |-> [redisJob.steps EXCEPT ![step].values =
                                 [j \in DOMAIN @ \ CommandOf(step, k) |-> @[j]]],
                    workers |-> {}]
  /\ UNCHANGED <<topicVars, loggerVars, parserVars, crashes, sv, dbJob, events, eventJob,
                 mining, redis>>

RedisNext ==
  \/ flushToRedis
  \/ \E step \in DOMAIN redisJob.steps :
       \/ ReadWorkers(step) \/ flushWorkersToRedis(step) \/ flushIndexToRedis(step)
       \/ ReadUsers(step) \/ flushUsersToRedis(step)
       \/ checkRedisFails(step) \/ CommandsFail(step)

-----------------------------------------------------------------------------
(* The events: a miner has connected, or changed its name *)

\* The worker that consumeCommonEvents() takes an event to be about: in single user
\* mode one of the user that the single user mines for, or None.
EventKey(miner) ==
  LET m == ofSingleUser(miner) IN IF m = None THEN None ELSE <<m.user, m.worker>>

SendEvent ==
  /\ config.part = "stats" /\ Len(events) < config.maxEvents
  /\ \E m \in config.kinds, name \in Names :
       events' = Append(events, [key |-> EventKey(m.share), name |-> name])
  /\ UNCHANGED <<logVars, sv, dbJob, redisJob, eventJob, mining, redis>>

Event == events[eventJob.done + 1]
EventIsNext == sv.up /\ eventJob.phase = "select" /\ eventJob.done < Len(events)
NextEvent == [NoEvent EXCEPT !.from = eventJob.from, !.done = eventJob.done + 1]
IgnoreEvent ==
  /\ EventIsNext /\ Event.key = None
  /\ eventJob' = NextEvent
  /\ UNCHANGED <<logVars, sv, dbJob, redisJob, events, mining, redis>>

\* updateWorkerStatusToDB(): first the look for the row ...
SelectGroup ==
  /\ EventIsNext /\ Event.key # None
  /\ LET found == Event.key \in DOMAIN mining
     IN eventJob' = [eventJob EXCEPT !.phase = "write", !.found = found,
                                     !.group = IF found THEN mining[Event.key].group ELSE 0]
  /\ UNCHANGED <<logVars, sv, dbJob, redisJob, events, mining, redis>>

\* ... then an update, which takes a miner out of the group of the deleted, or an
\* insertion that leaves the group of a row that was inserted in between.
NamedRow(e) ==
  LET row == [At(mining, e.key, NewRow(e.key)) EXCEPT !.name = e.name]
  IN IF ~eventJob.found THEN row
     ELSE [row EXCEPT !.group = IF eventJob.group = 0 THEN 0 - e.key[1] ELSE eventJob.group]

\* updateWorkerStatusToRedis() follows.
NamedHash(e) ==
  [redis EXCEPT !.hash = Put(@, e.key, [At(@, e.key, NoHash) EXCEPT !.name = e.name])]
updateWorkerStatus ==
  /\ eventJob.phase = "write"
  /\ mining' = Put(mining, Event.key, NamedRow(Event))
  /\ redis' = NamedHash(Event)
  /\ eventJob' = NextEvent
  /\ UNCHANGED <<logVars, sv, dbJob, redisJob, events>>

\* The statement fails, or the command of Redis.
updateWorkerStatusFails ==
  /\ eventJob.phase = "write"
  /\ Fault
  /\ \/ mining' = Put(mining, Event.key, NamedRow(Event)) /\ UNCHANGED redis
     \/ redis' = NamedHash(Event) /\ UNCHANGED mining
  /\ eventJob' = NextEvent
  /\ UNCHANGED <<topicVars, loggerVars, parserVars, crashes, sv, dbJob, redisJob, events>>

-----------------------------------------------------------------------------
\* A stop or a crash takes the threads of the flushes and of the events with it.
StopStats ==
  /\ sv.up
  /\ Crash
  /\ sv' = [sv EXCEPT !.up = FALSE]
  /\ dbJob' = NoFlush
  /\ redisJob' = NoRedisFlush
  /\ eventJob' = NoEvent
  /\ UNCHANGED <<topicVars, loggerVars, parserVars, faults, events, mining, redis>>

InitStats ==
  /\ sv = [up |-> FALSE, initializing |-> TRUE, from |-> 0, pos |-> 0, workers |-> Empty,
           users |-> Empty, pool |-> NewWorker, userWorkerCount |-> Empty,
           totalWorkers |-> 0, totalUsers |-> 0, lastShareTime |-> 0,
           dups |-> NewChecker, lastFlush |-> 0]
  /\ dbJob = NoFlush
  /\ redisJob = NoRedisFlush
  /\ events = <<>>
  /\ eventJob = NoEvent
  /\ mining = Empty
  /\ redis = [hash |-> Empty, index |-> Empty]

StatsNext ==
  \/ StartStats \/ consumeStatsShare \/ InitializationTimesOut \/ CleanExpired
  \/ AskForUser \/ flushToMiningWorkers \/ FlushUsers \/ MergeToMiningWorkers
  \/ MergeFails \/ RedisNext
  \/ SendEvent \/ IgnoreEvent \/ SelectGroup \/ updateWorkerStatus \/ updateWorkerStatusFails
  \/ StopStats

Init == InitLog /\ InitStats
Next ==
  \/ (NextHour \/ SendShare) /\ UNCHANGED statsVars
  \/ config.part = "log" /\ (LoggerNext \/ ParserNext) /\ UNCHANGED statsVars
  \/ config.part = "stats" /\ StatsNext

Spec == Init /\ [][Next]_vars /\ (config.part = "log" => LogFairness)

-----------------------------------------------------------------------------
(* What the windows should hold, from the messages themselves *)

WindowShares == {i \in sv.from + 1 .. sv.pos :
                   /\ Consumed(topic[i]) # None
                   /\ filterShare(config.coin, config.algorithm, Consumed(topic[i]))
                   /\ now - WindowSize < topic[i].share.time}
Repeated(i) == config.dupCheck /\ \E j \in sv.from + 1 .. i - 1 :
                 SameShare(topic[j].share, topic[i].share)
AcceptedOf(key) ==
  {i \in WindowShares :
     LET s == Consumed(topic[i])
     IN /\ key \in {PoolKey, <<s.user, 0>>, <<s.user, s.worker>>}
        /\ ~Repeated(i) /\ Counts(s, config.acceptStale)}
SumOf(f, name) ==
  MapThenSumSet(LAMBDA k : sum(f[k][name], now, WindowSize), DOMAIN f)

\* The counters of workers and users, and of the workers of a user, are true while
\* workers expire and come back (_processShare(), removeExpiredWorkers()).
WorkersOf(u) == {k \in DOMAIN sv.workers : k[1] = u}
CountersTrue ==
  /\ sv.totalWorkers = Cardinality(DOMAIN sv.workers)
  /\ sv.totalUsers = Cardinality(DOMAIN sv.users)
  /\ \A u \in {k[1] : k \in DOMAIN sv.workers} \cup DOMAIN sv.userWorkerCount :
       At(sv.userWorkerCount, u, 0) = Cardinality(WorkersOf(u))

\* Two orders of shares in which the code counts wrongly.  A share that comes exactly a
\* window after a newer one passes both checks of its age and is added to the slot of
\* that one (StatsWindow::insert()); and a late share sets lastShareTime_ back, so
\* that a worker or user is removed, one window after it, with the newer shares that
\* it has in the window (WorkerShares::processShare(), isExpired()).
TimeOf(i) == topic[i].share.time
OutOfOrder ==
  {p \in (sv.from + 1 .. sv.pos) \X (sv.from + 1 .. sv.pos) :
     p[1] < p[2] /\ TimeOf(p[1]) > TimeOf(p[2])}
Concerns(i, key) ==
  LET s == Consumed(topic[i])
  IN s # None /\ key \in {PoolKey, <<s.user, 0>>, <<s.user, s.worker>>}
LateAfter(key) ==
  {p \in OutOfOrder : p[1] \in WindowShares /\ Concerns(p[1], key) /\ Concerns(p[2], key)}
Misplaced(key) ==
  \E p \in LateAfter(key) : TimeOf(p[1]) = TimeOf(p[2]) + WindowSize
Forgotten(key) ==
  \E p \in LateAfter(key) : TimeOf(p[2]) + WindowSize < now

\* What the server shows of the last hour of a worker is the sum of the shares
\* that it has consumed, and every worker with such shares is there; the sums of
\* the users and of the pool are those of the workers, and the counters are true:
\* while workers expire and come back, shares come out of order (but for the two
\* orders above), and a restart reads the end of the topic again (_processShare(),
\* removeExpiredWorkers(), StatsWindow).
WindowsTrue ==
  sv.up =>
    /\ CountersTrue
    /\ \A key \in ShareKeys :
         key[2] # 0 /\ ~Misplaced(key) /\ ~Forgotten(key) =>
           StatusOfWindow(At(sv.workers, key, NewWorker).accept, WindowSize)
             = MapThenSumSet(LAMBDA i : Consumed(topic[i]).diff, AcceptedOf(key))
    /\ ~Misplaced(PoolKey) /\ (\A key \in ShareKeys \ {PoolKey} : ~Forgotten(key)) =>
         \A name \in {"accept", "stale", "reject"} :
           /\ SumOf(sv.workers, name) = SumOf(sv.users, name)
           /\ SumOf(sv.users, name) = sum(sv.pool[name], now, WindowSize)

\* A worker is listed under the name that it gave last once the events are
\* consumed, if that event was not too old for the last start to read it: the
\* rows that the flushes insert without a name, in the gap between the select and
\* the insertion as well, and the events that a restart reads again do not change
\* that (updateWorkerStatusToDB(), mergeSQL).
LastOfKey(i, n) == \A j \in i + 1 .. n : events[j].key # events[i].key
NamedAs(e) ==
  /\ e.key \in DOMAIN mining /\ mining[e.key].name = e.name
  /\ e.key \in DOMAIN redis.hash /\ redis.hash[e.key].name = e.name
NamesAreLatest ==
  sv.up /\ faults = 0 /\ eventJob.done = Len(events) =>
    \A i \in eventJob.from + 1 .. Len(events) :
      events[i].key # None /\ LastOfKey(i, Len(events)) => NamedAs(events[i])

\* After a flush to Redis during which no worker or user comes or goes, whatever
\* the number of workers and of threads ("+1 to avoid missing the last few
\* items"), each worker of the users has a hash, the indexes say of it what the
\* hash says, and a user's hash has the number of the user's workers; shares are
\* counted and names are set all the while (flushWorkersToRedis(),
\* flushIndexToRedis(), flushUsersToRedis()).
RedisAgrees ==
  redisJob.steps = Empty =>
    \A k \in redisJob.workers :
      /\ {k, <<k[1], 0>>} \subseteq DOMAIN redis.hash
      /\ k \in DOMAIN redis.index /\ redis.index[k] = redis.hash[k].status
      /\ redis.hash[<<k[1], 0>>].count
           = Cardinality({j \in redisJob.workers : j[1] = k[1]})
=============================================================================
