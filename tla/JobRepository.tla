--------------------------- MODULE JobRepository ---------------------------
(***************************************************************************)
(* The job repository of one chain of the stratum server: the map exJobs_  *)
(* of the jobs that miners may work on, filled by a Kafka consumer thread, *)
(* read and changed on the event loop of the server.                       *)
(*                                                                         *)
(* The consumer thread polls Kafka and dispatches closures to the loop; a  *)
(* closure sees the repository and the clock as they are when it runs.     *)
(* broadcastStratumJob(), which decides what a new job does to the others, *)
(* is the one of the coin the server is built for.                         *)
(***************************************************************************)
EXTENDS Integers, Sequences

CONSTANTS
  Jobs,       \* the stratum jobs that the job makers may produce
  Check,      \* the task {checkAndSendMiningNotify(); tryCleanExpiredJobs();}
  LifeTime,   \* kMaxJobsLifeTime_
  Interval,   \* kMiningNotifyInterval_
  MaxTime,    \* bound of the clock
  MaxTasks    \* bound of the event loop's queue

(***************************************************************************)
(* Of a job the repository looks at its id and at the time in the id's     *)
(* upper half; its height; "load", the size of the merkle branch of a      *)
(* Bitcoin job or the gasUsedPercent_ of an Ethereum job; "votes", the     *)
(* uncles_ of an Ethereum job or the voters of a Decred job; whether it is *)
(* a merged mining clean job; and, for the jobs of another pool that the   *)
(* pool proxies, whether extranonces of this server fit into them.         *)
(***************************************************************************)
ASSUME JobsAssumption ==
  /\ Jobs \subseteq [id : Nat, time : Nat, height : Nat, load : Nat, votes : Nat,
                     mmClean : BOOLEAN, proxy : {"none", "fits", "small"}]
  /\ \A j, k \in Jobs : j.id < k.id => j.time <= k.time
  /\ \A j, k \in Jobs : j.id = k.id => j = k
ASSUME CheckAssumption == Check \notin Jobs
ASSUME TimesAssumption ==
  LifeTime \in Nat /\ Interval \in Nat \ {0} /\ MaxTime \in Nat /\ Interval < LifeTime
ASSUME MaxTasksAssumption == MaxTasks \in Nat

VARIABLES
  coin,              \* which JobRepository subclass the server is built with
  exJobs,            \* exJobs_, as the set of its jobs
  stale,             \* the jobs of exJobs marked as stale
  clean,             \* the jobs of exJobs with isClean_
  lastHeight,        \* lastHeight_
  lastVoters,        \* lastVoters_ (Decred)
  lastJobSendTime,   \* lastJobSendTime_
  tasks,             \* the closures the consumer thread has dispatched
  running,           \* running_
  now,               \* time(nullptr)
  disordered,        \* has a job been inserted below the latest? (history)
  switched,          \* has an upstream pool dropped the height? (history)
  ownHeight          \* the greatest height of a block of our own (history)

repoVars == <<exJobs, stale, clean, lastHeight, lastVoters, lastJobSendTime>>
history == <<disordered, switched, ownHeight>>
vars == <<coin, repoVars, tasks, running, now, history>>

\* "plain": Beam, Bytom, CKB and Grin
Coins == {"bitcoin", "eth", "decred", "sia", "plain"}

\* exJobs_.rbegin()
IsLatest(j) == j \in exJobs /\ \A k \in exJobs : k.id <= j.id

Init ==
  /\ coin \in Coins
  /\ exJobs = {} /\ stale = {} /\ clean = {}
  /\ lastHeight = 0 /\ lastVoters = 0 /\ lastJobSendTime = 0
  /\ tasks = <<>>
  /\ running = TRUE
  /\ now = Interval
  /\ disordered = FALSE /\ switched = FALSE /\ ownHeight = 0

-----------------------------------------------------------------------------
(* The consumer thread *)

\* consumeStratumJob(): too old a job is dropped, the others are dispatched;
\* then the thread dispatches the check.
consumeStratumJob(j) ==
  /\ running
  /\ Len(tasks) + 2 <= MaxTasks
  /\ j.time <= now
  /\ tasks' = IF j.time + LifeTime < now
              THEN Append(tasks, Check)
              ELSE tasks \o <<j, Check>>
  /\ UNCHANGED <<coin, repoVars, running, now, history>>

\* A poll that times out, or that returns an error or an unreadable message.
consumeNothing ==
  /\ running
  /\ Len(tasks) + 2 <= MaxTasks
  /\ tasks' = Append(tasks, Check)
  /\ UNCHANGED <<coin, repoVars, running, now, history>>

-----------------------------------------------------------------------------
(* broadcastStratumJob() *)

\* the job is for a new height; every job of Sia counts as one
isClean(j) == coin = "sia" \/ j.height > lastHeight

\* the job of an upstream pool that has switched to a chain of lower height
UpstreamSwitched(j) ==
  coin = "bitcoin" /\ j.proxy = "fits" /\ j.height < lastHeight

isMergedMiningClean(j) ==
  \/ coin = "bitcoin" /\ j.mmClean /\ j.height >= lastHeight
  \/ UpstreamSwitched(j)

\* A better job for the current height than the latest one: the first Bitcoin
\* job that is not empty,
FirstNotEmpty(j) ==
  coin = "bitcoin" /\ \E k \in exJobs : IsLatest(k) /\ k.load = 0 /\ j.load # 0

\* an Ethereum job with more uncles, or with more gas than less than 10 percent,
LowGas == 10
MoreUnclesOrGas(j) ==
  /\ coin = "eth"
  /\ \E k \in exJobs :
       /\ IsLatest(k)
       /\ k.votes < j.votes \/ (k.load < LowGas /\ k.load < j.load)

\* a Decred job with more voters than the last one that was sent.
MoreVoters(j) == coin = "decred" /\ j.votes > lastVoters

IsBetter(j) ==
  j.height >= lastHeight /\ (FirstNotEmpty(j) \/ MoreUnclesOrGas(j) \/ MoreVoters(j))

\* the job is sent to the miners at once
IsSent(j) == isClean(j) \/ isMergedMiningClean(j) \/ IsBetter(j)

\* an upstream job without room for the extranonces
CannotMine(j) == coin = "bitcoin" /\ j.proxy = "small"

\* The mutants mark nothing, or mark after they have inserted.
StaleAfterNone(j) == stale
StaleAfterInserting(j) == IF isClean(j) THEN exJobs \union {j} ELSE stale

\* "mark all jobs as stale, should do this before insert new job"
StaleAfter(j) == IF isClean(j) THEN exJobs ELSE stale

broadcastStratumJob(j) ==
  IF CannotMine(j)
  THEN UNCHANGED <<repoVars, history>>
  ELSE
    /\ lastHeight' =
         IF isClean(j) \/ UpstreamSwitched(j) THEN j.height ELSE lastHeight
    /\ stale' = StaleAfter(j)
    /\ clean' = IF isClean(j) THEN clean \union {j} ELSE clean
    /\ exJobs' = exJobs \union {j}
    /\ lastJobSendTime' = IF IsSent(j) THEN now ELSE lastJobSendTime
    /\ lastVoters' = IF coin = "decred" /\ IsSent(j) THEN j.votes ELSE lastVoters
    /\ disordered' = (disordered \/ \E k \in exJobs : j.id < k.id)
    /\ switched' = (switched \/ UpstreamSwitched(j))
    /\ UNCHANGED ownHeight

-----------------------------------------------------------------------------
(* The event loop *)

\* The closure of consumeStratumJob(): a job that is there already is dropped.
jobTask ==
  /\ tasks # <<>>
  /\ Head(tasks) # Check
  /\ tasks' = Tail(tasks)
  /\ IF Head(tasks) \in exJobs
     THEN UNCHANGED <<repoVars, history>>
     ELSE broadcastStratumJob(Head(tasks))
  /\ UNCHANGED <<coin, running, now>>

\* The mutant waits for longer than the interval.
NotifyDueLate == exJobs # {} /\ lastJobSendTime + Interval < now

\* checkAndSendMiningNotify() sends the latest job.
NotifyDue == exJobs # {} /\ lastJobSendTime + Interval <= now

\* The mutant does not keep the last job.
UnexpiredOnly == {j \in exJobs : now < j.time + LifeTime}

\* What tryCleanExpiredJobs() leaves: it erases from the smallest id upwards,
\* while the job is expired and not the only one.
Unexpired == {j \in exJobs : now < j.time + LifeTime \/ IsLatest(j)}

\* The time that sendMiningNotify() stores
SendTime == now

checkTask ==
  /\ tasks # <<>>
  /\ Head(tasks) = Check
  /\ tasks' = Tail(tasks)
  /\ lastJobSendTime' = IF NotifyDue THEN SendTime ELSE lastJobSendTime
  /\ exJobs' = Unexpired
  /\ stale' = stale \intersect Unexpired
  /\ clean' = clean \intersect Unexpired
  /\ UNCHANGED <<coin, lastHeight, lastVoters, running, now, history>>

\* sendLatestMiningNotify(): after an automatic switch of the chain
sendLatestMiningNotify ==
  /\ exJobs # {}
  /\ lastJobSendTime' = SendTime
  /\ UNCHANGED <<coin, exJobs, stale, clean, lastHeight, lastVoters, tasks,
                 running, now, history>>

\* A share of one of the jobs solves a block: no miner should go on with it.
markAllJobsAsStale(h) ==
  /\ stale' = stale \union {j \in exJobs : j.height <= h}
  /\ ownHeight' = IF ownHeight < h THEN h ELSE ownHeight
  /\ UNCHANGED <<coin, exJobs, clean, lastHeight, lastVoters, lastJobSendTime,
                 tasks, running, now, disordered, switched>>

stop ==
  /\ running
  /\ running' = FALSE
  /\ UNCHANGED <<coin, repoVars, tasks, now, history>>

tick ==
  /\ now < MaxTime
  /\ now' = now + 1
  /\ UNCHANGED <<coin, repoVars, tasks, running, history>>

-----------------------------------------------------------------------------

Next ==
  \/ \E j \in Jobs : consumeStratumJob(j)
  \/ consumeNothing
  \/ jobTask
  \/ checkTask
  \/ sendLatestMiningNotify
  \/ \E j \in exJobs : markAllJobsAsStale(j.height)
  \/ stop
  \/ tick

\* The consumer thread loops with a poll of at most a second, and the event
\* loop runs what is dispatched to it.
Fairness ==
  /\ WF_vars(consumeNothing \/ \E j \in Jobs : consumeStratumJob(j))
  /\ WF_vars(jobTask \/ checkTask)

Spec == Init /\ [][Next]_vars /\ Fairness

-----------------------------------------------------------------------------
(* Properties *)

\* The variables have their types; a send time is never in the future.
TypeOK ==
  /\ coin \in Coins
  /\ exJobs \subseteq Jobs /\ stale \subseteq exJobs /\ clean \subseteq exJobs
  /\ lastHeight \in Nat /\ lastVoters \in Nat /\ ownHeight \in Nat
  /\ now \in Nat /\ lastJobSendTime \in 0 .. now
  /\ tasks \in Seq(Jobs \union {Check})
  /\ running \in BOOLEAN /\ disordered \in BOOLEAN /\ switched \in BOOLEAN

\* The job that checkAndSendMiningNotify() repeats and that new sessions get
\* (getLatestStratumJobEx) is not one whose shares the server rejects, unless
\* we solved its block, or a job came in with a smaller id than an earlier one.
LatestLive ==
  \A j \in stale : IsLatest(j) => (disordered \/ j.height <= ownHeight)

\* As long as ids come in order, every job older than a clean job is stale:
\* what the miners were told with clean_jobs stays true (broadcastStratumJob).
SupersededStale ==
  ~disordered => \A j \in exJobs, k \in clean : j.id < k.id => j \in stale

\* A job is stale only if a greater height has been seen, or a block of our own
\* at its height: no share is rejected as stale without a reason.
StaleExplained ==
  \A j \in stale :
    \/ j.height < lastHeight
    \/ j.height <= ownHeight
    \/ coin = "sia"
    \/ switched

\* "Keep at least one job to keep normal mining when the jobmaker fails": no
\* step empties exJobs_ or takes its latest job away, except for a later one.
LatestKept ==
  [][\A j \in Jobs : IsLatest(j) => \E k \in exJobs' : IsLatest(k)' /\ j.id <= k.id]_vars

\* With any job in the repository, miners are sent a job within the interval
\* even if the job maker falls silent (checkAndSendMiningNotify).
NotifyKeepsComing ==
  \A t \in 0 .. MaxTime :
    (exJobs # {} /\ now = t) ~> (lastJobSendTime + Interval > t \/ ~running)
=============================================================================
