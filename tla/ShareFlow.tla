----------------------------- MODULE ShareFlow -----------------------------
(***************************************************************************)
(* The way of a share through a Bitcoin stratum server: jobs are sent to   *)
(* the sessions, which number them with short ids; a miner submits a share *)
(* for a short id; the share is looked up and checked for staleness on the *)
(* event loop, hashed by the share workers, and its result comes back to   *)
(* the loop, where it is answered and written to the share log, whether or *)
(* not its session is still there.                                         *)
(*                                                                         *)
(* The module composes JobRepository, the sessions and the share workers,  *)
(* of which only what WorkQueue promises is used.  Time passes here only   *)
(* when the loop is idle and the consumer thread has polled since the last *)
(* second began: the server keeps up with its clock.                       *)
(***************************************************************************)
EXTENDS JobRepository, FiniteSets

CONSTANTS
  Sessions,    \* connections, each of which authorizes at most once
  Nonces,      \* what tells the shares of one job apart
  Invalid,     \* those with a time, a version mask or a solution that is not allowed
  MaxLocal,    \* kMaxNumLocalJobs_
  ShortIds,    \* the range of shortJobIdIdx_, 2^8
  KeepLocal,   \* kNumLocalJobsToKeep_
  MaxPolls,    \* bound of the number of polls in a second
  MaxSubmits   \* bound of the number of shares accepted for checking

ASSUME LocalAssumption ==
  /\ MaxLocal \in Nat \ {0} /\ KeepLocal \in Nat \ {0}
  /\ KeepLocal <= MaxLocal /\ ShortIds \in Nat /\ MaxLocal <= ShortIds /\ MaxSubmits \in Nat /\ MaxPolls \in Nat \ {0}
  /\ Invalid \subseteq Nonces

VARIABLES
  session,         \* session[s]: "new", "authenticated", "dead" (isDead_) or
                   \* "gone" (destroyed)
  localJobs,       \* localJobs[s]: localJobs_
  shortJobIdIdx,   \* shortJobIdIdx[s]: shortJobIdIdx_
  notified,        \* notified[s]: the number of jobs sent to s (history)
  queued,          \* shares waiting for a share worker
  hashing,         \* shares in a share worker
  hashed,          \* shares the workers are done with (history)
  closed,          \* the share workers have been told to stop
  returns,         \* closures that the share workers dispatched to the loop
  shareLog,        \* what was sent to the share log, in order
  dropped,         \* rejected shares kept from the log as spam
  submits,         \* how many shares were accepted for checking
  polled           \* how often the consumer thread has polled in this second

sessionVars == <<session, localJobs, shortJobIdIdx, notified>>
poolVars == <<queued, hashing, hashed, closed>>
shareVars == <<returns, shareLog, dropped, submits>>
flowVars == <<vars, sessionVars, poolVars, shareVars, polled>>

\* A share on its way: the number n of the notification that its miner worked
\* on and the number of the one that was found for it; k is its own number.
Checks == [k : Nat, s : Sessions, n : Nat, found : Nat, nonce : Nonces, job : Jobs,
           status : {"UNKNOWN", "STALE_SHARE", "INVALID"}]

Pool == INSTANCE WorkQueue WITH
  Works <- Checks, pending <- queued, active <- hashing, finished <- hashed

FlowInit ==
  /\ Init /\ coin = "bitcoin"
  /\ Pool!Init
  /\ session = [s \in Sessions |-> "new"]
  /\ localJobs = [s \in Sessions |-> <<>>]
  /\ shortJobIdIdx = [s \in Sessions |-> 0]
  /\ notified = [s \in Sessions |-> 0]
  /\ returns = <<>> /\ shareLog = <<>>
  /\ dropped = {}
  /\ submits = 0
  /\ polled = 0

-----------------------------------------------------------------------------
(* Sessions *)

\* allocShortJobId() returns ShortJobId for the index i, and leaves NextIdx.
ShortJobId(i) == IF i >= MaxLocal THEN 0 ELSE i

NextIdx(i) == (ShortJobId(i) + 1) % ShortIds

\* The mutant pops from the wrong end.
ClearedBack(q, keep) == IF Len(q) <= keep THEN q ELSE SubSeq(q, 1, keep)

\* clearLocalJobs()
Cleared(q, keep) ==
  IF Len(q) <= keep THEN q ELSE SubSeq(q, Len(q) - keep + 1, Len(q))

\* StratumSessionBitcoin::sendMiningNotify(): n and at, the number and the
\* time of the notification, are history.
LocalJobsAfter(s, j, isCleanJob) ==
  Cleared(Append(localJobs[s],
                 [job |-> j, short |-> ShortJobId(shortJobIdIdx[s]),
                  n |-> notified[s] + 1, at |-> now, shares |-> {}]),
          IF isCleanJob THEN KeepLocal ELSE MaxLocal)

\* sendMiningNotifyToAll(): dead sessions are destroyed.
sendMiningNotifyToAll(j) ==
  LET live == {s \in Sessions : session[s] = "authenticated"} IN
  /\ session' = [s \in Sessions |-> IF session[s] = "dead" THEN "gone" ELSE session[s]]
  /\ localJobs' = [s \in Sessions |->
                     IF s \in live THEN LocalJobsAfter(s, j, j \in clean') ELSE <<>>]
  /\ shortJobIdIdx' = [s \in Sessions |->
                         IF s \in live THEN NextIdx(shortJobIdIdx[s])
                                       ELSE shortJobIdIdx[s]]
  /\ notified' = [s \in Sessions |->
                    IF s \in live THEN notified[s] + 1 ELSE notified[s]]

\* checkUserAndPwd(): the session is authenticated and gets its first job.
authorize(s) ==
  /\ session[s] = "new" /\ ~closed
  /\ session' = [session EXCEPT ![s] = "authenticated"]
  /\ \/ /\ exJobs = {}
        /\ UNCHANGED <<localJobs, shortJobIdIdx, notified>>
     \/ \E j \in exJobs :
          /\ IsLatest(j)
          /\ localJobs' = [localJobs EXCEPT ![s] = LocalJobsAfter(s, j, j \in clean)]
          /\ shortJobIdIdx' = [shortJobIdIdx EXCEPT ![s] = NextIdx(@)]
          /\ notified' = [notified EXCEPT ![s] = @ + 1]
  /\ UNCHANGED <<vars, poolVars, shareVars, polled>>

\* markAsDead()
disconnect(s) ==
  /\ session[s] = "authenticated" /\ ~closed
  /\ session' = [session EXCEPT ![s] = "dead"]
  /\ UNCHANGED <<vars, localJobs, shortJobIdIdx, notified, poolVars, shareVars, polled>>

-----------------------------------------------------------------------------
(* The repository, with its effect on the sessions *)

poll ==
  /\ polled < MaxPolls
  /\ consumeNothing \/ \E j \in Jobs : consumeStratumJob(j)
  /\ polled' = polled + 1
  /\ UNCHANGED <<sessionVars, poolVars, shareVars>>

broadcast ==
  /\ jobTask
  /\ LET j == Head(tasks) IN
     IF j \notin exJobs /\ ~CannotMine(j) /\ IsSent(j)
     THEN sendMiningNotifyToAll(j)
     ELSE UNCHANGED sessionVars
  /\ UNCHANGED <<poolVars, shareVars, polled>>

\* The mutant notes that it has sent the job and does not send it.
checkAndCleanOnly ==
  /\ checkTask
  /\ UNCHANGED <<sessionVars, poolVars, shareVars, polled>>

checkAndClean ==
  /\ checkTask
  /\ IF NotifyDue
     THEN \E j \in exJobs : IsLatest(j) /\ sendMiningNotifyToAll(j)
     ELSE UNCHANGED sessionVars
  /\ UNCHANGED <<poolVars, shareVars, polled>>

second ==
  /\ tasks = <<>> /\ polled > 0 /\ ~closed
  /\ tick
  /\ polled' = 0
  /\ UNCHANGED <<sessionVars, poolVars, shareVars>>

-----------------------------------------------------------------------------
(* Shares *)

\* findLocalJob() searches from the newest local job.
Found(s, short, i) ==
  /\ i \in 1 .. Len(localJobs[s])
  /\ localJobs[s][i].short = short
  /\ \A k \in i + 1 .. Len(localJobs[s]) : localJobs[s][k].short # short

\* addLocalShare() finds the share in submitShares_.
Seen(s, i, nonce) == nonce \in localJobs[s][i].shares

\* The status that checkShare() hands to the share worker
CheckedStatus(j, nonce) ==
  IF j \in stale THEN "STALE_SHARE"
  ELSE IF nonce \in Invalid THEN "INVALID" ELSE "UNKNOWN"

\* handleRequest_Submit() for a share that the miner made for the n-th job it
\* was sent: the short id of that job is all that it says.  If there is no
\* local job, no job, or the share is a duplicate, it is only answered.
submit(s, n, nonce) ==
  LET short == (n - 1) % MaxLocal IN
  /\ session[s] = "authenticated" /\ ~closed
  /\ \/ /\ \A i \in 1 .. Len(localJobs[s]) :
             Found(s, short, i) =>
               localJobs[s][i].job \notin exJobs \/ Seen(s, i, nonce)
        /\ UNCHANGED <<localJobs, poolVars, submits>>
     \/ \E i \in 1 .. Len(localJobs[s]) :
          LET l == localJobs[s][i] IN
          /\ submits < MaxSubmits
          /\ Found(s, short, i)
          /\ l.job \in exJobs
          /\ ~Seen(s, i, nonce)
          /\ localJobs' = [localJobs EXCEPT ![s][i].shares = @ \union {nonce}]
          /\ Pool!Accept([k |-> submits + 1, s |-> s, n |-> n, found |-> l.n,
                          nonce |-> nonce, job |-> l.job,
                          status |-> CheckedStatus(l.job, nonce)])
          /\ submits' = submits + 1
  /\ UNCHANGED <<vars, session, shortJobIdIdx, notified, returns, shareLog,
                 dropped, polled>>

\* StratumServer::stop(): what the workers have not begun is dropped, and the
\* loop may exit before it has run what was dispatched to it; it takes no more
\* input.
shutDown ==
  /\ stop
  /\ Pool!Close
  /\ UNCHANGED <<sessionVars, shareVars, polled>>

startHashing ==
  /\ Pool!Start
  /\ UNCHANGED <<vars, sessionVars, shareVars, polled>>

\* What a share worker dispatches to the loop; block: a solved share was sent.
\* The mutant answers first.
AnswerFirst(w, status, block) ==
  <<[kind |-> "return", share |-> w, status |-> status, block |-> block]>>
    \o (IF block /\ w.job.proxy = "none"
        THEN <<[kind |-> "markStale", height |-> w.job.height]>> ELSE <<>>)

Dispatched(w, status, block) ==
  (IF block /\ w.job.proxy = "none"
   THEN <<[kind |-> "markStale", height |-> w.job.height]>> ELSE <<>>)
    \o <<[kind |-> "return", share |-> w, status |-> status, block |-> block]>>

\* The closure of checkShare(): a share that solves the block goes out as a
\* solved share and makes the jobs of its height stale; then the status is
\* handed back.  A hash may reach the network target (hit) and still miss the
\* target of the job (low).
finishHashing(w, hit, low) ==
  LET unknown == w.status = "UNKNOWN" IN
  /\ Pool!Finish(w)
  /\ unknown \/ ~(hit \/ low)   \* where the hash decides nothing
  /\ returns' = returns \o
       Dispatched(w,
                  IF ~unknown THEN w.status
                  ELSE IF low THEN "LOW_DIFFICULTY" ELSE "ACCEPT",
                  hit /\ unknown)
  /\ UNCHANGED <<vars, sessionVars, shareLog, dropped, submits, polled>>

markStale ==
  /\ returns # <<>>
  /\ Head(returns).kind = "markStale"
  /\ markAllJobsAsStale(Head(returns).height)
  /\ returns' = Tail(returns)
  /\ UNCHANGED <<sessionVars, poolVars, shareLog, dropped, submits, polled>>

\* The mutant drops what comes back for a session that is gone.
MayDropGone(r) ==
  session[r.share.s] = "gone" \/ r.status # "ACCEPT"

\* handleCheckedShare() keeps rejected shares of a session that is there from
\* the log when there were too many of them.
MayDrop(r) == session[r.share.s] # "gone" /\ r.status # "ACCEPT"

returnShare ==
  /\ returns # <<>>
  /\ Head(returns).kind = "return"
  /\ returns' = Tail(returns)
  /\ \/ /\ shareLog' = Append(shareLog, Head(returns))
        /\ UNCHANGED dropped
     \/ /\ MayDrop(Head(returns))
        /\ dropped' = dropped \union {Head(returns)}
        /\ UNCHANGED shareLog
  /\ UNCHANGED <<vars, sessionVars, poolVars, submits, polled>>

-----------------------------------------------------------------------------

FlowNext ==
  \/ poll \/ broadcast \/ checkAndClean \/ second
  \/ \E s \in Sessions :
       \/ authorize(s)
       \/ disconnect(s)
       \/ \E n \in 1 .. notified[s], nonce \in Nonces : submit(s, n, nonce)
  \/ startHashing
  \/ \E w \in hashing, hit, low \in BOOLEAN : finishHashing(w, hit, low)
  \/ markStale
  \/ returnShare
  \/ shutDown

\* The share workers run what they are given and the loop runs what is
\* dispatched to it until the server is stopped.
FlowFairness ==
  /\ WF_flowVars(startHashing)
  /\ WF_flowVars(\E w \in hashing, hit, low \in BOOLEAN : finishHashing(w, hit, low))
  /\ WF_flowVars(~closed /\ (markStale \/ returnShare))

FlowSpec == FlowInit /\ [][FlowNext]_flowVars /\ FlowFairness

-----------------------------------------------------------------------------
(* Properties *)

\* A share is checked against the job that its miner worked on, or against one
\* that was sent at least kMaxNumLocalJobs_ notifications later.
Shares == {queued[i] : i \in 1 .. Len(queued)} \union hashing \union hashed
RightJob == \A w \in Shares : w.n = w.found \/ w.found >= w.n + MaxLocal

\* Once a share that solved a block of our own is answered, no further share of
\* its job is accepted: the job is stale, unless Kafka delivered it again.
SolvedJobStale ==
  \A i \in 1 .. Len(shareLog) :
    LET j == shareLog[i].share.job IN
    shareLog[i].block /\ j.proxy = "none" /\ j \in exJobs => j \in stale \/ disordered

\* The job a session was sent last is in the repository, so that its shares are
\* not answered with JOB_NOT_FOUND, provided that the job had more than the
\* notify interval left to live when it was sent.
CurrentJobKept ==
  \A s \in Sessions :
    session[s] = "authenticated" /\ localJobs[s] # <<>> =>
      LET l == localJobs[s][Len(localJobs[s])] IN
      l.job \in exJobs \/ l.job.time + LifeTime <= l.at + Interval

\* A job that cannot be found means that "the miner apparently submitted a very
\* outdated job": the one a session was sent last is always found.
CurrentJobKnown ==
  \A s \in Sessions :
    session[s] = "authenticated" /\ localJobs[s] # <<>> =>
      localJobs[s][Len(localJobs[s])].job \in exJobs

\* A share that is accepted for checking is logged, or dropped as spam, even
\* if its session is destroyed meanwhile, unless the server is stopped; a share
\* of status ACCEPT is never dropped.
EveryShareLogged ==
  \A k \in 1 .. MaxSubmits :
    (submits >= k) ~>
      \/ \E i \in 1 .. Len(shareLog) : shareLog[i].share.k = k
      \/ \E r \in dropped : r.share.k = k /\ r.status # "ACCEPT"
      \/ closed
=============================================================================
