----------------------------- MODULE CoinShares -----------------------------
(***************************************************************************)
(* How the stratum servers of the coins other than Bitcoin treat a share,  *)
(* for one session with one miner: the jobs of the repository, the local   *)
(* jobs of the session with the shares seen for them, and a submit from    *)
(* its request to the Kafka topics of the shares and of the solved shares. *)
(* All of it runs on the event loop, but an Ethereum share is verified by  *)
(* a share worker, which hands the result back to the loop.  (The sessions *)
(* of Sia never log in: nothing of theirs reaches a miner.)                *)
(*                                                                         *)
(* A job is its place in sconf.jobs, in the order of the job ids; of its   *)
(* content the server compares "key" (the header, input or pre-PoW that is *)
(* sent to the miner), the height and the network difficulty.  A share is  *)
(* a nonce, the difficulty that its hash reaches, and whether it is well   *)
(* formed ("ok"), a valid solution, and comes with the mix hash.           *)
(***************************************************************************)
EXTENDS EthashCalculator, LocalJobs, FiniteSetsExt

VARIABLES
  sconf,     \* the coin, the jobs to come, the miner's shares, and the bounds
  sjobs,     \* JobRepository: known and stale jobs, lastHeight_
  smine,     \* the session: its local jobs and its miner
  checks,    \* the closures of checkShareAndUpdateDiff() at the share workers
  returns,   \* the results they have dispatched to the event loop
  topics     \* what was sent to Kafka

shareVars == <<sconf, sjobs, smine, checks, returns, topics>>

Job(j) == sconf.jobs[j]
Latest == Max(sjobs.known)

-----------------------------------------------------------------------------
(* Local jobs *)

LocalMax == sconf.maxLocal      \* kMaxNumLocalJobs_
LocalKeep == sconf.keepLocal    \* kNumLocalJobsToKeep_
ShortIds == sconf.maxLocal      \* 2^8, the values of a short job id

\* findLocalJob(): the last one with the key, 0 if there is none
findLocalJob(key) ==
  LET found == {i \in DOMAIN smine.local : smine.local[i].key = key} IN
  IF found = {} THEN 0 ELSE Max(found)

clearLocalJobs(m, isClean) == keepLocalJobs(m, IF isClean THEN LocalKeep ELSE LocalMax)

\* The job types of Ethereum, Beam and CKB keep all difficulties of a job, the
\* one of Grin only the last.
JobDiff(diffs, d) == IF sconf.coin = "grin" THEN {d} ELSE diffs \cup {d}

\* The mutant makes a new local job of content that was sent before.
NotifyAnew(m, j, key, d) == addLocalJob(m, j, key, d)

\* A job whose content was sent before is the same local job, with the new id.
NotifyByKey(m, j, key, d) ==
  LET i == findLocalJob(key) IN
  IF i = 0 THEN addLocalJob(m, j, key, d)
  ELSE [m EXCEPT !.local[i].id = j, !.local[i].diff = d, !.local[i].diffs = JobDiff(@, d)]

\* sendMiningNotify() of the sessions
NotifyEth(m, j, d, isClean) == clearLocalJobs(NotifyByKey(m, j, Job(j).key, d), isClean)
NotifyBeam(m, j, d, isClean) == clearLocalJobs(NotifyByKey(m, j, Job(j).key, d), isClean)
NotifyGrin(m, j, d, isClean) == clearLocalJobs(NotifyByKey(m, j, Job(j).key, d), isClean)
NotifyCkb(m, j, d, isClean) == clearLocalJobs(NotifyByKey(m, j, j, d), isClean)
NotifyDecred(m, j, d, isClean) ==
  clearLocalJobs(addLocalJob(m, j, m.serial % ShortIds, d), isClean)
NotifyBytom(m, j, d) == addLocalJob(m, j, m.serial % ShortIds, d)

Notified(j, d, isClean) ==
  IF ~smine.authenticated \/ ~smine.alive THEN smine
  ELSE CASE sconf.coin = "eth" -> NotifyEth(smine, j, d, isClean)
         [] sconf.coin = "beam" -> NotifyBeam(smine, j, d, isClean)
         [] sconf.coin = "grin" -> NotifyGrin(smine, j, d, isClean)
         [] sconf.coin = "ckb" -> NotifyCkb(smine, j, d, isClean)
         [] sconf.coin = "decred" -> NotifyDecred(smine, j, d, isClean)
         [] sconf.coin = "bytom" -> NotifyBytom(smine, j, d)

-----------------------------------------------------------------------------
(* The repository *)

\* broadcastStratumJob(): the job of a greater height is sent at once; the others
\* wait for the next notification.  (Jobs of Ethereum with more uncles or gas, and
\* of Decred with more voters, do not: SendLatest follows at once.)
broadcastStratumJob(d) ==
  LET j == sjobs.next
      isClean == Job(j).height > sjobs.lastHeight
  IN /\ j <= Len(sconf.jobs)
     /\ sjobs' = [sjobs EXCEPT !.next = @ + 1, !.known = @ \cup {j},
                    !.clean = IF isClean THEN @ \cup {j} ELSE @,
                    !.stale = IF isClean THEN sjobs.known ELSE @,
                    !.lastHeight = IF isClean THEN Job(j).height ELSE @]
     /\ smine' = IF isClean THEN Notified(j, d, TRUE) ELSE smine
     /\ IF sconf.coin = "eth" THEN buildDagCacheNonBlocking(Job(j).height) ELSE UNCHANGED builders
     /\ UNCHANGED <<sconf, checks, returns, topics, lights, building, lightFile>>

\* The latest job is sent again, by checkAndSendMiningNotify(), to a session that
\* has just logged in, or to one that asks for work.
SendLatest(d) ==
  /\ sjobs.known # {}
  /\ sconf.notifies > 0
  /\ smine.authenticated /\ smine.alive
  /\ smine' = Notified(Latest, d, Latest \in sjobs.clean)
  /\ sconf' = [sconf EXCEPT !.notifies = @ - 1]
  /\ UNCHANGED <<sjobs, checks, returns, topics, lightVars>>

\* tryCleanExpiredJobs(): the oldest job goes, unless it is the only one.
tryCleanExpiredJobs ==
  /\ sconf.expire
  /\ \E j \in sjobs.known :
       /\ \A k \in sjobs.known : j <= k
       /\ \E k \in sjobs.known : j # k
       /\ sjobs' = [sjobs EXCEPT !.known = @ \ {j}, !.stale = @ \ {j}]
  /\ UNCHANGED <<sconf, smine, checks, returns, topics, lightVars>>

\* After the block of a job was found.
markAllJobsAsStale(h) ==
  [sjobs EXCEPT !.stale = @ \cup {j \in sjobs.known : Job(j).height <= h}]

-----------------------------------------------------------------------------
(* What a check makes of a share x of a local job l: its status, and the   *)
(* difficulty that it is credited with.                                    *)

Result(status, d) == [status |-> status, diff |-> d]

Solves(x, j) == x.reach >= Job(j).net

\* "higher difficulty is prior"
Reached(l, x) == {d \in l.diffs : x.reach >= d}
ByJobDiffs(l, x, status) ==
  IF Reached(l, x) = {} THEN Result("LOW_DIFFICULTY", l.diff) ELSE Result(status, Max(Reached(l, x)))

\* checkAndUpdateShare() of the servers
CheckBeam(l, x) ==
  CASE l.id \in sjobs.stale -> Result("STALE_SHARE", l.diff)
    [] ~x.prefix -> Result("WRONG_NONCE_PREFIX", l.diff)
    [] ~x.valid -> Result("INVALID_SOLUTION", l.diff)
    [] Solves(x, l.id) -> Result("SOLVED", l.diff)
    [] OTHER -> ByJobDiffs(l, x, "ACCEPT")

CheckGrin(l, x) ==
  CASE l.id \in sjobs.stale -> Result("STALE_SHARE", l.diff)
    [] ~x.valid -> Result("INVALID_SOLUTION", l.diff)
    [] Solves(x, l.id) -> Result("SOLVED", l.diff)
    [] OTHER -> ByJobDiffs(l, x, "ACCEPT")

CheckCkb(l, x) ==
  CASE l.id \in sjobs.stale -> Result("STALE_SHARE", l.diff)
    [] Solves(x, l.id) -> Result("SOLVED", l.diff)
    [] OTHER -> ByJobDiffs(l, x, "ACCEPT")

\* A share of Decred that solves a block has no status of its own.
CheckDecred(l, x) ==
  CASE l.id \in sjobs.stale -> Result("STALE_SHARE", l.diff)
    [] ~x.valid -> Result("TIME_TOO_NEW", l.diff)
    [] OTHER -> ByJobDiffs(l, x, "ACCEPT")

\* "first job target first before checking solved share"
checkProofOfWork(l, x) ==
  IF Reached(l, x) = {} THEN Result("LOW_DIFFICULTY", l.diff)
  ELSE Result(IF Solves(x, l.id) THEN "SOLVED" ELSE "ACCEPT", l.diff)

CheckBytom(l, x) ==
  IF l.id \in sjobs.stale THEN Result("STALE_SHARE", l.diff) ELSE checkProofOfWork(l, x)

-----------------------------------------------------------------------------
(* Submits *)

\* A local job of these coins is found by what the miner was sent; of CKB by the id of
\* the job, and Decred and Bytom make a new one, with its own number, at every
\* notification.
ByContent == {"eth", "beam", "grin"}

\* A share: what the miner was sent, and the local job that has seen the nonce
Entry(l, x, r) ==
  [content |-> IF sconf.coin \in ByContent THEN l.key ELSE Job(l.id).key,
   work |-> IF sconf.coin \in {"decred", "bytom"} THEN l.serial ELSE l.key,
   job |-> l.id, nonce |-> x.nonce, status |-> r.status, diff |-> r.diff,
   reach |-> x.reach]

\* "lots of invalid shares in a short time"
Spamming(bad) == bad >= sconf.limit

\* The share is answered only.
Answered(bad) ==
  /\ smine' = [smine EXCEPT !.bad = bad]
  /\ UNCHANGED <<sjobs, topics>>

\* The share is seen for its local job, and sent to Kafka if it is to be logged;
\* the solution of a block is sent as well, and the jobs of its height are stale.
Settled(i, x, r, found, log, bad) ==
  /\ smine' = [smine EXCEPT !.bad = bad, !.local[i].seen = @ \cup {x.nonce}]
  /\ sjobs' = IF found THEN markAllJobsAsStale(Job(smine.local[i].id).height) ELSE sjobs
  /\ topics' = [topics EXCEPT
                  !.shares = IF log THEN Append(@, Entry(smine.local[i], x, r)) ELSE @,
                  !.solved = IF found THEN Append(@, <<Entry(smine.local[i], x, r).work, x.nonce>>)
                             ELSE @]

\* Beam, Grin and CKB: a duplicate is counted and not logged; a share that is
\* rejected is logged unless too many were duplicates.
SubmitChecked(i, x, r) ==
  IF x.nonce \in smine.local[i].seen THEN Answered(smine.bad + 1)
  ELSE Settled(i, x, r, r.status = "SOLVED", Accepted(r.status) \/ ~Spamming(smine.bad), smine.bad)

SubmitBeam(i, x) == SubmitChecked(i, x, CheckBeam(smine.local[i], x))
SubmitGrin(i, x) == SubmitChecked(i, x, CheckGrin(smine.local[i], x))
SubmitCkb(i, x) == SubmitChecked(i, x, CheckCkb(smine.local[i], x))

\* Decred: every rejected share is counted, and a duplicate is logged as well.
SubmitDecred(i, x) ==
  LET l == smine.local[i]
      fresh == x.nonce \notin l.seen
      r == IF fresh THEN CheckDecred(l, x) ELSE Result("DUPLICATE_SHARE", l.diff)
      bad == IF Accepted(r.status) THEN smine.bad ELSE smine.bad + 1
      checked == fresh /\ r.status \in {"ACCEPT", "LOW_DIFFICULTY"}
  IN Settled(i, x, r, checked /\ Solves(x, l.id), Accepted(r.status) \/ ~Spamming(bad), bad)

SubmitBytom(i, x) ==
  LET r == CheckBytom(smine.local[i], x) IN
  IF x.nonce \in smine.local[i].seen THEN Answered(smine.bad + 1)
  ELSE Settled(i, x, r, r.status = "SOLVED", Accepted(r.status) \/ ~Spamming(smine.bad), smine.bad)

\* Ethereum: a solution that comes with the mix hash is sent before the share
\* worker verifies it, "preliminary solution found".
SubmitEth(i, x) ==
  LET l == smine.local[i]
      preliminary == x.claim /\ Solves(x, l.id)
  IN IF x.nonce \in l.seen THEN Answered(smine.bad + 1) /\ UNCHANGED checks
     ELSE /\ smine' = [smine EXCEPT !.local[i].seen = @ \cup {x.nonce}]
          /\ topics' = IF preliminary
                       THEN [topics EXCEPT !.solved = Append(@, <<l.key, x.nonce>>)] ELSE topics
          /\ checks' = checks \cup {[l |-> [l EXCEPT !.seen = {}], x |-> x, preliminary |-> preliminary,
                                     stale |-> l.id \in sjobs.stale]}
          /\ UNCHANGED sjobs

\* handleRequest_Submit(): what is wrong with the request is only answered
Submit(key, x) ==
  LET i == findLocalJob(key) IN
  /\ smine.alive
  /\ sconf.submits > 0
  /\ sconf' = [sconf EXCEPT !.submits = @ - 1]
  /\ IF \/ ~smine.authenticated \/ ~x.ok \/ i = 0
        \/ smine.local[i].id \notin sjobs.known
     THEN Answered(smine.bad) /\ UNCHANGED checks
     ELSE CASE sconf.coin = "eth" -> SubmitEth(i, x)
            [] sconf.coin = "beam" -> SubmitBeam(i, x) /\ UNCHANGED checks
            [] sconf.coin = "grin" -> SubmitGrin(i, x) /\ UNCHANGED checks
            [] sconf.coin = "ckb" -> SubmitCkb(i, x) /\ UNCHANGED checks
            [] sconf.coin = "decred" -> SubmitDecred(i, x) /\ UNCHANGED checks
            [] sconf.coin = "bytom" -> SubmitBytom(i, x) /\ UNCHANGED checks
  /\ UNCHANGED <<returns, lightVars>>

-----------------------------------------------------------------------------
(* The share workers of Ethereum, and the results on the event loop *)

\* The mutant sends every solution, preliminary or not.
SendsSolutionAlways(c) == TRUE

SendsSolution(c) == ~c.preliminary

EthResult(c) ==
  IF Solves(c.x, c.l.id) THEN Result(IF c.stale THEN "SOLVED_STALE" ELSE "SOLVED", c.l.diff)
  ELSE ByJobDiffs(c.l, c.x, IF c.stale THEN "ACCEPT_STALE" ELSE "ACCEPT")

\* The computation fails: the light is rebuilt.
EthFails(c) ==
  /\ c \in checks
  /\ sconf.failures > 0
  /\ sconf' = [sconf EXCEPT !.failures = @ - 1]
  /\ lights' = getDagCacheWithoutLock(lights, Epoch(Job(c.l.id).height))
  /\ rebuildDagCacheNonBlocking(Job(c.l.id).height)
  /\ checks' = checks \ {c}
  /\ returns' = Append(returns, [c |-> c, r |-> Result("INTERNAL_ERROR", c.l.diff)])
  /\ UNCHANGED <<sjobs, smine, topics, building, lightFile>>

EthComputes(c) ==
  /\ c \in checks
  /\ lights' = getDagCacheWithoutLock(lights, Epoch(Job(c.l.id).height))
  /\ topics' = IF Solves(c.x, c.l.id) /\ SendsSolution(c)
               THEN [topics EXCEPT !.solved = Append(@, <<c.l.key, c.x.nonce>>)] ELSE topics
  /\ checks' = checks \ {c}
  /\ returns' = Append(returns, [c |-> c, r |-> EthResult(c)])
  /\ UNCHANGED <<sconf, sjobs, smine, building, builders, lightFile>>

\* returnFn(), on the loop: handleCheckedShare() counts nothing, and a share of a
\* miner that is gone is logged whatever it is.
EthReturns ==
  /\ returns # <<>>
  /\ LET c == Head(returns).c
         r == Head(returns).r
         log == ~smine.alive \/ Accepted(r.status) \/ ~Spamming(smine.bad)
     IN /\ sjobs' = IF r.status = "SOLVED" THEN markAllJobsAsStale(Job(c.l.id).height) ELSE sjobs
        /\ topics' = IF log
                     THEN [topics EXCEPT !.shares = Append(@, Entry(c.l, c.x, r))]
                     ELSE topics
  /\ returns' = Tail(returns)
  /\ UNCHANGED <<sconf, smine, checks, lightVars>>

-----------------------------------------------------------------------------

\* The session logs in; its connection ends and it is reaped.
Login ==
  /\ ~smine.authenticated
  /\ smine' = [smine EXCEPT !.authenticated = TRUE]
  /\ UNCHANGED <<sconf, sjobs, checks, returns, topics, lightVars>>

Disconnects ==
  /\ sconf.deaths
  /\ smine.alive
  /\ smine' = [smine EXCEPT !.alive = FALSE, !.local = <<>>]
  /\ UNCHANGED <<sconf, sjobs, checks, returns, topics, lightVars>>

ShareInit(conf) ==
  /\ sconf = conf
  /\ sjobs = [next |-> 1, known |-> {}, stale |-> {}, clean |-> {}, lastHeight |-> 0]
  /\ smine = [authenticated |-> FALSE, alive |-> TRUE, local |-> <<>>, serial |-> 0, bad |-> 0]
  /\ checks = {} /\ returns = <<>>
  /\ topics = [shares |-> <<>>, solved |-> <<>>]
  /\ LightInit(conf.lights)

LocalKeys == {l.key : l \in Range(smine.local)}

ShareNext ==
  \/ \E d \in sconf.diffs : broadcastStratumJob(d) \/ SendLatest(d)
  \/ tryCleanExpiredJobs
  \/ \E key \in LocalKeys, x \in sconf.shares : Submit(key, x)
  \/ \E key \in {sconf.unknown}, x \in sconf.shares : LocalKeys = {} /\ Submit(key, x)
  \/ \E c \in checks : EthFails(c) \/ EthComputes(c)
  \/ EthReturns
  \/ Login
  \/ Disconnects
  \/ BuilderStep /\ UNCHANGED shareVars
  \/ sconf.restarts /\ RestartLights /\ UNCHANGED shareVars

ShareSpec ==
  /\ ShareConf(sconf)
  /\ ShareInit(sconf)
  /\ [][ShareNext]_<<shareVars, lightVars>>

-----------------------------------------------------------------------------

\* A nonce is credited once for what the miner was sent to work on, although
\* jobs with the same content are sent again, under new ids and difficulties, and
\* although Ethereum shares are verified while others come in (addLocalShare).
\* Ethereum, Beam and Grin see to it that the same content is the same local job.
\* The others do not: where CKB has the content in a job with another id, and Decred
\* and Bytom in another notification, the shares seen are those of a local job of its
\* own, and the nonce is credited once for each.
CreditedOnce ==
  \A i, k \in DOMAIN topics.shares :
    LET a == topics.shares[i] b == topics.shares[k] IN
    /\ Accepted(a.status) /\ Accepted(b.status)
    /\ a.content = b.content /\ a.nonce = b.nonce
    => i = k \/ (sconf.coin \notin ByContent /\ a.work # b.work)

\* A share that is logged as the solution of a block was sent to the block maker,
\* and no solution is sent twice for a local job, whether it came with the mix hash
\* or not; of Decred, whose solutions have no status, each that reaches the network's
\* target.
SolutionsSentOnce ==
  /\ \A i \in DOMAIN topics.shares :
       LET a == topics.shares[i] IN
       a.status \in {"SOLVED", "SOLVED_STALE"}
         \/ (sconf.coin = "decred" /\ a.status \in {"ACCEPT", "LOW_DIFFICULTY"} /\ a.reach >= Job(a.job).net)
       => <<a.work, a.nonce>> \in Range(topics.solved)
  /\ \A i, k \in DOMAIN topics.solved : topics.solved[i] = topics.solved[k] => i = k
=============================================================================
