-------------------------- MODULE ShareFlowProofs --------------------------
(***************************************************************************)
(* Proofs about JobRepository, for every set of jobs, every life time and  *)
(* interval, every coin and every order in which jobs come in; and about   *)
(* ShareFlow, for every number of sessions, jobs, nonces and submits, and  *)
(* every size of the window of local jobs.                                 *)
(*                                                                         *)
(* Of the repository, IInv adds two facts to the properties:               *)
(*                                                                         *)
(*   HasLatest     the map has a last element, which neither an insertion  *)
(*                 nor the removal of expired jobs can spoil;              *)
(*   HeightsBelow  no job is above lastHeight_, which is why a clean job   *)
(*                 is higher than all the jobs that it makes stale.        *)
(*                                                                         *)
(* The repository inside ShareFlow keeps IInv; FlowInv adds what holds     *)
(* between the repository, the sessions and the shares on their way:       *)
(*                                                                         *)
(*   Numbered      the local jobs of a session are the last of those that  *)
(*                 it was sent, and a short id is the number of the        *)
(*                 notification modulo kMaxNumLocalJobs_;                  *)
(*   SentSince     a session's last local job is not older than            *)
(*                 lastJobSendTime_;                                       *)
(*   JobsKnown     the job of a share is in the repository, or a later one *)
(*                 is, so that it cannot come back in order;               *)
(*   BlocksMarked  what comes back for a share that solved a block comes   *)
(*                 after the closure that makes its job stale.             *)
(***************************************************************************)
EXTENDS ShareFlow, TLAPS

\* The time that each prover has for a step that names none
USE SMTT(40), Z3T(60), ZenonT(60)

-----------------------------------------------------------------------------
(* The repository *)

HasLatest == exJobs # {} => \E j \in exJobs : IsLatest(j)

HeightsBelow ==
  \A j \in exJobs : j.height <= lastHeight \/ coin = "sia" \/ switched

IInv ==
  /\ TypeOK
  /\ HasLatest
  /\ HeightsBelow
  /\ LatestLive
  /\ SupersededStale
  /\ StaleExplained

-----------------------------------------------------------------------------

\* The fields of a job are numbers.
LEMMA JobFields ==
  ASSUME NEW j \in Jobs
  PROVE  j.id \in Nat /\ j.time \in Nat /\ j.height \in Nat /\ j.votes \in Nat
BY JobsAssumption, ZenonT(60)

\* Two jobs have different ids.
LEMMA JobIds ==
  ASSUME NEW j \in Jobs, NEW k \in Jobs, j.id = k.id
  PROVE  j = k
BY JobsAssumption, ZenonT(60)

\* The head of the queue is a job or the check, the tail is a queue.
LEMMA TaskQueue ==
  ASSUME TypeOK, tasks # <<>>
  PROVE  /\ Head(tasks) \in Jobs \union {Check}
         /\ Tail(tasks) \in Seq(Jobs \union {Check})
BY DEF TypeOK

\* Before and after a step of broadcastStratumJob() the map has a last element,
\* which is not smaller after it.
LEMMA LatestAfterInsert ==
  ASSUME TypeOK, HasLatest, NEW j \in Jobs, exJobs' = exJobs \union {j}
  PROVE  /\ HasLatest'
         /\ \A i \in exJobs : IsLatest(i) =>
              \E k \in exJobs' : IsLatest(k)' /\ i.id <= k.id
<1>0. exJobs \subseteq Jobs
  BY ZenonT(60) DEF TypeOK
<1>1. ASSUME NEW i \in exJobs, IsLatest(i)
      PROVE  \E k \in exJobs' : IsLatest(k)' /\ i.id <= k.id
  <2>1. i.id \in Nat /\ j.id \in Nat
    BY <1>0, JobFields, ZenonT(60)
  <2>2. CASE j.id <= i.id
    BY <1>1, <2>1, <2>2, ZenonT(60) DEF IsLatest
  <2>3. CASE i.id < j.id
    <3>1. \A k \in exJobs : k.id \in Nat /\ k.id <= j.id
      BY <1>0, <1>1, <2>1, <2>3, JobFields DEF IsLatest
    <3> QED
      BY <2>1, <2>3, <3>1 DEF IsLatest
  <2> QED
    BY <2>1, <2>2, <2>3
<1>2. HasLatest'
  <2>1. CASE exJobs = {}
    <3>1. exJobs' = {j} /\ j.id \in Nat
      BY <2>1, JobFields, ZenonT(60)
    <3> QED
      BY <3>1 DEF HasLatest, IsLatest
  <2>2. CASE exJobs # {}
    BY <1>1, <2>2, ZenonT(60) DEF HasLatest
  <2> QED
    BY <2>1, <2>2, ZenonT(60)
<1> QED
  BY <1>1, <1>2, ZenonT(60)

\* Removing the expired jobs keeps the last element.
LEMMA LatestAfterClean ==
  ASSUME TypeOK, HasLatest, exJobs' = Unexpired
  PROVE  /\ HasLatest'
         /\ \A i \in exJobs : IsLatest(i) => i \in exJobs' /\ IsLatest(i)'
         /\ \A i \in exJobs' : IsLatest(i)' => IsLatest(i)
<1>0. exJobs \subseteq Jobs /\ exJobs' \subseteq exJobs
  BY ZenonT(60) DEF TypeOK, Unexpired
<1>1. \A i \in exJobs : IsLatest(i) => i \in exJobs' /\ IsLatest(i)'
  BY <1>0, ZenonT(60) DEF IsLatest, Unexpired
<1>2. HasLatest'
  BY <1>0, <1>1, ZenonT(60) DEF HasLatest
<1>3. ASSUME NEW i \in exJobs', IsLatest(i)'
      PROVE  IsLatest(i)
  <2>1. PICK k \in exJobs : IsLatest(k)
    BY <1>0, <1>3, ZenonT(60) DEF HasLatest
  <2>2. k \in exJobs' /\ k.id <= i.id /\ i.id <= k.id
    BY <1>0, <1>1, <1>3, <2>1, ZenonT(60) DEF IsLatest
  <2>3. i = k
    BY <1>0, <2>2, JobFields, JobIds
  <2> QED
    BY <2>1, <2>3, ZenonT(60)
<1> QED
  BY <1>1, <1>2, <1>3, ZenonT(60)

-----------------------------------------------------------------------------
(* The steps *)

\* The initial states satisfy the invariant.
LEMMA InitInv ==
  ASSUME Init
  PROVE  IInv
<1>1. lastHeight \in Nat /\ lastVoters \in Nat /\ ownHeight \in Nat
  BY ZenonT(60) DEF Init
<1>2. now \in Nat /\ lastJobSendTime \in 0 .. now
  BY TimesAssumption DEF Init
<1>3. tasks \in Seq(Jobs \union {Check})
  BY DEF Init
<1>4. TypeOK
  BY <1>1, <1>2, <1>3, ZenonT(60) DEF Init, TypeOK
<1>5. HasLatest /\ HeightsBelow /\ LatestLive /\ SupersededStale /\ StaleExplained
  BY ZenonT(60) DEF Init, HasLatest, HeightsBelow, LatestLive, SupersededStale, StaleExplained
<1> QED
  BY <1>4, <1>5, ZenonT(60) DEF IInv

\* A new job is inserted, and may make all the others stale.
LEMMA BroadcastStep ==
  ASSUME IInv, NEW j \in Jobs, j \notin exJobs, broadcastStratumJob(j),
         UNCHANGED <<coin, running, now>>, tasks' \in Seq(Jobs \union {Check})
  PROVE  IInv'
<1> USE DEF IInv
<1>1. CASE CannotMine(j)
  BY <1>1, ZenonT(60)
     DEF broadcastStratumJob, repoVars, history, TypeOK, HasLatest, HeightsBelow,
         LatestLive, SupersededStale, StaleExplained, IsLatest
<1>2. CASE ~CannotMine(j)
  <2>0. /\ lastHeight' =
            IF isClean(j) \/ UpstreamSwitched(j) THEN j.height ELSE lastHeight
        /\ stale' = IF isClean(j) THEN exJobs ELSE stale
        /\ clean' = IF isClean(j) THEN clean \union {j} ELSE clean
        /\ exJobs' = exJobs \union {j}
        /\ lastJobSendTime' = IF IsSent(j) THEN now ELSE lastJobSendTime
        /\ lastVoters' =
            IF coin = "decred" /\ IsSent(j) THEN j.votes ELSE lastVoters
        /\ UNCHANGED ownHeight
    BY <1>2, ZenonT(60) DEF broadcastStratumJob, StaleAfter
  <2>d. disordered' = (disordered \/ \E k \in exJobs : j.id < k.id)
    BY <1>2, ZenonT(60) DEF broadcastStratumJob
  <2>s. switched' = (switched \/ UpstreamSwitched(j))
    BY <1>2, ZenonT(60) DEF broadcastStratumJob
  <2>b. disordered' \in BOOLEAN /\ switched' \in BOOLEAN
    BY <2>d, <2>s, ZenonT(60)
  <2>f. exJobs \subseteq Jobs /\ j.height \in Nat /\ j.votes \in Nat /\ j.id \in Nat
    BY JobFields, ZenonT(60) DEF TypeOK
  <2>1. TypeOK'
    <3>1. stale' \subseteq exJobs' /\ clean' \subseteq exJobs' /\ exJobs' \subseteq Jobs
      BY <2>0, ZenonT(60) DEF TypeOK
    <3>2. lastHeight' \in Nat /\ lastVoters' \in Nat /\ lastJobSendTime' \in 0 .. now
      BY <2>0, <2>f DEF TypeOK
    <3> QED
      BY <2>0, <2>b, <3>1, <3>2, ZenonT(60) DEF TypeOK
  <2>2. HasLatest'
    BY <2>0, LatestAfterInsert, ZenonT(60)
  <2>3. HeightsBelow'
    <3> SUFFICES ASSUME NEW i \in exJobs', coin # "sia", ~switched'
                 PROVE  i.height <= lastHeight'
      BY ZenonT(60) DEF HeightsBelow
    <3>1. ~switched /\ ~UpstreamSwitched(j)
      BY <2>s, ZenonT(60)
    <3>2. CASE isClean(j)
      <4>1. j.height > lastHeight /\ lastHeight' = j.height
        BY <2>0, <3>2, ZenonT(60) DEF isClean
      <4>2. CASE i = j
        BY <2>f, <4>1, <4>2
      <4>3. CASE i \in exJobs
        <5>1. i.height <= lastHeight /\ i.height \in Nat /\ lastHeight \in Nat
          BY <2>f, <3>1, <4>3, JobFields, ZenonT(60) DEF HeightsBelow, TypeOK
        <5> QED
          BY <2>f, <4>1, <5>1
      <4> QED
        BY <2>0, <4>2, <4>3, ZenonT(60)
    <3>3. CASE ~isClean(j)
      <4>1. lastHeight' = lastHeight /\ j.height <= lastHeight
        BY <2>0, <2>f, <3>1, <3>3 DEF isClean, TypeOK
      <4> QED
        BY <2>0, <3>1, <4>1, ZenonT(60) DEF HeightsBelow
    <3> QED
      BY <3>2, <3>3, ZenonT(60)
  <2>4. LatestLive'
    <3> SUFFICES ASSUME NEW i \in stale', IsLatest(i)', ~disordered'
                 PROVE  i.height <= ownHeight
      BY <2>0, ZenonT(60) DEF LatestLive
    <3>1. ~disordered /\ \A k \in exJobs : ~(j.id < k.id)
      BY <2>d, ZenonT(60)
    <3>2. i \in exJobs /\ i # j
      BY <2>0, ZenonT(60) DEF TypeOK
    <3>3. i.id \in Nat /\ j.id <= i.id
      BY <2>0, <2>f, <3>2, JobFields, ZenonT(60) DEF IsLatest
    <3>4. j.id = i.id
      BY <2>f, <3>1, <3>2, <3>3
    <3> QED
      BY <2>f, <3>2, <3>4, JobIds, ZenonT(60)
  <2>5. SupersededStale'
    <3> SUFFICES ASSUME ~disordered', NEW i \in exJobs', NEW k \in clean', i.id < k.id
                 PROVE  i \in stale'
      BY ZenonT(60) DEF SupersededStale
    <3>1. ~disordered /\ \A m \in exJobs : ~(j.id < m.id)
      BY <2>d, ZenonT(60)
    <3>2. i \in exJobs
      BY <2>0, <2>f, <3>1 DEF TypeOK
    <3>3. CASE isClean(j)
      BY <2>0, <3>2, <3>3, ZenonT(60)
    <3>4. CASE ~isClean(j)
      BY <2>0, <3>1, <3>2, <3>4, ZenonT(60) DEF SupersededStale
    <3> QED
      BY <3>3, <3>4, ZenonT(60)
  <2>6. StaleExplained'
    <3> SUFFICES ASSUME NEW i \in stale', coin # "sia", ~switched'
                 PROVE  i.height < lastHeight' \/ i.height <= ownHeight
      BY <2>0, ZenonT(60) DEF StaleExplained
    <3>1. ~switched /\ ~UpstreamSwitched(j)
      BY <2>s, ZenonT(60)
    <3>2. CASE isClean(j)
      <4>1. j.height > lastHeight /\ lastHeight' = j.height
        BY <2>0, <3>2, ZenonT(60) DEF isClean
      <4>2. i \in exJobs
        BY <2>0, <3>2, ZenonT(60)
      <4>3. i.height <= lastHeight /\ i.height \in Nat /\ lastHeight \in Nat
        BY <2>f, <3>1, <4>2, JobFields, ZenonT(60) DEF HeightsBelow, TypeOK
      <4> QED
        BY <2>f, <4>1, <4>3
    <3>3. CASE ~isClean(j)
      BY <2>0, <3>1, <3>3, ZenonT(60) DEF StaleExplained
    <3> QED
      BY <3>2, <3>3, ZenonT(60)
  <2> QED
    BY <2>1, <2>2, <2>3, <2>4, <2>5, <2>6, ZenonT(60)
<1> QED
  BY <1>1, <1>2, ZenonT(60)

\* Jobs that are expired leave the map.
LEMMA CheckStep ==
  ASSUME IInv, checkTask
  PROVE  IInv'
<1> USE DEF IInv
<1>0. /\ exJobs' = Unexpired
      /\ stale' = stale \intersect Unexpired
      /\ clean' = clean \intersect Unexpired
      /\ UNCHANGED <<coin, lastHeight, lastVoters, running, now, disordered,
                     switched, ownHeight>>
  BY ZenonT(60) DEF checkTask, history
<1>1. exJobs' \subseteq exJobs
  BY <1>0, ZenonT(60) DEF Unexpired
<1>2. TypeOK'
  <2>1. tasks' \in Seq(Jobs \union {Check})
    BY TaskQueue, ZenonT(60) DEF checkTask
  <2>2. lastJobSendTime' \in 0 .. now
    BY DEF checkTask, SendTime, TypeOK
  <2> QED
    BY <1>0, <1>1, <2>1, <2>2, ZenonT(60) DEF TypeOK
<1>3. HasLatest' /\ \A i \in exJobs' : IsLatest(i)' => IsLatest(i)
  BY <1>0, LatestAfterClean, ZenonT(60)
<1>4. HeightsBelow' /\ SupersededStale' /\ StaleExplained'
  BY <1>0, <1>1, ZenonT(60) DEF HeightsBelow, SupersededStale, StaleExplained
<1>5. LatestLive'
  BY <1>0, <1>3, ZenonT(60) DEF LatestLive
<1> QED
  BY <1>2, <1>3, <1>4, <1>5, ZenonT(60)

\* Steps that leave the jobs and the heights alone.
LEMMA QuietStep ==
  ASSUME IInv, TypeOK',
         UNCHANGED <<coin, exJobs, stale, clean, lastHeight, disordered, switched,
                     ownHeight>>
  PROVE  IInv'
BY ZenonT(60) DEF IInv, HasLatest, HeightsBelow, LatestLive, SupersededStale, StaleExplained,
       IsLatest

\* A block of our own makes the jobs up to its height stale.
LEMMA OwnBlockStep ==
  ASSUME IInv, NEW h \in Nat, markAllJobsAsStale(h)
  PROVE  IInv'
<1> USE DEF IInv
<1>0. /\ stale' = stale \union {j \in exJobs : j.height <= h}
      /\ ownHeight' \in Nat /\ ownHeight <= ownHeight' /\ h <= ownHeight'
      /\ UNCHANGED <<coin, exJobs, clean, lastHeight, lastVoters, lastJobSendTime,
                     tasks, running, now, disordered, switched>>
  BY DEF markAllJobsAsStale, TypeOK
<1>1. \A j \in exJobs : j.height \in Nat
  BY JobFields, ZenonT(60) DEF TypeOK
<1>2. TypeOK'
  BY <1>0, ZenonT(60) DEF TypeOK
<1>3. HasLatest' /\ HeightsBelow' /\ SupersededStale'
  BY <1>0, ZenonT(60) DEF HasLatest, HeightsBelow, SupersededStale, IsLatest
<1>4. \A j \in exJobs : j.height <= h \/ j.height <= ownHeight => j.height <= ownHeight'
  BY <1>0, <1>1 DEF TypeOK
<1>5. stale \subseteq exJobs
  BY ZenonT(60) DEF TypeOK
<1>6. LatestLive'
  BY <1>0, <1>4, <1>5, ZenonT(60) DEF LatestLive, IsLatest
<1>7. StaleExplained'
  BY <1>0, <1>4, <1>5, ZenonT(60) DEF StaleExplained
<1> QED
  BY <1>2, <1>3, <1>6, <1>7, ZenonT(60)

\* Every step keeps the invariant.
LEMMA NextInv ==
  ASSUME IInv, [Next]_vars
  PROVE  IInv'
<1> USE DEF IInv
<1>1. ASSUME NEW j \in Jobs, consumeStratumJob(j)
      PROVE  IInv'
  <2>1. tasks' \in Seq(Jobs \union {Check})
    <3>1. tasks \in Seq(Jobs \union {Check}) /\ <<j, Check>> \in Seq(Jobs \union {Check})
      BY DEF TypeOK
    <3>2. tasks' = Append(tasks, Check) \/ tasks' = tasks \o <<j, Check>>
      BY <1>1, ZenonT(60) DEF consumeStratumJob
    <3>3. \A S, q, r : q \in Seq(S) /\ r \in Seq(S) => q \o r \in Seq(S)
      OBVIOUS
    <3>4. Append(tasks, Check) \in Seq(Jobs \union {Check})
      BY <3>1
    <3> QED
      BY <3>1, <3>2, <3>3, <3>4, ZenonT(60)
  <2>2. TypeOK'
    BY <1>1, <2>1, ZenonT(60) DEF consumeStratumJob, TypeOK, repoVars, history
  <2> QED
    BY <1>1, <2>2, QuietStep, ZenonT(60) DEF consumeStratumJob, repoVars, history
<1>2. CASE consumeNothing
  <2>1. tasks' \in Seq(Jobs \union {Check})
    BY <1>2 DEF consumeNothing, TypeOK
  <2>2. TypeOK'
    BY <1>2, <2>1, ZenonT(60) DEF consumeNothing, TypeOK, repoVars, history
  <2> QED
    BY <1>2, <2>2, QuietStep, ZenonT(60) DEF consumeNothing, repoVars, history
<1>3. CASE jobTask
  <2>1. Head(tasks) \in Jobs /\ tasks' \in Seq(Jobs \union {Check})
    BY <1>3, TaskQueue, ZenonT(60) DEF jobTask
  <2>2. UNCHANGED <<coin, running, now>>
    BY <1>3, ZenonT(60) DEF jobTask
  <2>3. CASE Head(tasks) \in exJobs
    <3>1. UNCHANGED <<repoVars, history>>
      BY <1>3, <2>3, ZenonT(60) DEF jobTask
    <3>2. TypeOK'
      BY <2>1, <2>2, <3>1, ZenonT(60) DEF TypeOK, repoVars, history
    <3> QED
      BY <2>2, <3>1, <3>2, QuietStep, ZenonT(60) DEF repoVars, history
  <2>4. CASE Head(tasks) \notin exJobs
    <3>1. broadcastStratumJob(Head(tasks))
      BY <1>3, <2>4, ZenonT(60) DEF jobTask
    <3> QED
      BY <2>1, <2>2, <2>4, <3>1, BroadcastStep, ZenonT(60)
  <2> QED
    BY <2>3, <2>4, ZenonT(60)
<1>4. CASE checkTask
  BY <1>4, CheckStep, ZenonT(60)
<1>5. CASE sendLatestMiningNotify
  <2>1. TypeOK'
    BY <1>5 DEF sendLatestMiningNotify, SendTime, TypeOK, history
  <2> QED
    BY <1>5, <2>1, QuietStep, ZenonT(60) DEF sendLatestMiningNotify, history
<1>6. ASSUME NEW j \in exJobs, markAllJobsAsStale(j.height)
      PROVE  IInv'
  <2>1. j.height \in Nat
    BY JobFields, ZenonT(60) DEF TypeOK
  <2> QED
    BY <1>6, <2>1, OwnBlockStep, ZenonT(60)
<1>7. CASE stop
  <2>1. TypeOK'
    BY <1>7, ZenonT(60) DEF stop, TypeOK, repoVars, history
  <2> QED
    BY <1>7, <2>1, QuietStep, ZenonT(60) DEF stop, repoVars, history
<1>8. CASE tick
  <2>1. TypeOK'
    BY <1>8 DEF tick, TypeOK, repoVars, history
  <2> QED
    BY <1>8, <2>1, QuietStep, ZenonT(60) DEF tick, repoVars, history
<1>9. CASE UNCHANGED vars
  <2>1. TypeOK'
    BY <1>9, ZenonT(60) DEF vars, TypeOK, repoVars, history
  <2> QED
    BY <1>9, <2>1, QuietStep, ZenonT(60) DEF vars, repoVars, history
<1> QED
  BY <1>1, <1>2, <1>3, <1>4, <1>5, <1>6, <1>7, <1>8, <1>9, ZenonT(60) DEF Next

\* No step takes the latest job away, except for a later one.
LEMMA LatestStep ==
  ASSUME IInv, Next, NEW j \in Jobs, IsLatest(j)
  PROVE  \E k \in exJobs' : IsLatest(k)' /\ j.id <= k.id
<1> USE DEF IInv
<1>0. j \in exJobs /\ j.id \in Nat
  BY JobFields, ZenonT(60) DEF IsLatest
<1>1. CASE UNCHANGED exJobs
  BY <1>0, <1>1, ZenonT(60) DEF IsLatest
<1>2. CASE checkTask
  BY <1>0, <1>2, LatestAfterClean DEF checkTask
<1>3. CASE jobTask
  <2>1. CASE exJobs' = exJobs \union {Head(tasks)}
    BY <1>0, <1>3, <2>1, TaskQueue, LatestAfterInsert, ZenonT(60) DEF jobTask
  <2>2. CASE UNCHANGED exJobs
    BY <1>1, <2>2, ZenonT(60)
  <2> QED
    BY <1>3, <2>1, <2>2, ZenonT(60) DEF jobTask, broadcastStratumJob, repoVars
<1>4. UNCHANGED exJobs \/ checkTask \/ jobTask
  BY ZenonT(60) DEF Next, consumeStratumJob, consumeNothing, sendLatestMiningNotify,
         markAllJobsAsStale, stop, tick, repoVars
<1> QED
  BY <1>1, <1>2, <1>3, <1>4, ZenonT(60)

-----------------------------------------------------------------------------
(* The theorems *)

\* The inductive invariant holds in every reachable state.
THEOREM InvariantHolds == Spec => []IInv
<1>1. Init => IInv
  BY InitInv, ZenonT(60)
<1>2. IInv /\ [Next]_vars => IInv'
  BY NextInv, ZenonT(60)
<1> QED
  BY <1>1, <1>2, PTL DEF Spec

\* Every field keeps its type.
THEOREM TypeCorrect == Spec => []TypeOK
<1>1. IInv => TypeOK
  BY ZenonT(60) DEF IInv
<1> QED
  BY <1>1, InvariantHolds, PTL

\* The job that is repeated and handed to new sessions is not stale, unless its
\* block was solved here or jobs came in out of order.
THEOREM LatestIsLive == Spec => []LatestLive
<1>1. IInv => LatestLive
  BY ZenonT(60) DEF IInv
<1> QED
  BY <1>1, InvariantHolds, PTL

\* With ids in order, whatever is older than a clean job is stale.
THEOREM SupersededIsStale == Spec => []SupersededStale
<1>1. IInv => SupersededStale
  BY ZenonT(60) DEF IInv
<1> QED
  BY <1>1, InvariantHolds, PTL

\* A job becomes stale only for a reason.
THEOREM StaleIsExplained == Spec => []StaleExplained
<1>1. IInv => StaleExplained
  BY ZenonT(60) DEF IInv
<1> QED
  BY <1>1, InvariantHolds, PTL

\* The repository never loses its latest job, however long the job makers are
\* silent.
THEOREM LatestIsKept == Spec => LatestKept
<1>1. IInv /\ [Next]_vars =>
        [\A j \in Jobs : IsLatest(j) => \E k \in exJobs' : IsLatest(k)' /\ j.id <= k.id]_vars
  BY LatestStep, ZenonT(60)
<1> QED
  BY <1>1, InvariantHolds, PTL DEF Spec, LatestKept

-----------------------------------------------------------------------------
(* The sessions and the shares *)

LocalJob ==
  [job : Jobs, short : Nat, n : Nat \ {0}, at : Nat, shares : SUBSET Nonces]

Answer ==
  [kind : {"return"}, share : Checks, block : BOOLEAN,
   status : {"STALE_SHARE", "INVALID", "LOW_DIFFICULTY", "ACCEPT"}]

Mark == [kind : {"markStale"}, height : Nat]

SessionTypes ==
  /\ session \in [Sessions -> {"new", "authenticated", "dead", "gone"}]
  /\ localJobs \in [Sessions -> Seq(LocalJob)]
  /\ shortJobIdIdx \in [Sessions -> Nat]
  /\ notified \in [Sessions -> Nat]

ShareTypes ==
  /\ queued \in Seq(Checks) /\ hashing \subseteq Checks /\ hashed \subseteq Checks
  /\ returns \in Seq(Answer \union Mark) /\ shareLog \in Seq(Answer)
  /\ submits \in Nat

\* The local jobs q of a session that was sent m jobs
Window(q, m) ==
  /\ Len(q) <= MaxLocal
  /\ \A i \in 1 .. Len(q) :
       q[i].n = m - Len(q) + i /\ q[i].short = (q[i].n - 1) % MaxLocal

Numbered ==
  \A s \in Sessions :
    /\ ShortJobId(shortJobIdIdx[s]) = notified[s] % MaxLocal
    /\ Window(localJobs[s], notified[s])

SentSince ==
  \A s \in Sessions :
    /\ session[s] = "new" => localJobs[s] = <<>>
    /\ session[s] = "authenticated" /\ localJobs[s] # <<>> =>
         lastJobSendTime <= localJobs[s][Len(localJobs[s])].at

Known(j) == j \in exJobs \/ \E k \in exJobs : j.id < k.id

JobsKnown == \A w \in Shares : Known(w.job)

Settled(j) == j \in exJobs => j \in stale \/ disordered

\* r is the answer to a share that solved a block of our own.
OwnBlock(r) == r.block /\ r.share.job.proxy = "none"

BlocksMarked ==
  \A i \in 1 .. Len(returns) :
    returns[i].kind = "return" =>
      /\ returns[i].share \in hashed
      /\ OwnBlock(returns[i]) =>
           \/ Settled(returns[i].share.job)
           \/ i > 1 /\ returns[i - 1] =
                         [kind |-> "markStale", height |-> returns[i].share.job.height]

LogSettled ==
  \A i \in 1 .. Len(shareLog) :
    /\ shareLog[i].share \in hashed
    /\ OwnBlock(shareLog[i]) => Settled(shareLog[i].share.job)

SessionsInv == SessionTypes /\ Numbered /\ SentSince /\ CurrentJobKept

SharesInv == ShareTypes /\ RightJob /\ JobsKnown /\ BlocksMarked /\ LogSettled

FlowInv == IInv /\ SessionsInv /\ SharesInv

-----------------------------------------------------------------------------
(* Numbers modulo kMaxNumLocalJobs_ *)

\* Dividing by M leaves a quotient and a remainder.
LEMMA DivMod ==
  ASSUME NEW a \in Nat, NEW M \in Nat \ {0}
  PROVE  /\ a \div M \in Int
         /\ a % M \in 0 .. M - 1
         /\ a = M * (a \div M) + (a % M)
<1>1. a \div M \in Int
  OBVIOUS
<1>2. a % M \in 0 .. M - 1
  OBVIOUS
<1>3. a = M * (a \div M) + (a % M)
  OBVIOUS
<1> QED
  BY <1>1, <1>2, <1>3, ZenonT(60)

\* Multiples of different numbers are at least M apart.
LEMMA MultiplesApart ==
  ASSUME NEW M \in Nat \ {0}, NEW p \in Int, NEW q \in Int, p < q
  PROVE  M * p + M <= M * q
OBVIOUS

\* Numbers with the same remainder are at least M apart.
LEMMA SameRemainder ==
  ASSUME NEW a \in Nat, NEW b \in Nat, NEW M \in Nat \ {0}, a < b, a % M = b % M
  PROVE  a + M <= b
<1> DEFINE p == a \div M
           q == b \div M
           r == a % M
<1>1. p \in Int /\ q \in Int /\ r \in Int
  BY DivMod
<1>2. a = M * p + r /\ b = M * q + r
  BY DivMod, ZenonT(60)
<1> HIDE DEF p, q, r
<1>3. M * p \in Int /\ M * q \in Int
  BY <1>1
<1>4. p < q
  <2>1. CASE p = q
    BY <1>2, <2>1
  <2>2. CASE q < p
    <3>1. M * q + M <= M * p
      BY <1>1, <2>2, MultiplesApart, ZenonT(60)
    <3> QED
      BY <1>1, <1>2, <1>3, <3>1
  <2> QED
    BY <1>1, <2>1, <2>2
<1>5. M * p + M <= M * q
  BY <1>1, <1>4, MultiplesApart, ZenonT(60)
<1> QED
  BY <1>1, <1>2, <1>3, <1>5

\* Quotient and remainder are determined.
LEMMA UniqueRemainder ==
  ASSUME NEW M \in Nat \ {0}, NEW p \in Int, NEW q \in Int,
         NEW r \in 0 .. M - 1, NEW t \in 0 .. M - 1, M * p + r = M * q + t
  PROVE  r = t
<1>1. M * p \in Int /\ M * q \in Int
  OBVIOUS
<1>2. CASE p < q
  <2>1. M * p + M <= M * q
    BY <1>2, MultiplesApart, ZenonT(60)
  <2> QED
    BY <1>1, <2>1
<1>3. CASE q < p
  <2>1. M * q + M <= M * p
    BY <1>3, MultiplesApart, ZenonT(60)
  <2> QED
    BY <1>1, <2>1
<1> QED
  BY <1>1, <1>2, <1>3

\* The remainder of the next number
LEMMA NextRemainder ==
  ASSUME NEW a \in Nat, NEW M \in Nat \ {0}
  PROVE  (a + 1) % M = IF a % M = M - 1 THEN 0 ELSE (a % M) + 1
<1> DEFINE p == a \div M
           q == (a + 1) \div M
           r == a % M
           t == (a + 1) % M
<1>1. p \in Int /\ q \in Int /\ r \in 0 .. M - 1 /\ t \in 0 .. M - 1
  BY DivMod
<1>2. a = M * p + r /\ a + 1 = M * q + t
  BY DivMod
<1> HIDE DEF p, q, r, t
<1>3. M * p \in Int /\ M * q \in Int /\ M * (p + 1) = M * p + M
  BY <1>1
<1>4. CASE r = M - 1
  <2>1. M * (p + 1) + 0 = M * q + t
    BY <1>1, <1>2, <1>3, <1>4
  <2>2. p + 1 \in Int /\ 0 \in 0 .. M - 1
    BY <1>1
  <2>3. t = 0
    BY <1>1, <2>1, <2>2, UniqueRemainder, ZenonT(60)
  <2> QED
    BY <1>4, <2>3, ZenonT(60) DEF r, t
<1>5. CASE r # M - 1
  <2>1. M * p + (r + 1) = M * q + t
    BY <1>1, <1>2, <1>3, <1>5
  <2>2. r + 1 \in 0 .. M - 1
    BY <1>1, <1>5
  <2>3. t = r + 1
    BY <1>1, <2>1, <2>2, UniqueRemainder, ZenonT(60)
  <2> QED
    BY <1>5, <2>3, ZenonT(60) DEF r, t
<1> QED
  BY <1>4, <1>5, ZenonT(60)

\* allocShortJobId() goes on counting modulo kMaxNumLocalJobs_, although its
\* index wraps at the range of its type.
LEMMA NextShortJobId ==
  ASSUME NEW i \in Nat, NEW m \in Nat, ShortJobId(i) = m % MaxLocal
  PROVE  NextIdx(i) \in Nat /\ ShortJobId(NextIdx(i)) = (m + 1) % MaxLocal
<1> DEFINE r == m % MaxLocal
<1>1. r \in 0 .. MaxLocal - 1 /\ MaxLocal \in Nat \ {0} /\ ShortIds \in Nat \ {0}
      /\ MaxLocal <= ShortIds
  BY LocalAssumption, DivMod
<1>2. (m + 1) % MaxLocal = IF r = MaxLocal - 1 THEN 0 ELSE r + 1
  BY <1>1, NextRemainder, ZenonT(60)
<1>3. NextIdx(i) = (r + 1) % ShortIds
  BY ZenonT(60) DEF NextIdx
<1> HIDE DEF r
<1>4. CASE r + 1 < ShortIds
  <2>1. NextIdx(i) = r + 1
    BY <1>1, <1>3, <1>4
  <2> QED
    BY <1>1, <1>2, <2>1 DEF ShortJobId
<1>5. CASE r + 1 = ShortIds
  <2>1. NextIdx(i) = 0
    BY <1>1, <1>3, <1>5
  <2> QED
    BY <1>1, <1>2, <1>5, <2>1 DEF ShortJobId
<1> QED
  BY <1>1, <1>4, <1>5

-----------------------------------------------------------------------------
(* The repository, as the steps of ShareFlow use it *)

RepoStep == [Next]_vars \/ \E h \in Nat : markAllJobsAsStale(h)

\* The repository keeps its own invariant.
LEMMA RepoInv ==
  ASSUME IInv, RepoStep
  PROVE  IInv'
BY NextInv, OwnBlockStep, ZenonT(60) DEF RepoStep

\* What a step of the repository does to the set of jobs, and to those that are
\* stale.
LEMMA RepoJobs ==
  ASSUME IInv, RepoStep
  PROVE  \/ exJobs' = exJobs /\ stale \subseteq stale' /\ disordered' = disordered
         \/ \E j \in Jobs \ exJobs :
              /\ exJobs' = exJobs \union {j} /\ stale \subseteq stale'
              /\ disordered' = (disordered \/ \E k \in exJobs : j.id < k.id)
         \/ /\ exJobs' = Unexpired /\ stale' = stale \intersect Unexpired
            /\ disordered' = disordered
<1>0. TypeOK
  BY ZenonT(60) DEF IInv
<1>1. CASE jobTask
  <2>1. Head(tasks) \in Jobs
    BY <1>0, <1>1, TaskQueue, ZenonT(60) DEF jobTask
  <2>2. CASE Head(tasks) \in exJobs \/ CannotMine(Head(tasks))
    BY <1>1, <2>2, ZenonT(60) DEF jobTask, broadcastStratumJob, repoVars, history
  <2>3. CASE Head(tasks) \notin exJobs /\ ~CannotMine(Head(tasks))
    <3>1. /\ exJobs' = exJobs \union {Head(tasks)} /\ stale' = StaleAfter(Head(tasks))
          /\ disordered' = (disordered \/ \E k \in exJobs : Head(tasks).id < k.id)
      BY <1>1, <2>3, ZenonT(60) DEF jobTask, broadcastStratumJob
    <3>2. stale \subseteq stale'
      BY <1>0, <3>1, ZenonT(60) DEF StaleAfter, TypeOK
    <3> QED
      BY <2>1, <2>3, <3>1, <3>2, ZenonT(60)
  <2> QED
    BY <2>2, <2>3, ZenonT(60)
<1>2. CASE checkTask
  BY <1>2, ZenonT(60) DEF checkTask, history
<1>3. ASSUME NEW h, markAllJobsAsStale(h)
      PROVE  exJobs' = exJobs /\ stale \subseteq stale' /\ disordered' = disordered
  BY <1>3, ZenonT(60) DEF markAllJobsAsStale
<1>4. ASSUME ~jobTask, ~checkTask, Next \/ UNCHANGED vars,
             ~\E j \in exJobs : markAllJobsAsStale(j.height)
      PROVE  exJobs' = exJobs /\ stale \subseteq stale' /\ disordered' = disordered
  BY <1>4, ZenonT(60) DEF Next, consumeStratumJob, consumeNothing, sendLatestMiningNotify, stop,
              tick, vars, repoVars, history
<1> QED
  BY <1>1, <1>2, <1>3, <1>4, ZenonT(60) DEF RepoStep

\* A job that was in the repository is there or below a later one, for good.
LEMMA StaysKnown ==
  ASSUME IInv, RepoStep, NEW j \in Jobs, Known(j)
  PROVE  Known(j)'
<1>1. exJobs \subseteq Jobs /\ HasLatest
  BY ZenonT(60) DEF IInv, TypeOK
<1>2. CASE exJobs \subseteq exJobs'
  BY <1>2, ZenonT(60) DEF Known
<1>3. CASE exJobs' = Unexpired
  <2>1. PICK l \in exJobs : IsLatest(l)
    BY <1>1, ZenonT(60) DEF HasLatest, Known
  <2>2. l \in exJobs' /\ l \in Jobs
    BY <1>1, <1>3, <2>1, ZenonT(60) DEF Unexpired
  <2>3. CASE j \in exJobs
    <3>1. j.id <= l.id /\ j.id \in Nat /\ l.id \in Nat
      BY <2>1, <2>2, <2>3, JobFields, ZenonT(60) DEF IsLatest
    <3>2. CASE j.id = l.id
      BY <2>2, <3>2, JobIds, ZenonT(60) DEF Known
    <3>3. CASE j.id < l.id
      BY <2>2, <3>3, ZenonT(60) DEF Known
    <3> QED
      BY <3>1, <3>2, <3>3
  <2>4. CASE j \notin exJobs
    <3>1. PICK k \in exJobs : j.id < k.id
      BY <2>4, ZenonT(60) DEF Known
    <3>2. k.id <= l.id
      BY <2>1, <3>1, ZenonT(60) DEF IsLatest
    <3>3. j.id \in Nat /\ k.id \in Nat /\ l.id \in Nat
      BY <1>1, <2>2, JobFields, ZenonT(60)
    <3>4. j.id < l.id
      BY <3>1, <3>2, <3>3
    <3> QED
      BY <2>2, <3>4, ZenonT(60) DEF Known
  <2> QED
    BY <2>3, <2>4, ZenonT(60)
<1> QED
  BY <1>2, <1>3, RepoJobs, ZenonT(60)

\* A known job that is stale or gone does not become live again, unless Kafka
\* delivers it again.
LEMMA StaysSettled ==
  ASSUME IInv, RepoStep, NEW j \in Jobs, Known(j), Settled(j)
  PROVE  Settled(j)'
<1>1. CASE exJobs' = exJobs /\ stale \subseteq stale' /\ disordered' = disordered
  BY <1>1, ZenonT(60) DEF Settled
<1>2. ASSUME NEW i \in Jobs \ exJobs,
             exJobs' = exJobs \union {i}, stale \subseteq stale',
             disordered' = (disordered \/ \E k \in exJobs : i.id < k.id)
      PROVE  Settled(j)'
  <2>1. CASE j = i
    <3>1. \E k \in exJobs : i.id < k.id
      BY <2>1, ZenonT(60) DEF Known
    <3>2. disordered'
      BY <1>2, <3>1, ZenonT(60)
    <3> QED
      BY <3>2, ZenonT(60) DEF Settled
  <2>2. CASE j # i
    <3>1. j \in exJobs' => j \in stale \/ disordered
      BY <1>2, <2>2, ZenonT(60) DEF Settled
    <3>2. disordered => disordered'
      BY <1>2, ZenonT(60)
    <3> QED
      BY <1>2, <3>1, <3>2, ZenonT(60) DEF Settled
  <2> QED
    BY <2>1, <2>2, ZenonT(60)
<1>3. CASE /\ exJobs' = Unexpired /\ stale' = stale \intersect Unexpired
           /\ disordered' = disordered
  BY <1>3, ZenonT(60) DEF Settled, Unexpired
<1> QED
  BY <1>1, <1>2, <1>3, RepoJobs, ZenonT(60)

-----------------------------------------------------------------------------
(* The sessions *)

\* clearLocalJobs() keeps the newest jobs, at least the one just sent.
LEMMA ClearedQueue ==
  ASSUME NEW q \in Seq(LocalJob), NEW e \in LocalJob, NEW keep \in Nat \ {0}
  PROVE  LET r == Cleared(Append(q, e), keep) IN
         /\ r \in Seq(LocalJob)
         /\ Len(r) \in 1 .. keep /\ Len(r) <= Len(q) + 1
         /\ r[Len(r)] = e
         /\ \A i \in 1 .. Len(r) - 1 : r[i] = q[Len(q) + 1 - Len(r) + i]
<1> DEFINE a == Append(q, e)
           r == Cleared(a, keep)
<1>1. /\ a \in Seq(LocalJob) /\ Len(a) = Len(q) + 1 /\ Len(q) \in Nat
      /\ a[Len(a)] = e /\ \A i \in 1 .. Len(q) : a[i] = q[i]
  OBVIOUS
<1> HIDE DEF a
<1> SUFFICES /\ r \in Seq(LocalJob)
             /\ Len(r) \in 1 .. keep /\ Len(r) <= Len(q) + 1
             /\ r[Len(r)] = e
             /\ \A i \in 1 .. Len(r) - 1 : r[i] = q[Len(q) + 1 - Len(r) + i]
  BY ZenonT(60) DEF a
<1>2. CASE Len(a) <= keep
  BY <1>1, <1>2 DEF Cleared
<1>3. CASE keep < Len(a)
  <2>1. r = SubSeq(a, Len(a) - keep + 1, Len(a))
    BY <1>1, <1>3 DEF Cleared
  <2>2. \A i \in Len(a) - keep + 1 .. Len(a) : a[i] \in LocalJob
    BY <1>1, <1>3
  <2>3. /\ r \in Seq(LocalJob)
        /\ Len(r) = keep
        /\ \A i \in 1 .. keep : r[i] = a[Len(a) - keep + i]
    <3> DEFINE lo == Len(a) - keep + 1
               hi == Len(a)
    <3>1. lo \in Int /\ hi \in Int /\ lo <= hi /\ hi - lo + 1 = keep
      BY <1>1, <1>3
    <3>2. \A i \in lo .. hi : a[i] \in LocalJob
      BY <2>2, ZenonT(60)
    <3>3. r = SubSeq(a, lo, hi)
      BY <2>1, ZenonT(60)
    <3>4. \A i \in 1 .. keep : lo + i - 1 = Len(a) - keep + i
      BY <1>1
    <3> HIDE DEF lo, hi, r
    <3>5. /\ SubSeq(a, lo, hi) \in Seq(LocalJob)
          /\ Len(SubSeq(a, lo, hi)) = IF lo <= hi THEN hi - lo + 1 ELSE 0
          /\ \A i \in 1 .. hi - lo + 1 : SubSeq(a, lo, hi)[i] = a[lo + i - 1]
      BY <3>1, <3>2
    <3> QED
      BY <3>1, <3>3, <3>4, <3>5, ZenonT(60)
  <2> HIDE DEF r
  <2>4. r[Len(r)] = e
    <3>1. keep \in 1 .. keep /\ Len(a) - keep + keep = Len(a)
      BY <1>1
    <3>2. r[keep] = a[Len(a)]
      BY <2>3, <3>1, ZenonT(60)
    <3> QED
      BY <1>1, <2>3, <3>2, ZenonT(60)
  <2>5. ASSUME NEW i \in 1 .. Len(r) - 1
        PROVE  r[i] = q[Len(q) + 1 - Len(r) + i]
    <3>1. i \in 1 .. keep /\ Len(a) - keep + i \in 1 .. Len(q)
      BY <1>1, <1>3, <2>3
    <3>2. Len(q) + 1 - Len(r) + i = Len(a) - keep + i
      BY <1>1, <2>3
    <3> QED
      BY <1>1, <2>3, <3>1, <3>2, ZenonT(60)
  <2>6. Len(r) \in 1 .. keep /\ Len(r) <= Len(q) + 1
    BY <1>1, <1>3, <2>3
  <2> QED
    BY <2>3, <2>4, <2>5, <2>6, ZenonT(60)
<1> QED
  BY <1>1, <1>2, <1>3

\* After sendMiningNotify() the local jobs are those of the last notifications,
\* and the last of them is the job that was sent now.
LEMMA SendKeepsWindow ==
  ASSUME IInv, SessionTypes, Numbered, NEW s \in Sessions, NEW j \in Jobs, NEW c
  PROVE  LET r == LocalJobsAfter(s, j, c) IN
         /\ r \in Seq(LocalJob) /\ r # <<>>
         /\ Window(r, notified[s] + 1)
         /\ r[Len(r)].job = j /\ r[Len(r)].at = now
<1> DEFINE q == localJobs[s]
           m == notified[s]
           keep == IF c THEN KeepLocal ELSE MaxLocal
           e == [job |-> j, short |-> ShortJobId(shortJobIdIdx[s]), n |-> m + 1,
                 at |-> now, shares |-> {}]
           r == Cleared(Append(q, e), keep)
<1>1. q \in Seq(LocalJob) /\ m \in Nat /\ now \in Nat /\ shortJobIdIdx[s] \in Nat
  BY ZenonT(60) DEF SessionTypes, IInv, TypeOK
<1>2. keep \in Nat \ {0} /\ keep <= MaxLocal /\ MaxLocal \in Nat \ {0}
  BY LocalAssumption
<1>3. ShortJobId(shortJobIdIdx[s]) = m % MaxLocal /\ Window(q, m)
  BY ZenonT(60) DEF Numbered
<1>4. m % MaxLocal \in Nat
  BY <1>1, <1>2, DivMod
<1>5. e \in LocalJob
  BY <1>1, <1>3, <1>4 DEF LocalJob
<1>6. e.n = m + 1 /\ e.short = (e.n - 1) % MaxLocal /\ e.job = j /\ e.at = now
  <2>1. (m + 1) - 1 = m
    BY <1>1
  <2> QED
    BY <1>3, <2>1, ZenonT(60)
<1>7. LocalJobsAfter(s, j, c) = r
  BY ZenonT(60) DEF LocalJobsAfter
<1> HIDE DEF e, keep, q, m
<1>8. /\ r \in Seq(LocalJob)
      /\ Len(r) \in 1 .. keep /\ Len(r) <= Len(q) + 1
      /\ r[Len(r)] = e
      /\ \A i \in 1 .. Len(r) - 1 : r[i] = q[Len(q) + 1 - Len(r) + i]
  BY <1>1, <1>2, <1>5, ClearedQueue, ZenonT(60)
<1> HIDE DEF r
<1>9. Window(r, m + 1)
  <2>1. Len(r) <= MaxLocal
    BY <1>2, <1>8
  <2>2. ASSUME NEW i \in 1 .. Len(r)
        PROVE  r[i].n = (m + 1) - Len(r) + i /\ r[i].short = (r[i].n - 1) % MaxLocal
    <3>1. CASE i = Len(r)
      <4>1. (m + 1) - Len(r) + i = m + 1
        BY <1>1, <1>2, <1>8, <3>1
      <4> QED
        BY <1>6, <1>8, <3>1, <4>1, ZenonT(60)
    <3>2. CASE i # Len(r)
      <4> DEFINE k == Len(q) + 1 - Len(r) + i
      <4>1. k \in 1 .. Len(q) /\ r[i] = q[k]
        <5>1. Len(q) \in Nat /\ Len(r) \in Nat /\ Len(r) <= Len(q) + 1
          BY <1>1, <1>8
        <5>2. i \in 1 .. Len(r) - 1 /\ k \in 1 .. Len(q)
          BY <3>2, <5>1
        <5> QED
          BY <1>8, <5>2, ZenonT(60)
      <4>2. q[k].n = m - Len(q) + k /\ q[k].short = (q[k].n - 1) % MaxLocal
        BY <1>3, <4>1, ZenonT(60) DEF Window
      <4>3. m - Len(q) + k = (m + 1) - Len(r) + i
        BY <1>1, <1>8
      <4> QED
        BY <4>1, <4>2, <4>3, ZenonT(60)
    <3> QED
      BY <3>1, <3>2, ZenonT(60)
  <2> QED
    BY <2>1, <2>2, ZenonT(60) DEF Window
<1>10. r # <<>>
  BY <1>8
<1> QED
  BY <1>6, <1>7, <1>8, <1>9, <1>10, ZenonT(60) DEF m

\* sendMiningNotifyToAll() gives every session that is there the job j, now.
LEMMA SendToAllStep ==
  ASSUME IInv, SessionsInv, NEW j \in Jobs, j \in exJobs',
         sendMiningNotifyToAll(j), lastJobSendTime' = now
  PROVE  SessionsInv'
<1> DEFINE live == {s \in Sessions : session[s] = "authenticated"}
<1>0. /\ session' = [s \in Sessions |-> IF session[s] = "dead" THEN "gone" ELSE session[s]]
      /\ localJobs' = [s \in Sessions |->
                         IF s \in live THEN LocalJobsAfter(s, j, j \in clean') ELSE <<>>]
      /\ shortJobIdIdx' = [s \in Sessions |-> IF s \in live THEN NextIdx(shortJobIdIdx[s])
                                                            ELSE shortJobIdIdx[s]]
      /\ notified' = [s \in Sessions |-> IF s \in live THEN notified[s] + 1
                                                       ELSE notified[s]]
  BY ZenonT(60) DEF sendMiningNotifyToAll
<1>1. SessionTypes /\ Numbered /\ now \in Nat
  BY ZenonT(60) DEF SessionsInv, IInv, TypeOK
<1>2. ASSUME NEW s \in live
      PROVE  /\ session'[s] = "authenticated"
             /\ localJobs'[s] \in Seq(LocalJob)
             /\ notified'[s] = notified[s] + 1 /\ notified'[s] \in Nat
             /\ shortJobIdIdx'[s] \in Nat
             /\ ShortJobId(shortJobIdIdx'[s]) = notified'[s] % MaxLocal
             /\ Window(localJobs'[s], notified'[s])
             /\ localJobs'[s][Len(localJobs'[s])].job = j
             /\ localJobs'[s][Len(localJobs'[s])].at = now
  <2>1. localJobs'[s] = LocalJobsAfter(s, j, j \in clean')
    BY <1>0, ZenonT(60)
  <2>2. notified'[s] = notified[s] + 1 /\ shortJobIdIdx'[s] = NextIdx(shortJobIdIdx[s])
    BY <1>0, ZenonT(60)
  <2>3. notified[s] \in Nat /\ shortJobIdIdx[s] \in Nat
        /\ ShortJobId(shortJobIdIdx[s]) = notified[s] % MaxLocal
    BY <1>1, ZenonT(60) DEF SessionTypes, Numbered
  <2>4. /\ localJobs'[s] \in Seq(LocalJob) /\ Window(localJobs'[s], notified[s] + 1)
        /\ localJobs'[s][Len(localJobs'[s])].job = j
        /\ localJobs'[s][Len(localJobs'[s])].at = now
    BY <1>1, <2>1, SendKeepsWindow
  <2>5. session'[s] = "authenticated"
    BY <1>0, ZenonT(60)
  <2>6. NextIdx(shortJobIdIdx[s]) \in Nat
        /\ ShortJobId(NextIdx(shortJobIdIdx[s])) = (notified[s] + 1) % MaxLocal
    BY <2>3, NextShortJobId, ZenonT(60)
  <2> QED
    BY <2>2, <2>3, <2>4, <2>5, <2>6
<1>3. ASSUME NEW s \in Sessions, s \notin live
      PROVE  /\ session'[s] # "authenticated"
             /\ session'[s] \in {"new", "authenticated", "dead", "gone"}
             /\ localJobs'[s] = <<>>
             /\ notified'[s] = notified[s] /\ shortJobIdIdx'[s] = shortJobIdIdx[s]
             /\ notified'[s] \in Nat /\ shortJobIdIdx'[s] \in Nat
  BY <1>0, <1>1, <1>3, ZenonT(60) DEF SessionTypes
<1>4. SessionTypes'
  <2>1. session' \in [Sessions -> {"new", "authenticated", "dead", "gone"}]
    BY <1>0, <1>1, ZenonT(60) DEF SessionTypes
  <2>2. localJobs' \in [Sessions -> Seq(LocalJob)]
    BY <1>0, <1>2, <1>3
  <2>3. shortJobIdIdx' \in [Sessions -> Nat]
    BY <1>0, <1>2, <1>3, ZenonT(60)
  <2>4. notified' \in [Sessions -> Nat]
    BY <1>0, <1>2, <1>3, ZenonT(60)
  <2> QED
    BY <2>1, <2>2, <2>3, <2>4, ZenonT(60) DEF SessionTypes
<1>5. Numbered'
  <2> SUFFICES ASSUME NEW s \in Sessions
               PROVE  /\ ShortJobId(shortJobIdIdx'[s]) = notified'[s] % MaxLocal
                      /\ Window(localJobs'[s], notified'[s])
    BY ZenonT(60) DEF Numbered, Window, ShortJobId
  <2>1. CASE s \in live
    BY <1>2, <2>1, ZenonT(60)
  <2>2. CASE s \notin live
    <3>1. Window(<<>>, notified[s])
      BY LocalAssumption DEF Window
    <3> QED
      BY <1>1, <1>3, <2>2, <3>1, ZenonT(60) DEF Numbered
  <2> QED
    BY <2>1, <2>2, ZenonT(60)
<1>6. SentSince' /\ CurrentJobKept'
  BY <1>1, <1>2, <1>3 DEF SentSince, CurrentJobKept
<1> QED
  BY <1>4, <1>5, <1>6, ZenonT(60) DEF SessionsInv

\* Jobs may expire only before the notification that would repeat them.
ExpiryBeforeRepeat ==
  \A j \in exJobs : j \in exJobs' \/ j.time + LifeTime < lastJobSendTime + Interval

\* Steps that send nothing leave the sessions' invariant alone, also if the
\* repository loses jobs that expire.
LEMMA NothingSentStep ==
  ASSUME IInv, SessionsInv, UNCHANGED sessionVars, UNCHANGED lastJobSendTime,
         ExpiryBeforeRepeat
  PROVE  SessionsInv'
<1>0. SessionTypes /\ Numbered /\ SentSince /\ CurrentJobKept
  BY ZenonT(60) DEF SessionsInv
<1>1. SessionTypes' /\ Numbered' /\ SentSince'
  BY <1>0, ZenonT(60) DEF SessionTypes, Numbered, Window, ShortJobId, SentSince, sessionVars
<1>2. CurrentJobKept'
  <2> SUFFICES ASSUME NEW s \in Sessions, session[s] = "authenticated",
                      localJobs[s] # <<>>
               PROVE  LET l == localJobs[s][Len(localJobs[s])] IN
                      l.job \in exJobs' \/ l.job.time + LifeTime <= l.at + Interval
    BY ZenonT(60) DEF CurrentJobKept, sessionVars
  <2> DEFINE l == localJobs[s][Len(localJobs[s])]
  <2>1. localJobs[s] \in Seq(LocalJob)
    BY <1>0, ZenonT(60) DEF SessionTypes
  <2>2. l \in LocalJob
    BY <2>1
  <2>3. l.at \in Nat /\ l.job \in Jobs /\ l.job.time \in Nat
    BY <2>2, JobFields, ZenonT(60) DEF LocalJob
  <2>4. lastJobSendTime <= l.at /\ (l.job \in exJobs \/ l.job.time + LifeTime <= l.at + Interval)
    BY <1>0, ZenonT(60) DEF SentSince, CurrentJobKept
  <2>5. lastJobSendTime \in Nat /\ LifeTime \in Nat /\ Interval \in Nat
    BY TimesAssumption DEF IInv, TypeOK
  <2> HIDE DEF l
  <2>6. CASE l.job \in exJobs /\ l.job \notin exJobs'
    <3>1. l.job.time + LifeTime < lastJobSendTime + Interval
      BY <2>6, ZenonT(60) DEF ExpiryBeforeRepeat
    <3>2. l.job.time + LifeTime <= l.at + Interval
      BY <2>3, <2>4, <2>5, <3>1
    <3> QED
      BY <3>2, ZenonT(60) DEF l
  <2> QED
    BY <2>4, <2>6, ZenonT(60) DEF l
<1> QED
  BY <1>1, <1>2, ZenonT(60) DEF SessionsInv

\* checkUserAndPwd(): the new session is sent the latest job, if there is one.
LEMMA AuthorizeStep ==
  ASSUME IInv, SessionsInv, NEW s \in Sessions, authorize(s)
  PROVE  SessionsInv'
<1>0. SessionTypes /\ Numbered /\ SentSince /\ CurrentJobKept
  BY ZenonT(60) DEF SessionsInv
<1>1. /\ session' = [session EXCEPT ![s] = "authenticated"]
      /\ UNCHANGED exJobs /\ UNCHANGED lastJobSendTime
  BY ZenonT(60) DEF authorize, vars, repoVars
<1>2. session' \in [Sessions -> {"new", "authenticated", "dead", "gone"}]
  BY <1>0, <1>1, ZenonT(60) DEF SessionTypes
<1>3. lastJobSendTime \in Nat /\ now \in Nat /\ lastJobSendTime <= now
      /\ exJobs \subseteq Jobs
  BY DEF IInv, TypeOK
<1>4. localJobs[s] = <<>>
  BY <1>0, ZenonT(60) DEF authorize, SentSince
<1>5. \A t \in Sessions \ {s} : session'[t] = session[t]
  BY <1>0, <1>1, ZenonT(60) DEF SessionTypes
<1>6. session'[s] = "authenticated"
  BY <1>0, <1>1, ZenonT(60) DEF SessionTypes
<1>7. CASE UNCHANGED <<localJobs, shortJobIdIdx, notified>>
  <2>1. SessionTypes' /\ Numbered'
    BY <1>0, <1>2, <1>7, ZenonT(60) DEF SessionTypes, Numbered, Window, ShortJobId
  <2>2. SentSince' /\ CurrentJobKept'
    BY <1>0, <1>1, <1>4, <1>5, <1>6, <1>7, ZenonT(60) DEF SentSince, CurrentJobKept
  <2> QED
    BY <2>1, <2>2, ZenonT(60) DEF SessionsInv
<1>8. ASSUME NEW j \in exJobs,
             localJobs' = [localJobs EXCEPT ![s] = LocalJobsAfter(s, j, j \in clean)],
             shortJobIdIdx' = [shortJobIdIdx EXCEPT ![s] = NextIdx(@)],
             notified' = [notified EXCEPT ![s] = @ + 1]
      PROVE  SessionsInv'
  <2> DEFINE r == LocalJobsAfter(s, j, j \in clean)
  <2>1. /\ r \in Seq(LocalJob) /\ Window(r, notified[s] + 1)
        /\ r[Len(r)].job = j /\ r[Len(r)].at = now
    BY <1>0, <1>3, SendKeepsWindow, ZenonT(60)
  <2> HIDE DEF r
  <2>2. /\ localJobs'[s] = r /\ notified'[s] = notified[s] + 1
        /\ shortJobIdIdx'[s] = NextIdx(shortJobIdIdx[s])
    BY <1>0, <1>8, ZenonT(60) DEF SessionTypes, r
  <2>3. \A t \in Sessions \ {s} :
          /\ localJobs'[t] = localJobs[t] /\ notified'[t] = notified[t]
          /\ shortJobIdIdx'[t] = shortJobIdIdx[t]
    BY <1>0, <1>8, ZenonT(60) DEF SessionTypes
  <2>4. /\ NextIdx(shortJobIdIdx[s]) \in Nat /\ notified[s] + 1 \in Nat
        /\ ShortJobId(NextIdx(shortJobIdIdx[s])) = (notified[s] + 1) % MaxLocal
    BY <1>0, NextShortJobId DEF SessionTypes, Numbered
  <2>5. SessionTypes'
    BY <1>0, <1>2, <1>8, <2>1, <2>4, ZenonT(60) DEF SessionTypes, r
  <2>6. Numbered'
    <3> SUFFICES ASSUME NEW t \in Sessions
                 PROVE  /\ ShortJobId(shortJobIdIdx'[t]) = notified'[t] % MaxLocal
                        /\ Window(localJobs'[t], notified'[t])
      BY ZenonT(60) DEF Numbered, Window, ShortJobId
    <3> QED
      BY <1>0, <2>1, <2>2, <2>3, <2>4, ZenonT(60) DEF Numbered
  <2>7. SentSince' /\ CurrentJobKept'
    <3>1. SentSince'
      BY <1>0, <1>1, <1>3, <1>5, <1>6, <2>1, <2>2, <2>3, ZenonT(60) DEF SentSince
    <3>2. CurrentJobKept'
      BY <1>0, <1>1, <1>5, <2>1, <2>2, <2>3, ZenonT(60) DEF CurrentJobKept
    <3> QED
      BY <3>1, <3>2, ZenonT(60)
  <2> QED
    BY <2>5, <2>6, <2>7, ZenonT(60) DEF SessionsInv
<1> QED
  BY <1>7, <1>8, ZenonT(60) DEF authorize

\* A session that is dead is no longer looked at.
LEMMA DisconnectStep ==
  ASSUME SessionsInv, NEW s \in Sessions, disconnect(s)
  PROVE  SessionsInv'
<1>0. SessionTypes /\ Numbered /\ SentSince /\ CurrentJobKept
  BY ZenonT(60) DEF SessionsInv
<1>1. /\ session' = [session EXCEPT ![s] = "dead"]
      /\ UNCHANGED <<exJobs, lastJobSendTime, localJobs, shortJobIdIdx, notified>>
  BY ZenonT(60) DEF disconnect, vars, repoVars
<1>2. \A t \in Sessions : session'[t] = IF t = s THEN "dead" ELSE session[t]
  BY <1>0, <1>1, ZenonT(60) DEF SessionTypes
<1>3. SessionTypes' /\ Numbered'
  BY <1>0, <1>1, ZenonT(60) DEF SessionTypes, Numbered, Window, ShortJobId
<1>4. SentSince' /\ CurrentJobKept'
  BY <1>0, <1>1, <1>2 DEF SentSince, CurrentJobKept
<1> QED
  BY <1>3, <1>4, ZenonT(60) DEF SessionsInv

\* addLocalShare() only remembers the share.
LEMMA RememberShare ==
  ASSUME SessionTypes, NEW s \in Sessions, NEW i \in 1 .. Len(localJobs[s]),
         NEW nonce \in Nonces,
         localJobs' = [localJobs EXCEPT ![s][i].shares = @ \union {nonce}]
  PROVE  /\ localJobs' \in [Sessions -> Seq(LocalJob)]
         /\ \A t \in Sessions :
              /\ Len(localJobs'[t]) = Len(localJobs[t])
              /\ \A k \in 1 .. Len(localJobs[t]) :
                   /\ localJobs'[t][k].n = localJobs[t][k].n
                   /\ localJobs'[t][k].short = localJobs[t][k].short
                   /\ localJobs'[t][k].job = localJobs[t][k].job
                   /\ localJobs'[t][k].at = localJobs[t][k].at
<1> DEFINE q == localJobs[s]
           e == [q[i] EXCEPT !.shares = @ \union {nonce}]
           r == [q EXCEPT ![i] = e]
<1>1. q \in Seq(LocalJob) /\ q[i] \in LocalJob
  BY DEF SessionTypes
<1>2. e \in LocalJob /\ e.n = q[i].n /\ e.short = q[i].short /\ e.job = q[i].job
      /\ e.at = q[i].at
  BY <1>1, ZenonT(60) DEF LocalJob
<1>3. localJobs' = [localJobs EXCEPT ![s] = r]
  BY ZenonT(60)
<1> HIDE DEF e
<1>4. /\ r \in Seq(LocalJob) /\ Len(r) = Len(q)
      /\ \A k \in 1 .. Len(q) : r[k] = IF k = i THEN e ELSE q[k]
  BY <1>1, <1>2
<1> HIDE DEF r
<1>5. \A t \in Sessions : localJobs'[t] = IF t = s THEN r ELSE localJobs[t]
  BY <1>3, ZenonT(60) DEF SessionTypes
<1>6. localJobs' \in [Sessions -> Seq(LocalJob)]
  BY <1>3, <1>4, ZenonT(60) DEF SessionTypes
<1> QED
  BY <1>2, <1>4, <1>5, <1>6, ZenonT(60)

\* A submit does not change what a session was sent.
LEMMA SubmitSessions ==
  ASSUME SessionsInv, NEW s \in Sessions, NEW n \in Nat, NEW nonce \in Nonces,
         submit(s, n, nonce)
  PROVE  SessionsInv'
<1>0. SessionTypes /\ Numbered /\ SentSince /\ CurrentJobKept
  BY ZenonT(60) DEF SessionsInv
<1>1. UNCHANGED <<exJobs, lastJobSendTime, session, shortJobIdIdx, notified>>
  BY ZenonT(60) DEF submit, vars, repoVars
<1>2. /\ localJobs' \in [Sessions -> Seq(LocalJob)]
      /\ \A t \in Sessions :
           /\ Len(localJobs'[t]) = Len(localJobs[t])
           /\ \A k \in 1 .. Len(localJobs[t]) :
                /\ localJobs'[t][k].n = localJobs[t][k].n
                /\ localJobs'[t][k].short = localJobs[t][k].short
                /\ localJobs'[t][k].job = localJobs[t][k].job
                /\ localJobs'[t][k].at = localJobs[t][k].at
  <2>1. CASE UNCHANGED localJobs
    BY <1>0, <2>1, ZenonT(60) DEF SessionTypes
  <2>2. CASE \E i \in 1 .. Len(localJobs[s]) :
               localJobs' = [localJobs EXCEPT ![s][i].shares = @ \union {nonce}]
    <3>1. PICK i \in 1 .. Len(localJobs[s]) :
            localJobs' = [localJobs EXCEPT ![s][i].shares = @ \union {nonce}]
      BY <2>2, ZenonT(60)
    <3> QED
      BY <1>0, <3>1, RememberShare, ZenonT(60)
  <2> QED
    BY <2>1, <2>2, ZenonT(60) DEF submit
<1>3. SessionTypes'
  BY <1>0, <1>1, <1>2, ZenonT(60) DEF SessionTypes
<1>4. Numbered'
  <2> SUFFICES ASSUME NEW t \in Sessions
               PROVE  Window(localJobs'[t], notified[t])
    BY <1>0, <1>1, ZenonT(60) DEF Numbered, Window, ShortJobId
  <2> QED
    BY <1>0, <1>2 DEF Numbered, Window
<1>5. \A t \in Sessions :
        /\ localJobs'[t] = <<>> <=> localJobs[t] = <<>>
        /\ localJobs[t] # <<>> => Len(localJobs[t]) \in 1 .. Len(localJobs[t])
  BY <1>0, <1>2 DEF SessionTypes
<1>6. SentSince'
  BY <1>0, <1>1, <1>2, <1>5 DEF SentSince
<1>7. CurrentJobKept'
  BY <1>0, <1>1, <1>2, <1>5 DEF CurrentJobKept
<1> QED
  BY <1>3, <1>4, <1>6, <1>7, ZenonT(60) DEF SessionsInv

-----------------------------------------------------------------------------
(* The shares *)

\* Every share is one that checkShare() was called for.
LEMMA ShareFields ==
  ASSUME ShareTypes, NEW w \in Shares
  PROVE  w \in Checks /\ w.job \in Jobs /\ w.n \in Nat /\ w.found \in Nat
<1>1. w \in Checks
  BY DEF Shares, ShareTypes
<1> QED
  BY <1>1, ZenonT(60) DEF Checks

\* The steps of the repository keep what holds of the shares on their way.
LEMMA RepoShares ==
  ASSUME IInv, SharesInv, RepoStep,
         UNCHANGED <<queued, hashing, hashed, returns, shareLog, submits>>
  PROVE  SharesInv'
<1>0. ShareTypes /\ RightJob /\ JobsKnown /\ BlocksMarked /\ LogSettled
  BY ZenonT(60) DEF SharesInv
<1>1. Shares' = Shares
  BY ZenonT(60) DEF Shares
<1>2. ShareTypes' /\ RightJob'
  BY <1>0, <1>1, ZenonT(60) DEF ShareTypes, RightJob
<1>3. JobsKnown'
  BY <1>0, <1>1, ShareFields, StaysKnown, ZenonT(60) DEF JobsKnown
<1>4. ASSUME NEW w \in hashed, Settled(w.job)
      PROVE  Settled(w.job)'
  BY <1>0, <1>4, ShareFields, StaysSettled, ZenonT(60) DEF JobsKnown, Shares
<1>5. BlocksMarked'
  <2> SUFFICES ASSUME NEW i \in 1 .. Len(returns), returns[i].kind = "return"
               PROVE  /\ returns[i].share \in hashed
                      /\ OwnBlock(returns[i]) =>
                           \/ Settled(returns[i].share.job)'
                           \/ i > 1 /\ returns[i - 1] =
                                [kind |-> "markStale", height |-> returns[i].share.job.height]
    BY ZenonT(60) DEF BlocksMarked, OwnBlock
  <2> QED
    BY <1>0, <1>4, ZenonT(60) DEF BlocksMarked
<1>6. LogSettled'
  <2> SUFFICES ASSUME NEW i \in 1 .. Len(shareLog)
               PROVE  /\ shareLog[i].share \in hashed
                      /\ OwnBlock(shareLog[i]) => Settled(shareLog[i].share.job)'
    BY ZenonT(60) DEF LogSettled, OwnBlock
  <2> QED
    BY <1>0, <1>4, ZenonT(60) DEF LogSettled
<1> QED
  BY <1>2, <1>3, <1>5, <1>6, ZenonT(60) DEF SharesInv

\* The short id that the n-th notification had leads to that notification, or to
\* one that was sent at least kMaxNumLocalJobs_ notifications later.
LEMMA FoundIsRight ==
  ASSUME SessionTypes, Numbered, NEW s \in Sessions, NEW n \in 1 .. notified[s],
         NEW i \in 1 .. Len(localJobs[s]), Found(s, (n - 1) % MaxLocal, i)
  PROVE  n = localJobs[s][i].n \/ n + MaxLocal <= localJobs[s][i].n
<1> DEFINE q == localJobs[s]
           m == notified[s]
           f == q[i].n
<1>1. q \in Seq(LocalJob) /\ q[i] \in LocalJob /\ m \in Nat /\ Len(q) \in Nat
  BY DEF SessionTypes
<1>2. f \in Nat \ {0} /\ n \in Nat \ {0} /\ n <= m
  <2>1. q[i].n \in Nat \ {0}
    BY <1>1, ZenonT(60) DEF LocalJob
  <2> QED
    BY <1>1, <2>1
<1>3. Len(q) <= MaxLocal /\ f = m - Len(q) + i /\ q[i].short = (f - 1) % MaxLocal
  BY ZenonT(60) DEF Numbered, Window
<1>4. i \in Nat \ {0} /\ MaxLocal \in Nat \ {0}
  BY <1>1, LocalAssumption
<1> DEFINE a == f - 1
           b == n - 1
<1>5. a % MaxLocal = b % MaxLocal
  BY <1>3, ZenonT(60) DEF Found
<1> HIDE DEF q, m, f
<1>6. a \in Nat /\ b \in Nat /\ f = a + 1 /\ n = b + 1
  BY <1>2
<1> HIDE DEF a, b
<1>7. CASE a < b
  <2>1. a + MaxLocal <= b
    BY <1>4, <1>5, <1>6, <1>7, SameRemainder, ZenonT(60)
  <2> QED
    BY <1>1, <1>2, <1>3, <1>4, <1>6, <2>1
<1>8. CASE b < a
  <2>1. b + MaxLocal <= a
    BY <1>4, <1>5, <1>6, <1>8, SameRemainder, ZenonT(60)
  <2>2. n + MaxLocal <= f
    BY <1>4, <1>6, <2>1
  <2> QED
    BY <2>2, ZenonT(60) DEF f, q
<1>9. CASE a = b
  BY <1>6, <1>9, ZenonT(60) DEF f, q
<1> QED
  BY <1>6, <1>7, <1>8, <1>9

\* Only the jobs decide what is known and settled.
LEMMA JobsAlone ==
  ASSUME UNCHANGED <<exJobs, stale, disordered>>
  PROVE  \A j : (Known(j)' <=> Known(j)) /\ (Settled(j)' <=> Settled(j))
BY ZenonT(60) DEF Known, Settled

\* A share is accepted for checking.
LEMMA SubmitShares ==
  ASSUME IInv, SessionsInv, SharesInv, NEW s \in Sessions, NEW n \in 1 .. notified[s],
         NEW nonce \in Nonces, submit(s, n, nonce)
  PROVE  SharesInv'
<1>0. ShareTypes /\ RightJob /\ JobsKnown /\ BlocksMarked /\ LogSettled
  BY ZenonT(60) DEF SharesInv
<1>1. SessionTypes /\ Numbered
  BY ZenonT(60) DEF SessionsInv
<1>2. UNCHANGED <<exJobs, stale, disordered, returns, shareLog, vars>>
  BY ZenonT(60) DEF submit, vars, repoVars, history
<1>3. CASE UNCHANGED <<poolVars, submits>>
  <2>1. UNCHANGED <<queued, hashing, hashed, returns, shareLog, submits>>
    BY <1>2, <1>3, ZenonT(60) DEF poolVars
  <2> QED
    BY <1>2, <2>1, RepoShares, ZenonT(60) DEF RepoStep
<1>4. ASSUME NEW i \in 1 .. Len(localJobs[s]), Found(s, (n - 1) % MaxLocal, i),
             localJobs[s][i].job \in exJobs,
             Pool!Accept([k |-> submits + 1, s |-> s, n |-> n, found |-> localJobs[s][i].n,
                          nonce |-> nonce, job |-> localJobs[s][i].job,
                          status |-> CheckedStatus(localJobs[s][i].job, nonce)]),
             submits' = submits + 1
      PROVE  SharesInv'
  <2> DEFINE l == localJobs[s][i]
             w == [k |-> submits + 1, s |-> s, n |-> n, found |-> l.n, nonce |-> nonce,
                   job |-> l.job, status |-> CheckedStatus(l.job, nonce)]
  <2>1. l \in LocalJob /\ n \in Nat /\ submits \in Nat
    BY <1>0, <1>1 DEF SessionTypes, ShareTypes
  <2>2. CheckedStatus(l.job, nonce) \in {"UNKNOWN", "STALE_SHARE", "INVALID"}
    BY ZenonT(60) DEF CheckedStatus
  <2>3. w \in Checks
    BY <2>1, <2>2 DEF Checks, LocalJob
  <2>4. w.n = w.found \/ w.found >= w.n + MaxLocal
    BY <1>1, <1>4, <2>1, LocalAssumption, FoundIsRight, ZenonT(60) DEF LocalJob
  <2>5. w.job \in exJobs
    BY <1>4, ZenonT(60)
  <2>6. queued' = Append(queued, w) /\ UNCHANGED <<hashing, hashed>>
    BY <1>4, ZenonT(60) DEF Pool!Accept
  <2> HIDE DEF w
  <2>7. queued' \in Seq(Checks) /\ Shares' = Shares \union {w}
    <3>1. queued \in Seq(Checks)
      BY <1>0, ZenonT(60) DEF ShareTypes
    <3>2. /\ queued' \in Seq(Checks) /\ Len(queued') = Len(queued) + 1
          /\ \A k \in 1 .. Len(queued) : queued'[k] = queued[k]
          /\ queued'[Len(queued) + 1] = w
      BY <2>3, <2>6, <3>1
    <3>3. {queued'[k] : k \in 1 .. Len(queued')} = {queued[k] : k \in 1 .. Len(queued)} \union {w}
      BY <3>1, <3>2
    <3> QED
      BY <2>6, <3>2, <3>3, ZenonT(60) DEF Shares
  <2>8. ShareTypes'
    BY <1>0, <1>2, <1>4, <2>6, <2>7 DEF ShareTypes
  <2>9. RightJob'
    BY <1>0, <2>4, <2>7, ZenonT(60) DEF RightJob
  <2>10. JobsKnown'
    BY <1>0, <1>2, <2>5, <2>7, JobsAlone, ZenonT(60) DEF JobsKnown, Known
  <2>11. BlocksMarked' /\ LogSettled'
    BY <1>0, <1>2, <2>6, JobsAlone, ZenonT(60) DEF BlocksMarked, LogSettled, OwnBlock
  <2> QED
    BY <2>8, <2>9, <2>10, <2>11, ZenonT(60) DEF SharesInv
<1> QED
  BY <1>3, <1>4, ZenonT(60) DEF submit

\* A share worker takes a share from the queue.
LEMMA StartShares ==
  ASSUME SharesInv, startHashing
  PROVE  SharesInv'
<1>0. ShareTypes /\ RightJob /\ JobsKnown /\ BlocksMarked /\ LogSettled
  BY ZenonT(60) DEF SharesInv
<1>1. UNCHANGED <<exJobs, stale, disordered, returns, shareLog, submits, hashed>>
  BY ZenonT(60) DEF startHashing, vars, repoVars, history, shareVars, Pool!Start
<1>2. queued # <<>> /\ hashing' = hashing \union {Head(queued)} /\ queued' = Tail(queued)
  BY ZenonT(60) DEF startHashing, Pool!Start
<1>3. queued \in Seq(Checks) /\ Head(queued) = queued[1] /\ 1 \in 1 .. Len(queued)
  BY <1>0, <1>2 DEF ShareTypes
<1>4. queued' \in Seq(Checks) /\ Len(queued') = Len(queued) - 1
      /\ \A i \in 1 .. Len(queued') : queued'[i] = queued[i + 1] /\ i + 1 \in 1 .. Len(queued)
  BY <1>2, <1>3
<1>5. Shares' \subseteq Shares
  BY <1>1, <1>2, <1>3, <1>4 DEF Shares
<1>6. ShareTypes'
  BY <1>0, <1>1, <1>2, <1>3, <1>4 DEF ShareTypes
<1>7. RightJob' /\ JobsKnown'
  BY <1>0, <1>1, <1>5, JobsAlone, ZenonT(60) DEF RightJob, JobsKnown
<1>8. BlocksMarked' /\ LogSettled'
  BY <1>0, <1>1, JobsAlone, ZenonT(60) DEF BlocksMarked, LogSettled, OwnBlock
<1> QED
  BY <1>6, <1>7, <1>8, ZenonT(60) DEF SharesInv

\* Two closures that are dispatched one after the other
LEMMA TwoClosures ==
  ASSUME NEW x \in Mark, NEW y \in Answer
  PROVE  <<x>> \o <<y>> = <<x, y>>
<1> DEFINE S == Answer \union Mark
           d == <<x>> \o <<y>>
           e == <<x, y>>
<1>1. d \in Seq(S) /\ Len(d) = 2 /\ d[1] = x /\ d[2] = y
  OBVIOUS
<1>2. e \in Seq(S) /\ Len(e) = 2 /\ e[1] = x /\ e[2] = y
  OBVIOUS
<1> HIDE DEF d, e
<1>3. d \in [1 .. 2 -> S] /\ e \in [1 .. 2 -> S]
  BY <1>1, <1>2
<1>4. \A i \in 1 .. 2 : d[i] = e[i]
  BY <1>1, <1>2
<1>5. d = e
  BY <1>3, <1>4
<1> QED
  BY <1>5, ZenonT(60) DEF d, e

\* A share worker hands back what it found, after the closure that makes the
\* jobs of a solved block stale.
LEMMA FinishShares ==
  ASSUME SharesInv, NEW w \in hashing, NEW hit \in BOOLEAN, NEW low \in BOOLEAN,
         finishHashing(w, hit, low)
  PROVE  SharesInv'
<1>0. ShareTypes /\ RightJob /\ JobsKnown /\ BlocksMarked /\ LogSettled
  BY ZenonT(60) DEF SharesInv
<1>1. UNCHANGED <<exJobs, stale, disordered, shareLog, submits, queued>>
  BY ZenonT(60) DEF finishHashing, vars, repoVars, history, Pool!Finish
<1>2. hashing' = hashing \ {w} /\ hashed' = hashed \union {w}
  BY ZenonT(60) DEF finishHashing, Pool!Finish
<1>3. Shares' = Shares
  BY <1>1, <1>2, ZenonT(60) DEF Shares
<1>4. RightJob' /\ JobsKnown'
  BY <1>0, <1>1, <1>3, JobsAlone, ZenonT(60) DEF RightJob, JobsKnown
<1>5. LogSettled'
  BY <1>0, <1>1, <1>2, JobsAlone, ZenonT(60) DEF LogSettled, OwnBlock
<1> DEFINE unknown == w.status = "UNKNOWN"
           status == IF ~unknown THEN w.status
                     ELSE IF low THEN "LOW_DIFFICULTY" ELSE "ACCEPT"
           block == hit /\ unknown
           r == [kind |-> "return", share |-> w, status |-> status, block |-> block]
           k == [kind |-> "markStale", height |-> w.job.height]
<1>6. w \in Checks /\ w.job.height \in Nat
  BY <1>0, JobFields, ZenonT(60) DEF ShareTypes, Checks
<1>7. r \in Answer /\ k \in Mark /\ r.kind = "return" /\ k.kind = "markStale" /\ r.share = w
  <2>1. status \in {"STALE_SHARE", "INVALID", "LOW_DIFFICULTY", "ACCEPT"}
    BY <1>6, ZenonT(60) DEF Checks
  <2>2. block \in BOOLEAN
    BY ZenonT(60)
  <2> QED
    BY <1>6, <2>1, <2>2, ZenonT(60) DEF Answer, Mark
<1>8. returns' = returns \o Dispatched(w, status, block)
  BY ZenonT(60) DEF finishHashing
<1>9. OwnBlock(r) <=> block /\ w.job.proxy = "none"
  BY ZenonT(60) DEF OwnBlock
<1>10. Dispatched(w, status, block) = IF OwnBlock(r) THEN <<k, r>> ELSE <<r>>
  <2>1. <<k>> \o <<r>> = <<k, r>>
    BY <1>7, TwoClosures, ZenonT(60)
  <2>2. <<>> \o <<r>> = <<r>>
    OBVIOUS
  <2> QED
    BY <1>9, <2>1, <2>2, ZenonT(60) DEF Dispatched
<1> HIDE DEF r, k, status, block
<1>11. returns \in Seq(Answer \union Mark) /\ Len(returns) \in Nat
  BY <1>0 DEF ShareTypes
<1>12. CASE OwnBlock(r)
  <2>1. /\ returns' \in Seq(Answer \union Mark) /\ Len(returns') = Len(returns) + 2
        /\ \A i \in 1 .. Len(returns) : returns'[i] = returns[i]
        /\ returns'[Len(returns) + 1] = k /\ returns'[Len(returns) + 2] = r
    <3>1. returns' = returns \o <<k, r>> /\ <<k, r>> \in Seq(Answer \union Mark)
      BY <1>7, <1>8, <1>10, <1>12
    <3> QED
      BY <1>11, <3>1
  <2>2. ShareTypes'
    BY <1>0, <1>1, <1>2, <1>6, <2>1, ZenonT(60) DEF ShareTypes
  <2>3. BlocksMarked'
    <3> SUFFICES ASSUME NEW i \in 1 .. Len(returns'), returns'[i].kind = "return"
                 PROVE  /\ returns'[i].share \in hashed'
                        /\ OwnBlock(returns'[i]) =>
                             \/ Settled(returns'[i].share.job)
                             \/ i > 1 /\ returns'[i - 1] =
                                  [kind |-> "markStale", height |-> returns'[i].share.job.height]
      BY <1>1, JobsAlone, ZenonT(60) DEF BlocksMarked, OwnBlock
    <3>1. CASE i \in 1 .. Len(returns)
      <4>1. returns'[i] = returns[i] /\ (i > 1 => returns'[i - 1] = returns[i - 1])
        BY <1>11, <2>1, <3>1
      <4> QED
        BY <1>0, <1>2, <3>1, <4>1, ZenonT(60) DEF BlocksMarked
    <3>2. CASE i = Len(returns) + 1
      BY <1>7, <2>1, <3>2, ZenonT(60)
    <3>3. CASE i = Len(returns) + 2
      <4>1. i > 1 /\ returns'[i - 1] = k /\ returns'[i] = r
        BY <1>11, <2>1, <3>3
      <4> QED
        BY <1>2, <1>7, <4>1, ZenonT(60) DEF k
    <3> QED
      BY <1>11, <2>1, <3>1, <3>2, <3>3
  <2> QED
    BY <1>4, <1>5, <2>2, <2>3, ZenonT(60) DEF SharesInv
<1>13. CASE ~OwnBlock(r)
  <2>1. /\ returns' \in Seq(Answer \union Mark) /\ Len(returns') = Len(returns) + 1
        /\ \A i \in 1 .. Len(returns) : returns'[i] = returns[i]
        /\ returns'[Len(returns) + 1] = r
    <3>1. returns' = returns \o <<r>> /\ <<r>> \in Seq(Answer \union Mark)
      BY <1>7, <1>8, <1>10, <1>13
    <3> QED
      BY <1>11, <3>1
  <2>2. ShareTypes'
    BY <1>0, <1>1, <1>2, <1>6, <2>1, ZenonT(60) DEF ShareTypes
  <2>3. BlocksMarked'
    <3> SUFFICES ASSUME NEW i \in 1 .. Len(returns'), returns'[i].kind = "return"
                 PROVE  /\ returns'[i].share \in hashed'
                        /\ OwnBlock(returns'[i]) =>
                             \/ Settled(returns'[i].share.job)
                             \/ i > 1 /\ returns'[i - 1] =
                                  [kind |-> "markStale", height |-> returns'[i].share.job.height]
      BY <1>1, JobsAlone, ZenonT(60) DEF BlocksMarked, OwnBlock
    <3>1. CASE i \in 1 .. Len(returns)
      <4>1. returns'[i] = returns[i] /\ (i > 1 => returns'[i - 1] = returns[i - 1])
        BY <1>11, <2>1, <3>1
      <4> QED
        BY <1>0, <1>2, <3>1, <4>1, ZenonT(60) DEF BlocksMarked
    <3>2. CASE i = Len(returns) + 1
      BY <1>2, <1>7, <1>13, <2>1, <3>2, ZenonT(60)
    <3> QED
      BY <1>11, <2>1, <3>1, <3>2
  <2> QED
    BY <1>4, <1>5, <2>2, <2>3, ZenonT(60) DEF SharesInv
<1> QED
  BY <1>12, <1>13, ZenonT(60)

\* What is left of the dispatched closures once the first of them has run
LEMMA ReturnsTail ==
  ASSUME ShareTypes, returns # <<>>, returns' = Tail(returns)
  PROVE  /\ returns' \in Seq(Answer \union Mark)
         /\ Len(returns') = Len(returns) - 1 /\ Len(returns) \in Nat \ {0}
         /\ \A i \in 1 .. Len(returns') :
              returns'[i] = returns[i + 1] /\ i + 1 \in 1 .. Len(returns)
         /\ Head(returns) = returns[1] /\ 1 \in 1 .. Len(returns)
         /\ Head(returns) \in Answer \union Mark
BY DEF ShareTypes

\* The closure that makes the jobs of a solved block stale runs.
LEMMA MarkStaleShares ==
  ASSUME IInv, SharesInv, markStale
  PROVE  RepoStep /\ SharesInv'
<1>0. ShareTypes /\ RightJob /\ JobsKnown /\ BlocksMarked /\ LogSettled
  BY ZenonT(60) DEF SharesInv
<1>1. /\ returns # <<>> /\ Head(returns).kind = "markStale" /\ returns' = Tail(returns)
      /\ markAllJobsAsStale(Head(returns).height)
      /\ UNCHANGED <<queued, hashing, hashed, shareLog, submits>>
  BY ZenonT(60) DEF markStale, poolVars
<1>2. /\ returns' \in Seq(Answer \union Mark)
      /\ Len(returns') = Len(returns) - 1 /\ Len(returns) \in Nat \ {0}
      /\ \A i \in 1 .. Len(returns') :
           returns'[i] = returns[i + 1] /\ i + 1 \in 1 .. Len(returns)
      /\ Head(returns) = returns[1] /\ Head(returns) \in Answer \union Mark
  BY <1>0, <1>1, ReturnsTail, ZenonT(60)
<1>3. Head(returns) \in Mark /\ Head(returns).height \in Nat
  BY <1>1, <1>2, ZenonT(60) DEF Answer, Mark
<1>4. RepoStep
  BY <1>1, <1>3, ZenonT(60) DEF RepoStep
<1>5. Shares' = Shares
  BY <1>1, ZenonT(60) DEF Shares
<1>6. ShareTypes' /\ RightJob'
  BY <1>0, <1>1, <1>2, <1>5, ZenonT(60) DEF ShareTypes, RightJob
<1>7. JobsKnown'
  BY <1>0, <1>4, <1>5, ShareFields, StaysKnown, ZenonT(60) DEF JobsKnown
<1> DEFINE After(j) == j \in exJobs' => j \in stale' \/ disordered'
<1>8. ASSUME NEW w \in hashed, Settled(w.job)
      PROVE  After(w.job)
  BY <1>0, <1>4, <1>8, ShareFields, StaysSettled, ZenonT(60) DEF JobsKnown, Shares, Settled
<1>9. ASSUME NEW w \in hashed, w.job.height = Head(returns).height
      PROVE  After(w.job)
  <2>1. w.job.height \in Nat
    BY <1>3, <1>9, ZenonT(60)
  <2>2. w.job \in exJobs => w.job \in stale'
    BY <1>1, <1>9, <2>1 DEF markAllJobsAsStale
  <2>3. exJobs' = exJobs
    BY <1>1, ZenonT(60) DEF markAllJobsAsStale
  <2> QED
    BY <2>2, <2>3, ZenonT(60)
<1>10. BlocksMarked'
  <2> SUFFICES ASSUME NEW i \in 1 .. Len(returns'), returns'[i].kind = "return"
               PROVE  /\ returns'[i].share \in hashed
                      /\ OwnBlock(returns'[i]) =>
                           \/ After(returns'[i].share.job)
                           \/ i > 1 /\ returns'[i - 1] =
                                [kind |-> "markStale", height |-> returns'[i].share.job.height]
    BY <1>1, ZenonT(60) DEF BlocksMarked, OwnBlock, Settled
  <2> DEFINE r == returns[i + 1]
  <2>1. returns'[i] = r /\ i + 1 \in 1 .. Len(returns) /\ i \in Nat \ {0} /\ (i + 1) - 1 = i
    BY <1>2
  <2>2. r.share \in hashed
        /\ (OwnBlock(r) => \/ Settled(r.share.job)
                           \/ returns[i] = [kind |-> "markStale", height |-> r.share.job.height])
    BY <1>0, <2>1, ZenonT(60) DEF BlocksMarked
  <2> HIDE DEF r
  <2>3. CASE i = 1
    BY <1>2, <1>8, <1>9, <2>1, <2>2, <2>3
  <2>4. CASE i > 1
    <3>1. returns'[i - 1] = returns[i]
      BY <1>2, <2>1, <2>4
    <3> QED
      BY <1>8, <2>1, <2>2, <2>4, <3>1, ZenonT(60)
  <2> QED
    BY <2>1, <2>3, <2>4
<1>11. LogSettled'
  <2> SUFFICES ASSUME NEW i \in 1 .. Len(shareLog)
               PROVE  /\ shareLog[i].share \in hashed
                      /\ OwnBlock(shareLog[i]) => After(shareLog[i].share.job)
    BY <1>1, ZenonT(60) DEF LogSettled, OwnBlock, Settled
  <2> QED
    BY <1>0, <1>8, ZenonT(60) DEF LogSettled
<1> QED
  BY <1>4, <1>6, <1>7, <1>10, <1>11, ZenonT(60) DEF SharesInv

\* The closure that answers and logs a share runs.
LEMMA ReturnShares ==
  ASSUME SharesInv, returnShare
  PROVE  SharesInv'
<1>0. ShareTypes /\ RightJob /\ JobsKnown /\ BlocksMarked /\ LogSettled
  BY ZenonT(60) DEF SharesInv
<1>1. /\ returns # <<>> /\ Head(returns).kind = "return" /\ returns' = Tail(returns)
      /\ shareLog' = Append(shareLog, Head(returns)) \/ shareLog' = shareLog
      /\ UNCHANGED <<exJobs, stale, disordered, queued, hashing, hashed, submits>>
  BY ZenonT(60) DEF returnShare, vars, repoVars, history, poolVars
<1>2. /\ returns' \in Seq(Answer \union Mark)
      /\ Len(returns') = Len(returns) - 1 /\ Len(returns) \in Nat \ {0}
      /\ \A i \in 1 .. Len(returns') :
           returns'[i] = returns[i + 1] /\ i + 1 \in 1 .. Len(returns)
      /\ Head(returns) = returns[1] /\ 1 \in 1 .. Len(returns)
      /\ Head(returns) \in Answer \union Mark
  BY <1>0, <1>1, ReturnsTail, ZenonT(60)
<1>3. Head(returns) \in Answer
  BY <1>1, <1>2, ZenonT(60) DEF Answer, Mark
<1>4. Shares' = Shares
  BY <1>1, ZenonT(60) DEF Shares
<1>5. RightJob' /\ JobsKnown'
  BY <1>0, <1>1, <1>4, JobsAlone, ZenonT(60) DEF RightJob, JobsKnown
<1>6. Head(returns).share \in hashed
      /\ (OwnBlock(Head(returns)) => Settled(Head(returns).share.job))
  <2>1. returns[1].kind = "return" /\ ~(1 > 1)
    BY <1>1, <1>2
  <2>2. returns[1].share \in hashed /\ (OwnBlock(returns[1]) => Settled(returns[1].share.job))
    BY <1>0, <1>2, <2>1, ZenonT(60) DEF BlocksMarked
  <2> QED
    BY <1>2, <2>2, ZenonT(60)
<1>7. BlocksMarked'
  <2> SUFFICES ASSUME NEW i \in 1 .. Len(returns'), returns'[i].kind = "return"
               PROVE  /\ returns'[i].share \in hashed
                      /\ OwnBlock(returns'[i]) =>
                           \/ Settled(returns'[i].share.job)
                           \/ i > 1 /\ returns'[i - 1] =
                                [kind |-> "markStale", height |-> returns'[i].share.job.height]
    BY <1>1, JobsAlone, ZenonT(60) DEF BlocksMarked, OwnBlock
  <2> DEFINE r == returns[i + 1]
  <2>1. returns'[i] = r /\ i + 1 \in 1 .. Len(returns) /\ i \in Nat \ {0} /\ (i + 1) - 1 = i
    BY <1>2
  <2>2. r.share \in hashed
        /\ (OwnBlock(r) => \/ Settled(r.share.job)
                           \/ returns[i] = [kind |-> "markStale", height |-> r.share.job.height])
    BY <1>0, <2>1, ZenonT(60) DEF BlocksMarked
  <2> HIDE DEF r
  <2>3. CASE i = 1
    BY <1>1, <1>2, <2>1, <2>2, <2>3
  <2>4. CASE i > 1
    <3>1. returns'[i - 1] = returns[i]
      BY <1>2, <2>1, <2>4
    <3> QED
      BY <2>1, <2>2, <2>4, <3>1, ZenonT(60)
  <2> QED
    BY <2>1, <2>3, <2>4
<1>8. shareLog' \in Seq(Answer) /\ LogSettled'
  <2>1. shareLog \in Seq(Answer)
    BY <1>0, ZenonT(60) DEF ShareTypes
  <2>2. CASE shareLog' = shareLog
    BY <1>0, <1>1, <2>1, <2>2, JobsAlone, ZenonT(60) DEF LogSettled, OwnBlock
  <2>3. CASE shareLog' = Append(shareLog, Head(returns))
    <3>1. /\ shareLog' \in Seq(Answer) /\ Len(shareLog') = Len(shareLog) + 1
          /\ \A i \in 1 .. Len(shareLog) : shareLog'[i] = shareLog[i]
          /\ shareLog'[Len(shareLog) + 1] = Head(returns) /\ Len(shareLog) \in Nat
      BY <1>3, <2>1, <2>3
    <3> SUFFICES ASSUME NEW i \in 1 .. Len(shareLog')
                 PROVE  /\ shareLog'[i].share \in hashed
                        /\ OwnBlock(shareLog'[i]) => Settled(shareLog'[i].share.job)
      BY <1>1, <3>1, JobsAlone, ZenonT(60) DEF LogSettled, OwnBlock
    <3>2. CASE i \in 1 .. Len(shareLog)
      BY <1>0, <3>1, <3>2, ZenonT(60) DEF LogSettled
    <3>3. CASE i = Len(shareLog) + 1
      BY <1>6, <3>1, <3>3, ZenonT(60)
    <3> QED
      BY <3>1, <3>2, <3>3
  <2> QED
    BY <1>1, <2>2, <2>3, ZenonT(60)
<1>9. ShareTypes'
  BY <1>0, <1>1, <1>2, <1>8, ZenonT(60) DEF ShareTypes
<1> QED
  BY <1>5, <1>7, <1>8, <1>9, ZenonT(60) DEF SharesInv

-----------------------------------------------------------------------------
(* The steps of the server *)

\* The initial states satisfy the invariant.
LEMMA FlowInitInv ==
  ASSUME FlowInit
  PROVE  FlowInv
<1>1. IInv
  BY InitInv, ZenonT(60) DEF FlowInit
<1>2. /\ session = [s \in Sessions |-> "new"] /\ localJobs = [s \in Sessions |-> <<>>]
      /\ shortJobIdIdx = [s \in Sessions |-> 0] /\ notified = [s \in Sessions |-> 0]
      /\ queued = <<>> /\ hashing = {} /\ hashed = {}
      /\ returns = <<>> /\ shareLog = <<>> /\ submits = 0
  BY ZenonT(60) DEF FlowInit, Pool!Init
<1>3. SessionTypes
  BY <1>2 DEF SessionTypes
<1>4. Numbered
  <2>1. 0 % MaxLocal = 0 /\ ShortJobId(0) = 0 /\ Window(<<>>, 0)
    BY LocalAssumption DEF ShortJobId, Window
  <2> QED
    BY <1>2, <2>1, ZenonT(60) DEF Numbered
<1>5. SentSince /\ CurrentJobKept
  BY <1>2, ZenonT(60) DEF SentSince, CurrentJobKept
<1>6. ShareTypes
  BY <1>2 DEF ShareTypes
<1>7. RightJob /\ JobsKnown /\ BlocksMarked /\ LogSettled
  BY <1>2 DEF Shares, RightJob, JobsKnown, BlocksMarked, LogSettled
<1> QED
  BY <1>1, <1>3, <1>4, <1>5, <1>6, <1>7, ZenonT(60) DEF FlowInv, SessionsInv, SharesInv

\* Steps in which the repository moves and the shares do not
LEMMA RepoFlowStep ==
  ASSUME FlowInv, Next, UNCHANGED <<poolVars, shareVars>>, SessionsInv'
  PROVE  FlowInv'
<1>1. IInv' /\ RepoStep
  BY RepoInv, ZenonT(60) DEF FlowInv, RepoStep
<1>2. UNCHANGED <<queued, hashing, hashed, returns, shareLog, submits>>
  BY ZenonT(60) DEF poolVars, shareVars
<1>3. SharesInv'
  BY <1>1, <1>2, RepoShares, ZenonT(60) DEF FlowInv
<1> QED
  BY <1>1, <1>3, ZenonT(60) DEF FlowInv

\* Steps in which the repository does not move
LEMMA QuietFlowStep ==
  ASSUME FlowInv, UNCHANGED vars, SessionsInv', SharesInv'
  PROVE  FlowInv'
BY RepoInv, ZenonT(60) DEF FlowInv, RepoStep

\* Steps in which neither the repository loses jobs nor a job is sent
LEMMA JobsStay ==
  ASSUME FlowInv, UNCHANGED sessionVars, UNCHANGED lastJobSendTime,
         exJobs \subseteq exJobs'
  PROVE  SessionsInv'
BY NothingSentStep, ZenonT(60) DEF FlowInv, ExpiryBeforeRepeat

\* A job that is new and better is sent to all sessions.
LEMMA BroadcastFlow ==
  ASSUME FlowInv, broadcast
  PROVE  FlowInv'
<1> DEFINE j == Head(tasks)
<1>0. IInv /\ SessionsInv /\ TypeOK
  BY ZenonT(60) DEF FlowInv, IInv
<1>1. jobTask /\ UNCHANGED <<poolVars, shareVars>>
  BY ZenonT(60) DEF broadcast
<1>2. j \in Jobs
  BY <1>0, <1>1, TaskQueue, ZenonT(60) DEF jobTask
<1>3. CASE j \notin exJobs /\ ~CannotMine(j) /\ IsSent(j)
  <2>1. sendMiningNotifyToAll(j)
    BY <1>3, ZenonT(60) DEF broadcast
  <2>2. lastJobSendTime' = now /\ j \in exJobs'
    BY <1>1, <1>3, ZenonT(60) DEF jobTask, broadcastStratumJob
  <2> QED
    BY <1>0, <1>1, <1>2, <2>1, <2>2, SendToAllStep, RepoFlowStep, ZenonT(60) DEF Next
<1>4. CASE ~(j \notin exJobs /\ ~CannotMine(j) /\ IsSent(j))
  <2>1. UNCHANGED sessionVars
    BY <1>4, ZenonT(60) DEF broadcast
  <2>2. UNCHANGED lastJobSendTime /\ exJobs \subseteq exJobs'
    BY <1>1, <1>4, ZenonT(60) DEF jobTask, broadcastStratumJob, repoVars
  <2> QED
    BY <1>1, <2>1, <2>2, JobsStay, RepoFlowStep, ZenonT(60) DEF Next
<1> QED
  BY <1>3, <1>4, ZenonT(60)

\* The check repeats the latest job when it is due; if it is not due, the jobs
\* that expire were sent less than the notify interval ago.
LEMMA CheckFlow ==
  ASSUME FlowInv, checkAndClean
  PROVE  FlowInv'
<1>0. IInv /\ SessionsInv /\ TypeOK /\ HasLatest
  BY ZenonT(60) DEF FlowInv, IInv
<1>1. checkTask /\ UNCHANGED <<poolVars, shareVars>>
  BY ZenonT(60) DEF checkAndClean
<1>2. CASE NotifyDue
  <2>1. PICK j \in exJobs : IsLatest(j) /\ sendMiningNotifyToAll(j)
    BY <1>2, ZenonT(60) DEF checkAndClean
  <2>2. j \in Jobs /\ j \in exJobs'
    BY <1>0, <1>1, <2>1, ZenonT(60) DEF TypeOK, checkTask, Unexpired
  <2>3. lastJobSendTime' = now
    BY <1>1, <1>2, ZenonT(60) DEF checkTask, SendTime
  <2> QED
    BY <1>0, <1>1, <2>1, <2>2, <2>3, SendToAllStep, RepoFlowStep, ZenonT(60) DEF Next
<1>3. CASE ~NotifyDue
  <2>1. UNCHANGED sessionVars
    BY <1>3, ZenonT(60) DEF checkAndClean
  <2>2. UNCHANGED lastJobSendTime /\ exJobs' = Unexpired
    BY <1>1, <1>3, ZenonT(60) DEF checkTask
  <2>3. ExpiryBeforeRepeat
    <3> SUFFICES ASSUME NEW j \in exJobs, j \notin exJobs'
                 PROVE  j.time + LifeTime < lastJobSendTime + Interval
      BY ZenonT(60) DEF ExpiryBeforeRepeat
    <3>1. j.time \in Nat /\ LifeTime \in Nat /\ Interval \in Nat
      BY <1>0, JobFields, TimesAssumption, ZenonT(60) DEF TypeOK
    <3>2. now \in Nat /\ lastJobSendTime \in Nat
      BY <1>0 DEF TypeOK
    <3>3. ~(now < j.time + LifeTime)
      BY <2>2, ZenonT(60) DEF Unexpired
    <3>4. ~(lastJobSendTime + Interval <= now)
      BY <1>3, ZenonT(60) DEF NotifyDue
    <3> QED
      BY <3>1, <3>2, <3>3, <3>4
  <2> QED
    BY <1>0, <1>1, <2>1, <2>2, <2>3, NothingSentStep, RepoFlowStep, ZenonT(60) DEF Next
<1> QED
  BY <1>2, <1>3, ZenonT(60)

\* Every step keeps the invariant.
LEMMA FlowNextInv ==
  ASSUME FlowInv, [FlowNext]_flowVars
  PROVE  FlowInv'
<1>0. IInv /\ SessionsInv /\ SharesInv
  BY ZenonT(60) DEF FlowInv
<1>1. CASE poll
  <2>1. Next /\ UNCHANGED <<sessionVars, poolVars, shareVars, lastJobSendTime, exJobs>>
    BY <1>1, ZenonT(60) DEF poll, Next, consumeNothing, consumeStratumJob, repoVars
  <2> QED
    BY <2>1, JobsStay, RepoFlowStep, ZenonT(60)
<1>2. CASE broadcast
  BY <1>2, BroadcastFlow, ZenonT(60)
<1>3. CASE checkAndClean
  BY <1>3, CheckFlow, ZenonT(60)
<1>4. CASE second
  <2>1. Next /\ UNCHANGED <<sessionVars, poolVars, shareVars, lastJobSendTime, exJobs>>
    BY <1>4, ZenonT(60) DEF second, Next, tick, repoVars
  <2> QED
    BY <2>1, JobsStay, RepoFlowStep, ZenonT(60)
<1>5. ASSUME NEW s \in Sessions, authorize(s)
      PROVE  FlowInv'
  <2>1. UNCHANGED vars /\ UNCHANGED <<queued, hashing, hashed, returns, shareLog, submits>>
    BY <1>5, ZenonT(60) DEF authorize, poolVars, shareVars
  <2> QED
    BY <1>0, <1>5, <2>1, AuthorizeStep, RepoShares, QuietFlowStep, ZenonT(60) DEF RepoStep
<1>6. ASSUME NEW s \in Sessions, disconnect(s)
      PROVE  FlowInv'
  <2>1. UNCHANGED vars /\ UNCHANGED <<queued, hashing, hashed, returns, shareLog, submits>>
    BY <1>6, ZenonT(60) DEF disconnect, poolVars, shareVars
  <2> QED
    BY <1>0, <1>6, <2>1, DisconnectStep, RepoShares, QuietFlowStep, ZenonT(60) DEF RepoStep
<1>7. ASSUME NEW s \in Sessions, NEW n \in 1 .. notified[s], NEW nonce \in Nonces,
             submit(s, n, nonce)
      PROVE  FlowInv'
  <2>1. UNCHANGED vars /\ n \in Nat
    BY <1>7 DEF submit
  <2> QED
    BY <1>0, <1>7, <2>1, SubmitSessions, SubmitShares, QuietFlowStep, ZenonT(60)
<1>8. CASE startHashing
  <2>1. UNCHANGED vars /\ UNCHANGED <<sessionVars, lastJobSendTime, exJobs>>
    BY <1>8, ZenonT(60) DEF startHashing, vars, repoVars
  <2> QED
    BY <1>0, <1>8, <2>1, JobsStay, StartShares, QuietFlowStep, ZenonT(60)
<1>9. ASSUME NEW w \in hashing, NEW hit \in BOOLEAN, NEW low \in BOOLEAN,
             finishHashing(w, hit, low)
      PROVE  FlowInv'
  <2>1. UNCHANGED vars /\ UNCHANGED <<sessionVars, lastJobSendTime, exJobs>>
    BY <1>9, ZenonT(60) DEF finishHashing, vars, repoVars
  <2> QED
    BY <1>0, <1>9, <2>1, JobsStay, FinishShares, QuietFlowStep, ZenonT(60)
<1>10. CASE markStale
  <2>1. UNCHANGED <<sessionVars, lastJobSendTime, exJobs>>
    BY <1>10, ZenonT(60) DEF markStale, markAllJobsAsStale
  <2>2. SessionsInv'
    BY <2>1, JobsStay, ZenonT(60)
  <2> QED
    BY <1>0, <1>10, <2>2, MarkStaleShares, RepoInv, ZenonT(60) DEF FlowInv
<1>11. CASE returnShare
  <2>1. UNCHANGED vars /\ UNCHANGED <<sessionVars, lastJobSendTime, exJobs>>
    BY <1>11, ZenonT(60) DEF returnShare, vars, repoVars
  <2> QED
    BY <1>0, <1>11, <2>1, JobsStay, ReturnShares, QuietFlowStep, ZenonT(60)
<1>12. CASE shutDown
  <2>1. Next /\ UNCHANGED <<sessionVars, lastJobSendTime, exJobs>>
    BY <1>12, ZenonT(60) DEF shutDown, Next, stop, repoVars
  <2>2. UNCHANGED <<queued, hashing, hashed, returns, shareLog, submits>>
    BY <1>12, ZenonT(60) DEF shutDown, shareVars, Pool!Close
  <2> QED
    BY <1>0, <2>1, <2>2, JobsStay, RepoShares, RepoInv, ZenonT(60) DEF FlowInv, RepoStep
<1>13. CASE UNCHANGED flowVars
  <2>1. UNCHANGED vars /\ UNCHANGED <<sessionVars, lastJobSendTime, exJobs>>
    BY <1>13, ZenonT(60) DEF flowVars, vars, repoVars
  <2>2. UNCHANGED <<queued, hashing, hashed, returns, shareLog, submits>>
    BY <1>13, ZenonT(60) DEF flowVars, poolVars, shareVars
  <2> QED
    BY <1>0, <2>1, <2>2, JobsStay, RepoShares, QuietFlowStep, ZenonT(60) DEF RepoStep
<1> QED
  BY <1>1, <1>2, <1>3, <1>4, <1>5, <1>6, <1>7, <1>8, <1>9, <1>10, <1>11, <1>12, <1>13, ZenonT(60)
     DEF FlowNext

-----------------------------------------------------------------------------
(* The theorems *)

\* The inductive invariant holds in every reachable state.
THEOREM FlowInvariant == FlowSpec => []FlowInv
<1>1. FlowInit => FlowInv
  BY FlowInitInv, ZenonT(60)
<1>2. FlowInv /\ [FlowNext]_flowVars => FlowInv'
  BY FlowNextInv, ZenonT(60)
<1> QED
  BY <1>1, <1>2, PTL DEF FlowSpec

\* A share is never checked against an earlier job than the one its miner worked
\* on, nor against a later one within the window of the short ids.
THEOREM SharesGetRightJob == FlowSpec => []RightJob
<1>1. FlowInv => RightJob
  BY ZenonT(60) DEF FlowInv, SharesInv
<1> QED
  BY <1>1, FlowInvariant, PTL

\* When a share that solved a block of our own is answered, its job is stale.
THEOREM SolvedJobIsStale == FlowSpec => []SolvedJobStale
<1>1. FlowInv => SolvedJobStale
  BY ZenonT(60) DEF FlowInv, SharesInv, LogSettled, SolvedJobStale, OwnBlock, Settled
<1> QED
  BY <1>1, FlowInvariant, PTL

\* A miner's shares for the job it was sent last find that job, if it had more
\* than the notify interval left to live.
THEOREM CurrentJobIsKept == FlowSpec => []CurrentJobKept
<1>1. FlowInv => CurrentJobKept
  BY ZenonT(60) DEF FlowInv, SessionsInv
<1> QED
  BY <1>1, FlowInvariant, PTL

\* The repository's promises hold inside the server too, where blocks of our own
\* make jobs stale after they have left the map, and where time waits.
THEOREM RepositoryInServer ==
  FlowSpec => [](LatestLive /\ SupersededStale /\ StaleExplained)
<1>1. FlowInv => LatestLive /\ SupersededStale /\ StaleExplained
  BY ZenonT(60) DEF FlowInv, IInv
<1> QED
  BY <1>1, FlowInvariant, PTL
=============================================================================
