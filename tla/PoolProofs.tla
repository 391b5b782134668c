----------------------------- MODULE PoolProofs -----------------------------
(***************************************************************************)
(* Proofs about two components that work by themselves: the share worker   *)
(* pool of the stratum server, and the pool watcher's choice between the   *)
(* pools that it watches.                                                  *)
(***************************************************************************)
EXTENDS WorkerPool, PoolWatcher, TLAPS

\* The time that each prover has for a step that names none
USE SMTT(40), Z3T(60), ZenonT(60)

(***************************************************************************)
(* The share worker pool, for any number of callers, workers and closures  *)
(* and any capacity: the queue never overflows, and every step is a step   *)
(* of the abstract queue or none, so that closures are started in order    *)
(* and run once.                                                           *)
(***************************************************************************)

\* Who runs a closure has one, and who calls dispatch() has one to give.
Holding ==
  /\ \A t \in Workers : worker[t] = "running" <=> work[t] # NoWork
  /\ \A d \in Dispatchers : caller[d] = "idle" <=> arg[d] = NoWork

\* A closure is at one place: not yet dispatched, in a call, in the queue, with a
\* worker, or done.
Places ==
  /\ \A d \in Dispatchers : arg[d] \notin fresh /\ arg[d] \notin done
  /\ \A d, e \in Dispatchers : arg[d] = arg[e] => d = e \/ arg[d] = NoWork
  /\ \A i \in 1 .. Len(works) : works[i] \notin fresh /\ works[i] \notin done
  /\ \A i \in 1 .. Len(works) : \A d \in Dispatchers : works[i] # arg[d]
  /\ \A i, k \in 1 .. Len(works) : works[i] = works[k] => i = k
  /\ \A t \in Workers : work[t] \notin fresh /\ work[t] \notin done
  /\ \A t \in Workers : \A d \in Dispatchers : work[t] = arg[d] => work[t] = NoWork
  /\ \A t \in Workers : \A i \in 1 .. Len(works) : work[t] # works[i]
  /\ \A t, u \in Workers : work[t] = work[u] => t = u \/ work[t] = NoWork
  /\ fresh \cap done = {}

PoolInv == TypeOK /\ Holding /\ Places

-----------------------------------------------------------------------------

WorkerStates == {"ready", "waiting", "running", "exited"}
CallerStates == {"idle", "ready", "waiting"}

\* notify_one() moves at most one thread, from "waiting" to "ready".
LEMMA WorkerWoken ==
  ASSUME TypeOK, WakeWorker
  PROVE  /\ worker' \in [Workers -> WorkerStates]
         /\ \A t \in Workers : worker'[t] = "running" <=> worker[t] = "running"
BY DEF TypeOK, WakeWorker, NotifyOne, WorkerStates

\* notify_one() wakes one of the callers, and lets none of them return.
LEMMA CallerWoken ==
  ASSUME TypeOK, WakeCaller
  PROVE  /\ caller' \in [Dispatchers -> CallerStates]
         /\ \A d \in Dispatchers : caller'[d] = "idle" <=> caller[d] = "idle"
BY DEF TypeOK, WakeCaller, NotifyOne, CallerStates

\* The initial state satisfies the invariant.
LEMMA PoolInit == Init => PoolInv
<1> SUFFICES ASSUME Init PROVE PoolInv
  OBVIOUS
<1>1. works \in Seq(Works) /\ Len(works) = 0
  BY DEF Init
<1>2. TypeOK
  <2>1. stop \in BOOLEAN
    BY ZenonT(60) DEF Init
  <2>2. Len(works) <= Capacity
    BY <1>1, CapacityAssumption
  <2> QED
    BY <1>1, <2>1, <2>2 DEF Init, TypeOK
<1>3. Holding
  BY DEF Init, Holding
<1>4. 1 .. Len(works) = {}
  BY <1>1
<1>5. Places
  BY <1>4, NoWorkAssumption DEF Init, Places
<1> QED
  BY <1>2, <1>3, <1>5 DEF PoolInv

\* Steps that leave the closures where they are and move threads between states
\* in which they hold the same keep the invariant.
LEMMA QuietStep ==
  ASSUME PoolInv, UNCHANGED <<works, arg, work, fresh, done>>, stop' \in BOOLEAN,
         caller' \in [Dispatchers -> CallerStates],
         worker' \in [Workers -> WorkerStates],
         stopper' \in {"idle", "joining", "returned"},
         \A d \in Dispatchers : caller'[d] = "idle" <=> caller[d] = "idle",
         \A t \in Workers : worker'[t] = "running" <=> worker[t] = "running"
  PROVE  PoolInv'
<1>1. TypeOK'
  BY DEF PoolInv, TypeOK, CallerStates, WorkerStates
<1>2. Holding'
  BY DEF PoolInv, Holding
<1>3. Places'
  BY DEF PoolInv, Places
<1> QED
  BY <1>1, <1>2, <1>3 DEF PoolInv

\* dispatch() begins: a closure leaves fresh.
LEMMA CallKeeps ==
  ASSUME PoolInv, NEW d \in Dispatchers, call(d)
  PROVE  PoolInv'
<1>1. PICK w \in fresh : arg' = [arg EXCEPT ![d] = w] /\ fresh' = fresh \ {w}
  BY ZenonT(60) DEF call
<1>2. w \in Works /\ w # NoWork
  BY NoWorkAssumption DEF PoolInv, TypeOK
<1>3. \A e \in Dispatchers : arg'[e] = IF e = d THEN w ELSE arg[e]
  BY <1>1 DEF PoolInv, TypeOK
<1>4. TypeOK'
  BY <1>1, <1>2 DEF PoolInv, TypeOK, call
<1>5. Holding'
  BY <1>2, <1>3 DEF PoolInv, TypeOK, Holding, call
<1>6. Places'
  <2>1. UNCHANGED <<works, work, done>>
    BY DEF call
  <2>2. \A e \in Dispatchers : arg[e] # w
    BY DEF PoolInv, Places
  <2>3. w \notin done /\ \A i \in 1 .. Len(works) : works[i] # w
    BY DEF PoolInv, Places
  <2>4. \A t \in Workers : work[t] # w
    BY DEF PoolInv, Places
  <2> QED
    BY <1>1, <1>2, <1>3, <2>1, <2>2, <2>3, <2>4 DEF PoolInv, Places
<1> QED
  BY <1>4, <1>5, <1>6 DEF PoolInv

\* dispatch() ends, without a push when the pool is stopped.
LEMMA PushKeeps ==
  ASSUME PoolInv, NEW d \in Dispatchers, push(d)
  PROVE  PoolInv'
<1>1. /\ arg[d] \in Works /\ arg[d] # NoWork
      /\ arg' = [arg EXCEPT ![d] = NoWork]
      /\ caller' = [caller EXCEPT ![d] = "idle"]
      /\ UNCHANGED <<stop, work, fresh, done, stopper>>
  BY DEF PoolInv, TypeOK, Holding, push
<1>2. \A e \in Dispatchers : arg'[e] = IF e = d THEN NoWork ELSE arg[e]
  BY <1>1 DEF PoolInv, TypeOK
<1>3. NoWork \notin fresh /\ NoWork \notin done /\ NoWork \notin Works
  BY NoWorkAssumption DEF PoolInv, TypeOK
<1>4. \A i \in 1 .. Len(works) : works[i] \in Works
  BY DEF PoolInv, TypeOK
<1>5. CASE stop
  <2>1. UNCHANGED <<works, worker>>
    BY <1>5 DEF push
  <2>2. TypeOK'
    BY <1>1, <2>1 DEF PoolInv, TypeOK
  <2>3. Holding'
    BY <1>1, <1>2, <2>1 DEF PoolInv, TypeOK, Holding
  <2>4. Places'
    BY <1>1, <1>2, <1>3, <1>4, <2>1 DEF PoolInv, Places
  <2> QED
    BY <2>2, <2>3, <2>4 DEF PoolInv
<1>6. CASE ~stop
  <2>1. works' = Append(works, arg[d]) /\ WakeWorker
    BY <1>6 DEF push
  <2>2. works \in Seq(Works) /\ Len(works) < Capacity
    <3>1. ~(Len(works) >= Capacity)
      BY <1>6, ZenonT(60) DEF push, MustWait, Full
    <3>2. works \in Seq(Works)
      BY DEF PoolInv, TypeOK
    <3> QED
      BY <3>1, <3>2, CapacityAssumption
  <2>3. /\ works' \in Seq(Works) /\ Len(works') = Len(works) + 1
        /\ Len(works) \in Nat
        /\ \A i \in 1 .. Len(works) : works'[i] = works[i]
        /\ works'[Len(works) + 1] = arg[d]
    BY <1>1, <2>1, <2>2
  <2>4. /\ worker' \in [Workers -> {"ready", "waiting", "running", "exited"}]
        /\ \A t \in Workers : worker'[t] = "running" <=> worker[t] = "running"
    BY <2>1, WorkerWoken DEF PoolInv, WorkerStates
  <2>5. TypeOK'
    <3>1. Len(works') <= Capacity
      BY <2>2, <2>3, CapacityAssumption
    <3> QED
      BY <1>1, <2>3, <2>4, <3>1 DEF PoolInv, TypeOK
  <2>6. Holding'
    BY <1>1, <1>2, <2>4 DEF PoolInv, TypeOK, Holding
  <2>7. Places'
    <3>1. \A i \in 1 .. Len(works') :
            \/ i \in 1 .. Len(works) /\ works'[i] = works[i]
            \/ i = Len(works) + 1 /\ works'[i] = arg[d]
      BY <2>3
    <3>2. \A i \in 1 .. Len(works') : works'[i] \notin fresh' /\ works'[i] \notin done'
      BY <1>1, <3>1 DEF PoolInv, Places
    <3>3. \A i \in 1 .. Len(works') : \A e \in Dispatchers : works'[i] # arg'[e]
      BY <1>1, <1>2, <1>3, <1>4, <3>1 DEF PoolInv, Places
    <3>4. \A i, k \in 1 .. Len(works') : works'[i] = works'[k] => i = k
      BY <3>1 DEF PoolInv, Places
    <3>5. \A t \in Workers : \A i \in 1 .. Len(works') : work'[t] # works'[i]
      BY <1>1, <3>1 DEF PoolInv, Places
    <3>6. \A t \in Workers : \A e \in Dispatchers : work'[t] = arg'[e] => work'[t] = NoWork
      BY <1>1, <1>2 DEF PoolInv, Places
    <3>7. \A e, g \in Dispatchers : arg'[e] = arg'[g] => e = g \/ arg'[e] = NoWork
      BY <1>2 DEF PoolInv, Places
    <3>8. \A e \in Dispatchers : arg'[e] \notin fresh' /\ arg'[e] \notin done'
      BY <1>1, <1>2, <1>3 DEF PoolInv, Places
    <3> QED
      BY <1>1, <3>2, <3>3, <3>4, <3>5, <3>6, <3>7, <3>8 DEF PoolInv, Places
  <2> QED
    BY <2>5, <2>6, <2>7 DEF PoolInv
<1> QED
  BY <1>5, <1>6

\* A worker takes the oldest closure.
LEMMA PopKeeps ==
  ASSUME PoolInv, NEW t \in Workers, pop(t)
  PROVE  PoolInv'
<1>1. /\ works \in Seq(Works) /\ works # <<>>
      /\ work[t] = NoWork
      /\ work' = [work EXCEPT ![t] = works[1]]
      /\ worker' = [worker EXCEPT ![t] = "running"]
      /\ works' = Tail(works)
      /\ UNCHANGED <<arg, fresh, done, stopper>>
  BY DEF PoolInv, TypeOK, Holding, pop, Oldest
<1>2. UNCHANGED stop
  BY DEF pop
<1>3. /\ works' \in Seq(Works) /\ Len(works) \in Nat /\ Len(works') = Len(works) - 1
      /\ 1 \in 1 .. Len(works) /\ works[1] \in Works
      /\ \A i \in 1 .. Len(works') : i + 1 \in 1 .. Len(works) /\ works'[i] = works[i + 1]
  BY <1>1
<1>4. works[1] # NoWork
  BY <1>3, NoWorkAssumption
<1>5. \A u \in Workers : work'[u] = IF u = t THEN works[1] ELSE work[u]
  BY <1>1 DEF PoolInv, TypeOK
<1>6. /\ caller' \in [Dispatchers -> CallerStates]
      /\ \A d \in Dispatchers : caller'[d] = "idle" <=> caller[d] = "idle"
  BY CallerWoken DEF PoolInv, pop
<1>7. TypeOK'
  <2>1. Len(works') <= Capacity
    BY <1>3, CapacityAssumption DEF PoolInv, TypeOK
  <2>2. stop' \in BOOLEAN
    BY <1>2 DEF PoolInv, TypeOK
  <2> QED
    BY <1>1, <1>3, <1>6, <2>1, <2>2 DEF PoolInv, TypeOK, CallerStates
<1>8. Holding'
  BY <1>1, <1>4, <1>5, <1>6 DEF PoolInv, TypeOK, Holding
<1>9. Places'
  <2>1. \A i \in 1 .. Len(works') : works'[i] # works[1]
    <3> SUFFICES ASSUME NEW i \in 1 .. Len(works'), works'[i] = works[1] PROVE FALSE
      OBVIOUS
    <3>1. i + 1 = 1
      BY <1>3 DEF PoolInv, Places
    <3> QED
      BY <3>1, <1>3
  <2>2. \A i \in 1 .. Len(works') : \E k \in 1 .. Len(works) : works'[i] = works[k]
    BY <1>3
  <2>3. \A i, k \in 1 .. Len(works') : works'[i] = works'[k] => i = k
    <3> SUFFICES ASSUME NEW i \in 1 .. Len(works'), NEW k \in 1 .. Len(works'),
                        works'[i] = works'[k]
                 PROVE  i = k
      OBVIOUS
    <3>1. i + 1 = k + 1
      BY <1>3 DEF PoolInv, Places
    <3> QED
      BY <3>1, <1>3
  <2>4. \A i \in 1 .. Len(works') : works'[i] \notin fresh' /\ works'[i] \notin done'
    BY <1>1, <2>2 DEF PoolInv, Places
  <2>5. \A i \in 1 .. Len(works') : \A d \in Dispatchers : works'[i] # arg'[d]
    BY <1>1, <2>2 DEF PoolInv, Places
  <2>6. \A u \in Workers : \A i \in 1 .. Len(works') : work'[u] # works'[i]
    BY <1>5, <2>1, <2>2 DEF PoolInv, Places
  <2>7. \A u \in Workers : work'[u] \notin fresh' /\ work'[u] \notin done'
    BY <1>1, <1>3, <1>5 DEF PoolInv, Places
  <2>8. \A u \in Workers : \A d \in Dispatchers : work'[u] = arg'[d] => work'[u] = NoWork
    BY <1>1, <1>3, <1>5 DEF PoolInv, Places
  <2>9. \A u, v \in Workers : work'[u] = work'[v] => u = v \/ work'[u] = NoWork
    BY <1>3, <1>5 DEF PoolInv, Places
  <2> QED
    BY <1>1, <2>3, <2>4, <2>5, <2>6, <2>7, <2>8, <2>9 DEF PoolInv, Places
<1> QED
  BY <1>7, <1>8, <1>9 DEF PoolInv

\* A closure has run.
LEMMA RunKeeps ==
  ASSUME PoolInv, NEW t \in Workers, run(t)
  PROVE  PoolInv'
<1>1. /\ work[t] \in Works /\ work[t] # NoWork
      /\ work' = [work EXCEPT ![t] = NoWork]
      /\ worker' = [worker EXCEPT ![t] = "ready"]
      /\ done' = done \union {work[t]}
      /\ UNCHANGED <<works, caller, arg, fresh, stopper>>
  BY DEF PoolInv, TypeOK, Holding, run
<1>2. stop' \in BOOLEAN
  BY DEF PoolInv, TypeOK, run
<1>3. \A u \in Workers : work'[u] = IF u = t THEN NoWork ELSE work[u]
  BY <1>1 DEF PoolInv, TypeOK
<1>4. NoWork \notin fresh' /\ NoWork \notin done'
  BY <1>1, NoWorkAssumption DEF PoolInv, TypeOK
<1>5. \A i \in 1 .. Len(works) : works[i] # NoWork
  BY NoWorkAssumption DEF PoolInv, TypeOK
<1>6. TypeOK'
  BY <1>1, <1>2 DEF PoolInv, TypeOK
<1>7. Holding'
  BY <1>1, <1>3 DEF PoolInv, TypeOK, Holding
<1>8. Places'
  BY <1>1, <1>3, <1>4, <1>5 DEF PoolInv, Places
<1> QED
  BY <1>6, <1>7, <1>8 DEF PoolInv

-----------------------------------------------------------------------------

\* Every step keeps the invariant: the others only wait, wake up and leave.
LEMMA PoolStep == PoolInv /\ [Next]_vars => PoolInv'
<1> SUFFICES ASSUME PoolInv, [Next]_vars PROVE PoolInv'
  OBVIOUS
<1>1. ASSUME NEW d \in Dispatchers, call(d) PROVE PoolInv'
  BY <1>1, CallKeeps
<1>2. ASSUME NEW d \in Dispatchers, push(d) PROVE PoolInv'
  BY <1>2, PushKeeps
<1>3. ASSUME NEW t \in Workers, pop(t) PROVE PoolInv'
  BY <1>3, PopKeeps
<1>4. ASSUME NEW t \in Workers, run(t) PROVE PoolInv'
  BY <1>4, RunKeeps
<1>5. stop \in BOOLEAN /\ caller \in [Dispatchers -> CallerStates]
      /\ worker \in [Workers -> WorkerStates]
  BY DEF PoolInv, TypeOK, CallerStates, WorkerStates
<1>6. ASSUME NEW d \in Dispatchers, wait(d) PROVE PoolInv'
  BY <1>5, <1>6, QuietStep DEF wait, CallerStates, PoolInv, TypeOK
<1>7. ASSUME NEW t \in Workers, waitForWork(t) \/ exit(t) PROVE PoolInv'
  BY <1>5, <1>7, QuietStep DEF waitForWork, exit, WorkerStates, PoolInv, TypeOK
<1>8. CASE wakeUpSpuriously
  BY <1>5, <1>8, QuietStep DEF wakeUpSpuriously, CallerStates, WorkerStates, PoolInv, TypeOK
<1>9. CASE stopPool
  <2>1. /\ NotifyAll(worker) \in [Workers -> WorkerStates]
        /\ \A t \in Workers : NotifyAll(worker)[t] = "running" <=> worker[t] = "running"
    BY <1>5 DEF NotifyAll, WorkerStates
  <2>2. /\ NotifyAll(caller) \in [Dispatchers -> CallerStates]
        /\ \A d \in Dispatchers : NotifyAll(caller)[d] = "idle" <=> caller[d] = "idle"
    BY <1>5 DEF NotifyAll, CallerStates
  <2>3. stop' \in BOOLEAN
    BY <1>9, ZenonT(60) DEF stopPool
  <2> QED
    BY <1>9, <2>1, <2>2, <2>3, QuietStep DEF stopPool, WakeAllWorkers
<1>10. CASE join
  BY <1>5, <1>10, QuietStep DEF join
<1>11. CASE UNCHANGED vars
  BY <1>5, <1>11, QuietStep DEF vars, PoolInv, TypeOK
<1> QED
  BY <1>1, <1>2, <1>3, <1>4, <1>6, <1>7, <1>8, <1>9, <1>10, <1>11 DEF Next

\* The invariant holds always.
THEOREM PoolInvariant == Spec => []PoolInv
<1> QED
  BY PoolInit, PoolStep, PTL DEF Spec

\* The queue never has more closures than its capacity: circular_buffer would
\* silently overwrite the oldest of them (works_.push_back()).
THEOREM NeverOverwritten == Spec => [](Len(works) <= Capacity)
<1>1. PoolInv => Len(works) <= Capacity
  BY DEF PoolInv, TypeOK
<1> QED
  BY <1>1, PoolInvariant, PTL

\* The pool takes the steps of the queue only: closures are started in the order
\* in which dispatch() accepted them, run on one thread each, and are given up
\* only by stop() (dispatch(), runWorker(), stop()).
QueueSteps == Queue!Init /\ [][Queue!Next]_(Queue!vars)

Active == {work[t] : t \in Workers} \ {NoWork}

\* Every step of the pool is one of the queue, or none.
LEMMA StepsOfQueue == PoolInv /\ [Next]_vars => [Queue!Next]_(Queue!vars)
<1> SUFFICES ASSUME PoolInv, [Next]_vars PROVE [Queue!Next]_(Queue!vars)
  OBVIOUS
<1> DEFINE Unmoved == UNCHANGED <<works, work, done, stop>>
<1>1. ASSUME Unmoved PROVE [Queue!Next]_(Queue!vars)
  BY <1>1 DEF Queue!vars
<1>2. ASSUME NEW d \in Dispatchers, push(d) PROVE [Queue!Next]_(Queue!vars)
  <2>1. CASE stop
    BY <1>1, <1>2, <2>1 DEF push
  <2>2. CASE ~stop
    <3>1. PICK w \in Works : w = arg[d]
      BY <1>2 DEF PoolInv, TypeOK, Holding, push
    <3>2. Queue!Accept(w)
      BY <1>2, <2>2, <3>1 DEF Queue!Accept, push
    <3> QED
      BY <3>2 DEF Queue!Next
  <2> QED
    BY <2>1, <2>2
<1>3. ASSUME NEW t \in Workers, pop(t) PROVE [Queue!Next]_(Queue!vars)
  <2>1. /\ works \in Seq(Works) /\ works # <<>> /\ works[1] = Head(works) /\ works[1] \in Works
        /\ work' = [work EXCEPT ![t] = works[1]]
    BY <1>3 DEF PoolInv, TypeOK, pop, Oldest
  <2>2. \A u \in Workers : work'[u] = IF u = t THEN works[1] ELSE work[u]
    BY <2>1 DEF PoolInv, TypeOK
  <2>3. work[t] = NoWork /\ works[1] # NoWork
    BY <1>3, <2>1, NoWorkAssumption DEF PoolInv, Holding, pop
  <2>4. Active' = Active \union {Head(works)}
    BY <2>1, <2>2, <2>3 DEF Active
  <2>5. Queue!Start
    BY <1>3, <2>1, <2>4, ZenonT(60) DEF Queue!Start, Active, pop
  <2> QED
    BY <2>5 DEF Queue!Next
<1>4. ASSUME NEW t \in Workers, run(t) PROVE [Queue!Next]_(Queue!vars)
  <2>1. /\ work[t] \in Works /\ work[t] # NoWork
        /\ work' = [work EXCEPT ![t] = NoWork]
    BY <1>4 DEF PoolInv, TypeOK, Holding, run
  <2>2. \A u \in Workers : work'[u] = IF u = t THEN NoWork ELSE work[u]
    BY <2>1 DEF PoolInv, TypeOK
  <2>3. \A u \in Workers : work[u] = work[t] => u = t
    BY <2>1 DEF PoolInv, Places
  <2>4. work[t] \in Active /\ Active' = Active \ {work[t]}
    BY <2>1, <2>2, <2>3 DEF Active
  <2>5. PICK w \in Works : w = work[t]
    BY <2>1
  <2>6. Queue!Finish(w)
    BY <1>4, <2>4, <2>5 DEF Queue!Finish, Active, run
  <2> QED
    BY <2>6 DEF Queue!Next
<1>5. CASE stopPool
  <2>1. Queue!Close
    BY <1>5 DEF Queue!Close, stopPool
  <2> QED
    BY <2>1 DEF Queue!Next
<1>6. ASSUME NEW d \in Dispatchers, call(d) \/ wait(d) PROVE Unmoved
  BY <1>6 DEF call, wait
<1>7. ASSUME NEW t \in Workers, waitForWork(t) \/ exit(t) PROVE Unmoved
  BY <1>7 DEF waitForWork, exit
<1>8. wakeUpSpuriously \/ join \/ UNCHANGED vars => Unmoved
  BY DEF wakeUpSpuriously, join, vars
<1> HIDE DEF Unmoved
<1> QED
  BY <1>1, <1>2, <1>3, <1>4, <1>5, <1>6, <1>7, <1>8 DEF Next

\* The detailed pool implements the abstract queue, but for its fairness.
THEOREM PoolImplementsQueue == Spec => QueueSteps
<1>1. Init => Queue!Init
  <2> SUFFICES ASSUME Init PROVE Queue!Init
    OBVIOUS
  <2>1. Active = {}
    BY DEF Init, Active
  <2> QED
    BY <2>1 DEF Init, Queue!Init, Active
<1> QED
  BY <1>1, PoolInvariant, StepsOfQueue, PTL DEF Spec, QueueSteps

-----------------------------------------------------------------------------
(***************************************************************************)
(* The priority of the pools behind the proxy, proved for any number of    *)
(* pools, any interval and any news of the pools. The container only       *)
(* remembers the last job that it took, and LowPriorityWaits speaks of     *)
(* any two jobs of a run: the invariant says that the last job taken in    *)
(* the run is the one that is remembered, and that no job of the run is    *)
(* younger. For a new job b of pool i and an earlier job a of a pool       *)
(* before i there are then two cases. If i is behind the pool of the last  *)
(* job, the interval has passed since the last job, hence since a. If not, *)
(* the pool of a is before that of the last job, and the interval has      *)
(* passed between the two already.                                         *)
(***************************************************************************)

IsSequence(q) == \E S : q \in Seq(S)

\* The fields that the argument is about have their types; a field that is set
\* must be there.
ContainerTypes ==
  /\ {"jobs", "queue", "pow", "ready", "pos", "own", "poolJob", "lastClient", "lastTime",
      "idTime", "idLow", "now", "run"} \subseteq DOMAIN wm
  /\ wm.now \in Int /\ wm.run \in Int
  /\ wm.lastClient \in Int /\ wm.lastTime \in Int /\ wm.lastTime <= wm.now

TopicTypes ==
  /\ {"jobs", "solved"} \subseteq DOMAIN wtopics
  /\ IsSequence(wtopics.jobs)
  /\ \A j \in DOMAIN wtopics.jobs :
       /\ wtopics.jobs[j].client \in Int
       /\ wtopics.jobs[j].at \in Int
       /\ wtopics.jobs[j].run \in Int

\* The jobs of this run of the proxy.
Current == {j \in DOMAIN wtopics.jobs : wtopics.jobs[j].run = wm.run}

\* The last job of the run is the one that the container remembers, and no other
\* one is younger.
LastRemembered ==
  \A j \in Current :
    LET last == wtopics.jobs[Len(wtopics.jobs)] IN
    /\ last.run = wm.run /\ last.client = wm.lastClient /\ last.at = wm.lastTime
    /\ wtopics.jobs[j].at <= wm.lastTime

NoLaterRun == \A j \in DOMAIN wtopics.jobs : wtopics.jobs[j].run <= wm.run

WatchInv ==
  /\ wconf.pools \in Nat /\ wconf.interval \in Nat
  /\ ContainerTypes
  /\ TopicTypes
  /\ NoLaterRun
  /\ wconf.kind = "proxy" => LastRemembered
  /\ LowPriorityWaits

-----------------------------------------------------------------------------
(* Steps that take no job *)

\* A step keeps the clock, the run and what is remembered of the last job.
SameContainer(w) ==
  /\ DOMAIN w = DOMAIN wm
  /\ w.now = wm.now /\ w.run = wm.run
  /\ w.lastClient = wm.lastClient /\ w.lastTime = wm.lastTime

SameTopic ==
  /\ {"jobs", "solved"} \subseteq DOMAIN wtopics'
  /\ wtopics'.jobs = wtopics.jobs

\* A step that leaves the jobs and the memory of the last one alone keeps the
\* invariant: the links, the solved shares, the other caches.
LEMMA WatchUnmoved ==
  ASSUME WatchInv, UNCHANGED wconf, SameContainer(wm'), SameTopic
  PROVE  WatchInv'
<1>1. ContainerTypes'
  BY DEF WatchInv, ContainerTypes, SameContainer
<1>2. TopicTypes' /\ NoLaterRun'
  BY DEF WatchInv, TopicTypes, NoLaterRun, SameTopic, SameContainer
<1>3. (wconf.kind = "proxy" => LastRemembered)'
  BY DEF WatchInv, LastRemembered, Current, SameTopic, SameContainer
<1>4. LowPriorityWaits'
  BY DEF WatchInv, LowPriorityWaits, SameTopic
<1> QED
  BY <1>1, <1>2, <1>3, <1>4 DEF WatchInv

\* generateJobId() counts ids and nothing else.
LEMMA NumberedContainer ==
  ASSUME ContainerTypes
  PROVE  SameContainer(generateJobId(wm)) /\ SameContainer(wm)
BY DEF ContainerTypes, SameContainer, generateJobId

\* The time passes.
LEMMA TickStep ==
  ASSUME WatchInv, WatchTick
  PROVE  WatchInv'
<1>1. ContainerTypes' /\ wm'.run = wm.run
      /\ wm'.lastClient = wm.lastClient /\ wm'.lastTime = wm.lastTime
  BY DEF WatchInv, ContainerTypes, WatchTick
<1>2. UNCHANGED <<wconf, wtopics>>
  BY DEF WatchTick
<1>3. TopicTypes' /\ NoLaterRun' /\ LowPriorityWaits'
  BY <1>1, <1>2 DEF WatchInv, TopicTypes, NoLaterRun, LowPriorityWaits
<1>4. (wconf.kind = "proxy" => LastRemembered)'
  BY <1>1, <1>2 DEF WatchInv, LastRemembered, Current
<1> QED
  BY <1>1, <1>2, <1>3, <1>4 DEF WatchInv

\* A new run has no jobs yet: all that are in Kafka are of earlier runs.
LEMMA RestartStep ==
  ASSUME WatchInv, RestartWatcher
  PROVE  WatchInv'
<1>1. UNCHANGED <<wconf, wtopics>>
  BY DEF RestartWatcher
<1>2. ContainerTypes' /\ wm'.run = wm.run + 1
  BY DEF WatchInv, ContainerTypes, RestartWatcher, NewContainer
<1>3. TopicTypes' /\ LowPriorityWaits'
  BY <1>1 DEF WatchInv, TopicTypes, LowPriorityWaits
<1>4. NoLaterRun' /\ Current' = {}
  BY <1>1, <1>2 DEF WatchInv, ContainerTypes, TopicTypes, NoLaterRun, Current
<1> QED
  BY <1>1, <1>2, <1>3, <1>4 DEF WatchInv, LastRemembered

-----------------------------------------------------------------------------
(* A job is taken *)

\* The jobs in Kafka after one more.
LEMMA OneMoreJob ==
  ASSUME TopicTypes, NEW job, job.client \in Int, job.at \in Int, job.run \in Int,
         wtopics' = [wtopics EXCEPT !.jobs = Append(@, job)]
  PROVE  /\ TopicTypes'
         /\ Len(wtopics.jobs) \in Nat
         /\ DOMAIN wtopics.jobs = 1 .. Len(wtopics.jobs)
         /\ DOMAIN wtopics'.jobs = 1 .. Len(wtopics.jobs) + 1
         /\ Len(wtopics'.jobs) = Len(wtopics.jobs) + 1
         /\ wtopics'.jobs[Len(wtopics.jobs) + 1] = job
         /\ \A j \in DOMAIN wtopics.jobs : wtopics'.jobs[j] = wtopics.jobs[j]
<1>1. PICK S : wtopics.jobs \in Seq(S)
  BY DEF TopicTypes, IsSequence
<1>2. wtopics.jobs \in Seq(S \cup {job})
  BY <1>1
<1>3. wtopics'.jobs = Append(wtopics.jobs, job) /\ DOMAIN wtopics' = DOMAIN wtopics
  BY DEF TopicTypes
<1>4. wtopics'.jobs \in Seq(S \cup {job})
  BY <1>2, <1>3
<1>5. /\ Len(wtopics.jobs) \in Nat
      /\ DOMAIN wtopics.jobs = 1 .. Len(wtopics.jobs)
      /\ DOMAIN wtopics'.jobs = 1 .. Len(wtopics.jobs) + 1
      /\ Len(wtopics'.jobs) = Len(wtopics.jobs) + 1
      /\ wtopics'.jobs[Len(wtopics.jobs) + 1] = job
      /\ \A j \in DOMAIN wtopics.jobs : wtopics'.jobs[j] = wtopics.jobs[j]
  BY <1>2, <1>3
<1>6. IsSequence(wtopics'.jobs)
  BY <1>4 DEF IsSequence
<1>7. TopicTypes'
  BY <1>3, <1>5, <1>6 DEF TopicTypes
<1> QED
  BY <1>5, <1>7

\* The proxy takes the job of pool i, which had not to wait.
LEMMA ProxyTakes ==
  ASSUME WatchInv, wconf.kind = "proxy", NEW i \in Pools, NEW job,
         job.client = i, job.at = wm.now, job.run = wm.run, ~LowPriority(wm, i),
         UNCHANGED wconf, wtopics' = [wtopics EXCEPT !.jobs = Append(@, job)],
         DOMAIN wm' = DOMAIN wm, wm'.now = wm.now, wm'.run = wm.run,
         wm'.lastClient = i, wm'.lastTime = wm.now
  PROVE  WatchInv'
<1> DEFINE n == Len(wtopics.jobs)
<1>1. i \in Int /\ wm.now \in Int /\ wm.run \in Int /\ wconf.interval \in Nat
      /\ wm.lastTime \in Int /\ wm.lastClient \in Int /\ wm.lastTime <= wm.now
  BY DEF WatchInv, ContainerTypes, Pools
<1>2. /\ TopicTypes'
      /\ n \in Nat
      /\ DOMAIN wtopics.jobs = 1 .. n
      /\ DOMAIN wtopics'.jobs = 1 .. n + 1
      /\ Len(wtopics'.jobs) = n + 1
      /\ wtopics'.jobs[n + 1] = job
      /\ \A j \in 1 .. n : wtopics'.jobs[j] = wtopics.jobs[j]
  BY <1>1, OneMoreJob DEF WatchInv
<1>3. \A j \in 1 .. n : /\ wtopics.jobs[j].client \in Int
                         /\ wtopics.jobs[j].at \in Int
                         /\ wtopics.jobs[j].run \in Int
                         /\ wtopics.jobs[j].run <= wm.run
  BY <1>2 DEF WatchInv, TopicTypes, NoLaterRun
<1> HIDE DEF n
<1>4. ContainerTypes'
  BY <1>1 DEF WatchInv, ContainerTypes
<1>5. NoLaterRun'
  BY <1>1, <1>2, <1>3 DEF NoLaterRun
<1>6. \A j \in 1 .. n : wtopics.jobs[j].run = wm.run =>
        /\ n \in 1 .. n
        /\ wtopics.jobs[n].run = wm.run
        /\ wtopics.jobs[n].client = wm.lastClient
        /\ wtopics.jobs[n].at = wm.lastTime
        /\ wtopics.jobs[j].at <= wm.lastTime
  BY <1>2 DEF WatchInv, LastRemembered, Current, n
<1>7. LastRemembered'
  <2> SUFFICES ASSUME NEW j \in 1 .. n + 1, wtopics'.jobs[j].run = wm.run
               PROVE  wtopics'.jobs[j].at <= wm.now
    BY <1>2, ZenonT(60) DEF LastRemembered, Current
  <2>1. CASE j = n + 1
    BY <2>1, <1>1, <1>2
  <2>2. CASE j \in 1 .. n
    BY <2>2, <1>1, <1>2, <1>3, <1>6
  <2> QED
    BY <2>1, <2>2, <1>2
<1>8. ASSUME NEW j \in 1 .. n, wtopics.jobs[j].run = wm.run, wtopics.jobs[j].client < i
      PROVE  wm.now - wtopics.jobs[j].at >= wconf.interval
  <2> DEFINE a == wtopics.jobs[j]
             last == wtopics.jobs[n]
  <2>1. a.client \in Int /\ a.at \in Int /\ a.at <= wm.lastTime
        /\ last.client = wm.lastClient /\ last.at = wm.lastTime /\ last.run = a.run
        /\ n \in 1 .. n /\ n \in Nat
    BY <1>2, <1>3, <1>6, <1>8
  <2>2. CASE i > wm.lastClient
    <3>1. wm.now - wm.lastTime >= wconf.interval
      BY <2>2, <1>1 DEF LowPriority
    <3> QED
      BY <3>1, <2>1, <1>1
  <2>3. CASE i <= wm.lastClient
    <3>1. a.client < last.client
      BY <2>1, <2>3, <1>1, <1>8
    <3>2. j # n
      BY <3>1, <2>1
    <3>3. j < n
      BY <3>2, <1>2
    <3>4. last.at - a.at >= wconf.interval
      BY <3>1, <3>3, <2>1, <1>2, ZenonT(60) DEF WatchInv, LowPriorityWaits
    <3> QED
      BY <3>4, <2>1, <1>1
  <2> QED
    BY <2>2, <2>3, <1>1
<1>9. LowPriorityWaits'
  <2> SUFFICES ASSUME NEW j \in 1 .. n + 1, NEW k \in 1 .. n + 1, j < k,
                      wtopics'.jobs[j].run = wtopics'.jobs[k].run,
                      wtopics'.jobs[j].client < wtopics'.jobs[k].client
               PROVE  wtopics'.jobs[k].at - wtopics'.jobs[j].at >= wconf.interval
    BY <1>2, ZenonT(60) DEF LowPriorityWaits
  <2>1. j \in 1 .. n
    BY <1>2
  <2>2. CASE k = n + 1
    BY <2>1, <2>2, <1>2, <1>8
  <2>3. CASE k \in 1 .. n
    BY <2>1, <2>3, <1>2 DEF WatchInv, LowPriorityWaits
  <2> QED
    BY <2>2, <2>3, <1>2
<1> QED
  BY <1>1, <1>2, <1>4, <1>5, <1>7, <1>9 DEF WatchInv

\* A watcher of a node takes a job: its cache changes, and nothing is remembered.
LEMMA NodeTakes ==
  ASSUME WatchInv, wconf.kind # "proxy", NEW job,
         job.client \in Int, job.at \in Int, job.run = wm.run,
         UNCHANGED wconf, SameContainer(wm'),
         wtopics' = [wtopics EXCEPT !.jobs = Append(@, job)]
  PROVE  WatchInv'
<1>1. ContainerTypes' /\ wm.run \in Int
  BY DEF WatchInv, ContainerTypes, SameContainer
<1> DEFINE n == Len(wtopics.jobs)
<1>2. /\ TopicTypes'
      /\ n \in Nat
      /\ DOMAIN wtopics.jobs = 1 .. n
      /\ DOMAIN wtopics'.jobs = 1 .. n + 1
      /\ wtopics'.jobs[n + 1] = job
      /\ \A j \in 1 .. n : wtopics'.jobs[j] = wtopics.jobs[j]
  BY <1>1, OneMoreJob DEF WatchInv
<1>3. \A j \in 1 .. n : wtopics.jobs[j].run <= wm.run
  BY <1>2 DEF WatchInv, NoLaterRun
<1> HIDE DEF n
<1>4. NoLaterRun'
  BY <1>1, <1>2, <1>3 DEF NoLaterRun, SameContainer
<1>5. LowPriorityWaits'
  BY DEF LowPriorityWaits
<1> QED
  BY <1>1, <1>2, <1>4, <1>5 DEF WatchInv

\* The caches of the nodes hold jobs and nothing else.
LEMMA CachesOnly ==
  ASSUME ContainerTypes, NEW w, SameContainer(w), NEW job
  PROVE  /\ SameContainer(CachedByBeam(w, job))
         /\ SameContainer(CachedByGrin(w, job))
<1>1. SameContainer(CachedByBeam(w, job))
  BY DEF ContainerTypes, SameContainer, CachedByBeam
<1>2. SameContainer(CachedByGrin(w, job))
  BY DEF ContainerTypes, SameContainer, CachedByGrin
<1> QED
  BY <1>1, <1>2

\* sendJobToKafka() of each kind.
LEMMA SendJobStep ==
  ASSUME WatchInv, UNCHANGED wconf, NEW i \in Pools, NEW news, NEW upstream,
         sendJobToKafka(i, StratumJob(i, news, upstream))
  PROVE  WatchInv'
<1> DEFINE job == StratumJob(i, news, upstream)
           numbered == IF job.key = Nothing /\ wconf.kind # "beam" THEN wm
                       ELSE generateJobId(wm)
<1>1. ContainerTypes
  BY DEF WatchInv
<1>2. SameContainer(numbered)
  BY <1>1, NumberedContainer
<1>3. job.client = i /\ job.at = wm.now /\ job.run = wm.run
  BY DEF StratumJob
<1>4. i \in Int /\ wm.now \in Int
  BY <1>1 DEF WatchInv, ContainerTypes, Pools
<1> HIDE DEF numbered
<1>5. CASE wm' = numbered /\ wtopics' = wtopics
  <2>1. SameContainer(wm') /\ SameTopic
    BY <1>2, <1>5 DEF SameTopic, WatchInv, TopicTypes
  <2> QED
    BY <2>1, WatchUnmoved
<1>6. CASE /\ wconf.kind = "proxy" /\ PassedByProxy(job)
           /\ wm' = CachedByProxy(numbered, job)
           /\ wtopics' = [wtopics EXCEPT !.jobs = Append(@, job)]
  <2>1. ~LowPriority(wm, i)
    BY <1>3, <1>6 DEF PassedByProxy
  <2>2. /\ DOMAIN wm' = DOMAIN wm
        /\ wm'.now = wm.now /\ wm'.run = wm.run
        /\ wm'.lastClient = i /\ wm'.lastTime = wm.now
    <3> HIDE DEF job
    <3> QED
      BY <1>1, <1>2, <1>3, <1>6 DEF CachedByProxy, SameContainer, ContainerTypes
  <2> HIDE DEF job
  <2> QED
    BY <2>1, <2>2, <1>3, <1>6, ProxyTakes
<1>7. CASE /\ wconf.kind # "proxy"
           /\ wm' = CachedByBeam(numbered, job) \/ wm' = CachedByGrin(numbered, job)
           /\ wtopics' = [wtopics EXCEPT !.jobs = Append(@, job)]
  <2> HIDE DEF job
  <2>1. SameContainer(wm')
    BY <1>1, <1>2, <1>7, CachesOnly
  <2> QED
    BY <2>1, <1>3, <1>4, <1>7, NodeTakes
<1>8. \/ wm' = numbered /\ wtopics' = wtopics
      \/ /\ wconf.kind = "proxy" /\ PassedByProxy(job)
         /\ wm' = CachedByProxy(numbered, job)
         /\ wtopics' = [wtopics EXCEPT !.jobs = Append(@, job)]
      \/ /\ wconf.kind # "proxy"
         /\ wm' = CachedByBeam(numbered, job) \/ wm' = CachedByGrin(numbered, job)
         /\ wtopics' = [wtopics EXCEPT !.jobs = Append(@, job)]
  <2> HIDE DEF job
  <2>1. sendJobToKafka(i, job)
    BY DEF job
  <2> QED
    BY <2>1 DEF sendJobToKafka, numbered
<1> QED
  BY <1>5, <1>6, <1>7, <1>8

\* A job from a pool that is watched.
LEMMA NotifyStep ==
  ASSUME WatchInv, NEW i \in Pools, NEW news, Notify(i, news)
  PROVE  WatchInv'
<1>1. CASE wconf.kind = "bitcoin"
  <2>1. UNCHANGED <<wconf, wm, wtopics>>
    BY <1>1 DEF Notify, NotifyBitcoin
  <2>2. SameContainer(wm') /\ SameTopic
    BY <2>1 DEF SameContainer, SameTopic, WatchInv, TopicTypes
  <2> QED
    BY <2>1, <2>2, WatchUnmoved
<1>2. CASE wconf.kind # "bitcoin"
  <2>1. UNCHANGED wconf
    BY <1>2 DEF Notify, NotifyJob
  <2>2. sendJobToKafka(i, StratumJob(i, news, <<i, clients[i].session, clients[i].told>>))
    BY <1>2 DEF Notify, NotifyJob
  <2> QED
    BY <2>1, <2>2, SendJobStep
<1> QED
  BY <1>1, <1>2

-----------------------------------------------------------------------------
(* The theorem *)

\* The invariant holds at first.
LEMMA WatchInitInv ==
  ASSUME wconf.pools \in Nat, wconf.interval \in Nat, WatchInit(wconf)
  PROVE  WatchInv
<1>1. ContainerTypes
  BY DEF WatchInit, ContainerTypes
<1>2. wtopics.jobs = <<>> /\ DOMAIN wtopics = {"jobs", "solved"}
  BY DEF WatchInit
<1>3. wtopics.jobs \in Seq({}) /\ DOMAIN wtopics.jobs = {}
  BY <1>2
<1>4. TopicTypes
  BY <1>2, <1>3 DEF TopicTypes, IsSequence
<1>5. NoLaterRun /\ LastRemembered /\ LowPriorityWaits
  BY <1>3 DEF NoLaterRun, LastRemembered, Current, LowPriorityWaits
<1> QED
  BY <1>1, <1>4, <1>5 DEF WatchInv

\* The steps that neither take a job nor move the clock or the run.
LEMMA OtherSteps ==
  ASSUME WatchInv,
         \/ Reconnects \/ Connects
         \/ \E i \in Pools : Broken(i)
         \/ \E i \in Pools : \E answer \in {"fine", "short", "error"} : SubscribeAnswer(i, answer)
         \/ \E i \in Pools : \E result \in BOOLEAN : AuthorizeAnswer(i, result)
         \/ \E late \in BOOLEAN : handleNewStratumJob(late)
         \/ \E j \in DOMAIN wtopics.jobs : SolvedShareFound(j)
         \/ ConsumerReady \/ consumeSolution \/ FlushWhenIdle
         \/ \E i \in Pools : \E solution \in wout.sent : updateBlockHash(i, solution)
         \/ \E share \in wout.threads : \E ok \in BOOLEAN : InsertFoundBlock(share, ok)
         \/ UNCHANGED watchVars
  PROVE  WatchInv'
<1>1. /\ UNCHANGED wconf
      /\ UNCHANGED wm \/ \E late \in BOOLEAN : handleNewStratumJob(late)
                      \/ ConsumerReady \/ consumeSolution
      /\ UNCHANGED wtopics \/ \E j \in DOMAIN wtopics.jobs : SolvedShareFound(j)
  BY ZenonT(60) DEF Reconnects, removeAndCreateClient, Connects, onConnected, Broken, SubscribeAnswer,
         AuthorizeAnswer, handleNewStratumJob, SolvedShareFound, ConsumerReady,
         consumeSolution, FlushWhenIdle, updateBlockHash, InsertFoundBlock, watchVars
<1>2. SameContainer(wm')
  <2>1. CASE UNCHANGED wm
    BY <2>1 DEF SameContainer
  <2>2. CASE \E late \in BOOLEAN : handleNewStratumJob(late)
    BY <2>2, ZenonT(60) DEF handleNewStratumJob, SameContainer, WatchInv, ContainerTypes
  <2>3. CASE ConsumerReady
    BY <2>3 DEF ConsumerReady, SameContainer, WatchInv, ContainerTypes
  <2>4. CASE consumeSolution
    BY <2>4 DEF consumeSolution, SameContainer, WatchInv, ContainerTypes
  <2> QED
    BY <1>1, <2>1, <2>2, <2>3, <2>4
<1>3. SameTopic
  BY <1>1 DEF SameTopic, SolvedShareFound, WatchInv, TopicTypes
<1> QED
  BY <1>1, <1>2, <1>3, WatchUnmoved

\* Every step keeps the invariant.
LEMMA WatchNextInv ==
  ASSUME WatchInv, [WatchNext]_watchVars
  PROVE  WatchInv'
<1>1. CASE \E i \in Pools : \E news \in wconf.news : Notify(i, news)
  BY <1>1, NotifyStep
<1>2. CASE RestartWatcher
  BY <1>2, RestartStep
<1>3. CASE \E i \in Pools : LoginRefused(i)
  <2>1. CASE RestartWatcher
    BY <2>1, RestartStep
  <2>2. CASE UNCHANGED <<wconf, wm, wtopics, wout>>
    <3>1. SameContainer(wm') /\ SameTopic
      BY <2>2 DEF SameContainer, SameTopic, WatchInv, TopicTypes
    <3> QED
      BY <2>2, <3>1, WatchUnmoved
  <2> QED
    BY <1>3, <2>1, <2>2 DEF LoginRefused
<1>4. CASE WatchTick
  BY <1>4, TickStep
<1> QED
  BY <1>1, <1>2, <1>3, <1>4, OtherSteps DEF WatchNext

\* The proxy takes a job of a pool only when every pool before it has been silent
\* for poolInactiveInterval: for any number of pools, any interval, and whatever
\* breaks, is reconnected, is skipped as a duplicate or restarts
\* (ClientContainerBitcoinProxy::sendJobToKafka()).
THEOREM ProxyKeepsPriority == WatchSpec => []LowPriorityWaits
<1>1. WatchInv => LowPriorityWaits
  BY DEF WatchInv
<1>2. wconf.pools \in Nat /\ wconf.interval \in Nat /\ WatchInit(wconf) => WatchInv
  BY WatchInitInv
<1>3. WatchInv /\ [WatchNext]_watchVars => WatchInv'
  BY WatchNextInv
<1> QED
  BY <1>1, <1>2, <1>3, PTL DEF WatchSpec
=============================================================================
