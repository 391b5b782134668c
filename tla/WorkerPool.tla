----------------------------- MODULE WorkerPool -----------------------------
(***************************************************************************)
(* WorkerPool: a bounded queue of closures, served by worker threads, with *)
(* one mutex and two condition variables.                                  *)
(*                                                                         *)
(* A critical section never blocks except in wait(), so each section is a  *)
(* step: from taking worksMutex_ (or waking up with it) to releasing it or *)
(* waiting again.  A thread in "waiting" is in the wait set of a condition *)
(* variable; notified, or woken spuriously, it is "ready" to take the      *)
(* mutex again and to evaluate its predicate.                              *)
(***************************************************************************)
EXTENDS Integers, Sequences, FiniteSets

CONSTANTS
  Dispatchers,   \* threads that call dispatch()
  Workers,       \* worker threads
  Works,         \* the closures they dispatch, each one once
  Capacity,      \* queueCapacity
  NoWork

ASSUME ThreadsAssumption == IsFiniteSet(Dispatchers) /\ Workers # {}
ASSUME CapacityAssumption == Capacity \in Nat \ {0}
ASSUME NoWorkAssumption == NoWork \notin Works

VARIABLES
  works,     \* works_
  stop,      \* stop_
  caller,    \* caller[d]: "idle", "ready" (about to take the mutex in
             \* dispatch()) or "waiting" (on worksNotFull_)
  arg,       \* arg[d]: the closure in the call of dispatch(), or NoWork
  worker,    \* worker[t]: "ready", "waiting" (on worksNotEmpty_), "running"
             \* (in work(), without the mutex) or "exited"
  work,      \* work[t]: the closure that t runs, or NoWork
  fresh,     \* the closures that have not been dispatched
  done,      \* the closures that have run to their end
  stopper    \* the thread in stop(): "idle", "joining" or "returned"

vars == <<works, stop, caller, arg, worker, work, fresh, done, stopper>>

Init ==
  /\ works = <<>>
  /\ stop = FALSE
  /\ caller = [d \in Dispatchers |-> "idle"]
  /\ arg = [d \in Dispatchers |-> NoWork]
  /\ worker = [t \in Workers |-> "ready"]
  /\ work = [t \in Workers |-> NoWork]
  /\ fresh = Works
  /\ done = {}
  /\ stopper = "idle"

Full == Len(works) >= Capacity

\* notify_one(): one of the threads in the wait set, if there is any.
NotifyOne(state, new) ==
  \/ /\ \A t \in DOMAIN state : state[t] # "waiting"
     /\ new = state
  \/ \E t \in DOMAIN state :
       /\ state[t] = "waiting"
       /\ new = [state EXCEPT ![t] = "ready"]

\* notify_all()
NotifyAll(state) ==
  [t \in DOMAIN state |-> IF state[t] = "waiting" THEN "ready" ELSE state[t]]

-----------------------------------------------------------------------------
(* dispatch() *)

call(d) ==
  /\ caller[d] = "idle"
  /\ \E w \in fresh :
       /\ arg' = [arg EXCEPT ![d] = w]
       /\ fresh' = fresh \ {w}
  /\ caller' = [caller EXCEPT ![d] = "ready"]
  /\ UNCHANGED <<works, stop, worker, work, done, stopper>>

\* the negated predicate of worksNotFull_.wait()
MustWait == Full /\ ~stop

\* worksNotEmpty_.notify_one()
WakeWorker == NotifyOne(worker, worker')

wait(d) ==
  /\ caller[d] = "ready"
  /\ MustWait
  /\ caller' = [caller EXCEPT ![d] = "waiting"]
  /\ UNCHANGED <<works, stop, arg, worker, work, fresh, done, stopper>>

push(d) ==
  /\ caller[d] = "ready"
  /\ ~MustWait
  /\ IF stop
     THEN UNCHANGED <<works, worker>>
     ELSE /\ works' = Append(works, arg[d])
          /\ WakeWorker
  /\ caller' = [caller EXCEPT ![d] = "idle"]
  /\ arg' = [arg EXCEPT ![d] = NoWork]
  /\ UNCHANGED <<stop, work, fresh, done, stopper>>

-----------------------------------------------------------------------------
(* runWorker() *)

waitForWork(t) ==
  /\ worker[t] = "ready"
  /\ works = <<>> /\ ~stop
  /\ worker' = [worker EXCEPT ![t] = "waiting"]
  /\ UNCHANGED <<works, stop, caller, arg, work, fresh, done, stopper>>

exit(t) ==
  /\ worker[t] = "ready"
  /\ stop
  /\ worker' = [worker EXCEPT ![t] = "exited"]
  /\ UNCHANGED <<works, stop, caller, arg, work, fresh, done, stopper>>

\* The mutants forget to wake a caller, or take the newest closure.
WakeNoCaller == UNCHANGED caller
Newest == works[Len(works)]

\* worksNotFull_.notify_one()
WakeCaller == NotifyOne(caller, caller')

\* works_.front()
Oldest == works[1]

pop(t) ==
  /\ worker[t] = "ready"
  /\ works # <<>> /\ ~stop
  /\ work' = [work EXCEPT ![t] = Oldest]
  /\ works' = Tail(works)
  /\ WakeCaller
  /\ worker' = [worker EXCEPT ![t] = "running"]
  /\ UNCHANGED <<stop, arg, fresh, done, stopper>>

\* work() returns.
run(t) ==
  /\ worker[t] = "running"
  /\ done' = done \union {work[t]}
  /\ work' = [work EXCEPT ![t] = NoWork]
  /\ worker' = [worker EXCEPT ![t] = "ready"]
  /\ UNCHANGED <<works, stop, caller, arg, fresh, stopper>>

\* A condition variable may wake a thread up without a notification.
wakeUpSpuriously ==
  /\ \/ /\ \E t \in Workers :
             /\ worker[t] = "waiting"
             /\ worker' = [worker EXCEPT ![t] = "ready"]
        /\ UNCHANGED caller
     \/ /\ \E d \in Dispatchers :
             /\ caller[d] = "waiting"
             /\ caller' = [caller EXCEPT ![d] = "ready"]
        /\ UNCHANGED worker
  /\ UNCHANGED <<works, stop, arg, work, fresh, done, stopper>>

-----------------------------------------------------------------------------
(* stop() *)

\* The mutant does not wake the workers.
WakeAllWorkersNot == UNCHANGED worker

\* worksNotEmpty_.notify_all()
WakeAllWorkers == worker' = NotifyAll(worker)

stopPool ==
  /\ stopper = "idle"
  /\ stop' = TRUE
  /\ WakeAllWorkers
  /\ caller' = NotifyAll(caller)
  /\ stopper' = "joining"
  /\ UNCHANGED <<works, arg, work, fresh, done>>

join ==
  /\ stopper = "joining"
  /\ \A t \in Workers : worker[t] = "exited"
  /\ stopper' = "returned"
  /\ UNCHANGED <<works, stop, caller, arg, worker, work, fresh, done>>

-----------------------------------------------------------------------------

Next ==
  \/ \E d \in Dispatchers : call(d) \/ wait(d) \/ push(d)
  \/ \E t \in Workers : waitForWork(t) \/ exit(t) \/ pop(t) \/ run(t)
  \/ wakeUpSpuriously
  \/ stopPool
  \/ join

\* Each thread makes progress when it can take the mutex, closures end, and
\* nothing else is assumed: nobody has to call dispatch() or stop().
Fairness ==
  /\ \A d \in Dispatchers : WF_vars(wait(d)) /\ WF_vars(push(d))
  /\ \A t \in Workers :
       WF_vars(waitForWork(t)) /\ WF_vars(exit(t)) /\ WF_vars(pop(t)) /\ WF_vars(run(t))
  /\ WF_vars(join)

Spec == Init /\ [][Next]_vars /\ Fairness

-----------------------------------------------------------------------------
(* Properties *)

\* The variables have their types; works_ is never longer than its capacity,
\* beyond which circular_buffer would overwrite its oldest element.
TypeOK ==
  /\ works \in Seq(Works) /\ Len(works) <= Capacity
  /\ stop \in BOOLEAN
  /\ caller \in [Dispatchers -> {"idle", "ready", "waiting"}]
  /\ arg \in [Dispatchers -> Works \union {NoWork}]
  /\ worker \in [Workers -> {"ready", "waiting", "running", "exited"}]
  /\ work \in [Workers -> Works \union {NoWork}]
  /\ fresh \subseteq Works /\ done \subseteq Works
  /\ stopper \in {"idle", "joining", "returned"}

\* The pool implements WorkQueue: closures are run at most once, in the order
\* in which dispatch() accepted them, and all of them unless it is stopped.
Queue == INSTANCE WorkQueue WITH
  pending <- works,
  active <- {work[t] : t \in Workers} \ {NoWork},
  finished <- done,
  closed <- stop
ImplementsQueue == Queue!Spec

\* Every call returns: dispatch() even if it finds the queue full, as a worker that
\* takes something wakes it up, and stop(), as every worker leaves its loop,
\* whatever it waits for.
CallsReturn ==
  /\ \A d \in Dispatchers : (caller[d] # "idle") ~> (caller[d] = "idle")
  /\ stop ~> (stopper = "returned")
=============================================================================
