-------------------------- MODULE StatsServerProofs --------------------------
(***************************************************************************)
(* That the counters of statshttpd are true, that a worker is listed under *)
(* its last name, and that a flush to Redis is complete and agrees with    *)
(* itself; proved for any number of workers, users, events and threads.    *)
(*                                                                         *)
(* The threads of a flush write slices of the sets of workers and users,   *)
(* each at its own pace, while shares are counted and names are set.  The  *)
(* invariant says of each thread what it has read, and that the hashes and *)
(* indexes of its slice are written as far as it has come: what it has     *)
(* written stays because the slices of two threads are apart, a user's key *)
(* is no worker's (no valid share is of worker 0), and an event changes    *)
(* nothing but the name.  That every worker is in some slice rests on the  *)
(* size that is rounded up.                                                *)
(***************************************************************************)
EXTENDS StatsServer, FiniteSetTheorems, TLAPS

\* The time that each prover has for a step that names none
USE SMTT(40), Z3T(60), ZenonT(60)

-----------------------------------------------------------------------------
(* The slices *)

Threads == 0 .. RedisConcurrency - 1

\* Every item is in the slice of a thread: the size is rounded up.
LEMMA SizeCovers ==
  ASSUME NEW n \in Nat
  PROVE  /\ StepSize(n) \in Nat
         /\ n <= RedisConcurrency * StepSize(n)
<1> DEFINE c == RedisConcurrency
<1>1. c \in Nat /\ c > 0
  BY StatsAssumption
<1> HIDE DEF c
<1>2. n = c * (n \div c) + (n % c) /\ n \div c \in Nat /\ n % c \in 0 .. c - 1
  BY <1>1
<1>3. CASE n % c = 0
  BY <1>1, <1>2, <1>3 DEF StepSize, c
<1>4. CASE n % c # 0
  <2>1. StepSize(n) = n \div c + 1
    BY <1>4, ZenonT(60) DEF StepSize, c
  <2>2. c * (n \div c + 1) = c * (n \div c) + c
    BY <1>1, <1>2
  <2> QED
    BY <1>1, <1>2, <2>1, <2>2 DEF c
<1> QED
  BY <1>3, <1>4, ZenonT(60)

\* An item is in the slice that its number falls into.
LEMMA SlicePart ==
  ASSUME NEW size \in Nat, NEW i \in Nat \ {0}, i <= RedisConcurrency * size
  PROVE  \E s \in Threads : s * size < i /\ i <= (s + 1) * size
<1>1. RedisConcurrency \in Nat \ {0} /\ size > 0
  BY StatsAssumption
<1> DEFINE s == (i - 1) \div size
<1>2. i - 1 = size * s + ((i - 1) % size) /\ s \in Nat /\ (i - 1) % size \in 0 .. size - 1
  BY <1>1
<1> HIDE DEF s
<1>3. s * size < i /\ i <= (s + 1) * size
  BY <1>1, <1>2
<1>4. s < RedisConcurrency
  <2>1. SUFFICES ASSUME s >= RedisConcurrency PROVE FALSE
    BY <1>1, <1>2
  <2>2. (s - RedisConcurrency) * size >= 0
    BY <2>1, <1>1, <1>2
  <2>3. (s - RedisConcurrency) * size = s * size - RedisConcurrency * size
    BY <1>1, <1>2
  <2> QED
    BY <2>2, <2>3, <1>1, <1>2, <1>3
<1>5. s \in Threads
  BY <1>1, <1>2, <1>4 DEF Threads
<1> QED
  BY <1>3, <1>5, ZenonT(60)

\* An item is in the slice of one thread only.
LEMMA OneSlice ==
  ASSUME NEW size \in Nat, NEW i \in Nat, NEW s \in Threads, NEW t \in Threads, s < t,
         s * size < i, i <= (s + 1) * size, t * size < i
  PROVE  FALSE
<1>1. s \in Nat /\ t \in Nat
  BY StatsAssumption DEF Threads
<1>2. (t - s - 1) * size >= 0
  BY <1>1
<1>3. (t - s - 1) * size = t * size - (s + 1) * size
  BY <1>1
<1> QED
  BY <1>1, <1>2, <1>3

\* The slices of the threads are apart, and cover the set.
LEMMA SliceFacts ==
  ASSUME NEW f, IsFiniteSet(DOMAIN f)
  PROVE  /\ \A s \in Threads : Slice(f, s) \subseteq DOMAIN f
         /\ \A s, t \in Threads : s # t => Slice(f, s) \cap Slice(f, t) = {}
         /\ \A x \in DOMAIN f : \E s \in Threads : x \in Slice(f, s)
<1> DEFINE n == Cardinality(DOMAIN f)
           size == StepSize(n)
           keys == CHOOSE g \in Bijection(1 .. n, DOMAIN f) : TRUE
           Part(s) == {j \in 1 .. n : s * size < j /\ j <= (s + 1) * size}
<1>1. n \in Nat /\ \E g : g \in Bijection(1 .. n, DOMAIN f)
  BY FS_CardinalityType, ZenonT(60) DEF ExistsBijection
<1>2. keys \in Bijection(1 .. n, DOMAIN f)
  BY <1>1, ZenonT(60)
<1>3. \A s : Slice(f, s) = {keys[i] : i \in Part(s)}
  BY ZenonT(60) DEF Slice
<1>4. size \in Nat /\ n <= RedisConcurrency * size
  BY <1>1, SizeCovers, ZenonT(60)
<1> HIDE DEF n, size, keys
<1>a. \A s : Part(s) \subseteq 1 .. n
  BY ZenonT(60)
<1>b. \A s, i : i \in Part(s) => s * size < i /\ i <= (s + 1) * size
  BY ZenonT(60)
<1>c. \A s : \A i \in 1 .. n : s * size < i /\ i <= (s + 1) * size => i \in Part(s)
  BY ZenonT(60)
<1> HIDE DEF Part
<1>d. \A s, x : x \in Slice(f, s) <=> \E i \in Part(s) : keys[i] = x
  BY <1>3
<1>5. /\ \A i \in 1 .. n : keys[i] \in DOMAIN f
      /\ \A i, k \in 1 .. n : keys[i] = keys[k] => i = k
      /\ \A x \in DOMAIN f : \E i \in 1 .. n : keys[i] = x
  BY <1>2, ZenonT(60) DEF Bijection, Injection, Surjection, IsInjective
<1>6. \A s \in Threads : Slice(f, s) \subseteq DOMAIN f
  BY <1>d, <1>5, <1>a
<1>7. ASSUME NEW s \in Threads, NEW t \in Threads, s # t
      PROVE  Slice(f, s) \cap Slice(f, t) = {}
  <2>1. SUFFICES ASSUME NEW x \in Slice(f, s), x \in Slice(f, t) PROVE FALSE
    BY ZenonT(60)
  <2>2. PICK i \in Part(s) : keys[i] = x
    BY <1>d, <2>1, ZenonT(60)
  <2>3. PICK k \in Part(t) : keys[k] = x
    BY <1>d, <2>1, ZenonT(60)
  <2>4. i = k /\ i \in Nat
    BY <1>1, <1>5, <1>a, <2>2, <2>3
  <2>5. s * size < i /\ i <= (s + 1) * size /\ t * size < i /\ i <= (t + 1) * size
    BY <1>b, <2>2, <2>3, <2>4, ZenonT(60)
  <2>6. s < t \/ t < s
    BY <1>7, StatsAssumption DEF Threads
  <2> QED
    BY <1>4, <2>4, <2>5, <2>6, OneSlice, ZenonT(60)
<1>8. ASSUME NEW x \in DOMAIN f PROVE \E s \in Threads : x \in Slice(f, s)
  <2>1. PICK i \in 1 .. n : keys[i] = x
    BY <1>5, <1>8, ZenonT(60)
  <2>2. i \in Nat \ {0} /\ i <= RedisConcurrency * size
    BY <1>1, <1>4, <2>1, StatsAssumption
  <2>3. PICK s \in Threads : s * size < i /\ i <= (s + 1) * size
    BY <1>4, <2>2, SlicePart, ZenonT(60)
  <2>4. i \in Part(s)
    BY <1>c, <2>1, <2>3, ZenonT(60)
  <2> QED
    BY <1>3, <2>1, <2>4, ZenonT(60)
<1> QED
  BY <1>6, <1>7, <1>8, ZenonT(60)

-----------------------------------------------------------------------------
(* The counters *)

Fields == {"up", "initializing", "from", "pos", "workers", "users", "pool",
           "userWorkerCount", "totalWorkers", "totalUsers", "lastShareTime", "dups",
           "lastFlush"}
WorkersIn(ws, u) == {k \in ws : k[1] = u}
CountsTrue(count, ws) == \A u : At(count, u, 0) = Cardinality(WorkersIn(ws, u))

SvTrue(v) ==
  /\ Fields \subseteq DOMAIN v /\ v.pos \in Nat
  /\ IsFiniteSet(DOMAIN v.workers) /\ IsFiniteSet(DOMAIN v.users)
  /\ v.totalWorkers = Cardinality(DOMAIN v.workers)
  /\ v.totalUsers = Cardinality(DOMAIN v.users)
  /\ CountsTrue(v.userWorkerCount, DOMAIN v.workers)
  /\ \A k \in DOMAIN v.workers : k[2] # 0

\* The state of a server with other fields than those of the counters
LEMMA SameSv ==
  ASSUME NEW v, NEW w, SvTrue(v), Fields \subseteq DOMAIN w, w.pos \in Nat,
         DOMAIN w.workers = DOMAIN v.workers, DOMAIN w.users = DOMAIN v.users,
         w.totalWorkers = v.totalWorkers, w.totalUsers = v.totalUsers,
         w.userWorkerCount = v.userWorkerCount
  PROVE  SvTrue(w)
BY ZenonT(60) DEF SvTrue

\* A server without workers and users
LEMMA NoWorkers ==
  ASSUME NEW v, Fields \subseteq DOMAIN v, v.pos \in Nat, v.workers = Empty,
         v.users = Empty, v.userWorkerCount = Empty, v.totalWorkers = 0, v.totalUsers = 0
  PROVE  SvTrue(v)
<1>1. DOMAIN Empty = {} /\ IsFiniteSet({}) /\ Cardinality({}) = 0
  BY FS_EmptySet, ZenonT(60) DEF Empty
<1>2. \A u : WorkersIn({}, u) = {} /\ At(Empty, u, 0) = 0
  BY <1>1, ZenonT(60) DEF WorkersIn, At
<1> QED
  BY <1>1, <1>2, ZenonT(60) DEF SvTrue, CountsTrue

\* A count of zero that is put in for a user that has none changes no count.
LEMMA ZeroCounts ==
  ASSUME NEW count, NEW ws, NEW us, CountsTrue(count, ws)
  PROVE  /\ CountsTrue(Over(count, [u \in us |-> 0]), ws)
         /\ \A u : u \notin DOMAIN count => CountsTrue(Put(count, u, 0), ws)
<1>1. \A u : At(Over(count, [x \in us |-> 0]), u, 0) = At(count, u, 0)
  BY ZenonT(60) DEF At, Over
<1>2. ASSUME NEW u, u \notin DOMAIN count
      PROVE  \A x : At(Put(count, u, 0), x, 0) = At(count, x, 0)
  BY <1>2, ZenonT(60) DEF At, Put
<1> QED
  BY <1>1, <1>2, ZenonT(60) DEF CountsTrue

\* A new worker is counted for its user.
LEMMA MoreWorkers ==
  ASSUME NEW ws, IsFiniteSet(ws), NEW k, k \notin ws, NEW count, CountsTrue(count, ws)
  PROVE  /\ IsFiniteSet(ws \cup {k})
         /\ Cardinality(ws \cup {k}) = Cardinality(ws) + 1
         /\ CountsTrue(Put(count, k[1], At(count, k[1], 0) + 1), ws \cup {k})
<1>1. IsFiniteSet(ws \cup {k}) /\ Cardinality(ws \cup {k}) = Cardinality(ws) + 1
  BY FS_AddElement, ZenonT(60)
<1>2. \A u : At(Put(count, k[1], At(count, k[1], 0) + 1), u, 0)
               = IF u = k[1] THEN At(count, u, 0) + 1 ELSE At(count, u, 0)
  BY ZenonT(60) DEF At, Put
<1>3. ASSUME NEW u
      PROVE  Cardinality(WorkersIn(ws \cup {k}, u))
               = IF u = k[1] THEN Cardinality(WorkersIn(ws, u)) + 1
                 ELSE Cardinality(WorkersIn(ws, u))
  <2>1. IsFiniteSet(WorkersIn(ws, u))
    BY FS_Subset, ZenonT(60) DEF WorkersIn
  <2>2. CASE u = k[1]
    <3>1. WorkersIn(ws \cup {k}, u) = WorkersIn(ws, u) \cup {k} /\ k \notin WorkersIn(ws, u)
      BY <2>2, ZenonT(60) DEF WorkersIn
    <3>2. Cardinality(WorkersIn(ws, u) \cup {k}) = Cardinality(WorkersIn(ws, u)) + 1
      BY <2>1, <3>1, FS_AddElement, ZenonT(60)
    <3> QED
      BY <2>2, <3>1, <3>2, ZenonT(60)
  <2>3. CASE u # k[1]
    <3>1. WorkersIn(ws \cup {k}, u) = WorkersIn(ws, u)
      BY <2>3, ZenonT(60) DEF WorkersIn
    <3> QED
      BY <2>3, <3>1, ZenonT(60)
  <2> QED
    BY <2>2, <2>3, ZenonT(60)
<1>4. CountsTrue(Put(count, k[1], At(count, k[1], 0) + 1), ws \cup {k})
  BY <1>2, <1>3, ZenonT(60) DEF CountsTrue
<1> QED
  BY <1>1, <1>4, ZenonT(60)

\* The size of a part of a finite set
LEMMA FinitePart ==
  ASSUME NEW s, NEW r, IsFiniteSet(s), r \subseteq s
  PROVE  /\ IsFiniteSet(r) /\ Cardinality(r) \in Nat /\ Cardinality(s) \in Nat
         /\ Cardinality(r) = Cardinality(s) - Cardinality(s \ r)
         /\ Cardinality(s \ r) \in Nat
<1>1. IsFiniteSet(r) /\ IsFiniteSet(s \ r)
  BY FS_Subset, FS_Difference, ZenonT(60)
<1>2. Cardinality(r) \in Nat /\ Cardinality(s) \in Nat /\ Cardinality(s \ r) \in Nat
  BY <1>1, FS_CardinalityType, ZenonT(60)
<1>3. r = s \cap r
  BY ZenonT(60)
<1>4. Cardinality(s \ r) = Cardinality(s) - Cardinality(s \cap r)
  BY <1>1, FS_Difference, ZenonT(60)
<1>5. Cardinality(s \cap r) = Cardinality(r)
  BY <1>3, ZenonT(60)
<1> QED
  BY <1>1, <1>2, <1>4, <1>5

\* A user whose workers are all removed has no count any more.
LEMMA FewerWorkers ==
  ASSUME NEW ws, IsFiniteSet(ws), NEW rest \in SUBSET ws, NEW count, CountsTrue(count, ws),
         NEW counted,
         counted = {u \in DOMAIN count :
                      Cardinality(WorkersIn(ws \ rest, u)) > 0
                        => count[u] > Cardinality(WorkersIn(ws \ rest, u))}
  PROVE  /\ IsFiniteSet(rest)
         /\ Cardinality(rest) = Cardinality(ws) - Cardinality(ws \ rest)
         /\ CountsTrue([u \in counted |-> count[u] - Cardinality(WorkersIn(ws \ rest, u))], rest)
<1>2. ASSUME NEW u
      PROVE  /\ At(count, u, 0) = Cardinality(WorkersIn(ws, u))
             /\ Cardinality(WorkersIn(rest, u))
                  = Cardinality(WorkersIn(ws, u)) - Cardinality(WorkersIn(ws \ rest, u))
             /\ {Cardinality(WorkersIn(rest, u)), Cardinality(WorkersIn(ws, u)),
                 Cardinality(WorkersIn(ws \ rest, u))} \subseteq Nat
  <2>1. IsFiniteSet(WorkersIn(ws, u))
    BY FS_Subset, ZenonT(60) DEF WorkersIn
  <2>2. WorkersIn(rest, u) \subseteq WorkersIn(ws, u)
    BY ZenonT(60) DEF WorkersIn
  <2>3. WorkersIn(ws \ rest, u) = WorkersIn(ws, u) \ WorkersIn(rest, u)
    BY ZenonT(60) DEF WorkersIn
  <2>4. At(count, u, 0) = Cardinality(WorkersIn(ws, u))
    BY ZenonT(60) DEF CountsTrue
  <2> DEFINE s == WorkersIn(ws, u)
             r == WorkersIn(rest, u)
  <2>5. /\ Cardinality(r) \in Nat /\ Cardinality(s) \in Nat
        /\ Cardinality(r) = Cardinality(s) - Cardinality(s \ r)
        /\ Cardinality(s \ r) \in Nat
    BY <2>1, <2>2, FinitePart, ZenonT(60)
  <2> QED
    BY <2>3, <2>4, <2>5, ZenonT(60)
<1>3. ASSUME NEW u
      PROVE  At([x \in counted |-> count[x] - Cardinality(WorkersIn(ws \ rest, x))], u, 0)
               = Cardinality(WorkersIn(rest, u))
  <2>1. CASE u \in counted
    BY <1>2, <2>1, ZenonT(60) DEF At
  <2>2. CASE u \in DOMAIN count /\ u \notin counted
    <3>1. ~(count[u] > Cardinality(WorkersIn(ws \ rest, u)))
      BY <2>2, ZenonT(60)
    <3>2. count[u] = Cardinality(WorkersIn(ws, u))
      BY <1>2, <2>2, ZenonT(60) DEF At
    <3>3. Cardinality(WorkersIn(rest, u)) = 0
      BY <1>2, <3>1, <3>2
    <3> QED
      BY <2>2, <3>3, ZenonT(60) DEF At
  <2>3. CASE u \notin DOMAIN count
    BY <1>2, <2>3 DEF At
  <2> QED
    BY <2>1, <2>2, <2>3, ZenonT(60)
<1> QED
  BY <1>3, FinitePart, ZenonT(60) DEF CountsTrue
-----------------------------------------------------------------------------
(* The messages *)

ShareFields == {"user", "worker", "ext", "status", "time", "height"}
Coins == {"bitcoin", "eth", "decred", "sia", "bytom", "beam", "grin", "ckb"}

TopicTrue ==
  /\ config \in Configs
  /\ \E S : topic \in Seq(S)
  /\ \A i \in DOMAIN topic : ShareFields \subseteq DOMAIN topic[i].share

\* A share that is counted has a worker: the number of a user is not one of a worker.
LEMMA ConsumedShare ==
  ASSUME NEW m, config \in Configs, ShareFields \subseteq DOMAIN m.share, Consumed(m) # None
  PROVE  ShareFields \subseteq DOMAIN Consumed(m) /\ Consumed(m).worker # 0
<1> DEFINE u == UnserializeWithVersion(config.coin, m)
<1>1. config.coin \in Coins
  BY StatsAssumption, ZenonT(60) DEF Coins
<1>2. u # None
  BY ZenonT(60) DEF Consumed
<1>3. ShareFields \subseteq DOMAIN u
  <2>1. ShareFields \subseteq DOMAIN UnserializeBitcoin(m) \/ UnserializeBitcoin(m) = None
    BY ZenonT(60) DEF UnserializeBitcoin, UnserializeTwoForms, Whole
  <2>2. ShareFields \subseteq DOMAIN UnserializeBytom(m) \/ UnserializeBytom(m) = None
    BY ZenonT(60) DEF UnserializeBytom, UnserializeTwoForms, Whole
  <2>3. ShareFields \subseteq DOMAIN UnserializeTwoForms(m) \/ UnserializeTwoForms(m) = None
    BY ZenonT(60) DEF UnserializeTwoForms, Whole
  <2>4. ShareFields \subseteq DOMAIN UnserializeCurrent(m) \/ UnserializeCurrent(m) = None
    BY ZenonT(60) DEF UnserializeCurrent, Whole
  <2>5. u \in {UnserializeBitcoin(m), UnserializeBytom(m), UnserializeTwoForms(m),
               UnserializeCurrent(m)}
    BY <1>1, ZenonT(60) DEF Coins, UnserializeWithVersion, UnserializeEth, UnserializeDecred,
                UnserializeSia
  <2> HIDE DEF u
  <2> QED
    BY <1>2, <2>1, <2>2, <2>3, <2>4, <2>5, ZenonT(60)
<1> HIDE DEF u
<1>4. Consumed(m) = ofSingleUser(u) /\ isValid(config.coin, ofSingleUser(u))
  BY <1>2, ZenonT(60) DEF Consumed, u
<1>5. ShareFields \subseteq DOMAIN ofSingleUser(u)
  BY <1>3, <1>4, ZenonT(60) DEF ofSingleUser
<1>6. ASSUME NEW s, isValid(config.coin, s) PROVE s.worker # 0
  BY <1>1, <1>6, ZenonT(60) DEF Coins, isValid, isValidBitcoin, isValidDecred, isValidBytom, isValidSia,
     isValidEth, isValidBeam, isValidCkb, isValidGrin
<1> QED
  BY <1>4, <1>5, <1>6, ZenonT(60)

-----------------------------------------------------------------------------
(* The server's steps *)

\* A share of a worker or user that was there, or of a new one
LEMMA ProcessedKeeps ==
  ASSUME NEW v, SvTrue(v), NEW s, s.worker # 0
  PROVE  SvTrue(Processed(v, s)) /\ Processed(v, s).up = v.up
<1> DEFINE w == Processed(v, s)
           k == <<s.user, s.worker>>
<1>1. /\ Fields \subseteq DOMAIN w /\ w.up = v.up /\ w.pos = v.pos
      /\ DOMAIN w.workers = DOMAIN v.workers \cup {k}
      /\ DOMAIN w.users = DOMAIN v.users \cup {s.user}
      /\ w.totalWorkers = v.totalWorkers + IF k \notin DOMAIN v.workers THEN 1 ELSE 0
      /\ w.totalUsers = v.totalUsers + IF s.user \notin DOMAIN v.users THEN 1 ELSE 0
      /\ w.userWorkerCount = IF k \notin DOMAIN v.workers
                             THEN Put(v.userWorkerCount, s.user, At(v.userWorkerCount, s.user, 0) + 1)
                             ELSE v.userWorkerCount
  BY ZenonT(60) DEF SvTrue, Fields, Processed, Put
<1>2. k[1] = s.user /\ k[2] # 0
  BY ZenonT(60)
<1> HIDE DEF w, k
<1>3. /\ IsFiniteSet(DOMAIN w.users)
      /\ w.totalUsers = Cardinality(DOMAIN w.users)
  <2>1. CASE s.user \in DOMAIN v.users
    <3>1. DOMAIN w.users = DOMAIN v.users
      BY <1>1, <2>1, ZenonT(60)
    <3>2. Cardinality(DOMAIN v.users) \in Nat /\ v.totalUsers = Cardinality(DOMAIN v.users)
      BY FS_CardinalityType, ZenonT(60) DEF SvTrue
    <3>3. w.totalUsers = v.totalUsers
      BY <1>1, <2>1, <3>2
    <3> QED
      BY <1>1, <2>1, <3>1, <3>2, <3>3, ZenonT(60) DEF SvTrue
  <2>2. CASE s.user \notin DOMAIN v.users
    <3>1. IsFiniteSet(DOMAIN v.users) /\ v.totalUsers = Cardinality(DOMAIN v.users)
      BY ZenonT(60) DEF SvTrue
    <3>2. /\ IsFiniteSet(DOMAIN v.users \cup {s.user})
          /\ Cardinality(DOMAIN v.users \cup {s.user}) = Cardinality(DOMAIN v.users) + 1
      BY <2>2, <3>1, FS_AddElement, ZenonT(60)
    <3> QED
      BY <1>1, <2>2, <3>1, <3>2, ZenonT(60)
  <2> QED
    BY <2>1, <2>2, ZenonT(60)
<1>4. /\ IsFiniteSet(DOMAIN w.workers)
      /\ w.totalWorkers = Cardinality(DOMAIN w.workers)
      /\ CountsTrue(w.userWorkerCount, DOMAIN w.workers)
  <2>1. CASE k \in DOMAIN v.workers
    <3>1. DOMAIN w.workers = DOMAIN v.workers
      BY <1>1, <2>1, ZenonT(60)
    <3>2. Cardinality(DOMAIN v.workers) \in Nat /\ v.totalWorkers = Cardinality(DOMAIN v.workers)
      BY FS_CardinalityType, ZenonT(60) DEF SvTrue
    <3>3. w.totalWorkers = v.totalWorkers
      BY <1>1, <2>1, <3>2
    <3> QED
      BY <1>1, <2>1, <3>1, <3>2, <3>3, ZenonT(60) DEF SvTrue
  <2>2. CASE k \notin DOMAIN v.workers
    <3>1. /\ IsFiniteSet(DOMAIN v.workers \cup {k})
          /\ Cardinality(DOMAIN v.workers \cup {k}) = Cardinality(DOMAIN v.workers) + 1
          /\ CountsTrue(Put(v.userWorkerCount, k[1], At(v.userWorkerCount, k[1], 0) + 1),
                        DOMAIN v.workers \cup {k})
      BY <2>2, MoreWorkers, ZenonT(60) DEF SvTrue
    <3> QED
      BY <1>1, <1>2, <2>2, <3>1, ZenonT(60) DEF SvTrue
  <2> QED
    BY <2>1, <2>2, ZenonT(60)
<1>5. \A x \in DOMAIN w.workers : x[2] # 0
  BY <1>1, <1>2, ZenonT(60) DEF SvTrue
<1>6. SvTrue(w) /\ w.up = v.up
  BY <1>1, <1>3, <1>4, <1>5, ZenonT(60) DEF SvTrue
<1> QED
  BY <1>6, ZenonT(60) DEF w

\* The workers and users that have expired are taken out, and off the counters.
LEMMA RemovedKeeps ==
  ASSUME SvTrue(sv)
  PROVE  SvTrue(removeExpiredWorkers) /\ removeExpiredWorkers.up = sv.up
<1> DEFINE w == removeExpiredWorkers
           ws == Unexpired(sv.workers)
           us == Unexpired(sv.users)
           gone == DOMAIN sv.workers \ ws
           count == sv.userWorkerCount
           counted == {u \in DOMAIN count : Cardinality(WorkersIn(gone, u)) > 0
                         => count[u] > Cardinality(WorkersIn(gone, u))}
<1>1. /\ Fields \subseteq DOMAIN w /\ w.up = sv.up /\ w.pos = sv.pos
      /\ DOMAIN w.workers = ws /\ DOMAIN w.users = us
      /\ w.totalWorkers = sv.totalWorkers - Cardinality(gone)
      /\ w.totalUsers = sv.totalUsers - Cardinality(DOMAIN sv.users \ us)
      /\ w.userWorkerCount = [u \in counted |-> count[u] - Cardinality(WorkersIn(gone, u))]
  BY ZenonT(60) DEF SvTrue, Fields, removeExpiredWorkers, WorkersIn
<1>2. ws \subseteq DOMAIN sv.workers /\ us \subseteq DOMAIN sv.users
  BY ZenonT(60) DEF Unexpired
<1> HIDE DEF w, ws, us, counted
<1>3. /\ IsFiniteSet(ws)
      /\ Cardinality(ws) = Cardinality(DOMAIN sv.workers) - Cardinality(gone)
      /\ CountsTrue([u \in counted |-> count[u] - Cardinality(WorkersIn(gone, u))], ws)
  <2>1. IsFiniteSet(DOMAIN sv.workers) /\ CountsTrue(count, DOMAIN sv.workers)
    BY ZenonT(60) DEF SvTrue
  <2> QED
    BY <1>2, <2>1, FewerWorkers, ZenonT(60) DEF counted
<1>4. /\ IsFiniteSet(us)
      /\ Cardinality(us) = Cardinality(DOMAIN sv.users) - Cardinality(DOMAIN sv.users \ us)
  BY <1>2, FinitePart, ZenonT(60) DEF SvTrue
<1>5. SvTrue(w)
  BY <1>1, <1>2, <1>3, <1>4, ZenonT(60) DEF SvTrue
<1> QED
  BY <1>1, <1>5, ZenonT(60) DEF w
-----------------------------------------------------------------------------
(* The flush to Redis *)

JobTypes(j) ==
  /\ {"steps", "workers"} \subseteq DOMAIN j
  /\ DOMAIN j.steps \subseteq Threads
  /\ \A s \in DOMAIN j.steps : {"phase", "values"} \subseteq DOMAIN j.steps[s]

HashesTrue(h) == \A k \in DOMAIN h : {"name", "status", "count"} \subseteq DOMAIN h[k]
RedisTypes ==
  /\ JobTypes(redisJob)
  /\ {"hash", "index"} \subseteq DOMAIN redis /\ HashesTrue(redis.hash)
  /\ ~sv.up => redisJob.workers = {}

Indexed(k) ==
  /\ k \in DOMAIN redis.hash /\ k \in DOMAIN redis.index
  /\ redis.index[k] = redis.hash[k].status
Counted(u) ==
  <<u, 0>> \in DOMAIN redis.hash /\ redis.hash[<<u, 0>>].count = Cardinality(WorkersOf(u))

\* What a thread has done, and the values that it has read
ThreadTrue(s) ==
  /\ (s \notin DOMAIN redisJob.steps \/ InPhase(s, "users") \/ InPhase(s, "hash"))
       => \A k \in Slice(sv.workers, s) : Indexed(k)
  /\ s \notin DOMAIN redisJob.steps => \A u \in Slice(sv.users, s) : Counted(u)
  /\ InPhase(s, "workers") => DOMAIN ValuesOf(s) = Slice(sv.workers, s)
  /\ InPhase(s, "index") =>
       /\ DOMAIN ValuesOf(s) = Slice(sv.workers, s)
       /\ \A k \in Slice(sv.workers, s) :
            k \in DOMAIN redis.hash /\ redis.hash[k].status = ValuesOf(s)[k].status
  /\ InPhase(s, "hash") =>
       /\ DOMAIN ValuesOf(s) = {<<u, 0>> : u \in Slice(sv.users, s)}
       /\ \A u \in Slice(sv.users, s) :
            ValuesOf(s)[<<u, 0>>].count = Cardinality(WorkersOf(u))

FlushTrue ==
  redisJob.workers # {} =>
    /\ redisJob.workers = {k \in DOMAIN sv.workers : k[1] \in DOMAIN sv.users}
    /\ \A s \in Threads : ThreadTrue(s)

SetsKept == DOMAIN sv'.workers = DOMAIN sv.workers /\ DOMAIN sv'.users = DOMAIN sv.users

\* The slices and the workers of a user stay when no worker or user comes or goes.
LEMMA SameSets ==
  ASSUME SetsKept
  PROVE  /\ \A s : Slice(sv.workers, s)' = Slice(sv.workers, s)
         /\ \A s : Slice(sv.users, s)' = Slice(sv.users, s)
         /\ \A u : WorkersOf(u)' = WorkersOf(u)
<1>1. \A s : Slice(sv.workers, s)' = Slice(sv.workers, s)
  BY ZenonT(60) DEF SetsKept, Slice
<1>2. \A s : Slice(sv.users, s)' = Slice(sv.users, s)
  BY ZenonT(60) DEF SetsKept, Slice
<1>3. \A u : WorkersOf(u)' = WorkersOf(u)
  BY ZenonT(60) DEF SetsKept, WorkersOf
<1> QED
  BY <1>1, <1>2, <1>3, ZenonT(60)

\* A step that leaves a thread and what it has written alone
LEMMA OtherThread ==
  ASSUME NEW s, ThreadTrue(s), SetsKept,
         s \in DOMAIN redisJob'.steps <=> s \in DOMAIN redisJob.steps,
         s \in DOMAIN redisJob.steps => redisJob'.steps[s] = redisJob.steps[s],
         \A k \in Slice(sv.workers, s) : k \in DOMAIN redis.hash =>
           k \in DOMAIN redis'.hash /\ redis'.hash[k].status = redis.hash[k].status,
         \A k \in Slice(sv.workers, s) : k \in DOMAIN redis.index =>
           k \in DOMAIN redis'.index /\ redis'.index[k] = redis.index[k],
         \A u \in Slice(sv.users, s) : <<u, 0>> \in DOMAIN redis.hash =>
           /\ <<u, 0>> \in DOMAIN redis'.hash
           /\ redis'.hash[<<u, 0>>].count = redis.hash[<<u, 0>>].count
  PROVE  ThreadTrue(s)'
<1>1. /\ Slice(sv.workers, s)' = Slice(sv.workers, s)
      /\ Slice(sv.users, s)' = Slice(sv.users, s)
      /\ \A u : WorkersOf(u)' = WorkersOf(u)
  BY SameSets, ZenonT(60)
<1>2. /\ \A p : InPhase(s, p)' <=> InPhase(s, p)
      /\ \A p : InPhase(s, p) => ValuesOf(s)' = ValuesOf(s)
  BY ZenonT(60) DEF InPhase, ValuesOf
<1>3. \A k \in Slice(sv.workers, s) : Indexed(k) => Indexed(k)'
  BY ZenonT(60) DEF Indexed
<1>4. \A u \in Slice(sv.users, s) : Counted(u) => Counted(u)'
  BY <1>1, ZenonT(60) DEF Counted
<1>5. InPhase(s, "workers")' => DOMAIN ValuesOf(s)' = Slice(sv.workers, s)'
  BY <1>1, <1>2, ZenonT(60) DEF ThreadTrue
<1>6. InPhase(s, "index")' =>
        /\ DOMAIN ValuesOf(s)' = Slice(sv.workers, s)'
        /\ \A k \in Slice(sv.workers, s)' :
             k \in DOMAIN redis'.hash /\ redis'.hash[k].status = ValuesOf(s)'[k].status
  BY <1>1, <1>2, ZenonT(60) DEF ThreadTrue
<1>7. InPhase(s, "hash")' =>
        /\ DOMAIN ValuesOf(s)' = {<<u, 0>> : u \in Slice(sv.users, s)'}
        /\ \A u \in Slice(sv.users, s)' :
             ValuesOf(s)'[<<u, 0>>].count = Cardinality(WorkersOf(u)')
  BY <1>1, <1>2, ZenonT(60) DEF ThreadTrue
<1>8. (s \notin DOMAIN redisJob'.steps \/ InPhase(s, "users")' \/ InPhase(s, "hash")')
        => \A k \in Slice(sv.workers, s)' : Indexed(k)'
  BY <1>1, <1>2, <1>3, ZenonT(60) DEF ThreadTrue
<1>9. s \notin DOMAIN redisJob'.steps => \A u \in Slice(sv.users, s)' : Counted(u)'
  BY <1>1, <1>4, ZenonT(60) DEF ThreadTrue
<1> QED
  BY <1>5, <1>6, <1>7, <1>8, <1>9, ZenonT(60) DEF ThreadTrue

\* A step that changes no set, no thread, no index and nothing but names in the hashes
LEMMA FlushSame ==
  ASSUME FlushTrue, redisJob' = redisJob, SetsKept, redis'.index = redis.index,
         \A k \in DOMAIN redis.hash :
           /\ k \in DOMAIN redis'.hash
           /\ redis'.hash[k].status = redis.hash[k].status
           /\ redis'.hash[k].count = redis.hash[k].count
  PROVE  FlushTrue'
<1>1. SUFFICES ASSUME redisJob.workers # {} PROVE FlushTrue'
  BY ZenonT(60) DEF FlushTrue
<1>2. redisJob'.workers = {k \in DOMAIN sv'.workers : k[1] \in DOMAIN sv'.users}
  BY <1>1, ZenonT(60) DEF FlushTrue, SetsKept
<1>3. ASSUME NEW s \in Threads PROVE ThreadTrue(s)'
  <2>1. ThreadTrue(s)
    BY <1>1, ZenonT(60) DEF FlushTrue
  <2> QED
    BY <2>1, OtherThread, ZenonT(60)
<1> QED
  BY <1>2, <1>3, ZenonT(60) DEF FlushTrue
OthersKept(t) ==
  \A s : s # t =>
    /\ s \in DOMAIN redisJob'.steps <=> s \in DOMAIN redisJob.steps
    /\ s \in DOMAIN redisJob.steps => redisJob'.steps[s] = redisJob.steps[s]

\* A thread that goes on or ends leaves the other threads alone.
LEMMA ThreadGoesOn ==
  ASSUME JobTypes(redisJob), NEW t \in DOMAIN redisJob.steps, NEW p, NEW v, GoesOn(t, p, v)
  PROVE  /\ JobTypes(redisJob') /\ redisJob'.workers = redisJob.workers /\ OthersKept(t)
         /\ t \in DOMAIN redisJob'.steps /\ ValuesOf(t)' = v
         /\ \A q : InPhase(t, q)' <=> q = p
<1>1. /\ {"steps", "workers"} \subseteq DOMAIN redisJob'
      /\ redisJob'.workers = redisJob.workers
      /\ redisJob'.steps = [redisJob.steps EXCEPT ![t] = [phase |-> p, values |-> v]]
  BY ZenonT(60) DEF GoesOn, JobTypes
<1>2. /\ DOMAIN redisJob'.steps = DOMAIN redisJob.steps
      /\ redisJob'.steps[t] = [phase |-> p, values |-> v]
      /\ \A s \in DOMAIN redisJob.steps : s # t => redisJob'.steps[s] = redisJob.steps[s]
  BY <1>1, ZenonT(60)
<1>3. JobTypes(redisJob')
  BY <1>1, <1>2, ZenonT(60) DEF JobTypes
<1>4. ValuesOf(t)' = v /\ \A q : InPhase(t, q)' <=> q = p
  BY <1>2 DEF ValuesOf, InPhase
<1> QED
  BY <1>1, <1>2, <1>3, <1>4, ZenonT(60) DEF OthersKept

\* A thread that has nothing left to write ends: the others are as they were.
LEMMA ThreadEnds ==
  ASSUME JobTypes(redisJob), NEW t \in DOMAIN redisJob.steps, Finishes(t)
  PROVE  /\ JobTypes(redisJob') /\ redisJob'.workers = redisJob.workers /\ OthersKept(t)
         /\ t \notin DOMAIN redisJob'.steps
<1>1. /\ {"steps", "workers"} \subseteq DOMAIN redisJob'
      /\ redisJob'.workers = redisJob.workers
      /\ redisJob'.steps = [s \in DOMAIN redisJob.steps \ {t} |-> redisJob.steps[s]]
  BY ZenonT(60) DEF Finishes, JobTypes
<1> QED
  BY <1>1, ZenonT(60) DEF JobTypes, OthersKept

\* The invariant after the step of a thread, from what it does for the others and
\* for itself
LEMMA AfterThread ==
  ASSUME FlushTrue, NEW t \in Threads, OthersKept(t), SetsKept,
         redisJob'.workers = redisJob.workers,
         redisJob.workers # {} => ThreadTrue(t)',
         redisJob.workers # {} => \A s \in Threads \ {t} :
           /\ \A k \in Slice(sv.workers, s) : k \in DOMAIN redis.hash =>
                k \in DOMAIN redis'.hash /\ redis'.hash[k].status = redis.hash[k].status
           /\ \A k \in Slice(sv.workers, s) : k \in DOMAIN redis.index =>
                k \in DOMAIN redis'.index /\ redis'.index[k] = redis.index[k]
           /\ \A u \in Slice(sv.users, s) : <<u, 0>> \in DOMAIN redis.hash =>
                /\ <<u, 0>> \in DOMAIN redis'.hash
                /\ redis'.hash[<<u, 0>>].count = redis.hash[<<u, 0>>].count
  PROVE  FlushTrue'
<1>1. SUFFICES ASSUME redisJob.workers # {} PROVE FlushTrue'
  BY ZenonT(60) DEF FlushTrue
<1>2. redisJob'.workers = {k \in DOMAIN sv'.workers : k[1] \in DOMAIN sv'.users}
  BY <1>1, ZenonT(60) DEF FlushTrue, SetsKept
<1>3. ASSUME NEW s \in Threads, s # t PROVE ThreadTrue(s)'
  <2>1. ThreadTrue(s)
    BY <1>1, ZenonT(60) DEF FlushTrue
  <2>2. /\ s \in DOMAIN redisJob'.steps <=> s \in DOMAIN redisJob.steps
        /\ s \in DOMAIN redisJob.steps => redisJob'.steps[s] = redisJob.steps[s]
    BY <1>3, ZenonT(60) DEF OthersKept
  <2> QED
    BY <1>1, <1>3, <2>1, <2>2, OtherThread, ZenonT(60)
<1>4. \A s \in Threads : ThreadTrue(s)'
  BY <1>1, <1>3, ZenonT(60)
<1> QED
  BY <1>2, <1>4, ZenonT(60) DEF FlushTrue

\* A thread reads its slice of the workers.
LEMMA WorkersReadKeeps ==
  ASSUME RedisTypes, FlushTrue, NEW t \in DOMAIN redisJob.steps, ReadWorkers(t)
  PROVE  RedisTypes' /\ FlushTrue' /\ redis' = redis /\ sv' = sv
<1> DEFINE v == [k \in Slice(sv.workers, t) |->
                   [status |-> getWorkerStatus(sv.workers[k]), count |-> 0]]
<1>1. sv' = sv /\ redis' = redis /\ GoesOn(t, "workers", v) /\ JobTypes(redisJob)
  BY ZenonT(60) DEF ReadWorkers, RedisTypes, JobTypes
<1>2. DOMAIN v = Slice(sv.workers, t)
  BY ZenonT(60)
<1> HIDE DEF v
<1>3. /\ JobTypes(redisJob') /\ redisJob'.workers = redisJob.workers /\ OthersKept(t)
      /\ t \in DOMAIN redisJob'.steps /\ ValuesOf(t)' = v
      /\ \A q : InPhase(t, q)' <=> q = "workers"
  BY <1>1, ThreadGoesOn, ZenonT(60)
<1>4. SetsKept
  BY <1>1, ZenonT(60) DEF SetsKept
<1>5. t \in Threads
  BY ZenonT(60) DEF RedisTypes, JobTypes
<1>6. ThreadTrue(t)'
  <2>1. Slice(sv.workers, t)' = Slice(sv.workers, t)
    BY <1>4, SameSets, ZenonT(60)
  <2>2. ~InPhase(t, "users")' /\ ~InPhase(t, "hash")' /\ ~InPhase(t, "index")'
    BY <1>3, ZenonT(60)
  <2> QED
    BY <1>2, <1>3, <2>1, <2>2, ZenonT(60) DEF ThreadTrue
<1>7. FlushTrue'
  BY <1>1, <1>3, <1>4, <1>5, <1>6, AfterThread, ZenonT(60)
<1>8. RedisTypes'
  BY <1>1, <1>3, ZenonT(60) DEF RedisTypes, JobTypes
<1> QED
  BY <1>1, <1>7, <1>8, ZenonT(60)
\* What a thread writes of its values into the hashes; the names stay.
LEMMA HashesWritten ==
  ASSUME HashesTrue(redis.hash), {"hash", "index"} \subseteq DOMAIN redis, NEW v,
         redis' = [redis EXCEPT !.hash = Over(Hashes(v), @)]
  PROVE  /\ HashesTrue(redis'.hash) /\ {"hash", "index"} \subseteq DOMAIN redis'
         /\ redis'.index = redis.index
         /\ DOMAIN redis'.hash = DOMAIN v \cup DOMAIN redis.hash
         /\ \A k \in DOMAIN v : /\ redis'.hash[k].status = v[k].status
                                /\ redis'.hash[k].count = v[k].count
         /\ \A k \in DOMAIN redis.hash : k \notin DOMAIN v => redis'.hash[k] = redis.hash[k]
         /\ \A k \in DOMAIN redis.hash : redis'.hash[k].name = redis.hash[k].name
<1> DEFINE f == Hashes(v)
<1>1. /\ {"hash", "index"} \subseteq DOMAIN redis' /\ redis'.index = redis.index
      /\ redis'.hash = Over(f, redis.hash)
  BY ZenonT(60)
<1>2. /\ DOMAIN f = DOMAIN v
      /\ \A k \in DOMAIN v : f[k] = [At(redis.hash, k, NoHash) EXCEPT
                                       !.status = v[k].status, !.count = v[k].count]
  BY ZenonT(60) DEF Hashes
<1> HIDE DEF f
<1>3. /\ DOMAIN redis'.hash = DOMAIN v \cup DOMAIN redis.hash
      /\ \A k \in DOMAIN v : redis'.hash[k] = f[k]
      /\ \A k \in DOMAIN redis.hash : k \notin DOMAIN v => redis'.hash[k] = redis.hash[k]
  BY <1>1, <1>2, ZenonT(60) DEF Over
<1>4. \A k : {"name", "status", "count"} \subseteq DOMAIN At(redis.hash, k, NoHash)
  BY ZenonT(60) DEF HashesTrue, At, NoHash
<1>5. \A k \in DOMAIN v :
        /\ {"name", "status", "count"} \subseteq DOMAIN f[k]
        /\ f[k].status = v[k].status /\ f[k].count = v[k].count
        /\ k \in DOMAIN redis.hash => f[k].name = redis.hash[k].name
  BY <1>2, <1>4, ZenonT(60) DEF At
<1> QED
  BY <1>1, <1>3, <1>5 DEF HashesTrue

\* The slices of two threads, and the keys of workers and users, are apart.
LEMMA SlicesApart ==
  ASSUME SvTrue(sv), NEW s \in Threads, NEW t \in Threads
  PROVE  /\ s # t => Slice(sv.workers, s) \cap Slice(sv.workers, t) = {}
         /\ s # t => Slice(sv.users, s) \cap Slice(sv.users, t) = {}
         /\ \A u : <<u, 0>> \notin Slice(sv.workers, t)
<1>1. IsFiniteSet(DOMAIN sv.workers) /\ IsFiniteSet(DOMAIN sv.users)
  BY ZenonT(60) DEF SvTrue
<1>2. Slice(sv.workers, t) \subseteq DOMAIN sv.workers
  BY <1>1, SliceFacts, ZenonT(60)
<1>3. \A u : <<u, 0>> \notin Slice(sv.workers, t)
  BY <1>2, ZenonT(60) DEF SvTrue
<1> QED
  BY <1>1, <1>3, SliceFacts, ZenonT(60)

\* A thread writes the hashes of its workers.
LEMMA WorkersWrittenKeeps ==
  ASSUME SvTrue(sv), RedisTypes, FlushTrue, NEW t \in DOMAIN redisJob.steps,
         flushWorkersToRedis(t)
  PROVE  RedisTypes' /\ FlushTrue' /\ sv' = sv
<1> DEFINE v == ValuesOf(t)
           p == IF v = Empty THEN "users" ELSE "index"
<1>1. /\ sv' = sv /\ GoesOn(t, p, v) /\ JobTypes(redisJob) /\ InPhase(t, "workers")
      /\ redis' = [redis EXCEPT !.hash = Over(Hashes(v), @)]
  BY ZenonT(60) DEF flushWorkersToRedis, RedisTypes
<1>2. t \in Threads /\ HashesTrue(redis.hash) /\ {"hash", "index"} \subseteq DOMAIN redis
  BY ZenonT(60) DEF RedisTypes, JobTypes
<1>3. v = Empty => DOMAIN v = {}
  BY ZenonT(60) DEF Empty
<1>4. p \in {"users", "index"} /\ (p = "users" => DOMAIN v = {})
  BY <1>3, ZenonT(60)
<1> HIDE DEF v, p
<1>5. /\ JobTypes(redisJob') /\ redisJob'.workers = redisJob.workers /\ OthersKept(t)
      /\ t \in DOMAIN redisJob'.steps /\ ValuesOf(t)' = v
      /\ \A q : InPhase(t, q)' <=> q = p
  BY <1>1, ThreadGoesOn, ZenonT(60)
<1>6. SetsKept
  BY <1>1, ZenonT(60) DEF SetsKept
<1>7. /\ HashesTrue(redis'.hash) /\ {"hash", "index"} \subseteq DOMAIN redis'
      /\ redis'.index = redis.index
      /\ DOMAIN redis'.hash = DOMAIN v \cup DOMAIN redis.hash
      /\ \A k \in DOMAIN v : redis'.hash[k].status = v[k].status
      /\ \A k \in DOMAIN redis.hash : k \notin DOMAIN v => redis'.hash[k] = redis.hash[k]
  BY <1>1, <1>2, HashesWritten, ZenonT(60)
<1>8. ASSUME redisJob.workers # {} PROVE DOMAIN v = Slice(sv.workers, t)
  BY <1>1, <1>2, <1>8, ZenonT(60) DEF FlushTrue, ThreadTrue, v
<1>9. ASSUME redisJob.workers # {} PROVE ThreadTrue(t)'
  <2>1. Slice(sv.workers, t)' = Slice(sv.workers, t)
    BY <1>6, SameSets, ZenonT(60)
  <2>2. ~InPhase(t, "workers")' /\ ~InPhase(t, "hash")'
    BY <1>4, <1>5, ZenonT(60)
  <2>3. InPhase(t, "users")' => Slice(sv.workers, t) = {}
    BY <1>4, <1>5, <1>8, <1>9, ZenonT(60)
  <2> QED
    BY <1>5, <1>7, <1>8, <1>9, <2>1, <2>2, <2>3, ZenonT(60) DEF ThreadTrue
<1>10. ASSUME redisJob.workers # {}, NEW s \in Threads, s # t
       PROVE  /\ Slice(sv.workers, s) \cap DOMAIN v = {}
              /\ \A u : <<u, 0>> \notin DOMAIN v
  BY <1>2, <1>8, <1>10, SlicesApart, ZenonT(60)
<1>11. FlushTrue'
  BY <1>2, <1>5, <1>6, <1>7, <1>9, <1>10, AfterThread, ZenonT(60)
<1>12. RedisTypes'
  BY <1>1, <1>5, <1>7, ZenonT(60) DEF RedisTypes
<1> QED
  BY <1>1, <1>11, <1>12, ZenonT(60)

\* A thread writes the indexes of its workers, as their hashes are.
LEMMA IndexWrittenKeeps ==
  ASSUME SvTrue(sv), RedisTypes, FlushTrue, NEW t \in DOMAIN redisJob.steps,
         flushIndexToRedis(t)
  PROVE  RedisTypes' /\ FlushTrue' /\ sv' = sv /\ redis'.hash = redis.hash
<1> DEFINE v == ValuesOf(t)
<1>1. /\ sv' = sv /\ GoesOn(t, "users", Empty) /\ JobTypes(redisJob) /\ InPhase(t, "index")
      /\ redis' = [redis EXCEPT !.index = Over(addIndexToBuffer(v), @)]
  BY ZenonT(60) DEF flushIndexToRedis, RedisTypes
<1>2. t \in Threads /\ HashesTrue(redis.hash) /\ {"hash", "index"} \subseteq DOMAIN redis
  BY ZenonT(60) DEF RedisTypes, JobTypes
<1> HIDE DEF v
<1>5. /\ JobTypes(redisJob') /\ redisJob'.workers = redisJob.workers /\ OthersKept(t)
      /\ t \in DOMAIN redisJob'.steps
      /\ \A q : InPhase(t, q)' <=> q = "users"
  BY <1>1, ThreadGoesOn, ZenonT(60)
<1>6. SetsKept
  BY <1>1, ZenonT(60) DEF SetsKept
<1>7. /\ redis'.hash = redis.hash /\ {"hash", "index"} \subseteq DOMAIN redis'
      /\ DOMAIN redis'.index = DOMAIN v \cup DOMAIN redis.index
      /\ \A k \in DOMAIN v : redis'.index[k] = v[k].status
      /\ \A k \in DOMAIN redis.index : k \notin DOMAIN v => redis'.index[k] = redis.index[k]
  BY <1>1, <1>2, ZenonT(60) DEF addIndexToBuffer, Over
<1>8. ASSUME redisJob.workers # {}
      PROVE  /\ DOMAIN v = Slice(sv.workers, t)
             /\ \A k \in DOMAIN v :
                  k \in DOMAIN redis.hash /\ redis.hash[k].status = v[k].status
  BY <1>1, <1>2, <1>8, ZenonT(60) DEF FlushTrue, ThreadTrue, v
<1>9. ASSUME redisJob.workers # {} PROVE ThreadTrue(t)'
  <2>1. Slice(sv.workers, t)' = Slice(sv.workers, t)
    BY <1>6, SameSets, ZenonT(60)
  <2>2. ~InPhase(t, "workers")' /\ ~InPhase(t, "hash")' /\ ~InPhase(t, "index")'
    BY <1>5, ZenonT(60)
  <2>3. \A k \in Slice(sv.workers, t) : Indexed(k)'
    BY <1>7, <1>8, <1>9, ZenonT(60) DEF Indexed
  <2> QED
    BY <1>5, <2>1, <2>2, <2>3, ZenonT(60) DEF ThreadTrue
<1>10. ASSUME redisJob.workers # {}, NEW s \in Threads, s # t
       PROVE  Slice(sv.workers, s) \cap DOMAIN v = {}
  BY <1>2, <1>8, <1>10, SlicesApart, ZenonT(60)
<1>11. FlushTrue'
  BY <1>2, <1>5, <1>6, <1>7, <1>9, <1>10, AfterThread, ZenonT(60)
<1>12. RedisTypes'
  BY <1>1, <1>2, <1>5, <1>7, ZenonT(60) DEF RedisTypes
<1> QED
  BY <1>1, <1>7, <1>11, <1>12, ZenonT(60)
\* A thread reads its slice of the users, with the counts of their workers.
LEMMA UsersReadKeeps ==
  ASSUME SvTrue(sv), RedisTypes, FlushTrue, NEW t \in DOMAIN redisJob.steps, ReadUsers(t)
  PROVE  RedisTypes' /\ FlushTrue' /\ SvTrue(sv') /\ sv'.up = sv.up /\ redis' = redis
<1> DEFINE us == Slice(sv.users, t)
           v == [k \in {<<u, 0>> : u \in us} |->
                   [status |-> getWorkerStatus(sv.users[k[1]]),
                    count |-> At(sv.userWorkerCount, k[1], 0)]]
<1>1. /\ sv' = [sv EXCEPT !.userWorkerCount = Over(@, [u \in us |-> 0])]
      /\ GoesOn(t, "hash", v) /\ JobTypes(redisJob) /\ InPhase(t, "users") /\ redis' = redis
  BY ZenonT(60) DEF ReadUsers, RedisTypes
<1>2. t \in Threads
  BY ZenonT(60) DEF RedisTypes, JobTypes
<1>3. /\ DOMAIN v = {<<u, 0>> : u \in us}
      /\ \A u \in us : v[<<u, 0>>].count = At(sv.userWorkerCount, u, 0)
  BY ZenonT(60)
<1> HIDE DEF v
<1>4. /\ JobTypes(redisJob') /\ redisJob'.workers = redisJob.workers /\ OthersKept(t)
      /\ t \in DOMAIN redisJob'.steps /\ ValuesOf(t)' = v
      /\ \A q : InPhase(t, q)' <=> q = "hash"
  BY <1>1, ThreadGoesOn, ZenonT(60)
<1>5. /\ Fields \subseteq DOMAIN sv' /\ sv'.up = sv.up /\ sv'.pos = sv.pos
      /\ sv'.workers = sv.workers /\ sv'.users = sv.users
      /\ sv'.totalWorkers = sv.totalWorkers /\ sv'.totalUsers = sv.totalUsers
      /\ sv'.userWorkerCount = Over(sv.userWorkerCount, [u \in us |-> 0])
  BY <1>1, ZenonT(60) DEF SvTrue, Fields
<1>6. SetsKept
  BY <1>5, ZenonT(60) DEF SetsKept
<1>7. SvTrue(sv')
  <2>1. CountsTrue(sv'.userWorkerCount, DOMAIN sv.workers)
    BY <1>5, ZeroCounts, ZenonT(60) DEF SvTrue
  <2> QED
    BY <1>5, <2>1, ZenonT(60) DEF SvTrue
<1>8. ASSUME redisJob.workers # {} PROVE ThreadTrue(t)'
  <2>1. /\ Slice(sv.workers, t)' = Slice(sv.workers, t)
        /\ Slice(sv.users, t)' = us
        /\ \A u : WorkersOf(u)' = WorkersOf(u)
    BY <1>6, SameSets, ZenonT(60)
  <2>2. ~InPhase(t, "workers")' /\ ~InPhase(t, "users")' /\ ~InPhase(t, "index")'
    BY <1>4, ZenonT(60)
  <2>3. \A k \in Slice(sv.workers, t) : Indexed(k)'
    BY <1>1, <1>2, <1>8, ZenonT(60) DEF FlushTrue, ThreadTrue, Indexed
  <2>4. \A u \in us : v[<<u, 0>>].count = Cardinality(WorkersOf(u))
    BY <1>3, ZenonT(60) DEF SvTrue, CountsTrue, WorkersIn, WorkersOf
  <2> QED
    BY <1>3, <1>4, <2>1, <2>2, <2>3, <2>4, ZenonT(60) DEF ThreadTrue
<1>9. FlushTrue'
  BY <1>1, <1>2, <1>4, <1>6, <1>8, AfterThread, ZenonT(60)
<1>10. RedisTypes'
  BY <1>1, <1>4, <1>5, ZenonT(60) DEF RedisTypes
<1> QED
  BY <1>1, <1>5, <1>7, <1>9, <1>10, ZenonT(60)

\* A thread writes the hashes of its users, and ends.
LEMMA UsersWrittenKeeps ==
  ASSUME SvTrue(sv), RedisTypes, FlushTrue, NEW t \in DOMAIN redisJob.steps,
         flushUsersToRedis(t)
  PROVE  RedisTypes' /\ FlushTrue' /\ sv' = sv
<1> DEFINE v == ValuesOf(t)
<1>1. /\ sv' = sv /\ Finishes(t) /\ JobTypes(redisJob) /\ InPhase(t, "hash")
      /\ redis' = [redis EXCEPT !.hash = Over(Hashes(v), @)]
  BY ZenonT(60) DEF flushUsersToRedis, RedisTypes
<1>2. t \in Threads /\ HashesTrue(redis.hash) /\ {"hash", "index"} \subseteq DOMAIN redis
  BY ZenonT(60) DEF RedisTypes, JobTypes
<1> HIDE DEF v
<1>3. /\ JobTypes(redisJob') /\ redisJob'.workers = redisJob.workers /\ OthersKept(t)
      /\ t \notin DOMAIN redisJob'.steps
  BY <1>1, ThreadEnds, ZenonT(60)
<1>4. SetsKept
  BY <1>1, ZenonT(60) DEF SetsKept
<1>5. /\ HashesTrue(redis'.hash) /\ {"hash", "index"} \subseteq DOMAIN redis'
      /\ redis'.index = redis.index
      /\ DOMAIN redis'.hash = DOMAIN v \cup DOMAIN redis.hash
      /\ \A k \in DOMAIN v : redis'.hash[k].count = v[k].count
      /\ \A k \in DOMAIN redis.hash : k \notin DOMAIN v => redis'.hash[k] = redis.hash[k]
  BY <1>1, <1>2, HashesWritten, ZenonT(60)
<1>6. ASSUME redisJob.workers # {}
      PROVE  /\ DOMAIN v = {<<u, 0>> : u \in Slice(sv.users, t)}
             /\ \A u \in Slice(sv.users, t) : v[<<u, 0>>].count = Cardinality(WorkersOf(u))
             /\ \A k \in Slice(sv.workers, t) : Indexed(k)
  BY <1>1, <1>2, <1>6, ZenonT(60) DEF FlushTrue, ThreadTrue, v
<1>7. ASSUME redisJob.workers # {}, NEW s \in Threads
      PROVE  /\ Slice(sv.workers, s) \cap DOMAIN v = {}
             /\ s # t => \A u \in Slice(sv.users, s) : <<u, 0>> \notin DOMAIN v
  <2>1. /\ s # t => Slice(sv.users, s) \cap Slice(sv.users, t) = {}
        /\ \A u : <<u, 0>> \notin Slice(sv.workers, s)
    BY <1>2, SlicesApart, ZenonT(60)
  <2> QED
    BY <1>6, <1>7, <2>1, ZenonT(60)
<1>8. ASSUME redisJob.workers # {} PROVE ThreadTrue(t)'
  <2>1. /\ Slice(sv.workers, t)' = Slice(sv.workers, t)
        /\ Slice(sv.users, t)' = Slice(sv.users, t)
        /\ \A u : WorkersOf(u)' = WorkersOf(u)
    BY <1>4, SameSets, ZenonT(60)
  <2>2. \A k \in Slice(sv.workers, t) : Indexed(k)'
    BY <1>2, <1>5, <1>6, <1>7, <1>8, ZenonT(60) DEF Indexed
  <2>3. \A u \in Slice(sv.users, t) : Counted(u)'
    BY <1>5, <1>6, <1>8, <2>1, ZenonT(60) DEF Counted
  <2>4. \A q : ~InPhase(t, q)'
    BY <1>3, ZenonT(60) DEF InPhase
  <2> QED
    BY <2>1, <2>2, <2>3, <2>4, ZenonT(60) DEF ThreadTrue
<1>9. FlushTrue'
  BY <1>2, <1>3, <1>4, <1>5, <1>7, <1>8, AfterThread, ZenonT(60)
<1>10. RedisTypes'
  BY <1>1, <1>3, <1>5, ZenonT(60) DEF RedisTypes
<1> QED
  BY <1>1, <1>9, <1>10, ZenonT(60)

\* The start of a flush, and its failures, after which nothing is claimed of it
LEMMA FlushStarts ==
  ASSUME SvTrue(sv), RedisTypes, flushToRedis
  PROVE  RedisTypes' /\ FlushTrue' /\ sv' = sv /\ redis' = redis
<1>1. /\ sv' = sv /\ redis' = redis /\ sv.up
      /\ redisJob' = [steps |-> [step \in Threads |-> [phase |-> "check", values |-> Empty]],
                      workers |-> {k \in DOMAIN sv.workers : k[1] \in DOMAIN sv.users}]
  BY ZenonT(60) DEF flushToRedis, Threads
<1>2. JobTypes(redisJob')
  BY <1>1, ZenonT(60) DEF JobTypes
<1>3. ASSUME NEW s \in Threads PROVE ThreadTrue(s)'
  <2>1. s \in DOMAIN redisJob'.steps /\ redisJob'.steps[s].phase = "check"
    BY <1>1, ZenonT(60)
  <2>2. /\ ~InPhase(s, "workers")' /\ ~InPhase(s, "users")' /\ ~InPhase(s, "index")'
        /\ ~InPhase(s, "hash")'
    BY <2>1, ZenonT(60) DEF InPhase
  <2> QED
    BY <2>1, <2>2, ZenonT(60) DEF ThreadTrue
<1>4. FlushTrue'
  BY <1>1, <1>3, ZenonT(60) DEF FlushTrue
<1> QED
  BY <1>1, <1>2, <1>4, ZenonT(60) DEF RedisTypes

\* A flush that fails writes nothing more, and promises nothing.
LEMMA FlushFails ==
  ASSUME RedisTypes, NEW t \in DOMAIN redisJob.steps, checkRedisFails(t) \/ CommandsFail(t)
  PROVE  RedisTypes' /\ FlushTrue' /\ sv' = sv /\ redis' = redis
<1>1. sv' = sv /\ redis' = redis /\ JobTypes(redisJob)
  BY ZenonT(60) DEF checkRedisFails, CommandsFail, RedisTypes
<1>2. JobTypes(redisJob') /\ redisJob'.workers = {}
  <2>1. CASE checkRedisFails(t)
    BY <1>1, <2>1, ZenonT(60) DEF checkRedisFails, JobTypes
  <2>2. CASE CommandsFail(t)
    <3>1. PICK w : redisJob' = [steps |-> [redisJob.steps EXCEPT ![t].values = w],
                                workers |-> {}]
      BY <2>2, ZenonT(60) DEF CommandsFail
    <3> QED
      BY <1>1, <3>1, ZenonT(60) DEF JobTypes
  <2> QED
    BY <2>1, <2>2, ZenonT(60)
<1> QED
  BY <1>1, <1>2, ZenonT(60) DEF RedisTypes, FlushTrue
-----------------------------------------------------------------------------
(* The events *)

RowsTrue(m) == \A k \in DOMAIN m : {"sums", "name", "group"} \subseteq DOMAIN m[k]

\* The names of the events that were consumed
NamesTrue ==
  \A i \in eventJob.from + 1 .. eventJob.done :
    events[i].key # None /\ LastOfKey(i, eventJob.done) => NamedAs(events[i])

EventTrue ==
  /\ {"from", "done", "phase", "found", "group"} \subseteq DOMAIN eventJob
  /\ eventJob.from \in Nat /\ eventJob.done \in Nat /\ eventJob.done <= Len(events)
  /\ eventJob.phase = "write" => eventJob.done < Len(events)
  /\ faults \in Nat
  /\ \E S : events \in Seq(S)
  /\ RowsTrue(mining)
  /\ faults = 0 => NamesTrue

\* A row or a hash keeps its name, and there are no fewer of them.
NamesKept ==
  /\ \A k \in DOMAIN mining : k \in DOMAIN mining' /\ mining'[k].name = mining[k].name
  /\ \A k \in DOMAIN redis.hash :
       k \in DOMAIN redis'.hash /\ redis'.hash[k].name = redis.hash[k].name
FaultsGrow == faults' \in Nat /\ (faults' = 0 => faults = 0)

\* The steps that are not those of the events
LEMMA EventsSame ==
  ASSUME EventTrue, events' = events, eventJob' = eventJob, FaultsGrow, RowsTrue(mining'),
         NamesKept
  PROVE  EventTrue'
<1>1. ASSUME faults' = 0 PROVE NamesTrue'
  <2>1. NamesTrue
    BY <1>1, ZenonT(60) DEF FaultsGrow, EventTrue
  <2>2. \A e : NamedAs(e) => NamedAs(e)'
    BY ZenonT(60) DEF NamedAs, NamesKept
  <2>3. \A i, n : LastOfKey(i, n)' <=> LastOfKey(i, n)
    BY ZenonT(60) DEF LastOfKey
  <2> QED
    BY <2>1, <2>2, <2>3, ZenonT(60) DEF NamesTrue
<1> QED
  BY <1>1, ZenonT(60) DEF EventTrue, FaultsGrow

\* The place to start from in a topic
LEMMA MaxZero ==
  ASSUME NEW x \in Int
  PROVE  Max({0, x}) = IF x >= 0 THEN x ELSE 0
<1> DEFINE m == IF x >= 0 THEN x ELSE 0
           P(y) == y \in {0, x} /\ \A z \in {0, x} : y >= z
<1>1. P(m)
  OBVIOUS
<1>2. \A y : P(y) => y = m
  OBVIOUS
<1>3. Max({0, x}) = CHOOSE y \in {0, x} : \A z \in {0, x} : y >= z
  BY ZenonT(60) DEF Max
<1> QED
  BY <1>1, <1>2, <1>3, ZenonT(60)

\* A new event is not consumed yet.
LEMMA EventSent ==
  ASSUME EventTrue, SendEvent
  PROVE  EventTrue'
<1>1. /\ eventJob' = eventJob /\ faults' = faults /\ mining' = mining /\ redis' = redis
      /\ \E e : events' = Append(events, e)
  BY ZenonT(60) DEF SendEvent, logVars
<1>2. PICK S : events \in Seq(S)
  BY ZenonT(60) DEF EventTrue
<1>3. PICK e : events' = Append(events, e)
  BY <1>1, ZenonT(60)
<1>4. events \in Seq(S \cup {e})
  BY <1>2
<1>5. /\ events' \in Seq(S \cup {e}) /\ Len(events') = Len(events) + 1
      /\ \A i \in 1 .. Len(events) : events'[i] = events[i]
  BY <1>3, <1>4
<1>6. Len(events) \in Nat
  BY <1>2
<1>7. ASSUME NamesTrue PROVE NamesTrue'
  <2>1. SUFFICES ASSUME NEW i \in eventJob.from + 1 .. eventJob.done,
                        events'[i].key # None, LastOfKey(i, eventJob.done)'
                 PROVE  NamedAs(events[i])'
    BY <1>1, ZenonT(60) DEF NamesTrue
  <2>2. i \in 1 .. Len(events) /\ events'[i] = events[i]
    BY <1>5, <1>6, <2>1 DEF EventTrue
  <2>3. LastOfKey(i, eventJob.done)
    BY <1>1, <1>5, <1>6, <2>1, <2>2 DEF LastOfKey, EventTrue
  <2> QED
    BY <1>1, <1>7, <2>1, <2>2, <2>3, ZenonT(60) DEF NamesTrue, NamedAs
<1>8. /\ {"from", "done", "phase", "found", "group"} \subseteq DOMAIN eventJob'
      /\ eventJob'.from \in Nat /\ eventJob'.done \in Nat /\ eventJob'.done <= Len(events')
      /\ eventJob'.phase = "write" => eventJob'.done < Len(events')
  BY <1>1, <1>5, <1>6 DEF EventTrue
<1>9. faults' \in Nat /\ RowsTrue(mining') /\ (faults' = 0 => NamesTrue')
  BY <1>1, <1>7, ZenonT(60) DEF EventTrue
<1> QED
  BY <1>5, <1>8, <1>9, ZenonT(60) DEF EventTrue

\* The look for the row changes nothing but the thread's own state.
LEMMA EventSelected ==
  ASSUME EventTrue, SelectGroup
  PROVE  EventTrue'
<1>1. /\ events' = events /\ faults' = faults /\ mining' = mining /\ redis' = redis
      /\ eventJob.done < Len(events)
      /\ \E f, g : eventJob' = [eventJob EXCEPT !.phase = "write", !.found = f, !.group = g]
  BY ZenonT(60) DEF SelectGroup, EventIsNext, logVars
<1>2. /\ {"from", "done", "phase", "found", "group"} \subseteq DOMAIN eventJob'
      /\ eventJob'.from = eventJob.from /\ eventJob'.done = eventJob.done
  BY <1>1, ZenonT(60) DEF EventTrue
<1>3. NamesTrue => NamesTrue'
  BY <1>1, <1>2, ZenonT(60) DEF NamesTrue, LastOfKey, NamedAs
<1> QED
  BY <1>1, <1>2, <1>3, ZenonT(60) DEF EventTrue

\* An event that is ignored is not about a worker.
LEMMA EventIgnored ==
  ASSUME EventTrue, IgnoreEvent
  PROVE  EventTrue'
<1> DEFINE n == eventJob.done
<1>1. /\ events' = events /\ faults' = faults /\ mining' = mining /\ redis' = redis
      /\ n < Len(events) /\ events[n + 1].key = None
      /\ eventJob' = NextEvent
  BY ZenonT(60) DEF IgnoreEvent, EventIsNext, Event, logVars
<1>2. /\ {"from", "done", "phase", "found", "group"} \subseteq DOMAIN eventJob'
      /\ eventJob'.from = eventJob.from /\ eventJob'.done = n + 1
      /\ eventJob'.phase = "select"
  BY <1>1, ZenonT(60) DEF NextEvent, NoEvent
<1>3. n \in Nat /\ eventJob.from \in Nat /\ Len(events) \in Nat
  BY DEF EventTrue
<1>4. ASSUME NamesTrue, NEW i \in eventJob.from + 1 .. n + 1, events[i].key # None,
             LastOfKey(i, n + 1)
      PROVE  NamedAs(events[i])
  <2>1. i # n + 1
    BY <1>1, <1>4, ZenonT(60)
  <2>2. i \in eventJob.from + 1 .. n /\ LastOfKey(i, n)
    BY <1>3, <1>4, <2>1 DEF LastOfKey
  <2> QED
    BY <1>4, <2>2, ZenonT(60) DEF NamesTrue
<1>5. ASSUME NamesTrue PROVE NamesTrue'
  <2>1. \A i, m : LastOfKey(i, m)' <=> LastOfKey(i, m)
    BY <1>1, ZenonT(60) DEF LastOfKey
  <2>2. \A e : NamedAs(e)' <=> NamedAs(e)
    BY <1>1, ZenonT(60) DEF NamedAs
  <2> QED
    BY <1>1, <1>2, <1>4, <1>5, <2>1, <2>2, ZenonT(60) DEF NamesTrue
<1>6. eventJob'.done \in Nat /\ eventJob'.done <= Len(events')
  BY <1>1, <1>2, <1>3
<1> QED
  BY <1>1, <1>2, <1>3, <1>5, <1>6, ZenonT(60) DEF EventTrue

\* What the two halves of an event's update write
LEMMA RowNamed ==
  ASSUME RowsTrue(mining), NEW e
  PROVE  LET m == Put(mining, e.key, NamedRow(e))
         IN /\ RowsTrue(m) /\ DOMAIN m = DOMAIN mining \cup {e.key}
            /\ m[e.key].name = e.name
            /\ \A k \in DOMAIN mining : k # e.key => m[k] = mining[k]
<1> DEFINE row == [At(mining, e.key, NewRow(e.key)) EXCEPT !.name = e.name]
<1>1. {"sums", "name", "group"} \subseteq DOMAIN At(mining, e.key, NewRow(e.key))
  BY ZenonT(60) DEF RowsTrue, At, NewRow
<1>2. {"sums", "name", "group"} \subseteq DOMAIN row /\ row.name = e.name
  BY <1>1, ZenonT(60)
<1>3. {"sums", "name", "group"} \subseteq DOMAIN NamedRow(e) /\ NamedRow(e).name = e.name
  BY <1>2, ZenonT(60) DEF NamedRow
<1> QED
  BY <1>3, ZenonT(60) DEF Put, RowsTrue

\* An event names the worker of its key, and no other one.
LEMMA HashNamed ==
  ASSUME HashesTrue(redis.hash), {"hash", "index"} \subseteq DOMAIN redis, NEW e
  PROVE  LET r == NamedHash(e)
         IN /\ {"hash", "index"} \subseteq DOMAIN r /\ r.index = redis.index
            /\ HashesTrue(r.hash) /\ DOMAIN r.hash = DOMAIN redis.hash \cup {e.key}
            /\ r.hash[e.key].name = e.name
            /\ \A k \in DOMAIN redis.hash : k # e.key => r.hash[k] = redis.hash[k]
            /\ \A k \in DOMAIN redis.hash : /\ r.hash[k].status = redis.hash[k].status
                                            /\ r.hash[k].count = redis.hash[k].count
<1> DEFINE r == NamedHash(e)
           h == [At(redis.hash, e.key, NoHash) EXCEPT !.name = e.name]
<1>1. {"name", "status", "count"} \subseteq DOMAIN At(redis.hash, e.key, NoHash)
  BY ZenonT(60) DEF HashesTrue, At, NoHash
<1>2. /\ {"name", "status", "count"} \subseteq DOMAIN h /\ h.name = e.name
      /\ e.key \in DOMAIN redis.hash => /\ h.status = redis.hash[e.key].status
                                        /\ h.count = redis.hash[e.key].count
  BY <1>1, ZenonT(60) DEF At
<1>3. /\ {"hash", "index"} \subseteq DOMAIN r /\ r.index = redis.index
      /\ r.hash = Put(redis.hash, e.key, h)
  BY ZenonT(60) DEF NamedHash
<1> HIDE DEF r, h
<1>4. /\ DOMAIN r.hash = DOMAIN redis.hash \cup {e.key} /\ r.hash[e.key] = h
      /\ \A k \in DOMAIN redis.hash : k # e.key => r.hash[k] = redis.hash[k]
  BY <1>3, ZenonT(60) DEF Put
<1>5. HashesTrue(r.hash)
  BY <1>2, <1>4, ZenonT(60) DEF HashesTrue
<1>6. \A k \in DOMAIN redis.hash : /\ r.hash[k].status = redis.hash[k].status
                                   /\ r.hash[k].count = redis.hash[k].count
  BY <1>2, <1>4, ZenonT(60)
<1>7. r.hash[e.key].name = e.name
  BY <1>2, <1>4, ZenonT(60)
<1> QED
  BY <1>3, <1>4, <1>5, <1>6, <1>7, ZenonT(60) DEF r

\* The update of an event, whether it fails or not.  The names of the other keys
\* stay, and the key of the event has its name when both halves succeed.
LEMMA EventUpdated ==
  ASSUME EventTrue, RedisTypes, FlushTrue, updateWorkerStatus \/ updateWorkerStatusFails
  PROVE  EventTrue' /\ RedisTypes' /\ FlushTrue' /\ sv' = sv
<1> DEFINE e == Event
           n == eventJob.done
<1>1. /\ events' = events /\ sv' = sv /\ redisJob' = redisJob
      /\ eventJob.phase = "write" /\ eventJob' = NextEvent
  BY ZenonT(60) DEF updateWorkerStatus, updateWorkerStatusFails
<1>2. /\ mining' \in {mining, Put(mining, e.key, NamedRow(e))}
      /\ redis' \in {redis, NamedHash(e)}
  BY ZenonT(60) DEF updateWorkerStatus, updateWorkerStatusFails
<1>3. faults' \in Nat
  BY DEF updateWorkerStatus, updateWorkerStatusFails, logVars, Fault, EventTrue
<1>4. faults' = 0 => /\ faults = 0 /\ mining' = Put(mining, e.key, NamedRow(e))
                     /\ redis' = NamedHash(e)
  BY DEF updateWorkerStatus, updateWorkerStatusFails, logVars, Fault, EventTrue
<1>5. RowsTrue(mining) /\ HashesTrue(redis.hash) /\ {"hash", "index"} \subseteq DOMAIN redis
  BY ZenonT(60) DEF EventTrue, RedisTypes
<1> HIDE DEF e
<1>6. /\ RowsTrue(mining') /\ DOMAIN mining \subseteq DOMAIN mining'
      /\ \A k \in DOMAIN mining : k # e.key => mining'[k] = mining[k]
      /\ faults' = 0 => e.key \in DOMAIN mining' /\ mining'[e.key].name = e.name
  BY <1>2, <1>4, <1>5, RowNamed, ZenonT(60)
<1>7. /\ {"hash", "index"} \subseteq DOMAIN redis' /\ redis'.index = redis.index
      /\ HashesTrue(redis'.hash) /\ DOMAIN redis.hash \subseteq DOMAIN redis'.hash
      /\ \A k \in DOMAIN redis.hash : k # e.key => redis'.hash[k] = redis.hash[k]
      /\ \A k \in DOMAIN redis.hash : /\ redis'.hash[k].status = redis.hash[k].status
                                      /\ redis'.hash[k].count = redis.hash[k].count
      /\ faults' = 0 => e.key \in DOMAIN redis'.hash /\ redis'.hash[e.key].name = e.name
  <2>1. CASE redis' = NamedHash(e)
    BY <1>5, <2>1, HashNamed, ZenonT(60)
  <2>2. CASE redis' # NamedHash(e)
    BY <1>2, <1>4, <1>5, <2>2, ZenonT(60)
  <2> QED
    BY <2>1, <2>2, ZenonT(60)
<1>8. /\ {"from", "done", "phase", "found", "group"} \subseteq DOMAIN eventJob'
      /\ eventJob'.from = eventJob.from /\ eventJob'.done = n + 1
      /\ eventJob'.phase = "select"
  BY <1>1, ZenonT(60) DEF NextEvent, NoEvent
<1>9. n \in Nat /\ n < Len(events) /\ eventJob.from \in Nat
  BY <1>1, ZenonT(60) DEF EventTrue
<1>10. ASSUME faults' = 0, NEW i \in eventJob.from + 1 .. n + 1, events[i].key # None,
              LastOfKey(i, n + 1)
       PROVE  NamedAs(events[i])'
  <2>1. CASE i = n + 1
    <3>1. events[i] = e
      BY <2>1, ZenonT(60) DEF Event, e
    <3> QED
      BY <1>1, <1>6, <1>7, <1>10, <3>1, ZenonT(60) DEF NamedAs
  <2>2. CASE i # n + 1
    <3>1. i \in eventJob.from + 1 .. n /\ n + 1 \in i + 1 .. n + 1
      BY <1>9, <1>10, <2>2
    <3>2. LastOfKey(i, n) /\ events[n + 1].key # events[i].key
      BY <1>9, <1>10, <3>1 DEF LastOfKey
    <3>3. NamedAs(events[i])
      BY <1>4, <1>10, <3>1, <3>2, ZenonT(60) DEF EventTrue, NamesTrue
    <3>4. events[i].key # e.key
      BY <3>2, ZenonT(60) DEF e, Event
    <3> QED
      BY <1>1, <1>6, <1>7, <3>3, <3>4, ZenonT(60) DEF NamedAs
  <2> QED
    BY <2>1, <2>2, ZenonT(60)
<1>11. ASSUME faults' = 0 PROVE NamesTrue'
  <2>1. \A i, m : LastOfKey(i, m)' <=> LastOfKey(i, m)
    BY <1>1, ZenonT(60) DEF LastOfKey
  <2> QED
    BY <1>1, <1>8, <1>10, <1>11, <2>1, ZenonT(60) DEF NamesTrue
<1>12. EventTrue'
  BY <1>1, <1>3, <1>6, <1>8, <1>9, <1>11 DEF EventTrue
<1>13. FlushTrue'
  BY <1>1, <1>7, FlushSame, ZenonT(60) DEF SetsKept
<1>14. RedisTypes'
  BY <1>1, <1>7, ZenonT(60) DEF RedisTypes
<1> QED
  BY <1>1, <1>12, <1>13, <1>14, ZenonT(60)
-----------------------------------------------------------------------------
(* Every step keeps the invariant *)

StatsInv == TopicTrue /\ SvTrue(sv) /\ RedisTypes /\ FlushTrue /\ EventTrue

\* There is nothing at first.
LEMMA StatsInvInit == Init => StatsInv
<1> SUFFICES ASSUME Init PROVE StatsInv
  BY ZenonT(60)
<1>1. /\ config \in Configs /\ topic = <<>> /\ faults = 0
      /\ redisJob = NoRedisFlush /\ events = <<>> /\ eventJob = NoEvent /\ mining = Empty
      /\ redis = [hash |-> Empty, index |-> Empty]
      /\ Fields \subseteq DOMAIN sv /\ sv.pos = 0 /\ sv.workers = Empty /\ sv.users = Empty
      /\ sv.userWorkerCount = Empty /\ sv.totalWorkers = 0 /\ sv.totalUsers = 0
  BY ZenonT(60) DEF Init, InitLog, InitStats, Fields
<1>2. DOMAIN Empty = {}
  BY ZenonT(60) DEF Empty
<1>3. TopicTrue
  <2>1. topic \in Seq({})
    BY <1>1
  <2> QED
    BY <1>1, <2>1 DEF TopicTrue
<1>4. SvTrue(sv)
  BY <1>1, NoWorkers
<1>5. RedisTypes /\ FlushTrue
  BY <1>1, <1>2, ZenonT(60) DEF RedisTypes, JobTypes, HashesTrue, FlushTrue, NoRedisFlush
<1>6. EventTrue
  <2>1. events \in Seq({}) /\ Len(events) = 0
    BY <1>1
  <2>2. /\ {"from", "done", "phase", "found", "group"} \subseteq DOMAIN eventJob
        /\ eventJob.from = 0 /\ eventJob.done = 0 /\ eventJob.phase = "select"
    BY <1>1, ZenonT(60) DEF NoEvent
  <2>3. NamesTrue
    BY <2>2 DEF NamesTrue
  <2> QED
    BY <1>1, <1>2, <2>1, <2>2, <2>3 DEF EventTrue, RowsTrue
<1> QED
  BY <1>3, <1>4, <1>5, <1>6, ZenonT(60) DEF StatsInv

\* The clock, the share topic, sharelogger and slparser leave statshttpd alone.
LEMMA LogSteps ==
  ASSUME TopicTrue, faults \in Nat,
         NextHour \/ SendShare \/ LoggerNext \/ ParserNext
  PROVE  TopicTrue' /\ FaultsGrow
<1>1. CASE NextHour
  BY <1>1, ZenonT(60) DEF NextHour, TopicTrue, FaultsGrow
<1>2. CASE SendShare
  <2>1. PICK m \in config.kinds, late \in 0 .. config.late :
          topic' = Append(topic, [m EXCEPT !.share = [@ EXCEPT !.time = now - late]])
    BY <1>2, ZenonT(60) DEF SendShare
  <2> DEFINE y == [m EXCEPT !.share = [@ EXCEPT !.time = now - late]]
  <2>2. config' = config /\ faults' = faults /\ config \in Configs
    BY <1>2, ZenonT(60) DEF SendShare, TopicTrue
  <2>3. ShareFields \subseteq DOMAIN y.share
    BY <2>2, StatsAssumption, ZenonT(60) DEF ShareFields
  <2> HIDE DEF y
  <2>4. PICK S : topic \in Seq(S)
    BY ZenonT(60) DEF TopicTrue
  <2>5. topic \in Seq(S \cup {y})
    BY <2>4
  <2>6. topic' = Append(topic, y)
    BY <2>1, ZenonT(60) DEF y
  <2>7. /\ topic' \in Seq(S \cup {y})
        /\ \A i \in DOMAIN topic' : topic'[i] = y \/ (i \in DOMAIN topic /\ topic'[i] = topic[i])
    BY <2>5, <2>6
  <2> QED
    BY <2>2, <2>3, <2>7, ZenonT(60) DEF TopicTrue, FaultsGrow
<1>3. ASSUME config' = config, topic' = topic, faults' = faults \/ Fault
      PROVE  TopicTrue' /\ FaultsGrow
  <2>1. TopicTrue'
    BY <1>3, ZenonT(60) DEF TopicTrue
  <2>2. FaultsGrow
    BY <1>3 DEF FaultsGrow, Fault
  <2> QED
    BY <2>1, <2>2, ZenonT(60)
<1>4. CASE LoggerNext
  <2>1. config' = config /\ topic' = topic /\ (faults' = faults \/ Fault)
    BY <1>4, ZenonT(60) DEF LoggerNext, StartLogger, consumeShareLog, CommitOffset, flushToDisk,
       flushToDiskFails, flushToDiskThrows, ShowPiece, StopLogger, CrashLogger, topicVars
  <2> QED
    BY <1>3, <2>1, ZenonT(60)
<1>5. CASE ParserNext
  <2>1. config' = config /\ topic' = topic
    BY <1>5, ZenonT(60) DEF ParserNext, StartParser, ReadShares, ReadNothing, ReadError, flushToDB,
       flushToDBLater, trySwitchBinFile, NoSwitch, RetryAfterFailedSwitch, StopParser, RerunDay,
       topicVars
  <2>2. faults' = faults \/ Fault
    BY <1>5, ZenonT(60) DEF ParserNext, StartParser, ReadShares, ReadNothing, ReadError, flushToDB,
       flushToDBLater, trySwitchBinFile, NoSwitch, RetryAfterFailedSwitch, StopParser, RerunDay
  <2> QED
    BY <1>3, <2>1, <2>2, ZenonT(60)
<1> QED
  BY <1>1, <1>2, <1>4, <1>5, ZenonT(60)

\* A step that leaves the flush to Redis and the events alone, and no name out
LEMMA StillTrue ==
  ASSUME StatsInv, TopicTrue', FaultsGrow, SvTrue(sv'), sv'.up = sv.up, SetsKept,
         redisJob' = redisJob, redis' = redis, events' = events, eventJob' = eventJob,
         RowsTrue(mining'),
         \A k \in DOMAIN mining : k \in DOMAIN mining' /\ mining'[k].name = mining[k].name
  PROVE  StatsInv'
<1>1. FlushTrue'
  BY FlushSame, ZenonT(60) DEF StatsInv
<1>2. RedisTypes'
  BY ZenonT(60) DEF RedisTypes, StatsInv
<1>3. NamesKept
  BY ZenonT(60) DEF NamesKept
<1>4. EventTrue'
  BY <1>3, EventsSame, ZenonT(60) DEF StatsInv
<1> QED
  BY <1>1, <1>2, <1>4, ZenonT(60) DEF StatsInv

\* A share that is consumed
LEMMA ShareProcessed ==
  ASSUME NEW v, SvTrue(v), NEW s, ShareFields \subseteq DOMAIN s, s.worker # 0
  PROVE  SvTrue(processStatsShare(v, s)) /\ processStatsShare(v, s).up = v.up
<1> DEFINE c == Checked(v.dups, s)
           d == IF config.dupCheck THEN addGShare(v.dups, s.height, s.id) ELSE v.dups
           seen == [v EXCEPT !.lastShareTime = s.time, !.dups = d]
<1>1. c.worker # 0
  BY ZenonT(60) DEF Checked, ShareFields
<1>2. /\ Fields \subseteq DOMAIN seen /\ seen.up = v.up /\ seen.pos = v.pos /\ v.pos \in Nat
      /\ seen.workers = v.workers /\ seen.users = v.users
      /\ seen.totalWorkers = v.totalWorkers /\ seen.totalUsers = v.totalUsers
      /\ seen.userWorkerCount = v.userWorkerCount
  BY ZenonT(60) DEF SvTrue, Fields
<1>3. processStatsShare(v, s) \in {seen, Processed(seen, c)}
  BY ZenonT(60) DEF processStatsShare
<1> HIDE DEF c, seen
<1>4. SvTrue(seen)
  BY <1>2, SameSv, ZenonT(60)
<1> QED
  BY <1>1, <1>2, <1>3, <1>4, ProcessedKeeps
\* A message that is consumed, whether it counts or not
LEMMA ConsumeKeeps ==
  ASSUME StatsInv, consumeStatsShare
  PROVE  SvTrue(sv') /\ sv'.up = sv.up
<1> DEFINE s == Consumed(topic[sv.pos + 1])
           v == IF s = None THEN sv ELSE processStatsShare(sv, s)
           w == [v EXCEPT !.pos = @ + 1]
<1>1. sv' = AfterMessage(w) /\ sv.pos < Len(topic)
  BY ZenonT(60) DEF consumeStatsShare
<1>2. SvTrue(v) /\ v.up = sv.up
  <2>1. CASE s = None
    BY <2>1, ZenonT(60) DEF StatsInv
  <2>2. CASE s # None
    <3>1. sv.pos + 1 \in DOMAIN topic
      BY <1>1 DEF StatsInv, TopicTrue, SvTrue
    <3>2. ShareFields \subseteq DOMAIN s /\ s.worker # 0
      BY <2>2, <3>1, ConsumedShare, ZenonT(60) DEF StatsInv, TopicTrue
    <3> QED
      BY <2>2, <3>2, ShareProcessed, ZenonT(60) DEF StatsInv
  <2> QED
    BY <2>1, <2>2, ZenonT(60)
<1> HIDE DEF v
<1>3. /\ Fields \subseteq DOMAIN sv' /\ sv'.up = v.up /\ sv'.pos \in Nat
      /\ sv'.workers = v.workers /\ sv'.users = v.users
      /\ sv'.totalWorkers = v.totalWorkers /\ sv'.totalUsers = v.totalUsers
      /\ sv'.userWorkerCount = v.userWorkerCount
  BY <1>1, <1>2 DEF SvTrue, Fields, AfterMessage
<1> QED
  BY <1>2, <1>3, SameSv, ZenonT(60)
\* The sets of workers and users change: nothing is claimed of the flush any more.
LEMMA SetsChange ==
  ASSUME StatsInv, consumeStatsShare \/ CleanExpired
  PROVE  StatsInv'
<1>1. /\ config' = config /\ topic' = topic /\ faults' = faults /\ redis' = redis
      /\ events' = events /\ eventJob' = eventJob /\ mining' = mining /\ SetChanged
  BY ZenonT(60) DEF consumeStatsShare, CleanExpired, logVars, topicVars
<1>2. SvTrue(sv') /\ sv'.up = sv.up
  BY ConsumeKeeps, RemovedKeeps, ZenonT(60) DEF StatsInv, CleanExpired
<1>3. TopicTrue' /\ FaultsGrow /\ RowsTrue(mining)
  BY <1>1, ZenonT(60) DEF StatsInv, TopicTrue, FaultsGrow, EventTrue
<1>4. CASE NeedsWriteLock(sv')
  <2>1. redisJob' = [redisJob EXCEPT !.workers = {}]
    BY <1>1, <1>4, ZenonT(60) DEF SetChanged
  <2>2. JobTypes(redisJob') /\ redisJob'.workers = {}
    BY <2>1, ZenonT(60) DEF StatsInv, RedisTypes, JobTypes
  <2>3. RedisTypes' /\ FlushTrue'
    BY <1>1, <2>2, ZenonT(60) DEF StatsInv, RedisTypes, FlushTrue
  <2>4. EventTrue'
    BY <1>1, <1>3, EventsSame, ZenonT(60) DEF StatsInv, NamesKept
  <2> QED
    BY <1>2, <1>3, <2>3, <2>4, ZenonT(60) DEF StatsInv
<1>5. CASE ~NeedsWriteLock(sv')
  <2>1. SetsKept /\ redisJob' = redisJob
    BY <1>1, <1>5, ZenonT(60) DEF NeedsWriteLock, SetsKept, SetChanged
  <2> QED
    BY <1>1, <1>2, <1>3, <2>1, StillTrue, ZenonT(60)
<1> QED
  BY <1>4, <1>5, ZenonT(60)

\* A start or a stop: the databases stay, the rest is new.
LEMMA StartAndStop ==
  ASSUME StatsInv, StartStats \/ StopStats
  PROVE  StatsInv'
<1>1. /\ config' = config /\ topic' = topic /\ faults' = faults /\ redis' = redis
      /\ events' = events /\ mining' = mining
  BY ZenonT(60) DEF StartStats, StopStats, logVars, topicVars
<1>2. TopicTrue' /\ faults' \in Nat /\ RowsTrue(mining')
  BY <1>1, ZenonT(60) DEF StatsInv, TopicTrue, EventTrue
<1>3. JobTypes(redisJob') /\ redisJob'.workers = {}
  <2>1. CASE StartStats
    BY <2>1, ZenonT(60) DEF StartStats, StatsInv, RedisTypes
  <2>2. CASE StopStats
    BY <2>2, ZenonT(60) DEF StopStats, NoRedisFlush, Empty, JobTypes
  <2> QED
    BY <2>1, <2>2, ZenonT(60)
<1>4. RedisTypes' /\ FlushTrue'
  BY <1>1, <1>3, ZenonT(60) DEF StatsInv, RedisTypes, FlushTrue
<1>5. PICK S : events \in Seq(S)
  BY ZenonT(60) DEF StatsInv, EventTrue
<1>6. Len(events) \in Nat
  BY <1>5
<1>7. /\ {"from", "done", "phase", "found", "group"} \subseteq DOMAIN eventJob'
      /\ eventJob'.from \in Nat /\ eventJob'.done = eventJob'.from
      /\ eventJob'.done <= Len(events) /\ eventJob'.phase = "select"
  <2>1. CASE StartStats
    <3> DEFINE m == Max({0, Len(events) - TailEvents})
    <3>1. m \in Nat /\ m <= Len(events)
      BY <1>6, StatsAssumption, MaxZero
    <3>2. eventJob' = [NoEvent EXCEPT !.from = m, !.done = m]
      BY <2>1, ZenonT(60) DEF StartStats
    <3> HIDE DEF m
    <3> QED
      BY <3>1, <3>2, ZenonT(60) DEF NoEvent
  <2>2. CASE StopStats
    BY <1>6, <2>2 DEF StopStats, NoEvent
  <2> QED
    BY <2>1, <2>2, ZenonT(60)
<1>8. NamesTrue'
  BY <1>7 DEF NamesTrue
<1>9. EventTrue'
  BY <1>1, <1>2, <1>5, <1>7, <1>8, ZenonT(60) DEF EventTrue
<1>10. SvTrue(sv')
  <2>1. CASE StartStats
    <3>1. /\ Fields \subseteq DOMAIN sv' /\ sv'.pos = Max({0, Len(topic) - TailOffset})
          /\ sv'.workers = Empty /\ sv'.users = Empty /\ sv'.userWorkerCount = Empty
          /\ sv'.totalWorkers = 0 /\ sv'.totalUsers = 0
      BY <2>1, ZenonT(60) DEF StartStats, Fields
    <3>2. Len(topic) \in Nat
      BY DEF StatsInv, TopicTrue
    <3>3. sv'.pos \in Nat
      BY <3>1, <3>2, MaxZero, StatsAssumption
    <3> QED
      BY <3>1, <3>3, NoWorkers, ZenonT(60)
  <2>2. CASE StopStats
    <3>1. sv' = [sv EXCEPT !.up = FALSE] /\ SvTrue(sv)
      BY <2>2, ZenonT(60) DEF StopStats, StatsInv
    <3>2. /\ Fields \subseteq DOMAIN sv' /\ sv'.pos = sv.pos /\ sv.pos \in Nat
          /\ sv'.workers = sv.workers /\ sv'.users = sv.users
          /\ sv'.totalWorkers = sv.totalWorkers /\ sv'.totalUsers = sv.totalUsers
          /\ sv'.userWorkerCount = sv.userWorkerCount
      BY <3>1, ZenonT(60) DEF SvTrue, Fields
    <3> QED
      BY <3>1, <3>2, SameSv, ZenonT(60)
  <2> QED
    BY <2>1, <2>2, ZenonT(60)
<1> QED
  BY <1>2, <1>4, <1>9, <1>10, ZenonT(60) DEF StatsInv
\* The steps of the server that change no set of workers or users
LEMMA ServerKeeps ==
  ASSUME StatsInv,
         \/ InitializationTimesOut \/ AskForUser \/ flushToMiningWorkers \/ FlushUsers
         \/ MergeToMiningWorkers \/ MergeFails
  PROVE  StatsInv'
<1>1. /\ config' = config /\ topic' = topic /\ redisJob' = redisJob /\ redis' = redis
      /\ events' = events /\ eventJob' = eventJob /\ (faults' = faults \/ Fault)
  BY ZenonT(60) DEF InitializationTimesOut, AskForUser, flushToMiningWorkers, FlushUsers,
         MergeToMiningWorkers, MergeFails, logVars, topicVars
<1>2. TopicTrue' /\ FaultsGrow
  BY <1>1 DEF StatsInv, TopicTrue, FaultsGrow, EventTrue, Fault
<1>3. SvTrue(sv) /\ Fields \subseteq DOMAIN sv /\ sv.pos \in Nat
  BY ZenonT(60) DEF StatsInv, SvTrue
<1>4. SvTrue(sv') /\ sv'.up = sv.up /\ SetsKept
  <2>1. CASE AskForUser
    <3>1. PICK u : /\ u \notin DOMAIN sv.userWorkerCount
                   /\ sv' = [sv EXCEPT !.userWorkerCount = Put(@, u, 0)]
      BY <2>1, ZenonT(60) DEF AskForUser
    <3>2. /\ Fields \subseteq DOMAIN sv' /\ sv'.pos = sv.pos /\ sv'.up = sv.up
          /\ sv'.workers = sv.workers /\ sv'.users = sv.users
          /\ sv'.totalWorkers = sv.totalWorkers /\ sv'.totalUsers = sv.totalUsers
          /\ sv'.userWorkerCount = Put(sv.userWorkerCount, u, 0)
      BY <1>3, <3>1, ZenonT(60) DEF Fields
    <3>3. CountsTrue(sv'.userWorkerCount, DOMAIN sv.workers)
      BY <1>3, <3>1, <3>2, ZeroCounts, ZenonT(60) DEF SvTrue
    <3> QED
      BY <1>3, <3>2, <3>3, ZenonT(60) DEF SvTrue, SetsKept
  <2>2. CASE ~AskForUser
    <3>1. \/ sv' = sv
          \/ \E x : sv' = [sv EXCEPT !.initializing = x]
          \/ \E x : sv' = [sv EXCEPT !.lastFlush = x]
      BY <2>2, ZenonT(60) DEF InitializationTimesOut, flushToMiningWorkers, FlushUsers,
         MergeToMiningWorkers, MergeFails
    <3>2. /\ Fields \subseteq DOMAIN sv' /\ sv'.pos = sv.pos /\ sv'.up = sv.up
          /\ sv'.workers = sv.workers /\ sv'.users = sv.users
          /\ sv'.totalWorkers = sv.totalWorkers /\ sv'.totalUsers = sv.totalUsers
          /\ sv'.userWorkerCount = sv.userWorkerCount
      BY <1>3, <3>1, ZenonT(60) DEF Fields
    <3>3. SvTrue(sv')
      BY <1>3, <3>2, SameSv, ZenonT(60)
    <3> QED
      BY <3>2, <3>3, ZenonT(60) DEF SetsKept
  <2> QED
    BY <2>1, <2>2, ZenonT(60)
<1>5. RowsTrue(mining)
  BY ZenonT(60) DEF StatsInv, EventTrue
<1>6. /\ RowsTrue(mining')
      /\ \A k \in DOMAIN mining : k \in DOMAIN mining' /\ mining'[k].name = mining[k].name
  <2>1. CASE MergeToMiningWorkers
    <3> DEFINE v == dbJob.values
               f == [k \in DOMAIN v |-> [At(mining, k, NewRow(k)) EXCEPT !.sums = v[k]]]
    <3>1. mining' = Over(f, mining)
      BY <2>1, ZenonT(60) DEF MergeToMiningWorkers, MergeRows
    <3>2. \A k : {"sums", "name", "group"} \subseteq DOMAIN At(mining, k, NewRow(k))
      BY <1>5, ZenonT(60) DEF RowsTrue, At, NewRow
    <3>3. \A k \in DOMAIN f : /\ {"sums", "name", "group"} \subseteq DOMAIN f[k]
                              /\ k \in DOMAIN mining => f[k].name = mining[k].name
      BY <3>2, ZenonT(60) DEF At
    <3> HIDE DEF f
    <3> QED
      BY <1>5, <3>1, <3>3, ZenonT(60) DEF Over, RowsTrue
  <2>2. CASE ~MergeToMiningWorkers
    <3>1. mining' = mining
      BY <2>2, ZenonT(60) DEF InitializationTimesOut, AskForUser, flushToMiningWorkers, FlushUsers,
         MergeFails
    <3> QED
      BY <1>5, <3>1, ZenonT(60)
  <2> QED
    BY <2>1, <2>2, ZenonT(60)
<1> QED
  BY <1>1, <1>2, <1>4, <1>6, StillTrue, ZenonT(60)

\* The threads of the flush to Redis
LEMMA RedisKeeps ==
  ASSUME StatsInv, RedisNext
  PROVE  StatsInv'
<1>1. /\ config' = config /\ topic' = topic /\ events' = events /\ eventJob' = eventJob
      /\ mining' = mining /\ (faults' = faults \/ Fault)
  BY ZenonT(60) DEF RedisNext, flushToRedis, ReadWorkers, flushWorkersToRedis, flushIndexToRedis,
     ReadUsers, flushUsersToRedis, checkRedisFails, CommandsFail, logVars, topicVars
<1>2. TopicTrue' /\ FaultsGrow
  BY <1>1 DEF StatsInv, TopicTrue, FaultsGrow, EventTrue, Fault
<1>3. /\ SvTrue(sv) /\ RedisTypes /\ FlushTrue /\ EventTrue /\ RowsTrue(mining)
      /\ HashesTrue(redis.hash) /\ {"hash", "index"} \subseteq DOMAIN redis
  BY ZenonT(60) DEF StatsInv, EventTrue, RedisTypes
<1>4. CASE flushToRedis
  <2>1. RedisTypes' /\ FlushTrue' /\ sv' = sv /\ redis' = redis
    BY <1>3, <1>4, FlushStarts, ZenonT(60)
  <2>2. EventTrue'
    BY <1>1, <1>2, <1>3, <2>1, EventsSame, ZenonT(60) DEF NamesKept
  <2> QED
    BY <1>2, <1>3, <2>1, <2>2, ZenonT(60) DEF StatsInv
<1>5. ASSUME NEW t \in DOMAIN redisJob.steps,
             \/ ReadWorkers(t) \/ flushWorkersToRedis(t) \/ flushIndexToRedis(t)
             \/ ReadUsers(t) \/ flushUsersToRedis(t)
             \/ checkRedisFails(t) \/ CommandsFail(t)
      PROVE  StatsInv'
  <2>1. RedisTypes' /\ FlushTrue' /\ SvTrue(sv')
    BY <1>3, <1>5, WorkersReadKeeps, WorkersWrittenKeeps, IndexWrittenKeeps, UsersReadKeeps,
       UsersWrittenKeeps, FlushFails, ZenonT(60)
  <2>2. \A k \in DOMAIN redis.hash :
          k \in DOMAIN redis'.hash /\ redis'.hash[k].name = redis.hash[k].name
    <3>1. CASE flushWorkersToRedis(t) \/ flushUsersToRedis(t)
      <4>1. redis' = [redis EXCEPT !.hash = Over(Hashes(ValuesOf(t)), @)]
        BY <3>1, ZenonT(60) DEF flushWorkersToRedis, flushUsersToRedis
      <4> QED
        BY <1>3, <4>1, HashesWritten, ZenonT(60)
    <3>2. CASE ~(flushWorkersToRedis(t) \/ flushUsersToRedis(t))
      <4>1. redis'.hash = redis.hash
        BY <1>3, <1>5, <3>2, WorkersReadKeeps, IndexWrittenKeeps, UsersReadKeeps, FlushFails, ZenonT(60)
      <4> QED
        BY <4>1, ZenonT(60)
    <3> QED
      BY <3>1, <3>2, ZenonT(60)
  <2>3. EventTrue'
    BY <1>1, <1>2, <1>3, <2>2, EventsSame, ZenonT(60) DEF NamesKept
  <2> QED
    BY <1>2, <2>1, <2>3, ZenonT(60) DEF StatsInv
<1> QED
  BY <1>4, <1>5, ZenonT(60) DEF RedisNext

\* The events, and the thread that consumes them
LEMMA EventsKeep ==
  ASSUME StatsInv,
         \/ SendEvent \/ IgnoreEvent \/ SelectGroup
         \/ updateWorkerStatus \/ updateWorkerStatusFails
  PROVE  StatsInv'
<1>1. config' = config /\ topic' = topic
  BY ZenonT(60) DEF SendEvent, IgnoreEvent, SelectGroup, updateWorkerStatus,
     updateWorkerStatusFails, logVars, topicVars
<1>2. TopicTrue'
  BY <1>1, ZenonT(60) DEF StatsInv, TopicTrue
<1>3. SvTrue(sv) /\ RedisTypes /\ FlushTrue /\ EventTrue
  BY ZenonT(60) DEF StatsInv
<1>4. EventTrue'
  BY <1>3, EventSent, EventIgnored, EventSelected, EventUpdated, ZenonT(60)
<1>5. RedisTypes' /\ FlushTrue' /\ sv' = sv
  <2>1. CASE SendEvent \/ IgnoreEvent \/ SelectGroup
    <3>1. sv' = sv /\ redisJob' = redisJob /\ redis' = redis
      BY <2>1, ZenonT(60) DEF SendEvent, IgnoreEvent, SelectGroup
    <3>2. FlushTrue'
      BY <1>3, <3>1, FlushSame, ZenonT(60) DEF SetsKept
    <3> QED
      BY <1>3, <3>1, <3>2, ZenonT(60) DEF RedisTypes
  <2>2. CASE updateWorkerStatus \/ updateWorkerStatusFails
    BY <1>3, <2>2, EventUpdated, ZenonT(60)
  <2> QED
    BY <2>1, <2>2, ZenonT(60)
<1> QED
  BY <1>2, <1>3, <1>4, <1>5, ZenonT(60) DEF StatsInv

\* Every step keeps the invariant.
LEMMA StatsInvNext ==
  ASSUME StatsInv, [Next]_vars
  PROVE  StatsInv'
<1>1. CASE (NextHour \/ SendShare \/ LoggerNext \/ ParserNext) /\ UNCHANGED statsVars
  <2>1. TopicTrue' /\ FaultsGrow
    BY <1>1, LogSteps, ZenonT(60) DEF StatsInv, EventTrue
  <2>2. /\ sv' = sv /\ redisJob' = redisJob /\ redis' = redis /\ events' = events
        /\ eventJob' = eventJob /\ mining' = mining
    BY <1>1, ZenonT(60) DEF statsVars
  <2>3. SvTrue(sv') /\ SetsKept /\ RowsTrue(mining)
    BY <2>2, ZenonT(60) DEF StatsInv, EventTrue, SetsKept
  <2> QED
    BY <2>1, <2>2, <2>3, StillTrue, ZenonT(60)
<1>2. CASE StatsNext
  BY <1>2, SetsChange, StartAndStop, ServerKeeps, RedisKeeps, EventsKeep, ZenonT(60) DEF StatsNext
<1>3. CASE UNCHANGED vars
  <2>1. /\ sv' = sv /\ redisJob' = redisJob /\ redis' = redis /\ events' = events
        /\ eventJob' = eventJob /\ mining' = mining
        /\ config' = config /\ topic' = topic /\ faults' = faults
    BY <1>3, ZenonT(60) DEF vars, statsVars, logVars, topicVars
  <2>2. TopicTrue' /\ FaultsGrow /\ SvTrue(sv') /\ SetsKept /\ RowsTrue(mining)
    BY <2>1, ZenonT(60) DEF StatsInv, TopicTrue, FaultsGrow, EventTrue, SetsKept
  <2> QED
    BY <2>1, <2>2, StillTrue, ZenonT(60)
<1> QED
  BY <1>1, <1>2, <1>3, ZenonT(60) DEF Next

-----------------------------------------------------------------------------
(* What the statistics show *)

\* Every state of the statistics satisfies the invariant: the counters, what each
\* thread of a flush to Redis has read and written, and the names of the events
\* that were consumed.
THEOREM StatsSafe == Spec => []StatsInv
<1>1. Init => StatsInv
  BY StatsInvInit, ZenonT(60)
<1>2. StatsInv /\ [Next]_vars => StatsInv'
  BY StatsInvNext, ZenonT(60)
<1> QED
  BY <1>1, <1>2, PTL DEF Spec

\* The counters of workers, of users and of a user's workers are those of the sets,
\* for any number of workers that come, expire and come back (_processShare(),
\* removeExpiredWorkers()).
THEOREM CountersAreTrue == Spec => []CountersTrue
<1>1. StatsInv => CountersTrue
  BY ZenonT(60) DEF StatsInv, SvTrue, CountersTrue, CountsTrue, WorkersOf, WorkersIn
<1> QED
  BY <1>1, StatsSafe, PTL

\* A worker has the name of its last event, in the table and in Redis, when the events
\* are consumed and no statement has failed.
THEOREM WorkersNamedLatest == Spec => []NamesAreLatest
<1>1. StatsInv => NamesAreLatest
  BY ZenonT(60) DEF StatsInv, EventTrue, NamesAreLatest, NamesTrue
<1> QED
  BY <1>1, StatsSafe, PTL

\* A flush to Redis leaves no worker out, whatever the number of threads, and the
\* hashes, the indexes and the counts of what it has written agree.
THEOREM RedisFlushed == Spec => []RedisAgrees
<1>1. ASSUME StatsInv, redisJob.steps = Empty, NEW k \in redisJob.workers
      PROVE  /\ {k, <<k[1], 0>>} \subseteq DOMAIN redis.hash
             /\ k \in DOMAIN redis.index /\ redis.index[k] = redis.hash[k].status
             /\ redis.hash[<<k[1], 0>>].count
                  = Cardinality({j \in redisJob.workers : j[1] = k[1]})
  <2>1. /\ redisJob.workers = {j \in DOMAIN sv.workers : j[1] \in DOMAIN sv.users}
        /\ \A s \in Threads : ThreadTrue(s)
    BY <1>1, ZenonT(60) DEF StatsInv, FlushTrue
  <2>2. \A s : s \notin DOMAIN redisJob.steps
    BY <1>1, ZenonT(60) DEF Empty
  <2>3. IsFiniteSet(DOMAIN sv.workers) /\ IsFiniteSet(DOMAIN sv.users)
    BY <1>1, ZenonT(60) DEF StatsInv, SvTrue
  <2>4. PICK s \in Threads : k \in Slice(sv.workers, s)
    BY <1>1, <2>1, <2>3, SliceFacts, ZenonT(60)
  <2>5. PICK t \in Threads : k[1] \in Slice(sv.users, t)
    BY <1>1, <2>1, <2>3, SliceFacts, ZenonT(60)
  <2>6. Indexed(k) /\ Counted(k[1])
    BY <2>1, <2>2, <2>4, <2>5, ZenonT(60) DEF ThreadTrue
  <2>7. WorkersOf(k[1]) = {j \in redisJob.workers : j[1] = k[1]}
    BY <1>1, <2>1, ZenonT(60) DEF WorkersOf
  <2> QED
    BY <2>6, <2>7, ZenonT(60) DEF Indexed, Counted
<1>2. StatsInv => RedisAgrees
  BY <1>1, ZenonT(60) DEF RedisAgrees
<1> QED
  BY <1>2, StatsSafe, PTL
=============================================================================
