-------------------------- MODULE CoinSharesProofs --------------------------
(***************************************************************************)
(* That no share is credited and no solution sent twice, proved for every  *)
(* coin of CoinShares and any number of jobs, shares and share workers.    *)
(*                                                                         *)
(* A share is refused as a duplicate by what its local job has seen, and a *)
(* local job does not last: a clean job drops all but the last ones, and   *)
(* the same work may be sent again under another job. The invariant says   *)
(* of every share that was credited, sent or is being verified that it is  *)
(* spent: its session has ended, or has the share among those seen by      *)
(* every local job of that work, or was given that work and will not be    *)
(* given it again. That a local job which is dropped is not needed any     *)
(* more rests on the order of the local jobs, which is that of the jobs    *)
(* they were made for, and on ComesBackSoon of the configuration: content  *)
(* does not come back after as many other contents as local jobs are kept. *)
(* Decred and Bytom make a local job with a number of its own of each      *)
(* notification, and need no such premise.                                 *)
(*                                                                         *)
(* A share of Ethereum is spent when it is submitted and credited when its *)
(* verification comes back; in between it is in one queue or the other,    *)
(* once.                                                                   *)
(***************************************************************************)
EXTENDS CoinShares, WellFoundedInduction, TLAPS

\* The time that each prover has for a step that names none
USE SMTT(40), Z3T(60), ZenonT(60)

-----------------------------------------------------------------------------
(* The invariant of the shares *)
IsSequence(q) == \E S : q \in Seq(S)

\* What the steps leave of the configuration as it is
Fixed(conf) == [coin |-> conf.coin, jobs |-> conf.jobs]

BySerial(fix) == fix.coin \in {"decred", "bytom"}

Work(fix, l) == IF BySerial(fix) THEN l.serial ELSE l.key

Content(fix, j) == ContentOf(fix, j)

\* The contents of the local jobs are those of jobs in the order of the jobs.
InOrder(fix, next, local) ==
  \E f \in [DOMAIN local -> 1 .. next - 1] :
    /\ \A i, k \in DOMAIN local : i < k => f[i] < f[k]
    /\ \A i \in DOMAIN local : local[i].key = Content(fix, f[i])

MineTrue(fix, next, m) ==
  /\ {"authenticated", "alive", "local", "serial", "bad"} \subseteq DOMAIN m
  /\ IsSequence(m.local)
  /\ m.serial \in Nat
  /\ \A i \in DOMAIN m.local :
       /\ {"key", "id", "serial", "seen", "diffs", "diff"} \subseteq DOMAIN m.local[i]
       /\ m.local[i].serial \in 0 .. m.serial - 1
  /\ \A i, k \in DOMAIN m.local : Work(fix, m.local[i]) = Work(fix, m.local[k]) => i = k
  /\ ~BySerial(fix) => InOrder(fix, next, m.local)

\* The jobs of the repository: the last one is known as long as any is.
JobsTrue(conf, s) ==
  /\ {"next", "known", "stale", "clean", "lastHeight"} \subseteq DOMAIN s
  /\ s.next \in 1 .. Len(conf.jobs) + 1
  /\ s.known \subseteq 1 .. s.next - 1
  /\ s.known # {} => s.next - 1 \in s.known

\* Work that the session was given: it still has the local job, or the work does
\* not come again.
Given(fix, next, m, w) ==
  IF BySerial(fix) THEN w \in 0 .. m.serial - 1
  ELSE \/ \E i \in DOMAIN m.local : m.local[i].key = w
       \/ \A j \in DOMAIN fix.jobs : j >= next - 1 => Content(fix, j) # w

\* A nonce that will not be taken as a share of this work again
Spent(fix, next, m, w, nonce) ==
  m.alive => /\ Given(fix, next, m, w)
             /\ \A i \in DOMAIN m.local : Work(fix, m.local[i]) = w => nonce \in m.local[i].seen

Sent(t, w, nonce) == \E i \in DOMAIN t.solved : t.solved[i] = <<w, nonce>>

IsSolution(fix, a) ==
  \/ a.status \in {"SOLVED", "SOLVED_STALE"}
  \/ fix.coin = "decred" /\ a.status \in {"ACCEPT", "LOW_DIFFICULTY"} /\ a.reach >= fix.jobs[a.job].net

\* What a share that is logged says of its work
EntryTrue(fix, a) ==
  /\ {"content", "work", "job", "nonce", "status", "diff", "reach"} \subseteq DOMAIN a
  /\ fix.coin \in ByContent => a.content = a.work

SharesTrue(fix, next, m, t) ==
  /\ {"shares", "solved"} \subseteq DOMAIN t
  /\ IsSequence(t.shares) /\ IsSequence(t.solved)
  /\ \A i \in DOMAIN t.shares :
       LET a == t.shares[i] IN
       /\ EntryTrue(fix, a)
       /\ Accepted(a.status) => Spent(fix, next, m, a.work, a.nonce)
       /\ IsSolution(fix, a) => Sent(t, a.work, a.nonce)
  /\ \A i, k \in DOMAIN t.shares :
       LET a == t.shares[i] b == t.shares[k] IN
       /\ Accepted(a.status) /\ Accepted(b.status)
       /\ a.work = b.work /\ a.nonce = b.nonce
       => i = k

SolvedTrue(fix, next, m, t) ==
  /\ \A w, nonce : Sent(t, w, nonce) => Spent(fix, next, m, w, nonce)
  /\ \A i, k \in DOMAIN t.solved : t.solved[i] = t.solved[k] => i = k

SameShare(fix, c, d) == Work(fix, c.l) = Work(fix, d.l) /\ c.x.nonce = d.x.nonce

\* The shares that are being verified are not credited yet, each is there once, and
\* those of the "preliminary" solutions were sent.
ChecksTrue(fix, next, m, cs, t) ==
  /\ \A c \in cs :
       /\ fix.coin = "eth"
       /\ {"l", "x", "preliminary", "stale"} \subseteq DOMAIN c
       /\ Spent(fix, next, m, Work(fix, c.l), c.x.nonce)
       /\ c.preliminary <=> Sent(t, Work(fix, c.l), c.x.nonce)
       /\ \A i \in DOMAIN t.shares :
            Accepted(t.shares[i].status) =>
              Work(fix, c.l) # t.shares[i].work \/ c.x.nonce # t.shares[i].nonce
  /\ \A c, d \in cs : SameShare(fix, c, d) => c = d

ReturnsTrue(fix, next, m, cs, rs, t) ==
  /\ IsSequence(rs)
  /\ \A i \in DOMAIN rs :
       LET c == rs[i].c IN
       /\ fix.coin = "eth"
       /\ Spent(fix, next, m, Work(fix, c.l), c.x.nonce)
       /\ rs[i].r.status \in {"SOLVED", "SOLVED_STALE"} => Sent(t, Work(fix, c.l), c.x.nonce)
       /\ \A k \in DOMAIN t.shares :
            Accepted(t.shares[k].status) =>
              Work(fix, c.l) # t.shares[k].work \/ c.x.nonce # t.shares[k].nonce
       /\ \A d \in cs : ~SameShare(fix, c, d)
  /\ \A i, k \in DOMAIN rs : SameShare(fix, rs[i].c, rs[k].c) => i = k

Evidence(fix, next, m, cs, rs, t) ==
  /\ SharesTrue(fix, next, m, t)
  /\ SolvedTrue(fix, next, m, t)
  /\ ChecksTrue(fix, next, m, cs, t)
  /\ ReturnsTrue(fix, next, m, cs, rs, t)

\* The length and the domain of a sequence.
LEMMA SequenceFacts ==
  ASSUME NEW q, IsSequence(q)
  PROVE  Len(q) \in Nat /\ DOMAIN q = 1 .. Len(q)
BY DEF IsSequence

\* What Append() leaves, and what it adds.
LEMMA AppendFacts ==
  ASSUME NEW q, IsSequence(q), NEW e
  PROVE  /\ IsSequence(Append(q, e))
         /\ Len(q) \in Nat /\ DOMAIN q = 1 .. Len(q)
         /\ DOMAIN Append(q, e) = 1 .. Len(q) + 1
         /\ \A i \in 1 .. Len(q) : Append(q, e)[i] = q[i]
         /\ Append(q, e)[Len(q) + 1] = e
<1>1. PICK S : q \in Seq(S)
  BY ZenonT(60) DEF IsSequence
<1>2. q \in Seq(S \cup {e}) /\ e \in S \cup {e}
  BY <1>1
<1>3. Append(q, e) \in Seq(S \cup {e})
  BY <1>2
<1>4. QED
  BY <1>2, <1>3 DEF IsSequence

\* The last n of a sequence.
LEMMA LastFacts ==
  ASSUME NEW q, IsSequence(q), NEW n \in Nat, n <= Len(q)
  PROVE  LET r == SubSeq(q, Len(q) - n + 1, Len(q)) IN
         /\ IsSequence(r) /\ Len(r) = n /\ DOMAIN r = 1 .. n
         /\ \A i \in 1 .. n : r[i] = q[Len(q) - n + i]
<1> DEFINE a == Len(q) - n + 1
           b == Len(q)
           r == SubSeq(q, a, b)
<1>1. PICK S : q \in Seq(S)
  BY ZenonT(60) DEF IsSequence
<1>2. a \in Int /\ b \in Int /\ b \in Nat /\ DOMAIN q = 1 .. b
  BY <1>1
<1>3. \A i \in a .. b : q[i] \in S
  <2> TAKE i \in a .. b
  <2>1. i \in 1 .. Len(q)
    BY <1>2
  <2>2. QED
    BY <1>1, <2>1
<1>4. /\ r \in Seq(S) /\ Len(r) = IF a <= b THEN b - a + 1 ELSE 0
      /\ \A i \in 1 .. b - a + 1 : r[i] = q[a + i - 1]
  <2> HIDE DEF a, b
  <2>1. QED
    BY <1>2, <1>3
<1>5. Len(r) = n /\ b - a + 1 = n /\ \A i \in 1 .. n : a + i - 1 = Len(q) - n + i
  BY <1>2, <1>4
<1> HIDE DEF r, a, b
<1>6. /\ IsSequence(r) /\ Len(r) = n /\ DOMAIN r = 1 .. n
      /\ \A i \in 1 .. n : r[i] = q[Len(q) - n + i]
  BY <1>4, <1>5 DEF IsSequence
<1>7. QED
  BY <1>6, ZenonT(60) DEF r, a, b

\* The fixed part of a configuration has its coin, its jobs and their contents.
LEMMA FixedFacts ==
  ASSUME NEW conf
  PROVE  /\ Fixed(conf).coin = conf.coin /\ Fixed(conf).jobs = conf.jobs
         /\ \A j : Content(Fixed(conf), j) = ContentOf(conf, j)
BY ZenonT(60) DEF Fixed, Content, ContentOf

\* The work of a local job that is dropped does not come again: the local jobs that
\* came after it are of so many other contents that content which comes back soon
\* cannot be this one's.
LEMMA DroppedIsPast ==
  ASSUME NEW conf, ShareConf(conf), ComesBackSoon(conf), NEW next \in 1 .. Len(conf.jobs) + 1, NEW local,
         IsSequence(local),
         \A i, k \in DOMAIN local : local[i].key = local[k].key => i = k,
         InOrder(Fixed(conf), next, local),
         NEW n \in Nat, n >= conf.keepLocal, NEW p \in DOMAIN local, p + n <= Len(local),
         NEW j \in DOMAIN conf.jobs, j >= next - 1
  PROVE  ContentOf(conf, j) # local[p].key
<1> SUFFICES ASSUME ContentOf(conf, j) = local[p].key PROVE FALSE
  BY ZenonT(60)
<1>1. PICK f \in [DOMAIN local -> 1 .. next - 1] :
        /\ \A i, k \in DOMAIN local : i < k => f[i] < f[k]
        /\ \A i \in DOMAIN local : local[i].key = ContentOf(conf, f[i])
  BY FixedFacts, ZenonT(60) DEF InOrder
<1>2. /\ Len(local) \in Nat /\ DOMAIN local = 1 .. Len(local)
      /\ Len(conf.jobs) \in Nat /\ DOMAIN conf.jobs = 1 .. Len(conf.jobs)
      /\ conf.keepLocal \in Nat /\ conf.keepLocal >= 1
  BY SequenceFacts DEF ShareConf
<1>3. \A t \in 1 .. conf.keepLocal : p + t \in DOMAIN local /\ p < p + t
  BY <1>2
<1> DEFINE i == f[p]
           g == [t \in 1 .. conf.keepLocal |-> f[p + t]]
<1>4. i \in 1 .. next - 1 /\ i <= j /\ i \in DOMAIN conf.jobs /\ ContentOf(conf, i) = local[p].key
  BY <1>1, <1>2
<1>5. ASSUME NEW t \in 1 .. conf.keepLocal
      PROVE  f[p + t] \in i .. j /\ f[p + t] > i
  <2>1. p + t \in DOMAIN local /\ f[p + t] \in 1 .. next - 1 /\ i < f[p + t]
    BY <1>1, <1>3, ZenonT(60)
  <2>2. QED
    BY <2>1, <1>2, <1>4
<1>6. i < j
  <2>1. 1 \in 1 .. conf.keepLocal
    BY <1>2
  <2>2. QED
    BY <1>4, <1>5, <2>1, <1>2
<1>7. \A t \in 1 .. conf.keepLocal : ContentOf(conf, g[t]) = local[p + t].key
  BY <1>1, <1>3, ZenonT(60)
<1>8. \A t \in 1 .. conf.keepLocal : local[p + t].key # local[p].key
  BY <1>2, <1>3
<1>9. \A t, u \in 1 .. conf.keepLocal : local[p + t].key = local[p + u].key => t = u
  <2> TAKE t, u \in 1 .. conf.keepLocal
  <2> HAVE local[p + t].key = local[p + u].key
  <2>1. p + t = p + u
    BY <1>3, ZenonT(60)
  <2>2. QED
    BY <1>2, <2>1
<1>10. g \in [1 .. conf.keepLocal -> i .. j] /\ DOMAIN g = 1 .. conf.keepLocal
  BY <1>5, ZenonT(60)
<1> HIDE DEF g, i
<1>11. /\ \A a \in DOMAIN g : ContentOf(conf, g[a]) # ContentOf(conf, i)
       /\ \A a, b \in DOMAIN g : ContentOf(conf, g[a]) = ContentOf(conf, g[b]) => a = b
  BY <1>4, <1>7, <1>8, <1>9, <1>10
<1>12. ContentOf(conf, i) = ContentOf(conf, j)
  BY <1>4, ZenonT(60)
<1>13. QED
  BY <1>4, <1>6, <1>10, <1>11, <1>12, ZenonT(60) DEF ComesBackSoon

-----------------------------------------------------------------------------
(* The local jobs *)

\* What is spent stays so.
Keeps(fix, next, m, next2, m2) ==
  \A w, nonce : Spent(fix, next, m, w, nonce) => Spent(fix, next2, m2, w, nonce)

LocalFields == {"key", "id", "serial", "seen", "diffs", "diff"}

\* The local jobs stay, with more shares seen, other ids or difficulties.
LEMMA SameLocal ==
  ASSUME NEW fix, DOMAIN fix.jobs \subseteq Nat \ {0},
         NEW next \in Nat, NEW next2 \in Nat, next <= next2, NEW m, NEW m2,
         MineTrue(fix, next, m), DOMAIN m2 = DOMAIN m, m2.alive => m.alive,
         m2.serial = m.serial, IsSequence(m2.local), DOMAIN m2.local = DOMAIN m.local,
         \A i \in DOMAIN m.local :
           /\ LocalFields \subseteq DOMAIN m2.local[i]
           /\ m2.local[i].key = m.local[i].key /\ m2.local[i].serial = m.local[i].serial
           /\ m.local[i].seen \subseteq m2.local[i].seen
  PROVE  MineTrue(fix, next2, m2) /\ Keeps(fix, next, m, next2, m2)
<1>1. \A i \in DOMAIN m.local : Work(fix, m2.local[i]) = Work(fix, m.local[i])
  BY ZenonT(60) DEF Work
<1>2. ASSUME InOrder(fix, next, m.local)
      PROVE  InOrder(fix, next2, m2.local)
  <2>1. PICK f \in [DOMAIN m.local -> 1 .. next - 1] :
          /\ \A i, k \in DOMAIN m.local : i < k => f[i] < f[k]
          /\ \A i \in DOMAIN m.local : m.local[i].key = Content(fix, f[i])
    BY <1>2, ZenonT(60) DEF InOrder
  <2>2. f \in [DOMAIN m2.local -> 1 .. next2 - 1]
    OBVIOUS
  <2>3. QED
    BY <2>1, <2>2, ZenonT(60) DEF InOrder
<1>3. MineTrue(fix, next2, m2)
  BY <1>1, <1>2, ZenonT(60) DEF MineTrue, LocalFields
<1>4. ASSUME NEW w, NEW nonce, Spent(fix, next, m, w, nonce), m2.alive
      PROVE  /\ Given(fix, next2, m2, w)
             /\ \A i \in DOMAIN m2.local : Work(fix, m2.local[i]) = w => nonce \in m2.local[i].seen
  <2>1. /\ Given(fix, next, m, w)
        /\ \A i \in DOMAIN m.local : Work(fix, m.local[i]) = w => nonce \in m.local[i].seen
    BY <1>4, ZenonT(60) DEF Spent
  <2>2. Given(fix, next2, m2, w)
    <3>1. CASE BySerial(fix)
      BY <2>1, <3>1, ZenonT(60) DEF Given
    <3>2. CASE ~BySerial(fix)
      <4>1. CASE \E i \in DOMAIN m.local : m.local[i].key = w
        BY <3>2, <4>1, ZenonT(60) DEF Given
      <4>2. CASE \A j \in DOMAIN fix.jobs : j >= next - 1 => Content(fix, j) # w
        BY <3>2, <4>2 DEF Given
      <4>3. QED
        BY <2>1, <3>2, <4>1, <4>2, ZenonT(60) DEF Given
    <3>3. QED
      BY <3>1, <3>2, ZenonT(60)
  <2>3. QED
    BY <1>1, <2>1, <2>2, ZenonT(60)
<1>5. QED
  BY <1>3, <1>4, ZenonT(60) DEF Keeps, Spent

\* A local job is added for work that the session was not given before.
LEMMA AddedLocal ==
  ASSUME NEW fix, DOMAIN fix.jobs \subseteq Nat \ {0},
         NEW next \in Nat \ {0}, NEW next2 \in {next, next + 1}, NEW m, MineTrue(fix, next, m),
         NEW j \in DOMAIN fix.jobs, j = next2 - 1, NEW key, NEW d,
         BySerial(fix) \/ (key = Content(fix, j) /\ \A i \in DOMAIN m.local : m.local[i].key # key)
  PROVE  LET m2 == addLocalJob(m, j, key, d) IN
         /\ MineTrue(fix, next2, m2) /\ Keeps(fix, next, m, next2, m2)
         /\ m2.authenticated = m.authenticated /\ m2.alive = m.alive /\ m2.bad = m.bad
<1> DEFINE e == [key |-> key, id |-> j, serial |-> m.serial, seen |-> {}, diffs |-> {d},
                 diff |-> d]
           m2 == [m EXCEPT !.local = Append(m.local, e), !.serial = m.serial + 1]
           n == Len(m.local)
<1>1. addLocalJob(m, j, key, d) = m2
  BY ZenonT(60) DEF addLocalJob
<1>2. /\ DOMAIN m2 = DOMAIN m /\ m2.local = Append(m.local, e) /\ m2.serial = m.serial + 1
      /\ m2.alive = m.alive /\ m2.authenticated = m.authenticated /\ m2.bad = m.bad
  BY ZenonT(60) DEF MineTrue
<1> HIDE DEF m2
<1>3. /\ IsSequence(m2.local) /\ n \in Nat /\ DOMAIN m.local = 1 .. n
      /\ DOMAIN m2.local = 1 .. n + 1
      /\ \A i \in 1 .. n : m2.local[i] = m.local[i]
      /\ m2.local[n + 1] = e
  BY <1>2, AppendFacts DEF MineTrue
<1>4. /\ e.key = key /\ e.serial = m.serial /\ DOMAIN e = LocalFields
  BY ZenonT(60) DEF LocalFields
<1> HIDE DEF e
<1>5. m.serial \in Nat /\ j >= next - 1 /\ j \in Nat
  BY DEF MineTrue
<1>6. ASSUME NEW w, Given(fix, next, m, w)
      PROVE  Work(fix, e) # w /\ Given(fix, next2, m2, w)
  <2>1. CASE BySerial(fix)
    BY <1>2, <1>4, <1>5, <1>6, <2>1 DEF Given, Work
  <2>2. CASE ~BySerial(fix)
    <3>1. CASE \E i \in DOMAIN m.local : m.local[i].key = w
      <4>1. PICK i \in DOMAIN m.local : m.local[i].key = w
        BY <3>1, ZenonT(60)
      <4>2. i \in DOMAIN m2.local /\ m2.local[i].key = w
        BY <1>3, <4>1
      <4>3. QED
        BY <1>4, <2>2, <4>1, <4>2, ZenonT(60) DEF Given, Work
    <3>2. CASE \A k \in DOMAIN fix.jobs : k >= next - 1 => Content(fix, k) # w
      BY <1>4, <1>5, <2>2, <3>2 DEF Given, Work
    <3>3. QED
      BY <1>6, <2>2, <3>1, <3>2, ZenonT(60) DEF Given
  <2>3. QED
    BY <2>1, <2>2, ZenonT(60)
<1>7. \A i \in 1 .. n : Given(fix, next, m, Work(fix, m.local[i]))
  BY <1>3, ZenonT(60) DEF Given, Work, MineTrue
<1>8. \A i, k \in DOMAIN m2.local : Work(fix, m2.local[i]) = Work(fix, m2.local[k]) => i = k
  <2> SUFFICES ASSUME NEW i \in 1 .. n + 1, NEW k \in 1 .. n + 1,
                      Work(fix, m2.local[i]) = Work(fix, m2.local[k])
               PROVE  i = k
    BY <1>3, ZenonT(60)
  <2>1. CASE i \in 1 .. n /\ k \in 1 .. n
    BY <1>3, <2>1, ZenonT(60) DEF MineTrue
  <2>2. CASE i = n + 1 /\ k \in 1 .. n
    BY <1>3, <1>6, <1>7, <2>2, ZenonT(60)
  <2>3. CASE k = n + 1 /\ i \in 1 .. n
    BY <1>3, <1>6, <1>7, <2>3, ZenonT(60)
  <2>4. CASE i = n + 1 /\ k = n + 1
    BY <2>4, ZenonT(60)
  <2>5. QED
    BY <1>3, <2>1, <2>2, <2>3, <2>4
<1>9. ASSUME ~BySerial(fix)
      PROVE  InOrder(fix, next2, m2.local)
  <2>1. PICK f \in [DOMAIN m.local -> 1 .. next - 1] :
          /\ \A i, k \in DOMAIN m.local : i < k => f[i] < f[k]
          /\ \A i \in DOMAIN m.local : m.local[i].key = Content(fix, f[i])
    BY <1>9, ZenonT(60) DEF MineTrue, InOrder
  <2>2. ASSUME NEW i \in 1 .. n
        PROVE  f[i] \in 1 .. next - 1 /\ f[i] < j
    <3>1. f[i] \in 1 .. next - 1 /\ f[i] # j
      BY <1>3, <1>9, <2>1, ZenonT(60)
    <3>2. QED
      BY <1>5, <3>1
  <2> DEFINE g == [i \in 1 .. n + 1 |-> IF i = n + 1 THEN j ELSE f[i]]
  <2>3. \A i \in 1 .. n : i # n + 1 /\ i \in 1 .. n + 1 /\ g[i] = f[i]
    BY <1>3
  <2>4. g[n + 1] = j
    BY <1>3
  <2>5. \A i \in 1 .. n + 1 : i \in 1 .. n \/ i = n + 1
    BY <1>3
  <2>6. g \in [DOMAIN m2.local -> 1 .. next2 - 1]
    <3>1. \A i \in 1 .. n + 1 : g[i] \in 1 .. next2 - 1
      <4>1. \A i \in 1 .. n : f[i] \in 1 .. next2 - 1
        BY <2>2
      <4>2. j \in 1 .. next2 - 1
        BY <1>5, <1>9
      <4> HIDE DEF g
      <4>3. QED
        BY <2>3, <2>4, <2>5, <4>1, <4>2, ZenonT(60)
    <3>2. QED
      BY <1>3, <3>1, ZenonT(60)
  <2> HIDE DEF g
  <2>7. \A i, k \in 1 .. n + 1 : i < k => g[i] < g[k]
    <3> SUFFICES ASSUME NEW i \in 1 .. n + 1, NEW k \in 1 .. n + 1, i < k PROVE g[i] < g[k]
      BY ZenonT(60)
    <3>1. i \in 1 .. n
      BY <1>3
    <3>2. CASE k = n + 1
      BY <2>2, <2>3, <2>4, <3>1, <3>2, ZenonT(60)
    <3>3. CASE k \in 1 .. n
      BY <1>3, <2>1, <2>3, <3>1, <3>3, ZenonT(60)
    <3>4. QED
      BY <2>5, <3>2, <3>3, ZenonT(60)
  <2>8. \A i \in 1 .. n + 1 : m2.local[i].key = Content(fix, g[i])
    BY <1>3, <1>4, <1>9, <2>1, <2>3, <2>4, <2>5, ZenonT(60)
  <2>9. QED
    BY <1>3, <2>6, <2>7, <2>8, ZenonT(60) DEF InOrder
<1>10. MineTrue(fix, next2, m2)
  <2>1. \A i \in 1 .. n + 1 :
          LocalFields \subseteq DOMAIN m2.local[i] /\ m2.local[i].serial \in 0 .. m2.serial - 1
    <3>1. \A i \in 1 .. n : LocalFields \subseteq DOMAIN m2.local[i]
                            /\ m2.local[i].serial \in 0 .. m2.serial - 1
      BY <1>2, <1>3, <1>5 DEF MineTrue, LocalFields
    <3>2. LocalFields \subseteq DOMAIN e /\ e.serial \in 0 .. m2.serial - 1
      BY <1>2, <1>4, <1>5
    <3>3. \A i \in 1 .. n + 1 : i \in 1 .. n \/ i = n + 1
      BY <1>3
    <3> HIDE DEF n
    <3>4. QED
      BY <1>3, <3>1, <3>2, <3>3, ZenonT(60)
  <2>2. m2.serial \in Nat
    BY <1>2, <1>5
  <2>3. QED
    BY <1>2, <1>3, <1>8, <1>9, <2>1, <2>2, ZenonT(60) DEF MineTrue, LocalFields
<1>11. Keeps(fix, next, m, next2, m2)
  <2> SUFFICES ASSUME NEW w, NEW nonce, Spent(fix, next, m, w, nonce), m2.alive
               PROVE  /\ Given(fix, next2, m2, w)
                      /\ \A i \in 1 .. n + 1 :
                           Work(fix, m2.local[i]) = w => nonce \in m2.local[i].seen
    BY <1>3, ZenonT(60) DEF Keeps, Spent
  <2>1. /\ Given(fix, next, m, w)
        /\ \A i \in 1 .. n : Work(fix, m.local[i]) = w => nonce \in m.local[i].seen
    BY <1>2, <1>3, ZenonT(60) DEF Spent
  <2>2. Work(fix, e) # w /\ Given(fix, next2, m2, w)
    BY <1>6, <2>1, ZenonT(60)
  <2>3. ASSUME NEW i \in 1 .. n + 1, Work(fix, m2.local[i]) = w
        PROVE  nonce \in m2.local[i].seen
    <3>1. i # n + 1
      BY <1>3, <2>2, <2>3, ZenonT(60)
    <3>2. i \in 1 .. n
      BY <1>3, <3>1
    <3>3. QED
      BY <1>3, <2>1, <2>3, <3>2, ZenonT(60)
  <2>4. QED
    BY <2>2, <2>3, ZenonT(60)
<1>12. QED
  BY <1>1, <1>2, <1>10, <1>11, ZenonT(60)

\* The oldest local jobs are dropped, of work that does not come again.
LEMMA ClearedLocal ==
  ASSUME NEW conf, ShareConf(conf), NEW next \in 1 .. Len(conf.jobs) + 1, NEW m,
         MineTrue(Fixed(conf), next, m), NEW n \in Nat, n >= conf.keepLocal
  PROVE  LET m2 == keepLocalJobs(m, n) IN
         /\ MineTrue(Fixed(conf), next, m2) /\ Keeps(Fixed(conf), next, m, next, m2)
         /\ m2.authenticated = m.authenticated /\ m2.alive = m.alive /\ m2.bad = m.bad
<1> DEFINE fix == Fixed(conf)
           q == SubSeq(m.local, Len(m.local) - n + 1, Len(m.local))
           drop == Len(m.local) - n
           m2 == keepLocalJobs(m, n)
<1>1. n \in Nat /\ n >= conf.keepLocal /\ conf.keepLocal \in Nat /\ n >= 1
  BY DEF ShareConf
<1>2. /\ Len(m.local) \in Nat /\ DOMAIN m.local = 1 .. Len(m.local) /\ IsSequence(m.local)
      /\ Len(conf.jobs) \in Nat /\ DOMAIN fix.jobs = 1 .. Len(conf.jobs)
  BY SequenceFacts, FixedFacts, ZenonT(60) DEF ShareConf, MineTrue
<1> HIDE DEF fix
<1>3. /\ DOMAIN m2 = DOMAIN m /\ m2.serial = m.serial /\ m2.alive = m.alive
      /\ m2.authenticated = m.authenticated /\ m2.bad = m.bad
      /\ m2.local = IF Len(m.local) <= n THEN m.local ELSE q
  BY ZenonT(60) DEF keepLocalJobs, MineTrue
<1> HIDE DEF m2
<1>4. CASE Len(m.local) <= n
  <2>1. m2.local = m.local
    BY <1>3, <1>4, ZenonT(60)
  <2>2. MineTrue(fix, next, m2)
    BY <1>3, <2>1, ZenonT(60) DEF MineTrue, fix
  <2>3. Keeps(fix, next, m, next, m2)
    BY <1>3, <2>1, ZenonT(60) DEF Keeps, Spent, Given
  <2>4. QED
    BY <1>3, <2>2, <2>3, ZenonT(60) DEF m2, fix
<1>5. CASE Len(m.local) > n
  <2> USE DEF fix
  <2>2. m2.local = q
    BY <1>1, <1>2, <1>3, <1>5
  <2>3. /\ IsSequence(q) /\ DOMAIN q = 1 .. n
        /\ \A i \in 1 .. n : q[i] = m.local[drop + i]
    <3>1. n <= Len(m.local)
      BY <1>2, <1>5
    <3>2. IsSequence(m.local)
      BY <1>2, ZenonT(60)
    <3>3. QED
      BY <3>1, <3>2, LastFacts, ZenonT(60)
  <2> HIDE DEF q
  <2>4. \A i \in 1 .. n : drop + i \in 1 .. Len(m.local)
    BY <1>1, <1>2, <1>5
  <2>5. \A i, k \in 1 .. n : Work(fix, q[i]) = Work(fix, q[k]) => i = k
    <3> SUFFICES ASSUME NEW i \in 1 .. n, NEW k \in 1 .. n, Work(fix, q[i]) = Work(fix, q[k])
                 PROVE  i = k
      BY ZenonT(60)
    <3>1. drop + i = drop + k
      BY <1>2, <2>3, <2>4, ZenonT(60) DEF MineTrue
    <3>2. QED
      BY <1>1, <1>2, <3>1
  <2>6. ASSUME ~BySerial(fix)
        PROVE  InOrder(fix, next, q)
    <3>1. PICK f \in [DOMAIN m.local -> 1 .. next - 1] :
            /\ \A i, k \in DOMAIN m.local : i < k => f[i] < f[k]
            /\ \A i \in DOMAIN m.local : m.local[i].key = Content(fix, f[i])
      BY <2>6, ZenonT(60) DEF MineTrue, InOrder
    <3> DEFINE g == [i \in 1 .. n |-> f[drop + i]]
    <3>2. g \in [1 .. n -> 1 .. next - 1]
      BY <1>2, <2>4, <3>1, ZenonT(60)
    <3>3. \A i, k \in 1 .. n : i < k => drop + i < drop + k
      BY <1>1, <1>2
    <3> HIDE DEF drop
    <3>4. \A i, k \in 1 .. n : i < k => g[i] < g[k]
      BY <1>2, <2>4, <3>1, <3>3, ZenonT(60)
    <3>5. \A i \in 1 .. n : q[i].key = Content(fix, g[i])
      BY <1>2, <2>3, <2>4, <3>1, ZenonT(60)
    <3> HIDE DEF g
    <3>6. QED
      BY <2>3, <3>2, <3>4, <3>5, ZenonT(60) DEF InOrder
  <2>7. MineTrue(fix, next, m2)
    <3>1. \A i \in 1 .. n : /\ LocalFields \subseteq DOMAIN q[i]
                            /\ q[i].serial \in 0 .. m.serial - 1
      <4>1. \A k \in DOMAIN m.local : /\ LocalFields \subseteq DOMAIN m.local[k]
                                      /\ m.local[k].serial \in 0 .. m.serial - 1
        BY ZenonT(60) DEF MineTrue, LocalFields
      <4>2. QED
        BY <1>2, <2>3, <2>4, <4>1, ZenonT(60)
    <3>2. QED
      BY <1>3, <2>2, <2>3, <2>5, <2>6, <3>1, ZenonT(60) DEF MineTrue, LocalFields
  <2>8. ASSUME NEW w, Given(fix, next, m, w)
        PROVE  Given(fix, next, m2, w)
    <3>1. CASE BySerial(fix)
      BY <1>3, <2>8, <3>1, ZenonT(60) DEF Given
    <3>2. CASE ~BySerial(fix)
      <4>1. CASE \A j \in DOMAIN fix.jobs : j >= next - 1 => Content(fix, j) # w
        BY <3>2, <4>1, ZenonT(60) DEF Given
      <4>2. ASSUME NEW p \in DOMAIN m.local, m.local[p].key = w
            PROVE  Given(fix, next, m2, w)
        <5>1. CASE p > drop
          <6>1. p - drop \in 1 .. n /\ drop + (p - drop) = p
            BY <1>1, <1>2, <1>5, <5>1
          <6>2. q[p - drop].key = w
            BY <2>3, <4>2, <6>1, ZenonT(60)
          <6>3. QED
            BY <2>2, <2>3, <3>2, <6>1, <6>2, ZenonT(60) DEF Given
        <5>2. CASE p <= drop
          <6>1. p + n <= Len(m.local)
            BY <1>1, <1>2, <5>2
          <6>2. /\ InOrder(fix, next, m.local)
                /\ \A i, k \in DOMAIN m.local : m.local[i].key = m.local[k].key => i = k
            BY <3>2, ZenonT(60) DEF MineTrue, Work
          <6> ComesBackSoon(conf)
            BY <3>2, FixedFacts, ZenonT(60) DEF BySerial, ShareConf
          <6>3. \A j \in DOMAIN conf.jobs : j >= next - 1 => ContentOf(conf, j) # w
            BY <1>1, <1>2, <4>2, <6>1, <6>2, DroppedIsPast, ZenonT(60)
          <6>4. QED
            BY <3>2, <6>3, FixedFacts, ZenonT(60) DEF Given
        <5>3. QED
          BY <1>1, <1>2, <5>1, <5>2
      <4>3. QED
        BY <2>8, <3>2, <4>1, <4>2, ZenonT(60) DEF Given
    <3>3. QED
      BY <3>1, <3>2, ZenonT(60)
  <2>9. Keeps(fix, next, m, next, m2)
    <3> SUFFICES ASSUME NEW w, NEW nonce, Spent(fix, next, m, w, nonce), m.alive
                 PROVE  /\ Given(fix, next, m2, w)
                        /\ \A i \in 1 .. n : Work(fix, q[i]) = w => nonce \in q[i].seen
      BY <1>3, <2>2, <2>3, ZenonT(60) DEF Keeps, Spent
    <3>1. /\ Given(fix, next, m, w)
          /\ \A i \in DOMAIN m.local : Work(fix, m.local[i]) = w => nonce \in m.local[i].seen
      BY ZenonT(60) DEF Spent
    <3>2. QED
      BY <1>2, <2>3, <2>4, <2>8, <3>1, ZenonT(60)
  <2>10. QED
    BY <1>3, <2>7, <2>9, ZenonT(60) DEF m2
<1>6. QED
  BY <1>1, <1>2, <1>4, <1>5

\* Keeping what is spent is transitive.
LEMMA KeepsTwice ==
  ASSUME NEW fix, NEW n1, NEW m1, NEW n2, NEW m2, NEW n3, NEW m3,
         Keeps(fix, n1, m1, n2, m2), Keeps(fix, n2, m2, n3, m3)
  PROVE  Keeps(fix, n1, m1, n3, m3)
BY ZenonT(60) DEF Keeps

-----------------------------------------------------------------------------
(* The shares on their way: sent as a solution, verified, returned, logged *)

\* No share of this work with this nonce is being verified, or was credited.
Unclaimed(fix, cs, rs, t, w, nonce) ==
  /\ \A i \in DOMAIN t.shares :
       Accepted(t.shares[i].status) => w # t.shares[i].work \/ nonce # t.shares[i].nonce
  /\ \A c \in cs : Work(fix, c.l) # w \/ c.x.nonce # nonce
  /\ \A i \in DOMAIN rs : Work(fix, rs[i].c.l) # w \/ rs[i].c.x.nonce # nonce

\* The evidence outlives a step that keeps what is spent.
LEMMA Carry ==
  ASSUME NEW fix, NEW next, NEW next2, NEW m, NEW m2, NEW cs, NEW rs, NEW t,
         Evidence(fix, next, m, cs, rs, t), Keeps(fix, next, m, next2, m2)
  PROVE  Evidence(fix, next2, m2, cs, rs, t)
<1>1. \A w, nonce : Spent(fix, next, m, w, nonce) => Spent(fix, next2, m2, w, nonce)
  BY ZenonT(60) DEF Keeps
<1>2. SharesTrue(fix, next2, m2, t)
  BY <1>1, ZenonT(60) DEF Evidence, SharesTrue
<1>3. SolvedTrue(fix, next2, m2, t)
  BY <1>1, ZenonT(60) DEF Evidence, SolvedTrue
<1>4. ChecksTrue(fix, next2, m2, cs, t)
  BY <1>1, ZenonT(60) DEF Evidence, ChecksTrue
<1>5. ReturnsTrue(fix, next2, m2, cs, rs, t)
  BY <1>1, ZenonT(60) DEF Evidence, ReturnsTrue
<1>6. QED
  BY <1>2, <1>3, <1>4, <1>5, ZenonT(60) DEF Evidence

\* A share that is not spent was not credited, sent or left to be verified.
LEMMA FreshIsUnclaimed ==
  ASSUME NEW fix, NEW next, NEW m, NEW cs, NEW rs, NEW t, NEW w, NEW nonce,
         Evidence(fix, next, m, cs, rs, t), ~Spent(fix, next, m, w, nonce)
  PROVE  Unclaimed(fix, cs, rs, t, w, nonce) /\ ~Sent(t, w, nonce)
<1>1. \A i \in DOMAIN t.shares :
        Accepted(t.shares[i].status) => w # t.shares[i].work \/ nonce # t.shares[i].nonce
  BY ZenonT(60) DEF Evidence, SharesTrue
<1>2. \A c \in cs : Work(fix, c.l) # w \/ c.x.nonce # nonce
  BY ZenonT(60) DEF Evidence, ChecksTrue
<1>3. \A i \in DOMAIN rs : Work(fix, rs[i].c.l) # w \/ rs[i].c.x.nonce # nonce
  BY ZenonT(60) DEF Evidence, ReturnsTrue
<1>4. ~Sent(t, w, nonce)
  BY ZenonT(60) DEF Evidence, SolvedTrue
<1>5. QED
  BY <1>1, <1>2, <1>3, <1>4, ZenonT(60) DEF Unclaimed

\* A share is logged: it was not credited before, and its solution was sent.
LEMMA LogShare ==
  ASSUME NEW fix, NEW next, NEW m, NEW cs, NEW rs, NEW t, NEW t2, NEW a,
         Evidence(fix, next, m, cs, rs, t), EntryTrue(fix, a),
         Accepted(a.status) => /\ Spent(fix, next, m, a.work, a.nonce)
                               /\ Unclaimed(fix, cs, rs, t, a.work, a.nonce),
         IsSolution(fix, a) => Sent(t, a.work, a.nonce),
         {"shares", "solved"} \subseteq DOMAIN t2, t2.solved = t.solved,
         t2.shares = Append(t.shares, a)
  PROVE  Evidence(fix, next, m, cs, rs, t2)
<1> DEFINE n == Len(t.shares)
<1>1. /\ IsSequence(t2.shares) /\ n \in Nat /\ DOMAIN t.shares = 1 .. n
      /\ DOMAIN t2.shares = 1 .. n + 1
      /\ \A i \in 1 .. n : t2.shares[i] = t.shares[i]
      /\ t2.shares[n + 1] = a
  BY AppendFacts DEF Evidence, SharesTrue
<1>2. \A i \in 1 .. n + 1 : i \in 1 .. n \/ i = n + 1
  BY <1>1
<1> HIDE DEF n
<1>3. \A w, nonce : Sent(t2, w, nonce) <=> Sent(t, w, nonce)
  BY ZenonT(60) DEF Sent
<1>4. SharesTrue(fix, next, m, t2)
  <2>1. ASSUME NEW i \in 1 .. n + 1
        PROVE  LET b == t2.shares[i] IN
               /\ EntryTrue(fix, b)
               /\ Accepted(b.status) => Spent(fix, next, m, b.work, b.nonce)
               /\ IsSolution(fix, b) => Sent(t2, b.work, b.nonce)
    <3>1. CASE i \in 1 .. n
      BY <1>1, <1>3, <3>1, ZenonT(60) DEF Evidence, SharesTrue
    <3>2. CASE i = n + 1
      BY <1>1, <1>3, <3>2, ZenonT(60)
    <3>3. QED
      BY <1>2, <3>1, <3>2, ZenonT(60)
  <2>2. ASSUME NEW i \in 1 .. n + 1, NEW k \in 1 .. n + 1,
               Accepted(t2.shares[i].status), Accepted(t2.shares[k].status),
               t2.shares[i].work = t2.shares[k].work, t2.shares[i].nonce = t2.shares[k].nonce
        PROVE  i = k
    <3>1. CASE i \in 1 .. n /\ k \in 1 .. n
      BY <1>1, <2>2, <3>1, ZenonT(60) DEF Evidence, SharesTrue
    <3>2. CASE i = n + 1 /\ k \in 1 .. n
      BY <1>1, <2>2, <3>2, ZenonT(60) DEF Unclaimed
    <3>3. CASE k = n + 1 /\ i \in 1 .. n
      BY <1>1, <2>2, <3>3, ZenonT(60) DEF Unclaimed
    <3>4. QED
      BY <1>2, <3>1, <3>2, <3>3, ZenonT(60)
  <2>3. IsSequence(t2.solved)
    BY ZenonT(60) DEF Evidence, SharesTrue
  <2>4. QED
    BY <1>1, <2>1, <2>2, <2>3, ZenonT(60) DEF SharesTrue
<1>5. SolvedTrue(fix, next, m, t2)
  BY <1>3, ZenonT(60) DEF Evidence, SolvedTrue
<1>6. ASSUME NEW c, Accepted(a.status) => Work(fix, c.l) # a.work \/ c.x.nonce # a.nonce,
             \A i \in DOMAIN t.shares :
               Accepted(t.shares[i].status) =>
                 Work(fix, c.l) # t.shares[i].work \/ c.x.nonce # t.shares[i].nonce
      PROVE  \A i \in DOMAIN t2.shares :
               Accepted(t2.shares[i].status) =>
                 Work(fix, c.l) # t2.shares[i].work \/ c.x.nonce # t2.shares[i].nonce
  BY <1>1, <1>2, <1>6, ZenonT(60)
<1>7. ChecksTrue(fix, next, m, cs, t2)
  BY <1>3, <1>6, ZenonT(60) DEF Evidence, ChecksTrue, Unclaimed
<1>8. ReturnsTrue(fix, next, m, cs, rs, t2)
  BY <1>3, <1>6, ZenonT(60) DEF Evidence, ReturnsTrue, Unclaimed
<1>9. QED
  BY <1>4, <1>5, <1>7, <1>8, ZenonT(60) DEF Evidence

\* No check of cs is of the share; and t2 is t with the solution sent.
Unchecked(fix, cs, w, nonce) == \A c \in cs : Work(fix, c.l) # w \/ c.x.nonce # nonce

SentNow(t, w, nonce, t2) ==
  /\ {"shares", "solved"} \subseteq DOMAIN t2 /\ t2.shares = t.shares
  /\ t2.solved = Append(t.solved, <<w, nonce>>)

\* A solution is sent that was not sent before.
LEMMA SendSolution ==
  ASSUME NEW fix, NEW next, NEW m, NEW cs, NEW rs, NEW t, NEW t2, NEW w, NEW nonce,
         Evidence(fix, next, m, cs, rs, t), Spent(fix, next, m, w, nonce), ~Sent(t, w, nonce),
         Unchecked(fix, cs, w, nonce), SentNow(t, w, nonce, t2)
  PROVE  Evidence(fix, next, m, cs, rs, t2) /\ Sent(t2, w, nonce)
<1> DEFINE n == Len(t.solved)
           e == <<w, nonce>>
<1>1. /\ IsSequence(t2.solved) /\ n \in Nat /\ DOMAIN t.solved = 1 .. n
      /\ DOMAIN t2.solved = 1 .. n + 1
      /\ \A i \in 1 .. n : t2.solved[i] = t.solved[i]
      /\ t2.solved[n + 1] = e
  BY AppendFacts DEF Evidence, SharesTrue, SentNow
<1>2. \A i \in 1 .. n + 1 : i \in 1 .. n \/ i = n + 1
  BY <1>1
<1>3. n + 1 \in 1 .. n + 1 /\ \A i \in 1 .. n : i \in 1 .. n + 1
  BY <1>1
<1> HIDE DEF n
<1>4. ASSUME NEW v, NEW x
      PROVE  Sent(t2, v, x) <=> Sent(t, v, x) \/ (v = w /\ x = nonce)
  <2>1. <<v, x>> = e <=> v = w /\ x = nonce
    BY ZenonT(60)
  <2> HIDE DEF e
  <2>2. QED
    BY <1>1, <1>2, <1>3, <2>1, ZenonT(60) DEF Sent
<1>5. SharesTrue(fix, next, m, t2)
  BY <1>1, <1>4, ZenonT(60) DEF Evidence, SharesTrue, SentNow
<1>6. SolvedTrue(fix, next, m, t2)
  <2>1. \A v, x : Sent(t2, v, x) => Spent(fix, next, m, v, x)
    BY <1>4, ZenonT(60) DEF Evidence, SolvedTrue
  <2>2. \A i \in 1 .. n : t.solved[i] # e
    BY <1>1, ZenonT(60) DEF Sent
  <2> HIDE DEF e
  <2>3. \A i, k \in 1 .. n + 1 : t2.solved[i] = t2.solved[k] => i = k
    BY <1>1, <1>2, <2>2, ZenonT(60) DEF Evidence, SolvedTrue
  <2>4. QED
    BY <1>1, <2>1, <2>3, ZenonT(60) DEF SolvedTrue
<1>7. ChecksTrue(fix, next, m, cs, t2)
  BY <1>4, ZenonT(60) DEF Evidence, ChecksTrue, SentNow, Unchecked
<1>8. ReturnsTrue(fix, next, m, cs, rs, t2)
  BY <1>4, ZenonT(60) DEF Evidence, ReturnsTrue, SentNow
<1>9. QED
  BY <1>4, <1>5, <1>6, <1>7, <1>8, ZenonT(60) DEF Evidence

\* The evidence is about the topics only.
LEMMA SameTopics ==
  ASSUME NEW fix, NEW next, NEW m, NEW cs, NEW rs, NEW t, NEW t2,
         Evidence(fix, next, m, cs, rs, t), {"shares", "solved"} \subseteq DOMAIN t2,
         t2.shares = t.shares, t2.solved = t.solved
  PROVE  Evidence(fix, next, m, cs, rs, t2)
BY DEF Evidence, SharesTrue, SolvedTrue, ChecksTrue, ReturnsTrue, Sent

\* A share that nobody claims is left to be verified.
LEMMA AddCheck ==
  ASSUME NEW fix, NEW next, NEW m, NEW cs, NEW rs, NEW t, NEW c,
         Evidence(fix, next, m, cs, rs, t), fix.coin = "eth",
         {"l", "x", "preliminary", "stale"} \subseteq DOMAIN c,
         Spent(fix, next, m, Work(fix, c.l), c.x.nonce),
         Unclaimed(fix, cs, rs, t, Work(fix, c.l), c.x.nonce),
         c.preliminary <=> Sent(t, Work(fix, c.l), c.x.nonce)
  PROVE  Evidence(fix, next, m, cs \cup {c}, rs, t)
<1>1. ChecksTrue(fix, next, m, cs \cup {c}, t)
  BY ZenonT(60) DEF Evidence, ChecksTrue, Unclaimed, SameShare
<1>2. ReturnsTrue(fix, next, m, cs \cup {c}, rs, t)
  BY ZenonT(60) DEF Evidence, ReturnsTrue, Unclaimed, SameShare
<1>3. QED
  BY <1>1, <1>2, ZenonT(60) DEF Evidence

\* A verification ends: nobody else claims its share.
LEMMA DropCheck ==
  ASSUME NEW fix, NEW next, NEW m, NEW cs, NEW rs, NEW t, NEW c \in cs,
         Evidence(fix, next, m, cs, rs, t)
  PROVE  /\ Evidence(fix, next, m, cs \ {c}, rs, t)
         /\ Spent(fix, next, m, Work(fix, c.l), c.x.nonce)
         /\ Unclaimed(fix, cs \ {c}, rs, t, Work(fix, c.l), c.x.nonce)
         /\ c.preliminary <=> Sent(t, Work(fix, c.l), c.x.nonce)
         /\ fix.coin = "eth"
<1>1. ChecksTrue(fix, next, m, cs \ {c}, t)
  BY ZenonT(60) DEF Evidence, ChecksTrue
<1>2. ReturnsTrue(fix, next, m, cs \ {c}, rs, t)
  BY ZenonT(60) DEF Evidence, ReturnsTrue
<1>3. /\ Spent(fix, next, m, Work(fix, c.l), c.x.nonce)
      /\ c.preliminary <=> Sent(t, Work(fix, c.l), c.x.nonce)
      /\ fix.coin = "eth"
      /\ \A i \in DOMAIN t.shares :
           Accepted(t.shares[i].status) =>
             Work(fix, c.l) # t.shares[i].work \/ c.x.nonce # t.shares[i].nonce
      /\ \A d \in cs \ {c} : Work(fix, d.l) # Work(fix, c.l) \/ d.x.nonce # c.x.nonce
  BY ZenonT(60) DEF Evidence, ChecksTrue, SameShare
<1>4. \A i \in DOMAIN rs : Work(fix, rs[i].c.l) # Work(fix, c.l) \/ rs[i].c.x.nonce # c.x.nonce
  BY ZenonT(60) DEF Evidence, ReturnsTrue, SameShare
<1>5. Evidence(fix, next, m, cs \ {c}, rs, t)
  BY <1>1, <1>2, ZenonT(60) DEF Evidence
<1>6. QED
  BY <1>3, <1>4, <1>5, ZenonT(60) DEF Unclaimed

\* Its result waits for the session.
LEMMA AddReturn ==
  ASSUME NEW fix, NEW next, NEW m, NEW cs, NEW rs, NEW t, NEW c, NEW r,
         Evidence(fix, next, m, cs, rs, t), fix.coin = "eth",
         Spent(fix, next, m, Work(fix, c.l), c.x.nonce),
         Unclaimed(fix, cs, rs, t, Work(fix, c.l), c.x.nonce),
         r.status \in {"SOLVED", "SOLVED_STALE"} => Sent(t, Work(fix, c.l), c.x.nonce)
  PROVE  Evidence(fix, next, m, cs, Append(rs, [c |-> c, r |-> r]), t)
<1> DEFINE e == [c |-> c, r |-> r]
           q == Append(rs, e)
           n == Len(rs)
<1>1. /\ IsSequence(q) /\ n \in Nat /\ DOMAIN rs = 1 .. n /\ DOMAIN q = 1 .. n + 1
      /\ \A i \in 1 .. n : q[i] = rs[i]
      /\ q[n + 1] = e
  BY AppendFacts DEF Evidence, ReturnsTrue
<1>2. \A i \in 1 .. n + 1 : i \in 1 .. n \/ i = n + 1
  BY <1>1
<1>3. e.c = c /\ e.r = r
  BY ZenonT(60)
<1> HIDE DEF n, q, e
<1>4. ASSUME NEW i \in 1 .. n + 1
      PROVE  LET d == q[i].c IN
             /\ fix.coin = "eth"
             /\ Spent(fix, next, m, Work(fix, d.l), d.x.nonce)
             /\ q[i].r.status \in {"SOLVED", "SOLVED_STALE"} => Sent(t, Work(fix, d.l), d.x.nonce)
             /\ \A k \in DOMAIN t.shares :
                  Accepted(t.shares[k].status) =>
                    Work(fix, d.l) # t.shares[k].work \/ d.x.nonce # t.shares[k].nonce
             /\ \A b \in cs : ~SameShare(fix, d, b)
  <2>1. CASE i \in 1 .. n
    BY <1>1, <2>1, ZenonT(60) DEF Evidence, ReturnsTrue
  <2>2. CASE i = n + 1
    <3>1. q[i].c = c /\ q[i].r = r
      BY <1>1, <1>3, <2>2, ZenonT(60)
    <3>2. QED
      BY <3>1, ZenonT(60) DEF Unclaimed, SameShare
  <2>3. QED
    BY <1>2, <2>1, <2>2, ZenonT(60)
<1>5. ASSUME NEW i \in 1 .. n + 1, NEW k \in 1 .. n + 1, SameShare(fix, q[i].c, q[k].c)
      PROVE  i = k
  <2>1. CASE i \in 1 .. n /\ k \in 1 .. n
    BY <1>1, <1>5, <2>1, ZenonT(60) DEF Evidence, ReturnsTrue
  <2>2. CASE i = n + 1 /\ k \in 1 .. n
    BY <1>1, <1>3, <1>5, <2>2, ZenonT(60) DEF Unclaimed, SameShare
  <2>3. CASE k = n + 1 /\ i \in 1 .. n
    BY <1>1, <1>3, <1>5, <2>3, ZenonT(60) DEF Unclaimed, SameShare
  <2>4. QED
    BY <1>2, <2>1, <2>2, <2>3, ZenonT(60)
<1>6. ReturnsTrue(fix, next, m, cs, q, t)
  BY <1>1, <1>4, <1>5, ZenonT(60) DEF ReturnsTrue
<1>7. QED
  BY <1>6, ZenonT(60) DEF Evidence, q, e

\* The session takes the first result: nobody else claims its share.
LEMMA TakeReturn ==
  ASSUME NEW fix, NEW next, NEW m, NEW cs, NEW rs, NEW t,
         Evidence(fix, next, m, cs, rs, t), rs # <<>>
  PROVE  LET c == Head(rs).c r == Head(rs).r IN
         /\ Evidence(fix, next, m, cs, Tail(rs), t) /\ fix.coin = "eth"
         /\ Spent(fix, next, m, Work(fix, c.l), c.x.nonce)
         /\ Unclaimed(fix, cs, Tail(rs), t, Work(fix, c.l), c.x.nonce)
         /\ r.status \in {"SOLVED", "SOLVED_STALE"} => Sent(t, Work(fix, c.l), c.x.nonce)
<1> DEFINE c == Head(rs).c
           r == Head(rs).r
           q == Tail(rs)
           n == Len(rs)
<1>1. PICK S : rs \in Seq(S)
  BY ZenonT(60) DEF Evidence, ReturnsTrue, IsSequence
<1>2. /\ n \in Nat /\ n > 0 /\ DOMAIN rs = 1 .. n /\ Head(rs) = rs[1] /\ q \in Seq(S)
      /\ DOMAIN q = 1 .. n - 1 /\ \A i \in 1 .. n - 1 : q[i] = rs[i + 1]
  BY <1>1
<1>3. \A i \in 1 .. n - 1 : i + 1 \in 1 .. n /\ i + 1 # 1
  BY <1>2
<1>4. 1 \in DOMAIN rs
  BY <1>2
<1> HIDE DEF n, q
<1>5. ReturnsTrue(fix, next, m, cs, q, t)
  <2>1. \A i, k \in 1 .. n - 1 : i + 1 = k + 1 => i = k
    BY <1>2
  <2>2. ASSUME NEW i \in 1 .. n - 1, NEW k \in 1 .. n - 1, SameShare(fix, q[i].c, q[k].c)
        PROVE  i = k
    <3>1. SameShare(fix, rs[i + 1].c, rs[k + 1].c)
      BY <1>2, <2>2, ZenonT(60)
    <3>2. i + 1 = k + 1
      BY <1>2, <1>3, <3>1, ZenonT(60) DEF Evidence, ReturnsTrue
    <3>3. QED
      BY <2>1, <3>2, ZenonT(60)
  <2>3. IsSequence(q)
    BY <1>2, ZenonT(60) DEF IsSequence
  <2>4. ASSUME NEW i \in 1 .. n - 1
        PROVE  LET d == q[i].c IN
               /\ fix.coin = "eth"
               /\ Spent(fix, next, m, Work(fix, d.l), d.x.nonce)
               /\ q[i].r.status \in {"SOLVED", "SOLVED_STALE"} =>
                    Sent(t, Work(fix, d.l), d.x.nonce)
               /\ \A k \in DOMAIN t.shares :
                    Accepted(t.shares[k].status) =>
                      Work(fix, d.l) # t.shares[k].work \/ d.x.nonce # t.shares[k].nonce
               /\ \A b \in cs : ~SameShare(fix, d, b)
    <3>1. q[i] = rs[i + 1] /\ i + 1 \in DOMAIN rs
      BY <1>2, <1>3, ZenonT(60)
    <3>2. QED
      BY <3>1, ZenonT(60) DEF Evidence, ReturnsTrue
  <2>5. QED
    BY <1>2, <2>2, <2>3, <2>4, ZenonT(60) DEF ReturnsTrue
<1>6. /\ Spent(fix, next, m, Work(fix, c.l), c.x.nonce) /\ fix.coin = "eth"
      /\ r.status \in {"SOLVED", "SOLVED_STALE"} => Sent(t, Work(fix, c.l), c.x.nonce)
      /\ \A k \in DOMAIN t.shares :
           Accepted(t.shares[k].status) =>
             Work(fix, c.l) # t.shares[k].work \/ c.x.nonce # t.shares[k].nonce
      /\ \A d \in cs : ~SameShare(fix, c, d)
  BY <1>2, <1>4, ZenonT(60) DEF Evidence, ReturnsTrue
<1>7. \A i \in 1 .. n - 1 : ~SameShare(fix, q[i].c, c)
  BY <1>2, <1>3, <1>4, ZenonT(60) DEF Evidence, ReturnsTrue
<1>8. Unclaimed(fix, cs, q, t, Work(fix, c.l), c.x.nonce)
  BY <1>2, <1>6, <1>7, ZenonT(60) DEF Unclaimed, SameShare
<1>9. Evidence(fix, next, m, cs, q, t)
  BY <1>5, ZenonT(60) DEF Evidence
<1>10. QED
  BY <1>6, <1>8, <1>9, ZenonT(60) DEF q

-----------------------------------------------------------------------------
(* The submits *)

\* The session m2 is m with the nonce in the set of its i-th local job.
SeenNow(m, i, nonce, m2) ==
  /\ DOMAIN m2 = DOMAIN m /\ m2.alive = m.alive /\ m2.serial = m.serial
  /\ m2.local = [m.local EXCEPT ![i].seen = @ \cup {nonce}]

\* A nonce that was not seen for its local job is not spent, and is then.
LEMMA NonceSeen ==
  ASSUME NEW fix, DOMAIN fix.jobs \subseteq Nat \ {0}, NEW next \in Nat,
         NEW m, MineTrue(fix, next, m), m.alive,
         NEW i \in DOMAIN m.local, NEW nonce, NEW m2, SeenNow(m, i, nonce, m2)
  PROVE  LET w == Work(fix, m.local[i]) IN
         /\ MineTrue(fix, next, m2) /\ Keeps(fix, next, m, next, m2)
         /\ Spent(fix, next, m2, w, nonce)
         /\ nonce \notin m.local[i].seen => ~Spent(fix, next, m, w, nonce)
<1> DEFINE e == [m.local[i] EXCEPT !.seen = @ \cup {nonce}]
           w == Work(fix, m.local[i])
<1>1. /\ IsSequence(m.local)
      /\ \A k \in DOMAIN m.local : LocalFields \subseteq DOMAIN m.local[k]
  BY ZenonT(60) DEF MineTrue, LocalFields
<1>2. /\ DOMAIN m2 = DOMAIN m /\ m2.alive = m.alive /\ m2.serial = m.serial
      /\ m2.local = [m.local EXCEPT ![i].seen = @ \cup {nonce}]
  BY ZenonT(60) DEF SeenNow
<1>3. /\ m2.local = [m.local EXCEPT ![i] = e]
      /\ e.key = m.local[i].key /\ e.serial = m.local[i].serial
      /\ DOMAIN e = DOMAIN m.local[i] /\ e.seen = m.local[i].seen \cup {nonce}
  BY <1>2, <1>1, ZenonT(60) DEF LocalFields
<1> HIDE DEF e
<1>4. IsSequence(m2.local) /\ DOMAIN m2.local = DOMAIN m.local
  <2>1. PICK S : m.local \in Seq(S)
    BY <1>1, ZenonT(60) DEF IsSequence
  <2>2. m.local \in Seq(S \cup {e})
    BY <2>1
  <2>3. m2.local \in Seq(S \cup {e})
    BY <1>3, <2>2
  <2>4. QED
    BY <1>3, <2>3, ZenonT(60) DEF IsSequence
<1>5. ASSUME NEW k \in DOMAIN m.local
      PROVE  /\ LocalFields \subseteq DOMAIN m2.local[k]
             /\ m2.local[k].key = m.local[k].key
             /\ m2.local[k].serial = m.local[k].serial
             /\ m.local[k].seen \subseteq m2.local[k].seen
  <2>1. CASE k = i
    BY <1>1, <1>3, <2>1, ZenonT(60)
  <2>2. CASE k # i
    BY <1>1, <1>3, <2>2, ZenonT(60)
  <2>3. QED
    BY <2>1, <2>2, ZenonT(60)
<1>6. MineTrue(fix, next, m2) /\ Keeps(fix, next, m, next, m2)
  <2>1. next <= next /\ (m2.alive => m.alive)
    BY <1>2
  <2>2. QED
    BY <1>2, <1>4, <1>5, <2>1, SameLocal, ZenonT(60)
<1>7. Given(fix, next, m2, w)
  BY <1>2, <1>4, <1>5, ZenonT(60) DEF Given, Work, MineTrue
<1>8. \A k \in DOMAIN m2.local : Work(fix, m2.local[k]) = w => nonce \in m2.local[k].seen
  <2> SUFFICES ASSUME NEW k \in DOMAIN m.local, Work(fix, m2.local[k]) = w
               PROVE  nonce \in m2.local[k].seen
    BY <1>4, ZenonT(60)
  <2>1. Work(fix, m.local[k]) = w
    BY <1>5, ZenonT(60) DEF Work
  <2>2. k = i
    BY <2>1, ZenonT(60) DEF MineTrue
  <2>3. QED
    BY <1>3, <2>2, ZenonT(60)
<1>9. QED
  BY <1>2, <1>6, <1>7, <1>8, ZenonT(60) DEF Spent

-----------------------------------------------------------------------------
(* The server *)
SharesInv ==
  /\ ShareConf(sconf)
  /\ JobsTrue(sconf, sjobs)
  /\ MineTrue(Fixed(sconf), sjobs.next, smine)
  /\ Evidence(Fixed(sconf), sjobs.next, smine, checks, returns, topics)

-----------------------------------------------------------------------------
(* Sets of numbers, and of contents *)
LEMMA LeastOf ==
  ASSUME NEW S, S \subseteq Nat, S # {}
  PROVE  Min(S) \in S /\ \A y \in S : Min(S) <= y
<1>1. PICK x \in S : \A y \in S : ~ (<<y, x>> \in OpToRel(<, Nat))
  BY NatLessThanWellFounded, WFMin, ZenonT(60)
<1>2. ASSUME NEW y \in S
      PROVE  x <= y
  <2>1. x \in Nat /\ y \in Nat
    BY ZenonT(60)
  <2>2. y < x => <<y, x>> \in OpToRel(<, Nat)
    BY <2>1, ZenonT(60) DEF OpToRel
  <2>3. ~(y < x)
    BY <1>1, <2>2, ZenonT(60)
  <2>4. QED
    BY <2>1, <2>3
<1>3. QED
  BY <1>2, ZenonT(60) DEF Min

\* The greatest number of a set of numbers up to n.
LEMMA GreatestOf ==
  ASSUME NEW n \in Nat, NEW S, S \subseteq 1 .. n, S # {}
  PROVE  Max(S) \in S /\ \A y \in S : Max(S) >= y
<1> DEFINE T == {n - x : x \in S}
<1>1. T \subseteq Nat /\ T # {}
  <2>1. \A x \in S : n - x \in Nat
    OBVIOUS
  <2>2. QED
    BY <2>1, ZenonT(60)
<1>2. Min(T) \in T /\ \A y \in T : Min(T) <= y
  BY <1>1, LeastOf, ZenonT(60)
<1>3. PICK x \in S : Min(T) = n - x
  BY <1>2, ZenonT(60)
<1>4. ASSUME NEW y \in S
      PROVE  x >= y
  <2>1. n - y \in T /\ Min(T) <= n - y
    BY <1>2, ZenonT(60)
  <2>2. QED
    BY <1>3, <2>1
<1>5. QED
  BY <1>4, ZenonT(60) DEF Max

\* A local job that is found has the key.
LEMMA FoundLocal ==
  ASSUME IsSequence(smine.local), NEW key, findLocalJob(key) # 0
  PROVE  /\ findLocalJob(key) \in DOMAIN smine.local
         /\ smine.local[findLocalJob(key)].key = key
<1> DEFINE found == {i \in DOMAIN smine.local : smine.local[i].key = key}
<1>1. Len(smine.local) \in Nat /\ found \subseteq 1 .. Len(smine.local)
  BY SequenceFacts, ZenonT(60)
<1>2. found # {} /\ findLocalJob(key) = Max(found)
  BY ZenonT(60) DEF findLocalJob
<1> HIDE DEF found
<1>3. Max(found) \in found
  BY <1>1, <1>2, GreatestOf, ZenonT(60)
<1>4. QED
  BY <1>2, <1>3, ZenonT(60) DEF found

\* findLocalJob() finds nothing: no local job has the key.
LEMMA MissingLocal ==
  ASSUME IsSequence(smine.local), NEW key, findLocalJob(key) = 0
  PROVE  \A i \in DOMAIN smine.local : smine.local[i].key # key
<1> DEFINE found == {i \in DOMAIN smine.local : smine.local[i].key = key}
<1> SUFFICES found = {}
  BY ZenonT(60)
<1>1. Len(smine.local) \in Nat /\ found \subseteq 1 .. Len(smine.local)
  BY SequenceFacts, ZenonT(60)
<1>2. SUFFICES ASSUME found # {} PROVE FALSE
  BY ZenonT(60)
<1>3. findLocalJob(key) = Max(found)
  BY <1>2, ZenonT(60) DEF findLocalJob
<1> HIDE DEF found
<1>4. Max(found) \in 1 .. Len(smine.local)
  BY <1>1, <1>2, GreatestOf, ZenonT(60)
<1>5. QED
  BY <1>1, <1>3, <1>4

\* A job whose content has a local job is found by it; it is added otherwise.
LEMMA NotifyByKeyLocal ==
  ASSUME NEW fix, DOMAIN fix.jobs \subseteq Nat \ {0}, ~BySerial(fix),
         NEW next \in Nat \ {0}, NEW next2 \in {next, next + 1}, MineTrue(fix, next, smine),
         NEW j \in DOMAIN fix.jobs, j = next2 - 1, NEW key, key = Content(fix, j), NEW d
  PROVE  LET m2 == NotifyByKey(smine, j, key, d) IN
         MineTrue(fix, next2, m2) /\ Keeps(fix, next, smine, next2, m2)
<1> DEFINE i == findLocalJob(key)
           m2 == NotifyByKey(smine, j, key, d)
<1>1. IsSequence(smine.local) /\ "local" \in DOMAIN smine
  BY ZenonT(60) DEF MineTrue
<1>2. CASE i = 0
  <2>1. m2 = addLocalJob(smine, j, key, d)
    BY <1>2, ZenonT(60) DEF NotifyByKey
  <2>2. \A k \in DOMAIN smine.local : smine.local[k].key # key
    BY <1>1, <1>2, MissingLocal, ZenonT(60)
  <2> HIDE DEF m2
  <2>3. MineTrue(fix, next2, m2) /\ Keeps(fix, next, smine, next2, m2)
    BY <2>1, <2>2, AddedLocal
  <2>4. QED
    BY <2>3, ZenonT(60) DEF m2
<1>3. CASE i # 0
  <2>1. i \in DOMAIN smine.local
    BY <1>1, <1>3, FoundLocal, ZenonT(60)
  <2>2. m2 = [smine EXCEPT !.local[i].id = j, !.local[i].diff = d, !.local[i].diffs = JobDiff(@, d)]
    BY <1>3, ZenonT(60) DEF NotifyByKey
  <2> HIDE DEF m2, i
  <2> DEFINE e == m2.local[i]
  <2>3. /\ DOMAIN m2 = DOMAIN smine /\ m2.serial = smine.serial /\ m2.alive = smine.alive
        /\ DOMAIN m2.local = DOMAIN smine.local
        /\ \A k \in DOMAIN smine.local : k # i => m2.local[k] = smine.local[k]
    BY <2>1, <2>2, ZenonT(60) DEF MineTrue
  <2>4. /\ DOMAIN e = DOMAIN smine.local[i] /\ e.key = smine.local[i].key
        /\ e.serial = smine.local[i].serial /\ e.seen = smine.local[i].seen
    BY <2>1, <2>2, ZenonT(60) DEF MineTrue
  <2>5. IsSequence(m2.local)
    <3>1. PICK S : smine.local \in Seq(S)
      BY <1>1, ZenonT(60) DEF IsSequence
    <3>2. m2.local \in Seq(S \cup {e})
      <4>1. m2.local = [smine.local EXCEPT ![i] = e]
        BY <2>1, <2>2, ZenonT(60) DEF MineTrue
      <4>2. smine.local \in Seq(S \cup {e})
        BY <3>1
      <4> HIDE DEF e
      <4>3. QED
        BY <2>1, <4>1, <4>2
    <3>3. QED
      BY <3>2, ZenonT(60) DEF IsSequence
  <2> HIDE DEF e
  <2>6. ASSUME NEW k \in DOMAIN smine.local
        PROVE  /\ LocalFields \subseteq DOMAIN m2.local[k]
               /\ m2.local[k].key = smine.local[k].key
               /\ m2.local[k].serial = smine.local[k].serial
               /\ smine.local[k].seen \subseteq m2.local[k].seen
    <3>1. LocalFields \subseteq DOMAIN smine.local[k]
      BY ZenonT(60) DEF MineTrue, LocalFields
    <3>2. CASE k = i
      BY <2>4, <3>1, <3>2, ZenonT(60) DEF e
    <3>3. CASE k # i
      BY <2>3, <3>1, <3>3, ZenonT(60)
    <3>4. QED
      BY <3>2, <3>3, ZenonT(60)
  <2>7. next \in Nat /\ next2 \in Nat /\ next <= next2
    OBVIOUS
  <2>8. MineTrue(fix, next2, m2) /\ Keeps(fix, next, smine, next2, m2)
    BY <2>3, <2>5, <2>6, <2>7, SameLocal, ZenonT(60)
  <2>9. QED
    BY <2>8, ZenonT(60) DEF m2
<1>4. QED
  BY <1>2, <1>3, ZenonT(60)

\* clearLocalJobs() forgets no share that could come again.
LEMMA ClearedSession ==
  ASSUME ShareConf(sconf), NEW next \in 1 .. Len(sconf.jobs) + 1, NEW m, NEW isClean,
         MineTrue(Fixed(sconf), next, m)
  PROVE  LET m2 == clearLocalJobs(m, isClean) IN
         MineTrue(Fixed(sconf), next, m2) /\ Keeps(Fixed(sconf), next, m, next, m2)
<1> DEFINE n == IF isClean THEN LocalKeep ELSE LocalMax
<1>1. n \in Nat /\ n >= sconf.keepLocal
  BY DEF ShareConf, LocalKeep, LocalMax
<1>2. clearLocalJobs(m, isClean) = keepLocalJobs(m, n)
  BY ZenonT(60) DEF clearLocalJobs
<1> HIDE DEF n
<1>3. QED
  BY <1>1, <1>2, ClearedLocal, ZenonT(60)

\* A job that is sent to the session, the latest or the next.
LEMMA NotifiedLocal ==
  ASSUME ShareConf(sconf), NEW next \in Nat \ {0}, NEW next2 \in {next, next + 1},
         MineTrue(Fixed(sconf), next, smine), NEW j \in DOMAIN sconf.jobs, j = next2 - 1,
         NEW d, NEW isClean
  PROVE  LET m2 == Notified(j, d, isClean) IN
         MineTrue(Fixed(sconf), next2, m2) /\ Keeps(Fixed(sconf), next, smine, next2, m2)
<1> DEFINE fix == Fixed(sconf)
           m2 == Notified(j, d, isClean)
<1>1. /\ fix.coin = sconf.coin /\ fix.jobs = sconf.jobs
      /\ DOMAIN sconf.jobs = 1 .. Len(sconf.jobs) /\ Len(sconf.jobs) \in Nat
      /\ sconf.coin \in {"eth", "beam", "grin", "ckb", "decred", "bytom"}
      /\ Content(fix, j) = IF sconf.coin = "ckb" THEN j ELSE Job(j).key
  BY FixedFacts, ZenonT(60) DEF ShareConf, ContentOf, Job
<1>2. /\ DOMAIN fix.jobs \subseteq Nat \ {0} /\ j \in DOMAIN fix.jobs
      /\ next2 \in 1 .. Len(sconf.jobs) + 1 /\ next \in Nat /\ next2 \in Nat /\ next <= next2
  BY <1>1
<1>3. CASE ~smine.authenticated \/ ~smine.alive
  <2>1. m2 = smine
    BY <1>3, ZenonT(60) DEF Notified
  <2>2. \A k \in DOMAIN smine.local : LocalFields \subseteq DOMAIN smine.local[k]
    BY ZenonT(60) DEF MineTrue, LocalFields
  <2>3. IsSequence(smine.local)
    BY ZenonT(60) DEF MineTrue
  <2> HIDE DEF fix
  <2>4. MineTrue(fix, next2, smine) /\ Keeps(fix, next, smine, next2, smine)
    BY <1>2, <2>2, <2>3, SameLocal, ZenonT(60) DEF fix
  <2>5. QED
    BY <2>1, <2>4, ZenonT(60) DEF fix
<1>4. CASE sconf.coin \in {"eth", "beam", "grin", "ckb"} /\ ~(~smine.authenticated \/ ~smine.alive)
  <2> DEFINE m == NotifyByKey(smine, j, Content(fix, j), d)
  <2>1. m2 = clearLocalJobs(m, isClean)
    BY <1>1, <1>4, ZenonT(60) DEF Notified, NotifyEth, NotifyBeam, NotifyGrin, NotifyCkb
  <2>2. ~BySerial(fix)
    BY <1>1, <1>4, ZenonT(60) DEF BySerial
  <2> HIDE DEF fix
  <2>3. MineTrue(fix, next2, m) /\ Keeps(fix, next, smine, next2, m)
    BY <1>2, <2>2, NotifyByKeyLocal, ZenonT(60) DEF fix
  <2> HIDE DEF m
  <2>4. MineTrue(fix, next2, m2) /\ Keeps(fix, next2, m, next2, m2)
    BY <1>2, <2>1, <2>3, ClearedSession, ZenonT(60) DEF fix
  <2> HIDE DEF m2
  <2>5. Keeps(fix, next, smine, next2, m2)
    BY <2>3, <2>4, KeepsTwice, ZenonT(60)
  <2>6. QED
    BY <2>4, <2>5, ZenonT(60) DEF m2, fix
<1>5. CASE sconf.coin \in {"decred", "bytom"} /\ ~(~smine.authenticated \/ ~smine.alive)
  <2> DEFINE m == addLocalJob(smine, j, smine.serial % ShortIds, d)
  <2>1. m2 = IF sconf.coin = "decred" THEN clearLocalJobs(m, isClean) ELSE m
    BY <1>1, <1>5, ZenonT(60) DEF Notified, NotifyDecred, NotifyBytom
  <2>2. BySerial(fix)
    BY <1>1, <1>5, ZenonT(60) DEF BySerial
  <2> HIDE DEF fix
  <2>3. MineTrue(fix, next2, m) /\ Keeps(fix, next, smine, next2, m)
    BY <1>2, <2>2, AddedLocal, ZenonT(60) DEF fix
  <2> HIDE DEF m
  <2>4. CASE sconf.coin = "decred"
    <3>1. m2 = clearLocalJobs(m, isClean)
      BY <2>1, <2>4, ZenonT(60)
    <3>2. MineTrue(fix, next2, m2) /\ Keeps(fix, next2, m, next2, m2)
      BY <1>2, <2>3, <3>1, ClearedSession, ZenonT(60) DEF fix
    <3> HIDE DEF m2
    <3>3. Keeps(fix, next, smine, next2, m2)
      BY <2>3, <3>2, KeepsTwice, ZenonT(60)
    <3>4. QED
      BY <3>2, <3>3, ZenonT(60) DEF m2, fix
  <2>5. CASE sconf.coin # "decred"
    BY <2>1, <2>3, <2>5, ZenonT(60) DEF fix
  <2>6. QED
    BY <2>4, <2>5, ZenonT(60)
<1>6. QED
  BY <1>1, <1>3, <1>4, <1>5, ZenonT(60)

\* markAllJobsAsStale() changes no job and no number.
LEMMA StaleMarks ==
  ASSUME JobsTrue(sconf, sjobs), NEW h
  PROVE  JobsTrue(sconf, markAllJobsAsStale(h)) /\ markAllJobsAsStale(h).next = sjobs.next
BY ZenonT(60) DEF JobsTrue, markAllJobsAsStale

\* The numbers of the jobs, as the invariant has them.
LEMMA JobNumbers ==
  ASSUME SharesInv
  PROVE  /\ Fixed(sconf).coin = sconf.coin /\ Fixed(sconf).jobs = sconf.jobs
         /\ DOMAIN sconf.jobs = 1 .. Len(sconf.jobs) /\ Len(sconf.jobs) \in Nat
         /\ DOMAIN Fixed(sconf).jobs \subseteq Nat \ {0} /\ sjobs.next \in Nat \ {0}
BY FixedFacts DEF SharesInv, ShareConf, JobsTrue

\* The configuration, of which a step changes what is left of the bounds only.
SameConf == ShareConf(sconf') /\ Fixed(sconf') = Fixed(sconf) /\ Len(sconf'.jobs) = Len(sconf.jobs)

\* The invariant after a step, from its parts
LEMMA ConfPrimed ==
  ASSUME SameConf, JobsTrue(sconf, sjobs'),
         MineTrue(Fixed(sconf), sjobs'.next, smine'),
         Evidence(Fixed(sconf), sjobs'.next, smine', checks', returns', topics')
  PROVE  SharesInv'
<1>1. JobsTrue(sconf', sjobs')
  BY ZenonT(60) DEF SameConf, JobsTrue
<1>2. QED
  BY <1>1, ZenonT(60) DEF SameConf, SharesInv

\* A share that is not seen yet, or is refused as a duplicate, is settled.
LEMMA SettledShares ==
  ASSUME SharesInv, SameConf, UNCHANGED <<checks, returns>>, smine.alive,
         NEW i \in DOMAIN smine.local, NEW x, NEW r, NEW found \in BOOLEAN, NEW log, NEW bad,
         Settled(i, x, r, found, log, bad),
         \/ /\ x.nonce \notin smine.local[i].seen
            /\ IsSolution(Fixed(sconf), Entry(smine.local[i], x, r)) => found
         \/ r.status = "DUPLICATE_SHARE" /\ ~found
  PROVE  SharesInv'
<1> DEFINE fix == Fixed(sconf)
           next == sjobs.next
           w == Work(fix, smine.local[i])
           a == Entry(smine.local[i], x, r)
<1>1. /\ DOMAIN fix.jobs \subseteq Nat \ {0} /\ next \in Nat /\ fix.coin = sconf.coin
      /\ MineTrue(fix, next, smine) /\ Evidence(fix, next, smine, checks, returns, topics)
  BY JobNumbers, ZenonT(60) DEF SharesInv
<1>2. /\ a.work = w /\ a.nonce = x.nonce /\ a.status = r.status
      /\ EntryTrue(fix, a)
  BY <1>1, ZenonT(60) DEF Entry, EntryTrue, ByContent, Work, BySerial
<1>3. SeenNow(smine, i, x.nonce, smine')
  BY ZenonT(60) DEF Settled, SharesInv, MineTrue, SeenNow
<1>4. JobsTrue(sconf, sjobs') /\ sjobs'.next = next
  BY StaleMarks, ZenonT(60) DEF Settled, SharesInv
<1>5. /\ {"shares", "solved"} \subseteq DOMAIN topics'
      /\ topics'.shares = IF log THEN Append(topics.shares, a) ELSE topics.shares
      /\ topics'.solved = IF found THEN Append(topics.solved, <<w, x.nonce>>) ELSE topics.solved
  BY <1>2, ZenonT(60) DEF Settled, SharesInv, Evidence, SharesTrue
<1> HIDE DEF a, fix, next
<1>6. /\ MineTrue(fix, next, smine') /\ Keeps(fix, next, smine, next, smine')
      /\ Spent(fix, next, smine', w, x.nonce)
      /\ x.nonce \notin smine.local[i].seen => ~Spent(fix, next, smine, w, x.nonce)
  BY <1>1, <1>3, NonceSeen, ZenonT(60)
<1> HIDE DEF w
<1>7. Evidence(fix, next, smine', checks, returns, topics)
  BY <1>1, <1>6, Carry, ZenonT(60)
<1> DEFINE t == [shares |-> topics.shares, solved |-> topics'.solved]
<1>8. t.shares = topics.shares /\ t.solved = topics'.solved /\ {"shares", "solved"} \subseteq DOMAIN t
  BY ZenonT(60)
<1> HIDE DEF t
<1>9. ASSUME x.nonce \notin smine.local[i].seen, IsSolution(fix, a) => found
      PROVE  Evidence(fix, next, smine', checks, returns, topics')
  <2>1. Unclaimed(fix, checks, returns, topics, w, x.nonce) /\ ~Sent(topics, w, x.nonce)
    BY <1>1, <1>6, <1>9, FreshIsUnclaimed, ZenonT(60)
  <2>2. Evidence(fix, next, smine', checks, returns, t) /\ (found => Sent(t, w, x.nonce))
    <3>1. CASE found
      <4>1. Unchecked(fix, checks, w, x.nonce)
        BY <2>1, ZenonT(60) DEF Unclaimed, Unchecked
      <4>2. SentNow(topics, w, x.nonce, t)
        BY <1>5, <1>8, <3>1, ZenonT(60) DEF SentNow
      <4>3. QED
        BY <1>6, <1>7, <2>1, <4>1, <4>2, SendSolution, ZenonT(60)
    <3>2. CASE ~found
      <4>1. t.solved = topics.solved
        BY <1>5, <1>8, <3>2, ZenonT(60)
      <4>2. QED
        BY <1>7, <1>8, <3>2, <4>1, SameTopics, ZenonT(60)
    <3>3. QED
      BY <3>1, <3>2, ZenonT(60)
  <2>3. Unclaimed(fix, checks, returns, t, w, x.nonce)
    BY <1>8, <2>1, ZenonT(60) DEF Unclaimed
  <2>4. CASE log
    <3>1. topics'.shares = Append(t.shares, a) /\ topics'.solved = t.solved
      BY <1>5, <1>8, <2>4, ZenonT(60)
    <3>2. Spent(fix, next, smine', a.work, a.nonce)
          /\ Unclaimed(fix, checks, returns, t, a.work, a.nonce)
      BY <1>2, <1>6, <2>3, ZenonT(60)
    <3>3. IsSolution(fix, a) => Sent(t, a.work, a.nonce)
      BY <1>2, <1>9, <2>2, ZenonT(60)
    <3>4. QED
      BY <1>2, <1>5, <2>2, <3>1, <3>2, <3>3, LogShare, ZenonT(60)
  <2>5. CASE ~log
    <3>1. topics'.shares = t.shares /\ topics'.solved = t.solved
      BY <1>5, <1>8, <2>5, ZenonT(60)
    <3>2. QED
      BY <1>5, <2>2, <3>1, SameTopics, ZenonT(60)
  <2>6. QED
    BY <2>4, <2>5, ZenonT(60)
<1>10. ASSUME r.status = "DUPLICATE_SHARE", ~found
       PROVE  Evidence(fix, next, smine', checks, returns, topics')
  <2>1. ~Accepted(a.status) /\ ~IsSolution(fix, a)
    BY <1>2, <1>10, ZenonT(60) DEF Accepted, IsSolution
  <2>2. topics'.solved = topics.solved
    BY <1>5, <1>10, ZenonT(60)
  <2>3. CASE log
    <3>1. topics'.shares = Append(topics.shares, a)
      BY <1>5, <2>3, ZenonT(60)
    <3>2. QED
      BY <1>2, <1>5, <1>7, <2>1, <2>2, <3>1, LogShare, ZenonT(60)
  <2>4. CASE ~log
    <3>1. topics'.shares = topics.shares
      BY <1>5, <2>4, ZenonT(60)
    <3>2. QED
      BY <1>5, <1>7, <2>2, <3>1, SameTopics, ZenonT(60)
  <2>5. QED
    BY <2>3, <2>4, ZenonT(60)
<1>11. Evidence(fix, next, smine', checks, returns, topics')
  BY <1>9, <1>10, ZenonT(60) DEF fix, a
<1>12. QED
  BY <1>4, <1>6, <1>11, ConfPrimed, ZenonT(60) DEF fix, next

\* What is only answered
LEMMA AnsweredShares ==
  ASSUME SharesInv, SameConf, UNCHANGED <<checks, returns>>, NEW bad, Answered(bad)
  PROVE  SharesInv'
<1> DEFINE fix == Fixed(sconf)
           next == sjobs.next
<1>1. /\ DOMAIN smine' = DOMAIN smine /\ smine'.alive = smine.alive
      /\ smine'.serial = smine.serial /\ smine'.local = smine.local
  BY ZenonT(60) DEF Answered, SharesInv, MineTrue
<1>2. MineTrue(fix, next, smine')
  BY <1>1, ZenonT(60) DEF SharesInv, MineTrue
<1>3. Keeps(fix, next, smine, next, smine')
  BY <1>1, ZenonT(60) DEF Keeps, Spent, Given
<1>4. Evidence(fix, next, smine', checks, returns, topics)
  BY <1>3, Carry, ZenonT(60) DEF SharesInv
<1>5. UNCHANGED <<sjobs, topics>> /\ JobsTrue(sconf, sjobs)
  BY ZenonT(60) DEF Answered, SharesInv
<1>6. QED
  BY <1>2, <1>4, <1>5, ConfPrimed, ZenonT(60)

\* No check but that of Ethereum finds a stale share to solve a block.
LEMMA CheckStatus ==
  ASSUME NEW l, NEW x
  PROVE  /\ CheckBeam(l, x).status # "SOLVED_STALE"
         /\ CheckGrin(l, x).status # "SOLVED_STALE"
         /\ CheckCkb(l, x).status # "SOLVED_STALE"
         /\ CheckBytom(l, x).status # "SOLVED_STALE"
         /\ CheckDecred(l, x).status \notin {"SOLVED", "SOLVED_STALE"}
<1>1. ByJobDiffs(l, x, "ACCEPT").status \in {"LOW_DIFFICULTY", "ACCEPT"}
  BY ZenonT(60) DEF ByJobDiffs, Result
<1>2. checkProofOfWork(l, x).status \in {"LOW_DIFFICULTY", "ACCEPT", "SOLVED"}
  BY ZenonT(60) DEF checkProofOfWork, Result
<1>3. \A st, d : Result(st, d).status = st
  BY ZenonT(60) DEF Result
<1>4. CheckBeam(l, x).status # "SOLVED_STALE"
  BY <1>1, <1>3, ZenonT(60) DEF CheckBeam
<1>5. CheckGrin(l, x).status # "SOLVED_STALE"
  BY <1>1, <1>3, ZenonT(60) DEF CheckGrin
<1>6. CheckCkb(l, x).status # "SOLVED_STALE"
  BY <1>1, <1>3, ZenonT(60) DEF CheckCkb
<1>7. CheckBytom(l, x).status # "SOLVED_STALE"
  BY <1>2, <1>3, ZenonT(60) DEF CheckBytom
<1>8. CheckDecred(l, x).status \notin {"SOLVED", "SOLVED_STALE"}
  BY <1>1, <1>3, ZenonT(60) DEF CheckDecred
<1>9. QED
  BY <1>4, <1>5, <1>6, <1>7, <1>8, ZenonT(60)

\* A share of a coin that is checked by checkShare() at once.
LEMMA SubmitCheckedShares ==
  ASSUME SharesInv, SameConf, UNCHANGED <<checks, returns>>, smine.alive,
         NEW i \in DOMAIN smine.local, NEW x, NEW r, r.status # "SOLVED_STALE",
         sconf.coin # "decred", SubmitChecked(i, x, r)
  PROVE  SharesInv'
<1> DEFINE log == Accepted(r.status) \/ ~Spamming(smine.bad)
           a == Entry(smine.local[i], x, r)
<1>1. CASE x.nonce \in smine.local[i].seen
  BY <1>1, AnsweredShares, ZenonT(60) DEF SubmitChecked
<1>2. CASE x.nonce \notin smine.local[i].seen
  <2>1. Settled(i, x, r, r.status = "SOLVED", log, smine.bad)
    BY <1>2, ZenonT(60) DEF SubmitChecked
  <2>2. IsSolution(Fixed(sconf), a) => r.status = "SOLVED"
    BY FixedFacts, ZenonT(60) DEF IsSolution, Entry
  <2>3. (r.status = "SOLVED") \in BOOLEAN
    BY ZenonT(60)
  <2> HIDE DEF log
  <2>4. QED
    BY <1>2, <2>1, <2>2, <2>3, SettledShares, ZenonT(60)
<1>3. QED
  BY <1>1, <1>2, ZenonT(60)

\* A share of Decred, which is sent before its difficulty is compared.
LEMMA SubmitDecredShares ==
  ASSUME SharesInv, SameConf, UNCHANGED <<checks, returns>>, smine.alive,
         NEW i \in DOMAIN smine.local, NEW x, sconf.coin = "decred", SubmitDecred(i, x)
  PROVE  SharesInv'
<1> DEFINE l == smine.local[i]
           fresh == x.nonce \notin l.seen
           r == IF fresh THEN CheckDecred(l, x) ELSE Result("DUPLICATE_SHARE", l.diff)
           bad == IF Accepted(r.status) THEN smine.bad ELSE smine.bad + 1
           checked == fresh /\ r.status \in {"ACCEPT", "LOW_DIFFICULTY"}
           found == checked /\ Solves(x, l.id)
           log == Accepted(r.status) \/ ~Spamming(bad)
           a == Entry(l, x, r)
<1>1. Settled(i, x, r, found, log, bad)
  BY ZenonT(60) DEF SubmitDecred
<1>2. found \in BOOLEAN
  BY ZenonT(60)
<1>3. ASSUME fresh
      PROVE  IsSolution(Fixed(sconf), a) => found
  <2>1. r = CheckDecred(l, x)
    BY <1>3, ZenonT(60)
  <2>2. r.status \notin {"SOLVED", "SOLVED_STALE"}
    BY <2>1, CheckStatus, ZenonT(60)
  <2>3. a.status = r.status /\ a.reach = x.reach /\ a.job = l.id
    BY ZenonT(60) DEF Entry
  <2> HIDE DEF a, r
  <2>4. QED
    BY <1>3, <2>2, <2>3, FixedFacts, ZenonT(60) DEF IsSolution, Solves, Job
<1>4. ASSUME ~fresh
      PROVE  r.status = "DUPLICATE_SHARE" /\ ~found
  BY <1>4, ZenonT(60) DEF Result
<1> HIDE DEF r, found, log, bad, checked
<1>5. QED
  BY <1>1, <1>2, <1>3, <1>4, SettledShares, ZenonT(60)

\* A share of Ethereum: it is spent now, and verified later.
LEMMA SubmitEthShares ==
  ASSUME SharesInv, SameConf, UNCHANGED returns, smine.alive,
         NEW i \in DOMAIN smine.local, NEW x, sconf.coin = "eth", SubmitEth(i, x)
  PROVE  SharesInv'
<1> DEFINE fix == Fixed(sconf)
           next == sjobs.next
           l == smine.local[i]
           w == Work(fix, l)
           preliminary == x.claim /\ Solves(x, l.id)
           c == [l |-> [l EXCEPT !.seen = {}], x |-> x, preliminary |-> preliminary,
                 stale |-> l.id \in sjobs.stale]
<1>1. CASE x.nonce \in l.seen
  BY <1>1, AnsweredShares, ZenonT(60) DEF SubmitEth
<1>2. CASE x.nonce \notin l.seen
  <2>1. /\ smine' = [smine EXCEPT !.local[i].seen = @ \cup {x.nonce}]
        /\ topics' = IF preliminary
                     THEN [topics EXCEPT !.solved = Append(@, <<l.key, x.nonce>>)] ELSE topics
        /\ checks' = checks \cup {c}
        /\ UNCHANGED sjobs
    BY <1>2, ZenonT(60) DEF SubmitEth
  <2>2. /\ DOMAIN fix.jobs \subseteq Nat \ {0} /\ next \in Nat /\ fix.coin = "eth"
        /\ MineTrue(fix, next, smine) /\ Evidence(fix, next, smine, checks, returns, topics)
    BY JobNumbers, ZenonT(60) DEF SharesInv
  <2>3. SeenNow(smine, i, x.nonce, smine')
    BY <2>1, ZenonT(60) DEF SharesInv, MineTrue, SeenNow
  <2>4. w = l.key
    BY <2>2, ZenonT(60) DEF Work, BySerial
  <2>5. c.x = x /\ Work(fix, c.l) = w /\ (c.preliminary <=> preliminary)
        /\ {"l", "x", "preliminary", "stale"} \subseteq DOMAIN c
    BY <2>2, ZenonT(60) DEF Work, BySerial, SharesInv, MineTrue
  <2>6. /\ {"shares", "solved"} \subseteq DOMAIN topics' /\ topics'.shares = topics.shares
        /\ topics'.solved = IF preliminary THEN Append(topics.solved, <<w, x.nonce>>)
                            ELSE topics.solved
    BY <2>1, <2>4, ZenonT(60) DEF SharesInv, Evidence, SharesTrue
  <2> HIDE DEF fix, next, c, preliminary
  <2>7. /\ MineTrue(fix, next, smine') /\ Keeps(fix, next, smine, next, smine')
        /\ Spent(fix, next, smine', w, x.nonce)
        /\ ~Spent(fix, next, smine, w, x.nonce)
    BY <1>2, <2>2, <2>3, NonceSeen, ZenonT(60)
  <2> HIDE DEF w
  <2>8. Evidence(fix, next, smine', checks, returns, topics)
    BY <2>2, <2>7, Carry, ZenonT(60)
  <2>9. Unclaimed(fix, checks, returns, topics, w, x.nonce) /\ ~Sent(topics, w, x.nonce)
    BY <2>2, <2>7, FreshIsUnclaimed, ZenonT(60)
  <2>10. Evidence(fix, next, smine', checks, returns, topics')
         /\ (preliminary <=> Sent(topics', w, x.nonce))
    <3>1. CASE preliminary
      <4>1. Unchecked(fix, checks, w, x.nonce)
        BY <2>9, ZenonT(60) DEF Unclaimed, Unchecked
      <4>2. SentNow(topics, w, x.nonce, topics')
        BY <2>6, <3>1, ZenonT(60) DEF SentNow
      <4>3. Evidence(fix, next, smine', checks, returns, topics') /\ Sent(topics', w, x.nonce)
        BY <2>7, <2>8, <2>9, <4>1, <4>2, SendSolution, ZenonT(60)
      <4>4. QED
        BY <3>1, <4>3, ZenonT(60)
    <3>2. CASE ~preliminary
      <4>1. topics'.solved = topics.solved
        BY <2>6, <3>2, ZenonT(60)
      <4>2. Evidence(fix, next, smine', checks, returns, topics')
        BY <2>6, <2>8, <4>1, SameTopics, ZenonT(60)
      <4>3. ~Sent(topics', w, x.nonce)
        BY <2>9, <4>1, ZenonT(60) DEF Sent
      <4>4. QED
        BY <3>2, <4>2, <4>3, ZenonT(60)
    <3>3. QED
      BY <3>1, <3>2, ZenonT(60)
  <2>11. Unclaimed(fix, checks, returns, topics', w, x.nonce)
    BY <2>6, <2>9, ZenonT(60) DEF Unclaimed
  <2>12. Evidence(fix, next, smine', checks \cup {c}, returns, topics')
    <3>1. /\ Spent(fix, next, smine', Work(fix, c.l), c.x.nonce)
          /\ Unclaimed(fix, checks, returns, topics', Work(fix, c.l), c.x.nonce)
          /\ c.preliminary <=> Sent(topics', Work(fix, c.l), c.x.nonce)
      BY <2>5, <2>7, <2>10, <2>11, ZenonT(60)
    <3>2. QED
      BY <2>2, <2>5, <2>10, <3>1, AddCheck, ZenonT(60)
  <2>13. JobsTrue(sconf, sjobs') /\ sjobs'.next = next /\ checks' = checks \cup {c}
    BY <2>1, ZenonT(60) DEF SharesInv, next
  <2>14. QED
    BY <2>7, <2>12, <2>13, ConfPrimed, ZenonT(60) DEF fix
<1>3. QED
  BY <1>1, <1>2, ZenonT(60)

\* What the invariant needs of the configuration stays.
LEMMA ConfKept ==
  ASSUME ShareConf(sconf), DOMAIN sconf' = DOMAIN sconf, sconf'.coin = sconf.coin,
         sconf'.jobs = sconf.jobs, sconf'.lights = sconf.lights,
         sconf'.keepLocal = sconf.keepLocal, sconf'.maxLocal = sconf.maxLocal
  PROVE  SameConf
<1>1. \A j : ContentOf(sconf', j) = ContentOf(sconf, j)
  BY ZenonT(60) DEF ContentOf
<1>2. ComesBackSoon(sconf) => ComesBackSoon(sconf')
  BY <1>1 DEF ComesBackSoon
<1>3. QED
  BY <1>2, ZenonT(60) DEF ShareConf, SameConf, Fixed

\* The configuration stays.
LEMMA ConfSame ==
  ASSUME ShareConf(sconf), sconf' = sconf
  PROVE  SameConf
BY ConfKept, ZenonT(60)

\* A submit keeps the invariant, whatever the coin.
LEMMA SubmitShares ==
  ASSUME SharesInv, NEW key, NEW x, Submit(key, x)
  PROVE  SharesInv'
<1> DEFINE i == findLocalJob(key)
           l == smine.local[i]
<1>1. SameConf
  <2>1. /\ DOMAIN sconf' = DOMAIN sconf /\ sconf'.coin = sconf.coin
        /\ sconf'.jobs = sconf.jobs /\ sconf'.lights = sconf.lights
        /\ sconf'.keepLocal = sconf.keepLocal /\ sconf'.maxLocal = sconf.maxLocal
    BY ZenonT(60) DEF Submit, SharesInv, ShareConf
  <2>2. QED
    BY <2>1, ConfKept, ZenonT(60) DEF SharesInv
<1>2. smine.alive /\ UNCHANGED returns
  BY ZenonT(60) DEF Submit
<1>3. sconf.coin \in {"eth", "beam", "grin", "ckb", "decred", "bytom"} /\ IsSequence(smine.local)
  BY ZenonT(60) DEF SharesInv, ShareConf, MineTrue
<1>4. CASE ~smine.authenticated \/ ~x.ok \/ i = 0 \/ l.id \notin sjobs.known
  BY <1>1, <1>2, <1>4, AnsweredShares, ZenonT(60) DEF Submit
<1>5. CASE ~(~smine.authenticated \/ ~x.ok \/ i = 0 \/ l.id \notin sjobs.known)
  <2>1. i \in DOMAIN smine.local
    BY <1>3, <1>5, FoundLocal, ZenonT(60)
  <2>2. CASE sconf.coin = "eth"
    <3>1. SubmitEth(i, x)
      BY <1>5, <2>2, ZenonT(60) DEF Submit
    <3>2. QED
      BY <1>1, <1>2, <2>1, <2>2, <3>1, SubmitEthShares, ZenonT(60)
  <2>3. CASE sconf.coin = "decred"
    <3>1. SubmitDecred(i, x) /\ UNCHANGED checks
      BY <1>5, <2>3, ZenonT(60) DEF Submit
    <3>2. QED
      BY <1>1, <1>2, <2>1, <2>3, <3>1, SubmitDecredShares, ZenonT(60)
  <2>4. CASE sconf.coin \in {"beam", "grin", "ckb", "bytom"}
    <3>1. PICK r : r.status # "SOLVED_STALE" /\ SubmitChecked(i, x, r)
      <4>1. CASE sconf.coin = "beam"
        BY <1>5, <4>1, CheckStatus, ZenonT(60) DEF Submit, SubmitBeam
      <4>2. CASE sconf.coin = "grin"
        BY <1>5, <4>2, CheckStatus, ZenonT(60) DEF Submit, SubmitGrin
      <4>3. CASE sconf.coin = "ckb"
        BY <1>5, <4>3, CheckStatus, ZenonT(60) DEF Submit, SubmitCkb
      <4>4. CASE sconf.coin = "bytom"
        <5>1. SubmitBytom(i, x)
          BY <1>5, <4>4, ZenonT(60) DEF Submit
        <5>2. SubmitChecked(i, x, CheckBytom(l, x))
          BY <5>1, ZenonT(60) DEF SubmitBytom, SubmitChecked
        <5>3. QED
          BY <5>2, CheckStatus, ZenonT(60)
      <4>5. QED
        BY <2>4, <4>1, <4>2, <4>3, <4>4, ZenonT(60)
    <3>2. UNCHANGED checks
      BY <1>5, <2>4, ZenonT(60) DEF Submit
    <3>3. QED
      BY <1>1, <1>2, <2>1, <2>4, <3>1, <3>2, SubmitCheckedShares, ZenonT(60)
  <2>5. QED
    BY <1>3, <2>2, <2>3, <2>4, ZenonT(60)
<1>6. QED
  BY <1>4, <1>5, ZenonT(60)

-----------------------------------------------------------------------------
(* The share workers *)
LEMMA EthFailsShares ==
  ASSUME SharesInv, NEW c, EthFails(c)
  PROVE  SharesInv'
<1> DEFINE fix == Fixed(sconf)
           next == sjobs.next
           r == Result("INTERNAL_ERROR", c.l.diff)
<1>1. SameConf
  <2>1. /\ DOMAIN sconf' = DOMAIN sconf /\ sconf'.coin = sconf.coin
        /\ sconf'.jobs = sconf.jobs /\ sconf'.lights = sconf.lights
        /\ sconf'.keepLocal = sconf.keepLocal /\ sconf'.maxLocal = sconf.maxLocal
    BY ZenonT(60) DEF EthFails, SharesInv, ShareConf
  <2>2. QED
    BY <2>1, ConfKept, ZenonT(60) DEF SharesInv
<1>2. /\ Evidence(fix, next, smine, checks \ {c}, returns, topics)
      /\ Spent(fix, next, smine, Work(fix, c.l), c.x.nonce)
      /\ Unclaimed(fix, checks \ {c}, returns, topics, Work(fix, c.l), c.x.nonce)
      /\ fix.coin = "eth"
  BY DropCheck, ZenonT(60) DEF EthFails, SharesInv
<1>3. r.status \notin {"SOLVED", "SOLVED_STALE"}
  BY ZenonT(60) DEF Result
<1>4. /\ checks' = checks \ {c} /\ returns' = Append(returns, [c |-> c, r |-> r])
      /\ UNCHANGED <<sjobs, smine, topics>>
  BY ZenonT(60) DEF EthFails
<1> HIDE DEF r
<1>5. Evidence(fix, next, smine, checks', returns', topics)
  BY <1>2, <1>3, <1>4, AddReturn, ZenonT(60)
<1>6. QED
  BY <1>1, <1>4, <1>5, ConfPrimed, ZenonT(60) DEF SharesInv

\* A verified share waits for the session, its solution is sent by now.
LEMMA EthComputesShares ==
  ASSUME SharesInv, NEW c, EthComputes(c)
  PROVE  SharesInv'
<1> DEFINE fix == Fixed(sconf)
           next == sjobs.next
           r == EthResult(c)
           w == Work(fix, c.l)
           cs == checks \ {c}
<1>1. SameConf
  BY ConfSame, ZenonT(60) DEF EthComputes, SharesInv
<1>2. /\ Evidence(fix, next, smine, cs, returns, topics)
      /\ Spent(fix, next, smine, w, c.x.nonce)
      /\ Unclaimed(fix, cs, returns, topics, w, c.x.nonce)
      /\ c.preliminary <=> Sent(topics, w, c.x.nonce)
      /\ fix.coin = "eth"
  BY DropCheck, ZenonT(60) DEF EthComputes, SharesInv
<1>3. w = c.l.key
  BY <1>2, ZenonT(60) DEF Work, BySerial
<1>4. r.status \in {"SOLVED", "SOLVED_STALE"} => Solves(c.x, c.l.id)
  <2>1. \A st, d : Result(st, d).status = st
    BY ZenonT(60) DEF Result
  <2>2. ByJobDiffs(c.l, c.x, "ACCEPT").status \in {"LOW_DIFFICULTY", "ACCEPT"}
    BY <2>1, ZenonT(60) DEF ByJobDiffs
  <2>3. ByJobDiffs(c.l, c.x, "ACCEPT_STALE").status \in {"LOW_DIFFICULTY", "ACCEPT_STALE"}
    BY <2>1, ZenonT(60) DEF ByJobDiffs
  <2>4. CASE c.stale
    BY <2>3, <2>4, ZenonT(60) DEF EthResult
  <2>5. CASE ~c.stale
    BY <2>2, <2>5, ZenonT(60) DEF EthResult
  <2>6. QED
    BY <2>4, <2>5, ZenonT(60)
<1>5. /\ checks' = cs /\ returns' = Append(returns, [c |-> c, r |-> r])
      /\ UNCHANGED <<sjobs, smine>>
      /\ topics' = IF Solves(c.x, c.l.id) /\ SendsSolution(c)
                   THEN [topics EXCEPT !.solved = Append(@, <<w, c.x.nonce>>)] ELSE topics
  BY <1>3, ZenonT(60) DEF EthComputes
<1>6. {"shares", "solved"} \subseteq DOMAIN topics
  BY ZenonT(60) DEF SharesInv, Evidence, SharesTrue
<1> HIDE DEF r, fix, next, cs, w
<1>7. /\ Evidence(fix, next, smine, cs, returns, topics')
      /\ Unclaimed(fix, cs, returns, topics', w, c.x.nonce)
      /\ Solves(c.x, c.l.id) => Sent(topics', w, c.x.nonce)
  <2>1. CASE Solves(c.x, c.l.id) /\ ~c.preliminary
    <3>1. SentNow(topics, w, c.x.nonce, topics')
      BY <1>5, <1>6, <2>1, ZenonT(60) DEF SendsSolution, SentNow
    <3>2. Unchecked(fix, cs, w, c.x.nonce)
      BY <1>2, ZenonT(60) DEF Unclaimed, Unchecked
    <3>3. ~Sent(topics, w, c.x.nonce)
      BY <1>2, <2>1, ZenonT(60)
    <3>4. Evidence(fix, next, smine, cs, returns, topics') /\ Sent(topics', w, c.x.nonce)
      BY <1>2, <3>1, <3>2, <3>3, SendSolution
    <3>5. Unclaimed(fix, cs, returns, topics', w, c.x.nonce)
      BY <1>2, <3>1, ZenonT(60) DEF Unclaimed, SentNow
    <3>6. QED
      BY <3>4, <3>5, ZenonT(60)
  <2>2. CASE ~(Solves(c.x, c.l.id) /\ ~c.preliminary)
    <3>1. topics' = topics
      BY <1>5, <2>2, ZenonT(60) DEF SendsSolution
    <3>2. QED
      BY <1>2, <2>2, <3>1, ZenonT(60)
  <2>3. QED
    BY <2>1, <2>2, ZenonT(60)
<1>8. Evidence(fix, next, smine, cs, Append(returns, [c |-> c, r |-> r]), topics')
  BY <1>2, <1>4, <1>7, AddReturn, ZenonT(60) DEF w
<1>9. QED
  BY <1>1, <1>5, <1>8, ConfPrimed, ZenonT(60) DEF SharesInv, fix, next

\* The result of a verification is credited.
LEMMA EthReturnsShares ==
  ASSUME SharesInv, EthReturns
  PROVE  SharesInv'
<1> DEFINE fix == Fixed(sconf)
           next == sjobs.next
           c == Head(returns).c
           r == Head(returns).r
           w == Work(fix, c.l)
           a == Entry(c.l, c.x, r)
           log == ~smine.alive \/ Accepted(r.status) \/ ~Spamming(smine.bad)
<1>1. SameConf
  BY ConfSame, ZenonT(60) DEF EthReturns, SharesInv
<1>2. /\ Evidence(fix, next, smine, checks, Tail(returns), topics)
      /\ fix.coin = "eth"
      /\ Spent(fix, next, smine, w, c.x.nonce)
      /\ Unclaimed(fix, checks, Tail(returns), topics, w, c.x.nonce)
      /\ r.status \in {"SOLVED", "SOLVED_STALE"} => Sent(topics, w, c.x.nonce)
  BY TakeReturn, ZenonT(60) DEF EthReturns, SharesInv
<1>3. /\ a.work = w /\ a.nonce = c.x.nonce /\ a.status = r.status
      /\ EntryTrue(fix, a)
  BY FixedFacts, ZenonT(60) DEF Entry, EntryTrue, ByContent, Work, BySerial
<1>4. IsSolution(fix, a) => Sent(topics, a.work, a.nonce)
  <2> HIDE DEF a, fix
  <2>1. QED
    BY <1>2, <1>3, ZenonT(60) DEF IsSolution
<1>5. /\ topics' = IF log THEN [topics EXCEPT !.shares = Append(@, a)] ELSE topics
      /\ returns' = Tail(returns)
      /\ UNCHANGED <<smine, checks>>
  BY ZenonT(60) DEF EthReturns
<1>6. JobsTrue(sconf, sjobs') /\ sjobs'.next = next
  BY StaleMarks, ZenonT(60) DEF EthReturns, SharesInv
<1>7. {"shares", "solved"} \subseteq DOMAIN topics
  BY ZenonT(60) DEF SharesInv, Evidence, SharesTrue
<1> HIDE DEF fix, next, r, a, log, c
<1>8. Evidence(fix, next, smine, checks, Tail(returns), topics')
  <2>1. CASE log
    <3>1. /\ {"shares", "solved"} \subseteq DOMAIN topics' /\ topics'.solved = topics.solved
          /\ topics'.shares = Append(topics.shares, a)
      BY <1>5, <1>7, <2>1, ZenonT(60)
    <3>2. /\ Spent(fix, next, smine, a.work, a.nonce)
          /\ Unclaimed(fix, checks, Tail(returns), topics, a.work, a.nonce)
      BY <1>2, <1>3, ZenonT(60)
    <3>3. QED
      BY <1>2, <1>3, <1>4, <3>1, <3>2, LogShare, ZenonT(60)
  <2>2. CASE ~log
    BY <1>2, <1>5, <2>2, ZenonT(60)
  <2>3. QED
    BY <2>1, <2>2, ZenonT(60)
<1>9. QED
  BY <1>1, <1>5, <1>6, <1>8, ConfPrimed, ZenonT(60) DEF SharesInv, fix, next

-----------------------------------------------------------------------------
(* The repository and the session *)
LEMMA BroadcastShares ==
  ASSUME SharesInv, NEW d, broadcastStratumJob(d)
  PROVE  SharesInv'
<1> DEFINE fix == Fixed(sconf)
           next == sjobs.next
           isClean == Job(next).height > sjobs.lastHeight
<1>1. SameConf /\ UNCHANGED <<checks, returns, topics>>
  BY ConfSame, ZenonT(60) DEF broadcastStratumJob, SharesInv
<1>2. /\ next <= Len(sconf.jobs) /\ Len(sconf.jobs) \in Nat /\ next \in Nat \ {0}
      /\ DOMAIN sconf.jobs = 1 .. Len(sconf.jobs) /\ fix.jobs = sconf.jobs
  BY JobNumbers, ZenonT(60) DEF broadcastStratumJob
<1>3. /\ sjobs'.next = next + 1 /\ sjobs'.known = sjobs.known \cup {next}
      /\ DOMAIN sjobs' = DOMAIN sjobs
  BY ZenonT(60) DEF broadcastStratumJob, SharesInv, JobsTrue
<1>4. JobsTrue(sconf, sjobs')
  <2>1. sjobs.known \cup {next} \subseteq 1 .. next
    BY <1>2 DEF SharesInv, JobsTrue
  <2>2. next + 1 \in 1 .. Len(sconf.jobs) + 1 /\ (next + 1) - 1 = next
    BY <1>2
  <2> HIDE DEF next
  <2>3. QED
    BY <1>3, <2>1, <2>2, ZenonT(60) DEF SharesInv, JobsTrue
<1>5. smine' = IF isClean THEN Notified(next, d, TRUE) ELSE smine
  BY ZenonT(60) DEF broadcastStratumJob
<1>6. MineTrue(fix, next + 1, smine') /\ Keeps(fix, next, smine, next + 1, smine')
  <2>1. CASE isClean
    <3>1. next + 1 \in {next, next + 1} /\ next \in DOMAIN sconf.jobs /\ next = (next + 1) - 1
      BY <1>2
    <3>2. MineTrue(fix, next, smine) /\ ShareConf(sconf)
      BY ZenonT(60) DEF SharesInv
    <3> HIDE DEF next
    <3>3. QED
      BY <1>2, <1>5, <2>1, <3>1, <3>2, NotifiedLocal, ZenonT(60)
  <2>2. CASE ~isClean
    <3>1. smine' = smine
      BY <1>5, <2>2, ZenonT(60)
    <3>2. MineTrue(fix, next, smine) /\ DOMAIN fix.jobs \subseteq Nat \ {0}
      BY JobNumbers, ZenonT(60) DEF SharesInv
    <3>3. IsSequence(smine.local)
      BY <3>2, ZenonT(60) DEF MineTrue
    <3>4. \A k \in DOMAIN smine.local : LocalFields \subseteq DOMAIN smine.local[k]
      BY <3>2, ZenonT(60) DEF MineTrue, LocalFields
    <3>5. next \in Nat /\ next + 1 \in Nat /\ next <= next + 1
      BY <1>2
    <3> HIDE DEF next, fix
    <3>6. QED
      BY <3>1, <3>2, <3>3, <3>4, <3>5, SameLocal, ZenonT(60)
  <2>3. QED
    BY <2>1, <2>2, ZenonT(60)
<1>7. Evidence(fix, next + 1, smine', checks, returns, topics)
  BY <1>6, Carry, ZenonT(60) DEF SharesInv
<1>8. QED
  BY <1>1, <1>3, <1>4, <1>6, <1>7, ConfPrimed, ZenonT(60)

\* The latest job is sent to the session.
LEMMA SendLatestShares ==
  ASSUME SharesInv, NEW d, SendLatest(d)
  PROVE  SharesInv'
<1> DEFINE fix == Fixed(sconf)
           next == sjobs.next
<1>1. SameConf
  <2>1. /\ DOMAIN sconf' = DOMAIN sconf /\ sconf'.coin = sconf.coin
        /\ sconf'.jobs = sconf.jobs /\ sconf'.lights = sconf.lights
        /\ sconf'.keepLocal = sconf.keepLocal /\ sconf'.maxLocal = sconf.maxLocal
    BY ZenonT(60) DEF SendLatest, SharesInv, ShareConf
  <2>2. QED
    BY <2>1, ConfKept, ZenonT(60) DEF SharesInv
<1>2. /\ next \in 1 .. Len(sconf.jobs) + 1 /\ Len(sconf.jobs) \in Nat /\ next \in Nat \ {0}
      /\ DOMAIN sconf.jobs = 1 .. Len(sconf.jobs)
      /\ sjobs.known \subseteq 1 .. next - 1 /\ next - 1 \in sjobs.known
  BY JobNumbers, ZenonT(60) DEF SendLatest, SharesInv, JobsTrue
<1>3. Latest = next - 1
  <2>1. \A y \in sjobs.known : next - 1 >= y
    BY <1>2
  <2>2. \A z \in sjobs.known : (\A y \in sjobs.known : z >= y) => z = next - 1
    BY <1>2
  <2>3. QED
    BY <1>2, <2>1, <2>2, ZenonT(60) DEF Latest, Max
<1>4. /\ smine' = Notified(next - 1, d, next - 1 \in sjobs.clean)
      /\ UNCHANGED <<sjobs, checks, returns, topics>>
  BY <1>3, ZenonT(60) DEF SendLatest
<1>5. MineTrue(fix, next, smine) /\ ShareConf(sconf) /\ JobsTrue(sconf, sjobs)
  BY ZenonT(60) DEF SharesInv
<1>6. next - 1 \in DOMAIN sconf.jobs /\ next \in {next, next + 1}
  BY <1>2
<1> HIDE DEF next
<1>7. MineTrue(fix, next, smine') /\ Keeps(fix, next, smine, next, smine')
  BY <1>2, <1>4, <1>5, <1>6, NotifiedLocal, ZenonT(60)
<1>8. Evidence(fix, next, smine', checks, returns, topics)
  BY <1>7, Carry, ZenonT(60) DEF SharesInv, next
<1>9. QED
  BY <1>1, <1>4, <1>5, <1>7, <1>8, ConfPrimed, ZenonT(60) DEF next

\* The oldest job goes, never the last one.
LEMMA ExpiredShares ==
  ASSUME SharesInv, tryCleanExpiredJobs
  PROVE  SharesInv'
<1> DEFINE next == sjobs.next
           known == sjobs.known
<1>1. SameConf /\ UNCHANGED <<smine, checks, returns, topics>>
  BY ConfSame, ZenonT(60) DEF tryCleanExpiredJobs, SharesInv
<1>2. /\ known \subseteq 1 .. next - 1 /\ known \subseteq Nat /\ next \in Nat \ {0}
      /\ known # {} => next - 1 \in known
  BY JobNumbers DEF SharesInv, JobsTrue
<1>3. PICK j \in known :
        /\ \A k \in known : j <= k
        /\ \E k \in known : j # k
        /\ sjobs' = [sjobs EXCEPT !.known = @ \ {j}, !.stale = @ \ {j}]
  BY ZenonT(60) DEF tryCleanExpiredJobs
<1>4. j # next - 1
  BY <1>2, <1>3
<1>5. /\ sjobs'.next = next /\ sjobs'.known = known \ {j} /\ DOMAIN sjobs' = DOMAIN sjobs
  BY <1>3, ZenonT(60) DEF SharesInv, JobsTrue
<1>6. JobsTrue(sconf, sjobs')
  BY <1>2, <1>4, <1>5, ZenonT(60) DEF SharesInv, JobsTrue
<1>7. QED
  BY <1>1, <1>5, <1>6, ConfPrimed, ZenonT(60) DEF SharesInv

\* A login has no local jobs yet, and a session that is gone takes no share.
LEMMA SessionShares ==
  ASSUME SharesInv, Login \/ Disconnects
  PROVE  SharesInv'
<1> DEFINE fix == Fixed(sconf)
           next == sjobs.next
<1>1. SameConf /\ UNCHANGED <<sjobs, checks, returns, topics>> /\ JobsTrue(sconf, sjobs)
  BY ConfSame, ZenonT(60) DEF Login, Disconnects, SharesInv
<1>2. MineTrue(fix, next, smine') /\ Keeps(fix, next, smine, next, smine')
  <2>1. CASE Login
    <3>1. /\ DOMAIN smine' = DOMAIN smine /\ smine'.alive = smine.alive
          /\ smine'.serial = smine.serial /\ smine'.local = smine.local
      BY <2>1, ZenonT(60) DEF Login, SharesInv, MineTrue
    <3>2. MineTrue(fix, next, smine')
      BY <3>1, ZenonT(60) DEF SharesInv, MineTrue
    <3>3. Keeps(fix, next, smine, next, smine')
      BY <3>1, ZenonT(60) DEF Keeps, Spent, Given
    <3>4. QED
      BY <3>2, <3>3, ZenonT(60)
  <2>2. CASE Disconnects
    <3>1. /\ DOMAIN smine' = DOMAIN smine /\ ~smine'.alive
          /\ smine'.serial = smine.serial /\ smine'.local = <<>>
      BY <2>2, ZenonT(60) DEF Disconnects, SharesInv, MineTrue
    <3>2. IsSequence(<<>>) /\ DOMAIN <<>> = {}
      BY DEF IsSequence
    <3>3. InOrder(fix, next, <<>>)
      <4>1. [k \in {} |-> 1] \in [{} -> 1 .. next - 1]
        BY ZenonT(60)
      <4>2. QED
        BY <3>2, <4>1, ZenonT(60) DEF InOrder
    <3>4. MineTrue(fix, next, smine')
      BY <3>1, <3>2, <3>3, ZenonT(60) DEF SharesInv, MineTrue
    <3>5. Keeps(fix, next, smine, next, smine')
      BY <3>1, ZenonT(60) DEF Keeps, Spent
    <3>6. QED
      BY <3>4, <3>5, ZenonT(60)
  <2>3. QED
    BY <2>1, <2>2, ZenonT(60)
<1>3. Evidence(fix, next, smine', checks, returns, topics)
  BY <1>2, Carry, ZenonT(60) DEF SharesInv
<1>4. QED
  BY <1>1, <1>2, <1>3, ConfPrimed, ZenonT(60)

\* Every step keeps the invariant.
LEMMA SharesNext ==
  ASSUME SharesInv, [ShareNext]_<<shareVars, lightVars>>
  PROVE  SharesInv'
<1>1. CASE \E d \in sconf.diffs : broadcastStratumJob(d) \/ SendLatest(d)
  BY <1>1, BroadcastShares, SendLatestShares, ZenonT(60)
<1>2. CASE tryCleanExpiredJobs
  BY <1>2, ExpiredShares, ZenonT(60)
<1>3. CASE \E key, x : Submit(key, x)
  BY <1>3, SubmitShares, ZenonT(60)
<1>4. CASE \E c \in checks : EthFails(c) \/ EthComputes(c)
  BY <1>4, EthFailsShares, EthComputesShares, ZenonT(60)
<1>5. CASE EthReturns
  BY <1>5, EthReturnsShares, ZenonT(60)
<1>6. CASE Login \/ Disconnects
  BY <1>6, SessionShares, ZenonT(60)
<1>7. CASE UNCHANGED shareVars
  BY <1>7, ZenonT(60) DEF shareVars, SharesInv
<1>8. QED
  BY <1>1, <1>2, <1>3, <1>4, <1>5, <1>6, <1>7, ZenonT(60) DEF ShareNext

\* Nothing is credited or sent at first.
LEMMA SharesInitially ==
  ASSUME ShareConf(sconf), ShareInit(sconf)
  PROVE  SharesInv
<1> DEFINE fix == Fixed(sconf)
<1>1. /\ IsSequence(<<>>) /\ DOMAIN <<>> = {}
  BY DEF IsSequence
<1>2. JobsTrue(sconf, sjobs) /\ sjobs.next = 1
  BY DEF ShareInit, ShareConf, JobsTrue
<1>3. InOrder(fix, 1, <<>>)
  <2>1. [k \in {} |-> 1] \in [{} -> 1 .. 1 - 1]
    BY ZenonT(60)
  <2>2. QED
    BY <1>1, <2>1, ZenonT(60) DEF InOrder
<1>4. smine.local = <<>> /\ MineTrue(fix, 1, smine)
  BY <1>1, <1>3, ZenonT(60) DEF ShareInit, MineTrue
<1>5. topics.shares = <<>> /\ topics.solved = <<>> /\ checks = {} /\ returns = <<>>
      /\ {"shares", "solved"} \subseteq DOMAIN topics
  BY ZenonT(60) DEF ShareInit
<1>6. \A w, nonce : ~Sent(topics, w, nonce)
  BY <1>1, <1>5, ZenonT(60) DEF Sent
<1>7. Evidence(fix, 1, smine, checks, returns, topics)
  BY <1>1, <1>5, <1>6, ZenonT(60) DEF Evidence, SharesTrue, SolvedTrue, ChecksTrue, ReturnsTrue
<1>8. QED
  BY <1>2, <1>4, <1>7, ZenonT(60) DEF SharesInv

\* The invariant of the shares holds.
LEMMA SharesInvariant == ShareSpec => []SharesInv
<1>1. ShareConf(sconf) /\ ShareInit(sconf) => SharesInv
  BY SharesInitially, ZenonT(60)
<1>2. SharesInv /\ [ShareNext]_<<shareVars, lightVars>> => SharesInv'
  BY SharesNext, ZenonT(60)
<1>3. QED
  BY <1>1, <1>2, PTL DEF ShareSpec

\* Whatever jobs, shares and difficulties there are, a nonce is credited once for what
\* the miner was sent to work on (of CKB, Decred and Bytom once for each local job),
\* although the job is sent again, verified by the share
\* workers in any order, expires, or outlives the connection, as long as content does
\* not come back after its local job was dropped (addLocalShare(), clearLocalJobs()).
THEOREM CreditedAtMostOnce == ShareSpec => []CreditedOnce
<1>1. SharesInv => CreditedOnce
  <2> SUFFICES ASSUME SharesInv PROVE CreditedOnce
    BY ZenonT(60)
  <2>1. Fixed(sconf).coin = sconf.coin
    BY FixedFacts, ZenonT(60)
  <2>2. ASSUME NEW i \in DOMAIN topics.shares, NEW k \in DOMAIN topics.shares,
               Accepted(topics.shares[i].status), Accepted(topics.shares[k].status),
               topics.shares[i].content = topics.shares[k].content,
               topics.shares[i].nonce = topics.shares[k].nonce, i # k
        PROVE  sconf.coin \notin ByContent /\ topics.shares[i].work # topics.shares[k].work
    <3>1. topics.shares[i].work # topics.shares[k].work
      BY <2>2, ZenonT(60) DEF SharesInv, Evidence, SharesTrue
    <3>2. ASSUME sconf.coin \in ByContent
          PROVE  /\ topics.shares[i].work = topics.shares[i].content
                 /\ topics.shares[k].work = topics.shares[k].content
      BY <2>1, <2>2, <3>2, ZenonT(60) DEF SharesInv, Evidence, SharesTrue, EntryTrue
    <3> QED
      BY <2>2, <3>1, <3>2, ZenonT(60)
  <2> QED
    BY <2>2, ZenonT(60) DEF CreditedOnce
<1>2. QED
  BY <1>1, SharesInvariant, PTL

\* Under the same condition, every share that is logged as a solution was sent to the
\* block maker, and no solution is sent twice, whether "preliminary" or not
\* (sendSolvedShare2Kafka(), checkShareAndUpdateDiff()).
THEOREM EverySolutionSentOnce == ShareSpec => []SolutionsSentOnce
<1>1. SharesInv => SolutionsSentOnce
  <2> SUFFICES ASSUME SharesInv PROVE SolutionsSentOnce
    BY ZenonT(60)
  <2>1. Fixed(sconf).coin = sconf.coin /\ Fixed(sconf).jobs = sconf.jobs
    BY FixedFacts, ZenonT(60)
  <2>2. \A w, nonce : Sent(topics, w, nonce) => <<w, nonce>> \in Range(topics.solved)
    BY ZenonT(60) DEF Sent, Range
  <2>3. \A i \in DOMAIN topics.shares :
          IsSolution(Fixed(sconf), topics.shares[i]) =>
            <<topics.shares[i].work, topics.shares[i].nonce>> \in Range(topics.solved)
    BY <2>2, ZenonT(60) DEF SharesInv, Evidence, SharesTrue
  <2>4. \A i, k \in DOMAIN topics.solved : topics.solved[i] = topics.solved[k] => i = k
    BY ZenonT(60) DEF SharesInv, Evidence, SolvedTrue
  <2>5. QED
    BY <2>1, <2>3, <2>4, ZenonT(60) DEF SolutionsSentOnce, IsSolution, Job
<1>2. QED
  BY <1>1, SharesInvariant, PTL
=============================================================================
