--------------------------- MODULE DiffController ---------------------------
(***************************************************************************)
(* The difficulty controller of a miner: from the shares of a sliding      *)
(* window it recomputes the difficulty before a job is sent, so that the   *)
(* miner sends about one share every RecordSeconds.                        *)
(*                                                                         *)
(* Time passes in records of RecordSeconds; a window is a sequence of      *)
(* Slots records, the newest last.  Share counts are doubles in the code,  *)
(* halved and doubled together with the difficulty: they are multiples of  *)
(* 1/Scale here.  The miner computes "rate" units of work every record and *)
(* sends a share whenever the work for one is done.                        *)
(***************************************************************************)
EXTENDS Integers, Sequences

CONSTANTS Slots, RecordSeconds, MinDiff, MaxDiff, Scale

ASSUME DiffAssumption ==
  /\ Slots \in Nat \ {0} /\ RecordSeconds \in Nat \ {0} /\ Scale \in Nat \ {0}
  /\ MinDiff \in Nat \ {0} /\ MaxDiff \in Nat /\ MinDiff <= MaxDiff

VARIABLES
  dconf,   \* the miner: its rate, the default difficulty, what it may ask for
  dcon     \* the controller, its miner's unfinished work, and what was asked

diffVars == <<dconf, dcon>>

Total(w) == LET sum[i \in 0 .. Slots] == IF i = 0 THEN 0 ELSE sum[i - 1] + w[i] IN sum[Slots]
Zeros == [i \in 1 .. Slots |-> 0]

\* the bounds checking of setMinDiff() and of setCurDiff()
setMinDiff(c, d) ==
  [c EXCEPT !.min = IF d < MinDiff THEN MinDiff ELSE IF d > MaxDiff THEN MaxDiff ELSE d]

setCurDiff(c, d) ==
  [c EXCEPT !.cur = IF d < MinDiff THEN MinDiff ELSE IF d > MaxDiff THEN MaxDiff ELSE d]

resetCurDiff(c, d) ==
  [setCurDiff(c, d) EXCEPT !.num = Zeros, !.shares = Zeros]

\* addShare(), for n shares of the job's difficulty
addShare(c, n) ==
  [c EXCEPT !.num[Slots] = @ + n * Scale, !.shares[Slots] = @ + n * c.job]

NewController(d) ==
  resetCurDiff(setMinDiff([cur |-> 0, min |-> 0, started |-> FALSE, age |-> 0, level |-> 0,
                           num |-> Zeros, shares |-> Zeros, job |-> 0, work |-> 0, idle |-> 0],
                          MinDiff), d)

-----------------------------------------------------------------------------
(* The level of the miner's hash rate; a terahash per second is TeraUnits  *)
(* units of difficulty per second, 10^12 / 2^32.                           *)

TeraUnits == 233

__hashRateDown(l) == <<0, 4, 8, 16, 32, 64, 128, 256, 512>>[l + 1]
__hashRateUp(l) == <<4, 8, 16, 32, 64, 128, 256, 512>>[l + 1]

\* hashRateT < n * percent / 100, of the shares in s seconds; no rate is exactly
\* at a bound, so that < and <= are the same
RateBelow(shares, s, n, percent) == shares < ((n * percent * TeraUnits) \div 100) * s

\* The level falls while the rate is at most 0.75 of its lower bound, and
\* rises while the rate is at least 1.5 of its upper bound.
adjustHashRateLevel(level, shares, s) ==
  LET down[l \in 0 .. 8] ==
        IF l > 0 /\ RateBelow(shares, s, __hashRateDown(l), 75) THEN down[l - 1] ELSE l
      up[k \in 0 .. 8] ==
        LET l == 8 - k IN
        IF l <= 7 /\ ~RateBelow(shares, s, __hashRateUp(l), 150) THEN up[k - 1] ELSE l
  IN CASE level > 0 /\ RateBelow(shares, s, __hashRateDown(level), 100) -> down[level]
       [] level <= 7 /\ ~RateBelow(shares, s, __hashRateUp(level), 100) -> up[8 - level]
       [] OTHER -> level

isFullWindow(c) == c.age >= Slots

\* c[] of minerCoefficient(), in tenths
Coefficients == <<10, 10, 10, 12, 15, 20, 30, 40, 60>>

\* minerCoefficient() keeps the level it computes.
minerCoefficient(c) ==
  IF c.age = 0 THEN c
  ELSE [c EXCEPT !.level = adjustHashRateLevel(@, Total(c.shares), RecordSeconds * Slots)]

\* expectedCount, in tenths: "one second per share is enough"
expectedCount(c) ==
  LET e == Slots * (IF isFullWindow(c) THEN Coefficients[c.level + 1] ELSE 10)
      most == 10 * Slots * RecordSeconds
  IN IF e > most THEN most ELSE e

-----------------------------------------------------------------------------
(* calcCurDiff(): count is sharesNum_.sum(), in 1/Scale shares, and e the *)
(* expected count, in tenths                                               *)

Above(count, e, percent) == count * 1000 > e * percent * Scale
Below(count, e, percent) == count * 1000 < e * percent * Scale

\* n times: double the difficulty and halve the counts, or the other way
Harder(c, n) ==
  [setCurDiff(c, c.cur * 2 ^ n) EXCEPT !.num = [i \in 1 .. Slots |-> @[i] \div 2 ^ n]]
Easier(c, n) ==
  [setCurDiff(c, c.cur \div 2 ^ n) EXCEPT !.num = [i \in 1 .. Slots |-> @[i] * 2 ^ n]]

\* "very low hashrate miner": less than a share a minute since the first job
Minute == 60 \div RecordSeconds
VeryLow(c, count) ==
  /\ ~isFullWindow(c)
  /\ c.age >= Minute
  /\ count <= (c.age \div Minute) * Scale
  /\ c.cur >= c.min * 2

TooFast(c, count, e, n) == Above(count, e * 2 ^ n, 100) /\ c.cur * 2 ^ n < MaxDiff

\* The mutant takes a miner for too slow at a count that a doubling may have
\* brought it to.
TooSlowEagerly(c, count, e, n) == Below(count * 2 ^ n, e, 95) /\ c.cur \div 2 ^ n >= c.min * 2

TooSlow(c, count, e, n) == Below(count * 2 ^ n, e, 40) /\ c.cur \div 2 ^ n >= c.min * 2

\* The rounds of the two loops; no difficulty is doubled more than 20 times.
Doublings(c, count, e) ==
  CHOOSE n \in 0 .. 20 : /\ ~TooFast(c, count, e, n)
                         /\ \A m \in 0 .. n - 1 : TooFast(c, count, e, m)
Halvings(c, count, e) ==
  CHOOSE n \in 0 .. 20 : /\ ~TooSlow(c, count, e, n)
                         /\ \A m \in 0 .. n - 1 : TooSlow(c, count, e, m)

_calcCurDiff(c, count, e) ==
  CASE VeryLow(c, count) -> Easier(c, 1)
    [] Above(count, e, 140) -> Harder(c, Doublings(c, count, e))
    [] isFullWindow(c) /\ c.cur >= c.min * 2 -> Easier(c, Halvings(c, count, e))
    [] OTHER -> c

\* calcCurDiff() gives the difficulty that the next job is sent with.
calcCurDiff(c) ==
  {[d EXCEPT !.job = IF d.cur < d.min THEN d.min ELSE d.cur] :
     d \in {_calcCurDiff(l, Total(l.num), expectedCount(l)) :
              l \in {IF isFullWindow(c) THEN minerCoefficient(c) ELSE c}}}

-----------------------------------------------------------------------------
(* The miner and its jobs *)

\* a record of the window begins: the oldest one no longer counts
NextRecord(c) ==
  [c EXCEPT !.num = Append(Tail(@), 0), !.shares = Append(Tail(@), 0),
            !.age = IF c.started /\ @ < Slots THEN @ + 1 ELSE @]

\* For a record the miner works on its job, and sends the shares it finds.
MineRecord ==
  /\ dcon.job > 0
  /\ dcon.idle < dconf.idle
  /\ LET work == dcon.work + dconf.rate IN
     dcon' = [addShare(NextRecord(dcon), work \div dcon.job)
               EXCEPT !.work = work % dcon.job, !.idle = @ + 1]
  /\ UNCHANGED dconf

\* StratumMiner::addLocalJob(), for the next job
SendJob ==
  /\ dcon.job > 0 => dcon.idle > 0
  /\ \E c \in calcCurDiff([dcon EXCEPT !.started = TRUE]) : dcon' = [c EXCEPT !.idle = 0]
  /\ UNCHANGED dconf

\* The miner suggests a difficulty, or a password or NiceHash sets the least one.
SuggestDifficulty(d) ==
  /\ d \in dconf.suggests
  /\ dcon' = resetCurDiff(dcon, d)
  /\ dconf' = [dconf EXCEPT !.suggests = @ \ {d}]

RequireDifficulty(d) ==
  /\ d \in dconf.requires
  /\ dcon' = setMinDiff(dcon, d)
  /\ dconf' = [dconf EXCEPT !.requires = @ \ {d}]

DiffInit(conf) == dconf = conf /\ dcon = NewController(conf.default)

DiffNext ==
  \/ MineRecord
  \/ SendJob
  \/ \E d \in dconf.suggests : SuggestDifficulty(d)
  \/ \E d \in dconf.requires : RequireDifficulty(d)

\* The miner sends about as many shares as it should, or its difficulty is as
\* near to a bound as halving and doubling bring it.
InBand ==
  /\ isFullWindow(dcon)
  /\ dcon.job \in dcon.min .. MaxDiff
  /\ ~Above(Total(dcon.num), expectedCount(dcon), 140) \/ dcon.cur = MaxDiff
  /\ ~Below(Total(dcon.num), expectedCount(dcon), 40) \/ dcon.cur < 2 * dcon.min
=============================================================================
