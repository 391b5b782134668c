------------------------------ MODULE JobMaker ------------------------------
(***************************************************************************)
(* From the nodes of a blockchain to the stratum jobs: the makers of       *)
(* templates and works (gbtmaker, gwmaker, nmcauxmaker), the Kafka topics  *)
(* they fill, and the job maker that consumes them, with the handler of    *)
(* the coin that it is started for.                                        *)
(*                                                                         *)
(* Time is kept as ages: a timestamp is the number of ticks since it was   *)
(* taken, and an age grows no further than MaxAge, past every limit that   *)
(* the code compares it with.                                              *)
(***************************************************************************)
EXTENDS CoinWorks

CONSTANTS
  Configs,        \* the coins and options a job maker is started with, with the
                  \* nodes in use, bounds of their heights and of its crashes, and
                  \* the templates that initFromGbt() refuses
  Nodes,          \* blockchain nodes; each one in use has a maker of its own
  MaxHeight,      \* bound of the heights
  MaxAux,         \* bound of the works of the merged mined chain
  MaxQueue,       \* bound of the messages in a topic that are not consumed
  MaxLag,         \* bound of the ticks a message waits for a loop that runs
  MaxAge,         \* where ages stop growing
  HashSuffix,     \* of the works of each node, in the keys of some coins
  RpcInterval,    \* kRpcCallInterval_, rpcInterval_
  JobInterval,    \* jobInterval_
  MaxDelay,       \* how old a template or work may be when it is consumed
  GbtLife,        \* gbtLifeTime_
  EmptyGbtLife,   \* emptyGbtLifeTime_
  WorkLife,       \* workLifeTime_
  RskLife,        \* 120 seconds
  VcashLife       \* 600 seconds

Heights == 1 .. MaxHeight

\* a template or a work as it is read: the node it is of, its height, whether it
\* was improved, and its age
Work == [src : Nodes, height : Heights, rev : 0 .. 1, age : 0 .. MaxAge]

ASSUME TimesAssumption ==
  /\ MaxAge \in Nat /\ MaxHeight \in Nat \ {0}
  /\ HashSuffix \in [Nodes -> 0 .. MaxAge]
  /\ {RpcInterval, JobInterval, MaxDelay, EmptyGbtLife} \subseteq Nat \ {0}
  /\ GbtLife \in Nat /\ 2 * JobInterval <= GbtLife /\ EmptyGbtLife < GbtLife
  /\ \A life \in {GbtLife, WorkLife, RskLife, VcashLife, MaxDelay + 2 * JobInterval,
                  MaxDelay, AuxLife} :
       life \in Nat /\ life < MaxAge
ASSUME NoneAssumption == None \notin Work /\ None \notin Int
ASSUME ConfigsAssumption ==
  /\ Configs \subseteq [coin : {"bitcoin", "eth", "decred", "ckb", "bytom", "sia"},
                        aux : {"none", "nmc", "rsk", "vcash"}, policy : 1 .. 2,
                        nodes : SUBSET Nodes, maxHeight : [Nodes -> Heights], maxRev : 0 .. 1,
                        crashes : Nat, refused : SUBSET (Nodes \X Heights \X (0 .. 1))]
  /\ \A c \in Configs : c.coin # "bitcoin" => c.aux = "none"

VARIABLES
  config,      \* the coin and the options of this job maker
  tip, rev,    \* of each node: the height it works on, and whether it has
               \* improved its template (transactions, uncles, votes) since
  news,        \* the nodes whose announcement of a block is not handled yet
  made,        \* the age of each maker's last message
  stamped,     \* of each maker thread: a message that is made, not produced
  auxTip,      \* the work of the merged mined chain
  raw, rawLast,       \* the topic of templates or works: the messages not
  aux, auxLast,       \* consumed, and the last one; the same for merged mining
  phase,       \* of the job maker: down, starting, pre-consuming, up
  hd,          \* the state of its handler
  lastJobTime, \* the age of lastJobTime_
  wait,        \* the time left until consumer(timeoutMs) returns nothing
  job,         \* the last job produced
  crashes,
  heard,       \* the age of the newest template with transactions of each
               \* height that was accepted since the start (history)
  sent,        \* the age of the last job that was sent (history)
  fed          \* was there a work since the start? (history)

nodeVars == <<tip, rev, news, auxTip>>
makerVars == <<made, stamped>>
topicVars == <<raw, rawLast, aux, auxLast>>
makingVars == <<phase, hd, lastJobTime, wait, job, crashes, heard, sent, fed>>
vars == <<config, nodeVars, makerVars, topicVars, makingVars>>

Threads == Nodes \X {"poll", "notify"}

\* The ages of what happened long ago, or never.
Long == MaxAge
Grown(a) == IF a < MaxAge THEN a + 1 ELSE a
Older(m) == IF m = None THEN None ELSE [m EXCEPT !.age = Grown(@)]
AllOlder(s) == [i \in DOMAIN s |-> Older(s[i])]

-----------------------------------------------------------------------------
(* The makers *)

NodeAnswer(n) == Answer(config.coin, BlockOf(n, tip[n], rev[n]))

\* makeRawGbtMsg(), makeRawGwMsg(): the node's template or work, stamped now, as
\* the job maker will read it; None where the maker refuses the answer or the
\* message is of no use to the job maker.
makeRawMsg(n, lack) ==
  LET m == processRawGw(config.coin, Without(NodeAnswer(n), lack))
      w == IF m = None THEN None ELSE ReadWork(config.coin, m)
  IN IF w = None THEN None
     ELSE [src |-> n, height |-> w.height, rev |-> w.rev, age |-> 0]
RawMsgs(n) == {makeRawMsg(n, lack) : lack \in Lacks(config.coin, NodeAnswer(n))}

\* What starts a message: the timer of the poll, or the announcement of a block.
Asked(n, t) ==
  /\ n \in config.nodes
  /\ \/ t = "poll" /\ made[n] >= RpcInterval /\ news' = news
     \/ t = "notify" /\ n \in news /\ news' = news \ {n}

InTopic(m) == Len(raw) < MaxQueue /\ raw' = Append(raw, m) /\ rawLast' = m

\* The lock of a gbtmaker is held from the call of the node to produce(), which
\* fails when the producer's queue is full.  (The works of CKB come from a
\* program that is not part of the pool, and is taken to be as careful.)
Locked == config.coin \in {"bitcoin", "ckb"}
submitRawGbtMsg(n, t) ==
  /\ Locked
  /\ Asked(n, t)
  /\ made' = [made EXCEPT ![n] = 0]
  /\ (\E m \in RawMsgs(n) \ {None} : InTopic(m)) \/ UNCHANGED <<raw, rawLast>>
  /\ UNCHANGED <<config, tip, rev, stamped, auxTip, aux, auxLast, makingVars>>

\* A gwmaker has no lock: its two threads produce in any order what they got.
submitRawGwMsg(n, t) ==
  /\ ~Locked
  /\ stamped[<<n, t>>] = None
  /\ Asked(n, t)
  /\ \E m \in RawMsgs(n) \ {None} : stamped' = [stamped EXCEPT ![<<n, t>>] = m]
  /\ made' = IF t = "poll" THEN [made EXCEPT ![n] = 0] ELSE made
  /\ UNCHANGED <<config, tip, rev, auxTip, topicVars, makingVars>>

kafkaProduceMsg(th) ==
  /\ stamped[th] # None
  /\ InTopic(stamped[th]) \/ UNCHANGED <<raw, rawLast>>
  /\ stamped' = [stamped EXCEPT ![th] = None]
  /\ UNCHANGED <<config, nodeVars, made, aux, auxLast, makingVars>>

\* The call fails or the answer lacks fields: the announcement is lost; a
\* gwmaker sleeps before it polls again, a gbtmaker tries again in a second.
getRawMsgFails(n, t) ==
  /\ stamped[<<n, t>>] = None
  /\ Asked(n, t)
  /\ None \in RawMsgs(n)
  /\ made' = IF t = "poll" /\ ~Locked THEN [made EXCEPT ![n] = 0] ELSE made
  /\ UNCHANGED <<config, tip, rev, stamped, auxTip, topicVars, makingVars>>

\* the merged mining work number v: two works for each height, the first of
\* which has the notify flag of RSK
AuxWork(v) ==
  [hash |-> v, height |-> (v + 1) \div 2, bits |-> 1, rpc |-> config.aux,
   notify |-> v % 2 = 1, age |-> 0]

\* submitAuxblockMsg() of the nmcauxmaker, submitRawGwMsg() for RSK and Vcash
submitAuxblockMsg ==
  /\ config.aux # "none"
  /\ Len(aux) < MaxQueue
  /\ auxLast # None => auxLast.age >= RpcInterval \/ auxLast.hash # auxTip
  /\ aux' = Append(aux, AuxWork(auxTip))
  /\ auxLast' = AuxWork(auxTip)
  /\ UNCHANGED <<config, nodeVars, makerVars, raw, rawLast, makingVars>>

-----------------------------------------------------------------------------
(* IdGenerator *)

\* next(): the upper half is the time, the lower one counts within a second
nextId(gen) == [age |-> 0, low |-> IF gen.age = 0 THEN gen.low + 1 ELSE 0]

-----------------------------------------------------------------------------
(* The handlers.  Each takes the handler's state to the state after a       *)
(* message, and says whether a job has to be produced.                      *)

HandlerInit ==
  [works |-> {}, latest |-> {}, best |-> 0, lastEmpty |-> FALSE, lastSend |-> Long,
   last |-> None, byId |-> <<>>, nmc |-> None, cur |-> None, prev |-> None, update |-> FALSE,
   gen |-> [age |-> Long, low |-> 0]]

Result(h, yes) == [h |-> h, yes |-> yes]

\* A work is kept under a key whose upper part is the height; below it is what
\* makes it better, and the time or a part of the hash.
Key(w) ==
  (w.height * 2 + w.rev) * 2 * (MaxAge + 1)
    + (IF config.coin \in {"bitcoin", "decred"} THEN MaxAge - w.age
       ELSE HashSuffix[w.src])
Best(works) == CHOOSE w \in works : \A v \in works : Key(v) <= Key(w)

\* The loop of clearTimeoutGbt() and clearTimeoutMsg() goes up the keys and
\* stops at the last work left.  The mutant does not stop.
KeepNone(works, expired) == works \ expired

KeepOne(works, expired) ==
  IF works # {} /\ works = expired THEN {Best(works)} ELSE works \ expired
ExpiredWorks(works) == {w \in works : w.age >= WorkLife}

(* Bitcoin *)

isEmptyGbt(w) == w.rev = 0

\* uint32 arithmetic: a template older than the best wraps round
TooSoon(w, b) == w.age <= b.age /\ b.age - w.age < 2 * JobInterval

LowHeightGbt(works, w) ==
  works # {} /\ w.height < Best(works).height /\ TooSoon(w, Best(works))

addRawGbt(h, w) ==
  IF w \in h.latest \/ w.age >= MaxDelay \/ LowHeightGbt(h.works, w)
  THEN Result(h, FALSE)
  ELSE Result([h EXCEPT
                 !.works = IF \E v \in @ : Key(v) = Key(w) THEN @ ELSE @ \union {w},
                 !.latest = @ \union {w}],
              TRUE)

\* The mutant swaps the two life times.
clearTimeoutGbtSwapped(works) ==
  KeepOne(works, {w \in works : w.age >= IF isEmptyGbt(w) THEN GbtLife ELSE EmptyGbtLife})

clearTimeoutGbt(works) ==
  KeepOne(works, {w \in works : w.age >= IF isEmptyGbt(w) THEN EmptyGbtLife ELSE GbtLife})

\* clearTimeoutGw(), clearVcashTimeoutGw(): nothing is cleared before there are
\* two works.
ClearedGw(h, life) ==
  IF h.cur = None \/ h.prev = None
  THEN h
  ELSE [h EXCEPT !.cur = IF @.age > life THEN None ELSE @,
                 !.prev = IF @.age > life THEN None ELSE @]
clearTimeoutGw(h) == IF config.aux = "rsk" THEN ClearedGw(h, RskLife) ELSE h
clearVcashTimeoutGw(h) == IF config.aux = "vcash" THEN ClearedGw(h, VcashLife) ELSE h

triggerRskUpdate(h) ==
  /\ h.prev # None /\ h.cur # None
  /\ IF config.policy = 1 THEN h.cur.notify ELSE h.cur.hash # h.prev.hash

triggerVcashUpdate(h) ==
  /\ h.prev # None /\ h.cur # None
  /\ IF config.policy = 1 THEN h.cur.height > h.prev.height
                          ELSE h.cur.hash # h.prev.hash

processAuxPowMsg(h, m) ==
  LET update == IF config.policy = 1
                THEN m.height > (IF h.nmc = None THEN 0 ELSE h.nmc.height)
                ELSE h.nmc = None \/ m.hash # h.nmc.hash
  IN Result([h EXCEPT !.nmc = m, !.update = @ \/ update], update)

\* initFromGw() refuses a work older than 60 seconds; the trigger is asked in
\* any case.
GwTaken(h, m) == IF m.age > AuxLife THEN h ELSE [h EXCEPT !.prev = h.cur, !.cur = m]
processRskGwMsg(h, m) ==
  LET t == GwTaken(h, m)
  IN Result([t EXCEPT !.update = @ \/ triggerRskUpdate(t)], triggerRskUpdate(t))
processVcashGwMsg(h, m) ==
  LET t == GwTaken(h, m)
  IN Result([t EXCEPT !.update = @ \/ triggerVcashUpdate(t)], triggerVcashUpdate(t))

processAuxMsg(h, m) ==
  CASE config.aux = "nmc"   -> processAuxPowMsg(h, m)
    [] config.aux = "rsk"   -> processRskGwMsg(h, m)
    [] config.aux = "vcash" -> processVcashGwMsg(h, m)

isReachTimeout(h) == h.lastSend >= JobInterval

Cleared(h) ==
  clearVcashTimeoutGw(clearTimeoutGw([h EXCEPT !.works = clearTimeoutGbt(@)]))

\* The mutant does not look at whether the last job was empty.
findBestRawGbtAnyJob(h) ==
  /\ h.works # {}
  /\ Best(h.works).height > h.best \/ h.update \/ isReachTimeout(h)

\* Is the best template to be sent now?
findBestRawGbt(h) ==
  /\ h.works # {}
  /\ LET b == Best(h.works)
     IN \/ b.height > h.best
        \/ b.height = h.best /\ h.lastEmpty /\ ~isEmptyGbt(b)
        \/ h.update
        \/ isReachTimeout(h)

NoPool == [info |-> None, payout |-> None]

makeStratumJob(h, b) ==
  initFromGbt(Template(<<b.src, b.height, b.rev>>, b.height,
                       IF isEmptyGbt(b) THEN <<>> ELSE <<b.src>>, FALSE),
              NoPool, <<>>, h.nmc,
              IF config.aux = "rsk" THEN h.cur ELSE None,
              IF config.aux = "vcash" THEN h.cur ELSE None, h.update, FALSE)

(* Ethereum, Decred, CKB, Bytom and Sia *)

\* makeWorkKey() and insert(), which leaves a work already there alone; more
\* uncles, or more gas than a nearly empty block
processMsgEth(h, w) ==
  IF w.age > MaxDelay
  THEN Result(h, FALSE)
  ELSE
    LET works == IF \E v \in h.works : Key(v) = Key(w) THEN h.works
                 ELSE h.works \union {w}
        kept == [h EXCEPT !.works = KeepOne(works, ExpiredWorks(works))]
    IN IF w.height > h.best
       THEN Result([kept EXCEPT !.best = w.height], TRUE)
       ELSE Result(kept, w.height = h.best /\ (h.last = None \/ h.last.rev < w.rev))

\* clearTimeoutWorks(): the check for the last work is made once, before the loop
clearTimeoutWorks(works) ==
  IF Cardinality(works) <= 1 THEN works ELSE {w \in works : w.age <= WorkLife}

SameData(v, w) == v.src = w.src /\ v.height = w.height /\ v.rev = w.rev

processMsgDecred(h, w) ==
  LET works == clearTimeoutWorks(h.works)
      cleared == [h EXCEPT !.works = works]
      b == Best(works)
  IN IF \/ w.age > MaxDelay
        \/ works # {} /\ w.height < b.height /\ w.age < b.age
             /\ b.age - w.age < 2 * JobInterval
        \/ \E v \in works : SameData(v, w)
     THEN Result(cleared, FALSE)
     ELSE Result([cleared EXCEPT !.works = @ \union {w}],
                 \/ works = {} \/ w.height > b.height
                 \/ w.height = b.height /\ w.rev > b.rev)

\* CKB numbers a job when it comes; jobid2work_ has the same works as workMap_,
\* in the order of their ids.  The time of a work is that of its reception.
processMsgCkb(h, w) ==
  LET id == nextId(h.gen)
      new == [w EXCEPT !.age = 0]
      all == h.works \union {new}
      works == KeepOne(all, ExpiredWorks(all))
      kept(e) == \E v \in works : SameData(v, e.work)
  IN IF \E v \in h.works : Key(v) = Key(w)
     THEN Result([h EXCEPT !.gen = id], FALSE)
     ELSE Result([h EXCEPT !.gen = id, !.works = works,
                           !.byId = SelectSeq(Append(@, [work |-> new, age |-> 0,
                                                         low |-> id.low]), kept),
                           !.best = IF w.height < @ THEN @ ELSE w.height],
                 w.height >= h.best)

\* Bytom and Sia keep the last header, whatever its height.
processMsgHeader(h, w) ==
  IF w.age > MaxDelay \/ (h.last # None /\ SameData(h.last, w))
  THEN Result(h, FALSE)
  ELSE Result([h EXCEPT !.last = w, !.works = {w}], TRUE)

processMsg(h, w) ==
  CASE config.coin = "bitcoin" -> addRawGbt(h, w)
    [] config.coin = "eth"     -> processMsgEth(h, w)
    [] config.coin = "decred"  -> processMsgDecred(h, w)
    [] config.coin = "ckb"     -> processMsgCkb(h, w)
    [] OTHER                   -> processMsgHeader(h, w)

-----------------------------------------------------------------------------
(* makeStratumJobMsg() *)

\* What is kept of a job: the template, the id and the merged mining.
JobOf(w, id, nmc, rsk, vcash, clean) ==
  [height |-> w.height, empty |-> w.rev = 0, age |-> id.age, low |-> id.low,
   nmc |-> nmc, rsk |-> rsk, vcash |-> vcash, clean |-> clean]
PlainJob(w, id) == JobOf(w, id, None, None, None, FALSE)

Made(h, j) == [h |-> h, made |-> TRUE, job |-> j]
NotMade(h) == [h |-> h, made |-> FALSE, job |-> None]

\* initFromGbt() returns false: the Zcash build checks the coinbase transaction that
\* the node has made.
InitFails(b) == <<b.src, b.height, b.rev>> \in config.refused

\* currBestHeight_ is set before the job is made.
makeStratumJobMsgBitcoin(handler) ==
  LET h == Cleared(handler)
      b == Best(h.works)
      id == nextId(h.gen)
      sjob == makeStratumJob(h, b)
  IN IF ~findBestRawGbt(h)
     THEN NotMade(h)
     ELSE IF InitFails(b)
     THEN NotMade([h EXCEPT !.best = b.height])
     ELSE Made([h EXCEPT !.best = b.height, !.gen = id, !.lastSend = 0,
                         !.lastEmpty = isEmptyBlock(sjob), !.update = FALSE],
               JobOf(b, id, sjob.nmc.hash, sjob.rsk.hash, sjob.vcash.hash,
                     sjob.mergedMiningClean))

\* CKB sends the job with the greatest id, with the id it has.
makeStratumJobMsg(h) ==
  LET id == nextId(h.gen)
      newest == h.byId[Len(h.byId)]
  IN IF config.coin = "bitcoin" THEN makeStratumJobMsgBitcoin(h)
     ELSE IF h.works = {} THEN NotMade(h)
     ELSE IF config.coin = "ckb" THEN Made(h, PlainJob(newest.work, newest))
     ELSE IF config.coin = "eth"
     THEN Made([h EXCEPT !.gen = id, !.last = Best(h.works)], PlainJob(Best(h.works), id))
     ELSE Made([h EXCEPT !.gen = id], PlainJob(Best(h.works), id))

-----------------------------------------------------------------------------
(* The loop of the job maker *)

\* produceStratumJob() with the handler in state h
produceStratumJob(h) ==
  \E m \in {makeStratumJobMsg(h)} :
    /\ hd' = m.h
    /\ job' = IF m.made THEN m.job ELSE job
    /\ sent' = IF m.made THEN 0 ELSE sent
    /\ lastJobTime' = 0
    /\ wait' = JobInterval

\* What follows a message: a job at once, or when the interval has passed, or
\* the rest of the interval to wait.
AfterMessage(r) ==
  IF r.yes \/ lastJobTime > JobInterval
  THEN produceStratumJob(r.h)
  ELSE /\ hd' = r.h
       /\ wait' = JobInterval - lastJobTime
       /\ UNCHANGED <<job, sent, lastJobTime>>

\* the template was accepted, and has transactions
Heard(h, w) ==
  IF config.coin = "bitcoin" /\ addRawGbt(h, w).yes /\ ~isEmptyGbt(w)
  THEN [heard EXCEPT ![w.height] = IF w.age < @ THEN w.age ELSE @]
  ELSE heard

consumeKafkaMsg ==
  /\ phase = "up" /\ raw # <<>>
  /\ \E r \in {processMsg(hd, Head(raw))} : AfterMessage(r)
  /\ heard' = Heard(hd, Head(raw))
  /\ fed' = (fed \/ hd'.works # {})
  /\ raw' = Tail(raw)
  /\ UNCHANGED <<config, nodeVars, makerVars, rawLast, aux, auxLast, phase, crashes>>

consumeAuxMsg ==
  /\ phase = "up" /\ aux # <<>>
  /\ \E r \in {processAuxMsg(hd, Head(aux))} : AfterMessage(r)
  /\ aux' = Tail(aux)
  /\ UNCHANGED <<config, nodeVars, makerVars, raw, rawLast, auxLast, phase, crashes, heard,
                 fed>>

\* A message that is not readable: Decred has cleared its works by then, and the
\* triggers of RSK and Vcash are asked in any case.
processUnreadable(h) ==
  LET trigger == IF config.aux = "rsk" THEN triggerRskUpdate(h) ELSE triggerVcashUpdate(h)
  IN IF config.coin = "decred" THEN Result([h EXCEPT !.works = clearTimeoutWorks(@)], FALSE)
     ELSE IF config.aux \in {"rsk", "vcash"}
     THEN Result([h EXCEPT !.update = @ \/ trigger], trigger)
     ELSE Result(h, FALSE)

\* An error event, or a message that is not readable.  (Bound: within a tick no more
\* of them than MaxQueue lead to a job.)
consumeError ==
  /\ phase = "up" /\ (hd.gen.age = 0 => hd.gen.low < MaxQueue)
  /\ \E r \in {Result(hd, FALSE), processUnreadable(hd)} : AfterMessage(r)
  /\ UNCHANGED <<config, nodeVars, makerVars, topicVars, phase, crashes, heard, fed>>

\* consumer(timeoutMs) returns nothing.
consumeTimeout ==
  /\ phase = "up" /\ raw = <<>> /\ aux = <<>> /\ wait = 0
  /\ produceStratumJob(hd)
  /\ UNCHANGED <<config, nodeVars, makerVars, topicVars, phase, crashes, heard, fed>>

-----------------------------------------------------------------------------
(* Start and crash *)

\* The consumers start at the last message of their topics.
LastOf(m) == IF m = None THEN <<>> ELSE <<m>>

initConsumerHandlers ==
  /\ phase = "starting"
  /\ phase' = IF config.coin = "bitcoin" THEN "pre-consuming" ELSE "up"
  /\ hd' = HandlerInit
  /\ lastJobTime' \in {0, Long}       \* not initialised
  /\ wait' = JobInterval
  /\ heard' = [k \in Heights |-> Long] /\ fed' = FALSE
  /\ raw' = LastOf(rawLast) /\ aux' = LastOf(auxLast)
  /\ UNCHANGED <<config, nodeVars, makerVars, rawLast, auxLast, job, sent, crashes>>

\* "pre-consume some messages for initialization": up to the first template, or
\* until consumer(5000) returns nothing or an error; no job is produced.
preConsume ==
  /\ phase = "pre-consuming"
  /\ \/ /\ raw # <<>>
        /\ hd' = processMsg(hd, Head(raw)).h
        /\ heard' = Heard(hd, Head(raw))
        /\ raw' = Tail(raw) /\ aux' = aux /\ phase' = "up"
     \/ /\ aux # <<>>
        /\ hd' = processAuxMsg(hd, Head(aux)).h
        /\ aux' = Tail(aux) /\ UNCHANGED <<raw, phase, heard>>
     \/ phase' = "up" /\ UNCHANGED <<raw, aux, hd, heard>>
  /\ fed' = (fed \/ hd'.works # {})
  /\ UNCHANGED <<config, nodeVars, makerVars, rawLast, auxLast, lastJobTime, wait, job, sent,
                 crashes>>

Crash ==
  /\ phase \in {"pre-consuming", "up"} /\ crashes < config.crashes
  /\ phase' = "down" /\ crashes' = crashes + 1
  /\ UNCHANGED <<config, nodeVars, makerVars, topicVars, hd, lastJobTime, wait, job, heard,
                 sent, fed>>

-----------------------------------------------------------------------------
(* The nodes and the clock *)

\* a new block; the node announces it (hashblock, or the notification of Parity)
NodeBlock(n) ==
  /\ n \in config.nodes /\ tip[n] < config.maxHeight[n]
  /\ tip' = [tip EXCEPT ![n] = @ + 1]
  /\ rev' = [rev EXCEPT ![n] = 0]
  /\ news' = news \union {n}
  /\ UNCHANGED <<config, auxTip, makerVars, topicVars, makingVars>>

NodeRefresh(n) ==
  /\ n \in config.nodes /\ rev[n] < config.maxRev
  /\ rev' = [rev EXCEPT ![n] = @ + 1]
  /\ UNCHANGED <<config, tip, news, auxTip, makerVars, topicVars, makingVars>>

AuxBlock ==
  /\ config.aux # "none" /\ auxTip < MaxAux
  /\ auxTip' = auxTip + 1
  /\ UNCHANGED <<config, tip, rev, news, makerVars, topicVars, makingVars>>

\* Within a tick a maker produces what it has made, the loop's timer fires, and
\* a start is finished.
Prompt ==
  /\ \A th \in Threads : stamped[th] = None
  /\ phase # "pre-consuming"
  /\ phase = "up" =>
       /\ raw # <<>> \/ aux # <<>> \/ wait > 0
       /\ raw # <<>> => Head(raw).age < MaxLag
       /\ aux # <<>> => Head(aux).age < MaxLag

\* A process that went down is not started again within the tick.
Tick ==
  /\ Prompt
  /\ made' = [n \in Nodes |-> IF made[n] < RpcInterval THEN made[n] + 1 ELSE made[n]]
  /\ raw' = AllOlder(raw) /\ aux' = AllOlder(aux)
  /\ rawLast' = Older(rawLast) /\ auxLast' = Older(auxLast)
  /\ hd' = [hd EXCEPT !.works = {Older(w) : w \in @},
                      !.latest = {Older(w) : w \in {v \in @ : v.age < MaxDelay}},
                      !.byId = AllOlder(@), !.lastSend = Grown(@), !.last = Older(@), !.nmc = Older(@),
                      !.cur = Older(@), !.prev = Older(@), !.gen = Older(@)]
  /\ lastJobTime' = Grown(lastJobTime)
  /\ wait' = IF wait > 0 THEN wait - 1 ELSE 0
  /\ job' = Older(job) /\ sent' = Grown(sent)
  /\ heard' = [k \in Heights |-> Grown(heard[k])]
  /\ phase' = IF phase = "down" THEN "starting" ELSE phase
  /\ UNCHANGED <<config, nodeVars, stamped, crashes, fed>>

Init ==
  /\ config \in Configs
  /\ tip = [n \in Nodes |-> 1] /\ rev = [n \in Nodes |-> 0] /\ news = {}
  /\ made = [n \in Nodes |-> RpcInterval]
  /\ stamped = [th \in Threads |-> None]
  /\ auxTip = 1
  /\ raw = <<>> /\ rawLast = None /\ aux = <<>> /\ auxLast = None
  /\ phase = "starting" /\ hd = HandlerInit /\ lastJobTime = Long /\ wait = 0
  /\ job = None /\ crashes = 0
  /\ heard = [k \in Heights |-> Long] /\ sent = Long /\ fed = FALSE

makerSteps ==
  \/ \E n \in Nodes, t \in {"poll", "notify"} :
       submitRawGbtMsg(n, t) \/ submitRawGwMsg(n, t) \/ getRawMsgFails(n, t)
  \/ \E th \in Threads : kafkaProduceMsg(th)
  \/ submitAuxblockMsg
loopSteps == consumeKafkaMsg \/ consumeAuxMsg \/ consumeTimeout
startSteps == initConsumerHandlers \/ preConsume

Next ==
  \/ makerSteps
  \/ loopSteps
  \/ startSteps
  \/ consumeError
  \/ Crash
  \/ \E n \in Nodes : NodeBlock(n) \/ NodeRefresh(n)
  \/ AuxBlock
  \/ Tick

\* The loop's thread runs, a process that is down is started again, and time
\* passes; nothing is assumed of the nodes, the makers and Kafka.
LoopReady == phase = "up" /\ (raw # <<>> \/ aux # <<>> \/ wait = 0)
StartReady == phase \in {"starting", "pre-consuming"}
Fairness ==
  /\ []<>~LoopReady \/ []<><<loopSteps>>_vars
  /\ []<>~StartReady \/ []<><<startSteps>>_vars
  /\ []<>~Prompt \/ []<><<Tick>>_vars

Spec == Init /\ [][Next]_vars /\ Fairness

-----------------------------------------------------------------------------
(* Properties *)

HeightRefused == \E t \in config.refused : t[2] = hd.best

\* Once the loop has handled a message, the miners have been sent the best
\* template that it has: no higher template waits for the timer, nor one with
\* transactions behind an empty job of its height.  A template that initFromGbt()
\* refuses sets the height all the same: until the height changes, others wait for
\* the timer.  (Ethereum's works are compared with the greatest height that was
\* received, of a work that may have expired since: one below that waits.  Of the
\* other coins, which keep no height or send their newest job, nothing is said.)
BestIsOut ==
  phase = "up" /\ hd.best > 0 /\ hd.works # {} /\ job # None =>
    LET b == Best(hd.works)
    IN /\ config.coin = "bitcoin" /\ ~HeightRefused =>
            /\ b.height <= job.height
            /\ b.height = job.height /\ job.empty => isEmptyGbt(b)
       /\ config.coin = "eth" => b.height <= hd.best

\* "The block height downs must past twice the time of stratumJobInterval_
\* without the higher height GBT received" (addRawGbt()): a job below the one
\* before it is sent only when no template with transactions of a greater
\* height was received in two intervals.  (An empty one expires earlier.)
HeightFallsLate ==
  [][config.coin = "bitcoin" /\ job # None /\ job'.height < job.height =>
       \A k \in Heights : k > job'.height => heard[k] >= 2 * JobInterval]_vars

\* nothing to make a job of: no work since the start, or Decred's works have all
\* been cleared (see DecredKeepsWork), or initFromGbt() refuses the best template
NothingToSend ==
  \/ ~fed
  \/ config.coin = "decred" /\ hd.works = {}
  \/ config.coin = "bitcoin" /\ hd.works # {} /\ InitFails(Best(hd.works))

\* A job maker that had a work goes on sending jobs, not only trying to:
\* clearTimeoutGbt() and clearTimeoutMsg() "ensure that [the map] has at least one
\* element, even if it expires", the loop never waits for more than the interval,
\* and what it does in between (a template that is not sent, which sets
\* lastJobTime_) does not put off the next job forever.
JobsKeepComing ==
  []<>(phase # "up" \/ NothingToSend \/ sent = 0)

\* What a complete answer of a node says about its block is what the other
\* programs read from the job, after the four forms in between; a job of Bitcoin
\* is read as it was made.
JobsReadBack ==
  /\ config.coin # "bitcoin" /\ lastJobTime = 0 =>
       \A n \in config.nodes :
         LET w == ReadWork(config.coin, processRawGw(config.coin, NodeAnswer(n)))
         IN ReadJob(config.coin, WriteJob(config.coin, w, 1))
              = ReadBack(1, tip[n], BlockOf(n, tip[n], rev[n]))
  /\ config.coin = "bitcoin" /\ lastJobTime = 0 /\ hd.works # {} =>
       LET sjob == makeStratumJob(hd, Best(hd.works))
           read == unserializeFromJson(serializeToJson(sjob, 1))
       IN \A f \in DOMAIN sjob : read[f] = sjob[f]

\* JobMakerDecred.cc: "Ensure that we has at least one work, even if it expires.
\* So jobmaker can always generate jobs".
DecredKeepsWork ==
  [][config.coin = "decred" /\ phase = "up" /\ phase' = "up" /\ hd.works # {} =>
       hd'.works # {}]_vars
=============================================================================
