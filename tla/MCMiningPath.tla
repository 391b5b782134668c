---------------------------- MODULE MCMiningPath ----------------------------
(***************************************************************************)
(* The parts on the way from a miner's login to a block, each on instances *)
(* of its own: a behaviour is one instance of one part, and the other      *)
(* parts are at rest.                                                      *)
(***************************************************************************)
EXTENDS Sessions, DiffController, CoinShares, BlockMaker, PoolWatcher

CONSTANT U1  \* one of Users

VARIABLE part

vars == <<part, sessionVars, diffVars, shareVars, lightVars, blockVars, watchVars>>

-----------------------------------------------------------------------------
(* Users and sessions *)

Plain ==
  [chains |-> 2, auto |-> FALSE, single |-> FALSE, autoReg |-> FALSE, maxPending |-> 1,
   coin |-> "bitcoin", anonymous |-> FALSE, serial |-> TRUE,
   names |-> [n \in Users \cup {Reference} |-> 0],
   users |-> [c \in 0 .. 1 |-> Users], known |-> [c \in 0 .. 1 |-> Users],
   values |-> {0, 1}, edits |-> 2, expiries |-> 0, commands |-> 0, tries |-> 1,
   sessions |-> 1, agents |-> FALSE, deaths |-> TRUE, who |-> {U1}]

UserConfs == {
  [Plain EXCEPT !.expiries = 1],
  [Plain EXCEPT !.sessions = 2, !.edits = 1, !.deaths = FALSE],
  [Plain EXCEPT !.auto = TRUE, !.values = {0, -1}, !.commands = 1, !.edits = 1],
  [Plain EXCEPT !.single = TRUE, !.auto = TRUE, !.values = {1, -1}, !.commands = 1,
                !.edits = 1, !.deaths = FALSE, !.coin = "beam"],
  [Plain EXCEPT !.autoReg = TRUE, !.chains = 1, !.edits = 0, !.coin = "eth", !.who = Users,
                !.known = [c \in 0 .. 1 |-> {}], !.users = [c \in 0 .. 1 |-> {}],
                !.tries = 2, !.deaths = FALSE],
  [Plain EXCEPT !.agents = TRUE, !.edits = 1],
  [Plain EXCEPT !.known = [c \in 0 .. 1 |-> IF c = 0 THEN {U1} ELSE {}], !.who = Users,
                !.users = [c \in 0 .. 1 |-> IF c = 0 THEN {U1} ELSE {}]],
  [Plain EXCEPT !.single = TRUE, !.values = {1, -2}, !.expiries = 1, !.edits = 1,
                !.deaths = FALSE],
  [Plain EXCEPT !.autoReg = TRUE, !.edits = 0, !.deaths = FALSE, !.tries = 1,
                !.known = [c \in 0 .. 1 |-> {}], !.users = [c \in 0 .. 1 |-> {}]],
  [Plain EXCEPT !.coin = "grin", !.who = Users, !.tries = 2, !.edits = 1],
  [Plain EXCEPT !.coin = "ckb", !.anonymous = TRUE, !.edits = 0],
  [Plain EXCEPT !.serial = FALSE, !.auto = TRUE, !.values = {1, -1}, !.commands = 1,
                !.edits = 1, !.deaths = FALSE, !.coin = "decred"]}

-----------------------------------------------------------------------------
(* Difficulties *)

Miner(rate, default, idle, suggests, requires) ==
  [rate |-> rate, default |-> default, idle |-> idle, suggests |-> suggests,
   requires |-> requires]

DiffConfs == {
  Miner(7, 2, 2, {}, {}), Miner(1, 256, 1, {}, {32}), Miner(333, 2, 1, {1024}, {}),
  Miner(12, 256, 2, {}, {}), Miner(1900, 1024, 1, {}, {}), Miner(5, 16, 1, {64}, {}),
  Miner(40, 2, 1, {}, {}), Miner(204800, 1024, 1, {}, {})}

-----------------------------------------------------------------------------
(* Shares *)

X(nonce, reach, valid, claim) ==
  [nonce |-> nonce, reach |-> reach, ok |-> TRUE, valid |-> valid, prefix |-> TRUE,
   claim |-> claim]
SJob(key, height) == [key |-> key, height |-> height, net |-> 3]

Coin(c) ==
  [coin |-> c, jobs |-> <<SJob("a", 1), SJob("a", 1), SJob("b", 2)>>,
   shares |-> {X(1, 4, TRUE, TRUE), X(2, 2, TRUE, FALSE)}, submits |-> 2, notifies |-> 1,
   diffs |-> {1, 2}, expire |-> TRUE, failures |-> 0, deaths |-> TRUE, restarts |-> FALSE,
   limit |-> 1, lights |-> {}, maxLocal |-> 2, keepLocal |-> 1, unknown |-> "none"]
Eth == [Coin("eth") EXCEPT !.diffs = {2}, !.expire = FALSE, !.deaths = FALSE, !.lights = {0}]

ShareConfs == {
  [Coin("beam") EXCEPT !.shares = @ \cup {[X(3, 1, TRUE, FALSE) EXCEPT !.prefix = FALSE]},
                       !.diffs = {2}],
  [Coin("beam") EXCEPT !.jobs = <<SJob("a", 1), SJob("b", 1), SJob("a", 2), SJob("b", 3)>>,
                       !.diffs = {2}, !.maxLocal = 3, !.keepLocal = 2],
  [Coin("grin") EXCEPT !.shares = @ \cup {X(3, 1, FALSE, FALSE)}, !.diffs = {2}],
  Coin("ckb"),
  [Coin("decred") EXCEPT !.shares = @ \cup {[X(3, 1, FALSE, FALSE) EXCEPT !.ok = FALSE]},
                         !.diffs = {2}],
  [Coin("bytom") EXCEPT !.deaths = FALSE, !.diffs = {2}],
  [Eth EXCEPT !.jobs = <<SJob("a", 0), SJob("a", 0)>>],
  [Eth EXCEPT !.jobs = <<SJob("a", 1), SJob("b", 2)>>, !.submits = 1, !.failures = 1,
              !.notifies = 0, !.deaths = TRUE, !.lights = {1}, !.shares = {X(1, 4, TRUE, FALSE)}],
  [Eth EXCEPT !.jobs = <<SJob("a", 0), SJob("b", 2)>>, !.lights = {}, !.submits = 1,
              !.failures = 1, !.notifies = 0, !.restarts = TRUE,
              !.shares = {X(1, 4, TRUE, FALSE)}]}

-----------------------------------------------------------------------------
(* Blocks *)

Gbt(hash, txs, light) ==
  [hash |-> hash, height |-> 1, txs |-> txs, witness |-> FALSE, light |-> light]
G1 == Gbt("g1", <<"t1">>, FALSE)
G2 == Gbt("g2", <<"t1", "t2", "t3", "t4">>, FALSE)
Payout(name) == [info |-> name, payout |-> name]
JobOf(gbt) == [gbt |-> gbt, nmc |-> None, rsk |-> None, vcash |-> None]
MergedJob ==
  [gbt |-> 1, nmc |-> [hash |-> "N", bits |-> 2, height |-> 1, rpc |-> "nd", age |-> 0],
   rsk |-> [hash |-> "R", bits |-> 3, rpc |-> "rd"],
   vcash |-> [hash |-> "V", bits |-> 3, height |-> 1, rpc |-> "vd"]]
Servers(names, kind) == [n \in names |-> kind]

Blocks(coin) ==
  [coin |-> coin, nodes |-> Servers({"n1"}, "plain"), gbts |-> <<>>, jobs |-> <<>>,
   payout |-> Payout("main"), subPools |-> [x \in {} |-> None], pool |-> "main",
   grand |-> FALSE, hashes |-> {1}, target |-> 1, found |-> 2, ticks |-> 0, faults |-> 0,
   dbFaults |-> 0, deaths |-> 0, lead |-> TRUE, saves |-> TRUE, dies |-> FALSE,
   maxGbts |-> 2, maxJobs |-> 2]
Btc == Blocks("bitcoin")

BlockConfs == {
  [Btc EXCEPT !.gbts = <<G1, G2>>, !.jobs = <<JobOf(1), JobOf(2)>>, !.deaths = 1,
              !.dies = TRUE, !.maxGbts = 1, !.maxJobs = 1],
  [Btc EXCEPT !.gbts = <<G2, G2>>, !.jobs = <<JobOf(1)>>, !.faults = 2,
              !.nodes = Servers({"n1", "n2"}, "plain")],
  [Btc EXCEPT !.gbts = <<Gbt("l", <<>>, TRUE), G1>>, !.jobs = <<JobOf(1)>>, !.found = 1,
              !.grand = TRUE, !.pool = "s1", !.subPools = [x \in {"s1", "s2"} |-> Payout(x)],
              !.dbFaults = 1, !.saves = FALSE, !.deaths = 1],
  [Btc EXCEPT !.gbts = <<Gbt("g", <<"t1", "t2">>, FALSE)>>, !.jobs = <<MergedJob>>,
              !.hashes = {2, 4}, !.found = 1, !.saves = FALSE],
  [Btc EXCEPT !.gbts = <<G1>>, !.found = 1,
              !.jobs = <<[MergedJob EXCEPT !.vcash = None, !.rsk = None]>>],
  [Btc EXCEPT !.gbts = <<Gbt("g", <<"t1", "t2">>, FALSE)>>, !.jobs = <<MergedJob>>,
              !.hashes = {3}, !.found = 1, !.faults = 1, !.dbFaults = 1, !.saves = FALSE],
  [Btc EXCEPT !.gbts = <<Gbt("g", <<"t1", "t2", "t3">>, FALSE)>>, !.lead = FALSE,
              !.jobs = <<MergedJob, JobOf(1)>>, !.maxJobs = 1, !.hashes = {3}, !.found = 1,
              !.pool = "s1", !.subPools = [x \in {"s1"} |-> Payout(x)]],
  [Btc EXCEPT !.gbts = <<G1>>, !.jobs = <<[MergedJob EXCEPT !.nmc = None, !.vcash = None]>>,
              !.hashes = {3}, !.found = 3, !.ticks = 3],
  [Blocks("eth") EXCEPT !.faults = 1,
     !.nodes = [n \in {"n1", "n2"} |-> IF n = "n1" THEN "parity" ELSE "plain"]],
  [Blocks("eth") EXCEPT !.nodes = Servers({"n1", "n2"}, "parity"), !.found = 1,
                        !.faults = 2, !.deaths = 1, !.dies = TRUE],
  Blocks("sia"), Blocks("bytom"), Blocks("ckb"),
  [Blocks("decred") EXCEPT !.faults = 2, !.deaths = 1, !.dies = TRUE]}

-----------------------------------------------------------------------------
(* Watchers *)

News(key, height, bits) == [key |-> key, height |-> height, bits |-> bits]
Watched(kind) ==
  [kind |-> kind, pools |-> 1, news |-> {News("a", 1, 1), News("b", 2, 1)}, own |-> <<>>,
   grand |-> FALSE, disable |-> FALSE, log |-> FALSE, interval |-> 2, maxJobs |-> 2,
   maxPows |-> 1, tail |-> 1, flush |-> 1, breaks |-> 1, fails |-> FALSE, notices |-> 2, found |-> 0,
   deaths |-> 0, ticks |-> 1]

WatchConfs == {
  [Watched("bitcoin") EXCEPT !.notices = 3, !.news = @ \cup {News("c", 3, 2)},
     !.own = <<[height |-> 1, bits |-> 1], [height |-> 2, bits |-> 1]>>],
  [Watched("proxy") EXCEPT !.pools = 2, !.ticks = 2, !.interval = 1, !.notices = 1],
  [Watched("proxy") EXCEPT !.news = {News("a", 1, 1), News(Nothing, 1, 1)}, !.ticks = 2,
     !.found = 1, !.log = TRUE, !.maxJobs = 1, !.grand = TRUE],
  [Watched("beam") EXCEPT !.notices = 1, !.found = 2, !.fails = TRUE, !.deaths = 1],
  [Watched("beam") EXCEPT !.found = 1],
  [Watched("grin") EXCEPT !.found = 1, !.maxJobs = 1, !.fails = TRUE]}

-----------------------------------------------------------------------------

\* The instances are among the configurations that the theorems are about.
ASSUME ConfsAssumption ==
  /\ \A c \in UserConfs : UserConf(c)
  /\ \A c \in ShareConfs : ShareConf(c)
  /\ \A c \in WatchConfs : c.pools \in Nat /\ c.interval \in Nat

\* The parts at rest
Users0 == SessionInit(Plain)
Diff0 == DiffInit(Miner(7, 2, 2, {}, {}))
Shares0 == ShareInit(Coin("beam"))
Blocks0 == BlockInit(Blocks("sia"))
Watch0 == WatchInit(Watched("grin"))

Init ==
  \/ /\ part = "users" /\ \E c \in UserConfs : SessionInit(c)
     /\ Diff0 /\ Shares0 /\ Blocks0 /\ Watch0
  \/ /\ part = "diff" /\ \E c \in DiffConfs : DiffInit(c)
     /\ Users0 /\ Shares0 /\ Blocks0 /\ Watch0
  \/ /\ part = "shares" /\ \E c \in ShareConfs : ShareInit(c)
     /\ Users0 /\ Diff0 /\ Blocks0 /\ Watch0
  \/ /\ part = "blocks" /\ \E c \in BlockConfs : BlockInit(c)
     /\ Users0 /\ Diff0 /\ Shares0 /\ Watch0
  \/ /\ part = "watchers" /\ \E c \in WatchConfs : WatchInit(c)
     /\ Users0 /\ Diff0 /\ Shares0 /\ Blocks0

Next ==
  /\ UNCHANGED part
  /\ \/ /\ part = "users" /\ UsersNext
        /\ UNCHANGED <<diffVars, shareVars, lightVars, blockVars, watchVars>>
     \/ /\ part = "diff" /\ DiffNext
        /\ UNCHANGED <<sessionVars, shareVars, lightVars, blockVars, watchVars>>
     \/ /\ part = "shares" /\ ShareNext
        /\ UNCHANGED <<sessionVars, diffVars, blockVars, watchVars>>
     \/ /\ part = "blocks" /\ BlockNext
        /\ UNCHANGED <<sessionVars, diffVars, shareVars, lightVars, watchVars>>
     \/ /\ part = "watchers" /\ WatchNext
        /\ UNCHANGED <<sessionVars, diffVars, shareVars, lightVars, blockVars>>

\* Each thread of a part goes on, a miner mines, nodes and pools answer.
ZkProgress == ReadChain("zk") \/ CacheChain("zk") \/ DispatchSwitch("zk") \/ ZkThread
CheckProgress ==
  ReadChain("check") \/ CacheChain("check") \/ DispatchSwitch("check") \/ CheckThread

Fairness ==
  /\ WF_sessionVars(part = "users" /\ ZkProgress /\ UNCHANGED sess)
  /\ WF_sessionVars(part = "users" /\ CheckProgress /\ UNCHANGED sess)
  /\ WF_sessionVars(part = "users" /\ ManagementThread /\ UNCHANGED sess)
  /\ WF_sessionVars(part = "users" /\ LoopStep)
  /\ WF_diffVars(part = "diff" /\ MineRecord)
  /\ WF_diffVars(part = "diff" /\ SendJob)
  /\ WF_blockVars(part = "blocks" /\ BlockSteps)
  /\ WF_watchVars(part = "watchers" /\ Reconnects)
  /\ WF_watchVars(part = "watchers" /\ Connects)
  /\ WF_watchVars(part = "watchers" /\ FirstJobs)

Spec == Init /\ [][Next]_vars /\ Fairness

-----------------------------------------------------------------------------
(* Properties of the parts, in the behaviours of that part *)

\* A session that mines ends up on the chain that ZooKeeper's node, the management
\* messages or the reference user ask for, whatever is edited, expires or is missed
\* while it logs in or is switched, as long as no two handlers of such changes
\* overlap (handleSwitchChainEvent(), checkNameChains(), switchChain()).
UsersFollowZookeeper ==
  part = "users" /\ uconf.serial => <>[](\A s \in DOMAIN sess : Follows(sess[s]))

\* The difficulty of a miner with a steady rate settles: at last it does not
\* change any more, and the shares come at the rate that is wanted, unless the
\* limits forbid it (DiffController::_calcCurDiff()).
DifficultySettles ==
  part = "diff" => <>[][(dcon.idle = 0 => InBand) /\ dcon'.job = dcon.job]_diffVars
=============================================================================
