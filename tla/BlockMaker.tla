----------------------------- MODULE BlockMaker -----------------------------
(***************************************************************************)
(* The block maker: it follows the templates, the jobs and the solved      *)
(* shares in Kafka, puts the block of a solved share together, gives it to *)
(* the nodes of its chain (and of the merged mined chains) and to the      *)
(* table of the found blocks.  A consumer thread per topic, and a detached *)
(* thread for every submission and every row.                              *)
(*                                                                         *)
(* A job is its number, which orders the job ids; a share is its number    *)
(* too.  A hash is a number, so that it can be compared with a target.     *)
(* "lead" is the premise that a job and its template are read before a     *)
(* solved share that was found with them; run() waits 3 seconds to that    *)
(* end.  The threads of the merged mined chains do not wait.               *)
(***************************************************************************)
EXTENDS BitcoinJob, FiniteSets

VARIABLES
  bconf,     \* coin, nodes, what is to come (gbts, jobs, hashes) and the bounds
  btopics,   \* the Kafka topics gbt, job, solved, nmc and rsk; now
  bm,        \* the block maker's process
  bthreads,  \* its detached threads
  bout       \* given (to each node), aux (given to the merged chains), rows, auxRows

blockVars == <<bconf, btopics, bm, bthreads, bout>>

Bitcoin == bconf.coin = "bitcoin"
Nodes == DOMAIN bconf.nodes

-----------------------------------------------------------------------------
(* The merkle branch of a transaction, in constant space *)

BitClear(count, level) == (count \div 2^level) % 2 = 0

\* One level up: the neighbour of what depends on the leaf joins the branch.
Rise(st, level) ==
  [st EXCEPT
     !.branch = IF st.match THEN Append(@, st.inner[level])
                ELSE IF st.matchLevel = level THEN Append(@, st.h) ELSE @,
     !.match = @ \/ st.matchLevel = level,
     !.h = Hash2(st.inner[level], @)]

\* the element of a singleton: what is bound to it is computed once
The(S) == CHOOSE x \in S : TRUE

\* Levels from "level" on are combined as long as their bit of the count is clear.
RECURSIVE RiseAll(_, _)
RiseAll(st, level) ==
  IF BitClear(st.count, level)
  THEN The({RiseAll(up, level + 1) : up \in {Rise(st, level)}})
  ELSE [st EXCEPT !.level = level]

\* The leaf joins the subtrees that it completes.
AddLeaf(st, leaf, pos) ==
  The({[up EXCEPT !.inner[up.level] = up.h, !.matchLevel = IF up.match THEN up.level ELSE @]
       : up \in {RiseAll([st EXCEPT !.h = leaf, !.count = @ + 1,
                                    !.match = st.count = pos], 0)}})

RECURSIVE Leaves(_, _, _)
Leaves(st, leaves, pos) ==
  IF leaves = <<>> THEN st
  ELSE The({Leaves(next, Tail(leaves), pos) : next \in {AddLeaf(st, Head(leaves), pos)}})

\* An odd level: the hash is combined with itself.
SweepOdd(st) ==
  [st EXCEPT !.branch = IF st.match THEN Append(@, st.h) ELSE @,
             !.h = Hash2(@, @), !.count = @ + 2^st.level]

\* The final sweep over the rightmost branch
RECURSIVE Sweep(_)
Sweep(st) ==
  IF st.count = 2^st.level THEN st
  ELSE The({Sweep(up) : up \in {RiseAll(SweepOdd(st), st.level + 1)}})

LowestBit(n) == CHOOSE l \in 0 .. n : ~BitClear(n, l) /\ \A k \in 0 .. l - 1 : BitClear(n, k)

ComputeMerkleBranch(leaves, pos) ==
  The({Sweep([st EXCEPT !.level = LowestBit(st.count), !.h = st.inner[LowestBit(st.count)],
                        !.match = st.matchLevel = LowestBit(st.count)]).branch
       : st \in {Leaves([inner |-> [l \in 0 .. Len(leaves) |-> None], branch |-> <<>>,
                         match |-> FALSE, matchLevel |-> -1, level |-> 0,
                         h |-> None, count |-> 0], leaves, pos)}})

-----------------------------------------------------------------------------
(* The stratum server, when a share reaches a target *)

\* The coinbase that broadcastStratumJob() takes for a server of a sub-pool
PoolCoinbase(job) ==
  IF bconf.pool \in DOMAIN job.subPool THEN job.subPool[bconf.pool] ELSE job.main

\* A client of the grand pool fills in the grand nonce itself.
generateCoinbaseTx(job, extraNonce, grand) ==
  (IF grand THEN PoolCoinbase(job).grandCoinbase1 ELSE PoolCoinbase(job).coinbase1)
    \o <<<<"nonces", extraNonce>>>> \o PoolCoinbase(job).coinbase2

generateBlockHeader(job, k, coinbase, hash) ==
  [k |-> k, root |-> RootOfBranch(coinbase, job.merkleBranch), hash |-> hash]

\* Publishing of a template by the gbtmaker, and of a job by the job maker
PublishGbt ==
  /\ Len(btopics.gbt) < Len(bconf.gbts)
  /\ btopics' = [btopics EXCEPT !.gbt = Append(@, bconf.gbts[Len(@) + 1])]
  /\ UNCHANGED <<bconf, bm, bthreads, bout>>

PublishJob ==
  LET j == bconf.jobs[Len(btopics.job) + 1] IN
  /\ Len(btopics.job) < Len(bconf.jobs)
  /\ j.gbt <= Len(btopics.gbt)
  /\ btopics' = [btopics EXCEPT !.job = Append(@, serializeToJson(
                   initFromGbt(bconf.gbts[j.gbt], bconf.payout, bconf.subPools,
                               j.nmc, j.rsk, j.vcash, FALSE, bconf.grand), Len(@) + 1))]
  /\ UNCHANGED <<bconf, bm, bthreads, bout>>

\* The closure of ServerBitcoin::checkShare(): only a share of a job that is not
\* stale solves the block, but it may still solve one of a merged mined chain.
checkShare(i, hash, fresh, grand) ==
  LET job == unserializeFromJson(btopics.job[i])
      k == bconf.found
      coinbase == generateCoinbaseTx(job, k, grand)
      share == [job |-> i, header |-> generateBlockHeader(job, k, coinbase, hash),
                coinbase |-> coinbase]
      sentIf(topic, cond, message) == IF cond THEN Append(topic, message) ELSE topic
  IN /\ bconf.found > 0
     /\ bconf' = [bconf EXCEPT !.found = @ - 1]
     /\ btopics' = [btopics EXCEPT
          !.solved = sentIf(@, fresh /\ hash <= bconf.target, share),
          !.rsk = sentIf(@, job.rsk.hash # None /\ hash <= job.rsk.target,
                         [job |-> i, header |-> share.header, coinbase |-> coinbase,
                          rpc |-> job.rsk.rpc]),
          !.nmc = sentIf(@, job.nmc.bits # 0 /\ hash <= job.nmcTarget,
                         [job |-> i, header |-> share.header, coinbase |-> coinbase,
                          aux |-> job.nmc.hash, rpc |-> job.nmc.rpc])]
     /\ UNCHANGED <<bm, bthreads, bout>>

\* A solved share of a coin without templates says all there is to say.
SolvedShare ==
  /\ ~Bitcoin /\ bconf.found > 0
  /\ bconf' = [bconf EXCEPT !.found = @ - 1]
  /\ btopics' = [btopics EXCEPT !.solved =
       Append(@, [job |-> 0, header |-> [k |-> bconf.found, root |-> None, hash |-> 0],
                  coinbase |-> <<>>])]
  /\ UNCHANGED <<bm, bthreads, bout>>

Clock ==
  /\ bconf.ticks > 0
  /\ bconf' = [bconf EXCEPT !.ticks = @ - 1]
  /\ btopics' = [btopics EXCEPT !.now = @ + 1]
  /\ UNCHANGED <<bm, bthreads, bout>>

-----------------------------------------------------------------------------
(* Templates and jobs *)

NoMap == [x \in {} |-> None]
With(f, x, v) == [y \in DOMAIN f \cup {x} |-> IF y = x THEN v ELSE f[y]]

\* The maps of the jobs keep the greatest job ids.
Newest(f, n) ==
  [x \in {x \in DOMAIN f : Cardinality({y \in DOMAIN f : y > x}) < n} |-> f[x]]

Consumed(p, topic) == [p EXCEPT !.pos[topic] = @ + 1]
NextMessage(topic) == btopics[topic][bm.pos[topic] + 1]
HasMessage(topic) == bm.up /\ bm.pos[topic] < Len(btopics[topic])

insertRawGbt(p, hash, txs) ==
  LET q == Append(p.gbtQ, hash)
      kept == IF Len(q) > bconf.maxGbts THEN Tail(q) ELSE q
      all == With(p.gbts, hash, txs)
  IN [p EXCEPT !.gbtQ = kept,
               !.gbts = [x \in {kept[i] : i \in DOMAIN kept} |-> all[x]]]

\* A light template is only a name for what its node keeps.
addRawgbt(p, gbt) ==
  IF gbt.hash \in DOMAIN p.gbts THEN p
  ELSE IF gbt.light THEN [p EXCEPT !.lights = @ \cup {gbt.hash}]
  ELSE insertRawGbt(p, gbt.hash, gbt.txs)

consumeRawGbt ==
  /\ HasMessage("gbt")
  /\ bm' = Consumed(addRawgbt(bm, NextMessage("gbt")), "gbt")
  /\ UNCHANGED <<bconf, btopics, bthreads, bout>>

\* AuxBlockInfo of a job
AuxBlockInfo(job) ==
  [nmc |-> job.nmc.hash, nmcTarget |-> job.nmc.bits,
   vcash |-> job.vcash.hash, vcashTarget |-> job.vcash.target]

\* consumeStratumJob(), up to the release of jobIdMapLock_
JobMapped ==
  LET message == NextMessage("job")
      job == unserializeFromJson(message)
  IN /\ HasMessage("job") /\ bm.jobStep = "map"
     /\ bm' = [bm EXCEPT !.jobStep = "rsk",
                 !.jobGbt = Newest(With(@, message.jobId, job.gbtHash), bconf.maxJobs),
                 !.jobSub = Newest(With(@, message.jobId, job.subPool), bconf.maxJobs)]
     /\ UNCHANGED <<bconf, btopics, bthreads, bout>>

\* up to that of jobId2RskMMHashLock_
JobRsk ==
  LET message == NextMessage("job") IN
  /\ HasMessage("job") /\ bm.jobStep = "rsk"
  /\ bm' = [bm EXCEPT !.jobStep = "aux",
               !.jobRsk = Newest(With(@, message.jobId,
                                      unserializeFromJson(message).rsk.hash), bconf.maxJobs)]
  /\ UNCHANGED <<bconf, btopics, bthreads, bout>>

\* The rest of it; an address of a Namecoin node that is not known yet is asked
\* whether it supports submitauxblock.
JobAux ==
  LET message == NextMessage("job")
      job == unserializeFromJson(message)
      read == [Consumed(bm, "job") EXCEPT !.jobStep = "map",
                 !.jobAux = Newest(With(@, message.jobId, AuxBlockInfo(job)), bconf.maxJobs)]
      asks == job.nmc.rpc # None /\ job.nmc.rpc \notin bm.asked
  IN /\ HasMessage("job") /\ bm.jobStep = "aux"
     /\ \/ /\ bm' = [read EXCEPT !.asked = IF asks THEN @ \cup {job.nmc.rpc} ELSE @]
           /\ UNCHANGED bconf
        \/ /\ asks /\ bconf.faults > 0
           /\ bm' = read
           /\ bconf' = [bconf EXCEPT !.faults = @ - 1]
     /\ UNCHANGED <<btopics, bthreads, bout>>

-----------------------------------------------------------------------------
(* Solved shares *)

\* the hash of the template of a job; the null hash if the job is not known
GbtHashOf(job) == IF job \in DOMAIN bm.jobGbt THEN bm.jobGbt[job] ELSE None

\* What a thread has to do: where, for which block, and the attempts left
Thread(kind, node, block, tries) ==
  [kind |-> kind, node |-> node, block |-> block, left |-> tries, hash |-> FALSE]

\* How often a block is submitted to a node
Tries(coin) ==
  CASE coin = "eth" -> 5 [] coin \in {"bitcoin", "decred"} -> 3 [] OTHER -> 1

Block(share, txs) ==
  [k |-> share.header.k, root |-> share.header.root, hash |-> share.header.hash,
   coinbase |-> share.coinbase, txs |-> txs, aux |-> None, known |-> TRUE,
   pool |-> share.job]

BlockThreads(block) ==
  {Thread("node", n, block, Tries(bconf.coin)) : n \in Nodes}

\* BlockMakerBitcoin::processSolvedShare(): a light block leaves the transactions
\* to the node.
SolvedBitcoin(share) ==
  LET gbt == GbtHashOf(share.job) IN
  IF gbt \in bm.lights
  THEN BlockThreads(Block(share, "light")) \cup {Thread("row", None, Block(share, "light"), 1)}
  ELSE IF gbt \in DOMAIN bm.gbts
  THEN BlockThreads(Block(share, bm.gbts[gbt]))
         \cup {Thread("row", None, Block(share, bm.gbts[gbt]), 1)}
  ELSE {}

\* The thread of an Ethereum node writes the row when it is done.
SolvedEth(share) == BlockThreads(Block(share, None))
SolvedBytom(share) ==
  BlockThreads(Block(share, None)) \cup {Thread("row", None, Block(share, None), 1)}
SolvedDecred(share) ==
  BlockThreads(Block(share, None)) \cup {Thread("row", None, Block(share, None), 1)}
SolvedCkb(share) == {Thread("row", None, Block(share, None), 1)}

processSolvedShare(share) ==
  CASE bconf.coin = "bitcoin" -> SolvedBitcoin(share)
    [] bconf.coin = "eth" -> SolvedEth(share)
    [] bconf.coin = "bytom" -> SolvedBytom(share)
    [] bconf.coin = "decred" -> SolvedDecred(share)
    [] bconf.coin = "ckb" -> SolvedCkb(share)
    [] OTHER -> {}

\* the premise: what a solved share was made from has been read
Read(share) ==
  ~bconf.lead \/ (share.job <= bm.pos.job /\ bm.pos.gbt = Len(btopics.gbt))

\* The Sia block maker calls its nodes itself, once.
SolvedSia(share, failing) ==
  /\ Cardinality(failing) <= bconf.faults
  /\ bout' = [bout EXCEPT !.given = [n \in Nodes |->
                IF n \in failing THEN @[n] ELSE @[n] \cup {Block(share, None)}]]
  /\ bconf' = [bconf EXCEPT !.faults = @ - Cardinality(failing)]
  /\ bthreads' = bthreads

consumeSolvedShare ==
  LET share == NextMessage("solved") IN
  /\ HasMessage("solved") /\ bm.ready
  /\ Read(share)
  /\ bm' = Consumed(bm, "solved")
  /\ IF bconf.coin = "sia"
     THEN \E failing \in SUBSET Nodes : SolvedSia(share, failing)
     ELSE /\ bthreads' = bthreads \cup processSolvedShare(share)
          /\ UNCHANGED <<bconf, bout>>
  /\ UNCHANGED btopics

\* The proof that a coinbase is in a block: the merkle branch of the coinbase;
\* "known" is history: the merged work of the job was in the maps
Proof(share, txs, aux, known) ==
  [Block(share, ComputeMerkleBranch(<<share.coinbase>> \o txs, 0)) EXCEPT
     !.aux = aux, !.known = known]

\* The mutant compares with nmcNetworkTarget_ of the job, the easier target of two.
NmcMeetsEasier(info, hash) ==
  info.nmc # None /\ hash <= AuxTarget(info.nmcTarget, info.vcashTarget)

NmcMeets(info, hash) == info.nmc # None /\ hash <= info.nmcTarget
VcashMeets(info, hash) == info.vcash # None /\ hash <= info.vcashTarget

\* consumeNamecoinSolvedShare(): the template, and what is known of the aux work
NmcLook ==
  LET share == NextMessage("nmc")
      gbt == GbtHashOf(share.job)
  IN /\ HasMessage("nmc") /\ bm.nmc = None
     /\ bm' = IF gbt \in DOMAIN bm.gbts
              THEN [bm EXCEPT !.nmc =
                      [txs |-> bm.gbts[gbt],
                       info |-> IF share.job \in DOMAIN bm.jobAux
                                THEN bm.jobAux[share.job] ELSE None]]
              ELSE Consumed(bm, "nmc")
     /\ UNCHANGED <<bconf, btopics, bthreads, bout>>

Down(p) == [p EXCEPT !.up = FALSE, !.ready = FALSE]

\* jobId2AuxHash_ is searched again, without its lock: if the job has come in the
\* meantime, the info that is used is a null pointer.
NmcSubmit ==
  LET share == NextMessage("nmc")
      info == bm.nmc.info
      unknown == share.job \notin DOMAIN bm.jobAux
      proof(aux) == Proof(share, bm.nmc.txs, aux, ~unknown)
  IN /\ HasMessage("nmc") /\ bm.nmc # None
     /\ IF info = None /\ ~unknown
        THEN bm' = Down(bm) /\ bthreads' = {}
        ELSE /\ bm' = [Consumed(bm, "nmc") EXCEPT !.nmc = None]
             /\ bthreads' = bthreads
                  \cup (IF unknown \/ NmcMeets(info, share.header.hash)
                        THEN {Thread("nmc", share.rpc, proof(share.aux), 3)} ELSE {})
                  \cup (IF info # None /\ VcashMeets(info, share.header.hash)
                        THEN {Thread("vcash", share.rpc, proof(info.vcash), 3)} ELSE {})
     /\ UNCHANGED <<bconf, btopics, bout>>

\* "No more than 2 submissions per second": a second is two ticks of the clock.
submitToRskNode(p) ==
  LET last == IF p.rskTime = None THEN btopics.now ELSE p.rskTime
      over == btopics.now - last > 2
      start == IF over THEN btopics.now ELSE last
      count == IF over THEN 0 ELSE p.rskCount
      ok == btopics.now - start < 2 /\ count < 2
  IN [ok |-> ok,
      bm |-> [p EXCEPT !.rskTime = start, !.rskCount = IF ok THEN count + 1 ELSE count]]

consumeRskSolvedShare ==
  LET share == NextMessage("rsk")
      gbt == GbtHashOf(share.job)
      allowed == submitToRskNode(bm)
      rskHash == IF share.job \in DOMAIN bm.jobRsk THEN bm.jobRsk[share.job] ELSE None
  IN /\ HasMessage("rsk")
     /\ bm' = Consumed(allowed.bm, "rsk")
     /\ bthreads' = IF allowed.ok /\ gbt \in DOMAIN bm.gbts
                    THEN bthreads \cup {Thread("rsk", share.rpc,
                                               Proof(share, bm.gbts[gbt], rskHash,
                                                     share.job \in DOMAIN bm.jobRsk), 3)}
                    ELSE bthreads
     /\ UNCHANGED <<bconf, btopics, bout>>

-----------------------------------------------------------------------------
(* The detached threads *)

Spawns(t, more) == bthreads' = (bthreads \ {t}) \cup more

\* A node is called until the call succeeds, or the attempts are used up.
SubmitToNode(t) ==
  /\ t.kind = "node" /\ bconf.coin # "eth"
  /\ \/ /\ bout' = [bout EXCEPT !.given[t.node] = @ \cup {t.block}]
        /\ Spawns(t, {})
        /\ UNCHANGED bconf
     \/ /\ bconf.faults > 0
        /\ bconf' = [bconf EXCEPT !.faults = @ - 1]
        /\ Spawns(t, IF t.left = 1 THEN {} ELSE {[t EXCEPT !.left = @ - 1]})
        /\ UNCHANGED bout
  /\ UNCHANGED <<btopics, bm>>

\* A merged mined chain is called three times at most; the row is written after
\* failures as well.
SubmitAux(t) ==
  /\ t.left > 0
  /\ \/ /\ bout' = [bout EXCEPT !.aux = @ \cup {[chain |-> t.kind, block |-> t.block]}]
        /\ Spawns(t, {[t EXCEPT !.left = 0]})
        /\ UNCHANGED bconf
     \/ /\ bconf.faults > 0
        /\ bconf' = [bconf EXCEPT !.faults = @ - 1]
        /\ Spawns(t, {[t EXCEPT !.left = @ - 1]})
        /\ UNCHANGED bout
  /\ UNCHANGED <<btopics, bm>>

submitNamecoinBlockThread(t) == t.kind = "nmc" /\ SubmitAux(t)
submitRskBlockPartialMerkleThread(t) == t.kind = "rsk" /\ SubmitAux(t)
submitVcashBlockThread(t) == t.kind = "vcash" /\ SubmitAux(t)

insertAuxBlock2Mysql(t) ==
  /\ t.kind \in {"nmc", "rsk", "vcash"} /\ t.left = 0
  /\ \/ /\ bout' = [bout EXCEPT !.auxRows = @ \cup {[chain |-> t.kind, aux |-> t.block.aux, k |-> t.block.k]}]
        /\ UNCHANGED bconf
     \/ /\ bconf.dbFaults > 0
        /\ bconf' = [bconf EXCEPT !.dbFaults = @ - 1]
        /\ UNCHANGED bout
  /\ Spawns(t, {})
  /\ UNCHANGED <<btopics, bm>>

\* BlockMakerEth::submitBlock() with a clear answer: a node that has the block
\* refuses it, and only parity tells the hash of one that it takes.
submitBlock(t) ==
  [t EXCEPT !.kind = "row",
            !.hash = t.node \in bm.parity /\ t.block \notin bout.given[t.node]]

\* The retries around it: a clear answer ends them, whatever it is.
SubmitToEth(t) ==
  LET answered == submitBlock(t)
  IN /\ t.kind = "node" /\ bconf.coin = "eth"
     /\ \/ /\ bout' = [bout EXCEPT !.given[t.node] = @ \cup {t.block},
                                   !.hashed = IF answered.hash THEN @ \cup {t.block.k} ELSE @]
           /\ Spawns(t, {answered})
           /\ UNCHANGED bconf
        \/ /\ bconf.faults > 0
           /\ bconf' = [bconf EXCEPT !.faults = @ - 1]
           /\ Spawns(t, {IF t.left = 1 THEN [t EXCEPT !.kind = "row"]
                          ELSE [t EXCEPT !.left = @ - 1]})
           /\ UNCHANGED bout
     /\ UNCHANGED <<btopics, bm>>

\* the sub-pool whose coinbase the block has: its own table of found blocks
Holds(tx, part) == \E i \in 0 .. Len(tx) - Len(part) : SubSeq(tx, i + 1, i + Len(part)) = part
SubPoolOf(block) ==
  LET subs == IF block.pool \in DOMAIN bm.jobSub THEN bm.jobSub[block.pool] ELSE NoMap
      own == {n \in DOMAIN subs :
                /\ \/ Holds(block.coinbase, subs[n].coinbase1)
                   \/ subs[n].grandCoinbase1 # <<>> /\ Holds(block.coinbase, subs[n].grandCoinbase1)
                /\ Holds(block.coinbase, subs[n].coinbase2)}
  IN IF own = {} THEN "main" ELSE CHOOSE n \in own : TRUE

\* The unique key of the table holds one row for a block.  The mutant has no
\* ON DUPLICATE KEY.
InsertedOnly(rows, row) ==
  IF \E r \in rows : r.k = row.k THEN rows ELSE rows \cup {row}

\* "Other thread may have written a record without the hash, so update it here."
Inserted(rows, row) ==
  IF \E r \in rows : r.k = row.k
  THEN {IF r.k = row.k /\ row.hash THEN [r EXCEPT !.hash = TRUE] ELSE r : r \in rows}
  ELSE rows \cup {row}

\* saveBlockToDB(); the table of CKB has no column for what its block maker writes.
SaveRow(t) ==
  /\ t.kind = "row"
  /\ \/ /\ bout' = [bout EXCEPT !.rows =
                      IF bconf.coin = "ckb" THEN @
                      ELSE Inserted(@, [k |-> t.block.k, hash |-> t.hash,
                                        pool |-> IF Bitcoin THEN SubPoolOf(t.block) ELSE "main"])]
        /\ UNCHANGED bconf
     \/ /\ bconf.dbFaults > 0
        /\ bconf' = [bconf EXCEPT !.dbFaults = @ - 1]
        /\ UNCHANGED bout
  /\ Spawns(t, {})
  /\ UNCHANGED <<btopics, bm>>

-----------------------------------------------------------------------------
(* The process *)

\* a consumer that begins with the last n messages of a topic
FromTail(topic, n) == IF Len(btopics[topic]) > n THEN Len(btopics[topic]) - n ELSE 0

\* The nodes that are taken to support parity_submitWorkDetail: those that answer
\* to it now.
checkRpcSubmitBlock(silent) == {n \in Nodes : bconf.nodes[n] = "parity"} \ silent

\* The block maker as init() leaves it; "due" is history: the solved shares that
\* it is to read
Started(parity) ==
  [up |-> TRUE, ready |-> FALSE,
   pos |-> [gbt |-> FromTail("gbt", bconf.maxGbts), job |-> FromTail("job", bconf.maxJobs),
            solved |-> FromTail("solved", 2), nmc |-> FromTail("nmc", 2),
            rsk |-> FromTail("rsk", 2)],
   gbts |-> NoMap, gbtQ |-> <<>>, lights |-> {},
   jobGbt |-> NoMap, jobSub |-> NoMap, jobRsk |-> NoMap, jobAux |-> NoMap,
   jobStep |-> "map", nmc |-> None, asked |-> {},
   rskTime |-> None, rskCount |-> 0, parity |-> parity,
   due |-> FromTail("solved", 2)]

\* main(): a node that does not answer ends the program; whoever supervises it
\* starts it again.
Restart ==
  /\ ~bm.up
  /\ \/ bm' = Started(checkRpcSubmitBlock({})) /\ UNCHANGED bconf
     \/ /\ bconf.faults > 0
        /\ bconf' = [bconf EXCEPT !.faults = @ - 1]
        /\ IF bconf.coin = "eth"
           THEN \E n \in Nodes : bm' = Started(checkRpcSubmitBlock({n}))
           ELSE bm' = bm
  /\ UNCHANGED <<btopics, bthreads, bout>>

Crash ==
  /\ bm.up /\ bconf.deaths > 0
  /\ bconf' = [bconf EXCEPT !.deaths = @ - 1]
  /\ bm' = Down(bm)
  /\ bthreads' = {}
  /\ UNCHANGED <<btopics, bout>>

\* BlockMaker::run() begins with the solved shares after 3 seconds.
Ready ==
  /\ bm.up /\ ~bm.ready
  /\ bconf.lead => bm.pos.job = Len(btopics.job) /\ bm.pos.gbt = Len(btopics.gbt)
  /\ bm' = [bm EXCEPT !.ready = TRUE]
  /\ UNCHANGED <<bconf, btopics, bthreads, bout>>

BlockInit(conf) ==
  /\ bconf = conf
  /\ btopics = [gbt |-> <<>>, job |-> <<>>, solved |-> <<>>, nmc |-> <<>>, rsk |-> <<>>, now |-> 0]
  /\ bm = [Started(checkRpcSubmitBlock({})) EXCEPT !.ready = TRUE]
  /\ bthreads = {}
  /\ bout = [given |-> [n \in Nodes |-> {}], aux |-> {}, rows |-> {}, auxRows |-> {}, hashed |-> {}]

Consumers ==
  \/ consumeRawGbt \/ JobMapped \/ JobRsk \/ JobAux
  \/ consumeSolvedShare \/ NmcLook \/ NmcSubmit \/ consumeRskSolvedShare

Detached ==
  \E t \in bthreads :
    \/ SubmitToNode(t) \/ SubmitToEth(t) \/ SaveRow(t)
    \/ submitNamecoinBlockThread(t) \/ submitRskBlockPartialMerkleThread(t)
    \/ submitVcashBlockThread(t) \/ insertAuxBlock2Mysql(t)

BlockSteps == Consumers \/ Detached \/ Restart \/ Ready

Others ==
  \/ PublishGbt \/ PublishJob \/ SolvedShare \/ Clock \/ Crash
  \/ \E i \in 1 .. Len(btopics.job), hash \in bconf.hashes, fresh, grand \in BOOLEAN :
       (grand => bconf.grand) /\ checkShare(i, hash, fresh, grand)

BlockNext == BlockSteps \/ Others

-----------------------------------------------------------------------------
(* Properties *)

\* What the block maker gives away is true.  A block's transactions have the merkle
\* root of its header, whatever was evicted from the maps; the branch of a merged
\* mined block leads there from the coinbase, its hash reaches the target of the
\* chain it is given to, and its coinbase commits to that chain's block; a row is
\* in the table of the pool whose coinbase was mined.  The code looks at no target
\* for a share of a job of which jobId2AuxHash_ has nothing ("need submit to nmc"),
\* and gives the null hash to RSK for one that jobId2RskHashForMergeMining_ lacks.
BlocksTrue ==
  /\ \A n \in Nodes : \A b \in bout.given[n] :
       Bitcoin /\ b.txs # "light" => BlockMerkleRoot(<<b.coinbase>> \o b.txs) = b.root
  /\ \A a \in bout.aux :
       LET b == a.block
           works == {bconf.jobs[j][a.chain] : j \in DOMAIN bconf.jobs} \ {None}
       IN /\ RootOfBranch(b.coinbase, b.txs) = b.root
          /\ b.known => \E w \in works : w.hash = b.aux /\ b.hash <= w.bits
          /\ b.known \/ a.chain # "rsk" =>
               \E i \in DOMAIN b.coinbase : b.coinbase[i] = <<a.chain, b.aux>>
  /\ \A r \in bout.rows : Bitcoin => r.pool = bconf.pool

\* Every found block reaches every node, and the table, although calls fail, threads
\* race and the block maker may die: "we need to consume the latest 2 messages, just
\* in case".  Its template has to be among those that Kafka is asked for, too.  The
\* row has the block's hash once a node has told it.  Said of a block maker that dies
\* no more at last (a Namecoin share that overtakes its job ends it, NmcSubmit), and
\* of fewer failing calls than tries.
Due ==
  {btopics.solved[i] : i \in {i \in bm.due + 1 .. Len(btopics.solved) :
     Bitcoin => /\ btopics.solved[i].job > Len(btopics.job) - bconf.maxJobs
                /\ bconf.jobs[btopics.solved[i].job].gbt > Len(btopics.gbt) - bconf.maxGbts}}
Delivered(share) ==
  /\ bconf.coin # "ckb" =>
       \A n \in Nodes : \E b \in bout.given[n] : b.k = share.header.k
  /\ bconf.coin \notin {"ckb", "sia"} /\ bconf.saves =>
       \E r \in bout.rows : r.k = share.header.k
  /\ bconf.saves /\ share.header.k \in bout.hashed /\ ~bconf.dies =>
       \E r \in bout.rows : r.k = share.header.k /\ r.hash
FoundBlocksReachNodes ==
  <>[]bm.up => <>[](bconf.lead => \A share \in Due : Delivered(share))
=============================================================================
