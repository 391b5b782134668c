----------------------------- MODULE CoinWorks ------------------------------
(***************************************************************************)
(* The forms that the work of a chain goes through: the answer of a node,  *)
(* the raw message of a gbtmaker or gwmaker, the work that the job maker   *)
(* reads from it, the job that it writes and the job that the other        *)
(* programs read.  A JSON object is a record of the fields that are        *)
(* present with the type that the reader asks for, None where it cannot be *)
(* parsed; what a string or hash stands for is a value of the model.       *)
(***************************************************************************)
EXTENDS BitcoinJob

Has(r, fields) == fields \subseteq DOMAIN r
Without(r, fields) == Restrict(r, DOMAIN r \ fields)

-----------------------------------------------------------------------------
(* What a node answers about its work: the block `id' on height `h'; `rev'  *)
(* counts its improvements.  Parity gives the height with the work, and may *)
(* leave the number of the pending block out; patched nodes give nine or    *)
(* ten values.                                                              *)

BlockOf(id, h, rev) == [id |-> id, height |-> h, rev |-> rev]

AnswerBitcoin(b) ==
  [previousblockhash |-> b.id, height |-> b.height, coinbasevalue |-> 1, bits |-> 1,
   mintime |-> 0, curtime |-> 0, version |-> 1, transactions |-> b.rev, rules |-> 0]
AnswerEth(b) ==
  [number |-> b.height, parentHash |-> b.id, gasLimit |-> 2, gasUsed |-> b.rev,
   uncles |-> b.rev, transactions |-> b.rev, hHash |-> b, sHash |-> 1, target |-> 1,
   workNumber |-> b.height, workBlock |-> [parent |-> b.id, limit |-> 2, used |-> b.rev,
   uncles |-> b.rev, transactions |-> b.rev], header |-> b]
AnswerDecred(b) == [result |-> 1, data |-> b, target |-> 1]
AnswerBytom(b) == [status |-> "success", block_header |-> b, seed |-> 1]
AnswerSia(b) == [target |-> 1, header |-> b]
AnswerCkb(b) ==
  [work_id |-> b.id, parent_hash |-> b.id, pow_hash |-> b, height |-> b.height, target |-> 1,
   timestamp |-> 0]

Answer(coin, b) ==
  CASE coin = "bitcoin" -> AnswerBitcoin(b)
    [] coin = "eth"     -> AnswerEth(b)
    [] coin = "decred"  -> AnswerDecred(b)
    [] coin = "bytom"   -> AnswerBytom(b)
    [] coin = "sia"     -> AnswerSia(b)
    [] coin = "ckb"     -> AnswerCkb(b)

\* A node may leave a field out (the transactions of a template never); an
\* Ethereum node that is not patched leaves its extensions out, too.
Lacks(coin, r) ==
  {{}} \union {{f} : f \in DOMAIN r \ (IF coin = "bitcoin" THEN {"transactions"} ELSE {})}
  \union (IF coin # "eth" THEN {}
          ELSE {{"workNumber", "workBlock", "header"},
                {"workNumber", "workBlock", "header", "gasLimit"}})

-----------------------------------------------------------------------------
(* checkFields() and constructRawMsg() of the makers *)

makeRawGbtMsg(r) ==
  IF Has(r, {"previousblockhash", "height", "coinbasevalue", "bits", "mintime", "curtime",
             "version"})
  THEN [created_at_ts |-> 0, gbthash |-> r, block_template_base64 |-> r]
  ELSE None

checkFieldsGetwork(r) == Has(r, {"hHash", "sHash", "target"})

\* A pending block that lacks fields is reported, and accepted.
checkFieldsEth(r) == checkFieldsGetwork(r)

GasUsedPercent(used, limit) == IF limit = 0 THEN None ELSE (100 * used) \div limit
Num(r, field) == IF Has(r, {field}) THEN r[field] ELSE 0

\* The percentage of no gas prints as "nan": the field is not a number.
RawEth(r, height, block) ==
  LET gas == GasUsedPercent(block.used, block.limit)
      header == IF Has(r, {"header"}) THEN r.header ELSE None
      msg == [created_at_ts |-> 0, rpcAddress |-> 1, parent |-> block.parent,
              target |-> r.target, hHash |-> r.hHash, sHash |-> r.sHash, height |-> height,
              uncles |-> block.uncles, transactions |-> block.transactions,
              gasUsedPercent |-> gas, header |-> header]
  IN Without(msg, {f \in {"gasUsedPercent", "header"} : msg[f] = None})

constructRawMsgEth(r) ==
  LET height == IF Has(r, {"workNumber"}) THEN r.workNumber ELSE Num(r, "number")
      block == IF Has(r, {"workBlock"}) THEN r.workBlock
               ELSE [parent |-> Num(r, "parentHash"), limit |-> Num(r, "gasLimit"),
                     used |-> Num(r, "gasUsed"), uncles |-> Num(r, "uncles"),
                     transactions |-> Num(r, "transactions")]
  IN IF height < 1 THEN None ELSE RawEth(r, height, block)

checkFieldsDecred(r) == Has(r, {"result", "data", "target"})
constructRawMsgDecred(r) ==
  [created_at_ts |-> 0, rpcAddress |-> 1, data |-> r.data, target |-> r.target,
   network |-> r.result]

checkFieldsBytom(r) == Has(r, {"status", "block_header", "seed"}) /\ r.status = "success"
constructRawMsgBytom(r) ==
  [created_at_ts |-> 0, rpcAddress |-> 1, hHash |-> r.block_header, sHash |-> r.seed]

\* an answer of Sia is a string of 112 bytes, or refused
processRawGwSia(r) ==
  IF Has(r, {"target", "header"})
  THEN [created_at_ts |-> 0, rpcAddress |-> 1, target |-> r.target, hHash |-> r.header]
  ELSE None

processRawGw(coin, r) ==
  CASE coin = "bitcoin" -> makeRawGbtMsg(r)
    [] coin = "eth"     -> IF checkFieldsEth(r) THEN constructRawMsgEth(r) ELSE None
    [] coin = "decred"  -> IF checkFieldsDecred(r) THEN constructRawMsgDecred(r) ELSE None
    [] coin = "bytom"   -> IF checkFieldsBytom(r) THEN constructRawMsgBytom(r) ELSE None
    [] coin = "sia"     -> processRawGwSia(r)
    [] coin = "ckb"     -> r

-----------------------------------------------------------------------------
(* The work that a job maker reads; `block' is what its jobs will name *)

\* RskWorkEth::validate() and initialize()
initFromGwEth(m) ==
  IF Has(m, {"created_at_ts", "rpcAddress", "parent", "target", "hHash", "sHash", "height",
             "uncles", "transactions", "gasUsedPercent"})
  THEN [height |-> m.height, rev |-> m.uncles, block |-> m.hHash, sHash |-> m.sHash,
        target |-> m.target, parent |-> m.parent, transactions |-> m.transactions,
        gasUsedPercent |-> m.gasUsedPercent,
        header |-> IF Has(m, {"header"}) THEN m.header ELSE None]
  ELSE None

\* validate() and processMsg(): voters, size and height are read from the header
validateDecred(m) ==
  IF Has(m, {"created_at_ts", "rpcAddress", "data", "target", "network"}) /\ m.data.height > 0
  THEN [height |-> m.data.height, rev |-> m.data.rev, block |-> m.data, target |-> m.target,
        network |-> m.network]
  ELSE None

validateBytom(m) ==
  IF Has(m, {"created_at_ts", "rpcAddress", "hHash"})
  THEN [height |-> m.hHash.height, rev |-> m.hHash.rev, block |-> m.hHash, seed |-> m.sHash]
  ELSE None

validateSia(m) ==
  IF Has(m, {"created_at_ts", "rpcAddress", "target", "hHash"})
  THEN [height |-> m.hHash.height, rev |-> m.hHash.rev, block |-> m.hHash, target |-> m.target]
  ELSE None

initFromRawJobCkb(m) ==
  IF Has(m, {"work_id", "parent_hash", "pow_hash", "height", "target", "timestamp"})
  THEN [height |-> m.height, rev |-> m.pow_hash.rev, block |-> m.pow_hash,
        work_id |-> m.work_id, parent_hash |-> m.parent_hash, target |-> m.target,
        timestamp |-> m.timestamp]
  ELSE None

\* the checks of addRawGbt(); it asserts that the template has a height and
\* transactions
RawGbtWork(m) ==
  IF Has(m, {"created_at_ts", "block_template_base64", "gbthash"})
  THEN [height |-> m.block_template_base64.height,
        rev |-> m.block_template_base64.transactions,
        block |-> m.block_template_base64.previousblockhash]
  ELSE None

ReadWork(coin, m) ==
  CASE coin = "bitcoin" -> RawGbtWork(m)
    [] coin = "eth"     -> initFromGwEth(m)
    [] coin = "decred"  -> validateDecred(m)
    [] coin = "bytom"   -> validateBytom(m)
    [] coin = "sia"     -> validateSia(m)
    [] coin = "ckb"     -> initFromRawJobCkb(m)

-----------------------------------------------------------------------------
(* makeStratumJobMsg() and serializeToJson(): the job that is written *)

\* initFromGw() and serializeToJson(), which leaves an empty header out
serializeEth(w, id) ==
  LET job == [jobId |-> id, chain |-> "ETH", height |-> w.height, parent |-> w.parent,
              networkTarget |-> w.target, headerHash |-> w.block, sHash |-> w.sHash,
              uncles |-> w.rev, transactions |-> w.transactions,
              gasUsedPercent |-> w.gasUsedPercent, header |-> w.header]
  IN IF w.header = None THEN Without(job, {"header"}) ELSE job

\* The mutant takes the version of the block for that of the stake.
makeStratumJobMsgDecredVersion(w, id) ==
  [jobId |-> id, prevHash |-> w.block.id, coinBase1 |-> w.block, coinBase2 |-> 1,
   version |-> 1, target |-> w.target, network |-> w.network]

\* The header is cut before its extra data; its nonce is left out with them.
makeStratumJobMsgDecred(w, id) ==
  [jobId |-> id, prevHash |-> w.block.id, coinBase1 |-> w.block, coinBase2 |-> w.block.rev,
   version |-> 1, target |-> w.target, network |-> w.network]

makeStratumJobMsgBytom(w, id) ==
  [jobId |-> id, created_at_ts |-> 0, sHash |-> w.seed, hHash |-> w.block]

makeStratumJobMsgSia(w, id) ==
  [jobId |-> id, created_at_ts |-> 0, target |-> w.target, hHash |-> w.block]

serializeCkb(w, id) ==
  [jobid |-> id, created_at_ts |-> 0, work_id |-> w.work_id, pow_hash |-> w.block,
   parent_hash |-> w.parent_hash, height |-> w.height, target |-> w.target,
   timestamp |-> w.timestamp]

WriteJob(coin, w, id) ==
  CASE coin = "eth"    -> serializeEth(w, id)
    [] coin = "decred" -> makeStratumJobMsgDecred(w, id)
    [] coin = "bytom"  -> makeStratumJobMsgBytom(w, id)
    [] coin = "sia"    -> makeStratumJobMsgSia(w, id)
    [] coin = "ckb"    -> serializeCkb(w, id)

-----------------------------------------------------------------------------
(* unserializeFromJson(): the job that the other programs read *)

ReadBack(id, height, block) == [jobId |-> id, height |-> height, block |-> block]

unserializeEth(j) ==
  IF Has(j, {"jobId", "chain", "height", "networkTarget", "headerHash", "sHash"})
  THEN ReadBack(j.jobId, j.height, j.headerHash)
  ELSE None

\* The header is put together again from its parts.
unserializeDecred(j) ==
  IF Has(j, {"jobId", "prevHash", "coinBase1", "coinBase2", "version", "target", "network"})
  THEN ReadBack(j.jobId, j.coinBase1.height,
                BlockOf(j.prevHash, j.coinBase1.height, j.coinBase2))
  ELSE None

\* updateBlockHeaderFromHash() takes the height from the header
unserializeBytom(j) ==
  IF Has(j, {"created_at_ts", "jobId", "sHash", "hHash"})
  THEN ReadBack(j.jobId, j.hHash.height, j.hHash)
  ELSE None

\* A job of Sia has no height of its own.
unserializeSia(j) ==
  IF Has(j, {"created_at_ts", "jobId", "target", "hHash"})
  THEN ReadBack(j.jobId, j.hHash.height, j.hHash)
  ELSE None

unserializeCkb(j) ==
  IF Has(j, {"created_at_ts", "work_id", "jobid", "pow_hash", "parent_hash", "height",
             "target", "timestamp"})
  THEN ReadBack(j.jobid, j.height, j.pow_hash)
  ELSE None

ReadJob(coin, j) ==
  CASE coin = "eth"    -> unserializeEth(j)
    [] coin = "decred" -> unserializeDecred(j)
    [] coin = "bytom"  -> unserializeBytom(j)
    [] coin = "sia"    -> unserializeSia(j)
    [] coin = "ckb"    -> unserializeCkb(j)
=============================================================================
