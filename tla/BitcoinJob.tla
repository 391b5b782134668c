----------------------------- MODULE BitcoinJob -----------------------------
(***************************************************************************)
(* The stratum job of the Bitcoin family of chains: how the job maker      *)
(* makes one from a block template, with the merged mining of Namecoin,    *)
(* RSK and Vcash, how it travels through Kafka, and the merkle branch by   *)
(* which miners and the block maker reach the merkle root.                 *)
(*                                                                         *)
(* A transaction, an address or a block hash is an opaque value; a double  *)
(* SHA256 of two hashes is the pair of them.  A coinbase transaction is    *)
(* the sequence of its parts: the pushes of the input script, then the     *)
(* outputs.  A target is its number and "bits" the target it encodes, so   *)
(* that BitsToTarget() keeps the order.                                    *)
(***************************************************************************)
EXTENDS Integers, Sequences, FiniteSetsExt, Functions

CONSTANTS
  None,     \* no merged mining work, no coinbase of a sub-pool, no message
  AuxLife   \* the age from which a Namecoin block is too old, 60 seconds

\* a template: its hash, its height and its transactions without the coinbase,
\* with or without a witness commitment
Template(hash, height, txs, witness) ==
  [hash |-> hash, height |-> height, txs |-> txs, witness |-> witness]

-----------------------------------------------------------------------------
(* The merkle branch *)

Hash2(a, b) == <<a, b>>

\* The mutant does not pad the row.
MergedRowUnpadded(row) ==
  [i \in 1 .. (Len(row) - 1) \div 2 |-> Hash2(row[2 * i], row[2 * i + 1])]

\* one round of the loop: the first element goes to the branch, an even rest is
\* padded by its last element, and the others are merged two by two
MergedRow(row) ==
  LET odd == IF Len(row) % 2 = 0 THEN Append(row, row[Len(row)]) ELSE row
  IN [i \in 1 .. (Len(odd) - 1) \div 2 |-> Hash2(odd[2 * i], odd[2 * i + 1])]

makeMerkleBranch(vtxhashs) ==
  LET row[n \in 0 .. Len(vtxhashs)] ==
        IF n = 0 THEN vtxhashs
        ELSE IF Len(row[n - 1]) <= 1 THEN row[n - 1] ELSE MergedRow(row[n - 1])
      rounds == Cardinality({n \in DOMAIN row : Len(row[n]) > 1})
  IN IF Len(vtxhashs) <= 1 THEN vtxhashs
     ELSE [i \in 1 .. rounds |-> Head(row[i - 1])] \o row[rounds]

\* the root that the coinbase reaches along a branch (BitcoinHeader, the block
\* maker and every miner compute it so)
RootOfBranch(coinbase, branch) ==
  LET root[n \in 0 .. Len(branch)] ==
        IF n = 0 THEN coinbase ELSE Hash2(root[n - 1], branch[n])
  IN root[Len(branch)]

\* the merkle root of a block, as the nodes of the network compute it
PairedRow(row) ==
  LET even == IF Len(row) % 2 = 1 THEN Append(row, row[Len(row)]) ELSE row
  IN [i \in 1 .. Len(even) \div 2 |-> Hash2(even[2 * i - 1], even[2 * i])]
BlockMerkleRoot(leaves) ==
  LET row[n \in 0 .. Len(leaves)] ==
        IF n = 0 THEN leaves
        ELSE IF Len(row[n - 1]) = 1 THEN row[n - 1] ELSE PairedRow(row[n - 1])
  IN row[Len(leaves)][1]

-----------------------------------------------------------------------------
(* The coinbase transaction *)

\* where the extranonces go
PlaceHolder == <<"extranonce">>
\* the bytes that fill the place of the grand nonce for plain miners
GrandZeros == <<"grand zeros">>

\* the last place of the placeholder in the transaction; 0 when there is none
findExtraNonceStart(tpl) ==
  LET places == {i \in 1 .. Len(tpl) : tpl[i] = PlaceHolder}
  IN IF places = {} THEN 0 ELSE Max(places)

\* the merged mining tag of Namecoin: magic, block hash, merkle size and nonce
NmcTag(nmc) == IF nmc.bits = 0 THEN <<>> ELSE <<<<"nmc", nmc.hash>>>>

InputScript(height, info, nmc) ==
  <<<<"height", height>>, <<"info", info>>>> \o NmcTag(nmc) \o <<PlaceHolder>>

Outputs(payout, gbt, rsk, vcash) ==
  <<<<"payout", payout>>>>
  \o (IF gbt.witness THEN <<<<"witness", gbt.hash>>>> ELSE <<>>)
  \o (IF rsk = None THEN <<>> ELSE <<<<"rsk", rsk.hash>>>>)
  \o (IF vcash = None THEN <<>> ELSE <<<<"vcash", vcash.hash>>>>)

\* coinbase1, coinbase2 and grandCoinbase1 of a transaction: with a grand pool
\* the plain miners' extranonces come after the grand nonce's zeros
SplitCoinbase(tx, grandPool) ==
  LET start == findExtraNonceStart(tx)
      front == SubSeq(tx, 1, start - 1)
  IN [coinbase1 |-> IF grandPool THEN Append(front, GrandZeros) ELSE front,
      coinbase2 |-> SubSeq(tx, start + 1, Len(tx)),
      grandCoinbase1 |-> IF grandPool THEN front ELSE <<>>]

-----------------------------------------------------------------------------
(* initFromGbt() *)

NoNmc == [hash |-> None, bits |-> 0, height |-> 0, rpc |-> None]
NoRsk == [hash |-> None, target |-> 0, rpc |-> None]
NoVcash == [hash |-> None, target |-> 0, height |-> 0, rpc |-> None]

\* A block of Namecoin older than 60 seconds is left out.
NmcInfo(nmc) ==
  IF nmc = None \/ nmc.age > AuxLife
  THEN NoNmc
  ELSE [hash |-> nmc.hash, bits |-> nmc.bits, height |-> nmc.height, rpc |-> nmc.rpc]

RskInfo(rsk) ==
  IF rsk = None THEN NoRsk
  ELSE [hash |-> rsk.hash, target |-> rsk.bits, rpc |-> rsk.rpc]

VcashInfo(vcash) ==
  IF vcash = None THEN NoVcash
  ELSE [hash |-> vcash.hash, target |-> vcash.bits, height |-> vcash.height,
        rpc |-> vcash.rpc]

\* nmcNetworkTarget_, the easier one of Namecoin's target and Vcash's
AuxTarget(nmcBits, vcashTarget) == Max({nmcBits, vcashTarget})

\* Without a Namecoin block its fields take the ones of Vcash, after the
\* coinbase is made.
NmcOrVcash(nmc, vcash) ==
  IF nmc.bits = 0 /\ vcash # None
  THEN [nmc EXCEPT !.bits = vcash.bits, !.rpc = vcash.rpc]
  ELSE nmc

\* The coinbase of a sub-pool differs in the coinbase info and in output 0.
SubPoolCoinbase(pool, gbt, nmc, rsk, vcash, grandPool) ==
  SplitCoinbase(InputScript(gbt.height, pool.info, NmcInfo(nmc))
                  \o Outputs(pool.payout, gbt, rsk, vcash),
                grandPool)

initFromGbt(gbt, pool, subPools, nmc, rsk, vcash, isMergedMiningUpdate, grandPool) ==
  [gbtHash |-> gbt.hash,
   height |-> gbt.height,
   merkleBranch |-> makeMerkleBranch(gbt.txs),
   witness |-> gbt.witness,
   main |-> SplitCoinbase(InputScript(gbt.height, pool.info, NmcInfo(nmc))
                            \o Outputs(pool.payout, gbt, rsk, vcash),
                          grandPool),
   subPool |-> [n \in DOMAIN subPools |->
                  SubPoolCoinbase(subPools[n], gbt, nmc, rsk, vcash, grandPool)],
   nmc |-> NmcOrVcash(NmcInfo(nmc), vcash),
   nmcTarget |-> AuxTarget(NmcInfo(nmc).bits, VcashInfo(vcash).target),
   rsk |-> RskInfo(rsk),
   vcash |-> VcashInfo(vcash),
   mergedMiningClean |-> isMergedMiningUpdate]

isEmptyBlock(job) == job.merkleBranch = <<>>

-----------------------------------------------------------------------------
(* The message in Kafka *)

\* Every field is written but nmcNetworkTarget_.
serializeToJson(job, jobId) ==
  [jobId |-> jobId, gbtHash |-> job.gbtHash, height |-> job.height,
   main |-> job.main, subPool |-> job.subPool, merkleBranch |-> job.merkleBranch,
   witnessCommitment |-> job.witness,
   nmc |-> job.nmc, rsk |-> job.rsk, vcash |-> job.vcash,
   mergedMiningClean |-> job.mergedMiningClean]

\* The readers compute nmcNetworkTarget_ again, from the bits and from Vcash.
unserializeFromJson(j) ==
  [gbtHash |-> j.gbtHash, height |-> j.height, merkleBranch |-> j.merkleBranch,
   witness |-> j.witnessCommitment, main |-> j.main, subPool |-> j.subPool,
   nmc |-> j.nmc, nmcTarget |-> AuxTarget(j.nmc.bits, j.vcash.target),
   rsk |-> j.rsk, vcash |-> j.vcash,
   mergedMiningClean |-> j.mergedMiningClean]
=============================================================================
