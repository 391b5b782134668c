------------------------------- MODULE Shares -------------------------------
(***************************************************************************)
(* The shares that the stratum servers write to the share topic of a coin, *)
(* and how the programs of the statistics read them back: the formats of   *)
(* old and new releases that are in the topic side by side, the shares     *)
(* that are valid, and what a share is worth.                              *)
(*                                                                         *)
(* A message of the topic is [form, whole, share]: the release that wrote  *)
(* it, whether checksum and encoding are in order, and the fields of the   *)
(* share.  A field that the programs only compare with zero (jobid,        *)
(* userid, workerhashid, height) is 0 or a name for its value; net stands  *)
(* for the network difficulty that the bits of the share encode, and id    *)
(* for nonce and extra nonces.                                             *)
(***************************************************************************)
EXTENDS Integers, Sequences, FiniteSets

CONSTANTS
  None,           \* no share
  ScoreUnit,      \* the score of a block
  AssumedHeight   \* the height of the shares of the oldest Bitcoin format

Accepted == {"accept", "accept_stale", "solved", "solved_stale"}
AcceptedStale == {"accept_stale", "solved_stale"}
RejectedStale == {"job_not_found_or_stale", "stale_share"}
Rejects == {"reject_no_reason", "low_difficulty", "duplicate_share", "solved_preliminary"}
Statuses == Accepted \cup RejectedStale \cup Rejects

isAccepted(s) == s \in Accepted
isAcceptedStale(s) == s \in AcceptedStale
isAnyStale(s) == s \in AcceptedStale \cup RejectedStale

-----------------------------------------------------------------------------
(* UnserializeWithVersion() *)

Whole(m) == IF m.whole THEN m.share ELSE None

\* The formats of the current release, which is the only one of Beam, Grin and
\* CKB (Unserializable), and the array of bytes of the release before it.
UnserializeCurrent(m) == IF m.form = "current" THEN Whole(m) ELSE None
UnserializeTwoForms(m) == IF m.form \in {"current", "bytes"} THEN Whole(m) ELSE None

UnserializeEth(m) == UnserializeTwoForms(m)
UnserializeDecred(m) == UnserializeTwoForms(m)
UnserializeSia(m) == UnserializeTwoForms(m)

\* The bytes hold the height, and it is not taken over.
UnserializeBytom(m) ==
  IF m.form = "bytes" /\ m.whole THEN [m.share EXCEPT !.height = 0]
  ELSE UnserializeTwoForms(m)

\* The oldest Bitcoin format has no checksum and no height, and tells accepted
\* shares from the others, no more.
UnserializeBitcoin(m) ==
  IF m.form = "bytes_v1"
  THEN [m.share EXCEPT !.height = AssumedHeight,
                       !.status = IF @ = "accept" THEN @ ELSE "reject_no_reason"]
  ELSE UnserializeTwoForms(m)

UnserializeWithVersion(coin, m) ==
  CASE coin = "bitcoin" -> UnserializeBitcoin(m)
    [] coin = "bytom"   -> UnserializeBytom(m)
    [] coin = "eth"     -> UnserializeEth(m)
    [] coin = "decred"  -> UnserializeDecred(m)
    [] coin = "sia"     -> UnserializeSia(m)
    [] OTHER            -> UnserializeCurrent(m)

-----------------------------------------------------------------------------
(* isValid() *)

isValidBitcoin(s) == 0 \notin {s.job, s.user, s.worker, s.height, s.net, s.diff}
isValidDecred(s) == 0 \notin {s.job, s.user, s.worker, s.height, s.net, s.diff}
isValidBytom(s) == 0 \notin {s.job, s.user, s.worker, s.height, s.net, s.diff}
isValidSia(s) == 0 \notin {s.job, s.user, s.worker, s.height, s.net, s.diff}
isValidEth(s) == 0 \notin {s.user, s.worker, s.height, s.net, s.diff}
isValidBeam(s) == 0 \notin {s.user, s.worker, s.net, s.diff}
isValidCkb(s) == 0 \notin {s.worker, s.net, s.diff}

scaledShareDiff(s) == s.diff * s.scaling
isValidGrin(s) == 0 \notin {s.user, s.worker, s.net, scaledShareDiff(s), s.scaling}

isValid(coin, s) ==
  CASE coin = "bitcoin" -> isValidBitcoin(s)
    [] coin = "decred"  -> isValidDecred(s)
    [] coin = "bytom"   -> isValidBytom(s)
    [] coin = "sia"     -> isValidSia(s)
    [] coin = "eth"     -> isValidEth(s)
    [] coin = "beam"    -> isValidBeam(s)
    [] coin = "ckb"     -> isValidCkb(s)
    [] coin = "grin"    -> isValidGrin(s)

-----------------------------------------------------------------------------
(* score(): the part of a block that the share is, no more than one block *)

PartOfBlock(diff, net) ==
  IF diff = 0 \/ net = 0 THEN 0
  ELSE IF net < diff THEN ScoreUnit
  ELSE (diff * ScoreUnit) \div net

scoreBitcoin(s) == PartOfBlock(s.diff, s.net)
scoreDecred(s) == PartOfBlock(s.diff, s.net)
scoreBytom(s) == PartOfBlock(s.diff, s.net)
scoreSia(s) == PartOfBlock(s.diff, s.net)
scoreBeam(s) == IF isAccepted(s.status) THEN PartOfBlock(s.diff, s.net) ELSE 0
scoreCkb(s) == IF isAccepted(s.status) THEN PartOfBlock(s.diff, s.net) ELSE 0
scoreGrin(s) == IF isAccepted(s.status) THEN PartOfBlock(scaledShareDiff(s), s.net) ELSE 0

\* The block of a stale share can become an uncle block.
getUncleBlockRewardRatio(score) == (score * 7) \div 8
scoreEth(s) ==
  IF ~isAccepted(s.status) THEN 0
  ELSE LET score == PartOfBlock(s.diff, s.net)
       IN IF isAcceptedStale(s.status) THEN getUncleBlockRewardRatio(score) ELSE score

score(coin, s) ==
  CASE coin = "bitcoin" -> scoreBitcoin(s)
    [] coin = "decred"  -> scoreDecred(s)
    [] coin = "bytom"   -> scoreBytom(s)
    [] coin = "sia"     -> scoreSia(s)
    [] coin = "eth"     -> scoreEth(s)
    [] coin = "beam"    -> scoreBeam(s)
    [] coin = "ckb"     -> scoreCkb(s)
    [] coin = "grin"    -> scoreGrin(s)

\* The shares that Grin's programs of one algorithm leave to those of the other.
filterShare(coin, algorithm, s) ==
  coin = "grin" => CASE algorithm = "cuckaroo" -> s.edgebits = 29
                     [] algorithm = "cuckatoo" -> s.edgebits >= 31
                     [] OTHER -> TRUE
=============================================================================
