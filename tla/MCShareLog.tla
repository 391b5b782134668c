----------------------------- MODULE MCShareLog -----------------------------
(* Instances of the share log and of the statistics for TLC. *)
EXTENDS StatsServer

\* A message: a share of user u's worker w.
Msg(form, u, w, status, diff, id) ==
  [form |-> form, whole |-> TRUE,
   share |-> [user |-> u, worker |-> w, ext |-> 0, status |-> status, time |-> 0,
              diff |-> diff, net |-> 8, height |-> 1, job |-> 1, scaling |-> 1,
              edgebits |-> 29, id |-> id]]

\* Two shares of the kinds; the options of a default setup.
Setup(part, coin, kinds) ==
  [part |-> part, coin |-> coin, kinds |-> kinds, maxShares |-> 2, maxEvents |-> 0,
   start |-> 0, maxTime |-> 1, late |-> 0, faults |-> 0, crashes |-> 0,
   dupCheck |-> FALSE, acceptStale |-> FALSE, single |-> 0, algorithm |-> "none",
   rerun |-> FALSE, mysql |-> FALSE, redis |-> FALSE]

Good1 == Msg("current", 1, 1, "accept", 2, 1)
Good2 == Msg("current", 1, 2, "accept", 1, 2)
Good3 == Msg("current", 2, 3, "accept", 1, 2)
Bad2 == Msg("current", 1, 2, "low_difficulty", 8, 3)
Stale1 == Msg("current", 1, 1, "accept_stale", 8, 4)
Old(form) == Msg(form, 1, 1, "accept", 2, 1)
Mined(ext) == [Good1 EXCEPT !.share.ext = ext]
Edge(bits) == [Good1 EXCEPT !.share.edgebits = bits]

\* The log of a day: the kinds of shares, the options and the coins.
Day1(coin, kinds) == Setup("log", coin, kinds)
OneDay ==
  {Day1("eth", {Good1, Bad2}),
   [Day1("eth", {Stale1}) EXCEPT !.acceptStale = TRUE],
   [Day1("beam", {Good1}) EXCEPT !.dupCheck = TRUE, !.maxTime = 0],
   [Day1("eth", {Mined(0), Mined(3)}) EXCEPT !.single = 1, !.maxTime = 0],
   [Day1("grin", {Edge(29), Edge(31)}) EXCEPT !.algorithm = "cuckatoo", !.maxTime = 0],
   [Day1("ckb", {Good1}) EXCEPT !.maxTime = 0]}
  \cup {[Day1(c, {Good1, Old("bytes")}) EXCEPT !.maxTime = 0, !.maxShares = 1] :
          c \in {"bitcoin", "eth", "decred", "sia", "bytom"}}
  \cup {[Day1("bitcoin", {Old("bytes_v1")}) EXCEPT !.maxTime = 0, !.maxShares = 1]}

\* The end of a day, with a share that comes late, a fault or a restart.
TwoDays(shares) ==
  [Day1("eth", {Good1}) EXCEPT !.start = 1, !.maxTime = 2, !.maxShares = shares]
DayEnds ==
  {[TwoDays(2) EXCEPT !.rerun = TRUE, !.late = 1],
   [TwoDays(2) EXCEPT !.faults = 1],
   [TwoDays(2) EXCEPT !.crashes = 1],
   [Day1("eth", {Good1}) EXCEPT !.maxTime = 0, !.faults = 1, !.crashes = 1]}

\* The windows: shares out of order, a restart, the flushes, the names.
Stats(kinds) == [Setup("stats", "eth", kinds) EXCEPT !.start = 3, !.maxTime = 3]
Windows ==
  {[Stats({Good1, Bad2}) EXCEPT !.maxShares = 3, !.maxTime = 5, !.late = 2],
   [Stats({Good1}) EXCEPT !.maxShares = 3, !.maxTime = 7, !.late = 3],
   [Stats({Good1}) EXCEPT !.dupCheck = TRUE, !.maxTime = 6],
   [Stats({Mined(0), Mined(3)}) EXCEPT !.single = 1, !.maxTime = 4],
   [Stats({Mined(0), Mined(3)}) EXCEPT !.single = 1, !.maxShares = 1, !.maxEvents = 2,
                                       !.mysql = TRUE],
   [Stats({Good1}) EXCEPT !.maxTime = 7, !.crashes = 1],
   [Stats({Good1, Good2, Good3}) EXCEPT !.maxShares = 3, !.redis = TRUE],
   [Stats({Good1}) EXCEPT !.maxShares = 1, !.maxEvents = 1, !.faults = 1, !.mysql = TRUE,
                          !.redis = TRUE],
   [Stats({Good1}) EXCEPT !.maxShares = 1, !.maxEvents = 2, !.crashes = 1, !.mysql = TRUE]}

AllConfigs == OneDay \cup DayEnds \cup Windows

\* Only the day that ends, and a late share.
LateShare == {[TwoDays(2) EXCEPT !.late = 1]}
=============================================================================
