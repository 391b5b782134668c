----------------------------- MODULE Statistics -----------------------------
(***************************************************************************)
(* What the statistics keep of the shares: the sliding windows of          *)
(* statshttpd, the hours and the day of slparser, and the checker of       *)
(* duplicate shares.  The earnings of an hour, the score times the reward  *)
(* of a block, are kept like the score and left out.                       *)
(***************************************************************************)
EXTENDS Shares, FiniteSetsExt

CONSTANTS
  WindowSize,       \* windowSize_: the slots of a window
  HoursPerDay,      \* 24
  TrackingHeights   \* trackingHeightNumber_

ASSUME StatisticsAssumption ==
  {WindowSize, HoursPerDay, TrackingHeights} \subseteq Nat \ {0}

-----------------------------------------------------------------------------
(* StatsWindow *)

NewWindow == [maxRingIdx |-> -1, elements |-> [k \in 0 .. WindowSize - 1 |-> 0]]

\* insert(): a slot older than the window is dropped, a newer one empties the
\* slots that it moves past.  The mutant does not empty them.
insertUncleared(w, i, v) ==
  IF w.maxRingIdx > i + WindowSize THEN w
  ELSE [maxRingIdx |-> Max({w.maxRingIdx, i}),
        elements |-> [w.elements EXCEPT ![i % WindowSize] = @ + v]]
insert(w, i, v) ==
  IF w.maxRingIdx > i + WindowSize THEN w
  ELSE LET fresh == w.maxRingIdx = -1 \/ i - w.maxRingIdx > WindowSize
           base == IF fresh THEN [NewWindow EXCEPT !.maxRingIdx = i] ELSE w
           passed == {j % WindowSize : j \in base.maxRingIdx + 1 .. i}
           cleared == [k \in 0 .. WindowSize - 1 |->
                         IF k \in passed THEN 0 ELSE base.elements[k]]
       IN [maxRingIdx |-> Max({base.maxRingIdx, i}),
           elements |-> [cleared EXCEPT ![i % WindowSize] = @ + v]]

\* sum(): the last len slots up to begin.
sum(w, begin, len) ==
  LET n == Min({len, WindowSize})
      slots == begin - n + 1 .. Min({begin, w.maxRingIdx})
  IN IF n <= 0 THEN 0 ELSE MapThenSumSet(LAMBDA j : w.elements[j % WindowSize], slots)

-----------------------------------------------------------------------------
(* ShareStatsDay *)

Hours == 0 .. HoursPerDay - 1
Nothing == [accept |-> 0, stale |-> 0, reject |-> [r \in Rejects |-> 0], score |-> 0]

NewStatsDay == [hour |-> [h \in Hours |-> Nothing], day |-> Nothing,
                modifyHoursFlag |-> {}, lastAcceptDiff |-> 1]

Counts(s, acceptStale) ==
  isAccepted(s.status) /\ (acceptStale \/ ~isAcceptedStale(s.status))

\* updateRejectDiff() of the statistics of a worker: the difficulty of a share
\* that is not accepted counts up to four times that of the last accepted one.
updateRejectDiff(lastAcceptDiff, s) ==
  [s EXCEPT !.diff = Min({@, 4 * lastAcceptDiff})]

\* The amounts with the share added, as accepted, stale or rejected.
AddShare(coin, a, s, acceptStale) ==
  IF Counts(s, acceptStale)
  THEN [a EXCEPT !.accept = @ + s.diff, !.score = @ + score(coin, s)]
  ELSE IF isAnyStale(s.status) THEN [a EXCEPT !.stale = @ + s.diff]
  ELSE [a EXCEPT !.reject = [@ EXCEPT ![s.status] = @ + s.diff]]

\* processShare(): the share that a worker's statistics have normalised is the
\* one that those of the user and the pool get after them.
Normalised(stats, s, acceptStale) ==
  IF Counts(s, acceptStale) THEN s ELSE updateRejectDiff(stats.lastAcceptDiff, s)

processShare(coin, stats, h, s, acceptStale) ==
  [hour |-> [stats.hour EXCEPT ![h] = AddShare(coin, @, s, acceptStale)],
   day |-> AddShare(coin, stats.day, s, acceptStale),
   modifyHoursFlag |-> stats.modifyHoursFlag \cup {h},
   lastAcceptDiff |-> IF Counts(s, acceptStale) /\ s.diff > 0 THEN s.diff
                      ELSE stats.lastAcceptDiff]

\* sumRejectShares(), getShareStatsHour(), getShareStatsDay(): what is asked for
\* and written to the tables.
sumRejectShares(reject) == MapThenSumSet(LAMBDA r : reject[r], DOMAIN reject)
StatsOf(a) == [accept |-> a.accept, stale |-> a.stale,
               reject |-> sumRejectShares(a.reject), score |-> a.score]
getShareStatsHour(stats, h) == StatsOf(stats.hour[h])
getShareStatsDay(stats) == StatsOf(stats.day)

-----------------------------------------------------------------------------
(* DuplicateShareCheckerT: the shares of the last heights *)

NewChecker == [h \in {} |-> {}]

Tracked(gshareSetMap, h) ==
  IF h \in DOMAIN gshareSetMap THEN gshareSetMap[h] ELSE {}

\* clearExcessGShareSet()
clearExcess(gshareSetMap) ==
  LET heights == DOMAIN gshareSetMap
      kept == {h \in heights :
                 Cardinality({g \in heights : g > h}) < TrackingHeights}
  IN [h \in kept |-> gshareSetMap[h]]

isDuplicate(gshareSetMap, h, id) == id \in Tracked(gshareSetMap, h)
addGShare(gshareSetMap, h, id) ==
  IF isDuplicate(gshareSetMap, h, id) THEN gshareSetMap
  ELSE clearExcess([g \in DOMAIN gshareSetMap \cup {h} |->
                      Tracked(gshareSetMap, g) \cup IF g = h THEN {id} ELSE {}])
=============================================================================
