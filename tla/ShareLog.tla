------------------------------ MODULE ShareLog ------------------------------
(***************************************************************************)
(* The way of the shares from their topic to the tables of hours and days: *)
(* sharelogger appends them to a file for each day, slparser follows the   *)
(* file of the current day, keeps the sums of every worker, user and of    *)
(* the pool, writes those that changed to the database and goes to the     *)
(* next file when a day is over; an operator may have the file of a past   *)
(* day read again.                                                         *)
(*                                                                         *)
(* A tick of the clock is an hour; the timers of flushing, of seconds, may *)
(* have run out or not whenever they are looked at.  A file is a sequence  *)
(* of shares of two pieces each (length and content): a reader can see the *)
(* first piece of a share only.  What one flush writes to a file is a      *)
(* compressed stream of its own (zstr::ofstream): where one was cut off,   *)
(* what follows cannot be decoded.                                         *)
(***************************************************************************)
EXTENDS Statistics, Functions

CONSTANTS
  Configs,          \* what runs: the coin, the options of the programs, the
                    \* shares that are sent, and how much of them, of time, of
                    \* faults and of crashes there is
  MaxHandlers,      \* the files sharelogger keeps open: 3
  BufferPieces,     \* bufferlength_, in pieces of shares
  NonShareLimit,    \* the reads without a share before a switch is tried: 5
  MaxReadingErrors, \* MAX_READING_ERRORS
  KeepWorkerDays, KeepWorkerHours, KeepUserHours  \* removeExpiredDataFromDB()

VARIABLES
  config,
  now,       \* the hour
  topic,     \* the messages of the share topic, all of them
  logger,    \* sharelogger: up, pos (the messages consumed), committed (the
             \* offset Kafka keeps), buf (shares_), handlers (days), bad (those
             \* whose stream has failed)
  files,     \* of each day, the shares in its file
  shown,     \* of each day, the pieces of the file that a reader can see
  torn,      \* of some days, the pieces before the first stream that was cut off
  parser,    \* slparser: up, pc, obj (shareLogParser_ is set), date, read (the
             \* pieces read), eof and bad (of the stream f_), stats
             \* (workersStats_), dups, nonShare, errors
  db,        \* the rows of the tables
  faults, crashes

topicVars == <<config, now, topic>>
loggerVars == <<logger, files, shown, torn>>
parserVars == <<parser, db>>
logVars == <<topicVars, loggerVars, parserVars, faults, crashes>>

Day(t) == t \div HoursPerDay
getHourIdx(t) == t % HoursPerDay
Days == 0 .. Day(config.maxTime)

\* A map with the entries of another one put over its own, and with one entry
Over(f, g) == [k \in DOMAIN f \cup DOMAIN g |-> IF k \in DOMAIN f THEN f[k] ELSE g[k]]
Put(g, key, value) == [k \in DOMAIN g \cup {key} |-> IF k = key THEN value ELSE g[k]]

Fault == faults < config.faults /\ faults' = faults + 1
Crash == crashes < config.crashes /\ crashes' = crashes + 1

-----------------------------------------------------------------------------
(* The clock, and the stratum servers, whose shares come late or out of order *)

NextHour ==
  /\ now < config.maxTime
  /\ now' = now + 1
  /\ UNCHANGED <<config, topic, loggerVars, parserVars, faults, crashes>>

SendShare ==
  /\ Len(topic) < config.maxShares
  /\ \E m \in config.kinds, late \in 0 .. config.late :
       topic' = Append(topic, [m EXCEPT !.share = [@ EXCEPT !.time = now - late]])
  /\ UNCHANGED <<config, now, loggerVars, parserVars, faults, crashes>>

-----------------------------------------------------------------------------
(* sharelogger *)

\* A consumer of a group that has committed nothing starts with the first message.
StartLogger ==
  /\ ~logger.up
  /\ logger' = [up |-> TRUE, pos |-> logger.committed, committed |-> logger.committed,
                buf |-> <<>>, handlers |-> {}, bad |-> {}]
  /\ UNCHANGED <<topicVars, files, shown, torn, parserVars, faults, crashes>>

\* consumeShareLog(), addShare(): what cannot be read or is not valid is skipped.
Readable(m) ==
  LET s == UnserializeWithVersion(config.coin, m)
  IN s # None /\ isValid(config.coin, s)

\* The thread is not in the middle of a flush; of a file with a stream that was cut
\* off, nothing more can be read anyway.
Flushed == \A d \in Days \ DOMAIN torn : shown[d] = 2 * Len(files[d])

consumeShareLog ==
  /\ logger.up /\ Flushed /\ logger.pos < Len(topic)
  /\ LET m == topic[logger.pos + 1]
     IN logger' = [logger EXCEPT
          !.pos = @ + 1,
          !.buf = IF Readable(m) THEN Append(@, UnserializeWithVersion(config.coin, m))
                  ELSE @]
  /\ UNCHANGED <<topicVars, files, shown, torn, parserVars, faults, crashes>>

\* The Kafka library commits, now and then, the offset of what it has delivered.
CommitOffset ==
  /\ logger.up /\ logger.committed < logger.pos
  /\ logger' = [logger EXCEPT !.committed = logger.pos]
  /\ UNCHANGED <<topicVars, files, shown, torn, parserVars, faults, crashes>>

\* The files with the shares appended, each to that of its day.
Written(shares) ==
  [d \in Days |-> files[d] \o SelectSeq(shares, LAMBDA s : Day(s.time) = d)]

\* tryCloseOldHanders()
tryCloseOldHandlers(handlers) ==
  {d \in handlers : Cardinality({e \in handlers : e > d}) < MaxHandlers}

\* What a reader sees of a file that is written: all of it or, for a moment, all
\* but the last piece.
Shown(d, cut) == IF files'[d] = files[d] THEN shown[d] ELSE 2 * Len(files'[d]) - cut

DaysOf(shares) == {Day(s.time) : s \in Range(shares)}
\* The shares before the first one whose file has failed
BeforeBad ==
  SubSeq(logger.buf, 1,
         Min({i \in DOMAIN logger.buf : Day(logger.buf[i].time) \in logger.bad}
               \cup {Len(logger.buf) + 1}) - 1)

flushToDisk ==
  /\ logger.up /\ Flushed /\ logger.buf # <<>> /\ BeforeBad = logger.buf
  /\ files' = Written(logger.buf)
  /\ \E cut \in 0 .. 1 : shown' = [d \in Days |-> Shown(d, cut)]
  /\ LET open == tryCloseOldHandlers(logger.handlers \cup DaysOf(logger.buf))
     IN logger' = [logger EXCEPT !.buf = <<>>, !.handlers = open, !.bad = @ \cap open]
  /\ UNCHANGED <<topicVars, torn, parserVars, faults, crashes>>

ShowPiece ==
  /\ logger.up /\ ~Flushed
  /\ shown' = [d \in Days |-> IF d \in DOMAIN torn THEN shown[d] ELSE 2 * Len(files[d])]
  /\ UNCHANGED <<topicVars, logger, files, torn, parserVars, faults, crashes>>

\* A file cannot be opened: the shares before it are written, all are kept.
flushToDiskFails ==
  /\ logger.up /\ Flushed
  /\ Fault
  /\ \E i \in 1 .. Len(BeforeBad) :
       /\ Day(logger.buf[i].time) \notin logger.handlers
       /\ \A j \in 1 .. i - 1 : Day(logger.buf[j].time) # Day(logger.buf[i].time)
       /\ files' = Written(SubSeq(logger.buf, 1, i - 1))
  /\ shown' = [d \in Days |-> Shown(d, 0)]
  /\ UNCHANGED <<topicVars, logger, torn, parserVars, crashes>>

\* A stream throws, and then at every use of it: when share i is written, with all
\* shares kept, or when the file of share i is flushed, after shares_.clear().  Of the
\* shares of that file, the first piece may have come to the disk; those of the other
\* files that were written come there with the next flush at the latest.
flushToDiskThrows ==
  /\ logger.up /\ Flushed
  /\ Fault
  /\ \E i \in DOMAIN logger.buf, cleared \in BOOLEAN, n \in 0 .. 1 :
       LET d == Day(logger.buf[i].time)
           written == SubSeq(logger.buf, 1, IF cleared THEN Len(logger.buf) ELSE i - 1)
           others == Written(SelectSeq(written, LAMBDA s : Day(s.time) # d))
       IN /\ Len(written) <= Len(BeforeBad) /\ (d \in logger.bad => n = 0)
          /\ files' = IF n = 0 THEN others
                      ELSE [others EXCEPT ![d] = Append(@, logger.buf[i])]
          /\ shown' = [e \in Days |-> Shown(e, IF e = d THEN n ELSE 0)]
          /\ torn' = IF n = 0 THEN torn ELSE Over(torn, [e \in {d} |-> shown'[e]])
          /\ logger' = [logger EXCEPT !.buf = IF cleared THEN <<>> ELSE @,
                                      !.handlers = @ \cup DaysOf(written) \cup {d},
                                      !.bad = @ \cup {d}]
  /\ UNCHANGED <<topicVars, parserVars, crashes>>

\* The signal handler stops the loop, the left shares are written, up to one whose
\* file has failed, and the consumer is closed, which commits its offset.
StopLogger ==
  /\ logger.up /\ Flushed
  /\ Crash
  /\ files' = Written(BeforeBad)
  /\ shown' = [d \in Days |-> Shown(d, 0)]
  /\ logger' = [logger EXCEPT !.up = FALSE, !.buf = <<>>, !.committed = logger.pos]
  /\ UNCHANGED <<topicVars, torn, parserVars, faults>>

\* A crash; in the middle of a flush it leaves streams that are cut off.
CrashLogger ==
  /\ logger.up
  /\ Crash
  /\ logger' = [logger EXCEPT !.up = FALSE, !.buf = <<>>]
  /\ torn' = Over(torn, [d \in {e \in Days : shown[e] < 2 * Len(files[e])} |-> shown[d]])
  /\ UNCHANGED <<topicVars, files, shown, parserVars, faults>>

-----------------------------------------------------------------------------
(* slparser: the sums of a day *)

PoolKey == <<0, 0>>
OnlyPool == [key \in {PoolKey} |-> NewStatsDay]
StatsAt(stats, key) == IF key \in DOMAIN stats THEN stats[key] ELSE NewStatsDay

\* parseShareLog(): in single user mode only the shares of that user count, for
\* the user that they were mined for.
ofSingleUser(s) ==
  IF config.single = 0 THEN s
  ELSE IF s.user # config.single \/ s.ext = 0 THEN None
  ELSE [s EXCEPT !.user = s.ext]

\* parseShare(): the share in the statistics of its worker, of its user and of the
\* pool, which all get what the worker's statistics have made of it.
Checked(dups, s) ==
  IF config.dupCheck /\ isDuplicate(dups, s.height, s.id)
  THEN [s EXCEPT !.status = "duplicate_share"] ELSE s

InStats(stats, s) ==
  LET wkey == <<s.user, s.worker>>
      ukey == <<s.user, 0>>
      n == Normalised(StatsAt(stats, wkey), s, config.acceptStale)
      add(key) == processShare(config.coin, StatsAt(stats, key), getHourIdx(n.time), n,
                               config.acceptStale)
  IN Over([key \in {wkey, ukey, PoolKey} |-> add(key)], stats)

parseShare(mem, r) ==
  LET s == ofSingleUser(r)
  IN IF s = None \/ (s # None /\ ~isValid(config.coin, s)) THEN mem
     ELSE LET c == Checked(mem.dups, s)
          IN [dups |-> IF config.dupCheck THEN addGShare(mem.dups, s.height, s.id)
                       ELSE mem.dups,
              stats |-> IF filterShare(config.coin, config.algorithm, c)
                        THEN InStats(mem.stats, c) ELSE mem.stats]

\* The shares of the file of day d that are complete in its first n pieces.
Complete(d, n) == SubSeq(files[d], 1, n \div 2)
parseAll(mem, shares) ==
  LET after[n \in 0 .. Len(shares)] ==
        IF n = 0 THEN mem ELSE parseShare(after[n - 1], shares[n])
  IN after[Len(shares)]

-----------------------------------------------------------------------------
(* flushToDB() *)

Level(key) == IF key = PoolKey THEN "pool" ELSE IF key[2] = 0 THEN "user" ELSE "worker"
Tables == {"pool", "user", "worker"} \X {"hour", "day"}
Row(key, kind, at) == [key |-> key, kind |-> kind, at |-> at]
TableOf(row) == <<Level(row.key), row.kind>>

\* generateHoursData(), generateDailyData(): the hours that have changed, and the
\* day, of the statistics that have changed.
generateHoursData(stats, date) ==
  UNION {{Row(key, "hour", date * HoursPerDay + h) : h \in stats[key].modifyHoursFlag} :
           key \in DOMAIN stats}
generateDailyData(stats, date) ==
  {Row(key, "day", date) : key \in {k \in DOMAIN stats : stats[k].modifyHoursFlag # {}}}

ValueOf(stats, row) ==
  IF row.kind = "hour" THEN getShareStatsHour(stats[row.key], getHourIdx(row.at))
  ELSE getShareStatsDay(stats[row.key])

\* flushHourOrDailyData() of each table; those in failed are not written.
Merged(rows, stats, date, failed) ==
  LET new == {r \in generateHoursData(stats, date) \cup generateDailyData(stats, date) :
                TableOf(r) \notin failed}
  IN Over([r \in new |-> ValueOf(stats, r)], rows)

\* removeExpiredDataFromDB()
Expired(row) ==
  \/ TableOf(row) = <<"worker", "day">> /\ row.at < Day(now) - KeepWorkerDays
  \/ TableOf(row) = <<"worker", "hour">> /\ row.at < now - KeepWorkerHours
  \/ TableOf(row) = <<"user", "hour">> /\ row.at < now - KeepUserHours
removeExpiredData(rows) == [r \in {x \in DOMAIN rows : ~Expired(x)} |-> rows[r]]

\* The flags are reset before the tables are written, whatever becomes of that.
FlagsReset(stats) == [key \in DOMAIN stats |-> [stats[key] EXCEPT !.modifyHoursFlag = {}]]

\* The failures of a flush: none, the connection, or the statements of a table.
FlushFailures == {{}} \cup {{t} : t \in Tables}
flushToDBWith(stats, failed, cleaned) ==
  LET rows == Merged(db, stats, parser.date, failed)
  IN db' = IF cleaned THEN removeExpiredData(rows) ELSE rows

-----------------------------------------------------------------------------
(* runThreadShareLogParser() *)

NewParser(date) ==
  [up |-> TRUE, pc |-> "read", obj |-> TRUE, date |-> date, read |-> 0,
   eof |-> TRUE, bad |-> FALSE, stats |-> OnlyPool, dups |-> NewChecker, nonShare |-> 0, errors |-> 0]

\* run(): a server that cannot reach the database ends, and is started again.
StartParser ==
  /\ ~parser.up
  /\ parser' = NewParser(Day(now))
  /\ UNCHANGED <<topicVars, loggerVars, db, faults, crashes>>

Reading == parser.up /\ parser.obj /\ parser.pc = "read"

\* The pieces of the file of day d that can be read: those before a stream that was
\* cut off.  Reading on where a new stream follows that one throws.
End(d) == IF d \in DOMAIN torn THEN torn[d] ELSE shown[d]
Unreadable(d, n) == n = End(d) /\ shown[d] > n
CanRead == Reading /\ ~parser.bad /\ ~Unreadable(parser.date, parser.read)

asked == BufferPieces - (parser.read % 2)
readTo == Min({End(parser.date), parser.read + asked})
\* The shares that a read completes.  The mutant forgets the piece left over.
NewSharesOfBuffer == SubSeq(files[parser.date], (parser.read + 1) \div 2 + 1, readTo \div 2)
NewShares == SubSeq(files[parser.date], parser.read \div 2 + 1, readTo \div 2)

\* processGrowingShareLog(): what the buffer takes, after the piece of a share
\* that was left over; the shares that are complete are parsed.  The stream is at
\* its end when it had less than was asked for.
processGrowingShareLog ==
  LET mem == parseAll([stats |-> parser.stats, dups |-> parser.dups], NewShares)
  IN [parser EXCEPT !.read = readTo, !.eof = readTo < parser.read + asked,
                    !.stats = mem.stats, !.dups = mem.dups,
                    !.errors = IF readTo = parser.read THEN @ ELSE 0]

\* CKB's server may write to the database before it goes on.  The mutant does so
\* for every coin.
ReadSharesAndFlush ==
  /\ CanRead
  /\ NewShares # <<>>
  /\ parser' = [processGrowingShareLog EXCEPT !.nonShare = 0, !.pc = "flushCkb"]
  /\ UNCHANGED <<topicVars, loggerVars, db, faults, crashes>>
ReadShares ==
  /\ CanRead
  /\ NewShares # <<>>
  /\ parser' = [processGrowingShareLog EXCEPT
                   !.nonShare = 0, !.pc = IF config.coin = "ckb" THEN "flushCkb" ELSE "read"]
  /\ UNCHANGED <<topicVars, loggerVars, db, faults, crashes>>

OneMore(n, limit) == IF n > limit THEN n ELSE n + 1
ReadNothing ==
  /\ CanRead
  /\ NewShares = <<>>
  /\ parser' = [processGrowingShareLog EXCEPT !.nonShare = OneMore(@, NonShareLimit),
                                              !.pc = "flush"]
  /\ UNCHANGED <<topicVars, loggerVars, db, faults, crashes>>

\* A read throws; the stream has failed for good, and throws at every read that follows.
ReadError ==
  /\ Reading
  /\ IF CanRead THEN Fault ELSE UNCHANGED faults
  /\ parser' = [parser EXCEPT !.errors = @ + 1, !.nonShare = OneMore(@, NonShareLimit),
                              !.eof = TRUE, !.bad = TRUE,
                              !.pc = "flush", !.up = parser.errors < MaxReadingErrors]
  /\ UNCHANGED <<topicVars, loggerVars, db, crashes>>

AfterFlush == IF parser.pc = "flushCkb" THEN "read" ELSE "switch"
Flushing == parser.up /\ parser.pc \in {"flush", "flushCkb"}

\* flushToDB(); a table fails, or the expired rows are removed, now and then.
flushToDB ==
  /\ Flushing
  /\ \E failed \in FlushFailures, cleaned \in {FALSE, now >= KeepWorkerHours} :
       /\ flushToDBWith(parser.stats, failed, cleaned)
       /\ IF failed = {} THEN UNCHANGED faults ELSE Fault
  /\ parser' = [parser EXCEPT !.pc = AfterFlush, !.stats = FlagsReset(@)]
  /\ UNCHANGED <<topicVars, loggerVars, crashes>>

\* The interval has not passed, or the database does not answer.  The mutant has
\* reset the flags before it looks.
flushToDBLaterReset ==
  /\ Flushing
  /\ parser' = [parser EXCEPT !.pc = AfterFlush, !.stats = FlagsReset(@)]
  /\ UNCHANGED <<topicVars, loggerVars, db, faults, crashes>>
flushToDBLater ==
  /\ Flushing
  /\ parser' = [parser EXCEPT !.pc = AfterFlush]
  /\ UNCHANGED <<topicVars, loggerVars, db, faults, crashes>>

\* isReachEOF(): as the last read found it.
isReachEOF == parser.eof
SwitchDue ==
  /\ parser.nonShare > NonShareLimit
  /\ Day(now) # parser.date
  /\ isReachEOF
  /\ shown[Day(now)] > 0

\* trySwitchBinFile(), initShareLogParser(): the sums are written, unless the database
\* does not answer then, and a new parser has the file of the current day; where
\* the database does not answer the new parser, there is none.
trySwitchBinFile ==
  /\ parser.up /\ parser.pc = "switch" /\ SwitchDue
  /\ LET next == [NewParser(Day(now)) EXCEPT !.dups = parser.dups,
                                             !.nonShare = parser.nonShare]
         none == [parser EXCEPT !.date = Day(now), !.obj = FALSE, !.pc = "read"]
     IN \/ \E failed \in FlushFailures, cleaned \in {FALSE, now >= KeepWorkerHours} :
             /\ flushToDBWith(parser.stats, failed, cleaned)
             /\ \/ /\ IF failed = {} THEN UNCHANGED faults ELSE Fault
                   /\ parser' = next
                \/ failed = {} /\ Fault /\ parser' = none
        \/ Fault /\ parser' \in {next, none} /\ UNCHANGED db
  /\ UNCHANGED <<topicVars, loggerVars, crashes>>

NoSwitch ==
  /\ parser.up /\ parser.pc = "switch" /\ ~SwitchDue
  /\ parser' = [parser EXCEPT !.pc = "read"]
  /\ UNCHANGED <<topicVars, loggerVars, db, faults, crashes>>

\* After a switch that failed: the loop makes a parser and goes on with the null
\* pointer that it had read before, and a request for the status follows it as
\* well.  The server ends, and is started again.
RetryAfterFailedSwitch ==
  /\ parser.up /\ ~parser.obj
  /\ parser' = [parser EXCEPT !.up = FALSE]
  /\ UNCHANGED <<topicVars, loggerVars, db, faults, crashes>>

\* A signal or a crash: nothing is written.
StopParser ==
  /\ parser.up
  /\ Crash
  /\ parser' = [parser EXCEPT !.up = FALSE]
  /\ UNCHANGED <<topicVars, loggerVars, db, faults>>

\* slparser -d: the file of a day that the server has left, read to its end; where
\* that is not possible, nothing is written.
RerunDay ==
  /\ config.rerun
  /\ \E d \in Days \ {parser.date} :
       /\ d < Day(now) /\ files[d] # <<>> /\ ~Unreadable(d, End(d))
       /\ LET mem == parseAll([stats |-> OnlyPool, dups |-> NewChecker],
                              Complete(d, End(d)))
          IN db' = Merged(db, mem.stats, d, {})
  /\ UNCHANGED <<topicVars, loggerVars, parser, faults, crashes>>

-----------------------------------------------------------------------------
InitLog ==
  /\ config \in Configs
  /\ now = config.start
  /\ topic = <<>>
  /\ logger = [up |-> FALSE, pos |-> 0, committed |-> 0, buf |-> <<>>, handlers |-> {},
               bad |-> {}]
  /\ files = [d \in Days |-> <<>>]
  /\ shown = [d \in Days |-> 0]
  /\ torn = [d \in {} |-> 0]
  /\ parser = [NewParser(0) EXCEPT !.up = FALSE]
  /\ db = [r \in {} |-> Nothing]
  /\ faults = 0 /\ crashes = 0

LoggerNext ==
  \/ StartLogger \/ consumeShareLog \/ CommitOffset \/ flushToDisk \/ flushToDiskFails
  \/ flushToDiskThrows \/ ShowPiece \/ StopLogger \/ CrashLogger
ParserNext ==
  \/ StartParser \/ ReadShares \/ ReadNothing \/ ReadError \/ flushToDB \/ flushToDBLater
  \/ trySwitchBinFile \/ NoSwitch \/ RetryAfterFailedSwitch \/ StopParser \/ RerunDay

\* The programs are restarted, and their threads run: sharelogger whenever it has
\* something to do, slparser always.  An interval that is looked at again and
\* again has passed at some time.
LoggerSteps == StartLogger \/ consumeShareLog \/ flushToDisk \/ ShowPiece
Dirty == \E key \in DOMAIN parser.stats : parser.stats[key].modifyHoursFlag # {}
LogFairness ==
  /\ WF_logVars(LoggerSteps)
  /\ []<><<parser' # parser>>_logVars
  /\ []<>(Flushing /\ Dirty) => []<>~Dirty

-----------------------------------------------------------------------------
(* What the tables should hold of a sequence of shares: a definition apart   *)
(* from the running sums.                                                    *)

\* The shares that count for the key, of the sequence as the files hold it.
Attributed(shares, key) ==
  {i \in DOMAIN shares :
     LET s == ofSingleUser(shares[i])
     IN /\ s # None
        /\ filterShare(config.coin, config.algorithm, s)
        /\ key \in {PoolKey, <<s.user, 0>>, <<s.user, s.worker>>}}

SameShare(a, b) == a.height = b.height /\ a.id = b.id
StatusOf(shares, i) ==
  IF config.dupCheck /\ \E j \in 1 .. i - 1 : SameShare(shares[j], shares[i])
  THEN "duplicate_share" ELSE shares[i].status
Good(shares, i) == Counts([status |-> StatusOf(shares, i)], config.acceptStale)

\* The difficulty that a share that is not accepted counts with.
CappedDiff(shares, i) ==
  LET before == {j \in 1 .. i - 1 :
                   /\ Good(shares, j)
                   /\ <<shares[j].user, shares[j].worker, shares[j].ext>>
                        = <<shares[i].user, shares[i].worker, shares[i].ext>>}
      last == IF before = {} THEN 1 ELSE shares[Max(before)].diff
  IN Min({shares[i].diff, 4 * last})

Total(shares, key, hours) ==
  LET at == {i \in Attributed(shares, key) : getHourIdx(shares[i].time) \in hours}
      good == {i \in at : Good(shares, i)}
      stale == {i \in at \ good : isAnyStale(StatusOf(shares, i))}
      bad == at \ (good \cup stale)
  IN [accept |-> MapThenSumSet(LAMBDA i : shares[i].diff, good),
      stale |-> MapThenSumSet(LAMBDA i : CappedDiff(shares, i), stale),
      reject |-> MapThenSumSet(LAMBDA i : CappedDiff(shares, i), bad),
      score |-> MapThenSumSet(LAMBDA i : score(config.coin, shares[i]), good)]

ShareKeys == {PoolKey} \cup
  UNION {LET s == ofSingleUser(m.share)
         IN IF s = None THEN {} ELSE {<<s.user, 0>>, <<s.user, s.worker>>} :
           m \in config.kinds}
EmptyStats == StatsOf(Nothing)

\* The sums that slparser has in memory, of every worker, user and of the pool,
\* are those of the complete shares that it has read of the day's file, each of
\* them once: through pieces of shares at the end of a read, errors, restarts and
\* switches of the file (processGrowingShareLog(), parseShare()).
MemoryIsFile ==
  parser.up /\ parser.obj =>
    LET shares == Complete(parser.date, parser.read)
    IN \A key \in ShareKeys :
         /\ getShareStatsDay(StatsAt(parser.stats, key)) = Total(shares, key, Hours)
         /\ \A h \in Hours :
              getShareStatsHour(StatsAt(parser.stats, key), h) = Total(shares, key, {h})

\* A row never loses accepted shares again, although every restart of slparser
\* begins with empty sums: it reads the file to its end before it writes, be this
\* the end of what can be read of it.  Two cases are left out, in which the code does
\* write the sums of a part over those of the whole: CKB's server, which writes
\* between two reads, and a read that throws before the end of the file, after which
\* runThreadShareLogParser() flushes what it has (processGrowingShareLog() < 0).
RowsNeverShrink ==
  [][config.coin # "ckb" /\ (parser.bad => parser.read = End(parser.date)) =>
       \A r \in DOMAIN db \cap DOMAIN db' : db'[r].accept >= db[r].accept]_logVars

\* The messages that are in the topic, as the log should have them.
Loggable == LET shares == [i \in DOMAIN topic |->
                             UnserializeWithVersion(config.coin, topic[i])]
            IN SelectSeq(shares, LAMBDA s : s # None /\ isValid(config.coin, s))

\* Where nothing fails and the day does not end, every valid share comes to the
\* row of its day.
Calm == config.faults = 0 /\ config.crashes = 0 /\ Days = {0}
EveryShareAccounted ==
  Calm /\ config.part = "log" =>
    <>[](\A key \in {k \in ShareKeys : Attributed(Loggable, k) # {}} :
           /\ Row(key, "day", 0) \in DOMAIN db
           /\ db[Row(key, "day", 0)] = Total(Loggable, key, Hours))

\* The comment of flushToDB(): "we will exec processUnchangedShareLog() after the
\* day has been past, no data will lost by than".  Once slparser has followed the
\* file of a day and left it for good, the rows of the day come to be those of
\* the file.
PastDayAccounted ==
  \A d \in 0 .. 1 :
    d \in Days /\ <>(parser.up /\ parser.date = d) /\ <>[](parser.up /\ parser.date > d) =>
      <>[](Attributed(files[d], PoolKey) # {} =>
             /\ Row(PoolKey, "day", d) \in DOMAIN db
             /\ db[Row(PoolKey, "day", d)] = Total(files[d], PoolKey, Hours))
=============================================================================
