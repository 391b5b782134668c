--------------------------- MODULE JobMakerProofs ---------------------------
(***************************************************************************)
(* That the job maker sends the best work it has heard of, never goes back *)
(* to a lower height while a higher template lives, and sends jobs that    *)
(* are read back as they were written; proved for every coin of JobMaker   *)
(* and for any heights, ages and number of messages.                       *)
(*                                                                         *)
(* The invariant says of Bitcoin's handler that its last job is of the     *)
(* height it remembers as the best, that it is empty when it is remembered *)
(* as empty, and that no template it has is better; of what was heard,     *)
(* that of every height whose newest template with transactions still      *)
(* lives the handler has one as new.  The best work is the one with the    *)
(* greatest key of the ordered map, whose upper part is height and         *)
(* emptiness, so that a greater key is never of a lower height.            *)
(***************************************************************************)
EXTENDS JobMaker, WellFoundedInduction, TLAPS

\* The time that each prover has for a step that names none
USE SMTT(40), Z3T(60), ZenonT(60)

-----------------------------------------------------------------------------
(* The best work *)

\* The part of a key above the time or the hash
Rank(w) == w.height * 2 + w.rev
Width == 2 * (MaxAge + 1)
Low(w) == IF config.coin \in {"bitcoin", "decred"} THEN MaxAge - w.age ELSE HashSuffix[w.src]

\* Keys are compared by their upper parts first.
LEMMA UpperFirst ==
  ASSUME NEW a \in Int, NEW b \in Int, NEW m \in Nat, NEW x \in 0 .. m - 1,
         NEW y \in 0 .. m - 1, a * m + x <= b * m + y
  PROVE  a <= b
<1>1. SUFFICES ASSUME a >= b + 1 PROVE FALSE
  OBVIOUS
<1>2. (a - b - 1) * m >= 0
  BY <1>1
<1>3. (a - b - 1) * m = a * m - b * m - m
  OBVIOUS
<1> QED
  BY <1>2, <1>3

\* A key is its upper part, above what is left for the age or the hash.
LEMMA KeyParts ==
  ASSUME NEW w \in Work
  PROVE  /\ Rank(w) \in Nat /\ Low(w) \in 0 .. Width - 1 /\ Width \in Nat
         /\ Key(w) = Rank(w) * Width + Low(w) /\ Key(w) \in Nat
         /\ Rank(w) <= 2 * MaxHeight + 1
<1>1. /\ w.src \in Nodes /\ w.height \in 1 .. MaxHeight /\ w.rev \in 0 .. 1
      /\ w.age \in 0 .. MaxAge
  BY ZenonT(60) DEF Work, Heights
<1>2. MaxAge \in Nat /\ MaxHeight \in Nat /\ HashSuffix \in [Nodes -> 0 .. MaxAge]
  BY TimesAssumption, ZenonT(60)
<1>3. Rank(w) \in Nat /\ Width \in Nat /\ Rank(w) <= 2 * MaxHeight + 1
  BY <1>1, <1>2 DEF Rank, Width
<1>4. Low(w) \in 0 .. MaxAge
  BY <1>1, <1>2 DEF Low
<1>5. Low(w) \in 0 .. Width - 1
  BY <1>2, <1>4 DEF Width
<1>6. Key(w) = Rank(w) * Width + Low(w)
  <2>1. (w.height * 2 + w.rev) * 2 * (MaxAge + 1) = (w.height * 2 + w.rev) * (2 * (MaxAge + 1))
    BY <1>1, <1>2
  <2> QED
    BY <2>1, ZenonT(60) DEF Key, Rank, Width, Low
<1>7. Rank(w) * Width \in Nat
  BY <1>3
<1>8. Key(w) \in Nat
  BY <1>3, <1>4, <1>6, <1>7, <1>2
<1> QED
  BY <1>2, <1>3, <1>5, <1>6, <1>8, ZenonT(60)

\* A work with a key that is not below has as great a height, and as much in it
\* at the same height.
LEMMA KeyOrder ==
  ASSUME NEW v \in Work, NEW w \in Work, Key(v) <= Key(w)
  PROVE  v.height <= w.height /\ (v.height = w.height => v.rev <= w.rev)
<1>1. Rank(v) <= Rank(w)
  <2>1. Rank(v) \in Int /\ Rank(w) \in Int /\ Width \in Nat
        /\ Low(v) \in 0 .. Width - 1 /\ Low(w) \in 0 .. Width - 1
        /\ Rank(v) * Width + Low(v) <= Rank(w) * Width + Low(w)
    BY KeyParts
  <2> QED
    BY <2>1, UpperFirst, ZenonT(60)
<1>2. /\ v.height \in Int /\ w.height \in Int
      /\ v.rev \in 0 .. 1 /\ w.rev \in 0 .. 1
  BY TimesAssumption DEF Work, Heights
<1> QED
  BY <1>1, <1>2 DEF Rank

\* Bitcoin's works with the same key are of the same height and age.
LEMMA SameKey ==
  ASSUME NEW v \in Work, NEW w \in Work, Key(v) = Key(w), config.coin = "bitcoin"
  PROVE  v.height = w.height /\ v.rev = w.rev /\ v.age = w.age
<1>1. /\ v.height \in Int /\ w.height \in Int
      /\ v.rev \in 0 .. 1 /\ w.rev \in 0 .. 1 /\ v.age \in Int /\ w.age \in Int
      /\ Key(v) \in Nat
  BY TimesAssumption, KeyParts DEF Work, Heights
<1>2. v.height = w.height /\ v.rev = w.rev
  <2>1. v.height <= w.height /\ (v.height = w.height => v.rev <= w.rev)
    BY <1>1, KeyOrder
  <2>2. w.height <= v.height /\ (w.height = v.height => w.rev <= v.rev)
    BY <1>1, KeyOrder
  <2> QED
    BY <1>1, <2>1, <2>2
<1>3. Rank(v) = Rank(w)
  BY <1>2, ZenonT(60) DEF Rank
<1>4. Low(v) = Low(w)
  BY <1>3, KeyParts
<1> QED
  BY <1>1, <1>2, <1>4, TimesAssumption DEF Low

\* The best of some works: there is a greatest key, as keys are bounded.
LEMMA BestOf ==
  ASSUME NEW S, S \subseteq Work, S # {}
  PROVE  /\ Best(S) \in S
         /\ \A v \in S : Key(v) <= Key(Best(S))
         /\ \A v \in S : /\ v.height <= Best(S).height
                         /\ v.height = Best(S).height => v.rev <= Best(S).rev
<1> DEFINE bound == (2 * MaxHeight + 1) * Width + Width
           T == {bound - Key(v) : v \in S}
<1>1. ASSUME NEW v \in S
      PROVE  bound - Key(v) \in Nat /\ Key(v) \in Nat
  <2>1. /\ Rank(v) \in Nat /\ Low(v) \in 0 .. Width - 1 /\ Width \in Nat
        /\ Key(v) = Rank(v) * Width + Low(v) /\ Key(v) \in Nat
        /\ Rank(v) <= 2 * MaxHeight + 1 /\ MaxHeight \in Nat
    BY KeyParts, TimesAssumption, ZenonT(60)
  <2>2. (2 * MaxHeight + 1 - Rank(v)) * Width >= 0
    BY <2>1
  <2>3. (2 * MaxHeight + 1 - Rank(v)) * Width = (2 * MaxHeight + 1) * Width - Rank(v) * Width
    BY <2>1
  <2>4. (2 * MaxHeight + 1) * Width \in Int /\ Rank(v) * Width \in Int
    BY <2>1
  <2> QED
    BY <2>1, <2>2, <2>3, <2>4
<1> HIDE DEF bound
<1>2. T \subseteq Nat /\ T # {}
  BY <1>1, ZenonT(60)
<1>3. PICK t \in T : \A u \in T : ~(<<u, t>> \in OpToRel(<, Nat))
  BY <1>2, NatLessThanWellFounded, WFMin, ZenonT(60)
<1>4. PICK w \in S : t = bound - Key(w)
  BY ZenonT(60)
<1>5. ASSUME NEW v \in S
      PROVE  Key(v) <= Key(w)
  <2>1. bound - Key(v) \in T /\ bound - Key(v) \in Nat /\ bound - Key(w) \in Nat
        /\ Key(v) \in Nat /\ Key(w) \in Nat
    BY <1>1, ZenonT(60)
  <2>2. bound - Key(v) < t => <<bound - Key(v), t>> \in OpToRel(<, Nat)
    BY <1>4, <2>1, ZenonT(60) DEF OpToRel
  <2>3. ~(bound - Key(v) < t)
    BY <1>3, <2>1, <2>2, ZenonT(60)
  <2>4. bound \in Int
    BY <2>1, TimesAssumption DEF bound, Width
  <2> QED
    BY <1>4, <2>1, <2>3, <2>4
<1>6. Best(S) \in S /\ \A v \in S : Key(v) <= Key(Best(S))
  BY <1>5, ZenonT(60) DEF Best
<1> QED
  BY <1>6, KeyOrder, ZenonT(60)

-----------------------------------------------------------------------------
(* The types *)

AuxFields == {"hash", "height", "bits", "rpc", "notify", "age"}
IsAux(m) == AuxFields \subseteq DOMAIN m /\ m.bits \in Nat
AuxOrNone(m) == m = None \/ IsAux(m)

HandlerFields == {"works", "latest", "best", "lastEmpty", "lastSend", "last", "byId", "nmc",
                  "cur", "prev", "update", "gen"}
HandlerTrue(h) ==
  /\ HandlerFields \subseteq DOMAIN h
  /\ h.works \subseteq Work
  /\ h.best \in Nat
  /\ AuxOrNone(h.nmc) /\ AuxOrNone(h.cur) /\ AuxOrNone(h.prev)

NodesTrue ==
  /\ config \in Configs
  /\ tip \in [Nodes -> Heights]
  /\ rev \in [Nodes -> 0 .. 1]
TopicsTrue ==
  /\ stamped \in [Threads -> Work \cup {None}]
  /\ raw \in Seq(Work) /\ rawLast \in Work \cup {None}
  /\ \E S : aux \in Seq(S)
  /\ \A i \in DOMAIN aux : IsAux(aux[i])
  /\ AuxOrNone(auxLast)
Types == NodesTrue /\ TopicsTrue /\ HandlerTrue(hd) /\ heard \in [Heights -> 0 .. MaxAge]

\* The coins, and what a configuration is.
LEMMA ConfigFacts ==
  ASSUME NEW c \in Configs
  PROVE  /\ c.coin \in {"bitcoin", "eth", "decred", "ckb", "bytom", "sia"}
         /\ c.maxHeight \in [Nodes -> Heights] /\ c.maxRev \in 0 .. 1
         /\ c.nodes \subseteq Nodes
BY ConfigsAssumption, ZenonT(60)

\* A message that a maker sends is about the height that its node works on, whatever
\* fields the answer lacks.
LEMMA RawMsgTypes ==
  ASSUME NodesTrue, NEW n \in Nodes, NEW m \in RawMsgs(n), m # None
  PROVE  m \in Work
<1> DEFINE r == NodeAnswer(n)
<1>1. PICK lack \in Lacks(config.coin, r) : m = makeRawMsg(n, lack)
  BY ZenonT(60) DEF RawMsgs
<1> DEFINE a == Without(r, lack)
           g == processRawGw(config.coin, a)
           w == ReadWork(config.coin, g)
<1>2. tip[n] \in Heights /\ rev[n] \in 0 .. 1 /\ 0 \in 0 .. MaxAge
  BY TimesAssumption DEF NodesTrue
<1>3. /\ g # None /\ w # None
      /\ m = [src |-> n, height |-> w.height, rev |-> w.rev, age |-> 0]
  BY <1>1, ZenonT(60) DEF makeRawMsg
<1>4. SUFFICES w.height = tip[n] /\ w.rev \in 0 .. 1
  BY <1>2, <1>3, ZenonT(60) DEF Work
<1>5. config.coin \in {"bitcoin", "eth", "decred", "ckb", "bytom", "sia"}
  BY ConfigFacts, ZenonT(60) DEF NodesTrue
<1>6. a = [x \in DOMAIN r \ lack |-> r[x]]
  BY ZenonT(60) DEF Without, Restrict
<1> DEFINE b == BlockOf(n, tip[n], rev[n])
<1>7. b.height = tip[n] /\ b.rev = rev[n]
  BY ZenonT(60) DEF BlockOf
<1> HIDE DEF a, g, b
<1>8. CASE config.coin = "bitcoin"
  <2>1. r = AnswerBitcoin(b)
    BY <1>8, ZenonT(60) DEF NodeAnswer, Answer, b
  <2>2. "transactions" \notin lack
    BY <1>8, ZenonT(60) DEF Lacks
  <2>3. g = makeRawGbtMsg(a) /\ w = RawGbtWork(g)
    BY <1>8, ZenonT(60) DEF processRawGw, ReadWork, g
  <2> HIDE DEF w
  <2>4. /\ Has(a, {"previousblockhash", "height", "coinbasevalue", "bits", "mintime", "curtime",
                   "version"})
        /\ g.block_template_base64 = a
    BY <1>3, <2>3, ZenonT(60) DEF makeRawGbtMsg
  <2>5. w.height = a.height /\ w.rev = a.transactions
    BY <1>3, <2>3, <2>4, ZenonT(60) DEF RawGbtWork
  <2>6. a.height = r.height /\ a.transactions = r.transactions
    BY <1>6, <2>1, <2>2, <2>4, ZenonT(60) DEF Has, AnswerBitcoin
  <2> QED
    BY <1>2, <1>7, <2>1, <2>5, <2>6 DEF AnswerBitcoin
<1>9. CASE config.coin = "eth"
  <2>1. r = AnswerEth(b)
    BY <1>9, ZenonT(60) DEF NodeAnswer, Answer, b
  <2>2. g = constructRawMsgEth(a) /\ w = initFromGwEth(g)
    BY <1>3, <1>9, ZenonT(60) DEF processRawGw, ReadWork, g
  <2> HIDE DEF w
  <2> DEFINE height == IF Has(a, {"workNumber"}) THEN a.workNumber ELSE Num(a, "number")
             block == IF Has(a, {"workBlock"}) THEN a.workBlock
                      ELSE [parent |-> Num(a, "parentHash"), limit |-> Num(a, "gasLimit"),
                            used |-> Num(a, "gasUsed"), uncles |-> Num(a, "uncles"),
                            transactions |-> Num(a, "transactions")]
  <2>3. ~(height < 1) /\ g = RawEth(a, height, block)
    BY <1>3, <2>2, ZenonT(60) DEF constructRawMsgEth
  <2>4. height \in {tip[n], 0}
    BY <1>6, <1>7, <2>1 DEF Num, Has, AnswerEth
  <2>5. height = tip[n]
    BY <2>3, <2>4
  <2>6. block.uncles \in 0 .. 1
    BY <1>2, <1>6, <1>7, <2>1 DEF Num, Has, AnswerEth
  <2> HIDE DEF height, block
  <2>7. "height" \in DOMAIN g /\ g.height = height /\ "uncles" \in DOMAIN g /\ g.uncles = block.uncles
    BY <2>3, ZenonT(60) DEF RawEth, Without, Restrict
  <2>8. w.height = g.height /\ w.rev = g.uncles
    BY <1>3, <2>2, ZenonT(60) DEF initFromGwEth
  <2> QED
    BY <2>5, <2>6, <2>7, <2>8, ZenonT(60)
<1>10. CASE config.coin = "decred"
  <2>1. r = AnswerDecred(b)
    BY <1>10, ZenonT(60) DEF NodeAnswer, Answer, b
  <2>2. g = constructRawMsgDecred(a) /\ w = validateDecred(g) /\ checkFieldsDecred(a)
    BY <1>3, <1>10, ZenonT(60) DEF processRawGw, ReadWork, g
  <2> HIDE DEF w
  <2>3. g.data = b
    BY <1>6, <2>1, <2>2 DEF constructRawMsgDecred, checkFieldsDecred, Has, AnswerDecred
  <2>4. w.height = g.data.height /\ w.rev = g.data.rev
    BY <1>3, <2>2, ZenonT(60) DEF validateDecred
  <2> QED
    BY <1>2, <1>7, <2>3, <2>4, ZenonT(60)
<1>11. CASE config.coin = "bytom"
  <2>1. r = AnswerBytom(b)
    BY <1>11, ZenonT(60) DEF NodeAnswer, Answer, b
  <2>2. g = constructRawMsgBytom(a) /\ w = validateBytom(g) /\ checkFieldsBytom(a)
    BY <1>3, <1>11, ZenonT(60) DEF processRawGw, ReadWork, g
  <2> HIDE DEF w
  <2>3. g.hHash = b
    BY <1>6, <2>1, <2>2 DEF constructRawMsgBytom, checkFieldsBytom, Has, AnswerBytom
  <2>4. w.height = g.hHash.height /\ w.rev = g.hHash.rev
    BY <1>3, <2>2, ZenonT(60) DEF validateBytom
  <2> QED
    BY <1>2, <1>7, <2>3, <2>4, ZenonT(60)
<1>12. CASE config.coin = "sia"
  <2>1. r = AnswerSia(b)
    BY <1>12, ZenonT(60) DEF NodeAnswer, Answer, b
  <2>2. g = processRawGwSia(a) /\ w = validateSia(g)
    BY <1>3, <1>12, ZenonT(60) DEF processRawGw, ReadWork, g
  <2> HIDE DEF w
  <2>3. g.hHash = b
    BY <1>3, <1>6, <2>1, <2>2 DEF processRawGwSia, Has, AnswerSia
  <2>4. w.height = g.hHash.height /\ w.rev = g.hHash.rev
    BY <1>3, <2>2, ZenonT(60) DEF validateSia
  <2> QED
    BY <1>2, <1>7, <2>3, <2>4, ZenonT(60)
<1>13. CASE config.coin = "ckb"
  <2>1. r = AnswerCkb(b)
    BY <1>13, ZenonT(60) DEF NodeAnswer, Answer, b
  <2>2. g = a /\ w = initFromRawJobCkb(g)
    BY <1>3, <1>13, ZenonT(60) DEF processRawGw, ReadWork, g
  <2> HIDE DEF w
  <2>3. Has(g, {"height", "pow_hash"}) /\ w.height = g.height /\ w.rev = g.pow_hash.rev
    BY <1>3, <2>2, ZenonT(60) DEF initFromRawJobCkb, Has
  <2>4. g.height = tip[n] /\ g.pow_hash = b
    BY <1>6, <1>7, <2>1, <2>2, <2>3 DEF Has, AnswerCkb
  <2> QED
    BY <1>2, <1>7, <2>3, <2>4, ZenonT(60)
<1> QED
  BY <1>5, <1>8, <1>9, <1>10, <1>11, <1>12, <1>13, ZenonT(60)

\* What KeepOne() leaves: the works that have not expired, and some work.
LEMMA KeepOneFacts ==
  ASSUME NEW S, S \subseteq Work, NEW E, E \subseteq S
  PROVE  KeepOne(S, E) \subseteq S /\ S \ E \subseteq KeepOne(S, E)
<1>1. CASE S # {} /\ S = E
  BY <1>1, BestOf, ZenonT(60) DEF KeepOne
<1>2. CASE ~(S # {} /\ S = E)
  BY <1>2, ZenonT(60) DEF KeepOne
<1> QED
  BY <1>1, <1>2, ZenonT(60)

\* The state of a handler with other fields than those that the invariant is about.
LEMMA SameHandler ==
  ASSUME NEW h, HandlerTrue(h), NEW g, DOMAIN h = DOMAIN g, g.works \subseteq Work,
         g.best \in Nat, g.nmc = h.nmc, g.cur = h.cur, g.prev = h.prev
  PROVE  HandlerTrue(g)
BY ZenonT(60) DEF HandlerTrue

\* A template or work that is taken is of the types that the handler keeps.
LEMMA processMsgTypes ==
  ASSUME NEW h, HandlerTrue(h), NEW w \in Work, config \in Configs
  PROVE  HandlerTrue(processMsg(h, w).h)
<1>1. h.works \subseteq Work /\ h.best \in Nat /\ HandlerFields \subseteq DOMAIN h
  BY ZenonT(60) DEF HandlerTrue
<1>2. w.height \in Nat
  BY TimesAssumption DEF Work, Heights
<1>3. h.works \cup {w} \subseteq Work
  BY <1>1, ZenonT(60)
<1>4. CASE config.coin = "bitcoin"
  <2> DEFINE g == [h EXCEPT !.works = IF \E v \in @ : Key(v) = Key(w) THEN @ ELSE @ \union {w},
                            !.latest = @ \union {w}]
  <2>1. processMsg(h, w).h \in {h, g}
    BY <1>4, ZenonT(60) DEF processMsg, addRawGbt, Result
  <2>2. /\ DOMAIN g = DOMAIN h /\ g.works \subseteq Work /\ g.best = h.best
        /\ g.nmc = h.nmc /\ g.cur = h.cur /\ g.prev = h.prev
    BY <1>1, <1>3, ZenonT(60) DEF HandlerFields
  <2>3. HandlerTrue(g)
    BY <1>1, <2>2, SameHandler, ZenonT(60)
  <2> QED
    BY <2>1, <2>3, ZenonT(60)
<1>5. CASE config.coin = "eth"
  <2> DEFINE works == IF \E v \in h.works : Key(v) = Key(w) THEN h.works ELSE h.works \union {w}
             kept == [h EXCEPT !.works = KeepOne(works, ExpiredWorks(works))]
             g == [kept EXCEPT !.best = w.height]
  <2>1. processMsg(h, w).h \in {h, kept, g}
    BY <1>5, ZenonT(60) DEF processMsg, processMsgEth, Result
  <2>2. KeepOne(works, ExpiredWorks(works)) \subseteq Work
    <3>1. works \subseteq Work /\ ExpiredWorks(works) \subseteq works
      BY <1>1, <1>3, ZenonT(60) DEF ExpiredWorks
    <3> HIDE DEF works
    <3>2. KeepOne(works, ExpiredWorks(works)) \subseteq works
      BY <3>1, KeepOneFacts, ZenonT(60)
    <3> QED
      BY <3>1, <3>2, ZenonT(60)
  <2> HIDE DEF works
  <2>3. HandlerTrue(kept)
    <3>1. /\ DOMAIN kept = DOMAIN h /\ kept.works \subseteq Work /\ kept.best = h.best
          /\ kept.nmc = h.nmc /\ kept.cur = h.cur /\ kept.prev = h.prev
      BY <1>1, <2>2, ZenonT(60) DEF HandlerFields
    <3> QED
      BY <1>1, <3>1, SameHandler, ZenonT(60)
  <2>4. HandlerTrue(g)
    <3>1. /\ DOMAIN g = DOMAIN h /\ g.works \subseteq Work /\ g.best = w.height
          /\ g.nmc = h.nmc /\ g.cur = h.cur /\ g.prev = h.prev
      BY <1>1, <2>2, ZenonT(60) DEF HandlerFields
    <3> QED
      BY <1>2, <3>1, SameHandler, ZenonT(60)
  <2> QED
    BY <2>1, <2>3, <2>4, ZenonT(60)
<1>6. CASE config.coin = "decred"
  <2> DEFINE cleared == [h EXCEPT !.works = clearTimeoutWorks(h.works)]
             g == [cleared EXCEPT !.works = @ \union {w}]
  <2>1. processMsg(h, w).h \in {cleared, g}
    BY <1>6, ZenonT(60) DEF processMsg, processMsgDecred, Result
  <2>2. clearTimeoutWorks(h.works) \subseteq Work
    BY <1>1, ZenonT(60) DEF clearTimeoutWorks
  <2>3. HandlerTrue(cleared)
    <3>1. /\ DOMAIN cleared = DOMAIN h /\ cleared.works \subseteq Work /\ cleared.best = h.best
          /\ cleared.nmc = h.nmc /\ cleared.cur = h.cur /\ cleared.prev = h.prev
      BY <1>1, <2>2, ZenonT(60) DEF HandlerFields
    <3> QED
      BY <1>1, <3>1, SameHandler, ZenonT(60)
  <2>4. HandlerTrue(g)
    <3>1. /\ DOMAIN g = DOMAIN h /\ g.works \subseteq Work /\ g.best = h.best
          /\ g.nmc = h.nmc /\ g.cur = h.cur /\ g.prev = h.prev
      BY <1>1, <2>2, ZenonT(60) DEF HandlerFields
    <3> QED
      BY <1>1, <3>1, SameHandler, ZenonT(60)
  <2> QED
    BY <2>1, <2>3, <2>4, ZenonT(60)
<1>7. CASE config.coin = "ckb"
  <2> DEFINE id == nextId(h.gen)
             new == [w EXCEPT !.age = 0]
             all == h.works \union {new}
             works == KeepOne(all, ExpiredWorks(all))
             kept(e) == \E v \in works : SameData(v, e.work)
             byId == SelectSeq(Append(h.byId, [work |-> new, age |-> 0, low |-> id.low]), kept)
             best == IF w.height < h.best THEN h.best ELSE w.height
             f == [h EXCEPT !.gen = id]
             g == [h EXCEPT !.gen = id, !.works = works, !.byId = byId, !.best = best]
  <2>1. processMsg(h, w).h \in {f, g}
    BY <1>7, ZenonT(60) DEF processMsg, processMsgCkb, Result
  <2>2. works \subseteq Work
    <3>1. new \in Work
      BY TimesAssumption DEF Work
    <3>2. all \subseteq Work /\ ExpiredWorks(all) \subseteq all
      BY <1>1, <3>1, ZenonT(60) DEF ExpiredWorks
    <3>3. works \subseteq all
      BY <3>2, KeepOneFacts
    <3> QED
      BY <3>2, <3>3, ZenonT(60)
  <2>3. best \in Nat
    BY <1>1, <1>2, ZenonT(60)
  <2> HIDE DEF works, byId, best, id
  <2>4. HandlerTrue(f)
    <3>1. /\ DOMAIN f = DOMAIN h /\ f.works \subseteq Work /\ f.best = h.best
          /\ f.nmc = h.nmc /\ f.cur = h.cur /\ f.prev = h.prev
      BY <1>1, ZenonT(60) DEF HandlerFields
    <3> QED
      BY <1>1, <3>1, SameHandler, ZenonT(60)
  <2>5. HandlerTrue(g)
    <3>1. /\ DOMAIN g = DOMAIN h /\ g.works \subseteq Work /\ g.best = best
          /\ g.nmc = h.nmc /\ g.cur = h.cur /\ g.prev = h.prev
      BY <1>1, <2>2, ZenonT(60) DEF HandlerFields
    <3> QED
      BY <2>3, <3>1, SameHandler, ZenonT(60)
  <2> QED
    BY <2>1, <2>4, <2>5, ZenonT(60)
<1>8. CASE config.coin \in {"bytom", "sia"}
  <2> DEFINE g == [h EXCEPT !.last = w, !.works = {w}]
  <2>1. processMsg(h, w).h \in {h, g}
    BY <1>8, ZenonT(60) DEF processMsg, processMsgHeader, Result
  <2>2. HandlerTrue(g)
    <3>1. /\ DOMAIN g = DOMAIN h /\ g.works \subseteq Work /\ g.best = h.best
          /\ g.nmc = h.nmc /\ g.cur = h.cur /\ g.prev = h.prev
      BY <1>1, ZenonT(60) DEF HandlerFields
    <3> QED
      BY <1>1, <3>1, SameHandler, ZenonT(60)
  <2> QED
    BY <2>1, <2>2, ZenonT(60)
<1> QED
  BY <1>4, <1>5, <1>6, <1>7, <1>8, ConfigFacts, ZenonT(60)

\* A message of a merged mined chain changes nothing but what is known of that chain.
LEMMA processAuxMsgTypes ==
  ASSUME NEW h, HandlerTrue(h), NEW m, IsAux(m), config.aux \in {"nmc", "rsk", "vcash"}
  PROVE  /\ HandlerTrue(processAuxMsg(h, m).h)
         /\ processAuxMsg(h, m).h.works = h.works /\ processAuxMsg(h, m).h.best = h.best
         /\ processAuxMsg(h, m).h.lastEmpty = h.lastEmpty
<1>1. HandlerFields \subseteq DOMAIN h /\ h.works \subseteq Work /\ h.best \in Nat
      /\ AuxOrNone(h.nmc) /\ AuxOrNone(h.cur) /\ AuxOrNone(h.prev)
  BY ZenonT(60) DEF HandlerTrue
<1>2. AuxOrNone(m)
  BY ZenonT(60) DEF AuxOrNone
<1>3. ASSUME NEW x
      PROVE  LET g == [h EXCEPT !.nmc = m, !.update = x]
             IN HandlerTrue(g) /\ g.works = h.works /\ g.best = h.best /\ g.lastEmpty = h.lastEmpty
  <2> DEFINE g == [h EXCEPT !.nmc = m, !.update = x]
  <2>1. /\ DOMAIN g = DOMAIN h /\ g.works = h.works /\ g.best = h.best
        /\ g.lastEmpty = h.lastEmpty /\ g.nmc = m /\ g.cur = h.cur /\ g.prev = h.prev
    BY <1>1, ZenonT(60) DEF HandlerFields
  <2> QED
    BY <1>1, <1>2, <2>1, ZenonT(60) DEF HandlerTrue
<1>4. ASSUME NEW x
      PROVE  LET g == [GwTaken(h, m) EXCEPT !.update = x]
             IN HandlerTrue(g) /\ g.works = h.works /\ g.best = h.best /\ g.lastEmpty = h.lastEmpty
  <2> DEFINE t == GwTaken(h, m)
             g == [t EXCEPT !.update = x]
  <2>1. /\ DOMAIN t = DOMAIN h /\ t.works = h.works /\ t.best = h.best
        /\ t.lastEmpty = h.lastEmpty /\ t.nmc = h.nmc /\ t.cur \in {h.cur, m}
        /\ t.prev \in {h.prev, h.cur}
    BY <1>1, ZenonT(60) DEF HandlerFields, GwTaken
  <2> HIDE DEF t
  <2>2. /\ DOMAIN g = DOMAIN t /\ g.works = t.works /\ g.best = t.best
        /\ g.lastEmpty = t.lastEmpty /\ g.nmc = t.nmc /\ g.cur = t.cur /\ g.prev = t.prev
    BY <1>1, <2>1, ZenonT(60) DEF HandlerFields
  <2>3. AuxOrNone(g.cur) /\ AuxOrNone(g.prev) /\ AuxOrNone(g.nmc)
    BY <1>1, <1>2, <2>1, <2>2, ZenonT(60)
  <2>4. HandlerTrue(g)
    BY <1>1, <2>1, <2>2, <2>3, ZenonT(60) DEF HandlerTrue
  <2> QED
    BY <2>1, <2>2, <2>4, ZenonT(60) DEF t
<1>5. CASE config.aux = "nmc"
  <2>1. PICK x : processAuxMsg(h, m).h = [h EXCEPT !.nmc = m, !.update = x]
    BY <1>5, ZenonT(60) DEF processAuxMsg, processAuxPowMsg, Result
  <2> QED
    BY <1>3, <2>1, ZenonT(60)
<1>6. CASE config.aux = "rsk"
  <2>1. PICK x : processAuxMsg(h, m).h = [GwTaken(h, m) EXCEPT !.update = x]
    BY <1>6, ZenonT(60) DEF processAuxMsg, processRskGwMsg, Result
  <2> QED
    BY <1>4, <2>1, ZenonT(60)
<1>7. CASE config.aux = "vcash"
  <2>1. PICK x : processAuxMsg(h, m).h = [GwTaken(h, m) EXCEPT !.update = x]
    BY <1>7, ZenonT(60) DEF processAuxMsg, processVcashGwMsg, Result
  <2> QED
    BY <1>4, <2>1, ZenonT(60)
<1> QED
  BY <1>5, <1>6, <1>7, ZenonT(60)

\* A message that is not readable changes neither the templates nor what is known of
\* the last job; Decred has cleared its works.
LEMMA UnreadableTypes ==
  ASSUME NEW h, HandlerTrue(h), NEW r \in {Result(h, FALSE), processUnreadable(h)}
  PROVE  /\ HandlerTrue(r.h) /\ r.h.best = h.best /\ r.h.lastEmpty = h.lastEmpty
         /\ r.h.works = h.works \/ config.coin \notin {"bitcoin", "eth"}
<1>1. HandlerFields \subseteq DOMAIN h /\ h.works \subseteq Work /\ h.best \in Nat
  BY ZenonT(60) DEF HandlerTrue
<1> DEFINE works == clearTimeoutWorks(h.works)
           cleared == [h EXCEPT !.works = works]
<1>2. works \subseteq Work
  BY <1>1, ZenonT(60) DEF clearTimeoutWorks
<1>3. \/ r.h = h
      \/ config.coin = "decred" /\ r.h = cleared
      \/ \E x : r.h = [h EXCEPT !.update = x]
  <2>1. CASE r = Result(h, FALSE)
    BY <2>1, ZenonT(60) DEF Result
  <2>2. CASE r = processUnreadable(h) /\ config.coin = "decred"
    <3>1. r = Result(cleared, FALSE)
      BY <2>2, ZenonT(60) DEF processUnreadable
    <3>2. r.h = cleared
      BY <3>1 DEF Result
    <3> HIDE DEF cleared
    <3> QED
      BY <2>2, <3>2, ZenonT(60)
  <2>3. CASE r = processUnreadable(h) /\ config.coin # "decred"
    <3>1. \/ r = Result(h, FALSE)
          \/ \E x, y : r = Result([h EXCEPT !.update = x], y)
      BY <2>3, ZenonT(60) DEF processUnreadable
    <3>2. CASE \E x, y : r = Result([h EXCEPT !.update = x], y)
      <4>1. PICK x, y : r = Result([h EXCEPT !.update = x], y)
        BY <3>2, ZenonT(60)
      <4>2. r.h = [h EXCEPT !.update = x]
        BY <4>1 DEF Result
      <4> QED
        BY <4>2, ZenonT(60)
    <3> QED
      BY <2>1, <3>1, <3>2, ZenonT(60)
  <2> QED
    BY <2>1, <2>2, <2>3, ZenonT(60)
<1> HIDE DEF works
<1>4. HandlerTrue(cleared) /\ cleared.best = h.best /\ cleared.lastEmpty = h.lastEmpty
  <2>1. /\ DOMAIN cleared = DOMAIN h /\ cleared.works = works /\ cleared.best = h.best
        /\ cleared.lastEmpty = h.lastEmpty
        /\ cleared.nmc = h.nmc /\ cleared.cur = h.cur /\ cleared.prev = h.prev
    BY <1>1, ZenonT(60) DEF HandlerFields
  <2> QED
    BY <1>1, <1>2, <2>1, SameHandler, ZenonT(60)
<1>5. ASSUME NEW x
      PROVE  LET g == [h EXCEPT !.update = x]
             IN HandlerTrue(g) /\ g.works = h.works /\ g.best = h.best /\ g.lastEmpty = h.lastEmpty
  <2> DEFINE g == [h EXCEPT !.update = x]
  <2>1. /\ DOMAIN g = DOMAIN h /\ g.works = h.works /\ g.best = h.best
        /\ g.lastEmpty = h.lastEmpty /\ g.nmc = h.nmc /\ g.cur = h.cur /\ g.prev = h.prev
    BY <1>1, ZenonT(60) DEF HandlerFields
  <2> QED
    BY <1>1, <2>1, SameHandler, ZenonT(60)
<1>6. CASE r.h = h
  BY <1>6, ZenonT(60)
<1>7. CASE config.coin = "decred" /\ r.h = cleared
  BY <1>4, <1>7, ZenonT(60)
<1>8. CASE \E x : r.h = [h EXCEPT !.update = x]
  BY <1>5, <1>8, ZenonT(60)
<1> QED
  BY <1>3, <1>6, <1>7, <1>8, ZenonT(60)

-----------------------------------------------------------------------------
(* makeStratumJobMsg() *)

\* What clearTimeoutGbt() and the two of merged mining leave of a handler's state
LEMMA ClearedFacts ==
  ASSUME NEW h, HandlerTrue(h)
  PROVE  /\ HandlerTrue(Cleared(h))
         /\ Cleared(h).works = clearTimeoutGbt(h.works)
         /\ Cleared(h).best = h.best /\ Cleared(h).lastEmpty = h.lastEmpty
         /\ clearTimeoutGbt(h.works) \subseteq h.works
         /\ \A w \in h.works : ~isEmptyGbt(w) /\ w.age < GbtLife => w \in clearTimeoutGbt(h.works)
<1>1. HandlerFields \subseteq DOMAIN h /\ h.works \subseteq Work /\ h.best \in Nat
      /\ AuxOrNone(h.nmc) /\ AuxOrNone(h.cur) /\ AuxOrNone(h.prev)
  BY ZenonT(60) DEF HandlerTrue
<1> DEFINE E == {w \in h.works : w.age >= IF isEmptyGbt(w) THEN EmptyGbtLife ELSE GbtLife}
           works == clearTimeoutGbt(h.works)
           a == [h EXCEPT !.works = works]
           Same(f, g) == /\ HandlerTrue(g) /\ g.works = f.works /\ g.best = f.best
                         /\ g.lastEmpty = f.lastEmpty
<1>2. works \subseteq h.works /\ h.works \ E \subseteq works
  <2>1. works = KeepOne(h.works, E) /\ E \subseteq h.works
    BY ZenonT(60) DEF clearTimeoutGbt
  <2> QED
    BY <1>1, <2>1, KeepOneFacts
<1>3. ASSUME NEW w \in h.works, ~isEmptyGbt(w), w.age < GbtLife
      PROVE  w \in works
  <2>1. w.age \in Nat /\ GbtLife \in Nat
    BY <1>1, TimesAssumption DEF Work
  <2>2. w \notin E
    BY <1>3, <2>1
  <2> QED
    BY <1>2, <2>2, ZenonT(60)
<1> HIDE DEF works, E
<1>4. HandlerTrue(a) /\ a.works = works /\ a.best = h.best /\ a.lastEmpty = h.lastEmpty
  <2>1. /\ DOMAIN a = DOMAIN h /\ a.works = works /\ a.best = h.best
        /\ a.lastEmpty = h.lastEmpty /\ a.nmc = h.nmc /\ a.cur = h.cur /\ a.prev = h.prev
    BY <1>1, ZenonT(60) DEF HandlerFields
  <2> QED
    BY <1>1, <1>2, <2>1, ZenonT(60) DEF HandlerTrue
<1>5. ASSUME NEW f, HandlerTrue(f), NEW life
      PROVE  Same(f, ClearedGw(f, life))
  <2>1. HandlerFields \subseteq DOMAIN f /\ f.works \subseteq Work /\ f.best \in Nat
        /\ AuxOrNone(f.nmc) /\ AuxOrNone(f.cur) /\ AuxOrNone(f.prev)
    BY <1>5, ZenonT(60) DEF HandlerTrue
  <2> DEFINE x == IF f.cur.age > life THEN None ELSE f.cur
             y == IF f.prev.age > life THEN None ELSE f.prev
             g == [f EXCEPT !.cur = x, !.prev = y]
  <2>2. ClearedGw(f, life) \in {f, g}
    BY ZenonT(60) DEF ClearedGw
  <2>3. AuxOrNone(x) /\ AuxOrNone(y)
    BY <2>1, ZenonT(60) DEF AuxOrNone
  <2> HIDE DEF x, y
  <2>4. /\ DOMAIN g = DOMAIN f /\ g.works = f.works /\ g.best = f.best
        /\ g.lastEmpty = f.lastEmpty /\ g.nmc = f.nmc /\ g.cur = x /\ g.prev = y
    BY <2>1, ZenonT(60) DEF HandlerFields
  <2>5. Same(f, g)
    BY <2>1, <2>3, <2>4, ZenonT(60) DEF HandlerTrue
  <2>6. Same(f, f)
    BY <1>5, ZenonT(60)
  <2> QED
    BY <2>2, <2>5, <2>6, ZenonT(60)
<1>6. Same(a, clearTimeoutGw(a))
  BY <1>4, <1>5, ZenonT(60) DEF clearTimeoutGw
<1> DEFINE b == clearTimeoutGw(a)
<1> HIDE DEF a, b
<1>7. Same(b, clearVcashTimeoutGw(b))
  BY <1>5, <1>6, ZenonT(60) DEF clearVcashTimeoutGw, b
<1>8. Cleared(h) = clearVcashTimeoutGw(b)
  BY ZenonT(60) DEF Cleared, a, b, works
<1>9. /\ HandlerTrue(Cleared(h)) /\ Cleared(h).works = works /\ Cleared(h).best = h.best
      /\ Cleared(h).lastEmpty = h.lastEmpty
  BY <1>4, <1>6, <1>7, <1>8, ZenonT(60) DEF b
<1> QED
  BY <1>2, <1>3, <1>9, ZenonT(60) DEF works

\* A job is empty when its template is: a branch of no or one hash is its own.
LEMMA EmptyJob ==
  ASSUME NEW h, NEW b
  PROVE  isEmptyBlock(makeStratumJob(h, b)) = isEmptyGbt(b)
<1> DEFINE txs == IF isEmptyGbt(b) THEN <<>> ELSE <<b.src>>
<1>1. makeStratumJob(h, b).merkleBranch = makeMerkleBranch(txs)
  BY ZenonT(60) DEF makeStratumJob, initFromGbt, Template
<1>2. Len(txs) <= 1 /\ (txs = <<>>) = isEmptyGbt(b)
  BY DEF isEmptyGbt
<1> HIDE DEF txs
<1>3. makeMerkleBranch(txs) = txs
  BY <1>2, ZenonT(60) DEF makeMerkleBranch
<1> QED
  BY <1>1, <1>2, <1>3, ZenonT(60) DEF isEmptyBlock

\* A job of Bitcoin
JobTrue(j) ==
  {"height", "empty", "age"} \subseteq DOMAIN j /\ j.height \in Heights /\ j.empty \in BOOLEAN

\* The last job is of the height that the handler remembers, unless that height
\* may be the one of a template that was refused; and it is as good as every
\* template the handler has.
HeightSent(c, h) == h.best > 0 /\ \A t \in c.refused : t[2] # h.best
JobOfBest(h, j) == JobTrue(j) /\ j.height = h.best /\ h.lastEmpty = j.empty
Covers(h, j) ==
  \A w \in h.works : w.height <= h.best /\ (w.height = h.best /\ j.empty => w.rev = 0)

\* The job that is made is the best template; when none is made, the last one
\* still is.
LEMMA MadeJob ==
  ASSUME NEW h, HandlerTrue(h), NEW j, HeightSent(config, h) => JobOfBest(h, j)
  PROVE  LET m == makeStratumJobMsgBitcoin(h)
             i == IF m.made THEN m.job ELSE j
         IN /\ HandlerTrue(m.h)
            /\ HeightSent(config, m.h) => JobOfBest(m.h, i) /\ Covers(m.h, i)
            /\ i = j \/ JobTrue(i)
            /\ m.h.works = clearTimeoutGbt(h.works)
            /\ i = j \/ \A w \in m.h.works : w.height <= i.height
<1> DEFINE g == Cleared(h)
           b == Best(g.works)
           id == nextId(g.gen)
           sjob == makeStratumJob(g, b)
           m == makeStratumJobMsgBitcoin(h)
           i == IF m.made THEN m.job ELSE j
           f == [g EXCEPT !.best = b.height, !.gen = id, !.lastSend = 0,
                          !.lastEmpty = isEmptyBlock(sjob), !.update = FALSE]
           k == JobOf(b, id, sjob.nmc.hash, sjob.rsk.hash, sjob.vcash.hash,
                      sjob.mergedMiningClean)
<1>1. /\ HandlerTrue(g) /\ g.works = clearTimeoutGbt(h.works) /\ g.best = h.best
      /\ g.lastEmpty = h.lastEmpty
  BY ClearedFacts, ZenonT(60)
<1>2. HandlerFields \subseteq DOMAIN g /\ g.works \subseteq Work /\ g.best \in Nat
  BY <1>1, ZenonT(60) DEF HandlerTrue
<1>3. ASSUME g.works # {}
      PROVE  /\ b \in Work /\ b.height \in Heights /\ b.height \in Nat /\ b.rev \in 0 .. 1
             /\ \A w \in g.works : /\ w.height <= b.height /\ w.height \in Nat /\ w.rev \in 0 .. 1
                                   /\ w.height = b.height => w.rev <= b.rev
  <2>1. b \in Work
    BY <1>2, <1>3, BestOf, ZenonT(60)
  <2>2. ASSUME NEW w \in Work PROVE w.height \in Heights /\ w.height \in Nat /\ w.rev \in 0 .. 1
    BY TimesAssumption DEF Work, Heights
  <2> QED
    BY <1>2, <1>3, <2>1, <2>2, BestOf, ZenonT(60)
<1>4. CASE findBestRawGbt(g) /\ ~InitFails(b)
  <2>1. m.made /\ m.h = f /\ m.job = k
    BY <1>4, ZenonT(60) DEF makeStratumJobMsgBitcoin, Made
  <2>2. isEmptyBlock(sjob) = (b.rev = 0)
    BY EmptyJob, ZenonT(60) DEF isEmptyGbt
  <2>3. g.works # {}
    BY <1>4, ZenonT(60) DEF findBestRawGbt
  <2>4. /\ {"height", "empty", "age"} \subseteq DOMAIN k /\ k.height = b.height
        /\ k.empty = (b.rev = 0)
    BY ZenonT(60) DEF JobOf
  <2> HIDE DEF b, id, sjob, k, g
  <2>5. /\ DOMAIN f = DOMAIN g /\ f.works = g.works /\ f.best = b.height
        /\ f.lastEmpty = isEmptyBlock(sjob) /\ f.nmc = g.nmc /\ f.cur = g.cur
        /\ f.prev = g.prev
    BY <1>2, ZenonT(60) DEF HandlerFields
  <2> HIDE DEF f
  <2>6. HandlerTrue(f)
    BY <1>1, <1>2, <1>3, <2>3, <2>5, SameHandler, ZenonT(60)
  <2>7. JobTrue(k)
    BY <1>3, <2>3, <2>4, ZenonT(60) DEF JobTrue
  <2>8. JobOfBest(f, k)
    BY <2>2, <2>4, <2>5, <2>7, ZenonT(60) DEF JobOfBest
  <2>9. Covers(f, k)
    <3> SUFFICES ASSUME NEW w \in f.works
                 PROVE  w.height <= f.best /\ (w.height = f.best /\ k.empty => w.rev = 0)
      BY ZenonT(60) DEF Covers
    <3>1. k.empty => b.rev = 0
      BY <2>4, ZenonT(60)
    <3> QED
      BY <1>3, <2>3, <2>5, <3>1
  <2>10. \A w \in f.works : w.height <= k.height
    BY <1>3, <2>3, <2>4, <2>5, ZenonT(60)
  <2> HIDE DEF m
  <2>11. i = k
    BY <2>1, ZenonT(60)
  <2> HIDE DEF i
  <2>12. /\ HandlerTrue(m.h)
         /\ HeightSent(config, m.h) => JobOfBest(m.h, i) /\ Covers(m.h, i)
         /\ i = j \/ JobTrue(i)
         /\ m.h.works = clearTimeoutGbt(h.works)
         /\ i = j \/ \A w \in m.h.works : w.height <= i.height
    BY <1>1, <2>1, <2>5, <2>6, <2>7, <2>8, <2>9, <2>10, <2>11, ZenonT(60)
  <2> QED
    BY <2>12, ZenonT(60) DEF m, i
<1>5. CASE ~findBestRawGbt(g)
  <2>1. ~m.made /\ m.h = g
    BY <1>5, ZenonT(60) DEF makeStratumJobMsgBitcoin, NotMade
  <2>2. i = j
    BY <2>1, ZenonT(60)
  <2>3. HeightSent(config, g) => JobOfBest(g, j)
    BY <1>1, ZenonT(60) DEF JobOfBest, HeightSent
  <2>4. ASSUME HeightSent(config, g)
        PROVE  Covers(g, j)
    <3> SUFFICES ASSUME NEW w \in g.works
                 PROVE  w.height <= g.best /\ (w.height = g.best /\ j.empty => w.rev = 0)
      BY ZenonT(60) DEF Covers
    <3>1. g.works # {}
      BY ZenonT(60)
    <3>2. b.height <= g.best /\ ~(b.height = g.best /\ g.lastEmpty /\ b.rev # 0)
      <4>1. ~(b.height > g.best) /\ ~(b.height = g.best /\ g.lastEmpty /\ b.rev # 0)
        BY <1>5, <3>1, ZenonT(60) DEF findBestRawGbt, isEmptyGbt
      <4> QED
        BY <1>2, <1>3, <3>1, <4>1
    <3>3. g.lastEmpty = j.empty
      BY <2>3, <2>4, ZenonT(60) DEF JobOfBest
    <3> HIDE DEF b, g
    <3> QED
      BY <1>2, <1>3, <3>1, <3>2, <3>3
  <2> HIDE DEF m, i, g
  <2> QED
    BY <1>1, <2>1, <2>2, <2>3, <2>4, ZenonT(60) DEF m, i
<1>6. CASE findBestRawGbt(g) /\ InitFails(b)
  <2> DEFINE e == [g EXCEPT !.best = b.height]
  <2>1. ~m.made /\ m.h = e
    BY <1>6, ZenonT(60) DEF makeStratumJobMsgBitcoin, NotMade
  <2>2. i = j
    BY <2>1, ZenonT(60)
  <2>3. g.works # {}
    BY <1>6, ZenonT(60) DEF findBestRawGbt
  <2>4. \E t \in config.refused : t[2] = b.height
    <3> DEFINE t == <<b.src, b.height, b.rev>>
    <3>1. t \in config.refused
      BY <1>6, ZenonT(60) DEF InitFails
    <3>2. t[2] = b.height
      BY ZenonT(60)
    <3> QED
      BY <3>1, <3>2, ZenonT(60)
  <2> HIDE DEF b, g
  <2>5. /\ DOMAIN e = DOMAIN g /\ e.works = g.works /\ e.best = b.height
        /\ e.nmc = g.nmc /\ e.cur = g.cur /\ e.prev = g.prev
    BY <1>2, ZenonT(60) DEF HandlerFields
  <2> HIDE DEF e
  <2>6. HandlerTrue(e)
    BY <1>1, <1>2, <1>3, <2>3, <2>5, SameHandler, ZenonT(60)
  <2>7. ~HeightSent(config, e)
    BY <2>4, <2>5, ZenonT(60) DEF HeightSent
  <2> HIDE DEF m, i
  <2> QED
    BY <1>1, <2>1, <2>2, <2>5, <2>6, <2>7, ZenonT(60) DEF m, i
<1> QED
  BY <1>4, <1>5, <1>6, ZenonT(60)

-----------------------------------------------------------------------------
(* The invariant *)

\* Of every height whose templates with transactions have not all expired, the
\* handler has one as new as the newest received.
KeepsHeard(h, r) ==
  \A k \in Heights :
    r[k] < GbtLife => \E w \in h.works : w.height = k /\ w.rev # 0 /\ w.age <= r[k]

BitcoinInv(c, h, j, r) ==
  /\ j = None \/ JobTrue(j)
  /\ HeightSent(c, h) => JobOfBest(h, j) /\ Covers(h, j)
  /\ KeepsHeard(h, r)
EthInv(h) == \A w \in h.works : w.height <= h.best

MakerInv ==
  /\ Types
  /\ phase = "pre-consuming" => config.coin = "bitcoin" /\ hd.best = 0
  /\ config.coin = "bitcoin" => BitcoinInv(config, hd, job, heard)
  /\ config.coin = "eth" => EthInv(hd)

\* No template is lost when one comes; the newest of its height is remembered.
LEMMA TakenTemplate ==
  ASSUME NEW h, HandlerTrue(h), NEW w \in Work, config.coin = "bitcoin",
         heard \in [Heights -> 0 .. MaxAge], KeepsHeard(h, heard)
  PROVE  LET p == processMsg(h, w)
         IN /\ p.h.best = h.best /\ p.h.lastEmpty = h.lastEmpty
            /\ h.works \subseteq p.h.works
            /\ ~p.yes => p.h = h
            /\ Heard(h, w) \in [Heights -> 0 .. MaxAge]
            /\ KeepsHeard(p.h, Heard(h, w))
<1> DEFINE p == addRawGbt(h, w)
           new == IF \E v \in h.works : Key(v) = Key(w) THEN h.works ELSE h.works \union {w}
           g == [h EXCEPT !.works = new, !.latest = @ \union {w}]
           r == Heard(h, w)
<1>1. processMsg(h, w) = p
  BY ZenonT(60) DEF processMsg
<1>2. HandlerFields \subseteq DOMAIN h /\ h.works \subseteq Work
  BY ZenonT(60) DEF HandlerTrue
<1>3. (p.h = h /\ ~p.yes) \/ (p.h = g /\ p.yes)
  BY ZenonT(60) DEF addRawGbt, Result
<1>4. h.works \subseteq new
  BY ZenonT(60)
<1>5. \E v \in new : v \in Work /\ Key(v) = Key(w)
  BY <1>2, ZenonT(60)
<1>6. w.height \in Heights /\ w.age \in 0 .. MaxAge /\ 0 .. MaxAge \subseteq Nat
  BY TimesAssumption DEF Work
<1>7. r \in [Heights -> 0 .. MaxAge]
  BY <1>6, ZenonT(60) DEF Heard
<1> HIDE DEF new
<1>8. g.works = new /\ g.best = h.best /\ g.lastEmpty = h.lastEmpty
  BY <1>2, ZenonT(60) DEF HandlerFields
<1> HIDE DEF p, g
<1>9. h.works \subseteq p.h.works /\ p.h.best = h.best /\ p.h.lastEmpty = h.lastEmpty
  BY <1>3, <1>4, <1>8, ZenonT(60)
<1>10. KeepsHeard(p.h, heard)
  BY <1>9, ZenonT(60) DEF KeepsHeard
<1>11. CASE p.yes /\ ~isEmptyGbt(w)
  <2>1. r = [heard EXCEPT ![w.height] = IF w.age < @ THEN w.age ELSE @]
    BY <1>11, ZenonT(60) DEF Heard, p
  <2>2. PICK v \in new : v \in Work /\ Key(v) = Key(w)
    BY <1>5, ZenonT(60)
  <2>3. v.height = w.height /\ v.rev = w.rev /\ v.age = w.age
    BY <2>2, SameKey, ZenonT(60)
  <2>4. v \in p.h.works
    BY <1>3, <1>8, <1>11, <2>2, ZenonT(60)
  <2>5. w.rev # 0
    BY <1>11, ZenonT(60) DEF isEmptyGbt
  <2>6. SUFFICES ASSUME NEW k \in Heights, r[k] < GbtLife
                 PROVE  \E x \in p.h.works : x.height = k /\ x.rev # 0 /\ x.age <= r[k]
    BY <1>1, <1>3, <1>7, <1>9, <1>11, ZenonT(60) DEF KeepsHeard
  <2>7. CASE k = w.height /\ w.age < heard[k]
    <3>1. r[k] = w.age
      BY <2>1, <2>7, ZenonT(60)
    <3> QED
      BY <1>6, <2>3, <2>4, <2>5, <2>7, <3>1
  <2>8. CASE ~(k = w.height /\ w.age < heard[k])
    <3>1. r[k] = heard[k]
      BY <2>1, <2>8, ZenonT(60)
    <3> QED
      BY <1>10, <2>6, <3>1, ZenonT(60) DEF KeepsHeard
  <2> QED
    BY <2>7, <2>8, ZenonT(60)
<1>12. CASE ~(p.yes /\ ~isEmptyGbt(w))
  <2>1. r = heard
    BY <1>12, ZenonT(60) DEF Heard, p
  <2> HIDE DEF r
  <2> QED
    BY <1>1, <1>3, <1>7, <1>9, <1>10, <2>1, ZenonT(60) DEF r
<1> QED
  BY <1>11, <1>12, ZenonT(60)

\* What is sent is as good as what there is.
LEMMA SentBitcoin ==
  ASSUME NEW h, HandlerTrue(h), config.coin = "bitcoin", job = None \/ JobTrue(job),
         HeightSent(config, h) => JobOfBest(h, job), NEW r \in [Heights -> 0 .. MaxAge],
         KeepsHeard(h, r), produceStratumJob(h)
  PROVE  /\ HandlerTrue(hd') /\ BitcoinInv(config, hd', job', r)
         /\ job' = job \/ (JobTrue(job') /\ \A k \in Heights : r[k] < GbtLife => k <= job'.height)
<1> DEFINE m == makeStratumJobMsgBitcoin(h)
           i == IF m.made THEN m.job ELSE job
<1>1. hd' = m.h /\ job' = i
  BY ZenonT(60) DEF produceStratumJob, makeStratumJobMsg
<1>2. /\ HandlerTrue(m.h)
      /\ HeightSent(config, m.h) => JobOfBest(m.h, i) /\ Covers(m.h, i)
      /\ i = job \/ JobTrue(i)
      /\ m.h.works = clearTimeoutGbt(h.works)
      /\ i = job \/ \A w \in m.h.works : w.height <= i.height
  BY MadeJob, ZenonT(60)
<1> HIDE DEF m, i
<1>3. ASSUME NEW k \in Heights, r[k] < GbtLife
      PROVE  \E w \in m.h.works : w.height = k /\ w.rev # 0 /\ w.age <= r[k]
  <2>1. PICK w \in h.works : w.height = k /\ w.rev # 0 /\ w.age <= r[k]
    BY <1>3, ZenonT(60) DEF KeepsHeard
  <2>2. w.age \in Nat /\ r[k] \in Nat /\ GbtLife \in Nat
    BY TimesAssumption DEF HandlerTrue, Work
  <2>3. w.age < GbtLife /\ ~isEmptyGbt(w)
    BY <1>3, <2>1, <2>2 DEF isEmptyGbt
  <2>4. \A v \in h.works : ~isEmptyGbt(v) /\ v.age < GbtLife => v \in clearTimeoutGbt(h.works)
    BY ClearedFacts, ZenonT(60)
  <2>5. w \in m.h.works
    BY <1>2, <2>3, <2>4, ZenonT(60)
  <2> QED
    BY <2>1, <2>5, ZenonT(60)
<1>4. KeepsHeard(m.h, r)
  BY <1>3, ZenonT(60) DEF KeepsHeard
<1>5. i = job \/ (JobTrue(i) /\ \A k \in Heights : r[k] < GbtLife => k <= i.height)
  BY <1>2, <1>3, ZenonT(60)
<1> QED
  BY <1>1, <1>2, <1>4, <1>5, ZenonT(60) DEF BitcoinInv

\* The other coins leave the works and the best height alone when they send.
LEMMA SentOther ==
  ASSUME NEW h, HandlerTrue(h), config.coin # "bitcoin", produceStratumJob(h)
  PROVE  HandlerTrue(hd') /\ hd'.works = h.works /\ hd'.best = h.best
<1> DEFINE m == makeStratumJobMsg(h)
           id == nextId(h.gen)
           f == [h EXCEPT !.gen = id, !.last = Best(h.works)]
           g == [h EXCEPT !.gen = id]
<1>1. hd' = m.h
  BY ZenonT(60) DEF produceStratumJob
<1>2. m.h \in {h, f, g}
  BY ZenonT(60) DEF makeStratumJobMsg, Made, NotMade
<1> HIDE DEF m, id
<1>3. HandlerFields \subseteq DOMAIN h /\ h.works \subseteq Work /\ h.best \in Nat
  BY ZenonT(60) DEF HandlerTrue
<1>4. HandlerTrue(f) /\ f.works = h.works /\ f.best = h.best
  <2>1. /\ DOMAIN f = DOMAIN h /\ f.works = h.works /\ f.best = h.best
        /\ f.nmc = h.nmc /\ f.cur = h.cur /\ f.prev = h.prev
    BY <1>3, ZenonT(60) DEF HandlerFields
  <2> QED
    BY <1>3, <2>1, SameHandler, ZenonT(60)
<1>5. HandlerTrue(g) /\ g.works = h.works /\ g.best = h.best
  <2>1. /\ DOMAIN g = DOMAIN h /\ g.works = h.works /\ g.best = h.best
        /\ g.nmc = h.nmc /\ g.cur = h.cur /\ g.prev = h.prev
    BY <1>3, ZenonT(60) DEF HandlerFields
  <2> QED
    BY <1>3, <2>1, SameHandler, ZenonT(60)
<1> QED
  BY <1>1, <1>2, <1>4, <1>5, ZenonT(60)

\* What follows a message, whether a job is sent or not
LEMMA AfterBitcoin ==
  ASSUME NEW r, HandlerTrue(r.h), config.coin = "bitcoin", job = None \/ JobTrue(job),
         HeightSent(config, r.h) => JobOfBest(r.h, job),
         ~r.yes => (HeightSent(config, r.h) => Covers(r.h, job)),
         NEW e \in [Heights -> 0 .. MaxAge], KeepsHeard(r.h, e), AfterMessage(r)
  PROVE  /\ HandlerTrue(hd') /\ BitcoinInv(config, hd', job', e)
         /\ job' = job \/ (JobTrue(job') /\ \A k \in Heights : e[k] < GbtLife => k <= job'.height)
<1>1. CASE r.yes \/ lastJobTime > JobInterval
  <2>1. produceStratumJob(r.h)
    BY <1>1, ZenonT(60) DEF AfterMessage
  <2> QED
    BY <2>1, SentBitcoin, ZenonT(60)
<1>2. CASE ~(r.yes \/ lastJobTime > JobInterval)
  <2>1. hd' = r.h /\ job' = job
    BY <1>2, ZenonT(60) DEF AfterMessage
  <2> QED
    BY <1>2, <2>1, ZenonT(60) DEF BitcoinInv
<1> QED
  BY <1>1, <1>2, ZenonT(60)

\* The same for the coins whose handler remembers no empty job
LEMMA AfterOther ==
  ASSUME NEW r, HandlerTrue(r.h), config.coin # "bitcoin", AfterMessage(r)
  PROVE  HandlerTrue(hd') /\ hd'.works = r.h.works /\ hd'.best = r.h.best
<1>1. CASE r.yes \/ lastJobTime > JobInterval
  BY <1>1, SentOther, ZenonT(60) DEF AfterMessage
<1>2. CASE ~(r.yes \/ lastJobTime > JobInterval)
  BY <1>2, ZenonT(60) DEF AfterMessage
<1> QED
  BY <1>1, <1>2, ZenonT(60)

\* The steps of the nodes and the makers leave the job maker alone.
LEMMA StillMaking ==
  ASSUME MakerInv, UNCHANGED <<config, makingVars>>, NodesTrue', TopicsTrue'
  PROVE  MakerInv'
<1>1. hd' = hd /\ job' = job /\ heard' = heard /\ phase' = phase /\ config' = config
  BY ZenonT(60) DEF makingVars
<1>2. HandlerTrue(hd') /\ heard' \in [Heights -> 0 .. MaxAge]
  BY <1>1, ZenonT(60) DEF MakerInv, Types
<1>3. Types'
  BY <1>2, ZenonT(60) DEF Types, HandlerTrue
<1>4. /\ phase' = "pre-consuming" => config'.coin = "bitcoin" /\ hd'.best = 0
      /\ config'.coin = "bitcoin" => BitcoinInv(config', hd', job', heard')
      /\ config'.coin = "eth" => EthInv(hd')
  BY <1>1, ZenonT(60) DEF MakerInv
<1> QED
  BY <1>3, <1>4, ZenonT(60) DEF MakerInv, BitcoinInv, EthInv, HeightSent, JobTrue, JobOfBest,
    Covers, KeepsHeard

\* The makers put works in the topic of works, and merged mined works in theirs.
LEMMA MakersKeep ==
  ASSUME MakerInv, makerSteps
  PROVE  MakerInv'
<1>1. NodesTrue /\ TopicsTrue
  BY ZenonT(60) DEF MakerInv, Types
<1>2. ASSUME NEW n \in Nodes, NEW t \in {"poll", "notify"}, submitRawGbtMsg(n, t)
      PROVE  MakerInv'
  <2>1. UNCHANGED <<config, makingVars, tip, rev, stamped, aux, auxLast>>
    BY <1>2, ZenonT(60) DEF submitRawGbtMsg
  <2>2. raw' \in Seq(Work) /\ rawLast' \in Work \cup {None}
    <3>1. CASE UNCHANGED <<raw, rawLast>>
      BY <1>1, <3>1, ZenonT(60) DEF TopicsTrue
    <3>2. CASE \E m \in RawMsgs(n) \ {None} : InTopic(m)
      <4>1. PICK m \in RawMsgs(n) \ {None} : InTopic(m)
        BY <3>2, ZenonT(60)
      <4>2. m \in Work
        BY <1>1, RawMsgTypes, ZenonT(60)
      <4> QED
        BY <1>1, <4>1, <4>2 DEF InTopic, TopicsTrue
    <3> QED
      BY <1>2, <3>1, <3>2, ZenonT(60) DEF submitRawGbtMsg
  <2>3. NodesTrue' /\ TopicsTrue'
    BY <1>1, <2>1, <2>2, ZenonT(60) DEF NodesTrue, TopicsTrue, AuxOrNone, IsAux
  <2> QED
    BY <2>1, <2>3, StillMaking, ZenonT(60)
<1>3. ASSUME NEW n \in Nodes, NEW t \in {"poll", "notify"}, submitRawGwMsg(n, t)
      PROVE  MakerInv'
  <2>1. UNCHANGED <<config, makingVars, tip, rev, raw, rawLast, aux, auxLast>>
    BY <1>3, ZenonT(60) DEF submitRawGwMsg, topicVars
  <2>2. stamped' \in [Threads -> Work \cup {None}]
    <3>1. PICK m \in RawMsgs(n) \ {None} : stamped' = [stamped EXCEPT ![<<n, t>>] = m]
      BY <1>3, ZenonT(60) DEF submitRawGwMsg
    <3>2. m \in Work
      BY <1>1, RawMsgTypes, ZenonT(60)
    <3> QED
      BY <1>1, <3>1, <3>2, ZenonT(60) DEF TopicsTrue
  <2>3. NodesTrue' /\ TopicsTrue'
    BY <1>1, <2>1, <2>2, ZenonT(60) DEF NodesTrue, TopicsTrue, AuxOrNone, IsAux
  <2> QED
    BY <2>1, <2>3, StillMaking, ZenonT(60)
<1>4. ASSUME NEW n \in Nodes, NEW t \in {"poll", "notify"}, getRawMsgFails(n, t)
      PROVE  MakerInv'
  <2>1. UNCHANGED <<config, makingVars, tip, rev, stamped, raw, rawLast, aux, auxLast>>
    BY <1>4, ZenonT(60) DEF getRawMsgFails, topicVars
  <2>2. NodesTrue' /\ TopicsTrue'
    BY <1>1, <2>1, ZenonT(60) DEF NodesTrue, TopicsTrue, AuxOrNone, IsAux
  <2> QED
    BY <2>1, <2>2, StillMaking, ZenonT(60)
<1>5. ASSUME NEW th \in Threads, kafkaProduceMsg(th)
      PROVE  MakerInv'
  <2>1. UNCHANGED <<config, makingVars, tip, rev, aux, auxLast>>
    BY <1>5, ZenonT(60) DEF kafkaProduceMsg, nodeVars
  <2>2. stamped[th] \in Work
    BY <1>1, <1>5, ZenonT(60) DEF TopicsTrue, kafkaProduceMsg
  <2>3. raw' \in Seq(Work) /\ rawLast' \in Work \cup {None}
    <3>1. InTopic(stamped[th]) \/ UNCHANGED <<raw, rawLast>>
      BY <1>5, ZenonT(60) DEF kafkaProduceMsg
    <3>2. CASE InTopic(stamped[th])
      BY <1>1, <2>2, <3>2 DEF InTopic, TopicsTrue
    <3>3. CASE UNCHANGED <<raw, rawLast>>
      BY <1>1, <3>3, ZenonT(60) DEF TopicsTrue
    <3> QED
      BY <3>1, <3>2, <3>3, ZenonT(60)
  <2>4. stamped' \in [Threads -> Work \cup {None}]
    BY <1>1, <1>5, ZenonT(60) DEF kafkaProduceMsg, TopicsTrue
  <2>5. NodesTrue' /\ TopicsTrue'
    BY <1>1, <2>1, <2>3, <2>4, ZenonT(60) DEF NodesTrue, TopicsTrue, AuxOrNone, IsAux
  <2> QED
    BY <2>1, <2>5, StillMaking, ZenonT(60)
<1>6. CASE submitAuxblockMsg
  <2>1. UNCHANGED <<config, makingVars, tip, rev, stamped, raw, rawLast>>
    BY <1>6, ZenonT(60) DEF submitAuxblockMsg, nodeVars, makerVars
  <2>2. IsAux(AuxWork(auxTip))
    BY ZenonT(60) DEF IsAux, AuxWork, AuxFields
  <2>3. aux' = Append(aux, AuxWork(auxTip)) /\ auxLast' = AuxWork(auxTip)
    BY <1>6, ZenonT(60) DEF submitAuxblockMsg
  <2> DEFINE x == AuxWork(auxTip)
  <2> HIDE DEF x
  <2>4. PICK S : aux \in Seq(S)
    BY <1>1, ZenonT(60) DEF TopicsTrue
  <2>5. aux \in Seq(S \cup {x}) /\ aux' = Append(aux, x)
    BY <2>3, <2>4 DEF x
  <2>6. aux' \in Seq(S \cup {x})
    BY <2>5
  <2>7. ASSUME NEW i \in DOMAIN aux' PROVE IsAux(aux'[i])
    <3>1. \A j \in DOMAIN aux : IsAux(aux[j])
      BY <1>1, ZenonT(60) DEF TopicsTrue
    <3>2. (i \in DOMAIN aux /\ aux'[i] = aux[i]) \/ aux'[i] = x
      BY <2>5
    <3> QED
      BY <2>2, <3>1, <3>2, ZenonT(60) DEF x
  <2>8. /\ \E T : aux' \in Seq(T)
        /\ \A i \in DOMAIN aux' : IsAux(aux'[i])
        /\ AuxOrNone(auxLast')
    BY <2>2, <2>3, <2>6, <2>7, ZenonT(60) DEF AuxOrNone
  <2>9. /\ stamped' \in [Threads -> Work \cup {None}]
        /\ raw' \in Seq(Work) /\ rawLast' \in Work \cup {None}
    BY <1>1, <2>1, ZenonT(60) DEF TopicsTrue
  <2>10. NodesTrue' /\ TopicsTrue'
    BY <1>1, <2>1, <2>8, <2>9, ZenonT(60) DEF NodesTrue, TopicsTrue, AuxOrNone, IsAux
  <2> QED
    BY <2>1, <2>10, StillMaking, ZenonT(60)
<1> QED
  BY <1>2, <1>3, <1>4, <1>5, <1>6, ZenonT(60) DEF makerSteps

\* A node never works above the bound of its heights.
LEMMA NodesKeep ==
  ASSUME MakerInv, NEW n \in Nodes, NodeBlock(n) \/ NodeRefresh(n)
  PROVE  MakerInv'
<1>1. NodesTrue /\ TopicsTrue
  BY ZenonT(60) DEF MakerInv, Types
<1>2. UNCHANGED <<config, makingVars, stamped, raw, rawLast, aux, auxLast>>
  BY ZenonT(60) DEF NodeBlock, NodeRefresh, makerVars, topicVars
<1>3. TopicsTrue'
  BY <1>1, <1>2, ZenonT(60) DEF TopicsTrue, AuxOrNone, IsAux
<1>4. NodesTrue'
  <2>1. config.maxHeight[n] \in 1 .. MaxHeight /\ config.maxRev \in 0 .. 1 /\ MaxHeight \in Nat
        /\ tip \in [Nodes -> 1 .. MaxHeight] /\ rev \in [Nodes -> 0 .. 1]
    BY <1>1, ConfigFacts, TimesAssumption, ZenonT(60) DEF NodesTrue, Heights
  <2>2. CASE NodeBlock(n)
    BY <1>1, <1>2, <2>1, <2>2 DEF NodesTrue, Heights, NodeBlock
  <2>3. CASE NodeRefresh(n)
    BY <1>1, <1>2, <2>1, <2>3 DEF NodesTrue, Heights, NodeRefresh
  <2> QED
    BY <2>2, <2>3, ZenonT(60)
<1> QED
  BY <1>2, <1>3, <1>4, StillMaking, ZenonT(60)

\* A job that is sent is as high as every height of which a template with
\* transactions was received within its life time.
AsHighAsHeard ==
  config.coin = "bitcoin" =>
    job' = job \/ (JobTrue(job') /\ \A k \in Heights : heard[k] < GbtLife => k <= job'.height)

\* The loop, after what it does with a message
LEMMA LoopKeeps ==
  ASSUME MakerInv, phase = "up", UNCHANGED <<config, phase>>, NodesTrue', TopicsTrue',
         NEW r, HandlerTrue(r.h), AfterMessage(r), heard' \in [Heights -> 0 .. MaxAge],
         config.coin = "bitcoin" =>
           /\ r.h.best = hd.best /\ r.h.lastEmpty = hd.lastEmpty
           /\ hd.works \subseteq r.h.works
           /\ ~r.yes => r.h.works = hd.works
           /\ KeepsHeard(r.h, heard'),
         config.coin = "eth" => EthInv(r.h)
  PROVE  MakerInv' /\ AsHighAsHeard
<1>1. CASE config.coin = "bitcoin"
  <2>1. /\ job = None \/ JobTrue(job)
        /\ HeightSent(config, hd) => JobOfBest(hd, job) /\ Covers(hd, job)
        /\ KeepsHeard(hd, heard) /\ heard \in [Heights -> 0 .. MaxAge]
    BY <1>1, ZenonT(60) DEF MakerInv, BitcoinInv, Types
  <2>2. HeightSent(config, r.h) => JobOfBest(r.h, job)
    BY <1>1, <2>1, ZenonT(60) DEF JobOfBest, HeightSent
  <2>3. ~r.yes => (HeightSent(config, r.h) => Covers(r.h, job))
    BY <1>1, <2>1, ZenonT(60) DEF Covers, HeightSent
  <2>4. KeepsHeard(r.h, heard)
    BY <1>1, <2>1, ZenonT(60) DEF KeepsHeard
  <2>5. HandlerTrue(hd') /\ BitcoinInv(config', hd', job', heard')
    BY <1>1, <2>1, <2>2, <2>3, AfterBitcoin, ZenonT(60)
  <2>6. job' = job \/ (JobTrue(job') /\ \A k \in Heights : heard[k] < GbtLife => k <= job'.height)
    BY <1>1, <2>1, <2>2, <2>3, <2>4, AfterBitcoin, ZenonT(60)
  <2>7. Types'
    BY <2>5, ZenonT(60) DEF Types, HandlerTrue
  <2>8. config'.coin = "bitcoin" /\ phase' # "pre-consuming" /\ config'.coin # "eth"
    BY <1>1, ZenonT(60)
  <2> QED
    BY <2>5, <2>6, <2>7, <2>8, ZenonT(60)
    DEF AsHighAsHeard, MakerInv, BitcoinInv, HeightSent, JobTrue, JobOfBest,
    Covers, KeepsHeard
<1>2. CASE config.coin # "bitcoin"
  <2>1. HandlerTrue(hd') /\ hd'.works = r.h.works /\ hd'.best = r.h.best
    BY <1>2, AfterOther, ZenonT(60)
  <2>2. Types'
    BY <2>1, ZenonT(60) DEF Types, HandlerTrue
  <2>3. config'.coin # "bitcoin" /\ phase' # "pre-consuming"
    BY <1>2, ZenonT(60)
  <2>4. config'.coin = "eth" => EthInv(hd')
    BY <2>1, ZenonT(60) DEF EthInv
  <2> QED
    BY <1>2, <2>2, <2>3, <2>4, ZenonT(60) DEF AsHighAsHeard, MakerInv, EthInv
<1> QED
  BY <1>1, <1>2, ZenonT(60)

\* The greatest height of Ethereum's works goes up with a higher work.
LEMMA TakenWork ==
  ASSUME NEW h, HandlerTrue(h), NEW w \in Work, config.coin = "eth", EthInv(h)
  PROVE  EthInv(processMsg(h, w).h)
<1>1. HandlerFields \subseteq DOMAIN h /\ h.works \subseteq Work /\ h.best \in Nat
  BY ZenonT(60) DEF HandlerTrue
<1>2. w.height \in Nat /\ \A v \in h.works : v.height \in Nat
  BY <1>1, TimesAssumption DEF Work, Heights
<1> DEFINE works == IF \E v \in h.works : Key(v) = Key(w) THEN h.works ELSE h.works \union {w}
           left == KeepOne(works, ExpiredWorks(works))
           kept == [h EXCEPT !.works = left]
           g == [kept EXCEPT !.best = w.height]
<1>3. processMsg(h, w).h = h \/ processMsg(h, w).h = IF w.height > h.best THEN g ELSE kept
  BY ZenonT(60) DEF processMsg, processMsgEth, Result
<1>4. works \subseteq h.works \cup {w} /\ works \subseteq Work
  BY <1>1, ZenonT(60)
<1> HIDE DEF works
<1>5. left \subseteq works
  BY <1>4, KeepOneFacts, ZenonT(60) DEF ExpiredWorks
<1> HIDE DEF left
<1>6. kept.works = left /\ kept.best = h.best /\ g.works = left /\ g.best = w.height
  BY <1>1, ZenonT(60) DEF HandlerFields
<1> HIDE DEF kept, g
<1>7. left \subseteq h.works \cup {w}
  BY <1>4, <1>5, ZenonT(60)
<1>8. w.height > h.best => EthInv(g)
  BY <1>2, <1>1, <1>6, <1>7 DEF EthInv
<1>9. ~(w.height > h.best) => EthInv(kept)
  BY <1>2, <1>1, <1>6, <1>7 DEF EthInv
<1> QED
  BY <1>3, <1>8, <1>9, ZenonT(60)

\* What is left of a topic when its first message is taken
LEMMA TakenRaw ==
  ASSUME TopicsTrue, raw # <<>>
  PROVE  Head(raw) \in Work /\ Tail(raw) \in Seq(Work)
BY DEF TopicsTrue

\* The same for the topic of the merged mined chains
LEMMA TakenAux ==
  ASSUME TopicsTrue, aux # <<>>
  PROVE  /\ IsAux(Head(aux))
         /\ \E S : Tail(aux) \in Seq(S)
         /\ \A i \in DOMAIN Tail(aux) : IsAux(Tail(aux)[i])
<1>1. PICK S : aux \in Seq(S)
  BY ZenonT(60) DEF TopicsTrue
<1>2. \A i \in DOMAIN aux : IsAux(aux[i])
  BY ZenonT(60) DEF TopicsTrue
<1>3. Tail(aux) \in Seq(S) /\ 1 \in DOMAIN aux /\ Head(aux) = aux[1]
  BY <1>1
<1>4. ASSUME NEW i \in DOMAIN Tail(aux) PROVE i + 1 \in DOMAIN aux /\ Tail(aux)[i] = aux[i + 1]
  BY <1>1, <1>3
<1> QED
  BY <1>2, <1>3, <1>4, ZenonT(60)

\* The merged mined chains that there are messages of
Merged == aux # <<>> \/ auxLast # None => config.aux \in {"nmc", "rsk", "vcash"}

\* A message that is consumed, with the job that may be sent for it, keeps the invariant.
LEMMA ConsumersKeep ==
  ASSUME MakerInv, Merged,
         consumeKafkaMsg \/ consumeAuxMsg \/ consumeError \/ consumeTimeout
  PROVE  MakerInv' /\ AsHighAsHeard
<1>1. NodesTrue /\ TopicsTrue /\ HandlerTrue(hd) /\ heard \in [Heights -> 0 .. MaxAge]
  BY ZenonT(60) DEF MakerInv, Types
<1>2. /\ config.coin = "bitcoin" => KeepsHeard(hd, heard)
      /\ config.coin = "eth" => EthInv(hd)
      /\ config \in Configs
  BY <1>1, ZenonT(60) DEF MakerInv, BitcoinInv, NodesTrue
<1>3. CASE consumeKafkaMsg
  <2> DEFINE w == Head(raw)
             r == processMsg(hd, w)
  <2>1. /\ phase = "up" /\ UNCHANGED <<config, phase, tip, rev, stamped, rawLast, aux, auxLast>>
        /\ raw # <<>> /\ raw' = Tail(raw) /\ heard' = Heard(hd, w) /\ AfterMessage(r)
    BY <1>3, ZenonT(60) DEF consumeKafkaMsg, nodeVars, makerVars
  <2>2. w \in Work /\ raw' \in Seq(Work)
    BY <1>1, <2>1, TakenRaw, ZenonT(60)
  <2>3. NodesTrue' /\ TopicsTrue'
    BY <1>1, <2>1, <2>2, ZenonT(60) DEF NodesTrue, TopicsTrue, AuxOrNone, IsAux
  <2>4. HandlerTrue(r.h)
    BY <1>1, <1>2, <2>2, processMsgTypes, ZenonT(60)
  <2>5. config.coin = "bitcoin" =>
          /\ r.h.best = hd.best /\ r.h.lastEmpty = hd.lastEmpty
          /\ hd.works \subseteq r.h.works
          /\ ~r.yes => r.h = hd
          /\ Heard(hd, w) \in [Heights -> 0 .. MaxAge]
          /\ KeepsHeard(r.h, Heard(hd, w))
    BY <1>1, <1>2, <2>2, TakenTemplate, ZenonT(60)
  <2>6. config.coin = "eth" => EthInv(r.h)
    BY <1>1, <1>2, <2>2, TakenWork, ZenonT(60)
  <2>7. heard' \in [Heights -> 0 .. MaxAge]
    BY <1>1, <2>1, <2>5, ZenonT(60) DEF Heard
  <2> HIDE DEF r, w
  <2>8. config.coin = "bitcoin" =>
          /\ r.h.best = hd.best /\ r.h.lastEmpty = hd.lastEmpty
          /\ hd.works \subseteq r.h.works
          /\ ~r.yes => r.h.works = hd.works
          /\ KeepsHeard(r.h, heard')
    BY <2>1, <2>5, ZenonT(60)
  <2> QED
    BY <2>1, <2>3, <2>4, <2>6, <2>7, <2>8, LoopKeeps, ZenonT(60)
<1>4. CASE consumeAuxMsg
  <2> DEFINE r == processAuxMsg(hd, Head(aux))
  <2>1. /\ phase = "up" /\ UNCHANGED <<config, phase, tip, rev, stamped, raw, rawLast, auxLast>>
        /\ aux # <<>> /\ aux' = Tail(aux) /\ heard' = heard /\ AfterMessage(r)
    BY <1>4, ZenonT(60) DEF consumeAuxMsg, nodeVars, makerVars
  <2>2. IsAux(Head(aux)) /\ (\E S : aux' \in Seq(S)) /\ \A i \in DOMAIN aux' : IsAux(aux'[i])
    BY <1>1, <2>1, TakenAux, ZenonT(60)
  <2>3. NodesTrue' /\ TopicsTrue'
    BY <1>1, <2>1, <2>2, ZenonT(60) DEF NodesTrue, TopicsTrue, AuxOrNone, IsAux
  <2>4. /\ HandlerTrue(r.h) /\ r.h.works = hd.works /\ r.h.best = hd.best
        /\ r.h.lastEmpty = hd.lastEmpty
    BY <1>1, <2>1, <2>2, processAuxMsgTypes, ZenonT(60) DEF Merged
  <2> HIDE DEF r
  <2>5. config.coin = "bitcoin" => KeepsHeard(r.h, heard')
    BY <1>2, <2>1, <2>4, ZenonT(60) DEF KeepsHeard
  <2>6. config.coin = "eth" => EthInv(r.h)
    BY <1>2, <2>4, ZenonT(60) DEF EthInv
  <2> QED
    BY <1>1, <2>1, <2>3, <2>4, <2>5, <2>6, LoopKeeps, ZenonT(60)
<1>5. ASSUME NEW r, AfterMessage(r), HandlerTrue(r.h), r.h.best = hd.best,
             r.h.lastEmpty = hd.lastEmpty,
             r.h.works = hd.works \/ config.coin \notin {"bitcoin", "eth"}, phase = "up",
             UNCHANGED <<config, phase, tip, rev, stamped, raw, rawLast, aux, auxLast, heard>>
      PROVE  MakerInv' /\ AsHighAsHeard
  <2>1. NodesTrue' /\ TopicsTrue'
    BY <1>1, <1>5, ZenonT(60) DEF NodesTrue, TopicsTrue, AuxOrNone, IsAux
  <2>2. config.coin = "bitcoin" => r.h.works = hd.works /\ KeepsHeard(r.h, heard')
    BY <1>2, <1>5, ZenonT(60) DEF KeepsHeard
  <2>3. config.coin = "eth" => EthInv(r.h)
    BY <1>2, <1>5, ZenonT(60) DEF EthInv
  <2> QED
    BY <1>1, <1>5, <2>1, <2>2, <2>3, LoopKeeps, ZenonT(60)
<1>6. CASE consumeError
  <2>1. PICK r \in {Result(hd, FALSE), processUnreadable(hd)} : AfterMessage(r)
    BY <1>6, ZenonT(60) DEF consumeError
  <2>2. /\ phase = "up"
        /\ UNCHANGED <<config, phase, tip, rev, stamped, raw, rawLast, aux, auxLast, heard>>
    BY <1>6, ZenonT(60) DEF consumeError, nodeVars, makerVars, topicVars
  <2>3. /\ HandlerTrue(r.h) /\ r.h.best = hd.best /\ r.h.lastEmpty = hd.lastEmpty
        /\ r.h.works = hd.works \/ config.coin \notin {"bitcoin", "eth"}
    BY <1>1, UnreadableTypes, ZenonT(60)
  <2> QED
    BY <1>5, <2>1, <2>2, <2>3, ZenonT(60)
<1>7. CASE consumeTimeout
  <2>1. AfterMessage(Result(hd, TRUE))
    BY <1>7, ZenonT(60) DEF consumeTimeout, AfterMessage, Result
  <2>2. /\ phase = "up"
        /\ UNCHANGED <<config, phase, tip, rev, stamped, raw, rawLast, aux, auxLast, heard>>
    BY <1>7, ZenonT(60) DEF consumeTimeout, nodeVars, makerVars, topicVars
  <2>3. Result(hd, TRUE).h = hd
    BY ZenonT(60) DEF Result
  <2> QED
    BY <1>1, <1>5, <2>1, <2>2, <2>3, ZenonT(60)
<1> QED
  BY <1>3, <1>4, <1>6, <1>7, ZenonT(60)

\* A handler that was just made has no work, and remembers no height.
LEMMA NewHandler ==
  /\ HandlerTrue(HandlerInit) /\ HandlerInit.best = 0 /\ HandlerInit.works = {}
  /\ \A r \in [Heights -> 0 .. MaxAge] :
       (\A k \in Heights : r[k] = Long) => KeepsHeard(HandlerInit, r)
  /\ [k \in Heights |-> Long] \in [Heights -> 0 .. MaxAge]
<1>1. /\ HandlerFields \subseteq DOMAIN HandlerInit /\ HandlerInit.best = 0
      /\ HandlerInit.works = {} /\ HandlerInit.nmc = None /\ HandlerInit.cur = None
      /\ HandlerInit.prev = None
  BY ZenonT(60) DEF HandlerInit, HandlerFields
<1>2. HandlerTrue(HandlerInit)
  BY <1>1 DEF HandlerTrue, AuxOrNone
<1>3. MaxAge \in Nat /\ ~(MaxAge < GbtLife)
  BY TimesAssumption
<1>4. \A r \in [Heights -> 0 .. MaxAge] :
        (\A k \in Heights : r[k] = Long) => KeepsHeard(HandlerInit, r)
  BY <1>3, ZenonT(60) DEF KeepsHeard, Long
<1> QED
  BY <1>1, <1>2, <1>3, <1>4 DEF Long

\* A start, the messages before the first job, and a crash
LEMMA StartKeeps ==
  ASSUME MakerInv, Merged, initConsumerHandlers \/ preConsume \/ Crash
  PROVE  MakerInv' /\ job' = job
<1>1. NodesTrue /\ TopicsTrue /\ HandlerTrue(hd) /\ heard \in [Heights -> 0 .. MaxAge]
  BY ZenonT(60) DEF MakerInv, Types
<1>2. /\ config.coin = "bitcoin" => BitcoinInv(config, hd, job, heard) /\ KeepsHeard(hd, heard)
      /\ config.coin = "eth" => EthInv(hd)
      /\ phase = "pre-consuming" => config.coin = "bitcoin" /\ hd.best = 0
      /\ config \in Configs
  BY <1>1, ZenonT(60) DEF MakerInv, BitcoinInv, NodesTrue
<1>3. CASE initConsumerHandlers
  <2>1. /\ UNCHANGED <<config, tip, rev, stamped, rawLast, auxLast, job>>
        /\ hd' = HandlerInit /\ heard' = [k \in Heights |-> Long]
        /\ raw' = LastOf(rawLast) /\ aux' = LastOf(auxLast)
        /\ phase' = IF config.coin = "bitcoin" THEN "pre-consuming" ELSE "up"
    BY <1>3, ZenonT(60) DEF initConsumerHandlers, nodeVars, makerVars
  <2>2. raw' \in Seq(Work)
    BY <1>1, <2>1 DEF TopicsTrue, LastOf
  <2>3. aux' \in Seq({auxLast}) /\ \A i \in DOMAIN aux' : IsAux(aux'[i])
    <3>1. CASE auxLast = None
      BY <2>1, <3>1 DEF LastOf
    <3>2. CASE auxLast # None
      <4>1. aux' = <<auxLast>> /\ IsAux(auxLast)
        BY <1>1, <2>1, <3>2, ZenonT(60) DEF LastOf, TopicsTrue, AuxOrNone
      <4> QED
        BY <4>1
    <3> QED
      BY <3>1, <3>2, ZenonT(60)
  <2>4. NodesTrue' /\ TopicsTrue'
    BY <1>1, <2>1, <2>2, <2>3, ZenonT(60) DEF NodesTrue, TopicsTrue, AuxOrNone, IsAux
  <2>5. /\ HandlerTrue(hd') /\ hd'.best = 0 /\ hd'.works = {} /\ KeepsHeard(hd', heard')
        /\ heard' \in [Heights -> 0 .. MaxAge]
    BY <2>1, NewHandler, ZenonT(60)
  <2>6. Types'
    BY <2>4, <2>5, ZenonT(60) DEF Types, HandlerTrue
  <2>7. phase' = "pre-consuming" => config'.coin = "bitcoin" /\ hd'.best = 0
    BY <2>1, <2>5, ZenonT(60)
  <2>8. config'.coin = "bitcoin" => BitcoinInv(config', hd', job', heard')
    BY <1>2, <2>1, <2>5 DEF BitcoinInv, HeightSent
  <2>9. EthInv(hd')
    BY <2>5, ZenonT(60) DEF EthInv
  <2> QED
    BY <2>1, <2>6, <2>7, <2>8, <2>9, ZenonT(60)
    DEF MakerInv, BitcoinInv, EthInv, HeightSent, JobTrue, JobOfBest,
    Covers, KeepsHeard
<1>4. CASE preConsume
  <2>1. /\ phase = "pre-consuming" /\ config.coin = "bitcoin" /\ hd.best = 0
        /\ UNCHANGED <<config, tip, rev, stamped, rawLast, auxLast, job>>
    BY <1>2, <1>4, ZenonT(60) DEF preConsume, nodeVars, makerVars
  <2>2. SUFFICES /\ raw' \in Seq(Work)
                 /\ \E S : aux' \in Seq(S)
                 /\ \A i \in DOMAIN aux' : IsAux(aux'[i])
                 /\ HandlerTrue(hd') /\ hd'.best = 0 /\ KeepsHeard(hd', heard')
                 /\ heard' \in [Heights -> 0 .. MaxAge]
    <3>1. NodesTrue' /\ TopicsTrue'
      BY <1>1, <2>1, <2>2, ZenonT(60) DEF NodesTrue, TopicsTrue, AuxOrNone, IsAux
    <3>2. Types'
      BY <2>2, <3>1, ZenonT(60) DEF Types, HandlerTrue
    <3>3. BitcoinInv(config', hd', job', heard')
      BY <1>2, <2>1, <2>2 DEF BitcoinInv, HeightSent
    <3>4. config'.coin = "bitcoin" /\ config'.coin # "eth"
      BY <2>1, ZenonT(60)
    <3> QED
      BY <2>1, <2>2, <3>2, <3>3, <3>4, ZenonT(60)
      DEF MakerInv, BitcoinInv, HeightSent, JobTrue, JobOfBest,
    Covers, KeepsHeard
  <2>3. /\ raw \in Seq(Work)
        /\ \E S : aux \in Seq(S)
        /\ \A i \in DOMAIN aux : IsAux(aux[i])
    BY <1>1, ZenonT(60) DEF TopicsTrue
  <2>4. CASE /\ raw # <<>> /\ hd' = processMsg(hd, Head(raw)).h
             /\ heard' = Heard(hd, Head(raw)) /\ raw' = Tail(raw) /\ aux' = aux
    <3>1. Head(raw) \in Work /\ raw' \in Seq(Work)
      BY <1>1, <2>4, TakenRaw, ZenonT(60)
    <3>2. HandlerTrue(hd')
      BY <1>1, <1>2, <2>4, <3>1, processMsgTypes, ZenonT(60)
    <3>3. /\ hd'.best = hd.best /\ heard' \in [Heights -> 0 .. MaxAge]
          /\ KeepsHeard(hd', heard')
      BY <1>1, <1>2, <2>1, <2>4, <3>1, TakenTemplate, ZenonT(60)
    <3> QED
      BY <2>1, <2>3, <2>4, <3>1, <3>2, <3>3, ZenonT(60)
  <2>5. CASE /\ aux # <<>> /\ hd' = processAuxMsg(hd, Head(aux)).h
             /\ aux' = Tail(aux) /\ UNCHANGED <<raw, heard>>
    <3>1. IsAux(Head(aux)) /\ (\E S : aux' \in Seq(S)) /\ \A i \in DOMAIN aux' : IsAux(aux'[i])
      BY <1>1, <2>5, TakenAux, ZenonT(60)
    <3>2. HandlerTrue(hd') /\ hd'.works = hd.works /\ hd'.best = hd.best
      BY <1>1, <2>5, <3>1, processAuxMsgTypes, ZenonT(60) DEF Merged
    <3>3. KeepsHeard(hd', heard')
      BY <1>2, <2>1, <2>5, <3>2, ZenonT(60) DEF KeepsHeard
    <3> QED
      BY <1>1, <2>1, <2>3, <2>5, <3>1, <3>2, <3>3, ZenonT(60)
  <2>6. CASE UNCHANGED <<raw, aux, hd, heard>>
    BY <1>1, <1>2, <2>1, <2>3, <2>6, ZenonT(60)
  <2> QED
    BY <1>4, <2>4, <2>5, <2>6, ZenonT(60) DEF preConsume
<1>5. CASE Crash
  <2>1. /\ UNCHANGED <<config, tip, rev, stamped, raw, rawLast, aux, auxLast, hd, job, heard>>
        /\ phase' = "down"
    BY <1>5, ZenonT(60) DEF Crash, nodeVars, makerVars, topicVars
  <2>2. NodesTrue' /\ TopicsTrue'
    BY <1>1, <2>1, ZenonT(60) DEF NodesTrue, TopicsTrue, AuxOrNone, IsAux
  <2>3. Types'
    BY <1>1, <2>1, <2>2, ZenonT(60) DEF Types, HandlerTrue
  <2>4. /\ config'.coin = "bitcoin" => BitcoinInv(config', hd', job', heard')
        /\ config'.coin = "eth" => EthInv(hd') /\ phase' # "pre-consuming"
    BY <1>2, <2>1, ZenonT(60)
  <2> QED
    BY <2>1, <2>3, <2>4, ZenonT(60)
    DEF MakerInv, BitcoinInv, EthInv, HeightSent, JobTrue, JobOfBest,
    Covers, KeepsHeard
<1> QED
  BY <1>3, <1>4, <1>5, ZenonT(60)

\* What a tick changes of a message, a work or a job: its age
LEMMA OlderWork ==
  ASSUME NEW w \in Work
  PROVE  /\ Older(w) \in Work /\ Older(w).height = w.height /\ Older(w).rev = w.rev
         /\ Older(w).age = Grown(w.age)
<1>1. w # None
  BY NoneAssumption, ZenonT(60)
<1>2. Older(w) = [w EXCEPT !.age = Grown(@)]
  BY <1>1, ZenonT(60) DEF Older
<1>3. Grown(w.age) \in 0 .. MaxAge
  BY TimesAssumption DEF Work, Grown
<1> QED
  BY <1>2, <1>3, ZenonT(60) DEF Work

\* The same for a block of a merged mined chain
LEMMA OlderAux ==
  ASSUME NEW m
  PROVE  (AuxOrNone(m) => AuxOrNone(Older(m))) /\ (m # None /\ IsAux(m) => IsAux(Older(m)))
         /\ (m # None /\ JobTrue(m) =>
               JobTrue(Older(m)) /\ Older(m).height = m.height /\ Older(m).empty = m.empty)
<1>1. CASE m = None
  BY <1>1, ZenonT(60) DEF Older, AuxOrNone
<1>2. CASE m # None
  <2> DEFINE o == [m EXCEPT !.age = Grown(@)]
  <2>1. Older(m) = o
    BY <1>2, ZenonT(60) DEF Older
  <2>2. IsAux(m) => IsAux(o)
    BY ZenonT(60) DEF IsAux, AuxFields
  <2>3. JobTrue(m) => JobTrue(o) /\ o.height = m.height /\ o.empty = m.empty
    BY ZenonT(60) DEF JobTrue
  <2> QED
    BY <1>2, <2>1, <2>2, <2>3, ZenonT(60) DEF AuxOrNone
<1> QED
  BY <1>1, <1>2, ZenonT(60)

\* Time passes alike for the templates and for what was heard.
LEMMA TickKeeps ==
  ASSUME MakerInv, Tick
  PROVE  MakerInv' /\ (config.coin = "bitcoin" /\ job # None => job'.height = job.height)
<1>1. NodesTrue /\ TopicsTrue /\ HandlerTrue(hd) /\ heard \in [Heights -> 0 .. MaxAge]
  BY ZenonT(60) DEF MakerInv, Types
<1>2. /\ config.coin = "bitcoin" => BitcoinInv(config, hd, job, heard)
      /\ config.coin = "eth" => EthInv(hd)
      /\ phase = "pre-consuming" => config.coin = "bitcoin" /\ hd.best = 0
  BY ZenonT(60) DEF MakerInv
<1>3. HandlerFields \subseteq DOMAIN hd /\ hd.works \subseteq Work /\ hd.best \in Nat
      /\ AuxOrNone(hd.nmc) /\ AuxOrNone(hd.cur) /\ AuxOrNone(hd.prev)
  BY <1>1, ZenonT(60) DEF HandlerTrue
<1>4. /\ UNCHANGED <<config, tip, rev, stamped>>
      /\ raw' = AllOlder(raw) /\ aux' = AllOlder(aux)
      /\ rawLast' = Older(rawLast) /\ auxLast' = Older(auxLast)
      /\ job' = Older(job) /\ heard' = [k \in Heights |-> Grown(heard[k])]
      /\ phase' = IF phase = "down" THEN "starting" ELSE phase
  BY ZenonT(60) DEF Tick, nodeVars
<1>5. /\ DOMAIN hd' = DOMAIN hd /\ hd'.works = {Older(w) : w \in hd.works}
      /\ hd'.best = hd.best /\ hd'.lastEmpty = hd.lastEmpty
      /\ hd'.nmc = Older(hd.nmc) /\ hd'.cur = Older(hd.cur) /\ hd'.prev = Older(hd.prev)
  <2> DEFINE e1 == {Older(w) : w \in hd.works}
             e2 == {Older(w) : w \in {v \in hd.latest : v.age < MaxDelay}}
             e3 == AllOlder(hd.byId)
             e4 == Grown(hd.lastSend)
             e5 == Older(hd.last)
             e6 == Older(hd.nmc)
             e7 == Older(hd.cur)
             e8 == Older(hd.prev)
             e9 == Older(hd.gen)
  <2>1. hd' = [hd EXCEPT !.works = e1, !.latest = e2, !.byId = e3, !.lastSend = e4, !.last = e5,
                         !.nmc = e6, !.cur = e7, !.prev = e8, !.gen = e9]
    BY ZenonT(60) DEF Tick
  <2> HIDE DEF e1, e2, e3, e4, e5, e6, e7, e8, e9
  <2>2. /\ DOMAIN hd' = DOMAIN hd /\ hd'.works = e1 /\ hd'.best = hd.best
        /\ hd'.lastEmpty = hd.lastEmpty /\ hd'.nmc = e6 /\ hd'.cur = e7 /\ hd'.prev = e8
    BY <1>3, <2>1, ZenonT(60) DEF HandlerFields
  <2> QED
    BY <2>2, ZenonT(60) DEF e1, e6, e7, e8
<1>6. hd'.works \subseteq Work
  BY <1>3, <1>5, OlderWork, ZenonT(60)
<1>7. HandlerTrue(hd')
  <2>1. AuxOrNone(hd'.nmc) /\ AuxOrNone(hd'.cur) /\ AuxOrNone(hd'.prev)
    BY <1>3, <1>5, OlderAux, ZenonT(60)
  <2> QED
    BY <1>3, <1>5, <1>6, <2>1, ZenonT(60) DEF HandlerTrue
<1>8. heard' \in [Heights -> 0 .. MaxAge]
  <2>1. ASSUME NEW k \in Heights PROVE Grown(heard[k]) \in 0 .. MaxAge
    BY <1>1, TimesAssumption DEF Grown
  <2> QED
    BY <1>4, <2>1, ZenonT(60)
<1>9. TopicsTrue'
  <2>1. raw' \in Seq(Work) /\ rawLast' \in Work \cup {None}
    <3>1. raw \in Seq(Work) /\ rawLast \in Work \cup {None}
      BY <1>1, ZenonT(60) DEF TopicsTrue
    <3>2. rawLast' \in Work \cup {None}
      BY <1>4, <3>1, OlderWork, ZenonT(60) DEF Older
    <3>3. \A i \in DOMAIN raw : Older(raw[i]) \in Work
      BY <3>1, OlderWork
    <3>4. raw' = [i \in DOMAIN raw |-> Older(raw[i])]
      BY <1>4, ZenonT(60) DEF AllOlder
    <3> QED
      BY <3>1, <3>2, <3>3, <3>4
  <2>2. (\E S : aux' \in Seq(S)) /\ \A i \in DOMAIN aux' : IsAux(aux'[i])
    <3>1. PICK S : aux \in Seq(S)
      BY <1>1, ZenonT(60) DEF TopicsTrue
    <3>2. \A i \in DOMAIN aux : IsAux(aux[i])
      BY <1>1, ZenonT(60) DEF TopicsTrue
    <3>3. aux' = [i \in DOMAIN aux |-> Older(aux[i])]
      BY <1>4, ZenonT(60) DEF AllOlder
    <3>4. aux' \in Seq({Older(aux[i]) : i \in DOMAIN aux})
      BY <3>1, <3>3
    <3>5. \A i \in DOMAIN aux' : IsAux(aux'[i])
      <4> SUFFICES ASSUME NEW i \in DOMAIN aux PROVE IsAux(Older(aux[i]))
        BY <3>3, ZenonT(60)
      <4>1. CASE aux[i] = None
        BY <3>2, <4>1, ZenonT(60) DEF Older
      <4>2. CASE aux[i] # None
        BY <3>2, <4>2, OlderAux, ZenonT(60)
      <4> QED
        BY <4>1, <4>2, ZenonT(60)
    <3> QED
      BY <3>4, <3>5, ZenonT(60)
  <2>3. AuxOrNone(auxLast')
    BY <1>1, <1>4, OlderAux, ZenonT(60) DEF TopicsTrue
  <2>4. stamped' \in [Threads -> Work \cup {None}]
    BY <1>1, <1>4, ZenonT(60) DEF TopicsTrue
  <2> QED
    BY <2>1, <2>2, <2>3, <2>4, ZenonT(60) DEF TopicsTrue, AuxOrNone, IsAux
<1>10. Types'
  BY <1>1, <1>4, <1>7, <1>8, <1>9, ZenonT(60) DEF Types, NodesTrue, HandlerTrue
<1>11. ASSUME config.coin = "bitcoin"
       PROVE  BitcoinInv(config', hd', job', heard') /\ (job # None => job'.height = job.height)
  <2>1. /\ job = None \/ JobTrue(job)
        /\ HeightSent(config, hd) => JobOfBest(hd, job) /\ Covers(hd, job)
        /\ KeepsHeard(hd, heard)
    BY <1>2, <1>11, ZenonT(60) DEF BitcoinInv
  <2>5. HeightSent(config', hd') = HeightSent(config, hd) /\ config' = config
    BY <1>4, <1>5, ZenonT(60) DEF HeightSent
  <2>2. KeepsHeard(hd', heard')
    <3> SUFFICES ASSUME NEW k \in Heights, heard'[k] < GbtLife
                 PROVE  \E w \in hd'.works : w.height = k /\ w.rev # 0 /\ w.age <= heard'[k]
      BY ZenonT(60) DEF KeepsHeard
    <3>1. /\ heard[k] \in 0 .. MaxAge /\ heard'[k] = Grown(heard[k]) /\ MaxAge \in Nat
          /\ GbtLife \in Nat
      BY <1>1, <1>4, TimesAssumption, ZenonT(60)
    <3>2. heard[k] < GbtLife
      BY <3>1 DEF Grown
    <3>3. PICK w \in hd.works : w.height = k /\ w.rev # 0 /\ w.age <= heard[k]
      BY <2>1, <3>2, ZenonT(60) DEF KeepsHeard
    <3>4. /\ Older(w) \in hd'.works /\ Older(w).height = k /\ Older(w).rev # 0
          /\ Older(w).age = Grown(w.age) /\ w.age \in 0 .. MaxAge
      BY <1>3, <1>5, <3>3, OlderWork, ZenonT(60) DEF Work
    <3>5. Older(w).age <= heard'[k]
      BY <3>1, <3>3, <3>4 DEF Grown
    <3> QED
      BY <3>4, <3>5, ZenonT(60)
  <2>3. CASE job = None
    <3>1. job' = None /\ job' = job
      BY <1>4, <2>3, ZenonT(60) DEF Older
    <3>2. HeightSent(config, hd') => JobOfBest(hd', job')
      BY <1>5, <2>1, <3>1, ZenonT(60) DEF JobOfBest, HeightSent
    <3>3. HeightSent(config, hd') => Covers(hd', job')
      BY <1>3, <1>5, <2>1, <2>5, <3>1, OlderWork DEF Covers
    <3> QED
      BY <2>2, <2>3, <2>5, <3>1, <3>2, <3>3, ZenonT(60) DEF BitcoinInv
  <2>4. CASE job # None
    <3>1. JobTrue(job)
      BY <2>1, <2>4, ZenonT(60)
    <3>2. JobTrue(job') /\ job'.height = job.height /\ job'.empty = job.empty
      BY <1>4, <2>4, <3>1, OlderAux, ZenonT(60)
    <3>3. HeightSent(config, hd') => JobOfBest(hd', job')
      BY <1>5, <2>1, <3>2, ZenonT(60) DEF JobOfBest, HeightSent
    <3>4. HeightSent(config, hd') => Covers(hd', job')
      BY <1>3, <1>5, <2>1, <2>5, <3>2, OlderWork DEF Covers
    <3> QED
      BY <2>2, <2>5, <3>2, <3>3, <3>4, ZenonT(60) DEF BitcoinInv
  <2> QED
    BY <2>3, <2>4, ZenonT(60)
<1>12. config.coin = "eth" => EthInv(hd')
  BY <1>2, <1>3, <1>5, OlderWork DEF EthInv
<1>13. phase' = "pre-consuming" => config.coin = "bitcoin" /\ hd'.best = 0
  BY <1>2, <1>4, <1>5, ZenonT(60)
<1> QED
  BY <1>4, <1>10, <1>11, <1>12, <1>13, ZenonT(60)
  DEF MakerInv, BitcoinInv, EthInv, HeightSent, JobTrue, JobOfBest,
    Covers, KeepsHeard

\* There are messages of a merged mined chain only when one is configured.
LEMMA MergedKeeps ==
  ASSUME MakerInv, Merged, [Next]_vars
  PROVE  Merged'
<1>1. config' = config
  BY ZenonT(60) DEF Next, makerSteps, loopSteps, startSteps, submitRawGbtMsg, submitRawGwMsg,
    getRawMsgFails, kafkaProduceMsg, submitAuxblockMsg, consumeKafkaMsg, consumeAuxMsg,
    consumeTimeout, consumeError, initConsumerHandlers, preConsume, Crash, NodeBlock,
    NodeRefresh, AuxBlock, Tick, vars
<1>2. CASE submitAuxblockMsg
  <2>1. config.aux \in {"none", "nmc", "rsk", "vcash"}
    BY ConfigsAssumption, ZenonT(60) DEF MakerInv, Types, NodesTrue
  <2> QED
    BY <1>1, <1>2, <2>1, ZenonT(60) DEF submitAuxblockMsg, Merged
<1>3. CASE UNCHANGED <<aux, auxLast>>
  BY <1>1, <1>3, ZenonT(60) DEF Merged
<1>4. CASE aux # <<>> /\ auxLast' = auxLast
  BY <1>1, <1>4, ZenonT(60) DEF Merged
<1>5. CASE initConsumerHandlers
  BY <1>1, <1>5, ZenonT(60) DEF initConsumerHandlers, LastOf, Merged
<1>6. CASE Tick
  <2>1. aux' = AllOlder(aux) /\ auxLast' = Older(auxLast)
    BY <1>6, ZenonT(60) DEF Tick
  <2>2. aux' # <<>> => aux # <<>>
    BY <2>1 DEF AllOlder
  <2>3. auxLast' # None => auxLast # None
    BY <2>1, ZenonT(60) DEF Older
  <2> QED
    BY <1>1, <2>2, <2>3, ZenonT(60) DEF Merged
<1> QED
  BY <1>2, <1>3, <1>4, <1>5, <1>6, ZenonT(60) DEF Next, makerSteps, loopSteps, startSteps,
    submitRawGbtMsg, submitRawGwMsg, getRawMsgFails, kafkaProduceMsg, consumeKafkaMsg,
    consumeAuxMsg, consumeTimeout, consumeError, preConsume, Crash, NodeBlock, NodeRefresh,
    AuxBlock, topicVars, vars

\* Before the first start there is no job, no work and no message.
LEMMA MakerInvInit ==
  ASSUME Init
  PROVE  MakerInv /\ Merged
<1>1. /\ config \in Configs /\ tip = [n \in Nodes |-> 1] /\ rev = [n \in Nodes |-> 0]
      /\ stamped = [th \in Threads |-> None] /\ raw = <<>> /\ rawLast = None
      /\ aux = <<>> /\ auxLast = None /\ phase = "starting" /\ hd = HandlerInit
      /\ job = None /\ heard = [k \in Heights |-> Long]
  BY ZenonT(60) DEF Init
<1>2. NodesTrue
  BY <1>1, TimesAssumption DEF NodesTrue, Heights
<1>3. TopicsTrue
  <2>1. aux \in Seq({})
    BY <1>1
  <2> QED
    BY <1>1, <2>1 DEF TopicsTrue, AuxOrNone
<1>4. /\ HandlerTrue(hd) /\ hd.best = 0 /\ hd.works = {} /\ KeepsHeard(hd, heard)
      /\ heard \in [Heights -> 0 .. MaxAge]
  BY <1>1, NewHandler, ZenonT(60)
<1>5. BitcoinInv(config, hd, job, heard) /\ EthInv(hd)
  BY <1>1, <1>4 DEF BitcoinInv, EthInv, HeightSent
<1>6. Merged
  BY <1>1, ZenonT(60) DEF Merged
<1> QED
  BY <1>1, <1>2, <1>3, <1>4, <1>5, <1>6, ZenonT(60) DEF MakerInv, Types

\* Every step keeps the invariant, and sends no job below what was heard.
LEMMA MakerInvNext ==
  ASSUME MakerInv, Merged, [Next]_vars
  PROVE  /\ MakerInv' /\ Merged'
         /\ \/ AsHighAsHeard
            \/ config.coin = "bitcoin" /\ job # None => job'.height = job.height
<1>1. CASE makerSteps
  <2>1. job' = job
    BY <1>1, ZenonT(60) DEF makerSteps, submitRawGbtMsg, submitRawGwMsg, getRawMsgFails,
      kafkaProduceMsg, submitAuxblockMsg, makingVars
  <2> QED
    BY <1>1, <2>1, MakersKeep, MergedKeeps, ZenonT(60) DEF AsHighAsHeard
<1>2. CASE loopSteps \/ consumeError
  BY <1>2, ConsumersKeep, MergedKeeps, ZenonT(60) DEF loopSteps
<1>3. CASE startSteps \/ Crash
  BY <1>3, StartKeeps, MergedKeeps, ZenonT(60) DEF startSteps, AsHighAsHeard
<1>4. ASSUME NEW n \in Nodes, NodeBlock(n) \/ NodeRefresh(n)
      PROVE  MakerInv' /\ AsHighAsHeard
  <2>1. job' = job
    BY <1>4, ZenonT(60) DEF NodeBlock, NodeRefresh, makingVars
  <2> QED
    BY <1>4, <2>1, NodesKeep, ZenonT(60) DEF AsHighAsHeard
<1>5. CASE AuxBlock
  <2>1. UNCHANGED <<config, makingVars, tip, rev, stamped, raw, rawLast, aux, auxLast>>
    BY <1>5, ZenonT(60) DEF AuxBlock, makerVars, topicVars
  <2>2. NodesTrue' /\ TopicsTrue' /\ job' = job
    BY <2>1, ZenonT(60) DEF MakerInv, Types, NodesTrue, TopicsTrue, AuxOrNone, IsAux, makingVars
  <2> QED
    BY <2>1, <2>2, StillMaking, MergedKeeps, ZenonT(60) DEF AsHighAsHeard
<1>6. CASE Tick
  BY <1>6, TickKeeps, MergedKeeps, ZenonT(60)
<1>7. CASE UNCHANGED vars
  <2>1. UNCHANGED <<config, makingVars, tip, rev, stamped, raw, rawLast, aux, auxLast>>
    BY <1>7, ZenonT(60) DEF vars, nodeVars, makerVars, topicVars
  <2>2. NodesTrue' /\ TopicsTrue' /\ job' = job
    BY <2>1, ZenonT(60) DEF MakerInv, Types, NodesTrue, TopicsTrue, AuxOrNone, IsAux, makingVars
  <2> QED
    BY <2>1, <2>2, StillMaking, MergedKeeps, ZenonT(60) DEF AsHighAsHeard
<1> QED
  BY <1>1, <1>2, <1>3, <1>4, <1>5, <1>6, <1>7, MergedKeeps, ZenonT(60) DEF Next, loopSteps, startSteps

-----------------------------------------------------------------------------
(* Theorems *)

\* The inductive invariant of the job maker: the types, what the last job says of
\* the templates, and the templates that were heard of.
THEOREM MakerSafe == Spec => [](MakerInv /\ Merged)
<1>1. Init => MakerInv /\ Merged
  BY MakerInvInit, ZenonT(60)
<1>2. (MakerInv /\ Merged) /\ [Next]_vars => (MakerInv /\ Merged)'
  BY MakerInvNext, ZenonT(60)
<1> QED
  BY <1>1, <1>2, PTL DEF Spec

\* The best template is out, for all coins, nodes, times and heights: makeStratumJobMsg()
\* sends whenever the best template is higher than the last job, or has
\* transactions and the last job of its height has none; addRawGbt() only adds.
THEOREM BestJobIsOut == Spec => []BestIsOut
<1>1. MakerInv => BestIsOut
  <2> SUFFICES ASSUME MakerInv, phase = "up", hd.best > 0, hd.works # {}, job # None
               PROVE  LET b == Best(hd.works)
                      IN /\ config.coin = "bitcoin" /\ ~HeightRefused =>
                              /\ b.height <= job.height
                              /\ b.height = job.height /\ job.empty => isEmptyGbt(b)
                         /\ config.coin = "eth" => b.height <= hd.best
    BY ZenonT(60) DEF BestIsOut
  <2> DEFINE b == Best(hd.works)
  <2>1. b \in hd.works
    BY BestOf, ZenonT(60) DEF MakerInv, Types, HandlerTrue
  <2>2. config.coin = "bitcoin" /\ ~HeightRefused => JobOfBest(hd, job) /\ Covers(hd, job)
    BY ZenonT(60) DEF MakerInv, BitcoinInv, HeightSent, HeightRefused
  <2>3. config.coin = "eth" => EthInv(hd)
    BY ZenonT(60) DEF MakerInv
  <2> HIDE DEF b
  <2>4. config.coin = "bitcoin" /\ ~HeightRefused =>
          b.height <= job.height /\ (b.height = job.height /\ job.empty => isEmptyGbt(b))
    BY <2>1, <2>2, ZenonT(60) DEF JobOfBest, Covers, isEmptyGbt
  <2>5. config.coin = "eth" => b.height <= hd.best
    BY <2>1, <2>3, ZenonT(60) DEF EthInv
  <2> QED
    BY <2>4, <2>5, ZenonT(60) DEF b
<1> QED
  BY <1>1, MakerSafe, PTL

\* "The block height downs must past twice the time of stratumJobInterval_": no job
\* below a height that was heard of in the two last intervals is sent, as a
\* template with transactions lives for longer.
THEOREM HeightFallsOnlyLate == Spec => HeightFallsLate
<1> DEFINE Late ==
      config.coin = "bitcoin" /\ job # None /\ job'.height < job.height =>
        \A k \in Heights : k > job'.height => heard[k] >= 2 * JobInterval
<1>1. MakerInv /\ Merged /\ [Next]_vars => Late
  <2> SUFFICES ASSUME MakerInv, Merged, [Next]_vars, config.coin = "bitcoin", job # None,
                      job'.height < job.height, NEW k \in Heights, k > job'.height
               PROVE  heard[k] >= 2 * JobInterval
    BY ZenonT(60)
  <2>1. JobTrue(job) /\ heard \in [Heights -> 0 .. MaxAge]
    BY ZenonT(60) DEF MakerInv, BitcoinInv, Types
  <2>2. job.height \in Nat
    BY <2>1, TimesAssumption DEF JobTrue, Heights
  <2>3. job'.height # job.height
    BY <2>2
  <2>4. JobTrue(job') /\ \A n \in Heights : heard[n] < GbtLife => n <= job'.height
    BY <2>3, MakerInvNext, ZenonT(60) DEF AsHighAsHeard
  <2>5. job'.height \in Nat /\ k \in Nat /\ GbtLife \in Nat /\ JobInterval \in Nat
        /\ 2 * JobInterval <= GbtLife /\ heard[k] \in Nat
    BY <2>1, <2>4, TimesAssumption DEF JobTrue, Heights
  <2>6. ~(heard[k] < GbtLife)
    BY <2>4, <2>5
  <2> QED
    BY <2>5, <2>6
<1>2. MakerInv /\ Merged /\ [Next]_vars => [Late]_vars
  BY <1>1, ZenonT(60)
<1> QED
  BY <1>2, MakerSafe, PTL DEF Spec, HeightFallsLate

-----------------------------------------------------------------------------
(* The forms of a work *)

\* Ethereum: the gas used is a number where the limit is not 0, and a header that
\* is left out is not asked for.
LEMMA EthReadBack ==
  ASSUME NEW b, b.height \in Nat \ {0}, b.rev \in 0 .. 1
  PROVE  LET w == initFromGwEth(constructRawMsgEth(AnswerEth(b)))
         IN unserializeEth(serializeEth(w, 1)) = ReadBack(1, b.height, b)
<1> DEFINE r == AnswerEth(b)
           block == [parent |-> b.id, limit |-> 2, used |-> b.rev, uncles |-> b.rev,
                     transactions |-> b.rev]
           gas == (100 * b.rev) \div 2
           m == RawEth(r, b.height, block)
           w == initFromGwEth(m)
           j == serializeEth(w, 1)
<1>1. /\ Has(r, {"workNumber"}) /\ Has(r, {"workBlock"}) /\ Has(r, {"header"})
      /\ r.workNumber = b.height /\ r.workBlock = block /\ r.hHash = b
      /\ ~(b.height < 1) /\ gas \in Int /\ gas # None
  BY NoneAssumption DEF Has, AnswerEth
<1>2. constructRawMsgEth(r) = m
  BY <1>1, ZenonT(60) DEF constructRawMsgEth
<1>3. /\ {"created_at_ts", "rpcAddress", "parent", "target", "hHash", "sHash", "height",
           "uncles", "transactions", "gasUsedPercent"} \subseteq DOMAIN m
      /\ m.height = b.height /\ m.hHash = b
  <2> DEFINE msg == [created_at_ts |-> 0, rpcAddress |-> 1, parent |-> block.parent,
                     target |-> r.target, hHash |-> r.hHash, sHash |-> r.sHash,
                     height |-> b.height, uncles |-> block.uncles,
                     transactions |-> block.transactions, gasUsedPercent |-> gas,
                     header |-> r.header]
             out == {f \in {"gasUsedPercent", "header"} : msg[f] = None}
  <2>1. GasUsedPercent(block.used, block.limit) = gas
    BY DEF GasUsedPercent
  <2>2. m = Without(msg, out)
    BY <1>1, <2>1, ZenonT(60) DEF RawEth
  <2>3. m = [x \in DOMAIN msg \ out |-> msg[x]]
    BY <2>2, ZenonT(60) DEF Without, Restrict
  <2>4. out \subseteq {"header"}
    BY <1>1
  <2>5. /\ DOMAIN msg = {"created_at_ts", "rpcAddress", "parent", "target", "hHash", "sHash",
                         "height", "uncles", "transactions", "gasUsedPercent", "header"}
        /\ msg.height = b.height /\ msg.hHash = b
    BY <1>1, ZenonT(60)
  <2> HIDE DEF msg, out, m
  <2> QED
    BY <2>3, <2>4, <2>5, ZenonT(60)
<1> HIDE DEF m
<1>4. w.height = b.height /\ w.block = b
  BY <1>3, ZenonT(60) DEF initFromGwEth, Has
<1> HIDE DEF w
<1>5. /\ {"jobId", "chain", "height", "networkTarget", "headerHash", "sHash"} \subseteq DOMAIN j
      /\ j.jobId = 1 /\ j.height = b.height /\ j.headerHash = b
  BY <1>4, ZenonT(60) DEF serializeEth, Without, Restrict
<1> HIDE DEF j
<1>6. unserializeEth(j) = ReadBack(1, b.height, b)
  BY <1>5, ZenonT(60) DEF unserializeEth, Has
<1> QED
  BY <1>2, <1>6, ZenonT(60) DEF j, w

\* The other coins
LEMMA OtherReadBack ==
  ASSUME NEW b, b.height \in Nat \ {0}, b = BlockOf(b.id, b.height, b.rev),
         NEW coin \in {"decred", "bytom", "sia", "ckb"}
  PROVE  LET w == ReadWork(coin, processRawGw(coin, Answer(coin, b)))
         IN ReadJob(coin, WriteJob(coin, w, 1)) = ReadBack(1, b.height, b)
<1>1. CASE coin = "decred"
  <2> DEFINE m == constructRawMsgDecred(AnswerDecred(b))
             w == validateDecred(m)
  <2>1. processRawGw(coin, Answer(coin, b)) = m
    BY <1>1, ZenonT(60) DEF processRawGw, Answer, checkFieldsDecred, Has, AnswerDecred
  <2>2. w.height = b.height /\ w.block = b
    BY DEF validateDecred, Has, constructRawMsgDecred, AnswerDecred
  <2> HIDE DEF w, m
  <2>3. unserializeDecred(makeStratumJobMsgDecred(w, 1))
          = ReadBack(1, b.height, BlockOf(b.id, b.height, b.rev))
    BY <2>2, ZenonT(60) DEF unserializeDecred, makeStratumJobMsgDecred, Has
  <2>4. ReadWork(coin, m) = w
    BY <1>1, ZenonT(60) DEF ReadWork, w
  <2>5. ReadJob(coin, WriteJob(coin, w, 1)) = unserializeDecred(makeStratumJobMsgDecred(w, 1))
    BY <1>1, ZenonT(60) DEF ReadJob, WriteJob
  <2> QED
    BY <2>1, <2>3, <2>4, <2>5, ZenonT(60)
<1>2. CASE coin = "bytom"
  <2> DEFINE m == constructRawMsgBytom(AnswerBytom(b))
             w == validateBytom(m)
  <2>1. processRawGw(coin, Answer(coin, b)) = m
    BY <1>2, ZenonT(60) DEF processRawGw, Answer, checkFieldsBytom, Has, AnswerBytom
  <2>2. w.height = b.height /\ w.block = b
    BY ZenonT(60) DEF validateBytom, Has, constructRawMsgBytom, AnswerBytom
  <2> HIDE DEF w, m
  <2>3. unserializeBytom(makeStratumJobMsgBytom(w, 1)) = ReadBack(1, b.height, b)
    BY <2>2, ZenonT(60) DEF unserializeBytom, makeStratumJobMsgBytom, Has
  <2>4. ReadWork(coin, m) = w
    BY <1>2, ZenonT(60) DEF ReadWork, w
  <2>5. ReadJob(coin, WriteJob(coin, w, 1)) = unserializeBytom(makeStratumJobMsgBytom(w, 1))
    BY <1>2, ZenonT(60) DEF ReadJob, WriteJob
  <2> QED
    BY <2>1, <2>3, <2>4, <2>5, ZenonT(60)
<1>3. CASE coin = "sia"
  <2> DEFINE m == processRawGwSia(AnswerSia(b))
             w == validateSia(m)
  <2>1. processRawGw(coin, Answer(coin, b)) = m
    BY <1>3, ZenonT(60) DEF processRawGw, Answer
  <2>2. w.height = b.height /\ w.block = b
    BY ZenonT(60) DEF validateSia, Has, processRawGwSia, AnswerSia
  <2> HIDE DEF w, m
  <2>3. unserializeSia(makeStratumJobMsgSia(w, 1)) = ReadBack(1, b.height, b)
    BY <2>2, ZenonT(60) DEF unserializeSia, makeStratumJobMsgSia, Has
  <2>4. ReadWork(coin, m) = w
    BY <1>3, ZenonT(60) DEF ReadWork, w
  <2>5. ReadJob(coin, WriteJob(coin, w, 1)) = unserializeSia(makeStratumJobMsgSia(w, 1))
    BY <1>3, ZenonT(60) DEF ReadJob, WriteJob
  <2> QED
    BY <2>1, <2>3, <2>4, <2>5, ZenonT(60)
<1>4. CASE coin = "ckb"
  <2> DEFINE m == AnswerCkb(b)
             w == initFromRawJobCkb(m)
  <2>1. processRawGw(coin, Answer(coin, b)) = m
    BY <1>4, ZenonT(60) DEF processRawGw, Answer
  <2>2. w.height = b.height /\ w.block = b
    BY ZenonT(60) DEF initFromRawJobCkb, Has, AnswerCkb
  <2> HIDE DEF w, m
  <2>3. unserializeCkb(serializeCkb(w, 1)) = ReadBack(1, b.height, b)
    BY <2>2, ZenonT(60) DEF unserializeCkb, serializeCkb, Has
  <2>4. ReadWork(coin, m) = w
    BY <1>4, ZenonT(60) DEF ReadWork, w
  <2>5. ReadJob(coin, WriteJob(coin, w, 1)) = unserializeCkb(serializeCkb(w, 1))
    BY <1>4, ZenonT(60) DEF ReadJob, WriteJob
  <2> QED
    BY <2>1, <2>3, <2>4, <2>5, ZenonT(60)
<1> QED
  BY <1>1, <1>2, <1>3, <1>4, ZenonT(60)

\* Bitcoin: the readers compute the target of the merged mined chains again, from
\* bits that are Vcash's when there is no block of Namecoin.
LEMMA SameAuxTarget ==
  ASSUME NEW nmc, AuxOrNone(nmc), NEW vcash, AuxOrNone(vcash)
  PROVE  AuxTarget(NmcOrVcash(NmcInfo(nmc), vcash).bits, VcashInfo(vcash).target)
           = AuxTarget(NmcInfo(nmc).bits, VcashInfo(vcash).target)
<1>1. CASE ~(NmcInfo(nmc).bits = 0 /\ vcash # None)
  BY <1>1, ZenonT(60) DEF NmcOrVcash
<1>2. CASE NmcInfo(nmc).bits = 0 /\ vcash # None
  <2> DEFINE n == NmcInfo(nmc)
             v == vcash.bits
  <2>1. v \in Nat
    BY <1>2, ZenonT(60) DEF AuxOrNone, IsAux
  <2>2. VcashInfo(vcash).target = v
    BY <1>2, ZenonT(60) DEF VcashInfo
  <2>3. {"bits", "rpc"} \subseteq DOMAIN n
    BY ZenonT(60) DEF NmcInfo, NoNmc
  <2> HIDE DEF n, v
  <2>4. NmcOrVcash(n, vcash).bits = v
    BY <1>2, <2>3, ZenonT(60) DEF NmcOrVcash, n, v
  <2>5. Max({v, v}) = v /\ Max({0, v}) = v
    BY <2>1 DEF Max
  <2> QED
    BY <1>2, <2>2, <2>4, <2>5, ZenonT(60) DEF AuxTarget, n
<1> QED
  BY <1>1, <1>2, ZenonT(60)

\* What the nodes say of their blocks reaches the readers of the jobs, for every
\* coin and every block; and the job of every template with the merged mining there is.
THEOREM EveryJobReadsBack == Spec => []JobsReadBack
<1>1. MakerInv => JobsReadBack
  <2> SUFFICES ASSUME MakerInv PROVE JobsReadBack
    BY ZenonT(60)
  <2>1. NodesTrue /\ HandlerTrue(hd) /\ config \in Configs
    BY ZenonT(60) DEF MakerInv, Types, NodesTrue
  <2>2. ASSUME config.coin # "bitcoin", NEW n \in config.nodes
        PROVE  LET w == ReadWork(config.coin, processRawGw(config.coin, NodeAnswer(n)))
               IN ReadJob(config.coin, WriteJob(config.coin, w, 1))
                    = ReadBack(1, tip[n], BlockOf(n, tip[n], rev[n]))
    <3> DEFINE b == BlockOf(n, tip[n], rev[n])
    <3>1. n \in Nodes
      BY <2>1, ConfigFacts, ZenonT(60)
    <3>2. tip[n] \in Nat \ {0} /\ rev[n] \in 0 .. 1
      BY <2>1, <3>1, TimesAssumption DEF NodesTrue, Heights
    <3>3. b.id = n /\ b.height = tip[n] /\ b.rev = rev[n]
      BY ZenonT(60) DEF BlockOf
    <3>4. NodeAnswer(n) = Answer(config.coin, b)
      BY ZenonT(60) DEF NodeAnswer
    <3>5. b = BlockOf(b.id, b.height, b.rev)
      BY <3>3, ZenonT(60)
    <3> HIDE DEF b
    <3>6. CASE config.coin = "eth"
      <4> DEFINE r == AnswerEth(b)
                 w == initFromGwEth(constructRawMsgEth(r))
      <4>1. processRawGw(config.coin, Answer(config.coin, b)) = constructRawMsgEth(r)
        <5>1. checkFieldsEth(r)
          BY ZenonT(60) DEF checkFieldsEth, checkFieldsGetwork, Has, AnswerEth
        <5> QED
          BY <3>6, <5>1, ZenonT(60) DEF processRawGw, Answer
      <4>2. unserializeEth(serializeEth(w, 1)) = ReadBack(1, b.height, b)
        BY <3>2, <3>3, EthReadBack, ZenonT(60)
      <4> HIDE DEF r
      <4>3. ReadWork(config.coin, constructRawMsgEth(r)) = w
        BY <3>6, ZenonT(60) DEF ReadWork
      <4> HIDE DEF w
      <4>4. ReadJob(config.coin, WriteJob(config.coin, w, 1)) = unserializeEth(serializeEth(w, 1))
        BY <3>6, ZenonT(60) DEF ReadJob, WriteJob
      <4> QED
        BY <3>3, <3>4, <4>1, <4>2, <4>3, <4>4, ZenonT(60) DEF b
    <3>7. CASE config.coin \in {"decred", "bytom", "sia", "ckb"}
      BY <3>2, <3>3, <3>4, <3>5, <3>7, OtherReadBack, ZenonT(60) DEF b
    <3> QED
      BY <2>1, <2>2, <3>6, <3>7, ConfigFacts, ZenonT(60)
  <2>3. LET sjob == makeStratumJob(hd, Best(hd.works))
            read == unserializeFromJson(serializeToJson(sjob, 1))
        IN \A f \in DOMAIN sjob : read[f] = sjob[f]
    <3> DEFINE sjob == makeStratumJob(hd, Best(hd.works))
               read == unserializeFromJson(serializeToJson(sjob, 1))
               vcash == IF config.aux = "vcash" THEN hd.cur ELSE None
    <3>1. /\ DOMAIN sjob = {"gbtHash", "height", "merkleBranch", "witness", "main", "subPool",
                            "nmc", "nmcTarget", "rsk", "vcash", "mergedMiningClean"}
          /\ sjob.nmc = NmcOrVcash(NmcInfo(hd.nmc), vcash)
          /\ sjob.nmcTarget = AuxTarget(NmcInfo(hd.nmc).bits, VcashInfo(vcash).target)
          /\ sjob.vcash = VcashInfo(vcash)
      BY ZenonT(60) DEF makeStratumJob, initFromGbt
    <3>2. AuxOrNone(hd.nmc) /\ AuxOrNone(vcash)
      BY <2>1, ZenonT(60) DEF HandlerTrue, AuxOrNone
    <3>3. AuxTarget(sjob.nmc.bits, sjob.vcash.target) = sjob.nmcTarget
      BY <3>1, <3>2, SameAuxTarget
    <3> HIDE DEF sjob
    <3>4. /\ read.gbtHash = sjob.gbtHash /\ read.height = sjob.height
          /\ read.merkleBranch = sjob.merkleBranch /\ read.witness = sjob.witness
          /\ read.main = sjob.main /\ read.subPool = sjob.subPool /\ read.nmc = sjob.nmc
          /\ read.nmcTarget = AuxTarget(sjob.nmc.bits, sjob.vcash.target)
          /\ read.rsk = sjob.rsk /\ read.vcash = sjob.vcash
          /\ read.mergedMiningClean = sjob.mergedMiningClean
      BY ZenonT(60) DEF unserializeFromJson, serializeToJson
    <3> HIDE DEF read
    <3>5. \A f \in DOMAIN sjob : read[f] = sjob[f]
      BY <3>1, <3>3, <3>4, ZenonT(60)
    <3> QED
      BY <3>5, ZenonT(60) DEF sjob, read
  <2> QED
    BY <2>2, <2>3, ZenonT(60) DEF JobsReadBack
<1> QED
  BY <1>1, MakerSafe, PTL
=============================================================================
