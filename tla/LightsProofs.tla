---------------------------- MODULE LightsProofs ----------------------------
(***************************************************************************)
(* That no light cache of Ethereum is lost, or deleted while it is in the  *)
(* map, proved for any number of threads that build, rebuild and use them  *)
(* and for any heights. The lights are numbered in the order in which they *)
(* are made; the invariant says that the map holds exactly those that were *)
(* not deleted, none of them twice, and that the queue of the SeqMap has   *)
(* keys of the map only, each of them once, so that clearing the oldest    *)
(* ones deletes each light once. A thread decides without the lock and     *)
(* acts with it: nothing is assumed of what it has seen before.            *)
(***************************************************************************)
EXTENDS CoinShares, FiniteSetTheorems, TLAPS

\* The time that each prover has for a step that names none
USE SMTT(40), Z3T(60), ZenonT(60)

-----------------------------------------------------------------------------
(* The lights *)

\* The queue of the SeqMap: keys of the map, none of them twice.
QueueTrue(l) ==
  /\ l.queue \in Seq(DOMAIN l.map)
  /\ \A i, k \in DOMAIN l.queue : l.queue[i] = l.queue[k] => i = k

Held(l, i) == \E e \in DOMAIN l.map : l.map[e] = i

Accounted(l) ==
  /\ \A i \in 1 .. l.made : Held(l, i) <=> i \notin l.freed
  /\ \A e, f \in Saved(l) : l.map[e] = l.map[f] => e = f

LightTypes(l) ==
  /\ {"map", "queue", "made", "freed"} \subseteq DOMAIN l
  /\ l.made \in Nat
  /\ IsFiniteSet(DOMAIN l.map)
  /\ \A e \in DOMAIN l.map : l.map[e] \in 0 .. l.made
  /\ l.freed \subseteq 1 .. l.made

LightTrue(l) == LightTypes(l) /\ QueueTrue(l) /\ Accounted(l)

\* The number of a new light is above all others: it goes into the map, or is deleted
\* at once, and the others are left where they are.
LEMMA AtKeeps ==
  ASSUME NEW l, NEW e, LightTrue(l)
  PROVE  /\ LightTrue(At(l, e))
         /\ e \in DOMAIN At(l, e).map
         /\ At(l, e).made = l.made
         /\ Saved(At(l, e)) = Saved(l)
<1>1. CASE e \in DOMAIN l.map
  BY <1>1, ZenonT(60) DEF At
<1>2. CASE e \notin DOMAIN l.map
  <2> DEFINE m == [k \in DOMAIN l.map \cup {e} |-> IF k = e THEN Null ELSE l.map[k]]
             a == [l EXCEPT !.map = m, !.queue = Append(l.queue, e)]
  <2>1. At(l, e) = a
    BY <1>2, ZenonT(60) DEF At
  <2>2. /\ a.map = m /\ a.queue = Append(l.queue, e) /\ a.made = l.made /\ a.freed = l.freed
        /\ DOMAIN a = DOMAIN l
    BY ZenonT(60) DEF LightTrue, LightTypes
  <2> HIDE DEF a
  <2>3. LightTypes(a)
    <3>1. IsFiniteSet(DOMAIN m)
      BY FS_AddElement, ZenonT(60) DEF LightTrue, LightTypes
    <3>2. QED
      BY <2>2, <3>1 DEF LightTrue, LightTypes, Null
  <2>4. QueueTrue(a)
    <3> DEFINE q == Append(l.queue, e)
    <3>1. l.queue \in Seq(DOMAIN m) /\ e \in DOMAIN m
      BY DEF LightTrue, QueueTrue
    <3>2. q \in Seq(DOMAIN m) /\ DOMAIN q = 1 .. Len(l.queue) + 1 /\ Len(l.queue) \in Nat
          /\ DOMAIN l.queue = 1 .. Len(l.queue)
          /\ (\A i \in 1 .. Len(l.queue) : q[i] = l.queue[i]) /\ q[Len(l.queue) + 1] = e
      BY <3>1
    <3>3. \A i \in 1 .. Len(l.queue) : l.queue[i] # e
      BY <1>2, <3>2 DEF LightTrue, QueueTrue
    <3> HIDE DEF q
    <3>4. \A i, k \in DOMAIN q : q[i] = q[k] => i = k
      <4> SUFFICES ASSUME NEW i \in DOMAIN q, NEW k \in DOMAIN q, q[i] = q[k]
                   PROVE  i = k
        BY ZenonT(60)
      <4>1. CASE i \in 1 .. Len(l.queue) /\ k \in 1 .. Len(l.queue)
        BY <4>1, <3>2, ZenonT(60) DEF LightTrue, QueueTrue
      <4>2. CASE i = Len(l.queue) + 1 /\ k = Len(l.queue) + 1
        BY <4>2, ZenonT(60)
      <4>3. CASE i = Len(l.queue) + 1 /\ k \in 1 .. Len(l.queue)
        BY <4>3, <3>2, <3>3, ZenonT(60)
      <4>4. CASE k = Len(l.queue) + 1 /\ i \in 1 .. Len(l.queue)
        BY <4>4, <3>2, <3>3, ZenonT(60)
      <4>5. QED
        BY <4>1, <4>2, <4>3, <4>4, <3>2
    <3>5. QED
      BY <2>2, <3>2, <3>4, ZenonT(60) DEF QueueTrue, q
  <2>5. Saved(a) = Saved(l)
    BY <1>2, <2>2, ZenonT(60) DEF Saved, Null
  <2>6. Accounted(a)
    <3>1. ASSUME NEW i \in 1 .. l.made
          PROVE  Held(a, i) <=> Held(l, i)
      <4>1. ASSUME NEW f \in DOMAIN m, m[f] = i
            PROVE  f \in DOMAIN l.map /\ l.map[f] = i
        BY <4>1, <3>1 DEF LightTrue, LightTypes, Null
      <4>2. ASSUME NEW f \in DOMAIN l.map, l.map[f] = i
            PROVE  f \in DOMAIN m /\ m[f] = i
        BY <4>2, <1>2, ZenonT(60)
      <4>3. QED
        BY <4>1, <4>2, <2>2, ZenonT(60) DEF Held
    <3>2. \A f \in Saved(l) : m[f] = l.map[f]
      BY <1>2, ZenonT(60) DEF Saved
    <3>3. QED
      BY <2>2, <2>5, <3>1, <3>2, ZenonT(60) DEF LightTrue, Accounted
  <2>7. QED
    BY <2>1, <2>2, <2>3, <2>4, <2>5, <2>6, ZenonT(60) DEF LightTrue
<1>3. QED
  BY <1>1, <1>2, ZenonT(60)

\* A new light takes the place of e, and the one before it, if any, is deleted.
LEMMA NewLight ==
  ASSUME NEW a, NEW e, LightTrue(a), e \in DOMAIN a.map,
         NEW p, DOMAIN p = DOMAIN a, p.queue = a.queue, p.made = a.made + 1,
         p.map = [a.map EXCEPT ![e] = a.made + 1],
         p.freed = a.freed \cup ({a.map[e]} \ {Null})
  PROVE  LightTrue(p)
<1>1. a.made \in Nat /\ a.map[e] \in 0 .. a.made /\ a.freed \subseteq 1 .. a.made
      /\ DOMAIN p.map = DOMAIN a.map
  BY ZenonT(60) DEF LightTrue, LightTypes
<1>2. LightTypes(p)
  BY <1>1 DEF LightTrue, LightTypes, Null
<1>3. QueueTrue(p)
  BY <1>1, ZenonT(60) DEF LightTrue, QueueTrue
<1>4. \A f \in DOMAIN a.map : p.map[f] = IF f = e THEN a.made + 1 ELSE a.map[f]
  BY ZenonT(60)
<1>5. \A f \in Saved(p) : f = e \/ f \in Saved(a)
  BY <1>1, <1>4, ZenonT(60) DEF Saved
<1>6. \A f \in Saved(a) : a.map[f] \in 1 .. a.made
  BY DEF Saved, LightTrue, LightTypes, Null
<1>7. \A f, g \in Saved(p) : p.map[f] = p.map[g] => f = g
  BY <1>1, <1>4, <1>5, <1>6 DEF LightTrue, Accounted, Saved
<1>8. ASSUME NEW i \in 1 .. p.made
      PROVE  Held(p, i) <=> i \notin p.freed
  <2>1. CASE i = a.made + 1
    <3>1. Held(p, i)
      BY <2>1, <1>1, <1>4, ZenonT(60) DEF Held
    <3>2. i \notin p.freed
      BY <2>1, <1>1
    <3>3. QED
      BY <3>1, <3>2, ZenonT(60)
  <2>2. CASE i \in 1 .. a.made /\ i = a.map[e]
    <3>1. i \in p.freed
      BY <2>2 DEF Null
    <3>2. ~Held(p, i)
      <4> SUFFICES ASSUME NEW f \in DOMAIN p.map, p.map[f] = i
                   PROVE  FALSE
        BY ZenonT(60) DEF Held
      <4>1. f # e /\ a.map[f] = i /\ f \in DOMAIN a.map
        BY <2>2, <1>1, <1>4
      <4>2. f \in Saved(a) /\ e \in Saved(a)
        BY <4>1, <2>2 DEF Saved, Null
      <4>3. QED
        BY <4>1, <4>2, <2>2, ZenonT(60) DEF LightTrue, Accounted
    <3>3. QED
      BY <3>1, <3>2, ZenonT(60)
  <2>3. CASE i \in 1 .. a.made /\ i # a.map[e]
    <3>1. i \in p.freed <=> i \in a.freed
      BY <2>3, ZenonT(60)
    <3>2. ASSUME NEW f \in DOMAIN a.map
          PROVE  p.map[f] = i <=> a.map[f] = i
      BY <2>3, <1>1, <1>4
    <3>3. Held(p, i) <=> Held(a, i)
      BY <3>2, <1>1, ZenonT(60) DEF Held
    <3>4. QED
      BY <3>1, <3>3, <2>3, ZenonT(60) DEF LightTrue, Accounted
  <2>4. QED
    BY <2>1, <2>2, <2>3, <1>1
<1>9. QED
  BY <1>2, <1>3, <1>7, <1>8, ZenonT(60) DEF LightTrue, Accounted

\* A new light goes where none is saved.
LEMMA PutKeeps ==
  ASSUME NEW l, NEW e, LightTrue(l), e \notin Saved(l)
  PROVE  LightTrue(Put(l, e))
<1> DEFINE a == At(l, e)
           p == [a EXCEPT !.map[e] = l.made + 1, !.made = @ + 1]
<1>1. LightTrue(a) /\ e \in DOMAIN a.map /\ a.made = l.made /\ Saved(a) = Saved(l)
  BY AtKeeps, ZenonT(60)
<1>2. Put(l, e) = p
  BY ZenonT(60) DEF Put
<1> HIDE DEF a
<1>3. /\ DOMAIN p = DOMAIN a /\ p.queue = a.queue /\ p.made = a.made + 1
      /\ p.map = [a.map EXCEPT ![e] = a.made + 1] /\ p.freed = a.freed
  BY <1>1, ZenonT(60) DEF LightTrue, LightTypes
<1>4. a.map[e] = Null
  BY <1>1, ZenonT(60) DEF Saved
<1> HIDE DEF p
<1>5. p.freed = a.freed \cup ({a.map[e]} \ {Null})
  BY <1>3, <1>4, ZenonT(60)
<1>6. QED
  BY <1>1, <1>2, <1>3, <1>5, NewLight, ZenonT(60)

\* A light that is overwritten is deleted.
LEMMA ReplacedKeeps ==
  ASSUME NEW l, NEW e, LightTrue(l)
  PROVE  LightTrue(Replaced(l, e))
<1>1. CASE e \notin Saved(l)
  BY <1>1, PutKeeps, ZenonT(60) DEF Replaced
<1>2. CASE e \in Saved(l)
  <2> DEFINE d == [l EXCEPT !.freed = @ \cup {l.map[e]}]
             p == [d EXCEPT !.map[e] = d.made + 1, !.made = @ + 1]
  <2>1. e \in DOMAIN l.map /\ l.map[e] # Null
    BY <1>2, ZenonT(60) DEF Saved
  <2>2. /\ DOMAIN d = DOMAIN l /\ d.queue = l.queue /\ d.made = l.made /\ d.map = l.map
        /\ d.freed = l.freed \cup {l.map[e]}
    BY ZenonT(60) DEF LightTrue, LightTypes
  <2>3. Replaced(l, e) = Put(d, e)
    BY <1>2, ZenonT(60) DEF Replaced
  <2> HIDE DEF d
  <2>4. Put(d, e) = p
    BY <2>1, <2>2, ZenonT(60) DEF Put, At
  <2>5. /\ DOMAIN p = DOMAIN l /\ p.queue = l.queue /\ p.made = l.made + 1
        /\ p.map = [l.map EXCEPT ![e] = l.made + 1] /\ p.freed = l.freed \cup {l.map[e]}
    BY <2>2, ZenonT(60) DEF LightTrue, LightTypes
  <2> HIDE DEF p
  <2>6. p.freed = l.freed \cup ({l.map[e]} \ {Null})
    BY <2>1, <2>5, ZenonT(60)
  <2>7. QED
    BY <2>1, <2>3, <2>4, <2>5, <2>6, NewLight, ZenonT(60)
<1>3. QED
  BY <1>1, <1>2, ZenonT(60)

\* A light that was made while another thread has put its own into the map.
LEMMA InstalledKeeps ==
  ASSUME NEW l, NEW e, LightTrue(l)
  PROVE  LightTrue(Installed(l, e))
<1>1. CASE e \notin Saved(l)
  BY <1>1, PutKeeps, ZenonT(60) DEF Installed
<1>2. CASE e \in Saved(l)
  <2> DEFINE d == [l EXCEPT !.made = @ + 1, !.freed = @ \cup {l.made + 1}]
  <2>1. Installed(l, e) = d
    BY <1>2, ZenonT(60) DEF Installed
  <2>2. /\ DOMAIN d = DOMAIN l /\ d.queue = l.queue /\ d.made = l.made + 1 /\ d.map = l.map
        /\ d.freed = l.freed \cup {l.made + 1}
    BY ZenonT(60) DEF LightTrue, LightTypes
  <2> HIDE DEF d
  <2>3. Saved(d) = Saved(l)
    BY <2>2, ZenonT(60) DEF Saved
  <2>4. LightTypes(d) /\ QueueTrue(d)
    BY <2>2 DEF LightTrue, LightTypes, QueueTrue
  <2>5. ASSUME NEW i \in 1 .. d.made
        PROVE  Held(d, i) <=> i \notin d.freed
    <3>1. Held(d, i) <=> Held(l, i)
      BY <2>2, ZenonT(60) DEF Held
    <3>2. i = l.made + 1 => ~Held(l, i)
      BY DEF Held, LightTrue, LightTypes
    <3>3. i = l.made + 1 \/ i \in 1 .. l.made
      BY <2>2 DEF LightTrue, LightTypes
    <3>4. QED
      BY <2>2, <3>1, <3>2, <3>3, ZenonT(60) DEF LightTrue, LightTypes, Accounted
  <2>6. QED
    BY <2>1, <2>2, <2>3, <2>4, <2>5, ZenonT(60) DEF LightTrue, Accounted
<1>3. QED
  BY <1>1, <1>2, ZenonT(60)

\* The keys that go are those of the map that came first, and no other place of the
\* queue holds them.
LEMMA ClearKeeps ==
  ASSUME NEW l, LightTrue(l)
  PROVE  LightTrue(clear(l))
<1> DEFINE n == Surplus(l)
           gone == Oldest(l)
           q == SubSeq(l.queue, n + 1, Len(l.queue))
           m == [k \in DOMAIN l.map \ gone |-> l.map[k]]
           old == {l.map[e] : e \in gone} \ {Null}
           c == [l EXCEPT !.queue = q, !.map = m, !.freed = @ \cup old]
<1>1. clear(l) = c
  BY ZenonT(60) DEF clear
<1>2. /\ DOMAIN c = DOMAIN l /\ c.queue = q /\ c.map = m /\ c.made = l.made
      /\ c.freed = l.freed \cup old
  BY ZenonT(60) DEF LightTrue, LightTypes
<1> HIDE DEF c
<1>3. /\ Len(l.queue) \in Nat /\ DOMAIN l.queue = 1 .. Len(l.queue)
      /\ n \in 0 .. Len(l.queue)
      /\ \A i \in 1 .. Len(l.queue) : l.queue[i] \in DOMAIN l.map
  BY EthashAssumption DEF LightTrue, QueueTrue, Surplus
<1>4. gone = {l.queue[i] : i \in 1 .. n} /\ gone \subseteq DOMAIN l.map
  BY <1>3 DEF Oldest
<1> HIDE DEF n, gone
<1>5. DOMAIN m = DOMAIN l.map \ gone
  BY ZenonT(60)
<1>6. /\ Len(q) = Len(l.queue) - n /\ DOMAIN q = 1 .. Len(l.queue) - n
      /\ \A i \in 1 .. Len(l.queue) - n : q[i] = l.queue[n + i]
  BY <1>3 DEF LightTrue, QueueTrue
<1>7. \A i \in n + 1 .. Len(l.queue) : l.queue[i] \in DOMAIN m
  <2> TAKE i \in n + 1 .. Len(l.queue)
  <2>1. i \in 1 .. Len(l.queue) /\ \A k \in 1 .. n : k # i /\ k \in 1 .. Len(l.queue)
    BY <1>3
  <2>2. l.queue[i] \notin gone
    BY <1>3, <1>4, <2>1, ZenonT(60) DEF LightTrue, QueueTrue
  <2>3. QED
    BY <1>3, <1>5, <2>1, <2>2, ZenonT(60)
<1>8. q \in Seq(DOMAIN m)
  <2> HIDE DEF m
  <2>1. n + 1 \in Int /\ Len(l.queue) \in Int
    BY <1>3
  <2>2. QED
    BY <1>7, <2>1
<1> HIDE DEF q
<1>9. QueueTrue(c)
  <2>1. ASSUME NEW i \in 1 .. Len(l.queue) - n, NEW k \in 1 .. Len(l.queue) - n, q[i] = q[k]
        PROVE  i = k
    <3>1. n + i \in 1 .. Len(l.queue) /\ n + k \in 1 .. Len(l.queue)
      BY <1>3
    <3>2. n + i = n + k
      BY <1>3, <1>6, <2>1, <3>1, ZenonT(60) DEF LightTrue, QueueTrue
    <3>3. QED
      BY <1>3, <3>2
  <2>2. QED
    BY <1>2, <1>6, <1>8, <2>1, ZenonT(60) DEF QueueTrue
<1>10. LightTypes(c)
  <2>1. IsFiniteSet(DOMAIN m)
    BY <1>5, FS_Subset, ZenonT(60) DEF LightTrue, LightTypes
  <2>2. old \subseteq 1 .. l.made
    BY <1>4 DEF LightTrue, LightTypes, Null
  <2>3. QED
    BY <1>2, <2>1, <2>2, ZenonT(60) DEF LightTrue, LightTypes
<1>11. \A f \in Saved(c) : f \in Saved(l) /\ c.map[f] = l.map[f]
  BY <1>2, ZenonT(60) DEF Saved
<1>12. \A f, g \in Saved(c) : c.map[f] = c.map[g] => f = g
  BY <1>11, ZenonT(60) DEF LightTrue, Accounted
<1>13. ASSUME NEW i \in 1 .. c.made
       PROVE  Held(c, i) <=> i \notin c.freed
  <2>1. i \in 1 .. l.made /\ i # Null
    BY <1>2 DEF LightTrue, LightTypes, Null
  <2>2. ASSUME NEW e \in DOMAIN c.map, c.map[e] = i
        PROVE  i \notin c.freed
    <3>1. e \in DOMAIN l.map /\ e \notin gone /\ l.map[e] = i
      BY <1>2, <2>2, ZenonT(60)
    <3>2. i \notin l.freed
      BY <2>1, <3>1, ZenonT(60) DEF LightTrue, Accounted, Held
    <3>3. \A f \in gone : l.map[f] # i
      BY <1>4, <2>1, <3>1, ZenonT(60) DEF LightTrue, Accounted, Saved
    <3>4. QED
      BY <1>2, <3>2, <3>3, ZenonT(60)
  <2>3. ASSUME i \notin c.freed
        PROVE  Held(c, i)
    <3>1. i \notin l.freed /\ \A f \in gone : l.map[f] # i
      BY <1>2, <2>1, <2>3, ZenonT(60)
    <3>2. PICK e \in DOMAIN l.map : l.map[e] = i
      BY <2>1, <3>1, ZenonT(60) DEF LightTrue, Accounted, Held
    <3>3. QED
      BY <1>2, <3>1, <3>2, ZenonT(60) DEF Held
  <2>4. QED
    BY <2>2, <2>3, ZenonT(60) DEF Held
<1>14. QED
  BY <1>1, <1>9, <1>10, <1>12, <1>13, ZenonT(60) DEF LightTrue, Accounted

\* What is loaded from a file of finitely many lights, in any order.
LEMMA LoadedKeeps ==
  ASSUME NEW S, IsFiniteSet(S), NEW order \in Orders(S)
  PROVE  LightTrue(Loaded(order))
<1> DEFINE n == Cardinality(S)
           l == Loaded(order)
<1>1. n \in Nat
  BY FS_CardinalityType, ZenonT(60)
<1>2. /\ order \in [1 .. n -> S] /\ DOMAIN order = 1 .. n
      /\ \A i, k \in 1 .. n : i # k => order[i] # order[k]
  BY ZenonT(60) DEF Orders, Bijection, Injection, IsInjective
<1> HIDE DEF n
<1>3. order \in Seq(Range(order)) /\ Len(order) = n
  BY <1>1, <1>2 DEF Range
<1>4. /\ l.queue = order /\ l.made = n /\ l.freed = {}
      /\ DOMAIN l = {"map", "queue", "made", "freed"} /\ DOMAIN l.map = Range(order)
      /\ \A e \in Range(order) : l.map[e] = CHOOSE i \in DOMAIN order : order[i] = e
  BY <1>3, ZenonT(60) DEF Loaded
<1> HIDE DEF l
<1>5. ASSUME NEW i \in 1 .. n
      PROVE  order[i] \in Range(order) /\ l.map[order[i]] = i
  <2>1. order[i] \in Range(order)
    BY <1>2, ZenonT(60) DEF Range
  <2>2. (CHOOSE k \in DOMAIN order : order[k] = order[i]) = i
    BY <1>2, ZenonT(60)
  <2>3. QED
    BY <1>4, <2>1, <2>2, ZenonT(60)
<1>6. ASSUME NEW e \in Range(order)
      PROVE  l.map[e] \in 1 .. n /\ order[l.map[e]] = e
  <2>1. PICK i \in 1 .. n : e = order[i]
    BY <1>2, ZenonT(60) DEF Range
  <2>2. QED
    BY <1>5, <2>1, ZenonT(60)
<1>7. IsFiniteSet(Range(order))
  <2>1. Range(order) \subseteq S
    BY <1>2, ZenonT(60) DEF Range
  <2>2. QED
    BY <2>1, FS_Subset, ZenonT(60)
<1>8. LightTypes(l)
  BY <1>1, <1>4, <1>6, <1>7 DEF LightTypes
<1>9. QueueTrue(l)
  BY <1>2, <1>3, <1>4, ZenonT(60) DEF QueueTrue
<1>10. Accounted(l)
  <2>1. \A i \in 1 .. n : Held(l, i)
    BY <1>4, <1>5, ZenonT(60) DEF Held
  <2>2. \A e, f \in Saved(l) : l.map[e] = l.map[f] => e = f
    BY <1>4, <1>6 DEF Saved
  <2>3. QED
    BY <1>4, <2>1, <2>2, ZenonT(60) DEF Accounted
<1>11. QED
  BY <1>8, <1>9, <1>10, ZenonT(60) DEF LightTrue, l

-----------------------------------------------------------------------------
(* The threads and the share workers *)
LightsInv == LightTrue(lights) /\ IsFiniteSet(lightFile)

\* Only finitely many epochs have a light.
LEMMA SavedFinite ==
  ASSUME NEW l, LightTrue(l)
  PROVE  IsFiniteSet(Saved(l))
BY FS_Subset, ZenonT(60) DEF LightTrue, LightTypes, Saved

\* A step of the builder keeps the lights.
LEMMA BuilderLights ==
  ASSUME LightsInv, BuilderStep
  PROVE  LightsInv'
<1>1. PICK i \in DOMAIN builders :
        BuildLook(i) \/ BuildBegin(i) \/ BuildPut(i) \/ BuildClear(i) \/ RebuildPut(i)
  BY ZenonT(60) DEF BuilderStep
<1>2. lightFile' = lightFile
  BY <1>1, ZenonT(60) DEF BuildLook, BuildBegin, BuildPut, BuildClear, RebuildPut
<1>3. CASE BuildLook(i)
  <2>1. lights' = At(At(lights, Epoch(builders[i].height)), Epoch(builders[i].height) + 1)
    BY <1>3, ZenonT(60) DEF BuildLook
  <2>2. QED
    BY <1>2, <2>1, AtKeeps, ZenonT(60) DEF LightsInv
<1>4. CASE BuildBegin(i)
  BY <1>2, <1>4, ZenonT(60) DEF BuildBegin, LightsInv
<1>5. CASE BuildPut(i)
  BY <1>2, <1>5, InstalledKeeps, ZenonT(60) DEF BuildPut, LightsInv
<1>6. CASE BuildClear(i)
  BY <1>2, <1>6, ClearKeeps, ZenonT(60) DEF BuildClear, LightsInv
<1>7. CASE RebuildPut(i)
  BY <1>2, <1>7, ReplacedKeeps, ZenonT(60) DEF RebuildPut, LightsInv
<1>8. QED
  BY <1>1, <1>3, <1>4, <1>5, <1>6, <1>7, ZenonT(60)

\* So does a restart: what is saved is read back, in any order.
LEMMA RestartKeepsLights ==
  ASSUME LightsInv, RestartLights
  PROVE  LightsInv'
<1>1. IsFiniteSet(lightFile')
  <2>1. IsFiniteSet(lightFile) /\ IsFiniteSet(Saved(lights))
    BY SavedFinite, ZenonT(60) DEF LightsInv
  <2>2. lightFile' = lightFile \/ lightFile' \subseteq Saved(lights)
    BY ZenonT(60) DEF RestartLights, FilesAfter
  <2>3. QED
    BY <2>1, <2>2, FS_Subset, ZenonT(60)
<1>2. PICK order \in Orders(lightFile') : lights' = Loaded(order)
  BY ZenonT(60) DEF RestartLights
<1>3. QED
  BY <1>1, <1>2, LoadedKeeps, ZenonT(60) DEF LightsInv

\* And a verification, which only reads them.
LEMMA CheckLights ==
  ASSUME LightsInv, NEW c, EthFails(c) \/ EthComputes(c)
  PROVE  LightsInv'
<1>1. /\ lights' = getDagCacheWithoutLock(lights, Epoch(Job(c.l.id).height))
      /\ lightFile' = lightFile
  BY ZenonT(60) DEF EthFails, EthComputes
<1>2. QED
  BY <1>1, PutKeeps, ZenonT(60) DEF getDagCacheWithoutLock, LightsInv

\* Every step keeps the lights.
LEMMA LightsNext ==
  ASSUME LightsInv, [ShareNext]_<<shareVars, lightVars>>
  PROVE  LightsInv'
<1>1. CASE \E d \in sconf.diffs : broadcastStratumJob(d) \/ SendLatest(d)
  BY <1>1, ZenonT(60) DEF broadcastStratumJob, SendLatest, lightVars, LightsInv
<1>2. CASE tryCleanExpiredJobs
  BY <1>2, ZenonT(60) DEF tryCleanExpiredJobs, lightVars, LightsInv
<1>3. CASE \E key, x : Submit(key, x)
  BY <1>3, ZenonT(60) DEF Submit, lightVars, LightsInv
<1>4. CASE \E c \in checks : EthFails(c) \/ EthComputes(c)
  BY <1>4, CheckLights, ZenonT(60)
<1>5. CASE EthReturns
  BY <1>5, ZenonT(60) DEF EthReturns, lightVars, LightsInv
<1>6. CASE Login \/ Disconnects
  BY <1>6, ZenonT(60) DEF Login, Disconnects, lightVars, LightsInv
<1>7. CASE BuilderStep
  BY <1>7, BuilderLights, ZenonT(60)
<1>8. CASE RestartLights
  BY <1>8, RestartKeepsLights, ZenonT(60)
<1>9. CASE UNCHANGED <<shareVars, lightVars>>
  BY <1>9, ZenonT(60) DEF lightVars, LightsInv
<1>10. QED
  BY <1>1, <1>2, <1>3, <1>4, <1>5, <1>6, <1>7, <1>8, <1>9, ZenonT(60) DEF ShareNext

\* What the run checks follows.
LEMMA LightsAreAccounted ==
  ASSUME LightTrue(lights)
  PROVE  LightsAccounted
<1>1. ASSUME NEW i \in 1 .. lights.made
      PROVE  (i \in lights.freed) # (\E e \in DOMAIN lights.map : lights.map[e] = i)
  <2>1. (\E e \in DOMAIN lights.map : lights.map[e] = i) <=> i \notin lights.freed
    BY ZenonT(60) DEF LightTrue, Accounted, Held
  <2>2. CASE i \in lights.freed
    BY <2>1, <2>2, ZenonT(60)
  <2>3. CASE i \notin lights.freed
    BY <2>1, <2>3, ZenonT(60)
  <2>4. QED
    BY <2>2, <2>3, ZenonT(60)
<1>2. QED
  BY <1>1, ZenonT(60) DEF LightTrue, Accounted, LightsAccounted

\* The threads that build and rebuild the lights of the epochs, the share workers that
\* build what they miss, the clearing of old epochs and the restarts neither leak a
\* light nor delete one that the map still holds, for any jobs and any number of
\* threads that overlap (buildDagCache(), rebuildDagCache(), SeqMap::clear()).
THEOREM NoLightLost == ShareSpec => []LightsAccounted
<1>1. ShareConf(sconf) /\ ShareInit(sconf) => LightsInv
  <2> SUFFICES ASSUME ShareConf(sconf), ShareInit(sconf) PROVE LightsInv
    BY ZenonT(60)
  <2>1. IsFiniteSet(sconf.lights) /\ lightFile = sconf.lights
    BY ZenonT(60) DEF ShareConf, ShareInit, LightInit
  <2>2. PICK order \in Orders(sconf.lights) : lights = Loaded(order)
    BY ZenonT(60) DEF ShareInit, LightInit
  <2>3. QED
    BY <2>1, <2>2, LoadedKeeps, ZenonT(60) DEF LightsInv
<1>2. LightsInv /\ [ShareNext]_<<shareVars, lightVars>> => LightsInv'
  BY LightsNext, ZenonT(60)
<1>3. LightsInv => LightsAccounted
  BY LightsAreAccounted, ZenonT(60) DEF LightsInv
<1>4. QED
  BY <1>1, <1>2, <1>3, PTL DEF ShareSpec
=============================================================================
