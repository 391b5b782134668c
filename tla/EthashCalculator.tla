-------------------------- MODULE EthashCalculator --------------------------
(***************************************************************************)
(* The light caches with which the stratum server of Ethereum verifies     *)
(* shares: lightCaches_ holds the light of an epoch of EpochLength blocks, *)
(* built by detached threads when a job comes in, rebuilt by other ones    *)
(* when a computation fails, and by the share workers when it is missing.  *)
(* Every access is under lock_, but ethash_light_new() of a thread is not. *)
(*                                                                         *)
(* A light is a number: lights are never created twice, and ethash_light-  *)
(* _delete() of a light that is still in use would be a use after free.    *)
(***************************************************************************)
EXTENDS Integers, Sequences, FiniteSets, Functions

CONSTANTS
  EpochLength,    \* ETHASH_EPOCH_LENGTH
  MaxCacheSize    \* kMaxCacheSize_

ASSUME EthashAssumption ==
  EpochLength \in Nat \ {0} /\ MaxCacheSize \in Nat \ {0}

VARIABLES
  lights,     \* lightCaches_: the map, its queue_ of keys; the lights ever made
  building,   \* buildingLightCaches_
  builders,   \* the detached threads, in the order they were started
  lightFile   \* the epochs in the file that the calculator saves its lights to

lightVars == <<lights, building, builders, lightFile>>

Null == 0
Epoch(height) == height \div EpochLength

\* SeqMap::operator[] inserts the key that it does not find.
At(l, e) ==
  IF e \in DOMAIN l.map THEN l
  ELSE [l EXCEPT !.map = [k \in DOMAIN l.map \cup {e} |-> IF k = e THEN Null ELSE @[k]],
                 !.queue = Append(@, e)]

Put(l, e) == [At(l, e) EXCEPT !.map[e] = l.made + 1, !.made = @ + 1]

\* SeqMap::clear(): the keys that came first go first.
Surplus(l) == IF Len(l.queue) > MaxCacheSize THEN Len(l.queue) - MaxCacheSize ELSE 0
Oldest(l) == {l.queue[i] : i \in 1 .. Surplus(l)}
clear(l) ==
  LET gone == Oldest(l) IN
  [l EXCEPT !.queue = SubSeq(@, Surplus(l) + 1, Len(@)),
            !.map = [k \in DOMAIN l.map \ gone |-> @[k]],
            !.freed = @ \cup ({l.map[e] : e \in gone} \ {Null})]

\* The sequences of the elements of a set
Orders(S) == Bijection(1 .. Cardinality(S), S)

\* loadCacheFromFile(), on the lights that were saved. map_ is an unordered_map: they
\* are in the file in any order.
Loaded(order) ==
  [map |-> [e \in Range(order) |-> CHOOSE i \in DOMAIN order : order[i] = e],
   queue |-> order, made |-> Len(order), freed |-> {}]

\* saveCacheToFile()
Saved(l) == {e \in DOMAIN l.map : l.map[e] # Null}

-----------------------------------------------------------------------------
(* The detached threads *)

\* buildDagCacheNonBlocking() and rebuildDagCacheNonBlocking()
buildDagCacheNonBlocking(height) ==
  builders' = Append(builders, [height |-> height, pc |-> "look", left |-> <<>>])
rebuildDagCacheNonBlocking(height) ==
  builders' = Append(builders, [height |-> height, pc |-> "rebuild", left |-> <<>>])

Becomes(i, b) == builders' = [builders EXCEPT ![i] = b]
Ends(i) == builders' = SubSeq(builders, 1, i - 1) \o SubSeq(builders, i + 1, Len(builders))

\* the thread goes on with what is left to build
GoesOn(i, left) ==
  Becomes(i, [builders[i] EXCEPT !.left = left, !.pc = IF left = <<>> THEN "clear" ELSE "begin"])

\* buildDagCache() looks whether the lights of the epoch and of the next exist,
BuildLook(i) ==
  LET e == Epoch(builders[i].height)
      left == SelectSeq(<<e, e + 1>>, LAMBDA k : k \notin Saved(lights))
  IN /\ builders[i].pc = "look"
     /\ lights' = At(At(lights, e), e + 1)
     /\ IF left = <<>> THEN Ends(i) ELSE GoesOn(i, left)
     /\ UNCHANGED <<building, lightFile>>

\* begins with an epoch that no other thread is building,
BuildBegin(i) ==
  LET b == builders[i] IN
  /\ b.pc = "begin"
  /\ IF Head(b.left) \in building
     THEN GoesOn(i, Tail(b.left)) /\ UNCHANGED building
     ELSE /\ Becomes(i, [b EXCEPT !.pc = "put"])
          /\ building' = building \cup {Head(b.left)}
  /\ UNCHANGED <<lights, lightFile>>

\* The mutant does not look whether the light has been added meanwhile.
InstalledAnyway(l, e) == Put(l, e)

\* the light that ethash_light_new() has made, unless another thread was faster
Installed(l, e) ==
  IF e \in Saved(l) THEN [l EXCEPT !.made = @ + 1, !.freed = @ \cup {l.made + 1}] ELSE Put(l, e)

BuildPut(i) ==
  LET b == builders[i] IN
  /\ b.pc = "put"
  /\ building' = building \ {Head(b.left)}
  /\ lights' = Installed(lights, Head(b.left))
  /\ GoesOn(i, Tail(b.left))
  /\ UNCHANGED lightFile

\* and removes the redundant caches.
BuildClear(i) ==
  /\ builders[i].pc = "clear"
  /\ lights' = clear(lights)
  /\ Ends(i)
  /\ UNCHANGED <<building, lightFile>>

\* rebuildDagCache() puts its light in the place of the old one.
Replaced(l, e) ==
  Put(IF e \in Saved(l) THEN [l EXCEPT !.freed = @ \cup {l.map[e]}] ELSE l, e)

RebuildPut(i) ==
  /\ builders[i].pc = "rebuild"
  /\ lights' = Replaced(lights, Epoch(builders[i].height))
  /\ Ends(i)
  /\ UNCHANGED <<building, lightFile>>

BuilderStep ==
  \E i \in DOMAIN builders :
    BuildLook(i) \/ BuildBegin(i) \/ BuildPut(i) \/ BuildClear(i) \/ RebuildPut(i)

-----------------------------------------------------------------------------

\* compute() builds the light that it misses, all under the lock.
getDagCacheWithoutLock(l, e) == IF e \in Saved(l) THEN l ELSE Put(l, e)

LightInit(epochs) ==
  /\ \E order \in Orders(epochs) : lights = Loaded(order)
  /\ building = {} /\ builders = <<>>
  /\ lightFile = epochs

\* What the destructor leaves in the file. It does not wait for the detached threads:
\* an epoch that one of them has looked for may be in the map without a light, at
\* which the process ends, with some of the others written.
FilesAfter(l) ==
  IF l.queue = <<>> THEN {lightFile}
  ELSE IF Null \in Range(l.map) THEN SUBSET Saved(l) ELSE {Saved(l)}

\* The end of the server, with threads under way or not, whether the destructor is
\* called or the process is killed, and the constructor of the next run: the lights go
\* through the file.
RestartLights ==
  /\ lightFile' \in FilesAfter(lights) \cup {lightFile}
  /\ \E order \in Orders(lightFile') : lights' = Loaded(order)
  /\ building' = {} /\ builders' = <<>>

-----------------------------------------------------------------------------

\* Every light that was made is in the map, under one epoch only, or was deleted,
\* and never both: the threads neither leak a light of hundreds of megabytes nor
\* delete one that compute() still finds (buildDagCache, rebuildDagCache, clear).
LightsAccounted ==
  /\ \A i \in 1 .. lights.made :
       (i \in lights.freed) # (\E e \in DOMAIN lights.map : lights.map[e] = i)
  /\ \A e, f \in Saved(lights) : lights.map[e] = lights.map[f] => e = f
=============================================================================
