-------------------------- MODULE ZookeeperUniqId --------------------------
(***************************************************************************)
(* The allocator of unique ids over ZooKeeper: stratum servers and job     *)
(* makers that are not configured with an id take one at their start.  An  *)
(* id is held by an ephemeral node, which lives as long as the session of  *)
(* the process that created it.                                            *)
(*                                                                         *)
(* A process has a main thread, which calls assignID(), and the thread of  *)
(* the ZooKeeper client, which runs globalWatcher().  The client adds no   *)
(* credentials to its session, so that ZOO_AUTH_FAILED_STATE never comes.  *)
(***************************************************************************)
EXTENDS Integers, FiniteSets

CONSTANTS
  Procs,       \* the processes that ask for an id under one parent path
  MaxId,       \* kIdUpperLimit - 1
  MaxExpiry,   \* bound of the number of sessions that expire
  None

ASSUME MaxIdAssumption == MaxId \in Nat \ {0}
ASSUME MaxExpiryAssumption == MaxExpiry \in Nat
ASSUME NoneAssumption == None \notin Procs

Ids == 1 .. MaxId

VARIABLES
  node,        \* node[i]: the process whose session holds the node of id i
  main,        \* main[p]: "down", "testing" (in the loop of assignID()),
               \* "created" (createIdNode() has returned true; not yet in
               \* uniqIds_, or assigned_ is false again) or "assigned"
  idSet,       \* idSet[p]: the ids set in idSet, a local of assignID()
  testedId,    \* testedId[p]; id_ once the node is created
  session,     \* session[p]: "live", "expired" (the service has dropped it and
               \* its nodes, and p has not been told) or "recovering" (the new
               \* session is live, recoveryID() has not created its node)
  late,        \* late[p]: the session was replaced while main[p] = "created", so
               \* that recoveryID() passed the id over (history)
  expiries     \* how many sessions have expired

vars == <<node, main, idSet, testedId, session, late, expiries>>

Init ==
  /\ node = [i \in Ids |-> None]
  /\ main = [p \in Procs |-> "down"]
  /\ idSet = [p \in Procs |-> {}]
  /\ testedId = [p \in Procs |-> 1]
  /\ session = [p \in Procs |-> "live"]
  /\ late = [p \in Procs |-> FALSE]
  /\ expiries = 0

\* The ephemeral nodes of a session that ends
Without(p) == [i \in Ids |-> IF node[i] = p THEN None ELSE node[i]]

\* The process ends: on an exception of its own or from outside.
Down(p) ==
  /\ main' = [main EXCEPT ![p] = "down"]
  /\ idSet' = [idSet EXCEPT ![p] = {}]
  /\ testedId' = [testedId EXCEPT ![p] = 1]
  /\ session' = [session EXCEPT ![p] = "live"]
  /\ late' = [late EXCEPT ![p] = FALSE]
  /\ node' = Without(p)
  /\ UNCHANGED expiries

-----------------------------------------------------------------------------
(* assignID() *)

\* getIdNodes() is read once; with a full pool an exception ends the process.
list(p) ==
  /\ main[p] = "down"
  /\ \E i \in Ids : node[i] = None
  /\ main' = [main EXCEPT ![p] = "testing"]
  /\ idSet' = [idSet EXCEPT ![p] = {i \in Ids : node[i] # None}]
  /\ UNCHANGED <<node, testedId, session, late, expiries>>

\* The service creates a node if there is none, for a session that it knows.
Creates(p, i) == session[p] # "expired" /\ node[i] = None

\* `!idSet.test(testedId) && createIdNode(testedId)'
create(p) ==
  LET i == testedId[p] IN
  /\ main[p] = "testing"
  /\ i \in Ids \ idSet[p]
  /\ Creates(p, i)
  /\ node' = [node EXCEPT ![i] = p]
  /\ main' = [main EXCEPT ![p] = "created"]
  /\ idSet' = [idSet EXCEPT ![p] = {}]
  /\ UNCHANGED <<testedId, session, late, expiries>>

\* The id is taken, or createIdNode() has got an error; an error of the
\* connection does not say whether the node was created.
skip(p) ==
  LET i == testedId[p] IN
  /\ main[p] = "testing"
  /\ i \in Ids
  /\ testedId' = [testedId EXCEPT ![p] = i + 1]
  /\ \/ UNCHANGED node
     \/ /\ i \notin idSet[p] /\ Creates(p, i)
        /\ node' = [node EXCEPT ![i] = p]
  /\ UNCHANGED <<main, idSet, session, late, expiries>>

\* No id was got: an exception ends the process.
fail(p) ==
  /\ main[p] = "testing"
  /\ testedId[p] \notin Ids
  /\ Down(p)

\* assigned_ = true; uniqIds_.push_back(zkId): from here on globalWatcher()
\* knows of the id.
register(p) ==
  /\ main[p] = "created"
  /\ main' = [main EXCEPT ![p] = "assigned"]
  /\ UNCHANGED <<node, idSet, testedId, session, late, expiries>>

-----------------------------------------------------------------------------
(* The session *)

\* The service drops a session that it has not heard of in time.
expire(p) ==
  /\ main[p] # "down"
  /\ session[p] # "expired"
  /\ expiries < MaxExpiry
  /\ session' = [session EXCEPT ![p] = "expired"]
  /\ node' = Without(p)
  /\ expiries' = expiries + 1
  /\ UNCHANGED <<main, idSet, testedId, late>>

\* The mutant takes the id for safe once it is connected again.
AfterReconnectLive(p) == "live"

AfterReconnect(p) == IF main[p] = "assigned" THEN "recovering" ELSE "live"

\* recoverySession(): a new session; recoveryUniqId() has something to do only
\* for an id in uniqIds_.
recoverySession(p) ==
  /\ session[p] = "expired"
  /\ session' = [session EXCEPT ![p] = AfterReconnect(p)]
  /\ late' = [late EXCEPT ![p] = main[p] = "created"]
  /\ UNCHANGED <<node, main, idSet, testedId, expiries>>

\* The connection was lost and is there again in the same session: recoveryID()
\* returns if the node holds the data of p, and goes on if it does not.
reconnect(p) ==
  /\ session[p] = "live" /\ main[p] = "assigned"
  /\ node[testedId[p]] # p
  /\ session' = [session EXCEPT ![p] = "recovering"]
  /\ late' = [late EXCEPT ![p] = FALSE]
  /\ UNCHANGED <<node, main, idSet, testedId, expiries>>

\* recoveryID() when it gets the node again; assigned_ is false until the
\* thread comes to set it.
recoveryID(p) ==
  /\ session[p] = "recovering"
  /\ Creates(p, testedId[p])
  /\ node' = [node EXCEPT ![testedId[p]] = p]
  /\ session' = [session EXCEPT ![p] = "live"]
  /\ main' = [main EXCEPT ![p] = "created"]
  /\ UNCHANGED <<idSet, testedId, late, expiries>>

\* The mutant goes on without its id.
GiveUpNot(p) ==
  /\ session' = [session EXCEPT ![p] = "live"]
  /\ UNCHANGED <<node, main, idSet, testedId, late, expiries>>

\* There is no idLostCallback: the exception is fatal in globalWatcher().
GiveUp(p) == Down(p)

\* recoveryID() when createIdNode() fails, with the node taken or for an error,
\* and connect() when it gets no connection.  A reconnected session whose node
\* cannot be read takes the same way, since its own node is there.
recoveryFails(p) ==
  /\ \/ session[p] = "recovering"
     \/ session[p] = "live" /\ main[p] = "assigned"
  /\ GiveUp(p)

connectFails(p) ==
  /\ session[p] = "expired"
  /\ Down(p)

\* The process is stopped or crashes.
crash(p) ==
  /\ main[p] # "down"
  /\ Down(p)

-----------------------------------------------------------------------------

Next ==
  \E p \in Procs :
    \/ list(p) \/ create(p) \/ skip(p) \/ fail(p) \/ register(p)
    \/ expire(p) \/ recoverySession(p) \/ reconnect(p) \/ recoveryID(p)
    \/ recoveryFails(p) \/ connectFails(p) \/ crash(p)

\* The client's thread notices that its session has expired, and reconnects or
\* gives up.
Fairness ==
  \A p \in Procs :
    /\ WF_vars(recoverySession(p) \/ connectFails(p))
    /\ WF_vars(session[p] = "recovering" /\ (recoveryID(p) \/ recoveryFails(p)))

Spec == Init /\ [][Next]_vars /\ Fairness

-----------------------------------------------------------------------------
(* Properties *)

\* The variables have their types.
TypeOK ==
  /\ node \in [Ids -> Procs \union {None}]
  /\ main \in [Procs -> {"down", "testing", "created", "assigned"}]
  /\ idSet \in [Procs -> SUBSET Ids]
  /\ testedId \in [Procs -> 1 .. MaxId + 1]
  /\ session \in [Procs -> {"live", "expired", "recovering"}]
  /\ late \in [Procs -> BOOLEAN]
  /\ expiries \in 0 .. MaxExpiry

\* p works with the id testedId[p].
Uses(p) == main[p] \in {"created", "assigned"}

Conflict(p, q) == p # q /\ Uses(p) /\ Uses(q) /\ testedId[p] = testedId[q]

\* Two processes work with one id only while one of them does not know, or is
\* about to find out, that its session has expired, or if its session was
\* replaced before its id was registered for recovery (assignID, recoveryID).
SharedOnlyWhileExpired ==
  \A p, q \in Procs :
    Conflict(p, q) => \E r \in {p, q} : session[r] # "live" \/ late[r]

\* "A Distributed Unique ID Allocator": two processes that both have a live
\* session do not work with the same id.
UniqueWhileLive ==
  \A p, q \in Procs : Conflict(p, q) => \E r \in {p, q} : session[r] # "live"

\* If two processes work with one id, one of them gives it up: the one whose
\* session expired finds the node taken, and ends (recoveryID).
ConflictEnds ==
  \A p, q \in Procs :
    Conflict(p, q) ~> (~Conflict(p, q) \/ late[p] \/ late[q])
=============================================================================
