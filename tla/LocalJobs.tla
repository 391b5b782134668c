----------------------------- MODULE LocalJobs -----------------------------
(***************************************************************************)
(* The local jobs of a session, with the shares seen for them, and what    *)
(* they depend on of a configuration of CoinShares.                        *)
(***************************************************************************)
EXTENDS Integers, Sequences, FiniteSets

\* StratumStatus
Accepted(status) == status \in {"ACCEPT", "ACCEPT_STALE", "SOLVED", "SOLVED_STALE"}

\* addLocalJob() of the session and of its miner
addLocalJob(m, j, key, d) ==
  [m EXCEPT !.local = Append(@, [key |-> key, id |-> j, serial |-> m.serial, seen |-> {},
                                 diffs |-> {d}, diff |-> d]),
            !.serial = @ + 1]

\* clearLocalJobs(): the last n are kept
keepLocalJobs(m, n) ==
  [m EXCEPT !.local = IF Len(@) <= n THEN @ ELSE SubSeq(@, Len(@) - n + 1, Len(@))]

-----------------------------------------------------------------------------
(* Configurations *)

\* What a local job is found by
ContentOf(conf, j) == IF conf.coin = "ckb" THEN j ELSE conf.jobs[j].key

\* Content may come back after that of other jobs, but not after so many of them that
\* its local job is gone, and the shares seen for it with it: no keepLocal jobs from the
\* one to the other have as many other contents.  Decred and Bytom make a local job of
\* each notification.
ComesBackSoon(conf) ==
  \A i, k \in DOMAIN conf.jobs :
    i < k /\ ContentOf(conf, i) = ContentOf(conf, k) =>
      ~\E f \in [1 .. conf.keepLocal -> i .. k] :
         /\ \A a \in DOMAIN f : ContentOf(conf, f[a]) # ContentOf(conf, i)
         /\ \A a, b \in DOMAIN f : ContentOf(conf, f[a]) = ContentOf(conf, f[b]) => a = b

ShareConf(conf) ==
  /\ {"coin", "jobs", "lights", "keepLocal", "maxLocal"} \subseteq DOMAIN conf
  /\ conf.coin \in {"eth", "beam", "grin", "ckb", "decred", "bytom"}
  /\ DOMAIN conf.jobs = 1 .. Len(conf.jobs) /\ Len(conf.jobs) \in Nat
  /\ conf.keepLocal \in Nat \ {0} /\ conf.maxLocal \in Nat /\ conf.keepLocal <= conf.maxLocal
  /\ IsFiniteSet(conf.lights)
  /\ conf.coin \in {"decred", "bytom"} \/ ComesBackSoon(conf)
=============================================================================
