-------------------------- MODULE MCJobRepository --------------------------
(* An instance of JobRepository for TLC. *)
EXTENDS JobRepository

Job(id, time, height, load, votes, mmClean, proxy) ==
  [id |-> id, time |-> time, height |-> height, load |-> load, votes |-> votes,
   mmClean |-> mmClean, proxy |-> proxy]

\* An empty job and a full one, clean for merged mining, for height 1; a job for
\* height 2; a job of an upstream pool that is back at height 1; and one into
\* which the extranonces of a Bitcoin server do not fit.
MCJobs ==
  {Job(1, 1, 1, 0, 1, FALSE, "none"),
   Job(2, 1, 1, 12, 2, TRUE, "none"),
   Job(3, 2, 2, 3, 0, FALSE, "none"),
   Job(4, 3, 1, 3, 1, FALSE, "fits"),
   Job(5, 3, 2, 3, 3, FALSE, "small")}
=============================================================================
