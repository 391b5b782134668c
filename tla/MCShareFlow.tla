---------------------------- MODULE MCShareFlow ----------------------------
(* An instance of ShareFlow for TLC. *)
EXTENDS ShareFlow

Job(id, time, height, load, proxy) ==
  [id |-> id, time |-> time, height |-> height, load |-> load, votes |-> 0,
   mmClean |-> FALSE, proxy |-> proxy]

\* Two jobs for one height, the second of which is not sent at once.
MCJobs == {Job(1, 1, 1, 1, "none"), Job(2, 3, 1, 1, "none")}

\* The same, with a longer silence of the job maker between them.
SilenceJobs == {Job(1, 2, 1, 1, "none"), Job(2, 5, 1, 1, "none")}
=============================================================================
