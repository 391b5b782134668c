------------------------ MODULE MCStratumConnections ------------------------
(***************************************************************************)
(* Three connection objects over three ids, allocated at an interval of    *)
(* two: the allocator skips ids, rolls back, scans over ids in use, fills  *)
(* up and reuses freed ids.                                                *)
(***************************************************************************)
EXTENDS StratumConnections
=============================================================================
