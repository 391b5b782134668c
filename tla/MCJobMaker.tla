----------------------------- MODULE MCJobMaker -----------------------------
(* Instances of JobMaker for TLC. *)
EXTENDS JobMaker

CONSTANTS n1, n2

Config(c, a, p, ns, mh, cr) ==
  [coin |-> c, aux |-> a, policy |-> p, nodes |-> ns,
   maxHeight |-> [n \in Nodes |-> IF n = n1 THEN mh ELSE 1],
   maxRev |-> IF a = "none" THEN 1 ELSE 0, crashes |-> cr, refused |-> {}]

\* Bitcoin with a second node that stays behind, or with a crash, or with a template
\* that is refused, or with a merged mined chain; the other coins with one node.
MCConfigs ==
  {Config("bitcoin", "none", 1, {n1, n2}, 2, 0),
   Config("bitcoin", "none", 1, {n1}, 2, 1),
   [Config("bitcoin", "none", 1, {n1}, 2, 0) EXCEPT !.refused = {<<n1, 2, 0>>}],
   Config("bitcoin", "nmc", 1, {n1}, 1, 0),
   Config("bitcoin", "rsk", 2, {n1}, 1, 0),
   Config("bitcoin", "vcash", 1, {n1}, 1, 0),
   Config("eth", "none", 1, {n1}, 2, 0),
   Config("ckb", "none", 1, {n1}, 2, 0),
   Config("decred", "none", 1, {n1}, 2, 0),
   Config("bytom", "none", 1, {n1}, 2, 0),
   Config("sia", "none", 1, {n1}, 1, 0)}

MCHashSuffix == [n \in Nodes |-> IF n = n1 THEN 1 ELSE 2]

MCDecred == {Config("decred", "none", 1, {n1}, 2, 0)}
=============================================================================
