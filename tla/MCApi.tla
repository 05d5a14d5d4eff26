---------------------------------- MODULE MCApi ----------------------------------
(* Api for TLC: two callers of both APIs, a cell with a quota of one hive. *)
EXTENDS Api

CONSTANTS c1, c2, h1, h2, d1, d2, s1, s2

MCClients == {c1, c2}
MCHives == {h1, h2}
MCDrones == {d1, d2}
MCStages == {s1, s2}
MCReplicas == {0, 2}
================================================================================
