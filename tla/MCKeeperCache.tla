------------------------------ MODULE MCKeeperCache ------------------------------
(* KeeperCache for TLC: two requests at a time on three keys and a cache   *)
(* of one entry.                                                           *)
EXTENDS KeeperCache, TLC

CONSTANTS c1, c2, k1, k2, k3, v1, v2

MCClients == {c1, c2}
MCKeys == {k1, k2, k3}
MCValues == {v1, v2}
Symmetric == Permutations(MCClients) \cup Permutations(MCKeys) \cup Permutations(MCValues)
================================================================================
