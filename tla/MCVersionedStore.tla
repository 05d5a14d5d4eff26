--------------------------- MODULE MCVersionedStore ---------------------------
(* VersionedStore for TLC: two clients, one resource, two values, versions *)
(* up to four of which two are kept.                                       *)
EXTENDS VersionedStore, TLC

CONSTANTS c1, c2, v1, v2

MCClients == {c1, c2}
MCValues == {v1, v2}
Symmetric == Permutations(MCClients) \cup Permutations(MCValues)
================================================================================
