----------------------------- MODULE MCResourceStore -----------------------------
(* ResourceStore for TLC: two clients writing one resource in each of two  *)
(* cells, a watcher, and a channel of one event.                           *)
EXTENDS ResourceStore, TLC

CONSTANTS c1, c2

MCClients == {c1, c2}
Symmetric == Permutations(MCClients)
================================================================================
