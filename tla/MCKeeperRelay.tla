------------------------------ MODULE MCKeeperRelay ------------------------------
(* KeeperRelay for TLC: two messages, each answer reporting one token.  *)
EXTENDS KeeperRelay

CONSTANTS r1, r2

MCCost == [r \in {r1, r2} |-> 1]
================================================================================
