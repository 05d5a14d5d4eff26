------------------------------ MODULE MCOrchestrator ------------------------------
(* Orchestrator for TLC: three stages, three tasks for two workers, two    *)
(* agents and two events, three segments.                                  *)
EXTENDS Orchestrator

CONSTANTS t1, t2, t3, a1, a2, e1, e2

MCMatching == {<<a1, e1>>, <<a2, e1>>, <<a2, e2>>}
================================================================================
