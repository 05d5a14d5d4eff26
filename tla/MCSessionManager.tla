---------------------------- MODULE MCSessionManager ----------------------------
(* SessionManager for TLC: one session, two callers and the monitor.       *)
EXTENDS SessionManager, TLC

CONSTANTS c1, c2

MCCallers == {c1, c2}
================================================================================
