----------------------------- MODULE MCElasticFleet -----------------------------
(* ElasticFleet for TLC: room for two standard drones or one complex one.    *)
EXTENDS ElasticFleet

MCScalings == {[min |-> 0, max |-> 1, target |-> 10], [min |-> 1, max |-> 2, target |-> 10]}
================================================================================
