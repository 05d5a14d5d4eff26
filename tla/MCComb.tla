--------------------------------- MODULE MCComb ---------------------------------
(* Comb for TLC: two clients, a key of each kind, values of two bytes and *)
(* one digit, and a limit of three.                                        *)
EXTENDS Comb, TLC

CONSTANTS c1, c2, m1, digit

MCClients == {c1, c2}
MCStrings == {<<m1, m1>>, <<digit>>}
Symmetric == Permutations(MCClients)
================================================================================
