---------------------------- MODULE MC_HolePunch ----------------------------
(***************************************************************************)
(* Askers of HolePunch: two websockets behind one proxy address, and a TCP *)
(* connection with an address of its own.                                  *)
(***************************************************************************)
EXTENDS HolePunch, TLC

CONSTANTS c1, c2, c3, proxy, own

Websockets == Permutations({c1, c2})

TwoProxied == [c \in Conns |-> IF c = c3 THEN own ELSE proxy]
=============================================================================
