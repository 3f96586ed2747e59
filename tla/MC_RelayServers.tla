-------------------------- MODULE MC_RelayServers ---------------------------
(***************************************************************************)
(* Two relay servers, the lists an operator can make of them, and two      *)
(* checks at a time: the timer ticks every 3 s, and connecting to a server *)
(* takes at most 3 s.                                                      *)
(***************************************************************************)
EXTENDS RelayServers

CONSTANTS s1, s2

OperatorLists == {<<s1>>, <<s2>>, <<s1, s2>>, <<>>}
=============================================================================
