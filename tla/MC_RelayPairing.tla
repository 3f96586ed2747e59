-------------------------- MODULE MC_RelayPairing --------------------------
(***************************************************************************)
(* Four connections at a time, so that two relays run side by side and the *)
(* timer of a connection that was paired can meet the stream of another;   *)
(* TCP and proxied sources, which share an address.                        *)
(***************************************************************************)
EXTENDS RelayPairing
CONSTANT a
Tcp == [ip |-> a, ws |-> FALSE]
Proxied == [ip |-> a, ws |-> TRUE]
BothSources == {Tcp, Proxied}
=============================================================================
