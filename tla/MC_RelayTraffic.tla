-------------------------- MODULE MC_RelayTraffic ---------------------------
(***************************************************************************)
(* A second of one millisecond, which is two units: a look can be missed   *)
(* and a truncation lose a fraction.  A timer as long as a second, and     *)
(* locks that may take half of one.                                        *)
(***************************************************************************)
EXTENDS RelayTraffic
=============================================================================
