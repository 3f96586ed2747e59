---------------------------- MODULE MC_ServerLife ----------------------------
(***************************************************************************)
(* Two keys: each server may generate one, or one of them two, over a      *)
(* crash.                                                                  *)
(***************************************************************************)
EXTENDS ServerLife
CONSTANTS k1, k2
=============================================================================
