---------------------------- MODULE MC_SessionApi ----------------------------
(***************************************************************************)
(* Two sessions.  A key outlives a token by one unit, and Headscale may    *)
(* take up to three: answers in time, just in time, and too late.          *)
(***************************************************************************)
EXTENDS SessionApi

CONSTANTS s1, s2
=============================================================================
