---------------------------- MODULE MC_IpBlocker ----------------------------
(* One address and five ids; every limit at the smallest value that still  *)
(* separates "before", "at" and "past" the limit.                          *)
EXTENDS IpBlocker
CONSTANTS a, d1, d2, d3, d4, d5
MCIps == {a}
MCIds == {d1, d2, d3, d4, d5}
=============================================================================
