---------------------------- MODULE MC_DesktopUi -----------------------------
(***************************************************************************)
(* Channels of two events and two clicks: enough for both channels to be   *)
(* full while a click waits.  One log file, and both services running.     *)
(***************************************************************************)
EXTENDS DesktopUi
=============================================================================
