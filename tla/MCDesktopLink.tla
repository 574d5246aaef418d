----------------------------- MODULE MCDesktopLink -----------------------------
(* The sign-in window, one watchdog routine and two routines for read      *)
(* loops and reconnectors.                                                 *)
EXTENDS DesktopLink
=============================================================================
