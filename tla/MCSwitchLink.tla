---------------------------- MODULE MCSwitchLink ----------------------------
(* TLC instance of SwitchLink: three tasks of two sessions, one request each   *)
(* outstanding besides one abandoned.                                          *)
EXTENDS SwitchLink
=============================================================================
