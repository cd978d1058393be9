---------------------------- MODULE MCEventSync ----------------------------
(***************************************************************************)
(* TLC instances of EventSync.                                             *)
(***************************************************************************)
EXTENDS EventSync

CONSTANTS a
=============================================================================
