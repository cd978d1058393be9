-------------------------- MODULE MCEventLifecycle --------------------------
(***************************************************************************)
(* TLC instances of EventLifecycle; the cfg files give the constants.      *)
(***************************************************************************)
EXTENDS EventLifecycle
=============================================================================
