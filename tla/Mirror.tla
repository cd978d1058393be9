------------------------------- MODULE Mirror -------------------------------
(***************************************************************************)
(* What copies of something, kept on Discord, promise: each only ever      *)
(* moves to a newer version, one at a time, never back, and never ahead of *)
(* what has been committed.                                                *)
(***************************************************************************)
EXTENDS Naturals

CONSTANT Copies

VARIABLES
  newest,   \* the version last committed
  copy      \* the version each copy shows

vars == <<newest, copy>>

Init == copy = [c \in Copies |-> newest]

Commit == newest' = newest + 1 /\ copy' = copy

Write(c) ==
  /\ newest' = newest
  /\ \E v \in copy[c]..newest : copy' = [copy EXCEPT ![c] = v]

Next == Commit \/ \E c \in Copies : Write(c)

Spec == Init /\ [][Next]_vars
=============================================================================
