------------------------------ MODULE MCRoster ------------------------------
(***************************************************************************)
(* TLC instances of Roster: who may do what, kept small enough to explore  *)
(* every interleaving.                                                     *)
(***************************************************************************)
EXTENDS Roster, TLC

CONSTANTS a, b, c

\* a and c have the same parts to play where nothing recurs and only b is invited.
Alike == Permutations({a, c})
=============================================================================
