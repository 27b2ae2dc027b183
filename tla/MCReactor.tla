----------------------------- MODULE MCReactor -----------------------------
(***************************************************************************)
(* Instances of Reactor for TLC.                                           *)
(***************************************************************************)
EXTENDS Reactor, TLC

CONSTANTS acc, h1, h2, t1, t2

Symmetry == Permutations({h1, h2}) \cup Permutations({t1, t2})
=============================================================================
