-------------------------- MODULE MCCommandSession --------------------------
(***************************************************************************)
(* Instances of CommandSession for TLC: a client in lockstep that uses     *)
(* every command, and one that pipelines.                                  *)
(***************************************************************************)
EXTENDS CommandSession
=============================================================================
