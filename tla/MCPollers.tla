----------------------------- MODULE MCPollers ------------------------------
(***************************************************************************)
(* Instances of Pollers for TLC.                                           *)
(***************************************************************************)
EXTENDS Pollers

CONSTANTS a, b
=============================================================================
