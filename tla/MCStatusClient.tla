--------------------------- MODULE MCStatusClient ---------------------------
(***************************************************************************)
(* Instances of StatusClient for TLC.                                      *)
(***************************************************************************)
EXTENDS StatusClient

\* Below a second, below the default, above it.
MCLearned == {0, 1, 3}

\* A page that stays visible.
VisibleSpec == ClientInit /\ ~hidden /\ [][ClientNext /\ ~hidden']_clientVars
=============================================================================
