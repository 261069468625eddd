--------------------------- MODULE MCUploadClient ---------------------------
(***************************************************************************)
(* Instances of UploadClient for TLC.                                      *)
(***************************************************************************)
EXTENDS UploadClient

CONSTANTS a, b

UploadPayloads == {[size |-> 1, newline |-> TRUE, valid |-> TRUE, owner |-> None,
                    interval |-> None, status |-> FALSE]}
=============================================================================
