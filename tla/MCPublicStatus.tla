--------------------------- MODULE MCPublicStatus ---------------------------
(***************************************************************************)
(* Instances of PublicStatus for TLC: single-shot pushes and polls only.   *)
(***************************************************************************)
EXTENDS PublicStatus

CONSTANTS a, b

Body(status) == [size |-> 1, newline |-> TRUE, valid |-> TRUE, owner |-> None,
                 interval |-> 1, status |-> status]

\* What is pushed with the status is NaN in one of the exported gauges.
NotANumber == {OneChunk(1, Body(TRUE))}

StatusPayloads == {Body(TRUE), Body(FALSE)}
=============================================================================
