----------------------------- MODULE MCStorage ------------------------------
(***************************************************************************)
(* Instances of Storage for TLC.                                           *)
(***************************************************************************)
EXTENDS Storage

CONSTANTS a, b

\* One payload for each distinction the handlers make.
Body(size, newline, valid, owner, interval, status) ==
    [size |-> size, newline |-> newline, valid |-> valid, owner |-> owner,
     interval |-> interval, status |-> status]

\* Labelled for instance a, without its final newline, and a larger one
\* without a label that brings the scrape interval and the status.
SafetyPayloads == {Body(1, FALSE, TRUE, a, None, FALSE),
                   Body(2, TRUE, TRUE, None, 3, TRUE)}

\* Malformed text beside well-formed text; the interval, cut
\* to whole seconds, is longer than the TTL.
LivenessPayloads == {Body(1, TRUE, FALSE, None, None, FALSE),
                     Body(2, TRUE, TRUE, None, 3, FALSE)}
=============================================================================
