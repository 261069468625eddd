---------------------------- MODULE MCCollector -----------------------------
(***************************************************************************)
(* An instance of Collector for TLC: single-shot pushes and polls only.    *)
(***************************************************************************)
EXTENDS Collector

CONSTANTS a, b

Body(interval, status) ==
    [size |-> 1, newline |-> TRUE, valid |-> TRUE, owner |-> None,
     interval |-> interval, status |-> status]

\* A body that announces an interval longer than the minimum age, and one
\* that announces none; either may come with the status.
CollectorPayloads == {Body(2, TRUE), Body(2, FALSE), Body(None, TRUE), Body(None, FALSE)}
=============================================================================
