----------------------------- MODULE Staleness ------------------------------
(***************************************************************************)
(* When what an instance has pushed is stale (internal/storage/collector.go *)
(* and StaleConfig).                                                       *)
(***************************************************************************)
EXTENDS Integers

CONSTANTS
    MultiplierNum,    \* stale.multiplier is a fraction of either sign: nothing
    MultiplierDen,    \*   keeps it from being less than one, or negative
    MinStaleAge       \* stale.min_age, in ticks

ASSUME StaleAssumption ==
    MultiplierNum \in Int /\ MultiplierDen \in Nat \ {0} /\ MinStaleAge \in Int

\* BUG: the smaller of the two.
ThresholdMin(interval) ==
    IF interval * MultiplierNum <= MinStaleAge * MultiplierDen
    THEN interval * MultiplierNum
    ELSE MinStaleAge * MultiplierDen

\* In ticks times MultiplierDen.
Threshold(interval) ==
    IF interval * MultiplierNum >= MinStaleAge * MultiplierDen
    THEN interval * MultiplierNum
    ELSE MinStaleAge * MultiplierDen

Stale(state) == state.SinceIngest * MultiplierDen > Threshold(state.ScrapeInterval)
=============================================================================
