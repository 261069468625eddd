----------------------------- MODULE Collector ------------------------------
(***************************************************************************)
(* The Prometheus collector (internal/storage/collector.go) on the live    *)
(* store: what a scrape of /metrics shows of each instance, and when it    *)
(* shows an instance as down.                                              *)
(*                                                                         *)
(* A scrape copies the live store under one read lock and works on the     *)
(* copy, so it is one action.                                              *)
(***************************************************************************)
EXTENDS Storage, Staleness

VARIABLE exposed  \* what the last scrape showed of each instance, or None

collectorVars == <<vars, exposed>>

\* The bound on ages does not blur the threshold of any body.
ASSUME AgeCapAssumption ==
    \A n \in {p.interval : p \in Payloads} \cup {DefaultInterval} :
        n # None => AgeCap * MultiplierDen > Threshold(n)

\* The samples of one instance.
Exposition == [bytes    : Nat,
               chunks   : Nat,
               expired  : Nat,
               ingested : Chunks \cup {None},   \* the body whose families are shown
               zeroed   : Chunks \cup {None},   \* the body whose status is shown as 0
               polled   : BOOLEAN \cup {None},
               rcon     : BOOLEAN \cup {None}]

ASSUME ExpositionAssumption == None \notin Exposition

-----------------------------------------------------------------------------
\* BUG: the status of the last body, whether or not it brings one.
ExpositionOfLast(state) ==
    [bytes    |-> state.TotalBytes,
     chunks   |-> state.TotalChunks,
     expired  |-> state.Expired,
     ingested |-> IF Stale(state) THEN None ELSE state.Ingested,
     zeroed   |-> IF /\ state.Ingested # None
                     /\ Stale(state)
                     /\ HasStatus(state.Ingested)
                  THEN state.Ingested ELSE None,
     polled   |-> state.Polled,
     rcon     |-> state.RCon]

ExpositionOf(state) ==
    [bytes    |-> state.TotalBytes,
     chunks   |-> state.TotalChunks,
     expired  |-> state.Expired,
     ingested |-> IF Stale(state) THEN None ELSE state.Ingested,
     zeroed   |-> IF state.Ingested # None /\ Stale(state) THEN state.Status ELSE None,
     polled   |-> state.Polled,
     rcon     |-> state.RCon]

CollectorInit == Init /\ exposed = [i \in Instances |-> None]

\* GetInstanceStates, then Collect over the copy.
Collect ==
    /\ exposed' = [i \in Instances |->
                     IF liveStore[i] = None THEN None ELSE ExpositionOf(liveStore[i])]
    /\ UNCHANGED vars

CollectorNext == Collect \/ (Next /\ UNCHANGED exposed)

CollectorSpec == CollectorInit /\ [][CollectorNext]_collectorVars

\* Prometheus keeps scraping, and time passes.
CollectorFairSpec ==
    /\ CollectorSpec
    /\ WF_collectorVars(Collect)
    /\ WF_collectorVars(Tick /\ UNCHANGED exposed)

-----------------------------------------------------------------------------
CollectorTypeOK == TypeOK /\ exposed \in [Instances -> Exposition \cup {None}]

Scraped == exposed' # exposed

\* The last body of i is older than the minimum age, and than the interval
\* which that body announced, times the multiplier.
Late(i) ==
    /\ liveStore[i].SinceIngest > MinStaleAge
    /\ liveStore[i].SinceIngest * MultiplierDen
          > IntervalOf(liveStore[i].Ingested) * MultiplierNum

Pushed(i) == liveStore[i] # None /\ liveStore[i].Ingested # None

ShownUp(i) ==
    /\ exposed'[i].ingested = liveStore[i].Ingested
    /\ exposed'[i].zeroed = None

\* An instance is shown as down only when it has missed the push its last
\* body, and not an earlier one, announced (in 60 s when it announced none):
\* as long as each push comes within that time, as the operator has stretched
\* or cut it, no scrape zeroes its status or withholds its families.
DownOnlyWhenLate ==
    [][\A i \in Instances :
          Scraped /\ Pushed(i) => Late(i) \/ ShownUp(i)]_collectorVars

\* What Prometheus reads as counters never goes down from one scrape to the
\* next, and an instance, once shown, is shown by every later scrape.
ScrapesNeverGoBack ==
    [][\A i \in Instances :
          exposed[i] # None =>
             /\ exposed'[i] # None
             /\ exposed'[i].bytes >= exposed[i].bytes
             /\ exposed'[i].chunks >= exposed[i].chunks
             /\ exposed'[i].expired >= exposed[i].expired]_collectorVars

PublishedStatus == {i \in Instances : liveStore[i] # None /\ liveStore[i].Status # None}

\* Once the pushes stop, every instance ends up shown without its ingested
\* families for good, however often it is polled; and if any of the bodies
\* it pushed brought a status, that status is shown as 0.
SilenceShown ==
    <>[](\A i \in Instances :
            exposed[i] # None =>
               /\ exposed[i].ingested = None
               /\ i \in PublishedStatus => exposed[i].zeroed = liveStore[i].Status)
=============================================================================
