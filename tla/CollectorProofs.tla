-------------------------- MODULE CollectorProofs ---------------------------
(***************************************************************************)
(* What a scrape shows, for every value of the constants: the types, that  *)
(* no scrape takes back what an earlier one showed, and that an instance   *)
(* that pushes in time is never shown as down.                             *)
(***************************************************************************)
EXTENDS Collector, StorageProofs

LEMMA ExpositionType ==
    ASSUME NEW state \in InstanceState
    PROVE  /\ ExpositionOf(state) \in Exposition
           /\ ExpositionOf(state) # None
           /\ ExpositionOf(state).bytes = state.TotalBytes
           /\ ExpositionOf(state).chunks = state.TotalChunks
           /\ ExpositionOf(state).expired = state.Expired
<1> DEFINE shown == ExpositionOf(state)
<1>1. shown \in Exposition
  BY DEF ExpositionOf, Exposition, InstanceState
<1>2. shown # None
  BY <1>1, ExpositionAssumption
<1>3. QED
  BY <1>1, <1>2 DEF ExpositionOf

LEMMA CollectorInitType == ASSUME CollectorInit PROVE CollectorTypeOK
BY InitType DEF CollectorInit, CollectorTypeOK

LEMMA CollectorNextType ==
    ASSUME CollectorTypeOK, [CollectorNext]_collectorVars
    PROVE  CollectorTypeOK'
<1>1. CASE Collect
  <2>1. TypeOK'
    BY <1>1, NextType DEF Collect, CollectorTypeOK
  <2>2. \A i \in Instances : liveStore[i] # None => liveStore[i] \in InstanceState
    BY DEF CollectorTypeOK, TypeOK
  <2>3. exposed' \in [Instances -> Exposition \cup {None}]
    BY <1>1, <2>2, ExpositionType DEF Collect
  <2>4. QED
    BY <2>1, <2>3 DEF CollectorTypeOK
<1>2. CASE [Next]_vars /\ UNCHANGED exposed
  BY <1>2, NextType DEF CollectorTypeOK
<1>3. QED
  BY <1>1, <1>2 DEF CollectorNext, collectorVars

\* The store and what is shown of it keep their types.
THEOREM CollectorTypeCorrect == CollectorSpec => []CollectorTypeOK
BY CollectorInitType, CollectorNextType, PTL DEF CollectorSpec

-----------------------------------------------------------------------------
\* What was shown of each instance is no more than what is known of it.
ShownKnown ==
    \A i \in Instances :
        exposed[i] # None =>
           /\ liveStore[i] # None
           /\ exposed[i].bytes <= liveStore[i].TotalBytes
           /\ exposed[i].chunks <= liveStore[i].TotalChunks
           /\ exposed[i].expired <= liveStore[i].Expired

LEMMA CollectShowsKnown ==
    ASSUME CollectorTypeOK, Collect, NEW i \in Instances, liveStore[i] # None
    PROVE  /\ exposed'[i] # None
           /\ exposed'[i].bytes = liveStore[i].TotalBytes
           /\ exposed'[i].chunks = liveStore[i].TotalChunks
           /\ exposed'[i].expired = liveStore[i].Expired
<1>1. liveStore[i] \in InstanceState
  BY DEF CollectorTypeOK, TypeOK
<1>2. exposed'[i] = ExpositionOf(liveStore[i])
  BY DEF Collect
<1>3. QED
  BY <1>1, <1>2, ExpositionType

LEMMA ShownKnownKept ==
    ASSUME CollectorTypeOK, ShownKnown, [CollectorNext]_collectorVars
    PROVE  ShownKnown'
<1>1. CASE Collect
  <2> SUFFICES ASSUME NEW i \in Instances, exposed'[i] # None
               PROVE  /\ liveStore'[i] # None
                      /\ exposed'[i].bytes <= liveStore'[i].TotalBytes
                      /\ exposed'[i].chunks <= liveStore'[i].TotalChunks
                      /\ exposed'[i].expired <= liveStore'[i].Expired
    BY DEF ShownKnown
  <2>1. liveStore[i] # None /\ liveStore' = liveStore
    BY <1>1 DEF Collect, vars
  <2>2. liveStore[i] \in InstanceState
    BY <2>1 DEF CollectorTypeOK, TypeOK
  <2>3. /\ liveStore[i].TotalBytes \in Nat
        /\ liveStore[i].TotalChunks \in Nat
        /\ liveStore[i].Expired \in Nat
    BY <2>2 DEF InstanceState
  <2>4. QED
    BY <1>1, <2>1, <2>3, CollectShowsKnown
<1>2. CASE [Next]_vars /\ UNCHANGED exposed
  <2> SUFFICES ASSUME NEW i \in Instances, exposed[i] # None
               PROVE  /\ liveStore'[i] # None
                      /\ exposed[i].bytes <= liveStore'[i].TotalBytes
                      /\ exposed[i].chunks <= liveStore'[i].TotalChunks
                      /\ exposed[i].expired <= liveStore'[i].Expired
    BY <1>2 DEF ShownKnown
  <2>1. StateGrows(i)
    BY <1>2, NextGrows DEF ShownKnown, CollectorTypeOK
  <2>2. /\ liveStore[i] \in InstanceState
        /\ liveStore'[i] \in InstanceState
        /\ exposed[i] \in Exposition
    <3>1. TypeOK'
      BY <1>2, NextType DEF CollectorTypeOK
    <3>2. QED
      BY <2>1, <3>1 DEF StateGrows, ShownKnown, CollectorTypeOK, TypeOK
  <2>3. /\ liveStore[i].TotalBytes \in Nat /\ liveStore'[i].TotalBytes \in Nat
        /\ liveStore[i].TotalChunks \in Nat /\ liveStore'[i].TotalChunks \in Nat
        /\ liveStore[i].Expired \in Nat /\ liveStore'[i].Expired \in Nat
        /\ exposed[i].bytes \in Nat
        /\ exposed[i].chunks \in Nat
        /\ exposed[i].expired \in Nat
    BY <2>2 DEF InstanceState, Exposition
  <2>4. QED
    BY <2>1, <2>3 DEF StateGrows, ShownKnown
<1>3. QED
  BY <1>1, <1>2 DEF CollectorNext, collectorVars

\* Collect exports counters that never go down from one scrape to the next,
\* and never drops an instance it has shown.
THEOREM ScrapesNeverGoBackCorrect == CollectorSpec => ScrapesNeverGoBack
<1> DEFINE Step == \A i \in Instances :
                      exposed[i] # None =>
                         /\ exposed'[i] # None
                         /\ exposed'[i].bytes >= exposed[i].bytes
                         /\ exposed'[i].chunks >= exposed[i].chunks
                         /\ exposed'[i].expired >= exposed[i].expired
<1>1. CollectorInit => ShownKnown
  BY DEF CollectorInit, ShownKnown
<1>2. CollectorTypeOK /\ ShownKnown /\ [CollectorNext]_collectorVars => ShownKnown'
  BY ShownKnownKept
<1>3. CollectorTypeOK /\ ShownKnown /\ [CollectorNext]_collectorVars => [Step]_collectorVars
  <2> SUFFICES ASSUME CollectorTypeOK, ShownKnown, CollectorNext,
                      NEW i \in Instances, exposed[i] # None
               PROVE  /\ exposed'[i] # None
                      /\ exposed'[i].bytes >= exposed[i].bytes
                      /\ exposed'[i].chunks >= exposed[i].chunks
                      /\ exposed'[i].expired >= exposed[i].expired
    OBVIOUS
  <2>1. exposed[i] \in Exposition /\ liveStore[i] # None /\ liveStore[i] \in InstanceState
    BY DEF ShownKnown, CollectorTypeOK, TypeOK
  <2>2. /\ exposed[i].bytes \in Nat /\ liveStore[i].TotalBytes \in Nat
        /\ exposed[i].chunks \in Nat /\ liveStore[i].TotalChunks \in Nat
        /\ exposed[i].expired \in Nat /\ liveStore[i].Expired \in Nat
    BY <2>1 DEF Exposition, InstanceState
  <2>3. CASE Collect
    <3>1. /\ exposed'[i] # None
          /\ exposed'[i].bytes = liveStore[i].TotalBytes
          /\ exposed'[i].chunks = liveStore[i].TotalChunks
          /\ exposed'[i].expired = liveStore[i].Expired
      BY <2>1, <2>3, CollectShowsKnown
    <3>2. /\ exposed[i].bytes <= liveStore[i].TotalBytes
          /\ exposed[i].chunks <= liveStore[i].TotalChunks
          /\ exposed[i].expired <= liveStore[i].Expired
      BY DEF ShownKnown
    <3>3. QED
      BY <2>2, <3>1, <3>2
  <2>4. CASE UNCHANGED exposed
    BY <2>2, <2>4
  <2>5. QED
    BY <2>3, <2>4 DEF CollectorNext
<1>4. QED
  BY <1>1, <1>2, <1>3, CollectorTypeCorrect, PTL DEF CollectorSpec, ScrapesNeverGoBack

-----------------------------------------------------------------------------
\* The interval an instance is held to is the one its last body announced.
IntervalKnown ==
    \A i \in Instances :
        liveStore[i] # None /\ liveStore[i].Ingested # None =>
            liveStore[i].ScrapeInterval = IntervalOf(liveStore[i].Ingested)

LEMMA IntervalKnownKept ==
    ASSUME CollectorTypeOK, IntervalKnown, [CollectorNext]_collectorVars
    PROVE  IntervalKnown'
<1>1. CASE UNCHANGED vars
  BY <1>1 DEF vars, IntervalKnown
<1>2. CASE [Next]_vars
  <2> SUFFICES ASSUME NEW i \in Instances,
                      liveStore'[i] # None, liveStore'[i].Ingested # None
               PROVE  liveStore'[i].ScrapeInterval = IntervalOf(liveStore'[i].Ingested)
    BY DEF IntervalKnown
  <2>1. TypeOK
    BY DEF CollectorTypeOK
  <2>2. CASE /\ liveStore[i] # None
             /\ liveStore'[i].Ingested = liveStore[i].Ingested
             /\ liveStore'[i].ScrapeInterval = liveStore[i].ScrapeInterval
    BY <2>2 DEF IntervalKnown
  <2>3. QED
    BY <1>2, <2>1, <2>2, PublishedBodies
<1>3. QED
  BY <1>1, <1>2 DEF CollectorNext, Collect, collectorVars

LEMMA LargerFactor ==
    ASSUME NEW x \in Int, NEW y \in Int, NEW d \in Nat, d > 0, x * d > y * d
    PROVE  x > y
BY Z3

LEMMA ThresholdLarger ==
    ASSUME NEW n \in Int, NEW age \in Int,
           age * MultiplierDen > Threshold(n)
    PROVE  age > MinStaleAge /\ age * MultiplierDen > n * MultiplierNum
<1>1. MultiplierNum \in Int /\ MultiplierDen \in Nat /\ MultiplierDen > 0 /\ MinStaleAge \in Int
  BY StaleAssumption
<1>2. /\ age * MultiplierDen \in Int
      /\ n * MultiplierNum \in Int
      /\ MinStaleAge * MultiplierDen \in Int
  BY <1>1
<1>3. /\ age * MultiplierDen > n * MultiplierNum
      /\ age * MultiplierDen > MinStaleAge * MultiplierDen
  BY <1>2 DEF Threshold
<1>4. age > MinStaleAge
  BY <1>1, <1>3, LargerFactor
<1>5. QED
  BY <1>3, <1>4

LEMMA UpUnlessLate ==
    ASSUME CollectorTypeOK, IntervalKnown, CollectorNext, Scraped,
           NEW i \in Instances, Pushed(i), ~Late(i)
    PROVE  ShownUp(i)
<1>1. exposed'[i] = ExpositionOf(liveStore[i])
  BY DEF CollectorNext, Collect, Scraped, Pushed
<1>2. liveStore[i] \in InstanceState /\ AgeCap \in Nat
  BY NumbersAssumption DEF CollectorTypeOK, TypeOK, Pushed
<1>3. liveStore[i].SinceIngest \in Nat /\ liveStore[i].ScrapeInterval \in Nat
  BY <1>2 DEF InstanceState
<1>4. liveStore[i].ScrapeInterval = IntervalOf(liveStore[i].Ingested)
  BY DEF IntervalKnown, Pushed
<1>5. ~Stale(liveStore[i])
  BY <1>3, <1>4, ThresholdLarger DEF Stale, Late
<1>6. QED
  BY <1>1, <1>5 DEF ExpositionOf, ShownUp

\* No scrape zeroes the status of an instance or withholds its families
\* before the interval that its last body announced, times the multiplier,
\* and the minimum age are over.
THEOREM DownOnlyWhenLateCorrect == CollectorSpec => DownOnlyWhenLate
<1>1. CollectorInit => IntervalKnown
  BY DEF CollectorInit, Init, IntervalKnown
<1>2. CollectorTypeOK /\ IntervalKnown /\ [CollectorNext]_collectorVars => IntervalKnown'
  BY IntervalKnownKept
<1>3. CollectorTypeOK /\ IntervalKnown /\ [CollectorNext]_collectorVars
         => [\A i \in Instances : Scraped /\ Pushed(i) => Late(i) \/ ShownUp(i)]_collectorVars
  BY UpUnlessLate DEF Scraped, collectorVars
<1>4. QED
  BY <1>1, <1>2, <1>3, CollectorTypeCorrect, PTL DEF CollectorSpec, DownOnlyWhenLate

-----------------------------------------------------------------------------
LEMMA LongerFactor ==
    ASSUME NEW age \in Nat, NEW n \in Nat, NEW num \in Int, NEW den \in Nat,
           num >= den, age <= n
    PROVE  age * den <= n * num
<1>1. age * den <= n * den
  BY Z3
<1>2. n * den <= n * num
  BY Z3
<1>3. age * den \in Int /\ n * den \in Int /\ n * num \in Int
  OBVIOUS
<1>4. QED
  BY <1>1, <1>2, <1>3

\* With a multiplier of at least one, which is up to the operator, an instance
\* that pushes within the interval it announced is never shown as down.
THEOREM InTimeIsUp ==
    ASSUME MultiplierNum >= MultiplierDen
    PROVE  CollectorSpec =>
             [][\A i \in Instances :
                   /\ Scraped /\ Pushed(i)
                   /\ liveStore[i].SinceIngest <= IntervalOf(liveStore[i].Ingested)
                   => ShownUp(i)]_collectorVars
<1> DEFINE InTime == \A i \in Instances :
                        /\ Scraped /\ Pushed(i)
                        /\ liveStore[i].SinceIngest <= IntervalOf(liveStore[i].Ingested)
                        => ShownUp(i)
<1>1. CollectorInit => IntervalKnown
  BY DEF CollectorInit, Init, IntervalKnown
<1>2. CollectorTypeOK /\ IntervalKnown /\ [CollectorNext]_collectorVars => IntervalKnown'
  BY IntervalKnownKept
<1>3. CollectorTypeOK /\ IntervalKnown /\ [CollectorNext]_collectorVars => [InTime]_collectorVars
  <2> SUFFICES ASSUME CollectorTypeOK, IntervalKnown, CollectorNext, Scraped,
                      NEW i \in Instances, Pushed(i),
                      liveStore[i].SinceIngest <= IntervalOf(liveStore[i].Ingested)
               PROVE  ShownUp(i)
    BY DEF Scraped, collectorVars
  <2>1. liveStore[i] \in InstanceState /\ AgeCap \in Nat
    BY NumbersAssumption DEF CollectorTypeOK, TypeOK, Pushed
  <2>2. /\ liveStore[i].SinceIngest \in Nat
        /\ liveStore[i].ScrapeInterval \in Nat
        /\ liveStore[i].ScrapeInterval = IntervalOf(liveStore[i].Ingested)
    BY <2>1 DEF InstanceState, IntervalKnown, Pushed
  <2>3. MultiplierNum \in Int /\ MultiplierDen \in Nat
    BY StaleAssumption
  <2>4. liveStore[i].SinceIngest * MultiplierDen
           <= IntervalOf(liveStore[i].Ingested) * MultiplierNum
    BY <2>2, <2>3, LongerFactor
  <2>5. ~Late(i)
    BY <2>2, <2>3, <2>4 DEF Late
  <2>6. QED
    BY <2>5, UpUnlessLate
<1>4. QED
  BY <1>1, <1>2, <1>3, CollectorTypeCorrect, PTL DEF CollectorSpec
=============================================================================
