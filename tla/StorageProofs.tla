--------------------------- MODULE StorageProofs ----------------------------
(***************************************************************************)
(* Proofs about Storage, for every value of its constants: the laws of the *)
(* sums it keeps, the type invariant, the byte accounting of the staging   *)
(* buffer and its quota, one transaction per instance, what is published,  *)
(* and that Storage implements UploadLog.                                  *)
(***************************************************************************)
EXTENDS Storage, FiniteSetTheorems, TLAPS

-----------------------------------------------------------------------------
(* The laws of Total: it is a natural number, zero on nothing and on       *)
(* zeros, additive over disjoint sets, and it follows an update of one     *)
(* summand by the difference.                                              *)

\* The heap of one x is finite, and holds f[x] units.
LEMMA HeapCardinality ==
    ASSUME NEW x, NEW n \in Int
    PROVE  /\ IsFiniteSet({x} \X (1 .. n))
           /\ n \in Nat => Cardinality({x} \X (1 .. n)) = n
<1>1. IsFiniteSet(1 .. n) /\ (n \in Nat => Cardinality(1 .. n) = n)
  BY FS_Interval
<1>2. IsFiniteSet({x}) /\ Cardinality({x}) = 1
  BY FS_Singleton
<1>3. /\ IsFiniteSet({x} \X (1 .. n))
      /\ Cardinality({x} \X (1 .. n)) = Cardinality({x}) * Cardinality(1 .. n)
  BY <1>1, <1>2, FS_Product
<1>4. QED
  BY <1>1, <1>2, <1>3

\* The units over a finite set are finitely many.
LEMMA UnitsFinite ==
    ASSUME NEW f, NEW S, IsFiniteSet(S), \A x \in S : f[x] \in Int
    PROVE  IsFiniteSet(Units(f, S))
<1> DEFINE Heap == [x \in S |-> {x} \X (1 .. f[x])]
           Heaps == {Heap[x] : x \in S}
<1>1. IsFiniteSet(Heaps)
  <2>1. Heap \in Surjection(S, Heaps)
    BY DEF Surjection
  <2>2. QED
    BY <2>1, FS_Surjection
<1>2. ASSUME NEW h \in Heaps
      PROVE  IsFiniteSet(h)
  <2>1. PICK x \in S : h = {x} \X (1 .. f[x])
    OBVIOUS
  <2>2. QED
    BY <2>1, HeapCardinality
<1>3. Units(f, S) = UNION Heaps
  BY DEF Units
<1>4. QED
  BY <1>1, <1>2, <1>3, FS_UNION

LEMMA TotalType ==
    ASSUME NEW f, NEW S, IsFiniteSet(S), \A x \in S : f[x] \in Int
    PROVE  Total(f, S) \in Nat
BY UnitsFinite, FS_CardinalityType DEF Total

LEMMA TotalEmpty ==
    ASSUME NEW f
    PROVE  Total(f, {}) = 0
<1>1. Units(f, {}) = {}
  BY DEF Units
<1>2. QED
  BY <1>1, FS_EmptySet DEF Total

LEMMA TotalSingle ==
    ASSUME NEW f, NEW x, f[x] \in Nat
    PROVE  Total(f, {x}) = f[x]
<1>1. Units(f, {x}) = {x} \X (1 .. f[x])
  BY DEF Units
<1>2. ASSUME NEW n \in Nat
      PROVE  Cardinality({x} \X (1 .. n)) = n
  <2>1. n \in Int
    OBVIOUS
  <2>2. QED
    BY <2>1, HeapCardinality
<1>3. QED
  BY <1>1, <1>2 DEF Total

\* Functions that agree on S have the same total over S.
LEMMA TotalSame ==
    ASSUME NEW f, NEW g, NEW S, \A x \in S : f[x] = g[x]
    PROVE  Total(f, S) = Total(g, S)
<1>1. Units(f, S) = Units(g, S)
  BY DEF Units
<1>2. QED
  BY <1>1 DEF Total

\* The total is additive over disjoint sets.
LEMMA TotalSplit ==
    ASSUME NEW f, NEW S, NEW T, IsFiniteSet(S), IsFiniteSet(T),
           S \cap T = {}, \A x \in S \cup T : f[x] \in Nat
    PROVE  Total(f, S \cup T) = Total(f, S) + Total(f, T)
<1>1. Units(f, S \cup T) = Units(f, S) \cup Units(f, T)
  BY DEF Units
<1>2. Units(f, S) \cap Units(f, T) = {}
  BY DEF Units
<1>3. IsFiniteSet(Units(f, S)) /\ IsFiniteSet(Units(f, T))
  BY UnitsFinite
<1>4. /\ Cardinality(Units(f, S)) \in Nat
      /\ Cardinality(Units(f, T)) \in Nat
      /\ Cardinality(Units(f, S) \cap Units(f, T)) = 0
  BY <1>2, <1>3, FS_CardinalityType, FS_EmptySet
<1>5. Cardinality(Units(f, S) \cup Units(f, T))
        = Cardinality(Units(f, S)) + Cardinality(Units(f, T))
          - Cardinality(Units(f, S) \cap Units(f, T))
  BY <1>3, FS_Union
<1>6. Total(f, S \cup T) = Cardinality(Units(f, S) \cup Units(f, T))
  BY <1>1 DEF Total
<1>7. Total(f, S) = Cardinality(Units(f, S)) /\ Total(f, T) = Cardinality(Units(f, T))
  BY DEF Total
<1>8. QED
  BY <1>4, <1>5, <1>6, <1>7

\* Nothing but zeros adds up to zero.
LEMMA TotalZero ==
    ASSUME NEW f, NEW S, \A x \in S : f[x] = 0
    PROVE  Total(f, S) = 0
<1>1. \A x \in S : 1 .. f[x] = {}
  OBVIOUS
<1>2. Units(f, S) = {}
  BY <1>1 DEF Units
<1>3. QED
  BY <1>2, FS_EmptySet DEF Total

\* A part of S adds up to no more than S.
LEMMA TotalPart ==
    ASSUME NEW f, NEW S, NEW T \in SUBSET S, IsFiniteSet(S),
           \A x \in S : f[x] \in Nat
    PROVE  /\ Total(f, T) \in Nat
           /\ Total(f, S \ T) \in Nat
           /\ Total(f, S) = Total(f, T) + Total(f, S \ T)
<1>1. IsFiniteSet(T) /\ IsFiniteSet(S \ T)
  BY FS_Subset
<1>2. Total(f, T) \in Nat /\ Total(f, S \ T) \in Nat
  BY <1>1, TotalType
<1>3. S = T \cup (S \ T) /\ T \cap (S \ T) = {}
  OBVIOUS
<1>4. Total(f, T \cup (S \ T)) = Total(f, T) + Total(f, S \ T)
  BY <1>1, <1>3, TotalSplit
<1>5. QED
  BY <1>2, <1>3, <1>4

\* Changing one summand changes the total by the difference.
LEMMA TotalUpdate ==
    ASSUME NEW f, NEW g, NEW S, NEW x \in S, IsFiniteSet(S),
           \A y \in S : f[y] \in Nat,
           g[x] \in Nat,
           \A y \in S \ {x} : g[y] = f[y]
    PROVE  Total(g, S) = Total(f, S) - f[x] + g[x]
<1>1. \A y \in S : g[y] \in Nat
  OBVIOUS
<1> {x} \in SUBSET S
  OBVIOUS
<1>2. /\ Total(f, S \ {x}) \in Nat
      /\ Total(f, S) = f[x] + Total(f, S \ {x})
  <2>1. Total(f, {x}) = f[x]
    BY TotalSingle
  <2>2. /\ Total(f, S \ {x}) \in Nat
        /\ Total(f, S) = Total(f, {x}) + Total(f, S \ {x})
    BY TotalPart
  <2>3. QED
    BY <2>1, <2>2
<1>3. Total(g, S) = g[x] + Total(g, S \ {x})
  <2>1. Total(g, {x}) = g[x]
    BY TotalSingle
  <2>2. Total(g, S) = Total(g, {x}) + Total(g, S \ {x})
    BY <1>1, TotalPart
  <2>3. QED
    BY <2>1, <2>2
<1>4. Total(g, S \ {x}) = Total(f, S \ {x})
  BY TotalSame
<1>5. QED
  BY <1>2, <1>3, <1>4

\* Emptying the heaps of T takes their total away.
LEMMA TotalRemove ==
    ASSUME NEW f, NEW g, NEW S, NEW T \in SUBSET S, IsFiniteSet(S),
           \A x \in S : f[x] \in Nat,
           \A x \in T : g[x] = 0,
           \A x \in S \ T : g[x] = f[x]
    PROVE  /\ Total(g, S) = Total(f, S) - Total(f, T)
           /\ Total(g, S) \in Nat
<1>1. \A x \in S : g[x] \in Nat
  OBVIOUS
<1>2. Total(g, S) = Total(g, T) + Total(g, S \ T)
  BY <1>1, TotalPart
<1>3. Total(g, T) = 0
  BY TotalZero
<1>4. Total(g, S \ T) = Total(f, S \ T)
  BY TotalSame
<1>5. Total(f, S) = Total(f, T) + Total(f, S \ T)
  BY TotalPart
<1>6. Total(f, T) \in Nat /\ Total(f, S \ T) \in Nat
  BY FS_Subset, TotalType
<1>7. QED
  BY <1>2, <1>3, <1>4, <1>5, <1>6

-----------------------------------------------------------------------------
(* What the helpers return.                                                *)

LEMMA ChunkSizesType ==
    ASSUME NEW chunks \in Chunks
    PROVE  \A s \in SeqIDs : ChunkSizes(chunks)[s] \in Nat
BY PayloadsAssumption DEF Payload, Chunks, ChunkSizes, ChunkSize

LEMMA BytesReadType ==
    ASSUME NEW chunks \in Chunks
    PROVE  BytesRead(chunks) \in Nat
<1> DEFINE f == [s \in SeqIDs |->
                   IF chunks[s] = None THEN 0
                   ELSE chunks[s].size
                        + (IF chunks[s].size > 0 /\ ~chunks[s].newline THEN 1 ELSE 0)]
<1>1. \A s \in SeqIDs : f[s] \in Int
  BY PayloadsAssumption DEF Payload, Chunks
<1>2. Total(f, SeqIDs) \in Nat
  BY <1>1, SetsAssumption, TotalType
<1>3. QED
  BY <1>2 DEF BytesRead

LEMMA PresentType ==
    ASSUME NEW chunks
    PROVE  /\ IsFiniteSet(Present(chunks))
           /\ Cardinality(Present(chunks)) \in Nat
BY SetsAssumption, FS_Subset, FS_CardinalityType DEF Present

LEMMA IntervalType ==
    ASSUME NEW chunks \in Chunks
    PROVE  IntervalOf(chunks) \in Nat
BY PayloadsAssumption, NumbersAssumption DEF Payload, IntervalOf, Present, Chunks

LEMMA SingleBodyType ==
    ASSUME NEW p \in Payloads
    PROVE  SingleBody(p) \in Chunks
BY DEF SingleBody, OneChunk, NoChunks, Chunks

LEMMA WholeSecondsType ==
    ASSUME NEW ticks \in Nat
    PROVE  WholeSeconds(ticks) \in Nat
<1>1. ticks \div Second \in Nat /\ Second \in Nat
  BY NumbersAssumption
<1>2. QED
  BY <1>1 DEF WholeSeconds

LEMMA TTLType ==
    ASSUME TypeOK, NEW i \in Instances
    PROVE  TTL(i) \in Nat
BY WholeSecondsType, NumbersAssumption DEF TypeOK, TTL, InstanceState, MaxOf

LEMMA ItemSizesType ==
    ASSUME TypeOK
    PROVE  \A t \in Txns : ItemSizes[t] \in Int
BY DEF TypeOK, ItemSizes, ItemSize, StagingItem

\* Taking transactions out leaves a typed store and an integer size.
LEMMA WithoutType ==
    ASSUME TypeOK, NEW gone \in SUBSET Txns
    PROVE  /\ StoreWithout(gone) \in [Txns -> StagingItem \cup {None}]
           /\ SizeWithout(gone) \in Int
<1>1. IsFiniteSet(gone) /\ \A t \in gone : ItemSizes[t] \in Int
  BY SetsAssumption, FS_Subset, ItemSizesType
<1>2. Total(ItemSizes, gone) \in Nat
  BY <1>1, TotalType
<1>3. QED
  BY <1>2 DEF TypeOK, StoreWithout, SizeWithout

LEMMA StateType ==
    ASSUME TypeOK, NEW i \in Instances
    PROVE  getOrCreateState(i) \in InstanceState
BY NumbersAssumption DEF TypeOK, getOrCreateState, NewState, InstanceState

\* An update of the fields UpdateIngested assigns keeps a state typed.
LEMMA IngestedStateType ==
    ASSUME NEW state \in InstanceState,
           NEW chunks \in Chunks, NEW status \in Chunks \cup {None},
           NEW interval \in Nat, NEW n \in Nat, NEW m \in Nat
    PROVE  [state EXCEPT
              !.Ingested       = chunks,
              !.Status         = status,
              !.ScrapeInterval = interval,
              !.SinceIngest    = 0,
              !.TotalBytes     = @ + n,
              !.TotalChunks    = @ + m] \in InstanceState
<1>1. 0 \in 0 .. AgeCap
  BY NumbersAssumption
<1>2. state.TotalBytes + n \in Nat /\ state.TotalChunks + m \in Nat
  BY DEF InstanceState
<1>3. QED
  BY <1>1, <1>2 DEF InstanceState

\* The state UpdateIngested leaves behind.
LEMMA UpdatedState ==
    ASSUME TypeOK, NEW i \in Instances, NEW chunks \in Chunks,
           NEW n \in Nat, NEW m \in Nat, UpdateIngested(i, chunks, n, m)
    PROVE  /\ liveStore'[i] \in InstanceState
           /\ liveStore'[i].Ingested = chunks
           /\ liveStore'[i].Status \in {chunks, getOrCreateState(i).Status}
           /\ liveStore'[i].Polled = getOrCreateState(i).Polled
           /\ liveStore'[i].RCon = getOrCreateState(i).RCon
           /\ liveStore'[i].TotalBytes = getOrCreateState(i).TotalBytes + n
           /\ liveStore'[i].TotalChunks = getOrCreateState(i).TotalChunks + m
           /\ liveStore'[i].Expired = getOrCreateState(i).Expired
           /\ liveStore' = [liveStore EXCEPT ![i] = liveStore'[i]]
<1> DEFINE state == getOrCreateState(i)
           status == IF HasStatus(chunks) THEN chunks ELSE state.Status
           updated == [state EXCEPT
                         !.Ingested       = chunks,
                         !.Status         = status,
                         !.ScrapeInterval = IntervalOf(chunks),
                         !.SinceIngest    = 0,
                         !.TotalBytes     = @ + n,
                         !.TotalChunks    = @ + m]
<1>1. state \in InstanceState /\ IntervalOf(chunks) \in Nat
  BY StateType, IntervalType
<1>2. status \in Chunks \cup {None}
  BY <1>1 DEF InstanceState
<1>3. liveStore' = [liveStore EXCEPT ![i] = updated] /\ liveStore'[i] = updated
  BY DEF UpdateIngested, TypeOK
<1>4. status \in {chunks, state.Status}
  OBVIOUS
<1> HIDE DEF state, status
<1>5. updated \in InstanceState
  BY <1>1, <1>2, IngestedStateType
<1>6. /\ updated.Ingested = chunks
      /\ updated.Status = status
      /\ updated.Polled = state.Polled
      /\ updated.RCon = state.RCon
      /\ updated.TotalBytes = state.TotalBytes + n
      /\ updated.TotalChunks = state.TotalChunks + m
      /\ updated.Expired = state.Expired
  BY <1>1 DEF InstanceState
<1> HIDE DEF updated
<1>7. QED
  BY <1>3, <1>4, <1>5, <1>6 DEF state

LEMMA UpdateIngestedType ==
    ASSUME TypeOK, NEW i \in Instances, NEW chunks \in Chunks,
           NEW n \in Nat, NEW m \in Nat, UpdateIngested(i, chunks, n, m)
    PROVE  liveStore' \in [Instances -> InstanceState \cup {None}]
BY UpdatedState DEF TypeOK

-----------------------------------------------------------------------------
(* Type correctness.                                                       *)

LEMMA InitType == ASSUME Init PROVE TypeOK
BY NumbersAssumption DEF Init, TypeOK

\* The transaction ExtendTxn leaves behind.
LEMMA ExtendedItem ==
    ASSUME TypeOK, NEW t \in Txns, NEW s \in SeqIDs, NEW p \in Payloads,
           ExtendTxn(t, s, p)
    PROVE  /\ t \in Staged
           /\ stagingStore[t] \in StagingItem
           /\ Delta(t, s, p) \in Int
           /\ stagingStore'[t] \in StagingItem
           /\ stagingStore'[t].Chunks = [stagingStore[t].Chunks EXCEPT ![s] = p]
           /\ stagingStore'[t].ByteSize = stagingStore[t].ByteSize + Delta(t, s, p)
           /\ stagingStore'[t].InstanceID = stagingStore[t].InstanceID
           /\ stagingStore'[t].ExpiresIn = stagingStore[t].ExpiresIn
           /\ stagingStore' = [stagingStore EXCEPT ![t] = stagingStore'[t]]
<1> DEFINE item == stagingStore[t]
           item2 == [item EXCEPT !.Chunks[s] = p, !.ByteSize = @ + Delta(t, s, p)]
<1>1. t \in Staged /\ item \in StagingItem
  BY DEF ExtendTxn, IsOpen, Staged, TypeOK
<1>2. Delta(t, s, p) \in Int
  BY <1>1, PayloadsAssumption DEF Delta, ChunkSize, StagingItem, Chunks, Payload
<1>3. item.Chunks \in Chunks /\ item.ByteSize + Delta(t, s, p) \in Int
  BY <1>1, <1>2 DEF StagingItem
<1>4. [item.Chunks EXCEPT ![s] = p] \in Chunks
  BY <1>3 DEF Chunks
<1>5. stagingStore' = [stagingStore EXCEPT ![t] = item2] /\ stagingStore'[t] = item2
  BY DEF ExtendTxn, TypeOK
<1> HIDE DEF item
<1>6. /\ item2 \in StagingItem
      /\ item2.Chunks = [item.Chunks EXCEPT ![s] = p]
      /\ item2.ByteSize = item.ByteSize + Delta(t, s, p)
      /\ item2.InstanceID = item.InstanceID
      /\ item2.ExpiresIn = item.ExpiresIn
  BY <1>1, <1>3, <1>4 DEF StagingItem
<1> HIDE DEF item2
<1>7. QED
  BY <1>1, <1>2, <1>5, <1>6 DEF item

LEMMA ExtendTxnType ==
    ASSUME TypeOK, NEW t \in Txns, NEW s \in SeqIDs, NEW p \in Payloads,
           ExtendTxn(t, s, p)
    PROVE  TypeOK'
<1>1. stagingStore' \in [Txns -> StagingItem \cup {None}]
  BY ExtendedItem DEF TypeOK
<1>2. Delta(t, s, p) \in Int
  BY ExtendedItem
<1>3. stagingSize' \in Int
  BY <1>2 DEF ExtendTxn, TypeOK
<1>4. QED
  BY <1>1, <1>3 DEF ExtendTxn, TypeOK

LEMMA StartTxnType ==
    ASSUME TypeOK, NEW t \in Txns, NEW i \in Instances,
           NEW s \in SeqIDs, NEW p \in Payloads, StartTxn(t, i, s, p)
    PROVE  TypeOK'
<1> DEFINE gone == Reset(t) \cup Siblings(t, i)
           fits == SizeWithout(gone) + p.size <= MaxStagingSize
           new == [Chunks     |-> IF fits THEN OneChunk(s, p) ELSE NoChunks,
                   InstanceID |-> i,
                   ByteSize   |-> IF fits THEN p.size ELSE 0,
                   ExpiresIn  |-> TTL(i)]
<1>1. gone \in SUBSET Txns
  BY DEF Reset, Siblings, Staged, Lapsed
<1>2. /\ StoreWithout(gone) \in [Txns -> StagingItem \cup {None}]
      /\ SizeWithout(gone) \in Int
  BY <1>1, WithoutType
<1>3. p.size \in Nat
  BY PayloadsAssumption DEF Payload
<1>4. new \in StagingItem
  BY <1>3, TTLType DEF StagingItem, Chunks, OneChunk, NoChunks
<1>5. /\ stagingStore' = [StoreWithout(gone) EXCEPT ![t] = new]
      /\ stagingSize' = SizeWithout(gone) + (IF fits THEN p.size ELSE 0)
      /\ uploads' = uploads + 1
      /\ uploads < MaxUploads
      /\ UNCHANGED <<liveStore, commits>>
  BY DEF StartTxn
<1> HIDE DEF gone, fits, new
<1>6. stagingStore' \in [Txns -> StagingItem \cup {None}]
  BY <1>2, <1>4, <1>5
<1>7. stagingSize' \in Int /\ uploads' \in 0 .. MaxUploads
  BY <1>2, <1>3, <1>5, NumbersAssumption DEF TypeOK
<1>8. QED
  BY <1>5, <1>6, <1>7 DEF TypeOK

\* Every step that only takes transactions out keeps the staging types.
LEMMA RemovalType ==
    ASSUME TypeOK, NEW gone \in SUBSET Txns,
           stagingStore' = StoreWithout(gone), stagingSize' = SizeWithout(gone)
    PROVE  /\ stagingStore' \in [Txns -> StagingItem \cup {None}]
           /\ stagingSize' \in Int
BY WithoutType

LEMMA RefuseStartType ==
    ASSUME TypeOK, NEW t \in Txns, NEW p \in Payloads, RefuseStart(t, p)
    PROVE  TypeOK'
<1>1. Reset(t) \in SUBSET Txns
  BY DEF Reset
<1>2. /\ stagingStore' \in [Txns -> StagingItem \cup {None}]
      /\ stagingSize' \in Int
  BY <1>1, RemovalType DEF RefuseStart
<1>3. QED
  BY <1>2 DEF RefuseStart, TypeOK

LEMMA CommitTakeType ==
    ASSUME TypeOK, NEW r \in Requests, NEW i \in Instances, NEW t \in Txns,
           CommitTake(r, i, t)
    PROVE  TypeOK'
<1>1. stagingStore[t] \in StagingItem
  BY DEF CommitTake, IsOpen, Staged, TypeOK
<1>2. [instance |-> i, chunks |-> stagingStore[t].Chunks] \in Commit
  BY <1>1 DEF StagingItem, Commit
<1>3. commits' \in [Requests -> Commit \cup {None}]
  BY <1>2 DEF CommitTake, TypeOK
<1>4. /\ stagingStore' \in [Txns -> StagingItem \cup {None}]
      /\ stagingSize' \in Int
  BY RemovalType DEF CommitTake
<1>5. QED
  BY <1>3, <1>4 DEF CommitTake, TypeOK

LEMMA CommitDropType ==
    ASSUME TypeOK, NEW t \in Txns, CommitDrop(t)
    PROVE  TypeOK'
<1>1. /\ stagingStore' \in [Txns -> StagingItem \cup {None}]
      /\ stagingSize' \in Int
  BY RemovalType DEF CommitDrop
<1>2. QED
  BY <1>1 DEF CommitDrop, TypeOK

LEMMA PublishType ==
    ASSUME TypeOK, NEW r \in Requests, Publish(r)
    PROVE  TypeOK'
<1>1. commits[r].instance \in Instances /\ commits[r].chunks \in Chunks
  BY DEF Publish, TypeOK, Commit
<1>2. liveStore' \in [Instances -> InstanceState \cup {None}]
  BY <1>1, BytesReadType, PresentType, UpdateIngestedType DEF Publish
<1>3. QED
  BY <1>2 DEF Publish, TypeOK

LEMMA SingleShotType ==
    ASSUME TypeOK, NEW i \in Instances, NEW p \in Payloads, SingleShot(i, p)
    PROVE  TypeOK'
<1>1. p.size \in Nat /\ SingleBody(p) \in Chunks
  BY PayloadsAssumption, SingleBodyType DEF Payload
<1>2. liveStore' \in [Instances -> InstanceState \cup {None}]
  BY <1>1, UpdateIngestedType DEF SingleShot
<1>3. QED
  BY <1>2, NumbersAssumption DEF SingleShot, TypeOK

LEMMA CleanupStagingType ==
    ASSUME TypeOK, CleanupStaging
    PROVE  TypeOK'
<1> DEFINE n(i) == Cardinality({t \in Lapsed : stagingStore[t].InstanceID = i})
<1>1. Lapsed \in SUBSET Txns
  BY DEF Lapsed, Staged
<1>2. /\ stagingStore' \in [Txns -> StagingItem \cup {None}]
      /\ stagingSize' \in Int
  BY <1>1, RemovalType DEF CleanupStaging
<1>3. ASSUME NEW i \in Instances
      PROVE  [getOrCreateState(i) EXCEPT !.Expired = @ + n(i)] \in InstanceState
  <2>1. {t \in Lapsed : stagingStore[t].InstanceID = i} \in SUBSET Txns
    BY <1>1
  <2>2. n(i) \in Nat
    BY <2>1, SetsAssumption, FS_Subset, FS_CardinalityType
  <2>3. QED
    BY <2>2, StateType DEF InstanceState
<1>4. liveStore' \in [Instances -> InstanceState \cup {None}]
  BY <1>3 DEF CleanupStaging, TypeOK
<1>5. QED
  BY <1>2, <1>4 DEF CleanupStaging, TypeOK

LEMMA PollType ==
    ASSUME TypeOK, NEW i \in Instances, NEW up \in BOOLEAN,
           UpdatePolled(i, up) \/ UpdateRCon(i, up)
    PROVE  TypeOK'
<1>1. /\ [getOrCreateState(i) EXCEPT !.Polled = up] \in InstanceState
      /\ [getOrCreateState(i) EXCEPT !.RCon = up] \in InstanceState
  BY StateType DEF InstanceState
<1>2. QED
  BY <1>1 DEF UpdatePolled, UpdateRCon, TypeOK

LEMMA TickType ==
    ASSUME TypeOK, Tick
    PROVE  TypeOK'
<1>1. ASSUME NEW t \in Txns, IsOpen(t)
      PROVE  [stagingStore[t] EXCEPT !.ExpiresIn = @ - 1] \in StagingItem
  <2>1. stagingStore[t] \in StagingItem /\ ~(stagingStore[t].ExpiresIn < 0)
    BY <1>1 DEF IsOpen, Staged, Expired, TypeOK
  <2>2. QED
    BY <2>1 DEF StagingItem
<1>2. stagingStore' \in [Txns -> StagingItem \cup {None}]
  BY <1>1 DEF Tick, TypeOK
<1>3. ASSUME NEW i \in Instances, liveStore[i] # None, liveStore[i].SinceIngest # AgeCap
      PROVE  [liveStore[i] EXCEPT !.SinceIngest = @ + 1] \in InstanceState
  <2>1. liveStore[i] \in InstanceState
    BY <1>3 DEF TypeOK
  <2>2. liveStore[i].SinceIngest + 1 \in 0 .. AgeCap
    BY <1>3, <2>1, NumbersAssumption DEF InstanceState
  <2>3. QED
    BY <2>1, <2>2 DEF InstanceState
<1>4. liveStore' \in [Instances -> InstanceState \cup {None}]
  BY <1>3 DEF Tick, TypeOK
<1>5. QED
  BY <1>2, <1>4 DEF Tick, TypeOK

LEMMA NextType == ASSUME TypeOK, [Next]_vars PROVE TypeOK'
<1>1. CASE UNCHANGED vars
  BY <1>1 DEF vars, TypeOK
<1>2. ASSUME NEW t \in Txns, NEW s \in SeqIDs, NEW p \in Payloads,
             ExtendTxn(t, s, p) \/ RefuseExtend(t, s, p)
      PROVE  TypeOK'
  <2>1. CASE ExtendTxn(t, s, p)
    BY <2>1, ExtendTxnType
  <2>2. CASE RefuseExtend(t, s, p)
    BY <2>2 DEF RefuseExtend, vars, TypeOK
  <2>3. QED
    BY <1>2, <2>1, <2>2
<1>3. ASSUME NEW t \in Txns, NEW s \in SeqIDs, NEW p \in Payloads,
             NEW i \in Instances, StartTxn(t, i, s, p)
      PROVE  TypeOK'
  BY <1>3, StartTxnType
<1>4. ASSUME NEW t \in Txns, NEW p \in Payloads, RefuseStart(t, p)
      PROVE  TypeOK'
  BY <1>4, RefuseStartType
<1>5. ASSUME NEW r \in Requests, NEW i \in Instances, NEW t \in Txns, CommitTake(r, i, t)
      PROVE  TypeOK'
  BY <1>5, CommitTakeType
<1>6. ASSUME NEW t \in Txns, CommitDrop(t)
      PROVE  TypeOK'
  BY <1>6, CommitDropType
<1>7. ASSUME NEW r \in Requests, Publish(r)
      PROVE  TypeOK'
  BY <1>7, PublishType
<1>8. ASSUME NEW r \in Requests, RejectCommit(r)
      PROVE  TypeOK'
  BY <1>8 DEF RejectCommit, TypeOK
<1>9. ASSUME NEW i \in Instances, NEW p \in Payloads, SingleShot(i, p)
      PROVE  TypeOK'
  BY <1>9, SingleShotType
<1>10. ASSUME NEW i \in Instances, NEW up \in BOOLEAN,
              UpdatePolled(i, up) \/ UpdateRCon(i, up)
       PROVE  TypeOK'
  BY <1>10, PollType
<1>11. A2SServers \subseteq Instances /\ RConServers \subseteq Instances
  BY SetsAssumption
<1>12. QED
  BY <1>1, <1>2, <1>3, <1>4, <1>5, <1>6, <1>7, <1>8, <1>9, <1>10, <1>11,
     CleanupStagingType, TickType DEF Next, Operations, Handling, Polling

\* Every variable of the store keeps its type, in every reachable state.
THEOREM TypeCorrect == Spec => []TypeOK
BY InitType, NextType, PTL DEF Spec

-----------------------------------------------------------------------------
(* The staging buffer.                                                     *)

StagingInv == StagingAccounting /\ QuotaRespected /\ StagedNonEmpty

\* What is stored has non-negative sizes.
LEMMA SizesNat ==
    ASSUME TypeOK, StagingAccounting
    PROVE  \A t \in Txns : ItemSizes[t] \in Nat
<1>1. ASSUME NEW t \in Txns, stagingStore[t] # None
      PROVE  stagingStore[t].ByteSize \in Nat
  <2>1. stagingStore[t].Chunks \in Chunks
    BY <1>1 DEF TypeOK, StagingItem
  <2>2. Total(ChunkSizes(stagingStore[t].Chunks), SeqIDs) \in Nat
    <3>1. \A s \in SeqIDs : ChunkSizes(stagingStore[t].Chunks)[s] \in Int
      BY <2>1, ChunkSizesType
    <3>2. QED
      BY <3>1, SetsAssumption, TotalType
  <2>3. QED
    BY <1>1, <2>2 DEF StagingAccounting, Staged
<1>2. QED
  BY <1>1 DEF ItemSizes, ItemSize

\* Taking transactions out, with their sizes, keeps the staging invariant.
LEMMA RemovalInv ==
    ASSUME TypeOK, StagingInv, NEW gone \in SUBSET Txns,
           stagingStore' = StoreWithout(gone), stagingSize' = SizeWithout(gone)
    PROVE  StagingInv'
<1>1. \A t \in Txns : ItemSizes[t] \in Nat
  BY SizesNat DEF StagingInv
<1>2. /\ \A t \in gone : ItemSizes'[t] = 0
      /\ \A t \in Txns \ gone : ItemSizes'[t] = ItemSizes[t]
  BY DEF ItemSizes, ItemSize, StoreWithout
<1>3. /\ Total(ItemSizes', Txns) = Total(ItemSizes, Txns) - Total(ItemSizes, gone)
      /\ Total(ItemSizes', Txns) \in Nat
  BY <1>1, <1>2, SetsAssumption, TotalRemove
<1>4. Total(ItemSizes, gone) \in Nat
  BY <1>1, SetsAssumption, TotalPart
<1>5. stagingSize' = Total(ItemSizes', Txns)
  BY <1>3 DEF StagingInv, StagingAccounting, SizeWithout
<1>6. \A t \in Staged' : t \in Staged /\ stagingStore'[t] = stagingStore[t]
  BY DEF Staged, StoreWithout
<1>7. QED
  <2>1. StagingAccounting'
    BY <1>5, <1>6 DEF StagingInv, StagingAccounting
  <2>2. QuotaRespected'
    BY <1>3, <1>4, <1>5, NumbersAssumption
       DEF StagingInv, QuotaRespected, StagingAccounting
  <2>3. StagedNonEmpty'
    BY <1>6 DEF StagingInv, StagedNonEmpty
  <2>4. QED
    BY <2>1, <2>2, <2>3 DEF StagingInv

LEMMA ExtendTxnInv ==
    ASSUME TypeOK, StagingInv,
           NEW t \in Txns, NEW s \in SeqIDs, NEW p \in Payloads, ExtendTxn(t, s, p)
    PROVE  StagingInv'
<1> DEFINE item == stagingStore[t]
           item2 == stagingStore'[t]
<1>1. item \in StagingItem /\ t \in Staged
  BY DEF ExtendTxn, IsOpen, Staged, TypeOK
<1>2. p.size \in Nat
  BY PayloadsAssumption DEF Payload
<1>3. /\ item2.Chunks = [item.Chunks EXCEPT ![s] = p]
      /\ item2.ByteSize = item.ByteSize + Delta(t, s, p)
      /\ item2 # None
      /\ \A u \in Txns \ {t} : stagingStore'[u] = stagingStore[u]
  BY ExtendedItem, NoneAssumption DEF TypeOK
<1>4. Delta(t, s, p) = p.size - ChunkSizes(item.Chunks)[s]
  BY DEF Delta, ChunkSizes
<1>5. Total(ChunkSizes(item2.Chunks), SeqIDs)
      = Total(ChunkSizes(item.Chunks), SeqIDs) + Delta(t, s, p)
  <2>1. \A u \in SeqIDs : ChunkSizes(item.Chunks)[u] \in Nat
    BY <1>1, ChunkSizesType DEF StagingItem
  <2>2. p # None
    BY NoneAssumption
  <2>3. /\ ChunkSizes(item2.Chunks)[s] = p.size
        /\ \A u \in SeqIDs \ {s} :
              ChunkSizes(item2.Chunks)[u] = ChunkSizes(item.Chunks)[u]
    BY <1>1, <1>3, <2>2 DEF ChunkSizes, ChunkSize, StagingItem, Chunks
  <2> DEFINE old == ChunkSizes(item.Chunks)
             upd == ChunkSizes(item2.Chunks)
  <2>4. /\ Total(upd, SeqIDs) = Total(old, SeqIDs) - old[s] + upd[s]
        /\ Total(old, SeqIDs) \in Nat
    <3>1. /\ \A u \in SeqIDs : old[u] \in Nat
          /\ upd[s] \in Nat
          /\ \A u \in SeqIDs \ {s} : upd[u] = old[u]
      BY <1>2, <2>1, <2>3
    <3> HIDE DEF old, upd
    <3>2. IsFiniteSet(SeqIDs)
      BY SetsAssumption
    <3>3. Total(old, SeqIDs) \in Nat
      BY <3>1, <3>2, TotalType
    <3>4. QED
      BY <3>1, <3>2, <3>3, TotalUpdate
  <2>5. QED
    BY <1>2, <1>4, <2>1, <2>3, <2>4
<1>6. item.ByteSize + Delta(t, s, p) \in Nat
  <2>1. \A u \in SeqIDs : ChunkSizes(item2.Chunks)[u] \in Int
    BY <1>1, <1>3, ChunkSizesType DEF StagingItem, Chunks
  <2>2. Total(ChunkSizes(item2.Chunks), SeqIDs) \in Nat
    BY <2>1, SetsAssumption, TotalType
  <2>3. item.ByteSize = Total(ChunkSizes(item.Chunks), SeqIDs)
    BY <1>1 DEF StagingInv, StagingAccounting
  <2>4. QED
    BY <1>5, <2>2, <2>3
<1>7. Total(ItemSizes', Txns) = Total(ItemSizes, Txns) + Delta(t, s, p)
  <2>1. \A u \in Txns : ItemSizes[u] \in Nat
    BY SizesNat DEF StagingInv
  <2>2. /\ ItemSizes[t] = item.ByteSize
        /\ ItemSizes'[t] = item.ByteSize + Delta(t, s, p)
        /\ \A u \in Txns \ {t} : ItemSizes'[u] = ItemSizes[u]
    BY <1>1, <1>3 DEF ItemSizes, ItemSize, Staged
  <2> DEFINE old == ItemSizes
             upd == ItemSizes'
  <2>3. Total(upd, Txns) = Total(old, Txns) - old[t] + upd[t]
    <3>1. /\ \A u \in Txns : old[u] \in Nat
          /\ upd[t] \in Nat
          /\ \A u \in Txns \ {t} : upd[u] = old[u]
      BY <1>6, <2>1, <2>2
    <3> HIDE DEF old, upd
    <3>2. QED
      BY <3>1, SetsAssumption, TotalUpdate
  <2>4. Total(ItemSizes, Txns) \in Nat /\ Delta(t, s, p) \in Int
    <3>1. Total(ItemSizes, Txns) \in Nat
      BY <2>1, SetsAssumption, TotalType
    <3>2. ChunkSizes(item.Chunks)[s] \in Nat
      BY <1>1, ChunkSizesType DEF StagingItem
    <3>3. QED
      BY <1>2, <1>4, <3>1, <3>2
  <2>5. item.ByteSize \in Int
    BY <1>1 DEF StagingItem
  <2>6. QED
    BY <2>2, <2>3, <2>4, <2>5
<1>8. Staged' = Staged
  BY <1>1, <1>3 DEF Staged
<1>9. StagingAccounting'
  <2>1. \A u \in Staged' :
          stagingStore'[u].ByteSize = Total(ChunkSizes(stagingStore'[u].Chunks), SeqIDs)
    <3>1. item2.ByteSize = Total(ChunkSizes(item2.Chunks), SeqIDs)
      BY <1>1, <1>3, <1>5 DEF StagingInv, StagingAccounting
    <3>2. ASSUME NEW u \in Staged', u # t
          PROVE  stagingStore'[u].ByteSize = Total(ChunkSizes(stagingStore'[u].Chunks), SeqIDs)
      <4>1. u \in Txns /\ stagingStore'[u] = stagingStore[u]
        BY <1>3, <3>2 DEF Staged
      <4>2. QED
        BY <1>8, <4>1 DEF StagingInv, StagingAccounting
    <3>3. QED
      BY <3>1, <3>2
  <2>2. stagingSize' = Total(ItemSizes', Txns)
    BY <1>7 DEF StagingInv, StagingAccounting, ExtendTxn
  <2>3. QED
    BY <2>1, <2>2 DEF StagingAccounting, ChunkSizes, ChunkSize
<1>10. QuotaRespected'
  <2>1. \A u \in Txns : ItemSizes'[u] \in Nat
    <3>1. \A u \in Txns : ItemSizes[u] \in Nat
      BY SizesNat DEF StagingInv
    <3>2. QED
      BY <1>3, <1>6, <3>1 DEF ItemSizes, ItemSize
  <2>2. Total(ItemSizes', Txns) \in Nat
    BY <2>1, SetsAssumption, TotalType
  <2>3. stagingSize' <= MaxStagingSize
    BY DEF ExtendTxn
  <2>4. stagingSize' = Total(ItemSizes', Txns)
    BY <1>9 DEF StagingAccounting
  <2>5. QED
    BY <2>2, <2>3, <2>4, NumbersAssumption DEF QuotaRespected
<1>11. StagedNonEmpty'
  <2>1. s \in Present(item2.Chunks)
    BY <1>1, <1>3, NoneAssumption DEF Present, StagingItem, Chunks
  <2>2. QED
    BY <1>3, <1>8, <2>1 DEF StagingInv, StagedNonEmpty, Staged
<1>12. QED
  BY <1>9, <1>10, <1>11 DEF StagingInv

\* A transaction with one chunk holds the bytes of that chunk.
LEMMA FirstChunkSize ==
    ASSUME NEW s \in SeqIDs, NEW p \in Payloads
    PROVE  Total(ChunkSizes(OneChunk(s, p)), SeqIDs) = p.size
<1> DEFINE zeros == ChunkSizes(NoChunks)
           sizes == ChunkSizes(OneChunk(s, p))
<1>1. p.size \in Nat /\ p # None
  BY PayloadsAssumption, NoneAssumption DEF Payload
<1>2. \A u \in SeqIDs : zeros[u] = 0
  BY DEF ChunkSizes, ChunkSize, NoChunks
<1>3. sizes[s] = p.size /\ \A u \in SeqIDs \ {s} : sizes[u] = zeros[u]
  BY <1>1 DEF ChunkSizes, ChunkSize, OneChunk, NoChunks
<1>4. Total(zeros, SeqIDs) = 0
  BY <1>2, TotalZero
<1> HIDE DEF zeros, sizes
<1>5. /\ IsFiniteSet(SeqIDs)
      /\ \A u \in SeqIDs : zeros[u] \in Nat
      /\ sizes[s] \in Nat
      /\ \A u \in SeqIDs \ {s} : sizes[u] = zeros[u]
  BY <1>1, <1>2, <1>3, SetsAssumption
<1>6. Total(sizes, SeqIDs) = Total(zeros, SeqIDs) - zeros[s] + sizes[s]
  BY <1>5, TotalUpdate
<1>7. Total(sizes, SeqIDs) = p.size
  BY <1>1, <1>2, <1>3, <1>4, <1>6
<1>8. QED
  BY <1>7 DEF sizes

\* Dropping the siblings too leaves no less room than was checked for.
LEMMA EvictionMakesRoom ==
    ASSUME TypeOK, StagingInv, NEW t \in Txns, NEW i \in Instances
    PROVE  /\ SizeWithout(Reset(t) \cup Siblings(t, i)) \in Nat
           /\ SizeWithout(Reset(t)) \in Nat
           /\ SizeWithout(Reset(t) \cup Siblings(t, i)) <= SizeWithout(Reset(t))
<1> DEFINE gone == Reset(t) \cup Siblings(t, i)
<1>1. /\ gone \in SUBSET Txns
      /\ Reset(t) \in SUBSET Txns
      /\ Reset(t) \in SUBSET gone
      /\ IsFiniteSet(gone)
  <2>1. gone \in SUBSET Txns /\ Reset(t) \in SUBSET gone
    BY DEF Reset, Siblings, Staged, Lapsed
  <2>2. QED
    BY <2>1, SetsAssumption, FS_Subset
<1>2. \A u \in Txns : ItemSizes[u] \in Nat
  BY SizesNat DEF StagingInv
<1> HIDE DEF gone
<1>3. /\ Total(ItemSizes, gone) = Total(ItemSizes, Reset(t)) + Total(ItemSizes, gone \ Reset(t))
      /\ Total(ItemSizes, Reset(t)) \in Nat
      /\ Total(ItemSizes, gone \ Reset(t)) \in Nat
  <2>1. \A u \in gone : ItemSizes[u] \in Nat
    BY <1>1, <1>2
  <2>2. QED
    <3>1. Total(ItemSizes, Reset(t)) \in Nat /\ Total(ItemSizes, gone \ Reset(t)) \in Nat
      BY <1>1, <2>1, TotalPart
    <3>2. Total(ItemSizes, gone) = Total(ItemSizes, Reset(t)) + Total(ItemSizes, gone \ Reset(t))
      BY <1>1, <2>1, TotalPart
    <3>3. QED
      BY <3>1, <3>2
<1>4. /\ Total(ItemSizes, Txns) = Total(ItemSizes, gone) + Total(ItemSizes, Txns \ gone)
      /\ Total(ItemSizes, Txns \ gone) \in Nat
  BY <1>1, <1>2, SetsAssumption, TotalPart
<1>5. stagingSize = Total(ItemSizes, Txns)
  BY DEF StagingInv, StagingAccounting
<1>6. QED
  BY <1>3, <1>4, <1>5 DEF SizeWithout, gone

\* The transaction StartTxn leaves behind: its chunk always fits.
NewItem(i, s, p) ==
    [Chunks |-> OneChunk(s, p), InstanceID |-> i, ByteSize |-> p.size, ExpiresIn |-> TTL(i)]

LEMMA NewItemType ==
    ASSUME TypeOK, NEW i \in Instances, NEW s \in SeqIDs, NEW p \in Payloads
    PROVE  NewItem(i, s, p) \in StagingItem
<1>1. p.size \in Nat /\ TTL(i) \in Nat
  BY PayloadsAssumption, TTLType DEF Payload
<1>2. QED
  BY <1>1 DEF NewItem, StagingItem, Chunks, OneChunk, NoChunks

LEMMA StartedStore ==
    ASSUME TypeOK, StagingInv, NEW t \in Txns, NEW i \in Instances,
           NEW s \in SeqIDs, NEW p \in Payloads, StartTxn(t, i, s, p)
    PROVE  LET gone == Reset(t) \cup Siblings(t, i) IN
           /\ stagingStore' = [StoreWithout(gone) EXCEPT ![t] = NewItem(i, s, p)]
           /\ stagingSize' = SizeWithout(gone) + p.size
           /\ stagingSize' <= MaxStagingSize
<1> DEFINE gone == Reset(t) \cup Siblings(t, i)
<1>1. p.size \in Nat
  BY PayloadsAssumption DEF Payload
<1>2. SizeWithout(gone) + p.size <= MaxStagingSize
  <2>1. SizeWithout(Reset(t)) + p.size <= MaxStagingSize
    BY DEF StartTxn
  <2>2. QED
    BY <1>1, <2>1, EvictionMakesRoom, NumbersAssumption
<1>3. /\ stagingStore' = [StoreWithout(gone) EXCEPT ![t] = NewItem(i, s, p)]
      /\ stagingSize' = SizeWithout(gone) + p.size
  BY <1>2 DEF StartTxn, NewItem
<1>4. QED
  BY <1>2, <1>3

LEMMA StartedItem ==
    ASSUME TypeOK, StagingInv, NEW t \in Txns, NEW i \in Instances,
           NEW s \in SeqIDs, NEW p \in Payloads, StartTxn(t, i, s, p)
    PROVE  /\ stagingStore'[t] = NewItem(i, s, p)
           /\ stagingStore'[t] # None
           /\ \A u \in Txns \ {t} :
                 stagingStore'[u] = StoreWithout(Reset(t) \cup Siblings(t, i))[u]
<1> DEFINE store == StoreWithout(Reset(t) \cup Siblings(t, i))
           item == NewItem(i, s, p)
<1>1. stagingStore' = [store EXCEPT ![t] = item] /\ DOMAIN store = Txns
  BY StartedStore DEF StoreWithout
<1>2. item # None
  BY NewItemType, NoneAssumption
<1> HIDE DEF store, item
<1>3. stagingStore'[t] = item /\ \A u \in Txns \ {t} : stagingStore'[u] = store[u]
  BY <1>1
<1>4. QED
  BY <1>2, <1>3 DEF store, item

LEMMA StartTxnInv ==
    ASSUME TypeOK, StagingInv, NEW t \in Txns, NEW i \in Instances,
           NEW s \in SeqIDs, NEW p \in Payloads, StartTxn(t, i, s, p)
    PROVE  StagingInv'
<1> DEFINE gone == Reset(t) \cup Siblings(t, i)
           chunks == OneChunk(s, p)
           kept == [u \in Txns |-> IF u \in gone THEN 0 ELSE ItemSizes[u]]
<1>1. /\ stagingStore'[t] # None
      /\ stagingStore'[t].Chunks = chunks
      /\ stagingStore'[t].ByteSize = p.size
      /\ \A u \in Txns \ {t} : stagingStore'[u] = StoreWithout(gone)[u]
  <2>1. stagingStore'[t] = NewItem(i, s, p) /\ stagingStore'[t] # None
    BY StartedItem
  <2>2. \A u \in Txns \ {t} : stagingStore'[u] = StoreWithout(gone)[u]
    BY StartedItem
  <2>3. NewItem(i, s, p).Chunks = chunks /\ NewItem(i, s, p).ByteSize = p.size
    BY DEF NewItem
  <2>4. QED
    BY <2>1, <2>2, <2>3
<1>2. stagingSize' = SizeWithout(gone) + p.size /\ stagingSize' <= MaxStagingSize
  BY StartedStore
<1>3. p.size \in Nat /\ p # None
  BY PayloadsAssumption, NoneAssumption DEF Payload
<1>4. \A u \in Txns : ItemSizes[u] \in Nat
  BY SizesNat DEF StagingInv
<1>5. /\ Total(kept, Txns) = Total(ItemSizes, Txns) - Total(ItemSizes, gone)
      /\ Total(kept, Txns) \in Nat
  <2>1. gone \in SUBSET Txns
    BY DEF Reset, Siblings, Staged, Lapsed
  <2>2. QED
    BY <1>4, <2>1, SetsAssumption, TotalRemove
<1>6. SizeWithout(gone) = Total(kept, Txns)
  BY <1>5 DEF SizeWithout, StagingInv, StagingAccounting
<1>7. kept[t] = 0
  BY DEF StartTxn, IsOpen, Reset, Lapsed, ItemSizes, ItemSize, Staged
<1>8. \A u \in Staged' \ {t} : u \in Staged /\ stagingStore'[u] = stagingStore[u]
  BY <1>1 DEF Staged, StoreWithout
<1>9. StagingAccounting'
  <2>1. Total(ChunkSizes(chunks), SeqIDs) = p.size
    BY FirstChunkSize
  <2>2. Total(ItemSizes', Txns) = Total(kept, Txns) + p.size
    <3>1. /\ ItemSizes'[t] = p.size
          /\ \A u \in Txns \ {t} : ItemSizes'[u] = kept[u]
      BY <1>1 DEF ItemSizes, ItemSize, StoreWithout
    <3>2. \A u \in Txns : kept[u] \in Nat
      BY <1>4
    <3>3. Total(ItemSizes', Txns) = Total(kept, Txns) - kept[t] + p.size
      BY <1>3, <3>1, <3>2, SetsAssumption, TotalUpdate
    <3>4. QED
      BY <1>3, <1>5, <1>7, <3>3
  <2>3. stagingSize' = Total(ItemSizes', Txns)
    BY <1>2, <1>6, <2>2
  <2>4. \A u \in Staged' \ {t} :
          stagingStore'[u].ByteSize = Total(ChunkSizes(stagingStore'[u].Chunks), SeqIDs)
    BY <1>8 DEF StagingInv, StagingAccounting
  <2>5. \A u \in Staged' :
          stagingStore'[u].ByteSize = Total(ChunkSizes(stagingStore'[u].Chunks), SeqIDs)
    BY <1>1, <2>1, <2>4
  <2>6. QED
    BY <2>3, <2>5 DEF StagingAccounting, ChunkSizes, ChunkSize
<1>10. QuotaRespected'
  <2>1. SizeWithout(gone) \in Nat
    BY <1>5, <1>6
  <2>2. QED
    BY <1>2, <1>3, <2>1, NumbersAssumption DEF QuotaRespected
<1>11. StagedNonEmpty'
  <2>1. s \in Present(chunks)
    BY <1>3 DEF Present, OneChunk, NoChunks
  <2>2. QED
    BY <1>1, <1>8, <2>1 DEF StagingInv, StagedNonEmpty
<1>12. QED
  BY <1>9, <1>10, <1>11 DEF StagingInv

LEMMA InitInv == ASSUME Init PROVE StagingInv
<1>1. \A t \in Txns : ItemSizes[t] = 0
  BY DEF Init, ItemSizes, ItemSize
<1>2. Total(ItemSizes, Txns) = 0
  BY <1>1, TotalZero
<1>3. Staged = {}
  BY DEF Init, Staged
<1>4. QED
  BY <1>2, <1>3, NumbersAssumption
     DEF Init, StagingInv, StagingAccounting, QuotaRespected, StagedNonEmpty

\* A step that leaves the transactions alone, but for their deadlines.
LEMMA UntouchedInv ==
    ASSUME StagingInv, stagingSize' = stagingSize,
           \A t \in Txns : /\ stagingStore'[t] = None <=> stagingStore[t] = None
                           /\ stagingStore[t] # None =>
                                 /\ stagingStore'[t].Chunks = stagingStore[t].Chunks
                                 /\ stagingStore'[t].ByteSize = stagingStore[t].ByteSize
    PROVE  StagingInv'
<1>1. Staged' = Staged
  BY DEF Staged
<1>2. \A t \in Txns : ItemSizes'[t] = ItemSizes[t]
  BY DEF ItemSizes, ItemSize
<1>3. Total(ItemSizes', Txns) = Total(ItemSizes, Txns)
  BY <1>2, TotalSame
<1>4. \A t \in Staged : /\ stagingStore'[t].Chunks = stagingStore[t].Chunks
                        /\ stagingStore'[t].ByteSize = stagingStore[t].ByteSize
  BY DEF Staged
<1>5. StagingAccounting'
  BY <1>1, <1>3, <1>4 DEF StagingInv, StagingAccounting, ChunkSizes, ChunkSize
<1>6. QED
  BY <1>1, <1>4, <1>5 DEF StagingInv, QuotaRespected, StagedNonEmpty

LEMMA TickInv ==
    ASSUME TypeOK, StagingInv, Tick
    PROVE  StagingInv'
<1>1. ASSUME NEW t \in Txns, IsOpen(t)
      PROVE  /\ stagingStore'[t] # None
             /\ stagingStore'[t].Chunks = stagingStore[t].Chunks
             /\ stagingStore'[t].ByteSize = stagingStore[t].ByteSize
  <2>1. stagingStore[t] \in StagingItem
    BY <1>1 DEF IsOpen, Staged, TypeOK
  <2>2. stagingStore'[t] = [stagingStore[t] EXCEPT !.ExpiresIn = @ - 1]
    BY <1>1 DEF Tick
  <2>3. [stagingStore[t] EXCEPT !.ExpiresIn = @ - 1] \in StagingItem
    <3>1. ~(stagingStore[t].ExpiresIn < 0)
      BY <1>1 DEF IsOpen, Expired
    <3>2. QED
      BY <2>1, <3>1 DEF StagingItem
  <2>4. QED
    BY <2>1, <2>2, <2>3, NoneAssumption DEF StagingItem
<1>2. \A t \in Txns : ~IsOpen(t) => stagingStore'[t] = stagingStore[t]
  BY DEF Tick
<1>3. \A t \in Txns : /\ stagingStore'[t] = None <=> stagingStore[t] = None
                      /\ stagingStore[t] # None =>
                            /\ stagingStore'[t].Chunks = stagingStore[t].Chunks
                            /\ stagingStore'[t].ByteSize = stagingStore[t].ByteSize
  BY <1>1, <1>2 DEF IsOpen, Staged
<1>4. QED
  BY <1>3, UntouchedInv DEF Tick

LEMMA NextInv == ASSUME TypeOK, StagingInv, [Next]_vars PROVE StagingInv'
<1>1. ASSUME UNCHANGED <<stagingStore, stagingSize>>
      PROVE  StagingInv'
  BY <1>1, UntouchedInv
<1>2. CASE UNCHANGED vars
  BY <1>1, <1>2 DEF vars
<1>3. ASSUME NEW t \in Txns, NEW s \in SeqIDs, NEW p \in Payloads,
             ExtendTxn(t, s, p) \/ RefuseExtend(t, s, p)
      PROVE  StagingInv'
  <2>1. CASE ExtendTxn(t, s, p)
    BY <2>1, ExtendTxnInv
  <2>2. CASE RefuseExtend(t, s, p)
    BY <1>1, <2>2 DEF RefuseExtend, vars
  <2>3. QED
    BY <1>3, <2>1, <2>2
<1>4. ASSUME NEW t \in Txns, NEW s \in SeqIDs, NEW p \in Payloads,
             NEW i \in Instances, StartTxn(t, i, s, p)
      PROVE  StagingInv'
  BY <1>4, StartTxnInv
<1>5. ASSUME NEW t \in Txns, NEW p \in Payloads, RefuseStart(t, p)
      PROVE  StagingInv'
  <2>1. Reset(t) \in SUBSET Txns
    BY DEF Reset
  <2>2. QED
    BY <1>5, <2>1, RemovalInv DEF RefuseStart
<1>6. ASSUME NEW t \in Txns,
             CommitDrop(t) \/ \E r \in Requests, i \in Instances : CommitTake(r, i, t)
      PROVE  StagingInv'
  <2>1. {t} \in SUBSET Txns
    OBVIOUS
  <2>2. stagingStore' = StoreWithout({t}) /\ stagingSize' = SizeWithout({t})
    BY <1>6 DEF CommitDrop, CommitTake
  <2>3. QED
    BY <2>1, <2>2, RemovalInv
<1>7. CASE CleanupStaging
  <2>1. Lapsed \in SUBSET Txns
    BY DEF Lapsed, Staged
  <2>2. QED
    BY <1>7, <2>1, RemovalInv DEF CleanupStaging
<1>8. ASSUME NEW r \in Requests, Publish(r) \/ RejectCommit(r)
      PROVE  StagingInv'
  BY <1>1, <1>8 DEF Publish, RejectCommit
<1>9. ASSUME NEW i \in Instances, NEW p \in Payloads, SingleShot(i, p)
      PROVE  StagingInv'
  BY <1>1, <1>9 DEF SingleShot
<1>10. ASSUME NEW i, NEW up \in BOOLEAN, UpdatePolled(i, up) \/ UpdateRCon(i, up)
       PROVE  StagingInv'
  BY <1>1, <1>10 DEF UpdatePolled, UpdateRCon
<1>11. QED
  BY <1>2, <1>3, <1>4, <1>5, <1>6, <1>7, <1>8, <1>9, <1>10, TickInv DEF Next, Operations, Handling, Polling

\* The byte accounting, the quota and the non-emptiness of what is staged are
\* inductive together: the quota needs the accounting for its lower bound, and
\* that no transaction is left empty needs both.
THEOREM StagingCorrect == Spec => []StagingInv
BY InitType, NextType, InitInv, NextInv, PTL DEF Spec

\* The bytes the store says it holds are those of the chunks it holds.
THEOREM AccountingCorrect == Spec => []StagingAccounting
BY StagingCorrect, PTL DEF StagingInv

\* However chunks are resent, reset, evicted, committed and collected, the
\* staging buffer stays within max_staging_size.
THEOREM QuotaCorrect == Spec => []QuotaRespected
BY StagingCorrect, PTL DEF StagingInv

\* RetrieveStaging never meets a transaction without chunks.
THEOREM NonEmptyCorrect == Spec => []StagedNonEmpty
BY StagingCorrect, PTL DEF StagingInv

-----------------------------------------------------------------------------
(* One transaction per instance.                                           *)

LEMMA OneTxnKept ==
    ASSUME OneTxnPerInstance,
           \A u \in Staged' : /\ u \in Staged
                             /\ stagingStore'[u].InstanceID = stagingStore[u].InstanceID
    PROVE  OneTxnPerInstance'
BY DEF OneTxnPerInstance

LEMMA OneTxnRemoval ==
    ASSUME OneTxnPerInstance, NEW gone, stagingStore' = StoreWithout(gone)
    PROVE  OneTxnPerInstance'
<1>1. \A u \in Staged' : u \in Staged /\ stagingStore'[u] = stagingStore[u]
  BY DEF Staged, StoreWithout
<1>2. QED
  BY <1>1, OneTxnKept

LEMMA OneTxnExtend ==
    ASSUME TypeOK, OneTxnPerInstance,
           NEW t \in Txns, NEW s \in SeqIDs, NEW p \in Payloads, ExtendTxn(t, s, p)
    PROVE  OneTxnPerInstance'
<1>1. /\ t \in Staged
      /\ stagingStore'[t].InstanceID = stagingStore[t].InstanceID
      /\ \A u \in Txns \ {t} : stagingStore'[u] = stagingStore[u]
  BY ExtendedItem DEF TypeOK
<1>2. \A u \in Staged' : /\ u \in Staged
                         /\ stagingStore'[u].InstanceID = stagingStore[u].InstanceID
  BY <1>1 DEF Staged
<1>3. QED
  BY <1>2, OneTxnKept

LEMMA OneTxnStart ==
    ASSUME TypeOK, OneTxnPerInstance, NEW t \in Txns, NEW i \in Instances,
           NEW s \in SeqIDs, NEW p \in Payloads, StartTxn(t, i, s, p)
    PROVE  OneTxnPerInstance'
<1> DEFINE gone == Reset(t) \cup Siblings(t, i)
<1>1. stagingStore'[t].InstanceID = i
  BY DEF StartTxn, StoreWithout
<1>2. ASSUME NEW u \in Staged', u # t
      PROVE  /\ u \in Staged \ gone
             /\ stagingStore'[u] = stagingStore[u]
             /\ stagingStore'[u].InstanceID # i
  <2>1. u \in Txns /\ stagingStore'[u] # None /\ stagingStore'[u] = StoreWithout(gone)[u]
    BY <1>2 DEF StartTxn, StoreWithout, Staged
  <2>2. u \in Staged \ gone /\ stagingStore'[u] = stagingStore[u]
    BY <2>1 DEF StoreWithout, Staged
  <2>3. QED
    BY <1>2, <2>2 DEF Siblings
<1>3. QED
  BY <1>1, <1>2 DEF OneTxnPerInstance

LEMMA OneTxnTick ==
    ASSUME TypeOK, OneTxnPerInstance, Tick
    PROVE  OneTxnPerInstance'
<1>1. ASSUME NEW u \in Staged'
      PROVE  /\ u \in Staged
             /\ stagingStore'[u].InstanceID = stagingStore[u].InstanceID
  <2>1. CASE IsOpen(u)
    <3>1. u \in Staged /\ stagingStore[u] \in StagingItem
      BY <2>1 DEF IsOpen, Staged, TypeOK
    <3>2. stagingStore'[u] = [stagingStore[u] EXCEPT !.ExpiresIn = @ - 1]
      BY <2>1, <3>1 DEF Tick, Staged
    <3>3. QED
      BY <3>1, <3>2 DEF StagingItem
  <2>2. CASE ~IsOpen(u)
    BY <2>2 DEF Tick, Staged
  <2>3. QED
    BY <2>1, <2>2
<1>2. QED
  BY <1>1, OneTxnKept

LEMMA OneTxnNext ==
    ASSUME TypeOK, OneTxnPerInstance, [Next]_vars
    PROVE  OneTxnPerInstance'
<1>1. CASE UNCHANGED stagingStore
  <2>1. Staged' = Staged
    BY <1>1 DEF Staged
  <2>2. QED
    BY <1>1, <2>1 DEF OneTxnPerInstance
<1>2. CASE \E gone : stagingStore' = StoreWithout(gone)
  BY <1>2, OneTxnRemoval
<1>3. ASSUME NEW t \in Txns, NEW s \in SeqIDs, NEW p \in Payloads,
             \/ ExtendTxn(t, s, p)
             \/ RefuseExtend(t, s, p)
             \/ \E i \in Instances : StartTxn(t, i, s, p)
      PROVE  OneTxnPerInstance'
  BY <1>1, <1>3, OneTxnExtend, OneTxnStart DEF RefuseExtend, vars
<1>4. QED
  BY <1>1, <1>2, <1>3, OneTxnTick
     DEF Next, Operations, Handling, Polling, vars, RefuseStart, CommitTake, CommitDrop, Publish,
         RejectCommit, SingleShot, UpdatePolled, UpdateRCon, CleanupStaging

\* AppendToStaging never leaves two transactions of one instance behind,
\* whichever order chunks, commits and collections come in.
THEOREM OneTxnCorrect == Spec => []OneTxnPerInstance
<1>1. Init => OneTxnPerInstance
  BY DEF Init, OneTxnPerInstance, Staged
<1>2. QED
  BY <1>1, OneTxnNext, TypeCorrect, PTL DEF Spec

-----------------------------------------------------------------------------
(* Deadlines: the part of Drains that is no matter of fairness.            *)

Started(t) ==
    \E i \in Instances, s \in SeqIDs, p \in Payloads : StartTxn(t, i, s, p)

\* A transaction keeps its owner, and its time only runs out.
RunsOut(t) ==
    /\ t \in Staged
    /\ stagingStore'[t].InstanceID = stagingStore[t].InstanceID
    /\ stagingStore'[t].ExpiresIn <= stagingStore[t].ExpiresIn

\* Only AppendToStaging with a first chunk puts a transaction there, or gives
\* one a new deadline: neither further chunks of it nor chunks sent again,
\* refused uploads, commits or the transactions of others do.
DeadlinesStand == [][\A t \in Staged' : RunsOut(t) \/ Started(t)]_vars

LEMMA KeptRunsOut ==
    ASSUME TypeOK, NEW t \in Staged', stagingStore'[t] = stagingStore[t]
    PROVE  RunsOut(t)
<1>1. t \in Staged /\ stagingStore[t] \in StagingItem
  BY DEF Staged, TypeOK
<1>2. QED
  BY <1>1 DEF RunsOut, StagingItem

LEMMA WithoutRunsOut ==
    ASSUME TypeOK, NEW gone, stagingStore' = StoreWithout(gone)
    PROVE  \A t \in Staged' : RunsOut(t)
<1>1. \A t \in Staged' : stagingStore'[t] = stagingStore[t]
  BY DEF Staged, StoreWithout
<1>2. QED
  BY <1>1, KeptRunsOut

LEMMA ExtendRunsOut ==
    ASSUME TypeOK, NEW t \in Txns, NEW s \in SeqIDs, NEW p \in Payloads, ExtendTxn(t, s, p)
    PROVE  \A u \in Staged' : RunsOut(u)
<1>1. /\ t \in Staged /\ stagingStore[t] \in StagingItem
      /\ stagingStore'[t].InstanceID = stagingStore[t].InstanceID
      /\ stagingStore'[t].ExpiresIn = stagingStore[t].ExpiresIn
      /\ stagingStore' = [stagingStore EXCEPT ![t] = stagingStore'[t]]
  BY ExtendedItem
<1>2. RunsOut(t)
  BY <1>1 DEF RunsOut, StagingItem
<1>3. \A u \in Txns \ {t} : stagingStore'[u] = stagingStore[u]
  BY <1>1 DEF TypeOK
<1>4. QED
  BY <1>2, <1>3, KeptRunsOut DEF Staged

LEMMA StartRunsOut ==
    ASSUME TypeOK, NEW t \in Txns, NEW i \in Instances, NEW s \in SeqIDs, NEW p \in Payloads,
           StartTxn(t, i, s, p)
    PROVE  \A u \in Staged' : RunsOut(u) \/ Started(u)
<1> DEFINE gone == Reset(t) \cup Siblings(t, i)
<1>1. ASSUME NEW u \in Staged', u # t
      PROVE  stagingStore'[u] = stagingStore[u]
  BY <1>1 DEF StartTxn, StoreWithout, Staged
<1>2. QED
  BY <1>1, KeptRunsOut DEF Started

LEMMA TickRunsOut ==
    ASSUME TypeOK, Tick
    PROVE  \A t \in Staged' : RunsOut(t)
<1> SUFFICES ASSUME NEW t \in Staged'
             PROVE  RunsOut(t)
  OBVIOUS
<1>1. CASE IsOpen(t)
  <2>1. t \in Staged /\ stagingStore[t] \in StagingItem /\ stagingStore[t].ExpiresIn \in Int
    BY <1>1 DEF IsOpen, Staged, TypeOK, StagingItem
  <2>2. stagingStore'[t] = [stagingStore[t] EXCEPT !.ExpiresIn = @ - 1]
    BY <1>1, <2>1 DEF Tick, Staged
  <2>3. QED
    BY <2>1, <2>2 DEF RunsOut, StagingItem
<1>2. CASE ~IsOpen(t)
  BY <1>2, KeptRunsOut DEF Tick, Staged
<1>3. QED
  BY <1>1, <1>2

\* However the operations interleave, the deadline of a staged transaction
\* stands from its first chunk on.
THEOREM DeadlinesStandCorrect == Spec => DeadlinesStand
<1>1. ASSUME TypeOK, [Next]_vars
      PROVE  \A t \in Staged' : RunsOut(t) \/ Started(t)
  <2>1. CASE UNCHANGED stagingStore
    BY <1>1, <2>1, KeptRunsOut
  <2>2. CASE \E gone : stagingStore' = StoreWithout(gone)
    BY <1>1, <2>2, WithoutRunsOut
  <2>3. ASSUME NEW t \in Txns, NEW s \in SeqIDs, NEW p \in Payloads,
               \/ ExtendTxn(t, s, p)
               \/ RefuseExtend(t, s, p)
               \/ \E i \in Instances : StartTxn(t, i, s, p)
        PROVE  \A u \in Staged' : RunsOut(u) \/ Started(u)
    BY <1>1, <2>1, <2>3, ExtendRunsOut, StartRunsOut DEF RefuseExtend, vars
  <2>4. QED
    BY <1>1, <2>1, <2>2, <2>3, TickRunsOut
       DEF Next, Operations, Handling, Polling, vars, RefuseStart, CommitTake, CommitDrop, Publish,
           RejectCommit, SingleShot, UpdatePolled, UpdateRCon, CleanupStaging
<1>2. QED
  BY <1>1, TypeCorrect, PTL DEF Spec, DeadlinesStand

-----------------------------------------------------------------------------
(* What is published.                                                      *)

\* The bodies published in one step for instance i: the one it had, with its
\* interval, or one that has just been parsed for it, with its own.
LEMMA PublishedBodies ==
    ASSUME TypeOK, [Next]_vars, NEW i \in Instances,
           liveStore'[i] # None, liveStore'[i].Ingested # None
    PROVE  \/ /\ liveStore[i] # None
              /\ liveStore'[i].Ingested = liveStore[i].Ingested
              /\ liveStore'[i].ScrapeInterval = liveStore[i].ScrapeInterval
           \/ /\ Parses(i, liveStore'[i].Ingested)
              /\ liveStore'[i].ScrapeInterval = IntervalOf(liveStore'[i].Ingested)
<1> DEFINE Kept == /\ liveStore[i] # None
                   /\ liveStore'[i].Ingested = liveStore[i].Ingested
                   /\ liveStore'[i].ScrapeInterval = liveStore[i].ScrapeInterval
           Parsed == /\ Parses(i, liveStore'[i].Ingested)
                     /\ liveStore'[i].ScrapeInterval = IntervalOf(liveStore'[i].Ingested)
<1>1. ASSUME UNCHANGED liveStore
      PROVE  Kept
  BY <1>1
<1>2. ASSUME NEW j \in Instances, NEW chunks, NEW n, NEW m,
             Parses(j, chunks), UpdateIngested(j, chunks, n, m)
      PROVE  Kept \/ Parsed
  <2>1. CASE i = j
    <3>1. getOrCreateState(j) \in InstanceState
      BY StateType
    <3>2. /\ liveStore'[j].Ingested = chunks
          /\ liveStore'[j].ScrapeInterval = IntervalOf(chunks)
      BY <1>2, <3>1 DEF UpdateIngested, TypeOK, InstanceState
    <3>3. QED
      BY <1>2, <2>1, <3>2
  <2>2. CASE i # j
    BY <1>2, <2>2 DEF UpdateIngested, TypeOK
  <2>3. QED
    BY <2>1, <2>2
<1>3. ASSUME NEW r \in Requests, Publish(r)
      PROVE  Kept \/ Parsed
  <2>1. commits[r].instance \in Instances
    BY <1>3 DEF Publish, TypeOK, Commit
  <2>2. QED
    BY <1>2, <1>3, <2>1 DEF Publish
<1>4. ASSUME NEW j \in Instances, NEW p \in Payloads, SingleShot(j, p)
      PROVE  Kept \/ Parsed
  BY <1>2, <1>4 DEF SingleShot
\* A change of the other fields, to a state that may just have been created.
<1>5. ASSUME NEW state,
             liveStore'[i] = liveStore[i] \/ liveStore'[i] = state,
             state.Ingested = getOrCreateState(i).Ingested,
             state.ScrapeInterval = getOrCreateState(i).ScrapeInterval
      PROVE  Kept
  BY <1>5 DEF getOrCreateState, NewState
<1>6. ASSUME CleanupStaging
      PROVE  Kept
  <2> DEFINE state == [getOrCreateState(i) EXCEPT
                         !.Expired = @ + Cardinality({t \in Lapsed :
                                           stagingStore[t].InstanceID = i})]
  <2>1. /\ state.Ingested = getOrCreateState(i).Ingested
        /\ state.ScrapeInterval = getOrCreateState(i).ScrapeInterval
    BY StateType DEF InstanceState
  <2>2. liveStore'[i] = liveStore[i] \/ liveStore'[i] = state
    BY <1>6 DEF CleanupStaging
  <2> HIDE DEF state
  <2>3. QED
    BY <1>5, <2>1, <2>2
<1>7. ASSUME NEW j \in Instances, NEW up \in BOOLEAN,
             UpdatePolled(j, up) \/ UpdateRCon(j, up)
      PROVE  Kept
  <2> DEFINE polled == [getOrCreateState(i) EXCEPT !.Polled = up]
             rcon == [getOrCreateState(i) EXCEPT !.RCon = up]
  <2>1. /\ polled.Ingested = getOrCreateState(i).Ingested
        /\ rcon.Ingested = getOrCreateState(i).Ingested
        /\ polled.ScrapeInterval = getOrCreateState(i).ScrapeInterval
        /\ rcon.ScrapeInterval = getOrCreateState(i).ScrapeInterval
    BY StateType DEF InstanceState
  <2>2. liveStore'[i] \in {liveStore[i], polled, rcon}
    BY <1>7 DEF UpdatePolled, UpdateRCon, TypeOK
  <2> HIDE DEF polled, rcon
  <2>3. QED
    BY <1>5, <2>1, <2>2
<1>8. ASSUME Tick
      PROVE  Kept
  <2>1. liveStore[i] # None
    BY <1>8 DEF Tick
  <2>2. liveStore[i] \in InstanceState
    BY <2>1 DEF TypeOK
  <2>3. QED
    BY <1>8, <2>1, <2>2 DEF Tick, InstanceState
<1>9. ASSUME UNCHANGED vars
      PROVE  Kept
  BY <1>1, <1>9 DEF vars
<1>10. ASSUME NEW t \in Txns, NEW s \in SeqIDs, NEW p \in Payloads,
              \/ ExtendTxn(t, s, p)
              \/ RefuseExtend(t, s, p)
              \/ \E j \in Instances : StartTxn(t, j, s, p)
       PROVE  Kept
  BY <1>1, <1>10 DEF ExtendTxn, RefuseExtend, StartTxn, vars
<1>11. ASSUME NEW t \in Txns,
              \/ \E p \in Payloads : RefuseStart(t, p)
              \/ \E r \in Requests, j \in Instances : CommitTake(r, j, t)
              \/ CommitDrop(t)
       PROVE  Kept
  BY <1>1, <1>11 DEF RefuseStart, CommitTake, CommitDrop
<1>12. ASSUME NEW r \in Requests, RejectCommit(r)
       PROVE  Kept
  BY <1>1, <1>12 DEF RejectCommit
<1>13. A2SServers \subseteq Instances /\ RConServers \subseteq Instances
  BY SetsAssumption
<1> HIDE DEF Kept, Parsed
<1>14. Kept \/ Parsed
  <2>1. CASE \E t \in Txns, s \in SeqIDs, p \in Payloads :
               \/ ExtendTxn(t, s, p)
               \/ RefuseExtend(t, s, p)
               \/ \E j \in Instances : StartTxn(t, j, s, p)
    BY <1>10, <2>1
  <2>2. CASE \E t \in Txns, p \in Payloads : RefuseStart(t, p)
    BY <1>11, <2>2
  <2>3. CASE \E r \in Requests, j \in Instances, t \in Txns : CommitTake(r, j, t)
    BY <1>11, <2>3
  <2>4. CASE \E t \in Txns : CommitDrop(t)
    BY <1>11, <2>4
  <2>5. CASE \E r \in Requests : Publish(r) \/ RejectCommit(r)
    BY <1>3, <1>12, <2>5
  <2>6. CASE \E j \in Instances, p \in Payloads : SingleShot(j, p)
    BY <1>4, <2>6
  <2>7. CASE \E j \in A2SServers, up \in BOOLEAN : UpdatePolled(j, up)
    BY <1>7, <1>13, <2>7
  <2>8. CASE \E j \in RConServers, up \in BOOLEAN : UpdateRCon(j, up)
    BY <1>7, <1>13, <2>8
  <2>9. QED
    BY <1>6, <1>8, <1>9, <2>1, <2>2, <2>3, <2>4, <2>5, <2>6, <2>7, <2>8 DEF Next, Operations, Handling, Polling
<1>15. QED
  BY <1>14 DEF Kept, Parsed

\* No sample labelled for one instance is published for another, whichever
\* URLs the chunks and the commit of a transaction used.
THEOREM NoForeignSeriesCorrect == Spec => []NoForeignSeries
<1>1. Init => NoForeignSeries
  BY DEF Init, NoForeignSeries
<1>2. TypeOK /\ NoForeignSeries /\ [Next]_vars => NoForeignSeries'
  <2> SUFFICES ASSUME TypeOK, NoForeignSeries, [Next]_vars, ~OverwriteInstanceID,
                      NEW i \in Instances,
                      liveStore'[i] # None, liveStore'[i].Ingested # None,
                      NEW s \in Present(liveStore'[i].Ingested)
               PROVE  liveStore'[i].Ingested[s].owner \in {i, None}
    BY DEF NoForeignSeries, Present
  <2>1. CASE Parses(i, liveStore'[i].Ingested)
    BY <2>1 DEF Parses
  <2>2. CASE /\ liveStore[i] # None
             /\ liveStore'[i].Ingested = liveStore[i].Ingested
    BY <2>2 DEF NoForeignSeries
  <2>3. QED
    BY <2>1, <2>2, PublishedBodies
<1>3. QED
  BY <1>1, <1>2, TypeCorrect, PTL DEF Spec

-----------------------------------------------------------------------------
(* Nothing known is lost.                                                  *)

LEMMA IngestedGrows ==
    ASSUME TypeOK, NEW i \in Instances, liveStore[i] # None,
           NEW j \in Instances, NEW chunks \in Chunks,
           NEW n \in Nat, NEW m \in Nat, UpdateIngested(j, chunks, n, m)
    PROVE  StateGrows(i)
<1>1. liveStore[i] \in InstanceState
  BY DEF TypeOK
<1>2. CASE i = j
  <2>1. getOrCreateState(j) = liveStore[i]
    BY <1>2 DEF getOrCreateState
  <2>2. /\ liveStore'[i] \in InstanceState
        /\ liveStore'[i].Ingested = chunks
        /\ liveStore'[i].Status \in {chunks, liveStore[i].Status}
        /\ liveStore'[i].Polled = liveStore[i].Polled
        /\ liveStore'[i].RCon = liveStore[i].RCon
        /\ liveStore'[i].TotalBytes = liveStore[i].TotalBytes + n
        /\ liveStore'[i].TotalChunks = liveStore[i].TotalChunks + m
        /\ liveStore'[i].Expired = liveStore[i].Expired
    BY <1>2, <2>1, UpdatedState
  <2>3. /\ liveStore[i].TotalBytes \in Nat
        /\ liveStore[i].TotalChunks \in Nat
        /\ liveStore[i].Expired \in Nat
    BY <1>1 DEF InstanceState
  <2>4. liveStore'[i] # None /\ chunks # None
    BY <2>2, NoneAssumption
  <2>5. QED
    BY <2>2, <2>3, <2>4 DEF StateGrows
<1>3. CASE i # j
  <2>1. liveStore'[i] = liveStore[i]
    BY <1>3 DEF UpdateIngested, TypeOK
  <2>2. QED
    BY <1>1, <2>1 DEF StateGrows, InstanceState
<1>4. QED
  BY <1>2, <1>3

\* A step keeps the state of instance i, changes it without touching what it
\* published, or publishes for some instance.
LEMMA NextGrows ==
    ASSUME TypeOK, [Next]_vars, NEW i \in Instances, liveStore[i] # None
    PROVE  StateGrows(i)
<1> DEFINE state == liveStore[i]
<1>1. state \in InstanceState
  BY DEF TypeOK
<1>2. ASSUME liveStore'[i] = liveStore[i]
      PROVE  StateGrows(i)
  BY <1>1, <1>2 DEF StateGrows, InstanceState
<1>3. CASE CleanupStaging
  <2> DEFINE n == Cardinality({t \in Lapsed : stagingStore[t].InstanceID = i})
             updated == [state EXCEPT !.Expired = @ + n]
  <2>1. n \in Nat
    <3>1. {t \in Lapsed : stagingStore[t].InstanceID = i} \in SUBSET Txns
      BY DEF Lapsed, Staged
    <3>2. QED
      BY <3>1, SetsAssumption, FS_Subset, FS_CardinalityType
  <2>2. liveStore'[i] = state \/ liveStore'[i] = updated
    BY <1>3 DEF CleanupStaging, getOrCreateState
  <2> HIDE DEF n
  <2>3. updated \in InstanceState
    BY <1>1, <2>1 DEF InstanceState
  <2>4. CASE liveStore'[i] = updated
    BY <1>1, <2>1, <2>3, <2>4, NoneAssumption DEF StateGrows, InstanceState
  <2>5. QED
    BY <1>2, <2>2, <2>4
<1>4. ASSUME NEW j \in Instances, NEW up \in BOOLEAN,
             UpdatePolled(j, up) \/ UpdateRCon(j, up)
      PROVE  StateGrows(i)
  <2> DEFINE polled == [state EXCEPT !.Polled = up]
             rcon == [state EXCEPT !.RCon = up]
  <2>1. liveStore'[i] \in {state, polled, rcon}
    BY <1>4 DEF UpdatePolled, UpdateRCon, getOrCreateState, TypeOK
  <2>2. polled \in InstanceState /\ rcon \in InstanceState
    BY <1>1 DEF InstanceState
  <2>3. CASE liveStore'[i] = polled
    BY <1>1, <2>2, <2>3, NoneAssumption DEF StateGrows, InstanceState
  <2>4. CASE liveStore'[i] = rcon
    BY <1>1, <2>2, <2>4, NoneAssumption DEF StateGrows, InstanceState
  <2>5. QED
    BY <1>2, <2>1, <2>3, <2>4
<1>5. CASE Tick
  <2> DEFINE updated == [state EXCEPT !.SinceIngest = @ + 1]
  <2>1. liveStore'[i] = state \/ (liveStore'[i] = updated /\ state.SinceIngest # AgeCap)
    BY <1>5 DEF Tick
  <2>2. CASE liveStore'[i] = updated /\ state.SinceIngest # AgeCap
    <3>1. state.SinceIngest + 1 \in 0 .. AgeCap
      BY <1>1, <2>2, NumbersAssumption DEF InstanceState
    <3>2. updated \in InstanceState
      BY <1>1, <3>1 DEF InstanceState
    <3>3. QED
      BY <1>1, <2>2, <3>2, NoneAssumption DEF StateGrows, InstanceState
  <2>3. QED
    BY <1>2, <2>1, <2>2
<1>6. ASSUME NEW r \in Requests, Publish(r)
      PROVE  StateGrows(i)
  <2>1. commits[r].instance \in Instances /\ commits[r].chunks \in Chunks
    BY <1>6 DEF Publish, TypeOK, Commit
  <2>2. QED
    BY <1>6, <2>1, BytesReadType, PresentType, IngestedGrows DEF Publish
<1>7. ASSUME NEW j \in Instances, NEW p \in Payloads, SingleShot(j, p)
      PROVE  StateGrows(i)
  <2>1. p.size \in Nat /\ SingleBody(p) \in Chunks
    BY PayloadsAssumption, SingleBodyType DEF Payload
  <2>2. QED
    BY <1>7, <2>1, IngestedGrows DEF SingleShot
<1>8. ASSUME UNCHANGED liveStore
      PROVE  StateGrows(i)
  BY <1>2, <1>8
<1>9. A2SServers \subseteq Instances /\ RConServers \subseteq Instances
  BY SetsAssumption
<1>10. QED
  <2>1. CASE \E t \in Txns, s \in SeqIDs, p \in Payloads :
               \/ ExtendTxn(t, s, p)
               \/ RefuseExtend(t, s, p)
               \/ \E j \in Instances : StartTxn(t, j, s, p)
    <3>1. PICK t \in Txns, s \in SeqIDs, p \in Payloads :
            \/ ExtendTxn(t, s, p)
            \/ RefuseExtend(t, s, p)
            \/ \E j \in Instances : StartTxn(t, j, s, p)
      BY <2>1
    <3>2. CASE ExtendTxn(t, s, p)
      BY <1>8, <3>2 DEF ExtendTxn
    <3>3. CASE RefuseExtend(t, s, p)
      BY <1>8, <3>3 DEF RefuseExtend, vars
    <3>4. CASE \E j \in Instances : StartTxn(t, j, s, p)
      BY <1>8, <3>4 DEF StartTxn
    <3>5. QED
      BY <3>1, <3>2, <3>3, <3>4
  <2>2. CASE \E t \in Txns, p \in Payloads : RefuseStart(t, p)
    BY <1>8, <2>2 DEF RefuseStart
  <2>3. CASE \E r \in Requests, j \in Instances, t \in Txns : CommitTake(r, j, t)
    BY <1>8, <2>3 DEF CommitTake
  <2>4. CASE \E t \in Txns : CommitDrop(t)
    BY <1>8, <2>4 DEF CommitDrop
  <2>5. CASE \E r \in Requests : Publish(r) \/ RejectCommit(r)
    BY <1>6, <1>8, <2>5 DEF RejectCommit
  <2>6. CASE \E j \in Instances, p \in Payloads : SingleShot(j, p)
    BY <1>7, <2>6
  <2>7. CASE \E j \in A2SServers, up \in BOOLEAN : UpdatePolled(j, up)
    BY <1>4, <1>9, <2>7
  <2>8. CASE \E j \in RConServers, up \in BOOLEAN : UpdateRCon(j, up)
    BY <1>4, <1>9, <2>8
  <2>9. CASE UNCHANGED vars
    BY <1>8, <2>9 DEF vars
  <2>10. QED
    BY <1>3, <1>5, <2>1, <2>2, <2>3, <2>4, <2>5, <2>6, <2>7, <2>8, <2>9 DEF Next, Operations, Handling, Polling

\* No handler, poller or collection forgets an instance, withdraws what was
\* published for it, or lowers one of its counters.
THEOREM StatsOnlyGrowCorrect == Spec => StatsOnlyGrow
<1>1. TypeOK /\ [Next]_vars
      => [\A i \in Instances : liveStore[i] # None => StateGrows(i)]_vars
  BY NextGrows
<1>2. QED
  BY <1>1, TypeCorrect, PTL DEF Spec, StatsOnlyGrow

-----------------------------------------------------------------------------
(* Storage implements UploadLog: the initial state is one of the log's,    *)
(* and each step is a step of the log or leaves it alone.                  *)

(* What the log sees of the staging buffer.                                *)

LEMMA UploadNotNone ==
    ASSUME NEW item \in StagingItem
    PROVE  Upload(item) # None
<1>1. Upload(item) \in [owner : Instances, chunks : Chunks, lapsed : BOOLEAN]
  BY DEF Upload, StagingItem, Expired
<1>2. QED
  BY <1>1, NoneAssumption

LEMMA LogSeesStaged ==
    ASSUME TypeOK, NEW t \in Txns
    PROVE  /\ Log!IsOpen(t) <=> t \in Staged
           /\ t \in Staged => /\ LogOpen[t] = Upload(stagingStore[t])
                             /\ LogOpen[t].owner = stagingStore[t].InstanceID
                             /\ LogOpen[t].chunks = stagingStore[t].Chunks
                             /\ LogOpen[t].lapsed = Expired(stagingStore[t])
           /\ Log!CanGrow(t) <=> IsOpen(t)
<1>1. t \in Staged => stagingStore[t] \in StagingItem
  BY DEF TypeOK, Staged
<1>2. t \in Staged => LogOpen[t] = Upload(stagingStore[t]) /\ LogOpen[t] # None
  BY <1>1, UploadNotNone DEF LogOpen, Staged
<1>3. t \notin Staged => LogOpen[t] = None
  BY DEF LogOpen, Staged
<1>4. QED
  BY <1>2, <1>3 DEF Log!IsOpen, Log!CanGrow, IsOpen, Upload

LEMMA LogWithout ==
    ASSUME NEW gone
    PROVE  Log!Without(gone)
           = [t \in Txns |-> IF t \in gone THEN None ELSE LogOpen[t]]
BY DEF Log!Without

LEMMA LogRemoval ==
    ASSUME NEW gone, stagingStore' = StoreWithout(gone)
    PROVE  LogOpen' = Log!Without(gone)
BY DEF LogOpen, StoreWithout, Log!Without, Upload, Expired

\* The log's instance of the empty body is this module's.
LEMMA LogNoChunks == Log!NoChunks = NoChunks
BY DEF Log!NoChunks, NoChunks

-----------------------------------------------------------------------------
(* What the log sees of the live store.                                    *)

LEMMA PublishedKept ==
    ASSUME \A i \in Instances :
              \/ liveStore'[i] = liveStore[i]
              \/ /\ liveStore'[i] # None
                 /\ liveStore'[i].Ingested = getOrCreateState(i).Ingested
    PROVE  LogPublished' = LogPublished
BY DEF LogPublished, getOrCreateState, NewState

LEMMA PublishedUpdated ==
    ASSUME TypeOK, NEW i \in Instances, NEW chunks \in Chunks,
           NEW n \in Nat, NEW m \in Nat, UpdateIngested(i, chunks, n, m)
    PROVE  LogPublished' = [LogPublished EXCEPT ![i] = chunks]
<1>1. liveStore'[i] # None /\ liveStore'[i].Ingested = chunks
  BY UpdatedState, NoneAssumption
<1>2. \A j \in Instances \ {i} : liveStore'[j] = liveStore[j]
  BY DEF UpdateIngested, TypeOK
<1>3. QED
  BY <1>1, <1>2 DEF LogPublished

-----------------------------------------------------------------------------
(* One step of the store is one step of the log, or none.                  *)

LEMMA ExtendLog ==
    ASSUME TypeOK, NEW t \in Txns, NEW s \in SeqIDs, NEW p \in Payloads,
           ExtendTxn(t, s, p)
    PROVE  Log!Extend(t, s, p)
<1> DEFINE old == Upload(stagingStore[t])
           new == Upload(stagingStore'[t])
<1>1. t \in Staged /\ IsOpen(t)
  BY ExtendedItem DEF ExtendTxn
<1>2. new = [old EXCEPT !.chunks[s] = p]
  BY ExtendedItem DEF Upload, Expired
<1>3. LogOpen[t] = old
  BY <1>1, LogSeesStaged
<1>4. LogOpen'[t] = new
  BY ExtendedItem, NoneAssumption DEF LogOpen, Upload, Expired
<1>5. \A u \in Txns \ {t} : LogOpen'[u] = LogOpen[u]
  <2>1. \A u \in Txns \ {t} : stagingStore'[u] = stagingStore[u]
    BY ExtendedItem DEF TypeOK
  <2>2. QED
    BY <2>1 DEF LogOpen, Upload, Expired
<1>6. LogOpen' = [LogOpen EXCEPT ![t].chunks[s] = p]
  <2> HIDE DEF old, new
  <2>1. LogOpen' = [u \in Txns |-> LogOpen'[u]] /\ LogOpen = [u \in Txns |-> LogOpen[u]]
    BY DEF LogOpen
  <2>2. QED
    BY <1>2, <1>3, <1>4, <1>5, <2>1
<1>7. UNCHANGED <<commits, LogPublished>>
  BY DEF ExtendTxn, LogPublished
<1>8. QED
  BY <1>1, <1>6, <1>7, LogSeesStaged DEF Log!Extend

LEMMA StartLog ==
    ASSUME TypeOK, StagingInv, NEW t \in Txns, NEW i \in Instances,
           NEW s \in SeqIDs, NEW p \in Payloads, StartTxn(t, i, s, p)
    PROVE  Log!Start(t, i, s, p)
<1> DEFINE gone == Reset(t) \cup Siblings(t, i)
           same == {u \in Txns : Log!IsOpen(u) /\ LogOpen[u].owner = i}
           new == [owner |-> i, chunks |-> OneChunk(s, p), lapsed |-> FALSE]
<1>1. ~Log!CanGrow(t)
  BY LogSeesStaged DEF StartTxn
<1>2. /\ stagingStore'[t].InstanceID = i
      /\ stagingStore'[t].Chunks = OneChunk(s, p)
      /\ stagingStore'[t].ExpiresIn \in Nat
      /\ stagingStore'[t] # None
      /\ \A u \in Txns \ {t} : stagingStore'[u] = StoreWithout(gone)[u]
  <2>1. stagingStore'[t] = NewItem(i, s, p) /\ stagingStore'[t] # None
    BY StartedItem
  <2>2. \A u \in Txns \ {t} : stagingStore'[u] = StoreWithout(gone)[u]
    BY StartedItem
  <2>3. /\ NewItem(i, s, p).InstanceID = i
        /\ NewItem(i, s, p).Chunks = OneChunk(s, p)
        /\ NewItem(i, s, p).ExpiresIn \in Nat
    BY TTLType DEF NewItem
  <2>4. QED
    BY <2>1, <2>2, <2>3
<1>3. LogOpen'[t] = new
  <2>1. ~(stagingStore'[t].ExpiresIn < 0)
    BY <1>2
  <2>2. LogOpen'[t] = Upload(stagingStore'[t])
    BY <1>2 DEF LogOpen, Upload, Expired
  <2>3. Upload(stagingStore'[t]) = new
    <3>1. Expired(stagingStore'[t]) = FALSE
      BY <2>1 DEF Expired
    <3>2. QED
      BY <1>2, <3>1 DEF Upload
  <2>4. QED
    BY <2>2, <2>3
<1>4. \A u \in Txns \ {t} : u \in same <=> u \in gone
  <2>1. \A u \in Txns \ {t} : u \in gone <=> u \in Staged /\ stagingStore[u].InstanceID = i
    BY DEF Reset, Siblings
  <2>2. \A u \in Txns : u \in same <=> u \in Staged /\ stagingStore[u].InstanceID = i
    BY LogSeesStaged DEF Staged
  <2>3. QED
    BY <2>1, <2>2
<1>5. \A u \in Txns \ {t} : LogOpen'[u] = IF u \in same THEN None ELSE LogOpen[u]
  BY <1>2, <1>4 DEF LogOpen, StoreWithout, Upload, Expired
<1>6. LogOpen' = [Log!Without(same) EXCEPT ![t] = new]
  <2>1. LogOpen' = [u \in Txns |-> LogOpen'[u]]
    BY DEF LogOpen
  <2>2. Log!Without(same) = [u \in Txns |-> IF u \in same THEN None ELSE LogOpen[u]]
    BY LogWithout
  <2> HIDE DEF same, new
  <2>3. QED
    BY <1>3, <1>5, <2>1, <2>2
<1>7. UNCHANGED <<commits, LogPublished>>
  BY DEF StartTxn, LogPublished
<1>8. QED
  BY <1>1, <1>6, <1>7, LogNoChunks DEF OneChunk, Log!Start

\* Taking lapsed transactions out is a Drop, or nothing.
LEMMA DropLog ==
    ASSUME TypeOK, NEW gone \in SUBSET Lapsed, stagingStore' = StoreWithout(gone),
           UNCHANGED <<commits, LogPublished>>
    PROVE  Log!Drop(gone) \/ UNCHANGED Log!vars
<1>1. LogOpen' = Log!Without(gone)
  BY LogRemoval
<1>2. \A t \in gone : Log!IsOpen(t) /\ LogOpen[t].lapsed
  <2>1. \A t \in gone : t \in Txns /\ t \in Staged /\ Expired(stagingStore[t])
    BY DEF Lapsed, Staged
  <2>2. QED
    BY <2>1, LogSeesStaged
<1>3. CASE gone = {}
  <2>1. LogOpen' = LogOpen
    BY <1>1, <1>3, LogWithout DEF LogOpen
  <2>2. QED
    BY <2>1 DEF Log!vars
<1>4. CASE gone # {}
  BY <1>1, <1>2, <1>4 DEF Log!Drop
<1>5. QED
  BY <1>3, <1>4

LEMMA TakeLog ==
    ASSUME TypeOK, NEW r \in Requests, NEW i \in Instances, NEW t \in Txns,
           CommitTake(r, i, t)
    PROVE  Log!Take(r, i, t)
<1>1. Log!CanGrow(t) /\ LogOpen[t].chunks = stagingStore[t].Chunks
  <2>1. IsOpen(t) /\ t \in Staged
    BY DEF CommitTake, IsOpen
  <2>2. QED
    BY <2>1, LogSeesStaged
<1>2. LogOpen' = Log!Without({t})
  BY LogRemoval DEF CommitTake
<1>3. UNCHANGED LogPublished
  BY DEF CommitTake, LogPublished
<1>4. QED
  BY <1>1, <1>2, <1>3 DEF CommitTake, Log!Take

LEMMA StagingUntouched ==
    ASSUME UNCHANGED stagingStore
    PROVE  UNCHANGED LogOpen
BY DEF LogOpen, Upload, Expired

LEMMA PublishLog ==
    ASSUME TypeOK, NEW r \in Requests, Publish(r)
    PROVE  Log!Publish(r)
<1>1. commits[r].instance \in Instances /\ commits[r].chunks \in Chunks
  BY DEF Publish, TypeOK, Commit
<1>2. LogPublished' = [LogPublished EXCEPT ![commits[r].instance] = commits[r].chunks]
  BY <1>1, BytesReadType, PresentType, PublishedUpdated DEF Publish
<1>3. UNCHANGED LogOpen
  BY StagingUntouched DEF Publish
<1>4. QED
  BY <1>2, <1>3 DEF Publish, Log!Publish

LEMMA SingleShotLog ==
    ASSUME TypeOK, NEW i \in Instances, NEW p \in Payloads, SingleShot(i, p)
    PROVE  \E s \in SeqIDs : Log!PublishSingle(i, s, p)
<1> DEFINE s == CHOOSE u \in SeqIDs : TRUE
<1>1. s \in SeqIDs /\ p.size \in Nat /\ SingleBody(p) \in Chunks
  BY SetsAssumption, PayloadsAssumption, SingleBodyType DEF Payload
<1>2. LogPublished' = [LogPublished EXCEPT ![i] = SingleBody(p)]
  BY <1>1, PublishedUpdated DEF SingleShot
<1>3. UNCHANGED <<LogOpen, commits>>
  BY StagingUntouched DEF SingleShot
<1>4. SingleBody(p) = OneChunk(s, p)
  BY DEF SingleBody
<1>5. QED
  BY <1>1, <1>2, <1>3, <1>4, LogNoChunks DEF OneChunk, Log!PublishSingle

LEMMA CleanupLog ==
    ASSUME TypeOK, CleanupStaging
    PROVE  Log!Drop(Lapsed)
<1>1. LogPublished' = LogPublished
  <2>1. ASSUME NEW i \in Instances
        PROVE  \/ liveStore'[i] = liveStore[i]
               \/ /\ liveStore'[i] # None
                  /\ liveStore'[i].Ingested = getOrCreateState(i).Ingested
    <3> DEFINE n == Cardinality({t \in Lapsed : stagingStore[t].InstanceID = i})
               state == [getOrCreateState(i) EXCEPT !.Expired = @ + n]
    <3>1. liveStore'[i] = liveStore[i] \/ liveStore'[i] = state
      BY DEF CleanupStaging
    <3>2. state.Ingested = getOrCreateState(i).Ingested
      BY StateType DEF InstanceState
    <3>3. liveStore'[i] \in InstanceState \cup {None}
      BY CleanupStagingType DEF TypeOK
    <3>4. state # None
      <4>1. n \in Nat
        <5>1. {t \in Lapsed : stagingStore[t].InstanceID = i} \in SUBSET Txns
          BY DEF Lapsed, Staged
        <5>2. QED
          BY <5>1, SetsAssumption, FS_Subset, FS_CardinalityType
      <4> HIDE DEF n
      <4>2. state \in InstanceState
        BY <4>1, StateType DEF InstanceState
      <4>3. QED
        BY <4>2, NoneAssumption
    <3> HIDE DEF state
    <3>5. QED
      BY <3>1, <3>2, <3>4
  <2>2. QED
    BY <2>1, PublishedKept
<1>2. Log!Drop(Lapsed) \/ UNCHANGED Log!vars
  BY <1>1, DropLog DEF CleanupStaging
<1>3. Lapsed # {} /\ LogOpen' = Log!Without(Lapsed)
  BY LogRemoval DEF CleanupStaging
<1>4. \A t \in Lapsed : Log!IsOpen(t) /\ LogOpen[t].lapsed
  <2>1. \A t \in Lapsed : t \in Txns /\ t \in Staged /\ Expired(stagingStore[t])
    BY DEF Lapsed, Staged
  <2>2. QED
    BY <2>1, LogSeesStaged
<1>5. QED
  BY <1>1, <1>3, <1>4 DEF CleanupStaging, Log!Drop

LEMMA RefuseStartLog ==
    ASSUME TypeOK, NEW t \in Txns, NEW p \in Payloads, RefuseStart(t, p)
    PROVE  Log!Drop(Reset(t)) \/ UNCHANGED Log!vars
<1>1. Reset(t) \in SUBSET Lapsed
  BY DEF Reset
<1>2. UNCHANGED <<commits, LogPublished>>
  BY DEF RefuseStart, LogPublished
<1>3. stagingStore' = StoreWithout(Reset(t))
  BY DEF RefuseStart
<1>4. QED
  BY <1>1, <1>2, <1>3, DropLog

\* Only a lapsed transaction is dropped by its commit: none is empty.
LEMMA CommitDropLog ==
    ASSUME TypeOK, StagingInv, NEW t \in Txns, CommitDrop(t)
    PROVE  Log!Drop({t}) \/ UNCHANGED Log!vars
<1>1. {t} \in SUBSET Lapsed
  BY DEF CommitDrop, StagingInv, StagedNonEmpty, Lapsed
<1>2. UNCHANGED <<commits, LogPublished>>
  BY DEF CommitDrop, LogPublished
<1>3. stagingStore' = StoreWithout({t})
  BY DEF CommitDrop
<1>4. QED
  BY <1>1, <1>2, <1>3, DropLog

LEMMA RejectLog ==
    ASSUME NEW r \in Requests, RejectCommit(r)
    PROVE  Log!Reject(r)
<1>1. UNCHANGED <<LogOpen, LogPublished>>
  BY StagingUntouched DEF RejectCommit, LogPublished
<1>2. QED
  BY <1>1 DEF RejectCommit, Log!Reject

\* What a poll brings is beside what was ingested.
LEMMA PollLog ==
    ASSUME TypeOK, NEW i \in Instances, NEW up \in BOOLEAN,
           UpdatePolled(i, up) \/ UpdateRCon(i, up)
    PROVE  UNCHANGED Log!vars
<1> DEFINE polled == [getOrCreateState(i) EXCEPT !.Polled = up]
           rcon == [getOrCreateState(i) EXCEPT !.RCon = up]
<1>1. /\ polled \in InstanceState /\ polled.Ingested = getOrCreateState(i).Ingested
      /\ rcon \in InstanceState /\ rcon.Ingested = getOrCreateState(i).Ingested
  BY StateType DEF InstanceState
<1>2. polled # None /\ rcon # None
  BY <1>1, NoneAssumption
<1> HIDE DEF polled, rcon
<1>3. \/ liveStore' = [liveStore EXCEPT ![i] = polled]
      \/ liveStore' = [liveStore EXCEPT ![i] = rcon]
  BY DEF UpdatePolled, UpdateRCon, polled, rcon
<1>4. \A j \in Instances :
         \/ liveStore'[j] = liveStore[j]
         \/ /\ liveStore'[j] # None
            /\ liveStore'[j].Ingested = getOrCreateState(j).Ingested
  BY <1>1, <1>2, <1>3 DEF TypeOK
<1>5. UNCHANGED LogPublished
  BY <1>4, PublishedKept
<1>6. UNCHANGED <<LogOpen, commits>>
  BY StagingUntouched DEF UpdatePolled, UpdateRCon
<1>7. QED
  BY <1>5, <1>6 DEF Log!vars

LEMMA TickLog ==
    ASSUME TypeOK, Tick
    PROVE  Log!Lapse({t \in Txns : IsOpen(t) /\ stagingStore[t].ExpiresIn = 0})
           \/ UNCHANGED Log!vars
<1> DEFINE late == {t \in Txns : IsOpen(t) /\ stagingStore[t].ExpiresIn = 0}
<1>1. UNCHANGED <<commits, LogPublished>>
  <2>1. \A i \in Instances :
          \/ liveStore'[i] = liveStore[i]
          \/ /\ liveStore'[i] # None
             /\ liveStore'[i].Ingested = getOrCreateState(i).Ingested
    <3> SUFFICES ASSUME NEW i \in Instances, liveStore'[i] # liveStore[i]
                 PROVE  /\ liveStore'[i] # None
                        /\ liveStore'[i].Ingested = getOrCreateState(i).Ingested
      OBVIOUS
    <3>1. /\ liveStore[i] # None
          /\ liveStore'[i] = [liveStore[i] EXCEPT !.SinceIngest = @ + 1]
      BY DEF Tick
    <3>2. liveStore[i] \in InstanceState
      BY <3>1 DEF TypeOK
    <3>3. [liveStore[i] EXCEPT !.SinceIngest = @ + 1].Ingested = liveStore[i].Ingested
      BY <3>2 DEF InstanceState
    <3>4. liveStore'[i] # None
      <4>1. liveStore[i].SinceIngest # AgeCap
        BY <3>1 DEF Tick
      <4>2. [liveStore[i] EXCEPT !.SinceIngest = @ + 1] \in InstanceState
        BY <3>2, <4>1, NumbersAssumption DEF InstanceState
      <4>3. QED
        BY <3>1, <4>2, NoneAssumption
    <3>5. QED
      BY <3>1, <3>3, <3>4 DEF getOrCreateState
  <2>2. QED
    BY <2>1, PublishedKept DEF Tick
<1>2. ASSUME NEW t \in Txns
      PROVE  LogOpen'[t] = IF t \in late THEN [LogOpen[t] EXCEPT !.lapsed = TRUE]
                                         ELSE LogOpen[t]
  <2>1. CASE ~IsOpen(t)
    <3>1. stagingStore'[t] = stagingStore[t]
      BY <2>1 DEF Tick
    <3>2. LogOpen'[t] = LogOpen[t]
      BY <3>1 DEF LogOpen, Upload, Expired
    <3>3. QED
      BY <2>1, <3>2
  <2>2. CASE IsOpen(t)
    <3> DEFINE item == stagingStore[t]
               item2 == [item EXCEPT !.ExpiresIn = @ - 1]
    <3>1. /\ item \in StagingItem /\ item.ExpiresIn \in Nat
          /\ item2 \in StagingItem
          /\ stagingStore'[t] = item2
      <4>1. item \in StagingItem /\ ~(item.ExpiresIn < 0)
        BY <2>2 DEF IsOpen, Staged, Expired, TypeOK
      <4>2. item.ExpiresIn \in Nat
        BY <4>1 DEF StagingItem
      <4>3. item2 \in StagingItem
        BY <4>1, <4>2 DEF StagingItem
      <4>4. QED
        BY <2>2, <4>1, <4>2, <4>3 DEF Tick
    <3>2. /\ item2.InstanceID = item.InstanceID
          /\ item2.Chunks = item.Chunks
          /\ item2.ExpiresIn = item.ExpiresIn - 1
      BY <3>1 DEF StagingItem
    <3>3. LogOpen[t] = Upload(item)
      BY <2>2, LogSeesStaged DEF IsOpen
    <3>4. LogOpen'[t] = Upload(item2)
      BY <3>1, NoneAssumption DEF LogOpen, Upload, Expired
    <3> HIDE DEF item2
    <3>5. /\ Expired(item) = FALSE
          /\ Expired(item2) = (item.ExpiresIn = 0)
      BY <3>1, <3>2 DEF Expired
    <3>6. Upload(item2) = IF item.ExpiresIn = 0
                          THEN [Upload(item) EXCEPT !.lapsed = TRUE]
                          ELSE Upload(item)
      BY <3>2, <3>5 DEF Upload
    <3>7. QED
      BY <2>2, <3>3, <3>4, <3>6
  <2>3. QED
    BY <2>1, <2>2
<1>3. LogOpen' = [t \in Txns |-> IF t \in late THEN [LogOpen[t] EXCEPT !.lapsed = TRUE]
                                              ELSE LogOpen[t]]
  BY <1>2 DEF LogOpen
<1>4. CASE late = {}
  BY <1>1, <1>3, <1>4 DEF Log!vars, LogOpen
<1>5. CASE late # {}
  BY <1>1, <1>3, <1>5, LogSeesStaged DEF Log!Lapse
<1>6. QED
  BY <1>4, <1>5

-----------------------------------------------------------------------------
LEMMA InitLog == ASSUME Init PROVE Log!Init
BY DEF Init, LogOpen, LogPublished, Log!Init

LEMMA StepLog ==
    ASSUME TypeOK, StagingInv, [Next]_vars
    PROVE  [Log!Next]_Log!vars
<1>1. CASE UNCHANGED vars
  BY <1>1, StagingUntouched DEF vars, Log!vars, LogPublished
<1>2. ASSUME NEW t \in Txns, NEW s \in SeqIDs, NEW p \in Payloads,
             \/ ExtendTxn(t, s, p)
             \/ RefuseExtend(t, s, p)
             \/ \E i \in Instances : StartTxn(t, i, s, p)
      PROVE  [Log!Next]_Log!vars
  <2>1. CASE ExtendTxn(t, s, p)
    BY <2>1, ExtendLog DEF Log!Next
  <2>2. CASE RefuseExtend(t, s, p)
    BY <2>2, StagingUntouched DEF RefuseExtend, vars, Log!vars, LogPublished
  <2>3. ASSUME NEW i \in Instances, StartTxn(t, i, s, p)
        PROVE  [Log!Next]_Log!vars
    BY <2>3, StartLog DEF Log!Next
  <2>4. QED
    BY <1>2, <2>1, <2>2, <2>3
<1>3. ASSUME NEW t \in Txns, NEW p \in Payloads, RefuseStart(t, p)
      PROVE  [Log!Next]_Log!vars
  <2>1. Reset(t) \in SUBSET Txns
    BY DEF Reset
  <2>2. QED
    BY <1>3, <2>1, RefuseStartLog DEF Log!Next
<1>4. ASSUME NEW r \in Requests, NEW i \in Instances, NEW t \in Txns, CommitTake(r, i, t)
      PROVE  [Log!Next]_Log!vars
  BY <1>4, TakeLog DEF Log!Next
<1>5. ASSUME NEW t \in Txns, CommitDrop(t)
      PROVE  [Log!Next]_Log!vars
  <2>1. {t} \in SUBSET Txns
    OBVIOUS
  <2>2. QED
    BY <1>5, <2>1, CommitDropLog DEF Log!Next
<1>6. ASSUME NEW r \in Requests, Publish(r) \/ RejectCommit(r)
      PROVE  [Log!Next]_Log!vars
  BY <1>6, PublishLog, RejectLog DEF Log!Next
<1>7. ASSUME NEW i \in Instances, NEW p \in Payloads, SingleShot(i, p)
      PROVE  [Log!Next]_Log!vars
  BY <1>7, SingleShotLog DEF Log!Next
<1>8. ASSUME NEW i \in Instances, NEW up \in BOOLEAN,
             UpdatePolled(i, up) \/ UpdateRCon(i, up)
      PROVE  [Log!Next]_Log!vars
  BY <1>8, PollLog
<1>9. CASE CleanupStaging
  <2>1. Lapsed \in SUBSET Txns
    BY DEF Lapsed, Staged
  <2>2. QED
    BY <1>9, <2>1, CleanupLog DEF Log!Next
<1>10. CASE Tick
  <2>1. {t \in Txns : IsOpen(t) /\ stagingStore[t].ExpiresIn = 0} \in SUBSET Txns
    OBVIOUS
  <2>2. QED
    BY <1>10, <2>1, TickLog DEF Log!Next
<1>11. QED
  BY <1>1, <1>2, <1>3, <1>4, <1>5, <1>6, <1>7, <1>8, <1>9, <1>10, SetsAssumption DEF Next, Operations, Handling, Polling

\* The staging buffer, the commits in progress and the live store together
\* implement UploadLog: whatever the handlers, the collector and the pollers
\* do, in any order, commits publish whole transactions, once and in time.
THEOREM UploadLogImplemented == Spec => ImplementsUploadLog
<1>1. Init => Log!Init
  BY InitLog
<1>2. TypeOK /\ StagingInv /\ [Next]_vars => [Log!Next]_Log!vars
  BY StepLog
<1>3. QED
  BY <1>1, <1>2, TypeCorrect, StagingCorrect, PTL DEF Spec, ImplementsUploadLog, Log!Spec
=============================================================================
