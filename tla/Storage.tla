------------------------------ MODULE Storage -------------------------------
(***************************************************************************)
(* The in-memory store of the exporter (internal/storage) with the ingest  *)
(* handlers that drive it (internal/server/ingest_*.go).                   *)
(*                                                                         *)
(* Everything done under one hold of stagingMu or liveMu is one action.  A *)
(* commit holds neither lock between RetrieveStaging and UpdateIngested,   *)
(* so it is two actions with the body it has taken in flight.              *)
(***************************************************************************)
EXTENDS Integers, FiniteSets, Sums

CONSTANTS
    Instances,            \* instance ids
    Txns,                 \* transaction hashes
    SeqIDs,               \* chunk sequence numbers
    Payloads,             \* request bodies, see Payload
    Requests,             \* commits that can be in progress together
    A2SServers,           \* instances polled over A2S
    RConServers,          \* instances polled over RCon
    MaxStagingSize,       \* ingest.max_staging_size
    MaxBodySize,          \* ingest.max_body_size
    TransactionTTL,       \* ingest.transaction_ttl, in ticks
    Second,               \* ticks in one second
    DefaultInterval,      \* the 60 s of UpdateIngested, in ticks
    OverwriteInstanceID,  \* ingest.overwrite_instance_id
    AgeCap,               \* bound: ages of ingested data are not told apart beyond it
    MaxUploads,           \* bound: transactions and single-shot bodies begun
    None                  \* absent

VARIABLES
    stagingStore,  \* Storage.stagingStore: the open transactions
    stagingSize,   \* Storage.stagingSize: the bytes they are said to hold
    liveStore,     \* Storage.liveStore: the state of each known instance
    commits,       \* bodies taken by commits that are still being parsed
    uploads        \* uploads begun so far

vars == <<stagingStore, stagingSize, liveStore, commits, uploads>>

-----------------------------------------------------------------------------
(* Data.  A payload is what the properties tell of a request body: its     *)
(* length, whether it ends in a newline, whether it is well-formed text,   *)
(* the instance_id label its samples carry, and the two families the store *)
(* looks at.                                                               *)

Payload == [size     : Nat,
            newline  : BOOLEAN,
            valid    : BOOLEAN,
            owner    : Instances \cup {None},
            interval : Nat \cup {None},   \* dayz_metricz_scrape_interval_seconds, in ticks
            status   : BOOLEAN]           \* has a dayz_metricz_status family

Chunks == [SeqIDs -> Payloads \cup {None}]

StagingItem == [Chunks     : Chunks,
                InstanceID : Instances,
                ByteSize   : Int,
                ExpiresIn  : Nat \cup {-1}]  \* ticks to ExpiresAt; -1 once it has passed

InstanceState == [Ingested       : Chunks \cup {None},  \* the body IngestedFamilies were parsed from
                  Status         : Chunks \cup {None},  \* ... CachedStatusFamily was taken from
                  Polled         : BOOLEAN \cup {None}, \* the up value of PolledFamilies
                  RCon           : BOOLEAN \cup {None}, \* the up value of RConFamilies
                  ScrapeInterval : Nat,
                  SinceIngest    : 0 .. AgeCap,         \* age of LastIngestUpdate and LastIngest
                  TotalBytes     : Nat,
                  TotalChunks    : Nat,
                  Expired        : Nat]                 \* ExpiredTransactions

Commit == [instance : Instances, chunks : Chunks]

ASSUME SetsAssumption ==
    /\ IsFiniteSet(Instances)
    /\ IsFiniteSet(Txns)
    /\ IsFiniteSet(SeqIDs)
    /\ SeqIDs \subseteq Int
    /\ SeqIDs # {}
    /\ A2SServers \subseteq Instances
    /\ RConServers \subseteq Instances

ASSUME PayloadsAssumption == Payloads \subseteq Payload

ASSUME NumbersAssumption ==
    /\ MaxStagingSize \in Nat
    /\ MaxBodySize \in Nat
    /\ TransactionTTL \in Nat
    /\ Second \in Nat \ {0}
    /\ DefaultInterval \in Nat
    /\ AgeCap \in Nat
    /\ MaxUploads \in Nat
    /\ OverwriteInstanceID \in BOOLEAN

ASSUME NoneAssumption ==
    /\ None \notin Instances \cup Payloads
    /\ None \notin Chunks \cup StagingItem \cup InstanceState \cup Commit
    /\ None \notin [owner : Instances, chunks : Chunks, lapsed : BOOLEAN]
    /\ None \notin BOOLEAN
    /\ None \notin Nat

-----------------------------------------------------------------------------
(* Staging.                                                                *)

Staged == {t \in Txns : stagingStore[t] # None}

\* time.Now().After(ExpiresAt): strictly later.
Expired(item) == item.ExpiresIn < 0

IsOpen(t) == t \in Staged /\ ~Expired(stagingStore[t])
Lapsed == {t \in Staged : Expired(stagingStore[t])}

ItemSize(item) == IF item = None THEN 0 ELSE item.ByteSize
ChunkSize(chunk) == IF chunk = None THEN 0 ELSE chunk.size

ItemSizes == [t \in Txns |-> ItemSize(stagingStore[t])]
ChunkSizes(chunks) == [s \in SeqIDs |-> ChunkSize(chunks[s])]

\* BUG: the bytes of what is dropped are not given back.
SizeKept(gone) == stagingSize

\* stagingSize -= ByteSize for every item of gone.
SizeWithout(gone) == stagingSize - Total(ItemSizes, gone)
StoreWithout(gone) == [t \in Txns |-> IF t \in gone THEN None ELSE stagingStore[t]]

Present(chunks) == {s \in SeqIDs : chunks[s] # None}
NoChunks == [s \in SeqIDs |-> None]
OneChunk(s, p) == [NoChunks EXCEPT ![s] = p]

MaxOf(a, b) == IF a >= b THEN a ELSE b

\* time.Duration(ScrapeInterval) * time.Second drops the fraction of a second.
WholeSeconds(ticks) == (ticks \div Second) * Second

TTL(i) ==
    IF liveStore[i] = None
    THEN TransactionTTL
    ELSE MaxOf(TransactionTTL, WholeSeconds(liveStore[i].ScrapeInterval))

-----------------------------------------------------------------------------
(* Parsing a body: every sample is well formed and carries the instance's  *)
(* label or none (unless labels are overwritten), and no two chunks bring  *)
(* the same family: a family comes with its TYPE line, as the metrics of   *)
(* the mod do, and the text format refuses a second one.  (Bare samples    *)
(* in a later chunk would join the family; no payload is one of these.)    *)

\* BUG: labels are not compared with the instance of the URL.
ParsesAnyLabel(i, chunks) == \A s \in Present(chunks) : chunks[s].valid

Parses(i, chunks) ==
    LET P == Present(chunks) IN
    /\ \A s \in P : /\ chunks[s].valid
                    /\ OverwriteInstanceID \/ chunks[s].owner \in {i, None}
    /\ \A s, u \in P : s # u =>
          /\ chunks[s].interval = None \/ chunks[u].interval = None
          /\ ~(chunks[s].status /\ chunks[u].status)

\* BUG: the first chunk's interval, whether or not it brings one.
IntervalOfFirst(chunks) == chunks[CHOOSE s \in Present(chunks) : TRUE].interval

IntervalOf(chunks) ==
    LET carriers == {s \in Present(chunks) : chunks[s].interval # None}
    IN  IF carriers = {} THEN DefaultInterval
                         ELSE chunks[CHOOSE s \in carriers : TRUE].interval

HasStatus(chunks) == \E s \in Present(chunks) : chunks[s].status

\* Each non-empty chunk that lacks a final newline is given one.
BytesRead(chunks) ==
    Total([s \in SeqIDs |->
             IF chunks[s] = None THEN 0
             ELSE chunks[s].size
                  + (IF chunks[s].size > 0 /\ ~chunks[s].newline THEN 1 ELSE 0)],
          SeqIDs)

-----------------------------------------------------------------------------
(* The live store.                                                         *)

NewState == [Ingested |-> None, Status |-> None, Polled |-> None, RCon |-> None,
             ScrapeInterval |-> 0, SinceIngest |-> AgeCap,
             TotalBytes |-> 0, TotalChunks |-> 0, Expired |-> 0]

\* BUG: the state another request created is replaced.
FreshState(i) == NewState

getOrCreateState(i) == IF liveStore[i] = None THEN NewState ELSE liveStore[i]

UpdateIngested(i, chunks, bytesAdded, chunksAdded) ==
    liveStore' =
      [liveStore EXCEPT ![i] =
         [getOrCreateState(i) EXCEPT
            !.Ingested       = chunks,
            !.Status         = IF HasStatus(chunks) THEN chunks ELSE @,
            !.ScrapeInterval = IntervalOf(chunks),
            !.SinceIngest    = 0,
            !.TotalBytes     = @ + bytesAdded,
            !.TotalChunks    = @ + chunksAdded]]

-----------------------------------------------------------------------------
Init ==
    /\ stagingStore = [t \in Txns |-> None]
    /\ stagingSize = 0
    /\ liveStore = [i \in Instances |-> None]
    /\ commits = [r \in Requests |-> None]
    /\ uploads = 0

(* POST /ingest/{instance_id}/{txn_hash}/{seq_id}: AppendToStaging.         *)

\* BUG: a chunk sent again counts twice.
DeltaOfNew(t, s, p) == p.size

\* The bytes chunk s adds to open transaction t: an earlier copy is replaced.
Delta(t, s, p) == p.size - ChunkSize(stagingStore[t].Chunks[s])

\* A transaction that has lapsed is started over.
Reset(t) == {t} \cap Lapsed

\* BUG: only the lapsed ones are dropped.
LapsedSiblings(t, i) == {u \in Lapsed \ {t} : stagingStore[u].InstanceID = i}

\* Other transactions of instance i.
Siblings(t, i) == {u \in Staged \ {t} : stagingStore[u].InstanceID = i}

\* BUG: only a first chunk is checked against the quota.
ExtendUnchecked(t, s, p) ==
    /\ IsOpen(t)
    /\ p.size <= MaxBodySize
    /\ stagingStore' = [stagingStore EXCEPT
                          ![t].Chunks[s] = p,
                          ![t].ByteSize = @ + Delta(t, s, p)]
    /\ stagingSize' = stagingSize + Delta(t, s, p)
    /\ UNCHANGED <<liveStore, commits, uploads>>

\* BUG: each chunk gives its transaction a new deadline.
ExtendDeadline(t, s, p) ==
    /\ IsOpen(t)
    /\ p.size <= MaxBodySize
    /\ stagingSize + Delta(t, s, p) <= MaxStagingSize
    /\ stagingStore' = [stagingStore EXCEPT
                          ![t].Chunks[s] = p,
                          ![t].ByteSize = @ + Delta(t, s, p),
                          ![t].ExpiresIn = TransactionTTL]
    /\ stagingSize' = stagingSize + Delta(t, s, p)
    /\ UNCHANGED <<liveStore, commits, uploads>>

ExtendTxn(t, s, p) ==
    /\ IsOpen(t)
    /\ p.size <= MaxBodySize
    /\ stagingSize + Delta(t, s, p) <= MaxStagingSize
    /\ stagingStore' = [stagingStore EXCEPT
                          ![t].Chunks[s] = p,
                          ![t].ByteSize = @ + Delta(t, s, p)]
    /\ stagingSize' = stagingSize + Delta(t, s, p)
    /\ UNCHANGED <<liveStore, commits, uploads>>

\* BUG: the item is stored before room for its chunk is checked.
StartUnchecked(t, i, s, p) ==
    LET gone == Reset(t) \cup Siblings(t, i)
        fits == SizeWithout(gone) + p.size <= MaxStagingSize
    IN  /\ uploads < MaxUploads
        /\ ~IsOpen(t)
        /\ p.size <= MaxBodySize
        /\ stagingStore' =
             [StoreWithout(gone) EXCEPT ![t] =
                [Chunks     |-> IF fits THEN OneChunk(s, p) ELSE NoChunks,
                 InstanceID |-> i,
                 ByteSize   |-> IF fits THEN p.size ELSE 0,
                 ExpiresIn  |-> TTL(i)]]
        /\ stagingSize' = SizeWithout(gone) + (IF fits THEN p.size ELSE 0)
        /\ uploads' = uploads + 1
        /\ UNCHANGED <<liveStore, commits>>

\* Room is checked before the instance's other transactions are dropped,
\* and again after; the item would stay, with no chunk, if that one failed.
StartTxn(t, i, s, p) ==
    LET gone == Reset(t) \cup Siblings(t, i)
        fits == SizeWithout(gone) + p.size <= MaxStagingSize
    IN  /\ uploads < MaxUploads
        /\ ~IsOpen(t)
        /\ p.size <= MaxBodySize
        /\ SizeWithout(Reset(t)) + p.size <= MaxStagingSize
        /\ stagingStore' =
             [StoreWithout(gone) EXCEPT ![t] =
                [Chunks     |-> IF fits THEN OneChunk(s, p) ELSE NoChunks,
                 InstanceID |-> i,
                 ByteSize   |-> IF fits THEN p.size ELSE 0,
                 ExpiresIn  |-> TTL(i)]]
        /\ stagingSize' = SizeWithout(gone) + (IF fits THEN p.size ELSE 0)
        /\ uploads' = uploads + 1
        /\ UNCHANGED <<liveStore, commits>>

\* ErrStagingFull for a chunk of an open transaction changes nothing.
RefuseExtend(t, s, p) ==
    /\ IsOpen(t)
    /\ p.size <= MaxBodySize
    /\ stagingSize + Delta(t, s, p) > MaxStagingSize
    /\ UNCHANGED vars

\* ErrStagingFull for a first chunk: a lapsed transaction is gone all the same.
RefuseStart(t, p) ==
    /\ ~IsOpen(t)
    /\ p.size <= MaxBodySize
    /\ SizeWithout(Reset(t)) + p.size > MaxStagingSize
    /\ stagingStore' = StoreWithout(Reset(t))
    /\ stagingSize' = SizeWithout(Reset(t))
    /\ UNCHANGED <<liveStore, commits, uploads>>

(* POST /commit/{instance_id}/{txn_hash}: RetrieveStaging, ParseAndValidate *)
(* and UpdateIngested for the instance the URL names.                      *)

\* BUG: a transaction can be committed after its time.
CommitLate(r, i, t) ==
    /\ commits[r] = None
    /\ t \in Staged
    /\ commits' = [commits EXCEPT ![r] = [instance |-> i,
                                          chunks   |-> stagingStore[t].Chunks]]
    /\ stagingStore' = StoreWithout({t})
    /\ stagingSize' = SizeWithout({t})
    /\ UNCHANGED <<liveStore, uploads>>

\* BUG: the transaction stays in the staging buffer.
CommitKeeping(r, i, t) ==
    /\ commits[r] = None
    /\ IsOpen(t)
    /\ Present(stagingStore[t].Chunks) # {}
    /\ commits' = [commits EXCEPT ![r] = [instance |-> i,
                                          chunks   |-> stagingStore[t].Chunks]]
    /\ UNCHANGED <<stagingStore, stagingSize, liveStore, uploads>>

CommitTake(r, i, t) ==
    /\ commits[r] = None
    /\ IsOpen(t)
    /\ Present(stagingStore[t].Chunks) # {}
    /\ commits' = [commits EXCEPT ![r] = [instance |-> i,
                                          chunks   |-> stagingStore[t].Chunks]]
    /\ stagingStore' = StoreWithout({t})
    /\ stagingSize' = SizeWithout({t})
    /\ UNCHANGED <<liveStore, uploads>>

\* A transaction that has lapsed, or is empty, is dropped by its commit (404).
CommitDrop(t) ==
    /\ t \in Staged
    /\ Expired(stagingStore[t]) \/ Present(stagingStore[t].Chunks) = {}
    /\ stagingStore' = StoreWithout({t})
    /\ stagingSize' = SizeWithout({t})
    /\ UNCHANGED <<liveStore, commits, uploads>>

Publish(r) ==
    /\ commits[r] # None
    /\ Parses(commits[r].instance, commits[r].chunks)
    /\ UpdateIngested(commits[r].instance, commits[r].chunks,
                      BytesRead(commits[r].chunks),
                      Cardinality(Present(commits[r].chunks)))
    /\ commits' = [commits EXCEPT ![r] = None]
    /\ UNCHANGED <<stagingStore, stagingSize, uploads>>

\* 400: the transaction is lost, the instance keeps what it had.
RejectCommit(r) ==
    /\ commits[r] # None
    /\ ~Parses(commits[r].instance, commits[r].chunks)
    /\ commits' = [commits EXCEPT ![r] = None]
    /\ UNCHANGED <<stagingStore, stagingSize, liveStore, uploads>>

(* POST /ingest/{instance_id}: the body is parsed before any lock is taken.  *)

\* A body that was not sent in chunks, filed under one fixed number.
SingleBody(p) == OneChunk(CHOOSE s \in SeqIDs : TRUE, p)

SingleShot(i, p) ==
    LET body == SingleBody(p) IN
    /\ uploads < MaxUploads
    /\ p.size <= MaxBodySize
    /\ Parses(i, body)
    /\ UpdateIngested(i, body, p.size, 1)
    /\ uploads' = uploads + 1
    /\ UNCHANGED <<stagingStore, stagingSize, commits>>

(* Background work: the garbage collector, the pollers, and time.          *)

CleanupStaging ==
    /\ Lapsed # {}
    /\ liveStore' =
         [i \in Instances |->
            LET n == Cardinality({t \in Lapsed : stagingStore[t].InstanceID = i})
            IN  IF n = 0 THEN liveStore[i]
                         ELSE [getOrCreateState(i) EXCEPT !.Expired = @ + n]]
    /\ stagingStore' = StoreWithout(Lapsed)
    /\ stagingSize' = SizeWithout(Lapsed)
    /\ UNCHANGED <<commits, uploads>>

UpdatePolled(i, up) ==
    /\ liveStore' = [liveStore EXCEPT ![i] = [getOrCreateState(i) EXCEPT !.Polled = up]]
    /\ UNCHANGED <<stagingStore, stagingSize, commits, uploads>>

UpdateRCon(i, up) ==
    /\ liveStore' = [liveStore EXCEPT ![i] = [getOrCreateState(i) EXCEPT !.RCon = up]]
    /\ UNCHANGED <<stagingStore, stagingSize, commits, uploads>>

Tick ==
    /\ stagingStore' =
         [t \in Txns |->
            IF IsOpen(t) THEN [stagingStore[t] EXCEPT !.ExpiresIn = @ - 1]
                         ELSE stagingStore[t]]
    /\ liveStore' =
         [i \in Instances |->
            IF liveStore[i] = None \/ liveStore[i].SinceIngest = AgeCap
            THEN liveStore[i]
            ELSE [liveStore[i] EXCEPT !.SinceIngest = @ + 1]]
    /\ UNCHANGED <<stagingSize, commits, uploads>>

-----------------------------------------------------------------------------
\* Requests, and the garbage collector.
Handling ==
    \/ \E t \in Txns, s \in SeqIDs, p \in Payloads :
          \/ ExtendTxn(t, s, p)
          \/ RefuseExtend(t, s, p)
          \/ \E i \in Instances : StartTxn(t, i, s, p)
    \/ \E t \in Txns, p \in Payloads : RefuseStart(t, p)
    \/ \E r \in Requests, i \in Instances, t \in Txns : CommitTake(r, i, t)
    \/ \E t \in Txns : CommitDrop(t)
    \/ \E r \in Requests : Publish(r) \/ RejectCommit(r)
    \/ \E i \in Instances, p \in Payloads : SingleShot(i, p)
    \/ CleanupStaging

\* What the pollers bring: module Pollers says when and why.
Polling ==
    \/ \E i \in A2SServers, up \in BOOLEAN : UpdatePolled(i, up)
    \/ \E i \in RConServers, up \in BOOLEAN : UpdateRCon(i, up)

Operations == Handling \/ Polling

Next == Operations \/ Tick

Spec == Init /\ [][Next]_vars

\* Time passes, the collector's ticker fires, and a handler that has taken a
\* transaction runs to its end.
Fairness ==
    /\ WF_vars(Tick)
    /\ WF_vars(CleanupStaging)
    /\ \A r \in Requests : WF_vars(Publish(r) \/ RejectCommit(r))

FairSpec == Spec /\ Fairness

-----------------------------------------------------------------------------
(* Properties.                                                             *)

\* Every variable keeps its type, the scrape interval taken from a body and
\* the deadlines computed from it included.
TypeOK ==
    /\ stagingStore \in [Txns -> StagingItem \cup {None}]
    /\ stagingSize \in Int
    /\ liveStore \in [Instances -> InstanceState \cup {None}]
    /\ commits \in [Requests -> Commit \cup {None}]
    /\ uploads \in 0 .. MaxUploads

\* The running totals of AppendToStaging, RetrieveStaging and cleanupStaging
\* agree with what is stored: each transaction's ByteSize is the sum of its
\* chunks, and stagingSize the sum over the transactions, whatever is
\* resent, restarted, evicted, committed or collected in between.
StagingAccounting ==
    /\ \A t \in Staged :
          stagingStore[t].ByteSize = Total(ChunkSizes(stagingStore[t].Chunks), SeqIDs)
    /\ stagingSize = Total(ItemSizes, Txns)

\* The staging buffer never exceeds max_staging_size, which the two capacity
\* checks of AppendToStaging are there to ensure.
QuotaRespected == stagingSize \in 0 .. MaxStagingSize

\* A staged transaction holds a chunk: the second capacity check cannot fail
\* for a transaction the first one admitted, so that the "empty" half of the
\* 404 of a commit never happens.
StagedNonEmpty == \A t \in Staged : Present(stagingStore[t].Chunks) # {}

\* An instance has at most one transaction in the staging buffer, open or
\* lapsed: the first chunk of a new one drops the others.
OneTxnPerInstance ==
    \A t, u \in Staged :
        stagingStore[t].InstanceID = stagingStore[u].InstanceID => t = u

\* Unless labels are overwritten, no sample labelled for one instance is
\* published for another, even when a transaction begun for one instance is
\* committed under the URL of another.
NoForeignSeries ==
    ~OverwriteInstanceID =>
        \A i \in {j \in Instances : liveStore[j] # None} :
            liveStore[i].Ingested # None =>
                \A s \in Present(liveStore[i].Ingested) :
                    liveStore[i].Ingested[s].owner \in {i, None}

StateGrows(i) ==
    LET old == liveStore[i]
        new == liveStore'[i]
    IN  /\ new # None
        /\ old.Ingested # None => new.Ingested # None
        /\ old.Status # None => new.Status # None
        /\ old.Polled # None => new.Polled # None
        /\ old.RCon # None => new.RCon # None
        /\ new.TotalBytes >= old.TotalBytes
        /\ new.TotalChunks >= old.TotalChunks
        /\ new.Expired >= old.Expired

\* An instance once known stays known, what it published is only ever
\* replaced, and its three counters never go down: no handler, poller or
\* collection overwrites the state another one created.
StatsOnlyGrow == [][\A i \in Instances : liveStore[i] # None => StateGrows(i)]_vars

\* What is left of the staging buffer and of the live store without their
\* bytes and clocks.
Upload(item) == [owner  |-> item.InstanceID,
                 chunks |-> item.Chunks,
                 lapsed |-> Expired(item)]

LogOpen == [t \in Txns |-> IF stagingStore[t] = None THEN None
                           ELSE Upload(stagingStore[t])]

LogPublished == [i \in Instances |-> IF liveStore[i] = None THEN None
                                     ELSE liveStore[i].Ingested]

Log == INSTANCE UploadLog WITH
    open <- LogOpen, taken <- commits, published <- LogPublished

\* The store is an UploadLog: commits publish whole transactions, once, in
\* time, and no transaction is lost but by commit, lapse or the start of
\* another one of its instance.
ImplementsUploadLog == Log!Spec

\* Once no more uploads are begun the staging buffer empties for good, even
\* if chunks of old ones keep arriving: a chunk does not extend the deadline
\* of its transaction, and the collector gets to it.
Drains == <>[](Staged = {} /\ stagingSize = 0)

\* What METRICS.md and the metric's help say of
\* metricz_ingest_transactions_expired_total: it counts the transactions
\* dropped because their time ran out, whoever drops them.
ExpiredDropsCounted ==
    [][\A i \in Instances :
          LET dropped == {t \in Lapsed : /\ stagingStore[t].InstanceID = i
                                         /\ ~(t \in Staged /\ Expired(stagingStore[t]))'}
              counted(state) == IF state = None THEN 0 ELSE state.Expired
          IN  counted(liveStore'[i]) = counted(liveStore[i]) + Cardinality(dropped)]_vars
=============================================================================
