------------------------- MODULE UploadClientProofs -------------------------
(***************************************************************************)
(* Proofs about UploadClient, for any number of game servers, uploads,     *)
(* chunks, duplicates and restarts: what a commit takes is whole, and what *)
(* is committed twice is published once, unless the transaction was opened *)
(* again.                                                                  *)
(***************************************************************************)
EXTENDS UploadClient, StorageProofs

-----------------------------------------------------------------------------
(* What a step of the store does to a staged transaction: it goes, or      *)
(* keeps what it has.                                                      *)

Grows(t) ==
    t \in Staged' =>
        /\ t \in Staged
        /\ Present(stagingStore[t].Chunks) \subseteq Present(stagingStore'[t].Chunks)

LEMMA UntouchedGrows ==
    ASSUME UNCHANGED stagingStore
    PROVE  \A t \in Txns : Grows(t)
BY DEF Grows, Staged

LEMMA WithoutGrows ==
    ASSUME NEW gone, stagingStore' = StoreWithout(gone)
    PROVE  \A t \in Txns : Grows(t) /\ (t \in gone => t \notin Staged')
BY DEF Grows, Staged, StoreWithout

LEMMA ExtendGrows ==
    ASSUME TypeOK, NEW t \in Txns, NEW s \in SeqIDs, NEW p \in Payloads,
           ExtendTxn(t, s, p)
    PROVE  /\ \A u \in Txns : Grows(u)
           /\ t \in Staged
           /\ s \in Present(stagingStore'[t].Chunks)
<1> DEFINE old == stagingStore[t].Chunks
           new == stagingStore'[t].Chunks
<1>1. /\ t \in Staged
      /\ old \in Chunks
      /\ new = [old EXCEPT ![s] = p]
      /\ stagingStore' = [stagingStore EXCEPT ![t] = stagingStore'[t]]
  BY ExtendedItem DEF StagingItem
<1>2. p # None
  BY NoneAssumption
<1> HIDE DEF old, new
<1>3. s \in Present(new) /\ Present(old) \subseteq Present(new)
  BY <1>1, <1>2 DEF Present, Chunks
<1>4. \A u \in Txns \ {t} : stagingStore'[u] = stagingStore[u]
  BY <1>1 DEF TypeOK
<1>5. QED
  BY <1>1, <1>3, <1>4 DEF Grows, Staged, old, new

LEMMA StartGrows ==
    ASSUME TypeOK, StagingInv, NEW t \in Txns, NEW i \in Instances,
           NEW s \in SeqIDs, NEW p \in Payloads, StartTxn(t, i, s, p)
    PROVE  /\ \A u \in Txns \ {t} : Grows(u)
           /\ s \in Present(stagingStore'[t].Chunks)
<1>1. /\ stagingStore'[t] = NewItem(i, s, p)
      /\ \A u \in Txns \ {t} :
            stagingStore'[u] = StoreWithout(Reset(t) \cup Siblings(t, i))[u]
  BY StartedItem
<1>2. stagingStore'[t].Chunks = OneChunk(s, p) /\ p # None
  BY <1>1, NoneAssumption DEF NewItem
<1>3. QED
  BY <1>1, <1>2 DEF Grows, Staged, StoreWithout, Present, OneChunk, NoChunks

LEMMA TickGrows ==
    ASSUME TypeOK, Tick
    PROVE  \A t \in Txns : Grows(t)
<1>1. ASSUME NEW t \in Txns, IsOpen(t)
      PROVE  t \in Staged /\ stagingStore'[t].Chunks = stagingStore[t].Chunks
  <2>1. stagingStore[t] \in StagingItem
    BY <1>1 DEF IsOpen, Staged, TypeOK
  <2>2. stagingStore'[t] = [stagingStore[t] EXCEPT !.ExpiresIn = @ - 1]
    BY <1>1 DEF Tick
  <2>3. QED
    BY <1>1, <2>1, <2>2 DEF IsOpen, StagingItem
<1>2. \A t \in Txns : ~IsOpen(t) => stagingStore'[t] = stagingStore[t]
  BY DEF Tick
<1>3. QED
  BY <1>1, <1>2 DEF Grows, Staged

-----------------------------------------------------------------------------
(* Types.                                                                  *)

LEMMA ContentType == Content \in Payloads
BY UploadAssumption DEF Content

\* What the exporter does is a step of the store, or a restart.
LEMMA UploadStepOfStorage ==
    ASSUME UploadTypeOK, [UploadNext]_uploadVars
    PROVE  [Next]_vars \/ Restart
<1> USE DEF Next, Operations, Handling
<1>1. ASSUME NEW m \in net, NEW again \in BOOLEAN, NEW lost \in BOOLEAN,
             AcceptChunk(m, again, lost)
      PROVE  [Next]_vars
  <2>1. m.txn \in Txns /\ m.seq \in SeqIDs /\ m.instance \in Instances
    BY <1>1 DEF AcceptChunk, UploadTypeOK, ChunkRequest, CommitRequest
  <2>2. QED
    BY <1>1, <2>1, ContentType DEF AcceptChunk
<1>2. ASSUME NEW m \in net, RefuseChunk(m)
      PROVE  [Next]_vars
  <2>1. m.txn \in Txns /\ m.seq \in SeqIDs
    BY <1>2 DEF RefuseChunk, UploadTypeOK, ChunkRequest, CommitRequest
  <2>2. QED
    BY <1>2, <2>1, ContentType DEF RefuseChunk
<1>3. ASSUME NEW m \in net, NEW r \in Requests, NEW again \in BOOLEAN, AcceptCommit(r, m, again)
      PROVE  [Next]_vars
  <2>1. m.txn \in Txns /\ m.instance \in Instances
    BY DEF UploadTypeOK, ChunkRequest, CommitRequest
  <2>2. QED
    BY <1>3, <2>1 DEF AcceptCommit
<1>4. ASSUME NEW m \in net, NEW lost \in BOOLEAN, RefuseCommit(m, lost)
      PROVE  [Next]_vars
  <2>1. m.txn \in Txns
    BY DEF UploadTypeOK, ChunkRequest, CommitRequest
  <2>2. QED
    BY <1>4, <2>1 DEF RefuseCommit
<1>5. ASSUME NEW r \in Requests, NEW lost \in BOOLEAN, EndCommit(r, lost)
      PROVE  [Next]_vars
  BY <1>5 DEF EndCommit
<1>6. CASE Background
  BY <1>6 DEF Background
<1>7. ASSUME NEW i \in Instances,
             \/ \E t \in Txns : Begin(i, t)
             \/ \E s \in SeqIDs : SendChunk(i, s)
             \/ SendCommit(i)
             \/ GiveUp(i)
      PROVE  [Next]_vars
  BY <1>7 DEF Begin, SendChunk, SendCommit, GiveUp
<1>8. CASE UNCHANGED uploadVars
  BY <1>8 DEF uploadVars
<1> HIDE DEF Next, Operations, Handling
<1>9. QED
  BY <1>1, <1>2, <1>3, <1>4, <1>5, <1>6, <1>7, <1>8
     DEF UploadNext, HandleChunk, HandleCommit

LEMMA RestartStore ==
    ASSUME TypeOK, Restart
    PROVE  TypeOK' /\ StagingInv' /\ \A t \in Txns : Grows(t)
<1>1. \A t \in Txns : ItemSizes'[t] = 0
  BY DEF Restart, ItemSizes, ItemSize
<1>2. Total(ItemSizes', Txns) = 0
  BY <1>1, TotalZero
<1>3. Staged' = {}
  BY DEF Restart, Staged
<1>4. StagingInv'
  BY <1>2, <1>3, NumbersAssumption
     DEF Restart, StagingInv, StagingAccounting, QuotaRespected, StagedNonEmpty
<1>5. TypeOK'
  BY DEF Restart, TypeOK
<1>6. QED
  BY <1>3, <1>4, <1>5 DEF Grows

LEMMA StoreKept ==
    ASSUME UploadTypeOK, StagingInv, [UploadNext]_uploadVars
    PROVE  TypeOK' /\ StagingInv'
<1>1. CASE [Next]_vars
  BY <1>1, NextType, NextInv DEF UploadTypeOK
<1>2. CASE Restart
  BY <1>2, RestartStore DEF UploadTypeOK
<1>3. QED
  BY <1>1, <1>2, UploadStepOfStorage

\* The types of what this module adds to the store.
ClientsOK ==
    /\ client \in [Instances -> ClientUpload \cup {None}]
    /\ net \subseteq ChunkRequest \cup CommitRequest
    /\ pending \in [Requests -> Txns \cup {None}]
    /\ opened \in [Txns -> 0 .. 2]
    /\ publications \in [Txns -> 0 .. 2]
    /\ begun \subseteq Txns
    /\ faults \in 0 .. MaxFaults
    /\ \A r \in Requests : pending[r] = None <=> commits[r] = None

LEMMA CountUpType ==
    ASSUME NEW count \in [Txns -> 0 .. 2], NEW t \in Txns
    PROVE  /\ CountUp(count, t) \in [Txns -> 0 .. 2]
           /\ count[t] = 0 => CountUp(count, t)[t] = 1
           /\ count[t] # 0 => CountUp(count, t)[t] = 2
           /\ \A u \in Txns \ {t} : CountUp(count, t)[u] = count[u]
BY DEF CountUp

LEMMA FaultType ==
    ASSUME ClientsOK, Fault \/ UNCHANGED faults
    PROVE  faults' \in 0 .. MaxFaults
BY UploadAssumption DEF ClientsOK, Fault

LEMMA AckedType ==
    ASSUME ClientsOK, NEW m \in ChunkRequest
    PROVE  Acked(m) \in [Instances -> ClientUpload \cup {None}]
<1> DEFINE i == m.instance
<1>1. i \in Instances /\ m.seq \in SeqIDs
  BY DEF ChunkRequest
<1>2. CASE client[i] # None /\ client[i].txn = m.txn
  <2>1. client[i] \in ClientUpload
    BY <1>1, <1>2 DEF ClientsOK
  <2>2. [client[i] EXCEPT !.acked = client[i].acked \cup {m.seq}] \in ClientUpload
    BY <1>1, <2>1 DEF ClientUpload
  <2>3. Acked(m) = [client EXCEPT ![i] = [client[i] EXCEPT !.acked = client[i].acked \cup {m.seq}]]
    BY <1>2 DEF Acked
  <2>4. QED
    BY <2>2, <2>3 DEF ClientsOK
<1>3. CASE ~(client[i] # None /\ client[i].txn = m.txn)
  BY <1>3 DEF Acked, ClientsOK
<1>4. QED
  BY <1>2, <1>3

LEMMA EndedType ==
    ASSUME ClientsOK, NEW i, NEW t
    PROVE  Ended(i, t) \in [Instances -> ClientUpload \cup {None}]
BY DEF ClientsOK, Ended

\* A step of the store that leaves the commits alone keeps them paired.
LEMMA ClientsNext ==
    ASSUME UploadTypeOK, ClientsOK, [UploadNext]_uploadVars
    PROVE  ClientsOK'
<1>1. ASSUME NEW i \in Instances, NEW t \in Txns, Begin(i, t)
      PROVE  ClientsOK'
  <2>1. [txn |-> t, acked |-> {}] \in ClientUpload
    BY DEF ClientUpload
  <2>2. QED
    BY <1>1, <2>1 DEF Begin, ClientsOK, history, vars
<1>2. ASSUME NEW i \in Instances, NEW s \in SeqIDs, SendChunk(i, s)
      PROVE  ClientsOK'
  <2>1. client[i].txn \in Txns
    BY <1>2 DEF SendChunk, ClientsOK, ClientUpload
  <2>2. Chunk(i, client[i].txn, s) \in ChunkRequest
    BY <2>1 DEF Chunk, ChunkRequest
  <2>3. QED
    BY <1>2, <2>2 DEF SendChunk, ClientsOK, history, vars
<1>3. ASSUME NEW i \in Instances, SendCommit(i)
      PROVE  ClientsOK'
  <2>1. client[i].txn \in Txns
    BY <1>3 DEF SendCommit, ClientsOK, ClientUpload
  <2>2. CommitOf(i, client[i].txn) \in CommitRequest
    BY <2>1 DEF CommitOf, CommitRequest
  <2>3. QED
    BY <1>3, <2>2 DEF SendCommit, ClientsOK, history, vars
<1>4. ASSUME NEW i \in Instances, GiveUp(i)
      PROVE  ClientsOK'
  BY <1>4, FaultType DEF GiveUp, ClientsOK, history, vars
<1>5. ASSUME NEW m \in net, NEW again \in BOOLEAN, NEW lost \in BOOLEAN,
             AcceptChunk(m, again, lost)
      PROVE  ClientsOK'
  <2>1. m \in ChunkRequest /\ m.txn \in Txns
    BY <1>5 DEF AcceptChunk, ClientsOK, ChunkRequest, CommitRequest
  <2>2. client' \in [Instances -> ClientUpload \cup {None}]
    BY <1>5, <2>1, AckedType DEF AcceptChunk, ClientsOK
  <2>3. opened' \in [Txns -> 0 .. 2]
    BY <1>5, <2>1, CountUpType DEF AcceptChunk, ClientsOK
  <2>4. faults' \in 0 .. MaxFaults /\ net' \subseteq net
    BY <1>5, FaultType DEF AcceptChunk, Delivered
  <2>5. UNCHANGED commits
    BY <1>5 DEF AcceptChunk, ExtendTxn, StartTxn
  <2>6. QED
    BY <1>5, <2>2, <2>3, <2>4, <2>5 DEF AcceptChunk, ClientsOK
<1>6. ASSUME NEW m \in net, RefuseChunk(m)
      PROVE  ClientsOK'
  <2>1. faults' \in 0 .. MaxFaults /\ net' \subseteq net
    BY <1>6, FaultType DEF RefuseChunk, Delivered
  <2>2. UNCHANGED commits
    BY <1>6 DEF RefuseChunk, RefuseExtend, RefuseStart, vars
  <2>3. QED
    BY <1>6, <2>1, <2>2 DEF RefuseChunk, ClientsOK, history
<1>7. ASSUME NEW r \in Requests, NEW m \in net, NEW again \in BOOLEAN, AcceptCommit(r, m, again)
      PROVE  ClientsOK'
  <2>1. m.txn \in Txns /\ m.instance \in Instances
    BY DEF ClientsOK, ChunkRequest, CommitRequest
  <2>2. faults' \in 0 .. MaxFaults /\ net' \subseteq net
    BY <1>7, FaultType DEF AcceptCommit, Delivered
  <2>3. commits'[r] # None /\ \A q \in Requests \ {r} : commits'[q] = commits[q]
    <3>1. stagingStore[m.txn] \in StagingItem
      BY <1>7, <2>1 DEF AcceptCommit, CommitTake, IsOpen, Staged, UploadTypeOK, TypeOK
    <3>2. [instance |-> m.instance, chunks |-> stagingStore[m.txn].Chunks] \in Commit
      BY <2>1, <3>1 DEF StagingItem, Commit
    <3>3. QED
      BY <1>7, <3>2, NoneAssumption DEF AcceptCommit, CommitTake, UploadTypeOK, TypeOK
  <2>4. m.txn # None
    BY <2>1, UploadAssumption
  <2>5. QED
    BY <1>7, <2>1, <2>2, <2>3, <2>4 DEF AcceptCommit, ClientsOK, history
<1>8. ASSUME NEW m \in net, NEW lost \in BOOLEAN, RefuseCommit(m, lost)
      PROVE  ClientsOK'
  <2>1. faults' \in 0 .. MaxFaults /\ net' \subseteq net
    BY <1>8, FaultType DEF RefuseCommit, Delivered
  <2>2. client' \in [Instances -> ClientUpload \cup {None}]
    BY <1>8, EndedType DEF RefuseCommit, ClientsOK
  <2>3. UNCHANGED commits
    BY <1>8 DEF RefuseCommit, CommitDrop, vars
  <2>4. QED
    BY <1>8, <2>1, <2>2, <2>3 DEF RefuseCommit, ClientsOK, history
<1>9. ASSUME NEW r \in Requests, NEW lost \in BOOLEAN, EndCommit(r, lost)
      PROVE  ClientsOK'
  <2>1. faults' \in 0 .. MaxFaults
    BY <1>9, FaultType DEF EndCommit
  <2>2. client' \in [Instances -> ClientUpload \cup {None}]
    BY <1>9, EndedType DEF EndCommit, ClientsOK
  <2>3. commits' = [commits EXCEPT ![r] = None] /\ commits[r] # None
    BY <1>9 DEF EndCommit, Publish, RejectCommit
  <2>4. pending[r] \in Txns
    BY <2>3 DEF ClientsOK
  <2>5. publications' \in [Txns -> 0 .. 2]
    BY <1>9, <2>4, CountUpType DEF EndCommit, ClientsOK
  <2>6. commits \in [Requests -> Commit \cup {None}]
    BY DEF UploadTypeOK, TypeOK
  <2>7. QED
    BY <1>9, <2>1, <2>2, <2>3, <2>5, <2>6 DEF EndCommit, ClientsOK
<1>10. CASE Restart
  BY <1>10, FaultType DEF Restart, ClientsOK, history
<1>11. CASE Background
  BY <1>11 DEF Background, CleanupStaging, Tick, ClientsOK, history
<1>12. CASE UNCHANGED uploadVars
  BY <1>12 DEF uploadVars, vars, history, ClientsOK
<1>13. QED
  BY <1>1, <1>2, <1>3, <1>4, <1>5, <1>6, <1>7, <1>8, <1>9, <1>10, <1>11, <1>12
     DEF UploadNext, HandleChunk, HandleCommit

LEMMA UploadTypeParts == UploadTypeOK <=> TypeOK /\ StagingAccounting /\ ClientsOK
BY DEF UploadTypeOK, ClientsOK

UploadTypes == UploadTypeOK /\ StagingInv

LEMMA UploadTypesInit == ASSUME UploadInit PROVE UploadTypes
<1>1. ClientsOK
  BY UploadAssumption DEF UploadInit, Init, ClientsOK
<1>2. QED
  BY <1>1, InitType, InitInv, UploadTypeParts DEF UploadInit, UploadTypes, StagingInv

LEMMA UploadTypesNext ==
    ASSUME UploadTypes, [UploadNext]_uploadVars
    PROVE  UploadTypes'
<1>1. TypeOK' /\ StagingInv'
  BY StoreKept DEF UploadTypes
<1>2. ClientsOK'
  BY ClientsNext, UploadTypeParts DEF UploadTypes
<1>3. QED
  BY <1>1, <1>2 DEF UploadTypes, UploadTypeOK, ClientsOK, StagingInv

\* The types, and the byte accounting of the store, through duplicates, lost
\* answers and restarts.
THEOREM UploadTypeCorrect == UploadSpec => []UploadTypeOK
<1>1. UploadTypes => UploadTypeOK
  BY DEF UploadTypes
<1>2. QED
  BY <1>1, UploadTypesInit, UploadTypesNext, PTL DEF UploadSpec

\* What the store promises without restarts it promises with them, to game
\* servers over a network that repeats and loses: the buffer stays within its
\* quota, and holds at most one transaction for an instance and none without
\* a chunk.
THEOREM StoreSurvivesRestarts ==
    UploadSpec => [](QuotaRespected /\ StagedNonEmpty /\ OneTxnPerInstance)
<1>1. UploadInit => OneTxnPerInstance
  BY DEF UploadInit, Init, OneTxnPerInstance, Staged
<1>2. ASSUME UploadTypes, OneTxnPerInstance, [UploadNext]_uploadVars
      PROVE  OneTxnPerInstance'
  <2>1. TypeOK /\ UploadTypeOK
    BY <1>2 DEF UploadTypes, UploadTypeOK
  <2>2. CASE [Next]_vars
    BY <1>2, <2>1, <2>2, OneTxnNext
  <2>3. CASE Restart
    BY <2>3 DEF Restart, OneTxnPerInstance, Staged
  <2>4. QED
    BY <1>2, <2>1, <2>2, <2>3, UploadStepOfStorage
<1>3. UploadTypes /\ OneTxnPerInstance => QuotaRespected /\ StagedNonEmpty /\ OneTxnPerInstance
  BY DEF UploadTypes, StagingInv
<1>4. QED
  BY <1>1, <1>2, <1>3, UploadTypesInit, UploadTypesNext, PTL DEF UploadSpec

-----------------------------------------------------------------------------
(* What the store has of an upload that was opened once: all that its game *)
(* server knows to be there, and everything once a commit is on its way.   *)

Sends(i, t) == client[i] # None /\ client[i].txn = t

SentOf(t) ==
    /\ opened[t] = 0 =>
          /\ t \notin Staged
          /\ \A i \in Instances : Sends(i, t) => client[i].acked = {}
          /\ \A m \in net : m.kind = "commit" => m.txn # t
    /\ opened[t] = 1 /\ t \in Staged =>
          LET there == Present(stagingStore[t].Chunks) IN
          /\ \A i \in Instances : Sends(i, t) => client[i].acked \subseteq there
          /\ \A m \in net : m.kind = "commit" /\ m.txn = t => there = SeqIDs

SentInv == \A t \in Txns : SentOf(t)

\* Nothing is sent or acknowledged anew, and the store opens nothing.
LEMMA SentKept ==
    ASSUME SentInv, opened' = opened, \A t \in Txns : Grows(t),
           \A i \in Instances : client'[i] # None =>
              client'[i] = client[i] \/ client'[i].acked = {},
           \A m \in net' : m.kind = "commit" => m \in net
    PROVE  SentInv'
<1> SUFFICES ASSUME NEW t \in Txns
             PROVE  SentOf(t)'
  BY DEF SentInv
<1>1. SentOf(t) /\ Grows(t)
  BY DEF SentInv
<1>2. CASE opened[t] = 0
  BY <1>1, <1>2 DEF SentOf, Grows, Sends
<1>3. CASE opened[t] = 1 /\ t \in Staged'
  <2>1. /\ t \in Staged
        /\ Present(stagingStore[t].Chunks) \subseteq Present(stagingStore'[t].Chunks)
        /\ Present(stagingStore'[t].Chunks) \subseteq SeqIDs
    BY <1>1, <1>3 DEF Grows, Present
  <2>2. \A i \in Instances : Sends(i, t)' => client'[i].acked \subseteq Present(stagingStore'[t].Chunks)
    BY <1>1, <1>3, <2>1 DEF SentOf, Sends
  <2>3. \A m \in net' : m.kind = "commit" /\ m.txn = t => Present(stagingStore'[t].Chunks) = SeqIDs
    BY <1>1, <1>3, <2>1 DEF SentOf
  <2>4. QED
    BY <1>3, <2>2, <2>3 DEF SentOf, Sends, Present
<1>4. QED
  BY <1>2, <1>3 DEF SentOf

LEMMA SendCommitSent ==
    ASSUME UploadTypes, SentInv, NEW i \in Instances, SendCommit(i)
    PROVE  SentInv'
<1> SUFFICES ASSUME NEW t \in Txns
             PROVE  SentOf(t)'
  BY DEF SentInv
<1> DEFINE new == CommitOf(i, client[i].txn)
<1>1. /\ net' = net \cup {new}
      /\ UNCHANGED <<stagingStore, client, opened>>
      /\ client[i] # None /\ client[i].acked = SeqIDs
  BY DEF SendCommit, vars, history
<1>2. new.txn = client[i].txn
  BY DEF CommitOf
<1>3. SentOf(t)
  BY DEF SentInv
<1>4. CASE client[i].txn # t
  <2>1. \A m \in net' : m.kind = "commit" /\ m.txn = t => m \in net
    BY <1>1, <1>2, <1>4
  <2>2. QED
    BY <1>1, <1>3, <2>1 DEF SentOf, Sends, Staged, Present
<1>5. CASE client[i].txn = t
  <2>1. Sends(i, t)
    BY <1>1, <1>5 DEF Sends
  <2>2. opened[t] # 0
    BY <1>1, <1>3, <2>1, SetsAssumption DEF SentOf
  <2>3. opened[t] = 1 /\ t \in Staged => Present(stagingStore[t].Chunks) = SeqIDs
    BY <1>1, <1>3, <2>1 DEF SentOf, Present
  <2>4. QED
    BY <1>1, <1>3, <2>2, <2>3 DEF SentOf, Sends, Staged, Present
<1>6. QED
  BY <1>4, <1>5

LEMMA AcceptChunkSent ==
    ASSUME UploadTypes, SentInv, NEW m \in net, NEW again \in BOOLEAN, NEW lost \in BOOLEAN,
           AcceptChunk(m, again, lost)
    PROVE  SentInv'
<1> SUFFICES ASSUME NEW t \in Txns
             PROVE  SentOf(t)'
  BY DEF SentInv
<1>1. m.txn \in Txns /\ m.seq \in SeqIDs /\ m.instance \in Instances /\ Content \in Payloads
  BY ContentType
     DEF AcceptChunk, UploadTypes, UploadTypeOK, ChunkRequest, CommitRequest
<1>2. net' \subseteq net
  BY DEF AcceptChunk, Delivered
<1>3. SentOf(t)
  BY DEF SentInv
<1>4. TypeOK /\ StagingInv
  BY DEF UploadTypes, UploadTypeOK
\* What a client knows afterwards.
<1>5. \A i \in Instances : Sends(i, t)' =>
         /\ Sends(i, t)
         /\ client'[i].acked \subseteq
               IF t = m.txn THEN client[i].acked \cup {m.seq} ELSE client[i].acked
  <2>1. CASE client' = client
    BY <2>1 DEF Sends
  <2>2. CASE client' = Acked(m) /\ client[m.instance] # None /\ client[m.instance].txn = m.txn
    <3> DEFINE j == m.instance
               old == client[j]
    <3>1. old \in ClientUpload
      BY <1>1, <2>2 DEF UploadTypes, UploadTypeOK
    <3>2. client' = [client EXCEPT ![j] = [old EXCEPT !.acked = old.acked \cup {m.seq}]]
      BY <2>2 DEF Acked
    <3>3. client'[j].txn = old.txn /\ client'[j].acked = old.acked \cup {m.seq}
      BY <1>1, <3>1, <3>2 DEF UploadTypes, UploadTypeOK, ClientUpload
    <3>4. \A i \in Instances \ {j} : client'[i] = client[i]
      BY <3>2 DEF UploadTypes, UploadTypeOK
    <3>5. QED
      BY <1>1, <2>2, <3>3, <3>4 DEF Sends
  <2>3. CASE client' = Acked(m) /\ ~(client[m.instance] # None /\ client[m.instance].txn = m.txn)
    BY <2>3 DEF Acked, Sends
  <2>4. QED
    BY <2>1, <2>2, <2>3 DEF AcceptChunk
<1>6. CASE ExtendTxn(m.txn, m.seq, Content) /\ UNCHANGED opened
  <2>1. /\ Grows(t)
        /\ t = m.txn => m.seq \in Present(stagingStore'[t].Chunks)
    BY <1>1, <1>4, <1>6, ExtendGrows
  <2>2. CASE opened[t] = 0
    <3>1. t # m.txn
      BY <1>1, <1>3, <1>4, <1>6, <2>2, ExtendGrows DEF SentOf
    <3>2. QED
      BY <1>2, <1>3, <1>5, <1>6, <2>1, <2>2, <3>1 DEF SentOf, Grows, Sends
  <2>3. CASE opened[t] = 1 /\ t \in Staged'
    <3> DEFINE there == Present(stagingStore[t].Chunks)
               now == Present(stagingStore'[t].Chunks)
    <3>1. t \in Staged /\ there \subseteq now /\ now \subseteq SeqIDs
      BY <2>1, <2>3 DEF Grows, Present
    <3>2. \A i \in Instances : Sends(i, t)' => client'[i].acked \subseteq now
      BY <1>3, <1>5, <2>1, <2>3, <3>1 DEF SentOf
    <3>3. \A n \in net' : n.kind = "commit" /\ n.txn = t => now = SeqIDs
      BY <1>2, <1>3, <2>3, <3>1 DEF SentOf
    <3>4. QED
      BY <1>6, <2>3, <3>2, <3>3 DEF SentOf, Sends, Present
  <2>4. QED
    BY <1>6, <2>2, <2>3 DEF SentOf
<1>7. CASE /\ StartTxn(m.txn, m.instance, m.seq, Content)
           /\ opened' = CountUp(opened, m.txn)
  <2>1. opened \in [Txns -> 0 .. 2]
    BY DEF UploadTypes, UploadTypeOK
  <2>2. CASE t # m.txn
    <3>1. Grows(t) /\ opened'[t] = opened[t]
      BY <1>1, <1>4, <1>7, <2>1, <2>2, StartGrows, CountUpType
    <3>2. CASE opened[t] = 0
      BY <1>2, <1>3, <1>5, <2>2, <3>1, <3>2 DEF SentOf, Grows, Sends
    <3>3. CASE opened[t] = 1 /\ t \in Staged'
      <4> DEFINE there == Present(stagingStore[t].Chunks)
                 now == Present(stagingStore'[t].Chunks)
      <4>1. t \in Staged /\ there \subseteq now /\ now \subseteq SeqIDs
        BY <3>1, <3>3 DEF Grows, Present
      <4>2. \A i \in Instances : Sends(i, t)' => client'[i].acked \subseteq now
        BY <1>3, <1>5, <2>2, <3>3, <4>1 DEF SentOf
      <4>3. \A n \in net' : n.kind = "commit" /\ n.txn = t => now = SeqIDs
        BY <1>2, <1>3, <3>3, <4>1 DEF SentOf
      <4>4. QED
        BY <3>1, <3>3, <4>2, <4>3 DEF SentOf, Sends, Present
    <3>4. QED
      BY <3>1, <3>2, <3>3 DEF SentOf
  <2>3. CASE t = m.txn /\ opened[t] = 0
    <3>1. opened'[t] = 1 /\ m.seq \in Present(stagingStore'[t].Chunks)
      BY <1>1, <1>4, <1>7, <2>1, <2>3, StartGrows, CountUpType
    <3>2. \A i \in Instances : Sends(i, t)' => client'[i].acked \subseteq {m.seq}
      BY <1>3, <1>5, <2>3 DEF SentOf
    <3>3. \A n \in net' : n.kind = "commit" => n.txn # t
      BY <1>2, <1>3, <2>3 DEF SentOf
    <3>4. QED
      BY <3>1, <3>2, <3>3 DEF SentOf, Sends, Present
  <2>4. CASE t = m.txn /\ opened[t] # 0
    <3>1. opened'[t] = 2
      BY <1>1, <1>7, <2>1, <2>4, CountUpType
    <3>2. QED
      BY <3>1 DEF SentOf
  <2>5. QED
    BY <2>2, <2>3, <2>4
<1>8. QED
  BY <1>6, <1>7 DEF AcceptChunk

LEMMA EndedClient ==
    ASSUME UploadTypes, NEW j, NEW t, client' = client \/ client' = Ended(j, t)
    PROVE  \A i \in Instances : client'[i] # None => client'[i] = client[i]
BY DEF Ended, UploadTypes, UploadTypeOK

LEMMA SentNext ==
    ASSUME UploadTypes, SentInv, [UploadNext]_uploadVars
    PROVE  SentInv'
<1>0. TypeOK
  BY DEF UploadTypes, UploadTypeOK
<1>1. ASSUME NEW i \in Instances, NEW t \in Txns, Begin(i, t)
      PROVE  SentInv'
  <2>1. \A j \in Instances : client'[j] = client[j] \/ client'[j].acked = {}
    BY <1>1 DEF Begin, UploadTypes, UploadTypeOK
  <2>2. UNCHANGED <<stagingStore, opened, net>>
    BY <1>1 DEF Begin, vars, history
  <2>3. QED
    BY <2>1, <2>2, SentKept, UntouchedGrows
<1>2. ASSUME NEW i \in Instances, NEW s \in SeqIDs, SendChunk(i, s)
      PROVE  SentInv'
  <2>1. UNCHANGED <<stagingStore, opened, client>>
    BY <1>2 DEF SendChunk, vars, history
  <2>2. \A m \in net' : m.kind = "commit" => m \in net
    BY <1>2 DEF SendChunk, Chunk
  <2>3. QED
    BY <2>1, <2>2, SentKept, UntouchedGrows
<1>3. ASSUME NEW i \in Instances, SendCommit(i)
      PROVE  SentInv'
  BY <1>3, SendCommitSent
<1>4. ASSUME NEW i \in Instances, GiveUp(i)
      PROVE  SentInv'
  <2>1. \A j \in Instances : client'[j] # None => client'[j] = client[j]
    BY <1>4 DEF GiveUp, UploadTypes, UploadTypeOK
  <2>2. UNCHANGED <<stagingStore, opened, net>>
    BY <1>4 DEF GiveUp, vars, history
  <2>3. QED
    BY <2>1, <2>2, SentKept, UntouchedGrows
<1>5. ASSUME NEW m \in net, NEW again \in BOOLEAN, NEW lost \in BOOLEAN,
             AcceptChunk(m, again, lost)
      PROVE  SentInv'
  BY <1>5, AcceptChunkSent
<1>6. ASSUME NEW m \in net, RefuseChunk(m)
      PROVE  SentInv'
  <2>1. \A t \in Txns : Grows(t)
    <3>1. CASE UNCHANGED stagingStore
      BY <3>1, UntouchedGrows
    <3>2. CASE stagingStore' = StoreWithout(Reset(m.txn))
      BY <3>2, WithoutGrows
    <3>3. QED
      BY <1>6, <3>1, <3>2 DEF RefuseChunk, RefuseExtend, RefuseStart, vars
  <2>2. UNCHANGED <<client, opened>> /\ net' \subseteq net
    BY <1>6 DEF RefuseChunk, Delivered, history
  <2>3. QED
    BY <2>1, <2>2, SentKept
<1>7. ASSUME NEW r \in Requests, NEW m \in net, NEW again \in BOOLEAN, AcceptCommit(r, m, again)
      PROVE  SentInv'
  <2>1. stagingStore' = StoreWithout({m.txn})
    BY <1>7 DEF AcceptCommit, CommitTake
  <2>2. UNCHANGED <<client, opened>> /\ net' \subseteq net
    BY <1>7 DEF AcceptCommit, Delivered, history
  <2>3. QED
    BY <2>1, <2>2, SentKept, WithoutGrows
<1>8. ASSUME NEW m \in net, NEW lost \in BOOLEAN, RefuseCommit(m, lost)
      PROVE  SentInv'
  <2>1. \A t \in Txns : Grows(t)
    <3>1. CASE UNCHANGED vars
      BY <3>1, UntouchedGrows DEF vars
    <3>2. CASE CommitDrop(m.txn)
      BY <3>2, WithoutGrows DEF CommitDrop
    <3>3. QED
      BY <1>8, <3>1, <3>2 DEF RefuseCommit
  <2>2. \A i \in Instances : client'[i] # None => client'[i] = client[i]
    BY <1>8, EndedClient DEF RefuseCommit
  <2>3. UNCHANGED opened /\ net' \subseteq net
    BY <1>8 DEF RefuseCommit, Delivered, history
  <2>4. QED
    BY <2>1, <2>2, <2>3, SentKept
<1>9. ASSUME NEW r \in Requests, NEW lost \in BOOLEAN, EndCommit(r, lost)
      PROVE  SentInv'
  <2>1. UNCHANGED <<stagingStore, opened, net>>
    BY <1>9 DEF EndCommit, Publish, RejectCommit
  <2>2. \A i \in Instances : client'[i] # None => client'[i] = client[i]
    BY <1>9, EndedClient DEF EndCommit
  <2>3. QED
    BY <2>1, <2>2, SentKept, UntouchedGrows
<1>10. CASE Restart
  <2>1. \A t \in Txns : Grows(t)
    BY <1>0, <1>10, RestartStore
  <2>2. QED
    BY <1>10, <2>1, SentKept DEF Restart, history
<1>11. CASE Background
  <2>1. \A t \in Txns : Grows(t)
    BY <1>0, <1>11, WithoutGrows, TickGrows DEF Background, CleanupStaging
  <2>2. QED
    BY <1>11, <2>1, SentKept DEF Background, history
<1>12. CASE UNCHANGED uploadVars
  BY <1>12, SentKept, UntouchedGrows DEF uploadVars, vars, history
<1>13. QED
  BY <1>1, <1>2, <1>3, <1>4, <1>5, <1>6, <1>7, <1>8, <1>9, <1>10, <1>11, <1>12
     DEF UploadNext, HandleChunk, HandleCommit

LEMMA SentInit == ASSUME UploadInit PROVE SentInv
BY DEF UploadInit, Init, SentInv, SentOf, Staged, Sends

-----------------------------------------------------------------------------
(* A transaction opened once is in one place: staged, taken by one commit, *)
(* or published.                                                           *)

OnceOf(t) ==
    /\ opened[t] = 0 => publications[t] = 0 /\ \A r \in Requests : pending[r] # t
    /\ opened[t] = 1 =>
          /\ publications[t] <= 1
          /\ t \in Staged => publications[t] = 0 /\ \A r \in Requests : pending[r] # t
          /\ \A r \in Requests : pending[r] = t => publications[t] = 0
          /\ \A r, q \in Requests : pending[r] = t /\ pending[q] = t => r = q

OnceInv == \A t \in Txns : OnceOf(t)

LEMMA OnceInit == ASSUME UploadInit PROVE OnceInv
BY UploadAssumption DEF UploadInit, OnceInv, OnceOf

LEMMA OnceKept ==
    ASSUME OnceInv, UNCHANGED <<opened, publications>>, \A t \in Txns : Grows(t),
           \A r \in Requests : pending'[r] \in {pending[r], None}
    PROVE  OnceInv'
<1>1. \A t \in Txns : t # None
  BY UploadAssumption
<1>2. QED
  BY <1>1 DEF OnceInv, OnceOf, Grows

LEMMA StagedOpened ==
    ASSUME UploadTypes, SentInv, NEW t \in Staged
    PROVE  opened[t] \in {1, 2}
BY DEF UploadTypes, UploadTypeOK, SentInv, SentOf, Staged

LEMMA AcceptChunkOnce ==
    ASSUME UploadTypes, SentInv, OnceInv,
           NEW m \in net, NEW again \in BOOLEAN, NEW lost \in BOOLEAN,
           AcceptChunk(m, again, lost)
    PROVE  OnceInv'
<1>1. m.txn \in Txns /\ m.seq \in SeqIDs /\ m.instance \in Instances /\ Content \in Payloads
  BY ContentType
     DEF AcceptChunk, UploadTypes, UploadTypeOK, ChunkRequest, CommitRequest
<1>2. TypeOK /\ StagingInv /\ opened \in [Txns -> 0 .. 2]
  BY DEF UploadTypes, UploadTypeOK
<1>3. UNCHANGED <<pending, publications>>
  BY DEF AcceptChunk
<1>4. CASE ExtendTxn(m.txn, m.seq, Content) /\ UNCHANGED opened
  <2>1. \A t \in Txns : Grows(t)
    BY <1>1, <1>2, <1>4, ExtendGrows
  <2>2. QED
    BY <1>3, <1>4, <2>1, OnceKept
<1>5. CASE /\ StartTxn(m.txn, m.instance, m.seq, Content)
           /\ opened' = CountUp(opened, m.txn)
  <2>1. \A t \in Txns \ {m.txn} : Grows(t) /\ opened'[t] = opened[t]
    BY <1>1, <1>2, <1>5, StartGrows, CountUpType
  <2>2. \A t \in Txns \ {m.txn} : OnceOf(t)'
    BY <1>3, <2>1 DEF OnceInv, OnceOf, Grows
  <2>3. OnceOf(m.txn)'
    <3>1. OnceOf(m.txn)
      BY <1>1 DEF OnceInv
    <3>2. opened[m.txn] = 0 => opened'[m.txn] = 1
      BY <1>1, <1>2, <1>5, CountUpType
    <3>3. opened[m.txn] # 0 => opened'[m.txn] = 2
      BY <1>1, <1>2, <1>5, CountUpType
    <3>4. QED
      BY <1>3, <3>1, <3>2, <3>3 DEF OnceOf
  <2>4. QED
    BY <2>2, <2>3 DEF OnceInv
<1>6. QED
  BY <1>4, <1>5 DEF AcceptChunk

LEMMA AcceptCommitOnce ==
    ASSUME UploadTypes, SentInv, OnceInv,
           NEW r \in Requests, NEW m \in net, NEW again \in BOOLEAN, AcceptCommit(r, m, again)
    PROVE  OnceInv'
<1> SUFFICES ASSUME NEW t \in Txns
             PROVE  OnceOf(t)'
  BY DEF OnceInv
<1>1. /\ m.txn \in Staged
      /\ stagingStore' = StoreWithout({m.txn})
      /\ pending' = [pending EXCEPT ![r] = m.txn]
      /\ UNCHANGED <<opened, publications>>
  BY DEF AcceptCommit, CommitTake, IsOpen, history
<1>2. Grows(t) /\ OnceOf(t) /\ pending \in [Requests -> Txns \cup {None}]
  BY <1>1, WithoutGrows DEF OnceInv, UploadTypes, UploadTypeOK
<1>3. CASE t = m.txn
  <2>1. t \notin Staged' /\ opened[t] \in {1, 2}
    BY <1>1, <1>3, WithoutGrows, StagedOpened
  <2>2. QED
    BY <1>1, <1>2, <1>3, <2>1 DEF OnceOf
<1>4. CASE t # m.txn
  <2>1. \A q \in Requests : pending'[q] = t => pending[q] = t
    BY <1>1, <1>2, <1>4
  <2>2. QED
    BY <1>1, <1>2, <2>1 DEF OnceOf, Grows
<1>5. QED
  BY <1>3, <1>4

LEMMA EndCommitOnce ==
    ASSUME UploadTypes, OnceInv, NEW r \in Requests, NEW lost \in BOOLEAN, EndCommit(r, lost)
    PROVE  OnceInv'
<1>1. /\ UNCHANGED <<stagingStore, opened>>
      /\ pending' = [pending EXCEPT ![r] = None]
      /\ pending[r] \in Txns
      /\ pending \in [Requests -> Txns \cup {None}]
      /\ publications \in [Txns -> 0 .. 2]
  BY DEF EndCommit, Publish, RejectCommit, UploadTypes, UploadTypeOK
<1>2. \A q \in Requests : pending'[q] \in {pending[q], None}
  BY <1>1
<1>3. CASE UNCHANGED publications
  BY <1>1, <1>2, <1>3, OnceKept, UntouchedGrows
<1>4. CASE publications' = CountUp(publications, pending[r])
  <2> SUFFICES ASSUME NEW t \in Txns
               PROVE  OnceOf(t)'
    BY DEF OnceInv
  <2>1. OnceOf(t) /\ t # None
    BY UploadAssumption DEF OnceInv
  <2>2. Staged' = Staged
    BY <1>1 DEF Staged
  <2>3. \A q \in Requests : pending'[q] = t => pending[q] = t /\ q # r
    BY <1>1, <2>1
  <2>4. CASE t = pending[r]
    <3>1. publications[t] = 0 => publications'[t] = 1
      BY <1>1, <1>4, <2>4, CountUpType
    <3>2. QED
      BY <1>1, <2>1, <2>2, <2>3, <2>4, <3>1 DEF OnceOf
  <2>5. CASE t # pending[r]
    <3>1. publications'[t] = publications[t]
      BY <1>1, <1>4, <2>5, CountUpType
    <3>2. QED
      BY <1>1, <2>1, <2>2, <2>3, <3>1 DEF OnceOf
  <2>6. QED
    BY <2>4, <2>5
<1>5. QED
  BY <1>3, <1>4 DEF EndCommit

LEMMA OnceNext ==
    ASSUME UploadTypes, SentInv, OnceInv, [UploadNext]_uploadVars
    PROVE  OnceInv'
<1>0. TypeOK
  BY DEF UploadTypes, UploadTypeOK
<1>1. ASSUME NEW i \in Instances,
             \/ \E t \in Txns : Begin(i, t)
             \/ \E s \in SeqIDs : SendChunk(i, s)
             \/ SendCommit(i)
             \/ GiveUp(i)
      PROVE  OnceInv'
  <2>1. UNCHANGED <<stagingStore, history, pending>>
    BY <1>1 DEF Begin, SendChunk, SendCommit, GiveUp, vars
  <2>2. QED
    BY <2>1, OnceKept, UntouchedGrows DEF history
<1>2. ASSUME NEW m \in net, NEW again \in BOOLEAN, NEW lost \in BOOLEAN,
             AcceptChunk(m, again, lost)
      PROVE  OnceInv'
  BY <1>2, AcceptChunkOnce
<1>3. ASSUME NEW m \in net, RefuseChunk(m)
      PROVE  OnceInv'
  <2>1. \A t \in Txns : Grows(t)
    BY <1>3, UntouchedGrows, WithoutGrows DEF RefuseChunk, RefuseExtend, RefuseStart, vars
  <2>2. QED
    BY <1>3, <2>1, OnceKept DEF RefuseChunk, history
<1>4. ASSUME NEW r \in Requests, NEW m \in net, NEW again \in BOOLEAN, AcceptCommit(r, m, again)
      PROVE  OnceInv'
  BY <1>4, AcceptCommitOnce
<1>5. ASSUME NEW m \in net, NEW lost \in BOOLEAN, RefuseCommit(m, lost)
      PROVE  OnceInv'
  <2>1. \A t \in Txns : Grows(t)
    BY <1>5, UntouchedGrows, WithoutGrows DEF RefuseCommit, CommitDrop, vars
  <2>2. QED
    BY <1>5, <2>1, OnceKept DEF RefuseCommit, history
<1>6. ASSUME NEW r \in Requests, NEW lost \in BOOLEAN, EndCommit(r, lost)
      PROVE  OnceInv'
  BY <1>6, EndCommitOnce
<1>7. CASE Restart
  <2>1. \A t \in Txns : Grows(t)
    BY <1>0, <1>7, RestartStore
  <2>2. \A r \in Requests : pending'[r] = None
    BY <1>7 DEF Restart
  <2>3. QED
    BY <1>7, <2>1, <2>2, OnceKept DEF Restart, history
<1>8. CASE Background
  <2>1. \A t \in Txns : Grows(t)
    BY <1>0, <1>8, WithoutGrows, TickGrows DEF Background, CleanupStaging
  <2>2. QED
    BY <1>8, <2>1, OnceKept DEF Background, history
<1>9. CASE UNCHANGED uploadVars
  BY <1>9, OnceKept, UntouchedGrows DEF uploadVars, vars, history
<1>10. QED
  BY <1>1, <1>2, <1>3, <1>4, <1>5, <1>6, <1>7, <1>8, <1>9
     DEF UploadNext, HandleChunk, HandleCommit

-----------------------------------------------------------------------------
(* Commits in progress.                                                    *)

LEMMA WholeKept ==
    ASSUME PartOnlyIfReopened,
           \A t \in Txns : opened[t] = 2 => opened'[t] = 2,
           \A r \in Requests : commits'[r] # None =>
              commits'[r] = commits[r] /\ pending'[r] = pending[r] /\ pending[r] \in Txns
    PROVE  PartOnlyIfReopened'
BY DEF PartOnlyIfReopened, Present

LEMMA WholeNext ==
    ASSUME UploadTypes, SentInv, PartOnlyIfReopened, [UploadNext]_uploadVars
    PROVE  PartOnlyIfReopened'
<1>0. /\ TypeOK
      /\ opened \in [Txns -> 0 .. 2]
      /\ pending \in [Requests -> Txns \cup {None}]
      /\ \A r \in Requests : commits[r] # None => pending[r] \in Txns
  BY DEF UploadTypes, UploadTypeOK
<1>1. ASSUME UNCHANGED <<commits, pending, opened>>
      PROVE  PartOnlyIfReopened'
  BY <1>0, <1>1, WholeKept
<1>2. ASSUME NEW i \in Instances,
             \/ \E t \in Txns : Begin(i, t)
             \/ \E s \in SeqIDs : SendChunk(i, s)
             \/ SendCommit(i)
             \/ GiveUp(i)
      PROVE  PartOnlyIfReopened'
  BY <1>1, <1>2 DEF Begin, SendChunk, SendCommit, GiveUp, vars, history
<1>3. ASSUME NEW m \in net, NEW again \in BOOLEAN, NEW lost \in BOOLEAN,
             AcceptChunk(m, again, lost)
      PROVE  PartOnlyIfReopened'
  <2>1. m.txn \in Txns
    BY <1>3 DEF AcceptChunk, UploadTypes, UploadTypeOK, ChunkRequest, CommitRequest
  <2>2. \A t \in Txns : opened[t] = 2 => opened'[t] = 2
    BY <1>0, <1>3, <2>1, CountUpType DEF AcceptChunk
  <2>3. UNCHANGED <<commits, pending>>
    BY <1>3 DEF AcceptChunk, ExtendTxn, StartTxn
  <2>4. QED
    BY <1>0, <2>2, <2>3, WholeKept
<1>4. ASSUME NEW m \in net, RefuseChunk(m)
      PROVE  PartOnlyIfReopened'
  BY <1>1, <1>4 DEF RefuseChunk, RefuseExtend, RefuseStart, vars, history
<1>5. ASSUME NEW r \in Requests, NEW m \in net, NEW again \in BOOLEAN, AcceptCommit(r, m, again)
      PROVE  PartOnlyIfReopened'
  <2> DEFINE chunks == stagingStore[m.txn].Chunks
  <2>1. /\ m.txn \in Staged
        /\ commits' = [commits EXCEPT ![r] = [instance |-> m.instance, chunks |-> chunks]]
        /\ pending' = [pending EXCEPT ![r] = m.txn]
        /\ UNCHANGED opened
        /\ m.kind = "commit"
    BY <1>5 DEF AcceptCommit, CommitTake, IsOpen, history
  <2>2. Present(chunks) = SeqIDs \/ opened[m.txn] = 2
    <3>1. m.txn \in Txns /\ SentOf(m.txn) /\ opened[m.txn] \in {1, 2}
      BY <2>1, StagedOpened DEF SentInv, Staged
    <3>2. QED
      BY <2>1, <3>1 DEF SentOf
  <2>3. commits'[r].chunks = chunks /\ pending'[r] = m.txn
    BY <1>0, <2>1 DEF TypeOK
  <2>4. \A q \in Requests \ {r} : commits'[q] = commits[q] /\ pending'[q] = pending[q]
    BY <1>0, <2>1 DEF TypeOK
  <2> HIDE DEF chunks
  <2>5. QED
    BY <2>1, <2>2, <2>3, <2>4 DEF PartOnlyIfReopened, Present
<1>6. ASSUME NEW m \in net, NEW lost \in BOOLEAN, RefuseCommit(m, lost)
      PROVE  PartOnlyIfReopened'
  BY <1>1, <1>6 DEF RefuseCommit, CommitDrop, vars, history
<1>7. ASSUME NEW r \in Requests, NEW lost \in BOOLEAN, EndCommit(r, lost)
      PROVE  PartOnlyIfReopened'
  <2>1. /\ commits' = [commits EXCEPT ![r] = None]
        /\ pending' = [pending EXCEPT ![r] = None]
        /\ UNCHANGED opened
    BY <1>7 DEF EndCommit, Publish, RejectCommit
  <2>2. commits'[r] = None
    BY <1>0, <2>1 DEF TypeOK
  <2>3. \A q \in Requests \ {r} : commits'[q] = commits[q] /\ pending'[q] = pending[q]
    BY <1>0, <2>1 DEF TypeOK
  <2>4. QED
    BY <1>0, <2>1, <2>2, <2>3, WholeKept
<1>8. CASE Restart
  BY <1>8 DEF Restart, PartOnlyIfReopened
<1>9. CASE Background
  BY <1>1, <1>9 DEF Background, CleanupStaging, Tick, history
<1>10. CASE UNCHANGED uploadVars
  BY <1>1, <1>10 DEF uploadVars, vars, history
<1>11. QED
  BY <1>2, <1>3, <1>4, <1>5, <1>6, <1>7, <1>8, <1>9, <1>10
     DEF UploadNext, HandleChunk, HandleCommit

LEMMA UploadInvCorrect ==
    UploadSpec => [](UploadTypes /\ SentInv /\ OnceInv /\ PartOnlyIfReopened)
<1> DEFINE Inv == UploadTypes /\ SentInv /\ OnceInv /\ PartOnlyIfReopened
<1>1. UploadInit => Inv
  <2>1. UploadInit => PartOnlyIfReopened
    BY DEF UploadInit, Init, PartOnlyIfReopened
  <2>2. QED
    BY <2>1, UploadTypesInit, SentInit, OnceInit
<1>2. Inv /\ [UploadNext]_uploadVars => Inv'
  BY UploadTypesNext, SentNext, OnceNext, WholeNext
<1>3. QED
  BY <1>1, <1>2, PTL DEF UploadSpec

\* RetrieveStaging for a commit that was sent after every chunk was answered
\* returns the whole upload, unless the transaction was lost and opened again
\* in between.
THEOREM PartOnlyIfReopenedCorrect == UploadSpec => []PartOnlyIfReopened
BY UploadInvCorrect, PTL

\* However often it is committed, what was opened once is published once.
THEOREM PublishedOnceCorrect == UploadSpec => []PublishedOnce
<1>1. UploadTypes /\ OnceInv => PublishedOnce
  BY DEF UploadTypes, UploadTypeOK, OnceInv, OnceOf, PublishedOnce
<1>2. QED
  BY <1>1, UploadInvCorrect, PTL
=============================================================================
