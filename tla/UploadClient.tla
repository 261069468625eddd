---------------------------- MODULE UploadClient ----------------------------
(***************************************************************************)
(* Chunked uploads end to end: game servers that send numbered chunks and  *)
(* a commit, the network in between, and the store of the exporter, which  *)
(* keeps nothing over a restart.                                           *)
(*                                                                         *)
(* The game server's side is not part of the repository.  What is assumed  *)
(* of it is what the API asks for: a transaction hash of its own for each  *)
(* upload, no commit before every chunk was answered with 202, and that it *)
(* sends again what was not answered, or was answered with 503.            *)
(***************************************************************************)
EXTENDS Storage

CONSTANT MaxFaults  \* bound: restarts, duplicates, lost answers, given-up uploads

VARIABLES
    client,        \* the upload each game server is in the middle of
    net,           \* requests on their way
    pending,       \* the transaction of each commit in progress
    opened,        \* how often each transaction was opened, up to 2 (history)
    publications,  \* how often each transaction was published, up to 2 (history)
    begun,         \* transaction hashes that have been used (history)
    faults         \* faults so far (bookkeeping of the bound)

history == <<opened, publications>>
uploadVars == <<vars, client, net, pending, history, begun, faults>>

ASSUME UploadAssumption ==
    /\ MaxFaults \in Nat
    /\ Payloads # {}
    /\ None \notin Txns
    /\ None \notin [txn : Txns, acked : SUBSET SeqIDs]

ClientUpload == [txn : Txns, acked : SUBSET SeqIDs]
ChunkRequest == [kind : {"chunk"}, instance : Instances, txn : Txns, seq : SeqIDs]
CommitRequest == [kind : {"commit"}, instance : Instances, txn : Txns]

Chunk(i, t, s) == [kind |-> "chunk", instance |-> i, txn |-> t, seq |-> s]
CommitOf(i, t) == [kind |-> "commit", instance |-> i, txn |-> t]

\* The body of a chunk, the same for all: what counts is which have arrived.
Content == CHOOSE p \in Payloads : TRUE

-----------------------------------------------------------------------------
UploadInit ==
    /\ Init
    /\ client = [i \in Instances |-> None]
    /\ net = {}
    /\ pending = [r \in Requests |-> None]
    /\ opened = [t \in Txns |-> 0]
    /\ publications = [t \in Txns |-> 0]
    /\ begun = {}
    /\ faults = 0

Fault == faults < MaxFaults /\ faults' = faults + 1

CountUp(count, t) == [count EXCEPT ![t] = IF @ = 2 THEN 2 ELSE @ + 1]

(* The game server.                                                        *)

Begin(i, t) ==
    /\ client[i] = None
    /\ t \notin begun
    /\ client' = [client EXCEPT ![i] = [txn |-> t, acked |-> {}]]
    /\ begun' = begun \cup {t}
    /\ UNCHANGED <<vars, net, pending, history, faults>>

SendChunk(i, s) ==
    /\ client[i] # None
    /\ s \notin client[i].acked
    /\ net' = net \cup {Chunk(i, client[i].txn, s)}
    /\ net' # net
    /\ UNCHANGED <<vars, client, pending, history, begun, faults>>

SendCommit(i) ==
    /\ client[i] # None
    /\ client[i].acked = SeqIDs
    /\ net' = net \cup {CommitOf(i, client[i].txn)}
    /\ net' # net
    /\ UNCHANGED <<vars, client, pending, history, begun, faults>>

\* It gives up, with requests still on their way.
GiveUp(i) ==
    /\ client[i] # None
    /\ Fault
    /\ client' = [client EXCEPT ![i] = None]
    /\ UNCHANGED <<vars, net, pending, history, begun>>

(* The network: a request that arrives may have been sent twice, and an    *)
(* answer may get lost.                                                    *)

\* Of the faults that may come with a request, at most one does.
Delivered(m, again, lost) ==
    /\ m \in net
    /\ net' = IF again THEN net ELSE net \ {m}
    /\ ~(again /\ lost)
    /\ IF again \/ lost THEN Fault ELSE UNCHANGED faults

Acked(m) ==
    LET i == m.instance IN
    IF client[i] # None /\ client[i].txn = m.txn
    THEN [client EXCEPT ![i].acked = @ \cup {m.seq}] ELSE client

\* 200, 400 and 404 all end an upload.
Ended(i, t) ==
    IF client[i] # None /\ client[i].txn = t
    THEN [client EXCEPT ![i] = None] ELSE client

(* The exporter.                                                           *)

\* 202.
AcceptChunk(m, again, lost) ==
    /\ m.kind = "chunk"
    /\ Delivered(m, again, lost)
    /\ \/ ExtendTxn(m.txn, m.seq, Content) /\ UNCHANGED opened
       \/ StartTxn(m.txn, m.instance, m.seq, Content) /\ opened' = CountUp(opened, m.txn)
    /\ client' = IF lost THEN client ELSE Acked(m)
    /\ UNCHANGED <<pending, publications, begun>>

\* BUG: the error of AppendToStaging is logged, and 202 is answered.
RefuseChunkAcked(m) ==
    /\ m.kind = "chunk"
    /\ Delivered(m, FALSE, FALSE)
    /\ RefuseExtend(m.txn, m.seq, Content) \/ RefuseStart(m.txn, Content)
    /\ client' = Acked(m)
    /\ UNCHANGED <<pending, history, begun>>

\* 503: the buffer is full, and the chunk will be sent again.
RefuseChunk(m) ==
    /\ m.kind = "chunk"
    /\ Delivered(m, FALSE, FALSE)
    /\ RefuseExtend(m.txn, m.seq, Content) \/ RefuseStart(m.txn, Content)
    /\ UNCHANGED <<client, pending, history, begun>>

AcceptCommit(r, m, again) ==
    /\ m.kind = "commit"
    /\ Delivered(m, again, FALSE)
    /\ CommitTake(r, m.instance, m.txn)
    /\ pending' = [pending EXCEPT ![r] = m.txn]
    /\ UNCHANGED <<client, history, begun>>

\* 404.
RefuseCommit(m, lost) ==
    /\ m.kind = "commit"
    /\ Delivered(m, FALSE, lost)
    /\ CommitDrop(m.txn) \/ (m.txn \notin Staged /\ UNCHANGED vars)
    /\ client' = IF lost THEN client ELSE Ended(m.instance, m.txn)
    /\ UNCHANGED <<pending, history, begun>>

EndCommit(r, lost) ==
    /\ \/ Publish(r) /\ publications' = CountUp(publications, pending[r])
       \/ RejectCommit(r) /\ UNCHANGED publications
    /\ IF lost THEN Fault ELSE UNCHANGED faults
    /\ client' = IF lost THEN client ELSE Ended(commits[r].instance, pending[r])
    /\ pending' = [pending EXCEPT ![r] = None]
    /\ UNCHANGED <<net, opened, begun>>

\* New: a process that has just started knows nothing.
Restart ==
    /\ Fault
    /\ stagingStore' = [t \in Txns |-> None]
    /\ stagingSize' = 0
    /\ liveStore' = [i \in Instances |-> None]
    /\ commits' = [r \in Requests |-> None]
    /\ pending' = [r \in Requests |-> None]
    /\ UNCHANGED <<uploads, client, net, history, begun>>

Background ==
    /\ CleanupStaging \/ Tick
    /\ UNCHANGED <<client, net, pending, history, begun, faults>>

-----------------------------------------------------------------------------
HandleChunk(m) ==
    \/ \E again, lost \in BOOLEAN : AcceptChunk(m, again, lost)
    \/ RefuseChunk(m)

HandleCommit(m) ==
    \/ \E r \in Requests, again \in BOOLEAN : AcceptCommit(r, m, again)
    \/ \E lost \in BOOLEAN : RefuseCommit(m, lost)

UploadNext ==
    \/ \E i \in Instances :
          \/ \E t \in Txns : Begin(i, t)
          \/ \E s \in SeqIDs : SendChunk(i, s)
          \/ SendCommit(i)
          \/ GiveUp(i)
    \/ \E m \in net : HandleChunk(m) \/ HandleCommit(m)
    \/ \E r \in Requests, lost \in BOOLEAN : EndCommit(r, lost)
    \/ Restart
    \/ Background

UploadSpec == UploadInit /\ [][UploadNext]_uploadVars

\* A game server goes on with its upload, requests arrive, handlers end, time
\* passes and the collector runs.
UploadFairSpec ==
    /\ UploadSpec
    /\ \A i \in Instances :
          /\ \A s \in SeqIDs : WF_uploadVars(SendChunk(i, s))
          /\ WF_uploadVars(SendCommit(i))
          /\ \A t \in Txns :
                /\ \A s \in SeqIDs : WF_uploadVars(HandleChunk(Chunk(i, t, s)))
                /\ WF_uploadVars(HandleCommit(CommitOf(i, t)))
    /\ \A r \in Requests : WF_uploadVars(\E lost \in BOOLEAN : EndCommit(r, lost))
    /\ WF_uploadVars(CleanupStaging /\ UNCHANGED <<client, net, pending, history, begun, faults>>)
    /\ WF_uploadVars(Tick /\ UNCHANGED <<client, net, pending, history, begun, faults>>)

-----------------------------------------------------------------------------
\* The types; a commit in progress has its transaction, and the store keeps
\* its accounts over restarts.
UploadTypeOK ==
    /\ TypeOK
    /\ StagingAccounting
    /\ client \in [Instances -> ClientUpload \cup {None}]
    /\ net \subseteq ChunkRequest \cup CommitRequest
    /\ pending \in [Requests -> Txns \cup {None}]
    /\ opened \in [Txns -> 0 .. 2]
    /\ publications \in [Txns -> 0 .. 2]
    /\ begun \subseteq Txns
    /\ faults \in 0 .. MaxFaults
    /\ \A r \in Requests : pending[r] = None <=> commits[r] = None

\* A commit takes all the chunks of its upload, though chunks and commits are
\* sent again and arrive late; it takes a part only if the transaction was
\* opened again in between, after a restart, a lapse or its eviction.
PartOnlyIfReopened ==
    \A r \in Requests :
        commits[r] # None =>
            Present(commits[r].chunks) = SeqIDs \/ opened[pending[r]] = 2

\* However often a commit is sent, an upload is published once, unless a late
\* chunk has opened its transaction again.
PublishedOnce == \A t \in Txns : publications[t] <= opened[t]

\* No upload hangs, not even on a full buffer: the uploads given up in the
\* middle of it lapse and make room.
UploadsEnd ==
    \/ <>[](\A i \in Instances : client[i] = None)
    \/ <>[](uploads = MaxUploads)
=============================================================================
