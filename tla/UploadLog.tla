----------------------------- MODULE UploadLog ------------------------------
(***************************************************************************)
(* What the chunked ingest API promises, without bytes, quotas or clocks:  *)
(* an upload collects chunks under its transaction hash; a commit takes    *)
(* it, whole and once, as long as its time has not run out; what is        *)
(* published for an instance is always the body of one commit or of one    *)
(* single-shot request.  Module Storage is shown to implement this.        *)
(***************************************************************************)
CONSTANTS Instances, Txns, SeqIDs, Payloads, Requests, None

VARIABLES
    open,       \* the upload collected under each transaction hash, or None
    taken,      \* the body each commit in progress has taken, or None
    published   \* the body published last for each instance, or None

vars == <<open, taken, published>>

NoChunks == [s \in SeqIDs |-> None]
Bodies == [SeqIDs -> Payloads \cup {None}]
Uploads == [owner : Instances, chunks : Bodies, lapsed : BOOLEAN]
Commits == [instance : Instances, chunks : Bodies]

IsOpen(t) == open[t] # None
CanGrow(t) == IsOpen(t) /\ ~open[t].lapsed

Without(gone) == [t \in Txns |-> IF t \in gone THEN None ELSE open[t]]

Init ==
    /\ open = [t \in Txns |-> None]
    /\ taken = [r \in Requests |-> None]
    /\ published = [i \in Instances |-> None]

\* A chunk of an upload in time joins that upload and no other.
Extend(t, s, p) ==
    /\ CanGrow(t)
    /\ open' = [open EXCEPT ![t].chunks[s] = p]
    /\ UNCHANGED <<taken, published>>

\* The first chunk of an upload drops every other upload of its instance,
\* and nothing else.
Start(t, i, s, p) ==
    /\ ~CanGrow(t)
    /\ LET same == {u \in Txns : IsOpen(u) /\ open[u].owner = i}
       IN  open' = [Without(same) EXCEPT
                      ![t] = [owner  |-> i,
                              chunks |-> [NoChunks EXCEPT ![s] = p],
                              lapsed |-> FALSE]]
    /\ UNCHANGED <<taken, published>>

\* The time of the uploads in late runs out.
Lapse(late) ==
    /\ late # {}
    /\ \A t \in late : CanGrow(t)
    /\ open' = [t \in Txns |-> IF t \in late
                               THEN [open[t] EXCEPT !.lapsed = TRUE]
                               ELSE open[t]]
    /\ UNCHANGED <<taken, published>>

\* Only uploads out of time are dropped.
Drop(gone) ==
    /\ gone # {}
    /\ \A t \in gone : IsOpen(t) /\ open[t].lapsed
    /\ open' = Without(gone)
    /\ UNCHANGED <<taken, published>>

\* A commit takes an upload in time, for the instance it names.
Take(r, i, t) ==
    /\ CanGrow(t)
    /\ taken[r] = None
    /\ taken' = [taken EXCEPT ![r] = [instance |-> i,
                                      chunks   |-> open[t].chunks]]
    /\ open' = Without({t})
    /\ UNCHANGED published

Publish(r) ==
    /\ taken[r] # None
    /\ published' = [published EXCEPT ![taken[r].instance] = taken[r].chunks]
    /\ taken' = [taken EXCEPT ![r] = None]
    /\ UNCHANGED open

Reject(r) ==
    /\ taken[r] # None
    /\ taken' = [taken EXCEPT ![r] = None]
    /\ UNCHANGED <<open, published>>

\* A single-shot body is one payload.
PublishSingle(i, s, p) ==
    /\ published' = [published EXCEPT ![i] = [NoChunks EXCEPT ![s] = p]]
    /\ UNCHANGED <<open, taken>>

Next ==
    \/ \E t \in Txns, s \in SeqIDs, p \in Payloads :
          \/ Extend(t, s, p)
          \/ \E i \in Instances : Start(t, i, s, p)
    \/ \E ts \in SUBSET Txns : Lapse(ts) \/ Drop(ts)
    \/ \E r \in Requests :
          \/ \E i \in Instances, t \in Txns : Take(r, i, t)
          \/ Publish(r)
          \/ Reject(r)
    \/ \E i \in Instances, s \in SeqIDs, p \in Payloads : PublishSingle(i, s, p)

Spec == Init /\ [][Next]_vars
=============================================================================
