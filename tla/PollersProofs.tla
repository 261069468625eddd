--------------------------- MODULE PollersProofs ----------------------------
(***************************************************************************)
(* Proofs about Pollers, for every number of servers and of faults:        *)
(* sessions leak no connection, and one fault is forgiven.                 *)
(***************************************************************************)
EXTENDS Pollers, StorageProofs

-----------------------------------------------------------------------------
(* The pollers as seen by the store.                                       *)

LEMMA StepOfStorage ==
    ASSUME [PollersNext]_pollerVars
    PROVE  [Next]_vars
<1> USE DEF network, a2sVars, rconVars, history
<1>1. ASSUME NEW i \in Instances, Outage(i)
      PROVE  [Next]_vars
  BY <1>1 DEF Outage, SetWorks
<1>2. ASSUME NEW i \in Instances, Recover(i)
      PROVE  [Next]_vars
  BY <1>2 DEF Recover
<1>3. ASSUME NEW i \in A2SServers, A2STick(i)
      PROVE  [Next]_vars
  BY <1>3 DEF A2STick
<1>4. ASSUME NEW i \in A2SServers, A2SBegin(i)
      PROVE  [Next]_vars
  BY <1>4 DEF A2SBegin
<1>5. ASSUME NEW i \in A2SServers, A2SQuery(i)
      PROVE  [Next]_vars
  BY <1>5 DEF A2SQuery
<1>6. ASSUME NEW i \in A2SServers, A2SSubmit(i)
      PROVE  [Next]_vars
  BY <1>6 DEF A2SSubmit, A2SUp, Next, Operations, Polling
<1>7. ASSUME NEW i \in A2SServers, A2SLost(i)
      PROVE  [Next]_vars
  BY <1>7 DEF A2SLost
<1>8. ASSUME NEW i \in RConServers, LoseSession(i)
      PROVE  [Next]_vars
  BY <1>8 DEF LoseSession, SetWorks, Hit
<1>9. ASSUME NEW i \in RConServers, Notice(i)
      PROVE  [Next]_vars
  BY <1>9 DEF Notice
<1>10. ASSUME NEW i \in RConServers, RConTick(i)
      PROVE  [Next]_vars
  BY <1>10 DEF RConTick
<1>11. ASSUME NEW i \in RConServers, RConBegin(i)
      PROVE  [Next]_vars
  BY <1>11 DEF RConBegin
<1>12. ASSUME NEW i \in RConServers, RConCheck(i)
      PROVE  [Next]_vars
  BY <1>12 DEF RConCheck
<1>13. ASSUME NEW i \in RConServers, Connect(i)
      PROVE  [Next]_vars
  BY <1>13 DEF Connect, SocketsClosed
<1>13a. ASSUME NEW i \in RConServers, LoginLost(i)
      PROVE  [Next]_vars
  BY <1>13a DEF LoginLost
<1>14. ASSUME NEW i \in RConServers, SendAnswered(i)
      PROVE  [Next]_vars
  BY <1>14 DEF SendAnswered, Sending
<1>15. ASSUME NEW i \in RConServers, SendFailed(i)
      PROVE  [Next]_vars
  BY <1>15 DEF SendFailed, CloseAndRetry, SocketsClosed, Sending
<1>16. ASSUME NEW i \in RConServers, RConSubmit(i)
      PROVE  [Next]_vars
  BY <1>16 DEF RConSubmit, RConUp, Next, Operations, Polling
<1>17. ASSUME NEW i \in RConServers, SendLost(i)
      PROVE  [Next]_vars
  BY <1>17 DEF SendLost, CloseAndRetry, SocketsClosed, Sending, Hit
<1>18. CASE Elsewhere
  BY <1>18 DEF Elsewhere, Next, Operations
<1>19. CASE UNCHANGED pollerVars
  BY <1>19 DEF pollerVars
<1> HIDE DEF network, a2sVars, rconVars, history
<1>20. QED
  BY <1>1, <1>2, <1>3, <1>4, <1>5, <1>6, <1>7, <1>8, <1>9, <1>10, <1>11, <1>12, <1>13, <1>13a, <1>14, <1>15, <1>16, <1>17, <1>18, <1>19
     DEF PollersNext, A2SStep, RConStep

-----------------------------------------------------------------------------
(* Types and connections.  A counter of sockets that never goes below zero *)
(* needs to know when there is a connection to close.                      *)

LEMMA NewConnection ==
    /\ [works |-> TRUE, alive |-> TRUE] \in Connection
    /\ [works |-> TRUE, alive |-> TRUE] # None
<1>1. [works |-> TRUE, alive |-> TRUE] \in Connection
  BY DEF Connection
<1>2. QED
  BY <1>1, PollerAssumption

LEMMA ConnectionsInit == ASSUME PollersInit PROVE PollersTypeOK /\ OneConnection
BY InitType, PollerAssumption
   DEF PollersInit, PollersTypeOK, OneConnection, A2SPlaces, RConPlaces, Sending

LEMMA PollersTypeStep ==
    ASSUME PollersTypeOK, OneConnection, [PollersNext]_pollerVars
    PROVE  PollersTypeOK'
<1>a. TypeOK'
  BY StepOfStorage, NextType DEF PollersTypeOK
<1> USE DEF PollersTypeOK, A2SPlaces, RConPlaces, Connection, network, a2sVars, rconVars, history
<1>1. ASSUME NEW i \in Instances, Outage(i)
      PROVE  PollersTypeOK'
  <2>1. conn' \in [RConServers -> Connection \cup {None}]
    BY <1>1 DEF Outage, SetWorks
  <2>2. hits' \in [RConServers -> 0 .. 2]
    BY <1>1 DEF Outage
  <2>3. faults' \in 0 .. MaxFaults
    BY <1>1, PollerAssumption DEF Outage
  <2>4. QED
    BY <1>1, <1>a, <2>1, <2>2, <2>3 DEF Outage
<1>2. ASSUME NEW i \in Instances, Recover(i)
      PROVE  PollersTypeOK'
  BY <1>2, <1>a DEF Recover
<1>3. ASSUME NEW i \in A2SServers, A2STick(i)
      PROVE  PollersTypeOK'
  BY <1>3, <1>a DEF A2STick
<1>4. ASSUME NEW i \in A2SServers, A2SBegin(i)
      PROVE  PollersTypeOK'
  BY <1>4, <1>a DEF A2SBegin
<1>5. ASSUME NEW i \in A2SServers, A2SQuery(i)
      PROVE  PollersTypeOK'
  BY <1>5, <1>a DEF A2SQuery
<1>6. ASSUME NEW i \in A2SServers, A2SSubmit(i)
      PROVE  PollersTypeOK'
  BY <1>6, <1>a DEF A2SSubmit
<1>7. ASSUME NEW i \in A2SServers, A2SLost(i)
      PROVE  PollersTypeOK'
  BY <1>7, PollerAssumption, <1>a DEF A2SLost
<1>8. ASSUME NEW i \in RConServers, LoseSession(i)
      PROVE  PollersTypeOK'
  <2>1. conn' \in [RConServers -> Connection \cup {None}]
    BY <1>8 DEF LoseSession, SetWorks
  <2>2. hits' \in [RConServers -> 0 .. 2]
    BY <1>8 DEF LoseSession, Hit
  <2>3. faults' \in 0 .. MaxFaults
    BY <1>8, PollerAssumption DEF LoseSession
  <2>4. QED
    BY <1>8, <1>a, <2>1, <2>2, <2>3 DEF LoseSession
<1>9. ASSUME NEW i \in RConServers, Notice(i)
      PROVE  PollersTypeOK'
  BY <1>9, <1>a DEF Notice
<1>10. ASSUME NEW i \in RConServers, RConTick(i)
      PROVE  PollersTypeOK'
  BY <1>10, <1>a DEF RConTick
<1>11. ASSUME NEW i \in RConServers, RConBegin(i)
      PROVE  PollersTypeOK'
  BY <1>11, <1>a DEF RConBegin
<1>12. ASSUME NEW i \in RConServers, RConCheck(i)
      PROVE  PollersTypeOK'
  BY <1>12, <1>a DEF RConCheck
<1>13. ASSUME NEW i \in RConServers, Connect(i)
      PROVE  PollersTypeOK'
  <2>1. SocketsClosed(i) = 0
    BY <1>13 DEF SocketsClosed, OneConnection
  <2>2. conn' \in [RConServers -> Connection \cup {None}]
    BY <1>13, NewConnection DEF Connect
  <2>3. sockets' \in [RConServers -> Nat]
    BY <1>13, <2>1 DEF Connect
  <2>4. rconWorker' \in [RConServers -> RConPlaces]
    BY <1>13 DEF Connect
  <2>5. QED
    BY <1>13, <1>a, <2>2, <2>3, <2>4 DEF Connect
<1>13a. ASSUME NEW i \in RConServers, LoginLost(i)
      PROVE  PollersTypeOK'
  <2>1. SocketsClosed(i) = 0
    BY <1>13a DEF SocketsClosed, OneConnection
  <2>2. conn' \in [RConServers -> Connection \cup {None}]
    BY <1>13a DEF LoginLost
  <2>3. sockets' \in [RConServers -> Nat]
    BY <1>13a, <2>1 DEF LoginLost
  <2>4. rconWorker' \in [RConServers -> RConPlaces]
    BY <1>13a DEF LoginLost
  <2>5. hits' \in [RConServers -> 0 .. 2]
    BY <1>13a DEF LoginLost, Hit
  <2>6. faults' \in 0 .. MaxFaults
    BY <1>13a, PollerAssumption DEF LoginLost
  <2>7. refused' \in [RConServers -> BOOLEAN]
    BY <1>13a DEF LoginLost
  <2>8. QED
    BY <1>13a, <1>a, <2>2, <2>3, <2>4, <2>5, <2>6, <2>7 DEF LoginLost
<1>14. ASSUME NEW i \in RConServers, SendAnswered(i)
      PROVE  PollersTypeOK'
  BY <1>14, <1>a DEF SendAnswered, Sending
<1>15. ASSUME NEW i \in RConServers, SendFailed(i)
      PROVE  PollersTypeOK'
  BY <1>15, <1>a DEF SendFailed, CloseAndRetry, SocketsClosed, Sending, OneConnection
<1>16. ASSUME NEW i \in RConServers, RConSubmit(i)
      PROVE  PollersTypeOK'
  BY <1>16, <1>a DEF RConSubmit
<1>17. ASSUME NEW i \in RConServers, SendLost(i)
      PROVE  PollersTypeOK'
  BY <1>17, PollerAssumption, <1>a DEF SendLost, CloseAndRetry, SocketsClosed, Sending, Hit, OneConnection
<1>18. CASE Elsewhere
  BY <1>18, <1>a DEF Elsewhere
<1>19. CASE UNCHANGED pollerVars
  BY <1>19, <1>a DEF pollerVars
<1> HIDE DEF PollersTypeOK, A2SPlaces, RConPlaces, Connection, network, a2sVars, rconVars, history
<1>20. QED
  BY <1>1, <1>2, <1>3, <1>4, <1>5, <1>6, <1>7, <1>8, <1>9, <1>10, <1>11, <1>12, <1>13, <1>13a, <1>14, <1>15, <1>16, <1>17, <1>18, <1>19
     DEF PollersNext, A2SStep, RConStep

LEMMA OneConnectionStep ==
    ASSUME PollersTypeOK, OneConnection, [PollersNext]_pollerVars
    PROVE  OneConnection'
<1> USE DEF OneConnection, Sending, network, a2sVars, rconVars, history
<1>1. ASSUME NEW i \in Instances, Outage(i)
      PROVE  OneConnection'
  BY <1>1, PollerAssumption DEF Outage, SetWorks, PollersTypeOK, Connection
<1>2. ASSUME NEW i \in Instances, Recover(i)
      PROVE  OneConnection'
  BY <1>2 DEF Recover
<1>3. ASSUME NEW i \in A2SServers, A2STick(i)
      PROVE  OneConnection'
  BY <1>3 DEF A2STick
<1>4. ASSUME NEW i \in A2SServers, A2SBegin(i)
      PROVE  OneConnection'
  BY <1>4 DEF A2SBegin
<1>5. ASSUME NEW i \in A2SServers, A2SQuery(i)
      PROVE  OneConnection'
  BY <1>5 DEF A2SQuery
<1>6. ASSUME NEW i \in A2SServers, A2SSubmit(i)
      PROVE  OneConnection'
  BY <1>6 DEF A2SSubmit
<1>7. ASSUME NEW i \in A2SServers, A2SLost(i)
      PROVE  OneConnection'
  BY <1>7 DEF A2SLost
<1>8. ASSUME NEW i \in RConServers, LoseSession(i)
      PROVE  OneConnection'
  BY <1>8, PollerAssumption DEF LoseSession, SetWorks, Hit, PollersTypeOK, Connection
<1>9. ASSUME NEW i \in RConServers, Notice(i)
      PROVE  OneConnection'
  BY <1>9, PollerAssumption DEF Notice, PollersTypeOK, Connection
<1>10. ASSUME NEW i \in RConServers, RConTick(i)
      PROVE  OneConnection'
  BY <1>10 DEF RConTick, PollersTypeOK, Connection
<1>11. ASSUME NEW i \in RConServers, RConBegin(i)
      PROVE  OneConnection'
  BY <1>11 DEF RConBegin, PollersTypeOK, Connection
<1>12. ASSUME NEW i \in RConServers, RConCheck(i)
      PROVE  OneConnection'
  BY <1>12, PollerAssumption DEF RConCheck, PollersTypeOK, Connection
<1>13. ASSUME NEW i \in RConServers, Connect(i)
      PROVE  OneConnection'
  <2>1. SocketsClosed(i) = 0
    BY <1>13 DEF SocketsClosed
  <2>2. \A j \in RConServers \ {i} : /\ conn'[j] = conn[j]
                                    /\ sockets'[j] = sockets[j]
                                    /\ rconWorker'[j] = rconWorker[j]
    BY <1>13 DEF Connect, PollersTypeOK
  <2>3. CASE reachable[i]
    <3>1. conn'[i] = [works |-> TRUE, alive |-> TRUE] /\ sockets'[i] = 1
      BY <1>13, <2>1, <2>3 DEF Connect, PollersTypeOK
    <3>2. conn'[i] # None
      BY <3>1, NewConnection
    <3>3. QED
      BY <2>2, <3>1, <3>2
  <2>4. CASE ~reachable[i]
    <3>1. conn'[i] = None /\ sockets'[i] = 0 /\ rconWorker'[i] = "down"
      BY <1>13, <2>1, <2>4 DEF Connect, PollersTypeOK
    <3>2. QED
      BY <2>2, <3>1
  <2>5. QED
    BY <2>3, <2>4
<1>13a. ASSUME NEW i \in RConServers, LoginLost(i)
      PROVE  OneConnection'
  <2>1. SocketsClosed(i) = 0
    BY <1>13a DEF SocketsClosed
  <2>2. conn'[i] = None /\ sockets'[i] = 0 /\ rconWorker'[i] = "down"
    BY <1>13a, <2>1 DEF LoginLost, PollersTypeOK
  <2>3. \A j \in RConServers \ {i} : /\ conn'[j] = conn[j]
                                    /\ sockets'[j] = sockets[j]
                                    /\ rconWorker'[j] = rconWorker[j]
    BY <1>13a DEF LoginLost, PollersTypeOK
  <2>4. QED
    BY <2>2, <2>3
<1>14. ASSUME NEW i \in RConServers, SendAnswered(i)
      PROVE  OneConnection'
  BY <1>14 DEF SendAnswered, Sending, PollersTypeOK, Connection
<1>15. ASSUME NEW i \in RConServers, SendFailed(i)
      PROVE  OneConnection'
  BY <1>15, PollerAssumption DEF SendFailed, CloseAndRetry, SocketsClosed, Sending, PollersTypeOK, Connection
<1>16. ASSUME NEW i \in RConServers, RConSubmit(i)
      PROVE  OneConnection'
  BY <1>16 DEF RConSubmit, PollersTypeOK, Connection
<1>17. ASSUME NEW i \in RConServers, SendLost(i)
      PROVE  OneConnection'
  BY <1>17, PollerAssumption DEF SendLost, CloseAndRetry, SocketsClosed, Sending, Hit, PollersTypeOK, Connection
<1>18. CASE Elsewhere
  BY <1>18 DEF Elsewhere
<1>19. CASE UNCHANGED pollerVars
  BY <1>19 DEF pollerVars
<1> HIDE DEF OneConnection, Sending, network, a2sVars, rconVars, history
<1>20. QED
  BY <1>1, <1>2, <1>3, <1>4, <1>5, <1>6, <1>7, <1>8, <1>9, <1>10, <1>11, <1>12, <1>13, <1>13a, <1>14, <1>15, <1>16, <1>17, <1>18, <1>19
     DEF PollersNext, A2SStep, RConStep

LEMMA ConnectionsCorrect == PollersSpec => [](PollersTypeOK /\ OneConnection)
<1>1. PollersTypeOK /\ OneConnection /\ [PollersNext]_pollerVars
        => (PollersTypeOK /\ OneConnection)'
  BY PollersTypeStep, OneConnectionStep
<1>2. QED
  BY <1>1, ConnectionsInit, PTL DEF PollersSpec

\* Every variable of the workers keeps its type.
THEOREM PollersTypeCorrect == PollersSpec => []PollersTypeOK
BY ConnectionsCorrect, PTL

\* RConSession: however a session is lost and reconnected, at most one
\* connection is open, and a worker that sends has it.
THEOREM OneConnectionCorrect == PollersSpec => []OneConnection
BY ConnectionsCorrect, PTL

-----------------------------------------------------------------------------
(* Faults.  A poll that has had a look at its connection remembers what    *)
(* hit it: one thing that explains a first failure, two that explain the   *)
(* second, or a lost login before there was a session.                     *)

Polls(i) == rconWorker[i] \in {"connect", "send", "reconnect", "resend"}

Explained(i) ==
    /\ Polls(i) /\ ~reachable[i] => hits[i] = 2
    /\ rconWorker[i] = "send" /\ ~conn[i].works => hits[i] >= 1
    /\ rconWorker[i] \in {"reconnect", "resend"} => hits[i] >= 1
    /\ rconWorker[i] = "resend" /\ ~conn[i].works => hits[i] = 2
    /\ rconWorker[i] = "down" => hits[i] = 2 \/ refused[i]

FaultsInv == \A i \in RConServers : Explained(i)

LEMMA FaultsInit == ASSUME PollersInit PROVE FaultsInv
BY SetsAssumption DEF PollersInit, FaultsInv, Explained, Polls

LEMMA FaultsStep ==
    ASSUME PollersTypeOK, OneConnection, FaultsInv, [PollersNext]_pollerVars
    PROVE  FaultsInv'
<1> USE DEF FaultsInv, Explained, Polls, network, a2sVars, rconVars, history
<1>1. ASSUME NEW i \in Instances, Outage(i)
      PROVE  FaultsInv'
  BY <1>1, PollerAssumption DEF Outage, SetWorks, PollersTypeOK, OneConnection, Connection, Sending
<1>2. ASSUME NEW i \in Instances, Recover(i)
      PROVE  FaultsInv'
  BY <1>2 DEF Recover
<1>3. ASSUME NEW i \in A2SServers, A2STick(i)
      PROVE  FaultsInv'
  BY <1>3 DEF A2STick
<1>4. ASSUME NEW i \in A2SServers, A2SBegin(i)
      PROVE  FaultsInv'
  BY <1>4 DEF A2SBegin
<1>5. ASSUME NEW i \in A2SServers, A2SQuery(i)
      PROVE  FaultsInv'
  BY <1>5 DEF A2SQuery
<1>6. ASSUME NEW i \in A2SServers, A2SSubmit(i)
      PROVE  FaultsInv'
  BY <1>6 DEF A2SSubmit
<1>7. ASSUME NEW i \in A2SServers, A2SLost(i)
      PROVE  FaultsInv'
  BY <1>7 DEF A2SLost
<1>8. ASSUME NEW i \in RConServers, LoseSession(i)
      PROVE  FaultsInv'
  BY <1>8, PollerAssumption DEF LoseSession, SetWorks, Hit, PollersTypeOK, OneConnection, Connection, Sending
<1>9. ASSUME NEW i \in RConServers, Notice(i)
      PROVE  FaultsInv'
  BY <1>9, PollerAssumption DEF Notice, PollersTypeOK, OneConnection, Connection, Sending
<1>10. ASSUME NEW i \in RConServers, RConTick(i)
      PROVE  FaultsInv'
  BY <1>10 DEF RConTick, PollersTypeOK, OneConnection, Connection, Sending
<1>11. ASSUME NEW i \in RConServers, RConBegin(i)
      PROVE  FaultsInv'
  BY <1>11 DEF RConBegin, PollersTypeOK, OneConnection, Connection, Sending
<1>12. ASSUME NEW i \in RConServers, RConCheck(i)
      PROVE  FaultsInv'
  <2>1. \A j \in RConServers \ {i} : /\ rconWorker'[j] = rconWorker[j]
                                    /\ hits'[j] = hits[j]
                                    /\ refused'[j] = refused[j]
    BY <1>12 DEF RConCheck, PollersTypeOK
  <2>2. /\ rconWorker'[i] = IF conn[i] = None \/ ~conn[i].alive THEN "connect" ELSE "send"
        /\ hits'[i] = IF ~reachable[i] THEN 2
                     ELSE IF conn[i] # None /\ conn[i].alive /\ ~conn[i].works THEN 1
                     ELSE 0
        /\ conn' = conn /\ reachable' = reachable
    BY <1>12 DEF RConCheck, PollersTypeOK
  <2>3. i \in Instances /\ reachable[i] \in BOOLEAN
    BY SetsAssumption DEF PollersTypeOK
  <2>4. CASE ~reachable[i]
    <3>1. hits'[i] = 2
      BY <2>2, <2>4
    <3>2. QED
      BY <2>1, <2>2, <3>1
  <2>5. CASE reachable[i]
    <3>1. rconWorker'[i] = "send" /\ ~conn[i].works => hits'[i] = 1
      BY <2>2, <2>5
    <3>2. QED
      BY <2>1, <2>2, <2>5, <3>1
  <2>6. QED
    BY <2>3, <2>4, <2>5
<1>13. ASSUME NEW i \in RConServers, Connect(i)
      PROVE  FaultsInv'
  BY <1>13, PollerAssumption DEF Connect, SocketsClosed, PollersTypeOK, OneConnection, Connection, Sending
<1>13a. ASSUME NEW i \in RConServers, LoginLost(i)
      PROVE  FaultsInv'
  <2>1. \A j \in RConServers \ {i} : /\ rconWorker'[j] = rconWorker[j]
                                    /\ conn'[j] = conn[j]
                                    /\ hits'[j] = hits[j]
                                    /\ refused'[j] = refused[j]
    BY <1>13a DEF LoginLost, PollersTypeOK
  <2>2. rconWorker'[i] = "down" /\ reachable' = reachable
    BY <1>13a DEF LoginLost, PollersTypeOK
  <2>3. CASE rconWorker[i] = "connect"
    <3>1. refused'[i] = TRUE
      BY <1>13a, <2>3 DEF LoginLost, PollersTypeOK
    <3>2. QED
      BY <2>1, <2>2, <3>1
  <2>4. CASE rconWorker[i] = "reconnect"
    <3>1. hits[i] >= 1 /\ hits[i] \in 0 .. 2
      BY <2>4 DEF PollersTypeOK
    <3>2. hits'[i] = 2
      BY <1>13a, <3>1 DEF LoginLost, Hit, PollersTypeOK
    <3>3. QED
      BY <2>1, <2>2, <3>2
  <2>5. QED
    BY <1>13a, <2>3, <2>4 DEF LoginLost
<1>14. ASSUME NEW i \in RConServers, SendAnswered(i)
      PROVE  FaultsInv'
  BY <1>14 DEF SendAnswered, Sending, PollersTypeOK, OneConnection, Connection, Sending
<1>15. ASSUME NEW i \in RConServers, SendFailed(i)
      PROVE  FaultsInv'
  BY <1>15, PollerAssumption DEF SendFailed, CloseAndRetry, SocketsClosed, Sending, PollersTypeOK, OneConnection, Connection, Sending
<1>16. ASSUME NEW i \in RConServers, RConSubmit(i)
      PROVE  FaultsInv'
  BY <1>16 DEF RConSubmit, PollersTypeOK, OneConnection, Connection, Sending
<1>17. ASSUME NEW i \in RConServers, SendLost(i)
      PROVE  FaultsInv'
  BY <1>17, PollerAssumption DEF SendLost, CloseAndRetry, SocketsClosed, Sending, Hit, PollersTypeOK, OneConnection, Connection, Sending
<1>18. CASE Elsewhere
  BY <1>18 DEF Elsewhere
<1>19. CASE UNCHANGED pollerVars
  BY <1>19 DEF pollerVars
<1> HIDE DEF FaultsInv, Explained, Polls, network, a2sVars, rconVars, history
<1>20. QED
  BY <1>1, <1>2, <1>3, <1>4, <1>5, <1>6, <1>7, <1>8, <1>9, <1>10, <1>11, <1>12, <1>13, <1>13a, <1>14, <1>15, <1>16, <1>17, <1>18, <1>19
     DEF PollersNext, A2SStep, RConStep

\* RConSession.Poll: a poll reports the server down only if the server was
\* out of reach during it, two faults hit it, or it began without a session
\* and its login got lost.
THEOREM OneFaultForgivenCorrect == PollersSpec => []OneFaultForgiven
<1>1. PollersTypeOK /\ OneConnection /\ FaultsInv /\ [PollersNext]_pollerVars => FaultsInv'
  BY FaultsStep
<1>2. PollersInit => FaultsInv
  BY FaultsInit
<1>3. FaultsInv => OneFaultForgiven
  BY DEF FaultsInv, Explained, OneFaultForgiven
<1>4. QED
  BY <1>1, <1>2, <1>3, ConnectionsCorrect, PTL DEF PollersSpec
=============================================================================
