------------------------------ MODULE Pollers -------------------------------
(***************************************************************************)
(* The A2S and RCon workers (internal/poller): one goroutine per server    *)
(* and protocol, each polling on its ticker and filing what it found in    *)
(* the live store, whatever happens to the server and to the network       *)
(* between two of its steps.                                               *)
(***************************************************************************)
EXTENDS Storage

CONSTANT MaxFaults  \* bound: outages, lost sessions, logins and packets

VARIABLES
    reachable,   \* the game server answers (outside the program)
    faults,      \* faults so far (bookkeeping of the bound)
    a2sTick,     \* a tick waits in the channel of the A2S ticker
    a2sWorker,   \* where runA2SWorker is
    rconTick,    \* a tick waits in the channel of the RCon ticker
    rconWorker,  \* where runRConWorker and Poll are
    conn,        \* RConSession.conn
    sockets,     \* RCon connections opened and not closed
    hits,        \* faults that hit the poll in progress, up to 2 (history)
    refused      \* its first login got lost (history)

network == <<reachable, faults>>
a2sVars == <<a2sTick, a2sWorker>>
history == <<hits, refused>>
rconVars == <<rconTick, rconWorker, conn, sockets, history>>
pollerVars == <<vars, network, a2sVars, rconVars>>

\* works: the server still knows this session; alive: what IsAlive returns,
\* which the keepalive finds out late.
Connection == [works : BOOLEAN, alive : BOOLEAN]

ASSUME PollerAssumption == MaxFaults \in Nat /\ None \notin Connection

A2SPlaces == {"wait", "query", "up", "down"}
RConPlaces == {"wait", "check", "connect", "send", "reconnect", "resend", "up", "down"}

-----------------------------------------------------------------------------
\* runRConWorker polls once before its first tick.
PollersInit ==
    /\ Init
    /\ reachable = [i \in Instances |-> TRUE]
    /\ faults = 0
    /\ a2sTick = [i \in A2SServers |-> FALSE]
    /\ a2sWorker = [i \in A2SServers |-> "wait"]
    /\ rconTick = [i \in RConServers |-> FALSE]
    /\ rconWorker = [i \in RConServers |-> "check"]
    /\ conn = [i \in RConServers |-> None]
    /\ sockets = [i \in RConServers |-> 0]
    /\ hits = [i \in RConServers |-> 0]
    /\ refused = [i \in RConServers |-> FALSE]

(* The world.                                                              *)

Hit(i, n) == IF hits[i] + n >= 2 THEN 2 ELSE hits[i] + n

SetWorks(i) == IF i \in RConServers /\ conn[i] # None
               THEN [conn EXCEPT ![i].works = FALSE] ELSE conn

Outage(i) ==
    /\ reachable[i]
    /\ faults < MaxFaults
    /\ reachable' = [reachable EXCEPT ![i] = FALSE]
    /\ faults' = faults + 1
    /\ conn' = SetWorks(i)
    /\ hits' = IF i \in RConServers THEN [hits EXCEPT ![i] = 2] ELSE hits
    /\ UNCHANGED <<vars, a2sVars, rconTick, rconWorker, sockets, refused>>

Recover(i) ==
    /\ ~reachable[i]
    /\ reachable' = [reachable EXCEPT ![i] = TRUE]
    /\ UNCHANGED <<vars, faults, a2sVars, rconVars>>

\* The server drops the session, restarting faster than anyone looks.
LoseSession(i) ==
    /\ conn[i] # None
    /\ conn[i].works
    /\ faults < MaxFaults
    /\ faults' = faults + 1
    /\ conn' = SetWorks(i)
    /\ hits' = [hits EXCEPT ![i] = Hit(i, 1)]
    /\ UNCHANGED <<vars, reachable, a2sVars, rconTick, rconWorker, sockets, refused>>

\* The keepalive of a session that is gone finds out.
Notice(i) ==
    /\ conn[i] # None
    /\ ~conn[i].works
    /\ conn[i].alive
    /\ conn' = [conn EXCEPT ![i].alive = FALSE]
    /\ UNCHANGED <<vars, network, a2sVars, rconTick, rconWorker, sockets, history>>

(* runA2SWorker.                                                           *)

\* A ticker's channel holds one tick; further ones are dropped.
A2STick(i) ==
    /\ ~a2sTick[i]
    /\ a2sTick' = [a2sTick EXCEPT ![i] = TRUE]
    /\ UNCHANGED <<vars, network, a2sWorker, rconVars>>

A2SBegin(i) ==
    /\ a2sWorker[i] = "wait"
    /\ a2sTick[i]
    /\ a2sTick' = [a2sTick EXCEPT ![i] = FALSE]
    /\ a2sWorker' = [a2sWorker EXCEPT ![i] = "query"]
    /\ UNCHANGED <<vars, network, rconVars>>

\* pollA2S has a fresh client for each query.
A2SQuery(i) ==
    /\ a2sWorker[i] = "query"
    /\ a2sWorker' = [a2sWorker EXCEPT ![i] = IF reachable[i] THEN "up" ELSE "down"]
    /\ UNCHANGED <<vars, network, a2sTick, rconVars>>

A2SLost(i) ==
    /\ a2sWorker[i] = "query"
    /\ reachable[i]
    /\ faults < MaxFaults
    /\ faults' = faults + 1
    /\ a2sWorker' = [a2sWorker EXCEPT ![i] = "down"]
    /\ UNCHANGED <<vars, reachable, a2sTick, rconVars>>

\* What setA2SMetrics makes of the answer: of its families only up is kept.
A2SUp(i) == a2sWorker[i] = "up"

\* BUG: a query that fails is not filed.
A2SSubmitUp(i) ==
    /\ a2sWorker[i] \in {"up", "down"}
    /\ IF A2SUp(i) THEN UpdatePolled(i, TRUE) ELSE UNCHANGED vars
    /\ a2sWorker' = [a2sWorker EXCEPT ![i] = "wait"]
    /\ UNCHANGED <<network, a2sTick, rconVars>>

\* A query that failed is filed too: setA2SMetrics(srv, nil) is up = 0.
A2SSubmit(i) ==
    /\ a2sWorker[i] \in {"up", "down"}
    /\ UpdatePolled(i, A2SUp(i))
    /\ a2sWorker' = [a2sWorker EXCEPT ![i] = "wait"]
    /\ UNCHANGED <<network, a2sTick, rconVars>>

(* runRConWorker and RConSession.Poll.                                     *)

RConTick(i) ==
    /\ ~rconTick[i]
    /\ rconTick' = [rconTick EXCEPT ![i] = TRUE]
    /\ UNCHANGED <<vars, network, a2sVars, rconWorker, conn, sockets, history>>

RConBegin(i) ==
    /\ rconWorker[i] = "wait"
    /\ rconTick[i]
    /\ rconTick' = [rconTick EXCEPT ![i] = FALSE]
    /\ rconWorker' = [rconWorker EXCEPT ![i] = "check"]
    /\ UNCHANGED <<vars, network, a2sVars, conn, sockets, history>>

RConCheck(i) ==
    /\ rconWorker[i] = "check"
    /\ rconWorker' = [rconWorker EXCEPT ![i] =
                        IF conn[i] = None \/ ~conn[i].alive THEN "connect" ELSE "send"]
    /\ hits' = [hits EXCEPT ![i] = IF ~reachable[i] THEN 2
                                  ELSE IF /\ conn[i] # None
                                          /\ conn[i].alive
                                          /\ ~conn[i].works THEN 1
                                  ELSE 0]
    /\ refused' = [refused EXCEPT ![i] = FALSE]
    /\ UNCHANGED <<vars, network, a2sVars, rconTick, conn, sockets>>

\* BUG: the old connection is not closed first.
ConnectOver(i) ==
    /\ rconWorker[i] \in {"connect", "reconnect"}
    /\ IF reachable[i]
       THEN /\ conn' = [conn EXCEPT ![i] = [works |-> TRUE, alive |-> TRUE]]
            /\ sockets' = [sockets EXCEPT ![i] = @ + 1]
            /\ rconWorker' = [rconWorker EXCEPT ![i] =
                                IF @ = "connect" THEN "send" ELSE "resend"]
       ELSE /\ conn' = [conn EXCEPT ![i] = None]
            /\ UNCHANGED sockets
            /\ rconWorker' = [rconWorker EXCEPT ![i] = "down"]
    /\ UNCHANGED <<vars, network, a2sVars, rconTick, history>>

\* BUG: a connection already closed is closed again.
SocketsClosedAgain(i) == sockets[i] - 1

\* closeInternal.
SocketsClosed(i) == IF conn[i] = None THEN sockets[i] ELSE sockets[i] - 1

Connect(i) ==
    /\ rconWorker[i] \in {"connect", "reconnect"}
    /\ IF reachable[i]
       THEN /\ conn' = [conn EXCEPT ![i] = [works |-> TRUE, alive |-> TRUE]]
            /\ sockets' = [sockets EXCEPT ![i] = SocketsClosed(i) + 1]
            /\ rconWorker' = [rconWorker EXCEPT ![i] =
                                IF @ = "connect" THEN "send" ELSE "resend"]
       ELSE /\ conn' = [conn EXCEPT ![i] = None]
            /\ sockets' = [sockets EXCEPT ![i] = SocketsClosed(i)]
            /\ rconWorker' = [rconWorker EXCEPT ![i] = "down"]
    /\ UNCHANGED <<vars, network, a2sVars, rconTick, history>>

\* bercon.Open gets no answer from a server that is there: Poll ends, whether
\* it was to be the session of the first command or of the second.
LoginLost(i) ==
    /\ rconWorker[i] \in {"connect", "reconnect"}
    /\ reachable[i]
    /\ faults < MaxFaults
    /\ faults' = faults + 1
    /\ hits' = [hits EXCEPT ![i] = Hit(i, 1)]
    /\ refused' = [refused EXCEPT ![i] = rconWorker[i] = "connect"]
    /\ conn' = [conn EXCEPT ![i] = None]
    /\ sockets' = [sockets EXCEPT ![i] = SocketsClosed(i)]
    /\ rconWorker' = [rconWorker EXCEPT ![i] = "down"]
    /\ UNCHANGED <<vars, reachable, a2sVars, rconTick>>

Sending(i) == rconWorker[i] \in {"send", "resend"}

SendAnswered(i) ==
    /\ Sending(i)
    /\ reachable[i] /\ conn[i].works
    /\ rconWorker' = [rconWorker EXCEPT ![i] = "up"]
    /\ UNCHANGED <<vars, network, a2sVars, rconTick, conn, sockets, history>>

\* BUG: the first failure is final.
CloseNoRetry(i) ==
    /\ conn' = [conn EXCEPT ![i] = None]
    /\ sockets' = [sockets EXCEPT ![i] = SocketsClosed(i)]
    /\ rconWorker' = [rconWorker EXCEPT ![i] = "down"]

\* A command that fails closes the connection; the first one is sent again
\* over a new one.
CloseAndRetry(i) ==
    /\ conn' = [conn EXCEPT ![i] = None]
    /\ sockets' = [sockets EXCEPT ![i] = SocketsClosed(i)]
    /\ rconWorker' = [rconWorker EXCEPT ![i] = IF @ = "send" THEN "reconnect" ELSE "down"]

SendFailed(i) ==
    /\ Sending(i)
    /\ ~(reachable[i] /\ conn[i].works)
    /\ CloseAndRetry(i)
    /\ UNCHANGED <<vars, network, a2sVars, rconTick, history>>

SendLost(i) ==
    /\ Sending(i)
    /\ reachable[i] /\ conn[i].works
    /\ faults < MaxFaults
    /\ faults' = faults + 1
    /\ hits' = [hits EXCEPT ![i] = Hit(i, 1)]
    /\ CloseAndRetry(i)
    /\ UNCHANGED <<vars, reachable, a2sVars, rconTick, refused>>

\* What generateMetrics makes of the players: of its families only up is kept.
RConUp(i) == rconWorker[i] = "up"

RConSubmit(i) ==
    /\ rconWorker[i] \in {"up", "down"}
    /\ UpdateRCon(i, RConUp(i))
    /\ rconWorker' = [rconWorker EXCEPT ![i] = "wait"]
    /\ UNCHANGED <<network, a2sVars, rconTick, conn, sockets, history>>

-----------------------------------------------------------------------------
A2SStep(i) == A2SBegin(i) \/ A2SQuery(i) \/ A2SSubmit(i)
RConStep(i) ==
    \/ RConBegin(i) \/ RConCheck(i) \/ Connect(i)
    \/ SendAnswered(i) \/ SendFailed(i) \/ RConSubmit(i)

\* The rest of the program.
Elsewhere == (Handling \/ Tick) /\ UNCHANGED <<network, a2sVars, rconVars>>

PollersNext ==
    \/ \E i \in Instances : Outage(i) \/ Recover(i)
    \/ \E i \in A2SServers : A2STick(i) \/ A2SStep(i) \/ A2SLost(i)
    \/ \E i \in RConServers :
          \/ LoseSession(i) \/ Notice(i)
          \/ RConTick(i) \/ RConStep(i) \/ LoginLost(i) \/ SendLost(i)
    \/ Elsewhere

PollersSpec == PollersInit /\ [][PollersNext]_pollerVars

\* Tickers fire, and every operation of a worker ends, by its deadline if
\* not by an answer.
PollersFairSpec ==
    /\ PollersSpec
    /\ \A i \in A2SServers : WF_pollerVars(A2STick(i)) /\ WF_pollerVars(A2SStep(i))
    /\ \A i \in RConServers : WF_pollerVars(RConTick(i)) /\ WF_pollerVars(RConStep(i))

-----------------------------------------------------------------------------
PollersTypeOK ==
    /\ TypeOK
    /\ reachable \in [Instances -> BOOLEAN]
    /\ faults \in 0 .. MaxFaults
    /\ a2sTick \in [A2SServers -> BOOLEAN]
    /\ a2sWorker \in [A2SServers -> A2SPlaces]
    /\ rconTick \in [RConServers -> BOOLEAN]
    /\ rconWorker \in [RConServers -> RConPlaces]
    /\ conn \in [RConServers -> Connection \cup {None}]
    /\ sockets \in [RConServers -> Nat]
    /\ hits \in [RConServers -> 0 .. 2]
    /\ refused \in [RConServers -> BOOLEAN]

\* Through every reconnect a session has at most one connection open, the one
\* it holds, so that none is left behind with its keepalive; and a worker has
\* one whenever it sends.
OneConnection ==
    \A i \in RConServers :
        /\ sockets[i] = IF conn[i] = None THEN 0 ELSE 1
        /\ Sending(i) => conn[i] # None

\* One fault is forgiven, but at the first login: a poll reports the server
\* down only if the server was out of reach, two faults hit this poll, or the
\* poll had no session to begin with and could not log in.
OneFaultForgiven ==
    \A i \in RConServers : rconWorker[i] = "down" => hits[i] = 2 \/ refused[i]

\* Once the network settles, what is filed for a server is whether it answers,
\* and stays so: neither a dead connection nor a stopped server leaves an old
\* value behind.
PollsConverge ==
    <>[](\A i \in Instances :
            /\ i \in A2SServers => liveStore[i] # None /\ liveStore[i].Polled = reachable[i]
            /\ i \in RConServers => liveStore[i] # None /\ liveStore[i].RCon = reachable[i])
=============================================================================
