---------------------------- MODULE StatusClient ----------------------------
(***************************************************************************)
(* The web client of the status API (web/metricz.js): a loop of fetches    *)
(* kept going by one timer, paused while the tab is hidden, with an        *)
(* interval that the answers may change.  The code runs on the event loop  *)
(* of a page, so an action is one callback.  The parallel fetches of       *)
(* several servers count as one: Promise.all ends with the first that      *)
(* fails.                                                                  *)
(***************************************************************************)
EXTENDS Naturals

CONSTANTS
    None,
    DefaultInterval,   \* seconds, without an interval in the answer
    LearnedIntervals,  \* intervals that answers tell, in seconds
    MaxInterval        \* bound: the time since the last answer is not told apart beyond it

\* At least one second.
AtLeast(seconds) == IF seconds < 1 THEN 1 ELSE seconds

ClientIntervals == {DefaultInterval} \cup {AtLeast(v) : v \in LearnedIntervals}

ASSUME StatusClientAssumption ==
    /\ DefaultInterval \in Nat \ {0}
    /\ LearnedIntervals \subseteq Nat
    /\ MaxInterval \in Nat
    /\ \A v \in ClientIntervals : v <= MaxInterval
    /\ None \notin Nat \cup {"start", "stop"}

\* The handles setTimeout returns: as many as can matter at a time.
Handles == 1 .. 4

VARIABLES
    timer,            \* the handle kept, or None; it stays when the timer fires
    timeouts,         \* seconds left to each timer of the page that is set
    inFlight,
    aborted,          \* whether the fetch in flight was aborted
    currentInterval,
    elapsed,          \* seconds since the last answer, up to MaxInterval
    isTabActive,
    hidden,           \* whether the page is in fact hidden
    called            \* the last of start() and stop() that was called

page == <<hidden, called>>
clientVars == <<timer, timeouts, inFlight, aborted, currentInterval, elapsed,
                isTabActive, page>>

TimersSet == {h \in Handles : timeouts[h] # None}

-----------------------------------------------------------------------------
(* The page may be hidden when it loads, which the client does not ask.    *)
ClientInit ==
    /\ timer = None
    /\ timeouts = [h \in Handles |-> None]
    /\ inFlight = FALSE
    /\ aborted = FALSE
    /\ currentInterval = DefaultInterval
    /\ elapsed = MaxInterval
    /\ isTabActive = TRUE
    /\ hidden \in BOOLEAN
    /\ called = None

\* clearTimeout(timer).
Cleared == [h \in Handles |-> IF h = timer THEN None ELSE timeouts[h]]

\* BUG: clearTimeout is forgotten.
ScheduleAnother(delay) ==
    \E h \in Handles :
        /\ timeouts[h] = None
        /\ timer' = h
        /\ timeouts' = [timeouts EXCEPT ![h] = delay]

ScheduleNext(delay) ==
    LET handle == CHOOSE h \in Handles : Cleared[h] = None /\ h # timer IN
    /\ timer' = handle
    /\ timeouts' = [Cleared EXCEPT ![handle] = delay]

\* _fetchData up to its first await: nothing if a fetch is in flight.
FetchData == inFlight' = TRUE /\ aborted' = (inFlight /\ aborted)

AbortFetch == aborted' = inFlight /\ UNCHANGED inFlight

Start ==
    /\ called' = "start"
    /\ IF timer = None /\ ~inFlight THEN FetchData ELSE UNCHANGED <<inFlight, aborted>>
    /\ UNCHANGED <<timer, timeouts, currentInterval, elapsed, isTabActive, hidden>>

Stop ==
    /\ called' = "stop"
    /\ timer' = None
    /\ timeouts' = Cleared
    /\ AbortFetch
    /\ UNCHANGED <<currentInterval, elapsed, isTabActive, hidden>>

TimerFires(h) ==
    /\ timeouts[h] = 0
    /\ timeouts' = [timeouts EXCEPT ![h] = None]
    /\ FetchData
    /\ UNCHANGED <<timer, currentInterval, elapsed, isTabActive, page>>

\* BUG: the AbortError returns before the next fetch is scheduled.
FinallyUnlessAborted ==
    /\ inFlight' = FALSE
    /\ aborted' = FALSE
    /\ IF isTabActive /\ ~aborted
       THEN ScheduleNext(currentInterval') ELSE UNCHANGED <<timer, timeouts>>
    /\ UNCHANGED <<isTabActive, page>>

\* The finally block, which runs at every end of a fetch.
Finally ==
    /\ inFlight' = FALSE
    /\ aborted' = FALSE
    /\ IF isTabActive THEN ScheduleNext(currentInterval') ELSE UNCHANGED <<timer, timeouts>>
    /\ UNCHANGED <<isTabActive, page>>

Answer(learned) ==
    /\ inFlight /\ ~aborted
    /\ elapsed' = 0
    /\ currentInterval' = IF learned = None \/ learned = 0 THEN currentInterval
                          ELSE AtLeast(learned)
    /\ Finally

\* An error, or an AbortError.
FetchFails ==
    /\ inFlight
    /\ UNCHANGED <<elapsed, currentInterval>>
    /\ Finally

Hide ==
    /\ ~hidden
    /\ hidden' = TRUE
    /\ isTabActive' = FALSE
    /\ timer' = None
    /\ timeouts' = Cleared
    /\ AbortFetch
    /\ UNCHANGED <<currentInterval, elapsed, called>>

Show ==
    /\ hidden
    /\ hidden' = FALSE
    /\ isTabActive' = TRUE
    /\ IF elapsed >= currentInterval
       THEN FetchData /\ UNCHANGED <<timer, timeouts>>
       ELSE ScheduleNext(currentInterval - elapsed) /\ UNCHANGED <<inFlight, aborted>>
    /\ UNCHANGED <<currentInterval, elapsed, called>>

\* A second passes; a timer that is due may fire late.
Tick ==
    /\ elapsed' = IF elapsed = MaxInterval THEN elapsed ELSE elapsed + 1
    /\ timeouts' = [h \in Handles |->
                      IF timeouts[h] \in {None, 0} THEN timeouts[h] ELSE timeouts[h] - 1]
    /\ UNCHANGED <<timer, inFlight, aborted, currentInterval, isTabActive, page>>

FetchEnds ==
    \/ \E learned \in LearnedIntervals \cup {None} : Answer(learned)
    \/ FetchFails

ClientNext ==
    \/ Start
    \/ Stop
    \/ Hide
    \/ Show
    \/ \E h \in Handles : TimerFires(h)
    \/ FetchEnds
    \/ Tick

ClientSpec == ClientInit /\ [][ClientNext]_clientVars

\* A fetch ends, timers fire and time passes.  Nothing makes the user do
\* anything.
ClientFairSpec ==
    /\ ClientSpec
    /\ WF_clientVars(FetchEnds)
    /\ \A h \in Handles : WF_clientVars(TimerFires(h))
    /\ WF_clientVars(Tick)

-----------------------------------------------------------------------------
\* However start(), stop(), the tab and the answers interleave, the client
\* runs one polling loop, and none behind a tab it knows to be hidden: the
\* only timer of the page that is set is the one it can still clear.  Nor is
\* the loop ever lost: a start() that found one going, and a tab that is shown
\* again, leave a fetch in flight or a timer that will begin one.
OneLoop ==
    /\ TimersSet \subseteq {timer}
    /\ isTabActive = FALSE => TimersSet = {}
    /\ isTabActive /\ called = "start" => inFlight \/ TimersSet # {}

\* Once the tab stays visible and nothing stops the client, it polls on:
\* neither a hide in the middle of a fetch, nor an error, nor a start() that
\* finds a fetch in flight ends the loop.
PollsOn ==
    <>[](isTabActive /\ called = "start") => []<>inFlight /\ []<>~inFlight

\* "Stop polling and abort any in-flight request" (metricz.js:78): after
\* stop(), no fetch begins until start() is called.
StopStops == [][(called = "stop" /\ called' = "stop") => (inFlight' => inFlight)]_clientVars
=============================================================================
