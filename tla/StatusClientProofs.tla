------------------------- MODULE StatusClientProofs -------------------------
(***************************************************************************)
(* The web client runs one polling loop, for every interval it is set to   *)
(* or told of.                                                             *)
(***************************************************************************)
EXTENDS StatusClient, TLAPS

\* What the variables hold that decide about timers.
ClientTypeOK ==
    /\ timer \in Handles \cup {None}
    /\ timeouts \in [Handles -> Nat \cup {None}]
    /\ currentInterval \in Nat
    /\ elapsed \in Nat
    /\ isTabActive \in BOOLEAN
    /\ inFlight \in BOOLEAN

\* What start() relies on when it finds a handle: it stays when its timer
\* fires, but then a fetch is in flight or another timer set.
HandleMeansLoop == isTabActive /\ timer # None => inFlight \/ TimersSet # {}

ClientInv == ClientTypeOK /\ OneLoop /\ HandleMeansLoop

-----------------------------------------------------------------------------
LEMMA ClearedAll ==
    ASSUME ClientInv
    PROVE  Cleared = [h \in Handles |-> None]
<1>1. \A h \in Handles : h # timer => timeouts[h] = None
  BY DEF ClientInv, OneLoop, HandleMeansLoop, TimersSet
<1>2. QED
  BY <1>1 DEF Cleared

\* clearTimeout leaves nothing set, so what is set next is the only one.
LEMMA ScheduleKeepsOne ==
    ASSUME ClientInv, NEW delay \in Nat, ScheduleNext(delay)
    PROVE  /\ timer' \in Handles
           /\ timeouts' \in [Handles -> Nat \cup {None}]
           /\ TimersSet' = {timer'}
<1> DEFINE handle == CHOOSE h \in Handles : Cleared[h] = None /\ h # timer
<1>1. 1 \in Handles /\ 2 \in Handles
  BY DEF Handles
<1>2. \E h \in Handles : Cleared[h] = None /\ h # timer
  BY <1>1, ClearedAll
<1>3. handle \in Handles
  BY <1>2
<1>4. timer' = handle /\ timeouts' = [Cleared EXCEPT ![handle] = delay]
  BY DEF ScheduleNext
<1> HIDE DEF handle
<1>5. timeouts' = [h \in Handles |-> IF h = handle THEN delay ELSE None]
  BY <1>3, <1>4, ClearedAll
<1>6. QED
  BY <1>3, <1>4, <1>5, StatusClientAssumption DEF TimersSet

LEMMA ClearKeepsNone ==
    ASSUME ClientInv, timer' = None, timeouts' = Cleared
    PROVE  timeouts' \in [Handles -> Nat \cup {None}] /\ TimersSet' = {}
BY ClearedAll DEF TimersSet

LEMMA FinallyKeepsOne ==
    ASSUME ClientInv, Finally, currentInterval' \in Nat, elapsed' \in Nat
    PROVE  ClientInv'
<1>1. CASE isTabActive
  <2>1. ScheduleNext(currentInterval') /\ isTabActive' = isTabActive /\ inFlight' = FALSE
    BY <1>1 DEF Finally
  <2>2. timer' \in Handles /\ timeouts' \in [Handles -> Nat \cup {None}] /\ TimersSet' = {timer'}
    BY <2>1, ScheduleKeepsOne
  <2>3. QED
    BY <1>1, <2>1, <2>2 DEF ClientInv, ClientTypeOK, OneLoop, HandleMeansLoop
<1>2. CASE ~isTabActive
  BY <1>2 DEF Finally, page, ClientInv, ClientTypeOK, OneLoop, HandleMeansLoop, TimersSet
<1>3. QED
  BY <1>1, <1>2

LEMMA ClientInitInv == ASSUME ClientInit PROVE ClientInv
BY StatusClientAssumption
   DEF ClientInit, ClientInv, ClientTypeOK, OneLoop, HandleMeansLoop, TimersSet, Handles

LEMMA ClientNextInv ==
    ASSUME ClientInv, [ClientNext]_clientVars
    PROVE  ClientInv'
<1>1. CASE UNCHANGED clientVars
  BY <1>1 DEF clientVars, page,
     ClientInv, ClientTypeOK, OneLoop, HandleMeansLoop, TimersSet
<1>2. CASE Start
  BY <1>2 DEF Start, FetchData,
     ClientInv, ClientTypeOK, OneLoop, HandleMeansLoop, TimersSet
<1>3. CASE Stop
  BY <1>3, ClearKeepsNone DEF Stop, AbortFetch, ClientInv, ClientTypeOK, OneLoop, HandleMeansLoop
<1>4. CASE Hide
  BY <1>4, ClearKeepsNone DEF Hide, AbortFetch, ClientInv, ClientTypeOK, OneLoop, HandleMeansLoop
<1>5. CASE Show
  <2>1. CASE elapsed >= currentInterval
    BY <1>5, <2>1 DEF Show, FetchData,
       ClientInv, ClientTypeOK, OneLoop, HandleMeansLoop, TimersSet
  <2>2. CASE ~(elapsed >= currentInterval)
    <3>1. currentInterval - elapsed \in Nat
      BY <2>2 DEF ClientInv, ClientTypeOK
    <3>2. ScheduleNext(currentInterval - elapsed)
      BY <1>5, <2>2 DEF Show
    <3>3. timer' \in Handles /\ timeouts' \in [Handles -> Nat \cup {None}] /\ TimersSet' = {timer'}
      BY <3>1, <3>2, ScheduleKeepsOne
    <3>4. QED
      BY <1>5, <2>2, <3>3
         DEF Show, ClientInv, ClientTypeOK, OneLoop, HandleMeansLoop
  <2>3. QED
    BY <2>1, <2>2
<1>6. ASSUME NEW h \in Handles, TimerFires(h)
      PROVE  ClientInv'
  BY <1>6 DEF TimerFires, FetchData, page,
     ClientInv, ClientTypeOK, OneLoop, HandleMeansLoop, TimersSet
<1>7. ASSUME NEW learned \in LearnedIntervals \cup {None}, Answer(learned)
      PROVE  ClientInv'
  <2>1. currentInterval' \in Nat /\ elapsed' \in Nat
    BY <1>7, StatusClientAssumption DEF Answer, AtLeast, ClientInv, ClientTypeOK
  <2>2. QED
    BY <1>7, <2>1, FinallyKeepsOne DEF Answer
<1>8. CASE FetchFails
  <2>1. currentInterval' \in Nat /\ elapsed' \in Nat
    BY <1>8 DEF FetchFails, ClientInv, ClientTypeOK
  <2>2. QED
    BY <1>8, <2>1, FinallyKeepsOne DEF FetchFails
<1>9. CASE Tick
  <2>1. elapsed' \in Nat
    BY <1>9 DEF Tick, ClientInv, ClientTypeOK
  <2>2. /\ timeouts' \in [Handles -> Nat \cup {None}]
        /\ \A h \in Handles : timeouts[h] = None <=> timeouts'[h] = None
    BY <1>9, StatusClientAssumption DEF Tick, ClientInv, ClientTypeOK
  <2>3. TimersSet' = TimersSet
    BY <2>2 DEF TimersSet
  <2>4. QED
    BY <1>9, <2>1, <2>2, <2>3 DEF Tick, page,
       ClientInv, ClientTypeOK, OneLoop, HandleMeansLoop
<1>10. QED
  BY <1>1, <1>2, <1>3, <1>4, <1>5, <1>6, <1>7, <1>8, <1>9 DEF ClientNext, FetchEnds

\* The web client never has two timers set, whichever calls, tab changes,
\* answers and errors come in which order, none behind a tab it knows to be
\* hidden, and in a visible tab that was started always a fetch in flight or
\* one to come.
THEOREM OneLoopCorrect == ClientSpec => []OneLoop
<1>1. ClientInv => OneLoop
  BY DEF ClientInv
<1>2. QED
  BY <1>1, ClientInitInv, ClientNextInv, PTL DEF ClientSpec
=============================================================================
