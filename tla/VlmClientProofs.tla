--------------------------- MODULE VlmClientProofs ---------------------------
(* Theorems about VlmClient, for any number of threads and asks, any        *)
(* threshold and any recovery window.                                       *)
EXTENDS VlmClient, TLAPS

(* A returned call is a blank one. *)
LEMMA BlankType ==
  ASSUME NEW a \in Answers
  PROVE  Blank(a) \in [pc: Points, ask: Asks, try: 1..2, answer: Answers]
<1>1. (CHOOSE x \in Asks : TRUE) \in Asks
  BY AsksAssumption
<1> QED
  BY <1>1 DEF Blank, Points

(* How the two ways a thread can leave a point keep the type of call. *)
LEMMA CallType ==
  ASSUME TypeOK, NEW t \in Threads
  PROVE  /\ \A p \in Points : Goto(t, p) =>
              call' \in [Threads -> [pc: Points, ask: Asks, try: 1..2, answer: Answers]]
         /\ \A a \in Answers : Returns(t, a) =>
              call' \in [Threads -> [pc: Points, ask: Asks, try: 1..2, answer: Answers]]
<1>1. \A a \in Answers :
        Blank(a) \in [pc: Points, ask: Asks, try: 1..2, answer: Answers]
  BY BlankType
<1> QED
  BY <1>1 DEF TypeOK, Goto, At, Returns, Answers

(* A step of the client keeps the types. *)
LEMMA TypeStep ==
  TypeOK /\ [Next]_vars => TypeOK'
<1> SUFFICES ASSUME TypeOK, [Next]_vars PROVE TypeOK'
  OBVIOUS
<1> USE ThresholdAssumption, WindowAssumption, AsksAssumption
<1>1. CASE UNCHANGED vars
  BY <1>1 DEF TypeOK, vars
<1>2. ASSUME NEW t \in Threads, Ask(t) PROVE TypeOK'
  <2>1. PICK a \in Asks :
          \/ Returns(t, "nothing")
          \/ Returns(t, "value")
          \/ call' = [call EXCEPT ![t] = At("looking", a, 1)]
    BY <1>2 DEF Ask
  <2>2. At("looking", a, 1) \in [pc: Points, ask: Asks, try: 1..2, answer: Answers]
    BY DEF At, Points, Answers
  <2>3. \A b \in Answers : Returns(t, b) =>
          call' \in [Threads -> [pc: Points, ask: Asks, try: 1..2, answer: Answers]]
    BY CallType
  <2>4. call' \in [Threads -> [pc: Points, ask: Asks, try: 1..2, answer: Answers]]
    BY <2>1, <2>2, <2>3 DEF TypeOK, Answers
  <2> QED
    BY <1>2, <2>4 DEF TypeOK, Ask
<1>3. ASSUME NEW t \in Threads, LookAtState(t) PROVE TypeOK'
  BY <1>3, CallType DEF TypeOK, LookAtState, Points
<1>4. ASSUME NEW t \in Threads, LookAtClock(t) PROVE TypeOK'
  BY <1>4, CallType DEF TypeOK, LookAtClock, Breaker, Points, Answers
<1>5. ASSUME NEW t \in Threads, Start(t) PROVE TypeOK'
  BY <1>5, CallType DEF TypeOK, Start, Points, Answers
<1>6. ASSUME NEW t \in Threads, InvokeSucceeds(t) PROVE TypeOK'
  <2>1. call' \in [Threads -> [pc: Points, ask: Asks, try: 1..2, answer: Answers]]
    BY <1>6, CallType DEF InvokeSucceeds, Answers
  <2>2. cached' \subseteq Asks
    BY <1>6 DEF InvokeSucceeds, TypeOK
  <2>3. breaker' \in [state: {"closed", "open", "half_open"}, count: 0..Threshold]
    BY <1>6 DEF InvokeSucceeds, RecordSuccess, Breaker
  <2> QED
    BY <1>6, <2>1, <2>2, <2>3 DEF TypeOK, InvokeSucceeds
<1>7. ASSUME NEW t \in Threads, InvokeFails(t) PROVE TypeOK'
  BY <1>7, CallType DEF TypeOK, InvokeFails, Points, Answers
<1>8. ASSUME NEW t \in Threads, Count(t) PROVE TypeOK'
  <2>1. breaker' \in [state: {"closed", "open", "half_open"}, count: 0..Threshold]
    BY <1>8 DEF Count, CountFailure, Breaker, TypeOK
  <2> QED
    BY <1>8, <2>1, CallType DEF TypeOK, Count, Points
<1>9. ASSUME NEW t \in Threads, Trip(t) PROVE TypeOK'
  <2>1. call' \in [Threads -> [pc: Points, ask: Asks, try: 1..2, answer: Answers]]
    <3>1. CASE call[t].try < Attempts
      <4>1. call[t].try + 1 \in 1..2
        BY <3>1 DEF TypeOK, Attempts
      <4> QED
        BY <1>9, <3>1, <4>1 DEF Trip, At, TypeOK, Points, Answers
    <3>2. CASE ~(call[t].try < Attempts)
      BY <1>9, <3>2, CallType DEF Trip, Answers
    <3> QED
      BY <3>1, <3>2
  <2>2. breaker' \in [state: {"closed", "open", "half_open"}, count: 0..Threshold]
    BY <1>9 DEF Trip, Trips, Breaker, TypeOK
  <2> QED
    BY <1>9, <2>1, <2>2 DEF TypeOK, Trip
<1>10. ASSUME NEW t \in Threads, Backoff(t) PROVE TypeOK'
  BY <1>10, CallType DEF TypeOK, Backoff, Points
<1>11. CASE Tick
  BY <1>11 DEF TypeOK, Tick
<1>12. CASE Weather
  BY <1>12 DEF TypeOK, Weather
<1> QED
  BY <1>1, <1>2, <1>3, <1>4, <1>5, <1>6, <1>7, <1>8, <1>9, <1>10, <1>11, <1>12
  DEF Next, Work

(* The breaker's state, its count, the clients' points and the cache of     *)
(* tokens stay within their types. *)
THEOREM TypeCorrect == Spec => []TypeOK
<1>1. Init => TypeOK
  <2> SUFFICES ASSUME Init PROVE TypeOK
    OBVIOUS
  <2>1. call \in [Threads -> [pc: Points, ask: Asks, try: 1..2, answer: Answers]]
    BY BlankType DEF Init, Answers
  <2>2. client \in [kind: {"bedrock", "paddle"}, enabled: BOOLEAN]
    BY DEF Init
  <2>3. session \in BOOLEAN
    BY DEF Init
  <2>4. breaker \in [state: {"closed", "open", "half_open"}, count: 0..Threshold]
    BY ThresholdAssumption DEF Init
  <2> QED
    BY <2>1, <2>2, <2>3, <2>4, ThresholdAssumption, WindowAssumption DEF Init, TypeOK
<1> QED
  BY <1>1, TypeStep, PTL DEF Spec

(* Each step keeps the state of the breaker and its count in agreement. *)
LEMMA AgreesStep ==
  TypeOK /\ BreakerAgrees /\ [Next]_vars => BreakerAgrees'
<1> SUFFICES ASSUME TypeOK, BreakerAgrees, [Next]_vars PROVE BreakerAgrees'
  OBVIOUS
<1> USE ThresholdAssumption DEF TypeOK, BreakerAgrees
<1>1. CASE UNCHANGED vars
  BY <1>1 DEF vars
(* A thread that was not inside record_failure leaves those that are there. *)
<1>2. ASSUME NEW t \in Threads, call[t].pc # "counted", UNCHANGED breaker,
             \A u \in Threads \ {t} : call'[u] = call[u]
      PROVE  BreakerAgrees'
  BY <1>2
<1>3. ASSUME NEW t \in Threads, Ask(t) PROVE BreakerAgrees'
  <2>1. \A u \in Threads \ {t} : call'[u] = call[u]
    BY <1>3 DEF Ask, Returns
  <2> QED
    BY <1>2, <1>3, <2>1 DEF Ask
<1>4. ASSUME NEW t \in Threads, LookAtState(t) PROVE BreakerAgrees'
  BY <1>2, <1>4 DEF LookAtState, Goto
<1>5. ASSUME NEW t \in Threads, LookAtClock(t) PROVE BreakerAgrees'
  BY <1>2, <1>5 DEF LookAtClock, Breaker, Goto, Returns
<1>6. ASSUME NEW t \in Threads, Start(t) PROVE BreakerAgrees'
  BY <1>2, <1>6 DEF Start, Goto, Returns
<1>7. ASSUME NEW t \in Threads, InvokeSucceeds(t) PROVE BreakerAgrees'
  BY <1>7 DEF InvokeSucceeds, RecordSuccess, Breaker
<1>8. ASSUME NEW t \in Threads, InvokeFails(t) PROVE BreakerAgrees'
  BY <1>2, <1>8 DEF InvokeFails, Goto, Returns
<1>9. ASSUME NEW t \in Threads, Count(t) PROVE BreakerAgrees'
  <2>1. call'[t].pc = "counted"
    BY <1>9 DEF Count, Goto, At
  <2>2. /\ breaker'.state = breaker.state
        /\ breaker.count = Threshold => breaker'.count = Threshold
    BY <1>9 DEF Count, CountFailure, Breaker
  <2> QED
    BY <2>1, <2>2
<1>10. ASSUME NEW t \in Threads, Trip(t) PROVE BreakerAgrees'
  BY <1>10 DEF Trip, Trips, ReachedBy, Breaker
<1>11. ASSUME NEW t \in Threads, Backoff(t) PROVE BreakerAgrees'
  BY <1>2, <1>11 DEF Backoff, Goto
<1>12. CASE Tick
  BY <1>12 DEF Tick
<1>13. CASE Weather
  BY <1>13 DEF Weather
<1> QED
  BY <1>1, <1>3, <1>4, <1>5, <1>6, <1>7, <1>8, <1>9, <1>10, <1>11, <1>12, <1>13
  DEF Next, Work

(* The breaker is open only over Threshold failures in a row and closed     *)
(* over as many only while a thread is inside record_failure, however many  *)
(* threads report to it. *)
THEOREM BreakerNeverForgets == Spec => []BreakerAgrees
<1>1. Init => BreakerAgrees
  BY ThresholdAssumption DEF Init, BreakerAgrees
<1>2. Spec => []TypeOK
  BY TypeCorrect
<1> QED
  BY <1>1, <1>2, AgreesStep, PTL DEF Spec
=============================================================================
