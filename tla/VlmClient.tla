------------------------------ MODULE VlmClient ------------------------------
(***************************************************************************)
(* The two clients that guard a remote model with a circuit breaker:       *)
(* BedrockVLMClient (pipeline/vlm/bedrock_client.py) and PaddleOCRClient   *)
(* (pipeline/extractors/ocr.py).                                           *)
(*                                                                         *)
(* One client serves one run of the pipeline; the windows and pages of the *)
(* document are sent from executor threads (asyncio.to_thread), which      *)
(* share the breaker without a lock. A thread may lose the interpreter     *)
(* where the methods of the breaker call time.time(); the assignments      *)
(* between two such calls are one step.                                    *)
(***************************************************************************)
EXTENDS Naturals, FiniteSets

CONSTANTS
  Threads,    \* executor threads that use the client
  Asks,       \* field names, or page images
  RawAsks,    \* the field names whose answer is passed on unparsed
  Threshold,  \* failure_threshold
  Window      \* recovery_window_seconds, in ticks

ASSUME ThresholdAssumption == Threshold \in Nat \ {0}
ASSUME WindowAssumption == Window \in Nat \ {0}
ASSUME AsksAssumption == Asks # {} /\ RawAsks \subseteq Asks

VARIABLES
  client,   \* [kind |-> which class, enabled |-> vlm_enabled]
  breaker,  \* [state, count]: CircuitBreaker.state, failure_count
  age,      \* ticks since last_failure_time, at most Window
  call,     \* thread -> its call of extract_field or extract_tokens
  cached,   \* images whose tokens are in _cache
  service,  \* how the remote service answers
  session   \* whether boto3 can build a client (profile and credentials)

vars == <<client, breaker, age, call, cached, service, session>>

Points == {"idle", "looking", "timing", "starting", "calling",
           "failed", "counted", "backoff"}

(* What a call returned: a value, nothing (null, unparsable, or abstained   *)
(* because the client is disabled, the circuit open or the retries used     *)
(* up), or an exception. *)
Answers == {"value", "nothing", "raised"}

Bedrock == client.kind = "bedrock"

(* extract_field tries twice, extract_tokens once. *)
Attempts == IF Bedrock THEN 2 ELSE 1

Blank(a) == [pc |-> "idle", ask |-> CHOOSE x \in Asks : TRUE, try |-> 1, answer |-> a]
At(p, a, n) == [pc |-> p, ask |-> a, try |-> n, answer |-> "nothing"]

Init ==
  /\ client \in [kind: {"bedrock"}, enabled: BOOLEAN]
                  \cup [kind: {"paddle"}, enabled: {TRUE}]
  /\ breaker = [state |-> "closed", count |-> 0]
  /\ age = Window
  /\ call = [t \in Threads |-> Blank("nothing")]
  /\ cached = {}
  /\ service \in {"up", "down", "odd"}
  /\ session \in IF Bedrock THEN BOOLEAN ELSE {TRUE}

------------------------------------------------------------------------------
Goto(t, p) == call' = [call EXCEPT ![t] = At(p, @.ask, @.try)]
Returns(t, a) == call' = [call EXCEPT ![t] = Blank(a)]

(* CircuitBreaker.record_success and the two halves of record_failure, cut *)
(* at its call of time.time(). A count beyond the threshold is not told    *)
(* from the threshold: nothing compares it with anything else.             *)
Breaker(s, n) == breaker' = [state |-> s, count |-> n]

RecordSuccess == Breaker("closed", 0)

CountFailure ==
  Breaker(breaker.state, IF breaker.count < Threshold THEN breaker.count + 1 ELSE Threshold)

ReachedOnlyBeyond(b) == b.count > Threshold  \* a mutant of ReachedBy
ReachedBy(b) == b.count >= Threshold

Trips ==
  Breaker(IF ReachedBy(breaker) THEN "open" ELSE breaker.state, breaker.count)

------------------------------------------------------------------------------
(* extract_field and extract_tokens up to the breaker: a disabled tenant    *)
(* and a cached image are answered without it. *)
Ask(t) ==
  /\ call[t].pc = "idle"
  /\ \E a \in Asks :
       IF ~client.enabled THEN Returns(t, "nothing")
       ELSE IF a \in cached THEN Returns(t, "value")
       ELSE call' = [call EXCEPT ![t] = At("looking", a, 1)]
  /\ UNCHANGED <<client, breaker, age, cached, service, session>>

(* is_call_allowed: closed and half_open let every call pass. *)
LookAtState(t) ==
  /\ call[t].pc = "looking"
  /\ Goto(t, IF breaker.state = "open" THEN "timing" ELSE "starting")
  /\ UNCHANGED <<client, breaker, age, cached, service, session>>

LookAtClockOfRefusals(t) ==  \* a mutant of LookAtClock
  /\ call[t].pc = "timing"
  /\ IF age >= Window
       THEN Breaker("half_open", breaker.count) /\ Goto(t, "starting")
            /\ UNCHANGED age
       ELSE Returns(t, "nothing") /\ UNCHANGED breaker /\ age' = 0
  /\ UNCHANGED <<client, cached, service, session>>

(* is_call_allowed, open: the state was read before time.time(), and is     *)
(* overwritten whatever it has become since. *)
LookAtClock(t) ==
  /\ call[t].pc = "timing"
  /\ IF age >= Window
       THEN Breaker("half_open", breaker.count) /\ Goto(t, "starting")
       ELSE Returns(t, "nothing") /\ UNCHANGED breaker
  /\ UNCHANGED <<client, age, cached, service, session>>

(* _invoke_model builds a boto3 client first. When that raises, the except  *)
(* clause of extract_field builds another to name the exception it catches: *)
(* that raises too, and leaves extract_field past record_failure. *)
Start(t) ==
  /\ call[t].pc = "starting"
  /\ IF session THEN Goto(t, "calling") ELSE Returns(t, "raised")
  /\ UNCHANGED <<client, breaker, age, cached, service, session>>

(* A JSON answer that is not an object is an AttributeError when a single   *)
(* value is wanted; a raw answer is passed on as it came. *)
Serves(a) == service = "up" \/ (service = "odd" /\ Bedrock /\ a \in RawAsks)

InvokeSucceeds(t) ==
  /\ call[t].pc = "calling"
  /\ Serves(call[t].ask)
  /\ RecordSuccess
  /\ IF Bedrock
       THEN (\E a \in {"value", "nothing"} : Returns(t, a)) /\ UNCHANGED cached
       ELSE Returns(t, "value") /\ cached' = cached \cup {call[t].ask}
  /\ UNCHANGED <<client, age, service, session>>

InvokeFails(t) ==
  /\ call[t].pc = "calling"
  /\ ~Serves(call[t].ask)
  /\ IF session THEN Goto(t, "failed") ELSE Returns(t, "raised")
  /\ UNCHANGED <<client, breaker, age, cached, service, session>>

(* record_failure, first half. *)
Count(t) ==
  /\ call[t].pc = "failed"
  /\ CountFailure
  /\ Goto(t, "counted")
  /\ UNCHANGED <<client, age, cached, service, session>>

TripAndRetry(t) ==  \* a mutant of Trip
  /\ call[t].pc = "counted"
  /\ age' = 0
  /\ Trips
  /\ Goto(t, "backoff")
  /\ UNCHANGED <<client, cached, service, session>>

(* record_failure, second half; the retry sleeps and does not ask the       *)
(* breaker again, the last attempt abstains. *)
Trip(t) ==
  /\ call[t].pc = "counted"
  /\ age' = 0
  /\ Trips
  /\ IF call[t].try < Attempts
       THEN call' = [call EXCEPT ![t] = At("backoff", @.ask, @.try + 1)]
       ELSE Returns(t, "nothing")
  /\ UNCHANGED <<client, cached, service, session>>

Backoff(t) ==
  /\ call[t].pc = "backoff"
  /\ Goto(t, "starting")
  /\ UNCHANGED <<client, breaker, age, cached, service, session>>

------------------------------------------------------------------------------
Tick ==
  /\ age < Window
  /\ age' = age + 1
  /\ UNCHANGED <<client, breaker, call, cached, service, session>>

(* The outage begins, changes or ends; credentials expire or are renewed. *)
Weather ==
  /\ service' \in {"up", "down", "odd"}
  /\ session' \in IF Bedrock THEN BOOLEAN ELSE {TRUE}
  /\ UNCHANGED <<client, breaker, age, call, cached>>

Work(t) ==
  \/ LookAtState(t) \/ LookAtClock(t) \/ Start(t)
  \/ InvokeSucceeds(t) \/ InvokeFails(t) \/ Count(t) \/ Trip(t) \/ Backoff(t)

Next == (\E t \in Threads : Ask(t) \/ Work(t)) \/ Tick \/ Weather

(* The interpreter runs every thread, a call to the service returns (its    *)
(* timeout at the latest), and time passes. *)
Fairness == (\A t \in Threads : WF_vars(Work(t))) /\ WF_vars(Tick)

Spec == Init /\ [][Next]_vars /\ Fairness

------------------------------------------------------------------------------
TypeOK ==
  /\ client \in [kind: {"bedrock", "paddle"}, enabled: BOOLEAN]
  /\ breaker \in [state: {"closed", "open", "half_open"}, count: 0..Threshold]
  /\ age \in 0..Window
  /\ call \in [Threads -> [pc: Points, ask: Asks, try: 1..2, answer: Answers]]
  /\ cached \subseteq Asks
  /\ service \in {"up", "down", "odd"}
  /\ session \in BOOLEAN

(* The breaker never forgets an outage nor invents one: it is only open     *)
(* over Threshold failures without a success between them, and it is only   *)
(* closed over as many while a thread that counted the last of them is      *)
(* still inside record_failure. *)
BreakerAgrees ==
  /\ breaker.state = "open" => breaker.count = Threshold
  /\ breaker.state = "closed" /\ breaker.count = Threshold
       => \E t \in Threads : call[t].pc = "counted"

(* Every call of extract_field and extract_tokens returns or raises,        *)
(* whatever the service and the other threads do. *)
EveryCallEnds == \A t \in Threads : (call[t].pc # "idle") ~> (call[t].pc = "idle")

(* An outage does not outlive itself: once the service answers for good and *)
(* calls keep reaching the breaker, it closes and stays closed. *)
Recovers ==
  /\ <>[](service = "up" /\ session)
  /\ []<>(\E t \in Threads : call[t].pc = "looking")
  => <>[](breaker.state = "closed")
=============================================================================
