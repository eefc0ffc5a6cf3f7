---------------------------- MODULE AlertEngine ----------------------------
(***************************************************************************)
(* The alert engine of pipeline/alerts/engine.py, the rule endpoints of    *)
(* api/routes/admin_alerts.py, and the circuit-breaker events the engine   *)
(* is told about.                                                          *)
(*                                                                         *)
(* Everything runs on one event loop and only abstention_stats suspends    *)
(* (the notifiers just log), so a pass over the rules is atomic up to the  *)
(* next abstention_rate rule: a request can slip in only while that rule   *)
(* waits for the database.  The measured value of a rule (tokens, or a     *)
(* percentage) is a level compared with its threshold.                     *)
(***************************************************************************)
EXTENDS Naturals, Sequences, FiniteSetsExt

CONSTANTS
  Rules,         \* the rule ids that may exist
  NoRule,        \* stands for "no rule"
  Kind,          \* rule_type of each rule
  Seeds,         \* _ALERT_RULES after _seed_demo_data, in order
  Circuits,      \* the circuit breakers (service and tenant) that report
  Watches,       \* for each rule, the circuits its service_name and tenant match
  Levels,        \* the values a rule may measure
  Thresholds,    \* the thresholds an admin may set
  MaxSwings,     \* bound: changes of a level
  MaxEdits,      \* bound: requests that change a rule
  MaxEvents,     \* bound: circuit-breaker events
  MaxDbErrors    \* bound: abstention queries that raise

RuleTypes == {"budget", "error_rate", "abstention_rate", "circuit_breaker"}

ASSUME AlertAssumption ==
  /\ NoRule \notin Rules
  /\ Kind \in [Rules -> RuleTypes]
  /\ Seeds \in Seq(Rules)
  /\ \A i, j \in DOMAIN Seeds : Seeds[i] = Seeds[j] => i = j
  /\ Watches \in [Rules -> SUBSET Circuits]
  /\ Levels \subseteq Nat /\ Thresholds \subseteq Nat
  /\ {MaxSwings, MaxEdits, MaxEvents, MaxDbErrors} \subseteq Nat

VARIABLES
  rules,         \* the list _ALERT_RULES
  enabled, state, threshold,   \* fields of each rule
  level,         \* what an evaluation of each rule would measure
  history,       \* per rule, its entries of _ALERT_HISTORY: is it resolved?
  next,          \* index the pass reads next; 0 while the engine sleeps
  awaiting,      \* the rule whose query is under way, and the threshold it read
  circuit,       \* is each circuit open
  swings, edits, events, dbErrors   \* how much of each bound is used

ruleVars   == <<rules, enabled, threshold>>
engineVars == <<next, awaiting>>
boundVars  == <<swings, edits, events, dbErrors>>
vars == <<ruleVars, state, history, engineVars, level, circuit, boundVars>>

Listed     == {rules[i] : i \in DOMAIN rules}
Idle       == [rule |-> NoRule, limit |-> 0]

\* The demo rules: the error-rate rule is seeded as firing, with its entry, and
\* the circuit breaker rule as resolved and disabled.
Init ==
  /\ rules = Seeds
  /\ enabled = [r \in Rules |-> Kind[r] # "circuit_breaker"]
  /\ state = [r \in Rules |-> CASE Kind[r] = "error_rate" -> "firing"
                                [] Kind[r] = "circuit_breaker" -> "resolved"
                                [] OTHER -> "idle"]
  /\ history = [r \in Rules |-> IF Kind[r] = "error_rate" THEN <<FALSE>> ELSE <<>>]
  /\ threshold \in [Rules -> Thresholds]
  /\ level \in [Rules -> {Min(Levels)}]
  /\ next = 0 /\ awaiting = Idle
  /\ circuit = [c \in Circuits |-> "closed"]
  /\ swings = 0 /\ edits = 0 /\ events = 0 /\ dbErrors = 0

-----------------------------------------------------------------------------
(***************************************************************************)
(* Evaluating one rule.                                                    *)
(***************************************************************************)

\* A budget is reached, a rate has to be exceeded.
Breached(r, limit) == IF Kind[r] = "budget" THEN level[r] >= limit ELSE level[r] > limit

\* evaluate_budget_rule, evaluate_error_rate_rule, evaluate_abstention_rate_rule.
Evaluated(s, breached) == IF breached THEN "firing"
                          ELSE IF s = "firing" THEN "resolved" ELSE s

\* _emit_notification("resolved"): the most recent open entry is closed.
ResolveLatest(h) == LET open == {i \in DOMAIN h : ~ h[i]}
                    IN IF open = {} THEN h ELSE [h EXCEPT ![Max(open)] = TRUE]

\* Mutant: a rule that fires already is notified again.
RecordedEachTime(h, s, t) == IF t = "firing" THEN Append(h, FALSE)
                             ELSE IF s = "firing" /\ t = "resolved" THEN ResolveLatest(h)
                             ELSE h

\* The history of a rule after it moves from s to t: one entry per firing.
Recorded(h, s, t) == IF s # "firing" /\ t = "firing" THEN Append(h, FALSE)
                     ELSE IF s = "firing" /\ t = "resolved" THEN ResolveLatest(h)
                     ELSE h

\* Mutant: a resolved rule is evaluated in the cycle that makes it idle.
VisitedAtOnce(r) == IF ~ enabled[r] \/ Kind[r] = "circuit_breaker" THEN state[r]
                    ELSE Evaluated(IF state[r] = "resolved" THEN "idle" ELSE state[r],
                                   Breached(r, threshold[r]))

\* What a pass makes of a rule that needs no query.  A resolved rule only
\* becomes idle, and circuit breaker rules are not polled.
Visited(r) == CASE ~ enabled[r] -> state[r]
                [] enabled[r] /\ state[r] = "resolved" -> "idle"
                [] enabled[r] /\ state[r] # "resolved" /\ Kind[r] = "circuit_breaker" -> state[r]
                [] OTHER -> Evaluated(state[r], Breached(r, threshold[r]))

\* The pass suspends at this rule.
Queries(r) == enabled[r] /\ state[r] # "resolved" /\ Kind[r] = "abstention_rate"

-----------------------------------------------------------------------------
(***************************************************************************)
(* The engine's task.                                                      *)
(***************************************************************************)

\* evaluate_all_rules from index i on, up to the next query or to the sleep,
\* after rule w (if any) was evaluated to state s.  Python's list iterator is
\* an index: it does not notice what a deletion moves.
PassFrom(i, w, s) ==
  LET stops == {k \in i..Len(rules) : Queries(rules[k])}
      stop  == IF stops = {} THEN Len(rules) + 1 ELSE Min(stops)
      seen  == {rules[k] : k \in i..(stop - 1)}
      new   == [r \in Rules |-> IF r = w THEN s
                                ELSE IF r \in seen THEN Visited(r) ELSE state[r]]
  IN /\ state' = new
     /\ history' = [r \in Rules |-> Recorded(history[r], state[r], new[r])]
     /\ IF stops = {} THEN next' = 0 /\ awaiting' = Idle
        ELSE /\ next' = stop + 1
             /\ awaiting' = [rule |-> rules[stop], limit |-> threshold[rules[stop]]]

\* The sleep is over: a new pass.
StartPass ==
  /\ next = 0
  /\ PassFrom(1, NoRule, "idle")
  /\ UNCHANGED <<ruleVars, level, circuit, boundVars>>

\* abstention_stats answers: the rule is judged by the threshold read before
\* the await and by the state it is in now, enabled and listed or not.
StatsReturn ==
  LET r == awaiting.rule
  IN /\ r # NoRule
     /\ PassFrom(next, r, Evaluated(state[r], Breached(r, awaiting.limit)))
     /\ UNCHANGED <<ruleVars, level, circuit, boundVars>>

\* Mutant: the error ends the evaluation loop.
StatsRaiseUncaught ==
  /\ awaiting.rule # NoRule
  /\ dbErrors < MaxDbErrors
  /\ dbErrors' = dbErrors + 1
  /\ awaiting' = Idle
  /\ UNCHANGED <<ruleVars, state, history, next, level, circuit, swings, edits, events>>

\* The query raises: the rule is left as it is until the next pass.
StatsRaise ==
  LET r == awaiting.rule
  IN /\ r # NoRule
     /\ dbErrors < MaxDbErrors
     /\ dbErrors' = dbErrors + 1
     /\ PassFrom(next, r, state[r])
     /\ UNCHANGED <<ruleVars, level, circuit, swings, edits, events>>

-----------------------------------------------------------------------------
(***************************************************************************)
(* The requests, the breakers and the world.                               *)
(***************************************************************************)

Edit == /\ edits < MaxEdits
        /\ edits' = edits + 1
        /\ UNCHANGED <<engineVars, level, circuit, swings, events, dbErrors>>

\* Each rule is created with a fresh id.
CreateRule(r, on, limit) ==
  /\ Edit
  /\ r \notin Listed /\ history[r] = <<>> /\ state[r] = "idle" /\ awaiting.rule # r
  /\ rules' = Append(rules, r)
  /\ enabled' = [enabled EXCEPT ![r] = on]
  /\ threshold' = [threshold EXCEPT ![r] = limit]
  /\ UNCHANGED <<state, history>>

\* PUT: a new threshold or the enabled flag; the state is not touched.
UpdateRule(r, on, limit) ==
  /\ Edit
  /\ r \in Listed
  /\ enabled' = [enabled EXCEPT ![r] = on]
  /\ threshold' = [threshold EXCEPT ![r] = limit]
  /\ UNCHANGED <<rules, state, history>>

DeleteRule(r) ==
  /\ Edit
  /\ \E i \in DOMAIN rules :
       /\ rules[i] = r
       /\ rules' = SubSeq(rules, 1, i - 1) \o SubSeq(rules, i + 1, Len(rules))
  /\ UNCHANGED <<enabled, threshold, state, history>>

\* handle_circuit_breaker_event, for closed -> open and for open -> closed.  It
\* asks neither what state the rule is in nor which circuit it fired for.
BreakerEvent(c) ==
  LET opens == circuit[c] = "closed"
      hit   == {r \in Listed : enabled[r] /\ Kind[r] = "circuit_breaker" /\ c \in Watches[r]}
  IN /\ events < MaxEvents
     /\ events' = events + 1
     /\ circuit' = [circuit EXCEPT ![c] = IF opens THEN "open" ELSE "closed"]
     /\ state' = [r \in Rules |-> IF r \notin hit THEN state[r]
                                  ELSE IF opens THEN "firing" ELSE "resolved"]
     /\ history' = [r \in Rules |-> IF r \notin hit THEN history[r]
                                    ELSE IF opens THEN Append(history[r], FALSE)
                                    ELSE ResolveLatest(history[r])]
     /\ UNCHANGED <<ruleVars, engineVars, level, swings, edits, dbErrors>>

\* Usage, failures and abstentions come and go.
Swing(r, v) ==
  /\ swings < MaxSwings
  /\ swings' = swings + 1
  /\ Kind[r] # "circuit_breaker" /\ level[r] # v
  /\ level' = [level EXCEPT ![r] = v]
  /\ UNCHANGED <<ruleVars, state, history, engineVars, circuit, edits, events, dbErrors>>

Next ==
  \/ StartPass
  \/ StatsReturn
  \/ StatsRaise
  \/ \E r \in Rules : \/ \E on \in BOOLEAN, limit \in Thresholds :
                           CreateRule(r, on, limit) \/ UpdateRule(r, on, limit)
                      \/ DeleteRule(r)
                      \/ \E v \in Levels : Swing(r, v)
  \/ \E c \in Circuits : BreakerEvent(c)

\* The engine's task is scheduled and the database answers in the end.
Fairness == WF_vars(StartPass) /\ WF_vars(StatsReturn)

Spec     == Init /\ [][Next]_vars
FairSpec == Spec /\ Fairness

-----------------------------------------------------------------------------
(***************************************************************************)
(* Properties.                                                             *)
(***************************************************************************)

Polled == {r \in Rules : Kind[r] # "circuit_breaker"}

\* A polled rule has an open history entry exactly while it is firing, and
\* never two: each alert is notified once and each recovery finds its alert.
OneOpenEntry == \A r \in Polled :
  LET open == {i \in DOMAIN history[r] : ~ history[r][i]}
  IN IF state[r] = "firing" THEN open = {Len(history[r])} ELSE open = {}

\* The cycle of the module's docstring, for polled rules: idle, firing,
\* resolved, idle.  A resolved rule stays visible until the next pass.
PolledCycle == [][\A r \in Polled :
    <<state[r], state'[r]>> \in {<<"idle", "firing">>, <<"firing", "resolved">>,
                                 <<"resolved", "idle">>}
    \/ state'[r] = state[r]]_vars

\* While requests delete and disable other rules under the running pass and the
\* database fails now and then, a rule whose condition lasts is firing in the
\* end, and one whose condition is over for good is idle again.
StateFollowsCondition == \A r \in Polled :
  /\ <>[](r \in Listed /\ enabled[r] /\ Breached(r, threshold[r])) => <>[](state[r] = "firing")
  /\ <>[](r \in Listed /\ enabled[r] /\ ~ Breached(r, threshold[r])) => <>[](state[r] = "idle")

=============================================================================
