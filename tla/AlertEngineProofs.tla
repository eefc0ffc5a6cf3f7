-------------------------- MODULE AlertEngineProofs --------------------------
(***************************************************************************)
(* OneOpenEntry and PolledCycle of the alert engine, for any rules, any    *)
(* measurements and any number of edits, events and failing queries.       *)
(***************************************************************************)
EXTENDS AlertEngine, SequenceTheorems, WellFoundedInduction, TLAPS

States == {"idle", "firing", "resolved"}
Flags  == BOOLEAN

\* The steps of the documented cycle, and staying put.
Moves(s, t) ==
  <<s, t>> \in {<<"idle", "firing">>, <<"firing", "resolved">>, <<"resolved", "idle">>}
  \/ s = t

\* The open entries of a history, and when it agrees with a rule's state.
Open(h) == {i \in DOMAIN h : ~ h[i]}
Agrees(h, s) == IF s = "firing" THEN Open(h) = {Len(h)} ELSE Open(h) = {}

Types ==
  /\ rules \in Seq(Rules)
  /\ enabled \in [Rules -> BOOLEAN]
  /\ state \in [Rules -> States]
  /\ history \in [Rules -> Seq(Flags)]
  /\ next \in Nat
  /\ awaiting.rule \in Rules \cup {NoRule}

\* No rule is listed twice.
Distinct == \A i, j \in DOMAIN rules : rules[i] = rules[j] => i = j

\* The rule a pass waits for is not resolved, which only a breaker event could
\* have made it, and the rest of the pass does not meet it again, although
\* deletions shift the list under the iterator.
Waiting ==
  LET r == awaiting.rule
  IN r # NoRule =>
       /\ Kind[r] = "abstention_rate" /\ state[r] # "resolved"
       /\ next >= 1
       /\ \A i \in next..Len(rules) : rules[i] # r

IInv == Types /\ Distinct /\ Waiting /\ OneOpenEntry

-----------------------------------------------------------------------------
(***************************************************************************)
(* Histories and single rules.                                             *)
(***************************************************************************)

\* The minimum of a set of natural numbers is one of them.
LEMMA MinIsMember ==
  ASSUME NEW S \in SUBSET Nat, S # {}
  PROVE  Min(S) \in S
<1> DEFINE R == OpToRel(<, Nat)
<1>1. IsWellFoundedOn(R, Nat)
  BY NatLessThanWellFounded
<1>2. \A x, y \in Nat : y < x => <<y, x>> \in R
  BY DEF OpToRel
<1> HIDE DEF R
<1>3. PICK x \in S : \A y \in S : ~ (<<y, x>> \in R)
  BY <1>1, WFMin
<1>4. ASSUME NEW y \in S PROVE x =< y
  <2>1. x \in Nat /\ y \in Nat
    OBVIOUS
  <2>2. ~ (y < x)
    BY <1>2, <1>3, <2>1
  <2> QED
    BY <2>1, <2>2
<1> QED
  BY <1>4 DEF Min

\* Closing the latest entry keeps a history a history.
LEMMA ResolveType ==
  ASSUME NEW h \in Seq(Flags)
  PROVE  ResolveLatest(h) \in Seq(Flags)
<1> DEFINE m == Max({i \in DOMAIN h : ~ h[i]})
<1>1. h \in [1..Len(h) -> Flags] /\ Len(h) \in Nat
  BY LenProperties
<1>2. TRUE \in Flags
  BY DEF Flags
<1>3. [h EXCEPT ![m] = TRUE] \in [1..Len(h) -> Flags]
  <2> HIDE DEF m
  <2> QED
    BY <1>1, <1>2, Zenon
<1>4. [h EXCEPT ![m] = TRUE] \in Seq(Flags)
  BY <1>1, <1>3, SeqDef
<1> QED
  BY <1>4 DEF ResolveLatest

\* Along the cycle, what is recorded agrees with the state it was recorded for.
LEMMA RecordedAgrees ==
  ASSUME NEW h \in Seq(Flags), NEW s \in States, NEW t \in States,
         Moves(s, t), Agrees(h, s)
  PROVE  Agrees(Recorded(h, s, t), t)
<1>1. CASE s # "firing" /\ t = "firing"
  <2>1. Open(h) = {}
    BY <1>1 DEF Agrees
  <2>2. Open(Append(h, FALSE)) = {Len(Append(h, FALSE))}
    BY <2>1 DEF Open
  <2> QED
    BY <1>1, <2>2 DEF Agrees, Recorded
<1>2. CASE s = "firing" /\ t = "resolved"
  <2>1. Open(h) = {Len(h)}
    BY <1>2 DEF Agrees
  <2>2. Max(Open(h)) = Len(h)
    BY <2>1 DEF Max
  <2>3. ResolveLatest(h) = [h EXCEPT ![Len(h)] = TRUE]
    BY <2>1, <2>2 DEF ResolveLatest, Open
  <2>4. Open([h EXCEPT ![Len(h)] = TRUE]) = {}
    BY <2>1 DEF Open
  <2> QED
    BY <1>2, <2>3, <2>4 DEF Agrees, Recorded
<1>3. CASE s = t
  BY <1>3 DEF Recorded, Agrees, States
<1>4. CASE s = "resolved" /\ t = "idle"
  BY <1>4 DEF Recorded, Agrees
<1> QED
  BY <1>1, <1>2, <1>3, <1>4 DEF Moves

LEMMA RecordedType ==
  ASSUME NEW h \in Seq(Flags), NEW s, NEW t
  PROVE  Recorded(h, s, t) \in Seq(Flags)
<1>1. FALSE \in Flags
  BY DEF Flags
<1> QED
  BY <1>1, ResolveType, AppendProperties DEF Recorded

\* Judging a rule that is not resolved moves it along the cycle.
LEMMA EvaluatedMoves ==
  ASSUME NEW s \in States, s # "resolved", NEW b
  PROVE  Evaluated(s, b) \in States /\ Moves(s, Evaluated(s, b))
BY DEF Evaluated, Moves, States

\* So does visiting any rule.
LEMMA VisitedMoves ==
  ASSUME Types, NEW r \in Rules
  PROVE  Visited(r) \in States /\ Moves(state[r], Visited(r))
<1>2. CASE enabled[r] /\ state[r] # "resolved" /\ Kind[r] # "circuit_breaker"
  BY <1>2, EvaluatedMoves DEF Visited, Types
<1>3. CASE enabled[r] /\ state[r] # "resolved" /\ Kind[r] = "circuit_breaker"
  BY <1>3 DEF Visited, Types, Moves
<1>4. CASE enabled[r] /\ state[r] = "resolved"
  BY <1>4 DEF Visited, Types, Moves, States
<1>5. CASE ~ enabled[r]
  BY <1>5 DEF Visited, Types, Moves
<1> QED
  BY <1>2, <1>3, <1>4, <1>5

-----------------------------------------------------------------------------
(***************************************************************************)
(* Passes.                                                                 *)
(***************************************************************************)

\* A stretch of a pass moves every rule along the cycle and leaves the engine
\* waiting for a rule it will not meet again.
LEMMA PassStep ==
  ASSUME Types, Distinct, OneOpenEntry,
         NEW i \in Nat, i >= 1, NEW w, NEW s,
         w \in Rules => s \in States /\ Moves(state[w], s),
         \A k \in i..Len(rules) : rules[k] # w,
         PassFrom(i, w, s), UNCHANGED ruleVars
  PROVE  IInv' /\ \A r \in Rules : Moves(state[r], state'[r])
<1> DEFINE stops == {k \in i..Len(rules) : Queries(rules[k])}
           stop  == IF stops = {} THEN Len(rules) + 1 ELSE Min(stops)
           seen  == {rules[k] : k \in i..(stop - 1)}
           new   == [r \in Rules |-> IF r = w THEN s
                                     ELSE IF r \in seen THEN Visited(r) ELSE state[r]]
<1>1. /\ state' = new
      /\ history' = [r \in Rules |-> Recorded(history[r], state[r], new[r])]
      /\ IF stops = {} THEN next' = 0 /\ awaiting' = Idle
         ELSE /\ next' = stop + 1
              /\ awaiting' = [rule |-> rules[stop], limit |-> threshold[rules[stop]]]
  BY DEF PassFrom
<1>2. Len(rules) \in Nat /\ \A k \in 1..Len(rules) : rules[k] \in Rules
  BY DEF Types
<1>3. stops # {} => stop \in i..Len(rules) /\ Queries(rules[stop])
  <2> SUFFICES ASSUME stops # {} PROVE Min(stops) \in stops
    OBVIOUS
  <2>1. stops \in SUBSET Nat
    BY <1>2
  <2> HIDE DEF stops
  <2> QED
    BY <2>1, MinIsMember
<1> HIDE DEF stops, stop
<1>4. ASSUME NEW r \in Rules
      PROVE  new[r] \in States /\ Moves(state[r], new[r])
  <2>1. CASE r = w
    BY <2>1
  <2>2. CASE r # w /\ r \in seen
    <3>1. new[r] = Visited(r)
      BY <2>2
    <3> QED
      BY <3>1, VisitedMoves
  <2>3. CASE r # w /\ r \notin seen
    BY <2>3 DEF Types, Moves
  <2> QED
    BY <2>1, <2>2, <2>3
<1>5. stops # {} => rules[stop] \notin seen
  BY <1>2, <1>3 DEF Distinct, Types
<1>6. stops # {} => new[rules[stop]] = state[rules[stop]]
  BY <1>2, <1>3, <1>5
<1> HIDE DEF new, seen
<1>7. Types'
  <2>1. state' \in [Rules -> States]
    BY <1>1, <1>4 DEF new
  <2>2. history' \in [Rules -> Seq(Flags)]
    BY <1>1, RecordedType DEF Types
  <2>3. next' \in Nat /\ awaiting'.rule \in Rules \cup {NoRule}
    BY <1>1, <1>2, <1>3 DEF Idle
  <2> QED
    BY <2>1, <2>2, <2>3 DEF Types, ruleVars
<1>8. Distinct'
  BY DEF Distinct, ruleVars
<1>9. Waiting'
  <2>1. CASE stops = {}
    BY <1>1, <2>1 DEF Waiting, Idle
  <2>2. CASE stops # {}
    <3>1. Kind[rules[stop]] = "abstention_rate" /\ state[rules[stop]] # "resolved"
      BY <1>3, <2>2 DEF Queries
    <3>2. awaiting'.rule = rules[stop] /\ next' = stop + 1 /\ rules' = rules
      BY <1>1, <2>2 DEF ruleVars
    <3>3. state'[rules[stop]] # "resolved"
      BY <1>1, <1>6, <2>2, <3>1
    <3>4. \A k \in (stop + 1)..Len(rules) : rules[k] # rules[stop]
      BY <1>2, <1>3, <2>2 DEF Distinct, Types
    <3> QED
      BY <1>2, <1>3, <2>2, <3>1, <3>2, <3>3, <3>4 DEF Waiting
  <2> QED
    BY <2>1, <2>2
<1>10. OneOpenEntry'
  <2> SUFFICES ASSUME NEW r \in Polled PROVE Agrees(history'[r], state'[r])
    BY DEF OneOpenEntry, Agrees, Open
  <2>1. r \in Rules /\ Agrees(history[r], state[r])
    BY DEF Polled, OneOpenEntry, Agrees, Open
  <2>2. history[r] \in Seq(Flags) /\ state[r] \in States
    BY <2>1 DEF Types
  <2>3. Agrees(Recorded(history[r], state[r], new[r]), new[r])
    BY <1>4, <2>1, <2>2, RecordedAgrees
  <2> QED
    BY <1>1, <2>1, <2>3
<1> QED
  BY <1>1, <1>4, <1>7, <1>8, <1>9, <1>10 DEF IInv

\* Steps of the engine's task.
EngineStep == StartPass \/ StatsReturn \/ StatsRaise

LEMMA EngineSafe ==
  ASSUME IInv, EngineStep
  PROVE  IInv' /\ \A r \in Rules : Moves(state[r], state'[r])
<1> USE DEF IInv
<1>1. CASE StartPass
  <2>1. NoRule \notin Rules
    BY AlertAssumption
  <2>2. \A k \in 1..Len(rules) : rules[k] # NoRule
    BY <2>1 DEF Types
  <2> QED
    BY <1>1, <2>1, <2>2, PassStep DEF StartPass
<1>2. CASE StatsReturn
  <2> DEFINE r == awaiting.rule
             s == Evaluated(state[r], Breached(r, awaiting.limit))
  <2>1. r \in Rules /\ state[r] # "resolved" /\ next >= 1 /\ next \in Nat
        /\ \A k \in next..Len(rules) : rules[k] # r
    BY <1>2 DEF StatsReturn, Waiting, Types
  <2>2. s \in States /\ Moves(state[r], s)
    BY <2>1, EvaluatedMoves DEF Types
  <2>3. PassFrom(next, r, s) /\ UNCHANGED ruleVars
    BY <1>2 DEF StatsReturn
  <2> HIDE DEF s, r
  <2> QED
    BY <2>1, <2>2, <2>3, PassStep
<1>3. CASE StatsRaise
  <2> DEFINE r == awaiting.rule
  <2>1. r \in Rules /\ next >= 1 /\ next \in Nat
        /\ \A k \in next..Len(rules) : rules[k] # r
    BY <1>3 DEF StatsRaise, Waiting, Types
  <2>2. state[r] \in States /\ Moves(state[r], state[r])
    BY <2>1 DEF Types, Moves
  <2>3. PassFrom(next, r, state[r]) /\ UNCHANGED ruleVars
    BY <1>3 DEF StatsRaise
  <2> HIDE DEF r
  <2> QED
    BY <2>1, <2>2, <2>3, PassStep
<1> QED
  BY <1>1, <1>2, <1>3 DEF EngineStep

-----------------------------------------------------------------------------
(***************************************************************************)
(* Requests, breaker events and the world.                                 *)
(***************************************************************************)

\* A request that leaves states and histories alone and neither lists a rule
\* twice nor moves one to where the iterator has still to come.
LEMMA ListStep ==
  ASSUME IInv, UNCHANGED <<state, history, engineVars>>,
         rules' \in Seq(Rules), enabled' \in [Rules -> BOOLEAN], Distinct', Waiting'
  PROVE  IInv'
BY DEF IInv, Types, OneOpenEntry, engineVars

LEMMA CreateSafe ==
  ASSUME IInv, NEW r \in Rules, NEW on \in BOOLEAN, NEW limit, CreateRule(r, on, limit)
  PROVE  IInv'
<1>1. /\ rules \in Seq(Rules) /\ enabled \in [Rules -> BOOLEAN]
      /\ rules' = Append(rules, r) /\ enabled' = [enabled EXCEPT ![r] = on]
      /\ r \notin Listed /\ awaiting.rule # r
      /\ UNCHANGED <<state, history, engineVars>>
  BY DEF IInv, Types, CreateRule, Edit
<1>2. rules' \in Seq(Rules) /\ enabled' \in [Rules -> BOOLEAN]
  BY <1>1
<1>3. /\ Len(rules) \in Nat /\ Len(rules') = Len(rules) + 1
      /\ rules'[Len(rules) + 1] = r
      /\ \A k \in 1..Len(rules) : rules'[k] = rules[k] /\ rules[k] # r
      /\ DOMAIN rules = 1..Len(rules) /\ DOMAIN rules' = 1..(Len(rules) + 1)
  BY <1>1 DEF Listed
<1>4. Distinct'
  BY <1>3 DEF IInv, Distinct
<1>5. Waiting'
  BY <1>1, <1>3 DEF IInv, Waiting, engineVars, Types
<1> QED
  BY <1>1, <1>2, <1>4, <1>5, ListStep

LEMMA UpdateSafe ==
  ASSUME IInv, NEW r \in Rules, NEW on \in BOOLEAN, NEW limit, UpdateRule(r, on, limit)
  PROVE  IInv'
<1>1. UNCHANGED <<rules, state, history, engineVars>> /\ enabled' = [enabled EXCEPT ![r] = on]
  BY DEF UpdateRule, Edit
<1>2. rules' \in Seq(Rules) /\ enabled' \in [Rules -> BOOLEAN]
  BY <1>1 DEF IInv, Types
<1>3. Distinct' /\ Waiting'
  BY <1>1 DEF IInv, Distinct, Waiting, engineVars
<1> QED
  BY <1>1, <1>2, <1>3, ListStep

\* Each rule that stays is where it was or one place nearer.
LEMMA DeleteSafe ==
  ASSUME IInv, NEW r \in Rules, DeleteRule(r)
  PROVE  IInv'
<1>1. /\ rules \in Seq(Rules) /\ Len(rules) \in Nat /\ DOMAIN rules = 1..Len(rules)
      /\ \A k \in 1..Len(rules) : rules[k] \in Rules
      /\ UNCHANGED <<enabled, state, history, engineVars>>
  BY DEF IInv, Types, DeleteRule, Edit
<1>2. PICK i \in DOMAIN rules :
        rules' = SubSeq(rules, 1, i - 1) \o SubSeq(rules, i + 1, Len(rules))
  BY DEF DeleteRule
<1> DEFINE a == SubSeq(rules, 1, i - 1)
           b == SubSeq(rules, i + 1, Len(rules))
<1>3. i \in Nat /\ 1 <= i /\ i <= Len(rules)
  BY <1>1
<1>4. /\ a \in Seq(Rules) /\ Len(a) = i - 1
      /\ \A k \in 1..(i - 1) : a[k] = rules[k]
  BY <1>1, <1>3, SubSeqProperties
<1>5. /\ b \in Seq(Rules) /\ Len(b) = Len(rules) - i
      /\ \A k \in 1..(Len(rules) - i) : b[k] = rules[k + i]
  BY <1>1, <1>3, SubSeqProperties
<1> HIDE DEF a, b
<1>6. rules' = a \o b
  BY <1>2 DEF a, b
<1>7. /\ rules' \in Seq(Rules) /\ Len(rules') = Len(rules) - 1
      /\ DOMAIN rules' = 1..(Len(rules) - 1)
      /\ \A k \in 1..(Len(rules) - 1) : rules'[k] = IF k < i THEN rules[k] ELSE rules[k + 1]
  <2>1. /\ rules' \in Seq(Rules) /\ Len(rules') = (i - 1) + (Len(rules) - i)
        /\ \A k \in 1..((i - 1) + (Len(rules) - i)) :
             rules'[k] = IF k <= i - 1 THEN a[k] ELSE b[k - (i - 1)]
    BY <1>4, <1>5, <1>6, ConcatProperties
  <2>2. Len(rules') = Len(rules) - 1
    BY <1>1, <1>3, <2>1
  <2>3. ASSUME NEW k \in 1..(Len(rules) - 1)
        PROVE  rules'[k] = IF k < i THEN rules[k] ELSE rules[k + 1]
    <3>1. CASE k < i
      BY <1>1, <1>3, <1>4, <2>1, <3>1
    <3>2. CASE ~ (k < i)
      <4>1. rules'[k] = b[k - (i - 1)] /\ k - (i - 1) \in 1..(Len(rules) - i)
        BY <1>1, <1>3, <2>1, <3>2
      <4>2. b[k - (i - 1)] = rules[(k - (i - 1)) + i]
        BY <1>5, <4>1
      <4>3. (k - (i - 1)) + i = k + 1
        BY <1>3
      <4> QED
        BY <3>2, <4>1, <4>2, <4>3
    <3> QED
      BY <3>1, <3>2
  <2> QED
    BY <2>1, <2>2, <2>3
<1>8. Distinct'
  <2> SUFFICES ASSUME NEW k \in 1..(Len(rules) - 1), NEW l \in 1..(Len(rules) - 1),
                      rules'[k] = rules'[l]
               PROVE  k = l
    BY <1>7 DEF Distinct
  <2> DEFINE was(n) == IF n < i THEN n ELSE n + 1
  <2>1. was(k) \in 1..Len(rules) /\ was(l) \in 1..Len(rules)
    BY <1>1, <1>3
  <2>2. rules'[k] = rules[was(k)] /\ rules'[l] = rules[was(l)]
    <3>1. k < i \/ ~ (k < i)
      OBVIOUS
    <3>2. rules'[k] = IF k < i THEN rules[k] ELSE rules[k + 1]
      BY <1>7
    <3>3. rules'[l] = IF l < i THEN rules[l] ELSE rules[l + 1]
      BY <1>7
    <3> QED
      BY <3>2, <3>3, Zenon
  <2>3. was(k) = was(l)
    <3> HIDE DEF was
    <3> QED
      BY <1>1, <2>1, <2>2, Zenon DEF IInv, Distinct
  <2> QED
    BY <1>3, <2>3
<1>9. Waiting'
  BY <1>1, <1>3, <1>7 DEF IInv, Waiting, Types, engineVars
<1> QED
  BY <1>1, <1>7, <1>8, <1>9, ListStep DEF IInv, Types

\* A breaker event touches the rules no pass judges.
LEMMA EventSafe ==
  ASSUME IInv, NEW c \in Circuits, BreakerEvent(c)
  PROVE  IInv' /\ \A r \in Polled : state'[r] = state[r]
<1> DEFINE opens == circuit[c] = "closed"
           hit   == {r \in Listed : enabled[r] /\ Kind[r] = "circuit_breaker" /\ c \in Watches[r]}
<1>1. /\ state' = [r \in Rules |-> IF r \notin hit THEN state[r]
                                   ELSE IF opens THEN "firing" ELSE "resolved"]
      /\ history' = [r \in Rules |-> IF r \notin hit THEN history[r]
                                     ELSE IF opens THEN Append(history[r], FALSE)
                                     ELSE ResolveLatest(history[r])]
      /\ UNCHANGED <<rules, enabled, engineVars>>
  BY DEF BreakerEvent, ruleVars
<1>2. \A r \in Rules : Kind[r] # "circuit_breaker" => r \notin hit
  OBVIOUS
<1> HIDE DEF hit, opens
<1>3. \A r \in Rules : Kind[r] # "circuit_breaker" =>
        state'[r] = state[r] /\ history'[r] = history[r]
  BY <1>1, <1>2
<1>4. Types'
  <2>1. state' \in [Rules -> States]
    BY <1>1 DEF IInv, Types, States
  <2>2. ASSUME NEW r \in Rules
        PROVE  Append(history[r], FALSE) \in Seq(Flags) /\ ResolveLatest(history[r]) \in Seq(Flags)
    <3>1. history[r] \in Seq(Flags) /\ FALSE \in Flags
      BY DEF IInv, Types, Flags
    <3> QED
      BY <3>1, ResolveType, AppendProperties
  <2>3. history' \in [Rules -> Seq(Flags)]
    BY <1>1, <2>2 DEF IInv, Types
  <2> QED
    BY <1>1, <2>1, <2>3 DEF IInv, Types, engineVars
<1>5. Distinct'
  BY <1>1 DEF IInv, Distinct
<1>6. Waiting'
  BY <1>1, <1>3 DEF IInv, Waiting, Types, engineVars
<1>7. OneOpenEntry'
  BY <1>3 DEF IInv, OneOpenEntry, Polled
<1> QED
  BY <1>3, <1>4, <1>5, <1>6, <1>7 DEF IInv, Polled

LEMMA SwingSafe ==
  ASSUME IInv, NEW r \in Rules, NEW v \in Levels, Swing(r, v)
  PROVE  IInv'
BY DEF Swing, IInv, Types, Distinct, Waiting, OneOpenEntry, ruleVars, engineVars

-----------------------------------------------------------------------------
(***************************************************************************)
(* The theorems.                                                           *)
(***************************************************************************)

\* The entry a rule is seeded with, and none.
LEMMA SeededAgrees ==
  /\ Agrees(<<FALSE>>, "firing")
  /\ \A s : s # "firing" => Agrees(<<>>, s)
<1>1. Open(<<FALSE>>) = {1} /\ Len(<<FALSE>>) = 1
  <2>1. DOMAIN <<FALSE>> = {1} /\ Len(<<FALSE>>) = 1
    OBVIOUS
  <2>2. <<FALSE>>[1] = FALSE
    OBVIOUS
  <2> DEFINE h == <<FALSE>>
  <2> HIDE DEF h
  <2>3. DOMAIN h = {1} /\ h[1] = FALSE
    BY <2>1, <2>2 DEF h
  <2>4. {i \in DOMAIN h : ~ h[i]} = {1}
    BY <2>3, Zenon
  <2> QED
    BY <2>1, <2>4 DEF h, Open
<1>2. Open(<<>>) = {}
  BY DEF Open
<1> QED
  BY <1>1, <1>2, Zenon DEF Agrees

LEMMA InitInv == Init => IInv
<1> SUFFICES ASSUME Init PROVE IInv
  OBVIOUS
<1> USE AlertAssumption DEF Init
<1>1. Types
  <2>1. <<FALSE>> \in Seq(Flags) /\ <<>> \in Seq(Flags)
    BY DEF Flags
  <2>2. history \in [Rules -> Seq(Flags)]
    BY <2>1
  <2>3. state \in [Rules -> States]
    BY DEF States
  <2> QED
    BY <2>2, <2>3 DEF Types, Idle
<1>2. Distinct
  BY DEF Distinct
<1>3. Waiting
  BY DEF Waiting, Idle
<1>4. OneOpenEntry
  <2> SUFFICES ASSUME NEW r \in Polled PROVE Agrees(history[r], state[r])
    BY DEF OneOpenEntry, Agrees, Open
  <2>1. CASE Kind[r] = "error_rate"
    <3>1. r \in Rules
      BY DEF Polled
    <3>2. history[r] = <<FALSE>> /\ state[r] = "firing"
      BY <2>1, <3>1, Zenon
    <3> QED
      BY <3>2, SeededAgrees, Zenon
  <2>2. CASE Kind[r] # "error_rate"
    <3>1. r \in Rules /\ Kind[r] # "circuit_breaker"
      BY DEF Polled
    <3>2. history[r] = <<>>
      BY <2>2, <3>1
    <3>3. state[r] # "firing"
      BY <2>2, <3>1, Zenon
    <3> QED
      BY <3>2, <3>3, SeededAgrees, Zenon
  <2> QED
    BY <2>1, <2>2
<1> QED
  BY <1>1, <1>2, <1>3, <1>4 DEF IInv

\* Only the engine moves the state of a polled rule.
LEMMA Step ==
  ASSUME IInv, [Next]_vars
  PROVE  IInv' /\ \A r \in Polled : Moves(state[r], state'[r])
<1>1. CASE EngineStep
  BY <1>1, EngineSafe DEF Polled
<1>2. ASSUME NEW c \in Circuits, BreakerEvent(c)
      PROVE  IInv' /\ \A r \in Polled : state'[r] = state[r]
  BY <1>2, EventSafe
<1>3. ASSUME NEW r \in Rules,
             \/ \E on \in BOOLEAN, limit \in Thresholds :
                  CreateRule(r, on, limit) \/ UpdateRule(r, on, limit)
             \/ DeleteRule(r)
             \/ \E v \in Levels : Swing(r, v)
      PROVE  IInv' /\ state' = state
  <2>1. state' = state
    BY <1>3 DEF CreateRule, UpdateRule, DeleteRule, Swing
  <2> QED
    BY <1>3, <2>1, CreateSafe, UpdateSafe, DeleteSafe, SwingSafe
<1>4. CASE UNCHANGED vars
  BY <1>4 DEF vars, ruleVars, engineVars, IInv, Types, Distinct, Waiting, OneOpenEntry, Moves
<1> QED
  BY <1>1, <1>2, <1>3, <1>4 DEF Next, EngineStep, Moves

\* A polled rule has an open history entry exactly while it fires, and never
\* two, whatever requests, failing queries and breaker events come between.
THEOREM OneEntryPerFiring == Spec => []OneOpenEntry
<1>1. IInv /\ [Next]_vars => IInv'
  BY Step
<1>2. IInv => OneOpenEntry
  BY DEF IInv
<1> QED
  BY <1>1, <1>2, InitInv, PTL DEF Spec

\* The state of a polled rule follows the documented cycle.
THEOREM CycleIsFollowed == Spec => PolledCycle
<1> DEFINE Cycle ==
      \A r \in Polled :
        <<state[r], state'[r]>> \in {<<"idle", "firing">>, <<"firing", "resolved">>,
                                     <<"resolved", "idle">>}
        \/ state'[r] = state[r]
<1>1. IInv /\ [Next]_vars => IInv'
  BY Step
<1>2. IInv /\ [Next]_vars => [Cycle]_vars
  BY Step DEF Moves
<1> QED
  BY <1>1, <1>2, InitInv, PTL DEF Spec, PolledCycle
=============================================================================
