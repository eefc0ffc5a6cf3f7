---------------------- MODULE ChunkedExtractionProofs ----------------------
(***************************************************************************)
(* The sliding windows cover every page and overlap by what is configured; *)
(* the budget is overrun by no more than the calls under way; no wanted    *)
(* field is forgotten; every line read is merged once.                     *)
(***************************************************************************)
EXTENDS ChunkedExtraction, FiniteSetTheorems, SequenceTheorems, WellFoundedInduction, TLAPS

\* Windows advance.
LEMMA StepType == Step \in Nat \ {0} /\ Step <= WindowSize
BY WindowAssumption DEF Step

-----------------------------------------------------------------------------
(***************************************************************************)
(* Windows.                                                                *)
(***************************************************************************)

\* A page number is a whole number of steps and a rest.
LEMMA Division ==
  ASSUME NEW a \in Nat
  PROVE  \E q \in 0 .. a, r \in Nat : a = q * Step + r /\ r < Step
<1>1. a \div Step \in Int /\ a % Step \in 0 .. Step - 1 /\ a = Step * (a \div Step) + (a % Step)
  BY StepType
<1>2. a \div Step \in 0 .. a
  BY <1>1, StepType
<1>3. a % Step \in Nat /\ a = (a \div Step) * Step + (a % Step) /\ a % Step < Step
  BY <1>1, <1>2, StepType
<1>. QED  BY <1>2, <1>3, Zenon

\* No page is skipped between windows, and no window leaves the document
\* (create_sliding_windows).
THEOREM PagesAreCovered ==
  ASSUME NEW n \in Nat \ {0}
  PROVE  UNION {PagesOf(SlidingWindow(i, n)) : i \in WindowIndices(n)} = 1 .. n
<1>1. ASSUME NEW i \in WindowIndices(n)
      PROVE  PagesOf(SlidingWindow(i, n)) \subseteq 1 .. n
  BY StepType, WindowAssumption DEF WindowIndices, SlidingWindow, PagesOf
<1>2. ASSUME NEW p \in 1 .. n
      PROVE  \E i \in WindowIndices(n) : p \in PagesOf(SlidingWindow(i, n))
  <2>1. PICK q \in 0 .. p - 1, r \in Nat : p - 1 = q * Step + r /\ r < Step
    BY Division
  <2>2. CASE q \in WindowIndices(n)
    BY <2>1, <2>2, StepType, WindowAssumption DEF WindowIndices, SlidingWindow, PagesOf
  <2>3. CASE q \notin WindowIndices(n)
    <3>1. WindowSize < n \/ n <= WindowSize
      BY WindowAssumption
    <3>2. CASE n <= WindowSize
      <4>1. 0 \in WindowIndices(n) /\ 0 * Step = 0
        BY StepType DEF WindowIndices
      <4>2. SlidingWindow(0, n) = [from |-> 1, to |-> n]
        BY <3>2, <4>1, WindowAssumption DEF SlidingWindow
      <4>. QED  BY <4>1, <4>2 DEF PagesOf
    <3>3. CASE WindowSize < n
      \* The last window is the first to reach the last page.
      <4>1. PICK k \in 0 .. n - WindowSize - 1, r2 \in Nat :
              n - WindowSize - 1 = k * Step + r2 /\ r2 < Step
        BY <3>3, Division, WindowAssumption
      <4>2. (k + 1) * Step = k * Step + Step /\ k * Step \in Nat /\ q * Step \in Nat
        BY <2>1, <4>1, StepType
      <4>3. k + 1 \in WindowIndices(n)
        BY <4>1, <4>2, <3>3, StepType, WindowAssumption DEF WindowIndices
      <4>4. n <= (k + 1) * Step + WindowSize
        BY <4>1, <4>2, StepType, WindowAssumption
      <4>5. k + 1 <= q
        <5>1. SUFFICES ASSUME q <= k PROVE FALSE
          BY <2>1, <4>1
        <5>2. q * Step <= k * Step
          BY <5>1, <2>1, <4>1, StepType
        <5>3. q # 0 /\ (q - 1) * Step = q * Step - Step
          BY <2>1, <2>3, StepType DEF WindowIndices
        <5>. QED  BY <5>2, <5>3, <2>1, <2>3, <4>1, <4>2, StepType, WindowAssumption DEF WindowIndices
      <4>6. (k + 1) * Step <= q * Step
        BY <4>5, <2>1, <4>1, StepType
      <4>. QED  BY <4>2, <4>3, <4>4, <4>6, <2>1, StepType, WindowAssumption DEF SlidingWindow, PagesOf
    <3>. QED  BY <3>1, <3>2, <3>3
  <2>. QED  BY <2>2, <2>3
<1>. QED  BY <1>1, <1>2

\* Adjacent windows have exactly the configured number of pages in common
\* (create_sliding_windows).
THEOREM OverlapIsExact ==
  ASSUME NEW n \in Nat \ {0}, Overlap < WindowSize,
         NEW i \in WindowIndices(n), i + 1 \in WindowIndices(n)
  PROVE  LET next == SlidingWindow(i + 1, n)
         IN PagesOf(SlidingWindow(i, n)) \cap PagesOf(next) = next.from .. next.from + Overlap - 1
<1>1. i \in Nat /\ (i + 1) * Step = i * Step + Step /\ i * Step \in Nat /\ Step = WindowSize - Overlap
  BY StepType, WindowAssumption DEF WindowIndices, Step
<1>2. i * Step + WindowSize < n
  BY <1>1, WindowAssumption DEF WindowIndices
<1>. QED  BY <1>1, <1>2, StepType, WindowAssumption DEF SlidingWindow, PagesOf

-----------------------------------------------------------------------------
(***************************************************************************)
(* The budget.                                                             *)
(***************************************************************************)

\* BudgetBound with what it needs to know of the calls.
BudgetInv ==
  /\ consumed \in Nat /\ DOMAIN calls = Indices /\ IsFiniteSet(Calling)
  /\ Limit \in Nat /\ Cardinality(Calling) <= Limit
  /\ BudgetBound

LEMMA BudgetInit == Init => BudgetInv
<1>. SUFFICES ASSUME Init PROVE BudgetInv  OBVIOUS
<1>1. Calling = {} /\ DOMAIN calls = Indices /\ consumed = 0
  BY DEF Init, Calling
<1>2. IsFiniteSet(Calling) /\ Cardinality(Calling) = 0
  BY <1>1, FS_EmptySet
<1>3. Limit \in Nat /\ MaxTokens \in Nat /\ MaxCost \in Nat
  BY ChunkAssumption DEF Limit
<1>4. Limit * MaxCost \in Nat
  BY <1>3
<1>. QED  BY <1>1, <1>2, <1>3, <1>4 DEF BudgetInv, BudgetBound

\* One call fewer leaves room for what it may have cost.
LEMMA OneFewer ==
  ASSUME NEW c \in Nat, NEW k \in Nat \ {0}, NEW cost \in 0 .. MaxCost, MaxCost \in Nat
  PROVE  (c + cost) + (k - 1) * MaxCost <= c + k * MaxCost
<1>1. (k - 1) * MaxCost = k * MaxCost - MaxCost
  OBVIOUS
<1>2. k * MaxCost \in Nat
  OBVIOUS
<1>. QED  BY <1>1, <1>2

\* A call that ends leaves Calling.
LEMMA CallEnds ==
  ASSUME BudgetInv, NEW i \in Indices, calls[i] = "calling", windows' = windows,
         NEW end \in {"answered", "null", "other", "failed"}, calls' = [calls EXCEPT ![i] = end]
  PROVE  /\ DOMAIN calls' = Indices' /\ IsFiniteSet(Calling')
         /\ Cardinality(Calling) \in Nat \ {0}
         /\ Cardinality(Calling') = Cardinality(Calling) - 1
<1>1. Calling' = Calling \ {i} /\ i \in Calling
  BY DEF BudgetInv, Calling, Indices
<1>2. IsFiniteSet(Calling)
  BY DEF BudgetInv
<1>3. Cardinality(Calling') = Cardinality(Calling) - 1 /\ IsFiniteSet(Calling')
  BY <1>1, <1>2, FS_RemoveElement
<1>4. Cardinality(Calling) \in Nat /\ Cardinality(Calling') \in Nat
  BY <1>2, <1>3, FS_CardinalityType
<1>. QED  BY <1>3, <1>4 DEF BudgetInv, Indices

LEMMA BudgetStep == BudgetInv /\ [Next]_vars => BudgetInv'
<1>. SUFFICES ASSUME BudgetInv, [Next]_vars PROVE BudgetInv'  OBVIOUS
<1>0. Cardinality(Calling) \in Nat /\ MaxCost \in Nat /\ MaxTokens \in Nat /\ Limit \in Nat
      /\ consumed \in Nat /\ Limit * MaxCost \in Nat
  <2>1. Cardinality(Calling) \in Nat
    BY FS_CardinalityType DEF BudgetInv
  <2>. QED  BY <2>1, ChunkAssumption DEF BudgetInv
<1>1. ASSUME NEW i \in Indices, Begin(i) PROVE BudgetInv'
  <2>1. job' = job /\ windows' = windows /\ consumed' = consumed /\ Limit' = Limit /\ Indices' = Indices
    BY <1>1 DEF Begin, Limit, Tier, Indices
  <2>2. CASE Spent
    <3>1. calls' = [calls EXCEPT ![i] = "skipped"] /\ calls[i] = "waiting"
      BY <1>1, <2>2 DEF Begin
    <3>2. Calling' = Calling /\ DOMAIN calls' = Indices'
      BY <2>1, <3>1 DEF BudgetInv, Calling
    <3>. QED  BY <2>1, <3>2 DEF BudgetInv, BudgetBound
  <2>3. CASE ~ Spent
    <3>1. calls' = [calls EXCEPT ![i] = "calling"] /\ calls[i] = "waiting" /\ SlotFree
      BY <1>1, <2>3 DEF Begin
    <3>2. Calling' = Calling \cup {i} /\ i \notin Calling /\ DOMAIN calls' = Indices'
      BY <2>1, <3>1 DEF BudgetInv, Calling
    <3>3. IsFiniteSet(Calling') /\ Cardinality(Calling') = Cardinality(Calling) + 1
      BY <3>2, FS_AddElement DEF BudgetInv
    <3>4. Cardinality(Calling') <= Limit /\ Cardinality(Calling') \in Nat
      BY <1>0, <3>1, <3>3 DEF SlotFree
    <3>5. Cardinality(Calling') * MaxCost <= Limit * MaxCost
      BY <1>0, <3>4
    <3>6. job.action = "skip" => consumed <= MaxTokens
      BY <1>0, <2>3 DEF Spent, Exceeded
    <3>7. Cardinality(Calling') * MaxCost \in Nat
      BY <1>0, <3>4
    <3>8. BudgetBound'
      BY <1>0, <2>1, <3>5, <3>6, <3>7 DEF BudgetBound
    <3>. QED  BY <1>0, <2>1, <3>2, <3>3, <3>4, <3>8 DEF BudgetInv
  <2>. QED  BY <2>2, <2>3
<1>2. ASSUME NEW i \in Indices, Returns(i) \/ ReturnsOther(i) PROVE BudgetInv'
  <2>1. job' = job /\ windows' = windows /\ Limit' = Limit /\ calls[i] = "calling"
    BY <1>2 DEF Returns, ReturnsOther, Limit, Tier
  <2>2. PICK cost \in 0 .. MaxCost : consumed' = consumed + cost
    BY <1>2 DEF Returns, ReturnsOther
  <2>3. PICK end \in {"answered", "null", "other"} : calls' = [calls EXCEPT ![i] = end]
    BY <1>2 DEF Returns, ReturnsOther
  <2>4. /\ DOMAIN calls' = Indices' /\ IsFiniteSet(Calling')
        /\ Cardinality(Calling) \in Nat \ {0}
        /\ Cardinality(Calling') = Cardinality(Calling) - 1
    BY <2>1, <2>3, CallEnds
  <2>5. consumed' + Cardinality(Calling') * MaxCost <= consumed + Cardinality(Calling) * MaxCost
    BY <1>0, <2>2, <2>4, OneFewer
  <2>6. Cardinality(Calling') * MaxCost \in Nat /\ Cardinality(Calling) * MaxCost \in Nat
    BY <1>0, <2>4
  <2>7. BudgetBound'
    BY <1>0, <2>1, <2>2, <2>5, <2>6 DEF BudgetInv, BudgetBound
  <2>. QED  BY <1>0, <2>1, <2>2, <2>4, <2>7 DEF BudgetInv
<1>3. ASSUME NEW i \in Indices, Raises(i) PROVE BudgetInv'
  <2>1. /\ job' = job /\ windows' = windows /\ Limit' = Limit /\ calls[i] = "calling"
        /\ consumed' = consumed /\ calls' = [calls EXCEPT ![i] = "failed"]
    BY <1>3 DEF Raises, Limit, Tier
  <2>2. /\ DOMAIN calls' = Indices' /\ IsFiniteSet(Calling')
        /\ Cardinality(Calling) \in Nat \ {0}
        /\ Cardinality(Calling') = Cardinality(Calling) - 1
    BY <2>1, CallEnds
  <2>3. (consumed + 0) + (Cardinality(Calling) - 1) * MaxCost <= consumed + Cardinality(Calling) * MaxCost
    <3>1. 0 \in 0 .. MaxCost
      BY <1>0
    <3>. QED  BY <1>0, <2>2, <3>1, OneFewer
  <2>4. Cardinality(Calling') * MaxCost \in Nat /\ Cardinality(Calling) * MaxCost \in Nat
    BY <1>0, <2>2
  <2>5. BudgetBound'
    BY <1>0, <2>1, <2>2, <2>3, <2>4 DEF BudgetInv, BudgetBound
  <2>. QED  BY <1>0, <2>1, <2>2, <2>5 DEF BudgetInv
<1>4. ASSUME UNCHANGED <<job, windows, calls, consumed>> PROVE BudgetInv'
  <2>1. Limit' = Limit /\ Indices' = Indices /\ Calling' = Calling
    BY <1>4 DEF Limit, Tier, Indices, Calling
  <2>. QED  BY <1>4, <2>1 DEF BudgetInv, BudgetBound
<1>5. CASE Merge
  BY <1>4, <1>5 DEF Merge
<1>6. CASE SingleReturns
  BY <1>4, <1>6 DEF SingleReturns
<1>7. CASE PhasesReturn
  BY <1>4, <1>7 DEF PhasesReturn
<1>8. CASE PhasesRaise
  BY <1>4, <1>8 DEF PhasesRaise
<1>9. CASE MergeRaises
  BY <1>4, <1>9 DEF MergeRaises
<1>10. CASE UNCHANGED vars
  BY <1>4, <1>10 DEF vars
<1>. QED  BY <1>1, <1>2, <1>3, <1>5, <1>6, <1>7, <1>8, <1>9, <1>10 DEF Next

\* Under "skip" the budget is overrun by no more than the calls under way,
\* for any number of windows, slots and any cost of a call.
THEOREM BudgetHolds == Spec => []BudgetBound
<1>1. BudgetInv => BudgetBound
  BY DEF BudgetInv
<1>. QED  BY BudgetInit, BudgetStep, <1>1, PTL DEF Spec

-----------------------------------------------------------------------------
(***************************************************************************)
(* The wanted fields.                                                      *)
(***************************************************************************)

\* Every wanted field has a value or an abstention, null values of the first
\* tier with the budget spent aside.
Accounted == Wanted \subseteq resolved \cup abstained \/ (Spent /\ Tier = "tier1")

\* FieldsKept, and what the two phases start from.
FieldsInv ==
  /\ job \in Sections
  /\ stage = "windows" => ~ job.fits
  /\ stage = "phases" => job.fits \/ (job.tables /\ Accounted)
  /\ FieldsKept

\* Wanted fields are field names; "accounts" is none.
LEMMA WantedAreFields == job \in Sections => Wanted \subseteq Fields
<1>. SUFFICES ASSUME job \in Sections PROVE Wanted \subseteq Fields  OBVIOUS
<1>1. job.wanted \in Seq(Fields)
  BY ChunkAssumption DEF Sections
<1>. QED  BY <1>1 DEF Wanted, ToSet

LEMMA FieldsInit == Init => FieldsInv
<1>. SUFFICES ASSUME Init PROVE FieldsInv  OBVIOUS
<1>1. job \in Sections /\ stage = IF job.fits THEN "phases" ELSE "windows"
  BY DEF Init
<1>. QED  BY <1>1 DEF FieldsInv, FieldsKept, Sections

\* A section that is given up keeps the abstentions it came with.
LEMMA GivingUpKeeps == FieldsInv /\ GivenUp /\ job' = job => FieldsInv'
<1>. SUFFICES ASSUME FieldsInv, GivenUp, job' = job PROVE FieldsInv'  OBVIOUS
<1>1. Wanted' = Wanted /\ stage' = "done" /\ resolved' = {}
      /\ abstained' = (IF job.own THEN Wanted ELSE {})
  BY DEF GivenUp, Wanted
<1>. QED  BY <1>1 DEF FieldsInv, FieldsKept

LEMMA FieldsStep == FieldsInv /\ [Next]_vars => FieldsInv'
<1>. SUFFICES ASSUME FieldsInv, [Next]_vars PROVE FieldsInv'  OBVIOUS
<1>0. Wanted \subseteq Fields /\ "accounts" \notin Wanted
  BY WantedAreFields, ChunkAssumption DEF FieldsInv
<1>1. ASSUME NEW i \in Indices, Begin(i) PROVE FieldsInv'
  BY <1>1 DEF Begin, FieldsInv, FieldsKept
<1>2. ASSUME NEW i \in Indices, Returns(i) PROVE FieldsInv'
  BY <1>2 DEF Returns, FieldsInv, FieldsKept
<1>3. ASSUME NEW i \in Indices, ReturnsOther(i) \/ Raises(i) PROVE FieldsInv'
  <2>1. CASE Tier = "tier1"
    BY <1>3, <2>1, GivingUpKeeps DEF ReturnsOther, Raises
  <2>2. CASE Tier # "tier1"
    BY <1>3, <2>2 DEF ReturnsOther, Raises, FieldsInv, FieldsKept
  <2>. QED  BY <2>1, <2>2
<1>4. CASE Merge
  <2>1. /\ job' = job /\ Wanted' = Wanted /\ Tier' = Tier /\ Spent' = Spent
        /\ resolved' = Wanted \cap MergedFields /\ abstained' = Unresolved
        /\ stage' = (IF job.tables THEN "phases" ELSE "done")
    BY <1>4 DEF Merge, Wanted, Tier, Spent, Exceeded
  <2>2. CASE ~ Spent
    <3>1. abstained' = Wanted \ MergedFields
      BY <2>1, <2>2 DEF Unresolved
    <3>. QED  BY <2>1, <3>1 DEF FieldsInv, FieldsKept, Accounted
  <2>3. CASE Spent /\ Tier = "tier1"
    BY <2>1, <2>3 DEF FieldsInv, FieldsKept, Accounted
  <2>4. CASE Spent /\ Tier # "tier1"
    <3>1. abstained' = Wanted
      BY <2>1, <2>4 DEF Unresolved
    <3>. QED  BY <2>1, <2>4, <3>1 DEF FieldsInv, FieldsKept, Accounted
  <2>. QED  BY <2>2, <2>3, <2>4
<1>5. CASE SingleReturns
  <2>1. job' = job /\ Wanted' = Wanted /\ stage' = "done"
    BY <1>5 DEF SingleReturns, Wanted
  <2>2. PICK some \in BOOLEAN, fs \in SUBSET Fields :
          /\ resolved' = (fs \cap (Wanted \cup Metadata)) \cup Accounts(some)
          /\ abstained' = Wanted \ fs
    BY <1>5 DEF SingleReturns
  <2>3. Accounts(some) \cap Wanted = {}
    BY <1>0 DEF Accounts
  <2>4. resolved' \cap abstained' = {} /\ Wanted \subseteq resolved' \cup abstained'
    BY <2>2, <2>3
  <2>. QED  BY <2>1, <2>4 DEF FieldsInv, FieldsKept
<1>6. CASE PhasesReturn
  <2>1. /\ job' = job /\ Wanted' = Wanted /\ Tier' = Tier /\ Spent' = Spent
        /\ stage' = "done" /\ abstained' = abstained /\ job.tables /\ Accounted
    BY <1>6 DEF PhasesReturn, Wanted, Tier, Spent, Exceeded, FieldsInv
  <2>2. resolved \subseteq resolved'
    BY <1>6 DEF PhasesReturn
  <2>. QED  BY <2>1, <2>2 DEF FieldsInv, FieldsKept, Accounted
<1>7. CASE MergeRaises \/ PhasesRaise
  BY <1>7, GivingUpKeeps DEF MergeRaises, PhasesRaise
<1>8. CASE UNCHANGED vars
  BY <1>8 DEF vars, outputs, FieldsInv, FieldsKept, Accounted, Wanted, Tier, Spent, Exceeded
<1>. QED  BY <1>1, <1>2, <1>3, <1>4, <1>5, <1>6, <1>7, <1>8 DEF Next

\* In the end no wanted field has been forgotten.
THEOREM FieldsAreKept == Spec => []FieldsKept
<1>1. FieldsInv => FieldsKept
  BY DEF FieldsInv
<1>. QED  BY FieldsInit, FieldsStep, <1>1, PTL DEF Spec

-----------------------------------------------------------------------------
(***************************************************************************)
(* Definitions by steps along numbers, and sequences put one behind the    *)
(* other.                                                                  *)
(***************************************************************************)

\* Induction along m..n, for a set of numbers.
LEMMA Upward ==
  ASSUME NEW m \in Nat, NEW n \in Nat, NEW S, m \in S,
         \A k \in (m + 1)..n : k - 1 \in S => k \in S
  PROVE  m..n \subseteq S
<1> DEFINE R == OpToRel(<, Nat)
           M == (m..n) \ S
<1>1. IsWellFoundedOn(R, Nat)
  BY NatLessThanWellFounded
<1>2. \A x, y \in Nat : y < x => <<y, x>> \in R
  BY DEF OpToRel
<1> HIDE DEF R
<1> SUFFICES ASSUME M # {} PROVE FALSE
  OBVIOUS
<1>3. PICK x \in M : \A y \in M : ~ (<<y, x>> \in R)
  <2>1. M \in SUBSET Nat
    OBVIOUS
  <2> HIDE DEF M
  <2> QED
    BY <1>1, <2>1, WFMin
<1>4. x \in (m + 1)..n /\ x - 1 \in m..n /\ x - 1 < x /\ x - 1 \in Nat /\ x \in Nat
  BY <1>3
<1>5. x - 1 \notin M
  BY <1>2, <1>3, <1>4
<1> QED
  BY <1>3, <1>4, <1>5

Walks(f, n, base, step) == f[1] = base /\ \A k \in 2..n : f[k] = step[k][f[k - 1]]

\* A function on 1..n given by its first value and by a step from each value
\* to the next exists.
LEMMA Stepwise ==
  ASSUME NEW n \in Nat \ {0}, NEW X, NEW base \in X, NEW step \in [1..n -> [X -> X]]
  PROVE  \E f \in [1..n -> X] : Walks(f, n, base, step)
<1> DEFINE Good(m, f) == /\ f \in [1..m -> X] /\ f[1] = base
                         /\ \A k \in 2..m : f[k] = step[k][f[k - 1]]
           S == {m \in 1..n : \E f : Good(m, f)}
<1>1. 1 \in S
  <2>1. Good(1, [k \in 1..1 |-> base])
    OBVIOUS
  <2> HIDE DEF Good
  <2> QED  BY <2>1
<1>2. ASSUME NEW m \in 2..n, m - 1 \in S PROVE m \in S
  <2>1. PICK f : Good(m - 1, f)
    BY <1>2
  <2> DEFINE g == [k \in 1..m |-> IF k = m THEN step[m][f[m - 1]] ELSE f[k]]
  <2>2. m - 1 \in 1..(m - 1) /\ m \in 1..n
    OBVIOUS
  <2>3. f[m - 1] \in X
    BY <2>1, <2>2
  <2>4. step[m][f[m - 1]] \in X
    BY <2>2, <2>3
  <2>5. g \in [1..m -> X]
    BY <2>1, <2>4
  <2>6. g[1] = base
    BY <2>1
  <2>7. ASSUME NEW k \in 2..m PROVE g[k] = step[k][g[k - 1]]
    <3>1. g[k - 1] = f[k - 1]
      OBVIOUS
    <3>2. CASE k = m
      <4>1. g[m] = step[m][f[m - 1]]
        OBVIOUS
      <4> HIDE DEF g
      <4> QED  BY <3>1, <3>2, <4>1
    <3>3. CASE k # m
      <4>1. k \in 2..(m - 1)
        BY <3>3
      <4>2. f[k] = step[k][f[k - 1]]
        BY <2>1, <4>1
      <4>3. g[k] = f[k]
        BY <3>3
      <4> HIDE DEF g
      <4> QED  BY <3>1, <4>2, <4>3
    <3> QED  BY <3>2, <3>3
  <2>8. Good(m, g)
    BY <2>5, <2>6, <2>7
  <2> HIDE DEF Good, g
  <2> QED  BY <2>8
<1>3. n \in S
  <2> HIDE DEF S
  <2>1. 1..n \subseteq S
    BY <1>1, <1>2, Upward, 1 + 1 = 2
  <2> QED  BY <2>1
<1> QED  BY <1>3 DEF Walks

\* The partial results of FlattenSeq.
Flattens(f, seqs) ==
  /\ f[1] = seqs[1]
  /\ \A i \in 2..Len(seqs) : f[i] = f[i - 1] \o seqs[i]
  /\ FlattenSeq(seqs) = f[Len(seqs)]

LEMMA FlattenIs ==
  ASSUME NEW S, NEW seqs \in Seq(Seq(S)), seqs # <<>>
  PROVE  \E f \in [1..Len(seqs) -> Seq(S)] : Flattens(f, seqs)
<1> DEFINE n == Len(seqs)
           X == Seq(S)
           step == [k \in 1..n |-> [s \in X |-> s \o seqs[k]]]
<1>1. n \in Nat /\ n >= 1 /\ seqs[1] \in X /\ \A i \in 1..n : seqs[i] \in X
  BY EmptySeq, LenProperties, ElementOfSeq
<1>2. step \in [1..n -> [X -> X]]
  BY <1>1, ConcatProperties
<1>3. PICK f \in [1..n -> X] : Walks(f, n, seqs[1], step)
  <2>1. n \in Nat \ {0} /\ seqs[1] \in X
    BY <1>1
  <2> HIDE DEF n, X, step
  <2> QED  BY <1>2, <2>1, Stepwise
<1>4. f = [i \in 1..n |-> IF i = 1 THEN seqs[i] ELSE f[i - 1] \o seqs[i]]
  <2>1. ASSUME NEW i \in 2..n PROVE f[i] = f[i - 1] \o seqs[i]
    <3>1. i - 1 \in 1..n /\ i \in 1..n
      BY <1>1
    <3>2. f[i - 1] \in X
      BY <3>1
    <3> QED  BY <1>3, <3>1, <3>2 DEF Walks
  <2>2. \A i \in 1..n : i = 1 \/ i \in 2..n
    BY <1>1
  <2> HIDE DEF X, n
  <2> QED  BY <1>3, <2>1, <2>2 DEF Walks
<1> DEFINE g == CHOOSE h : h = [i \in 1..Len(seqs) |->
                                  IF i = 1 THEN seqs[i] ELSE h[i - 1] \o seqs[i]]
<1>5. g = [i \in 1..Len(seqs) |-> IF i = 1 THEN seqs[i] ELSE g[i - 1] \o seqs[i]]
  BY <1>4
<1>6. FlattenSeq(seqs) = g[Len(seqs)]
  BY <1>1 DEF FlattenSeq
<1> HIDE DEF g
<1>7. g[1] = seqs[1] /\ \A i \in 2..n : g[i] = g[i - 1] \o seqs[i] /\ i \in 1..n
  <2>1. 1 \in 1..n
    BY <1>1
  <2>2. ASSUME NEW i \in 2..n PROVE g[i] = g[i - 1] \o seqs[i] /\ i \in 1..n
    <3>1. i \in 1..n /\ i # 1
      BY <1>1
    <3> QED  BY <1>5, <3>1
  <2> QED  BY <1>5, <2>1, <2>2
<1>8. \A i \in 1..n : g[i] \in X
  <2> DEFINE Done == {i \in 1..n : g[i] \in X}
  <2>1. 1 \in Done
    BY <1>1, <1>7
  <2>2. ASSUME NEW k \in 2..n, k - 1 \in Done PROVE k \in Done
    <3>1. g[k] = g[k - 1] \o seqs[k] /\ k \in 1..n
      BY <1>7
    <3>2. g[k - 1] \in X /\ seqs[k] \in X
      BY <1>1, <2>2, <3>1
    <3>3. g[k - 1] \o seqs[k] \in X
      BY <3>2, ConcatProperties
    <3> QED  BY <3>1, <3>3
  <2>3. 1..n \subseteq Done
    <3> HIDE DEF Done
    <3> QED  BY <1>1, <2>1, <2>2, Upward, 1 + 1 = 2
  <2> QED  BY <2>3
<1>9. g \in [1..n -> X]
  BY <1>5, <1>8
<1> QED  BY <1>6, <1>7, <1>9 DEF Flattens

LEMMA FlattenType ==
  ASSUME NEW S, NEW seqs \in Seq(Seq(S))
  PROVE  FlattenSeq(seqs) \in Seq(S)
<1>1. CASE seqs = <<>>
  BY <1>1, EmptySeq DEF FlattenSeq
<1>2. CASE seqs # <<>>
  <2>1. Len(seqs) \in 1..Len(seqs)
    BY <1>2, EmptySeq
  <2>2. PICK f \in [1..Len(seqs) -> Seq(S)] : Flattens(f, seqs)
    BY <1>2, FlattenIs
  <2> QED  BY <2>1, <2>2 DEF Flattens
<1> QED  BY <1>1, <1>2

LEMMA FlattenAppend ==
  ASSUME NEW S, NEW seqs \in Seq(Seq(S)), NEW x \in Seq(S)
  PROVE  FlattenSeq(Append(seqs, x)) = FlattenSeq(seqs) \o x
<1> DEFINE n == Len(seqs)
           all == Append(seqs, x)
<1>1. /\ all \in Seq(Seq(S)) /\ all # <<>> /\ Len(all) = n + 1 /\ n \in Nat
      /\ \A i \in 1..n : all[i] = seqs[i]
      /\ all[n + 1] = x
  BY AppendProperties, LenProperties
<1> HIDE DEF all
<1>2. PICK g \in [1..Len(all) -> Seq(S)] : Flattens(g, all)
  BY <1>1, FlattenIs
<1>3. CASE seqs = <<>>
  <2>1. n = 0 /\ FlattenSeq(seqs) = <<>>
    BY <1>3, EmptySeq DEF FlattenSeq
  <2> QED  BY <1>1, <1>2, <2>1, ConcatEmptySeq DEF all, Flattens
<1>4. CASE seqs # <<>>
  <2>1. PICK f \in [1..n -> Seq(S)] : Flattens(f, seqs)
    BY <1>4, FlattenIs
  <2>2. n >= 1
    BY <1>4, EmptySeq
  <2> DEFINE Same == {i \in 1..n : g[i] = f[i]}
  <2>3. 1 \in Same
    BY <1>1, <1>2, <2>1, <2>2 DEF Flattens
  <2>4. ASSUME NEW k \in 2..n, k - 1 \in Same PROVE k \in Same
    <3>1. k \in 1..n /\ k \in 2..(n + 1)
      BY <1>1
    <3> QED  BY <1>1, <1>2, <2>1, <2>4, <3>1 DEF Flattens
  <2>5. 1..n \subseteq Same
    <3> HIDE DEF Same, n
    <3> QED  BY <1>1, <2>3, <2>4, Upward, 1 + 1 = 2
  <2>6. g[n] = f[n]
    <3>1. n \in 1..n
      BY <1>1, <2>2
    <3>2. n \in Same
      BY <2>5, <3>1
    <3> QED  BY <3>2
  <2>7. g[n + 1] = g[n] \o x
    <3>1. n + 1 \in 2..(n + 1) /\ (n + 1) - 1 = n
      BY <1>1, <2>2
    <3> QED  BY <1>1, <1>2, <3>1 DEF Flattens
  <2> QED  BY <1>1, <1>2, <2>1, <2>6, <2>7 DEF all, Flattens
<1> QED  BY <1>3, <1>4

\* Appending behind a sequence, and behind one put behind another.
LEMMA Appending ==
  ASSUME NEW S, NEW s \in Seq(S), NEW t \in S
  PROVE  /\ Append(s, t) \in Seq(S) /\ Len(s) \in Nat /\ DOMAIN s = 1 .. Len(s)
         /\ DOMAIN Append(s, t) = 1 .. Len(s) + 1
         /\ \A k \in 1 .. Len(s) : Append(s, t)[k] = s[k] /\ s[k] \in S
         /\ Append(s, t)[Len(s) + 1] = t
BY AppendProperties, LenProperties, ElementOfSeq

UpTo(f, k) == FlattenSeq([i \in 1 .. k |-> f[i]])

LEMMA UpToNext ==
  ASSUME NEW S, NEW k \in Nat, NEW f, \A i \in 1 .. k : f[i] \in Seq(S)
  PROVE  /\ UpTo(f, k) \in Seq(S)
         /\ k = 0 => UpTo(f, k) = <<>>
         /\ k > 0 => UpTo(f, k) = UpTo(f, k - 1) \o f[k]
<1> DEFINE first(l) == [i \in 1 .. l |-> f[i]]
<1>1. ASSUME NEW l \in 0 .. k
      PROVE  first(l) \in Seq(Seq(S)) /\ Len(first(l)) = l
  <2>1. first(l) \in [1 .. l -> Seq(S)]
    OBVIOUS
  <2>2. first(l) \in Seq(Seq(S))
    BY <2>1, SeqDef
  <2>3. DOMAIN first(l) = 1 .. l /\ l \in Nat
    OBVIOUS
  <2> HIDE DEF first
  <2> QED  BY <2>2, <2>3, LenProperties
<1>2. UpTo(f, k) \in Seq(S)
  <2> HIDE DEF first
  <2>1. FlattenSeq(first(k)) \in Seq(S)
    BY <1>1, FlattenType
  <2> QED  BY <2>1 DEF UpTo, first
<1>3. ASSUME k = 0 PROVE UpTo(f, k) = <<>>
  <2>1. first(k) = <<>>
    <3> HIDE DEF first
    <3> QED  BY <1>1, <1>3, EmptySeq
  <2> QED  BY <2>1 DEF UpTo, FlattenSeq
<1>4. ASSUME k > 0 PROVE UpTo(f, k) = UpTo(f, k - 1) \o f[k]
  <2>1. k - 1 \in 0 .. k /\ k \in 0 .. k /\ k \in 1 .. k /\ f[k] \in Seq(S)
    BY <1>4
  <2>2. \A i \in 1 .. k - 1 : first(k)[i] = first(k - 1)[i]
    OBVIOUS
  <2>3. first(k)[k] = f[k]
    BY <2>1
  <2>4. first(k) = Append(first(k - 1), f[k])
    <3> DEFINE a == Append(first(k - 1), f[k])
    <3>1. first(k - 1) \in Seq(Seq(S)) /\ Len(first(k - 1)) = k - 1
      BY <1>1, <2>1
    <3>2. /\ a \in Seq(Seq(S)) /\ Len(a) = k
          /\ \A i \in 1 .. k - 1 : a[i] = first(k - 1)[i]
          /\ a[k] = f[k]
      <4> HIDE DEF first
      <4> QED  BY <2>1, <3>1, AppendProperties
    <3>3. first(k) \in Seq(Seq(S)) /\ Len(first(k)) = k
      BY <1>1, <2>1
    <3>4. \A i \in 1 .. k : i \in 1 .. k - 1 \/ i = k
      OBVIOUS
    <3> HIDE DEF a, first
    <3>5. \A i \in 1 .. k : first(k)[i] = a[i]
      BY <2>2, <2>3, <3>2, <3>4
    <3>6. first(k) = a
      BY <3>2, <3>3, <3>5, SeqEqual
    <3> QED  BY <3>6 DEF a
  <2>5. first(k - 1) \in Seq(Seq(S))
    BY <1>1, <2>1
  <2> HIDE DEF first
  <2>6. FlattenSeq(first(k)) = FlattenSeq(first(k - 1)) \o f[k]
    BY <2>1, <2>4, <2>5, FlattenAppend
  <2> QED  BY <2>6 DEF UpTo, first
<1> QED  BY <1>2, <1>3, <1>4

LEMMA UpToBehind ==
  ASSUME NEW S, NEW x \in Seq(S), NEW k \in Nat \ {0}, NEW f, \A i \in 1 .. k : f[i] \in Seq(S)
  PROVE  x \o UpTo(f, k) = (x \o UpTo(f, k - 1)) \o f[k]
<1> DEFINE b == UpTo(f, k - 1)
           c == f[k]
<1>1. UpTo(f, k) = b \o c /\ c \in Seq(S)
  <2>1. k \in Nat /\ k > 0 /\ k \in 1 .. k
    OBVIOUS
  <2>2. UpTo(f, k) = UpTo(f, k - 1) \o f[k]
    BY <2>1, UpToNext
  <2>3. f[k] \in Seq(S)
    BY <2>1
  <2> QED  BY <2>2, <2>3
<1>2. b \in Seq(S)
  <2>1. k - 1 \in Nat /\ \A i \in 1 .. k - 1 : f[i] \in Seq(S)
    OBVIOUS
  <2> QED  BY <2>1, UpToNext
<1> HIDE DEF b, c
<1>3. x \o (b \o c) = (x \o b) \o c
  BY <1>1, <1>2, ConcatAssociative
<1> QED  BY <1>1, <1>3 DEF b, c

LEMMA UpToSame ==
  ASSUME NEW k \in Nat, NEW f, NEW g, \A i \in 1 .. k : f[i] = g[i]
  PROVE  UpTo(f, k) = UpTo(g, k)
<1>1. [i \in 1 .. k |-> f[i]] = [i \in 1 .. k |-> g[i]]
  OBVIOUS
<1> QED  BY <1>1 DEF UpTo

-----------------------------------------------------------------------------
(***************************************************************************)
(* Merging line by line.                                                   *)
(***************************************************************************)

AnyLine == DOMAIN Key

\* The keys a later line is compared with.
Seen(s)   == {Key[s[k]] : k \in {j \in DOMAIN s : s[j] \notin ZeroAmount}}
Unique(s) == NonZero(Deduplicated(s))

LEMMA NonZeroAppend ==
  ASSUME NEW S, NEW s \in Seq(S), NEW t \in S
  PROVE  /\ NonZero(s) \in Seq(S)
         /\ NonZero(Append(s, t)) = NonZero(s) \o (IF t \in ZeroAmount THEN <<>> ELSE <<t>>)
<1> DEFINE n == Len(s)
           Bit(u) == IF u \in ZeroAmount THEN <<>> ELSE <<u>>
           f == [k \in DOMAIN s |-> Bit(s[k])]
           g == [k \in DOMAIN Append(s, t) |-> Bit(Append(s, t)[k])]
<1>1. /\ n \in Nat /\ DOMAIN s = 1 .. n /\ DOMAIN Append(s, t) = 1 .. n + 1
      /\ \A k \in 1 .. n : Append(s, t)[k] = s[k] /\ s[k] \in S
      /\ Append(s, t)[n + 1] = t
  BY Appending
<1>2. \A u \in S : Bit(u) \in Seq(S)
  OBVIOUS
<1>3. NonZero(s) = FlattenSeq(f) /\ NonZero(Append(s, t)) = FlattenSeq(g)
  BY DEF NonZero
<1> HIDE DEF Bit
<1>4. /\ \A i \in 1 .. n : f[i] \in Seq(S) /\ g[i] = f[i]
      /\ g[n + 1] = Bit(t)
      /\ f = [i \in 1 .. n |-> f[i]] /\ g = [i \in 1 .. n + 1 |-> g[i]]
  BY <1>1, <1>2
<1> HIDE DEF f, g, n
<1>5. UpTo(f, n) = FlattenSeq(f) /\ UpTo(g, n + 1) = FlattenSeq(g)
  BY <1>4 DEF UpTo
<1>6. \A i \in 1 .. n + 1 : g[i] \in Seq(S)
  <2>1. \A i \in 1 .. n + 1 : i \in 1 .. n \/ i = n + 1
    BY <1>1
  <2> QED  BY <1>2, <1>4, <2>1
<1>7. UpTo(f, n) \in Seq(S)
  BY <1>1, <1>4, UpToNext
<1>8. UpTo(g, n + 1) = UpTo(g, n) \o g[n + 1]
  <2>1. n + 1 \in Nat /\ n + 1 > 0 /\ (n + 1) - 1 = n
    BY <1>1
  <2> QED  BY <1>6, <2>1, UpToNext
<1>9. UpTo(g, n) = UpTo(f, n)
  BY <1>1, <1>4, UpToSame
<1> QED  BY <1>3, <1>4, <1>5, <1>7, <1>8, <1>9 DEF Bit

LEMMA DeduplicatedAppend ==
  ASSUME NEW S, NEW s \in Seq(S), NEW t \in S
  PROVE  /\ Deduplicated(s) \in Seq(S)
         /\ Deduplicated(Append(s, t)) =
              Deduplicated(s) \o (IF t \in ZeroAmount \/ Key[t] \notin Seen(s) THEN <<t>> ELSE <<>>)
<1> DEFINE n == Len(s)
           all == Append(s, t)
           f == [k \in DOMAIN s |-> IF Kept(s, k) THEN <<s[k]>> ELSE <<>>]
           g == [k \in DOMAIN all |-> IF Kept(all, k) THEN <<all[k]>> ELSE <<>>]
<1>1. /\ n \in Nat /\ DOMAIN s = 1 .. n /\ DOMAIN all = 1 .. n + 1
      /\ \A k \in 1 .. n : all[k] = s[k] /\ s[k] \in S
      /\ all[n + 1] = t
  BY Appending
<1>2. Deduplicated(s) = FlattenSeq(f) /\ Deduplicated(all) = FlattenSeq(g)
  BY DEF Deduplicated
<1> HIDE DEF all
<1>3. ASSUME NEW k \in 1 .. n PROVE Kept(all, k) <=> Kept(s, k)
  <2>1. all[k] = s[k] /\ \A j \in 1 .. k - 1 : all[j] = s[j]
    BY <1>1
  <2> QED  BY <2>1 DEF Kept
<1>4. Kept(all, n + 1) <=> t \in ZeroAmount \/ Key[t] \notin Seen(s)
  <2>1. (n + 1) - 1 = n /\ \A j \in 1 .. n : all[j] = s[j]
    BY <1>1
  <2>2. Kept(all, n + 1) <=>
          t \in ZeroAmount \/ \A j \in 1 .. n : s[j] \in ZeroAmount \/ Key[s[j]] # Key[t]
    BY <1>1, <2>1 DEF Kept
  <2>3. Key[t] \in Seen(s) <=> \E j \in 1 .. n : s[j] \notin ZeroAmount /\ Key[s[j]] = Key[t]
    BY <1>1 DEF Seen
  <2> QED  BY <2>2, <2>3
<1>5. /\ \A i \in 1 .. n : f[i] \in Seq(S) /\ g[i] = f[i]
      /\ g[n + 1] = IF t \in ZeroAmount \/ Key[t] \notin Seen(s) THEN <<t>> ELSE <<>>
      /\ g[n + 1] \in Seq(S)
      /\ f = [i \in 1 .. n |-> f[i]] /\ g = [i \in 1 .. n + 1 |-> g[i]]
  <2>1. ASSUME NEW i \in 1 .. n PROVE f[i] \in Seq(S) /\ g[i] = f[i]
    <3>1. s[i] \in S /\ <<s[i]>> \in Seq(S) /\ <<>> \in Seq(S) /\ i \in 1 .. n + 1
      BY <1>1
    <3> QED  BY <1>1, <1>3, <3>1
  <2>2. n + 1 \in 1 .. n + 1
    BY <1>1
  <2>3. <<t>> \in Seq(S) /\ <<>> \in Seq(S)
    OBVIOUS
  <2>4. g[n + 1] = IF t \in ZeroAmount \/ Key[t] \notin Seen(s) THEN <<t>> ELSE <<>>
    BY <1>1, <1>4, <2>2
  <2> QED  BY <1>1, <2>1, <2>3, <2>4
<1> HIDE DEF f, g, n
<1>6. UpTo(f, n) = FlattenSeq(f) /\ UpTo(g, n + 1) = FlattenSeq(g)
  BY <1>5 DEF UpTo
<1>7. \A i \in 1 .. n + 1 : g[i] \in Seq(S)
  <2>1. \A i \in 1 .. n + 1 : i \in 1 .. n \/ i = n + 1
    BY <1>1
  <2> QED  BY <1>5, <2>1
<1>8. UpTo(f, n) \in Seq(S)
  BY <1>1, <1>5, UpToNext
<1>9. UpTo(g, n + 1) = UpTo(g, n) \o g[n + 1]
  <2>1. n + 1 \in Nat /\ n + 1 > 0 /\ (n + 1) - 1 = n
    BY <1>1
  <2> QED  BY <1>7, <2>1, UpToNext
<1>10. UpTo(g, n) = UpTo(f, n)
  BY <1>1, <1>5, UpToSame
<1> QED  BY <1>2, <1>5, <1>6, <1>8, <1>9, <1>10 DEF all

LEMMA SeenAppend ==
  ASSUME NEW S, NEW s \in Seq(S), NEW t \in S
  PROVE  Seen(Append(s, t)) = Seen(s) \cup (IF t \in ZeroAmount THEN {} ELSE {Key[t]})
<1>1. /\ Len(s) \in Nat /\ DOMAIN s = 1 .. Len(s) /\ DOMAIN Append(s, t) = 1 .. Len(s) + 1
      /\ \A k \in 1 .. Len(s) : Append(s, t)[k] = s[k]
      /\ Append(s, t)[Len(s) + 1] = t
  BY Appending
<1>2. \A k \in 1 .. Len(s) + 1 : k \in 1 .. Len(s) \/ k = Len(s) + 1
  BY <1>1
<1>3. \A k \in 1 .. Len(s) : k \in 1 .. Len(s) + 1
  BY <1>1
<1>4. Len(s) + 1 \in 1 .. Len(s) + 1
  BY <1>1
<1> DEFINE a == Append(s, t)
           m == Len(s) + 1
<1> HIDE DEF a
<1>5. \A x : x \in Seen(a) <=> \E k \in DOMAIN a : a[k] \notin ZeroAmount /\ x = Key[a[k]]
  BY DEF Seen
<1>6. \A x : x \in Seen(s) <=> \E k \in DOMAIN s : s[k] \notin ZeroAmount /\ x = Key[s[k]]
  BY DEF Seen
<1>7. ASSUME NEW x \in Seen(a) PROVE x \in Seen(s) \/ (t \notin ZeroAmount /\ x = Key[t])
  BY <1>1, <1>2, <1>5, <1>6 DEF a
<1>8. ASSUME NEW x \in Seen(s) PROVE x \in Seen(a)
  BY <1>1, <1>3, <1>5, <1>6 DEF a
<1>9. t \notin ZeroAmount => Key[t] \in Seen(a)
  BY <1>1, <1>4, <1>5 DEF a
<1> QED  BY <1>7, <1>8, <1>9 DEF a

\* What one more line does to the merged result.
LEMMA LineOn ==
  ASSUME NEW S, NEW s \in Seq(S), NEW t \in S
  PROVE  /\ Unique(s) \in Seq(S)
         /\ Unique(Append(s, t)) =
              IF t \in ZeroAmount \/ Key[t] \in Seen(s) THEN Unique(s) ELSE Append(Unique(s), t)
<1> DEFINE d == Deduplicated(s)
<1>1. d \in Seq(S)
  BY DeduplicatedAppend
<1>2. /\ NonZero(d) \in Seq(S)
      /\ NonZero(Append(d, t)) = NonZero(d) \o (IF t \in ZeroAmount THEN <<>> ELSE <<t>>)
  BY <1>1, NonZeroAppend
<1>3. NonZero(d) \o <<>> = NonZero(d) /\ NonZero(d) \o <<t>> = Append(NonZero(d), t)
  BY <1>2, ConcatEmptySeq, AppendIsConcat
<1>4. d \o <<>> = d /\ d \o <<t>> = Append(d, t)
  BY <1>1, ConcatEmptySeq, AppendIsConcat
<1>5. Deduplicated(Append(s, t)) =
        d \o (IF t \in ZeroAmount \/ Key[t] \notin Seen(s) THEN <<t>> ELSE <<>>)
  BY DeduplicatedAppend
<1> HIDE DEF d
<1>6. CASE t \in ZeroAmount
  BY <1>2, <1>3, <1>4, <1>5, <1>6 DEF Unique, d
<1>7. CASE t \notin ZeroAmount
  BY <1>2, <1>3, <1>4, <1>5, <1>7 DEF Unique, d
<1> QED  BY <1>6, <1>7

LEMMA NonZeroType ==
  ASSUME NEW S, NEW s \in Seq(S)
  PROVE  NonZero(s) \in Seq(S)
<1>1. CASE s = <<>>
  BY <1>1 DEF NonZero, FlattenSeq
<1>2. CASE s # <<>>
  <2>1. PICK t \in S : TRUE
    BY <1>2, EmptySeq, ElementOfSeq, LenProperties
  <2> QED  BY <2>1, NonZeroAppend
<1> QED  BY <1>1, <1>2

LEMMA UniqueType ==
  ASSUME NEW S, NEW s \in Seq(S)
  PROVE  Unique(s) \in Seq(S)
<1>1. CASE s = <<>>
  BY <1>1 DEF Unique, Deduplicated, NonZero, FlattenSeq
<1>2. CASE s # <<>>
  <2>1. PICK t \in S : TRUE
    BY <1>2, EmptySeq, ElementOfSeq, LenProperties
  <2> QED  BY <2>1, LineOn
<1> QED  BY <1>1, <1>2

-----------------------------------------------------------------------------
(***************************************************************************)
(* Merging page by page.                                                   *)
(***************************************************************************)

\* The lines x merge to those of the pages R of a document of n pages.
KeysOn(R)   == UNION {Seen(Lines[p]) : p \in R}
Pages(R, n) == FlattenSeq([p \in 1 .. n |-> IF p \in R THEN NonZero(Lines[p]) ELSE <<>>])
Merges(x, R, n) ==
  /\ x \in Seq(AnyLine) /\ Seen(x) = KeysOn(R) /\ Unique(x) = Pages(R, n)

\* No line of x is dropped.
Fresh(x) == Unique(x) = NonZero(x)

LEMMA EmptyMerges ==
  ASSUME NEW n \in Nat
  PROVE  Merges(<<>>, {}, n) /\ Fresh(<<>>)
<1>1. Deduplicated(<<>>) = <<>> /\ NonZero(<<>>) = <<>>
  <2>1. \A f : [k \in DOMAIN <<>> |-> f[k]] = <<>>
    OBVIOUS
  <2> QED  BY DEF Deduplicated, NonZero, FlattenSeq
<1>2. Unique(<<>>) = <<>>
  BY <1>1 DEF Unique
<1>3. Pages({}, n) = <<>>
  <2> DEFINE f == [p \in 1 .. n |-> <<>>]
             S == {k \in 0 .. n : UpTo(f, k) = <<>>}
  <2>1. \A k \in 0 .. n : \A i \in 1 .. k : f[i] = <<>> /\ f[i] \in Seq(AnyLine)
    OBVIOUS
  <2> HIDE DEF f
  <2>2. 0 \in S
    <3>1. 0 \in 0 .. n /\ \A i \in 1 .. 0 : f[i] \in Seq(AnyLine)
      OBVIOUS
    <3> QED  BY <3>1, UpToNext
  <2>3. ASSUME NEW k \in (0 + 1) .. n, k - 1 \in S PROVE k \in S
    <3>1. k \in 0 .. n /\ k \in Nat /\ k > 0 /\ k \in 1 .. k
      OBVIOUS
    <3>2. UpTo(f, k) = UpTo(f, k - 1) \o f[k]
      BY <2>1, <3>1, UpToNext
    <3>3. f[k] = <<>> /\ UpTo(f, k - 1) = <<>> /\ <<>> \o <<>> = <<>>
      BY <2>1, <2>3, <3>1
    <3> QED  BY <3>1, <3>2, <3>3
  <2>4. n \in S
    <3> HIDE DEF S
    <3>1. 0 .. n \subseteq S
      BY <2>2, <2>3, Upward
    <3> QED  BY <3>1
  <2>5. [p \in 1 .. n |-> IF p \in {} THEN NonZero(Lines[p]) ELSE <<>>] = [p \in 1 .. n |-> f[p]]
    BY DEF f
  <2> QED  BY <2>4, <2>5 DEF Pages, UpTo
<1>4. Seen(<<>>) = {} /\ KeysOn({}) = {}
  BY DEF Seen, KeysOn
<1> QED  BY <1>1, <1>2, <1>3, <1>4 DEF Merges, Fresh

\* A sequence, alone and behind another, element by element.
Part(l, i) == SubSeq(l, 1, i)

LEMMA Parts ==
  ASSUME NEW S, NEW l \in Seq(S)
  PROVE  /\ Len(l) \in Nat /\ DOMAIN l = 1 .. Len(l)
         /\ Part(l, 0) = <<>> /\ Part(l, Len(l)) = l
         /\ \A i \in 0 .. Len(l) : Part(l, i) \in Seq(S)
         /\ \A i \in 0 .. Len(l) : Len(Part(l, i)) = i
         /\ \A i \in 0 .. Len(l) : \A k \in 1 .. i : Part(l, i)[k] = l[k]
         /\ \A i \in 1 .. Len(l) : l[i] \in S
         /\ \A i \in 1 .. Len(l) : Part(l, i) = Append(Part(l, i - 1), l[i])
<1>1. Len(l) \in Nat /\ DOMAIN l = 1 .. Len(l) /\ \A i \in 1 .. Len(l) : l[i] \in S
  BY LenProperties, ElementOfSeq
<1>2. ASSUME NEW i \in 0 .. Len(l)
      PROVE  Part(l, i) \in Seq(S) /\ Len(Part(l, i)) = i /\ \A k \in 1 .. i : Part(l, i)[k] = l[k]
  <2>1. \A k \in 1 .. i : l[k] \in S
    BY <1>1
  <2> QED  BY <1>1, <2>1, SubSeqProperties DEF Part
<1>3. Part(l, 0) = <<>> /\ Part(l, Len(l)) = l
  BY SubSeqEmpty, SubSeqFull DEF Part
<1>4. ASSUME NEW i \in 1 .. Len(l)
      PROVE  Part(l, i) = Append(Part(l, i - 1), l[i])
  <2>1. Part(l, i) = Part(l, i - 1) \o <<l[i]>>
    BY <1>1, SubSeqRecursiveSecond DEF Part
  <2>2. i - 1 \in 0 .. Len(l) /\ l[i] \in S
    BY <1>1
  <2>3. Part(l, i - 1) \in Seq(S)
    BY <1>2, <2>2
  <2> QED  BY <2>1, <2>2, <2>3, AppendIsConcat
<1> QED  BY <1>1, <1>2, <1>3, <1>4

LEMMA PartsBehind ==
  ASSUME NEW S, NEW x \in Seq(S), NEW l \in Seq(S)
  PROVE  /\ x \o Part(l, 0) = x
         /\ \A i \in 0 .. Len(l) : x \o Part(l, i) \in Seq(S)
         /\ \A i \in 1 .. Len(l) : x \o Part(l, i) = Append(x \o Part(l, i - 1), l[i])
<1>1. /\ Len(l) \in Nat /\ Part(l, 0) = <<>>
      /\ \A i \in 0 .. Len(l) : Part(l, i) \in Seq(S)
      /\ \A i \in 1 .. Len(l) : l[i] \in S /\ Part(l, i) = Append(Part(l, i - 1), l[i])
  BY Parts
<1>2. ASSUME NEW i \in 0 .. Len(l) PROVE x \o Part(l, i) \in Seq(S)
  BY <1>1, ConcatProperties
<1>3. ASSUME NEW i \in 1 .. Len(l)
      PROVE  x \o Part(l, i) = Append(x \o Part(l, i - 1), l[i])
  <2> DEFINE a == Part(l, i - 1)
             t == l[i]
             u == x \o a
  <2>1. i - 1 \in 0 .. Len(l)
    BY <1>1
  <2>2. t \in S /\ a \in Seq(S) /\ u \in Seq(S) /\ Part(l, i) = Append(a, t)
    BY <1>1, <1>2, <2>1
  <2> HIDE DEF a, t
  <2>3. <<t>> \in Seq(S) /\ Append(a, t) = a \o <<t>> /\ Append(u, t) = u \o <<t>>
    BY <2>2, AppendIsConcat
  <2>4. x \o (a \o <<t>>) = (x \o a) \o <<t>>
    BY <2>2, <2>3, ConcatAssociative
  <2> QED  BY <2>2, <2>3, <2>4 DEF a, t
<1>4. x \o Part(l, 0) = x
  BY <1>1, ConcatEmptySeq
<1> QED  BY <1>2, <1>3, <1>4

\* A page read before adds nothing.
LEMMA PageAgain ==
  ASSUME NEW n \in Nat, NEW R, NEW p \in R, NEW x, Merges(x, R, n), Lines[p] \in Seq(AnyLine)
  PROVE  Merges(x \o Lines[p], R, n)
<1> DEFINE l == Lines[p]
           y(i) == x \o Part(l, i)
           S == {i \in 0 .. Len(l) : Seen(y(i)) = Seen(x) /\ Unique(y(i)) = Unique(x)}
<1>1. x \in Seq(AnyLine) /\ l \in Seq(AnyLine) /\ Seen(l) \subseteq Seen(x)
  BY DEF Merges, KeysOn
<1> HIDE DEF l
<1>2. /\ Len(l) \in Nat /\ DOMAIN l = 1 .. Len(l)
      /\ \A i \in 0 .. Len(l) : y(i) \in Seq(AnyLine)
      /\ y(0) = x /\ y(Len(l)) = x \o l
      /\ \A i \in 1 .. Len(l) : l[i] \in AnyLine /\ y(i) = Append(y(i - 1), l[i])
  <2>1. /\ Len(l) \in Nat /\ DOMAIN l = 1 .. Len(l) /\ Part(l, Len(l)) = l
        /\ \A i \in 1 .. Len(l) : l[i] \in AnyLine
    BY <1>1, Parts
  <2>2. /\ x \o Part(l, 0) = x
        /\ \A i \in 0 .. Len(l) : x \o Part(l, i) \in Seq(AnyLine)
        /\ \A i \in 1 .. Len(l) : x \o Part(l, i) = Append(x \o Part(l, i - 1), l[i])
    BY <1>1, PartsBehind
  <2> QED  BY <2>1, <2>2
<1> HIDE DEF y
<1>3. 0 \in S
  BY <1>2
<1>4. ASSUME NEW i \in (0 + 1) .. Len(l), i - 1 \in S PROVE i \in S
  <2>1. i \in 1 .. Len(l) /\ i - 1 \in 0 .. Len(l) /\ i \in 0 .. Len(l)
    BY <1>2
  <2>2. l[i] \in ZeroAmount \/ Key[l[i]] \in Seen(x)
    BY <1>1, <1>2, <2>1 DEF Seen
  <2> DEFINE t == l[i]
             u == y(i - 1)
  <2>3. t \in AnyLine /\ u \in Seq(AnyLine) /\ y(i) = Append(u, t)
    BY <1>2, <2>1
  <2>4. Seen(u) = Seen(x) /\ Unique(u) = Unique(x) /\ (t \in ZeroAmount \/ Key[t] \in Seen(x))
    BY <1>4, <2>2
  <2> HIDE DEF t, u
  <2>5. Seen(Append(u, t)) = Seen(u) \cup (IF t \in ZeroAmount THEN {} ELSE {Key[t]})
    BY <2>3, SeenAppend
  <2>6. Unique(Append(u, t)) =
          IF t \in ZeroAmount \/ Key[t] \in Seen(u) THEN Unique(u) ELSE Append(Unique(u), t)
    BY <2>3, LineOn
  <2>7. Seen(Append(u, t)) = Seen(x) /\ Unique(Append(u, t)) = Unique(x)
    BY <2>4, <2>5, <2>6
  <2> QED  BY <2>1, <2>3, <2>7
<1>5. Len(l) \in S
  <2> HIDE DEF S
  <2>1. 0 .. Len(l) \subseteq S
    BY <1>2, <1>3, <1>4, Upward
  <2>2. Len(l) \in 0 .. Len(l)
    BY <1>2
  <2> QED  BY <2>1, <2>2
<1>6. x \o l \in Seq(AnyLine)
  BY <1>1, ConcatProperties
<1> QED  BY <1>2, <1>5, <1>6 DEF Merges, l

\* The pages of R with a later one.
LEMMA PagesAppended ==
  ASSUME NEW n \in Nat, NEW R \in SUBSET (1 .. n), NEW p \in 1 .. n, \A r \in R : r < p,
         \A q \in 1 .. n : Lines[q] \in Seq(AnyLine)
  PROVE  Pages(R \cup {p}, n) = Pages(R, n) \o NonZero(Lines[p])
<1> DEFINE f == [q \in 1 .. n |-> IF q \in R THEN NonZero(Lines[q]) ELSE <<>>]
           g == [q \in 1 .. n |-> IF q \in R \cup {p} THEN NonZero(Lines[q]) ELSE <<>>]
           z == NonZero(Lines[p])
           S == {m \in 1 .. n : UpTo(g, m) = UpTo(f, m) \o z}
<1>1. \A q \in 1 .. n : NonZero(Lines[q]) \in Seq(AnyLine)
  BY NonZeroType
<1>2. /\ \A q \in 1 .. n : f[q] \in Seq(AnyLine) /\ g[q] \in Seq(AnyLine)
      /\ \A q \in 1 .. n : q < p => f[q] = g[q]
      /\ \A q \in 1 .. n : q > p => f[q] = <<>> /\ g[q] = <<>>
      /\ f[p] = <<>> /\ g[p] = z /\ z \in Seq(AnyLine)
  BY <1>1
<1> HIDE DEF f, g, z
<1>3. ASSUME NEW m \in 1 .. n
      PROVE  /\ UpTo(f, m) = UpTo(f, m - 1) \o f[m] /\ UpTo(g, m) = UpTo(g, m - 1) \o g[m]
             /\ UpTo(f, m - 1) \in Seq(AnyLine) /\ UpTo(g, m - 1) \in Seq(AnyLine)
  <2>1. /\ m \in Nat /\ m > 0 /\ m - 1 \in Nat
        /\ \A i \in 1 .. m : i \in 1 .. n
        /\ \A i \in 1 .. m - 1 : i \in 1 .. n
    OBVIOUS
  <2>2. \A i \in 1 .. m : f[i] \in Seq(AnyLine) /\ g[i] \in Seq(AnyLine)
    BY <1>2, <2>1
  <2>3. \A i \in 1 .. m - 1 : f[i] \in Seq(AnyLine) /\ g[i] \in Seq(AnyLine)
    BY <1>2, <2>1
  <2> QED  BY <2>1, <2>2, <2>3, UpToNext
<1>4. p \in S
  <2>1. \A i \in 1 .. p - 1 : i \in 1 .. n /\ i < p
    OBVIOUS
  <2>2. UpTo(f, p - 1) = UpTo(g, p - 1)
    BY <1>2, <2>1, UpToSame
  <2>3. UpTo(f, p - 1) \o <<>> = UpTo(f, p - 1)
    BY <1>3, ConcatEmptySeq
  <2> QED  BY <1>2, <1>3, <2>2, <2>3
<1>5. ASSUME NEW m \in (p + 1) .. n, m - 1 \in S PROVE m \in S
  <2>1. m \in 1 .. n /\ m - 1 \in 1 .. n /\ m > p
    OBVIOUS
  <2>2. f[m] = <<>> /\ g[m] = <<>>
    BY <1>2, <2>1
  <2>3. UpTo(f, m - 1) \o <<>> = UpTo(f, m - 1) /\ UpTo(g, m - 1) \o <<>> = UpTo(g, m - 1)
    BY <1>3, <2>1, ConcatEmptySeq
  <2> QED  BY <1>3, <1>5, <2>1, <2>2, <2>3
<1>6. n \in S
  <2> HIDE DEF S
  <2>1. p \in Nat
    OBVIOUS
  <2>2. p .. n \subseteq S
    BY <1>4, <1>5, <2>1, Upward
  <2> QED  BY <2>2
<1>7. Pages(R, n) = UpTo(f, n) /\ Pages(R \cup {p}, n) = UpTo(g, n)
  <2>1. f = [q \in 1 .. n |-> f[q]] /\ g = [q \in 1 .. n |-> g[q]]
    BY DEF f, g
  <2> QED  BY <2>1 DEF UpTo, Pages, f, g
<1> QED  BY <1>6, <1>7 DEF z

\* A page behind all those read adds its lines.
LEMMA PageFirst ==
  ASSUME KeysDiffer, NEW n \in PageCounts, n \in Nat, NEW R \in SUBSET (1 .. n),
         NEW p \in 1 .. n, \A r \in R : r < p,
         \A q \in 1 .. n : Lines[q] \in Seq(AnyLine),
         NEW x, Merges(x, R, n)
  PROVE  /\ Merges(x \o Lines[p], R \cup {p}, n)
         /\ Fresh(x) => Fresh(x \o Lines[p])
<1> DEFINE l == Lines[p]
           first(i) == Part(l, i)
           y(i) == x \o first(i)
           Good(i) == /\ Seen(y(i)) = Seen(x) \cup Seen(first(i))
                      /\ Unique(y(i)) = Unique(x) \o NonZero(first(i))
                      /\ Fresh(x) => Fresh(y(i))
           S == {i \in 0 .. Len(l) : Good(i)}
<1>1. x \in Seq(AnyLine) /\ l \in Seq(AnyLine) /\ Seen(x) = KeysOn(R)
  BY DEF Merges
<1>2. /\ Len(l) \in Nat /\ DOMAIN l = 1 .. Len(l)
      /\ \A i \in 0 .. Len(l) : first(i) \in Seq(AnyLine) /\ y(i) \in Seq(AnyLine)
      /\ \A i \in 0 .. Len(l) : Len(first(i)) = i
      /\ \A i \in 0 .. Len(l) : \A k \in 1 .. i : first(i)[k] = l[k]
      /\ first(0) = <<>> /\ first(Len(l)) = l /\ y(0) = x /\ y(Len(l)) = x \o l
      /\ \A i \in 1 .. Len(l) : /\ l[i] \in AnyLine
                                /\ first(i) = Append(first(i - 1), l[i])
                                /\ y(i) = Append(y(i - 1), l[i])
  <2> HIDE DEF l
  <2>1. /\ Len(l) \in Nat /\ DOMAIN l = 1 .. Len(l)
        /\ Part(l, 0) = <<>> /\ Part(l, Len(l)) = l
        /\ \A i \in 0 .. Len(l) : Part(l, i) \in Seq(AnyLine)
        /\ \A i \in 0 .. Len(l) : Len(Part(l, i)) = i
        /\ \A i \in 0 .. Len(l) : \A k \in 1 .. i : Part(l, i)[k] = l[k]
        /\ \A i \in 1 .. Len(l) : l[i] \in AnyLine
        /\ \A i \in 1 .. Len(l) : Part(l, i) = Append(Part(l, i - 1), l[i])
    BY <1>1, Parts
  <2>2. /\ x \o Part(l, 0) = x
        /\ \A i \in 0 .. Len(l) : x \o Part(l, i) \in Seq(AnyLine)
        /\ \A i \in 1 .. Len(l) : x \o Part(l, i) = Append(x \o Part(l, i - 1), l[i])
    BY <1>1, PartsBehind
  <2> QED  BY <2>1, <2>2
<1> HIDE DEF l, first, y
<1>3. ASSUME NEW i \in 1 .. Len(l), NEW k \in DOMAIN first(i - 1)
      PROVE  k \in 1 .. Len(l) /\ k # i /\ first(i - 1)[k] = l[k]
  <2>1. i - 1 \in 0 .. Len(l)
    BY <1>2
  <2>2. /\ first(i - 1) \in Seq(AnyLine) /\ Len(first(i - 1)) = i - 1
        /\ \A j \in 1 .. i - 1 : first(i - 1)[j] = l[j]
    BY <1>2, <2>1
  <2>3. DOMAIN first(i - 1) = 1 .. i - 1
    BY <2>2, LenProperties
  <2>4. k \in 1 .. i - 1
    BY <2>3
  <2> QED  BY <1>2, <2>2, <2>4
<1>4. ASSUME NEW i \in 1 .. Len(l), l[i] \notin ZeroAmount
      PROVE  Key[l[i]] \notin KeysOn(R) /\ Key[l[i]] \notin Seen(first(i - 1))
  <2>1. ASSUME NEW q \in R, NEW j \in DOMAIN Lines[q], Lines[q][j] \notin ZeroAmount,
               Key[Lines[q][j]] = Key[l[i]]
        PROVE  FALSE
    <3>1. q \in 1 .. n /\ q # p
      OBVIOUS
    <3>2. i \in DOMAIN Lines[p] /\ l = Lines[p]
      BY <1>2 DEF l
    <3> QED  BY <1>4, <2>1, <3>1, <3>2 DEF KeysDiffer
  <2>2. ASSUME NEW k \in DOMAIN first(i - 1), first(i - 1)[k] \notin ZeroAmount,
               Key[first(i - 1)[k]] = Key[l[i]]
        PROVE  FALSE
    <3>1. k \in 1 .. Len(l) /\ k # i /\ first(i - 1)[k] = l[k]
      BY <1>3
    <3>2. k \in DOMAIN Lines[p] /\ i \in DOMAIN Lines[p] /\ l = Lines[p]
      BY <1>2, <3>1 DEF l
    <3> QED  BY <1>4, <2>2, <3>1, <3>2 DEF KeysDiffer
  <2> QED  BY <2>1, <2>2 DEF KeysOn, Seen
<1>5. Unique(x) \in Seq(AnyLine) /\ NonZero(<<>>) = <<>> /\ Seen(<<>>) = {}
  <2>1. NonZero(<<>>) = <<>>
    BY DEF NonZero, FlattenSeq
  <2> QED  BY <1>1, <2>1, UniqueType DEF Seen
<1>6. 0 \in S
  BY <1>2, <1>5, ConcatEmptySeq
<1>7. ASSUME NEW i \in (0 + 1) .. Len(l), i - 1 \in S PROVE i \in S
  <2>1. i \in 1 .. Len(l) /\ i - 1 \in 0 .. Len(l) /\ i \in 0 .. Len(l)
    BY <1>2
  <2> DEFINE t == l[i]
             f == first(i - 1)
             u == y(i - 1)
             Bit == IF t \in ZeroAmount THEN <<>> ELSE <<t>>
  <2>2. /\ t \in AnyLine /\ f \in Seq(AnyLine) /\ u \in Seq(AnyLine)
        /\ first(i) = Append(f, t) /\ y(i) = Append(u, t)
    BY <1>2, <2>1
  <2>3. t \notin ZeroAmount => Key[t] \notin KeysOn(R) /\ Key[t] \notin Seen(f)
    BY <1>4, <2>1
  <2>4. Good(i - 1)
    BY <1>7
  <2> HIDE DEF t, f, u
  <2>5. /\ Seen(u) = Seen(x) \cup Seen(f) /\ Unique(u) = Unique(x) \o NonZero(f)
        /\ Fresh(x) => Fresh(u)
    BY <2>4 DEF f, u
  <2>6. /\ Seen(Append(u, t)) = Seen(u) \cup (IF t \in ZeroAmount THEN {} ELSE {Key[t]})
        /\ Seen(Append(f, t)) = Seen(f) \cup (IF t \in ZeroAmount THEN {} ELSE {Key[t]})
    BY <2>2, SeenAppend
  <2>7. /\ NonZero(f) \in Seq(AnyLine) /\ NonZero(Append(f, t)) = NonZero(f) \o Bit
        /\ NonZero(u) \in Seq(AnyLine) /\ NonZero(Append(u, t)) = NonZero(u) \o Bit
    BY <2>2, NonZeroAppend
  <2>8. /\ Unique(u) \in Seq(AnyLine)
        /\ Unique(Append(u, t)) =
             IF t \in ZeroAmount \/ Key[t] \in Seen(u) THEN Unique(u) ELSE Append(Unique(u), t)
    BY <2>2, LineOn
  <2>9. Unique(Append(u, t)) = Unique(u) \o Bit
    <3>1. Unique(u) \o <<>> = Unique(u) /\ Unique(u) \o <<t>> = Append(Unique(u), t)
      BY <2>2, <2>8, ConcatEmptySeq, AppendIsConcat
    <3>2. CASE t \in ZeroAmount
      BY <2>8, <3>1, <3>2
    <3>3. CASE t \notin ZeroAmount
      BY <1>1, <2>3, <2>5, <2>8, <3>1, <3>3
    <3> QED  BY <3>2, <3>3
  <2>10. Bit \in Seq(AnyLine)
    BY <2>2
  <2> HIDE DEF Bit
  <2>11. (Unique(x) \o NonZero(f)) \o Bit = Unique(x) \o (NonZero(f) \o Bit)
    <3> DEFINE a == Unique(x)
               b == NonZero(f)
    <3>1. a \in Seq(AnyLine) /\ b \in Seq(AnyLine)
      BY <1>5, <2>7
    <3> HIDE DEF a, b
    <3>2. (a \o b) \o Bit = a \o (b \o Bit)
      BY <2>10, <3>1, ConcatAssociative
    <3> QED  BY <3>2 DEF a, b
  <2>12. Fresh(x) => Fresh(Append(u, t))
    BY <2>5, <2>7, <2>9 DEF Fresh
  <2>13. Seen(Append(u, t)) = Seen(x) \cup Seen(Append(f, t))
    BY <2>5, <2>6
  <2>14. Unique(Append(u, t)) = Unique(x) \o NonZero(Append(f, t))
    BY <2>5, <2>7, <2>9, <2>11
  <2> QED  BY <2>1, <2>2, <2>12, <2>13, <2>14
<1>8. Good(Len(l))
  <2> HIDE DEF Good
  <2>1. 0 .. Len(l) \subseteq S
    <3> HIDE DEF S
    <3> QED  BY <1>2, <1>6, <1>7, Upward
  <2>2. Len(l) \in 0 .. Len(l)
    BY <1>2
  <2> QED  BY <2>1, <2>2
<1>9. x \o l \in Seq(AnyLine)
  BY <1>1, ConcatProperties
<1>10. KeysOn(R \cup {p}) = KeysOn(R) \cup Seen(l)
  BY DEF KeysOn, l
<1>11. Pages(R \cup {p}, n) = Pages(R, n) \o NonZero(l)
  BY PagesAppended DEF l
<1> QED  BY <1>1, <1>2, <1>8, <1>9, <1>10, <1>11 DEF Merges, l

LEMMA PageOn ==
  ASSUME KeysDiffer, NEW n \in PageCounts, n \in Nat, NEW R \in SUBSET (1 .. n),
         NEW p \in 1 .. n, p \in R \/ \A r \in R : r < p,
         \A q \in 1 .. n : Lines[q] \in Seq(AnyLine),
         NEW x, Merges(x, R, n)
  PROVE  /\ Merges(x \o Lines[p], R \cup {p}, n)
         /\ Fresh(x) /\ (\A r \in R : r < p) => Fresh(x \o Lines[p])
<1>1. CASE \A r \in R : r < p
  BY <1>1, PageFirst
<1>2. CASE p \in R
  <2>1. R \cup {p} = R /\ ~ (p < p) /\ Lines[p] \in Seq(AnyLine)
    BY <1>2
  <2>2. Merges(x \o Lines[p], R, n)
    BY <1>2, <2>1, PageAgain
  <2> QED  BY <1>2, <2>1, <2>2
<1> QED  BY <1>1, <1>2

-----------------------------------------------------------------------------
(***************************************************************************)
(* Merging window by window.                                               *)
(***************************************************************************)

\* A window of a document of n pages.
OnPages(w, n) == w.from \in 1 .. n /\ w.to \in 1 .. n /\ w.from <= w.to

\* A window of which no page lies between pages read before.
LEMMA WindowOn ==
  ASSUME KeysDiffer, NEW n \in PageCounts, n \in Nat, NEW R \in SUBSET (1 .. n),
         \A q \in 1 .. n : Lines[q] \in Seq(AnyLine),
         NEW w, OnPages(w, n), \A q \in PagesOf(w) : q \in R \/ \A r \in R : r < q,
         NEW x, Merges(x, R, n)
  PROVE  /\ LinesOf(w) \in Seq(AnyLine)
         /\ Merges(x \o LinesOf(w), R \cup PagesOf(w), n)
         /\ R = {} /\ Fresh(x) => Fresh(x \o LinesOf(w))
<1> DEFINE a == w.from
           m == w.to - w.from + 1
           h == [k \in 1 .. m |-> Lines[a + k - 1]]
           y(k) == x \o UpTo(h, k)
           T(k) == R \cup (a .. a + k - 1)
           S == {k \in 0 .. m : Merges(y(k), T(k), n) /\ (R = {} /\ Fresh(x) => Fresh(y(k)))}
<1>1. /\ a \in 1 .. n /\ m \in Nat /\ m > 0 /\ a + m - 1 <= n
      /\ PagesOf(w) = a .. a + m - 1
      /\ \A q \in a .. a + m - 1 : q \in R \/ \A r \in R : r < q
      /\ x \in Seq(AnyLine)
  BY DEF OnPages, PagesOf, Merges
<1>2. \A k \in 1 .. m : a + k - 1 \in 1 .. n /\ h[k] = Lines[a + k - 1] /\ h[k] \in Seq(AnyLine)
  BY <1>1
<1>3. LinesOf(w) = UpTo(h, m)
  <2>1. h = [k \in 1 .. m |-> h[k]]
    OBVIOUS
  <2> QED  BY <2>1 DEF LinesOf, UpTo
<1> HIDE DEF a, m, h
<1>4. ASSUME NEW k \in 0 .. m
      PROVE  /\ UpTo(h, k) \in Seq(AnyLine)
             /\ k = 0 => UpTo(h, k) = <<>>
             /\ k > 0 => UpTo(h, k) = UpTo(h, k - 1) \o h[k]
  <2>1. k \in Nat /\ \A i \in 1 .. k : i \in 1 .. m
    BY <1>1
  <2>2. \A i \in 1 .. k : h[i] \in Seq(AnyLine)
    BY <1>2, <2>1
  <2> QED  BY <2>1, <2>2, UpToNext
<1>5. 0 \in S
  <2>1. 0 \in 0 .. m /\ T(0) = R
    BY <1>1
  <2>2. y(0) = x
    BY <1>1, <1>4, <2>1, ConcatEmptySeq
  <2> QED  BY <2>1, <2>2
<1>6. ASSUME NEW k \in (0 + 1) .. m, k - 1 \in S PROVE k \in S
  <2> DEFINE p == a + k - 1
             U == T(k - 1)
             z == y(k - 1)
  <2>1. /\ k \in 1 .. m /\ k \in 0 .. m /\ k - 1 \in 0 .. m /\ k > 0
        /\ p \in 1 .. n /\ p \in a .. a + m - 1
    BY <1>1
  <2>2. U \in SUBSET (1 .. n) /\ T(k) = U \cup {p}
    BY <1>1
  <2>3. p \in U \/ \A r \in U : r < p
    BY <1>1, <2>1
  <2>4. R = {} => \A r \in U : r < p
    BY <1>1
  <2>5. y(k) = z \o Lines[p]
    <3>1. k \in Nat \ {0} /\ (\A i \in 1 .. k : h[i] \in Seq(AnyLine)) /\ h[k] = Lines[p]
      BY <1>1, <1>2, <2>1
    <3>2. x \o UpTo(h, k) = (x \o UpTo(h, k - 1)) \o h[k]
      BY <1>1, <3>1, UpToBehind
    <3> QED  BY <3>1, <3>2
  <2>6. Merges(z, U, n) /\ (R = {} /\ Fresh(x) => Fresh(z))
    BY <1>6
  <2> HIDE DEF p, U, z, y, T
  <2>7. /\ Merges(z \o Lines[p], U \cup {p}, n)
        /\ Fresh(z) /\ (\A r \in U : r < p) => Fresh(z \o Lines[p])
    BY <2>1, <2>2, <2>3, <2>6, PageOn
  <2>8. Merges(y(k), T(k), n) /\ (R = {} /\ Fresh(x) => Fresh(y(k)))
    BY <2>2, <2>4, <2>5, <2>6, <2>7
  <2> QED  BY <2>1, <2>8
<1>7. m \in S
  <2> HIDE DEF S
  <2>1. 0 .. m \subseteq S
    BY <1>1, <1>5, <1>6, Upward
  <2> QED  BY <1>1, <2>1
<1>8. m \in 0 .. m
  BY <1>1
<1> QED  BY <1>1, <1>3, <1>4, <1>7, <1>8

\* Windows of a document of n pages, in order.
Spread(ws, m, n) ==
  /\ \A i \in 1 .. m : OnPages(ws[i], n)
  /\ \A i, j \in 1 .. m : i < j => ws[i].from <= ws[j].from

\* The lines and the pages of those of the first m windows that are in A.
LinesIn(ws, m, A) == FlattenSeq([i \in 1 .. m |-> IF i \in A THEN LinesOf(ws[i]) ELSE <<>>])
PagesIn(ws, m, A) == UNION {PagesOf(ws[i]) : i \in A \cap (1 .. m)}

LEMMA WindowsOn ==
  ASSUME KeysDiffer, NEW n \in PageCounts, n \in Nat, NEW m \in Nat, NEW A,
         \A q \in 1 .. n : Lines[q] \in Seq(AnyLine), NEW ws, Spread(ws, m, n)
  PROVE  /\ Merges(LinesIn(ws, m, A), PagesIn(ws, m, A), n)
         /\ (\A i, j \in A : i = j) => Fresh(LinesIn(ws, m, A))
<1> DEFINE F == [i \in 1 .. m |-> IF i \in A THEN LinesOf(ws[i]) ELSE <<>>]
           R(k) == UNION {PagesOf(ws[i]) : i \in A \cap (1 .. k)}
           One == \A i, j \in A : i = j
           Good(k) == Merges(UpTo(F, k), R(k), n) /\ (One => Fresh(UpTo(F, k)))
           S == {k \in 0 .. m : Good(k)}
<1>1. ASSUME NEW i \in 1 .. m
      PROVE  /\ OnPages(ws[i], n) /\ LinesOf(ws[i]) \in Seq(AnyLine)
             /\ PagesOf(ws[i]) \in SUBSET (1 .. n)
  <2>1. OnPages(ws[i], n)
    BY DEF Spread
  <2>2. Merges(<<>>, {}, n)
    BY EmptyMerges
  <2>3. {} \in SUBSET (1 .. n) /\ \A q \in PagesOf(ws[i]) : q \in {} \/ \A r \in {} : r < q
    OBVIOUS
  <2>4. LinesOf(ws[i]) \in Seq(AnyLine)
    BY <2>1, <2>2, <2>3, WindowOn
  <2> QED  BY <2>1, <2>4 DEF OnPages, PagesOf
<1>2. \A i \in 1 .. m : F[i] \in Seq(AnyLine) /\ (IF i \in A THEN F[i] = LinesOf(ws[i]) ELSE F[i] = <<>>)
  BY <1>1
<1> HIDE DEF F
<1>3. ASSUME NEW k \in 0 .. m
      PROVE  /\ UpTo(F, k) \in Seq(AnyLine)
             /\ k = 0 => UpTo(F, k) = <<>>
             /\ k > 0 => UpTo(F, k) = UpTo(F, k - 1) \o F[k]
  <2>1. k \in Nat /\ \A i \in 1 .. k : i \in 1 .. m
    OBVIOUS
  <2>2. \A i \in 1 .. k : F[i] \in Seq(AnyLine)
    BY <1>2, <2>1
  <2> QED  BY <2>1, <2>2, UpToNext
<1>4. 0 \in S
  <2>1. 0 \in 0 .. m /\ R(0) = {}
    OBVIOUS
  <2>2. UpTo(F, 0) = <<>>
    BY <1>3, <2>1
  <2> QED  BY <2>1, <2>2, EmptyMerges
<1>5. ASSUME NEW k \in (0 + 1) .. m, k - 1 \in S PROVE k \in S
  <2> DEFINE z == UpTo(F, k - 1)
             U == R(k - 1)
             w == ws[k]
  <2>1. k \in 1 .. m /\ k \in 0 .. m /\ k - 1 \in 0 .. m /\ k > 0
    OBVIOUS
  <2>2. Merges(z, U, n) /\ (One => Fresh(z)) /\ UpTo(F, k) = z \o F[k] /\ z \in Seq(AnyLine)
    BY <1>3, <1>5, <2>1
  <2>3. \A i \in 1 .. k : i = k \/ i \in 1 .. k - 1
    OBVIOUS
  <2>4. \A i \in 1 .. k - 1 : i \in 1 .. k /\ i \in 1 .. m /\ i # k
    OBVIOUS
  <2>5. CASE k \notin A
    <3>1. R(k) = U
      BY <2>3, <2>4, <2>5
    <3>2. F[k] = <<>> /\ z \o <<>> = z
      BY <1>2, <2>1, <2>2, <2>5, ConcatEmptySeq
    <3> HIDE DEF z, U, R
    <3> QED  BY <2>1, <2>2, <3>1, <3>2
  <2>6. CASE k \in A
    <3>1. R(k) = U \cup PagesOf(w)
      <4>1. k \in 1 .. k
        OBVIOUS
      <4> QED  BY <2>3, <2>4, <2>6, <4>1
    <3>2. F[k] = LinesOf(w) /\ OnPages(w, n)
      BY <1>1, <1>2, <2>1, <2>6
    <3>3. U \in SUBSET (1 .. n)
      BY <1>1, <2>4
    <3>4. ASSUME NEW q \in PagesOf(w), NEW r \in U, ~ (r < q) PROVE q \in U
      <4>1. PICK i \in A \cap (1 .. k - 1) : r \in PagesOf(ws[i])
        OBVIOUS
      <4>2. i \in 1 .. m /\ k \in 1 .. m /\ i < k
        BY <2>1, <4>1
      <4>3. ws[i].from <= ws[k].from /\ OnPages(ws[i], n)
        BY <1>1, <4>2 DEF Spread
      <4>4. q \in PagesOf(ws[i])
        BY <3>2, <3>4, <4>1, <4>3 DEF OnPages, PagesOf
      <4> QED  BY <4>1, <4>4
    <3>5. One => U = {}
      BY <2>4, <2>6
    <3> HIDE DEF z, U, w, R
    <3>6. /\ Merges(z \o LinesOf(w), U \cup PagesOf(w), n)
          /\ U = {} /\ Fresh(z) => Fresh(z \o LinesOf(w))
      BY <2>2, <3>2, <3>3, <3>4, WindowOn
    <3> QED  BY <2>1, <2>2, <3>1, <3>2, <3>5, <3>6
  <2> QED  BY <2>5, <2>6
<1>6. Good(m)
  <2>1. 0 .. m \subseteq S
    <3> HIDE DEF S
    <3>1. 0 \in Nat /\ m \in Nat
      OBVIOUS
    <3> QED  BY <1>4, <1>5, <3>1, Upward
  <2>2. m \in 0 .. m
    OBVIOUS
  <2> HIDE DEF Good
  <2> QED  BY <2>1, <2>2
<1>7. [i \in 1 .. m |-> IF i \in A THEN LinesOf(ws[i]) ELSE <<>>] = [i \in 1 .. m |-> F[i]]
  BY DEF F
<1> QED  BY <1>6, <1>7 DEF UpTo, LinesIn, PagesIn

\* The first windows, from the first to the one that reaches the last page.
LEMMA WindowsInARow ==
  ASSUME NEW n \in Nat \ {0}
  PROVE  \E m \in 1 .. n : WindowIndices(n) = 0 .. m - 1
<1> DEFINE W == WindowIndices(n)
           S == {k \in 1 .. n : 0 .. k - 1 \subseteq W}
<1>1. 0 \in W /\ W \subseteq 0 .. n - 1
  BY DEF WindowIndices
<1>2. ASSUME NEW i \in W, NEW j \in 0 .. i PROVE j \in W
  <2>1. i \in 0 .. n - 1 /\ Step \in Nat /\ WindowSize \in Nat
    BY <1>1, StepType, WindowAssumption
  <2>2. CASE j = 0
    BY <1>1, <2>2
  <2>3. CASE j # 0
    <3>1. i # 0 /\ i - 1 \in Nat /\ j - 1 \in Nat /\ j - 1 <= i - 1 /\ j \in 0 .. n - 1
      BY <2>1, <2>3
    <3>2. (i - 1) * Step + WindowSize < n
      BY <3>1 DEF WindowIndices
    <3>3. (j - 1) * Step <= (i - 1) * Step /\ (j - 1) * Step \in Nat /\ (i - 1) * Step \in Nat
      BY <2>1, <3>1
    <3> QED  BY <2>1, <3>1, <3>2, <3>3 DEF WindowIndices
  <2> QED  BY <2>2, <2>3
<1> HIDE DEF W
<1> SUFFICES ASSUME \A m \in 1 .. n : W # 0 .. m - 1 PROVE FALSE
  BY DEF W
<1>3. 1 \in S
  BY <1>1
<1>4. ASSUME NEW k \in (1 + 1) .. n, k - 1 \in S PROVE k \in S
  <2>1. 0 .. k - 2 \subseteq W /\ k - 1 \in 1 .. n /\ W # 0 .. k - 2
    BY <1>4
  <2>2. PICK i \in W : i \notin 0 .. k - 2
    BY <2>1
  <2>3. k - 1 \in 0 .. i
    BY <1>1, <2>2
  <2>4. k - 1 \in W
    BY <1>2, <2>2, <2>3
  <2>5. \A j \in 0 .. k - 1 : j \in 0 .. k - 2 \/ j = k - 1
    OBVIOUS
  <2> QED  BY <2>1, <2>4, <2>5
<1>5. n \in S
  <2> HIDE DEF S
  <2>1. 1 \in Nat
    OBVIOUS
  <2>2. 1 .. n \subseteq S
    BY <1>3, <1>4, <2>1, Upward
  <2> QED  BY <2>2
<1>6. n \in 1 .. n
  OBVIOUS
<1> QED  BY <1>1, <1>5, <1>6

LEMMA WindowsSpread ==
  ASSUME NEW n \in Nat \ {0}, NEW s, s.pages = n, TierOf(s) = "tier2"
  PROVE  \E m \in 1 .. n : /\ DOMAIN WindowsOf(s) = 1 .. m
                           /\ Spread(WindowsOf(s), m, n)
                           /\ UNION {PagesOf(WindowsOf(s)[i]) : i \in 1 .. m} = 1 .. n
<1> DEFINE ws == WindowsOf(s)
           W == WindowIndices(n)
<1>1. PICK m \in 1 .. n : W = 0 .. m - 1
  BY WindowsInARow
<1>2. {i + 1 : i \in W} = 1 .. m
  <2>1. \A k \in 1 .. m : k - 1 \in W /\ k = (k - 1) + 1
    BY <1>1
  <2>2. \A i \in W : i + 1 \in 1 .. m
    BY <1>1
  <2> QED  BY <2>1, <2>2
<1>3. /\ DOMAIN ws = 1 .. m
      /\ \A k \in 1 .. m : /\ ws[k].from = SlidingWindow(k - 1, n).from
                           /\ ws[k].to = SlidingWindow(k - 1, n).to
  <2>1. ws = [k \in {i + 1 : i \in W} |->
               [from   |-> SlidingWindow(k - 1, n).from,
                to     |-> SlidingWindow(k - 1, n).to,
                fields |-> ToSet(s.wanted) \cap HeaderFields]]
    BY DEF WindowsOf
  <2> HIDE DEF ws, W
  <2> QED  BY <1>2, <2>1
<1> HIDE DEF ws, W
<1>4. ASSUME NEW k \in 1 .. m
      PROVE  /\ SlidingWindow(k - 1, n).from = (k - 1) * Step + 1 /\ (k - 1) * Step \in Nat
             /\ OnPages(SlidingWindow(k - 1, n), n)
  <2>1. k - 1 \in Nat /\ Step \in Nat \ {0} /\ WindowSize \in Nat \ {0} /\ Step <= WindowSize
    BY StepType, WindowAssumption
  <2>2. (k - 1) * Step \in Nat
    BY <2>1
  <2>3. (k - 1) * Step < n
    <3>1. CASE k = 1
      BY <2>1, <3>1
    <3>2. CASE k # 1
      <4>1. k - 1 \in W /\ k - 1 # 0
        BY <1>1, <3>2
      <4>2. ((k - 1) - 1) * Step + WindowSize < n
        BY <4>1 DEF W, WindowIndices
      <4>3. ((k - 1) - 1) * Step = (k - 1) * Step - Step
        BY <2>1
      <4> QED  BY <2>1, <2>2, <4>2, <4>3
    <3> QED  BY <3>1, <3>2
  <2> QED  BY <2>1, <2>2, <2>3 DEF SlidingWindow, OnPages
<1>5. Spread(ws, m, n)
  <2>1. \A k \in 1 .. m : OnPages(ws[k], n)
    BY <1>3, <1>4 DEF OnPages
  <2>2. ASSUME NEW i \in 1 .. m, NEW j \in 1 .. m, i < j PROVE ws[i].from <= ws[j].from
    <3>1. i - 1 \in Nat /\ j - 1 \in Nat /\ i - 1 <= j - 1 /\ Step \in Nat
      BY <2>2, StepType
    <3>2. (i - 1) * Step <= (j - 1) * Step
      BY <3>1
    <3>3. ws[i].from = (i - 1) * Step + 1 /\ ws[j].from = (j - 1) * Step + 1
      BY <1>3, <1>4
    <3>4. (i - 1) * Step \in Nat /\ (j - 1) * Step \in Nat
      BY <3>1
    <3> QED  BY <3>2, <3>3, <3>4
  <2> QED  BY <2>1, <2>2 DEF Spread
<1>6. UNION {PagesOf(ws[i]) : i \in 1 .. m} = 1 .. n
  <2>1. UNION {PagesOf(SlidingWindow(i, n)) : i \in W} = 1 .. n
    BY PagesAreCovered DEF W
  <2>2. \A k \in 1 .. m : PagesOf(ws[k]) = PagesOf(SlidingWindow(k - 1, n)) /\ k - 1 \in W
    BY <1>1, <1>3 DEF PagesOf
  <2>3. \A i \in W : i + 1 \in 1 .. m /\ (i + 1) - 1 = i
    BY <1>1
  <2>4. {PagesOf(ws[i]) : i \in 1 .. m} = {PagesOf(SlidingWindow(i, n)) : i \in W}
    BY <2>2, <2>3
  <2> QED  BY <2>1, <2>4
<1> QED  BY <1>3, <1>5, <1>6 DEF ws

-----------------------------------------------------------------------------
(***************************************************************************)
(* The merged transactions.                                                *)
(***************************************************************************)

\* The windows are those of the section; what was merged was read off them.
LinesInv ==
  /\ job \in Sections /\ windows = WindowsOf(job)
  /\ stage # "windows" /\ Tier = "tier2" /\ Mergeable => transactions = MergedTransactions

LEMMA LinesInit == Init => LinesInv
<1> SUFFICES ASSUME Init PROVE LinesInv
  OBVIOUS
<1>1. stage # "windows" => Tier = "single"
  BY DEF Init, Tier, TierOf
<1> QED  BY <1>1 DEF Init, LinesInv

\* The same calls on the same windows merge to the same lines.
LEMMA MergedAgain ==
  ASSUME UNCHANGED <<job, windows, calls>>
  PROVE  MergedTransactions' = MergedTransactions /\ Tier' = Tier /\ (Mergeable' <=> Mergeable)
<1>1. Tier' = Tier /\ Indices' = Indices /\ Answered' = Answered
  BY DEF Tier, Indices, Answered
<1>2. AnsweredLines' = AnsweredLines
  BY <1>1 DEF AnsweredLines
<1> QED  BY <1>1, <1>2 DEF MergedTransactions, Mergeable

LEMMA LinesStep == LinesInv /\ [Next]_vars => LinesInv'
<1> SUFFICES ASSUME LinesInv, [Next]_vars PROVE LinesInv'
  OBVIOUS
<1>1. ASSUME NEW i \in Indices, Begin(i) \/ Returns(i) PROVE LinesInv'
  BY <1>1 DEF Begin, Returns, LinesInv
<1>2. ASSUME NEW i \in Indices, ReturnsOther(i) \/ Raises(i) PROVE LinesInv'
  <2>1. job' = job /\ windows' = windows /\ Tier' = Tier /\ stage = "windows"
    BY <1>2 DEF ReturnsOther, Raises, Tier
  <2>2. Tier # "tier1" => stage' = stage
    BY <1>2 DEF ReturnsOther, Raises
  <2> QED  BY <2>1, <2>2 DEF LinesInv
<1>3. CASE Merge
  <2>1. job' = job /\ windows' = windows /\ transactions' = MergedTransactions
    BY <1>3 DEF Merge
  <2>2. MergedTransactions' = MergedTransactions
    BY <1>3, MergedAgain DEF Merge
  <2> QED  BY <2>1, <2>2 DEF LinesInv
<1>4. ASSUME UNCHANGED <<job, windows, calls, transactions>>, stage' = stage \/ stage # "windows"
      PROVE  LinesInv'
  <2>1. MergedTransactions' = MergedTransactions /\ Tier' = Tier /\ (Mergeable' <=> Mergeable)
    BY <1>4, MergedAgain
  <2> QED  BY <1>4, <2>1 DEF LinesInv
<1>5. CASE SingleReturns
  BY <1>4, <1>5 DEF SingleReturns
<1>6. CASE PhasesReturn
  BY <1>4, <1>6 DEF PhasesReturn
<1>7. CASE PhasesRaise
  BY <1>4, <1>7 DEF PhasesRaise
<1>8. CASE MergeRaises
  <2>1. ~ Mergeable' /\ job' = job /\ windows' = windows
    BY <1>8 DEF MergeRaises, Mergeable, Indices
  <2> QED  BY <2>1 DEF LinesInv
<1>9. CASE UNCHANGED vars
  BY <1>4, <1>9 DEF vars
<1> QED  BY <1>1, <1>2, <1>3, <1>5, <1>6, <1>7, <1>8, <1>9 DEF Next

LEMMA LinesMerged ==
  ASSUME KeysDiffer, LinesInv
  PROVE  EveryLineOnce
<1> DEFINE n == job.pages
           read == UNION {PagesOf(windows[i]) : i \in Answered}
<1> SUFFICES ASSUME stage # "windows", Tier = "tier2", Mergeable
             PROVE  NonZero(transactions) = Pages(read, n) /\ (Answered = Indices => read = 1 .. n)
  BY DEF EveryLineOnce, Pages
<1>1. /\ n \in PageCounts /\ n \in Nat \ {0} /\ TierOf(job) = "tier2"
      /\ \A q \in 1 .. n : Lines[q] \in Seq(AnyLine)
  BY ChunkAssumption, LinesAssumption DEF LinesInv, Sections, Tier, AnyLine
<1>2. PICK m \in 1 .. n : /\ DOMAIN windows = 1 .. m /\ Spread(windows, m, n)
                          /\ UNION {PagesOf(windows[i]) : i \in 1 .. m} = 1 .. n
  <2> HIDE DEF n
  <2>1. job.pages = n
    BY DEF n
  <2> QED  BY <1>1, <2>1, WindowsSpread DEF LinesInv
<1>3. Answered \cap (1 .. m) = Answered /\ Indices = 1 .. m /\ m \in Nat
  BY <1>2 DEF Answered, Indices
<1> HIDE DEF n
<1>4. /\ Merges(AnsweredLines, read, n)
      /\ (\A i, j \in Answered : i = j) => Fresh(AnsweredLines)
  <2>1. AnsweredLines = LinesIn(windows, m, Answered)
    BY <1>3 DEF AnsweredLines, LinesIn
  <2>2. read = PagesIn(windows, m, Answered)
    BY <1>3 DEF PagesIn
  <2>3. /\ Merges(LinesIn(windows, m, Answered), PagesIn(windows, m, Answered), n)
        /\ (\A i, j \in Answered : i = j) => Fresh(LinesIn(windows, m, Answered))
    BY <1>1, <1>2, <1>3, WindowsOn
  <2> QED  BY <2>1, <2>2, <2>3
<1>5. Cardinality(Answered) <= 1 => \A i, j \in Answered : i = j
  <2>1. IsFiniteSet(1 .. m)
    BY <1>3, FS_Interval
  <2>2. IsFiniteSet(Answered)
    BY <1>3, <2>1, FS_Subset
  <2>3. SUFFICES ASSUME Cardinality(Answered) <= 1, NEW i \in Answered, NEW j \in Answered, i # j
                 PROVE  FALSE
    OBVIOUS
  <2>4. /\ Cardinality(Answered \ {i}) = Cardinality(Answered) - 1 /\ IsFiniteSet(Answered \ {i})
        /\ Cardinality(Answered) \in Nat
    BY <2>2, FS_RemoveElement, FS_CardinalityType
  <2>5. Cardinality(Answered \ {i}) = 0
    BY <2>3, <2>4, FS_CardinalityType
  <2>6. Answered \ {i} = {}
    BY <2>4, <2>5, FS_EmptySet
  <2> QED  BY <2>3, <2>6
<1>6. NonZero(MergedTransactions) = Unique(AnsweredLines)
  <2>1. CASE Cardinality(Answered) <= 1
    <3>1. MergedTransactions = AnsweredLines
      BY <2>1 DEF MergedTransactions
    <3> QED  BY <1>4, <1>5, <2>1, <3>1 DEF Fresh
  <2>2. CASE ~ (Cardinality(Answered) <= 1)
    <3>1. MergedTransactions = Deduplicated(AnsweredLines)
      BY <2>2 DEF MergedTransactions
    <3> QED  BY <3>1 DEF Unique
  <2> QED  BY <2>1, <2>2
<1> QED  BY <1>2, <1>3, <1>4, <1>6 DEF LinesInv, Merges

\* Once the windows of the second tier are merged, the lines of the pages that
\* some answered window read are there once, in the order of the pages,
\* whichever windows were answered and for any window size and overlap
\* (create_sliding_windows, merge_window_results), where two lines with an
\* amount do not share a TransactionKey.
THEOREM LinesMergedOnce ==
  ASSUME KeysDiffer
  PROVE  Spec => []EveryLineOnce
<1>1. LinesInv => EveryLineOnce
  BY LinesMerged
<1> QED  BY LinesInit, LinesStep, <1>1, PTL DEF Spec
=============================================================================
