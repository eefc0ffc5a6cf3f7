--------------------------- MODULE DocumentProofs ---------------------------
(***************************************************************************)
(* What is made of a document and how it is judged, for any document.      *)
(*                                                                         *)
(* Of DocumentRules: the sections of a document are a partition of its     *)
(* pages, assembling keeps the rows of a section in their order, and a     *)
(* table is delivered with pages of its own section that it has rows of:   *)
(* for any number of pages and any kinds of page.                          *)
(*                                                                         *)
(* Of Validators: the running balance breaks exactly where rows are gone   *)
(* that do not cancel out, a statement read right passes and one wrong row *)
(* is seen, and a code passes exactly as it was issued: for any movements  *)
(* and any codes.                                                          *)
(***************************************************************************)
EXTENDS DocumentRules, Validators, FiniteSetTheorems, SequenceTheorems, WellFoundedInduction,
        TLAPS

------------------------------------------------------------------------------
(* The inductive invariant.                                                  *)

\* sections and pages are sequences, of whatever.
AreSequences ==
  /\ \E S : sections \in Seq(S)
  /\ \E S : pages \in Seq(S)

Covered(p) == \E k \in DOMAIN sections : p \in sections[k].first..sections[k].last

\* While segment_document's loop runs, the pages before start are those of
\* the sections closed and the next section has a page; afterwards every page
\* is covered.
Progress ==
  /\ pc = "segment" =>
       /\ start \in Nat /\ at \in Nat
       /\ 1 <= start /\ start < at /\ at <= Len(pages) + 1
       /\ \A k \in DOMAIN sections : sections[k].last < start
       /\ \A p \in 1..(start - 1) : Covered(p)
  /\ pc # "segment" =>
       /\ sections # <<>>
       /\ \A k \in DOMAIN sections : sections[k].last <= Len(pages)
       /\ \A p \in DOMAIN pages : Covered(p)

\* The sections are runs of pages, in order.
Ordered ==
  /\ \A k \in DOMAIN sections :
       /\ sections[k].first \in Nat \ {0} /\ sections[k].last \in Nat
       /\ sections[k].first <= sections[k].last
  /\ \A k, l \in DOMAIN sections : k < l => sections[k].last < sections[l].first

IInv == AreSequences /\ Progress /\ Ordered

------------------------------------------------------------------------------
\* A function over an initial segment is a sequence of that length.
LEMMA SequenceOf ==
  ASSUME NEW n \in Nat, NEW f, f = [i \in 1..n |-> f[i]]
  PROVE  /\ \E S : f \in Seq(S)
         /\ Len(f) = n /\ DOMAIN f = 1..n
<1> DEFINE S == {f[i] : i \in 1..n}
<1>1. f \in [1..n -> S]
  OBVIOUS
<1>2. f \in Seq(S)
  BY <1>1, SeqDef
<1>3. DOMAIN f = 1..n
  BY <1>1
<1>4. Len(f) = n
  BY <1>2, <1>3, LenProperties
<1>. QED  BY <1>2, <1>3, <1>4

\* Closing a section adds it behind the others.
LEMMA Closing ==
  ASSUME IInv, pc = "segment", NEW a \in Nat, NEW b \in Nat, Close(a, b)
  PROVE  /\ \E S : sections' \in Seq(S)
         /\ DOMAIN sections' = 1..(Len(sections) + 1)
         /\ DOMAIN sections = 1..Len(sections) /\ Len(sections) \in Nat
         /\ \A k \in DOMAIN sections : sections'[k] = sections[k]
         /\ sections'[Len(sections) + 1].first = a
         /\ sections'[Len(sections) + 1].last = b
<1>1. PICK S : sections \in Seq(S)
  BY DEF IInv, AreSequences
<1> DEFINE e == Section(a, b)
           T == S \cup {e}
<1>2. e.first = a /\ e.last = b
  BY DEF Section
<1>3. sections \in Seq(T) /\ e \in T
  <2>1. DOMAIN sections = 1..Len(sections) /\ Len(sections) \in Nat
        /\ \A k \in 1..Len(sections) : sections[k] \in S
    BY <1>1, LenProperties, ElementOfSeq
  <2>2. sections \in [1..Len(sections) -> T]
    BY <2>1, <1>1, SeqDef
  <2>. QED  BY <2>1, <2>2, SeqDef
<1>4. sections' = Append(sections, e)
  BY DEF Close
<1> HIDE DEF e, T
<1>5. /\ Append(sections, e) \in Seq(T)
      /\ Len(Append(sections, e)) = Len(sections) + 1
      /\ \A k \in 1..Len(sections) : Append(sections, e)[k] = sections[k]
      /\ Append(sections, e)[Len(sections) + 1] = e
  BY <1>3, AppendProperties
<1>6. DOMAIN sections = 1..Len(sections) /\ Len(sections) \in Nat
  BY <1>3, LenProperties
<1>7. DOMAIN sections' = 1..Len(sections')
  BY <1>4, <1>5, LenProperties
<1>. QED  BY <1>2, <1>4, <1>5, <1>6, <1>7

\* Assembling keeps the number of pages.
LEMMA AssemblyKeepsPages ==
  ASSUME AreSequences, NEW built, pages' = AfterAssembly(built)
  PROVE  /\ \E S : pages' \in Seq(S)
         /\ DOMAIN pages' = DOMAIN pages /\ Len(pages') = Len(pages)
<1>1. PICK S : pages \in Seq(S)
  BY DEF AreSequences
<1>2. DOMAIN pages = 1..Len(pages) /\ Len(pages) \in Nat
  BY <1>1, LenProperties
<1>3. DOMAIN pages' = 1..Len(pages) /\ pages' = [p \in 1..Len(pages) |-> pages'[p]]
  BY <1>2 DEF AfterAssembly
<1>. QED  BY <1>2, <1>3, SequenceOf

------------------------------------------------------------------------------
LEMMA InitInv == Init => IInv
<1> SUFFICES ASSUME Init PROVE IInv
  OBVIOUS
<1>1. PICK n \in 1..MaxPages : \E kinds \in [1..n -> PageKinds] :
        pages = [p \in 1..n |-> ReadPage(p, kinds[p])]
  BY DEF Init
<1>2. n \in Nat /\ n >= 1
  BY <1>1, MaxPagesAssumption
<1>3. pages = [p \in 1..n |-> pages[p]]
  BY <1>1
<1>4. /\ \E S : pages \in Seq(S)
      /\ Len(pages) = n
  BY <1>2, <1>3, SequenceOf
<1>5. sections = <<>> /\ <<>> \in Seq({}) /\ DOMAIN sections = {}
  BY DEF Init
<1>6. AreSequences
  BY <1>4, <1>5 DEF AreSequences
<1>7. Progress
  BY <1>2, <1>4, <1>5 DEF Init, Progress
<1>8. Ordered
  BY <1>5 DEF Ordered
<1>. QED  BY <1>6, <1>7, <1>8 DEF IInv

\* The loop of the segmenter goes on.
LEMMA ExtendInv == IInv /\ ExtendSection => IInv'
<1> SUFFICES ASSUME IInv, ExtendSection PROVE IInv'
  OBVIOUS
<1>1. PICK S : pages \in Seq(S)
  BY DEF IInv, AreSequences
<1>2. Len(pages) \in Nat
  BY <1>1, LenProperties
<1>3. pc = "segment" /\ pc' = "segment" /\ at <= Len(pages) /\ at' = at + 1
      /\ UNCHANGED <<pages, start, sections>>
  BY DEF ExtendSection
<1>4. AreSequences' /\ Ordered'
  BY <1>3 DEF IInv, AreSequences, Ordered
<1>5. Progress'
  BY <1>2, <1>3 DEF IInv, Progress, Covered
<1>. QED  BY <1>4, <1>5 DEF IInv

\* What closing a section from start to b, before at, does to the sections.
LEMMA CloseKeeps ==
  ASSUME IInv, pc = "segment", NEW b \in Nat, start <= b, Close(start, b)
  PROVE  /\ \E S : sections' \in Seq(S)
         /\ sections' # <<>>
         /\ Ordered'
         /\ \A k \in DOMAIN sections' : sections'[k].last <= b
         /\ \A p \in 1..b : Covered(p)'
<1> DEFINE n == Len(sections) + 1
<1>1. start \in Nat /\ 1 <= start
      /\ (\A k \in DOMAIN sections : sections[k].last < start)
      /\ (\A p \in 1..(start - 1) : Covered(p))
  BY DEF IInv, Progress
<1>2. /\ \E S : sections' \in Seq(S)
      /\ DOMAIN sections' = 1..n
      /\ DOMAIN sections = 1..Len(sections) /\ Len(sections) \in Nat
      /\ \A k \in DOMAIN sections : sections'[k] = sections[k]
      /\ sections'[n].first = start
      /\ sections'[n].last = b
  BY <1>1, Closing
<1> HIDE DEF n
<1>3. \A k \in DOMAIN sections' : k \in DOMAIN sections \/ k = n
  BY <1>2 DEF n
<1>4. \A k \in DOMAIN sections : k < n
  BY <1>2 DEF n
<1>5. \A k \in DOMAIN sections :
        sections[k].first \in Nat \ {0} /\ sections[k].last \in Nat
        /\ sections[k].first <= sections[k].last
  BY DEF IInv, Ordered
<1>6. \A k \in DOMAIN sections' :
        /\ sections'[k].first \in Nat \ {0} /\ sections'[k].last \in Nat
        /\ sections'[k].first <= sections'[k].last /\ sections'[k].last <= b
  <2>1. TAKE k \in DOMAIN sections'
  <2>2. CASE k = n
    BY <2>2, <1>1, <1>2
  <2>3. CASE k \in DOMAIN sections
    <3>1. sections'[k] = sections[k]
      BY <2>3, <1>2
    <3>. QED  BY <2>3, <3>1, <1>1, <1>5
  <2>. QED  BY <2>2, <2>3, <1>3
<1>7. ASSUME NEW k \in DOMAIN sections', NEW l \in DOMAIN sections', k < l
      PROVE  sections'[k].last < sections'[l].first
  <2>1. k \in Nat /\ l \in Nat /\ n \in Nat /\ k \in DOMAIN sections
    BY <1>2, <1>3, <1>7 DEF n
  <2>2. sections'[k] = sections[k]
    BY <2>1, <1>2
  <2>3. CASE l = n
    BY <2>1, <2>2, <2>3, <1>1, <1>2
  <2>4. CASE l \in DOMAIN sections
    <3>1. sections'[l] = sections[l]
      BY <2>4, <1>2
    <3>. QED  BY <2>1, <2>2, <2>4, <3>1, <1>7 DEF IInv, Ordered
  <2>. QED  BY <2>3, <2>4, <1>3
<1>8. ASSUME NEW p \in 1..b
      PROVE  \E k \in DOMAIN sections' : p \in sections'[k].first..sections'[k].last
  <2>1. CASE p < start
    <3>1. PICK k \in DOMAIN sections : p \in sections[k].first..sections[k].last
      BY <2>1, <1>1 DEF Covered
    <3>2. k \in DOMAIN sections' /\ sections'[k] = sections[k]
      BY <3>1, <1>2 DEF n
    <3>. QED  BY <3>1, <3>2
  <2>2. CASE start <= p
    <3>1. n \in DOMAIN sections'
      BY <1>2 DEF n
    <3>2. p \in sections'[n].first..sections'[n].last
      BY <2>2, <1>1, <1>2
    <3>. QED  BY <3>1, <3>2
  <2>. QED  BY <2>1, <2>2, <1>1
<1>9. Ordered'
  BY <1>6, <1>7 DEF Ordered
<1>10. sections' # <<>>
  BY <1>2 DEF n
<1>. QED  BY <1>2, <1>6, <1>8, <1>9, <1>10 DEF Covered

LEMMA CloseInv == IInv /\ CloseSection => IInv'
<1> SUFFICES ASSUME IInv, CloseSection PROVE IInv'
  OBVIOUS
<1>1. PICK S : pages \in Seq(S)
  BY DEF IInv, AreSequences
<1>2. Len(pages) \in Nat
  BY <1>1, LenProperties
<1>3. pc = "segment" /\ pc' = "segment" /\ at <= Len(pages)
      /\ Close(start, at - 1) /\ start' = at /\ at' = at + 1 /\ pages' = pages
  BY DEF CloseSection
<1>4. start \in Nat /\ at \in Nat /\ 1 <= start /\ start < at
  BY <1>3 DEF IInv, Progress
<1>5. at - 1 \in Nat /\ start <= at - 1
  BY <1>4
<1>6. /\ \E T : sections' \in Seq(T)
      /\ Ordered'
      /\ \A k \in DOMAIN sections' : sections'[k].last <= at - 1
      /\ \A p \in 1..(at - 1) : Covered(p)'
  BY <1>3, <1>5, CloseKeeps
<1>7. \A k \in DOMAIN sections' : sections'[k].last < at
  BY <1>4, <1>6 DEF Ordered
<1>8. Progress'
  BY <1>2, <1>3, <1>4, <1>6, <1>7 DEF Progress
<1>9. AreSequences'
  BY <1>1, <1>3, <1>6 DEF AreSequences
<1>. QED  BY <1>6, <1>8, <1>9 DEF IInv

LEMMA CloseLastInv == IInv /\ CloseLast => IInv'
<1> SUFFICES ASSUME IInv, CloseLast PROVE IInv'
  OBVIOUS
<1>1. PICK S : pages \in Seq(S)
  BY DEF IInv, AreSequences
<1>2. Len(pages) \in Nat /\ DOMAIN pages = 1..Len(pages)
  BY <1>1, LenProperties
<1>3. pc = "segment" /\ pc' = "assemble" /\ at > Len(pages)
      /\ Close(start, Len(pages)) /\ pages' = pages
  BY DEF CloseLast
<1>4. start \in Nat /\ at \in Nat /\ start < at /\ at <= Len(pages) + 1
  BY <1>3 DEF IInv, Progress
<1>5. start <= Len(pages)
  BY <1>2, <1>4
<1>6. /\ \E T : sections' \in Seq(T)
      /\ sections' # <<>>
      /\ Ordered'
      /\ \A k \in DOMAIN sections' : sections'[k].last <= Len(pages)
      /\ \A p \in 1..Len(pages) : Covered(p)'
  BY <1>2, <1>3, <1>5, CloseKeeps
<1>7. Progress'
  BY <1>2, <1>3, <1>6 DEF Progress
<1>8. AreSequences'
  BY <1>1, <1>3, <1>6 DEF AreSequences
<1>. QED  BY <1>6, <1>7, <1>8 DEF IInv

\* Once the segmenter is done, nothing touches its sections, and the number
\* of pages stays.
LEMMA LaterInv ==
  ASSUME IInv, pc # "segment", pc' # "segment", sections' = sections,
         pages' = pages \/ \E built : pages' = AfterAssembly(built)
  PROVE  IInv'
<1>1. (\E S : pages' \in Seq(S)) /\ DOMAIN pages' = DOMAIN pages /\ Len(pages') = Len(pages)
  BY AssemblyKeepsPages DEF IInv, AreSequences
<1>2. AreSequences' /\ Ordered'
  BY <1>1 DEF IInv, AreSequences, Ordered
<1>3. Progress'
  BY <1>1 DEF IInv, Progress, Covered
<1>. QED  BY <1>2, <1>3 DEF IInv

LEMMA StepInv == IInv /\ [Next]_vars => IInv'
<1> SUFFICES ASSUME IInv, [Next]_vars PROVE IInv'
  OBVIOUS
<1>1. CASE ExtendSection
  BY <1>1, ExtendInv
<1>2. CASE CloseSection
  BY <1>2, CloseInv
<1>3. CASE CloseLast
  BY <1>3, CloseLastInv
<1>4. CASE Assemble
  BY <1>4, LaterInv DEF Assemble
<1>5. CASE PickTable
  BY <1>5, LaterInv DEF PickTable, Finish
<1>6. CASE NoTable
  BY <1>6, LaterInv DEF NoTable, Finish
<1>7. CASE ParseText
  BY <1>7, LaterInv DEF ParseText, Finish
<1>8. CASE Retry
  BY <1>8, LaterInv DEF Retry, AssembleWhole
<1>9. CASE Validate
  BY <1>9, LaterInv DEF Validate, AssembleWhole
<1>10. CASE UNCHANGED vars
  BY <1>10 DEF vars, IInv, AreSequences, Progress, Ordered, Covered
<1>. QED  BY <1>1, <1>2, <1>3, <1>4, <1>5, <1>6, <1>7, <1>8, <1>9, <1>10 DEF Next

\* No page of a document is left out of its sections, or in two of them
\* (segment_document).
THEOREM PagesPartitioned == Spec => []SectionsPartition
<1>1. IInv => SectionsPartition
  BY DEF IInv, Progress, Ordered, Covered, SectionsPartition
<1>. QED  BY <1>1, InitInv, StepInv, PTL DEF Spec

------------------------------------------------------------------------------
(* Induction and definitions by steps along numbers.                         *)

\* Induction along m..n, for a set of numbers.
LEMMA Upward ==
  ASSUME NEW m \in Nat, NEW n \in Nat, NEW S, m \in S,
         \A k \in (m + 1)..n : k - 1 \in S => k \in S
  PROVE  m..n \subseteq S
<1> DEFINE R == OpToRel(<, Nat)
           M == (m..n) \ S
<1>1. IsWellFoundedOn(R, Nat)
  BY NatLessThanWellFounded
<1>2. \A x, y \in Nat : y < x => <<y, x>> \in R
  BY DEF OpToRel
<1> HIDE DEF R
<1> SUFFICES ASSUME M # {} PROVE FALSE
  OBVIOUS
<1>3. PICK x \in M : \A y \in M : ~ (<<y, x>> \in R)
  <2>1. M \in SUBSET Nat
    OBVIOUS
  <2> HIDE DEF M
  <2> QED
    BY <1>1, <2>1, WFMin
<1>4. x \in (m + 1)..n /\ x - 1 \in m..n /\ x - 1 < x /\ x - 1 \in Nat /\ x \in Nat
  BY <1>3
<1>5. x - 1 \notin M
  BY <1>2, <1>3, <1>4
<1> QED
  BY <1>3, <1>4, <1>5

Walks(f, n, base, step) == f[1] = base /\ \A k \in 2..n : f[k] = step[k][f[k - 1]]

\* A function on 1..n given by its first value and by a step from each value
\* to the next exists.
LEMMA Stepwise ==
  ASSUME NEW n \in Nat \ {0}, NEW X, NEW base \in X, NEW step \in [1..n -> [X -> X]]
  PROVE  \E f \in [1..n -> X] : Walks(f, n, base, step)
<1> DEFINE Good(m, f) == /\ f \in [1..m -> X] /\ f[1] = base
                         /\ \A k \in 2..m : f[k] = step[k][f[k - 1]]
           S == {m \in 1..n : \E f : Good(m, f)}
<1>1. 1 \in S
  <2>1. Good(1, [k \in 1..1 |-> base])
    OBVIOUS
  <2> HIDE DEF Good
  <2> QED  BY <2>1
<1>2. ASSUME NEW m \in 2..n, m - 1 \in S PROVE m \in S
  <2>1. PICK f : Good(m - 1, f)
    BY <1>2
  <2> DEFINE g == [k \in 1..m |-> IF k = m THEN step[m][f[m - 1]] ELSE f[k]]
  <2>2. m - 1 \in 1..(m - 1) /\ m \in 1..n
    OBVIOUS
  <2>3. f[m - 1] \in X
    BY <2>1, <2>2
  <2>4. step[m][f[m - 1]] \in X
    BY <2>2, <2>3
  <2>5. g \in [1..m -> X]
    BY <2>1, <2>4
  <2>6. g[1] = base
    BY <2>1
  <2>7. ASSUME NEW k \in 2..m PROVE g[k] = step[k][g[k - 1]]
    <3>1. g[k - 1] = f[k - 1]
      OBVIOUS
    <3>2. CASE k = m
      <4>1. g[m] = step[m][f[m - 1]]
        OBVIOUS
      <4> HIDE DEF g
      <4> QED  BY <3>1, <3>2, <4>1
    <3>3. CASE k # m
      <4>1. k \in 2..(m - 1)
        BY <3>3
      <4>2. f[k] = step[k][f[k - 1]]
        BY <2>1, <4>1
      <4>3. g[k] = f[k]
        BY <3>3
      <4> HIDE DEF g
      <4> QED  BY <3>1, <4>2, <4>3
    <3> QED  BY <3>2, <3>3
  <2>8. Good(m, g)
    BY <2>5, <2>6, <2>7
  <2> HIDE DEF Good, g
  <2> QED  BY <2>8
<1>3. n \in S
  <2> HIDE DEF S
  <2>1. 1..n \subseteq S
    BY <1>1, <1>2, Upward, 1 + 1 = 2
  <2> QED  BY <2>1
<1> QED  BY <1>3 DEF Walks

------------------------------------------------------------------------------
(* Sequences put one behind the other, and the rows of tables.               *)

\* The partial results of FlattenSeq.
Flattens(f, seqs) ==
  /\ f[1] = seqs[1]
  /\ \A i \in 2..Len(seqs) : f[i] = f[i - 1] \o seqs[i]
  /\ FlattenSeq(seqs) = f[Len(seqs)]

\* Flattening a list of lists joins them one by one.
LEMMA FlattenIs ==
  ASSUME NEW S, NEW seqs \in Seq(Seq(S)), seqs # <<>>
  PROVE  \E f \in [1..Len(seqs) -> Seq(S)] : Flattens(f, seqs)
<1> DEFINE n == Len(seqs)
           X == Seq(S)
           step == [k \in 1..n |-> [s \in X |-> s \o seqs[k]]]
<1>1. n \in Nat /\ n >= 1 /\ seqs[1] \in X /\ \A i \in 1..n : seqs[i] \in X
  BY EmptySeq, LenProperties, ElementOfSeq
<1>2. step \in [1..n -> [X -> X]]
  BY <1>1, ConcatProperties
<1>3. PICK f \in [1..n -> X] : Walks(f, n, seqs[1], step)
  <2>1. n \in Nat \ {0} /\ seqs[1] \in X
    BY <1>1
  <2> HIDE DEF n, X, step
  <2> QED  BY <1>2, <2>1, Stepwise
<1>4. f = [i \in 1..n |-> IF i = 1 THEN seqs[i] ELSE f[i - 1] \o seqs[i]]
  <2>1. ASSUME NEW i \in 2..n PROVE f[i] = f[i - 1] \o seqs[i]
    <3>1. i - 1 \in 1..n /\ i \in 1..n
      BY <1>1
    <3>2. f[i - 1] \in X
      BY <3>1
    <3> QED  BY <1>3, <3>1, <3>2 DEF Walks
  <2>2. \A i \in 1..n : i = 1 \/ i \in 2..n
    BY <1>1
  <2> HIDE DEF X, n
  <2> QED  BY <1>3, <2>1, <2>2 DEF Walks
<1> DEFINE g == CHOOSE h : h = [i \in 1..Len(seqs) |->
                                  IF i = 1 THEN seqs[i] ELSE h[i - 1] \o seqs[i]]
<1>5. g = [i \in 1..Len(seqs) |-> IF i = 1 THEN seqs[i] ELSE g[i - 1] \o seqs[i]]
  BY <1>4
<1>6. FlattenSeq(seqs) = g[Len(seqs)]
  BY <1>1 DEF FlattenSeq
<1> HIDE DEF g
<1>7. g[1] = seqs[1] /\ \A i \in 2..n : g[i] = g[i - 1] \o seqs[i] /\ i \in 1..n
  <2>1. 1 \in 1..n
    BY <1>1
  <2>2. ASSUME NEW i \in 2..n PROVE g[i] = g[i - 1] \o seqs[i] /\ i \in 1..n
    <3>1. i \in 1..n /\ i # 1
      BY <1>1
    <3> QED  BY <1>5, <3>1
  <2> QED  BY <1>5, <2>1, <2>2
<1>8. \A i \in 1..n : g[i] \in X
  <2> DEFINE Reached == {i \in 1..n : g[i] \in X}
  <2>1. 1 \in Reached
    BY <1>1, <1>7
  <2>2. ASSUME NEW k \in 2..n, k - 1 \in Reached PROVE k \in Reached
    <3>1. g[k] = g[k - 1] \o seqs[k] /\ k \in 1..n
      BY <1>7
    <3>2. g[k - 1] \in X /\ seqs[k] \in X
      BY <1>1, <2>2, <3>1
    <3>3. g[k - 1] \o seqs[k] \in X
      BY <3>2, ConcatProperties
    <3> QED  BY <3>1, <3>3
  <2>3. 1..n \subseteq Reached
    <3> HIDE DEF Reached
    <3> QED  BY <1>1, <2>1, <2>2, Upward, 1 + 1 = 2
  <2> QED  BY <2>3
<1>9. g \in [1..n -> X]
  BY <1>5, <1>8
<1> QED  BY <1>6, <1>7, <1>9 DEF Flattens

LEMMA FlattenType ==
  ASSUME NEW S, NEW seqs \in Seq(Seq(S))
  PROVE  FlattenSeq(seqs) \in Seq(S)
<1>1. CASE seqs = <<>>
  BY <1>1, EmptySeq DEF FlattenSeq
<1>2. CASE seqs # <<>>
  <2>1. Len(seqs) \in 1..Len(seqs)
    BY <1>2, EmptySeq
  <2>2. PICK f \in [1..Len(seqs) -> Seq(S)] : Flattens(f, seqs)
    BY <1>2, FlattenIs
  <2> QED  BY <2>1, <2>2 DEF Flattens
<1> QED  BY <1>1, <1>2

\* Flattening one more list appends its elements.
LEMMA FlattenAppend ==
  ASSUME NEW S, NEW seqs \in Seq(Seq(S)), NEW x \in Seq(S)
  PROVE  FlattenSeq(Append(seqs, x)) = FlattenSeq(seqs) \o x
<1> DEFINE n == Len(seqs)
           all == Append(seqs, x)
<1>1. /\ all \in Seq(Seq(S)) /\ all # <<>> /\ Len(all) = n + 1 /\ n \in Nat
      /\ \A i \in 1..n : all[i] = seqs[i]
      /\ all[n + 1] = x
  BY AppendProperties, LenProperties
<1> HIDE DEF all
<1>2. PICK g \in [1..Len(all) -> Seq(S)] : Flattens(g, all)
  BY <1>1, FlattenIs
<1>3. CASE seqs = <<>>
  <2>1. n = 0 /\ FlattenSeq(seqs) = <<>>
    BY <1>3, EmptySeq DEF FlattenSeq
  <2> QED  BY <1>1, <1>2, <2>1, ConcatEmptySeq DEF all, Flattens
<1>4. CASE seqs # <<>>
  <2>1. PICK f \in [1..n -> Seq(S)] : Flattens(f, seqs)
    BY <1>4, FlattenIs
  <2>2. n >= 1
    BY <1>4, EmptySeq
  <2> DEFINE Same == {i \in 1..n : g[i] = f[i]}
  <2>3. 1 \in Same
    BY <1>1, <1>2, <2>1, <2>2 DEF Flattens
  <2>4. ASSUME NEW k \in 2..n, k - 1 \in Same PROVE k \in Same
    <3>1. k \in 1..n /\ k \in 2..(n + 1)
      BY <1>1
    <3> QED  BY <1>1, <1>2, <2>1, <2>4, <3>1 DEF Flattens
  <2>5. 1..n \subseteq Same
    <3> HIDE DEF Same, n
    <3> QED  BY <1>1, <2>3, <2>4, Upward, 1 + 1 = 2
  <2>6. g[n] = f[n]
    <3>1. n \in 1..n
      BY <1>1, <2>2
    <3>2. n \in Same
      BY <2>5, <3>1
    <3> QED  BY <3>2
  <2>7. g[n + 1] = g[n] \o x
    <3>1. n + 1 \in 2..(n + 1) /\ (n + 1) - 1 = n
      BY <1>1, <2>2
    <3> QED  BY <1>1, <1>2, <3>1 DEF Flattens
  <2> QED  BY <1>1, <1>2, <2>1, <2>6, <2>7 DEF all, Flattens
<1> QED  BY <1>3, <1>4

\* Flattening two lists, one behind the other.
LEMMA FlattenConcat ==
  ASSUME NEW S, NEW a \in Seq(Seq(S)), NEW b \in Seq(Seq(S))
  PROVE  FlattenSeq(a \o b) = FlattenSeq(a) \o FlattenSeq(b)
<1> DEFINE n == Len(b)
           first(k) == SubSeq(b, 1, k)
           Split == {k \in 0..n : FlattenSeq(a \o first(k)) = FlattenSeq(a) \o FlattenSeq(first(k))}
<1>1. n \in Nat /\ \A k \in 0..n : first(k) \in Seq(Seq(S))
  <2>1. n \in Nat
    BY LenProperties
  <2>2. ASSUME NEW k \in 0..n PROVE first(k) \in Seq(Seq(S))
    <3>1. \A i \in 1..k : b[i] \in Seq(S)
      BY <2>1, ElementOfSeq
    <3> QED  BY <2>1, <3>1, SubSeqProperties
  <2> QED  BY <2>1, <2>2
<1>2. FlattenSeq(a) \in Seq(S)
  BY FlattenType
<1>3. 0 \in Split
  <2>1. first(0) = <<>>
    BY SubSeqEmpty
  <2>2. a \o <<>> = a /\ FlattenSeq(a) \o <<>> = FlattenSeq(a)
    BY <1>2, ConcatEmptySeq
  <2>3. FlattenSeq(<<>>) = <<>>
    BY DEF FlattenSeq
  <2>4. FlattenSeq(a \o first(0)) = FlattenSeq(a) \o FlattenSeq(first(0))
    <3> HIDE DEF first
    <3> QED  BY <2>1, <2>2, <2>3
  <2>5. 0 \in 0..n
    BY <1>1
  <2> HIDE DEF first, n
  <2> QED  BY <2>4, <2>5
<1>4. ASSUME NEW k \in 1..n, k - 1 \in Split PROVE k \in Split
  <2>1. k - 1 \in 0..n /\ k \in 0..n /\ b[k] \in Seq(S)
    BY <1>1, ElementOfSeq
  <2>2. first(k) = Append(first(k - 1), b[k])
    <3>1. first(k) = first(k - 1) \o <<b[k]>>
      BY <1>1, SubSeqRecursiveSecond
    <3>2. first(k - 1) \in Seq(Seq(S))
      BY <1>1, <2>1
    <3> HIDE DEF first
    <3> QED  BY <2>1, <3>1, <3>2, AppendIsConcat
  <2> HIDE DEF first, n
  <2>3. a \o first(k) = Append(a \o first(k - 1), b[k])
    <3>1. <<b[k]>> \in Seq(Seq(S))
      BY <2>1
    <3>2. first(k) = first(k - 1) \o <<b[k]>>
      BY <1>1, <2>1, <2>2, AppendIsConcat
    <3>3. a \o first(k - 1) \in Seq(Seq(S))
      BY <1>1, <2>1, ConcatProperties
    <3>4. a \o (first(k - 1) \o <<b[k]>>) = (a \o first(k - 1)) \o <<b[k]>>
      BY <1>1, <2>1, <3>1, ConcatAssociative
    <3> QED  BY <2>1, <3>2, <3>3, <3>4, AppendIsConcat
  <2>4. FlattenSeq(a \o first(k)) = FlattenSeq(a \o first(k - 1)) \o b[k]
    BY <1>1, <2>1, <2>3, ConcatProperties, FlattenAppend
  <2>5. FlattenSeq(first(k)) = FlattenSeq(first(k - 1)) \o b[k]
    BY <1>1, <2>1, <2>2, FlattenAppend
  <2>6. FlattenSeq(first(k - 1)) \in Seq(S)
    BY <1>1, <2>1, FlattenType
  <2>7. (FlattenSeq(a) \o FlattenSeq(first(k - 1))) \o b[k]
          = FlattenSeq(a) \o (FlattenSeq(first(k - 1)) \o b[k])
    <3> DEFINE p == FlattenSeq(a)
               q == FlattenSeq(first(k - 1))
               x == b[k]
    <3>1. p \in Seq(S) /\ q \in Seq(S) /\ x \in Seq(S)
      BY <1>2, <2>1, <2>6
    <3> HIDE DEF p, q, x
    <3>2. (p \o q) \o x = p \o (q \o x)
      BY <3>1, ConcatAssociative
    <3> QED  BY <3>2 DEF p, q, x
  <2> QED  BY <1>4, <2>1, <2>4, <2>5, <2>7
<1>5. 0..n \subseteq Split
  <2> HIDE DEF Split, n
  <2> QED  BY <1>1, <1>3, <1>4, Upward, 0 + 1 = 1
<1>6. n \in Split
  BY <1>1, <1>5
<1>7. first(n) = b
  BY SubSeqFull
<1> QED  BY <1>6, <1>7


\* Tables with their rows, whatever else they carry.
Rowed(T, R) == \A t \in T : t.rows \in Seq(R)

LEMMA RowLists ==
  ASSUME NEW T, NEW R, Rowed(T, R), NEW ts \in Seq(T)
  PROVE  /\ [i \in DOMAIN ts |-> ts[i].rows] \in Seq(Seq(R))
         /\ Len([i \in DOMAIN ts |-> ts[i].rows]) = Len(ts)
         /\ DOMAIN ts = 1..Len(ts) /\ Len(ts) \in Nat
         /\ RowsOf(ts) \in Seq(R)
<1> DEFINE l == [i \in DOMAIN ts |-> ts[i].rows]
<1>1. DOMAIN ts = 1..Len(ts) /\ Len(ts) \in Nat /\ \A i \in 1..Len(ts) : ts[i] \in T
  BY LenProperties, ElementOfSeq
<1>2. l \in [1..Len(ts) -> Seq(R)]
  BY <1>1 DEF Rowed
<1> HIDE DEF l
<1>3. l \in Seq(Seq(R))
  BY <1>1, <1>2, SeqDef
<1>4. Len(l) = Len(ts)
  BY <1>1, <1>2, <1>3, LenProperties
<1>5. FlattenSeq(l) \in Seq(R)
  BY <1>3, FlattenType
<1> QED  BY <1>1, <1>3, <1>4, <1>5 DEF l, RowsOf

\* The rows of one more table come behind the others.
LEMMA RowsOfAppend ==
  ASSUME NEW T, NEW R, Rowed(T, R), NEW ts \in Seq(T), NEW t \in T
  PROVE  RowsOf(Append(ts, t)) = RowsOf(ts) \o t.rows
<1> DEFINE l == [i \in DOMAIN ts |-> ts[i].rows]
           m == [i \in DOMAIN Append(ts, t) |-> Append(ts, t)[i].rows]
           n == Len(ts)
<1>1. l \in Seq(Seq(R)) /\ Len(l) = n /\ DOMAIN ts = 1..n /\ n \in Nat
  BY RowLists
<1>2. /\ Append(ts, t) \in Seq(T) /\ Len(Append(ts, t)) = n + 1
      /\ \A i \in 1..n : Append(ts, t)[i] = ts[i]
      /\ Append(ts, t)[n + 1] = t
  BY AppendProperties
<1>3. m \in Seq(Seq(R)) /\ Len(m) = n + 1 /\ DOMAIN Append(ts, t) = 1..(n + 1)
  BY <1>2, RowLists
<1>4. t.rows \in Seq(R)
  BY DEF Rowed
<1>5. \A i \in 1..n : m[i] = l[i]
  BY <1>1, <1>2, <1>3
<1>6. m[n + 1] = t.rows
  BY <1>1, <1>2, <1>3
<1>7. m = Append(l, t.rows)
  <2> HIDE DEF l, m, n
  <2>1. /\ Append(l, t.rows) \in Seq(Seq(R)) /\ Len(Append(l, t.rows)) = n + 1
        /\ \A i \in 1..n : Append(l, t.rows)[i] = l[i]
        /\ Append(l, t.rows)[n + 1] = t.rows
    BY <1>1, <1>4, AppendProperties
  <2>2. \A i \in 1..(n + 1) : i \in 1..n \/ i = n + 1
    BY <1>1
  <2>3. \A i \in 1..(n + 1) : m[i] = Append(l, t.rows)[i]
    BY <1>5, <1>6, <2>1, <2>2
  <2> QED  BY <1>3, <2>1, <2>3, SeqEqual
<1>8. FlattenSeq(m) = FlattenSeq(l) \o t.rows
  <2> HIDE DEF l, m, n
  <2> QED  BY <1>1, <1>4, <1>7, FlattenAppend
<1> QED  BY <1>8 DEF RowsOf

LEMMA RowsOfConcat ==
  ASSUME NEW T, NEW R, Rowed(T, R), NEW a \in Seq(T), NEW b \in Seq(T)
  PROVE  RowsOf(a \o b) = RowsOf(a) \o RowsOf(b)
<1> DEFINE l == [i \in DOMAIN a |-> a[i].rows]
           r == [i \in DOMAIN b |-> b[i].rows]
           m == [i \in DOMAIN (a \o b) |-> (a \o b)[i].rows]
<1>1. l \in Seq(Seq(R)) /\ Len(l) = Len(a) /\ DOMAIN a = 1..Len(a) /\ Len(a) \in Nat
  BY RowLists
<1>2. r \in Seq(Seq(R)) /\ Len(r) = Len(b) /\ DOMAIN b = 1..Len(b) /\ Len(b) \in Nat
  BY RowLists
<1>3. /\ a \o b \in Seq(T) /\ Len(a \o b) = Len(a) + Len(b)
      /\ \A i \in 1..(Len(a) + Len(b)) :
           (a \o b)[i] = IF i <= Len(a) THEN a[i] ELSE b[i - Len(a)]
  BY ConcatProperties
<1>4. /\ m \in Seq(Seq(R)) /\ Len(m) = Len(a) + Len(b)
      /\ DOMAIN (a \o b) = 1..(Len(a) + Len(b))
  BY <1>3, RowLists
<1>5. \A i \in 1..(Len(a) + Len(b)) : m[i] = IF i <= Len(a) THEN l[i] ELSE r[i - Len(a)]
  BY <1>1, <1>2, <1>3, <1>4
<1>6. m = l \o r
  <2> HIDE DEF l, r, m
  <2>1. /\ l \o r \in Seq(Seq(R)) /\ Len(l \o r) = Len(a) + Len(b)
        /\ \A i \in 1..(Len(a) + Len(b)) :
             (l \o r)[i] = IF i <= Len(a) THEN l[i] ELSE r[i - Len(a)]
    <3>1. Len(l \o r) = Len(l) + Len(r)
      BY <1>1, <1>2, ConcatProperties
    <3>2. \A i \in 1..(Len(l) + Len(r)) :
             (l \o r)[i] = IF i <= Len(l) THEN l[i] ELSE r[i - Len(l)]
      BY <1>1, <1>2, ConcatProperties
    <3>3. l \o r \in Seq(Seq(R))
      BY <1>1, <1>2, ConcatProperties
    <3> QED  BY <1>1, <1>2, <3>1, <3>2, <3>3
  <2> QED  BY <1>4, <1>5, <2>1, SeqEqual
<1>7. FlattenSeq(m) = FlattenSeq(l) \o FlattenSeq(r)
  <2> HIDE DEF l, r, m
  <2> QED  BY <1>1, <1>2, <1>6, FlattenConcat
<1> QED  BY <1>7 DEF RowsOf

\* When the last table takes in further rows.
TakesIn(v, u, x) == v.rows = u.rows \o x
WithLast(ts, v)  == [ts EXCEPT ![Len(ts)] = v]

\* Rows appended to the last table come behind all rows.
LEMMA RowsOfReplaced ==
  ASSUME NEW T, NEW R, Rowed(T, R), NEW ts \in Seq(T), ts # <<>>, NEW v \in T,
         NEW x \in Seq(R), TakesIn(v, Last(ts), x)
  PROVE  WithLast(ts, v) \in Seq(T) /\ RowsOf(WithLast(ts, v)) = RowsOf(ts) \o x
<1>1. PICK s \in Seq(T), t \in T : ts = Append(s, t)
  BY SequenceEmptyOrAppend
<1>2. /\ Len(ts) = Len(s) + 1 /\ Len(s) \in Nat
      /\ \A i \in 1..Len(s) : ts[i] = s[i]
      /\ ts[Len(s) + 1] = t /\ DOMAIN ts = 1..Len(ts)
  BY <1>1, AppendProperties, LenProperties
<1>3. Last(ts) = t
  BY <1>2 DEF Last
<1>4. WithLast(ts, v) = Append(s, v)
  <2> DEFINE u == [ts EXCEPT ![Len(ts)] = v]
  <2>1. Len(ts) \in 1..Len(ts)
    BY <1>2
  <2>2. /\ u \in Seq(T) /\ Len(u) = Len(ts)
        /\ \A j \in 1..Len(ts) : u[j] = IF j = Len(ts) THEN v ELSE ts[j]
    BY <2>1, ExceptSeq
  <2> HIDE DEF u
  <2>3. /\ Append(s, v) \in Seq(T) /\ Len(Append(s, v)) = Len(s) + 1
        /\ \A i \in 1..Len(s) : Append(s, v)[i] = s[i]
        /\ Append(s, v)[Len(s) + 1] = v
    BY AppendProperties
  <2>4. \A i \in 1..(Len(s) + 1) : i \in 1..Len(s) \/ i = Len(s) + 1
    BY <1>2
  <2>5. \A i \in 1..Len(s) : i # Len(ts) /\ i \in 1..Len(ts)
    BY <1>2
  <2>6. \A i \in 1..(Len(s) + 1) : u[i] = Append(s, v)[i]
    BY <1>2, <2>1, <2>2, <2>3, <2>4, <2>5
  <2>7. u = Append(s, v)
    BY <1>2, <2>2, <2>3, <2>6, SeqEqual
  <2> QED  BY <2>7 DEF u, WithLast
<1>5. t.rows \in Seq(R) /\ RowsOf(s) \in Seq(R)
  BY RowLists DEF Rowed
<1>6. RowsOf(Append(s, v)) = RowsOf(s) \o (t.rows \o x)
  BY <1>3, RowsOfAppend DEF TakesIn
<1>7. RowsOf(ts) = RowsOf(s) \o t.rows
  BY <1>1, RowsOfAppend
<1>8. RowsOf(s) \o (t.rows \o x) = (RowsOf(s) \o t.rows) \o x
  <2> DEFINE p == RowsOf(s)
             q == t.rows
  <2>1. p \in Seq(R) /\ q \in Seq(R)
    BY <1>5
  <2> HIDE DEF p, q
  <2>2. p \o (q \o x) = (p \o q) \o x
    BY ONLY <2>1, x \in Seq(R), ConcatAssociative
  <2> QED  BY <2>2 DEF p, q
<1>9. Append(s, v) \in Seq(T)
  BY AppendProperties
<1> QED  BY <1>4, <1>6, <1>7, <1>8, <1>9

LEMMA IsSequence ==
  ASSUME NEW n \in Nat, NEW S, NEW f \in [1..n -> S]
  PROVE  f \in Seq(S) /\ Len(f) = n
<1>1. f \in Seq(S)
  BY SeqDef
<1> QED  BY <1>1, LenProperties

LEMMA ConcatHas ==
  ASSUME NEW S, NEW a \in Seq(S), NEW b \in Seq(S)
  PROVE  /\ \A i \in DOMAIN a : i \in DOMAIN (a \o b) /\ (a \o b)[i] = a[i]
         /\ \A i \in DOMAIN b : i + Len(a) \in DOMAIN (a \o b) /\ (a \o b)[i + Len(a)] = b[i]
<1>1. /\ Len(a) \in Nat /\ DOMAIN a = 1..Len(a)
      /\ Len(b) \in Nat /\ DOMAIN b = 1..Len(b)
  BY LenProperties
<1>2. DOMAIN (a \o b) = 1..(Len(a) + Len(b))
  BY ConcatProperties, LenProperties
<1>3. \A i \in 1..(Len(a) + Len(b)) :
        (a \o b)[i] = IF i <= Len(a) THEN a[i] ELSE b[i - Len(a)]
  BY ConcatProperties
<1>4. ASSUME NEW i \in DOMAIN a
      PROVE  i \in DOMAIN (a \o b) /\ (a \o b)[i] = a[i]
  <2>1. i \in 1..(Len(a) + Len(b)) /\ i <= Len(a)
    BY <1>1
  <2> QED  BY <1>2, <1>3, <2>1
<1>5. ASSUME NEW i \in DOMAIN b
      PROVE  i + Len(a) \in DOMAIN (a \o b) /\ (a \o b)[i + Len(a)] = b[i]
  <2>1. i + Len(a) \in 1..(Len(a) + Len(b)) /\ ~ (i + Len(a) <= Len(a))
        /\ (i + Len(a)) - Len(a) = i
    BY <1>1
  <2> QED  BY <1>2, <1>3, <2>1
<1> QED  BY <1>4, <1>5

LEMMA RowsOfFlatten ==
  ASSUME NEW T, NEW R, Rowed(T, R), NEW tss \in Seq(Seq(T))
  PROVE  RowsOf(FlattenSeq(tss)) = FlattenSeq([i \in DOMAIN tss |-> RowsOf(tss[i])])
<1> DEFINE n == Len(tss)
           all == [i \in DOMAIN tss |-> RowsOf(tss[i])]
<1>1. n \in Nat /\ DOMAIN tss = 1..n /\ \A i \in 1..n : tss[i] \in Seq(T)
  BY LenProperties, ElementOfSeq
<1>2. \A i \in 1..n : RowsOf(tss[i]) \in Seq(R)
  BY <1>1, RowLists
<1>3. all \in [1..n -> Seq(R)]
  BY <1>1, <1>2
<1>4. all \in Seq(Seq(R)) /\ Len(all) = n
  <2> HIDE DEF all, n
  <2> QED  BY <1>1, <1>3, IsSequence
<1>5. CASE tss = <<>>
  <2>1. FlattenSeq(tss) = <<>> /\ n = 0
    BY <1>5, EmptySeq DEF FlattenSeq
  <2>2. all = <<>>
    BY <1>4, <2>1, EmptySeq
  <2>3. RowsOf(<<>>) = <<>>
    BY DEF RowsOf, FlattenSeq
  <2>4. FlattenSeq(<<>>) = <<>>
    BY DEF FlattenSeq
  <2> HIDE DEF all
  <2>5. RowsOf(FlattenSeq(tss)) = FlattenSeq(all)
    BY <2>1, <2>2, <2>3, <2>4
  <2> QED  BY <2>5 DEF all
<1>6. CASE tss # <<>>
  <2>1. n >= 1
    BY <1>6, EmptySeq
  <2>2. PICK f \in [1..n -> Seq(T)] : Flattens(f, tss)
    BY <1>6, FlattenIs
  <2>3. all # <<>>
    <3> HIDE DEF all
    <3> QED  BY <1>4, <2>1, EmptySeq
  <2>4. PICK g \in [1..n -> Seq(R)] : Flattens(g, all)
    <3> HIDE DEF all
    <3> QED  BY <1>4, <2>3, FlattenIs
  <2> DEFINE Same == {i \in 1..n : RowsOf(f[i]) = g[i]}
  <2>5. 1 \in Same
    <3>1. 1 \in 1..n
      BY <1>1, <2>1
    <3>2. f[1] = tss[1] /\ g[1] = all[1]
      BY <2>2, <2>4 DEF Flattens
    <3>3. all[1] = RowsOf(tss[1])
      BY <1>1, <3>1
    <3> HIDE DEF all
    <3> QED  BY <3>1, <3>2, <3>3
  <2>6. ASSUME NEW k \in 2..n, k - 1 \in Same PROVE k \in Same
    <3>1. k \in 1..n /\ k - 1 \in 1..n
      BY <1>1
    <3>2. all[k] = RowsOf(tss[k])
      BY <1>1, <3>1
    <3>3. k \in 2..Len(tss) /\ k \in 2..Len(all)
      BY <1>4
    <3> HIDE DEF all
    <3>4. f[k] = f[k - 1] \o tss[k] /\ g[k] = g[k - 1] \o all[k]
      BY <2>2, <2>4, <3>3 DEF Flattens
    <3>5. f[k - 1] \in Seq(T) /\ tss[k] \in Seq(T)
      BY <1>1, <3>1
    <3>6. RowsOf(f[k - 1] \o tss[k]) = RowsOf(f[k - 1]) \o RowsOf(tss[k])
      BY <3>5, RowsOfConcat
    <3> QED  BY <2>6, <3>1, <3>2, <3>4, <3>6
  <2>7. 1..n \subseteq Same
    <3> HIDE DEF Same, n
    <3> QED  BY <1>1, <2>5, <2>6, Upward, 1 + 1 = 2
  <2>8. n \in Same
    <3>1. n \in 1..n
      BY <1>1, <2>1
    <3> QED  BY <2>7, <3>1
  <2>9. RowsOf(FlattenSeq(tss)) = FlattenSeq(all)
    <3>1. FlattenSeq(tss) = f[n] /\ FlattenSeq(all) = g[n]
      <4> HIDE DEF all
      <4> QED  BY <1>4, <2>2, <2>4 DEF Flattens
    <3> HIDE DEF all
    <3> QED  BY <2>8, <3>1
  <2> QED  BY <2>9
<1> QED  BY <1>5, <1>6

------------------------------------------------------------------------------
(* Collecting tables.                                                        *)

AnyRow   == Nat \X Nat \X Nat
AnyTable == [page : Nat, index : Nat, head : Heads, raw : BOOLEAN, ranged : BOOLEAN,
             range : SUBSET Nat, rows : Seq(AnyRow)]

LEMMA TablesAreRowed == Rowed(AnyTable, AnyRow)
BY DEF Rowed, AnyTable

\* Every page a table names is one of P and, those of B apart, one it has rows of.
Named(t) == t.range \cup {t.page}
Sound(t, P, B) ==
  \A p \in Named(t) : p \in P /\ (p \in B \/ \E i \in DOMAIN t.rows : t.rows[i][1] = p)

\* The tables new are those of out with t among them or joined to the last.
Joined(v, u, t) ==
  /\ v \in AnyTable
  /\ v.rows = u.rows \o t.rows /\ v.page = u.page
  /\ v.range \subseteq Named(u) \cup Named(t)
Collects(built, t, new) ==
  \/ new = Append(built, t)
  \/ \E v : Joined(v, Last(built), t) /\ new = [built EXCEPT ![Len(built)] = v]

LEMMA LastIsTable ==
  ASSUME NEW built \in Seq(AnyTable), built # <<>>
  PROVE  Last(built) \in AnyTable /\ Len(built) \in 1..Len(built)
<1>1. Len(built) \in 1..Len(built)
  BY EmptySeq
<1> QED  BY <1>1, ElementOfSeq DEF Last

LEMMA StitchOnCollects ==
  ASSUME NEW built \in Seq(AnyTable), built # <<>>, NEW t \in AnyTable
  PROVE  Collects(built, t, StitchOn(built, t))
<1> DEFINE u == Last(built)
           v == Stitched(u, t)
<1>1. u \in AnyTable
  BY LastIsTable
<1>2. u.rows \in Seq(AnyRow) /\ t.rows \in Seq(AnyRow)
  BY <1>1 DEF AnyTable
<1>3. u.rows \o t.rows \in Seq(AnyRow)
  BY <1>2, ConcatProperties
<1>4. PagesOf(u) \subseteq Named(u) /\ PagesOf(t) \subseteq Named(t)
  BY DEF PagesOf, Named
<1>5. PagesOf(u) \cup PagesOf(t) \subseteq Nat
  BY <1>1 DEF PagesOf, AnyTable
<1> HIDE DEF u
<1>6. Joined(v, u, t)
  <2>1. v.rows = u.rows \o t.rows /\ v.page = u.page /\ v.range = PagesOf(u) \cup PagesOf(t)
    BY <1>1 DEF Stitched, AnyTable
  <2>2. v \in AnyTable
    BY <1>1, <1>3, <1>5 DEF Stitched, AnyTable
  <2> HIDE DEF v
  <2> QED  BY <1>4, <2>1, <2>2 DEF Joined
<1> QED  BY <1>6 DEF Collects, StitchOn, u

LEMMA MergeOnCollects ==
  ASSUME NEW built \in Seq(AnyTable), built # <<>>, NEW t \in AnyTable
  PROVE  Collects(built, t, MergeOn(built, t))
<1> DEFINE u == Last(built)
           v == Merged(u, t)
<1>1. u \in AnyTable
  BY LastIsTable
<1>2. u.rows \in Seq(AnyRow) /\ t.rows \in Seq(AnyRow)
  BY <1>1 DEF AnyTable
<1>3. u.rows \o t.rows \in Seq(AnyRow)
  BY <1>2, ConcatProperties
<1>4. u.range \cup t.range \subseteq Nat
  BY <1>1 DEF AnyTable
<1> HIDE DEF u
<1>5. Joined(v, u, t)
  <2>1. v.rows = u.rows \o t.rows /\ v.page = u.page /\ v.range = u.range \cup t.range
    BY <1>1 DEF Merged, AnyTable
  <2>2. v \in AnyTable
    BY <1>1, <1>3, <1>4 DEF Merged, AnyTable
  <2> HIDE DEF v
  <2> QED  BY <2>1, <2>2 DEF Joined, Named
<1> QED  BY <1>5 DEF Collects, MergeOn, u

\* A table joined of sound ones is sound.
LEMMA JoinedSound ==
  ASSUME NEW P, NEW B, NEW u \in AnyTable, NEW t \in AnyTable, NEW v, Joined(v, u, t),
         Sound(u, P, B), Sound(t, P, B)
  PROVE  Sound(v, P, B)
<1>1. u.rows \in Seq(AnyRow) /\ t.rows \in Seq(AnyRow) /\ v.rows = u.rows \o t.rows
  BY DEF AnyTable, Joined
<1>2. /\ \A i \in DOMAIN u.rows : i \in DOMAIN v.rows /\ v.rows[i] = u.rows[i]
      /\ \A i \in DOMAIN t.rows : \E j \in DOMAIN v.rows : v.rows[j] = t.rows[i]
  <2> DEFINE a == u.rows
             b == t.rows
  <2>1. a \in Seq(AnyRow) /\ b \in Seq(AnyRow) /\ v.rows = a \o b
    BY <1>1
  <2> HIDE DEF a, b
  <2>2. /\ \A i \in DOMAIN a : i \in DOMAIN v.rows /\ v.rows[i] = a[i]
        /\ \A i \in DOMAIN b : i + Len(a) \in DOMAIN v.rows /\ v.rows[i + Len(a)] = b[i]
    BY <2>1, ConcatHas
  <2> QED  BY <2>2 DEF a, b
<1>3. ASSUME NEW p, \E i \in DOMAIN u.rows : u.rows[i][1] = p
      PROVE  \E i \in DOMAIN v.rows : v.rows[i][1] = p
  BY <1>2, <1>3
<1>4. ASSUME NEW p, \E i \in DOMAIN t.rows : t.rows[i][1] = p
      PROVE  \E i \in DOMAIN v.rows : v.rows[i][1] = p
  <2>1. PICK i \in DOMAIN t.rows : t.rows[i][1] = p
    BY <1>4
  <2>2. PICK j \in DOMAIN v.rows : v.rows[j] = t.rows[i]
    BY <1>2
  <2> QED  BY <2>1, <2>2
<1>5. Named(v) \subseteq Named(u) \cup Named(t)
  BY DEF Joined, Named
<1> QED  BY <1>3, <1>4, <1>5 DEF Sound

\* The tables out hold the rows of ts, in order, and are sound if those are.
Keeps(built, ts) ==
  /\ built \in Seq(AnyTable) /\ RowsOf(built) = RowsOf(ts)
  /\ \A P, B : (\A i \in DOMAIN ts : Sound(ts[i], P, B)) =>
                  \A i \in DOMAIN built : Sound(built[i], P, B)

\* Collecting one more table keeps the rows in order and the ranges sound.
LEMMA CollectsKeeps ==
  ASSUME NEW built \in Seq(AnyTable), built # <<>>, NEW t \in AnyTable, NEW s \in Seq(AnyTable),
         Keeps(built, s), NEW new, Collects(built, t, new)
  PROVE  new # <<>> /\ Keeps(new, Append(s, t))
<1>1. t.rows \in Seq(AnyRow)
  BY DEF AnyTable
<1>2. /\ DOMAIN Append(s, t) = 1..(Len(s) + 1) /\ DOMAIN s = 1..Len(s) /\ Len(s) \in Nat
      /\ \A i \in DOMAIN s : i \in DOMAIN Append(s, t) /\ Append(s, t)[i] = s[i]
      /\ Len(s) + 1 \in DOMAIN Append(s, t) /\ Append(s, t)[Len(s) + 1] = t
  BY AppendProperties, LenProperties
<1>3. RowsOf(Append(s, t)) = RowsOf(built) \o t.rows
  BY TablesAreRowed, RowsOfAppend DEF Keeps
<1>4. ASSUME NEW P, NEW B, \A i \in DOMAIN Append(s, t) : Sound(Append(s, t)[i], P, B)
      PROVE  Sound(t, P, B) /\ \A i \in DOMAIN built : Sound(built[i], P, B)
  <2>1. Sound(t, P, B)
    BY <1>2, <1>4
  <2>2. \A i \in DOMAIN s : Sound(s[i], P, B)
    BY <1>2, <1>4
  <2> QED  BY <2>1, <2>2 DEF Keeps
<1>5. CASE new = Append(built, t)
  <2>1. /\ new \in Seq(AnyTable) /\ new # <<>> /\ Len(new) = Len(built) + 1
        /\ \A i \in 1..Len(built) : new[i] = built[i]
        /\ new[Len(built) + 1] = t
        /\ Len(built) \in Nat /\ DOMAIN built = 1..Len(built) /\ DOMAIN new = 1..Len(new)
    BY <1>5, AppendProperties, LenProperties
  <2>2. RowsOf(new) = RowsOf(built) \o t.rows
    BY <1>5, TablesAreRowed, RowsOfAppend
  <2>3. ASSUME NEW P, NEW B, Sound(t, P, B), \A i \in DOMAIN built : Sound(built[i], P, B)
        PROVE  \A i \in DOMAIN new : Sound(new[i], P, B)
    BY <2>1, <2>3
  <2> QED  BY <1>3, <1>4, <2>1, <2>2, <2>3 DEF Keeps
<1>6. CASE \E v : Joined(v, Last(built), t) /\ new = [built EXCEPT ![Len(built)] = v]
  <2>1. PICK v : Joined(v, Last(built), t) /\ new = [built EXCEPT ![Len(built)] = v]
    BY <1>6
  <2>2. v \in AnyTable /\ v.rows = Last(built).rows \o t.rows
    BY <2>1 DEF Joined
  <2>3. Last(built) \in AnyTable /\ Len(built) \in 1..Len(built) /\ Last(built) = built[Len(built)]
    BY LastIsTable DEF Last
  <2>4. new \in Seq(AnyTable) /\ RowsOf(new) = RowsOf(built) \o t.rows
    <3> DEFINE r == t.rows
    <3>1. r \in Seq(AnyRow)
      BY <1>1
    <3>2. TakesIn(v, Last(built), r)
      BY <2>2 DEF TakesIn
    <3> HIDE DEF r
    <3>3. WithLast(built, v) \in Seq(AnyTable) /\ RowsOf(WithLast(built, v)) = RowsOf(built) \o r
      BY <2>2, <3>1, <3>2, TablesAreRowed, RowsOfReplaced
    <3> QED  BY <2>1, <3>3 DEF r, WithLast
  <2>5. /\ Len(new) = Len(built) /\ DOMAIN built = 1..Len(built) /\ DOMAIN new = 1..Len(new)
        /\ \A j \in 1..Len(built) : new[j] = IF j = Len(built) THEN v ELSE built[j]
    BY <2>1, <2>2, <2>3, <2>4, ExceptSeq, LenProperties
  <2>6. new # <<>>
    BY <2>3, <2>5, EmptySeq
  <2>7. ASSUME NEW P, NEW B, Sound(t, P, B), \A i \in DOMAIN built : Sound(built[i], P, B)
        PROVE  \A i \in DOMAIN new : Sound(new[i], P, B)
    <3>1. Sound(v, P, B)
      BY <2>1, <2>3, <2>5, <2>7, JoinedSound
    <3> QED  BY <2>5, <2>7, <3>1
  <2> QED  BY <1>3, <1>4, <2>4, <2>6, <2>7 DEF Keeps
<1> QED  BY <1>5, <1>6 DEF Collects

\* What collecting one table after the other comes to.
LEMMA CollectedKeeps ==
  ASSUME NEW ts \in Seq(AnyTable), ts # <<>>, NEW f, f[1] = <<ts[1]>>,
         \A k \in 2..Len(ts) : f[k - 1] \in Seq(AnyTable) /\ f[k - 1] # <<>> =>
            Collects(f[k - 1], ts[k], f[k])
  PROVE  /\ \A k \in 1..Len(ts) : f[k] \in Seq(AnyTable) /\ f[k] # <<>>
         /\ Keeps(f[Len(ts)], ts)
<1> DEFINE n == Len(ts)
           first(k) == SubSeq(ts, 1, k)
           Reached == {k \in 1..n : f[k] # <<>> /\ Keeps(f[k], first(k))}
<1>1. n \in Nat /\ n >= 1 /\ \A k \in 1..n : ts[k] \in AnyTable
  BY LenProperties, ElementOfSeq, EmptySeq
<1>2. \A k \in 0..n : first(k) \in Seq(AnyTable)
  <2>1. ASSUME NEW k \in 0..n PROVE first(k) \in Seq(AnyTable)
    <3>1. \A i \in 1..k : ts[i] \in AnyTable
      BY <1>1
    <3> QED  BY <1>1, <3>1, SubSeqProperties
  <2> QED  BY <2>1
<1>3. \A k \in 1..n : first(k) = Append(first(k - 1), ts[k])
  <2>1. ASSUME NEW k \in 1..n PROVE first(k) = Append(first(k - 1), ts[k])
    <3>1. first(k) = first(k - 1) \o <<ts[k]>>
      <4>1. 1 \in 1..Len(ts) /\ k \in 1..Len(ts)
        BY <1>1
      <4> QED  BY ONLY <4>1, ts \in Seq(AnyTable), SubSeqRecursiveSecond
    <3>2. first(k - 1) \in Seq(AnyTable)
      BY <1>1, <1>2
    <3> HIDE DEF first
    <3> QED  BY <1>1, <3>1, <3>2, AppendIsConcat
  <2> QED  BY <2>1
<1>4. 1 \in Reached
  <2>1. first(1) = f[1]
    <3>1. first(0) = <<>>
      BY SubSeqEmpty
    <3>2. first(1) = Append(first(0), ts[1])
      BY <1>1, <1>3, 1 - 1 = 0
    <3>3. Append(<<>>, ts[1]) = <<ts[1]>>
      <4>1. ts[1] \in AnyTable /\ <<>> \in Seq(AnyTable) /\ <<ts[1]>> \in Seq(AnyTable)
        BY <1>1
      <4> QED  BY <4>1, AppendIsConcat, ConcatEmptySeq
    <3> HIDE DEF first
    <3> QED  BY <3>1, <3>2, <3>3
  <2>2. f[1] # <<>> /\ first(1) \in Seq(AnyTable) /\ 1 \in 1..n
    BY <1>1, <1>2
  <2> HIDE DEF first, n
  <2>3. Keeps(f[1], first(1))
    BY <2>1, <2>2 DEF Keeps
  <2> QED  BY <2>2, <2>3
<1>5. ASSUME NEW k \in 2..n, k - 1 \in Reached PROVE k \in Reached
  <2>1. k \in 1..n /\ k - 1 \in 0..n
    BY <1>1
  <2>2. f[k - 1] \in Seq(AnyTable) /\ f[k - 1] # <<>> /\ Keeps(f[k - 1], first(k - 1))
    BY <1>5 DEF Keeps
  <2>3. Collects(f[k - 1], ts[k], f[k])
    BY <2>2
  <2> HIDE DEF first, n
  <2>4. f[k] # <<>> /\ Keeps(f[k], Append(first(k - 1), ts[k]))
    BY <1>1, <1>2, <2>1, <2>2, <2>3, CollectsKeeps
  <2> QED  BY <1>3, <2>1, <2>4
<1>6. 1..n \subseteq Reached
  <2> HIDE DEF Reached, n
  <2> QED  BY <1>1, <1>4, <1>5, Upward, 1 + 1 = 2
<1>7. n \in 1..n
  BY <1>1
<1>8. first(n) = ts
  BY SubSeqFull
<1> HIDE DEF first
<1> QED  BY <1>6, <1>7, <1>8 DEF Keeps

\* Collecting step by step is possible to the end.
LEMMA Collecting ==
  ASSUME NEW ts \in Seq(AnyTable), ts # <<>>, NEW X, X = Seq(AnyTable) \ {<<>>},
         NEW step, step = [k \in 1..Len(ts) |-> [s \in X |-> step[k][s]]],
         \A k \in 1..Len(ts) : \A s \in X : Collects(s, ts[k], step[k][s])
  PROVE  \E f \in [1..Len(ts) -> X] : Walks(f, Len(ts), <<ts[1]>>, step)
<1> DEFINE n == Len(ts)
           base == <<ts[1]>>
<1>1. n \in Nat \ {0} /\ \A k \in 1..n : ts[k] \in AnyTable
  BY LenProperties, ElementOfSeq, EmptySeq
<1>2. \A k \in 1..n : \A s \in X : step[k][s] \in X
  <2>1. ASSUME NEW k \in 1..n, NEW s \in X PROVE step[k][s] \in X
    <3>1. Keeps(s, s)
      BY DEF Keeps
    <3>2. step[k][s] # <<>> /\ Keeps(step[k][s], Append(s, ts[k]))
      BY <1>1, <3>1, CollectsKeeps
    <3> QED  BY <3>2 DEF Keeps
  <2> QED  BY <2>1
<1>3. step \in [1..n -> [X -> X]]
  BY <1>2
<1>4. base \in X
  BY <1>1
<1> HIDE DEF n, base
<1>5. \E f \in [1..n -> X] : Walks(f, n, base, step)
  BY ONLY <1>1, <1>3, <1>4, Stepwise
<1> QED  BY <1>5 DEF n, base

\* Stitching loses and reorders no row, and names no page without one.
LEMMA StitchKeeps ==
  ASSUME NEW ts \in Seq(AnyTable)
  PROVE  Keeps(Stitch(ts), ts)
<1>1. CASE ts = <<>>
  BY <1>1 DEF Stitch, Keeps
<1>2. CASE ts # <<>>
  <2> DEFINE n == Len(ts)
             X == Seq(AnyTable) \ {<<>>}
             step == [k \in 1..n |-> [s \in X |-> StitchOn(s, ts[k])]]
  <2>1. n \in Nat /\ n >= 1 /\ DOMAIN ts = 1..n /\ \A k \in 1..n : ts[k] \in AnyTable
    BY <1>2, LenProperties, ElementOfSeq, EmptySeq
  <2>2. PICK f \in [1..n -> X] : Walks(f, n, <<ts[1]>>, step)
    <3>1. \A k \in 1..n : \A s \in X : Collects(s, ts[k], step[k][s])
      BY <2>1, StitchOnCollects
    <3>2. step = [k \in 1..n |-> [s \in X |-> step[k][s]]]
      OBVIOUS
    <3> HIDE DEF step
    <3> QED  BY <1>2, <3>1, <3>2, Collecting
  <2>3. f = [k \in DOMAIN ts |-> IF k = 1 THEN <<ts[1]>> ELSE StitchOn(f[k - 1], ts[k])]
    <3>1. ASSUME NEW i \in 2..n PROVE f[i] = StitchOn(f[i - 1], ts[i])
      <4>1. i - 1 \in 1..n /\ i \in 1..n
        BY <2>1
      <4>2. f[i - 1] \in X
        BY <4>1
      <4> QED  BY <2>2, <4>1, <4>2 DEF Walks
    <3>2. \A i \in 1..n : i = 1 \/ i \in 2..n
      BY <2>1
    <3> HIDE DEF X, n
    <3> QED  BY <2>1, <2>2, <3>1, <3>2 DEF Walks
  <2> DEFINE g == CHOOSE h :
               h = [k \in DOMAIN ts |-> IF k = 1 THEN <<ts[1]>> ELSE StitchOn(h[k - 1], ts[k])]
  <2>4. g = [k \in DOMAIN ts |-> IF k = 1 THEN <<ts[1]>> ELSE StitchOn(g[k - 1], ts[k])]
    BY <2>3
  <2>5. Stitch(ts) = g[n]
    BY <1>2 DEF Stitch
  <2> HIDE DEF g
  <2>6. g[1] = <<ts[1]>> /\ \A k \in 2..n : g[k] = StitchOn(g[k - 1], ts[k])
    <3>1. 1 \in 1..n
      BY <2>1
    <3>2. ASSUME NEW k \in 2..n PROVE g[k] = StitchOn(g[k - 1], ts[k])
      <4>1. k \in 1..n /\ k # 1
        BY <2>1
      <4> QED  BY <2>1, <2>4, <4>1
    <3> QED  BY <2>1, <2>4, <3>1, <3>2
  <2>7. ASSUME NEW k \in 2..n, g[k - 1] \in Seq(AnyTable), g[k - 1] # <<>>
        PROVE  Collects(g[k - 1], ts[k], g[k])
    <3>1. ts[k] \in AnyTable
      BY <2>1
    <3> QED  BY <2>6, <2>7, <3>1, StitchOnCollects
  <2>8. Keeps(g[n], ts)
    BY <1>2, <2>6, <2>7, CollectedKeeps
  <2> QED  BY <2>5, <2>8
<1> QED  BY <1>1, <1>2

\* Nor does merging.
LEMMA MergeKeeps ==
  ASSUME NEW ts \in Seq(AnyTable)
  PROVE  Keeps(Merge(ts), ts)
<1>1. CASE ts = <<>>
  BY <1>1 DEF Merge, Keeps
<1>2. CASE ts # <<>>
  <2> DEFINE n == Len(ts)
             X == Seq(AnyTable) \ {<<>>}
             step == [k \in 1..n |-> [s \in X |-> MergeOn(s, ts[k])]]
  <2>1. n \in Nat /\ n >= 1 /\ DOMAIN ts = 1..n /\ \A k \in 1..n : ts[k] \in AnyTable
    BY <1>2, LenProperties, ElementOfSeq, EmptySeq
  <2>2. PICK f \in [1..n -> X] : Walks(f, n, <<ts[1]>>, step)
    <3>1. \A k \in 1..n : \A s \in X : Collects(s, ts[k], step[k][s])
      BY <2>1, MergeOnCollects
    <3>2. step = [k \in 1..n |-> [s \in X |-> step[k][s]]]
      OBVIOUS
    <3> HIDE DEF step
    <3> QED  BY <1>2, <3>1, <3>2, Collecting
  <2>3. f = [k \in DOMAIN ts |-> IF k = 1 THEN <<ts[1]>> ELSE MergeOn(f[k - 1], ts[k])]
    <3>1. ASSUME NEW i \in 2..n PROVE f[i] = MergeOn(f[i - 1], ts[i])
      <4>1. i - 1 \in 1..n /\ i \in 1..n
        BY <2>1
      <4>2. f[i - 1] \in X
        BY <4>1
      <4> QED  BY <2>2, <4>1, <4>2 DEF Walks
    <3>2. \A i \in 1..n : i = 1 \/ i \in 2..n
      BY <2>1
    <3> HIDE DEF X, n
    <3> QED  BY <2>1, <2>2, <3>1, <3>2 DEF Walks
  <2> DEFINE g == CHOOSE h :
               h = [k \in DOMAIN ts |-> IF k = 1 THEN <<ts[1]>> ELSE MergeOn(h[k - 1], ts[k])]
  <2>4. g = [k \in DOMAIN ts |-> IF k = 1 THEN <<ts[1]>> ELSE MergeOn(g[k - 1], ts[k])]
    BY <2>3
  <2>5. Merge(ts) = g[n]
    BY <1>2 DEF Merge
  <2> HIDE DEF g
  <2>6. g[1] = <<ts[1]>> /\ \A k \in 2..n : g[k] = MergeOn(g[k - 1], ts[k])
    <3>1. 1 \in 1..n
      BY <2>1
    <3>2. ASSUME NEW k \in 2..n PROVE g[k] = MergeOn(g[k - 1], ts[k])
      <4>1. k \in 1..n /\ k # 1
        BY <2>1
      <4> QED  BY <2>1, <2>4, <4>1
    <3> QED  BY <2>1, <2>4, <3>1, <3>2
  <2>7. ASSUME NEW k \in 2..n, g[k - 1] \in Seq(AnyTable), g[k - 1] # <<>>
        PROVE  Collects(g[k - 1], ts[k], g[k])
    <3>1. ts[k] \in AnyTable
      BY <2>1
    <3> QED  BY <2>6, <2>7, <3>1, MergeOnCollects
  <2>8. Keeps(g[n], ts)
    BY <1>2, <2>6, <2>7, CollectedKeeps
  <2> QED  BY <2>5, <2>8
<1> QED  BY <1>1, <1>2

LEMMA AssembledKeeps ==
  ASSUME NEW ts \in Seq(AnyTable)
  PROVE  Keeps(Merge(Stitch(ts)), ts)
<1>1. Keeps(Stitch(ts), ts)
  BY StitchKeeps
<1>2. Keeps(Merge(Stitch(ts)), Stitch(ts))
  BY <1>1, MergeKeeps DEF Keeps
<1> QED  BY <1>1, <1>2 DEF Keeps

------------------------------------------------------------------------------
(* The table a schema's extractor picks is one of the section's: among the   *)
(* candidates of the best score there is a first one.                        *)

LEMMA LeastNumber ==
  ASSUME NEW S \in SUBSET Nat, S # {}
  PROVE  \E m \in S : \A k \in S : m <= k
<1> DEFINE R == OpToRel(<, Nat)
<1>1. IsWellFoundedOn(R, Nat)
  BY NatLessThanWellFounded
<1>2. \A x, y \in Nat : y < x => <<y, x>> \in R
  BY DEF OpToRel
<1> HIDE DEF R
<1>3. PICK m \in S : \A k \in S : ~ (<<k, m>> \in R)
  BY <1>1, WFMin
<1>4. ASSUME NEW k \in S PROVE m <= k
  <2>1. m \in Nat /\ k \in Nat /\ ~ (k < m)
    BY <1>2, <1>3
  <2> QED  BY <2>1
<1> QED  BY <1>4

\* The schema's extractor answers with one of the section's tables.
LEMMA PickedIsCandidate ==
  ASSUME NEW s \in WithTable, tables \in Seq(AnyTable), Candidates(s) # {}
  PROVE  Picked(s) \in Candidates(s)
<1> DEFINE C == Candidates(s)
           Score(i) == HeaderScore(tables[i].head, s)
           Lacking == {5 - Score(i) : i \in C}
<1>1. C \subseteq Nat /\ \A i \in C : Score(i) \in 0..5
  <2>1. DOMAIN tables = 1..Len(tables) /\ Len(tables) \in Nat
    BY LenProperties
  <2>2. ASSUME NEW i \in C PROVE i \in Nat /\ Score(i) \in 0..5
    <3>1. i \in 1..Len(tables)
      BY <2>1 DEF Candidates
    <3>2. tables[i] \in AnyTable
      BY <3>1, ElementOfSeq
    <3>3. tables[i].head.matches[s] \in 0..5
      BY <3>2, HeadsAssumption DEF AnyTable
    <3> QED  BY <2>1, <3>1, <3>3 DEF HeaderScore
  <2> QED  BY <2>2
<1> HIDE DEF Score, C
<1>2. PICK m \in Lacking : \A k \in Lacking : m <= k
  <2>1. Lacking \in SUBSET Nat
    BY <1>1
  <2>2. Lacking # {}
    BY DEF C
  <2> HIDE DEF Lacking
  <2> QED  BY <2>1, <2>2, LeastNumber
<1> DEFINE Best5 == {i \in C : 5 - Score(i) = m}
<1>3. PICK i \in Best5 : \A j \in Best5 : i <= j
  <2>1. Best5 \in SUBSET Nat /\ Best5 # {}
    BY <1>1, <1>2
  <2> HIDE DEF Best5
  <2> QED  BY <2>1, LeastNumber
<1>4. ASSUME NEW j \in C PROVE Score(j) < Score(i) \/ (Score(j) = Score(i) /\ i <= j)
  <2>1. 5 - Score(i) <= 5 - Score(j) /\ Score(i) \in 0..5 /\ Score(j) \in 0..5
    BY <1>1, <1>2, <1>3
  <2>2. CASE Score(j) < Score(i)
    BY <2>2
  <2>3. CASE Score(j) = Score(i)
    BY <1>3, <2>3
  <2> QED  BY <2>1, <2>2, <2>3
<1>5. \E k \in C : \A j \in C : Score(j) < Score(k) \/ (Score(j) = Score(k) /\ k <= j)
  BY <1>3, <1>4
<1>6. (CHOOSE k \in C : \A j \in C : Score(j) < Score(k) \/ (Score(j) = Score(k) /\ k <= j)) \in C
  BY <1>5
<1> QED  BY <1>6 DEF Picked, C, Score

------------------------------------------------------------------------------
(* From the pages to the delivered tables.                                   *)

\* A page as it was read, before a section with it is assembled.
Unread(p) ==
  /\ pages[p].tables \in Seq(AnyTable)
  /\ DOMAIN pages[p].tables = DOMAIN pages[p].sizes
  /\ \A i \in DOMAIN pages[p].tables :
       /\ pages[p].tables[i].page = p /\ pages[p].tables[i].range = {}
       /\ pages[p].tables[i].rows = [k \in 1..pages[p].sizes[i] |-> <<p, i, k>>]

Ahead(p) == \/ pc = "segment"
            \/ pc = "assemble" /\ p >= sections[cur].first
            \/ pc = "extract" /\ p > sections[cur].last

BarePages == {p \in DOMAIN pages : \E t \in DOMAIN pages[p].sizes : pages[p].sizes[t] = 0}

PagesInv ==
  /\ \A p \in DOMAIN pages : /\ DOMAIN pages[p] = {"score", "sizes", "tables"}
                             /\ pages[p].sizes \in Seq(Nat)
  /\ \A p \in DOMAIN pages : Ahead(p) => Unread(p)

\* Of the section in hand the tables hold all rows, and name no other page.
TablesInv ==
  pc = "extract" =>
    /\ tables \in Seq(AnyTable)
    /\ RowsOf(tables) = SourceRows(sections[cur].first, sections[cur].last)
    /\ \A i \in DOMAIN tables :
         Sound(tables[i], sections[cur].first..sections[cur].last, BarePages)

\* The sections before the one in hand have their results.
ResultsInv ==
  /\ \E S : results \in Seq(S)
  /\ DOMAIN results \subseteq DOMAIN sections
  /\ pc = "segment" => results = <<>>
  /\ pc \in {"assemble", "extract"} => cur \in DOMAIN sections /\ Len(results) = cur - 1

RowsInv == PagesInv /\ TablesInv /\ ResultsInv /\ RangeNamesItsPages

LEMMA RowsInit == Init => RowsInv
<1> SUFFICES ASSUME Init PROVE RowsInv
  OBVIOUS
<1>1. PICK n \in 1..MaxPages : \E kinds \in [1..n -> PageKinds] :
        pages = [p \in 1..n |-> ReadPage(p, kinds[p])]
  BY DEF Init
<1>2. PICK kinds \in [1..n -> PageKinds] : pages = [p \in 1..n |-> ReadPage(p, kinds[p])]
  BY <1>1
<1>3. ASSUME NEW p \in DOMAIN pages
      PROVE  /\ DOMAIN pages[p] = {"score", "sizes", "tables"}
             /\ pages[p].sizes \in Seq(Nat)
             /\ Unread(p)
  <2> DEFINE ts == kinds[p].tables
             m == Len(ts)
  <2>1. p \in 1..n /\ p \in Nat
    BY <1>2, MaxPagesAssumption
  <2>2. ts \in Seq([head : Heads, size : Nat])
    <3>1. kinds[p] \in PageKinds
      BY <2>1
    <3> QED  BY <3>1, PageKindsAssumption
  <2>3. m \in Nat /\ DOMAIN ts = 1..m
        /\ \A i \in 1..m : ts[i].head \in Heads /\ ts[i].size \in Nat
    <3>1. m \in Nat /\ DOMAIN ts = 1..m
      BY <2>2, LenProperties
    <3>2. \A i \in 1..m : ts[i] \in [head : Heads, size : Nat]
      BY <2>2, ElementOfSeq
    <3> QED  BY <3>1, <3>2
  <2>4. /\ DOMAIN pages[p] = {"score", "sizes", "tables"}
        /\ pages[p].sizes = [i \in DOMAIN ts |-> ts[i].size]
        /\ pages[p].tables = [i \in DOMAIN ts |-> ReadTable(p, i, ts[i])]
    BY <1>2, <2>1 DEF ReadPage
  <2> HIDE DEF ts, m
  <2>5. pages[p].sizes \in Seq(Nat)
    <3>1. [i \in DOMAIN ts |-> ts[i].size] \in [1..m -> Nat]
      BY <2>3
    <3> QED  BY <2>3, <2>4, <3>1, IsSequence
  <2>6. ASSUME NEW i \in 1..m
        PROVE  [k \in 1..ts[i].size |-> <<p, i, k>>] \in Seq(AnyRow)
    <3>1. i \in Nat /\ ts[i].size \in Nat
      BY <2>3
    <3>2. [k \in 1..ts[i].size |-> <<p, i, k>>] \in [1..ts[i].size -> AnyRow]
      BY <2>1, <3>1 DEF AnyRow
    <3> QED  BY <3>1, <3>2, IsSequence
  <2>7. \A i \in 1..m : ReadTable(p, i, ts[i]) \in AnyTable
    BY <2>1, <2>3, <2>6 DEF ReadTable, AnyTable
  <2>8. pages[p].tables \in Seq(AnyTable)
    <3>1. [i \in DOMAIN ts |-> ReadTable(p, i, ts[i])] \in [1..m -> AnyTable]
      BY <2>3, <2>7
    <3> QED  BY <2>3, <2>4, <3>1, IsSequence
  <2>9. DOMAIN pages[p].tables = 1..m /\ DOMAIN pages[p].sizes = 1..m
    BY <2>3, <2>4
  <2>10. ASSUME NEW i \in 1..m
         PROVE  /\ pages[p].tables[i].page = p /\ pages[p].tables[i].range = {}
                /\ pages[p].tables[i].rows = [k \in 1..pages[p].sizes[i] |-> <<p, i, k>>]
    <3>1. pages[p].sizes[i] = ts[i].size /\ pages[p].tables[i] = ReadTable(p, i, ts[i])
      BY <2>3, <2>4
    <3> QED  BY <3>1 DEF ReadTable
  <2>11. Unread(p)
    BY <2>8, <2>9, <2>10 DEF Unread
  <2> QED  BY <2>4, <2>5, <2>11
<1>4. pc = "segment" /\ results = <<>>
  BY DEF Init
<1> QED  BY <1>3, <1>4 DEF RowsInv, PagesInv, TablesInv, ResultsInv, RangeNamesItsPages

------------------------------------------------------------------------------
(* Assembling a section.                                                     *)

\* A page as it was read holds its rows in its tables, and those name no other page.
LEMMA PageRead ==
  ASSUME NEW p \in DOMAIN pages, pages[p].sizes \in Seq(Nat), Unread(p), NEW P, p \in P
  PROVE  /\ RowsOf(pages[p].tables) = RowsRead(p)
         /\ \A i \in DOMAIN pages[p].tables : Sound(pages[p].tables[i], P, BarePages)
<1> DEFINE ts == pages[p].tables
           ns == pages[p].sizes
<1>1. /\ DOMAIN ts = DOMAIN ns
      /\ \A i \in DOMAIN ns : /\ ts[i].page = p /\ ts[i].range = {}
                              /\ ts[i].rows = [k \in 1..ns[i] |-> <<p, i, k>>]
                              /\ ns[i] \in Nat
  <2>1. DOMAIN ns = 1..Len(ns) /\ \A i \in 1..Len(ns) : ns[i] \in Nat
    BY LenProperties, ElementOfSeq
  <2> QED  BY <2>1 DEF Unread
<1>2. RowsOf(ts) = FlattenSeq([i \in DOMAIN ts |-> ts[i].rows])
  BY DEF RowsOf
<1>3. RowsRead(p) = FlattenSeq([i \in DOMAIN ns |-> [k \in 1..ns[i] |-> <<p, i, k>>]])
  BY DEF RowsRead
<1>4. ASSUME NEW i \in DOMAIN ts PROVE Sound(ts[i], P, BarePages)
  <2>1. Named(ts[i]) = {p}
    BY <1>1, <1>4 DEF Named
  <2>2. CASE ns[i] = 0
    <3>1. p \in BarePages
      BY <1>1, <1>4, <2>2 DEF BarePages
    <3> QED  BY <2>1, <3>1 DEF Sound
  <2>3. CASE ns[i] # 0
    <3>1. ts[i].rows = [k \in 1..ns[i] |-> <<p, i, k>>] /\ 1 \in 1..ns[i]
      BY <1>1, <1>4, <2>3
    <3>2. 1 \in DOMAIN ts[i].rows /\ ts[i].rows[1][1] = p
      BY <3>1
    <3> QED  BY <2>1, <3>2 DEF Sound
  <2> QED  BY <2>2, <2>3
<1> HIDE DEF ts, ns
<1>5. [i \in DOMAIN ts |-> ts[i].rows] = [i \in DOMAIN ns |-> [k \in 1..ns[i] |-> <<p, i, k>>]]
  BY <1>1
<1>6. RowsOf(ts) = RowsRead(p)
  BY <1>2, <1>3, <1>5
<1> QED  BY <1>4, <1>6 DEF ts

SoundTables(P, B) == {t \in AnyTable : Sound(t, P, B)}

\* The tables a section is assembled from have the rows its pages were read with.
LEMMA SectionRead ==
  ASSUME NEW a \in Nat \ {0}, NEW b \in Nat, a <= b, a..b \subseteq DOMAIN pages,
         \A p \in a..b : pages[p].sizes \in Seq(Nat) /\ Unread(p)
  PROVE  /\ TablesOf(a, b) \in Seq(SoundTables(a..b, BarePages))
         /\ RowsOf(TablesOf(a, b)) = SourceRows(a, b)
<1> DEFINE S == SoundTables(a..b, BarePages)
           n == b - a + 1
           tss == [i \in 1..n |-> pages[a + i - 1].tables]
<1>1. n \in Nat /\ \A i \in 1..n : a + i - 1 \in a..b
  OBVIOUS
<1>2. ASSUME NEW p \in a..b
      PROVE  pages[p].tables \in Seq(S) /\ RowsOf(pages[p].tables) = RowsRead(p)
  <2>1. /\ RowsOf(pages[p].tables) = RowsRead(p)
        /\ \A i \in DOMAIN pages[p].tables : Sound(pages[p].tables[i], a..b, BarePages)
    BY PageRead
  <2> DEFINE ts == pages[p].tables
  <2>2. ts \in Seq(AnyTable)
    BY DEF Unread
  <2>3. Len(ts) \in Nat /\ DOMAIN ts = 1..Len(ts) /\ \A i \in 1..Len(ts) : ts[i] \in AnyTable
    BY <2>2, LenProperties, ElementOfSeq
  <2>4. \A i \in 1..Len(ts) : ts[i] \in S
    BY <2>1, <2>3 DEF SoundTables
  <2> HIDE DEF ts, S
  <2>5. ts = [i \in 1..Len(ts) |-> ts[i]]
    BY <2>2, SeqDef, <2>3
  <2>6. ts \in [1..Len(ts) -> S]
    BY <2>4, <2>5
  <2>7. ts \in Seq(S)
    BY <2>3, <2>6, IsSequence
  <2> QED  BY <2>1, <2>7 DEF ts
<1> HIDE DEF S, n
<1>3. tss \in [1..n -> Seq(S)]
  BY <1>1, <1>2
<1>4. tss \in Seq(Seq(S)) /\ Len(tss) = n /\ DOMAIN tss = 1..n
  <2>1. DOMAIN tss = 1..n
    OBVIOUS
  <2> HIDE DEF tss
  <2> QED  BY <1>1, <1>3, <2>1, IsSequence
<1>5. TablesOf(a, b) = FlattenSeq(tss)
  BY DEF TablesOf, n
<1>6. FlattenSeq(tss) \in Seq(S)
  <2> HIDE DEF tss
  <2> QED  BY <1>4, FlattenType
<1>7. Rowed(S, AnyRow)
  BY TablesAreRowed DEF S, SoundTables, Rowed
<1>8. RowsOf(FlattenSeq(tss)) = FlattenSeq([i \in DOMAIN tss |-> RowsOf(tss[i])])
  <2> HIDE DEF tss
  <2> QED  BY <1>4, <1>7, RowsOfFlatten
<1>9. [i \in DOMAIN tss |-> RowsOf(tss[i])] = [i \in 1..n |-> RowsRead(a + i - 1)]
  <2>1. \A i \in 1..n : RowsOf(tss[i]) = RowsRead(a + i - 1)
    BY <1>1, <1>2
  <2> HIDE DEF tss
  <2> QED  BY <1>4, <2>1
<1>10. SourceRows(a, b) = FlattenSeq([i \in 1..n |-> RowsRead(a + i - 1)])
  BY DEF SourceRows, n
<1> QED  BY <1>5, <1>6, <1>8, <1>9, <1>10 DEF S

\* Merging in place only touches pages whose tables were collected, and of
\* those only the tables.
LEMMA PagesAssembled ==
  ASSUME PagesInv, NEW built, pages' = AfterAssembly(built)
  PROVE  /\ DOMAIN pages' = DOMAIN pages
         /\ \A p \in DOMAIN pages : /\ DOMAIN pages'[p] = {"score", "sizes", "tables"}
                                    /\ pages'[p].sizes = pages[p].sizes
         /\ \A p \in DOMAIN pages :
              Unread(p) /\ (\A k \in DOMAIN built : built[k].page # p) =>
                 pages'[p].tables = pages[p].tables
<1> DEFINE Own(p, i) ==
             {k \in DOMAIN built : built[k].raw /\ built[k].page = p /\ built[k].index = i}
           New(p) == [i \in DOMAIN pages[p].tables |->
                        IF Own(p, i) = {} THEN pages[p].tables[i]
                                          ELSE built[CHOOSE k \in Own(p, i) : TRUE]]
<1>1. pages' = [p \in DOMAIN pages |-> [pages[p] EXCEPT !.tables = New(p)]]
  BY DEF AfterAssembly
<1>2. ASSUME NEW p \in DOMAIN pages, Unread(p), \A k \in DOMAIN built : built[k].page # p
      PROVE  New(p) = pages[p].tables
  <2>1. \A i \in DOMAIN pages[p].tables : Own(p, i) = {}
    BY <1>2
  <2> DEFINE ts == pages[p].tables
  <2>2. ts \in Seq(AnyTable)
    BY <1>2 DEF Unread
  <2>3. DOMAIN ts = 1..Len(ts) /\ ts = [i \in 1..Len(ts) |-> ts[i]]
    <3> HIDE DEF ts
    <3> QED  BY <2>2, SeqDef, LenProperties
  <2>4. New(p) = [i \in DOMAIN ts |-> ts[i]]
    BY <2>1
  <2> HIDE DEF New, ts
  <2> QED  BY <2>3, <2>4 DEF ts
<1> HIDE DEF New
<1>3. \A p \in DOMAIN pages : DOMAIN pages[p] = {"score", "sizes", "tables"}
  BY DEF PagesInv
<1>4. \A p \in DOMAIN pages :
        /\ DOMAIN pages'[p] = DOMAIN pages[p]
        /\ pages'[p].sizes = pages[p].sizes /\ pages'[p].tables = New(p)
  BY <1>1, <1>3
<1> QED  BY <1>1, <1>2, <1>3, <1>4

\* What was read of the pages a..b stays what it is.
LEMMA SourcesStay ==
  ASSUME NEW a \in Nat, NEW b \in Nat, a..b \subseteq DOMAIN pages,
         DOMAIN pages' = DOMAIN pages,
         \A p \in DOMAIN pages : pages'[p].sizes = pages[p].sizes
  PROVE  /\ SourceRows(a, b)' = SourceRows(a, b)
         /\ BarePages' = BarePages
<1>1. \A p \in DOMAIN pages : RowsRead(p)' = RowsRead(p)
  BY DEF RowsRead
<1>2. \A i \in 1..(b - a + 1) : a + i - 1 \in DOMAIN pages
  <2>1. \A i \in 1..(b - a + 1) : a + i - 1 \in a..b
    OBVIOUS
  <2> QED  BY <2>1
<1>3. [i \in 1..(b - a + 1) |-> RowsRead(a + i - 1)'] =
      [i \in 1..(b - a + 1) |-> RowsRead(a + i - 1)]
  BY <1>1, <1>2
<1>4. SourceRows(a, b)' = SourceRows(a, b)
  BY <1>3 DEF SourceRows
<1>5. BarePages' = BarePages
  BY DEF BarePages
<1> QED  BY <1>4, <1>5

\* Nor do the delivered ranges change with that.
LEMMA RangesStay ==
  ASSUME IInv, RowsInv, pc # "segment", sections' = sections, results' = results,
         \A p \in DOMAIN pages : pages'[p].sizes = pages[p].sizes
  PROVE  RangeNamesItsPages'
<1>1. PICK S : pages \in Seq(S)
  BY DEF IInv, AreSequences
<1>2. DOMAIN pages = 1..Len(pages) /\ Len(pages) \in Nat
  BY <1>1, LenProperties
<1>3. ASSUME NEW k \in DOMAIN sections
      PROVE  sections[k].first..sections[k].last \subseteq DOMAIN pages
  <2>1. sections[k].first \in Nat \ {0} /\ sections[k].last \in Nat
        /\ sections[k].last <= Len(pages)
    BY DEF IInv, Ordered, Progress
  <2> QED  BY <1>2, <2>1
<1>4. DOMAIN results \subseteq DOMAIN sections
  BY DEF RowsInv, ResultsInv
<1> QED  BY <1>3, <1>4 DEF RowsInv, RangeNamesItsPages

\* The pages of the section in hand.
LEMMA InHand ==
  ASSUME IInv, RowsInv, pc \in {"assemble", "extract"}
  PROVE  /\ cur \in DOMAIN sections /\ cur \in Nat \ {0}
         /\ sections[cur].first \in Nat \ {0} /\ sections[cur].last \in Nat
         /\ sections[cur].first <= sections[cur].last
         /\ sections[cur].first..sections[cur].last \subseteq DOMAIN pages
         /\ DOMAIN pages \subseteq Nat
<1>1. PICK S : pages \in Seq(S)
  BY DEF IInv, AreSequences
<1>2. DOMAIN pages = 1..Len(pages) /\ Len(pages) \in Nat
  BY <1>1, LenProperties
<1>3. PICK T : sections \in Seq(T)
  BY DEF IInv, AreSequences
<1>4. DOMAIN sections = 1..Len(sections) /\ Len(sections) \in Nat
  BY <1>3, LenProperties
<1>5. cur \in DOMAIN sections
  BY DEF RowsInv, ResultsInv
<1>6. sections[cur].first \in Nat \ {0} /\ sections[cur].last \in Nat
      /\ sections[cur].first <= sections[cur].last /\ sections[cur].last <= Len(pages)
  BY <1>5 DEF IInv, Ordered, Progress
<1> QED  BY <1>2, <1>4, <1>5, <1>6

LEMMA AssembleRows == IInv /\ RowsInv /\ Assemble => RowsInv'
<1> SUFFICES ASSUME IInv, RowsInv, Assemble PROVE RowsInv'
  OBVIOUS
<1>1. pc = "assemble" /\ pc' = "extract" /\ UNCHANGED <<sections, cur, results>>
  BY DEF Assemble
<1>2. PICK a, b : a = sections[cur].first /\ b = sections[cur].last
  OBVIOUS
<1>3. /\ cur \in DOMAIN sections
      /\ a \in Nat \ {0} /\ b \in Nat /\ a <= b /\ a..b \subseteq DOMAIN pages
      /\ DOMAIN pages \subseteq Nat
  BY <1>1, <1>2, InHand
<1>4. PagesInv /\ \A p \in DOMAIN pages : p >= a => Unread(p)
  BY <1>1, <1>2 DEF RowsInv, PagesInv, Ahead
<1> DEFINE ts == TablesOf(a, b)
           B == BarePages
<1>5. /\ ts \in Seq(SoundTables(a..b, B))
      /\ RowsOf(ts) = SourceRows(a, b)
  <2>1. \A p \in a..b : pages[p].sizes \in Seq(Nat) /\ Unread(p)
    BY <1>3, <1>4 DEF PagesInv
  <2> QED  BY <1>3, <2>1, SectionRead
<1>6. PICK built : built = Assembled(a, b)
  OBVIOUS
<1>7. tables' = built /\ pages' = AfterAssembly(built)
  BY <1>2, <1>6 DEF Assemble
<1>8. /\ built \in Seq(AnyTable) /\ RowsOf(built) = SourceRows(a, b)
      /\ \A i \in DOMAIN built : Sound(built[i], a..b, B)
  <2>1. ts \in Seq(AnyTable) /\ \A i \in DOMAIN ts : Sound(ts[i], a..b, B)
    <3> HIDE DEF ts, B
    <3>1. Len(ts) \in Nat /\ DOMAIN ts = 1..Len(ts)
          /\ \A i \in 1..Len(ts) : ts[i] \in SoundTables(a..b, B)
      BY <1>5, LenProperties, ElementOfSeq
    <3>2. SoundTables(a..b, B) \subseteq AnyTable
      BY DEF SoundTables
    <3>3. ts \in [1..Len(ts) -> AnyTable]
      BY <1>5, <3>1, <3>2, SeqDef
    <3> QED  BY <3>1, <3>3, IsSequence DEF SoundTables
  <2>2. Keeps(built, ts)
    BY <1>6, <2>1, AssembledKeeps DEF Assembled
  <2> HIDE DEF ts, B
  <2> QED  BY <1>5, <2>1, <2>2 DEF Keeps
<1>9. /\ DOMAIN pages' = DOMAIN pages
      /\ \A p \in DOMAIN pages : /\ DOMAIN pages'[p] = {"score", "sizes", "tables"}
                                 /\ pages'[p].sizes = pages[p].sizes
      /\ \A p \in DOMAIN pages :
           Unread(p) /\ (\A k \in DOMAIN built : built[k].page # p) =>
              pages'[p].tables = pages[p].tables
  BY <1>4, <1>7, PagesAssembled
<1>10. SourceRows(a, b)' = SourceRows(a, b) /\ BarePages' = BarePages
  BY <1>3, <1>9, SourcesStay
<1>11. PagesInv'
  <2>1. \A p \in DOMAIN pages' : /\ DOMAIN pages'[p] = {"score", "sizes", "tables"}
                                 /\ pages'[p].sizes \in Seq(Nat)
    BY <1>4, <1>9 DEF PagesInv
  <2>2. ASSUME NEW p \in DOMAIN pages', Ahead(p)' PROVE Unread(p)'
    <3>1. p > b /\ p \in DOMAIN pages
      BY <1>1, <1>2, <1>9, <2>2 DEF Ahead
    <3>2. Unread(p)
      BY <1>3, <1>4, <3>1
    <3>3. ASSUME NEW k \in DOMAIN built PROVE built[k].page # p
      <4>1. built[k].page \in a..b
        BY <1>8 DEF Sound, Named
      <4> QED  BY <1>3, <3>1, <4>1
    <3>4. pages'[p].tables = pages[p].tables /\ pages'[p].sizes = pages[p].sizes
      BY <1>9, <3>1, <3>2, <3>3
    <3> QED  BY <3>2, <3>4 DEF Unread
  <2> QED  BY <2>1, <2>2 DEF PagesInv
<1>12. TablesInv'
  BY <1>1, <1>2, <1>7, <1>8, <1>10 DEF TablesInv
<1>13. ResultsInv'
  BY <1>1 DEF RowsInv, ResultsInv
<1>14. RangeNamesItsPages'
  BY <1>1, <1>9, RangesStay
<1> QED  BY <1>11, <1>12, <1>13, <1>14 DEF RowsInv

------------------------------------------------------------------------------
(* The other steps.                                                          *)

\* A section's result goes behind those before it.
LEMMA FinishRows ==
  ASSUME IInv, RowsInv, pc = "extract", NEW r,
         results' = Append(results, r),
         IF cur = Len(sections) THEN pc' = "whole" /\ UNCHANGED cur
                                ELSE pc' = "assemble" /\ cur' = cur + 1,
         UNCHANGED <<hint, pages, start, at, sections, tables>>,
         r.kind = "rules" =>
           \A p \in r.range :
             /\ p \in sections[cur].first..sections[cur].last
             /\ \/ \E i \in DOMAIN r.rows : r.rows[i][1] = p
                \/ \E t \in DOMAIN pages[p].sizes : pages[p].sizes[t] = 0
  PROVE  RowsInv'
<1>1. PICK S : results \in Seq(S)
  BY DEF RowsInv, ResultsInv
<1>2. PICK T : T = S \cup {r}
  OBVIOUS
<1>3. results \in Seq(T) /\ r \in T
  <2>1. Len(results) \in Nat /\ \A i \in 1..Len(results) : results[i] \in S
    BY <1>1, LenProperties, ElementOfSeq
  <2>2. results \in [1..Len(results) -> T]
    BY <1>1, <1>2, <2>1, SeqDef
  <2> QED  BY <1>2, <2>1, <2>2, IsSequence
<1>4. /\ results' \in Seq(T) /\ DOMAIN results = 1..Len(results) /\ Len(results) \in Nat
      /\ Len(results') = Len(results) + 1 /\ DOMAIN results' = 1..(Len(results) + 1)
      /\ \A k \in 1..Len(results) : results'[k] = results[k]
      /\ results'[Len(results) + 1] = r
  BY <1>3, AppendProperties, LenProperties
<1>5. /\ cur \in DOMAIN sections /\ cur \in Nat \ {0} /\ Len(results) + 1 = cur
      /\ sections[cur].last \in Nat /\ DOMAIN pages \subseteq Nat
      /\ DOMAIN results \subseteq DOMAIN sections
  BY <1>4, InHand DEF RowsInv, ResultsInv
<1>6. DOMAIN sections = 1..Len(sections) /\ Len(sections) \in Nat
  BY LenProperties DEF IInv, AreSequences
<1>7. \A p \in DOMAIN pages : Ahead(p)' => Ahead(p)
  <2> SUFFICES ASSUME NEW p \in DOMAIN pages, Ahead(p)' PROVE Ahead(p)
    OBVIOUS
  <2>1. cur # Len(sections) /\ cur' = cur + 1 /\ p >= sections[cur + 1].first
    BY DEF Ahead
  <2>2. cur + 1 \in DOMAIN sections /\ cur < cur + 1
    BY <1>5, <1>6, <2>1
  <2>3. sections[cur].last < sections[cur + 1].first /\ sections[cur + 1].first \in Nat
    BY <1>5, <2>2 DEF IInv, Ordered
  <2>4. p > sections[cur].last
    BY <1>5, <2>1, <2>3
  <2> QED  BY <2>4 DEF Ahead
<1>8. PagesInv'
  BY <1>7 DEF RowsInv, PagesInv, Unread
<1>9. TablesInv'
  BY DEF TablesInv
<1>10. ResultsInv'
  BY <1>4, <1>5, <1>6 DEF ResultsInv
<1>11. RangeNamesItsPages'
  BY <1>4, <1>5 DEF RowsInv, RangeNamesItsPages
<1> QED  BY <1>8, <1>9, <1>10, <1>11 DEF RowsInv

LEMMA PickTableRows == IInv /\ RowsInv /\ PickTable => RowsInv'
<1> SUFFICES ASSUME IInv, RowsInv, PickTable PROVE RowsInv'
  OBVIOUS
<1>1. PICK s \in Routes \cap WithTable :
        /\ Candidates(s) # {}
        /\ Finish(Result("rules", PageRange(tables[Picked(s)]), tables[Picked(s)].rows,
                         {}, "unscored"))
  BY DEF PickTable
<1>2. pc = "extract"
  BY DEF PickTable
<1>3. /\ tables \in Seq(AnyTable)
      /\ \A i \in DOMAIN tables :
           Sound(tables[i], sections[cur].first..sections[cur].last, BarePages)
  BY <1>2 DEF RowsInv, TablesInv
<1>4. Picked(s) \in DOMAIN tables
  BY <1>1, <1>3, PickedIsCandidate DEF Candidates
<1>5. PICK t : t = tables[Picked(s)]
  OBVIOUS
<1>6. /\ PageRange(t) \subseteq Named(t)
      /\ Sound(t, sections[cur].first..sections[cur].last, BarePages)
  BY <1>3, <1>4, <1>5 DEF PageRange, Named
<1>7. PICK r : r = Result("rules", PageRange(t), t.rows, {}, "unscored")
  OBVIOUS
<1>8. \A p \in r.range :
        /\ p \in sections[cur].first..sections[cur].last
        /\ \/ \E i \in DOMAIN r.rows : r.rows[i][1] = p
           \/ \E i \in DOMAIN pages[p].sizes : pages[p].sizes[i] = 0
  BY <1>6, <1>7 DEF Result, Sound, BarePages
<1>9. /\ results' = Append(results, r)
      /\ IF cur = Len(sections) THEN pc' = "whole" /\ UNCHANGED cur
                                ELSE pc' = "assemble" /\ cur' = cur + 1
      /\ UNCHANGED <<hint, pages, start, at, sections, tables>>
  BY <1>1, <1>5, <1>7 DEF Finish
<1> QED  BY <1>2, <1>8, <1>9, FinishRows

LEMMA NoTableRows == IInv /\ RowsInv /\ NoTable => RowsInv'
<1> SUFFICES ASSUME IInv, RowsInv, NoTable PROVE RowsInv'
  OBVIOUS
<1>1. PICK r : r = Result("none", {}, <<>>, {}, "unscored")
  OBVIOUS
<1>2. /\ results' = Append(results, r)
      /\ IF cur = Len(sections) THEN pc' = "whole" /\ UNCHANGED cur
                                ELSE pc' = "assemble" /\ cur' = cur + 1
      /\ UNCHANGED <<hint, pages, start, at, sections, tables>>
  BY <1>1 DEF NoTable, Finish
<1>3. pc = "extract" /\ r.kind # "rules"
  BY <1>1 DEF NoTable, Result
<1> QED  BY <1>2, <1>3, FinishRows

LEMMA ParseTextRows == IInv /\ RowsInv /\ ParseText => RowsInv'
<1> SUFFICES ASSUME IInv, RowsInv, ParseText PROVE RowsInv'
  OBVIOUS
<1>1. PICK range, flaws, verdict :
        Finish(Result("text", range, <<>>, flaws, verdict))
  BY DEF ParseText
<1>2. PICK r : r = Result("text", range, <<>>, flaws, verdict)
  OBVIOUS
<1>3. /\ results' = Append(results, r)
      /\ IF cur = Len(sections) THEN pc' = "whole" /\ UNCHANGED cur
                                ELSE pc' = "assemble" /\ cur' = cur + 1
      /\ UNCHANGED <<hint, pages, start, at, sections, tables>>
  BY <1>1, <1>2 DEF Finish
<1>4. pc = "extract" /\ r.kind # "rules"
  BY <1>2 DEF ParseText, Result
<1> QED  BY <1>3, <1>4, FinishRows

\* While the sections are found there are no results, and the first section
\* closed is the first assembled.
LEMMA SegmentRows ==
  IInv /\ RowsInv /\ (ExtendSection \/ CloseSection \/ CloseLast) /\ IInv' => RowsInv'
<1> SUFFICES ASSUME IInv, RowsInv, ExtendSection \/ CloseSection \/ CloseLast, IInv'
             PROVE  RowsInv'
  OBVIOUS
<1>1. /\ pc = "segment" /\ UNCHANGED <<pages, tables, results>>
      /\ \/ pc' = "segment"
         \/ pc' = "assemble" /\ cur' = 1 /\ sections' # <<>>
  <2>1. pc' # "segment" => sections' # <<>>
    BY DEF IInv, Progress
  <2> QED  BY <2>1 DEF ExtendSection, CloseSection, CloseLast
<1>2. results = <<>> /\ DOMAIN results = {} /\ Len(results) = 0
  BY <1>1 DEF RowsInv, ResultsInv
<1>3. PagesInv'
  <2>1. \A p \in DOMAIN pages : Ahead(p)
    BY <1>1 DEF Ahead
  <2> QED  BY <1>1, <2>1 DEF RowsInv, PagesInv, Unread
<1>4. TablesInv'
  BY <1>1 DEF TablesInv
<1>5. sections' # <<>> => 1 \in DOMAIN sections'
  BY EmptySeq, LenProperties DEF IInv, AreSequences
<1>6. ResultsInv'
  BY <1>1, <1>2, <1>5 DEF RowsInv, ResultsInv
<1>7. RangeNamesItsPages'
  BY <1>1, <1>2 DEF RangeNamesItsPages
<1> QED  BY <1>3, <1>4, <1>6, <1>7 DEF RowsInv

\* Assembling the whole document, when the results are there.
LEMMA WholeRows == IInv /\ RowsInv /\ (Retry \/ Validate) => RowsInv'
<1> SUFFICES ASSUME IInv, RowsInv, Retry \/ Validate PROVE RowsInv'
  OBVIOUS
<1>1. /\ pc \in {"whole", "retried"} /\ pc' \in {"retried", "done"}
      /\ UNCHANGED <<sections, cur, results>>
      /\ \E built : pages' = AfterAssembly(built)
  BY DEF Retry, Validate, AssembleWhole
<1>2. /\ DOMAIN pages' = DOMAIN pages
      /\ \A p \in DOMAIN pages : /\ DOMAIN pages'[p] = {"score", "sizes", "tables"}
                                 /\ pages'[p].sizes = pages[p].sizes
  BY <1>1, PagesAssembled DEF RowsInv
<1>3. PagesInv'
  BY <1>1, <1>2 DEF RowsInv, PagesInv, Ahead
<1>4. TablesInv' /\ ResultsInv'
  BY <1>1 DEF RowsInv, TablesInv, ResultsInv
<1>5. RangeNamesItsPages'
  BY <1>1, <1>2, RangesStay
<1> QED  BY <1>3, <1>4, <1>5 DEF RowsInv

LEMMA RowsStep == IInv /\ RowsInv /\ [Next]_vars /\ IInv' => RowsInv'
<1> SUFFICES ASSUME IInv, RowsInv, [Next]_vars, IInv' PROVE RowsInv'
  OBVIOUS
<1>1. CASE ExtendSection \/ CloseSection \/ CloseLast
  BY <1>1, SegmentRows
<1>2. CASE Assemble
  BY <1>2, AssembleRows
<1>3. CASE PickTable
  BY <1>3, PickTableRows
<1>4. CASE NoTable
  BY <1>4, NoTableRows
<1>5. CASE ParseText
  BY <1>5, ParseTextRows
<1>6. CASE Retry \/ Validate
  BY <1>6, WholeRows
<1>7. CASE UNCHANGED vars
  <2>1. RangeNamesItsPages'
    BY <1>7 DEF vars, RowsInv, RangeNamesItsPages
  <2>2. TablesInv'
    BY <1>7 DEF vars, RowsInv, TablesInv, SourceRows, RowsRead, BarePages
  <2>3. PagesInv' /\ ResultsInv'
    BY <1>7 DEF vars, RowsInv, PagesInv, Unread, Ahead, ResultsInv
  <2> QED  BY <2>1, <2>2, <2>3 DEF RowsInv
<1> QED  BY <1>1, <1>2, <1>3, <1>4, <1>5, <1>6, <1>7 DEF Next

\* Assembling a section loses, repeats and reorders no row of it, whatever
\* its tables' headers (assemble).
THEOREM RowsKeptInOrder == Spec => []RowsInOrder
<1>1. IInv /\ RowsInv => RowsInOrder
  BY DEF RowsInv, TablesInv, RowsInOrder
<1> QED  BY <1>1, InitInv, StepInv, RowsInit, RowsStep, PTL DEF Spec

\* A rule table is delivered with pages of its own section, each of which it
\* has rows of, unless a table of that page has headers only
\* (_get_page_range, merge_continuation_tables).
THEOREM RangesNameTheirPages == Spec => []RangeNamesItsPages
<1>1. RowsInv => RangeNamesItsPages
  BY DEF RowsInv
<1> QED  BY <1>1, InitInv, StepInv, RowsInit, RowsStep, PTL DEF Spec

------------------------------------------------------------------------------
(* Functions that go on from zero, and sums.                                 *)

Steps(f, n, base, step) == f[0] = base /\ \A k \in 1..n : f[k] = step[k][f[k - 1]]

\* Stepwise, from 0.
LEMMA FromZero ==
  ASSUME NEW n \in Nat, NEW X, NEW base \in X, NEW step \in [1..n -> [X -> X]]
  PROVE  \E f \in [0..n -> X] : Steps(f, n, base, step)
<1> DEFINE later == [k \in 1..(n + 1) |-> IF k = 1 THEN [x \in X |-> x] ELSE step[k - 1]]
<1>1. later \in [1..(n + 1) -> [X -> X]]
  <2>1. ASSUME NEW k \in 1..(n + 1), k # 1 PROVE step[k - 1] \in [X -> X]
    <3>1. k - 1 \in 1..n
      BY <2>1
    <3> QED  BY <3>1
  <2> QED  BY <2>1
<1>2. \A k \in 2..(n + 1) : later[k] = step[k - 1]
  OBVIOUS
<1> HIDE DEF later
<1>3. PICK g \in [1..(n + 1) -> X] : Walks(g, n + 1, base, later)
  <2>1. n + 1 \in Nat \ {0}
    OBVIOUS
  <2> QED  BY <1>1, <2>1, Stepwise
<1> DEFINE f == [k \in 0..n |-> g[k + 1]]
<1>4. f \in [0..n -> X]
  OBVIOUS
<1>5. f[0] = base
  BY <1>3 DEF Walks
<1>6. ASSUME NEW k \in 1..n PROVE f[k] = step[k][f[k - 1]]
  <2>1. k + 1 \in 2..(n + 1) /\ (k + 1) - 1 = k /\ k \in 0..n /\ k - 1 \in 0..n /\ (k - 1) + 1 = k
    OBVIOUS
  <2>2. g[k + 1] = later[k + 1][g[k]] /\ later[k + 1] = step[k]
    BY <1>2, <1>3, <2>1 DEF Walks
  <2>3. f[k] = g[k + 1] /\ f[k - 1] = g[k]
    BY <2>1
  <2> QED  BY <2>2, <2>3
<1> HIDE DEF f
<1> QED  BY <1>4, <1>5, <1>6 DEF Steps

\* The partial sums of a sequence.
Sums(f, s) == f[0] = 0 /\ \A k \in 1..Len(s) : f[k] = f[k - 1] + s[k]

\* A sum is the last of the partial sums.
LEMMA SumIs ==
  ASSUME NEW s \in Seq(Int)
  PROVE  \E f \in [0..Len(s) -> Int] : Sums(f, s) /\ SumOf(s) = f[Len(s)]
<1> DEFINE n == Len(s)
           step == [k \in 1..n |-> [x \in Int |-> x + s[k]]]
<1>1. n \in Nat /\ \A k \in 1..n : s[k] \in Int
  BY LenProperties, ElementOfSeq
<1>2. step \in [1..n -> [Int -> Int]]
  BY <1>1
<1>3. PICK f \in [0..n -> Int] : Steps(f, n, 0, step)
  <2>1. 0 \in Int /\ n \in Nat
    BY <1>1
  <2> HIDE DEF n, step
  <2> QED  BY <1>2, <2>1, FromZero
<1>4. f = [k \in 0..n |-> IF k = 0 THEN 0 ELSE f[k - 1] + s[k]]
  <2>1. ASSUME NEW k \in 1..n PROVE f[k] = f[k - 1] + s[k]
    <3>1. k - 1 \in 0..n
      BY <1>1
    <3>2. f[k - 1] \in Int
      BY <3>1
    <3> QED  BY <1>3, <3>2 DEF Steps
  <2>2. f[0] = 0
    BY <1>3 DEF Steps
  <2>3. \A k \in 0..n : k = 0 \/ k \in 1..n
    BY <1>1
  <2> HIDE DEF n
  <2> QED  BY <2>1, <2>2, <2>3
<1> DEFINE g == CHOOSE h : h = [k \in 0..Len(s) |-> IF k = 0 THEN 0 ELSE h[k - 1] + s[k]]
<1>5. g = [k \in 0..Len(s) |-> IF k = 0 THEN 0 ELSE g[k - 1] + s[k]]
  BY <1>4
<1>6. SumOf(s) = g[n]
  BY DEF SumOf
<1> HIDE DEF g
<1>7. g[0] = 0
  <2>1. 0 \in 0..Len(s)
    BY <1>1
  <2> QED  BY <1>5, <2>1
<1>8. ASSUME NEW k \in 1..n PROVE g[k] = g[k - 1] + s[k]
  <2>1. k \in 0..Len(s) /\ k # 0
    BY <1>1
  <2> QED  BY <1>5, <2>1
<1> DEFINE Same == {k \in 0..n : g[k] = f[k]}
<1>9. 0 \in Same
  BY <1>1, <1>3, <1>7 DEF Steps
<1>10. ASSUME NEW k \in 1..n, k - 1 \in Same PROVE k \in Same
  <2>1. f[k] = f[k - 1] + s[k]
    BY <1>4, <1>1
  <2> QED  BY <1>8, <1>10, <2>1
<1>11. 0..n \subseteq Same
  <2>1. \A k \in (0 + 1)..n : k - 1 \in Same => k \in Same
    BY <1>10
  <2> HIDE DEF Same, n
  <2> QED  BY <1>1, <1>9, <2>1, Upward
<1>12. g[n] = f[n]
  <2>1. n \in 0..n
    BY <1>1
  <2> QED  BY <1>11, <2>1
<1>13. \A k \in 1..n : f[k] = f[k - 1] + s[k]
  BY <1>4, <1>1
<1>14. f[0] = 0
  BY <1>3 DEF Steps
<1> QED  BY <1>6, <1>12, <1>13, <1>14 DEF Sums

\* Whatever has the partial sums ends in the sum.
LEMMA SumUnique ==
  ASSUME NEW s \in Seq(Int), NEW f, Sums(f, s)
  PROVE  SumOf(s) = f[Len(s)] /\ \A k \in 0..Len(s) : f[k] \in Int
<1> DEFINE n == Len(s)
<1>1. n \in Nat /\ \A k \in 1..n : s[k] \in Int
  BY LenProperties, ElementOfSeq
<1>2. PICK g \in [0..n -> Int] : Sums(g, s) /\ SumOf(s) = g[n]
  BY SumIs
<1> DEFINE Same == {k \in 0..n : g[k] = f[k]}
<1>3. 0 \in Same
  BY <1>1, <1>2 DEF Sums
<1>4. ASSUME NEW k \in 1..n, k - 1 \in Same PROVE k \in Same
  BY <1>2, <1>4 DEF Sums
<1>5. 0..n \subseteq Same
  <2>1. \A k \in (0 + 1)..n : k - 1 \in Same => k \in Same
    BY <1>4
  <2> HIDE DEF Same, n
  <2> QED  BY <1>1, <1>3, <2>1, Upward
<1>6. n \in 0..n
  BY <1>1
<1> QED  BY <1>2, <1>5, <1>6

\* A sum of integers is one.
LEMMA SumType ==
  ASSUME NEW s \in Seq(Int) PROVE SumOf(s) \in Int
<1>1. Len(s) \in 0..Len(s)
  BY LenProperties
<1> QED  BY <1>1, SumIs

\* One more summand.
LEMMA SumAppend ==
  ASSUME NEW s \in Seq(Int), NEW x \in Int
  PROVE  SumOf(Append(s, x)) = SumOf(s) + x
<1> DEFINE n == Len(s)
           t == Append(s, x)
<1>1. PICK f \in [0..n -> Int] : Sums(f, s) /\ SumOf(s) = f[n]
  BY SumIs
<1>2. n \in Nat /\ t \in Seq(Int) /\ Len(t) = n + 1 /\ t[n + 1] = x /\ \A k \in 1..n : t[k] = s[k]
  BY AppendProperties, LenProperties
<1> HIDE DEF t
<1> DEFINE g == [k \in 0..(n + 1) |-> IF k = n + 1 THEN f[n] + x ELSE f[k]]
<1>3. g[0] = 0
  BY <1>1, <1>2 DEF Sums
<1>4. ASSUME NEW k \in 1..Len(t) PROVE g[k] = g[k - 1] + t[k]
  <2>1. k \in 0..(n + 1) /\ k - 1 \in 0..(n + 1) /\ k - 1 # n + 1
    BY <1>2
  <2>2. CASE k = n + 1
    BY <1>2, <2>1, <2>2
  <2>3. CASE k # n + 1
    <3>1. k \in 1..n
      BY <1>2, <2>3
    <3>2. f[k] = f[k - 1] + s[k]
      BY <1>1, <3>1 DEF Sums
    <3> QED  BY <1>2, <2>1, <2>3, <3>1, <3>2
  <2> QED  BY <2>2, <2>3
<1>5. g[n + 1] = f[n] + x
  BY <1>2
<1> HIDE DEF g
<1>6. Sums(g, t)
  BY <1>3, <1>4 DEF Sums
<1>7. SumOf(t) = g[n + 1]
  BY <1>2, <1>6, SumUnique
<1> QED  BY <1>1, <1>5, <1>7 DEF t

\* The sum of a part is the difference of two partial sums.
LEMMA SumPart ==
  ASSUME NEW s \in Seq(Int), NEW f, Sums(f, s),
         NEW a \in 1..(Len(s) + 1), NEW b \in 0..Len(s), a <= b + 1
  PROVE  SumOf(SubSeq(s, a, b)) = f[b] - f[a - 1]
<1> DEFINE n == Len(s)
           t == SubSeq(s, a, b)
<1>1. n \in Nat /\ a \in Nat /\ b \in Nat /\ a - 1 \in Nat /\ b - a + 1 \in Nat
  BY LenProperties
<1>2. \A i \in a..b : s[i] \in Int
  BY <1>1, ElementOfSeq
<1>3. /\ t \in Seq(Int)
      /\ Len(t) = b - a + 1
      /\ \A i \in 1..(b - a + 1) : t[i] = s[a + i - 1]
  <2>1. t \in Seq(Int) /\ Len(t) = (IF a <= b THEN b - a + 1 ELSE 0)
        /\ \A i \in 1..(b - a + 1) : t[i] = s[a + i - 1]
    BY <1>1, <1>2, SubSeqProperties
  <2> QED  BY <1>1, <2>1
<1> HIDE DEF t
<1>4. \A k \in 0..n : f[k] \in Int
  BY SumUnique
<1> DEFINE g == [k \in 0..(b - a + 1) |-> f[a + k - 1] - f[a - 1]]
<1>5. g[0] = 0
  <2>1. a - 1 \in 0..n /\ 0 \in 0..(b - a + 1) /\ a + 0 - 1 = a - 1
    BY <1>1
  <2> QED  BY <1>4, <2>1
<1>6. ASSUME NEW k \in 1..Len(t) PROVE g[k] = g[k - 1] + t[k]
  <2>1. k \in 1..(b - a + 1) /\ k - 1 \in 0..(b - a + 1) /\ k \in 0..(b - a + 1)
    BY <1>1, <1>3
  <2>2. a + k - 1 \in 1..n /\ a - 1 \in 0..n /\ a + (k - 1) - 1 = (a + k - 1) - 1
        /\ (a + k - 1) - 1 \in 0..n
    BY <1>1, <2>1
  <2>3. f[a + k - 1] = f[(a + k - 1) - 1] + s[a + k - 1]
    BY <2>2 DEF Sums
  <2>4. t[k] = s[a + k - 1] /\ s[a + k - 1] \in Int
    BY <1>3, <2>1, <2>2, ElementOfSeq
  <2>5. f[a - 1] \in Int /\ f[(a + k - 1) - 1] \in Int
    BY <1>4, <2>2
  <2>6. g[k] = f[a + k - 1] - f[a - 1] /\ g[k - 1] = f[(a + k - 1) - 1] - f[a - 1]
    BY <2>1, <2>2
  <2> HIDE DEF g
  <2> QED  BY <2>3, <2>4, <2>5, <2>6
<1>7. g[b - a + 1] = f[b] - f[a - 1]
  <2>1. b - a + 1 \in 0..(b - a + 1) /\ a + (b - a + 1) - 1 = b
    BY <1>1
  <2> QED  BY <2>1
<1> HIDE DEF g
<1>8. Sums(g, t)
  BY <1>5, <1>6 DEF Sums
<1>9. SumOf(t) = g[Len(t)]
  BY <1>3, <1>8, SumUnique
<1> QED  BY <1>3, <1>7, <1>9 DEF t

\* One element changed.
LEMMA SumChanged ==
  ASSUME NEW s \in Seq(Int), NEW t \in Seq(Int), Len(t) = Len(s), NEW j \in 1..Len(s),
         \A k \in 1..Len(s) : k # j => t[k] = s[k]
  PROVE  SumOf(t) = SumOf(s) + t[j] - s[j]
<1> DEFINE n == Len(s)
           d == t[j] - s[j]
<1>1. PICK f \in [0..n -> Int] : Sums(f, s) /\ SumOf(s) = f[n]
  BY SumIs
<1>2. n \in Nat /\ t[j] \in Int /\ s[j] \in Int /\ \A k \in 1..n : s[k] \in Int /\ t[k] \in Int
  BY LenProperties, ElementOfSeq
<1> DEFINE g == [k \in 0..n |-> IF k < j THEN f[k] ELSE f[k] + d]
<1>3. g[0] = 0
  BY <1>1, <1>2 DEF Sums
<1>4. ASSUME NEW k \in 1..Len(t) PROVE g[k] = g[k - 1] + t[k]
  <2>1. k \in 1..n /\ k \in 0..n /\ k - 1 \in 0..n
    BY <1>2
  <2>2. f[k] = f[k - 1] + s[k] /\ f[k - 1] \in Int /\ f[k] \in Int /\ s[k] \in Int /\ t[k] \in Int
    BY <1>1, <1>2, <2>1 DEF Sums
  <2>3. CASE k = j
    <3>1. g[k] = f[k] + d /\ g[k - 1] = f[k - 1]
      BY <2>1, <2>3
    <3> QED  BY <1>2, <2>2, <2>3, <3>1
  <2>4. CASE k < j
    <3>1. g[k] = f[k] /\ g[k - 1] = f[k - 1] /\ t[k] = s[k]
      BY <2>1, <2>4
    <3> QED  BY <2>2, <3>1
  <2>5. CASE k > j
    <3>1. g[k] = f[k] + d /\ g[k - 1] = f[k - 1] + d /\ t[k] = s[k]
      BY <2>1, <2>5
    <3> QED  BY <1>2, <2>2, <3>1
  <2> QED  BY <2>1, <2>3, <2>4, <2>5
<1>5. g[n] = f[n] + d
  BY <1>2
<1> HIDE DEF g
<1>6. Sums(g, t)
  BY <1>3, <1>4 DEF Sums
<1>7. SumOf(t) = g[n]
  BY <1>6, SumUnique
<1>8. f[n] \in Int
  BY <1>2
<1> QED  BY <1>1, <1>2, <1>5, <1>7, <1>8

\* A sequence from its last element.
LEMMA ReverseIs ==
  ASSUME NEW S, NEW s \in Seq(S)
  PROVE  /\ Reverse(s) \in Seq(S) /\ Len(Reverse(s)) = Len(s)
         /\ \A i \in 1..Len(s) : Reverse(s)[i] = s[Len(s) - i + 1]
<1>1. Len(s) \in Nat
  BY LenProperties
<1>2. Reverse(s) = [i \in 1..Len(s) |-> s[Len(s) - i + 1]]
  BY DEF Reverse
<1>3. \A i \in 1..Len(s) : s[Len(s) - i + 1] \in S
  <2>1. \A i \in 1..Len(s) : Len(s) - i + 1 \in 1..Len(s)
    BY <1>1
  <2> QED  BY <2>1, ElementOfSeq
<1>4. Reverse(s) \in [1..Len(s) -> S]
  BY <1>2, <1>3
<1>5. Reverse(s) \in Seq(S)
  BY <1>1, <1>4, SeqDef
<1>6. Len(Reverse(s)) = Len(s)
  BY <1>1, <1>4, <1>5, LenProperties
<1> QED  BY <1>2, <1>5, <1>6

\* A sequence and the same from its end.
LEMMA SumReverse ==
  ASSUME NEW s \in Seq(Int), NEW t \in Seq(Int), Len(t) = Len(s),
         \A k \in 1..Len(s) : t[k] = s[Len(s) - k + 1]
  PROVE  SumOf(t) = SumOf(s)
<1> DEFINE n == Len(s)
<1>1. PICK f \in [0..n -> Int] : Sums(f, s) /\ SumOf(s) = f[n]
  BY SumIs
<1>2. n \in Nat /\ \A k \in 1..n : s[k] \in Int /\ t[k] \in Int
  BY LenProperties, ElementOfSeq
<1> DEFINE g == [k \in 0..n |-> f[n] - f[n - k]]
<1>3. g[0] = 0
  BY <1>2
<1>4. ASSUME NEW k \in 1..Len(t) PROVE g[k] = g[k - 1] + t[k]
  <2>1. k \in 0..n /\ k - 1 \in 0..n /\ n - k + 1 \in 1..n /\ (n - k + 1) - 1 = n - k
        /\ n - (k - 1) = n - k + 1 /\ n - k \in 0..n /\ n - k + 1 \in 0..n /\ n \in 0..n
    BY <1>2
  <2>2. f[n - k + 1] = f[n - k] + s[n - k + 1]
    BY <1>1, <2>1 DEF Sums
  <2>3. g[k] = f[n] - f[n - k] /\ g[k - 1] = f[n] - f[n - k + 1] /\ t[k] = s[n - k + 1]
    BY <2>1
  <2>4. f[n] \in Int /\ f[n - k] \in Int /\ f[n - k + 1] \in Int /\ s[n - k + 1] \in Int
    BY <1>2, <2>1
  <2> DEFINE u == f[n - k + 1]
             v == s[n - k + 1]
             w == f[n - k]
             all == f[n]
  <2>5. u = w + v /\ g[k - 1] = all - u /\ g[k] = all - w /\ t[k] = v
        /\ u \in Int /\ v \in Int /\ w \in Int /\ all \in Int
    BY <2>2, <2>3, <2>4
  <2> HIDE DEF g, u, v, w, all
  <2> QED  BY <2>5
<1>5. g[n] = f[n]
  <2>1. n \in 0..n /\ n - n = 0 /\ f[0] = 0 /\ f[n] \in Int
    BY <1>1, <1>2 DEF Sums
  <2>2. g[n] = f[n] - f[n - n]
    BY <2>1
  <2> HIDE DEF g
  <2> QED  BY <2>1, <2>2
<1> HIDE DEF g
<1>6. Sums(g, t)
  BY <1>3, <1>4 DEF Sums
<1>7. SumOf(t) = g[n]
  BY <1>6, SumUnique
<1> QED  BY <1>1, <1>5, <1>7

------------------------------------------------------------------------------
(* The rows found.                                                           *)

Finds(f) ==
  /\ f[0] = <<>>
  /\ \A i \in 1..Len(moves) :
       f[i] = IF reading[i] = "missed" THEN f[i - 1] ELSE Append(f[i - 1], i)

\* The rows found, gathered row by row.
LEMMA RowsAre ==
  ASSUME Len(moves) \in Nat
  PROVE  \E f \in [0..Len(moves) -> Seq(Nat)] : Finds(f) /\ Rows = f[Len(moves)]
<1> DEFINE n == Len(moves)
           X == Seq(Nat)
           step == [k \in 1..n |-> [s \in X |-> IF reading[k] = "missed" THEN s ELSE Append(s, k)]]
<1>1. step \in [1..n -> [X -> X]]
  <2>1. ASSUME NEW k \in 1..n, NEW s \in X PROVE Append(s, k) \in X
    BY AppendProperties
  <2> HIDE DEF X, n
  <2> QED  BY <2>1
<1>2. PICK f \in [0..n -> X] : Steps(f, n, <<>>, step)
  <2>1. <<>> \in X /\ n \in Nat
    BY EmptySeq
  <2> HIDE DEF n, step, X
  <2> QED  BY <1>1, <2>1, FromZero
<1>3. f[0] = <<>>
  BY <1>2 DEF Steps
<1>4. ASSUME NEW k \in 1..n
      PROVE  f[k] = IF reading[k] = "missed" THEN f[k - 1] ELSE Append(f[k - 1], k)
  <2>1. k - 1 \in 0..n
    OBVIOUS
  <2>2. f[k - 1] \in X
    BY <2>1
  <2> HIDE DEF X, n
  <2> QED  BY <1>2, <2>2 DEF Steps
<1>5. f = [i \in 0..n |->
             IF i = 0 THEN <<>>
             ELSE IF reading[i] = "missed" THEN f[i - 1] ELSE Append(f[i - 1], i)]
  <2>1. \A k \in 0..n : k = 0 \/ k \in 1..n
    OBVIOUS
  <2> HIDE DEF n, X
  <2> QED  BY <1>3, <1>4, <2>1
<1> DEFINE g == CHOOSE h : h = [i \in 0..Len(moves) |->
             IF i = 0 THEN <<>>
             ELSE IF reading[i] = "missed" THEN h[i - 1] ELSE Append(h[i - 1], i)]
<1>6. g = [i \in 0..Len(moves) |->
             IF i = 0 THEN <<>>
             ELSE IF reading[i] = "missed" THEN g[i - 1] ELSE Append(g[i - 1], i)]
  BY <1>5
<1>7. Rows = g[n]
  BY DEF Rows
<1> HIDE DEF g
<1>8. g[0] = <<>>
  <2>1. 0 \in 0..Len(moves)
    OBVIOUS
  <2> QED  BY <1>6, <2>1
<1>9. ASSUME NEW k \in 1..n
      PROVE  g[k] = IF reading[k] = "missed" THEN g[k - 1] ELSE Append(g[k - 1], k)
  <2>1. k \in 0..Len(moves) /\ k # 0
    OBVIOUS
  <2> QED  BY <1>6, <2>1
<1> DEFINE Typed == {k \in 0..n : g[k] \in X}
<1>10. 0 \in Typed
  <2>1. g[0] \in X /\ 0 \in 0..n
    BY <1>8, EmptySeq
  <2> HIDE DEF X, n
  <2> QED  BY <2>1
<1>11. ASSUME NEW k \in 1..n, k - 1 \in Typed PROVE k \in Typed
  <2>1. g[k - 1] \in X /\ k \in Nat
    BY <1>11
  <2>2. Append(g[k - 1], k) \in X
    BY <2>1, AppendProperties
  <2>3. k \in 0..n
    OBVIOUS
  <2>4. g[k] = g[k - 1] \/ g[k] = Append(g[k - 1], k)
    BY <1>9
  <2> HIDE DEF X, n
  <2> QED  BY <2>1, <2>2, <2>3, <2>4
<1>12. 0..n \subseteq Typed
  <2>1. \A k \in (0 + 1)..n : k - 1 \in Typed => k \in Typed
    BY <1>11
  <2>2. n \in Nat
    OBVIOUS
  <2> HIDE DEF Typed, n
  <2> QED  BY <1>10, <2>1, <2>2, Upward
<1>13. g \in [0..n -> X]
  <2>1. \A k \in 0..n : g[k] \in X
    BY <1>12
  <2> HIDE DEF n, X
  <2> QED  BY <1>6, <2>1 DEF n
<1> QED  BY <1>7, <1>8, <1>9, <1>13 DEF Finds

\* After i rows, the rows found are those of them not missed, in their order.
FoundUpTo(r, i) ==
  /\ r \in Seq(Nat)
  /\ \A k \in 1..Len(r) : r[k] \in 1..i /\ reading[r[k]] # "missed"
  /\ \A k, l \in 1..Len(r) : k < l => r[k] < r[l]
  /\ \A p \in 1..i : reading[p] # "missed" => \E k \in 1..Len(r) : r[k] = p

\* A row that is not missed is found next.
LEMMA FindOne ==
  ASSUME NEW i \in Nat \ {0}, NEW r, FoundUpTo(r, i - 1), reading[i] # "missed"
  PROVE  FoundUpTo(Append(r, i), i)
<1> DEFINE t == Append(r, i)
           m == Len(r)
<1>1. r \in Seq(Nat)
  BY DEF FoundUpTo
<1>2. m \in Nat /\ t \in Seq(Nat) /\ Len(t) = m + 1 /\ t[m + 1] = i /\ \A k \in 1..m : t[k] = r[k]
  BY <1>1, AppendProperties, LenProperties
<1> HIDE DEF t, m
<1>3. \A k \in 1..m : r[k] \in 1..(i - 1) /\ reading[r[k]] # "missed"
  BY DEF FoundUpTo, m
<1>4. ASSUME NEW k \in 1..Len(t) PROVE t[k] \in 1..i /\ reading[t[k]] # "missed"
  <2>1. k = m + 1 \/ k \in 1..m
    BY <1>2
  <2> QED  BY <1>2, <1>3, <2>1
<1>5. ASSUME NEW k \in 1..Len(t), NEW l \in 1..Len(t), k < l PROVE t[k] < t[l]
  <2>1. k \in 1..m /\ (l = m + 1 \/ l \in 1..m)
    BY <1>2, <1>5
  <2>2. CASE l = m + 1
    BY <1>2, <1>3, <2>1, <2>2
  <2>3. CASE l \in 1..m
    <3>1. r[k] < r[l]
      BY <1>5, <2>1, <2>3 DEF FoundUpTo, m
    <3> QED  BY <1>2, <2>1, <2>3, <3>1
  <2> QED  BY <2>1, <2>2, <2>3
<1>6. ASSUME NEW p \in 1..i, reading[p] # "missed" PROVE \E k \in 1..Len(t) : t[k] = p
  <2>1. CASE p = i
    <3>1. m + 1 \in 1..Len(t)
      BY <1>2
    <3> QED  BY <1>2, <2>1, <3>1
  <2>2. CASE p # i
    <3>1. p \in 1..(i - 1)
      BY <2>2
    <3>2. PICK k \in 1..m : r[k] = p
      BY <1>6, <3>1 DEF FoundUpTo, m
    <3>3. k \in 1..Len(t)
      BY <1>2
    <3> QED  BY <1>2, <3>2, <3>3
  <2> QED  BY <2>1, <2>2
<1>7. FoundUpTo(t, i)
  BY <1>2, <1>4, <1>5, <1>6 DEF FoundUpTo
<1> QED  BY <1>7 DEF t

\* After each row, those found are those not missed so far, in order.
LEMMA FoundAlong ==
  ASSUME Len(moves) \in Nat, NEW f, Finds(f)
  PROVE  \A i \in 0..Len(moves) : FoundUpTo(f[i], i)
<1> DEFINE n == Len(moves)
           Good == {i \in 0..n : FoundUpTo(f[i], i)}
<1>1. 0 \in Good
  <2>1. f[0] = <<>> /\ Len(<<>>) = 0 /\ <<>> \in Seq(Nat)
    BY DEF Finds
  <2>2. FoundUpTo(<<>>, 0)
    BY <2>1 DEF FoundUpTo
  <2>3. 0 \in 0..n
    OBVIOUS
  <2> QED  BY <2>1, <2>2, <2>3
<1>2. ASSUME NEW i \in 1..n, i - 1 \in Good PROVE i \in Good
  <2>1. FoundUpTo(f[i - 1], i - 1)
    BY <1>2
  <2>2. f[i] = IF reading[i] = "missed" THEN f[i - 1] ELSE Append(f[i - 1], i)
    BY DEF Finds
  <2>3. CASE reading[i] # "missed"
    <3>1. i \in Nat \ {0}
      OBVIOUS
    <3>2. FoundUpTo(Append(f[i - 1], i), i)
      BY <2>1, <2>3, <3>1, FindOne
    <3>3. f[i] = Append(f[i - 1], i) /\ i \in 0..n
      BY <2>2, <2>3
    <3> QED  BY <3>2, <3>3
  <2>4. CASE reading[i] = "missed"
    <3>1. f[i] = f[i - 1]
      BY <2>2, <2>4
    <3>2. \A p \in 1..i : p = i \/ p \in 1..(i - 1)
      OBVIOUS
    <3>3. 1..(i - 1) \subseteq 1..i
      OBVIOUS
    <3>4. FoundUpTo(f[i - 1], i)
      BY <2>1, <2>4, <3>2, <3>3 DEF FoundUpTo
    <3> QED  BY <3>1, <3>4
  <2> QED  BY <2>3, <2>4
<1>3. 0..n \subseteq Good
  <2>1. \A k \in (0 + 1)..n : k - 1 \in Good => k \in Good
    BY <1>2
  <2>2. n \in Nat
    OBVIOUS
  <2> HIDE DEF Good, n
  <2> QED  BY <1>1, <2>1, <2>2, Upward
<1> QED  BY <1>3

\* The rows found are those not missed.
LEMMA RowsFound ==
  ASSUME Len(moves) \in Nat
  PROVE  FoundUpTo(Rows, Len(moves))
<1>1. PICK f \in [0..Len(moves) -> Seq(Nat)] : Finds(f) /\ Rows = f[Len(moves)]
  BY RowsAre
<1>2. Len(moves) \in 0..Len(moves)
  OBVIOUS
<1> QED  BY <1>1, <1>2, FoundAlong

\* A value of each row found.
Via(A, r) == [k \in DOMAIN r |-> A[r[k]]]

\* The values of a sequence at the rows of a list.
LEMMA ViaIs ==
  ASSUME NEW A \in Seq(Int), NEW r \in Seq(1..Len(A))
  PROVE  /\ Via(A, r) \in Seq(Int) /\ Len(Via(A, r)) = Len(r)
         /\ \A k \in 1..Len(r) : Via(A, r)[k] = A[r[k]]
<1>1. DOMAIN r = 1..Len(r) /\ Len(r) \in Nat /\ \A k \in 1..Len(r) : r[k] \in 1..Len(A)
  BY LenProperties, ElementOfSeq
<1>2. \A k \in 1..Len(r) : A[r[k]] \in Int
  BY <1>1, ElementOfSeq
<1>3. Via(A, r) \in [1..Len(r) -> Int]
  BY <1>1, <1>2 DEF Via
<1>4. Via(A, r) \in Seq(Int) /\ Len(Via(A, r)) = Len(r)
  BY <1>1, <1>3, IsSequence
<1> QED  BY <1>1, <1>4 DEF Via

\* One more row of the list.
LEMMA ViaAppend ==
  ASSUME NEW A \in Seq(Int), NEW r \in Seq(1..Len(A)), NEW i \in 1..Len(A)
  PROVE  Via(A, Append(r, i)) = Append(Via(A, r), A[i])
<1> DEFINE m == Len(r)
           u == Append(r, i)
           v == Append(Via(A, r), A[i])
<1>1. /\ m \in Nat /\ u \in Seq(1..Len(A)) /\ Len(u) = m + 1 /\ u[m + 1] = i
      /\ \A k \in 1..m : u[k] = r[k]
  BY AppendProperties, LenProperties
<1>2. Via(A, r) \in Seq(Int) /\ Len(Via(A, r)) = m /\ \A k \in 1..m : Via(A, r)[k] = A[r[k]]
  BY ViaIs
<1>3. A[i] \in Int
  BY ElementOfSeq
<1>4. /\ v \in Seq(Int) /\ Len(v) = m + 1 /\ v[m + 1] = A[i]
      /\ \A k \in 1..m : v[k] = Via(A, r)[k]
  BY <1>2, <1>3, AppendProperties
<1> HIDE DEF u, v, m
<1>5. /\ Via(A, u) \in Seq(Int) /\ Len(Via(A, u)) = m + 1
      /\ \A k \in 1..(m + 1) : Via(A, u)[k] = A[u[k]]
  <2>1. /\ Via(A, u) \in Seq(Int) /\ Len(Via(A, u)) = Len(u)
        /\ \A k \in 1..Len(u) : Via(A, u)[k] = A[u[k]]
    BY <1>1, ViaIs
  <2> QED  BY <1>1, <2>1
<1>6. ASSUME NEW k \in 1..(m + 1) PROVE Via(A, u)[k] = v[k]
  <2>1. k = m + 1 \/ k \in 1..m
    BY <1>1
  <2> QED  BY <1>1, <1>2, <1>4, <1>5, <2>1
<1>7. Via(A, u) = v
  BY <1>4, <1>5, <1>6, SeqEqual
<1> QED  BY <1>7 DEF u, v

Kept(A) == [i \in 1..Len(moves) |-> IF reading[i] = "missed" THEN 0 ELSE A[i]]

\* The values of all rows, those missed counted as zero.
LEMMA KeptIs ==
  ASSUME NEW A \in Seq(Int), Len(A) = Len(moves)
  PROVE  Kept(A) \in Seq(Int) /\ Len(Kept(A)) = Len(moves)
<1>1. Len(moves) \in Nat /\ \A i \in 1..Len(moves) : A[i] \in Int
  BY LenProperties, ElementOfSeq
<1>2. Kept(A) \in [1..Len(moves) -> Int]
  BY <1>1 DEF Kept
<1>3. Kept(A) \in Seq(Int)
  BY <1>1, <1>2, SeqDef
<1> QED  BY <1>1, <1>2, <1>3, LenProperties

\* Adding up the rows found is adding up all rows, a missed one being nothing.
LEMMA RowsSum ==
  ASSUME NEW A \in Seq(Int), Len(A) = Len(moves)
  PROVE  SumOf(Via(A, Rows)) = SumOf(Kept(A))
<1> DEFINE n == Len(moves)
<1>1. n \in Nat /\ \A i \in 1..n : A[i] \in Int
  BY LenProperties, ElementOfSeq
<1>2. PICK f \in [0..n -> Seq(Nat)] : Finds(f) /\ Rows = f[n]
  BY <1>1, RowsAre
<1>3. Kept(A) \in Seq(Int) /\ Len(Kept(A)) = n
  BY KeptIs
<1>4. PICK g \in [0..n -> Int] : Sums(g, Kept(A)) /\ SumOf(Kept(A)) = g[n]
  BY <1>3, SumIs
<1> DEFINE Good == {i \in 0..n : SumOf(Via(A, f[i])) = g[i]}
<1>5. 0 \in Good
  <2>1. f[0] = <<>> /\ g[0] = 0
    BY <1>2, <1>4 DEF Finds, Sums
  <2>2. Via(A, <<>>) = <<>>
    BY DEF Via
  <2>3. SumOf(<<>>) = 0
    <3>1. <<>> \in Seq(Int) /\ Len(<<>>) = 0
      BY EmptySeq
    <3> DEFINE zero == [k \in {0} |-> 0]
    <3>2. Sums(zero, <<>>)
      BY <3>1 DEF Sums
    <3>3. zero[0] = 0
      OBVIOUS
    <3> HIDE DEF zero
    <3> QED  BY <3>1, <3>2, <3>3, SumUnique
  <2> QED  BY <1>1, <2>1, <2>2, <2>3
<1>6. ASSUME NEW i \in 1..n, i - 1 \in Good PROVE i \in Good
  <2>1. i \in 0..n /\ i - 1 \in 0..n /\ i - 1 \in Nat
    BY <1>1
  <2>2. SumOf(Via(A, f[i - 1])) = g[i - 1]
    BY <1>6
  <2>3. f[i] = IF reading[i] = "missed" THEN f[i - 1] ELSE Append(f[i - 1], i)
    BY <1>2 DEF Finds
  <2>4. g[i] = g[i - 1] + (IF reading[i] = "missed" THEN 0 ELSE A[i])
    BY <1>3, <1>4 DEF Sums, Kept
  <2>5. g[i - 1] \in Int /\ A[i] \in Int
    BY <1>1, <2>1
  <2>6. CASE reading[i] = "missed"
    BY <2>1, <2>2, <2>3, <2>4, <2>5, <2>6
  <2>7. CASE reading[i] # "missed"
    <3>1. FoundUpTo(f[i - 1], i - 1)
      BY <1>1, <1>2, <2>1, FoundAlong
    <3>2. f[i - 1] \in Seq(1..Len(A))
      <4>1. f[i - 1] \in Seq(Nat) /\ \A k \in 1..Len(f[i - 1]) : f[i - 1][k] \in 1..(i - 1)
        BY <3>1 DEF FoundUpTo
      <4>2. \A k \in 1..Len(f[i - 1]) : f[i - 1][k] \in 1..Len(A)
        BY <1>1, <4>1
      <4>3. DOMAIN f[i - 1] = 1..Len(f[i - 1]) /\ Len(f[i - 1]) \in Nat
            /\ f[i - 1] \in [1..Len(f[i - 1]) -> Nat]
        BY <4>1, LenProperties
      <4>4. f[i - 1] \in [1..Len(f[i - 1]) -> 1..Len(A)]
        BY <4>2, <4>3
      <4> QED  BY <4>3, <4>4, IsSequence
    <3>3. i \in 1..Len(A)
      OBVIOUS
    <3>4. Via(A, Append(f[i - 1], i)) = Append(Via(A, f[i - 1]), A[i])
      BY <3>2, <3>3, ViaAppend
    <3>5. Via(A, f[i - 1]) \in Seq(Int)
      BY <3>2, ViaIs
    <3>6. SumOf(Append(Via(A, f[i - 1]), A[i])) = g[i - 1] + A[i]
      BY <2>2, <2>5, <3>5, SumAppend
    <3>7. f[i] = Append(f[i - 1], i) /\ g[i] = g[i - 1] + A[i]
      BY <2>3, <2>4, <2>7
    <3>8. SumOf(Via(A, f[i])) = g[i]
      BY <3>4, <3>6, <3>7
    <3> QED  BY <2>1, <3>8
  <2> QED  BY <2>6, <2>7
<1>7. 0..n \subseteq Good
  <2>1. \A k \in (0 + 1)..n : k - 1 \in Good => k \in Good
    BY <1>6
  <2> HIDE DEF Good, n
  <2> QED  BY <1>1, <1>5, <2>1, Upward
<1>8. n \in 0..n
  BY <1>1
<1> QED  BY <1>2, <1>4, <1>7, <1>8

------------------------------------------------------------------------------
(* A statement and its running balance.                                      *)

Statement ==
  /\ moves \in Seq(Int) /\ moves # <<>>
  /\ reading \in [1..Len(moves) -> RowReadings]

\* A set of numbers with a bound has a greatest one.
LEMMA GreatestIs ==
  ASSUME NEW S \in SUBSET Nat, NEW n \in Nat, \A x \in S : x <= n, S # {}
  PROVE  Max(S) \in S /\ \A x \in S : x <= Max(S)
<1> DEFINE T == {n - x : x \in S}
<1>1. T \in SUBSET Nat /\ T # {}
  <2>1. ASSUME NEW x \in S PROVE n - x \in Nat
    <3>1. x \in Nat /\ x <= n
      OBVIOUS
    <3> QED  BY <3>1
  <2> QED  BY <2>1
<1>2. PICK m \in T : \A k \in T : m <= k
  <2> HIDE DEF T
  <2> QED  BY <1>1, LeastNumber
<1>3. PICK y \in S : m = n - y
  BY <1>2
<1>4. ASSUME NEW x \in S PROVE y >= x
  <2>1. m <= n - x /\ x \in Nat /\ y \in Nat
    BY <1>2
  <2> QED  BY <1>3, <2>1
<1>5. Max(S) \in S /\ \A x \in S : Max(S) >= x
  BY <1>4 DEF Max
<1>6. ASSUME NEW x \in S PROVE x <= Max(S)
  <2>1. x \in Nat /\ Max(S) \in Nat /\ Max(S) >= x
    BY <1>5
  <2> QED  BY <2>1
<1> QED  BY <1>5, <1>6

\* What bounds a set it is in is the greatest.
LEMMA MaxIs ==
  ASSUME NEW S \in SUBSET Nat, NEW m \in S, \A x \in S : x <= m
  PROVE  Max(S) = m
<1>1. \A x \in S : m >= x
  OBVIOUS
<1>2. Max(S) \in S /\ \A x \in S : Max(S) >= x
  BY <1>1 DEF Max
<1>3. Max(S) >= m /\ Max(S) <= m /\ Max(S) \in Nat /\ m \in Nat
  BY <1>2
<1> QED  BY <1>3

\* A true balance is the opening one and a partial sum of the movements.
LEMMA BalanceIs ==
  ASSUME moves \in Seq(Int), NEW f, Sums(f, moves), NEW i \in 0..Len(moves)
  PROVE  TrueBalance(i) = Opening + f[i] /\ TrueBalance(i) \in Int /\ f[i] \in Int
<1>1. Len(moves) \in Nat
  BY LenProperties
<1>2. 1 \in 1..(Len(moves) + 1) /\ 1 <= i + 1 /\ 1 - 1 = 0
  BY <1>1
<1>3. SumOf(SubSeq(moves, 1, i)) = f[i] - f[0]
  BY <1>2, SumPart
<1>4. f[0] = 0 /\ f[i] \in Int
  BY SumUnique DEF Sums
<1> QED  BY <1>3, <1>4 DEF TrueBalance, Opening

\* What a transaction adds to the balance: the movement, or its opposite when
\* its amounts were taken for each other's column.
AsRead(i) == IF reading[i] = "swapped" THEN -moves[i] ELSE moves[i]

\* What a transaction says of the row it was read from.
LEMMA TransactionIs ==
  ASSUME Statement, NEW i \in 1..Len(moves)
  PROVE  /\ Transaction(i).debit = Debit(AsRead(i)) /\ Transaction(i).credit = Credit(AsRead(i))
         /\ Debit(AsRead(i)) \in Int /\ Credit(AsRead(i)) \in Int
         /\ Credit(AsRead(i)) - Debit(AsRead(i)) = AsRead(i)
         /\ AsRead(i) \in Int /\ moves[i] \in Int
         /\ Transaction(i).dated <=> reading[i] # "undated"
         /\ Known(Transaction(i).balance) <=> reading[i] # "noBalance"
         /\ reading[i] # "noBalance" => Transaction(i).balance = TrueBalance(i)
         /\ TrueBalance(i) \in Int
<1>1. moves[i] \in Int
  BY ElementOfSeq DEF Statement
<1>2. AsRead(i) \in Int
  BY <1>1 DEF AsRead
<1>3. /\ Transaction(i).debit = Debit(AsRead(i)) /\ Transaction(i).credit = Credit(AsRead(i))
      /\ Transaction(i).dated = (reading[i] # "undated")
      /\ Transaction(i).balance = (IF reading[i] = "noBalance" THEN NoValue ELSE TrueBalance(i))
  BY DEF Transaction, AsRead
<1>4. /\ Debit(AsRead(i)) \in Int /\ Credit(AsRead(i)) \in Int
      /\ Credit(AsRead(i)) - Debit(AsRead(i)) = AsRead(i)
  BY <1>2 DEF Debit, Credit
<1>5. TrueBalance(i) \in Int
  <2>1. PICK f \in [0..Len(moves) -> Int] : Sums(f, moves)
    BY SumIs DEF Statement
  <2>2. i \in 0..Len(moves)
    BY LenProperties DEF Statement
  <2> QED  BY <2>1, <2>2, BalanceIs DEF Statement
<1>6. TrueBalance(i) # NoValue
  BY <1>5, NoValueAssumption
<1> QED  BY <1>1, <1>2, <1>3, <1>4, <1>5, <1>6 DEF Known

\* The transactions are those of the rows found.
LEMMA TransactionsAre ==
  ASSUME Statement
  PROVE  /\ FoundUpTo(Rows, Len(moves)) /\ Len(Rows) \in Nat /\ DOMAIN Rows = 1..Len(Rows)
         /\ Transactions \in [1..Len(Rows) -> {Transaction(i) : i \in 1..Len(moves)}]
         /\ Len(Transactions) = Len(Rows)
         /\ \A k \in 1..Len(Rows) :
              Transactions[k] = Transaction(Rows[k]) /\ Rows[k] \in 1..Len(moves)
<1>1. Len(moves) \in Nat
  BY LenProperties DEF Statement
<1>2. FoundUpTo(Rows, Len(moves))
  BY <1>1, RowsFound
<1>3. Len(Rows) \in Nat /\ DOMAIN Rows = 1..Len(Rows)
  BY <1>2, LenProperties DEF FoundUpTo
<1>4. \A k \in 1..Len(Rows) : Transactions[k] = Transaction(Rows[k]) /\ Rows[k] \in 1..Len(moves)
  BY <1>2, <1>3 DEF Transactions, FoundUpTo
<1>5. Transactions \in [1..Len(Rows) -> {Transaction(i) : i \in 1..Len(moves)}]
  <2>1. Transactions = [k \in 1..Len(Rows) |-> Transaction(Rows[k])]
    BY <1>3 DEF Transactions
  <2> QED  BY <1>4, <2>1
<1>6. Len(Transactions) = Len(Rows)
  BY <1>3, <1>5, IsSequence
<1> QED  BY <1>1, <1>2, <1>3, <1>4, <1>5, <1>6

\* The last balance before a row is that of the last such row.
LEMMA LastBalanceIs ==
  ASSUME Statement, NEW k \in 1..Len(Rows)
  PROVE  /\ Balanced(Rows[k]) = {} => LastBalance(Transactions, k) = NoValue
         /\ Balanced(Rows[k]) # {} =>
              /\ Max(Balanced(Rows[k])) \in Balanced(Rows[k])
              /\ LastBalance(Transactions, k) = TrueBalance(Max(Balanced(Rows[k])))
<1> DEFINE b == Rows[k]
           seen == {j \in 1..(k - 1) : Known(Transactions[j].balance)}
           m == Max(seen)
<1>1. /\ FoundUpTo(Rows, Len(moves)) /\ Len(Rows) \in Nat
      /\ \A j \in 1..Len(Rows) : Transactions[j] = Transaction(Rows[j]) /\ Rows[j] \in 1..Len(moves)
      /\ Len(moves) \in Nat
  BY TransactionsAre, LenProperties DEF Statement
<1>2. \A j \in 1..(k - 1) : j \in 1..Len(Rows) /\ j < k
  BY <1>1
<1>3. ASSUME NEW j \in 1..(k - 1) PROVE Rows[j] \in 1..(b - 1) /\ reading[Rows[j]] # "missed"
  <2>1. Rows[j] < b /\ Rows[j] \in Nat /\ b \in Nat /\ Rows[j] >= 1 /\ reading[Rows[j]] # "missed"
    BY <1>1, <1>2 DEF FoundUpTo
  <2> QED  BY <2>1
<1>4. ASSUME NEW j \in 1..(k - 1) PROVE j \in seen <=> Rows[j] \in Balanced(b)
  <2>1. Rows[j] \in 1..Len(moves) /\ Transactions[j] = Transaction(Rows[j])
    BY <1>1, <1>2
  <2>2. Known(Transactions[j].balance) <=> reading[Rows[j]] # "noBalance"
    BY <2>1, TransactionIs
  <2>3. reading[Rows[j]] \in RowReadings
    BY <2>1 DEF Statement
  <2> QED  BY <1>3, <2>2, <2>3 DEF Balanced, RowReadings
<1>5. ASSUME NEW a \in Balanced(b) PROVE \E j \in seen : Rows[j] = a
  <2>1. a \in 1..(b - 1) /\ reading[a] # "missed"
    BY DEF Balanced
  <2>2. b \in 1..Len(moves)
    BY <1>1
  <2>3. a \in 1..Len(moves)
    BY <1>1, <2>1, <2>2
  <2>4. PICK j \in 1..Len(Rows) : Rows[j] = a
    BY <1>1, <2>1, <2>3 DEF FoundUpTo
  <2>5. j < k
    <3>1. CASE j = k
      BY <2>1, <2>2, <2>4, <3>1
    <3>2. CASE k < j
      <4>1. b < a
        BY <1>1, <2>4, <3>2 DEF FoundUpTo
      <4> QED  BY <2>1, <2>2, <2>3, <4>1
    <3> QED  BY <1>1, <3>1, <3>2
  <2>6. j \in 1..(k - 1)
    BY <1>1, <2>5
  <2> QED  BY <1>4, <2>4, <2>6
<1>6. LastBalance(Transactions, k) = IF seen = {} THEN NoValue ELSE Transactions[m].balance
  BY DEF LastBalance
<1>7. CASE seen = {}
  <2>1. Balanced(b) = {}
    BY <1>5, <1>7
  <2> QED  BY <1>6, <1>7, <2>1
<1>8. CASE seen # {}
  <2>1. seen \in SUBSET Nat /\ Len(Rows) \in Nat /\ \A j \in seen : j <= Len(Rows)
    BY <1>1, <1>2
  <2>2. m \in seen /\ \A j \in seen : j <= m
    <3> HIDE DEF seen
    <3> QED  BY <1>8, <2>1, GreatestIs
  <2>3. m \in 1..(k - 1) /\ Rows[m] \in Balanced(b)
    BY <1>4, <2>2
  <2>4. ASSUME NEW a \in Balanced(b) PROVE a <= Rows[m]
    <3>1. PICK j \in seen : Rows[j] = a
      BY <1>5
    <3>2. j <= m /\ j \in 1..Len(Rows) /\ m \in 1..Len(Rows)
      BY <1>2, <2>2, <2>3
    <3>3. Rows[j] \in Nat /\ Rows[m] \in Nat
      BY <1>1, <3>2
    <3>4. CASE j = m
      BY <3>1, <3>3, <3>4
    <3>5. CASE j < m
      <4>1. Rows[j] < Rows[m]
        BY <1>1, <3>2, <3>5 DEF FoundUpTo
      <4> QED  BY <3>1, <3>3, <4>1
    <3> QED  BY <3>2, <3>4, <3>5
  <2>5. Max(Balanced(b)) = Rows[m]
    <3>1. Balanced(b) \in SUBSET Nat
      BY DEF Balanced
    <3> HIDE DEF m, b
    <3> QED  BY <2>3, <2>4, <3>1, MaxIs
  <2>6. Transactions[m] = Transaction(Rows[m]) /\ Rows[m] \in 1..Len(moves)
    BY <1>1, <1>2, <2>3
  <2>7. reading[Rows[m]] # "noBalance"
    BY <2>3 DEF Balanced
  <2>8. Transactions[m].balance = TrueBalance(Rows[m])
    BY <2>6, <2>7, TransactionIs
  <2>9. LastBalance(Transactions, k) = Transactions[m].balance
    BY <1>6, <1>8
  <2> HIDE DEF m, b, seen
  <2>10. Balanced(b) # {}
    BY <2>3
  <2> QED  BY <2>3, <2>5, <2>8, <2>9, <2>10 DEF b
<1> QED  BY <1>7, <1>8

\* Where the running balance breaks.
LEMMA BreakIs ==
  ASSUME Statement, NEW k \in 1..Len(Rows), NEW cents \in Int
  PROVE  k \in Breaks(Transactions, cents) <=> Gap(Rows[k], cents)
<1> DEFINE b == Rows[k]
           a == Max(Balanced(b))
           t == Transactions[k]
<1>1. /\ Len(Rows) \in Nat /\ t = Transaction(b) /\ b \in 1..Len(moves)
      /\ DOMAIN Transactions = 1..Len(Rows)
      /\ Len(moves) \in Nat
  BY TransactionsAre, LenProperties DEF Statement
<1>2. /\ t.debit = Debit(AsRead(b)) /\ t.credit = Credit(AsRead(b))
      /\ Debit(AsRead(b)) \in Int /\ Credit(AsRead(b)) \in Int
      /\ Credit(AsRead(b)) - Debit(AsRead(b)) = AsRead(b)
      /\ AsRead(b) \in Int /\ moves[b] \in Int
      /\ Known(t.balance) <=> reading[b] # "noBalance"
      /\ reading[b] # "noBalance" => t.balance = TrueBalance(b)
      /\ TrueBalance(b) \in Int
  BY <1>1, TransactionIs
<1> HIDE DEF t
<1>3. k \in Breaks(Transactions, cents) <=>
        /\ Known(t.balance) /\ Known(LastBalance(Transactions, k))
        /\ Off(t.balance, LastBalance(Transactions, k) + t.credit - t.debit, cents)
  BY <1>1 DEF Breaks, t
<1>4. CASE reading[b] = "noBalance" \/ Balanced(b) = {}
  BY <1>2, <1>3, <1>4, LastBalanceIs DEF Known, Gap, b
<1>5. CASE reading[b] # "noBalance" /\ Balanced(b) # {}
  <2>1. a \in Balanced(b) /\ LastBalance(Transactions, k) = TrueBalance(a)
    BY <1>5, LastBalanceIs
  <2>2. a \in 1..(b - 1)
    BY <2>1 DEF Balanced
  <2> HIDE DEF a, b
  <2>3. b \in Nat /\ a \in Nat /\ a \in 1..Len(moves) /\ a + 1 <= b /\ b - 1 \in 0..Len(moves)
        /\ b \in 0..Len(moves) /\ a \in 0..Len(moves) /\ a + 1 \in 1..(Len(moves) + 1)
        /\ a + 1 <= (b - 1) + 1 /\ (a + 1) - 1 = a
    BY <1>1, <2>2
  <2>4. PICK f \in [0..Len(moves) -> Int] : Sums(f, moves)
    BY SumIs DEF Statement
  <2>5. /\ TrueBalance(b) = Opening + f[b] /\ TrueBalance(a) = Opening + f[a]
        /\ f[b] \in Int /\ f[a] \in Int /\ TrueBalance(a) \in Int
    BY <2>3, <2>4, BalanceIs DEF Statement
  <2>6. Between(a, b) = f[b - 1] - f[a]
    BY <2>3, <2>4, SumPart DEF Statement, Between
  <2>7. f[b] = f[b - 1] + moves[b] /\ f[b - 1] \in Int
    BY <1>1, <2>3, <2>4 DEF Sums
  <2>8. Known(t.balance) /\ t.balance = TrueBalance(b) /\ Known(TrueBalance(a))
    BY <1>2, <1>5, <2>5, NoValueAssumption DEF Known
  <2>9. k \in Breaks(Transactions, cents)
          <=> Off(TrueBalance(b), TrueBalance(a) + t.credit - t.debit, cents)
    BY <1>3, <2>1, <2>8
  <2> DEFINE x == TrueBalance(b)
             y == TrueBalance(a) + t.credit - t.debit
             z == Between(a, b) + Misread(b)
  <2>10. x - y = z /\ x \in Int /\ y \in Int /\ z \in Int
    <3>1. y = TrueBalance(a) + AsRead(b)
      BY <1>2, <2>5
    <3>2. AsRead(b) = moves[b] - Misread(b) /\ Misread(b) \in Int
      <4>1. moves[b] \in Int
        BY <1>2
      <4> QED  BY <4>1 DEF AsRead, Misread
    <3> HIDE DEF x, y, z
    <3>3. x = Opening + f[b] /\ y = Opening + f[a] + AsRead(b)
      BY <2>5, <3>1 DEF x
    <3>4. z = f[b - 1] - f[a] + Misread(b)
      BY <2>6 DEF z
    <3> DEFINE p == f[b - 1]
               q == f[b]
               u == f[a]
               v == AsRead(b)
               w == Misread(b)
               d == moves[b]
    <3>5. /\ p \in Int /\ q \in Int /\ u \in Int /\ v \in Int /\ w \in Int /\ d \in Int
          /\ q = p + d /\ v = d - w /\ x = 100 + q /\ y = 100 + u + v /\ z = p - u + w
      BY <1>2, <2>5, <2>7, <3>2, <3>3, <3>4 DEF Opening
    <3> HIDE DEF p, q, u, v, w, d
    <3> QED  BY <3>5
  <2>11. Off(x, y, cents) <=> Off(z, 0, cents)
    <3> HIDE DEF x, y, z
    <3> QED  BY <2>10 DEF Off, Distance
  <2> QED  BY <1>5, <2>9, <2>11 DEF Gap, a, b
<1> QED  BY <1>4, <1>5

------------------------------------------------------------------------------
(* What a run has done: the failures are those of the validators gone        *)
(* through, whose verdicts no step changes; what two cents make wrong may be *)
(* among them.                                                               *)

HeldBalances ==
  \/ out.opening = NoValue /\ out.closing = NoValue
  \/ out.opening = Opening /\ out.closing = TrueBalance(Len(moves))

CodeRead ==
  \E c \in Codes : \E chars \in Readings(Issued(c)) : out.field = Field(c.kind, chars, "pattern")

OutputInv ==
  /\ out.account \in BOOLEAN
  /\ out.account => /\ Statement /\ HeldBalances
                    /\ out.field = Field("text", <<>>, "pattern")
  /\ out.field.kind \in {"iban", "isin"} => CodeRead

FailuresInv ==
  /\ next \in 0..13
  /\ next # 0 =>
       /\ UNION {Failures(Order[j], Tolerance) : j \in 1..(next - 1)} \subseteq failures
       /\ failures \subseteq UNION {Failures(Order[j], Rounded) : j \in 1..(next - 1)}

RunInv == OutputInv /\ FailuresInv

AccountChecks ==
  {"validate_arithmetic_totals", "validate_account_balance_reconciliation",
   "validate_column_type_consistency", "validate_transaction_completeness",
   "validate_totals_crosscheck"}

\* The twelve validators, and which of them is judged how.
LEMMA OrderIs ==
  /\ DOMAIN Order = 1..12 /\ Len(Order) = 12
  /\ \A j \in 1..12 : Order[j] = "validate_running_balance" <=> j = 8
  /\ \A j \in 1..12 : Order[j] \in FieldChecks \cup {"validate_running_balance"} \cup AccountChecks
BY DEF Order, FieldChecks, AccountChecks

\* A step that leaves the output alone changes no verdict.
LEMMA VerdictsStay ==
  ASSUME UNCHANGED <<moves, reading, out>>
  PROVE  \A t : \A j \in 1..12 : Failures(Order[j], t)' = Failures(Order[j], t)
<1> SUFFICES ASSUME NEW CONSTANT t
             PROVE  \A j \in 1..12 : Failures(Order[j], t)' = Failures(Order[j], t)
  OBVIOUS
<1>1. Rows' = Rows
  BY DEF Rows
<1>2. \A i : Transaction(i)' = Transaction(i)
  BY DEF Transaction, TrueBalance, Debit, Credit
<1>3. Transactions' = Transactions
  BY <1>1, <1>2 DEF Transactions
<1>4. Txns' = Txns
  BY <1>3 DEF Txns
<1>5. \A v : FieldIsWrong(v)' <=> FieldIsWrong(v)
  BY DEF FieldIsWrong, LooksLikeIban, LooksLikeIsin, ValidIban, Luhn
<1>6. ArithmeticTotals(t)' <=> ArithmeticTotals(t)
  BY <1>4 DEF ArithmeticTotals, Known, Net
<1>7. Reconciliation(Txns, t)' <=> Reconciliation(Txns, t)
  BY <1>4 DEF Reconciliation, Known, Net
<1>8. DatesAreNumbers(Txns)' <=> DatesAreNumbers(Txns)
  BY <1>4 DEF DatesAreNumbers
<1>9. TotalsCrosscheck(Txns, t)' <=> TotalsCrosscheck(Txns, t)
  BY <1>4 DEF TotalsCrosscheck
<1>10. Breaks(Txns, t)' = Breaks(Txns, t)
  BY <1>4 DEF Breaks, LastBalance, Known
<1>11. \A v \in AccountChecks : OfAccount(v, t)' <=> OfAccount(v, t)
  <2>1. OfAccount("validate_arithmetic_totals", t)' <=> OfAccount("validate_arithmetic_totals", t)
    BY <1>6 DEF OfAccount
  <2>2. OfAccount("validate_account_balance_reconciliation", t)'
          <=> OfAccount("validate_account_balance_reconciliation", t)
    BY <1>7 DEF OfAccount
  <2>3. OfAccount("validate_column_type_consistency", t)'
          <=> OfAccount("validate_column_type_consistency", t)
    BY <1>8 DEF OfAccount
  <2>4. OfAccount("validate_transaction_completeness", t)'
          <=> OfAccount("validate_transaction_completeness", t)
    BY <1>4 DEF OfAccount
  <2>5. OfAccount("validate_totals_crosscheck", t)' <=> OfAccount("validate_totals_crosscheck", t)
    BY <1>9 DEF OfAccount
  <2> QED  BY <2>1, <2>2, <2>3, <2>4, <2>5 DEF AccountChecks
<1>12. ASSUME NEW v \in FieldChecks \cup {"validate_running_balance"} \cup AccountChecks
       PROVE  Failures(v, t)' = Failures(v, t)
  BY <1>5, <1>10, <1>11 DEF Failures
<1> QED  BY <1>12, OrderIs

\* A statement read is such an output.
LEMMA StatementIs ==
  ASSUME StatementInit PROVE OutputInv /\ out.account
<1>1. PICK n \in 1..MaxRows : moves \in [1..n -> Amounts] /\ reading \in [1..n -> RowReadings]
  BY DEF StatementInit
<1>2. n \in Nat /\ n >= 1
  BY <1>1, AmountsAssumption
<1>3. moves \in Seq(Amounts) /\ Len(moves) = n
  BY <1>1, <1>2, IsSequence
<1>4. moves \in [1..n -> Int]
  BY <1>1, AmountsAssumption
<1>5. moves \in Seq(Int) /\ moves # <<>>
  BY <1>2, <1>3, <1>4, IsSequence, EmptySeq
<1>6. Statement
  BY <1>1, <1>3, <1>5 DEF Statement
<1>7. PICK ends, totals, columns \in BOOLEAN :
       out = [opening |-> IF ends THEN Opening ELSE NoValue,
              closing |-> IF ends THEN TrueBalance(Len(moves)) ELSE NoValue,
              totals |-> totals, columns |-> columns, account |-> TRUE,
              field |-> Field("text", <<>>, "pattern")]
  BY DEF StatementInit
<1>8. out.account = TRUE /\ out.field = Field("text", <<>>, "pattern")
      /\ out.opening = (IF ends THEN Opening ELSE NoValue)
      /\ out.closing = (IF ends THEN TrueBalance(Len(moves)) ELSE NoValue)
  BY <1>7
<1>9. HeldBalances
  BY <1>8 DEF HeldBalances
<1>10. out.field.kind = "text"
  BY <1>8 DEF Field
<1> QED  BY <1>6, <1>8, <1>9, <1>10 DEF OutputInv

\* A field read is such an output.
LEMMA FieldIs ==
  ASSUME FieldInit PROVE OutputInv
<1>1. CASE \E c \in Codes : \E chars \in Readings(Issued(c)) :
             out = WithoutAccount(Field(c.kind, chars, "pattern"))
  <2>1. PICK c \in Codes : \E chars \in Readings(Issued(c)) :
          out = WithoutAccount(Field(c.kind, chars, "pattern"))
    BY <1>1
  <2>2. out.account = FALSE
        /\ \E chars \in Readings(Issued(c)) : out.field = Field(c.kind, chars, "pattern")
    BY <2>1 DEF WithoutAccount
  <2> QED  BY <2>2 DEF OutputInv, CodeRead
<1>2. CASE \E kind \in {"bic", "number8", "currency", "word3", "future", "old", "recent", "text"},
              place \in {"token", "window", "substring", "pattern"} :
             out = WithoutAccount(Field(kind, <<>>, place))
  <2>1. PICK kind \in {"bic", "number8", "currency", "word3", "future", "old", "recent", "text"},
             place \in {"token", "window", "substring", "pattern"} :
          out = WithoutAccount(Field(kind, <<>>, place))
    BY <1>2
  <2>2. out.account = FALSE /\ out.field.kind = kind
    BY <2>1 DEF WithoutAccount, Field
  <2> QED  BY <2>2 DEF OutputInv
<1> QED  BY <1>1, <1>2 DEF FieldInit

\* The invariant of a run holds before the first validator.
LEMMA RunInitInv == RunInit => RunInv
<1> SUFFICES ASSUME RunInit PROVE RunInv
  OBVIOUS
<1>1. OutputInv
  BY StatementIs, FieldIs DEF RunInit
<1>2. next = 1 /\ failures = {}
  BY DEF RunInit
<1>3. 1..(next - 1) = {}
  BY <1>2
<1>4. FailuresInv
  BY <1>2, <1>3 DEF FailuresInv
<1> QED  BY <1>1, <1>4 DEF RunInv

\* What is said of the output stays true while it is left alone.
LEMMA OutputStays ==
  ASSUME OutputInv, UNCHANGED <<moves, reading, out>> PROVE OutputInv'
<1>1. Statement' <=> Statement
  BY DEF Statement
<1>2. HeldBalances' <=> HeldBalances
  BY DEF HeldBalances, TrueBalance
<1>3. CodeRead' <=> CodeRead
  BY DEF CodeRead
<1> QED  BY <1>1, <1>2, <1>3 DEF OutputInv

\* Each validator keeps the invariant of a run.
LEMMA RunStepInv == RunInv /\ [RunNext]_runVars => RunInv'
<1> SUFFICES ASSUME RunInv, [RunNext]_runVars PROVE RunInv'
  OBVIOUS
<1>1. UNCHANGED <<moves, reading, out>>
  BY DEF RunNext, RunValidator, Raise, runVars
<1>2. OutputInv'
  BY <1>1, OutputStays DEF RunInv
<1>3. \A t : \A j \in 1..12 : Failures(Order[j], t)' = Failures(Order[j], t)
  BY <1>1, VerdictsStay
<1> DEFINE Found(t) == UNION {Failures(Order[j], t) : j \in 1..(next - 1)}
<1>4. CASE RunValidator
  <2>1. next \in 1..12 /\ next' = next + 1
    BY <1>4, OrderIs DEF RunValidator
  <2>2. PICK found \in SUBSET Failures(Order[next], Rounded) :
          Failures(Order[next], Tolerance) \subseteq found /\ failures' = failures \cup found
    BY <1>4 DEF RunValidator
  <2>3. Found(Tolerance) \subseteq failures /\ failures \subseteq Found(Rounded)
    BY <2>1 DEF RunInv, FailuresInv
  <2>4. 1..(next' - 1) = (1..(next - 1)) \cup {next} /\ 1..(next' - 1) \subseteq 1..12
    BY <2>1
  <2>5. ASSUME NEW CONSTANT t PROVE Found(t)' = Found(t) \cup Failures(Order[next], t)
    <3>1. \A j \in 1..(next' - 1) : Failures(Order[j], t)' = Failures(Order[j], t)
      BY <1>3, <2>4
    <3>2. Found(t)' = UNION {Failures(Order[j], t) : j \in 1..(next' - 1)}
      BY <3>1
    <3> QED  BY <2>4, <3>2
  <2>6. next' \in 0..13
    BY <2>1
  <2>7. Found(Tolerance)' \subseteq failures' /\ failures' \subseteq Found(Rounded)'
    <3>1. Found(Tolerance)' = Found(Tolerance) \cup Failures(Order[next], Tolerance)
      BY <2>5
    <3>2. Found(Rounded)' = Found(Rounded) \cup Failures(Order[next], Rounded)
      BY <2>5
    <3> QED  BY <2>2, <2>3, <3>1, <3>2
  <2> QED  BY <1>2, <2>6, <2>7 DEF RunInv, FailuresInv
<1>5. CASE Raise
  BY <1>2, <1>5 DEF RunInv, FailuresInv, Raise
<1>6. CASE UNCHANGED runVars
  BY <1>2, <1>3, <1>6 DEF RunInv, FailuresInv, runVars
<1> QED  BY <1>4, <1>5, <1>6 DEF RunNext

\* A validator gone through has reported what is wrong by more than the
\* tolerance, and nothing in its name is right.
LEMMA Reported ==
  ASSUME FailuresInv, next # 0, NEW j \in 1..(next - 1)
  PROVE  \A k : /\ <<Order[j], k>> \in Failures(Order[j], Tolerance) => <<Order[j], k>> \in failures
                /\ <<Order[j], k>> \in failures => <<Order[j], k>> \in Failures(Order[j], Rounded)
<1>1. /\ UNION {Failures(Order[i], Tolerance) : i \in 1..(next - 1)} \subseteq failures
      /\ failures \subseteq UNION {Failures(Order[i], Rounded) : i \in 1..(next - 1)}
  BY DEF FailuresInv
<1>2. ASSUME NEW v, NEW w, NEW k, <<v, k>> \in Failures(w, Rounded) PROVE v = w
  BY <1>2 DEF Failures
<1> QED  BY <1>1, <1>2

\* The running balance breaks where the rows between two printed balances leave
\* more than the tolerance, and not where they leave less
\* (validate_running_balance).
THEOREM BreaksWhereGaps == RunSpec => []BreaksAreGaps
<1>1. RunInv => BreaksAreGaps
  <2> SUFFICES ASSUME RunInv, next > 8, out.account, NEW k \in DOMAIN Rows
               PROVE  /\ Gap(Rows[k], Tolerance) => <<"validate_running_balance", k>> \in failures
                      /\ <<"validate_running_balance", k>> \in failures => Gap(Rows[k], Rounded)
    BY DEF BreaksAreGaps
  <2>1. Statement /\ Txns = Transactions
    BY DEF RunInv, OutputInv, Txns
  <2>2. k \in 1..Len(Rows)
    BY <2>1, TransactionsAre
  <2>3. next # 0 /\ 8 \in 1..(next - 1) /\ Order[8] = "validate_running_balance"
    <3>1. next \in 0..13
      BY DEF RunInv, FailuresInv
    <3> QED  BY <3>1, OrderIs
  <2>4. /\ <<"validate_running_balance", k>> \in Failures("validate_running_balance", Tolerance)
             => <<"validate_running_balance", k>> \in failures
        /\ <<"validate_running_balance", k>> \in failures
             => <<"validate_running_balance", k>> \in Failures("validate_running_balance", Rounded)
    BY <2>3, Reported DEF RunInv
  <2>5. ASSUME NEW t \in Int
        PROVE  <<"validate_running_balance", k>> \in Failures("validate_running_balance", t)
                 <=> Gap(Rows[k], t)
    <3>1. <<"validate_running_balance", k>> \in Failures("validate_running_balance", t)
            <=> k \in Breaks(Transactions, t)
      BY <2>1 DEF Failures
    <3> QED  BY <2>1, <2>2, <3>1, BreakIs
  <2>6. Tolerance \in Int /\ Rounded \in Int
    BY DEF Tolerance, Rounded
  <2> QED  BY <2>4, <2>5, <2>6
<1> QED  BY <1>1, RunInitInv, RunStepInv, PTL DEF RunSpec

------------------------------------------------------------------------------
(* The sums of an account.                                                   *)

Reads   == [i \in 1..Len(moves) |-> AsRead(i)]
Debits  == [i \in 1..Len(moves) |-> Debit(AsRead(i))]
Credits == [i \in 1..Len(moves) |-> Credit(AsRead(i))]

\* The amounts of all rows as they were read.
LEMMA AmountsRead ==
  ASSUME Statement
  PROVE  /\ Reads \in Seq(Int) /\ Len(Reads) = Len(moves)
         /\ Debits \in Seq(Int) /\ Len(Debits) = Len(moves)
         /\ Credits \in Seq(Int) /\ Len(Credits) = Len(moves)
<1>1. Len(moves) \in Nat
  BY LenProperties DEF Statement
<1>2. \A i \in 1..Len(moves) :
        AsRead(i) \in Int /\ Debit(AsRead(i)) \in Int /\ Credit(AsRead(i)) \in Int
  BY TransactionIs
<1>3. /\ Reads \in [1..Len(moves) -> Int]
      /\ Debits \in [1..Len(moves) -> Int]
      /\ Credits \in [1..Len(moves) -> Int]
  BY <1>2 DEF Reads, Debits, Credits
<1> QED  BY <1>1, <1>3, IsSequence

\* What the validators add up is what was read of the rows found.
LEMMA SumsAre ==
  ASSUME Statement
  PROVE  /\ Net(Transactions) = SumOf(Kept(Reads))
         /\ SumOf([k \in DOMAIN Transactions |-> Transactions[k].debit]) = SumOf(Kept(Debits))
         /\ SumOf([k \in DOMAIN Transactions |-> Transactions[k].credit]) = SumOf(Kept(Credits))
<1>1. /\ DOMAIN Transactions = 1..Len(Rows) /\ DOMAIN Rows = 1..Len(Rows)
      /\ \A k \in 1..Len(Rows) : Transactions[k] = Transaction(Rows[k]) /\ Rows[k] \in 1..Len(moves)
  BY TransactionsAre
<1>2. ASSUME NEW k \in 1..Len(Rows)
      PROVE  /\ Transactions[k].credit - Transactions[k].debit = Reads[Rows[k]]
             /\ Transactions[k].debit = Debits[Rows[k]]
             /\ Transactions[k].credit = Credits[Rows[k]]
  <2>1. Transactions[k] = Transaction(Rows[k]) /\ Rows[k] \in 1..Len(moves)
    BY <1>1
  <2>2. /\ Transaction(Rows[k]).debit = Debit(AsRead(Rows[k]))
        /\ Transaction(Rows[k]).credit = Credit(AsRead(Rows[k]))
        /\ Credit(AsRead(Rows[k])) - Debit(AsRead(Rows[k])) = AsRead(Rows[k])
    BY <2>1, TransactionIs
  <2>3. /\ Reads[Rows[k]] = AsRead(Rows[k])
        /\ Debits[Rows[k]] = Debit(AsRead(Rows[k]))
        /\ Credits[Rows[k]] = Credit(AsRead(Rows[k]))
    BY <2>1 DEF Reads, Debits, Credits
  <2> QED  BY <2>1, <2>2, <2>3
<1>3. [k \in DOMAIN Transactions |-> Transactions[k].credit - Transactions[k].debit]
        = Via(Reads, Rows)
  BY <1>1, <1>2 DEF Via
<1>4. [k \in DOMAIN Transactions |-> Transactions[k].debit] = Via(Debits, Rows)
  BY <1>1, <1>2 DEF Via
<1>5. [k \in DOMAIN Transactions |-> Transactions[k].credit] = Via(Credits, Rows)
  BY <1>1, <1>2 DEF Via
<1>6. Net(Transactions) = SumOf(Via(Reads, Rows))
  BY <1>3 DEF Net
<1> QED  BY <1>4, <1>5, <1>6, AmountsRead, RowsSum

\* The balances of an account are both read or both not, and differ by the movements.
LEMMA HeldIs ==
  ASSUME Statement, HeldBalances
  PROVE  /\ Known(out.opening) <=> Known(out.closing)
         /\ Known(out.opening) => out.opening = Opening /\ out.closing = Opening + SumOf(moves)
         /\ SumOf(moves) \in Int
<1>1. PICK f \in [0..Len(moves) -> Int] : Sums(f, moves) /\ SumOf(moves) = f[Len(moves)]
  BY SumIs DEF Statement
<1>2. Len(moves) \in 0..Len(moves)
  BY LenProperties DEF Statement
<1>3. TrueBalance(Len(moves)) = Opening + SumOf(moves) /\ TrueBalance(Len(moves)) \in Int
      /\ SumOf(moves) \in Int
  BY <1>1, <1>2, BalanceIs DEF Statement
<1>4. Known(Opening) /\ Known(TrueBalance(Len(moves))) /\ ~Known(NoValue)
  BY <1>3, NoValueAssumption DEF Known, Opening
<1> QED  BY <1>3, <1>4 DEF HeldBalances

\* A statement of rows read right adds up.
LEMMA RightAddsUp ==
  ASSUME Statement, \A i \in 1..Len(moves) : reading[i] = "right"
  PROVE  /\ Net(Transactions) = SumOf(moves)
         /\ SumOf([k \in DOMAIN Transactions |-> Transactions[k].debit])
              = SumOf([i \in DOMAIN moves |-> Debit(moves[i])])
         /\ SumOf([k \in DOMAIN Transactions |-> Transactions[k].credit])
              = SumOf([i \in DOMAIN moves |-> Credit(moves[i])])
         /\ SumOf([i \in DOMAIN moves |-> Debit(moves[i])]) \in Int
         /\ SumOf([i \in DOMAIN moves |-> Credit(moves[i])]) \in Int
<1>1. DOMAIN moves = 1..Len(moves) /\ moves = [i \in 1..Len(moves) |-> moves[i]]
  BY LenProperties DEF Statement
<1>2. \A i \in 1..Len(moves) : AsRead(i) = moves[i] /\ reading[i] # "missed"
  BY DEF AsRead
<1>3. Kept(Reads) = moves
  BY <1>1, <1>2 DEF Kept, Reads
<1>4. Kept(Debits) = [i \in DOMAIN moves |-> Debit(moves[i])]
  BY <1>1, <1>2 DEF Kept, Debits
<1>5. Kept(Credits) = [i \in DOMAIN moves |-> Credit(moves[i])]
  BY <1>1, <1>2 DEF Kept, Credits
<1>6. SumOf(Kept(Debits)) \in Int /\ SumOf(Kept(Credits)) \in Int
  BY AmountsRead, KeptIs, SumType
<1> QED  BY <1>3, <1>4, <1>5, <1>6, SumsAre

\* Nothing is off from itself.
LEMMA NotOff ==
  ASSUME NEW x \in Int PROVE ~Off(x, x, Rounded)
BY DEF Off, Distance, Rounded, Tolerance

\* A statement read right has no break.
LEMMA RightHasNoBreaks ==
  ASSUME Statement, \A i \in 1..Len(moves) : reading[i] = "right"
  PROVE  Breaks(Transactions, Rounded) = {}
<1>1. DOMAIN Transactions = 1..Len(Rows) /\ Len(moves) \in Nat
      /\ \A k \in 1..Len(Rows) : Rows[k] \in 1..Len(moves)
  BY TransactionsAre, LenProperties DEF Statement
<1>2. ASSUME NEW k \in 1..Len(Rows) PROVE k \notin Breaks(Transactions, Rounded)
  <2> DEFINE b == Rows[k]
  <2>1. b \in 1..Len(moves)
    BY <1>1
  <2> HIDE DEF b
  <2>2. Balanced(b) = 1..(b - 1)
    <3>1. \A a \in 1..(b - 1) : reading[a] = "right"
      BY <1>1, <2>1
    <3> QED  BY <3>1 DEF Balanced
  <2> Rounded \in Int
    BY DEF Rounded, Tolerance
  <2>3. CASE Balanced(b) = {}
    BY <2>3, BreakIs DEF b, Gap
  <2>4. CASE Balanced(b) # {}
    <3>1. b - 1 \in Balanced(b) /\ (\A a \in Balanced(b) : a <= b - 1) /\ Balanced(b) \in SUBSET Nat
      BY <1>1, <2>1, <2>2, <2>4
    <3>2. Max(Balanced(b)) = b - 1
      BY <3>1, MaxIs
    <3>3. Between(b - 1, b) = 0
      <4>1. (b - 1) + 1 = b /\ b \in 1..(Len(moves) + 1) /\ b - 1 \in 0..Len(moves) /\ b <= (b - 1) + 1
        BY <1>1, <2>1
      <4>2. PICK f \in [0..Len(moves) -> Int] : Sums(f, moves)
        BY SumIs DEF Statement
      <4>3. SumOf(SubSeq(moves, b, b - 1)) = f[b - 1] - f[b - 1] /\ f[b - 1] \in Int
        BY <4>1, <4>2, SumPart DEF Statement
      <4> QED  BY <4>1, <4>3 DEF Between
    <3>4. Misread(b) = 0
      BY <2>1 DEF Misread
    <3>5. ~Off(0 + 0, 0, Rounded)
      BY NotOff
    <3> QED  BY <3>2, <3>3, <3>4, <3>5, BreakIs DEF b, Gap
  <2> QED  BY <2>3, <2>4
<1> QED  BY <1>1, <1>2 DEF Breaks

\* Every validator passes such a statement, if its table has the columns.
LEMMA RightPasses ==
  ASSUME Statement, HeldBalances, out.field = Field("text", <<>>, "pattern"),
         out.account, out.columns,
         \A i \in 1..Len(moves) : reading[i] = "right"
  PROVE  \A j \in 1..12 : Failures(Order[j], Rounded) = {}
<1>1. Txns = Transactions
  BY DEF Txns
<1>2. /\ Known(out.opening) <=> Known(out.closing)
      /\ Known(out.opening) => out.opening = Opening /\ out.closing = Opening + SumOf(moves)
      /\ SumOf(moves) \in Int /\ Opening + SumOf(moves) \in Int
  BY HeldIs DEF Opening
<1>3. Net(Txns) = SumOf(moves)
  BY <1>1, RightAddsUp
<1>4. ~ArithmeticTotals(Rounded)
  <2>1. ~Off(Opening + SumOf(moves), Opening + SumOf(moves), Rounded)
    BY <1>2, NotOff
  <2> QED  BY <1>2, <1>3, <2>1 DEF ArithmeticTotals
<1>5. ~Reconciliation(Txns, Rounded)
  <2>1. ~Off(Opening + SumOf(moves), Opening + SumOf(moves), Rounded)
    BY <1>2, NotOff
  <2> QED  BY <1>2, <1>3, <2>1 DEF Reconciliation
<1>6. ~DatesAreNumbers(Txns)
  <2>1. {k \in DOMAIN Transactions : ~Transactions[k].dated} = {}
    <3>1. ASSUME NEW k \in 1..Len(Rows) PROVE Transactions[k].dated
      <4>1. Transactions[k] = Transaction(Rows[k]) /\ Rows[k] \in 1..Len(moves)
        BY TransactionsAre
      <4> QED  BY <4>1, TransactionIs
    <3> QED  BY <3>1, TransactionsAre
  <2>2. Cardinality({}) = 0
    BY FS_EmptySet
  <2>3. Len(Transactions) \in Nat
    BY TransactionsAre
  <2>4. DatesAreNumbers(Transactions) <=> 5 * Cardinality({}) > Len(Transactions)
    BY <2>1 DEF DatesAreNumbers
  <2>5. ~(5 * Cardinality({}) > Len(Transactions))
    BY <2>2, <2>3
  <2> QED  BY <1>1, <2>4, <2>5
<1>7. Txns # <<>>
  <2>1. Len(moves) \in Nat /\ Len(moves) # 0
    BY LenProperties, EmptySeq DEF Statement
  <2>2. 1 \in 1..Len(moves) /\ reading[1] # "missed"
    BY <2>1
  <2>3. PICK k \in 1..Len(Rows) : Rows[k] = 1
    BY <2>2, TransactionsAre DEF FoundUpTo
  <2>4. k \in DOMAIN Transactions
    BY <2>3, TransactionsAre
  <2>5. DOMAIN <<>> = {}
    OBVIOUS
  <2> QED  BY <1>1, <2>4, <2>5
<1>8. ~TotalsCrosscheck(Txns, Rounded)
  <2> DEFINE d == SumOf([i \in DOMAIN moves |-> Debit(moves[i])])
             c == SumOf([i \in DOMAIN moves |-> Credit(moves[i])])
  <2>1. d \in Int /\ c \in Int
    BY RightAddsUp
  <2>2. /\ SumOf([k \in DOMAIN Transactions |-> Transactions[k].debit]) = d
        /\ SumOf([k \in DOMAIN Transactions |-> Transactions[k].credit]) = c
    BY RightAddsUp
  <2>3. TotalsCrosscheck(Transactions, Rounded) => Off(d, d, Rounded) \/ Off(c, c, Rounded)
    BY <2>2 DEF TotalsCrosscheck
  <2> HIDE DEF d, c
  <2>4. ~Off(d, d, Rounded) /\ ~Off(c, c, Rounded)
    BY <2>1, NotOff
  <2> QED  BY <1>1, <2>3, <2>4
<1>9. \A v \in AccountChecks : ~OfAccount(v, Rounded)
  BY <1>4, <1>5, <1>6, <1>7, <1>8 DEF AccountChecks, OfAccount
<1>10. \A v \in FieldChecks : ~FieldIsWrong(v)
  <2>1. out.field.kind = "text" /\ out.field.chars = <<>> /\ out.field.page = 1
    BY DEF Field, PageOf
  <2>2. ~LooksLikeIban(<<>>) /\ ~LooksLikeIsin(<<>>)
    BY EmptySeq DEF LooksLikeIban, LooksLikeIsin
  <2>3. 1 \in 1..TotalPages
    BY DEF TotalPages
  <2>4. ~FieldIsWrong("validate_iban") /\ ~FieldIsWrong("validate_isin")
    BY <2>1, <2>2 DEF FieldIsWrong
  <2>5. ~FieldIsWrong("validate_bic") /\ ~FieldIsWrong("validate_date_range")
        /\ ~FieldIsWrong("validate_currency_codes")
    BY <2>1 DEF FieldIsWrong
  <2>6. ~FieldIsWrong("validate_provenance_integrity")
    BY <2>1, <2>3 DEF FieldIsWrong
  <2> QED  BY <2>4, <2>5, <2>6 DEF FieldChecks
<1>11. Breaks(Txns, Rounded) = {}
  BY <1>1, RightHasNoBreaks
<1>12. ASSUME NEW v \in FieldChecks \cup {"validate_running_balance"} \cup AccountChecks
       PROVE  Failures(v, Rounded) = {}
  BY <1>9, <1>10, <1>11 DEF Failures, FieldChecks, AccountChecks
<1> QED  BY <1>12, OrderIs

\* One wrong row, and the account does not reconcile, or it has no rows.
LEMMA WrongIsOff ==
  ASSUME Statement, HeldBalances, out.account, Known(out.opening),
         NEW i \in 1..Len(moves), reading[i] \in {"missed", "swapped"},
         \A p \in 1..Len(moves) : p # i => reading[p] \notin {"missed", "swapped"},
         Off(IF reading[i] = "missed" THEN moves[i] ELSE Misread(i), 0, Tolerance)
  PROVE  Txns = <<>> \/ Reconciliation(Txns, Tolerance)
<1>1. Txns = Transactions
  BY DEF Txns
<1>2. /\ Known(out.closing) /\ out.opening = Opening /\ out.closing = Opening + SumOf(moves)
      /\ SumOf(moves) \in Int
  BY HeldIs
<1> DEFINE t == Kept(Reads)
           m == moves[i]
           moved == IF reading[i] = "missed" THEN m ELSE Misread(i)
<1>3. t \in Seq(Int) /\ Len(t) = Len(moves) /\ m \in Int
  BY AmountsRead, KeptIs, ElementOfSeq DEF Statement
<1>4. ASSUME NEW p \in 1..Len(moves), p # i PROVE t[p] = moves[p]
  BY <1>4 DEF Kept, Reads, AsRead
<1>5. t[i] = (IF reading[i] = "missed" THEN 0 ELSE -m)
  BY DEF Kept, Reads, AsRead
<1>6. moved = (IF reading[i] = "missed" THEN m ELSE 2 * m)
  BY DEF Misread
<1>7. SumOf(t) = SumOf(moves) + t[i] - m
  <2> HIDE DEF t
  <2> QED  BY <1>3, <1>4, SumChanged DEF Statement
<1>8. Net(Txns) = SumOf(t)
  BY <1>1, SumsAre
<1>9. Off(moved, 0, Tolerance)
  OBVIOUS
<1> DEFINE s == SumOf(moves)
           w == t[i]
<1>10. Net(Txns) = s + w - m /\ s \in Int /\ w \in Int /\ moved \in Int
  BY <1>2, <1>3, <1>5, <1>6, <1>7, <1>8
<1>11. out.closing = 100 + s /\ out.opening = 100 /\ moved = m - w
  BY <1>2, <1>3, <1>5, <1>6 DEF Opening
<1> HIDE DEF t, m, s, w, moved
<1>12. Off(100 + s, 100 + (s + w - m), Tolerance)
  BY <1>3, <1>9, <1>10, <1>11 DEF Off, Distance, Tolerance
<1> QED  BY <1>2, <1>10, <1>11, <1>12 DEF Reconciliation

\* Every validator has spoken.
LEMMA AllReported ==
  ASSUME FailuresInv, Done
  PROVE  /\ UNION {Failures(Order[j], Tolerance) : j \in 1..12} \subseteq failures
         /\ failures \subseteq UNION {Failures(Order[j], Rounded) : j \in 1..12}
<1>1. next = 13
  BY OrderIs DEF Done
<1>2. next - 1 = 12
  BY <1>1
<1> QED  BY <1>1, <1>2 DEF FailuresInv

\* A statement read right passes every check, and one row missed or read into
\* the wrong column is reported if the balances were read and the row moves
\* more than the tolerance (validator.py, account-level validators).
THEOREM WrongRowSeen == RunSpec => []OneWrongRowIsSeen
<1>1. RunInv => OneWrongRowIsSeen
  <2> SUFFICES ASSUME RunInv, Done, out.account PROVE OneWrongRowIsSeen
    BY DEF OneWrongRowIsSeen
  <2>1. Statement /\ HeldBalances /\ out.field = Field("text", <<>>, "pattern")
    BY DEF RunInv, OutputInv
  <2>2. DOMAIN reading = 1..Len(moves) /\ \A i \in 1..Len(moves) : reading[i] \in RowReadings
    BY <2>1 DEF Statement
  <2>3. /\ UNION {Failures(Order[j], Tolerance) : j \in 1..12} \subseteq failures
        /\ failures \subseteq UNION {Failures(Order[j], Rounded) : j \in 1..12}
    BY AllReported DEF RunInv
  <2> DEFINE wrong == {i \in DOMAIN reading : reading[i] \in {"missed", "swapped"}}
  <2>4. ASSUME wrong = {}, out.columns,
               \A i \in DOMAIN reading : reading[i] \notin {"noBalance", "undated"}
        PROVE  failures = {}
    <3>1. \A i \in 1..Len(moves) : reading[i] = "right"
      BY <2>2, <2>4 DEF RowReadings
    <3>2. \A j \in 1..12 : Failures(Order[j], Rounded) = {}
      BY <2>1, <2>4, <3>1, RightPasses
    <3> QED  BY <2>3, <3>2
  <2>5. ASSUME NEW i \in wrong, wrong = {i}, Known(out.opening),
               Off(IF reading[i] = "missed" THEN moves[i] ELSE Misread(i), 0, Tolerance)
        PROVE  failures # {}
    <3>1. i \in 1..Len(moves) /\ reading[i] \in {"missed", "swapped"}
      BY <2>2
    <3>2. \A p \in 1..Len(moves) : p # i => reading[p] \notin {"missed", "swapped"}
      BY <2>2, <2>5
    <3>3. Txns = <<>> \/ Reconciliation(Txns, Tolerance)
      BY <2>1, <2>5, <3>1, <3>2, WrongIsOff
    <3>4. CASE Txns = <<>>
      <4>1. OfAccount("validate_transaction_completeness", Tolerance)
        BY <3>4 DEF OfAccount
      <4>2. Failures("validate_transaction_completeness", Tolerance) # {}
        BY <4>1 DEF Failures, FieldChecks
      <4>3. 11 \in 1..12 /\ Order[11] = "validate_transaction_completeness"
        BY DEF Order
      <4> QED  BY <2>3, <4>2, <4>3
    <3>5. CASE Reconciliation(Txns, Tolerance)
      <4>1. OfAccount("validate_account_balance_reconciliation", Tolerance)
        BY <3>5 DEF OfAccount
      <4>2. Failures("validate_account_balance_reconciliation", Tolerance) # {}
        BY <4>1 DEF Failures, FieldChecks
      <4>3. 9 \in 1..12 /\ Order[9] = "validate_account_balance_reconciliation"
        BY DEF Order
      <4> QED  BY <2>3, <4>2, <4>3
    <3> QED  BY <3>3, <3>4, <3>5
  <2> QED  BY <2>4, <2>5 DEF OneWrongRowIsSeen
<1> QED  BY <1>1, RunInitInv, RunStepInv, PTL DEF RunSpec

------------------------------------------------------------------------------
(* Characters and the digits they are expanded to.                           *)

Characters == 0..35
Digits     == 0..9

\* The digits of each character.
Spelt(c) == IF c < 10 THEN <<c>> ELSE <<c \div 10, c % 10>>
Spread(chars) == [i \in DOMAIN chars |-> Spelt(chars[i])]

\* An expansion is made of the digits of each character.
LEMMA ExpandIs ==
  ASSUME NEW chars PROVE Expand(chars) = FlattenSeq(Spread(chars))
BY DEF Expand, Spread, Spelt

\* A character is spelt in digits.
LEMMA SpeltType ==
  ASSUME NEW c \in Characters PROVE Spelt(c) \in Seq(Digits)
<1>1. CASE c < 10
  <2>1. c \in Digits
    BY <1>1 DEF Characters, Digits
  <2>2. <<c>> \in Seq(Digits)
    BY <2>1
  <2> QED  BY <1>1, <2>2 DEF Spelt
<1>2. CASE ~(c < 10)
  <2>1. c \div 10 \in Digits /\ c % 10 \in Digits
    BY <1>2 DEF Characters, Digits
  <2>2. <<c \div 10, c % 10>> \in Seq(Digits)
    BY <2>1
  <2> QED  BY <1>2, <2>2 DEF Spelt
<1> QED  BY <1>1, <1>2

\* The digits of each character, in order.
LEMMA SpreadIs ==
  ASSUME NEW chars \in Seq(Characters)
  PROVE  /\ Spread(chars) \in Seq(Seq(Digits)) /\ Len(Spread(chars)) = Len(chars)
         /\ \A i \in 1..Len(chars) : Spread(chars)[i] = Spelt(chars[i])
<1>1. Len(chars) \in Nat /\ DOMAIN chars = 1..Len(chars)
      /\ \A i \in 1..Len(chars) : chars[i] \in Characters
  BY LenProperties, ElementOfSeq
<1>2. \A i \in 1..Len(chars) : Spelt(chars[i]) \in Seq(Digits)
  BY <1>1, SpeltType
<1>3. Spread(chars) \in [1..Len(chars) -> Seq(Digits)]
  BY <1>1, <1>2 DEF Spread
<1>4. Spread(chars) \in Seq(Seq(Digits)) /\ Len(Spread(chars)) = Len(chars)
  BY <1>1, <1>3, IsSequence
<1> QED  BY <1>1, <1>4 DEF Spread

\* An expansion consists of digits.
LEMMA ExpandType ==
  ASSUME NEW chars \in Seq(Characters) PROVE Expand(chars) \in Seq(Digits)
BY ExpandIs, SpreadIs, FlattenType

\* Two parts of a code are expanded each by itself.
LEMMA ExpandConcat ==
  ASSUME NEW a \in Seq(Characters), NEW b \in Seq(Characters)
  PROVE  Expand(a \o b) = Expand(a) \o Expand(b)
<1>1. Len(a) \in Nat /\ Len(b) \in Nat
  BY LenProperties
<1>2. /\ a \o b \in Seq(Characters) /\ Len(a \o b) = Len(a) + Len(b)
      /\ \A i \in 1..(Len(a) + Len(b)) : (a \o b)[i] = IF i <= Len(a) THEN a[i] ELSE b[i - Len(a)]
  BY ConcatProperties
<1> DEFINE u == Spread(a \o b)
           v == Spread(a) \o Spread(b)
<1>3. /\ u \in Seq(Seq(Digits)) /\ Len(u) = Len(a) + Len(b)
      /\ \A i \in 1..(Len(a) + Len(b)) : u[i] = Spelt((a \o b)[i])
  BY <1>2, SpreadIs
<1>4. /\ Spread(a) \in Seq(Seq(Digits)) /\ Len(Spread(a)) = Len(a)
      /\ \A i \in 1..Len(a) : Spread(a)[i] = Spelt(a[i])
      /\ Spread(b) \in Seq(Seq(Digits)) /\ Len(Spread(b)) = Len(b)
      /\ \A i \in 1..Len(b) : Spread(b)[i] = Spelt(b[i])
  BY SpreadIs
<1>5. /\ v \in Seq(Seq(Digits)) /\ Len(v) = Len(a) + Len(b)
      /\ \A i \in 1..(Len(a) + Len(b)) :
           v[i] = IF i <= Len(a) THEN Spread(a)[i] ELSE Spread(b)[i - Len(a)]
  <2> DEFINE x == Spread(a)
             y == Spread(b)
  <2>1. x \in Seq(Seq(Digits)) /\ y \in Seq(Seq(Digits)) /\ Len(x) = Len(a) /\ Len(y) = Len(b)
    BY <1>4
  <2> HIDE DEF x, y
  <2>2. /\ x \o y \in Seq(Seq(Digits)) /\ Len(x \o y) = Len(x) + Len(y)
        /\ \A i \in 1..(Len(x) + Len(y)) : (x \o y)[i] = IF i <= Len(x) THEN x[i] ELSE y[i - Len(x)]
    BY <2>1, ConcatProperties
  <2> QED  BY <2>1, <2>2 DEF x, y
<1> HIDE DEF u, v
<1>6. ASSUME NEW i \in 1..(Len(a) + Len(b)) PROVE u[i] = v[i]
  <2>1. CASE i <= Len(a)
    <3>1. i \in 1..Len(a)
      BY <1>1, <2>1
    <3> QED  BY <1>2, <1>3, <1>4, <1>5, <2>1, <3>1
  <2>2. CASE ~(i <= Len(a))
    <3>1. i - Len(a) \in 1..Len(b)
      BY <1>1, <2>2
    <3> QED  BY <1>2, <1>3, <1>4, <1>5, <2>2, <3>1
  <2> QED  BY <2>1, <2>2
<1>7. u = v
  <2>1. Len(u) = Len(v) /\ \A i \in 1..Len(u) : u[i] = v[i]
    BY <1>3, <1>5, <1>6
  <2> QED  BY <1>3, <1>5, <2>1, SeqEqual
<1>8. FlattenSeq(v) = FlattenSeq(Spread(a)) \o FlattenSeq(Spread(b))
  BY <1>4, FlattenConcat DEF v
<1> QED  BY <1>7, <1>8, ExpandIs DEF u

\* A digit is its own expansion.
LEMMA ExpandDigit ==
  ASSUME NEW d \in Digits PROVE Expand(<<d>>) = <<d>>
<1>1. <<d>> \in Seq(Digits) /\ d < 10
  BY DEF Digits
<1>2. Spread(<<d>>) = Append(<<>>, <<d>>)
  BY <1>1 DEF Spread, Spelt
<1>3. <<>> \in Seq(Seq(Digits)) /\ FlattenSeq(<<>>) = <<>>
  BY EmptySeq DEF FlattenSeq
<1>4. FlattenSeq(Append(<<>>, <<d>>)) = <<>> \o <<d>>
  BY <1>1, <1>3, FlattenAppend
<1>5. <<>> \o <<d>> = <<d>>
  BY <1>1, ConcatEmptySeq
<1> QED  BY <1>2, <1>4, <1>5, ExpandIs

\* A sequence is what comes before an element, the element, and what comes after.
LEMMA Rejoins ==
  ASSUME NEW S, NEW r \in Seq(S), NEW i \in 1..Len(r), NEW p \in Seq(S), NEW q \in Seq(S),
         Len(p) = i - 1, \A k \in 1..(i - 1) : p[k] = r[k],
         Len(q) = Len(r) - i, \A k \in 1..(Len(r) - i) : q[k] = r[i + k]
  PROVE  r = (p \o <<r[i]>>) \o q
<1> DEFINE n == Len(r)
           e == <<r[i]>>
<1>1. n \in Nat /\ i \in Nat /\ i >= 1 /\ i <= n
  BY LenProperties
<1>2. e \in Seq(S) /\ Len(e) = 1 /\ e[1] = r[i]
  <2>1. r[i] \in S
    BY ElementOfSeq
  <2> QED  BY <2>1
<1> HIDE DEF e
<1> DEFINE x == p \o e
<1>3. /\ x \in Seq(S) /\ Len(x) = i
      /\ \A k \in 1..i : x[k] = IF k <= i - 1 THEN p[k] ELSE e[k - (i - 1)]
  <2>1. /\ p \o e \in Seq(S) /\ Len(p \o e) = Len(p) + Len(e)
        /\ \A k \in 1..(Len(p) + Len(e)) : (p \o e)[k] = IF k <= Len(p) THEN p[k] ELSE e[k - Len(p)]
    BY <1>2, ConcatProperties
  <2>2. Len(p) + Len(e) = i
    BY <1>1, <1>2
  <2> QED  BY <2>1, <2>2
<1> HIDE DEF x
<1>4. ASSUME NEW k \in 1..i PROVE x[k] = r[k]
  <2>1. CASE k = i
    <3>1. ~(k <= i - 1) /\ k - (i - 1) = 1
      BY <1>1, <2>1
    <3> QED  BY <1>2, <1>3, <2>1, <3>1
  <2>2. CASE k # i
    <3>1. k <= i - 1 /\ k \in 1..(i - 1)
      BY <1>1, <2>2
    <3> QED  BY <1>3, <3>1
  <2> QED  BY <2>1, <2>2
<1> DEFINE w == x \o q
<1>5. /\ w \in Seq(S) /\ Len(w) = n
      /\ \A k \in 1..n : w[k] = IF k <= i THEN x[k] ELSE q[k - i]
  <2>1. /\ x \o q \in Seq(S) /\ Len(x \o q) = Len(x) + Len(q)
        /\ \A k \in 1..(Len(x) + Len(q)) : (x \o q)[k] = IF k <= Len(x) THEN x[k] ELSE q[k - Len(x)]
    BY <1>3, ConcatProperties
  <2>2. Len(x) + Len(q) = n
    BY <1>1, <1>3
  <2> QED  BY <1>3, <2>1, <2>2
<1> HIDE DEF w
<1>6. ASSUME NEW k \in 1..n PROVE r[k] = w[k]
  <2>1. CASE k <= i
    <3>1. k \in 1..i
      BY <1>1, <2>1
    <3> QED  BY <1>4, <1>5, <2>1, <3>1
  <2>2. CASE ~(k <= i)
    <3>1. k - i \in 1..(n - i) /\ i + (k - i) = k
      BY <1>1, <2>2
    <3> QED  BY <1>5, <2>2, <3>1
  <2> QED  BY <2>1, <2>2
<1>7. r = w
  BY <1>5, <1>6, SeqEqual
<1> QED  BY <1>7 DEF w, x, e

\* An element and what is around it.
Amid(p, e, q) == (p \o <<e>>) \o q

\* Two sequences that are the same but for one element are the same around it.
SameBut(i, s, t) ==
  /\ Len(t) = Len(s) /\ i \in 1..Len(s)
  /\ \A k \in 1..Len(s) : k # i => t[k] = s[k]

\* Two sequences that differ in one place agree before and behind it.
LEMMA Around ==
  ASSUME NEW S, NEW s \in Seq(S), NEW t \in Seq(S), NEW i, SameBut(i, s, t)
  PROVE  \E p, q \in Seq(S) : s = Amid(p, s[i], q) /\ t = Amid(p, t[i], q)
<1> DEFINE n == Len(s)
           p == SubSeq(s, 1, i - 1)
           q == SubSeq(s, i + 1, n)
<1>1. Len(t) = n /\ i \in 1..n /\ \A k \in 1..n : k # i => t[k] = s[k]
  BY DEF SameBut
<1>2. n \in Nat /\ i \in Nat /\ i >= 1 /\ i <= n /\ \A k \in 1..n : s[k] \in S
  BY <1>1, LenProperties, ElementOfSeq
<1>3. p \in Seq(S) /\ Len(p) = i - 1 /\ \A k \in 1..(i - 1) : p[k] = s[k]
  <2>1. \A k \in 1..(i - 1) : s[k] \in S
    BY <1>2
  <2>2. p \in Seq(S) /\ Len(p) = (IF 1 <= i - 1 THEN (i - 1) - 1 + 1 ELSE 0)
        /\ \A k \in 1..((i - 1) - 1 + 1) : p[k] = s[1 + k - 1]
    BY <1>2, <2>1, SubSeqProperties
  <2> HIDE DEF p
  <2> QED  BY <1>2, <2>2
<1>4. q \in Seq(S) /\ Len(q) = n - i /\ \A k \in 1..(n - i) : q[k] = s[i + k]
  <2>1. \A k \in (i + 1)..n : s[k] \in S
    BY <1>2
  <2>2. q \in Seq(S) /\ Len(q) = (IF i + 1 <= n THEN n - (i + 1) + 1 ELSE 0)
        /\ \A k \in 1..(n - (i + 1) + 1) : q[k] = s[(i + 1) + k - 1]
    BY <1>2, <2>1, SubSeqProperties
  <2> HIDE DEF q
  <2> QED  BY <1>2, <2>2
<1> HIDE DEF p, q
<1>5. s = (p \o <<s[i]>>) \o q
  BY <1>1, <1>3, <1>4, Rejoins
<1>6. \A k \in 1..(i - 1) : k \in 1..n /\ k # i
  BY <1>2
<1>7. \A k \in 1..(n - i) : i + k \in 1..n /\ i + k # i
  BY <1>2
<1>8. t = (p \o <<t[i]>>) \o q
  <2>1. i \in 1..Len(t) /\ Len(p) = i - 1 /\ Len(q) = Len(t) - i
    BY <1>1, <1>3, <1>4
  <2>2. \A k \in 1..(i - 1) : p[k] = t[k]
    BY <1>1, <1>3, <1>6
  <2>3. \A k \in 1..(Len(t) - i) : q[k] = t[i + k]
    BY <1>1, <1>4, <1>7
  <2> QED  BY <1>3, <1>4, <2>1, <2>2, <2>3, Rejoins
<1> QED  BY <1>3, <1>4, <1>5, <1>8 DEF Amid

\* One digit of a code changed is one digit of its expansion changed.
LEMMA ExpandChanged ==
  ASSUME NEW chars \in Seq(Characters), NEW other \in Seq(Characters),
         NEW i, SameBut(i, chars, other), chars[i] \in Digits, other[i] \in Digits
  PROVE  \E p, q \in Seq(Digits) :
           Expand(chars) = Amid(p, chars[i], q) /\ Expand(other) = Amid(p, other[i], q)
<1>1. Digits \subseteq Characters
  BY DEF Digits, Characters
<1>2. PICK a, b \in Seq(Characters) :
        chars = Amid(a, chars[i], b) /\ other = Amid(a, other[i], b)
  BY Around
<1>3. ASSUME NEW e \in Digits
      PROVE  Expand(Amid(a, e, b)) = Amid(Expand(a), e, Expand(b))
  <2>1. <<e>> \in Seq(Characters)
    BY <1>1
  <2>2. a \o <<e>> \in Seq(Characters)
    BY <2>1, ConcatProperties
  <2>3. Expand(a \o <<e>>) = Expand(a) \o Expand(<<e>>)
    BY <2>1, ExpandConcat
  <2>4. Expand((a \o <<e>>) \o b) = Expand(a \o <<e>>) \o Expand(b)
    BY <2>2, ExpandConcat
  <2> QED  BY <2>3, <2>4, ExpandDigit DEF Amid
<1>4. Expand(a) \in Seq(Digits) /\ Expand(b) \in Seq(Digits)
  BY ExpandType
<1>5. Expand(chars) = Amid(Expand(a), chars[i], Expand(b))
  BY <1>2, <1>3
<1>6. Expand(other) = Amid(Expand(a), other[i], Expand(b))
  BY <1>2, <1>3
<1> QED  BY <1>4, <1>5, <1>6

------------------------------------------------------------------------------
(* The remainder of an IBAN.                                                 *)

Divides(f, digits) ==
  f[0] = 0 /\ \A k \in 1..Len(digits) : f[k] = ((10 * f[k - 1]) + digits[k]) % 97

\* A remainder is the last of the remainders taken digit by digit.
LEMMA RemainderIs ==
  ASSUME NEW s \in Seq(Digits)
  PROVE  \E f \in [0..Len(s) -> 0..96] : Divides(f, s) /\ Remainder(s) = f[Len(s)]
<1> DEFINE n == Len(s)
           X == 0..96
           step == [k \in 1..n |-> [x \in X |-> ((10 * x) + s[k]) % 97]]
<1>1. n \in Nat /\ \A k \in 1..n : s[k] \in Int
  <2>1. Digits \subseteq Int
    BY DEF Digits
  <2> QED  BY <2>1, LenProperties, ElementOfSeq
<1>2. \A x \in Int : \A y \in Int : ((10 * x) + y) % 97 \in X
  OBVIOUS
<1>3. X \subseteq Int
  OBVIOUS
<1> HIDE DEF X
<1>4. step \in [1..n -> [X -> X]]
  BY <1>1, <1>2, <1>3
<1>5. PICK f \in [0..n -> X] : Steps(f, n, 0, step)
  <2>1. 0 \in X /\ n \in Nat
    BY <1>1 DEF X
  <2> HIDE DEF n, step
  <2> QED  BY <1>4, <2>1, FromZero
<1>6. f[0] = 0
  BY <1>5 DEF Steps
<1>7. ASSUME NEW k \in 1..n PROVE f[k] = ((10 * f[k - 1]) + s[k]) % 97
  <2>1. k - 1 \in 0..n
    BY <1>1
  <2>2. f[k - 1] \in X
    BY <2>1
  <2> HIDE DEF n
  <2> QED  BY <1>5, <2>2 DEF Steps
<1>8. f = [k \in 0..n |-> IF k = 0 THEN 0 ELSE ((10 * f[k - 1]) + s[k]) % 97]
  <2>1. \A k \in 0..n : k = 0 \/ k \in 1..n
    BY <1>1
  <2> HIDE DEF n
  <2> QED  BY <1>6, <1>7, <2>1
<1> DEFINE g == CHOOSE h : h = [k \in 0..Len(s) |->
                                  IF k = 0 THEN 0 ELSE ((10 * h[k - 1]) + s[k]) % 97]
<1>9. g = [k \in 0..Len(s) |-> IF k = 0 THEN 0 ELSE ((10 * g[k - 1]) + s[k]) % 97]
  BY <1>8
<1>10. Remainder(s) = g[n]
  BY DEF Remainder
<1> HIDE DEF g
<1>11. g[0] = 0
  <2>1. 0 \in 0..Len(s)
    BY <1>1
  <2> QED  BY <1>9, <2>1
<1>12. ASSUME NEW k \in 1..n PROVE g[k] = ((10 * g[k - 1]) + s[k]) % 97
  <2>1. k \in 0..Len(s) /\ k # 0
    BY <1>1
  <2> QED  BY <1>9, <2>1
<1> DEFINE Same == {k \in 0..n : g[k] = f[k]}
<1>13. 0 \in Same
  BY <1>1, <1>6, <1>11
<1>14. ASSUME NEW k \in 1..n, k - 1 \in Same PROVE k \in Same
  <2>1. g[k - 1] = f[k - 1] /\ k \in 0..n
    BY <1>1, <1>14
  <2> QED  BY <1>7, <1>12, <2>1
<1>15. 0..n \subseteq Same
  <2>1. \A k \in (0 + 1)..n : k - 1 \in Same => k \in Same
    BY <1>14
  <2> HIDE DEF Same, n
  <2> QED  BY <1>1, <1>13, <2>1, Upward
<1>16. g[n] = f[n]
  <2>1. n \in 0..n
    BY <1>1
  <2> QED  BY <1>15, <2>1
<1> QED  BY <1>5, <1>6, <1>7, <1>10, <1>16 DEF Divides, X

\* There is one such row of remainders.
LEMMA RemainderUnique ==
  ASSUME NEW s \in Seq(Digits), NEW f, Divides(f, s)
  PROVE  Remainder(s) = f[Len(s)] /\ f[Len(s)] \in 0..96
<1> DEFINE n == Len(s)
<1>1. n \in Nat
  BY LenProperties
<1>2. PICK g \in [0..n -> 0..96] : Divides(g, s) /\ Remainder(s) = g[n]
  BY RemainderIs
<1> DEFINE Same == {k \in 0..n : g[k] = f[k]}
<1>3. 0 \in Same
  BY <1>1, <1>2 DEF Divides
<1>4. ASSUME NEW k \in 1..n, k - 1 \in Same PROVE k \in Same
  <2>1. g[k - 1] = f[k - 1] /\ k \in 0..n
    BY <1>1, <1>4
  <2>2. g[k] = ((10 * g[k - 1]) + s[k]) % 97 /\ f[k] = ((10 * f[k - 1]) + s[k]) % 97
    BY <1>2 DEF Divides
  <2> QED  BY <2>1, <2>2
<1>5. 0..n \subseteq Same
  <2>1. \A k \in (0 + 1)..n : k - 1 \in Same => k \in Same
    BY <1>4
  <2> HIDE DEF Same, n
  <2> QED  BY <1>1, <1>3, <2>1, Upward
<1>6. n \in 0..n
  BY <1>1
<1>7. g[n] = f[n] /\ g[n] \in 0..96
  BY <1>2, <1>5, <1>6
<1> QED  BY <1>2, <1>7

\* One digit more.
LEMMA RemainderAppend ==
  ASSUME NEW s \in Seq(Digits), NEW d \in Digits
  PROVE  /\ Remainder(Append(s, d)) = ((10 * Remainder(s)) + d) % 97
         /\ Remainder(s) \in 0..96
<1> DEFINE n == Len(s)
           t == Append(s, d)
<1>1. PICK f \in [0..n -> 0..96] : Divides(f, s) /\ Remainder(s) = f[n]
  BY RemainderIs
<1>2. n \in Nat /\ t \in Seq(Digits) /\ Len(t) = n + 1 /\ t[n + 1] = d /\ \A k \in 1..n : t[k] = s[k]
  BY AppendProperties, LenProperties
<1> HIDE DEF t
<1> DEFINE last == ((10 * f[n]) + d) % 97
           g == [k \in 0..(n + 1) |-> IF k = n + 1 THEN last ELSE f[k]]
<1> HIDE DEF last
<1>3. g[0] = 0
  BY <1>1, <1>2 DEF Divides
<1>4. ASSUME NEW k \in 1..Len(t) PROVE g[k] = ((10 * g[k - 1]) + t[k]) % 97
  <2>1. k \in 0..(n + 1) /\ k - 1 \in 0..(n + 1) /\ k - 1 # n + 1
    BY <1>2
  <2>2. CASE k = n + 1
    <3>1. g[k] = last /\ g[k - 1] = f[n] /\ t[k] = d
      BY <1>2, <2>1, <2>2
    <3> HIDE DEF g
    <3> QED  BY <3>1 DEF last
  <2>3. CASE k # n + 1
    <3>1. k \in 1..n
      BY <1>2, <2>3
    <3>2. f[k] = ((10 * f[k - 1]) + s[k]) % 97
      BY <1>1, <3>1 DEF Divides
    <3>3. g[k] = f[k] /\ g[k - 1] = f[k - 1] /\ t[k] = s[k]
      BY <1>2, <2>1, <2>3, <3>1
    <3> HIDE DEF g
    <3> QED  BY <3>2, <3>3
  <2> QED  BY <2>2, <2>3
<1>5. g[n + 1] = last
  BY <1>2
<1> HIDE DEF g
<1>6. Divides(g, t)
  BY <1>3, <1>4 DEF Divides
<1>7. Remainder(t) = g[n + 1]
  BY <1>2, <1>6, RemainderUnique
<1>8. f[n] \in 0..96
  <2>1. n \in 0..n
    BY <1>2
  <2> HIDE DEF n
  <2> QED  BY <2>1
<1> QED  BY <1>1, <1>5, <1>7, <1>8 DEF t, last

\* A digit more leaves remainders apart that were apart, as 10 and 97 have no
\* common divisor.
LEMMA StaysApart ==
  ASSUME NEW x \in 0..96, NEW y \in 0..96, x # y, NEW d \in Digits
  PROVE  ((10 * x) + d) % 97 # ((10 * y) + d) % 97
BY SMTT(60) DEF Digits

\* Two digits behind the same remainder are told apart.
LEMMA TellsApart ==
  ASSUME NEW x \in 0..96, NEW c \in Digits, NEW d \in Digits, c # d
  PROVE  ((10 * x) + c) % 97 # ((10 * x) + d) % 97
BY SMTT(60) DEF Digits

\* Division by 97.
LEMMA Divided ==
  ASSUME NEW x \in Int PROVE \E q \in Int : x = (97 * q) + (x % 97) /\ x % 97 \in 0..96
<1>1. x % 97 \in 0..96
  OBVIOUS
<1>2. x \div 97 \in Int
  OBVIOUS
<1>3. x = (97 * (x \div 97)) + (x % 97)
  OBVIOUS
<1> QED  BY <1>1, <1>2, <1>3

\* The check digits an IBAN is issued with make its remainder 1.
LEMMA CheckDigits ==
  ASSUME NEW r \in 0..96, NEW c, c = 98 - ((10 * ((10 * r) % 97)) % 97)
  PROVE  /\ c \div 10 \in Digits /\ c % 10 \in Digits
         /\ ((10 * (((10 * r) + (c \div 10)) % 97)) + (c % 10)) % 97 = 1
<1> DEFINE u == (10 * r) % 97
           v == (10 * u) % 97
           x == c \div 10
           y == c % 10
           w == ((10 * r) + x) % 97
           z == ((10 * w) + y) % 97
<1>1. PICK a \in Int : 10 * r = (97 * a) + u /\ u \in 0..96
  <2>1. 10 * r \in Int
    OBVIOUS
  <2> QED  BY <2>1, Divided
<1>2. PICK b \in Int : 10 * u = (97 * b) + v /\ v \in 0..96
  <2>1. 10 * u \in Int
    BY <1>1
  <2> HIDE DEF u
  <2> QED  BY <2>1, Divided
<1>3. c = 98 - v
  OBVIOUS
<1> HIDE DEF u, v
<1>4. c = (10 * x) + y /\ x \in 0..9 /\ y \in 0..9
  BY <1>2, <1>3
<1> HIDE DEF x, y
<1>5. PICK e \in Int : (10 * r) + x = (97 * e) + w /\ w \in 0..96
  <2>1. (10 * r) + x \in Int
    BY <1>4
  <2> QED  BY <2>1, Divided
<1> HIDE DEF w
<1>6. PICK h \in Int : (10 * w) + y = (97 * h) + z /\ z \in 0..96
  <2>1. (10 * w) + y \in Int
    BY <1>4, <1>5
  <2> QED  BY <2>1, Divided
<1> HIDE DEF z
<1>7. z = 1
  <2>1. 97 * (((10 * a) + b + 1) - ((10 * e) + h)) = z - 1
    BY <1>1, <1>2, <1>3, <1>4, <1>5, <1>6
  <2> DEFINE q == ((10 * a) + b + 1) - ((10 * e) + h)
  <2>2. q \in Int
    OBVIOUS
  <2> HIDE DEF q
  <2>3. 97 * q = z - 1
    BY <2>1 DEF q
  <2> QED  BY <1>6, <2>2, <2>3
<1> QED  BY <1>4, <1>7 DEF Digits, x, y, w, z

\* Something put between two sequences.
LEMMA AmidType ==
  ASSUME NEW S, NEW p \in Seq(S), NEW q \in Seq(S), NEW c \in S
  PROVE  /\ Amid(p, c, q) \in Seq(S)
         /\ Amid(p, c, <<>>) = Append(p, c)
<1>1. <<c>> \in Seq(S)
  OBVIOUS
<1> DEFINE a == p \o <<c>>
<1>2. a \in Seq(S)
  BY <1>1, ConcatProperties
<1>3. a = Append(p, c)
  BY AppendIsConcat
<1> HIDE DEF a
<1>4. a \o q \in Seq(S) /\ a \o <<>> = a
  BY <1>2, ConcatProperties, ConcatEmptySeq
<1>5. \A z : Amid(p, c, z) = a \o z
  BY DEF Amid, a
<1> QED  BY <1>3, <1>4, <1>5

\* One more element behind it.
LEMMA AmidAppend ==
  ASSUME NEW S, NEW p \in Seq(S), NEW q \in Seq(S), NEW c \in S, NEW x \in S
  PROVE  Amid(p, c, Append(q, x)) = Append(Amid(p, c, q), x)
<1> DEFINE a == p \o <<c>>
<1>1. <<c>> \in Seq(S) /\ <<x>> \in Seq(S)
  OBVIOUS
<1>2. a \in Seq(S)
  BY <1>1, ConcatProperties
<1>3. Amid(p, c, Append(q, x)) = a \o Append(q, x) /\ Amid(p, c, q) = a \o q
  BY DEF Amid
<1> HIDE DEF a
<1>4. a \o q \in Seq(S)
  BY <1>2, ConcatProperties
<1>5. Append(q, x) = q \o <<x>> /\ Append(a \o q, x) = (a \o q) \o <<x>>
  BY <1>4, AppendIsConcat
<1>6. (a \o q) \o <<x>> = a \o (q \o <<x>>)
  BY <1>1, <1>2, ConcatAssociative
<1> QED  BY <1>3, <1>5, <1>6

\* The first k elements are the first k - 1 and one more.
LEMMA SubSeqAppend ==
  ASSUME NEW S, NEW q \in Seq(S), NEW k \in 1..Len(q)
  PROVE  /\ SubSeq(q, 1, k - 1) \in Seq(S)
         /\ SubSeq(q, 1, k) = Append(SubSeq(q, 1, k - 1), q[k])
<1>1. Len(q) \in Nat /\ q[k] \in S
  BY LenProperties, ElementOfSeq
<1>2. 1 \in 1..Len(q) /\ k \in 1..Len(q) /\ \A i \in 1..(k - 1) : i \in 1..Len(q)
  BY <1>1
<1>3. SubSeq(q, 1, k) = SubSeq(q, 1, k - 1) \o <<q[k]>>
  BY <1>2, SubSeqRecursiveSecond
<1>4. SubSeq(q, 1, k - 1) \in Seq(S)
  <2>1. \A i \in 1..(k - 1) : q[i] \in S
    BY <1>2, ElementOfSeq
  <2> QED  BY <1>1, <2>1, SubSeqProperties
<1> QED  BY <1>1, <1>3, <1>4, AppendIsConcat

\* One digit read as another one changes the remainder.
LEMMA RemainderDiffers ==
  ASSUME NEW p \in Seq(Digits), NEW q \in Seq(Digits),
         NEW c \in Digits, NEW d \in Digits, c # d
  PROVE  Remainder(Amid(p, c, q)) # Remainder(Amid(p, d, q))
<1> DEFINE first(k) == SubSeq(q, 1, k)
           with(e, k) == Remainder(Amid(p, e, first(k)))
           Apart == {k \in 0..Len(q) : with(c, k) # with(d, k)}
<1>1. Len(q) \in Nat
  BY LenProperties
<1>2. 0 \in Apart
  <2>1. first(0) = <<>>
    BY SubSeqEmpty
  <2>2. \A e \in Digits : Amid(p, e, <<>>) = Append(p, e)
    BY AmidType
  <2>3. \A e \in Digits : Remainder(Append(p, e)) = ((10 * Remainder(p)) + e) % 97
    BY RemainderAppend
  <2>4. Remainder(p) \in 0..96
    BY RemainderAppend
  <2>5. with(c, 0) = ((10 * Remainder(p)) + c) % 97 /\ with(d, 0) = ((10 * Remainder(p)) + d) % 97
    BY <2>1, <2>2, <2>3
  <2>6. with(c, 0) # with(d, 0)
    BY <2>4, <2>5, TellsApart
  <2> QED  BY <1>1, <2>6
<1>3. ASSUME NEW k \in 1..Len(q), k - 1 \in Apart PROVE k \in Apart
  <2>1. first(k - 1) \in Seq(Digits) /\ first(k) = Append(first(k - 1), q[k]) /\ q[k] \in Digits
    BY SubSeqAppend, ElementOfSeq
  <2>2. ASSUME NEW e \in Digits
        PROVE  /\ with(e, k) = ((10 * with(e, k - 1)) + q[k]) % 97
               /\ with(e, k - 1) \in 0..96
    <3> DEFINE u == first(k - 1)
               v == Amid(p, e, u)
    <3> HIDE DEF first
    <3>1. v \in Seq(Digits) /\ Amid(p, e, Append(u, q[k])) = Append(v, q[k])
      <4> DEFINE x == q[k]
      <4>1. u \in Seq(Digits) /\ x \in Digits
        BY <2>1
      <4> HIDE DEF u, x
      <4>2. v \in Seq(Digits)
        BY <4>1, AmidType
      <4>3. Amid(p, e, Append(u, x)) = Append(v, x)
        BY <4>1, AmidAppend
      <4> QED  BY <4>2, <4>3 DEF x
    <3>2. with(e, k) = Remainder(Append(v, q[k]))
      BY <2>1, <3>1
    <3> HIDE DEF u, v
    <3>3. Remainder(Append(v, q[k])) = ((10 * Remainder(v)) + q[k]) % 97 /\ Remainder(v) \in 0..96
      BY <2>1, <3>1, RemainderAppend
    <3> QED  BY <3>2, <3>3 DEF u, v
  <2>3. with(c, k - 1) # with(d, k - 1)
    BY <1>3
  <2>4. with(c, k) # with(d, k)
    <3> DEFINE x == with(c, k - 1)
               y == with(d, k - 1)
               e == q[k]
    <3>1. x \in 0..96 /\ y \in 0..96 /\ x # y /\ e \in Digits
      BY <2>1, <2>2, <2>3
    <3>2. with(c, k) = ((10 * x) + e) % 97 /\ with(d, k) = ((10 * y) + e) % 97
      BY <2>2
    <3> HIDE DEF with, x, y, e
    <3> QED  BY <3>1, <3>2, StaysApart
  <2> QED  BY <1>1, <2>4
<1>4. 0..Len(q) \subseteq Apart
  <2>1. \A k \in (0 + 1)..Len(q) : k - 1 \in Apart => k \in Apart
    BY <1>3
  <2> HIDE DEF Apart
  <2> QED  BY <1>1, <1>2, <2>1, Upward
<1>5. Len(q) \in Apart
  BY <1>1, <1>4
<1>6. first(Len(q)) = q
  BY SubSeqFull
<1> QED  BY <1>5, <1>6

\* What the check of an IBAN starts from: the first four characters last.
Rearranged(chars) == SubSeq(chars, 5, Len(chars)) \o SubSeq(chars, 1, 4)

\* The characters with the first four behind the others.
LEMMA RearrangedIs ==
  ASSUME NEW S, NEW s \in Seq(S), Len(s) > 4
  PROVE  /\ Rearranged(s) \in Seq(S) /\ Len(Rearranged(s)) = Len(s)
         /\ \A k \in 1..Len(s) :
              Rearranged(s)[k] = IF k <= Len(s) - 4 THEN s[k + 4] ELSE s[k - (Len(s) - 4)]
<1> DEFINE n == Len(s)
           a == SubSeq(s, 5, n)
           b == SubSeq(s, 1, 4)
<1>1. n \in Nat /\ \A k \in 1..n : s[k] \in S
  BY LenProperties, ElementOfSeq
<1>2. a \in Seq(S) /\ Len(a) = n - 4 /\ \A k \in 1..(n - 4) : a[k] = s[k + 4]
  <2>1. \A k \in 5..n : s[k] \in S
    BY <1>1
  <2>2. /\ a \in Seq(S) /\ Len(a) = (IF 5 <= n THEN n - 5 + 1 ELSE 0)
        /\ \A k \in 1..(n - 5 + 1) : a[k] = s[5 + k - 1]
    BY <1>1, <2>1, SubSeqProperties
  <2>3. (IF 5 <= n THEN n - 5 + 1 ELSE 0) = n - 4 /\ n - 5 + 1 = n - 4
    BY <1>1
  <2>4. \A k \in 1..(n - 4) : 5 + k - 1 = k + 4
    BY <1>1
  <2> HIDE DEF a
  <2> QED  BY <2>2, <2>3, <2>4
<1>3. b \in Seq(S) /\ Len(b) = 4 /\ \A k \in 1..4 : b[k] = s[k]
  <2>1. \A k \in 1..4 : s[k] \in S
    BY <1>1
  <2>2. /\ b \in Seq(S) /\ Len(b) = (IF 1 <= 4 THEN 4 - 1 + 1 ELSE 0)
        /\ \A k \in 1..(4 - 1 + 1) : b[k] = s[1 + k - 1]
    BY <2>1, SubSeqProperties
  <2>3. (IF 1 <= 4 THEN 4 - 1 + 1 ELSE 0) = 4 /\ 4 - 1 + 1 = 4 /\ \A k \in 1..4 : 1 + k - 1 = k
    OBVIOUS
  <2> HIDE DEF b
  <2> QED  BY <2>2, <2>3
<1>4. Rearranged(s) = a \o b
  BY DEF Rearranged
<1> HIDE DEF a, b
<1>5. /\ a \o b \in Seq(S) /\ Len(a \o b) = Len(a) + Len(b)
      /\ \A k \in 1..(Len(a) + Len(b)) : (a \o b)[k] = IF k <= Len(a) THEN a[k] ELSE b[k - Len(a)]
  BY <1>2, <1>3, ConcatProperties
<1>6. Len(a) + Len(b) = n
  BY <1>1, <1>2, <1>3
<1>7. ASSUME NEW k \in 1..n
      PROVE  Rearranged(s)[k] = IF k <= n - 4 THEN s[k + 4] ELSE s[k - (n - 4)]
  <2>1. CASE k <= n - 4
    <3>1. k \in 1..(n - 4)
      BY <1>1, <2>1
    <3> QED  BY <1>2, <1>4, <1>5, <1>6, <2>1, <3>1
  <2>2. CASE ~(k <= n - 4)
    <3>1. k - (n - 4) \in 1..4
      BY <1>1, <2>2
    <3> QED  BY <1>2, <1>3, <1>4, <1>5, <1>6, <2>2, <3>1
  <2> QED  BY <2>1, <2>2
<1> QED  BY <1>4, <1>5, <1>6, <1>7

\* A code with one digit read as another one has another remainder.
LEMMA WrongRemainder ==
  ASSUME NEW s \in Seq(Characters), NEW t \in Seq(Characters), Len(s) > 4,
         NEW i, SameBut(i, s, t), s[i] \in Digits, t[i] \in Digits, s[i] # t[i]
  PROVE  Remainder(Expand(Rearranged(s))) # Remainder(Expand(Rearranged(t)))
<1> DEFINE n == Len(s)
           u == Rearranged(s)
           v == Rearranged(t)
           j == IF i > 4 THEN i - 4 ELSE i + (n - 4)
<1>1. n \in Nat /\ Len(t) = n /\ i \in 1..n /\ \A k \in 1..n : k # i => t[k] = s[k]
  BY LenProperties DEF SameBut
<1>2. /\ u \in Seq(Characters) /\ Len(u) = n
      /\ \A k \in 1..n : u[k] = IF k <= n - 4 THEN s[k + 4] ELSE s[k - (n - 4)]
  BY RearrangedIs
<1>3. /\ v \in Seq(Characters) /\ Len(v) = n
      /\ \A k \in 1..n : v[k] = IF k <= n - 4 THEN t[k + 4] ELSE t[k - (n - 4)]
  BY <1>1, RearrangedIs
<1> HIDE DEF u, v
<1>4. j \in 1..n /\ u[j] = s[i] /\ v[j] = t[i]
  <2>1. CASE i > 4
    <3>1. j = i - 4 /\ i - 4 \in 1..n /\ i - 4 <= n - 4 /\ (i - 4) + 4 = i
      BY <1>1, <2>1
    <3> HIDE DEF j, n
    <3> QED  BY <1>2, <1>3, <3>1
  <2>2. CASE ~(i > 4)
    <3> DEFINE h == i + (n - 4)
    <3>1. j = h /\ h \in 1..n /\ ~(h <= n - 4) /\ h - (n - 4) = i
      BY <1>1, <2>2
    <3> HIDE DEF j, n, h
    <3> QED  BY <1>2, <1>3, <3>1
  <2> QED  BY <2>1, <2>2
<1>5. ASSUME NEW k \in 1..n, k # j PROVE v[k] = u[k]
  <2>1. CASE k <= n - 4
    <3>1. k + 4 \in 1..n /\ k + 4 # i
      BY <1>1, <1>5, <2>1
    <3> HIDE DEF j, n
    <3> QED  BY <1>1, <1>2, <1>3, <2>1, <3>1
  <2>2. CASE ~(k <= n - 4)
    <3> DEFINE h == k - (n - 4)
    <3>1. h \in 1..n /\ h # i
      BY <1>1, <1>5, <2>2
    <3>2. u[k] = s[h] /\ v[k] = t[h]
      BY <1>2, <1>3, <2>2
    <3> HIDE DEF j, n, h
    <3> QED  BY <1>1, <3>1, <3>2
  <2> QED  BY <2>1, <2>2
<1> HIDE DEF j
<1>6. SameBut(j, u, v)
  BY <1>2, <1>3, <1>4, <1>5 DEF SameBut
<1>7. PICK p, q \in Seq(Digits) : Expand(u) = Amid(p, u[j], q) /\ Expand(v) = Amid(p, v[j], q)
  BY <1>2, <1>3, <1>4, <1>6, ExpandChanged
<1>8. Remainder(Amid(p, u[j], q)) # Remainder(Amid(p, v[j], q))
  BY <1>4, RemainderDiffers
<1> QED  BY <1>7, <1>8 DEF u, v

\* Two digits more.
LEMMA ExpandTwo ==
  ASSUME NEW w \in Seq(Characters), NEW x \in Digits, NEW y \in Digits
  PROVE  /\ Expand(w \o <<x, y>>) = Append(Append(Expand(w), x), y)
         /\ Expand(w) \in Seq(Digits)
<1>1. Digits \subseteq Characters
  BY DEF Digits, Characters
<1>2. <<x>> \in Seq(Characters) /\ <<y>> \in Seq(Characters) /\ <<x, y>> = <<x>> \o <<y>>
  <2>1. x \in Characters /\ y \in Characters
    BY <1>1
  <2>2. <<x>> \in Seq(Characters) /\ <<y>> \in Seq(Characters)
    BY <2>1
  <2>3. Append(<<x>>, y) = <<x>> \o <<y>>
    BY <2>1, <2>2, AppendIsConcat
  <2>4. Append(<<x>>, y) = <<x, y>>
    <3> DEFINE u == Append(<<x>>, y)
               v == <<x, y>>
    <3>1. v \in Seq(Characters) /\ Len(v) = 2 /\ v[1] = x /\ v[2] = y
      BY <2>1
    <3>2. Len(<<x>>) = 1 /\ <<x>>[1] = x
      OBVIOUS
    <3>3. u \in Seq(Characters) /\ Len(u) = 2 /\ u[1] = x /\ u[2] = y
      <4>1. /\ u \in Seq(Characters) /\ Len(u) = Len(<<x>>) + 1
            /\ \A i \in 1..Len(<<x>>) : u[i] = <<x>>[i]
            /\ u[Len(<<x>>) + 1] = y
        BY <2>1, <2>2, AppendProperties
      <4> HIDE DEF u
      <4> QED  BY <3>2, <4>1
    <3> HIDE DEF u, v
    <3>4. Len(u) = Len(v) /\ \A i \in 1..Len(u) : u[i] = v[i]
      BY <3>1, <3>3
    <3>5. u = v
      BY <3>1, <3>3, <3>4, SeqEqual
    <3> QED  BY <3>5 DEF u, v
  <2> QED  BY <2>2, <2>3, <2>4
<1> DEFINE a == <<x>>
           b == <<y>>
<1>3. w \o <<x, y>> = (w \o a) \o b
  <2>1. a \in Seq(Characters) /\ b \in Seq(Characters) /\ <<x, y>> = a \o b
    BY <1>2
  <2>2. w \o <<x, y>> = w \o (a \o b)
    BY <2>1
  <2> HIDE DEF a, b
  <2>3. (w \o a) \o b = w \o (a \o b)
    BY <2>1, ConcatAssociative
  <2> QED  BY <2>2, <2>3
<1>4. Expand((w \o a) \o b) = (Expand(w) \o Expand(a)) \o Expand(b)
  <2>1. a \in Seq(Characters) /\ b \in Seq(Characters)
    BY <1>2
  <2> HIDE DEF a, b
  <2>2. w \o a \in Seq(Characters)
    BY <2>1, ConcatProperties
  <2>3. Expand(w \o a) = Expand(w) \o Expand(a)
    BY <2>1, ExpandConcat
  <2>4. Expand((w \o a) \o b) = Expand(w \o a) \o Expand(b)
    BY <2>1, <2>2, ExpandConcat
  <2> QED  BY <2>3, <2>4
<1>5. Expand(a) = <<x>> /\ Expand(b) = <<y>>
  BY ExpandDigit
<1>6. Expand(w) \in Seq(Digits)
  BY ExpandType
<1> HIDE DEF a, b
<1> DEFINE e == Expand(w)
<1>7. e \in Seq(Digits)
  BY <1>6
<1> HIDE DEF e
<1>8. (e \o <<x>>) \o <<y>> = Append(Append(e, x), y)
  <2>1. Append(e, x) = e \o <<x>> /\ Append(e, x) \in Seq(Digits)
    BY <1>7, AppendIsConcat, AppendProperties
  <2>2. Append(Append(e, x), y) = Append(e, x) \o <<y>>
    BY <2>1, AppendIsConcat
  <2> QED  BY <2>1, <2>2
<1> QED  BY <1>3, <1>4, <1>5, <1>6, <1>8 DEF e

\* The remainder with two more digits.
LEMMA RemainderTwo ==
  ASSUME NEW e \in Seq(Digits), NEW x \in Digits, NEW y \in Digits
  PROVE  /\ Remainder(e) \in 0..96
         /\ Remainder(Append(Append(e, x), y))
              = ((10 * (((10 * Remainder(e)) + x) % 97)) + y) % 97
<1> DEFINE u == Append(e, x)
<1>1. u \in Seq(Digits)
  BY AppendProperties
<1>2. Remainder(u) = ((10 * Remainder(e)) + x) % 97 /\ Remainder(e) \in 0..96
  BY RemainderAppend
<1> HIDE DEF u
<1>3. Remainder(Append(u, y)) = ((10 * Remainder(u)) + y) % 97
  BY <1>1, RemainderAppend
<1> QED  BY <1>2, <1>3 DEF u

\* Four characters and the others.
LEMMA RearrangedParts ==
  ASSUME NEW S, NEW a \in Seq(S), Len(a) = 4, NEW b \in Seq(S), Len(b) > 0
  PROVE  Rearranged(a \o b) = b \o a
<1>1. Len(b) \in Nat /\ Len(b) \in 1..Len(b)
  BY LenProperties
<1>2. Len(a \o b) = 4 + Len(b)
  <2>1. Len(a \o b) = Len(a) + Len(b)
    BY ConcatProperties
  <2> QED  BY <2>1
<1>3. SubSeq(a \o b, 1, 4) = a
  <2>1. 1 \in 1..Len(a) /\ 4 \in 1..Len(a)
    OBVIOUS
  <2>2. SubSeq(a \o b, 1, 4) = SubSeq(a, 1, 4)
    BY <2>1, SubSeqOfConcat1
  <2>3. SubSeq(a, 1, Len(a)) = a
    BY SubSeqFull
  <2> QED  BY <2>2, <2>3
<1>4. SubSeq(a \o b, 5, 4 + Len(b)) = b
  <2>1. 5 \in Len(a) + 1..Len(a) + Len(b) /\ 4 + Len(b) \in Len(a) + 1..Len(a) + Len(b)
    BY <1>1
  <2>2. SubSeq(a \o b, 5, 4 + Len(b)) = SubSeq(b, 5 - Len(a), (4 + Len(b)) - Len(a))
    BY <2>1, SubSeqOfConcat2
  <2>3. 5 - Len(a) = 1 /\ (4 + Len(b)) - Len(a) = Len(b)
    BY <1>1
  <2>4. SubSeq(b, 1, Len(b)) = b
    BY SubSeqFull
  <2> QED  BY <2>2, <2>3, <2>4
<1> QED  BY <1>2, <1>3, <1>4 DEF Rearranged

\* An IBAN as issued has the remainder 1.
LEMMA IbanIssued ==
  ASSUME NEW w \in Seq(Characters), Len(w) > 2
  PROVE  /\ IbanOf(w) \in Seq(Characters) /\ Len(IbanOf(w)) > 4
         /\ IbanOf(w)[1] = w[1] /\ IbanOf(w)[2] = w[2]
         /\ IbanOf(w)[3] \in Digits /\ IbanOf(w)[4] \in Digits
         /\ Remainder(Expand(Rearranged(IbanOf(w)))) = 1
<1> DEFINE m == Len(w)
           h == SubSeq(w, 1, 2)
           b == SubSeq(w, 3, m)
           c == 98 - Remainder(Expand(b \o h \o <<0, 0>>))
           x == c \div 10
           y == c % 10
           g == <<x, y>>
<1>1. m \in Nat /\ \A k \in 1..m : w[k] \in Characters
  BY LenProperties, ElementOfSeq
<1>2. h \in Seq(Characters) /\ Len(h) = 2 /\ h[1] = w[1] /\ h[2] = w[2]
  <2>1. \A k \in 1..2 : w[k] \in Characters
    BY <1>1
  <2>2. /\ h \in Seq(Characters) /\ Len(h) = (IF 1 <= 2 THEN 2 - 1 + 1 ELSE 0)
        /\ \A k \in 1..(2 - 1 + 1) : h[k] = w[1 + k - 1]
    BY <2>1, SubSeqProperties
  <2>3. 1 \in 1..(2 - 1 + 1) /\ 2 \in 1..(2 - 1 + 1) /\ 1 + 1 - 1 = 1 /\ 1 + 2 - 1 = 2
    OBVIOUS
  <2> HIDE DEF h
  <2> QED  BY <2>2, <2>3
<1>3. b \in Seq(Characters) /\ Len(b) > 0
  <2>1. \A k \in 3..m : w[k] \in Characters
    BY <1>1
  <2>2. b \in Seq(Characters) /\ Len(b) = (IF 3 <= m THEN m - 3 + 1 ELSE 0)
    BY <1>1, <2>1, SubSeqProperties
  <2> HIDE DEF b
  <2> QED  BY <1>1, <2>2
<1>4. IbanOf(w) = (h \o g) \o b
  BY DEF IbanOf
<1> HIDE DEF h, b
<1> DEFINE e == Expand(b \o h)
           r == Remainder(e)
<1>5. b \o h \in Seq(Characters)
  BY <1>2, <1>3, ConcatProperties
<1>6. e \in Seq(Digits)
  BY <1>5, ExpandType
<1>7. c = 98 - ((10 * ((10 * r) % 97)) % 97) /\ r \in 0..96
  <2>1. 0 \in Digits
    BY DEF Digits
  <2>2. Expand((b \o h) \o <<0, 0>>) = Append(Append(e, 0), 0)
    BY <1>5, <2>1, ExpandTwo
  <2>3. Remainder(Append(Append(e, 0), 0)) = ((10 * (((10 * r) + 0) % 97)) + 0) % 97 /\ r \in 0..96
    BY <1>6, <2>1, RemainderTwo
  <2>4. c = 98 - Remainder(Append(Append(e, 0), 0))
    BY <2>2
  <2> HIDE DEF c, r
  <2>5. (10 * r) + 0 = 10 * r /\ (10 * ((10 * r) % 97)) + 0 = 10 * ((10 * r) % 97)
    BY <2>3
  <2> QED  BY <2>3, <2>4, <2>5
<1> HIDE DEF c, r
<1>8. x \in Digits /\ y \in Digits /\ ((10 * (((10 * r) + x) % 97)) + y) % 97 = 1
  BY <1>7, CheckDigits
<1> HIDE DEF x, y
<1>9. Digits \subseteq Characters
  BY DEF Digits, Characters
<1>10. g \in Seq(Characters) /\ Len(g) = 2 /\ g[1] = x /\ g[2] = y
  BY <1>8, <1>9
<1>11. /\ h \o g \in Seq(Characters) /\ Len(h \o g) = 4
       /\ (h \o g)[1] = w[1] /\ (h \o g)[2] = w[2] /\ (h \o g)[3] = x /\ (h \o g)[4] = y
  <2> HIDE DEF g
  <2>1. /\ h \o g \in Seq(Characters) /\ Len(h \o g) = Len(h) + Len(g)
        /\ \A i \in 1..Len(h) + Len(g) : (h \o g)[i] = IF i <= Len(h) THEN h[i] ELSE g[i - Len(h)]
    BY <1>2, <1>10, ConcatProperties
  <2>2. Len(h) = 2 /\ Len(g) = 2 /\ Len(h) + Len(g) = 4
    BY <1>2, <1>10
  <2> DEFINE a == h \o g
  <2>3. a \in Seq(Characters) /\ Len(a) = 4 /\ \A i \in 1..4 : a[i] = IF i <= 2 THEN h[i] ELSE g[i - 2]
    BY <2>1, <2>2
  <2> HIDE DEF a
  <2>4. a[1] = h[1] /\ a[2] = h[2] /\ a[3] = g[3 - 2] /\ a[4] = g[4 - 2]
    BY <2>3
  <2>5. 3 - 2 = 1 /\ 4 - 2 = 2
    OBVIOUS
  <2>6. a[3] = g[1] /\ a[4] = g[2]
    BY <2>4, <2>5
  <2> QED  BY <1>2, <1>10, <2>3, <2>4, <2>6 DEF a
<1> DEFINE a == h \o g
<1>12. a \in Seq(Characters) /\ Len(a) = 4
  BY <1>11
<1>13. IbanOf(w) = a \o b
  BY <1>4
<1>14. Rearranged(a \o b) = (b \o h) \o g
  <2>1. b \o (h \o g) = (b \o h) \o g
    <3>1. b \in Seq(Characters) /\ h \in Seq(Characters) /\ g \in Seq(Characters)
      BY <1>2, <1>3, <1>10
    <3> HIDE DEF g, a
    <3> QED  BY ONLY <3>1, ConcatAssociative
  <2>2. Rearranged(a \o b) = b \o a
    <3> HIDE DEF a
    <3> QED  BY <1>3, <1>12, RearrangedParts
  <2> QED  BY <2>1, <2>2
<1>15. Remainder(Expand((b \o h) \o g)) = 1
  <2>1. Expand((b \o h) \o <<x, y>>) = Append(Append(e, x), y)
    BY <1>5, <1>8, ExpandTwo
  <2> HIDE DEF e
  <2>2. Remainder(Append(Append(e, x), y)) = ((10 * (((10 * r) + x) % 97)) + y) % 97
    BY <1>6, <1>8, RemainderTwo DEF r
  <2> QED  BY <1>8, <2>1, <2>2
<1>16. /\ a \o b \in Seq(Characters) /\ Len(a \o b) > 4
       /\ \A i \in 1..4 : (a \o b)[i] = a[i]
  <2> HIDE DEF a
  <2>1. /\ a \o b \in Seq(Characters) /\ Len(a \o b) = Len(a) + Len(b)
        /\ \A i \in 1..Len(a) + Len(b) : (a \o b)[i] = IF i <= Len(a) THEN a[i] ELSE b[i - Len(a)]
    BY <1>3, <1>12, ConcatProperties
  <2>2. Len(b) \in Nat
    BY <1>3, LenProperties
  <2> QED  BY <1>3, <1>12, <2>1, <2>2
<1>17. a[1] = w[1] /\ a[2] = w[2] /\ a[3] \in Digits /\ a[4] \in Digits
  BY <1>8, <1>11
<1> DEFINE z == a \o b
<1>18. z[1] = a[1] /\ z[2] = a[2] /\ z[3] = a[3] /\ z[4] = a[4]
  <2> HIDE DEF a
  <2> QED  BY <1>16
<1>19. Remainder(Expand(Rearranged(z))) = 1
  BY <1>14, <1>15
<1>20. z \in Seq(Characters) /\ Len(z) > 4 /\ IbanOf(w) = z
  BY <1>13, <1>16
<1> HIDE DEF z, a
<1> QED  BY <1>17, <1>18, <1>19, <1>20

------------------------------------------------------------------------------
(* The sum of an ISIN.                                                       *)

\* The places of what was put between two sequences.
LEMMA AmidIs ==
  ASSUME NEW S, NEW p \in Seq(S), NEW q \in Seq(S), NEW c \in S
  PROVE  /\ Amid(p, c, q) \in Seq(S)
         /\ Len(Amid(p, c, q)) = Len(p) + 1 + Len(q)
         /\ Len(p) + 1 \in 1..(Len(p) + 1 + Len(q))
         /\ Amid(p, c, q)[Len(p) + 1] = c
         /\ \A k \in 1..(Len(p) + 1 + Len(q)) :
              k # Len(p) + 1 =>
                Amid(p, c, q)[k] = IF k <= Len(p) THEN p[k] ELSE q[k - (Len(p) + 1)]
<1> DEFINE a == Append(p, c)
           m == Len(p)
           n == Len(q)
<1>1. m \in Nat /\ n \in Nat
  BY LenProperties
<1>2. /\ a \in Seq(S) /\ Len(a) = m + 1 /\ a[m + 1] = c
      /\ \A k \in 1..m : a[k] = p[k]
  BY AppendProperties
<1>3. Amid(p, c, q) = a \o q
  BY AppendIsConcat DEF Amid
<1> HIDE DEF a
<1> DEFINE z == a \o q
<1>4. /\ z \in Seq(S) /\ Len(z) = Len(a) + n
      /\ \A k \in 1..(Len(a) + n) : z[k] = IF k <= Len(a) THEN a[k] ELSE q[k - Len(a)]
  BY <1>2, ConcatProperties
<1> HIDE DEF z
<1>5. Len(a) + n = m + 1 + n /\ m + 1 \in 1..(m + 1 + n)
  BY <1>1, <1>2
<1>6. z[m + 1] = c
  BY <1>1, <1>2, <1>4, <1>5
<1>7. ASSUME NEW k \in 1..(m + 1 + n), k # m + 1
      PROVE  z[k] = IF k <= m THEN p[k] ELSE q[k - (m + 1)]
  <2>1. z[k] = IF k <= m + 1 THEN a[k] ELSE q[k - (m + 1)]
    BY <1>2, <1>4, <1>5
  <2>2. CASE k <= m
    <3>1. k \in 1..m /\ k <= m + 1
      BY <1>1, <2>2
    <3> QED  BY <1>2, <2>1, <2>2, <3>1
  <2>3. CASE ~(k <= m)
    <3>1. ~(k <= m + 1)
      BY <1>1, <1>7, <2>3
    <3> QED  BY <2>1, <2>3, <3>1
  <2> QED  BY <2>2, <2>3
<1>8. Amid(p, c, q) = z
  BY <1>3 DEF z
<1> HIDE DEF m, n
<1> QED  BY <1>4, <1>5, <1>6, <1>7, <1>8 DEF m, n

\* The sum of the digits of 2d, as the standard says it and as the code does.
LEMMA DoubledIs ==
  ASSUME NEW d \in Digits
  PROVE  Doubled(d) \in Digits /\ CrossSum(d) = Doubled(d)
BY DEF Digits, Doubled, CrossSum

\* Doubling tells two digits apart.
LEMMA DoubledDiffers ==
  ASSUME NEW c \in Digits, NEW d \in Digits, c # d
  PROVE  Doubled(c) # Doubled(d)
BY DEF Digits, Doubled

\* The digits of the sum of a code, from its last.
Weights(s) == EverySecondDoubled(Reverse(s))

\* What each digit adds, counted from the last.
LEMMA WeightsAre ==
  ASSUME NEW s \in Seq(Digits)
  PROVE  /\ Weights(s) \in Seq(Digits) /\ Len(Weights(s)) = Len(s)
         /\ \A i \in 1..Len(s) :
              Weights(s)[i] = IF i % 2 = 0 THEN Doubled(s[Len(s) - i + 1]) ELSE s[Len(s) - i + 1]
<1> DEFINE r == Reverse(s)
<1>1. r \in Seq(Digits) /\ Len(r) = Len(s) /\ \A i \in 1..Len(s) : r[i] = s[Len(s) - i + 1]
  BY ReverseIs
<1> HIDE DEF r
<1>2. Len(r) \in Nat /\ DOMAIN r = 1..Len(r) /\ \A i \in 1..Len(r) : r[i] \in Digits
  BY <1>1, LenProperties, ElementOfSeq
<1>3. \A i \in 1..Len(r) : Doubled(r[i]) \in Digits
  BY <1>2, DoubledIs
<1>4. EverySecondDoubled(r) = [i \in 1..Len(r) |-> IF i % 2 = 0 THEN Doubled(r[i]) ELSE r[i]]
  BY <1>2 DEF EverySecondDoubled
<1>5. EverySecondDoubled(r) \in [1..Len(r) -> Digits]
  BY <1>2, <1>3, <1>4
<1>6. EverySecondDoubled(r) \in Seq(Digits) /\ Len(EverySecondDoubled(r)) = Len(r)
  BY <1>2, <1>5, IsSequence
<1>7. Weights(s) = EverySecondDoubled(r)
  BY DEF Weights, r
<1> QED  BY <1>1, <1>4, <1>6, <1>7

\* What each digit of a code without its check digit adds.
LEMMA WeighedIs ==
  ASSUME NEW s \in Seq(Digits)
  PROVE  /\ Weighed(s) \in Seq(Int) /\ Len(Weighed(s)) = Len(s)
         /\ \A i \in 1..Len(s) :
              Weighed(s)[i] = IF (Len(s) - i) % 2 = 0 THEN Doubled(s[i]) ELSE s[i]
<1>1. Len(s) \in Nat /\ DOMAIN s = 1..Len(s) /\ \A i \in 1..Len(s) : s[i] \in Digits
  BY LenProperties, ElementOfSeq
<1>2. \A i \in 1..Len(s) : CrossSum(s[i]) = Doubled(s[i]) /\ Doubled(s[i]) \in Digits
  BY <1>1, DoubledIs
<1>3. Digits \subseteq Int
  BY DEF Digits
<1>4. Weighed(s) = [i \in 1..Len(s) |-> IF (Len(s) - i) % 2 = 0 THEN Doubled(s[i]) ELSE s[i]]
  BY <1>1, <1>2 DEF Weighed
<1>5. Weighed(s) \in [1..Len(s) -> Int]
  BY <1>1, <1>2, <1>3, <1>4
<1>6. Weighed(s) \in Seq(Int) /\ Len(Weighed(s)) = Len(s)
  BY <1>1, <1>5, IsSequence
<1> QED  BY <1>4, <1>6

\* The digit that makes a sum a multiple of ten.
LEMMA CheckDigit ==
  ASSUME NEW x \in Int
  PROVE  /\ (10 - (x % 10)) % 10 \in Digits
         /\ (x + ((10 - (x % 10)) % 10)) % 10 = 0
BY DEF Digits

\* The digit an ISIN is issued with makes its sum a multiple of ten.
LEMMA LuhnIssued ==
  ASSUME NEW e \in Seq(Digits), NEW k \in Digits, k = (10 - (SumOf(Weighed(e)) % 10)) % 10
  PROVE  Luhn(Append(e, k))
<1> DEFINE n == Len(e)
           t == Append(e, k)
           w == Weighed(e)
           s == Append(w, k)
           r == Weights(t)
<1>1. n \in Nat /\ t \in Seq(Digits) /\ Len(t) = n + 1 /\ t[n + 1] = k /\ \A i \in 1..n : t[i] = e[i]
  BY AppendProperties, LenProperties
<1>2. /\ w \in Seq(Int) /\ Len(w) = n
      /\ \A i \in 1..n : w[i] = IF (n - i) % 2 = 0 THEN Doubled(e[i]) ELSE e[i]
  BY WeighedIs
<1> HIDE DEF t, w
<1>3. Digits \subseteq Int
  BY DEF Digits
<1>4. s \in Seq(Int) /\ Len(s) = n + 1 /\ s[n + 1] = k /\ \A i \in 1..n : s[i] = w[i]
  BY <1>2, <1>3, AppendProperties
<1>5. SumOf(s) = SumOf(w) + k /\ SumOf(w) \in Int
  BY <1>2, <1>3, SumAppend, SumType
<1> HIDE DEF s
<1>6. /\ r \in Seq(Digits) /\ Len(r) = n + 1
      /\ \A i \in 1..(n + 1) :
           r[i] = IF i % 2 = 0 THEN Doubled(t[(n + 1) - i + 1]) ELSE t[(n + 1) - i + 1]
  BY <1>1, WeightsAre
<1> HIDE DEF r
<1>7. ASSUME NEW i \in 1..(n + 1) PROVE r[i] = s[(n + 1) - i + 1]
  <2> DEFINE j == (n + 1) - i + 1
  <2>1. r[i] = IF i % 2 = 0 THEN Doubled(t[j]) ELSE t[j]
    BY <1>6
  <2>2. CASE i = 1
    <3>1. j = n + 1 /\ i % 2 # 0
      BY <1>1, <2>2
    <3> HIDE DEF j
    <3> QED  BY <1>1, <1>4, <2>1, <3>1 DEF j
  <2>3. CASE i # 1
    <3>1. j \in 1..n /\ ((n - j) % 2 = 0 <=> i % 2 = 0)
      BY <1>1, <2>3
    <3> HIDE DEF j
    <3>2. s[j] = w[j] /\ t[j] = e[j]
      BY <1>1, <1>4, <3>1
    <3>3. r[i] = s[j]
      BY <1>2, <2>1, <3>1, <3>2
    <3> QED  BY <3>3 DEF j
  <2> QED  BY <2>2, <2>3
<1>8. r \in Seq(Int)
  BY <1>3, <1>6, SeqMonotonic
<1>9. SumOf(r) = SumOf(s)
  BY <1>4, <1>6, <1>7, <1>8, SumReverse
<1> DEFINE x == SumOf(w)
<1>10. x \in Int /\ k = (10 - (x % 10)) % 10
  BY <1>5 DEF w
<1>11. (x + k) % 10 = 0
  <2> HIDE DEF x
  <2> QED  BY <1>10, CheckDigit
<1>12. SumOf(r) % 10 = 0
  BY <1>5, <1>9, <1>11
<1> QED  BY <1>12 DEF Luhn, Weights, r, t

\* One digit read as another one changes the sum by less than ten.
LEMMA LuhnDiffers ==
  ASSUME NEW p \in Seq(Digits), NEW q \in Seq(Digits),
         NEW c \in Digits, NEW d \in Digits, c # d, Luhn(Amid(p, c, q))
  PROVE  ~Luhn(Amid(p, d, q))
<1> DEFINE n == Len(p) + 1 + Len(q)
           h == Len(p) + 1
           s == Amid(p, c, q)
           t == Amid(p, d, q)
           u == Weights(s)
           v == Weights(t)
           j == n - h + 1
<1>1. /\ s \in Seq(Digits) /\ Len(s) = n /\ s[h] = c /\ h \in 1..n
      /\ \A k \in 1..n : k # h => s[k] = IF k <= Len(p) THEN p[k] ELSE q[k - h]
  BY AmidIs
<1>2. /\ t \in Seq(Digits) /\ Len(t) = n /\ t[h] = d
      /\ \A k \in 1..n : k # h => t[k] = IF k <= Len(p) THEN p[k] ELSE q[k - h]
  BY AmidIs
<1>3. \A k \in 1..n : k # h => t[k] = s[k]
  BY <1>1, <1>2
<1>4. n \in Nat /\ h \in Nat
  BY LenProperties
<1> HIDE DEF n, h, s, t
<1>5. /\ u \in Seq(Digits) /\ Len(u) = n
      /\ \A i \in 1..n : u[i] = IF i % 2 = 0 THEN Doubled(s[n - i + 1]) ELSE s[n - i + 1]
  BY <1>1, WeightsAre
<1>6. /\ v \in Seq(Digits) /\ Len(v) = n
      /\ \A i \in 1..n : v[i] = IF i % 2 = 0 THEN Doubled(t[n - i + 1]) ELSE t[n - i + 1]
  BY <1>2, WeightsAre
<1> HIDE DEF u, v
<1>7. j \in 1..n /\ n - j + 1 = h
  BY <1>1, <1>4
<1> HIDE DEF j
<1>8. u[j] \in Digits /\ v[j] \in Digits /\ u[j] # v[j]
  <2>1. u[j] \in Digits /\ v[j] \in Digits
    BY <1>5, <1>6, <1>7, ElementOfSeq
  <2>2. /\ u[j] = IF j % 2 = 0 THEN Doubled(c) ELSE c
        /\ v[j] = IF j % 2 = 0 THEN Doubled(d) ELSE d
    BY <1>1, <1>2, <1>5, <1>6, <1>7
  <2>3. Doubled(c) # Doubled(d)
    BY DoubledDiffers
  <2> QED  BY <2>1, <2>2, <2>3
<1>9. ASSUME NEW k \in 1..n, k # j PROVE v[k] = u[k]
  <2> DEFINE l == n - k + 1
  <2>1. l \in 1..n /\ l # h
    BY <1>4, <1>7, <1>9
  <2>2. t[l] = s[l]
    <3> HIDE DEF l
    <3> QED  BY <1>3, <2>1
  <2> QED  BY <1>5, <1>6, <2>2
<1>10. Digits \subseteq Int
  BY DEF Digits
<1>11. u \in Seq(Int) /\ v \in Seq(Int)
  BY <1>5, <1>6, <1>10, SeqMonotonic
<1>12. SumOf(v) = SumOf(u) + v[j] - u[j] /\ SumOf(u) \in Int
  <2>1. Len(v) = Len(u) /\ j \in 1..Len(u) /\ \A k \in 1..Len(u) : k # j => v[k] = u[k]
    BY <1>5, <1>6, <1>7, <1>9
  <2>2. SumOf(v) = SumOf(u) + v[j] - u[j]
    BY <1>11, <2>1, SumChanged
  <2> QED  BY <1>11, <2>2, SumType
<1>13. SumOf(u) % 10 = 0
  BY DEF Luhn, Weights, u, s
<1> DEFINE x == SumOf(u)
           a == u[j]
           b == v[j]
           y == SumOf(v)
<1>14. x \in Int /\ x % 10 = 0 /\ a \in 0..9 /\ b \in 0..9 /\ a # b /\ y = x + b - a
  BY <1>8, <1>12, <1>13 DEF Digits
<1> HIDE DEF x, a, b, y
<1>15. y % 10 # 0
  BY <1>14
<1> QED  BY <1>15 DEF Luhn, Weights, y, v, t

------------------------------------------------------------------------------
(* The codes issued, and what is read for them.                              *)

\* What is assumed of the codes.
LEMMA CodeIs ==
  ASSUME NEW c \in Codes
  PROVE  /\ c.chars \in Seq(Characters) /\ Len(c.chars) \in Nat /\ Len(c.chars) > 2
         /\ c.chars[1] \in Characters \ Digits /\ c.chars[2] \in Characters \ Digits
         /\ c.kind = "iban" \/ (c.kind = "isin" /\ Len(c.chars) = 11)
<1> DEFINE w == c.chars
<1>1. /\ w \in Seq(Characters) /\ Len(w) > 2 /\ Letter(w[1]) /\ Letter(w[2])
      /\ c.kind = "iban" \/ (c.kind = "isin" /\ Len(w) = 11)
  BY CodesAssumption DEF Characters
<1> HIDE DEF w
<1>2. Len(w) \in Nat /\ 1 \in 1..Len(w) /\ 2 \in 1..Len(w)
  BY <1>1, LenProperties
<1>3. w[1] \in Characters /\ w[2] \in Characters
  BY <1>1, <1>2, ElementOfSeq
<1>4. w[1] \notin Digits /\ w[2] \notin Digits
  BY <1>1, <1>3 DEF Letter, Characters, Digits
<1> QED  BY <1>1, <1>2, <1>3, <1>4 DEF w

\* A code of its kind: what its validator looks at, and what it accepts.
Looks(kind, t) == IF kind = "iban" THEN LooksLikeIban(t) ELSE LooksLikeIsin(t)
Valid(kind, t) == IF kind = "iban" THEN ValidIban(t) ELSE Luhn(Expand(t))

\* The positions of a code that are letters and digits in every code.
Lettered(s) == s[1] \in Characters \ Digits /\ s[2] \in Characters \ Digits
Numbered(kind, s) ==
  IF kind = "iban" THEN Len(s) > 4 /\ s[3] \in Digits /\ s[4] \in Digits
                   ELSE Len(s) = 12 /\ s[12] \in Digits

\* An ISIN as issued has its twelve characters and passes.
LEMMA IsinIssued ==
  ASSUME NEW w \in Seq(Characters), Len(w) = 11
  PROVE  /\ IsinOf(w) \in Seq(Characters) /\ Len(IsinOf(w)) = 12
         /\ IsinOf(w)[1] = w[1] /\ IsinOf(w)[2] = w[2] /\ IsinOf(w)[12] \in Digits
         /\ Luhn(Expand(IsinOf(w)))
<1> DEFINE e == Expand(w)
           x == SumOf(Weighed(e))
           k == (10 - (x % 10)) % 10
<1>1. e \in Seq(Digits)
  BY ExpandType
<1>2. x \in Int
  BY <1>1, WeighedIs, SumType
<1>3. k \in Digits
  <2> HIDE DEF x
  <2> QED  BY <1>2, CheckDigit
<1>4. IsinOf(w) = Append(w, k)
  BY DEF IsinOf
<1>5. Luhn(Append(e, k))
  <2> HIDE DEF e
  <2>1. k = (10 - (SumOf(Weighed(e)) % 10)) % 10
    OBVIOUS
  <2> HIDE DEF k
  <2> QED  BY <1>1, <1>3, <2>1, LuhnIssued
<1> HIDE DEF k
<1>6. Digits \subseteq Characters
  BY DEF Digits, Characters
<1>7. Expand(Append(w, k)) = Append(e, k)
  <2>1. k \in Characters
    BY <1>3, <1>6
  <2>2. <<k>> \in Seq(Characters)
    BY <2>1
  <2>3. Append(w, k) = w \o <<k>>
    BY <2>1, AppendIsConcat
  <2>4. Expand(w \o <<k>>) = e \o Expand(<<k>>)
    BY <2>2, ExpandConcat
  <2>5. Expand(<<k>>) = <<k>>
    BY <1>3, ExpandDigit
  <2>6. Append(e, k) = e \o <<k>>
    <3> HIDE DEF e
    <3> QED  BY <1>1, <1>3, AppendIsConcat
  <2> QED  BY <2>3, <2>4, <2>5, <2>6
<1> DEFINE z == Append(w, k)
<1>8. /\ z \in Seq(Characters) /\ Len(z) = Len(w) + 1 /\ z[Len(w) + 1] = k
      /\ \A i \in 1..Len(w) : z[i] = w[i]
  <2>1. k \in Characters
    BY <1>3, <1>6
  <2> QED  BY ONLY <2>1, w \in Seq(Characters), AppendProperties DEF z
<1>9. Luhn(Expand(z)) /\ IsinOf(w) = z
  BY <1>4, <1>5, <1>7
<1> HIDE DEF z
<1>10. Len(z) = 12 /\ z[12] = k /\ z[1] = w[1] /\ z[2] = w[2]
  BY <1>8
<1> QED  BY <1>3, <1>8, <1>9, <1>10

\* A code as issued looks like one and passes.
LEMMA IssuedIs ==
  ASSUME NEW c \in Codes
  PROVE  /\ Issued(c) \in Seq(Characters) /\ Lettered(Issued(c)) /\ Numbered(c.kind, Issued(c))
         /\ Valid(c.kind, Issued(c)) /\ c.kind \in {"iban", "isin"}
<1> DEFINE w == c.chars
<1>1. /\ w \in Seq(Characters) /\ Len(w) \in Nat /\ Len(w) > 2
      /\ w[1] \in Characters \ Digits /\ w[2] \in Characters \ Digits
      /\ c.kind = "iban" \/ (c.kind = "isin" /\ Len(w) = 11)
  BY CodeIs
<1>2. CASE c.kind = "iban"
  <2> DEFINE s == IbanOf(w)
  <2>1. Issued(c) = s
    BY <1>2 DEF Issued
  <2> HIDE DEF w
  <2>2. /\ s \in Seq(Characters) /\ Len(s) > 4 /\ s[1] = w[1] /\ s[2] = w[2]
        /\ s[3] \in Digits /\ s[4] \in Digits
        /\ Remainder(Expand(Rearranged(s))) = 1
    BY <1>1, IbanIssued
  <2> HIDE DEF s
  <2>3. ValidIban(s)
    BY <2>2 DEF ValidIban, Rearranged
  <2> QED  BY <1>1, <1>2, <2>1, <2>2, <2>3 DEF Lettered, Numbered, Valid
<1>3. CASE c.kind = "isin" /\ Len(w) = 11
  <2> DEFINE s == IsinOf(w)
  <2>1. Issued(c) = s
    BY <1>3 DEF Issued
  <2> HIDE DEF w
  <2>2. /\ s \in Seq(Characters) /\ Len(s) = 12 /\ s[1] = w[1] /\ s[2] = w[2]
        /\ s[12] \in Digits /\ Luhn(Expand(s))
    BY <1>1, <1>3, IsinIssued
  <2> HIDE DEF s
  <2> QED  BY <1>1, <1>3, <2>1, <2>2 DEF Lettered, Numbered, Valid
<1> QED  BY <1>1, <1>2, <1>3

\* What is read for a code is the code, or differs from it in one digit.
Misreads(i, s, t) ==
  SameBut(i, s, t) /\ s[i] \in Digits /\ t[i] \in Digits /\ s[i] # t[i]

\* A code is read as it is or with one digit changed.
LEMMA ReadIs ==
  ASSUME NEW s \in Seq(Characters), NEW t \in Readings(s)
  PROVE  t \in Seq(Characters) /\ (t = s \/ \E i : Misreads(i, s, t))
<1>1. CASE t = s
  BY <1>1
<1>2. CASE \E i \in {j \in DOMAIN s : s[j] < 10}, d \in 0..9 : t = [s EXCEPT ![i] = d]
  <2>1. PICK i \in {j \in DOMAIN s : s[j] < 10}, d \in 0..9 : t = [s EXCEPT ![i] = d]
    BY <1>2
  <2>2. i \in 1..Len(s) /\ s[i] \in Characters
    BY <2>1, LenProperties, ElementOfSeq
  <2>3. s[i] \in Digits /\ d \in Digits /\ d \in Characters
    <3> DEFINE x == s[i]
    <3>1. x \in Characters /\ x < 10
      BY <2>1, <2>2
    <3> HIDE DEF x
    <3>2. x \in Digits
      BY <3>1 DEF Digits, Characters
    <3>3. d \in Digits /\ d \in Characters
      BY DEF Digits, Characters
    <3> QED  BY <3>2, <3>3 DEF x
  <2> DEFINE z == [s EXCEPT ![i] = d]
  <2>4. /\ z \in Seq(Characters) /\ Len(z) = Len(s)
        /\ \A j \in 1..Len(s) : z[j] = IF j = i THEN d ELSE s[j]
    BY <2>2, <2>3, ExceptSeq
  <2>5. t = z
    BY <2>1
  <2> HIDE DEF z
  <2>6. SameBut(i, s, t) /\ t[i] = d
    BY <2>2, <2>4, <2>5 DEF SameBut
  <2>7. CASE s[i] = d
    <3>1. Len(t) = Len(s) /\ \A j \in 1..Len(s) : t[j] = s[j]
      BY <2>4, <2>5, <2>7
    <3>2. t = s
      BY <2>4, <2>5, <3>1, SeqEqual
    <3> QED  BY <3>2
  <2>8. CASE s[i] # d
    BY <2>3, <2>4, <2>5, <2>6, <2>8 DEF Misreads
  <2> QED  BY <2>7, <2>8
<1> QED  BY <1>1, <1>2 DEF Readings

\* One digit of a valid code misread, and the code looks like one and is not valid.
LEMMA MisreadFails ==
  ASSUME NEW kind \in {"iban", "isin"}, NEW s \in Seq(Characters), NEW t \in Seq(Characters),
         Lettered(s), Numbered(kind, s), Valid(kind, s), NEW i, Misreads(i, s, t)
  PROVE  Looks(kind, t) /\ ~Valid(kind, t)
<1>1. /\ SameBut(i, s, t) /\ s[i] \in Digits /\ t[i] \in Digits /\ s[i] # t[i]
      /\ Len(s) \in Nat /\ Len(t) = Len(s) /\ i \in 1..Len(s)
      /\ \A k \in 1..Len(s) : k # i => t[k] = s[k]
  BY LenProperties DEF Misreads, SameBut
<1>2. i # 1 /\ i # 2
  BY <1>1 DEF Lettered
<1>3. Len(s) > 4
  BY <1>1 DEF Numbered
<1>4. t[1] = s[1] /\ t[2] = s[2]
  BY <1>1, <1>2, <1>3
<1>5. Letter(t[1]) /\ Letter(t[2])
  <2>1. \A a \in Characters \ Digits : Letter(a)
    BY DEF Letter, Characters, Digits
  <2> QED  BY <1>4, <2>1 DEF Lettered
<1>6. \A k \in 1..Len(s) : s[k] \in Digits => t[k] \in Digits
  BY <1>1
<1>7. \A d \in Digits : ~Letter(d)
  BY DEF Letter, Digits
<1>8. CASE kind = "iban"
  <2>1. s[3] \in Digits /\ s[4] \in Digits
    BY <1>8 DEF Numbered
  <2>2. t[3] \in Digits /\ t[4] \in Digits
    BY <1>1, <1>3, <1>6, <2>1
  <2>3. Looks(kind, t)
    BY <1>1, <1>3, <1>5, <1>7, <1>8, <2>2 DEF Looks, LooksLikeIban
  <2>4. Remainder(Expand(Rearranged(s))) = 1
    BY <1>8 DEF Valid, ValidIban, Rearranged
  <2>5. Remainder(Expand(Rearranged(s))) # Remainder(Expand(Rearranged(t)))
    BY <1>1, <1>3, WrongRemainder
  <2>6. ~ValidIban(t)
    BY <2>4, <2>5 DEF ValidIban, Rearranged
  <2> QED  BY <1>8, <2>3, <2>6 DEF Valid
<1>9. CASE kind = "isin"
  <2>1. Len(s) = 12 /\ s[12] \in Digits
    BY <1>9 DEF Numbered
  <2>2. t[12] \in Digits
    BY <1>6, <2>1
  <2>3. Looks(kind, t)
    BY <1>1, <1>5, <1>7, <1>9, <2>1, <2>2 DEF Looks, LooksLikeIsin
  <2>4. PICK p, q \in Seq(Digits) : Expand(s) = Amid(p, s[i], q) /\ Expand(t) = Amid(p, t[i], q)
    BY <1>1, ExpandChanged
  <2>5. Luhn(Amid(p, s[i], q))
    BY <1>9, <2>4 DEF Valid
  <2>6. ~Luhn(Amid(p, t[i], q))
    BY <1>1, <2>5, LuhnDiffers
  <2> QED  BY <1>9, <2>3, <2>4, <2>6 DEF Valid
<1> QED  BY <1>8, <1>9

\* What is read for a code fails exactly if it is no code of its kind.
LEMMA Judged ==
  ASSUME NEW c \in Codes, NEW t \in Readings(Issued(c))
  PROVE  ~(Looks(c.kind, t) /\ ~Valid(c.kind, t))
           <=> \E b \in Codes : b.kind = c.kind /\ t = Issued(b)
<1>1. /\ Issued(c) \in Seq(Characters) /\ Lettered(Issued(c)) /\ Numbered(c.kind, Issued(c))
      /\ Valid(c.kind, Issued(c)) /\ c.kind \in {"iban", "isin"}
  BY IssuedIs
<1>2. ASSUME NEW b \in Codes, b.kind = c.kind, t = Issued(b) PROVE Valid(c.kind, t)
  BY <1>2, IssuedIs
<1>3. CASE t = Issued(c)
  BY <1>1, <1>3
<1>4. CASE t # Issued(c)
  <2>1. t \in Seq(Characters) /\ \E i : Misreads(i, Issued(c), t)
    BY <1>1, <1>4, ReadIs
  <2>2. Looks(c.kind, t) /\ ~Valid(c.kind, t)
    BY <1>1, <2>1, MisreadFails
  <2> QED  BY <1>2, <2>2
<1> QED  BY <1>3, <1>4

\* An IBAN and an ISIN pass their checks exactly as issued, and fail them with
\* one digit misread (_is_valid_iban, _is_valid_isin).
THEOREM CodesJudged == RunSpec => []CodesAreJudged
<1>1. RunInv => CodesAreJudged
  <2> SUFFICES ASSUME RunInv, Done, out.field.kind \in {"iban", "isin"} PROVE CodesAreJudged
    BY DEF CodesAreJudged
  <2> DEFINE f == out.field
             own == [iban |-> "validate_iban", isin |-> "validate_isin"]
  <2>1. PICK c \in Codes : \E chars \in Readings(Issued(c)) : f = Field(c.kind, chars, "pattern")
    BY DEF RunInv, OutputInv, CodeRead
  <2>2. PICK chars \in Readings(Issued(c)) : f = Field(c.kind, chars, "pattern")
    BY <2>1
  <2>3. f.kind = c.kind /\ f.chars = chars
    BY <2>2 DEF Field
  <2>4. next = 13
    BY OrderIs DEF Done
  <2>5. 2 \in 1..(next - 1) /\ 3 \in 1..(next - 1) /\ next # 0
        /\ Order[2] = "validate_iban" /\ Order[3] = "validate_isin"
    BY <2>4 DEF Order
  <2>6. ASSUME NEW v \in {"validate_iban", "validate_isin"}
        PROVE  <<v, 0>> \in failures <=> FieldIsWrong(v)
    <3>1. /\ <<v, 0>> \in Failures(v, Tolerance) => <<v, 0>> \in failures
          /\ <<v, 0>> \in failures => <<v, 0>> \in Failures(v, Rounded)
      BY <2>5, Reported DEF RunInv
    <3>2. \A t : <<v, 0>> \in Failures(v, t) <=> FieldIsWrong(v)
      BY DEF Failures, FieldChecks
    <3> QED  BY <3>1, <3>2
  <2>7. <<own[f.kind], 0>> \in failures <=> Looks(c.kind, chars) /\ ~Valid(c.kind, chars)
    <3>1. CASE c.kind = "iban"
      <4>1. FieldIsWrong("validate_iban") <=> LooksLikeIban(chars) /\ ~ValidIban(chars)
        BY <2>3 DEF FieldIsWrong
      <4> QED  BY <2>3, <2>6, <3>1, <4>1 DEF Looks, Valid
    <3>2. CASE c.kind = "isin"
      <4>1. FieldIsWrong("validate_isin") <=> LooksLikeIsin(chars) /\ ~Luhn(Expand(chars))
        BY <2>3 DEF FieldIsWrong
      <4> QED  BY <2>3, <2>6, <3>2, <4>1 DEF Looks, Valid
    <3> QED  BY <2>3, <3>1, <3>2
  <2>8. ~(Looks(c.kind, chars) /\ ~Valid(c.kind, chars))
          <=> \E b \in Codes : b.kind = c.kind /\ chars = Issued(b)
    BY Judged
  <2> QED  BY <2>3, <2>7, <2>8 DEF CodesAreJudged
<1> QED  BY <1>1, RunInitInv, RunStepInv, PTL DEF RunSpec
=============================================================================
