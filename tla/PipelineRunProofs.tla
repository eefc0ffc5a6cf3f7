-------------------------- MODULE PipelineRunProofs --------------------------
(***************************************************************************)
(* Theorems about PipelineRun, for any names, pages, sections and limits.  *)
(***************************************************************************)
EXTENDS PipelineRun, FiniteSetTheorems, TLAPS

-----------------------------------------------------------------------------
(***************************************************************************)
(* Type correctness.                                                       *)
(***************************************************************************)

\* What the router returns is an extraction.
LEMMA RoutedType == Routed \subseteq Extractions
BY DEF Routed, BySchema, ByDiscovery, NoSchema, Extractions

\* Replacing one entry of a sequence keeps its type and length.
LEMMA ReplaceOne ==
  ASSUME NEW S, NEW q \in Seq(S), NEW i \in 1..Len(q), NEW x \in S
  PROVE  /\ [q EXCEPT ![i] = x] \in Seq(S)
         /\ Len([q EXCEPT ![i] = x]) = Len(q)
         /\ [q EXCEPT ![i] = x][i] = x
         /\ \A j \in 1..Len(q) : j # i => [q EXCEPT ![i] = x][j] = q[j]
OBVIOUS

\* The entries section_data starts with.
LEMMA EntryType ==
  ASSUME NEW e \in Extractions,
         NEW t \in {"none", "rules", "text", "llm", "vlm"},
         NEW g \in {"none", "table", "schema"}, NEW b \in BOOLEAN
  PROVE  Entry(e, t, g, b) \in Entries
BY DEF Entry, Extractions, Entries, AllFields, Origins

\* The names an entry may have lost.
Lost(x) == IF x.spent THEN Header ELSE {}

\* The fallback's answer for a section is an entry that keeps every name but
\* those it lost.
LEMMA AnswerKeeps ==
  ASSUME TypeOK, NamesAssumption, NEW s \in Sections,
         NEW resolved \in SUBSET Asked(s), NEW extra \in SUBSET Metadata,
         NEW accounts \in {"none", "bare", "rows", "tables"},
         NEW nulls \in SUBSET (MayBeNull(s) \ resolved)
  PROVE  LET a == Answered(s, resolved, nulls, extra, accounts) IN
         /\ a \in Entries
         /\ sec[s].fields \cup sec[s].abst \subseteq a.fields \cup a.abst \cup Lost(a)
         /\ Lost(sec[s]) \subseteq Lost(a)
         /\ a.escalated = sec[s].escalated
         /\ \/ a.tables = sec[s].tables
            \/ sec[s].tables = "none" /\ a.tables = "vlm" /\ a.rows
<1>1. sec[s] \in Entries
  BY DEF TypeOK, Sections
<1>2. Asked(s) \subseteq Names /\ sec[s].abst \subseteq Asked(s)
  BY <1>1, NamesAssumption DEF Asked, Entries
<1> DEFINE new == resolved \cup extra \cup (IF accounts = "none" THEN {} ELSE {"accounts"})
           a == Answered(s, resolved, nulls, extra, accounts)
<1>3. /\ a.fields = sec[s].fields \cup new
      /\ a.abst = Asked(s) \ (resolved \cup nulls)
      /\ a.spent = (sec[s].spent \/ nulls # {})
      /\ a.tables = IF sec[s].tables = "none" /\ accounts = "tables" THEN "vlm" ELSE sec[s].tables
      /\ a.escalated = sec[s].escalated
  BY <1>1 DEF Answered, Entries, Origins
<1>4. a.tables # sec[s].tables => a.rows
  BY <1>1 DEF Answered, Entries
<1>5. new \subseteq AllFields
  BY <1>2, NamesAssumption DEF AllFields
<1>6. a \in Entries
  BY <1>1, <1>2, <1>5 DEF Answered, Entries, Origins
<1>7. nulls \subseteq Lost(a) /\ Lost(sec[s]) \subseteq Lost(a)
  BY <1>3 DEF MayBeNull, Lost
<1> HIDE DEF a
<1>8. sec[s].fields \cup sec[s].abst \subseteq a.fields \cup a.abst \cup Lost(a)
  BY <1>2, <1>3, <1>7
<1> QED
  BY <1>3, <1>4, <1>6, <1>7, <1>8 DEF a

\* The rules' step adds one extraction and its entry.
LEMMA ExtractStep ==
  ASSUME TypeOK, ExtractSection
  PROVE  \E e \in Found, x \in Entries :
           /\ found' = Append(found, e) /\ sec' = Append(sec, x)
           /\ Len(found) < MaxSections
           /\ e.fields = x.fields /\ e.abst = x.abst
           /\ ~x.escalated /\ ~x.rows
           /\ x.tables \in {"none", "rules", "text"}
           /\ e.tables = "rules" => x.tables = "rules"
           /\ pc' \in {"rules", "escalating"}
           /\ pc' = "escalating" => e.tables = "text" /\ x.tables = "none"
<1>1. PICK e \in Routed :
        \/ /\ found' = Append(found, e)
           /\ sec' = Append(sec, Entry(e, e.tables, e.gap, FALSE))
           /\ pc' = pc
        \/ /\ e.tables = "none" /\ e.gap = "table"
           /\ found' = Append(found, [e EXCEPT !.tables = "text"])
           /\ \/ /\ sec' = Append(sec, Entry(e, "text", "none", FALSE))
                 /\ pc' = pc
              \/ /\ tenant.vlm
                 /\ sec' = Append(sec, Entry(e, "none", "none", FALSE))
                 /\ pc' = "escalating"
  BY DEF ExtractSection
<1>2. e \in Extractions
  BY <1>1, RoutedType
<1>3. pc = "rules" /\ Len(found) < MaxSections
  BY DEF ExtractSection, SectionLeft
<1> DEFINE texts == [e EXCEPT !.tables = "text"]
<1>4. CASE /\ found' = Append(found, e)
           /\ sec' = Append(sec, Entry(e, e.tables, e.gap, FALSE))
           /\ pc' = pc
  <2>1. e \in Found /\ e.tables \in {"none", "rules"}
    BY <1>2 DEF Extractions, Found
  <2>2. Entry(e, e.tables, e.gap, FALSE) \in Entries
    BY <1>2, <2>1, EntryType DEF Extractions
  <2> QED
    BY <1>3, <1>4, <2>1, <2>2 DEF Entry
<1>5. CASE /\ found' = Append(found, texts)
           /\ \/ /\ sec' = Append(sec, Entry(e, "text", "none", FALSE))
                 /\ pc' = pc
              \/ /\ sec' = Append(sec, Entry(e, "none", "none", FALSE))
                 /\ pc' = "escalating"
  <2>1. texts \in Found /\ texts.tables = "text" /\ texts.fields = e.fields /\ texts.abst = e.abst
    BY <1>2 DEF Extractions, Found
  <2>2. Entry(e, "text", "none", FALSE) \in Entries /\ Entry(e, "none", "none", FALSE) \in Entries
    BY <1>2, EntryType
  <2>3. CASE sec' = Append(sec, Entry(e, "text", "none", FALSE)) /\ pc' = pc
    BY <1>3, <1>5, <2>1, <2>2, <2>3 DEF Entry
  <2>4. CASE sec' = Append(sec, Entry(e, "none", "none", FALSE)) /\ pc' = "escalating"
    BY <1>3, <1>5, <2>1, <2>2, <2>4 DEF Entry
  <2> QED
    BY <1>5, <2>3, <2>4
<1> QED
  BY <1>1, <1>4, <1>5

\* A step of a section's task or of an escalation replaces one entry.
LEMMA SectionStep ==
  ASSUME TypeOK, NamesAssumption,
         \/ EscalationAnswers \/ EscalationRaises
         \/ \E s \in Sections : SectionStart(s) \/ SectionAnswers(s)
  PROVE  \E s \in Sections, x \in Entries :
           /\ sec' = [sec EXCEPT ![s] = x] /\ found' = found
           /\ sec[s].fields \cup sec[s].abst \subseteq x.fields \cup x.abst \cup Lost(x)
           /\ Lost(sec[s]) \subseteq Lost(x)
           /\ \/ /\ EscalationAnswers
                 /\ s = Last /\ x.tables = "llm" /\ x.escalated
              \/ /\ EscalationRaises
                 /\ s = Last /\ x.tables = found[s].tables /\ x.escalated = sec[s].escalated
              \/ /\ SectionStart(s)
                 /\ x.tables = sec[s].tables /\ x.escalated = sec[s].escalated
                 /\ x.rows = sec[s].rows
              \/ /\ SectionAnswers(s)
                 /\ x.escalated = sec[s].escalated
                 /\ \/ x.tables = sec[s].tables
                    \/ sec[s].tables = "none" /\ x.tables = "vlm" /\ x.rows
<1>1. \A s \in Sections : sec[s] \in Entries /\ found[s] \in Found
  BY DEF TypeOK, Sections
<1>2. CASE EscalationAnswers
  <2>1. Last \in Sections
    BY <1>2 DEF EscalationAnswers, TypeOK, Last, Sections
  <2> DEFINE x == [sec[Last] EXCEPT !.tables = "llm", !.escalated = TRUE]
  <2>2. x \in Entries /\ x.fields = sec[Last].fields /\ x.abst = sec[Last].abst
        /\ Lost(x) = Lost(sec[Last])
        /\ x.tables = "llm" /\ x.escalated
    BY <1>1, <2>1 DEF Entries, Origins, Lost
  <2>3. sec' = [sec EXCEPT ![Last] = x] /\ found' = found
    BY <1>2, <2>1, <1>1 DEF EscalationAnswers, TypeOK, Sections, Entries
  <2> QED
    BY <1>2, <2>1, <2>2, <2>3
<1>3. CASE EscalationRaises
  <2>1. Last \in Sections
    BY <1>3 DEF EscalationRaises, TypeOK, Last, Sections
  <2> DEFINE x == [sec[Last] EXCEPT !.tables = found[Last].tables]
  <2>2. x \in Entries /\ x.fields = sec[Last].fields /\ x.abst = sec[Last].abst
        /\ Lost(x) = Lost(sec[Last])
        /\ x.tables = found[Last].tables /\ x.escalated = sec[Last].escalated
    BY <1>1, <2>1 DEF Entries, Origins, Found, Lost
  <2>3. sec' = [sec EXCEPT ![Last] = x] /\ found' = found
    BY <1>3, <2>1, <1>1 DEF EscalationRaises, TypeOK, Sections, Entries
  <2> QED
    BY <1>3, <2>1, <2>2, <2>3
<1>4. ASSUME NEW s \in Sections, SectionStart(s)
      PROVE  \E x \in Entries :
               /\ sec' = [sec EXCEPT ![s] = x] /\ found' = found
               /\ x.fields = sec[s].fields /\ x.abst = sec[s].abst /\ Lost(x) = Lost(sec[s])
               /\ x.tables = sec[s].tables /\ x.escalated = sec[s].escalated
               /\ x.rows = sec[s].rows
  <2>1. CASE sec[s].fields = {}
    <3> DEFINE x == [sec[s] EXCEPT !.schema = "unknown"]
    <3>1. x \in Entries /\ x.fields = sec[s].fields /\ x.abst = sec[s].abst
          /\ x.tables = sec[s].tables /\ x.escalated = sec[s].escalated /\ x.rows = sec[s].rows
          /\ Lost(x) = Lost(sec[s])
      BY <1>1 DEF Entries, Origins, Lost
    <3>2. sec' = [sec EXCEPT ![s] = x] /\ found' = found
      BY <1>1, <1>4, <2>1 DEF SectionStart, TypeOK, Sections, Entries
    <3> QED
      BY <3>1, <3>2
  <2>2. CASE sec[s].fields # {}
    <3>1. sec \in Seq(Entries) /\ s \in 1..Len(sec)
      BY DEF TypeOK, Sections
    <3>2. sec = [i \in DOMAIN sec |-> sec[i]] /\ [sec EXCEPT ![s] = sec[s]] = sec
      BY <3>1
    <3>3. sec' = [sec EXCEPT ![s] = sec[s]] /\ found' = found
      BY <1>4, <2>2, <3>2 DEF SectionStart
    <3> QED
      BY <1>1, <3>3
  <2> QED
    BY <2>1, <2>2
<1>5. ASSUME NEW s \in Sections, SectionAnswers(s)
      PROVE  \E x \in Entries :
               /\ sec' = [sec EXCEPT ![s] = x] /\ found' = found
               /\ sec[s].fields \cup sec[s].abst \subseteq x.fields \cup x.abst \cup Lost(x)
               /\ Lost(sec[s]) \subseteq Lost(x)
               /\ x.escalated = sec[s].escalated
               /\ \/ x.tables = sec[s].tables
                  \/ sec[s].tables = "none" /\ x.tables = "vlm" /\ x.rows
  <2>1. PICK resolved \in SUBSET Asked(s), extra \in SUBSET Metadata,
             accounts \in {"none", "bare", "rows", "tables"} :
               \E nulls \in SUBSET (MayBeNull(s) \ resolved) :
                  sec' = [sec EXCEPT ![s] = Answered(s, resolved, nulls, extra, accounts)]
    BY <1>5 DEF SectionAnswers
  <2>0. PICK nulls \in SUBSET (MayBeNull(s) \ resolved) :
               sec' = [sec EXCEPT ![s] = Answered(s, resolved, nulls, extra, accounts)]
    BY <2>1
  <2>2. found' = found
    BY <1>5 DEF SectionAnswers
  <2> DEFINE a == Answered(s, resolved, nulls, extra, accounts)
  <2>3. /\ a \in Entries
        /\ sec[s].fields \cup sec[s].abst \subseteq a.fields \cup a.abst \cup Lost(a)
        /\ Lost(sec[s]) \subseteq Lost(a)
        /\ a.escalated = sec[s].escalated
        /\ \/ a.tables = sec[s].tables
           \/ sec[s].tables = "none" /\ a.tables = "vlm" /\ a.rows
    BY AnswerKeeps
  <2> HIDE DEF a
  <2> QED
    BY <2>0, <2>2, <2>3 DEF a
<1>6. ASSUME NEW s \in Sections, SectionStart(s) \/ SectionAnswers(s)
      PROVE  \E x \in Entries :
               /\ sec' = [sec EXCEPT ![s] = x] /\ found' = found
               /\ sec[s].fields \cup sec[s].abst \subseteq x.fields \cup x.abst \cup Lost(x)
               /\ Lost(sec[s]) \subseteq Lost(x)
               /\ \/ /\ SectionStart(s)
                     /\ x.tables = sec[s].tables /\ x.escalated = sec[s].escalated
                     /\ x.rows = sec[s].rows
                  \/ /\ SectionAnswers(s)
                     /\ x.escalated = sec[s].escalated
                     /\ \/ x.tables = sec[s].tables
                        \/ sec[s].tables = "none" /\ x.tables = "vlm" /\ x.rows
  <2>1. CASE SectionStart(s)
    BY <1>4, <2>1
  <2>2. CASE SectionAnswers(s)
    BY <1>5, <2>2
  <2> QED
    BY <1>6, <2>1, <2>2
<1> QED
  BY <1>2, <1>3, <1>6

\* The merged, retried and packaged outputs keep the output's type.
LEMMA OutputStep ==
  ASSUME TypeOK, BoundsAssumption, Merge \/ Retry \/ Package
  PROVE  out' \in Outputs
<1>1. out \in Outputs
  BY DEF TypeOK
<1>2. CASE Merge
  <2>1. ASSUME NEW s \in Sections PROVE sec[s].fields \subseteq AllFields
    <3>1. sec[s] \in Entries
      BY DEF TypeOK, Sections
    <3> QED
      BY <3>1 DEF Entries
  <2>2. MergedFields \subseteq AllFields
    BY <2>1 DEF MergedFields
  <2>3. Sections \subseteq 0..MaxSections
    BY BoundsAssumption DEF TypeOK, Sections
  <2>4. MergedAbstentions \subseteq (0..MaxSections) \X Names
    BY <2>3 DEF MergedAbstentions
  <2>5. MergedRows \in BOOLEAN
    BY DEF MergedRows
  <2>6. MergedTables \subseteq (1..MaxSections) \X Origins
    <3>1. Sections \subseteq 1..MaxSections
      BY BoundsAssumption DEF TypeOK, Sections
    <3> QED
      BY <3>1 DEF MergedTables
  <2> QED
    BY <1>1, <1>2, <2>2, <2>4, <2>5, <2>6 DEF Merge, Outputs
<1>3. CASE Retry
  <2>1. CASE out' = out
    BY <1>1, <2>1
  <2>2. ASSUME NEW fields \in SUBSET Names,
               out' = [out EXCEPT !.fields = fields, !.rows = FALSE,
                         !.abst = {0} \X (Names \ fields),
                         !.schema = "known", !.retried = TRUE]
        PROVE  out' \in Outputs
    <3>1. fields \subseteq AllFields /\ {0} \X (Names \ fields) \subseteq (0..MaxSections) \X Names
      BY BoundsAssumption DEF AllFields
    <3> QED
      BY <1>1, <2>2, <3>1 DEF Outputs
  <2> QED
    BY <1>3, <2>1, <2>2 DEF Retry
<1>4. CASE Package
  <2>1. Status(out) \in {"none", "failed", "partial", "complete"}
    BY DEF Status
  <2>2. (\E s \in Sections : sec[s].escalated) \in BOOLEAN
    OBVIOUS
  <2> QED
    BY <1>1, <1>4, <2>1, <2>2 DEF Package, Outputs
<1> QED
  BY <1>2, <1>3, <1>4

\* The pages keep their states.
LEMMA PageStep ==
  ASSUME TypeOK, FirstPass \/ \E p \in DOMAIN page : OcrStart(p) \/ OcrEnd(p) \/ OcrRaises(p)
  PROVE  \E n \in 0..MaxPages : page' \in [1..n -> {"read", "waiting", "ocr", "failed"}]
<1>1. CASE FirstPass
  <2>1. PICK n \in 0..MaxPages : \E kind \in [1..n -> {"read", "waiting"}] : page' = kind
    BY <1>1 DEF FirstPass
  <2>2. page' \in [1..n -> {"read", "waiting", "ocr", "failed"}]
    BY <2>1
  <2> QED
    BY <2>2
<1>2. CASE \E p \in DOMAIN page : OcrStart(p) \/ OcrEnd(p) \/ OcrRaises(p)
  <2>1. PICK p \in DOMAIN page : OcrStart(p) \/ OcrEnd(p) \/ OcrRaises(p)
    BY <1>2
  <2>2. PICK n \in 0..MaxPages : page \in [1..n -> {"read", "waiting", "ocr", "failed"}]
    BY DEF TypeOK
  <2>3. page' \in [1..n -> {"read", "waiting", "ocr", "failed"}]
    BY <2>1, <2>2 DEF OcrStart, OcrEnd, OcrRaises
  <2> QED
    BY <2>3
<1> QED
  BY <1>1, <1>2

\* Every step keeps the types.
LEMMA TypeStep ==
  ASSUME TypeOK, NamesAssumption, BoundsAssumption, Next
  PROVE  TypeOK'
<1> USE DEF Before, Merged, Ends
<1>1. CASE \/ Ingest \/ FirstPassRaises \/ Segment \/ RoutingRaises \/ EscalationEmpty
           \/ Diagnose \/ RetryRaises \/ ValidationRaises
  BY <1>1 DEF TypeOK, Sections, Ingest, FirstPassRaises, Segment, RoutingRaises, EscalationEmpty,
              Diagnose, RetryRaises, ValidationRaises
<1>2. CASE FirstPass \/ \E p \in DOMAIN page : OcrStart(p) \/ OcrEnd(p) \/ OcrRaises(p)
  <2>1. /\ pc' \in {"extracting", "error"} /\ tenant' = tenant /\ found' = found /\ sec' = sec
        /\ task' = task /\ out' = out
    BY <1>2 DEF FirstPass, OcrStart, OcrEnd, OcrRaises
  <2> QED
    BY <1>2, <2>1, PageStep DEF TypeOK, Sections
<1>3. CASE ExtractSection
  <2>1. PICK e \in Found, x \in Entries :
          found' = Append(found, e) /\ sec' = Append(sec, x) /\ Len(found) < MaxSections
    BY <1>3, ExtractStep
  <2>2. pc' \in {"rules", "escalating"}
    BY <1>3, ExtractStep
  <2>3. tenant' = tenant /\ page' = page /\ out' = out
    BY <1>3 DEF ExtractSection
  <2>4. Len(found) \in Nat /\ Len(sec) = Len(found) /\ MaxSections \in Nat
    BY BoundsAssumption DEF TypeOK
  <2>5. found \in Seq(Found) /\ sec \in Seq(Entries)
    BY DEF TypeOK
  <2>6. /\ found' \in Seq(Found) /\ sec' \in Seq(Entries)
        /\ Len(found') = Len(found) + 1 /\ Len(sec') = Len(found) + 1
    BY <2>1, <2>4, <2>5
  <2>7. Len(found') <= MaxSections /\ Len(sec') = Len(found') /\ Len(found') > 0
    BY <2>1, <2>4, <2>6
  <2> QED
    BY <2>2, <2>3, <2>6, <2>7 DEF TypeOK
<1>4. CASE \/ EscalationAnswers \/ EscalationRaises
           \/ \E s \in Sections : SectionStart(s) \/ SectionAnswers(s)
  <2>1. PICK s \in Sections, x \in Entries : sec' = [sec EXCEPT ![s] = x] /\ found' = found
    BY <1>4, SectionStep
  <2>2. sec' \in Seq(Entries) /\ Len(sec') = Len(sec)
    BY <2>1, ReplaceOne DEF TypeOK, Sections
  <2>3. /\ pc' \in {"rules", "vlm"} /\ tenant' = tenant /\ page' = page /\ out' = out
        /\ pc' = "vlm" => task' \in [Sections -> {"waiting", "calling", "ended"}]
    BY <1>4 DEF EscalationAnswers, EscalationRaises, SectionStart, SectionAnswers, TypeOK
  <2> QED
    BY <2>1, <2>2, <2>3 DEF TypeOK, Sections
<1>5. CASE StartFallback
  BY <1>5 DEF StartFallback, TypeOK, Sections
<1>6. CASE \E s \in Sections : SectionRaises(s)
  BY <1>6 DEF SectionRaises, TypeOK, Sections
<1>7. CASE Merge \/ Retry \/ Package
  <2>1. out' \in Outputs
    BY <1>7, OutputStep
  <2>2. /\ pc' \in {"diagnosing", "validating", "complete"}
        /\ UNCHANGED <<tenant, page, found, sec, task>>
    BY <1>7 DEF Merge, Retry, Package
  <2> QED
    BY <2>1, <2>2 DEF TypeOK, Sections
<1> QED
  BY <1>1, <1>2, <1>3, <1>4, <1>5, <1>6, <1>7 DEF Next

\* process_document keeps the shape of everything it passes on.
THEOREM TypeCorrect == Spec => []TypeOK
<1>1. Init => TypeOK
  BY BoundsAssumption DEF Init, TypeOK, NoOutput, Outputs, Sections, AllFields, Before, Merged, Ends
<1>2. TypeOK /\ [Next]_vars => TypeOK'
  <2>1. ASSUME TypeOK, Next PROVE TypeOK'
    BY <2>1, TypeStep, NamesAssumption, BoundsAssumption
  <2>2. ASSUME TypeOK, UNCHANGED vars PROVE TypeOK'
    BY <2>2 DEF vars, TypeOK, Sections
  <2> QED
    BY <2>1, <2>2
<1> QED
  BY <1>1, <1>2, PTL DEF Spec

-----------------------------------------------------------------------------
(***************************************************************************)
(* What becomes of names and tables. FieldsAccountedFor speaks of a run    *)
(* that is complete; it is inductive with what holds of the sections       *)
(* before the merge (Kept) and of the output from the merge on             *)
(* (AccountedFor). TablesAreTraceable needs where the fallback stands.     *)
(***************************************************************************)

\* No section loses a name its extractor answered for, but with its budget.
Kept == \A s \in Sections : Named(s) \subseteq sec[s].fields \cup sec[s].abst \cup Lost(sec[s])

\* From the merge on, the output answers for all of them.
AccountedFor ==
  pc \in Merged /\ ~out.retried =>
    \A s \in Sections : \A n \in Named(s) :
      /\ ~(n \in out.fields /\ Abstained(n))
      /\ \/ n \in out.fields \/ Abstained(n)
         \/ n \in Custody /\ out.rows
         \/ n \in Header /\ sec[s].spent

\* The tables of an entry come from where its section_result says, and the
\* fallback fills in a section's tables at most once.
Traced(s) ==
  /\ found[s].tables = "rules" => sec[s].tables = "rules"
  /\ sec[s].tables = "llm" <=> sec[s].escalated
  /\ sec[s].tables = "llm" => found[s].tables = "text"
  /\ sec[s].tables = "vlm" =>
       /\ sec[s].rows /\ found[s].tables # "rules"
       /\ pc \notin Before
       /\ pc = "vlm" => task[s] = "ended"

SafetyInv ==
  /\ Kept
  /\ AccountedFor
  /\ \A s \in Sections : Traced(s)
  /\ pc = "escalating" =>
       found[Last].tables = "text" /\ sec[Last].tables = "none" /\ ~sec[Last].escalated
  /\ pending \subseteq {s \in Sections : sec[s].escalated}
  /\ pc \in Merged => out.tables = MergedTables
  /\ pc = "complete" => (out.escalated <=> \E s \in Sections : sec[s].tables = "llm")

\* The rules' step adds a section that keeps its names and whose tables can
\* be traced; the others stay as they are.
LEMMA SafeExtract ==
  ASSUME TypeOK, SafetyInv, ExtractSection
  PROVE  SafetyInv'
<1>1. PICK e \in Found, x \in Entries :
           /\ found' = Append(found, e) /\ sec' = Append(sec, x)
           /\ Len(found) < MaxSections
           /\ e.fields = x.fields /\ e.abst = x.abst
           /\ ~x.escalated /\ ~x.rows
           /\ x.tables \in {"none", "rules", "text"}
           /\ e.tables = "rules" => x.tables = "rules"
           /\ pc' \in {"rules", "escalating"}
           /\ pc' = "escalating" => e.tables = "text" /\ x.tables = "none"
  BY ExtractStep
<1>2. /\ found \in Seq(Found) /\ sec \in Seq(Entries) /\ Len(sec) = Len(found)
      /\ Len(found) \in Nat
  BY DEF TypeOK
<1> DEFINE k == Len(found) + 1
<1>3. /\ Sections' = 1..k /\ Sections = 1..(k - 1) /\ k \in Nat \ {0}
      /\ found'[k] = e /\ sec'[k] = x
      /\ \A s \in Sections : s # k /\ found'[s] = found[s] /\ sec'[s] = sec[s]
  BY <1>1, <1>2 DEF Sections
<1>4. /\ pending' = pending /\ pc = "rules" /\ Last' = k
  BY <1>2, <1>1 DEF ExtractSection, Last
<1>5. \A s \in Sections' : s = k \/ s \in Sections
  BY <1>2, <1>3
<1>6. Kept'
  <2>1. ASSUME NEW s \in Sections' PROVE (Named(s) \subseteq sec[s].fields \cup sec[s].abst \cup Lost(sec[s]))'
    BY <1>1, <1>3, <1>5 DEF Named, SafetyInv, Kept
  <2> QED
    BY <2>1 DEF Kept
<1>7. \A s \in Sections' : Traced(s)'
  <2>1. ASSUME NEW s \in Sections' PROVE Traced(s)'
    <3>1. CASE s = k
      BY <1>1, <1>3, <3>1 DEF Traced
    <3>2. CASE s \in Sections
      <4>1. Traced(s) /\ found'[s] = found[s] /\ sec'[s] = sec[s]
        BY <1>3, <3>2 DEF SafetyInv
      <4>2. sec[s].tables # "vlm"
        BY <1>4, <4>1 DEF Traced, Before
      <4> QED
        BY <4>1, <4>2 DEF Traced
    <3> QED
      BY <1>5, <3>1, <3>2
  <2> QED
    BY <2>1
<1>8. pending' \subseteq {s \in Sections' : sec'[s].escalated}
  BY <1>3, <1>4, <1>5, <1>2 DEF SafetyInv, Sections
<1> QED
  BY <1>1, <1>3, <1>4, <1>6, <1>7, <1>8 DEF SafetyInv, AccountedFor, Merged

\* A step of the fallback or of an escalation changes one entry for a good
\* one.
LEMMA SafeSection ==
  ASSUME TypeOK, SafetyInv, NamesAssumption,
         \/ EscalationAnswers \/ EscalationRaises
         \/ \E s \in Sections : SectionStart(s) \/ SectionAnswers(s)
  PROVE  SafetyInv'
<1>1. PICK s \in Sections, x \in Entries :
           /\ sec' = [sec EXCEPT ![s] = x] /\ found' = found
           /\ sec[s].fields \cup sec[s].abst \subseteq x.fields \cup x.abst \cup Lost(x)
           /\ Lost(sec[s]) \subseteq Lost(x)
           /\ \/ /\ EscalationAnswers
                 /\ s = Last /\ x.tables = "llm" /\ x.escalated
              \/ /\ EscalationRaises
                 /\ s = Last /\ x.tables = found[s].tables /\ x.escalated = sec[s].escalated
              \/ /\ SectionStart(s)
                 /\ x.tables = sec[s].tables /\ x.escalated = sec[s].escalated
                 /\ x.rows = sec[s].rows
              \/ /\ SectionAnswers(s)
                 /\ x.escalated = sec[s].escalated
                 /\ \/ x.tables = sec[s].tables
                    \/ sec[s].tables = "none" /\ x.tables = "vlm" /\ x.rows
  BY SectionStep
<1>2. /\ sec'[s] = x /\ Sections' = Sections
      /\ \A r \in Sections : r # s => sec'[r] = sec[r]
  BY <1>1 DEF TypeOK, Sections
<1>3. pc' \in {"rules", "vlm"} /\ pc \in {"escalating", "vlm"}
  BY <1>1 DEF EscalationAnswers, EscalationRaises, SectionStart, SectionAnswers
<1>4. Kept'
  BY <1>1, <1>2 DEF SafetyInv, Kept, Named
<1>5. ASSUME NEW r \in Sections PROVE Traced(r)'
  <2>1. Traced(r) /\ found' = found
    BY <1>1 DEF SafetyInv
  <2>2. CASE EscalationAnswers \/ EscalationRaises
    <3>1. /\ pc = "escalating" /\ pc' = "rules"
          /\ found[Last].tables = "text" /\ sec[Last].tables = "none" /\ ~sec[Last].escalated
      BY <2>2 DEF EscalationAnswers, EscalationRaises, SafetyInv
    <3>2. sec[r].tables # "vlm"
      BY <2>1, <3>1 DEF Traced, Before
    <3>3. CASE r # s
      BY <1>2, <2>1, <3>2, <3>3 DEF Traced
    <3>4. CASE r = s
      <4>1. \/ s = Last /\ x.tables = "llm" /\ x.escalated
            \/ s = Last /\ x.tables = found[s].tables /\ x.escalated = sec[s].escalated
        BY <1>1, <2>2, <3>1 DEF SectionStart, SectionAnswers
      <4> QED
        BY <1>2, <2>1, <3>1, <3>4, <4>1 DEF Traced
    <3> QED
      BY <3>3, <3>4
  <2>3. CASE SectionStart(s)
    <3>1. /\ x.tables = sec[s].tables /\ x.escalated = sec[s].escalated /\ x.rows = sec[s].rows
          /\ pc = "vlm" /\ pc' = "vlm" /\ task[s] = "waiting" /\ task' = [task EXCEPT ![s] = "calling"]
      BY <1>1, <2>3 DEF SectionStart, SectionAnswers, EscalationAnswers, EscalationRaises
    <3>2. CASE r # s
      <4>1. sec'[r] = sec[r] /\ task'[r] = task[r]
        BY <1>2, <3>1, <3>2 DEF TypeOK
      <4> QED
        BY <2>1, <3>1, <4>1 DEF Traced, Before
    <3>3. CASE r = s
      <4>1. sec[r].tables # "vlm"
        BY <2>1, <3>1, <3>3 DEF Traced
      <4> QED
        BY <1>2, <2>1, <3>1, <3>3, <4>1 DEF Traced
    <3> QED
      BY <3>2, <3>3
  <2>4. CASE SectionAnswers(s)
    <3>1. /\ x.escalated = sec[s].escalated
          /\ \/ x.tables = sec[s].tables
             \/ sec[s].tables = "none" /\ x.tables = "vlm" /\ x.rows
          /\ pc = "vlm" /\ pc' = "vlm" /\ task[s] = "calling" /\ task' = [task EXCEPT ![s] = "ended"]
      BY <1>1, <2>4 DEF SectionStart, SectionAnswers, EscalationAnswers, EscalationRaises
    <3>2. CASE r # s
      <4>1. sec'[r] = sec[r] /\ task'[r] = task[r]
        BY <1>2, <3>1, <3>2 DEF TypeOK
      <4> QED
        BY <2>1, <3>1, <4>1 DEF Traced, Before
    <3>3. CASE r = s
      <4>1. sec[r].tables # "vlm" /\ task'[r] = "ended"
        BY <2>1, <3>1, <3>3 DEF Traced, TypeOK
      <4> QED
        BY <1>2, <2>1, <3>1, <3>3, <4>1 DEF Traced, Before
    <3> QED
      BY <3>2, <3>3
  <2> QED
    BY <1>1, <2>2, <2>3, <2>4
<1>6. pending' \subseteq {r \in Sections' : sec'[r].escalated}
  <2>1. \A r \in Sections : sec[r].escalated => sec'[r].escalated
    BY <1>1, <1>2 DEF SafetyInv, EscalationRaises, EscalationAnswers
  <2>2. pending' = pending \/ (EscalationAnswers /\ s = Last /\ x.escalated)
    BY <1>1 DEF EscalationRaises, SectionStart, SectionAnswers
  <2>3. EscalationAnswers => pending' \subseteq pending \cup {Last}
    BY DEF EscalationAnswers
  <2> QED
    BY <1>1, <1>2, <2>1, <2>2, <2>3 DEF SafetyInv
<1> QED
  BY <1>2, <1>3, <1>4, <1>5, <1>6 DEF SafetyInv, AccountedFor, Merged

\* The merge answers for every name a section still has.
LEMMA SafeMerge ==
  ASSUME TypeOK, SafetyInv, Merge
  PROVE  SafetyInv'
<1>1. /\ pc = "vlm" /\ pc' \in {"diagnosing", "validating"}
      /\ UNCHANGED <<found, sec, task, pending>>
      /\ \A s \in Sections : task[s] = "ended"
      /\ out'.fields = MergedFields /\ out'.abst = MergedAbstentions /\ out'.rows = MergedRows
      /\ out'.tables = MergedTables
  BY DEF Merge, TypeOK, Outputs
<1>2. ASSUME NEW s \in Sections, NEW n \in Named(s)
      PROVE  /\ ~(n \in out'.fields /\ Abstained(n)')
             /\ \/ n \in out'.fields \/ Abstained(n)'
                \/ n \in Custody /\ out'.rows
                \/ n \in Header /\ sec[s].spent
  <2>1. n \in sec[s].fields \cup sec[s].abst \/ (n \in Header /\ sec[s].spent)
    BY DEF SafetyInv, Kept, Lost
  <2>2. n \in Names
    <3>1. found[s] \in Found
      BY DEF TypeOK, Sections
    <3> QED
      BY <3>1 DEF Named, Found
  <2>3. n \in out'.fields <=> n \in MergedFields
    BY <1>1
  <2>4. ~(n \in MergedFields /\ Abstained(n)')
    BY <1>1 DEF Abstained, MergedAbstentions
  <2>5. ASSUME n \in sec[s].abst, n \notin MergedFields, ~(n \in Custody /\ MergedRows)
        PROVE  Abstained(n)'
    <3>1. <<s, n>> \in MergedAbstentions
      BY <2>2, <2>5 DEF MergedAbstentions
    <3> QED
      BY <1>1, <3>1 DEF Abstained
  <2>6. n \in sec[s].fields => n \in MergedFields
    BY DEF MergedFields
  <2> QED
    BY <1>1, <2>1, <2>3, <2>4, <2>5, <2>6
<1>3. AccountedFor'
  BY <1>1, <1>2 DEF AccountedFor, Sections, Named
<1>4. ASSUME NEW s \in Sections PROVE Traced(s)'
  BY <1>1 DEF SafetyInv, Traced, Before
<1> QED
  BY <1>1, <1>3, <1>4 DEF SafetyInv, Kept, Sections, Named, MergedTables

\* Every step keeps the invariant.
LEMMA SafetyStep ==
  ASSUME TypeOK, SafetyInv, NamesAssumption, Next
  PROVE  SafetyInv'
<1>1. CASE ExtractSection
  BY <1>1, SafeExtract
<1>2. CASE \/ EscalationAnswers \/ EscalationRaises
           \/ \E s \in Sections : SectionStart(s) \/ SectionAnswers(s)
  BY <1>2, SafeSection
<1>3. CASE Merge
  BY <1>3, SafeMerge
<1>4. CASE \/ Ingest \/ FirstPass \/ FirstPassRaises \/ Segment \/ RoutingRaises
           \/ EscalationEmpty \/ StartFallback
           \/ \E p \in DOMAIN page : OcrStart(p) \/ OcrEnd(p) \/ OcrRaises(p)
  <2>1. /\ UNCHANGED <<found, sec, out, pending>>
        /\ pc \in Before \cup {"error"} /\ pc' \notin Merged \cup {"escalating"}
        /\ pc = "error" => pc' = "error"
    BY <1>4 DEF Ingest, FirstPass, FirstPassRaises, Segment, RoutingRaises, EscalationEmpty,
                StartFallback, OcrStart, OcrEnd, OcrRaises, Before, Merged
  <2>2. \A s \in Sections : Traced(s) /\ (sec[s].tables = "vlm" => pc = "error")
    BY <2>1 DEF SafetyInv, Traced
  <2>3. \A s \in Sections : Traced(s)'
    BY <2>1, <2>2 DEF Traced, Before
  <2> QED
    BY <2>1, <2>3 DEF SafetyInv, Kept, AccountedFor, Sections, Named, Merged
<1>5. CASE \E s \in Sections : SectionRaises(s)
  <2>1. PICK s \in Sections : SectionRaises(s)
    BY <1>5
  <2>2. /\ UNCHANGED <<pc, found, sec, out, pending>> /\ pc = "vlm"
        /\ task' = [task EXCEPT ![s] = "ended"] /\ task \in [Sections -> {"waiting", "calling", "ended"}]
    BY <2>1 DEF SectionRaises, TypeOK
  <2>3. \A r \in Sections : task[r] = "ended" => task'[r] = "ended"
    BY <2>2
  <2>4. \A r \in Sections : Traced(r)'
    BY <2>2, <2>3 DEF SafetyInv, Traced, Before
  <2> QED
    BY <2>2, <2>4 DEF SafetyInv, Kept, AccountedFor, Sections, Named, Merged, Abstained
<1>6. CASE Diagnose \/ Retry \/ RetryRaises \/ Package \/ ValidationRaises
  <2>1. /\ UNCHANGED <<found, sec, task, pending>>
        /\ pc \in Merged /\ pc' \in Merged \cup {"raised"}
    BY <1>6 DEF Diagnose, Retry, RetryRaises, Package, ValidationRaises, Merged
  <2>2. \A s \in Sections : Traced(s)'
    BY <2>1 DEF SafetyInv, Traced, Before, Merged
  <2>3. /\ out.retried => out'.retried
        /\ ~out'.retried => out'.fields = out.fields /\ out'.abst = out.abst /\ out'.rows = out.rows
    BY <1>6 DEF Diagnose, Retry, RetryRaises, Package, ValidationRaises, TypeOK, Outputs
  <2>4. AccountedFor'
    BY <2>1, <2>3 DEF SafetyInv, AccountedFor, Sections, Named, Abstained
  <2>5. pc' \in Merged => out'.tables = MergedTables /\ MergedTables' = MergedTables
    <3>1. MergedTables' = MergedTables
      BY <2>1 DEF MergedTables, Sections
    <3>2. out'.tables = out.tables
      BY <1>6 DEF Diagnose, Retry, RetryRaises, Package, ValidationRaises, TypeOK, Outputs
    <3> QED
      BY <2>1, <3>1, <3>2 DEF SafetyInv
  <2>6. pc' = "complete" => (out'.escalated <=> \E s \in Sections : sec[s].tables = "llm")
    <3>1. pc' = "complete" => Package
      BY <1>6 DEF Diagnose, Retry, RetryRaises, ValidationRaises
    <3>2. Package => (out'.escalated <=> \E s \in Sections : sec[s].escalated)
      BY DEF Package, TypeOK, Outputs
    <3> QED
      BY <3>1, <3>2 DEF SafetyInv, Traced
  <2> QED
    BY <2>1, <2>2, <2>4, <2>5, <2>6 DEF SafetyInv, Kept, Sections, Named, Merged
<1> QED
  BY <1>1, <1>2, <1>3, <1>4, <1>5, <1>6 DEF Next

\* No section exists at the start.
LEMMA SafeInit == Init => SafetyInv
<1> SUFFICES ASSUME Init PROVE SafetyInv
  OBVIOUS
<1>1. Sections = {} /\ pending = {} /\ pc = "ingesting"
  BY DEF Init, Sections
<1> QED
  BY <1>1 DEF SafetyInv, Kept, AccountedFor, Merged

LEMMA Safe == Spec => []SafetyInv
<1>1. TypeOK /\ SafetyInv /\ [Next]_vars => SafetyInv'
  <2>1. ASSUME TypeOK, SafetyInv, Next PROVE SafetyInv'
    BY <2>1, SafetyStep, NamesAssumption
  <2>2. ASSUME SafetyInv, UNCHANGED vars PROVE SafetyInv'
    BY <2>2 DEF vars, SafetyInv, Kept, AccountedFor, Traced, Sections, Named, Abstained, Last, MergedTables
  <2> QED
    BY <2>1, <2>2
<1> QED
  BY <1>1, SafeInit, TypeCorrect, PTL DEF Spec

\* Every name the rules answered for in any section is, in the output of a
\* complete run, a field or an abstention but not both; in neither there are
\* only custody names of a document with rows, and names of the header of a
\* section whose budget was spent under "skip".
THEOREM NamesAccountedFor == Spec => []FieldsAccountedFor
<1>1. SafetyInv => FieldsAccountedFor
  BY DEF SafetyInv, AccountedFor, FieldsAccountedFor, Merged
<1> QED
  BY <1>1, Safe, PTL

\* What the rules read is never displaced, each section's tables can be
\* traced to what produced them, and the output delivers those of every
\* section.
THEOREM TablesTraced == Spec => []TablesAreTraceable
<1>1. SafetyInv => TablesAreTraceable
  <2>1. \A s \in Sections : sec[s].tables = "llm" <=> <<s, "llm">> \in MergedTables
    BY DEF MergedTables, Origins
  <2> QED
    BY <2>1 DEF SafetyInv, Traced, TablesAreTraceable, Merged
<1> QED
  BY <1>1, Safe, PTL

-----------------------------------------------------------------------------
(***************************************************************************)
(* Progress. The percentage is a quotient in each stage; it cannot drop    *)
(* where the stage changes because the pages read are counted once each    *)
(* (so the first stage ends at 50 at most), and because a section counts   *)
(* itself once at most (so the second ends at 90 at most).                 *)
(***************************************************************************)

\* The quotient and what remains below the divisor.
LEMMA Quotient ==
  ASSUME NEW a \in Nat, NEW c \in Nat, c > 0
  PROVE  a \div c \in Nat /\ c * (a \div c) <= a /\ a < c * (a \div c) + c
OBVIOUS

\* A larger factor makes a product larger by the other one at least.
LEMMA MulLess ==
  ASSUME NEW q \in Nat, NEW r \in Nat, NEW c \in Nat, r + 1 <= q
  PROVE  c * r + c <= c * q
<1>1. PICK d \in Nat : q = r + 1 + d
  <2>1. q - r - 1 \in Nat /\ q = r + 1 + (q - r - 1)
    OBVIOUS
  <2> QED
    BY <2>1
<1>2. c * q = c * r + c + c * d
  BY <1>1
<1>3. c * d \in Nat
  OBVIOUS
<1> QED
  BY <1>2, <1>3

\* Division by a positive number is monotone.
LEMMA DivMonotone ==
  ASSUME NEW a \in Nat, NEW b \in Nat, NEW c \in Nat, c > 0, a <= b
  PROVE  a \div c <= b \div c
<1> DEFINE q == a \div c
           r == b \div c
<1>1. q \in Nat /\ r \in Nat /\ c * q <= a /\ b < c * r + c
  BY Quotient
<1>2. ASSUME r + 1 <= q PROVE FALSE
  <2>1. c * r + c <= c * q
    BY <1>1, <1>2, MulLess
  <2>2. c * r \in Nat /\ c * q \in Nat
    BY <1>1
  <2> HIDE DEF q, r
  <2> QED
    BY <1>1, <2>1, <2>2
<1> HIDE DEF q, r
<1>3. q <= r
  BY <1>1, <1>2
<1> QED
  BY <1>3 DEF q, r

ReadPages    == {p \in DOMAIN page : page[p] = "read"}
OpenSections == {s \in Sections : task[s] # "ended"}

Records == [stage: {"uploading", "extracting", "vlm", "complete"},
            ocr: Nat, pages: Nat, windows: Nat, windowsDone: Nat]

\* Every page read is counted, by threads that may outlive the run too; every
\* section of the fallback that counted itself has ended.
ProgressInv ==
  /\ progress \in Records
  /\ pc \in {"ingesting", "classifying"} =>
       progress.pages = 0 /\ progress.windowsDone = 0 /\ DOMAIN page = {}
  /\ pc = "error" => DOMAIN page = {} \/ progress.stage = "extracting"
  /\ pc \in {"extracting", "rules", "escalating"} =>
       /\ progress.stage = "extracting" /\ progress.windowsDone = 0
       /\ DOMAIN page = 1..progress.pages
       /\ progress.ocr = Cardinality(ReadPages)
  /\ pc = "vlm" =>
       /\ progress.stage = "vlm"
       /\ progress.windowsDone + Cardinality(OpenSections) <= progress.windows
  /\ pc \in {"diagnosing", "rediscovering", "validating"} =>
       progress.stage = "vlm" /\ progress.windowsDone <= progress.windows

\* Pages and sections are finitely many.
LEMMA Counts ==
  ASSUME TypeOK, BoundsAssumption
  PROVE  /\ IsFiniteSet(ReadPages) /\ Cardinality(ReadPages) \in Nat
         /\ IsFiniteSet(Sections) /\ IsFiniteSet(OpenSections)
         /\ Cardinality(OpenSections) \in Nat
         /\ \A n \in Nat : DOMAIN page = 1..n => Cardinality(ReadPages) <= n
<1>1. PICK m \in 0..MaxPages : DOMAIN page = 1..m
  BY DEF TypeOK
<1>2. m \in Nat /\ Len(found) \in Nat
  BY BoundsAssumption DEF TypeOK
<1>0. ASSUME NEW n \in Nat PROVE IsFiniteSet(1..n) /\ Cardinality(1..n) = n
  <2>1. 1 \in Int /\ n \in Int /\ n - 1 + 1 = n /\ (1 > n => n = 0)
    OBVIOUS
  <2> QED
    BY <2>1, FS_Interval
<1>3. IsFiniteSet(DOMAIN page) /\ \A n \in Nat : DOMAIN page = 1..n => Cardinality(DOMAIN page) = n
  BY <1>0, <1>1, <1>2
<1>4. IsFiniteSet(Sections)
  BY <1>0, <1>2 DEF Sections
<1>5. ReadPages \subseteq DOMAIN page /\ OpenSections \subseteq Sections
  BY DEF ReadPages, OpenSections
<1>6. IsFiniteSet(ReadPages) /\ IsFiniteSet(OpenSections)
      /\ Cardinality(ReadPages) <= Cardinality(DOMAIN page)
  BY <1>3, <1>4, <1>5, FS_Subset
<1> QED
  BY <1>3, <1>4, <1>6, FS_CardinalityType

\* Reading a page counts it; whichever section ends, there is one less.
LEMMA ProgressStep ==
  ASSUME TypeOK, TypeOK', BoundsAssumption, ProgressInv, Next
  PROVE  ProgressInv'
<1> USE DEF ProgressInv, Records
<1>0. pc \in {"diagnosing", "rediscovering", "validating"} => pc # "vlm"
  OBVIOUS
<1>1. CASE Ingest \/ FirstPassRaises \/ Diagnose \/ Retry \/ RetryRaises \/ ValidationRaises
  BY <1>1 DEF Ingest, FirstPassRaises, Diagnose, Retry, RetryRaises, ValidationRaises
<1>2. CASE \/ Segment \/ ExtractSection \/ RoutingRaises
           \/ EscalationAnswers \/ EscalationEmpty \/ EscalationRaises
  <2>1. /\ UNCHANGED <<page, progress>>
        /\ pc \in {"extracting", "rules", "escalating"}
        /\ pc' \in {"rules", "escalating", "error", "raised"}
    BY <1>2
    DEF Segment, ExtractSection, RoutingRaises, EscalationAnswers, EscalationEmpty, EscalationRaises
  <2> QED
    BY <2>1 DEF ReadPages
<1>3. CASE FirstPass
  <2>1. PICK n \in 0..MaxPages : \E kind \in [1..n -> {"read", "waiting"}] :
          /\ page' = kind
          /\ progress' = [progress EXCEPT !.stage = "extracting", !.pages = n,
                            !.ocr = Cardinality({p \in 1..n : kind[p] = "read"})]
    BY <1>3 DEF FirstPass
  <2>2. n \in Nat /\ DOMAIN page' = 1..n /\ pc = "classifying" /\ pc' = "extracting"
    BY <1>3, <2>1, BoundsAssumption DEF FirstPass
  <2>3. progress' = [progress EXCEPT !.stage = "extracting", !.pages = n,
                       !.ocr = Cardinality(ReadPages')]
    BY <2>1, <2>2 DEF ReadPages
  <2>4. Cardinality(ReadPages') \in Nat
    <3>1. ReadPages' \subseteq 1..n
      BY <2>2 DEF ReadPages
    <3>2. IsFiniteSet(1..n)
      BY <2>2, FS_Interval
    <3> QED
      BY <3>1, <3>2, FS_Subset, FS_CardinalityType
  <2> QED
    BY <2>2, <2>3, <2>4
<1>4. ASSUME NEW p \in DOMAIN page, OcrStart(p) \/ OcrRaises(p) PROVE ProgressInv'
  <2>1. ReadPages' = ReadPages /\ DOMAIN page' = DOMAIN page
    BY <1>4 DEF OcrStart, OcrRaises, ReadPages, TypeOK
  <2>2. /\ pc \in {"extracting", "error"} /\ progress' = progress
        /\ pc' = pc \/ pc' = "error"
    BY <1>4 DEF OcrStart, OcrRaises
  <2> QED
    BY <2>1, <2>2
<1>5. ASSUME NEW p \in DOMAIN page, OcrEnd(p) PROVE ProgressInv'
  <2>1. /\ ReadPages' = ReadPages \cup {p} /\ p \notin ReadPages
        /\ DOMAIN page' = DOMAIN page
    BY <1>5 DEF OcrEnd, ReadPages, TypeOK
  <2>2. Cardinality(ReadPages') = Cardinality(ReadPages) + 1
    BY <2>1, Counts, FS_AddElement
  <2>3. /\ pc \in {"extracting", "error"} /\ pc' = pc
        /\ progress' = [progress EXCEPT !.ocr = @ + 1]
    BY <1>5 DEF OcrEnd
  <2> QED
    BY <2>1, <2>2, <2>3, Counts
<1>6. CASE StartFallback
  <2>1. /\ pc = "rules" /\ pc' = "vlm" /\ Sections' = Sections
        /\ task' = [s \in Sections |-> IF NeedsVlm(s) THEN "waiting" ELSE "ended"]
        /\ progress' = [progress EXCEPT !.stage = "vlm",
                           !.windows = Cardinality({s \in Sections : NeedsVlm(s)})]
    BY <1>6 DEF StartFallback, Sections
  <2>2. OpenSections' = {s \in Sections : NeedsVlm(s)}
    BY <2>1 DEF OpenSections
  <2>3. Cardinality(OpenSections') \in Nat
    BY <2>2, Counts, FS_Subset, FS_CardinalityType
  <2>4. progress' = [progress EXCEPT !.stage = "vlm", !.windows = Cardinality(OpenSections')]
    BY <2>1, <2>2
  <2>5. pc' = "vlm" /\ progress.windowsDone = 0 /\ progress \in Records
    BY <2>1
  <2>6. /\ progress' \in Records /\ progress'.stage = "vlm" /\ progress'.windowsDone = 0
        /\ progress'.windows = Cardinality(OpenSections')
    BY <2>3, <2>4, <2>5
  <2> QED
    BY <2>3, <2>5, <2>6
<1>7. ASSUME NEW s \in Sections, SectionStart(s) PROVE ProgressInv'
  <2>1. /\ pc = "vlm" /\ pc' = "vlm" /\ progress' = progress /\ Sections' = Sections
        /\ task' = [task EXCEPT ![s] = "calling"] /\ task[s] = "waiting"
    BY <1>7 DEF SectionStart, Sections
  <2>2. OpenSections' = OpenSections
    BY <2>1 DEF OpenSections, TypeOK
  <2> QED
    BY <2>1, <2>2
<1>8. ASSUME NEW s \in Sections, SectionAnswers(s) \/ SectionRaises(s) PROVE ProgressInv'
  <2>1. /\ pc = "vlm" /\ pc' = "vlm" /\ Sections' = Sections
        /\ task' = [task EXCEPT ![s] = "ended"] /\ task[s] = "calling"
        /\ \/ progress' = progress
           \/ progress' = [progress EXCEPT !.windowsDone = @ + 1]
    BY <1>8 DEF SectionAnswers, SectionRaises, Sections
  <2>2. OpenSections' = OpenSections \ {s} /\ s \in OpenSections
    BY <2>1 DEF OpenSections, TypeOK
  <2>3. /\ Cardinality(OpenSections') = Cardinality(OpenSections) - 1
        /\ Cardinality(OpenSections) \in Nat /\ Cardinality(OpenSections') \in Nat
    BY <2>2, Counts, FS_RemoveElement, FS_CardinalityType
  <2> QED
    BY <2>1, <2>3
<1>9. CASE Merge
  <2>1. /\ pc = "vlm" /\ pc' \in {"diagnosing", "validating"} /\ progress' = progress
    BY <1>9 DEF Merge
  <2>2. OpenSections = {}
    BY <1>9 DEF Merge, OpenSections
  <2>3. Cardinality(OpenSections) = 0
    BY <2>2, FS_EmptySet
  <2> QED
    BY <2>1, <2>3
<1>10. CASE Package
  BY <1>10 DEF Package
<1> QED
  BY <1>1, <1>2, <1>3, <1>4, <1>5, <1>6, <1>7, <1>8, <1>9, <1>10 DEF Next

\* The bounds of the two quotients.
LEMMA PercentParts ==
  ASSUME NEW done \in Nat, NEW all \in Nat, NEW more \in Nat, all > 0, NEW k \in Nat, done <= more
  PROVE  /\ (done * k) \div all \in Nat
         /\ (done * k) \div all <= (more * k) \div all
         /\ done <= all => (done * k) \div all <= k
<1>1. done * k \in Nat /\ more * k \in Nat /\ all * k \in Nat /\ done * k <= more * k
  <2>1. PICK d \in Nat : more = done + d
    <3>1. more - done \in Nat /\ more = done + (more - done)
      OBVIOUS
    <3> QED
      BY <3>1
  <2>2. more * k = done * k + d * k
    BY <2>1
  <2>3. done * k \in Nat /\ d * k \in Nat /\ all * k \in Nat
    OBVIOUS
  <2> QED
    BY <2>2, <2>3
<1>2. ASSUME done <= all PROVE done * k <= all * k
  <2>1. PICK d \in Nat : all = done + d
    <3>1. all - done \in Nat /\ all = done + (all - done)
      BY <1>2
    <3> QED
      BY <3>1
  <2>2. all * k = done * k + d * k
    BY <2>1
  <2>3. done * k \in Nat /\ d * k \in Nat
    OBVIOUS
  <2> QED
    BY <2>2, <2>3
<1>3. (all * k) \div all = k
  <2>1. all * k = k * all
    OBVIOUS
  <2> QED
    BY <2>1
<1>4. (done * k) \div all \in Nat /\ (done * k) \div all <= (more * k) \div all
  BY <1>1, Quotient, DivMonotone
<1>5. ASSUME done <= all PROVE (done * k) \div all <= k
  BY <1>1, <1>2, <1>3, <1>5, DivMonotone
<1> QED
  BY <1>4, <1>5

\* What the API shows is at most 50 while pages are read, and between 50 and
\* 90 during the fallback.
LEMMA PercentRange ==
  ASSUME NEW p \in Records
  PROVE  /\ Percent(p) \in Nat
         /\ p.stage \in {"uploading", "extracting"} /\ p.ocr <= p.pages => Percent(p) <= 50
         /\ p.stage = "vlm" /\ p.pages > 0 => Percent(p) >= 50
         /\ p.stage = "vlm" /\ p.windowsDone <= p.windows => Percent(p) <= 90
<1> USE DEF Records
<1>1. CASE p.pages = 0
  BY <1>1 DEF Percent
<1>2. CASE p.pages > 0 /\ p.stage = "complete"
  BY <1>2 DEF Percent
<1>3. CASE p.pages > 0 /\ p.stage = "vlm"
  <2>1. CASE p.windows = 0
    BY <1>3, <2>1 DEF Percent
  <2>2. CASE p.windows > 0
    <3>1. (p.windowsDone * 40) \div p.windows \in Nat
          /\ (p.windowsDone <= p.windows => (p.windowsDone * 40) \div p.windows <= 40)
      BY <2>2, PercentParts
    <3>2. Percent(p) = 50 + (p.windowsDone * 40) \div p.windows
      BY <1>3, <2>2 DEF Percent
    <3> QED
      BY <1>3, <3>1, <3>2
  <2> QED
    BY <2>1, <2>2
<1>4. CASE p.pages > 0 /\ p.stage \in {"uploading", "extracting"}
  <2>1. (p.ocr * 50) \div p.pages \in Nat
        /\ (p.ocr <= p.pages => (p.ocr * 50) \div p.pages <= 50)
    BY <1>4, PercentParts
  <2>2. Percent(p) = (p.ocr * 50) \div p.pages
    BY <1>4 DEF Percent
  <2> QED
    BY <1>4, <2>1, <2>2
<1> QED
  BY <1>1, <1>2, <1>3, <1>4

\* One more page or section never lowers it.
LEMMA PercentGrows ==
  ASSUME NEW p \in Records
  PROVE  /\ p.stage = "extracting" => Percent([p EXCEPT !.ocr = @ + 1]) >= Percent(p)
         /\ p.stage = "vlm" => Percent([p EXCEPT !.windowsDone = @ + 1]) >= Percent(p)
<1> USE DEF Records
<1>1. ASSUME p.stage = "extracting" PROVE Percent([p EXCEPT !.ocr = @ + 1]) >= Percent(p)
  <2>1. CASE p.pages = 0
    BY <2>1 DEF Percent
  <2>2. CASE p.pages > 0
    <3>1. /\ Percent(p) = (p.ocr * 50) \div p.pages
          /\ Percent([p EXCEPT !.ocr = @ + 1]) = ((p.ocr + 1) * 50) \div p.pages
      BY <1>1, <2>2 DEF Percent
    <3>2. (p.ocr * 50) \div p.pages <= ((p.ocr + 1) * 50) \div p.pages
          /\ (p.ocr * 50) \div p.pages \in Nat /\ ((p.ocr + 1) * 50) \div p.pages \in Nat
      BY <2>2, PercentParts
    <3> QED
      BY <3>1, <3>2
  <2> QED
    BY <2>1, <2>2
<1>2. ASSUME p.stage = "vlm" PROVE Percent([p EXCEPT !.windowsDone = @ + 1]) >= Percent(p)
  <2>1. CASE p.pages = 0 \/ p.windows = 0
    BY <1>2, <2>1 DEF Percent
  <2>2. CASE p.pages > 0 /\ p.windows > 0
    <3>1. /\ Percent(p) = 50 + (p.windowsDone * 40) \div p.windows
          /\ Percent([p EXCEPT !.windowsDone = @ + 1])
               = 50 + ((p.windowsDone + 1) * 40) \div p.windows
      BY <1>2, <2>2 DEF Percent
    <3>2. (p.windowsDone * 40) \div p.windows <= ((p.windowsDone + 1) * 40) \div p.windows
          /\ (p.windowsDone * 40) \div p.windows \in Nat
          /\ ((p.windowsDone + 1) * 40) \div p.windows \in Nat
      BY <2>2, PercentParts
    <3> QED
      BY <3>1, <3>2
  <2> QED
    BY <2>1, <2>2
<1> QED
  BY <1>1, <1>2

\* The percentage the API shows for a run never goes down, in whatever order
\* pages and sections end and whichever sections fail without counting
\* themselves.
THEOREM ProgressOnlyGrows == Spec => ProgressNeverGoesBack
<1>1. ASSUME TypeOK, ProgressInv, ProgressInv', Next
      PROVE  Percent(progress') >= Percent(progress)
  <2>1. progress \in Records /\ progress' \in Records
    BY <1>1 DEF ProgressInv
  <2>2. Percent(progress) \in Nat /\ Percent(progress') \in Nat
    BY <2>1, PercentRange
  <2>3. CASE progress' = progress
    BY <2>2, <2>3
  <2>4. CASE FirstPass
    <3>1. Percent(progress) = 0
      BY <1>1, <2>4 DEF FirstPass, ProgressInv, Percent
    <3> QED
      BY <2>2, <3>1
  <2>5. ASSUME NEW p \in DOMAIN page, OcrEnd(p)
        PROVE  Percent(progress') >= Percent(progress)
    BY <1>1, <2>1, <2>5, PercentGrows DEF OcrEnd, ProgressInv
  <2>6. CASE StartFallback
    <3>1. /\ progress.stage = "extracting" /\ progress.ocr <= progress.pages
          /\ progress'.stage = "vlm" /\ progress'.pages = progress.pages
      <4>1. pc = "rules"
        BY <2>6 DEF StartFallback
      <4> QED
        BY <1>1, <2>1, <2>6, <4>1, Counts, BoundsAssumption DEF StartFallback, ProgressInv, Records
    <3>2. CASE progress.pages = 0
      BY <2>2, <3>1, <3>2 DEF Percent
    <3>3. CASE progress.pages > 0
      BY <2>1, <2>2, <3>1, <3>3, PercentRange
    <3> QED
      BY <2>1, <3>2, <3>3 DEF Records
  <2>7. ASSUME NEW s \in Sections, SectionAnswers(s)
        PROVE  Percent(progress') >= Percent(progress)
    BY <1>1, <2>1, <2>7, PercentGrows DEF SectionAnswers, ProgressInv
  <2>8. CASE Package
    <3>1. /\ progress.stage = "vlm" /\ progress.windowsDone <= progress.windows
          /\ progress'.stage = "complete" /\ progress'.pages = progress.pages
      BY <1>1, <2>1, <2>8 DEF Package, ProgressInv, Records
    <3>2. CASE progress.pages = 0
      BY <2>2, <3>1, <3>2 DEF Percent
    <3>3. CASE progress.pages > 0
      <4>1. Percent(progress') = 100
        BY <3>1, <3>3 DEF Percent
      <4> QED
        BY <2>1, <2>2, <3>1, <4>1, PercentRange
    <3> QED
      BY <2>1, <3>2, <3>3 DEF Records
  <2>9. \/ progress' = progress \/ FirstPass \/ StartFallback \/ Package
        \/ \E p \in DOMAIN page : OcrEnd(p)
        \/ \E s \in Sections : SectionAnswers(s)
    BY <1>1
    DEF Next, Ingest, FirstPassRaises, Segment, OcrStart, OcrRaises, ExtractSection, RoutingRaises,
        EscalationAnswers, EscalationEmpty, EscalationRaises, SectionStart, SectionRaises,
        Merge, Diagnose, Retry, RetryRaises, ValidationRaises
  <2> QED
    BY <2>3, <2>4, <2>5, <2>6, <2>7, <2>8, <2>9
<1>2. Init => ProgressInv
  BY DEF Init, NoProgress, ProgressInv, Records
<1>3. TypeOK /\ TypeOK' /\ ProgressInv /\ [Next]_vars => ProgressInv'
  <2>1. ASSUME TypeOK, TypeOK', ProgressInv, Next PROVE ProgressInv'
    BY <2>1, ProgressStep, BoundsAssumption
  <2>2. ASSUME ProgressInv, UNCHANGED vars PROVE ProgressInv'
    BY <2>2 DEF vars, ProgressInv, ReadPages, OpenSections, Sections
  <2> QED
    BY <2>1, <2>2
<1>4. TypeOK /\ ProgressInv /\ ProgressInv' /\ [Next]_vars
        => [Percent(progress') >= Percent(progress)]_vars
  BY <1>1
<1> QED
  BY <1>2, <1>3, <1>4, TypeCorrect, PTL DEF Spec, ProgressNeverGoesBack

=============================================================================
