---------------------------- MODULE PipelineRun ----------------------------
(***************************************************************************)
(* One call of process_document (pipeline/runner.py): ingestion, reading   *)
(* of the pages, rule-based extraction section by section, the VLM         *)
(* fallback of all sections at once, the merge, the self-healing retry and *)
(* the packaging of the output, with the progress record the API polls.    *)
(*                                                                         *)
(* The coroutine is cut where it awaits. What a page says is abstracted to *)
(* the NAMES of the fields an extractor finds in it; what a model answers  *)
(* is every subset of what it is asked for.                                *)
(***************************************************************************)
EXTENDS Naturals, Sequences, FiniteSets

CONSTANTS
  Names,           \* names of scalar fields
  Custody,         \* those of custody_fields
  Synthetic,       \* those asked for when a section's schema is unknown
  Metadata,        \* those a model's answer may bring unasked
  Header,          \* those the first tier of chunked extraction looks for
  BudgetAction,    \* settings.vlm_budget_exceeded_action
  MaxPages,        \* bound on the pages of a document
  MaxSections,     \* bound on the sections the segmenter cuts
  OcrConcurrency,  \* settings.ocr_concurrency
  VlmConcurrency   \* sections in the fallback at once (10 in the code)

ASSUME NamesAssumption ==
  /\ Custody \subseteq Names
  /\ Synthetic \subseteq Names
  /\ Metadata \subseteq Names
  /\ Header \subseteq Names
  /\ "accounts" \notin Names
  /\ IsFiniteSet(Names)
ASSUME BoundsAssumption ==
  /\ {MaxPages, MaxSections, OcrConcurrency, VlmConcurrency} \subseteq Nat \ {0}
  /\ BudgetAction \in {"flag", "skip", "proceed"}

VARIABLES
  pc,        \* where process_document is, or how it ended
  tenant,    \* [vlm |-> tenant.vlm_enabled, cache |-> a schema cache was passed]
  page,      \* page -> its way through the first and the second pass
  found,     \* section -> section_result, as the router returned it
  sec,       \* section -> its entry of section_data
  task,      \* section -> its task of the VLM phase
  out,       \* the merged result
  pending,   \* sections with a schema stored for approval
  progress   \* the JobProgress record

vars == <<pc, tenant, page, found, sec, task, out, pending, progress>>

Sections == 1..Len(found)
AllFields == Names \cup {"accounts"}

(* What an extractor returns: fields, field abstentions, tables, and the   *)
(* abstention that names no field: a missing table or an unknown schema.   *)
Extractions ==
  [schema: {"known", "unknown"}, fields: SUBSET Names, abst: SUBSET Names,
   tables: {"none", "rules"}, gap: {"none", "table", "schema"}]

(* A schema extractor answers for each of its fields. *)
BySchema ==
  {e \in Extractions :
     /\ e.schema = "known"
     /\ e.abst = Names \ e.fields
     /\ e.gap = IF e.tables = "none" THEN "table" ELSE "none"}

(* A discovered schema has fields and tables of its own, any of which may  *)
(* be abstained on; a learned template serves when it abstains on none.    *)
ByDiscovery ==
  {e \in Extractions :
     e.schema = "known" /\ e.fields \cap e.abst = {} /\ e.gap # "schema"}

NoSchema ==
  [schema |-> "unknown", fields |-> {}, abst |-> {}, tables |-> "none", gap |-> "schema"]

MayDiscover == tenant.vlm /\ tenant.cache

Routed ==
  BySchema \cup {NoSchema} \cup (IF MayDiscover THEN ByDiscovery ELSE {})

NoProgress ==
  [stage |-> "uploading", ocr |-> 0, pages |-> 0, windows |-> 0, windowsDone |-> 0]

NoOutput ==
  [fields |-> {}, abst |-> {}, tables |-> {}, rows |-> FALSE, schema |-> "unknown",
   escalated |-> FALSE, retried |-> FALSE, status |-> "none"]

Init ==
  /\ pc = "ingesting"
  /\ tenant \in [vlm: BOOLEAN, cache: BOOLEAN]
  /\ page = <<>> /\ found = <<>> /\ sec = <<>> /\ task = <<>>
  /\ out = NoOutput
  /\ pending = {}
  /\ progress = NoProgress

-----------------------------------------------------------------------------
(* Reading the pages. *)

(* The file is refused, known already, or goes on to be classified. *)
Ingest ==
  /\ pc = "ingesting"
  /\ pc' \in {"error", "cached", "classifying"}
  /\ UNCHANGED <<tenant, page, found, sec, task, out, pending, progress>>

(* The first pass, on one thread: a page whose text layer can be read and  *)
(* is not garbled is digital, any other waits for the second pass.         *)
FirstPass ==
  /\ pc = "classifying"
  /\ \E n \in 0..MaxPages : \E kind \in [1..n -> {"read", "waiting"}] :
       /\ page' = kind
       /\ pc' = "extracting"
       /\ progress' = [progress EXCEPT !.stage = "extracting", !.pages = n,
                         !.ocr = Cardinality({p \in 1..n : kind[p] = "read"})]
  /\ UNCHANGED <<tenant, found, sec, task, out, pending>>

FirstPassRaises ==
  /\ pc = "classifying"
  /\ pc' = "error"
  /\ UNCHANGED <<tenant, page, found, sec, task, out, pending, progress>>

(* A task waits for the semaphore; gather cancels none of them when one    *)
(* raises, so the others go on behind the run's back.                      *)
OcrStart(p) ==
  /\ pc \in {"extracting", "error"}
  /\ page[p] = "waiting"
  /\ Cardinality({q \in DOMAIN page : page[q] = "ocr"}) < OcrConcurrency
  /\ page' = [page EXCEPT ![p] = "ocr"]
  /\ UNCHANGED <<pc, tenant, found, sec, task, out, pending, progress>>

(* The client answers with tokens or with none. *)
OcrEnd(p) ==
  /\ pc \in {"extracting", "error"}
  /\ page[p] = "ocr"
  /\ page' = [page EXCEPT ![p] = "read"]
  /\ progress' = [progress EXCEPT !.ocr = @ + 1]
  /\ UNCHANGED <<pc, tenant, found, sec, task, out, pending>>

(* The client raises: that ends the run (ERR_EXTRACT_003). *)
OcrRaises(p) ==
  /\ pc \in {"extracting", "error"}
  /\ page[p] = "ocr"
  /\ page' = [page EXCEPT ![p] = "failed"]
  /\ pc' = "error"
  /\ UNCHANGED <<tenant, found, sec, task, out, pending, progress>>

(* All pages are there: without any the run ends, else the segmenter cuts  *)
(* them into sections.                                                     *)
Segment ==
  /\ pc = "extracting"
  /\ \A p \in DOMAIN page : page[p] = "read"
  /\ pc' = IF DOMAIN page = {} THEN "error" ELSE "rules"
  /\ UNCHANGED <<tenant, page, found, sec, task, out, pending, progress>>

-----------------------------------------------------------------------------
(* Phase 1: rules, the text-table parser, the quality score.               *)

Entry(e, tables, gap, escalated) ==
  [schema |-> e.schema, fields |-> e.fields, abst |-> e.abst, tables |-> tables,
   gap |-> gap, rows |-> FALSE, spent |-> FALSE, escalated |-> escalated]

SectionLeft == Len(found) < MaxSections /\ Len(found) < progress.pages

(* The text parser is tried when there is no table and one is missed, and  *)
(* what it finds takes the abstention away. A poor score is only looked at for a tenant  *)
(* with a VLM: then the tables are dropped and a model is asked.           *)
ExtractSection ==
  /\ pc = "rules"
  /\ SectionLeft
  /\ \E e \in Routed :
       \/ /\ found' = Append(found, e)
          /\ sec' = Append(sec, Entry(e, e.tables, e.gap, FALSE))
          /\ pc' = pc
       \/ /\ e.tables = "none" /\ e.gap = "table"
          /\ found' = Append(found, [e EXCEPT !.tables = "text"])
          /\ \/ /\ sec' = Append(sec, Entry(e, "text", "none", FALSE))
                /\ pc' = pc
             \/ /\ tenant.vlm
                /\ sec' = Append(sec, Entry(e, "none", "none", FALSE))
                /\ pc' = "escalating"
  /\ UNCHANGED <<tenant, page, task, out, pending, progress>>

(* The template store's query or a discovery raises: nothing catches it. *)
RoutingRaises ==
  /\ pc = "rules"
  /\ SectionLeft /\ MayDiscover
  /\ pc' = "raised"
  /\ UNCHANGED <<tenant, page, found, sec, task, out, pending, progress>>

Last == Len(found)

(* The model's tables replace the parser's and a schema waits for the      *)
(* user's approval; storing that schema may fail and is not insisted on.   *)
EscalationAnswers ==
  /\ pc = "escalating"
  /\ sec' = [sec EXCEPT ![Last].tables = "llm", ![Last].escalated = TRUE]
  /\ pending' \in {pending, pending \cup {Last}}
  /\ pc' = "rules"
  /\ UNCHANGED <<tenant, page, found, task, out, progress>>

(* An answer without tables is only logged. *)
EscalationEmpty ==
  /\ pc = "escalating"
  /\ pc' = "rules"
  /\ UNCHANGED <<tenant, page, found, sec, task, out, pending, progress>>

(* The parser appended its tables to section_result's own list. *)
EscalationRaises ==
  /\ pc = "escalating"
  /\ sec' = [sec EXCEPT ![Last].tables = found[Last].tables]
  /\ pc' = "rules"
  /\ UNCHANGED <<tenant, page, found, task, out, pending, progress>>

-----------------------------------------------------------------------------
(* Phase 2: the VLM fallback of every section that needs it.               *)

NeedsVlm(s) ==
  tenant.vlm /\ (sec[s].abst # {} \/ sec[s].gap # "none" \/ sec[s].schema = "unknown")

(* The tasks are made; those of sections in need of nothing end at once.   *)
StartFallback ==
  /\ pc = "rules"
  /\ Sections # {}
  /\ task' = [s \in Sections |-> IF NeedsVlm(s) THEN "waiting" ELSE "ended"]
  /\ progress' = [progress EXCEPT !.stage = "vlm",
                    !.windows = Cardinality({s \in Sections : NeedsVlm(s)})]
  /\ pc' = "vlm"
  /\ UNCHANGED <<tenant, page, found, sec, out, pending>>

(* A section of which the rules read nothing loses its schema, which stays *)
(* lost when the call fails.                                               *)
SectionStart(s) ==
  /\ pc = "vlm"
  /\ task[s] = "waiting"
  /\ Cardinality({t \in Sections : task[t] = "calling"}) < VlmConcurrency
  /\ task' = [task EXCEPT ![s] = "calling"]
  /\ sec' = IF sec[s].fields = {} THEN [sec EXCEPT ![s].schema = "unknown"] ELSE sec
  /\ UNCHANGED <<pc, tenant, page, found, out, pending, progress>>

Asked(s) ==
  IF sec[s].schema = "unknown" /\ sec[s].abst = {} THEN Synthetic ELSE sec[s].abst

\* Mutant: the fallback's tables take the place of any.
AnsweredOver(s, resolved, nulls, extra, accounts) ==
  LET new == resolved \cup extra \cup (IF accounts = "none" THEN {} ELSE {"accounts"}) IN
  [schema |-> IF new = {} THEN sec[s].schema ELSE "known",
   fields |-> sec[s].fields \cup new,
   abst   |-> Asked(s) \ (resolved \cup nulls),
   gap    |-> "none",
   rows   |-> accounts \in {"rows", "tables"},
   tables |-> IF accounts = "tables" THEN "vlm" ELSE sec[s].tables,
   spent  |-> sec[s].spent \/ nulls # {},
   escalated |-> sec[s].escalated]

(* The names a spent budget may lose. It is noticed after the call: under  *)
(* "skip" a name is abstained on when the answer has no such key, and the  *)
(* first tier, whose answers have the names as keys, is taken when all the *)
(* names asked for are of the header.                                      *)
MayBeNull(s) ==
  IF BudgetAction = "skip" /\ Asked(s) \subseteq Header THEN Asked(s) ELSE {}

(* The fallback's answer: the fields it resolved, the nulls it lost with a *)
(* spent budget, whatever metadata came along, and perhaps accounts. The   *)
(* abstentions that name no field are never given back.                    *)
Answered(s, resolved, nulls, extra, accounts) ==
  LET new == resolved \cup extra \cup (IF accounts = "none" THEN {} ELSE {"accounts"}) IN
  [schema |-> IF new = {} THEN sec[s].schema ELSE "known",
   fields |-> sec[s].fields \cup new,
   abst   |-> Asked(s) \ (resolved \cup nulls),
   gap    |-> "none",
   rows   |-> accounts \in {"rows", "tables"},
   tables |-> IF sec[s].tables = "none" /\ accounts = "tables" THEN "vlm" ELSE sec[s].tables,
   spent  |-> sec[s].spent \/ nulls # {},
   escalated |-> sec[s].escalated]

SectionAnswers(s) ==
  /\ pc = "vlm"
  /\ task[s] = "calling"
  /\ \E resolved \in SUBSET Asked(s), extra \in SUBSET Metadata,
        accounts \in {"none", "bare", "rows", "tables"} :
          \E nulls \in SUBSET (MayBeNull(s) \ resolved) :
             sec' = [sec EXCEPT ![s] = Answered(s, resolved, nulls, extra, accounts)]
  /\ task' = [task EXCEPT ![s] = "ended"]
  /\ progress' = [progress EXCEPT !.windowsDone = @ + 1]
  /\ UNCHANGED <<pc, tenant, page, found, out, pending>>

\* Mutant: a failing section is put back in line for ever.
SectionRaisesUncaught(s) ==
  /\ pc = "vlm"
  /\ task[s] = "calling"
  /\ task' = [task EXCEPT ![s] = "waiting"]
  /\ sec' = [sec EXCEPT ![s].schema = "unknown"]
  /\ UNCHANGED <<pc, tenant, page, found, out, pending, progress>>

SectionRaises(s) ==
  /\ pc = "vlm"
  /\ task[s] = "calling"
  /\ task' = [task EXCEPT ![s] = "ended"]
  /\ UNCHANGED <<pc, tenant, page, found, sec, out, pending, progress>>

-----------------------------------------------------------------------------
(* Phase 3: merge, self-healing retry, output.                             *)

MergedFields == UNION {sec[s].fields : s \in Sections}

MergedRows == \E s \in Sections : sec[s].rows

\* Mutant: any account, with rows or not, clears the custody names.
MergedAbstentionsAnyAccount ==
  {a \in Sections \X Names :
     /\ a[2] \in sec[a[1]].abst
     /\ a[2] \notin MergedFields
     /\ ~("accounts" \in MergedFields /\ a[2] \in Custody)}

(* Abstentions are a list: one section's abstention does not hide          *)
(* another's. Those of names found anywhere go, and those of custody names *)
(* as soon as an account has rows.                                         *)
MergedAbstentions ==
  {a \in Sections \X Names :
     /\ a[2] \in sec[a[1]].abst
     /\ a[2] \notin MergedFields
     /\ ~(MergedRows /\ a[2] \in Custody)}

(* Each section's tables, told by what produced them. *)
Origins == {"rules", "text", "llm", "vlm"}
MergedTables == {t \in Sections \X Origins : sec[t[1]].tables = t[2]}

ShouldRetry(fields, abst) == Cardinality(abst) > Cardinality(fields)

Merge ==
  /\ pc = "vlm"
  /\ \A s \in Sections : task[s] = "ended"
  /\ out' = [out EXCEPT
               !.fields = MergedFields,
               !.abst   = MergedAbstentions,
               !.tables = MergedTables,
               !.rows   = MergedRows,
               !.schema = IF \E s \in Sections : sec[s].schema = "known"
                          THEN "known" ELSE "unknown"]
  /\ pc' = IF ShouldRetry(MergedFields, MergedAbstentions) THEN "diagnosing" ELSE "validating"
  /\ UNCHANGED <<tenant, page, found, sec, task, pending, progress>>

(* The client of a tenant without a VLM answers the diagnosis with nothing. *)
Diagnose ==
  /\ pc = "diagnosing"
  /\ \/ pc' = "validating"
     \/ MayDiscover /\ pc' = "rediscovering"
     \/ tenant.vlm /\ pc' = "raised"
  /\ UNCHANGED <<tenant, page, found, sec, task, out, pending, progress>>

(* The discovered schema's extraction replaces the fields and abstentions  *)
(* if it has more fields; its tables are not used.                         *)
Retry ==
  /\ pc = "rediscovering"
  /\ \/ out' = out
     \/ \E fields \in SUBSET Names :
          /\ Cardinality(fields) > Cardinality(out.fields)
          /\ out' = [out EXCEPT !.fields = fields, !.rows = FALSE,
                       !.abst = {0} \X (Names \ fields),
                       !.schema = "known", !.retried = TRUE]
  /\ pc' = "validating"
  /\ UNCHANGED <<tenant, page, found, sec, task, pending, progress>>

(* Nothing around the retry catches what its two calls raise. *)
RetryRaises ==
  /\ pc = "rediscovering"
  /\ pc' = "raised"
  /\ UNCHANGED <<tenant, page, found, sec, task, out, pending, progress>>

Status(o) ==
  IF o.fields = {} THEN "failed"
  ELSE IF \/ o.rows
          \/ Cardinality(o.fields) >= 3 /\ Cardinality(o.abst) <= 2
          \/ o.abst = {}
       THEN "complete"
       ELSE "partial"

Package ==
  /\ pc = "validating"
  /\ out' = [out EXCEPT !.status = Status(out),
               !.escalated = \E s \in Sections : sec[s].escalated]
  /\ progress' = [progress EXCEPT !.stage = "complete"]
  /\ pc' = "complete"
  /\ UNCHANGED <<tenant, page, found, sec, task, pending>>

(* The date validator raises on the 29th of February. *)
ValidationRaises ==
  /\ pc = "validating"
  /\ pc' = "raised"
  /\ UNCHANGED <<tenant, page, found, sec, task, out, pending, progress>>

Ends == {"error", "cached", "raised", "complete"}

Next ==
  \/ Ingest \/ FirstPass \/ FirstPassRaises \/ Segment
  \/ \E p \in DOMAIN page : OcrStart(p) \/ OcrEnd(p) \/ OcrRaises(p)
  \/ ExtractSection \/ RoutingRaises
  \/ EscalationAnswers \/ EscalationEmpty \/ EscalationRaises
  \/ StartFallback
  \/ \E s \in Sections : SectionStart(s) \/ SectionAnswers(s) \/ SectionRaises(s)
  \/ Merge \/ Diagnose \/ Retry \/ RetryRaises \/ Package \/ ValidationRaises

(* The event loop runs what is ready, and every call it waits for returns: *)
(* the OCR and VLM clients have timeouts and bounded retries.              *)
Spec == Init /\ [][Next]_vars /\ WF_vars(Next)

-----------------------------------------------------------------------------
Found == [schema: {"known", "unknown"}, fields: SUBSET Names, abst: SUBSET Names,
          tables: {"none", "rules", "text"}, gap: {"none", "table", "schema"}]

Entries == [schema: {"known", "unknown"}, fields: SUBSET AllFields, abst: SUBSET Names,
            tables: {"none"} \cup Origins,
            gap: {"none", "table", "schema"}, rows: BOOLEAN, spent: BOOLEAN,
            escalated: BOOLEAN]

Outputs == [fields: SUBSET AllFields, abst: SUBSET ((0..MaxSections) \X Names),
            tables: SUBSET ((1..MaxSections) \X Origins), rows: BOOLEAN, schema: {"known", "unknown"}, escalated: BOOLEAN,
            retried: BOOLEAN, status: {"none", "failed", "partial", "complete"}]

Before == {"ingesting", "classifying", "extracting", "rules", "escalating"}
Merged == {"diagnosing", "rediscovering", "validating", "complete"}

(* Every variable keeps its shape; the tasks of the fallback are those of  *)
(* the sections.                                                           *)
TypeOK ==
  /\ pc \in Before \cup {"vlm"} \cup Merged \cup Ends
  /\ tenant \in [vlm: BOOLEAN, cache: BOOLEAN]
  /\ \E n \in 0..MaxPages : page \in [1..n -> {"read", "waiting", "ocr", "failed"}]
  /\ found \in Seq(Found) /\ Len(found) <= MaxSections
  /\ sec \in Seq(Entries) /\ Len(sec) = Len(found)
  /\ pc = "vlm" => task \in [Sections -> {"waiting", "calling", "ended"}]
  /\ pc = "escalating" => Len(found) > 0
  /\ out \in Outputs

Named(s) == found[s].fields \cup found[s].abst
Abstained(n) == \E a \in out.abst : a[2] = n

(* Every name a schema's extractor answered for in any section ends up in  *)
(* the output, as a field or as abstentions and never as both, whatever    *)
(* the fallback resolved, dropped or raised. Two kinds may be in neither:  *)
(* custody names of a document whose accounts have rows, and names of the  *)
(* header a section asked for with its budget spent. A retry that found    *)
(* more replaces them all. For the two kinds the code falls short of       *)
(* requirement 11.3, "no field is silently missing" (runner.py, phases 1   *)
(* to 3, the stale-abstention clean-up and _vlm_fallback).                 *)
FieldsAccountedFor ==
  pc = "complete" /\ ~out.retried =>
    \A s \in Sections : \A n \in Named(s) :
      /\ ~(n \in out.fields /\ Abstained(n))
      /\ \/ n \in out.fields \/ Abstained(n)
         \/ n \in Custody /\ out.rows
         \/ n \in Header /\ sec[s].spent

(* Tables the rules read are never displaced by a model's; a text parser's *)
(* are only replaced by an escalation, which the output then admits; a     *)
(* fallback's tables stand in for none. What every section ends with is    *)
(* what the output delivers, retried or not. Only an escalation leaves a   *)
(* schema to approve (runner.py, phases 1 to 3).                           *)
TablesAreTraceable ==
  /\ \A s \in Sections :
       /\ found[s].tables = "rules" => sec[s].tables = "rules"
       /\ sec[s].tables = "llm" <=> sec[s].escalated
       /\ sec[s].tables = "llm" => found[s].tables = "text"
       /\ sec[s].tables = "vlm" => sec[s].rows /\ found[s].tables # "rules"
  /\ pending \subseteq {s \in Sections : sec[s].escalated}
  /\ pc = "complete" =>
       /\ out.tables = MergedTables
       /\ out.escalated <=> \E s \in Sections : <<s, "llm">> \in out.tables

\* Mutant: the second stage counts from its own start.
PercentOfStage(p) ==
  CASE p.pages = 0 -> 0
    [] p.pages > 0 /\ p.stage = "complete" -> 100
    [] p.pages > 0 /\ p.stage = "vlm" ->
         IF p.windows = 0 THEN 50 ELSE (p.windowsDone * 90) \div p.windows
    [] OTHER -> (p.ocr * 50) \div p.pages

(* JobProgress.progress_percent *)
Percent(p) ==
  CASE p.pages = 0 -> 0
    [] p.pages > 0 /\ p.stage = "complete" -> 100
    [] p.pages > 0 /\ p.stage = "vlm" ->
         IF p.windows = 0 THEN 50 ELSE 50 + (p.windowsDone * 40) \div p.windows
    [] OTHER -> (p.ocr * 50) \div p.pages

(* The percentage the API shows for a run never goes down, while pages and *)
(* sections end in any order and some never count themselves.              *)
ProgressNeverGoesBack == [][Percent(progress') >= Percent(progress)]_vars

(* A run ends, with a result or an error, whatever calls fail. *)
EveryRunEnds == <>(pc \in Ends)

=============================================================================
