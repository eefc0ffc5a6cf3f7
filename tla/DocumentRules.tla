---------------------------- MODULE DocumentRules ----------------------------
(***************************************************************************)
(* The rule path of one document, from its pages to its tables: sections   *)
(* (pipeline/section_segmenter.py), per section the assembled tables       *)
(* (pipeline/assembler.py), the one table a schema's extractor picks       *)
(* (schemas/base.py), and where it picks none the text parser's tables     *)
(* with their quality score (pipeline/quality_scorer.py).                  *)
(*                                                                         *)
(* A row is its place <<page, table, row>>. A header list is a record: its *)
(* number of cells, its normal form (blanks dropped, case and outer spaces *)
(* too), how many of the five columns a schema expects its other cells     *)
(* match, and whether a cell is blank. Densities are in hundredths.        *)
(* The fields and the model's calls of the stages are in PipelineRun.      *)
(***************************************************************************)
EXTENDS Naturals, SequencesExt

CONSTANTS
  MaxPages,
  Heads,      \* the header lists of tables
  PageKinds,  \* pages: a density per schema, and per table its headers and number of rows
  Hints,      \* schema_type of the upload, "none" without one
  VlmEnabled  \* tenant.vlm_enabled

Schemas   == <<"bank_statement", "custody_statement", "swift_confirm">>
WithTable == {"bank_statement", "custody_statement"}

ASSUME MaxPagesAssumption == MaxPages \in Nat \ {0}
ASSUME HeadsAssumption == \A h \in Heads : h.matches \in [WithTable -> 0..5]
ASSUME PageKindsAssumption ==
  PageKinds \subseteq [score : [DOMAIN Schemas -> Nat], tables : Seq([head : Heads, size : Nat])]

VARIABLES
  pc,
  hint,      \* schema_type_hint
  pages,     \* page_outputs; assembling changes their tables in place
  start, at, \* current_start and i of segment_document
  sections,  \* the DocumentSections closed so far
  cur,       \* the section being extracted
  tables,    \* the tables of the assembled section
  results    \* per section: where its tables come from

vars == <<pc, hint, pages, start, at, sections, cur, tables, results>>

(* extract_digital_page: the first row of a table is its header list.        *)
ReadTable(p, i, t) ==
  [page |-> p, index |-> i, head |-> t.head, raw |-> TRUE, ranged |-> FALSE, range |-> {},
   rows |-> [k \in 1..t.size |-> <<p, i, k>>]]
ReadPage(p, kind) ==
  [score |-> kind.score, sizes |-> [i \in DOMAIN kind.tables |-> kind.tables[i].size],
   tables |-> [i \in DOMAIN kind.tables |-> ReadTable(p, i, kind.tables[i])]]

Init ==
  /\ pc = "segment"
  /\ hint \in Hints
  /\ \E n \in 1..MaxPages : \E kinds \in [1..n -> PageKinds] :
       pages = [p \in 1..n |-> ReadPage(p, kinds[p])]
  /\ start = 1 /\ at = 2
  /\ sections = <<>> /\ cur = 0
  /\ tables = <<>> /\ results = <<>>

------------------------------------------------------------------------------
(* The segmenter.                                                            *)

(* max() takes the first schema among equals. *)
Best(w) ==
  CHOOSE k \in DOMAIN w : \A l \in DOMAIN w : w[l] < w[k] \/ (w[l] = w[k] /\ k <= l)

(* _compute_page_profile: more than 0.005. *)
Dominant(p) ==
  LET w == pages[p].score IN IF w[Best(w)] > 0 THEN Schemas[Best(w)] ELSE "unknown"

(* _is_section_boundary: two known schemas, each of more than 0.02. *)
Strong(p) == LET w == pages[p].score IN w[Best(w)] > 2
Boundary(p, q) ==
  /\ Dominant(p) # "unknown" /\ Dominant(q) # "unknown"
  /\ Dominant(p) # Dominant(q)
  /\ Strong(p) /\ Strong(q)

(* _resolve_section_schema: the largest sum, if more than 0.01. *)
Weight(a, b) ==
  [k \in DOMAIN Schemas |-> FoldLeft(+, 0, [i \in 1..(b - a + 1) |-> pages[a + i - 1].score[k]])]
Resolved(a, b) ==
  LET w == Weight(a, b) IN IF w[Best(w)] > 1 THEN Schemas[Best(w)] ELSE "unknown"

Section(a, b) ==
  [first |-> a, last |-> b,
   schema |-> IF Len(pages) = 1 THEN Dominant(1) ELSE Resolved(a, b)]

Close(a, b) == sections' = Append(sections, Section(a, b))

ExtendSection ==
  /\ pc = "segment" /\ at <= Len(pages)
  /\ ~Boundary(at - 1, at)
  /\ at' = at + 1
  /\ UNCHANGED <<pc, hint, pages, start, sections, cur, tables, results>>

CloseSectionOnBoundary ==  \* a mutant of CloseSection
  /\ pc = "segment" /\ at <= Len(pages)
  /\ Boundary(at - 1, at)
  /\ Close(start, at)
  /\ start' = at /\ at' = at + 1
  /\ UNCHANGED <<pc, hint, pages, cur, tables, results>>

CloseSection ==
  /\ pc = "segment" /\ at <= Len(pages)
  /\ Boundary(at - 1, at)
  /\ Close(start, at - 1)
  /\ start' = at /\ at' = at + 1
  /\ UNCHANGED <<pc, hint, pages, cur, tables, results>>

CloseLast ==
  /\ pc = "segment" /\ at > Len(pages)
  /\ Close(start, Len(pages))
  /\ pc' = "assemble" /\ cur' = 1
  /\ UNCHANGED <<hint, pages, start, at, tables, results>>

------------------------------------------------------------------------------
(* The assembler. Table by table, a table joins the one collected last or is *)
(* collected next to it.                                                     *)
RowsOf(ts) == FlattenSeq([i \in DOMAIN ts |-> ts[i].rows])

(* _get_page_range. *)
PagesOf(t) == IF t.ranged THEN t.range ELSE {t.page}

(* _stitch_multi_page_tables: the page of a stitched table stays that of its *)
(* first part, so a third page is never stitched on.                         *)
Continues(t, u) == u.page = t.page + 1 /\ t.head.cells > 0 /\ u.head = t.head

StitchedByCount(t, u) ==  \* a mutant of Stitched: one page more for each part
  [t EXCEPT !.rows = t.rows \o u.rows, !.raw = FALSE, !.ranged = TRUE,
     !.range = PagesOf(t) \cup {Max(PagesOf(t)) + 1}]

Stitched(t, u) ==
  [t EXCEPT !.rows = t.rows \o u.rows, !.raw = FALSE, !.ranged = TRUE,
     !.range = PagesOf(t) \cup PagesOf(u)]

StitchOn(out, t) ==
  IF Continues(Last(out), t) THEN [out EXCEPT ![Len(out)] = Stitched(Last(out), t)]
                             ELSE Append(out, t)

Stitch(ts) ==
  LET out[k \in DOMAIN ts] == IF k = 1 THEN <<ts[1]>> ELSE StitchOn(out[k - 1], ts[k])
  IN IF ts = <<>> THEN <<>> ELSE out[Len(ts)]

(* merge_continuation_tables: equal normal forms, on whatever pages.         *)
SameHeaders(t, u) == u.head.norm = t.head.norm /\ u.head.cells > 0

Merged(t, u) ==
  [t EXCEPT !.rows = t.rows \o u.rows, !.ranged = TRUE, !.range = t.range \cup u.range]

MergeOnAndKeep(out, t) ==  \* a mutant of MergeOn: a table is merged and kept as well
  IF SameHeaders(Last(out), t)
  THEN Append([out EXCEPT ![Len(out)] = Merged(Last(out), t)], t)
  ELSE Append(out, t)

MergeOn(out, t) ==
  IF SameHeaders(Last(out), t) THEN [out EXCEPT ![Len(out)] = Merged(Last(out), t)]
                               ELSE Append(out, t)

Merge(ts) ==
  LET out[k \in DOMAIN ts] == IF k = 1 THEN <<ts[1]>> ELSE MergeOn(out[k - 1], ts[k])
  IN IF ts = <<>> THEN <<>> ELSE out[Len(ts)]

TablesOf(a, b) == FlattenSeq([i \in 1..(b - a + 1) |-> pages[a + i - 1].tables])
Assembled(a, b) == Merge(Stitch(TablesOf(a, b)))

(* A merged table whose first part is a page's own dictionary is merged into *)
(* that dictionary.                                                          *)
AfterAssembly(out) ==
  [p \in DOMAIN pages |->
     [pages[p] EXCEPT !.tables =
        [i \in DOMAIN pages[p].tables |->
           LET own == {k \in DOMAIN out : out[k].raw /\ out[k].page = p /\ out[k].index = i}
           IN IF own = {} THEN pages[p].tables[i] ELSE out[CHOOSE k \in own : TRUE]]]]

Assemble ==
  /\ pc = "assemble"
  /\ LET out == Assembled(sections[cur].first, sections[cur].last)
     IN tables' = out /\ pages' = AfterAssembly(out)
  /\ pc' = "extract"
  /\ UNCHANGED <<hint, start, at, sections, cur, results>>

------------------------------------------------------------------------------
(* The hint of the upload goes before the section's schema; with neither the *)
(* section is detected on its own (detect_schema).                           *)
Routes ==
  LET told == IF hint = "none" THEN sections[cur].schema ELSE hint
  IN IF told = "unknown" THEN ToSet(Schemas) \cup {"unknown"} ELSE {told}

(* _header_match_score, in fifths: an empty cell is a substring of every     *)
(* expected header.                                                          *)
HeaderScore(h, s) == IF h.blank THEN 5 ELSE h.matches[s]

Candidates(s) ==
  {i \in DOMAIN tables : tables[i].head.cells > 0 /\ HeaderScore(tables[i].head, s) >= 3}

(* extract_table_by_header: the first of the best, if it matches three of    *)
(* the five.                                                                 *)
Picked(s) ==
  LET Score(i) == HeaderScore(tables[i].head, s)
  IN CHOOSE i \in Candidates(s) : \A j \in Candidates(s) :
       Score(j) < Score(i) \/ (Score(j) = Score(i) /\ i <= j)

PageRange(t) == IF t.range # {} THEN t.range ELSE {t.page}

Result(kind, range, rows, flaws, verdict) ==
  [kind |-> kind, range |-> range, rows |-> rows, flaws |-> flaws, verdict |-> verdict]

Finish(r) ==
  /\ results' = Append(results, r)
  /\ IF cur = Len(sections) THEN pc' = "whole" /\ UNCHANGED cur
                            ELSE pc' = "assemble" /\ cur' = cur + 1
  /\ UNCHANGED <<hint, pages, start, at, sections, tables>>

PickTable ==
  /\ pc = "extract"
  /\ \E s \in Routes \cap WithTable :
       /\ Candidates(s) # {}
       /\ LET t == tables[Picked(s)]
          IN Finish(Result("rules", PageRange(t), t.rows, {}, "unscored"))

NoTable ==
  /\ pc = "extract"
  /\ \E s \in Routes : s \in WithTable => Candidates(s) = {}
  /\ Finish(Result("none", {}, <<>>, {}, "unscored"))

(* The checks of score_tables, and those its tables deserve to fail.         *)
Checks == {"cell_fragmentation", "header_fragmentation", "date_column_incoherence",
           "row_uniformity", "numeric_column_incoherence"}

(* The runner wraps the text parser's rows, dictionaries, in TableRow: a     *)
(* check that reads their values raises, and a check that raises has passed. *)
RaisesOnTableRow(c) == c # "header_fragmentation"
Passes(c, flaws) == RaisesOnTableRow(c) \/ c \notin flaws
Verdict(flaws) == IF \A c \in Checks : Passes(c, flaws) THEN "pass" ELSE "fail"

Flaws == {{}} \cup {{c} : c \in Checks}

(* detect_text_tables counts the pages of the section from one. Its tables   *)
(* are scored if the tenant has the model that would replace them.           *)
ParseText ==
  LET range == 1..(sections[cur].last - sections[cur].first + 1)
  IN /\ pc = "extract"
     /\ \E s \in Routes \cap WithTable : Candidates(s) = {}
     /\ \E flaws \in IF VlmEnabled THEN Flaws ELSE {{}} :
          Finish(Result("text", range, <<>>, flaws,
                        IF VlmEnabled THEN Verdict(flaws) ELSE "unscored"))

------------------------------------------------------------------------------
(* The whole document is assembled once more for validation, and before that *)
(* for a retry; both read its tokens only.                                   *)
AssembleWhole(next) ==
  /\ LET out == Assembled(1, Len(pages))
     IN tables' = out /\ pages' = AfterAssembly(out)
  /\ pc' = next
  /\ UNCHANGED <<hint, start, at, sections, cur, results>>

Retry == pc = "whole" /\ AssembleWhole("retried")
Validate == pc \in {"whole", "retried"} /\ AssembleWhole("done")

Next ==
  \/ ExtendSection \/ CloseSection \/ CloseLast
  \/ Assemble \/ PickTable \/ NoTable \/ ParseText
  \/ Retry \/ Validate

Spec == Init /\ [][Next]_vars

------------------------------------------------------------------------------
(* The sections are disjoint runs of pages, in order, and together they are  *)
(* the document: no page is extracted twice or never (segment_document).     *)
SectionsPartition ==
  /\ \A k \in DOMAIN sections : sections[k].first <= sections[k].last
  /\ \A k, l \in DOMAIN sections : k < l => sections[k].last < sections[l].first
  /\ pc # "segment" =>
       \A p \in DOMAIN pages : \E k \in DOMAIN sections :
         p \in sections[k].first..sections[k].last

RowsRead(p) ==
  FlattenSeq([t \in DOMAIN pages[p].sizes |-> [k \in 1..pages[p].sizes[t] |-> <<p, t, k>>]])
SourceRows(a, b) == FlattenSeq([i \in 1..(b - a + 1) |-> RowsRead(a + i - 1)])

(* Stitching, merging and merging in place neither lose, repeat nor reorder  *)
(* a row of the section, however its tables' headers repeat, differ or are   *)
(* blank (assemble).                                                         *)
RowsInOrder ==
  pc = "extract" => RowsOf(tables) = SourceRows(sections[cur].first, sections[cur].last)

(* The page range a rule table is delivered with only names pages of its own *)
(* section that have rows in it, pages apart that have a table of headers    *)
(* and no row (_get_page_range, merge_continuation_tables).                  *)
RangeNamesItsPages ==
  \A k \in DOMAIN results : results[k].kind = "rules" =>
    \A p \in results[k].range :
      /\ p \in sections[k].first..sections[k].last
      /\ \/ \E i \in DOMAIN results[k].rows : results[k].rows[i][1] = p
         \/ \E t \in DOMAIN pages[p].sizes : pages[p].sizes[t] = 0

(* "the `cell_fragmentation` check passes if and only if the fraction of     *)
(* cells with 3 or fewer characters is <= 0.40" (intelligent-extraction-     *)
(* improvement/design.md, property 2), and so on for the other checks.       *)
FlawedTablesFail ==
  \A k \in DOMAIN results : results[k].verdict = "pass" => results[k].flaws = {}
=============================================================================
