------------------------- MODULE ChunkedExtraction -------------------------
(***************************************************************************)
(* VLM extraction of one section: _vlm_fallback of pipeline/runner.py with *)
(* extract_chunked of pipeline/vlm/chunked_extractor.py, the token budget, *)
(* and the two-phase extraction of pipeline/vlm/llm_extractor.py as one    *)
(* step.  The third tier is never selected and is left out.                *)
(*                                                                         *)
(* A window task suspends for the semaphore and in its VLM call, which     *)
(* runs in a thread; everything else runs on the event loop between those. *)
(* The VLM reads the lines of the pages it is sent and names every field   *)
(* it is asked for; for which of them it has a value is its choice.        *)
(***************************************************************************)
EXTENDS SlidingWindows, SequencesExt

CONSTANTS
  Fields,          \* the field names in play
  FieldLists,      \* the lists of abstained fields a section may come with
  PageCounts,      \* the numbers of pages it may have
  Lines,           \* the transactions on each page, in order
  Key,             \* TransactionKey of each transaction
  ZeroAmount,      \* the transactions whose amount is 0
  MaxConcurrent,   \* vlm_max_concurrent_windows
  MaxTokens,       \* vlm_max_tokens_per_job
  Actions,         \* the settings of vlm_budget_exceeded_action
  MaxCost          \* bound: tokens of one call, in and out

ASSUME ChunkAssumption ==
  /\ PageCounts \subseteq Nat \ {0}
  /\ MaxConcurrent \in Nat \ {0} /\ MaxTokens \in Nat /\ MaxCost \in Nat
  /\ Actions \subseteq {"flag", "skip", "proceed"}
  /\ "accounts" \notin Fields /\ FieldLists \subseteq Seq(Fields)

ASSUME LinesAssumption ==
  \A n \in PageCounts : \A p \in 1 .. n : p \in DOMAIN Lines /\ Lines[p] \in Seq(DOMAIN Key)

VARIABLES
  job,          \* the section: pages, wanted fields, missing tables, settings
  windows,      \* its PageWindows: first and last page, fields asked for
  stage,        \* where _vlm_fallback is
  calls,        \* what became of each window
  found,        \* the fields each window's answer has a value for
  consumed,     \* TokenBudget.total_consumed
  transactions, \* merged["transactions"]
  resolved, abstained, tableAbstained   \* what the section is left with

outputs == <<resolved, abstained, tableAbstained>>
vars    == <<job, windows, stage, calls, found, consumed, transactions, outputs>>

-----------------------------------------------------------------------------
(***************************************************************************)
(* Tiers and windows.  A section s has pages, a list of wanted fields,     *)
(* which are its own abstentions or the six an unknown schema is given,    *)
(* tables it abstained on, and a text that fits into one call or not.      *)
(***************************************************************************)

\* HEADER_FIELDS with FIELD_PAGE_MAPPING: the pages each is looked for on, in
\* a document of n pages.
HeaderFields == {"institution", "client_name", "statement_date", "period_from",
                 "period_to", "account_number", "iban", "opening_balance",
                 "closing_balance", "currency"}
AtMost(p, n) == IF p < n THEN p ELSE n
FieldPages(f, n) ==
  CASE f \in {"institution", "client_name"}       -> 1 .. 1
    [] f \in {"opening_balance", "currency"}      -> 1 .. AtMost(3, n)
    [] f = "closing_balance"                      -> (IF n > 1 THEN n - 1 ELSE 1) .. n
    [] OTHER                                      -> 1 .. AtMost(2, n)

\* select_extraction_tier.
TierOf(s) ==
  CASE s.fits -> "single"
    [] ~ s.fits /\ s.wanted # <<>> /\ ToSet(s.wanted) \subseteq HeaderFields -> "tier1"
    [] OTHER -> "tier2"

\* A field joins the first group that shares a page with it.
Groups(s) ==
  LET Join(groups, f) ==
        LET pages == FieldPages(f, s.pages)
            g     == SelectInSeq(groups, LAMBDA group : group.pages \cap pages # {})
        IN IF g = 0 THEN Append(groups, [pages |-> pages, fields |-> {f}])
           ELSE [groups EXCEPT ![g].pages = @ \cup pages, ![g].fields = @ \cup {f}]
  IN FoldLeft(Join, <<>>, s.wanted)

\* One page becomes two where there is a second; five are the most.
TargetWindow(group, n) ==
  LET from == Min(group.pages)
      to   == Max(group.pages)
      wide == IF to = from /\ to < n THEN from + 1 ELSE to
  IN [from |-> from, to |-> IF wide - from >= 5 THEN from + 4 ELSE wide,
      fields |-> group.fields]

\* The windows of the second tier are asked for all of the header.
WindowsOf(s) ==
  CASE TierOf(s) = "tier1" ->
         [k \in DOMAIN Groups(s) |-> TargetWindow(Groups(s)[k], s.pages)]
    [] TierOf(s) = "tier2" ->
         [k \in {i + 1 : i \in WindowIndices(s.pages)} |->
            [from   |-> SlidingWindow(k - 1, s.pages).from,
             to     |-> SlidingWindow(k - 1, s.pages).to,
             fields |-> ToSet(s.wanted) \cap HeaderFields]]
    [] OTHER -> <<>>

Tier    == TierOf(job)
Wanted  == ToSet(job.wanted)
Indices == DOMAIN windows

-----------------------------------------------------------------------------
(***************************************************************************)
(* The window tasks and the budget.                                        *)
(***************************************************************************)

Exceeded   == consumed > MaxTokens
Spent      == job.action = "skip" /\ Exceeded
Calling    == {i \in Indices : calls[i] = "calling"}
Answered   == {i \in Indices : calls[i] = "answered"}

\* The first tier calls one by one.
Limit == IF Tier = "tier1" THEN 1 ELSE MaxConcurrent

\* Mutant: no semaphore.
SlotAlways == TRUE

\* Mutant: a failing call keeps its place.
SlotLeaks == Cardinality({i \in Indices : calls[i] \in {"calling", "failed"}}) < Limit

SlotFree == Cardinality(Calling) < Limit

\* The next window in line enters the semaphore, or the loop of the first
\* tier: it is sent to the VLM or, the budget being spent, given up.
Begin(i) ==
  /\ stage = "windows" /\ calls[i] = "waiting" /\ SlotFree
  /\ \A h \in Indices : h < i => calls[h] # "waiting"
  /\ calls' = [calls EXCEPT ![i] = IF Spent THEN "skipped" ELSE "calling"]
  /\ UNCHANGED <<job, windows, stage, found, consumed, transactions, outputs>>

\* The VLM answers, with something that parses or not; either is paid for.
Returns(i) ==
  /\ stage = "windows" /\ calls[i] = "calling"
  /\ \E cost \in 0 .. MaxCost : consumed' = consumed + cost
  /\ \/ /\ calls' = [calls EXCEPT ![i] = "answered"]
        /\ \E fs \in SUBSET windows[i].fields : found' = [found EXCEPT ![i] = fs]
     \/ calls' = [calls EXCEPT ![i] = "null"] /\ UNCHANGED found
  /\ UNCHANGED <<job, windows, stage, transactions, outputs>>

\* The exception reaches _bounded_process_section_vlm, and the section keeps
\* the abstentions it came with.
GivenUp ==
  /\ stage' = "done"
  /\ resolved' = {} /\ abstained' = IF job.own THEN Wanted ELSE {}
  /\ tableAbstained' = job.tables

\* The call raises: a window task returns None, the first tier passes it on.
Raises(i) ==
  /\ stage = "windows" /\ calls[i] = "calling"
  /\ calls' = [calls EXCEPT ![i] = "failed"]
  /\ IF Tier = "tier1" THEN GivenUp ELSE UNCHANGED <<stage, outputs>>
  /\ UNCHANGED <<job, windows, found, consumed, transactions>>

\* JSON comes back, but no object or none that can be merged, as a list or
\* transactions that are null: the first tier raises when it adds the answer to
\* its results, the second keeps it for the merge.
ReturnsOther(i) ==
  /\ stage = "windows" /\ calls[i] = "calling"
  /\ \E cost \in 0 .. MaxCost : consumed' = consumed + cost
  /\ calls' = [calls EXCEPT ![i] = "other"]
  /\ IF Tier = "tier1" THEN GivenUp ELSE UNCHANGED <<stage, outputs>>
  /\ UNCHANGED <<job, windows, found, transactions>>

-----------------------------------------------------------------------------
(***************************************************************************)
(* Merging.                                                                *)
(***************************************************************************)

LinesOf(w) == FlattenSeq([k \in 1 .. w.to - w.from + 1 |-> Lines[w.from + k - 1]])

\* Mutant: a key is looked for in the preceding line only.
KeptAfterOther(all, k) ==
  \/ all[k] \in ZeroAmount \/ k = 1
  \/ Key[all[k - 1]] # Key[all[k]]

\* A transaction is kept unless its key was seen; those of amount 0 always.
Kept(all, k) ==
  \/ all[k] \in ZeroAmount
  \/ \A j \in 1 .. k - 1 : all[j] \in ZeroAmount \/ Key[all[j]] # Key[all[k]]

Deduplicated(all) ==
  FlattenSeq([k \in DOMAIN all |-> IF Kept(all, k) THEN <<all[k]>> ELSE <<>>])

\* The answers in the order of their windows; a single one is not looked into.
AnsweredLines ==
  FlattenSeq([i \in Indices |-> IF i \in Answered THEN LinesOf(windows[i]) ELSE <<>>])
MergedTransactions ==
  CASE Tier # "tier2" -> <<>>
    [] Tier = "tier2" /\ Cardinality(Answered) <= 1 -> AnsweredLines
    [] OTHER -> Deduplicated(AnsweredLines)

\* Of the first answer's header, with the closing balance of the last.
MergedFields ==
  CASE Tier = "tier1" -> UNION {found[i] : i \in Answered}
    [] Tier = "tier2" /\ Answered # {} ->
         found[Min(Answered)] \cup (found[Max(Answered)] \cap {"closing_balance"})
    [] OTHER -> {}

\* Mutant: fields no answered window was asked for are forgotten.
UnresolvedIfAnswered == (Wanted \cap UNION {windows[i].fields : i \in Answered}) \ MergedFields

\* With the budget spent a field is given up when the merged result has no
\* such key: a null value counts as one, and the keys of the second tier are
\* a level further down.  Otherwise, when no value came back.
Unresolved ==
  IF Spent
  THEN Wanted \ UNION {windows[i].fields : i \in IF Tier = "tier1" THEN Answered ELSE {}}
  ELSE Wanted \ MergedFields

\* All windows have come to an end; one that cannot be merged may be among them.
Gathered == stage = "windows" /\ \A i \in Indices : calls[i] \notin {"waiting", "calling"}
Mergeable == \A i \in Indices : calls[i] # "other"

\* extract_chunked returns; missing tables are then left to the two phases,
\* and their abstention is not passed on whatever comes of it.
Merge ==
  /\ Gathered /\ Mergeable
  /\ transactions' = MergedTransactions
  /\ resolved' = Wanted \cap MergedFields /\ abstained' = Unresolved
  /\ stage' = IF job.tables THEN "phases" ELSE "done"
  /\ UNCHANGED <<job, windows, calls, found, consumed, tableAbstained>>

\* One answer that cannot be merged costs the section all of them.
MergeRaises ==
  /\ Gathered /\ ~ Mergeable /\ GivenUp
  /\ UNCHANGED <<job, windows, calls, found, consumed, transactions>>

-----------------------------------------------------------------------------
(***************************************************************************)
(* The two phases.                                                         *)
(***************************************************************************)

\* Taken from the metadata call although nobody asked.
Metadata == {"institution", "client_name", "statement_date", "period_from", "period_to"}
Accounts(some) == IF some THEN {"accounts"} ELSE {}

\* The whole document in one call: its answer is all there is.
SingleReturns ==
  /\ stage = "phases" /\ job.fits /\ stage' = "done"
  /\ \E some \in BOOLEAN, fs \in SUBSET Fields :
       /\ resolved' = (fs \cap (Wanted \cup Metadata)) \cup Accounts(some)
       /\ abstained' = Wanted \ fs
  /\ UNCHANGED <<job, windows, calls, found, consumed, transactions, tableAbstained>>

\* After windows: it may add accounts, and metadata only next to accounts.
PhasesReturn ==
  /\ stage = "phases" /\ ~ job.fits /\ stage' = "done"
  /\ \/ UNCHANGED resolved
     \/ \E fs \in SUBSET (Fields \cap Metadata) : resolved' = resolved \cup fs \cup Accounts(TRUE)
  /\ UNCHANGED <<job, windows, calls, found, consumed, transactions, abstained, tableAbstained>>

\* The metadata call raises: what the windows found is lost with it.
PhasesRaise ==
  /\ stage = "phases" /\ GivenUp
  /\ UNCHANGED <<job, windows, calls, found, consumed, transactions>>

-----------------------------------------------------------------------------

\* _vlm_fallback is called for a section that lacks something; the fields an
\* unknown schema is given are all of the header.
Sections ==
  {s \in [pages : PageCounts, wanted : FieldLists, own : BOOLEAN, tables : BOOLEAN,
          fits : BOOLEAN, action : Actions] :
     /\ s.wanted # <<>> \/ s.tables
     /\ s.own \/ (s.wanted # <<>> /\ ToSet(s.wanted) \subseteq HeaderFields)}

Init ==
  /\ job \in Sections /\ windows = WindowsOf(job)
  /\ stage = IF job.fits THEN "phases" ELSE "windows"
  /\ calls = [i \in Indices |-> "waiting"] /\ found = [i \in Indices |-> {}]
  /\ consumed = 0 /\ transactions = <<>>
  /\ resolved = {} /\ abstained = {} /\ tableAbstained = FALSE

Next ==
  \/ \E i \in Indices : Begin(i) \/ Returns(i) \/ ReturnsOther(i) \/ Raises(i)
  \/ Merge \/ MergeRaises \/ SingleReturns \/ PhasesReturn \/ PhasesRaise

Spec == Init /\ [][Next]_vars

\* A call to the VLM ends in some way, and the event loop runs what is ready.
FairSpec == Spec /\ WF_vars(Next)

-----------------------------------------------------------------------------
(***************************************************************************)
(* Properties.                                                             *)
(***************************************************************************)

\* Under "skip" the budget is overrun by no more than the calls that may be
\* under way at once (TokenBudget.can_proceed is asked inside the semaphore
\* and usage is recorded after the call).
BudgetBound ==
  job.action = "skip" =>
    consumed + Cardinality(Calling) * MaxCost <= MaxTokens + Limit * MaxCost

\* Two lines with an amount do not share a key.
KeysDiffer ==
  \A n \in PageCounts : \A p, q \in 1 .. n :
    \A i \in DOMAIN Lines[p], j \in DOMAIN Lines[q] :
      /\ Lines[p][i] \notin ZeroAmount /\ Lines[q][j] \notin ZeroAmount
      /\ Key[Lines[p][i]] = Key[Lines[q][j]]
      => p = q /\ i = j

NonZero(s) == FlattenSeq([k \in DOMAIN s |-> IF s[k] \in ZeroAmount THEN <<>> ELSE <<s[k]>>])

\* Once merged, every transaction on a page some answered window read is there
\* once, in the order of the pages, however many windows read it, and in which
\* order they were answered (create_sliding_windows, merge_window_results;
\* the keys of different transactions being different, amounts not 0 and the
\* answers such that they can be merged).  If all windows were answered, that
\* is every page.
EveryLineOnce ==
  LET read == UNION {PagesOf(windows[i]) : i \in Answered}
  IN stage # "windows" /\ Tier = "tier2" /\ Mergeable =>
       /\ NonZero(transactions) =
            FlattenSeq([p \in 1 .. job.pages |-> IF p \in read THEN NonZero(Lines[p]) ELSE <<>>])
       /\ Answered = Indices => read = 1 .. job.pages

\* In the end a wanted field has a value or an abstention (_vlm_fallback), and
\* both only where the budget was spent or the two phases came after; except
\* for a null value in the first tier with the budget spent, and for a section
\* without abstentions of its own that is given up.
FieldsKept ==
  stage = "done" =>
    /\ \/ Wanted \subseteq resolved \cup abstained
       \/ Spent /\ Tier = "tier1"
       \/ ~ job.own /\ resolved \cup abstained = {}
    /\ ~ Spent /\ ~ job.tables => resolved \cap abstained = {}

\* The fallback of a section comes to its end whatever the calls return
\* (semaphore and gather of _extract_tier2, loop of _extract_tier1).
ExtractionEnds == <>(stage = "done")

=============================================================================
