# A TLA+ model of the smart PDF extractor

The repository is a service that takes PDFs over HTTP, extracts their fields
and tables with rules, templates and a VLM, and serves the results.  This
directory holds TLA+ modules for the parts of it whose correctness depends on
the order of events or on a decision over many cases: the durable job queue and
its workers, the upload API, the pipeline run of one document with its VLM
fallback, the clients of the remote models and their circuit breaker, the
template tier with its learn lock, schemas that are discovered and approved,
the chunked VLM extraction with its token budget, the rule path from pages to
tables, the validators, and the alert engine.  TLC checks them on small
instances; TLAPS proves the central results for every instance.

All paths below are relative to `src/pdf_ingestion/`.

## 1. The system

### 1.1 Components

| Component | State it keeps | Operations | What makes it correct | Model |
|---|---|---|---|---|
| Durable queue: `db/job_queue.py`, `db/job_repo.py`, SQL function `claim_next_job` (migration 0007) | tables `jobs`, `job_payloads`, `results` | create_job, enqueue, claim, complete, fail, retry_later, set_status, save_result, acknowledge_review | one claim at a time; an unfinished job keeps its PDF and can be claimed again; a closed job nobody works on stays closed | `JobQueue` |
| Worker pool and read caches: `api/worker.py`, `_JOBS`/`_RESULTS` in `api/routes/extract.py` | locals of each task; two dictionaries, rebuilt from the tables at startup | claim, build tenant, run pipeline, retry or give up, save, close, record | every accepted job is closed once; caches never run ahead of tables; review flag matches the stored output | `WorkerPool`, `JobLifecycle` |
| Upload API: `api/routes/extract.py`, `api/routes/jobs.py`, `pipeline/dedup_store.py` | dedup file, background tasks | submit (with dedup and force), enqueue or in-process fallback, cancel | what was answered 'queued' survives a crash; a duplicate's id is known to the tenant whose job it is; every submission is settled | `ExtractionService` |
| Pipeline runner: `pipeline/runner.py`, `packager.py`, `self_healing/diagnostic_retry.py` | the sections' results, the merged output, the progress record | ingest, classify, OCR, extract by rules, escalate, VLM fallback, merge, retry, validate, package | every name answered for once; a table's origin can be told; shown progress does not go back; a run ends | `PipelineRun` |
| Clients of remote models: `pipeline/vlm/bedrock_client.py`, `pipeline/extractors/ocr.py` | a circuit breaker shared by threads, a cache | extract_field, extract_tokens | the breaker agrees with the failures counted; calls end; an outage does not outlive itself | `VlmClient` |
| Schema discovery and approval: `pipeline/discovery/*`, `api/routes/chat.py`, `api/routes/schema_cache.py` | pending store and schema cache in memory, tokens used | discover, extract, store for approval, approve, expire, invalidate | what is served was granted; an approval happens once; every field of a schema is answered for; each discovery overruns its budget by one call at most | `SchemaDiscovery` |
| Template tier: `pipeline/schemas/router.py`, `learn_lock.py`, `pg_template_store.py`, `api/routes/feedback.py` | tables `schema_templates`, `template_quarantine`; one asyncio lock per tenant and layout | route, recheck, discover, save, correct | one discovery per batch; a corrected template stays away; tenants do not disturb each other; no lock is left behind | `TemplateLearning` |
| Chunked VLM extraction, token budget: `pipeline/vlm/chunked_extractor.py`, `token_budget.py`, `_vlm_fallback` in `pipeline/runner.py` | a section's windows, semaphore and token counters | choose a tier, cut windows, call, charge, merge, two-phase extraction | overrun bounded; every line read merged once; no wanted field forgotten; the fallback ends | `ChunkedExtraction`, `SlidingWindows` |
| Segmentation, assembly, table choice, quality score: `pipeline/section_segmenter.py`, `assembler.py`, `schemas/base.py`, `quality_scorer.py` | none beyond the document | cut sections, stitch and merge tables, pick a section's table, score the text parser's | each page in one section; no row lost or repeated; page ranges true; flawed tables fail | `DocumentRules` |
| Validators: `pipeline/validator.py` | none | twelve pure functions, one after the other | a wrong row is seen, a right statement passes; check digits | `Validators` |
| Alert engine: `pipeline/alerts/engine.py`, `api/routes/admin_alerts.py` | lists of rules and history entries, the iterator of the running pass | pass, abstention query, breaker event, create, update, delete | one entry per firing; the documented cycle; rules end where their condition is | `AlertEngine` |
| Self-healing | | the diagnostic retry is in `PipelineRun`; miner and learner have no caller | | partly |
| Review queue, progress and chat endpoints | rows, the progress store | acknowledge, show, approve | | in `WorkerPool`, `PipelineRun`, `SchemaDiscovery` |
| Delivery, log sink, tenancy and authentication, usage and health endpoints, frontend, scripts | | | | not modelled, see section 7 |

### 1.2 How they interact

A request (`submit_extraction`) writes the job's row and payload and answers
`queued`.  Worker tasks of the same process poll `claim_next_job`, run
`execute_pipeline` and write the outcome; `GET /v1/jobs` reads the in-memory
caches, which the workers update after the tables and which a restart rebuilds
from the tables.  If the enqueue fails the request runs the pipeline itself,
in a background task.  The pipeline cuts the document into sections and routes
each through the template tier, which shares one store and one set of locks
among all jobs of the process; corrections reach that store from the feedback
endpoint.  What rules and templates leave open is asked of the VLM section by
section, all sections at once, a large section in windows; the calls go through
one client and its breaker from executor threads.  A section whose tables score
badly, or whose schema is unknown, is given a discovered schema, which is kept
for a user to approve.  The merged output is retried once if it is poor,
validated, and packaged.  The alert engine is a task of its own that reads
usage counters, job rows and breaker events and is edited by admin requests.

Everything in a process runs on one event loop, so interleaving happens only at
`await`s, and the modules cut every coroutine there and nowhere else.  The one
exception is the breaker, which executor threads share: see `VlmClient`.

### 1.3 What is hard here

* Claims have no heartbeat and no fencing: after `stale_seconds` a second
  worker takes the job while the first may still be running.
* A crash loses tasks and caches and keeps tables and the dedup file.
* A database call may raise before or after its commit took effect, at some
  places caught, at others not.
* Memory and tables are written in different orders by worker and fallback.
* The fallback's sections run side by side and may fail one by one after what
  they are to replace was already replaced; the merge drops abstentions by name.
* Tenants share the dedup store but not the jobs it names.
* Amounts are binary floats compared with a tolerance of two cents.
* Threads count failures and successes into one breaker without a lock.
* Documents of one unseen layout miss the template store together; saving a
  template lifts a quarantine that may concern another one.
* A schema is proposed, stored twice (for use and for approval), approved by a
  request that may be repeated, expire, or come from elsewhere.
* Windows of a section call the VLM concurrently against one budget, answer in
  any order or fail, and overlap in the pages they read.
* Section and table boundaries: half-open ranges, headers that repeat, differ
  in spelling or are blank, in-place merging.
* Rules are deleted and edited under the running pass of the alert engine.

`PROJECT.json` lists each hazard with its line and the properties aimed at it.

## 2. Modules

| Module | Role |
|---|---|
| `JobQueue` | the three tables; one operator per committed transaction |
| `WorkerPool` (EXTENDS `JobQueue`) | worker tasks, caches, crash and restart, time; properties and the inductive invariant |
| `JobLifecycle` | abstract specification of the queue: verdicts, reviews, what clients are told |
| `ExtractionService` (EXTENDS `WorkerPool`) | composes the pool with the upload handler, the fallback, the dedup store, cancel |
| `PipelineRun` | one run of the pipeline over one document |
| `VlmClient` | the clients of the remote models and their breaker |
| `SchemaDiscovery` | discovery, extraction along a discovered schema, approval |
| `TemplateLearning` | template tier |
| `SlidingWindows` | the page windows of a document, as operators |
| `ChunkedExtraction` (EXTENDS `SlidingWindows`) | VLM fallback of one section |
| `DocumentRules` | from pages to sections to tables |
| `Validators` | the validators over one output and the statement it was read from |
| `AlertEngine` | alert engine |
| `WorkerPoolProofs`, `AlertEngineProofs`, `PipelineRunProofs`, `VlmClientProofs`, `SchemaDiscoveryProofs`, `TemplateLearningProofs`, `ChunkedExtractionProofs`, `DocumentProofs` | theorems |
| `MC*` | instances for TLC |

A definition marked as a mutant is a variant of a definition next to it with a
plausible mistake; substituting it must break the property named for it in
`PROJECT.json`, which shows that the property depends on the code.

### 2.1 JobQueue and WorkerPool

A column is a function on job ids.  Wall-clock columns are kept as what the
`WHERE` clause compares them for: `claimed_at` is none, fresh or stale;
`available_at` is a job's place among the rows already due.  `claimed_by` is
never read and left out.  A pipeline result is one of five outcomes: its status
and whether it holds abstentions; `error` is the row of a job given up on.

A task is a record: its stage, the claimed job, the attempt number the claim
returned, and the outcome.  Each action is one transaction (or one run of the
pipeline) with the memory it touches until the next `await`: `ClaimNextJob`,
`LoadPayload` (both `JobQueue.claim`), `BuildTenant`, `PipelineReturns`,
`PipelineRaises`, `RetryLater`, `GiveUp`, `SaveResult`, `CloseOut`,
`RecordJobResult`, `SaveErrorResult`.  Their `...Errors` twins are database
errors; where the code does not catch one the task becomes `dead`, because the
exception leaves `_process` and `_loop`.  `Crash` also stands for
`JobWorkerPool.stop`.  `StaleElapses` is time: a stale claim whose worker still
holds it is an *overtake* and is counted against `MaxOvertakes`.

### 2.2 JobLifecycle

What a client may rely on: an accepted job is closed exactly once, its verdict
never changes, a review flag is raised only by the closing and cleared only by
a human, and the API calls a job finished only when it is.  `WorkerPool`
implements it with verdict read off `jobs.status`, review off
`jobs.needs_review` and told off the cache.

### 2.3 ExtractionService

A request draws a fresh job id, so it is known by it.  `route` is where the
request or its fallback task is: creating the row, registering the hash,
enqueuing; running, finishing, saving the result.  `EnqueueFails` covers the
commit that took effect although its answer was lost: then the fallback and a
worker both process the job.  `WorkerPool`'s `Submit` and `Crash` are replaced
by the steps they summarise.  `Tenants` divides the requests: the dedup file
knows none (`extract.py:157`), `get_job` answers only the tenant of the job
(`Finds`).  `CancelJob` sets the status clients read and nothing else, as the
code does: the worker or fallback goes on.

### 2.4 PipelineRun

One behaviour is one call of `process_document`, cut at its awaits.  What a
page says is abstracted to the *names* of the fields an extractor finds, what a
model answers is any subset of what it is asked for.  `found` keeps each
section's result as the router returned it, `sec` the entry of `section_data`
that the later stages rewrite, `task` the section's fallback task, `out` the
merge (abstentions are kept per account and name), `progress` the JobProgress
record.  Three settings are constants: `BudgetAction`, what a spent budget does
(`vlm_budget_exceeded_action`), and the names the targeted tier looks for
(`Header`) and the clean-up drops (`Custody`).  `FirstPass`, `OcrStart` and `OcrEnd` are the pages; `Segment` and
`ExtractSection` phase 1; the `Escalation...` actions the replacement of badly
scored tables by the model's; `StartFallback`, `SectionStart`, `SectionAnswers`
and `SectionRaises` phase 2 under its semaphore; `Merge` phase 3 with the
clean-up of stale abstentions; `Diagnose` and `Retry` the self-healing retry;
`Package` and `ValidationRaises` the end.  An OCR client, the router's query or
discovery that raises (`OcrRaises`, `RoutingRaises`, `RetryRaises`) fails the
run; OCR tasks that a failed `gather` leaves behind go on and write progress.
A section read by discovery has some of its tables and abstains on others
(`ByDiscovery`).  `spent` records that a section's targeted tier lost
null-valued names to a spent budget under `skip`, and `out.tables` holds which section each table of the
output is of and what produced it.  The fallback of one section is one call here
and is modelled, for itself, by `ChunkedExtraction`.

### 2.5 VlmClient

`BedrockVLMClient` and `PaddleOCRClient` share the breaker class and the shape
of a call; the variable `client` says which one, so both are checked.  A thread
may be switched at the points where the breaker's methods call `time.time()`;
the assignments between two such calls are one step.  That is finer than the
event loop and coarser than bytecode: it is what makes `is_call_allowed` and
`record_failure` interruptible between reading and writing.  The failure count
saturates at the threshold, above which nothing reads it.  `service` changes at
will between answering, failing and answering nonsense; `session` is whether
boto3 can build a client at all.

### 2.6 SchemaDiscovery

`discover` and `extract` call the model on the event loop itself, without an
await, so nothing else runs while they do; the module keeps them in steps and
lets requests in only when `LoopIsFree`.  A schema is a set of fields and a set
of tables.  `used` are the tokens charged to the budget of the discovery in
progress, which starts from zero because the runner makes a `TokenBudget` for
each section, each section's fallback and the retry (`runner.py:428`, `1239`,
`1050`).  `Raises` is an answer of another shape than the prompt asks for
(null where a list belongs), which no caller inside the module catches.
`granted` and `spent` are history
variables: what a tenant last approved for a key and still stands, and which
ids were approved.  A request with an id of another tenant, or an expired, spent
or never stored one, is answered 404 and is no step.  `Restart` loses both
stores.

### 2.7 TemplateLearning

A document is one call of `route_and_extract_async`.  Discovery, extraction and
synthesis never suspend and belong to the step that misses under the lock;
store queries suspend, and a commit may take effect although its answer was
lost (`SaveCommits`).  A template is known by its maker (the document it was
learned from, or `Seed`) and by how much it reads of each layout (0: it
abstains), which abstracts regular expressions and header matching.  The lock
is asyncio's FIFO per tenant and layout.  There is one theme: themes never
share rows.  Left out: tenants without VLM, whose synchronous route never reads
the store; the advisory-lock variant of the learn lock, which nothing wires in.

### 2.8 ChunkedExtraction and SlidingWindows

One behaviour is one call of `_vlm_fallback`.  A section is its page count, the
list of fields it wants, whether tables are missing, whether its text fits into
one call, the budget setting, and whether the wanted fields are its own
abstentions or the six that an unknown schema is given.  `windows` holds the
`PageWindow`s of its tier.  A window task suspends at the semaphore and in its
call; the targeted tier is the same with one slot.  `Begin` enters the
semaphore and asks the budget, `Returns` charges it, `ReturnsOther` is an answer
in JSON that is no object or holds no list of transactions, over which the
targeted tier raises at once and the merge later (`MergeRaises`); `Raises` is an exception
(a window answers None; the targeted tier passes it to
`_bounded_process_section_vlm`, `GivenUp`), `Merge` is everything from
`gather` to the end of the windowed branch, `SingleReturns`, `PhasesReturn` and
`PhasesRaise` end the two-phase extraction, which is one step.  The VLM reads the lines of
the pages it is sent and returns the keys it is asked for, null or not.
Left out: the third tier, which `select_extraction_tier` never chooses.

### 2.9 DocumentRules

One behaviour takes one document through `segment_document`, and then section
by section through `assemble`, the choice of a schema's table
(`extract_table_by_header`) or the text parser and the quality score; at the
end the whole document is assembled again, as the retry and the validation do.
A page is its keyword density per schema and its tables; a table is a header
list, abstracted to what comparisons see of it, and the places of its rows, so
that a property can say where each delivered row came from.  Stitching and
merging go table by table: a table joins the one collected last or is collected
behind it (`StitchOn`, `MergeOn`), which is what the look-ahead loop and the
loop of the merge come to.  `pages` is a variable because `merge_continuation_tables` merges into the dictionaries of
the page.  What a quality check measures is a choice (`Flaws`); that four of
the five checks raise on the rows they are given, and count as passed, is not.

### 2.10 Validators

The output is generated from what it was read from: a statement of true
movements, and for each row whether it was read right, without its balance,
without its date, with debit and credit swapped, or missed.  So the properties
compare the verdicts with the truth and not with a copy of the code.  Codes are
sequences of character values whose check digits the module issues by the
standard's definition, and the code's arithmetic is checked against.  Amounts
are whole cents in the module and binary floats in the code, which compares
differences with `> 0.02` (`validator.py:118`, `414`, `479`, `671`, `687`).  As
long as sums are off by less than half a cent (balances below 10^10 and some
thousand rows are), only a difference of exactly two cents depends on the
rounding: 1.52 - (1.00 + 0.50) is 0.020000000000000018 and flagged, where
10.02 - 10.00 is 0.019999999999999574 and passes.  `RunValidator` therefore
reports every failure of more than two cents (`Tolerance`) and any of those of
exactly two (`Rounded`), and no property says which.  Verdicts
that depend on spelling alone (a currency, a BIC, an account number) are those
of a kind of value.  `validate_date_range` raises on 29 February (`Raise`).
Sums and remainders are functions along a sequence, not folds or recursive
operators, so that they can be proved about; a code starts with two letters and
an ISIN has eleven characters before its check digit (`CodesAssumption`), which
is what makes a string a code of either kind in the validators' eyes.  The
initial states and steps are `RunInit` and `RunNext`, because `DocumentProofs`
extends this module and `DocumentRules`.

### 2.11 AlertEngine

`evaluate_all_rules` suspends only at an abstention query, so a pass is cut
there (`StartPass`, `StatsReturn`, `StatsRaise`); the index of Python's list
iterator is part of the state since `DELETE` shifts the list under it.  The
notifiers only log, so sending is not a step.  `handle_circuit_breaker_event`
has no caller in the repository: its events come from outside.  Acknowledging
a history entry sets fields nothing reads and is left out.

## 3. Runs

| Run | Instance | Shows |
|---|---|---|
| pool | 2 jobs, 2 workers, 2 attempts, 1 crash, 1 database error, no overtake | exclusive claims, payloads kept, attempts bounded, caches durable, flags match results, every job finishes, `JobLifecycle` is implemented, liveness included |
| service | 2 uploads of 1 document by 1 tenant, 1 worker, 1 crash, 2 database errors, outputs that failed | 'queued' survives a crash, duplicates are known, the fallback settles its job and its row, queued jobs finish, submissions settle or are cancelled |
| pipeline | 2 pages, 2 sections, 1 OCR slot, a custody name and a name of the header that a model also brings unasked, the budget action `skip` | names accounted for, tables traceable, progress never goes back, every run ends |
| vlm | 2 threads, both clients, 3 failures to open, a window of 2 ticks | the breaker agrees with the failures, calls end, it recovers |
| schemas | 2 tenants, 1 fingerprint, 2 pending ids, 1 field, 2 tables, a budget of one token and calls of up to two | served schemas were granted, approvals happen once, definitions are answered, each discovery one call over its budget |
| templates | 5 documents, 2 tenants, 2 layouts, 2 keys, 1 correction per tenant, 1 error | one discovery per batch, corrected learned templates stay gone, tenants are isolated, every run ends |
| chunked | sections of 1, 3 and 5 pages, windows of 2 pages with 1 in common, 2 calls at once, a budget smaller than one call | overrun bounded, lines merged once and in page order, wanted fields accounted for, the fallback ends |
| documents | up to 3 pages of 21 kinds, three hints, a tenant without VLM | sections partition the pages, rows in order and once, page ranges true |
| validators | statements of up to 3 rows that move -0.50, 0.02 or 0.50, each read in one of five ways; codes of both kinds with right and wrong digits | running-balance breaks are the gaps of more than two cents, one wrong row is seen, check digits are judged |
| alerts | 4 rules, 2 level changes, 3 edits, 1 breaker event, 1 failing query | one open entry per firing, the documented cycle, state follows condition |
| slow, scorer | see section 6 | disagreements of code and documentation |

Why these bounds are enough to be interesting.  Two workers and two jobs are
the least in which a claim can be contested and a job overtaken in line; one
crash and one error at *any* point, in either order, produce every reclaimed
and half-written row; two attempts give a retry and a last attempt.  One
document for two uploads makes every dedup race happen; with two jobs a hash
registered by one is freed by the other.  Two database errors let the enqueue
fail and the fallback's own write after it; the outputs are failed ones there
because only those free a hash, successes are in `pool`.  Two sections of one document are
merged with each other, retried, escalated and failed in every combination, and
one OCR slot for two pages makes a page wait.  Two threads interrupt each other
at every switch point, and three failures need both.  Two tenants share a
fingerprint and two ids for it are pending at once; a budget that one
call may overrun is spent before the second table.  Three documents of one layout and
tenant make a lock queue with a holder, a next and a last; two keys and a
seeded layout allow a learned template to hide beside a global one.  Five pages give four
windows for two slots, so a window waits while others answer, fail or spend the
budget, and pages are read by two windows, one, or none.  Three pages are a
table continued twice, a section of one page between two others, and a table
that follows one of another spelling or one of headers only; the page kinds are
all pairs of three densities and seven table lists.  Three rows have a first, a middle and a last
one, so a break can be caused on either side; two of the amounts cancel out and
the third is of exactly the tolerance, so that both ways its comparison may go
are explored.  Four rules
are the three the code seeds and one that suspends the pass.  What each bound
limits is named where the constant is declared.

`vlm` and `schemas` check deadlock.  The other cfgs say `CHECK_DEADLOCK FALSE`
because the system may rest: a run, a document, a fallback or an output is
finished, or all jobs are closed and the budgets for faults and clients are
used up.  `schemas` uses symmetry of tables, ids and tenants; it checks
invariants only, for which that is sound.

`MaxOvertakes = 0` in `pool` and `service` says that no pipeline run lasts longer
than `stale_seconds` (900 s by default).  The code does not enforce it; run
`slow` shows what happens otherwise; the theorems state it as assumption, except
`TypeCorrect`, `ClosedIsFinalOnceReleased` and `DuplicatesAreKnown`, which hold
for any number of overtakes.
Where a property speaks of `dbErrors = 0` or `<= 1`, the code gives nothing
stronger: a lost `save_result` is logged and ignored.

## 4. Fairness

* `WF(WorkerStep(w))`, `WF(SubmitStep \/ FallbackStep)`, `WF(RunStep(d))`,
  `WF(StartPass)`, `WF(StatsReturn)`: the event loop runs every ready task and
  the database and the pipeline answer in the end.  Weak fairness suffices: a
  task's step stays enabled until it is taken.  Waiting for a learn lock needs
  no strong fairness because the lock is a FIFO.
* `WF(Next)` in `PipelineRun` and `ChunkedExtraction`: a call to OCR or the VLM
  ends (the clients have timeouts and bounded retries), and a task that can run
  is run; one document takes finitely many steps, so this is enough.
* `WF(Work(t))` and `WF(Tick)` in `VlmClient`: a thread goes on with its call
  and time passes.  Nothing obliges anyone to make a call: `Recovers` therefore
  assumes that calls keep coming, and that the service stays up.
* `WF(Restart)` in `WorkerPool`: whatever supervises the process starts it
  again.  Nothing in the repository does; the worker's recovery of abandoned
  claims presumes it.
* `WF(RetryDue(j))`, `WF(~Held(j) /\ StaleElapses(j))`: time passes; a claim
  nobody works on goes stale.
* Nothing obliges faults, overtakes, clients, corrections, approvals, rule
  edits, swings or breaker events.

`EveryJobFinishes` holds in `pool` because one error kills at most one of two
tasks.  With as many errors as tasks it fails: see section 6.

## 5. Proofs

All theorems hold for any number of jobs, workers, documents, pages, threads,
tenants, keys, ids, rows and codes and any bounds.

**WorkerPool** (`WorkerPoolProofs`).  `TypeCorrect` needs no assumption.  The
rest assumes `MaxOvertakes = 0`.  `ExclusiveClaim` is not inductive by itself:
a worker may only be trusted with its row if the row still carries its claim.
`IndInv` adds that

* `HolderOwnsRow`: a holder's job is `processing`, fresh, and has the holder's attempt number;
* `LeaseTracksClaim`: `claimed_at` is set exactly on `processing` rows;
* `AttemptsLeft`: a job that can be claimed has an attempt left, unless crashes or errors paid for it;
* `OutcomeIsRecorded`: what a task holds at its last stages is what it closed the row with;
* `DownIsBlank`: a process that is down has no tasks and no caches.

It is proved in three parts: types, claims (`ClaimsOK`) and reports
(`ReportsOK`), each with lemmas for the ways a holder can move (`HolderMoves`,
`HolderLeaves`, `HolderLoses`, `HolderCloses`, `HolderRequeues`).  From it:
`ClaimsAreExclusive`, `PayloadsAreKept`, `AttemptsAreBounded`,
`ReportsAreDurable`; `Invariance` is all of `IndInv`, of which `Reclaimable` (an
unfinished row can be claimed or has a holder) is a part.

**JobLifecycle** (also in `WorkerPoolProofs`).  `SomeRowStep` condenses all actions:
a step touches at most one row, and it accepts or claims it, requeues it,
closes it on behalf of its holder, or clears its flag.  A claim takes only rows
that are not closed, and whatever else changes a row's status is a worker's that
holds it: hence `ClosedIsFinalOnceReleased`, which assumes nothing of
`MaxOvertakes`: a closed job that nobody is working on is never reopened.  The
late worker is its exception and the subject of run `slow`.  While no claim is
overtaken nobody holds a closed row, and so also `FlagsMatchResults` and, with `ToldStep` (the cache learns of a closing only in
steps that leave the rows alone) and `FlagsInvariance` (only closed jobs are
flagged), `PoolImplementsLifecycle`: `Spec => Lifecycle!Spec`.

**ExtractionService** (also in `WorkerPoolProofs`; `ServiceSpec` is not a
refinement of the pool's `Spec`, so `IndInv` is not reused).
`DuplicatesAreKnown` rests on `KnownInv`: the cache entry is written before the
row and the row before the hash, so whatever the dedup file names has a row,
and whatever has a row is, database errors apart, in the cache while the process
is up.  It speaks of duplicates answered to the tenant whose job they name
(another tenant gets a 404, see section 6), and assumes nothing of overtakes.  The others assume `MaxOvertakes = 0` and share `RowInv`, in which a
worker cannot simply own the row it holds: a fallback whose enqueue took effect
without an answer shares its job with a worker and may close the row under it.
`HolderOK` says what a holder may still rely on, `ClaimOK` when a row carries a
claim, `StageOK` what each stage of a request has already written.  From it:
`ServiceClaimsAreExclusive` (exclusive claims survive the fallback),
`QueuedRowsAreRecoverable` (what was answered 'queued' keeps its payload until
closed) and `FallbacksAreSettled`: after at most one database error the row of a
fallback that ended is closed or can be claimed again.  It says nothing of what
clients were told, nor of two errors.

**PipelineRun** (`PipelineRunProofs`).  `NamesAccountedFor` and `TablesTraced`
come from one invariant, `SafetyInv`: until the merge, the names a section's
router answered for are among its fields or its abstentions, or lost to a spent
budget (`Kept`, `Lost`); from the merge to the end each is in the output on
exactly one side, custody names of a document with rows and those lost names
apart (`AccountedFor`), which are the two exceptions the property names; and a
section's tables come from where its result says, at most once replaced
(`Traced`), and are what the output delivers of it, which needs to know that a
replacement by the fallback has ended its task and that an escalation is of text
tables.  `SafeExtract`, `SafeSection` and `SafeMerge` are the steps
that can disturb it.  `ProgressOnlyGrows`: `ProgressInv` says how far each stage
may have counted, so that the pages and sections still open keep every quotient
at or below the percentage the next stage starts from; that the integer
division grows with its numerator is a lemma.

**VlmClient** (`VlmClientProofs`).  `BreakerNeverForgets`: `BreakerAgrees` is
inductive on top of the types, because its second half already names the thread
that is between counting and judging.

**SchemaDiscovery** (`SchemaDiscoveryProofs`).  `ServedSchemasAreGranted` and
`BudgetHolds` are inductive with the types; the latter is about the budget of
one discovery, from its start on, and not about the job.  `IdsAreSpentOnce` needs that what
is pending or spent was issued (`IdsInv`); `DefinitionsAreAnswered` needs what
is settled when the tables begin (`AnsweredInv`).

**TemplateLearning** (`TemplateLearningProofs`).  `LearnerHolds` (whoever is
between discovery and the end of the save holds its lock) gives
`DiscoveriesAreShared`.  `LearningInv` adds that global rows are seeds, that a
stored or served template was learned by a finished document under the key it
drafted, and that a corrected one is quarantined wherever it is stored
(`CorrectedIsShadowed`).  A save lifts a quarantine only by replacing the row
of its key, so the corrected maker is gone from that key and was never under
another: `CorrectionsHold`.  `TenantsDoNotInterfere` follows from the same
types.

**ChunkedExtraction** (`ChunkedExtractionProofs`).  `PagesAreCovered`: page p
lies in the window its quotient by the step names or, past the end of the loop,
in the last one, the first whose end reaches the document's.  `OverlapIsExact`
is arithmetic.  `BudgetHolds`: `BudgetInv` adds that the set of running calls
is finite and no larger than the semaphore; a call that starts does so while
the budget is not exceeded, one that ends trades its allowance for its cost.
`FieldsAreKept`: `FieldsInv` says what the two phases start from.
`LinesMergedOnce` supposes what `EveryLineOnce` is about, that two lines with an
amount never share a `TransactionKey` (`KeysDiffer`; the code merges two genuine
payments of the same day, text and amount into one).  The invariant, `LinesInv`,
only says that the windows are the section's and the transactions were merged
from their answers; the work is in the merge.  One more line is dropped or
appended by its key (`LineOn`).  Reading a page again adds nothing
(`PageAgain`), reading one behind all others adds its lines (`PageFirst`).  No
page of a window lies between pages read before (`WindowOn`), because windows
start in order and end in order; `WindowsOn` is the induction along the answered
windows, whichever those are.  A single answer is not deduplicated and needs no
deduplication (`Fresh`).

**DocumentRules** (`DocumentProofs`).  `PagesPartitioned`: `IInv` adds to
the order of the sections that, while the loop runs, the pages before `start`
are covered and the next section has a page (`Progress`).  `AssemblyKeepsPages`
is what lets the later stages, which rewrite the pages' tables, be ignored.
`RowsKeptInOrder` and `RangesNameTheirPages` start from one step of collecting:
`StitchOn` and `MergeOn` append a table or join it to the last (`Collects`),
which keeps all rows in order and, if both were `Sound`, a table that names only
pages it has rows of (`CollectsKeeps`).  An induction along the list
(`CollectedKeeps`) gives `AssembledKeeps`, for every list of tables.  `RowsInv`
adds the state: merging writes into the pages' tables, but only into those of
the section in hand, so the pages ahead are still as they were read (`Unread`),
and their rows are those the section is compared with (`SectionRead`).  The
schema's extractor picks one of the section's tables because among candidates of
the best score there is a first (`PickedIsCandidate`).  The induction is over a
set of numbers (`Upward`), from the well-foundedness of `<`, and so needs no
theorem with an operator parameter; `Stepwise` says in the same way that the
function collecting step by step exists.  A page whose table has headers and no
row may be named although the table has no row of it: `RangeNamesItsPages`
excepts such pages, and the proof shows there is no other exception.

**AlertEngine** (`AlertEngineProofs`).  `OneEntryPerFiring` and
`CycleIsFollowed` need that no rule is listed twice (`Distinct`), so that a pass
judges each once, and that the rule a pass waits for is an abstention rule, not
resolved, which the rest of the pass does not meet again (`Waiting`).  That
survives the requests that slip in because a new rule is appended under a new
id and a deletion leaves each other rule where it was or one place nearer
(`DeleteSafe`).  Breaker events touch only rules no pass judges.

**Validators** (also in `DocumentProofs`, after `DocumentRules`).  The theorems
assume of the constants what the module does: amounts are whole cents and not
zero (`AmountsAssumption`), what was not read is no number
(`NoValueAssumption`), and the shape of a code (`CodesAssumption`).  A run
changes only `next` and `failures`, so the invariant `RunInv` has two parts:
`OutputInv`, which outputs there are (an account comes with its statement, a
field that claims to be a code is one that was read, `CodeRead`), and
`FailuresInv`, that the failures are those of the validators gone through,
whose verdicts no step changes (`VerdictsStay`): all of more than two cents and
some of those of exactly two.  What remains is about one
output, and is arithmetic along sequences, by the induction of
`DocumentRules`.

* `BreaksWhereGaps`: a balance printed is the opening one plus a partial sum of
  the movements (`SumIs`, `SumPart`), the last balance seen is that of the
  nearest row before that has one (`RowsAre`, `LastBalanceIs`), so their
  difference is the sum between them (`BreakIs`, for any tolerance).  Used with
  both tolerances it gives the two halves: more than two cents is a break, and a
  break is of two cents at least.
* `WrongRowSeen`: the sum over the rows found is the sum over all of them with
  what was not read counted as zero (`RowsSum`, `SumsAre`); one wrong row changes
  it in one place (`SumChanged`), by more than the tolerance (`WrongIsOff`), and
  none leaves it as it is (`RightPasses`).  A row that moves no more than the
  tolerance is not seen, which is why the property excepts it.
* `CodesJudged`: one digit of a code is one digit of its expansion
  (`ExpandChanged`).  A changed digit changes the remainder by 97, because the
  steps `10 * r + d` keep two remainders apart (`TellsApart`, `StaysApart`:
  10 and 97 are coprime); the digits issued make it 1 (`IbanIssued`).  Doubling is
  injective on digits and changes a sum by less than ten, so the Luhn sum is no
  longer a multiple of ten (`LuhnDiffers`), which the digit issued made it
  (`LuhnIssued`); that the issuer counts from the right and the code reverses
  the digits first comes to the same.

Only model-checked: all liveness (`EveryJobFinishes`, `QueuedJobFinishes`,
`EverySubmissionSettles`, both `EveryRunEnds`, `EveryCallEnds`, `Recovers`,
`StateFollowsCondition`, `ExtractionEnds`, and the fairness part of
`ImplementsJobLifecycle`), which involves `ENABLED`.  Every invariant and every
action property of the passing runs is stated by a theorem.  Only proved, and
in no run: `OnlyHoldersReopen`, which is of interest where claims are overtaken.

## 6. Findings

| Run | What the code does |
|---|---|
| slow | `retry_later` asks neither who holds the claim nor whether the job is closed: an overtaken worker reopens a job failed for good, its payload gone |
| scorer | four of the five quality checks raise on the rows they are given, and a check that raises has passed: only the header check can turn the escalation on |

Met while modelling; these behaviours are in the modules, and the properties are
stated so that they hold in spite of them.

*Queue and API.*  An error in `_build_tenant` or in a queue write ends the
worker task for good; with all tasks gone a live process drains nothing.  An
output whose fields were all abstained is `failed`, goes through `fail`, and is
never flagged for review.  No one reads the `cancelled` status `cancel_job`
sets, although its docstring says that the task stops (`jobs.py:134`): the job is
processed and the status overwritten; after a
crash the cancellation is forgotten and the job processed again.  A claim that finds
no payload fails the row and does not tell the caches.  A worker writes
`complete` for an output that is `partial`, so after a restart the API reports
another status than before.  The dedup store knows no tenants (`extract.py:157`):
another tenant's upload of the same bytes is a 'duplicate' of a job for which it
gets a 404 (`jobs.py:51`) and is never processed, and it tells that tenant that
somebody has the document.  `DuplicateIsKnown` speaks only of the job's own
tenant.

*Pipeline.*  Requirement 11.3 (`requirements.md:185`) allows no field to be
silently missing, and two kinds are.  Once an account has rows, abstentions on
custody names are dropped by name (`runner.py:1005-1017`), whether the name was
found or not.  A header name that the targeted tier answered with null while the
budget was spent under `skip` is in neither list (`runner.py:1291`, `1345`).
`FieldsAccountedFor` excepts exactly these.  `document_type` never reaches `new_fields`, so an unknown schema
the VLM has resolved is labelled `bank_statement`.  A section's schema and
abstentions are overwritten before the call, so "Return unmodified on error"
(`runner.py:857`) is not what happens.  An escalation that answers without
tables loses the text parser's.  The retry's tables are ignored.  A run that
fails leaves the progress record at its last stage, and `progress_store.remove`
has no caller.  An OCR call or a section that raises fails the run while the
other tasks of the `gather` go on, and still count progress.

*VLM client.*  `half_open` admits every thread, not "one test call"
(`bedrock_client.py:57`).  `is_call_allowed` may overwrite a breaker just closed
with `half_open` over a count of 0, after which a failed test call does not
reopen it.  The except clause builds a client to name what it catches, so with
a broken session it raises too and the failure is not counted.  Retries do not
ask the breaker again.  A JSON answer that is not an object counts as a failure
of the service.  The breaker is per pipeline run (`extract.py:293`), and
`auto_discovery.py:130` asks for an attribute no client has.

*Schemas.*  `token_budget.py:3` calls the budget the job's; every section, every
section's fallback and the retry make one of their own (`runner.py:428`, `1239`,
`1050`), so a job may use a multiple of it under `skip`.  An approved schema is never used: discovery does not look the cache
up, though requirements.md (10.1) says so, and stores its proposal as
unapproved over an approved entry.  The schema learner has no caller; `lookup`,
`expire_stale` and `mark_needs_refinement` have none either.  "rejected: true"
discards nothing.  Approving an escalation grants an empty schema
(`runner.py:608`).  A re-extraction that fails answers with an id that was never
stored (`chat.py:404`).  Both stores are lost on restart.

*Templates.*  Re-learning under a key lifts the quarantine and uncovers the
global template the tenant had corrected.  Two layouts with one key hold
different locks, so a version may not be bumped (nothing reads it).  A
correction names only the key, so a late one quarantines the template learned
since.

*Chunked extraction.*  With the budget spent under `skip`, the two-phase
extraction of missing tables is started all the same, and not charged.  A
missing table is no longer abstained on once the VLM has been asked, whatever
it answered.  One window whose answer is JSON of another shape makes the merge
raise, and the section loses all other windows' answers.  A null value in the
targeted tier with the budget spent under `skip`, and the fields of an unknown schema when the VLM raises, end with
neither value nor abstention (`FieldsKept` names both).  Two genuine equal
payments are merged into one, and a line of amount 0 on a shared page stays
twice.

*Documents.*  `merge_continuation_tables` writes into the page's own table, so
the whole-document assembly for retry and validation repeats rows (harmless
today: both read tokens only).  A table over three pages is never stitched as
one, and merging the third part leaves its page out of the range.  A blank
header cell matches every expected header.  Blank-header tables of different
widths are merged.  Only the best table of a section is kept.  Documents of one
page and of several use different thresholds for a schema.

*Validators.*  A difference of exactly two cents passes or fails as its floats
were rounded, where `validator.py:71` says it passes.  On 29 February `validate_date_range` raises and nothing catches
it, so every document of that day fails, although `run_validators` promises that
all validators run.  An ISIN with two digits after its country code is taken for
a bad IBAN.  The running balance passes over rows without a balance and their
amounts with them.  The totals of an account without debit and credit columns
never match.  In a document of several sections all tables are summed against
the first account's balances.  An eight-digit account number is a bad BIC and
any three-letter word a bad currency.  A field grounded by tokens or a window
has page 0 and always fails the provenance check.  An account without
transactions is always flagged.  Validators are not skipped for discovered
schemas, as requirements.md:412 asks.

*Alerts.*  A global breaker rule that fires is notified again when another
tenant's circuit opens.

## 7. Not modelled

* **Delivery** (`pipeline/delivery.py`, `api/routes/batches.py`) is not wired
  in: nothing calls `on_job_complete` or `check_and_deliver_batch`, the pipeline
  gets a mock client it never calls, and no batch store exists.
* **Schema learner and pattern miner** have no caller; the multi-currency
  validator neither.  `triangulate_table` has one, the digital extraction of
  unclean tables (`runner.py:169`): which method won is among the choices of the
  table read, and its verdict is delivered with the table and changes nothing
  else.
* **Float arithmetic**: cents, with the comparison at the tolerance left open
  (2.10).
* **Log sink**: one append under a lock that only the admin page reads.
* **Tenancy, authentication, RBAC, admin users**: checks of a request against
  rows that no other actor of the modules changes.
* **Usage, health and results endpoints, batches, lists**: reads.
* **Ingestion, OCR and table extraction libraries; regular expressions of the
  schemas; redaction and usage events**: geometry and text without a protocol.
  Their outcomes are choices of the modules that use them.
* **Frontend and operator scripts**: clients of the API.
* The reading order of text blocks in the assembler, the third VLM tier, the
  advisory-lock variant of the learn lock: not reached, or without effect on a
  property.

Not covered by a property, though the modules have the behaviour: the death of
every worker task (`EveryJobFinishes` excepts it), a `save_result` lost to a
database error (`ReportsAreDurable` and `FlagsMatchResults` except it), a
cancelled job's second run after a crash, and the tokens of the two-phase
extraction.

What a next step would add: `PipelineRun` composed with `ChunkedExtraction` for
a section's fallback.
