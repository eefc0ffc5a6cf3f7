-------------------------- MODULE ExtractionService --------------------------
(***************************************************************************)
(* The API around the worker pool: POST /v1/extract with its dedup store   *)
(* and its in-process fallback (api/routes/extract.py), and POST           *)
(* /v1/jobs/{id}/cancel (api/routes/jobs.py), composed with WorkerPool.    *)
(*                                                                         *)
(* submit_extraction is cut at its awaits.  Each request draws a fresh job *)
(* id, so the request that creates job j is known by j.                    *)
(***************************************************************************)
EXTENDS WorkerPool

CONSTANTS
  Docs,      \* the hashes of the documents submitted
  Tenants    \* whose requests they are: each tenant is the set of its job ids

ASSUME TenantsAssumption ==
  /\ UNION Tenants = Jobs
  /\ \A s, t \in Tenants : s = t \/ s \cap t = {}

VARIABLES
  route,    \* how far the request (or its fallback task) for each job id is
  doc,      \* doc_hash of the request, once it has arrived
  dedup,    \* DedupStore._cache, which every store and remove saves to disk
  fallback  \* what the fallback task got from execute_pipeline

svcVars == <<route, doc, dedup, fallback>>
allVars == <<vars, svcVars>>

NoDoc == "no document"

\* "creating", "registering" and "enqueuing" are the awaits of the handler;
\* "running", "finishing" and "savingResult" those of the fallback task. A route
\* is pending, "none" (nothing yet), "duplicate", "queued", "ended" or "lost".
Pending == {"creating", "registering", "enqueuing", "running", "finishing", "savingResult"}

SvcInit ==
  /\ Init
  /\ route = [j \in Jobs |-> "none"]
  /\ doc = [j \in Jobs |-> NoDoc]
  /\ dedup = [d \in Docs |-> NoJob]
  /\ fallback = [j \in Jobs |-> "none"]

GoOn(j, stage) == route' = [route EXCEPT ![j] = stage]

-----------------------------------------------------------------------------
(***************************************************************************)
(* submit_extraction.                                                      *)
(***************************************************************************)

\* A hit in the dedup store answers at once, with the older job's id: that of
\* whichever tenant submitted the document first, as the store is keyed by the
\* hash alone.
SubmitDuplicate(j, d) ==
  /\ up /\ route[j] = "none"
  /\ dedup[d] # NoJob
  /\ doc' = [doc EXCEPT ![j] = d]
  /\ GoOn(j, "duplicate")
  /\ UNCHANGED <<vars, dedup, fallback>>

\* Mutant: the hash is registered before there is a row.
SubmitFreshRegisters(j, d, force) ==
  /\ up /\ route[j] = "none"
  /\ force \/ dedup[d] = NoJob
  /\ dedup' = [dedup EXCEPT ![d] = j]
  /\ doc' = [doc EXCEPT ![j] = d]
  /\ jobCache' = [jobCache EXCEPT ![j] = "processing"]
  /\ GoOn(j, "creating")
  /\ UNCHANGED <<dbVars, up, worker, resultCache, countVars, fallback>>

\* A miss, or force_reprocess, which forgets the hash first.
SubmitFresh(j, d, force) ==
  /\ up /\ route[j] = "none"
  /\ force \/ dedup[d] = NoJob
  /\ dedup' = [dedup EXCEPT ![d] = NoJob]
  /\ doc' = [doc EXCEPT ![j] = d]
  /\ jobCache' = [jobCache EXCEPT ![j] = "processing"]
  /\ GoOn(j, "creating")
  /\ UNCHANGED <<dbVars, up, worker, resultCache, countVars, fallback>>

\* _persist_job_create.
PersistCreate(j) ==
  /\ route[j] = "creating"
  /\ CreateRow(j)
  /\ GoOn(j, "registering")
  /\ UNCHANGED <<memVars, countVars, doc, dedup, fallback>>

\* ... which swallows every error, with or without a row to show for it.
PersistCreateErrors(j) ==
  /\ route[j] = "creating"
  /\ Fault
  /\ CreateRow(j) \/ UNCHANGED dbVars
  /\ GoOn(j, "registering")
  /\ UNCHANGED <<memVars, doc, dedup, fallback>>

\* dedup_store.store
RegisterHash(j) ==
  /\ route[j] = "registering"
  /\ dedup' = [dedup EXCEPT ![doc[j]] = j]
  /\ GoOn(j, "enqueuing")
  /\ UNCHANGED <<vars, doc, fallback>>

\* _enqueue_job returns True.
Enqueue(j) ==
  /\ route[j] = "enqueuing"
  /\ EnqueueRow(j)
  /\ GoOn(j, "queued")
  /\ UNCHANGED <<memVars, countVars, doc, dedup, fallback>>

\* Mutant: the error is swallowed without starting the fallback.
EnqueueFailsQuietly(j) ==
  /\ route[j] = "enqueuing"
  /\ \/ status[j] = "none" /\ UNCHANGED <<dbVars, countVars>>
     \/ Fault /\ UNCHANGED dbVars
  /\ GoOn(j, "queued")
  /\ UNCHANGED <<memVars, doc, dedup, fallback>>

\* _enqueue_job returns False and the request starts the fallback task: the
\* payload has no job row to refer to, or the database failed.  A failed
\* commit may have taken effect.
EnqueueFails(j) ==
  /\ route[j] = "enqueuing"
  /\ \/ status[j] = "none" /\ UNCHANGED <<dbVars, countVars>>
     \/ Fault /\ UNCHANGED dbVars
     \/ Fault /\ EnqueueRow(j)
  /\ GoOn(j, "running")
  /\ UNCHANGED <<memVars, doc, dedup, fallback>>

-----------------------------------------------------------------------------
(***************************************************************************)
(* _run_pipeline_background.                                               *)
(***************************************************************************)

\* The pipeline returned o, or raised ("error"), and the read caches learn of
\* it before the database.  Only an output that failed frees the hash.
FallbackReports(j, o) ==
  /\ route[j] = "running"
  /\ fallback' = [fallback EXCEPT ![j] = o]
  /\ dedup' = IF StatusOf(o) = "failed" /\ o # "error"
              THEN [dedup EXCEPT ![doc[j]] = NoJob] ELSE dedup
  /\ RecordInCaches(j, o)
  /\ GoOn(j, "finishing")
  /\ UNCHANGED <<dbVars, up, worker, countVars, doc>>

\* Mutant: the status is left to record_job_result.
PersistStatusSkipped(j) ==
  /\ route[j] = "finishing"
  /\ GoOn(j, "savingResult")
  /\ UNCHANGED <<vars, doc, dedup, fallback>>

\* _persist_job_finish: set_status, a no-op without a row ...
PersistStatus(j) ==
  /\ route[j] = "finishing"
  /\ IF status[j] = "none" THEN UNCHANGED dbVars
                           ELSE SetStatusRow(j, StatusOf(fallback[j]))
  /\ GoOn(j, "savingResult")
  /\ UNCHANGED <<memVars, countVars, doc, dedup, fallback>>

\* ... then save_result, which needs one.
PersistResult(j) ==
  /\ route[j] = "savingResult"
  /\ IF status[j] = "none" THEN UNCHANGED dbVars ELSE SaveResultRow(j, fallback[j])
  /\ GoOn(j, "ended")
  /\ UNCHANGED <<memVars, countVars, doc, dedup, fallback>>

\* Either raises, before or after its commit took effect: logged, and the rest
\* is skipped.
PersistFinishErrors(j) ==
  /\ Fault
  /\ \/ route[j] \in {"finishing", "savingResult"} /\ UNCHANGED dbVars
     \/ route[j] = "finishing" /\ SetStatusRow(j, StatusOf(fallback[j]))
     \/ route[j] = "savingResult" /\ SaveResultRow(j, fallback[j])
  /\ GoOn(j, "ended")
  /\ UNCHANGED <<memVars, doc, dedup, fallback>>

-----------------------------------------------------------------------------
(***************************************************************************)
(* Cancelling, crashing, and the composition.                              *)
(***************************************************************************)

\* cancel_job: only the in-memory status is changed, which neither the workers nor
\* the fallback read.
CancelJob(j) ==
  /\ up
  /\ jobCache[j] = "processing"
  /\ jobCache' = [jobCache EXCEPT ![j] = "cancelled"]
  /\ UNCHANGED <<dbVars, up, worker, resultCache, countVars, svcVars>>

\* The requests and fallback tasks die with the process; the dedup file stays.
SvcCrash ==
  /\ Crash
  /\ route' = [j \in Jobs |-> IF route[j] \in Pending THEN "lost" ELSE route[j]]
  /\ UNCHANGED <<doc, dedup, fallback>>

SubmitStep(j)   == PersistCreate(j) \/ RegisterHash(j) \/ Enqueue(j) \/ EnqueueFails(j)
FallbackStep(j) == (\E o \in Reports \cup {"error"} : FallbackReports(j, o))
                   \/ PersistStatus(j) \/ PersistResult(j)

\* What WorkerPool does without the API: its Submit and Crash are taken apart
\* here.
PoolStep ==
  /\ \/ \E w \in Workers : WorkerStep(w) \/ WorkerFault(w)
     \/ Restart
     \/ RestartCold
     \/ \E j \in Jobs : StaleElapses(j) \/ RetryDue(j) \/ AcknowledgeReview(j)
  /\ UNCHANGED svcVars

SvcNext ==
  \/ PoolStep
  \/ SvcCrash
  \/ \E j \in Jobs : \/ \E d \in Docs : \/ SubmitDuplicate(j, d)
                                        \/ \E force \in BOOLEAN : SubmitFresh(j, d, force)
                     \/ SubmitStep(j)
                     \/ PersistCreateErrors(j)
                     \/ FallbackStep(j)
                     \/ PersistFinishErrors(j)
                     \/ CancelJob(j)

\* The fairness of WorkerPool, and the event loop runs the API's tasks too.
SvcFairness ==
  /\ \A w \in Workers : WF_allVars(WorkerStep(w) /\ UNCHANGED svcVars)
  /\ WF_allVars(Restart /\ UNCHANGED svcVars)
  /\ \A j \in Jobs :
       /\ WF_allVars(RetryDue(j) /\ UNCHANGED svcVars)
       /\ WF_allVars(~ Held(j) /\ StaleElapses(j) /\ UNCHANGED svcVars)
       /\ WF_allVars(SubmitStep(j) \/ FallbackStep(j))

SvcSpec     == SvcInit /\ [][SvcNext]_allVars
SvcFairSpec == SvcSpec /\ SvcFairness

-----------------------------------------------------------------------------
(***************************************************************************)
(* Properties.                                                             *)
(***************************************************************************)

\* claim_next_job can reach the row, now or once its claim has gone stale, and
\* the PDF is still in job_payloads.
Recoverable(j) == /\ status[j] = "queued" \/ (status[j] = "processing" /\ lease[j] # "none")
                  /\ j \in payload

\* A 202 that said "queued" is a promise the process need not live to keep: the
\* row is closed or recoverable.
QueuedIsRecoverable == \A j \in Jobs :
  route[j] = "queued" => status[j] \in Terminal \/ Recoverable(j)

\* A fallback that has ended leaves no row behind that says 'processing' for
\* ever: it closed the row, or a failed enqueue gave the row to the workers
\* after all.  It takes a second database error to break this.
FallbackIsSettled == \A j \in Jobs :
  route[j] = "ended" /\ dbErrors <= 1 =>
    status[j] \in Terminal \cup {"none"} \/ Recoverable(j)

\* get_job: GET /v1/jobs/i, asked by the tenant of request j, finds the job.
SameTenant(i, j) == \E t \in Tenants : i \in t /\ j \in t
Finds(j, i)      == jobCache[i] # "none" /\ SameTenant(i, j)

\* An id handed out as a duplicate to the tenant whose job it is is one GET
\* /v1/jobs knows, also after a crash: the hash is on disk only once the row is in
\* the table.  A row lost to a database error takes a crash to be missed.  Of
\* another tenant, which is handed the same id and gets a 404 for it, this
\* promises nothing.
DuplicateIsKnown == \A d \in Docs, j \in Jobs :
  up /\ (dbErrors = 0 \/ crashes = 0) /\ dedup[d] # NoJob /\ SameTenant(dedup[d], j) =>
    Finds(j, dedup[d])

SomeoneDied == \E w \in Workers : worker[w].at = "dead"
PoolIsDead  == \A w \in Workers : worker[w].at = "dead"

\* ... and the promise is kept, across crashes, while a worker is alive.
QueuedJobFinishes == \A j \in Jobs :
  route[j] = "queued" ~> status[j] \in Terminal \/ PoolIsDead

\* Every submission that is not a duplicate ends with a verdict in the read
\* path, by way of the queue or of the fallback, or as cancelled, unless the
\* process or a worker died on it.  Cancelling is an end for the client only: the
\* task is not stopped, as cancel_job's docstring has it, and its verdict
\* replaces 'cancelled'.
EverySubmissionSettles == \A j \in Jobs :
  route[j] = "creating" ~>
    jobCache[j] \in Terminal \cup {"cancelled"} \/ crashes > 0 \/ SomeoneDied
=============================================================================
