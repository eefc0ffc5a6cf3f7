----------------------------- MODULE WorkerPool -----------------------------
(***************************************************************************)
(* The worker tasks of api/worker.py draining the queue of JobQueue, in    *)
(* one API process that may crash and come back.                           *)
(*                                                                         *)
(* A task is cut where it awaits: each action is one database transaction, *)
(* or one run of the pipeline, with the memory it touches up to the next   *)
(* await.  A task whose coroutine lets an exception escape is "dead": the  *)
(* pool keeps running == True and never replaces it.                       *)
(*                                                                         *)
(* MaxOvertakes bounds how often a claim may go stale while the worker     *)
(* that holds it is still at work.  0 is the deployment where every run    *)
(* of the pipeline is shorter than stale_seconds.                          *)
(***************************************************************************)
EXTENDS JobQueue

CONSTANTS
  Workers,        \* the tasks w0 .. w(n-1) of the pool
  MaxAttempts,    \* max_attempts
  Reports,        \* the outcomes the pipeline may report
  MaxCrashes,     \* bound: crashes (or deploys) of the process
  MaxDbErrors,    \* bound: database calls that raise
  MaxOvertakes    \* bound: claims that go stale under a live worker

ASSUME BoundsAssumption ==
  /\ Reports \subseteq Outcomes
  /\ MaxAttempts \in Nat \ {0}
  /\ MaxCrashes \in Nat
  /\ MaxDbErrors \in Nat
  /\ MaxOvertakes \in Nat

VARIABLES
  up,            \* is the process running
  worker,        \* what each task is doing, see Task
  jobCache,      \* _JOBS[j]["status"] ("none": no entry)
  resultCache,   \* _RESULTS[j]["output"] ("none": no entry)
  crashes, dbErrors, overtakes   \* how much of each bound is used

memVars   == <<up, worker, jobCache, resultCache>>
countVars == <<crashes, dbErrors, overtakes>>
vars      == <<dbVars, memVars, countVars>>

Stages == {"off", "idle", "loading", "preparing", "executing", "raised",
           "saving", "closing", "recording", "savingError", "dead"}

\* The stages between a committed claim and the write that ends it.
Holding == {"loading", "preparing", "executing", "raised", "saving", "closing"}

\* The local variables of a task: claimed.job_id, claimed.attempts, and what
\* execute_pipeline returned.
Task == [at : Stages, job : Jobs \cup {NoJob}, attempt : Nat, outcome : Results]

Blank(stage) == [at |-> stage, job |-> NoJob, attempt |-> 0, outcome |-> "none"]

CacheStatus == JobStatus \cup {"cancelled"}

TypeOK ==
  /\ DBTypeOK
  /\ up \in BOOLEAN
  /\ worker \in [Workers -> Task]
  /\ jobCache \in [Jobs -> CacheStatus]
  /\ resultCache \in [Jobs -> Results]
  /\ crashes \in 0..MaxCrashes
  /\ dbErrors \in 0..MaxDbErrors
  /\ overtakes \in 0..MaxOvertakes

Init ==
  /\ DBInit
  /\ up = TRUE
  /\ worker = [w \in Workers |-> Blank("idle")]
  /\ jobCache = [j \in Jobs |-> "none"]
  /\ resultCache = [j \in Jobs |-> "none"]
  /\ crashes = 0 /\ dbErrors = 0 /\ overtakes = 0

Holds(w, j) == worker[w].at \in Holding /\ worker[w].job = j
Held(j)     == \E w \in Workers : Holds(w, j)

Goto(w, stage) == worker' = [worker EXCEPT ![w].at = stage]
Release(w)     == worker' = [worker EXCEPT ![w] = Blank("idle")]
Dies(w)        == worker' = [worker EXCEPT ![w] = Blank("dead")]

\* One more of the budgeted database errors.
Fault == /\ dbErrors < MaxDbErrors
         /\ dbErrors' = dbErrors + 1
         /\ UNCHANGED <<crashes, overtakes>>

-----------------------------------------------------------------------------
(***************************************************************************)
(* _loop: claim.                                                           *)
(***************************************************************************)

\* The claim commits: job_id, tenant_id and attempts are back in the task.
ClaimNextJob(w) ==
  /\ worker[w].at = "idle"
  /\ \E j \in Jobs :
       /\ ClaimRow(j)
       /\ worker' = [worker EXCEPT ![w] =
            [at |-> "loading", job |-> j, attempt |-> attempts[j] + 1, outcome |-> "none"]]
  /\ UNCHANGED <<up, jobCache, resultCache, countVars>>

\* claim reads the payload and returns a ClaimedJob; without one it fails the
\* job itself and returns None, and the caches are not told.
LoadPayload(w) ==
  /\ worker[w].at = "loading"
  /\ IF worker[w].job \in payload
       THEN Goto(w, "preparing") /\ UNCHANGED dbVars
       ELSE Release(w) /\ FailRow(worker[w].job)
  /\ UNCHANGED <<up, jobCache, resultCache, countVars>>

\* A database error after the claim committed.  _loop catches it and polls
\* on: the row stays 'processing' with nobody working on it.
ClaimErrors(w) ==
  /\ worker[w].at = "loading"
  /\ Fault
  /\ Release(w)
  /\ UNCHANGED <<dbVars, up, jobCache, resultCache>>

-----------------------------------------------------------------------------
(***************************************************************************)
(* _process.                                                               *)
(***************************************************************************)

BuildTenant(w) ==
  /\ worker[w].at = "preparing"
  /\ Goto(w, "executing")
  /\ UNCHANGED <<dbVars, up, jobCache, resultCache, countVars>>

\* get_tenant raises outside the try: the exception leaves _process and _loop.
BuildTenantErrors(w) ==
  /\ worker[w].at = "preparing"
  /\ Fault
  /\ Dies(w)
  /\ UNCHANGED <<dbVars, up, jobCache, resultCache>>

PipelineReturns(w, o) ==
  /\ worker[w].at = "executing"
  /\ worker' = [worker EXCEPT ![w].at = "saving", ![w].outcome = o]
  /\ UNCHANGED <<dbVars, up, jobCache, resultCache, countVars>>

PipelineRaises(w) ==
  /\ worker[w].at = "executing"
  /\ worker' = [worker EXCEPT ![w].at = "raised", ![w].outcome = "error"]
  /\ UNCHANGED <<dbVars, up, jobCache, resultCache, countVars>>

\* Mutant: one attempt too many.
MayRetryOnceMore(w) == worker[w].attempt <= MaxAttempts

\* attempts < max_attempts
MayRetry(w) == worker[w].attempt < MaxAttempts

RetryLater(w) ==
  /\ worker[w].at = "raised" /\ MayRetry(w)
  /\ RequeueRow(worker[w].job)
  /\ Release(w)
  /\ UNCHANGED <<up, jobCache, resultCache, countVars>>

GiveUp(w) ==
  /\ worker[w].at = "raised" /\ ~ MayRetry(w)
  /\ FailRow(worker[w].job)
  /\ Goto(w, "recording")
  /\ UNCHANGED <<up, jobCache, resultCache, countVars>>

\* Mutant: the caches are told before the queue is.
SaveResultAndTell(w) ==
  /\ worker[w].at = "saving"
  /\ SaveResultRow(worker[w].job, worker[w].outcome)
  /\ Goto(w, "closing")
  /\ jobCache' = [jobCache EXCEPT ![worker[w].job] = StatusOf(worker[w].outcome)]
  /\ UNCHANGED <<up, resultCache, countVars>>

SaveResult(w) ==
  /\ worker[w].at = "saving"
  /\ SaveResultRow(worker[w].job, worker[w].outcome)
  /\ Goto(w, "closing")
  /\ UNCHANGED <<up, jobCache, resultCache, countVars>>

\* A failed save_result is logged and the job is closed all the same.
SaveResultErrors(w) ==
  /\ worker[w].at = "saving"
  /\ Fault
  /\ SaveResultRow(worker[w].job, worker[w].outcome) \/ UNCHANGED dbVars
  /\ Goto(w, "closing")
  /\ UNCHANGED <<up, jobCache, resultCache>>

\* Mutant: needs_review is left at its default.
CloseRowUnflagged(j, o) == IF StatusOf(o) = "failed" THEN FailRow(j) ELSE CompleteRow(j, FALSE)

\* fail for a failed output, else complete with needs_review = bool(abstentions).
CloseRow(j, o) == IF StatusOf(o) = "failed" THEN FailRow(j) ELSE CompleteRow(j, Abstains(o))

CloseOut(w) ==
  /\ worker[w].at = "closing"
  /\ CloseRow(worker[w].job, worker[w].outcome)
  /\ Goto(w, "recording")
  /\ UNCHANGED <<up, jobCache, resultCache, countVars>>

\* The queue write that ends a claim raises, before or after its commit took
\* effect.  Nothing in _process or _loop catches it.
QueueWriteErrors(w) ==
  /\ worker[w].at \in {"raised", "closing"}
  /\ Fault
  /\ \/ UNCHANGED dbVars
     \/ worker[w].at = "raised" /\ MayRetry(w) /\ RequeueRow(worker[w].job)
     \/ worker[w].at = "raised" /\ ~ MayRetry(w) /\ FailRow(worker[w].job)
     \/ worker[w].at = "closing" /\ CloseRow(worker[w].job, worker[w].outcome)
  /\ Dies(w)
  /\ UNCHANGED <<up, jobCache, resultCache>>

\* record_job_result: the in-memory read path learns of the outcome.
RecordInCaches(j, o) ==
  /\ jobCache' = IF jobCache[j] = "none" THEN jobCache
                 ELSE [jobCache EXCEPT ![j] = StatusOf(o)]
  /\ resultCache' = [resultCache EXCEPT ![j] = o]

RecordJobResult(w) ==
  /\ worker[w].at = "recording"
  /\ RecordInCaches(worker[w].job, worker[w].outcome)
  /\ IF worker[w].outcome = "error" THEN Goto(w, "savingError") ELSE Release(w)
  /\ UNCHANGED <<dbVars, up, countVars>>

\* The exhausted path saves its {"error": ...} row last.
SaveErrorResult(w) ==
  /\ worker[w].at = "savingError"
  /\ SaveResultRow(worker[w].job, "error")
  /\ Release(w)
  /\ UNCHANGED <<up, jobCache, resultCache, countVars>>

SaveErrorResultErrors(w) ==
  /\ worker[w].at = "savingError"
  /\ Fault
  /\ SaveResultRow(worker[w].job, "error") \/ UNCHANGED dbVars
  /\ Dies(w)
  /\ UNCHANGED <<up, jobCache, resultCache>>

\* What the task does next, given that it is scheduled.
WorkerStep(w) ==
  \/ ClaimNextJob(w)
  \/ LoadPayload(w)
  \/ BuildTenant(w)
  \/ \E o \in Reports : PipelineReturns(w, o)
  \/ PipelineRaises(w)
  \/ RetryLater(w)
  \/ GiveUp(w)
  \/ SaveResult(w)
  \/ CloseOut(w)
  \/ RecordJobResult(w)
  \/ SaveErrorResult(w)

WorkerFault(w) ==
  \/ ClaimErrors(w)
  \/ BuildTenantErrors(w)
  \/ SaveResultErrors(w)
  \/ QueueWriteErrors(w)
  \/ SaveErrorResultErrors(w)

-----------------------------------------------------------------------------
(***************************************************************************)
(* The process around the tasks, and the other writers of the tables.      *)
(***************************************************************************)

\* A crash, a kill, or JobWorkerPool.stop cancelling the tasks wherever they
\* await: the memory is gone and the claimed rows stay 'processing'.
Crash ==
  /\ up /\ crashes < MaxCrashes
  /\ up' = FALSE
  /\ crashes' = crashes + 1
  /\ worker' = [w \in Workers |-> Blank("off")]
  /\ jobCache' = [j \in Jobs |-> "none"]
  /\ resultCache' = [j \in Jobs |-> "none"]
  /\ UNCHANGED <<dbVars, dbErrors, overtakes>>

\* Mutant: the jobs a crash interrupted are reported as failed.
RestartFailsOrphans ==
  /\ ~ up
  /\ up' = TRUE
  /\ worker' = [w \in Workers |-> Blank("idle")]
  /\ jobCache' = [j \in Jobs |-> IF status[j] = "processing" THEN "failed" ELSE status[j]]
  /\ resultCache' = result
  /\ UNCHANGED <<dbVars, countVars>>

\* lifespan startup: warm the caches, then start the tasks.
Restart ==
  /\ ~ up
  /\ up' = TRUE
  /\ worker' = [w \in Workers |-> Blank("idle")]
  /\ jobCache' = status
  /\ resultCache' = result
  /\ UNCHANGED <<dbVars, countVars>>

\* load_all raises: warm_job_cache logs it and the process starts empty.
RestartCold ==
  /\ ~ up
  /\ Fault
  /\ up' = TRUE
  /\ worker' = [w \in Workers |-> Blank("idle")]
  /\ UNCHANGED <<dbVars, jobCache, resultCache>>

\* The claim on j outlives stale_seconds.  While a worker still holds it this
\* is an overtake: there is no heartbeat that would renew claimed_at.
StaleElapses(j) ==
  /\ LeaseElapses(j)
  /\ Held(j) => overtakes < MaxOvertakes
  /\ overtakes' = IF Held(j) THEN overtakes + 1 ELSE overtakes
  /\ UNCHANGED <<memVars, crashes, dbErrors>>

RetryDue(j) ==
  /\ BackoffElapses(j)
  /\ UNCHANGED <<memVars, countVars>>

\* submit_extraction when both of its transactions succeed: the row of
\* create_job, then the payload and 'queued' of enqueue, and the cache entry.
\* ExtractionService takes it apart.
Submit(j) ==
  /\ up /\ status[j] = "none"
  /\ status' = [status EXCEPT ![j] = "queued"]
  /\ payload' = payload \cup {j}
  /\ JoinLine(j)
  /\ jobCache' = [jobCache EXCEPT ![j] = "processing"]
  /\ UNCHANGED <<attempts, lease, needsReview, result, up, worker, resultCache, countVars>>

\* POST /v1/review/{job_id}/acknowledge.
AcknowledgeReview(j) ==
  /\ up
  /\ AcknowledgeRow(j)
  /\ UNCHANGED <<memVars, countVars>>

Next ==
  \/ \E w \in Workers : WorkerStep(w) \/ WorkerFault(w)
  \/ Crash
  \/ Restart
  \/ RestartCold
  \/ \E j \in Jobs : \/ StaleElapses(j)
                     \/ RetryDue(j)
                     \/ Submit(j)
                     \/ AcknowledgeReview(j)

\* The event loop runs every ready task, a crashed process is restarted, and
\* time passes.  Faults, overtakes and clients are under no obligation.
Fairness ==
  /\ \A w \in Workers : WF_vars(WorkerStep(w))
  /\ WF_vars(Restart)
  /\ \A j \in Jobs : /\ WF_vars(RetryDue(j))
                     /\ WF_vars(~ Held(j) /\ StaleElapses(j))

Spec     == Init /\ [][Next]_vars
FairSpec == Spec /\ Fairness
-----------------------------------------------------------------------------
(***************************************************************************)
(* Properties.                                                             *)
(***************************************************************************)

\* No two live workers process the same job between its claim and the write
\* that closes it (the docstring of JobQueue.claim).
ExclusiveClaim == \A j \in Jobs : \A v, w \in Workers :
  Holds(v, j) /\ Holds(w, j) => v = w

\* The PDF outlives every claim on the job and is dropped exactly when the job
\* is closed, so a reclaimed job can always be reprocessed.
PayloadKept == \A j \in Jobs : j \in payload <=> status[j] \in {"queued", "processing"}

\* No unfinished job is out of reach of claim_next_job: it is queued, or its
\* claim is one that can go stale.
Reclaimable == \A j \in Jobs :
  status[j] = "processing" => lease[j] \in {"fresh", "stale"}

\* A raised exception consumes one of max_attempts; only a claim lost to a
\* crash or to a database error may be repeated on top of them.
AttemptsBounded == \A j \in Jobs : attempts[j] <= MaxAttempts + crashes + dbErrors

\* The read caches never run ahead of the tables: a job that GET /v1/jobs calls
\* finished is closed in the database, with the verdict
\* the caller is shown and, short of a database error, the result it can read.
ReportedIsDurable == \A j \in Jobs :
  /\ jobCache[j] \in {"complete", "partial"} =>
       status[j] = "complete" /\ (dbErrors = 0 => resultCache[j] = result[j])
  /\ jobCache[j] = "failed" => status[j] = "failed"

\* fail and complete are permanent, unless the claim was overtaken: only a worker
\* that is still processing a closed job reopens, re-judges or re-flags it. No
\* claim, restart or review does, nor a worker once it has let go of the job.
OnlyHoldersReopen == [][\A j \in Jobs : status[j] \in Terminal /\ ~ Held(j) =>
                          /\ status'[j] = status[j]
                          /\ needsReview'[j] => needsReview[j]]_vars

\* The flag a job is completed with is that of the output clients will read,
\* whichever of its runs that output came from, unless a database error lost it.
ReviewFlagMatchesResult == [][\A j \in Jobs :
    status[j] # "complete" /\ status'[j] = "complete" /\ dbErrors = 0 =>
      /\ StatusOf(result[j]) \in {"complete", "partial"}
      /\ needsReview'[j] = Abstains(result[j])]_vars

\* A permanently failed job is never reopened (the docstring of JobQueue.fail).
FailIsPermanent == [][\A j \in Jobs : status[j] = "failed" => status'[j] = "failed"]_vars

\* Every accepted job is closed, whatever workers crash on the way.
EveryJobFinishes == \A j \in Jobs : status[j] = "queued" ~> status[j] \in Terminal

\* The promise of JobLifecycle, read off the tables and the cache.
Lifecycle == INSTANCE JobLifecycle WITH
  verdict <- [j \in Jobs |-> IF status[j] \in {"queued", "processing"} THEN "open"
                             ELSE status[j]],
  review <- {j \in Jobs : needsReview[j]},
  told <- {j \in Jobs : jobCache[j] \in Terminal}

ImplementsJobLifecycle == Lifecycle!FairSpec

-----------------------------------------------------------------------------
(***************************************************************************)
(* Why the properties hold while no claim is overtaken: an inductive       *)
(* invariant (proved in WorkerPoolProofs).                                 *)
(***************************************************************************)

\* The row of a job a task holds is the one it claimed: nobody closed it,
\* requeued it or claimed it since.
HolderOwnsRow == \A w \in Workers :
  worker[w].at \in Holding =>
    /\ worker[w].job \in Jobs
    /\ status[worker[w].job] = "processing"
    /\ lease[worker[w].job] = "fresh"
    /\ worker[w].attempt = attempts[worker[w].job]

\* claimed_at is set exactly on the rows being processed, and only the
\* fallback of the API would write 'partial'.
LeaseTracksClaim == \A j \in Jobs :
  /\ status[j] = "processing" <=> lease[j] # "none"
  /\ status[j] # "partial"

\* What a job that can be claimed again has left of its attempts.
AttemptsLeft == \A j \in Jobs :
  /\ status[j] = "none" => attempts[j] = 0
  /\ status[j] = "queued" \/ (status[j] = "processing" /\ ~ Held(j)) =>
       attempts[j] < MaxAttempts + crashes + dbErrors

\* A task reaches its last steps with what it closed the row with.
OutcomeIsRecorded == \A w \in Workers :
  LET j == worker[w].job
      o == worker[w].outcome
  IN /\ worker[w].at = "raised" => o = "error"
     /\ worker[w].at \in {"saving", "closing"} => o \in Outcomes
     /\ worker[w].at = "closing" /\ dbErrors = 0 => result[j] = o
     /\ worker[w].at \in {"recording", "savingError"} =>
          /\ j \in Jobs
          /\ o \in Outcomes \cup {"error"}
          /\ status[j] = IF StatusOf(o) = "failed" THEN "failed" ELSE "complete"
          /\ StatusOf(o) # "failed" /\ dbErrors = 0 => result[j] = o
     /\ worker[w].at = "savingError" => o = "error"

\* A process that is down has no tasks and no caches.
DownIsBlank == ~ up => /\ \A w \in Workers : worker[w] = Blank("off")
                       /\ \A j \in Jobs : jobCache[j] = "none"

IndInv ==
  /\ TypeOK
  /\ HolderOwnsRow
  /\ ExclusiveClaim
  /\ PayloadKept
  /\ LeaseTracksClaim
  /\ AttemptsBounded
  /\ AttemptsLeft
  /\ OutcomeIsRecorded
  /\ ReportedIsDurable
  /\ DownIsBlank
=============================================================================
