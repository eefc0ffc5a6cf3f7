------------------------------ MODULE JobQueue ------------------------------
(***************************************************************************)
(* The durable queue: the jobs, job_payloads and results tables, and the   *)
(* transactions that db/job_queue.py, db/job_repo.py and the SQL function  *)
(* claim_next_job run on them.  Every operator below is one committed      *)
(* transaction; what its callers do around it, and what happens when the   *)
(* commit fails, is in the modules that extend this one.                   *)
(*                                                                         *)
(* A column is a function on Jobs.  Wall-clock columns are kept as what    *)
(* the code compares them for: claimed_at is NULL, younger or older than   *)
(* stale_seconds ("none", "fresh", "stale"); available_at is the place of  *)
(* an unfinished row among those already due, in the order they became so, *)
(* and 0 while it lies ahead of NOW() or the row is finished.  claimed_by  *)
(* is never read, so it is left out.                                       *)
(***************************************************************************)
EXTENDS Naturals, FiniteSets

CONSTANTS
  Jobs,          \* the job ids a run may create
  NoJob          \* stands for "no job"; not a job id

ASSUME JobsAssumption == NoJob \notin Jobs /\ IsFiniteSet(Jobs)

VARIABLES
  status,        \* jobs.status ("none": no such row)
  attempts,      \* jobs.attempts
  dueAt,         \* jobs.available_at
  lease,         \* jobs.claimed_at
  payload,       \* the ids of the rows of job_payloads
  needsReview,   \* jobs.needs_review
  result         \* the latest row of results, as the outcome it holds

dbVars == <<status, attempts, dueAt, lease, payload, needsReview, result>>

(***************************************************************************)
(* What a run of the pipeline reports: a status and whether the output     *)
(* holds abstentions.  "error" is the result row of a job given up after   *)
(* its last attempt raised.                                                *)
(***************************************************************************)
Outcomes == {"complete", "completeAbstained", "partialAbstained",
             "failed", "failedAbstained"}
Results  == Outcomes \cup {"error", "none"}

\* The status of an output, as execute_pipeline returns it.
StatusOf(o) == CASE o \in {"complete", "completeAbstained"}       -> "complete"
                 [] o = "partialAbstained"                        -> "partial"
                 [] o \in {"failed", "failedAbstained", "error"}  -> "failed"
                 [] OTHER                                         -> "none"

\* bool(abstentions)
Abstains(o) == o \in {"completeAbstained", "partialAbstained", "failedAbstained"}

JobStatus == {"none", "processing", "queued", "complete", "partial", "failed"}
Terminal  == {"complete", "partial", "failed"}

DBTypeOK ==
  /\ status \in [Jobs -> JobStatus]
  /\ attempts \in [Jobs -> Nat]
  /\ dueAt \in [Jobs -> Nat]
  /\ lease \in [Jobs -> {"none", "fresh", "stale"}]
  /\ payload \in SUBSET Jobs
  /\ needsReview \in [Jobs -> BOOLEAN]
  /\ result \in [Jobs -> Results]

DBInit ==
  /\ status = [j \in Jobs |-> "none"]
  /\ attempts = [j \in Jobs |-> 0]
  /\ dueAt = [j \in Jobs |-> 0]
  /\ lease = [j \in Jobs |-> "none"]
  /\ payload = {}
  /\ needsReview = [j \in Jobs |-> FALSE]
  /\ result = [j \in Jobs |-> "none"]

\* available_at = NOW(), or NOW() has caught up with it: j is last in line.
JoinLine(j) ==
  dueAt' = [dueAt EXCEPT ![j] = Cardinality({k \in Jobs : dueAt[k] > 0}) + 1]

\* j is no longer a due, unfinished row; the rows behind it move up.
LeaveLine(j) ==
  dueAt' = [k \in Jobs |-> IF k = j THEN 0
                           ELSE IF 0 < dueAt[j] /\ dueAt[j] < dueAt[k] THEN dueAt[k] - 1
                           ELSE dueAt[k]]

-----------------------------------------------------------------------------
(***************************************************************************)
(* Transactions.                                                           *)
(***************************************************************************)

\* JobRepo.create_job: the row starts as 'processing', claimed_at NULL.
CreateRow(j) ==
  /\ status[j] = "none"
  /\ status' = [status EXCEPT ![j] = "processing"]
  /\ UNCHANGED <<attempts, dueAt, lease, payload, needsReview, result>>

\* Mutant: the payload is stored, the UPDATE to 'queued' forgotten.
EnqueueRowKeepsStatus(j) ==
  /\ status[j] # "none"
  /\ payload' = payload \cup {j}
  /\ JoinLine(j)
  /\ UNCHANGED <<status, attempts, lease, needsReview, result>>

\* JobQueue.enqueue.  The payload row has a foreign key on the job's row.
EnqueueRow(j) ==
  /\ status[j] # "none"
  /\ payload' = payload \cup {j}
  /\ status' = [status EXCEPT ![j] = "queued"]
  /\ JoinLine(j)
  /\ UNCHANGED <<attempts, lease, needsReview, result>>

\* Mutant: a 'processing' row is up for grabs however young its claim.
ClaimableAtAnyAge(j) == \/ status[j] = "queued" /\ dueAt[j] > 0
                        \/ status[j] = "processing"

\* The WHERE clause of claim_next_job.
Claimable(j) == \/ status[j] = "queued" /\ dueAt[j] > 0
                \/ status[j] = "processing" /\ lease[j] = "stale"

\* Mutant: claimed_at is not set.
ClaimRowForgetsLease(j) ==
  /\ Claimable(j)
  /\ \A k \in Jobs : Claimable(k) => dueAt[j] <= dueAt[k]
  /\ status' = [status EXCEPT ![j] = "processing"]
  /\ attempts' = [attempts EXCEPT ![j] = @ + 1]
  /\ UNCHANGED <<dueAt, lease, payload, needsReview, result>>

\* claim_next_job: ORDER BY available_at LIMIT 1, then the UPDATE.
ClaimRow(j) ==
  /\ Claimable(j)
  /\ \A k \in Jobs : Claimable(k) => dueAt[j] <= dueAt[k]
  /\ status' = [status EXCEPT ![j] = "processing"]
  /\ lease' = [lease EXCEPT ![j] = "fresh"]
  /\ attempts' = [attempts EXCEPT ![j] = @ + 1]
  /\ UNCHANGED <<dueAt, payload, needsReview, result>>

\* JobQueue.complete: one transaction closes the row and drops the payload.
CompleteRow(j, review) ==
  /\ status' = [status EXCEPT ![j] = "complete"]
  /\ needsReview' = [needsReview EXCEPT ![j] = review]
  /\ lease' = [lease EXCEPT ![j] = "none"]
  /\ LeaveLine(j)
  /\ payload' = payload \ {j}
  /\ UNCHANGED <<attempts, result>>

\* Mutant: the payload is not dropped.
FailRowKeepsPayload(j) ==
  /\ status' = [status EXCEPT ![j] = "failed"]
  /\ lease' = [lease EXCEPT ![j] = "none"]
  /\ LeaveLine(j)
  /\ UNCHANGED <<attempts, payload, needsReview, result>>

\* JobQueue.fail.
FailRow(j) ==
  /\ status' = [status EXCEPT ![j] = "failed"]
  /\ lease' = [lease EXCEPT ![j] = "none"]
  /\ LeaveLine(j)
  /\ payload' = payload \ {j}
  /\ UNCHANGED <<attempts, needsReview, result>>

\* Mutant: the claim is released, the status left alone.
RequeueRowKeepsStatus(j) ==
  /\ lease' = [lease EXCEPT ![j] = "none"]
  /\ LeaveLine(j)
  /\ UNCHANGED <<status, attempts, payload, needsReview, result>>

\* JobQueue.retry_later: queued again, due only once the backoff has passed.
RequeueRow(j) ==
  /\ status' = [status EXCEPT ![j] = "queued"]
  /\ lease' = [lease EXCEPT ![j] = "none"]
  /\ LeaveLine(j)
  /\ UNCHANGED <<attempts, payload, needsReview, result>>

\* JobRepo.set_status, used by the in-process fallback only, to finish a job.
SetStatusRow(j, s) ==
  /\ status[j] # "none"
  /\ status' = [status EXCEPT ![j] = s]
  /\ LeaveLine(j)
  /\ UNCHANGED <<attempts, lease, payload, needsReview, result>>

\* JobRepo.save_result: a new results row, which later reads prefer.
SaveResultRow(j, o) ==
  /\ status[j] # "none"
  /\ result' = [result EXCEPT ![j] = o]
  /\ UNCHANGED <<status, attempts, dueAt, lease, payload, needsReview>>

\* JobRepo.acknowledge_review.
AcknowledgeRow(j) ==
  /\ needsReview[j]
  /\ needsReview' = [needsReview EXCEPT ![j] = FALSE]
  /\ UNCHANGED <<status, attempts, dueAt, lease, payload, result>>

-----------------------------------------------------------------------------
(***************************************************************************)
(* Time, as the WHERE clause of claim_next_job sees it.                    *)
(***************************************************************************)

\* NOW() passes the available_at that retry_later set.
BackoffElapses(j) ==
  /\ status[j] = "queued" /\ dueAt[j] = 0
  /\ JoinLine(j)
  /\ UNCHANGED <<status, attempts, lease, payload, needsReview, result>>

\* claimed_at falls behind NOW() - stale_seconds.
LeaseElapses(j) ==
  /\ lease[j] = "fresh"
  /\ lease' = [lease EXCEPT ![j] = "stale"]
  /\ UNCHANGED <<status, attempts, dueAt, payload, needsReview, result>>
=============================================================================
