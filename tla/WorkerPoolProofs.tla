--------------------------- MODULE WorkerPoolProofs ---------------------------
(***************************************************************************)
(* Theorems about WorkerPool, for any number of jobs and workers and any   *)
(* max_attempts: its invariants, what its steps may not do, and that its   *)
(* behaviours are those of the abstract JobLifecycle.  Then theorems about *)
(* ExtractionService, the API composed with the pool.                      *)
(***************************************************************************)
EXTENDS ExtractionService, FiniteSetTheorems, TLAPS

-----------------------------------------------------------------------------
(***************************************************************************)
(* The tables keep their types.                                            *)
(***************************************************************************)

\* The last place in line is a number.
LEMMA JoinLineType ==
  ASSUME DBTypeOK, NEW j \in Jobs, JoinLine(j)
  PROVE  dueAt' \in [Jobs -> Nat]
<1>1. IsFiniteSet({k \in Jobs : dueAt[k] > 0})
  BY FS_Subset, JobsAssumption
<1>2. Cardinality({k \in Jobs : dueAt[k] > 0}) \in Nat
  BY <1>1, FS_CardinalityType
<1> QED
  BY <1>2 DEF JoinLine, DBTypeOK

\* Leaving the line keeps every place a number.
LEMMA LeaveLineType ==
  ASSUME DBTypeOK, NEW j \in Jobs, LeaveLine(j)
  PROVE  dueAt' \in [Jobs -> Nat]
<1> SUFFICES ASSUME NEW k \in Jobs, k # j, 0 < dueAt[j], dueAt[j] < dueAt[k]
             PROVE  dueAt[k] - 1 \in Nat
  BY DEF LeaveLine, DBTypeOK
<1> QED
  BY DEF DBTypeOK

\* Every transaction of JobQueue and every tick of its clocks.
LEMMA RowTypes ==
  ASSUME DBTypeOK, NEW j \in Jobs
  PROVE  /\ ClaimRow(j) => DBTypeOK'
         /\ FailRow(j) => DBTypeOK'
         /\ \A r \in BOOLEAN : CompleteRow(j, r) => DBTypeOK'
         /\ RequeueRow(j) => DBTypeOK'
         /\ \A o \in Results : SaveResultRow(j, o) => DBTypeOK'
         /\ AcknowledgeRow(j) => DBTypeOK'
         /\ BackoffElapses(j) => DBTypeOK'
         /\ LeaseElapses(j) => DBTypeOK'
<1>1. ClaimRow(j) => DBTypeOK'
  BY DEF ClaimRow, DBTypeOK, JobStatus
<1>2. FailRow(j) => DBTypeOK'
  BY LeaveLineType DEF FailRow, DBTypeOK, JobStatus
<1>3. \A r \in BOOLEAN : CompleteRow(j, r) => DBTypeOK'
  BY LeaveLineType DEF CompleteRow, DBTypeOK, JobStatus
<1>4. RequeueRow(j) => DBTypeOK'
  BY LeaveLineType DEF RequeueRow, DBTypeOK, JobStatus
<1>5. \A o \in Results : SaveResultRow(j, o) => DBTypeOK'
  BY DEF SaveResultRow, DBTypeOK
<1>6. AcknowledgeRow(j) => DBTypeOK'
  BY DEF AcknowledgeRow, DBTypeOK
<1>7. BackoffElapses(j) => DBTypeOK'
  BY JoinLineType DEF BackoffElapses, DBTypeOK
<1>8. LeaseElapses(j) => DBTypeOK'
  BY DEF LeaseElapses, DBTypeOK
<1> QED
  BY <1>1, <1>2, <1>3, <1>4, <1>5, <1>6, <1>7, <1>8

-----------------------------------------------------------------------------
(***************************************************************************)
(* Type correctness, whatever MaxOvertakes is.                             *)
(***************************************************************************)

\* What the pipeline can have reported.
LEMMA OutcomeTypes ==
  /\ Reports \subseteq Results
  /\ "error" \in Results /\ "none" \in Results
  /\ \A o \in Results : StatusOf(o) \in CacheStatus
  /\ \A o \in Results : Abstains(o) \in BOOLEAN
BY BoundsAssumption DEF Outcomes, Results, StatusOf, Abstains, CacheStatus, JobStatus

\* A task that holds or finishes a job has one.
TaskHasJob == \A w \in Workers :
  worker[w].at \in Holding \cup {"recording", "savingError"} => worker[w].job \in Jobs

TasksOK == worker \in [Workers -> Task] /\ TaskHasJob

\* The ways a task moves on keep the tasks well formed.
LEMMA TaskTypes ==
  ASSUME TasksOK, NEW w \in Workers
  PROVE  /\ \A s \in Stages : worker[w].job \in Jobs /\ Goto(w, s) => TasksOK'
         /\ Release(w) => TasksOK'
         /\ Dies(w) => TasksOK'
         /\ \A s \in Stages, o \in Results :
              /\ worker[w].job \in Jobs
              /\ worker' = [worker EXCEPT ![w].at = s, ![w].outcome = o]
              => TasksOK'
<1> USE DEF TasksOK, TaskHasJob, Task
<1>1. ASSUME NEW s \in Stages, worker[w].job \in Jobs, Goto(w, s)
      PROVE  TasksOK'
  BY <1>1 DEF Goto
<1>2. ASSUME Release(w) PROVE TasksOK'
  BY <1>2 DEF Release, Blank, Stages, Holding, Results
<1>3. ASSUME Dies(w) PROVE TasksOK'
  BY <1>3 DEF Dies, Blank, Stages, Holding, Results
<1>4. ASSUME NEW s \in Stages, NEW o \in Results, worker[w].job \in Jobs,
             worker' = [worker EXCEPT ![w].at = s, ![w].outcome = o]
      PROVE  TasksOK'
  BY <1>4
<1> QED
  BY <1>1, <1>2, <1>3, <1>4

\* A process without running tasks.
LEMMA BlankTypes ==
  ASSUME NEW s \in {"off", "idle"}, worker' = [w \in Workers |-> Blank(s)]
  PROVE  TasksOK'
BY DEF TasksOK, TaskHasJob, Task, Blank, Stages, Holding, Results

\* The rest of the memory, and the bounds.
MemoryOK ==
  /\ up \in BOOLEAN
  /\ jobCache \in [Jobs -> CacheStatus]
  /\ resultCache \in [Jobs -> Results]
  /\ crashes \in 0..MaxCrashes
  /\ dbErrors \in 0..MaxDbErrors
  /\ overtakes \in 0..MaxOvertakes

\* A database error is counted within its bound.
LEMMA FaultTypes ==
  ASSUME dbErrors \in 0..MaxDbErrors, Fault
  PROVE  /\ dbErrors' = dbErrors + 1 /\ dbErrors' \in 0..MaxDbErrors
         /\ crashes' = crashes /\ overtakes' = overtakes
<1>1. MaxDbErrors \in Nat
  BY BoundsAssumption
<1> QED
  BY <1>1 DEF Fault

\* A crash keeps every type: it blanks the memory and leaves the tables.
LEMMA CrashTypes ==
  ASSUME crashes \in 0..MaxCrashes, Crash
  PROVE  crashes' = crashes + 1 /\ crashes' \in 0..MaxCrashes
<1>1. MaxCrashes \in Nat
  BY BoundsAssumption
<1> QED
  BY <1>1 DEF Crash

\* Every action of Next keeps every variable within its type.
LEMMA TypeStep ==
  ASSUME TypeOK, TaskHasJob, [Next]_vars
  PROVE  TypeOK' /\ TaskHasJob'
<1>0. DBTypeOK /\ TasksOK /\ MemoryOK
  BY DEF TypeOK, TasksOK, MemoryOK
<1> SUFFICES DBTypeOK' /\ TasksOK' /\ MemoryOK'
  BY DEF TypeOK, TasksOK, MemoryOK
<1> USE <1>0 DEF memVars, countVars
<1>1. ASSUME NEW w \in Workers, ClaimNextJob(w)
      PROVE  DBTypeOK' /\ TasksOK' /\ MemoryOK'
  <2>1. DBTypeOK'
    BY <1>1, RowTypes DEF ClaimNextJob
  <2>2. TasksOK'
    BY <1>1 DEF ClaimNextJob, ClaimRow, DBTypeOK, Task, Results, TasksOK,
       TaskHasJob, Holding, Stages
  <2>3. MemoryOK'
    BY <1>1 DEF ClaimNextJob, MemoryOK
  <2> QED
    BY <2>1, <2>2, <2>3
<1>2. ASSUME NEW w \in Workers, LoadPayload(w)
      PROVE  DBTypeOK' /\ TasksOK' /\ MemoryOK'
  <2>1. DBTypeOK'
    BY <1>2, RowTypes DEF LoadPayload, dbVars, DBTypeOK, TasksOK, TaskHasJob,
       Holding, Stages
  <2>2. TasksOK'
    BY <1>2, TaskTypes DEF LoadPayload, TasksOK, TaskHasJob, Holding, Stages
  <2>3. MemoryOK'
    BY <1>2 DEF LoadPayload, MemoryOK
  <2> QED
    BY <2>1, <2>2, <2>3
<1>3. ASSUME NEW w \in Workers, ClaimErrors(w)
      PROVE  DBTypeOK' /\ TasksOK' /\ MemoryOK'
  <2>1. DBTypeOK'
    BY <1>3 DEF ClaimErrors, dbVars, DBTypeOK
  <2>2. TasksOK'
    BY <1>3, TaskTypes DEF ClaimErrors
  <2>3. MemoryOK'
    BY <1>3, FaultTypes DEF ClaimErrors, MemoryOK
  <2> QED
    BY <2>1, <2>2, <2>3
<1>4. ASSUME NEW w \in Workers, BuildTenant(w)
      PROVE  DBTypeOK' /\ TasksOK' /\ MemoryOK'
  <2>1. DBTypeOK'
    BY <1>4 DEF BuildTenant, dbVars, DBTypeOK
  <2>2. TasksOK'
    BY <1>4, TaskTypes DEF BuildTenant, TasksOK, TaskHasJob, Holding, Stages
  <2>3. MemoryOK'
    BY <1>4 DEF BuildTenant, MemoryOK
  <2> QED
    BY <2>1, <2>2, <2>3
<1>5. ASSUME NEW w \in Workers, BuildTenantErrors(w)
      PROVE  DBTypeOK' /\ TasksOK' /\ MemoryOK'
  <2>1. DBTypeOK'
    BY <1>5 DEF BuildTenantErrors, dbVars, DBTypeOK
  <2>2. TasksOK'
    BY <1>5, TaskTypes DEF BuildTenantErrors
  <2>3. MemoryOK'
    BY <1>5, FaultTypes DEF BuildTenantErrors, MemoryOK
  <2> QED
    BY <2>1, <2>2, <2>3
<1>6. ASSUME NEW w \in Workers, NEW o \in Reports, PipelineReturns(w, o)
      PROVE  DBTypeOK' /\ TasksOK' /\ MemoryOK'
  <2>1. DBTypeOK'
    BY <1>6 DEF PipelineReturns, dbVars, DBTypeOK
  <2>2. TasksOK'
    BY <1>6, OutcomeTypes, TaskTypes DEF PipelineReturns, TasksOK, TaskHasJob,
       Holding, Stages
  <2>3. MemoryOK'
    BY <1>6 DEF PipelineReturns, MemoryOK
  <2> QED
    BY <2>1, <2>2, <2>3
<1>7. ASSUME NEW w \in Workers, PipelineRaises(w)
      PROVE  DBTypeOK' /\ TasksOK' /\ MemoryOK'
  <2>1. DBTypeOK'
    BY <1>7 DEF PipelineRaises, dbVars, DBTypeOK
  <2>2. TasksOK'
    BY <1>7, OutcomeTypes, TaskTypes DEF PipelineRaises, TasksOK, TaskHasJob,
       Holding, Stages
  <2>3. MemoryOK'
    BY <1>7 DEF PipelineRaises, MemoryOK
  <2> QED
    BY <2>1, <2>2, <2>3
<1>8. ASSUME NEW w \in Workers, RetryLater(w)
      PROVE  DBTypeOK' /\ TasksOK' /\ MemoryOK'
  <2>1. DBTypeOK'
    BY <1>8, RowTypes DEF RetryLater, TasksOK, TaskHasJob, Holding, Stages
  <2>2. TasksOK'
    BY <1>8, TaskTypes DEF RetryLater
  <2>3. MemoryOK'
    BY <1>8 DEF RetryLater, MemoryOK
  <2> QED
    BY <2>1, <2>2, <2>3
<1>9. ASSUME NEW w \in Workers, GiveUp(w)
      PROVE  DBTypeOK' /\ TasksOK' /\ MemoryOK'
  <2>1. DBTypeOK'
    BY <1>9, RowTypes DEF GiveUp, TasksOK, TaskHasJob, Holding, Stages
  <2>2. TasksOK'
    BY <1>9, TaskTypes DEF GiveUp, TasksOK, TaskHasJob, Holding, Stages
  <2>3. MemoryOK'
    BY <1>9 DEF GiveUp, MemoryOK
  <2> QED
    BY <2>1, <2>2, <2>3
<1>10. ASSUME NEW w \in Workers, SaveResult(w)
      PROVE  DBTypeOK' /\ TasksOK' /\ MemoryOK'
  <2>1. DBTypeOK'
    BY <1>10, RowTypes DEF SaveResult, Task, TasksOK, TaskHasJob, Holding,
       Stages
  <2>2. TasksOK'
    BY <1>10, TaskTypes DEF SaveResult, TasksOK, TaskHasJob, Holding, Stages
  <2>3. MemoryOK'
    BY <1>10 DEF SaveResult, MemoryOK
  <2> QED
    BY <2>1, <2>2, <2>3
<1>11. ASSUME NEW w \in Workers, SaveResultErrors(w)
      PROVE  DBTypeOK' /\ TasksOK' /\ MemoryOK'
  <2>1. DBTypeOK'
    BY <1>11, RowTypes DEF SaveResultErrors, Task, dbVars, DBTypeOK, TasksOK,
       TaskHasJob, Holding, Stages
  <2>2. TasksOK'
    BY <1>11, TaskTypes DEF SaveResultErrors, TasksOK, TaskHasJob, Holding,
       Stages
  <2>3. MemoryOK'
    BY <1>11, FaultTypes DEF SaveResultErrors, MemoryOK
  <2> QED
    BY <2>1, <2>2, <2>3
<1>12. ASSUME NEW w \in Workers, CloseOut(w)
      PROVE  DBTypeOK' /\ TasksOK' /\ MemoryOK'
  <2>1. DBTypeOK'
    BY <1>12, RowTypes, OutcomeTypes DEF CloseOut, CloseRow, Task, TasksOK,
       TaskHasJob, Holding, Stages
  <2>2. TasksOK'
    BY <1>12, TaskTypes DEF CloseOut, TasksOK, TaskHasJob, Holding, Stages
  <2>3. MemoryOK'
    BY <1>12 DEF CloseOut, MemoryOK
  <2> QED
    BY <2>1, <2>2, <2>3
<1>13. ASSUME NEW w \in Workers, QueueWriteErrors(w)
      PROVE  DBTypeOK' /\ TasksOK' /\ MemoryOK'
  <2>1. DBTypeOK'
    BY <1>13, RowTypes, OutcomeTypes DEF QueueWriteErrors, CloseRow, Task,
       dbVars, DBTypeOK, TasksOK, TaskHasJob, Holding, Stages
  <2>2. TasksOK'
    BY <1>13, TaskTypes DEF QueueWriteErrors
  <2>3. MemoryOK'
    BY <1>13, FaultTypes DEF QueueWriteErrors, MemoryOK
  <2> QED
    BY <2>1, <2>2, <2>3
<1>14. ASSUME NEW w \in Workers, RecordJobResult(w)
      PROVE  DBTypeOK' /\ TasksOK' /\ MemoryOK'
  <2>1. DBTypeOK'
    BY <1>14 DEF RecordJobResult, dbVars, DBTypeOK
  <2>2. TasksOK'
    BY <1>14, TaskTypes DEF RecordJobResult, TasksOK, TaskHasJob, Holding,
       Stages
  <2>3. MemoryOK'
    BY <1>14, OutcomeTypes DEF RecordJobResult, RecordInCaches, Task, TasksOK,
       TaskHasJob, Holding, Stages, MemoryOK
  <2> QED
    BY <2>1, <2>2, <2>3
<1>15. ASSUME NEW w \in Workers, SaveErrorResult(w)
      PROVE  DBTypeOK' /\ TasksOK' /\ MemoryOK'
  <2>1. DBTypeOK'
    BY <1>15, RowTypes, OutcomeTypes DEF SaveErrorResult, TasksOK, TaskHasJob,
       Holding, Stages
  <2>2. TasksOK'
    BY <1>15, TaskTypes DEF SaveErrorResult
  <2>3. MemoryOK'
    BY <1>15 DEF SaveErrorResult, MemoryOK
  <2> QED
    BY <2>1, <2>2, <2>3
<1>16. ASSUME NEW w \in Workers, SaveErrorResultErrors(w)
      PROVE  DBTypeOK' /\ TasksOK' /\ MemoryOK'
  <2>1. DBTypeOK'
    BY <1>16, RowTypes, OutcomeTypes DEF SaveErrorResultErrors, dbVars,
       DBTypeOK, TasksOK, TaskHasJob, Holding, Stages
  <2>2. TasksOK'
    BY <1>16, TaskTypes DEF SaveErrorResultErrors
  <2>3. MemoryOK'
    BY <1>16, FaultTypes DEF SaveErrorResultErrors, MemoryOK
  <2> QED
    BY <2>1, <2>2, <2>3
<1>17. ASSUME Crash
      PROVE  DBTypeOK' /\ TasksOK' /\ MemoryOK'
  <2>1. DBTypeOK'
    BY <1>17 DEF Crash, dbVars, DBTypeOK
  <2>2. TasksOK'
    BY <1>17, BlankTypes DEF Crash
  <2>3. MemoryOK'
    BY <1>17, CrashTypes DEF Crash, CacheStatus, JobStatus, Results, MemoryOK
  <2> QED
    BY <2>1, <2>2, <2>3
<1>18. ASSUME Restart
      PROVE  DBTypeOK' /\ TasksOK' /\ MemoryOK'
  <2>1. DBTypeOK'
    BY <1>18 DEF Restart, dbVars, DBTypeOK
  <2>2. TasksOK'
    BY <1>18, BlankTypes DEF Restart
  <2>3. MemoryOK'
    BY <1>18 DEF Restart, DBTypeOK, CacheStatus, MemoryOK
  <2> QED
    BY <2>1, <2>2, <2>3
<1>19. ASSUME RestartCold
      PROVE  DBTypeOK' /\ TasksOK' /\ MemoryOK'
  <2>1. DBTypeOK'
    BY <1>19 DEF RestartCold, dbVars, DBTypeOK
  <2>2. TasksOK'
    BY <1>19, BlankTypes DEF RestartCold
  <2>3. MemoryOK'
    BY <1>19, FaultTypes DEF RestartCold, MemoryOK
  <2> QED
    BY <2>1, <2>2, <2>3
<1>20. ASSUME NEW j \in Jobs, StaleElapses(j)
      PROVE  DBTypeOK' /\ TasksOK' /\ MemoryOK'
  <2>1. DBTypeOK'
    BY <1>20, RowTypes DEF StaleElapses
  <2>2. TasksOK'
    BY <1>20 DEF StaleElapses, TasksOK, TaskHasJob
  <2>3. MemoryOK'
    BY <1>20, BoundsAssumption DEF StaleElapses, MemoryOK
  <2> QED
    BY <2>1, <2>2, <2>3
<1>21. ASSUME NEW j \in Jobs, RetryDue(j)
      PROVE  DBTypeOK' /\ TasksOK' /\ MemoryOK'
  <2>1. DBTypeOK'
    BY <1>21, RowTypes DEF RetryDue
  <2>2. TasksOK'
    BY <1>21 DEF RetryDue, TasksOK, TaskHasJob
  <2>3. MemoryOK'
    BY <1>21 DEF RetryDue, MemoryOK
  <2> QED
    BY <2>1, <2>2, <2>3
<1>22. ASSUME NEW j \in Jobs, Submit(j)
      PROVE  DBTypeOK' /\ TasksOK' /\ MemoryOK'
  <2>1. DBTypeOK'
    BY <1>22, JoinLineType DEF Submit, DBTypeOK, JobStatus
  <2>2. TasksOK'
    BY <1>22 DEF Submit, TasksOK, TaskHasJob
  <2>3. MemoryOK'
    BY <1>22 DEF Submit, CacheStatus, JobStatus, MemoryOK
  <2> QED
    BY <2>1, <2>2, <2>3
<1>23. ASSUME NEW j \in Jobs, AcknowledgeReview(j)
      PROVE  DBTypeOK' /\ TasksOK' /\ MemoryOK'
  <2>1. DBTypeOK'
    BY <1>23, RowTypes DEF AcknowledgeReview
  <2>2. TasksOK'
    BY <1>23 DEF AcknowledgeReview, TasksOK, TaskHasJob
  <2>3. MemoryOK'
    BY <1>23 DEF AcknowledgeReview, MemoryOK
  <2> QED
    BY <2>1, <2>2, <2>3
<1>24. ASSUME UNCHANGED vars
      PROVE  DBTypeOK' /\ TasksOK' /\ MemoryOK'
  <2>1. DBTypeOK'
    BY <1>24 DEF vars, dbVars, DBTypeOK
  <2>2. TasksOK'
    BY <1>24 DEF vars, TasksOK, TaskHasJob
  <2>3. MemoryOK'
    BY <1>24 DEF vars, MemoryOK
  <2> QED
    BY <2>1, <2>2, <2>3
<1> QED
    BY <1>1, <1>2, <1>3, <1>4, <1>5, <1>6, <1>7, <1>8, <1>9, <1>10, <1>11,
       <1>12, <1>13, <1>14, <1>15, <1>16, <1>17, <1>18, <1>19, <1>20, <1>21,
       <1>22, <1>23, <1>24 DEF Next, WorkerStep, WorkerFault

\* TypeOK is invariant.
THEOREM TypeCorrect == Spec => []TypeOK
<1>1. Init => TypeOK /\ TaskHasJob
  BY BoundsAssumption, OutcomeTypes
  DEF Init, DBInit, TypeOK, DBTypeOK, TaskHasJob, Task, Stages, Blank, Holding,
      JobStatus, CacheStatus
<1>2. TypeOK /\ TaskHasJob /\ [Next]_vars => TypeOK' /\ TaskHasJob'
  BY TypeStep
<1> QED
  BY <1>1, <1>2, PTL DEF Spec

-----------------------------------------------------------------------------
(***************************************************************************)
(* Who holds what: the part of the invariant about claims and attempts.    *)
(* A step of a task is one of five kinds, by what it does to the row of    *)
(* the job the task holds.                                                 *)
(***************************************************************************)
ClaimsOK == /\ HolderOwnsRow
            /\ ExclusiveClaim
            /\ PayloadKept
            /\ LeaseTracksClaim
            /\ AttemptsBounded
            /\ AttemptsLeft

\* Only task w moves.
OnlyMoves(w) == \A v \in Workers \ {w} : worker'[v] = worker[v]

\* Errors are only ever added up, and nothing else counts here.
Counts == /\ crashes' = crashes
          /\ dbErrors' \in {dbErrors, dbErrors + 1}

RowsUnchanged == UNCHANGED <<status, attempts, lease, payload>>

\* A task that keeps its claim.
LEMMA HolderMoves ==
  ASSUME TypeOK, ClaimsOK, NEW w \in Workers,
         worker[w].at \in Holding, worker'[w].at \in Holding,
         worker'[w].job = worker[w].job, worker'[w].attempt = worker[w].attempt,
         OnlyMoves(w), RowsUnchanged, Counts
  PROVE  ClaimsOK'
<1> USE BoundsAssumption DEF TypeOK, DBTypeOK, Task, ClaimsOK, OnlyMoves, RowsUnchanged, Counts
<1>1. \A v \in Workers : /\ worker'[v].at \in Holding <=> worker[v].at \in Holding
                         /\ worker'[v].job = worker[v].job
                         /\ worker'[v].attempt = worker[v].attempt
  OBVIOUS
<1>2. \A k \in Jobs : Held(k)' <=> Held(k)
  BY <1>1 DEF Held, Holds
<1>3. HolderOwnsRow' /\ ExclusiveClaim'
  BY <1>1 DEF HolderOwnsRow, ExclusiveClaim, Holds
<1>4. PayloadKept' /\ LeaseTracksClaim'
  BY DEF PayloadKept, LeaseTracksClaim
<1>5. AttemptsBounded' /\ AttemptsLeft'
  BY <1>2 DEF AttemptsBounded, AttemptsLeft
<1> QED
  BY <1>3, <1>4, <1>5

\* What is left of the claims when w stops holding its job.
LEMMA HolderLeaves ==
  ASSUME TypeOK, ClaimsOK, NEW w \in Workers, worker[w].at \in Holding,
         worker'[w].at \notin Holding, OnlyMoves(w)
  PROVE  /\ \A v \in Workers : worker'[v].at \in Holding =>
              /\ v # w /\ worker'[v] = worker[v]
              /\ worker[v].job # worker[w].job
         /\ \A k \in Jobs : k # worker[w].job => (Held(k)' <=> Held(k))
<1> USE DEF OnlyMoves
<1>1. \A v \in Workers : worker'[v].at \in Holding =>
        /\ v # w /\ worker'[v] = worker[v]
        /\ worker[v].job # worker[w].job
  BY DEF ClaimsOK, ExclusiveClaim, Holds, HolderOwnsRow
<1>2. ASSUME NEW k \in Jobs, k # worker[w].job
      PROVE  Held(k)' <=> Held(k)
  <2>1. \A v \in Workers : Holds(v, k)' <=> Holds(v, k)
    BY <1>1, <1>2 DEF Holds
  <2> QED
    BY <2>1 DEF Held
<1> QED
  BY <1>1, <1>2

\* A task that loses its claim to a database error: the row is left as it is.
LEMMA HolderLoses ==
  ASSUME TypeOK, ClaimsOK, NEW w \in Workers, worker[w].at \in Holding,
         worker'[w].at \notin Holding, OnlyMoves(w), RowsUnchanged,
         crashes' = crashes, dbErrors' = dbErrors + 1
  PROVE  ClaimsOK'
<1> USE BoundsAssumption, HolderLeaves
    DEF TypeOK, DBTypeOK, Task, ClaimsOK, RowsUnchanged
<1>1. HolderOwnsRow' /\ ExclusiveClaim'
  BY DEF HolderOwnsRow, ExclusiveClaim, Holds
<1>2. PayloadKept' /\ LeaseTracksClaim'
  BY DEF PayloadKept, LeaseTracksClaim
<1>3. AttemptsBounded' /\ AttemptsLeft'
  BY DEF AttemptsBounded, AttemptsLeft
<1> QED
  BY <1>1, <1>2, <1>3

\* A task that closes its row.
LEMMA HolderCloses ==
  ASSUME TypeOK, ClaimsOK, NEW w \in Workers, worker[w].at \in Holding,
         worker'[w].at \notin Holding, OnlyMoves(w), Counts,
         \/ FailRow(worker[w].job)
         \/ \E r \in BOOLEAN : CompleteRow(worker[w].job, r)
  PROVE  ClaimsOK'
<1> DEFINE j == worker[w].job
<1> USE BoundsAssumption, HolderLeaves
    DEF TypeOK, DBTypeOK, Task, ClaimsOK, Counts
<1>1. /\ j \in Jobs
      /\ \E s \in {"complete", "failed"} : status' = [status EXCEPT ![j] = s]
      /\ lease' = [lease EXCEPT ![j] = "none"]
      /\ payload' = payload \ {j}
      /\ attempts' = attempts
  BY DEF FailRow, CompleteRow, HolderOwnsRow
<1>2. HolderOwnsRow'
  BY <1>1 DEF HolderOwnsRow
<1>3. ExclusiveClaim'
  BY DEF ExclusiveClaim, Holds
<1>4. PayloadKept' /\ LeaseTracksClaim'
  BY <1>1 DEF PayloadKept, LeaseTracksClaim
<1>5. AttemptsBounded' /\ AttemptsLeft'
  BY <1>1 DEF AttemptsBounded, AttemptsLeft
<1> QED
  BY <1>2, <1>3, <1>4, <1>5

\* A task that puts its row back into the queue.
LEMMA HolderRequeues ==
  ASSUME TypeOK, ClaimsOK, NEW w \in Workers, worker[w].at \in Holding,
         worker'[w].at \notin Holding, OnlyMoves(w), Counts,
         MayRetry(w), RequeueRow(worker[w].job)
  PROVE  ClaimsOK'
<1> DEFINE j == worker[w].job
<1> USE BoundsAssumption, HolderLeaves
    DEF TypeOK, DBTypeOK, Task, ClaimsOK, Counts
<1>1. /\ j \in Jobs
      /\ status[j] = "processing"
      /\ status' = [status EXCEPT ![j] = "queued"]
      /\ lease' = [lease EXCEPT ![j] = "none"]
      /\ payload' = payload
      /\ attempts' = attempts
      /\ attempts[j] < MaxAttempts
  BY DEF RequeueRow, HolderOwnsRow, MayRetry
<1>2. HolderOwnsRow'
  BY <1>1 DEF HolderOwnsRow
<1>3. ExclusiveClaim'
  BY DEF ExclusiveClaim, Holds
<1>4. PayloadKept' /\ LeaseTracksClaim'
  BY <1>1 DEF PayloadKept, LeaseTracksClaim
<1>5. AttemptsBounded' /\ AttemptsLeft'
  BY <1>1 DEF AttemptsBounded, AttemptsLeft
<1> QED
  BY <1>2, <1>3, <1>4, <1>5

\* A task that has closed its row already.
LEMMA BystanderMoves ==
  ASSUME TypeOK, ClaimsOK, NEW w \in Workers,
         worker[w].at \notin Holding, worker'[w].at \notin Holding,
         OnlyMoves(w), RowsUnchanged, Counts
  PROVE  ClaimsOK'
<1> USE BoundsAssumption DEF TypeOK, DBTypeOK, Task, ClaimsOK, OnlyMoves, RowsUnchanged, Counts
<1>1. \A v \in Workers : /\ worker'[v].at \in Holding <=> worker[v].at \in Holding
                         /\ worker[v].at \in Holding => worker'[v] = worker[v]
  OBVIOUS
<1>2. \A k \in Jobs : Held(k)' <=> Held(k)
  BY <1>1 DEF Held, Holds
<1>3. HolderOwnsRow' /\ ExclusiveClaim'
  BY <1>1 DEF HolderOwnsRow, ExclusiveClaim, Holds
<1>4. PayloadKept' /\ LeaseTracksClaim'
  BY DEF PayloadKept, LeaseTracksClaim
<1>5. AttemptsBounded' /\ AttemptsLeft'
  BY <1>2 DEF AttemptsBounded, AttemptsLeft
<1> QED
  BY <1>3, <1>4, <1>5

\* Closing out is failing or completing the row.
LEMMA CloseRowCloses ==
  ASSUME NEW j, NEW o, CloseRow(j, o)
  PROVE  \/ FailRow(j)
         \/ \E r \in BOOLEAN : CompleteRow(j, r)
<1>1. CASE StatusOf(o) = "failed"
  BY <1>1 DEF CloseRow
<1>2. CASE StatusOf(o) # "failed"
  <2>1. CompleteRow(j, Abstains(o))
    BY <1>2 DEF CloseRow
  <2>2. Abstains(o) \in BOOLEAN
    BY DEF Abstains
  <2> QED
    BY <2>1, <2>2, Zenon
<1> QED
  BY <1>1, <1>2

\* The claims survive every step, if none is overtaken.
LEMMA ClaimsStep ==
  ASSUME MaxOvertakes = 0, TypeOK, OutcomeIsRecorded, DownIsBlank, ClaimsOK, [Next]_vars
  PROVE  ClaimsOK'
<1> USE DEF Holding, countVars
<1>1. ASSUME NEW w \in Workers, ClaimNextJob(w)
      PROVE  ClaimsOK'
  <2> USE BoundsAssumption DEF TypeOK, DBTypeOK, Task, ClaimsOK
  <2>1. PICK j \in Jobs :
          /\ ClaimRow(j)
          /\ worker' = [worker EXCEPT ![w] =
               [at |-> "loading", job |-> j, attempt |-> attempts[j] + 1, outcome |-> "none"]]
    BY <1>1 DEF ClaimNextJob
  <2>2. ~ Held(j)
    BY <2>1 DEF ClaimRow, Claimable, Held, Holds, HolderOwnsRow
  <2>3. HolderOwnsRow' /\ ExclusiveClaim'
    BY <1>1, <2>1, <2>2 DEF ClaimNextJob, ClaimRow, HolderOwnsRow, ExclusiveClaim, Held, Holds
  <2>4. PayloadKept' /\ LeaseTracksClaim'
    BY <2>1 DEF ClaimRow, Claimable, PayloadKept, LeaseTracksClaim
  <2>5. \A k \in Jobs : Held(k)' <=> Held(k) \/ k = j
    BY <1>1, <2>1 DEF ClaimNextJob, Held, Holds
  <2>6. attempts[j] < MaxAttempts + crashes + dbErrors
    BY <2>1, <2>2 DEF ClaimRow, Claimable, AttemptsLeft
  <2>7. AttemptsBounded' /\ AttemptsLeft'
    BY <1>1, <2>1, <2>5, <2>6 DEF ClaimNextJob, ClaimRow, AttemptsBounded, AttemptsLeft
  <2> QED
    BY <2>3, <2>4, <2>7
<1>2. ASSUME NEW w \in Workers, LoadPayload(w)
      PROVE  ClaimsOK'
  <2>1. worker[w].job \in payload
    BY <1>2 DEF LoadPayload, ClaimsOK, HolderOwnsRow, PayloadKept
  <2> QED
    BY <1>2, <2>1, HolderMoves
    DEF LoadPayload, Goto, OnlyMoves, RowsUnchanged, Counts, TypeOK, Task, dbVars
<1>3. ASSUME NEW w \in Workers, BuildTenant(w) \/ PipelineRaises(w)
                                 \/ \E o \in Reports : PipelineReturns(w, o)
      PROVE  ClaimsOK'
  BY <1>3, HolderMoves
  DEF BuildTenant, PipelineRaises, PipelineReturns, Goto, OnlyMoves, RowsUnchanged,
      Counts, TypeOK, Task, dbVars
<1>4. ASSUME NEW w \in Workers, SaveResult(w) \/ SaveResultErrors(w)
      PROVE  ClaimsOK'
  BY <1>4, HolderMoves
  DEF SaveResult, SaveResultErrors, SaveResultRow, Fault, Goto, OnlyMoves,
      RowsUnchanged, Counts, TypeOK, Task, dbVars
<1>5. ASSUME NEW w \in Workers, ClaimErrors(w) \/ BuildTenantErrors(w)
      PROVE  ClaimsOK'
  BY <1>5, HolderLoses
  DEF ClaimErrors, BuildTenantErrors, Fault, Release, Dies, Blank, OnlyMoves,
      RowsUnchanged, TypeOK, Task, dbVars
<1>6. ASSUME NEW w \in Workers, RetryLater(w)
      PROVE  ClaimsOK'
  BY <1>6, HolderRequeues
  DEF RetryLater, Release, Blank, OnlyMoves, Counts, TypeOK, Task
<1>7. ASSUME NEW w \in Workers, GiveUp(w)
      PROVE  ClaimsOK'
  BY <1>7, HolderCloses
  DEF GiveUp, Goto, OnlyMoves, Counts, TypeOK, Task
<1>8. ASSUME NEW w \in Workers, CloseOut(w)
      PROVE  ClaimsOK'
  <2>1. \/ FailRow(worker[w].job)
        \/ \E r \in BOOLEAN : CompleteRow(worker[w].job, r)
    BY <1>8, CloseRowCloses DEF CloseOut
  <2> QED
    BY <1>8, <2>1, HolderCloses DEF CloseOut, Goto, OnlyMoves, Counts, TypeOK, Task
<1>9. ASSUME NEW w \in Workers, QueueWriteErrors(w)
      PROVE  ClaimsOK'
  <2>1. /\ worker[w].at \in Holding /\ worker'[w].at \notin Holding
        /\ OnlyMoves(w) /\ Counts
        /\ crashes' = crashes /\ dbErrors' = dbErrors + 1
    BY <1>9 DEF QueueWriteErrors, Dies, Blank, Fault, OnlyMoves, Counts, TypeOK, Task
  <2>2. CASE UNCHANGED dbVars
    BY <2>1, <2>2, HolderLoses DEF dbVars, RowsUnchanged
  <2>3. CASE MayRetry(w) /\ RequeueRow(worker[w].job)
    BY <2>1, <2>3, HolderRequeues
  <2>4. CASE FailRow(worker[w].job)
    BY <2>1, <2>4, HolderCloses
  <2>5. CASE CloseRow(worker[w].job, worker[w].outcome)
    <3>1. \/ FailRow(worker[w].job)
          \/ \E r \in BOOLEAN : CompleteRow(worker[w].job, r)
      BY <2>5, CloseRowCloses
    <3> QED
      BY <2>1, <3>1, HolderCloses
  <2> QED
    BY <1>9, <2>2, <2>3, <2>4, <2>5 DEF QueueWriteErrors
<1>10. ASSUME NEW w \in Workers,
              RecordJobResult(w) \/ SaveErrorResult(w) \/ SaveErrorResultErrors(w)
       PROVE  ClaimsOK'
  BY <1>10, BystanderMoves
  DEF RecordJobResult, SaveErrorResult, SaveErrorResultErrors, SaveResultRow, Goto,
      Release, Dies, Blank, Fault, OnlyMoves, RowsUnchanged, Counts, TypeOK, Task, dbVars
<1>11. ASSUME Crash
       PROVE  ClaimsOK'
  <2> USE BoundsAssumption DEF TypeOK, DBTypeOK, ClaimsOK
  <2>1. \A w \in Workers : worker'[w].at \notin Holding
    BY <1>11 DEF Crash, Blank
  <2>2. HolderOwnsRow' /\ ExclusiveClaim'
    BY <2>1 DEF HolderOwnsRow, ExclusiveClaim, Holds
  <2>3. PayloadKept' /\ LeaseTracksClaim'
    BY <1>11 DEF Crash, dbVars, PayloadKept, LeaseTracksClaim
  <2>4. AttemptsBounded' /\ AttemptsLeft'
    BY <1>11 DEF Crash, dbVars, AttemptsBounded, AttemptsLeft
  <2> QED
    BY <2>2, <2>3, <2>4
<1>12. ASSUME Restart \/ RestartCold
       PROVE  ClaimsOK'
  <2> USE BoundsAssumption DEF TypeOK, DBTypeOK, ClaimsOK
  <2>1. \A w \in Workers : worker[w].at \notin Holding /\ worker'[w].at \notin Holding
    BY <1>12 DEF Restart, RestartCold, DownIsBlank, Blank
  <2>2. HolderOwnsRow' /\ ExclusiveClaim'
    BY <2>1 DEF HolderOwnsRow, ExclusiveClaim, Holds
  <2>3. PayloadKept' /\ LeaseTracksClaim'
    BY <1>12 DEF Restart, RestartCold, dbVars, PayloadKept, LeaseTracksClaim
  <2>4. \A k \in Jobs : Held(k)' <=> Held(k)
    BY <2>1 DEF Held, Holds
  <2>5. AttemptsBounded' /\ AttemptsLeft'
    BY <1>12, <2>4 DEF Restart, RestartCold, Fault, dbVars, AttemptsBounded, AttemptsLeft
  <2> QED
    BY <2>2, <2>3, <2>5
<1>13. ASSUME NEW j \in Jobs, StaleElapses(j)
       PROVE  ClaimsOK'
  <2> USE DEF TypeOK, DBTypeOK, ClaimsOK
  <2>1. ~ Held(j)
    BY <1>13 DEF StaleElapses
  <2>2. lease[j] = "fresh" /\ lease' = [lease EXCEPT ![j] = "stale"]
        /\ UNCHANGED <<status, attempts, payload, worker, crashes, dbErrors>>
    BY <1>13 DEF StaleElapses, LeaseElapses, memVars
  <2>3. HolderOwnsRow'
    BY <2>1, <2>2 DEF HolderOwnsRow, Held, Holds
  <2>4. ExclusiveClaim' /\ PayloadKept' /\ AttemptsBounded' /\ AttemptsLeft'
    BY <2>2 DEF ExclusiveClaim, Holds, PayloadKept, AttemptsBounded, AttemptsLeft, Held
  <2>5. LeaseTracksClaim'
    BY <2>2 DEF LeaseTracksClaim
  <2> QED
    BY <2>3, <2>4, <2>5
<1>14. ASSUME NEW j \in Jobs, Submit(j)
       PROVE  ClaimsOK'
  <2> USE BoundsAssumption DEF TypeOK, DBTypeOK, ClaimsOK
  <2>1. status[j] = "none" /\ status' = [status EXCEPT ![j] = "queued"]
        /\ payload' = payload \cup {j}
        /\ UNCHANGED <<attempts, lease, worker, crashes, dbErrors>>
    BY <1>14 DEF Submit
  <2>2. HolderOwnsRow' /\ ExclusiveClaim'
    BY <2>1 DEF HolderOwnsRow, ExclusiveClaim, Holds
  <2>3. PayloadKept' /\ LeaseTracksClaim'
    BY <2>1 DEF PayloadKept, LeaseTracksClaim
  <2>4. AttemptsBounded' /\ AttemptsLeft'
    BY <2>1 DEF AttemptsBounded, AttemptsLeft, Held, Holds
  <2> QED
    BY <2>2, <2>3, <2>4
<1>15. ASSUME \/ \E j \in Jobs : RetryDue(j) \/ AcknowledgeReview(j)
              \/ UNCHANGED vars
       PROVE  ClaimsOK'
  <2>1. UNCHANGED <<status, attempts, lease, payload, worker, crashes, dbErrors>>
    BY <1>15 DEF RetryDue, BackoffElapses, AcknowledgeReview, AcknowledgeRow, vars,
                 dbVars, memVars
  <2> QED
    BY <2>1 DEF ClaimsOK, HolderOwnsRow, ExclusiveClaim, Holds, PayloadKept,
                LeaseTracksClaim, AttemptsBounded, AttemptsLeft, Held
<1> QED
  BY <1>1, <1>2, <1>3, <1>4, <1>5, <1>6, <1>7, <1>8, <1>9, <1>10, <1>11, <1>12,
     <1>13, <1>14, <1>15
  DEF Next, WorkerStep, WorkerFault

-----------------------------------------------------------------------------
(***************************************************************************)
(* What is reported: the part of the invariant about outcomes and caches.  *)
(***************************************************************************)
ReportsOK == OutcomeIsRecorded /\ ReportedIsDurable /\ DownIsBlank

\* A task at work means a process that is up.
LEMMA UpWhenWorking ==
  ASSUME DownIsBlank, up \in BOOLEAN, NEW w \in Workers, worker[w].at # "off"
  PROVE  up
BY DEF DownIsBlank, Blank

\* A step of a task that leaves the results and the caches alone, and no
\* closed row is touched.
LEMMA QuietStep ==
  ASSUME TypeOK, ClaimsOK, ReportsOK, NEW w \in Workers,
         worker[w].at # "off", up' = up,
         OnlyMoves(w), UNCHANGED <<jobCache, resultCache, result>>,
         dbErrors' = 0 => dbErrors = 0,
         \A j \in Jobs : status[j] \in Terminal => status'[j] = status[j],
         worker'[w].at \notin {"raised", "saving", "closing", "recording", "savingError"}
  PROVE  ReportsOK'
<1> USE DEF TypeOK, DBTypeOK, Task, ReportsOK, OnlyMoves, Terminal
<1>1. OutcomeIsRecorded'
  BY DEF OutcomeIsRecorded, StatusOf
<1>2. ReportedIsDurable'
  BY DEF ReportedIsDurable
<1>3. DownIsBlank'
  BY UpWhenWorking DEF DownIsBlank
<1> QED
  BY <1>1, <1>2, <1>3

\* ... or that moves on with an outcome it can account for.
LEMMA ReportingStep ==
  ASSUME TypeOK, ClaimsOK, ReportsOK, NEW w \in Workers,
         worker[w].at # "off", up' = up,
         OnlyMoves(w), UNCHANGED <<jobCache, resultCache>>,
         dbErrors' = 0 => dbErrors = 0,
         \A j \in Jobs : status[j] \in Terminal =>
            status'[j] = status[j] /\ (status[j] = "complete" => result'[j] = result[j]),
         \A v \in Workers \ {w} : worker[v].at = "closing" => result'[worker[v].job] = result[worker[v].job],
         LET j == worker'[w].job
             o == worker'[w].outcome
         IN /\ worker'[w].at = "raised" => o = "error"
            /\ worker'[w].at \in {"saving", "closing"} => o \in Outcomes
            /\ worker'[w].at = "closing" /\ dbErrors' = 0 => result'[j] = o
            /\ worker'[w].at \in {"recording", "savingError"} =>
                 /\ j \in Jobs
                 /\ o \in Outcomes \cup {"error"}
                 /\ status'[j] = IF StatusOf(o) = "failed" THEN "failed" ELSE "complete"
                 /\ StatusOf(o) # "failed" /\ dbErrors' = 0 => result'[j] = o
            /\ worker'[w].at = "savingError" => o = "error"
  PROVE  ReportsOK'
<1> USE DEF TypeOK, DBTypeOK, Task, ReportsOK, OnlyMoves, Terminal
<1>1. OutcomeIsRecorded'
  BY DEF OutcomeIsRecorded, StatusOf, Outcomes
<1>2. ReportedIsDurable'
  BY DEF ReportedIsDurable
<1>3. DownIsBlank'
  BY UpWhenWorking DEF DownIsBlank
<1> QED
  BY <1>1, <1>2, <1>3

\* No step misreports, if none of the claims is overtaken.
LEMMA ReportsStep ==
  ASSUME TypeOK, ClaimsOK, ReportsOK, [Next]_vars
  PROVE  ReportsOK'
<1> USE DEF Terminal, dbVars, memVars, countVars
<1>1. ASSUME NEW w \in Workers,
             ClaimNextJob(w) \/ LoadPayload(w) \/ ClaimErrors(w) \/ BuildTenant(w)
             \/ BuildTenantErrors(w) \/ RetryLater(w)
      PROVE  ReportsOK'
  <2>1. /\ worker[w].at # "off" /\ up' = up
        /\ OnlyMoves(w) /\ UNCHANGED <<jobCache, resultCache, result>>
    BY <1>1
    DEF ClaimNextJob, ClaimRow, LoadPayload, FailRow, ClaimErrors, BuildTenant,
        BuildTenantErrors, RetryLater, RequeueRow, Goto, Release, Dies, OnlyMoves,
        TypeOK, Task
  <2>2. worker'[w].at \notin {"raised", "saving", "closing", "recording", "savingError"}
    BY <1>1
    DEF ClaimNextJob, LoadPayload, ClaimErrors, BuildTenant, BuildTenantErrors,
        RetryLater, Goto, Release, Dies, Blank, TypeOK, Task
  <2>3. dbErrors' = 0 => dbErrors = 0
    BY <1>1, FaultTypes
    DEF ClaimNextJob, LoadPayload, ClaimErrors, BuildTenant, BuildTenantErrors,
        RetryLater, TypeOK
  <2>4. \A j \in Jobs : status[j] \in Terminal => status'[j] = status[j]
    BY <1>1
    DEF ClaimNextJob, ClaimRow, Claimable, LoadPayload, FailRow, ClaimErrors,
        BuildTenant, BuildTenantErrors, RetryLater, RequeueRow, ClaimsOK,
        HolderOwnsRow, Holding, TypeOK, DBTypeOK
  <2> QED
    BY <2>1, <2>2, <2>3, <2>4, QuietStep
<1>2. ASSUME NEW w \in Workers,
             PipelineRaises(w) \/ (\E o \in Reports : PipelineReturns(w, o))
      PROVE  ReportsOK'
  BY <1>2, ReportingStep, BoundsAssumption
  DEF PipelineRaises, PipelineReturns, OnlyMoves, TypeOK, Task, Outcomes
<1>3. ASSUME NEW w \in Workers, SaveResult(w) \/ SaveResultErrors(w)
      PROVE  ReportsOK'
  <2>1. /\ worker[w].at = "saving" /\ up' = up
        /\ OnlyMoves(w) /\ UNCHANGED <<jobCache, resultCache, status>>
        /\ worker' = [worker EXCEPT ![w].at = "closing"]
    BY <1>3 DEF SaveResult, SaveResultErrors, SaveResultRow, Goto, OnlyMoves, TypeOK, Task
  <2>2. /\ worker[w].job \in Jobs /\ status[worker[w].job] = "processing"
        /\ worker[w].outcome \in Outcomes
    BY <2>1 DEF ClaimsOK, HolderOwnsRow, Holding, ReportsOK, OutcomeIsRecorded
  <2>3. \A j \in Jobs : j # worker[w].job => result'[j] = result[j]
    BY <1>3, <2>2 DEF SaveResult, SaveResultErrors, SaveResultRow, TypeOK, DBTypeOK
  <2>4. dbErrors' = 0 => dbErrors = 0 /\ result'[worker[w].job] = worker[w].outcome
    BY <1>3, <2>2, FaultTypes
    DEF SaveResult, SaveResultErrors, SaveResultRow, TypeOK, DBTypeOK
  <2>5. \A v \in Workers \ {w} : worker[v].at = "closing" =>
          result'[worker[v].job] = result[worker[v].job]
    BY <2>1, <2>2, <2>3 DEF ClaimsOK, HolderOwnsRow, ExclusiveClaim, Holds, Holding
  <2>6. /\ worker'[w].at = "closing" /\ worker'[w].job = worker[w].job
        /\ worker'[w].outcome = worker[w].outcome
    BY <2>1 DEF TypeOK, Task
  <2> QED
    BY <2>1, <2>2, <2>3, <2>4, <2>5, <2>6, ReportingStep
<1>4. ASSUME NEW w \in Workers, GiveUp(w) \/ CloseOut(w)
      PROVE  ReportsOK'
  <2> DEFINE j == worker[w].job
             o == worker[w].outcome
  <2>1. /\ worker[w].at \in {"raised", "closing"} /\ up' = up
        /\ OnlyMoves(w) /\ UNCHANGED <<jobCache, resultCache, result, dbErrors>>
        /\ worker' = [worker EXCEPT ![w].at = "recording"]
    BY <1>4 DEF GiveUp, CloseOut, CloseRow, FailRow, CompleteRow, Goto, OnlyMoves, TypeOK, Task
  <2>2. /\ j \in Jobs /\ status[j] = "processing"
        /\ worker[w].at = "raised" => o = "error"
        /\ worker[w].at = "closing" => o \in Outcomes /\ (dbErrors = 0 => result[j] = o)
    BY <2>1 DEF ClaimsOK, HolderOwnsRow, Holding, ReportsOK, OutcomeIsRecorded
  <2>3. status' = [status EXCEPT ![j] = IF StatusOf(o) = "failed" THEN "failed" ELSE "complete"]
    BY <1>4, <2>2 DEF GiveUp, CloseOut, CloseRow, FailRow, CompleteRow, StatusOf
  <2>4. /\ worker'[w].at = "recording" /\ worker'[w].job = j /\ worker'[w].outcome = o
    BY <2>1 DEF TypeOK, Task
  <2>5. StatusOf("error") = "failed"
    BY DEF StatusOf
  <2>6. \A k \in Jobs : status[k] \in Terminal => status'[k] = status[k]
    BY <2>2, <2>3 DEF TypeOK, DBTypeOK
  <2>7. status'[j] = IF StatusOf(o) = "failed" THEN "failed" ELSE "complete"
    BY <2>2, <2>3 DEF TypeOK, DBTypeOK
  <2> QED
    BY <2>1, <2>2, <2>4, <2>5, <2>6, <2>7, ReportingStep
<1>5. ASSUME NEW w \in Workers, QueueWriteErrors(w)
      PROVE  ReportsOK'
  <2>1. /\ worker[w].at \in {"raised", "closing"} /\ up' = up
        /\ OnlyMoves(w) /\ UNCHANGED <<jobCache, resultCache, result>>
        /\ worker'[w].at = "dead"
    BY <1>5
    DEF QueueWriteErrors, CloseRow, FailRow, CompleteRow, RequeueRow, Dies, Blank,
        OnlyMoves, TypeOK, Task
  <2>2. worker[w].job \in Jobs /\ status[worker[w].job] = "processing"
    BY <2>1 DEF ClaimsOK, HolderOwnsRow, Holding
  <2>3. \A j \in Jobs : status[j] \in Terminal => status'[j] = status[j]
    BY <1>5, <2>2
    DEF QueueWriteErrors, CloseRow, FailRow, CompleteRow, RequeueRow, TypeOK, DBTypeOK
  <2>4. dbErrors' # 0
    BY <1>5, FaultTypes DEF QueueWriteErrors, TypeOK
  <2> QED
    BY <2>1, <2>3, <2>4, QuietStep
<1>6. ASSUME NEW w \in Workers, RecordJobResult(w)
      PROVE  ReportsOK'
  <2> USE <1>6 DEF TypeOK, DBTypeOK, Task, ReportsOK
  <2> DEFINE j == worker[w].job
             o == worker[w].outcome
  <2>1. /\ worker[w].at = "recording" /\ up
        /\ j \in Jobs
        /\ o \in Outcomes \cup {"error"}
        /\ status[j] = IF StatusOf(o) = "failed" THEN "failed" ELSE "complete"
        /\ StatusOf(o) # "failed" /\ dbErrors = 0 => result[j] = o
    BY UpWhenWorking DEF RecordJobResult, OutcomeIsRecorded
  <2>2. StatusOf(o) \in {"complete", "partial", "failed"}
    BY <2>1 DEF StatusOf, Outcomes
  <2>3. OutcomeIsRecorded'
    BY <2>1 DEF RecordJobResult, Goto, Release, Blank, OutcomeIsRecorded
  <2>4. ReportedIsDurable'
    BY <2>1, <2>2 DEF RecordJobResult, RecordInCaches, ReportedIsDurable
  <2>5. DownIsBlank'
    BY <2>1 DEF RecordJobResult, DownIsBlank
  <2> QED
    BY <2>3, <2>4, <2>5
<1>7. ASSUME NEW w \in Workers, SaveErrorResult(w) \/ SaveErrorResultErrors(w)
      PROVE  ReportsOK'
  <2>1. /\ worker[w].at = "savingError" /\ up' = up
        /\ OnlyMoves(w) /\ UNCHANGED <<jobCache, resultCache, status>>
        /\ worker'[w].at \in {"idle", "dead"}
    BY <1>7
    DEF SaveErrorResult, SaveErrorResultErrors, SaveResultRow, Release, Dies, Blank,
        OnlyMoves, TypeOK, Task
  <2>2. worker[w].job \in Jobs /\ status[worker[w].job] = "failed"
    BY <2>1 DEF ReportsOK, OutcomeIsRecorded, StatusOf
  <2>3. \A j \in Jobs : j # worker[w].job => result'[j] = result[j]
    BY <1>7, <2>2
    DEF SaveErrorResult, SaveErrorResultErrors, SaveResultRow, TypeOK, DBTypeOK
  <2>4. dbErrors' = 0 => dbErrors = 0
    BY <1>7, FaultTypes DEF SaveErrorResult, SaveErrorResultErrors, TypeOK
  <2>5. \A v \in Workers \ {w} : worker[v].at = "closing" =>
          result'[worker[v].job] = result[worker[v].job]
    BY <2>2, <2>3 DEF ClaimsOK, HolderOwnsRow, Holding
  <2> QED
    BY <2>1, <2>2, <2>3, <2>4, <2>5, ReportingStep
<1>8. ASSUME Crash
      PROVE  ReportsOK'
  BY <1>8 DEF Crash, Blank, ReportsOK, OutcomeIsRecorded, ReportedIsDurable, DownIsBlank
<1>9. ASSUME Restart
      PROVE  ReportsOK'
  BY <1>9
  DEF Restart, Blank, ReportsOK, OutcomeIsRecorded, ReportedIsDurable, DownIsBlank,
      ClaimsOK, LeaseTracksClaim, TypeOK, DBTypeOK
<1>10. ASSUME RestartCold
      PROVE  ReportsOK'
  BY <1>10
  DEF RestartCold, Blank, ReportsOK, OutcomeIsRecorded, ReportedIsDurable, DownIsBlank
<1>11. ASSUME NEW j \in Jobs, Submit(j)
       PROVE  ReportsOK'
  <2> USE <1>11 DEF Submit, TypeOK, DBTypeOK, Task, ReportsOK
  <2>1. OutcomeIsRecorded'
    BY DEF OutcomeIsRecorded, StatusOf
  <2>2. ReportedIsDurable'
    BY DEF ReportedIsDurable
  <2>3. DownIsBlank'
    BY DEF DownIsBlank
  <2> QED
    BY <2>1, <2>2, <2>3
<1>12. ASSUME \/ \E j \in Jobs : StaleElapses(j) \/ RetryDue(j) \/ AcknowledgeReview(j)
              \/ UNCHANGED vars
       PROVE  ReportsOK'
  <2>1. UNCHANGED <<status, result, up, worker, jobCache, resultCache, dbErrors>>
    BY <1>12
    DEF StaleElapses, LeaseElapses, RetryDue, BackoffElapses, AcknowledgeReview,
        AcknowledgeRow, vars
  <2> QED
    BY <2>1 DEF ReportsOK, OutcomeIsRecorded, ReportedIsDurable, DownIsBlank
<1> QED
  BY <1>1, <1>2, <1>3, <1>4, <1>5, <1>6, <1>7, <1>8, <1>9, <1>10, <1>11, <1>12
  DEF Next, WorkerStep, WorkerFault

-----------------------------------------------------------------------------
(***************************************************************************)
(* The inductive invariant, and what follows from it.  MaxOvertakes = 0 is *)
(* the assumption that no run of the pipeline outlives stale_seconds: with *)
(* it dropped, MCWorkerPoolSlow.cfg has TLC refute FailIsPermanent.        *)
(***************************************************************************)

\* IndInv, in the three parts whose steps are proved separately.
LEMMA IndInvParts == IndInv <=> TypeOK /\ ClaimsOK /\ ReportsOK
BY DEF IndInv, ClaimsOK, ReportsOK

\* The queue starts without jobs, claims or reports.
LEMMA IndInvInit == Init => IndInv
<1> SUFFICES ASSUME Init PROVE IndInv
  OBVIOUS
<1> USE BoundsAssumption DEF Init, DBInit, Blank
<1>1. TypeOK
  BY DEF TypeOK, DBTypeOK, Task, Stages, JobStatus, CacheStatus, Results
<1>2. ClaimsOK
  BY DEF ClaimsOK, HolderOwnsRow, ExclusiveClaim, PayloadKept, LeaseTracksClaim,
         AttemptsBounded, AttemptsLeft, Holds, Holding
<1>3. ReportsOK
  BY DEF ReportsOK, OutcomeIsRecorded, ReportedIsDurable, DownIsBlank
<1> QED
  BY <1>1, <1>2, <1>3, IndInvParts

\* Every step keeps the invariant, if none of the claims is overtaken.
LEMMA IndInvStep == ASSUME MaxOvertakes = 0, IndInv, [Next]_vars PROVE IndInv'
<1>1. TypeOK /\ ClaimsOK /\ ReportsOK
  BY IndInvParts
<1>2. TaskHasJob
  BY <1>1 DEF TaskHasJob, ClaimsOK, ReportsOK, HolderOwnsRow, OutcomeIsRecorded
<1>3. TypeOK'
  BY <1>1, <1>2, TypeStep
<1>4. ClaimsOK'
  BY <1>1, ClaimsStep DEF ReportsOK
<1>5. ReportsOK'
  BY <1>1, ReportsStep
<1> QED
  BY <1>3, <1>4, <1>5 DEF IndInv, ClaimsOK, ReportsOK

\* The invariant holds in every reachable state.
THEOREM Invariance == ASSUME MaxOvertakes = 0 PROVE Spec => []IndInv
<1>1. IndInv /\ [Next]_vars => IndInv'
  BY IndInvStep
<1> QED
  BY <1>1, IndInvInit, PTL DEF Spec

\* Two workers never process the same job (the promise of JobQueue.claim).
THEOREM ClaimsAreExclusive == ASSUME MaxOvertakes = 0 PROVE Spec => []ExclusiveClaim
<1>1. IndInv => ExclusiveClaim
  BY DEF IndInv
<1> QED
  BY <1>1, Invariance, PTL

\* A job that is not closed keeps its PDF, whatever crashes.
THEOREM PayloadsAreKept == ASSUME MaxOvertakes = 0 PROVE Spec => [](PayloadKept /\ Reclaimable)
<1>1. IndInv => PayloadKept /\ Reclaimable
  BY DEF IndInv, LeaseTracksClaim, Reclaimable, TypeOK, DBTypeOK
<1> QED
  BY <1>1, Invariance, PTL

\* Attempts run out, up to the claims that crashes and errors lose.
THEOREM AttemptsAreBounded == ASSUME MaxOvertakes = 0 PROVE Spec => []AttemptsBounded
<1>1. IndInv => AttemptsBounded
  BY DEF IndInv
<1> QED
  BY <1>1, Invariance, PTL

\* The API never calls a job finished before the table does.
THEOREM ReportsAreDurable == ASSUME MaxOvertakes = 0 PROVE Spec => []ReportedIsDurable
<1>1. IndInv => ReportedIsDurable
  BY DEF IndInv
<1> QED
  BY <1>1, Invariance, PTL
-----------------------------------------------------------------------------
(***************************************************************************)
(* What a step does to the row of a job, seen from outside.                *)
(***************************************************************************)

\* The row of j keeps its status and its flag.
RowKept(j) == status'[j] = status[j] /\ needsReview'[j] = needsReview[j]

\* j is closed, by the worker that holds it and with the outcome it reports.
ClosedBy(w, j) ==
  /\ status[j] = "processing"
  /\ worker[w].at \in {"loading", "raised", "closing"} /\ worker[w].job = j
  /\ \/ status'[j] = "failed" /\ needsReview'[j] = needsReview[j]
     \/ /\ worker[w].at = "closing" /\ StatusOf(worker[w].outcome) # "failed"
        /\ status'[j] = "complete" /\ needsReview'[j] = Abstains(worker[w].outcome)

\* j is accepted, claimed, reclaimed or requeued.
Opened(j) ==
  /\ status[j] \notin Terminal /\ status'[j] \in {"queued", "processing"}
  /\ status[j] = "none" => status'[j] = "queued"
  /\ needsReview'[j] = needsReview[j]

\* A human has looked at j.
Reviewed(j) == status'[j] = status[j] /\ ~ needsReview'[j]

\* A step touches at most one row, in one of these ways.
RowStep(j) ==
  /\ \A k \in Jobs \ {j} : RowKept(k)
  /\ RowKept(j) \/ Opened(j) \/ Reviewed(j) \/ \E w \in Workers : ClosedBy(w, j)

\* The job of a task that holds a claim is being processed.
LEMMA HeldIsProcessing ==
  ASSUME IndInv, NEW w \in Workers, worker[w].at \in Holding
  PROVE  worker[w].job \in Jobs /\ status[worker[w].job] = "processing"
BY DEF IndInv, HolderOwnsRow

\* The steps of one task.
LEMMA WorkerRowStep ==
  ASSUME IndInv, NEW w \in Workers, WorkerStep(w) \/ WorkerFault(w), NEW i \in Jobs
  PROVE  \E j \in Jobs : RowStep(j)
<1> USE DEF IndInv, TypeOK, DBTypeOK
<1>1. CASE UNCHANGED <<status, needsReview>>
  BY <1>1 DEF RowStep, RowKept
<1>2. CASE ClaimNextJob(w)
  <2>1. PICK j \in Jobs : ClaimRow(j)
    BY <1>2 DEF ClaimNextJob
  <2>2. RowStep(j)
    BY <2>1 DEF ClaimRow, Claimable, RowStep, RowKept, Opened, Terminal
  <2> QED
    BY <2>2
<1> DEFINE j == worker[w].job
<1>3. ASSUME worker[w].at \in {"loading", "raised", "closing"}, FailRow(j)
      PROVE  RowStep(j) /\ j \in Jobs
  <2>1. j \in Jobs /\ status[j] = "processing"
    BY <1>3, HeldIsProcessing DEF Holding
  <2> QED
    BY <1>3, <2>1 DEF FailRow, RowStep, RowKept, ClosedBy
<1>4. ASSUME worker[w].at = "raised", RequeueRow(j)
      PROVE  RowStep(j) /\ j \in Jobs
  <2>1. j \in Jobs /\ status[j] = "processing"
    BY <1>4, HeldIsProcessing DEF Holding
  <2> QED
    BY <1>4, <2>1 DEF RequeueRow, RowStep, RowKept, Opened, Terminal
<1>5. ASSUME worker[w].at = "closing", CloseRow(j, worker[w].outcome)
      PROVE  RowStep(j) /\ j \in Jobs
  <2>1. j \in Jobs /\ status[j] = "processing"
    BY <1>5, HeldIsProcessing DEF Holding
  <2>2. CASE StatusOf(worker[w].outcome) = "failed"
    BY <1>3, <1>5, <2>2 DEF CloseRow
  <2>3. CASE StatusOf(worker[w].outcome) # "failed"
    <3>1. CompleteRow(j, Abstains(worker[w].outcome))
      BY <1>5, <2>3 DEF CloseRow
    <3> QED
      BY <1>5, <2>1, <2>3, <3>1 DEF CompleteRow, RowStep, RowKept, ClosedBy
  <2> QED
    BY <2>2, <2>3
<1>6. CASE LoadPayload(w)
  BY <1>1, <1>3, <1>6 DEF LoadPayload, dbVars
<1>7. CASE RetryLater(w)
  BY <1>4, <1>7 DEF RetryLater
<1>8. CASE GiveUp(w)
  BY <1>3, <1>8 DEF GiveUp
<1>9. CASE CloseOut(w)
  BY <1>5, <1>9 DEF CloseOut
<1>10. CASE QueueWriteErrors(w)
  BY <1>1, <1>3, <1>4, <1>5, <1>10 DEF QueueWriteErrors, dbVars
<1> QED
  BY <1>1, <1>2, <1>6, <1>7, <1>8, <1>9, <1>10
  DEF WorkerStep, WorkerFault, BuildTenant, PipelineReturns, PipelineRaises, SaveResult,
      SaveResultRow, RecordJobResult, SaveErrorResult, ClaimErrors, BuildTenantErrors,
      SaveResultErrors, SaveErrorResultErrors, dbVars

\* The steps of the system.
LEMMA SomeRowStep ==
  ASSUME IndInv, [Next]_vars, NEW i \in Jobs
  PROVE  \E j \in Jobs : RowStep(j)
<1> USE DEF IndInv, TypeOK, DBTypeOK
<1>1. CASE \E w \in Workers : WorkerStep(w) \/ WorkerFault(w)
  BY <1>1, WorkerRowStep
<1>2. CASE UNCHANGED <<status, needsReview>>
  BY <1>2 DEF RowStep, RowKept
<1>3. ASSUME NEW j \in Jobs, Submit(j) PROVE RowStep(j)
  BY <1>3 DEF Submit, RowStep, RowKept, Opened, Terminal
<1>4. ASSUME NEW j \in Jobs, AcknowledgeReview(j) PROVE RowStep(j)
  BY <1>4 DEF AcknowledgeReview, AcknowledgeRow, RowStep, RowKept, Reviewed
<1> QED
  BY <1>1, <1>2, <1>3, <1>4
  DEF Next, Crash, Restart, RestartCold, StaleElapses, LeaseElapses, RetryDue,
      BackoffElapses, vars, dbVars

-----------------------------------------------------------------------------
(***************************************************************************)
(* A closed job stays as it was closed.                                    *)
(***************************************************************************)

\* The row of a job that is closed and that no worker holds is left alone by the
\* tasks: a claim takes open rows only, and every other write is a holder's.
LEMMA WorkersLeaveClosedRows ==
  ASSUME TypeOK, NEW w \in Workers, WorkerStep(w) \/ WorkerFault(w),
         NEW i \in Jobs, status[i] \in Terminal, ~ Holds(w, i)
  PROVE  status'[i] = status[i] /\ needsReview'[i] = needsReview[i]
<1> USE DEF TypeOK, DBTypeOK
<1> DEFINE j == worker[w].job
<1>1. CASE UNCHANGED <<status, needsReview>>
  BY <1>1
<1>2. CASE ClaimNextJob(w)
  <2>1. PICK k \in Jobs : ClaimRow(k)
    BY <1>2 DEF ClaimNextJob
  <2> QED
    BY <2>1 DEF ClaimRow, Claimable, Terminal
<1>3. ASSUME worker[w].at \in {"loading", "raised", "closing"}
      PROVE  i # j
  BY <1>3 DEF Holds, Holding
<1>4. ASSUME worker[w].at \in {"loading", "raised", "closing"}, FailRow(j)
      PROVE  status'[i] = status[i] /\ needsReview'[i] = needsReview[i]
  BY <1>3, <1>4 DEF FailRow
<1>5. ASSUME worker[w].at = "raised", RequeueRow(j)
      PROVE  status'[i] = status[i] /\ needsReview'[i] = needsReview[i]
  BY <1>3, <1>5 DEF RequeueRow
<1>6. ASSUME worker[w].at = "closing", CloseRow(j, worker[w].outcome)
      PROVE  status'[i] = status[i] /\ needsReview'[i] = needsReview[i]
  BY <1>3, <1>6 DEF CloseRow, CompleteRow, FailRow
<1>7. CASE LoadPayload(w)
  BY <1>1, <1>4, <1>7 DEF LoadPayload, dbVars
<1>8. CASE RetryLater(w)
  BY <1>5, <1>8 DEF RetryLater
<1>9. CASE GiveUp(w)
  BY <1>4, <1>9 DEF GiveUp
<1>10. CASE CloseOut(w)
  BY <1>6, <1>10 DEF CloseOut
<1>11. CASE QueueWriteErrors(w)
  BY <1>1, <1>4, <1>5, <1>6, <1>11 DEF QueueWriteErrors, dbVars
<1> QED
  BY <1>1, <1>2, <1>7, <1>8, <1>9, <1>10, <1>11
  DEF WorkerStep, WorkerFault, BuildTenant, PipelineReturns, PipelineRaises, SaveResult,
      SaveResultRow, RecordJobResult, SaveErrorResult, ClaimErrors, BuildTenantErrors,
      SaveResultErrors, SaveErrorResultErrors, dbVars

\* Whatever claims are overtaken, a closed job that no worker is processing any
\* more stays as it was closed: a late worker that still holds it is all that
\* can reopen it.
THEOREM ClosedIsFinalOnceReleased == Spec => OnlyHoldersReopen
<1>1. ASSUME TypeOK, [Next]_vars, NEW j \in Jobs, status[j] \in Terminal, ~ Held(j)
      PROVE  status'[j] = status[j] /\ (needsReview'[j] => needsReview[j])
  <2> USE <1>1 DEF TypeOK, DBTypeOK
  <2>1. CASE \E w \in Workers : WorkerStep(w) \/ WorkerFault(w)
    BY <2>1, WorkersLeaveClosedRows DEF Held
  <2>2. CASE UNCHANGED <<status, needsReview>>
    BY <2>2
  <2>3. ASSUME NEW k \in Jobs, Submit(k)
        PROVE  status'[j] = status[j] /\ needsReview' = needsReview
    BY <2>3 DEF Submit, Terminal
  <2>4. ASSUME NEW k \in Jobs, AcknowledgeReview(k)
        PROVE  status' = status /\ (needsReview'[j] => needsReview[j])
    BY <2>4 DEF AcknowledgeReview, AcknowledgeRow
  <2> QED
    BY <2>1, <2>2, <2>3, <2>4
    DEF Next, Crash, Restart, RestartCold, StaleElapses, LeaseElapses, RetryDue,
        BackoffElapses, vars, dbVars
<1>2. TypeOK /\ [Next]_vars => [\A j \in Jobs : status[j] \in Terminal /\ ~ Held(j) =>
        /\ status'[j] = status[j]
        /\ needsReview'[j] => needsReview[j]]_vars
  BY <1>1
<1> QED
  BY <1>2, TypeCorrect, PTL DEF Spec, OnlyHoldersReopen

\* A job completes with the flag of the output clients will read: the result
\* row of the very run that closes it (worker.py, _process).
THEOREM FlagsMatchResults == ASSUME MaxOvertakes = 0 PROVE Spec => ReviewFlagMatchesResult
<1>1. ASSUME IndInv, [Next]_vars, NEW j \in Jobs,
             status[j] # "complete", status'[j] = "complete", dbErrors = 0
      PROVE  /\ StatusOf(result[j]) \in {"complete", "partial"}
             /\ needsReview'[j] = Abstains(result[j])
  <2>1. PICK k \in Jobs : RowStep(k)
    BY <1>1, SomeRowStep
  <2>2. PICK w \in Workers : ClosedBy(w, j)
    BY <1>1, <2>1 DEF RowStep, RowKept, Opened, Reviewed
  <2>3. /\ worker[w].at = "closing" /\ worker[w].job = j
        /\ StatusOf(worker[w].outcome) # "failed"
        /\ needsReview'[j] = Abstains(worker[w].outcome)
    BY <1>1, <2>2 DEF ClosedBy
  <2>4. worker[w].outcome \in Outcomes /\ result[j] = worker[w].outcome
    BY <1>1, <2>3 DEF IndInv, OutcomeIsRecorded
  <2> QED
    BY <2>3, <2>4 DEF StatusOf, Outcomes
<1>2. IndInv /\ [Next]_vars => [\A j \in Jobs :
        status[j] # "complete" /\ status'[j] = "complete" /\ dbErrors = 0 =>
          /\ StatusOf(result[j]) \in {"complete", "partial"}
          /\ needsReview'[j] = Abstains(result[j])]_vars
  BY <1>1
<1> QED
  BY <1>2, Invariance, PTL DEF Spec, ReviewFlagMatchesResult

-----------------------------------------------------------------------------
(***************************************************************************)
(* WorkerPool implements JobLifecycle.                                     *)
(***************************************************************************)

\* The cache learns of a closing only in steps that leave every row alone.
LEMMA ToldStep ==
  ASSUME IndInv, [Next]_vars
  PROVE  \/ UNCHANGED <<status, needsReview>>
         \/ \A j \in Jobs : jobCache'[j] \in Terminal <=> jobCache[j] \in Terminal
<1> USE DEF IndInv, TypeOK, DBTypeOK
<1>1. ASSUME NEW w \in Workers, WorkerStep(w) \/ WorkerFault(w)
      PROVE  UNCHANGED jobCache \/ UNCHANGED <<status, needsReview>>
  BY <1>1 DEF WorkerStep, WorkerFault, ClaimNextJob, LoadPayload, BuildTenant,
     PipelineReturns, PipelineRaises, RetryLater, GiveUp, SaveResult, CloseOut,
     RecordJobResult, SaveErrorResult, ClaimErrors, BuildTenantErrors,
     SaveResultErrors, QueueWriteErrors, SaveErrorResultErrors, dbVars
<1>2. ASSUME NEW j \in Jobs, Submit(j)
      PROVE  \A k \in Jobs : jobCache'[k] \in Terminal <=> jobCache[k] \in Terminal
  BY <1>2 DEF Submit, ReportedIsDurable, Terminal
<1>3. ASSUME NEW j \in Jobs, StaleElapses(j) \/ RetryDue(j) \/ AcknowledgeReview(j)
      PROVE  UNCHANGED jobCache
  BY <1>3 DEF StaleElapses, RetryDue, AcknowledgeReview, memVars
<1>4. CASE Crash \/ Restart \/ RestartCold
  BY <1>4 DEF Crash, Restart, RestartCold, dbVars
<1>5. CASE UNCHANGED vars
  BY <1>5 DEF vars, dbVars
<1> QED
  BY <1>1, <1>2, <1>3, <1>4, <1>5 DEF Next

\* Only a closed job is flagged, so a job that is closed was not.
FlaggedIsClosed == \A j \in Jobs : needsReview[j] => status[j] \in Terminal

\* Flags appear and disappear with the closings they belong to.
LEMMA FlagsInvariance == ASSUME MaxOvertakes = 0 PROVE Spec => []FlaggedIsClosed
<1>1. Init => FlaggedIsClosed
  BY DEF Init, DBInit, FlaggedIsClosed
<1>2. ASSUME IndInv, FlaggedIsClosed, [Next]_vars, NEW j \in Jobs, needsReview'[j]
      PROVE  status'[j] \in Terminal
  <2>1. PICK k \in Jobs : RowStep(k)
    BY <1>2, SomeRowStep
  <2> QED
    BY <1>2, <2>1 DEF RowStep, RowKept, Opened, Reviewed, ClosedBy, Terminal, FlaggedIsClosed
<1>3. IndInv /\ FlaggedIsClosed /\ [Next]_vars => FlaggedIsClosed'
  BY <1>2 DEF FlaggedIsClosed
<1> QED
  BY <1>1, <1>3, Invariance, PTL DEF Spec

\* What JobLifecycle sees of the pool.
Verdict == [j \in Jobs |-> IF status[j] \in {"queued", "processing"} THEN "open" ELSE status[j]]
Review  == {j \in Jobs : needsReview[j]}
Told    == {j \in Jobs : jobCache[j] \in Terminal}

\* A change of one row is a step of the lifecycle of its job, or none at all.
LEMMA RowStepImplements ==
  ASSUME IndInv, FlaggedIsClosed, NEW j \in Jobs, RowStep(j), Told' = Told
  PROVE  [Lifecycle!Next]_(Lifecycle!vars)
<1> USE DEF IndInv, TypeOK, DBTypeOK
<1>1. \A k \in Jobs \ {j} : Verdict'[k] = Verdict[k] /\ (k \in Review' <=> k \in Review)
  BY DEF RowStep, RowKept, Verdict, Review
<1>2. Verdict' = [Verdict EXCEPT ![j] = Verdict'[j]]
  BY <1>1 DEF Verdict
<1>3. CASE RowKept(j)
  <2>1. Verdict' = Verdict /\ Review' = Review
    BY <1>1, <1>3 DEF RowKept, Verdict, Review
  <2> QED
    BY <2>1 DEF Lifecycle!vars, Verdict, Review, Told
<1>4. CASE Opened(j)
  <2>1. Review' = Review
    BY <1>1, <1>4 DEF Opened, Review
  <2>2. Verdict'[j] = "open" /\ Verdict[j] \in {"none", "open"}
    BY <1>4 DEF Opened, Verdict, Terminal, JobStatus
  <2>3. CASE Verdict[j] = "none"
    <3>1. Lifecycle!Accept(j)
      BY <1>2, <2>1, <2>2, <2>3 DEF Lifecycle!Accept, Verdict, Review, Told
    <3> QED
      BY <3>1 DEF Lifecycle!Next
  <2>4. CASE Verdict[j] = "open"
    <3>1. Verdict' = Verdict
      BY <1>1, <2>2, <2>4 DEF Verdict
    <3> QED
      BY <2>1, <3>1 DEF Lifecycle!vars, Verdict, Review, Told
  <2> QED
    BY <2>2, <2>3, <2>4
<1>5. CASE Reviewed(j)
  <2>1. Verdict' = Verdict
    BY <1>1, <1>5 DEF Reviewed, Verdict
  <2>2. Review' = Review \ {j}
    BY <1>1, <1>5 DEF Reviewed, Review
  <2>3. CASE j \in Review
    <3>1. Lifecycle!Acknowledge(j)
      BY <2>1, <2>2, <2>3 DEF Lifecycle!Acknowledge, Verdict, Review, Told
    <3> QED
      BY <3>1 DEF Lifecycle!Next
  <2>4. CASE j \notin Review
    <3>1. Review' = Review
      BY <2>2, <2>4
    <3> QED
      BY <2>1, <3>1 DEF Lifecycle!vars, Verdict, Review, Told
  <2> QED
    BY <2>3, <2>4
<1>6. CASE \E w \in Workers : ClosedBy(w, j)
  <2>1. Verdict[j] = "open"
    BY <1>6 DEF ClosedBy, Verdict
  <2>2. \/ Verdict'[j] = "failed" /\ Review' = Review
        \/ Verdict'[j] = "complete" /\ (Review' = Review \/ Review' = Review \cup {j})
    <3>1. \/ status'[j] = "failed" /\ needsReview'[j] = needsReview[j]
          \/ status'[j] = "complete"
      BY <1>6 DEF ClosedBy
    <3>2. \/ Verdict'[j] = "failed" /\ (j \in Review' <=> j \in Review)
          \/ Verdict'[j] = "complete"
      BY <3>1 DEF Verdict, Review
    <3>3. ~ needsReview[j]
      BY <1>6 DEF ClosedBy, FlaggedIsClosed, Terminal
    <3> QED
      BY <1>1, <3>2, <3>3 DEF Review
  <2> QED
    BY <1>2, <2>1, <2>2
    DEF Lifecycle!Next, Lifecycle!Close, Lifecycle!Verdicts, Verdict, Review, Told
<1> QED
  BY <1>3, <1>4, <1>5, <1>6 DEF RowStep

\* Accepted jobs are closed once, flagged by their closing only, and reported
\* only when closed: the safety part of ImplementsJobLifecycle.
THEOREM PoolImplementsLifecycle == ASSUME MaxOvertakes = 0 PROVE Spec => Lifecycle!Spec
<1>1. Init => Lifecycle!Init
  BY DEF Init, DBInit, Lifecycle!Init, Terminal
<1>2. IndInv /\ IndInv' /\ FlaggedIsClosed /\ [Next]_vars => [Lifecycle!Next]_(Lifecycle!vars)
  <2> SUFFICES ASSUME IndInv, IndInv', FlaggedIsClosed, [Next]_vars
               PROVE  [Lifecycle!Next]_(Lifecycle!vars)
    OBVIOUS
  <2>1. CASE UNCHANGED <<status, needsReview>>
    <3>1. Verdict' = Verdict /\ Review' = Review
      BY <2>1 DEF Verdict, Review
    <3>2. \A j \in Told' : Verdict[j] \in {"complete", "failed"}
      BY <2>1 DEF IndInv, ReportedIsDurable, LeaseTracksClaim, Told, Verdict, Terminal
    <3>3. Lifecycle!Reload
      BY <3>1, <3>2
      DEF Lifecycle!Reload, Lifecycle!Closed, Lifecycle!Verdicts, Verdict, Review, Told
    <3> QED
      BY <3>3 DEF Lifecycle!Next
  <2>2. CASE \A j \in Jobs : jobCache'[j] \in Terminal <=> jobCache[j] \in Terminal
    <3>1. Told' = Told
      BY <2>2 DEF Told
    <3>2. CASE Jobs = {}
      BY <3>1, <3>2 DEF Lifecycle!vars, Told
    <3>3. CASE Jobs # {}
      <4>1. PICK j \in Jobs : RowStep(j)
        BY <3>3, SomeRowStep
      <4> QED
        BY <3>1, <4>1, RowStepImplements
    <3> QED
      BY <3>2, <3>3
  <2> QED
    BY <2>1, <2>2, ToldStep
<1> QED
  BY <1>1, <1>2, Invariance, FlagsInvariance, PTL DEF Spec, Lifecycle!Spec

-----------------------------------------------------------------------------
(***************************************************************************)
(* ExtractionService: what the requests and the fallbacks know.            *)
(*                                                                         *)
(* KnownInv orders the stages of a request: the cache entry, the row, the  *)
(* hash on disk.  It needs no assumption on MaxOvertakes.                  *)
(***************************************************************************)
Routes   == Pending \cup {"none", "duplicate", "queued", "ended", "lost"}
Verdicts == Outcomes \cup {"error"}

SvcTypes ==
  /\ route \in [Jobs -> Routes]
  /\ dedup \in [Docs -> Jobs \cup {NoJob}]
  /\ fallback \in [Jobs -> Results]
  /\ \A j \in Jobs : route[j] \in {"finishing", "savingResult"} => fallback[j] \in Verdicts

\* A task works on a job that has a row, and ends with a verdict.
TasksWork == \A w \in Workers :
  /\ worker[w].at \in Holding \cup {"recording", "savingError"} =>
       worker[w].job \in Jobs /\ status[worker[w].job] # "none"
  /\ worker[w].at \in {"raised", "saving", "closing", "recording", "savingError"} =>
       worker[w].outcome \in Verdicts

\* A request under way, or its fallback, is in a live process, which knows its
\* job.
RequestsLive == \A j \in Jobs : route[j] \in Pending => up /\ jobCache[j] # "none"

\* A process is down after a crash only.
DownIsCounted == ~ up => crashes > 0

\* Without errors the caches know every row, without crashes every request.
RowsAreKnown ==
  up /\ dbErrors = 0 => \A j \in Jobs : status[j] # "none" => jobCache[j] # "none"
RequestsAreKnown ==
  crashes = 0 => \A j \in Jobs : route[j] \notin {"none", "duplicate"} => jobCache[j] # "none"

\* Without errors a request that has come past create_job has a row, and so
\* has a job whose hash is on disk.
RequestsHaveRows ==
  dbErrors = 0 => \A j \in Jobs :
    route[j] \notin {"none", "duplicate", "creating", "lost"} => status[j] # "none"
HashesHaveRows == \A d \in Docs : dedup[d] # NoJob =>
  /\ route[dedup[d]] \notin {"none", "duplicate", "creating", "registering"}
  /\ dbErrors = 0 => status[dedup[d]] # "none"

KnownInv ==
  /\ TypeOK /\ TaskHasJob
  /\ SvcTypes
  /\ TasksWork
  /\ RequestsLive
  /\ DownIsCounted
  /\ RowsAreKnown
  /\ RequestsAreKnown
  /\ RequestsHaveRows
  /\ HashesHaveRows

\* What a report says of a job is a closed status.
LEMMA VerdictStatus ==
  \A o \in Verdicts : StatusOf(o) \in Terminal /\ o \in Results
BY DEF Verdicts, Outcomes, StatusOf, Terminal, Results

\* The tasks of the pool neither make rows nor lose them, and forget no job.
KeepsKnown ==
  /\ \A j \in Jobs : status'[j] # "none" <=> status[j] # "none"
  /\ \A j \in Jobs : jobCache[j] # "none" => jobCache'[j] # "none"
  /\ up' = up /\ crashes' = crashes /\ dbErrors' \in {dbErrors, dbErrors + 1}

\* A task works on a row that is there, and tells the caches of verdicts only.
LEMMA WorkerKeepsKnown ==
  ASSUME TypeOK, TaskHasJob, TasksWork, NEW w \in Workers, WorkerStep(w) \/ WorkerFault(w)
  PROVE  KeepsKnown /\ TasksWork'
<1> USE DEF TypeOK, DBTypeOK, Task, KeepsKnown, countVars, dbVars
<1> DEFINE j == worker[w].job
           o == worker[w].outcome
\* The rows.
<1>1. CASE ClaimNextJob(w)
  <2>1. PICK k \in Jobs :
          /\ ClaimRow(k)
          /\ worker' = [worker EXCEPT ![w] =
               [at |-> "loading", job |-> k, attempt |-> attempts[k] + 1, outcome |-> "none"]]
    BY <1>1 DEF ClaimNextJob
  <2>2. status[k] # "none" /\ status' = [status EXCEPT ![k] = "processing"]
    BY <2>1 DEF ClaimRow, Claimable
  <2>3. KeepsKnown
    BY <1>1, <2>2 DEF ClaimNextJob
  <2>4. TasksWork'
    BY <2>1, <2>2 DEF TasksWork, Holding
  <2> QED
    BY <2>3, <2>4
<1>2. ASSUME j \in Jobs, status[j] # "none",
             \/ UNCHANGED status
             \/ \E s \in JobStatus \ {"none"} : status' = [status EXCEPT ![j] = s],
             \A v \in Workers \ {w} : worker'[v] = worker[v],
             \/ worker'[w].at \in {"idle", "dead"}
             \/ /\ worker'[w].job = j
                /\ \/ worker'[w].at \in {"preparing", "executing"}
                   \/ worker'[w].outcome \in Verdicts
      PROVE  /\ \A k \in Jobs : status'[k] # "none" <=> status[k] # "none"
             /\ TasksWork'
  <2>1. \A k \in Jobs : status'[k] # "none" <=> status[k] # "none"
    BY <1>2
  <2>2. ASSUME NEW v \in Workers
        PROVE  /\ worker'[v].at \in Holding \cup {"recording", "savingError"} =>
                    worker'[v].job \in Jobs /\ status'[worker'[v].job] # "none"
               /\ worker'[v].at \in {"raised", "saving", "closing", "recording", "savingError"} =>
                    worker'[v].outcome \in Verdicts
    <3>1. CASE v = w
      BY <1>2, <2>1, <3>1 DEF Holding
    <3>2. CASE v # w
      BY <1>2, <2>1, <3>2 DEF TasksWork
    <3> QED
      BY <3>1, <3>2
  <2> QED
    BY <2>1, <2>2 DEF TasksWork
<1>3. worker[w].at \in Holding \cup {"recording", "savingError"} => j \in Jobs /\ status[j] # "none"
  BY DEF TasksWork
<1>4. FailRow(j) \/ RequeueRow(j) \/ CloseRow(j, o) =>
        \E s \in JobStatus \ {"none"} : status' = [status EXCEPT ![j] = s]
  BY DEF FailRow, RequeueRow, CloseRow, CompleteRow, JobStatus
<1>5. CASE LoadPayload(w) \/ ClaimErrors(w) \/ BuildTenant(w) \/ BuildTenantErrors(w)
  BY <1>2, <1>3, <1>4, <1>5
  DEF LoadPayload, ClaimErrors, BuildTenant, BuildTenantErrors, Goto, Release, Dies, Blank,
      Fault, Holding
<1>6. CASE PipelineRaises(w) \/ \E r \in Reports : PipelineReturns(w, r)
  BY <1>2, <1>3, <1>6, BoundsAssumption
  DEF PipelineRaises, PipelineReturns, Holding, Verdicts
<1>7. CASE RetryLater(w) \/ GiveUp(w) \/ CloseOut(w)
  BY <1>2, <1>3, <1>4, <1>7
  DEF RetryLater, GiveUp, CloseOut, Goto, Release, Blank, Holding, TasksWork
<1>8. CASE SaveResult(w) \/ SaveResultErrors(w)
  BY <1>2, <1>3, <1>8
  DEF SaveResult, SaveResultErrors, SaveResultRow, Goto, Fault, Holding, TasksWork
<1>9. CASE QueueWriteErrors(w)
  BY <1>2, <1>3, <1>4, <1>9
  DEF QueueWriteErrors, Dies, Blank, Fault, Holding
<1>10. CASE RecordJobResult(w)
  <2>1. o \in Verdicts /\ j \in Jobs /\ status[j] # "none"
    BY <1>3, <1>10 DEF RecordJobResult, TasksWork
  <2>2. StatusOf(o) # "none"
    BY <2>1, VerdictStatus DEF Terminal
  <2>3. TasksWork' /\ \A k \in Jobs : status'[k] # "none" <=> status[k] # "none"
    BY <1>2, <1>10, <2>1 DEF RecordJobResult, Goto, Release, Blank
  <2>4. \A k \in Jobs : jobCache[k] # "none" => jobCache'[k] # "none"
    BY <1>10, <2>2 DEF RecordJobResult, RecordInCaches
  <2> QED
    BY <1>10, <2>3, <2>4 DEF RecordJobResult
<1>11. CASE SaveErrorResult(w) \/ SaveErrorResultErrors(w)
  BY <1>2, <1>3, <1>11
  DEF SaveErrorResult, SaveErrorResultErrors, SaveResultRow, Release, Dies, Blank, Fault
<1> QED
  BY <1>1, <1>5, <1>6, <1>7, <1>8, <1>9, <1>10, <1>11 DEF WorkerStep, WorkerFault

\* So the pool and its restarts take nothing from what the requests rely on: a
\* warm start reads every row back.
LEMMA PoolKeepsKnown == ASSUME KnownInv, PoolStep PROVE KnownInv'
<1>1. [Next]_vars
  BY DEF PoolStep, Next
<1>2. TypeOK' /\ TaskHasJob'
  BY <1>1, TypeStep DEF KnownInv
<1> USE DEF KnownInv, TypeOK, DBTypeOK
<1>3. UNCHANGED svcVars
  BY DEF PoolStep
<1>4. SvcTypes'
  BY <1>3 DEF SvcTypes, svcVars
<1>5. ASSUME KeepsKnown, TasksWork' PROVE KnownInv'
  <2> USE <1>2, <1>3, <1>4, <1>5 DEF KeepsKnown, svcVars
  <2>1. RequestsLive' /\ RequestsAreKnown' /\ DownIsCounted'
    BY DEF RequestsLive, RequestsAreKnown, DownIsCounted
  <2>2. dbErrors \in Nat
    BY BoundsAssumption
  <2>3. RowsAreKnown' /\ RequestsHaveRows'
    BY <2>2 DEF RowsAreKnown, RequestsHaveRows
  <2>4. HashesHaveRows'
    BY <2>2 DEF HashesHaveRows, SvcTypes
  <2> QED
    BY <2>1, <2>3, <2>4
<1>6. ASSUME NEW w \in Workers, WorkerStep(w) \/ WorkerFault(w) PROVE KnownInv'
  BY <1>5, <1>6, WorkerKeepsKnown
<1>7. CASE Restart \/ RestartCold
  <2> USE <1>2, <1>3, <1>4 DEF svcVars, dbVars
  <2>1. /\ ~ up /\ up' /\ status' = status /\ UNCHANGED crashes
        /\ \A w \in Workers : worker'[w] = Blank("idle")
        /\ \/ jobCache' = status /\ dbErrors' = dbErrors
           \/ dbErrors' > 0
    BY <1>7, BoundsAssumption DEF Restart, RestartCold, Fault, countVars
  <2>2. TasksWork'
    BY <2>1 DEF TasksWork, Blank, Holding
  <2>3. RequestsLive' /\ DownIsCounted'
    BY <2>1 DEF RequestsLive, DownIsCounted
  <2>4. RowsAreKnown' /\ RequestsAreKnown'
    BY <2>1 DEF RowsAreKnown, RequestsAreKnown, DownIsCounted
  <2>5. RequestsHaveRows' /\ HashesHaveRows'
    BY <1>7, <2>1 DEF RequestsHaveRows, HashesHaveRows, SvcTypes
  <2> QED
    BY <2>2, <2>3, <2>4, <2>5
<1>8. ASSUME NEW j \in Jobs, StaleElapses(j) \/ RetryDue(j) \/ AcknowledgeReview(j)
      PROVE  KnownInv'
  <2>1. UNCHANGED <<status, memVars, crashes, dbErrors>>
    BY <1>8 DEF StaleElapses, LeaseElapses, RetryDue, BackoffElapses, AcknowledgeReview,
                AcknowledgeRow, countVars
  <2> QED
    BY <1>5, <2>1 DEF memVars, KeepsKnown, TasksWork
<1> QED
  BY <1>6, <1>7, <1>8 DEF PoolStep

\* A crash forgets the caches, loses the requests under way and counts itself.
LEMMA CrashKeepsKnown == ASSUME KnownInv, SvcCrash PROVE KnownInv'
<1>1. [Next]_vars
  BY DEF SvcCrash, Next
<1>2. TypeOK' /\ TaskHasJob'
  BY <1>1, TypeStep DEF KnownInv
<1>3. /\ ~ up' /\ status' = status /\ dbErrors' = dbErrors
      /\ crashes' > 0
      /\ \A w \in Workers : worker'[w] = Blank("off")
      /\ route' = [j \in Jobs |-> IF route[j] \in Pending THEN "lost" ELSE route[j]]
      /\ UNCHANGED <<doc, dedup, fallback>>
  BY CrashTypes DEF SvcCrash, Crash, dbVars, KnownInv, TypeOK
<1> USE <1>3 DEF KnownInv, TypeOK, DBTypeOK
<1>4. SvcTypes'
  BY DEF SvcTypes, Routes, Pending
<1>5. TasksWork'
  BY DEF TasksWork, Blank, Holding
<1>6. RequestsLive' /\ DownIsCounted' /\ RowsAreKnown' /\ RequestsAreKnown'
  BY DEF RequestsLive, DownIsCounted, RowsAreKnown, RequestsAreKnown, Pending
<1>7. RequestsHaveRows' /\ HashesHaveRows'
  BY DEF RequestsHaveRows, HashesHaveRows, SvcTypes, Pending
<1> QED
  BY <1>2, <1>4, <1>5, <1>6, <1>7

\* The transactions of the requests.
LEMMA SvcRowTypes ==
  ASSUME DBTypeOK, NEW j \in Jobs
  PROVE  /\ CreateRow(j) => DBTypeOK'
         /\ EnqueueRow(j) => DBTypeOK'
         /\ \A s \in Terminal : SetStatusRow(j, s) => DBTypeOK'
<1>1. CreateRow(j) => DBTypeOK'
  BY DEF CreateRow, DBTypeOK, JobStatus
<1>2. EnqueueRow(j) => DBTypeOK'
  BY JoinLineType DEF EnqueueRow, DBTypeOK, JobStatus
<1>3. \A s \in Terminal : SetStatusRow(j, s) => DBTypeOK'
  BY LeaveLineType DEF SetStatusRow, DBTypeOK, JobStatus, Terminal
<1> QED
  BY <1>1, <1>2, <1>3

\* What a step of a request does to rows and caches, whichever it is.
SvcRows(j) ==
  /\ \A k \in Jobs \ {j} : status'[k] = status[k]
  /\ status[j] # "none" => status'[j] # "none"
SvcCaches ==
  /\ \A k \in Jobs : jobCache[k] # "none" => jobCache'[k] # "none"
SvcCounts == crashes' = crashes /\ dbErrors' \in {dbErrors, dbErrors + 1}

\* Such a step, with what it may do to the request's stage and the hashes.
LEMMA RequestKeepsKnown ==
  ASSUME KnownInv, NEW j \in Jobs, NEW stage \in Routes,
         DBTypeOK', MemoryOK', SvcTypes',
         SvcRows(j), SvcCaches, SvcCounts, up' = up, worker' = worker,
         GoOn(j, stage),
         stage \in Pending => up /\ jobCache'[j] # "none",
         status'[j] # "none" => status[j] # "none" \/ ~ up \/ jobCache'[j] # "none",
         stage \notin {"none", "duplicate"} => jobCache'[j] # "none" \/ crashes > 0,
         stage \notin {"none", "duplicate", "creating", "lost"} /\ dbErrors' = 0 =>
           status'[j] # "none",
         route[j] \notin {"none", "duplicate", "creating", "registering"} =>
           stage \notin {"none", "duplicate", "creating", "registering"},
         \A d \in Docs : \/ dedup'[d] = dedup[d]
                         \/ dedup'[d] = NoJob
                         \/ dedup'[d] = j /\ stage = "enqueuing"
  PROVE  KnownInv'
<1> USE DEF KnownInv, TypeOK, DBTypeOK, MemoryOK, SvcRows, SvcCaches, SvcCounts, GoOn
<1>1. TypeOK' /\ TaskHasJob'
  BY DEF TaskHasJob
<1>2. TasksWork'
  BY DEF TasksWork
<1>3. route' = [route EXCEPT ![j] = stage] /\ route \in [Jobs -> Routes] /\ dbErrors \in Nat
  BY BoundsAssumption DEF SvcTypes
<1>4. RequestsLive' /\ DownIsCounted'
  BY <1>3 DEF RequestsLive, DownIsCounted
<1>5. RowsAreKnown' /\ RequestsAreKnown'
  BY <1>3 DEF RowsAreKnown, RequestsAreKnown
<1>6. RequestsHaveRows'
  BY <1>3 DEF RequestsHaveRows
<1>7. HashesHaveRows'
  <2> SUFFICES ASSUME NEW d \in Docs, dedup'[d] # NoJob
               PROVE  /\ route'[dedup'[d]] \notin {"none", "duplicate", "creating", "registering"}
                      /\ dbErrors' = 0 => status'[dedup'[d]] # "none"
    BY DEF HashesHaveRows
  <2>1. CASE dedup'[d] = dedup[d]
    <3>1. dedup[d] \in Jobs
      BY <2>1 DEF SvcTypes
    <3>2. /\ route[dedup[d]] \notin {"none", "duplicate", "creating", "registering"}
          /\ dbErrors = 0 => status[dedup[d]] # "none"
      BY <2>1 DEF HashesHaveRows
    <3> QED
      BY <1>3, <2>1, <3>1, <3>2
  <2>2. CASE dedup'[d] = j /\ stage = "enqueuing"
    BY <1>3, <2>2
  <2> QED
    BY <2>1, <2>2
<1> QED
  BY <1>1, <1>2, <1>4, <1>5, <1>6, <1>7

\* Every step of a request or of its fallback.
SvcStep(j) ==
  \/ \E d \in Docs : \/ SubmitDuplicate(j, d)
                     \/ \E force \in BOOLEAN : SubmitFresh(j, d, force)
  \/ SubmitStep(j) \/ PersistCreateErrors(j)
  \/ FallbackStep(j) \/ PersistFinishErrors(j)

\* create_job comes before dedup_store.store, and both after the cache entry.
LEMMA SvcStepKeepsKnown == ASSUME KnownInv, NEW j \in Jobs, SvcStep(j) PROVE KnownInv'
<1> USE DEF KnownInv, TypeOK, DBTypeOK, SvcTypes, dbVars, memVars, countVars, vars,
            MemoryOK, GoOn, SvcRows, SvcCaches, SvcCounts
<1>0. route[j] \in Routes
  OBVIOUS
<1>1. ASSUME NEW d \in Docs, SubmitDuplicate(j, d) PROVE KnownInv'
  <2>1. GoOn(j, "duplicate") /\ "duplicate" \in Routes /\ route[j] = "none"
    BY <1>1 DEF SubmitDuplicate, Routes
  <2>2. UNCHANGED vars /\ UNCHANGED <<dedup, fallback>>
    BY <1>1 DEF SubmitDuplicate
  <2>3. DBTypeOK' /\ MemoryOK' /\ SvcTypes' /\ worker' = worker /\ up' = up
    BY <2>1, <2>2
  <2>4. SvcRows(j) /\ SvcCaches /\ SvcCounts /\ status' = status
    BY <2>2
  <2>5. status'[j] # "none" => status[j] # "none" \/ ~ up \/ jobCache'[j] # "none"
    BY <2>4
  <2>6. "duplicate" \notin Pending
    BY DEF Pending
  <2>7. \A e \in Docs : dedup'[e] = dedup[e]
    BY <2>2
  <2> HIDE DEF KnownInv, SvcRows, SvcCaches, SvcCounts, MemoryOK, DBTypeOK, SvcTypes, GoOn
  <2> QED
    BY <2>1, <2>3, <2>4, <2>5, <2>6, <2>7, RequestKeepsKnown
<1>2. ASSUME NEW d \in Docs, NEW force \in BOOLEAN, SubmitFresh(j, d, force) PROVE KnownInv'
  <2>1. GoOn(j, "creating") /\ "creating" \in Routes /\ route[j] = "none" /\ up
    BY <1>2 DEF SubmitFresh, Routes, Pending
  <2>2. /\ jobCache' = [jobCache EXCEPT ![j] = "processing"]
        /\ dedup' = [dedup EXCEPT ![d] = NoJob]
        /\ UNCHANGED <<dbVars, up, worker, resultCache, countVars, fallback>>
    BY <1>2 DEF SubmitFresh
  <2>3. DBTypeOK' /\ MemoryOK' /\ SvcTypes' /\ worker' = worker /\ up' = up
    BY <2>1, <2>2 DEF CacheStatus, JobStatus
  <2>4. SvcRows(j) /\ SvcCaches /\ SvcCounts /\ jobCache'[j] # "none"
    BY <2>2
  <2>5. \A e \in Docs : dedup'[e] = dedup[e] \/ dedup'[e] = NoJob
    BY <2>2
  <2> HIDE DEF KnownInv, SvcRows, SvcCaches, SvcCounts, MemoryOK, DBTypeOK, SvcTypes, GoOn
  <2> QED
    BY <2>1, <2>3, <2>4, <2>5, RequestKeepsKnown
<1>3. CASE PersistCreate(j) \/ PersistCreateErrors(j)
  <2>1. GoOn(j, "registering") /\ "registering" \in Routes /\ route[j] = "creating"
    BY <1>3 DEF PersistCreate, PersistCreateErrors, Routes, Pending
  <2>2. up /\ jobCache[j] # "none"
    BY <2>1 DEF RequestsLive, Pending
  <2>3. DBTypeOK'
    BY <1>3, SvcRowTypes DEF PersistCreate, PersistCreateErrors
  <2>4. UNCHANGED <<memVars, doc, dedup, fallback>>
    BY <1>3 DEF PersistCreate, PersistCreateErrors
  <2>5. SvcCounts /\ dbErrors' \in 0..MaxDbErrors /\ overtakes' = overtakes
    BY <1>3, FaultTypes DEF PersistCreate, PersistCreateErrors
  <2>6. SvcRows(j)
    BY <1>3 DEF PersistCreate, PersistCreateErrors, CreateRow
  <2>7. dbErrors' = 0 => status'[j] # "none"
    <3>1. CASE PersistCreate(j)
      BY <3>1 DEF PersistCreate, CreateRow
    <3>2. CASE PersistCreateErrors(j)
      BY <3>2, FaultTypes DEF PersistCreateErrors
    <3> QED
      BY <1>3, <3>1, <3>2
  <2>8. MemoryOK' /\ SvcTypes' /\ SvcCaches /\ jobCache'[j] # "none" /\ worker' = worker /\ up' = up
    BY <2>1, <2>2, <2>4, <2>5
  <2>9. \A d \in Docs : dedup'[d] = dedup[d]
    BY <2>4
  <2> HIDE DEF KnownInv, SvcRows, SvcCaches, SvcCounts, MemoryOK, DBTypeOK, SvcTypes, GoOn
  <2> QED
    BY <2>1, <2>2, <2>3, <2>5, <2>6, <2>7, <2>8, <2>9, RequestKeepsKnown
<1>4. CASE RegisterHash(j)
  <2>1. GoOn(j, "enqueuing") /\ "enqueuing" \in Routes /\ route[j] = "registering"
    BY <1>4 DEF RegisterHash, Routes, Pending
  <2>2. up /\ jobCache[j] # "none" /\ (dbErrors = 0 => status[j] # "none")
    BY <2>1 DEF RequestsLive, RequestsHaveRows, Pending
  <2>3. UNCHANGED vars /\ dedup' = [dedup EXCEPT ![doc[j]] = j] /\ UNCHANGED fallback
    BY <1>4 DEF RegisterHash
  <2> QED
    BY <2>1, <2>2, <2>3, RequestKeepsKnown
<1>5. CASE Enqueue(j) \/ EnqueueFails(j)
  <2>1. /\ route[j] = "enqueuing"
        /\ \/ GoOn(j, "queued") \/ GoOn(j, "running")
    BY <1>5 DEF Enqueue, EnqueueFails
  <2>2. "queued" \in Routes /\ "running" \in Routes
    BY DEF Routes, Pending
  <2>3. up /\ jobCache[j] # "none" /\ (dbErrors = 0 => status[j] # "none")
    BY <2>1 DEF RequestsLive, RequestsHaveRows, Pending
  <2>4. DBTypeOK'
    BY <1>5, SvcRowTypes DEF Enqueue, EnqueueFails
  <2>5. MemoryOK' /\ SvcCounts
    BY <1>5, FaultTypes DEF Enqueue, EnqueueFails
  <2>6. SvcRows(j) /\ UNCHANGED <<memVars, dedup, fallback>>
    BY <1>5 DEF Enqueue, EnqueueFails, EnqueueRow
  <2>7. dbErrors' = 0 => status'[j] # "none"
    BY <2>3, <2>5, <2>6, BoundsAssumption
  <2> QED
    BY <2>1, <2>2, <2>3, <2>4, <2>5, <2>6, <2>7, RequestKeepsKnown
<1>6. ASSUME NEW o \in Reports \cup {"error"}, FallbackReports(j, o) PROVE KnownInv'
  <2>1. GoOn(j, "finishing") /\ "finishing" \in Routes /\ route[j] = "running"
    BY <1>6 DEF FallbackReports, Routes, Pending
  <2>2. up /\ jobCache[j] # "none" /\ (dbErrors = 0 => status[j] # "none")
    BY <2>1 DEF RequestsLive, RequestsHaveRows, Pending
  <2>3. o \in Verdicts /\ o \in Results /\ StatusOf(o) \in Terminal
    BY VerdictStatus, BoundsAssumption DEF Verdicts
  <2>4. UNCHANGED <<dbVars, up, worker, countVars>>
        /\ jobCache' = [jobCache EXCEPT ![j] = StatusOf(o)]
        /\ resultCache' = [resultCache EXCEPT ![j] = o]
        /\ fallback' = [fallback EXCEPT ![j] = o]
        /\ dedup' \in {dedup, [dedup EXCEPT ![doc[j]] = NoJob]}
    BY <1>6, <2>2 DEF FallbackReports, RecordInCaches
  <2>5. MemoryOK' /\ SvcCaches
    BY <2>3, <2>4 DEF CacheStatus, JobStatus, Terminal
  <2>6. SvcTypes'
    BY <2>1, <2>3, <2>4
  <2> QED
    BY <2>1, <2>2, <2>4, <2>5, <2>6, <2>3, RequestKeepsKnown DEF Terminal
<1>7. CASE PersistStatus(j) \/ PersistResult(j) \/ PersistFinishErrors(j)
  <2>1. /\ route[j] \in {"finishing", "savingResult"}
        /\ \/ GoOn(j, "savingResult") \/ GoOn(j, "ended")
    BY <1>7 DEF PersistStatus, PersistResult, PersistFinishErrors
  <2>2. "savingResult" \in Routes /\ "ended" \in Routes
    BY DEF Routes, Pending
  <2>3. up /\ jobCache[j] # "none" /\ (dbErrors = 0 => status[j] # "none")
    BY <2>1 DEF RequestsLive, RequestsHaveRows, Pending
  <2>4. fallback[j] \in Results /\ StatusOf(fallback[j]) \in Terminal
    BY <2>1, VerdictStatus
  <2>5. \/ UNCHANGED dbVars
        \/ SetStatusRow(j, StatusOf(fallback[j]))
        \/ SaveResultRow(j, fallback[j])
    BY <1>7 DEF PersistStatus, PersistResult, PersistFinishErrors
  <2>6. DBTypeOK'
    BY <2>4, <2>5, RowTypes, SvcRowTypes
  <2>7. MemoryOK' /\ SvcCounts /\ UNCHANGED <<memVars, dedup, fallback>>
    BY <1>7, FaultTypes DEF PersistStatus, PersistResult, PersistFinishErrors
  <2>8. SvcRows(j)
    BY <2>4, <2>5 DEF SetStatusRow, SaveResultRow, Terminal
  <2>9. dbErrors' = 0 => status'[j] # "none"
    BY <2>3, <2>7, <2>8, BoundsAssumption
  <2> QED
    BY <2>1, <2>2, <2>3, <2>4, <2>6, <2>7, <2>8, <2>9, RequestKeepsKnown
<1> QED
  BY <1>1, <1>2, <1>3, <1>4, <1>5, <1>6, <1>7 DEF SvcStep, SubmitStep, FallbackStep

\* Nothing is known of no request.
LEMMA KnownInvInit == SvcInit => KnownInv
<1> SUFFICES ASSUME SvcInit PROVE KnownInv
  OBVIOUS
<1>1. TypeOK /\ TaskHasJob
  BY IndInvInit, TypeCorrect DEF SvcInit, IndInv, Init, TaskHasJob, Blank, Holding
<1> QED
  BY <1>1
  DEF SvcInit, Init, DBInit, KnownInv, SvcTypes, TasksWork, RequestsLive, DownIsCounted,
      RowsAreKnown, RequestsAreKnown, RequestsHaveRows, HashesHaveRows, Blank, Holding,
      Routes, Pending, Results

\* Every step of the composition, cancellations included, keeps it.
LEMMA KnownInvStep == ASSUME KnownInv, [SvcNext]_allVars PROVE KnownInv'
<1>1. CASE PoolStep
  BY <1>1, PoolKeepsKnown
<1>2. CASE SvcCrash
  BY <1>2, CrashKeepsKnown
<1>3. ASSUME NEW j \in Jobs, SvcStep(j) PROVE KnownInv'
  BY <1>3, SvcStepKeepsKnown
<1>4. ASSUME NEW j \in Jobs, CancelJob(j) PROVE KnownInv'
  <2> USE <1>4 DEF CancelJob, KnownInv, dbVars, countVars, svcVars
  <2>1. TypeOK' /\ TaskHasJob'
    BY DEF TypeOK, DBTypeOK, TaskHasJob, CacheStatus
  <2> QED
    BY <2>1 DEF SvcTypes, TasksWork, RequestsLive, DownIsCounted, RowsAreKnown,
                RequestsAreKnown, RequestsHaveRows, HashesHaveRows, TypeOK
<1>5. CASE UNCHANGED allVars
  BY <1>5 DEF allVars, vars, dbVars, memVars, countVars, svcVars, KnownInv, TypeOK, DBTypeOK,
              TaskHasJob, SvcTypes, TasksWork, RequestsLive, DownIsCounted, RowsAreKnown,
              RequestsAreKnown, RequestsHaveRows, HashesHaveRows
<1> QED
  BY <1>1, <1>2, <1>3, <1>4, <1>5 DEF SvcNext, SvcStep

\* An id handed out as a duplicate to the tenant whose job it is is one GET
\* /v1/jobs knows, also after a crash, whether or not claims are overtaken.
THEOREM DuplicatesAreKnown == SvcSpec => []DuplicateIsKnown
<1>1. KnownInv => DuplicateIsKnown
  BY DEF KnownInv, DuplicateIsKnown, Finds, HashesHaveRows, RowsAreKnown, RequestsAreKnown,
         SvcTypes
<1>2. KnownInv /\ [SvcNext]_allVars => KnownInv'
  BY KnownInvStep
<1> QED
  BY <1>1, <1>2, KnownInvInit, PTL DEF SvcSpec
-----------------------------------------------------------------------------
(***************************************************************************)
(* ExtractionService: the rows, while no claim is overtaken.               *)
(*                                                                         *)
(* A worker's row is its own, except that a fallback whose enqueue had     *)
(* taken effect after all may close it under the worker.  The stage of the *)
(* request says who else could write the row.                              *)
(***************************************************************************)

\* Before its enqueue a job is out of the workers' reach.
BeforeQueue == {"none", "duplicate", "creating", "registering", "enqueuing"}

\* The row is closed, queued or under a claim that can go stale.
Given(j) == \/ status[j] \in Terminal \cup {"queued"}
            \/ status[j] = "processing" /\ lease[j] # "none"

\* One worker at most, with a fresh claim and the PDF at hand.
HolderOK(j) ==
  /\ \A v, w \in Workers : Holds(v, j) /\ Holds(w, j) => v = w
  /\ Held(j) => /\ status[j] \in {"processing"} \cup Terminal
                /\ lease[j] = "fresh"
                /\ j \in payload
                /\ route[j] \notin BeforeQueue

\* A claimed row is not queued, and one to be claimed has its PDF.
ClaimOK(j) ==
  /\ lease[j] # "none" => status[j] \in {"processing"} \cup Terminal
  /\ status[j] = "queued" \/ (status[j] = "processing" /\ lease[j] # "none") => j \in payload
  /\ status[j] = "queued" => route[j] \notin BeforeQueue

\* What the stage of the request says of the row.  A fallback with a row to
\* care for has seen a database error, one that has left its row open a second.
StageOK(j) ==
  /\ route[j] \in {"none", "duplicate", "creating"} => status[j] = "none"
  /\ route[j] \in BeforeQueue => status[j] \in {"none", "processing"} /\ lease[j] = "none"
  /\ route[j] = "queued" => Given(j)
  /\ route[j] \in {"running", "finishing"} => status[j] = "none" \/ dbErrors > 0
  /\ route[j] = "savingResult" => status[j] = "none" \/ Given(j)
  /\ route[j] = "ended" => status[j] = "none" \/ Given(j) \/ dbErrors > 1

RowOK(j) == HolderOK(j) /\ ClaimOK(j) /\ StageOK(j)

RowInv == \A j \in Jobs : RowOK(j)

\* A job whose row and request no step touches, and whose holders only leave.
LEMMA UntouchedRow ==
  ASSUME NEW j \in Jobs, RowOK(j), dbErrors \in Nat, dbErrors' \in {dbErrors, dbErrors + 1},
         status'[j] = status[j], lease'[j] = lease[j], j \in payload' <=> j \in payload,
         route'[j] = route[j],
         \A w \in Workers : Holds(w, j)' => Holds(w, j)
  PROVE  RowOK(j)'
<1> USE DEF RowOK, Given
<1>1. HolderOK(j)'
  BY DEF HolderOK, Held
<1>2. ClaimOK(j)'
  BY DEF ClaimOK
<1>3. StageOK(j)'
  BY DEF StageOK
<1> QED
  BY <1>1, <1>2, <1>3

\* The writes that end a claim.
LEMMA EndedRow ==
  ASSUME KnownInv, NEW j \in Jobs, RowOK(j), Held(j), route'[j] = route[j],
         dbErrors \in Nat, dbErrors' \in {dbErrors, dbErrors + 1},
         \A w \in Workers : ~ Holds(w, j)',
         \/ FailRow(j)
         \/ RequeueRow(j)
         \/ \E r \in BOOLEAN : CompleteRow(j, r)
  PROVE  RowOK(j)'
<1>1. /\ j \in payload /\ route[j] \notin BeforeQueue
      /\ status[j] # "none"
  BY DEF RowOK, HolderOK, Terminal
<1>2. /\ lease'[j] = "none"
      /\ \/ status'[j] \in Terminal
         \/ status'[j] = "queued" /\ j \in payload'
  BY <1>1 DEF FailRow, RequeueRow, CompleteRow, KnownInv, TypeOK, DBTypeOK, Terminal
<1>3. ~ Held(j)'
  BY DEF Held
<1>4. HolderOK(j)'
  BY <1>3 DEF HolderOK
<1>5. ClaimOK(j)'
  BY <1>1, <1>2 DEF ClaimOK, Terminal
<1>6. StageOK(j)'
  BY <1>1, <1>2 DEF RowOK, StageOK, Given, BeforeQueue
<1> QED
  BY <1>4, <1>5, <1>6 DEF RowOK

\* Such a write leaves the other rows alone.
LEMMA EndedElsewhere ==
  ASSUME KnownInv, NEW j \in Jobs, NEW k \in Jobs, k # j,
         \/ FailRow(j)
         \/ RequeueRow(j)
         \/ \E r \in BOOLEAN : CompleteRow(j, r)
  PROVE  status'[k] = status[k] /\ lease'[k] = lease[k] /\ (k \in payload' <=> k \in payload)
BY DEF FailRow, RequeueRow, CompleteRow, KnownInv, TypeOK, DBTypeOK

\* What a worker's step does, seen from the rows: it claims a job, works on,
\* or lets go of its job with the row as it is or with the write that ends the
\* claim.
LEMMA WorkerRows ==
  ASSUME KnownInv, NEW w \in Workers, WorkerStep(w) \/ WorkerFault(w)
  PROVE  /\ OnlyMoves(w) /\ dbErrors' \in {dbErrors, dbErrors + 1}
         /\ \/ ClaimNextJob(w)
            \/ /\ UNCHANGED <<status, lease, payload>>
               /\ worker'[w].at \in Holding =>
                    worker[w].at \in Holding /\ worker'[w].job = worker[w].job
            \/ /\ worker[w].at \in Holding /\ worker'[w].at \notin Holding
               /\ \/ FailRow(worker[w].job)
                  \/ RequeueRow(worker[w].job)
                  \/ \E r \in BOOLEAN : CompleteRow(worker[w].job, r)
<1> USE DEF OnlyMoves, dbVars, countVars, Fault
<1>0. worker \in [Workers -> Task] /\ dbErrors \in Nat
  BY BoundsAssumption DEF KnownInv, TypeOK
<1>1. CASE ClaimNextJob(w)
  BY <1>0, <1>1 DEF ClaimNextJob
<1>2. CASE LoadPayload(w) \/ ClaimErrors(w) \/ BuildTenant(w) \/ BuildTenantErrors(w)
  BY <1>0, <1>2
  DEF LoadPayload, ClaimErrors, BuildTenant, BuildTenantErrors, Goto, Release, Dies, Blank,
      Holding, Task
<1>3. CASE PipelineRaises(w) \/ \E r \in Reports : PipelineReturns(w, r)
  BY <1>0, <1>3 DEF PipelineRaises, PipelineReturns, Holding, Task
<1>4. CASE RetryLater(w) \/ GiveUp(w)
  BY <1>0, <1>4 DEF RetryLater, GiveUp, Goto, Release, Blank, Holding, Task
<1>5. CASE CloseOut(w)
  <2>1. /\ worker[w].at = "closing" /\ worker' = [worker EXCEPT ![w].at = "recording"]
        /\ CloseRow(worker[w].job, worker[w].outcome) /\ UNCHANGED countVars
    BY <1>5 DEF CloseOut, Goto
  <2>2. \/ FailRow(worker[w].job)
        \/ \E r \in BOOLEAN : CompleteRow(worker[w].job, r)
    BY <2>1, CloseRowCloses
  <2> QED
    BY <1>0, <2>1, <2>2 DEF Holding, Task
<1>6. CASE SaveResult(w) \/ SaveResultErrors(w)
  BY <1>0, <1>6 DEF SaveResult, SaveResultErrors, SaveResultRow, Goto, Holding, Task
<1>7. CASE QueueWriteErrors(w)
  <2>1. /\ worker[w].at \in Holding /\ worker' = [worker EXCEPT ![w] = Blank("dead")]
        /\ dbErrors' = dbErrors + 1
    BY <1>7 DEF QueueWriteErrors, Dies, Holding
  <2>2. \/ UNCHANGED dbVars
        \/ FailRow(worker[w].job) \/ RequeueRow(worker[w].job)
        \/ \E r \in BOOLEAN : CompleteRow(worker[w].job, r)
    BY <1>7, CloseRowCloses DEF QueueWriteErrors
  <2> QED
    BY <1>0, <2>1, <2>2 DEF Blank, Holding, Task
<1>8. CASE RecordJobResult(w) \/ SaveErrorResult(w) \/ SaveErrorResultErrors(w)
  BY <1>0, <1>8
  DEF RecordJobResult, SaveErrorResult, SaveErrorResultErrors, SaveResultRow, Goto, Release,
      Dies, Blank, Holding, Task
<1> QED
  BY <1>1, <1>2, <1>3, <1>4, <1>5, <1>6, <1>7, <1>8 DEF WorkerStep, WorkerFault

\* A claim takes a row nobody holds, and only its holder ends it.
LEMMA WorkerKeepsRows ==
  ASSUME KnownInv, RowInv, NEW w \in Workers, WorkerStep(w) \/ WorkerFault(w), route' = route
  PROVE  RowInv'
<1>0. /\ worker \in [Workers -> Task] /\ dbErrors \in Nat
      /\ worker[w].at \in Holding => worker[w].job \in Jobs
      /\ OnlyMoves(w) /\ dbErrors' \in {dbErrors, dbErrors + 1}
  BY BoundsAssumption, WorkerRows DEF KnownInv, TypeOK, TaskHasJob
<1>1. CASE ClaimNextJob(w)
  <2>1. PICK i \in Jobs :
          /\ ClaimRow(i)
          /\ worker' = [worker EXCEPT ![w] =
               [at |-> "loading", job |-> i, attempt |-> attempts[i] + 1, outcome |-> "none"]]
    BY <1>1 DEF ClaimNextJob
  <2>2. /\ Claimable(i) /\ payload' = payload
        /\ status' = [status EXCEPT ![i] = "processing"]
        /\ lease' = [lease EXCEPT ![i] = "fresh"]
    BY <2>1 DEF ClaimRow
  <2>3. worker[w].at = "idle"
    BY <1>1 DEF ClaimNextJob
  <2>4. ASSUME NEW k \in Jobs, k # i PROVE RowOK(k)'
    <3>1. \A v \in Workers : Holds(v, k)' => Holds(v, k)
      BY <1>0, <2>1, <2>4 DEF Holds
    <3>2. status'[k] = status[k] /\ lease'[k] = lease[k]
      BY <2>2, <2>4 DEF KnownInv, TypeOK, DBTypeOK
    <3> QED
      BY <1>0, <2>2, <3>1, <3>2, UntouchedRow DEF RowInv
  <2>5. RowOK(i)'
    <3>1. RowOK(i)
      BY DEF RowInv
    <3>2. ~ Held(i) /\ i \in payload /\ route[i] \notin BeforeQueue
      BY <2>2, <3>1 DEF RowOK, HolderOK, ClaimOK, StageOK, Claimable, Terminal
    <3>3. status'[i] = "processing" /\ lease'[i] = "fresh"
      BY <2>2 DEF KnownInv, TypeOK, DBTypeOK
    <3>4. \A v \in Workers : Holds(v, i)' => v = w
      BY <1>0, <2>1, <3>2 DEF Holds, Held
    <3>5. HolderOK(i)'
      BY <2>2, <3>2, <3>3, <3>4 DEF HolderOK
    <3>6. ClaimOK(i)'
      BY <2>2, <3>2, <3>3 DEF ClaimOK
    <3>7. StageOK(i)'
      BY <1>0, <2>2, <3>1, <3>2, <3>3 DEF RowOK, StageOK, Given, BeforeQueue, Claimable
    <3> QED
      BY <3>5, <3>6, <3>7 DEF RowOK
  <2> QED
    BY <2>4, <2>5 DEF RowInv
<1>2. CASE /\ UNCHANGED <<status, lease, payload>>
           /\ worker'[w].at \in Holding => worker[w].at \in Holding /\ worker'[w].job = worker[w].job
  <2> SUFFICES ASSUME NEW k \in Jobs PROVE RowOK(k)'
    BY DEF RowInv
  <2>1. \A v \in Workers : Holds(v, k)' => Holds(v, k)
    BY <1>0, <1>2 DEF Holds, OnlyMoves
  <2> QED
    BY <1>0, <1>2, <2>1, UntouchedRow DEF RowInv
<1>3. ASSUME NEW j \in Jobs, Holds(w, j), worker'[w].at \notin Holding,
             FailRow(j) \/ RequeueRow(j) \/ \E r \in BOOLEAN : CompleteRow(j, r)
      PROVE  RowInv'
  <2>1. \A v \in Workers, k \in Jobs : Holds(v, k)' => v # w /\ Holds(v, k)
    BY <1>0, <1>3 DEF Holds, OnlyMoves
  <2>2. \A v \in Workers : ~ Holds(v, j)'
    BY <1>3, <2>1 DEF RowInv, RowOK, HolderOK
  <2>3. RowOK(j)'
    BY <1>0, <1>3, <2>2, EndedRow DEF Held, RowInv
  <2>4. ASSUME NEW k \in Jobs, k # j PROVE RowOK(k)'
    <3>1. status'[k] = status[k] /\ lease'[k] = lease[k] /\ (k \in payload' <=> k \in payload)
      BY <1>3, <2>4, EndedElsewhere
    <3> QED
      BY <1>0, <2>1, <3>1, UntouchedRow DEF RowInv
  <2> QED
    BY <2>3, <2>4 DEF RowInv
<1> QED
  BY <1>0, <1>1, <1>2, <1>3, WorkerRows DEF Holds

\* The rest of the pool.
LEMMA PoolKeepsRows ==
  ASSUME MaxOvertakes = 0, KnownInv, RowInv, PoolStep
  PROVE  RowInv'
<1>0. route' = route /\ worker \in [Workers -> Task] /\ dbErrors \in Nat /\ dbErrors \in 0..MaxDbErrors
  BY BoundsAssumption DEF PoolStep, svcVars, KnownInv, TypeOK
<1>1. ASSUME NEW w \in Workers, WorkerStep(w) \/ WorkerFault(w) PROVE RowInv'
  BY <1>0, <1>1, WorkerKeepsRows
<1>2. CASE Restart \/ RestartCold \/ \E j \in Jobs : RetryDue(j) \/ AcknowledgeReview(j)
  <2>1. /\ UNCHANGED <<status, lease, payload>> /\ dbErrors' \in {dbErrors, dbErrors + 1}
        /\ \A w \in Workers : worker'[w] = Blank("idle") \/ worker'[w] = worker[w]
    BY <1>0, <1>2, FaultTypes
    DEF Restart, RestartCold, RetryDue, BackoffElapses, AcknowledgeReview, AcknowledgeRow,
        dbVars, memVars, countVars
  <2>2. \A w \in Workers, k \in Jobs : Holds(w, k)' => Holds(w, k)
    BY <2>1 DEF Holds, Blank, Holding
  <2> QED
    BY <1>0, <2>1, <2>2, UntouchedRow DEF RowInv
<1>3. ASSUME NEW j \in Jobs, StaleElapses(j) PROVE RowInv'
  <2>1. /\ lease[j] = "fresh" /\ lease' = [lease EXCEPT ![j] = "stale"]
        /\ UNCHANGED <<status, payload, dbErrors, worker>>
    BY <1>3 DEF StaleElapses, LeaseElapses, memVars
  <2>2. ~ Held(j)
    BY <1>3 DEF StaleElapses, KnownInv, TypeOK
  <2>3. \A w \in Workers, k \in Jobs : Holds(w, k)' <=> Holds(w, k)
    BY <2>1 DEF Holds
  <2>4. lease'[j] = "stale" /\ \A k \in Jobs \ {j} : lease'[k] = lease[k]
    BY <2>1 DEF KnownInv, TypeOK, DBTypeOK
  <2>5. \A k \in Jobs \ {j} : RowOK(k)'
    BY <1>0, <2>1, <2>3, <2>4, UntouchedRow DEF RowInv
  <2>6. RowOK(j)
    BY DEF RowInv
  <2>7. HolderOK(j)'
    BY <2>2, <2>3 DEF HolderOK, Held
  <2>8. ClaimOK(j)' /\ StageOK(j)'
    BY <1>0, <2>1, <2>4, <2>6 DEF RowOK, ClaimOK, StageOK, Given
  <2> QED
    BY <2>5, <2>7, <2>8 DEF RowInv, RowOK
<1> QED
  BY <1>1, <1>2, <1>3 DEF PoolStep

\* The steps of the requests and fallbacks move the stage of one request and
\* write its row at most.
LEMMA RequestKeepsRows ==
  ASSUME KnownInv, RowInv, NEW j \in Jobs, NEW stage, GoOn(j, stage), worker' = worker,
         dbErrors' \in {dbErrors, dbErrors + 1},
         \A k \in Jobs \ {j} : status'[k] = status[k] /\ lease'[k] = lease[k]
                               /\ (k \in payload' <=> k \in payload),
         Held(j) => stage \notin BeforeQueue /\ j \in payload'
                    /\ status'[j] \in {"processing"} \cup Terminal /\ lease'[j] = "fresh",
         route'[j] = stage => ClaimOK(j)' /\ StageOK(j)'
  PROVE  RowInv'
<1>1. route' = [route EXCEPT ![j] = stage] /\ route \in [Jobs -> Routes] /\ dbErrors \in Nat
  BY BoundsAssumption DEF GoOn, KnownInv, TypeOK, SvcTypes
<1>2. \A w \in Workers, k \in Jobs : Holds(w, k)' <=> Holds(w, k)
  BY DEF Holds
<1>3. ASSUME NEW k \in Jobs, k # j PROVE RowOK(k)'
  <2>1. RowOK(k) /\ route'[k] = route[k]
    BY <1>1, <1>3 DEF RowInv
  <2>2. status'[k] = status[k] /\ lease'[k] = lease[k] /\ (k \in payload' <=> k \in payload)
    BY <1>3
  <2>3. \A w \in Workers : Holds(w, k)' => Holds(w, k)
    BY <1>2
  <2> QED
    BY <1>1, <2>1, <2>2, <2>3, UntouchedRow
<1>4. route'[j] = stage
  BY <1>1
<1>5. HolderOK(j)'
  BY <1>2, <1>4 DEF HolderOK, Held, RowInv, RowOK
<1> QED
  BY <1>3, <1>4, <1>5 DEF RowInv, RowOK

\* Every step of a request and of its fallback.
LEMMA SvcStepKeepsRows ==
  ASSUME KnownInv, RowInv, NEW j \in Jobs, SvcStep(j)
  PROVE  RowInv'
<1>0. /\ RowOK(j) /\ dbErrors \in Nat /\ dbErrors \in 0..MaxDbErrors
      /\ status \in [Jobs -> JobStatus] /\ lease \in [Jobs -> {"none", "fresh", "stale"}]
      /\ payload \in SUBSET Jobs /\ route \in [Jobs -> Routes]
  BY BoundsAssumption DEF RowInv, KnownInv, TypeOK, DBTypeOK, SvcTypes
<1> USE <1>0 DEF RowOK, dbVars, memVars, countVars
\* The row stays as it is.
<1>1. ASSUME NEW stage, GoOn(j, stage), worker' = worker, UNCHANGED <<status, lease, payload>>,
             dbErrors' \in {dbErrors, dbErrors + 1},
             stage \in BeforeQueue => route[j] \in BeforeQueue,
             route'[j] = stage => StageOK(j)'
      PROVE  RowInv'
  <2>1. ClaimOK(j)'
    BY <1>1 DEF ClaimOK, GoOn
  <2> QED
    BY <1>1, <2>1, RequestKeepsRows DEF HolderOK
<1>2. ASSUME NEW d \in Docs,
             SubmitDuplicate(j, d) \/ \E force \in BOOLEAN : SubmitFresh(j, d, force)
      PROVE  RowInv'
  <2>1. PICK stage \in {"duplicate", "creating"} :
          /\ GoOn(j, stage) /\ route[j] = "none" /\ worker' = worker
          /\ UNCHANGED <<status, lease, payload, dbErrors>>
    BY <1>2 DEF SubmitDuplicate, SubmitFresh, vars
  <2>2. route'[j] = stage => StageOK(j)'
    BY <2>1 DEF StageOK, BeforeQueue
  <2> QED
    BY <1>1, <2>1, <2>2 DEF BeforeQueue
<1>3. CASE PersistCreate(j) \/ PersistCreateErrors(j)
  <2>1. /\ GoOn(j, "registering") /\ route[j] = "creating" /\ worker' = worker
        /\ CreateRow(j) \/ UNCHANGED dbVars
        /\ dbErrors' \in {dbErrors, dbErrors + 1}
    BY <1>3, FaultTypes DEF PersistCreate, PersistCreateErrors
  <2>2. UNCHANGED <<lease, payload>> /\ \A k \in Jobs \ {j} : status'[k] = status[k]
    BY <2>1 DEF CreateRow
  <2>3. status'[j] \in {"none", "processing"} /\ lease[j] = "none" /\ ~ Held(j)
    BY <2>1 DEF CreateRow, StageOK, HolderOK, BeforeQueue
  <2>4. route'[j] = "registering" => ClaimOK(j)' /\ StageOK(j)'
    BY <2>2, <2>3 DEF ClaimOK, StageOK, BeforeQueue
  <2> QED
    BY <2>1, <2>2, <2>3, <2>4, RequestKeepsRows
<1>4. CASE RegisterHash(j)
  <2>1. /\ GoOn(j, "enqueuing") /\ route[j] = "registering" /\ worker' = worker
        /\ UNCHANGED <<status, lease, payload, dbErrors>>
    BY <1>4 DEF RegisterHash, vars
  <2>2. route'[j] = "enqueuing" => StageOK(j)'
    BY <2>1 DEF StageOK, BeforeQueue
  <2> QED
    BY <1>1, <2>1, <2>2 DEF BeforeQueue
\* The enqueue takes effect, whatever the request is told, or it does not.
<1>5. CASE (Enqueue(j) \/ EnqueueFails(j)) /\ EnqueueRow(j)
  <2>1. PICK stage \in {"queued", "running"} :
          /\ GoOn(j, stage) /\ route[j] = "enqueuing" /\ worker' = worker
          /\ dbErrors' \in {dbErrors, dbErrors + 1}
          /\ stage = "running" => dbErrors' > 0
    BY <1>5, FaultTypes DEF Enqueue, EnqueueFails, EnqueueRow
  <2>2. /\ lease' = lease /\ lease[j] = "none" /\ ~ Held(j)
        /\ status'[j] = "queued" /\ j \in payload'
        /\ \A k \in Jobs \ {j} : status'[k] = status[k] /\ (k \in payload' <=> k \in payload)
    BY <1>5, <2>1 DEF EnqueueRow, StageOK, HolderOK, BeforeQueue
  <2>3. route'[j] = stage => ClaimOK(j)' /\ StageOK(j)'
    BY <2>1, <2>2 DEF ClaimOK, StageOK, Given, BeforeQueue
  <2> QED
    BY <2>1, <2>2, <2>3, RequestKeepsRows
<1>6. CASE EnqueueFails(j) /\ UNCHANGED dbVars
  <2>1. /\ GoOn(j, "running") /\ worker' = worker /\ UNCHANGED <<status, lease, payload>>
        /\ dbErrors' \in {dbErrors, dbErrors + 1}
        /\ status[j] = "none" \/ dbErrors' > 0
    BY <1>6, FaultTypes DEF EnqueueFails, EnqueueRow
  <2>2. route'[j] = "running" => StageOK(j)'
    BY <2>1 DEF StageOK, BeforeQueue
  <2> QED
    BY <1>1, <2>1, <2>2 DEF BeforeQueue
<1>7. ASSUME NEW o \in Reports \cup {"error"}, FallbackReports(j, o) PROVE RowInv'
  <2>1. /\ GoOn(j, "finishing") /\ route[j] = "running" /\ worker' = worker
        /\ UNCHANGED <<status, lease, payload, dbErrors>>
    BY <1>7 DEF FallbackReports
  <2>2. route'[j] = "finishing" => StageOK(j)'
    BY <2>1 DEF StageOK, BeforeQueue
  <2> QED
    BY <1>1, <2>1, <2>2 DEF BeforeQueue
\* The fallback closes the row, under a worker's hands if need be.
<1>8. ASSUME NEW s \in Terminal, SetStatusRow(j, s),
             PersistStatus(j) \/ PersistFinishErrors(j)
      PROVE  RowInv'
  <2>1. PICK stage \in {"savingResult", "ended"} :
          /\ GoOn(j, stage) /\ worker' = worker
          /\ dbErrors' \in {dbErrors, dbErrors + 1}
    BY <1>8, FaultTypes DEF PersistStatus, PersistFinishErrors
  <2>2. /\ UNCHANGED <<lease, payload>> /\ status'[j] = s
        /\ \A k \in Jobs \ {j} : status'[k] = status[k]
    BY <1>8 DEF SetStatusRow
  <2>3. route'[j] = stage => ClaimOK(j)' /\ StageOK(j)'
    BY <2>2 DEF ClaimOK, StageOK, Given, Terminal, BeforeQueue
  <2> QED
    BY <2>1, <2>2, <2>3, RequestKeepsRows DEF HolderOK, BeforeQueue
<1>9. ASSUME PersistStatus(j) \/ PersistResult(j) \/ PersistFinishErrors(j),
             ~ SetStatusRow(j, StatusOf(fallback[j])) \/ PersistResult(j), UNCHANGED <<status, lease, payload>>
      PROVE  RowInv'
  <2>1. PICK stage \in {"savingResult", "ended"} :
          /\ GoOn(j, stage) /\ worker' = worker
          /\ dbErrors' \in {dbErrors, dbErrors + 1}
          /\ stage = "savingResult" => status[j] = "none" \/ Given(j)
          /\ stage = "ended" => status[j] = "none" \/ Given(j) \/ dbErrors' > 1
    BY <1>9, FaultTypes
    DEF PersistStatus, PersistResult, PersistFinishErrors, StageOK
  <2>2. route'[j] = stage => StageOK(j)'
    BY <1>9, <2>1 DEF StageOK, BeforeQueue, Given
  <2> QED
    BY <1>1, <1>9, <2>1, <2>2 DEF BeforeQueue
<1>10. CASE PersistStatus(j) \/ PersistResult(j) \/ PersistFinishErrors(j)
  <2>1. route[j] \in {"finishing", "savingResult"}
    BY <1>10 DEF PersistStatus, PersistResult, PersistFinishErrors
  <2>2. StatusOf(fallback[j]) \in Terminal
    BY <2>1, VerdictStatus DEF KnownInv, SvcTypes
  <2>3. CASE SetStatusRow(j, StatusOf(fallback[j])) /\ (PersistStatus(j) \/ PersistFinishErrors(j))
    BY <1>8, <2>2, <2>3
  <2>4. CASE ~ SetStatusRow(j, StatusOf(fallback[j])) \/ PersistResult(j)
    <3>1. UNCHANGED <<status, lease, payload>>
      BY <1>10, <2>4 DEF PersistStatus, PersistResult, PersistFinishErrors, SaveResultRow
    <3> QED
      BY <1>9, <1>10, <2>4, <3>1
  <2> QED
    BY <1>10, <2>3, <2>4
<1> QED
  BY <1>2, <1>3, <1>4, <1>5, <1>6, <1>7, <1>10
  DEF SvcStep, SubmitStep, FallbackStep, Enqueue, EnqueueFails

\* No rows, no requests.
LEMMA RowInvInit == SvcInit => RowInv
BY DEF SvcInit, Init, DBInit, RowInv, RowOK, HolderOK, ClaimOK, StageOK, Held, Holds, Blank,
       Holding, Given, Terminal, BeforeQueue

\* Every step of the composition, if none of the claims is overtaken.
LEMMA RowInvStep ==
  ASSUME MaxOvertakes = 0, KnownInv, RowInv, [SvcNext]_allVars
  PROVE  RowInv'
<1>0. dbErrors \in Nat
  BY BoundsAssumption DEF KnownInv, TypeOK
<1>1. CASE PoolStep
  BY <1>1, PoolKeepsRows
<1>2. CASE SvcCrash
  <2>1. /\ UNCHANGED <<status, lease, payload, dbErrors>>
        /\ route' = [j \in Jobs |-> IF route[j] \in Pending THEN "lost" ELSE route[j]]
        /\ \A w \in Workers : worker'[w] = Blank("off")
    BY <1>2 DEF SvcCrash, Crash, dbVars
  <2>2. \A w \in Workers, k \in Jobs : ~ Holds(w, k)'
    BY <2>1 DEF Holds, Blank, Holding
  <2> SUFFICES ASSUME NEW j \in Jobs PROVE RowOK(j)'
    BY DEF RowInv
  <2>3. HolderOK(j)'
    BY <2>2 DEF HolderOK, Held
  <2>4. ClaimOK(j)' /\ StageOK(j)'
    BY <2>1 DEF RowInv, RowOK, ClaimOK, StageOK, Given, BeforeQueue
  <2> QED
    BY <2>3, <2>4 DEF RowOK
<1>3. ASSUME NEW j \in Jobs, SvcStep(j) PROVE RowInv'
  BY <1>3, SvcStepKeepsRows
<1>4. ASSUME UNCHANGED <<status, lease, payload, route, worker, dbErrors>> PROVE RowInv'
  <2>1. \A w \in Workers, k \in Jobs : Holds(w, k)' <=> Holds(w, k)
    BY <1>4 DEF Holds
  <2> QED
    BY <1>0, <1>4, <2>1, UntouchedRow DEF RowInv
<1>5. ASSUME NEW j \in Jobs, CancelJob(j) PROVE RowInv'
  BY <1>4, <1>5 DEF CancelJob, dbVars, countVars, svcVars
<1>6. CASE UNCHANGED allVars
  BY <1>4, <1>6 DEF allVars, vars, dbVars, memVars, countVars, svcVars
<1> QED
  BY <1>1, <1>2, <1>3, <1>5, <1>6 DEF SvcNext, SvcStep

\* Both invariants hold in every reachable state.
LEMMA SvcInvariance == ASSUME MaxOvertakes = 0 PROVE SvcSpec => [](KnownInv /\ RowInv)
<1>1. KnownInv /\ RowInv /\ [SvcNext]_allVars => (KnownInv /\ RowInv)'
  BY KnownInvStep, RowInvStep
<1> QED
  BY <1>1, KnownInvInit, RowInvInit, PTL DEF SvcSpec

\* Two workers never process the same job, though a fallback may close its row
\* under the worker and the worker may then requeue it.
THEOREM ServiceClaimsAreExclusive == ASSUME MaxOvertakes = 0 PROVE SvcSpec => []ExclusiveClaim
<1>1. RowInv => ExclusiveClaim
  BY DEF RowInv, RowOK, HolderOK, ExclusiveClaim
<1> QED
  BY <1>1, SvcInvariance, PTL

\* A job whose request was answered "queued" is closed, or claimable now or
\* once its claim is stale, with its PDF at hand.
THEOREM QueuedRowsAreRecoverable ==
  ASSUME MaxOvertakes = 0 PROVE SvcSpec => []QueuedIsRecoverable
<1>1. RowInv => QueuedIsRecoverable
  BY DEF RowInv, RowOK, ClaimOK, StageOK, Given, QueuedIsRecoverable, Recoverable
<1> QED
  BY <1>1, SvcInvariance, PTL

\* An ended fallback leaves no row that says 'processing' for ever, unless two
\* database errors struck.
THEOREM FallbacksAreSettled == ASSUME MaxOvertakes = 0 PROVE SvcSpec => []FallbackIsSettled
<1>1. KnownInv => dbErrors \in Nat
  BY BoundsAssumption DEF KnownInv, TypeOK
<1>2. KnownInv /\ RowInv => FallbackIsSettled
  BY <1>1 DEF RowInv, RowOK, ClaimOK, StageOK, Given, FallbackIsSettled, Recoverable
<1> QED
  BY <1>2, SvcInvariance, PTL
=============================================================================
