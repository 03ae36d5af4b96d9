----------------------------- MODULE ReviewQueue -----------------------------
(***************************************************************************)
(* The durable review queue of one project: the ReviewJob table, the HTTP  *)
(* threads that start reviews (jobs/handlers.py, start_review) and the one *)
(* asyncio ReviewWorker that claims, executes and settles jobs             *)
(* (jobs/worker.py), inside a process that may crash, be stopped and be    *)
(* started again (main.py, lifespan).                                      *)
(*                                                                         *)
(* A job id is the table's autoincrement key: SQLite has one writer, so    *)
(* ids are handed out in commit order.  What the handler does between the  *)
(* claim and its result is module ReviewRun; here it ends in any of the    *)
(* outcomes it can return, or raises.                                      *)
(***************************************************************************)
EXTENDS Naturals, FiniteSets, ReviewStatus

CONSTANTS
    Clients,    \* threads of the server that execute start_review
    Scopes,     \* file scopes (version fingerprints) the project can have
    NoScope,    \* no scope was computed yet
    MaxJobs,    \* bound: rows of the job table
    MaxFaults   \* bound: crashes, stops and database errors of a behaviour

ASSUME QueueAssumption ==
    /\ MaxJobs \in Nat
    /\ MaxFaults \in Nat
    /\ NoScope \notin Scopes

JobIds == 1 .. MaxJobs
NoJob  == 0

VARIABLES
    jobStatus,  \* ReviewJob.status by id, "absent" before the row exists
    jobScope,   \* ReviewJob.version_fingerprint by id
    attempts,   \* ReviewJob.attempt_count by id
    runStatus,  \* status of the job's ReviewRun, created in the same commit
    files,      \* the scope build_review_scope computes from the current files
    request,    \* what each client thread has read so far
    process,    \* the server process
    worker,     \* the worker task: its step, its job, the handler's result
    faults,     \* faults so far (bounded by MaxFaults)
    boots       \* history: how often the process was started

database == <<jobStatus, jobScope, attempts, runStatus>>
vars == <<jobStatus, jobScope, attempts, runStatus, files, request, process,
          worker, faults, boots>>

JobStatuses  == Settled \cup {"absent", "queued", "running"}
WorkerSteps  == {"none", "idle", "handling", "reviewing", "returned", "raised",
                 "dead"}
Holding      == {"handling", "reviewing", "returned", "raised"}

Idle(step) == [step |-> step, job |-> NoJob, result |-> "queued"]

NoRequest  == [step |-> "idle", scope |-> NoScope]

-----------------------------------------------------------------------------
(* Mutated forms of the definitions below, each a plausible slip.          *)

ReusableOnlyQueued == {"queued"}
NewestQueued(j) ==
    /\ jobStatus[j] = "queued"
    /\ \A k \in JobIds : jobStatus[k] = "queued" => k <= j
InterruptedOrFailed(j) == jobStatus[j] \in {"running", "failed"}
NeverInterrupted(j) == FALSE

-----------------------------------------------------------------------------
(* Pieces of the queries of worker.py.                                     *)

\* The statuses find_active_job accepts as "already active".
Reusable == {"queued", "running", "awaiting_confirmation"}

HasActiveJob(s) ==
    \E j \in JobIds : jobScope[j] = s /\ jobStatus[j] \in Reusable

\* The candidate of claim_next_job: the queued row with the lowest id.
OldestQueued(j) ==
    /\ jobStatus[j] = "queued"
    /\ \A k \in JobIds : jobStatus[k] = "queued" => j <= k

\* The rows requeue_interrupted_jobs updates.
Interrupted(j) == jobStatus[j] = "running"

\* The id the next INSERT gets.
NextId(j) ==
    /\ jobStatus[j] = "absent"
    /\ \A k \in JobIds : jobStatus[k] = "absent" => j <= k

-----------------------------------------------------------------------------
(* Client threads: start_review.                                           *)

\* build_review_scope reads the latest versions and hashes their ids.
BuildScope(c) ==
    /\ process = "up"
    /\ request[c].step = "idle"
    /\ request' = [request EXCEPT ![c] = [step |-> "scoped", scope |-> files]]
    /\ UNCHANGED <<database, files, process, worker, faults, boots>>

\* find_active_job finds a row: it is returned, nothing is written.
ReuseActive(c) ==
    /\ request[c].step = "scoped"
    /\ HasActiveJob(request[c].scope)
    /\ request' = [request EXCEPT ![c] = NoRequest]
    /\ UNCHANGED <<database, files, process, worker, faults, boots>>

\* find_active_job finds none.  Its SELECT opens no transaction (pysqlite),
\* so nothing keeps the answer true until the INSERT.
SeeNoActive(c) ==
    /\ request[c].step = "scoped"
    /\ ~ HasActiveJob(request[c].scope)
    /\ request' = [request EXCEPT ![c].step = "inserting"]
    /\ UNCHANGED <<database, files, process, worker, faults, boots>>

\* The ReviewRun and the ReviewJob are inserted and committed together.
InsertJob(c) ==
    /\ request[c].step = "inserting"
    /\ \E j \in JobIds :
        /\ NextId(j)
        /\ jobStatus' = [jobStatus EXCEPT ![j] = "queued"]
        /\ jobScope'  = [jobScope EXCEPT ![j] = request[c].scope]
        /\ attempts'  = [attempts EXCEPT ![j] = 0]
        /\ runStatus' = [runStatus EXCEPT ![j] = "queued"]
    /\ request' = [request EXCEPT ![c] = NoRequest]
    /\ UNCHANGED <<files, process, worker, faults, boots>>

\* The write lock is not free in time (or any other database error): the
\* session closes, nothing is inserted.
InsertFails(c) ==
    /\ request[c].step = "inserting"
    /\ request' = [request EXCEPT ![c] = NoRequest]
    /\ UNCHANGED <<database, files, process, worker, faults, boots>>

\* An upload (or a request naming another tender version) changes the scope.
ChangeFiles(s) ==
    /\ process = "up"
    /\ s # files
    /\ files' = s
    /\ UNCHANGED <<database, request, process, worker, faults, boots>>

-----------------------------------------------------------------------------
(* The worker task: run_forever, run_once.                                 *)

\* The loop tests the stop event, then claim_next_job updates the candidate.
\* Nothing but this task takes a row out of "queued", so the UPDATE's status
\* condition always holds and the SELECT and the UPDATE are one step.
Claim(j) ==
    /\ process = "up"
    /\ worker.step = "idle"
    /\ OldestQueued(j)
    /\ jobStatus' = [jobStatus EXCEPT ![j] = "running"]
    /\ attempts'  = [attempts EXCEPT ![j] = @ + 1]
    /\ worker' = [step |-> "handling", job |-> j, result |-> "queued"]
    /\ UNCHANGED <<jobScope, runStatus, files, request, process, faults, boots>>

\* Parsing and extraction are done; run_review commits "reviewing".
BeginReview ==
    /\ worker.step = "handling"
    /\ runStatus' = [runStatus EXCEPT ![worker.job] = "reviewing"]
    /\ worker' = [worker EXCEPT !.step = "reviewing"]
    /\ UNCHANGED <<jobStatus, jobScope, attempts, files, request, process,
                   faults, boots>>

\* run_review commits its outcome in the run and returns it.
ReviewReturns(o) ==
    /\ worker.step = "reviewing"
    /\ runStatus' = [runStatus EXCEPT ![worker.job] = o]
    /\ worker' = [worker EXCEPT !.step = "returned", !.result = o]
    /\ UNCHANGED <<jobStatus, jobScope, attempts, files, request, process,
                   faults, boots>>

\* The handler raises: a version cannot be parsed, the tender has no chunks,
\* the extraction fails, or run_review refuses its requirement list.
HandlerRaises ==
    /\ worker.step \in {"handling", "reviewing"}
    /\ worker' = [worker EXCEPT !.step = "raised"]
    /\ UNCHANGED <<database, files, request, process, faults, boots>>

\* run_once records the result of the handler.
RecordResult ==
    /\ worker.step = "returned"
    /\ jobStatus' = [jobStatus EXCEPT ![worker.job] = StatusFor(worker.result)]
    /\ worker' = Idle("idle")
    /\ UNCHANGED <<jobScope, attempts, runStatus, files, request, process,
                   faults, boots>>

\* run_once records that the handler raised.
RecordFailure ==
    /\ worker.step = "raised"
    /\ jobStatus' = [jobStatus EXCEPT ![worker.job] = StatusAfterRaise]
    /\ worker' = Idle("idle")
    /\ UNCHANGED <<jobScope, attempts, runStatus, files, request, process,
                   faults, boots>>

-----------------------------------------------------------------------------
(* Faults, each counted against MaxFaults.                                 *)

Fault == faults < MaxFaults /\ faults' = faults + 1

\* The last stage update or the terminal update raises after the run's own
\* outcome was committed: run_once goes to its except branch.
ResultLost ==
    /\ Fault
    /\ worker.step = "returned"
    /\ worker' = [worker EXCEPT !.step = "raised"]
    /\ UNCHANGED <<database, files, request, process, boots>>

\* A database error outside run_once's try block, in the claim or in
\* mark_job_failed, ends run_forever: the process lives on with no worker.
WorkerDies ==
    /\ Fault
    /\ worker.step \in {"idle", "raised"}
    /\ worker' = Idle("dead")
    /\ UNCHANGED <<database, files, request, process, boots>>

Crash ==
    /\ Fault
    /\ process # "down"
    /\ process' = "down"
    /\ worker' = Idle("none")
    /\ request' = [c \in Clients |-> NoRequest]
    /\ UNCHANGED <<database, files, boots>>

\* Shutdown: the server has drained its requests, lifespan requests the stop.
RequestStop ==
    /\ Fault
    /\ process = "up"
    /\ \A c \in Clients : request[c] = NoRequest
    /\ process' = "draining"
    /\ UNCHANGED <<database, files, request, worker, boots>>

\* lifespan has awaited the worker task, which ends between two jobs.
Exit ==
    /\ process = "draining"
    /\ worker.step \in {"idle", "dead"}
    /\ process' = "down"
    /\ worker' = Idle("none")
    /\ UNCHANGED <<database, files, request, faults, boots>>

\* lifespan: requeue_interrupted_jobs, then the worker task is created, and
\* only then requests are accepted.
Start ==
    /\ process = "down"
    /\ process' = "up"
    /\ jobStatus' = [j \in JobIds |->
                        IF Interrupted(j) THEN "queued" ELSE jobStatus[j]]
    /\ worker' = Idle("idle")
    /\ boots' = boots + 1
    /\ UNCHANGED <<jobScope, attempts, runStatus, files, request, faults>>

-----------------------------------------------------------------------------
Init ==
    /\ jobStatus = [j \in JobIds |-> "absent"]
    /\ jobScope  = [j \in JobIds |-> NoScope]
    /\ attempts  = [j \in JobIds |-> 0]
    /\ runStatus = [j \in JobIds |-> "queued"]
    /\ files \in Scopes
    /\ request = [c \in Clients |-> NoRequest]
    /\ process = "down"
    /\ worker = Idle("none")
    /\ faults = 0
    /\ boots = 0

ClientStep(c) ==
    \/ BuildScope(c) \/ ReuseActive(c) \/ SeeNoActive(c)
    \/ InsertJob(c) \/ InsertFails(c)

HandlerStep ==
    \/ BeginReview
    \/ \E o \in Outcomes : ReviewReturns(o)
    \/ HandlerRaises

WorkerStep ==
    \/ \E j \in JobIds : Claim(j)
    \/ HandlerStep
    \/ RecordResult
    \/ RecordFailure

Next ==
    \/ \E c \in Clients : ClientStep(c)
    \/ \E s \in Scopes : ChangeFiles(s)
    \/ WorkerStep
    \/ ResultLost \/ WorkerDies \/ Crash \/ RequestStop \/ Exit \/ Start

\* The event loop keeps scheduling the worker task, every model call has a
\* timeout, a stopping process ends and somebody starts it again.  Users and
\* faults are not fair.
Fairness == WF_vars(WorkerStep) /\ WF_vars(Exit) /\ WF_vars(Start)

Spec == Init /\ [][Next]_vars /\ Fairness

-----------------------------------------------------------------------------
(* Properties.                                                             *)

\* Every variable has its type (the columns and the task states of the code).
TypeOK ==
    /\ jobStatus \in [JobIds -> JobStatuses]
    /\ jobScope \in [JobIds -> Scopes \cup {NoScope}]
    /\ attempts \in [JobIds -> Nat]
    /\ runStatus \in [JobIds -> RunStatuses]
    /\ files \in Scopes
    /\ request \in [Clients -> [step : {"idle", "scoped", "inserting"},
                                scope : Scopes \cup {NoScope}]]
    /\ process \in {"down", "up", "draining"}
    /\ worker \in [step : WorkerSteps, job : JobIds \cup {NoJob},
                   result : Outcomes \cup {"queued"}]
    /\ faults \in Nat
    /\ boots \in Nat

\* Reviews execute one at a time and in the order they were created, across
\* crashes: while a job is running or settled, every job created before it is
\* settled (claim_next_job's order, the single worker and the requeue at
\* start-up together).
SerialOrder ==
    \A i, j \in JobIds :
        (i < j /\ jobStatus[j] \in Settled \cup {"running"})
            => jobStatus[i] \in Settled

\* A row is "running" only while the worker executes it, or while nobody can:
\* the worker task died, or the process is down and will requeue it.
RunningIsHeld ==
    \A j \in JobIds : jobStatus[j] = "running" =>
        \/ worker.step \in Holding /\ worker.job = j
        \/ worker.step \in {"dead", "none"}

\* What the job reports is what its run recorded: run_once never reports a
\* partial failure, or an unfinished run, as completed or awaiting.
ReportedMatchesRun ==
    \A j \in JobIds : jobStatus[j] \in {"completed", "awaiting_confirmation"}
        => runStatus[j] = jobStatus[j]

\* One start of the process executes a job at most once: nothing retries a
\* job except the requeue at start-up.
AttemptPerBoot == \A j \in JobIds : attempts[j] <= boots

\* A settled job is never touched again, neither by a restart nor by a late
\* write of the worker: its status, its run and its attempts stay.
SettledStays ==
    [][\A j \in JobIds : jobStatus[j] \in Settled =>
            /\ jobStatus'[j] = jobStatus[j]
            /\ runStatus'[j] = runStatus[j]
            /\ attempts'[j] = attempts[j]]_vars

\* However requests interleave, the active jobs of one file scope and the
\* requests about to insert another are at most as many as the threads that
\* execute start_review: sequential requests never duplicate a job.
DuplicatesBounded ==
    \A s \in Scopes :
        LET active  == {j \in JobIds :
                           /\ jobScope[j] = s
                           /\ jobStatus[j] \in {"queued", "running",
                                                "awaiting_confirmation"}}
            pending == {c \in Clients :
                           request[c] = [step |-> "inserting", scope |-> s]}
        IN  Cardinality(active) + Cardinality(pending) <= Cardinality(Clients)

\* A queued job is settled in the end, whatever crashes, unless the worker
\* task died of a database error and the process was left running without it.
QueueDrains ==
    \A j \in JobIds : jobStatus[j] = "queued"
        ~> (jobStatus[j] \in Settled \/ worker.step = "dead")

\* How far the worker is with a job.
StageOf(j) ==
    IF worker.step \in Holding /\ worker.job = j THEN worker.step ELSE "none"

\* Each job lives as JobLife says: whatever happens to the others and to the
\* process, its row follows what its run has committed and how far the worker
\* is, which is all that module ReviewRun and this one know of each other.
Life(j) == INSTANCE JobLife WITH
              status <- jobStatus[j], result <- runStatus[j], stage <- StageOf(j)
JobsKeepLife ==
    /\ \A j \in JobIds : Life(j)!Init
    /\ [][\A j \in JobIds : [Life(j)!Next]_(Life(j)!lifeVars)]_vars

\* The docstring of start_review ("one idempotent queued review job for the
\* current file scope"): two unfinished jobs never share a file scope.
OneActiveJobPerScope ==
    \A i, j \in JobIds :
        (/\ jobStatus[i] \in {"queued", "running"}
         /\ jobStatus[j] \in {"queued", "running"}
         /\ jobScope[i] = jobScope[j]) => i = j

=============================================================================
