------------------------------- MODULE ReReview -------------------------------
(***************************************************************************)
(* What is current after the proposal changed: full reviews and re-reviews *)
(* (services/decisions.py, start_incremental_review) of one project, the   *)
(* assessments they leave (agents/tools.py, save_assessment) and the one   *)
(* the requirement list shows (api/reviews.py, _latest_assessment), while  *)
(* the worker executes the runs in order.                                  *)
(*                                                                         *)
(* The tender stays the same, so a file scope is the newest version of the *)
(* project's one proposal document.  How requests race to create a job is  *)
(* module ReviewQueue, how a run commits is ReviewRun: here a request      *)
(* creates its run in one step and each review of a requirement commits.   *)
(***************************************************************************)
EXTENDS Naturals

CONSTANTS
    Clients,        \* threads that execute start_incremental_review
    Reqs,           \* the active requirements
    MaxVersions,    \* bound: versions of the proposal
    MaxRuns         \* bound: rows of the run table

ASSUME ReReviewAssumption ==
    /\ MaxVersions \in Nat \ {0}
    /\ MaxRuns \in Nat

Versions == 1 .. MaxVersions
RunIds == 1 .. MaxRuns
NoRun == 0

VARIABLES
    latest,     \* the newest version of the proposal
    runs,       \* by run: its job's status, its scope, its requirements
    rows,       \* by run and requirement: the assessment
    request,    \* what each thread has computed so far
    worker,     \* the run in execution, what is left of it, what it may cite
    reused      \* history: requirements invalidated for a job found, not created

vars == <<latest, runs, rows, request, worker, reused>>

Ended == {"completed", "awaiting_confirmation", "failed"}
Runs == [status : Ended \cup {"absent", "queued", "running"},
         scope : Versions \cup {0}, ids : SUBSET Reqs, alone : BOOLEAN]

\* An assessment is absent, current or not, and has evidence in versions.  The
\* newest version its run's context had (seen), and whether a run's request was
\* alone, are history: no guard looks at them.
Assessments == [state : {"absent", "current", "invalid"},
                cites : SUBSET Versions, seen : Versions \cup {0}]

NoRow      == [state |-> "absent", cites |-> {}, seen |-> 0]
Invalid    == [state |-> "invalid", cites |-> {}, seen |-> 0]
NoRequest  == [step |-> "idle", affected |-> {}, alone |-> FALSE]
IdleWorker == [run |-> NoRun, todo |-> {}, allowed |-> 0]

-----------------------------------------------------------------------------
(* What the code computes from the rows.                                   *)

Current(table, k, r) == table[k][r].state = "current"

\* _latest_assessment: of the current ones, the newest run's is shown.
Shows(table, k, r) ==
    /\ Current(table, k, r)
    /\ \A j \in RunIds : Current(table, j, r) => j <= k

-----------------------------------------------------------------------------
(* Mutated forms of the definitions below, each a plausible slip.          *)

CitesLast(table) ==
    {r \in Reqs : \E k \in RunIds :
        Current(table, k, r) /\ latest \in table[k][r].cites}
OnlyShown(table, S) ==
    [k \in RunIds |-> [r \in Reqs |->
        IF r \in S /\ Shows(table, k, r)
        THEN Invalid ELSE table[k][r]]]
CountedAfter(affected, table) ==
    {r \in affected : \E k \in RunIds :
        Current(table, k, r) /\ table[k][r].cites # {}}

-----------------------------------------------------------------------------
\* find_active_job, for this scope.
Active(v) ==
    \E k \in RunIds :
        /\ runs[k].scope = v
        /\ runs[k].status \in {"queued", "running", "awaiting_confirmation"}

\* calculate_affected_requirement_ids, when the proposal is what changed: the
\* requirements with a current assessment that cites any version of it.
Affected(table) ==
    {r \in Reqs : \E k \in RunIds :
        Current(table, k, r) /\ table[k][r].cites # {}}

\* invalidate_assessments: every current assessment of these requirements.
Invalidated(table, S) ==
    [k \in RunIds |-> [r \in Reqs |->
        IF r \in S /\ Current(table, k, r)
        THEN Invalid ELSE table[k][r]]]

\* The requirements of the re-review: those computed before the invalidation.
ToReview(affected, table) == affected

\* The proposal versions the run's context allows: all there are.
Allowed == latest

NextRun(k) ==
    /\ runs[k].status = "absent"
    /\ \A j \in RunIds : runs[j].status = "absent" => k <= j

OldestQueued(k) ==
    /\ runs[k].status = "queued"
    /\ \A j \in RunIds : runs[j].status = "queued" => k <= j

\* The new run covers S, whatever became of these requirements before.
Insert(k, S, a) ==
    /\ runs' = [runs EXCEPT ![k] =
            [status |-> "queued", scope |-> latest, ids |-> S, alone |-> a]]
    /\ reused' = reused \ S

-----------------------------------------------------------------------------
\* A new version of the proposal is uploaded and parsed.
Upload ==
    /\ latest < MaxVersions
    /\ latest' = latest + 1
    /\ UNCHANGED <<runs, rows, request, worker, reused>>

\* start_review: all requirements, unless this scope has an active job.
StartReview ==
    /\ ~ Active(latest)
    /\ \E k \in RunIds : NextRun(k) /\ Insert(k, Reqs, FALSE)
    /\ UNCHANGED <<latest, rows, request, worker>>

\* start_incremental_review reads: no active job, and what is affected.
LookUp(c) ==
    /\ request[c].step = "idle"
    /\ ~ Active(latest)
    /\ request' = [request EXCEPT ![c] = [step     |-> "computed",
                                          affected |-> Affected(rows),
                                          alone    |-> worker = IdleWorker]]
    /\ UNCHANGED <<latest, runs, rows, worker, reused>>

\* ... and writes, whatever was claimed and reviewed in between: the assessments
\* are invalidated and start_review is called, which looks again and may find a
\* job, with a set of its own; both are committed.
Invalidate(c) ==
    /\ request[c].step = "computed"
    /\ rows' = Invalidated(rows, request[c].affected)
    /\ \/ /\ Active(latest)
          /\ reused' = reused \cup request[c].affected
          /\ UNCHANGED runs
       \/ /\ ~ Active(latest)
          /\ \E k \in RunIds :
                /\ NextRun(k)
                /\ Insert(k, ToReview(request[c].affected, rows'), request[c].alone)
    /\ request' = [request EXCEPT ![c] = NoRequest]
    /\ UNCHANGED <<latest, worker>>

\* The worker claims the oldest job and run_review builds its context.
Begin(k) ==
    /\ worker = IdleWorker
    /\ OldestQueued(k)
    /\ runs' = [runs EXCEPT ![k].status = "running"]
    /\ worker' = [run |-> k, todo |-> runs[k].ids, allowed |-> Allowed]
    /\ request' = [c \in Clients |-> [request[c] EXCEPT !.alone = FALSE]]
    /\ UNCHANGED <<latest, rows, reused>>

\* save_assessment, with evidence in any of the versions the context allows.
Review(r) ==
    /\ r \in worker.todo
    /\ \E cites \in SUBSET (1 .. worker.allowed) :
        rows' = [rows EXCEPT ![worker.run][r] =
                    [state |-> "current", cites |-> cites, seen |-> worker.allowed]]
    /\ worker' = [worker EXCEPT !.todo = @ \ {r}]
    /\ UNCHANGED <<latest, runs, request, reused>>

Finish ==
    /\ worker.run # NoRun
    /\ worker.todo = {}
    /\ \E s \in {"completed", "awaiting_confirmation"} :
        runs' = [runs EXCEPT ![worker.run].status = s]
    /\ worker' = IdleWorker
    /\ UNCHANGED <<latest, rows, request, reused>>

\* A call fails: the run stops and its job has failed.
Fail ==
    /\ worker.todo # {}
    /\ runs' = [runs EXCEPT ![worker.run].status = "failed"]
    /\ worker' = IdleWorker
    /\ UNCHANGED <<latest, rows, request, reused>>

Init ==
    /\ latest = 1
    /\ runs = [k \in RunIds |-> [status |-> "absent", scope |-> 0, ids |-> {},
                               alone |-> FALSE]]
    /\ rows = [k \in RunIds |-> [r \in Reqs |-> NoRow]]
    /\ request = [c \in Clients |-> NoRequest]
    /\ worker = IdleWorker
    /\ reused = {}

Next ==
    \/ Upload \/ StartReview
    \/ \E c \in Clients : LookUp(c) \/ Invalidate(c)
    \/ \E k \in RunIds : Begin(k)
    \/ \E r \in Reqs : Review(r)
    \/ Finish \/ Fail

Spec == Init /\ [][Next]_vars

-----------------------------------------------------------------------------
(* Properties.                                                             *)

\* Every variable has its type.
TypeOK ==
    /\ latest \in Versions
    /\ runs \in [RunIds -> Runs]
    /\ rows \in [RunIds -> [Reqs -> Assessments]]
    /\ request \in [Clients -> [step : {"idle", "computed"},
                                affected : SUBSET Reqs, alone : BOOLEAN]]
    /\ worker \in [run : RunIds \cup {NoRun}, todo : SUBSET Reqs,
                   allowed : Versions \cup {0}]
    /\ reused \subseteq Reqs

\* An assessment that was superseded is never shown again: what the list shows
\* of a requirement is at least as new as all that was current before.
NoResurfacing ==
    [][\A r \in Reqs, k \in RunIds :
        Shows(rows', k, r) => \A j \in RunIds : Current(rows, j, r) => j <= k]_vars

Lost(r) ==
    /\ \E k \in RunIds : rows[k][r].state = "invalid"
    /\ \A k \in RunIds : ~ Current(rows, k, r)

Covered(r) ==
    \E k \in RunIds :
        /\ r \in runs[k].ids
        /\ \/ runs[k].status \in {"queued", "failed"}
           \/ worker.run = k /\ r \in worker.todo

\* A requirement that lost its conclusion to a re-review waits in a run, or was
\* in one that failed, unless the re-review that invalidated it was answered
\* with a job which another request had created meanwhile: however requests,
\* uploads and runs overlap, nothing else lets one fall between invalidation
\* and run.
InvalidatedIsCovered == \A r \in Reqs : Lost(r) => Covered(r) \/ r \in reused

\* What supports a conclusion that is shown has been seen together with the
\* newest version: of each requirement that a run of that version has reviewed
\* with success, and of every requirement once such a run is created by a
\* re-review during which the worker executed nothing.  An older run that still
\* goes on, or goes on later, does not bring an older conclusion back.
NoStaleSupport ==
    \A k \in RunIds, r \in Reqs :
        (/\ runs[k].scope = latest
         /\ \/ runs[k].alone
            \/ r \in runs[k].ids /\ runs[k].status \in Ended \ {"failed"})
            => \A j \in RunIds :
                Shows(rows, j, r) /\ rows[j][r].cites # {} => rows[j][r].seen = latest

=============================================================================
