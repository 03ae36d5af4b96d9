----------------------------- MODULE TenderMatrix -----------------------------
(***************************************************************************)
(* The requirement matrix of one project while reviews are started for     *)
(* several versions of its tender: the extraction of a job                 *)
(* (jobs/handlers.py, _extract_if_stale), what it saves and what it makes  *)
(* inactive (services/requirements.py), and the deactivation of the matrix *)
(* by a request that reports a changed tender (services/decisions.py).     *)
(*                                                                         *)
(* A requirement is known by the version it was extracted from and by its  *)
(* text and place, a candidate: together they are its fingerprint.  The    *)
(* project's other files do not change: a file scope is a tender version.  *)
(***************************************************************************)
EXTENDS Naturals

CONSTANTS
    Clients,        \* threads that report a changed tender
    Tenders,        \* versions of the tender
    NoTender,       \* not one of them
    Candidates,     \* what the model may extract from a version
    MaxRuns         \* bound: rows of the run table

ASSUME TenderAssumption ==
    /\ NoTender \notin Tenders
    /\ MaxRuns \in Nat

RunIds == 1 .. MaxRuns
NoRun == 0

VARIABLES
    rows,       \* by tender and candidate: the requirement
    runs,       \* by run: its job's status and tender
    request,    \* the changed tender each thread is about to replace
    worker,     \* the run in execution, its stage, the requirements left
    fruitless   \* history: runs whose extraction had no valid candidate

vars == <<rows, runs, request, worker, fruitless>>

Requirements == Tenders \X Candidates
Matrices == [Requirements -> {"absent", "active", "inactive"}]
Ended == {"completed", "awaiting_confirmation", "failed"}
Runs == [status : Ended \cup {"absent", "queued", "running"},
         tender : Tenders \cup {NoTender}]
Stages == {"idle", "extracting", "extracted", "reviewing", "nothing"}

IdleWorker == [run |-> NoRun, stage |-> "idle", todo |-> {}]

-----------------------------------------------------------------------------
(* Mutated forms of the definitions below, each a plausible slip.          *)

OldStaysActive(m, t, S) ==
    [q \in Requirements |->
        IF q[1] = t /\ q[2] \in S /\ m[q] = "absent" THEN "active" ELSE m[q]]
AnyExtracted(m, t) == \E q \in Requirements : m[q] = "active"
NewestQueued(k) ==
    /\ runs[k].status = "queued"
    /\ \A j \in RunIds : runs[j].status = "queued" => j <= k

-----------------------------------------------------------------------------
(* What the code computes from the rows.                                   *)

\* run_review's selection: every active requirement of the project.
ActiveIn(m) == {q \in Requirements : m[q] = "active"}

\* _extract_if_stale: this version has an active requirement already.
Extracted(m, t) == \E q \in Requirements : q[1] = t /\ m[q] = "active"

\* save_requirement_batch, for the valid candidates S: what has been extracted
\* from this version before is a duplicate, also when it is inactive, and the
\* requirements of other versions become inactive.
Saved(m, t, S) ==
    [q \in Requirements |->
        IF S # {} /\ q[1] # t /\ m[q] = "active" THEN "inactive"
        ELSE IF q[1] = t /\ q[2] \in S /\ m[q] = "absent" THEN "active"
        ELSE m[q]]

\* deactivate_tender_matrix, whatever version the matrix is of.
Deactivated(m) ==
    [q \in Requirements |-> IF m[q] = "active" THEN "inactive" ELSE m[q]]

\* find_active_job.
Active(t) ==
    \E k \in RunIds :
        /\ runs[k].tender = t
        /\ runs[k].status \in {"queued", "running", "awaiting_confirmation"}

NextRun(k) ==
    /\ runs[k].status = "absent"
    /\ \A j \in RunIds : runs[j].status = "absent" => k <= j

OldestQueued(k) ==
    /\ runs[k].status = "queued"
    /\ \A j \in RunIds : runs[j].status = "queued" => k <= j

Insert(t) ==
    \E k \in RunIds :
        /\ NextRun(k)
        /\ runs' = [runs EXCEPT ![k] = [status |-> "queued", tender |-> t]]

Tender == runs[worker.run].tender

-----------------------------------------------------------------------------
\* start_review, for a version of the tender that the request names.
StartReview(t) ==
    /\ ~ Active(t)
    /\ Insert(t)
    /\ UNCHANGED <<rows, request, worker, fruitless>>

\* start_incremental_review for a changed tender finds no active job ...
LookUp(c, t) ==
    /\ request[c] = NoTender
    /\ ~ Active(t)
    /\ request' = [request EXCEPT ![c] = t]
    /\ UNCHANGED <<rows, runs, worker, fruitless>>

\* ... makes the matrix inactive, whatever is executed meanwhile, and calls start_review,
\* which looks again and may find a job.
Replace(c) ==
    /\ request[c] # NoTender
    /\ rows' = Deactivated(rows)
    /\ \/ Active(request[c]) /\ UNCHANGED runs
       \/ ~ Active(request[c]) /\ Insert(request[c])
    /\ request' = [request EXCEPT ![c] = NoTender]
    /\ UNCHANGED <<worker, fruitless>>

\* The worker claims the oldest job; the files are parsed.  Then it looks for
\* requirements of the job's tender.
Begin(k) ==
    /\ worker = IdleWorker
    /\ OldestQueued(k)
    /\ runs' = [runs EXCEPT ![k].status = "running"]
    /\ worker' = [run   |-> k,
                  stage |-> IF Extracted(rows, runs[k].tender)
                            THEN "extracted" ELSE "extracting",
                  todo  |-> {}]
    /\ UNCHANGED <<rows, request, fruitless>>

\* The model answers; the valid candidates are saved.  Without any the old
\* matrix stays as it is and the job goes on.
ExtractReturns ==
    /\ worker.stage = "extracting"
    /\ \E S \in SUBSET Candidates :
        /\ rows' = Saved(rows, Tender, S)
        /\ fruitless' = IF S = {} THEN fruitless \cup {worker.run} ELSE fruitless
    /\ worker' = [worker EXCEPT !.stage = "extracted"]
    /\ UNCHANGED <<runs, request>>

\* run_review selects its requirements; with none it is completed at once.
Select ==
    /\ worker.stage = "extracted"
    /\ worker' = [worker EXCEPT
            !.stage = IF ActiveIn(rows) = {} THEN "nothing" ELSE "reviewing",
            !.todo = ActiveIn(rows)]
    /\ UNCHANGED <<rows, runs, request, fruitless>>

\* One requirement is reviewed.  The session of the run keeps what it selected
\* and does not see that the requirement became inactive meanwhile.
Review(q) ==
    /\ q \in worker.todo
    /\ worker' = [worker EXCEPT !.todo = @ \ {q}]
    /\ UNCHANGED <<rows, runs, request, fruitless>>

\* A review that had something to do may have met a doubt.
Finish ==
    /\ worker.stage \in {"reviewing", "nothing"}
    /\ worker.todo = {}
    /\ \E s \in {"completed", "awaiting_confirmation"} :
        /\ worker.stage = "nothing" => s = "completed"
        /\ runs' = [runs EXCEPT ![worker.run].status = s]
    /\ worker' = IdleWorker
    /\ UNCHANGED <<rows, request, fruitless>>

\* A model call fails, or the handler raises before the review.
Fail ==
    /\ worker.stage \in {"extracting", "extracted"} \/ worker.todo # {}
    /\ runs' = [runs EXCEPT ![worker.run].status = "failed"]
    /\ worker' = IdleWorker
    /\ UNCHANGED <<rows, request, fruitless>>

Init ==
    /\ rows = [q \in Requirements |-> "absent"]
    /\ runs = [k \in RunIds |-> [status |-> "absent", tender |-> NoTender]]
    /\ request = [c \in Clients |-> NoTender]
    /\ worker = IdleWorker
    /\ fruitless = {}

Next ==
    \/ \E t \in Tenders : StartReview(t) \/ \E c \in Clients : LookUp(c, t)
    \/ \E c \in Clients : Replace(c)
    \/ \E k \in RunIds : Begin(k)
    \/ ExtractReturns \/ Select
    \/ \E q \in Requirements : Review(q)
    \/ Finish \/ Fail

Spec == Init /\ [][Next]_vars

-----------------------------------------------------------------------------
(* Properties.                                                             *)

\* Every variable has its type.
TypeOK ==
    /\ rows \in Matrices
    /\ runs \in [RunIds -> Runs]
    /\ request \in [Clients -> Tenders \cup {NoTender}]
    /\ worker \in [run : RunIds \cup {NoRun}, stage : Stages,
                   todo : SUBSET Requirements]
    /\ fruitless \subseteq RunIds

\* The matrix a user sees is of one tender version, whatever is extracted and
\* replaced in the middle of what.
OneTenderMatrix ==
    \A p, q \in ActiveIn(rows) : p[1] = q[1]

\* A job, which selects without looking at the tender, reviews another tender's
\* requirements only if its own extraction had no valid candidate: whatever is
\* replaced, claimed or extracted in between, nothing else leads there.
OwnTenderReviewed ==
    worker.run \notin fruitless => \A q \in worker.todo : q[1] = Tender

\* When the newest job has ended well and nothing is under way, what is shown
\* is of its tender, or its extraction had no valid candidate: no job of an
\* older version comes after it, and no old matrix outlives its extraction.
NewestTenderShown ==
    (/\ worker = IdleWorker
     /\ \A k \in RunIds : runs[k].status \in Ended \cup {"absent"})
        => \A k \in RunIds :
            (/\ runs[k].status \in Ended \ {"failed"}
             /\ \A j \in RunIds : runs[j].status # "absent" => j <= k)
                => k \in fruitless \/ \A q \in ActiveIn(rows) : q[1] = runs[k].tender

\* docs/governance/task-13-constitution-impact.md, 21: after the old matrix is
\* deactivated the new job extracts the current matrix from its tender.  Asked
\* only of the extractions that have a valid candidate.
MatrixExtracted ==
    [][(/\ worker.stage = "extracting" /\ worker'.stage = "extracted"
        /\ worker.run \notin fruitless')
            => Extracted(rows', Tender)]_vars

=============================================================================
