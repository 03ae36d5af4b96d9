------------------------------ MODULE ReviewRun ------------------------------
(***************************************************************************)
(* The execution of one review job, from the worker's claim to the status  *)
(* recorded for the job: run_review and _review_one (services/reviews.py)  *)
(* with the writing tools of the review agent (agents/tools.py), over one  *)
(* database session that commits at batch boundaries, in a process that    *)
(* may crash between any two steps and requeues the job when it starts     *)
(* again (jobs/worker.py).                                                 *)
(*                                                                         *)
(* db is what is committed, tx what the session sees: db with the writes   *)
(* flushed since the last commit.  Requirements are their row ids, and the *)
(* run reviews them in id order, so that "todo" is a set.                  *)
(***************************************************************************)
EXTENDS Naturals, FiniteSets, ReviewStatus, StatusRules

CONSTANTS
    MaxReq,         \* the active requirements of the project are 1 .. MaxReq
    BatchSize,      \* requirements per commit
    MaxTools,       \* bound: writing tool calls of one execution of the job
    AgentStrays,    \* may the agent's tools address other requirements?
    MaxFaults       \* bound: crashes and lost results of a behaviour

ASSUME RunAssumption ==
    /\ MaxReq \in Nat
    /\ BatchSize \in Nat \ {0}
    /\ MaxTools \in Nat
    /\ AgentStrays \in BOOLEAN
    /\ MaxFaults \in Nat

Requirements == 1 .. MaxReq
None == 0       \* resumable_requirement_id is NULL; below every requirement

VARIABLES
    scope,      \* the requirements run_review selects for this run
    db,         \* the committed rows of the run
    tx,         \* the rows as the run's open session sees them
    job,        \* ReviewJob.status
    review,     \* the worker's step and run_review's local variables
    faults      \* faults so far (bounded by MaxFaults)

vars == <<scope, db, tx, job, review, faults>>

\* What a candidate that passes the gate can say of a requirement: a doubt, a
\* gap that comes with a recommendation, or a verdict nothing follows from.
Verdicts == {VerdictOf(mandatory, c) :
                mandatory \in BOOLEAN, c \in {d \in Candidates : Supported(d)}}
NoVerdict == "none"

Cursors == Requirements \cup {None}
Steps == {"down", "idle", "claimed", "agent", "closing", "returned", "raised"}
JobStatuses == Settled \cup {"queued", "running"}

\* The committed rows: the ReviewRun's status and resumable_requirement_id;
\* by requirement the verdict of its Assessment, the verdict of its accepted
\* ledger row and the number of its pending Decisions; the requirements with
\* an open ActionItem.
Rows == [status   : RunStatuses,
         cursor   : Cursors,
         verdict  : [Requirements -> Verdicts \cup {NoVerdict}],
         accepted : [Requirements -> Verdicts \cup {NoVerdict}],
         pending  : [Requirements -> Nat],
         items    : SUBSET Requirements]

FreshRows == [status   |-> "queued",
              cursor   |-> None,
              verdict  |-> [r \in Requirements |-> NoVerdict],
              accepted |-> [r \in Requirements |-> NoVerdict],
              pending  |-> [r \in Requirements |-> 0],
              items    |-> {}]

\* run_review is not executing.
Outside(step) == [step |-> step, todo |-> {}, inBatch |-> 0,
                  awaiting |-> FALSE, tools |-> 0, result |-> "queued"]

-----------------------------------------------------------------------------
(* Mutated forms of the definitions below, each a plausible slip.          *)

AfterCursor(c) == {r \in scope : c < r}
FromTheStart(c) == scope
AskNobody(t, r, v) ==
    IF v = "advised_gap" THEN [t EXCEPT !.items = @ \cup {r}] ELSE t
LastFlagOnly(flag, v) == v = "needs_confirmation"
AwaitUnlessClean(flag) == "awaiting_confirmation"
CommitLate(n, rest) == n + 1 > BatchSize
GoOnAfter(t, r) ==
    [t EXCEPT !.status = "partial_failure",
              !.cursor = IF r < MaxReq THEN r + 1 ELSE None]
NotMarkedFailed(t, r) == [t EXCEPT !.cursor = r]
ForgetInterrupted(s) == s

-----------------------------------------------------------------------------
(* Pieces of run_review and of the tools.                                  *)

\* The requirements at or after the resumable one (all of them at None).
Remaining(c) == {r \in scope : c <= r}

\* c is the first requirement of S, None when S is empty.
FirstOf(c, S) == IF S = {} THEN c = None ELSE c \in S /\ \A r \in S : c <= r

\* save_assessment: the row of this run and requirement is written or rewritten.
Save(t, r, v) == [t EXCEPT !.verdict[r] = v]

\* request_user_confirmation: one pending Decision per run and requirement.
Ask(t, r) == [t EXCEPT !.pending[r] = IF @ = 0 THEN 1 ELSE @]

\* create_action_item.
Act(t, r) == [t EXCEPT !.items = @ \cup {r}]

\* _ensure_confirmation_or_action.
FollowUp(t, r, v) ==
    CASE v = "needs_confirmation" -> Ask(t, r)
      [] v = "advised_gap"        -> Act(t, r)
      [] OTHER                    -> t

\* The accepted ledger row, and the resume point after it.
Accepted(t, r, v, next) == [t EXCEPT !.accepted[r] = v, !.cursor = next]

\* The run's local awaiting_confirmation, after one more assessment.
Flag(flag, v) == flag \/ v = "needs_confirmation"

\* The status of a run whose requirements are all reviewed.
FinalStatus(flag) == IF flag THEN "awaiting_confirmation" ELSE "completed"

\* The batch is over after one more requirement.
BatchEnds(n, rest) == n + 1 = BatchSize \/ rest = {}

\* The status and the resume point of a failed run.
FailedAt(t, r) == [t EXCEPT !.status = "partial_failure", !.cursor = r]

\* requeue_interrupted_jobs, for this job.
Requeued(s) == IF s = "running" THEN "queued" ELSE s

\* The requirements the agent's tools can name: any active requirement of the
\* project passes _require_requirement.
Addressable == IF AgentStrays THEN Requirements ELSE {tx.cursor}

-----------------------------------------------------------------------------
(* The worker's steps.                                                     *)

\* claim_next_job.
Claim ==
    /\ review.step = "idle"
    /\ job = "queued"
    /\ job' = "running"
    /\ review' = Outside("claimed")
    /\ UNCHANGED <<scope, db, tx, faults>>

\* run_review selects what remains, commits "reviewing" and the first resume
\* point, and reviews; with nothing to do it goes on to the final commit.
Enter ==
    /\ review.step = "claimed"
    /\ \E first \in Cursors :
        /\ FirstOf(first, Remaining(tx.cursor))
        /\ tx' = [tx EXCEPT !.status = "reviewing", !.cursor = first]
        /\ db' = tx'
        /\ review' = [Outside(IF first = None THEN "closing" ELSE "agent")
                        EXCEPT !.todo = Remaining(tx.cursor)]
    /\ UNCHANGED <<scope, job, faults>>

\* The agent, while it reviews requirement tx.cursor, calls save_assessment,
\* request_user_confirmation or create_action_item; nothing is committed.
ToolCall ==
    /\ review.step = "agent"
    /\ review.tools < MaxTools
    /\ \E r \in Addressable :
        \/ \E v \in Verdicts : tx' = Save(tx, r, v)
        \/ tx' = Ask(tx, r)
        \/ tx' = Act(tx, r)
    /\ review' = [review EXCEPT !.tools = @ + 1]
    /\ UNCHANGED <<scope, db, job, faults>>

\* The agent returns a valid candidate: the service saves it, asks or advises,
\* writes the accepted ledger row, moves the resume point on and, at the end
\* of the batch, commits.
CandidateAccepted(v) ==
    /\ review.step = "agent"
    /\ LET rest == review.todo \ {tx.cursor}
           ends == BatchEnds(review.inBatch, rest)
       IN  \E next \in Cursors :
            /\ FirstOf(next, rest)
            /\ tx' = Accepted(FollowUp(Save(tx, tx.cursor, v), tx.cursor, v),
                             tx.cursor, v, next)
            /\ db' = IF ends THEN tx' ELSE db
            /\ review' = [review EXCEPT
                            !.step = IF rest = {} THEN "closing" ELSE "agent",
                            !.todo = rest,
                            !.inBatch = IF ends THEN 0 ELSE @ + 1,
                            !.awaiting = Flag(@, v)]
    /\ UNCHANGED <<scope, job, faults>>

\* _review_one raises: run_review commits the open transaction, tool writes
\* included, as a partial failure.  Whether the ledger has a row of the failure
\* is module ModelCalls.
Fail(t) ==
    /\ tx' = FailedAt(t, tx.cursor)
    /\ db' = tx'
    /\ review' = [Outside("returned") EXCEPT !.result = "partial_failure"]
    /\ UNCHANGED <<scope, job, faults>>

\* The call times out, runs out of turns or of its budget, or its candidate is
\* refused by the schema, the gates or the evidence checks.
CallFails == review.step = "agent" /\ Fail(tx)

\* The candidate needs a confirmation whose question or reason is too long to
\* be asked (a reasoning may have 4000 characters, a reason 2000; a requirement
\* text has no limit): save_assessment has written, the request raises.
QuestionRefused ==
    /\ review.step = "agent"
    /\ Fail(Save(tx, tx.cursor, "needs_confirmation"))

\* The verdict has been saved and followed up when its ledger row is refused:
\* the requirement's source is outside the scope of the run.
LedgerRefuses(v) ==
    /\ review.step = "agent"
    /\ Fail(FollowUp(Save(tx, tx.cursor, v), tx.cursor, v))

\* The final commit.
Finish ==
    /\ review.step = "closing"
    /\ tx' = [tx EXCEPT !.status = FinalStatus(review.awaiting), !.cursor = None]
    /\ db' = tx'
    /\ review' = [Outside("returned") EXCEPT !.result = tx'.status]
    /\ UNCHANGED <<scope, job, faults>>

\* The job cannot be parsed or extracted, or a database error breaks the
\* session (the failure path needs it too): the session closes without commit.
HandlerRaises ==
    /\ review.step \in {"claimed", "agent", "closing"}
    /\ tx' = db
    /\ review' = Outside("raised")
    /\ UNCHANGED <<scope, db, job, faults>>

\* mark_job_complete or mark_job_failed.
Settle ==
    /\ \/ review.step = "returned" /\ job' = StatusFor(review.result)
       \/ review.step = "raised" /\ job' = StatusAfterRaise
    /\ review' = Outside("idle")
    /\ UNCHANGED <<scope, db, tx, faults>>

-----------------------------------------------------------------------------
(* Faults, each counted against MaxFaults.                                 *)

Fault == faults < MaxFaults /\ faults' = faults + 1

\* The process dies: what was not committed is gone.
Crash ==
    /\ Fault
    /\ review.step # "down"
    /\ tx' = db
    /\ review' = Outside("down")
    /\ UNCHANGED <<scope, db, job>>

\* The last stage update or the terminal update fails after run_review has
\* returned: run_once takes the exception for a failed job.
ResultLost ==
    /\ Fault
    /\ review.step = "returned"
    /\ review' = Outside("raised")
    /\ UNCHANGED <<scope, db, tx, job>>

\* requeue_interrupted_jobs, then a new worker task.
Restart ==
    /\ review.step = "down"
    /\ job' = Requeued(job)
    /\ review' = Outside("idle")
    /\ UNCHANGED <<scope, db, tx, faults>>

-----------------------------------------------------------------------------
Init ==
    /\ scope \in SUBSET Requirements
    /\ db = FreshRows
    /\ tx = FreshRows
    /\ job = "queued"
    /\ review = Outside("idle")
    /\ faults = 0

WorkerStep ==
    \/ Claim \/ Enter
    \/ \E v \in Verdicts : CandidateAccepted(v) \/ LedgerRefuses(v)
    \/ CallFails \/ QuestionRefused \/ Finish \/ HandlerRaises \/ Settle

Next == WorkerStep \/ ToolCall \/ Crash \/ ResultLost \/ Restart

\* The event loop keeps running the worker task, an agent call ends (its turns
\* are bounded and each has a timeout), and a dead process is started again.
\* The agent need not call a tool; faults are not fair.
Spec == Init /\ [][Next]_vars /\ WF_vars(WorkerStep) /\ WF_vars(Restart)

-----------------------------------------------------------------------------
(* Properties.                                                             *)

Reviewed(rows) == {r \in scope : rows.accepted[r] # NoVerdict}

\* Every variable has its type: columns, enumerations and local variables.
TypeOK ==
    /\ scope \in SUBSET Requirements
    /\ db \in Rows
    /\ tx \in Rows
    /\ job \in JobStatuses
    /\ review \in [step : Steps, todo : SUBSET scope, inBatch : Nat,
                   awaiting : BOOLEAN, tools : Nat,
                   result : Outcomes \cup {"queued"}]
    /\ faults \in Nat

\* A run that reports an end other than a failure has an accepted review and
\* an assessment of every requirement of its scope, however often it crashed
\* and wherever it resumed (run_review's resume filter and batch commits).
NoRequirementSkipped ==
    db.status \in {"completed", "awaiting_confirmation"} =>
        \A r \in scope : db.accepted[r] # NoVerdict /\ db.verdict[r] # NoVerdict

\* The committed resume point is never past an unreviewed requirement, and a
\* run that failed has one.
ResumePointSound ==
    /\ db.cursor # None =>
        \A r \in scope : r < db.cursor => db.accepted[r] # NoVerdict
    /\ db.status = "partial_failure" => db.cursor # None

\* A restart never pays twice for a review that was committed, except when the
\* crash came after the last batch: then the whole run is repeated.
NoWastedCall ==
    (review.step = "agent" /\ db.accepted[tx.cursor] # NoVerdict)
        => \A r \in scope : db.accepted[r] # NoVerdict

\* The committed verdict the service accepted is followed up in the same
\* commit: a doubt by a pending question, an advised gap by an open item.
VerdictsFollowedUp ==
    \A r \in Requirements :
        /\ db.accepted[r] = "needs_confirmation" => db.pending[r] > 0
        /\ db.accepted[r] = "advised_gap" => r \in db.items

\* A run waits for its user only when there is a question to answer, and, when
\* nothing interrupted it, does not end without waiting when there is a doubt.
\* (Its flag of the doubts met is a local variable: a resumed run has lost it.)
DoubtsAwaited ==
    /\ db.status = "awaiting_confirmation" => \E r \in scope : db.pending[r] > 0
    /\ (faults = 0 /\ db.status = "completed")
            => \A r \in scope : db.accepted[r] # "needs_confirmation"

\* The job is settled in the end, whatever crashes.
ReviewSettles == <>[](job \in Settled)

\* The run implements what ReviewProgress promises to whoever waits for it, and
\* what JobLife, the interface to the queue, says of a job: the row's status
\* follows what is committed, however much of it a crash takes away.
Outcome == IF job \in Settled THEN job ELSE "open"
Stage ==
    CASE review.step = "claimed"                -> "handling"
      [] review.step \in {"agent", "closing"}   -> "reviewing"
      [] review.step \in {"returned", "raised"} -> review.step
      [] OTHER                                   -> "none"
Progress == INSTANCE ReviewProgress WITH done <- Reviewed(db), outcome <- Outcome
Life == INSTANCE JobLife WITH status <- job, result <- db.status, stage <- Stage
ImplementsPromises == Progress!Spec /\ Life!Spec

\* The plan (docs/superpowers/plans/2026-09-16-bid-guard-agent-mvp.md, 1188):
\* "set awaiting_confirmation when unresolved decisions exist".
CompletedMeansNoDoubt ==
    db.status = "completed" => \A r \in scope : db.pending[r] = 0

=============================================================================
