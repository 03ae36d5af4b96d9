------------------------------- MODULE JobLife -------------------------------
(***************************************************************************)
(* What becomes of one review job, as the queue and the run agree on it:   *)
(* which status the job's row may get when, given what its run committed   *)
(* and how far the worker is with it.  It is the interface between module  *)
(* ReviewQueue, which has many jobs and one outcome for each execution,    *)
(* and module ReviewRun, which has one job and the whole execution.        *)
(***************************************************************************)

VARIABLES
    status,     \* ReviewJob.status, "absent" before the row exists
    result,     \* ReviewRun.status
    stage       \* how far the worker is with the job, "none" if it is not on it

lifeVars == <<status, result, stage>>

Ends == {"completed", "awaiting_confirmation", "partial_failure"}

\* A job is seen from before its row exists, or from its creation on.
Init ==
    /\ status \in {"absent", "queued"}
    /\ result = "queued"
    /\ stage = "none"

Create ==
    /\ status = "absent"
    /\ stage = "none"
    /\ status' = "queued"
    /\ result' = "queued"
    /\ UNCHANGED stage

Claim ==
    /\ status = "queued"
    /\ stage = "none"
    /\ status' = "running"
    /\ stage' = "handling"
    /\ UNCHANGED result

\* Only a review that has begun has an outcome, and it is committed in the
\* run before the worker hears of it.
BeginReview ==
    /\ stage = "handling"
    /\ stage' = "reviewing"
    /\ result' = "reviewing"
    /\ UNCHANGED status

EndReview ==
    /\ stage = "reviewing"
    /\ stage' = "returned"
    /\ result' \in Ends
    /\ UNCHANGED status

Raise ==
    /\ stage \in {"handling", "reviewing", "returned"}
    /\ stage' = "raised"
    /\ UNCHANGED <<status, result>>

\* The job reports what its run has committed: success only where the run has
\* it, a failure if the run failed in part or an exception came up.
Report ==
    /\ \/ stage = "returned" /\ status' = IF result = "partial_failure"
                                          THEN "failed" ELSE result
       \/ stage = "raised" /\ status' = "failed"
    /\ stage' = "none"
    /\ UNCHANGED result

\* The worker is gone, with whatever it had not committed.
Abandon ==
    /\ stage # "none"
    /\ stage' = "none"
    /\ UNCHANGED <<status, result>>

\* Only a running job that nobody executes is queued again.
Requeue ==
    /\ status = "running"
    /\ stage = "none"
    /\ status' = "queued"
    /\ UNCHANGED <<result, stage>>

Next ==
    \/ Create \/ Claim \/ BeginReview \/ EndReview \/ Raise \/ Report
    \/ Abandon \/ Requeue

Spec == Init /\ [][Next]_lifeVars

=============================================================================
