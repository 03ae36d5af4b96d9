---------------------------- MODULE ReviewStatus ----------------------------
(***************************************************************************)
(* The status words shared by the review queue and the review run, and how *)
(* the worker turns the handler's result into a job status                 *)
(* (jobs/worker.py, run_once, mark_job_complete and mark_job_failed).      *)
(***************************************************************************)

\* What run_review returns, and commits as ReviewRun.status before it returns.
Outcomes == {"completed", "awaiting_confirmation", "partial_failure"}

RunStatuses == Outcomes \cup {"queued", "reviewing"}

\* ReviewJob.status once the worker has recorded the job's end.
Settled == {"completed", "awaiting_confirmation", "failed"}

-----------------------------------------------------------------------------
(* Mutated forms of the definitions below, each a plausible slip.          *)

EveryResultCompletes(r) == IF r = "awaiting_confirmation" THEN r ELSE "completed"

-----------------------------------------------------------------------------
\* run_once: the status a returned result is recorded as.
StatusFor(r) == IF r = "partial_failure" THEN "failed" ELSE r

\* mark_job_failed: the status after an exception of the handler.
StatusAfterRaise == "failed"

=============================================================================
