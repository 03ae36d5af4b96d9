--------------------------- MODULE ReviewProgress ---------------------------
(***************************************************************************)
(* What a review promises to whoever started it, whatever crashes: its     *)
(* requirements are reviewed for good, in their order, at most a batch at  *)
(* a time, and the job ends either with all of them reviewed or as failed. *)
(***************************************************************************)
EXTENDS Naturals, FiniteSets

CONSTANTS MaxReq, BatchSize

VARIABLES
    scope,      \* the requirements to review
    done,       \* those with a committed accepted review
    outcome     \* "open" until the job's end is recorded

progressVars == <<scope, done, outcome>>

Init ==
    /\ scope \in SUBSET (1 .. MaxReq)
    /\ done = {}
    /\ outcome = "open"

\* A commit: the next requirements, no more than a batch of them.
Advance ==
    /\ outcome = "open"
    /\ \E block \in SUBSET (scope \ done) :
        /\ block # {}
        /\ Cardinality(block) <= BatchSize
        /\ \A r \in block, s \in scope \ (done \cup block) : r < s
        /\ done' = done \cup block
    /\ UNCHANGED <<scope, outcome>>

\* A review of nothing less than its scope ends well.
Conclude ==
    /\ outcome = "open"
    /\ done = scope
    /\ outcome' \in {"completed", "awaiting_confirmation"}
    /\ UNCHANGED <<scope, done>>

GiveUp ==
    /\ outcome = "open"
    /\ outcome' = "failed"
    /\ UNCHANGED <<scope, done>>

Next == Advance \/ Conclude \/ GiveUp

Spec == Init /\ [][Next]_progressVars

=============================================================================
