----------------------------- MODULE ParseAttempt -----------------------------
(***************************************************************************)
(* The parse attempts of one immutable document version                    *)
(* (services/ingestion.py, parse_document_version and its callers): upload *)
(* threads that bring the same content, and the review worker, each read   *)
(* the version, claim it with a fresh attempt token, parse outside any     *)
(* transaction and then replace the chunks, if the token is still theirs.  *)
(*                                                                         *)
(* The bytes are verified against their digest before each parse and the   *)
(* parsers are deterministic: an attempt ends in what the file yields, or  *)
(* it fails (the stored file is missing, a parser breaks).                 *)
(***************************************************************************)
EXTENDS Naturals

CONSTANTS
    Uploads,    \* server threads that ingest this content
    Worker,     \* the thread of the review worker
    MaxClaims,  \* bound: attempts
    MaxFaults   \* bound: crashes and database errors of a behaviour

ASSUME ParseAssumption ==
    /\ Worker \notin Uploads
    /\ MaxClaims \in Nat
    /\ MaxFaults \in Nat

Threads == Uploads \cup {Worker}
None == 0       \* no attempt

VARIABLES
    row,        \* the DocumentVersion and its chunks, as committed
    file,       \* the outcome that parsing this content yields
    thread,     \* what each thread is doing, with its own attempt
    claims,     \* attempts so far; an attempt's token is its number
    faults,     \* faults so far (bounded by MaxFaults)
    broken      \* history: the attempts that a fault took from their thread

vars == <<row, file, thread, claims, faults, broken>>

Outcomes == {"parsed", "partial_failure", "needs_ocr", "failed"}
Statuses == Outcomes \cup {"pending", "parsing"}
WithChunks == {"parsed", "partial_failure"}
Steps == {"idle", "decided", "parsing", "ended", "recheck", "reviewing"}

\* status, attempt token and expired lease of the version; the attempt whose
\* chunks are stored, and whether the stored coverage says they are all.
Rows == [status : Statuses, token : Nat, expired : BOOLEAN,
         chunks : Nat, complete : BOOLEAN]

Idle == [step |-> "idle", token |-> None, outcome |-> "failed"]

-----------------------------------------------------------------------------
(* Mutated forms of the definitions below, each a plausible slip.          *)

AnyToken(r, n) == TRUE
KeepNothing(r, o) == FALSE
AlwaysParsed(r) == "parsed"
StatusLeft(r) == [r EXCEPT !.token = None]
OcrToo == {"parsed", "partial_failure", "needs_ocr"}

-----------------------------------------------------------------------------
(* Pieces of the code.                                                     *)

\* _ingest: should_parse, for a version that is reused.
ShouldParse(r) ==
    \/ r.status \in {"pending", "failed"}
    \/ r.status = "parsing" /\ r.expired

\* _parse_scope_versions: what the worker parses, and what it accepts.
WorkerParses == {"pending", "parsing"}
Available == {"parsed", "partial_failure"}

\* The claim of parse_document_version.
Claimed(r, n) ==
    [r EXCEPT !.status = "parsing", !.token = n, !.expired = FALSE]

\* _finalize_parse_attempt: the attempt is still the version's.
Owns(r, n) == r.token = n

\* ... it failed and there are chunks of an earlier one ...
Keeps(r, o) == o = "failed" /\ r.chunks # None

\* ... whose status is computed again from the stored coverage ...
PreviousStatus(r) == IF r.complete THEN "parsed" ELSE "partial_failure"

Retained(r) ==
    [r EXCEPT !.status = PreviousStatus(r), !.token = None, !.expired = FALSE]

\* ... or else everything is replaced.
Replaced(r, n, o) ==
    [status   |-> o,
     token    |-> None,
     expired  |-> FALSE,
     chunks   |-> IF o \in WithChunks THEN n ELSE None,
     complete |-> o = "parsed"]

Finalized(r, n, o) == IF Keeps(r, o) THEN Retained(r) ELSE Replaced(r, n, o)

\* What the worker does with the status it sees after its turn.
Verdict(status) ==
    [Idle EXCEPT !.step = IF status \in Available THEN "reviewing" ELSE "idle"]

-----------------------------------------------------------------------------
\* An upload finds the version and decides whether to parse it.
LookUp(t) ==
    /\ t \in Uploads
    /\ thread[t].step = "idle"
    /\ ShouldParse(row)
    /\ thread' = [thread EXCEPT ![t].step = "decided"]
    /\ UNCHANGED <<row, file, claims, faults, broken>>

\* A review job reaches the version; a fresh lease does not stop it.
JobReads(t) ==
    /\ t = Worker
    /\ thread[t].step = "idle"
    /\ thread' = [thread EXCEPT ![t] =
                    IF row.status \in WorkerParses
                    THEN [Idle EXCEPT !.step = "decided"]
                    ELSE Verdict(row.status)]
    /\ UNCHANGED <<row, file, claims, faults, broken>>

\* The claim is committed.  It does not look at what was read before.
Claim(t) ==
    /\ thread[t].step = "decided"
    /\ claims < MaxClaims
    /\ claims' = claims + 1
    /\ row' = Claimed(row, claims')
    /\ thread' = [thread EXCEPT ![t].step = "parsing", ![t].token = claims']
    /\ UNCHANGED <<file, faults, broken>>

\* The parser returns, or one of the except branches gives a failure.
ParseEnds(t) ==
    /\ thread[t].step = "parsing"
    /\ \E o \in {file, "failed"} :
        thread' = [thread EXCEPT ![t].step = "ended", ![t].outcome = o]
    /\ UNCHANGED <<row, file, claims, faults, broken>>

\* _finalize_parse_attempt: one transaction, whose first statement is the
\* guarded UPDATE.  The worker then looks at its session's status.
Finalize(t) ==
    /\ thread[t].step = "ended"
    /\ Owns(row, thread[t].token)
    /\ row' = Finalized(row, thread[t].token, thread[t].outcome)
    /\ thread' = [thread EXCEPT ![t] =
                    IF t = Worker THEN Verdict(row'.status) ELSE Idle]
    /\ UNCHANGED <<file, claims, faults, broken>>

\* The attempt was overtaken: nothing is written, the session is expired.
Overtaken(t) ==
    /\ thread[t].step = "ended"
    /\ ~ Owns(row, thread[t].token)
    /\ thread' = [thread EXCEPT ![t] =
                    IF t = Worker THEN [Idle EXCEPT !.step = "recheck"] ELSE Idle]
    /\ UNCHANGED <<row, file, claims, faults, broken>>

\* The worker reads the status again, whatever it is by now.
Recheck(t) ==
    /\ thread[t].step = "recheck"
    /\ thread' = [thread EXCEPT ![t] = Verdict(row.status)]
    /\ UNCHANGED <<row, file, claims, faults, broken>>

\* The job goes on to its next stages and ends.
JobEnds(t) ==
    /\ thread[t].step = "reviewing"
    /\ thread' = [thread EXCEPT ![t] = Idle]
    /\ UNCHANGED <<row, file, claims, faults, broken>>

\* Fifteen minutes after the claim.
LeaseExpires ==
    /\ row.status = "parsing"
    /\ ~ row.expired
    /\ row' = [row EXCEPT !.expired = TRUE]
    /\ UNCHANGED <<file, thread, claims, faults, broken>>

-----------------------------------------------------------------------------
(* Faults, each counted against MaxFaults.                                 *)

Fault == faults < MaxFaults /\ faults' = faults + 1

\* A database error in the claim or in the final transaction.  An upload looks
\* again (and finds a fresh lease, its own), a job fails.
DatabaseError(t) ==
    /\ Fault
    /\ thread[t].step \in {"decided", "ended"}
    /\ thread' = [thread EXCEPT ![t] = Idle]
    /\ broken' = broken \cup ({thread[t].token} \ {None})
    /\ UNCHANGED <<row, file, claims>>

\* The process dies and is started again.
Crash ==
    /\ Fault
    /\ thread' = [t \in Threads |-> Idle]
    /\ broken' = broken \cup ({thread[t].token : t \in Threads} \ {None})
    /\ UNCHANGED <<row, file, claims>>

-----------------------------------------------------------------------------
\* _ingest has just committed the version; its thread goes on to parse it.
Init ==
    /\ row = [status |-> "pending", token |-> None, expired |-> FALSE,
              chunks |-> None, complete |-> FALSE]
    /\ file \in Outcomes
    /\ \E creator \in Uploads :
        thread = [t \in Threads |->
                    IF t = creator THEN [Idle EXCEPT !.step = "decided"] ELSE Idle]
    /\ claims = 0
    /\ faults = 0
    /\ broken = {}

AttemptStep(t) ==
    Claim(t) \/ ParseEnds(t) \/ Finalize(t) \/ Overtaken(t) \/ Recheck(t)

ThreadStep(t) ==
    LookUp(t) \/ JobReads(t) \/ AttemptStep(t) \/ JobEnds(t)

Next ==
    \/ \E t \in Threads : ThreadStep(t) \/ DatabaseError(t)
    \/ LeaseExpires \/ Crash

\* A thread that has an attempt goes on with it: the parsers have limits.
Spec == Init /\ [][Next]_vars /\ \A t \in Threads : WF_vars(AttemptStep(t))

-----------------------------------------------------------------------------
(* Properties.                                                             *)

\* Every variable has its type.
TypeOK ==
    /\ row \in Rows
    /\ file \in Outcomes
    /\ thread \in [Threads -> [step : Steps, token : Nat, outcome : Outcomes]]
    /\ claims \in Nat
    /\ faults \in Nat
    /\ broken \subseteq Nat

\* The docstring of parse_document_version: a late older parse never replaces
\* the result of a newer one, and a status other than "parsing" is only ever
\* written by the newest attempt.
NewestWins ==
    [][/\ row'.chunks # row.chunks => row'.chunks > row.chunks
       /\ (row.status = "parsing" /\ row'.status # "parsing")
            => \E t \in Threads : thread[t].token = claims]_vars

\* "A failed reparse retains the last successful snapshot": once the version
\* has chunks it has chunks for good, whatever fails and whoever overtakes.
SnapshotKept == [][row.chunks # None => row'.chunks # None]_vars

\* Outside an attempt the status tells the truth about the chunks, also when
\* it was computed again after a failed attempt.
StatusMatchesChunks ==
    row.status # "parsing" =>
        /\ row.status \in WithChunks <=> row.chunks # None
        /\ row.chunks # None => row.status = file

\* A version is "parsing" only while a thread works on the attempt that holds
\* it, or when a crash or a database error took just that attempt from its
\* thread: no fault of another attempt, before or since, leaves it so, and an
\* upload or a job that claims it again makes it held again.
ParsingIsHeld ==
    row.status = "parsing" =>
        \/ row.token \in broken
        \/ \E t \in Threads :
            thread[t].step \in {"parsing", "ended"} /\ thread[t].token = row.token

\* A job goes on to extraction and review only with a version that has chunks,
\* and they are still there when it comes to read them.
JobHasChunks == thread[Worker].step = "reviewing" => row.chunks # None

\* A version does not stay in "parsing", also after faults, unless a fault took
\* the very attempt that holds it and nobody claims it again.
ParsingEnds ==
    row.status = "parsing" ~> (row.status # "parsing" \/ row.token \in broken)

=============================================================================
