------------------------------ MODULE ModelCalls ------------------------------
(***************************************************************************)
(* The ledger of the model calls of one review run: what persist_model_call*)
(* (services/model_calls.py) admits, the number it gives a row, and which  *)
(* rows the two callers, the extraction (agents/extraction.py) and the     *)
(* review of one requirement (services/reviews.py), leave committed.  Each *)
(* works in a session of its own, in a process that may crash.             *)
(*                                                                         *)
(* A call that has come to an end is one step and what its caller makes of *)
(* it another: in between the process may die and the database refuse.     *)
(*                                                                         *)
(* The scope of a call is the context of its execution (agents/context.py  *)
(* and _review_context_with_proposals): a set of document versions that is *)
(* fixed when the execution begins, while proposals go on being parsed.    *)
(***************************************************************************)
EXTENDS Naturals, FiniteSets

CONSTANTS
    MaxReq,         \* requirements are 1 .. MaxReq, reviewed in this order
    BatchSize,      \* requirements per commit
    Tender,         \* the tender version of the job
    OldTender,      \* another one: in scope if the package includes it
    Proposals,      \* versions of the project's proposals
    MaxTools,       \* bound: assessments an agent saves in one call
    MaxCrashes      \* bound: crashes of a behaviour

ASSUME CallsAssumption ==
    /\ {MaxReq, MaxTools, MaxCrashes} \subseteq Nat
    /\ BatchSize \in Nat \ {0}
    /\ Tender # OldTender
    /\ {Tender, OldTender} \cap Proposals = {}

Requirements == 1 .. MaxReq
Versions == {Tender, OldTender} \cup Proposals
Extraction == 0         \* what an extraction's row is of
None == 0               \* no resume point

VARIABLES
    source,     \* by requirement: Requirement.source_version_id
    allowed,    \* the versions a context built now would have
    db,         \* the committed rows
    tx,         \* the rows as the open session sees them
    run,        \* the step of the execution and its local variables
    calls,      \* model calls that came to an end
    crashes     \* crashes so far (bounded by MaxCrashes)

callsVars == <<source, allowed, db, tx, run, calls, crashes>>

\* A row of the ledger: its number, its requirement, whether it names the
\* requirement's assessment, its verdict on the call, its versions.
LedgerRows == [sequence : Nat, of : Requirements \cup {Extraction},
               assessed : BOOLEAN, accepted : BOOLEAN,
               versions : SUBSET Versions]

\* An assessment: who wrote it last and the versions it cites.
NoAssessment == [by |-> "nobody", cites |-> {}]
Assessments == {NoAssessment} \cup
               [by : {"service", "tool"}, cites : SUBSET Proposals]

Rows == [ledger : SUBSET LedgerRows,
         assessment : [Requirements -> Assessments],
         active : SUBSET Requirements,
         cursor : Requirements \cup {None}]

Steps == {"queued", "extracting", "extractAnswered", "extracted", "agent",
          "answered", "reviewed", "returned", "down"}
At(step) == [step |-> step, context |-> {}, todo |-> {}, inBatch |-> 0,
             tools |-> 0]

-----------------------------------------------------------------------------
(* Mutated forms of the definitions below, each a plausible slip.          *)

SourceOnly(r, cited) == {source[r]}
Unchecked(row) == TRUE
AnyRole(cited) == cited \subseteq run.context
CommittedNumber(t) == Cardinality(db.ledger) + 1
BatchEndsLate(rest) == rest = {} \/ run.inBatch = BatchSize

-----------------------------------------------------------------------------
(* Pieces of the ledger and of its callers.                                *)

\* next_call_sequence: one more than the latest row the session sees.
NextNumber(t) ==
    CHOOSE n \in 1 .. Cardinality(t.ledger) + 1 :
        /\ \A row \in t.ledger : row.sequence < n
        /\ n = 1 \/ \E row \in t.ledger : row.sequence = n - 1

\* validate_context_for_call: the versions of a row are in its context.
InScope(row) == row.versions \subseteq run.context

Row(t, of, assessed, accepted, versions) ==
    [sequence |-> NextNumber(t), of |-> of, assessed |-> assessed,
     accepted |-> accepted, versions |-> versions]

\* persist_model_call: the row is added, or refused with an error.
Persisted(t, row) == [t EXCEPT !.ledger = @ \cup {row}]

\* source_versions of _review_one once the candidate has been read: before
\* anything has been checked.
SourceVersions(r, cited) == {source[r]} \cup cited

\* save_assessment's checks, as far as they are about versions.
Citable(cited) == cited \subseteq run.context \cap Proposals

Saved(t, r, by, cited) ==
    [t EXCEPT !.assessment[r] = [by |-> by, cites |-> cited]]

\* _extract_if_stale: there is an active requirement of this tender.
Extracted(t) == \E r \in t.active : source[r] = Tender

\* The requirements that are left of a run.
Remaining(t) == {r \in t.active : t.cursor <= r}
FirstOf(c, S) == IF S = {} THEN c = None ELSE c \in S /\ \A r \in S : c <= r

\* The batch is over after one more requirement.
BatchEnds(rest) == rest = {} \/ run.inBatch + 1 = BatchSize

-----------------------------------------------------------------------------
\* A proposal has been parsed: the next context has it.
ProposalParsed(p) ==
    /\ p \notin allowed
    /\ allowed' = allowed \cup {p}
    /\ UNCHANGED <<source, db, tx, run, calls, crashes>>

\* The worker claims the job; the handler looks whether it has to extract.
\* The context of an extraction has no proposals.
ClaimJob ==
    /\ run.step = "queued"
    /\ run' = IF Extracted(db) THEN At("extracted")
              ELSE [At("extracting") EXCEPT !.context = allowed \ Proposals]
    /\ UNCHANGED <<source, allowed, db, tx, calls, crashes>>

\* The extraction's call comes to an end, with an answer or with an error.
ExtractAnswers ==
    /\ run.step = "extracting"
    /\ run' = [run EXCEPT !.step = "extractAnswered"]
    /\ calls' = calls + 1
    /\ UNCHANGED <<source, allowed, db, tx, crashes>>

\* The answer is valid.  Its row and the requirements are committed together:
\* some valid candidate makes the requirements of other versions inactive, and
\* what was extracted before stays as it is.
ExtractReturns ==
    /\ run.step = "extractAnswered"
    /\ LET row == Row(tx, Extraction, FALSE, TRUE, {Tender})
           own == {r \in Requirements : source[r] = Tender}
       IN  /\ InScope(row)
           /\ \E kept \in {tx.active} \cup SUBSET own :
                tx' = [Persisted(tx, row) EXCEPT !.active = kept]
    /\ db' = tx'
    /\ run' = At("extracted")
    /\ UNCHANGED <<source, allowed, calls, crashes>>

\* The call has failed or answered with something else.  Its row is written,
\* and goes with the session, which the handler closes without a commit.
ExtractFails ==
    /\ run.step = "extractAnswered"
    /\ tx' = db
    /\ run' = At("returned")
    /\ UNCHANGED <<source, allowed, db, calls, crashes>>

\* The scope cannot be parsed, the package has an unresolved conflict, the
\* excerpt of an extraction is beyond its limits or no model is configured for
\* it; or a database error breaks the session, in the middle of a batch and
\* after a call that has ended too.
JobRaises ==
    /\ run.step \in Steps \ {"queued", "returned", "down"}
    /\ tx' = db
    /\ run' = At("returned")
    /\ UNCHANGED <<source, allowed, db, calls, crashes>>

\* run_review builds its context, selects what is left and commits the resume
\* point.
Enter ==
    /\ run.step = "extracted"
    /\ \E first \in Requirements \cup {None} :
        /\ FirstOf(first, Remaining(tx))
        /\ tx' = [tx EXCEPT !.cursor = first]
        /\ run' = [At(IF first = None THEN "reviewed" ELSE "agent")
                    EXCEPT !.context = allowed, !.todo = Remaining(tx)]
    /\ db' = tx'
    /\ UNCHANGED <<source, allowed, calls, crashes>>

\* The agent saves an assessment itself, of any active requirement.
ToolSaves(r, cited) ==
    /\ run.step = "agent"
    /\ run.tools < MaxTools
    /\ r \in tx.active
    /\ Citable(cited)
    /\ tx' = Saved(tx, r, "tool", cited)
    /\ run' = [run EXCEPT !.tools = @ + 1]
    /\ UNCHANGED <<source, allowed, db, calls, crashes>>

\* The agent's call comes to an end, with a candidate or with an error.
AgentAnswers ==
    /\ run.step = "agent"
    /\ run' = [run EXCEPT !.step = "answered", !.tools = 0]
    /\ calls' = calls + 1
    /\ UNCHANGED <<source, allowed, db, tx, crashes>>

\* A valid candidate is saved and followed up, and its row is admitted.  The
\* last one of a batch is followed by the commit.
Accept(cited) ==
    LET r    == tx.cursor
        rest == run.todo \ {r}
        row  == Row(tx, r, TRUE, TRUE, SourceVersions(r, cited))
    IN  /\ run.step = "answered"
        /\ Citable(cited)
        /\ InScope(row)
        /\ \E next \in Requirements \cup {None} :
            /\ FirstOf(next, rest)
            /\ tx' = [Persisted(Saved(tx, r, "service", cited), row)
                        EXCEPT !.cursor = next]
        /\ db' = IF BatchEnds(rest) THEN tx' ELSE db
        /\ run' = [run EXCEPT
                    !.step = IF rest = {} THEN "reviewed" ELSE "agent",
                    !.todo = rest,
                    !.inBatch = IF BatchEnds(rest) THEN 0 ELSE @ + 1]
        /\ UNCHANGED <<source, allowed, calls, crashes>>

\* _review_one raises.  The failure's row is added if it is admitted; if not,
\* its error replaces the first one.  Either way run_review commits what the
\* session holds as a partial failure.
Fail(t, assessed, versions) ==
    LET row == Row(t, t.cursor, assessed, FALSE, versions)
    IN  /\ tx' = IF InScope(row) THEN Persisted(t, row) ELSE t
        /\ db' = tx'
        /\ run' = At("returned")
        /\ UNCHANGED <<source, allowed, calls, crashes>>

\* No candidate: the call has failed or answered with something else; or the
\* prompt is over its budget or no model is configured, and no call is made.
CallFails ==
    /\ \/ run.step = "answered"
       \/ run.step = "agent" /\ run.tools = 0
    /\ Fail(tx, FALSE, {source[tx.cursor]})

\* The candidate's citations have been noted when save_assessment refuses it.
CandidateRefused(cited) ==
    /\ run.step = "answered"
    /\ Fail(tx, FALSE, SourceVersions(tx.cursor, cited))

\* The assessment has been saved when its question is refused, or when the
\* accepted row is.
RefusedOnceSaved(cited) ==
    /\ run.step = "answered"
    /\ Citable(cited)
    /\ Fail(Saved(tx, tx.cursor, "service", cited), TRUE,
            SourceVersions(tx.cursor, cited))

\* The final commit.  The job has its result to get yet.
Finish ==
    /\ run.step = "reviewed"
    /\ tx' = [tx EXCEPT !.cursor = None]
    /\ db' = tx'
    /\ run' = At("returned")
    /\ UNCHANGED <<source, allowed, calls, crashes>>

\* The process dies; when it starts again the worker requeues the job, also
\* one that has returned and whose result was not recorded yet.
ProcessDies ==
    /\ crashes < MaxCrashes
    /\ crashes' = crashes + 1
    /\ run.step # "down"
    /\ tx' = db
    /\ run' = At("down")
    /\ UNCHANGED <<source, allowed, db, calls>>

ProcessStarts ==
    /\ run.step = "down"
    /\ run' = At("queued")
    /\ UNCHANGED <<source, allowed, db, tx, calls, crashes>>

-----------------------------------------------------------------------------
\* The active requirements are of one tender version.
CallsInit ==
    /\ source \in [Requirements -> {Tender, OldTender}]
    /\ allowed \in {{Tender} \cup more : more \in SUBSET (Versions \ {Tender})}
    /\ \E t \in {Tender, OldTender} :
        \E S \in SUBSET {r \in Requirements : source[r] = t} :
            db = [ledger |-> {}, active |-> S, cursor |-> None,
                  assessment |-> [r \in Requirements |-> NoAssessment]]
    /\ tx = db
    /\ run = At("queued")
    /\ calls = 0
    /\ crashes = 0

CallsNext ==
    \/ \E p \in Proposals : ProposalParsed(p)
    \/ ClaimJob \/ ExtractAnswers \/ ExtractReturns \/ ExtractFails
    \/ JobRaises \/ Enter
    \/ \E cited \in SUBSET Versions :
        \/ \E r \in Requirements : ToolSaves(r, cited)
        \/ Accept(cited) \/ CandidateRefused(cited) \/ RefusedOnceSaved(cited)
    \/ AgentAnswers \/ CallFails \/ Finish
    \/ ProcessDies \/ ProcessStarts

CallsSpec == CallsInit /\ [][CallsNext]_callsVars

-----------------------------------------------------------------------------
(* Properties.                                                             *)

\* Every variable has its type.
CallsTypeOK ==
    /\ source \in [Requirements -> {Tender, OldTender}]
    /\ allowed \subseteq Versions
    /\ {db, tx} \subseteq Rows
    /\ run \in [step : Steps, context : SUBSET Versions,
                todo : SUBSET Requirements, inBatch : Nat, tools : Nat]
    /\ {calls, crashes} \subseteq Nat

\* The committed rows of a run are numbered 1, 2, ... without a gap and without
\* a number twice, across its two sessions, its batches, the rows that a
\* rollback or a crash took away, and the executions that resumed it.
LedgerDense ==
    {row.sequence : row \in db.ledger} = 1 .. Cardinality(db.ledger)

\* No committed row names a version outside the project's scope, although
\* a candidate's citations are noted for its row before they are checked.
LedgerInScope == \A row \in db.ledger : row.versions \subseteq allowed

\* What the service committed as its assessment of a requirement that is in
\* scope can be traced: the last row that names the assessment has the
\* requirement's source and the versions the assessment cites, no others.
AssessmentsLedgered ==
    \A r \in Requirements :
        (db.assessment[r].by = "service" /\ source[r] \in allowed) =>
            \E row \in db.ledger :
                /\ row.of = r /\ row.assessed
                /\ row.versions = {source[r]} \cup db.assessment[r].cites
                /\ \A later \in db.ledger :
                    (later.of = r /\ later.assessed)
                        => later.sequence <= row.sequence

\* However an execution ends and is resumed, it takes no more than one batch of
\* ended calls from the ledger: those of the batch that was open, with the one
\* whose result was not committed yet.
MissedCallsBounded ==
    calls <= Cardinality(db.ledger) + (crashes + 1) * BatchSize

\* docs/governance/task-11-constitution-impact.md, 21: every model attempt
\* writes a row of the call ledger.
AttemptsLedgered ==
    (run.step = "returned" /\ crashes = 0) => Cardinality(db.ledger) >= calls

=============================================================================
