# BidGuard Agent: specification and proofs

BidGuard Agent checks a company's bid against a tender. Users upload a tender, proposals and company
evidence; the system parses them, has a language model extract the tender's requirements and review each one
against the evidence, and keeps the verdicts, the questions for the user and the advised actions in SQLite.
It is one process: synchronous HTTP endpoints in a thread pool, and one asyncio task, the review worker.
This directory holds TLA+ modules of its core, TLC configurations that check them, and TLAPS proofs.

Paths below are relative to `src/backend/app/`.

## 1. Inventory

| Part | State it keeps | Operations | What must be right |
|---|---|---|---|
| Review queue: `jobs/worker.py`, `jobs/handlers.py` (`start_review`), `main.py` | `ReviewJob` rows: status, stage, scope fingerprint, attempts; the worker task | start (find active, insert), claim, complete, fail, requeue at start-up, stop | one job at a time, in order; nothing lost, repeated or rewritten; a queued job ends |
| Review run: `services/reviews.py` | `ReviewRun` status and resume point, assessments, ledger rows, decisions, action items; local flag of doubts | select, review one, commit a batch, fail, finish | no requirement skipped, resume point sound, verdicts followed up |
| Agent tools: `agents/tools.py` | writes of the run's session | save an assessment, ask, advise; read and search | citations within the allowed versions, one question per requirement |
| Scope and handler: `jobs/handlers.py` | stage of the job | compute the scope; parse, extract if stale, review | each stage sees what the one before committed |
| Requirement matrix: `services/requirements.py`, `agents/extraction.py` | `Requirement` rows, active or not | save a batch of candidates | active requirements come from one tender version; none lost |
| Decisions: `services/decisions.py`, `api/decisions.py` | decisions, action items, `current` and `valid` flags | record, complete, calculate affected, invalidate, deactivate, re-review | nothing current rests on replaced evidence |
| Ingestion and storage: `services/ingestion.py` (`_ingest`), `documents/storage.py` | `Document` and `DocumentVersion` rows, the content-addressed files | look up, publish the bytes, insert, retry, reuse | one row per content, numbers without gap, the bytes of every row are stored |
| Parse attempts: `services/ingestion.py` (`parse_document_version`) | parse status, attempt token, lease, chunks | claim, parse, finalize, recheck | a late parse never overwrites a newer one |
| Model governance: `services/model_calls.py`, `agents/contracts.py`, `agents/context.py`, `agents/gates.py` | ledger rows; the budget of one call | admit, number, persist | the ledger of a run is dense, in scope, and explains every assessment |
| Search: `documents/search.py` | none | rank, select the best, coverage | the k best, ties broken by order; coverage exact |
| Status rules: `domain/status_rules.py`, `agents/gates.py` | none | display status, support of a pass, follow-up | nothing passes without evidence; a doubt is asked about |
| Schema upgrade: `persistence/schema.py`, `persistence/models.py` | the schema and the rows of an earlier release | create, validate, alter, backfill, index, guard, verify, commit | all or nothing; what passes the validation is not refused later |
| Projects: `services/projects.py` | none of its own | summary counts of documents, requirements, gaps | counts agree with the lists (see 5) |
| Parsers, API validation, body limit, provider, frontend | see section 7 | | |

**Interaction.** A start request computes a scope, looks for an active job and inserts a run and a job; the
worker polls the table, claims a job, and executes its handler: stages parse, extract, review. The review opens
one session for the whole run, calls the agent for each requirement (its tools write through the same session)
and commits per batch. Uploads, decisions and re-reviews change the same tables from request threads at any
time. There is no lock but SQLite's write lock, taken at the first flushed write and held to the commit; the
driver opens no transaction for a SELECT, so a check and the write that relies on it are not atomic.

**Hard behaviours.** Check-then-insert by several threads; a crash between two commits of a run, between a
run's commit and its job's, between a claim and anything else; a resume from a committed point; a failure path
that commits what was half done; a worker task that a database error ends; parse attempts that overlap and a
lease that frees them; two processes that insert one content; a failing run whose ledger row is committed with what it
had written, or lost with its session; an upgrade that stops between two statements, next to a process of the earlier
release that goes on writing; re-reviews that invalidate what a running job is about to write. `PROJECT.json` lists each
as a hazard at its line, with the properties that would catch it.

## 2. Modules

| Module | Models | State and actions against the code |
|---|---|---|
| `ReviewStatus` | the status words, and how `run_once` turns a result into a job status | `StatusFor`, `StatusAfterRaise` |
| `ReviewQueue` | the job table, request threads, the worker task, the process | `BuildScope`, `ReuseActive`/`SeeNoActive`, `InsertJob` are the three moments of `start_review`; `Claim` .. `RecordFailure` are `run_once`; `Crash`, `RequestStop`, `Exit`, `Start` are `lifespan` and what may happen to it |
| `ReviewRun` | one job's execution: `run_review`, `_review_one`, the writing tools | `db` is committed, `tx` what the open session sees; `Enter` is the first commit, `CandidateAccepted` one requirement with its batch commit, `CallFails` and `QuestionRefused` the failure path, `Finish` the last commit, `ToolCall` the agent in between |
| `StatusRules` | operators: the gate of a matched assessment, the displayed status, what the run does about it | `Supported` (`validate_assessment`), `DisplayStatus`, `Asks`, `Advises`; `ReviewRun` draws its verdicts from `VerdictOf` |
| `ReviewProgress` | what a review promises to its user (abstract) | `Advance`, `Conclude`, `GiveUp`; implemented by `ReviewRun` |
| `JobLife` | what becomes of one job (abstract): the interface of queue and run | `Create`, `Claim`, `BeginReview`, `EndReview`, `Raise`, `Report`, `Abandon`, `Requeue`, on the job's status, the run's status and the worker's stage; implemented by `ReviewQueue` for each of its jobs (`Life(j)`) and by `ReviewRun` for its own (`Life`) |
| `ParseAttempt` | the parse attempts of one document version by upload threads and the worker: `parse_document_version`, `_ingest`, `_finalize_parse_attempt`, `_parse_scope_versions` | `row` is the committed version with its token, lease and chunks, `thread` what each thread has read; `LookUp`/`JobReads`, `Claim`, `ParseEnds`, `Finalize`/`Overtaken`, `Recheck`, `JobEnds` in the order of the code; `LeaseExpires`, `DatabaseError`, `Crash`; `broken` is history: the attempts that a fault took from their thread |
| `ReReview`, `MCReReview` | which assessment is current after a changed proposal: `start_incremental_review`, `save_assessment`, `_latest_assessment` | `LookUp` computes what is affected, `Invalidate` invalidates it and starts the run; `Begin` builds the context, `Review` saves one assessment with evidence in any version of the context, `Finish`, `Fail`; `seen`, `alone` and `reused` are history. The MC module has the symmetry |
| `TenderMatrix` | which requirements are active while several versions of the tender are reviewed: `save_requirement_batch`, `_extract_if_stale`, `deactivate_tender_matrix` | `Replace` is the second half of a re-review for a changed tender, `Begin` the test for a stale matrix, `ExtractReturns` the extraction, with any set of valid candidates or none, and its commit, `Select` what `run_review` takes; `fruitless` is history: the runs whose extraction had no valid candidate |
| `DocumentCoverage` | operators: what the parsers read of a document and report of it, the status that follows, and the completeness judgement of the search | `PdfCoverage`, `DocxCoverage`, `PieceNumbers` (`chunk_text`), `Outcome` (`_parse_outcome`), `Complete` (`_coverage_complete`) |
| `EvidenceSearch`, `MCEvidenceSearch` | `search_chunks` row by row over the chunks of `DocumentCoverage`, and the check of a citation | `Ask` validates, `ReadRow` is one turn of the loop with the heap `best`, `Answer` the final sort; the MC module enumerates the documents |
| `Ingestion`, `MCIngestion` | `_ingest` by request threads of several processes, and the store | `FindDocument`, `Reuse`/`FindNoVersion` are the reads under the process's lock, the publication and its link are steps without it, the insertion is one step with its constraints, after which the loop ends or goes round; `Answer` is the parse and the return, and `DatabaseError` may send a request round from there too, after its version was committed; a thread is a pair of process and thread |
| `VersionRegister` | what overlapping uploads amount to (abstract): a register that each content enters once, in one step, with the next number | `Ask`, `Make`, `AskAgain`, `Answer`, `Leave`; implemented by `Ingestion` (`ImplementsRegister`) |
| `SchemaUpgrade`, `MCSchemaUpgrade` | `ensure_schema` of processes that start on an old database | the steps `create` .. `commit` of one transaction; the schema is the set of features that the code looks for in `sqlite_schema`; `Admits` is what they enforce on rows |
| `ModelCalls` | the ledger rows of one job's calls, from extraction and review | its actions have names of their own (`ClaimJob`, `JobRaises`, `ProcessDies`, `ProcessStarts`, and `CallsInit` .. `CallsSpec`), so that its proofs can stand beside those of the queue; `Row` and `Persisted` are `persist_model_call`, `InScope` its check; `ExtractAnswers` and `AgentAnswers` are the end of a model call, a step of its own; `ExtractReturns`/`ExtractFails` and `Accept`, `CallFails`, `CandidateRefused`, `RefusedOnceSaved` what its two callers make of it |
| `ReviewQueue_proofs`, `ReviewRun_proofs`, `ParseAttempt_proofs`, `ReReview_proofs`, `TenderMatrix_proofs`, `EvidenceSearch_proofs`, `Ingestion_proofs`, `SchemaUpgrade_proofs` | theorems and proofs | section 6; `ReviewQueue_proofs` has those of `ModelCalls` too |

A `ReviewJob` id is its place in commit order (autoincrement, one writer), so ids order the queue. The handler is
one nondeterministic outcome in `ReviewQueue` and the whole of `ReviewRun`; the queue is one job in `ReviewRun`. That the
two speak of the same job is `JobLife`: it says which status the job's row may get when, given what its run has committed
and how far the worker is with it. Each of the two modules implements it, so what the one takes for granted of
the other is what the other does: an outcome is committed in the run before the worker reports it, a review has begun
before it has an outcome, and only a running job that nobody executes is queued again.
In `ReviewRun` a requirement is its row id; only what a verdict leads to is kept of it (a doubt, an advised gap, or
nothing, by `StatusRules`); a step that adds the ledger row may also be refused by it (`LedgerRefuses`). A tool call may address any active requirement of the project, as `_require_requirement` allows. A
database error in the middle of a run is `HandlerRaises`: the failure path needs the same session, raises too, and
nothing is committed.

`ParseAttempt` starts where `_ingest` has committed a new version; a token is the number of its attempt, and the
chunks are known by the attempt that stored them. What a file yields does not change from attempt to attempt: the
bytes are verified against their digest and the parsers are deterministic, but an attempt may also just fail.
`ReReview` and `TenderMatrix` take a request's job and a requirement's review as one step each, because
`ReviewQueue` and `ReviewRun` have them in detail. The tender is fixed in the first, the other files in the second.

In `DocumentCoverage` a page is what pypdf makes of it (readable, visible characters, an image) and a block of a Word
document what python-docx makes of it (heading, text, lossy). `HeaderImage`, `MinVisible`, `ChunkSize` and `Overlap`
are the constants of the code; the arithmetic on them is the code's. In `EvidenceSearch` the score of a chunk is any
number: the terms and how they are counted are data. Chunk ids follow the order in which versions were parsed last,
which need not be the order of version ids; that is why the heap's keys and the statement's order differ.

Some properties speak of what happened earlier and is in no row: whether an extraction had a valid candidate
(`fruitless`), which attempt a fault took from its thread (`broken`), which newest version an assessment's run could see
(`seen`), whether a request computed and inserted while no run was executed (`alone`), which requirements were
invalidated by a request that then found a job instead of creating one (`reused`). These are history variables or
fields: each is assigned where the event happens, only properties and other history read them, and no guard does, so
that they exclude no behaviour.

In `Ingestion` a content is its digest and a file name its suffix, since the store's path is made of these two. A read
is a statement of its own; an insertion and its commit are one step, because the write lock excludes other writers in
between. Company evidence has its content as key, the project's documents their role: there is one such key, since
keys do not meet. `SchemaUpgrade` has the rows of documents and versions; of chunks, sizes and decisions it has the
schema only. A process of the earlier release may write at any time the lock is free, as far as the schema admits it.
`ModelCalls` knows of a call the versions it names, of an assessment who wrote it and the versions it cites. Company
evidence is left out: in the two checks at stake it takes the part of a proposal, which `Proposals` stands for.

## 3. Runs

| Run | Bounds | What it shows |
|---|---|---|
| `MCReviewQueue` | 2 threads, 2 scopes, 2 jobs, 2 faults | order, holding, bounded duplicates, settled jobs stay, the queue drains; implements `JobLife` for each job |
| `MCReviewRun` | 3 requirements, batches of 2, 1 stray tool call per execution, 1 fault | nothing skipped, sound resume point, no wasted call, follow-up, doubts awaited, settling; implements `ReviewProgress` and `JobLife` |
| `MCReviewRunCompleted` | 2 requirements, batches of 1, 1 fault | violation: a resumed run forgets a committed doubt |
| `MCParseAttempt` | 2 uploads and the worker, 5 attempts, 2 faults | the newest attempt wins, snapshots are kept, the status is true, parsing is held and ends unless a fault took that very attempt |
| `MCReReview` | 2 threads, 2 requirements, 2 versions, 3 runs | nothing superseded is shown, what was invalidated is in a run unless a job was found for it, what supports a shown conclusion was seen with the newest version. Threads, and requirements, are exchangeable (symmetry) |
| `MCTenderMatrix` | 2 threads, 2 tender versions of 2 candidates, 3 runs | one tender's matrix; every job its own and the newest one's in the end, unless its extraction had no valid candidate |
| `MCTenderMatrixEmpty` | the same with 1 thread | violation: a version that is reviewed again gets an empty matrix |
| `MCEvidenceSearch` | every document of at most 2 pages or blocks and a plain page, limits up to 2, scores up to 2 | exact ranking, true reports, agreeing judgements |
| `MCIngestion` | 2 processes with 3 requests, 2 contents, 2 suffixes, 3 attempts, 1 fault | unique and gapless rows, stored bytes, a request gives up only when overtaken; implements `VersionRegister`. The two requests of one process, the contents and the suffixes are exchangeable (symmetry) |
| `MCSchemaUpgrade` | 2 processes, 2 documents, 2 versions, 2 digests, 5 old schemas, unlimited crashes | the validation is complete, an upgraded database is sound and stays so, the upgrade is all or nothing |
| `MCModelCalls` | 3 requirements of 2 tenders, batches of 2, 1 proposal, 1 assessment saved by a tool in each call, 1 crash | the ledger is dense, in scope, explains what the service assessed, and misses at most one batch of calls per execution |
| `MCModelCallsLedgered` | the same | violation: a model call without a row in the ledger |

A module's type invariant is proved for every value of the constants and has no run. `BestIsTop`, the heap at every row,
`AttemptPerBoot`, `ReportedMatchesRun` and `ReportedAndFinal` (which follow from `JobLife`), `AnswersAgree` (which
`VersionRegister` says step by step) and `ExtractedUnlessKnown` are proved too, and have none either.

**Why the bounds are enough.** Two threads are all a check-then-act race needs, and a third would only repeat it: the
code has no state that counts them. Two jobs and two scopes give every relation of scopes and every order of an
interrupted and a later job. Three requirements in batches of two give a full batch, a short one, a commit with and
without a rest, and a resume inside and at the edge of a batch. Five attempts let each of three threads claim and one
be overtaken twice. In `MCReReview` two versions are an older and the newest: the code compares a version with no
other, and the proof is for any number. Three runs give a failed run, its repetition and one that is overtaken by a
version. In the search
two results of up to three chunks reach every branch of the heap with ties in score, version and piece; two pages or
blocks with up to three characters reach both thresholds, both ends of `chunk_text` and every order of heading and
content. In `MCIngestion` two threads of one process meet at its lock and a third in another meets them at the
constraints; two contents are a first and a second version, and with three attempts a request can be overtaken twice
and insert at last. The five schemas of `MCSchemaUpgrade` reach each branch of the upgrade: no database, tables without
columns, columns without constraints, everything but the newest triggers, and what lies between; two documents and two
versions are all that a constraint compares. In `MCModelCalls` a batch of two and a rest, an extraction, a crash
and a second execution give a number taken from flushed, committed and rolled back rows. Bounds on faults keep the state space small; the safety proofs hold for any number of them.

**Assumptions in constants.** One constant chooses what the environment does: `AgentStrays` (ReviewRun), whether the
agent's tools address requirements other than the one under review, as `_require_requirement` lets them. It is `TRUE` in
the passing run. No module has a constant that excludes what the code does. Where the code does not do what one would
like, the property names the exact circumstance instead, and TLC refutes it without that clause (section 5).

## 4. Fairness

- `ReviewQueue`: weak fairness of the worker's step, of the exit of a stopping process and of its start. The loop of
  `run_forever` polls without end, a handler's calls have timeouts, and a service is restarted by whoever runs it. A
  worker task that a database error ended is not fair: it takes no step, and `QueueDrains` says so.
- `ReviewRun`: weak fairness of the worker's step and of the restart, for the same reasons. The agent need not call
  a tool; its calls are bounded.
- `ParseAttempt`: weak fairness of each thread's step on an attempt it has claimed, as the parsers are bounded. Nothing
  makes a user upload again or a lease expire.
- Users, uploads, faults and lease expiry are never fair. The other modules state safety only: a request or a start may be abandoned anywhere.

## 5. Findings

Each is a run that TLC finds violated, with the quoted line in `PROJECT.json`:

1. `CompletedMeansNoDoubt`: a run resumed after a crash ends `completed` with a pending question from before it. In
   the trace, with one requirement, the resume point is `NULL` again, so the requirement is reviewed a second time,
   without a doubt; where committed requirements lie before the resume point they are not looked at. `DoubtsAwaited` is what does hold. The plan's sentence itself is proved of a run that nothing interrupts and whose
   agent calls no writing tool (`RunCompletedMeansNoDoubt`), so these two are the only ways around the local flag.
2. `MatrixExtracted`: a tender version is extracted into an empty matrix when it is reviewed again. The property asks
   only of extractions with a valid candidate. Of a version's first matrix it is proved (`MatrixExtractedUnlessKnown`).
3. `AttemptsLedgered`: a model call that fails during the extraction leaves no row, because the handler closes the
   session without a commit; in a review, a call whose row is out of scope leaves none either. What does hold is a bound
   (`MissedCallsBounded`): an execution leaves out one batch at most, namely its open batch and the call that has ended
   and is not committed when the process dies or the database fails.

**Observations.** Met while modelling. `OneActiveJobPerScope` and `FoundIsCitable` are stated in their modules, and TLC
refutes them when they are added to the named configuration:

- `OneActiveJobPerScope` (an INVARIANT added to `MCReviewQueue`): two concurrent start requests insert two jobs for one
  file scope. At most as many as there are threads (`DuplicatesBounded`), and they execute one after the other; with a
  single thread there is one (`QueueOneActiveJobPerScope`).
- `FoundIsCitable` (an INVARIANT added to `MCEvidenceSearch`): text before the first heading of a Word document is found
  and cannot be cited. The same rule in `agents/gates.py` (`missing_page`) rejects every requirement of a tender
  without headings.
- The design (`docs/superpowers/specs/2026-09-16-bid-guard-agent-design.md:215`) says that evidence of an old version
  cannot go on supporting a current status. The code does not ensure that: an agent may cite any parsed version of the
  proposal (`reviews.py:94`), and a run that is executed while a re-review is started saves its assessments after the
  invalidation, from the context it built before; only a later run that reviews the requirement again puts it right.
  `NoStaleSupport` is what holds: such a run exists and succeeded, or nothing was executed during the request. It is
  about the newest version having been in the context, not about what the agent then chose to cite.
- A re-review whose request finds another's job (`decisions.py:451`) leaves its requirements without a conclusion and
  without a run, if that job has not got them: the second disjunct of `InvalidatedIsCovered`, which is violated without it.
- A re-review that failed leaves requirements without a conclusion, which a second one does not see: what is affected is
  computed from current assessments (`decisions.py:275`), and the first try has invalidated them.
- An extraction without a valid candidate saves nothing and makes nothing inactive (`requirements.py:137`), so the older
  tender's requirements stay active and are reviewed for the new tender (`reviews.py:390` does not look at it).
  `OwnTenderReviewed` and `NewestTenderShown` name this as the only way there.
- An upload whose database is busy after its version was committed goes round the loop, finds the version and answers
  `created = False`, though it created it (`ingestion.py:214-258`); if the parse was what failed, it may return a
  version that stays `parsing` until the lease expires. The first is `AskAgain` of `VersionRegister`, the second the
  clause of `broken` in `ParsingIsHeld`.
- The project summary (`services/projects.py:46`) joins requirements with all their current assessments. A requirement
  that two runs assessed is counted twice, while the list shows the newest.
- `save_assessment` replaces the evidence of an assessment that was loaded before; what another session committed in
  the meantime is not read again.
- A tender with more chunks than `max_batch_items` (20) always fails the extraction's first check.
- A requirement whose source is outside the context (an older tender's, after an extraction without a valid candidate) has its verdict committed
  by the failure path while its ledger row is refused. `AssessmentsLedgered` excludes it by its premise.
- Every PDF gets the issue `pdf_table_detection_unavailable`, so it is always `partial_failure` and never
  coverage-complete (as `docs/governance/task-6-constitution-impact.md` says); the complete-PDF branch of `search.py`
  is never taken for a report the parser made.
- `preflight_call` makes a fresh `CallBudget` for each call, so its limits never add up over calls.
- A job that awaits confirmation counts as active and nothing ends that.
- A confirmation text over 2000 characters is refused after its verdict was written.
- Two uploads that both read `pending` parse the version one after the other.

## 6. Proofs

The theorems are of the form `Spec => []P`, `Spec => [][A]_vars` or `Spec => Abstract!Spec`, for every value of the constants that their
assumptions allow (any number of threads, jobs, requirements, versions, attempts, faults; any batch size, any
documents). The argument of each module is one inductive invariant:

- `QueueInv` adds to the properties that the worker's job is the running one and a returned result is what its run
  committed, that absent jobs are a suffix of the ids, and that threads and worker belong to a started process.
  `SerialOrder` alone is not inductive: it needs that nobody else's row is `running` when the worker claims. `DuplicatesBounded` is inductive beside it, by the
  cardinalities of two sets; it assumes that the threads are finitely many. With one thread it gives what the
  docstring of `start_review` says (`QueueOneActiveJobPerScope`).
- `QueueImplementsLife` takes any one job and maps each step of the queue to a step of `JobLife` or a stutter: a step of the
  worker is one of the job it holds and leaves every other job's row and stage alone (`LifeUntouched`), and the start-up
  requeues only jobs without a worker (`QueueInv`). `QueueJobsKeepLife` says it of all jobs in one formula, which is what
  TLC checks. `RunImplementsLife` is the same for the run, where a step of `JobLife` is a commit of the run's status
  (`CommittedStatus`) and everything in between, tool calls and batch commits, is a stutter. What follows from `JobLife`
  alone is proved once (`LifeReportsAndEnds`) and holds of the run (`RunReportsAndEnds`): success is only reported where
  the run has it, and a settled job stays.
- `RunInv` relates `db` and `tx` (what is flushed and not committed is the open batch), and says that the committed
  reviews are exactly those before the resume point, or all. From it follow `NoRequirementSkipped` and
  `ResumePointSound`, and that each commit is a step `Advance` of `ReviewProgress` (`RunImplementsProgress`); the
  follow-ups are a relation on the rows that every write keeps, in `db` and `tx` alike. `DoubtInv` adds what the local
  flag knows of the committed rows, and gives `DoubtsAwaited`; `QuestionInv`, with no fault and no tool call, adds that
  nothing is reviewed twice, so that every pending question is that of an accepted doubt
  (`RunCompletedMeansNoDoubt`). `SatisfiedIsSupported` is about the operators of `StatusRules`:
  what passes the gate and is displayed as satisfied is matched and cites evidence.
- `ParseInv` says that the version is `parsing` exactly when it has a token, the token is the newest attempt's, the
  stored chunks are older than it, and the stored coverage is the file's. `NewestWins` then follows from the test
  of the token in `_finalize_parse_attempt`.
- `ParsingIsHeld` is part of `ParseInv` with its clause of `broken`: a fault takes from a thread at most the attempt
  that holds the row, so every other attempt that holds it is still some thread's.
- `OrderInv` (ReReview) orders the runs: they start in the order of their rows and only started ones have left
  assessments; that gives `NoResurfacing`. `CoverInv` adds `InvalidatedIsCovered`, which is inductive beside it: an
  invalidation puts the requirements into a run or into `reused`, a review makes one current, and a run that ends early
  has failed. `FreshInv` adds what is known of the newest version: the run in execution has seen the version of every run
  up to it (`WorkerFresh`); a run of the newest version has come to a requirement only if what is shown of it saw that
  version (`RunsFresh`); a request that is alone has computed all that is cited (`RequestAlone`), and from the insertion
  of its run on all that is cited saw the newest version (`AloneFresh`). It gives `NoStaleSupport`, without an assumption
  on the order of requests and runs or on what the agent cites.
- `MatrixInv` gives `OneTenderMatrix` from the fact that a batch is saved together with the deactivation of the
  others; `ScopeInv` adds what each stage of a job knows of the matrix, unless the job's run is `fruitless`
  (`StageSound`).
- `SearchInv` is that the heap holds the top of the rows read (`BestIsTop`). Its step needs that the heap's order is
  strict, total and the reverse of the final sort's (`HeapOrder`), and that a heap has a root and a finite set can be
  sorted, both from the well-foundedness of strict inclusion. `ResultIsExact` follows by counting. The two
  judgements of a report (`ReportIsTrue`, `FlagAgreesWithStatus`) need no invariant but the types: the least piece that
  reaches a character has it (`PiecesCover`), and sections are numbered by the blocks that open them, so each has an
  opener (`SectionHasOpener`). A PDF never counts as parsed; for a Word document both judgements say that no issue
  is left, and then every opener is a text.
- `IngestInv` says what a thread knows by its step: what it has read is committed, what it is about to insert is
  published, and the number it computed was free when it computed it; `GivesUpOnlyOvertaken` needs that each failed
  attempt, without faults, has met one more row of the same key (`Overtaken`). `IngestImplementsRegister` maps every step to
  one of `VersionRegister` or a stutter: the commit of a version is where a content is registered (`CommitMakes`: the
  number computed earlier still continues the others, or the constraints would have refused it), the end of a request
  its answer, and looks, retries and files are invisible (`GoesOnAnswers`), but for a request that finds the version it has
  committed itself: it asks again (`ReuseAsksAgain`).
- `UpgradeInv` follows the open transaction statement by statement (`WorkAt`): what its features enforce holds of its
  rows, and from the validation on they are those that were validated, as the lock is held. `UpgradeSucceeds` is that
  each later statement's condition follows from the checks, `UpgradeAtomic` that the schema only changes by a commit
  of the whole and that no row is changed but for a missing digest.

- `CallsInv` (ModelCalls) says of the committed rows and of those the session sees alike that they are numbered without a
  gap, in scope, and explain the assessments (`RowsKept`), so that a commit and a rollback both keep it, and of the
  execution that its context is in scope and lacks proposals only (`ExecutionSound`). The number a row gets is then one
  more than there are rows (`NumberIsNext`), also where a rollback has taken some away. `CallsCounted`
  adds that the open batch is shorter than `BatchSize` and counts the calls against the rows of the session and the one
  call that may have ended without a row yet (`Ended`); summed over the executions that crashes begin, it gives
  `MissedCallsBounded`.

**Only model-checked:** the liveness properties `QueueDrains`, `ReviewSettles`, `ParsingEnds`, as liveness under fairness
and ENABLED are out of the prover's reach; so is induction over data. All safety properties of the passing runs are
proved, and so are the refinements.

## 7. Not modelled, and why

- The model provider and the agent SDK: a library's work; a call succeeds, fails or calls tools.
- Settings and domain types: values that are read once; validation of single values.
- `record_decision` and `complete_action_item`: each writes one row that no other part of the program reads. Two
  requests that complete one item at once may both succeed; the later name and time stay.
- The limits of a single model call (turns, tools, tokens, cost): the budget is made anew for every call, so a call
  that exceeds them is a call that failed, which `ReviewRun` and `ModelCalls` have.
- Routes and their validation, the project summary and the body limit: a counter within one request.
- The tools that only read (`get_document_page`, `search_company_evidence`).
- The frontend: a static page that calls no endpoint of the review.
- PDF and Word reading: a library's work below the page and the block. The package checks and resource limits fail
  the whole attempt, which is an outcome of `ParseAttempt`.
- Tokenizing and scoring text: data; the score is any number.
- SQLite's write lock, held from the first flush to the commit across the agent's calls: its effect on others is a
  database error, which `ReviewQueue` and `ParseAttempt` have at every step that writes.

## 8. Order of work and what is left

Done in this order: queue, run, parse attempts, re-review, tender matrix, coverage and search, status rules, ingestion,
schema upgrade, ledger, the interface of queue and run, the register of versions; each with its proofs. What could follow:

1. The extraction of `TenderMatrix` and the parsing of `ParseAttempt` as stages of `JobLife`, before the review.
2. `BodyLimit`: the middleware's counter, its two answers and the draining of a refused body.
