------------------------------- MODULE Ingestion -------------------------------
(***************************************************************************)
(* Concurrent uploads of documents (services/ingestion.py _ingest,         *)
(* documents/storage.py): the look-up of the document and of the version   *)
(* with this content, the publication of the bytes in the content-         *)
(* addressed store, and the insertion of the rows, which unique            *)
(* constraints guard and a bounded loop repeats.                           *)
(*                                                                         *)
(* A thread is one request.  The lock of the module orders the threads of  *)
(* one process only.  A read is a statement of its own: SQLite's           *)
(* transaction begins with the first write and then excludes every other   *)
(* writer until the commit, so an insertion and its commit are one step.   *)
(* Names and sizes are left out; of the parsing that follows, which        *)
(* ParseAttempt models, only that the database may refuse it inside the    *)
(* loop's try block.  The project of a request exists.                     *)
(***************************************************************************)
EXTENDS Naturals

CONSTANTS
    Threads,            \* requests, each a pair of a process and a thread of it
    Project,            \* the document of the project's role
    Contents,           \* digests of contents, verified by the API
    Suffixes,           \* of the uploaded names
    MaxAttempts,        \* _MAX_DB_ATTEMPTS
    MaxFaults,          \* bound: crashes, database errors, files harmed
    None

ASSUME IngestionAssumption ==
    /\ Contents # {} /\ Suffixes # {}
    /\ MaxAttempts \in Nat \ {0}
    /\ MaxFaults \in Nat

VARIABLES
    documents,  \* the Document rows, as keys
    versions,   \* the DocumentVersion rows
    files,      \* the published files
    harmed,     \* history: files lost or damaged from outside
    upload,     \* what each thread has to ingest
    step,       \* where it is
    attempt,    \* the loop's counter
    target,     \* its bytes are published
    number,     \* the version number it has computed
    found,      \* the version it answers with
    created,    \* it will say that it has created that version
    faults      \* faults so far (bounded by MaxFaults)

store == <<files, harmed>>
local == <<upload, target, number>>
vars == <<documents, versions, store, local, step, attempt, found, created,
          faults>>

Processes == {t[1] : t \in Threads}
Keys == Contents \cup {Project}
Paths == Contents \X Suffixes
Rows == [key : Keys, number : Nat \ {0}, content : Contents, suffix : Suffixes]
Requests == {r \in [key : Keys, content : Contents, suffix : Suffixes] :
                r.key \in {Project, r.content}}

Reading == {"version", "count", "insert", "insertBoth"}   \* under the lock
Storing == {"store", "link", "ensure", "relink"}
Ended == {"done", "exhausted", "failed", "dead"}
Steps == {"idle", "begin", "parse"} \cup Reading \cup Storing \cup Ended

-----------------------------------------------------------------------------
(* Mutated forms of the definitions below, each a plausible slip.          *)

SameContent(v, t) == v.content = upload[t].content
TakenNumber(v) == \E w \in versions : w.key = v.key /\ w.number = v.number
StoreLater(t) == TRUE
IsLast(k, n) ==
    /\ \A v \in versions : v.key = k => v.number <= n
    /\ n = 1 \/ \E v \in versions : v.key = k /\ v.number = n

-----------------------------------------------------------------------------
(* Pieces of the code.                                                     *)

\* _INGESTION_LOCK is free for the thread.
Free(t) == \A s \in Threads : s[1] = t[1] => step[s] \notin Reading

PathOf(r) == <<r.content, r.suffix>>

\* _find_version
Matches(v, t) == v.key = upload[t].key /\ v.content = upload[t].content

\* There is a published file to insert a row for.
MayInsert(t) == target[t]

\* max(version_number) + 1
IsNext(k, n) ==
    /\ \A v \in versions : v.key = k => v.number < n
    /\ n = 1 \/ \E v \in versions : v.key = k /\ v.number = n - 1

\* The row that the thread inserts, and the constraints of document_versions.
RowOf(t, n) == [key |-> upload[t].key, number |-> n,
                content |-> upload[t].content, suffix |-> upload[t].suffix]

Taken(v) == \E w \in versions :
    w.key = v.key /\ (w.number = v.number \/ w.content = v.content)

\* An IntegrityError, or a database that is busy: rollback, and the loop goes
\* on, from its first read, unless this was the last attempt.
NextAttempt(t) ==
    /\ attempt' = [attempt EXCEPT ![t] = @ + 1]
    /\ step' = [step EXCEPT ![t] =
                  IF attempt[t] + 1 = MaxAttempts THEN "exhausted" ELSE "begin"]

Moves(t, to) == step' = [step EXCEPT ![t] = to]

-----------------------------------------------------------------------------
Start(t) ==
    /\ step[t] = "idle"
    /\ Moves(t, "begin")
    /\ UNCHANGED <<documents, versions, store, local, attempt, found, created,
                   faults>>

\* The lock is taken and _find_document reads.
FindDocument(t) ==
    /\ step[t] = "begin"
    /\ Free(t)
    /\ Moves(t, IF upload[t].key \in documents THEN "version"
                ELSE IF MayInsert(t) THEN "insertBoth" ELSE "store")
    /\ UNCHANGED <<documents, versions, store, local, attempt, found, created,
                   faults>>

\* _find_version: reuse, go on to insert, or give up the lock to store.  What
\* is reused may be what the thread itself has inserted in an earlier turn.
Reuse(t) ==
    /\ step[t] = "version"
    /\ \E v \in versions :
        /\ Matches(v, t)
        /\ found' = [found EXCEPT ![t] = v]
    /\ created' = [created EXCEPT ![t] = FALSE]
    /\ Moves(t, "ensure")
    /\ UNCHANGED <<documents, versions, store, local, attempt, faults>>

FindNoVersion(t) ==
    /\ step[t] = "version"
    /\ \A v \in versions : ~Matches(v, t)
    /\ Moves(t, IF MayInsert(t) THEN "count" ELSE "store")
    /\ UNCHANGED <<documents, versions, store, local, attempt, found, created,
                   faults>>

Count(t) ==
    /\ step[t] = "count"
    /\ \E n \in {1} \cup {v.number + 1 : v \in versions} :
        /\ IsNext(upload[t].key, n)
        /\ number' = [number EXCEPT ![t] = n]
    /\ Moves(t, "insert")
    /\ UNCHANGED <<documents, versions, store, upload, target, attempt, found,
                   created, faults>>

\* The insertion succeeds and is committed.
Committed(t, v) ==
    /\ versions' = versions \cup {v}
    /\ found' = [found EXCEPT ![t] = v]
    /\ created' = [created EXCEPT ![t] = TRUE]
    /\ Moves(t, "ensure")
    /\ UNCHANGED <<store, local, attempt, faults>>

InsertVersion(t) ==
    /\ step[t] = "insert"
    /\ ~Taken(RowOf(t, number[t]))
    /\ Committed(t, RowOf(t, number[t]))
    /\ UNCHANGED documents

\* A new document gets its first version in the same transaction.
InsertBoth(t) ==
    /\ step[t] = "insertBoth"
    /\ upload[t].key \notin documents
    /\ documents' = documents \cup {upload[t].key}
    /\ Committed(t, RowOf(t, 1))

\* A unique constraint refuses the document or the version.
Conflict(t) ==
    /\ \/ step[t] = "insert" /\ Taken(RowOf(t, number[t]))
       \/ step[t] = "insertBoth" /\ upload[t].key \in documents
    /\ NextAttempt(t)
    /\ UNCHANGED <<documents, versions, store, local, found, created, faults>>

-----------------------------------------------------------------------------
(* documents/storage.py, ensure_content: at the thread's own path before   *)
(* the insertion, at the stored path of the row after it.                  *)

Place(t) == IF step[t] \in {"store", "link"}
            THEN PathOf(upload[t]) ELSE PathOf(found[t])

\* The bytes are there, verified: store_content returns into the next turn
\* of the loop, and ensure_content to the parsing.
Stored(t) ==
    \/ /\ step[t] \in {"store", "link"}
       /\ target' = [target EXCEPT ![t] = TRUE]
       /\ NextAttempt(t)
    \/ /\ step[t] \in {"ensure", "relink"}
       /\ Moves(t, "parse")
       /\ UNCHANGED <<target, attempt>>

\* A file that exists is only verified.  A link that finds one is the same.
Exists(t) ==
    /\ step[t] \in Storing
    /\ files[Place(t)] = "intact"
    /\ Stored(t)
    /\ UNCHANGED <<documents, versions, store, upload, number, found, created,
                   faults>>

\* A damaged one is an integrity error, and is left alone.
Refuse(t) ==
    /\ step[t] \in Storing
    /\ files[Place(t)] = "damaged"
    /\ Moves(t, "failed")
    /\ UNCHANGED <<documents, versions, store, local, attempt, found, created,
                   faults>>

\* The bytes are copied to a temporary file and verified there ...
Copy(t) ==
    /\ step[t] \in {"store", "ensure"}
    /\ files[Place(t)] = "absent"
    /\ Moves(t, IF step[t] = "store" THEN "link" ELSE "relink")
    /\ UNCHANGED <<documents, versions, store, local, attempt, found, created,
                   faults>>

\* ... and linked to the final name in one step.
Link(t) ==
    /\ step[t] \in {"link", "relink"}
    /\ files[Place(t)] = "absent"
    /\ files' = [files EXCEPT ![Place(t)] = "intact"]
    /\ Stored(t)
    /\ UNCHANGED <<documents, versions, harmed, upload, number, found, created,
                   faults>>

\* The version is parsed, if it has to be, and returned.
Answer(t) ==
    /\ step[t] = "parse"
    /\ Moves(t, "done")
    /\ UNCHANGED <<documents, versions, store, local, attempt, found, created,
                   faults>>

-----------------------------------------------------------------------------
(* Faults.                                                                 *)

\* The database stays locked for longer than the driver waits, and the loop
\* goes on, also from what follows the commit of the version; or it fails
\* otherwise, and the error is the answer.
DatabaseError(t) ==
    /\ step[t] \in Reading \cup {"begin", "ensure", "parse"}
    /\ faults < MaxFaults
    /\ faults' = faults + 1
    /\ \/ NextAttempt(t)
       \/ Moves(t, "failed") /\ UNCHANGED attempt
    /\ UNCHANGED <<documents, versions, store, local, found, created>>

\* The file system refuses to write or to link.
StorageError(t) ==
    /\ step[t] \in Storing
    /\ faults < MaxFaults
    /\ faults' = faults + 1
    /\ Moves(t, "failed")
    /\ UNCHANGED <<documents, versions, store, local, attempt, found, created>>

\* A file is lost or damaged by somebody else.
Harm(p) ==
    /\ files[p] = "intact"
    /\ faults < MaxFaults
    /\ faults' = faults + 1
    /\ \E f \in {"absent", "damaged"} : files' = [files EXCEPT ![p] = f]
    /\ harmed' = harmed \cup {p}
    /\ UNCHANGED <<documents, versions, local, step, attempt, found, created>>

\* A process dies, with all its requests.
Crash(p) ==
    /\ faults < MaxFaults
    /\ faults' = faults + 1
    /\ step' = [t \in Threads |->
                  IF t[1] = p /\ step[t] \notin Ended THEN "dead" ELSE step[t]]
    /\ UNCHANGED <<documents, versions, store, local, attempt, found, created>>

-----------------------------------------------------------------------------
Init ==
    /\ documents = {}
    /\ versions = {}
    /\ files = [p \in Paths |-> "absent"]
    /\ harmed = {}
    /\ upload \in [Threads -> Requests]
    /\ step = [t \in Threads |-> "idle"]
    /\ attempt = [t \in Threads |-> 0]
    /\ target = [t \in Threads |-> FALSE]
    /\ number = [t \in Threads |-> 0]
    /\ found = [t \in Threads |-> None]
    /\ created = [t \in Threads |-> FALSE]
    /\ faults = 0

Turn(t) ==
    \/ FindDocument(t)
    \/ Reuse(t)
    \/ FindNoVersion(t)
    \/ Count(t)
    \/ InsertVersion(t)
    \/ InsertBoth(t)
    \/ Conflict(t)
    \/ Exists(t)
    \/ Refuse(t)
    \/ Copy(t)
    \/ Link(t)
    \/ Answer(t)

Next ==
    \/ \E t \in Threads : Start(t) \/ Turn(t) \/ DatabaseError(t) \/ StorageError(t)
    \/ \E p \in Paths : Harm(p)
    \/ \E p \in Processes : Crash(p)

Spec == Init /\ [][Next]_vars

-----------------------------------------------------------------------------
TypeOK ==
    /\ documents \subseteq Keys
    /\ versions \subseteq Rows
    /\ files \in [Paths -> {"absent", "intact", "damaged"}]
    /\ harmed \subseteq Paths
    /\ upload \in [Threads -> Requests]
    /\ step \in [Threads -> Steps]
    /\ attempt \in [Threads -> 0..MaxAttempts]
    /\ target \in [Threads -> BOOLEAN]
    /\ number \in [Threads -> Nat]
    /\ found \in [Threads -> Rows \cup {None}]
    /\ created \in [Threads -> BOOLEAN]
    /\ faults \in 0..MaxFaults

\* However uploads overlap in and across processes: one row per content and
\* one per number in a document, numbers without a gap, a document exactly
\* when it has a version, and a company document of its own content only.
RowsSound ==
    /\ \A v, w \in versions :
        /\ v.key = w.key
        /\ v.number = w.number \/ v.content = w.content
        => v = w
    /\ \A v \in versions : v.number > 1 =>
        \E w \in versions : w.key = v.key /\ w.number + 1 = v.number
    /\ documents = {v.key : v \in versions}
    /\ \A v \in versions : v.key \in {Project, v.content}

\* What VersionRegister, the uploads one after the other, says of these rows
\* and requests: what is committed, and what each request was told.
EntryOf(v) == [key |-> v.key, number |-> v.number, content |-> v.content]

StageOf(t) ==
    CASE step[t] = "idle" -> "idle"
      [] step[t] = "done" -> "answered"
      [] step[t] \in {"exhausted", "failed", "dead"} -> "gone"
      [] OTHER -> IF created[t] THEN "made" ELSE "asked"

AnswerOf(t) == IF step[t] = "done"
    THEN [entry |-> EntryOf(found[t]), made |-> created[t]] ELSE None

Entries == {EntryOf(v) : v \in versions}
Requested == [t \in Threads |-> [key |-> upload[t].key, content |-> upload[t].content]]
StagesOf == [t \in Threads |-> StageOf(t)]
Answers == [t \in Threads |-> AnswerOf(t)]

Register == INSTANCE VersionRegister WITH
    Clients <- Threads, NoAnswer <- None,
    register <- Entries, request <- Requested, stage <- StagesOf, answer <- Answers

\* However uploads overlap in and across processes, fail, retry and die, it is
\* as if each content were registered once, in one step: a request that ends
\* well answers with the committed version of what it brought, with the number
\* that continued its document's when it was made, and says that it has
\* created the version only if it has, and no other request says so.  (One
\* that has created it and is refused by the database after its commit goes
\* through the loop again, finds its own version and says that it was there.)
ImplementsRegister == Register!Spec

\* A row is never committed before its file is published, also when two
\* uploads of one content carry different suffixes and one of them loses; a
\* file is missing or damaged only if somebody else did it.
StoredUnlessHarmed ==
    \A v \in versions : files[PathOf(v)] = "intact" \/ PathOf(v) \in harmed

\* Without faults an upload gives up after its last attempt only if each
\* attempt after the first was overtaken by another upload's commit to the
\* same document: retries are never spent on its own stale numbers.
GivesUpOnlyOvertaken ==
    \A t \in Threads : step[t] = "exhausted" /\ faults = 0 =>
        \/ MaxAttempts = 1
        \/ \E v \in versions : v.key = upload[t].key /\ v.number >= MaxAttempts - 1
===============================================================================
