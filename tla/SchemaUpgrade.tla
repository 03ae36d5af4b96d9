----------------------------- MODULE SchemaUpgrade -----------------------------
(***************************************************************************)
(* The start of the application on a local database of an earlier release  *)
(* (persistence/schema.py ensure_schema): under SQLite's write lock the    *)
(* missing tables are created, the old rows validated, columns added,      *)
(* company digests filled in, unique indexes and triggers installed, and   *)
(* all of it committed at once or not at all.                              *)
(*                                                                         *)
(* The schema is the set of features the code asks sqlite_schema for.      *)
(* Several processes may start, crash and start again, and a process of    *)
(* the earlier release may still be writing.  Sizes, chunk texts and       *)
(* decisions are left out: their features are there, their rows are not.   *)
(***************************************************************************)
EXTENDS Naturals

CONSTANTS
    Processes,
    Ids, Numbers,       \* of documents, and of versions in a document
    Projects,
    Roles,              \* tender and proposal
    Digests,
    OldSchemas,         \* of the databases that a start may find
    None

Company == "company"

Uniques == {"project role unique", "company digest unique", "version digest unique"}

DocumentFeatures ==
    {"documents", "digest", "columns", "identity", "version size"} \cup Uniques

Features == DocumentFeatures \cup {"chunks", "chunk content", "history", "reference"}

\* What _migration_needed looks for, once the tables are there.
Required == Features \ {"reference"}

\* Base.metadata.create_all: only tables that are missing.
Created(s) ==
    s \cup (IF "documents" \in s THEN {} ELSE DocumentFeatures)
      \cup (IF "chunks" \in s THEN {} ELSE {"chunks", "chunk content"})

\* A database of an earlier release lacks more than tables; NULL is no value.
ASSUME SchemaAssumption ==
    /\ \A s \in OldSchemas : s \subseteq Features /\ ~(Required \subseteq Created(s))
    /\ Company \notin Roles
    /\ None \notin Projects \cup Digests \cup Processes
    /\ None \notin [project : Projects \cup {None}, role : Roles \cup {Company},
                    digest : Digests \cup {None}]

VARIABLES
    documents,  \* the committed rows of documents
    versions,   \* and of document_versions
    schema,     \* the committed schema
    work,       \* what the open transaction of ensure_schema sees, or None
    holder,     \* the process that has the write lock, or None
    step        \* where each process is

db == <<documents, versions, schema>>
vars == <<db, work, holder, step>>

Rows == [project : Projects \cup {None}, role : Roles \cup {Company},
         digest : Digests \cup {None}]
Documents == [Ids -> Rows \cup {None}]
Versions == [Ids -> [Numbers -> Digests \cup {None}]]
Databases == [documents : Documents, versions : Versions, schema : SUBSET Features]

Upgrading == {"create", "decide", "alter", "backfill", "index", "guard", "verify",
              "finish", "commit"}
Waiting == {"down", "stopped", "failed"}
Steps == Upgrading \cup Waiting \cup {"up"}

-----------------------------------------------------------------------------
(* Rows.                                                                   *)

Stored(D) == {i \in Ids : D[i] # None}
Companies(D) == {i \in Stored(D) : D[i].role = Company}
VersionsOf(V, i) == {n \in Numbers : V[i][n] # None}

\* The checks of the first release and of the current one.
LegacyIdentity(d) == d.project # None \/ d.role = Company

Identity(d) ==
    \/ d.role = Company /\ d.project = None /\ d.digest # None
    \/ d.role \in Roles /\ d.project # None /\ d.digest = None

\* The unique constraints; NULLs are distinct.
OnePerRole(D) == \A i, j \in Stored(D) :
    D[i].project # None /\ D[i].project = D[j].project /\ D[i].role = D[j].role
    => i = j

OnePerDigest(D) == \A i, j \in Stored(D) :
    D[i].digest # None /\ D[i].digest = D[j].digest => i = j

OnePerContent(V) == \A i \in Ids : \A m, n \in VersionsOf(V, i) :
    V[i][m] = V[i][n] => m = n

\* What the features enforce, beside the keys.
Admits(s, D, V) ==
    /\ \A i \in Ids : VersionsOf(V, i) # {} => i \in Stored(D)
    /\ \A i \in Stored(D) :
        /\ "documents" \in s
        /\ IF "identity" \in s THEN Identity(D[i]) ELSE LegacyIdentity(D[i])
        /\ D[i].digest # None => "digest" \in s
    /\ "project role unique" \in s => OnePerRole(D)
    /\ "company digest unique" \in s => OnePerDigest(D)
    /\ "version digest unique" \in s => OnePerContent(V)

\* Mutated forms of the definitions below, each a plausible slip.
AnyDigests(D, V) == TRUE
AnyContents(D, V) == TRUE
AutoCommitted(w) ==
    /\ work' = w
    /\ documents' = w.documents /\ versions' = w.versions /\ schema' = w.schema
    /\ UNCHANGED holder

\* _validate_legacy_data, check by check.
ValidIdentity(d) ==
    \/ d.role = Company /\ d.project = None
    \/ d.role \in Roles /\ d.project # None

NoProjectDigest(D) == \A i \in Stored(D) : D[i].role \in Roles => D[i].digest = None

OneVersionEach(D, V) == \A i \in Companies(D) :
    \E n \in Numbers : VersionsOf(V, i) = {n}

OneCompanyPerContent(D, V) == \A i, j \in Companies(D) :
    \A m \in VersionsOf(V, i), n \in VersionsOf(V, j) : V[i][m] = V[j][n] => i = j

DigestsMatch(D, V) == \A i \in Companies(D) :
    D[i].digest # None => \A n \in VersionsOf(V, i) : D[i].digest = V[i][n]

Validated(D, V) ==
    /\ \A i \in Stored(D) : ValidIdentity(D[i])
    /\ NoProjectDigest(D)
    /\ OnePerRole(D)
    /\ OneVersionEach(D, V)
    /\ OneCompanyPerContent(D, V)
    /\ OnePerContent(V)
    /\ DigestsMatch(D, V)

\* The backfill of company_content_sha256 with a version's sha256.
Content(V, i) == IF VersionsOf(V, i) = {} THEN None
                 ELSE V[i][CHOOSE n \in Numbers : n \in VersionsOf(V, i)]

Unfilled(D) == {i \in Companies(D) : D[i].digest = None}

Filled(D, V) == [i \in Ids |->
    IF i \in Unfilled(D) THEN [D[i] EXCEPT !.digest = Content(V, i)] ELSE D[i]]

-----------------------------------------------------------------------------
(* ensure_schema, in the transaction that BEGIN IMMEDIATE opened.          *)

Needed(s) == ~(Required \subseteq s)

\* A statement of the transaction: nobody else sees it.
Executed(w) == work' = w /\ UNCHANGED <<db, holder>>

Goes(p, from, to) == step[p] = from /\ step' = [step EXCEPT ![p] = to]

RolledBack == work' = None /\ holder' = None /\ UNCHANGED db

\* A process starts, unless another has the lock for longer than the driver
\* waits: that error is not caught, and ends the start.
Begin(p) ==
    /\ step[p] \in Waiting
    /\ holder = None
    /\ holder' = p
    /\ work' = [documents |-> documents, versions |-> versions, schema |-> schema]
    /\ step' = [step EXCEPT ![p] = "create"]
    /\ UNCHANGED db

Busy(p) ==
    /\ step[p] \in {"stopped", "failed"}
    /\ holder # None
    /\ step' = [step EXCEPT ![p] = "down"]
    /\ UNCHANGED <<db, work, holder>>

CreateAll(p) ==
    /\ Goes(p, "create", "decide")
    /\ Executed([work EXCEPT !.schema = Created(@)])

NothingToDo(p) ==
    /\ Goes(p, "decide", "finish")
    /\ ~Needed(work.schema)
    /\ UNCHANGED <<db, work, holder>>

Validate(p) ==
    /\ Goes(p, "decide", "alter")
    /\ Needed(work.schema)
    /\ Validated(work.documents, work.versions)
    /\ UNCHANGED <<db, work, holder>>

\* _stop: the rows cannot be upgraded without a loss.
Stop(p) ==
    /\ Goes(p, "decide", "stopped")
    /\ Needed(work.schema)
    /\ ~Validated(work.documents, work.versions)
    /\ RolledBack

Alter(p) ==
    /\ Goes(p, "alter", "backfill")
    /\ Executed([work EXCEPT !.schema = @ \cup {"digest", "columns"}])

Fillable(w) == Admits(w.schema, Filled(w.documents, w.versions), w.versions)

Backfill(p) ==
    /\ Goes(p, "backfill", "index")
    /\ Fillable(work)
    /\ Executed([work EXCEPT !.documents = Filled(@, work.versions)])

Indexable(w) == /\ OnePerRole(w.documents) /\ OnePerDigest(w.documents)
                /\ OnePerContent(w.versions)

Index(p) ==
    /\ Goes(p, "index", "guard")
    /\ Indexable(work)
    /\ Executed([work EXCEPT !.schema = @ \cup Uniques])

\* The triggers stand in for the checks that an old table cannot be given.
Guard(p) ==
    /\ Goes(p, "guard", "verify")
    /\ Executed([work EXCEPT !.schema = @ \cup
            {"identity", "version size", "chunk content", "history"}])

Verify(p) ==
    /\ Goes(p, "verify", "finish")
    /\ ~Needed(work.schema)
    /\ UNCHANGED <<db, work, holder>>

\* SQLite refuses a statement, whatever the reason (a full disk, rows that
\* violate a constraint), or the result is not verified: rollback.
Fail(p) ==
    /\ step[p] \in Upgrading
    /\ step' = [step EXCEPT ![p] = "failed"]
    /\ RolledBack

Finish(p) ==
    /\ Goes(p, "finish", "commit")
    /\ Executed([work EXCEPT !.schema = @ \cup {"history", "reference"}])

Commit(p) ==
    /\ Goes(p, "commit", "up")
    /\ documents' = work.documents
    /\ versions' = work.versions
    /\ schema' = work.schema
    /\ work' = None
    /\ holder' = None

\* A process dies, or ends: SQLite undoes what it has not committed.
Crash(p) ==
    /\ step[p] \notin Waiting
    /\ step' = [step EXCEPT ![p] = "down"]
    /\ IF holder = p THEN RolledBack ELSE UNCHANGED <<db, work, holder>>

-----------------------------------------------------------------------------
(* Writers, which the lock keeps out of an upgrade.                        *)

\* A request of an application that is up inserts a document together with
\* its version, or a version of a project's document (services/ingestion.py).
Upload(p) ==
    /\ step[p] = "up"
    /\ holder = None
    /\ \E i \in Ids, d \in Rows, n \in Numbers, c \in Digests :
        /\ versions[i][n] = None
        /\ IF i \in Stored(documents) THEN d = documents[i] /\ d.role # Company
           ELSE d.role = Company => d.digest = c
        /\ documents' = [documents EXCEPT ![i] = d]
        /\ versions' = [versions EXCEPT ![i][n] = c]
    /\ Admits(schema, documents', versions')
    /\ UNCHANGED <<schema, work, holder, step>>

\* The earlier release, still running, inserts rows as it knows them.
LegacyWrite ==
    /\ holder = None
    /\ \/ \E i \in Ids \ Stored(documents), d \in Rows :
            /\ d.digest = None
            /\ documents' = [documents EXCEPT ![i] = d]
            /\ UNCHANGED versions
       \/ \E i \in Ids, n \in Numbers, c \in Digests :
            /\ versions[i][n] = None
            /\ versions' = [versions EXCEPT ![i][n] = c]
            /\ UNCHANGED documents
    /\ Admits(schema, documents', versions')
    /\ UNCHANGED <<schema, work, holder, step>>

-----------------------------------------------------------------------------
Init ==
    /\ schema \in OldSchemas
    /\ documents \in Documents
    /\ versions \in Versions
    /\ Admits(schema, documents, versions)
    /\ work = None
    /\ holder = None
    /\ step = [p \in Processes |-> "down"]

Start(p) ==
    \/ Begin(p)
    \/ Busy(p)
    \/ CreateAll(p)
    \/ NothingToDo(p)
    \/ Validate(p)
    \/ Stop(p)
    \/ Alter(p)
    \/ Backfill(p)
    \/ Index(p)
    \/ Guard(p)
    \/ Verify(p)
    \/ Fail(p)
    \/ Finish(p)
    \/ Commit(p)

Next ==
    \/ \E p \in Processes : Start(p) \/ Crash(p) \/ Upload(p)
    \/ LegacyWrite

Spec == Init /\ [][Next]_vars

-----------------------------------------------------------------------------
TypeOK ==
    /\ documents \in Documents
    /\ versions \in Versions
    /\ schema \subseteq Features
    /\ work \in Databases \cup {None}
    /\ holder \in Processes \cup {None}
    /\ step \in [Processes -> Steps]

\* The checks of the old rows are complete: once they have passed, the rows
\* cannot make SQLite refuse a later statement, and the result is verified.
ValidatedUpgradeSucceeds == \A p \in Processes :
    /\ step[p] = "backfill" => Fillable(work)
    /\ step[p] = "index" => Indexable(work)
    /\ step[p] = "verify" => ~Needed(work.schema)

\* No application is up on a schema that is not complete, and on a complete
\* one, whatever the rows it came from and whoever writes since: a company
\* document has the digest of a version of its own, which no other document
\* has, and a project has one document of a role.
UpgradedIsSound ==
    /\ \A p \in Processes : step[p] = "up" => ~Needed(schema)
    /\ ~Needed(schema) =>
        /\ \A i \in Stored(documents) : Identity(documents[i])
        /\ \A i \in Companies(documents) :
            \E n \in Numbers : documents[i].digest = versions[i][n]
        /\ OnePerRole(documents)
        /\ OnePerDigest(documents)
        /\ OnePerContent(versions)

\* A start changes the committed database all at once or not at all, crashes
\* included, and loses, merges and alters nothing: only the company digests
\* that were missing are new.
UpgradeIsAtomic ==
    [][ /\ schema' # schema => ~Needed(schema') /\ "reference" \in schema'
        /\ \A i \in Stored(documents) :
            \/ documents'[i] = documents[i]
            \/ /\ i \in Unfilled(documents)
               /\ ~Needed(schema')
               /\ documents'[i] = [documents[i] EXCEPT !.digest = documents'[i].digest]
        /\ \A i \in Ids : \A n \in VersionsOf(versions, i) :
            versions'[i][n] = versions[i][n]
      ]_db
===============================================================================
