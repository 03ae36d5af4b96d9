------------------------- MODULE SchemaUpgrade_proofs --------------------------
(***************************************************************************)
(* Proofs about the upgrade of a local database, for any rows, any number  *)
(* of processes and any earlier schemas.                                   *)
(***************************************************************************)
EXTENDS SchemaUpgrade, TLAPS

\* The digest of a company document is the content of a version of its own.
Matched(D, V) == \A i \in Companies(D) : \E n \in Numbers : D[i].digest = V[i][n]

Sound(D, V) ==
    /\ \A i \in Stored(D) : Identity(D[i])
    /\ Matched(D, V)
    /\ OnePerRole(D)
    /\ OnePerDigest(D)
    /\ OnePerContent(V)

\* What the transaction has reached at each step of its process.
Basic == {"documents", "chunks", "digest", "columns"}

Untouched == work.documents = documents /\ work.versions = versions

Reworked ==
    /\ work.documents \in {documents, Filled(documents, versions)}
    /\ work.versions = versions
    /\ Sound(work.documents, work.versions)

WorkAt(k) ==
    /\ schema \subseteq work.schema
    /\ Admits(work.schema, work.documents, work.versions)
    /\ k = "create" => Untouched /\ work.schema = schema
    /\ k \in {"decide", "alter"} => Untouched /\ work.schema = Created(schema)
    /\ k = "backfill" => Untouched /\ Basic \subseteq work.schema
    /\ k \in {"alter", "backfill"} => Validated(documents, versions)
    /\ k \in {"index", "guard", "verify", "finish", "commit"} => Reworked
    /\ k \in {"index", "guard"} => Basic \subseteq work.schema
    /\ k = "guard" => Uniques \subseteq work.schema
    /\ k \in {"verify", "finish", "commit"} => ~Needed(work.schema)
    /\ k = "commit" => "reference" \in work.schema

\* Only the process with the lock upgrades, and what is up is upgraded.
Placed(p) ==
    /\ step[p] \in Upgrading => holder = p /\ WorkAt(step[p])
    /\ holder = p => step[p] \in Upgrading
    /\ step[p] = "up" => ~Needed(schema)

\* The inductive invariant.
UpgradeInv ==
    /\ TypeOK
    /\ schema \in OldSchemas \/ ~Needed(schema)
    /\ Admits(schema, documents, versions)
    /\ ~Needed(schema) => Matched(documents, versions)
    /\ holder # None => work \in Databases
    /\ \A p \in Processes : Placed(p)

-----------------------------------------------------------------------------
\* The checks of the old rows imply that the filled rows are sound.
LEMMA FilledFields ==
    ASSUME NEW D \in Documents, NEW V \in Versions, NEW i \in Ids
    PROVE  /\ Filled(D, V)[i] = IF i \in Unfilled(D)
                                THEN [D[i] EXCEPT !.digest = Content(V, i)] ELSE D[i]
           /\ i \in Stored(D) => D[i] \in Rows
           /\ i \in Stored(Filled(D, V)) <=> i \in Stored(D)
           /\ i \in Stored(D) =>
                /\ Filled(D, V)[i].project = D[i].project
                /\ Filled(D, V)[i].role = D[i].role
           /\ i \in Unfilled(D) => Filled(D, V)[i].digest = Content(V, i)
<1>1. Filled(D, V)[i] = IF i \in Unfilled(D)
                        THEN [D[i] EXCEPT !.digest = Content(V, i)] ELSE D[i]
  BY DEF Filled
<1>2. i \in Stored(D) => D[i] \in Rows
  BY DEF Stored, Documents
<1>3. i \in Unfilled(D) => i \in Stored(D)
  BY DEF Unfilled, Companies
<1>4. ASSUME i \in Unfilled(D)
      PROVE  /\ Filled(D, V)[i].project = D[i].project
             /\ Filled(D, V)[i].role = D[i].role
             /\ Filled(D, V)[i].digest = Content(V, i)
             /\ Filled(D, V)[i] # None
  <2>1. D[i] \in Rows /\ Filled(D, V)[i] = [D[i] EXCEPT !.digest = Content(V, i)]
    BY <1>1, <1>2, <1>3, <1>4
  <2>2. Content(V, i) \in Digests \cup {None}
    BY DEF Content, VersionsOf, Versions
  <2>3. [D[i] EXCEPT !.digest = Content(V, i)] \in Rows
    BY <2>1, <2>2 DEF Rows
  <2> QED
    BY <2>1, <2>3, SchemaAssumption DEF Rows
<1> QED
  BY <1>1, <1>2, <1>3, <1>4 DEF Stored

LEMMA ContentIs ==
    ASSUME NEW V \in Versions, NEW i \in Ids, NEW n \in Numbers,
           VersionsOf(V, i) = {n}
    PROVE  Content(V, i) = V[i][n] /\ Content(V, i) \in Digests
<1>1. (CHOOSE m \in Numbers : m \in VersionsOf(V, i)) = n
  OBVIOUS
<1>2. V[i][n] # None /\ V[i][n] \in Digests
  BY DEF VersionsOf, Versions
<1> QED
  BY <1>1, <1>2 DEF Content

LEMMA FilledSound ==
    ASSUME NEW D \in Documents, NEW V \in Versions, Validated(D, V)
    PROVE  Sound(Filled(D, V), V)
<1> DEFINE F == Filled(D, V)
<1>1. ASSUME NEW i \in Ids
      PROVE  i \in Companies(F) <=> i \in Companies(D)
  <2>1. i \in Stored(F) <=> i \in Stored(D)
    BY FilledFields
  <2>2. i \in Stored(D) => F[i].role = D[i].role
    BY FilledFields
  <2> QED
    BY <2>1, <2>2 DEF Companies
<1>2. ASSUME NEW i \in Companies(D)
      PROVE  /\ F[i].digest \in Digests
             /\ \E n \in Numbers : VersionsOf(V, i) = {n} /\ F[i].digest = V[i][n]
  <2>1. i \in Ids /\ i \in Stored(D)
    BY DEF Companies, Stored
  <2>2. PICK n \in Numbers : VersionsOf(V, i) = {n}
    BY DEF Validated, OneVersionEach
  <2>3. Content(V, i) = V[i][n] /\ Content(V, i) \in Digests
    BY <2>1, <2>2, ContentIs
  <2>4. CASE i \in Unfilled(D)
    BY <2>1, <2>2, <2>3, <2>4, FilledFields
  <2>5. CASE i \notin Unfilled(D)
    <3>1. F[i] = D[i] /\ D[i].digest # None
      BY <2>1, <2>5, FilledFields DEF Unfilled
    <3>2. D[i].digest = V[i][n]
      BY <3>1, <2>2 DEF Validated, DigestsMatch
    <3> QED
      BY <3>1, <3>2, <2>2, <2>3
  <2> QED
    BY <2>4, <2>5
<1>3. ASSUME NEW i \in Stored(F) PROVE Identity(F[i])
  <2>1. i \in Ids /\ i \in Stored(D) /\ ValidIdentity(D[i])
    BY FilledFields DEF Validated, Stored
  <2>2. CASE D[i].role = Company
    <3>1. i \in Companies(D)
      BY <2>1, <2>2 DEF Companies
    <3>2. F[i].digest # None
      BY <3>1, <1>2, SchemaAssumption
    <3> QED
      BY <2>1, <2>2, <3>2, FilledFields, SchemaAssumption DEF ValidIdentity, Identity
  <2>3. CASE D[i].role # Company
    <3>1. i \notin Unfilled(D)
      BY <2>3 DEF Unfilled, Companies
    <3>2. F[i] = D[i]
      BY <2>1, <3>1, FilledFields
    <3> QED
      BY <2>1, <2>3, <3>2 DEF ValidIdentity, Identity, Validated, NoProjectDigest
  <2> QED
    BY <2>2, <2>3
<1>4. Matched(F, V)
  BY <1>1, <1>2 DEF Matched, Companies, Stored
<1>5. OnePerRole(F)
  <2>1. \A i \in Stored(F) : /\ i \in Stored(D)
                             /\ F[i].project = D[i].project /\ F[i].role = D[i].role
    BY FilledFields DEF Stored
  <2> HIDE DEF F
  <2> QED
    BY <2>1 DEF Validated, OnePerRole
<1>6. ASSUME NEW i \in Stored(F), NEW j \in Stored(F), F[i].digest # None,
             F[i].digest = F[j].digest
      PROVE  i = j
  <2>1. F[i].role = Company /\ F[j].role = Company
    BY <1>3, <1>6 DEF Identity
  <2>2. i \in Companies(D) /\ j \in Companies(D)
    BY <2>1, <1>1 DEF Companies, Stored
  <2>3. PICK m \in Numbers : VersionsOf(V, i) = {m} /\ F[i].digest = V[i][m]
    BY <2>2, <1>2
  <2>4. PICK n \in Numbers : VersionsOf(V, j) = {n} /\ F[j].digest = V[j][n]
    BY <2>2, <1>2
  <2>5. V[i][m] = V[j][n]
    BY <1>6, <2>3, <2>4
  <2>6. m \in VersionsOf(V, i) /\ n \in VersionsOf(V, j)
    BY <2>3, <2>4
  <2> QED
    BY <2>2, <2>5, <2>6 DEF Validated, OneCompanyPerContent
<1>7. OnePerDigest(F)
  BY <1>6 DEF OnePerDigest
<1> QED
  BY <1>3, <1>4, <1>5, <1>7 DEF Sound, Validated

\* Sound rows are refused by no feature.
LEMMA SoundAdmitted ==
    ASSUME NEW D, NEW V, NEW s, Sound(D, V), {"documents", "digest"} \subseteq s,
           \A i \in Ids : VersionsOf(V, i) # {} => i \in Stored(D)
    PROVE  Admits(s, D, V)
<1>1. \A i \in Stored(D) : Identity(D[i]) /\ LegacyIdentity(D[i])
  BY DEF Sound, Identity, LegacyIdentity
<1> QED
  BY <1>1 DEF Sound, Admits

\* A complete schema makes admitted and matched rows sound.
LEMMA AdmittedSound ==
    ASSUME NEW D, NEW V, NEW s, Admits(s, D, V), Matched(D, V), ~Needed(s)
    PROVE  Sound(D, V)
BY DEF Admits, Sound, Needed, Required, Features, DocumentFeatures, Uniques

-----------------------------------------------------------------------------
LEMMA InitInv == Init => UpgradeInv
<1> SUFFICES ASSUME Init PROVE UpgradeInv
  OBVIOUS
<1>1. schema \subseteq Features /\ Needed(schema) /\ schema \in OldSchemas
  BY SchemaAssumption DEF Init, Needed, Created
<1>2. TypeOK
  BY <1>1 DEF Init, TypeOK, Steps, Waiting
<1>3. \A p \in Processes : step[p] = "down" /\ holder # p
  BY SchemaAssumption DEF Init
<1> QED
  BY <1>1, <1>2, <1>3 DEF Init, UpgradeInv, Placed, Upgrading

\* The copy of the database that a transaction works on.
LEMMA WorkFields ==
    ASSUME work \in Databases
    PROVE  /\ work.documents \in Documents /\ work.versions \in Versions
           /\ work.schema \subseteq Features
           /\ \A s \in SUBSET Features :
                /\ [work EXCEPT !.schema = s] \in Databases
                /\ [work EXCEPT !.schema = s].documents = work.documents
                /\ [work EXCEPT !.schema = s].versions = work.versions
                /\ [work EXCEPT !.schema = s].schema = s
           /\ \A D \in Documents :
                /\ [work EXCEPT !.documents = D] \in Databases
                /\ [work EXCEPT !.documents = D].documents = D
                /\ [work EXCEPT !.documents = D].versions = work.versions
                /\ [work EXCEPT !.documents = D].schema = work.schema
BY DEF Databases

LEMMA FilledType ==
    ASSUME NEW D \in Documents, NEW V \in Versions
    PROVE  Filled(D, V) \in Documents
<1>1. ASSUME NEW i \in Ids PROVE Filled(D, V)[i] \in Rows \cup {None}
  <2>1. D[i] \in Rows \cup {None} /\ Content(V, i) \in Digests \cup {None}
    BY DEF Documents, Content, VersionsOf, Versions
  <2>2. i \in Unfilled(D) => D[i] \in Rows
    BY <2>1 DEF Unfilled, Companies, Stored
  <2> QED
    BY <2>1, <2>2 DEF Filled, Rows
<1> QED
  BY <1>1 DEF Filled, Documents

LEMMA CreatedFeatures ==
    ASSUME NEW s \in SUBSET Features
    PROVE  /\ Created(s) \subseteq Features /\ s \subseteq Created(s)
           /\ {"documents", "chunks"} \subseteq Created(s)
BY DEF Created, Features, DocumentFeatures, Uniques

\* The rows of a transaction stay admitted when create_all adds features: the
\* tables it creates are empty.
LEMMA CreatedAdmits ==
    ASSUME NEW D, NEW V, NEW s, Admits(s, D, V)
    PROVE  Admits(Created(s), D, V)
<1>1. CASE "documents" \in s
  BY <1>1 DEF Admits, Created, Uniques
<1>2. CASE "documents" \notin s
  <2>1. Stored(D) = {}
    BY <1>2 DEF Admits
  <2>2. \A i \in Ids : VersionsOf(V, i) = {}
    BY <2>1, <1>2 DEF Admits
  <2>3. OnePerRole(D) /\ OnePerDigest(D) /\ OnePerContent(V)
    BY <2>1, <2>2 DEF OnePerRole, OnePerDigest, OnePerContent
  <2> QED
    BY <2>1, <2>2, <2>3 DEF Admits
<1> QED
  BY <1>1, <1>2

-----------------------------------------------------------------------------
\* A step inside the transaction of p keeps the invariant when it leaves its
\* work as the next step expects it.
LEMMA Inside ==
    ASSUME UpgradeInv, NEW p \in Processes, holder = p, NEW k \in Upgrading,
           step' = [step EXCEPT ![p] = k], UNCHANGED <<db, holder>>,
           work' \in Databases, WorkAt(k)'
    PROVE  UpgradeInv'
<1>1. TypeOK'
  BY DEF UpgradeInv, TypeOK, db, Steps
<1>2. ASSUME NEW q \in Processes PROVE Placed(q)'
  <2>1. CASE q = p
    <3>1. step'[q] = k
      BY <2>1 DEF UpgradeInv, TypeOK
    <3>2. k # "up"
      BY DEF Upgrading
    <3> QED
      BY <2>1, <3>1, <3>2 DEF Placed
  <2>2. CASE q # p
    <3>1. step'[q] = step[q] /\ schema' = schema /\ step[q] \notin Upgrading
      BY <2>2 DEF UpgradeInv, TypeOK, Placed, db
    <3> QED
      BY <2>2, <3>1 DEF UpgradeInv, Placed
  <2> QED
    BY <2>1, <2>2
<1> QED
  BY <1>1, <1>2 DEF UpgradeInv, db

\* A rollback leaves the committed database as it was.
LEMMA Undone ==
    ASSUME UpgradeInv, NEW p \in Processes, holder = p, NEW k \in Waiting,
           step' = [step EXCEPT ![p] = k], RolledBack
    PROVE  UpgradeInv'
<1>1. TypeOK' /\ holder' = None
  BY DEF UpgradeInv, TypeOK, RolledBack, db, Steps
<1>2. ASSUME NEW q \in Processes PROVE Placed(q)'
  <2>1. step'[q] \notin Upgrading /\ (step'[q] = "up" => step[q] = "up")
    BY DEF UpgradeInv, TypeOK, Placed, Waiting, Upgrading
  <2>2. holder' # q /\ schema' = schema
    BY <1>1, SchemaAssumption DEF RolledBack, db
  <2> QED
    BY <2>1, <2>2 DEF UpgradeInv, Placed
<1> QED
  BY <1>1, <1>2 DEF UpgradeInv, RolledBack, db

LEMMA Upgrades ==
    ASSUME UpgradeInv, NEW p \in Processes, step[p] \in Upgrading
    PROVE  /\ holder = p /\ WorkAt(step[p]) /\ work \in Databases
           /\ schema \subseteq Features /\ work.schema \subseteq Features
           /\ documents \in Documents /\ versions \in Versions
<1>1. holder = p /\ WorkAt(step[p]) /\ holder # None
  BY SchemaAssumption DEF UpgradeInv, Placed
<1> QED
  BY <1>1, WorkFields DEF UpgradeInv, TypeOK

LEMMA CreateStep ==
    ASSUME UpgradeInv, NEW p \in Processes, CreateAll(p)
    PROVE  UpgradeInv'
<1> DEFINE w == [work EXCEPT !.schema = Created(work.schema)]
<1>1. step[p] = "create" /\ step' = [step EXCEPT ![p] = "decide"]
      /\ work' = w /\ UNCHANGED <<db, holder>>
  BY DEF CreateAll, Goes, Executed
<1>2. /\ holder = p /\ WorkAt("create") /\ work \in Databases /\ schema \subseteq Features
      /\ work.schema \subseteq Features
  BY <1>1, Upgrades DEF Upgrading
<1>3. /\ work' \in Databases /\ work'.documents = work.documents
      /\ work'.versions = work.versions /\ work'.schema = Created(work.schema)
  BY <1>1, <1>2, WorkFields, CreatedFeatures
<1>4. WorkAt("decide")'
  BY <1>1, <1>2, <1>3, CreatedFeatures, CreatedAdmits DEF WorkAt, Untouched, db
<1> QED
  BY <1>1, <1>2, <1>3, <1>4, Inside DEF Upgrading

LEMMA DecideStep ==
    ASSUME UpgradeInv, NEW p \in Processes, NothingToDo(p) \/ Validate(p) \/ Stop(p)
    PROVE  UpgradeInv'
<1>1. step[p] = "decide"
  BY DEF NothingToDo, Validate, Stop, Goes
<1>2. holder = p /\ WorkAt("decide") /\ work \in Databases /\ schema \subseteq Features
  BY <1>1, Upgrades DEF Upgrading
<1>3. CASE NothingToDo(p)
  <2>1. step' = [step EXCEPT ![p] = "finish"] /\ UNCHANGED <<db, work, holder>>
        /\ ~Needed(work.schema)
    BY <1>3 DEF NothingToDo, Goes
  <2>2. ~Needed(schema)
    BY <1>2, <2>1, SchemaAssumption DEF UpgradeInv, WorkAt, Needed
  <2>3. Reworked
    BY <1>2, <2>2, AdmittedSound DEF UpgradeInv, WorkAt, Reworked, Untouched
  <2>4. WorkAt("finish")'
    BY <1>2, <2>1, <2>3 DEF WorkAt, Reworked, db
  <2> QED
    BY <1>2, <2>1, <2>4, Inside DEF Upgrading
<1>4. CASE Validate(p)
  <2>1. step' = [step EXCEPT ![p] = "alter"] /\ UNCHANGED <<db, work, holder>>
        /\ Validated(documents, versions)
    BY <1>2, <1>4 DEF Validate, Goes, WorkAt, Untouched
  <2>2. WorkAt("alter")'
    BY <1>2, <2>1 DEF WorkAt, Untouched, db
  <2> QED
    BY <1>2, <2>1, <2>2, Inside DEF Upgrading
<1>5. CASE Stop(p)
  BY <1>2, <1>5, Undone DEF Stop, Goes, Waiting
<1> QED
  BY <1>3, <1>4, <1>5

LEMMA AlterStep ==
    ASSUME UpgradeInv, NEW p \in Processes, Alter(p)
    PROVE  UpgradeInv'
<1> DEFINE s == work.schema \cup {"digest", "columns"}
<1>1. step[p] = "alter" /\ step' = [step EXCEPT ![p] = "backfill"]
      /\ work' = [work EXCEPT !.schema = s] /\ UNCHANGED <<db, holder>>
  BY DEF Alter, Goes, Executed
<1>2. /\ holder = p /\ WorkAt("alter") /\ work \in Databases /\ schema \subseteq Features
      /\ work.schema \subseteq Features
  BY <1>1, Upgrades DEF Upgrading
<1>3. s \subseteq Features
  BY <1>2 DEF Features, DocumentFeatures
<1>4. /\ work' \in Databases /\ work'.documents = work.documents
      /\ work'.versions = work.versions /\ work'.schema = s
  BY <1>1, <1>2, <1>3, WorkFields
<1>5. Basic \subseteq s
  BY <1>2, CreatedFeatures DEF WorkAt, Basic
<1>6. Admits(s, work.documents, work.versions)
  BY <1>2 DEF WorkAt, Admits, Uniques
<1> HIDE DEF s
<1>7. WorkAt("backfill")'
  <2>1. schema \subseteq s
    BY <1>2 DEF WorkAt, s
  <2> QED
    BY <2>1, <1>1, <1>2, <1>4, <1>5, <1>6 DEF WorkAt, Untouched, db
<1> QED
  BY <1>1, <1>2, <1>4, <1>7, Inside DEF Upgrading

\* What the validation promises at each later statement.
LEMMA FilledWork ==
    ASSUME UpgradeInv, NEW p \in Processes, step[p] = "backfill"
    PROVE  /\ Sound(Filled(work.documents, work.versions), work.versions)
           /\ Fillable(work)
<1>1. /\ WorkAt("backfill") /\ documents \in Documents /\ versions \in Versions
  BY Upgrades DEF Upgrading
<1>2. /\ work.documents = documents /\ work.versions = versions
      /\ Validated(documents, versions) /\ Basic \subseteq work.schema
      /\ Admits(work.schema, documents, versions)
  BY <1>1 DEF WorkAt, Untouched
<1>3. Sound(Filled(documents, versions), versions)
  BY <1>1, <1>2, FilledSound
<1>4. \A i \in Ids : VersionsOf(versions, i) # {} =>
        i \in Stored(Filled(documents, versions))
  BY <1>1, <1>2, FilledFields DEF Admits
<1> QED
  BY <1>2, <1>3, <1>4, SoundAdmitted DEF Fillable, Basic

LEMMA BackfillStep ==
    ASSUME UpgradeInv, NEW p \in Processes, Backfill(p)
    PROVE  UpgradeInv'
<1> DEFINE F == Filled(work.documents, work.versions)
<1>1. step[p] = "backfill" /\ step' = [step EXCEPT ![p] = "index"]
      /\ work' = [work EXCEPT !.documents = F] /\ UNCHANGED <<db, holder>>
      /\ Fillable(work)
  BY DEF Backfill, Goes, Executed
<1>2. /\ holder = p /\ WorkAt("backfill") /\ work \in Databases
      /\ documents \in Documents /\ versions \in Versions
  BY <1>1, Upgrades DEF Upgrading
<1>3. work.documents = documents /\ work.versions = versions
  BY <1>2 DEF WorkAt, Untouched
<1>4. /\ work' \in Databases /\ work'.documents = F
      /\ work'.versions = work.versions /\ work'.schema = work.schema
  BY <1>1, <1>2, <1>3, FilledType, WorkFields
<1>5. Sound(F, work.versions)
  BY <1>1, FilledWork
<1>6. Reworked'
  BY <1>1, <1>3, <1>4, <1>5 DEF Reworked, db
<1>7. Admits(work.schema, F, work.versions)
  BY <1>1 DEF Fillable
<1> HIDE DEF F
<1>8. WorkAt("index")'
  BY <1>1, <1>2, <1>4, <1>6, <1>7 DEF WorkAt, db
<1> QED
  BY <1>1, <1>2, <1>4, <1>8, Inside DEF Upgrading

\* Adding features to sound work.
LEMMA FeaturesAdded ==
    ASSUME UpgradeInv, NEW p \in Processes,
           step[p] \in {"index", "guard", "finish"},
           NEW s \in SUBSET Features, work.schema \subseteq s,
           work' = [work EXCEPT !.schema = s], UNCHANGED <<db, holder>>
    PROVE  /\ holder = p /\ work' \in Databases /\ Reworked' /\ work'.schema = s
           /\ (schema \subseteq work.schema)'
           /\ Admits(work.schema, work.documents, work.versions)'
<1>1. holder = p /\ WorkAt(step[p]) /\ work \in Databases
  BY Upgrades DEF Upgrading
<1>2. Reworked /\ schema \subseteq work.schema
      /\ Admits(work.schema, work.documents, work.versions)
  BY <1>1 DEF WorkAt
<1>3. {"documents", "digest"} \subseteq s
  BY <1>1 DEF WorkAt, Basic, Needed, Required, Features, DocumentFeatures
<1>4. /\ work' \in Databases /\ work'.documents = work.documents
      /\ work'.versions = work.versions /\ work'.schema = s
  BY <1>1, WorkFields
<1>5. Reworked'
  BY <1>2, <1>4 DEF Reworked, db
<1>6. Admits(s, work.documents, work.versions)
  BY <1>2, <1>3, SoundAdmitted DEF Reworked, Admits
<1> QED
  BY <1>1, <1>2, <1>4, <1>5, <1>6 DEF db

LEMMA IndexStep ==
    ASSUME UpgradeInv, NEW p \in Processes, Index(p)
    PROVE  UpgradeInv'
<1> DEFINE s == work.schema \cup Uniques
<1>1. step[p] = "index" /\ step' = [step EXCEPT ![p] = "guard"]
      /\ work' = [work EXCEPT !.schema = s] /\ UNCHANGED <<db, holder>>
  BY DEF Index, Goes, Executed
<1>2. Basic \subseteq s /\ s \subseteq Features
  BY <1>1, Upgrades DEF Upgrading, WorkAt, Features, DocumentFeatures
<1>3. /\ holder = p /\ work' \in Databases /\ Reworked' /\ work'.schema = s
      /\ (schema \subseteq work.schema)'
      /\ Admits(work.schema, work.documents, work.versions)'
  BY <1>1, <1>2, FeaturesAdded
<1>4. WorkAt("guard")'
  BY <1>2, <1>3 DEF WorkAt
<1> QED
  BY <1>1, <1>3, <1>4, Inside DEF Upgrading

LEMMA GuardStep ==
    ASSUME UpgradeInv, NEW p \in Processes, Guard(p)
    PROVE  UpgradeInv'
<1> DEFINE s == work.schema \cup {"identity", "version size", "chunk content", "history"}
<1>1. step[p] = "guard" /\ step' = [step EXCEPT ![p] = "verify"]
      /\ work' = [work EXCEPT !.schema = s] /\ UNCHANGED <<db, holder>>
  BY DEF Guard, Goes, Executed
<1>2. Basic \subseteq s /\ Uniques \subseteq s /\ s \subseteq Features
  BY <1>1, Upgrades DEF Upgrading, WorkAt, Features, DocumentFeatures
<1>3. /\ holder = p /\ work' \in Databases /\ Reworked' /\ work'.schema = s
      /\ (schema \subseteq work.schema)'
      /\ Admits(work.schema, work.documents, work.versions)'
  BY <1>1, <1>2, FeaturesAdded
<1>4. ~Needed(s)
  BY <1>2 DEF Needed, Required, Features, DocumentFeatures, Basic
<1>5. WorkAt("verify")'
  BY <1>3, <1>4 DEF WorkAt
<1> QED
  BY <1>1, <1>3, <1>5, Inside DEF Upgrading

LEMMA VerifyStep ==
    ASSUME UpgradeInv, NEW p \in Processes, Verify(p)
    PROVE  UpgradeInv'
<1>1. step[p] = "verify" /\ step' = [step EXCEPT ![p] = "finish"]
      /\ UNCHANGED <<db, work, holder>>
  BY DEF Verify, Goes
<1>2. holder = p /\ WorkAt("verify") /\ work \in Databases
  BY <1>1, Upgrades DEF Upgrading
<1>3. WorkAt("finish")'
  BY <1>1, <1>2 DEF WorkAt, Reworked, db
<1> QED
  BY <1>1, <1>2, <1>3, Inside DEF Upgrading

LEMMA FinishStep ==
    ASSUME UpgradeInv, NEW p \in Processes, Finish(p)
    PROVE  UpgradeInv'
<1> DEFINE s == work.schema \cup {"history", "reference"}
<1>1. step[p] = "finish" /\ step' = [step EXCEPT ![p] = "commit"]
      /\ work' = [work EXCEPT !.schema = s] /\ UNCHANGED <<db, holder>>
  BY DEF Finish, Goes, Executed
<1>2. s \subseteq Features /\ ~Needed(work.schema)
  BY <1>1, Upgrades DEF Upgrading, WorkAt, Features, DocumentFeatures
<1>3. /\ holder = p /\ work' \in Databases /\ Reworked' /\ work'.schema = s
      /\ (schema \subseteq work.schema)'
      /\ Admits(work.schema, work.documents, work.versions)'
  BY <1>1, <1>2, FeaturesAdded
<1>4. ~Needed(s)
  BY <1>2 DEF Needed
<1>5. WorkAt("commit")'
  BY <1>3, <1>4 DEF WorkAt
<1> QED
  BY <1>1, <1>3, <1>5, Inside DEF Upgrading

-----------------------------------------------------------------------------
LEMMA BeginStep ==
    ASSUME UpgradeInv, NEW p \in Processes, Begin(p)
    PROVE  UpgradeInv'
<1>1. /\ step[p] \in Waiting /\ holder = None /\ holder' = p
      /\ work' = [documents |-> documents, versions |-> versions, schema |-> schema]
      /\ step' = [step EXCEPT ![p] = "create"] /\ UNCHANGED db
  BY DEF Begin
<1>2. /\ work' \in Databases /\ work'.documents = documents
      /\ work'.versions = versions /\ work'.schema = schema
  BY <1>1 DEF UpgradeInv, TypeOK, Databases
<1>3. TypeOK'
  BY <1>1, <1>2 DEF UpgradeInv, TypeOK, db, Steps, Upgrading
<1>4. WorkAt("create")'
  BY <1>1, <1>2 DEF UpgradeInv, WorkAt, Untouched, db
<1>5. ASSUME NEW q \in Processes PROVE Placed(q)'
  <2>1. holder # q
    BY <1>1, SchemaAssumption
  <2>2. step[q] \notin Upgrading /\ (step[q] = "up" => ~Needed(schema))
    BY <2>1 DEF UpgradeInv, Placed
  <2>3. CASE q = p
    <3>1. step'[q] = "create"
      BY <1>1, <2>3 DEF UpgradeInv, TypeOK
    <3> QED
      BY <1>1, <1>4, <2>3, <3>1 DEF Placed, Upgrading
  <2>4. CASE q # p
    <3>1. step'[q] = step[q] /\ schema' = schema
      BY <1>1, <2>4 DEF UpgradeInv, TypeOK, db
    <3> QED
      BY <1>1, <2>2, <2>4, <3>1 DEF Placed
  <2> QED
    BY <2>3, <2>4
<1> QED
  BY <1>1, <1>2, <1>3, <1>5 DEF UpgradeInv, db

LEMMA CommitStep ==
    ASSUME UpgradeInv, NEW p \in Processes, Commit(p)
    PROVE  UpgradeInv'
<1>1. /\ step[p] = "commit" /\ step' = [step EXCEPT ![p] = "up"]
      /\ documents' = work.documents /\ versions' = work.versions
      /\ schema' = work.schema /\ work' = None /\ holder' = None
  BY DEF Commit, Goes
<1>2. /\ holder = p /\ WorkAt("commit") /\ work \in Databases
  BY <1>1, Upgrades DEF Upgrading
<1>3. TypeOK'
  BY <1>1, <1>2, WorkFields DEF UpgradeInv, TypeOK, Steps
<1>4. ~Needed(schema') /\ Admits(schema, documents, versions)'
      /\ Matched(documents, versions)'
  BY <1>1, <1>2 DEF WorkAt, Reworked, Sound
<1>5. ASSUME NEW q \in Processes PROVE Placed(q)'
  <2>1. q # p => step'[q] = step[q] /\ step[q] \notin Upgrading
    BY <1>1, <1>2 DEF UpgradeInv, TypeOK, Placed
  <2>2. q = p => step'[q] = "up"
    BY <1>1 DEF UpgradeInv, TypeOK
  <2>3. holder' # q /\ step'[q] \notin Upgrading
    BY <1>1, <2>1, <2>2, SchemaAssumption DEF Upgrading
  <2> QED
    BY <1>4, <2>3 DEF Placed
<1> QED
  BY <1>1, <1>3, <1>4, <1>5 DEF UpgradeInv

\* Steps outside of a transaction that leave the database alone.
LEMMA OutsideStep ==
    ASSUME UpgradeInv, NEW p \in Processes, step[p] \notin Upgrading,
           step' = [step EXCEPT ![p] = "down"], UNCHANGED <<db, work, holder>>
    PROVE  UpgradeInv'
<1>1. TypeOK'
  BY DEF UpgradeInv, TypeOK, db, Steps, Waiting
<1>2. ASSUME NEW q \in Processes PROVE Placed(q)'
  <2>1. Placed(q) /\ (q # p => step'[q] = step[q]) /\ (q = p => step'[q] = "down")
    BY DEF UpgradeInv, TypeOK
  <2>2. WorkAt(step[q]) /\ q # p => WorkAt(step[q])'
    BY <2>1 DEF WorkAt, Untouched, Reworked, db
  <2> QED
    BY <2>1, <2>2 DEF Placed, Upgrading, db
<1> QED
  BY <1>1, <1>2 DEF UpgradeInv, db

\* Writers add rows, and the enforced features look at each.
LEMMA WriteStep ==
    ASSUME UpgradeInv, holder = None, documents' \in Documents, versions' \in Versions,
           Admits(schema, documents', versions'), UNCHANGED <<schema, work, holder, step>>,
           ~Needed(schema) => Matched(documents', versions')
    PROVE  UpgradeInv'
<1>1. TypeOK'
  BY DEF UpgradeInv, TypeOK
<1>2. ASSUME NEW q \in Processes PROVE Placed(q)'
  <2>1. Placed(q) /\ holder # q
    BY SchemaAssumption DEF UpgradeInv
  <2> QED
    BY <2>1 DEF Placed
<1> QED
  BY <1>1, <1>2 DEF UpgradeInv

LEMMA VersionType ==
    ASSUME NEW i \in Ids, NEW n \in Numbers, NEW c \in Digests, versions \in Versions,
           versions' = [versions EXCEPT ![i][n] = c]
    PROVE  /\ versions' \in Versions
           /\ \A j \in Ids, m \in Numbers :
                versions'[j][m] = IF j = i /\ m = n THEN c ELSE versions[j][m]
BY DEF Versions

LEMMA UploadStep ==
    ASSUME UpgradeInv, NEW p \in Processes, Upload(p)
    PROVE  UpgradeInv'
<1>0. documents \in Documents /\ versions \in Versions /\ holder = None
  BY DEF UpgradeInv, TypeOK, Upload
<1>1. PICK i \in Ids, d \in Rows, n \in Numbers, c \in Digests :
        /\ versions[i][n] = None
        /\ IF i \in Stored(documents) THEN d = documents[i] /\ d.role # Company
           ELSE d.role = Company => d.digest = c
        /\ documents' = [documents EXCEPT ![i] = d]
        /\ versions' = [versions EXCEPT ![i][n] = c]
  BY DEF Upload
<1>2. documents' \in Documents
  BY <1>0, <1>1 DEF Documents
<1>3. /\ versions' \in Versions
      /\ \A j \in Ids, m \in Numbers :
           versions'[j][m] = IF j = i /\ m = n THEN c ELSE versions[j][m]
  BY <1>0, <1>1, VersionType
<1>4. Admits(schema, documents', versions') /\ UNCHANGED <<schema, work, holder, step>>
  BY DEF Upload
<1>5. ASSUME ~Needed(schema) PROVE Matched(documents', versions')
  <2> SUFFICES ASSUME NEW j \in Companies(documents')
               PROVE  \E m \in Numbers : documents'[j].digest = versions'[j][m]
    BY DEF Matched
  <2>1. CASE j = i
    <3>1. documents'[j] = d /\ d.role = Company
      BY <1>0, <1>1, <2>1 DEF Companies, Stored, Documents
    <3> QED
      BY <1>1, <1>3, <2>1, <3>1
  <2>2. CASE j # i
    <3>1. documents'[j] = documents[j] /\ j \in Companies(documents) /\ j \in Ids
      BY <1>0, <1>1, <2>2 DEF Companies, Stored, Documents
    <3>2. PICK m \in Numbers : documents[j].digest = versions[j][m]
      BY <1>5, <3>1 DEF UpgradeInv, Matched
    <3> QED
      BY <1>3, <2>2, <3>1, <3>2
  <2> QED
    BY <2>1, <2>2
<1> QED
  BY <1>0, <1>2, <1>3, <1>4, <1>5, WriteStep

LEMMA LegacyStep ==
    ASSUME UpgradeInv, LegacyWrite
    PROVE  UpgradeInv'
<1>0. documents \in Documents /\ versions \in Versions /\ holder = None
      /\ Admits(schema, documents', versions') /\ UNCHANGED <<schema, work, holder, step>>
  BY DEF UpgradeInv, TypeOK, LegacyWrite
<1>1. ASSUME NEW i \in Ids \ Stored(documents), NEW d \in Rows, d.digest = None,
             documents' = [documents EXCEPT ![i] = d], UNCHANGED versions
      PROVE  UpgradeInv'
  <2>1. documents' \in Documents
    BY <1>0, <1>1 DEF Documents
  <2>2. ASSUME ~Needed(schema), NEW j \in Companies(documents')
        PROVE  j \in Companies(documents) /\ documents'[j] = documents[j]
    <3>1. Identity(documents'[j]) /\ documents'[j].role = Company
      BY <1>0, <2>2 DEF Admits, Needed, Required, Features, DocumentFeatures, Companies
    <3>2. documents'[j].digest # None
      BY <3>1, SchemaAssumption DEF Identity
    <3>3. j # i
      BY <3>2, <1>0, <1>1 DEF Documents
    <3> QED
      BY <3>3, <1>0, <1>1, <2>2 DEF Documents, Companies, Stored
  <2>3. ~Needed(schema) => Matched(documents', versions')
    BY <2>2, <1>1 DEF UpgradeInv, Matched
  <2> QED
    BY <2>1, <2>3, <1>0, <1>1, WriteStep
<1>2. ASSUME NEW i \in Ids, NEW n \in Numbers, NEW c \in Digests, versions[i][n] = None,
             versions' = [versions EXCEPT ![i][n] = c], UNCHANGED documents
      PROVE  UpgradeInv'
  <2>1. /\ versions' \in Versions
        /\ \A j \in Ids, m \in Numbers :
             versions'[j][m] = IF j = i /\ m = n THEN c ELSE versions[j][m]
    BY <1>0, <1>2, VersionType
  <2>2. ASSUME ~Needed(schema), NEW j \in Companies(documents)
        PROVE  \E m \in Numbers : documents[j].digest = versions'[j][m]
    <3>1. Identity(documents[j]) /\ documents[j].role = Company /\ j \in Ids
      BY <2>2 DEF UpgradeInv, Admits, Needed, Required, Features, DocumentFeatures,
         Companies, Stored
    <3>2. documents[j].digest # None
      BY <3>1, SchemaAssumption DEF Identity
    <3>3. PICK m \in Numbers : documents[j].digest = versions[j][m]
      BY <2>2 DEF UpgradeInv, Matched
    <3> QED
      BY <2>1, <3>1, <3>2, <3>3, <1>2
  <2>3. ~Needed(schema) => Matched(documents', versions')
    BY <2>2, <1>2 DEF Matched
  <2> QED
    BY <2>1, <2>3, <1>0, <1>2, WriteStep
<1> QED
  BY <1>1, <1>2 DEF LegacyWrite

LEMMA UpgradeStep == UpgradeInv /\ [Next]_vars => UpgradeInv'
<1> SUFFICES ASSUME UpgradeInv, [Next]_vars PROVE UpgradeInv'
  OBVIOUS
<1>1. CASE UNCHANGED vars
  <2>1. TypeOK' /\ \A q \in Processes : Placed(q)'
    BY <1>1 DEF UpgradeInv, TypeOK, Placed, WorkAt, Untouched, Reworked, vars, db
  <2> QED
    BY <1>1, <2>1 DEF UpgradeInv, vars, db
<1>2. ASSUME NEW p \in Processes, Start(p) PROVE UpgradeInv'
  <2>1. CASE Busy(p)
    BY <2>1, OutsideStep DEF Busy, Upgrading
  <2>2. CASE Fail(p)
    <3>1. holder = p
      BY <2>2, Upgrades DEF Fail
    <3> QED
      BY <2>2, <3>1, Undone DEF Fail, Waiting
  <2>3. CASE ~(Busy(p) \/ Fail(p))
    BY <1>2, <2>3, BeginStep, CreateStep, DecideStep, AlterStep, BackfillStep, IndexStep,
       GuardStep, VerifyStep, FinishStep, CommitStep DEF Start
  <2> QED
    BY <2>1, <2>2, <2>3
<1>3. ASSUME NEW p \in Processes, Crash(p) PROVE UpgradeInv'
  <2>1. CASE holder = p
    BY <1>3, <2>1, Undone DEF Crash, Waiting
  <2>2. CASE holder # p
    <3>1. step[p] \notin Upgrading
      BY <2>2 DEF UpgradeInv, Placed
    <3> QED
      BY <1>3, <2>2, <3>1, OutsideStep DEF Crash
  <2> QED
    BY <2>1, <2>2
<1> QED
  BY <1>1, <1>2, <1>3, UploadStep, LegacyStep DEF Next

THEOREM UpgradeInvariant == Spec => []UpgradeInv
  BY InitInv, UpgradeStep, PTL DEF Spec

-----------------------------------------------------------------------------
\* Every variable keeps its type.
THEOREM UpgradeTypeOK == Spec => []TypeOK
<1>1. UpgradeInv => TypeOK
  BY DEF UpgradeInv
<1> QED
  BY <1>1, UpgradeInvariant, PTL

\* _validate_legacy_data is complete: rows that pass it are refused by no later
\* statement of the upgrade.
THEOREM UpgradeSucceeds == Spec => []ValidatedUpgradeSucceeds
<1>1. ASSUME UpgradeInv, NEW p \in Processes
      PROVE  /\ step[p] = "backfill" => Fillable(work)
             /\ step[p] = "index" => Indexable(work)
             /\ step[p] = "verify" => ~Needed(work.schema)
  <2>1. step[p] \in Upgrading => WorkAt(step[p])
    BY <1>1 DEF UpgradeInv, Placed
  <2> QED
    BY <1>1, <2>1, FilledWork DEF WorkAt, Reworked, Sound, Indexable, Upgrading
<1>2. UpgradeInv => ValidatedUpgradeSucceeds
  BY <1>1 DEF ValidatedUpgradeSucceeds
<1> QED
  BY <1>2, UpgradeInvariant, PTL

\* What is up is upgraded, and a complete schema holds sound rows for ever.
THEOREM UpgradedSound == Spec => []UpgradedIsSound
<1>1. UpgradeInv /\ ~Needed(schema) => Sound(documents, versions)
  BY AdmittedSound DEF UpgradeInv
<1>2. UpgradeInv => UpgradedIsSound
  BY <1>1 DEF UpgradedIsSound, UpgradeInv, Placed, Sound, Matched
<1> QED
  BY <1>2, UpgradeInvariant, PTL

\* A start commits a complete schema or none, and only fills in digests.
THEOREM UpgradeAtomic == Spec => UpgradeIsAtomic
<1> DEFINE A == /\ schema' # schema => ~Needed(schema') /\ "reference" \in schema'
                /\ \A i \in Stored(documents) :
                    \/ documents'[i] = documents[i]
                    \/ /\ i \in Unfilled(documents)
                       /\ ~Needed(schema')
                       /\ documents'[i] = [documents[i] EXCEPT !.digest = documents'[i].digest]
                /\ \A i \in Ids : \A n \in VersionsOf(versions, i) :
                    versions'[i][n] = versions[i][n]
<1>1. UpgradeInv /\ [Next]_vars => [A]_db
  <2> SUFFICES ASSUME UpgradeInv, [Next]_vars PROVE [A]_db
    OBVIOUS
  <2>0. documents \in Documents /\ versions \in Versions
    BY DEF UpgradeInv, TypeOK
  <2>1. ASSUME NEW p \in Processes, Commit(p) PROVE A
    <3>1. WorkAt("commit") /\ Goes(p, "commit", "up")
      BY <2>1, Upgrades DEF Commit, Goes, Upgrading
    <3>2. /\ documents' \in {documents, Filled(documents, versions)}
          /\ versions' = versions /\ ~Needed(schema') /\ "reference" \in schema'
      BY <2>1, <3>1 DEF Commit, WorkAt, Reworked
    <3>3. ASSUME NEW i \in Stored(documents)
          PROVE  \/ documents'[i] = documents[i]
                 \/ /\ i \in Unfilled(documents)
                    /\ documents'[i] = [documents[i] EXCEPT !.digest = documents'[i].digest]
      <4>1. i \in Ids
        BY DEF Stored
      <4>2. CASE documents' = Filled(documents, versions) /\ i \in Unfilled(documents)
        <5>1. documents'[i] = [documents[i] EXCEPT !.digest = Content(versions, i)]
          BY <4>1, <4>2, <2>0, FilledFields
        <5>2. documents'[i].digest = Content(versions, i)
          BY <4>1, <4>2, <2>0, FilledFields
        <5> QED
          BY <4>2, <5>1, <5>2
      <4>3. CASE documents' = Filled(documents, versions) /\ i \notin Unfilled(documents)
        BY <4>1, <4>3, <2>0, FilledFields
      <4> QED
        BY <4>2, <4>3, <3>2
    <3> QED
      BY <3>2, <3>3
  <2>2. ASSUME NEW p \in Processes, Upload(p) PROVE A
    <3>1. PICK i \in Ids, d \in Rows, n \in Numbers, c \in Digests :
            /\ versions[i][n] = None
            /\ IF i \in Stored(documents) THEN d = documents[i] /\ d.role # Company
               ELSE d.role = Company => d.digest = c
            /\ documents' = [documents EXCEPT ![i] = d]
            /\ versions' = [versions EXCEPT ![i][n] = c]
      BY <2>2 DEF Upload
    <3>2. \A j \in Ids, m \in Numbers :
            versions'[j][m] = IF j = i /\ m = n THEN c ELSE versions[j][m]
      BY <2>0, <3>1, VersionType
    <3>3. \A j \in Stored(documents) : documents'[j] = documents[j]
      BY <2>0, <3>1 DEF Documents, Stored
    <3>4. schema' = schema
      BY <2>2 DEF Upload
    <3> QED
      BY <3>1, <3>2, <3>3, <3>4 DEF VersionsOf
  <2>3. CASE LegacyWrite
    <3>1. schema' = schema
      BY <2>3 DEF LegacyWrite
    <3>2. ASSUME NEW i \in Ids \ Stored(documents), NEW d \in Rows,
                 documents' = [documents EXCEPT ![i] = d], UNCHANGED versions
          PROVE  A
      BY <2>0, <3>1, <3>2 DEF Documents, Stored
    <3>3. ASSUME NEW i \in Ids, NEW n \in Numbers, NEW c \in Digests, versions[i][n] = None,
                 versions' = [versions EXCEPT ![i][n] = c], UNCHANGED documents
          PROVE  A
      <4>1. \A j \in Ids, m \in Numbers :
              versions'[j][m] = IF j = i /\ m = n THEN c ELSE versions[j][m]
        BY <2>0, <3>3, VersionType
      <4> QED
        BY <3>1, <3>3, <4>1 DEF VersionsOf
    <3> QED
      BY <2>3, <3>2, <3>3 DEF LegacyWrite
  <2>4. ASSUME NEW p \in Processes, Start(p) \/ Crash(p), ~Commit(p) PROVE UNCHANGED db
    BY <2>4 DEF Start, Crash, Begin, Busy, CreateAll, NothingToDo, Validate, Stop, Alter,
       Backfill, Index, Guard, Verify, Fail, Finish, Executed, RolledBack
  <2> QED
    BY <2>1, <2>2, <2>3, <2>4 DEF Next, vars
<1> QED
  BY <1>1, UpgradeInvariant, PTL DEF Spec, UpgradeIsAtomic
===============================================================================
