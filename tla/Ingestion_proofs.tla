--------------------------- MODULE Ingestion_proofs ---------------------------
(***************************************************************************)
(* Proofs about concurrent uploads, for any number of processes, threads,  *)
(* contents, attempts and faults.                                          *)
(***************************************************************************)
EXTENDS Ingestion, TLAPS

\* Somebody's committed version of the thread's document has this number or
\* a greater one.
Reached(t, n) ==
    n <= 0 \/ \E v \in versions : v.key = upload[t].key /\ v.number >= n

\* What a thread knows at its step is still true.
Knows(t) ==
    /\ step[t] \in {"count", "insert", "insertBoth"} => target[t]
    /\ step[t] \in {"idle", "store", "link"} => ~target[t]
    /\ step[t] \in {"version", "count", "insert"} => upload[t].key \in documents
    /\ step[t] \in {"ensure", "relink", "parse", "done"} \/ created[t] =>
        /\ found[t] \in versions
        /\ found[t].key = upload[t].key
        /\ found[t].content = upload[t].content
    /\ created[t] =>
        step[t] \in {"begin", "version", "ensure", "relink", "parse"} \cup Ended
    /\ step[t] \notin Ended => attempt[t] < MaxAttempts
    /\ step[t] = "exhausted" => attempt[t] = MaxAttempts

\* The bytes of a stored upload are there, or were harmed.
Published(t) ==
    target[t] =>
        \/ files[PathOf(upload[t])] = "intact"
        \/ PathOf(upload[t]) \in harmed

\* The number it has computed continues those of the document, unless it was
\* taken meanwhile.
NumberSound(t) == step[t] = "insert" =>
    /\ number[t] >= 1
    /\ number[t] = 1 \/ \E v \in versions :
            v.key = upload[t].key /\ v.number + 1 = number[t]
    /\ \/ \A v \in versions : v.key = upload[t].key => v.number < number[t]
       \/ \E v \in versions : v.key = upload[t].key /\ v.number = number[t]

\* The attempts a thread has spent are those that others' commits cost it.
Overtaken(t) ==
    /\ ~target[t] => attempt[t] = 0
    /\ attempt[t] # 0 => Reached(t, attempt[t] - 1)
    /\ step[t] = "insert" => number[t] >= attempt[t]
    /\ step[t] = "insertBoth" => attempt[t] <= 1
    /\ step[t] \in {"count", "insert"} /\ (\E v \in versions : Matches(v, t)) =>
        Reached(t, attempt[t])

CreatorsDiffer ==
    \A s, t \in Threads : created[s] /\ created[t] /\ found[s] = found[t] => s = t

\* The inductive invariant.
IngestInv ==
    /\ TypeOK
    /\ RowsSound
    /\ StoredUnlessHarmed
    /\ CreatorsDiffer
    /\ \A t \in Threads : Knows(t) /\ Published(t) /\ NumberSound(t)
    /\ faults = 0 => \A t \in Threads : Overtaken(t)

-----------------------------------------------------------------------------
LEMMA RequestType == ASSUME NEW r \in Requests
                     PROVE  /\ r.key \in Keys /\ r.content \in Contents
                            /\ r.suffix \in Suffixes
                            /\ r.key \in {Project, r.content}
                            /\ PathOf(r) \in Paths
BY DEF Requests, PathOf, Paths, Keys

\* The row a thread inserts, field by field.
LEMMA RowFields ==
    ASSUME NEW t \in Threads, NEW n \in Nat \ {0}, TypeOK
    PROVE  /\ RowOf(t, n) \in Rows
           /\ RowOf(t, n).key = upload[t].key
           /\ RowOf(t, n).number = n
           /\ RowOf(t, n).content = upload[t].content
           /\ PathOf(RowOf(t, n)) = PathOf(upload[t])
<1>1. upload[t] \in Requests
  BY DEF TypeOK
<1> QED
  BY <1>1, RequestType DEF RowOf, Rows, PathOf

LEMMA InitInv == Init => IngestInv
<1> SUFFICES ASSUME Init PROVE IngestInv
  OBVIOUS
<1> USE IngestionAssumption DEF Init
<1>1. TypeOK
  BY DEF TypeOK, Steps
<1>2. RowsSound /\ StoredUnlessHarmed
  BY DEF RowsSound, StoredUnlessHarmed
<1>3. CreatorsDiffer
  BY DEF CreatorsDiffer
<1>4. ASSUME NEW t \in Threads PROVE Knows(t) /\ Published(t) /\ NumberSound(t)
  <2>1. step[t] = "idle" /\ attempt[t] = 0 /\ ~target[t] /\ ~created[t]
    OBVIOUS
  <2> HIDE DEF Init
  <2> QED
    BY <2>1, IngestionAssumption DEF Knows, Published, NumberSound, Ended
<1>5. \A t \in Threads : Overtaken(t)
  BY DEF Overtaken
<1> QED
  BY <1>1, <1>2, <1>3, <1>4, <1>5 DEF IngestInv

-----------------------------------------------------------------------------
\* The variables keep their types.
LEMMA NextAttemptType ==
    ASSUME TypeOK, NEW t \in Threads, attempt[t] < MaxAttempts, NextAttempt(t)
    PROVE  /\ attempt' \in [Threads -> 0..MaxAttempts]
           /\ step' \in [Threads -> Steps]
BY IngestionAssumption DEF TypeOK, NextAttempt, Steps, Ended

LEMMA MovesType ==
    ASSUME TypeOK, NEW t \in Threads, NEW to \in Steps, Moves(t, to)
    PROVE  step' \in [Threads -> Steps]
BY DEF TypeOK, Moves

LEMMA PlaceType ==
    ASSUME TypeOK, NEW t \in Threads, Knows(t), step[t] \in Storing
    PROVE  Place(t) \in Paths
<1>1. upload[t] \in Requests
  BY DEF TypeOK
<1>2. step[t] \in {"ensure", "relink"} => found[t] \in Rows
  BY DEF TypeOK, Knows
<1>3. found[t] \in Rows => PathOf(found[t]) \in Paths
  BY DEF Rows, PathOf, Paths
<1> QED
  BY <1>1, <1>2, <1>3, RequestType DEF Place, Storing

LEMMA TypeStep ==
    ASSUME IngestInv, [Next]_vars
    PROVE  TypeOK'
<1> USE IngestionAssumption DEF IngestInv
<1>0. TypeOK
  OBVIOUS
<1>a. \A t \in Threads : step[t] \notin Ended => attempt[t] < MaxAttempts
  BY DEF Knows
<1>1. CASE UNCHANGED vars
  BY <1>0, <1>1 DEF TypeOK, vars, store, local
<1>2. ASSUME NEW t \in Threads, Start(t) PROVE TypeOK'
  BY <1>0, <1>2, MovesType DEF TypeOK, Start, Moves, Steps, store, local
<1>3. ASSUME NEW t \in Threads, FindDocument(t) \/ FindNoVersion(t) \/ Refuse(t) \/ Copy(t)
                             \/ Answer(t)
      PROVE  TypeOK'
  <2>1. \E to \in Steps : Moves(t, to)
    BY <1>3 DEF FindDocument, FindNoVersion, Refuse, Copy, Answer, Steps, Reading, Storing, Ended
  <2>2. step' \in [Threads -> Steps]
    BY <2>1, <1>0, MovesType
  <2>3. UNCHANGED <<documents, versions, files, harmed, upload, attempt, target,
                    number, found, created, faults>>
    BY <1>3 DEF FindDocument, FindNoVersion, Refuse, Copy, Answer, store, local
  <2> QED
    BY <1>0, <2>2, <2>3 DEF TypeOK
<1>4. ASSUME NEW t \in Threads, Reuse(t) PROVE TypeOK'
  <2>1. step' \in [Threads -> Steps]
    BY <1>4, <1>0, MovesType DEF Reuse, Steps, Storing
  <2>2. /\ found' \in [Threads -> Rows \cup {None}]
        /\ created' \in [Threads -> BOOLEAN]
    BY <1>4, <1>0 DEF Reuse, TypeOK
  <2> QED
    BY <1>4, <1>0, <2>1, <2>2 DEF TypeOK, Reuse, store, local
<1>5. ASSUME NEW t \in Threads, Count(t) PROVE TypeOK'
  <2>1. step' \in [Threads -> Steps]
    BY <1>5, <1>0, MovesType DEF Count, Steps, Reading
  <2>2. {1} \cup {v.number + 1 : v \in versions} \subseteq Nat
    BY <1>0 DEF TypeOK, Rows
  <2>3. number' \in [Threads -> Nat]
    BY <1>5, <1>0, <2>2 DEF Count, TypeOK
  <2> QED
    BY <1>5, <1>0, <2>1, <2>3 DEF TypeOK, Count, store
<1>6. ASSUME NEW t \in Threads, NEW v \in Rows, Committed(t, v) PROVE
          /\ versions' \subseteq Rows
          /\ found' \in [Threads -> Rows \cup {None}]
          /\ created' \in [Threads -> BOOLEAN]
          /\ step' \in [Threads -> Steps]
  <2>1. step' \in [Threads -> Steps]
    BY <1>6, <1>0, MovesType DEF Committed, Steps, Storing
  <2> QED
    BY <1>6, <1>0, <2>1 DEF TypeOK, Committed
<1>7. ASSUME NEW t \in Threads, InsertVersion(t) PROVE TypeOK'
  <2>1. number[t] \in Nat \ {0}
    BY <1>7, <1>0 DEF TypeOK, InsertVersion, NumberSound
  <2>2. RowOf(t, number[t]) \in Rows
    BY <2>1, <1>0, RowFields
  <2> QED
    BY <1>7, <1>0, <1>6, <2>2 DEF TypeOK, InsertVersion, Committed, store, local
<1>8. ASSUME NEW t \in Threads, InsertBoth(t) PROVE TypeOK'
  <2>1. RowOf(t, 1) \in Rows
    BY <1>0, RowFields
  <2>2. upload[t].key \in Keys
    BY <1>0, RequestType DEF TypeOK
  <2> QED
    BY <1>8, <1>0, <1>6, <2>1, <2>2 DEF TypeOK, InsertBoth, Committed, store, local
<1>9. ASSUME NEW t \in Threads, Conflict(t) PROVE TypeOK'
  <2>1. attempt[t] < MaxAttempts
    BY <1>9, <1>a DEF Conflict, Ended
  <2> QED
    BY <1>9, <1>0, <2>1, NextAttemptType DEF TypeOK, Conflict, store, local
<1>10. ASSUME NEW t \in Threads, step[t] \in Storing, Stored(t)
       PROVE  /\ attempt' \in [Threads -> 0..MaxAttempts]
              /\ step' \in [Threads -> Steps]
              /\ target' \in [Threads -> BOOLEAN]
  <2>1. attempt[t] < MaxAttempts
    BY <1>10, <1>a DEF Storing, Ended
  <2>2. CASE step[t] \in {"store", "link"}
    BY <1>10, <1>0, <2>1, <2>2, NextAttemptType DEF Stored, TypeOK
  <2>3. CASE step[t] \in {"ensure", "relink"}
    <3>1. Moves(t, "parse") /\ UNCHANGED <<target, attempt>>
      BY <1>10, <2>3 DEF Stored
    <3> QED
      BY <3>1, <1>0, MovesType DEF TypeOK, Steps
  <2> QED
    BY <1>10, <2>2, <2>3 DEF Storing
<1>11. ASSUME NEW t \in Threads, Exists(t) PROVE TypeOK'
  BY <1>11, <1>0, <1>10 DEF Exists, TypeOK, store
<1>12. ASSUME NEW t \in Threads, Link(t) PROVE TypeOK'
  <2>1. step[t] \in Storing /\ Stored(t)
    BY <1>12 DEF Link, Storing
  <2>2. files' \in [Paths -> {"absent", "intact", "damaged"}]
    BY <1>12, <1>0 DEF Link, TypeOK
  <2> QED
    BY <1>12, <1>0, <1>10, <2>1, <2>2 DEF Link, TypeOK
<1>13. ASSUME NEW t \in Threads, DatabaseError(t) PROVE TypeOK'
  <2>1. attempt[t] < MaxAttempts
    BY <1>13, <1>a DEF DatabaseError, Reading, Ended
  <2>2. /\ attempt' \in [Threads -> 0..MaxAttempts]
        /\ step' \in [Threads -> Steps]
    BY <1>13, <1>0, <2>1, NextAttemptType, MovesType DEF DatabaseError, TypeOK, Steps, Ended
  <2>3. faults' \in 0..MaxFaults
    BY <1>13, <1>0 DEF DatabaseError, TypeOK
  <2> QED
    BY <1>13, <1>0, <2>2, <2>3 DEF DatabaseError, TypeOK, store, local
<1>14. ASSUME NEW t \in Threads, StorageError(t) PROVE TypeOK'
  <2>1. step' \in [Threads -> Steps]
    BY <1>14, <1>0, MovesType DEF StorageError, Steps, Ended
  <2>2. faults' \in 0..MaxFaults
    BY <1>14, <1>0 DEF StorageError, TypeOK
  <2> QED
    BY <1>14, <1>0, <2>1, <2>2 DEF StorageError, TypeOK, store, local
<1>15. ASSUME NEW p \in Paths, Harm(p) PROVE TypeOK'
  <2>1. faults' \in 0..MaxFaults
    BY <1>15, <1>0 DEF Harm, TypeOK
  <2> QED
    BY <1>15, <1>0, <2>1 DEF Harm, TypeOK, local
<1>16. ASSUME NEW p \in Processes, Crash(p) PROVE TypeOK'
  <2>1. faults' \in 0..MaxFaults
    BY <1>16, <1>0 DEF Crash, TypeOK
  <2>2. step' \in [Threads -> Steps]
    BY <1>16, <1>0 DEF Crash, TypeOK, Steps, Ended
  <2> QED
    BY <1>16, <1>0, <2>1, <2>2 DEF Crash, TypeOK, store, local
<1> QED
  BY <1>1, <1>2, <1>3, <1>4, <1>5, <1>7, <1>8, <1>9, <1>11, <1>12, <1>13, <1>14,
     <1>15, <1>16 DEF Next, Turn

-----------------------------------------------------------------------------
\* What a step of one thread leaves alone.
Same(s) == UNCHANGED <<upload[s], step[s], attempt[s], target[s], number[s],
                       found[s], created[s]>>

Only(t) == \A s \in Threads : s # t => Same(s)

Acts(t) == Start(t) \/ Turn(t) \/ DatabaseError(t) \/ StorageError(t)

LEMMA StoredOnly ==
    ASSUME TypeOK, NEW t \in Threads, Stored(t), NEW s \in Threads, s # t
    PROVE  UNCHANGED <<step[s], attempt[s], target[s]>>
BY DEF TypeOK, Stored, NextAttempt, Moves

LEMMA OnlyOne ==
    ASSUME TypeOK, NEW t \in Threads, Acts(t)
    PROVE  Only(t)
<1> USE DEF Only, Same, TypeOK
<1>1. CASE Start(t) \/ FindDocument(t) \/ FindNoVersion(t) \/ Refuse(t) \/ Copy(t) \/ Answer(t)
  BY <1>1 DEF Start, FindDocument, FindNoVersion, Refuse, Copy, Answer, Moves, local
<1>2. CASE Reuse(t) \/ Count(t)
  BY <1>2 DEF Reuse, Count, Moves, local
<1>3. CASE InsertVersion(t) \/ InsertBoth(t)
  BY <1>3 DEF InsertVersion, InsertBoth, Committed, Moves, local
<1>4. CASE Conflict(t) \/ DatabaseError(t) \/ StorageError(t)
  BY <1>4 DEF Conflict, DatabaseError, StorageError, NextAttempt, Moves, local
<1>5. CASE Exists(t) \/ Link(t)
  BY <1>5, StoredOnly DEF Exists, Link
<1> QED
  BY <1>1, <1>2, <1>3, <1>4, <1>5 DEF Acts, Turn

\* Which steps write which shared state.
Commits(t) == InsertVersion(t) \/ InsertBoth(t)

LEMMA RowsOnlyByCommits ==
    ASSUME NEW t \in Threads, Acts(t), ~Commits(t)
    PROVE  UNCHANGED <<documents, versions>>
BY DEF Acts, Commits, Start, Turn, FindDocument, Reuse, FindNoVersion, Count,
       Conflict, Exists, Refuse, Copy, Link, Answer, DatabaseError, StorageError

LEMMA FilesOnlyByLinks ==
    ASSUME NEW t \in Threads, Acts(t), ~Link(t)
    PROVE  UNCHANGED <<files, harmed>>
BY DEF Acts, Start, Turn, FindDocument, Reuse, FindNoVersion, Count, InsertVersion,
       InsertBoth, Committed, Conflict, Exists, Refuse, Copy, Answer, DatabaseError,
       StorageError, store

\* A file that is there, or known to be harmed, stays so.
Kept(p) == files[p] = "intact" \/ p \in harmed

LEMMA FilesStayKept ==
    ASSUME IngestInv, [Next]_vars, NEW p \in Paths, Kept(p)
    PROVE  Kept(p)'
<1>1. files \in [Paths -> {"absent", "intact", "damaged"}]
  BY DEF IngestInv, TypeOK
<1>2. ASSUME NEW t \in Threads, Link(t) PROVE Kept(p)'
  <2>1. files' = [files EXCEPT ![Place(t)] = "intact"] /\ harmed' = harmed
    BY <1>2 DEF Link
  <2> QED
    BY <2>1, <1>1 DEF Kept
<1>3. ASSUME NEW t \in Threads, Acts(t), ~Link(t) PROVE Kept(p)'
  BY <1>3, FilesOnlyByLinks DEF Kept
<1>4. ASSUME NEW q \in Paths, Harm(q) PROVE Kept(p)'
  BY <1>4, <1>1 DEF Harm, Kept
<1>5. CASE UNCHANGED vars \/ \E q \in Processes : Crash(q)
  BY <1>5 DEF Crash, vars, store, Kept
<1> QED
  BY <1>2, <1>3, <1>4, <1>5 DEF Next, Acts

-----------------------------------------------------------------------------
\* What a commit adds: the next version of the thread's document, with a
\* content that the document does not have.
Fits(k, c, n) ==
    /\ \A w \in versions : w.key = k => w.number < n /\ w.content # c
    /\ n = 1 \/ \E w \in versions : w.key = k /\ w.number + 1 = n

Adds(t, v) ==
    /\ v \in Rows /\ v \notin versions
    /\ v.key = upload[t].key /\ v.content = upload[t].content
    /\ PathOf(v) = PathOf(upload[t])
    /\ Fits(v.key, v.content, v.number)
    /\ versions' = versions \cup {v}
    /\ documents' = documents \cup {v.key}

LEMMA CommitAdds ==
    ASSUME IngestInv, NEW t \in Threads, Commits(t)
    PROVE  \E v : Adds(t, v) /\ Committed(t, v) /\ target[t]
<1> USE DEF IngestInv
<1>0. TypeOK /\ RowsSound /\ Knows(t) /\ NumberSound(t)
  OBVIOUS
<1>a. \A w \in versions : w.number \in Nat
  BY <1>0 DEF TypeOK, Rows
<1>1. CASE InsertVersion(t)
  <2> DEFINE n == number[t]
             v == RowOf(t, n)
  <2>1. step[t] = "insert" /\ ~Taken(v) /\ Committed(t, v) /\ documents' = documents
    BY <1>1 DEF InsertVersion
  <2>2. n \in Nat \ {0} /\ target[t] /\ upload[t].key \in documents
    BY <2>1, <1>0 DEF NumberSound, TypeOK, Knows
  <2>3. /\ v \in Rows /\ v.key = upload[t].key /\ v.number = n
        /\ v.content = upload[t].content /\ PathOf(v) = PathOf(upload[t])
    BY <2>2, <1>0, RowFields
  <2>4. \A w \in versions : w.key = v.key => w.number # n /\ w.content # v.content
    BY <2>1, <2>3 DEF Taken
  <2>5. Fits(v.key, v.content, v.number)
    BY <2>1, <2>3, <2>4, <1>0 DEF NumberSound, Fits
  <2>6. versions' = versions \cup {v} /\ documents' = documents \cup {v.key}
    BY <2>1, <2>2, <2>3 DEF Committed
  <2>7. v \notin versions
    BY <2>4
  <2> HIDE DEF v
  <2> QED
    BY <2>1, <2>2, <2>3, <2>5, <2>6, <2>7 DEF Adds
<1>2. CASE InsertBoth(t)
  <2> DEFINE v == RowOf(t, 1)
  <2>1. /\ step[t] = "insertBoth" /\ upload[t].key \notin documents
        /\ Committed(t, v) /\ documents' = documents \cup {upload[t].key}
    BY <1>2 DEF InsertBoth
  <2>2. target[t]
    BY <2>1, <1>0 DEF Knows
  <2>3. /\ v \in Rows /\ v.key = upload[t].key /\ v.number = 1
        /\ v.content = upload[t].content /\ PathOf(v) = PathOf(upload[t])
    BY <1>0, RowFields
  <2>4. \A w \in versions : w.key # v.key
    BY <2>1, <2>3, <1>0 DEF RowsSound
  <2>5. Fits(v.key, v.content, v.number)
    BY <2>3, <2>4 DEF Fits
  <2>6. versions' = versions \cup {v}
    BY <2>1 DEF Committed
  <2>7. v \notin versions
    BY <2>4
  <2> HIDE DEF v
  <2> QED
    BY <2>1, <2>2, <2>3, <2>5, <2>6, <2>7 DEF Adds
<1> QED
  BY <1>1, <1>2 DEF Commits

\* The rows stay sound, and the files of new rows are there.
LEMMA AddKeepsRows ==
    ASSUME TypeOK, RowsSound, NEW t \in Threads, NEW v, Adds(t, v)
    PROVE  RowsSound'
<1> USE DEF RowsSound
<1>a. \A w \in versions \cup {v} : w.number \in Nat \ {0}
  BY DEF TypeOK, Rows, Adds
<1>1. versions' = versions \cup {v} /\ documents' = documents \cup {v.key}
  BY DEF Adds
<1>2. Fits(v.key, v.content, v.number)
  BY DEF Adds
<1>3. ASSUME NEW w \in versions', NEW x \in versions', w.key = x.key,
             w.number = x.number \/ w.content = x.content
      PROVE  w = x
  <2>1. CASE w \in versions /\ x \in versions
    BY <1>3, <2>1
  <2>2. CASE (w = v \/ x = v) /\ w # x
    BY <1>3, <2>2, <1>1, <1>2, <1>a DEF Fits
  <2> QED
    BY <2>1, <2>2, <1>1
<1>4. ASSUME NEW w \in versions', w.number > 1
      PROVE  \E x \in versions' : x.key = w.key /\ x.number + 1 = w.number
  BY <1>4, <1>1, <1>2, <1>a DEF Fits
<1>5. documents' = {w.key : w \in versions'}
  BY <1>1
<1>6. v.key \in {Project, v.content}
  BY RequestType DEF Adds, TypeOK
<1> QED
  BY <1>1, <1>3, <1>4, <1>5, <1>6

LEMMA RowsStep ==
    ASSUME IngestInv, [Next]_vars
    PROVE  RowsSound'
<1>1. ASSUME NEW t \in Threads, Commits(t) PROVE RowsSound'
  BY <1>1, CommitAdds, AddKeepsRows DEF IngestInv
<1>2. ASSUME UNCHANGED <<documents, versions>> PROVE RowsSound'
  BY <1>2 DEF IngestInv, RowsSound
<1>3. ASSUME NEW t \in Threads, Acts(t), ~Commits(t) PROVE RowsSound'
  BY <1>3, <1>2, RowsOnlyByCommits
<1> QED
  BY <1>1, <1>2, <1>3 DEF Next, Acts, Harm, Crash, vars

LEMMA StoredStep ==
    ASSUME IngestInv, [Next]_vars
    PROVE  StoredUnlessHarmed'
<1>0. TypeOK /\ StoredUnlessHarmed
  BY DEF IngestInv
<1>1. \A v \in Rows : PathOf(v) \in Paths
  BY DEF Rows, PathOf, Paths
<1>2. \A v \in versions : Kept(PathOf(v))'
  BY <1>0, <1>1, FilesStayKept DEF TypeOK, StoredUnlessHarmed, Kept, PathOf
<1>3. ASSUME NEW t \in Threads, Commits(t) PROVE StoredUnlessHarmed'
  <2>1. PICK v : Adds(t, v) /\ Committed(t, v) /\ target[t]
    BY <1>3, CommitAdds
  <2>2. Published(t)
    BY DEF IngestInv
  <2>3. Kept(PathOf(v))
    BY <2>1, <2>2 DEF Published, Kept, Adds
  <2>4. Kept(PathOf(v))'
    BY <2>1, <2>3, <1>1, FilesStayKept DEF Adds, PathOf
  <2>5. versions' = versions \cup {v}
    BY <2>1 DEF Adds
  <2> QED
    BY <2>4, <2>5, <1>2 DEF StoredUnlessHarmed, Kept, PathOf
<1>4. ASSUME versions' = versions PROVE StoredUnlessHarmed'
  BY <1>4, <1>2 DEF StoredUnlessHarmed, Kept, PathOf
<1>5. ASSUME NEW t \in Threads, Acts(t), ~Commits(t) PROVE StoredUnlessHarmed'
  BY <1>5, <1>4, RowsOnlyByCommits
<1> QED
  BY <1>3, <1>4, <1>5 DEF Next, Acts, Harm, Crash, vars

-----------------------------------------------------------------------------
\* Only commits make creators, and each of a row that was not there.
LEMMA CreatorsOnlyByCommits ==
    ASSUME TypeOK, NEW t \in Threads, Acts(t), ~Commits(t)
    PROVE  \/ UNCHANGED <<found, created>>
           \/ Reuse(t) /\ created' = [created EXCEPT ![t] = FALSE]
BY DEF Acts, Commits, Start, Turn, FindDocument, Reuse, FindNoVersion, Count,
       Conflict, Exists, Refuse, Copy, Link, Answer, DatabaseError, StorageError, local

LEMMA CreatorsStep ==
    ASSUME IngestInv, [Next]_vars
    PROVE  CreatorsDiffer'
<1>0. TypeOK /\ CreatorsDiffer /\ \A s \in Threads : Knows(s)
  BY DEF IngestInv
<1>1. ASSUME NEW t \in Threads, Commits(t) PROVE CreatorsDiffer'
  <2>1. PICK v : Adds(t, v) /\ Committed(t, v)
    BY <1>1, CommitAdds
  <2>2. \A s \in Threads : s # t => created'[s] = created[s] /\ found'[s] = found[s]
    BY <1>1, <1>0, OnlyOne DEF Commits, Acts, Turn, Only, Same
  <2>3. found'[t] = v /\ v \notin versions
    BY <2>1, <1>0 DEF Committed, Adds, TypeOK
  <2>4. \A s \in Threads : s # t /\ created'[s] => found'[s] # v
    BY <2>2, <2>3, <1>0 DEF Knows
  <2> QED
    BY <2>2, <2>3, <2>4, <1>0 DEF CreatorsDiffer
<1>2. ASSUME NEW t \in Threads, Acts(t), ~Commits(t) PROVE CreatorsDiffer'
  <2>1. CASE UNCHANGED <<found, created>>
    BY <2>1, <1>0 DEF CreatorsDiffer
  <2>2. CASE created' = [created EXCEPT ![t] = FALSE]
    <3>1. ~created'[t] /\ \A s \in Threads : s # t => created'[s] = created[s]
      BY <2>2, <1>0 DEF TypeOK
    <3>2. \A s \in Threads : s # t => found'[s] = found[s]
      BY <1>2, <1>0, OnlyOne DEF Only, Same
    <3> QED
      BY <3>1, <3>2, <1>0 DEF CreatorsDiffer
  <2> QED
    BY <2>1, <2>2, <1>2, <1>0, CreatorsOnlyByCommits
<1>3. ASSUME UNCHANGED <<found, created>> PROVE CreatorsDiffer'
  BY <1>3, <1>0 DEF CreatorsDiffer
<1> QED
  BY <1>1, <1>2, <1>3 DEF Next, Acts, Harm, Crash, vars

-----------------------------------------------------------------------------
\* What a thread knows stays true while others add rows and files ...
LEMMA RowsGrow ==
    ASSUME IngestInv, [Next]_vars
    PROVE  documents \subseteq documents' /\ versions \subseteq versions'
<1>1. ASSUME NEW t \in Threads, Commits(t)
      PROVE  documents \subseteq documents' /\ versions \subseteq versions'
  BY <1>1, CommitAdds DEF Adds
<1>2. ASSUME NEW t \in Threads, Acts(t), ~Commits(t)
      PROVE  documents \subseteq documents' /\ versions \subseteq versions'
  BY <1>2, RowsOnlyByCommits
<1> QED
  BY <1>1, <1>2 DEF Next, Acts, Harm, Crash, vars

LEMMA KnowsFrame ==
    ASSUME IngestInv, [Next]_vars, NEW s \in Threads, Same(s)
    PROVE  Knows(s)' /\ Published(s)'
<1>1. documents \subseteq documents' /\ versions \subseteq versions'
  BY RowsGrow
<1>2. Knows(s) /\ Published(s) /\ upload[s] \in Requests
  BY DEF IngestInv, TypeOK
<1>3. \A p \in Paths : Kept(p) => Kept(p)'
  BY FilesStayKept
<1>4. PathOf(upload[s]) \in Paths
  BY <1>2, RequestType
<1>5. Knows(s)'
  BY <1>1, <1>2 DEF Knows, Same
<1>6. Published(s)'
  BY <1>2, <1>3, <1>4 DEF Published, Kept, Same, PathOf
<1> QED
  BY <1>5, <1>6

\* ... and through its own steps.
LEMMA StoredKnows ==
    ASSUME TypeOK, NEW t \in Threads, Knows(t), step[t] \in Storing, Stored(t),
           UNCHANGED <<documents, versions, upload, found, created>>
    PROVE  Knows(t)'
<1>1. CASE step[t] \in {"store", "link"}
  <2>1. /\ attempt'[t] = attempt[t] + 1 /\ target'[t] = TRUE
        /\ step'[t] = IF attempt[t] + 1 = MaxAttempts THEN "exhausted" ELSE "begin"
    BY <1>1 DEF Stored, NextAttempt, TypeOK
  <2>2. ~created[t] /\ attempt[t] < MaxAttempts /\ attempt[t] \in Nat
    BY <1>1 DEF Knows, Ended, TypeOK
  <2> QED
    BY <2>1, <2>2, IngestionAssumption DEF Knows, Ended
<1>2. CASE step[t] \in {"ensure", "relink"}
  <2>1. step'[t] = "parse" /\ UNCHANGED attempt
    BY <1>2 DEF Stored, Moves, TypeOK
  <2> QED
    BY <1>2, <2>1 DEF Knows, Ended
<1> QED
  BY <1>1, <1>2 DEF Storing

LEMMA ActsKnows ==
    ASSUME IngestInv, NEW t \in Threads, Acts(t)
    PROVE  Knows(t)'
<1>0. TypeOK /\ Knows(t) /\ RowsSound /\ attempt[t] \in Nat
  BY DEF IngestInv, TypeOK
<1> USE DEF Knows, Ended
<1>1. CASE Start(t)
  <2>1. /\ step[t] = "idle" /\ step'[t] = "begin"
        /\ UNCHANGED <<versions, upload, attempt, found, created>>
    BY <1>1, <1>0 DEF Start, Moves, TypeOK, local
  <2> QED
    BY <2>1, <1>0
<1>2. CASE FindDocument(t)
  <2>1. /\ step[t] = "begin"
        /\ step'[t] = IF upload[t].key \in documents THEN "version"
                      ELSE IF target[t] THEN "insertBoth" ELSE "store"
        /\ UNCHANGED <<documents, versions, upload, target, attempt, found, created>>
    BY <1>2, <1>0 DEF FindDocument, Moves, TypeOK, MayInsert, local
  <2>2. created[t] => upload[t].key \in documents
    BY <1>0 DEF RowsSound
  <2> QED
    BY <2>1, <2>2, <1>0
<1>3. CASE Reuse(t)
  <2>1. PICK v \in versions : Matches(v, t) /\ found' = [found EXCEPT ![t] = v]
    BY <1>3 DEF Reuse
  <2>2. /\ step[t] = "version" /\ step'[t] = "ensure" /\ found'[t] = v /\ ~created'[t]
        /\ UNCHANGED <<documents, versions, upload, target, attempt>>
    BY <1>3, <2>1, <1>0 DEF Reuse, Moves, TypeOK, local
  <2> QED
    BY <2>1, <2>2, <1>0 DEF Matches
<1>4. CASE FindNoVersion(t)
  <2>1. /\ step[t] = "version" /\ step'[t] = IF target[t] THEN "count" ELSE "store"
        /\ UNCHANGED <<documents, versions, upload, target, attempt, found, created>>
    BY <1>4, <1>0 DEF FindNoVersion, Moves, TypeOK, MayInsert, local
  <2>2. ~created[t]
    BY <1>4, <1>0 DEF FindNoVersion, Matches
  <2> QED
    BY <2>1, <2>2, <1>0
<1>5. CASE Count(t)
  <2>1. /\ step[t] = "count" /\ step'[t] = "insert"
        /\ UNCHANGED <<documents, versions, upload, target, attempt, found, created>>
    BY <1>5, <1>0 DEF Count, Moves, TypeOK
  <2> QED
    BY <2>1, <1>0
<1>6. CASE Commits(t)
  <2>1. PICK v : Adds(t, v) /\ Committed(t, v)
    BY <1>6, CommitAdds
  <2>2. /\ step[t] \in {"insert", "insertBoth"} /\ step'[t] = "ensure"
        /\ found'[t] = v /\ v \in versions'
        /\ v.key = upload[t].key /\ v.content = upload[t].content
        /\ UNCHANGED <<upload, attempt>>
    BY <1>6, <2>1, <1>0 DEF Commits, InsertVersion, InsertBoth, Committed, Moves,
       Adds, TypeOK, local
  <2> QED
    BY <2>2, <1>0
<1>7. ASSUME NextAttempt(t), step[t] \in Reading \cup {"begin", "ensure", "parse"},
             UNCHANGED <<versions, upload, found, created>>
      PROVE  Knows(t)'
  <2>1. /\ attempt'[t] = attempt[t] + 1
        /\ step'[t] = IF attempt[t] + 1 = MaxAttempts THEN "exhausted" ELSE "begin"
    BY <1>7, <1>0 DEF NextAttempt, TypeOK
  <2>2. attempt[t] < MaxAttempts
    BY <1>7, <1>0 DEF Reading
  <2> QED
    BY <1>7, <2>1, <2>2, <1>0, IngestionAssumption
<1>8. CASE Exists(t) \/ Link(t)
  <2>1. step[t] \in Storing /\ Stored(t) /\ UNCHANGED <<documents, versions, upload, found, created>>
    BY <1>8 DEF Exists, Link, Storing
  <2> QED
    BY <2>1, <1>0, StoredKnows
<1>9. ASSUME Moves(t, "failed"), UNCHANGED <<versions, upload, found, created>>
      PROVE  Knows(t)'
  <2>1. step'[t] = "failed"
    BY <1>9, <1>0 DEF Moves, TypeOK
  <2> QED
    BY <1>9, <2>1, <1>0
<1>10. CASE Copy(t)
  <2>1. /\ step[t] \in {"store", "ensure"}
        /\ step'[t] = IF step[t] = "store" THEN "link" ELSE "relink"
        /\ UNCHANGED <<documents, versions, upload, target, attempt, found, created>>
    BY <1>10, <1>0 DEF Copy, Moves, TypeOK, local
  <2> QED
    BY <2>1, <1>0
<1>15. CASE Answer(t)
  <2>1. /\ step[t] = "parse" /\ step'[t] = "done"
        /\ UNCHANGED <<versions, upload, target, attempt, found, created>>
    BY <1>15, <1>0 DEF Answer, Moves, TypeOK, local
  <2> QED
    BY <2>1, <1>0
<1> HIDE DEF Knows, Ended
<1>12. CASE Conflict(t)
  BY <1>12, <1>7 DEF Conflict, Reading, local
<1>13. CASE DatabaseError(t)
  BY <1>13, <1>7, <1>9 DEF DatabaseError, local
<1>14. CASE Refuse(t) \/ StorageError(t)
  BY <1>14, <1>9 DEF Refuse, StorageError, local
<1>11. \/ Start(t) \/ FindDocument(t) \/ Reuse(t) \/ FindNoVersion(t) \/ Count(t)
       \/ Commits(t) \/ Conflict(t) \/ Exists(t) \/ Link(t) \/ Refuse(t) \/ Copy(t)
       \/ Answer(t) \/ DatabaseError(t) \/ StorageError(t)
  BY DEF Acts, Turn, Commits
<1> QED
  BY <1>11, <1>1, <1>2, <1>3, <1>4, <1>5, <1>6, <1>8, <1>10, <1>12, <1>13, <1>14, <1>15

LEMMA ActsPublished ==
    ASSUME IngestInv, NEW t \in Threads, Acts(t)
    PROVE  Published(t)'
<1>0. TypeOK /\ Published(t) /\ upload[t] \in Requests
  BY DEF IngestInv, TypeOK
<1>1. PathOf(upload[t]) \in Paths
  BY <1>0, RequestType
<1>2. \A p \in Paths : Kept(p) => Kept(p)'
  <2>1. [Next]_vars
    BY DEF Next, Acts
  <2> QED
    BY <2>1, FilesStayKept
<1>3. ASSUME UNCHANGED <<upload[t], target[t]>> PROVE Published(t)'
  BY <1>0, <1>1, <1>2, <1>3 DEF Published, Kept, PathOf
<1>4. CASE Start(t)
  BY <1>4, <1>3 DEF Start, local
<1>5. CASE (Exists(t) \/ Link(t)) /\ step[t] \in {"store", "link"}
  <2>1. Place(t) = PathOf(upload[t])
    BY <1>5 DEF Place
  <2>2. Kept(PathOf(upload[t]))' /\ upload' = upload
    BY <1>5, <2>1, <1>0, <1>1, <1>2 DEF Exists, Link, Kept, TypeOK, PathOf
  <2> QED
    BY <2>2 DEF Published, Kept, PathOf
<1>6. CASE (Exists(t) \/ Link(t)) /\ step[t] \notin {"store", "link"}
  BY <1>6, <1>3 DEF Exists, Link, Stored
<1>7. CASE ~(Start(t) \/ Exists(t) \/ Link(t))
  <2>1. UNCHANGED <<upload, target>>
    BY <1>7 DEF Acts, Turn, FindDocument, Reuse, FindNoVersion, Count,
       InsertVersion, InsertBoth, Committed, Conflict, Refuse, Copy, Answer,
       DatabaseError, StorageError, local
  <2> QED
    BY <2>1, <1>3
<1> QED
  BY <1>4, <1>5, <1>6, <1>7

\* A computed number continues the document, or was taken by an insertion.
LEMMA NumberFrame ==
    ASSUME TypeOK, NEW t \in Threads, NEW v, Adds(t, v), NEW s \in Threads,
           NumberSound(s), Same(s)
    PROVE  NumberSound(s)'
<1> SUFFICES ASSUME step[s] = "insert" PROVE NumberSound(s)'
  BY DEF NumberSound, Same
<1> DEFINE k == upload[s].key
           n == number[s]
<1>1. \A w \in versions \cup {v} : w.number \in Nat
  BY DEF TypeOK, Rows, Adds
<1>2. n \in Nat
  BY DEF TypeOK
<1>3. versions' = versions \cup {v} /\ Fits(v.key, v.content, v.number)
  BY DEF Adds
<1>4. n >= 1 /\ (n = 1 \/ \E w \in versions' : w.key = k /\ w.number + 1 = n)
  BY <1>3 DEF NumberSound
<1>5. \/ \A w \in versions' : w.key = k => w.number < n
      \/ \E w \in versions' : w.key = k /\ w.number = n
  <2>1. CASE \E w \in versions : w.key = k /\ w.number = n
    BY <2>1, <1>3
  <2>2. CASE (\A w \in versions : w.key = k => w.number < n) /\ v.key = k
    <3>1. v.number = 1 \/ \E w \in versions : w.key = k /\ w.number + 1 = v.number
      BY <1>3, <2>2 DEF Fits
    <3>2. v.number < n \/ v.number = n
      BY <3>1, <2>2, <1>1, <1>2, <1>4
    <3> QED
      BY <3>2, <2>2, <1>3
  <2>3. CASE (\A w \in versions : w.key = k => w.number < n) /\ v.key # k
    BY <2>3, <1>3
  <2> QED
    BY <2>1, <2>2, <2>3 DEF NumberSound
<1> QED
  BY <1>4, <1>5 DEF NumberSound, Same

LEMMA ActsNumber ==
    ASSUME IngestInv, NEW t \in Threads, Acts(t)
    PROVE  NumberSound(t)'
<1>0. TypeOK
  BY DEF IngestInv
<1>1. CASE Count(t)
  <2>1. \A w \in versions : w.number \in Nat \ {0}
    BY <1>0 DEF TypeOK, Rows
  <2>2. PICK n \in {1} \cup {v.number + 1 : v \in versions} :
           IsNext(upload[t].key, n) /\ number' = [number EXCEPT ![t] = n]
    BY <1>1 DEF Count
  <2>3. n \in Nat /\ n >= 1 /\ number'[t] = n /\ UNCHANGED <<upload, versions>>
    BY <1>1, <2>1, <2>2, <1>0 DEF Count, TypeOK
  <2>4. n = 1 \/ \E w \in versions : w.key = upload[t].key /\ w.number + 1 = n
    BY <2>1, <2>2, <2>3 DEF IsNext
  <2>5. \A w \in versions : w.key = upload[t].key => w.number < n
    BY <2>2 DEF IsNext
  <2> QED
    BY <2>3, <2>4, <2>5 DEF NumberSound
<1>2. CASE ~Count(t)
  <2>1. step'[t] # "insert"
    BY <1>2, <1>0 DEF Acts, Start, Turn, FindDocument, Reuse, FindNoVersion,
       InsertVersion, InsertBoth, Committed, Conflict, Exists, Refuse, Copy, Link,
       Stored, NextAttempt, Answer, DatabaseError, StorageError, Moves, TypeOK
  <2> QED
    BY <2>1 DEF NumberSound
<1> QED
  BY <1>1, <1>2

-----------------------------------------------------------------------------
\* After the commit of a version of the same document, the next number is
\* reached as well.
LEMMA AddReaches ==
    ASSUME TypeOK, NEW t \in Threads, NEW v, Adds(t, v), NEW s \in Threads,
           v.key = upload[s].key, NEW a \in Nat, a # 0 => Reached(s, a - 1)
    PROVE  v.number >= a
<1>1. v.number \in Nat \ {0} /\ \A w \in versions : w.number \in Nat
  BY DEF TypeOK, Rows, Adds
<1>2. \A w \in versions : w.key = v.key => w.number < v.number
  BY DEF Adds, Fits
<1>3. CASE a <= 1
  BY <1>1, <1>3
<1>4. CASE a > 1
  <2>1. PICK w \in versions : w.key = v.key /\ w.number >= a - 1
    BY <1>4 DEF Reached
  <2> QED
    BY <2>1, <1>1, <1>2, <1>4
<1> QED
  BY <1>3, <1>4

LEMMA OvertakenFrame ==
    ASSUME TypeOK, NEW s \in Threads, Overtaken(s), Knows(s), Same(s),
           \/ UNCHANGED <<documents, versions>>
           \/ \E t \in Threads, v \in Rows : Adds(t, v)
    PROVE  Overtaken(s)'
<1>0. attempt[s] \in Nat /\ versions \subseteq versions'
  BY DEF TypeOK, Adds
<1>1. CASE UNCHANGED <<documents, versions>>
  BY <1>1 DEF Overtaken, Reached, Matches, Same
<1>2. ASSUME NEW t \in Threads, NEW v \in Rows, Adds(t, v) PROVE Overtaken(s)'
  <2>1. attempt[s] # 0 => Reached(s, attempt[s] - 1)'
    BY <1>0 DEF Overtaken, Reached, Same
  <2>2. Reached(s, attempt[s]) => Reached(s, attempt[s])'
    BY <1>0 DEF Reached, Same
  <2>3. v.key = upload[s].key => Reached(s, attempt[s])'
    <3>1. v.key = upload[s].key => v.number >= attempt[s]
      BY <1>0, <1>2, AddReaches DEF Overtaken
    <3>2. v \in versions'
      BY <1>2 DEF Adds
    <3> QED
      BY <3>1, <3>2 DEF Reached, Same
  <2>4. (\E w \in versions' : Matches(w, s)') =>
            v.key = upload[s].key \/ \E w \in versions : Matches(w, s)
    BY <1>2 DEF Adds, Matches, Same
  <2> QED
    BY <2>1, <2>2, <2>3, <2>4 DEF Overtaken, Same
<1> QED
  BY <1>1, <1>2

LEMMA ActsOvertaken ==
    ASSUME IngestInv, NEW t \in Threads, Start(t) \/ Turn(t), faults = 0
    PROVE  Overtaken(t)'
<1>0. TypeOK /\ RowsSound /\ Knows(t) /\ Overtaken(t)
  BY DEF IngestInv
<1>a. attempt[t] \in Nat /\ \A v \in versions : v.number \in Nat \ {0}
  BY <1>0 DEF TypeOK, Rows
<1>1. CASE Start(t)
  <2>1. attempt[t] = 0 /\ step'[t] = "begin" /\ UNCHANGED <<attempt, target>>
    BY <1>1, <1>0 DEF Start, Moves, TypeOK, Knows, Overtaken, local
  <2> QED
    BY <2>1 DEF Overtaken
<1>2. CASE FindDocument(t)
  <2>1. /\ step'[t] \in {"version", "insertBoth", "store"}
        /\ step'[t] = "insertBoth" => upload[t].key \notin documents
        /\ UNCHANGED <<versions, upload, attempt, target>>
    BY <1>2, <1>0 DEF FindDocument, Moves, TypeOK, local
  <2>2. attempt[t] # 0 => Reached(t, attempt[t] - 1)
    BY <1>0 DEF Overtaken
  <2>3. step'[t] = "insertBoth" => attempt[t] <= 1
    BY <2>1, <2>2, <1>0, <1>a DEF Reached, RowsSound
  <2> QED
    BY <2>1, <2>2, <2>3, <1>0 DEF Overtaken, Reached
<1>3. CASE FindNoVersion(t)
  <2>1. /\ step'[t] \in {"count", "store"} /\ \A v \in versions : ~Matches(v, t)
        /\ UNCHANGED <<versions, upload, attempt, target>>
    BY <1>3, <1>0 DEF FindNoVersion, Moves, TypeOK, local
  <2> QED
    BY <2>1, <1>0 DEF Overtaken, Reached, Matches
<1>4. CASE Count(t)
  <2>1. PICK n \in {1} \cup {v.number + 1 : v \in versions} :
           IsNext(upload[t].key, n) /\ number' = [number EXCEPT ![t] = n]
    BY <1>4 DEF Count
  <2>2. /\ step[t] = "count" /\ step'[t] = "insert" /\ number'[t] = n
        /\ UNCHANGED <<versions, upload, attempt, target>>
    BY <1>4, <2>1, <1>0 DEF Count, Moves, TypeOK
  <2>3. n \in Nat \ {0}
    BY <1>a
  <2>4. n >= attempt[t]
    <3>1. CASE attempt[t] <= 1
      BY <3>1, <2>3, <1>a
    <3>2. CASE attempt[t] > 1
      <4>1. PICK v \in versions : v.key = upload[t].key /\ v.number >= attempt[t] - 1
        BY <3>2, <1>0, <1>a DEF Overtaken, Reached
      <4>2. v.number < n
        BY <4>1, <2>1 DEF IsNext
      <4> QED
        BY <4>1, <4>2, <2>3, <1>a
    <3> QED
      BY <3>1, <3>2, <1>a
  <2> QED
    BY <2>2, <2>4, <1>0 DEF Overtaken, Reached, Matches
<1>5. CASE Reuse(t) \/ Refuse(t) \/ Copy(t) \/ Answer(t)
  <2>1. /\ step'[t] \in {"ensure", "failed", "link", "relink", "done"}
        /\ UNCHANGED <<versions, upload, attempt, target>>
    BY <1>5, <1>0 DEF Reuse, Refuse, Copy, Answer, Moves, TypeOK, local
  <2> QED
    BY <2>1, <1>0 DEF Overtaken, Reached
<1>6. CASE Commits(t)
  <2>1. PICK v : Adds(t, v) /\ Committed(t, v)
    BY <1>6, CommitAdds
  <2>2. /\ step'[t] = "ensure" /\ versions \subseteq versions'
        /\ UNCHANGED <<upload, attempt, target>>
    BY <2>1, <1>0 DEF Committed, Moves, Adds, TypeOK, local
  <2> QED
    BY <2>2, <1>0 DEF Overtaken, Reached
<1>7. CASE Conflict(t)
  <2>1. Reached(t, attempt[t]) /\ target[t]
    <3>1. CASE step[t] = "insert" /\ Taken(RowOf(t, number[t]))
      <4>1. number[t] \in Nat \ {0}
        BY <3>1 DEF IngestInv, NumberSound, TypeOK
      <4>2. PICK w \in versions : w.key = upload[t].key
               /\ (w.number = number[t] \/ w.content = upload[t].content)
        BY <3>1, <4>1, <1>0, RowFields DEF Taken
      <4>3. target[t]
        BY <3>1, <1>0 DEF Knows
      <4>4. CASE w.number = number[t]
        BY <4>2, <4>3, <4>4, <3>1, <1>0, <1>a DEF Overtaken, Reached
      <4>5. CASE w.content = upload[t].content
        BY <4>2, <4>3, <4>5, <3>1, <1>0 DEF Overtaken, Matches
      <4> QED
        BY <4>2, <4>4, <4>5
    <3>2. CASE step[t] = "insertBoth" /\ upload[t].key \in documents
      <4>1. PICK w \in versions : w.key = upload[t].key
        BY <3>2, <1>0 DEF RowsSound
      <4> QED
        BY <4>1, <3>2, <1>0, <1>a DEF Overtaken, Reached, Knows
    <3> QED
      BY <3>1, <3>2, <1>7, <1>0 DEF Conflict, Knows
  <2>2. /\ attempt'[t] = attempt[t] + 1
        /\ step'[t] \in {"exhausted", "begin"}
        /\ UNCHANGED <<versions, upload, target>>
    BY <1>7, <1>0 DEF Conflict, NextAttempt, TypeOK, local
  <2> QED
    BY <2>1, <2>2, <1>a DEF Overtaken, Reached
<1>8. CASE (Exists(t) \/ Link(t)) /\ step[t] \in {"store", "link"}
  <2>1. attempt[t] = 0
    BY <1>8, <1>0 DEF Knows, Overtaken
  <2>2. /\ attempt'[t] = attempt[t] + 1 /\ target'[t]
        /\ step'[t] \in {"exhausted", "begin"}
    BY <1>8, <1>0 DEF Exists, Link, Stored, NextAttempt, TypeOK
  <2> QED
    BY <2>1, <2>2 DEF Overtaken, Reached
<1>9. CASE (Exists(t) \/ Link(t)) /\ step[t] \notin {"store", "link"}
  <2>1. /\ step'[t] = "parse"
        /\ UNCHANGED <<versions, upload, attempt, target>>
    BY <1>9, <1>0 DEF Exists, Link, Stored, Moves, TypeOK
  <2> QED
    BY <2>1, <1>0 DEF Overtaken, Reached
<1>10. Start(t) \/ FindDocument(t) \/ Reuse(t) \/ FindNoVersion(t) \/ Count(t)
       \/ Commits(t) \/ Conflict(t) \/ Exists(t) \/ Link(t) \/ Refuse(t) \/ Copy(t)
       \/ Answer(t)
  BY DEF Turn, Commits
<1> QED
  BY <1>10, <1>1, <1>2, <1>3, <1>4, <1>5, <1>6, <1>7, <1>8, <1>9

LEMMA FaultsOnlyGrow ==
    ASSUME IngestInv, [Next]_vars, faults' = 0
    PROVE  /\ faults = 0
           /\ (\E t \in Threads : Start(t) \/ Turn(t)) \/ UNCHANGED vars
<1>0. faults \in Nat
  BY IngestionAssumption DEF IngestInv, TypeOK
<1>1. ASSUME NEW t \in Threads, DatabaseError(t) \/ StorageError(t) PROVE FALSE
  BY <1>0, <1>1 DEF DatabaseError, StorageError
<1>2. ASSUME NEW p \in Paths, Harm(p) PROVE FALSE
  BY <1>0, <1>2 DEF Harm
<1>3. ASSUME NEW p \in Processes, Crash(p) PROVE FALSE
  BY <1>0, <1>3 DEF Crash
<1>4. ASSUME NEW t \in Threads, Start(t) \/ Turn(t) PROVE faults' = faults
  BY <1>4 DEF Start, Turn, FindDocument, Reuse, FindNoVersion, Count, InsertVersion,
     InsertBoth, Committed, Conflict, Exists, Refuse, Copy, Link, Answer
<1> QED
  BY <1>1, <1>2, <1>3, <1>4 DEF Next, vars

LEMMA OvertakenStep ==
    ASSUME IngestInv, [Next]_vars, faults' = 0, NEW s \in Threads
    PROVE  Overtaken(s)'
<1>0. TypeOK /\ Knows(s) /\ Overtaken(s) /\ faults = 0
  BY FaultsOnlyGrow DEF IngestInv
<1>1. CASE UNCHANGED vars
  BY <1>0, <1>1 DEF Overtaken, Reached, Matches, vars, local
<1>2. ASSUME NEW t \in Threads, Start(t) \/ Turn(t), s # t PROVE Overtaken(s)'
  <2>1. Acts(t) /\ Same(s)
    BY <1>0, <1>2, OnlyOne DEF Acts, Only
  <2>2. CASE Commits(t)
    <3>1. PICK v : Adds(t, v)
      BY <2>2, CommitAdds
    <3>2. v \in Rows
      BY <3>1 DEF Adds
    <3> QED
      BY <3>1, <3>2, <2>1, <1>0, OvertakenFrame
  <2>3. CASE ~Commits(t)
    BY <2>1, <2>3, <1>0, RowsOnlyByCommits, OvertakenFrame
  <2> QED
    BY <2>2, <2>3
<1>3. ASSUME NEW t \in Threads, Start(t) \/ Turn(t), s = t PROVE Overtaken(s)'
  BY <1>0, <1>3, ActsOvertaken
<1> QED
  BY <1>1, <1>2, <1>3, FaultsOnlyGrow

-----------------------------------------------------------------------------
\* A crash only ends requests.
LEMMA CrashKnows ==
    ASSUME IngestInv, NEW p \in Processes, Crash(p), NEW s \in Threads
    PROVE  Knows(s)' /\ Published(s)' /\ NumberSound(s)'
<1>0. TypeOK /\ Knows(s) /\ Published(s) /\ NumberSound(s)
  BY DEF IngestInv
<1>1. /\ step'[s] = step[s] \/ step'[s] = "dead"
      /\ UNCHANGED <<documents, versions, files, harmed, upload, target, number,
                     attempt, found, created>>
  BY DEF Crash, store, local
<1>3. CASE step'[s] = step[s]
  BY <1>0, <1>1, <1>3 DEF Knows, Published, NumberSound
<1>4. CASE step'[s] = "dead"
  <2>1. Knows(s)'
    BY <1>0, <1>1, <1>4 DEF Knows, Ended
  <2> QED
    BY <2>1, <1>0, <1>1, <1>4 DEF Published, NumberSound
<1> QED
  BY <1>1, <1>3, <1>4

LEMMA ThreadsStep ==
    ASSUME IngestInv, [Next]_vars, NEW s \in Threads
    PROVE  Knows(s)' /\ Published(s)' /\ NumberSound(s)'
<1>0. TypeOK /\ NumberSound(s)
  BY DEF IngestInv
<1>1. ASSUME Same(s), UNCHANGED versions PROVE NumberSound(s)'
  BY <1>0, <1>1 DEF NumberSound, Same
<1>2. CASE UNCHANGED vars \/ \E p \in Paths : Harm(p)
  <2>1. Same(s) /\ UNCHANGED versions
    BY <1>2 DEF vars, Harm, local, Same
  <2> QED
    BY <2>1, <1>1, KnowsFrame
<1>3. ASSUME NEW p \in Processes, Crash(p)
      PROVE  Knows(s)' /\ Published(s)' /\ NumberSound(s)'
  BY <1>3, CrashKnows
<1>4. ASSUME Acts(s) PROVE Knows(s)' /\ Published(s)' /\ NumberSound(s)'
  BY <1>4, ActsKnows, ActsPublished, ActsNumber
<1>5. ASSUME NEW t \in Threads, Acts(t), s # t
      PROVE  Knows(s)' /\ Published(s)' /\ NumberSound(s)'
  <2>1. Same(s)
    BY <1>0, <1>5, OnlyOne DEF Only
  <2>2. CASE Commits(t)
    BY <2>1, <2>2, <1>0, CommitAdds, NumberFrame, KnowsFrame
  <2>3. CASE ~Commits(t)
    BY <2>1, <2>3, <1>5, <1>1, RowsOnlyByCommits, KnowsFrame
  <2> QED
    BY <2>2, <2>3
<1> QED
  BY <1>2, <1>3, <1>4, <1>5 DEF Next, Acts

LEMMA IngestStep == IngestInv /\ [Next]_vars => IngestInv'
<1> SUFFICES ASSUME IngestInv, [Next]_vars PROVE IngestInv'
  OBVIOUS
<1>1. TypeOK' /\ RowsSound' /\ StoredUnlessHarmed' /\ CreatorsDiffer'
  BY TypeStep, RowsStep, StoredStep, CreatorsStep
<1>2. \A s \in Threads : Knows(s)' /\ Published(s)' /\ NumberSound(s)'
  BY ThreadsStep
<1>3. faults' = 0 => \A s \in Threads : Overtaken(s)'
  BY OvertakenStep
<1> QED
  BY <1>1, <1>2, <1>3 DEF IngestInv

THEOREM IngestInvariant == Spec => []IngestInv
  BY InitInv, IngestStep, PTL DEF Spec

-----------------------------------------------------------------------------
\* Every variable keeps its type: attempts stay within _MAX_DB_ATTEMPTS.
THEOREM IngestTypeOK == Spec => []TypeOK
<1>1. IngestInv => TypeOK
  BY DEF IngestInv
<1> QED
  BY <1>1, IngestInvariant, PTL

\* However many uploads overlap, the look-ups, the unique constraints and the
\* retries together leave one row per content and number, without a gap, and
\* no document without a version.
THEOREM IngestRowsSound == Spec => []RowsSound
<1>1. IngestInv => RowsSound
  BY DEF IngestInv
<1> QED
  BY <1>1, IngestInvariant, PTL

\* A version is committed only after its bytes were published under its path.
THEOREM IngestStoredUnlessHarmed == Spec => []StoredUnlessHarmed
<1>1. IngestInv => StoredUnlessHarmed
  BY DEF IngestInv
<1> QED
  BY <1>1, IngestInvariant, PTL

\* A request that ends well answers with a committed version of what it
\* brought, and one version has one creator.
AnswersAgree ==
    /\ \A t \in Threads : step[t] = "done" =>
        /\ found[t] \in versions
        /\ found[t].key = upload[t].key
        /\ found[t].content = upload[t].content
    /\ CreatorsDiffer

THEOREM IngestAnswersAgree == Spec => []AnswersAgree
<1>1. IngestInv => AnswersAgree
  BY DEF IngestInv, AnswersAgree, Knows
<1> QED
  BY <1>1, IngestInvariant, PTL

\* Without faults the bounded loop gives up only if each attempt but the
\* first met another upload's commit.
THEOREM IngestGivesUpOnlyOvertaken == Spec => []GivesUpOnlyOvertaken
<1>1. ASSUME IngestInv, faults = 0, NEW t \in Threads, step[t] = "exhausted"
      PROVE  \/ MaxAttempts = 1
             \/ \E v \in versions : v.key = upload[t].key /\ v.number >= MaxAttempts - 1
  BY <1>1, IngestionAssumption DEF IngestInv, Knows, Overtaken, Reached
<1>2. IngestInv => GivesUpOnlyOvertaken
  BY <1>1 DEF GivesUpOnlyOvertaken
<1> QED
  BY <1>2, IngestInvariant, PTL

-----------------------------------------------------------------------------
(* The uploads implement VersionRegister: the commit of a version is the   *)
(* step that makes it, the end of a request is its answer, and everything  *)
(* in between, retries and files included, is a stutter.                   *)

\* What the register sees of the threads that do not act.
LEMMA RegisterFrame ==
    ASSUME TypeOK, NEW t \in Threads, Only(t)
    PROVE  /\ Requested' = [Requested EXCEPT ![t] = [key |-> upload'[t].key,
                                                  content |-> upload'[t].content]]
           /\ StagesOf' = [StagesOf EXCEPT ![t] = StageOf(t)']
           /\ Answers' = [Answers EXCEPT ![t] = AnswerOf(t)']
<1>1. ASSUME NEW s \in Threads, s # t
      PROVE  /\ upload'[s] = upload[s]
             /\ StageOf(s)' = StageOf(s)
             /\ AnswerOf(s)' = AnswerOf(s)
  <2>1. UNCHANGED <<upload[s], step[s], created[s], found[s]>>
    BY <1>1 DEF Only, Same
  <2> QED
    BY <2>1 DEF StageOf, AnswerOf
<1> QED
  BY <1>1 DEF Requested, StagesOf, Answers

\* A step that neither begins a request nor commits or looks up a version goes
\* on with the request, or ends it.
GoesOn(t) == Acts(t) /\ ~Commits(t) /\ ~Start(t) /\ ~Reuse(t)

LEMMA GoesOnOrEnds ==
    ASSUME IngestInv, NEW t \in Threads, GoesOn(t)
    PROVE  /\ UNCHANGED <<upload, versions, created>>
           /\ step[t] \notin Ended \cup {"idle"}
           /\ step'[t] # "idle"
           /\ step'[t] = "done" => step[t] = "parse" /\ found' = found
<1>0. TypeOK /\ Knows(t)
  BY DEF IngestInv
<1>1. created' = created
  BY <1>0, CreatorsOnlyByCommits DEF GoesOn
<1>2. versions' = versions
  BY RowsOnlyByCommits DEF GoesOn
<1>3. CASE FindDocument(t) \/ FindNoVersion(t) \/ Count(t) \/ Refuse(t) \/ Copy(t) \/ Answer(t)
  BY <1>0, <1>1, <1>2, <1>3 DEF FindDocument, FindNoVersion, Count, Refuse, Copy, Answer,
     Moves, TypeOK, Ended, Storing, local
<1>4. CASE Exists(t) \/ Link(t)
  BY <1>0, <1>1, <1>2, <1>4 DEF Exists, Link, Stored, NextAttempt, Moves, TypeOK, Ended, Storing
<1>5. CASE Conflict(t) \/ DatabaseError(t) \/ StorageError(t)
  BY <1>0, <1>1, <1>2, <1>5 DEF Conflict, DatabaseError, StorageError, NextAttempt, Moves,
     TypeOK, Ended, Storing, Reading, local
<1> QED
  BY <1>3, <1>4, <1>5 DEF GoesOn, Acts, Turn, Commits

LEMMA SameEntries ==
    ASSUME versions' = versions
    PROVE  Entries' = Entries
BY DEF Entries, EntryOf

LEMMA StartAsks ==
    ASSUME IngestInv, NEW t \in Threads, Start(t)
    PROVE  Register!Ask(t)
<1>0. TypeOK /\ Knows(t) /\ Only(t)
  BY OnlyOne DEF IngestInv, Acts
<1>1. step[t] = "idle" /\ step'[t] = "begin" /\ ~created[t]
  BY <1>0 DEF Start, Moves, Knows, TypeOK, Ended
<1>2. UNCHANGED <<versions, created, upload>>
  BY DEF Start, local
<1>3. StagesOf[t] = "idle" /\ StageOf(t)' = "asked"
  BY <1>1, <1>2 DEF StagesOf, StageOf
<1>4. AnswerOf(t)' = Answers[t]
  BY <1>1 DEF AnswerOf, Answers
<1>5. Entries' = Entries /\ Requested' = Requested
  BY <1>2, SameEntries DEF Requested
<1>6. Answers' = Answers
  BY <1>0, <1>4, RegisterFrame DEF Answers
<1> QED
  BY <1>0, <1>3, <1>5, <1>6, RegisterFrame DEF Register!Ask

\* A request that looks a version up again is the same to the register, unless
\* the version is its own: then it has asked again.
LEMMA ReuseAsksAgain ==
    ASSUME IngestInv, NEW t \in Threads, Reuse(t)
    PROVE  Register!AskAgain(t) \/ UNCHANGED Register!registerVars
<1>0. TypeOK /\ Only(t)
  BY OnlyOne DEF IngestInv, Acts, Turn
<1>1. step[t] = "version" /\ step'[t] = "ensure" /\ ~created'[t]
  BY <1>0 DEF Reuse, Moves, TypeOK
<1>2. UNCHANGED <<versions, upload>>
  BY DEF Reuse, local
<1>3. /\ StagesOf[t] = IF created[t] THEN "made" ELSE "asked"
      /\ StageOf(t)' = "asked"
  BY <1>1 DEF StagesOf, StageOf
<1>4. AnswerOf(t)' = Answers[t]
  BY <1>1 DEF AnswerOf, Answers
<1>5. Entries' = Entries /\ Requested' = Requested
  BY <1>2, SameEntries DEF Requested
<1>6. Answers' = Answers
  BY <1>0, <1>4, RegisterFrame DEF Answers
<1>7. StagesOf' = [StagesOf EXCEPT ![t] = "asked"]
  BY <1>0, <1>3, RegisterFrame
<1>8. CASE created[t]
  BY <1>3, <1>5, <1>6, <1>7, <1>8 DEF Register!AskAgain
<1>9. CASE ~created[t]
  <2>1. StagesOf' = StagesOf
    BY <1>3, <1>7, <1>9 DEF StagesOf
  <2> QED
    BY <2>1, <1>5, <1>6 DEF Register!registerVars
<1> QED
  BY <1>8, <1>9

\* The number that a thread computed earlier still continues those of the
\* document when its version is committed, or the constraints refuse it.
LEMMA CommitMakes ==
    ASSUME IngestInv, NEW t \in Threads, Commits(t)
    PROVE  Register!Make(t)
<1>0. TypeOK /\ Knows(t) /\ Only(t)
  BY OnlyOne DEF IngestInv, Acts, Commits, Turn
<1>1. PICK v : Adds(t, v) /\ Committed(t, v)
  BY CommitAdds
<1>2. step[t] \in {"insert", "insertBoth"} /\ step'[t] = "ensure" /\ created'[t]
  BY <1>0, <1>1 DEF Commits, InsertVersion, InsertBoth, Committed, Moves, TypeOK
<1>3. ~created[t] /\ upload' = upload
  BY <1>0, <1>1, <1>2 DEF Knows, Ended, Committed, local
<1>4. StagesOf[t] = "asked" /\ StageOf(t)' = "made"
  BY <1>2, <1>3 DEF StagesOf, StageOf
<1>5. Requested[t].key = upload[t].key /\ Requested[t].content = upload[t].content
  BY DEF Requested
<1>6. AnswerOf(t)' = Answers[t] /\ Requested' = Requested
  BY <1>2, <1>3 DEF AnswerOf, Answers, Requested
<1>7. Answers' = Answers
  BY <1>0, <1>6, RegisterFrame DEF Answers
<1>8. v.key = upload[t].key /\ v.content = upload[t].content /\ v.number \in Nat \ {0}
  BY <1>1 DEF Adds, Rows
<1>9. Entries' = Entries \cup {EntryOf(v)}
  BY <1>1 DEF Adds, Entries, EntryOf
<1>10. Register!Entered(t) = {}
  BY <1>1, <1>5, <1>8 DEF Adds, Fits, Entries, EntryOf, Register!Entered
<1>11. Register!Continues(Requested[t].key, v.number)
  <2>1. \A w \in versions : w.key = upload[t].key => w.number < v.number
    BY <1>1 DEF Adds, Fits
  <2>2. v.number = 1 \/ \E w \in versions : w.key = upload[t].key /\ w.number + 1 = v.number
    BY <1>1 DEF Adds, Fits
  <2>3. \A e \in Entries : e.key = upload[t].key => e.number < v.number
    BY <2>1 DEF Entries, EntryOf
  <2>4. ASSUME NEW w \in versions, w.key = upload[t].key, w.number + 1 = v.number
        PROVE  \E e \in Entries : e.key = upload[t].key /\ e.number + 1 = v.number
    <3>1. EntryOf(w) \in Entries
      BY DEF Entries
    <3>2. EntryOf(w).key = upload[t].key /\ EntryOf(w).number + 1 = v.number
      BY <2>4 DEF EntryOf
    <3> QED
      BY <3>1, <3>2
  <2> QED
    BY <1>5, <2>2, <2>3, <2>4 DEF Register!Continues
<1>12. v.number \in {1} \cup {e.number + 1 : e \in Entries}
  BY <1>11 DEF Register!Continues
<1> QED
  BY <1>0, <1>4, <1>5, <1>6, <1>7, <1>8, <1>9, <1>10, <1>11, <1>12, RegisterFrame
  DEF Register!Make, EntryOf

\* A request that goes on is the same to the register, unless it ends: with
\* the entry of the version that it has found or made, or with none.
LEMMA GoesOnAnswers ==
    ASSUME IngestInv, NEW t \in Threads, GoesOn(t)
    PROVE  \/ UNCHANGED Register!registerVars
           \/ Register!Answer(t)
           \/ Register!Leave({t})
<1>0. TypeOK /\ Knows(t) /\ Only(t)
  BY OnlyOne DEF IngestInv, GoesOn
<1>1. /\ UNCHANGED <<upload, versions, created>>
      /\ step[t] \notin Ended \cup {"idle"} /\ step'[t] # "idle"
  BY GoesOnOrEnds
<1>2. Entries' = Entries /\ Requested' = Requested
  BY <1>1, SameEntries DEF Requested
<1>3. StagesOf[t] = IF created[t] THEN "made" ELSE "asked"
  BY <1>1 DEF StagesOf, StageOf, Ended
<1>4. Answers[t] = None
  BY <1>1 DEF Answers, AnswerOf, Ended
<1>5. CASE step'[t] = "done"
  <2>1. step[t] = "parse" /\ found' = found
    BY <1>5, GoesOnOrEnds
  <2>2. /\ found[t] \in versions
        /\ found[t].key = upload[t].key /\ found[t].content = upload[t].content
    BY <2>1, <1>0 DEF Knows
  <2>3. StageOf(t)' = "answered"
    BY <1>5 DEF StageOf
  <2>4. AnswerOf(t)' = [entry |-> EntryOf(found[t]), made |-> created[t]]
    BY <1>1, <1>5, <2>1 DEF AnswerOf, EntryOf
  <2>5. EntryOf(found[t]) \in Register!Entered(t)
    BY <2>2 DEF Register!Entered, Entries, EntryOf, Requested
  <2>6. created[t] \in BOOLEAN
    BY <1>0 DEF TypeOK
  <2>7. created[t] = (StagesOf[t] = "made") /\ StagesOf[t] \in {"asked", "made"}
    BY <1>3, <2>6
  <2> QED
    BY <1>0, <1>2, <2>3, <2>4, <2>5, <2>7, RegisterFrame DEF Register!Answer
<1>6. CASE step'[t] \in {"exhausted", "failed", "dead"}
  <2>1. StageOf(t)' = "gone" /\ AnswerOf(t)' = None
    BY <1>6 DEF StageOf, AnswerOf
  <2>2. Answers' = Answers
    BY <1>0, <1>4, <2>1, RegisterFrame DEF Answers
  <2>3. StagesOf' = [c \in Threads |-> IF c \in {t} THEN "gone" ELSE StagesOf[c]]
    BY <1>0, <2>1, RegisterFrame DEF StagesOf
  <2> QED
    BY <1>2, <1>3, <2>2, <2>3 DEF Register!Leave
<1>7. CASE step'[t] \notin Ended
  <2>1. StageOf(t)' = StagesOf[t] /\ AnswerOf(t)' = Answers[t]
    BY <1>1, <1>3, <1>4, <1>7 DEF StageOf, AnswerOf, Ended
  <2>2. StagesOf' = StagesOf /\ Answers' = Answers
    BY <1>0, <2>1, RegisterFrame DEF StagesOf, Answers
  <2> QED
    BY <1>2, <2>2 DEF Register!registerVars
<1> QED
  BY <1>5, <1>6, <1>7 DEF Ended

\* A process that dies leaves with all its requests that have not ended.
LEMMA CrashLeaves ==
    ASSUME IngestInv, NEW p \in Processes, Crash(p)
    PROVE  \E C \in SUBSET Threads : Register!Leave(C)
<1> DEFINE C == {t \in Threads : t[1] = p /\ step[t] \notin Ended}
<1>0. TypeOK
  BY DEF IngestInv
<1>1. UNCHANGED <<versions, upload, found, created>>
  BY DEF Crash, local
<1>2. \A t \in Threads : step'[t] = IF t \in C THEN "dead" ELSE step[t]
  BY DEF Crash
<1>3. Entries' = Entries /\ Requested' = Requested
  BY <1>1, SameEntries DEF Requested
<1>4. ASSUME NEW t \in Threads
      PROVE  /\ StageOf(t)' = IF t \in C THEN "gone" ELSE StagesOf[t]
             /\ AnswerOf(t)' = Answers[t]
             /\ t \in C => StagesOf[t] # "answered"
  <2>1. CASE t \in C
    <3>1. step'[t] = "dead" /\ step[t] # "done"
      BY <1>2, <2>1 DEF Ended
    <3>2. StagesOf[t] # "answered" /\ StageOf(t)' = "gone"
      BY <3>1, <1>1 DEF StagesOf, StageOf
    <3>3. AnswerOf(t)' = Answers[t]
      BY <3>1 DEF Answers, AnswerOf
    <3> QED
      BY <2>1, <3>2, <3>3
  <2>2. CASE t \notin C
    <3>1. step'[t] = step[t]
      BY <1>2, <2>2
    <3> HIDE DEF C
    <3>2. StageOf(t)' = StagesOf[t] /\ AnswerOf(t)' = Answers[t]
      BY <3>1, <1>1 DEF StageOf, StagesOf, AnswerOf, Answers
    <3> QED
      BY <2>2, <3>2
  <2> QED
    BY <2>1, <2>2
<1> HIDE DEF C
<1>5. StagesOf' = [c \in Threads |-> IF c \in C THEN "gone" ELSE StagesOf[c]]
  BY <1>4 DEF StagesOf
<1>6. Answers' = Answers
  BY <1>4 DEF Answers
<1>7. C \in SUBSET Threads
  BY DEF C
<1> QED
  BY <1>3, <1>4, <1>5, <1>6, <1>7 DEF Register!Leave

\* Every step of the uploads is one of the register, or a stutter.
LEMMA RegisterStep ==
    ASSUME IngestInv, [Next]_vars
    PROVE  [Register!Next]_(Register!registerVars)
<1>1. ASSUME NEW t \in Threads, Start(t) \/ Commits(t) PROVE Register!Next
  BY <1>1, StartAsks, CommitMakes DEF Register!Next
<1>7. ASSUME NEW t \in Threads, Reuse(t) PROVE [Register!Next]_(Register!registerVars)
  BY <1>7, ReuseAsksAgain DEF Register!Next
<1>2. ASSUME NEW t \in Threads, GoesOn(t) PROVE [Register!Next]_(Register!registerVars)
  <2>1. {t} \in SUBSET Threads
    OBVIOUS
  <2> QED
    BY <1>2, <2>1, GoesOnAnswers DEF Register!Next
<1>3. ASSUME NEW p \in Processes, Crash(p) PROVE Register!Next
  BY <1>3, CrashLeaves DEF Register!Next
<1>4. ASSUME UNCHANGED <<upload, versions, step, found, created>>
      PROVE  UNCHANGED Register!registerVars
  BY <1>4 DEF Register!registerVars, Entries, EntryOf, Requested, StagesOf, StageOf,
     Answers, AnswerOf
<1>5. ASSUME NEW p \in Paths, Harm(p) PROVE UNCHANGED Register!registerVars
  BY <1>4, <1>5 DEF Harm, local
<1>6. CASE UNCHANGED vars
  BY <1>4, <1>6 DEF vars, local
<1> QED
  BY <1>1, <1>2, <1>3, <1>5, <1>6, <1>7 DEF Next, Acts, Commits, GoesOn

LEMMA RegisterInit == Init => Register!Init
<1> SUFFICES ASSUME Init PROVE Register!Init
  OBVIOUS
<1>1. Entries = {}
  BY DEF Init, Entries
<1>2. Requested \in [Threads -> Register!Brought]
  <2>1. \A t \in Threads : upload[t] \in Requests
    BY DEF Init
  <2> QED
    BY <2>1, RequestType DEF Requested, Register!Brought
<1>3. \A t \in Threads : StageOf(t) = "idle" /\ AnswerOf(t) = None
  BY DEF Init, StageOf, AnswerOf
<1> QED
  BY <1>1, <1>2, <1>3 DEF Register!Init, StagesOf, Answers

\* However uploads overlap in and across processes, fail and die, each content
\* is registered once, in one step, and each answer is an entry of the register.
THEOREM IngestImplementsRegister == Spec => ImplementsRegister
<1>1. IngestInv /\ [Next]_vars => [Register!Next]_(Register!registerVars)
  BY RegisterStep
<1> QED
  BY <1>1, RegisterInit, IngestInvariant, PTL DEF Spec, ImplementsRegister, Register!Spec

===============================================================================
