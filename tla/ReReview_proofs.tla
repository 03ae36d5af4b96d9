--------------------------- MODULE ReReview_proofs ---------------------------
(***************************************************************************)
(* Proofs about re-reviews, for any number of threads, requirements,       *)
(* versions and runs.                                                      *)
(***************************************************************************)
EXTENDS ReReview, TLAPS

\* Runs start in the order of their rows, at most one is in execution, and
\* only a run that has started has left assessments.
WorkerSound ==
    /\ worker.run # NoRun =>
        /\ runs[worker.run].status = "running"
        /\ worker.todo \subseteq runs[worker.run].ids
        /\ worker.allowed \in Versions
    /\ worker.run = NoRun => worker.todo = {}

Unstarted == {"absent", "queued"}

InOrder ==
    \A j, k \in RunIds : j < k =>
        /\ runs[j].status \in Unstarted => runs[k].status \in Unstarted
        /\ runs[j].status = "absent" => runs[k].status = "absent"

RowsOfStarted ==
    \A k \in RunIds, r \in Reqs :
        rows[k][r].state # "absent" => runs[k].status \notin Unstarted

\* What holds however runs and requests overlap.
OrderInv == TypeOK /\ WorkerSound /\ InOrder /\ RowsOfStarted

-----------------------------------------------------------------------------
\* The operators that change the tables, entry by entry.
LEMMA InvalidatedEntries ==
    ASSUME NEW table \in [RunIds -> [Reqs -> Assessments]], NEW S \in SUBSET Reqs
    PROVE  /\ Invalidated(table, S) \in [RunIds -> [Reqs -> Assessments]]
           /\ \A k \in RunIds, r \in Reqs :
                /\ r \in S => ~ Current(Invalidated(table, S), k, r)
                /\ r \notin S => Invalidated(table, S)[k][r] = table[k][r]
                /\ Invalidated(table, S)[k][r].state = "absent"
                    <=> table[k][r].state = "absent"
                /\ ~ Current(table, k, r)
                    => Invalidated(table, S)[k][r] = table[k][r]
BY DEF Invalidated, Invalid, Current, Assessments

\* The ids of the runs are natural numbers.
LEMMA RunIdsAreNat == RunIds \subseteq Nat \ {0}
BY ReReviewAssumption DEF RunIds

-----------------------------------------------------------------------------
\* Types.

LEMMA InitTyped == Init => TypeOK
BY ReReviewAssumption DEF Init, TypeOK, Runs, Assessments, NoRow, NoRequest,
    IdleWorker, Versions, NoRun, Ended

LEMMA StepTyped == TypeOK /\ [Next]_vars => TypeOK'
<1> SUFFICES ASSUME TypeOK, [Next]_vars PROVE TypeOK'
    OBVIOUS
<1> USE ReReviewAssumption
<1>1. CASE Upload
    BY <1>1 DEF Upload, TypeOK, Versions
<1>2. ASSUME NEW k \in RunIds, NEW S \in SUBSET Reqs, NEW a \in BOOLEAN, Insert(k, S, a)
      PROVE  runs' \in [RunIds -> Runs] /\ reused' \subseteq Reqs
    BY <1>2 DEF Insert, TypeOK, Runs
<1>3. CASE StartReview
    BY <1>2, <1>3 DEF StartReview, TypeOK
<1>4. ASSUME NEW c \in Clients, LookUp(c) PROVE TypeOK'
    BY <1>4 DEF LookUp, TypeOK, Affected
<1>5. ASSUME NEW c \in Clients, Invalidate(c) PROVE TypeOK'
    <2>1. request[c].affected \in SUBSET Reqs /\ request[c].alone \in BOOLEAN
        BY DEF TypeOK
    <2>2. rows' \in [RunIds -> [Reqs -> Assessments]]
        BY <1>5, <2>1, InvalidatedEntries DEF Invalidate, TypeOK
    <2>3. runs' \in [RunIds -> Runs] /\ reused' \subseteq Reqs
        <3>1. CASE UNCHANGED runs /\ reused' = reused \cup request[c].affected
            BY <2>1, <3>1 DEF TypeOK
        <3>2. CASE \E k \in RunIds :
                    Insert(k, request[c].affected, request[c].alone)
            BY <1>2, <2>1, <3>2
        <3> QED
            BY <1>5, <3>1, <3>2 DEF Invalidate, ToReview
    <2> QED
        BY <1>5, <2>2, <2>3 DEF Invalidate, TypeOK, NoRequest
<1>6. ASSUME NEW k \in RunIds, Begin(k) PROVE TypeOK'
    <2>1. runs' \in [RunIds -> Runs]
        <3>1. runs[k] \in Runs
            BY DEF TypeOK
        <3>2. [runs[k] EXCEPT !.status = "running"] \in Runs
            BY <3>1 DEF Runs
        <3> QED
            BY <1>6, <3>2 DEF Begin, TypeOK
    <2>2. request' \in [Clients -> [step : {"idle", "computed"},
                                    affected : SUBSET Reqs, alone : BOOLEAN]]
        BY <1>6 DEF Begin, TypeOK
    <2>3. worker' \in [run : RunIds \cup {NoRun}, todo : SUBSET Reqs,
                       allowed : Versions \cup {0}]
        BY <1>6 DEF Begin, TypeOK, Runs, Allowed
    <2> QED
        BY <1>6, <2>1, <2>2, <2>3 DEF Begin, TypeOK
<1>7. ASSUME NEW r \in Reqs, Review(r) PROVE TypeOK'
    <2>1. PICK cites \in SUBSET (1 .. worker.allowed) :
            rows' = [rows EXCEPT ![worker.run][r] =
                [state |-> "current", cites |-> cites, seen |-> worker.allowed]]
        BY <1>7 DEF Review
    <2>2. cites \in SUBSET Versions /\ worker.allowed \in Versions \cup {0}
        BY DEF TypeOK, Versions
    <2> QED
        BY <1>7, <2>1, <2>2 DEF Review, TypeOK, Assessments
<1>e. ASSUME NEW s \in Ended, worker' = IdleWorker,
             runs' = [runs EXCEPT ![worker.run].status = s],
             UNCHANGED <<latest, rows, request, reused>>
      PROVE  TypeOK'
    <2>1. runs' \in [RunIds -> Runs]
        <3>1. \A j \in RunIds : [runs[j] EXCEPT !.status = s] \in Runs
            <4> TAKE j \in RunIds
            <4>1. runs[j] \in Runs
                BY DEF TypeOK
            <4>2. s \in Ended \cup {"absent", "queued", "running"}
                BY <1>e
            <4> HIDE DEF Ended
            <4> QED
                BY <4>1, <4>2 DEF Runs
        <3> QED
            BY <1>e, <3>1 DEF TypeOK
    <2>2. IdleWorker \in [run : RunIds \cup {NoRun}, todo : SUBSET Reqs,
                          allowed : Versions \cup {0}]
        BY DEF IdleWorker
    <2> QED
        BY <1>e, <2>1, <2>2 DEF TypeOK
<1>8. CASE Finish
    BY <1>8, <1>e DEF Finish, Ended
<1>9. CASE Fail
    BY <1>9, <1>e DEF Fail, Ended
<1>10. CASE UNCHANGED vars
    BY <1>10 DEF vars, TypeOK
<1> QED
    BY <1>1, <1>3, <1>4, <1>5, <1>6, <1>7, <1>8, <1>9, <1>10 DEF Next

-----------------------------------------------------------------------------
\* The order of the runs.

\* A new run comes after all others, queued.
LEMMA InsertKeepsOrder ==
    ASSUME OrderInv, NEW k \in RunIds, NEW S \in SUBSET Reqs, NEW a,
           NextRun(k), Insert(k, S, a), UNCHANGED worker
    PROVE  /\ WorkerSound' /\ InOrder'
           /\ \A j \in RunIds : runs[j].status \notin Unstarted
                => runs'[j].status \notin Unstarted
<1> USE RunIdsAreNat DEF OrderInv, TypeOK, NextRun, Insert, Unstarted
<1>1. WorkerSound'
    BY DEF WorkerSound, NoRun
<1>2. InOrder'
    BY DEF InOrder
<1> QED
    BY <1>1, <1>2

LEMMA InitOrdered == Init => OrderInv
BY InitTyped DEF Init, OrderInv, WorkerSound, InOrder, RowsOfStarted, Unstarted,
    IdleWorker, NoRow, NoRun

LEMMA StepOrdered == OrderInv /\ [Next]_vars => OrderInv'
<1> SUFFICES ASSUME OrderInv, [Next]_vars PROVE (WorkerSound /\ InOrder /\ RowsOfStarted)'
    BY StepTyped DEF OrderInv
<1> USE RunIdsAreNat DEF Unstarted
<1>t. TypeOK /\ TypeOK' /\ WorkerSound /\ InOrder /\ RowsOfStarted
    BY StepTyped DEF OrderInv
<1>1. CASE Upload
    BY <1>1, <1>t DEF Upload, WorkerSound, InOrder, RowsOfStarted
<1>2. CASE StartReview
    <2>1. PICK k \in RunIds : NextRun(k) /\ Insert(k, Reqs, FALSE)
        BY <1>2 DEF StartReview
    <2> QED
        BY <1>2, <1>t, <2>1, InsertKeepsOrder DEF StartReview, RowsOfStarted
<1>3. ASSUME NEW c \in Clients, LookUp(c) PROVE (WorkerSound /\ InOrder /\ RowsOfStarted)'
    BY <1>3, <1>t DEF LookUp, WorkerSound, InOrder, RowsOfStarted
<1>4. ASSUME NEW c \in Clients, Invalidate(c)
      PROVE  (WorkerSound /\ InOrder /\ RowsOfStarted)'
    <2>1. request[c].affected \in SUBSET Reqs
        BY <1>t DEF TypeOK
    <2>2. \A k \in RunIds, r \in Reqs :
            rows'[k][r].state = "absent" <=> rows[k][r].state = "absent"
        BY <1>4, <1>t, <2>1, InvalidatedEntries DEF Invalidate, TypeOK
    <2>3. CASE UNCHANGED runs
        <3>1. UNCHANGED <<worker, runs>>
            BY <1>4, <2>3 DEF Invalidate
        <3>2. WorkerSound' /\ InOrder'
            BY <1>t, <3>1 DEF WorkerSound, InOrder
        <3> QED
            BY <1>t, <2>2, <3>1, <3>2 DEF RowsOfStarted
    <2>4. CASE \E k \in RunIds :
                /\ NextRun(k)
                /\ Insert(k, ToReview(request[c].affected, rows'), request[c].alone)
        <3>1. PICK k \in RunIds :
                /\ NextRun(k)
                /\ Insert(k, request[c].affected, request[c].alone)
            BY <2>4 DEF ToReview
        <3>2. /\ WorkerSound' /\ InOrder'
              /\ \A j \in RunIds : runs[j].status \notin Unstarted
                    => runs'[j].status \notin Unstarted
            BY <1>4, <2>1, <3>1, InsertKeepsOrder DEF Invalidate
        <3> QED
            BY <1>t, <2>2, <3>2 DEF RowsOfStarted
    <2> QED
        BY <1>4, <2>3, <2>4 DEF Invalidate
<1>5. ASSUME NEW k \in RunIds, Begin(k) PROVE (WorkerSound /\ InOrder /\ RowsOfStarted)'
    <2>1. /\ runs' = [runs EXCEPT ![k].status = "running"]
          /\ worker' = [run |-> k, todo |-> runs[k].ids, allowed |-> Allowed]
          /\ runs[k].status = "queued"
          /\ \A j \in RunIds : runs[j].status = "queued" => k <= j
        BY <1>5 DEF Begin, OldestQueued
    <2>2. WorkerSound'
        BY <1>t, <2>1 DEF TypeOK, Runs, WorkerSound, NoRun, Allowed
    <2>3. \A j \in RunIds : j < k => runs[j].status \notin Unstarted
        BY <1>t, <2>1 DEF InOrder
    <2>4. InOrder'
        BY <1>t, <2>1, <2>3 DEF TypeOK, Runs, InOrder
    <2>5. RowsOfStarted'
        BY <1>5, <1>t, <2>1 DEF Begin, TypeOK, Runs, RowsOfStarted
    <2> QED
        BY <2>2, <2>4, <2>5
<1>6. ASSUME NEW r \in Reqs, Review(r) PROVE (WorkerSound /\ InOrder /\ RowsOfStarted)'
    <2>1. worker.run \in RunIds /\ runs[worker.run].status = "running"
        BY <1>6, <1>t DEF Review, TypeOK, WorkerSound
    <2>2. \A k \in RunIds, q \in Reqs :
            ~ (k = worker.run /\ q = r) => rows'[k][q] = rows[k][q]
        BY <1>6, <1>t, <2>1 DEF Review, TypeOK
    <2>3. RowsOfStarted'
        BY <1>6, <1>t, <2>1, <2>2 DEF Review, RowsOfStarted
    <2>4. WorkerSound'
        BY <1>6, <1>t DEF Review, TypeOK, WorkerSound
    <2>5. InOrder'
        BY <1>6, <1>t DEF Review, InOrder
    <2> QED
        BY <2>3, <2>4, <2>5
<1>7. ASSUME NEW s \in Ended, worker.run \in RunIds, worker' = IdleWorker,
             runs' = [runs EXCEPT ![worker.run].status = s], UNCHANGED rows
      PROVE  (WorkerSound /\ InOrder /\ RowsOfStarted)'
    <2>1. runs[worker.run].status = "running" /\ s \notin Unstarted
        BY <1>7, <1>t, RunIdsAreNat DEF WorkerSound, NoRun, Ended
    <2>2. WorkerSound'
        BY <1>7 DEF WorkerSound, IdleWorker
    <2>3. InOrder'
        BY <1>7, <1>t, <2>1 DEF TypeOK, Runs, InOrder
    <2>4. RowsOfStarted'
        BY <1>7, <1>t, <2>1 DEF TypeOK, Runs, RowsOfStarted
    <2> QED
        BY <2>2, <2>3, <2>4
<1>8. CASE Finish
    BY <1>7, <1>8, <1>t DEF Finish, TypeOK, Ended
<1>9. CASE Fail
    BY <1>7, <1>9, <1>t DEF Fail, TypeOK, Ended, WorkerSound
<1>10. CASE UNCHANGED vars
    BY <1>10, <1>t DEF vars, WorkerSound, InOrder, RowsOfStarted
<1> QED
    BY <1>1, <1>2, <1>3, <1>4, <1>5, <1>6, <1>8, <1>9, <1>10 DEF Next

\* The inductive invariant of all behaviours.
THEOREM ReReviewOrder == Spec => []OrderInv
BY InitOrdered, StepOrdered, PTL DEF Spec

\* Every variable has its type.
THEOREM ReReviewTypeOK == Spec => []TypeOK
<1>1. OrderInv => TypeOK
    BY DEF OrderInv
<1> QED
    BY <1>1, ReReviewOrder, PTL

-----------------------------------------------------------------------------
\* What is shown never goes back to an older run, also when requests, uploads
\* and runs overlap in any way.

LEMMA StepNeverResurfaces ==
    OrderInv /\ [Next]_vars =>
        \A r \in Reqs, k \in RunIds :
            Shows(rows', k, r) => \A j \in RunIds : Current(rows, j, r) => j <= k
<1> SUFFICES ASSUME OrderInv, [Next]_vars, NEW r \in Reqs, NEW k \in RunIds,
                    Shows(rows', k, r), NEW j \in RunIds, Current(rows, j, r)
             PROVE  j <= k
    OBVIOUS
<1> USE RunIdsAreNat
<1>t. TypeOK /\ WorkerSound /\ InOrder /\ RowsOfStarted
    BY DEF OrderInv
<1>1. CASE UNCHANGED rows
    BY <1>1 DEF Shows
<1>2. ASSUME NEW c \in Clients, Invalidate(c) PROVE j <= k
    <2>1. request[c].affected \in SUBSET Reqs
        BY <1>t DEF TypeOK
    <2>2. r \notin request[c].affected
        BY <1>2, <1>t, <2>1, InvalidatedEntries DEF Invalidate, TypeOK, Shows
    <2>3. rows'[j][r] = rows[j][r]
        BY <1>2, <1>t, <2>1, <2>2, InvalidatedEntries DEF Invalidate, TypeOK
    <2> QED
        BY <2>3 DEF Shows, Current
<1>3. ASSUME NEW q \in Reqs, Review(q) PROVE j <= k
    <2>1. worker.run \in RunIds /\ runs[worker.run].status = "running"
        BY <1>3, <1>t DEF Review, TypeOK, WorkerSound
    <2>2. rows'[worker.run][q].state = "current"
        BY <1>3, <1>t, <2>1 DEF Review, TypeOK
    <2>3. \A i \in RunIds, p \in Reqs :
            ~ (i = worker.run /\ p = q) => rows'[i][p] = rows[i][p]
        BY <1>3, <1>t, <2>1 DEF Review, TypeOK
    <2>4. CASE j = worker.run /\ r = q
        BY <2>2, <2>4 DEF Shows, Current
    <2>5. CASE ~ (j = worker.run /\ r = q)
        BY <2>3, <2>5 DEF Shows, Current
    <2> QED
        BY <2>4, <2>5
<1> QED
    BY <1>1, <1>2, <1>3 DEF Next, vars, Upload, StartReview, LookUp, Begin, Finish, Fail

\* The requirement list never falls back to an assessment that was superseded.
THEOREM ReReviewNoResurfacing == Spec => NoResurfacing
<1>1. OrderInv /\ [Next]_vars =>
        [\A r \in Reqs, k \in RunIds :
            Shows(rows', k, r) => \A j \in RunIds : Current(rows, j, r) => j <= k]_vars
    BY StepNeverResurfaces
<1> QED
    BY <1>1, ReReviewOrder, PTL DEF Spec, NoResurfacing

-----------------------------------------------------------------------------
\* Nothing falls between invalidation and run, unless a job was found.

CoverInv == OrderInv /\ InvalidatedIsCovered

\* No current assessment of r cites the proposal.
Uncited(r) == \A k \in RunIds : Current(rows, k, r) => rows[k][r].cites = {}
NoneCurrent(r) == \A k \in RunIds : ~ Current(rows, k, r)

\* An invalidation leaves what is uncited uncited, and what is lost lost.
LEMMA InvalidationKeeps ==
    ASSUME TypeOK, NEW S \in SUBSET Reqs, rows' = Invalidated(rows, S), NEW r \in Reqs
    PROVE  /\ Uncited(r) => Uncited(r)'
           /\ r \in S => NoneCurrent(r)'
           /\ r \notin S => \A k \in RunIds : rows'[k][r] = rows[k][r]
<1>1. /\ \A k \in RunIds :
            /\ r \in S => ~ Current(rows', k, r)
            /\ r \notin S => rows'[k][r] = rows[k][r]
            /\ ~ Current(rows, k, r) => rows'[k][r] = rows[k][r]
    BY InvalidatedEntries DEF TypeOK
<1> QED
    BY <1>1 DEF Uncited, NoneCurrent, Current

\* A request's two outcomes: its set is another job's affair, or is in a run.
LEMMA InvalidateOutcome ==
    ASSUME TypeOK, NEW c \in Clients, Invalidate(c)
    PROVE  /\ request[c].affected \in SUBSET Reqs
           /\ rows' = Invalidated(rows, request[c].affected)
           /\ UNCHANGED <<latest, worker>>
           /\ \/ UNCHANGED runs /\ reused' = reused \cup request[c].affected
              \/ \E k \in RunIds :
                    /\ runs[k].status = "absent"
                    /\ runs'[k] = [status |-> "queued", scope |-> latest,
                                   ids |-> request[c].affected, alone |-> request[c].alone]
                    /\ \A j \in RunIds \ {k} : runs'[j] = runs[j]
                    /\ reused' = reused \ request[c].affected
BY DEF Invalidate, Insert, NextRun, ToReview, TypeOK

LEMMA InitCovered == Init => CoverInv
<1>1. Init => InvalidatedIsCovered
    BY DEF Init, InvalidatedIsCovered, Lost, NoRow
<1> QED
    BY <1>1, InitOrdered DEF CoverInv

\* Whatever a requirement is covered by stays, or hands it on.
LEMMA StepCovered ==
    ASSUME CoverInv, [Next]_vars
    PROVE  InvalidatedIsCovered'
<1> SUFFICES ASSUME NEW r \in Reqs, Lost(r)' PROVE (Covered(r) \/ r \in reused)'
    BY DEF InvalidatedIsCovered
<1> USE RunIdsAreNat
<1>t. TypeOK /\ WorkerSound /\ (Lost(r) => Covered(r) \/ r \in reused)
    BY DEF CoverInv, OrderInv, InvalidatedIsCovered
\* Present runs and the worker stay, so what covers a requirement stays.
<1>s. ASSUME UNCHANGED worker, Covered(r),
             \A j \in RunIds : runs[j].status # "absent" => runs'[j] = runs[j]
      PROVE  Covered(r)'
    <2>1. PICK k \in RunIds : /\ r \in runs[k].ids
                              /\ \/ runs[k].status \in {"queued", "failed"}
                                 \/ worker.run = k /\ r \in worker.todo
        BY <1>s DEF Covered
    <2>2. runs'[k] = runs[k]
        BY <1>s, <1>t, <2>1 DEF WorkerSound, NoRun
    <2> QED
        BY <1>s, <2>1, <2>2 DEF Covered
<1>1. CASE Upload
    <2>1. UNCHANGED <<runs, rows, worker, reused>>
        BY <1>1 DEF Upload
    <2> QED
        BY <1>s, <1>t, <2>1 DEF Lost, Current
<1>2. CASE StartReview
    <2>1. PICK k \in RunIds : NextRun(k) /\ Insert(k, Reqs, FALSE)
        BY <1>2 DEF StartReview
    <2>2. runs'[k] = [status |-> "queued", scope |-> latest, ids |-> Reqs, alone |-> FALSE]
        BY <1>t, <2>1 DEF Insert, TypeOK
    <2>3. runs'[k].status = "queued" /\ runs'[k].ids = Reqs
        BY <2>2
    <2> QED
        BY <2>3 DEF Covered
<1>3. ASSUME NEW d \in Clients, LookUp(d) PROVE (Covered(r) \/ r \in reused)'
    <2>1. UNCHANGED <<runs, rows, worker, reused>>
        BY <1>3 DEF LookUp
    <2> QED
        BY <1>s, <1>t, <2>1 DEF Lost, Current
<1>4. ASSUME NEW d \in Clients, Invalidate(d) PROVE (Covered(r) \/ r \in reused)'
    <2> DEFINE S == request[d].affected
    <2>1. /\ S \in SUBSET Reqs
          /\ rows' = Invalidated(rows, S)
          /\ UNCHANGED worker
        BY <1>4, <1>t, InvalidateOutcome
    <2>2. r \notin S => Lost(r)
        BY <1>t, <2>1, InvalidationKeeps DEF Lost, Current
    <2>3. CASE UNCHANGED runs /\ reused' = reused \cup S
        BY <1>s, <1>t, <2>1, <2>2, <2>3
    <2>4. ASSUME NEW k \in RunIds,
                 runs[k].status = "absent",
                 runs'[k] = [status |-> "queued", scope |-> latest,
                             ids |-> S, alone |-> request[d].alone],
                 \A j \in RunIds \ {k} : runs'[j] = runs[j],
                 reused' = reused \ S
          PROVE  (Covered(r) \/ r \in reused)'
        <3>1. runs'[k].status = "queued" /\ runs'[k].ids = S
            BY <2>4
        <3>2. CASE r \in S
            BY <3>1, <3>2 DEF Covered
        <3>3. CASE r \notin S
            BY <1>s, <1>t, <2>1, <2>2, <2>4, <3>3
        <3> QED
            BY <3>2, <3>3
    <2> QED
        BY <1>4, <1>t, <2>3, <2>4, InvalidateOutcome
<1>5. ASSUME NEW k \in RunIds, Begin(k) PROVE (Covered(r) \/ r \in reused)'
    <2>1. /\ UNCHANGED <<rows, reused>>
          /\ worker = IdleWorker
          /\ worker'.run = k /\ worker'.todo = runs[k].ids
          /\ \A j \in RunIds : runs'[j].ids = runs[j].ids
          /\ \A j \in RunIds \ {k} : runs'[j] = runs[j]
        BY <1>5, <1>t DEF Begin, TypeOK, Runs
    <2>2. Covered(r) => Covered(r)'
        BY <2>1 DEF Covered, IdleWorker
    <2> QED
        BY <1>t, <2>1, <2>2 DEF Lost, Current
<1>6. ASSUME NEW q \in Reqs, Review(q) PROVE (Covered(r) \/ r \in reused)'
    <2>1. /\ worker.run \in RunIds
          /\ UNCHANGED <<runs, reused>>
          /\ worker'.run = worker.run /\ worker'.todo = worker.todo \ {q}
        BY <1>6, <1>t DEF Review, TypeOK, WorkerSound
    <2>2. rows'[worker.run][q].state = "current"
        BY <1>6, <1>t, <2>1 DEF Review, TypeOK
    <2>3. r # q
        BY <2>1, <2>2 DEF Lost, Current
    <2>4. \A j \in RunIds : rows'[j][r] = rows[j][r]
        BY <1>6, <1>t, <2>1, <2>3 DEF Review, TypeOK
    <2>5. Covered(r) \/ r \in reused
        BY <1>t, <2>4 DEF Lost, Current
    <2> QED
        BY <2>1, <2>3, <2>5 DEF Covered
<1>7. CASE Finish \/ Fail
    <2>1. PICK s \in Ended :
            /\ runs' = [runs EXCEPT ![worker.run].status = s]
            /\ s = "failed" \/ worker.todo = {}
        BY <1>7 DEF Finish, Fail, Ended
    <2>2. /\ UNCHANGED <<rows, reused>>
          /\ worker.run \in RunIds /\ runs[worker.run].status = "running"
        BY <1>7, <1>t DEF Finish, Fail, TypeOK, WorkerSound
    <2>3. /\ \A j \in RunIds : runs'[j].ids = runs[j].ids
          /\ \A j \in RunIds \ {worker.run} : runs'[j] = runs[j]
          /\ runs'[worker.run].status = s
        BY <1>t, <2>1, <2>2 DEF TypeOK, Runs
    <2>4. Covered(r) => Covered(r)'
        BY <2>1, <2>2, <2>3 DEF Covered
    <2> QED
        BY <1>t, <2>2, <2>4 DEF Lost, Current
<1>8. CASE UNCHANGED vars
    BY <1>8, <1>s, <1>t DEF vars, Lost, Current
<1> QED
    BY <1>1, <1>2, <1>3, <1>4, <1>5, <1>6, <1>7, <1>8 DEF Next

\* However requests, uploads and runs overlap, a requirement that lost its
\* conclusion is in a run that waits, executes or failed, unless the re-review
\* that invalidated it was answered with a job it found.
THEOREM ReReviewInvalidatedIsCovered == Spec => []InvalidatedIsCovered
<1>1. CoverInv /\ [Next]_vars => CoverInv'
    BY StepOrdered, StepCovered DEF CoverInv
<1>2. CoverInv => InvalidatedIsCovered
    BY DEF CoverInv
<1> QED
    BY <1>1, <1>2, InitCovered, PTL DEF Spec

-----------------------------------------------------------------------------
\* What has been seen together with the newest version.

\* Run k still has requirement r to review, or failed before it came to that.
Left(k, r) ==
    \/ runs[k].status \in {"queued", "failed"}
    \/ worker.run = k /\ r \in worker.todo

SawNewest(r) == \A j \in RunIds : Shows(rows, j, r) => rows[j][r].seen = latest

CitedSawNewest(r) ==
    \A j \in RunIds :
        Current(rows, j, r) /\ rows[j][r].cites # {} => rows[j][r].seen = latest

OfNewest(k) == runs[k].scope = latest /\ runs[k].status # "absent"

\* The run in execution has seen what the runs up to it are of, it is the last
\* that has started, and no run is of a version that is yet to come.
WorkerFresh ==
    /\ \A k \in RunIds : /\ runs[k].scope <= latest
                         /\ runs[k].alone => runs[k].status # "absent"
    /\ worker.run # NoRun =>
        \A k \in RunIds :
            /\ worker.run < k => runs[k].status \in Unstarted
            /\ k <= worker.run => runs[k].scope <= worker.allowed
    /\ worker.run # NoRun => worker.allowed <= latest

\* A run of the newest version has come to a requirement only if what is shown
\* of it saw that version.
RunsFresh ==
    \A k \in RunIds : OfNewest(k) =>
        \A r \in runs[k].ids : Left(k, r) \/ SawNewest(r)

\* A thread whose request is alone found the worker idle, has computed all that
\* is cited, and nothing was reviewed since.
RequestAlone ==
    \A c \in Clients : request[c].alone =>
        /\ worker.run = NoRun
        /\ \A r \in Reqs \ request[c].affected : Uncited(r)

\* From the insertion of the run of such a request, all that is cited was seen
\* together with the newest version, and so will be what is being reviewed.
AloneFresh ==
    (\E k \in RunIds : OfNewest(k) /\ runs[k].alone) =>
        /\ \A r \in Reqs : CitedSawNewest(r)
        /\ worker.run # NoRun => worker.allowed = latest

FreshInv == OrderInv /\ WorkerFresh /\ RunsFresh /\ RequestAlone /\ AloneFresh

LEMMA InitFresh == Init => FreshInv
<1> SUFFICES ASSUME Init PROVE WorkerFresh /\ RunsFresh /\ RequestAlone /\ AloneFresh
    BY InitOrdered DEF FreshInv
<1> QED
    BY DEF Init, WorkerFresh, RunsFresh, RequestAlone, AloneFresh, OfNewest,
        IdleWorker, NoRequest

\* The numbers are numbers.
LEMMA Numbers ==
    ASSUME TypeOK
    PROVE  /\ latest \in Nat
           /\ worker.allowed \in Nat
           /\ worker.run \in Nat
           /\ \A k \in RunIds : runs[k].scope \in Nat
<1>1. latest \in Nat
    BY ReReviewAssumption DEF TypeOK, Versions
<1>2. worker.allowed \in Nat
    BY ReReviewAssumption DEF TypeOK, Versions
<1>3. worker.run \in Nat
    BY ReReviewAssumption DEF TypeOK, RunIds, NoRun
<1>4. \A k \in RunIds : runs[k].scope \in Nat
    BY ReReviewAssumption DEF TypeOK, Runs, Versions
<1> QED
    BY <1>1, <1>2, <1>3, <1>4

\* A new run is of the newest version and waits: only its request's word that it
\* is alone has to be true.
LEMMA InsertFresh ==
    ASSUME FreshInv, NEW k \in RunIds, NEW S \in SUBSET Reqs, NEW a \in BOOLEAN,
           runs[k].status = "absent",
           runs'[k] = [status |-> "queued", scope |-> latest, ids |-> S, alone |-> a],
           \A j \in RunIds \ {k} : runs'[j] = runs[j],
           UNCHANGED <<latest, worker>>,
           \A r \in Reqs : SawNewest(r) => SawNewest(r)',
           \A r \in Reqs : CitedSawNewest(r) => CitedSawNewest(r)',
           a => /\ worker.run = NoRun
                /\ \A r \in Reqs : CitedSawNewest(r)'
    PROVE  WorkerFresh' /\ RunsFresh' /\ AloneFresh'
<1>t. /\ TypeOK /\ WorkerSound /\ WorkerFresh /\ RunsFresh /\ AloneFresh
      /\ \A j \in RunIds : runs[j].ids \subseteq Reqs
    BY DEF FreshInv, OrderInv, TypeOK, Runs
<1>1. /\ runs'[k].status = "queued" /\ runs'[k].scope = latest
      /\ runs'[k].ids = S /\ runs'[k].alone = a
    OBVIOUS
<1>2. k # worker.run \/ worker.run = NoRun
    BY <1>t DEF WorkerSound
<1>3. InOrder
    BY DEF FreshInv, OrderInv
<1>4. worker.run # NoRun => worker.run < k
    <2> SUFFICES ASSUME worker.run # NoRun, ~ worker.run < k PROVE FALSE
        OBVIOUS
    <2>1. worker.run \in RunIds /\ worker.run \in Nat /\ k \in Nat
        BY <1>t, RunIdsAreNat DEF TypeOK
    <2>2. k < worker.run
        BY <1>2, <2>1
    <2>3. runs[worker.run].status = "absent"
        BY <1>3, <2>1, <2>2 DEF InOrder
    <2> QED
        BY <1>t, <2>3 DEF WorkerSound
<1>5. WorkerFresh'
    <2>1. \A j \in RunIds : /\ runs'[j].scope <= latest
                            /\ runs'[j].alone => runs'[j].status # "absent"
        BY <1>t, <1>1, Numbers DEF WorkerFresh
    <2>2. ASSUME worker.run # NoRun, NEW j \in RunIds
          PROVE  /\ worker.run < j => runs'[j].status \in Unstarted
                 /\ j <= worker.run => runs'[j].scope <= worker.allowed
        <3>1. CASE j = k
            BY <1>1, <1>4, <2>2, <3>1, Numbers, RunIdsAreNat, <1>t DEF Unstarted
        <3>2. CASE j # k
            BY <1>t, <2>2, <3>2 DEF WorkerFresh
        <3> QED
            BY <3>1, <3>2
    <2> QED
        BY <1>t, <2>1, <2>2 DEF WorkerFresh
<1>6. RunsFresh'
    <2> SUFFICES ASSUME NEW j \in RunIds, OfNewest(j)', NEW r \in runs'[j].ids
                 PROVE  Left(j, r)' \/ SawNewest(r)'
        BY DEF RunsFresh
    <2>1. CASE j = k
        BY <1>1, <2>1 DEF Left
    <2>2. CASE j # k
        <3>1. OfNewest(j) /\ r \in runs[j].ids /\ r \in Reqs
            BY <1>t, <2>2 DEF OfNewest
        <3> QED
            BY <1>t, <2>2, <3>1 DEF RunsFresh, Left
    <2> QED
        BY <2>1, <2>2
<1>7. AloneFresh'
    <2> SUFFICES ASSUME NEW j \in RunIds, OfNewest(j)', runs'[j].alone
                 PROVE  /\ \A r \in Reqs : CitedSawNewest(r)'
                        /\ worker.run # NoRun => worker.allowed = latest
        BY DEF AloneFresh
    <2>1. CASE j = k
        BY <1>1, <2>1
    <2>2. CASE j # k
        <3>1. OfNewest(j) /\ runs[j].alone
            BY <2>2 DEF OfNewest
        <3> QED
            BY <1>t, <3>1 DEF AloneFresh
    <2> QED
        BY <2>1, <2>2
<1> QED
    BY <1>5, <1>6, <1>7

\* A new version: no run is of it yet.
LEMMA UploadFresh ==
    ASSUME FreshInv, Upload
    PROVE  (WorkerFresh /\ RunsFresh /\ RequestAlone /\ AloneFresh)'
<1>t. TypeOK /\ WorkerFresh /\ RequestAlone
    BY DEF FreshInv, OrderInv
<1>1. latest' = latest + 1 /\ UNCHANGED <<runs, rows, request, worker>>
    BY DEF Upload
<1>n. /\ latest \in Nat /\ worker.allowed \in Nat
      /\ \A k \in RunIds : runs[k].scope \in Nat
    BY <1>t, Numbers
<1>2. WorkerFresh'
    BY <1>t, <1>n, <1>1 DEF WorkerFresh
<1>3. \A k \in RunIds : runs'[k].scope # latest'
    BY <1>t, <1>n, <1>1 DEF WorkerFresh
<1>4. RequestAlone'
    BY <1>t, <1>1 DEF RequestAlone, Uncited, Current
<1> QED
    BY <1>2, <1>3, <1>4 DEF RunsFresh, AloneFresh, OfNewest

\* A request reads: alone, it has all that is cited.
LEMMA LookUpFresh ==
    ASSUME FreshInv, NEW c \in Clients, LookUp(c)
    PROVE  (WorkerFresh /\ RunsFresh /\ RequestAlone /\ AloneFresh)'
<1>t. TypeOK /\ WorkerFresh /\ RunsFresh /\ RequestAlone /\ AloneFresh
    BY DEF FreshInv, OrderInv
<1>1. UNCHANGED <<latest, runs, rows, worker>>
    BY DEF LookUp
<1>2. ASSUME NEW d \in Clients, request'[d].alone
      PROVE  /\ worker.run = NoRun
             /\ \A r \in Reqs \ request'[d].affected : Uncited(r)
    <2>1. CASE d = c
        <3>1. /\ request'[c].affected = Affected(rows)
              /\ request'[c].alone <=> worker = IdleWorker
            BY <1>t DEF LookUp, TypeOK
        <3> QED
            BY <1>2, <2>1, <3>1 DEF Affected, Uncited, IdleWorker
    <2>2. CASE d # c
        BY <1>t, <1>2, <2>2 DEF LookUp, TypeOK, RequestAlone
    <2> QED
        BY <2>1, <2>2
<1>3. RequestAlone'
    BY <1>1, <1>2 DEF RequestAlone, Uncited, Current
<1> QED
    BY <1>t, <1>1, <1>3 DEF WorkerFresh, RunsFresh, AloneFresh, OfNewest, Left,
        SawNewest, CitedSawNewest, Shows, Current

\* A request writes: an invalidation brings nothing older back.
LEMMA InvalidateFresh ==
    ASSUME FreshInv, NEW c \in Clients, Invalidate(c)
    PROVE  (WorkerFresh /\ RunsFresh /\ RequestAlone /\ AloneFresh)'
<1> DEFINE S == request[c].affected
<1>t. TypeOK /\ WorkerFresh /\ RunsFresh /\ RequestAlone /\ AloneFresh
    BY DEF FreshInv, OrderInv
<1>1. /\ S \in SUBSET Reqs
      /\ rows' = Invalidated(rows, S)
      /\ UNCHANGED <<latest, worker>>
    BY <1>t, InvalidateOutcome
<1>2. ASSUME NEW r \in Reqs
      PROVE  /\ SawNewest(r) => SawNewest(r)'
             /\ CitedSawNewest(r) => CitedSawNewest(r)'
    <2>1. CASE r \in S
        <3>1. NoneCurrent(r)'
            BY <1>t, <1>1, <2>1, InvalidationKeeps
        <3> QED
            BY <3>1 DEF NoneCurrent, SawNewest, CitedSawNewest, Shows
    <2>2. CASE r \notin S
        <3>1. \A k \in RunIds : rows'[k][r] = rows[k][r]
            BY <1>t, <1>1, <2>2, InvalidationKeeps
        <3> QED
            BY <1>1, <3>1 DEF SawNewest, CitedSawNewest, Shows, Current
    <2> QED
        BY <2>1, <2>2
<1>3. RequestAlone'
    <2> SUFFICES ASSUME NEW d \in Clients, request'[d].alone
                 PROVE  /\ worker.run = NoRun
                        /\ \A r \in Reqs \ request'[d].affected : Uncited(r)'
        BY <1>1 DEF RequestAlone
    <2>1. d # c /\ request'[d] = request[d]
        BY <1>t DEF Invalidate, TypeOK, NoRequest
    <2> QED
        BY <1>t, <1>1, <2>1, InvalidationKeeps DEF RequestAlone
<1>4. CASE UNCHANGED runs
    <2>1. WorkerFresh'
        BY <1>t, <1>1, <1>4 DEF WorkerFresh
    <2>2. RunsFresh'
        <3>1. \A k \in RunIds : runs[k].ids \subseteq Reqs
            BY <1>t DEF TypeOK, Runs
        <3> QED
            BY <1>t, <1>1, <1>2, <1>4, <3>1 DEF RunsFresh, OfNewest, Left
    <2>3. AloneFresh'
        BY <1>t, <1>1, <1>2, <1>4 DEF AloneFresh, OfNewest
    <2> QED
        BY <1>3, <2>1, <2>2, <2>3
<1>5. ASSUME NEW k \in RunIds,
             runs[k].status = "absent",
             runs'[k] = [status |-> "queued", scope |-> latest,
                         ids |-> S, alone |-> request[c].alone],
             \A j \in RunIds \ {k} : runs'[j] = runs[j]
      PROVE  WorkerFresh' /\ RunsFresh' /\ AloneFresh'
    <2>1. request[c].alone \in BOOLEAN
        BY <1>t DEF TypeOK
    <2>2. ASSUME request[c].alone, NEW r \in Reqs
          PROVE  CitedSawNewest(r)'
        <3>1. CASE r \in S
            <4>1. NoneCurrent(r)'
                BY <1>t, <1>1, <3>1, InvalidationKeeps
            <4> QED
                BY <4>1 DEF NoneCurrent, CitedSawNewest
        <3>2. CASE r \notin S
            <4>1. Uncited(r)'
                BY <1>t, <1>1, <2>2, <3>2, InvalidationKeeps DEF RequestAlone
            <4> QED
                BY <4>1 DEF Uncited, CitedSawNewest
        <3> QED
            BY <3>1, <3>2
    <2>3. request[c].alone => worker.run = NoRun
        BY <1>t DEF RequestAlone
    <2> DEFINE a == request[c].alone
    <2>4. runs'[k] = [status |-> "queued", scope |-> latest, ids |-> S, alone |-> a]
        BY <1>5
    <2> HIDE DEF a, S
    <2>5. a \in BOOLEAN
        BY <2>1 DEF a
    <2>6. a => worker.run = NoRun /\ \A r \in Reqs : CitedSawNewest(r)'
        BY <2>2, <2>3 DEF a
    <2> QED
        BY <1>1, <1>2, <1>5, <2>4, <2>5, <2>6, InsertFresh
<1> QED
    BY <1>t, <1>3, <1>4, <1>5, InvalidateOutcome

\* A claim: whoever was alone no longer is, and the run sees all versions.
LEMMA BeginFresh ==
    ASSUME FreshInv, NEW k \in RunIds, Begin(k)
    PROVE  (WorkerFresh /\ RunsFresh /\ RequestAlone /\ AloneFresh)'
<1>t. TypeOK /\ InOrder /\ WorkerFresh /\ RunsFresh /\ AloneFresh
    BY DEF FreshInv, OrderInv
<1>1. /\ UNCHANGED <<latest, rows>>
      /\ worker = IdleWorker
      /\ worker'.run = k /\ worker'.todo = runs[k].ids /\ worker'.allowed = latest
      /\ runs[k].status = "queued"
      /\ runs'[k].status = "running"
      /\ \A j \in RunIds : /\ runs'[j].ids = runs[j].ids
                           /\ runs'[j].scope = runs[j].scope
                           /\ runs'[j].alone = runs[j].alone
      /\ \A j \in RunIds \ {k} : runs'[j] = runs[j]
    BY <1>t DEF Begin, OldestQueued, Allowed, TypeOK, Runs
<1>2. WorkerFresh'
    <2>1. ASSUME NEW j \in RunIds, k < j PROVE runs'[j].status \in Unstarted
        <3>1. runs[k].status \in Unstarted
            BY <1>1 DEF Unstarted
        <3>2. runs[j].status \in Unstarted
            BY <1>t, <2>1, <3>1 DEF InOrder
        <3>3. j # k
            BY <2>1, RunIdsAreNat
        <3> QED
            BY <1>1, <3>2, <3>3
    <2>2. latest \in Nat
        BY <1>t, Numbers
    <2> QED
        BY <1>t, <1>1, <2>1, <2>2 DEF WorkerFresh
<1>3. RunsFresh'
    <2> SUFFICES ASSUME NEW j \in RunIds, OfNewest(j)', NEW r \in runs[j].ids
                 PROVE  Left(j, r)' \/ SawNewest(r)'
        BY <1>1 DEF RunsFresh
    <2>1. OfNewest(j)
        BY <1>1 DEF OfNewest
    <2>2. Left(j, r) => Left(j, r)'
        BY <1>1 DEF Left, IdleWorker
    <2>3. SawNewest(r) => SawNewest(r)'
        BY <1>1 DEF SawNewest, Shows, Current
    <2> QED
        BY <1>t, <2>1, <2>2, <2>3 DEF RunsFresh
<1>4. RequestAlone'
    <2>1. \A c \in Clients : request'[c].alone = FALSE
        BY <1>t DEF Begin, TypeOK
    <2> QED
        BY <2>1 DEF RequestAlone
<1>5. AloneFresh'
    <2>1. \A j \in RunIds : OfNewest(j)' => OfNewest(j)
        BY <1>1 DEF OfNewest
    <2> QED
        BY <1>t, <1>1, <2>1 DEF AloneFresh, CitedSawNewest, Current
<1> QED
    BY <1>2, <1>3, <1>4, <1>5

\* A review: what it saves is shown, and if it did not see the newest version,
\* no run of that version has come to this requirement, and none was alone.
LEMMA ReviewFresh ==
    ASSUME FreshInv, NEW q \in Reqs, Review(q)
    PROVE  (WorkerFresh /\ RunsFresh /\ RequestAlone /\ AloneFresh)'
<1>t. /\ TypeOK /\ WorkerSound /\ RowsOfStarted
      /\ WorkerFresh /\ RunsFresh /\ RequestAlone /\ AloneFresh
    BY DEF FreshInv, OrderInv
<1> DEFINE w == worker.run
<1>1. /\ w \in RunIds /\ w # NoRun
      /\ runs[w].status = "running"
      /\ UNCHANGED <<latest, runs, request>>
      /\ worker'.run = w /\ worker'.todo = worker.todo \ {q}
      /\ worker'.allowed = worker.allowed
    BY <1>t DEF Review, TypeOK, WorkerSound
<1>2. PICK cites \in SUBSET (1 .. worker.allowed) :
        rows' = [rows EXCEPT ![worker.run][q] =
            [state |-> "current", cites |-> cites, seen |-> worker.allowed]]
    BY DEF Review
<1>3. rows'[w][q] = [state |-> "current", cites |-> cites, seen |-> worker.allowed]
    BY <1>t, <1>1, <1>2 DEF TypeOK
<1>4. rows'[w][q].state = "current" /\ rows'[w][q].seen = worker.allowed
    BY <1>3
<1>5. \A i \in RunIds, p \in Reqs : ~ (i = w /\ p = q) => rows'[i][p] = rows[i][p]
    BY <1>t, <1>1, <1>2 DEF TypeOK
<1>6. \A r \in Reqs \ {q} : SawNewest(r) => SawNewest(r)'
    BY <1>1, <1>5 DEF SawNewest, Shows, Current
<1>7. w \in Nat /\ latest \in Nat /\ worker.allowed \in Nat
    BY <1>t, Numbers
<1> HIDE DEF w
<1>8. worker.allowed = latest => SawNewest(q)'
    <2> SUFFICES ASSUME worker.allowed = latest, NEW j \in RunIds, Shows(rows', j, q)
                 PROVE  rows'[j][q].seen = latest
        BY <1>1 DEF SawNewest
    <2>1. w <= j
        BY <1>1, <1>4 DEF Shows, Current
    <2>2. CASE j = w
        BY <1>4, <2>2
    <2>3. CASE j # w
        <3>1. rows[j][q].state = "current"
            BY <1>5, <2>3 DEF Shows, Current
        <3>2. runs[j].status \notin Unstarted
            BY <1>t, <3>1 DEF RowsOfStarted
        <3>3. w < j
            BY <1>7, <2>1, <2>3, RunIdsAreNat
        <3> QED
            BY <1>t, <1>1, <3>2, <3>3 DEF WorkerFresh, w
    <2> QED
        BY <2>2, <2>3
<1>9. WorkerFresh'
    BY <1>t, <1>1 DEF WorkerFresh, w
<1>10. RunsFresh'
    <2> SUFFICES ASSUME NEW k \in RunIds, OfNewest(k), NEW r \in runs[k].ids
                 PROVE  Left(k, r)' \/ SawNewest(r)'
        BY <1>1 DEF RunsFresh, OfNewest
    <2>1. r \in Reqs /\ (Left(k, r) \/ SawNewest(r))
        BY <1>t DEF RunsFresh, TypeOK, Runs
    <2>2. CASE r # q
        <3>1. Left(k, r) => Left(k, r)'
            BY <1>1, <2>2 DEF Left, w
        <3> QED
            BY <1>6, <2>1, <2>2, <3>1
    <2>3. CASE r = q /\ worker.allowed = latest
        BY <1>8, <2>3
    <2>4. CASE worker.allowed # latest
        <3>1. worker.allowed < latest
            BY <1>t, <1>1, <1>7, <2>4 DEF WorkerFresh, w
        <3>2. ~ k <= w
            BY <1>t, <1>1, <1>7, <3>1 DEF WorkerFresh, OfNewest, w
        <3>3. w < k
            BY <1>7, <3>2, RunIdsAreNat
        <3>4. runs[k].status = "queued"
            BY <1>t, <1>1, <3>3 DEF WorkerFresh, OfNewest, Unstarted, w
        <3> QED
            BY <1>1, <3>4 DEF Left
    <2> QED
        BY <2>2, <2>3, <2>4
<1>11. RequestAlone'
    BY <1>t, <1>1 DEF RequestAlone, w
<1>12. AloneFresh'
    <2> SUFFICES ASSUME NEW k \in RunIds, OfNewest(k), runs[k].alone
                 PROVE  /\ \A r \in Reqs : CitedSawNewest(r)'
                        /\ worker.allowed = latest
        BY <1>1 DEF AloneFresh, OfNewest
    <2>1. worker.allowed = latest /\ \A r \in Reqs : CitedSawNewest(r)
        BY <1>t, <1>1 DEF AloneFresh, w
    <2> QED
        BY <1>1, <1>4, <1>5, <2>1 DEF CitedSawNewest, Current
<1> QED
    BY <1>9, <1>10, <1>11, <1>12

\* The end of a run: what it has left it has left for good if it failed.
LEMMA EndFresh ==
    ASSUME FreshInv, Finish \/ Fail
    PROVE  (WorkerFresh /\ RunsFresh /\ RequestAlone /\ AloneFresh)'
<1>t. /\ TypeOK /\ WorkerSound
      /\ WorkerFresh /\ RunsFresh /\ RequestAlone /\ AloneFresh
    BY DEF FreshInv, OrderInv
<1>1. PICK s \in Ended :
        /\ runs' = [runs EXCEPT ![worker.run].status = s]
        /\ s = "failed" \/ worker.todo = {}
    BY DEF Finish, Fail, Ended
<1>2. /\ UNCHANGED <<latest, rows, request>>
      /\ worker' = IdleWorker
      /\ worker.run # NoRun
      /\ worker.run \in RunIds /\ runs[worker.run].status = "running"
    BY <1>t DEF Finish, Fail, TypeOK, WorkerSound
<1>3. /\ \A j \in RunIds : /\ runs'[j].ids = runs[j].ids
                           /\ runs'[j].scope = runs[j].scope
                           /\ runs'[j].alone = runs[j].alone
      /\ \A j \in RunIds \ {worker.run} : runs'[j] = runs[j]
      /\ runs'[worker.run].status = s
    BY <1>t, <1>1, <1>2 DEF TypeOK, Runs
<1>4. \A j \in RunIds : OfNewest(j)' => OfNewest(j)
    BY <1>2, <1>3 DEF OfNewest
<1>5. WorkerFresh'
    BY <1>t, <1>2, <1>3 DEF WorkerFresh, IdleWorker, Ended
<1>6. RunsFresh'
    <2> SUFFICES ASSUME NEW j \in RunIds, OfNewest(j)', NEW r \in runs[j].ids
                 PROVE  Left(j, r)' \/ SawNewest(r)'
        BY <1>3 DEF RunsFresh
    <2>1. Left(j, r) => Left(j, r)'
        BY <1>1, <1>2, <1>3 DEF Left
    <2>2. SawNewest(r) => SawNewest(r)'
        BY <1>2 DEF SawNewest, Shows, Current
    <2> QED
        BY <1>t, <1>4, <2>1, <2>2 DEF RunsFresh
<1>7. RequestAlone'
    BY <1>t, <1>2 DEF RequestAlone, IdleWorker, Uncited, Current
<1>8. AloneFresh'
    BY <1>t, <1>2, <1>3, <1>4 DEF AloneFresh, IdleWorker, CitedSawNewest, Current
<1> QED
    BY <1>5, <1>6, <1>7, <1>8

LEMMA StepFresh == FreshInv /\ [Next]_vars => FreshInv'
<1> SUFFICES ASSUME FreshInv, [Next]_vars
             PROVE  (WorkerFresh /\ RunsFresh /\ RequestAlone /\ AloneFresh)'
    BY StepOrdered DEF FreshInv
<1>t. TypeOK /\ WorkerFresh /\ RunsFresh /\ RequestAlone /\ AloneFresh
    BY DEF FreshInv, OrderInv
<1>1. CASE StartReview
    <2>1. PICK k \in RunIds : NextRun(k) /\ Insert(k, Reqs, FALSE)
        BY <1>1 DEF StartReview
    <2>2. /\ UNCHANGED <<latest, rows, request, worker>>
          /\ runs[k].status = "absent"
          /\ runs'[k] = [status |-> "queued", scope |-> latest, ids |-> Reqs, alone |-> FALSE]
          /\ \A j \in RunIds \ {k} : runs'[j] = runs[j]
        BY <1>1, <1>t, <2>1 DEF StartReview, NextRun, Insert, TypeOK
    <2>3. \A r \in Reqs : /\ SawNewest(r) => SawNewest(r)'
                          /\ CitedSawNewest(r) => CitedSawNewest(r)'
        BY <2>2 DEF SawNewest, CitedSawNewest, Shows, Current
    <2>4. WorkerFresh' /\ RunsFresh' /\ AloneFresh'
        BY <2>2, <2>3, InsertFresh
    <2>5. RequestAlone'
        BY <1>t, <2>2 DEF RequestAlone, Uncited, Current
    <2> QED
        BY <2>4, <2>5
<1>2. CASE UNCHANGED vars
    BY <1>2, <1>t DEF vars, WorkerFresh, RunsFresh, RequestAlone, AloneFresh, OfNewest,
        Left, SawNewest, CitedSawNewest, Uncited, Shows, Current
<1> QED
    BY <1>1, <1>2, UploadFresh, LookUpFresh, InvalidateFresh, BeginFresh, ReviewFresh,
        EndFresh DEF Next

LEMMA FreshIsNotStale == FreshInv => NoStaleSupport
<1> SUFFICES ASSUME FreshInv, NEW k \in RunIds, NEW r \in Reqs,
                    runs[k].scope = latest,
                    \/ runs[k].alone
                    \/ r \in runs[k].ids /\ runs[k].status \in Ended \ {"failed"},
                    NEW j \in RunIds, Shows(rows, j, r), rows[j][r].cites # {}
             PROVE  rows[j][r].seen = latest
    BY DEF NoStaleSupport
<1>1. CASE r \in runs[k].ids /\ runs[k].status \in Ended \ {"failed"}
    <2>1. OfNewest(k)
        BY <1>1 DEF OfNewest, Ended
    <2>2. worker.run # k
        BY <1>1, RunIdsAreNat DEF FreshInv, OrderInv, WorkerSound, Ended, NoRun
    <2>3. ~ Left(k, r)
        BY <1>1, <2>2 DEF Left, Ended
    <2> QED
        BY <1>1, <2>1, <2>3 DEF FreshInv, RunsFresh, SawNewest
<1>2. CASE runs[k].alone
    <2>1. CASE runs[k].status # "absent"
        BY <1>2, <2>1 DEF FreshInv, AloneFresh, OfNewest, CitedSawNewest, Shows
    <2>2. CASE runs[k].status = "absent"
        BY <1>2, <2>2 DEF FreshInv, WorkerFresh
    <2> QED
        BY <2>1, <2>2
<1> QED
    BY <1>1, <1>2

\* What supports a shown conclusion was seen together with the newest version,
\* once a run of that version reviewed the requirement with success, or was
\* created by a re-review during which nothing was executed.
THEOREM ReReviewNoStaleSupport == Spec => []NoStaleSupport
BY InitFresh, StepFresh, FreshIsNotStale, PTL DEF Spec

=============================================================================
