------------------------- MODULE TenderMatrix_proofs -------------------------
(***************************************************************************)
(* Proofs about the requirement matrix, for any number of threads, tender  *)
(* versions, candidates and runs.                                          *)
(***************************************************************************)
EXTENDS TenderMatrix, TLAPS

Unstarted == {"absent", "queued"}
Well == {"completed", "awaiting_confirmation"}

\* The run in execution is running, it is the last that has started, and it
\* has something to review only in its last stage.
WorkerSound ==
    /\ worker.run = NoRun <=> worker.stage = "idle"
    /\ worker.run # NoRun =>
        /\ runs[worker.run].status = "running"
        /\ runs[worker.run].tender \in Tenders
        /\ \A j \in RunIds : worker.run < j => runs[j].status \in Unstarted
    /\ worker.stage # "reviewing" => worker.todo = {}

\* Runs start in the order of their rows, for a tender.
InOrder ==
    /\ \A j, k \in RunIds : j < k =>
        /\ runs[j].status \in Unstarted => runs[k].status \in Unstarted
        /\ runs[j].status = "absent" => runs[k].status = "absent"
    /\ \A k \in RunIds : runs[k].status # "absent" => runs[k].tender \in Tenders

OnlyOf(t) == \A q \in ActiveIn(rows) : q[1] = t

MatrixInv == TypeOK /\ WorkerSound /\ InOrder /\ OneTenderMatrix

\* Unless the run's extraction had no valid candidate, the matrix is of the
\* tender that is under review, or of the last that was reviewed with success.
StageSound ==
    /\ (worker.stage \in {"extracted", "reviewing", "nothing"}
            /\ worker.run \notin fruitless) => OnlyOf(Tender)
    /\ \A k \in RunIds :
        (/\ runs[k].status \in Well
         /\ \A j \in RunIds : k < j => runs[j].status \in Unstarted)
            => k \in fruitless \/ OnlyOf(runs[k].tender)

ScopeInv == MatrixInv /\ OwnTenderReviewed /\ StageSound

-----------------------------------------------------------------------------
\* The operators on the matrix, entry by entry.

LEMMA RunIdsAreNat == RunIds \subseteq Nat \ {0}
BY TenderAssumption DEF RunIds

\* Saving nothing changes nothing; saving something leaves only this version.
LEMMA SavedEntries ==
    ASSUME NEW m \in Matrices, NEW t \in Tenders, NEW S \in SUBSET Candidates
    PROVE  /\ Saved(m, t, S) \in Matrices
           /\ S = {} => ActiveIn(Saved(m, t, S)) \subseteq ActiveIn(m)
           /\ S # {} => \A q \in ActiveIn(Saved(m, t, S)) : q[1] = t
BY DEF Saved, Matrices, ActiveIn

LEMMA DeactivatedEntries ==
    ASSUME NEW m \in Matrices
    PROVE  /\ Deactivated(m) \in Matrices
           /\ ActiveIn(Deactivated(m)) = {}
BY DEF Deactivated, Matrices, ActiveIn

\* A status is all that changes in a run.
LEMMA StatusChanges ==
    ASSUME TypeOK, NEW k \in RunIds, NEW s \in Ended \cup {"running"},
           runs' = [runs EXCEPT ![k].status = s]
    PROVE  /\ runs' \in [RunIds -> Runs]
           /\ runs'[k].status = s
           /\ \A j \in RunIds : runs'[j].tender = runs[j].tender
           /\ \A j \in RunIds \ {k} : runs'[j] = runs[j]
<1>1. runs[k] \in Runs
    BY DEF TypeOK
<1>2. [runs[k] EXCEPT !.status = s] \in Runs
    BY <1>1 DEF Runs
<1>3. /\ [runs[k] EXCEPT !.status = s].status = s
      /\ [runs[k] EXCEPT !.status = s].tender = runs[k].tender
    BY <1>1 DEF Runs
<1> QED
    BY <1>2, <1>3 DEF TypeOK

\* A new run is queued after all others.
LEMMA InsertAppends ==
    ASSUME TypeOK, InOrder, NEW t \in Tenders, Insert(t)
    PROVE  /\ runs' \in [RunIds -> Runs]
           /\ InOrder'
           /\ \A j \in RunIds :
                \/ runs'[j] = runs[j]
                \/ runs[j].status = "absent" /\ runs'[j].status = "queued"
<1> USE RunIdsAreNat DEF Unstarted
<1>1. PICK k \in RunIds :
        /\ NextRun(k)
        /\ runs' = [runs EXCEPT ![k] = [status |-> "queued", tender |-> t]]
    BY DEF Insert
<1>2. /\ runs'[k].status = "queued" /\ runs'[k].tender = t
      /\ \A j \in RunIds \ {k} : runs'[j] = runs[j]
      /\ runs' \in [RunIds -> Runs]
    BY <1>1 DEF TypeOK, Runs
<1>3. InOrder'
    BY <1>1, <1>2 DEF InOrder, NextRun
<1> QED
    BY <1>1, <1>2, <1>3 DEF NextRun

\* What a new run does to the rest of the invariant: nothing.
LEMMA InsertKeeps ==
    ASSUME MatrixInv, NEW t \in Tenders, Insert(t), UNCHANGED <<worker, fruitless>>,
           rows' \in Matrices, ActiveIn(rows') \subseteq ActiveIn(rows),
           request' \in [Clients -> Tenders \cup {NoTender}]
    PROVE  MatrixInv' /\ (StageSound => StageSound')
<1> USE RunIdsAreNat DEF Unstarted
<1>1. /\ runs' \in [RunIds -> Runs]
      /\ InOrder'
      /\ \A j \in RunIds :
            \/ runs'[j] = runs[j]
            \/ runs[j].status = "absent" /\ runs'[j].status = "queued"
    BY InsertAppends DEF MatrixInv
<1>2. TypeOK'
    BY <1>1 DEF MatrixInv, TypeOK
<1>3. worker.run # NoRun => worker.run \in RunIds /\ runs'[worker.run] = runs[worker.run]
    BY <1>1 DEF MatrixInv, TypeOK, WorkerSound
<1>4. WorkerSound'
    BY <1>1, <1>3 DEF MatrixInv, WorkerSound
<1>5. OneTenderMatrix'
    BY DEF MatrixInv, OneTenderMatrix
<1>6. ASSUME StageSound PROVE StageSound'
    <2>1. (worker'.stage \in {"extracted", "reviewing", "nothing"}
            /\ worker'.run \notin fruitless') => OnlyOf(Tender)'
        BY <1>3, <1>6 DEF MatrixInv, WorkerSound, StageSound, OnlyOf, Tender
    <2>2. ASSUME NEW k \in RunIds, runs'[k].status \in Well,
                 \A j \in RunIds : k < j => runs'[j].status \in Unstarted
          PROVE  k \in fruitless' \/ OnlyOf(runs[k].tender)'
        BY <1>1, <1>6, <2>2 DEF StageSound, OnlyOf, Well
    <2> QED
        BY <2>1, <2>2 DEF StageSound
<1> QED
    BY <1>2, <1>1, <1>4, <1>5, <1>6 DEF MatrixInv

-----------------------------------------------------------------------------
\* Every step keeps the invariant and what it says of the tender of a run.

LEMMA InitMatrix == Init => ScopeInv
<1> SUFFICES ASSUME Init PROVE ScopeInv
    OBVIOUS
<1>1. ActiveIn(rows) = {}
    BY DEF Init, ActiveIn
<1>2. TypeOK
    BY DEF Init, TypeOK, Matrices, Runs, IdleWorker, NoRun, Stages
<1>3. WorkerSound /\ InOrder /\ worker.todo = {} /\ worker.stage = "idle"
    BY DEF Init, WorkerSound, InOrder, IdleWorker, NoRun
<1>4. \A k \in RunIds : runs[k].status = "absent"
    BY DEF Init
<1> QED
    BY <1>1, <1>2, <1>3, <1>4
        DEF ScopeInv, MatrixInv, OneTenderMatrix, OwnTenderReviewed, StageSound, Well

\* The run in execution ends.
LEMMA RunEnds ==
    ASSUME MatrixInv, worker.run # NoRun, worker' = IdleWorker,
           NEW s \in Ended, runs' = [runs EXCEPT ![worker.run].status = s],
           UNCHANGED <<rows, request, fruitless>>
    PROVE  /\ MatrixInv'
           /\ (StageSound /\ (s # "failed" => worker.stage \in {"reviewing", "nothing"}))
                => StageSound'
<1> USE RunIdsAreNat DEF Unstarted
<1> DEFINE w == worker.run
<1>0. /\ TypeOK /\ WorkerSound /\ InOrder /\ OneTenderMatrix
      /\ w \in RunIds
    BY DEF MatrixInv, TypeOK
<1>1. /\ runs' \in [RunIds -> Runs]
      /\ runs'[w].status = s
      /\ \A j \in RunIds : runs'[j].tender = runs[j].tender
      /\ \A j \in RunIds \ {w} : runs'[j] = runs[j]
    BY <1>0, StatusChanges
<1>2. TypeOK'
    BY <1>0, <1>1 DEF TypeOK, IdleWorker, NoRun, Stages
<1>3. WorkerSound'
    BY DEF WorkerSound, IdleWorker, NoRun
<1>4. s \notin Unstarted /\ runs[w].status \notin Unstarted
    BY <1>0 DEF WorkerSound, Ended
<1>5. InOrder'
    BY <1>0, <1>1, <1>4 DEF InOrder, WorkerSound
<1>6. OneTenderMatrix'
    BY <1>0 DEF OneTenderMatrix
<1>7. ASSUME StageSound, s # "failed" => worker.stage \in {"reviewing", "nothing"}
      PROVE  StageSound'
    <2>1. ASSUME NEW k \in RunIds, runs'[k].status \in Well,
                 \A j \in RunIds : k < j => runs'[j].status \in Unstarted
          PROVE  k \in fruitless' \/ OnlyOf(runs[k].tender)'
        <3>1. CASE k = w
            BY <1>1, <1>7, <2>1, <3>1 DEF StageSound, OnlyOf, Tender, Well
        <3>2. CASE k # w
            <4>1. w < k
                BY <1>0, <1>1, <1>4, <2>1, <3>2
            <4> QED
                BY <1>0, <1>1, <2>1, <3>2, <4>1 DEF WorkerSound, Well
        <3> QED
            BY <3>1, <3>2
    <2> QED
        BY <2>1 DEF StageSound, IdleWorker
<1> QED
    BY <1>2, <1>3, <1>5, <1>6, <1>7 DEF MatrixInv

\* The worker goes from stage to stage with the same run.
LEMMA StageMoves ==
    ASSUME MatrixInv, worker.run # NoRun, NEW stage \in Stages \ {"idle"},
           NEW todo \in SUBSET Requirements, todo # {} => stage = "reviewing",
           worker' = [run |-> worker.run, stage |-> stage, todo |-> todo],
           UNCHANGED <<runs, request>>, fruitless' \subseteq RunIds,
           rows' \in Matrices, OneTenderMatrix'
    PROVE  MatrixInv'
<1>1. TypeOK'
    BY DEF MatrixInv, TypeOK
<1>2. WorkerSound' /\ InOrder'
    BY DEF MatrixInv, WorkerSound, InOrder
<1> QED
    BY <1>1, <1>2 DEF MatrixInv

LEMMA StepMatrix ==
    ASSUME MatrixInv, [Next]_vars
    PROVE  /\ MatrixInv'
           /\ (ScopeInv => ScopeInv')
<1> USE RunIdsAreNat
<1>0. /\ TypeOK /\ WorkerSound /\ InOrder /\ OneTenderMatrix
      /\ rows \in Matrices
      /\ worker.run # NoRun => worker.run \in RunIds
    BY DEF MatrixInv, TypeOK
<1>1. ASSUME NEW t \in Tenders, StartReview(t)
      PROVE  MatrixInv' /\ (ScopeInv => ScopeInv')
    <2>1. /\ Insert(t) /\ UNCHANGED <<rows, request, worker, fruitless>>
          /\ request' \in [Clients -> Tenders \cup {NoTender}]
        BY <1>0, <1>1 DEF StartReview, TypeOK
    <2>2. MatrixInv' /\ (StageSound => StageSound')
        BY <1>0, <2>1, InsertKeeps
    <2>3. OwnTenderReviewed => OwnTenderReviewed'
        <3>1. worker.todo # {} => runs'[worker.run].tender = runs[worker.run].tender
            BY <1>0, <2>1, InsertAppends DEF WorkerSound
        <3> QED
            BY <2>1, <3>1 DEF OwnTenderReviewed, Tender
    <2> QED
        BY <2>2, <2>3 DEF ScopeInv
<1>2. ASSUME NEW c \in Clients, NEW t \in Tenders, LookUp(c, t)
      PROVE  MatrixInv' /\ (ScopeInv => ScopeInv')
    <2>1. TypeOK' /\ UNCHANGED <<rows, runs, worker, fruitless>>
        BY <1>0, <1>2 DEF LookUp, TypeOK
    <2> QED
        BY <1>0, <2>1 DEF MatrixInv, ScopeInv, WorkerSound, InOrder, OneTenderMatrix,
            OwnTenderReviewed, StageSound, OnlyOf, ActiveIn, Tender
<1>3. ASSUME NEW c \in Clients, Replace(c)
      PROVE  MatrixInv' /\ (ScopeInv => ScopeInv')
    <2>1. /\ request[c] \in Tenders
          /\ request' \in [Clients -> Tenders \cup {NoTender}]
          /\ rows' \in Matrices /\ ActiveIn(rows') = {}
          /\ UNCHANGED <<worker, fruitless>>
        BY <1>0, <1>3, DeactivatedEntries DEF Replace, TypeOK
    <2>2. CASE UNCHANGED runs
        <3>1. TypeOK' /\ WorkerSound' /\ InOrder'
            BY <1>0, <2>1, <2>2 DEF TypeOK, WorkerSound, InOrder
        <3>2. OneTenderMatrix' /\ StageSound'
            BY <2>1 DEF OneTenderMatrix, StageSound, OnlyOf
        <3> QED
            BY <2>1, <2>2, <3>1, <3>2 DEF MatrixInv, ScopeInv, OwnTenderReviewed, Tender
    <2>3. CASE Insert(request[c])
        <3>1. MatrixInv' /\ (StageSound => StageSound')
            BY <2>1, <2>3, InsertKeeps
        <3>2. worker.todo # {} => runs'[worker.run].tender = runs[worker.run].tender
            BY <1>0, <2>1, <2>3, InsertAppends DEF WorkerSound
        <3> QED
            BY <2>1, <3>1, <3>2 DEF ScopeInv, OwnTenderReviewed, Tender
    <2> QED
        BY <1>3, <2>2, <2>3 DEF Replace
<1>4. ASSUME NEW k \in RunIds, Begin(k)
      PROVE  MatrixInv' /\ (ScopeInv => ScopeInv')
    <2>1. /\ runs' = [runs EXCEPT ![k].status = "running"]
          /\ runs[k].status = "queued"
          /\ \A j \in RunIds : runs[j].status = "queued" => k <= j
          /\ worker'.run = k /\ worker'.todo = {}
          /\ worker'.stage = IF Extracted(rows, runs[k].tender)
                             THEN "extracted" ELSE "extracting"
          /\ UNCHANGED <<rows, request, fruitless>>
        BY <1>4 DEF Begin, OldestQueued
    <2>2. /\ runs' \in [RunIds -> Runs]
          /\ runs'[k].status = "running"
          /\ \A j \in RunIds : runs'[j].tender = runs[j].tender
          /\ \A j \in RunIds \ {k} : runs'[j] = runs[j]
        BY <1>0, <2>1, StatusChanges
    <2>3. TypeOK'
        BY <1>0, <1>4, <2>2 DEF Begin, TypeOK, Stages
    <2>4. /\ \A j \in RunIds : j < k => runs[j].status \notin Unstarted
          /\ \A j \in RunIds : k < j => runs[j].status \in Unstarted
        BY <1>0, <2>1 DEF InOrder, Unstarted
    <2>5. InOrder'
        <3>1. \A j \in RunIds : runs'[j].status # "absent" => runs'[j].tender \in Tenders
            BY <1>0, <2>1, <2>2 DEF InOrder
        <3>2. ASSUME NEW i \in RunIds, NEW j \in RunIds, i < j
              PROVE  /\ runs'[i].status \in Unstarted => runs'[j].status \in Unstarted
                     /\ runs'[i].status = "absent" => runs'[j].status = "absent"
            <4>1. CASE i = k
                BY <2>2, <4>1 DEF Unstarted
            <4>2. CASE j = k
                BY <2>2, <2>4, <3>2, <4>2 DEF Unstarted
            <4>3. CASE i # k /\ j # k
                BY <1>0, <2>2, <3>2, <4>3 DEF InOrder
            <4> QED
                BY <4>1, <4>2, <4>3
        <3> QED
            BY <3>1, <3>2 DEF InOrder
    <2>6. WorkerSound'
        BY <1>0, <2>1, <2>2, <2>4 DEF WorkerSound, InOrder, NoRun
    <2>7. OneTenderMatrix'
        BY <1>0, <2>1 DEF OneTenderMatrix
    <2>8. ASSUME StageSound PROVE StageSound'
        <3>1. worker'.stage = "extracted" => OnlyOf(runs[k].tender)
            BY <1>0, <2>1 DEF OneTenderMatrix, OnlyOf, Extracted, ActiveIn
        <3>2. ASSUME NEW j \in RunIds, runs'[j].status \in Well,
                     \A i \in RunIds : j < i => runs'[i].status \in Unstarted
              PROVE  FALSE
            <4>1. j # k /\ ~ j < k
                BY <2>2, <3>2 DEF Well, Unstarted
            <4>2. runs[j].status \in Unstarted
                BY <2>4, <4>1
            <4> QED
                BY <2>2, <3>2, <4>1, <4>2 DEF Well, Unstarted
        <3>3. worker'.stage # "reviewing"
            BY <2>1
        <3> QED
            BY <2>1, <2>2, <3>1, <3>2, <3>3 DEF StageSound, OnlyOf, Tender
    <2> QED
        BY <2>1, <2>3, <2>5, <2>6, <2>7, <2>8 DEF MatrixInv, ScopeInv, OwnTenderReviewed
<1>5. CASE ExtractReturns
    <2>1. PICK S \in SUBSET Candidates :
            /\ rows' = Saved(rows, Tender, S)
            /\ fruitless' = IF S = {} THEN fruitless \cup {worker.run} ELSE fruitless
        BY <1>5 DEF ExtractReturns
    <2>2. /\ worker.stage = "extracting" /\ worker.run # NoRun
          /\ worker.todo = {} /\ Tender \in Tenders
          /\ UNCHANGED <<runs, request>>
        BY <1>0, <1>5 DEF ExtractReturns, WorkerSound, Tender
    <2>3. worker' = [run |-> worker.run, stage |-> "extracted", todo |-> {}]
        BY <1>0, <1>5, <2>2 DEF ExtractReturns, TypeOK
    <2>4. /\ rows' \in Matrices
          /\ S = {} => ActiveIn(rows') \subseteq ActiveIn(rows)
          /\ S # {} => \A q \in ActiveIn(rows') : q[1] = Tender
        BY <1>0, <2>1, <2>2, SavedEntries
    <2>5. OneTenderMatrix'
        BY <1>0, <2>4 DEF OneTenderMatrix
    <2>9. fruitless' \subseteq RunIds
        BY <1>0, <2>1, <2>2 DEF TypeOK
    <2>6. MatrixInv'
        BY <2>2, <2>3, <2>4, <2>5, <2>9, StageMoves DEF Stages
    <2>7. StageSound'
        <3>1. worker'.run \notin fruitless' => OnlyOf(Tender)'
            BY <2>1, <2>2, <2>3, <2>4 DEF OnlyOf, Tender
        <3>2. ASSUME NEW k \in RunIds, runs'[k].status \in Well,
                     \A j \in RunIds : k < j => runs'[j].status \in Unstarted
              PROVE  FALSE
            <4>1. /\ worker.run \in RunIds /\ runs[worker.run].status = "running"
                  /\ \A j \in RunIds : worker.run < j => runs[j].status \in Unstarted
                BY <1>0, <2>2 DEF WorkerSound
            <4>2. worker.run # k /\ ~ worker.run < k /\ ~ k < worker.run
                BY <2>2, <3>2, <4>1 DEF Well, Unstarted
            <4>3. worker.run \in Nat /\ k \in Nat
                BY <4>1
            <4> QED
                BY <4>2, <4>3
        <3> QED
            BY <3>1, <3>2 DEF StageSound
    <2>8. OwnTenderReviewed'
        BY <2>3 DEF OwnTenderReviewed
    <2> QED
        BY <2>6, <2>7, <2>8 DEF ScopeInv
<1>6. CASE Select
    <2> DEFINE stage == IF ActiveIn(rows) = {} THEN "nothing" ELSE "reviewing"
    <2>1. /\ worker.stage = "extracted" /\ worker.run # NoRun
          /\ worker' = [run |-> worker.run, stage |-> stage, todo |-> ActiveIn(rows)]
          /\ UNCHANGED <<rows, runs, request, fruitless>>
        BY <1>0, <1>6 DEF Select, WorkerSound, TypeOK
    <2>2. /\ ActiveIn(rows) \in SUBSET Requirements /\ OneTenderMatrix'
          /\ fruitless' \subseteq RunIds
        BY <1>0, <2>1 DEF ActiveIn, OneTenderMatrix, TypeOK
    <2>3. /\ stage \in Stages \ {"idle"}
          /\ ActiveIn(rows) # {} => stage = "reviewing"
        BY DEF Stages
    <2> HIDE DEF stage
    <2>4. MatrixInv'
        BY <1>0, <2>1, <2>2, <2>3, StageMoves
    <2>5. ASSUME StageSound PROVE StageSound' /\ OwnTenderReviewed'
        BY <2>1, <2>5 DEF StageSound, OwnTenderReviewed, OnlyOf, Tender
    <2> QED
        BY <2>4, <2>5 DEF ScopeInv
<1>7. ASSUME NEW q \in Requirements, Review(q)
      PROVE  MatrixInv' /\ (ScopeInv => ScopeInv')
    <2>1. /\ worker.stage = "reviewing" /\ worker.run # NoRun
          /\ worker' = [run |-> worker.run, stage |-> "reviewing", todo |-> worker.todo \ {q}]
          /\ worker.todo \ {q} \in SUBSET Requirements
          /\ UNCHANGED <<rows, runs, request, fruitless>>
        BY <1>0, <1>7 DEF Review, WorkerSound, TypeOK
    <2>2. OneTenderMatrix' /\ fruitless' \subseteq RunIds
        BY <1>0, <2>1 DEF OneTenderMatrix, TypeOK
    <2>3. MatrixInv'
        BY <1>0, <2>1, <2>2, StageMoves DEF Stages
    <2>4. StageSound => StageSound'
        BY <2>1 DEF StageSound, OnlyOf, Tender
    <2>5. OwnTenderReviewed => OwnTenderReviewed'
        BY <2>1 DEF OwnTenderReviewed, Tender
    <2> QED
        BY <2>3, <2>4, <2>5 DEF ScopeInv
<1>8. CASE Finish \/ Fail
    <2>1. PICK s \in Ended :
            /\ runs' = [runs EXCEPT ![worker.run].status = s]
            /\ s # "failed" => worker.stage \in {"reviewing", "nothing"}
        BY <1>8 DEF Finish, Fail, Ended
    <2>2. /\ worker.run # NoRun /\ worker' = IdleWorker
          /\ UNCHANGED <<rows, request, fruitless>>
        BY <1>0, <1>8 DEF Finish, Fail, WorkerSound
    <2>3. MatrixInv' /\ (StageSound => StageSound')
        BY <2>1, <2>2, RunEnds
    <2>4. OwnTenderReviewed'
        BY <2>2 DEF OwnTenderReviewed, IdleWorker
    <2> QED
        BY <2>3, <2>4 DEF ScopeInv
<1>9. CASE UNCHANGED vars
    BY <1>9 DEF vars, MatrixInv, ScopeInv, TypeOK, WorkerSound, InOrder, OneTenderMatrix,
        OwnTenderReviewed, StageSound, OnlyOf, ActiveIn, Tender
<1> QED
    BY <1>1, <1>2, <1>3, <1>4, <1>5, <1>6, <1>7, <1>8, <1>9 DEF Next

-----------------------------------------------------------------------------
\* The inductive invariant as far as it does not speak of extractions.
THEOREM MatrixInvariant == Spec => []MatrixInv
<1>1. Init => MatrixInv
    BY InitMatrix DEF ScopeInv
<1>2. MatrixInv /\ [Next]_vars => MatrixInv'
    BY StepMatrix
<1> QED
    BY <1>1, <1>2, PTL DEF Spec

\* Every variable has its type.
THEOREM MatrixTypeOK == Spec => []TypeOK
<1>1. MatrixInv => TypeOK
    BY DEF MatrixInv
<1> QED
    BY <1>1, MatrixInvariant, PTL

\* The active requirements are of one tender version, also when extractions
\* yield nothing.
THEOREM MatrixOneTender == Spec => []OneTenderMatrix
<1>1. MatrixInv => OneTenderMatrix
    BY DEF MatrixInv
<1> QED
    BY <1>1, MatrixInvariant, PTL

\* The whole inductive invariant: the matrix is of one tender, the tender of
\* the run under review or of the last that was reviewed with success, unless
\* that run's extraction had no valid candidate.
THEOREM MatrixScope == Spec => []ScopeInv
<1>1. ScopeInv /\ [Next]_vars => ScopeInv'
    BY StepMatrix DEF ScopeInv
<1> QED
    BY <1>1, InitMatrix, PTL DEF Spec

\* A job reviews another tender's requirements only if its own extraction had
\* no valid candidate.
THEOREM MatrixOwnTender == Spec => []OwnTenderReviewed
<1>1. ScopeInv => OwnTenderReviewed
    BY DEF ScopeInv
<1> QED
    BY <1>1, MatrixScope, PTL

\* What is shown in the end is of the newest job's tender, unless that job's
\* extraction had no valid candidate.
THEOREM MatrixNewestTender == Spec => []NewestTenderShown
<1>1. ScopeInv => NewestTenderShown
    <2> SUFFICES ASSUME ScopeInv, NEW k \in RunIds,
                        runs[k].status \in Ended \ {"failed"},
                        \A j \in RunIds : runs[j].status # "absent" => j <= k
                 PROVE  k \in fruitless \/ OnlyOf(runs[k].tender)
        BY DEF NewestTenderShown, OnlyOf
    <2>1. \A j \in RunIds : k < j => runs[j].status \in Unstarted
        BY RunIdsAreNat DEF Unstarted
    <2> QED
        BY <2>1 DEF ScopeInv, StageSound, Ended, Well
<1> QED
    BY <1>1, MatrixScope, PTL

\* What the extraction of a version leaves: its matrix, unless the version was
\* extracted before and its matrix made inactive.
ExtractedUnlessKnown ==
    [][(/\ worker.stage = "extracting" /\ worker'.stage = "extracted"
        /\ worker.run \notin fruitless')
            => \/ Extracted(rows', Tender)
               \/ \E q \in Requirements : q[1] = Tender /\ rows[q] = "inactive"]_vars

\* The governance record's sentence that TLC refutes holds of the first matrix
\* of a version: only a matrix that was made inactive is not extracted again.
THEOREM MatrixExtractedUnlessKnown == Spec => ExtractedUnlessKnown
<1>1. ASSUME MatrixInv, [Next]_vars,
             worker.stage = "extracting", worker'.stage = "extracted",
             worker.run \notin fruitless'
      PROVE  \/ Extracted(rows', Tender)
             \/ \E q \in Requirements : q[1] = Tender /\ rows[q] = "inactive"
  <2>1. ExtractReturns
    BY <1>1 DEF MatrixInv, TypeOK, Next, vars, StartReview, LookUp, Replace,
       Begin, Select, Review, Finish, Fail, IdleWorker
  <2>2. PICK S \in SUBSET Candidates : S # {} /\ rows' = Saved(rows, Tender, S)
    BY <1>1, <2>1 DEF ExtractReturns
  <2>3. PICK c \in Candidates : c \in S
    BY <2>2
  <2>4. Tender \in Tenders
    BY <1>1 DEF MatrixInv, TypeOK, WorkerSound, Tender
  <2> DEFINE q == <<Tender, c>>
  <2>5. q \in Requirements /\ q[1] = Tender /\ q[2] = c
    BY <2>4 DEF Requirements
  <2>6. rows[q] \in {"absent", "active", "inactive"}
    BY <1>1, <2>5 DEF MatrixInv, TypeOK, Matrices
  <2>7. rows'[q] = IF rows[q] = "absent" THEN "active" ELSE rows[q]
    BY <2>2, <2>3, <2>5 DEF Saved
  <2> HIDE DEF q
  <2> QED
    BY <2>5, <2>6, <2>7 DEF Extracted
<1>2. MatrixInv /\ [Next]_vars =>
        [(/\ worker.stage = "extracting" /\ worker'.stage = "extracted"
          /\ worker.run \notin fruitless')
            => \/ Extracted(rows', Tender)
               \/ \E q \in Requirements : q[1] = Tender /\ rows[q] = "inactive"]_vars
  BY <1>1
<1> QED
  BY <1>2, MatrixInvariant, PTL DEF Spec, ExtractedUnlessKnown

=============================================================================
