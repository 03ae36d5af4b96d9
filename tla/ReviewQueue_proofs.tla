-------------------------- MODULE ReviewQueue_proofs --------------------------
(***************************************************************************)
(* Proofs about the review queue, for any number of client threads, file   *)
(* scopes, jobs and faults, and about the ledger that the model calls of   *)
(* its jobs leave, for any number of requirements, versions, tool calls    *)
(* and crashes.                                                            *)
(***************************************************************************)
EXTENDS ReviewQueue, ModelCalls, FiniteSetTheorems, TLAPS

\* The job the worker holds is the running one, and a returned result is the
\* outcome its run has already committed.
WorkerHolds ==
    worker.step \in Holding =>
        /\ worker.job \in JobIds
        /\ jobStatus[worker.job] = "running"
        /\ worker.step = "returned" =>
              worker.result \in Outcomes /\ runStatus[worker.job] = worker.result

\* Ids are handed out without gaps.
AbsentSuffix ==
    \A i, j \in JobIds :
        (i < j /\ jobStatus[i] = "absent") => jobStatus[j] = "absent"

\* Requests exist, and the worker task is alive, only in a started process.
StartedProcess ==
    /\ \A c \in Clients : request[c].step # "idle" => process = "up"
    /\ process # "down" => boots >= 1
    /\ process = "down" <=> worker.step = "none"

\* A job that waits in a started process has an attempt of this start left.
AttemptLeft ==
    \A j \in JobIds :
        /\ attempts[j] <= boots
        /\ (jobStatus[j] = "queued" /\ process # "down") => attempts[j] < boots

\* The inductive invariant.
QueueInv ==
    /\ TypeOK
    /\ WorkerHolds
    /\ AbsentSuffix
    /\ StartedProcess
    /\ AttemptLeft
    /\ RunningIsHeld
    /\ ReportedMatchesRun
    /\ SerialOrder

\* Type correctness: every variable keeps its type in every reachable state.
THEOREM QueueTypeOK == Spec => []TypeOK
<1> USE QueueAssumption DEF JobIds, NoJob, JobStatuses, Settled, RunStatuses,
        Outcomes, WorkerSteps, Idle, NoRequest
<1>1. Init => TypeOK
  BY DEF Init, TypeOK
<1>2. TypeOK /\ [Next]_vars => TypeOK'
  <2> SUFFICES ASSUME TypeOK, [Next]_vars PROVE TypeOK'
    OBVIOUS
  <2> USE DEF TypeOK, database
  <2>1. ASSUME NEW c \in Clients, ClientStep(c) PROVE TypeOK'
    <3>1. CASE BuildScope(c)
      BY <3>1 DEF BuildScope
    <3>2. CASE ReuseActive(c)
      BY <3>2 DEF ReuseActive
    <3>3. CASE SeeNoActive(c)
      BY <3>3 DEF SeeNoActive
    <3>4. CASE InsertJob(c)
      BY <3>4 DEF InsertJob, NextId
    <3>5. CASE InsertFails(c)
      BY <3>5 DEF InsertFails
    <3> QED
      BY <2>1, <3>1, <3>2, <3>3, <3>4, <3>5 DEF ClientStep
  <2>2. ASSUME NEW s \in Scopes, ChangeFiles(s) PROVE TypeOK'
    BY <2>2 DEF ChangeFiles
  <2>3. ASSUME NEW j \in JobIds, Claim(j) PROVE TypeOK'
    BY <2>3 DEF Claim
  <2>4. CASE HandlerStep
    <3>1. CASE BeginReview
      BY <3>1 DEF BeginReview
    <3>2. ASSUME NEW o \in Outcomes, ReviewReturns(o) PROVE TypeOK'
      BY <3>2 DEF ReviewReturns
    <3>3. CASE HandlerRaises
      BY <3>3 DEF HandlerRaises
    <3> QED
      BY <2>4, <3>1, <3>2, <3>3 DEF HandlerStep
  <2>5. CASE RecordResult
    BY <2>5 DEF RecordResult, StatusFor
  <2>6. CASE RecordFailure
    BY <2>6 DEF RecordFailure, StatusAfterRaise
  <2>7. CASE ResultLost \/ WorkerDies \/ Crash \/ RequestStop
    BY <2>7 DEF ResultLost, WorkerDies, Crash, RequestStop, Fault
  <2>8. CASE Exit \/ Start
    BY <2>8 DEF Exit, Start, Interrupted
  <2>9. CASE UNCHANGED vars
    BY <2>9 DEF vars
  <2> QED
    BY <2>1, <2>2, <2>3, <2>4, <2>5, <2>6, <2>7, <2>8, <2>9 DEF Next, WorkerStep
<1>3. QED
  BY <1>1, <1>2, PTL DEF Spec

-----------------------------------------------------------------------------
\* The inductive invariant holds initially.
LEMMA QueueInvInit == Init => QueueInv
<1> SUFFICES ASSUME Init PROVE QueueInv
  OBVIOUS
<1>1. TypeOK
  BY QueueAssumption DEF Init, TypeOK, JobIds, NoJob, JobStatuses, Settled,
     RunStatuses, Outcomes, WorkerSteps, Idle, NoRequest
<1>2. WorkerHolds /\ AbsentSuffix /\ StartedProcess
  BY DEF Init, WorkerHolds, AbsentSuffix, StartedProcess, Idle, NoRequest,
     Holding
<1>3. AttemptLeft /\ RunningIsHeld /\ ReportedMatchesRun /\ SerialOrder
  BY DEF Init, AttemptLeft, RunningIsHeld, ReportedMatchesRun, SerialOrder,
     Settled, Idle
<1> QED
  BY <1>1, <1>2, <1>3 DEF QueueInv

\* A step that leaves the job table and the worker alone, and starts or stops
\* no process, preserves the parts of the invariant about them.
LEMMA QueueInvStutter ==
    ASSUME QueueInv, TypeOK', StartedProcess',
           UNCHANGED <<database, process, worker, boots>>
    PROVE  QueueInv'
BY DEF QueueInv, WorkerHolds, AbsentSuffix, AttemptLeft, RunningIsHeld,
   ReportedMatchesRun, SerialOrder, database

\* A job enters the table behind every other job.
LEMMA InsertPreserves ==
    ASSUME QueueInv, TypeOK', NEW c \in Clients, InsertJob(c)
    PROVE  QueueInv'
<1> USE DEF QueueInv, TypeOK, InsertJob
<1> PICK j \in JobIds :
        /\ NextId(j)
        /\ jobStatus' = [jobStatus EXCEPT ![j] = "queued"]
        /\ jobScope'  = [jobScope EXCEPT ![j] = request[c].scope]
        /\ attempts'  = [attempts EXCEPT ![j] = 0]
        /\ runStatus' = [runStatus EXCEPT ![j] = "queued"]
  OBVIOUS
<1>1. process = "up" /\ boots >= 1
  BY DEF StartedProcess
<1>2. WorkerHolds'
  BY DEF WorkerHolds, NextId
<1>3. AbsentSuffix'
  BY DEF AbsentSuffix, NextId, JobIds
<1>4. StartedProcess'
  BY DEF StartedProcess, NoRequest
<1>5. AttemptLeft'
  BY <1>1 DEF AttemptLeft
<1>6. RunningIsHeld' /\ ReportedMatchesRun'
  BY DEF RunningIsHeld, ReportedMatchesRun, NextId
<1>7. SerialOrder'
  <2> SUFFICES ASSUME NEW i \in JobIds, NEW k \in JobIds, i < k,
                      jobStatus'[k] \in Settled \cup {"running"}
               PROVE  jobStatus'[i] \in Settled
    BY DEF SerialOrder
  <2>1. k # j /\ jobStatus[k] # "absent"
    BY DEF Settled
  <2>2. i # j
    BY <2>1 DEF AbsentSuffix, NextId
  <2> QED
    BY <2>1, <2>2 DEF SerialOrder
<1> QED
  BY <1>2, <1>3, <1>4, <1>5, <1>6, <1>7

\* The worker claims the oldest waiting job while no other one runs.
LEMMA ClaimPreserves ==
    ASSUME QueueInv, TypeOK', NEW j \in JobIds, Claim(j)
    PROVE  QueueInv'
<1> USE DEF QueueInv, TypeOK, Claim
<1>1. \A k \in JobIds : jobStatus[k] # "running"
  BY DEF RunningIsHeld, Holding
<1>2. jobStatus[j] = "queued"
  BY DEF OldestQueued
<1>3. WorkerHolds'
  BY DEF WorkerHolds, Holding
<1>4. AbsentSuffix' /\ StartedProcess'
  BY <1>2 DEF AbsentSuffix, StartedProcess
<1>5. AttemptLeft'
  BY <1>2 DEF AttemptLeft
<1>6. RunningIsHeld' /\ ReportedMatchesRun'
  BY <1>1, <1>2 DEF RunningIsHeld, ReportedMatchesRun, Holding
<1>7. SerialOrder'
  <2> SUFFICES ASSUME NEW i \in JobIds, NEW k \in JobIds, i < k,
                      jobStatus'[k] \in Settled \cup {"running"}
               PROVE  jobStatus'[i] \in Settled
    BY DEF SerialOrder
  <2>1. CASE k = j
    <3>1. jobStatus[i] # "absent"
      BY <1>2, <2>1 DEF AbsentSuffix
    <3>2. jobStatus[i] # "queued"
      BY <2>1 DEF OldestQueued, JobIds
    <3> QED
      BY <1>1, <2>1, <3>1, <3>2 DEF JobStatuses, JobIds
  <2>2. CASE k # j
    BY <1>2, <2>2 DEF SerialOrder, Settled
  <2> QED
    BY <2>1, <2>2
<1> QED
  BY <1>3, <1>4, <1>5, <1>6, <1>7

\* The handler's own steps touch only the run of the job the worker holds.
LEMMA HandlerPreserves ==
    ASSUME QueueInv, TypeOK', HandlerStep
    PROVE  QueueInv'
<1> USE DEF QueueInv, TypeOK
<1>1. /\ worker.step \in Holding
      /\ worker'.step \in Holding
      /\ worker'.job = worker.job
      /\ UNCHANGED <<jobStatus, jobScope, attempts, request, process, boots>>
      /\ \A j \in JobIds : j # worker.job => runStatus'[j] = runStatus[j]
      /\ worker'.step = "returned" =>
            worker'.result \in Outcomes /\ runStatus'[worker.job] = worker'.result
  <2>1. CASE BeginReview
    BY <2>1 DEF BeginReview, Holding
  <2>2. ASSUME NEW o \in Outcomes, ReviewReturns(o) PROVE <1>1
    BY <2>2 DEF ReviewReturns, Holding, WorkerHolds
  <2>3. CASE HandlerRaises
    BY <2>3 DEF HandlerRaises, Holding, database
  <2> QED
    BY <2>1, <2>2, <2>3 DEF HandlerStep
<1>2. WorkerHolds'
  BY <1>1 DEF WorkerHolds
<1>3. AbsentSuffix' /\ StartedProcess' /\ AttemptLeft' /\ SerialOrder'
  BY <1>1 DEF AbsentSuffix, StartedProcess, AttemptLeft, SerialOrder, Holding
<1>4. RunningIsHeld'
  BY <1>1 DEF RunningIsHeld, Holding
<1>5. ReportedMatchesRun'
  <2> SUFFICES ASSUME NEW j \in JobIds,
                      jobStatus'[j] \in {"completed", "awaiting_confirmation"}
               PROVE  runStatus'[j] = jobStatus'[j]
    BY DEF ReportedMatchesRun
  <2>1. j # worker.job
    BY <1>1 DEF WorkerHolds
  <2> QED
    BY <1>1, <2>1 DEF ReportedMatchesRun
<1> QED
  BY <1>2, <1>3, <1>4, <1>5

\* The worker settles the job it holds and becomes idle.
LEMMA RecordPreserves ==
    ASSUME QueueInv, TypeOK', RecordResult \/ RecordFailure
    PROVE  QueueInv'
<1> USE DEF QueueInv, TypeOK
<1> DEFINE w == worker.job
<1>1. /\ w \in JobIds
      /\ jobStatus[w] = "running"
      /\ worker.step \in Holding
  BY DEF RecordResult, RecordFailure, Holding, WorkerHolds
<1>2. /\ worker' = Idle("idle")
      /\ UNCHANGED <<jobScope, attempts, runStatus, request, process, boots>>
      /\ \E st \in Settled :
            /\ jobStatus' = [jobStatus EXCEPT ![w] = st]
            /\ st # "failed" => runStatus[w] = st
  <2>1. CASE RecordResult
    BY <2>1, <1>1 DEF RecordResult, StatusFor, WorkerHolds, Outcomes, Settled,
       Holding
  <2>2. CASE RecordFailure
    BY <2>2, <1>1 DEF RecordFailure, StatusAfterRaise, Settled
  <2> QED
    BY <2>1, <2>2
<1> PICK st \in Settled : /\ jobStatus' = [jobStatus EXCEPT ![w] = st]
                          /\ st # "failed" => runStatus[w] = st
  BY <1>2
<1>3. WorkerHolds' /\ StartedProcess'
  BY <1>1, <1>2 DEF WorkerHolds, StartedProcess, Holding, Idle
<1>4. AbsentSuffix' /\ AttemptLeft'
  BY <1>1, <1>2 DEF AbsentSuffix, AttemptLeft, Settled
<1>5. \A k \in JobIds : jobStatus[k] = "running" => k = w
  BY <1>1 DEF RunningIsHeld, Holding
<1>6. RunningIsHeld' /\ ReportedMatchesRun'
  BY <1>1, <1>2, <1>5 DEF RunningIsHeld, ReportedMatchesRun, Settled
<1>7. SerialOrder'
  BY <1>1, <1>2 DEF SerialOrder, Settled
<1> QED
  BY <1>3, <1>4, <1>6, <1>7

\* Faults and the end of the process take the worker away, never a job.
LEMMA FaultPreserves ==
    ASSUME QueueInv, TypeOK',
           ResultLost \/ WorkerDies \/ Crash \/ RequestStop \/ Exit
    PROVE  QueueInv'
<1> USE DEF QueueInv, TypeOK, database, Idle
<1>1. UNCHANGED <<database, boots>>
  BY DEF ResultLost, WorkerDies, Crash, RequestStop, Exit
<1>2. AbsentSuffix' /\ ReportedMatchesRun' /\ SerialOrder'
  BY <1>1 DEF AbsentSuffix, ReportedMatchesRun, SerialOrder
<1>3. StartedProcess'
  BY <1>1 DEF StartedProcess, ResultLost, WorkerDies, Crash, RequestStop, Exit,
     NoRequest
<1>4. AttemptLeft'
  BY <1>1 DEF AttemptLeft, StartedProcess, ResultLost, WorkerDies, Crash,
     RequestStop, Exit
<1>5. WorkerHolds' /\ RunningIsHeld'
  BY <1>1 DEF WorkerHolds, RunningIsHeld, Holding, ResultLost, WorkerDies,
     Crash, RequestStop, Exit
<1> QED
  BY <1>2, <1>3, <1>4, <1>5

\* A start turns the interrupted job back into the oldest waiting one.
LEMMA StartPreserves ==
    ASSUME QueueInv, TypeOK', Start
    PROVE  QueueInv'
<1> USE DEF QueueInv, TypeOK, Start, Interrupted, Idle
<1>1. WorkerHolds' /\ StartedProcess' /\ AbsentSuffix'
  BY DEF WorkerHolds, StartedProcess, AbsentSuffix, Holding
<1>2. AttemptLeft'
  BY DEF AttemptLeft
<1>3. RunningIsHeld' /\ ReportedMatchesRun' /\ SerialOrder'
  BY DEF RunningIsHeld, ReportedMatchesRun, SerialOrder, Settled
<1> QED
  BY <1>1, <1>2, <1>3

\* Every step preserves the inductive invariant.
LEMMA QueueInvNext == QueueInv /\ TypeOK' /\ [Next]_vars => QueueInv'
<1> SUFFICES ASSUME QueueInv, TypeOK', [Next]_vars PROVE QueueInv'
  OBVIOUS
<1>1. ASSUME NEW c \in Clients, ClientStep(c) PROVE QueueInv'
  <2>1. CASE InsertJob(c)
    BY <2>1, InsertPreserves
  <2>2. CASE BuildScope(c) \/ ReuseActive(c) \/ SeeNoActive(c) \/ InsertFails(c)
    <3>1. UNCHANGED <<database, process, worker, boots>>
      BY <2>2 DEF BuildScope, ReuseActive, SeeNoActive, InsertFails
    <3>2. StartedProcess'
      BY <2>2, <3>1 DEF QueueInv, TypeOK, StartedProcess, BuildScope,
         ReuseActive, SeeNoActive, InsertFails, NoRequest
    <3> QED
      BY <3>1, <3>2, QueueInvStutter
  <2> QED
    BY <1>1, <2>1, <2>2 DEF ClientStep
<1>2. ASSUME NEW s \in Scopes, ChangeFiles(s) PROVE QueueInv'
  BY <1>2, QueueInvStutter DEF ChangeFiles, QueueInv, StartedProcess
<1>3. ASSUME NEW j \in JobIds, Claim(j) PROVE QueueInv'
  BY <1>3, ClaimPreserves
<1>4. CASE UNCHANGED vars
  BY <1>4, QueueInvStutter DEF vars, database, QueueInv, StartedProcess
<1> QED
  BY <1>1, <1>2, <1>3, <1>4, HandlerPreserves, RecordPreserves, FaultPreserves,
     StartPreserves DEF Next, WorkerStep

\* The inductive invariant holds in every reachable state.
LEMMA QueueInvariant == Spec => []QueueInv
<1>1. QueueInv /\ TypeOK' /\ [Next]_vars => QueueInv'
  BY QueueInvNext
<1> QED
  BY <1>1, QueueInvInit, QueueTypeOK, PTL DEF Spec

-----------------------------------------------------------------------------
\* Reviews run one at a time in creation order, across any number of crashes.
THEOREM QueueSerialOrder == Spec => []SerialOrder
<1>1. QueueInv => SerialOrder
  BY DEF QueueInv
<1> QED
  BY <1>1, QueueInvariant, PTL

\* A row is "running" only while the worker holds it or cannot run.
THEOREM QueueRunningIsHeld == Spec => []RunningIsHeld
<1>1. QueueInv => RunningIsHeld
  BY DEF QueueInv
<1> QED
  BY <1>1, QueueInvariant, PTL

\* A job never reports more than its run recorded.
THEOREM QueueReportedMatchesRun == Spec => []ReportedMatchesRun
<1>1. QueueInv => ReportedMatchesRun
  BY DEF QueueInv
<1> QED
  BY <1>1, QueueInvariant, PTL

\* A job is executed at most once per start of the process.
THEOREM QueueAttemptPerBoot == Spec => []AttemptPerBoot
<1>1. QueueInv => AttemptPerBoot
  BY DEF QueueInv, AttemptLeft, AttemptPerBoot
<1> QED
  BY <1>1, QueueInvariant, PTL

\* A settled job is never touched again.
THEOREM QueueSettledStays == Spec => SettledStays
<1> DEFINE Stays(j) == jobStatus[j] \in Settled =>
                           /\ jobStatus'[j] = jobStatus[j]
                           /\ runStatus'[j] = runStatus[j]
                           /\ attempts'[j] = attempts[j]
<1>1. ASSUME QueueInv, [Next]_vars, NEW j \in JobIds, jobStatus[j] \in Settled
      PROVE  Stays(j)
  <2> USE <1>1 DEF QueueInv, TypeOK, database
  <2>1. ASSUME NEW c \in Clients, ClientStep(c) PROVE Stays(j)
    BY <2>1 DEF ClientStep, BuildScope, ReuseActive, SeeNoActive, InsertJob,
       InsertFails, NextId, Settled
  <2>2. ASSUME NEW s \in Scopes, ChangeFiles(s) PROVE Stays(j)
    BY <2>2 DEF ChangeFiles
  <2>3. ASSUME NEW k \in JobIds, Claim(k) PROVE Stays(j)
    BY <2>3 DEF Claim, OldestQueued, Settled
  <2>4. CASE HandlerStep \/ RecordResult \/ RecordFailure
    <3>1. worker.job \in JobIds /\ jobStatus[worker.job] = "running"
      BY <2>4 DEF HandlerStep, BeginReview, ReviewReturns, HandlerRaises,
         RecordResult, RecordFailure, WorkerHolds, Holding
    <3>2. j # worker.job
      BY <3>1 DEF Settled
    <3> QED
      BY <2>4, <3>2 DEF HandlerStep, BeginReview, ReviewReturns, HandlerRaises,
         RecordResult, RecordFailure
  <2>5. CASE ResultLost \/ WorkerDies \/ Crash \/ RequestStop \/ Exit \/ Start
    BY <2>5 DEF ResultLost, WorkerDies, Crash, RequestStop, Exit, Start,
       Interrupted, Settled
  <2>6. CASE UNCHANGED vars
    BY <2>6 DEF vars
  <2> QED
    BY <2>1, <2>2, <2>3, <2>4, <2>5, <2>6 DEF Next, WorkerStep
<1>2. QueueInv /\ [Next]_vars => [\A j \in JobIds : Stays(j)]_vars
  BY <1>1
<1> QED
  BY <1>2, QueueInvariant, PTL DEF Spec, SettledStays

-----------------------------------------------------------------------------
\* The active jobs of a scope and the requests about to insert another.
ActiveStatuses == {"queued", "running", "awaiting_confirmation"}
ActiveOf(s) == {j \in JobIds : jobScope[j] = s /\ jobStatus[j] \in ActiveStatuses}
PendingOf(s) == {c \in Clients : request[c] = [step |-> "inserting", scope |-> s]}
Bounded(s) ==
    Cardinality(ActiveOf(s)) + Cardinality(PendingOf(s)) <= Cardinality(Clients)

LEMMA BoundedIsDuplicatesBounded ==
    DuplicatesBounded <=> \A s \in Scopes : Bounded(s)
BY DEF DuplicatesBounded, Bounded, ActiveOf, PendingOf, ActiveStatuses

\* The two sets are finite, also after a step.
LEMMA CountsAreNat ==
    ASSUME IsFiniteSet(Clients), NEW A \in SUBSET JobIds, NEW P \in SUBSET Clients
    PROVE  /\ IsFiniteSet(A) /\ Cardinality(A) \in Nat
           /\ IsFiniteSet(P) /\ Cardinality(P) \in Nat
           /\ Cardinality(P) <= Cardinality(Clients)
           /\ Cardinality(Clients) \in Nat
<1>1. IsFiniteSet(JobIds)
  BY QueueAssumption, FS_Interval DEF JobIds
<1> QED
  BY <1>1, FS_Subset, FS_CardinalityType

LEMMA InitBounded ==
    ASSUME IsFiniteSet(Clients), Init
    PROVE  \A s \in Scopes : Bounded(s)
<1> TAKE s \in Scopes
<1>1. ActiveOf(s) = {} /\ PendingOf(s) = {}
  BY DEF Init, ActiveOf, PendingOf, ActiveStatuses, NoRequest
<1> QED
  BY <1>1, FS_EmptySet, FS_CardinalityType DEF Bounded

\* A step that neither makes a job active nor a request pending.
LEMMA FewerBounded ==
    ASSUME IsFiniteSet(Clients), NEW s \in Scopes, Bounded(s),
           ActiveOf(s)' \subseteq ActiveOf(s), PendingOf(s)' \subseteq PendingOf(s)
    PROVE  Bounded(s)'
<1> DEFINE A == ActiveOf(s)
           P == PendingOf(s)
           B == ActiveOf(s)'
           Q == PendingOf(s)'
<1>1. A \in SUBSET JobIds /\ P \in SUBSET Clients /\ B \in SUBSET A /\ Q \in SUBSET P
  BY DEF ActiveOf, PendingOf
<1>2. /\ Cardinality(A) + Cardinality(P) <= Cardinality(Clients)
      /\ Cardinality(B) + Cardinality(Q) <= Cardinality(Clients) => Bounded(s)'
  BY DEF Bounded
<1> HIDE DEF A, P, B, Q
<1>3. B \in SUBSET JobIds /\ Q \in SUBSET Clients
  BY <1>1
<1>4. /\ Cardinality(A) \in Nat /\ Cardinality(P) \in Nat
      /\ Cardinality(B) \in Nat /\ Cardinality(Q) \in Nat
      /\ Cardinality(Clients) \in Nat
      /\ IsFiniteSet(A) /\ IsFiniteSet(P)
  BY <1>1, <1>3, CountsAreNat
<1>5. Cardinality(B) <= Cardinality(A) /\ Cardinality(Q) <= Cardinality(P)
  BY <1>1, <1>4, FS_Subset
<1> QED
  BY <1>2, <1>4, <1>5

\* A request inserts its job: it is pending no more.
LEMMA InsertBounded ==
    ASSUME IsFiniteSet(Clients), NEW s \in Scopes, Bounded(s),
           NEW c \in PendingOf(s), NEW j \in JobIds,
           ActiveOf(s)' = ActiveOf(s) \cup {j}, PendingOf(s)' = PendingOf(s) \ {c}
    PROVE  Bounded(s)'
<1> DEFINE A == ActiveOf(s)
           P == PendingOf(s)
<1>1. A \in SUBSET JobIds /\ P \in SUBSET Clients
  BY DEF ActiveOf, PendingOf
<1>2. /\ Cardinality(A) + Cardinality(P) <= Cardinality(Clients)
      /\ Cardinality(A \cup {j}) + Cardinality(P \ {c}) <= Cardinality(Clients)
            => Bounded(s)'
  BY DEF Bounded
<1> HIDE DEF A, P
<1>3. /\ Cardinality(A) \in Nat /\ Cardinality(P) \in Nat
      /\ Cardinality(Clients) \in Nat
      /\ IsFiniteSet(A) /\ IsFiniteSet(P)
  BY <1>1, CountsAreNat
<1>4. Cardinality(A \cup {j}) = Cardinality(A) \/ Cardinality(A \cup {j}) = Cardinality(A) + 1
  BY <1>3, FS_AddElement
<1>5. c \in P
  BY DEF P
<1>6. Cardinality(P \ {c}) = Cardinality(P) - 1
  BY <1>3, <1>5, FS_RemoveElement
<1> QED
  BY <1>2, <1>3, <1>4, <1>6

\* Nothing is active: every thread may become pending.
LEMMA NoneActiveBounded ==
    ASSUME IsFiniteSet(Clients), NEW s \in Scopes, ActiveOf(s)' = {}
    PROVE  Bounded(s)'
<1>1. Bounded(s)' <=>
        Cardinality({}) + Cardinality(PendingOf(s)') <= Cardinality(Clients)
  BY DEF Bounded
<1>2. PendingOf(s)' \in SUBSET Clients
  BY DEF PendingOf
<1>3. /\ Cardinality(PendingOf(s)') \in Nat /\ Cardinality(Clients) \in Nat
      /\ Cardinality(PendingOf(s)') <= Cardinality(Clients)
  BY <1>2, CountsAreNat
<1> QED
  BY <1>1, <1>3, FS_EmptySet

LEMMA StepBounded ==
    ASSUME IsFiniteSet(Clients), QueueInv, [Next]_vars, NEW s \in Scopes, Bounded(s)
    PROVE  Bounded(s)'
<1>t. TypeOK /\ WorkerHolds
  BY DEF QueueInv
<1>a. ASSUME UNCHANGED jobScope,
             \A j \in JobIds : jobStatus'[j] \in ActiveStatuses
                => jobStatus[j] \in ActiveStatuses
      PROVE  ActiveOf(s)' \subseteq ActiveOf(s)
  BY <1>a DEF ActiveOf
<1>p. ASSUME \A c \in Clients : request'[c] = request[c] \/ request'[c].step # "inserting"
      PROVE  PendingOf(s)' \subseteq PendingOf(s)
  BY <1>p DEF PendingOf
<1>1. ASSUME NEW c \in Clients, ClientStep(c) PROVE Bounded(s)'
  <2>1. CASE BuildScope(c) \/ ReuseActive(c) \/ InsertFails(c)
    <3>1. UNCHANGED <<jobScope, jobStatus>>
      BY <2>1 DEF BuildScope, ReuseActive, InsertFails, database
    <3>2. \A d \in Clients : request'[d] = request[d] \/ request'[d].step # "inserting"
      BY <1>t, <2>1 DEF BuildScope, ReuseActive, InsertFails, TypeOK, NoRequest
    <3> QED
      BY <1>a, <1>p, <3>1, <3>2, FewerBounded
  <2>2. CASE SeeNoActive(c)
    <3>1. /\ UNCHANGED <<jobScope, jobStatus>>
          /\ ~ HasActiveJob(request[c].scope)
          /\ \A d \in Clients \ {c} : request'[d] = request[d]
          /\ request'[c].scope = request[c].scope
      BY <1>t, <2>2 DEF SeeNoActive, database, TypeOK
    <3>2. CASE s = request[c].scope
      <4>1. ActiveOf(s)' = {}
        BY <3>1, <3>2 DEF ActiveOf, ActiveStatuses, HasActiveJob, Reusable
      <4> QED
        BY <4>1, NoneActiveBounded
    <3>3. CASE s # request[c].scope
      <4>1. PendingOf(s)' \subseteq PendingOf(s)
        BY <3>1, <3>3 DEF PendingOf
      <4> QED
        BY <1>a, <3>1, <4>1, FewerBounded
    <3> QED
      BY <3>2, <3>3
  <2>3. CASE InsertJob(c)
    <3>1. PICK j \in JobIds :
            /\ NextId(j)
            /\ jobStatus' = [jobStatus EXCEPT ![j] = "queued"]
            /\ jobScope'  = [jobScope EXCEPT ![j] = request[c].scope]
      BY <2>3 DEF InsertJob
    <3>2. /\ request[c].step = "inserting"
          /\ request' = [request EXCEPT ![c] = NoRequest]
      BY <2>3 DEF InsertJob
    <3>3. /\ jobStatus[j] = "absent"
          /\ jobStatus'[j] = "queued" /\ jobScope'[j] = request[c].scope
          /\ \A k \in JobIds \ {j} : /\ jobStatus'[k] = jobStatus[k]
                                     /\ jobScope'[k] = jobScope[k]
      BY <1>t, <3>1 DEF TypeOK, NextId
    <3>4. PendingOf(s)' = PendingOf(s) \ {c}
      BY <1>t, <3>2 DEF PendingOf, TypeOK, NoRequest
    <3>5. CASE s = request[c].scope
      <4>1. ActiveOf(s)' = ActiveOf(s) \cup {j}
        BY <3>3, <3>5 DEF ActiveOf, ActiveStatuses
      <4>2. request[c] = [step |-> "inserting", scope |-> s]
        BY <1>t, <3>2, <3>5 DEF TypeOK
      <4>3. c \in PendingOf(s)
        BY <4>2 DEF PendingOf
      <4> QED
        BY <3>4, <4>1, <4>3, InsertBounded
    <3>6. CASE s # request[c].scope
      <4>1. ActiveOf(s)' \subseteq ActiveOf(s)
        BY <3>3, <3>6 DEF ActiveOf
      <4> QED
        BY <3>4, <4>1, FewerBounded
    <3> QED
      BY <3>5, <3>6
  <2> QED
    BY <1>1, <2>1, <2>2, <2>3 DEF ClientStep
<1>2. ASSUME UNCHANGED <<jobScope, request>>,
             \A j \in JobIds : jobStatus'[j] \in ActiveStatuses
                => jobStatus[j] \in ActiveStatuses
      PROVE  Bounded(s)'
  BY <1>a, <1>p, <1>2, FewerBounded
<1>3. ASSUME NEW j \in JobIds, Claim(j) PROVE Bounded(s)'
  <2>1. \A k \in JobIds : jobStatus'[k] \in ActiveStatuses
            => jobStatus[k] \in ActiveStatuses
    BY <1>t, <1>3 DEF Claim, OldestQueued, TypeOK, ActiveStatuses
  <2> QED
    BY <1>2, <1>3, <2>1 DEF Claim
<1>4. CASE HandlerStep
  BY <1>2, <1>4 DEF HandlerStep, BeginReview, ReviewReturns, HandlerRaises, database
<1>5. CASE RecordResult \/ RecordFailure
  <2>1. worker.job \in JobIds /\ jobStatus[worker.job] = "running"
    BY <1>t, <1>5 DEF RecordResult, RecordFailure, WorkerHolds, Holding
  <2>2. \A k \in JobIds \ {worker.job} : jobStatus'[k] = jobStatus[k]
    BY <1>t, <1>5 DEF RecordResult, RecordFailure, TypeOK
  <2>3. \A k \in JobIds : jobStatus'[k] \in ActiveStatuses
            => jobStatus[k] \in ActiveStatuses
    BY <2>1, <2>2 DEF ActiveStatuses
  <2> QED
    BY <1>2, <1>5, <2>3 DEF RecordResult, RecordFailure
<1>6. CASE Start
  <2>1. \A k \in JobIds : jobStatus'[k] \in ActiveStatuses
            => jobStatus[k] \in ActiveStatuses
    BY <1>6 DEF Start, Interrupted, ActiveStatuses
  <2> QED
    BY <1>2, <1>6, <2>1 DEF Start
<1>7. CASE Crash
  <2>1. \A c \in Clients : request'[c] = request[c] \/ request'[c].step # "inserting"
    BY <1>7 DEF Crash, NoRequest
  <2> QED
    BY <1>a, <1>p, <1>7, <2>1, FewerBounded DEF Crash, database
<1>8. CASE ResultLost \/ WorkerDies \/ RequestStop \/ Exit
  BY <1>2, <1>8 DEF ResultLost, WorkerDies, RequestStop, Exit, database
<1>9. ASSUME NEW f \in Scopes, ChangeFiles(f) PROVE Bounded(s)'
  BY <1>2, <1>9 DEF ChangeFiles, database
<1>10. CASE UNCHANGED vars
  BY <1>2, <1>10 DEF vars
<1> QED
  BY <1>1, <1>3, <1>4, <1>5, <1>6, <1>7, <1>8, <1>9, <1>10 DEF Next, WorkerStep

\* start_review duplicates a scope's job at most once per racing thread, and
\* never in sequence, for any number of scopes, jobs, crashes and threads.
THEOREM QueueDuplicatesBounded ==
    ASSUME IsFiniteSet(Clients)
    PROVE  Spec => []DuplicatesBounded
<1> DEFINE Inv == \A s \in Scopes : Bounded(s)
<1>1. Init => Inv
  BY InitBounded
<1>2. Inv /\ QueueInv /\ [Next]_vars => Inv'
  BY StepBounded
<1>3. Inv => DuplicatesBounded
  BY BoundedIsDuplicatesBounded
<1> HIDE DEF Inv
<1> QED
  BY <1>1, <1>2, <1>3, QueueInvariant, PTL DEF Spec

\* A job, and a request that has built its scope, has a file scope.
Scoped ==
    /\ \A c \in Clients : request[c].step # "idle" => request[c].scope \in Scopes
    /\ \A j \in JobIds : jobStatus[j] # "absent" => jobScope[j] \in Scopes

LEMMA QueueScoped == Spec => []Scoped
<1>1. Init => Scoped
  BY DEF Init, Scoped, NoRequest
<1>2. QueueInv /\ Scoped /\ [Next]_vars => Scoped'
  <2> SUFFICES ASSUME TypeOK, WorkerHolds, Scoped, [Next]_vars PROVE Scoped'
    BY DEF QueueInv
  <2>1. ASSUME NEW c \in Clients, ClientStep(c) PROVE Scoped'
    <3>1. CASE BuildScope(c)
      BY <3>1 DEF BuildScope, Scoped, TypeOK, database
    <3>2. CASE ReuseActive(c) \/ InsertFails(c)
      BY <3>2 DEF ReuseActive, InsertFails, NoRequest, Scoped, TypeOK, database
    <3>3. CASE SeeNoActive(c)
      BY <3>3 DEF SeeNoActive, Scoped, TypeOK, database
    <3>4. CASE InsertJob(c)
      <4>1. request[c].scope \in Scopes
        BY <3>4 DEF InsertJob, Scoped
      <4>2. request' = [request EXCEPT ![c] = NoRequest]
        BY <3>4 DEF InsertJob
      <4>3. PICK j \in JobIds :
               /\ jobStatus' = [jobStatus EXCEPT ![j] = "queued"]
               /\ jobScope'  = [jobScope EXCEPT ![j] = request[c].scope]
        BY <3>4 DEF InsertJob
      <4> QED
        BY <4>1, <4>2, <4>3 DEF Scoped, TypeOK, NoRequest
    <3> QED
      BY <2>1, <3>1, <3>2, <3>3, <3>4 DEF ClientStep
  <2>2. ASSUME UNCHANGED <<jobScope, request>>,
               \A j \in JobIds : jobStatus[j] = "absent" => jobStatus'[j] = "absent"
        PROVE  Scoped'
    BY <2>2 DEF Scoped
  <2>3. ASSUME NEW j \in JobIds, Claim(j) PROVE Scoped'
    <3>1. jobStatus[j] = "queued"
      BY <2>3 DEF Claim, OldestQueued
    <3> QED
      BY <2>2, <2>3, <3>1 DEF Claim, TypeOK
  <2>4. CASE HandlerStep
    BY <2>2, <2>4 DEF HandlerStep, BeginReview, ReviewReturns, HandlerRaises,
       database
  <2>5. CASE RecordResult \/ RecordFailure
    <3>1. jobStatus[worker.job] = "running"
      BY <2>5 DEF RecordResult, RecordFailure, WorkerHolds, Holding
    <3>2. \A k \in JobIds \ {worker.job} : jobStatus'[k] = jobStatus[k]
      BY <2>5 DEF RecordResult, RecordFailure, TypeOK
    <3> QED
      BY <2>2, <2>5, <3>1, <3>2 DEF RecordResult, RecordFailure
  <2>6. CASE Start
    <3>1. \A k \in JobIds : jobStatus[k] = "absent" => jobStatus'[k] = "absent"
      BY <2>6 DEF Start, Interrupted
    <3> QED
      BY <2>2, <2>6, <3>1 DEF Start
  <2>7. CASE Crash
    BY <2>7 DEF Crash, Scoped, NoRequest, database
  <2>8. CASE ResultLost \/ WorkerDies \/ RequestStop \/ Exit
    BY <2>2, <2>8 DEF ResultLost, WorkerDies, RequestStop, Exit, database
  <2>9. ASSUME NEW f \in Scopes, ChangeFiles(f) PROVE Scoped'
    BY <2>2, <2>9 DEF ChangeFiles, database
  <2>10. CASE UNCHANGED vars
    BY <2>2, <2>10 DEF vars
  <2> QED
    BY <2>1, <2>3, <2>4, <2>5, <2>6, <2>7, <2>8, <2>9, <2>10 DEF Next, WorkerStep
<1> QED
  BY <1>1, <1>2, QueueInvariant, PTL DEF Spec

\* What start_review's docstring promises holds when its requests come one by
\* one: with a single thread no two unfinished jobs share a file scope.
THEOREM QueueOneActiveJobPerScope ==
    ASSUME IsFiniteSet(Clients), Cardinality(Clients) = 1
    PROVE  Spec => []OneActiveJobPerScope
<1>1. Scoped /\ DuplicatesBounded => OneActiveJobPerScope
  <2> SUFFICES ASSUME Scoped, DuplicatesBounded,
                      NEW i \in JobIds, NEW j \in JobIds,
                      jobStatus[i] \in {"queued", "running"},
                      jobStatus[j] \in {"queued", "running"},
                      jobScope[i] = jobScope[j]
               PROVE  i = j
    BY DEF OneActiveJobPerScope
  <2> DEFINE s == jobScope[i]
             active == {k \in JobIds :
                          /\ jobScope[k] = s
                          /\ jobStatus[k] \in {"queued", "running",
                                               "awaiting_confirmation"}}
             pending == {c \in Clients :
                           request[c] = [step |-> "inserting", scope |-> s]}
  <2>1. i \in active /\ j \in active
    OBVIOUS
  <2>2. s \in Scopes
    BY DEF Scoped
  <2>3. Cardinality(active) + Cardinality(pending) <= 1
    BY <2>2 DEF DuplicatesBounded
  <2>4. IsFiniteSet(active) /\ Cardinality(active) \in Nat
    <3>1. IsFiniteSet(JobIds)
      BY QueueAssumption, FS_Interval DEF JobIds
    <3> QED
      BY <3>1, FS_Subset, FS_CardinalityType
  <2>5. Cardinality(pending) \in Nat
    BY FS_Subset, FS_CardinalityType
  <2> HIDE DEF active, pending
  <2>6. Cardinality(active) <= 1
    BY <2>3, <2>4, <2>5
  <2>7. Cardinality({i, j}) <= Cardinality(active)
    <3>1. {i, j} \in SUBSET active
      BY <2>1
    <3> QED
      BY <2>4, <3>1, FS_Subset
  <2>8. i # j => Cardinality({i, j}) = 2
    <3>1. IsFiniteSet({j}) /\ Cardinality({j}) = 1
      BY FS_Singleton
    <3>2. {i, j} = {j} \cup {i}
      OBVIOUS
    <3> QED
      BY <3>1, <3>2, FS_AddElement
  <2> QED
    BY <2>4, <2>6, <2>7, <2>8
<1> QED
  BY <1>1, QueueScoped, QueueDuplicatesBounded, PTL

-----------------------------------------------------------------------------
(* The interface between the queue and the run of a job.                   *)

\* The job the worker holds is the one that is not at stage "none".
LEMMA HeldStage ==
    ASSUME QueueInv, NEW j \in JobIds, StageOf(j) # "none"
    PROVE  /\ worker.step \in Holding /\ worker.job = j
           /\ StageOf(j) = worker.step
           /\ jobStatus[j] = "running"
  BY DEF StageOf, QueueInv, WorkerHolds

\* What touches neither the rows nor the worker touches no job.
LEMMA LifeStutters ==
    ASSUME NEW j \in JobIds, UNCHANGED <<jobStatus, runStatus, worker>>
    PROVE  UNCHANGED Life(j)!lifeVars
  BY DEF Life!lifeVars, StageOf

\* A step of another job, by a worker that holds neither before nor after.
LEMMA LifeUntouched ==
    ASSUME NEW j \in JobIds,
           jobStatus'[j] = jobStatus[j], runStatus'[j] = runStatus[j],
           StageOf(j)' = StageOf(j)
    PROVE  UNCHANGED Life(j)!lifeVars
  BY DEF Life!lifeVars

\* A new job begins its life; the others go on with theirs.
LEMMA InsertKeepsLife ==
    ASSUME QueueInv, NEW j \in JobIds, NEW c \in Clients, InsertJob(c)
    PROVE  [Life(j)!Next]_(Life(j)!lifeVars)
<1> USE DEF QueueInv, TypeOK
<1>1. PICK k \in JobIds :
          /\ NextId(k)
          /\ jobStatus' = [jobStatus EXCEPT ![k] = "queued"]
          /\ runStatus' = [runStatus EXCEPT ![k] = "queued"]
  BY DEF InsertJob
<1>2. worker' = worker
  BY DEF InsertJob
<1>3. StageOf(j)' = StageOf(j)
  BY <1>2 DEF StageOf
<1>4. CASE k = j
  <2>1. jobStatus[j] = "absent" /\ StageOf(j) = "none"
    BY <1>1, <1>4, HeldStage DEF NextId
  <2>2. jobStatus'[j] = "queued" /\ runStatus'[j] = "queued"
    BY <1>1, <1>4
  <2>3. Life(j)!Create
    BY <1>3, <2>1, <2>2 DEF Life!Create
  <2> QED
    BY <2>3 DEF Life!Next
<1>5. CASE k # j
  <2>1. jobStatus'[j] = jobStatus[j] /\ runStatus'[j] = runStatus[j]
    BY <1>1, <1>5
  <2> QED
    BY <1>3, <2>1, LifeUntouched
<1> QED
  BY <1>4, <1>5

\* The worker's steps are those of the job it holds, or claims.
LEMMA WorkerKeepsLife ==
    ASSUME QueueInv, NEW j \in JobIds, WorkerStep
    PROVE  [Life(j)!Next]_(Life(j)!lifeVars)
<1> USE DEF QueueInv, TypeOK
<1>1. ASSUME NEW k \in JobIds, Claim(k) PROVE [Life(j)!Next]_(Life(j)!lifeVars)
  <2>1. /\ worker.step = "idle"
        /\ worker' = [step |-> "handling", job |-> k, result |-> "queued"]
        /\ jobStatus[k] = "queued"
        /\ jobStatus' = [jobStatus EXCEPT ![k] = "running"]
        /\ runStatus' = runStatus
    BY <1>1 DEF Claim, OldestQueued
  <2>2. StageOf(j) = "none"
    BY <2>1 DEF StageOf, Holding
  <2>3. StageOf(j)' = IF k = j THEN "handling" ELSE "none"
    BY <2>1 DEF StageOf, Holding
  <2>4. CASE k = j
    <3>1. jobStatus[j] = "queued" /\ jobStatus'[j] = "running"
      BY <2>1, <2>4
    <3>2. Life(j)!Claim
      BY <2>1, <2>2, <2>3, <2>4, <3>1 DEF Life!Claim
    <3> QED
      BY <3>2 DEF Life!Next
  <2>5. CASE k # j
    <3>1. jobStatus'[j] = jobStatus[j] /\ runStatus'[j] = runStatus[j]
      BY <2>1, <2>5
    <3> QED
      BY <2>2, <2>3, <2>5, <3>1, LifeUntouched
  <2> QED
    BY <2>4, <2>5
<1>2. ASSUME worker.job # j, HandlerStep \/ RecordResult \/ RecordFailure
      PROVE  [Life(j)!Next]_(Life(j)!lifeVars)
  <2>1. StageOf(j) = "none"
    BY <1>2 DEF StageOf
  <2>2. StageOf(j)' = "none"
    <3>1. CASE HandlerStep
      <4>1. worker'.job = worker.job
        BY <3>1 DEF HandlerStep, BeginReview, ReviewReturns, HandlerRaises
      <4> QED
        BY <1>2, <4>1 DEF StageOf
    <3>2. CASE RecordResult \/ RecordFailure
      <4>1. worker' = Idle("idle")
        BY <3>2 DEF RecordResult, RecordFailure
      <4> QED
        BY <4>1 DEF StageOf, Idle, Holding
    <3> QED
      BY <1>2, <3>1, <3>2
  <2>3. jobStatus'[j] = jobStatus[j] /\ runStatus'[j] = runStatus[j]
    BY <1>2 DEF HandlerStep, BeginReview, ReviewReturns, HandlerRaises,
                RecordResult, RecordFailure, database
  <2> QED
    BY <2>1, <2>2, <2>3, LifeUntouched
<1>3. ASSUME worker.job = j, BeginReview PROVE Life(j)!BeginReview
  <2>1. StageOf(j) = "handling" /\ StageOf(j)' = "reviewing"
    BY <1>3 DEF BeginReview, StageOf, Holding
  <2>2. jobStatus' = jobStatus /\ runStatus'[j] = "reviewing"
    BY <1>3 DEF BeginReview
  <2> QED
    BY <2>1, <2>2 DEF Life!BeginReview
<1>4. ASSUME worker.job = j, NEW o \in Outcomes, ReviewReturns(o)
      PROVE  Life(j)!EndReview
  <2>1. StageOf(j) = "reviewing" /\ StageOf(j)' = "returned"
    BY <1>4 DEF ReviewReturns, StageOf, Holding
  <2>2. jobStatus' = jobStatus /\ runStatus'[j] = o
    BY <1>4 DEF ReviewReturns
  <2> QED
    BY <1>4, <2>1, <2>2 DEF Life!EndReview, Life!Ends, Outcomes
<1>5. ASSUME worker.job = j, HandlerRaises PROVE Life(j)!Raise
  <2>1. StageOf(j) \in {"handling", "reviewing"} /\ StageOf(j)' = "raised"
    BY <1>5 DEF HandlerRaises, StageOf, Holding
  <2>2. jobStatus' = jobStatus /\ runStatus' = runStatus
    BY <1>5 DEF HandlerRaises, database
  <2> QED
    BY <2>1, <2>2 DEF Life!Raise
<1>6. ASSUME worker.job = j, RecordResult PROVE Life(j)!Report
  <2>1. /\ StageOf(j) = "returned" /\ StageOf(j)' = "none"
        /\ runStatus[j] = worker.result
    BY <1>6 DEF RecordResult, StageOf, Holding, Idle, WorkerHolds
  <2>2. jobStatus'[j] = StatusFor(runStatus[j]) /\ runStatus' = runStatus
    BY <1>6, <2>1 DEF RecordResult
  <2> QED
    BY <2>1, <2>2 DEF Life!Report, StatusFor
<1>7. ASSUME worker.job = j, RecordFailure PROVE Life(j)!Report
  <2>1. StageOf(j) = "raised" /\ StageOf(j)' = "none"
    BY <1>7 DEF RecordFailure, StageOf, Holding, Idle
  <2>2. jobStatus'[j] = "failed" /\ runStatus' = runStatus
    BY <1>7 DEF RecordFailure, StatusAfterRaise
  <2> QED
    BY <2>1, <2>2 DEF Life!Report
<1> QED
  BY <1>1, <1>2, <1>3, <1>4, <1>5, <1>6, <1>7
  DEF WorkerStep, HandlerStep, Life!Next

\* Faults take the job from the worker; a start queues again what was running.
LEMMA FaultKeepsLife ==
    ASSUME QueueInv, NEW j \in JobIds,
           \/ ResultLost \/ WorkerDies \/ Crash \/ RequestStop \/ Exit \/ Start
    PROVE  [Life(j)!Next]_(Life(j)!lifeVars)
<1> USE DEF QueueInv, TypeOK
<1>1. CASE ResultLost
  <2>1. CASE worker.job = j
    <3>1. StageOf(j) = "returned" /\ StageOf(j)' = "raised"
      BY <1>1, <2>1 DEF ResultLost, StageOf, Holding
    <3>2. Life(j)!Raise
      BY <1>1, <3>1 DEF ResultLost, database, Life!Raise
    <3> QED
      BY <3>2 DEF Life!Next
  <2>2. CASE worker.job # j
    <3>1. StageOf(j)' = StageOf(j)
      BY <1>1, <2>2 DEF ResultLost, StageOf
    <3> QED
      BY <1>1, <3>1, LifeUntouched DEF ResultLost, database
  <2> QED
    BY <2>1, <2>2
<1>2. CASE WorkerDies \/ Crash \/ Exit
  <2>1. StageOf(j)' = "none" /\ jobStatus' = jobStatus /\ runStatus' = runStatus
    BY <1>2 DEF WorkerDies, Crash, Exit, Idle, Holding, StageOf, database
  <2>2. CASE StageOf(j) = "none"
    BY <2>1, <2>2, LifeUntouched
  <2>3. CASE StageOf(j) # "none"
    <3>1. Life(j)!Abandon
      BY <2>1, <2>3 DEF Life!Abandon
    <3> QED
      BY <3>1 DEF Life!Next
  <2> QED
    BY <2>2, <2>3
<1>3. CASE RequestStop
  BY <1>3, LifeStutters DEF RequestStop, database
<1>4. CASE Start
  <2>1. StageOf(j) = "none" /\ StageOf(j)' = "none" /\ runStatus' = runStatus
    BY <1>4 DEF Start, StartedProcess, Idle, Holding, StageOf
  <2>2. jobStatus'[j] = IF jobStatus[j] = "running" THEN "queued"
                        ELSE jobStatus[j]
    BY <1>4 DEF Start, Interrupted
  <2>3. CASE jobStatus[j] = "running"
    <3>1. Life(j)!Requeue
      BY <2>1, <2>2, <2>3 DEF Life!Requeue
    <3> QED
      BY <3>1 DEF Life!Next
  <2>4. CASE jobStatus[j] # "running"
    BY <2>1, <2>2, <2>4, LifeUntouched
  <2> QED
    BY <2>3, <2>4
<1> QED
  BY <1>1, <1>2, <1>3, <1>4

\* Every step of the queue is a step of each job's life, or none of it.
LEMMA StepKeepsLife ==
    ASSUME QueueInv, [Next]_vars, NEW j \in JobIds
    PROVE  [Life(j)!Next]_(Life(j)!lifeVars)
<1>1. ASSUME NEW c \in Clients, ClientStep(c)
      PROVE  [Life(j)!Next]_(Life(j)!lifeVars)
  <2>1. CASE InsertJob(c)
    BY <2>1, InsertKeepsLife
  <2>2. CASE BuildScope(c) \/ ReuseActive(c) \/ SeeNoActive(c) \/ InsertFails(c)
    BY <2>2, LifeStutters
    DEF BuildScope, ReuseActive, SeeNoActive, InsertFails, database
  <2> QED
    BY <1>1, <2>1, <2>2 DEF ClientStep
<1>2. ASSUME NEW s \in Scopes, ChangeFiles(s)
      PROVE  [Life(j)!Next]_(Life(j)!lifeVars)
  BY <1>2, LifeStutters DEF ChangeFiles, database
<1>3. ASSUME UNCHANGED vars PROVE [Life(j)!Next]_(Life(j)!lifeVars)
  BY <1>3, LifeStutters DEF vars, database
<1> QED
  BY <1>1, <1>2, <1>3, WorkerKeepsLife, FaultKeepsLife DEF Next

\* No job has a life yet when the queue begins.
LEMMA LifeBegins ==
    ASSUME Init, NEW j \in JobIds
    PROVE  Life(j)!Init
<1>1. StageOf(j) = "none"
  BY DEF Init, StageOf, Idle, Holding
<1> QED
  BY <1>1 DEF Init, Life!Init

\* Every job of the queue implements JobLife.
THEOREM QueueImplementsLife ==
    ASSUME NEW j \in JobIds
    PROVE  Spec => Life(j)!Spec
<1>1. Init => Life(j)!Init
  BY LifeBegins
<1>2. QueueInv /\ [Next]_vars => [Life(j)!Next]_(Life(j)!lifeVars)
  BY StepKeepsLife
<1> QED
  BY <1>1, <1>2, QueueInvariant, PTL DEF Spec, Life!Spec

\* The same in one step relation, as a run checks it.
THEOREM QueueJobsKeepLife == Spec => JobsKeepLife
<1>1. Init => \A j \in JobIds : Life(j)!Init
  BY LifeBegins
<1>2. QueueInv /\ [Next]_vars
        => [\A j \in JobIds : [Life(j)!Next]_(Life(j)!lifeVars)]_vars
  BY StepKeepsLife
<1> QED
  BY <1>1, <1>2, QueueInvariant, PTL DEF Spec, JobsKeepLife

-----------------------------------------------------------------------------
(* The ledger of the calls.  An execution's context is fixed when it begins *)
(* and the scope grows by proposals only, which is what keeps the source of *)
(* a requirement in both or in neither.                                     *)

\* The rows of a ledger are numbered without a gap and are in scope.
LedgerSound(L) ==
    /\ IsFiniteSet(L)
    /\ {row.sequence : row \in L} = 1 .. Cardinality(L)
    /\ \A row \in L : row.versions \subseteq allowed

\* The row that is the assessment's: nothing later names one of its requirement.
Traces(t, r, row) ==
    /\ row.of = r /\ row.assessed
    /\ row.versions = {source[r]} \cup t.assessment[r].cites
    /\ \A later \in t.ledger :
        (later.of = r /\ later.assessed) => later.sequence <= row.sequence

\* What the service saved of a requirement in scope has its row.
Traced(t, r) ==
    (t.assessment[r].by = "service" /\ source[r] \in allowed)
        => \E row \in t.ledger : Traces(t, r, row)

\* What holds of the committed rows and of those an open session sees.
RowsKept(t) == LedgerSound(t.ledger) /\ \A r \in Requirements : Traced(t, r)

\* The context of an execution is in scope, and what it lacks are proposals;
\* the requirement under review is one of those left.
ExecutionSound ==
    /\ run.context \subseteq allowed
    /\ run.step \in {"agent", "answered"} =>
        /\ tx.cursor \in run.todo
        /\ \A v \in {Tender, OldTender} : v \in allowed => v \in run.context

CallsInv == /\ CallsTypeOK /\ RowsKept(db) /\ RowsKept(tx) /\ ExecutionSound

\* The number of the next row is one more than there are rows.
LEMMA NumberIsNext ==
    ASSUME NEW t, LedgerSound(t.ledger)
    PROVE  /\ NextNumber(t) = Cardinality(t.ledger) + 1
           /\ Cardinality(t.ledger) \in Nat
           /\ \A row \in t.ledger : row.sequence \in 1 .. Cardinality(t.ledger)
<1> DEFINE N == Cardinality(t.ledger)
           Fits(n) == /\ \A row \in t.ledger : row.sequence < n
                      /\ n = 1 \/ \E row \in t.ledger : row.sequence = n - 1
<1>1. N \in Nat
  BY FS_CardinalityType DEF LedgerSound
<1>2. \A row \in t.ledger : row.sequence \in 1 .. N
  BY DEF LedgerSound
<1>3. \A n \in 1 .. N : \E row \in t.ledger : row.sequence = n
  <2>1. {row.sequence : row \in t.ledger} = 1 .. N
    BY DEF LedgerSound
  <2> QED
    BY <2>1
<1> HIDE DEF N
<1>4. Fits(N + 1)
  <2>1. \A row \in t.ledger : row.sequence < N + 1
    BY <1>1, <1>2
  <2>2. CASE N = 0
    BY <2>1, <2>2
  <2>3. CASE N # 0
    <3>1. N \in 1 .. N /\ N + 1 - 1 = N
      BY <1>1, <2>3
    <3> QED
      BY <2>1, <1>3, <3>1
  <2> QED
    BY <2>2, <2>3
<1>5. \A n \in 1 .. N + 1 : Fits(n) => n = N + 1
  <2> SUFFICES ASSUME NEW n \in 1 .. N + 1, Fits(n), n # N + 1 PROVE FALSE
    OBVIOUS
  <2>1. n \in 1 .. N
    BY <1>1
  <2>2. PICK row \in t.ledger : row.sequence = n
    BY <1>3, <2>1
  <2> QED
    BY <2>1, <2>2
<1>6. N + 1 \in 1 .. N + 1
  BY <1>1
<1> HIDE DEF Fits
<1>7. (CHOOSE n \in 1 .. N + 1 : Fits(n)) = N + 1
  BY <1>4, <1>5, <1>6
<1>8. NextNumber(t) = CHOOSE n \in 1 .. N + 1 : Fits(n)
  BY DEF NextNumber, N, Fits
<1> QED
  BY <1>1, <1>2, <1>7, <1>8 DEF N

\* A row that is in scope and has the next number keeps a ledger sound.
LEMMA RowAdded ==
    ASSUME NEW t, LedgerSound(t.ledger), NEW row,
           row.sequence = NextNumber(t), row.versions \subseteq allowed
    PROVE  /\ LedgerSound(t.ledger \cup {row})
           /\ Cardinality(t.ledger \cup {row}) = Cardinality(t.ledger) + 1
           /\ \A other \in t.ledger : other.sequence < row.sequence
<1> DEFINE N == Cardinality(t.ledger)
           M == t.ledger \cup {row}
<1>1. /\ row.sequence = N + 1
      /\ N \in Nat
      /\ \A other \in t.ledger : other.sequence \in 1 .. N
  BY NumberIsNext
<1>2. \A other \in t.ledger : other.sequence < row.sequence
  BY <1>1
<1>3. row \notin t.ledger
  BY <1>1, <1>2
<1>4. IsFiniteSet(M) /\ Cardinality(M) = N + 1
  BY <1>3, FS_AddElement DEF LedgerSound
<1>5. {other.sequence : other \in M} = 1 .. N + 1
  <2>1. {other.sequence : other \in M}
            = {other.sequence : other \in t.ledger} \cup {row.sequence}
    OBVIOUS
  <2>2. {other.sequence : other \in t.ledger} = 1 .. N
    BY DEF LedgerSound
  <2>3. 1 .. N + 1 = (1 .. N) \cup {N + 1}
    BY <1>1
  <2> QED
    BY <2>1, <2>2, <2>3, <1>1
<1>6. \A other \in M : other.versions \subseteq allowed
  BY DEF LedgerSound
<1> QED
  BY <1>2, <1>4, <1>5, <1>6 DEF LedgerSound

\* A row that names no assessment takes nothing from what is traced.
LEMMA KeptUnnamed ==
    ASSUME NEW t, NEW u, NEW row, RowsKept(t),
           row.sequence = NextNumber(t), row.versions \subseteq allowed,
           row.assessed = FALSE,
           u.ledger = t.ledger \cup {row}, u.assessment = t.assessment
    PROVE  RowsKept(u)
<1>1. LedgerSound(t.ledger) /\ \A r \in Requirements : Traced(t, r)
  BY DEF RowsKept
<1>2. LedgerSound(u.ledger)
  BY <1>1, RowAdded
<1>3. ASSUME NEW r \in Requirements PROVE Traced(u, r)
  <2> SUFFICES ASSUME t.assessment[r].by = "service", source[r] \in allowed
               PROVE  \E named \in u.ledger : Traces(u, r, named)
    BY DEF Traced
  <2>1. PICK named \in t.ledger : Traces(t, r, named)
    BY <1>1 DEF Traced
  <2>2. \A later \in u.ledger : later.assessed => later \in t.ledger
    OBVIOUS
  <2>3. Traces(u, r, named)
    BY <2>1, <2>2 DEF Traces
  <2> QED
    BY <2>3
<1> QED
  BY <1>2, <1>3 DEF RowsKept

\* What is neither a row nor an assessment does not matter.
LEMMA KeptSame ==
    ASSUME NEW t, NEW u, RowsKept(t),
           u.ledger = t.ledger, u.assessment = t.assessment
    PROVE  RowsKept(u)
  BY DEF RowsKept, Traced, Traces

\* The fields of what a save leaves.
LEMMA SavedFields ==
    ASSUME NEW t \in Rows, NEW r \in Requirements, NEW by, NEW cited
    PROVE  LET u == Saved(t, r, by, cited)
           IN  /\ u.ledger = t.ledger
               /\ u.cursor = t.cursor
               /\ u.active = t.active
               /\ u.assessment[r] = [by |-> by, cites |-> cited]
               /\ \A s \in Requirements \ {r} :
                     u.assessment[s] = t.assessment[s]
  BY DEF Saved, Rows

\* An assessment that is not the service's, or whose source is out of scope,
\* needs no row.
LEMMA KeptUntraced ==
    ASSUME NEW t \in Rows, NEW r \in Requirements, NEW by, NEW cited,
           RowsKept(t), by # "service" \/ source[r] \notin allowed
    PROVE  RowsKept(Saved(t, r, by, cited))
<1> DEFINE u == Saved(t, r, by, cited)
<1>1. /\ u.ledger = t.ledger
      /\ u.assessment[r] = [by |-> by, cites |-> cited]
      /\ \A s \in Requirements \ {r} : u.assessment[s] = t.assessment[s]
  BY SavedFields
<1> HIDE DEF u
<1>2. LedgerSound(u.ledger)
  BY <1>1 DEF RowsKept
<1>3. Traced(u, r)
  BY <1>1 DEF Traced
<1>4. ASSUME NEW s \in Requirements \ {r} PROVE Traced(u, s)
  BY <1>1 DEF RowsKept, Traced, Traces
<1>5. \A s \in Requirements : Traced(u, s)
  BY <1>3, <1>4
<1>6. RowsKept(u)
  BY <1>2, <1>5 DEF RowsKept
<1> QED
  BY <1>6 DEF u

\* The service's assessment and the row that names it, in one transaction.
LEMMA KeptNamed ==
    ASSUME NEW t \in Rows, NEW r \in Requirements, NEW cited, NEW row, NEW u,
           RowsKept(t), row.sequence = NextNumber(t),
           row.versions \subseteq allowed, row.of = r, row.assessed,
           row.versions = {source[r]} \cup cited,
           u.ledger = t.ledger \cup {row},
           u.assessment = Saved(t, r, "service", cited).assessment
    PROVE  RowsKept(u)
<1>1. LedgerSound(t.ledger) /\ \A s \in Requirements : Traced(t, s)
  BY DEF RowsKept
<1>2. /\ LedgerSound(u.ledger)
      /\ \A other \in t.ledger : other.sequence < row.sequence
  BY <1>1, RowAdded
<1>3. /\ u.assessment[r].cites = cited
      /\ \A s \in Requirements \ {r} : u.assessment[s] = t.assessment[s]
  <2>1. LET saved == Saved(t, r, "service", cited)
        IN  /\ saved.assessment[r] = [by |-> "service", cites |-> cited]
            /\ \A s \in Requirements \ {r} :
                  saved.assessment[s] = t.assessment[s]
    BY SavedFields
  <2> QED
    BY <2>1
<1>4. \A other \in u.ledger : other.sequence <= row.sequence
  <2>1. row.sequence \in Nat /\ \A other \in t.ledger : other.sequence \in Nat
    <3>1. /\ NextNumber(t) = Cardinality(t.ledger) + 1
          /\ Cardinality(t.ledger) \in Nat
          /\ \A other \in t.ledger :
                other.sequence \in 1 .. Cardinality(t.ledger)
      BY <1>1, NumberIsNext
    <3> QED
      BY <3>1
  <2> QED
    BY <1>2, <2>1
<1>5. Traced(u, r)
  <2>1. Traces(u, r, row)
    BY <1>3, <1>4 DEF Traces
  <2> QED
    BY <2>1 DEF Traced
<1>6. ASSUME NEW s \in Requirements \ {r} PROVE Traced(u, s)
  <2> SUFFICES ASSUME u.assessment[s].by = "service", source[s] \in allowed
               PROVE  \E named \in u.ledger : Traces(u, s, named)
    BY DEF Traced
  <2>1. u.assessment[s] = t.assessment[s]
    BY <1>3
  <2>2. PICK named \in t.ledger : Traces(t, s, named)
    BY <1>1, <2>1 DEF Traced
  <2>3. \A later \in u.ledger : later.of = s => later \in t.ledger
    OBVIOUS
  <2>4. Traces(u, s, named)
    BY <2>1, <2>2, <2>3 DEF Traces
  <2> QED
    BY <2>4
<1>7. \A s \in Requirements : Traced(u, s)
  BY <1>5, <1>6
<1> QED
  BY <1>2, <1>7 DEF RowsKept

-----------------------------------------------------------------------------
(* The types of what the steps write.                                      *)

\* A row of the session's next number is one of the ledger's type.
LEMMA RowTyped ==
    ASSUME NEW t, LedgerSound(t.ledger), NEW of \in Requirements \cup {Extraction},
           NEW assessed \in BOOLEAN, NEW accepted \in BOOLEAN,
           NEW versions \in SUBSET Versions
    PROVE  Row(t, of, assessed, accepted, versions) \in LedgerRows
<1>1. NextNumber(t) \in Nat
  <2>1. /\ NextNumber(t) = Cardinality(t.ledger) + 1
        /\ Cardinality(t.ledger) \in Nat
    BY NumberIsNext
  <2> QED
    BY <2>1
<1> QED
  BY <1>1 DEF Row, LedgerRows

\* What a row that is added and an assessment that is saved leave of the rows.
LEMMA WritesTyped ==
    ASSUME NEW t \in Rows
    PROVE  /\ \A row \in LedgerRows :
                /\ Persisted(t, row) \in Rows
                /\ Persisted(t, row).ledger = t.ledger \cup {row}
                /\ Persisted(t, row).assessment = t.assessment
                /\ Persisted(t, row).active = t.active
                /\ Persisted(t, row).cursor = t.cursor
           /\ \A r \in Requirements, by \in {"service", "tool"},
                 cited \in SUBSET Proposals : Saved(t, r, by, cited) \in Rows
  BY DEF Persisted, Saved, Rows, Assessments

\* Every variable keeps its type.
LEMMA CallTypesKept ==
    ASSUME CallsInv, [CallsNext]_callsVars
    PROVE  CallsTypeOK'
<1> USE CallsAssumption DEF Requirements, Versions, Extraction, None
<1>0. /\ CallsTypeOK /\ LedgerSound(db.ledger) /\ LedgerSound(tx.ledger)
      /\ db \in Rows /\ tx \in Rows
      /\ run.step \in {"agent", "answered"} => tx.cursor \in Requirements
  BY DEF CallsInv, CallsTypeOK, RowsKept, ExecutionSound
<1> DEFINE Runs == [step : Steps, context : SUBSET Versions,
                    todo : SUBSET Requirements, inBatch : Nat, tools : Nat]
<1>1. \A s \in Steps : At(s) \in Runs
  BY DEF At
<1>2. ASSUME NEW t \in Rows, LedgerSound(t.ledger), NEW assessed \in BOOLEAN,
             NEW versions \in SUBSET Versions,
             t.cursor \in Requirements, Fail(t, assessed, versions)
      PROVE  CallsTypeOK'
  <2>1. Row(t, t.cursor, assessed, FALSE, versions) \in LedgerRows
    BY <1>2, RowTyped
  <2>2. tx' \in Rows /\ db' = tx'
    BY <1>2, <2>1, WritesTyped DEF Fail
  <2>3. run' \in Runs
    BY <1>1, <1>2 DEF Fail, Steps
  <2>4. calls' \in Nat
    BY <1>0, <1>2 DEF Fail, CallsTypeOK
  <2>5. UNCHANGED <<source, allowed, crashes>>
    BY <1>2 DEF Fail
  <2> QED
    BY <1>0, <2>2, <2>3, <2>4, <2>5 DEF CallsTypeOK
<1>3. ASSUME NEW p \in Proposals, ProposalParsed(p) PROVE CallsTypeOK'
  BY <1>0, <1>3 DEF ProposalParsed, CallsTypeOK
<1>4. ASSUME ClaimJob PROVE CallsTypeOK'
  <2>1. run' \in Runs
    BY <1>0, <1>4 DEF ClaimJob, At, Steps, CallsTypeOK
  <2> QED
    BY <1>0, <1>4, <2>1 DEF ClaimJob, CallsTypeOK
<1>5. ASSUME ExtractReturns PROVE CallsTypeOK'
  <2> DEFINE row == Row(tx, Extraction, FALSE, TRUE, {Tender})
  <2>1. row \in LedgerRows
    BY <1>0, RowTyped
  <2>2. PICK kept \in {tx.active} \cup
                      SUBSET {r \in Requirements : source[r] = Tender} :
            tx' = [Persisted(tx, row) EXCEPT !.active = kept]
    BY <1>5 DEF ExtractReturns
  <2>3. Persisted(tx, row) \in Rows
    BY <1>0, <2>1, WritesTyped
  <2>4. kept \in SUBSET Requirements
    BY <1>0 DEF Rows
  <2> HIDE DEF row
  <2>5. tx' \in Rows
    BY <2>2, <2>3, <2>4 DEF Rows
  <2>6. run' \in Runs
    BY <1>1, <1>5 DEF ExtractReturns, Steps
  <2> QED
    BY <1>0, <1>5, <2>5, <2>6 DEF ExtractReturns, CallsTypeOK
<1>15. ASSUME ExtractAnswers \/ AgentAnswers PROVE CallsTypeOK'
  <2>1. run \in Runs /\ calls \in Nat
    BY <1>0 DEF CallsTypeOK
  <2>2. CASE ExtractAnswers
    <3>1. run' = [run EXCEPT !.step = "extractAnswered"] /\ calls' = calls + 1
      BY <2>2 DEF ExtractAnswers
    <3>2. run' \in Runs /\ calls' \in Nat
      BY <2>1, <3>1 DEF Steps
    <3>3. UNCHANGED <<source, allowed, db, tx, crashes>>
      BY <2>2 DEF ExtractAnswers
    <3> QED
      BY <1>0, <3>2, <3>3 DEF CallsTypeOK
  <2>3. CASE AgentAnswers
    <3>1. run' = [run EXCEPT !.step = "answered", !.tools = 0] /\ calls' = calls + 1
      BY <2>3 DEF AgentAnswers
    <3>4. "answered" \in Steps /\ 0 \in Nat
      BY DEF Steps
    <3>5. \A s \in Steps, n \in Nat : [run EXCEPT !.step = s, !.tools = n] \in Runs
      BY <2>1
    <3>6. run' \in Runs
      BY <3>1, <3>4, <3>5
    <3>2. run' \in Runs /\ calls' \in Nat
      BY <2>1, <3>1, <3>6
    <3>3. UNCHANGED <<source, allowed, db, tx, crashes>>
      BY <2>3 DEF AgentAnswers
    <3> QED
      BY <1>0, <3>2, <3>3 DEF CallsTypeOK
  <2> QED
    BY <1>15, <2>2, <2>3
<1>6. ASSUME ExtractFails \/ JobRaises \/ ProcessDies \/ ProcessStarts
      PROVE  CallsTypeOK'
  <2>1. run' \in Runs
    BY <1>1, <1>6 DEF ExtractFails, JobRaises, ProcessDies, ProcessStarts, Steps
  <2> QED
    BY <1>0, <1>6, <2>1
    DEF ExtractFails, JobRaises, ProcessDies, ProcessStarts, CallsTypeOK
<1>7. ASSUME Enter PROVE CallsTypeOK'
  <2>1. PICK first \in Requirements \cup {None} :
            /\ tx' = [tx EXCEPT !.cursor = first]
            /\ run' = [At(IF first = None THEN "reviewed" ELSE "agent")
                        EXCEPT !.context = allowed, !.todo = Remaining(tx)]
    BY <1>7 DEF Enter
  <2>2. tx' \in Rows
    BY <1>0, <2>1 DEF Rows
  <2>3. run' \in Runs
    BY <1>0, <2>1 DEF At, Steps, Remaining, Rows, CallsTypeOK
  <2> QED
    BY <1>0, <1>7, <2>2, <2>3 DEF Enter, CallsTypeOK
<1>8. ASSUME NEW cited \in SUBSET Versions, NEW r \in Requirements,
             ToolSaves(r, cited)
      PROVE  CallsTypeOK'
  <2>1. tx' \in Rows
    BY <1>0, <1>8, WritesTyped DEF ToolSaves, Citable
  <2>2. run' \in Runs
    BY <1>0, <1>8 DEF ToolSaves, CallsTypeOK
  <2> QED
    BY <1>0, <1>8, <2>1, <2>2 DEF ToolSaves, CallsTypeOK
<1>9. ASSUME NEW cited \in SUBSET Versions, Accept(cited) PROVE CallsTypeOK'
  <2> DEFINE saved == Saved(tx, tx.cursor, "service", cited)
             row   == Row(tx, tx.cursor, TRUE, TRUE,
                          SourceVersions(tx.cursor, cited))
             rest  == run.todo \ {tx.cursor}
  <2>1. tx.cursor \in Requirements /\ cited \in SUBSET Proposals
    BY <1>0, <1>9 DEF Accept, Citable
  <2>2. saved \in Rows
    BY <1>0, <2>1, WritesTyped
  <2>3. SourceVersions(tx.cursor, cited) \in SUBSET Versions
    BY <1>0, <2>1 DEF SourceVersions, CallsTypeOK
  <2>4. row \in LedgerRows
    BY <1>0, <2>1, <2>3, RowTyped
  <2>5. Persisted(saved, row) \in Rows
    BY <2>2, <2>4, WritesTyped
  <2>6. PICK next \in Requirements \cup {None} :
            tx' = [Persisted(saved, row) EXCEPT !.cursor = next]
    BY <1>9 DEF Accept
  <2>7. run' = [run EXCEPT
                    !.step = IF rest = {} THEN "reviewed" ELSE "agent",
                    !.todo = rest,
                    !.inBatch = IF BatchEnds(rest) THEN 0 ELSE @ + 1]
    BY <1>9 DEF Accept
  <2>8. run' \in Runs
    <3>1. PICK s \in Steps, n \in Nat :
              run' = [run EXCEPT !.step = s, !.todo = rest, !.inBatch = n]
      <4>1. run.inBatch + 1 \in Nat
        BY <1>0 DEF CallsTypeOK
      <4> QED
        BY <2>7, <4>1 DEF Steps
    <3> QED
      BY <1>0, <3>1 DEF CallsTypeOK
  <2> HIDE DEF saved, row
  <2>9. tx' \in Rows
    BY <2>5, <2>6 DEF Rows
  <2>10. db' \in Rows
    BY <1>0, <1>9, <2>9 DEF Accept
  <2>11. calls' \in Nat /\ UNCHANGED <<source, allowed, crashes>>
    BY <1>0, <1>9 DEF Accept, CallsTypeOK
  <2> QED
    BY <1>0, <2>8, <2>9, <2>10, <2>11 DEF CallsTypeOK
<1>10. ASSUME NEW cited \in SUBSET Versions, CandidateRefused(cited)
       PROVE  CallsTypeOK'
  <2>1. SourceVersions(tx.cursor, cited) \in SUBSET Versions
    BY <1>0, <1>10 DEF CandidateRefused, SourceVersions, CallsTypeOK
  <2> QED
    BY <1>0, <1>2, <1>10, <2>1 DEF CandidateRefused
<1>11. ASSUME NEW cited \in SUBSET Versions, RefusedOnceSaved(cited)
       PROVE  CallsTypeOK'
  <2> DEFINE saved == Saved(tx, tx.cursor, "service", cited)
  <2>1. tx.cursor \in Requirements /\ cited \in SUBSET Proposals
    BY <1>0, <1>11 DEF RefusedOnceSaved, Citable
  <2>2. SourceVersions(tx.cursor, cited) \in SUBSET Versions
    BY <1>0, <2>1 DEF SourceVersions, CallsTypeOK
  <2>3. saved \in Rows
    BY <1>0, <2>1, WritesTyped
  <2>4. Fail(saved, TRUE, SourceVersions(tx.cursor, cited))
    BY <1>11 DEF RefusedOnceSaved
  <2>5. saved.ledger = tx.ledger /\ saved.cursor = tx.cursor
    BY <1>0, <2>1 DEF Saved, Rows
  <2> HIDE DEF saved
  <2> QED
    BY <1>0, <1>2, <2>1, <2>2, <2>3, <2>4, <2>5
<1>12. ASSUME CallFails PROVE CallsTypeOK'
  <2>1. Fail(tx, FALSE, {source[tx.cursor]})
    BY <1>12 DEF CallFails
  <2>2. tx.cursor \in Requirements /\ {source[tx.cursor]} \in SUBSET Versions
    BY <1>0, <1>12 DEF CallFails, CallsTypeOK
  <2> QED
    BY <1>0, <1>2, <2>1, <2>2
<1>13. ASSUME Finish PROVE CallsTypeOK'
  <2>1. run' \in Runs
    BY <1>1, <1>13 DEF Finish, Steps
  <2>2. tx' \in Rows
    BY <1>0, <1>13 DEF Finish, Rows
  <2> QED
    BY <1>0, <1>13, <2>1, <2>2 DEF Finish, CallsTypeOK
<1>14. ASSUME UNCHANGED callsVars PROVE CallsTypeOK'
  BY <1>0, <1>14 DEF callsVars, CallsTypeOK
<1> QED
  BY <1>3, <1>4, <1>5, <1>6, <1>7, <1>8, <1>9, <1>10, <1>11, <1>12, <1>13,
     <1>14, <1>15 DEF CallsNext

-----------------------------------------------------------------------------
(* What the steps keep of the rows and of the execution.                   *)

\* What an added row leaves of the rows.
LEMMA PersistedFields ==
    ASSUME NEW t \in Rows, NEW row
    PROVE  /\ Persisted(t, row).ledger = t.ledger \cup {row}
           /\ Persisted(t, row).assessment = t.assessment
  BY DEF Persisted, Rows

\* While the scope stays, what holds of the next rows holds next.
LEMMA RowsCarried ==
    ASSUME RowsKept(db'), RowsKept(tx'), UNCHANGED <<source, allowed>>
    PROVE  RowsKept(db)' /\ RowsKept(tx)'
  BY DEF RowsKept, LedgerSound, Traced, Traces

\* A new proposal in scope makes no source traceable that was not.
LEMMA RowsKeptByScope ==
    ASSUME CallsInv, NEW p \in Proposals, ProposalParsed(p)
    PROVE  RowsKept(db)' /\ RowsKept(tx)'
<1>1. /\ allowed' = allowed \cup {p}
      /\ UNCHANGED <<source, db, tx>>
      /\ RowsKept(db) /\ RowsKept(tx)
  BY DEF ProposalParsed, CallsInv
<1>2. \A r \in Requirements : source[r] \in allowed' => source[r] \in allowed
  BY <1>1, CallsAssumption DEF CallsInv, CallsTypeOK
<1>3. ASSUME NEW t, RowsKept(t)
      PROVE  /\ IsFiniteSet(t.ledger)
             /\ {row.sequence : row \in t.ledger} = 1 .. Cardinality(t.ledger)
             /\ \A row \in t.ledger : row.versions \subseteq allowed'
             /\ \A r \in Requirements :
                  (t.assessment[r].by = "service" /\ source[r] \in allowed')
                    => \E row \in t.ledger : Traces(t, r, row)
  BY <1>1, <1>2, <1>3 DEF RowsKept, LedgerSound, Traced
<1>4. RowsKept(db)'
  <2>1. /\ IsFiniteSet(db.ledger)
        /\ {row.sequence : row \in db.ledger} = 1 .. Cardinality(db.ledger)
        /\ \A row \in db.ledger : row.versions \subseteq allowed'
        /\ \A r \in Requirements :
              (db.assessment[r].by = "service" /\ source[r] \in allowed')
                => \E row \in db.ledger : Traces(db, r, row)
    BY <1>1, <1>3
  <2> QED
    BY <1>1, <2>1 DEF RowsKept, LedgerSound, Traced, Traces
<1>5. RowsKept(tx)'
  <2>1. /\ IsFiniteSet(tx.ledger)
        /\ {row.sequence : row \in tx.ledger} = 1 .. Cardinality(tx.ledger)
        /\ \A row \in tx.ledger : row.versions \subseteq allowed'
        /\ \A r \in Requirements :
              (tx.assessment[r].by = "service" /\ source[r] \in allowed')
                => \E row \in tx.ledger : Traces(tx, r, row)
    BY <1>1, <1>3
  <2> QED
    BY <1>1, <2>1 DEF RowsKept, LedgerSound, Traced, Traces
<1> QED
  BY <1>4, <1>5

\* The failure of a requirement whose row names no assessment.
LEMMA FailKeepsRows ==
    ASSUME CallsInv, NEW versions, Fail(tx, FALSE, versions)
    PROVE  RowsKept(db)' /\ RowsKept(tx)'
<1> DEFINE row == Row(tx, tx.cursor, FALSE, FALSE, versions)
<1>1. /\ tx' = IF InScope(row) THEN Persisted(tx, row) ELSE tx
      /\ db' = tx'
      /\ UNCHANGED <<source, allowed>>
  BY DEF Fail
<1>2. /\ RowsKept(tx) /\ tx \in Rows
      /\ run.context \subseteq allowed
  BY DEF CallsInv, CallsTypeOK, ExecutionSound
<1>3. row.sequence = NextNumber(tx) /\ row.assessed = FALSE
  BY DEF Row
<1> HIDE DEF row
<1>4. CASE InScope(row)
  <2>1. row.versions \subseteq allowed
    BY <1>2, <1>4 DEF InScope
  <2>2. /\ tx'.ledger = tx.ledger \cup {row}
        /\ tx'.assessment = tx.assessment
    BY <1>1, <1>2, <1>4, PersistedFields
  <2>3. RowsKept(tx')
    BY <1>2, <1>3, <2>1, <2>2, KeptUnnamed
  <2> QED
    BY <1>1, <2>3, RowsCarried
<1>5. CASE ~ InScope(row)
  <2>1. RowsKept(tx')
    BY <1>1, <1>2, <1>5
  <2> QED
    BY <1>1, <2>1, RowsCarried
<1> QED
  BY <1>4, <1>5

\* The failure after the assessment has been saved: either its row is admitted
\* or the requirement's source is out of scope.
LEMMA RefusedKeepsRows ==
    ASSUME CallsInv, NEW cited, RefusedOnceSaved(cited)
    PROVE  RowsKept(db)' /\ RowsKept(tx)'
<1> DEFINE r     == tx.cursor
           saved == Saved(tx, r, "service", cited)
           row   == Row(saved, saved.cursor, TRUE, FALSE,
                        SourceVersions(r, cited))
<1>1. /\ tx' = IF InScope(row) THEN Persisted(saved, row) ELSE saved
      /\ db' = tx'
      /\ UNCHANGED <<source, allowed>>
      /\ Citable(cited)
      /\ run.step = "answered"
  BY DEF Fail, RefusedOnceSaved
<1>2. /\ RowsKept(tx) /\ tx \in Rows
      /\ run.context \subseteq allowed
      /\ r \in Requirements
      /\ source[r] \in {Tender, OldTender}
      /\ source[r] \in allowed => source[r] \in run.context
  BY <1>1 DEF CallsInv, CallsTypeOK, ExecutionSound
<1>3. /\ saved \in Rows
      /\ saved.ledger = tx.ledger
      /\ saved.cursor = r
  <2>1. cited \in SUBSET Proposals
    BY <1>1 DEF Citable
  <2> QED
    BY <1>2, <2>1, WritesTyped DEF Saved, Rows
<1>4. /\ row.sequence = NextNumber(tx) /\ row.of = r /\ row.assessed
      /\ row.versions = {source[r]} \cup cited
  BY <1>3 DEF Row, NextNumber, SourceVersions
<1> HIDE DEF r, row
<1>5. CASE InScope(row)
  <2>1. row.versions \subseteq allowed
    BY <1>2, <1>5 DEF InScope
  <2>2. tx'.ledger = tx.ledger \cup {row} /\ tx'.assessment = saved.assessment
    BY <1>1, <1>3, <1>5, PersistedFields
  <2>3. RowsKept(tx')
    BY <1>2, <1>4, <2>1, <2>2, KeptNamed
  <2> QED
    BY <1>1, <2>3, RowsCarried
<1>6. CASE ~ InScope(row)
  <2>1. source[r] \notin allowed
    BY <1>1, <1>2, <1>4, <1>6 DEF InScope, Citable
  <2>2. RowsKept(saved)
    BY <1>2, <2>1, KeptUntraced
  <2>3. RowsKept(tx')
    BY <1>1, <1>6, <2>2
  <2> QED
    BY <1>1, <2>3, RowsCarried
<1> QED
  BY <1>5, <1>6

\* A requirement that is reviewed: its assessment and the row that names it.
LEMMA AcceptKeepsRows ==
    ASSUME CallsInv, NEW cited, Accept(cited)
    PROVE  RowsKept(db)' /\ RowsKept(tx)'
<1> DEFINE r     == tx.cursor
           saved == Saved(tx, r, "service", cited)
           row   == Row(tx, r, TRUE, TRUE, SourceVersions(r, cited))
<1>1. /\ \E next \in Requirements \cup {None} :
            tx' = [Persisted(saved, row) EXCEPT !.cursor = next]
      /\ db' \in {tx', db}
      /\ UNCHANGED <<source, allowed>>
      /\ Citable(cited) /\ InScope(row)
      /\ run.step = "answered"
  BY DEF Accept
<1>2. /\ RowsKept(tx) /\ RowsKept(db) /\ tx \in Rows
      /\ run.context \subseteq allowed
      /\ r \in Requirements
  BY <1>1 DEF CallsInv, CallsTypeOK, ExecutionSound
<1>3. saved \in Rows /\ saved.ledger = tx.ledger
  <2>1. cited \in SUBSET Proposals
    BY <1>1 DEF Citable
  <2> QED
    BY <1>2, <2>1, WritesTyped DEF Saved, Rows
<1>4. /\ row.sequence = NextNumber(tx) /\ row.of = r /\ row.assessed
      /\ row.versions = {source[r]} \cup cited
  BY DEF Row, SourceVersions
<1>5. tx'.ledger = tx.ledger \cup {row} /\ tx'.assessment = saved.assessment
  <2>1. PICK next : tx' = [Persisted(saved, row) EXCEPT !.cursor = next]
    BY <1>1
  <2> HIDE DEF saved, row
  <2>2. /\ tx'.ledger = Persisted(saved, row).ledger
        /\ tx'.assessment = Persisted(saved, row).assessment
    BY <1>3, <2>1 DEF Persisted, Rows
  <2> QED
    BY <1>3, <2>2, PersistedFields
<1> HIDE DEF r, row
<1>6. row.versions \subseteq allowed
  BY <1>1, <1>2 DEF InScope
<1>7. RowsKept(tx')
  BY <1>2, <1>4, <1>5, <1>6, KeptNamed
<1>8. RowsKept(db')
  BY <1>1, <1>2, <1>7
<1> QED
  BY <1>1, <1>7, <1>8, RowsCarried

\* Every step keeps what holds of the committed rows and of the session's.
LEMMA RowsStayKept ==
    ASSUME CallsInv, [CallsNext]_callsVars
    PROVE  RowsKept(db)' /\ RowsKept(tx)'
<1>0. RowsKept(db) /\ RowsKept(tx) /\ db \in Rows /\ tx \in Rows
  BY DEF CallsInv, CallsTypeOK
<1>1. ASSUME NEW p \in Proposals, ProposalParsed(p)
      PROVE  RowsKept(db)' /\ RowsKept(tx)'
  BY <1>1, RowsKeptByScope
<1>2. ASSUME ExtractReturns PROVE RowsKept(db)' /\ RowsKept(tx)'
  <2> DEFINE row == Row(tx, Extraction, FALSE, TRUE, {Tender})
  <2>1. row.sequence = NextNumber(tx) /\ row.assessed = FALSE
    BY DEF Row
  <2>2. /\ \E kept : tx' = [Persisted(tx, row) EXCEPT !.active = kept]
        /\ db' = tx' /\ InScope(row)
        /\ UNCHANGED <<source, allowed>>
    BY <1>2 DEF ExtractReturns
  <2> HIDE DEF row
  <2>3. tx'.ledger = tx.ledger \cup {row} /\ tx'.assessment = tx.assessment
    BY <1>0, <2>2 DEF Persisted, Rows
  <2>4. row.versions \subseteq allowed
    BY <2>2 DEF InScope, CallsInv, ExecutionSound
  <2>5. RowsKept(tx')
    BY <1>0, <2>1, <2>3, <2>4, KeptUnnamed
  <2> QED
    BY <2>2, <2>5, RowsCarried
<1>3. ASSUME Enter \/ Finish PROVE RowsKept(db)' /\ RowsKept(tx)'
  <2>1. /\ \E c : tx' = [tx EXCEPT !.cursor = c]
        /\ db' = tx'
        /\ UNCHANGED <<source, allowed>>
    BY <1>3 DEF Enter, Finish
  <2>2. tx'.ledger = tx.ledger /\ tx'.assessment = tx.assessment
    BY <1>0, <2>1 DEF Rows
  <2>3. RowsKept(tx')
    BY <1>0, <2>2, KeptSame
  <2> QED
    BY <2>1, <2>3, RowsCarried
<1>4. ASSUME NEW cited \in SUBSET Versions, NEW r \in Requirements,
             ToolSaves(r, cited)
      PROVE  RowsKept(db)' /\ RowsKept(tx)'
  <2>1. /\ tx' = Saved(tx, r, "tool", cited)
        /\ UNCHANGED <<source, allowed, db>>
    BY <1>4 DEF ToolSaves
  <2>2. RowsKept(tx')
    BY <1>0, <2>1, KeptUntraced
  <2>3. RowsKept(db')
    BY <1>0, <2>1
  <2> QED
    BY <2>1, <2>2, <2>3, RowsCarried
<1>5. ASSUME NEW cited \in SUBSET Versions,
             Accept(cited) \/ CandidateRefused(cited) \/ RefusedOnceSaved(cited)
      PROVE  RowsKept(db)' /\ RowsKept(tx)'
  BY <1>5, AcceptKeepsRows, RefusedKeepsRows, FailKeepsRows
  DEF CandidateRefused
<1>6. ASSUME CallFails PROVE RowsKept(db)' /\ RowsKept(tx)'
  BY <1>6, FailKeepsRows DEF CallFails
<1>7. ASSUME \/ ClaimJob \/ ExtractAnswers \/ ExtractFails \/ JobRaises
             \/ AgentAnswers \/ ProcessDies \/ ProcessStarts
             \/ UNCHANGED callsVars
      PROVE  RowsKept(db)' /\ RowsKept(tx)'
  <2>1. /\ tx' \in {tx, db} /\ db' = db
        /\ UNCHANGED <<source, allowed>>
    BY <1>7 DEF ClaimJob, ExtractAnswers, ExtractFails, JobRaises, AgentAnswers,
                ProcessDies, ProcessStarts, callsVars
  <2>2. RowsKept(db') /\ RowsKept(tx')
    BY <1>0, <2>1
  <2> QED
    BY <2>1, <2>2, RowsCarried
<1> QED
  BY <1>1, <1>2, <1>3, <1>4, <1>5, <1>6, <1>7 DEF CallsNext

\* Every step leaves the execution a context in scope, with every tender version
\* that is in scope, and a requirement that is left to review.
LEMMA ExecutionStaysSound ==
    ASSUME CallsInv, [CallsNext]_callsVars
    PROVE  ExecutionSound'
<1>0. /\ ExecutionSound /\ tx \in Rows
      /\ \A s \in Steps : At(s).step = s /\ At(s).context = {}
  BY DEF CallsInv, CallsTypeOK, At
<1>1. ASSUME NEW p \in Proposals, ProposalParsed(p) PROVE ExecutionSound'
  BY <1>0, <1>1, CallsAssumption DEF ProposalParsed, ExecutionSound
<1>2. ASSUME \/ ExtractReturns \/ ExtractFails \/ JobRaises \/ Finish
             \/ ProcessDies \/ ProcessStarts
      PROVE  ExecutionSound'
  <2>1. \E s \in Steps \ {"agent", "answered"} : run' = At(s)
    BY <1>2 DEF ExtractReturns, ExtractFails, JobRaises, Finish, ProcessDies,
                ProcessStarts, Steps
  <2> QED
    BY <1>0, <2>1 DEF ExecutionSound
<1>3. ASSUME ClaimJob PROVE ExecutionSound'
  <2>1. allowed' = allowed
    BY <1>3 DEF ClaimJob
  <2>2. run'.step \notin {"agent", "answered"} /\ run'.context \subseteq allowed
    BY <1>3 DEF ClaimJob, At
  <2> QED
    BY <2>1, <2>2 DEF ExecutionSound
<1>9. ASSUME ExtractAnswers \/ AgentAnswers PROVE ExecutionSound'
  <2>1. /\ run'.step = "answered" => run.step = "agent"
        /\ run'.step # "agent"
        /\ run'.todo = run.todo /\ run'.context = run.context
        /\ tx' = tx /\ allowed' = allowed
    BY <1>9 DEF ExtractAnswers, AgentAnswers, CallsInv, CallsTypeOK
  <2> QED
    BY <1>0, <2>1 DEF ExecutionSound
<1>4. ASSUME Enter PROVE ExecutionSound'
  <2>1. PICK first \in Requirements \cup {None} :
            /\ FirstOf(first, Remaining(tx))
            /\ tx' = [tx EXCEPT !.cursor = first]
            /\ run' = [At(IF first = None THEN "reviewed" ELSE "agent")
                        EXCEPT !.context = allowed, !.todo = Remaining(tx)]
    BY <1>4 DEF Enter
  <2>2. allowed' = allowed /\ run'.context = allowed
    BY <1>4, <2>1 DEF Enter, At
  <2>3. ASSUME run'.step \in {"agent", "answered"} PROVE tx'.cursor \in run'.todo
    <3>1. first # None
      BY <2>1, <2>3 DEF At
    <3>2. tx'.cursor = first /\ run'.todo = Remaining(tx)
      BY <1>0, <2>1 DEF At, Rows
    <3> QED
      BY <2>1, <3>1, <3>2 DEF FirstOf
  <2> QED
    BY <2>2, <2>3 DEF ExecutionSound
<1>5. ASSUME NEW cited, NEW r \in Requirements, ToolSaves(r, cited)
      PROVE  ExecutionSound'
  <2>1. tx'.cursor = tx.cursor
    BY <1>0, <1>5 DEF ToolSaves, Saved, Rows
  <2>2. /\ run'.step = run.step /\ run'.todo = run.todo
        /\ run'.context = run.context /\ allowed' = allowed
    BY <1>5 DEF ToolSaves, CallsInv, CallsTypeOK
  <2> QED
    BY <1>0, <2>1, <2>2 DEF ExecutionSound
<1>6. ASSUME NEW cited, Accept(cited) PROVE ExecutionSound'
  <2> DEFINE rest == run.todo \ {tx.cursor}
  <2>1. PICK next \in Requirements \cup {None} :
            /\ FirstOf(next, rest)
            /\ \E u : tx' = [u EXCEPT !.cursor = next] /\ u \in Rows
    <3> DEFINE saved == Saved(tx, tx.cursor, "service", cited)
               row   == Row(tx, tx.cursor, TRUE, TRUE,
                            SourceVersions(tx.cursor, cited))
    <3>1. tx.cursor \in Requirements /\ cited \in SUBSET Proposals
      BY <1>0, <1>6 DEF Accept, Citable, ExecutionSound, CallsInv, CallsTypeOK
    <3>2. saved \in Rows
      BY <1>0, <3>1, WritesTyped
    <3>3. SourceVersions(tx.cursor, cited) \in SUBSET Versions
      BY <3>1 DEF SourceVersions, Versions, CallsInv, CallsTypeOK
    <3>4. row \in LedgerRows
      BY <3>1, <3>3, RowTyped DEF CallsInv, RowsKept
    <3>5. Persisted(saved, row) \in Rows
      BY <3>2, <3>4, WritesTyped
    <3>6. PICK next \in Requirements \cup {None} :
              /\ FirstOf(next, rest)
              /\ tx' = [Persisted(saved, row) EXCEPT !.cursor = next]
      BY <1>6 DEF Accept
    <3> QED
      BY <3>5, <3>6
  <2>2. run' = [run EXCEPT
                    !.step = IF rest = {} THEN "reviewed" ELSE "agent",
                    !.todo = rest,
                    !.inBatch = IF BatchEnds(rest) THEN 0 ELSE @ + 1]
    BY <1>6 DEF Accept
  <2>3. /\ run'.context = run.context /\ run'.todo = rest
        /\ run'.step \in {"agent", "answered"} => rest # {}
        /\ run.step = "answered" /\ allowed' = allowed
    BY <1>6, <2>2 DEF Accept, CallsInv, CallsTypeOK
  <2>4. tx'.cursor = next
    BY <2>1 DEF Rows
  <2>5. rest # {} => tx'.cursor \in rest
    BY <2>1, <2>4 DEF FirstOf
  <2> QED
    BY <1>0, <2>3, <2>5 DEF ExecutionSound
<1>7. ASSUME \/ CallFails
             \/ \E cited : CandidateRefused(cited) \/ RefusedOnceSaved(cited)
      PROVE  ExecutionSound'
  <2>1. run' = At("returned") /\ allowed' = allowed
    BY <1>7 DEF CallFails, CandidateRefused, RefusedOnceSaved, Fail
  <2> QED
    BY <1>0, <2>1 DEF ExecutionSound, Steps
<1>8. ASSUME UNCHANGED callsVars PROVE ExecutionSound'
  BY <1>0, <1>8 DEF callsVars, ExecutionSound
<1> QED
  BY <1>1, <1>2, <1>3, <1>4, <1>5, <1>6, <1>7, <1>8, <1>9 DEF CallsNext

\* In the beginning there is nothing in the ledger.
LEMMA CallsBegin == CallsInit => CallsInv
<1> SUFFICES ASSUME CallsInit PROVE CallsInv
  OBVIOUS
<1>1. PICK S \in SUBSET Requirements :
          db = [ledger |-> {}, active |-> S, cursor |-> None,
                assessment |-> [r \in Requirements |-> NoAssessment]]
  BY DEF CallsInit
<1>2. db \in Rows /\ tx = db
  BY <1>1 DEF CallsInit, Rows, Assessments
<1>3. run = At("queued")
  BY DEF CallsInit
<1>4. run \in [step : Steps, context : SUBSET Versions,
               todo : SUBSET Requirements, inBatch : Nat, tools : Nat]
  BY <1>3 DEF At, Steps
<1>5. allowed \subseteq Versions
  BY DEF CallsInit, Versions
<1>6. CallsTypeOK
  BY <1>2, <1>4, <1>5 DEF CallsInit, CallsTypeOK
<1>7. LedgerSound(db.ledger)
  <2>1. db.ledger = {} /\ 1 .. 0 = {}
    BY <1>1
  <2> QED
    BY <2>1, FS_EmptySet DEF LedgerSound
<1>8. \A r \in Requirements : Traced(db, r)
  BY <1>1 DEF Traced, NoAssessment
<1>9. ExecutionSound
  BY <1>3 DEF ExecutionSound, At
<1> QED
  BY <1>2, <1>6, <1>7, <1>8, <1>9 DEF CallsInv, RowsKept

\* The invariant of the calls, from its three facts.
THEOREM CallsInvariant == CallsSpec => []CallsInv
<1>1. CallsInv /\ [CallsNext]_callsVars => CallsInv'
  BY CallTypesKept, RowsStayKept, ExecutionStaysSound DEF CallsInv
<1> QED
  BY <1>1, CallsBegin, PTL DEF CallsSpec

\* Every variable of the ledger's callers keeps its type.
THEOREM CallsTyped == CallsSpec => []CallsTypeOK
<1>1. CallsInv => CallsTypeOK
  BY DEF CallsInv
<1> QED
  BY <1>1, CallsInvariant, PTL

\* The committed rows are numbered 1, 2, ... without a gap and without a number
\* twice, whatever is rolled back, crashes and resumes.
THEOREM CallsLedgerDense == CallsSpec => []LedgerDense
<1>1. CallsInv => LedgerDense
  BY DEF CallsInv, RowsKept, LedgerSound, LedgerDense
<1> QED
  BY <1>1, CallsInvariant, PTL

\* No committed row names a version outside the project's scope.
THEOREM CallsLedgerInScope == CallsSpec => []LedgerInScope
<1>1. CallsInv => LedgerInScope
  BY DEF CallsInv, RowsKept, LedgerSound, LedgerInScope
<1> QED
  BY <1>1, CallsInvariant, PTL

\* The assessment the service committed of a requirement in scope has a row with
\* exactly the versions it rests on, and no later row names it.
THEOREM CallsAssessmentsLedgered == CallsSpec => []AssessmentsLedgered
<1>1. CallsInv => AssessmentsLedgered
  BY DEF CallsInv, RowsKept, Traced, Traces, AssessmentsLedgered
<1> QED
  BY <1>1, CallsInvariant, PTL

-----------------------------------------------------------------------------
(* The calls the ledger misses.                                            *)

Lost(c) == c * BatchSize

\* The call that has ended and whose row is not written yet.
Ended == IF run.step \in {"answered", "extractAnswered"} THEN 1 ELSE 0

\* Only the open batch and the call that has just ended can be lost: everything
\* before is counted by its rows.
CallsCounted ==
    /\ run.step \notin {"agent", "answered"} => tx = db
    /\ run.step # "returned"
          => calls <= Cardinality(tx.ledger) + Lost(crashes) + Ended
    /\ Cardinality(tx.ledger) <= Cardinality(db.ledger) + run.inBatch
    /\ run.inBatch < BatchSize
    /\ MissedCallsBounded

\* One more execution, one more batch.
LEMMA LostGrows ==
    \A c \in Nat : Lost(c) \in Nat /\ Lost(c + 1) = Lost(c) + BatchSize
<1>1. BatchSize \in Nat
  BY CallsAssumption
<1>2. \A c, k \in Nat : c * k \in Nat /\ (c + 1) * k = c * k + k
  OBVIOUS
<1> QED
  BY <1>1, <1>2 DEF Lost

\* What holds of the counters before the last call keeps the bound.
LEMMA BoundFollows ==
    ASSUME NEW n \in Nat, NEW t \in Nat, NEW d \in Nat, NEW b \in Nat,
           NEW c \in Nat, NEW e \in {0, 1},
           n <= t + Lost(c) + e, t <= d + b, b < BatchSize
    PROVE  n <= d + Lost(c + 1)
<1>1. Lost(c) \in Nat /\ Lost(c + 1) = Lost(c) + BatchSize
  BY LostGrows
<1> QED
  BY <1>1, CallsAssumption

\* Every step keeps the count.
LEMMA CallsStayCounted ==
    ASSUME CallsInv, CallsInv', CallsCounted, [CallsNext]_callsVars
    PROVE  CallsCounted'
<1> DEFINE T == Cardinality(tx.ledger)
           D == Cardinality(db.ledger)
<1>1. /\ T \in Nat /\ D \in Nat /\ T' \in Nat /\ D' \in Nat
      /\ LedgerSound(tx.ledger) /\ tx \in Rows /\ db \in Rows
      /\ calls \in Nat /\ crashes \in Nat
      /\ calls' \in Nat /\ crashes' \in Nat
      /\ run \in [step : Steps, context : SUBSET Versions,
                  todo : SUBSET Requirements, inBatch : Nat, tools : Nat]
      /\ run'.inBatch \in Nat /\ BatchSize \in Nat \ {0}
  <2>1. /\ T \in Nat /\ D \in Nat /\ LedgerSound(tx.ledger)
    BY FS_CardinalityType DEF CallsInv, RowsKept, LedgerSound
  <2>2. T' \in Nat /\ D' \in Nat
    BY FS_CardinalityType DEF CallsInv, RowsKept, LedgerSound
  <2>3. run'.inBatch \in Nat
    BY DEF CallsInv, CallsTypeOK
  <2> QED
    BY <2>1, <2>2, <2>3, CallsAssumption DEF CallsInv, CallsTypeOK
<1>2. /\ run.step \notin {"agent", "answered"} => tx = db
      /\ run.step # "returned" => calls <= T + Lost(crashes) + Ended
      /\ T <= D + run.inBatch /\ run.inBatch < BatchSize
      /\ calls <= D + Lost(crashes + 1)
      /\ Ended \in {0, 1}
  BY DEF CallsCounted, MissedCallsBounded, Lost, Ended
<1>0. Ended' \in {0, 1} /\ Lost(crashes) \in Nat /\ Lost(crashes') \in Nat
  BY <1>1, LostGrows DEF Ended
<1> DEFINE Before == calls' <= T' + Lost(crashes') + Ended'
           After  == calls' <= D' + Lost(crashes' + 1)
<1> HIDE DEF T, D
<1>3. ASSUME run'.step \notin {"agent", "answered"} => tx' = db', Before,
             T' <= D' + run'.inBatch, run'.inBatch < BatchSize
      PROVE  CallsCounted'
  <2>1. After
    BY <1>0, <1>1, <1>3, BoundFollows
  <2> QED
    BY <1>3, <2>1 DEF CallsCounted, MissedCallsBounded, Lost, T, D
<1>4. ASSUME run'.step = "returned", tx' = db', run'.inBatch = 0, After
      PROVE  CallsCounted'
  <2>1. T' = D'
    BY <1>4 DEF T, D
  <2> QED
    BY <1>1, <1>4, <2>1 DEF CallsCounted, MissedCallsBounded, Lost, T, D
<1>5. \A s : At(s).step = s /\ At(s).inBatch = 0
  BY DEF At
<1>6. ASSUME NEW p, ProposalParsed(p) PROVE CallsCounted'
  BY <1>6 DEF ProposalParsed, CallsCounted, MissedCallsBounded, Lost, Ended
<1>7. ASSUME NEW row, row.sequence = NextNumber(tx),
             row.versions \subseteq allowed,
             tx'.ledger = tx.ledger \cup {row}
      PROVE  T' = T + 1
  BY <1>1, <1>7, RowAdded DEF T
<1>8. ASSUME ClaimJob \/ ProcessStarts PROVE CallsCounted'
  <2>1. /\ run.step \in {"queued", "down"}
        /\ run'.step \in {"queued", "extracting", "extracted"} /\ run'.inBatch = 0
        /\ UNCHANGED <<db, tx, calls, crashes>>
    BY <1>8 DEF ClaimJob, ProcessStarts, At
  <2>2. Ended = 0 /\ Ended' = 0
    BY <2>1 DEF Ended
  <2> QED
    BY <1>0, <1>1, <1>2, <1>3, <2>1, <2>2 DEF T, D
<1>18. ASSUME ExtractAnswers \/ AgentAnswers PROVE CallsCounted'
  <2>1. /\ run.step \in {"extracting", "agent"}
        /\ run'.step = IF run.step = "agent" THEN "answered" ELSE "extractAnswered"
        /\ run'.inBatch = run.inBatch /\ calls' = calls + 1
        /\ UNCHANGED <<db, tx, crashes>>
    BY <1>1, <1>18 DEF ExtractAnswers, AgentAnswers
  <2>2. Ended = 0 /\ Ended' = 1
    BY <2>1 DEF Ended
  <2> QED
    BY <1>0, <1>1, <1>2, <1>3, <2>1, <2>2 DEF T, D
<1>9. ASSUME ExtractReturns PROVE CallsCounted'
  <2> DEFINE row == Row(tx, Extraction, FALSE, TRUE, {Tender})
  <2>1. /\ \E kept : tx' = [Persisted(tx, row) EXCEPT !.active = kept]
        /\ db' = tx' /\ InScope(row) /\ run.step = "extractAnswered"
        /\ run' = At("extracted") /\ calls' = calls
        /\ crashes' = crashes
    BY <1>9 DEF ExtractReturns
  <2>2. row.sequence = NextNumber(tx)
    BY DEF Row
  <2> HIDE DEF row
  <2>3. tx'.ledger = tx.ledger \cup {row}
    BY <1>1, <2>1 DEF Persisted, Rows
  <2>4. row.versions \subseteq allowed
    BY <2>1 DEF InScope, CallsInv, ExecutionSound
  <2>5. T' = T + 1
    BY <1>7, <2>2, <2>3, <2>4
  <2>6. T' = D'
    BY <2>1 DEF T, D
  <2>7. Ended = 1 /\ Ended' = 0
    BY <1>5, <2>1 DEF Ended
  <2> QED
    BY <1>0, <1>1, <1>2, <1>3, <1>5, <2>1, <2>5, <2>6, <2>7
<1>10. ASSUME ExtractFails \/ JobRaises PROVE CallsCounted'
  <2>1. /\ tx' = db /\ db' = db /\ run' = At("returned")
        /\ crashes' = crashes /\ calls' = calls
    BY <1>10 DEF ExtractFails, JobRaises
  <2>2. D' = D
    BY <2>1 DEF D
  <2>3. After
    BY <1>2, <2>1, <2>2
  <2> QED
    BY <1>4, <1>5, <2>1, <2>3
<1>11. ASSUME Enter \/ Finish PROVE CallsCounted'
  <2>1. /\ \E c : tx' = [tx EXCEPT !.cursor = c]
        /\ db' = tx' /\ run.step \in {"extracted", "reviewed"}
        /\ calls' = calls /\ crashes' = crashes
    BY <1>11 DEF Enter, Finish
  <2>2. run'.inBatch = 0
    <3>1. ASSUME NEW s, NEW x, NEW y,
                 run' = [At(s) EXCEPT !.context = x, !.todo = y]
          PROVE  run'.inBatch = 0
      BY <3>1 DEF At
    <3>2. ASSUME Enter PROVE run'.inBatch = 0
      <4>1. PICK first \in Requirements \cup {None} :
                run' = [At(IF first = None THEN "reviewed" ELSE "agent")
                          EXCEPT !.context = allowed, !.todo = Remaining(tx)]
        BY <3>2 DEF Enter
      <4> QED
        BY <3>1, <4>1
    <3>3. ASSUME Finish PROVE run'.inBatch = 0
      BY <1>5, <3>3 DEF Finish
    <3> QED
      BY <1>11, <3>2, <3>3
  <2>3. tx'.ledger = tx.ledger
    BY <1>1, <2>1 DEF Rows
  <2>4. T' = T /\ D' = T'
    BY <2>1, <2>3 DEF T, D
  <2>5. Ended = 0
    BY <2>1 DEF Ended
  <2> QED
    BY <1>0, <1>1, <1>2, <1>3, <2>1, <2>2, <2>4, <2>5
<1>12. ASSUME NEW r \in Requirements, NEW cited, ToolSaves(r, cited)
       PROVE  CallsCounted'
  <2>1. /\ run'.step = "agent" /\ run'.inBatch = run.inBatch
        /\ run.step = "agent"
        /\ db' = db /\ calls' = calls /\ crashes' = crashes
    BY <1>1, <1>12 DEF ToolSaves
  <2>2. tx'.ledger = tx.ledger
    BY <1>1, <1>12 DEF ToolSaves, Saved, Rows
  <2>3. T' = T /\ D' = D
    BY <2>1, <2>2 DEF T, D
  <2>4. Ended = 0
    BY <2>1 DEF Ended
  <2> QED
    BY <1>0, <1>1, <1>2, <1>3, <2>1, <2>3, <2>4
<1>13. ASSUME NEW cited, Accept(cited) PROVE CallsCounted'
  <2> DEFINE saved == Saved(tx, tx.cursor, "service", cited)
             row   == Row(tx, tx.cursor, TRUE, TRUE,
                          SourceVersions(tx.cursor, cited))
             rest  == run.todo \ {tx.cursor}
  <2>1. /\ \E next : tx' = [Persisted(saved, row) EXCEPT !.cursor = next]
        /\ db' = IF BatchEnds(rest) THEN tx' ELSE db
        /\ InScope(row) /\ run.step = "answered"
        /\ calls' = calls /\ crashes' = crashes
    BY <1>13 DEF Accept
  <2>2. /\ run'.step = IF rest = {} THEN "reviewed" ELSE "agent"
        /\ run'.inBatch = IF BatchEnds(rest) THEN 0 ELSE run.inBatch + 1
    BY <1>1, <1>13 DEF Accept
  <2>3. row.sequence = NextNumber(tx)
    BY DEF Row
  <2>4. tx'.ledger = tx.ledger \cup {row}
    <3> HIDE DEF row
    <3> QED
      BY <1>1, <2>1 DEF Persisted, Saved, Rows
  <2> HIDE DEF row
  <2>5. row.versions \subseteq allowed
    BY <2>1 DEF InScope, CallsInv, ExecutionSound
  <2>6. T' = T + 1
    BY <1>7, <2>3, <2>4, <2>5
  <2>10. Ended = 1 /\ Ended' = 0
    BY <2>1, <2>2 DEF Ended
  <2>7. Before
    BY <1>0, <1>1, <1>2, <2>1, <2>6, <2>10
  <2> HIDE DEF rest
  <2>8. CASE BatchEnds(rest)
    <3>1. T' = D' /\ tx' = db' /\ run'.inBatch = 0
      BY <2>1, <2>2, <2>8 DEF T, D
    <3>2. T' <= D' + run'.inBatch
      <4>1. \A d \in Nat : d <= d + 0
        OBVIOUS
      <4>2. D' \in Nat
        BY <1>1
      <4> QED
        BY <3>1, <4>1, <4>2, Zenon
    <3>3. run'.inBatch < BatchSize
      BY <3>1, CallsAssumption
    <3> HIDE DEF Before
    <3> QED
      BY <1>3, <2>7, <3>1, <3>2, <3>3
  <2>9. CASE ~ BatchEnds(rest)
    <3>1. rest # {} /\ run.inBatch + 1 # BatchSize
      BY <2>9 DEF BatchEnds
    <3>2. db' = db /\ run'.inBatch = run.inBatch + 1 /\ run'.step = "agent"
      BY <2>1, <2>2, <2>9, <3>1
    <3>3. D' = D
      BY <3>2 DEF D
    <3> QED
      BY <1>1, <1>2, <1>3, <2>6, <2>7, <3>1, <3>2, <3>3
  <2> QED
    BY <2>8, <2>9
<1>14. ASSUME NEW t \in Rows, t.ledger = tx.ledger, NEW assessed \in BOOLEAN,
              NEW versions, run.step # "returned", Fail(t, assessed, versions)
       PROVE  CallsCounted'
  <2> DEFINE row == Row(t, t.cursor, assessed, FALSE, versions)
  <2>1. /\ tx' = IF InScope(row) THEN Persisted(t, row) ELSE t
        /\ db' = tx' /\ run' = At("returned")
        /\ calls' = calls /\ crashes' = crashes
    BY <1>14 DEF Fail
  <2>2. row.sequence = NextNumber(tx)
    BY <1>14 DEF Row, NextNumber
  <2> HIDE DEF row
  <2>3. T' \in {T, T + 1}
    <3>1. CASE InScope(row)
      <4>1. tx'.ledger = tx.ledger \cup {row}
        BY <1>14, <2>1, <3>1, PersistedFields
      <4>2. row.versions \subseteq allowed
        BY <3>1 DEF InScope, CallsInv, ExecutionSound
      <4> QED
        BY <1>7, <2>2, <4>1, <4>2
    <3>2. CASE ~ InScope(row)
      BY <1>14, <2>1, <3>2 DEF T
    <3> QED
      BY <3>1, <3>2
  <2>4. D' = T'
    BY <2>1 DEF T, D
  <2>5. After
    <3>1. calls <= T + Lost(crashes) + 1
      BY <1>0, <1>1, <1>2, <1>14
    <3>2. Lost(crashes + 1) = Lost(crashes) + BatchSize
      BY <1>1, LostGrows
    <3> QED
      BY <1>0, <1>1, <1>14, <2>1, <2>3, <2>4, <3>1, <3>2
  <2> QED
    BY <1>4, <1>5, <2>1, <2>5
<1>15. ASSUME \/ CallFails
              \/ \E cited \in SUBSET Versions :
                    CandidateRefused(cited) \/ RefusedOnceSaved(cited)
       PROVE  CallsCounted'
  <2>1. ASSUME CallFails PROVE CallsCounted'
    <3>1. /\ run.step # "returned"
          /\ Fail(tx, FALSE, {source[tx.cursor]})
      BY <2>1 DEF CallFails
    <3> QED
      BY <1>1, <1>14, <3>1
  <2>2. ASSUME NEW cited, CandidateRefused(cited) PROVE CallsCounted'
    <3>1. /\ run.step # "returned"
          /\ Fail(tx, FALSE, SourceVersions(tx.cursor, cited))
      BY <2>2 DEF CandidateRefused
    <3> QED
      BY <1>1, <1>14, <3>1
  <2>3. ASSUME NEW cited, RefusedOnceSaved(cited) PROVE CallsCounted'
    <3> DEFINE saved == Saved(tx, tx.cursor, "service", cited)
    <3>1. /\ Fail(saved, TRUE, SourceVersions(tx.cursor, cited))
          /\ run.step = "answered" /\ Citable(cited)
      BY <2>3 DEF RefusedOnceSaved
    <3>2. tx.cursor \in Requirements
      BY <3>1 DEF CallsInv, CallsTypeOK, ExecutionSound
    <3>3. saved \in Rows
      <4>1. cited \in SUBSET Proposals
        BY <3>1 DEF Citable
      <4> QED
        BY <1>1, <3>2, <4>1, WritesTyped
    <3>4. saved.ledger = tx.ledger
      BY <1>1 DEF Saved, Rows
    <3> HIDE DEF saved
    <3> QED
      BY <1>14, <3>1, <3>3, <3>4
  <2> QED
    BY <1>15, <2>1, <2>2, <2>3
<1>16. ASSUME ProcessDies PROVE CallsCounted'
  <2>1. /\ tx' = db /\ db' = db /\ run' = At("down")
        /\ calls' = calls /\ crashes' = crashes + 1
    BY <1>16 DEF ProcessDies
  <2>2. T' = D /\ D' = D
    BY <2>1 DEF T, D
  <2>3. Ended' = 0
    BY <1>5, <2>1 DEF Ended
  <2> QED
    BY <1>0, <1>1, <1>2, <1>3, <1>5, <2>1, <2>2, <2>3
<1>17. ASSUME UNCHANGED callsVars PROVE CallsCounted'
  BY <1>17 DEF callsVars, CallsCounted, MissedCallsBounded, Lost, Ended
<1> QED
  BY <1>6, <1>8, <1>9, <1>10, <1>11, <1>12, <1>13, <1>15, <1>16, <1>17, <1>18
  DEF CallsNext

\* The ledger misses at most one batch of ended calls of each execution, the one
\* that was open with the call that had just ended, for any number of
\* requirements, batch size and crashes.
THEOREM CallsMissedBounded == CallsSpec => []MissedCallsBounded
<1>1. CallsInit => CallsCounted
  <2> SUFFICES ASSUME CallsInit PROVE CallsCounted
    OBVIOUS
  <2>1. /\ db.ledger = {} /\ tx = db /\ calls = 0 /\ crashes = 0
        /\ run.step = "queued" /\ run.inBatch = 0
    BY DEF CallsInit, At
  <2>2. Cardinality(db.ledger) = 0
    BY <2>1, FS_EmptySet
  <2>3. Lost(0) \in Nat /\ Lost(0 + 1) \in Nat
    BY LostGrows
  <2> QED
    BY <2>1, <2>2, <2>3, CallsAssumption
    DEF CallsCounted, MissedCallsBounded, Lost, Ended
<1>2. CallsInv /\ CallsInv' /\ CallsCounted /\ [CallsNext]_callsVars
        => CallsCounted'
  BY CallsStayCounted
<1>3. CallsCounted => MissedCallsBounded
  BY DEF CallsCounted
<1> QED
  BY <1>1, <1>2, <1>3, CallsInvariant, PTL DEF CallsSpec

=============================================================================
