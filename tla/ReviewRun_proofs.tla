--------------------------- MODULE ReviewRun_proofs ---------------------------
(***************************************************************************)
(* Proofs about the review run, for any number of requirements, any batch  *)
(* size, any number of tool calls and faults.                              *)
(***************************************************************************)
EXTENDS ReviewRun, FiniteSetTheorems, TLAPS

Before(c) == {r \in scope : r < c}

\* What each row of the run says of the others, in db and in tx alike.
RowsSound(t) ==
    \A r \in Requirements :
        /\ t.accepted[r] # NoVerdict => t.verdict[r] # NoVerdict
        /\ t.pending[r] <= 1
        /\ t.accepted[r] = "needs_confirmation" => t.pending[r] > 0
        /\ t.accepted[r] = "advised_gap" => r \in t.items

\* The committed reviews are those before the resume point, or all of them
\* when the run has reached, or repeats, its end.
DbSound ==
    /\ db.cursor \in scope \cup {None}
    /\ Reviewed(db) = scope \/ Reviewed(db) = Before(db.cursor)
    /\ (db.cursor = None /\ db.status # "queued") => Reviewed(db) = scope
    /\ db.status \in {"completed", "awaiting_confirmation"}
          => Reviewed(db) = scope
    /\ db.status = "partial_failure" => db.cursor # None

\* While the agent runs, the session is ahead of the database by the reviews
\* of the batch so far.
AgentSound ==
    review.step = "agent" =>
        /\ tx.status = "reviewing"
        /\ tx.cursor \in review.todo
        /\ review.todo = Remaining(tx.cursor)
        /\ Reviewed(tx) = Reviewed(db) \cup Before(tx.cursor)
        /\ \/ Reviewed(db) = scope
           \/ db.cursor <= tx.cursor /\ Reviewed(db) = Before(db.cursor)
        /\ Cardinality(Reviewed(tx) \ Reviewed(db)) <= review.inBatch
        /\ review.inBatch < BatchSize

\* Outside the batches everything is committed, and the end is reached only
\* when nothing is left.
CommittedSound ==
    /\ review.step # "agent" => tx = db
    /\ review.step = "closing" => db.cursor = None /\ db.status = "reviewing"
    /\ review.step = "returned" =>
          /\ review.result \in Outcomes
          /\ review.result # "partial_failure" => Reviewed(db) = scope

Busy == {"claimed", "agent", "closing", "returned", "raised"}

JobSound ==
    /\ job \in {"completed", "awaiting_confirmation"} => Reviewed(db) = scope
    /\ review.step \in Busy => job = "running"
    /\ review.step = "idle" => job # "running"

RunInv == /\ TypeOK /\ RowsSound(db) /\ RowsSound(tx)
          /\ DbSound /\ AgentSound /\ CommittedSound /\ JobSound

-----------------------------------------------------------------------------
(* The rules from a candidate to its status and to what the run does.      *)

\* The three outcomes a candidate can have are all possible and the only ones.
LEMMA VerdictsAre ==
    Verdicts = {"satisfied", "advised_gap", "needs_confirmation"}
<1> DEFINE gap(doubt, advised) ==
               [evidence |-> "missing", severity |-> "warning",
                doubt |-> doubt, cited |-> FALSE, advised |-> advised]
<1>1. \A d, a \in BOOLEAN : gap(d, a) \in Candidates /\ Supported(gap(d, a))
  BY DEF Candidates, EvidenceStates, Severities, Supported
<1>2. /\ VerdictOf(TRUE, gap(FALSE, TRUE)) = "advised_gap"
      /\ VerdictOf(TRUE, gap(TRUE, TRUE)) = "needs_confirmation"
      /\ VerdictOf(TRUE, gap(FALSE, FALSE)) = "satisfied"
  BY DEF VerdictOf, Advises, Asks, DisplayStatus
<1>3. \A m \in BOOLEAN, c \in Candidates :
         VerdictOf(m, c) \in {"satisfied", "advised_gap", "needs_confirmation"}
  BY DEF VerdictOf
<1> HIDE DEF gap
<1>4. \A d, a \in BOOLEAN : VerdictOf(TRUE, gap(d, a)) \in Verdicts
  <2>1. ASSUME NEW m \in BOOLEAN, NEW c \in Candidates, Supported(c)
        PROVE  VerdictOf(m, c) \in Verdicts
    <3>1. c \in {d \in Candidates : Supported(d)}
      BY <2>1
    <3> QED
      BY <3>1, SMT DEF Verdicts
  <2> QED
    BY <1>1, <2>1
<1>5. Verdicts \subseteq {"satisfied", "advised_gap", "needs_confirmation"}
  BY <1>3 DEF Verdicts
<1>6. {"satisfied", "advised_gap", "needs_confirmation"} \subseteq Verdicts
  BY <1>2, <1>4
<1> QED
  BY <1>5, <1>6

\* What passes the gate of validate_assessment and is displayed as satisfied
\* was found matched and cites evidence, whatever severity the model chose.
THEOREM SatisfiedIsSupported ==
    ASSUME NEW m \in BOOLEAN, NEW c \in Candidates, Supported(c),
           DisplayStatus(m, c) = "satisfied"
    PROVE  c.evidence = "matched" /\ c.cited
  BY DEF DisplayStatus, Asks, Candidates, EvidenceStates, Severities, Supported

-----------------------------------------------------------------------------
(* What the writes of the tools and of the service do to the rows.         *)

\* Saving an assessment changes no other row and breaks no promise.
LEMMA SaveRows ==
    ASSUME NEW t \in Rows, NEW r \in Requirements, NEW v \in Verdicts
    PROVE  /\ Save(t, r, v) \in Rows
           /\ Save(t, r, v).verdict[r] = v
           /\ Save(t, r, v).accepted = t.accepted
           /\ Save(t, r, v).status = t.status
           /\ Save(t, r, v).cursor = t.cursor
           /\ RowsSound(t) => RowsSound(Save(t, r, v))
  BY VerdictsAre DEF Save, Rows, RowsSound, NoVerdict

\* Asking leaves exactly one pending question where there was one or none.
LEMMA AskRows ==
    ASSUME NEW t \in Rows, NEW r \in Requirements
    PROVE  /\ Ask(t, r) \in Rows
           /\ Ask(t, r).pending[r] > 0
           /\ Ask(t, r).verdict = t.verdict
           /\ Ask(t, r).accepted = t.accepted
           /\ Ask(t, r).status = t.status
           /\ Ask(t, r).cursor = t.cursor
           /\ RowsSound(t) => RowsSound(Ask(t, r))
  BY DEF Ask, Rows, RowsSound

\* An action item changes no other row.
LEMMA ActRows ==
    ASSUME NEW t \in Rows, NEW r \in Requirements
    PROVE  /\ Act(t, r) \in Rows
           /\ r \in Act(t, r).items
           /\ Act(t, r).verdict = t.verdict
           /\ Act(t, r).accepted = t.accepted
           /\ Act(t, r).status = t.status
           /\ Act(t, r).cursor = t.cursor
           /\ RowsSound(t) => RowsSound(Act(t, r))
  BY DEF Act, Rows, RowsSound

\* The accepted ledger row and the resume point change no other row.
LEMMA AcceptedRows ==
    ASSUME NEW t \in Rows, NEW r \in Requirements, NEW v \in Verdicts,
           NEW c \in Cursors
    PROVE  /\ Accepted(t, r, v, c) \in Rows
           /\ Accepted(t, r, v, c).status = t.status
           /\ Accepted(t, r, v, c).cursor = c
           /\ Accepted(t, r, v, c).verdict = t.verdict
           /\ Accepted(t, r, v, c).accepted = [t.accepted EXCEPT ![r] = v]
           /\ Accepted(t, r, v, c).pending = t.pending
           /\ Accepted(t, r, v, c).items = t.items
  BY DEF Accepted, Rows

\* A saved verdict is followed up without a change of the reviews.
LEMMA FollowUpRows ==
    ASSUME NEW t \in Rows, RowsSound(t), NEW r \in Requirements,
           NEW v \in Verdicts, NEW f, f = FollowUp(Save(t, r, v), r, v)
    PROVE  /\ f \in Rows /\ RowsSound(f) /\ f.verdict[r] = v
           /\ f.accepted = t.accepted /\ f.status = t.status
           /\ f.cursor = t.cursor
           /\ v = "needs_confirmation" => f.pending[r] > 0
           /\ v = "advised_gap" => r \in f.items
<1> DEFINE s == Save(t, r, v)
<1>1. /\ s \in Rows /\ RowsSound(s) /\ s.verdict[r] = v
      /\ s.accepted = t.accepted /\ s.status = t.status /\ s.cursor = t.cursor
  BY SaveRows
<1>2. f = FollowUp(s, r, v)
  OBVIOUS
<1> HIDE DEF s
<1> QED
  BY <1>1, <1>2, VerdictsAre, AskRows, ActRows DEF FollowUp

\* A candidate adds its requirement to the reviewed ones, followed up.
LEMMA CandidateRows ==
    ASSUME scope \in SUBSET Requirements,
           NEW t \in Rows, RowsSound(t), NEW r \in Requirements,
           NEW v \in Verdicts, NEW c \in Cursors,
           NEW u, u = Accepted(FollowUp(Save(t, r, v), r, v), r, v, c)
    PROVE  /\ u \in Rows
           /\ RowsSound(u)
           /\ u.status = t.status
           /\ u.cursor = c
           /\ Reviewed(u) = Reviewed(t) \cup ({r} \cap scope)
<1> DEFINE f == FollowUp(Save(t, r, v), r, v)
<1>1. /\ f \in Rows /\ RowsSound(f) /\ f.verdict[r] = v
      /\ f.accepted = t.accepted /\ f.status = t.status
      /\ v = "needs_confirmation" => f.pending[r] > 0
      /\ v = "advised_gap" => r \in f.items
  BY FollowUpRows
<1>2. u = Accepted(f, r, v, c)
  OBVIOUS
<1> HIDE DEF f
<1>4. /\ u \in Rows /\ u.status = f.status /\ u.cursor = c
      /\ u.verdict = f.verdict
      /\ u.accepted = [f.accepted EXCEPT ![r] = v]
      /\ u.pending = f.pending /\ u.items = f.items
  BY <1>1, <1>2, AcceptedRows
<1>5. u.accepted = [t.accepted EXCEPT ![r] = v] /\ u.status = t.status
  BY <1>1, <1>4
<1>7. RowsSound(u)
  BY <1>1, <1>4, <1>5, VerdictsAre DEF RowsSound, Rows, NoVerdict
<1>8. Reviewed(u) = Reviewed(t) \cup ({r} \cap scope)
  <2>1. t.accepted \in [Requirements -> Verdicts \cup {NoVerdict}]
    BY DEF Rows
  <2>2. v # NoVerdict
    BY VerdictsAre DEF NoVerdict
  <2>3. \A q \in Requirements :
           u.accepted[q] # NoVerdict <=> q = r \/ t.accepted[q] # NoVerdict
    BY <1>5, <2>1, <2>2
  <2> QED
    BY <2>3 DEF Reviewed
<1> QED
  BY <1>4, <1>5, <1>7, <1>8

-----------------------------------------------------------------------------
(* The inductive invariant.                                                *)

LEMMA RequirementsArePositive == \A r \in Requirements : r \in Nat /\ r > 0
<1>1. MaxReq \in Nat
  BY RunAssumption
<1> QED
  BY <1>1 DEF Requirements

LEMMA NothingBeforeNone ==
    ASSUME scope \in SUBSET Requirements
    PROVE  Before(None) = {} /\ None \notin scope /\ Remaining(None) = scope
<1>2. \A r \in scope : r \in Nat /\ r > 0
  BY RequirementsArePositive
<1> QED
  BY <1>2 DEF Before, Remaining, None

LEMMA RunInvInit == Init => RunInv
<1> SUFFICES ASSUME Init PROVE RunInv
  OBVIOUS
<1> USE DEF Init, FreshRows, Outside
<1>1. FreshRows \in Rows
  BY DEF Rows, RunStatuses, Outcomes, Cursors, None
<1>2. TypeOK
  BY <1>1 DEF TypeOK, JobStatuses, Steps, Settled
<1>3. RowsSound(db) /\ RowsSound(tx)
  BY DEF RowsSound, NoVerdict
<1>4. DbSound
  <2>1. Reviewed(db) = {}
    BY DEF Reviewed
  <2>2. Before(None) = {}
    BY NothingBeforeNone
  <2>3. db.cursor = None /\ db.status = "queued"
    OBVIOUS
  <2> HIDE DEF Init
  <2> QED
    BY <2>1, <2>2, <2>3 DEF DbSound
<1>5. AgentSound /\ CommittedSound /\ JobSound
  BY DEF AgentSound, CommittedSound, JobSound, Busy
<1> QED
  BY <1>2, <1>3, <1>4, <1>5 DEF RunInv

LEMMA RunInvStutter == RunInv /\ UNCHANGED vars => RunInv'
BY DEF RunInv, vars, TypeOK, RowsSound, DbSound, AgentSound, CommittedSound,
       JobSound, Reviewed, Before, Remaining

LEMMA OutsideType ==
    ASSUME NEW s \in Steps
    PROVE  Outside(s) \in [step : Steps, todo : SUBSET scope', inBatch : Nat,
                           awaiting : BOOLEAN, tools : Nat,
                           result : Outcomes \cup {"queued"}]
  BY DEF Outside

\* A step to the outside of the batches that commits nothing.
LEMMA QuietPreserves ==
    ASSUME RunInv, UNCHANGED <<scope, db>>, tx' = db, review'.step # "agent",
           TypeOK', CommittedSound', JobSound'
    PROVE  RunInv'
<1>1. DbSound'
  BY DEF RunInv, DbSound, Reviewed, Before
<1>2. RowsSound(db)' /\ RowsSound(tx)'
  BY DEF RunInv, RowsSound
<1>3. AgentSound'
  BY DEF AgentSound
<1> QED
  BY <1>1, <1>2, <1>3 DEF RunInv

\* Claims, ends of the job and faults.
LEMMA QueueStepsPreserve ==
    ASSUME RunInv,
           \/ Claim \/ HandlerRaises \/ Settle \/ Crash \/ ResultLost \/ Restart
    PROVE  RunInv'
<1> USE DEF RunInv, TypeOK, Fault
<1> DEFINE s == review'.step
<1>1. /\ UNCHANGED <<scope, db>>
      /\ tx' = db
      /\ s \in Steps \ {"agent", "closing"}
      /\ review' = Outside(s)
      /\ job' \in JobStatuses
      /\ faults' \in Nat
      /\ s # "returned"
      /\ s \in Busy => job' = "running"
      /\ s = "idle" => job' # "running"
      /\ job' \in {"completed", "awaiting_confirmation"} => Reviewed(db) = scope
  <2>1. CASE Claim
    BY <2>1 DEF Claim, Outside, CommittedSound, JobSound, Busy, Steps, JobStatuses
  <2>2. CASE HandlerRaises
    BY <2>2 DEF HandlerRaises, Outside, CommittedSound, JobSound, Busy, Steps
  <2>3. CASE Settle
    BY <2>3 DEF Settle, Outside, CommittedSound, JobSound, Busy, Steps,
       JobStatuses, StatusFor, StatusAfterRaise, Settled, Outcomes
  <2>4. CASE Crash
    BY <2>4 DEF Crash, Outside, CommittedSound, JobSound, Busy, Steps
  <2>5. CASE ResultLost
    BY <2>5 DEF ResultLost, Outside, CommittedSound, JobSound, Busy, Steps
  <2>6. CASE Restart
    BY <2>6 DEF Restart, Outside, CommittedSound, JobSound, Busy, Steps,
       Requeued, JobStatuses
  <2> QED
    BY <2>1, <2>2, <2>3, <2>4, <2>5, <2>6
<1>2. CommittedSound'
  BY <1>1 DEF CommittedSound
<1>3. JobSound'
  BY <1>1 DEF JobSound, Reviewed
<1>4. TypeOK'
  <2>1. review' \in [step : Steps, todo : SUBSET scope', inBatch : Nat,
                     awaiting : BOOLEAN, tools : Nat,
                     result : Outcomes \cup {"queued"}]
    BY <1>1, OutsideType
  <2> QED
    BY <1>1, <2>1
<1> QED
  BY <1>1, <1>2, <1>3, <1>4, QuietPreserves

\* Where the run goes on: at the first requirement not reviewed for good, at
\* the first of all when the whole run is repeated, or nowhere.
LEMMA ResumePoint ==
    ASSUME scope \in SUBSET Requirements, DbSound, NEW first \in Cursors,
           FirstOf(first, Remaining(db.cursor))
    PROVE  /\ first \in scope \cup {None}
           /\ first # None => /\ first \in Remaining(first)
                              /\ Remaining(db.cursor) = Remaining(first)
           /\ Reviewed(db) = scope \/ Reviewed(db) = Before(first)
           /\ first = None => Reviewed(db) = scope
<1>1. \A r \in scope \cup {None} : r \in Nat
  BY RequirementsArePositive DEF None
<1>2. CASE db.cursor = None
  <2>1. Remaining(db.cursor) = scope /\ Before(db.cursor) = {}
    BY <1>2, NothingBeforeNone
  <2>2. IF scope = {} THEN first = None
                      ELSE first \in scope /\ \A r \in scope : first <= r
    BY <2>1 DEF FirstOf
  <2>3. Before(first) = {}
    BY <1>1, <2>2, NothingBeforeNone DEF Before
  <2>4. first \in scope => Remaining(first) = scope
    BY <2>2 DEF Remaining
  <2>5. Reviewed(db) = scope \/ Reviewed(db) = {}
    BY <2>1 DEF DbSound
  <2> QED
    BY <2>1, <2>2, <2>3, <2>4, <2>5, NothingBeforeNone
<1>3. CASE db.cursor # None
  <2>1. db.cursor \in scope
    BY <1>3 DEF DbSound
  <2>2. db.cursor \in Remaining(db.cursor)
    BY <1>1, <2>1 DEF Remaining
  <2>3. first \in scope /\ first <= db.cursor /\ db.cursor <= first
    BY <1>1, <2>2 DEF FirstOf, Remaining
  <2>4. first = db.cursor
    BY <1>1, <2>1, <2>3
  <2> QED
    BY <1>3, <2>1, <2>2, <2>4 DEF DbSound
<1> QED
  BY <1>2, <1>3

\* run_review starts, or starts again where the last commit left it.
LEMMA EnterPreserves ==
    ASSUME RunInv, Enter
    PROVE  RunInv'
<1> USE DEF RunInv, TypeOK
<1>1. tx = db /\ review.step = "claimed" /\ job = "running"
  BY DEF Enter, CommittedSound, JobSound, Busy
<1>2. PICK first \in Cursors :
          /\ FirstOf(first, Remaining(db.cursor))
          /\ tx' = [db EXCEPT !.status = "reviewing", !.cursor = first]
          /\ review' = [Outside(IF first = None THEN "closing" ELSE "agent")
                            EXCEPT !.todo = Remaining(db.cursor)]
  BY <1>1 DEF Enter
<1>3. UNCHANGED <<scope, job, faults>> /\ db' = tx'
  BY DEF Enter
<1>4. /\ tx' \in Rows /\ tx'.status = "reviewing" /\ tx'.cursor = first
      /\ tx'.accepted = db.accepted /\ tx'.verdict = db.verdict
      /\ tx'.pending = db.pending /\ tx'.items = db.items
  BY <1>2 DEF Rows, RunStatuses
<1>5. /\ review'.todo = Remaining(db.cursor) /\ review'.inBatch = 0
      /\ review'.step = IF first = None THEN "closing" ELSE "agent"
  BY <1>2 DEF Outside
<1>6. TypeOK'
  BY <1>2, <1>3, <1>4 DEF Outside, Remaining, Steps
<1>7. RowsSound(db)' /\ RowsSound(tx)'
  BY <1>3, <1>4 DEF RowsSound
<1>8. Reviewed(db)' = Reviewed(db) /\ Reviewed(tx)' = Reviewed(db)
  BY <1>3, <1>4 DEF Reviewed
<1>9. /\ first \in scope \cup {None}
      /\ first # None => /\ first \in Remaining(first)
                         /\ Remaining(db.cursor) = Remaining(first)
      /\ Reviewed(db) = scope \/ Reviewed(db) = Before(first)
      /\ first = None => Reviewed(db) = scope
  BY <1>2, ResumePoint
<1>10. Before(first)' = Before(first) /\ Remaining(first)' = Remaining(first)
  BY <1>3 DEF Before, Remaining
<1>11. DbSound'
  BY <1>3, <1>4, <1>8, <1>9, <1>10 DEF DbSound
<1>12. AgentSound'
  <2> SUFFICES ASSUME review'.step = "agent" PROVE AgentSound'
    BY DEF AgentSound
  <2>1. first # None /\ first \in scope
    BY <1>5, <1>9
  <2>2. Reviewed(db) = scope => Before(first) \subseteq Reviewed(db)
    BY DEF Before
  <2>3. first <= first
    BY <2>1, RunAssumption DEF Requirements
  <2>4. Cardinality(Reviewed(tx)' \ Reviewed(db)') = 0
    <3>1. Reviewed(tx)' \ Reviewed(db)' = {}
      BY <1>8
    <3> QED
      BY <3>1, FS_EmptySet
  <2> QED
    BY <1>3, <1>4, <1>5, <1>8, <1>9, <1>10, <2>1, <2>2, <2>3, <2>4, RunAssumption
       DEF AgentSound
<1>13. CommittedSound' /\ JobSound'
  BY <1>1, <1>3, <1>4, <1>5, <1>8 DEF CommittedSound, JobSound, Busy
<1> QED
  BY <1>6, <1>7, <1>11, <1>12, <1>13

\* In the session, the reviewed requirements are those before the position, or
\* all of them when the whole run is repeated.
LEMMA BatchSoFar ==
    ASSUME RunInv, review.step = "agent"
    PROVE  Reviewed(tx) = IF Reviewed(db) = scope THEN scope
                                                 ELSE Before(tx.cursor)
<1> USE DEF RunInv, TypeOK, AgentSound
<1>1. \A r \in scope \cup {None} : r \in Nat
  BY RequirementsArePositive DEF None
<1>2. tx.cursor \in scope
  BY DEF Remaining
<1>3. CASE Reviewed(db) = scope
  BY <1>3 DEF Before
<1>4. CASE db.cursor <= tx.cursor /\ Reviewed(db) = Before(db.cursor)
  <2>1. Before(db.cursor) \subseteq Before(tx.cursor)
    BY <1>1, <1>2, <1>4 DEF Before, DbSound
  <2> QED
    BY <1>3, <1>4, <2>1
<1> QED
  BY <1>3, <1>4

\* A tool call changes neither the reviewed requirements nor the position.
LEMMA ToolCallPreserves ==
    ASSUME RunInv, ToolCall
    PROVE  RunInv'
<1> USE DEF RunInv, TypeOK
<1>1. UNCHANGED <<scope, db, job, faults>>
  BY DEF ToolCall
<1>2. review.step = "agent" /\ review' = [review EXCEPT !.tools = @ + 1]
  BY DEF ToolCall
<1>3. \A r \in Addressable : r \in Requirements
  BY <1>2 DEF Addressable, AgentSound, Remaining
<1>4. PICK r \in Requirements :
         \/ \E v \in Verdicts : tx' = Save(tx, r, v)
         \/ tx' = Ask(tx, r)
         \/ tx' = Act(tx, r)
  BY <1>3 DEF ToolCall
<1>5. /\ tx' \in Rows /\ RowsSound(tx') /\ tx'.accepted = tx.accepted
      /\ tx'.status = tx.status /\ tx'.cursor = tx.cursor
  BY <1>4, SaveRows, AskRows, ActRows
<1>6. /\ review'.step = review.step /\ review'.todo = review.todo
      /\ review'.inBatch = review.inBatch
  BY <1>2
<1>7. TypeOK'
  BY <1>1, <1>2, <1>5
<1>8. RowsSound(db)' /\ RowsSound(tx)'
  BY <1>1, <1>5 DEF RowsSound
<1>9. Reviewed(tx)' = Reviewed(tx) /\ Reviewed(db)' = Reviewed(db)
  BY <1>1, <1>5 DEF Reviewed
<1>10. DbSound'
  BY <1>1, <1>9 DEF DbSound, Before
<1>11. AgentSound'
  BY <1>1, <1>5, <1>6, <1>9 DEF AgentSound, Before, Remaining
<1>12. CommittedSound' /\ JobSound'
  BY <1>1, <1>2, <1>6, <1>9 DEF CommittedSound, JobSound, Busy
<1> QED
  BY <1>7, <1>8, <1>10, <1>11, <1>12

\* What a failing review has written is sound and adds no accepted review.
LEMMA FailSavesFirst ==
    ASSUME RunInv, CallFails \/ QuestionRefused \/ \E v \in Verdicts : LedgerRefuses(v)
    PROVE  \E t \in Rows : /\ RowsSound(t) /\ t.accepted = tx.accepted
                           /\ tx' = FailedAt(t, tx.cursor) /\ Fail(t)
<1>1. tx \in Rows /\ RowsSound(tx) /\ tx.cursor \in Requirements
  BY DEF CallFails, QuestionRefused, LedgerRefuses, RunInv, TypeOK, AgentSound,
     Remaining
<1>2. CASE CallFails
  BY <1>1, <1>2 DEF CallFails, Fail
<1>3. CASE QuestionRefused
  <2>1. "needs_confirmation" \in Verdicts
    BY VerdictsAre
  <2> QED
    BY <1>1, <1>3, <2>1, SaveRows DEF QuestionRefused, Fail
<1>4. CASE \E v \in Verdicts : LedgerRefuses(v)
  <2>1. PICK v \in Verdicts : LedgerRefuses(v)
    BY <1>4
  <2> DEFINE f == FollowUp(Save(tx, tx.cursor, v), tx.cursor, v)
  <2>2. f \in Rows /\ RowsSound(f) /\ f.accepted = tx.accepted
    BY <1>1, FollowUpRows
  <2>3. Fail(f) /\ tx' = FailedAt(f, tx.cursor)
    BY <2>1 DEF LedgerRefuses, Fail
  <2> QED
    BY <2>2, <2>3
<1> QED
  BY <1>2, <1>3, <1>4

\* The partial failure commits what the batch has reviewed so far.
LEMMA FailPreserves ==
    ASSUME RunInv, CallFails \/ QuestionRefused \/ \E v \in Verdicts : LedgerRefuses(v)
    PROVE  RunInv'
<1> USE DEF RunInv, TypeOK
<1>1. /\ review.step = "agent" /\ tx.cursor \in scope /\ tx.cursor \in Requirements
      /\ tx.cursor # None
  BY NothingBeforeNone DEF CallFails, QuestionRefused, LedgerRefuses, AgentSound,
     Remaining
<1>2. PICK t \in Rows : /\ RowsSound(t) /\ t.accepted = tx.accepted
                        /\ tx' = FailedAt(t, tx.cursor) /\ Fail(t)
  BY FailSavesFirst
<1>3. /\ tx' \in Rows /\ tx'.accepted = tx.accepted
      /\ tx'.status = "partial_failure" /\ tx'.cursor = tx.cursor
      /\ tx'.verdict = t.verdict
      /\ tx'.pending = t.pending /\ tx'.items = t.items
  BY <1>1, <1>2 DEF FailedAt, Rows, RunStatuses, Outcomes, Cursors
<1>4. UNCHANGED <<scope, job, faults>> /\ db' = tx'
  BY <1>2 DEF Fail
<1>5. /\ review'.step = "returned" /\ review'.result = "partial_failure"
      /\ TypeOK'
  BY <1>2, <1>3, <1>4 DEF Fail, Outside, Steps, Outcomes
<1>6. RowsSound(db)' /\ RowsSound(tx)'
  BY <1>2, <1>3, <1>4 DEF RowsSound
<1>7. Reviewed(db)' = Reviewed(tx) /\ Reviewed(tx)' = Reviewed(tx)
  BY <1>3, <1>4 DEF Reviewed
<1>8. Reviewed(tx) = scope \/ Reviewed(tx) = Before(tx.cursor)
  BY <1>1, BatchSoFar
<1>9. DbSound'
  BY <1>1, <1>3, <1>4, <1>7, <1>8 DEF DbSound, Before
<1>10. AgentSound' /\ CommittedSound' /\ JobSound'
  BY <1>1, <1>4, <1>5, <1>7 DEF AgentSound, CommittedSound, JobSound, Busy,
     Outcomes
<1> QED
  BY <1>5, <1>6, <1>9, <1>10

\* The final commit.
LEMMA FinishPreserves ==
    ASSUME RunInv, Finish
    PROVE  RunInv'
<1> USE DEF RunInv, TypeOK
<1>1. /\ review.step = "closing" /\ tx = db /\ db.cursor = None
      /\ Reviewed(db) = scope /\ job = "running"
  BY DEF Finish, CommittedSound, DbSound, JobSound, Busy
<1>2. PICK st \in Outcomes \ {"partial_failure"} :
         /\ tx' = [db EXCEPT !.status = st, !.cursor = None]
         /\ review' = [Outside("returned") EXCEPT !.result = tx'.status]
  BY <1>1 DEF Finish, FinalStatus, Outcomes
<1>3. UNCHANGED <<scope, job, faults>> /\ db' = tx'
  BY DEF Finish
<1>4. /\ tx' \in Rows /\ tx'.accepted = db.accepted /\ tx'.status = st
      /\ tx'.cursor = None /\ tx'.verdict = db.verdict
      /\ tx'.pending = db.pending /\ tx'.items = db.items
  BY <1>2 DEF Rows, RunStatuses, Cursors
<1>5. review'.step = "returned" /\ review'.result = st /\ TypeOK'
  BY <1>2, <1>3, <1>4 DEF Outside, Steps
<1>6. RowsSound(db)' /\ RowsSound(tx)'
  BY <1>3, <1>4 DEF RowsSound
<1>7. Reviewed(db)' = scope'
  BY <1>1, <1>3, <1>4 DEF Reviewed
<1>8. DbSound'
  BY <1>3, <1>4, <1>7 DEF DbSound, Outcomes
<1>9. AgentSound' /\ CommittedSound' /\ JobSound'
  BY <1>1, <1>3, <1>5, <1>7 DEF AgentSound, CommittedSound, JobSound, Busy
<1> QED
  BY <1>5, <1>6, <1>8, <1>9

\* A set within a finite one and one element more has at most one more.
LEMMA OneMoreElement ==
    ASSUME NEW S, IsFiniteSet(S), NEW x, NEW n \in Nat, Cardinality(S) <= n,
           NEW T \in SUBSET (S \cup {x})
    PROVE  Cardinality(T) \in Nat /\ Cardinality(T) <= n + 1
<1> DEFINE U == S \cup {x}
<1>1. Cardinality(S) \in Nat
  BY FS_CardinalityType
<1>2. /\ IsFiniteSet(U)
      /\ Cardinality(U) = IF x \in S THEN Cardinality(S) ELSE Cardinality(S) + 1
  BY FS_AddElement
<1>3. T \in SUBSET U
  OBVIOUS
<1> HIDE DEF U
<1>4. IsFiniteSet(T) /\ Cardinality(T) <= Cardinality(U)
  BY <1>2, <1>3, FS_Subset
<1>5. Cardinality(T) \in Nat
  BY <1>4, FS_CardinalityType
<1> QED
  BY <1>1, <1>2, <1>4, <1>5

\* One more reviewed requirement, its position in the batch, and the commit.
LEMMA CandidatePreserves ==
    ASSUME RunInv, NEW v \in Verdicts, CandidateAccepted(v)
    PROVE  RunInv'
<1> USE DEF RunInv, TypeOK
<1> DEFINE r == tx.cursor
           rest == review.todo \ {r}
           ends == BatchEnds(review.inBatch, rest)
<1>1. \A q \in scope \cup {None} : q \in Nat
  BY RequirementsArePositive DEF None
<1>2. /\ review.step = "agent" /\ r \in scope /\ r \in Requirements
      /\ tx.status = "reviewing" /\ job = "running"
      /\ rest = {q \in scope : r < q}
  BY <1>1 DEF CandidateAccepted, AgentSound, Remaining, JobSound, Busy
<1>3. PICK next \in Cursors :
         /\ FirstOf(next, rest)
         /\ tx' = Accepted(FollowUp(Save(tx, r, v), r, v), r, v, next)
         /\ db' = IF ends THEN tx' ELSE db
         /\ review' = [review EXCEPT
                          !.step = IF rest = {} THEN "closing" ELSE "agent",
                          !.todo = rest,
                          !.inBatch = IF ends THEN 0 ELSE @ + 1,
                          !.awaiting = Flag(@, v)]
  BY DEF CandidateAccepted
<1>4. UNCHANGED <<scope, job, faults>>
  BY DEF CandidateAccepted
<1>5. /\ tx' \in Rows /\ RowsSound(tx') /\ tx'.status = "reviewing"
      /\ tx'.cursor = next /\ Reviewed(tx') = Reviewed(tx) \cup {r}
  BY <1>2, <1>3, CandidateRows
<1>6. review' = [step     |-> IF rest = {} THEN "closing" ELSE "agent",
                 todo     |-> rest,
                 inBatch  |-> IF ends THEN 0 ELSE review.inBatch + 1,
                 awaiting |-> Flag(review.awaiting, v),
                 tools    |-> review.tools,
                 result   |-> review.result]
  BY <1>3
<1>7. TypeOK'
  <2>1. Flag(review.awaiting, v) \in BOOLEAN
    BY DEF Flag
  <2>2. (IF rest = {} THEN "closing" ELSE "agent") \in Steps
    BY DEF Steps
  <2>3. rest \in SUBSET scope
    OBVIOUS
  <2>4. (IF ends THEN 0 ELSE review.inBatch + 1) \in Nat
    OBVIOUS
  <2> HIDE DEF ends, rest
  <2>5. db' \in Rows
    BY <1>3, <1>5
  <2> QED
    BY <1>4, <1>5, <1>6, <2>1, <2>2, <2>3, <2>4, <2>5
<1>8. RowsSound(db)' /\ RowsSound(tx)'
  BY <1>3, <1>5 DEF RowsSound
<1>9. /\ Reviewed(tx)' = Reviewed(tx) \cup {r}
      /\ Reviewed(db)' = IF ends THEN Reviewed(tx) \cup {r} ELSE Reviewed(db)
  BY <1>3, <1>4, <1>5 DEF Reviewed
<1>10. /\ next \in scope \cup {None}
       /\ next = None <=> rest = {}
       /\ next # None => /\ next \in rest
                         /\ r < next
                         /\ rest = Remaining(next)
                         /\ Before(next) = Before(r) \cup {r}
       /\ next = None => scope = Before(r) \cup {r}
  BY <1>1, <1>2, <1>3, NothingBeforeNone DEF FirstOf, Before, Remaining
<1>11. Reviewed(tx) \cup {r} =
          IF Reviewed(db) = scope \/ next = None THEN scope ELSE Before(next)
  <2>1. Reviewed(tx) = IF Reviewed(db) = scope THEN scope ELSE Before(r)
    BY <1>2, BatchSoFar
  <2>2. scope \cup {r} = scope
    BY <1>2
  <2> QED
    BY <1>10, <2>1, <2>2
<1>12. Before(next)' = Before(next) /\ Remaining(next)' = Remaining(next)
  BY <1>4 DEF Before, Remaining
<1>13. DbSound'
  BY <1>3, <1>4, <1>5, <1>9, <1>10, <1>11, <1>12 DEF DbSound, Before
<1>14. AgentSound'
  <2> SUFFICES ASSUME rest # {} PROVE AgentSound'
    BY <1>6 DEF AgentSound
  <2> DEFINE ahead == Reviewed(tx) \ Reviewed(db)
  <2>1. IsFiniteSet(ahead) /\ Cardinality(ahead) <= review.inBatch
    <3>1. IsFiniteSet(Requirements)
      BY RunAssumption, FS_Interval DEF Requirements
    <3>2. ahead \in SUBSET Requirements
      BY DEF Reviewed
    <3> QED
      BY <1>2, <3>1, <3>2, FS_Subset DEF AgentSound
  <2>2. CASE ends
    <3>1. Cardinality(Reviewed(tx)' \ Reviewed(db)') = 0
      BY <1>9, <2>2, FS_EmptySet
    <3>2. Reviewed(tx)' = Reviewed(db)' /\ db' = tx' /\ scope' = scope
      BY <1>3, <1>4, <1>9, <2>2
    <3>3. Reviewed(db)' = scope \/ Reviewed(db)' = Before(next)
      BY <1>9, <1>11, <2>2
    <3>4. Before(next) \subseteq scope /\ next <= next /\ next \in rest
      BY <1>1, <1>10 DEF Before
    <3>5. review'.inBatch = 0 /\ review'.todo = rest
      BY <1>6, <2>2
    <3> QED
      BY <1>5, <1>10, <1>12, <3>1, <3>2, <3>3, <3>4, <3>5, RunAssumption
         DEF AgentSound
  <2>3. CASE ~ ends
    <3>1. Reviewed(tx)' \ Reviewed(db)' \in SUBSET (ahead \cup {r})
      BY <1>9, <2>3
    <3>2. Cardinality(Reviewed(tx)' \ Reviewed(db)') <= review.inBatch + 1
      BY <2>1, <3>1, OneMoreElement
    <3>3. review.inBatch + 1 < BatchSize
      BY <1>2, <2>3, RunAssumption DEF AgentSound, BatchEnds
    <3>4. \/ Reviewed(db) = scope
          \/ db.cursor <= next /\ Reviewed(db) = Before(db.cursor)
      BY <1>1, <1>2, <1>10 DEF AgentSound, DbSound
    <3>5. db' = db /\ scope' = scope /\ Reviewed(db)' = Reviewed(db)
      BY <1>3, <1>4, <1>9, <2>3
    <3>6. Reviewed(tx)' = Reviewed(db) \cup Before(next)
      BY <1>2, <1>9, <1>10 DEF AgentSound
    <3>7. review'.inBatch = review.inBatch + 1 /\ review'.todo = rest
      BY <1>6, <2>3
    <3>8. next \in rest /\ rest = Remaining(next)
      BY <1>10
    <3> HIDE DEF rest, ends, ahead
    <3>9. tx'.cursor \in review'.todo /\ review'.todo = Remaining(tx.cursor)'
      BY <1>5, <1>12, <3>7, <3>8
    <3>10. Reviewed(tx)' = Reviewed(db)' \cup Before(tx.cursor)'
      BY <1>5, <1>12, <3>5, <3>6
    <3>11. \/ Reviewed(db)' = scope'
           \/ db'.cursor <= tx'.cursor /\ Reviewed(db)' = Before(db.cursor)'
      BY <1>5, <3>4, <3>5 DEF Before
    <3> QED
      BY <1>5, <3>2, <3>3, <3>7, <3>9, <3>10, <3>11 DEF AgentSound
  <2> QED
    BY <2>2, <2>3
<1>15. CommittedSound'
  <2>1. rest = {} => ends
    BY DEF BatchEnds
  <2> QED
    BY <1>3, <1>5, <1>6, <1>10, <2>1 DEF CommittedSound
<1>16. JobSound'
  BY <1>2, <1>4, <1>6 DEF JobSound, Busy
<1> QED
  BY <1>7, <1>8, <1>13, <1>14, <1>15, <1>16

LEMMA RunInvNext == RunInv /\ [Next]_vars => RunInv'
<1> SUFFICES ASSUME RunInv, [Next]_vars PROVE RunInv'
  OBVIOUS
<1>1. CASE UNCHANGED vars
  BY <1>1, RunInvStutter
<1>2. CASE Claim \/ HandlerRaises \/ Settle \/ Crash \/ ResultLost \/ Restart
  BY <1>2, QueueStepsPreserve
<1>3. CASE Enter
  BY <1>3, EnterPreserves
<1>4. CASE ToolCall
  BY <1>4, ToolCallPreserves
<1>5. CASE \E v \in Verdicts : CandidateAccepted(v)
  BY <1>5, CandidatePreserves
<1>6. CASE CallFails \/ QuestionRefused \/ \E v \in Verdicts : LedgerRefuses(v)
  BY <1>6, FailPreserves
<1>7. CASE Finish
  BY <1>7, FinishPreserves
<1> QED
  BY <1>1, <1>2, <1>3, <1>4, <1>5, <1>6, <1>7 DEF Next, WorkerStep

\* The invariant the theorems below rest on: whatever crashes, the committed
\* reviews are those before the resume point or all of them, and the session
\* is ahead of them by less than a batch.
THEOREM RunInvariant == Spec => []RunInv
<1>1. RunInv /\ [Next]_vars => RunInv'
  BY RunInvNext
<1> QED
  BY RunInvInit, <1>1, PTL DEF Spec

-----------------------------------------------------------------------------
(* The properties.                                                         *)

\* Every variable keeps its type (the rows of db and tx included).
THEOREM RunTypeOK == Spec => []TypeOK
<1>1. RunInv => TypeOK
  BY DEF RunInv
<1> QED
  BY <1>1, RunInvariant, PTL

\* No number of crashes makes run_review report an end that is not a failure
\* while a requirement of its scope has no accepted review.
THEOREM RunNoRequirementSkipped == Spec => []NoRequirementSkipped
<1>1. RunInv => NoRequirementSkipped
  BY DEF RunInv, TypeOK, DbSound, RowsSound, Reviewed, NoRequirementSkipped
<1> QED
  BY <1>1, RunInvariant, PTL

\* resumable_requirement_id never points past an unreviewed requirement, and
\* after a partial failure there is one to resume at.
THEOREM RunResumePointSound == Spec => []ResumePointSound
<1>1. RunInv => ResumePointSound
  BY DEF RunInv, TypeOK, DbSound, Before, Reviewed, ResumePointSound
<1> QED
  BY <1>1, RunInvariant, PTL

\* A committed review is not paid for again before all are committed.
THEOREM RunNoWastedCall == Spec => []NoWastedCall
<1>1. RunInv => NoWastedCall
  <2> SUFFICES ASSUME RunInv, review.step = "agent",
                      db.accepted[tx.cursor] # NoVerdict
               PROVE  Reviewed(db) = scope
    BY DEF NoWastedCall, Reviewed
  <2>1. tx.cursor \in scope /\ tx.cursor \in Nat
    <3>1. tx.cursor \in scope /\ scope \in SUBSET Requirements
      BY DEF RunInv, TypeOK, AgentSound, Remaining
    <3> QED
      BY <3>1, RequirementsArePositive
  <2>2. tx.cursor \in Reviewed(db)
    BY <2>1 DEF Reviewed
  <2>3. \A c \in Cursors : c <= tx.cursor => tx.cursor \notin Before(c)
    BY <2>1, RunAssumption DEF Before, Cursors, Requirements, None
  <2>4. db.cursor \in Cursors
    BY DEF RunInv, TypeOK, Rows
  <2> QED
    BY <2>2, <2>3, <2>4 DEF RunInv, AgentSound
<1> QED
  BY <1>1, RunInvariant, PTL

\* Accepted doubts are asked and accepted advice is listed, in one commit.
THEOREM RunVerdictsFollowedUp == Spec => []VerdictsFollowedUp
<1>1. RunInv => VerdictsFollowedUp
  BY DEF RunInv, RowsSound, VerdictsFollowedUp
<1> QED
  BY <1>1, RunInvariant, PTL

-----------------------------------------------------------------------------
(* What becomes of doubts.                                                 *)

Asked(t) == \E r \in scope : t.pending[r] > 0
NoDoubt(t) == \A r \in scope : t.accepted[r] # "needs_confirmation"

\* The local flag says what the session has asked and, in a run that nothing
\* has interrupted, whether it has accepted a doubt.
DoubtInv ==
    /\ (review.step \in {"agent", "closing"} /\ review.awaiting) => Asked(tx)
    /\ db.status = "awaiting_confirmation" => Asked(db)
    /\ faults = 0 =>
        /\ review.step # "down"
        /\ (job = "queued" \/ review.step = "claimed") => NoDoubt(db)
        /\ (review.step \in {"agent", "closing"} /\ ~ review.awaiting) => NoDoubt(tx)
        /\ db.status = "completed" => NoDoubt(db)

LEMMA DoubtInvInit == Init => DoubtInv
BY DEF Init, FreshRows, Outside, DoubtInv, NoDoubt, NoVerdict

\* Steps outside the review.
LEMMA QueueStepsKeepDoubts ==
    ASSUME RunInv, DoubtInv,
           \/ Claim \/ HandlerRaises \/ Settle \/ Crash \/ ResultLost \/ Restart
    PROVE  DoubtInv'
<1>1. UNCHANGED <<scope, db>> /\ faults \in Nat
  BY DEF Claim, HandlerRaises, Settle, Crash, ResultLost, Restart, RunInv, TypeOK
<1>2. Asked(db)' = Asked(db) /\ NoDoubt(db)' = NoDoubt(db)
  BY <1>1 DEF Asked, NoDoubt
<1>3. review'.step \notin {"agent", "closing"}
  BY DEF Claim, HandlerRaises, Settle, Crash, ResultLost, Restart, Outside
<1>4. faults' = 0 =>
        /\ faults = 0 /\ review'.step # "down"
        /\ (job' = "queued" \/ review'.step = "claimed") =>
              job = "queued" \/ review.step = "claimed"
  <2>1. CASE Claim
    BY <2>1 DEF Claim, Outside
  <2>2. CASE HandlerRaises
    BY <2>2 DEF HandlerRaises, Outside
  <2>3. CASE Settle
    BY <2>3 DEF Settle, Outside, RunInv, CommittedSound, StatusFor,
       StatusAfterRaise, Outcomes
  <2>4. CASE Crash \/ ResultLost
    BY <1>1, <2>4 DEF Crash, ResultLost, Fault
  <2>5. CASE Restart
    BY <2>5 DEF Restart, DoubtInv
  <2> QED
    BY <2>1, <2>2, <2>3, <2>4, <2>5
<1> QED
  BY <1>1, <1>2, <1>3, <1>4 DEF DoubtInv

\* A commit of rows that are not at their end says nothing of doubts.
LEMMA OpenRowsKeepDoubts ==
    ASSUME DoubtInv, UNCHANGED <<scope, job, faults>>, job = "running",
           db' = db \/ db'.status \in {"reviewing", "partial_failure"},
           review'.step \notin {"claimed", "down"},
           (review'.step \in {"agent", "closing"} /\ review'.awaiting) => Asked(tx)',
           (faults = 0 /\ review'.step \in {"agent", "closing"}
                /\ ~ review'.awaiting) => NoDoubt(tx)'
    PROVE  DoubtInv'
  BY DEF DoubtInv, Asked, NoDoubt

LEMMA RunStepsKeepDoubts ==
    ASSUME RunInv, DoubtInv, Enter \/ ToolCall
    PROVE  DoubtInv'
<1>1. job = "running" /\ UNCHANGED <<scope, job, faults>>
  BY DEF Enter, ToolCall, RunInv, JobSound, Busy
<1>2. CASE Enter
  <2>1. /\ tx = db /\ review.step = "claimed" /\ tx \in Rows
        /\ db' = tx'
    BY <1>2 DEF Enter, RunInv, TypeOK, CommittedSound
  <2>2. /\ tx'.status = "reviewing" /\ tx'.accepted = db.accepted
        /\ review'.awaiting = FALSE /\ review'.step \in {"agent", "closing"}
    BY <1>2, <2>1 DEF Enter, Rows, Outside
  <2>3. faults = 0 => NoDoubt(tx)'
    BY <1>1, <2>1, <2>2 DEF DoubtInv, NoDoubt
  <2> QED
    BY <1>1, <2>1, <2>2, <2>3, OpenRowsKeepDoubts
<1>3. CASE ToolCall
  <2>1. /\ review.step = "agent" /\ review'.step = "agent" /\ db' = db
        /\ review'.awaiting = review.awaiting
    BY <1>3 DEF ToolCall, RunInv, TypeOK
  <2>2. tx'.accepted = tx.accepted /\ \A q \in Requirements : tx.pending[q] > 0 => tx'.pending[q] > 0
    <3>1. \A r \in Addressable : r \in Requirements
      BY <2>1 DEF Addressable, RunInv, TypeOK, AgentSound, Remaining
    <3>2. PICK r \in Requirements :
             \/ \E v \in Verdicts : tx' = Save(tx, r, v)
             \/ tx' = Ask(tx, r)
             \/ tx' = Act(tx, r)
      BY <1>3, <3>1 DEF ToolCall
    <3>3. tx \in Rows
      BY DEF RunInv, TypeOK
    <3> QED
      BY <3>2, <3>3 DEF Save, Ask, Act, Rows
  <2>3. scope \in SUBSET Requirements
    BY DEF RunInv, TypeOK
  <2>4. Asked(tx) => Asked(tx)'
    BY <1>1, <2>2, <2>3 DEF Asked
  <2>5. NoDoubt(tx) => NoDoubt(tx)'
    BY <1>1, <2>2 DEF NoDoubt
  <2> QED
    BY <1>1, <2>1, <2>4, <2>5, OpenRowsKeepDoubts DEF DoubtInv
<1> QED
  BY <1>2, <1>3

LEMMA FailKeepsDoubts ==
    ASSUME RunInv, DoubtInv,
           CallFails \/ QuestionRefused \/ \E v \in Verdicts : LedgerRefuses(v)
    PROVE  DoubtInv'
<1>1. PICK t \in Rows : tx' = FailedAt(t, tx.cursor) /\ Fail(t)
  BY FailSavesFirst
<1>2. review.step = "agent"
  BY DEF CallFails, QuestionRefused, LedgerRefuses
<1>3. job = "running"
  BY <1>2 DEF RunInv, JobSound, Busy
<1>4. /\ UNCHANGED <<scope, job, faults>> /\ db' = tx'
      /\ review'.step = "returned"
  BY <1>1 DEF Fail, Outside
<1>5. tx'.status = "partial_failure"
  BY <1>1 DEF FailedAt, Rows
<1> QED
  BY <1>3, <1>4, <1>5, OpenRowsKeepDoubts

\* An accepted doubt is asked and raises the flag.
LEMMA CandidateKeepsDoubts ==
    ASSUME RunInv, DoubtInv, NEW v \in Verdicts, CandidateAccepted(v)
    PROVE  DoubtInv'
<1> DEFINE r == tx.cursor
           f == FollowUp(Save(tx, r, v), r, v)
<1>1. /\ review.step = "agent" /\ r \in scope /\ r \in Requirements
      /\ job = "running" /\ tx \in Rows /\ RowsSound(tx)
      /\ tx.status = "reviewing" /\ scope \in SUBSET Requirements
  BY DEF CandidateAccepted, RunInv, TypeOK, AgentSound, JobSound, Busy, Remaining
<1>2. PICK next \in Cursors : tx' = Accepted(f, r, v, next)
  BY DEF CandidateAccepted
<1>3. /\ UNCHANGED <<scope, job, faults>>
      /\ db' = db \/ db' = tx'
      /\ review'.step \in {"agent", "closing"}
      /\ review'.awaiting = Flag(review.awaiting, v)
  BY DEF CandidateAccepted, RunInv, TypeOK
<1>4. /\ f \in Rows /\ f.accepted = tx.accepted /\ f.status = tx.status
      /\ v = "needs_confirmation" => f.pending[r] > 0
  BY <1>1, FollowUpRows
<1>5. \A q \in Requirements : tx.pending[q] > 0 => f.pending[q] > 0
  BY <1>1 DEF FollowUp, Save, Ask, Act, Rows
<1> HIDE DEF f
<1>6. /\ tx'.accepted = [tx.accepted EXCEPT ![r] = v]
      /\ tx'.pending = f.pending /\ tx'.status = "reviewing"
  BY <1>1, <1>2, <1>4, AcceptedRows
<1>7. review'.awaiting => Asked(tx)'
  BY <1>1, <1>3, <1>4, <1>5, <1>6 DEF DoubtInv, Flag, Asked
<1>8. (faults = 0 /\ ~ review'.awaiting) => NoDoubt(tx)'
  BY <1>1, <1>3, <1>6 DEF DoubtInv, Flag, NoDoubt, Rows
<1> QED
  BY <1>1, <1>3, <1>6, <1>7, <1>8, OpenRowsKeepDoubts

LEMMA FinishKeepsDoubts ==
    ASSUME RunInv, DoubtInv, Finish
    PROVE  DoubtInv'
<1>1. /\ review.step = "closing" /\ job = "running" /\ tx \in Rows
      /\ review.awaiting \in BOOLEAN
  BY DEF Finish, RunInv, TypeOK, JobSound, Busy
<1>2. /\ UNCHANGED <<scope, job, faults>> /\ db' = tx'
      /\ review'.step = "returned"
      /\ tx' = [tx EXCEPT !.status = FinalStatus(review.awaiting), !.cursor = None]
  BY DEF Finish, Outside
<1>3. /\ tx'.status = FinalStatus(review.awaiting)
      /\ tx'.accepted = tx.accepted /\ tx'.pending = tx.pending
  BY <1>1, <1>2 DEF Rows
<1>4. Asked(db)' = Asked(tx) /\ NoDoubt(db)' = NoDoubt(tx)
  BY <1>2, <1>3 DEF Asked, NoDoubt
<1>5. db'.status = "awaiting_confirmation" => review.awaiting
  BY <1>2, <1>3 DEF FinalStatus
<1>6. db'.status = "completed" => ~ review.awaiting
  BY <1>2, <1>3 DEF FinalStatus
<1> QED
  BY <1>1, <1>2, <1>4, <1>5, <1>6 DEF DoubtInv

LEMMA DoubtInvariant == Spec => []DoubtInv
<1>1. RunInv /\ DoubtInv /\ [Next]_vars => DoubtInv'
  <2> SUFFICES ASSUME RunInv, DoubtInv, [Next]_vars PROVE DoubtInv'
    OBVIOUS
  <2>1. CASE UNCHANGED vars
    BY <2>1 DEF vars, DoubtInv, Asked, NoDoubt
  <2>2. CASE Claim \/ HandlerRaises \/ Settle \/ Crash \/ ResultLost \/ Restart
    BY <2>2, QueueStepsKeepDoubts
  <2>3. CASE Enter \/ ToolCall
    BY <2>3, RunStepsKeepDoubts
  <2>4. CASE \E v \in Verdicts : CandidateAccepted(v)
    BY <2>4, CandidateKeepsDoubts
  <2>5. CASE CallFails \/ QuestionRefused \/ \E v \in Verdicts : LedgerRefuses(v)
    BY <2>5, FailKeepsDoubts
  <2>6. CASE Finish
    BY <2>6, FinishKeepsDoubts
  <2> QED
    BY <2>1, <2>2, <2>3, <2>4, <2>5, <2>6 DEF Next, WorkerStep
<1> QED
  BY DoubtInvInit, <1>1, RunInvariant, PTL DEF Spec

\* A run awaits its user only with a question, and an uninterrupted one never
\* completes over a doubt.
THEOREM RunDoubtsAwaited == Spec => []DoubtsAwaited
<1>1. DoubtInv => DoubtsAwaited
  BY DEF DoubtInv, Asked, NoDoubt, DoubtsAwaited
<1> QED
  BY <1>1, DoubtInvariant, PTL

-----------------------------------------------------------------------------
(* The review run implements ReviewProgress.                               *)

\* The instance's copy of Cardinality is Cardinality.
LEMMA SameCardinality == \A S : Progress!Cardinality(S) = Cardinality(S)
  BY Zenon DEF Progress!Cardinality, Cardinality

\* A commit of the session's rows makes the uncommitted reviews of the batch,
\* and at most one more, the next block of ReviewProgress.
LEMMA CommitAdvances ==
    ASSUME RunInv, RunInv', UNCHANGED <<scope, job>>, db' = tx',
           review.step = "agent",
           \/ Reviewed(db)' = Reviewed(tx)
           \/ /\ Reviewed(db)' = Reviewed(tx) \cup {tx.cursor}
              /\ tx.cursor \in scope
    PROVE  Progress!Advance \/ UNCHANGED Progress!progressVars
<1> DEFINE block == Reviewed(db)' \ Reviewed(db)
           ahead == Reviewed(tx) \ Reviewed(db)
<1>1. job = "running"
  BY DEF RunInv, JobSound, Busy
<1>2. scope \in SUBSET Requirements /\ \A r \in scope \cup {None} : r \in Nat
  BY RequirementsArePositive DEF RunInv, TypeOK, None
<1>3. /\ Reviewed(db) \subseteq Reviewed(tx) /\ Reviewed(tx) \subseteq scope
      /\ IsFiniteSet(ahead) /\ Cardinality(ahead) <= review.inBatch
      /\ review.inBatch \in Nat /\ review.inBatch < BatchSize
  <2>1. ahead \in SUBSET Requirements
    BY <1>2 DEF Reviewed
  <2>2. IsFiniteSet(Requirements)
    BY RunAssumption, FS_Interval DEF Requirements
  <2>3. IsFiniteSet(ahead)
    BY <2>1, <2>2, FS_Subset
  <2> QED
    BY <2>3 DEF RunInv, TypeOK, AgentSound, Reviewed
<1>4. /\ Reviewed(db)' = Reviewed(db) \cup block
      /\ block \in SUBSET (scope \ Reviewed(db))
  BY <1>3
<1>5. Cardinality(block) <= BatchSize
  <2>1. block \in SUBSET (ahead \cup {tx.cursor})
    OBVIOUS
  <2> HIDE DEF block, ahead
  <2>2. Cardinality(block) \in Nat /\ Cardinality(block) <= review.inBatch + 1
    BY <1>3, <2>1, OneMoreElement
  <2> QED
    BY <1>3, <2>2, RunAssumption
<1>6. \A r \in block, s \in scope \ Reviewed(db)' : r < s
  <2>1. Reviewed(db)' = scope \/ Reviewed(db)' = Before(db.cursor)'
    BY DEF RunInv, DbSound
  <2>2. db'.cursor \in scope \cup {None}
    BY DEF RunInv, DbSound
  <2> QED
    BY <1>2, <2>1, <2>2 DEF Before
<1>7. CASE block = {}
  BY <1>4, <1>7 DEF Progress!progressVars, Outcome
<1>8. CASE block # {}
  <2>1. Outcome = "open" /\ Outcome' = Outcome /\ scope' = scope
    BY <1>1 DEF Outcome, Settled
  <2>2. \A r \in block, s \in scope \ (Reviewed(db) \cup block) : r < s
    BY <1>4, <1>6
  <2> HIDE DEF block
  <2> QED
    BY <1>4, <1>5, <1>8, <2>1, <2>2, SameCardinality DEF Progress!Advance
<1> QED
  BY <1>7, <1>8

\* Every step of the run is one of ReviewProgress, or none.
LEMMA StepImplements ==
    ASSUME RunInv, RunInv', [Next]_vars
    PROVE  Progress!Next \/ UNCHANGED Progress!progressVars
<1> USE DEF Progress!progressVars
<1>1. CASE UNCHANGED vars
  BY <1>1 DEF vars, Outcome, Reviewed
<1>2. CASE Claim \/ HandlerRaises \/ ToolCall \/ Crash \/ ResultLost \/ Restart
  <2>1. UNCHANGED <<scope, db>>
    BY <1>2 DEF Claim, HandlerRaises, ToolCall, Crash, ResultLost, Restart
  <2>2. Outcome' = Outcome
    BY <1>2 DEF Claim, HandlerRaises, ToolCall, Crash, ResultLost, Restart,
       Requeued, Outcome, Settled
  <2> QED
    BY <2>1, <2>2 DEF Reviewed
<1>3. CASE Enter \/ Finish
  <2>1. /\ UNCHANGED <<scope, job>> /\ db' = tx' /\ tx = db
        /\ tx'.accepted = tx.accepted
    BY <1>3 DEF Enter, Finish, RunInv, TypeOK, Rows, CommittedSound
  <2> QED
    BY <2>1 DEF Reviewed, Outcome
<1>4. CASE \E v \in Verdicts : CandidateAccepted(v)
  <2>1. PICK v \in Verdicts : CandidateAccepted(v)
    BY <1>4
  <2>2. /\ UNCHANGED <<scope, job>> /\ review.step = "agent"
        /\ db' = tx' \/ db' = db
    BY <2>1 DEF CandidateAccepted
  <2>3. tx.cursor \in scope /\ tx.cursor \in Requirements
    BY <2>2 DEF RunInv, TypeOK, AgentSound, Remaining
  <2>4. Reviewed(tx') = Reviewed(tx) \cup {tx.cursor}
    <3>1. PICK next \in Cursors :
             tx' = Accepted(FollowUp(Save(tx, tx.cursor, v), tx.cursor, v),
                            tx.cursor, v, next)
      BY <2>1 DEF CandidateAccepted
    <3>2. scope \in SUBSET Requirements /\ tx \in Rows /\ RowsSound(tx)
      BY DEF RunInv, TypeOK
    <3> QED
      BY <2>3, <3>1, <3>2, CandidateRows
  <2>5. CASE db' = db
    BY <2>2, <2>5 DEF Reviewed, Outcome
  <2>6. CASE db' = tx'
    <3>1. Reviewed(db)' = Reviewed(tx) \cup {tx.cursor}
      BY <2>2, <2>4, <2>6 DEF Reviewed
    <3> QED
      BY <2>2, <2>3, <2>6, <3>1, CommitAdvances DEF Progress!Next
  <2> QED
    BY <2>2, <2>5, <2>6
<1>5. CASE CallFails \/ QuestionRefused \/ \E v \in Verdicts : LedgerRefuses(v)
  <2>1. /\ UNCHANGED <<scope, job>> /\ review.step = "agent" /\ db' = tx'
    BY <1>5 DEF CallFails, QuestionRefused, LedgerRefuses, Fail
  <2>2. tx'.accepted = tx.accepted
    BY <1>5, FailSavesFirst DEF FailedAt, Rows
  <2>3. Reviewed(db)' = Reviewed(tx)
    BY <2>1, <2>2 DEF Reviewed
  <2> QED
    BY <2>1, <2>3, CommitAdvances DEF Progress!Next
<1>6. CASE Settle
  <2>1. UNCHANGED <<scope, db>> /\ job = "running" /\ job' \in Settled
    BY <1>6 DEF Settle, RunInv, JobSound, CommittedSound, Busy, StatusFor,
       StatusAfterRaise, Settled, Outcomes
  <2>2. Outcome = "open" /\ Outcome' = job'
    BY <2>1 DEF Outcome, Settled
  <2>3. job' \in {"completed", "awaiting_confirmation"} => Reviewed(db)' = scope'
    BY DEF RunInv, JobSound
  <2>4. Reviewed(db)' = Reviewed(db)
    BY <2>1 DEF Reviewed
  <2> QED
    BY <2>1, <2>2, <2>3, <2>4
       DEF Progress!Next, Progress!Conclude, Progress!GiveUp, Settled
<1> QED
  BY <1>1, <1>2, <1>3, <1>4, <1>5, <1>6 DEF Next, WorkerStep

\* The run implements its promise: reviews become durable in order, a batch at
\* a time, and the job ends with all of them reviewed or as failed.
THEOREM RunImplementsProgress == Spec => Progress!Spec
<1>1. Init => Progress!Init
  <2> SUFFICES ASSUME Init PROVE Progress!Init
    OBVIOUS
  <2>1. scope \in SUBSET (1 .. MaxReq)
    BY DEF Init, Requirements
  <2>2. Reviewed(db) = {}
    BY DEF Init, FreshRows, Reviewed
  <2>3. Outcome = "open"
    BY DEF Init, Outcome, Settled
  <2> QED
    BY <2>1, <2>2, <2>3 DEF Progress!Init
<1>2. RunInv /\ RunInv' /\ [Next]_vars => [Progress!Next]_(Progress!progressVars)
  BY StepImplements
<1> QED
  BY <1>1, <1>2, RunInvariant, PTL DEF Spec, Progress!Spec

-----------------------------------------------------------------------------
(* The review run implements JobLife, the interface to the queue.          *)

\* What is committed of the run's status while the worker is at it: the review
\* is reviewing, and what it returns is what it has committed.
CommittedStatus ==
    /\ review.step = "agent" => db.status = "reviewing"
    /\ review.step = "returned" => db.status = review.result

\* The steps that commit nothing are those of the worker and of the process.
LEMMA QueueStepsLive ==
    ASSUME RunInv, CommittedStatus,
           \/ Claim \/ HandlerRaises \/ Settle \/ Crash \/ ResultLost \/ Restart
    PROVE  CommittedStatus' /\ [Life!Next]_(Life!lifeVars)
<1>1. db' = db /\ review'.step \notin {"agent", "returned"}
  BY DEF Claim, HandlerRaises, Settle, Crash, ResultLost, Restart, Outside
<1>2. CommittedStatus'
  BY <1>1 DEF CommittedStatus
<1>3. db.status' = db.status
  BY <1>1
<1>4. CASE Claim
  <2>1. Stage = "none" /\ Stage' = "handling"
    BY <1>4 DEF Claim, Outside, Stage
  <2>2. Life!Claim
    BY <1>3, <1>4, <2>1 DEF Claim, Life!Claim
  <2> QED
    BY <1>2, <2>2 DEF Life!Next
<1>5. CASE HandlerRaises \/ ResultLost
  <2>1. Stage \in {"handling", "reviewing", "returned"} /\ Stage' = "raised"
    BY <1>5 DEF HandlerRaises, ResultLost, Outside, Stage
  <2>2. job' = job
    BY <1>5 DEF HandlerRaises, ResultLost
  <2>3. Life!Raise
    BY <1>3, <2>1, <2>2 DEF Life!Raise
  <2> QED
    BY <1>2, <2>3 DEF Life!Next
<1>6. CASE Settle
  <2>1. Stage' = "none"
    BY <1>6 DEF Settle, Outside, Stage
  <2>2. \/ Stage = "returned" /\ job' = StatusFor(db.status)
        \/ Stage = "raised" /\ job' = StatusAfterRaise
    BY <1>6 DEF Settle, Stage, CommittedStatus
  <2>3. Life!Report
    BY <1>3, <2>1, <2>2 DEF Life!Report, StatusFor, StatusAfterRaise
  <2> QED
    BY <1>2, <2>3 DEF Life!Next
<1>7. CASE Crash
  <2>1. Stage' = "none" /\ job' = job
    BY <1>7 DEF Crash, Outside, Stage
  <2>2. CASE Stage = "none"
    BY <1>2, <1>3, <2>1, <2>2 DEF Life!lifeVars
  <2>3. CASE Stage # "none"
    <3>1. Life!Abandon
      BY <1>3, <2>1, <2>3 DEF Life!Abandon
    <3> QED
      BY <1>2, <3>1 DEF Life!Next
  <2> QED
    BY <2>2, <2>3
<1>8. CASE Restart
  <2>1. Stage = "none" /\ Stage' = "none"
    BY <1>8 DEF Restart, Outside, Stage
  <2>2. CASE job = "running"
    <3>1. job' = "queued"
      BY <1>8, <2>2 DEF Restart, Requeued
    <3>2. Life!Requeue
      BY <1>3, <2>1, <2>2, <3>1 DEF Life!Requeue
    <3> QED
      BY <1>2, <3>2 DEF Life!Next
  <2>3. CASE job # "running"
    <3>1. job' = job
      BY <1>8, <2>3 DEF Restart, Requeued
    <3> QED
      BY <1>2, <1>3, <2>1, <3>1 DEF Life!lifeVars
  <2> QED
    BY <2>2, <2>3
<1> QED
  BY <1>4, <1>5, <1>6, <1>7, <1>8

\* run_review commits "reviewing" when it starts, an outcome when it ends, and
\* nothing else of its status in between.
LEMMA ReviewStepsLive ==
    ASSUME RunInv, CommittedStatus,
           \/ Enter \/ ToolCall \/ Finish
           \/ \E v \in Verdicts : CandidateAccepted(v)
           \/ CallFails \/ QuestionRefused \/ \E v \in Verdicts : LedgerRefuses(v)
    PROVE  CommittedStatus' /\ [Life!Next]_(Life!lifeVars)
<1> USE DEF RunInv, TypeOK
<1>1. CASE Enter
  <2>1. /\ review.step = "claimed" /\ review'.step \in {"agent", "closing"}
        /\ job' = job
    BY <1>1 DEF Enter, Outside
  <2>2. db'.status = "reviewing"
    BY <1>1 DEF Enter, Rows
  <2>3. Life!BeginReview
    BY <2>1, <2>2 DEF Life!BeginReview, Stage
  <2> QED
    BY <2>1, <2>2, <2>3 DEF CommittedStatus, Life!Next
<1>2. CASE ToolCall
  <2>1. /\ db' = db /\ job' = job
        /\ review.step = "agent" /\ review'.step = "agent"
    BY <1>2 DEF ToolCall
  <2> QED
    BY <2>1 DEF CommittedStatus, Life!lifeVars, Stage
<1>3. CASE \E v \in Verdicts : CandidateAccepted(v)
  <2>1. PICK v \in Verdicts : CandidateAccepted(v)
    BY <1>3
  <2>2. /\ job' = job /\ review.step = "agent"
        /\ db' = tx' \/ db' = db
        /\ review'.step \in {"agent", "closing"}
    BY <2>1 DEF CandidateAccepted
  <2>3. tx'.status = "reviewing"
    <3>1. PICK next \in Cursors :
             tx' = Accepted(FollowUp(Save(tx, tx.cursor, v), tx.cursor, v),
                            tx.cursor, v, next)
      BY <2>1 DEF CandidateAccepted
    <3>2. tx.cursor \in Requirements /\ tx.status = "reviewing"
      BY <2>2 DEF AgentSound, Remaining
    <3> QED
      BY <3>1, <3>2, CandidateRows
  <2>4. db.status = "reviewing" /\ db'.status = "reviewing"
    BY <2>2, <2>3 DEF CommittedStatus
  <2>5. Stage' = Stage
    BY <2>2 DEF Stage
  <2> QED
    BY <2>2, <2>4, <2>5 DEF CommittedStatus, Life!lifeVars
<1>4. CASE CallFails \/ QuestionRefused \/ \E v \in Verdicts : LedgerRefuses(v)
  <2>1. PICK t \in Rows : tx' = FailedAt(t, tx.cursor) /\ Fail(t)
    BY <1>4, FailSavesFirst
  <2>2. review.step = "agent"
    BY <1>4 DEF CallFails, QuestionRefused, LedgerRefuses
  <2>3. tx'.status = "partial_failure"
    BY <2>1 DEF FailedAt, Rows
  <2>4. /\ job' = job /\ db' = tx' /\ review'.step = "returned"
        /\ review'.result = "partial_failure"
    BY <2>1 DEF Fail, Outside
  <2>5. Life!EndReview
    BY <2>2, <2>3, <2>4 DEF Life!EndReview, Life!Ends, Stage
  <2> QED
    BY <2>3, <2>4, <2>5 DEF CommittedStatus, Life!Next
<1>5. CASE Finish
  <2>1. /\ review.step = "closing" /\ job' = job /\ db' = tx'
        /\ review'.step = "returned" /\ review'.result = tx'.status
    BY <1>5 DEF Finish, Outside
  <2>2. tx'.status \in {"completed", "awaiting_confirmation"}
    BY <1>5 DEF Finish, FinalStatus, Rows
  <2>3. Life!EndReview
    BY <2>1, <2>2 DEF Life!EndReview, Life!Ends, Stage
  <2> QED
    BY <2>1, <2>3 DEF CommittedStatus, Life!Next
<1> QED
  BY <1>1, <1>2, <1>3, <1>4, <1>5

\* Every step of the execution is one of the job's life, or none: the queue may
\* take it for the one outcome it makes of an execution.
THEOREM RunImplementsLife == Spec => Life!Spec
<1>1. Init => Life!Init /\ CommittedStatus
  BY DEF Init, FreshRows, Outside, Life!Init, Stage, CommittedStatus
<1>2. RunInv /\ CommittedStatus /\ [Next]_vars
         => CommittedStatus' /\ [Life!Next]_(Life!lifeVars)
  <2> SUFFICES ASSUME RunInv, CommittedStatus, [Next]_vars
               PROVE  CommittedStatus' /\ [Life!Next]_(Life!lifeVars)
    OBVIOUS
  <2>1. CASE UNCHANGED vars
    BY <2>1 DEF vars, CommittedStatus, Life!lifeVars, Stage
  <2>2. CASE Claim \/ HandlerRaises \/ Settle \/ Crash \/ ResultLost \/ Restart
    BY <2>2, QueueStepsLive
  <2>3. CASE \/ Enter \/ ToolCall \/ Finish
             \/ \E v \in Verdicts : CandidateAccepted(v)
             \/ CallFails \/ QuestionRefused \/ \E v \in Verdicts : LedgerRefuses(v)
    BY <2>3, ReviewStepsLive
  <2> QED
    BY <2>1, <2>2, <2>3 DEF Next, WorkerStep
<1> QED
  BY <1>1, <1>2, RunInvariant, PTL DEF Spec, Life!Spec

\* Both promises of the run: to the user who waits for it, and to the queue.
THEOREM RunImplementsPromises == Spec => ImplementsPromises
BY RunImplementsProgress, RunImplementsLife, PTL DEF ImplementsPromises

\* What follows from the interface alone, for the queue's jobs as for this one:
\* a job that reports success reports what its run committed, and neither is
\* touched once the job is settled.
ReportedAndFinal ==
    /\ [](job \in {"completed", "awaiting_confirmation"} => db.status = job)
    /\ [][(job \in Settled) => job' = job /\ db'.status = db.status]_(Life!lifeVars)

THEOREM LifeReportsAndEnds == Life!Spec => ReportedAndFinal
<1> DEFINE Reported == job \in {"completed", "awaiting_confirmation"} => db.status = job
           Off == job \in Settled => Stage = "none"
           Final == job \in Settled => job' = job /\ db'.status = db.status
<1>1. Life!Init => Reported /\ Off
  BY DEF Life!Init
<1>2. Reported /\ Off /\ [Life!Next]_(Life!lifeVars) => Reported' /\ Off'
  BY DEF Life!Next, Life!lifeVars, Life!Create, Life!Claim, Life!BeginReview,
     Life!EndReview, Life!Raise, Life!Report, Life!Abandon, Life!Requeue, Settled
<1>3. Off /\ [Life!Next]_(Life!lifeVars) => [Final]_(Life!lifeVars)
  BY DEF Life!Next, Life!lifeVars, Life!Create, Life!Claim, Life!BeginReview,
     Life!EndReview, Life!Raise, Life!Report, Life!Abandon, Life!Requeue, Settled
<1> QED
  BY <1>1, <1>2, <1>3, PTL DEF Life!Spec, ReportedAndFinal

\* So a settled job of the run is settled for good.
THEOREM RunReportsAndEnds == Spec => ReportedAndFinal
BY RunImplementsLife, LifeReportsAndEnds, PTL

-----------------------------------------------------------------------------
(* When the plan's sentence about open questions does hold.                *)

\* The only questions of the run are those of its accepted doubts.
OnlyDoubtsAsked(t) ==
    \A r \in Requirements : t.pending[r] > 0 => t.accepted[r] = "needs_confirmation"

\* Without faults no requirement is reviewed twice, and without tool calls
\* nobody but the service asks.
QuestionInv ==
    /\ faults = 0
    /\ review.step = "agent" => Reviewed(db) # scope
    /\ review.step \in {"agent", "closing"} => OnlyDoubtsAsked(tx)
    /\ (job = "queued" \/ review.step = "claimed") =>
          Reviewed(db) = {} /\ OnlyDoubtsAsked(db)
    /\ db.status = "completed" => OnlyDoubtsAsked(db)

LEMMA QueueStepsKeepQuestions ==
    ASSUME MaxFaults = 0, RunInv, DoubtInv, QuestionInv,
           \/ Claim \/ HandlerRaises \/ Settle \/ Crash \/ ResultLost \/ Restart
    PROVE  QuestionInv'
<1>1. ~ Fault /\ review.step # "down"
  BY DEF Fault, QuestionInv, DoubtInv
<1>2. UNCHANGED <<scope, db, faults>>
  BY <1>1 DEF Claim, HandlerRaises, Settle, Crash, ResultLost, Restart
<1>3. /\ Reviewed(db)' = Reviewed(db)
      /\ OnlyDoubtsAsked(db)' = OnlyDoubtsAsked(db)
  BY <1>2 DEF Reviewed, OnlyDoubtsAsked
<1>4. review'.step \notin {"agent", "closing"}
  BY DEF Claim, HandlerRaises, Settle, Crash, ResultLost, Restart, Outside
<1>5. (job' = "queued" \/ review'.step = "claimed") =>
         job = "queued" \/ review.step = "claimed"
  <2>1. CASE Claim
    BY <2>1 DEF Claim
  <2>2. CASE HandlerRaises
    BY <2>2 DEF HandlerRaises, Outside
  <2>3. CASE Settle
    BY <2>3 DEF Settle, Outside, RunInv, CommittedSound, StatusFor,
       StatusAfterRaise, Outcomes
  <2> QED
    BY <1>1, <2>1, <2>2, <2>3 DEF Crash, ResultLost, Restart
<1> QED
  BY <1>2, <1>3, <1>4, <1>5 DEF QuestionInv

\* The first review of the job starts with nothing reviewed.
LEMMA EnterKeepsQuestions ==
    ASSUME RunInv, RunInv', QuestionInv, Enter
    PROVE  QuestionInv'
<1>1. /\ review.step = "claimed" /\ db' = tx' /\ tx = db /\ tx \in Rows
      /\ UNCHANGED <<scope, job, faults>>
  BY DEF Enter, RunInv, TypeOK, CommittedSound
<1>2. /\ tx'.accepted = db.accepted /\ tx'.pending = db.pending
      /\ tx'.status = "reviewing"
  BY <1>1 DEF Enter, Rows
<1>3. Reviewed(db)' = {}
  <2>1. Reviewed(db)' = Reviewed(db)
    BY <1>1, <1>2 DEF Reviewed
  <2> QED
    BY <1>1, <2>1 DEF QuestionInv
<1>4. OnlyDoubtsAsked(tx)'
  <2>1. OnlyDoubtsAsked(db)
    BY <1>1 DEF QuestionInv
  <2> QED
    BY <1>2, <2>1 DEF OnlyDoubtsAsked
<1>5. review'.step = "agent" => scope' # {}
  BY DEF RunInv, AgentSound, Remaining
<1>6. job' = "running" /\ review'.step # "claimed"
  BY <1>1 DEF RunInv, JobSound, Busy, Enter, Outside
<1> QED
  BY <1>1, <1>2, <1>3, <1>4, <1>5, <1>6 DEF QuestionInv

\* A failure ends the job; the rows of a failed run are not asked about.
LEMMA FailKeepsQuestions ==
    ASSUME RunInv, QuestionInv,
           CallFails \/ QuestionRefused \/ \E v \in Verdicts : LedgerRefuses(v)
    PROVE  QuestionInv'
<1>1. PICK t \in Rows : tx' = FailedAt(t, tx.cursor) /\ Fail(t)
  BY FailSavesFirst
<1>2. job = "running"
  BY DEF CallFails, QuestionRefused, LedgerRefuses, RunInv, JobSound, Busy
<1>3. /\ UNCHANGED <<job, faults>> /\ db' = tx' /\ review'.step = "returned"
  BY <1>1 DEF Fail, Outside
<1>4. tx'.status = "partial_failure"
  BY <1>1 DEF FailedAt, Rows
<1> QED
  BY <1>2, <1>3, <1>4 DEF QuestionInv

\* A requirement the agent is at has not been reviewed, so its accepted
\* verdict is the one its question, if it has one, is about.
LEMMA CandidateKeepsQuestions ==
    ASSUME RunInv, RunInv', QuestionInv, NEW v \in Verdicts, CandidateAccepted(v)
    PROVE  QuestionInv'
<1> DEFINE r == tx.cursor
           f == FollowUp(Save(tx, r, v), r, v)
<1>1. /\ review.step = "agent" /\ r \in Requirements /\ r \in scope
      /\ tx \in Rows /\ RowsSound(tx) /\ OnlyDoubtsAsked(tx)
      /\ tx.status = "reviewing" /\ job = "running"
      /\ review.todo = Remaining(r) /\ scope \in SUBSET Requirements
  BY DEF CandidateAccepted, RunInv, TypeOK, AgentSound, JobSound, Busy,
     Remaining, QuestionInv
<1>2. PICK next \in Cursors : tx' = Accepted(f, r, v, next)
  BY DEF CandidateAccepted
<1>3. /\ UNCHANGED <<scope, job, faults>>
      /\ db' = db \/ db' = tx'
      /\ review'.step \in {"agent", "closing"}
      /\ review'.todo = review.todo \ {r}
  BY DEF CandidateAccepted, RunInv, TypeOK
<1>4. f \in Rows /\ f.accepted = tx.accepted /\ f.status = tx.status
  BY <1>1, FollowUpRows
<1>5. \A q \in Requirements :
         f.pending[q] > 0 => tx.pending[q] > 0 \/ (q = r /\ v = "needs_confirmation")
  BY <1>1, VerdictsAre DEF FollowUp, Save, Ask, Act, Rows
<1>6. Reviewed(tx) = Before(r)
  BY <1>1, BatchSoFar DEF QuestionInv
<1>7. tx.accepted[r] = NoVerdict
  <2>1. r \notin Before(r)
    BY <1>1, RequirementsArePositive DEF Before
  <2> QED
    BY <1>1, <1>6, <2>1 DEF Reviewed
<1> HIDE DEF f
<1>8. /\ tx'.accepted = [tx.accepted EXCEPT ![r] = v]
      /\ tx'.pending = f.pending /\ tx'.status = "reviewing"
  BY <1>1, <1>2, <1>4, AcceptedRows
<1>9. OnlyDoubtsAsked(tx)'
  <2>1. tx.accepted \in [Requirements -> Verdicts \cup {NoVerdict}]
    BY <1>1 DEF Rows
  <2>2. ~ (tx.pending[r] > 0)
    BY <1>1, <1>7 DEF OnlyDoubtsAsked, NoVerdict
  <2>3. \A q \in Requirements : q # r =>
           (tx.pending[q] > 0 => tx.accepted[q] = "needs_confirmation")
    BY <1>1 DEF OnlyDoubtsAsked
  <2> QED
    BY <1>5, <1>8, <2>1, <2>2, <2>3 DEF OnlyDoubtsAsked
<1>10. review'.step = "agent" => Reviewed(db)' # scope'
  <2> SUFFICES ASSUME review'.step = "agent" PROVE Reviewed(db)' # scope
    BY <1>3
  <2>1. CASE db' = db
    BY <1>1, <1>3, <2>1 DEF QuestionInv, Reviewed
  <2>2. CASE db' = tx'
    <3>1. tx'.cursor \in review'.todo
      BY DEF RunInv, AgentSound
    <3>2. tx'.cursor \in scope /\ tx'.cursor # r /\ r <= tx'.cursor
      BY <1>1, <1>3, <3>1 DEF Remaining
    <3>3. tx'.cursor \notin Before(r)
      BY <1>1, <3>2, RequirementsArePositive DEF Before
    <3>4. Reviewed(db)' = Reviewed(tx')
      BY <1>3, <2>2 DEF Reviewed
    <3>5. Reviewed(tx') \subseteq Reviewed(tx) \cup {r}
      BY <1>1, <1>8 DEF Reviewed, Rows
    <3> QED
      BY <1>6, <3>2, <3>3, <3>4, <3>5
  <2> QED
    BY <1>3, <2>1, <2>2
<1>11. db'.status = "completed" => OnlyDoubtsAsked(db)'
  <2>1. CASE db' = db
    BY <2>1 DEF QuestionInv, OnlyDoubtsAsked
  <2>2. CASE db' = tx'
    BY <1>8, <2>2
  <2> QED
    BY <1>3, <2>1, <2>2
<1> QED
  BY <1>1, <1>3, <1>9, <1>10, <1>11 DEF QuestionInv

LEMMA FinishKeepsQuestions ==
    ASSUME RunInv, QuestionInv, Finish
    PROVE  QuestionInv'
<1>1. /\ review.step = "closing" /\ job = "running" /\ tx \in Rows
      /\ OnlyDoubtsAsked(tx)
  BY DEF Finish, RunInv, TypeOK, JobSound, Busy, QuestionInv
<1>2. UNCHANGED <<job, faults>> /\ db' = tx' /\ review'.step = "returned"
  BY DEF Finish, Outside
<1>3. tx'.accepted = tx.accepted /\ tx'.pending = tx.pending
  BY <1>1 DEF Finish, Rows
<1>4. OnlyDoubtsAsked(db)'
  BY <1>1, <1>2, <1>3 DEF OnlyDoubtsAsked
<1> QED
  BY <1>1, <1>2, <1>4 DEF QuestionInv

\* The plan's sentence holds of a run that nothing interrupts and whose agent
\* asks nothing itself: these are the two ways around the run's local flag.
THEOREM RunCompletedMeansNoDoubt ==
    ASSUME MaxFaults = 0, MaxTools = 0
    PROVE  Spec => []CompletedMeansNoDoubt
<1>1. Init => QuestionInv
  BY DEF Init, FreshRows, Outside, QuestionInv, Reviewed, OnlyDoubtsAsked
<1>2. RunInv /\ RunInv' /\ DoubtInv /\ QuestionInv /\ [Next]_vars => QuestionInv'
  <2> SUFFICES ASSUME RunInv, RunInv', DoubtInv, QuestionInv, [Next]_vars
               PROVE  QuestionInv'
    OBVIOUS
  <2>1. CASE UNCHANGED vars
    BY <2>1 DEF vars, QuestionInv, Reviewed, OnlyDoubtsAsked
  <2>2. CASE Claim \/ HandlerRaises \/ Settle \/ Crash \/ ResultLost \/ Restart
    BY <2>2, QueueStepsKeepQuestions
  <2>3. CASE Enter
    BY <2>3, EnterKeepsQuestions
  <2>4. ~ ToolCall
    BY DEF ToolCall, RunInv, TypeOK
  <2>5. CASE \E v \in Verdicts : CandidateAccepted(v)
    BY <2>5, CandidateKeepsQuestions
  <2>6. CASE CallFails \/ QuestionRefused \/ \E v \in Verdicts : LedgerRefuses(v)
    BY <2>6, FailKeepsQuestions
  <2>7. CASE Finish
    BY <2>7, FinishKeepsQuestions
  <2> QED
    BY <2>1, <2>2, <2>3, <2>4, <2>5, <2>6, <2>7 DEF Next, WorkerStep
<1>3. RunInv /\ DoubtInv /\ QuestionInv => CompletedMeansNoDoubt
  <2> SUFFICES ASSUME RunInv, DoubtInv, QuestionInv, db.status = "completed",
                      NEW r \in scope
               PROVE  db.pending[r] = 0
    BY DEF CompletedMeansNoDoubt
  <2>1. NoDoubt(db) /\ OnlyDoubtsAsked(db)
    BY DEF DoubtInv, QuestionInv
  <2>2. r \in Requirements /\ db.pending[r] \in Nat
    BY DEF RunInv, TypeOK, Rows
  <2>3. ~ (db.pending[r] > 0)
    BY <2>1, <2>2 DEF NoDoubt, OnlyDoubtsAsked
  <2> QED
    BY <2>2, <2>3
<1> QED
  BY <1>1, <1>2, <1>3, RunInvariant, DoubtInvariant, PTL DEF Spec

=============================================================================
