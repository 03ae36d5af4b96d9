------------------------- MODULE ParseAttempt_proofs -------------------------
(***************************************************************************)
(* Proofs about the parse attempts of a version, for any number of upload  *)
(* threads, attempts and faults.                                           *)
(***************************************************************************)
EXTENDS ParseAttempt, TLAPS

\* The token of the version is that of the newest attempt, and its chunks are
\* older than an attempt in progress.
TokenSound ==
    /\ row.status = "parsing" <=> row.token # None
    /\ row.token # None => row.token = claims /\ row.chunks < row.token
    /\ row.chunks <= claims

\* Chunks come from a file that yields them, and the stored coverage says
\* whether they are all there is.
ChunksSound ==
    row.chunks # None =>
        /\ file \in WithChunks
        /\ row.complete <=> file = "parsed"

\* A thread has a token exactly while it has an attempt, and an attempt that
\* ended has one of the two outcomes the file allows.
ThreadSound(t) ==
    /\ thread[t].token <= claims
    /\ thread[t].step \in {"parsing", "ended"} <=> thread[t].token # None
    /\ thread[t].step = "ended" => thread[t].outcome \in {file, "failed"}

\* The inductive invariant.
ParseInv ==
    /\ TypeOK
    /\ TokenSound
    /\ ChunksSound
    /\ \A t \in Threads : ThreadSound(t)
    /\ StatusMatchesChunks
    /\ ParsingIsHeld
    /\ JobHasChunks

-----------------------------------------------------------------------------
\* The claim, field by field.
LEMMA ClaimedFields ==
    ASSUME NEW r \in Rows, NEW n \in Nat
    PROVE  /\ Claimed(r, n) \in Rows
           /\ Claimed(r, n).status = "parsing"
           /\ Claimed(r, n).token = n
           /\ Claimed(r, n).chunks = r.chunks
           /\ Claimed(r, n).complete = r.complete
BY DEF Claimed, Rows, Statuses, Outcomes

\* The end of an attempt, field by field: the token is given up, and either
\* the chunks stay with a status computed from their coverage, or chunks,
\* status and coverage are those of this attempt.
LEMMA FinalizedFields ==
    ASSUME NEW r \in Rows, NEW n \in Nat, NEW o \in Outcomes
    PROVE  /\ Finalized(r, n, o) \in Rows
           /\ Finalized(r, n, o).token = None
           /\ Keeps(r, o) =>
                /\ Finalized(r, n, o).chunks = r.chunks
                /\ Finalized(r, n, o).complete = r.complete
                /\ Finalized(r, n, o).status = PreviousStatus(r)
           /\ ~ Keeps(r, o) =>
                /\ Finalized(r, n, o).chunks
                    = (IF o \in WithChunks THEN n ELSE None)
                /\ Finalized(r, n, o).complete <=> o = "parsed"
                /\ Finalized(r, n, o).status = o
<1>1. /\ Retained(r) \in Rows
      /\ Retained(r).token = None
      /\ Retained(r).chunks = r.chunks
      /\ Retained(r).complete = r.complete
      /\ Retained(r).status = PreviousStatus(r)
  BY DEF Retained, PreviousStatus, Rows, Statuses, Outcomes, None
<1>2. /\ Replaced(r, n, o) \in Rows
      /\ Replaced(r, n, o).token = None
      /\ Replaced(r, n, o).chunks = (IF o \in WithChunks THEN n ELSE None)
      /\ Replaced(r, n, o).complete <=> o = "parsed"
      /\ Replaced(r, n, o).status = o
  BY DEF Replaced, Rows, Statuses, None
<1> QED
  BY <1>1, <1>2 DEF Finalized

\* What the worker does next: it reviews only what is available.
LEMMA VerdictFields ==
    ASSUME NEW s
    PROVE  /\ Verdict(s) \in [step : Steps, token : Nat, outcome : Outcomes]
           /\ Verdict(s).token = None
           /\ Verdict(s).step \in {"idle", "reviewing"}
           /\ Verdict(s).step = "reviewing" => s \in Available
BY DEF Verdict, Idle, Steps, None, Outcomes

-----------------------------------------------------------------------------
\* The initial states.
LEMMA ParseInit == Init => ParseInv
<1> SUFFICES ASSUME Init PROVE ParseInv
  OBVIOUS
<1>1. /\ row \in Rows /\ row.status = "pending" /\ row.token = None
      /\ row.chunks = None
  BY DEF Init, Rows, Statuses, None
<1>2. thread \in [Threads -> [step : Steps, token : Nat, outcome : Outcomes]]
  BY DEF Init, Idle, Steps, Outcomes, None
<1>3. ASSUME NEW t \in Threads
      PROVE  thread[t].token = None /\ thread[t].step \in {"idle", "decided"}
  BY DEF Init, Idle
<1>4. TypeOK
  BY <1>1, <1>2 DEF Init, TypeOK
<1>5. TokenSound /\ ChunksSound /\ StatusMatchesChunks /\ ParsingIsHeld
  BY <1>1 DEF Init, TokenSound, ChunksSound, StatusMatchesChunks,
     ParsingIsHeld, None, WithChunks
<1>6. \A t \in Threads : ThreadSound(t)
  BY <1>3 DEF Init, ThreadSound, None
<1>7. JobHasChunks
  BY <1>3 DEF JobHasChunks, Threads
<1> QED
  BY <1>4, <1>5, <1>6, <1>7 DEF ParseInv

\* Thread t goes on to state x without touching the version: it keeps its
\* attempt, or gives up one the version does not have (or a fault took).
Moves(t, x) ==
    /\ x \in [step : Steps, token : Nat, outcome : Outcomes]
    /\ thread' = [thread EXCEPT ![t] = x]
    /\ UNCHANGED <<row, file, claims>>
    /\ faults' = faults \/ faults' = faults + 1
    /\ broken \subseteq broken' /\ broken' \subseteq Nat
    /\ \/ x.token = thread[t].token
       \/ x.token = None /\ row.token # thread[t].token
       \/ x.token = None /\ thread[t].token \in broken' \cup {None}
    /\ x.step \in {"parsing", "ended"} <=> x.token # None
    /\ x.step = "ended" => x.outcome \in {file, "failed"}
    /\ x.step = "reviewing" => row.chunks # None

LEMMA ThreadMoves ==
    ASSUME ParseInv, NEW t \in Threads, NEW x, Moves(t, x)
    PROVE  ParseInv'
<1> USE DEF ParseInv, Moves
<1>1. TypeOK'
  BY DEF TypeOK
<1>2. TokenSound' /\ ChunksSound' /\ StatusMatchesChunks'
  BY DEF TokenSound, ChunksSound, StatusMatchesChunks
<1>3. ASSUME NEW u \in Threads PROVE ThreadSound(u)'
  <2>1. CASE u = t
    BY <2>1 DEF ThreadSound, TypeOK, None
  <2>2. CASE u # t
    BY <2>2 DEF ThreadSound, TypeOK
  <2> QED
    BY <2>1, <2>2
<1>4. ParsingIsHeld'
  <2> SUFFICES ASSUME row.status = "parsing", row.token \notin broken'
               PROVE  \E u \in Threads : /\ thread'[u].step \in {"parsing", "ended"}
                                         /\ thread'[u].token = row.token
    BY DEF ParsingIsHeld
  <2>1. row.token \notin broken
    OBVIOUS
  <2>2. PICK u \in Threads : /\ thread[u].step \in {"parsing", "ended"}
                             /\ thread[u].token = row.token
    BY <2>1 DEF ParsingIsHeld
  <2>3. row.token # None
    BY DEF TokenSound
  <2>4. CASE u = t
    <3>1. x.token = thread[t].token /\ x.step \in {"parsing", "ended"}
      BY <2>2, <2>3, <2>4 DEF TypeOK
    <3> QED
      BY <2>2, <2>4, <3>1 DEF TypeOK
  <2>5. CASE u # t
    BY <2>2, <2>5 DEF TypeOK
  <2> QED
    BY <2>4, <2>5
<1>5. JobHasChunks'
  <2>1. Worker \in Threads
    BY DEF Threads
  <2> QED
    BY <2>1 DEF JobHasChunks, TypeOK
<1> QED
  BY <1>1, <1>2, <1>3, <1>4, <1>5

\* A status the worker accepts is one of a version with chunks.
LEMMA AvailableHasChunks ==
    ASSUME ParseInv, row.status \in Available
    PROVE  row.chunks # None
BY DEF ParseInv, StatusMatchesChunks, Available, WithChunks

\* The reads and the parser's return.
LEMMA ReadStep ==
    ASSUME ParseInv, NEW t \in Threads,
           \/ LookUp(t) \/ JobReads(t) \/ ParseEnds(t) \/ Overtaken(t)
           \/ Recheck(t) \/ JobEnds(t) \/ DatabaseError(t)
    PROVE  ParseInv'
<1> USE DEF ParseInv
<1>1. thread[t] \in [step : Steps, token : Nat, outcome : Outcomes]
  BY DEF TypeOK
<1>2. ThreadSound(t)
  OBVIOUS
<1>3. faults \in Nat /\ broken \subseteq Nat
  BY DEF TypeOK
<1>4. Idle \in [step : Steps, token : Nat, outcome : Outcomes]
  BY DEF Idle, Steps, Outcomes, None
<1>5. CASE LookUp(t)
  <2> DEFINE x == [thread[t] EXCEPT !.step = "decided"]
  <2>1. /\ x \in [step : Steps, token : Nat, outcome : Outcomes]
        /\ x.token = thread[t].token /\ x.step = "decided"
    BY <1>1 DEF Steps
  <2>2. thread' = [thread EXCEPT ![t] = x]
    BY <1>5 DEF LookUp, TypeOK
  <2>3. x.token = None
    BY <1>2, <1>5, <2>1 DEF LookUp, ThreadSound
  <2> HIDE DEF x
  <2>4. Moves(t, x)
    BY <1>3, <1>5, <2>1, <2>2, <2>3 DEF LookUp, Moves
  <2> QED
    BY <2>4, ThreadMoves
<1>6. CASE JobReads(t)
  <2> DEFINE x == IF row.status \in WorkerParses
                  THEN [Idle EXCEPT !.step = "decided"]
                  ELSE Verdict(row.status)
  <2>1. /\ x \in [step : Steps, token : Nat, outcome : Outcomes]
        /\ x.token = None
        /\ x.step \in {"decided", "idle", "reviewing"}
        /\ x.step = "reviewing" => row.status \in Available
    BY VerdictFields, <1>4 DEF Idle, Steps
  <2>2. thread' = [thread EXCEPT ![t] = x]
    BY <1>6 DEF JobReads
  <2>3. thread[t].token = None
    BY <1>2, <1>6 DEF JobReads, ThreadSound
  <2> HIDE DEF x
  <2>4. Moves(t, x)
    BY <1>3, <1>6, <2>1, <2>2, <2>3, AvailableHasChunks DEF JobReads, Moves
  <2> QED
    BY <2>4, ThreadMoves
<1>7. CASE ParseEnds(t)
  <2>1. PICK o \in {file, "failed"} :
            thread' = [thread EXCEPT ![t].step = "ended", ![t].outcome = o]
    BY <1>7 DEF ParseEnds
  <2> DEFINE x == [thread[t] EXCEPT !.step = "ended", !.outcome = o]
  <2>2. /\ x \in [step : Steps, token : Nat, outcome : Outcomes]
        /\ x.token = thread[t].token /\ x.step = "ended" /\ x.outcome = o
    BY <1>1 DEF Steps, TypeOK, Outcomes
  <2>3. thread' = [thread EXCEPT ![t] = x]
    BY <2>1 DEF TypeOK
  <2>4. thread[t].token # None
    BY <1>2, <1>7 DEF ParseEnds, ThreadSound
  <2> HIDE DEF x
  <2>5. Moves(t, x)
    BY <1>3, <1>7, <2>2, <2>3, <2>4 DEF ParseEnds, Moves
  <2> QED
    BY <2>5, ThreadMoves
<1>8. CASE Overtaken(t)
  <2> DEFINE x == IF t = Worker THEN [Idle EXCEPT !.step = "recheck"] ELSE Idle
  <2>1. /\ x \in [step : Steps, token : Nat, outcome : Outcomes]
        /\ x.token = None
        /\ x.step \in {"recheck", "idle"}
    BY <1>4 DEF Idle, Steps
  <2>2. thread' = [thread EXCEPT ![t] = x] /\ row.token # thread[t].token
    BY <1>8 DEF Overtaken, Owns
  <2> HIDE DEF x
  <2>3. Moves(t, x)
    BY <1>3, <1>8, <2>1, <2>2 DEF Overtaken, Moves
  <2> QED
    BY <2>3, ThreadMoves
<1>9. CASE Recheck(t)
  <2>1. thread[t].token = None
    BY <1>2, <1>9 DEF Recheck, ThreadSound
  <2>2. Moves(t, Verdict(row.status))
    BY <1>3, <1>9, <2>1, VerdictFields, AvailableHasChunks DEF Recheck, Moves
  <2> QED
    BY <2>2, ThreadMoves
<1>10. Idle.token = None /\ Idle.step = "idle"
  BY DEF Idle
<1>11. CASE JobEnds(t)
  <2>1. thread[t].token = None
    BY <1>2, <1>11 DEF JobEnds, ThreadSound
  <2>2. Moves(t, Idle)
    BY <1>3, <1>4, <1>10, <1>11, <2>1 DEF JobEnds, Moves
  <2> QED
    BY <2>2, ThreadMoves
<1>12. CASE DatabaseError(t)
  <2>1. /\ faults' = faults + 1
        /\ broken \subseteq broken' /\ broken' \subseteq Nat
        /\ thread[t].token \in broken' \cup {None}
    BY <1>1, <1>3, <1>12 DEF DatabaseError, Fault, TypeOK
  <2>2. Moves(t, Idle)
    BY <1>3, <1>4, <1>10, <1>12, <2>1 DEF DatabaseError, Moves
  <2> QED
    BY <2>2, ThreadMoves
<1> QED
  BY <1>5, <1>6, <1>7, <1>8, <1>9, <1>11, <1>12

\* The claim: the newest attempt takes the version over.
LEMMA ClaimStep ==
    ASSUME ParseInv, NEW t \in Threads, Claim(t)
    PROVE  ParseInv'
<1> USE DEF ParseInv
<1>1. claims \in Nat /\ row \in Rows /\ claims' = claims + 1 /\ claims' \in Nat
  BY DEF Claim, TypeOK
<1>2. /\ row' \in Rows /\ row'.status = "parsing" /\ row'.token = claims'
      /\ row'.chunks = row.chunks /\ row'.complete = row.complete
  BY <1>1, ClaimedFields DEF Claim
<1> DEFINE x == [thread[t] EXCEPT !.step = "parsing", !.token = claims']
<1>3. /\ x \in [step : Steps, token : Nat, outcome : Outcomes]
      /\ x.step = "parsing" /\ x.token = claims'
  BY <1>1 DEF TypeOK, Steps
<1>4. thread' = [thread EXCEPT ![t] = x]
  BY DEF Claim, TypeOK
<1> HIDE DEF x
<1>5. thread'[t] = x /\ \A u \in Threads : u # t => thread'[u] = thread[u]
  BY <1>4 DEF TypeOK
<1>6. TypeOK'
  BY <1>1, <1>2, <1>3, <1>4 DEF Claim, TypeOK
<1>7. TokenSound'
  BY <1>1, <1>2 DEF TokenSound, None, Rows
<1>8. ChunksSound' /\ StatusMatchesChunks'
  BY <1>2 DEF Claim, ChunksSound, StatusMatchesChunks
<1>9. ASSUME NEW u \in Threads PROVE ThreadSound(u)'
  <2>1. CASE u = t
    BY <1>1, <1>3, <1>5, <2>1 DEF ThreadSound, None
  <2>2. CASE u # t
    BY <1>1, <1>5, <2>2 DEF Claim, ThreadSound, TypeOK
  <2> QED
    BY <2>1, <2>2
<1>10. ParsingIsHeld'
  BY <1>2, <1>3, <1>5 DEF ParsingIsHeld
<1>11. JobHasChunks'
  BY <1>2, <1>3, <1>5 DEF JobHasChunks, Threads
<1> QED
  BY <1>6, <1>7, <1>8, <1>9, <1>10, <1>11

\* What the end of an attempt leaves in the version: no attempt, chunks that
\* are the kept ones or this attempt's, and a status that tells the truth.
LEMMA FinalizedRow ==
    ASSUME ParseInv, NEW t \in Threads, Finalize(t)
    PROVE  /\ row' \in Rows
           /\ row'.token = None
           /\ row'.status \in Outcomes
           /\ row'.chunks = row.chunks \/ row'.chunks = claims
           /\ row.chunks # None => row'.chunks # None
           /\ row'.status \in WithChunks <=> row'.chunks # None
           /\ row'.chunks # None =>
                /\ row'.status = file
                /\ file \in WithChunks
                /\ row'.complete <=> file = "parsed"
           /\ thread[t].token = claims
           /\ row.chunks < claims
<1> USE DEF ParseInv
<1> DEFINE n == thread[t].token
           o == thread[t].outcome
<1>1. /\ row \in Rows /\ n \in Nat /\ o \in Outcomes /\ file \in Outcomes
      /\ o \in {file, "failed"} /\ n # None /\ n = row.token
      /\ row' = Finalized(row, n, o)
  BY DEF Finalize, Owns, TypeOK, ThreadSound
<1>2. n = claims /\ row.chunks < claims
  BY <1>1 DEF TokenSound
<1>3. row.chunks \in Nat /\ row.complete \in BOOLEAN
  BY <1>1 DEF Rows
<1> HIDE DEF n, o
<1>4. CASE Keeps(row, o)
  <2>1. row.chunks # None
    BY <1>4 DEF Keeps
  <2>2. file \in WithChunks /\ (row.complete <=> file = "parsed")
    BY <2>1 DEF ChunksSound
  <2>3. /\ row' \in Rows /\ row'.token = None /\ row'.chunks = row.chunks
        /\ row'.complete = row.complete /\ row'.status = PreviousStatus(row)
    BY <1>1, <1>4, FinalizedFields
  <2>4. row'.status = file
    BY <2>2, <2>3 DEF PreviousStatus, WithChunks
  <2> QED
    BY <1>1, <1>2, <2>1, <2>2, <2>3, <2>4 DEF n
<1>5. CASE ~ Keeps(row, o)
  <2>1. /\ row' \in Rows /\ row'.token = None
        /\ row'.chunks = (IF o \in WithChunks THEN n ELSE None)
        /\ row'.complete <=> o = "parsed"
        /\ row'.status = o
    BY <1>1, <1>5, FinalizedFields
  <2>2. o \in WithChunks => o = file
    BY <1>1 DEF WithChunks
  <2>3. row.chunks # None => o \in WithChunks
    <3>1. SUFFICES ASSUME row.chunks # None PROVE o \in WithChunks
      OBVIOUS
    <3>2. file \in WithChunks /\ o # "failed"
      BY <1>5, <3>1 DEF ChunksSound, Keeps
    <3> QED
      BY <1>1, <3>2
  <2>4. row'.chunks = row.chunks \/ row'.chunks = claims
    BY <1>2, <2>1, <2>3
  <2>5. row'.chunks # None => o \in WithChunks
    BY <2>1
  <2> QED
    BY <1>1, <1>2, <2>1, <2>2, <2>3, <2>4, <2>5 DEF n
<1> QED
  BY <1>4, <1>5

\* The end of an attempt that still holds the version.
LEMMA FinalizeStep ==
    ASSUME ParseInv, NEW t \in Threads, Finalize(t)
    PROVE  ParseInv'
<1> USE DEF ParseInv
<1> DEFINE x == IF t = Worker THEN Verdict(row'.status) ELSE Idle
<1>1. /\ x \in [step : Steps, token : Nat, outcome : Outcomes]
      /\ x.token = None
      /\ x.step \in {"idle", "reviewing"}
      /\ x.step = "reviewing" => row'.status \in WithChunks
  BY VerdictFields DEF Idle, Steps, Outcomes, None, Available, WithChunks
<1>2. thread' = [thread EXCEPT ![t] = x] /\ UNCHANGED <<file, claims, faults, broken>>
  BY DEF Finalize
<1> HIDE DEF x
<1>3. thread'[t] = x /\ \A u \in Threads : u # t => thread'[u] = thread[u]
  BY <1>2 DEF TypeOK
<1>4. TypeOK'
  BY <1>1, <1>2, FinalizedRow DEF TypeOK
<1>5. claims \in Nat /\ row.chunks \in Nat
  BY DEF TypeOK, Rows
<1>6. row'.status # "parsing"
  BY FinalizedRow DEF Outcomes
<1>7. TokenSound'
  BY <1>2, <1>5, <1>6, FinalizedRow DEF TokenSound, TypeOK, Rows
<1>8. ChunksSound' /\ StatusMatchesChunks'
  BY <1>2, FinalizedRow DEF ChunksSound, StatusMatchesChunks
<1>9. ASSUME NEW u \in Threads PROVE ThreadSound(u)'
  <2>1. CASE u = t
    BY <1>1, <1>2, <1>3, <1>5, <2>1 DEF ThreadSound, None
  <2>2. CASE u # t
    BY <1>2, <1>3, <2>2 DEF ThreadSound
  <2> QED
    BY <2>1, <2>2
<1>10. ParsingIsHeld'
  BY <1>6 DEF ParsingIsHeld
<1>11. JobHasChunks'
  <2> SUFFICES ASSUME thread'[Worker].step = "reviewing"
               PROVE  row'.chunks # None
    BY DEF JobHasChunks
  <2>1. CASE t = Worker
    BY <1>1, <1>3, <2>1, FinalizedRow
  <2>2. CASE t # Worker
    <3>1. thread[Worker].step = "reviewing"
      BY <1>3, <2>2 DEF Threads
    <3> QED
      BY <3>1, FinalizedRow DEF JobHasChunks
  <2> QED
    BY <2>1, <2>2
<1> QED
  BY <1>4, <1>7, <1>8, <1>9, <1>10, <1>11

\* Time and crashes.
LEMMA OutsideStep ==
    ASSUME ParseInv, LeaseExpires \/ Crash
    PROVE  ParseInv'
<1> USE DEF ParseInv
<1>1. CASE LeaseExpires
  <2>1. /\ row' \in Rows /\ row'.status = row.status /\ row'.token = row.token
        /\ row'.chunks = row.chunks /\ row'.complete = row.complete
    BY <1>1 DEF LeaseExpires, TypeOK, Rows
  <2>2. UNCHANGED <<file, thread, claims, faults, broken>>
    BY <1>1 DEF LeaseExpires
  <2>3. TypeOK'
    BY <2>1, <2>2 DEF TypeOK
  <2>4. TokenSound' /\ ChunksSound' /\ StatusMatchesChunks'
    BY <2>1, <2>2 DEF TokenSound, ChunksSound, StatusMatchesChunks
  <2>5. (\A t \in Threads : ThreadSound(t))'
    BY <2>2 DEF ThreadSound
  <2>6. ParsingIsHeld' /\ JobHasChunks'
    BY <2>1, <2>2 DEF ParsingIsHeld, JobHasChunks
  <2> QED
    BY <2>3, <2>4, <2>5, <2>6
<1>2. CASE Crash
  <2>1. /\ UNCHANGED <<row, file, claims>> /\ faults' = faults + 1
        /\ broken \subseteq broken' /\ broken' \subseteq Nat
        /\ \A t \in Threads : thread[t].token \in broken' \cup {None}
    BY <1>2 DEF Crash, Fault, TypeOK
  <2>2. Idle \in [step : Steps, token : Nat, outcome : Outcomes]
    BY DEF Idle, Steps, Outcomes, None
  <2>3. \A t \in Threads : thread'[t] = Idle
    BY <1>2 DEF Crash
  <2>4. TypeOK'
    BY <1>2, <2>1, <2>2 DEF TypeOK, Crash
  <2>5. TokenSound' /\ ChunksSound' /\ StatusMatchesChunks'
    BY <2>1 DEF TokenSound, ChunksSound, StatusMatchesChunks
  <2>6. (\A t \in Threads : ThreadSound(t))'
    BY <2>1, <2>3 DEF ThreadSound, Idle, None, TypeOK
  <2>7. ParsingIsHeld'
    BY <2>1 DEF ParsingIsHeld, TokenSound
  <2>8. ParsingIsHeld' /\ JobHasChunks'
    BY <2>3, <2>7 DEF JobHasChunks, Threads, Idle
  <2> QED
    BY <2>4, <2>5, <2>6, <2>8
<1> QED
  BY <1>1, <1>2

\* Every step keeps the invariant.
LEMMA ParseStep == ParseInv /\ [Next]_vars => ParseInv'
<1> SUFFICES ASSUME ParseInv, [Next]_vars PROVE ParseInv'
  OBVIOUS
<1>1. ASSUME NEW t \in Threads, ThreadStep(t) \/ DatabaseError(t)
      PROVE  ParseInv'
  BY <1>1, ReadStep, ClaimStep, FinalizeStep DEF ThreadStep, AttemptStep
<1>2. CASE LeaseExpires \/ Crash
  BY <1>2, OutsideStep
<1>3. CASE UNCHANGED vars
  BY <1>3 DEF vars, ParseInv, TypeOK, TokenSound, ChunksSound, ThreadSound,
     StatusMatchesChunks, ParsingIsHeld, JobHasChunks
<1> QED
  BY <1>1, <1>2, <1>3 DEF Next

\* The inductive invariant holds in every reachable state.
THEOREM ParseInvariant == Spec => []ParseInv
BY ParseInit, ParseStep, PTL DEF Spec

-----------------------------------------------------------------------------
\* Type correctness.
THEOREM ParseTypeOK == Spec => []TypeOK
<1>1. ParseInv => TypeOK
  BY DEF ParseInv
<1> QED
  BY <1>1, ParseInvariant, PTL

\* Outside an attempt the status tells the truth about the chunks.
THEOREM ParseStatusMatchesChunks == Spec => []StatusMatchesChunks
<1>1. ParseInv => StatusMatchesChunks
  BY DEF ParseInv
<1> QED
  BY <1>1, ParseInvariant, PTL

\* A version that is being parsed has a thread that parses it, or a fault took
\* its attempt.
THEOREM ParseParsingIsHeld == Spec => []ParsingIsHeld
<1>1. ParseInv => ParsingIsHeld
  BY DEF ParseInv
<1> QED
  BY <1>1, ParseInvariant, PTL

\* A review job finds the chunks of the version it was let through with.
THEOREM ParseJobHasChunks == Spec => []JobHasChunks
<1>1. ParseInv => JobHasChunks
  BY DEF ParseInv
<1> QED
  BY <1>1, ParseInvariant, PTL

\* Only the end of an attempt changes the chunks, or ends "parsing".
LEMMA OthersLeaveVersion ==
    ASSUME ParseInv, [Next]_vars, \A t \in Threads : ~ Finalize(t)
    PROVE  /\ row'.chunks = row.chunks
           /\ row.status = "parsing" => row'.status = "parsing"
<1>1. row \in Rows /\ claims \in Nat
  BY DEF ParseInv, TypeOK
<1>2. ASSUME NEW t \in Threads, Claim(t)
      PROVE  row'.chunks = row.chunks /\ row'.status = "parsing"
  BY <1>1, <1>2, ClaimedFields DEF Claim
<1>3. CASE LeaseExpires
  BY <1>1, <1>3 DEF LeaseExpires, Rows
<1>4. CASE Crash \/ UNCHANGED vars
  BY <1>4 DEF Crash, vars
<1>5. ASSUME NEW t \in Threads,
             \/ LookUp(t) \/ JobReads(t) \/ ParseEnds(t) \/ Overtaken(t)
             \/ Recheck(t) \/ JobEnds(t) \/ DatabaseError(t)
      PROVE  row' = row
  BY <1>5 DEF LookUp, JobReads, ParseEnds, Overtaken, Recheck, JobEnds,
     DatabaseError
<1> QED
  BY <1>2, <1>3, <1>4, <1>5 DEF Next, ThreadStep, AttemptStep

\* A late older parse never replaces the result of a newer one.
THEOREM ParseNewestWins == Spec => NewestWins
<1> DEFINE Step == /\ row'.chunks # row.chunks => row'.chunks > row.chunks
                   /\ (row.status = "parsing" /\ row'.status # "parsing")
                        => \E t \in Threads : thread[t].token = claims
<1>1. ASSUME ParseInv, [Next]_vars PROVE Step
  <2>1. row.chunks \in Nat /\ claims \in Nat
    BY <1>1 DEF ParseInv, TypeOK, Rows
  <2>2. ASSUME NEW t \in Threads, Finalize(t) PROVE Step
    BY <1>1, <2>1, <2>2, FinalizedRow
  <2>3. CASE \A t \in Threads : ~ Finalize(t)
    BY <1>1, <2>3, OthersLeaveVersion
  <2> QED
    BY <2>2, <2>3
<1>2. ParseInv /\ [Next]_vars => [Step]_vars
  BY <1>1
<1> QED
  BY <1>2, ParseInvariant, PTL DEF Spec, NewestWins

\* Once a version has chunks it has chunks for good.
THEOREM ParseSnapshotKept == Spec => SnapshotKept
<1> DEFINE Step == row.chunks # None => row'.chunks # None
<1>1. ASSUME ParseInv, [Next]_vars PROVE Step
  <2>1. ASSUME NEW t \in Threads, Finalize(t) PROVE Step
    BY <1>1, <2>1, FinalizedRow
  <2>2. CASE \A t \in Threads : ~ Finalize(t)
    BY <1>1, <2>2, OthersLeaveVersion
  <2> QED
    BY <2>1, <2>2
<1>2. ParseInv /\ [Next]_vars => [Step]_vars
  BY <1>1
<1> QED
  BY <1>2, ParseInvariant, PTL DEF Spec, SnapshotKept

=============================================================================
