---------------------------- MODULE EvidenceSearch ----------------------------
(***************************************************************************)
(* The retrieval of evidence by the review agent: search_chunks            *)
(* (documents/search.py) streams the chunks of the versions a review may   *)
(* read and keeps the best in a heap of limited size; the agent cites what *)
(* it has found and the toolbox checks the citation (agents/tools.py).     *)
(*                                                                         *)
(* A chunk is known by its version, its page or section, and its number    *)
(* there; its row id follows the order in which versions were parsed last. *)
(***************************************************************************)
EXTENDS DocumentCoverage

CONSTANTS
    Versions,       \* ids of document versions
    Owned,          \* those of the project
    Libraries,      \* what the versions may be: a set of functions on Versions
    MaxLimit,       \* _MAX_SEARCH_LIMIT
    MaxScore        \* the terms of a query

ASSUME SearchAssumption ==
    /\ Versions \subseteq Nat /\ IsFiniteSet(Versions)
    /\ Owned \subseteq Versions
    /\ Libraries \subseteq [Versions -> Documents]
    /\ MaxLimit \in Nat /\ MaxScore \in Nat

VARIABLES
    docs,       \* by version: the document
    turn,       \* by version: when it was parsed last, 0 for never
    search,     \* the search: its stage, its limit, its scope
    score,      \* by chunk in the scope: the query terms found in it
    unread,     \* rows of the statement not read yet
    best,       \* the heap
    result      \* what the agent is given, in order

vars == <<docs, turn, search, score, unread, best, result>>

NoSearch == [stage |-> "idle", limit |-> 0, scope |-> {}]
Stages == {"idle", "reading", "answered", "refused"}

\* A chunk as search_chunks sees it.
RowsOf(v) ==
    {[version |-> v, place |-> x.place, piece |-> x.piece] : x \in ChunksOf(docs[v])}
RowType == [version : Versions, place : Nat, piece : Nat]

Status(v) == IF turn[v] = 0 THEN "pending" ELSE StatusOf(docs[v])
Searchable(v) == Status(v) \in {"parsed", "partial_failure"}

\* _search_statement
Rows(scope) == UNION {RowsOf(v) : v \in {w \in scope : Searchable(w)}}

\* Chunks in the order of chunk_index, in a version.
Earlier(a, b) == a.place < b.place \/ (a.place = b.place /\ a.piece < b.piece)

-----------------------------------------------------------------------------
(* Mutated forms of the definitions below, each a plausible slip.          *)

NewVersionsFirst(a, b) ==
    \/ score[a] < score[b]
    \/ score[a] = score[b] /\ a.version < b.version
    \/ score[a] = score[b] /\ a.version = b.version /\ Earlier(b, a)

-----------------------------------------------------------------------------
\* A limit out of range and a scope with another project's version are refused.
Valid(scope, limit) == limit \in 1 .. MaxLimit /\ scope \subseteq Owned

\* The rank in the heap: score, then the negated version and chunk_index.
Below(a, b) ==
    \/ score[a] < score[b]
    \/ score[a] = score[b] /\ b.version < a.version
    \/ score[a] = score[b] /\ a.version = b.version /\ Earlier(b, a)

\* The key of the final sort: the negated score, then version and chunk_index.
Precedes(a, b) ==
    \/ score[b] < score[a]
    \/ score[a] = score[b] /\ a.version < b.version
    \/ score[a] = score[b] /\ a.version = b.version /\ Earlier(a, b)

\* best[0]
Root == CHOOSE x \in best : \A y \in best \ {x} : Below(x, y)

\* heappush, heapreplace or nothing.
Kept(row) ==
    IF Cardinality(best) < search.limit THEN best \cup {row}
    ELSE IF Below(Root, row) THEN (best \ {Root}) \cup {row} ELSE best

Sorted(S) ==
    CHOOSE s \in [1 .. Cardinality(S) -> S] :
        \A i, j \in 1 .. Cardinality(S) : i < j => Precedes(s[i], s[j])

\* The statement's order: by row id.
NextRow(a) ==
    \A b \in unread \ {a} :
        \/ turn[a.version] < turn[b.version]
        \/ a.version = b.version /\ Earlier(a, b)

\* _coverage_complete, of the version a chunk is of.
Flag(v) == turn[v] # 0 /\ Complete(Status(v), Coverage(docs[v]))

\* A citation of a chunk by its page and its section path, with its text as
\* the quote: _validate_evidence_citation finds the quote at that place, but
\* demands a place.
Page(row) == IF docs[row.version].kind = "pdf" THEN row.place ELSE NoPlace
Path(row) ==
    IF docs[row.version].kind = "pdf" THEN NoPlace
    ELSE PathOf(docs[row.version], row.place)
Accepted(row) ==
    /\ row.version \in search.scope
    /\ Searchable(row.version)
    /\ Page(row) # NoPlace \/ Path(row) # NoPlace

-----------------------------------------------------------------------------
\* search_proposal_evidence; an empty scope has no rows.
Ask(scope, limit) ==
    /\ search.stage \in {"idle", "refused"}
    /\ IF Valid(scope, limit)
       THEN /\ search' = [stage |-> "reading", limit |-> limit, scope |-> scope]
            /\ unread' = Rows(scope)
            /\ score' \in [Rows(scope) -> 0 .. MaxScore]
       ELSE /\ search' = [NoSearch EXCEPT !.stage = "refused"]
            /\ UNCHANGED <<unread, score>>
    /\ UNCHANGED <<docs, turn, best, result>>

\* One row of the stream; a chunk without any term is passed over.
ReadRow(row) ==
    /\ row \in unread
    /\ NextRow(row)
    /\ best' = IF score[row] = 0 THEN best ELSE Kept(row)
    /\ unread' = unread \ {row}
    /\ UNCHANGED <<docs, turn, search, score, result>>

Answer ==
    /\ search.stage = "reading"
    /\ unread = {}
    /\ result' = Sorted(best)
    /\ search' = [search EXCEPT !.stage = "answered"]
    /\ UNCHANGED <<docs, turn, score, unread, best>>

\* The project's versions are parsed, and parsed again, in any order.
Turns ==
    {f \in [Versions -> 0 .. Cardinality(Owned)] :
        \A v, w \in Versions :
            /\ v \notin Owned => f[v] = 0
            /\ v # w /\ f[v] = f[w] => f[v] = 0}

Init ==
    /\ docs \in Libraries
    /\ turn \in Turns
    /\ search = NoSearch
    /\ score = [r \in {} |-> 0]
    /\ unread = {}
    /\ best = {}
    /\ result = <<>>

Next ==
    \/ \E scope \in SUBSET Versions, limit \in 0 .. MaxLimit + 1 : Ask(scope, limit)
    \/ \E row \in unread : ReadRow(row)
    \/ Answer

Spec == Init /\ [][Next]_vars

-----------------------------------------------------------------------------
(* Properties.                                                             *)

\* Every variable has its type.
TypeOK ==
    /\ docs \in [Versions -> Documents]
    /\ turn \in [Versions -> Nat]
    /\ search \in [stage : Stages, limit : 0 .. MaxLimit, scope : SUBSET Owned]
    /\ DOMAIN score \subseteq RowType
    /\ \A r \in DOMAIN score : score[r] \in 0 .. MaxScore
    /\ unread \subseteq DOMAIN score
    /\ best \subseteq DOMAIN score
    /\ result \in Seq(RowType)

Found == {r \in DOMAIN score \ unread : score[r] > 0}

\* In the middle of the stream the heap holds the best of what has been read,
\* as many as it may, whatever the order of the rows.
BestIsTop ==
    /\ best \subseteq Found
    /\ Cardinality(best) <= search.limit
    /\ Cardinality(best) < search.limit => best = Found
    /\ \A a \in best, b \in Found \ best : Precedes(a, b)

\* What the agent is given is the beginning of the sorted list of all chunks
\* that match, as if nothing had been cut off on the way.
ResultIsExact ==
    search.stage = "answered" =>
        LET Given == {result[i] : i \in DOMAIN result}
            Before(r) == {x \in DOMAIN score : score[x] > 0 /\ Precedes(x, r)}
        IN  /\ \A i \in DOMAIN result : Cardinality(Before(result[i])) = i - 1
            /\ \A r \in DOMAIN score :
                score[r] > 0 /\ Cardinality(Before(r)) < search.limit => r \in Given

\* What the report calls parsed is in the chunks to the last character, and a
\* version that is said to be covered completely has nothing outside them.
ReportIsTrue ==
    \A v \in Versions :
        /\ ParsedIsInChunks(docs[v])
        /\ Flag(v) => Whole(docs[v])

\* The status the parser's report gave a version and the judgement of the same
\* report when it is searched agree.
FlagAgreesWithStatus == \A v \in Versions : Flag(v) <=> Status(v) = "parsed"

\* docs/development-diary.md, 201: every piece of text has an address.  So what
\* a search has found can be cited.
FoundIsCitable ==
    search.stage = "answered" => \A i \in DOMAIN result : Accepted(result[i])

=============================================================================
