------------------------ MODULE EvidenceSearch_proofs ------------------------
(***************************************************************************)
(* Proofs about the search, for any documents, number of versions, limit   *)
(* and query.  A heap's root exists because a finite set has a minimum,    *)
(* which follows from the well-foundedness of strict inclusion.            *)
(***************************************************************************)
EXTENDS EvidenceSearch, FiniteSetTheorems, WellFoundedInduction, TLAPS

\* Chunks with a score: what the order is defined on.
Scored ==
    /\ DOMAIN score \subseteq RowType
    /\ \A r \in DOMAIN score : score[r] \in 0 .. MaxScore

-----------------------------------------------------------------------------
\* The chunks of a document are places and pieces that are numbers.

LEMMA PiecesAreNat ==
    ASSUME NEW n \in Nat
    PROVE  PieceNumbers(n) \subseteq Nat /\ IsFiniteSet(PieceNumbers(n))
<1>1. IsFiniteSet(0 .. n)
    BY FS_Interval
<1>2. PieceNumbers(n) \subseteq 0 .. n
    BY DEF PieceNumbers
<1> QED
    BY <1>1, <1>2, FS_Subset

LEMMA CountedPartsAreNat ==
    ASSUME NEW d \in Documents, NEW S \in SUBSET DOMAIN d.parts
    PROVE  IsFiniteSet(S) /\ Cardinality(S) \in Nat
<1>1. PICK n \in Nat : DOMAIN d.parts = 1 .. n
    BY DEF Documents
<1>2. IsFiniteSet(1 .. n)
    BY FS_Interval
<1> QED
    BY <1>1, <1>2, FS_Subset, FS_CardinalityType

LEMMA SectionsAreNat ==
    ASSUME NEW d \in Documents, d.kind = "docx"
    PROVE  /\ Sections(d) \in Nat
           /\ \A s : TextIn(d, s) \in Nat
<1>1. Sections(d) \in Nat
    BY CountedPartsAreNat DEF Sections
<1>2. ASSUME NEW s PROVE TextIn(d, s) \in Nat
    BY CountedPartsAreNat DEF TextIn
<1> QED
    BY <1>1, <1>2

LEMMA ChunksAreTyped ==
    ASSUME NEW d \in Documents
    PROVE  ChunksOf(d) \subseteq [place : Nat, piece : Nat]
<1>1. CASE d.kind = "pdf"
    <2>1. d.parts \in Seq(Pages)
        BY <1>1 DEF Documents
    <2>2. ASSUME NEW i \in PagesOf(d, "parsed")
          PROVE  i \in Nat /\ d.parts[i].visible \in Nat
        <3>1. i \in DOMAIN d.parts
            BY <2>2 DEF PagesOf
        <3>2. i \in 1 .. Len(d.parts) /\ d.parts[i] \in Pages
            BY <2>1, <3>1
        <3> QED
            BY <2>1, <3>2 DEF Pages
    <2>3. ASSUME NEW i \in PagesOf(d, "parsed"), NEW k \in PieceNumbers(d.parts[i].visible)
          PROVE  [place |-> i, piece |-> k] \in [place : Nat, piece : Nat]
        BY <2>2, PiecesAreNat
    <2> QED
        BY <1>1, <2>3 DEF ChunksOf, PdfChunks
<1>2. CASE d.kind = "docx"
    <2>1. ASSUME NEW s \in 1 .. Sections(d), NEW k \in PieceNumbers(TextIn(d, s))
          PROVE  [place |-> s, piece |-> k] \in [place : Nat, piece : Nat]
        BY <1>2, SectionsAreNat, PiecesAreNat
    <2> QED
        BY <1>2, <2>1 DEF ChunksOf, DocxChunks
<1> QED
    BY <1>1, <1>2 DEF Documents

LEMMA RowsAreTyped ==
    ASSUME docs \in [Versions -> Documents], NEW scope \in SUBSET Versions
    PROVE  Rows(scope) \subseteq RowType
<1>1. ASSUME NEW v \in scope PROVE RowsOf(v) \subseteq RowType
    <2>1. ChunksOf(docs[v]) \subseteq [place : Nat, piece : Nat]
        BY ChunksAreTyped
    <2> QED
        BY <2>1 DEF RowsOf, RowType
<1> QED
    BY <1>1 DEF Rows

-----------------------------------------------------------------------------
\* Finitely many versions have finitely many chunks.

LEMMA ImageIsFinite ==
    ASSUME NEW S, IsFiniteSet(S), NEW f, f = [x \in S |-> f[x]]
    PROVE  IsFiniteSet(Range(f))
<1>1. f \in Surjection(S, Range(f))
    BY DEF Surjection, Range
<1> QED
    BY <1>1, FS_Surjection

LEMMA UnionOfImageIsFinite ==
    ASSUME NEW S, IsFiniteSet(S), NEW f, f = [x \in S |-> f[x]],
           \A x \in S : IsFiniteSet(f[x])
    PROVE  IsFiniteSet(UNION Range(f))
<1>1. IsFiniteSet(Range(f))
    BY ImageIsFinite
<1>2. \A U \in Range(f) : IsFiniteSet(U)
    BY DEF Range
<1> QED
    BY <1>1, <1>2, FS_UNION

Pieces(i, n) == {[place |-> i, piece |-> k] : k \in PieceNumbers(n)}

LEMMA PiecesAreFinite ==
    ASSUME NEW i, NEW n \in Nat
    PROVE  IsFiniteSet(Pieces(i, n))
<1> DEFINE f == [k \in PieceNumbers(n) |-> [place |-> i, piece |-> k]]
<1>1. f = [k \in PieceNumbers(n) |-> f[k]]
    OBVIOUS
<1>2. IsFiniteSet(PieceNumbers(n))
    BY PiecesAreNat
<1>3. IsFiniteSet(Range(f))
    <2> HIDE DEF f
    <2> QED
        BY <1>1, <1>2, ImageIsFinite
<1>4. Range(f) = Pieces(i, n)
    BY DEF Pieces, Range
<1> QED
    BY <1>3, <1>4

AllPieces(S, g) == UNION {Pieces(i, g[i]) : i \in S}

LEMMA PlacesAreFinite ==
    ASSUME NEW S, IsFiniteSet(S), NEW g \in [S -> Nat]
    PROVE  IsFiniteSet(AllPieces(S, g))
<1> DEFINE f == [i \in S |-> Pieces(i, g[i])]
<1>1. f = [i \in S |-> f[i]]
    OBVIOUS
<1>2. \A i \in S : IsFiniteSet(f[i])
    BY PiecesAreFinite
<1>3. IsFiniteSet(UNION Range(f))
    <2> HIDE DEF f
    <2> QED
        BY <1>1, <1>2, UnionOfImageIsFinite
<1>4. Range(f) = {Pieces(i, g[i]) : i \in S}
    BY DEF Range
<1> QED
    BY <1>3, <1>4 DEF AllPieces

LEMMA ChunksAreFinite ==
    ASSUME NEW d \in Documents
    PROVE  IsFiniteSet(ChunksOf(d))
<1>1. CASE d.kind = "pdf"
    <2> DEFINE g == [i \in PagesOf(d, "parsed") |-> d.parts[i].visible]
    <2>1. d.parts \in Seq(Pages)
        BY <1>1 DEF Documents
    <2>2. ASSUME NEW i \in PagesOf(d, "parsed") PROVE d.parts[i].visible \in Nat
        <3>1. i \in DOMAIN d.parts
            BY <2>2 DEF PagesOf
        <3>2. i \in 1 .. Len(d.parts) /\ d.parts[i] \in Pages
            BY <2>1, <3>1
        <3> QED
            BY <3>2 DEF Pages
    <2>3. PagesOf(d, "parsed") \in SUBSET DOMAIN d.parts
        BY DEF PagesOf
    <2>4. IsFiniteSet(PagesOf(d, "parsed"))
        BY <2>3, CountedPartsAreNat
    <2>5. g \in [PagesOf(d, "parsed") -> Nat]
        BY <2>2
    <2>6. ChunksOf(d) = AllPieces(PagesOf(d, "parsed"), g)
        BY <1>1 DEF ChunksOf, PdfChunks, AllPieces, Pieces
    <2> HIDE DEF g
    <2> QED
        BY <2>4, <2>5, <2>6, PlacesAreFinite
<1>2. CASE d.kind = "docx"
    <2> DEFINE g == [s \in 1 .. Sections(d) |-> TextIn(d, s)]
    <2>1. Sections(d) \in Nat /\ \A s : TextIn(d, s) \in Nat
        BY <1>2, SectionsAreNat
    <2>2. IsFiniteSet(1 .. Sections(d))
        BY <2>1, FS_Interval
    <2>3. g \in [1 .. Sections(d) -> Nat]
        BY <2>1
    <2>4. ChunksOf(d) = AllPieces(1 .. Sections(d), g)
        BY <1>2 DEF ChunksOf, DocxChunks, AllPieces, Pieces
    <2> HIDE DEF g
    <2> QED
        BY <2>2, <2>3, <2>4, PlacesAreFinite
<1> QED
    BY <1>1, <1>2 DEF Documents

LEMMA RowsAreFinite ==
    ASSUME docs \in [Versions -> Documents], NEW scope \in SUBSET Versions
    PROVE  IsFiniteSet(Rows(scope))
<1> DEFINE V == {w \in scope : Searchable(w)}
<1> DEFINE f == [v \in V |-> RowsOf(v)]
<1>1. IsFiniteSet(V)
    BY SearchAssumption, FS_Subset
<1>2. ASSUME NEW v \in V PROVE IsFiniteSet(f[v])
    <2> DEFINE C == ChunksOf(docs[v])
    <2> DEFINE g == [x \in C |-> [version |-> v, place |-> x.place, piece |-> x.piece]]
    <2>1. IsFiniteSet(C)
        BY ChunksAreFinite
    <2>2. g = [x \in C |-> g[x]]
        OBVIOUS
    <2>3. IsFiniteSet(Range(g))
        <3> HIDE DEF g, C
        <3> QED
            BY <2>1, <2>2, ImageIsFinite
    <2>4. Range(g) = f[v]
        BY DEF RowsOf, Range
    <2> QED
        BY <2>3, <2>4
<1>3. f = [v \in V |-> f[v]]
    OBVIOUS
<1>4. IsFiniteSet(UNION Range(f))
    <2> HIDE DEF f, V
    <2> QED
        BY <1>1, <1>2, <1>3, UnionOfImageIsFinite
<1>5. Range(f) = {RowsOf(v) : v \in V}
    BY DEF Range
<1> QED
    BY <1>4, <1>5 DEF Rows

-----------------------------------------------------------------------------
\* The order of the heap is strict, total, and that of the final sort reversed.

LEMMA HeapOrder ==
    ASSUME Scored
    PROVE  /\ \A a, b \in DOMAIN score : Below(a, b) <=> Precedes(b, a)
           /\ \A a, b \in DOMAIN score : a = b \/ Below(a, b) \/ Below(b, a)
           /\ \A a, b \in DOMAIN score : ~ (Below(a, b) /\ Below(b, a))
           /\ \A a, b, c \in DOMAIN score : Below(a, b) /\ Below(b, c) => Below(a, c)
<1>1. \A a \in DOMAIN score :
        /\ a = [version |-> a.version, place |-> a.place, piece |-> a.piece]
        /\ a.version \in Nat /\ a.place \in Nat /\ a.piece \in Nat /\ score[a] \in Nat
    <2> SUFFICES ASSUME NEW a \in DOMAIN score
                 PROVE  /\ a = [version |-> a.version, place |-> a.place, piece |-> a.piece]
                        /\ a.version \in Nat /\ a.place \in Nat /\ a.piece \in Nat
                        /\ score[a] \in Nat
        OBVIOUS
    <2>1. a \in RowType /\ score[a] \in 0 .. MaxScore
        BY DEF Scored
    <2>2. a.version \in Versions /\ a.place \in Nat /\ a.piece \in Nat
        BY <2>1 DEF RowType
    <2>3. a = [version |-> a.version, place |-> a.place, piece |-> a.piece]
        BY <2>1 DEF RowType
    <2>4. a.version \in Nat
        BY <2>2, SearchAssumption
    <2>5. score[a] \in Nat
        BY <2>1, SearchAssumption
    <2> QED
        BY <2>2, <2>3, <2>4, <2>5
<1>2. \A a, b \in DOMAIN score : Below(a, b) <=> Precedes(b, a)
    BY <1>1 DEF Below, Precedes, Earlier
<1>3. \A a, b \in DOMAIN score : a = b \/ Below(a, b) \/ Below(b, a)
    BY <1>1 DEF Below, Earlier
<1>4. \A a, b \in DOMAIN score : ~ (Below(a, b) /\ Below(b, a))
    BY <1>1 DEF Below, Earlier
<1>5. \A a, b, c \in DOMAIN score : Below(a, b) /\ Below(b, c) => Below(a, c)
    BY <1>1 DEF Below, Earlier
<1> QED
    BY <1>2, <1>3, <1>4, <1>5

\* A heap that is not empty has a root.
LEMMA RootExists ==
    ASSUME Scored, NEW S \in SUBSET DOMAIN score, IsFiniteSet(S), S # {}
    PROVE  \E x \in S : \A y \in S \ {x} : Below(x, y)
<1> DEFINE Least(T) == \E x \in T : \A y \in T \ {x} : Below(x, y)
<1> DEFINE Bad == {T \in SUBSET S : T # {} /\ ~ Least(T)}
<1>1. IsWellFoundedOn(StrictSubsetOrdering(S), SUBSET S)
    BY FS_StrictSubsetOrderingWellFounded, FS_FiniteSubsetsOfFinite
<1>2. SUFFICES ASSUME Bad # {} PROVE FALSE
    BY DEF Bad
<1>3. PICK T \in Bad : \A U \in Bad : <<U, T>> \notin StrictSubsetOrdering(S)
    <2>1. Bad \subseteq SUBSET S
        OBVIOUS
    <2> HIDE DEF Bad
    <2> QED
        BY <1>1, <1>2, <2>1, WFMin
<1>4. PICK x \in T : TRUE
    OBVIOUS
<1>5. T \ {x} # {}
    BY <1>4
<1>6. <<T \ {x}, T>> \in StrictSubsetOrdering(S)
    BY <1>4 DEF StrictSubsetOrdering
<1>7. T \ {x} \notin Bad
    BY <1>3, <1>6
<1>8. PICK m \in T \ {x} : \A y \in (T \ {x}) \ {m} : Below(m, y)
    BY <1>5, <1>7
<1>9. \A a, b \in T : a = b \/ Below(a, b) \/ Below(b, a)
    BY HeapOrder
<1>10. \A a, b, c \in T : Below(a, b) /\ Below(b, c) => Below(a, c)
    BY HeapOrder
<1>11. CASE Below(x, m)
    <2>1. \A y \in T \ {x} : Below(x, y)
        BY <1>4, <1>8, <1>10, <1>11
    <2> QED
        BY <1>4, <2>1
<1>12. CASE Below(m, x)
    <2>1. \A y \in T \ {m} : Below(m, y)
        BY <1>8, <1>12
    <2> QED
        BY <1>8, <2>1
<1> QED
    BY <1>4, <1>8, <1>9, <1>11, <1>12

\* The root is below all others in the heap.
LEMMA RootIsLowest ==
    ASSUME Scored, best \subseteq DOMAIN score, IsFiniteSet(best), best # {}
    PROVE  Root \in best /\ \A y \in best \ {Root} : Below(Root, y)
<1>1. \E x \in best : \A y \in best \ {x} : Below(x, y)
    BY RootExists
<1> QED
    BY <1>1 DEF Root

\* A finite set of chunks can be sorted: the lowest goes to the end.
InOrder(s, n) == \A i, j \in 1 .. n : i < j => Precedes(s[i], s[j])
Sortable(S) == \E s \in [1 .. Cardinality(S) -> S] : InOrder(s, Cardinality(S))

LEMMA OneLess ==
    ASSUME NEW S, IsFiniteSet(S), NEW x \in S
    PROVE  /\ IsFiniteSet(S \ {x})
           /\ Cardinality(S \ {x}) \in Nat
           /\ Cardinality(S) = Cardinality(S \ {x}) + 1
<1>1. /\ IsFiniteSet(S \ {x})
      /\ Cardinality(S \ {x}) = IF x \in S THEN Cardinality(S) - 1 ELSE Cardinality(S)
    BY FS_RemoveElement, Zenon
<1>2. Cardinality(S) \in Nat
    BY FS_CardinalityType
<1>3. Cardinality(S \ {x}) \in Nat
    BY <1>1, FS_CardinalityType, Zenon
<1> QED
    BY <1>1, <1>2, <1>3

LEMMA AppendLowest ==
    ASSUME Scored, NEW S \in SUBSET DOMAIN score, IsFiniteSet(S),
           NEW x \in S, \A y \in S \ {x} : Below(x, y), Sortable(S \ {x})
    PROVE  Sortable(S)
<1> DEFINE n == Cardinality(S \ {x})
<1>1. n \in Nat /\ Cardinality(S) = n + 1
    BY OneLess
<1>2. PICK s \in [1 .. n -> S \ {x}] : InOrder(s, n)
    BY DEF Sortable
<1> DEFINE t == [i \in 1 .. n + 1 |-> IF i = n + 1 THEN x ELSE s[i]]
<1> HIDE DEF n
<1>3. t \in [1 .. n + 1 -> S]
    BY <1>1, <1>2
<1>4. ASSUME NEW i \in 1 .. n + 1, NEW j \in 1 .. n + 1, i < j
      PROVE  Precedes(t[i], t[j])
    <2>1. i \in 1 .. n /\ t[i] = s[i] /\ s[i] \in S \ {x}
        BY <1>1, <1>2, <1>4
    <2>2. CASE j = n + 1
        <3>1. Below(x, s[i]) /\ t[j] = x
            BY <2>1, <2>2
        <3> QED
            BY <2>1, <3>1, HeapOrder
    <2>3. CASE j # n + 1
        BY <1>1, <1>2, <1>4, <2>1, <2>3 DEF InOrder
    <2> QED
        BY <2>2, <2>3
<1>5. InOrder(t, n + 1)
    BY <1>4 DEF InOrder
<1> QED
    BY <1>1, <1>3, <1>5 DEF Sortable

LEMMA AllSortable ==
    ASSUME Scored, NEW S \in SUBSET DOMAIN score, IsFiniteSet(S)
    PROVE  Sortable(S)
<1> DEFINE Bad == {T \in SUBSET S : ~ Sortable(T)}
<1>1. IsWellFoundedOn(StrictSubsetOrdering(S), SUBSET S)
    BY FS_StrictSubsetOrderingWellFounded, FS_FiniteSubsetsOfFinite
<1>2. SUFFICES ASSUME Bad # {} PROVE FALSE
    BY DEF Bad
<1>3. PICK T \in Bad : \A U \in Bad : <<U, T>> \notin StrictSubsetOrdering(S)
    <2>1. Bad \subseteq SUBSET S
        OBVIOUS
    <2> HIDE DEF Bad
    <2> QED
        BY <1>1, <1>2, <2>1, WFMin
<1>4. IsFiniteSet(T) /\ T \subseteq DOMAIN score /\ ~ Sortable(T)
    BY <1>3, FS_Subset
<1>5. CASE T = {}
    <2>1. Cardinality(T) = 0
        BY <1>5, FS_EmptySet
    <2>2. [i \in 1 .. 0 |-> 0] \in [1 .. 0 -> T] /\ InOrder([i \in 1 .. 0 |-> 0], 0)
        BY DEF InOrder
    <2> QED
        BY <1>4, <2>1, <2>2 DEF Sortable
<1>6. CASE T # {}
    <2>1. PICK x \in T : \A y \in T \ {x} : Below(x, y)
        BY <1>4, <1>6, RootExists
    <2>2. <<T \ {x}, T>> \in StrictSubsetOrdering(S)
        BY <2>1 DEF StrictSubsetOrdering
    <2>3. Sortable(T \ {x})
        BY <1>3, <2>2
    <2> QED
        BY <1>4, <2>1, <2>3, AppendLowest
<1> QED
    BY <1>5, <1>6

LEMMA SortedIsSorted ==
    ASSUME Scored, NEW S \in SUBSET DOMAIN score, IsFiniteSet(S)
    PROVE  /\ Sorted(S) \in [1 .. Cardinality(S) -> S]
           /\ InOrder(Sorted(S), Cardinality(S))
BY AllSortable DEF Sorted, Sortable, InOrder

-----------------------------------------------------------------------------
\* The heap after a row with a score, when it held the best of the rows before.

SearchInv ==
    /\ TypeOK
    /\ IsFiniteSet(best)
    /\ search.stage # "reading" => unread = {}
    /\ search.stage = "reading" => search.limit >= 1
    /\ search.stage \in {"idle", "refused"} => best = {}
    /\ BestIsTop
    /\ IsFiniteSet(DOMAIN score)
    /\ search.stage = "answered" => result = Sorted(best)

TopOf(B, F) ==
    /\ B \subseteq F
    /\ IsFiniteSet(B)
    /\ Cardinality(B) <= search.limit
    /\ Cardinality(B) < search.limit => B = F
    /\ \A a \in B, b \in F \ B : Precedes(a, b)

LEMMA SpaceLeft ==
    ASSUME SearchInv, NEW row \in unread, score[row] > 0,
           Cardinality(best) < search.limit
    PROVE  TopOf(best \cup {row}, Found \cup {row})
<1>1. best = Found /\ IsFiniteSet(best) /\ search.limit \in Nat
    BY SearchAssumption DEF SearchInv, BestIsTop, TypeOK
<1>2. row \notin best
    BY <1>1 DEF Found
<1>3. /\ IsFiniteSet(best \cup {row})
      /\ Cardinality(best \cup {row}) = Cardinality(best) + 1
    BY <1>1, <1>2, FS_AddElement, Zenon
<1>4. Cardinality(best) \in Nat
    BY <1>1, FS_CardinalityType
<1>5. Cardinality(best \cup {row}) <= search.limit
    BY <1>1, <1>3, <1>4
<1> QED
    BY <1>1, <1>3, <1>5 DEF TopOf

LEMMA NoSpaceLeft ==
    ASSUME SearchInv, search.stage = "reading", NEW row \in unread, score[row] > 0,
           ~ Cardinality(best) < search.limit
    PROVE  TopOf(IF Below(Root, row) THEN (best \ {Root}) \cup {row} ELSE best,
                 Found \cup {row})
<1>1. /\ IsFiniteSet(best) /\ best \subseteq Found /\ Cardinality(best) <= search.limit
      /\ search.limit \in Nat /\ search.limit >= 1
      /\ \A a \in best, b \in Found \ best : Precedes(a, b)
    BY SearchAssumption DEF SearchInv, BestIsTop, TypeOK
<1>2. /\ Scored /\ Found \cup {row} \subseteq DOMAIN score
      /\ best \subseteq DOMAIN score /\ row \notin Found
    BY DEF SearchInv, TypeOK, Scored, Found
<1>3. Cardinality(best) \in Nat /\ Cardinality(best) = search.limit
    BY <1>1, FS_CardinalityType
<1>4. best # {}
    BY <1>1, <1>3, FS_EmptySet
<1>5. Root \in best /\ \A y \in best \ {Root} : Below(Root, y)
    BY <1>1, <1>2, <1>4, RootIsLowest
<1>6. CASE Below(Root, row)
    <2> DEFINE B == (best \ {Root}) \cup {row}
    <2>1. /\ IsFiniteSet(best \ {Root}) /\ row \notin best \ {Root}
          /\ Cardinality(best \ {Root}) \in Nat
          /\ Cardinality(best) = Cardinality(best \ {Root}) + 1
        BY <1>1, <1>2, <1>5, OneLess
    <2>2. /\ IsFiniteSet(B)
          /\ Cardinality(B) = Cardinality(best \ {Root}) + 1
        BY <2>1, FS_AddElement, Zenon
    <2>3. Cardinality(B) = search.limit
        BY <1>3, <2>1, <2>2
    <2>4. ASSUME NEW a \in B, NEW b \in (Found \cup {row}) \ B PROVE Precedes(a, b)
        <3>1. b = Root \/ b \in Found \ best
            BY <2>4
        <3>2. Below(Root, a)
            BY <1>5, <1>6, <2>4
        <3>3. CASE b = Root
            BY <1>1, <1>2, <1>5, <2>4, <3>2, <3>3, HeapOrder
        <3>4. CASE b \in Found \ best
            <4>1. Below(b, Root)
                BY <1>1, <1>2, <1>5, <3>4, HeapOrder
            <4>2. Below(b, a)
                BY <1>1, <1>2, <1>5, <2>4, <3>2, <3>4, <4>1, HeapOrder
            <4> QED
                BY <1>1, <1>2, <2>4, <3>4, <4>2, HeapOrder
        <3> QED
            BY <3>1, <3>3, <3>4
    <2>5. B \subseteq Found \cup {row}
        BY <1>1
    <2> HIDE DEF B
    <2>6. TopOf(B, Found \cup {row})
        BY <1>3, <2>2, <2>3, <2>4, <2>5 DEF TopOf
    <2> QED
        BY <1>6, <2>6 DEF B
<1>7. CASE ~ Below(Root, row)
    <2>1. Below(row, Root)
        BY <1>2, <1>5, <1>7, HeapOrder, <1>1
    <2>2. ASSUME NEW a \in best PROVE Precedes(a, row)
        BY <1>1, <1>2, <1>5, <2>1, <2>2, HeapOrder
    <2>3. TopOf(best, Found \cup {row})
        BY <1>1, <1>3, <2>2 DEF TopOf
    <2> QED
        BY <1>7, <2>3
<1> QED
    BY <1>6, <1>7

LEMMA KeptIsTop ==
    ASSUME SearchInv, search.stage = "reading", NEW row \in unread, score[row] > 0
    PROVE  TopOf(Kept(row), Found \cup {row})
BY SpaceLeft, NoSpaceLeft DEF Kept

-----------------------------------------------------------------------------
(* The invariant.                                                          *)

LEMMA SearchInit == Init => SearchInv
<1> SUFFICES ASSUME Init PROVE SearchInv
    OBVIOUS
<1>1. TypeOK
    <2>1. docs \in [Versions -> Documents]
        BY SearchAssumption DEF Init
    <2>2. turn \in [Versions -> Nat]
        <3>1. IsFiniteSet(Owned)
            BY SearchAssumption, FS_Subset
        <3>2. Cardinality(Owned) \in Nat
            BY <3>1, FS_CardinalityType
        <3> QED
            BY <3>2 DEF Init, Turns
    <2>3. search \in [stage : Stages, limit : 0 .. MaxLimit, scope : SUBSET Owned]
        BY SearchAssumption DEF Init, NoSearch, Stages
    <2>4. DOMAIN score = {} /\ unread = {} /\ best = {} /\ result = <<>>
        BY DEF Init
    <2> QED
        BY <2>1, <2>2, <2>3, <2>4 DEF TypeOK
<1>2. BestIsTop /\ IsFiniteSet(best) /\ unread = {} /\ best = {} /\ search.stage = "idle"
    BY FS_EmptySet DEF Init, BestIsTop, Found, NoSearch
<1>3. IsFiniteSet(DOMAIN score)
    <2>1. DOMAIN score = {}
        BY DEF Init
    <2> QED
        BY <2>1, FS_EmptySet
<1> QED
    BY <1>1, <1>2, <1>3 DEF SearchInv

LEMMA AskKeeps ==
    ASSUME SearchInv, NEW scope, NEW limit, Ask(scope, limit)
    PROVE  SearchInv'
<1>1. /\ TypeOK /\ best = {} /\ unread = {} /\ best' = best /\ docs' = docs /\ turn' = turn
      /\ result' = result
    BY DEF SearchInv, Ask
<1>2. CASE Valid(scope, limit)
    <2>1. /\ search' = [stage |-> "reading", limit |-> limit, scope |-> scope]
          /\ unread' = Rows(scope)
          /\ score' \in [Rows(scope) -> 0 .. MaxScore]
        BY <1>2 DEF Ask
    <2>2. Rows(scope) \subseteq RowType
        <3>1. scope \in SUBSET Versions /\ docs \in [Versions -> Documents]
            BY <1>1, <1>2, SearchAssumption DEF Valid, TypeOK
        <3> QED
            BY <3>1, RowsAreTyped
    <2>3. search' \in [stage : Stages, limit : 0 .. MaxLimit, scope : SUBSET Owned]
        BY <1>2, <2>1, SearchAssumption DEF Valid, Stages
    <2>4. search'.stage = "reading" /\ search'.limit >= 1 /\ search'.limit \in Nat
        BY <1>2, <2>1, SearchAssumption DEF Valid
    <2>5. TypeOK'
        BY <1>1, <2>1, <2>2, <2>3 DEF TypeOK
    <2>6. Found' = {}
        BY <2>1 DEF Found
    <2>7. BestIsTop'
        BY <1>1, <2>4, <2>6, FS_EmptySet DEF BestIsTop
    <2>8. IsFiniteSet(DOMAIN score')
        <3>1. scope \in SUBSET Versions /\ docs \in [Versions -> Documents]
            BY <1>1, <1>2, SearchAssumption DEF Valid, TypeOK
        <3> QED
            BY <2>1, <3>1, RowsAreFinite
    <2> QED
        BY <1>1, <2>4, <2>5, <2>7, <2>8, FS_EmptySet DEF SearchInv
<1>3. CASE ~ Valid(scope, limit)
    <2>1. /\ search' = [NoSearch EXCEPT !.stage = "refused"]
          /\ unread' = unread /\ score' = score
        BY <1>3 DEF Ask
    <2>2. search' = [stage |-> "refused", limit |-> 0, scope |-> {}]
        BY <2>1 DEF NoSearch
    <2>3. search' \in [stage : Stages, limit : 0 .. MaxLimit, scope : SUBSET Owned]
        BY <2>2, SearchAssumption DEF Stages
    <2>4. search'.stage = "refused" /\ search'.limit = 0
        BY <2>2
    <2>5. TypeOK'
        BY <1>1, <2>1, <2>3 DEF TypeOK
    <2>6. BestIsTop'
        BY <1>1, <2>1, <2>4, FS_EmptySet DEF BestIsTop
    <2> QED
        BY <1>1, <2>1, <2>4, <2>5, <2>6, FS_EmptySet DEF SearchInv
<1> QED
    BY <1>2, <1>3

LEMMA ReadRowKeeps ==
    ASSUME SearchInv, NEW row, ReadRow(row)
    PROVE  SearchInv'
<1>1. /\ TypeOK /\ row \in unread /\ unread' = unread \ {row} /\ docs' = docs
      /\ turn' = turn /\ search' = search /\ score' = score /\ result' = result
    BY DEF SearchInv, ReadRow
<1>2. search.stage = "reading" /\ row \in DOMAIN score /\ score[row] \in Nat
    BY <1>1, SearchAssumption DEF SearchInv, TypeOK
<1>3. best' \subseteq Found' /\ IsFiniteSet(best') /\ BestIsTop'
    <2>1. CASE score[row] = 0
        <3>1. best' = best
            BY <2>1 DEF ReadRow
        <3>2. Found' = Found
            BY <1>1, <1>2, <2>1 DEF Found
        <3> QED
            BY <1>1, <3>1, <3>2 DEF SearchInv, BestIsTop, Precedes
    <2>2. CASE score[row] # 0
        <3>1. best' = Kept(row)
            BY <2>2 DEF ReadRow
        <3>2. Found' = Found \cup {row}
            BY <1>1, <1>2, <2>2 DEF Found
        <3>3. TopOf(Kept(row), Found \cup {row})
            BY <1>1, <1>2, <2>2, KeptIsTop
        <3>4. TopOf(best', Found')
            BY <3>1, <3>2, <3>3
        <3> QED
            BY <1>1, <3>4 DEF TopOf, BestIsTop, Precedes, Earlier
    <2> QED
        BY <2>1, <2>2
<1>4. Found' \subseteq DOMAIN score
    BY <1>1 DEF Found
<1>5. TypeOK'
    BY <1>1, <1>3, <1>4 DEF TypeOK
<1> QED
    BY <1>1, <1>2, <1>3, <1>5 DEF SearchInv

LEMMA AnswerKeeps ==
    ASSUME SearchInv, Answer
    PROVE  SearchInv'
<1>1. /\ TypeOK /\ unread = {} /\ unread' = unread /\ best' = best /\ docs' = docs
      /\ turn' = turn /\ score' = score /\ result' = Sorted(best)
      /\ search' = [search EXCEPT !.stage = "answered"]
    BY DEF SearchInv, Answer
<1>2. /\ search' \in [stage : Stages, limit : 0 .. MaxLimit, scope : SUBSET Owned]
      /\ search'.stage = "answered" /\ search'.limit = search.limit
    BY <1>1 DEF TypeOK, Stages
<1>3. result' \in Seq(RowType)
    <2>1. Sorted(best) \in [1 .. Cardinality(best) -> best]
        BY <1>1, SortedIsSorted DEF SearchInv, TypeOK, Scored
    <2>2. Cardinality(best) \in Nat
        BY FS_CardinalityType DEF SearchInv
    <2>3. best \subseteq RowType
        BY <1>1 DEF TypeOK
    <2> QED
        BY <1>1, <2>1, <2>2, <2>3
<1>4. TypeOK'
    BY <1>1, <1>2, <1>3 DEF TypeOK
<1>5. BestIsTop'
    BY <1>1, <1>2 DEF SearchInv, BestIsTop, Found, Precedes, Earlier
<1>6. Sorted(best)' = Sorted(best)
    BY <1>1 DEF Sorted, Precedes, Earlier
<1> QED
    BY <1>1, <1>2, <1>4, <1>5, <1>6 DEF SearchInv

LEMMA SearchInvHolds == Spec => []SearchInv
<1>1. ASSUME SearchInv, [Next]_vars PROVE SearchInv'
    <2>1. CASE Next
        BY <1>1, <2>1, AskKeeps, ReadRowKeeps, AnswerKeeps DEF Next
    <2>2. CASE UNCHANGED vars
        <3>1. Sorted(best)' = Sorted(best)
            BY <2>2 DEF vars, Sorted, Precedes, Earlier
        <3>2. TypeOK' /\ BestIsTop'
            BY <1>1, <2>2
            DEF vars, SearchInv, TypeOK, BestIsTop, Found, Precedes, Earlier
        <3> QED
            BY <1>1, <2>2, <3>1, <3>2 DEF vars, SearchInv
    <2> QED
        BY <1>1, <2>1, <2>2
<1> QED
    BY <1>1, SearchInit, PTL DEF Spec

\* Every variable has its type: a search is never more than one of the project's
\* own versions, with a limit in range.
THEOREM SearchTypeOK == Spec => []TypeOK
<1>1. SearchInv => TypeOK
    BY DEF SearchInv
<1> QED
    BY <1>1, SearchInvHolds, PTL

\* At every moment of the stream the heap holds the best of the rows read, for
\* any number of rows, any limit and any order of rows: heapreplace loses none.
THEOREM SearchBestIsTop == Spec => []BestIsTop
<1>1. SearchInv => BestIsTop
    BY DEF SearchInv
<1> QED
    BY <1>1, SearchInvHolds, PTL

-----------------------------------------------------------------------------
(* The answer.                                                             *)

\* The sorted heap is all of the heap, and the place of a chunk in it tells how
\* many chunks of the heap precede it.
LEMMA SortedIsOnto ==
    ASSUME Scored, NEW S \in SUBSET DOMAIN score, IsFiniteSet(S)
    PROVE  \A r \in S : \E i \in 1 .. Cardinality(S) : Sorted(S)[i] = r
<1> DEFINE n == Cardinality(S)
           I == 1 .. n
           s == Sorted(S)
<1>1. n \in Nat
    BY FS_CardinalityType
<1>2. s \in [I -> S] /\ InOrder(s, n)
    BY SortedIsSorted
<1>3. IsFiniteSet(I) /\ Cardinality(I) = n
    BY <1>1, FS_Interval
<1> HIDE DEF n, s
<1>4. ASSUME NEW i \in I, NEW j \in I, i < j PROVE s[i] # s[j]
    <2>1. Precedes(s[i], s[j]) /\ s[i] \in DOMAIN score /\ s[j] \in DOMAIN score
        BY <1>2, <1>4 DEF InOrder
    <2>2. Below(s[j], s[i])
        BY <2>1, HeapOrder
    <2> QED
        BY <2>1, <2>2, HeapOrder
<1>5. \A i, j \in I : s[i] = s[j] => i = j
    BY <1>1, <1>4
<1>6. s \in Injection(I, S)
    BY <1>2, <1>5 DEF Injection, IsInjective
<1>7. s \in Surjection(I, S)
    BY <1>3, <1>6, FS_Injection DEF n
<1> QED
    BY <1>7 DEF Surjection, s, n

LEMMA PlaceInSorted ==
    ASSUME Scored, NEW S \in SUBSET DOMAIN score, IsFiniteSet(S),
           NEW i \in 1 .. Cardinality(S)
    PROVE  Cardinality({x \in S : Precedes(x, Sorted(S)[i])}) = i - 1
<1> DEFINE n == Cardinality(S)
           s == Sorted(S)
           P == {x \in S : Precedes(x, s[i])}
           J == 1 .. i - 1
           t == [j \in J |-> s[j]]
<1>1. n \in Nat
    BY FS_CardinalityType
<1>2. s \in [1 .. n -> S] /\ InOrder(s, n) /\ i \in 1 .. n
    BY SortedIsSorted
<1>3. \A r \in S : \E j \in 1 .. n : s[j] = r
    BY SortedIsOnto
<1> HIDE DEF n, s
<1>4. \A a, b \in S : ~ (Precedes(a, b) /\ Precedes(b, a))
    BY HeapOrder
<1>5. \A j \in 1 .. n : j < i => Precedes(s[j], s[i])
    BY <1>2 DEF InOrder
<1>6. \A j \in 1 .. n : Precedes(s[j], s[i]) => j < i
    <2>1. SUFFICES ASSUME NEW j \in 1 .. n, Precedes(s[j], s[i]), ~ (j < i)
                   PROVE  FALSE
        OBVIOUS
    <2>2. j = i \/ i < j
        BY <1>1, <1>2, <2>1
    <2>3. s[i] \in S /\ s[j] \in S
        BY <1>2
    <2>4. CASE j = i
        BY <1>4, <2>1, <2>3, <2>4
    <2>5. CASE i < j
        <3>1. Precedes(s[i], s[j])
            BY <1>2, <2>5 DEF InOrder
        <3> QED
            BY <1>4, <2>1, <2>3, <3>1
    <2> QED
        BY <2>2, <2>4, <2>5
<1>7. \A j \in J : j \in 1 .. n /\ j < i
    BY <1>1, <1>2
<1>8. t \in [J -> P]
    BY <1>2, <1>5, <1>7
<1>9. \A x \in P : \E j \in J : t[j] = x
    <2>1. SUFFICES ASSUME NEW x \in P PROVE \E j \in J : t[j] = x
        OBVIOUS
    <2>2. PICK j \in 1 .. n : s[j] = x
        BY <1>3
    <2>3. j < i
        BY <1>6, <2>1, <2>2
    <2>4. j \in J
        BY <1>1, <1>2, <2>2, <2>3
    <2> QED
        BY <2>2, <2>4
<1>10. \A j, k \in J : j < k => t[j] # t[k]
    <2>1. SUFFICES ASSUME NEW j \in J, NEW k \in J, j < k PROVE t[j] # t[k]
        OBVIOUS
    <2>2. Precedes(s[j], s[k]) /\ s[j] \in S /\ s[k] \in S
        BY <1>2, <1>7, <2>1 DEF InOrder
    <2> QED
        BY <1>4, <2>2
<1>11. \A j, k \in J : t[j] = t[k] => j = k
    <2>1. \A j, k \in J : j = k \/ j < k \/ k < j
        BY <1>1, <1>2
    <2> QED
        BY <1>10, <2>1
<1> HIDE DEF t
<1>12. t \in Bijection(J, P)
    BY <1>8, <1>9, <1>11 DEF Bijection, Injection, Surjection, IsInjective
<1>13. IsFiniteSet(J) /\ Cardinality(J) = i - 1
    BY <1>1, <1>2, FS_Interval
<1>14. ExistsBijection(J, P)
    BY <1>12 DEF ExistsBijection
<1>15. Cardinality(P) = Cardinality(J)
    BY <1>13, <1>14, FS_Bijection
<1> QED
    BY <1>13, <1>15 DEF P, s

LEMMA AnswerIsExact == SearchInv => ResultIsExact
<1> SUFFICES ASSUME SearchInv, search.stage = "answered" PROVE ResultIsExact
    BY DEF ResultIsExact
<1> DEFINE Before(r) == {x \in DOMAIN score : score[x] > 0 /\ Precedes(x, r)}
           n == Cardinality(best)
<1>1. /\ unread = {} /\ result = Sorted(best) /\ IsFiniteSet(best)
      /\ IsFiniteSet(DOMAIN score) /\ BestIsTop
    BY DEF SearchInv
<1>2. Scored /\ best \in SUBSET DOMAIN score /\ search.limit \in Nat
    BY SearchAssumption DEF SearchInv, TypeOK, Scored
<1>3. n \in Nat
    BY <1>1, FS_CardinalityType
<1>4. Found = {r \in DOMAIN score : score[r] > 0}
    BY <1>1 DEF Found
<1>5. DOMAIN result = 1 .. n /\ \A i \in 1 .. n : result[i] \in best
    BY <1>1, <1>2, SortedIsSorted
<1>6. ASSUME NEW i \in DOMAIN result PROVE Cardinality(Before(result[i])) = i - 1
    <2>1. i \in 1 .. n /\ result[i] \in best
        BY <1>5
    <2>2. ASSUME NEW x \in Found, Precedes(x, result[i]) PROVE x \in best
        <3>1. SUFFICES ASSUME x \notin best PROVE FALSE
            OBVIOUS
        <3>2. Precedes(result[i], x)
            BY <1>1, <2>1, <2>2, <3>1 DEF BestIsTop
        <3> QED
            BY <1>2, <1>4, <2>1, <2>2, <3>2, HeapOrder
    <2>3. Before(result[i]) = {x \in best : Precedes(x, result[i])}
        BY <1>1, <1>4, <2>2 DEF BestIsTop
    <2>4. Cardinality({x \in best : Precedes(x, Sorted(best)[i])}) = i - 1
        BY <1>1, <1>2, <2>1, PlaceInSorted
    <2> QED
        BY <1>1, <2>3, <2>4
<1>7. ASSUME NEW r \in DOMAIN score, score[r] > 0, Cardinality(Before(r)) < search.limit
      PROVE  \E i \in DOMAIN result : result[i] = r
    <2>1. r \in best
        <3>1. SUFFICES ASSUME r \notin best PROVE FALSE
            OBVIOUS
        <3>2. r \in Found \ best
            BY <1>4, <1>7, <3>1
        <3>3. best \subseteq Before(r)
            BY <1>1, <1>2, <1>4, <3>2 DEF BestIsTop
        <3>4. IsFiniteSet(Before(r)) /\ Cardinality(best) <= Cardinality(Before(r))
            BY <1>1, <3>3, FS_Subset
        <3>5. Cardinality(Before(r)) \in Nat
            BY <3>4, FS_CardinalityType
        <3>6. n < search.limit
            BY <1>2, <1>3, <1>7, <3>4, <3>5
        <3> QED
            BY <1>1, <3>2, <3>6 DEF BestIsTop
    <2> QED
        BY <1>1, <1>2, <1>5, <2>1, SortedIsOnto
<1> QED
    BY <1>6, <1>7 DEF ResultIsExact

\* The agent is given the beginning of the full sorted list of matching chunks,
\* for any documents, rows, order of rows and limit.
THEOREM SearchResultIsExact == Spec => []ResultIsExact
BY SearchInvHolds, AnswerIsExact, PTL

-----------------------------------------------------------------------------
\* chunk_text leaves no character out.

LEMMA LeastNumber ==
    ASSUME NEW T \in SUBSET Nat, T # {}
    PROVE  \E x \in T : \A y \in T : x <= y
<1>1. PICK x \in T : \A y \in T : <<y, x>> \notin OpToRel(<, Nat)
    BY NatLessThanWellFounded, WFMin, Zenon
<1>2. \A y \in T : ~ (y < x)
    BY <1>1 DEF OpToRel
<1> QED
    BY <1>2

LEMMA StepBounds == /\ Step \in Nat /\ Step >= 1 /\ Step <= ChunkSize
                    /\ ChunkSize \in Nat
BY CoverageAssumption DEF Step

LEMMA PiecesCover ==
    ASSUME NEW n \in Nat, NEW c \in 1 .. n
    PROVE  \E k \in PieceNumbers(n) : c \in PieceOf(n, k)
<1> DEFINE T == {k \in 0 .. n : c <= k * Step + ChunkSize}
<1>1. c * Step >= c
    <2>1. (c * Step) - c = c * (Step - 1) /\ c * (Step - 1) >= 0
        BY StepBounds
    <2> QED
        BY <2>1, StepBounds
<1>2. c \in T
    BY <1>1, StepBounds
<1>3. PICK k \in T : \A j \in T : k <= j
    <2>1. T \in SUBSET Nat /\ T # {}
        BY <1>2
    <2> HIDE DEF T
    <2> QED
        BY <2>1, LeastNumber
<1>4. CASE k = 0
    <2>1. k \in PieceNumbers(n)
        BY <1>4 DEF PieceNumbers
    <2>2. k * Step = 0
        BY <1>4, StepBounds
    <2> QED
        BY <1>3, <2>1, <2>2, StepBounds DEF PieceOf
<1>5. CASE k # 0
    <2>1. k - 1 \in 0 .. n /\ k - 1 \notin T
        BY <1>3, <1>5
    <2>2. (k - 1) * Step = (k * Step) - Step /\ k * Step \in Nat
        BY <1>3, StepBounds
    <2>3. (k - 1) * Step + ChunkSize < c
        BY <2>1, <2>2, StepBounds
    <2>4. k \in PieceNumbers(n)
        BY <1>3, <2>2, <2>3, StepBounds DEF PieceNumbers
    <2>5. k * Step < c
        BY <2>2, <2>3, StepBounds
    <2> QED
        BY <1>3, <2>4, <2>5 DEF PieceOf
<1> QED
    BY <1>4, <1>5

-----------------------------------------------------------------------------
\* Sections of a Word document are numbered by the blocks that open them.

OpenersUpTo(d, i) == {j \in 1 .. i : Opens(d, j)}

LEMMA BlocksTyped ==
    ASSUME NEW d \in Documents, d.kind = "docx"
    PROVE  /\ Len(d.parts) \in Nat /\ DOMAIN d.parts = 1 .. Len(d.parts)
           /\ \A i \in DOMAIN d.parts : d.parts[i] \in Blocks
BY DEF Documents

LEMMA SectionNumbers ==
    ASSUME NEW d \in Documents, d.kind = "docx"
    PROVE  /\ \A i \in Nat : SectionOf(d, i) \in Nat
           /\ SectionOf(d, 0) = 0
           /\ Sections(d) = SectionOf(d, Len(d.parts))
           /\ \A i \in Nat : SectionOf(d, i + 1) =
                IF Opens(d, i + 1) THEN SectionOf(d, i) + 1 ELSE SectionOf(d, i)
           /\ \A i, j \in Nat : i <= j => SectionOf(d, i) <= SectionOf(d, j)
<1>1. \A i \in Nat : IsFiniteSet(OpenersUpTo(d, i)) /\ Cardinality(OpenersUpTo(d, i)) \in Nat
    <2> TAKE i \in Nat
    <2>1. IsFiniteSet(1 .. i) /\ OpenersUpTo(d, i) \in SUBSET (1 .. i)
        BY FS_Interval DEF OpenersUpTo
    <2> QED
        BY <2>1, FS_Subset, FS_CardinalityType
<1>2. \A i : SectionOf(d, i) = Cardinality(OpenersUpTo(d, i))
    BY DEF SectionOf, OpenersUpTo
<1>3. SectionOf(d, 0) = 0
    <2>1. OpenersUpTo(d, 0) = {}
        BY DEF OpenersUpTo
    <2> QED
        BY <1>2, <2>1, FS_EmptySet
<1>4. Sections(d) = SectionOf(d, Len(d.parts))
    BY BlocksTyped DEF Sections, SectionOf
<1>5. ASSUME NEW i \in Nat
      PROVE  SectionOf(d, i + 1) =
                IF Opens(d, i + 1) THEN SectionOf(d, i) + 1 ELSE SectionOf(d, i)
    <2>1. OpenersUpTo(d, i + 1) =
            IF Opens(d, i + 1) THEN OpenersUpTo(d, i) \cup {i + 1} ELSE OpenersUpTo(d, i)
        <3>1. 1 .. (i + 1) = (1 .. i) \cup {i + 1}
            OBVIOUS
        <3> QED
            BY <3>1 DEF OpenersUpTo
    <2>2. i + 1 \notin OpenersUpTo(d, i)
        BY DEF OpenersUpTo
    <2> QED
        BY <1>1, <1>2, <2>1, <2>2, FS_AddElement
<1>6. ASSUME NEW i \in Nat, NEW j \in Nat, i <= j
      PROVE  SectionOf(d, i) <= SectionOf(d, j)
    <2>1. OpenersUpTo(d, i) \in SUBSET OpenersUpTo(d, j)
        BY <1>6 DEF OpenersUpTo
    <2> QED
        BY <1>1, <1>2, <2>1, FS_Subset
<1> QED
    BY <1>1, <1>2, <1>3, <1>4, <1>5, <1>6

\* Each section is opened by one of its blocks.
LEMMA SectionHasOpener ==
    ASSUME NEW d \in Documents, d.kind = "docx", NEW s \in 1 .. Sections(d)
    PROVE  \E i \in DOMAIN d.parts : Opens(d, i) /\ SectionOf(d, i) = s
<1> DEFINE n == Len(d.parts)
           T == {i \in 0 .. n : SectionOf(d, i) >= s}
<1>n. /\ n \in Nat /\ s \in Nat /\ s >= 1
      /\ DOMAIN d.parts = 1 .. n
      /\ s <= SectionOf(d, n)
    <2>1. Sections(d) \in Nat /\ Sections(d) = SectionOf(d, n)
        BY SectionsAreNat, SectionNumbers
    <2> QED
        BY <2>1, BlocksTyped
<1>t. (\A i \in Nat : SectionOf(d, i) \in Nat) /\ SectionOf(d, 0) = 0
    BY SectionNumbers
<1> HIDE DEF n
<1>1. n \in T
    BY <1>n
<1>2. PICK i \in T : \A j \in T : i <= j
    <2>1. T \in SUBSET Nat /\ T # {}
        BY <1>1, <1>n
    <2> HIDE DEF T
    <2> QED
        BY <2>1, LeastNumber
<1>3. i # 0 /\ i \in 1 .. n /\ i - 1 \in Nat
    BY <1>2, <1>n, <1>t
<1>4. SectionOf(d, i - 1) < s
    <2>1. i - 1 \notin T /\ i - 1 \in 0 .. n
        BY <1>2, <1>3, <1>n
    <2>2. SectionOf(d, i - 1) \in Nat
        BY <1>3, <1>t
    <2> QED
        BY <2>1, <2>2, <1>n
<1>5. SectionOf(d, i) =
        IF Opens(d, i) THEN SectionOf(d, i - 1) + 1 ELSE SectionOf(d, i - 1)
    <2>1. (i - 1) + 1 = i
        BY <1>3
    <2> QED
        BY <1>3, <2>1, SectionNumbers
<1>6. SectionOf(d, i) >= s /\ SectionOf(d, i) \in Nat /\ SectionOf(d, i - 1) \in Nat
    BY <1>2, <1>3, <1>t
<1>7. Opens(d, i) /\ SectionOf(d, i) = s
    BY <1>4, <1>5, <1>6, <1>n
<1> QED
    BY <1>3, <1>7, <1>n

\* A block with content is in a section.
LEMMA ContentHasSection ==
    ASSUME NEW d \in Documents, d.kind = "docx", NEW i \in DOMAIN d.parts,
           Content(d.parts[i])
    PROVE  SectionOf(d, i) \in 1 .. Sections(d)
<1> DEFINE T == {j \in 1 .. i : Content(d.parts[j])}
<1>1. i \in 1 .. Len(d.parts) /\ i \in T
    BY BlocksTyped
<1>2. PICK j \in T : \A k \in T : j <= k
    <2>1. T \in SUBSET Nat /\ T # {}
        BY <1>1
    <2> HIDE DEF T
    <2> QED
        BY <2>1, LeastNumber
<1>3. Opens(d, j)
    BY <1>1, <1>2 DEF Opens
<1>4. /\ j - 1 \in Nat /\ j \in Nat /\ i \in Nat /\ Len(d.parts) \in Nat
      /\ (j - 1) + 1 = j /\ j <= i /\ i <= Len(d.parts)
    BY <1>1, <1>2, BlocksTyped
<1>5. SectionOf(d, j) = SectionOf(d, j - 1) + 1
    BY <1>3, <1>4, SectionNumbers
<1>6. /\ SectionOf(d, j - 1) \in Nat /\ SectionOf(d, i) \in Nat
      /\ SectionOf(d, j) <= SectionOf(d, i)
      /\ SectionOf(d, i) <= Sections(d) /\ Sections(d) \in Nat
    BY <1>4, SectionNumbers
<1> QED
    BY <1>5, <1>6

\* A section with text has a text of at least a character.
LEMMA TextCounted ==
    ASSUME NEW d \in Documents, d.kind = "docx", NEW i \in DOMAIN d.parts, d.parts[i].text
    PROVE  TextIn(d, SectionOf(d, i)) > 0
<1> DEFINE S == {j \in DOMAIN d.parts : d.parts[j].text /\ SectionOf(d, j) = SectionOf(d, i)}
<1>1. S # {} /\ S \in SUBSET DOMAIN d.parts
    OBVIOUS
<1>2. TextIn(d, SectionOf(d, i)) = Cardinality(S)
    BY DEF TextIn
<1> HIDE DEF S
<1>3. IsFiniteSet(S) /\ Cardinality(S) \in Nat
    BY <1>1, CountedPartsAreNat
<1>4. Cardinality(S) # 0
    BY <1>1, <1>3, FS_EmptySet
<1> QED
    BY <1>2, <1>3, <1>4

-----------------------------------------------------------------------------
\* The report and the judgement of a document.

LEMMA SectionInChunks ==
    ASSUME NEW d \in Documents, d.kind = "docx", NEW s \in 1 .. Sections(d)
    PROVE  InChunks(d, s, TextIn(d, s))
<1>1. TextIn(d, s) \in Nat
    BY SectionsAreNat
<1> SUFFICES ASSUME NEW c \in 1 .. TextIn(d, s)
             PROVE  \E x \in ChunksOf(d) : x.place = s /\ c \in PieceOf(TextIn(d, s), x.piece)
    BY DEF InChunks
<1>2. PICK k \in PieceNumbers(TextIn(d, s)) : c \in PieceOf(TextIn(d, s), k)
    BY <1>1, PiecesCover
<1>3. [place |-> s, piece |-> k] \in ChunksOf(d)
    BY <1>2 DEF ChunksOf, DocxChunks
<1> QED
    BY <1>2, <1>3

LEMMA PageInChunks ==
    ASSUME NEW d \in Documents, d.kind = "pdf", NEW i \in PagesOf(d, "parsed")
    PROVE  InChunks(d, i, d.parts[i].visible)
<1>1. d.parts[i].visible \in Nat
    <2>1. d.parts \in Seq(Pages) /\ i \in DOMAIN d.parts
        BY DEF Documents, PagesOf
    <2>2. d.parts[i] \in Pages
        BY <2>1
    <2> QED
        BY <2>2 DEF Pages
<1> DEFINE n == d.parts[i].visible
<1> SUFFICES ASSUME NEW c \in 1 .. n
             PROVE  \E x \in ChunksOf(d) : x.place = i /\ c \in PieceOf(n, x.piece)
    BY DEF InChunks
<1>2. PICK k \in PieceNumbers(n) : c \in PieceOf(n, k)
    BY <1>1, PiecesCover
<1>3. [place |-> i, piece |-> k] \in ChunksOf(d)
    BY <1>2 DEF ChunksOf, PdfChunks
<1> QED
    BY <1>2, <1>3

LEMMA ParsedCovered ==
    ASSUME NEW d \in Documents
    PROVE  ParsedIsInChunks(d)
<1>1. CASE d.kind = "pdf"
    <2>1. Coverage(d).parsed = PagesOf(d, "parsed")
        BY <1>1 DEF Coverage, PdfCoverage
    <2> QED
        BY <1>1, <2>1, PageInChunks DEF ParsedIsInChunks
<1>2. CASE d.kind = "docx"
    <2>1. Coverage(d).inSections \subseteq 1 .. Sections(d)
        BY <1>2 DEF Coverage, DocxCoverage
    <2> QED
        BY <1>2, <2>1, SectionInChunks DEF ParsedIsInChunks
<1> QED
    BY <1>1, <1>2 DEF Documents

\* Every PDF has the issue that tables are not detected, so none counts as parsed.
LEMMA PdfIsPartial ==
    ASSUME NEW d \in Documents, d.kind = "pdf"
    PROVE  StatusOf(d) # "parsed"
<1>1. Issue("pdf_table_detection_unavailable", NoPlace, NoPlace) \in Coverage(d).issues
    BY DEF Coverage, PdfCoverage, PdfIssues
<1>2. \E x \in Coverage(d).issues : x.code # "blank_page"
    BY <1>1 DEF Issue
<1> QED
    BY <1>2 DEF StatusOf, Outcome

\* A Word document counts as parsed if something of it was read and nothing is
\* reported as not read; then every section has text.
LEMMA DocxParsed ==
    ASSUME NEW d \in Documents, d.kind = "docx", StatusOf(d) = "parsed"
    PROVE  /\ ~ d.more /\ \A i \in DOMAIN d.parts : ~ d.parts[i].lossy
           /\ Coverage(d).issues = {}
           /\ Coverage(d).inSections = 1 .. Sections(d)
           /\ Sections(d) > 0
<1>1. /\ ChunksOf(d) # {}
      /\ \A x \in Coverage(d).issues : x.code = "blank_page"
    BY DEF StatusOf, Outcome
<1>2. Coverage(d).issues = DocxIssues(d)
    BY DEF Coverage, DocxCoverage
<1>3. ~ d.more
    <2> SUFFICES ASSUME d.more PROVE FALSE
        OBVIOUS
    <2>1. Issue("non_body_story_not_extracted", NoPlace, NoPlace) \in DocxIssues(d)
        BY DEF DocxIssues
    <2> QED
        BY <1>1, <1>2, <2>1 DEF Issue
<1>4. \A i \in DOMAIN d.parts : ~ d.parts[i].lossy
    <2> SUFFICES ASSUME NEW i \in DOMAIN d.parts, d.parts[i].lossy PROVE FALSE
        OBVIOUS
    <2>1. Issue("object", NoPlace, SectionOf(d, i)) \in DocxIssues(d)
        BY DEF DocxIssues, ObjectIssues
    <2> QED
        BY <1>1, <1>2, <2>1 DEF Issue
<1>5. DocxIssues(d) = {}
    BY <1>3, <1>4 DEF DocxIssues, ObjectIssues
<1>6. ASSUME NEW s \in 1 .. Sections(d) PROVE TextIn(d, s) > 0
    <2>1. PICK i \in DOMAIN d.parts : Opens(d, i) /\ SectionOf(d, i) = s
        BY SectionHasOpener
    <2>2. d.parts[i].text
        BY <1>4, <2>1 DEF Opens, Headed, Content
    <2> QED
        BY <2>1, <2>2, TextCounted
<1>7. Coverage(d).inSections = 1 .. Sections(d)
    BY <1>6 DEF Coverage, DocxCoverage
<1>8. Sections(d) > 0
    <2>1. PICK x \in ChunksOf(d) : TRUE
        BY <1>1
    <2>2. PICK s \in 1 .. Sections(d) : TRUE
        BY <2>1 DEF ChunksOf, DocxChunks
    <2> QED
        BY <2>2, SectionsAreNat
<1> QED
    BY <1>2, <1>3, <1>4, <1>5, <1>7, <1>8

LEMMA DocxComplete ==
    ASSUME NEW d \in Documents, d.kind = "docx", StatusOf(d) = "parsed"
    PROVE  Complete(StatusOf(d), Coverage(d))
<1>1. /\ Coverage(d).sections = Sections(d) /\ Coverage(d).parsed = {}
      /\ Coverage(d).blank = {} /\ Coverage(d).failed = {} /\ Coverage(d).ocr = {}
    BY DEF Coverage, DocxCoverage
<1> QED
    BY <1>1, DocxParsed DEF Complete, CompleteDocx

LEMMA DocxWhole ==
    ASSUME NEW d \in Documents, d.kind = "docx", StatusOf(d) = "parsed"
    PROVE  Whole(d)
<1>1. ASSUME NEW i \in DOMAIN d.parts, d.parts[i].text
      PROVE  InChunks(d, SectionOf(d, i), TextIn(d, SectionOf(d, i)))
    <2>1. SectionOf(d, i) \in 1 .. Sections(d)
        BY <1>1, ContentHasSection DEF Content
    <2> QED
        BY <2>1, SectionInChunks
<1> QED
    BY <1>1, DocxParsed DEF Whole

LEMMA FlagIsStatus ==
    ASSUME TypeOK, NEW v \in Versions
    PROVE  Flag(v) <=> Status(v) = "parsed"
<1>1. docs[v] \in Documents
    BY DEF TypeOK
<1>2. Flag(v) => Status(v) = "parsed"
    BY DEF Flag, Complete
<1>3. ASSUME Status(v) = "parsed" PROVE Flag(v)
    <2>1. turn[v] # 0 /\ StatusOf(docs[v]) = "parsed"
        BY <1>3 DEF Status
    <2>2. docs[v].kind = "docx"
        BY <1>1, <2>1, PdfIsPartial DEF Documents
    <2> QED
        BY <1>1, <1>3, <2>1, <2>2, DocxComplete DEF Flag, Status
<1> QED
    BY <1>2, <1>3

\* The two judgements of one report agree, for any document.
THEOREM SearchFlagAgreesWithStatus == Spec => []FlagAgreesWithStatus
<1>1. TypeOK => FlagAgreesWithStatus
    BY FlagIsStatus DEF FlagAgreesWithStatus
<1> QED
    BY <1>1, SearchTypeOK, PTL

\* What is reported as parsed is in the chunks to the last character, and what
\* is called complete is whole, for any document, chunk size and overlap.
THEOREM SearchReportIsTrue == Spec => []ReportIsTrue
<1>1. ASSUME TypeOK PROVE ReportIsTrue
    <2> SUFFICES ASSUME NEW v \in Versions
                 PROVE  ParsedIsInChunks(docs[v]) /\ (Flag(v) => Whole(docs[v]))
        BY DEF ReportIsTrue
    <2>1. docs[v] \in Documents
        BY <1>1 DEF TypeOK
    <2>2. ASSUME Flag(v) PROVE Whole(docs[v])
        <3>1. StatusOf(docs[v]) = "parsed"
            BY <1>1, <2>2, FlagIsStatus DEF Status, Flag
        <3>2. docs[v].kind = "docx"
            BY <2>1, <3>1, PdfIsPartial DEF Documents
        <3> QED
            BY <2>1, <3>1, <3>2, DocxWhole
    <2> QED
        BY <2>1, <2>2, ParsedCovered
<1> QED
    BY <1>1, SearchTypeOK, PTL

=============================================================================
