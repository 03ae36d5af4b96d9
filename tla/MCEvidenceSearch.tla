--------------------------- MODULE MCEvidenceSearch ---------------------------
(***************************************************************************)
(* Values for the constants of EvidenceSearch: version 1 is any document   *)
(* of at most two pages or blocks around the thresholds, version 2 a PDF   *)
(* with a page of text, version 3 a file of another project.               *)
(***************************************************************************)
EXTENDS EvidenceSearch

SeqsUpTo(S, n) == UNION {[1 .. k -> S] : k \in 0 .. n}

MCPages == {p \in [readable : BOOLEAN, visible : 0 .. 3, image : BOOLEAN] :
                p.readable \/ (p.visible = 0 /\ ~ p.image)}

MCDocuments ==
    [kind : {"pdf"}, parts : SeqsUpTo(MCPages, 2), more : BOOLEAN] \cup
    [kind : {"docx"}, parts : SeqsUpTo(Blocks, 2), more : BOOLEAN]

PlainPdf ==
    [kind |-> "pdf", parts |-> <<[readable |-> TRUE, visible |-> 2, image |-> FALSE]>>,
     more |-> FALSE]

MCLibraries ==
    {[v \in Versions |-> IF v = 1 THEN d ELSE PlainPdf] : d \in MCDocuments}

=============================================================================
