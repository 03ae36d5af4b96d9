------------------------------ MODULE MCIngestion ------------------------------
(***************************************************************************)
(* Two requests in one process, which may be exchanged, and one in another;*)
(* two contents and two suffixes, which may be exchanged as well.          *)
(***************************************************************************)
EXTENDS Ingestion, TLC

CONSTANTS p1, p2, t1, t2, t3, c1, c2, pdf, docx

MCThreads == {<<p1, t1>>, <<p1, t2>>, <<p2, t3>>}
Symmetry == Permutations({t1, t2}) \cup Permutations({c1, c2})
                \cup Permutations({pdf, docx})
================================================================================
