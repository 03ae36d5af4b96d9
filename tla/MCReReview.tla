------------------------------ MODULE MCReReview ------------------------------
(***************************************************************************)
(* A small instance of ReReview.  Threads may be exchanged, and so may     *)
(* requirements: none of them is named by a definition.                    *)
(***************************************************************************)
EXTENDS ReReview, TLC

Symmetry == Permutations(Clients) \cup Permutations(Reqs)

================================================================================
