\* Two threads, two tender versions of two candidates, three runs.
CONSTANTS
    Clients = {c1, c2}
    Tenders = {t1, t2}
    NoTender = none
    Candidates = {a, b}
    MaxRuns = 3
SPECIFICATION Spec
CHECK_DEADLOCK FALSE
INVARIANTS
    OneTenderMatrix
    OwnTenderReviewed
    NewestTenderShown
