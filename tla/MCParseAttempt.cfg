\* Two uploads of the content and the review worker, five attempts, two faults.
CONSTANTS
    Uploads = {u1, u2}
    Worker = w
    MaxClaims = 5
    MaxFaults = 2
SPECIFICATION Spec
CHECK_DEADLOCK FALSE
INVARIANTS
    StatusMatchesChunks
    ParsingIsHeld
    JobHasChunks
PROPERTIES
    NewestWins
    SnapshotKept
    ParsingEnds
