\* Two threads, two requirements, two versions, three runs.
CONSTANTS
    Clients = {c1, c2}
    Reqs = {r1, r2}
    MaxVersions = 2
    MaxRuns = 3
SPECIFICATION Spec
SYMMETRY Symmetry
CHECK_DEADLOCK FALSE
INVARIANTS
    InvalidatedIsCovered
    NoStaleSupport
PROPERTY NoResurfacing
