\* Two requests in one process and one in another, two contents under two names.
SPECIFICATION Spec
CONSTANTS
    p1 = p1
    p2 = p2
    t1 = t1
    t2 = t2
    t3 = t3
    c1 = c1
    c2 = c2
    pdf = pdf
    docx = docx
    Threads <- MCThreads
    Project = project
    Contents = {c1, c2}
    Suffixes = {pdf, docx}
    MaxAttempts = 3
    MaxFaults = 1
    None = none
SYMMETRY Symmetry
CHECK_DEADLOCK FALSE
INVARIANTS
    RowsSound
    StoredUnlessHarmed
    GivesUpOnlyOvertaken
PROPERTIES
    ImplementsRegister
