\* Two client threads, two file scopes, two jobs, two faults.
SPECIFICATION Spec
CONSTANTS
    Clients = {c1, c2}
    Scopes = {s1, s2}
    NoScope = none
    MaxJobs = 2
    MaxFaults = 2
INVARIANTS
    SerialOrder
    RunningIsHeld
    DuplicatesBounded
PROPERTIES
    JobsKeepLife
    SettledStays
    QueueDrains
