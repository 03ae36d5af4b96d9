\* Three requirements in batches of two, one proposal version, one assessment
\* saved by the agent itself in each call, one crash.
CONSTANTS
    MaxReq = 3
    BatchSize = 2
    Tender = tender
    OldTender = old
    Proposals = {proposal}
    MaxTools = 1
    MaxCrashes = 1
SPECIFICATION CallsSpec
CHECK_DEADLOCK FALSE
INVARIANT AttemptsLedgered
