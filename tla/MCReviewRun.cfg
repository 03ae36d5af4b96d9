\* Three requirements in batches of two, an agent that calls one writing tool,
\* on any requirement of the project, in every execution of the job, one fault.
CONSTANTS
    MaxReq = 3
    BatchSize = 2
    MaxTools = 1
    AgentStrays = TRUE
    MaxFaults = 1
SPECIFICATION Spec
CHECK_DEADLOCK FALSE
INVARIANTS
    NoRequirementSkipped
    ResumePointSound
    NoWastedCall
    VerdictsFollowedUp
    DoubtsAwaited
PROPERTIES
    ImplementsPromises
    ReviewSettles
