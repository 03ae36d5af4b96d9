\* Two requirements, one per batch, an agent that only answers, one crash.
CONSTANTS
    MaxReq = 2
    BatchSize = 1
    MaxTools = 0
    AgentStrays = FALSE
    MaxFaults = 1
SPECIFICATION Spec
CHECK_DEADLOCK FALSE
INVARIANT CompletedMeansNoDoubt
