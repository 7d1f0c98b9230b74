\* The documented flow (all --apply flags given); RefusedOnlyIfServed is refuted.
CONSTANTS
    Partition = {2, 3}
    DefaultPartition = 2
    MaxCandidateAttempts = 1
    None = None
    SlotAPartition = 2
    SlotBPartition = 3
    ApplyFlags = {TRUE}
    FailureThreshold = 1
    MaxGeneration = 2
    MaxAgentRestarts = 0
SPECIFICATION Spec
PROPERTY RefusedOnlyIfServed
