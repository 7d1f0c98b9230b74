\* The three processes, resets at any point and the command line with its --apply
\* and --execute flags given; a critical failure that stays ends in a reboot.
CONSTANTS
    Partition = {2, 3}
    DefaultPartition = 2
    MaxCandidateAttempts = 1
    None = None
    SlotAPartition = 2
    SlotBPartition = 3
    ApplyFlags = {TRUE}
    FailureThreshold = 1
    MaxGeneration = 2
    MaxAgentRestarts = 1
SPECIFICATION FairSpec
INVARIANTS
    TrialIsContained
PROPERTIES
    TrustIsEarned
    
