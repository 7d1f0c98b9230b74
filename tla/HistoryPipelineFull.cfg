\* One spell of disk pressure; DrainedIsStoredOrInHand is refuted.
CONSTANTS
    NoSegment = NoSegment
    Torn = Torn
    SegmentRecords = 2
    Quota = 4
    CardTotal = 20
    OtherUse = 0
    Reserve = 2
    WriteFaults = {}
    MaxPackets = 2
    Threads = {t1, t2}
    RingSegment = 2
    RingQuota = 4
    ShortWrites = FALSE
    MaxSegments = 3
    MaxRestarts = 0
    RecentCapacity = 3
    PressureMayRise = TRUE
SPECIFICATION PipelineSpec
INVARIANT DrainedIsStoredOrInHand
