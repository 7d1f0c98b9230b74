\* Disk pressure, failing writes and a restart on the Pi; short appends, power
\* losses and timeouts on the device.
CONSTANTS
    NoSegment = NoSegment
    Torn = Torn
    SegmentRecords = 2
    Quota = 4
    CardTotal = 20
    OtherUse = 0
    Reserve = 2
    WriteFaults = {"short"}
    MaxPackets = 2
    Threads = {t1, t2}
    RingSegment = 1
    RingQuota = 1
    ShortWrites = TRUE
    MaxSegments = 3
    MaxRestarts = 1
    RecentCapacity = 3
    PressureMayRise = TRUE
SPECIFICATION PipelineSpec
INVARIANTS
    StoreIsSound
    DrainedIsStoredOrFailed
