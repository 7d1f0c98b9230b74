\* An append that leaves an empty file; BacklogDrains is refuted.
CONSTANTS
    NoSegment = NoSegment
    Torn = Torn
    SegmentRecords = 2
    Quota = 4
    CardTotal = 20
    OtherUse = 0
    Reserve = 2
    WriteFaults = {"empty"}
    MaxPackets = 3
SPECIFICATION FairSpec
PROPERTY BacklogDrains
