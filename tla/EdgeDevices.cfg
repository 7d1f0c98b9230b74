\* Three partitions, so that a staged one can differ from both slots' usual ones; card faults
\* that the firmware notices, and power losses at any point; a small buffer and short delays.
SPECIFICATION DevicesSpec
CONSTANTS
  \* BootGuard
  Partition = {2, 3, 4}
  DefaultPartition = 2
  MaxCandidateAttempts = 2
  None = None
  \* EdgeSpool
  NoSegment = NoSegment
  Torn = Torn
  SegmentRecords = 2
  Quota = 4
  CardTotal = 20
  OtherUse = 0
  Reserve = 2
  WriteFaults = {"no-open", "empty"}
  MaxPackets = 5
  \* CameraDetector
  QueueSize = 2
  MaxFrameAge = 2
  FailureThreshold = 2
  ReopenBase = 1
  ReopenMax = 2
  BackoffBase = 1
  BackoffMax = 2
  MaxLevel = 2
  RetryAfters = {0, 3}
  Periods <- MCPeriods
INVARIANTS
  TypeOK
  TrialApartFromKnownGood
  KnownGoodIsTrusted
  TrybootBudget
  SpoolIsSound
  
PROPERTIES
  ImplementsABRecovery
  OldestLeavesFirst
  PostedOnceInOrder
  DevicesRecover
CHECK_DEADLOCK FALSE
