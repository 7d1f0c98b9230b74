SPECIFICATION LinkSpec
CONSTANTS
  Ids = {1, 2, 3}
  TelemetryLimit = 1
  HeartbeatLimit = 2
  SessionAnswers = {"ready", "retryable", "unavailable"}
  MaxBoot = 2
  MaxSequence = 1
  MaxQueue = 1
  MaxTroubles = 2
INVARIANTS LinkTypeOK
PROPERTIES  LinkRecovers StaleIsShown
CHECK_DEADLOCK FALSE
