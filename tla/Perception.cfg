SPECIFICATION PerceptionSpec
CONSTANTS
  \* DriverAssist
  ConfirmWindow = 2
  DmsWindow = 4
  MaxGap = 1
  MinSpan = 1
  Microsleep = 2
  ClosedPattern = 3
  LiveAge = 1
  StaleAge = 2
  SignAge = 2
  SignHistory = 3
  MaxSigns = 3
  MaxLate = 1
  Cameras = {"c1", "c2"}
  MinCameras = 2
  \* NextgenRuntime
  CameraIds = {"c1", "c2"}
  Mounts = {"front", "rear", "cabin"}
  RequiredMounts = {"front", "rear"}
  Errors = {1, 2}
  MaxCalibrated = 2
  FrameAge = 2
  Ahead = 1
  SurroundAge = 1
  SyncSpread = 0
  ShownFor = 1
  MaxCount = 1
  Vehicles = {"v1", "v2", "v3"}
  MaxHorizons = 2
  HorizonAge = 1
  MaxRefreshes = 2
  StateWindow = 2
  SampleAge = 1
  MaxSamples = 3
  Delays <- MCDelays
  \* Perception
  Places <- MCPlaces
  Reports <- MCReports
  MaxSeen = 2
  \* SensorFusion
  RadarMaxAge = 1
  CameraMaxAge = 1
  CrossSkew = 1
  StaleAfter <- MCStaleAfter
  StampAhead = 1
  PositionAhead = 2
  MaxObjects = 2
  Tracks <- MCTracks
  Detections <- MCDetections
  FrameStamps <- MCStamps
  FarAhead = 2
  \* RiskAssessment
  Speeds = {0, 10, 20}
  Ranges = {10, 20, 40}
  Confidences = {50, 60, 80}
  SampleAges <- MCSampleAges
  RiskMaxAge = 1
  \* SotifMonitor
  MaxShortfalls = 3
  \* AssuranceGates
  RadarTracks = {1, 2}
  CameraObjects = {1, 2}
  MaxMatches = 3
  \* HistoryPolicies
  TrackIds = {"one", "two"}
  Measures = {0, 1, 3}
  Lateness <- MCLateness
  PolicyAge = 1
  MinSamples = 2
  MaxJump = 1
  WindowSize = 1
  MaxHistory = 3
  MaxOld = 2
  \* AlertPipeline
  Keys = {"k1", "k2"}
  Hold = 1
  DowngradeHold = 2
  Capacity = 2
  SeenFactor = 1
  MaxAlerts = 2
INVARIANTS
  AlertsAreKept
  
  SensingIsSound
  JudgementsHideNothing
PROPERTIES
  JudgementsAreMonotone
  WarningsAreSteady
  RefreshesAreSeen
