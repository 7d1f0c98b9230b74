SPECIFICATION EngineSpec
CONSTANTS
  \* EdgeGuard
  Devices = {d1, d2}
  MaxBoot = 1
  MaxSequence = 1
  MaxInFlight = 1
  ClockErrors = {0, 1}
  MAX_PAST_SKEW = 1
  MAX_FUTURE_SKEW = 1
  MAX_REGRESSION = 1
  SessionTTL = 2
  PruneInterval = 2
  MaxSessions = 1
  MaxTime = 4
  \* BoundedState
  Keys = {"k1", "k2"}
  MaxKeys = 1
  RateLimit = 2
  RateWindow = 2
  MaxPast = 1
  MaxFuture = 1
  StreamTTL = 3
  \* OperatorAuth
  OperatorKeys = {"current", "revoked"}
  KeyRecords <- MCKeyRecords
  Requests <- MCRequests
  Bodies = {"none", "a", "b"}
  NoGeofences = "none"
  Invalid = "invalid"
  MAX_CLOCK_SKEW = 1
  NonceTTL = 3
  MaxEntries = 1
  REQUIRE_OPERATOR_AUTH = FALSE
  AuditCapacity = 2
  MaxChanges = 3
  \* ProfileMemory
  ProfileNames <- MCProfileNames
  EntryNames <- MCEntryNames
  Uses = {1, 2}
  MAX_ENTRIES = 1
  MAX_PROFILES = 2
  MAX_MEMORY_KEYS = 3
  \* UpdateLifecycle
  Offered <- MCOffered
  MaxIndex = 2
  \* KeyRegistries
  Forever = 9
  Holders = {"h1"}
  KeyNames = {"k1", "k2", "k3"}
  Validities <- MCValidities
  HandWritten <- MCHandWritten
  MaxHolders = 1
  MaxKeysPerHolder = 2
  MaxParsedKeys = 2
  REQUIRE_DEVICE_AUTH = FALSE
  \* ConnectedRoad
  Providers = {"p1", "p2"}
  ProviderKeys <- MCProviderKeys
  ProviderRequests <- MCProviderRequests
  PROVIDER_MAX_SKEW = 1
  ReplayTTL = 3
  MaxReplayEntries = 2
  REQUIRE_PROVIDER_AUTH = FALSE
  SpatAge = 1
  EmergencyAge = 2
  TopologyAge = 3
  FutureAge = 1
  MaxShown = 2
  \* VehicleAccess
  Vehicles = {v}
  Profiles = {p, q}
  GrantIds = {1, 2, 3}
  GrantRoles = {"owner", "admin", "valet"}
  Offers <- MCOffers
  Windows <- MCWindows
  Days = {0, 1, 2}
  MaxGrants = 2
INVARIANTS
  
  LimitsAreKept
  
  UpdatesAreEarned
  RevocationIsFinal
  

  
SYMMETRY MCSymmetry
CHECK_DEADLOCK FALSE
