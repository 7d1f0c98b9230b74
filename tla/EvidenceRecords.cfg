\* Three files of two records, so that a rotation has a rename between its
\* unlink and the rename of the active file; two restarts.
CONSTANTS
    MaxFiles = 3
    FileRecords = 2
    NoFile = NoFile
    Unreadable = Unreadable
    MaxRecords = 7
    MaxRestarts = 2
    Actors = {ana, ben, cai}
    RecordIds = {e1, e2, e3}
    Packages = {p1, p2, p3}
    Builds = {b1}
    MaxIndexed = 2
    MaxBufferedEvents = 2
    MaxSnapshotAge = 1
    MaxFutureSkew = 1
    None = None
    Commits = {c1, c2}
    NoCommit = NoCommit
    Roles = {"analyser", "display"}
    Targets = {"computer"}
    Groups = {"front"}
    Scenarios <- MCScenarios
    Needs <- MCNeeds
SPECIFICATION RecordsSpec
INVARIANTS
    JournalIsKept
    EvidenceIsReviewed
PROPERTIES
    RecordsStand
    AppendsSettle
CHECK_DEADLOCK FALSE
