SPECIFICATION MCSpec
CONSTANTS
    Tracks = {t1, t2}
    Accounts = {}
    NoListener = NoListener
    Positions = {0}
    Volumes = {}
    Repeats = {"all"}
    Shuffles = {}
    MaxBatch = 1
    MaxQueue = 3
    MaxItems = 3
    MaxPlaybacks = 2
    MaxRevision = 8
    MaxAlone = 6
    Controllers = {ann}
    MaxSessions = 2
    MaxReports = 1
    MaxCommands = 2
INVARIANTS
    SharedTypeOK
    CurrentItem
    ItemIdentity
    SatellitePlaysCurrent
PROPERTIES
    ItemIdsFresh
    EditsDoNotInterrupt
CHECK_DEADLOCK FALSE
