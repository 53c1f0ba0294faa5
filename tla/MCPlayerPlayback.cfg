SPECIFICATION Spec
CONSTANTS
    Tracks = {t1}
    Accounts = {ann}
    NoListener = NoListener
    Positions = {0, 1}
    Volumes = {0}
    Repeats = {"all", "one"}
    Shuffles = {TRUE}
    MaxBatch = 2
    MaxQueue = 2
    MaxItems = 2
    MaxPlaybacks = 3
    MaxRevision = 5
INVARIANTS
    PlaybackOfCurrentItem
    ListenOnce
PROPERTIES
    PlaybackIdsFresh
    KeepsContract
CHECK_DEADLOCK FALSE
