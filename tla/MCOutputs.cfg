SPECIFICATION MCSpec
CONSTANTS
    Controllers = {ann}
    MaxSessions = 2
    MaxPlaybacks = 2
    MaxRevision = 2
    MaxReports = 1
    a = a
    b = b
    Track = {a, b}
    Albums <- MCAlbums
    MaxTokens = 2
    Mine = Mine
    Theirs = Theirs
    Local = Local
    None = None
    MaxChanges = 3
    MaxPending = 2
    MaxQueue = 2
    MaxActs = 5
    MaxVisits = 2
INVARIANTS
    PageTypeOK
    OutputFollowsRow
    LocalQueueKept
    SoundsOwn
    SpeakerFollows
PROPERTIES
    OutputCatchesUp
CHECK_DEADLOCK FALSE
