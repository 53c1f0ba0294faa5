SPECIFICATION Spec
CONSTANTS
    Clients = {web}
    Writers = {wes}
    MaxRevision = 1
    MaxRequests = 1
    MaxFrames = 1
    MaxRemovals = 1
INVARIANTS
    WatchersAreServed
CHECK_DEADLOCK FALSE
