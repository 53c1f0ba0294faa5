SPECIFICATION Spec
CONSTANTS
    Clients = {web}
    Writers = {wes}
    MaxRevision = 2
    MaxRequests = 1
    MaxFrames = 1
    MaxRemovals = 1
INVARIANTS
    TypeOK
    Converged
PROPERTIES
    CatchesUp
CHECK_DEADLOCK FALSE
