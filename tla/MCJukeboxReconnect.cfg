SPECIFICATION Spec
CONSTANTS
    Controllers = {ann}
    MaxSessions = 2
    MaxPlaybacks = 2
    MaxRevision = 2
    MaxReports = 1
INVARIANTS
    ReconciledOnConnect
CHECK_DEADLOCK FALSE
