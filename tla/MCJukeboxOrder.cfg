SPECIFICATION Spec
CONSTANTS
    Controllers = {ann, bob}
    MaxSessions = 1
    MaxPlaybacks = 2
    MaxRevision = 2
    MaxReports = 1
INVARIANTS
    OrderedPacketsSuffice
CHECK_DEADLOCK FALSE
