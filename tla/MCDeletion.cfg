SPECIFICATION Spec
CONSTANTS
  Account = {alice, bob}
  Name = {one, two}
  Request = {d1, d2}
  Writer = {w1}
  Old = Old
  None = None
  Mixed = Mixed
  MaxCrashes = 1
INVARIANTS TypeOK StagedIsNoted RowHasFile
PROPERTIES StoreSpec RestartClears
CHECK_DEADLOCK FALSE
