SPECIFICATION Spec
CONSTANTS
  Owner = owner
  Other = {ann}
  Tab = {tab1, tab2}
  Watcher = {ann}
  MaxRequests = 3
INVARIANTS TypeOK ChecklistClean OpenByChoice SpeakerStays
PROPERTY ListsCatchUp
CHECK_DEADLOCK FALSE
