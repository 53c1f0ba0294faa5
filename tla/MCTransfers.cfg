SPECIFICATION MCSpec
CONSTANTS
  Folder = {f, g}
  g = g
  Content = {x, y}
  x = x
  y = y
  Manifest <- MCManifest
  Found <- MCFound
  Excluded = {g}
  Picture = {x}
  Transfer = {t1, t2}
  None = None
  Unhashed = Unhashed
  MaxRemovals = 1
  Stream = {s1, s2}
  Chunks = 2
  MaxOpens = 2
  NoStream = NoStream
SYMMETRY Interchangeable
INVARIANTS TypeOK AllOrNothing ScanVouches FedInOrder EntryIsLive NoStreamHangs
PROPERTIES NothingOverwritten
CHECK_DEADLOCK FALSE
